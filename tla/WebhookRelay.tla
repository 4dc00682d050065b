---------------------------- MODULE WebhookRelay ----------------------------
(***************************************************************************)
(* Webhooks on their way to the agents.  The interceptor stores each one   *)
(* in a key-value store under a fresh ulid and answers; a sender without   *)
(* an answer may send again.  Consumers, started by cron and free to       *)
(* overlap, list the oldest keys, read and delete each event and forward   *)
(* it to the gateway, which never accepts some webhooks.                   *)
(*                                                                         *)
(* An event is its number in key order.  The store is eventually           *)
(* consistent: an event deleted may be read for a while.  What is in an    *)
(* event, signatures and normalizers are left out.                         *)
(***************************************************************************)
EXTENDS Naturals, Sequences, FiniteSets, FiniteSetsExt

CONSTANTS
  Hooks,       \* webhooks that are sent
  Bad,         \* those the gateway rejects
  Consumers,   \* consumers that may run at once
  Limit,       \* POLL_LIMIT
  MaxEvents,   \* bound on events stored
  MaxFaults    \* bound on calls that fail or lose their answer, stale reads, expiries and crashes

ASSUME RelayAssumption ==
  /\ Limit \in Nat \ {0} /\ MaxEvents \in Nat /\ MaxFaults \in Nat
  /\ IsFiniteSet(Consumers)

VARIABLES
  accepted,    \* webhooks whose sender has its 202
  events,      \* the webhook of each event stored so far
  kv,          \* events in the store
  stale,       \* events deleted that a read may still find
  con,         \* the consumers
  delivered,   \* how often the gateway accepted each event
  excess,      \* how often the delete of each event failed, or it was read after it
  faults       \* faults so far

vars == <<accepted, events, kv, stale, con, delivered, excess, faults>>

Stored == DOMAIN events

\* todo: keys listed and not yet taken up; event: the key in hand.
Consumer(pc, todo, event) == [pc |-> pc, todo |-> todo, event |-> event]
Idle == Consumer("idle", {}, 0)
TakeUp(todo) == IF todo = {} THEN Idle ELSE Consumer("read", todo \ {Min(todo)}, Min(todo))
Continue(c) == con' = [con EXCEPT ![c] = TakeUp(con[c].todo)]
GoTo(c, pc) == con' = [con EXCEPT ![c].pc = pc]

\* Who has read an event and not yet forwarded it.
Holders(e) == {c \in Consumers : con[c].event = e /\ con[c].pc \in {"delete", "forward"}}

TypeOK ==
  /\ accepted \subseteq Hooks
  /\ events \in Seq(Hooks) /\ Len(events) <= MaxEvents
  /\ kv \subseteq Stored /\ stale \subseteq Stored \ kv
  /\ con \in [Consumers -> [pc: {"idle", "read", "delete", "forward"},
                            todo: SUBSET Stored, event: Stored \cup {0}]]
  /\ \A c \in Consumers : con[c].pc = "idle" <=> con[c].event = 0
  /\ delivered \in [1..MaxEvents -> Nat] /\ excess \in [1..MaxEvents -> Nat]
  /\ faults \in 0..MaxFaults

Init ==
  /\ accepted = {} /\ events = <<>>
  /\ kv = {} /\ stale = {}
  /\ con = [c \in Consumers |-> Idle]
  /\ delivered = [e \in 1..MaxEvents |-> 0] /\ excess = [e \in 1..MaxEvents |-> 0]
  /\ faults = 0

Fault == faults < MaxFaults /\ faults' = faults + 1                 \* bound
NoFault == UNCHANGED faults

-----------------------------------------------------------------------------
\* Mutant: the put is not awaited.
ReceiveUnawaited(h) ==
  /\ h \notin accepted
  /\ Len(events) < MaxEvents
  /\ events' = Append(events, h) /\ accepted' = accepted \cup {h}
  /\ kv' \in {kv, kv \cup {Len(events) + 1}}
  /\ UNCHANGED <<stale, con, delivered, excess, faults>>

\* POST /hooks/:mapping.  A put that fails may have stored the event; a 202 may be lost.
Receive(h) ==
  /\ h \notin accepted
  /\ \/ /\ Len(events) < MaxEvents                                  \* bound
        /\ events' = Append(events, h)
        /\ kv' = kv \cup {Len(events) + 1}
        /\ \/ accepted' = accepted \cup {h} /\ NoFault
           \/ UNCHANGED accepted /\ Fault
     \/ Fault /\ UNCHANGED <<accepted, events, kv>>
  /\ UNCHANGED <<stale, con, delivered, excess>>

\* consumeEvents lists the oldest keys, among them perhaps some that are deleted.  A list that
\* fails three times changes nothing.
Oldest(keys) == {e \in keys : Cardinality({d \in keys : d < e}) < Limit}

Poll(c) ==
  /\ con[c].pc = "idle"
  /\ \E seen \in SUBSET stale :
       /\ kv \cup seen # {}
       /\ con' = [con EXCEPT ![c] = TakeUp(Oldest(kv \cup seen))]
  /\ UNCHANGED <<accepted, events, kv, stale, delivered, excess, faults>>

\* An event that is gone is skipped, and one that cannot be read is left in the store.
GetEvent(c) ==
  /\ con[c].pc = "read"
  /\ LET e == con[c].event IN
       \/ e \in kv /\ GoTo(c, "delete") /\ NoFault /\ UNCHANGED excess
       \/ e \in stale /\ GoTo(c, "delete") /\ Fault /\ excess' = [excess EXCEPT ![e] = @ + 1]
       \/ e \notin kv /\ Continue(c) /\ NoFault /\ UNCHANGED excess
       \/ Continue(c) /\ Fault /\ UNCHANGED excess
  /\ UNCHANGED <<accepted, events, kv, stale, delivered>>

\* Mutant: the delete is not awaited.
DeleteSometime(c) ==
  /\ con[c].pc = "delete"
  /\ GoTo(c, "forward")
  /\ kv' \in {kv, kv \ {con[c].event}}
  /\ UNCHANGED <<accepted, events, stale, delivered, excess, faults>>

\* A delete that is refused is only logged.  One that throws, after it was carried out or
\* before, ends the handling of the event.
DeleteEvent(c) ==
  /\ con[c].pc = "delete"
  /\ LET e == con[c].event IN
       \/ /\ GoTo(c, "forward") /\ NoFault
          /\ kv' = kv \ {e} /\ stale' \in {stale, stale \cup (kv \cap {e})}
          /\ UNCHANGED excess
       \/ /\ GoTo(c, "forward") /\ Fault
          /\ excess' = [excess EXCEPT ![e] = @ + 1]
          /\ UNCHANGED <<kv, stale>>
       \/ /\ Continue(c) /\ Fault
          /\ kv' \in {kv, kv \ {e}}
          /\ UNCHANGED <<stale, excess>>
  /\ UNCHANGED <<accepted, events, delivered>>

\* Mutant: a rejected event is put back for the next poll.
ForwardOrPutBack(c) ==
  /\ con[c].pc = "forward"
  /\ Continue(c)
  /\ LET e == con[c].event IN
       \/ /\ events[e] \notin Bad /\ NoFault
          /\ delivered' = [delivered EXCEPT ![e] = @ + 1]
          /\ UNCHANGED kv
       \/ /\ IF events[e] \in Bad THEN NoFault ELSE Fault
          /\ kv' = kv \cup {e}
          /\ UNCHANGED delivered
  /\ UNCHANGED <<accepted, events, stale, excess>>

\* What the gateway rejects, or does not answer, is not tried again.
ForwardEvent(c) ==
  /\ con[c].pc = "forward"
  /\ Continue(c)
  /\ LET e == con[c].event IN
       \/ /\ events[e] \notin Bad /\ NoFault
          /\ delivered' = [delivered EXCEPT ![e] = @ + 1]
       \/ /\ IF events[e] \in Bad THEN NoFault ELSE Fault
          /\ UNCHANGED delivered
  /\ UNCHANGED <<accepted, events, kv, stale, excess>>

CrashConsumer(c) ==
  /\ con[c].pc # "idle" /\ Fault
  /\ con' = [con EXCEPT ![c] = Idle]
  /\ UNCHANGED <<accepted, events, kv, stale, delivered, excess>>

\* The store drops an event 24 h after the put, and forgets at last what was deleted.
Expire(e) ==
  /\ e \in kv /\ Fault
  /\ kv' = kv \ {e}
  /\ UNCHANGED <<accepted, events, stale, con, delivered, excess>>

Settle(e) ==
  /\ e \in stale /\ stale' = stale \ {e}
  /\ UNCHANGED <<accepted, events, kv, con, delivered, excess, faults>>

ConsumerStep(c) == GetEvent(c) \/ DeleteEvent(c) \/ ForwardEvent(c)

Next ==
  \/ \E h \in Hooks : Receive(h)
  \/ \E c \in Consumers : Poll(c) \/ ConsumerStep(c) \/ CrashConsumer(c)
  \/ \E e \in Stored : Expire(e) \/ Settle(e)

Spec == Init /\ [][Next]_vars

\* Consumers go on and are started again by cron; the store comes to agree with itself.
FairSpec ==
  /\ Spec
  /\ \A c \in Consumers : WF_vars(Poll(c)) /\ WF_vars(ConsumerStep(c))
  /\ \A e \in 1..MaxEvents : WF_vars(e \in Stored /\ Settle(e))

-----------------------------------------------------------------------------
\* Every fault costs one event at most, a crash in the middle of a batch included: what is in no
\* consumer's hands and was not delivered is in the store, unless the gateway rejects it.
Gone(e) == e \notin kv /\ Holders(e) = {} /\ delivered[e] = 0 /\ events[e] \notin Bad
LossBounded == Cardinality({e \in Stored : Gone(e)}) <= faults

\* consume.ts deletes before it forwards "to prevent double-processing": the gateway gets an
\* event once for each consumer that read it before the first delete, and once more for each
\* delete that failed or read after it; a poll never picks up what an earlier one has forwarded.
DeliveriesBounded ==
  \A e \in Stored : delivered[e] + Cardinality(Holders(e)) <= Cardinality(Consumers) + excess[e]

\* A webhook that the gateway rejects holds up nobody: every event leaves the store, delivered
\* or given up.
Drained == \A e \in 1..MaxEvents : e \in Stored ~> e \in Stored \ kv /\ Holders(e) = {}
=============================================================================
