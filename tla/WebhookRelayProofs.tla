------------------------- MODULE WebhookRelayProofs -------------------------
(***************************************************************************)
(* Proofs about WebhookRelay, for any webhooks, consumers, batch size and  *)
(* number of faults.  The bound on deliveries is not inductive: IInv adds  *)
(* that an event still in the store was forwarded once for each delete     *)
(* that failed at most (Early), which leaves room for all its readers      *)
(* when the store lets it go, and that an event to come is untouched       *)
(* (Fresh).  The bound on losses is, step by step (LosesOne).  At the end: *)
(* a batch gets done, and what is listed leaves the store for good.        *)
(***************************************************************************)
EXTENDS WebhookRelay, FiniteSetTheorems, WellFoundedInduction, TLAPS

\* The two ways of holding an event, before its delete and after it, by the consumers k.
At(k, e, pc) == {c \in Consumers : k[c].event = e /\ k[c].pc = pc}
Reading(e) == Cardinality(At(con, e, "delete"))
Forwarding(e) == Cardinality(At(con, e, "forward"))

Fresh == \A e \in (1..MaxEvents) \ Stored : delivered[e] = 0 /\ excess[e] = 0
Early == \A e \in kv : delivered[e] + Forwarding(e) <= excess[e]
Within == \A e \in Stored :
  delivered[e] + Forwarding(e) + Reading(e) <= Cardinality(Consumers) + excess[e]

IInv == TypeOK /\ Fresh /\ Early /\ Within

Cons == [pc: {"idle", "read", "delete", "forward"}, todo: SUBSET Stored, event: Stored \cup {0}]

-----------------------------------------------------------------------------
\* The least member of a set of numbers is one of them, and none is less.
LEMMA MinIn ==
  ASSUME NEW S, S \subseteq Nat, S # {}
  PROVE  Min(S) \in S /\ \A y \in S : Min(S) <= y
<1>1. \E x \in S : \A y \in S : ~ (<<y, x>> \in OpToRel(<, Nat))
  BY NatLessThanWellFounded, WFMin, Zenon
<1>2. ASSUME NEW x \in Nat, NEW y \in Nat, y < x PROVE <<y, x>> \in OpToRel(<, Nat)
  BY <1>2, Zenon DEF OpToRel
<1>3. \E x \in S : \A y \in S : ~ (y < x)
  BY <1>1, <1>2
<1>4. \E x \in S : \A y \in S : x <= y
  BY <1>3
<1> QED
  BY <1>4 DEF Min

\* The stored events are numbers, and the bounds cover them.
LEMMA StoredNumbers ==
  ASSUME TypeOK
  PROVE  /\ Stored = 1..Len(events) /\ Len(events) \in Nat
         /\ Stored \subseteq Nat \ {0} /\ Stored \subseteq 1..MaxEvents
BY RelayAssumption DEF TypeOK, Stored

\* What a consumer has in hand after a batch is handed to it, or one more key taken up.
LEMMA TakeUpShape ==
  ASSUME TypeOK, NEW todo, todo \subseteq Stored
  PROVE  /\ TakeUp(todo) \in Cons
         /\ TakeUp(todo).pc \in {"idle", "read"}
         /\ TakeUp(todo).pc = "idle" <=> TakeUp(todo).event = 0
<1>1. CASE todo = {}
  BY <1>1 DEF TakeUp, Idle, Consumer, Cons
<1>2. CASE todo # {}
  <2>1. Min(todo) \in todo
    BY <1>2, MinIn, StoredNumbers
  <2> QED
    BY <1>2, <2>1, StoredNumbers DEF TakeUp, Consumer, Cons
<1> QED
  BY <1>1, <1>2

\* The consumers at an event are counted by a number, not above that of all of them.
LEMMA Counts ==
  ASSUME NEW k, NEW e, NEW pc
  PROVE  /\ IsFiniteSet(At(k, e, pc)) /\ Cardinality(At(k, e, pc)) \in Nat
         /\ Cardinality(Consumers) \in Nat
         /\ Cardinality(At(k, e, pc)) <= Cardinality(Consumers)
<1>1. IsFiniteSet(Consumers) /\ At(k, e, pc) \in SUBSET Consumers
  BY RelayAssumption DEF At
<1> QED
  BY <1>1, FS_Subset, FS_CardinalityType

\* One consumer moves: the sets change by that consumer alone.
LEMMA Moves ==
  ASSUME NEW k, NEW new, NEW c \in Consumers, NEW e, NEW pc,
         \A d \in Consumers : d # c => new[d] = k[d]
  PROVE  Cardinality(At(new, e, pc)) =
           IF new[c].event = e /\ new[c].pc = pc
             THEN IF c \in At(k, e, pc) THEN Cardinality(At(k, e, pc)) ELSE Cardinality(At(k, e, pc)) + 1
             ELSE IF c \in At(k, e, pc) THEN Cardinality(At(k, e, pc)) - 1 ELSE Cardinality(At(k, e, pc))
<1>1. At(new, e, pc) = IF new[c].event = e /\ new[c].pc = pc
                         THEN At(k, e, pc) \cup {c} ELSE At(k, e, pc) \ {c}
  BY DEF At
<1> QED
  BY <1>1, Counts, FS_AddElement, FS_RemoveElement

\* What the actions call leaves its consumer in a typed place.
LEMMA Typed ==
  ASSUME TypeOK, NEW c \in Consumers, NEW r \in Cons, r.pc = "idle" <=> r.event = 0,
         con' = [con EXCEPT ![c] = r], UNCHANGED events
  PROVE  /\ con' \in [Consumers -> Cons]
         /\ Cons' = Cons
         /\ \A d \in Consumers : con'[d].pc = "idle" <=> con'[d].event = 0
BY DEF TypeOK, Cons, Stored

\* Continue and GoTo in the terms of Moves and Typed.
LEMMA ContinueShape ==
  ASSUME TypeOK, NEW c \in Consumers
  PROVE  /\ con[c] \in Cons
         /\ Continue(c) => \E r \in Cons :
              /\ con' = [con EXCEPT ![c] = r]
              /\ r.pc \in {"idle", "read"} /\ (r.pc = "idle" <=> r.event = 0)
<1>1. con[c] \in Cons /\ con[c].todo \subseteq Stored
  BY DEF TypeOK, Cons
<1> QED
  BY <1>1, TakeUpShape DEF Continue

LEMMA GoToShape ==
  ASSUME TypeOK, NEW c \in Consumers, con[c].pc # "idle", NEW pc \in {"delete", "forward"}, GoTo(c, pc)
  PROVE  \E r \in Cons :
           /\ con' = [con EXCEPT ![c] = r] /\ con[c].event \in Stored
           /\ r.pc = pc /\ r.event = con[c].event /\ (r.pc = "idle" <=> r.event = 0)
<1>1. con[c] \in Cons /\ con[c].event \in Stored /\ con[c].event # 0
  BY StoredNumbers DEF TypeOK, Cons
<1> DEFINE r == [con[c] EXCEPT !.pc = pc]
<1>2. con' = [con EXCEPT ![c] = r] /\ r \in Cons /\ r.pc = pc /\ r.event = con[c].event
  BY <1>1 DEF GoTo, Cons
<1> QED
  BY <1>1, <1>2

\* A consumer with nothing in hand, before and after, is counted nowhere.
LEMMA Unheld ==
  ASSUME NEW c \in Consumers, \A d \in Consumers : d # c => con'[d] = con[d],
         con[c].pc \in {"idle", "read"}, con'[c].pc \in {"idle", "read"}
  PROVE  \A e : Forwarding(e)' = Forwarding(e) /\ Reading(e)' = Reading(e)
<1> SUFFICES ASSUME NEW e PROVE Forwarding(e)' = Forwarding(e) /\ Reading(e)' = Reading(e)
  OBVIOUS
<1>1. c \notin At(con, e, "delete") /\ c \notin At(con, e, "forward")
  BY DEF At
<1> QED
  BY <1>1, Moves DEF Forwarding, Reading

\* A consumer that is sent to r is there, and the others are where they were.
LEMMA Sent ==
  ASSUME TypeOK, NEW c \in Consumers, NEW r, con' = [con EXCEPT ![c] = r]
  PROVE  con'[c] = r /\ \A d \in Consumers : d # c => con'[d] = con[d]
BY DEF TypeOK

-----------------------------------------------------------------------------
LEMMA InitIInv == Init => IInv
<1> SUFFICES ASSUME Init PROVE IInv
  OBVIOUS
<1>1. Len(events) = 0 /\ events \in Seq(Hooks) /\ Stored = {}
  BY DEF Init, Stored
<1>2. \A c \in Consumers : con[c] = Idle
  BY DEF Init
<1>3. TypeOK
  BY <1>1, <1>2, RelayAssumption DEF Init, TypeOK, Idle, Consumer
<1>4. Fresh /\ Early /\ Within
  BY <1>1 DEF Init, Fresh, Early, Within
<1> QED
  BY <1>3, <1>4 DEF IInv

\* A step of a consumer that moves to r, in the cases of the four conjuncts.
LEMMA TypeKept ==
  ASSUME TypeOK, NEW c \in Consumers, NEW r \in Cons, r.pc = "idle" <=> r.event = 0,
         con' = [con EXCEPT ![c] = r], UNCHANGED <<accepted, events>>,
         kv' \subseteq kv, stale' \subseteq Stored \ kv',
         delivered' \in [1..MaxEvents -> Nat], excess' \in [1..MaxEvents -> Nat],
         Fault \/ NoFault
  PROVE  TypeOK'
<1>1. con' \in [Consumers -> Cons] /\ \A d \in Consumers : con'[d].pc = "idle" <=> con'[d].event = 0
  BY Typed
<1>2. Stored' = Stored
  BY DEF Stored
<1>3. faults' \in 0..MaxFaults
  BY RelayAssumption DEF TypeOK, Fault, NoFault
<1> QED
  BY <1>1, <1>2, <1>3 DEF TypeOK, Cons

\* A new event is in nobody's hands.
LEMMA ReceiveIInv ==
  ASSUME IInv, NEW h \in Hooks, Receive(h)
  PROVE  IInv'
<1> USE DEF IInv
<1>0. UNCHANGED <<stale, con, delivered, excess>> /\ faults' \in 0..MaxFaults
  BY RelayAssumption DEF Receive, Fault, NoFault, TypeOK
<1>1. \A e, pc : At(con, e, pc)' = At(con, e, pc)
  BY <1>0 DEF At
<1>2. CASE UNCHANGED <<accepted, events, kv>>
  <2>1. TypeOK' /\ Fresh'
    BY <1>0, <1>2 DEF TypeOK, Fresh, Stored
  <2>2. Early' /\ Within'
    BY <1>0, <1>1, <1>2 DEF Early, Within, Reading, Forwarding, Stored
  <2> QED
    BY <2>1, <2>2
<1>3. CASE /\ Len(events) < MaxEvents
           /\ events' = Append(events, h) /\ kv' = kv \cup {Len(events) + 1}
           /\ accepted' \in {accepted, accepted \cup {h}}
  <2> DEFINE n == Len(events) + 1
  <2>1. /\ events' \in Seq(Hooks) /\ Len(events') = n /\ n \in 1..MaxEvents
        /\ Stored' = Stored \cup {n} /\ n \notin Stored
    BY <1>3, StoredNumbers, RelayAssumption DEF TypeOK, Stored
  <2>2. accepted' \subseteq Hooks /\ kv' \subseteq Stored' /\ stale' \subseteq Stored' \ kv'
    BY <1>0, <1>3, <2>1 DEF TypeOK
  <2>3. con' \in [Consumers -> Cons'] /\ \A c \in Consumers : con'[c].pc = "idle" <=> con'[c].event = 0
    BY <1>0, <2>1 DEF TypeOK, Cons
  <2>4. TypeOK'
    BY <1>0, <1>3, <2>1, <2>2, <2>3 DEF TypeOK, Cons
  <2>5. Fresh' /\ delivered[n] = 0 /\ excess[n] = 0
    BY <1>0, <2>1 DEF Fresh
  <2>6. \A pc : At(con, n, pc) = {}
    <3>1. \A c \in Consumers : con[c].event \in Stored \cup {0}
      BY DEF TypeOK
    <3>2. \A c \in Consumers : con[c].event # n
      BY <3>1, <2>1
    <3> QED
      BY <3>2 DEF At
  <2>7. Forwarding(n) = 0 /\ Reading(n) = 0 /\ Cardinality(Consumers) \in Nat
    BY <2>6, FS_EmptySet, Counts DEF Forwarding, Reading
  <2>8. \A e : Forwarding(e)' = Forwarding(e) /\ Reading(e)' = Reading(e)
    BY <1>1 DEF Forwarding, Reading
  <2>9. Early' /\ Within'
    BY <1>0, <1>3, <2>1, <2>5, <2>7, <2>8 DEF Early, Within
  <2> QED
    BY <2>4, <2>5, <2>9
<1> QED
  BY <1>2, <1>3 DEF Receive

\* Numbers and counts as the provers need them.
LEMMA Numbers ==
  ASSUME TypeOK, NEW e \in Stored
  PROVE  /\ delivered[e] \in Nat /\ excess[e] \in Nat
         /\ Forwarding(e) \in Nat /\ Reading(e) \in Nat
         /\ Reading(e) <= Cardinality(Consumers) /\ Cardinality(Consumers) \in Nat
BY StoredNumbers, Counts DEF TypeOK, Forwarding, Reading

\* A consumer that holds nothing before it moves and nothing after.
LEMMA PollIInv ==
  ASSUME IInv, NEW c \in Consumers, Poll(c)
  PROVE  IInv'
<1> USE DEF IInv
<1>1. PICK seen \in SUBSET stale : con' = [con EXCEPT ![c] = TakeUp(Oldest(kv \cup seen))]
  BY DEF Poll
<1> DEFINE r == TakeUp(Oldest(kv \cup seen))
<1>2. Oldest(kv \cup seen) \subseteq Stored
  BY DEF Oldest, TypeOK
<1>3. r \in Cons /\ r.pc \in {"idle", "read"} /\ (r.pc = "idle" <=> r.event = 0)
  BY <1>2, TakeUpShape
<1>4. UNCHANGED <<accepted, events, kv, stale, delivered, excess, faults>> /\ con[c].pc = "idle"
  BY DEF Poll
<1> HIDE DEF r
<1>5. con' = [con EXCEPT ![c] = r]
  BY <1>1 DEF r
<1>6. TypeOK'
  BY <1>3, <1>4, <1>5, TypeKept DEF NoFault, TypeOK
<1>7. \A e : Forwarding(e)' = Forwarding(e) /\ Reading(e)' = Reading(e)
  <2>1. con'[c] = r /\ \A d \in Consumers : d # c => con'[d] = con[d]
    BY <1>5, Sent
  <2> QED
    BY <2>1, <1>3, <1>4, Unheld
<1> QED
  BY <1>4, <1>6, <1>7 DEF Fresh, Early, Within, Stored

\* What the move of one consumer does to the counts.
LEMMA Shift ==
  ASSUME NEW c \in Consumers, \A d \in Consumers : d # c => con'[d] = con[d], NEW e
  PROVE  /\ Forwarding(e)' =
              IF con'[c].event = e /\ con'[c].pc = "forward"
                THEN IF con[c].event = e /\ con[c].pc = "forward" THEN Forwarding(e) ELSE Forwarding(e) + 1
                ELSE IF con[c].event = e /\ con[c].pc = "forward" THEN Forwarding(e) - 1 ELSE Forwarding(e)
         /\ Reading(e)' =
              IF con'[c].event = e /\ con'[c].pc = "delete"
                THEN IF con[c].event = e /\ con[c].pc = "delete" THEN Reading(e) ELSE Reading(e) + 1
                ELSE IF con[c].event = e /\ con[c].pc = "delete" THEN Reading(e) - 1 ELSE Reading(e)
<1>1. \A pc : c \in At(con, e, pc) <=> con[c].event = e /\ con[c].pc = pc
  BY DEF At
<1>2. Forwarding(e)' = Cardinality(At(con', e, "forward")) /\ Reading(e)' = Cardinality(At(con', e, "delete"))
  BY DEF Forwarding, Reading
<1>3. \A pc : Cardinality(At(con', e, pc)) =
        IF con'[c].event = e /\ con'[c].pc = pc
          THEN IF c \in At(con, e, pc) THEN Cardinality(At(con, e, pc)) ELSE Cardinality(At(con, e, pc)) + 1
          ELSE IF c \in At(con, e, pc) THEN Cardinality(At(con, e, pc)) - 1 ELSE Cardinality(At(con, e, pc))
  BY Moves
<1> QED
  BY <1>1, <1>2, <1>3 DEF Forwarding, Reading

\* The steps of a consumer, by where they send it.
Sends(c, r) ==
  /\ con' = [con EXCEPT ![c] = r] /\ r \in Cons /\ (r.pc = "idle" <=> r.event = 0)
  /\ con'[c] = r /\ \A d \in Consumers : d # c => con'[d] = con[d]

LEMMA ContinueSends ==
  ASSUME TypeOK, NEW c \in Consumers, Continue(c)
  PROVE  \E r : Sends(c, r) /\ r.pc \in {"idle", "read"}
BY ContinueShape, Sent DEF Sends

LEMMA GoToSends ==
  ASSUME TypeOK, NEW c \in Consumers, con[c].pc # "idle", NEW pc \in {"delete", "forward"}, GoTo(c, pc)
  PROVE  \E r : Sends(c, r) /\ r.pc = pc /\ r.event = con[c].event
<1>1. PICK r \in Cons : /\ con' = [con EXCEPT ![c] = r]
                        /\ r.pc = pc /\ r.event = con[c].event /\ (r.pc = "idle" <=> r.event = 0)
  BY GoToShape
<1>2. con'[c] = r /\ \A d \in Consumers : d # c => con'[d] = con[d]
  BY <1>1, Sent
<1> QED
  BY <1>1, <1>2 DEF Sends

LEMMA GetIInv ==
  ASSUME IInv, NEW c \in Consumers, GetEvent(c)
  PROVE  IInv'
<1> USE DEF IInv
<1>0. PICK e \in Stored : e = con[c].event
  BY DEF GetEvent, TypeOK
<1>1. /\ con[c].pc = "read" /\ e \in Stored /\ e \in 1..MaxEvents /\ con[c].event = e
      /\ UNCHANGED <<accepted, events, kv, stale, delivered>>
  BY <1>0, StoredNumbers DEF GetEvent
<1>2. CASE Continue(c) /\ UNCHANGED excess /\ (Fault \/ NoFault)
  <2>1. PICK r : Sends(c, r) /\ r.pc \in {"idle", "read"}
    BY <1>2, ContinueSends
  <2>2. TypeOK'
    BY <1>1, <1>2, <2>1, TypeKept DEF Sends, TypeOK
  <2>3. \A d : Forwarding(d)' = Forwarding(d) /\ Reading(d)' = Reading(d)
    BY <1>1, <2>1, Unheld DEF Sends
  <2> QED
    BY <1>1, <1>2, <2>2, <2>3 DEF Fresh, Early, Within, Stored
<1>3. CASE /\ GoTo(c, "delete") /\ (Fault \/ NoFault)
           /\ \/ e \in kv /\ UNCHANGED excess
              \/ e \in stale /\ excess' = [excess EXCEPT ![e] = @ + 1]
  <2>1. PICK r : Sends(c, r) /\ r.pc = "delete" /\ r.event = e
    BY <1>1, <1>3, GoToSends
  <2>2. excess' \in [1..MaxEvents -> Nat]
    BY <1>1, <1>3 DEF TypeOK
  <2>3. TypeOK'
    BY <1>1, <1>3, <2>1, <2>2, TypeKept DEF Sends, TypeOK
  <2>4. \A d : Forwarding(d)' = Forwarding(d) /\ Reading(d)' = IF d = e THEN Reading(d) + 1 ELSE Reading(d)
    BY <1>1, <2>1, Shift DEF Sends
  <2>5. \A d \in Stored : d # e => excess'[d] = excess[d]
    BY <1>1, <1>3, StoredNumbers DEF TypeOK
  <2>6. excess'[e] = IF e \in kv THEN excess[e] ELSE excess[e] + 1
    BY <1>1, <1>3 DEF TypeOK
  <2>7. Stored' = Stored /\ kv \subseteq Stored
    BY <1>1 DEF Stored, TypeOK
  <2>8. Fresh'
    BY <1>1, <1>3, <2>7, StoredNumbers DEF Fresh, TypeOK
  <2>9. Early'
    BY <1>1, <2>4, <2>5, <2>6, <2>7, Numbers DEF Early
  <2>10. Reading(e)' \in Nat /\ Reading(e)' <= Cardinality(Consumers)
    BY <2>3, Counts DEF Reading
  <2>11. Within'
    <3> SUFFICES ASSUME NEW d \in Stored
                 PROVE  delivered[d] + Forwarding(d)' + Reading(d)' <= Cardinality(Consumers) + excess'[d]
      BY <1>1, <2>7 DEF Within
    <3>1. CASE d # e
      BY <3>1, <2>4, <2>5 DEF Within
    <3>2. CASE d = e /\ e \in kv
      <4>1. delivered[e] + Forwarding(e) <= excess[e] /\ excess'[e] = excess[e]
        BY <3>2, <2>6 DEF Early
      <4>2. Forwarding(e)' = Forwarding(e)
        BY <2>4
      <4>3. delivered[e] \in Nat /\ excess[e] \in Nat /\ Forwarding(e) \in Nat /\ Cardinality(Consumers) \in Nat
        BY <1>1, Numbers
      <4> QED
        BY <3>2, <4>1, <4>2, <4>3, <2>10
    <3>3. CASE d = e /\ e \notin kv
      BY <3>3, <2>4, <2>6, Numbers DEF Within
    <3> QED
      BY <3>1, <3>2, <3>3
  <2> QED
    BY <2>3, <2>8, <2>9, <2>11
<1> QED
  BY <1>1, <1>2, <1>3 DEF GetEvent

LEMMA DeleteIInv ==
  ASSUME IInv, NEW c \in Consumers, DeleteEvent(c)
  PROVE  IInv'
<1> USE DEF IInv
<1>0. PICK e \in Stored : e = con[c].event
  BY DEF DeleteEvent, TypeOK
<1>1. /\ con[c].pc = "delete" /\ e \in 1..MaxEvents /\ con[c].event = e
      /\ UNCHANGED <<accepted, events, delivered>>
      /\ Stored' = Stored
  BY <1>0, StoredNumbers DEF DeleteEvent, Stored
<1>2. CASE /\ GoTo(c, "forward") /\ (Fault \/ NoFault)
           /\ \/ /\ kv' = kv \ {e} /\ stale' \in {stale, stale \cup (kv \cap {e})}
                 /\ UNCHANGED excess
              \/ excess' = [excess EXCEPT ![e] = @ + 1] /\ UNCHANGED <<kv, stale>>
  <2>1. PICK r : Sends(c, r) /\ r.pc = "forward" /\ r.event = e
    BY <1>1, <1>2, GoToSends
  <2>2. /\ excess' \in [1..MaxEvents -> Nat]
        /\ kv' \subseteq kv /\ stale' \subseteq Stored \ kv'
    <3>1. excess' \in [1..MaxEvents -> Nat]
      BY <1>1, <1>2 DEF TypeOK
    <3>2. kv \subseteq Stored /\ stale \subseteq Stored \ kv
      BY DEF TypeOK
    <3>3. kv' \subseteq kv /\ stale' \subseteq Stored \ kv'
      BY <1>0, <1>2, <3>2
    <3> QED
      BY <3>1, <3>3
  <2>3. TypeOK'
    BY <1>1, <1>2, <2>1, <2>2, TypeKept DEF Sends, TypeOK
  <2>4. \A d : /\ Forwarding(d)' = IF d = e THEN Forwarding(d) + 1 ELSE Forwarding(d)
               /\ Reading(d)' = IF d = e THEN Reading(d) - 1 ELSE Reading(d)
    BY <1>1, <2>1, Shift DEF Sends
  <2>5. \A d \in 1..MaxEvents : d # e => excess'[d] = excess[d]
    BY <1>1, <1>2 DEF TypeOK
  <2>6. (e \notin kv' /\ excess'[e] = excess[e]) \/ excess'[e] = excess[e] + 1
    BY <1>1, <1>2 DEF TypeOK
  <2>7. Fresh'
    BY <1>0, <1>1, <2>5 DEF Fresh
  <2>8. ASSUME NEW d \in kv' PROVE delivered'[d] + Forwarding(d)' <= excess'[d]
    <3>1. d \in kv /\ d \in Stored /\ d \in 1..MaxEvents
      BY <2>2, <2>8, StoredNumbers DEF TypeOK
    <3>2. delivered[d] + Forwarding(d) <= excess[d]
      BY <3>1 DEF Early
    <3> QED
      BY <1>1, <2>4, <2>5, <2>6, <2>8, <3>1, <3>2, Numbers
  <2>9. ASSUME NEW d \in Stored
        PROVE  delivered'[d] + Forwarding(d)' + Reading(d)' <= Cardinality(Consumers) + excess'[d]
    <3>1. d \in 1..MaxEvents /\ delivered[d] + Forwarding(d) + Reading(d) <= Cardinality(Consumers) + excess[d]
      BY StoredNumbers DEF Within
    <3> QED
      BY <1>1, <2>4, <2>5, <2>6, <3>1, Numbers
  <2> QED
    BY <1>1, <2>3, <2>7, <2>8, <2>9 DEF Early, Within
<1>3. CASE Continue(c) /\ Fault /\ kv' \in {kv, kv \ {e}} /\ UNCHANGED <<stale, excess>>
  <2>1. PICK r : Sends(c, r) /\ r.pc \in {"idle", "read"}
    BY <1>3, ContinueSends
  <2>2. TypeOK'
    BY <1>1, <1>3, <2>1, TypeKept DEF Sends, TypeOK
  <2>3. \A d : /\ Forwarding(d)' = Forwarding(d)
               /\ Reading(d)' = IF d = e THEN Reading(d) - 1 ELSE Reading(d)
    BY <1>1, <2>1, Shift DEF Sends
  <2>4. Fresh' /\ Early'
    BY <1>1, <1>3, <2>3 DEF Fresh, Early
  <2>5. Within'
    BY <1>1, <1>3, <2>3, Numbers DEF Within
  <2> QED
    BY <2>2, <2>4, <2>5
<1> QED
  BY <1>1, <1>2, <1>3 DEF DeleteEvent

LEMMA ForwardIInv ==
  ASSUME IInv, NEW c \in Consumers, ForwardEvent(c)
  PROVE  IInv'
<1> USE DEF IInv
<1>0. PICK e \in Stored : e = con[c].event
  BY DEF ForwardEvent, TypeOK
<1>1. /\ con[c].pc = "forward" /\ e \in 1..MaxEvents /\ con[c].event = e /\ Continue(c)
      /\ UNCHANGED <<accepted, events, kv, stale, excess>> /\ (Fault \/ NoFault)
      /\ delivered' = [delivered EXCEPT ![e] = @ + 1] \/ UNCHANGED delivered
      /\ Stored' = Stored
  BY <1>0, StoredNumbers DEF ForwardEvent, Stored
<1>2. PICK r : Sends(c, r) /\ r.pc \in {"idle", "read"}
  BY <1>1, ContinueSends
<1>3. delivered' \in [1..MaxEvents -> Nat]
  BY <1>1 DEF TypeOK
<1>4. TypeOK'
  BY <1>1, <1>2, <1>3, TypeKept DEF Sends, TypeOK
<1>5. \A d : /\ Forwarding(d)' = IF d = e THEN Forwarding(d) - 1 ELSE Forwarding(d)
             /\ Reading(d)' = Reading(d)
  BY <1>1, <1>2, Shift DEF Sends
<1>6. /\ \A d \in 1..MaxEvents : d # e => delivered'[d] = delivered[d]
      /\ delivered'[e] \in {delivered[e], delivered[e] + 1}
  BY <1>1 DEF TypeOK
<1>7. Fresh'
  BY <1>0, <1>1, <1>6 DEF Fresh
<1>8. \A d \in Stored : delivered'[d] + Forwarding(d)' <= delivered[d] + Forwarding(d)
                        /\ delivered'[d] \in Nat /\ Forwarding(d)' \in Int
  BY <1>5, <1>6, StoredNumbers, Numbers
<1>9. Early'
  <2> SUFFICES ASSUME NEW d \in kv PROVE delivered'[d] + Forwarding(d)' <= excess[d]
    BY <1>1 DEF Early
  <2>1. d \in Stored /\ delivered[d] + Forwarding(d) <= excess[d]
    BY DEF Early, TypeOK
  <2> QED
    BY <2>1, <1>8, Numbers
<1>10. Within'
  BY <1>1, <1>5, <1>8, Numbers DEF Within
<1> QED
  BY <1>4, <1>7, <1>9, <1>10

\* A consumer that dies lets go of what it holds.
LEMMA CrashIInv ==
  ASSUME IInv, NEW c \in Consumers, CrashConsumer(c)
  PROVE  IInv'
<1> USE DEF IInv
<1>1. con' = [con EXCEPT ![c] = Idle] /\ Fault /\ UNCHANGED <<accepted, events, kv, stale, delivered, excess>>
  BY DEF CrashConsumer
<1>2. Idle \in Cons /\ Idle.pc = "idle" /\ Idle.event = 0
  BY DEF Idle, Consumer, Cons
<1>3. TypeOK'
  BY <1>1, <1>2, TypeKept DEF TypeOK
<1>4. con'[c] = Idle /\ \A d \in Consumers : d # c => con'[d] = con[d]
  BY <1>1, Sent
<1>5. UNCHANGED <<accepted, events, kv, stale, delivered, excess>>
  BY <1>1
<1> HIDE DEF IInv
<1>6. ASSUME NEW e
      PROVE  Forwarding(e)' \in {Forwarding(e), Forwarding(e) - 1} /\ Reading(e)' \in {Reading(e), Reading(e) - 1}
  BY <1>2, <1>4, Shift
<1>7. \A e \in Stored : /\ Forwarding(e) \in Nat /\ Forwarding(e)' \in Int /\ Forwarding(e)' <= Forwarding(e)
                        /\ Reading(e) \in Nat /\ Reading(e)' \in Int /\ Reading(e)' <= Reading(e)
  BY <1>6, Numbers DEF IInv
<1>8. Fresh' /\ Stored' = Stored
  BY <1>5 DEF IInv, Fresh, Stored
<1>9. Early'
  BY <1>5, <1>7, Numbers DEF IInv, Early, TypeOK
<1>10. Within'
  BY <1>5, <1>7, <1>8, Numbers DEF IInv, Within
<1> QED
  BY <1>3, <1>8, <1>9, <1>10 DEF IInv

\* The store lets an event go by itself.
LEMMA StoreIInv ==
  ASSUME IInv, NEW e \in Stored, Expire(e) \/ Settle(e)
  PROVE  IInv'
<1> USE DEF IInv
<1>1. UNCHANGED <<accepted, events, con, delivered, excess>> /\ faults' \in 0..MaxFaults
  BY RelayAssumption DEF Expire, Settle, Fault, TypeOK
<1>2. kv' \subseteq kv /\ stale' \subseteq stale
  BY DEF Expire, Settle
<1>3. \A d : Forwarding(d)' = Forwarding(d) /\ Reading(d)' = Reading(d)
  BY <1>1 DEF Forwarding, Reading, At
<1>4. TypeOK'
  BY <1>1, <1>2 DEF TypeOK, Stored
<1>5. Fresh' /\ Early' /\ Within'
  BY <1>1, <1>2, <1>3 DEF Fresh, Early, Within, Stored
<1> QED
  BY <1>4, <1>5

LEMMA StutterIInv == IInv /\ UNCHANGED vars => IInv'
<1> SUFFICES ASSUME IInv, UNCHANGED vars PROVE IInv'
  OBVIOUS
<1>1. TypeOK' /\ Fresh'
  BY DEF IInv, vars, TypeOK, Fresh, Stored
<1>2. \A d : Forwarding(d)' = Forwarding(d) /\ Reading(d)' = Reading(d)
  BY DEF vars, Forwarding, Reading, At
<1>3. Early' /\ Within'
  BY <1>2 DEF IInv, vars, Early, Within, Stored
<1> QED
  BY <1>1, <1>3 DEF IInv

-----------------------------------------------------------------------------
LEMMA NextIInv == IInv /\ [Next]_vars => IInv'
<1> SUFFICES ASSUME IInv, [Next]_vars PROVE IInv'
  OBVIOUS
<1>1. ASSUME NEW h \in Hooks, Receive(h) PROVE IInv'
  BY <1>1, ReceiveIInv
<1>2. ASSUME NEW c \in Consumers, Poll(c) \/ ConsumerStep(c) \/ CrashConsumer(c) PROVE IInv'
  BY <1>2, PollIInv, GetIInv, DeleteIInv, ForwardIInv, CrashIInv DEF ConsumerStep
<1>3. ASSUME NEW e \in Stored, Expire(e) \/ Settle(e) PROVE IInv'
  BY <1>3, StoreIInv
<1>4. CASE UNCHANGED vars
  BY <1>4, StutterIInv
<1> QED
  BY <1>1, <1>2, <1>3, <1>4 DEF Next

\* The invariant of every behaviour.
THEOREM Invariance == Spec => []IInv
BY InitIInv, NextIInv, PTL DEF Spec

\* The records keep their shape, and what is in the store, or read from it after the delete,
\* was stored once and is not both.
THEOREM TypeCorrect == Spec => []TypeOK
<1>1. IInv => TypeOK
  BY DEF IInv
<1> QED
  BY <1>1, Invariance, PTL

\* consume.ts deletes before it forwards: for any number of consumers, webhooks and faults the
\* gateway gets an event once for each consumer at most, and once for each delete that failed.
THEOREM DeliveriesAreBounded == Spec => []DeliveriesBounded
<1>1. IInv => DeliveriesBounded
  <2> SUFFICES ASSUME IInv, NEW e \in Stored
               PROVE  delivered[e] + Cardinality(Holders(e)) <= Cardinality(Consumers) + excess[e]
    BY DEF DeliveriesBounded
  <2>1. Holders(e) = At(con, e, "delete") \cup At(con, e, "forward")
    BY DEF Holders, At
  <2>2. At(con, e, "delete") \cap At(con, e, "forward") = {}
    BY DEF At
  <2>3. IsFiniteSet(At(con, e, "delete")) /\ IsFiniteSet(At(con, e, "forward"))
    BY Counts
  <2>4. Cardinality(Holders(e)) = Reading(e) + Forwarding(e)
    <3>1. Cardinality(Holders(e)) = Reading(e) + Forwarding(e) - Cardinality({})
      BY <2>1, <2>2, <2>3, FS_Union DEF Reading, Forwarding
    <3> QED
      BY <3>1, FS_EmptySet, Numbers DEF IInv
  <2> QED
    BY <2>4, Numbers DEF IInv, Within
<1> QED
  BY <1>1, Invariance, PTL
-----------------------------------------------------------------------------
Lost == {e \in Stored : Gone(e)}

\* A step loses nothing, or is a fault and loses one event.
LosesOne == Lost' \subseteq Lost \/ (Fault /\ \E e : Lost' \subseteq Lost \cup {e})

\* How the holders of the events change when a consumer moves.
LEMMA HoldersMove ==
  ASSUME NEW c \in Consumers, \A d \in Consumers : d # c => con'[d] = con[d], NEW e
  PROVE  /\ con'[c].event = e /\ con'[c].pc \in {"delete", "forward"} => Holders(e)' # {}
         /\ Holders(e) # {} => \/ Holders(e)' # {}
                               \/ con[c].event = e /\ con[c].pc \in {"delete", "forward"}
BY DEF Holders

\* What a step of a consumer that keeps the webhooks can lose is the event in its hand.
LEMMA ConsumerLoses ==
  ASSUME NEW c \in Consumers, \A d \in Consumers : d # c => con'[d] = con[d],
         UNCHANGED events, NEW e, kv \ {e} \subseteq kv',
         con[c].pc \in {"delete", "forward"} => con[c].event = e,
         TypeOK, TypeOK', \A d \in Stored : d # e => delivered'[d] = delivered[d]
  PROVE  Lost' \subseteq Lost \cup {e}
<1> SUFFICES ASSUME NEW d \in Lost', d # e PROVE d \in Lost
  OBVIOUS
<1>1. d \in Stored /\ Gone(d)' /\ events' = events
  BY DEF Lost, Stored
<1>2. d \notin kv /\ delivered[d] = 0 /\ events[d] \notin Bad
  BY <1>1 DEF Gone
<1>3. Holders(d) = {}
  BY <1>1, HoldersMove DEF Gone
<1> QED
  BY <1>1, <1>2, <1>3 DEF Lost, Gone

\* Faults are counted up.
LEMMA FaultsGrow ==
  ASSUME TypeOK, [Next]_vars
  PROVE  faults \in Nat /\ faults' \in Nat /\ faults <= faults'
<1>1. faults' = faults \/ faults' = faults + 1
  BY DEF Next, vars, Receive, Poll, ConsumerStep, GetEvent, DeleteEvent, ForwardEvent,
         CrashConsumer, Expire, Settle, Fault, NoFault
<1> QED
  BY <1>1, RelayAssumption DEF TypeOK

LEMMA StepLosesOne ==
  ASSUME TypeOK, TypeOK', [Next]_vars
  PROVE  LosesOne
<1>1. ASSUME NEW h \in Hooks, Receive(h) PROVE LosesOne
  <2>1. UNCHANGED <<con, delivered>> /\ kv \subseteq kv'
    BY <1>1 DEF Receive
  <2>2. \A e \in Stored' : (e \in Stored /\ events'[e] = events[e]) \/ e \in kv'
    <3>1. CASE UNCHANGED events
      BY <3>1 DEF Stored
    <3>2. CASE events' = Append(events, h) /\ kv' = kv \cup {Len(events) + 1}
      BY <3>2 DEF Stored, TypeOK
    <3> QED
      BY <1>1, <3>1, <3>2 DEF Receive
  <2>3. \A e : Holders(e)' = Holders(e)
    BY <2>1 DEF Holders
  <2> QED
    BY <2>1, <2>2, <2>3 DEF LosesOne, Lost, Gone
<1>2. ASSUME NEW c \in Consumers, Poll(c) \/ GetEvent(c) PROVE LosesOne
  <2>1. UNCHANGED <<events, kv, delivered>> /\ con[c].pc \in {"idle", "read"}
    BY <1>2 DEF Poll, GetEvent
  <2>2. \E r : con' = [con EXCEPT ![c] = r]
    BY <1>2 DEF Poll, GetEvent, Continue, GoTo
  <2>3. \A d \in Consumers : d # c => con'[d] = con[d]
    BY <2>2, Sent
  <2>4. Lost' \subseteq Lost \cup {0}
    BY <2>1, <2>3, ConsumerLoses
  <2>5. 0 \notin Lost'
    BY <2>1, StoredNumbers DEF Lost, Stored
  <2> QED
    BY <2>4, <2>5 DEF LosesOne
<1>3. ASSUME NEW c \in Consumers, DeleteEvent(c) \/ ForwardEvent(c) \/ CrashConsumer(c) PROVE LosesOne
  <2>0. PICK e : e = con[c].event
    OBVIOUS
  <2>1. UNCHANGED events /\ kv \ {e} \subseteq kv' /\ con[c].event = e
    BY <1>3, <2>0 DEF DeleteEvent, ForwardEvent, CrashConsumer
  <2>2. \E r : con' = [con EXCEPT ![c] = r]
    BY <1>3 DEF DeleteEvent, ForwardEvent, CrashConsumer, Continue, GoTo
  <2>3. \A d \in Consumers : d # c => con'[d] = con[d]
    BY <2>2, Sent
  <2>4. \A d \in Stored : d # e => delivered'[d] = delivered[d]
    BY <1>3, <2>1, StoredNumbers DEF DeleteEvent, ForwardEvent, CrashConsumer, TypeOK
  <2>5. Lost' \subseteq Lost \cup {e}
    BY <2>1, <2>3, <2>4, ConsumerLoses
  <2>6. CASE Fault
    BY <2>5, <2>6 DEF LosesOne
  <2>7. CASE ~Fault
    <3>1. CASE DeleteEvent(c)
      <4>1. GoTo(c, "forward") /\ con[c].pc = "delete"
        BY <2>7, <3>1 DEF DeleteEvent
      <4>2. con'[c].event = e /\ con'[c].pc = "forward"
        BY <2>1, <4>1, GoToSends DEF Sends
      <4>3. Holders(e)' # {}
        BY <2>3, <4>2, HoldersMove
      <4> QED
        BY <2>5, <4>3 DEF LosesOne, Lost, Gone
    <3>2. CASE ForwardEvent(c)
      <4>1. con[c].pc = "forward" /\ e \in Stored /\ e \in 1..MaxEvents
        BY <2>1, <3>2, StoredNumbers DEF ForwardEvent, TypeOK
      <4>2. events'[e] \in Bad \/ delivered'[e] = delivered[e] + 1
        BY <2>1, <2>7, <3>2, <4>1 DEF ForwardEvent, TypeOK
      <4>3. delivered[e] \in Nat
        BY <4>1 DEF TypeOK
      <4>4. ~ Gone(e)'
        BY <4>2, <4>3 DEF Gone
      <4> QED
        BY <2>5, <4>4 DEF LosesOne, Lost
    <3> QED
      BY <1>3, <2>7, <3>1, <3>2 DEF CrashConsumer
  <2> QED
    BY <2>6, <2>7
<1>4. ASSUME NEW e \in Stored, Expire(e) \/ Settle(e) PROVE LosesOne
  <2>1. UNCHANGED <<events, con, delivered>> /\ (UNCHANGED kv \/ Fault) /\ kv \ {e} \subseteq kv'
    BY <1>4 DEF Expire, Settle
  <2>2. \A d : Holders(d)' = Holders(d)
    BY <2>1 DEF Holders
  <2>3. Lost' \subseteq Lost \cup {e} /\ (UNCHANGED kv => Lost' \subseteq Lost)
    BY <2>1, <2>2 DEF Lost, Gone, Stored
  <2> QED
    BY <2>1, <2>3 DEF LosesOne
<1>5. CASE UNCHANGED vars
  BY <1>5 DEF vars, LosesOne, Lost, Gone, Holders, Stored
<1> QED
  BY <1>1, <1>2, <1>3, <1>4, <1>5 DEF Next, ConsumerStep

\* No fault costs more than one event: for any number of consumers, whatever fails or dies, the
\* events that are in nobody's hands, not delivered and not in the store are no more than the faults.
THEOREM LossesAreBounded == Spec => []LossBounded
<1>1. ASSUME NEW S \in SUBSET (1..MaxEvents) PROVE IsFiniteSet(S) /\ Cardinality(S) \in Nat
  <2>1. IsFiniteSet(1..MaxEvents)
    BY FS_Interval, RelayAssumption
  <2> QED
    BY <2>1, FS_Subset, FS_CardinalityType
<1>2. Init => LossBounded
  <2> SUFFICES ASSUME Init PROVE LossBounded
    OBVIOUS
  <2>1. {e \in Stored : Gone(e)} = {} /\ faults = 0
    BY DEF Init, Stored
  <2> QED
    BY <2>1, FS_EmptySet DEF LossBounded
<1>3. TypeOK /\ TypeOK' /\ LossBounded /\ [Next]_vars => LossBounded'
  <2> SUFFICES ASSUME TypeOK, TypeOK', Cardinality(Lost) <= faults, [Next]_vars
               PROVE  Cardinality(Lost)' <= faults'
    BY DEF LossBounded, Lost
  <2>1. LosesOne
    BY StepLosesOne
  <2>2. IsFiniteSet(Lost) /\ Cardinality(Lost) \in Nat /\ Cardinality(Lost') \in Nat
    <3>1. Lost \in SUBSET (1..MaxEvents) /\ Lost' \in SUBSET (1..MaxEvents)
      <4>1. \A q \in Seq(Hooks) : Len(q) <= MaxEvents => DOMAIN q \subseteq 1..MaxEvents
        BY RelayAssumption
      <4>2. Lost \subseteq DOMAIN events /\ Lost' \subseteq DOMAIN events'
        BY DEF Lost, Stored
      <4> QED
        BY <4>1, <4>2 DEF TypeOK
    <3> QED
      BY <1>1, <3>1
  <2>3. faults' \in Nat /\ faults \in Nat /\ faults <= faults'
    BY FaultsGrow
  <2>4. CASE Lost' \subseteq Lost
    <3>1. Cardinality(Lost') <= Cardinality(Lost)
      BY <2>2, <2>4, FS_Subset
    <3> QED
      BY <2>2, <2>3, <3>1
  <2>5. CASE Fault /\ \E e : Lost' \subseteq Lost \cup {e}
    <3>1. PICK e : Lost' \subseteq Lost \cup {e}
      BY <2>5
    <3>2. IsFiniteSet(Lost \cup {e}) /\ Cardinality(Lost \cup {e}) <= Cardinality(Lost) + 1
      BY <2>2, FS_AddElement
    <3>3. Cardinality(Lost') <= Cardinality(Lost \cup {e}) /\ Cardinality(Lost \cup {e}) \in Nat
      BY <3>1, <3>2, FS_Subset, FS_CardinalityType
    <3>4. faults' = faults + 1
      BY <2>5 DEF Fault
    <3> QED
      BY <2>2, <2>3, <3>2, <3>3, <3>4
  <2> QED
    BY <2>1, <2>4, <2>5 DEF LosesOne
<1> QED
  BY <1>2, <1>3, TypeCorrect, PTL DEF Spec

-----------------------------------------------------------------------------
(* How far a consumer is from the end of its batch, and an event from its end. *)

\* The steps left for the event in hand, read, deleted and forwarded, and for the keys listed.
InHand(k) == CASE k.pc = "idle" -> 0 [] k.pc = "read" -> 3 [] k.pc = "delete" -> 2 [] k.pc = "forward" -> 1
Left(k) == InHand(k) + (IF k.pc = "idle" THEN 0 ELSE 3 * Cardinality(k.todo))
StepsLeft(c) == Left(con[c])

\* The consumer has yet to delete the event.
Takes(c, e) ==
  /\ con[c].pc # "idle"
  /\ e \in con[c].todo \/ (con[c].event = e /\ con[c].pc \in {"read", "delete"})

\* An event that has left the store does not come back, and unless it is read nevertheless,
\* gets no other reader.
StaysOut(e) == e \notin kv => e \notin kv' /\ (faults' = faults => Holders(e)' \subseteq Holders(e))

\* A consumer that meets no fault deletes what it has listed, or finds it gone.
Leaves(c, e) == e \in kv /\ Takes(c, e) /\ faults' = faults => e \notin kv' \/ Takes(c, e)'

\* Of a set of bounded numbers one is the largest.
LEMMA Largest ==
  ASSUME NEW n \in Nat, NEW S, S \subseteq 1..n, S # {}
  PROVE  \E m \in S : \A y \in S : y <= m
<1> DEFINE M == {n - e : e \in S}
<1>1. M \subseteq Nat /\ M # {}
  <2>1. \A e \in S : n - e \in Nat
    OBVIOUS
  <2> QED
    BY <2>1
<1>2. Min(M) \in M /\ \A y \in M : Min(M) <= y
  BY <1>1, MinIn
<1>3. PICK m \in S : Min(M) = n - m
  BY <1>2
<1>4. \A y \in S : n - m <= n - y
  BY <1>2, <1>3
<1> QED
  BY <1>4

\* A poll lists no more than POLL_LIMIT keys.
LEMMA BatchSize ==
  ASSUME TypeOK, NEW keys, keys \subseteq Stored
  PROVE  IsFiniteSet(Oldest(keys)) /\ Cardinality(Oldest(keys)) <= Limit
<1> DEFINE O == Oldest(keys)
<1>1. Limit \in Nat /\ 1 <= Limit /\ MaxEvents \in Nat
  BY RelayAssumption
<1>2. O \subseteq keys /\ keys \subseteq 1..MaxEvents
  BY StoredNumbers DEF Oldest
<1>3. IsFiniteSet(1..MaxEvents)
  BY <1>1, FS_Interval
<1>4. IsFiniteSet(keys)
  BY <1>2, <1>3, FS_Subset
<1>5. IsFiniteSet(O) /\ Cardinality(O) \in Nat
  BY <1>2, <1>4, FS_Subset, FS_CardinalityType
<1>6. CASE O = {}
  BY <1>1, <1>5, <1>6, FS_EmptySet
<1>7. CASE O # {}
  <2>1. PICK m \in O : \A e \in O : e <= m
    BY <1>1, <1>2, <1>7, Largest
  <2> DEFINE D == {d \in keys : d < m}
  <2>2. Cardinality(D) < Limit
    BY <2>1 DEF Oldest
  <2>3. IsFiniteSet(D) /\ Cardinality(D) \in Nat
    BY <1>4, FS_Subset, FS_CardinalityType
  <2>4. O \ {m} \subseteq D
    <3> HIDE DEF O
    <3>1. \A e \in O : e \in keys /\ e \in Nat
      BY <1>1, <1>2
    <3>2. \A e \in O \ {m} : e < m
      BY <2>1, <3>1
    <3> QED
      BY <3>1, <3>2
  <2>5. Cardinality(O \ {m}) <= Cardinality(D)
    BY <2>3, <2>4, FS_Subset
  <2>6. Cardinality(O \ {m}) = Cardinality(O) - 1
    BY <1>5, <2>1, FS_RemoveElement
  <2> HIDE DEF O, D
  <2>7. Cardinality(O) <= Limit
    BY <1>1, <1>5, <2>2, <2>3, <2>5, <2>6
  <2> QED
    BY <1>5, <2>7 DEF O
<1> QED
  BY <1>6, <1>7

\* Keys on a list are counted by a number.
LEMMA Listed ==
  ASSUME TypeOK, NEW todo, todo \subseteq Stored
  PROVE  IsFiniteSet(todo) /\ Cardinality(todo) \in Nat
<1>1. IsFiniteSet(1..MaxEvents) /\ todo \subseteq 1..MaxEvents
  BY RelayAssumption, StoredNumbers, FS_Interval
<1> QED
  BY <1>1, FS_Subset, FS_CardinalityType

\* What is taken up is what was listed, and three steps for each key.
LEMMA TakenUp ==
  ASSUME TypeOK, NEW todo, todo \subseteq Stored
  PROVE  /\ Left(TakeUp(todo)) = 3 * Cardinality(todo)
         /\ \A e \in todo : TakeUp(todo).pc = "read" /\ (e \in TakeUp(todo).todo \/ TakeUp(todo).event = e)
<1>1. CASE todo = {}
  <2>1. TakeUp(todo) = Idle /\ Cardinality(todo) = 0
    BY <1>1, FS_EmptySet DEF TakeUp
  <2>2. Left(Idle) = 0
    BY DEF Left, InHand, Idle, Consumer
  <2> QED
    BY <1>1, <2>1, <2>2
<1>2. CASE todo # {}
  <2>1. Min(todo) \in todo
    BY <1>2, MinIn, StoredNumbers
  <2>2. Cardinality(todo \ {Min(todo)}) = Cardinality(todo) - 1 /\ Cardinality(todo) \in Nat
    BY <2>1, Listed, FS_RemoveElement
  <2>3. TakeUp(todo) = [pc |-> "read", todo |-> todo \ {Min(todo)}, event |-> Min(todo)]
    BY <1>2 DEF TakeUp, Consumer
  <2>4. Left(TakeUp(todo)) = 3 + 3 * Cardinality(todo \ {Min(todo)})
    BY <2>3 DEF Left, InHand
  <2> QED
    BY <2>1, <2>2, <2>3, <2>4
<1> QED
  BY <1>1, <1>2

\* The steps left are a number, and none only at rest.
LEMMA StepsAreCounted ==
  ASSUME TypeOK, NEW c \in Consumers
  PROVE  /\ StepsLeft(c) \in Nat
         /\ con[c].pc # "idle" <=> StepsLeft(c) > 0
         /\ con[c].pc # "idle" => StepsLeft(c) > 3 * Cardinality(con[c].todo)
         /\ Cardinality(con[c].todo) \in Nat /\ con[c].todo \subseteq Stored
         /\ con[c].pc # "idle" => StepsLeft(c) = InHand(con[c]) + 3 * Cardinality(con[c].todo)
<1>1. con[c].pc \in {"idle", "read", "delete", "forward"} /\ con[c].todo \subseteq Stored
  BY DEF TypeOK
<1>2. Cardinality(con[c].todo) \in Nat
  BY <1>1, Listed
<1> QED
  BY <1>1, <1>2 DEF StepsLeft, Left, InHand

\* The next key is taken up.
LEMMA ContinueNearer ==
  ASSUME TypeOK, NEW c \in Consumers, con[c].pc # "idle", Continue(c)
  PROVE  /\ StepsLeft(c)' \in Nat /\ StepsLeft(c)' < StepsLeft(c)
         /\ \A e \in con[c].todo : Takes(c, e)'
         /\ con'[c].pc \in {"idle", "read"} /\ \A d \in Consumers : d # c => con'[d] = con[d]
<1>1. con'[c] = TakeUp(con[c].todo) /\ \A d \in Consumers : d # c => con'[d] = con[d]
  BY DEF Continue, TypeOK
<1>2. StepsLeft(c)' = Left(TakeUp(con[c].todo))
  BY <1>1 DEF StepsLeft
<1>3. con[c].todo \subseteq Stored
  BY StepsAreCounted
<1>4. StepsLeft(c)' \in Nat /\ StepsLeft(c)' < StepsLeft(c)
  BY <1>2, <1>3, TakenUp, StepsAreCounted
<1>5. con'[c].pc \in {"idle", "read"}
  BY <1>1, <1>3, TakeUpShape
<1>6. \A e \in con[c].todo : con'[c].pc = "read" /\ (e \in con'[c].todo \/ con'[c].event = e)
  BY <1>1, <1>3, TakenUp
<1> QED
  BY <1>1, <1>4, <1>5, <1>6 DEF Takes

\* The event in hand goes on.
LEMMA GoToNearer ==
  ASSUME TypeOK, NEW c \in Consumers, NEW pc,
         (con[c].pc = "read" /\ pc = "delete") \/ (con[c].pc = "delete" /\ pc = "forward"), GoTo(c, pc)
  PROVE  /\ StepsLeft(c)' \in Nat /\ StepsLeft(c)' < StepsLeft(c)
         /\ con'[c].pc = pc /\ con'[c].event = con[c].event /\ con'[c].todo = con[c].todo
         /\ \A d \in Consumers : d # c => con'[d] = con[d]
<1>1. /\ con'[c].pc = pc /\ con'[c].event = con[c].event /\ con'[c].todo = con[c].todo
      /\ \A d \in Consumers : d # c => con'[d] = con[d]
  BY DEF GoTo, TypeOK
<1>2. StepsLeft(c)' = InHand(con'[c]) + 3 * Cardinality(con[c].todo)
  BY <1>1 DEF StepsLeft, Left
<1>3. InHand(con'[c]) < InHand(con[c]) /\ InHand(con'[c]) \in Nat /\ InHand(con[c]) \in Nat
  BY <1>1 DEF InHand
<1>4. StepsLeft(c) = InHand(con[c]) + 3 * Cardinality(con[c].todo) /\ Cardinality(con[c].todo) \in Nat
  BY StepsAreCounted
<1>5. StepsLeft(c)' \in Nat /\ StepsLeft(c)' < StepsLeft(c)
  BY <1>2, <1>3, <1>4
<1> QED
  BY <1>1, <1>5

\* A step of a consumer leaves fewer steps of its batch and none of another's.
LEMMA StepNearer ==
  ASSUME TypeOK, NEW c \in Consumers, ConsumerStep(c)
  PROVE  /\ StepsLeft(c)' \in Nat /\ StepsLeft(c)' < StepsLeft(c)
         /\ \A d \in Consumers : d # c => con'[d] = con[d]
<1>1. CASE Continue(c) /\ con[c].pc # "idle"
  BY <1>1, ContinueNearer
<1>2. CASE GoTo(c, "delete") /\ con[c].pc = "read"
  BY <1>2, GoToNearer
<1>3. CASE GoTo(c, "forward") /\ con[c].pc = "delete"
  BY <1>3, GoToNearer
<1> QED
  BY <1>1, <1>2, <1>3 DEF ConsumerStep, GetEvent, DeleteEvent, ForwardEvent

\* A batch is as large as a poll made it, less the event in hand.
BatchInv == \A c \in Consumers : StepsLeft(c) <= 3 * Limit

\* What a poll takes up.
LEMMA PollTakes ==
  ASSUME TypeOK, NEW c \in Consumers, Poll(c)
  PROVE  /\ StepsLeft(c)' <= 3 * Limit
         /\ con'[c].pc \in {"idle", "read"}
         /\ \A d \in Consumers : d # c => con'[d] = con[d]
<1>1. PICK seen \in SUBSET stale : con' = [con EXCEPT ![c] = TakeUp(Oldest(kv \cup seen))]
  BY DEF Poll
<1> DEFINE todo == Oldest(kv \cup seen)
<1>2. kv \cup seen \subseteq Stored /\ todo \subseteq Stored
  BY DEF TypeOK, Oldest
<1>3. Cardinality(todo) <= Limit /\ Cardinality(todo) \in Nat
  BY <1>2, BatchSize, FS_CardinalityType
<1>4. con'[c] = TakeUp(todo) /\ \A d \in Consumers : d # c => con'[d] = con[d]
  BY <1>1 DEF TypeOK
<1>5. TakeUp(todo).pc \in {"idle", "read"} /\ Left(TakeUp(todo)) = 3 * Cardinality(todo)
  BY <1>2, TakeUpShape, TakenUp
<1> HIDE DEF todo
<1>6. StepsLeft(c)' = 3 * Cardinality(todo)
  BY <1>4, <1>5 DEF StepsLeft
<1> QED
  BY <1>3, <1>4, <1>5, <1>6, RelayAssumption

\* The consumers move one at a time.
LEMMA ConMoves ==
  ASSUME TypeOK, Next
  PROVE  \/ con' = con
         \/ \E c \in Consumers : /\ Poll(c) \/ ConsumerStep(c) \/ (con'[c] = Idle /\ con[c].pc # "idle" /\ Fault)
                                 /\ \A d \in Consumers : d # c => con'[d] = con[d]
<1>1. ASSUME NEW c \in Consumers, CrashConsumer(c)
      PROVE  con'[c] = Idle /\ con[c].pc # "idle" /\ Fault /\ \A d \in Consumers : d # c => con'[d] = con[d]
  BY <1>1 DEF CrashConsumer, TypeOK
<1>2. CASE (\E h \in Hooks : Receive(h)) \/ (\E e \in Stored : Expire(e) \/ Settle(e))
  BY <1>2 DEF Receive, Expire, Settle
<1> QED
  BY <1>1, <1>2, PollTakes, StepNearer DEF Next

\* A step of one consumer leaves no more steps, unless it polls, and its batch bounded.
LEMMA BatchStep ==
  ASSUME TypeOK, BatchInv, Next, NEW c \in Consumers
  PROVE  /\ StepsLeft(c)' <= 3 * Limit
         /\ Poll(c) \/ StepsLeft(c)' <= StepsLeft(c)
<1>1. StepsLeft(c) \in Nat /\ StepsLeft(c) <= 3 * Limit /\ Limit \in Nat
  BY StepsAreCounted, RelayAssumption DEF BatchInv
<1>2. con'[c] = con[c] => StepsLeft(c)' = StepsLeft(c)
  BY DEF StepsLeft
<1>3. con'[c] = Idle => StepsLeft(c)' = 0
  BY DEF StepsLeft, Left, InHand, Idle, Consumer
<1>4. ConsumerStep(c) => StepsLeft(c)' \in Nat /\ StepsLeft(c)' < StepsLeft(c)
  BY StepNearer
<1>5. Poll(c) => StepsLeft(c)' <= 3 * Limit
  BY PollTakes
<1>6. con'[c] = con[c] \/ Poll(c) \/ ConsumerStep(c) \/ con'[c] = Idle
  BY ConMoves
<1> QED
  BY <1>1, <1>2, <1>3, <1>4, <1>5, <1>6

\* A consumer that goes on gets done with its batch: it has no more than three steps for each of the
\* POLL_LIMIT events it may list, one at least while it is at work, and every step leaves fewer,
\* whatever the others do meanwhile.
THEOREM BatchGetsDone ==
  Spec => /\ [](\A c \in Consumers : /\ StepsLeft(c) <= 3 * Limit
                                     /\ con[c].pc # "idle" <=> StepsLeft(c) > 0)
          /\ [][\A c \in Consumers : /\ ConsumerStep(c) => StepsLeft(c)' < StepsLeft(c)
                                     /\ Poll(c) \/ StepsLeft(c)' <= StepsLeft(c)]_vars
<1>1. Init => BatchInv
  <2> SUFFICES ASSUME Init, NEW c \in Consumers PROVE StepsLeft(c) <= 3 * Limit
    BY DEF BatchInv
  <2>1. con[c].pc = "idle"
    BY DEF Init, Idle, Consumer
  <2>2. StepsLeft(c) = 0
    BY <2>1 DEF StepsLeft, Left, InHand
  <2> QED
    BY <2>2, RelayAssumption
<1>2. IInv /\ BatchInv /\ [Next]_vars => BatchInv'
  <2>1. IInv /\ BatchInv /\ Next => BatchInv'
    BY BatchStep DEF IInv, BatchInv
  <2>2. BatchInv /\ UNCHANGED vars => BatchInv'
    BY DEF BatchInv, StepsLeft, vars
  <2> QED
    BY <2>1, <2>2
<1>3. IInv /\ BatchInv => \A c \in Consumers : /\ StepsLeft(c) <= 3 * Limit
                                               /\ con[c].pc # "idle" <=> StepsLeft(c) > 0
  BY StepsAreCounted DEF IInv, BatchInv
<1>4. IInv /\ BatchInv /\ Next => \A c \in Consumers : /\ ConsumerStep(c) => StepsLeft(c)' < StepsLeft(c)
                                                       /\ Poll(c) \/ StepsLeft(c)' <= StepsLeft(c)
  BY StepNearer, BatchStep DEF IInv
<1> QED
  BY <1>1, <1>2, <1>3, <1>4, Invariance, PTL DEF Spec

-----------------------------------------------------------------------------
\* Where an event may go: the store takes new ones only.
LEMMA StoreLoses ==
  ASSUME TypeOK, Next, NEW e \in Stored, e \notin kv
  PROVE  e \notin kv'
<1>1. ASSUME NEW h \in Hooks, Receive(h)
      PROVE  e \notin kv'
  BY <1>1, StoredNumbers DEF Receive
<1>2. ~(\E h \in Hooks : Receive(h)) => kv' \subseteq kv
  BY DEF Next, ConsumerStep, Poll, GetEvent, DeleteEvent, ForwardEvent, CrashConsumer, Expire, Settle
<1> QED
  BY <1>1, <1>2

\* A faultless step of a consumer: it reads what is in the store, deletes what it read, and takes up
\* the next event.
LEMMA FaultlessStep ==
  ASSUME TypeOK, NEW c \in Consumers, ConsumerStep(c), faults' = faults
  PROVE  \/ con[c].pc = "read" /\ GoTo(c, "delete") /\ con[c].event \in kv
         \/ con[c].pc = "delete" /\ GoTo(c, "forward") /\ con[c].event \notin kv'
         \/ con[c].pc = "read" /\ Continue(c) /\ con[c].event \notin kv
         \/ con[c].pc = "forward" /\ Continue(c)
<1>1. ~Fault
  BY DEF Fault, TypeOK
<1> QED
  BY <1>1 DEF ConsumerStep, GetEvent, DeleteEvent, ForwardEvent

LEMMA NoNewHolder ==
  ASSUME TypeOK, Next, faults' = faults, NEW e \in Stored, e \notin kv
  PROVE  Holders(e)' \subseteq Holders(e)
<1> SUFFICES ASSUME NEW d \in Holders(e)' PROVE d \in Holders(e)
  OBVIOUS
<1>1. d \in Consumers /\ con'[d].event = e /\ con'[d].pc \in {"delete", "forward"}
  BY DEF Holders
<1>2. CASE con'[d] = con[d]
  BY <1>1, <1>2 DEF Holders
<1>3. CASE Poll(d)
  BY <1>1, <1>3, PollTakes
<1>4. CASE con'[d] = Idle
  BY <1>1, <1>4 DEF Idle, Consumer
<1>5. CASE ConsumerStep(d)
  <2>1. CASE Continue(d) /\ con[d].pc # "idle"
    BY <1>1, <2>1, ContinueNearer
  <2>2. CASE con[d].pc = "read" /\ GoTo(d, "delete") /\ con[d].event \in kv
    BY <1>1, <2>2, GoToNearer
  <2>3. CASE con[d].pc = "delete" /\ GoTo(d, "forward")
    BY <1>1, <2>3, GoToNearer DEF Holders
  <2> QED
    BY <1>1, <1>5, <2>1, <2>2, <2>3, FaultlessStep
<1> QED
  BY <1>1, <1>2, <1>3, <1>4, <1>5, ConMoves

LEMMA TakesOrLeaves ==
  ASSUME TypeOK, Next, NEW e \in Stored, NEW c \in Consumers
  PROVE  Leaves(c, e)
<1> SUFFICES ASSUME e \in kv, Takes(c, e), faults' = faults, e \in kv'
             PROVE  Takes(c, e)'
  BY DEF Leaves
<1>1. CASE con'[c] = con[c]
  BY <1>1 DEF Takes
<1>2. CASE ConsumerStep(c)
  <2>1. CASE con[c].pc = "read" /\ GoTo(c, "delete")
    BY <2>1, GoToNearer DEF Takes
  <2>2. CASE con[c].pc = "delete" /\ GoTo(c, "forward") /\ con[c].event \notin kv'
    BY <2>2, GoToNearer DEF Takes
  <2>3. CASE (con[c].pc = "forward" \/ con[c].event \notin kv) /\ Continue(c)
    <3>1. e \in con[c].todo /\ con[c].pc # "idle"
      BY <2>3 DEF Takes
    <3> QED
      BY <2>3, <3>1, ContinueNearer
  <2> QED
    BY <1>2, <2>1, <2>2, <2>3, FaultlessStep
<1>3. ~Poll(c)
  BY DEF Takes, Poll
<1>4. ~Fault
  BY DEF Fault, TypeOK
<1> QED
  BY <1>1, <1>2, <1>3, <1>4, ConMoves

\* An event that a consumer has listed leaves the store before that consumer, unless it meets a
\* fault, is done with its batch; what has left the store does not come back and, unless it is read
\* after its delete, gets no other reader.
THEOREM StoreLetsGo ==
  Spec => [][\A e \in Stored : StaysOut(e) /\ \A c \in Consumers : Leaves(c, e)]_vars
<1>1. IInv /\ Next => \A e \in Stored : StaysOut(e) /\ \A c \in Consumers : Leaves(c, e)
  <2> SUFFICES ASSUME IInv, Next, NEW e \in Stored
               PROVE  StaysOut(e) /\ \A c \in Consumers : Leaves(c, e)
    OBVIOUS
  <2>1. TypeOK
    BY DEF IInv
  <2> QED
    BY <2>1, StoreLoses, NoNewHolder, TakesOrLeaves DEF StaysOut
<1> QED
  BY <1>1, Invariance, PTL DEF Spec
=============================================================================
