SPECIFICATION Spec
CONSTANTS
  r1 = r1
  Resumers = {r1}
  Nobody = Nobody
  MaxSegs = 2
INVARIANTS WorktreePreserved
