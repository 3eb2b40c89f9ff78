\* Four reviews of one commit, any of them at the tier required.
SPECIFICATION GateSpec
CONSTANTS
  Runs = {r1, r2, r3, r4}
  NoRun = NoRun
SYMMETRY RunSymmetry
INVARIANTS
  StaysSatisfied
CHECK_DEADLOCK FALSE
