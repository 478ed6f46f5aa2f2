SPECIFICATION Spec
CONSTANTS
  Tabs = {t1, t2}
  Accounts = {ann, bob}
  Jobs = {j1}
  MaxSessions = 3
  MaxFaults = 0
INVARIANTS
  DeletionMatchesProof
SYMMETRY Symmetry
CHECK_DEADLOCK FALSE
