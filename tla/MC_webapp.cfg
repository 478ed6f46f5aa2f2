SPECIFICATION Spec
CONSTANTS
  Tabs = {t1}
  Accounts = {ann, bob}
  Jobs = {j1, j2}
  MaxSessions = 2
  MaxFaults = 1
INVARIANTS
  TypeOK
  OneCallPerForm
  BusyFormsAwait
  ProtectedNeedsSession
  DeletesOnlyProven
PROPERTIES
  StrandedOnlyByLeaving
SYMMETRY Symmetry
CHECK_DEADLOCK FALSE
