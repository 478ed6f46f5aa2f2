SPECIFICATION Spec
CONSTANTS
  Handlers = {h1, h2}
  MaxBatch = 2
  MaxReplies = 2
  MaxTime = 1
  Names = {ann, bob}
  Addresses = {home, work}
  Limits = {0, 1}
  MaxUsers = 3
  MaxFaults = 1
SYMMETRY Symmetry
INVARIANTS
  StrandedBounded
PROPERTIES
  ImplementsDirectory
