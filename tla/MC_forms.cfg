SPECIFICATION Spec
CONSTANTS
  Environments <- MCEnvironments
  Names = {"ann"}
  Mailboxes = {"a"}
  Words <- MCWords
  Spaces = {0, 1}
  MaxRows = 1
INVARIANTS
  RegisteredCanSignIn
  PasswordsMeetPolicy
  RefusalsShow
