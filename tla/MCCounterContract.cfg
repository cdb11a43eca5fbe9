CONSTANTS
  Addresses = {admin, other}
  Admin = admin
  MaxCount = 7
SPECIFICATION Spec
INVARIANTS ReadersFitStorage AdminKeepsControl
PROPERTY KeepsCounting
