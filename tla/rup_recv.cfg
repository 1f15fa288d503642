CONSTANTS
  Opcodes = {"HB", "TEST", "BIG"}
  BodySize <- BodySizes
  HdrSize = 2
  BlockSize = 5
  MaxPkgs = 3
SPECIFICATION Spec
INVARIANTS TypeOK DispatchedInOrder OrderlyCloseLosesNothing
CHECK_DEADLOCK FALSE
