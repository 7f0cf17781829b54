CONSTANTS
  W = 32
  Build <- Macros
  Regs = {0, 1, 2}
  Values <- Contents
  Kept <- Numbers
  Setter <- Setters
  Issued <- Instructions
  HartId = {0}
  IllegalCause = {0}
  IllegalWord = {0}
SPECIFICATION Spec
INVARIANTS TypeOK LevelsSeeTheirs
PROPERTIES PrivilegeKept ReadOnlyKept AtomicReadModifyWrite IllegalIsPrecise
