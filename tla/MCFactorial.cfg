CONSTANTS
  h1 = h1
  Harts = {h1}
  Program <- FactorialProgram
  XLEN = 24
  Ialigns = {16, 32}
  MemorySize = 4096
  Regs <- FactorialRegs
  Level = "USER"
  Raises = FALSE
SPECIFICATION FactorialSpec
INVARIANTS FactorialsPrinted ProgramCorrect
PROPERTY Finishes
