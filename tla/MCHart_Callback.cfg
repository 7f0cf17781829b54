CONSTANTS
  h1 = h1
  h2 = h2
  Harts = {h1}
  Program <- CallbackProgram
  XLEN = 12
  Ialigns = {32}
  MemorySize = 4
  Regs = {0, 10, 11}
  Level = "USER"
  Raises = TRUE
SPECIFICATION CallbackSpec
INVARIANT CallbackCauseKept
