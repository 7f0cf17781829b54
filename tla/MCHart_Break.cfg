CONSTANTS
  h1 = h1
  h2 = h2
  Harts = {h1, h2}
  Program <- TrapsProgram
  XLEN = 12
  Ialigns = {16, 32}
  MemorySize = 40
  Regs = {0, 10, 11}
  Level = "USER"
  Raises = FALSE
SPECIFICATION PatchSpec
INVARIANT BreakPointIsEbreak
