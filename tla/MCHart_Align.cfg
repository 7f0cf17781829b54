CONSTANTS
  h1 = h1
  h2 = h2
  Harts = {h1}
  Program <- AlignProgram
  XLEN = 12
  Ialigns = {32}
  MemorySize = 12
  Regs = {0, 10, 11}
  Level = "USER"
  Raises = FALSE
SPECIFICATION AlignSpec
INVARIANT PcAligned
