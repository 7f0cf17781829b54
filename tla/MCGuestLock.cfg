CONSTANTS
  h1 = h1
  h2 = h2
  W = 2
  Harts = {h1, h2}
  Addrs = {0, 4, 8}
  Readable = {4, 8}
  Writable = {4, 8}
  Issued <- AllIssued
  BufferSlots = 2
  NoInst = NoInst
  Lock = 4
  Data = 8
SPECIFICATION GuestSpec
INVARIANTS MutualExclusion SeesLatestData
PROPERTIES KeepsWorking
