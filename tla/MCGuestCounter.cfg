CONSTANTS
  h1 = h1
  h2 = h2
  h3 = h3
  W = 2
  Harts = {h1, h2, h3}
  Addrs = {0, 4}
  Readable = {4}
  Writable = {4}
  Issued <- AllIssued
  BufferSlots = 1
  NoInst = NoInst
  Counter = 4
SPECIFICATION GuestSpec
INVARIANTS NoLostUpdate GuestInv
PROPERTY KeepsCounting
