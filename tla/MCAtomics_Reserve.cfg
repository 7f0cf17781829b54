CONSTANTS
  h1 = h1
  h2 = h2
  W = 1
  Harts = {h1, h2}
  Addrs = {0, 2, 4, 8}
  Readable = {0, 4, 8}
  Writable = {0, 4}
  Issued <- ReserveIssue
  BufferSlots = 1
  NoInst = NoInst
SPECIFICATION Safety
INVARIANT TypeOK
PROPERTY ImplementsPromise
