CONSTANTS
  h1 = h1
  h2 = h2
  W = 2
  Harts = {h1, h2}
  Addrs = {0, 2, 4, 8, 12}
  Readable = {4}
  Writable = {4}
  Issued <- AmoIssue
  BufferSlots = 1
  NoInst = NoInst
SPECIFICATION Spec
INVARIANT InFlightOK
PROPERTIES ImplementsPromise AmosAsManual LoopsEnd
