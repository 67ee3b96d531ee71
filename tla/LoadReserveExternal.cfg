SPECIFICATION LrSpec
CONSTANTS
  Harts = {h1, h2}
  Ram = {r0, r1}
  Dev = {d}
  Val = {0, 1}
  None = None
  Trap = Trap
  ResetAddr = r0
  MaxSeq = 2
INVARIANT
  ExternalWriteInvalidates
