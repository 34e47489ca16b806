CONSTANTS
  l1 = l1 l2 = l2 l3 = l3 c1 = c1 c2 = c2 b1 = b1 b2 = b2 b3 = b3 io = io
  s1 = s1 s2 = s2 w1 = w1 w2 = w2 d1 = d1 d2 = d2
  LCE = {l1, l2} ReadOnlyLCE = {} CCE = {c1} Block = {b1} IoBlock = {}
  Set = {s1} Way = {w1} Data = {d1, d2} InitData = d1
  SetOf <- McSetOf HomeOf <- McHome1
  MemCredits = 3 LceCredits = 1 None = None
  CoreOps = {"rd", "wr", "lr"} LockMayExpire = FALSE
SPECIFICATION Spec
INVARIANT MemoryCurrent
