CONSTANTS
  l1 = l1 l2 = l2 l3 = l3 c1 = c1 c2 = c2 b1 = b1 b2 = b2 b3 = b3 io = io
  s1 = s1 s2 = s2 w1 = w1 w2 = w2 d1 = d1 d2 = d2
  LCE = {l1, l2} ReadOnlyLCE = {} CCE = {c1, c2} Block = {b1, b3} IoBlock = {}
  Set = {s1, s2} Way = {w1} Data = {d1} InitData = d1
  SetOf <- McSetOf HomeOf <- McHome2
  MemCredits = 3 LceCredits = 1 None = None
  CoreOps = {"wr"} LockMayExpire = FALSE
SPECIFICATION Spec
INVARIANTS DirectoryExact OneSource
SYMMETRY SymEngines
