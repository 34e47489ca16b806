CONSTANTS
  w1 = w1 w2 = w2 b1 = b1 b2 = b2 d1 = d1 d2 = d2 None = None
  Way = {w1} Way0 = w1 Block = {b1, b2} Data = {d1, d2}
  CoreOps = {"ld", "st", "uc_st"}
  LockMax = 2 TimeoutMax = 2 TimeoutWrap = 4
SPECIFICATION Spec
INVARIANTS LoadsCurrent OthersCurrent WbufBounded
SYMMETRY SymBlocksData
