CONSTANTS
  e1 = e1 e2 = e2 e3 = e3 Entry = {e1, e2, e3} NoEntry = NoEntry Els = 4
SPECIFICATION Spec
INVARIANTS PointersOrdered HeadDecoded
PROPERTY ImplementsReplayQueue
