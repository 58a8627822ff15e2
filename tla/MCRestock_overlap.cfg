SPECIFICATION RestockSpec
CONSTANTS
  NoOrder = NoOrder
  b1 = b1
  b2 = b2
  Targets <- TwoBonds
  Ticks = {t1, t2}
  MaxOrders = 2
  MaxThrows = 0
INVARIANTS
  OneOrderPerAsset
CHECK_DEADLOCK FALSE
