SPECIFICATION Spec
CONSTANTS
  first = first
  second = second
  Handlers = {first, second}
INVARIANTS
  PromotionAppends
CHECK_DEADLOCK FALSE
