CONSTANTS
  Legs = {option}
  Qty = 1
  MaxPollErrors = 2
  MaxPollWait = 1
  MaxBackoff = 2
  MaxOrders = 1
SPECIFICATION LiveSpec
PROPERTY DivergenceHaltsStartup
CHECK_DEADLOCK FALSE
