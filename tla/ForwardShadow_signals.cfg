SPECIFICATION Spec
CONSTANTS
  x = x  y = y  breakout = breakout  None = None
  Bars <- MCBars
  Zones = {0}
  Ticks = {x, y}
  Lookback = 3  Age = 3  MaxTouches = 1  Horizon = 2  Capacity = 1
  Faults = TRUE
  MaxCandle = 3  MaxGen = 2
SYMMETRY Symmetry
INVARIANTS  SignalsAreDue
PROPERTIES SignalsAreFinal 
CHECK_DEADLOCK FALSE
