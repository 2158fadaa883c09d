SPECIFICATION ClockSpec
CONSTANTS
  Binary = {TRUE, FALSE}
  Hours24 = {TRUE, FALSE}
  Starts <- MCStarts
  MaxTicks = 3
INVARIANTS NeverAhead
PROPERTIES ReadsClock
