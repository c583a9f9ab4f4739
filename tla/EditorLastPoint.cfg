\* lastPoint is set whenever a line is drawn from it?
SPECIFICATION Spec
CONSTANTS
  MaxSheets = 3
  MaxPans = 2
INVARIANT LastPointIsThere
CHECK_DEADLOCK FALSE
