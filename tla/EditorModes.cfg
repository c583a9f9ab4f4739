\* The editor modes, with three openings of the sheet and two pans.
SPECIFICATION Spec
CONSTANTS
  MaxSheets = 3
  MaxPans = 2
INVARIANT TypeOK
INVARIANT NoDeadEnd
INVARIANT CanvasHasAReason
INVARIANT TypingHasAKeyboard
CHECK_DEADLOCK FALSE
