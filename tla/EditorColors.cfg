\* Colors are shown only while drawing or typing?
SPECIFICATION Spec
CONSTANTS
  MaxSheets = 3
  MaxPans = 2
INVARIANT ColorsWhileDrawingOrTyping
CHECK_DEADLOCK FALSE
