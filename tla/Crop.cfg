\* Pictures upright, wide, and too thin to fill the screen; the finger past any edge.
SPECIFICATION Spec
CONSTANTS
  Length <- MCLength
  Margin <- MCMargin
  Fits <- MCFits
  Heights <- MCHeights
  Widths <- MCWidths
  Points <- MCPoints
  ControlSide = 1
  MaxGestures = 2
  Slack = 0
  MaximumZoom = 2
CHECK_DEADLOCK FALSE
INVARIANT TypeOK
INVARIANT ShownIsCropped
PROPERTY DragsStayInside
