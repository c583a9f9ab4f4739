----------------------------- MODULE CropScreen -----------------------------
(***************************************************************************)
(* The crop screen of the photo editor: a picture in a scroll view, a      *)
(* rectangle over it with eight handles, and presets of its shape.  The    *)
(* rectangle lives in two views that handlers move one after the other:    *)
(* cropRectView shows it, the frame of scrollView is what gets cut out.    *)
(* While a handle is dragged the frame follows the finger from where the   *)
(* drag began (initialRect), is capped to the picture, and may zoom the    *)
(* picture under the finger when it leaves the editing area.               *)
(*                                                                         *)
(* A rectangle is one interval for each axis, in whole points of the view; *)
(* scaling rounds down.  Nothing in the app sets keepAspectRatio, so       *)
(* fixedAspectRatio stays 0 and the branches for them are left out, as     *)
(* are rotation (of the picture inside its view, and of the device) and    *)
(* the setters of the crop view that no code calls.                        *)
(***************************************************************************)
EXTENDS Integers

CONSTANTS
  Length,        \* size of the view, per axis
  Margin,        \* MarginLeft and MarginTop, per axis
  ControlSide,   \* side of a handle
  Slack,         \* how far the rectangle may leave the editing area
  MaximumZoom,   \* maximumZoomScale
  Fits,          \* sizes that AVMakeRect gives to pictures in the editing area
  Heights,       \* presets by height: heights for a width, <<n, d>> for n/d
  Widths,        \* presets by width: widths for a height, <<n, d>>
  Points,        \* where a finger takes what it drags, per axis
  MaxGestures    \* bound: drags, presets, scrolls and pinches of a screen

Axes == {"x", "y"}
Interval(lo, hi) == [lo |-> lo, hi |-> hi]
Size(i) == i.hi - i.lo
Lesser(m, n) == IF m < n THEN m ELSE n
Greater(m, n) == IF m > n THEN m ELSE n

ASSUME CropAssumption ==
  /\ Length \in [Axes -> Nat] /\ Margin \in [Axes -> Nat]
  /\ ControlSide \in Nat \ {0} /\ Slack \in Nat
  /\ MaximumZoom \in Nat \ {0} /\ MaxGestures \in Nat
  /\ \A a \in Axes : Length[a] > 2 * Margin[a]
  /\ Fits \subseteq [Axes -> Nat \ {0}]
  /\ \A f \in Fits : \A a \in Axes : f[a] <= Length[a] - 2 * Margin[a]
  /\ \A r \in Heights \cup Widths : r[1] \in Nat \ {0} /\ r[2] \in Nat \ {0}
  /\ \A a \in Axes : Points[a] \subseteq Int

\* The handles: four edges and four corners, by the ends they move.
None == [a \in Axes |-> "fixed"]
Controls == [Axes -> {"lo", "hi", "fixed"}] \ {None}

VARIABLES
  fit,           \* size of the picture at zoom scale 1
  picture,       \* where the zooming view is, in the coordinates of the crop view
  minimumZoom,   \* size of the picture at minimumZoomScale
  scrollFrame,   \* scrollView.frame
  cropRect,      \* cropRectView.frame
  initialRect,   \* cropRectView.frame when the drag began
  resizing,      \* the handle that is dragged, or None
  covered,       \* history: initialRect is within the picture as it is now
  open,          \* the screen is there
  gestures       \* of the user so far
vars == <<fit, picture, minimumZoom, scrollFrame, cropRect, initialRect, resizing,
          covered, open, gestures>>

Within(rect, other) ==
  \A a \in Axes : other[a].lo <= rect[a].lo /\ rect[a].hi <= other[a].hi

\* CGRect reads a negative size as the same area with its ends swapped.
Standard(lo, hi) == Interval(Lesser(lo, hi), Greater(lo, hi))

Centred(a, size) ==
  LET lo == (Length[a] - size) \div 2 IN Interval(lo, lo + size)

EditingRect == [a \in Axes |-> Interval(Margin[a], Length[a] - Margin[a])]

Zero == [a \in Axes |-> Interval(0, 0)]

MinimumSize == 2 * ControlSide

Init ==
  /\ fit \in Fits
  /\ picture = [a \in Axes |-> Centred(a, fit[a])]
  /\ minimumZoom = fit
  /\ scrollFrame = picture /\ cropRect = picture
  /\ initialRect = Zero
  /\ resizing = None /\ covered = FALSE /\ open = TRUE /\ gestures = 0

\* A new touch: the handles are exclusive, so none is held.
Gesture == open /\ resizing = None /\ gestures < MaxGestures /\ gestures' = gestures + 1

-----------------------------------------------------------------------------
\* Zooming.

\* The scale that makes a rectangle fill the editing area, as <<n, d>>.
FillScale(rect) ==
  LET Of(a) == <<Size(EditingRect[a]), Size(rect[a])>>
  IN Of(CHOOSE a \in Axes : \A b \in Axes : Of(a)[1] * Of(b)[2] <= Of(b)[1] * Of(a)[2])

\* Where the scroll view puts the picture: the middle where it is asked to, but
\* never uncovering the frame while the picture is large enough.
Placed(size, middle, frame) ==
  LET lo == Lesser(frame.lo, Greater(middle, frame.hi - size))
  IN Interval(lo, lo + size)

ZoomedSize(a, scale) ==
  LET wanted == (Size(picture[a]) * scale[1]) \div scale[2]
  IN Lesser(Greater(wanted, minimumZoom[a]), MaximumZoom * fit[a])

ZoomedPicture(rect, scale, frame, shouldCenter) ==
  [a \in Axes |->
     LET size == ZoomedSize(a, scale)
         point == ((rect[a].lo + rect[a].hi - 2 * picture[a].lo) * size)
                    \div (2 * Size(picture[a]))
         middle == Length[a] \div 2 - (IF shouldCenter THEN size \div 2 ELSE point)
     IN Placed(size, middle, frame[a])]

Empty(rect) == \E a \in Axes : Size(rect[a]) = 0

\* zoomToCropRect: the views follow rect, unless the frame is there already; then
\* cropRectView goes on showing what it shows.  The scale for an empty rectangle is
\* infinite along an axis: what UIKit makes of it is unspecified, the screen is lost.
ZoomToCropRect(shown, rect, shouldCenter) ==
  \/ /\ rect = scrollFrame
     /\ cropRect' = shown
     /\ UNCHANGED <<scrollFrame, picture, open>>
  \/ /\ rect # scrollFrame /\ Empty(rect)
     /\ cropRect' = shown
     /\ open' = FALSE
     /\ UNCHANGED <<scrollFrame, picture>>
  \/ /\ rect # scrollFrame /\ ~Empty(rect)
     /\ LET scale == FillScale(rect)
            frame == [a \in Axes |->
                        Centred(a, (Size(rect[a]) * scale[1]) \div scale[2])]
        IN /\ scrollFrame' = frame
           /\ cropRect' = frame
           /\ picture' = ZoomedPicture(rect, scale, frame, shouldCenter)
     /\ UNCHANGED open

-----------------------------------------------------------------------------
\* Dragging a handle.

BeginResizing(control) ==
  /\ Gesture
  /\ resizing' = control
  /\ initialRect' = cropRect
  /\ covered' = Within(cropRect, picture)
  /\ UNCHANGED <<fit, picture, minimumZoom, scrollFrame, cropRect, open>>

\* The end that the handle moves is where the finger takes it, which is beyond the view if
\* the finger began on the inner side of the handle and goes to the border; past the other end the
\* interval turns over.
Moved(i, edge, point) ==
  CASE edge = "lo" -> Standard(point, i.hi)
    [] edge = "hi" -> Standard(i.lo, point)
    [] edge = "fixed" -> i

\* What is too small is put at the far end of the rectangle shown before.
AtLeast(i, before) ==
  IF Size(i) < MinimumSize THEN Interval(before.hi - MinimumSize, before.hi) ELSE i

\* What leaves the picture is cut off.
BadCapped(i, p) == Standard(Greater(i.lo, p.lo), i.hi)
BadCappedPlain(i, p) == Interval(Greater(i.lo, p.lo), Lesser(i.hi, p.hi))

Capped(i, p) == Standard(Greater(i.lo, p.lo), Lesser(i.hi, p.hi))

CropRectWithResizeControl(point) ==
  [a \in Axes |-> AtLeast(Moved(initialRect[a], resizing[a], point[a]), cropRect[a])]

EdgeTouched(rect) ==
  \E a \in Axes : \/ rect[a].lo < EditingRect[a].lo - Slack
                  \/ rect[a].hi > EditingRect[a].hi + Slack

Resize(point) ==
  /\ open /\ resizing # None
  /\ LET wanted == CropRectWithResizeControl(point)
         rect == [a \in Axes |-> Capped(wanted[a], picture[a])]
     IN IF EdgeTouched(rect) THEN ZoomToCropRect(rect, rect, FALSE)
        ELSE cropRect' = rect /\ UNCHANGED <<scrollFrame, picture, open>>
  /\ covered' = (covered /\ picture' = picture)
  /\ UNCHANGED <<fit, minimumZoom, initialRect, resizing, gestures>>

BadEndResizing ==
  /\ open /\ resizing # None
  /\ resizing' = None
  /\ initialRect' = Zero /\ covered' = FALSE
  /\ UNCHANGED <<fit, minimumZoom, gestures, scrollFrame, picture, cropRect, open>>

\* initialRect is dead until the next drag sets it, and the model forgets it.
EndResizing ==
  /\ open /\ resizing # None
  /\ resizing' = None
  /\ ZoomToCropRect(cropRect, cropRect, FALSE)
  /\ initialRect' = Zero /\ covered' = FALSE
  /\ UNCHANGED <<fit, minimumZoom, gestures>>

-----------------------------------------------------------------------------
\* Presets of the shape.

WithSize(rect, a, size) == [rect EXCEPT ![a] = Interval(@.lo, @.lo + size)]

\* Original: the shape of the picture.
OriginalRect ==
  IF fit.x < fit.y
  THEN WithSize(scrollFrame, "x", (Size(scrollFrame.y) * fit.x) \div fit.y)
  ELSE WithSize(scrollFrame, "y", (Size(scrollFrame.x) * fit.y) \div fit.x)

\* Square, 4 x 3 and 16 x 9 set the height for the width.
ShapedRect(ratio) ==
  WithSize(scrollFrame, "y", (Size(scrollFrame.x) * ratio[1]) \div ratio[2])

SetCropRect(rect) ==
  /\ Gesture
  /\ ZoomToCropRect(cropRect, rect, FALSE)
  /\ UNCHANGED <<fit, minimumZoom, initialRect, resizing, covered>>

\* The others set the width for the height, unless it exceeds the picture's.
RatioRect(ratio) ==
  LET width == (Size(scrollFrame.y) * ratio[1]) \div ratio[2]
  IN IF width > fit.x
     THEN WithSize(scrollFrame, "y", (Size(scrollFrame.x) * ratio[2]) \div ratio[1])
     ELSE WithSize(scrollFrame, "x", width)

\* They zoom about the middle of the picture and forbid to zoom out from there.
SetCropAspectRatio(ratio) ==
  LET rect == RatioRect(ratio) IN
  /\ Gesture
  /\ ZoomToCropRect(cropRect, rect, TRUE)
  /\ IF rect = scrollFrame THEN UNCHANGED minimumZoom
     ELSE minimumZoom' = [a \in Axes |-> Size(picture'[a])]
  /\ UNCHANGED <<fit, initialRect, resizing, covered>>

-----------------------------------------------------------------------------
\* The picture is scrolled to its ends or pinched to the limits of the scroll view.
Scroll ==
  /\ Gesture
  /\ \E size \in {[a \in Axes |-> Size(picture[a])], minimumZoom,
                  [a \in Axes |-> MaximumZoom * fit[a]]},
        x \in {picture.x.lo, -MaximumZoom * Length.x, Length.x},
        y \in {picture.y.lo, -MaximumZoom * Length.y, Length.y} :
       picture' = [a \in Axes |-> Placed(size[a], IF a = "x" THEN x ELSE y, scrollFrame[a])]
  /\ UNCHANGED <<fit, minimumZoom, scrollFrame, cropRect, initialRect, resizing,
                 covered, open>>

\* Done or Cancel.
Finish ==
  /\ open /\ resizing = None
  /\ open' = FALSE
  /\ UNCHANGED <<fit, picture, minimumZoom, scrollFrame, cropRect, initialRect,
                 resizing, covered, gestures>>

Next ==
  \/ \E c \in Controls : BeginResizing(c)
  \/ \E x \in Points.x, y \in Points.y : Resize([a \in Axes |-> IF a = "x" THEN x ELSE y])
  \/ EndResizing
  \/ SetCropRect(OriginalRect)
  \/ \E r \in Heights : SetCropRect(ShapedRect(r))
  \/ \E r \in Widths : SetCropAspectRatio(r)
  \/ Scroll
  \/ Finish

Spec == Init /\ [][Next]_vars

-----------------------------------------------------------------------------
\* Properties.

TypeOK ==
  /\ fit \in Fits
  /\ \A v \in {picture, scrollFrame, cropRect, initialRect} :
       \A a \in Axes : v[a].lo \in Int /\ v[a].hi \in Int /\ v[a].lo <= v[a].hi
  /\ minimumZoom \in [Axes -> Nat \ {0}]
  /\ resizing \in Controls \cup {None}
  /\ covered \in BOOLEAN /\ open \in BOOLEAN /\ gestures \in 0 .. MaxGestures

\* At the largest zoom the picture covers the editing area.
Fills == \A a \in Axes : MaximumZoom * fit[a] >= Size(EditingRect[a])

\* A drag that begins inside the picture stays there, up to and with the step that zooms
\* the picture under it: initialRect is stale from then on. A picture so thin that no
\* zoom makes it fill the editing area is left at once.
DragsStayInside ==
  [][resizing # None /\ covered /\ Fills => Within(cropRect', picture')]_vars

\* When no handle is held, the frame that is cut out is the one that is shown,
\* within the editing area.
ShownIsCropped ==
  resizing = None /\ open => cropRect = scrollFrame /\ Within(cropRect, EditingRect)
=============================================================================
