----------------------------- MODULE CropProofs -----------------------------
(***************************************************************************)
(* The safety of the crop screen, for any view, pictures, presets, places  *)
(* of the finger and number of gestures. The arithmetic comes first, one   *)
(* axis at a time: what centring, scaling and capping do to an interval.   *)
(* The inductive invariant says that every rectangle has its ends in       *)
(* order, that the frame stays in the editing area, and that a drag whose  *)
(* start is valid has shown nothing but parts of the picture.              *)
(***************************************************************************)
EXTENDS CropScreen, TLAPS

Intervals == {i \in [lo : Int, hi : Int] : i.lo <= i.hi}
Rects == [Axes -> Intervals]

Types ==
  /\ fit \in Fits /\ fit \in [Axes -> Nat \ {0}]
  /\ picture \in Rects /\ scrollFrame \in Rects /\ cropRect \in Rects /\ initialRect \in Rects
  /\ minimumZoom \in [Axes -> Nat \ {0}]
  /\ \A a \in Axes : Size(picture[a]) \in Nat \ {0}
  /\ resizing \in Controls \cup {None}
  /\ covered \in BOOLEAN /\ open \in BOOLEAN

Dragged ==
  resizing # None /\ covered /\ Fills =>
    Within(initialRect, picture) /\ Within(cropRect, picture)

IInv ==
  /\ Types /\ gestures \in 0 .. MaxGestures
  /\ Within(scrollFrame, EditingRect)
  /\ ShownIsCropped
  /\ Dragged

-----------------------------------------------------------------------------
(* Whole numbers *)

LEMMA Quotient ==
  ASSUME NEW m \in Nat, NEW n \in Nat \ {0}, NEW k \in Nat, m <= k * n
  PROVE  m \div n \in 0 .. k
<1> DEFINE q == m \div n
<1>1. q \in Nat /\ q * n <= m
  OBVIOUS
<1>2. SUFFICES ASSUME q >= k + 1 PROVE FALSE
  BY <1>1
<1>3. q * n >= (k + 1) * n
  BY <1>1, <1>2
<1>4. (k + 1) * n = k * n + n
  OBVIOUS
<1>5. k * n \in Nat
  OBVIOUS
<1> HIDE DEF q
<1> QED
  BY <1>1, <1>3, <1>4, <1>5

LEMMA QuotientGrows ==
  ASSUME NEW m \in Nat, NEW k \in Nat, NEW n \in Nat \ {0}, m <= k
  PROVE  m \div n <= k \div n
<1> DEFINE q == k \div n
<1>1. q \in Nat /\ k < (q + 1) * n
  OBVIOUS
<1>2. SUFFICES ASSUME m \div n >= q + 1 PROVE FALSE
  BY <1>1
<1>3. (m \div n) * n <= m /\ m \div n \in Nat
  OBVIOUS
<1>4. (m \div n) * n >= (q + 1) * n
  BY <1>1, <1>2, <1>3
<1>5. (q + 1) * n \in Nat /\ (m \div n) * n \in Nat
  BY <1>1, <1>3
<1> HIDE DEF q
<1> QED
  BY <1>1, <1>3, <1>4, <1>5

LEMMA Times == \A m \in Nat, n \in Nat : m * n \in Nat
OBVIOUS

LEMMA TimesGrows ==
  ASSUME NEW m \in Nat, NEW k \in Nat, NEW n \in Nat, m <= k
  PROVE  m * n <= k * n
OBVIOUS

LEMMA QuotientIsInt == \A m \in Int, n \in Nat \ {0} : m \div n \in Int
OBVIOUS

-----------------------------------------------------------------------------
(* One axis *)

LEMMA Standards ==
  ASSUME NEW lo \in Int, NEW hi \in Int
  PROVE  Standard(lo, hi) \in Intervals
BY DEF Standard, Interval, Lesser, Greater, Intervals

LEMMA Editing ==
  ASSUME NEW a \in Axes
  PROVE  /\ Length[a] \in Nat /\ Margin[a] \in Nat
         /\ EditingRect[a].lo = Margin[a] /\ EditingRect[a].hi = Length[a] - Margin[a]
         /\ Size(EditingRect[a]) \in Nat \ {0}
         /\ Size(EditingRect[a]) = Length[a] - 2 * Margin[a]
BY CropAssumption DEF CropAssumption, EditingRect, Interval, Size

LEMMA Centring ==
  ASSUME NEW a \in Axes, NEW size \in Nat
  PROVE  /\ Centred(a, size) \in Intervals /\ Size(Centred(a, size)) = size
         /\ size <= Size(EditingRect[a]) =>
              /\ EditingRect[a].lo <= Centred(a, size).lo
              /\ Centred(a, size).hi <= EditingRect[a].hi
<1> DEFINE lo == (Length[a] - size) \div 2
<1>1. Length[a] \in Nat /\ Margin[a] \in Nat
  BY Editing
<1>2. lo \in Int /\ 2 * lo <= Length[a] - size /\ Length[a] - size <= 2 * lo + 1
  BY <1>1
<1>3. Centred(a, size) = [lo |-> lo, hi |-> lo + size]
  BY DEF Centred, Interval
<1> HIDE DEF lo
<1>4. Centred(a, size) \in Intervals /\ Size(Centred(a, size)) = size
  BY <1>2, <1>3 DEF Intervals, Size
<1>5. ASSUME size <= Size(EditingRect[a])
      PROVE  Margin[a] <= lo /\ lo + size <= Length[a] - Margin[a]
  <2>1. size <= Length[a] - 2 * Margin[a]
    BY <1>5, Editing
  <2> QED
    BY <1>1, <1>2, <2>1
<1> QED
  BY <1>3, <1>4, <1>5, Editing

LEMMA Capping ==
  ASSUME NEW i \in Intervals, NEW p \in Intervals
  PROVE  /\ Capped(i, p) \in Intervals
         /\ i.lo <= p.hi /\ p.lo <= i.hi => p.lo <= Capped(i, p).lo /\ Capped(i, p).hi <= p.hi
BY DEF Capped, Standard, Interval, Lesser, Greater, Intervals

LEMMA Placing ==
  ASSUME NEW size \in Nat, NEW middle \in Int, NEW frame \in Intervals
  PROVE  /\ Placed(size, middle, frame) \in Intervals
         /\ Size(Placed(size, middle, frame)) = size
         /\ Size(frame) <= size => /\ Placed(size, middle, frame).lo <= frame.lo
                                   /\ frame.hi <= Placed(size, middle, frame).hi
BY DEF Placed, Interval, Lesser, Greater, Size, Intervals

-----------------------------------------------------------------------------
(* Zooming *)

LEMMA SizeOf == \A i \in Intervals : Size(i) \in Nat
BY DEF Size, Intervals

\* The scale is that of the axis along which the rectangle fills the editing area first.
LEMMA Filling ==
  ASSUME NEW rect \in Rects, ~Empty(rect)
  PROVE  \E m, n \in Nat \ {0} :
           /\ FillScale(rect) = <<m, n>>
           /\ \A a \in Axes : (Size(rect[a]) * m) \div n \in 0 .. Size(EditingRect[a])
<1> DEFINE E(a) == Size(EditingRect[a])
           R(a) == Size(rect[a])
           Of(a) == <<E(a), R(a)>>
           c == CHOOSE a \in Axes : \A b \in Axes : Of(a)[1] * Of(b)[2] <= Of(b)[1] * Of(a)[2]
<1>1. FillScale(rect) = Of(c)
  BY DEF FillScale
<1>2. \A a \in Axes : E(a) \in Nat \ {0} /\ R(a) \in Nat \ {0}
  BY Editing, SizeOf DEF Rects, Empty
<1>3. \E a \in Axes : \A b \in Axes : Of(a)[1] * Of(b)[2] <= Of(b)[1] * Of(a)[2]
  <2> HIDE DEF E, R
  <2>1. \A a, b \in Axes : E(a) * R(b) \in Nat
    BY <1>2, Times
  <2>2. CASE E("x") * R("y") <= E("y") * R("x")
    <3>1. \A b \in Axes : E("x") * R(b) <= E(b) * R("x")
      BY <2>1, <2>2 DEF Axes
    <3> QED
      BY <3>1 DEF Axes
  <2>3. CASE E("y") * R("x") <= E("x") * R("y")
    <3>1. \A b \in Axes : E("y") * R(b) <= E(b) * R("y")
      BY <2>1, <2>3 DEF Axes
    <3> QED
      BY <3>1 DEF Axes
  <2> QED
    BY <2>1, <2>2, <2>3 DEF Axes
<1>4. c \in Axes /\ \A b \in Axes : Of(c)[1] * Of(b)[2] <= Of(b)[1] * Of(c)[2]
  BY <1>3
<1> HIDE DEF c
<1>5. ASSUME NEW a \in Axes PROVE (R(a) * E(c)) \div R(c) \in 0 .. E(a)
  <2> HIDE DEF E, R
  <2>1. E(c) * R(a) <= E(a) * R(c)
    BY <1>4
  <2>2. R(a) * E(c) = E(c) * R(a) /\ R(a) * E(c) \in Nat
    BY <1>2, <1>4, Times
  <2> QED
    BY <1>2, <1>4, <2>1, <2>2, Quotient
<1> QED
  BY <1>1, <1>2, <1>4, <1>5

LEMMA Zooming ==
  ASSUME Types, NEW a \in Axes, NEW m \in Nat \ {0}, NEW n \in Nat \ {0}
  PROVE  /\ ZoomedSize(a, <<m, n>>) \in Nat \ {0}
         /\ \A k \in Nat : /\ k <= (Size(picture[a]) * m) \div n
                         /\ k <= MaximumZoom * fit[a]
                         => k <= ZoomedSize(a, <<m, n>>)
<1> DEFINE wanted == (Size(picture[a]) * m) \div n
           most == MaximumZoom * fit[a]
<1>1. Size(picture[a]) * m \in Nat
  BY SizeOf, Times DEF Types, Rects
<1>2. wanted \in Int
  BY <1>1, QuotientIsInt
<1>3. most \in Nat \ {0}
  <2>1. MaximumZoom \in Nat \ {0} /\ fit[a] \in Nat \ {0}
    BY CropAssumption DEF CropAssumption, Types
  <2> QED
    BY <2>1
<1>4. minimumZoom[a] \in Nat \ {0}
  BY DEF Types
<1>5. ZoomedSize(a, <<m, n>>) = Lesser(Greater(wanted, minimumZoom[a]), most)
  BY DEF ZoomedSize
<1> HIDE DEF wanted, most
<1>6. /\ ZoomedSize(a, <<m, n>>) \in Nat \ {0}
      /\ \A k \in Nat : k <= wanted /\ k <= most => k <= ZoomedSize(a, <<m, n>>)
  BY <1>2, <1>3, <1>4, <1>5 DEF Lesser, Greater
<1> QED
  BY <1>6 DEF wanted, most

\* The picture after a zoom, which covers the frame where it can
LEMMA ZoomedPictures ==
  ASSUME Types, NEW rect \in Rects, NEW m \in Nat \ {0}, NEW n \in Nat \ {0},
         NEW frame \in Rects, NEW shouldCenter \in BOOLEAN
  PROVE  /\ ZoomedPicture(rect, <<m, n>>, frame, shouldCenter) \in Rects
         /\ \A a \in Axes :
              LET i == ZoomedPicture(rect, <<m, n>>, frame, shouldCenter)[a]
              IN  /\ Size(i) = ZoomedSize(a, <<m, n>>)
                  /\ Size(frame[a]) <= ZoomedSize(a, <<m, n>>) =>
                       i.lo <= frame[a].lo /\ frame[a].hi <= i.hi
<1> DEFINE p == ZoomedPicture(rect, <<m, n>>, frame, shouldCenter)
           size(a) == ZoomedSize(a, <<m, n>>)
           point(a) == ((rect[a].lo + rect[a].hi - 2 * picture[a].lo) * size(a))
                          \div (2 * Size(picture[a]))
           middle(a) == Length[a] \div 2
                          - (IF shouldCenter THEN size(a) \div 2 ELSE point(a))
<1>1. p = [a \in Axes |-> Placed(size(a), middle(a), frame[a])]
  BY DEF ZoomedPicture
<1>2. ASSUME NEW a \in Axes PROVE size(a) \in Nat \ {0} /\ middle(a) \in Int
  <2>1. size(a) \in Nat \ {0}
    BY Zooming
  <2> HIDE DEF size
  <2>2. Size(picture[a]) \in Nat \ {0}
    BY SizeOf DEF Types, Rects
  <2>3. rect[a].lo + rect[a].hi - 2 * picture[a].lo \in Int
    BY DEF Types, Rects, Intervals
  <2>4. (rect[a].lo + rect[a].hi - 2 * picture[a].lo) * size(a) \in Int
    BY <2>1, <2>3
  <2>5. 2 * Size(picture[a]) \in Nat \ {0}
    BY <2>2
  <2>6. point(a) \in Int
    BY <2>4, <2>5, QuotientIsInt
  <2>7. size(a) \div 2 \in Int /\ Length[a] \div 2 \in Int
    BY <2>1, Editing
  <2> HIDE DEF point
  <2> QED
    BY <2>1, <2>6, <2>7
<1> HIDE DEF p, size, middle
<1>3. ASSUME NEW a \in Axes
      PROVE  /\ p[a] \in Intervals /\ Size(p[a]) = size(a)
             /\ Size(frame[a]) <= size(a) =>
                  p[a].lo <= frame[a].lo /\ frame[a].hi <= p[a].hi
  BY <1>1, <1>2, Placing DEF Rects
<1>4. p \in Rects
  BY <1>1, <1>3 DEF Rects
<1> QED
  BY <1>2, <1>3, <1>4 DEF p, size

\* What zoomToCropRect leaves, whatever it is asked for
LEMMA ZoomsToCropRect ==
  ASSUME Types, NEW shown \in Rects, NEW rect \in Rects, NEW shouldCenter \in BOOLEAN,
         ZoomToCropRect(shown, rect, shouldCenter)
  PROVE  /\ scrollFrame' \in Rects /\ cropRect' \in Rects /\ picture' \in Rects
         /\ \A a \in Axes : Size(picture'[a]) \in Nat \ {0}
         /\ open' \in BOOLEAN /\ (open' => open)
         /\ Within(scrollFrame, EditingRect) => Within(scrollFrame', EditingRect)
         /\ \/ cropRect' = scrollFrame'
            \/ cropRect' = shown /\ scrollFrame' = scrollFrame /\ (open' => rect = scrollFrame)
         /\ Fills /\ Within(rect, picture) /\ shown = rect => Within(cropRect', picture')
<1>1. \A a \in Axes : Size(picture[a]) \in Nat \ {0}
  BY SizeOf DEF Types, Rects
<1>2. CASE rect = scrollFrame /\ cropRect' = shown /\ UNCHANGED <<scrollFrame, picture, open>>
  BY <1>1, <1>2 DEF Types
<1>3. CASE rect # scrollFrame /\ cropRect' = shown /\ open' = FALSE
            /\ UNCHANGED <<scrollFrame, picture>>
  BY <1>1, <1>3 DEF Types
<1>4. CASE rect # scrollFrame /\ ~Empty(rect) /\ UNCHANGED open
            /\ LET scale == FillScale(rect)
                   frame == [a \in Axes |->
                               Centred(a, (Size(rect[a]) * scale[1]) \div scale[2])]
               IN /\ scrollFrame' = frame
                  /\ cropRect' = frame
                  /\ picture' = ZoomedPicture(rect, scale, frame, shouldCenter)
  <2>1. PICK m, n \in Nat \ {0} :
           /\ FillScale(rect) = <<m, n>>
           /\ \A a \in Axes : (Size(rect[a]) * m) \div n \in 0 .. Size(EditingRect[a])
    BY <1>4, Filling
  <2> DEFINE size(a) == (Size(rect[a]) * m) \div n
             frame == [a \in Axes |-> Centred(a, size(a))]
  <2>2. /\ scrollFrame' = frame /\ cropRect' = frame
        /\ picture' = ZoomedPicture(rect, <<m, n>>, frame, shouldCenter)
    BY <1>4, <2>1
  <2>3. ASSUME NEW a \in Axes
        PROVE  /\ size(a) \in Nat /\ size(a) <= Size(EditingRect[a])
               /\ frame[a] \in Intervals /\ Size(frame[a]) = size(a)
               /\ EditingRect[a].lo <= frame[a].lo /\ frame[a].hi <= EditingRect[a].hi
    <3>1. size(a) \in Nat /\ size(a) <= Size(EditingRect[a])
      BY <2>1, Editing
    <3> HIDE DEF size
    <3> QED
      BY <3>1, Centring
  <2>4. frame \in Rects
    BY <2>3 DEF Rects
  <2>5. Within(frame, EditingRect)
    BY <2>3 DEF Within
  <2>10b. picture' \in Rects
    BY <2>2, <2>4, ZoomedPictures
  <2>6. ASSUME NEW a \in Axes
        PROVE  /\ Size(picture'[a]) = ZoomedSize(a, <<m, n>>)
               /\ Size(frame[a]) <= ZoomedSize(a, <<m, n>>) =>
                    picture'[a].lo <= frame[a].lo /\ frame[a].hi <= picture'[a].hi
    <3> HIDE DEF frame, size
    <3>1. \A b \in Axes :
             /\ Size(picture'[b]) = ZoomedSize(b, <<m, n>>)
             /\ Size(frame[b]) <= ZoomedSize(b, <<m, n>>) =>
                  picture'[b].lo <= frame[b].lo /\ frame[b].hi <= picture'[b].hi
      BY <2>2, <2>4, ZoomedPictures
    <3> QED
      BY <3>1
  <2>7. ASSUME Fills, Within(rect, picture), NEW a \in Axes
        PROVE  Size(frame[a]) <= ZoomedSize(a, <<m, n>>)
    <3>1. Size(rect[a]) \in Nat /\ Size(picture[a]) \in Nat /\ Size(rect[a]) <= Size(picture[a])
      BY <2>7, SizeOf DEF Within, Size, Types, Rects, Intervals
    <3>2. /\ Size(rect[a]) * m \in Nat /\ Size(picture[a]) * m \in Nat
          /\ Size(rect[a]) * m <= Size(picture[a]) * m
      BY <3>1, Times, TimesGrows
    <3>3. size(a) <= (Size(picture[a]) * m) \div n
      BY <3>2, QuotientGrows
    <3>4. Size(EditingRect[a]) <= MaximumZoom * fit[a]
      BY <2>7, Editing, CropAssumption DEF Fills, CropAssumption, Types
    <3>5. MaximumZoom * fit[a] \in Nat /\ Size(EditingRect[a]) \in Nat
      BY Editing, Times, CropAssumption DEF CropAssumption, Types
    <3> HIDE DEF size, frame
    <3>6. size(a) \in Nat /\ size(a) <= MaximumZoom * fit[a]
      BY <2>3, <3>4, <3>5
    <3> QED
      BY <2>3, <3>3, <3>6, Zooming
  <2> HIDE DEF frame, size
  <2>8. ASSUME Fills, Within(rect, picture) PROVE Within(cropRect', picture')
    <3>1. ASSUME NEW a \in Axes
          PROVE  picture'[a].lo <= cropRect'[a].lo /\ cropRect'[a].hi <= picture'[a].hi
      BY <2>2, <2>6, <2>7, <2>8
    <3> QED
      BY <3>1 DEF Within
  <2>9. scrollFrame' = cropRect' /\ cropRect' \in Rects /\ Within(scrollFrame', EditingRect)
    BY <2>2, <2>4, <2>5
  <2>10. picture' \in Rects /\ \A a \in Axes : Size(picture'[a]) \in Nat \ {0}
    BY <2>10b, <2>6, Zooming
  <2>11. open' \in BOOLEAN /\ (open' => open)
    BY <1>4 DEF Types
  <2> QED
    BY <2>8, <2>9, <2>10, <2>11
<1> QED
  BY <1>2, <1>3, <1>4 DEF ZoomToCropRect

-----------------------------------------------------------------------------
(* Drags *)

\* Where the finger puts a rectangle. One that starts in the picture ends there.
LEMMA Cropping ==
  ASSUME Types, NEW point \in [Axes -> Int]
  PROVE  LET wanted == CropRectWithResizeControl(point)
             rect == [a \in Axes |-> Capped(wanted[a], picture[a])]
         IN  /\ rect \in Rects
             /\ Within(initialRect, picture) /\ Within(cropRect, picture)
                  => Within(rect, picture)
<1> DEFINE wanted == CropRectWithResizeControl(point)
           rect == [a \in Axes |-> Capped(wanted[a], picture[a])]
<1>1. ASSUME NEW a \in Axes
      PROVE  /\ wanted[a] \in Intervals
             /\ Within(initialRect, picture) /\ Within(cropRect, picture) =>
                  wanted[a].lo <= picture[a].hi /\ picture[a].lo <= wanted[a].hi
  <2> DEFINE moved == Moved(initialRect[a], resizing[a], point[a])
  <2>1. wanted[a] = AtLeast(moved, cropRect[a])
    BY DEF CropRectWithResizeControl
  <2>2. /\ initialRect[a] \in Intervals /\ cropRect[a] \in Intervals
        /\ picture[a] \in Intervals /\ point[a] \in Int
    BY DEF Types, Rects
  <2>3. resizing[a] \in {"lo", "hi", "fixed"}
    BY DEF Types, Controls, None
  <2>4. /\ moved \in Intervals
        /\ moved.lo <= initialRect[a].hi /\ initialRect[a].lo <= moved.hi
    BY <2>2, <2>3 DEF Moved, Standard, Interval, Lesser, Greater, Intervals
  <2>5. MinimumSize \in Nat
    BY CropAssumption DEF CropAssumption, MinimumSize
  <2> HIDE DEF moved
  <2>6. /\ AtLeast(moved, cropRect[a]) \in Intervals
        /\ AtLeast(moved, cropRect[a]) = moved
           \/ AtLeast(moved, cropRect[a]) = [lo |-> cropRect[a].hi - MinimumSize,
                                            hi |-> cropRect[a].hi]
    BY <2>2, <2>4, <2>5 DEF AtLeast, Interval, Intervals
  <2>7. ASSUME Within(initialRect, picture), Within(cropRect, picture)
        PROVE  wanted[a].lo <= picture[a].hi /\ picture[a].lo <= wanted[a].hi
    <3>1. /\ picture[a].lo <= initialRect[a].lo /\ initialRect[a].hi <= picture[a].hi
          /\ picture[a].lo <= cropRect[a].lo /\ cropRect[a].hi <= picture[a].hi
      BY <2>7 DEF Within
    <3> QED
      BY <2>1, <2>2, <2>4, <2>5, <2>6, <3>1 DEF Intervals
  <2> QED
    BY <2>1, <2>6, <2>7
<1> HIDE DEF wanted
<1>2. ASSUME NEW a \in Axes
      PROVE  /\ rect[a] \in Intervals
             /\ Within(initialRect, picture) /\ Within(cropRect, picture) =>
                  picture[a].lo <= rect[a].lo /\ rect[a].hi <= picture[a].hi
  BY <1>1, Capping DEF Types, Rects
<1>3. rect \in Rects
  BY <1>2 DEF Rects
<1> HIDE DEF rect
<1>4. ASSUME Within(initialRect, picture), Within(cropRect, picture)
      PROVE  Within(rect, picture)
  BY <1>2, <1>4 DEF Within
<1> QED
  BY <1>3, <1>4 DEF rect, wanted

LEMMA PointsAreNumbers ==
  \A x \in Points.x, y \in Points.y : [a \in Axes |-> IF a = "x" THEN x ELSE y] \in [Axes -> Int]
<1>1. \A p \in Points.x \cup Points.y : p \in Int
  BY Editing, CropAssumption DEF CropAssumption, Axes
<1> QED
  BY <1>1

\* A drag that began in the picture: the finger moves, or is lifted.
LEMMA Resizes ==
  ASSUME IInv, NEW point \in [Axes -> Int], Resize(point)
  PROVE  /\ scrollFrame' \in Rects /\ cropRect' \in Rects /\ picture' \in Rects
         /\ \A a \in Axes : Size(picture'[a]) \in Nat \ {0}
         /\ open' \in BOOLEAN /\ Within(scrollFrame', EditingRect)
         /\ covered /\ Fills => Within(cropRect', picture')
<1> DEFINE wanted == CropRectWithResizeControl(point)
           rect == [a \in Axes |-> Capped(wanted[a], picture[a])]
<1>1. rect \in Rects /\ (covered /\ Fills => Within(rect, picture))
  BY Cropping DEF IInv, Dragged, Resize
<1>2. \/ ZoomToCropRect(rect, rect, FALSE)
      \/ cropRect' = rect /\ UNCHANGED <<scrollFrame, picture, open>>
  BY DEF Resize
<1>3. Types /\ Within(scrollFrame, EditingRect)
  BY DEF IInv
<1> HIDE DEF rect
<1>4. \A a \in Axes : Size(picture[a]) \in Nat \ {0}
  BY <1>3, SizeOf DEF Types, Rects
<1>5. CASE cropRect' = rect /\ UNCHANGED <<scrollFrame, picture, open>>
  BY <1>1, <1>3, <1>4, <1>5 DEF Types
<1>6. CASE ZoomToCropRect(rect, rect, FALSE)
  <2>1. /\ scrollFrame' \in Rects /\ cropRect' \in Rects /\ picture' \in Rects
        /\ \A a \in Axes : Size(picture'[a]) \in Nat \ {0}
        /\ open' \in BOOLEAN /\ Within(scrollFrame', EditingRect)
        /\ Fills /\ Within(rect, picture) => Within(cropRect', picture')
    BY <1>1, <1>3, <1>6, ZoomsToCropRect
  <2> QED
    BY <1>1, <2>1
<1> QED
  BY <1>2, <1>5, <1>6

\* The finger is lifted.
LEMMA EndsResizing ==
  ASSUME IInv, EndResizing
  PROVE  /\ scrollFrame' \in Rects /\ cropRect' \in Rects /\ picture' \in Rects
         /\ \A a \in Axes : Size(picture'[a]) \in Nat \ {0}
         /\ open' \in BOOLEAN /\ Within(scrollFrame', EditingRect)
         /\ open' => cropRect' = scrollFrame'
         /\ covered /\ Fills => Within(cropRect', picture')
<1>1. Types /\ Within(scrollFrame, EditingRect) /\ cropRect \in Rects
  BY DEF IInv, Types
<1>2. ZoomToCropRect(cropRect, cropRect, FALSE)
  BY DEF EndResizing
<1>3. covered /\ Fills => Within(cropRect, picture)
  BY DEF IInv, Dragged, EndResizing
<1> QED
  BY <1>1, <1>2, <1>3, ZoomsToCropRect

-----------------------------------------------------------------------------
(* Presets *)

LEMMA WithSizes ==
  ASSUME NEW rect \in Rects, NEW a \in Axes, NEW size \in Nat
  PROVE  WithSize(rect, a, size) \in Rects
<1>1. Interval(rect[a].lo, rect[a].lo + size) \in Intervals
  BY DEF Interval, Rects, Intervals
<1> QED
  BY <1>1 DEF WithSize, Rects

LEMMA QuotientIsNat == \A m \in Nat, k \in Nat, n \in Nat \ {0} : (m * k) \div n \in Nat
OBVIOUS

LEMMA Presets ==
  ASSUME Types
  PROVE  /\ OriginalRect \in Rects
         /\ \A r \in Heights : ShapedRect(r) \in Rects
         /\ \A r \in Widths : RatioRect(r) \in Rects
<1>1. /\ Size(scrollFrame.x) \in Nat /\ Size(scrollFrame.y) \in Nat
      /\ scrollFrame \in Rects /\ "x" \in Axes /\ "y" \in Axes
  BY SizeOf DEF Types, Rects, Axes
<1>2. fit.x \in Nat \ {0} /\ fit.y \in Nat \ {0}
  BY DEF Types, Axes
<1>3. \A r \in Heights \cup Widths : r[1] \in Nat \ {0} /\ r[2] \in Nat \ {0}
  BY CropAssumption DEF CropAssumption
<1>4. OriginalRect \in Rects
  BY <1>1, <1>2, QuotientIsNat, WithSizes DEF OriginalRect
<1>5. ASSUME NEW r \in Heights PROVE ShapedRect(r) \in Rects
  BY <1>1, <1>3, QuotientIsNat, WithSizes DEF ShapedRect
<1>6. ASSUME NEW r \in Widths PROVE RatioRect(r) \in Rects
  BY <1>1, <1>3, QuotientIsNat, WithSizes DEF RatioRect
<1> QED
  BY <1>4, <1>5, <1>6

LEMMA SetsCropRect ==
  ASSUME IInv, NEW rect \in Rects, NEW shouldCenter \in BOOLEAN,
         resizing = None, open,
         ZoomToCropRect(cropRect, rect, shouldCenter)
  PROVE  /\ scrollFrame' \in Rects /\ cropRect' \in Rects /\ picture' \in Rects
         /\ \A a \in Axes : Size(picture'[a]) \in Nat \ {0}
         /\ open' \in BOOLEAN /\ Within(scrollFrame', EditingRect)
         /\ cropRect' = scrollFrame'
<1>1. /\ Types /\ Within(scrollFrame, EditingRect) /\ cropRect \in Rects
      /\ cropRect = scrollFrame
  BY DEF IInv, Types, ShownIsCropped
<1> QED
  BY <1>1, ZoomsToCropRect

-----------------------------------------------------------------------------
(* Steps *)

\* The picture is scrolled or pinched, and keeps a size.
LEMMA Scrolls ==
  ASSUME Types, Scroll
  PROVE  picture' \in Rects /\ \A a \in Axes : Size(picture'[a]) \in Nat \ {0}
<1> DEFINE sizes == {[a \in Axes |-> Size(picture[a])], minimumZoom,
                     [a \in Axes |-> MaximumZoom * fit[a]]}
<1>1. PICK size \in sizes, x \in {picture.x.lo, -MaximumZoom * Length.x, Length.x},
           y \in {picture.y.lo, -MaximumZoom * Length.y, Length.y} :
         picture' = [a \in Axes |-> Placed(size[a], IF a = "x" THEN x ELSE y, scrollFrame[a])]
  BY DEF Scroll
<1>2. /\ "x" \in Axes /\ "y" \in Axes /\ MaximumZoom \in Nat \ {0}
      /\ Length.x \in Nat /\ Length.y \in Nat
  BY CropAssumption DEF CropAssumption, Axes
<1>3. picture.x.lo \in Int /\ picture.y.lo \in Int
  BY <1>2 DEF Types, Rects, Intervals
<1>4. x \in Int /\ y \in Int
  BY <1>1, <1>2, <1>3
<1>5. ASSUME NEW a \in Axes PROVE size[a] \in Nat \ {0}
  <2>1. Size(picture[a]) \in Nat \ {0}
    BY SizeOf DEF Types, Rects
  <2>2. minimumZoom[a] \in Nat \ {0} /\ fit[a] \in Nat \ {0}
    BY DEF Types
  <2>3. MaximumZoom * fit[a] \in Nat \ {0}
    BY <1>2, <2>2
  <2> QED
    BY <1>1, <2>1, <2>2, <2>3
<1>6. ASSUME NEW a \in Axes
      PROVE  picture'[a] \in Intervals /\ Size(picture'[a]) \in Nat \ {0}
  <2>1. scrollFrame[a] \in Intervals
    BY DEF Types, Rects
  <2>2. picture'[a] = Placed(size[a], IF a = "x" THEN x ELSE y, scrollFrame[a])
    BY <1>1
  <2> QED
    BY <1>4, <1>5, <2>1, <2>2, Placing
<1> QED
  BY <1>1, <1>6 DEF Rects

LEMMA Starts == Init => IInv
<1> SUFFICES ASSUME Init PROVE IInv
  OBVIOUS
<1>1. fit \in Fits /\ fit \in [Axes -> Nat \ {0}]
  BY CropAssumption DEF Init, CropAssumption
<1>2. ASSUME NEW a \in Axes
      PROVE  /\ picture[a] \in Intervals /\ Size(picture[a]) \in Nat \ {0}
             /\ EditingRect[a].lo <= picture[a].lo /\ picture[a].hi <= EditingRect[a].hi
  <2>1. fit[a] \in Nat \ {0} /\ fit[a] <= Size(EditingRect[a])
    BY <1>1, Editing, CropAssumption DEF CropAssumption
  <2> QED
    BY <2>1, Centring DEF Init
<1>3. picture \in Rects
  BY <1>2 DEF Init, Rects
<1>4. Zero \in Rects
  BY DEF Zero, Rects, Interval, Intervals
<1>5. Within(picture, EditingRect)
  BY <1>2 DEF Within
<1>6. gestures \in 0 .. MaxGestures
  BY CropAssumption DEF Init, CropAssumption
<1>7. resizing = None /\ covered = FALSE /\ open = TRUE
  BY DEF Init
<1>8. minimumZoom \in [Axes -> Nat \ {0}] /\ {scrollFrame, cropRect, initialRect} \subseteq Rects
  BY <1>1, <1>3, <1>4 DEF Init
<1>9. Types
  BY <1>1, <1>2, <1>3, <1>7, <1>8 DEF Types
<1> QED
  BY <1>5, <1>6, <1>9 DEF Init, IInv, ShownIsCropped, Dragged

LEMMA Counted == gestures \in 0 .. MaxGestures /\ [Next]_vars => gestures' \in 0 .. MaxGestures
<1> SUFFICES ASSUME gestures \in 0 .. MaxGestures, [Next]_vars
             PROVE  gestures' \in 0 .. MaxGestures
  OBVIOUS
<1>1. gestures' = gestures \/ (gestures < MaxGestures /\ gestures' = gestures + 1)
  BY DEF Next, vars, BeginResizing, Resize, EndResizing, SetCropRect, SetCropAspectRatio, Scroll,
     Finish, Gesture
<1> QED
  BY <1>1, CropAssumption DEF CropAssumption

LEMMA Steps == IInv /\ [Next]_vars => IInv'
<1> SUFFICES ASSUME IInv, [Next]_vars PROVE IInv'
  OBVIOUS
<1>a. gestures' \in 0 .. MaxGestures
  BY Counted DEF IInv
<1>b. None \notin Controls
  BY DEF Controls
<1>c. Types /\ ShownIsCropped /\ Dragged /\ Within(scrollFrame, EditingRect)
  BY DEF IInv
<1> USE <1>a, <1>b, <1>c
<1> USE DEF Gesture
<1>1. ASSUME NEW c \in Controls, BeginResizing(c) PROVE IInv'
  <2>a. covered' \in BOOLEAN
    BY <1>1 DEF BeginResizing, Within
  <2>1. Types'
    BY <1>1, <2>a DEF BeginResizing, Types
  <2>2. Dragged'
    BY <1>1 DEF BeginResizing, Dragged
  <2> QED
    BY <1>1, <2>1, <2>2 DEF BeginResizing, IInv, ShownIsCropped, Within
<1>2. ASSUME NEW point \in [Axes -> Int], Resize(point) PROVE IInv'
  <2>1. /\ resizing # None /\ UNCHANGED <<fit, minimumZoom, initialRect, resizing>>
        /\ covered' = (covered /\ picture' = picture)
    BY <1>2 DEF Resize
  <2>2. /\ scrollFrame' \in Rects /\ cropRect' \in Rects /\ picture' \in Rects
        /\ \A a \in Axes : Size(picture'[a]) \in Nat \ {0}
        /\ open' \in BOOLEAN /\ Within(scrollFrame', EditingRect)
        /\ covered /\ Fills => Within(cropRect', picture')
    BY <1>2, Resizes
  <2>3. Types'
    BY <2>1, <2>2 DEF Types
  <2>4. Dragged'
    BY <2>1, <2>2 DEF Dragged, Fills
  <2> QED
    BY <2>1, <2>2, <2>3, <2>4 DEF IInv, ShownIsCropped
<1>3. CASE EndResizing
  <2>1. /\ resizing' = None /\ initialRect' = Zero /\ covered' = FALSE
        /\ UNCHANGED <<fit, minimumZoom>>
    BY <1>3 DEF EndResizing
  <2>2. /\ scrollFrame' \in Rects /\ cropRect' \in Rects /\ picture' \in Rects
        /\ \A a \in Axes : Size(picture'[a]) \in Nat \ {0}
        /\ open' \in BOOLEAN /\ Within(scrollFrame', EditingRect)
        /\ open' => cropRect' = scrollFrame'
    BY <1>3, EndsResizing
  <2>3. Zero \in Rects
    BY DEF Zero, Rects, Interval, Intervals
  <2>4. Types'
    BY <2>1, <2>2, <2>3 DEF Types
  <2>5. ShownIsCropped'
    BY <2>2 DEF ShownIsCropped
  <2> QED
    BY <2>1, <2>2, <2>4, <2>5 DEF IInv, Dragged
<1>4. ASSUME \/ SetCropRect(OriginalRect) \/ \E r \in Heights : SetCropRect(ShapedRect(r))
             \/ \E r \in Widths : SetCropAspectRatio(r)
      PROVE  IInv'
  <2>1. /\ resizing = None /\ open
        /\ UNCHANGED <<fit, initialRect, resizing, covered>>
    BY <1>4 DEF SetCropRect, SetCropAspectRatio
  <2>2. \E rect \in Rects, shouldCenter \in BOOLEAN : ZoomToCropRect(cropRect, rect, shouldCenter)
    <3>1. CASE SetCropRect(OriginalRect)
      BY <3>1, Presets DEF SetCropRect
    <3>2. CASE \E r \in Heights : SetCropRect(ShapedRect(r))
      BY <3>2, Presets DEF SetCropRect
    <3>3. CASE \E r \in Widths : SetCropAspectRatio(r)
      BY <3>3, Presets DEF SetCropAspectRatio
    <3> QED
      BY <1>4, <3>1, <3>2, <3>3
  <2>3. /\ scrollFrame' \in Rects /\ cropRect' \in Rects /\ picture' \in Rects
        /\ \A a \in Axes : Size(picture'[a]) \in Nat \ {0}
        /\ open' \in BOOLEAN /\ Within(scrollFrame', EditingRect)
        /\ cropRect' = scrollFrame'
    BY <2>1, <2>2, SetsCropRect
  <2>4. minimumZoom' \in {minimumZoom, [a \in Axes |-> Size(picture'[a])]}
    BY <1>4 DEF SetCropRect, SetCropAspectRatio
  <2>5. [a \in Axes |-> Size(picture'[a])] \in [Axes -> Nat \ {0}]
    BY <2>3
  <2>6. minimumZoom' \in [Axes -> Nat \ {0}]
    BY <2>4, <2>5 DEF Types
  <2>7. Types'
    BY <2>1, <2>3, <2>6 DEF Types
  <2>8. ShownIsCropped' /\ Dragged'
    BY <2>1, <2>3 DEF ShownIsCropped, Dragged
  <2> QED
    BY <2>3, <2>7, <2>8 DEF IInv
<1>5. CASE Scroll
  <2>1. /\ resizing = None
        /\ UNCHANGED <<fit, minimumZoom, scrollFrame, cropRect, initialRect, resizing,
                       covered, open>>
    BY <1>5 DEF Scroll
  <2>2. picture' \in Rects /\ \A a \in Axes : Size(picture'[a]) \in Nat \ {0}
    BY <1>5, Scrolls
  <2>3. Types'
    BY <2>1, <2>2 DEF Types
  <2> QED
    BY <2>1, <2>3 DEF IInv, ShownIsCropped, Dragged, Within
<1>6. CASE Finish
  <2>1. Types'
    BY <1>6 DEF Finish, Types
  <2> QED
    BY <1>6, <2>1 DEF Finish, IInv, ShownIsCropped, Dragged, Within
<1>7. CASE UNCHANGED vars
  <2>1. Types'
    BY <1>7 DEF vars, Types
  <2> QED
    BY <1>7, <2>1 DEF vars, IInv, ShownIsCropped, Dragged, Within, Fills
<1>8. (\E x \in Points.x, y \in Points.y :
          Resize([a \in Axes |-> IF a = "x" THEN x ELSE y]))
        => \E point \in [Axes -> Int] : Resize(point)
  BY PointsAreNumbers
<1> QED
  BY <1>1, <1>2, <1>3, <1>4, <1>5, <1>6, <1>7, <1>8 DEF Next

-----------------------------------------------------------------------------
(* Theorems *)

LEMMA Inductive == Spec => []IInv
BY Starts, Steps, PTL DEF Spec

\* Every rectangle of the crop screen has its ends in order, however its handles are
\* crossed (CropRectView.swift:158-260).
THEOREM CropTypes == Spec => []TypeOK
<1>1. IInv => TypeOK
  <2> SUFFICES ASSUME IInv PROVE TypeOK
    OBVIOUS
  <2>1. \A v \in {picture, scrollFrame, cropRect, initialRect} :
          \A a \in Axes : v[a].lo \in Int /\ v[a].hi \in Int /\ v[a].lo <= v[a].hi
    BY DEF IInv, Types, Rects, Intervals
  <2> QED
    BY <2>1 DEF IInv, Types, TypeOK
<1> QED
  BY <1>1, Inductive, PTL

\* What is shown when no handle is held is what will be cut out (CropView.swift:257-420).
THEOREM CutsWhatIsShown == Spec => []ShownIsCropped
<1>1. IInv => ShownIsCropped
  BY DEF IInv
<1> QED
  BY <1>1, Inductive, PTL

\* A drag that begins in a picture that can fill the screen does not leave it before the
\* picture is zoomed (CropRectView.swift:158-260, CropView.swift:257-420).
THEOREM DragsKeepInside == Spec => DragsStayInside
<1>1. IInv /\ [Next]_vars => [resizing # None /\ covered /\ Fills => Within(cropRect', picture')]_vars
  <2> SUFFICES ASSUME IInv, Next, resizing # None, covered, Fills
               PROVE  Within(cropRect', picture')
    OBVIOUS
  <2>1. ASSUME NEW point \in [Axes -> Int], Resize(point) PROVE Within(cropRect', picture')
    BY <2>1, Resizes
  <2>2. CASE EndResizing
    BY <2>2, EndsResizing
  <2>3. CASE Finish
    BY <2>3 DEF Finish
  <2>4. (\E x \in Points.x, y \in Points.y :
            Resize([a \in Axes |-> IF a = "x" THEN x ELSE y]))
          => \E point \in [Axes -> Int] : Resize(point)
    BY PointsAreNumbers
  <2> QED
    BY <2>1, <2>2, <2>3, <2>4 DEF Next, BeginResizing, SetCropRect, SetCropAspectRatio, Scroll,
       Gesture
<1> QED
  BY <1>1, Inductive, PTL DEF Spec, DragsStayInside
=============================================================================
