---------------------------- MODULE MCCropScreen ----------------------------
(* The instance of CropScreen that TLC checks. *)
EXTENDS CropScreen

Sizes(x, y) == [a \in Axes |-> IF a = "x" THEN x ELSE y]
MCLength == Sizes(8, 10)
MCMargin == Sizes(1, 1)
MCFits == {Sizes(6, 4), Sizes(4, 8), Sizes(6, 2)}
MCHeights == {<<1, 1>>}
MCWidths == {<<2, 3>>}
MCPoints == [a \in Axes |-> {-1, 5, Length[a] + 1} \cup IF a = "x" THEN {2} ELSE {}]
=============================================================================
