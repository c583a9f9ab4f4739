-------------------------- MODULE PhotoEditorProofs --------------------------
(***************************************************************************)
(* The modes of the photo editor, for any number of sheets and drags.      *)
(* TypeOK is proved in three parts, as the provers treat Boolean fields of *)
(* records, Boolean variables and numbers differently.                     *)
(***************************************************************************)
EXTENDS PhotoEditor, TLAPS

View == [toolbar : BOOLEAN, done : BOOLEAN, colors : BOOLEAN, trash : BOOLEAN]

Flags ==
  /\ screen \in {"open", "closed", "crashed"}
  /\ isDrawing \in BOOLEAN /\ isTyping \in BOOLEAN /\ stickersVCIsVisible \in BOOLEAN
  /\ canvas \in BOOLEAN
  /\ keyboard \in {"down", "rising", "up"}
  /\ sheet \in BOOLEAN
  /\ touch \in BOOLEAN /\ lastPoint \in BOOLEAN
  /\ cancelled \in BOOLEAN /\ dragged \in BOOLEAN

Counts ==
  /\ sheets \in 0 .. MaxSheets
  /\ leaving \in [Ways -> Nat]
  /\ items \subseteq {"text", "sticker"} /\ pans \in 0 .. MaxPans

LEMMA TypeParts == TypeOK <=> (shown \in View /\ Flags /\ Counts)
  BY Zenon DEF TypeOK, View, Flags, Counts

LEMMA ViewStep == shown \in View /\ Flags /\ [Next]_vars => shown' \in View
<1> SUFFICES ASSUME shown \in View, isTyping \in BOOLEAN, [Next]_vars PROVE shown' \in View
  BY DEF Flags
<1>1. CASE SheetDraggedDown \/ StickerSelected \/ TouchesBegan \/ TouchesMoved \/
   TouchesEnded \/ TextButtonTapped \/ TextViewTapped \/ Dismissed
  BY <1>1, Zenon DEF SheetDraggedDown, Choosable, StickerSelected, RemoveStickersView,
     TouchesBegan, TouchesMoved, TouchesEnded, TextButtonTapped, BeginEditing,
     TextViewTapped, Dismissed, typing, sheeted, finger, drags, View
<1>2. CASE DrawButtonTapped \/ DoneButtonTapped
  BY <1>2, Zenon DEF DrawButtonTapped, DoneButtonTapped, typing, sheeted, finger,
     drags, View
<1>3. CASE KeyboardDidShow
  BY <1>3, Zenon DEF KeyboardDidShow, typing, sheeted, finger, drags, View
<1>4. CASE KeyboardDismissed \/ ClearButtonTapped
  BY <1>4, Zenon DEF KeyboardDismissed, HideKeyboard, ClearButtonTapped, typing,
     sheeted, finger, drags, View
<1>5. CASE StickersButtonTapped \/ ScreenEdgeSwiped
  BY <1>5, Zenon DEF StickersButtonTapped, AddStickersViewController,
     ScreenEdgeSwiped, typing, sheeted, finger, drags, View
<1>6. ASSUME NEW way \in Ways, SheetRemoved(way) PROVE shown' \in View
  BY <1>6, Zenon DEF SheetRemoved, typing, sheeted, finger, drags, View
<1>7. CASE PanBegan \/ PanChanged \/ PanCancelled
  BY <1>7, Zenon DEF PanBegan, Moving, PanChanged, PanCancelled, typing, sheeted,
     finger, drags, View
<1>8. CASE PanEnded
  BY <1>8, Zenon DEF PanEnded, HideKeyboard, typing, sheeted, finger, drags, View
<1>9. CASE UNCHANGED vars
  BY <1>9 DEF typing, sheeted, finger, drags, View, vars
<1> QED
  BY <1>1, <1>2, <1>3, <1>4, <1>5, <1>6, <1>7, <1>8, <1>9 DEF Next, Handler

LEMMA FlagsStep == Flags /\ [Next]_vars => Flags'
<1> SUFFICES ASSUME Flags, [Next]_vars PROVE Flags'
  OBVIOUS
<1>1. CASE (DrawButtonTapped \/ DoneButtonTapped) /\ Remember
  BY <1>1 DEF DrawButtonTapped, DoneButtonTapped, typing, sheeted, finger, drags,
     Flags, Remember
<1>2. CASE (TextButtonTapped \/ TextViewTapped) /\ Remember
  BY <1>2 DEF TextButtonTapped, BeginEditing, TextViewTapped, typing, sheeted, finger,
     drags, Flags, Remember
<1>3. CASE KeyboardDidShow /\ Remember
  BY <1>3 DEF KeyboardDidShow, typing, sheeted, finger, drags, Flags, Remember
<1>4. CASE KeyboardDismissed /\ Remember
  BY <1>4 DEF KeyboardDismissed, HideKeyboard, typing, sheeted, finger, drags, Flags,
     Remember
<1>5. CASE ClearButtonTapped /\ Remember
  BY <1>5 DEF ClearButtonTapped, HideKeyboard, typing, sheeted, finger, drags, Flags,
     Remember
<1>6. CASE StickersButtonTapped /\ Remember
  BY <1>6 DEF StickersButtonTapped, AddStickersViewController, typing, sheeted,
     finger, drags, Flags, Remember
<1>7. CASE ScreenEdgeSwiped /\ Remember
  BY <1>7 DEF ScreenEdgeSwiped, AddStickersViewController, typing, sheeted, finger,
     drags, Flags, Remember
<1>8. CASE StickerSelected /\ Remember
  BY <1>8 DEF StickerSelected, Choosable, RemoveStickersView, typing, sheeted, finger,
     drags, Flags, Remember
<1>9. CASE SheetDraggedDown /\ Remember
  BY <1>9 DEF SheetDraggedDown, Choosable, typing, sheeted, finger, drags, Flags,
     Remember
<1>10. ASSUME NEW way \in Ways, SheetRemoved(way), Remember PROVE Flags'
  BY <1>10 DEF SheetRemoved, typing, sheeted, finger, drags, Flags, Remember
<1>11. CASE TouchesBegan /\ Remember
  BY <1>11 DEF TouchesBegan, RemoveStickersView, typing, sheeted, finger, drags,
     Flags, Remember
<1>12. CASE (TouchesMoved \/ TouchesEnded) /\ Remember
  BY <1>12 DEF TouchesMoved, TouchesEnded, typing, sheeted, finger, drags, Flags,
     Remember
<1>13. CASE PanBegan /\ Remember
  BY <1>13 DEF PanBegan, Moving, typing, sheeted, finger, drags, Flags, Remember
<1>14. CASE PanChanged /\ Remember
  BY <1>14 DEF PanChanged, Moving, typing, sheeted, finger, drags, Flags, Remember
<1>15. CASE PanEnded /\ Remember
  BY <1>15 DEF PanEnded, HideKeyboard, typing, sheeted, finger, drags, Flags, Remember
<1>16. CASE PanCancelled /\ Remember
  BY <1>16 DEF PanCancelled, Moving, typing, sheeted, finger, drags, Flags, Remember
<1>17. CASE Dismissed /\ Remember
  BY <1>17 DEF Dismissed, typing, sheeted, finger, drags, Flags, Remember
<1>18. CASE UNCHANGED vars
  BY <1>18 DEF typing, sheeted, finger, drags, Flags, vars
<1> QED
  BY <1>1, <1>2, <1>3, <1>4, <1>5, <1>6, <1>7, <1>8, <1>9, <1>10, <1>11, <1>12, <1>13,
     <1>14, <1>15, <1>16, <1>17, <1>18 DEF Next, Handler

LEMMA CountsStep == Counts /\ [Next]_vars => Counts'
<1> SUFFICES ASSUME Counts, [Next]_vars PROVE Counts'
  OBVIOUS
<1>1. CASE DrawButtonTapped \/ DoneButtonTapped \/ TextViewTapped \/ KeyboardDidShow
   \/ KeyboardDismissed \/ TouchesMoved \/ TouchesEnded \/ PanChanged \/ Dismissed
  BY <1>1, BoundAssumption DEF DrawButtonTapped, DoneButtonTapped, TextViewTapped,
     BeginEditing, KeyboardDidShow, KeyboardDismissed, HideKeyboard, TouchesMoved,
     TouchesEnded, PanChanged, Moving, Dismissed, typing, sheeted, finger, drags,
     Counts, Ways
<1>2. CASE TextButtonTapped \/ ClearButtonTapped
  BY <1>2, BoundAssumption DEF TextButtonTapped, BeginEditing, ClearButtonTapped,
     HideKeyboard, typing, sheeted, finger, drags, Counts, Ways
<1>3. CASE StickersButtonTapped \/ ScreenEdgeSwiped
  BY <1>3, BoundAssumption DEF StickersButtonTapped, AddStickersViewController,
     ScreenEdgeSwiped, typing, sheeted, finger, drags, Counts, Ways
<1>4. CASE StickerSelected
  BY <1>4, BoundAssumption DEF StickerSelected, Choosable, RemoveStickersView, typing,
     sheeted, finger, drags, Counts, Ways
<1>5. CASE SheetDraggedDown
  BY <1>5, BoundAssumption DEF SheetDraggedDown, Choosable, typing, sheeted, finger,
     drags, Counts, Ways
<1>6. ASSUME NEW way \in Ways, SheetRemoved(way) PROVE Counts'
  BY <1>6, BoundAssumption DEF SheetRemoved, typing, sheeted, finger, drags, Counts,
     Ways
<1>7. CASE TouchesBegan
  BY <1>7, BoundAssumption DEF TouchesBegan, RemoveStickersView, typing, sheeted,
     finger, drags, Counts, Ways
<1>8. CASE PanBegan \/ PanCancelled
  BY <1>8, BoundAssumption DEF PanBegan, Moving, PanCancelled, typing, sheeted,
     finger, drags, Counts, Ways
<1>9. CASE PanEnded
  BY <1>9, BoundAssumption DEF PanEnded, HideKeyboard, typing, sheeted, finger, drags,
     Counts, Ways
<1>10. CASE UNCHANGED vars
  BY <1>10 DEF typing, sheeted, finger, drags, Counts, Ways, vars
<1> QED
  BY <1>1, <1>2, <1>3, <1>4, <1>5, <1>6, <1>7, <1>8, <1>9, <1>10 DEF Next, Handler

\* Every handler keeps the types of the editor's state.
THEOREM EditorTypes == Spec => []TypeOK
<1>1. Init => TypeOK
  <2> SUFFICES ASSUME Init PROVE shown \in View /\ Flags /\ Counts
    BY TypeParts
  <2>1. shown \in View
    BY Zenon DEF Init, View
  <2>2. Flags
    BY DEF Init, Flags
  <2>3. Counts
    BY BoundAssumption DEF Init, Counts, Ways
  <2> QED BY <2>1, <2>2, <2>3
<1>2. TypeOK /\ [Next]_vars => TypeOK'
  <2> SUFFICES ASSUME TypeOK, [Next]_vars PROVE TypeOK'
    OBVIOUS
  <2>1. shown' \in View /\ Flags' /\ Counts'
    BY TypeParts, ViewStep, FlagsStep, CountsStep
  <2>2. TypeOK' <=> (shown' \in View /\ Flags' /\ Counts')
    BY Zenon DEF TypeOK, View, Flags, Counts
  <2> QED BY <2>1, <2>2
<1> QED BY <1>1, <1>2, PTL DEF Spec

\* The parts of the invariant lean on one another: the end of a drag asks isTyping
\* whether to bring the tool bar back, which leaves a control only because the Done
\* button is there as long as the keyboard is up.
Modes ==
  /\ NoDeadEnd
  /\ CanvasHasAReason
  /\ TypingHasAKeyboard
  /\ keyboard = "up" => shown.done

LEMMA ModesStep == TypeOK /\ Modes /\ [Next]_vars => Modes'
<1> SUFFICES ASSUME TypeOK, Modes, [Next]_vars PROVE Modes'
  OBVIOUS
<1> USE DEF Modes, NoDeadEnd, CanvasHasAReason, TypingHasAKeyboard, TypeOK
<1>1. CASE DrawButtonTapped /\ Remember
  BY <1>1 DEF DrawButtonTapped, typing, sheeted, finger, drags, Ways, Remember
<1>2. CASE DoneButtonTapped /\ Remember
  BY <1>2 DEF DoneButtonTapped, typing, sheeted, finger, drags, Ways, Remember
<1>3. CASE TextButtonTapped /\ Remember
  BY <1>3 DEF TextButtonTapped, BeginEditing, typing, sheeted, finger, drags, Ways,
     Remember
<1>4. CASE TextViewTapped /\ Remember
  BY <1>4 DEF TextViewTapped, BeginEditing, typing, sheeted, finger, drags, Ways,
     Remember
<1>5. CASE KeyboardDidShow /\ Remember
  BY <1>5 DEF KeyboardDidShow, typing, sheeted, finger, drags, Ways, Remember
<1>6. CASE KeyboardDismissed /\ Remember
  BY <1>6 DEF KeyboardDismissed, HideKeyboard, typing, sheeted, finger, drags, Ways,
     Remember
<1>7. CASE ClearButtonTapped /\ Remember
  BY <1>7 DEF ClearButtonTapped, HideKeyboard, typing, sheeted, finger, drags, Ways,
     Remember
<1>8. CASE StickersButtonTapped /\ Remember
  BY <1>8 DEF StickersButtonTapped, AddStickersViewController, typing, sheeted,
     finger, drags, Ways, Remember
<1>9. CASE ScreenEdgeSwiped /\ Remember
  BY <1>9 DEF ScreenEdgeSwiped, AddStickersViewController, typing, sheeted, finger,
     drags, Ways, Remember
<1>10. CASE StickerSelected /\ Remember
  BY <1>10 DEF StickerSelected, Choosable, RemoveStickersView, typing, sheeted,
     finger, drags, Ways, Remember
<1>11. CASE SheetDraggedDown /\ Remember
  BY <1>11 DEF SheetDraggedDown, Choosable, typing, sheeted, finger, drags, Ways,
     Remember
<1>12. ASSUME NEW way \in Ways, SheetRemoved(way), Remember PROVE Modes'
  BY <1>12 DEF SheetRemoved, typing, sheeted, finger, drags, Ways, Remember
<1>13. CASE TouchesBegan /\ Remember
  BY <1>13 DEF TouchesBegan, RemoveStickersView, typing, sheeted, finger, drags, Ways,
     Remember
<1>14. CASE TouchesMoved /\ Remember
  BY <1>14 DEF TouchesMoved, typing, sheeted, finger, drags, Ways, Remember
<1>15. CASE TouchesEnded /\ Remember
  BY <1>15 DEF TouchesEnded, typing, sheeted, finger, drags, Ways, Remember
<1>16. CASE PanBegan /\ Remember
  BY <1>16 DEF PanBegan, Moving, typing, sheeted, finger, drags, Ways, Remember
<1>17. CASE PanChanged /\ Remember
  BY <1>17 DEF PanChanged, Moving, typing, sheeted, finger, drags, Ways, Remember
<1>18. CASE PanEnded /\ Remember
  <2> DEFINE view == [shown EXCEPT !.toolbar = ~isTyping, !.trash = FALSE]
  <2>1. view.toolbar = ~isTyping /\ view.done = shown.done
    BY Zenon DEF TypeOK
  <2>2. [view EXCEPT !.done = FALSE, !.toolbar = TRUE].toolbar
    BY Zenon DEF TypeOK
  <2> HIDE DEF view
  <2>3. UNCHANGED <<isDrawing, canvas, stickersVCIsVisible, sheet, leaving>>
    BY <1>18 DEF PanEnded, sheeted
  <2>4. CASE /\ shown' = view
             /\ \/ items' = items
                \/ \E i \in items : items' = items \ {i} /\ (i = "text" => keyboard = "down")
             /\ UNCHANGED typing
    BY <1>18, <2>1, <2>3, <2>4 DEF Remember, typing
  <2>5. CASE HideKeyboard(view)
    BY <1>18, <2>2, <2>3, <2>5 DEF Remember, HideKeyboard
  <2> QED BY <1>18, <2>4, <2>5 DEF PanEnded, view
<1>19. CASE PanCancelled /\ Remember
  BY <1>19 DEF PanCancelled, Moving, typing, sheeted, finger, drags, Ways, Remember
<1>20. CASE Dismissed /\ Remember
  BY <1>20 DEF Dismissed, typing, sheeted, finger, drags, Ways, Remember
<1>21. CASE UNCHANGED vars
  BY <1>21 DEF typing, sheeted, finger, drags, Ways, vars
<1> QED
  BY <1>1, <1>2, <1>3, <1>4, <1>5, <1>6, <1>7, <1>8, <1>9, <1>10, <1>11, <1>12, <1>13,
     <1>14, <1>15, <1>16, <1>17, <1>18, <1>19, <1>20, <1>21 DEF Next, Handler

LEMMA Inductive == Spec => []Modes
<1>1. Init => Modes
  BY DEF Init, Modes, NoDeadEnd, CanvasHasAReason, TypingHasAKeyboard
<1> QED BY <1>1, ModesStep, EditorTypes, PTL DEF Spec

\* However the handlers, the keyboard, the sheet and the drags interleave, the user
\* always has a control (PhotoEditor+Controls.swift:44-80).
THEOREM NoDeadEnds == Spec => []NoDeadEnd
<1>1. Modes => NoDeadEnd
  BY DEF Modes
<1> QED BY <1>1, Inductive, PTL

\* The canvas takes touches outside drawing mode and the sheet, except after a sheet was
\* dragged away (PhotoEditor+StickersViewController.swift:14-77).
THEOREM DeadCanvasHasAReason == Spec => []CanvasHasAReason
<1>1. Modes => CanvasHasAReason
  BY DEF Modes
<1> QED BY <1>1, Inductive, PTL

\* isTyping follows the keyboard, in whatever way it goes (PhotoEditor+Keyboard.swift:14-46).
THEOREM TypingFollowsTheKeyboard == Spec => []TypingHasAKeyboard
<1>1. Modes => TypingHasAKeyboard
  BY DEF Modes
<1> QED BY <1>1, Inductive, PTL

-----------------------------------------------------------------------------
(* The two faults of the editor, and their only causes *)

LeftByKeyboard ==
  ColorsWhileDrawingOrTyping /\ ~ColorsWhileDrawingOrTyping' =>
    keyboard # "down" /\ keyboard' = "down" /\ ~isDrawing

LEMMA ColorsStep ==
  ASSUME TypeOK, Modes, [Next]_vars
  PROVE  LeftByKeyboard
<1> SUFFICES ASSUME ColorsWhileDrawingOrTyping, ~ColorsWhileDrawingOrTyping'
             PROVE  keyboard # "down" /\ keyboard' = "down" /\ ~isDrawing
  BY DEF LeftByKeyboard
<1> USE DEF ColorsWhileDrawingOrTyping, Modes, TypingHasAKeyboard, TypeOK
<1>1. shown'.colors /\ ~isDrawing' /\ ~isTyping'
  OBVIOUS
<1>2. CASE DrawButtonTapped \/ DoneButtonTapped
  BY <1>1, <1>2 DEF DrawButtonTapped, DoneButtonTapped
<1>3. CASE KeyboardDidShow
  BY <1>1, <1>3 DEF KeyboardDidShow, typing
<1>4. ASSUME NEW view \in View, view.colors = shown.colors, isDrawing' = isDrawing,
             HideKeyboard(view)
      PROVE  keyboard # "down" /\ keyboard' = "down" /\ ~isDrawing
  <2>1. shown'.colors = view.colors
    BY <1>4, Zenon DEF HideKeyboard, View
  <2>2. isTyping
    BY <1>1, <1>4, <2>1
  <2> QED  BY <1>1, <1>4, <2>2 DEF HideKeyboard
<1>5. CASE KeyboardDismissed \/ ClearButtonTapped
  BY <1>1, <1>4, <1>5 DEF KeyboardDismissed, ClearButtonTapped, typing, View
<1>6. CASE PanEnded
  <2> DEFINE view == [shown EXCEPT !.toolbar = ~isTyping, !.trash = FALSE]
  <2>1. view \in View /\ view.colors = shown.colors
    BY Zenon DEF View
  <2> HIDE DEF view
  <2>2. isDrawing' = isDrawing /\ ((shown' = view /\ UNCHANGED typing) \/ HideKeyboard(view))
    BY <1>6 DEF PanEnded, view
  <2>3. CASE shown' = view /\ UNCHANGED typing
    BY <1>1, <2>1, <2>2, <2>3 DEF typing
  <2> QED  BY <1>4, <2>1, <2>2, <2>3
<1>7. CASE isDrawing' = isDrawing /\ shown'.colors = shown.colors /\ (isTyping' = isTyping \/ isTyping')
  BY <1>1, <1>7
<1>8. CASE \/ TextButtonTapped \/ TextViewTapped \/ StickersButtonTapped \/ ScreenEdgeSwiped
           \/ StickerSelected \/ SheetDraggedDown \/ \E way \in Ways : SheetRemoved(way)
  BY <1>7, <1>8 DEF TextButtonTapped, TextViewTapped, BeginEditing, StickersButtonTapped,
     ScreenEdgeSwiped, AddStickersViewController, StickerSelected, SheetDraggedDown,
     SheetRemoved, typing
<1>9. CASE \/ TouchesBegan \/ TouchesMoved \/ TouchesEnded \/ PanBegan \/ PanChanged
           \/ PanCancelled \/ Dismissed \/ UNCHANGED vars
  BY <1>7, <1>9 DEF TouchesBegan, TouchesMoved, TouchesEnded, PanBegan, PanChanged,
     PanCancelled, Moving, Dismissed, typing, vars
<1> QED
  BY <1>2, <1>3, <1>5, <1>6, <1>8, <1>9 DEF Next, Handler

\* Nothing but the keyboard's going leaves the colour picker behind: keyboardWillHide hides
\* the Done button and not the colours, and every other handler that ends drawing or
\* typing hides both (PhotoEditor+Keyboard.swift:22-26, PhotoEditor+Controls.swift:73-80).
THEOREM ColorsAreLeftByTheKeyboard == Spec => [][LeftByKeyboard]_vars
<1>1. TypeOK /\ Modes /\ [Next]_vars => [LeftByKeyboard]_vars
  BY ColorsStep
<1> QED  BY <1>1, EditorTypes, Inductive, PTL DEF Spec

\* A line without a first point: the finger was down before drawing mode was entered, and
\* no line had ever begun.
CrashNeedsAFirstLine == screen = "crashed" => touch /\ isDrawing /\ ~lastPoint

\* lastPoint, once set, is never taken back, so drawing can crash only on the first line of
\* a picture, with a finger that was on it when drawing mode came
\* (PhotoEditor+Drawing.swift:12-56).
THEOREM OnlyFirstLinesCrash == Spec => []CrashNeedsAFirstLine
<1>1. Init => CrashNeedsAFirstLine
  BY DEF Init, CrashNeedsAFirstLine
<1>2. CrashNeedsAFirstLine /\ [Next]_vars => CrashNeedsAFirstLine'
  <2> SUFFICES ASSUME CrashNeedsAFirstLine, [Next]_vars PROVE CrashNeedsAFirstLine'
    OBVIOUS
  <2>1. CASE UNCHANGED vars
    BY <2>1 DEF vars, CrashNeedsAFirstLine, finger
  <2>2. CASE screen = "open" /\ (screen' = "open" \/ screen' = "closed")
    BY <2>2 DEF CrashNeedsAFirstLine
  <2>3. CASE TouchesMoved
    BY <2>3 DEF TouchesMoved, CrashNeedsAFirstLine, finger
  <2>4. Next => TouchesMoved \/ (screen = "open" /\ (screen' = "open" \/ screen' = "closed"))
    BY DEF Next, Handler, DrawButtonTapped, DoneButtonTapped, TextButtonTapped,
       TextViewTapped, KeyboardDidShow, KeyboardDismissed, ClearButtonTapped,
       StickersButtonTapped, ScreenEdgeSwiped, AddStickersViewController, StickerSelected,
       SheetDraggedDown, SheetRemoved, TouchesBegan, TouchesEnded, PanBegan, PanChanged,
       PanEnded, PanCancelled, Dismissed
  <2> QED  BY <2>1, <2>2, <2>3, <2>4
<1> QED  BY <1>1, <1>2, PTL DEF Spec
=============================================================================
