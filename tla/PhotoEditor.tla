----------------------------- MODULE PhotoEditor -----------------------------
(***************************************************************************)
(* The modes of the photo editor (PhotoEditorViewController and its        *)
(* extensions): drawing, typing, choosing a sticker, dragging an object.   *)
(* No variable holds the mode. Each handler switches the tool bar, the     *)
(* Done button, the colour picker and the canvas by itself, and the        *)
(* keyboard, the removal of the sticker sheet and the gestures report      *)
(* later, when another mode may be on.                                     *)
(*                                                                         *)
(* Every action is one handler on the main thread.                         *)
(***************************************************************************)
EXTENDS Integers, FiniteSets

CONSTANTS
  MaxSheets, \* bound: how often the sticker sheet is opened
  MaxPans    \* bound: objects dragged at the same time

ASSUME BoundAssumption == MaxSheets \in Nat /\ MaxPans \in Nat

VARIABLES
  screen,       \* open, closed (cancelled or continued), or crashed
  isDrawing, isTyping, stickersVCIsVisible,
  shown,        \* what is not hidden: toolbar, done, colors, trash (deleteView)
  canvas,       \* canvasImageView.isUserInteractionEnabled
  keyboard,     \* down, rising (keyboardDidShow is to come), or up
  sheet,        \* the sticker sheet is among the subviews
  sheets,       \* how often it was opened
  leaving,      \* the removals of the sheet whose completions are to come
  items,        \* the kinds of the objects on the canvas
  pans,         \* how many drags are going on
  touch,        \* a finger is on the picture
  lastPoint,    \* lastPoint is not nil
  cancelled,    \* history: a drag was cancelled, and no tool bar seen since
  dragged       \* history: the sheet was dragged away, and no touchable canvas since

vars == <<screen, isDrawing, isTyping, stickersVCIsVisible, shown, canvas, keyboard,
          sheet, sheets, leaving, items, pans, touch, lastPoint, cancelled, dragged>>

typing  == <<isTyping, keyboard>>
sheeted == <<stickersVCIsVisible, sheet, sheets, leaving>>
finger  == <<touch, lastPoint>>
drags   == <<items, pans>>

Ways == {"tapped", "dragged"}

Init ==
  /\ screen = "open"
  /\ isDrawing = FALSE /\ isTyping = FALSE /\ stickersVCIsVisible = FALSE
  /\ shown = [toolbar |-> TRUE, done |-> FALSE, colors |-> FALSE, trash |-> FALSE]
  /\ canvas = TRUE
  /\ keyboard = "down"
  /\ sheet = FALSE /\ sheets = 0 /\ leaving = [w \in Ways |-> 0]
  /\ items = {} /\ pans = 0
  /\ touch = FALSE /\ lastPoint = FALSE
  /\ cancelled = FALSE /\ dragged = FALSE

-----------------------------------------------------------------------------
(* Drawing *)

DrawButtonTapped ==
  /\ shown.toolbar
  /\ isDrawing' = TRUE
  /\ canvas' = FALSE
  /\ shown' = [shown EXCEPT !.done = TRUE, !.colors = TRUE, !.toolbar = FALSE]
  /\ UNCHANGED <<screen, typing, sheeted, drags, finger>>

\* The canvas is left as it is.
BadDoneButtonTapped ==
  /\ shown.done
  /\ isTyping' = FALSE /\ keyboard' = "down"
  /\ shown' = [shown EXCEPT !.done = FALSE, !.colors = FALSE, !.toolbar = TRUE]
  /\ isDrawing' = FALSE
  /\ UNCHANGED <<screen, canvas, sheeted, drags, finger>>

\* view.endEditing takes the keyboard down, which calls keyboardWillHide.
DoneButtonTapped ==
  /\ shown.done
  /\ isTyping' = FALSE /\ keyboard' = "down"
  /\ shown' = [shown EXCEPT !.done = FALSE, !.colors = FALSE, !.toolbar = TRUE]
  /\ canvas' = TRUE
  /\ isDrawing' = FALSE
  /\ UNCHANGED <<screen, sheeted, drags, finger>>

-----------------------------------------------------------------------------
(* Typing *)

\* A text view becomes the first responder; the tool bar stays until the keyboard
\* is up. Another text view only takes the keyboard over.
BeginEditing ==
  /\ isTyping' = TRUE
  /\ keyboard' = IF keyboard = "down" THEN "rising" ELSE keyboard

TextButtonTapped ==
  /\ shown.toolbar
  /\ BeginEditing
  /\ items' = items \cup {"text"}
  /\ UNCHANGED <<screen, isDrawing, shown, canvas, sheeted, pans, finger>>

TextViewTapped ==
  /\ canvas /\ "text" \in items
  /\ BeginEditing
  /\ UNCHANGED <<screen, isDrawing, shown, canvas, sheeted, drags, finger>>

KeyboardDidShow ==
  /\ keyboard = "rising"
  /\ keyboard' = "up"
  /\ shown' = IF isTyping
              THEN [shown EXCEPT !.done = TRUE, !.colors = TRUE, !.toolbar = FALSE]
              ELSE shown
  /\ UNCHANGED <<screen, isDrawing, isTyping, canvas, sheeted, drags, finger>>

\* The tool bar is not brought back.
BadHideKeyboard(view) ==
  /\ keyboard' = "down"
  /\ isTyping' = FALSE
  /\ shown' = [view EXCEPT !.done = FALSE]

\* isTyping is not reset.
BadHideKeyboardTyping(view) ==
  /\ keyboard' = "down"
  /\ isTyping' = isTyping
  /\ shown' = [view EXCEPT !.done = FALSE, !.toolbar = TRUE]

\* keyboardWillHide: the colour picker stays. view is what was shown before it.
HideKeyboard(view) ==
  /\ keyboard' = "down"
  /\ isTyping' = FALSE
  /\ shown' = [view EXCEPT !.done = FALSE, !.toolbar = TRUE]

\* The keyboard is put away by its own key.
KeyboardDismissed ==
  /\ keyboard # "down"
  /\ HideKeyboard(shown)
  /\ UNCHANGED <<screen, isDrawing, canvas, sheeted, drags, finger>>

\* Removing the text view that is edited takes its keyboard down.
ClearButtonTapped ==
  /\ shown.toolbar
  /\ items' = {}
  /\ IF keyboard = "down" THEN UNCHANGED <<typing, shown>> ELSE HideKeyboard(shown)
  /\ UNCHANGED <<screen, isDrawing, canvas, sheeted, pans, finger>>

-----------------------------------------------------------------------------
(* Stickers *)

AddStickersViewController ==
  /\ sheets < MaxSheets
  /\ sheets' = sheets + 1
  /\ stickersVCIsVisible' = TRUE
  /\ sheet' = TRUE
  /\ shown' = [shown EXCEPT !.toolbar = FALSE]
  /\ canvas' = FALSE
  /\ UNCHANGED <<screen, isDrawing, typing, leaving, drags, finger>>

StickersButtonTapped == shown.toolbar /\ AddStickersViewController

ScreenEdgeSwiped == ~stickersVCIsVisible /\ AddStickersViewController

\* The animation of a removal begins; the sheet takes no touches any more.
RemoveStickersView ==
  /\ stickersVCIsVisible' = FALSE
  /\ canvas' = TRUE
  /\ leaving' = [leaving EXCEPT !["tapped"] = @ + 1]

Choosable == sheet /\ \A w \in Ways : leaving[w] = 0

\* didSelectImage or didSelectView
StickerSelected ==
  /\ Choosable
  /\ RemoveStickersView
  /\ items' = items \cup {"sticker"}
  /\ UNCHANGED <<screen, isDrawing, typing, shown, sheet, sheets, pans, finger>>

\* removeBottomSheetView, at the end of a downward pan on the sheet
SheetDraggedDown ==
  /\ Choosable
  /\ leaving' = [leaving EXCEPT !["dragged"] = @ + 1]
  /\ UNCHANGED <<screen, isDrawing, typing, shown, canvas, stickersVCIsVisible, sheet,
                 sheets, drags, finger>>

\* Every removal is taken for one by a tap.
BadSheetRemoved(way) ==
  /\ leaving[way] > 0
  /\ leaving' = [leaving EXCEPT !["tapped"] = @ - 1]
  /\ sheet' = FALSE
  /\ shown' = [shown EXCEPT !.toolbar = TRUE]
  /\ UNCHANGED <<stickersVCIsVisible, screen, isDrawing, typing, canvas, sheets, drags, finger>>

\* The completion of a removal, 0.3 s later: it removes the sheet even if it has been
\* opened again. stickersViewDidDisappear resets the flag, but not the canvas.
SheetRemoved(way) ==
  /\ leaving[way] > 0
  /\ leaving' = [leaving EXCEPT ![way] = @ - 1]
  /\ sheet' = FALSE
  /\ shown' = [shown EXCEPT !.toolbar = TRUE]
  /\ stickersVCIsVisible' = (stickersVCIsVisible /\ way = "tapped")
  /\ UNCHANGED <<screen, isDrawing, typing, canvas, sheets, drags, finger>>

-----------------------------------------------------------------------------
(* Touches and gestures *)

\* A touch on the picture starts a line, or closes the sheet if it is outside it.
TouchesBegan ==
  /\ ~touch
  /\ touch' = TRUE
  /\ lastPoint' = (lastPoint \/ isDrawing)
  /\ \/ ~isDrawing /\ stickersVCIsVisible /\ RemoveStickersView
     \/ UNCHANGED <<stickersVCIsVisible, canvas, leaving>>
  /\ UNCHANGED <<screen, isDrawing, typing, shown, sheet, sheets, drags>>

\* The touch moves or ends: in drawing mode a line is drawn from lastPoint, which
\* is unwrapped implicitly.
TouchesMoved ==
  /\ touch
  /\ isDrawing /\ ~lastPoint
  /\ screen' = "crashed"
  /\ UNCHANGED <<isDrawing, typing, shown, canvas, sheeted, drags, finger>>

TouchesEnded ==
  /\ touch
  /\ isDrawing => lastPoint
  /\ touch' = FALSE
  /\ UNCHANGED <<screen, isDrawing, typing, shown, canvas, sheeted, drags, lastPoint>>

\* moveView: the tool bar gives way to the trash.
Moving == [shown EXCEPT !.toolbar = FALSE, !.trash = TRUE]

PanBegan ==
  /\ canvas /\ items # {}
  /\ pans < MaxPans
  /\ pans' = pans + 1
  /\ shown' = Moving
  /\ UNCHANGED <<screen, isDrawing, typing, canvas, sheeted, items, finger>>

PanChanged ==
  /\ pans > 0
  /\ shown' = Moving
  /\ UNCHANGED <<screen, isDrawing, typing, canvas, sheeted, drags, finger>>

\* The object may be over the trash, and may be the text view that is edited.
PanEnded ==
  /\ pans > 0
  /\ pans' = pans - 1
  /\ LET view == [shown EXCEPT !.toolbar = ~isTyping, !.trash = FALSE] IN
     \/ /\ shown' = view
        /\ \/ items' = items
           \/ \E i \in items : items' = items \ {i} /\ (i = "text" => keyboard = "down")
        /\ UNCHANGED typing
     \/ /\ keyboard # "down"
        /\ HideKeyboard(view)
        /\ items' \in {items, items \ {"text"}}
  /\ UNCHANGED <<screen, isDrawing, canvas, sheeted, finger>>

\* UIKit cancels the gesture, and moveView treats that as one more movement.
PanCancelled ==
  /\ pans > 0
  /\ pans' = pans - 1
  /\ shown' = Moving
  /\ UNCHANGED <<screen, isDrawing, typing, canvas, sheeted, items, finger>>

\* cancelButtonTapped, continueButtonPressed
Dismissed ==
  /\ shown.toolbar
  /\ screen' = "closed"
  /\ UNCHANGED <<isDrawing, typing, shown, canvas, sheeted, drags, finger>>

-----------------------------------------------------------------------------

Handler ==
  \/ DrawButtonTapped \/ DoneButtonTapped
  \/ TextButtonTapped \/ TextViewTapped \/ KeyboardDidShow \/ KeyboardDismissed
  \/ ClearButtonTapped
  \/ StickersButtonTapped \/ ScreenEdgeSwiped \/ StickerSelected \/ SheetDraggedDown
  \/ \E way \in Ways : SheetRemoved(way)
  \/ TouchesBegan \/ TouchesMoved \/ TouchesEnded
  \/ PanBegan \/ PanChanged \/ PanEnded \/ PanCancelled
  \/ Dismissed

Remember ==
  /\ cancelled' = (~shown'.toolbar /\ (cancelled \/ (pans' < pans /\ shown'.trash)))
  /\ dragged' = (~canvas' /\ (dragged \/ leaving'["dragged"] < leaving["dragged"]))

Next == screen = "open" /\ Handler /\ Remember

Spec == Init /\ [][Next]_vars

-----------------------------------------------------------------------------
(* Properties *)

TypeOK ==
  /\ screen \in {"open", "closed", "crashed"}
  /\ isDrawing \in BOOLEAN /\ isTyping \in BOOLEAN /\ stickersVCIsVisible \in BOOLEAN
  /\ shown \in [toolbar : BOOLEAN, done : BOOLEAN, colors : BOOLEAN, trash : BOOLEAN]
  /\ canvas \in BOOLEAN
  /\ keyboard \in {"down", "rising", "up"}
  /\ sheet \in BOOLEAN /\ sheets \in 0 .. MaxSheets
  /\ leaving \in [Ways -> Nat]
  /\ items \subseteq {"text", "sticker"} /\ pans \in 0 .. MaxPans
  /\ touch \in BOOLEAN /\ lastPoint \in BOOLEAN
  /\ cancelled \in BOOLEAN /\ dragged \in BOOLEAN

\* The user is never left without a control: when the tool bar is hidden, the Done
\* button is there, or the sheet is, or something that brings one of them back is
\* under way. Only a cancelled drag breaks this (PhotoEditor+Controls.swift:44-80,
\* PhotoEditor+Keyboard.swift:14-26, PhotoEditor+Gestures.swift:164-210).
NoDeadEnd ==
  ~shown.toolbar =>
    \/ shown.done
    \/ sheet
    \/ \E w \in Ways : leaving[w] > 0
    \/ keyboard = "rising"
    \/ pans > 0
    \/ cancelled

\* The canvas is dead to touches only in drawing mode and under the sheet, unless the
\* sheet was dragged away: stickersViewDidDisappear does not give the canvas back
\* (PhotoEditor+StickersViewController.swift:31-33, 74-77).
CanvasHasAReason == ~canvas => isDrawing \/ stickersVCIsVisible \/ dragged

\* isTyping, which decides what the end of a drag shows, follows the keyboard, and the
\* keyboard never outlives the text on the canvas
\* (PhotoEditor+Keyboard.swift:22-26, PhotoEditor+Gestures.swift:204-215).
TypingHasAKeyboard == (isTyping <=> keyboard # "down") /\ (isTyping => "text" \in items)

\* The colours "will show while drawing or typing" (PhotoEditorViewController.swift:48).
ColorsWhileDrawingOrTyping == shown.colors => isDrawing \/ isTyping

\* lastPoint is there when a line is drawn from it, as its type CGPoint! asserts
\* (PhotoEditorViewController.swift:62).
LastPointIsThere == screen # "crashed"
=============================================================================
