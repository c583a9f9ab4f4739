----------------------------- MODULE PublishFlow -----------------------------
(***************************************************************************)
(* Taking a picture or a clip and publishing it: the camera                *)
(* (CamViewController), the photo editor it presents, the edit screen      *)
(* (PhotoEditController) with its upload and its call of the post          *)
(* function, and the flag AppDelegate.editFinished by which the edit       *)
(* screen tells the camera to close. Who is logged in is Session's state.  *)
(*                                                                         *)
(* UIKit is modelled by what the app relies on: a screen is presented only *)
(* by a controller that is on top and settled, a present that comes at     *)
(* another time is dropped, and one that comes during a dismissal is       *)
(* dropped or waits for its end.                                           *)
(***************************************************************************)
EXTENDS Integers, Sequences

CONSTANTS
  Calls,     \* bound: login calls in flight at the same time
  Names,     \* the usernames
  Nil,
  MaxEdits,  \* bound: the edit screens that are presented
  MaxKills   \* bound: how often the process is killed

ASSUME NilAssumption == Nil \notin Names
ASSUME BoundAssumption == MaxEdits \in Nat /\ MaxKills \in Nat

VARIABLES
  user, loggedIn, door, asked, \* Session
  stack,        \* the screens over the tab bar, topmost last
  appearing,    \* the camera was revealed, its viewDidAppear is pending
  shots,        \* what the camera is still to deliver: photos, clips, and the
                \* segue that doneEditing dispatched
  editFinished, \* AppDelegate.editFinished
  edits,        \* how many edit screens have been created
  nextEnabled,  \* the Next button of each edit screen
  upload,       \* each edit screen's upload and post
  author,       \* history: the user when Next was clicked
  poster,       \* the username sent with post
  posts,        \* history: how often each edit screen called post
  moved,        \* history: edit screens that were closed, or saw the session change
  crashed,      \* history: a nil was unwrapped
  kills

sessionVars == <<user, loggedIn, door, asked>>
screens == <<stack, appearing, shots, editFinished, edits>>
uploads == <<nextEnabled, upload, author, poster, posts, moved>>
vars == <<user, loggedIn, door, asked, stack, appearing, shots, editFinished, edits,
          nextEnabled, upload, author, poster, posts, moved, crashed, kills>>

Login == INSTANCE Session

Edits == 1 .. MaxEdits

Camera  == [kind |-> "camera", n |-> 0]
Editor  == [kind |-> "editor", n |-> 0]
Edit(n) == [kind |-> "edit", n |-> n]

OnTop(screen) == stack # <<>> /\ stack[Len(stack)] = screen
Usable(screen) == OnTop(screen) /\ ~appearing

Init ==
  /\ Login!Init
  /\ stack = <<>>
  /\ appearing = FALSE
  /\ shots = {}
  /\ editFinished = FALSE
  /\ edits = 0
  /\ nextEnabled = [n \in Edits |-> TRUE]
  /\ upload = [n \in Edits |-> "none"]
  /\ author = [n \in Edits |-> Nil]
  /\ poster = [n \in Edits |-> Nil]
  /\ posts = [n \in Edits |-> 0]
  /\ moved = {}
  /\ crashed = FALSE
  /\ kills = 0

InProgress == {n \in Edits : upload[n] = "uploading"}

-----------------------------------------------------------------------------
(* The session, seen from here *)

\* Logging in and out happens on the tabs; completion handlers run at any time.
SessionStep ==
  /\ \/ stack = <<>> /\ (Login!Appear \/ Login!Leave \/ \E c \in Calls : Login!Ask(c))
     \/ \E c \in Calls : Login!Fail(c) \/ \E u \in Names : Login!Enter(c, u)
  /\ moved' = IF user' = user THEN moved ELSE moved \cup InProgress
  /\ UNCHANGED <<screens, nextEnabled, upload, author, poster, posts, crashed, kills>>

-----------------------------------------------------------------------------
(* Presenting and dismissing *)

\* The camera goes away, and what it was to deliver finds it out of the window.
CloseCamera ==
  /\ stack' = <<>>
  /\ shots' = {}
  /\ door' = "ajar"
  /\ UNCHANGED <<user, loggedIn, asked>>

\* A dismissed screen over the camera reveals it.
Dismiss(screen) ==
  IF OnTop(screen)
  THEN stack' = <<Camera>> /\ appearing' = TRUE
  ELSE UNCHANGED <<stack, appearing>>

\* shouldSelect of the tab "NEW"
OpenCamera ==
  /\ stack = <<>>
  /\ door = "open"
  /\ stack' = <<Camera>>
  /\ UNCHANGED <<sessionVars, appearing, shots, editFinished, edits, uploads, crashed, kills>>

\* The flag is left set.
BadCameraAppears ==
  /\ appearing
  /\ appearing' = FALSE
  /\ IF editFinished THEN CloseCamera ELSE UNCHANGED <<stack, shots, sessionVars>>
  /\ UNCHANGED <<editFinished, edits, uploads, crashed, kills>>

\* CamViewController.viewDidAppear
CameraAppears ==
  /\ appearing
  /\ appearing' = FALSE
  /\ IF editFinished THEN CloseCamera ELSE UNCHANGED <<stack, shots, sessionVars>>
  /\ editFinished' = FALSE
  /\ UNCHANGED <<edits, uploads, crashed, kills>>

CameraClosed ==
  /\ Usable(Camera)
  /\ CloseCamera
  /\ UNCHANGED <<appearing, editFinished, edits, uploads, crashed, kills>>

\* The shutter is tapped, or pressed until a clip starts: delivered later.
Capture(kind) ==
  /\ Usable(Camera)
  /\ shots' = shots \cup {kind}
  /\ UNCHANGED <<sessionVars, stack, appearing, editFinished, edits, uploads, crashed, kills>>

\* Whether or not something else is on the screen.
BadPresent(screen, shot) ==
  /\ shot \in shots
  /\ shots' = shots \ {shot}
  /\ stack' = Append(stack, screen)
  /\ UNCHANGED <<sessionVars, appearing, editFinished, uploads, crashed, kills>>

\* The camera presents screen for shot, or UIKit drops it.
Present(screen, shot) ==
  /\ shot \in shots
  /\ shots' = shots \ {shot}
  /\ IF Usable(Camera) THEN stack' = Append(stack, screen) ELSE UNCHANGED stack
  /\ UNCHANGED <<sessionVars, appearing, editFinished, uploads, crashed, kills>>

\* swiftyCam didTake: the photo editor
PhotoTaken == Present(Editor, "photo") /\ UNCHANGED edits

\* performSegue "showEditScreen", for a clip or for an edited photo: a fresh
\* PhotoEditController is created for it.
ShowEditScreen(shot) ==
  /\ edits < MaxEdits
  /\ edits' = edits + 1
  /\ Present(Edit(edits + 1), shot)

\* continueButtonPressed and doneEditing: the segue is dispatched to the main
\* queue, and the editor is dismissed.
EditorContinued ==
  /\ Usable(Editor)
  /\ shots' = shots \cup {"segue"}
  /\ Dismiss(Editor)
  /\ UNCHANGED <<sessionVars, editFinished, edits, uploads, crashed, kills>>

EditorCancelled ==
  /\ Usable(Editor)
  /\ Dismiss(Editor)
  /\ UNCHANGED <<sessionVars, shots, editFinished, edits, uploads, crashed, kills>>

-----------------------------------------------------------------------------
(* PhotoEditController *)

\* The button stays enabled.
BadNextClicked(n) ==
  /\ Usable(Edit(n))
  /\ editFinished' = TRUE
  /\ upload' = [upload EXCEPT ![n] = "uploading"]
  /\ author' = [author EXCEPT ![n] = user]
  /\ UNCHANGED <<sessionVars, stack, appearing, shots, edits, nextEnabled, poster, posts,
                 moved, crashed, kills>>

\* nextBtnClicked: the flag is raised before the upload has begun.
NextClicked(n) ==
  /\ Usable(Edit(n))
  /\ nextEnabled[n]
  /\ nextEnabled' = [nextEnabled EXCEPT ![n] = FALSE]
  /\ editFinished' = TRUE
  /\ upload' = [upload EXCEPT ![n] = "uploading"]
  /\ author' = [author EXCEPT ![n] = user]
  /\ UNCHANGED <<sessionVars, stack, appearing, shots, edits, poster, posts, moved, crashed,
                 kills>>

\* onCloseClicked: the upload goes on.
EditClosed(n) ==
  /\ Usable(Edit(n))
  /\ Dismiss(Edit(n))
  /\ moved' = moved \cup {n}
  /\ UNCHANGED <<sessionVars, shots, editFinished, edits, nextEnabled, upload, author,
                 poster, posts, crashed, kills>>

\* What a new process starts with. UserDefaults survive.
Restart ==
  /\ stack' = <<>>
  /\ appearing' = FALSE
  /\ shots' = {}
  /\ editFinished' = FALSE
  /\ upload' = [n \in Edits |-> IF upload[n] \in {"uploading", "posting"}
                                THEN "lost" ELSE upload[n]]
  /\ UNCHANGED <<edits, nextEnabled, author, moved>>

\* loggedInUserId instead of loggedInUsername.
BadPosterId(n) == <<"id of", user>>

\* The username is remembered from the first upload on.
BadPosterName(n) == IF poster[1] # Nil THEN poster[1] ELSE user

\* loggedInUsername is read when the upload has ended.
PosterName(n) == user

\* putData succeeded: post is called. Unwrapping a missing username is a crash.
UploadSucceeded(n) ==
  /\ upload[n] = "uploading"
  /\ user # Nil
  /\ upload' = [upload EXCEPT ![n] = "posting"]
  /\ poster' = [poster EXCEPT ![n] = PosterName(n)]
  /\ posts' = [posts EXCEPT ![n] = @ + 1]
  /\ UNCHANGED <<sessionVars, screens, nextEnabled, author, moved, crashed, kills>>

UploadCrashes(n) ==
  /\ upload[n] = "uploading"
  /\ user = Nil
  /\ crashed' = TRUE
  /\ Login!Relaunch
  /\ Restart
  /\ UNCHANGED <<poster, posts, kills>>

\* putData or post failed, or post answered null: printed, and nothing else. Next
\* stays disabled and the flag stays raised.
PublishFailed(n) ==
  /\ upload[n] \in {"uploading", "posting"}
  /\ upload' = [upload EXCEPT ![n] = "failed"]
  /\ UNCHANGED <<sessionVars, screens, nextEnabled, author, poster, posts, moved, crashed,
                 kills>>

\* The screen stays.
BadPublished(n) ==
  /\ upload[n] = "posting"
  /\ upload' = [upload EXCEPT ![n] = "posted"]
  /\ UNCHANGED <<sessionVars, screens, nextEnabled, author, poster, posts, moved, crashed,
                 kills>>

\* post answered an id: the edit screen is dismissed if it is still there.
Published(n) ==
  /\ upload[n] = "posting"
  /\ upload' = [upload EXCEPT ![n] = "posted"]
  /\ Dismiss(Edit(n))
  /\ UNCHANGED <<sessionVars, shots, editFinished, edits, nextEnabled, author, poster,
                 posts, moved, crashed, kills>>

\* The process is killed, perhaps in a handler that logs in, or, on the tabs, out.
Kill ==
  /\ kills < MaxKills
  /\ kills' = kills + 1
  /\ Login!Relaunch \/ Login!EnterCut \/ (stack = <<>> /\ Login!LeaveCut)
  /\ Restart
  /\ UNCHANGED <<poster, posts, crashed>>

-----------------------------------------------------------------------------

UploadReturns(n) ==
  UploadSucceeded(n) \/ UploadCrashes(n) \/ PublishFailed(n) \/ Published(n)

Next ==
  \/ SessionStep
  \/ OpenCamera \/ CameraAppears \/ CameraClosed
  \/ \E kind \in {"photo", "clip"} : Capture(kind)
  \/ PhotoTaken
  \/ \E shot \in {"clip", "segue"} : ShowEditScreen(shot)
  \/ EditorContinued \/ EditorCancelled
  \/ \E n \in Edits : NextClicked(n) \/ EditClosed(n) \/ UploadReturns(n)
  \/ Kill

Spec == Init /\ [][Next]_vars

\* UIKit delivers viewDidAppear; Firebase ends every upload and every call, one way
\* or the other.
Fairness ==
  /\ WF_vars(CameraAppears)
  /\ \A n \in Edits : WF_vars(UploadReturns(n))

FairSpec == Spec /\ Fairness

-----------------------------------------------------------------------------
(* Properties *)

TypeOK ==
  /\ user \in Names \cup {Nil} /\ loggedIn \in BOOLEAN
  /\ door \in {"ajar", "shut", "open"} /\ asked \subseteq Calls
  /\ stack \in Seq({Camera, Editor} \cup {Edit(n) : n \in Edits})
  /\ appearing \in BOOLEAN /\ editFinished \in BOOLEAN /\ crashed \in BOOLEAN
  /\ shots \subseteq {"photo", "clip", "segue"}
  /\ edits \in 0 .. MaxEdits /\ kills \in 0 .. MaxKills
  /\ nextEnabled \in [Edits -> BOOLEAN]
  /\ upload \in [Edits -> {"none", "uploading", "posting", "posted", "failed", "lost"}]
  /\ author \in [Edits -> Names \cup {Nil}] /\ poster \in [Edits -> Names \cup {Nil}]
  /\ posts \in [Edits -> Nat]
  /\ moved \subseteq Edits

\* However shutter taps, clips, segues and dismissals interleave, at most one screen
\* is over the camera, and the camera is over the tab bar of a user who is logged in
\* (CamViewController.swift:18-23, 120-152; MainTabController.swift:23-30).
ScreensNest ==
  stack # <<>> =>
    /\ stack[1] = Camera /\ Len(stack) <= 2
    /\ door = "open" /\ loggedIn

\* editFinished is raised exactly while the edit screen that raised it is on top, and
\* until the camera under it has appeared: a camera opened later does not close by
\* itself, and the one under that screen does (PhotoEditController.swift:33,
\* CamViewController.swift:86-88).
FlagStaysWithItsScreen ==
  appearing \/ (editFinished <=> \E n \in Edits : OnTop(Edit(n)) /\ ~nextEnabled[n])

\* An edit screen calls post at most once, although nothing is retried and the flag
\* and the button are all that remember the click (PhotoEditController.swift:31-33).
OnePostPerEdit == \A n \in Edits : posts[n] <= 1

\* A post goes out under the name of the user who clicked Next, unless the edit
\* screen was closed or a stale login call returned while the upload ran
\* (PhotoEditController.swift:71).
PostedByAuthor ==
  \A n \in Edits : poster[n] = Nil \/ poster[n] = author[n] \/ n \in moved

\* The username is there when an upload ends, as the forced unwrapping
\* UserDefaults.standard.string(forKey: "loggedInUsername")! asserts
\* (PhotoEditController.swift:71).
UsernameIsThere == ~crashed

\* After Next the app returns to the tab bar by itself, or the publication failed
\* (PhotoEditController.swift:80-84, CamViewController.swift:84-90).
NextReturnsToTabs ==
  \A n \in Edits : (OnTop(Edit(n)) /\ ~nextEnabled[n]) ~> (stack = <<>> \/ upload[n] = "failed")
=============================================================================
