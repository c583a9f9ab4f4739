------------------------------- MODULE Camera -------------------------------
(***************************************************************************)
(* The camera of the app: CamViewController and its SwiftyRecordButton,    *)
(* over SwiftyCamViewController and SwiftyCamButton of the pod SwiftyCam.  *)
(*                                                                         *)
(* Two threads work on the same fields: the main thread, with the user's   *)
(* gestures, timers, animations and a queue of dispatched blocks, and the  *)
(* serial session queue, on which the slow calls of AVFoundation run. An   *)
(* action is one event of the main thread, or one block of the session     *)
(* queue up to the next point where the main thread can see a difference.  *)
(* AVFoundation posts its notifications in order, and some time later.     *)
(***************************************************************************)
EXTENDS Integers, Sequences

CONSTANTS
  MaxUses  \* bound: long presses, taps, flips and closing together

ASSUME BoundAssumption == MaxUses \in Nat

VARIABLES
  screen,    \* shown, leaving (another screen is being presented), covered,
             \* closing or gone
  finger,    \* a long press goes on
  timer,     \* timer points to a running timer
  strays,    \* running timers that nothing points to
  enabled,   \* buttonEnabled
  session,   \* AVFoundation: the capture session runs
  isSessionRunning, sessionRunning,
  notes,     \* posted notifications: started, stopped
  isVideoRecording,
  movie,     \* the movie file output: idle, recording or stopping
  photo,     \* a still image is being captured
  queue,     \* blocks of the session queue
  main,      \* blocks dispatched to the main queue
  innerCircle, \* innerCircle is not nil
  circles,   \* the circles on the button
  shrinks,   \* animations of shrinkButton whose completion is to come
  hidden,    \* flash and flip buttons are faded out
  crashed,   \* why the app crashed, or no
  unheard,   \* history: a press ended before the session queue had caught up with it,
             \* or while the button was disabled
  hasty,     \* history: the camera was closed with work on the session queue
  missed,    \* history: the session started, or went on, with nobody observing it
  uses

gesture  == <<finger, timer, strays, unheard>>
capture  == <<session, isSessionRunning, sessionRunning, notes, missed>>
clip     == <<isVideoRecording, movie>>
look     == <<enabled, innerCircle, circles, shrinks, hidden>>
fate     == <<crashed, hasty, uses>>
vars == <<screen, finger, timer, strays, enabled, session, isSessionRunning,
          sessionRunning, notes, isVideoRecording, movie, photo, queue, main,
          innerCircle, circles, shrinks, hidden, crashed, unheard, hasty, missed, uses>>

Init ==
  /\ screen = "shown" /\ queue = <<"appear">> /\ main = <<>> /\ notes = <<>>
  /\ finger = FALSE /\ timer = FALSE /\ strays = 0 /\ enabled = FALSE
  /\ session = FALSE /\ isSessionRunning = FALSE /\ sessionRunning = FALSE
  /\ isVideoRecording = FALSE /\ movie = "idle" /\ photo = FALSE
  /\ innerCircle = FALSE /\ circles = 0 /\ shrinks = 0 /\ hidden = FALSE
  /\ crashed = "no" /\ unheard = FALSE /\ hasty = FALSE /\ missed = FALSE
  /\ uses = 0

\* The user presses, taps, flips or closes.
Use == uses < MaxUses /\ uses' = uses + 1

Alive == crashed = "no" /\ screen # "gone"

Has(blocks, b) == \E i \in DOMAIN blocks : blocks[i] = b

\* A press whose block has not told the main thread of the recording.
Starting == Has(queue, "start") \/ Has(queue, "announce")

-----------------------------------------------------------------------------
(* Recording and the session *)

\* The flag is not tested.
BadStopVideoRecording ==
  /\ isVideoRecording' = FALSE
  /\ movie' = IF movie = "recording" THEN "stopping" ELSE movie
  /\ main' = Append(main, "finished")

StopVideoRecording ==
  IF isVideoRecording
  THEN /\ isVideoRecording' = FALSE
       /\ movie' = IF movie = "recording" THEN "stopping" ELSE movie
       /\ main' = Append(main, "finished")
  ELSE UNCHANGED <<isVideoRecording, movie, main>>

\* session.stopRunning and session.startRunning: only a change is notified, and a
\* recording ends with the session.
StopSession ==
  /\ session' = FALSE
  /\ notes' = IF session THEN Append(notes, "stopped") ELSE notes
  /\ movie' = IF movie = "recording" THEN "stopping" ELSE movie

StartSession ==
  /\ session' = TRUE
  /\ notes' = IF session THEN notes ELSE Append(notes, "started")

-----------------------------------------------------------------------------
(* SwiftyCamButton *)

\* LongPress, .began: startVideoRecording and startTimer. It takes half a second to
\* be recognised, in which a shrinkButton of 0.3 s comes to its end.
Press ==
  /\ Alive /\ screen = "shown"
  /\ ~finger /\ Use
  /\ shrinks = 0 /\ ~Has(main, "finished")
  /\ finger' = TRUE
  /\ IF enabled
     THEN /\ queue' = IF sessionRunning THEN Append(queue, "start") ELSE queue
          /\ timer' = TRUE
          /\ strays' = IF timer THEN strays + 1 ELSE strays
     ELSE UNCHANGED <<queue, timer, strays>>
  /\ UNCHANGED <<screen, unheard, capture, clip, photo, main, look, crashed, hasty>>

InvalidateTimer == timer' = FALSE

\* LongPress, .ended or .cancelled: nothing is done by a disabled button.
Release ==
  /\ Alive /\ finger
  /\ finger' = FALSE
  /\ IF enabled
     THEN InvalidateTimer /\ StopVideoRecording
     ELSE UNCHANGED <<timer, isVideoRecording, movie, main>>
  /\ unheard' = (unheard \/ ~enabled \/ Starting)
  /\ UNCHANGED <<screen, strays, capture, photo, queue, look, fate>>

\* The timer is invalidated, and the recording goes on.
BadTimerFinished ==
  /\ InvalidateTimer
  /\ UNCHANGED <<isVideoRecording, movie, main>>

TimerFinished == InvalidateTimer /\ StopVideoRecording

\* Ten seconds after the press, when its block on the session queue has run.
TimerFires ==
  /\ Alive /\ timer /\ ~Starting
  /\ TimerFinished
  /\ UNCHANGED <<screen, finger, strays, unheard, capture, photo, queue,
                 look, fate>>

\* A timer that was replaced by a later one invalidates that one.
StrayFires ==
  /\ Alive /\ strays > 0
  /\ strays' = strays - 1
  /\ TimerFinished
  /\ unheard' = (unheard \/ Starting)
  /\ UNCHANGED <<screen, finger, capture, photo, queue, look, fate>>

\* Tap: takePhoto, one at a time.
Tap ==
  /\ Alive /\ screen = "shown" /\ Use
  /\ enabled /\ sessionRunning
  /\ ~photo /\ ~Has(main, "photo")
  /\ photo' = TRUE
  /\ UNCHANGED <<screen, gesture, capture, clip, queue, main, look, crashed, hasty>>

-----------------------------------------------------------------------------
(* SwiftyCamViewController *)

\* The guards of switchCamera
Switchable == ~isVideoRecording /\ session

SwitchCamera ==
  IF Switchable
  THEN StopSession /\ queue' = Append(queue, "switch")
  ELSE UNCHANGED <<session, notes, movie, queue>>

\* The flip button, or a double tap, when it is not ignored
Flip ==
  /\ Alive /\ screen = "shown" /\ Switchable /\ Use
  /\ SwitchCamera
  /\ UNCHANGED <<screen, gesture, isSessionRunning, sessionRunning, missed,
                 isVideoRecording, photo, main, look, crashed, hasty>>

NextBlock(b) == Alive /\ queue # <<>> /\ Head(queue) = b

\* The block of viewDidAppear starts the session,
BlockAppear ==
  /\ NextBlock("appear")
  /\ StartSession
  /\ queue' = <<"assign">> \o Tail(queue)
  /\ UNCHANGED <<screen, gesture, isSessionRunning, sessionRunning, missed, clip, photo,
                 main, look, fate>>

\* ... and then takes down that it runs.
BlockAssign ==
  /\ NextBlock("assign")
  /\ isSessionRunning' = session
  /\ queue' = Tail(queue)
  /\ UNCHANGED <<screen, gesture, session, sessionRunning, notes, missed, clip, photo,
                 main, look, fate>>

\* The block of startVideoRecording. Without a session the recording ends at once.
BlockStart ==
  /\ NextBlock("start")
  /\ movie = "idle"
  /\ movie' = IF session THEN "recording" ELSE "stopping"
  /\ isVideoRecording' = TRUE
  /\ queue' = <<"announce">> \o Tail(queue)
  /\ UNCHANGED <<screen, gesture, capture, photo, main, look, fate>>

\* The same block when a recording goes on: it stops that one, and says nothing.
BlockStop ==
  /\ NextBlock("start")
  /\ movie # "idle"
  /\ movie' = "stopping"
  /\ queue' = Tail(queue)
  /\ UNCHANGED <<screen, gesture, capture, isVideoRecording, photo, main, look,
                 fate>>

BlockAnnounce ==
  /\ NextBlock("announce")
  /\ main' = Append(main, "began")
  /\ queue' = Tail(queue)
  /\ UNCHANGED <<screen, gesture, capture, clip, photo, look, fate>>

\* The session is not started again.
BadBlockSwitch ==
  /\ NextBlock("switch")
  /\ queue' = Tail(queue)
  /\ UNCHANGED <<screen, gesture, capture, clip, photo, main, look, fate>>

\* The block of switchCamera
BlockSwitch ==
  /\ NextBlock("switch")
  /\ StartSession
  /\ queue' = Tail(queue)
  /\ UNCHANGED <<screen, gesture, isSessionRunning, sessionRunning, missed, clip, photo,
                 main, look, fate>>

\* The blocks of startVideoRecording and switchCamera do not own the controller.
BlockOrphaned ==
  /\ crashed = "no" /\ screen = "gone"
  /\ Starting \/ Has(queue, "switch")
  /\ crashed' = "unowned"
  /\ UNCHANGED <<screen, gesture, capture, clip, photo, queue, main, look, hasty, uses>>

Observing == screen \in {"shown", "leaving", "closing"}

\* captureSessionDidStartRunning and captureSessionDidStopRunning, for an observer.
NoteArrives ==
  /\ Alive /\ notes # <<>>
  /\ notes' = Tail(notes)
  /\ LET started == Head(notes) = "started" IN
     IF Observing
     THEN /\ sessionRunning' = started
          /\ main' = Append(main, IF started THEN "enabled" ELSE "disabled")
          /\ missed' = (missed /\ ~started)
     ELSE /\ missed' = (missed \/ started)
          /\ UNCHANGED <<sessionRunning, main>>
  /\ UNCHANGED <<screen, gesture, session, isSessionRunning, clip, photo, queue, look, fate>>

\* The file is closed, and the delegate is called with it, or with an error, which is
\* printed.
MovieStops ==
  /\ Alive /\ movie = "stopping"
  /\ movie' = "idle"
  /\ main' \in {main, Append(main, "processed")}
  /\ UNCHANGED <<screen, gesture, capture, isVideoRecording, photo, queue, look, fate>>

PhotoCaptured ==
  /\ Alive /\ photo
  /\ photo' = FALSE
  /\ main' \in {main, Append(main, "photo")}
  /\ UNCHANGED <<screen, gesture, capture, clip, queue, look, fate>>

\* viewDidDisappear, which a touch does not survive
Disappear ==
  /\ Alive /\ screen \in {"leaving", "closing"} /\ ~finger
  /\ screen' = IF screen = "leaving" THEN "covered" ELSE "gone"
  /\ hasty' = (hasty \/ (screen = "closing" /\ (Starting \/ Has(queue, "switch"))))
  /\ sessionRunning' = FALSE
  /\ IF isSessionRunning THEN StopSession ELSE UNCHANGED <<session, notes, movie>>
  /\ isSessionRunning' = FALSE
  /\ missed' = session'
  /\ UNCHANGED <<gesture, isVideoRecording, photo, queue, main, look, crashed, uses>>

\* viewWillAppear and viewDidAppear. The camera closes if the flag editFinished is up.
Uncover ==
  /\ Alive /\ screen = "covered"
  /\ screen' \in {"shown", "closing"}
  /\ queue' = Append(queue, "appear")
  /\ UNCHANGED <<gesture, capture, clip, photo, main, look, fate>>

-----------------------------------------------------------------------------
(* CamViewController and SwiftyRecordButton: blocks of the main queue *)

\* The close button: onCloseClicked, to which the storyboard adds cameraSwitchTapped.
Close ==
  /\ Alive /\ screen = "shown" /\ Use
  /\ screen' = "closing"
  /\ SwitchCamera
  /\ UNCHANGED <<gesture, isSessionRunning, sessionRunning, missed, isVideoRecording, photo,
                 main, look, crashed, hasty>>

NextOnMain(b) == Alive /\ main # <<>> /\ Head(main) = b /\ main' = Tail(main)

\* swiftyCamSessionDidStartRunning and swiftyCamSessionDidStopRunning
ButtonSet(b) ==
  /\ NextOnMain(b)
  /\ enabled' = (b = "enabled")
  /\ UNCHANGED <<screen, gesture, capture, clip, photo, queue, innerCircle, circles, shrinks,
                 hidden, fate>>

\* The circle is not added to the button.
BadBegan ==
  /\ NextOnMain("began")
  /\ innerCircle' = TRUE
  /\ hidden' = TRUE
  /\ UNCHANGED <<screen, gesture, capture, clip, photo, queue, enabled, circles, shrinks, fate>>

\* didBeginRecordingVideo: growButton and hideButtons
Began ==
  /\ NextOnMain("began")
  /\ innerCircle' = TRUE
  /\ circles' = circles + 1
  /\ hidden' = TRUE
  /\ UNCHANGED <<screen, gesture, capture, clip, photo, queue, enabled, shrinks, fate>>

\* The buttons are shown when the clip has been processed only.
BadFinished ==
  /\ NextOnMain("finished")
  /\ innerCircle
  /\ shrinks' = shrinks + 1
  /\ UNCHANGED <<screen, gesture, capture, clip, photo, queue, enabled, innerCircle, circles,
                 hidden, fate>>

\* didFinishRecordingVideo: shrinkButton, which unwraps innerCircle, and showButtons
Finished ==
  /\ NextOnMain("finished")
  /\ IF innerCircle
     THEN shrinks' = shrinks + 1 /\ hidden' = FALSE /\ UNCHANGED crashed
     ELSE crashed' = "circle" /\ UNCHANGED <<shrinks, hidden>>
  /\ UNCHANGED <<screen, gesture, capture, clip, photo, queue, enabled, innerCircle, circles,
                 hasty, uses>>

\* The circle stays on the button.
BadShrinkEnds ==
  /\ Alive /\ shrinks > 0
  /\ shrinks' = shrinks - 1
  /\ innerCircle' = FALSE
  /\ UNCHANGED <<screen, gesture, capture, clip, photo, queue, main, enabled, circles, hidden,
                 fate>>

\* The completion of shrinkButton unwraps innerCircle once more.
ShrinkEnds ==
  /\ Alive /\ shrinks > 0
  /\ shrinks' = shrinks - 1
  /\ IF innerCircle
     THEN innerCircle' = FALSE /\ circles' = circles - 1 /\ UNCHANGED crashed
     ELSE crashed' = "circle" /\ UNCHANGED <<innerCircle, circles>>
  /\ UNCHANGED <<screen, gesture, capture, clip, photo, queue, main, enabled, hidden, hasty,
                 uses>>

\* didTake and didFinishProcessVideoAt: a screen is presented for the photo or the clip,
\* unless one is already.
Delivered(b) ==
  /\ NextOnMain(b)
  /\ screen' = IF screen = "shown" THEN "leaving" ELSE screen
  /\ UNCHANGED <<gesture, capture, clip, photo, queue, look, fate>>

-----------------------------------------------------------------------------

SessionQueue ==
  \/ BlockAppear \/ BlockAssign \/ BlockStart \/ BlockStop \/ BlockAnnounce \/ BlockSwitch
  \/ BlockOrphaned

MainQueue ==
  \/ Began \/ Finished
  \/ \E b \in {"enabled", "disabled"} : ButtonSet(b)
  \/ \E b \in {"photo", "processed"} : Delivered(b)

Next ==
  \/ Press \/ Release \/ Tap \/ Flip \/ Close \/ Uncover
  \/ TimerFires \/ StrayFires \/ ShrinkEnds \/ Disappear
  \/ SessionQueue \/ MainQueue \/ NoteArrives
  \/ MovieStops \/ PhotoCaptured

Spec == Init /\ [][Next]_vars

\* Both queues run their blocks; timers, animations, transitions and AVFoundation come
\* to their ends. The user need not do anything, except lift the finger from a camera
\* that leaves the screen, which UIKit does for them.
Fairness ==
  /\ WF_vars(SessionQueue) /\ WF_vars(MainQueue) /\ WF_vars(NoteArrives)
  /\ WF_vars(TimerFires) /\ WF_vars(StrayFires) /\ WF_vars(ShrinkEnds)
  /\ WF_vars(MovieStops) /\ WF_vars(PhotoCaptured)
  /\ WF_vars(Disappear) /\ WF_vars(Release /\ screen \in {"leaving", "closing"})

FairSpec == Spec /\ Fairness

-----------------------------------------------------------------------------
(* Properties *)

Blocks == {"appear", "assign", "start", "announce", "switch"}
MainBlocks == {"enabled", "disabled", "began", "finished", "photo", "processed"}

TypeOK ==
  /\ screen \in {"shown", "leaving", "covered", "closing", "gone"}
  /\ finger \in BOOLEAN /\ timer \in BOOLEAN /\ strays \in Nat /\ enabled \in BOOLEAN
  /\ session \in BOOLEAN /\ isSessionRunning \in BOOLEAN /\ sessionRunning \in BOOLEAN
  /\ notes \in Seq({"started", "stopped"})
  /\ isVideoRecording \in BOOLEAN /\ movie \in {"idle", "recording", "stopping"}
  /\ photo \in BOOLEAN
  /\ queue \in Seq(Blocks) /\ main \in Seq(MainBlocks)
  /\ innerCircle \in BOOLEAN /\ circles \in Nat /\ shrinks \in Nat /\ hidden \in BOOLEAN
  /\ crashed \in {"no", "circle", "unowned"}
  /\ unheard \in BOOLEAN /\ hasty \in BOOLEAN /\ missed \in BOOLEAN
  /\ uses \in 0 .. MaxUses

\* The camera crashes in two situations only: a press ended before the session queue
\* had caught up with it, so that growing and shrinking of the button come in the wrong
\* order or number, or the camera was closed with unowned blocks on that queue
\* (SwiftyRecordButton.swift:64-73, SwiftyCamViewController.swift:531, 621).
CrashesNeedHaste == crashed # "no" => unheard \/ hasty

\* One red circle at most is on the button, and one animation removes it
\* (SwiftyRecordButton.swift:48-73).
OneCircle == ~unheard => circles <= 1 /\ shrinks <= circles

\* A recording that has been started has a running timer that will stop it, and no
\* timer of an earlier press is left to stop it before. The exception is a press that
\* ended too early (SwiftyCamButton.swift:91-131, SwiftyCamViewController.swift:573-590).
LimitStands == ~unheard => (isVideoRecording => timer) /\ strays = 0

\* The video recording is stopped when the time limit has been reached, as the
\* documentation of the pod says (Pods/SwiftyCam/README.md:269).
RecordingIsLimited == isVideoRecording => timer

\* The flash and flip buttons, faded out while recording, come back when the finger is
\* lifted or the time is over (CamViewController.swift:134-144).
ButtonsComeBack == hidden ~> (~hidden \/ unheard \/ ~Alive)

\* The camera on the screen gets ready for photos and clips, however flips, screens over
\* it and late notifications interleave, unless its session was started behind its back:
\* then nothing is notified when it appears (SwiftyCamViewController.swift:397-470,
\* 1030-1044, CamViewController.swift:110-118).
CameraComesBack ==
  screen = "shown" ~> ((enabled /\ sessionRunning) \/ screen # "shown" \/ missed \/ ~Alive)
=============================================================================
