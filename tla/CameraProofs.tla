---------------------------- MODULE CameraProofs ----------------------------
(***************************************************************************)
(* The safety of the camera, for any number of presses, taps and flips.    *)
(* The inductive invariant has five parts: the types; the timer; the       *)
(* stages that a press goes through, from the session queue over the main  *)
(* queue to the circle on the button, of which it is in one at a time;     *)
(* what is left on the session queue by a camera that is gone; and the way *)
(* of the session's state over the notifications and the main queue to the *)
(* button.                                                                 *)
(***************************************************************************)
EXTENDS Camera, TLAPS

Pressed == {"start", "announce"}

\* One block at most is in S.
Once(blocks, S) ==
  \A i, j \in DOMAIN blocks : blocks[i] \in S /\ blocks[j] \in S => i = j

\* No block ends a recording before one that begins it.
InOrder(blocks) ==
  \A i \in DOMAIN blocks :
    blocks[i] = "finished" => \E j \in DOMAIN blocks : j < i /\ blocks[j] = "began"

QueueTypes ==
  queue \in Seq(Blocks) /\ main \in Seq(MainBlocks) /\ notes \in Seq({"started", "stopped"})

Flags ==
  {finger, timer, enabled, session, isSessionRunning, sessionRunning, isVideoRecording,
   photo, innerCircle, hidden, unheard, hasty, missed} \subseteq BOOLEAN

NameTypes ==
  /\ screen \in {"shown", "leaving", "covered", "closing", "gone"}
  /\ movie \in {"idle", "recording", "stopping"}
  /\ crashed \in {"no", "circle", "unowned"}

Counters ==
  /\ strays \in Nat /\ circles \in Nat /\ shrinks \in Nat /\ uses \in 0 .. MaxUses
  /\ innerCircle => circles >= 1

Types == QueueTypes /\ Flags /\ NameTypes /\ Counters

\* A recording, or a press on its way to one, has the timer of the finger that is down.
Limit ==
  ~unheard => /\ strays = 0
              /\ isVideoRecording \/ Starting => timer
              /\ timer => finger

\* A press is a block of the session queue, then a recording and a block that says so,
\* then a circle; the end of the recording is a block, then an animation.
Stages ==
  ~unheard =>
    /\ Once(queue, Pressed) /\ Once(main, {"began"}) /\ Once(main, {"finished"})
    /\ Has(queue, "start") => ~isVideoRecording
    /\ Has(queue, "announce") => isVideoRecording
    /\ Starting => ~Has(main, "began") /\ ~Has(main, "finished") /\ circles = 0
    /\ Has(main, "began") => circles = 0 /\ (isVideoRecording \/ Has(main, "finished"))
    /\ circles = 1 => isVideoRecording \/ Has(main, "finished") \/ shrinks = 1
    /\ isVideoRecording =>
         /\ ~Has(main, "finished") /\ shrinks = 0
         /\ Has(queue, "announce") \/ Has(main, "began") \/ circles = 1
    /\ Has(main, "finished") => shrinks = 0
    /\ circles = 1 \/ InOrder(main)
    /\ circles <= 1 /\ shrinks <= circles /\ (innerCircle <=> circles = 1)

\* A camera that is gone with blocks that do not own it was closed in haste.
Orphans ==
  /\ crashed = "circle" => unheard
  /\ crashed = "unowned" => hasty
  /\ screen = "gone" /\ (Starting \/ Has(queue, "switch")) => hasty

\* The last word on the main queue, if any, enables the button.
Confirmed(blocks) ==
  \A i \in DOMAIN blocks :
    blocks[i] = "disabled" => \E j \in DOMAIN blocks : i < j /\ blocks[j] = "enabled"

\* The session of a camera on the screen runs or will be started; the last notification
\* tells of it, and with all of them heard the main thread knows; what it knows is the
\* last word to the button.
Ready ==
  /\ screen = "shown" => session \/ Has(queue, "appear") \/ Has(queue, "switch")
  /\ notes # <<>> => (notes[Len(notes)] = "started" <=> session)
  /\ notes = <<>> /\ session => sessionRunning \/ missed
  /\ sessionRunning => Confirmed(main) /\ (enabled \/ Has(main, "enabled"))

\* The buttons are faded out by a recording or until its end is handled.
Faded == ~unheard /\ hidden => isVideoRecording \/ Has(main, "finished")

IInv == Types /\ Limit /\ Stages /\ Orphans /\ Ready /\ Faded

-----------------------------------------------------------------------------
(* Queues of blocks *)

\* A block put at the end, or taken from the front, or exchanged there, is all that
\* changes.
LEMMA Queued ==
  ASSUME NEW S, NEW s \in Seq(S), NEW x \in S, NEW b
  PROVE  /\ Append(s, x) \in Seq(S)
         /\ Has(Append(s, x), b) <=> Has(s, b) \/ x = b
<1>1. /\ Append(s, x) \in Seq(S) /\ DOMAIN Append(s, x) = 1 .. Len(s) + 1
      /\ DOMAIN s = 1 .. Len(s) /\ Len(s) \in Nat
      /\ \A i \in 1 .. Len(s) : Append(s, x)[i] = s[i]
      /\ Append(s, x)[Len(s) + 1] = x
  OBVIOUS
<1> QED
  BY <1>1 DEF Has

LEMMA Taken ==
  ASSUME NEW S, NEW s \in Seq(S), s # <<>>, NEW b
  PROVE  /\ Head(s) \in S /\ Tail(s) \in Seq(S)
         /\ Has(s, b) <=> Head(s) = b \/ Has(Tail(s), b)
<1>1. /\ Tail(s) \in Seq(S) /\ DOMAIN Tail(s) = 1 .. Len(s) - 1
      /\ DOMAIN s = 1 .. Len(s) /\ Len(s) \in Nat \ {0}
      /\ \A i \in 1 .. Len(s) - 1 : Tail(s)[i] = s[i + 1]
      /\ Head(s) = s[1] /\ s[1] \in S
  OBVIOUS
<1>2. Has(s, b) => Head(s) = b \/ Has(Tail(s), b)
  <2>1. ASSUME NEW i \in DOMAIN s, s[i] = b, i # 1 PROVE Has(Tail(s), b)
    <3>1. i - 1 \in DOMAIN Tail(s) /\ Tail(s)[i - 1] = s[i]
      BY <1>1, <2>1
    <3> QED
      BY <2>1, <3>1 DEF Has
  <2> QED
    BY <1>1, <2>1 DEF Has
<1>3. Has(Tail(s), b) => Has(s, b)
  <2>1. ASSUME NEW i \in DOMAIN Tail(s), Tail(s)[i] = b PROVE Has(s, b)
    <3>1. i + 1 \in DOMAIN s /\ s[i + 1] = b
      BY <1>1, <2>1
    <3> QED
      BY <3>1 DEF Has
  <2> QED
    BY <2>1 DEF Has
<1>4. Head(s) = b => Has(s, b)
  BY <1>1 DEF Has
<1> QED
  BY <1>1, <1>2, <1>3, <1>4

LEMMA Exchanged ==
  ASSUME NEW S, NEW s \in Seq(S), s # <<>>, NEW x \in S, NEW b
  PROVE  /\ <<x>> \o Tail(s) \in Seq(S)
         /\ Has(<<x>> \o Tail(s), b) <=> x = b \/ Has(Tail(s), b)
<1> DEFINE t == <<x>> \o Tail(s)
<1>1. Tail(s) \in Seq(S) /\ Len(Tail(s)) \in Nat
  BY Taken
<1>2. /\ t \in Seq(S) /\ DOMAIN t = 1 .. Len(Tail(s)) + 1
      /\ DOMAIN Tail(s) = 1 .. Len(Tail(s))
      /\ \A i \in 1 .. Len(Tail(s)) : t[i + 1] = Tail(s)[i]
      /\ t[1] = x
  BY <1>1
<1>3. t # <<>> /\ Tail(t) = Tail(s) /\ Head(t) = x
  BY <1>1, <1>2
<1> HIDE DEF t
<1>4. Has(t, b) <=> Head(t) = b \/ Has(Tail(t), b)
  BY <1>2, <1>3, Taken
<1> QED
  BY <1>2, <1>3, <1>4 DEF t

\* How many blocks of a kind there are
LEMMA OnceQueued ==
  ASSUME NEW S, NEW s \in Seq(S), NEW x \in S, NEW T, Once(s, T),
         x \notin T \/ \A b \in T : ~Has(s, b)
  PROVE  Once(Append(s, x), T)
<1>1. /\ DOMAIN Append(s, x) = 1 .. Len(s) + 1
      /\ DOMAIN s = 1 .. Len(s) /\ Len(s) \in Nat
      /\ \A i \in 1 .. Len(s) : Append(s, x)[i] = s[i]
      /\ Append(s, x)[Len(s) + 1] = x
  OBVIOUS
<1>2. x \in T => \A i \in 1 .. Len(s) : s[i] \notin T
  BY <1>1 DEF Has
<1> QED
  BY <1>1, <1>2 DEF Once

LEMMA OnceTaken ==
  ASSUME NEW S, NEW s \in Seq(S), s # <<>>, NEW T, Once(s, T)
  PROVE  /\ Once(Tail(s), T)
         /\ Head(s) \in T => \A b \in T : ~Has(Tail(s), b)
<1>1. /\ DOMAIN Tail(s) = 1 .. Len(s) - 1
      /\ DOMAIN s = 1 .. Len(s) /\ Len(s) \in Nat \ {0}
      /\ \A i \in 1 .. Len(s) - 1 : Tail(s)[i] = s[i + 1]
      /\ Head(s) = s[1]
  OBVIOUS
<1>2. Once(Tail(s), T)
  <2>1. ASSUME NEW i \in DOMAIN Tail(s), NEW j \in DOMAIN Tail(s),
               Tail(s)[i] \in T, Tail(s)[j] \in T
        PROVE  i = j
    <3>1. i + 1 \in DOMAIN s /\ j + 1 \in DOMAIN s /\ s[i + 1] \in T /\ s[j + 1] \in T
      BY <1>1, <2>1
    <3>2. i + 1 = j + 1
      BY <3>1 DEF Once
    <3> QED
      BY <3>2, <1>1
  <2> QED
    BY <2>1 DEF Once
<1>3. ASSUME Head(s) \in T, NEW i \in DOMAIN Tail(s), Tail(s)[i] \in T PROVE FALSE
  <2>1. i + 1 \in DOMAIN s /\ s[i + 1] \in T /\ 1 \in DOMAIN s /\ i + 1 # 1
    BY <1>1, <1>3
  <2> QED
    BY <1>1, <1>3, <2>1 DEF Once
<1> QED
  BY <1>2, <1>3 DEF Has

LEMMA OnceExchanged ==
  ASSUME NEW S, NEW s \in Seq(S), s # <<>>, NEW x \in S, NEW T, Once(s, T),
         x \in T => Head(s) \in T
  PROVE  Once(<<x>> \o Tail(s), T)
<1> DEFINE t == <<x>> \o Tail(s)
<1>1. Tail(s) \in Seq(S) /\ Len(Tail(s)) \in Nat
  BY Taken
<1>2. /\ DOMAIN t = 1 .. Len(Tail(s)) + 1
      /\ DOMAIN Tail(s) = 1 .. Len(Tail(s))
      /\ \A i \in 2 .. Len(Tail(s)) + 1 : i - 1 \in DOMAIN Tail(s) /\ t[i] = Tail(s)[i - 1]
      /\ t[1] = x
  BY <1>1
<1>3. Once(Tail(s), T) /\ (x \in T => \A i \in DOMAIN Tail(s) : Tail(s)[i] \notin T)
  BY OnceTaken DEF Has
<1> HIDE DEF t
<1>4. ASSUME NEW i \in DOMAIN t, NEW j \in DOMAIN t, t[i] \in T, t[j] \in T, i # j
      PROVE  FALSE
  <2>1. CASE i = 1
    <3>1. j - 1 \in DOMAIN Tail(s) /\ Tail(s)[j - 1] \in T /\ x \in T
      BY <1>1, <1>2, <1>4, <2>1
    <3> QED
      BY <1>3, <3>1
  <2>3. CASE j = 1
    <3>1. i - 1 \in DOMAIN Tail(s) /\ Tail(s)[i - 1] \in T /\ x \in T
      BY <1>1, <1>2, <1>4, <2>3
    <3> QED
      BY <1>3, <3>1
  <2>2. CASE i # 1 /\ j # 1
    <3>1. i - 1 = j - 1
      BY <1>1, <1>2, <1>3, <1>4, <2>2 DEF Once
    <3> QED
      BY <3>1, <1>1, <1>2, <1>4
  <2> QED
    BY <2>1, <2>2, <2>3
<1> QED
  BY <1>4 DEF Once, t

\* What keeps an end after its beginning
LEMMA InOrderQueued ==
  ASSUME NEW S, NEW s \in Seq(S), NEW x \in S, InOrder(s),
         x = "finished" => Has(s, "began")
  PROVE  InOrder(Append(s, x))
<1>1. /\ DOMAIN Append(s, x) = 1 .. Len(s) + 1
      /\ DOMAIN s = 1 .. Len(s) /\ Len(s) \in Nat
      /\ \A i \in 1 .. Len(s) : Append(s, x)[i] = s[i]
      /\ Append(s, x)[Len(s) + 1] = x
  OBVIOUS
<1> SUFFICES ASSUME NEW i \in 1 .. Len(s) + 1, Append(s, x)[i] = "finished"
             PROVE  \E j \in 1 .. Len(s) + 1 : j < i /\ Append(s, x)[j] = "began"
  BY <1>1 DEF InOrder
<1>2. CASE i \in 1 .. Len(s)
  <2>1. PICK j \in DOMAIN s : j < i /\ s[j] = "began"
    BY <1>1, <1>2 DEF InOrder
  <2> QED
    BY <1>1, <2>1
<1>3. CASE i = Len(s) + 1
  <2>1. PICK j \in DOMAIN s : s[j] = "began"
    BY <1>1, <1>3 DEF Has
  <2> QED
    BY <1>1, <1>3, <2>1
<1> QED
  BY <1>1, <1>2, <1>3

LEMMA InOrderTaken ==
  ASSUME NEW S, NEW s \in Seq(S), s # <<>>, InOrder(s)
  PROVE  /\ Head(s) # "finished"
         /\ Head(s) # "began" => InOrder(Tail(s))
<1>1. /\ DOMAIN Tail(s) = 1 .. Len(s) - 1
      /\ DOMAIN s = 1 .. Len(s) /\ Len(s) \in Nat \ {0}
      /\ \A i \in 1 .. Len(s) - 1 : Tail(s)[i] = s[i + 1]
      /\ Head(s) = s[1]
  OBVIOUS
<1>2. Head(s) # "finished"
  BY <1>1 DEF InOrder
<1>3. ASSUME Head(s) # "began", NEW i \in DOMAIN Tail(s), Tail(s)[i] = "finished"
      PROVE  \E j \in DOMAIN Tail(s) : j < i /\ Tail(s)[j] = "began"
  <2>1. i + 1 \in DOMAIN s /\ s[i + 1] = "finished"
    BY <1>1, <1>3
  <2>2. PICK j \in DOMAIN s : j < i + 1 /\ s[j] = "began"
    BY <2>1 DEF InOrder
  <2>3. j # 1
    BY <1>1, <1>3, <2>2
  <2>4. j - 1 \in DOMAIN Tail(s) /\ j - 1 < i /\ Tail(s)[j - 1] = s[j]
    BY <1>1, <1>3, <2>2, <2>3
  <2> QED
    BY <2>2, <2>4
<1> QED
  BY <1>2, <1>3 DEF InOrder

LEMMA InOrderWithoutEnd ==
  ASSUME NEW s, ~Has(s, "finished") PROVE InOrder(s)
BY DEF InOrder, Has
-----------------------------------------------------------------------------
(* Types *)

\* What the actions do to the queues
LEMMA Blocked ==
  ASSUME QueueTypes
  PROVE  /\ \A x \in Blocks : /\ Append(queue, x) \in Seq(Blocks)
                             /\ \A b : Has(Append(queue, x), b) <=> Has(queue, b) \/ x = b
         /\ queue # <<>> =>
              /\ Tail(queue) \in Seq(Blocks)
              /\ \A b : Has(queue, b) <=> Head(queue) = b \/ Has(Tail(queue), b)
              /\ \A x \in Blocks :
                   /\ <<x>> \o Tail(queue) \in Seq(Blocks)
                   /\ \A b : Has(<<x>> \o Tail(queue), b) <=> x = b \/ Has(Tail(queue), b)
<1> USE DEF QueueTypes
<1>1. ASSUME NEW x \in Blocks, NEW b
      PROVE  /\ Append(queue, x) \in Seq(Blocks)
             /\ Has(Append(queue, x), b) <=> Has(queue, b) \/ x = b
  BY Queued
<1>2. ASSUME queue # <<>>, NEW b
      PROVE  /\ Tail(queue) \in Seq(Blocks)
             /\ Has(queue, b) <=> Head(queue) = b \/ Has(Tail(queue), b)
  BY <1>2, Taken
<1>3. ASSUME queue # <<>>, NEW x \in Blocks, NEW b
      PROVE  /\ <<x>> \o Tail(queue) \in Seq(Blocks)
             /\ Has(<<x>> \o Tail(queue), b) <=> x = b \/ Has(Tail(queue), b)
  BY <1>3, Exchanged
<1> QED
  BY <1>1, <1>2, <1>3

LEMMA Dispatched ==
  ASSUME QueueTypes
  PROVE  /\ \A x \in MainBlocks :
              /\ Append(main, x) \in Seq(MainBlocks)
              /\ \A b : Has(Append(main, x), b) <=> Has(main, b) \/ x = b
         /\ main # <<>> =>
              /\ Tail(main) \in Seq(MainBlocks)
              /\ \A b : Has(main, b) <=> Head(main) = b \/ Has(Tail(main), b)
<1> USE DEF QueueTypes
<1>1. ASSUME NEW x \in MainBlocks, NEW b
      PROVE  /\ Append(main, x) \in Seq(MainBlocks)
             /\ Has(Append(main, x), b) <=> Has(main, b) \/ x = b
  BY Queued
<1>2. ASSUME main # <<>>, NEW b
      PROVE  /\ Tail(main) \in Seq(MainBlocks)
             /\ Has(main, b) <=> Head(main) = b \/ Has(Tail(main), b)
  BY <1>2, Taken
<1> QED
  BY <1>1, <1>2

LEMMA Noted ==
  ASSUME QueueTypes
  PROVE  /\ \A x \in {"started", "stopped"} : Append(notes, x) \in Seq({"started", "stopped"})
         /\ notes # <<>> => Tail(notes) \in Seq({"started", "stopped"})
BY Queued, Taken DEF QueueTypes

LEMMA QueueTypesStep == QueueTypes /\ [Next]_vars => QueueTypes'
<1> SUFFICES ASSUME QueueTypes, [Next]_vars PROVE QueueTypes'
  OBVIOUS
<1> USE DEF gesture, capture, clip, look, fate
<1>1. queue' \in Seq(Blocks)
  <2>1. \/ queue' = queue
        \/ \E x \in Blocks : queue' = Append(queue, x)
        \/ queue # <<>> /\ queue' = Tail(queue)
        \/ queue # <<>> /\ \E x \in Blocks : queue' = <<x>> \o Tail(queue)
    BY DEF Next, vars, Press, Flip, Uncover, Release, Tap, Close,
       SwitchCamera, TimerFires, StrayFires, ShrinkEnds, Disappear, MainQueue, Began,
       Finished, ButtonSet, Delivered, NoteArrives, MovieStops, PhotoCaptured,
       SessionQueue, BlockAppear, BlockAssign, BlockStart, BlockStop, BlockAnnounce,
       BlockSwitch, BlockOrphaned, NextBlock, Blocks
  <2> QED
    BY <2>1, Blocked DEF QueueTypes
<1>2. main' \in Seq(MainBlocks)
  <2>1. \/ main' = main
        \/ \E x \in MainBlocks : main' = Append(main, x)
        \/ main # <<>> /\ main' = Tail(main)
    BY DEF Next, vars, Press, Flip, Uncover, Release, Tap, Close,
       SwitchCamera, TimerFires, StrayFires, ShrinkEnds, Disappear, MainQueue, Began,
       Finished, ButtonSet, Delivered, NoteArrives, MovieStops, PhotoCaptured,
       SessionQueue, BlockAppear, BlockAssign, BlockStart, BlockStop, BlockAnnounce,
       BlockSwitch, BlockOrphaned, NextOnMain, TimerFinished, StopVideoRecording,
       MainBlocks
  <2> QED
    BY <2>1, Dispatched DEF QueueTypes
<1>3. notes' \in Seq({"started", "stopped"})
  <2>1. \/ notes' = notes
        \/ \E x \in {"started", "stopped"} : notes' = Append(notes, x)
        \/ notes # <<>> /\ notes' = Tail(notes)
    BY DEF Next, vars, Press, Flip, Uncover, Release, Tap, Close,
       SwitchCamera, TimerFires, StrayFires, ShrinkEnds, Disappear, MainQueue, Began,
       Finished, ButtonSet, Delivered, NoteArrives, MovieStops, PhotoCaptured,
       SessionQueue, BlockAppear, BlockAssign, BlockStart, BlockStop, BlockAnnounce,
       BlockSwitch, BlockOrphaned, StopSession, StartSession
  <2> QED
    BY <2>1, Noted DEF QueueTypes
<1> QED
  BY <1>1, <1>2, <1>3 DEF QueueTypes

LEMMA FlagsStep == Flags /\ [Next]_vars => Flags'
<1> SUFFICES ASSUME Flags, [Next]_vars PROVE Flags'
  OBVIOUS
<1> USE DEF Flags, gesture, capture, clip, look, fate
<1>1. CASE Press \/ Release \/ TimerFires \/ StrayFires
  <2>1. timer' \in {timer, TRUE, FALSE}
    BY <1>1 DEF Press, Release, TimerFires, StrayFires, TimerFinished, InvalidateTimer
  <2>2. isVideoRecording' \in {isVideoRecording, FALSE}
    BY <1>1 DEF Press, Release, TimerFires, StrayFires, TimerFinished, StopVideoRecording
  <2>3. finger' \in {finger, TRUE, FALSE}
    BY <1>1 DEF Press, Release, TimerFires, StrayFires
  <2>4. unheard' \in BOOLEAN
    BY <1>1 DEF Press, Release, TimerFires, StrayFires
  <2>5. UNCHANGED <<capture, photo, look, hasty>>
    BY <1>1 DEF Press, Release, TimerFires, StrayFires
  <2>6. {timer', isVideoRecording', finger'} \subseteq BOOLEAN
    BY <2>1, <2>2, <2>3
  <2> QED
    BY <2>4, <2>5, <2>6
<1>2. CASE Tap \/ Flip \/ Uncover \/ Close \/ Disappear
  BY <1>2 DEF Tap, Flip, Uncover, Close, SwitchCamera, Disappear, StopSession
<1>3. CASE SessionQueue
  BY <1>3 DEF SessionQueue, BlockAppear, BlockAssign, BlockStart, BlockStop,
     BlockAnnounce, BlockSwitch, BlockOrphaned, StartSession
<1>4. CASE MainQueue
  BY <1>4 DEF MainQueue, Began, Finished, ButtonSet, Delivered
<1>5. CASE NoteArrives \/ MovieStops \/ PhotoCaptured \/ ShrinkEnds
  BY <1>5 DEF NoteArrives, MovieStops, PhotoCaptured, ShrinkEnds
<1>6. CASE UNCHANGED vars
  BY <1>6 DEF vars
<1> QED
  BY <1>1, <1>2, <1>3, <1>4, <1>5, <1>6 DEF Next

LEMMA NameTypesStep == NameTypes /\ [Next]_vars => NameTypes'
<1> SUFFICES ASSUME NameTypes, [Next]_vars PROVE NameTypes'
  OBVIOUS
<1>1. screen' \in {screen, "leaving", "covered", "closing", "gone", "shown"}
  BY DEF Next, vars, Press, Flip, Uncover, Release, Tap, Close, SwitchCamera,
     TimerFires, StrayFires, ShrinkEnds, Disappear, MainQueue, Began, Finished,
     ButtonSet, Delivered, NoteArrives, MovieStops, PhotoCaptured, SessionQueue,
     BlockAppear, BlockAssign, BlockStart, BlockStop, BlockAnnounce, BlockSwitch,
     BlockOrphaned
<1>2. movie' \in {movie, "idle", "recording", "stopping"}
  BY DEF Next, vars, Press, Flip, Uncover, Release, Tap, Close, SwitchCamera,
     TimerFires, StrayFires, ShrinkEnds, Disappear, MainQueue, Began, Finished,
     ButtonSet, Delivered, NoteArrives, MovieStops, PhotoCaptured, SessionQueue,
     BlockAppear, BlockAssign, BlockStart, BlockStop, BlockAnnounce, BlockSwitch,
     BlockOrphaned, clip, TimerFinished, StopVideoRecording, StopSession
<1>3. crashed' \in {crashed, "circle", "unowned"}
  BY DEF Next, vars, Press, Flip, Uncover, Release, Tap, Close, SwitchCamera,
     TimerFires, StrayFires, ShrinkEnds, Disappear, MainQueue, Began, Finished,
     ButtonSet, Delivered, NoteArrives, MovieStops, PhotoCaptured, SessionQueue,
     BlockAppear, BlockAssign, BlockStart, BlockStop, BlockAnnounce, BlockSwitch,
     BlockOrphaned, fate
<1> QED
  BY <1>1, <1>2, <1>3 DEF NameTypes

LEMMA CountersStep == Counters /\ [Next]_vars => Counters'
<1> SUFFICES ASSUME Counters, [Next]_vars PROVE Counters'
  OBVIOUS
<1> USE DEF Counters
<1>1. uses' = uses \/ (uses < MaxUses /\ uses' = uses + 1)
  BY DEF Next, vars, Press, Flip, Uncover, Release, Tap, Close, SwitchCamera,
     TimerFires, StrayFires, ShrinkEnds, Disappear, MainQueue, Began, Finished,
     ButtonSet, Delivered, NoteArrives, MovieStops, PhotoCaptured, SessionQueue,
     BlockAppear, BlockAssign, BlockStart, BlockStop, BlockAnnounce, BlockSwitch,
     BlockOrphaned, fate, Use
<1>2. strays' = strays \/ strays' = strays + 1 \/ (strays > 0 /\ strays' = strays - 1)
  BY DEF Next, vars, Press, Flip, Uncover, Release, Tap, Close, SwitchCamera,
     TimerFires, StrayFires, ShrinkEnds, Disappear, MainQueue, Began, Finished,
     ButtonSet, Delivered, NoteArrives, MovieStops, PhotoCaptured, SessionQueue,
     BlockAppear, BlockAssign, BlockStart, BlockStop, BlockAnnounce, BlockSwitch,
     BlockOrphaned, gesture
<1>3. shrinks' = shrinks \/ shrinks' = shrinks + 1 \/ (shrinks > 0 /\ shrinks' = shrinks - 1)
  BY DEF Next, vars, Press, Flip, Uncover, Release, Tap, Close, SwitchCamera,
     TimerFires, StrayFires, ShrinkEnds, Disappear, MainQueue, Began, Finished,
     ButtonSet, Delivered, NoteArrives, MovieStops, PhotoCaptured, SessionQueue,
     BlockAppear, BlockAssign, BlockStart, BlockStop, BlockAnnounce, BlockSwitch,
     BlockOrphaned, look
<1>4. \/ (innerCircle' <=> innerCircle) /\ circles' = circles
      \/ circles' = circles + 1
      \/ innerCircle /\ ~innerCircle' /\ circles' = circles - 1
  BY DEF Next, vars, Press, Flip, Uncover, Release, Tap, Close, SwitchCamera,
     TimerFires, StrayFires, ShrinkEnds, Disappear, MainQueue, Began, Finished,
     ButtonSet, Delivered, NoteArrives, MovieStops, PhotoCaptured, SessionQueue,
     BlockAppear, BlockAssign, BlockStart, BlockStop, BlockAnnounce, BlockSwitch,
     BlockOrphaned, look
<1>5. uses' \in 0 .. MaxUses
  BY <1>1, BoundAssumption
<1>6. strays' \in Nat /\ shrinks' \in Nat
  BY <1>2, <1>3
<1>7. circles' \in Nat /\ (innerCircle' => circles' >= 1)
  BY <1>4
<1> QED
  BY <1>5, <1>6, <1>7

-----------------------------------------------------------------------------
(* The timer *)

\* The block of a press is put on the session queue by a press, and becomes the block
\* that announces the recording.
LEMMA QueueStep ==
  ASSUME QueueTypes, [Next]_vars, NEW b \in {"start", "announce", "switch"}, Has(queue, b)'
  PROVE  \/ Has(queue, b)
         \/ b = "start" /\ Press /\ enabled
         \/ b = "switch" /\ (Flip \/ Close)
         \/ b = "announce" /\ BlockStart
<1> USE DEF fate, gesture, capture, clip, look
<1>1. CASE Press \/ Flip \/ Close \/ Uncover
  BY <1>1, Blocked DEF Press, Flip, Close, SwitchCamera, Uncover, Blocks
<1>2. CASE SessionQueue
  BY <1>2, Blocked DEF SessionQueue, NextBlock, BlockAppear, BlockAssign, BlockStart,
     BlockStop, BlockAnnounce, BlockSwitch, BlockOrphaned, Blocks
<1>3. CASE UNCHANGED queue
  BY <1>3
<1> QED
  BY <1>1, <1>2, <1>3 DEF Next, vars, Release, Tap, Close, SwitchCamera,
     TimerFires, StrayFires, ShrinkEnds, Disappear, MainQueue, Began, Finished,
     ButtonSet, Delivered, NoteArrives, MovieStops, PhotoCaptured

LEMMA LimitStep == Types /\ Limit /\ [Next]_vars => Limit'
<1> SUFFICES ASSUME Types, Limit, [Next]_vars, ~unheard' PROVE Limit'
  BY DEF Limit
<1> USE DEF fate, gesture, capture, clip, look
<1>1. ~unheard
  BY DEF Next, vars, Press, Flip, Uncover, Release, Tap, Close, SwitchCamera,
     TimerFires, StrayFires, ShrinkEnds, Disappear, MainQueue, Began, Finished,
     ButtonSet, Delivered, NoteArrives, MovieStops, PhotoCaptured, SessionQueue,
     BlockAppear, BlockAssign, BlockStart, BlockStop, BlockAnnounce, BlockSwitch,
     BlockOrphaned
<1>2. Starting' => Starting \/ (Press /\ enabled)
  <2>1. BlockStart => Starting
    BY Blocked DEF BlockStart, NextBlock, Starting, Types
  <2> QED
    BY <2>1, QueueStep DEF Starting, Types
<1>3. CASE Press
  BY <1>1, <1>2, <1>3 DEF Press, Limit, Types, Flags
<1>4. CASE Release
  <2>1. enabled /\ ~Starting
    BY <1>4 DEF Release, Types, Flags
  <2>2. ~Starting' /\ ~isVideoRecording' /\ ~timer' /\ strays' = strays
    BY <1>4, <2>1 DEF Release, InvalidateTimer, StopVideoRecording, Starting
  <2> QED
    BY <1>1, <2>2 DEF Limit
<1>5. CASE TimerFires
  <2>1. ~Starting' /\ ~isVideoRecording' /\ ~timer' /\ strays' = strays
    BY <1>5 DEF TimerFires, TimerFinished, InvalidateTimer, StopVideoRecording, Starting
  <2> QED
    BY <1>1, <2>1 DEF Limit
<1>6. CASE StrayFires
  BY <1>1, <1>6 DEF StrayFires, Limit, Types, Flags
<1>7. CASE BlockStart
  <2>1. timer
    BY <1>1, <1>7, Blocked DEF BlockStart, NextBlock, Starting, Limit, Types
  <2> QED
    BY <1>1, <1>7, <2>1 DEF BlockStart, Limit
<1>8. CASE Disappear
  BY <1>1, <1>2, <1>8 DEF Disappear, Limit, Press, Starting
<1>9. CASE UNCHANGED <<isVideoRecording, timer, finger, strays>> /\ ~Press
  BY <1>1, <1>2, <1>9 DEF Limit
<1> QED
  BY <1>3, <1>4, <1>5, <1>6, <1>7, <1>8, <1>9 DEF Next, vars, Press, Flip, Uncover, Tap,
     Close, SwitchCamera, ShrinkEnds, MainQueue, Began, Finished,
     ButtonSet, Delivered, NoteArrives, MovieStops, PhotoCaptured, SessionQueue,
     BlockAppear, BlockAssign, BlockStop, BlockAnnounce, BlockSwitch, BlockOrphaned

-----------------------------------------------------------------------------
(* The stages of a press *)

\* History is not forgotten.
LEMMA HeardBefore == [Next]_vars /\ ~unheard' => ~unheard
BY DEF Next, vars, Press, Flip, Uncover, Release, Tap, Close, SwitchCamera,
   TimerFires, StrayFires, ShrinkEnds, Disappear, MainQueue, Began, Finished, ButtonSet,
   Delivered, NoteArrives, MovieStops, PhotoCaptured, SessionQueue, BlockAppear,
   BlockAssign, BlockStart, BlockStop, BlockAnnounce, BlockSwitch, BlockOrphaned, gesture

\* Blocks of other kinds on the main queue come and go without a trace.
LEMMA OthersDispatched ==
  ASSUME QueueTypes, NEW x \in MainBlocks \ {"began", "finished"}
  PROVE  /\ Once(main, {"began"}) => Once(Append(main, x), {"began"})
         /\ Once(main, {"finished"}) => Once(Append(main, x), {"finished"})
         /\ InOrder(main) => InOrder(Append(main, x))
         /\ \A b \in {"began", "finished"} : Has(Append(main, x), b) <=> Has(main, b)
<1> USE DEF QueueTypes
<1>1. \A b \in {"began", "finished"} : Has(Append(main, x), b) <=> Has(main, b)
  BY Queued
<1>2. x \notin {"began"} /\ x \notin {"finished"} /\ x \in MainBlocks
  OBVIOUS
<1>3. Once(main, {"began"}) => Once(Append(main, x), {"began"})
  BY <1>2, OnceQueued
<1>4. Once(main, {"finished"}) => Once(Append(main, x), {"finished"})
  BY <1>2, OnceQueued
<1>5. InOrder(main) => InOrder(Append(main, x))
  BY <1>2, InOrderQueued
<1> QED
  BY <1>1, <1>3, <1>4, <1>5

LEMMA MainTaken ==
  ASSUME QueueTypes, main # <<>>, Once(main, {"began"}), Once(main, {"finished"})
  PROVE  /\ Once(Tail(main), {"began"}) /\ Once(Tail(main), {"finished"})
         /\ Head(main) = "began" => ~Has(Tail(main), "began")
         /\ Head(main) = "finished" => ~Has(Tail(main), "finished")
         /\ \A b : Has(main, b) <=> Head(main) = b \/ Has(Tail(main), b)
         /\ InOrder(main) => /\ Head(main) # "finished"
                             /\ Head(main) # "began" => InOrder(Tail(main))
<1> USE DEF QueueTypes
<1>1. /\ Once(Tail(main), {"began"})
      /\ Head(main) \in {"began"} => \A b \in {"began"} : ~Has(Tail(main), b)
  BY OnceTaken
<1>2. /\ Once(Tail(main), {"finished"})
      /\ Head(main) \in {"finished"} => \A b \in {"finished"} : ~Has(Tail(main), b)
  BY OnceTaken
<1>3. InOrder(main) => /\ Head(main) # "finished"
                       /\ Head(main) # "began" => InOrder(Tail(main))
  BY InOrderTaken
<1> QED
  BY <1>1, <1>2, <1>3, Dispatched

LEMMA QueueTaken ==
  ASSUME QueueTypes, queue # <<>>, Once(queue, Pressed)
  PROVE  /\ Once(Tail(queue), Pressed)
         /\ Head(queue) \in Pressed => \A b \in Pressed : ~Has(Tail(queue), b)
         /\ \A x \in Blocks : (x \in Pressed => Head(queue) \in Pressed)
                             => Once(<<x>> \o Tail(queue), Pressed)
<1> USE DEF QueueTypes
<1>1. /\ Once(Tail(queue), Pressed)
      /\ Head(queue) \in Pressed => \A b \in Pressed : ~Has(Tail(queue), b)
  BY OnceTaken
<1>2. ASSUME NEW x \in Blocks, x \in Pressed => Head(queue) \in Pressed
      PROVE  Once(<<x>> \o Tail(queue), Pressed)
  BY <1>2, OnceExchanged
<1> QED
  BY <1>1, <1>2

LEMMA StagesStep == Types /\ Limit /\ Stages /\ [Next]_vars => Stages'
<1> SUFFICES ASSUME Types, Limit, Stages, [Next]_vars, ~unheard' PROVE Stages'
  BY DEF Stages
<1>a. ~unheard
  BY HeardBefore
<1> USE DEF Types, Starting, fate, gesture, capture, clip, look
<1>1. CASE Press
  <2>1. ~isVideoRecording /\ ~Starting /\ circles = 0 /\ ~Has(main, "began")
    BY <1>a, <1>1 DEF Press, Limit, Stages, Counters
  <2>2. CASE queue' = Append(queue, "start")
    <3>1. Once(queue', Pressed)
      <4>1. "start" \in Blocks /\ (\A b \in Pressed : ~Has(queue, b)) /\ Once(queue, Pressed)
        BY <1>a, <2>1 DEF Stages, Pressed, Blocks
      <4> QED
        BY <2>2, <4>1, OnceQueued DEF QueueTypes
    <3>2. Has(queue', "announce") <=> Has(queue, "announce")
      BY <2>2, Blocked DEF Blocks
    <3> QED
      BY <1>a, <1>1, <2>1, <3>1, <3>2 DEF Press, Stages
  <2>3. CASE queue' = queue
    BY <1>a, <1>1, <2>3 DEF Press, Stages
  <2> QED
    BY <1>1, <2>2, <2>3 DEF Press
<1>2. CASE (Release \/ TimerFires \/ StrayFires) /\ ~UNCHANGED <<isVideoRecording, main>>
  <2>1. /\ isVideoRecording /\ ~isVideoRecording' /\ main' = Append(main, "finished")
        /\ UNCHANGED <<queue, innerCircle, circles, shrinks>>
    BY <1>2 DEF Release, TimerFires, StrayFires, TimerFinished, StopVideoRecording, Flags
  <2>2. ~Starting
    BY <1>a, <1>2 DEF Release, TimerFires, StrayFires, Limit, Counters, Flags
  <2>3. ~Has(main, "finished")
    BY <1>a, <2>1 DEF Stages
  <2>4. Once(main', {"began"}) /\ Once(main', {"finished"})
    BY <1>a, <2>1, <2>3, OnceQueued DEF Stages, QueueTypes, MainBlocks
  <2>5. /\ Has(main, "began")' <=> Has(main, "began")
        /\ Has(main, "finished")'
    BY <2>1, Dispatched DEF MainBlocks
  <2>6. circles = 1 \/ InOrder(main')
    BY <1>a, <2>1, <2>2, InOrderQueued DEF Stages, QueueTypes, MainBlocks
  <2> QED
    BY <1>a, <2>1, <2>2, <2>3, <2>4, <2>5, <2>6 DEF Stages
<1>3. CASE (Flip \/ Close \/ Uncover) /\ ~UNCHANGED queue
  <2>1. \E x \in Blocks \ Pressed : queue' = Append(queue, x)
    BY <1>3 DEF Flip, Close, SwitchCamera, Uncover, Blocks, Pressed
  <2>2. Once(queue', Pressed)
    BY <1>a, <2>1, OnceQueued DEF Stages, QueueTypes
  <2>3. \A b \in Pressed : Has(queue', b) <=> Has(queue, b)
    BY <2>1, Blocked
  <2>4. UNCHANGED <<main, isVideoRecording, innerCircle, circles, shrinks>>
    BY <1>3 DEF Flip, Close, Uncover
  <2> QED
    BY <1>a, <2>2, <2>3, <2>4 DEF Stages, Pressed
<1>4. CASE BlockAppear \/ BlockAssign \/ BlockSwitch
  <2>1. /\ queue # <<>> /\ Head(queue) \notin Pressed
        /\ queue' \in {Tail(queue), <<"assign">> \o Tail(queue)}
        /\ UNCHANGED <<main, isVideoRecording, innerCircle, circles, shrinks>>
    BY <1>4 DEF BlockAppear, BlockAssign, BlockSwitch, NextBlock, Pressed
  <2>2. Once(queue', Pressed)
    BY <1>a, <2>1, QueueTaken DEF Stages, Blocks, Pressed
  <2>3. \A b \in Pressed : Has(queue', b) <=> Has(queue, b)
    BY <2>1, Blocked DEF Blocks, Pressed
  <2> QED
    BY <1>a, <2>1, <2>2, <2>3 DEF Stages, Pressed
<1>5. CASE BlockStart
  <2>1. /\ queue # <<>> /\ Head(queue) = "start" /\ isVideoRecording'
        /\ queue' = <<"announce">> \o Tail(queue)
        /\ UNCHANGED <<main, innerCircle, circles, shrinks>>
    BY <1>5 DEF BlockStart, NextBlock
  <2>2. Once(queue', Pressed) /\ \A b \in Pressed : ~Has(Tail(queue), b)
    BY <1>a, <2>1, QueueTaken DEF Stages, Blocks, Pressed
  <2>3. Has(queue', "announce") /\ ~Has(queue', "start") /\ Has(queue, "start")
    BY <2>1, <2>2, Blocked DEF Blocks, Pressed
  <2> QED
    BY <1>a, <2>1, <2>2, <2>3 DEF Stages, Counters
<1>6. CASE BlockStop \/ BlockAnnounce
  <2>1. /\ queue # <<>> /\ Head(queue) \in Pressed /\ queue' = Tail(queue)
        /\ UNCHANGED <<isVideoRecording, innerCircle, circles, shrinks>>
    BY <1>6 DEF BlockStop, BlockAnnounce, NextBlock, Pressed
  <2>2. Once(queue', Pressed) /\ \A b \in Pressed : ~Has(queue', b)
    BY <1>a, <2>1, QueueTaken DEF Stages
  <2>3. Has(queue, Head(queue))
    BY <2>1, Blocked
  <2>4. CASE BlockStop
    <3>1. Has(queue, "start") /\ UNCHANGED main
      BY <2>3, <2>4 DEF BlockStop, NextBlock
    <3> QED
      BY <1>a, <2>1, <2>2, <3>1 DEF Stages, Pressed
  <2>5. CASE BlockAnnounce
    <3>1. Has(queue, "announce") /\ main' = Append(main, "began")
      BY <2>3, <2>5 DEF BlockAnnounce, NextBlock
    <3>2. /\ isVideoRecording /\ ~Has(main, "began") /\ ~Has(main, "finished")
          /\ circles = 0 /\ shrinks = 0
      BY <1>a, <3>1 DEF Stages
    <3>3. Once(main', {"began"}) /\ Once(main', {"finished"})
      BY <1>a, <3>1, <3>2, OnceQueued DEF Stages, QueueTypes, MainBlocks
    <3>4. Has(main', "began") /\ ~Has(main', "finished")
      BY <3>1, <3>2, Dispatched DEF MainBlocks
    <3>5. InOrder(main')
      BY <3>4, InOrderWithoutEnd
    <3> QED
      BY <1>a, <2>1, <2>2, <3>2, <3>3, <3>4, <3>5 DEF Stages, Pressed
  <2> QED
    BY <1>6, <2>4, <2>5
<1>7. CASE Began
  <2>1. /\ main # <<>> /\ Head(main) = "began" /\ main' = Tail(main)
        /\ innerCircle' /\ circles' = circles + 1
        /\ UNCHANGED <<queue, isVideoRecording, shrinks>>
    BY <1>7 DEF Began, NextOnMain
  <2>2. /\ Once(main', {"began"}) /\ Once(main', {"finished"})
        /\ ~Has(main', "began") /\ Has(main, "began")
        /\ Has(main', "finished") <=> Has(main, "finished")
    BY <1>a, <2>1, MainTaken DEF Stages
  <2>3. circles = 0 /\ shrinks = 0 /\ ~Starting
    BY <1>a, <2>2 DEF Stages, Counters
  <2> QED
    BY <1>a, <2>1, <2>2, <2>3 DEF Stages
<1>8. CASE Finished
  <2>1. /\ main # <<>> /\ Head(main) = "finished" /\ main' = Tail(main)
        /\ UNCHANGED <<queue, isVideoRecording, innerCircle, circles>>
    BY <1>8 DEF Finished, NextOnMain
  <2>2. /\ Once(main', {"began"}) /\ Once(main', {"finished"})
        /\ ~Has(main', "finished") /\ Has(main, "finished")
        /\ Has(main', "began") <=> Has(main, "began")
        /\ ~InOrder(main)
    BY <1>a, <2>1, MainTaken DEF Stages
  <2>3. circles = 1 /\ innerCircle /\ shrinks = 0 /\ ~isVideoRecording /\ ~Has(main, "began")
    BY <1>a, <2>2 DEF Stages
  <2>4. shrinks' = 1
    BY <1>8, <2>3 DEF Finished
  <2> QED
    BY <1>a, <2>1, <2>2, <2>3, <2>4 DEF Stages
<1>9. CASE ShrinkEnds
  <2>1. shrinks = 1 /\ circles = 1 /\ innerCircle
    BY <1>a, <1>9 DEF ShrinkEnds, Stages, Counters
  <2>2. /\ circles' = 0 /\ shrinks' = 0 /\ ~innerCircle'
        /\ UNCHANGED <<main, queue, isVideoRecording>>
    BY <1>9, <2>1 DEF ShrinkEnds
  <2>3. ~Has(main, "finished") /\ ~isVideoRecording /\ InOrder(main)
    BY <1>a, <2>1, InOrderWithoutEnd DEF Stages
  <2> QED
    BY <1>a, <2>1, <2>2, <2>3 DEF Stages
<1>10. CASE UNCHANGED <<queue, isVideoRecording, innerCircle, circles, shrinks>>
            /\ \E x \in MainBlocks \ {"began", "finished"} :
                 main' = Append(main, x) \/ (main # <<>> /\ Head(main) = x /\ main' = Tail(main))
  <2>1. /\ Once(main', {"began"}) /\ Once(main', {"finished"})
        /\ Has(main', "began") <=> Has(main, "began")
        /\ Has(main', "finished") <=> Has(main, "finished")
        /\ InOrder(main) => InOrder(main')
    BY <1>a, <1>10, OthersDispatched, MainTaken DEF Stages
  <2> QED
    BY <1>a, <1>10, <2>1 DEF Stages
<1>11. CASE UNCHANGED <<queue, main, isVideoRecording, innerCircle, circles, shrinks>>
  BY <1>a, <1>11 DEF Stages
<1>12. CASE (\E b \in {"enabled", "disabled"} : ButtonSet(b))
            \/ (\E b \in {"photo", "processed"} : Delivered(b))
            \/ NoteArrives \/ MovieStops \/ PhotoCaptured
  <2>1. CASE UNCHANGED main
    BY <1>11, <1>12, <2>1 DEF ButtonSet, Delivered, NoteArrives, MovieStops, PhotoCaptured
  <2>2. CASE ~UNCHANGED main
    BY <1>10, <1>12, <2>2 DEF ButtonSet, Delivered, NoteArrives, MovieStops, PhotoCaptured,
       NextOnMain, MainBlocks
  <2> QED
    BY <2>1, <2>2
<1> QED
  BY <1>1, <1>2, <1>3, <1>4, <1>5, <1>6, <1>7, <1>8, <1>9, <1>11, <1>12 DEF Next, vars,
     Release, TimerFires, StrayFires, Tap, Flip, Uncover, Close, Disappear,
     MainQueue, SessionQueue, BlockOrphaned

-----------------------------------------------------------------------------
(* Crashes *)

LEMMA OrphansStep == IInv /\ [Next]_vars => Orphans'
<1> SUFFICES ASSUME Types, Limit, Stages, Orphans, [Next]_vars PROVE Orphans'
  BY DEF IInv
<1> USE DEF Types, Flags, fate, look
<1>1. (unheard => unheard') /\ (hasty => hasty')
  BY DEF Next, vars, Press, Flip, Uncover, Release, Tap, Close, SwitchCamera,
     TimerFires, StrayFires, ShrinkEnds, Disappear, MainQueue, Began, Finished,
     ButtonSet, Delivered, NoteArrives, MovieStops, PhotoCaptured, SessionQueue,
     BlockAppear, BlockAssign, BlockStart, BlockStop, BlockAnnounce, BlockSwitch,
     BlockOrphaned, gesture
<1>2. CASE crashed' # crashed
  <2>1. CASE BlockOrphaned
    BY <1>1, <2>1 DEF BlockOrphaned, Orphans, Starting
  <2>2. CASE Finished
    <3>1. ~innerCircle /\ crashed' = "circle" /\ UNCHANGED <<screen, queue, hasty>>
          /\ main # <<>> /\ Head(main) = "finished"
      BY <1>2, <2>2 DEF Finished, NextOnMain
    <3>2. unheard
      BY <3>1, MainTaken DEF Stages
    <3> QED
      BY <1>1, <3>1, <3>2 DEF Orphans, Starting
  <2>3. CASE ShrinkEnds
    <3>1. ~innerCircle /\ shrinks > 0 /\ crashed' = "circle" /\ UNCHANGED <<screen, queue, hasty>>
      BY <1>2, <2>3 DEF ShrinkEnds
    <3>2. unheard
      BY <3>1 DEF Stages, Counters
    <3> QED
      BY <1>1, <3>1, <3>2 DEF Orphans, Starting
  <2> QED
    BY <1>2, <2>1, <2>2, <2>3 DEF Next, vars, Press, Flip, Uncover, Release, Tap, Close,
       Close, SwitchCamera, TimerFires, StrayFires, Disappear, MainQueue, Began,
       ButtonSet, Delivered, NoteArrives, MovieStops, PhotoCaptured, SessionQueue,
       BlockAppear, BlockAssign, BlockStart, BlockStop, BlockAnnounce, BlockSwitch
<1>3. CASE crashed' = crashed
  <2>1. CASE Disappear
    BY <1>1, <1>3, <2>1 DEF Disappear, Orphans, Starting, Alive
  <2>2. CASE UNCHANGED <<screen, queue>>
    BY <1>1, <1>3, <2>2 DEF Orphans, Starting
  <2>3. CASE screen' # "gone"
    BY <1>1, <1>3, <2>3 DEF Orphans
  <2> QED
    BY <2>1, <2>2, <2>3 DEF Next, vars, Press, Flip, Uncover, Release, Tap, Close,
       Close, SwitchCamera, TimerFires, StrayFires, ShrinkEnds, MainQueue, Began,
       Finished, ButtonSet, Delivered, NoteArrives, MovieStops, PhotoCaptured,
       SessionQueue, BlockAppear, BlockAssign, BlockStart, BlockStop, BlockAnnounce,
       BlockSwitch, BlockOrphaned, NextBlock, NextOnMain, Alive
<1> QED
  BY <1>2, <1>3

-----------------------------------------------------------------------------
(* From the session to the button *)

LEMMA ConfirmedQueued ==
  ASSUME NEW S, NEW s \in Seq(S), NEW x \in S,
         x = "enabled" \/ (x # "disabled" /\ Confirmed(s))
  PROVE  Confirmed(Append(s, x))
<1>1. /\ DOMAIN Append(s, x) = 1 .. Len(s) + 1
      /\ DOMAIN s = 1 .. Len(s) /\ Len(s) \in Nat
      /\ \A i \in 1 .. Len(s) : Append(s, x)[i] = s[i]
      /\ Append(s, x)[Len(s) + 1] = x
  OBVIOUS
<1> SUFFICES ASSUME NEW i \in 1 .. Len(s) + 1, Append(s, x)[i] = "disabled"
             PROVE  \E j \in 1 .. Len(s) + 1 : i < j /\ Append(s, x)[j] = "enabled"
  BY <1>1 DEF Confirmed
<1>2. i \in 1 .. Len(s) /\ s[i] = "disabled"
  BY <1>1
<1>3. CASE x = "enabled"
  BY <1>1, <1>2, <1>3
<1>4. CASE Confirmed(s)
  <2>1. PICK j \in DOMAIN s : i < j /\ s[j] = "enabled"
    BY <1>1, <1>2, <1>4 DEF Confirmed
  <2> QED
    BY <1>1, <2>1
<1> QED
  BY <1>3, <1>4

LEMMA ConfirmedTaken ==
  ASSUME NEW S, NEW s \in Seq(S), s # <<>>, Confirmed(s)
  PROVE  /\ Confirmed(Tail(s))
         /\ Head(s) = "disabled" => Has(Tail(s), "enabled")
<1>1. /\ DOMAIN Tail(s) = 1 .. Len(s) - 1
      /\ DOMAIN s = 1 .. Len(s) /\ Len(s) \in Nat \ {0}
      /\ \A i \in 1 .. Len(s) - 1 : Tail(s)[i] = s[i + 1]
      /\ Head(s) = s[1]
  OBVIOUS
<1>2. ASSUME NEW i \in DOMAIN s, s[i] = "disabled"
      PROVE  \E j \in DOMAIN Tail(s) : i - 1 < j /\ Tail(s)[j] = "enabled"
  <2>1. PICK j \in DOMAIN s : i < j /\ s[j] = "enabled"
    BY <1>2 DEF Confirmed
  <2>2. j - 1 \in DOMAIN Tail(s) /\ Tail(s)[j - 1] = s[j] /\ i - 1 < j - 1
    BY <1>1, <2>1
  <2> QED
    BY <2>1, <2>2
<1>3. ASSUME NEW i \in DOMAIN Tail(s), Tail(s)[i] = "disabled"
      PROVE  \E j \in DOMAIN Tail(s) : i < j /\ Tail(s)[j] = "enabled"
  <2>1. i + 1 \in DOMAIN s /\ s[i + 1] = "disabled" /\ (i + 1) - 1 = i
    BY <1>1, <1>3
  <2> QED
    BY <1>2, <2>1
<1>4. Head(s) = "disabled" => Has(Tail(s), "enabled")
  <2>1. 1 \in DOMAIN s
    BY <1>1
  <2> QED
    BY <1>1, <1>2, <2>1 DEF Has
<1> QED
  BY <1>3, <1>4 DEF Confirmed

LEMMA LastOfAppend ==
  ASSUME NEW S, NEW s \in Seq(S), NEW x \in S
  PROVE  Append(s, x) # <<>> /\ Append(s, x)[Len(Append(s, x))] = x
<1>1. Len(s) \in Nat /\ Len(Append(s, x)) = Len(s) + 1 /\ Append(s, x)[Len(s) + 1] = x
  OBVIOUS
<1>2. Len(<<>>) = 0
  OBVIOUS
<1>3. Append(s, x) # <<>>
  BY <1>1, <1>2
<1> QED
  BY <1>1, <1>3

LEMMA TailEmpty ==
  ASSUME NEW S, NEW s \in Seq(S), s # <<>>, Tail(s) = <<>>
  PROVE  Len(s) = 1
<1>1. Len(s) \in Nat /\ Len(Tail(s)) = Len(s) - 1
  OBVIOUS
<1>2. Len(<<>>) = 0
  OBVIOUS
<1>3. Len(Tail(s)) = 0
  BY <1>2, Zenon
<1> QED
  BY <1>1, <1>3

\* Starting and stopping the session: the last notification tells.
LEMMA SessionSet ==
  ASSUME QueueTypes, session \in BOOLEAN, StopSession \/ StartSession,
         notes # <<>> => (notes[Len(notes)] = "started" <=> session)
  PROVE  /\ notes' # <<>> => (notes'[Len(notes')] = "started" <=> session')
         /\ notes' = <<>> => session' = session /\ notes = <<>>
<1>1. ASSUME NEW x \in {"started", "stopped"}
      PROVE  Append(notes, x) # <<>> /\ Append(notes, x)[Len(Append(notes, x))] = x
  BY LastOfAppend DEF QueueTypes
<1>2. CASE notes' = notes /\ session' = session
  BY <1>2
<1>3. CASE notes' = Append(notes, "stopped") /\ ~session'
  BY <1>1, <1>3
<1>4. CASE notes' = Append(notes, "started") /\ session'
  BY <1>1, <1>4
<1> QED
  BY <1>2, <1>3, <1>4 DEF StopSession, StartSession

LEMMA ShownStep ==
  ASSUME Types, screen = "shown" => session \/ Has(queue, "appear") \/ Has(queue, "switch"),
         [Next]_vars, screen' = "shown"
  PROVE  session' \/ Has(queue', "appear") \/ Has(queue', "switch")
<1> USE DEF Types, gesture, capture, clip, look, fate
<1>1. CASE Flip \/ Close \/ Uncover
  BY <1>1, Blocked DEF Flip, Close, SwitchCamera, Uncover, Blocks
<1>2. CASE Press
  BY <1>2, Blocked DEF Press, Blocks
<1>3. CASE BlockAppear \/ BlockSwitch
  BY <1>3 DEF BlockAppear, BlockSwitch, StartSession
<1>4. CASE BlockAssign \/ BlockStart \/ BlockStop \/ BlockAnnounce
  <2>1. /\ queue # <<>> /\ Head(queue) \notin {"appear", "switch"}
        /\ queue' \in {Tail(queue), <<"announce">> \o Tail(queue)}
        /\ UNCHANGED <<screen, session>>
    BY <1>4 DEF BlockAssign, BlockStart, BlockStop, BlockAnnounce, NextBlock
  <2>2. \A b \in {"appear", "switch"} : Has(queue, b) => Has(queue', b)
    BY <2>1, Blocked DEF Blocks
  <2> QED
    BY <2>1, <2>2
<1>5. CASE UNCHANGED <<session, queue>> /\ screen = "shown"
  BY <1>5
<1> QED
  BY <1>1, <1>2, <1>3, <1>4, <1>5 DEF Next, vars, Release, Tap, Close,
     SwitchCamera, TimerFires, StrayFires, ShrinkEnds, Disappear, MainQueue, Began,
     Finished, ButtonSet, Delivered, NoteArrives, MovieStops, PhotoCaptured,
     SessionQueue, BlockOrphaned

LEMMA NotesStep ==
  ASSUME Types, Ready, [Next]_vars
  PROVE  /\ notes' # <<>> => (notes'[Len(notes')] = "started" <=> session')
         /\ notes' = <<>> /\ session' => sessionRunning' \/ missed'
<1> USE DEF Types, Flags, Ready, gesture, capture, clip, look, fate
<1>1. CASE /\ Flip \/ Close \/ BlockAppear \/ BlockSwitch
           /\ ~UNCHANGED <<session, notes>>
  <2>1. (StopSession \/ StartSession) /\ UNCHANGED <<sessionRunning, missed>>
    BY <1>1 DEF Flip, Close, SwitchCamera, BlockAppear, BlockSwitch
  <2> QED
    BY <2>1, SessionSet
<1>2. CASE Disappear
  <2>1. missed' = session' /\ (StopSession \/ UNCHANGED <<session, notes>>)
    BY <1>2 DEF Disappear
  <2> QED
    BY <2>1, SessionSet
<1>3. CASE NoteArrives
  <2>1. /\ notes # <<>> /\ notes' = Tail(notes) /\ UNCHANGED session
        /\ \/ sessionRunning' = (Head(notes) = "started")
           \/ missed' = (missed \/ Head(notes) = "started")
    BY <1>3 DEF NoteArrives
  <2>2. CASE notes' = <<>>
    <3>1. Head(notes) = notes[1]
      BY <2>1 DEF QueueTypes
    <3>2. Len(notes) = 1
      BY <2>1, <2>2, TailEmpty DEF QueueTypes
    <3> QED
      BY <2>1, <2>2, <3>1, <3>2
  <2>3. CASE notes' # <<>>
    <3>1. notes'[Len(notes')] = notes[Len(notes)]
      BY <2>1, <2>3 DEF QueueTypes
    <3> QED
      BY <2>1, <2>3, <3>1
  <2> QED
    BY <2>2, <2>3
<1>4. CASE UNCHANGED <<session, notes, sessionRunning, missed>>
  BY <1>4
<1> QED
  BY <1>1, <1>2, <1>3, <1>4 DEF Next, vars, Press, Release, Tap, Flip, Close,
     TimerFires, StrayFires, BlockAppear, BlockSwitch, ShrinkEnds, Uncover, MainQueue,
     Began, Finished, ButtonSet, Delivered, MovieStops, PhotoCaptured, SessionQueue,
     BlockAssign, BlockStart, BlockStop, BlockAnnounce, BlockOrphaned

LEMMA ButtonStep ==
  ASSUME Types, Ready, [Next]_vars, sessionRunning'
  PROVE  Confirmed(main') /\ (enabled' \/ Has(main', "enabled"))
<1> USE DEF Types, Flags, QueueTypes, gesture, capture, clip, look, fate
<1>1. CASE NoteArrives /\ Observing
  <2>1. main' = Append(main, "enabled")
    BY <1>1 DEF NoteArrives
  <2>2. "enabled" \in MainBlocks
    BY DEF MainBlocks
  <2> QED
    BY <2>1, <2>2, ConfirmedQueued, Dispatched
<1>2. CASE NoteArrives /\ ~Observing
  BY <1>2 DEF NoteArrives, Ready
<1>3. CASE Disappear
  BY <1>3 DEF Disappear
<1>4. ASSUME NEW b \in {"enabled", "disabled"}, ButtonSet(b)
      PROVE  Confirmed(main') /\ (enabled' \/ Has(main', "enabled"))
  <2>1. /\ main # <<>> /\ Head(main) = b /\ main' = Tail(main)
        /\ enabled' = (b = "enabled") /\ sessionRunning
    BY <1>4 DEF ButtonSet, NextOnMain
  <2>2. Confirmed(main)
    BY <2>1 DEF Ready
  <2> QED
    BY <2>1, <2>2, ConfirmedTaken
<1>5. CASE /\ UNCHANGED <<sessionRunning, enabled>> /\ main # <<>> /\ main' = Tail(main)
           /\ Head(main) \in MainBlocks \ {"enabled", "disabled"}
  <2>1. Confirmed(main) /\ (enabled \/ Has(main, "enabled"))
    BY <1>5 DEF Ready
  <2>2. Has(main, "enabled") => Has(main', "enabled")
    BY <1>5, Dispatched
  <2> QED
    BY <1>5, <2>1, <2>2, ConfirmedTaken
<1>6. CASE /\ UNCHANGED <<sessionRunning, enabled>>
           /\ \E x \in MainBlocks \ {"enabled", "disabled"} : main' = Append(main, x)
  <2>1. PICK x \in MainBlocks \ {"enabled", "disabled"} : main' = Append(main, x)
    BY <1>6
  <2>2. Confirmed(main) /\ (enabled \/ Has(main, "enabled"))
    BY <1>6 DEF Ready
  <2>3. Confirmed(main')
    BY <2>1, <2>2, ConfirmedQueued
  <2>4. Has(main, "enabled") => Has(main', "enabled")
    BY <2>1, Dispatched
  <2> QED
    BY <1>6, <2>2, <2>3, <2>4
<1>7. CASE UNCHANGED <<sessionRunning, enabled, main>>
  BY <1>7 DEF Ready
<1>8. CASE Release \/ TimerFires \/ StrayFires \/ BlockAnnounce \/ MovieStops \/ PhotoCaptured
  <2>1. /\ UNCHANGED <<sessionRunning, enabled>>
        /\ \/ main' = main
           \/ \E x \in MainBlocks \ {"enabled", "disabled"} : main' = Append(main, x)
    BY <1>8 DEF Release, TimerFires, StrayFires, TimerFinished, StopVideoRecording,
       BlockAnnounce, MovieStops, PhotoCaptured, MainBlocks
  <2> QED
    BY <2>1, <1>6, <1>7
<1>9. CASE Began \/ Finished \/ \E b \in {"photo", "processed"} : Delivered(b)
  BY <1>5, <1>9 DEF Began, Finished, Delivered, NextOnMain, MainBlocks
<1> QED
  BY <1>1, <1>2, <1>3, <1>4, <1>7, <1>8, <1>9 DEF Next, vars, Press, Flip, Uncover, Tap,
     Close, SwitchCamera, ShrinkEnds, MainQueue, SessionQueue, BlockAppear,
     BlockAssign, BlockStart, BlockStop, BlockSwitch, BlockOrphaned

LEMMA ReadyStep == Types /\ Ready /\ [Next]_vars => Ready'
<1> SUFFICES ASSUME Types, Ready, [Next]_vars PROVE Ready'
  OBVIOUS
<1>1. screen' = "shown" => session' \/ Has(queue', "appear") \/ Has(queue', "switch")
  BY ShownStep DEF Ready
<1>2. /\ notes' # <<>> => (notes'[Len(notes')] = "started" <=> session')
      /\ notes' = <<>> /\ session' => sessionRunning' \/ missed'
  BY NotesStep
<1>3. sessionRunning' => Confirmed(main') /\ (enabled' \/ Has(main', "enabled"))
  BY ButtonStep
<1> QED
  BY <1>1, <1>2, <1>3 DEF Ready, Confirmed, Has

LEMMA FadedStep == Types /\ Stages /\ Faded /\ [Next]_vars => Faded'
<1> SUFFICES ASSUME Types, Stages, Faded, [Next]_vars, ~unheard', hidden'
             PROVE  isVideoRecording' \/ Has(main', "finished")
  BY DEF Faded, Has
<1>a. ~unheard
  BY HeardBefore
<1> USE DEF Types, Flags, gesture, capture, clip, look, fate
<1>1. CASE Began
  <2>1. main # <<>> /\ Head(main) = "began" /\ main' = Tail(main) /\ UNCHANGED isVideoRecording
    BY <1>1 DEF Began, NextOnMain
  <2>2. Has(main, "began") /\ (Has(main, "finished") => Has(main', "finished"))
    BY <2>1, Dispatched
  <2> QED
    BY <1>a, <2>1, <2>2 DEF Stages
<1>2. CASE Finished
  <2>1. main # <<>> /\ Head(main) = "finished" /\ (innerCircle => ~hidden')
    BY <1>2 DEF Finished, NextOnMain
  <2>2. ~InOrder(main)
    BY <2>1, InOrderTaken DEF QueueTypes
  <2> QED
    BY <1>a, <2>1, <2>2 DEF Stages
<1>3. CASE Release \/ TimerFires \/ StrayFires
  <2>1. /\ hidden
        /\ \/ UNCHANGED <<isVideoRecording, main>>
           \/ main' = Append(main, "finished")
    BY <1>3 DEF Release, TimerFires, StrayFires, TimerFinished, StopVideoRecording
  <2>2. main' = Append(main, "finished") => Has(main', "finished")
    BY Dispatched DEF MainBlocks
  <2> QED
    BY <1>a, <2>1, <2>2 DEF Faded
<1>4. CASE BlockAnnounce \/ MovieStops \/ PhotoCaptured \/ NoteArrives
  <2>1. /\ hidden /\ UNCHANGED isVideoRecording
        /\ main' = main \/ \E x \in MainBlocks : main' = Append(main, x)
    BY <1>4 DEF BlockAnnounce, MovieStops, PhotoCaptured, NoteArrives, MainBlocks
  <2>2. Has(main, "finished") => Has(main', "finished")
    BY <2>1, Dispatched
  <2> QED
    BY <1>a, <2>1, <2>2 DEF Faded
<1>5. CASE (\E b \in {"enabled", "disabled"} : ButtonSet(b))
           \/ (\E b \in {"photo", "processed"} : Delivered(b))
  <2>1. /\ hidden /\ UNCHANGED isVideoRecording
        /\ main # <<>> /\ Head(main) # "finished" /\ main' = Tail(main)
    BY <1>5 DEF ButtonSet, Delivered, NextOnMain
  <2>2. Has(main, "finished") => Has(main', "finished")
    BY <2>1, Dispatched
  <2> QED
    BY <1>a, <2>1, <2>2 DEF Faded
<1>6. CASE BlockStart
  BY <1>6 DEF BlockStart
<1>7. CASE UNCHANGED <<hidden, main, isVideoRecording>>
  BY <1>a, <1>7 DEF Faded
<1>8. \/ Press \/ Flip \/ Uncover \/ Tap \/ Close \/ ShrinkEnds \/ Disappear
      \/ BlockAppear \/ BlockAssign \/ BlockStop \/ BlockSwitch \/ BlockOrphaned \/ UNCHANGED vars
      => UNCHANGED <<hidden, main, isVideoRecording>>
  BY DEF vars, Press, Flip, Uncover, Tap, Close, SwitchCamera, ShrinkEnds,
     Disappear, BlockAppear, BlockAssign, BlockStop, BlockSwitch, BlockOrphaned
<1> QED
  BY <1>1, <1>2, <1>3, <1>4, <1>5, <1>6, <1>7, <1>8 DEF Next, MainQueue, SessionQueue

-----------------------------------------------------------------------------
(* Theorems *)

LEMMA Inductive == Spec => []IInv
<1>1. Init => IInv
  <2> SUFFICES ASSUME Init PROVE IInv
    OBVIOUS
  <2> USE DEF Init
  <2>1. QueueTypes
    BY DEF QueueTypes, Blocks
  <2>2. Flags /\ NameTypes
    BY DEF Flags, NameTypes
  <2>3. Counters
    BY BoundAssumption DEF Counters
  <2>4. ~Has(queue, "start") /\ ~Has(queue, "announce") /\ ~Has(queue, "switch")
    BY DEF Has
  <2>5. ~Has(main, "began") /\ ~Has(main, "finished")
    BY DEF Has
  <2>6. Once(queue, Pressed) /\ Once(main, {"began"}) /\ Once(main, {"finished"})
    BY DEF Once
  <2>7. InOrder(main)
    BY <2>5, InOrderWithoutEnd
  <2>8. Ready /\ Faded
    BY DEF Ready, Faded, Has
  <2> QED
    BY <2>1, <2>2, <2>3, <2>4, <2>5, <2>6, <2>7, <2>8
       DEF IInv, Types, Limit, Stages, Orphans, Starting
<1>2. IInv /\ [Next]_vars => IInv'
  BY QueueTypesStep, FlagsStep, NameTypesStep, CountersStep, LimitStep, StagesStep,
     OrphansStep,
     ReadyStep, FadedStep DEF IInv, Types
<1> QED
  BY <1>1, <1>2, PTL DEF Spec

\* The camera keeps its types, for any number of uses.
THEOREM CameraTypes == Spec => []TypeOK
<1>1. IInv => TypeOK
  BY DEF IInv, Types, QueueTypes, Flags, NameTypes, Counters, TypeOK
<1> QED
  BY <1>1, Inductive, PTL

\* Every recording has its timer and no timer of an earlier press, unless a press ended
\* too early (SwiftyCamButton.swift:91-131, SwiftyCamViewController.swift:573-590).
THEOREM LimitsStand == Spec => []LimitStands
<1>1. IInv => LimitStands
  BY DEF IInv, Limit, LimitStands
<1> QED
  BY <1>1, Inductive, PTL

\* The button has one circle at most, and one animation to remove it, unless a press
\* ended too early (SwiftyRecordButton.swift:48-73).
THEOREM CirclesAreSingle == Spec => []OneCircle
<1>1. IInv => OneCircle
  BY DEF IInv, Stages, OneCircle
<1> QED
  BY <1>1, Inductive, PTL

\* Only a press that ended too early, or a close in haste, crashes the camera
\* (SwiftyRecordButton.swift:64-73, SwiftyCamViewController.swift:531, 621).
THEOREM OnlyHasteCrashes == Spec => []CrashesNeedHaste
<1>1. IInv => CrashesNeedHaste
  BY DEF IInv, Types, NameTypes, Orphans, CrashesNeedHaste
<1> QED
  BY <1>1, Inductive, PTL

\* A camera on the screen with an idle session queue, every notification heard and
\* nothing on its way to the button is ready for photos and clips, unless its session was
\* started behind its back: the events that CameraComesBack is fair to are all there are
\* to wait for (SwiftyCamViewController.swift:397-470, 1030-1044,
\* CamViewController.swift:110-118).
SettledCamera ==
  screen = "shown" /\ queue = <<>> /\ notes = <<>> /\ ~Has(main, "enabled") =>
    session /\ ((enabled /\ sessionRunning) \/ missed)

\* A camera that is not ready has something on its way that will make it so, or missed a
\* notification (CamViewController.swift:110-118).
THEOREM SettledCameraIsReady == Spec => []SettledCamera
<1>1. IInv => SettledCamera
  <2>1. ~Has(<<>>, "appear") /\ ~Has(<<>>, "switch")
    BY DEF Has
  <2> QED
    BY <2>1 DEF IInv, Ready, SettledCamera
<1> QED
  BY <1>1, Inductive, PTL

\* While the flash and flip buttons are faded out, a timer runs that will end the
\* recording, or its end is on the main queue: what ButtonsComeBack waits for
\* (CamViewController.swift:134-144, SwiftyCamButton.swift:108-131).
FadedByRecording ==
  hidden => (isVideoRecording /\ timer) \/ Has(main, "finished") \/ unheard

\* No recording fades the buttons and leaves nothing behind to bring them back
\* (CamViewController.swift:134-144).
THEOREM ButtonsFadeForRecordings == Spec => []FadedByRecording
<1>1. IInv => FadedByRecording
  BY DEF IInv, Limit, Faded, FadedByRecording
<1> QED
  BY <1>1, Inductive, PTL
=============================================================================
