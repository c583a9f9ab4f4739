-------------------------- MODULE PublishFlowProofs --------------------------
(***************************************************************************)
(* The safety of publishing, for any number of edit screens, users, stale  *)
(* login calls and kills, and that publishing keeps to Session. The        *)
(* inductive invariant has six parts, each kept by every step with the     *)
(* help of those before it: the types, what can be on the screen, where a  *)
(* session without a name comes from, the flag editFinished, what each     *)
(* upload says of its post, and what each edit screen says of its upload.  *)
(***************************************************************************)
EXTENDS PublishFlow, TLAPS, SequenceTheorems

Stacks == {<<>>, <<Camera>>, <<Camera, Editor>>} \cup {<<Camera, Edit(n)>> : n \in Edits}

Uploads == {"none", "uploading", "posting", "posted", "failed", "lost"}

SessionTypes ==
  /\ user \in Names \cup {Nil} /\ loggedIn \in BOOLEAN
  /\ door \in {"ajar", "shut", "open"} /\ asked \subseteq Calls

ScreenTypes ==
  /\ appearing \in BOOLEAN /\ editFinished \in BOOLEAN /\ crashed \in BOOLEAN
  /\ shots \subseteq {"photo", "clip", "segue"}
  /\ edits \in 0 .. MaxEdits /\ kills \in 0 .. MaxKills

UploadTypes ==
  /\ nextEnabled \in [Edits -> BOOLEAN]
  /\ upload \in [Edits -> Uploads]
  /\ author \in [Edits -> Names \cup {Nil}] /\ poster \in [Edits -> Names \cup {Nil}]
  /\ posts \in [Edits -> Nat]
  /\ moved \subseteq Edits

\* What is on the screen: at most one screen over the camera, the camera over the tabs
\* of somebody, and a revealed camera on top.
Screens ==
  /\ stack \in Stacks
  /\ stack # <<>> => door = "open"
  /\ door = "open" => loggedIn
  /\ appearing => stack = <<Camera>>

\* Somebody is logged in without a name only after a kill.
Halved == loggedIn /\ user = Nil => kills > 0

\* What the state of an upload says of its post.
Told(n) ==
  /\ nextEnabled[n] => upload[n] = "none"
  /\ upload[n] \in {"none", "uploading"} => posts[n] = 0 /\ poster[n] = Nil
  /\ posts[n] <= 1
  /\ upload[n] = "uploading" => author[n] = user \/ n \in moved
  /\ upload[n] # "none" /\ author[n] = Nil => kills > 0
  /\ poster[n] = Nil \/ poster[n] = author[n] \/ n \in moved

\* An edit screen is fresh until it is created. On it, Next is disabled once the flag is
\* up and the upload has begun; the upload outlives it only in moved.
EditScreen(n) ==
  /\ n > edits => nextEnabled[n] /\ stack # <<Camera, Edit(n)>>
  /\ stack = <<Camera, Edit(n)>> /\ ~nextEnabled[n] =>
       editFinished /\ upload[n] \in {"uploading", "posting", "failed"}
  /\ upload[n] = "uploading" => stack = <<Camera, Edit(n)>> \/ n \in moved

\* The flag is up only while its edit screen is on top, or while the camera appears.
Flag ==
  editFinished => appearing \/ \E n \in Edits : OnTop(Edit(n)) /\ ~nextEnabled[n]

Types == SessionTypes /\ ScreenTypes /\ UploadTypes

IInv == Types /\ Screens /\ Halved /\ Flag /\ (\A n \in Edits : Told(n) /\ EditScreen(n))

-----------------------------------------------------------------------------
(* Types *)

LEMMA SessionTypesStep == SessionTypes /\ [Next]_vars => SessionTypes'
<1> SUFFICES ASSUME SessionTypes, [Next]_vars PROVE SessionTypes'
  OBVIOUS
<1> USE DEF SessionTypes
<1>1. CASE SessionStep
  BY <1>1 DEF SessionStep, Login!Appear, Login!Leave, Login!Ask, Login!Fail, Login!Enter
<1>2. CASE OpenCamera \/ CameraAppears \/ CameraClosed
  BY <1>2 DEF OpenCamera, CameraAppears, CameraClosed, CloseCamera, sessionVars
<1>3. CASE \/ \E kind \in {"photo", "clip"} : Capture(kind)
           \/ PhotoTaken
           \/ \E shot \in {"clip", "segue"} : ShowEditScreen(shot)
           \/ EditorContinued \/ EditorCancelled
  BY <1>3 DEF Capture, PhotoTaken, ShowEditScreen, Present, EditorContinued,
     EditorCancelled, sessionVars
<1>4. ASSUME NEW n \in Edits, NextClicked(n) \/ EditClosed(n) \/ UploadReturns(n)
      PROVE  SessionTypes'
  BY <1>4 DEF NextClicked, EditClosed, UploadReturns, UploadSucceeded, UploadCrashes,
     PublishFailed, Published, Login!Relaunch, Login!Started, sessionVars
<1>5. CASE Kill
  BY <1>5 DEF Kill, Login!Relaunch, Login!EnterCut, Login!LeaveCut, Login!Started
<1>6. CASE UNCHANGED vars
  BY <1>6 DEF vars
<1> QED
  BY <1>1, <1>2, <1>3, <1>4, <1>5, <1>6 DEF Next

LEMMA ScreenTypesStep == ScreenTypes /\ [Next]_vars => ScreenTypes'
<1> SUFFICES ASSUME ScreenTypes, [Next]_vars PROVE ScreenTypes'
  OBVIOUS
<1> USE BoundAssumption DEF ScreenTypes
<1>1. CASE SessionStep \/ OpenCamera \/ CameraAppears \/ CameraClosed
  BY <1>1 DEF SessionStep, OpenCamera, CameraAppears, CameraClosed, CloseCamera, screens
<1>2. ASSUME NEW kind \in {"photo", "clip"}, Capture(kind) PROVE ScreenTypes'
  BY <1>2 DEF Capture
<1>3. CASE PhotoTaken
  BY <1>3 DEF PhotoTaken, Present
<1>4. ASSUME NEW shot \in {"clip", "segue"}, ShowEditScreen(shot) PROVE ScreenTypes'
  BY <1>4 DEF ShowEditScreen, Present
<1>5. CASE EditorContinued \/ EditorCancelled
  BY <1>5 DEF EditorContinued, EditorCancelled, Dismiss
<1>6. ASSUME NEW n \in Edits, NextClicked(n) \/ EditClosed(n) \/ UploadReturns(n)
      PROVE  ScreenTypes'
  BY <1>6 DEF NextClicked, EditClosed, UploadReturns, UploadSucceeded, UploadCrashes,
     PublishFailed, Published, Dismiss, Restart, screens
<1>7. CASE Kill
  <2>1. kills' \in 0 .. MaxKills
    BY <1>7 DEF Kill
  <2> QED
    BY <1>7, <2>1 DEF Kill, Restart
<1>8. CASE UNCHANGED vars
  BY <1>8 DEF vars
<1> QED
  BY <1>1, <1>2, <1>3, <1>4, <1>5, <1>6, <1>7, <1>8 DEF Next

LEMMA UploadTypesStep ==
  SessionTypes /\ UploadTypes /\ [Next]_vars => UploadTypes'
<1> SUFFICES ASSUME SessionTypes, UploadTypes, [Next]_vars PROVE UploadTypes'
  OBVIOUS
<1> USE DEF SessionTypes, UploadTypes, Uploads
<1>1. CASE SessionStep
  <2>1. moved' \subseteq Edits
    BY <1>1 DEF SessionStep, InProgress
  <2> QED
    BY <1>1, <2>1 DEF SessionStep
<1>2. CASE \/ OpenCamera \/ CameraAppears \/ CameraClosed
           \/ \E kind \in {"photo", "clip"} : Capture(kind)
           \/ PhotoTaken
           \/ \E shot \in {"clip", "segue"} : ShowEditScreen(shot)
           \/ EditorContinued \/ EditorCancelled
  BY <1>2 DEF OpenCamera, CameraAppears, CameraClosed, Capture, PhotoTaken,
     ShowEditScreen, Present, EditorContinued, EditorCancelled, uploads
<1>3. ASSUME NEW n \in Edits, NextClicked(n) PROVE UploadTypes'
  BY <1>3 DEF NextClicked
<1>4. ASSUME NEW n \in Edits, EditClosed(n) PROVE UploadTypes'
  BY <1>4 DEF EditClosed
<1>5. ASSUME NEW n \in Edits, UploadSucceeded(n) PROVE UploadTypes'
  BY <1>5 DEF UploadSucceeded, PosterName
<1>6. ASSUME NEW n \in Edits, UploadCrashes(n) PROVE UploadTypes'
  BY <1>6 DEF UploadCrashes, Restart
<1>7. ASSUME NEW n \in Edits, PublishFailed(n) \/ Published(n) PROVE UploadTypes'
  BY <1>7 DEF PublishFailed, Published
<1>8. CASE Kill
  BY <1>8 DEF Kill, Restart
<1>9. CASE UNCHANGED vars
  BY <1>9 DEF vars
<1> QED
  BY <1>1, <1>2, <1>3, <1>4, <1>5, <1>6, <1>7, <1>8, <1>9 DEF Next, UploadReturns

-----------------------------------------------------------------------------
(* Screens *)

\* Which screen is on top says what the stack is.
LEMMA TopOfStack ==
  ASSUME stack \in Stacks
  PROVE  /\ OnTop(Camera) <=> stack = <<Camera>>
         /\ OnTop(Editor) <=> stack = <<Camera, Editor>>
         /\ \A n \in Edits : OnTop(Edit(n)) <=> stack = <<Camera, Edit(n)>>
<1>1. CASE stack = <<>>
  BY <1>1 DEF OnTop
<1>2. CASE stack = <<Camera>>
  BY <1>2 DEF OnTop, Camera, Editor, Edit
<1>3. CASE stack = <<Camera, Editor>>
  BY <1>3 DEF OnTop, Camera, Editor, Edit
<1>4. ASSUME NEW m \in Edits, stack = <<Camera, Edit(m)>>
      PROVE  /\ OnTop(Camera) <=> stack = <<Camera>>
             /\ OnTop(Editor) <=> stack = <<Camera, Editor>>
             /\ \A n \in Edits : OnTop(Edit(n)) <=> stack = <<Camera, Edit(n)>>
  BY <1>4 DEF OnTop, Camera, Editor, Edit
<1> QED
  BY <1>1, <1>2, <1>3, <1>4 DEF Stacks

LEMMA AppendOne ==
  ASSUME NEW x, NEW y
  PROVE  Append(<<x>>, y) = <<x, y>>
<1> DEFINE s == Append(<<x>>, y)
           t == <<x, y>>
<1>1. <<x>> \in Seq({x, y}) /\ t \in Seq({x, y})
  OBVIOUS
<1>2. s \in Seq({x, y}) /\ Len(s) = 2 /\ s[1] = x /\ s[2] = y
  BY <1>1, AppendProperties
<1>3. Len(t) = 2 /\ t[1] = x /\ t[2] = y
  OBVIOUS
<1> HIDE DEF s, t
<1>4. \A i \in 1 .. Len(s) : s[i] = t[i]
  BY <1>2, <1>3
<1>5. s = t
  BY <1>1, <1>2, <1>3, <1>4, SeqEqual
<1> QED
  BY <1>5 DEF s, t

\* What presenting a screen over the camera makes of the stack.
LEMMA PresentStacks ==
  ASSUME stack \in Stacks, NEW screen, NEW shot, Present(screen, shot),
         screen = Editor \/ \E n \in Edits : screen = Edit(n)
  PROVE  /\ stack' \in Stacks
         /\ stack' = stack \/ (stack = <<Camera>> /\ ~appearing)
         /\ UNCHANGED <<sessionVars, appearing, editFinished, uploads, crashed, kills>>
<1>1. /\ \/ Usable(Camera) /\ stack' = Append(stack, screen)
         \/ stack' = stack
      /\ UNCHANGED <<sessionVars, appearing, editFinished, uploads, crashed, kills>>
  BY DEF Present
<1>2. CASE Usable(Camera) /\ stack' = Append(stack, screen)
  <2>1. stack = <<Camera>> /\ ~appearing
    BY <1>2, TopOfStack DEF Usable
  <2>2. stack' = Append(<<Camera>>, screen)
    BY <1>2, <2>1
  <2>3. stack' = <<Camera, screen>>
    BY <2>2, AppendOne
  <2>4. <<Camera, screen>> \in Stacks
    BY DEF Stacks
  <2> QED
    BY <1>1, <2>1, <2>3, <2>4
<1> QED
  BY <1>1, <1>2

LEMMA ScreensStep == Types /\ Screens /\ [Next]_vars => Screens'
<1> SUFFICES ASSUME Types, Screens, [Next]_vars PROVE Screens'
  OBVIOUS
<1> USE DEF Screens
<1>1. CASE SessionStep
  BY <1>1, NilAssumption DEF SessionStep, screens, Login!Appear, Login!Leave, Login!Ask,
     Login!Fail, Login!Enter
<1>2. CASE OpenCamera
  BY <1>2 DEF OpenCamera, sessionVars, Stacks
<1>3. CASE CameraAppears \/ CameraClosed
  BY <1>3 DEF CameraAppears, CameraClosed, CloseCamera, Usable, sessionVars, Stacks
<1>4. CASE \E kind \in {"photo", "clip"} : Capture(kind)
  BY <1>4 DEF Capture, sessionVars
<1>5. CASE PhotoTaken
  <2>1. Present(Editor, "photo")
    BY <1>5 DEF PhotoTaken
  <2>2. /\ stack' \in Stacks
        /\ stack' = stack \/ (stack = <<Camera>> /\ ~appearing)
        /\ UNCHANGED <<sessionVars, appearing>>
    BY <2>1, PresentStacks
  <2> QED
    BY <2>2 DEF sessionVars
<1>6. ASSUME NEW shot \in {"clip", "segue"}, ShowEditScreen(shot) PROVE Screens'
  <2>1. edits + 1 \in Edits
    BY <1>6, BoundAssumption DEF ShowEditScreen, Types, ScreenTypes, Edits
  <2>2. Present(Edit(edits + 1), shot)
    BY <1>6 DEF ShowEditScreen
  <2>3. /\ stack' \in Stacks
        /\ stack' = stack \/ (stack = <<Camera>> /\ ~appearing)
        /\ UNCHANGED <<sessionVars, appearing>>
    BY <2>1, <2>2, PresentStacks
  <2> QED
    BY <2>3 DEF sessionVars
<1>7. CASE EditorContinued \/ EditorCancelled
  BY <1>7 DEF EditorContinued, EditorCancelled, Dismiss, OnTop, sessionVars, Stacks
<1>8. ASSUME NEW n \in Edits, NextClicked(n) \/ UploadSucceeded(n) \/ PublishFailed(n)
      PROVE  Screens'
  BY <1>8 DEF NextClicked, UploadSucceeded, PublishFailed, sessionVars, screens
<1>9. ASSUME NEW n \in Edits, EditClosed(n) \/ Published(n) PROVE Screens'
  BY <1>9 DEF EditClosed, Published, Dismiss, OnTop, sessionVars, Stacks
<1>10. CASE Kill \/ \E n \in Edits : UploadCrashes(n)
  BY <1>10 DEF Kill, UploadCrashes, Restart, Login!Relaunch, Login!EnterCut, Login!LeaveCut,
     Login!Started, Stacks
<1>11. CASE UNCHANGED vars
  BY <1>11 DEF vars
<1> QED
  BY <1>1, <1>2, <1>3, <1>4, <1>5, <1>6, <1>7, <1>8, <1>9, <1>10, <1>11
  DEF Next, UploadReturns

LEMMA HalvedStep == Types /\ Halved /\ [Next]_vars => Halved' /\ (kills > 0 => kills' > 0)
<1> SUFFICES ASSUME Types, Halved, [Next]_vars
             PROVE  Halved' /\ (kills > 0 => kills' > 0)
  OBVIOUS
<1>0. kills \in Nat
  BY BoundAssumption DEF Types, ScreenTypes
<1>1. CASE SessionStep
  BY <1>0, <1>1, NilAssumption DEF SessionStep, Halved, Login!Appear, Login!Leave, Login!Ask,
     Login!Fail, Login!Enter
<1>2. CASE UNCHANGED <<user, loggedIn, kills>>
  BY <1>0, <1>2 DEF Halved
<1>3. CASE Kill
  BY <1>0, <1>3 DEF Kill, Halved
<1>4. CASE CameraAppears \/ CameraClosed
  BY <1>2, <1>4 DEF CameraAppears, CameraClosed, CloseCamera, sessionVars
<1>5. ASSUME NEW n \in Edits, UploadReturns(n) PROVE UNCHANGED <<user, loggedIn, kills>>
  BY <1>5 DEF UploadReturns, UploadSucceeded, UploadCrashes, PublishFailed, Published,
     Login!Relaunch, Login!Started, sessionVars
<1> QED
  BY <1>1, <1>2, <1>3, <1>4, <1>5 DEF Next, OpenCamera, Capture, PhotoTaken, ShowEditScreen,
     Present, EditorContinued, EditorCancelled, NextClicked, EditClosed, sessionVars, vars

-----------------------------------------------------------------------------
(* The flag *)

LEMMA FlagStep ==
  Types /\ Screens /\ Flag /\ [Next]_vars => Flag'
<1> SUFFICES ASSUME Types, Screens, Flag, [Next]_vars
             PROVE  Flag'
  OBVIOUS
\* Without an edit screen or a camera that appears, the flag is down.
<1>a. stack \in Stacks
  BY DEF Screens
<1>b. editFinished =>
        appearing \/ \E n \in Edits : stack = <<Camera, Edit(n)>>
  BY <1>a, TopOfStack DEF Flag
<1>c. stack = <<>> => ~editFinished
  BY <1>b DEF Screens
<1>d. Usable(Camera) => ~editFinished
  <2>1. \A n \in Edits : <<Camera>> # <<Camera, Edit(n)>>
    OBVIOUS
  <2> QED
    BY <1>a, <1>b, <2>1, TopOfStack DEF Usable
<1>e. Usable(Editor) => ~editFinished
  <2>1. \A n \in Edits : <<Camera, Editor>> # <<Camera, Edit(n)>>
    BY DEF Editor, Edit
  <2> QED
    BY <1>a, <1>b, <2>1, TopOfStack DEF Usable
<1>1. CASE SessionStep \/ \E kind \in {"photo", "clip"} : Capture(kind)
  <2>1. UNCHANGED <<stack, appearing, editFinished, nextEnabled>>
    BY <1>1 DEF SessionStep, Capture, screens, uploads
  <2> QED
    BY <2>1 DEF Flag, OnTop
<1>2. CASE OpenCamera \/ CameraAppears \/ CameraClosed
  BY <1>2, <1>c, <1>d DEF OpenCamera, CameraAppears, CameraClosed, Flag
<1>3. ASSUME NEW screen, NEW shot \in shots, Present(screen, shot), UNCHANGED nextEnabled
      PROVE  Flag'
  BY <1>3, <1>d DEF Present, Flag, OnTop
<1>4. CASE PhotoTaken \/ \E shot \in {"clip", "segue"} : ShowEditScreen(shot)
  BY <1>4, <1>3 DEF PhotoTaken, ShowEditScreen, Present, uploads
<1>5. CASE EditorContinued \/ EditorCancelled
  BY <1>5, <1>e DEF EditorContinued, EditorCancelled, Flag
<1>6. ASSUME NEW n \in Edits, NextClicked(n) PROVE Flag'
  BY <1>6 DEF NextClicked, Usable, OnTop, Flag, Types, UploadTypes
<1>7. ASSUME NEW n \in Edits, EditClosed(n) \/ Published(n) PROVE Flag'
  BY <1>7 DEF EditClosed, Published, Dismiss, Usable, OnTop, Flag
<1>8. ASSUME NEW n \in Edits, UploadSucceeded(n) \/ PublishFailed(n)
      PROVE  Flag'
  BY <1>8 DEF UploadSucceeded, PublishFailed, screens, OnTop, Flag
<1>9. CASE Kill \/ \E n \in Edits : UploadCrashes(n)
  BY <1>9 DEF Kill, UploadCrashes, Restart, Flag
<1>10. CASE UNCHANGED vars
  BY <1>10 DEF vars, Flag, OnTop
<1> QED
  BY <1>1, <1>2, <1>4, <1>5, <1>6, <1>7, <1>8, <1>9, <1>10 DEF Next, UploadReturns

-----------------------------------------------------------------------------
(* Uploads *)

LEMMA ToldStep ==
  Types /\ Screens /\ Halved /\ (\A n \in Edits : Told(n)) /\ [Next]_vars
    => \A n \in Edits : Told(n)'
<1> SUFFICES ASSUME Types, Screens, Halved, NEW n \in Edits, Told(n), [Next]_vars
             PROVE  Told(n)'
  OBVIOUS
<1> USE DEF Types, UploadTypes, Told
<1>0. kills > 0 => kills' > 0
  BY HalvedStep
<1>1. CASE SessionStep
  BY <1>1 DEF SessionStep, InProgress
<1>2. CASE \/ OpenCamera \/ CameraClosed
           \/ \E kind \in {"photo", "clip"} : Capture(kind)
           \/ PhotoTaken
           \/ \E shot \in {"clip", "segue"} : ShowEditScreen(shot)
           \/ EditorContinued \/ EditorCancelled \/ CameraAppears
  BY <1>2 DEF OpenCamera, CameraAppears, CameraClosed, CloseCamera, Capture, PhotoTaken,
     ShowEditScreen, Present, EditorContinued, EditorCancelled, uploads, sessionVars
<1>3. ASSUME NEW m \in Edits, NextClicked(m) PROVE Told(n)'
  <2>1. user = Nil => kills > 0
    BY <1>3 DEF NextClicked, Usable, OnTop, Screens, Halved
  <2> QED
    BY <1>3, <2>1 DEF NextClicked, sessionVars
<1>4. ASSUME NEW m \in Edits, EditClosed(m) PROVE Told(n)'
  BY <1>4 DEF EditClosed, sessionVars
<1>5. ASSUME NEW m \in Edits, UploadSucceeded(m) PROVE Told(n)'
  BY <1>5 DEF UploadSucceeded, PosterName, sessionVars
<1>6. ASSUME NEW m \in Edits, UploadCrashes(m) PROVE Told(n)'
  BY <1>6 DEF UploadCrashes, Restart, Login!Relaunch, Login!Started
<1>7. ASSUME NEW m \in Edits, PublishFailed(m) \/ Published(m) PROVE Told(n)'
  BY <1>7 DEF PublishFailed, Published, sessionVars
<1>8. CASE Kill
  BY <1>0, <1>8 DEF Kill, Restart
<1>9. CASE UNCHANGED vars
  BY <1>9 DEF vars
<1> QED
  BY <1>1, <1>2, <1>3, <1>4, <1>5, <1>6, <1>7, <1>8, <1>9 DEF Next, UploadReturns

-----------------------------------------------------------------------------
(* Edit screens *)

\* No two edit screens are the same, and nothing else is one.
LEMMA EditStacks ==
  /\ \A n \in Edits : /\ <<>> # <<Camera, Edit(n)>> /\ <<Camera>> # <<Camera, Edit(n)>>
                      /\ <<Camera, Editor>> # <<Camera, Edit(n)>>
  /\ \A n, m \in Edits : <<Camera, Edit(n)>> = <<Camera, Edit(m)>> => n = m
  BY DEF Editor, Edit

LEMMA EditScreenStep ==
  ASSUME Types, Screens, \A n \in Edits : EditScreen(n), [Next]_vars
  PROVE  \A n \in Edits : EditScreen(n)'
<1> SUFFICES ASSUME NEW n \in Edits PROVE EditScreen(n)'
  OBVIOUS
<1> DEFINE here == stack = <<Camera, Edit(n)>>
<1>a. stack \in Stacks /\ EditScreen(n)
  BY DEF Screens
<1>b. ASSUME UNCHANGED <<stack, editFinished, edits, nextEnabled, upload>>, moved \subseteq moved'
      PROVE  EditScreen(n)'
  BY <1>a, <1>b DEF EditScreen
\* A step from another screen to a screen that is no edit screen.
<1>c. ASSUME ~here, ~here', UNCHANGED <<edits, nextEnabled, upload, moved>>
      PROVE  EditScreen(n)'
  BY <1>a, <1>c DEF EditScreen
<1>1. CASE SessionStep
  BY <1>1, <1>b DEF SessionStep, screens
<1>2. CASE OpenCamera \/ CameraAppears \/ CameraClosed
  <2>1. stack \in {<<>>, <<Camera>>} /\ stack' \in {<<>>, <<Camera>>}
    BY <1>2, <1>a, TopOfStack
    DEF OpenCamera, CameraAppears, CameraClosed, CloseCamera, Usable, Screens
  <2>2. UNCHANGED <<edits, nextEnabled, upload, moved>>
    BY <1>2 DEF OpenCamera, CameraAppears, CameraClosed, uploads
  <2> QED
    BY <2>1, <2>2, <1>c, EditStacks
<1>3. ASSUME NEW kind \in {"photo", "clip"}, Capture(kind) PROVE EditScreen(n)'
  BY <1>3, <1>b DEF Capture, uploads
<1>4. CASE PhotoTaken
  <2>1. UNCHANGED <<editFinished, edits, nextEnabled, upload, moved>>
    BY <1>4 DEF PhotoTaken, Present, uploads
  <2>2. \/ stack' = stack
        \/ stack = <<Camera>> /\ stack' = <<Camera, Editor>>
    BY <1>4, <1>a, TopOfStack, AppendOne DEF PhotoTaken, Present, Usable
  <2> QED
    BY <2>1, <2>2, <1>b, <1>c, EditStacks
<1>5. ASSUME NEW shot \in {"clip", "segue"}, ShowEditScreen(shot) PROVE EditScreen(n)'
  <2>1. edits \in Nat /\ n \in Nat /\ edits' = edits + 1
    BY <1>5, BoundAssumption DEF ShowEditScreen, Types, ScreenTypes, Edits
  <2>2. UNCHANGED <<editFinished, nextEnabled, upload, moved>>
    BY <1>5 DEF ShowEditScreen, Present, uploads
  <2>3. \/ stack' = stack
        \/ stack = <<Camera>> /\ stack' = <<Camera, Edit(edits + 1)>>
    BY <1>5, <1>a, TopOfStack, AppendOne DEF ShowEditScreen, Present, Usable
  <2>4. CASE stack' = stack
    BY <1>a, <2>1, <2>2, <2>4 DEF EditScreen
  <2>5. CASE stack = <<Camera>> /\ stack' = <<Camera, Edit(edits + 1)>>
    <3>1. edits + 1 \in Edits
      BY <1>5, <2>1, BoundAssumption DEF ShowEditScreen, Edits
    <3>2. ~here /\ (here' => n = edits + 1)
      BY <2>5, <3>1, EditStacks
    <3>3. n > edits => nextEnabled'[n]
      BY <1>a, <2>2 DEF EditScreen
    <3> QED
      BY <1>a, <2>1, <2>2, <3>2, <3>3 DEF EditScreen
  <2> QED
    BY <2>3, <2>4, <2>5
<1>6. CASE EditorContinued \/ EditorCancelled
  <2>1. stack = <<Camera, Editor>> /\ stack' = <<Camera>>
    BY <1>6, <1>a, TopOfStack DEF EditorContinued, EditorCancelled, Usable, Dismiss
  <2>2. UNCHANGED <<edits, nextEnabled, upload, moved>>
    BY <1>6 DEF EditorContinued, EditorCancelled, uploads
  <2> QED
    BY <2>1, <2>2, <1>c, EditStacks
<1>7. ASSUME NEW m \in Edits, NextClicked(m) PROVE EditScreen(n)'
  <2>1. /\ stack = <<Camera, Edit(m)>> /\ editFinished' = TRUE
        /\ nextEnabled' = [nextEnabled EXCEPT ![m] = FALSE]
        /\ upload' = [upload EXCEPT ![m] = "uploading"]
        /\ UNCHANGED <<stack, edits, moved>>
    BY <1>7, <1>a, TopOfStack DEF NextClicked, Usable
  <2>2. CASE n = m
    BY <1>a, <2>1, <2>2 DEF EditScreen, Types, UploadTypes
  <2>3. CASE n # m
    <3>1. nextEnabled'[n] = nextEnabled[n] /\ upload'[n] = upload[n] /\ ~here
      BY <2>1, <2>3, EditStacks DEF Types, UploadTypes
    <3> QED
      BY <1>a, <2>1, <3>1 DEF EditScreen
  <2> QED
    BY <2>2, <2>3
<1>8. ASSUME NEW m \in Edits, EditClosed(m) PROVE EditScreen(n)'
  <2>1. /\ stack = <<Camera, Edit(m)>> /\ stack' = <<Camera>> /\ moved' = moved \cup {m}
        /\ UNCHANGED <<edits, nextEnabled, upload>>
    BY <1>8, <1>a, TopOfStack DEF EditClosed, Usable, Dismiss
  <2>2. ~here' /\ (n = m \/ ~here)
    BY <2>1, EditStacks
  <2> QED
    BY <1>a, <2>1, <2>2 DEF EditScreen
<1>9. ASSUME NEW m \in Edits, UploadSucceeded(m) \/ PublishFailed(m) PROVE EditScreen(n)'
  <2>1. /\ UNCHANGED <<stack, editFinished, edits, nextEnabled, moved>>
        /\ upload' = [upload EXCEPT ![m] = "posting"] \/ upload' = [upload EXCEPT ![m] = "failed"]
    BY <1>9 DEF UploadSucceeded, PublishFailed, screens
  <2>2. upload'[n] = upload[n] \/ upload'[n] \in {"posting", "failed"}
    BY <2>1 DEF Types, UploadTypes
  <2> QED
    BY <1>a, <2>1, <2>2 DEF EditScreen
<1>10. ASSUME NEW m \in Edits, Published(m) PROVE EditScreen(n)'
  <2>1. /\ upload' = [upload EXCEPT ![m] = "posted"]
        /\ UNCHANGED <<editFinished, edits, nextEnabled, moved>>
        /\ IF stack = <<Camera, Edit(m)>> THEN stack' = <<Camera>> ELSE stack' = stack
    BY <1>10, <1>a, TopOfStack DEF Published, Dismiss
  <2>2. CASE n = m
    <3>1. ~here' /\ upload'[n] = "posted"
      BY <2>1, <2>2, EditStacks DEF Types, UploadTypes
    <3> QED
      BY <1>a, <2>1, <3>1 DEF EditScreen
  <2>3. CASE n # m
    <3>1. upload'[n] = upload[n] /\ here' = here
      BY <2>1, <2>3, EditStacks
    <3> QED
      BY <1>a, <2>1, <3>1 DEF EditScreen
  <2> QED
    BY <2>2, <2>3
<1>11. CASE Kill \/ \E m \in Edits : UploadCrashes(m)
  <2>1. Restart
    BY <1>11 DEF Kill, UploadCrashes
  <2>2. ~here' /\ upload'[n] # "uploading" /\ UNCHANGED <<edits, nextEnabled>>
    BY <2>1, EditStacks DEF Restart, Types, UploadTypes
  <2> QED
    BY <1>a, <2>2 DEF EditScreen
<1>12. CASE UNCHANGED vars
  BY <1>12, <1>b DEF vars
<1> QED
  BY <1>1, <1>2, <1>3, <1>4, <1>5, <1>6, <1>7, <1>8, <1>9, <1>10, <1>11, <1>12
  DEF Next, UploadReturns

-----------------------------------------------------------------------------

LEMMA Initially == Init => IInv
<1> SUFFICES ASSUME Init PROVE IInv
  OBVIOUS
<1>1. Types
  <2>1. SessionTypes
    BY DEF Init, Login!Init, SessionTypes
  <2>2. ScreenTypes
    <3>1. 0 \in 0 .. MaxEdits /\ 0 \in 0 .. MaxKills
      BY BoundAssumption
    <3> QED
      BY <3>1 DEF Init, ScreenTypes
  <2>3. UploadTypes
    BY DEF Init, UploadTypes, Uploads
  <2> QED
    BY <2>1, <2>2, <2>3 DEF Types
<1>2. Screens /\ Halved /\ Flag
  BY DEF Init, Login!Init, Screens, Stacks, Flag, Halved
<1>3. \A n \in Edits : Told(n) /\ EditScreen(n)
  BY DEF Init, Told, EditScreen
<1> QED
  BY <1>1, <1>2, <1>3 DEF IInv

LEMMA Inductive == Spec => []IInv
<1>1. IInv /\ [Next]_vars => IInv'
  BY SessionTypesStep, ScreenTypesStep, UploadTypesStep, ScreensStep, HalvedStep, FlagStep,
     ToldStep, EditScreenStep
  DEF IInv, Types
<1> QED
  BY <1>1, Initially, PTL DEF Spec

\* The shape of every stack.
LEMMA StackShapes ==
  ASSUME stack \in Stacks
  PROVE  /\ stack \in Seq({Camera, Editor} \cup {Edit(n) : n \in Edits})
         /\ stack # <<>> => stack[1] = Camera /\ Len(stack) <= 2
<1> DEFINE All == {Camera, Editor} \cup {Edit(n) : n \in Edits}
<1>1. \A screen \in All : /\ <<Camera, screen>> \in Seq(All)
                          /\ <<Camera, screen>>[1] = Camera
                          /\ Len(<<Camera, screen>>) = 2
  <2>1. Camera \in All
    OBVIOUS
  <2> HIDE DEF All
  <2> QED
    BY <2>1
<1>2. /\ <<>> \in Seq(All)
      /\ <<Camera>> \in Seq(All) /\ <<Camera>>[1] = Camera /\ Len(<<Camera>>) = 1
  <2>1. Camera \in All
    OBVIOUS
  <2> HIDE DEF All
  <2> QED
    BY <2>1
<1>3. stack = <<>> \/ stack = <<Camera>> \/ \E screen \in All : stack = <<Camera, screen>>
  BY DEF Stacks
<1> HIDE DEF All
<1>4. stack \in Seq(All) /\ (stack # <<>> => stack[1] = Camera /\ Len(stack) <= 2)
  <2>1. CASE stack = <<>>
    BY <2>1, <1>2
  <2>2. CASE stack = <<Camera>>
    BY <2>2, <1>2
  <2>3. ASSUME NEW screen \in All, stack = <<Camera, screen>>
        PROVE  stack \in Seq(All) /\ stack[1] = Camera /\ Len(stack) <= 2
    BY <2>3, <1>1
  <2> QED
    BY <1>3, <2>1, <2>2, <2>3
<1> QED
  BY <1>4 DEF All

\* Publishing keeps its types.
THEOREM PublishTypes == Spec => []TypeOK
<1>1. IInv => TypeOK
  BY StackShapes
  DEF IInv, Screens, Types, SessionTypes, ScreenTypes, UploadTypes, Uploads, TypeOK
<1> QED
  BY <1>1, Inductive, PTL

\* At most one screen is over the camera, and the camera is over the tabs of a user who
\* is logged in, however photos, clips, segues and dismissals interleave.
THEOREM ScreensDoNest == Spec => []ScreensNest
<1>1. IInv => ScreensNest
  BY StackShapes DEF IInv, Screens, ScreensNest
<1> QED
  BY <1>1, Inductive, PTL

\* The global flag editFinished is up exactly while its edit screen is on top, and until
\* the camera that it is to close has appeared.
THEOREM FlagHasItsScreen == Spec => []FlagStaysWithItsScreen
<1>1. IInv => FlagStaysWithItsScreen
  BY TopOfStack DEF IInv, Screens, Flag, EditScreen, FlagStaysWithItsScreen
<1> QED
  BY <1>1, Inductive, PTL

\* After Next the edit screen stays with its flag raised and its upload running or
\* failed, or the app is on its way back: the camera appears with the flag raised, and
\* that ends on the tab bar. What the fairness of NextReturnsToTabs is needed for is only
\* that the upload and the camera's viewDidAppear come (PhotoEditController.swift:31-86,
\* CamViewController.swift:84-90).
Clicked(n) == OnTop(Edit(n)) /\ ~nextEnabled[n]
Returning == appearing /\ editFinished

UploadRunsOrFailed ==
  \A n \in Edits : Clicked(n) => editFinished /\ upload[n] \in {"uploading", "posting", "failed"}

OnItsWay ==
  /\ \A n \in Edits : Clicked(n) => Clicked(n)' \/ Returning' \/ stack' = <<>>
  /\ Returning => Returning' \/ stack' = <<>>

\* An edit screen that cannot be clicked again has an upload that ran or runs
\* (PhotoEditController.swift:31-86).
THEOREM ClickedScreensUpload == Spec => []UploadRunsOrFailed
<1>1. IInv => UploadRunsOrFailed
  BY TopOfStack DEF IInv, Screens, EditScreen, Clicked, UploadRunsOrFailed
<1> QED
  BY <1>1, Inductive, PTL

\* No step leads off the way from Next to the tab bar (PhotoEditController.swift:31-86,
\* CamViewController.swift:84-90).
THEOREM NextIsOnItsWay == Spec => [][OnItsWay]_vars
<1>1. IInv /\ [Next]_vars => [OnItsWay]_vars
  <2> SUFFICES ASSUME IInv, Next PROVE OnItsWay
    OBVIOUS
  <2>a. /\ stack \in Stacks /\ (appearing => stack = <<Camera>>)
        /\ \A n \in Edits : Clicked(n) => stack = <<Camera, Edit(n)>> /\ editFinished
    BY TopOfStack DEF IInv, Screens, EditScreen, Clicked
  <2>b. ASSUME UNCHANGED <<stack, appearing, editFinished, nextEnabled>> PROVE OnItsWay
    BY <2>b DEF OnItsWay, Clicked, Returning, OnTop
  <2>1. CASE SessionStep \/ \E kind \in {"photo", "clip"} : Capture(kind)
    BY <2>1, <2>b DEF SessionStep, Capture, screens, uploads
  <2>2. CASE OpenCamera
    BY <2>2, <2>a, EditStacks DEF OpenCamera, OnItsWay, Returning
  <2>3. CASE CameraAppears \/ CameraClosed
    BY <2>3, <2>a, TopOfStack, EditStacks
    DEF CameraAppears, CameraClosed, CloseCamera, Usable, OnItsWay, Returning
  <2>4. ASSUME NEW screen, NEW shot, Present(screen, shot) PROVE OnItsWay
    <3>1. \/ stack = <<Camera>> /\ ~appearing
          \/ UNCHANGED <<stack, appearing, editFinished, nextEnabled>>
      BY <2>4, <2>a, TopOfStack DEF Present, Usable, uploads
    <3> QED
      BY <3>1, <2>a, <2>b, EditStacks DEF OnItsWay, Returning
  <2>5. CASE PhotoTaken \/ \E shot \in {"clip", "segue"} : ShowEditScreen(shot)
    BY <2>4, <2>5 DEF PhotoTaken, ShowEditScreen
  <2>6. CASE EditorContinued \/ EditorCancelled
    BY <2>6, <2>a, TopOfStack, EditStacks
    DEF EditorContinued, EditorCancelled, Usable, OnItsWay, Returning
  <2>7. ASSUME NEW m \in Edits, NextClicked(m) PROVE OnItsWay
    <3>1. /\ stack = <<Camera, Edit(m)>> /\ ~appearing /\ nextEnabled[m]
          /\ UNCHANGED <<stack, appearing>>
      BY <2>7, <2>a, TopOfStack DEF NextClicked, Usable
    <3>2. \A n \in Edits : ~Clicked(n)
      BY <2>a, <3>1, EditStacks DEF Clicked
    <3> QED
      BY <3>1, <3>2 DEF OnItsWay, Returning
  <2>8. ASSUME NEW m \in Edits, EditClosed(m) \/ Published(m) PROVE OnItsWay
    <3>1. \/ stack' = <<Camera>> /\ appearing' = TRUE
          \/ UNCHANGED <<stack, appearing>>
      BY <2>8 DEF EditClosed, Published, Dismiss
    <3>2. UNCHANGED <<editFinished, nextEnabled>>
      BY <2>8 DEF EditClosed, Published
    <3> QED
      BY <2>a, <2>b, <3>1, <3>2 DEF OnItsWay, Returning
  <2>9. ASSUME NEW m \in Edits, UploadSucceeded(m) \/ PublishFailed(m) PROVE OnItsWay
    BY <2>9, <2>b DEF UploadSucceeded, PublishFailed, screens
  <2>10. CASE Kill \/ \E m \in Edits : UploadCrashes(m)
    BY <2>10 DEF Kill, UploadCrashes, Restart, OnItsWay
  <2> QED
    BY <2>1, <2>2, <2>3, <2>5, <2>6, <2>7, <2>8, <2>9, <2>10 DEF Next, UploadReturns
<1> QED
  BY <1>1, Inductive, PTL DEF Spec

\* The unwrapping of the username crashes only for an upload whose screen was closed, or
\* that a login call overtook, or that somebody began whose login a kill had cut between
\* the id and the username (PhotoEditController.swift:71, LoginViewController.swift:42-43).
CrashNeedsALeaver ==
  crashed' /\ ~crashed =>
    \E n \in Edits :
      /\ upload[n] = "uploading" /\ user = Nil
      /\ n \in moved \/ (author[n] = Nil /\ kills > 0)

\* A user who has a username and stays with the upload has it when the upload ends
\* (PhotoEditController.swift:71).
THEOREM CrashesComeFromLeavers == Spec => [][CrashNeedsALeaver]_vars
<1>1. IInv /\ [Next]_vars => [CrashNeedsALeaver]_vars
  <2> SUFFICES ASSUME IInv, Next, crashed' # crashed
               PROVE  \E n \in Edits :
                        /\ upload[n] = "uploading" /\ user = Nil
                        /\ n \in moved \/ (author[n] = Nil /\ kills > 0)
    BY DEF CrashNeedsALeaver
  <2>1. PICK n \in Edits : UploadCrashes(n)
    BY DEF Next, SessionStep, OpenCamera, CameraAppears, CameraClosed, Capture, PhotoTaken,
       ShowEditScreen, Present, EditorContinued, EditorCancelled, NextClicked, EditClosed,
       UploadReturns, UploadSucceeded, PublishFailed, Published, Kill
  <2>2. upload[n] = "uploading" /\ user = Nil
    BY <2>1 DEF UploadCrashes
  <2>3. n \in moved \/ author[n] = Nil
    BY <2>2 DEF IInv, Told
  <2>4. author[n] = Nil => kills > 0
    BY <2>2 DEF IInv, Told
  <2> QED
    BY <2>2, <2>3, <2>4
<1> QED
  BY <1>1, Inductive, PTL DEF Spec

\* Publishing keeps to what Session lets the rest of the app do: every step of the camera,
\* the screens, the uploads and the restarts is a step of the session, or none of it
\* (MainTabController.swift:13-30, CamViewController.swift:38-40, 84-90).
THEOREM PublishKeepsToSession == Spec => Login!Spec
<1>1. Init => Login!Init
  BY DEF Init
<1>2. IInv /\ [Next]_vars => [Login!Next]_sessionVars
  <2> SUFFICES ASSUME IInv, [Next]_vars PROVE [Login!Next]_sessionVars
    OBVIOUS
  <2>1. CASE SessionStep
    BY <2>1 DEF SessionStep, Login!Next
  <2>2. CASE CameraAppears \/ CameraClosed
    <3>1. stack = <<Camera>> /\ (CloseCamera \/ UNCHANGED sessionVars)
      BY <2>2, TopOfStack DEF CameraAppears, CameraClosed, Usable, IInv, Screens
    <3>2. door = "open"
      BY <3>1 DEF IInv, Screens
    <3> QED
      BY <3>1, <3>2 DEF CloseCamera, Login!Reveal, Login!Next
  <2>3. CASE OpenCamera \/ \E kind \in {"photo", "clip"} : Capture(kind)
    BY <2>3 DEF OpenCamera, Capture
  <2>4. CASE PhotoTaken \/ \E shot \in {"clip", "segue"} : ShowEditScreen(shot)
    BY <2>4 DEF PhotoTaken, ShowEditScreen, Present
  <2>5. CASE EditorContinued \/ EditorCancelled
    BY <2>5 DEF EditorContinued, EditorCancelled
  <2>6. ASSUME NEW n \in Edits, NextClicked(n) \/ EditClosed(n) \/ UploadReturns(n)
        PROVE  [Login!Next]_sessionVars
    BY <2>6 DEF NextClicked, EditClosed, UploadReturns, UploadSucceeded, UploadCrashes,
       PublishFailed, Published, Login!Next
  <2>7. CASE Kill
    BY <2>7 DEF Kill, Login!Next
  <2>8. CASE UNCHANGED vars
    BY <2>8 DEF vars, sessionVars
  <2> QED
    BY <2>1, <2>2, <2>3, <2>4, <2>5, <2>6, <2>7, <2>8 DEF Next
<1> QED
  BY <1>1, <1>2, Inductive, PTL DEF Spec, Login!Spec, Login!sessionVars, sessionVars

\* An edit screen calls post once, whatever fails, closes or restarts.
THEOREM PostsOnce == Spec => []OnePostPerEdit
<1>1. IInv => OnePostPerEdit
  BY DEF IInv, Told, OnePostPerEdit
<1> QED
  BY <1>1, Inductive, PTL

\* A post carries the name of the user who clicked Next, unless the screen was closed
\* or the session changed during the upload.
THEOREM AuthorsPost == Spec => []PostedByAuthor
<1>1. IInv => PostedByAuthor
  BY DEF IInv, Told, PostedByAuthor
<1> QED
  BY <1>1, Inductive, PTL
=============================================================================
