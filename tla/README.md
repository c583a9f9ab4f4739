# WHIX in TLA+

WHIX is a small social app: an iOS client in Swift, an Android prototype, and a
backend of four Cloud Functions over Firestore and Firebase Storage. Users log in
with an e-mail and a username, take a photo or film a clip, edit the photo, publish it,
and everybody scrolls through the feed. This directory models that system in TLA+,
checks it with TLC and proves its safety with TLAPS.

## Inventory

| Part | State | Operations | Hard about it | Correct when |
|---|---|---|---|---|
| Cloud Functions (`backend/functions/index.js`) | the collections `users` and `post`; local variables over awaits | `login`, `post`, `like`, `unlike` | up to four awaits per call without a transaction; lost acknowledgements | logins answer the account asked for, duplicates and lost likes need overlap, nothing is lost otherwise |
| Sessions (`LoginViewController`, `MainTabController`, `ProfileController`) | two keys in UserDefaults, the presented screens, text fields, calls in flight | log in, edit, log out, kill and restart | answers that come after their screen is gone; fields read again; a kill between two writes | the keys stay together but for a kill between them, the login screen is there exactly when needed |
| Publishing (`CamViewController`, `PhotoEditController`, `AppDelegate`) | presented screens, `editFinished`, uploads | take, edit, Next, close, upload, post | presentations dropped by UIKit, a global flag, uploads that outlive screens and sessions | screens nest, the flag and the post stay with the screen and user they belong to |
| Photo editor (`PhotoEditorViewController`, `photoeditor/PhotoEditor+*`, `StickersViewController`) | `isDrawing`, `isTyping`, `stickersVCIsVisible`, what is hidden, keyboard, sheet, gestures | draw, type, stickers, drag, clear, done | modes scattered over handlers; late completions | the user always has a control, the canvas and the keyboard have a reason |
| Feed (`FeedViewController`, `PlayerCollectionViewCell`, `PlayerView`) | `docs`, rows, reused cells, disk cache | snapshot, error, reload, make, display, reuse, look-up, avatar, download, loop | callbacks and image loads into reused cells | posts and contents arrive, cells show what they were configured with |
| Crop screen (`CropView`, `CropRectView`, `ResizeControl`, `CropViewController`) | the rectangle in two views, the picture's place and zoom, where a drag began | drag a handle, set an aspect ratio, scroll, pinch | negative sizes, caps, a zoom in the middle of a drag | drags stay inside the picture, what is shown is what is cut out |
| Camera (`CamViewController`, `SwiftyRecordButton`, over the pod SwiftyCam) | the capture session and two flags about it, `isVideoRecording`, `buttonEnabled`, the limit timer, `innerCircle`, blocks on two queues | long press, tap, flip, deliver, cover, close | two threads write the same fields; notifications and completions come late | recordings are limited, the button has one circle, the camera gets ready again, nothing missing is unwrapped |
| Android app (`campusHack192`) | list of posts, two toggles | one query, paging, blocking downloads | nothing is reached after a wrong cast | - |
| Access rules, hosting, vendored pods | - | - | - | - |

How they interact: the login screen and the edit screen call `login` and `post` over
HTTPS and learn of the outcome in completion handlers on the main thread. UserDefaults
carry the session from the login screen to the tab bar and to the edit screen. The
camera presents the editor, which calls back `doneEditing`; the edit screen tells the
camera that it is done through `AppDelegate.editFinished`. The camera calls
AVFoundation on a session queue and hears of it through notifications and the main queue. `post` writes the documents
that the feed's snapshot listener reads, author references included. No client
calls `like` or `unlike` yet.

## Modules

`AccountService` (abstract) is implemented by `WhixBackend`, used by `LoginFlow`.
`Session` (abstract) is implemented by `LoginFlow`, used by `PublishFlow`.

| Module | What it models |
|---|---|
| `AccountService` | what `login` promises a client: one atomic decision per request. |
| `WhixBackend` | the four functions. One action per awaited Firestore operation with the local code up to the next await; `pc[c]` names what call `c` awaits, `local[c]` holds its variables. `Throw` fails any await, `ThrowUnresolved` a write whose fate stays open (`limbo`) until `LateWrite` or `LostWrite`. History variables: what a call `knew`, and the `lineage` of likes in each document. |
| `MCWhixBackend` | its instances: seeds, trimming, symmetry of calls. |
| `WhixBackendProofs` | theorems of the backend: types, users, posts, the refinement. |
| `LikesProofs` | theorems about the count of likes. |
| `Session` | who the user is, and whether the tab bar is usable: `Reveal` brings it back from under the camera, with `viewDidAppear` to come. |
| `LoginFlow` | screens, text fields, UserDefaults, completion handlers, restarts; `AccountService` is the server. |
| `MCLoginFlow` | trimming for its instance. |
| `SessionProofs` | theorems of `LoginFlow`, the refinement of `Session` included. |
| `PublishFlow` | camera, editor, edit screens, flag, uploads; `Session` is the user. |
| `PublishFlowProofs` | its theorems. |
| `PhotoEditor` | the editor's modes: one action per handler, completion or gesture report. |
| `PhotoEditorProofs` | its theorems. |
| `Camera` | presses, taps, flips and closing; the blocks of the session queue and of the main queue, one action each, cut where the other thread sees a difference; notifications, the timers and the circle on the button. |
| `CameraProofs` | its theorems, after lemmas on queues of blocks. |
| `CropScreen` | the crop screen: a rectangle is an interval per axis, a handle the ends it moves; one action per gesture event. |
| `MCCropScreen` | its instance. |
| `CropProofs` | its theorems, after lemmas on scaling, centring and capping. |
| `Feed` | listener and its end, reloads, cells prepared, displayed and reused, look-ups, avatars, downloads, loops. |
| `FeedProofs` | its theorems. |

`PublishFlow` takes the camera for a screen; `Camera` opens it up.

Conventions: the iOS modules have one action per event of the main thread; handlers do
not interleave inside. In `Camera` they interleave with the blocks of the session queue. Operators named `Bad...` are faulty variants of the definition
after them, bugs this code could have; the properties were seen to fail with them.

What is abstracted, by module:

- *WhixBackend*: document ids are numbers, handed out freely; a gravatar, a location
  and a date are left out. Strings are model texts, one of which carries a blank that
  `trim` takes away. A query returns its documents in id order, so the last id wins.
- *LoginFlow*: e-mails are checked for an "@" only (`HasAt`), as the code does.
  A completion handler may get an error whatever the server does. The two keys of a
  session are written by two actions, the first of which leaves the handler `running`:
  until it ends only the server may act, or a kill. A write to UserDefaults counts as
  made when the call returns.
- *PublishFlow*: a shot is delivered by name, not by picture. UIKit drops a presentation
  by a camera that is covered or going away; a dismissal reveals the camera and its
  `viewDidAppear` follows later.
- *PhotoEditor*: objects are counted by kind, geometry is nondeterministic (a drag may
  end over the trash). The crop, share and alert screens that the editor presents, and
  the choice of a colour, are left out.
- *Camera*: one still image is captured at a time. A long press takes half a second to be
  recognised and `shrinkButton` 0.3 s, so a press begins after the animation; the
  timer of ten seconds fires after the block of its press has run. Notifications come
  in the order of their causes. A clip may end in an error, which delivers nothing.
  Flash and torch, zoom, focus, orientation, permissions and a session that cannot be
  configured are left out.
- *CropScreen*: whole points instead of floats, scaling rounds down; animations set their final
  values at once, as the layers' models do. `UIScrollView` puts a rectangle it zooms to in the middle, within its
  limits; `Scroll` takes it to extreme positions and zooms only. A dragged edge
  goes where it was when the finger came down, moved as far as the finger: that may lie outside the
  view, and the run takes it a point beyond each border.
  A zoom to an empty rectangle, which divides by zero, counts as the loss of the
  screen. `keepAspectRatio` is never set and its branches are left out, as is rotation.
- *Feed*: posts are numbers in the order of their dates, and may arrive in any order.
  Callbacks to come are counted by cell and post, as the same cell may ask twice. A cell
  is made for a row (`Prepare`), displayed, hidden and reused by separate actions, as the
  collection view prefetches. The load of an avatar (`fetching`) is the image view's own: the
  next `sd_setImage` gives it up, `image = nil` does not. The disk may refuse a content,
  and the file for a player may not be written, which crashes (`AssetFails`). iOS empties the
  cache while the app does not run, which is as good as a fresh start: the model does not.

## Runs

| Run | Distinct states | Bounds | Shows |
|---|---|---|---|
| `Backend` | 61,063 | 2 calls of any function, 2 seeded users and a post | login: `DuplicatesNeedOverlap`, refinement of `AccountService` (`LoginIsAtomic`); likes: `CountNeverExceedsLikes`, `CountAccountsForLineage`, `LostLikesNeedOverlap`; all: `DocumentsPersist`, `PostsAreCredited`, `EveryCallAnswers` (fair) |
| `Login` | 1,409,744 | 2 calls, 4 login screens, 1 kill, between two writes perhaps | session safety, refinement of `Session` (`ImplementsSession`), `LoginIsOffered` (fair) |
| `Publish` | 320,883 | 2 edit screens, 2 users, 2 login calls, 1 kill | screen and flag safety, `NextReturnsToTabs` (fair) |
| `PublishUnwrap` | counterexample | 1 edit screen | `UsernameIsThere` fails |
| `EditorModes` | 111,513 | 3 sheets, 2 drags at a time | `NoDeadEnd`, `CanvasHasAReason`, `TypingHasAKeyboard` |
| `EditorColors` | counterexample | as above | `ColorsWhileDrawingOrTyping` fails |
| `EditorLastPoint` | counterexample | as above | `LastPointIsThere` fails |
| `Camera` | 493,638 | 3 presses, taps, flips and closing | `CrashesNeedHaste`, `OneCircle`, `LimitStands`, `ButtonsComeBack` and `CameraComesBack` (fair) |
| `CameraLimit` | counterexample | as above | `RecordingIsLimited` fails |
| `Crop` | 107,856 | 2 gestures, 3 pictures, 12 places a dragged corner goes to | `DragsStayInside`, `ShownIsCropped` |
| `Feed` | 223,544 | 2 posts (one a clip, one without an author), 2 cells, configured twice | `ShowsItsPost`, `RowsShowTheirDocuments`, `ScrollNeedsReload`, `StartsOnDisplay`, `FeedCatchesUp` and `ContentArrives` (fair) |
| `FeedAuthor` | counterexample | as above, configured three times | `AuthorIsThere` fails |

Each passing run also checks the type invariant of its module.

Why the bounds suffice: every hazard of the backend is between two calls, and its safety
is proved for any number of them; the run has both fates of an unacknowledged
write and a blank in a username, which tells `trim` apart from its absence. Two login calls make a double click and a stale answer;
four forms are more than the screens two calls and a kill ask for. Two edit screens let
an upload outlive its screen while another is open. Three openings of the sheet let one
be removed by the completion of another and opened once more; two drags let one end
while the other goes on. Three uses of the camera are a press, another that meets what
the first left behind (a running timer, a recording, a circle), and a flip or a tap
in between. Two gestures on the
crop screen let one start where another left the rectangle, after a preset or a pinch; the finger takes
a corner beyond the borders of the view and of the picture, inside, and to places that turn the rectangle over; the third picture is too thin
to fill the screen at the largest zoom. Two uses of cells let one be reused with everything that
was asked for the first post still to come, or two show different posts at once; for more, safety is proved.
Symmetry is not used, as it is unsound for liveness.

`CHECK_DEADLOCK FALSE` stands where the system really stops: all calls are answered,
the editor is closed, the app has crashed, or a bound is used up. A run whose property
fails shows a real disagreement:

- `PublishUnwrap`: an edit screen closed during its upload, then a logout: the username
  unwrapped at `PhotoEditController.swift:71` is gone.
- `EditorColors`: the colour picker "will show while drawing or typing", but
  `keyboardWillHide` leaves it when the keyboard goes without the Done button.
- `EditorLastPoint`: a finger that was down before drawing mode began moves, and
  `lastPoint` is nil.
- `CameraLimit`: a finger lifted before the session queue has set `isVideoRecording` stops the
  timer but not the recording, which then has no limit, though the pod says that it
  "will me automatically stopped" (`Pods/SwiftyCam/README.md:269`).
- `FeedAuthor`: a post by `/users/null`, or a failed look-up, crashes the cell.

The crop screen shows hazards that no document denies, so no run is about them: after the automatic
zoom a drag goes on from the stale `initialRect` and may leave the picture; Square may
be higher than the picture; pinching out may uncover the frame, as `minimumZoomScale`
stays 1; a rectangle turned over beyond the picture is capped to nothing; a picture so thin that
`maximumZoomScale` does not make it fill the screen is left at once by the zoom.
`DragsStayInside` says what holds in spite of them.

The two keys of a session are written one by one, the id first (`LoginViewController.swift:42-43`,
`ProfileController.swift:16-17`), and a kill may come between. A cut login leaves a new id
with the name that was there before, another user's or none: who then publishes credits the other user,
or crashes at `PhotoEditController.swift:71` without having logged out. A cut logout leaves a name
without an id, which does no harm, as the login screen covers the tabs. `StoredNameIsTheAccounts` and the
theorem `KeysStayTogether` name these cases and exclude all others, `Session` has them as
`EnterCut` and `LeaveCut`, and `CrashesComeFromLeavers` lists the crash.

Some hazards are in the model, and the properties excuse them by name, since the
repository promises nothing else: a stray timer (`unheard`), a session that starts behind
another screen (`missed`), a clip whose end was on its way to its cell (`loops`), a picture whose
screen UIKit drops (`Present`), a username that is not trimmed. The properties say that
nothing else goes wrong.

## Fairness

- *Backend*: weak fairness of each call's `Proceed`: promises of the Firestore client
  settle and the runtime resumes the handler. No fairness of arrivals, failures, or of
  the fate of unacknowledged writes.
- *Login*: UIKit delivers `viewDidAppear`; Firebase calls every completion handler, with an
  error after its time limit; a handler that has begun ends, or is killed. The user need
  not do anything.
- *Publish*: `viewDidAppear` again, and every upload and call ends one way or the other.
- *Feed*: Firestore delivers a snapshot that is due, or ends the listener with an error;
  the main queue runs what was dispatched; every download ends, with a content or an error. Nothing
  is assumed of the success of anything: `FeedCatchesUp` excuses what an ended listener did not
  deliver, `ContentArrives` a download that failed. Look-ups and avatars need not end.
- *Camera*: both queues run their blocks; notifications, timers, animations,
  transitions, captures and clips come to their ends; UIKit cancels the touch on a
  screen that leaves. The user need not lift the finger from one that stays: the timer
  does it for them.

## Proofs

Every safety property of the passing runs is a theorem, for all values of the constants that satisfy the
named assumptions of the modules: natural bounds (`BoundAssumption` and its like),
`Null` and `Nil` outside the data, `trim` closed on the texts, seeds that are trimmed
with unique ids, and pictures that are at least a point wide and fit the editing area
(`CropAssumption`). Each proof finds an inductive strengthening, shows that every
action keeps it, one lemma per part, and reads the properties off it.

| Module | Inductive invariant | Why the property alone is not inductive |
|---|---|---|
| `WhixBackendProofs` | `Typing`, `Informed`, `Answered` | a call beyond idle must have a request of its function's shape, or neither `req[c].postId` nor the e-mail of an add has a type; what a call may answer rests on its `Knowledge`: after an empty query, no user that existed when it came conflicts with it, and users are only added |
| `LikesProofs` | `Accounted`, `Listed`: each document's count is the balance of its lineage, and so is the count that an update on its way carries, with its own call added | a count that is written was read at an earlier moment, with the lineage of that moment (`base`); so was a list, whence `Listed` speaks of updates on their way as well |
| `SessionProofs` | `Types`, `Bounds`, `Screens`, `Handling`, `Keys`, `Outlived` | an answer may come after its screen is gone: `Outlived` says that then another call of the same screen was granted before; the stored name rests on what each call `Sent` and was `Served`; between two writes `Handling` says whose id is stored, and with what right the handler writes on |
| `PublishFlowProofs` | `Types`, `Screens`, `Halved`, `Flag`, `Told(n)`, `EditScreen(n)` | the flag and the post of an edit screen are decided by steps long before: `Told` says what the state of an upload means for the button, the author and the number of posts, `EditScreen` what Next leaves on the screen above the camera, and `Halved` that only a kill leaves an id without a name |
| `PhotoEditorProofs` | `Modes` | a keyboard that is up must have the Done button beside it, or a drag that ends while the user types could hide the last control |
| `CameraProofs` | `Types`, `Limit`, `Stages`, `Orphans`, `Ready`, `Faded` | a press is in one stage at a time over two queues: in `queue`, announced, begun, finished, or an animation; at most one of each is on its way, in order, unless a press was `unheard`; `Ready` says which block or notification a session that is not ready waits for |
| `CropProofs` | `Types`, `scrollFrame` within the editing area, `ShownIsCropped`, `Dragged` | a drag is inside because its rectangle and the one it began with were when it began |
| `FeedProofs` | `CellTypes`, `View`, `ScrollNeedsReload`, `Uses`, `Rows`, `Cell(c)`, `Accounted(c)` | what a cell shows depends on the callbacks and avatars to come: `Cell` bounds those, `Accounted` says that what is not shown is among them |

The theorems:

- `WhixBackendProofs`: `TypeCorrect`, `DocumentsArePermanent`, `CountIsBounded`, `RegistrationIsSound`,
  `CreditIsSound`, `LoginAnswersAreSound`, `IdsStayUnique`, `NoDanglingReferences`, `HandlersAdvance`,
  `AnswersAreFinal`, and `LoginImplementsAccountService`: initial states
  map to initial states and each step to a step or a stutter of `AccountService` under `Accounts`.
- `LikesProofs`: `CountIsAccountedFor` (by lemmas on the balance of finite sets of calls),
  `LossesNeedOverlap` and `GapsNeedAnUnlike`.
- `SessionProofs`: `SessionTypes`, `StoredNamesAreTrue`, `SessionsOpenWhereAsked`,
  `KeysStayTogether`, `TabsNeedASession`, `LoginImplementsSession`, `LoginKeepsToService`.
- `PublishFlowProofs`: `PublishTypes`, `ScreensDoNest`, `FlagHasItsScreen`, `PostsOnce`, `AuthorsPost`,
  `ClickedScreensUpload`, `NextIsOnItsWay`, `CrashesComeFromLeavers`, `PublishKeepsToSession`.
- `PhotoEditorProofs`: `EditorTypes`, `NoDeadEnds`, `DeadCanvasHasAReason`, `TypingFollowsTheKeyboard`,
  `ColorsAreLeftByTheKeyboard`, `OnlyFirstLinesCrash`.
- `CameraProofs`: `CameraTypes`, `LimitsStand`, `CirclesAreSingle`, `OnlyHasteCrashes`,
  `SettledCameraIsReady`, `ButtonsFadeForRecordings`.
- `CropProofs`: `CropTypes`, `CutsWhatIsShown`, `DragsKeepInside`.
- `FeedProofs`: `FeedTypes`, `CellsShowTheirPosts`, `EveryRowShowsItsDocument`,
  `ScrollCrashesBeforeReloads`, `ClipsStartOnDisplay`, `SettledFeedIsComplete`,
  `SettledCellsAreFilled`, `PlayingCellsHavePlayers`.

*Refinements.* Each abstract specification is proved on both sides: the detailed one
implements it, and the module that uses it takes none but its steps.

| Abstract | Implemented by | Used by |
|---|---|---|
| `AccountService` | `WhixBackend` (`LoginImplementsAccountService`) | `LoginFlow` (`LoginKeepsToService`) |
| `Session` | `LoginFlow` (`LoginImplementsSession`) | `PublishFlow` (`PublishKeepsToSession`) |

*The safe half of liveness.* Liveness itself is out of the prover's reach, but not
what it comes down to: when nothing that fairness speaks of is left to
happen, what was promised is there, and no step leads away from it. So a promise is broken only
by an event that never comes, never by an order of events.

| Checked by TLC | Proved |
|---|---|
| `EveryCallAnswers` | `HandlersAdvance` (each step takes a call further, at most six steps), `AnswersAreFinal` |
| `LoginIsOffered` | `TabsNeedASession` |
| `NextReturnsToTabs` | `ClickedScreensUpload`, `NextIsOnItsWay` |
| `FeedCatchesUp` | `SettledFeedIsComplete` (by the pigeonhole principle: as many documents as posts, in order) |
| `ContentArrives` | `SettledCellsAreFilled` |
| `ButtonsComeBack` | `ButtonsFadeForRecordings` |
| `CameraComesBack` | `SettledCameraIsReady` |

*Exact causes.* Where a run shows a fault, a theorem says that nothing else leads to it:
`CrashesComeFromLeavers` for `PublishUnwrap` (an upload whose screen was left, or that another
session overtook, or that began without a name after a kill), `ColorsAreLeftByTheKeyboard` for `EditorColors`,
`OnlyFirstLinesCrash` for `EditorLastPoint` (a line can crash only before the first one was
begun), `LimitsStand` for `CameraLimit` (a press that ended before its recording).
`GapsNeedAnUnlike` is of this kind: the list of likes and `likesCount` part only over an unlike.

The theorems no run states are proved only: the runs' properties imply them, or come
close, or they bound a hazard that its run shows from one side. TLC checked each
on its run's instance before it was proved.

Only model-checked is liveness: `EveryCallAnswers`, `LoginIsOffered`,
`NextReturnsToTabs`, `FeedCatchesUp`, `ContentArrives`, `ButtonsComeBack`,
`CameraComesBack`. Liveness under fairness and ENABLED are out of the prover's reach. So
are induction over data and RECURSIVE operators; no module declares one.

## Plan

Done, in this order, the most important behaviour first: `AccountService`, `WhixBackend`;
`Session`, `LoginFlow`; `PublishFlow`; `PhotoEditor`; `Feed`; `CropScreen`; `Camera`; a module of proofs
for each of them.

Left:

1. `WhixSystem`: backend, session and feed composed, so that the author of a displayed post
   is followed from the login screen to the cell. The chain of refinements carries most of
   it today, and `NoDanglingReferences` says that what `post` stores leads to a user or to
   null. What is missing is the step from there to the feed, of which `Feed` assumes nothing.
2. `Camera` inside `PublishFlow`, with permissions and interruptions of the session.
3. Rotation on the crop screen.

## Not modelled

- Android app: the query's listener casts `userid`, which the backend stores as a
  reference (`index.js:71`), to `String` (`WhixPost.java:28`), and throws on the first document of its first
  answer. Without a document there is no page, no list and no download, whose busy wait is
  never entered; the two toggles are Booleans that nothing reads. Nothing interleaves.
- Colours, emojis and cells of the editor: data sources of collection views, whose state does not
  change once it is set up.
- Image and view helpers: drawing, pixels and geometry without state.
- Access rules and hosting: declarative.
- Vendored pods: third-party. What the app uses of them is modelled as external actions
  (late writes, callbacks, UIKit's presentations); SwiftyCam, which the camera inherits from,
  is in `Camera`.
- The feed's prefetching conforms to the protocol of table views and is never called.
- Square, 4 x 3 and 16 x 9 of the crop screen are in the model, but no property
  forbids what they do (see above): nothing in the repository promises otherwise.
