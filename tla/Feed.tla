-------------------------------- MODULE Feed --------------------------------
(***************************************************************************)
(* The feed of the iOS app: the snapshot listener and the collection view  *)
(* of FeedViewController, and the reused cells of PlayerCollectionViewCell *)
(* with their look-ups, downloads and looping clips. The posts come from   *)
(* the function "post" of WhixBackend, any number of them at any time.     *)
(*                                                                         *)
(* Everything runs on the main thread: an action is one callback. A        *)
(* callback of a cell captures the cell, which may show another post when  *)
(* it comes.                                                               *)
(***************************************************************************)
EXTENDS Integers, Sequences, FiniteSets

CONSTANTS
  MaxPosts,  \* bound: the posts are 1..MaxPosts, in the order of their dates
  Clips,     \* the posts whose content is an .mp4, the others' being a .jpg
  Orphans,   \* the posts by /users/null
  Cells,     \* the reusable cells
  MaxUses,   \* bound: how often a cell is configured in a behaviour
  Nil

ASSUME NilAssumption ==
  Nil \notin 1 .. MaxPosts /\ Nil \notin {"lookup", "loop", "scroll", "asset"}
ASSUME BoundAssumption == MaxPosts \in Nat /\ MaxUses \in Nat

VARIABLES
  server,    \* the posts in the collection "post"
  docs,      \* the documents of the last snapshot
  listening, \* the snapshot listener has not ended with an error
  reloads,   \* how many calls of reloadData are dispatched
  rows,      \* how many rows the collection view counts
  row,       \* the row that each cell was made for, or Nil while it is free
  shown,     \* the cells that are displayed
  post,      \* the post each cell was configured with
  author, avatar, picture, video, \* what each cell shows, by post
  fetching,  \* the post whose avatar is loaded into each cell, or Nil
  playing,   \* the cells whose player plays
  lookups, downloads,     \* how many callbacks are to come to each cell, by post
  loops,     \* the cells whose clip has ended, the observer's block to come
  cache,     \* the posts whose content is on the disk
  crashed,   \* Nil, or what the app crashed in
  uses,      \* bound: how often a cell was configured
  late,      \* history: the posts of the callbacks that were to come when each cell
             \* was configured
  failed     \* history: the cells that the download of their post failed for

feed == <<server, docs, listening, reloads, rows>>
place == <<row, shown>>
look == <<author, avatar, picture, video>>
pending == <<fetching, lookups, downloads>>
history == <<uses, late, failed>>
vars == <<server, docs, listening, reloads, rows, row, shown, post, author, avatar, picture,
          video, fetching, playing, lookups, downloads, loops, cache, crashed, uses, late,
          failed>>

Posts == 1 .. MaxPosts

Init ==
  /\ server = {} /\ docs = <<>> /\ listening = TRUE /\ reloads = 0 /\ rows = 0
  /\ row = [c \in Cells |-> Nil]
  /\ shown = {}
  /\ post = [c \in Cells |-> Nil]
  /\ author = [c \in Cells |-> Nil]
  /\ avatar = [c \in Cells |-> Nil] /\ fetching = avatar
  /\ picture = [c \in Cells |-> Nil]
  /\ video = [c \in Cells |-> Nil]
  /\ playing = {}
  /\ lookups = [c \in Cells |-> [p \in Posts |-> 0]] /\ downloads = lookups
  /\ loops = {}
  /\ cache = {}
  /\ crashed = Nil
  /\ uses = 0
  /\ late = [c \in Cells |-> {}]
  /\ failed = {}

-----------------------------------------------------------------------------
(* FeedViewController *)

\* A post is added. Its date was taken before, so it may not be the latest.
Posted(p) ==
  /\ server' = server \cup {p}
  /\ UNCHANGED <<docs, listening, reloads, rows, place, post, look, pending, playing, loops,
                 cache, crashed, history>>

\* The query is ordered by date: its one answer.
Ordered ==
  {s \in [1 .. Cardinality(server) -> server] : \A i, j \in DOMAIN s : i < j => s[i] < s[j]}

\* The view is not reloaded when it has rows already.
BadDispatched == IF docs = <<>> THEN reloads + 1 ELSE reloads

Dispatched == reloads + 1

\* The snapshot listener, with a snapshot that is not the one it has,
SnapshotArrives ==
  /\ listening
  /\ docs \notin Ordered
  /\ docs' \in Ordered
  /\ reloads' = Dispatched
  /\ UNCHANGED <<server, listening, rows, place, post, look, pending, playing, loops, cache,
                 crashed, history>>

\* ... and with an error, after which Firestore calls it no more.
SnapshotFails ==
  /\ listening
  /\ listening' = FALSE
  /\ UNCHANGED <<server, docs, reloads, rows, place, post, look, pending, playing, loops,
                 cache, crashed, history>>

\* The feed starts over after its last post.
BadRowCount == 2 * Len(docs)

\* numberOfItemsInSection
RowCount == Len(docs)

\* reloadData: the rows are counted anew, and all cells are free. Those that were
\* displayed are paused, by didEndDisplaying.
ReloadData ==
  /\ reloads > 0
  /\ reloads' = reloads - 1
  /\ rows' = RowCount
  /\ row' = [c \in Cells |-> Nil]
  /\ shown' = {}
  /\ playing' = playing \ shown
  /\ UNCHANGED <<server, docs, listening, post, look, pending, loops, cache, crashed,
                 history>>

\* scrollLatestClicked: the row before docs.count must be one of the view's rows.
ScrollLatestClicked ==
  /\ Len(docs) \notin 1 .. rows
  /\ crashed' = "scroll"
  /\ UNCHANGED <<feed, place, post, look, pending, playing, loops, cache, history>>

-----------------------------------------------------------------------------
(* PlayerCollectionViewCell *)

ToCome(c) == {p \in Posts : lookups[c][p] + downloads[c][p] > 0 \/ fetching[c] = p}

\* The labels of the post before remain.
BadEmptied(c) == author

Emptied(c) == [author EXCEPT ![c] = Nil]

\* A content is not looked for on the disk.
BadRetrieved(p, kind) == Nil

Retrieved(p, kind) == IF p \in cache \cap kind THEN p ELSE Nil

\* configure(with:): everything is emptied, the author is looked up, and the content
\* is read from the disk or downloaded. An avatar that is being loaded goes on loading.
Configure(c, p) ==
  /\ post' = [post EXCEPT ![c] = p]
  /\ author' = Emptied(c)
  /\ avatar' = [avatar EXCEPT ![c] = Nil]
  /\ picture' = [picture EXCEPT ![c] = Retrieved(p, Posts \ Clips)]
  /\ video' = [video EXCEPT ![c] = Retrieved(p, Clips)]
  /\ lookups' = [lookups EXCEPT ![c][p] = @ + 1]
  /\ downloads' = IF p \in cache THEN downloads ELSE [downloads EXCEPT ![c][p] = @ + 1]
  /\ playing' = playing \ {c}
  /\ late' = [late EXCEPT ![c] = ToCome(c)]
  /\ failed' = failed \ {c}
  /\ UNCHANGED fetching

\* The post of a row is taken from docs as they are now.
DocOf(r) == docs[1 + ((r - 1) % Len(docs))]

\* The view makes the free cell c for row r, perhaps long before it displays it.
Made(c, r) ==
  /\ uses < MaxUses
  /\ row[c] = Nil
  /\ r \in 1 .. rows
  /\ \A d \in Cells : row[d] # r

\* cellForItemAt
Prepare(c, r) ==
  /\ Made(c, r)
  /\ uses' = uses + 1
  /\ row' = [row EXCEPT ![c] = r]
  /\ Configure(c, DocOf(r))
  /\ UNCHANGED <<feed, shown, loops, cache, crashed>>

\* willDisplay: the cell plays if it has a player.
WillDisplay(c) ==
  /\ row[c] # Nil
  /\ c \notin shown
  /\ shown' = shown \cup {c}
  /\ playing' = IF video[c] = Nil THEN playing ELSE playing \cup {c}
  /\ UNCHANGED <<feed, row, post, look, pending, loops, cache, crashed, history>>

\* didEndDisplaying. The view may display the cell again for the same row,
EndDisplaying(c) ==
  /\ c \in shown
  /\ shown' = shown \ {c}
  /\ playing' = playing \ {c}
  /\ UNCHANGED <<feed, row, post, look, pending, loops, cache, crashed, history>>

\* ... or have it back for another one, whether or not it was ever displayed.
Release(c) ==
  /\ row[c] # Nil
  /\ c \notin shown
  /\ row' = [row EXCEPT ![c] = Nil]
  /\ UNCHANGED <<feed, shown, post, look, pending, playing, loops, cache, crashed, history>>

\* sd_setImage: an avatar that is being loaded into the cell is given up, the one in it
\* is taken out, and the new one is loaded.
LoadAvatar(c, p) ==
  /\ avatar' = [avatar EXCEPT ![c] = Nil]
  /\ fetching' = [fetching EXCEPT ![c] = p]

\* getDocument: the snapshot is unwrapped whatever the error, and so is the gravatar
\* of a user who may not exist. It crashes when the request fails, or the author is
\* /users/null.
LookupReturns(c, p) ==
  /\ lookups[c][p] > 0
  /\ lookups' = [lookups EXCEPT ![c][p] = @ - 1]
  /\ \/ /\ p \notin Orphans
        /\ author' = [author EXCEPT ![c] = p]
        /\ LoadAvatar(c, p)
        /\ UNCHANGED crashed
     \/ /\ crashed' = "lookup"
        /\ UNCHANGED <<author, avatar, fetching>>
  /\ UNCHANGED <<feed, place, post, picture, video, playing, downloads, loops, cache,
                 history>>

\* The load ends, with an image or without.
AvatarReturns(c) ==
  /\ fetching[c] # Nil
  /\ fetching' = [fetching EXCEPT ![c] = Nil]
  /\ avatar' = [avatar EXCEPT ![c] = fetching[c]] \/ UNCHANGED avatar
  /\ UNCHANGED <<feed, place, post, author, picture, video, playing, lookups, downloads,
                 loops, cache, crashed, history>>

\* A clip plays as soon as it is there.
BadStarted(c) == playing \cup {c}

\* A new player does not play before the cell is displayed again.
Started(c) == playing \ {c}

\* getData: the content goes to the disk, unless that fails, and into the cell.
DownloadReturns(c, p) ==
  /\ downloads[c][p] > 0
  /\ downloads' = [downloads EXCEPT ![c][p] = @ - 1]
  /\ cache' \in {cache, cache \cup {p}}
  /\ IF p \in Clips
     THEN /\ video' = [video EXCEPT ![c] = p]
          /\ playing' = Started(c)
          /\ UNCHANGED picture
     ELSE /\ picture' = [picture EXCEPT ![c] = p]
          /\ UNCHANGED <<video, playing>>
  /\ UNCHANGED <<feed, place, post, author, avatar, fetching, lookups, loops, crashed,
                 history>>

DownloadFails(c, p) ==
  /\ downloads[c][p] > 0
  /\ downloads' = [downloads EXCEPT ![c][p] = @ - 1]
  /\ failed' = IF post[c] = p THEN failed \cup {c} ELSE failed
  /\ UNCHANGED <<feed, place, post, look, fetching, playing, lookups, loops, cache, crashed,
                 uses, late>>

\* getAVAsset: the data of a clip, downloaded or from the disk, is written to a temporary
\* file for the player, with try!.
AssetFails(c) ==
  /\ \/ \E p \in Clips : downloads[c][p] > 0
     \/ \E r \in Posts : Made(c, r) /\ DocOf(r) \in cache \cap Clips
  /\ crashed' = "asset"
  /\ UNCHANGED <<feed, place, post, look, pending, playing, loops, cache, history>>

\* The clip plays to its end, and the observer's block goes to the main queue.
ClipEnds(c) ==
  /\ c \in playing
  /\ loops' = loops \cup {c}
  /\ UNCHANGED <<feed, place, post, look, pending, playing, cache, crashed, history>>

\* The block starts whatever player the cell has by now; player is unwrapped.
Loop(c) ==
  /\ c \in loops
  /\ loops' = loops \ {c}
  /\ IF video[c] = Nil THEN crashed' = "loop" /\ UNCHANGED playing
                       ELSE playing' = playing \cup {c} /\ UNCHANGED crashed
  /\ UNCHANGED <<feed, place, post, look, pending, cache, history>>

-----------------------------------------------------------------------------

CellStep(c) ==
  \/ \E r \in Posts : Prepare(c, r)
  \/ WillDisplay(c) \/ EndDisplaying(c) \/ Release(c)
  \/ \E p \in Posts : LookupReturns(c, p) \/ DownloadReturns(c, p) \/ DownloadFails(c, p)
  \/ AvatarReturns(c) \/ AssetFails(c)
  \/ ClipEnds(c) \/ Loop(c)

Next ==
  /\ crashed = Nil
  /\ \/ \E p \in Posts \ server : Posted(p)
     \/ SnapshotArrives \/ SnapshotFails \/ ReloadData \/ ScrollLatestClicked
     \/ \E c \in Cells : CellStep(c)

Spec == Init /\ [][Next]_vars

\* Firestore delivers a snapshot that is due, or ends the listener with an error; the
\* main queue runs what it is given, and Firebase ends every download, one way or the
\* other.
Fairness ==
  /\ WF_vars(crashed = Nil /\ docs \notin Ordered /\ (SnapshotArrives \/ SnapshotFails))
  /\ WF_vars(crashed = Nil /\ ReloadData)
  /\ \A c \in Cells, p \in Posts :
       WF_vars(crashed = Nil /\ (DownloadReturns(c, p) \/ DownloadFails(c, p)))

FairSpec == Spec /\ Fairness

-----------------------------------------------------------------------------
(* Properties *)

TypeOK ==
  /\ server \subseteq Posts
  /\ docs \in Seq(Posts) /\ rows \in 0 .. MaxPosts /\ reloads \in Nat
  /\ listening \in BOOLEAN
  /\ row \in [Cells -> Posts \cup {Nil}]
  /\ \A by \in {post, author, avatar, picture, video, fetching} :
       by \in [Cells -> Posts \cup {Nil}]
  /\ shown \subseteq Cells /\ playing \subseteq Cells /\ loops \subseteq Cells
  /\ lookups \in [Cells -> [Posts -> Nat]] /\ downloads \in [Cells -> [Posts -> Nat]]
  /\ cache \subseteq Posts
  /\ crashed \in {Nil, "lookup", "loop", "scroll", "asset"}
  /\ uses \in 0 .. MaxUses /\ late \in [Cells -> SUBSET Posts] /\ failed \subseteq Cells

\* A cell shows author, avatar and content of the post it was configured with, or of one
\* that had a callback or an avatar still to come when it was: nothing identifies the post
\* to a callback, clearing the avatar does not stop its load, and nothing older gets
\* through (PlayerCollectionViewCell.swift:28-37, 50-58, 90-113).
ShowsItsPost ==
  \A c \in Cells :
    {author[c], avatar[c], picture[c], video[c]} \subseteq {Nil, post[c]} \cup late[c]

\* The view never has a row without a document, so that the remainder in
\* docs[indexPath.row % docs.count] repeats no post; and once every reload has run, a
\* cell in a row was given the document of its row, and no two of them the same one
\* (FeedViewController.swift:33-42, 58-63).
RowsShowTheirDocuments ==
  /\ rows <= Len(docs)
  /\ reloads = 0 =>
       \A c \in Cells : row[c] # Nil =>
         /\ post[c] = docs[row[c]]
         /\ \A d \in Cells \ {c} : row[d] # Nil => post[d] # post[c]

\* Going to the latest post crashes on an empty feed, and between a snapshot and the
\* reload that it dispatched, and never else: no reload is lost between snapshots
\* (FeedViewController.swift:19-21, 33-42).
ScrollNeedsReload == crashed = "scroll" => docs = <<>> \/ reloads > 0

\* A clip plays in a cell that is not displayed only because its end was on its way
\* to the observer (FeedViewController.swift:65-73, PlayerCollectionViewCell.swift:79-82).
DisplayedOrLooping ==
  \A c \in Cells : c \in playing' \ playing => c \in shown' \cup loops

StartsOnDisplay == [][DisplayedOrLooping]_vars

\* Every post comes to the feed, unless the listener ended before it was delivered
\* (FeedViewController.swift:33-42).
FeedCatchesUp ==
  \A p \in Posts :
    p \in server ~>
      \/ \E r \in 1 .. rows : docs[r] = p
      \/ ~listening /\ \A i \in DOMAIN docs : docs[i] # p
      \/ crashed # Nil

\* The content of a post that has a cell is shown, or its download failed
\* (PlayerCollectionViewCell.swift:64-115).
ContentArrives ==
  \A c \in Cells, p \in Posts :
    (row[c] # Nil /\ post[c] = p) ~>
      \/ p \in {picture[c], video[c]}
      \/ row[c] = Nil \/ post[c] # p
      \/ c \in failed
      \/ crashed # Nil

\* The author of a displayed post is there, as snapshot!, gravatar! and as! assert
\* (PlayerCollectionViewCell.swift:55-58).
AuthorIsThere == crashed # "lookup"
=============================================================================
