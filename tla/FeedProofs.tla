----------------------------- MODULE FeedProofs -----------------------------
(***************************************************************************)
(* The safety of the feed, for any number of posts, cells and their uses.  *)
(* The inductive invariant has five parts: the rows and documents of the   *)
(* view; the rows of the cells; what the cells show, with the callbacks    *)
(* that may still change it; which callback accounts for what a cell does  *)
(* not show yet; and the types of the rest.                                *)
(***************************************************************************)
EXTENDS Feed, TLAPS, FiniteSetTheorems

ByCell == [Cells -> Posts \cup {Nil}]
Counts == [Cells -> [Posts -> Nat]]

CellTypes ==
  /\ row \in ByCell /\ post \in ByCell /\ author \in ByCell /\ avatar \in ByCell
  /\ picture \in ByCell /\ video \in ByCell /\ fetching \in ByCell
  /\ shown \subseteq Cells /\ playing \subseteq Cells /\ loops \subseteq Cells
  /\ lookups \in Counts /\ downloads \in Counts
  /\ cache \subseteq Posts
  /\ late \in [Cells -> SUBSET Posts] /\ failed \subseteq Cells
  /\ crashed \in {Nil, "lookup", "loop", "scroll", "asset"}

\* The documents are no more than there are posts, and the rows no more than the
\* documents, fewer only while a reload is dispatched.
View ==
  /\ server \subseteq Posts /\ listening \in BOOLEAN
  /\ docs \in Seq(Posts) /\ Len(docs) <= Cardinality(server)
  /\ rows \in Nat /\ rows <= Len(docs)
  /\ reloads \in Nat /\ (reloads = 0 => rows = Len(docs))

\* What a cell shows, or will be shown by a callback, is its post or known to be late.
Cell(c) ==
  /\ {author[c], avatar[c], picture[c], video[c]} \subseteq {Nil, post[c]} \cup late[c]
  /\ ToCome(c) \subseteq {post[c]} \cup late[c]

\* The documents are in the order of their dates; a displayed cell has a row; and a cell
\* with a row has it to itself, and was given that row's document unless a reload is
\* dispatched.
Rows ==
  /\ \A i, j \in DOMAIN docs : i < j => docs[i] < docs[j]
  /\ \A c \in shown : row[c] # Nil
  /\ \A c \in Cells : row[c] # Nil =>
       /\ row[c] \in 1 .. rows /\ post[c] # Nil
       /\ \A d \in Cells \ {c} : row[d] # row[c]
       /\ reloads = 0 => post[c] = docs[row[c]]

\* What a cell with a post does not show is still to come, has failed, or was the crash;
\* and a cell that plays has a player.
Accounted(c) ==
  /\ post[c] # Nil =>
       /\ lookups[c][post[c]] > 0 \/ author[c] # Nil \/ crashed = "lookup"
       /\ downloads[c][post[c]] > 0 \/ picture[c] # Nil \/ video[c] # Nil \/ c \in failed
  /\ c \in playing => video[c] # Nil

Uses == uses \in 0 .. MaxUses

IInv ==
  /\ CellTypes /\ View /\ Rows /\ ScrollNeedsReload /\ Uses
  /\ \A c \in Cells : Cell(c) /\ Accounted(c)

-----------------------------------------------------------------------------
(* Posts and rows *)

LEMMA PostsAreFinite ==
  \A S \in SUBSET Posts : /\ IsFiniteSet(S) /\ Cardinality(S) \in Nat
                          /\ Cardinality(S) <= MaxPosts
<1>1. IsFiniteSet(Posts) /\ Cardinality(Posts) = MaxPosts
  BY BoundAssumption, FS_Interval DEF Posts
<1> QED
  BY <1>1, FS_Subset, FS_CardinalityType

\* On rows that have documents, the remainder in docs[indexPath.row % docs.count] is of
\* no effect.
LEMMA RowHasPost ==
  ASSUME View, NEW r \in 1 .. rows
  PROVE  DocOf(r) = docs[r] /\ DocOf(r) \in Posts
<1>1. Len(docs) \in Nat /\ r \in 1 .. Len(docs)
  BY DEF View
<1>2. 1 + ((r - 1) % Len(docs)) = r
  BY <1>1
<1> QED
  BY <1>1, <1>2 DEF View, DocOf

\* A snapshot has a document for every post.
LEMMA SnapshotLength ==
  ASSUME server \subseteq Posts, NEW s \in Ordered
  PROVE  s \in Seq(Posts) /\ Len(s) = Cardinality(server)
<1>1. Cardinality(server) \in Nat
  BY PostsAreFinite
<1>2. s \in [1 .. Cardinality(server) -> Posts]
  BY DEF Ordered
<1> QED
  BY <1>1, <1>2

LEMMA ViewStep == View /\ [Next]_vars => View'
<1> SUFFICES ASSUME View, [Next]_vars PROVE View'
  OBVIOUS
<1>1. ASSUME NEW p \in Posts, Posted(p) PROVE View'
  <2>1. server' \subseteq Posts /\ server \subseteq server'
    BY <1>1 DEF Posted, View
  <2>2. /\ Cardinality(server) \in Nat /\ Cardinality(server') \in Nat
        /\ Cardinality(server) <= Cardinality(server')
    BY <2>1, PostsAreFinite, FS_Subset
  <2>3. UNCHANGED <<docs, listening, rows, reloads>>
    BY <1>1 DEF Posted
  <2>4. Len(docs) \in Nat
    BY DEF View
  <2> QED
    BY <2>1, <2>2, <2>3, <2>4 DEF View
<1>2. CASE SnapshotArrives
  <2>1. /\ docs' \in Seq(Posts) /\ Len(docs') = Cardinality(server)
        /\ reloads' = reloads + 1 /\ UNCHANGED <<server, listening, rows>>
    BY <1>2, SnapshotLength DEF SnapshotArrives, Dispatched, View
  <2>2. Cardinality(server) \in Nat /\ Len(docs) \in Nat
    BY PostsAreFinite DEF View
  <2> QED
    BY <2>1, <2>2 DEF View
<1>3. CASE ReloadData
  <2>1. Len(docs) \in Nat
    BY DEF View
  <2> QED
    BY <1>3, <2>1 DEF ReloadData, RowCount, View
<1>4. CASE UNCHANGED feed
  BY <1>4 DEF feed, View
<1>5. ASSUME NEW c \in Cells, CellStep(c) PROVE UNCHANGED feed
  BY <1>5 DEF CellStep, Prepare, WillDisplay, EndDisplaying, Release, LookupReturns,
     AvatarReturns, DownloadReturns, DownloadFails, AssetFails, ClipEnds, Loop
<1>6. CASE SnapshotFails
  BY <1>6 DEF SnapshotFails, View
<1> QED
  BY <1>1, <1>2, <1>3, <1>4, <1>5, <1>6 DEF Next, ScrollLatestClicked, vars, feed

\* Between snapshots no reload is lost, and nothing goes on after the crash.
LEMMA ScrollStep ==
  View /\ ScrollNeedsReload /\ [Next]_vars => ScrollNeedsReload'
<1> SUFFICES ASSUME View, ScrollNeedsReload, [Next]_vars, crashed' = "scroll"
             PROVE  docs' = <<>> \/ reloads' > 0
  BY DEF ScrollNeedsReload
<1>1. CASE ScrollLatestClicked
  <2>1. /\ Len(docs) \notin 1 .. rows /\ UNCHANGED <<docs, reloads>>
        /\ Len(docs) \in Nat
    BY <1>1 DEF ScrollLatestClicked, feed, View
  <2>2. CASE reloads = 0
    <3>1. Len(docs) = 0
      BY <2>1, <2>2 DEF View
    <3> QED
      BY <2>1, <3>1 DEF View
  <2>3. CASE reloads # 0
    BY <2>1, <2>3 DEF View
  <2> QED
    BY <2>2, <2>3
<1>2. CASE Next /\ crashed' = crashed
  <2>1. crashed = Nil /\ crashed = "scroll"
    BY <1>2 DEF Next
  <2> QED
    BY <2>1, NilAssumption
<1>3. CASE UNCHANGED vars
  BY <1>3 DEF vars, ScrollNeedsReload
<1>4. CASE crashed' \in {"lookup", "loop", "asset"}
  BY <1>4
<1>5. ASSUME NEW c \in Cells, CellStep(c)
      PROVE  crashed' = crashed \/ crashed' \in {"lookup", "loop", "asset"}
  BY <1>5 DEF CellStep, Prepare, WillDisplay, EndDisplaying, Release, LookupReturns,
     AvatarReturns, DownloadReturns, DownloadFails, AssetFails, ClipEnds, Loop
<1>6. Next => \/ crashed' = crashed \/ crashed' \in {"lookup", "loop", "asset"}
              \/ ScrollLatestClicked
  BY <1>5 DEF Next, Posted, SnapshotArrives, SnapshotFails, ReloadData
<1> QED
  BY <1>1, <1>2, <1>3, <1>4, <1>6

-----------------------------------------------------------------------------
(* Cells *)

\* The step of cellForItemAt, spelled out by cell.
LEMMA Prepared ==
  ASSUME CellTypes, View, NEW c \in Cells, NEW r \in Posts, Prepare(c, r)
  PROVE  \E p \in Posts :
           /\ post' = [post EXCEPT ![c] = p]
           /\ author' = [author EXCEPT ![c] = Nil]
           /\ avatar' = [avatar EXCEPT ![c] = Nil]
           /\ \E q \in {p, Nil} : picture' = [picture EXCEPT ![c] = q]
           /\ \E q \in {p, Nil} : video' = [video EXCEPT ![c] = q]
           /\ lookups' = [lookups EXCEPT ![c][p] = @ + 1]
           /\ downloads' = downloads \/ downloads' = [downloads EXCEPT ![c][p] = @ + 1]
           /\ late' = [late EXCEPT ![c] = ToCome(c)]
           /\ failed' = failed \ {c}
           /\ row' = [row EXCEPT ![c] = r]
           /\ UNCHANGED <<fetching, shown>> /\ playing' = playing \ {c}
<1> DEFINE p == DocOf(r)
<1>1. p \in Posts
  BY RowHasPost DEF Prepare, Made
<1>2. Configure(c, p) /\ row' = [row EXCEPT ![c] = r] /\ UNCHANGED shown
  BY DEF Prepare
<1> HIDE DEF p
<1>3. /\ post' = [post EXCEPT ![c] = p]
      /\ author' = [author EXCEPT ![c] = Nil]
      /\ avatar' = [avatar EXCEPT ![c] = Nil]
      /\ lookups' = [lookups EXCEPT ![c][p] = @ + 1]
      /\ downloads' = downloads \/ downloads' = [downloads EXCEPT ![c][p] = @ + 1]
      /\ late' = [late EXCEPT ![c] = ToCome(c)]
      /\ failed' = failed \ {c}
      /\ UNCHANGED fetching /\ playing' = playing \ {c}
  BY <1>2 DEF Configure, Emptied
<1>4. /\ \E q \in {p, Nil} : picture' = [picture EXCEPT ![c] = q]
      /\ \E q \in {p, Nil} : video' = [video EXCEPT ![c] = q]
  BY <1>2 DEF Configure, Retrieved
<1> QED
  BY <1>1, <1>2, <1>3, <1>4

\* Counting a callback more or less.
LEMMA CountsChange ==
  ASSUME NEW calls \in Counts, NEW c \in Cells, NEW p \in Posts
  PROVE  /\ [calls EXCEPT ![c][p] = @ + 1] \in Counts
         /\ calls[c][p] > 0 => [calls EXCEPT ![c][p] = @ - 1] \in Counts
<1>1. calls[c] \in [Posts -> Nat] /\ calls[c][p] \in Nat
  BY DEF Counts
<1>2. [calls[c] EXCEPT ![p] = @ + 1] \in [Posts -> Nat]
  BY <1>1
<1>3. calls[c][p] > 0 => [calls[c] EXCEPT ![p] = @ - 1] \in [Posts -> Nat]
  BY <1>1
<1> QED
  BY <1>2, <1>3 DEF Counts

\* A callback that is to come, and what is to come when it has come.
LEMMA ToComeCounts ==
  ASSUME CellTypes, NEW c \in Cells, NEW p \in Posts
  PROVE  /\ lookups[c][p] > 0 \/ downloads[c][p] > 0 => p \in ToCome(c)
         /\ \A d \in Cells :
              (/\ lookups' = lookups \/ lookups' = [lookups EXCEPT ![c][p] = @ - 1]
               /\ downloads' = downloads \/ downloads' = [downloads EXCEPT ![c][p] = @ - 1]
               /\ \/ fetching' = fetching
                  \/ p \in ToCome(c) /\ fetching' = [fetching EXCEPT ![c] = p])
              => ToCome(d)' \subseteq ToCome(d)
<1> USE DEF CellTypes, Counts
<1>1. \A d \in Cells, q \in Posts : lookups[d][q] \in Nat /\ downloads[d][q] \in Nat
  OBVIOUS
<1>2. lookups[c][p] > 0 \/ downloads[c][p] > 0 => p \in ToCome(c)
  BY <1>1 DEF ToCome
<1>3. ASSUME NEW d \in Cells,
             lookups' = lookups \/ lookups' = [lookups EXCEPT ![c][p] = @ - 1],
             downloads' = downloads \/ downloads' = [downloads EXCEPT ![c][p] = @ - 1],
             \/ fetching' = fetching
             \/ p \in ToCome(c) /\ fetching' = [fetching EXCEPT ![c] = p]
      PROVE  ToCome(d)' \subseteq ToCome(d)
  <2>1. ASSUME NEW q \in Posts
        PROVE  /\ lookups'[d][q] = lookups[d][q] \/ lookups'[d][q] = lookups[d][q] - 1
               /\ downloads'[d][q] = downloads[d][q] \/ downloads'[d][q] = downloads[d][q] - 1
    BY <1>3
  <2>2. ASSUME NEW q \in Posts, lookups'[d][q] + downloads'[d][q] > 0
        PROVE  lookups[d][q] + downloads[d][q] > 0
    BY <1>1, <2>1, <2>2
  <2>3. ASSUME NEW q \in Posts, fetching'[d] = q PROVE q \in ToCome(d)
    <3>1. CASE fetching'[d] = fetching[d]
      BY <2>3, <3>1 DEF ToCome
    <3>2. CASE fetching'[d] # fetching[d]
      BY <1>3, <2>3, <3>2 DEF ByCell
    <3> QED
      BY <3>1, <3>2
  <2> QED
    BY <2>2, <2>3 DEF ToCome
<1> QED
  BY <1>2, <1>3

LEMMA CellTypesStep == CellTypes /\ View /\ [Next]_vars => CellTypes'
<1> SUFFICES ASSUME CellTypes, View, [Next]_vars PROVE CellTypes'
  OBVIOUS
<1> USE DEF CellTypes, ByCell, place, look, pending, history
<1>1. ASSUME NEW p \in Posts, Posted(p) PROVE CellTypes'
  BY <1>1 DEF Posted
<1>2. CASE SnapshotArrives \/ SnapshotFails
  BY <1>2 DEF SnapshotArrives, SnapshotFails
<1>3. CASE ReloadData
  BY <1>3 DEF ReloadData
<1>4. CASE ScrollLatestClicked
  BY <1>4 DEF ScrollLatestClicked
<1>5. ASSUME NEW c \in Cells, NEW r \in Posts, Prepare(c, r) PROVE CellTypes'
  <2>1. PICK p \in Posts :
           /\ post' = [post EXCEPT ![c] = p]
           /\ author' = [author EXCEPT ![c] = Nil]
           /\ avatar' = [avatar EXCEPT ![c] = Nil]
           /\ \E q \in {p, Nil} : picture' = [picture EXCEPT ![c] = q]
           /\ \E q \in {p, Nil} : video' = [video EXCEPT ![c] = q]
           /\ lookups' = [lookups EXCEPT ![c][p] = @ + 1]
           /\ downloads' = downloads \/ downloads' = [downloads EXCEPT ![c][p] = @ + 1]
           /\ late' = [late EXCEPT ![c] = ToCome(c)]
           /\ failed' = failed \ {c}
           /\ row' = [row EXCEPT ![c] = r]
           /\ UNCHANGED <<fetching, shown>> /\ playing' = playing \ {c}
    BY <1>5, Prepared
  <2>a. lookups \in Counts /\ downloads \in Counts
    OBVIOUS
  <2>b. /\ [lookups EXCEPT ![c][p] = @ + 1] \in Counts
        /\ [downloads EXCEPT ![c][p] = @ + 1] \in Counts
    BY <2>a, CountsChange
  <2>2. lookups' \in Counts /\ downloads' \in Counts
    BY <2>1, <2>a, <2>b
  <2>3. late' \in [Cells -> SUBSET Posts]
    BY <2>1 DEF ToCome
  <2>4. UNCHANGED <<loops, cache, crashed>>
    BY <1>5 DEF Prepare
  <2> QED
    BY <2>1, <2>2, <2>3, <2>4
<1>6. ASSUME NEW c \in Cells, WillDisplay(c) \/ EndDisplaying(c) \/ Release(c)
      PROVE  CellTypes'
  BY <1>6 DEF WillDisplay, EndDisplaying, Release
<1>11. ASSUME NEW c \in Cells, AssetFails(c) \/ ClipEnds(c) \/ Loop(c) PROVE CellTypes'
  BY <1>11 DEF AssetFails, ClipEnds, Loop
<1>7. ASSUME NEW c \in Cells, NEW p \in Posts, LookupReturns(c, p) PROVE CellTypes'
  <2>1. lookups' \in Counts
    BY <1>7, CountsChange DEF LookupReturns
  <2>2. author' \in ByCell /\ avatar' \in ByCell /\ fetching' \in ByCell
    BY <1>7 DEF LookupReturns, LoadAvatar
  <2>3. crashed' \in {Nil, "lookup", "loop", "scroll", "asset"}
    BY <1>7 DEF LookupReturns
  <2> QED
    BY <1>7, <2>1, <2>2, <2>3 DEF LookupReturns
<1>12. ASSUME NEW c \in Cells, AvatarReturns(c) PROVE CellTypes'
  BY <1>12 DEF AvatarReturns
<1>8. ASSUME NEW c \in Cells, NEW p \in Posts, DownloadReturns(c, p) PROVE CellTypes'
  <2>1. downloads' \in Counts
    BY <1>8, CountsChange DEF DownloadReturns
  <2>2. /\ video' \in ByCell /\ picture' \in ByCell
        /\ playing' \subseteq Cells /\ cache' \subseteq Posts
    BY <1>8 DEF DownloadReturns, Started
  <2> QED
    BY <1>8, <2>1, <2>2 DEF DownloadReturns
<1>10. ASSUME NEW c \in Cells, NEW p \in Posts, DownloadFails(c, p) PROVE CellTypes'
  <2>1. downloads' \in Counts
    BY <1>10, CountsChange DEF DownloadFails
  <2> QED
    BY <1>10, <2>1 DEF DownloadFails
<1>9. CASE UNCHANGED vars
  BY <1>9 DEF vars
<1> QED
  BY <1>1, <1>2, <1>3, <1>4, <1>5, <1>6, <1>7, <1>8, <1>9, <1>10, <1>11, <1>12
  DEF Next, CellStep

LEMMA CellsStep ==
  ASSUME CellTypes, View, \A c \in Cells : Cell(c), [Next]_vars
  PROVE  \A c \in Cells : Cell(c)'
<1> SUFFICES ASSUME NEW d \in Cells PROVE Cell(d)'
  OBVIOUS
<1> USE DEF CellTypes, ByCell, Counts
<1>a. CASE UNCHANGED <<post, look, pending, late>>
  BY <1>a DEF look, pending, Cell, ToCome
<1>1. ASSUME NEW c \in Cells, NEW r \in Posts, Prepare(c, r) PROVE Cell(d)'
  <2>1. PICK p \in Posts :
           /\ post' = [post EXCEPT ![c] = p]
           /\ author' = [author EXCEPT ![c] = Nil]
           /\ avatar' = [avatar EXCEPT ![c] = Nil]
           /\ \E q \in {p, Nil} : picture' = [picture EXCEPT ![c] = q]
           /\ \E q \in {p, Nil} : video' = [video EXCEPT ![c] = q]
           /\ lookups' = [lookups EXCEPT ![c][p] = @ + 1]
           /\ downloads' = downloads \/ downloads' = [downloads EXCEPT ![c][p] = @ + 1]
           /\ late' = [late EXCEPT ![c] = ToCome(c)]
           /\ UNCHANGED fetching
    BY <1>1, Prepared
  <2>2. CASE d = c
    <3>1. post'[c] = p /\ late'[c] = ToCome(c)
      BY <2>1
    <3>2. {author'[c], avatar'[c], picture'[c], video'[c]} \subseteq {Nil, p}
      BY <2>1
    <3>3. \A q \in Posts \ {p} : lookups'[c][q] = lookups[c][q] /\ downloads'[c][q] = downloads[c][q]
      BY <2>1
    <3>4. ToCome(c)' \subseteq ToCome(c) \cup {p}
      BY <2>1, <3>3 DEF ToCome
    <3> QED
      BY <2>2, <3>1, <3>2, <3>4 DEF Cell
  <2>3. CASE d # c
    <3>1. /\ post'[d] = post[d] /\ author'[d] = author[d] /\ avatar'[d] = avatar[d]
          /\ picture'[d] = picture[d] /\ video'[d] = video[d] /\ late'[d] = late[d]
          /\ lookups'[d] = lookups[d] /\ downloads'[d] = downloads[d]
          /\ fetching'[d] = fetching[d]
      BY <2>1, <2>3
    <3> QED
      BY <3>1 DEF Cell, ToCome
  <2> QED
    BY <2>2, <2>3
<1>2. ASSUME NEW c \in Cells, NEW p \in Posts, LookupReturns(c, p) PROVE Cell(d)'
  <2>1. /\ p \in ToCome(c)
        /\ author' = [author EXCEPT ![c] = p] \/ UNCHANGED author
        /\ avatar' = [avatar EXCEPT ![c] = Nil] \/ UNCHANGED avatar
        /\ fetching' = [fetching EXCEPT ![c] = p] \/ UNCHANGED fetching
        /\ UNCHANGED <<post, picture, video, downloads, late>>
    BY <1>2, ToComeCounts DEF LookupReturns, LoadAvatar, history
  <2>2. ToCome(d)' \subseteq ToCome(d)
    BY <1>2, <2>1, ToComeCounts DEF LookupReturns
  <2>3. post'[d] = post[d] /\ late'[d] = late[d]
    BY <2>1
  <2>4. {author'[d], avatar'[d], picture'[d], video'[d]}
          \subseteq {author[d], avatar[d], picture[d], video[d], Nil} \cup ToCome(d)
    <3>1. author'[d] = author[d] \/ author'[d] \in ToCome(d)
      BY <2>1
    <3>2. avatar'[d] = avatar[d] \/ avatar'[d] = Nil
      BY <2>1
    <3> QED
      BY <2>1, <3>1, <3>2
  <2> QED
    BY <2>2, <2>3, <2>4 DEF Cell
<1>3. ASSUME NEW c \in Cells, NEW p \in Posts, DownloadReturns(c, p) \/ DownloadFails(c, p)
      PROVE  Cell(d)'
  <2>1. /\ p \in ToCome(c)
        /\ picture' = [picture EXCEPT ![c] = p] \/ UNCHANGED picture
        /\ video' = [video EXCEPT ![c] = p] \/ UNCHANGED video
        /\ UNCHANGED <<post, author, avatar, fetching, lookups, late>>
    BY <1>3, ToComeCounts DEF DownloadReturns, DownloadFails, history, look
  <2>2. ToCome(d)' \subseteq ToCome(d)
    BY <1>3, <2>1, ToComeCounts DEF DownloadReturns, DownloadFails
  <2>3. post'[d] = post[d] /\ late'[d] = late[d]
    BY <2>1
  <2>4. {author'[d], avatar'[d], picture'[d], video'[d]}
          \subseteq {author[d], avatar[d], picture[d], video[d]} \cup ToCome(d)
    <3>1. picture'[d] = picture[d] \/ picture'[d] \in ToCome(d)
      BY <2>1
    <3>2. video'[d] = video[d] \/ video'[d] \in ToCome(d)
      BY <2>1
    <3> QED
      BY <2>1, <3>1, <3>2
  <2> QED
    BY <2>2, <2>3, <2>4 DEF Cell
<1>7. ASSUME NEW c \in Cells, AvatarReturns(c) PROVE Cell(d)'
  <2>1. /\ fetching[c] \in ToCome(c)
        /\ fetching' = [fetching EXCEPT ![c] = Nil]
        /\ avatar' = [avatar EXCEPT ![c] = fetching[c]] \/ UNCHANGED avatar
        /\ UNCHANGED <<post, author, picture, video, lookups, downloads, late>>
    BY <1>7 DEF AvatarReturns, ToCome, history
  <2>2. fetching'[d] \in {fetching[d], Nil}
    BY <2>1
  <2>3. ToCome(d)' \subseteq ToCome(d)
    BY <2>1, <2>2, NilAssumption DEF ToCome, Posts
  <2> QED
    BY <2>1, <2>3 DEF Cell
<1>4. ASSUME NEW c \in Cells, \/ WillDisplay(c) \/ EndDisplaying(c) \/ Release(c)
                             \/ AssetFails(c) \/ ClipEnds(c) \/ Loop(c)
      PROVE  UNCHANGED <<post, look, pending, late>>
  BY <1>4 DEF WillDisplay, EndDisplaying, Release, AssetFails, ClipEnds, Loop, history
<1>5. ASSUME NEW p \in Posts, Posted(p)
      PROVE  UNCHANGED <<post, look, pending, late>>
  BY <1>5 DEF Posted, history
<1>6. CASE \/ SnapshotArrives \/ SnapshotFails \/ ReloadData \/ ScrollLatestClicked
           \/ UNCHANGED vars
  BY <1>6, <1>a DEF SnapshotArrives, SnapshotFails, ReloadData, ScrollLatestClicked, history,
     vars, look, pending
<1> QED
  BY <1>a, <1>1, <1>2, <1>3, <1>4, <1>5, <1>6, <1>7 DEF Next, CellStep

LEMMA RowsStep ==
  ASSUME CellTypes, View, Rows, [Next]_vars
  PROVE  Rows'
<1> USE DEF Rows
<1>a. CASE UNCHANGED <<docs, reloads, rows, row, post, shown>>
  BY <1>a
<1>1. CASE SnapshotArrives
  <2>1. \A i, j \in DOMAIN docs' : i < j => docs'[i] < docs'[j]
    BY <1>1 DEF SnapshotArrives, Ordered
  <2>2. reloads' # 0 /\ UNCHANGED <<rows, row, post, shown>>
    BY <1>1 DEF SnapshotArrives, Dispatched, View, place
  <2> QED
    BY <2>1, <2>2
<1>2. CASE ReloadData
  BY <1>2 DEF ReloadData
<1>3. ASSUME NEW c \in Cells, NEW r \in Posts, Prepare(c, r) PROVE Rows'
  <2> DEFINE p == DocOf(r)
  <2>1. /\ UNCHANGED <<feed, shown>> /\ r \in 1 .. rows /\ \A d \in Cells : row[d] # r
        /\ row' = [row EXCEPT ![c] = r] /\ post' = [post EXCEPT ![c] = p]
    BY <1>3 DEF Prepare, Made, Configure
  <2>2. p = docs[r] /\ p \in Posts /\ p # Nil
    BY <2>1, RowHasPost, NilAssumption DEF Posts
  <2> HIDE DEF p
  <2>3. /\ row'[c] = r /\ post'[c] = p /\ r # Nil
        /\ \A d \in Cells \ {c} : row'[d] = row[d] /\ post'[d] = post[d]
    BY <2>1, NilAssumption DEF CellTypes, ByCell, Posts
  <2> QED
    BY <2>1, <2>2, <2>3 DEF feed, CellTypes
<1>4. ASSUME NEW c \in Cells, Release(c) PROVE Rows'
  <2>1. UNCHANGED <<feed, shown, post>> /\ row' = [row EXCEPT ![c] = Nil] /\ c \notin shown
    BY <1>4 DEF Release
  <2>2. row'[c] = Nil /\ \A d \in Cells \ {c} : row'[d] = row[d]
    BY <2>1 DEF CellTypes, ByCell
  <2> QED
    BY <2>1, <2>2 DEF feed, CellTypes
<1>7. ASSUME NEW c \in Cells, WillDisplay(c) \/ EndDisplaying(c) PROVE Rows'
  <2>1. UNCHANGED <<docs, reloads, rows, row, post>> /\ \A d \in shown' : row[d] # Nil
    BY <1>7 DEF WillDisplay, EndDisplaying, feed
  <2> QED
    BY <2>1
<1>5. ASSUME NEW c \in Cells, \/ \E p \in Posts : \/ LookupReturns(c, p)
                                                \/ DownloadReturns(c, p)
                                                \/ DownloadFails(c, p)
                             \/ AvatarReturns(c) \/ AssetFails(c) \/ ClipEnds(c) \/ Loop(c)
      PROVE  UNCHANGED <<docs, reloads, rows, row, post, shown>>
  BY <1>5 DEF LookupReturns, AvatarReturns, DownloadReturns, DownloadFails, AssetFails,
     ClipEnds, Loop, feed, place
<1>6. CASE \/ \E p \in Posts : Posted(p)
           \/ SnapshotFails \/ ScrollLatestClicked \/ UNCHANGED vars
  BY <1>6, <1>a DEF Posted, SnapshotFails, ScrollLatestClicked, vars, feed, place
<1> QED
  BY <1>a, <1>1, <1>2, <1>3, <1>4, <1>5, <1>6, <1>7 DEF Next, CellStep

\* Nothing takes away what a cell shows but its next use, and that asks for it anew.
LEMMA AccountedStep ==
  ASSUME CellTypes, View, Rows, \A c \in Cells : Accounted(c), [Next]_vars
  PROVE  \A c \in Cells : Accounted(c)'
<1> SUFFICES ASSUME NEW d \in Cells PROVE Accounted(d)'
  OBVIOUS
<1> USE DEF CellTypes, ByCell, Counts
<1> DEFINE kept == <<post, author, picture, video, lookups, downloads, failed, crashed>>
<1>a. CASE UNCHANGED kept /\ playing' \subseteq playing
  BY <1>a DEF Accounted
<1>1. ASSUME NEW c \in Cells, NEW r \in Posts, Prepare(c, r) PROVE Accounted(d)'
  <2> DEFINE p == DocOf(r)
  <2>1. Configure(c, p) /\ UNCHANGED <<cache, crashed>> /\ playing' = playing \ {c}
    BY <1>1 DEF Prepare, Configure
  <2>2. p \in Posts
    BY <1>1, RowHasPost DEF Prepare, Made
  <2> HIDE DEF p
  <2>3. /\ post' = [post EXCEPT ![c] = p] /\ author' = [author EXCEPT ![c] = Nil]
        /\ picture' = [picture EXCEPT ![c] = Retrieved(p, Posts \ Clips)]
        /\ video' = [video EXCEPT ![c] = Retrieved(p, Clips)]
        /\ lookups' = [lookups EXCEPT ![c][p] = @ + 1]
        /\ downloads' = IF p \in cache THEN downloads ELSE [downloads EXCEPT ![c][p] = @ + 1]
        /\ failed' = failed \ {c}
    BY <2>1 DEF Configure, Emptied
  <2>4. CASE d # c
    <3>1. /\ post'[d] = post[d] /\ author'[d] = author[d] /\ picture'[d] = picture[d]
          /\ video'[d] = video[d] /\ lookups'[d] = lookups[d] /\ downloads'[d] = downloads[d]
      BY <2>3, <2>4
    <3>2. (d \in failed' <=> d \in failed) /\ (d \in playing' <=> d \in playing)
      BY <2>1, <2>3, <2>4
    <3> QED
      BY <2>1, <3>1, <3>2 DEF Accounted
  <2>5. CASE d = c
    <3>1. post'[c] = p /\ lookups'[c][p] > 0
      BY <2>2, <2>3
    <3>2. CASE p \in cache
      <4>1. Retrieved(p, Clips) = p \/ Retrieved(p, Posts \ Clips) = p
        BY <2>2, <3>2 DEF Retrieved
      <4>2. picture'[c] = p \/ video'[c] = p
        BY <2>3, <4>1
      <4> QED
        BY <2>1, <2>2, <2>5, <3>1, <4>2, NilAssumption DEF Accounted, Posts
    <3>3. CASE p \notin cache
      <4>1. downloads'[c][p] > 0
        BY <2>2, <2>3, <3>3
      <4> QED
        BY <2>1, <2>5, <3>1, <4>1 DEF Accounted
    <3> QED
      BY <3>2, <3>3
  <2> QED
    BY <2>4, <2>5
<1>2. ASSUME NEW c \in Cells, NEW p \in Posts, LookupReturns(c, p) PROVE Accounted(d)'
  <2>1. /\ lookups' = [lookups EXCEPT ![c][p] = @ - 1]
        /\ \/ author' = [author EXCEPT ![c] = p] /\ UNCHANGED crashed
           \/ crashed' = "lookup" /\ UNCHANGED author
        /\ UNCHANGED <<post, picture, video, downloads, failed, playing>>
    BY <1>2 DEF LookupReturns, history
  <2>2. d # c => lookups'[d] = lookups[d] /\ author'[d] = author[d]
    BY <2>1
  <2>3. p # Nil
    BY NilAssumption DEF Posts
  <2>4. CASE d = c
    <3>1. author'[c] # Nil \/ crashed' = "lookup"
      BY <2>1, <2>3
    <3> QED
      BY <2>1, <2>4, <3>1 DEF Accounted
  <2>5. CASE d # c
    <3>1. crashed' = crashed \/ crashed' = "lookup"
      BY <2>1
    <3> QED
      BY <2>1, <2>2, <2>5, <3>1 DEF Accounted
  <2> QED
    BY <2>4, <2>5
<1>3. ASSUME NEW c \in Cells, NEW p \in Posts, DownloadReturns(c, p) PROVE Accounted(d)'
  <2>1. /\ downloads' = [downloads EXCEPT ![c][p] = @ - 1]
        /\ \/ video' = [video EXCEPT ![c] = p] /\ UNCHANGED picture /\ playing' = playing \ {c}
           \/ picture' = [picture EXCEPT ![c] = p] /\ UNCHANGED <<video, playing>>
        /\ UNCHANGED <<post, author, lookups, failed, crashed>>
    BY <1>3 DEF DownloadReturns, Started, history
  <2>2. p # Nil
    BY NilAssumption DEF Posts
  <2>3. CASE d = c
    <3>1. picture'[c] # Nil \/ video'[c] # Nil
      BY <2>1, <2>2
    <3>2. c \in playing' => video'[c] # Nil
      BY <2>1, <2>3 DEF Accounted
    <3> QED
      BY <2>1, <2>3, <3>1, <3>2 DEF Accounted
  <2>4. CASE d # c
    <3>1. /\ downloads'[d] = downloads[d] /\ video'[d] = video[d] /\ picture'[d] = picture[d]
          /\ d \in playing' => d \in playing
      BY <2>1, <2>4
    <3> QED
      BY <2>1, <3>1 DEF Accounted
  <2> QED
    BY <2>3, <2>4
<1>4. ASSUME NEW c \in Cells, NEW p \in Posts, DownloadFails(c, p) PROVE Accounted(d)'
  <2>1. /\ downloads' = [downloads EXCEPT ![c][p] = @ - 1]
        /\ failed' = IF post[c] = p THEN failed \cup {c} ELSE failed
        /\ UNCHANGED <<post, look, playing, lookups, crashed>>
    BY <1>4 DEF DownloadFails
  <2>2. CASE d = c /\ post[c] = p
    BY <2>1, <2>2 DEF Accounted, look
  <2>3. CASE d # c \/ post[c] # p
    <3>1. post[d] \in Posts => downloads'[d][post[d]] = downloads[d][post[d]]
      BY <2>1, <2>3
    <3> QED
      BY <2>1, <3>1 DEF Accounted, look
  <2> QED
    BY <2>2, <2>3
<1>b. Next => crashed # "lookup"
  BY NilAssumption DEF Next
<1>5. ASSUME Next, NEW c \in Cells, Loop(c) PROVE Accounted(d)'
  <2>1. UNCHANGED <<post, look, lookups, downloads, failed>>
    BY <1>5 DEF Loop, history, pending
  <2>2. d \in playing' => d \in playing \/ (d = c /\ video[c] # Nil)
    BY <1>5 DEF Loop
  <2> QED
    BY <1>5, <1>b, <2>1, <2>2 DEF Accounted, look
<1>6. ASSUME NEW c \in Cells, EndDisplaying(c) \/ Release(c) \/ ClipEnds(c) \/ AvatarReturns(c)
      PROVE  UNCHANGED kept /\ playing' \subseteq playing
  BY <1>6 DEF EndDisplaying, Release, ClipEnds, AvatarReturns, history, look, pending
<1>10. ASSUME NEW c \in Cells, WillDisplay(c) PROVE Accounted(d)'
  <2>1. UNCHANGED kept
    BY <1>10 DEF WillDisplay, history, look, pending
  <2>2. d \in playing' => d \in playing \/ (d = c /\ video[c] # Nil)
    BY <1>10 DEF WillDisplay
  <2> QED
    BY <2>1, <2>2 DEF Accounted
<1>11. ASSUME Next, NEW c \in Cells, AssetFails(c) PROVE Accounted(d)'
  <2>1. UNCHANGED <<post, look, playing, lookups, downloads, failed>>
    BY <1>11 DEF AssetFails, history, pending
  <2> QED
    BY <1>11, <1>b, <2>1 DEF Accounted, look
<1>7. ASSUME NEW p \in Posts, Posted(p)
      PROVE  UNCHANGED <<kept, playing>>
  BY <1>7 DEF Posted, history, look, pending
<1>8. CASE SnapshotArrives \/ SnapshotFails \/ ReloadData \/ UNCHANGED vars
  BY <1>8, <1>a DEF SnapshotArrives, SnapshotFails, ReloadData, history, vars, look, pending
<1>9. CASE Next /\ ScrollLatestClicked
  <2>1. UNCHANGED <<post, look, playing, lookups, downloads, failed>>
    BY <1>9 DEF ScrollLatestClicked, history, pending
  <2> QED
    BY <1>9, <1>b, <2>1 DEF Accounted, look
<1> QED
  BY <1>a, <1>1, <1>2, <1>3, <1>4, <1>5, <1>6, <1>7, <1>8, <1>9, <1>10, <1>11
  DEF Next, CellStep

LEMMA UsesStep == Uses /\ [Next]_vars => Uses'
<1> SUFFICES ASSUME Uses, [Next]_vars PROVE Uses'
  OBVIOUS
<1>1. ASSUME NEW c \in Cells, NEW r \in Posts, Prepare(c, r) PROVE Uses'
  BY <1>1, BoundAssumption DEF Prepare, Made, Uses
<1>2. CASE UNCHANGED uses
  BY <1>2 DEF Uses
<1>3. ASSUME NEW c \in Cells, CellStep(c), \A r \in Posts : ~Prepare(c, r)
      PROVE  UNCHANGED uses
  BY <1>3 DEF CellStep, WillDisplay, EndDisplaying, Release, LookupReturns, AvatarReturns,
     DownloadReturns, DownloadFails, AssetFails, ClipEnds, Loop, history
<1>4. CASE \/ \E p \in Posts : Posted(p)
           \/ SnapshotArrives \/ SnapshotFails \/ ReloadData \/ ScrollLatestClicked
           \/ UNCHANGED vars
  BY <1>4, <1>2 DEF Posted, SnapshotArrives, SnapshotFails, ReloadData, ScrollLatestClicked,
     history, vars
<1> QED
  BY <1>1, <1>2, <1>3, <1>4 DEF Next

-----------------------------------------------------------------------------
(* The theorems *)

LEMMA Initially == Init => IInv
<1> SUFFICES ASSUME Init PROVE IInv
  OBVIOUS
<1> USE DEF Init
<1>1. CellTypes
  BY DEF CellTypes, ByCell, Counts
<1>2. View
  <2>1. Cardinality({}) \in Nat
    BY PostsAreFinite
  <2>2. <<>> \in Seq(Posts) /\ Len(<<>>) = 0
    OBVIOUS
  <2> QED
    BY <2>1, <2>2 DEF View
<1>3. ScrollNeedsReload
  BY DEF ScrollNeedsReload
<1>4. Uses
  BY BoundAssumption DEF Uses
<1>5. \A c \in Cells : Cell(c) /\ Accounted(c)
  BY DEF Cell, Accounted, ToCome
<1>6. Rows
  BY DEF Rows
<1> QED
  BY <1>1, <1>2, <1>3, <1>4, <1>5, <1>6 DEF IInv

LEMMA Inductive == Spec => []IInv
<1>1. IInv /\ [Next]_vars => IInv'
  BY CellTypesStep, ViewStep, ScrollStep, UsesStep, CellsStep, RowsStep,
     AccountedStep DEF IInv
<1> QED
  BY <1>1, Initially, PTL DEF Spec

\* The feed keeps its types.
THEOREM FeedTypes == Spec => []TypeOK
<1>1. IInv => TypeOK
  <2> SUFFICES ASSUME IInv PROVE TypeOK
    OBVIOUS
  <2>1. rows \in 0 .. MaxPosts
    <3>1. Cardinality(server) \in Nat /\ Cardinality(server) <= MaxPosts
      BY PostsAreFinite DEF IInv, View
    <3>2. Len(docs) \in Nat
      BY DEF IInv, View
    <3> QED
      BY <3>1, <3>2, BoundAssumption DEF IInv, View
  <2> QED
    BY <2>1 DEF IInv, CellTypes, ByCell, Counts, View, Uses, TypeOK
<1> QED
  BY <1>1, Inductive, PTL

\* A cell shows its own post, or one whose callback or avatar was to come when it was
\* configured.
THEOREM CellsShowTheirPosts == Spec => []ShowsItsPost
<1>1. IInv => ShowsItsPost
  BY DEF IInv, Cell, ShowsItsPost
<1> QED
  BY <1>1, Inductive, PTL

\* The view has no row without a document, and on one snapshot no post is in two cells
\* (FeedViewController.swift:33-42, 58-63).
THEOREM EveryRowShowsItsDocument == Spec => []RowsShowTheirDocuments
<1>1. IInv => RowsShowTheirDocuments
  <2> SUFFICES ASSUME IInv, reloads = 0, NEW c \in Cells, row[c] # Nil
               PROVE  /\ post[c] = docs[row[c]]
                      /\ \A d \in Cells \ {c} : row[d] # Nil => post[d] # post[c]
    BY DEF IInv, View, RowsShowTheirDocuments
  <2>1. rows = Len(docs) /\ DOMAIN docs = 1 .. Len(docs) /\ Len(docs) \in Nat
        /\ \A i \in 1 .. Len(docs) : docs[i] \in Posts
    BY DEF IInv, View
  <2>2. row[c] \in 1 .. rows /\ post[c] = docs[row[c]]
    BY DEF IInv, Rows
  <2>3. ASSUME NEW d \in Cells \ {c}, row[d] # Nil PROVE post[d] # post[c]
    <3>1. row[d] \in 1 .. rows /\ post[d] = docs[row[d]] /\ row[d] # row[c]
      BY <2>3 DEF IInv, Rows
    <3>2. row[c] < row[d] \/ row[d] < row[c]
      BY <2>1, <2>2, <3>1
    <3>3. docs[row[c]] < docs[row[d]] \/ docs[row[d]] < docs[row[c]]
      BY <2>1, <2>2, <3>1, <3>2 DEF IInv, Rows
    <3>4. docs[row[c]] \in Posts /\ docs[row[d]] \in Posts
      BY <2>1, <2>2, <3>1
    <3> QED
      BY <2>2, <3>1, <3>3, <3>4, BoundAssumption DEF Posts
  <2> QED
    BY <2>2, <2>3
<1> QED
  BY <1>1, Inductive, PTL

\* With no snapshot to come and no reload dispatched, every post is in a row: what the
\* fairness of FeedCatchesUp is needed for is only that these run
\* (FeedViewController.swift:33-42).
SettledFeed ==
  docs \in Ordered /\ reloads = 0 => \A p \in server : \E r \in 1 .. rows : docs[r] = p

\* Nothing but a delivery or a reload is missing from a feed that is not complete
\* (FeedViewController.swift:33-42).
THEOREM SettledFeedIsComplete == Spec => []SettledFeed
<1>1. IInv => SettledFeed
  <2> SUFFICES ASSUME IInv, docs \in Ordered, reloads = 0, NEW p \in server
               PROVE  \E r \in 1 .. rows : docs[r] = p
    BY DEF SettledFeed
  <2> DEFINE n == Cardinality(server)
  <2>1. server \subseteq Posts /\ rows = Len(docs) /\ Len(docs) = n
    BY SnapshotLength DEF IInv, View
  <2>2. n \in Nat /\ IsFiniteSet(server) /\ IsFiniteSet(1 .. n) /\ Cardinality(1 .. n) = n
    BY <2>1, PostsAreFinite, FS_Interval
  <2>3. docs \in [1 .. n -> server] /\ \A i, j \in 1 .. n : i < j => docs[i] < docs[j]
    BY DEF Ordered
  <2>4. \A i \in 1 .. n : docs[i] \in Posts
    BY <2>1, <2>3
  <2>5. ASSUME NEW i \in 1 .. n, NEW j \in 1 .. n, docs[i] = docs[j] PROVE i = j
    BY <2>2, <2>3, <2>4, <2>5, BoundAssumption DEF Posts
  <2>6. docs \in Injection(1 .. n, server)
    BY <2>3, <2>5 DEF Injection, IsInjective
  <2>7. docs \in Surjection(1 .. n, server)
    BY <2>2, <2>6, FS_Injection
  <2> QED
    BY <2>1, <2>7 DEF Surjection
<1> QED
  BY <1>1, Inductive, PTL

\* A displayed cell with nothing to come shows an author, and a content unless its
\* download failed: the callbacks that ContentArrives is fair to are all there are to
\* wait for (PlayerCollectionViewCell.swift:28-115).
SettledCells ==
  \A c \in Cells :
    crashed = Nil /\ row[c] # Nil /\ ToCome(c) = {} =>
      /\ author[c] \in {post[c]} \cup late[c]
      /\ c \in failed \/ {picture[c], video[c]} \cap ({post[c]} \cup late[c]) # {}

\* No displayed cell waits for a callback that will never come
\* (PlayerCollectionViewCell.swift:28-115).
THEOREM SettledCellsAreFilled == Spec => []SettledCells
<1>1. IInv => SettledCells
  <2> SUFFICES ASSUME IInv, NEW c \in Cells, crashed = Nil, row[c] # Nil, ToCome(c) = {}
               PROVE  /\ author[c] \in {post[c]} \cup late[c]
                      /\ \/ c \in failed
                         \/ {picture[c], video[c]} \cap ({post[c]} \cup late[c]) # {}
    BY DEF SettledCells
  <2>1. post[c] # Nil /\ Cell(c) /\ Accounted(c) /\ CellTypes
    BY DEF IInv, Rows
  <2>2. post[c] \in Posts
    BY <2>1 DEF CellTypes, ByCell
  <2>3. lookups[c][post[c]] \in Nat /\ downloads[c][post[c]] \in Nat
    BY <2>1, <2>2 DEF CellTypes, Counts
  <2>4. lookups[c][post[c]] = 0 /\ downloads[c][post[c]] = 0
    BY <2>2, <2>3 DEF ToCome
  <2>5. author[c] # Nil /\ (c \in failed \/ picture[c] # Nil \/ video[c] # Nil)
    BY <2>1, <2>4, NilAssumption DEF Accounted
  <2> QED
    BY <2>1, <2>5 DEF Cell
<1> QED
  BY <1>1, Inductive, PTL

\* A cell that plays has a player, whichever of its clips was exchanged meanwhile
\* (PlayerCollectionViewCell.swift:39-48, 79-82, 100-108).
PlayingNeedsPlayer == \A c \in playing : video[c] # Nil

\* play, pause and the loop always find a player (PlayerCollectionViewCell.swift:100-108).
THEOREM PlayingCellsHavePlayers == Spec => []PlayingNeedsPlayer
<1>1. IInv => PlayingNeedsPlayer
  BY DEF IInv, CellTypes, Accounted, PlayingNeedsPlayer
<1> QED
  BY <1>1, Inductive, PTL

\* Scrolling to the latest post crashes on an empty feed or before a reload only.
THEOREM ScrollCrashesBeforeReloads == Spec => []ScrollNeedsReload
<1>1. IInv => ScrollNeedsReload
  BY DEF IInv
<1> QED
  BY <1>1, Inductive, PTL

\* A clip that starts in a cell that is not displayed was looping.
THEOREM ClipsStartOnDisplay == Spec => StartsOnDisplay
<1>1. IInv /\ [Next]_vars => [DisplayedOrLooping]_vars
  <2> SUFFICES ASSUME IInv, Next, NEW c \in Cells, c \in playing' \ playing, c \notin loops
               PROVE  c \in shown'
    BY DEF DisplayedOrLooping
  <2>1. ASSUME NEW d \in Cells, WillDisplay(d) PROVE c \in shown'
    BY <2>1 DEF WillDisplay
  <2>2. ASSUME NEW d \in Cells, CellStep(d), ~WillDisplay(d) PROVE FALSE
    BY <2>2 DEF CellStep, Prepare, Configure, EndDisplaying, Release, LookupReturns,
       AvatarReturns, DownloadReturns, DownloadFails, AssetFails, Started, ClipEnds, Loop
  <2>3. CASE \/ \E p \in Posts : Posted(p)
             \/ SnapshotArrives \/ SnapshotFails \/ ReloadData \/ ScrollLatestClicked
    BY <2>3 DEF Posted, SnapshotArrives, SnapshotFails, ReloadData, ScrollLatestClicked
  <2> QED
    BY <2>1, <2>2, <2>3 DEF Next
<1> QED
  BY <1>1, Inductive, PTL DEF Spec, StartsOnDisplay
=============================================================================
