----------------------------- MODULE LikesProofs -----------------------------
(***************************************************************************)
(* Theorems about the likes of a post in WhixBackend: what likesCount adds *)
(* up to, and which likes may get lost, for any number of invocations.     *)
(***************************************************************************)
EXTENDS WhixBackendProofs, FiniteSetTheorems

\* The balance of a set of calls, by what they were asked for.
LikesOf(r, calls)   == {c \in calls : r[c].op = "like"}
UnlikesOf(r, calls) == {c \in calls : r[c].op = "unlike"}
Balance(r, calls)   == Cardinality(LikesOf(r, calls)) - Cardinality(UnlikesOf(r, calls))

LEMMA BalanceOfNone ==
  ASSUME NEW r
  PROVE  Balance(r, {}) = 0
<1>1. LikesOf(r, {}) = {} /\ UnlikesOf(r, {}) = {}
  BY DEF LikesOf, UnlikesOf
<1> QED  BY <1>1, FS_EmptySet DEF Balance

LEMMA BalanceType ==
  ASSUME NEW r, NEW S, IsFiniteSet(S)
  PROVE  /\ Balance(r, S) \in Int
         /\ IsFiniteSet(LikesOf(r, S)) /\ Cardinality(LikesOf(r, S)) \in Nat
         /\ IsFiniteSet(UnlikesOf(r, S)) /\ Cardinality(UnlikesOf(r, S)) \in Nat
<1>1. LikesOf(r, S) \in SUBSET S /\ UnlikesOf(r, S) \in SUBSET S
  BY DEF LikesOf, UnlikesOf
<1>2. IsFiniteSet(LikesOf(r, S)) /\ IsFiniteSet(UnlikesOf(r, S))
  BY <1>1, FS_Subset
<1>3. Cardinality(LikesOf(r, S)) \in Nat /\ Cardinality(UnlikesOf(r, S)) \in Nat
  BY <1>2, FS_CardinalityType
<1> QED  BY <1>2, <1>3 DEF Balance

\* Two functions that agree on the calls give them the same balance.
LEMMA BalanceSame ==
  ASSUME NEW r, NEW s, NEW S, \A c \in S : r[c] = s[c]
  PROVE  Balance(r, S) = Balance(s, S)
<1>1. LikesOf(r, S) = LikesOf(s, S) /\ UnlikesOf(r, S) = UnlikesOf(s, S)
  BY DEF LikesOf, UnlikesOf
<1> QED  BY <1>1 DEF Balance

\* One more like or unlike moves the balance by one.
LEMMA BalanceAdd ==
  ASSUME NEW r, NEW S, IsFiniteSet(S), NEW c, c \notin S, r[c].op \in {"like", "unlike"}
  PROVE  Balance(r, S \cup {c}) =
           IF r[c].op = "like" THEN Balance(r, S) + 1 ELSE Balance(r, S) - 1
<1> DEFINE L == LikesOf(r, S)
           U == UnlikesOf(r, S)
<1>1. /\ IsFiniteSet(L) /\ Cardinality(L) \in Nat /\ c \notin L
      /\ IsFiniteSet(U) /\ Cardinality(U) \in Nat /\ c \notin U
  BY BalanceType DEF LikesOf, UnlikesOf
<1>2. CASE r[c].op = "like"
  <2>1. LikesOf(r, S \cup {c}) = L \cup {c} /\ UnlikesOf(r, S \cup {c}) = U
    BY <1>2 DEF LikesOf, UnlikesOf
  <2>2. Cardinality(L \cup {c}) = Cardinality(L) + 1
    <3> HIDE DEF L
    <3> QED  BY <1>1, FS_AddElement
  <2>3. /\ Balance(r, S \cup {c}) = Cardinality(L \cup {c}) - Cardinality(U)
        /\ Balance(r, S) = Cardinality(L) - Cardinality(U)
    BY <2>1 DEF Balance
  <2> HIDE DEF L, U
  <2> QED  BY <1>1, <1>2, <2>2, <2>3
<1>3. CASE r[c].op = "unlike"
  <2>1. LikesOf(r, S \cup {c}) = L /\ UnlikesOf(r, S \cup {c}) = U \cup {c}
    BY <1>3 DEF LikesOf, UnlikesOf
  <2>2. Cardinality(U \cup {c}) = Cardinality(U) + 1
    <3> HIDE DEF U
    <3> QED  BY <1>1, FS_AddElement
  <2>3. /\ Balance(r, S \cup {c}) = Cardinality(L) - Cardinality(U \cup {c})
        /\ Balance(r, S) = Cardinality(L) - Cardinality(U)
        /\ r[c].op # "like"
    BY <1>3, <2>1 DEF Balance
  <2> HIDE DEF L, U
  <2> QED  BY <1>1, <2>2, <2>3
<1> QED  BY <1>2, <1>3

-----------------------------------------------------------------------------
(* The steps of like and unlike *)

IsToggle(c) == req[c] # Null /\ req[c].op \in {"like", "unlike"}

\* The document was read, and an update is on its way or may be.
Pending(c) == pc[c] \in {"like.update", "limbo"} /\ IsToggle(c)

Arrival(c) ==
  /\ pc[c] = "idle" /\ pc'[c] \in Waiting \ {"like.update"}
  /\ knew'[c].applied = applied
  /\ UNCHANGED <<posts, local, base, lineage, applied>>

Update(c) ==
  /\ Pending(c) /\ pc'[c] = "done" /\ StoreLikes(c)
  /\ UNCHANGED <<req, knew, base, local>>

Internal(c) ==
  /\ pc[c] \notin {"idle", "done"} /\ pc'[c] # "idle"
  /\ UNCHANGED <<req, knew, base, lineage, applied>>
  /\ Pending(c)' => Pending(c) /\ local'[c].likesCount = local[c].likesCount
  /\ posts' = posts \/ \E p \in PostIds : StorePost(c, p)

LEMMA ToggleSteps ==
  ASSUME Typing, NEW c \in Calls, Step(c)
  PROVE  Arrival(c) \/ LikeRead(c) \/ Update(c) \/ Internal(c)
<1> USE DEF Typing, TypeOK, RequestOf
<1>1. CASE LoginCall(c) \/ PostCall(c) \/ LikeCall(c) \/ UnlikeCall(c)
  <2>1. /\ pc[c] = "idle" /\ pc'[c] \in Waiting \ {"like.update"}
        /\ UNCHANGED <<posts, local, base, lineage, applied>>
    BY <1>1 DEF LoginCall, PostCall, LikeCall, UnlikeCall, Invoke, Waiting
  <2>2. knew'[c].applied = applied
    BY <1>1 DEF LoginCall, PostCall, LikeCall, UnlikeCall, Invoke
  <2> QED  BY <2>1, <2>2 DEF Arrival
<1>2. CASE LoginFound(c) \/ LoginRefused(c) \/ LikeMissing(c)
  BY <1>2 DEF LoginFound, LoginRefused, LikeMissing, Answer, Internal, Pending, history
<1>3. CASE LoginNoPair(c) \/ LoginByEmail(c) \/ LoginFree(c)
  BY <1>3 DEF LoginNoPair, LoginByEmail, LoginFree, Await, Internal, Pending, history
<1>4. CASE PostAuthor(c) \/ LikeUser(c)
  BY <1>4 DEF PostAuthor, LikeUser, Await, Internal, Pending, history
<1>5. CASE LoginAdd(c)
  BY <1>5 DEF LoginAdd, StoreUser, Answer, Internal, Pending
<1>6. CASE PostAdd(c)
  <2>1. PICK p \in PostIds : StorePost(c, p) /\ Answer(c, p, "posted")
    BY <1>6 DEF PostAdd
  <2>2. pc'[c] = "done" /\ pc[c] = "post.add" /\ UNCHANGED <<req, knew, base, lineage, applied>>
    BY <1>6, <2>1 DEF PostAdd, StorePost, Answer
  <2> QED  BY <2>1, <2>2 DEF Internal, Pending
<1>7. CASE LikeUpdate(c)
  BY <1>7 DEF LikeUpdate, Answer, Update, Pending, IsToggle
<1>8. CASE Throw(c)
  BY <1>8 DEF Throw, Answer, Internal, Pending, Waiting, history
<1>9. CASE ThrowUnresolved(c)
  BY <1>9 DEF ThrowUnresolved, Internal, Pending, IsToggle, IsLogin, Writing, history
<1>10. CASE LateWrite(c)
  <2>1. pc[c] = "limbo" /\ pc'[c] = "done" /\ UNCHANGED <<req, local, reply, knew, base>>
    BY <1>10 DEF LateWrite, Settle, Await
  <2>2. CASE \E i \in UserIds : StoreUser(c, i)
    BY <2>1, <2>2 DEF Internal, Pending, StoreUser
  <2>3. CASE \E p \in PostIds : StorePost(c, p)
    <3>1. UNCHANGED <<lineage, applied>>
      BY <2>3 DEF StorePost
    <3> QED  BY <2>1, <2>3, <3>1 DEF Internal, Pending
  <2>4. CASE req[c].op \in {"like", "unlike"} /\ StoreLikes(c)
    BY <2>1, <2>4 DEF Update, Pending, IsToggle
  <2> QED  BY <1>10, <2>2, <2>3, <2>4 DEF LateWrite
<1>11. CASE LostWrite(c)
  BY <1>11 DEF LostWrite, Settle, Await, Internal, Pending
<1> QED
  BY <1>1, <1>2, <1>3, <1>4, <1>5, <1>6, <1>7, <1>8, <1>9, <1>10, <1>11 DEF Step, Proceed

-----------------------------------------------------------------------------
(* likesCount and the lineage *)

\* What a document and an update on its way are made of: calls that were applied.
\* likesCount is their balance, which the update moves by its own call.
Accounted ==
  /\ IsFiniteSet(applied)
  /\ \A c \in applied : pc[c] = "done" /\ IsToggle(c)
  /\ \A c \in Calls : knew[c].applied \subseteq applied
  /\ \A p \in PostIds : /\ lineage[p] \subseteq applied
                        /\ posts[p].likesCount = Balance(req, lineage[p])
                        /\ ~posts[p].exists => lineage[p] = {}
  /\ \A c \in Calls : Pending(c) =>
       /\ base[c] \subseteq applied
       /\ posts[req[c].postId].exists
       /\ local[c].likesCount = Balance(req, base[c] \cup {c})

LEMMA InitAccounted == Init => Accounted
<1> SUFFICES ASSUME Init PROVE Accounted
  OBVIOUS
<1>1. IsFiniteSet(applied)
  BY FS_EmptySet DEF Init
<1>2. ASSUME NEW p \in PostIds
      PROVE  posts[p].likesCount = Balance(req, lineage[p]) /\ lineage[p] = {}
  BY BalanceOfNone DEF Init, NoPost
<1> QED  BY <1>1, <1>2 DEF Init, Accounted, Pending

\* Balances of applied calls do not change: their requests are fixed.
LEMMA BalanceKept ==
  ASSUME Typing, Accounted, NEW c \in Calls, Step(c),
         NEW S, S \subseteq applied \/ (pc[c] # "idle" /\ S \subseteq Calls)
  PROVE  Balance(req', S) = Balance(req, S)
<1>1. ASSUME NEW d \in S PROVE req'[d] = req[d]
  <2>1. d \in Calls
    BY DEF Typing, TypeOK
  <2>2. CASE pc[c] # "idle"
    BY <2>1, <2>2, RequestFixed
  <2>3. CASE pc[c] = "idle"
    <3>1. d # c
      BY <2>3 DEF Accounted
    <3> QED  BY <2>1, <3>1, OthersUnchanged
  <2> QED  BY <2>2, <2>3
<1> QED  BY <1>1, BalanceSame

\* toggleLike moves the count it read by its own like or unlike.
LEMMA ReadMovesCount ==
  ASSUME Typing, NEW c \in Calls, LikeRead(c)
  PROVE  /\ req[c].postId \in PostIds /\ IsToggle(c) /\ posts[req[c].postId].exists
         /\ posts[req[c].postId].likesCount \in Int
         /\ local'[c].likesCount =
              IF req[c].op = "like" THEN posts[req[c].postId].likesCount + 1
                                    ELSE posts[req[c].postId].likesCount - 1
         /\ base'[c] = lineage[req[c].postId]
         /\ pc[c] = "like.read" /\ pc'[c] = "like.update"
         /\ UNCHANGED <<posts, req, knew, lineage, applied>>
<1> DEFINE post == posts[req[c].postId]
           new  == IF req[c].op = "like" THEN Pushed(post, local[c].userId)
                                         ELSE Spliced(post)
<1>1. req[c].postId \in PostIds /\ IsToggle(c)
  BY DEF Typing, RequestOf, LikeRead, Await, IsToggle
<1>2. post.likesCount \in Int
  BY <1>1 DEF Typing, TypeOK, Post
<1>3. new.likesCount = IF req[c].op = "like" THEN post.likesCount + 1
                                             ELSE post.likesCount - 1
  BY DEF Pushed, Spliced
<1>4. local'[c].likesCount = new.likesCount
  <2>1. local' = [local EXCEPT ![c].likes = new.likes, ![c].likesCount = new.likesCount]
    BY DEF LikeRead
  <2> HIDE DEF new
  <2> QED  BY <2>1 DEF Typing, TypeOK, Local
<1>5. /\ post.exists /\ base'[c] = lineage[req[c].postId]
      /\ pc[c] = "like.read" /\ pc'[c] = "like.update"
      /\ UNCHANGED <<posts, req, knew, lineage, applied>>
  BY DEF Typing, TypeOK, LikeRead, Await
<1> QED  BY <1>1, <1>2, <1>3, <1>4, <1>5

LEMMA AccountedArrival ==
  ASSUME Typing, Accounted, NEW c \in Calls, Step(c), Arrival(c)
  PROVE  Accounted'
<1>1. \A d \in Calls \ {c} : pc'[d] = pc[d] /\ req'[d] = req[d] /\ knew'[d] = knew[d]
  BY OthersUnchanged
<1>2. c \notin applied /\ UNCHANGED <<posts, local, base, lineage, applied>>
  BY DEF Arrival, Accounted
<1>3. \A d \in applied' : pc'[d] = "done" /\ IsToggle(d)'
  BY <1>1, <1>2 DEF Typing, TypeOK, Accounted, IsToggle
<1>4. \A d \in Calls : knew'[d].applied \subseteq applied'
  BY <1>1, <1>2 DEF Accounted, Arrival
<1>5. ASSUME NEW p \in PostIds
      PROVE  /\ lineage'[p] \subseteq applied'
             /\ posts'[p].likesCount = Balance(req', lineage'[p])
             /\ ~posts'[p].exists => lineage'[p] = {}
  <2>1. Balance(req', lineage[p]) = Balance(req, lineage[p])
    BY BalanceKept DEF Accounted
  <2> QED  BY <1>2, <2>1 DEF Accounted
<1>6. ASSUME NEW d \in Calls, Pending(d)'
      PROVE  /\ base'[d] \subseteq applied'
             /\ posts'[req'[d].postId].exists
             /\ local'[d].likesCount = Balance(req', base'[d] \cup {d})
  <2>1. d # c
    BY <1>6 DEF Arrival, Pending, Waiting
  <2>2. Pending(d) /\ req'[d] = req[d]
    BY <1>1, <1>6, <2>1 DEF Pending, IsToggle
  <2>3. \A e \in base[d] \cup {d} : req'[e] = req[e]
    <3>1. base[d] \subseteq applied
      BY <2>2 DEF Accounted
    <3>2. applied \subseteq Calls
      BY DEF Typing, TypeOK
    <3> QED  BY <1>1, <1>2, <2>2, <3>1, <3>2
  <2>4. Balance(req', base[d] \cup {d}) = Balance(req, base[d] \cup {d})
    BY <2>3, BalanceSame
  <2> QED  BY <1>2, <2>2, <2>4 DEF Accounted
<1> QED  BY <1>2, <1>3, <1>4, <1>5, <1>6 DEF Accounted

LEMMA AccountedRead ==
  ASSUME Typing, Accounted, NEW c \in Calls, Step(c), LikeRead(c)
  PROVE  Accounted'
<1> DEFINE p == req[c].postId
<1>1. \A d \in Calls \ {c} : /\ pc'[d] = pc[d] /\ local'[d] = local[d] /\ base'[d] = base[d]
  BY OthersUnchanged
<1>2. UNCHANGED <<posts, req, knew, lineage, applied>>
  BY ReadMovesCount
<1>3. \A d \in applied' : pc'[d] = "done" /\ IsToggle(d)'
  <2>1. c \notin applied
    BY ReadMovesCount DEF Accounted
  <2> QED  BY <1>1, <1>2, <2>1 DEF Accounted, IsToggle, Typing, TypeOK
<1>4. ASSUME NEW d \in Calls, Pending(d)'
      PROVE  /\ base'[d] \subseteq applied'
             /\ posts'[req'[d].postId].exists
             /\ local'[d].likesCount = Balance(req', base'[d] \cup {d})
  <2>1. CASE d # c
    <3>1. Pending(d)
      BY <1>1, <1>2, <1>4, <2>1 DEF Pending, IsToggle
    <3> QED  BY <1>1, <1>2, <2>1, <3>1 DEF Accounted
  <2>2. CASE d = c
    <3>1. p \in PostIds /\ IsToggle(c) /\ posts[p].exists /\ base'[c] = lineage[p]
      BY ReadMovesCount
    <3>2. lineage[p] \subseteq applied /\ posts[p].likesCount = Balance(req, lineage[p])
      BY <3>1 DEF Accounted
    <3>3. IsFiniteSet(lineage[p]) /\ c \notin lineage[p]
      <4>1. IsFiniteSet(lineage[p])
        BY <3>2, FS_Subset DEF Accounted
      <4>2. c \notin applied
        BY ReadMovesCount DEF Accounted
      <4> QED  BY <3>2, <4>1, <4>2
    <3>4. Balance(req, lineage[p] \cup {c}) =
            IF req[c].op = "like" THEN Balance(req, lineage[p]) + 1
                                  ELSE Balance(req, lineage[p]) - 1
      BY <3>1, <3>3, BalanceAdd DEF IsToggle
    <3>5. local'[c].likesCount = IF req[c].op = "like" THEN posts[p].likesCount + 1
                                                      ELSE posts[p].likesCount - 1
      BY ReadMovesCount
    <3> HIDE DEF p
    <3>6. local'[c].likesCount = Balance(req, lineage[p] \cup {c})
      BY <3>2, <3>4, <3>5
    <3> QED  BY <1>2, <2>2, <3>1, <3>2, <3>6 DEF p
  <2> QED  BY <2>1, <2>2
<1> QED  BY <1>2, <1>3, <1>4 DEF Accounted

\* An update puts the whole of what it read, and itself, in the place of what the
\* document has become.
LEMMA AccountedUpdate ==
  ASSUME Typing, Accounted, NEW c \in Calls, Step(c), Update(c)
  PROVE  Accounted'
<1> DEFINE p == req[c].postId
           new == base[c] \cup {c}
<1>1. \A d \in Calls \ {c} : pc'[d] = pc[d]
  BY OthersUnchanged
<1>2. UNCHANGED <<req, knew, base, local>> /\ pc'[c] = "done" /\ Pending(c) /\ IsToggle(c)
  BY DEF Update, Pending
<1>3. p \in PostIds /\ base[c] \subseteq applied
  BY <1>2 DEF Typing, RequestOf, IsToggle, Accounted
<1>4. applied' = applied \cup {c} /\ lineage' = [lineage EXCEPT ![p] = new]
  BY DEF Update, StoreLikes
<1>5. IsFiniteSet(applied')
  BY <1>4, FS_AddElement DEF Accounted
<1>6. \A d \in applied' : pc'[d] = "done" /\ IsToggle(d)'
  BY <1>1, <1>2, <1>4 DEF Accounted, IsToggle, Typing, TypeOK
<1>7. \A d \in Calls : knew'[d].applied \subseteq applied'
  BY <1>2, <1>4 DEF Accounted
<1>8. ASSUME NEW q \in PostIds
      PROVE  /\ lineage'[q] \subseteq applied'
             /\ posts'[q].likesCount = Balance(req', lineage'[q])
             /\ ~posts'[q].exists => lineage'[q] = {}
             /\ posts'[q].exists = posts[q].exists
  <2>1. posts' = [posts EXCEPT ![p] = [posts[p] EXCEPT !.likes = local[c].likes,
                                                      !.likesCount = local[c].likesCount]]
    BY <1>3 DEF Typing, TypeOK, Update, StoreLikes
  <2>2. CASE q = p
    <3>1. lineage'[p] = new
      BY <1>3, <1>4 DEF Typing, TypeOK
    <3>2. /\ posts'[p].likesCount = local[c].likesCount
          /\ posts'[p].exists = posts[p].exists
      <4>1. posts[p] \in Post
        BY <1>3 DEF Typing, TypeOK
      <4> HIDE DEF p
      <4> QED  BY <1>3, <2>1, <4>1 DEF Typing, TypeOK, Post
    <3>3. local[c].likesCount = Balance(req, new) /\ posts[p].exists
      BY <1>2 DEF Accounted
    <3> HIDE DEF new
    <3>4. new \subseteq applied'
      BY <1>3, <1>4 DEF new
    <3> QED  BY <1>2, <2>2, <3>1, <3>2, <3>3, <3>4
  <2>3. CASE q # p
    <3>1. lineage'[q] = lineage[q]
      BY <1>4, <2>3 DEF Typing, TypeOK
    <3>2. posts'[q] = posts[q]
      <4> HIDE DEF p
      <4> QED  BY <2>1, <2>3 DEF Typing, TypeOK
    <3> QED  BY <1>2, <1>4, <3>1, <3>2 DEF Accounted
  <2> QED  BY <2>2, <2>3
<1>9. ASSUME NEW d \in Calls, Pending(d)'
      PROVE  /\ base'[d] \subseteq applied'
             /\ posts'[req'[d].postId].exists
             /\ local'[d].likesCount = Balance(req', base'[d] \cup {d})
  <2>1. d # c
    BY <1>2, <1>9 DEF Pending
  <2>2. Pending(d) /\ IsToggle(d)
    BY <1>1, <1>2, <1>9, <2>1 DEF Pending, IsToggle
  <2>3. req[d].postId \in PostIds
    BY <2>2 DEF Typing, RequestOf, IsToggle
  <2> QED  BY <1>2, <1>4, <1>8, <2>2, <2>3 DEF Accounted
<1> QED  BY <1>5, <1>6, <1>7, <1>8, <1>9 DEF Accounted

LEMMA AccountedInternal ==
  ASSUME Typing, Accounted, NEW c \in Calls, Step(c), Internal(c)
  PROVE  Accounted'
<1>1. \A d \in Calls \ {c} : pc'[d] = pc[d] /\ local'[d] = local[d]
  BY OthersUnchanged
<1>2. UNCHANGED <<req, knew, base, lineage, applied>> /\ c \notin applied
  BY DEF Internal, Accounted
<1>3. \A d \in applied' : pc'[d] = "done" /\ IsToggle(d)'
  BY <1>1, <1>2 DEF Accounted, IsToggle, Typing, TypeOK
<1>4. ASSUME NEW p \in PostIds
      PROVE  /\ posts'[p].likesCount = Balance(req, lineage[p])
             /\ ~posts'[p].exists => lineage[p] = {}
             /\ posts[p].exists => posts'[p].exists
  <2>1. CASE posts' = posts
    BY <2>1 DEF Accounted
  <2>2. ASSUME NEW q \in PostIds, StorePost(c, q)
        PROVE  /\ posts'[p].likesCount = Balance(req, lineage[p])
               /\ ~posts'[p].exists => lineage[p] = {}
               /\ posts[p].exists => posts'[p].exists
    <3>1. ~posts[q].exists /\ posts' = [posts EXCEPT ![q] =
            [exists |-> TRUE, author |-> local[c].userId, likes |-> <<>>, likesCount |-> 0]]
      BY <2>2 DEF StorePost, FreePostIds
    <3>2. lineage[q] = {} /\ Balance(req, lineage[q]) = 0
      BY <3>1, BalanceOfNone DEF Accounted
    <3>3. p = q => posts'[p].exists /\ posts'[p].likesCount = 0
      BY <3>1 DEF Typing, TypeOK
    <3>4. p # q => posts'[p] = posts[p]
      BY <3>1 DEF Typing, TypeOK
    <3> QED  BY <3>2, <3>3, <3>4 DEF Accounted
  <2> QED  BY <2>1, <2>2 DEF Internal
<1>5. ASSUME NEW d \in Calls, Pending(d)'
      PROVE  /\ base'[d] \subseteq applied'
             /\ posts'[req'[d].postId].exists
             /\ local'[d].likesCount = Balance(req', base'[d] \cup {d})
  <2>1. Pending(d) /\ local'[d].likesCount = local[d].likesCount
    BY <1>1, <1>2, <1>5 DEF Internal, Pending, IsToggle
  <2>2. req[d].postId \in PostIds
    BY <2>1 DEF Typing, RequestOf, Pending, IsToggle
  <2> QED  BY <1>2, <1>4, <2>1, <2>2 DEF Accounted
<1> QED  BY <1>2, <1>3, <1>4, <1>5 DEF Accounted

LEMMA AccountedStep ==
  ASSUME Typing, Accounted, [Next]_vars
  PROVE  Accounted'
<1>1. CASE UNCHANGED vars
  BY <1>1 DEF vars, Accounted, Pending, IsToggle
<1>2. CASE Next
  <2>1. PICK c \in Calls : Step(c)
    BY <1>2 DEF Next
  <2> QED  BY <2>1, ToggleSteps, AccountedArrival, AccountedRead, AccountedUpdate, AccountedInternal
<1> QED  BY <1>1, <1>2

LEMMA AccountedInvariant == Spec => []Accounted
BY InitAccounted, AccountedStep, TypingInvariant, PTL DEF Spec

\* In every document likesCount is what the likes and unlikes of its lineage add up to,
\* however many overlap, fail, or are applied late (index.js:94-109).
THEOREM CountIsAccountedFor == Spec => []CountAccountsForLineage
<1>1. Accounted => CountAccountsForLineage
  BY DEF Accounted, CountAccountsForLineage, Balance, Likes, Unlikes, LikesOf, UnlikesOf
<1> QED  BY <1>1, AccountedInvariant, PTL

-----------------------------------------------------------------------------
(* Lost likes *)

\* Neither of two applied calls on the same post had been applied when the other one
\* was called.
Overlap(c, d) ==
  /\ d \in applied \ {c} /\ req[d].postId = req[c].postId
  /\ c \notin knew[d].applied /\ d \notin knew[c].applied

\* A call that was applied before an update's own call came, and that the update does not
\* build on, was lost before to an overlapping one. It may have come back since, with
\* a document that was read before it was lost.
LossesExplained ==
  \A d \in Calls : Pending(d) =>
    \A c \in knew[d].applied :
      req[c].postId = req[d].postId /\ c \notin base[d] => \E x \in Calls : Overlap(c, x)

Losses == LostLikesNeedOverlap /\ LossesExplained

\* An overlap is a fact of the past, which no step undoes.
LEMMA OverlapStays ==
  ASSUME Typing, Accounted, NEW c \in Calls, Step(c), NEW d \in applied, NEW x \in Calls,
         Overlap(d, x)
  PROVE  Overlap(d, x)'
<1>1. d \in Calls /\ x \in applied
  BY DEF Typing, TypeOK, Overlap
<1>2. applied \subseteq applied'
  BY ToggleSteps DEF Arrival, LikeRead, Update, StoreLikes, Internal
<1>3. ASSUME NEW e \in applied PROVE req'[e] = req[e] /\ knew'[e] = knew[e]
  <2>1. e \in Calls /\ pc[e] = "done"
    BY DEF Typing, TypeOK, Accounted
  <2> QED  BY <2>1, OthersUnchanged, RequestFixed
<1> QED  BY <1>1, <1>2, <1>3 DEF Overlap

LEMMA LossesStep ==
  ASSUME Typing, Accounted, Losses, NEW c \in Calls, Step(c)
  PROVE  Losses'
<1> USE DEF Overlap
<1>1. applied \subseteq applied' /\ applied \subseteq Calls
  BY ToggleSteps DEF Typing, TypeOK, Arrival, LikeRead, Update, StoreLikes, Internal
<1>2. \A e \in applied : req'[e] = req[e] /\ knew'[e] = knew[e]
  <2> SUFFICES ASSUME NEW e \in applied PROVE req'[e] = req[e] /\ knew'[e] = knew[e]
    OBVIOUS
  <2>1. e \in Calls /\ pc[e] = "done"
    BY <1>1 DEF Accounted
  <2> QED  BY <2>1, OthersUnchanged, RequestFixed
<1>3. ASSUME NEW d \in applied, d \notin lineage[req[d].postId]
      PROVE  \E x \in Calls : Overlap(d, x)'
  <2>1. PICK x \in applied \ {d} : /\ req[x].postId = req[d].postId
                                   /\ d \notin knew[x].applied
                                   /\ x \notin knew[d].applied
    BY <1>3 DEF Losses, LostLikesNeedOverlap
  <2>2. Overlap(d, x) /\ x \in Calls
    BY <1>1, <2>1
  <2> QED  BY <2>2, OverlapStays
<1>4. ASSUME NEW d \in Calls, Pending(d), NEW e \in knew[d].applied,
             req[e].postId = req[d].postId, e \notin base[d]
      PROVE  \E x \in Calls : Overlap(e, x)'
  <2>1. PICK x \in Calls : Overlap(e, x)
    BY <1>4 DEF Losses, LossesExplained
  <2>2. e \in applied
    BY DEF Accounted
  <2> QED  BY <2>1, <2>2, OverlapStays
<1>5. \A d \in applied : req[d].postId \in PostIds
  BY <1>1 DEF Typing, RequestOf, Accounted, IsToggle
<1>6. CASE Arrival(c) \/ Internal(c)
  <2>1. UNCHANGED <<base, lineage, applied>>
    BY <1>6 DEF Arrival, Internal
  <2>2. LostLikesNeedOverlap'
    BY <1>1, <1>2, <1>3, <2>1 DEF LostLikesNeedOverlap
  <2>3. ASSUME NEW d \in Calls, Pending(d)'
        PROVE  Pending(d) /\ req'[d] = req[d] /\ knew'[d] = knew[d]
    <3>1. CASE d = c
      BY <1>6, <2>3, <3>1 DEF Arrival, Internal, Pending, Waiting
    <3>2. CASE d # c
      BY <2>3, <3>2, OthersUnchanged DEF Pending, IsToggle
    <3> QED  BY <3>1, <3>2
  <2>4. LossesExplained'
    <3> SUFFICES ASSUME NEW d \in Calls, Pending(d)', NEW e \in knew'[d].applied,
                        req'[e].postId = req'[d].postId, e \notin base'[d]
                 PROVE  \E x \in Calls : Overlap(e, x)'
      BY DEF LossesExplained
    <3>1. e \in applied
      BY <2>3 DEF Accounted
    <3> QED  BY <1>2, <1>4, <2>1, <2>3, <3>1
  <2> QED  BY <2>2, <2>4 DEF Losses
<1>7. CASE LikeRead(c)
  <2>1. /\ UNCHANGED <<posts, req, knew, lineage, applied>>
        /\ base'[c] = lineage[req[c].postId]
        /\ pc[c] = "like.read"
    BY <1>7, ReadMovesCount
  <2>2. LostLikesNeedOverlap'
    BY <1>1, <1>3, <2>1 DEF LostLikesNeedOverlap
  <2>3. LossesExplained'
    <3> SUFFICES ASSUME NEW d \in Calls, Pending(d)', NEW e \in knew'[d].applied,
                        req'[e].postId = req'[d].postId, e \notin base'[d]
                 PROVE  \E x \in Calls : Overlap(e, x)'
      BY DEF LossesExplained
    <3>1. CASE d = c
      <4>1. e \in applied /\ e \notin lineage[req[e].postId]
        BY <2>1, <3>1 DEF Accounted
      <4> QED  BY <1>3, <4>1
    <3>2. CASE d # c
      <4>1. Pending(d) /\ base'[d] = base[d]
        BY <2>1, <3>2, OthersUnchanged DEF Pending, IsToggle
      <4> QED  BY <1>4, <2>1, <4>1
    <3> QED  BY <3>1, <3>2
  <2> QED  BY <2>2, <2>3 DEF Losses
<1>8. CASE Update(c)
  <2>1. /\ UNCHANGED <<req, knew, base>> /\ Pending(c) /\ pc'[c] = "done"
        /\ applied' = applied \cup {c}
        /\ lineage' = [lineage EXCEPT ![req[c].postId] = base[c] \cup {c}]
    BY <1>8 DEF Update, StoreLikes
  <2>2. req[c].postId \in PostIds /\ c \notin applied
    BY <2>1 DEF Typing, RequestOf, Pending, IsToggle, Accounted
  <2>3. LostLikesNeedOverlap'
    <3> SUFFICES ASSUME NEW d \in applied', d \notin lineage'[req'[d].postId]
                 PROVE  \E x \in Calls : Overlap(d, x)'
      BY <1>1, <2>1 DEF LostLikesNeedOverlap
    <3>1. d # c /\ d \in applied
      BY <2>1, <2>2 DEF Typing, TypeOK
    <3>2. CASE d \notin lineage[req[d].postId]
      BY <1>3, <3>1, <3>2
    <3>3. CASE d \in lineage[req[d].postId]
      <4>1. req[d].postId = req[c].postId /\ d \notin base[c]
        BY <1>5, <2>1, <2>2, <3>1, <3>3 DEF Typing, TypeOK
      <4>2. CASE d \in knew[c].applied
        BY <1>4, <2>1, <4>1, <4>2
      <4>3. CASE d \notin knew[c].applied
        <5>1. c \notin knew[d].applied
          BY <1>1, <2>2, <3>1 DEF Accounted
        <5>2. Overlap(d, c)'
          BY <2>1, <3>1, <4>1, <4>3, <5>1
        <5> QED  BY <5>2
      <4> QED  BY <4>2, <4>3
    <3> QED  BY <3>2, <3>3
  <2>4. LossesExplained'
    <3> SUFFICES ASSUME NEW d \in Calls, Pending(d)', NEW e \in knew'[d].applied,
                        req'[e].postId = req'[d].postId, e \notin base'[d]
                 PROVE  \E x \in Calls : Overlap(e, x)'
      BY DEF LossesExplained
    <3>1. d # c
      BY <2>1 DEF Pending
    <3>2. Pending(d)
      BY <2>1, <3>1, OthersUnchanged DEF Pending, IsToggle
    <3> QED  BY <1>4, <2>1, <3>2
  <2> QED  BY <2>3, <2>4 DEF Losses
<1> QED  BY <1>6, <1>7, <1>8, ToggleSteps

\* A like or unlike that is gone from its post overlapped one that was applied: calls
\* that follow one another lose nothing (index.js:94-109).
THEOREM LossesNeedOverlap == Spec => []LostLikesNeedOverlap
<1>1. Init => Losses
  BY DEF Init, Losses, LostLikesNeedOverlap, LossesExplained, Pending
<1>2. Typing /\ Accounted /\ Losses /\ [Next]_vars => Losses'
  <2> SUFFICES ASSUME Typing, Accounted, Losses, [Next]_vars PROVE Losses'
    OBVIOUS
  <2>1. CASE UNCHANGED vars
    BY <2>1 DEF vars, Losses, LostLikesNeedOverlap, LossesExplained, Pending, IsToggle, Overlap
  <2>2. CASE Next
    BY <2>2, LossesStep DEF Next
  <2> QED  BY <2>1, <2>2
<1>3. Losses => LostLikesNeedOverlap
  BY DEF Losses
<1> QED  BY <1>1, <1>2, <1>3, TypingInvariant, AccountedInvariant, PTL DEF Spec

-----------------------------------------------------------------------------
(* The count and the list *)

OnlyLikes(calls) == \A c \in calls : req[c].op = "like"

\* The list of a post that was only ever liked holds as many entries as likesCount says.
LikesAreListed ==
  \A p \in PostIds : OnlyLikes(lineage[p]) => Len(posts[p].likes) = posts[p].likesCount

\* The same of an update on its way.
UpdatesAreListed ==
  \A c \in Calls : Pending(c) /\ OnlyLikes(base[c] \cup {c}) =>
    Len(local[c].likes) = local[c].likesCount

Listed == LikesAreListed /\ UpdatesAreListed

\* An internal step leaves the list that a pending update will write.
LEMMA ListKept ==
  ASSUME Typing, NEW c \in Calls, Step(c), Internal(c), Pending(c)'
  PROVE  local'[c].likes = local[c].likes
<1>1. Pending(c)
  BY DEF Internal
<1>2. ~LikeRead(c)
  BY <1>1 DEF LikeRead, Await, Pending
<1> QED
  BY <1>2 DEF Typing, TypeOK, Local, Step, Proceed, LoginCall, PostCall, LikeCall, UnlikeCall,
     Invoke, LoginFound, LoginNoPair, LoginByEmail, LoginFree, LoginRefused, LoginAdd,
     PostAuthor, PostAdd, LikeUser, LikeMissing, LikeUpdate, Throw, ThrowUnresolved,
     LateWrite, LostWrite, Settle

\* The requests of applied calls are fixed.
LEMMA AppliedFixed ==
  ASSUME Typing, Accounted, NEW c \in Calls, Step(c), NEW d \in applied
  PROVE  req'[d] = req[d]
<1>1. d \in Calls /\ pc[d] = "done"
  BY DEF Typing, TypeOK, Accounted
<1> QED  BY <1>1, OthersUnchanged, RequestFixed

\* What the read of a like leaves in the local variables.
LEMMA ReadLists ==
  ASSUME Typing, Listed, NEW c \in Calls, LikeRead(c), OnlyLikes(base[c] \cup {c})'
  PROVE  Len(local'[c].likes) = local'[c].likesCount
<1> DEFINE post == posts[req[c].postId]
           new  == IF req[c].op = "like" THEN Pushed(post, local[c].userId)
                                         ELSE Spliced(post)
<1>1. /\ req[c].postId \in PostIds /\ UNCHANGED <<posts, req, lineage>>
      /\ base'[c] = lineage[req[c].postId]
  BY ReadMovesCount
<1>2. req[c].op = "like" /\ OnlyLikes(lineage[req[c].postId])
  BY <1>1 DEF OnlyLikes
<1>3. Len(post.likes) = post.likesCount
  BY <1>1, <1>2 DEF Listed, LikesAreListed
<1>4. post \in Post /\ local[c].userId \in UserIds \cup {Null}
  BY <1>1 DEF Typing, TypeOK, Local
<1>5. /\ Len(Pushed(post, local[c].userId).likes) = Len(post.likes) + 1
      /\ Pushed(post, local[c].userId).likesCount = post.likesCount + 1
  BY <1>4, ToggledType DEF Pushed
<1>6. local'[c].likes = new.likes /\ local'[c].likesCount = new.likesCount
  <2>1. local' = [local EXCEPT ![c].likes = new.likes, ![c].likesCount = new.likesCount]
    BY DEF LikeRead
  <2> HIDE DEF new
  <2> QED  BY <2>1 DEF Typing, TypeOK, Local
<1>7. new = Pushed(post, local[c].userId)
  BY <1>2
<1> QED  BY <1>3, <1>5, <1>6, <1>7

LEMMA UpdatesStep ==
  ASSUME Typing, Accounted, Listed, NEW c \in Calls, Step(c)
  PROVE  UpdatesAreListed'
<1> SUFFICES ASSUME NEW d \in Calls, Pending(d)', OnlyLikes(base[d] \cup {d})'
             PROVE  Len(local'[d].likes) = local'[d].likesCount
  BY DEF UpdatesAreListed
<1>1. CASE d # c
  <2>1. /\ pc'[d] = pc[d] /\ req'[d] = req[d] /\ local'[d] = local[d] /\ base'[d] = base[d]
    BY <1>1, OthersUnchanged
  <2>2. Pending(d)
    BY <2>1 DEF Pending, IsToggle
  <2>3. base[d] \subseteq applied
    BY <2>2 DEF Accounted
  <2>4. OnlyLikes(base[d] \cup {d})
    BY <2>1, <2>3, AppliedFixed DEF OnlyLikes
  <2> QED  BY <2>1, <2>2, <2>4 DEF Listed, UpdatesAreListed
<1>2. CASE d = c /\ LikeRead(c)
  BY <1>2, ReadLists
<1>3. CASE d = c /\ Internal(c)
  <2>1. UNCHANGED <<req, base>> /\ Pending(c) /\ local'[c].likesCount = local[c].likesCount
    BY <1>3 DEF Internal
  <2>2. local'[c].likes = local[c].likes
    BY <1>3, ListKept
  <2>3. OnlyLikes(base[c] \cup {c})
    BY <1>3, <2>1 DEF OnlyLikes
  <2> QED  BY <1>3, <2>1, <2>2, <2>3 DEF Listed, UpdatesAreListed
<1>4. CASE d = c /\ (Arrival(c) \/ Update(c))
  BY <1>4 DEF Arrival, Update, Pending, Waiting
<1> QED  BY <1>1, <1>2, <1>3, <1>4, ToggleSteps

LEMMA ListStep ==
  ASSUME Typing, Accounted, Listed, NEW c \in Calls, Step(c)
  PROVE  LikesAreListed'
<1> SUFFICES ASSUME NEW p \in PostIds, OnlyLikes(lineage[p])'
             PROVE  Len(posts'[p].likes) = posts'[p].likesCount
  BY DEF LikesAreListed
<1>1. CASE lineage'[p] = lineage[p] /\ posts'[p] = posts[p]
  <2>1. lineage[p] \subseteq applied
    BY DEF Accounted
  <2>2. OnlyLikes(lineage[p])
    BY <1>1, <2>1, AppliedFixed DEF OnlyLikes
  <2> QED  BY <1>1, <2>2 DEF Listed, LikesAreListed
<1>2. ASSUME NEW q \in PostIds, StorePost(c, q)
      PROVE  posts'[p] = posts[p] \/ Len(posts'[p].likes) = posts'[p].likesCount
  BY <1>2 DEF StorePost, Typing, TypeOK
<1>3. CASE Update(c) /\ p = req[c].postId
  <2>1. /\ UNCHANGED <<req, base, local>> /\ Pending(c)
        /\ posts'[p].likes = local[c].likes /\ posts'[p].likesCount = local[c].likesCount
        /\ lineage'[p] = base[c] \cup {c}
    BY <1>3 DEF Update, StoreLikes, Typing, TypeOK, Post
  <2>2. OnlyLikes(base[c] \cup {c})
    BY <2>1 DEF OnlyLikes
  <2> QED  BY <2>1, <2>2 DEF Listed, UpdatesAreListed
<1>4. CASE Update(c) /\ p # req[c].postId
  <2>1. posts'[p] = posts[p] /\ lineage'[p] = lineage[p]
    BY <1>4 DEF Update, StoreLikes, Typing, TypeOK
  <2> QED  BY <1>1, <2>1
<1>5. CASE Arrival(c) \/ LikeRead(c)
  BY <1>1, <1>5, ReadMovesCount DEF Arrival
<1>6. CASE Internal(c)
  <2>1. lineage'[p] = lineage[p]
    BY <1>6 DEF Internal
  <2> QED  BY <1>1, <1>2, <1>6, <2>1 DEF Internal
<1> QED  BY <1>3, <1>4, <1>5, <1>6, ToggleSteps

\* Only an unlike lets the list and the count of a post part: indexOf never finds the
\* reference, and splice takes nothing from an empty list while the count goes below zero.
\* Likes alone, however they overlap, fail or arrive late, keep the two in step
\* (index.js:98-109).
THEOREM GapsNeedAnUnlike == Spec => []LikesAreListed
<1>1. Init => Listed
  <2> SUFFICES ASSUME Init PROVE Listed
    OBVIOUS
  <2>1. \A p \in PostIds : posts[p].likes = <<>> /\ posts[p].likesCount = 0
    BY DEF Init, NoPost
  <2>2. Len(<<>>) = 0
    OBVIOUS
  <2>3. \A c \in Calls : ~Pending(c)
    BY DEF Init, Pending
  <2> QED  BY <2>1, <2>2, <2>3 DEF Listed, LikesAreListed, UpdatesAreListed
<1>2. Typing /\ Accounted /\ Listed /\ [Next]_vars => Listed'
  <2> SUFFICES ASSUME Typing, Accounted, Listed, [Next]_vars PROVE Listed'
    OBVIOUS
  <2>1. CASE UNCHANGED vars
    BY <2>1 DEF vars, Listed, LikesAreListed, UpdatesAreListed, OnlyLikes, Pending, IsToggle
  <2>2. CASE Next
    BY <2>2, ListStep, UpdatesStep DEF Next, Listed
  <2> QED  BY <2>1, <2>2
<1>3. Listed => LikesAreListed
  BY DEF Listed
<1> QED  BY <1>1, <1>2, <1>3, TypingInvariant, AccountedInvariant, PTL DEF Spec
=============================================================================
