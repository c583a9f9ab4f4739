------------------------- MODULE WhixBackendProofs -------------------------
(***************************************************************************)
(* Theorems about WhixBackend, for every set of invocations, of e-mails    *)
(* and of usernames and for every value of the bounds.                     *)
(***************************************************************************)
EXTENDS WhixBackend, SequenceTheorems, WellFoundedInduction, TLAPS

\* What a forEach over a non-empty snapshot leaves in userId is the id of one of
\* its documents (index.js:27-29, 61-63, 90-92).
LEMMA LastIdOfSome ==
  ASSUME NEW docs, docs \subseteq User, docs # {}
  PROVE  /\ LastId(docs) \in UserIds
         /\ \E u \in docs : u.id = LastId(docs)
<1> DEFINE ids  == {u.id : u \in docs}
           gaps == {MaxUsers - i : i \in ids}
<1>1. ids \subseteq 1 .. MaxUsers /\ ids # {}
  BY DEF User, UserIds
<1>2. gaps \subseteq Nat /\ gaps # {}
  BY <1>1, BoundAssumption
<1>3. PICK g \in gaps : \A h \in gaps : ~(<<h, g>> \in OpToRel(<, Nat))
  <2> HIDE DEF gaps
  <2> QED  BY <1>2, NatLessThanWellFounded, WFMin
<1>4. \A h \in gaps : g <= h
  <2> SUFFICES ASSUME NEW h \in gaps PROVE g <= h
    OBVIOUS
  <2>1. g \in Nat /\ h \in Nat
    BY <1>2
  <2>2. ~(h < g)
    BY <1>3, <2>1 DEF OpToRel
  <2> QED  BY <2>1, <2>2
<1>5. PICK i \in ids : g = MaxUsers - i
  OBVIOUS
<1>6. \A j \in ids : j <= i
  <2> SUFFICES ASSUME NEW j \in ids PROVE j <= i
    OBVIOUS
  <2>1. MaxUsers - i <= MaxUsers - j
    BY <1>4, <1>5
  <2>2. i \in 1 .. MaxUsers /\ j \in 1 .. MaxUsers
    BY <1>1
  <2> HIDE DEF ids
  <2> QED  BY <2>1, <2>2, BoundAssumption
<1>7. \E k \in {u.id : u \in docs} : \A u \in docs : u.id <= k
  BY <1>6
<1>8. LastId(docs) \in ids
  BY <1>7 DEF LastId
<1> QED  BY <1>8, <1>1 DEF UserIds

LEMMA LastIdType ==
  ASSUME NEW docs, docs \subseteq User
  PROVE  LastId(docs) \in UserIds \cup {Null}
<1>1. CASE docs = {}
  BY <1>1 DEF LastId
<1>2. CASE docs # {}
  BY <1>2, LastIdOfSome
<1> QED  BY <1>1, <1>2

-----------------------------------------------------------------------------
(* Type correctness *)

\* What the type invariant needs to be inductive: a handler runs for a request of
\* its own function, which carries the fields that the function reads.
RequestOf(c) ==
  /\ pc[c] = "idle" <=> req[c] = Null
  /\ pc[c] = "idle" => reply[c] = NoReply
  /\ pc[c] \in {"login.pair", "login.email", "login.username", "login.add"} => IsLogin(c)
  /\ pc[c] \in {"post.author", "post.add"} => req[c].op = "post"
  /\ pc[c] \in {"like.user", "like.read", "like.update"} => req[c].op \in {"like", "unlike"}
  /\ pc[c] = "limbo" => reply[c] = [value |-> Null, how |-> "failed"]
  /\ IsLogin(c) => req[c].email \in Emails
  /\ req[c] # Null /\ req[c].op \in {"like", "unlike"} => req[c].postId \in PostIds

Typing == TypeOK /\ \A c \in Calls : RequestOf(c)

LEMMA InvokeTyping ==
  ASSUME Typing, NEW c \in Calls, NEW op, NEW emails, NEW postIds, NEW first,
         \/ op = "login" /\ emails = Emails /\ postIds = {Null} /\ first = "login.pair"
         \/ op = "post" /\ emails = {Null} /\ postIds = {Null} /\ first = "post.author"
         \/ /\ op \in {"like", "unlike"} /\ emails = {Null} /\ postIds = PostIds
            /\ first = "like.user",
         Invoke(c, op, emails, postIds, first)
  PROVE  Typing'
<1>1. PICK r \in Request :
        /\ req' = [req EXCEPT ![c] = r]
        /\ r.op = op
        /\ op = "login" => r.email \in Emails
        /\ op \in {"like", "unlike"} => r.postId \in PostIds
  <2>1. PICK e \in emails, n \in Usernames, p \in postIds :
          req' = [req EXCEPT ![c] = [op |-> op, email |-> e, username |-> n,
                                     postId |-> p]]
    BY DEF Invoke
  <2>2. [op |-> op, email |-> e, username |-> n, postId |-> p] \in Request
    BY DEF Request
  <2> QED  BY <2>1, <2>2
<1>2. pc' = [pc EXCEPT ![c] = first] /\ first \in Waiting
  BY DEF Invoke, Waiting
<1>3. TypeOK'
  <2>1. req' \in [Calls -> Request \cup {Null}]
    BY <1>1 DEF Typing, TypeOK
  <2>2. pc' \in [Calls -> Phases]
    BY <1>2 DEF Typing, TypeOK, Phases
  <2>3. knew' \in [Calls -> [users : SUBSET User, applied : SUBSET Calls]]
    BY DEF Typing, TypeOK, Invoke
  <2> QED  BY <2>1, <2>2, <2>3 DEF Typing, TypeOK, Invoke
<1>4. ASSUME NEW d \in Calls PROVE RequestOf(d)'
  <2>1. CASE d = c
    BY <1>1, <1>2, <2>1, NullAssumption DEF Typing, TypeOK, RequestOf, IsLogin, Waiting
  <2>2. CASE d # c
    BY <1>1, <1>2, <2>2 DEF Typing, TypeOK, RequestOf, Invoke, IsLogin
  <2> QED  BY <2>1, <2>2
<1> QED  BY <1>3, <1>4 DEF Typing

\* Answers and writes keep the types.
LEMMA AnswerType ==
  ASSUME TypeOK, NEW c \in Calls, NEW value \in Int \cup {Null},
         NEW how \in Outcomes, Answer(c, value, how)
  PROVE  /\ pc' \in [Calls -> Phases]
         /\ reply' \in [Calls -> [value : Int \cup {Null}, how : Outcomes]]
BY DEF TypeOK, Answer, Phases

LEMMA StoreUserType ==
  ASSUME Typing, NEW c \in Calls, IsLogin(c), NEW i \in UserIds, StoreUser(c, i)
  PROVE  users' \subseteq User /\ UNCHANGED <<posts, lineage, applied>>
<1>1. req[c].email \in Emails /\ req[c].username \in Usernames
  <2>1. req[c] \in Request
    BY DEF Typing, TypeOK, IsLogin
  <2>2. req[c].email \in Emails
    BY DEF Typing, RequestOf, IsLogin
  <2> QED  BY <2>1, <2>2 DEF Request
<1>2. TrimmedEmail(c) \in Emails /\ TrimmedUsername(c) \in Usernames
  BY <1>1, TrimAssumption DEF TrimmedEmail, TrimmedUsername
<1> QED  BY <1>2 DEF Typing, TypeOK, StoreUser, User

LEMMA StorePostType ==
  ASSUME TypeOK, NEW c \in Calls, NEW p \in PostIds, StorePost(c, p)
  PROVE  posts' \in [PostIds -> Post] /\ UNCHANGED <<users, lineage, applied>>
BY DEF TypeOK, StorePost, Post, Local

LEMMA StoreLikesType ==
  ASSUME Typing, NEW c \in Calls, req[c] # Null, req[c].op \in {"like", "unlike"},
         StoreLikes(c)
  PROVE  /\ posts' \in [PostIds -> Post]
         /\ lineage' \in [PostIds -> SUBSET Calls]
         /\ applied' \subseteq Calls
         /\ users' = users
<1>1. req[c].postId \in PostIds
  BY DEF Typing, RequestOf
<1>2. local[c].likes \in Seq(UserIds \cup {Null}) /\ local[c].likesCount \in Int
  <2>1. local[c] \in Local
    BY DEF Typing, TypeOK
  <2> QED  BY <2>1 DEF Local
<1>3. /\ posts \in [PostIds -> Post]
      /\ lineage \in [PostIds -> SUBSET Calls]
      /\ base[c] \subseteq Calls
      /\ applied \subseteq Calls
  BY DEF Typing, TypeOK
<1>4. posts' \in [PostIds -> Post]
  <2> DEFINE p == req[c].postId
             new == [posts[p] EXCEPT !.likes = local[c].likes,
                                     !.likesCount = local[c].likesCount]
  <2>1. posts[p] \in Post
    BY <1>1, <1>3
  <2>2. new \in Post
    <3> HIDE DEF p
    <3> QED  BY <1>2, <2>1 DEF Post
  <2>3. posts' = [posts EXCEPT ![p] = new]
    BY <1>1, <1>3 DEF StoreLikes
  <2> HIDE DEF p, new
  <2> QED  BY <1>3, <2>2, <2>3
<1>5. lineage' \in [PostIds -> SUBSET Calls]
  <2>1. lineage' = [lineage EXCEPT ![req[c].postId] = base[c] \cup {c}]
    BY DEF StoreLikes
  <2> QED  BY <1>3, <2>1
<1>6. applied' \subseteq Calls /\ users' = users
  BY <1>3 DEF StoreLikes
<1> QED  BY <1>4, <1>5, <1>6

\* What toggleLike computes from a document.
LEMMA ToggledType ==
  ASSUME NEW post \in Post, NEW u \in UserIds \cup {Null}
  PROVE  /\ Pushed(post, u).likes \in Seq(UserIds \cup {Null})
         /\ Pushed(post, u).likesCount \in Int
         /\ Len(Pushed(post, u).likes) = Len(post.likes) + 1
         /\ Spliced(post).likes \in Seq(UserIds \cup {Null})
         /\ Spliced(post).likesCount \in Int
         /\ Len(Spliced(post).likes) >= Len(post.likes) - 1
<1>1. post.likes \in Seq(UserIds \cup {Null}) /\ post.likesCount \in Int
  BY DEF Post
<1>2. CASE post.likes = <<>>
  BY <1>1, <1>2 DEF Pushed, Spliced
<1>3. CASE post.likes # <<>>
  <2>1. Len(post.likes) \in Nat \ {0}
    BY <1>1, <1>3
  <2>2. /\ SubSeq(post.likes, 1, Len(post.likes) - 1) \in Seq(UserIds \cup {Null})
        /\ Len(SubSeq(post.likes, 1, Len(post.likes) - 1)) = Len(post.likes) - 1
    BY <1>1, <2>1
  <2> QED  BY <1>1, <1>3, <2>1, <2>2 DEF Pushed, Spliced
<1> QED  BY <1>2, <1>3

\* What a look-up leaves in the local variables.
LEMMA LocalType ==
  ASSUME TypeOK, NEW c \in Calls
  PROVE  /\ \A u \in UserIds \cup {Null} : [local EXCEPT ![c].userId = u] \in [Calls -> Local]
         /\ \A b \in BOOLEAN : [local EXCEPT ![c].emailFree = b] \in [Calls -> Local]
<1>1. local \in [Calls -> Local] /\ local[c] \in Local
  BY DEF TypeOK
<1>2. ASSUME NEW u \in UserIds \cup {Null}
      PROVE  [local EXCEPT ![c].userId = u] \in [Calls -> Local]
  <2>1. [local[c] EXCEPT !.userId = u] \in Local
    BY <1>1 DEF Local
  <2> QED  BY <1>1, <2>1
<1>3. ASSUME NEW b \in BOOLEAN
      PROVE  [local EXCEPT ![c].emailFree = b] \in [Calls -> Local]
  <2>1. [local[c] EXCEPT !.emailFree = b] \in Local
    BY <1>1 DEF Local
  <2> QED  BY <1>1, <2>1
<1> QED  BY <1>2, <1>3

\* The type invariant is preserved by every step.
LEMMA TypingStep ==
  ASSUME Typing, [Next]_vars
  PROVE  Typing'
<1>1. CASE UNCHANGED vars
  BY <1>1 DEF Typing, TypeOK, RequestOf, vars, IsLogin
<1>2. SUFFICES ASSUME NEW c \in Calls, Step(c)
               PROVE  Typing'
  BY <1>1 DEF Next
<1>3. CASE LoginCall(c)
  BY <1>3, InvokeTyping DEF LoginCall
<1>4. CASE PostCall(c)
  BY <1>4, InvokeTyping DEF PostCall
<1>5. CASE LikeCall(c)
  BY <1>5, InvokeTyping DEF LikeCall
<1>6. CASE UnlikeCall(c)
  BY <1>6, InvokeTyping DEF UnlikeCall
<1>7. CASE LoginFound(c)
  <2>1. TypeOK'
    <3> DEFINE docs == UsersWithPair(TrimmedEmail(c), TrimmedUsername(c))
    <3>1. docs \subseteq User /\ docs # {}
      BY <1>7 DEF Typing, TypeOK, LoginFound, UsersWithPair, UsersWithEmail
    <3>2. LastId(docs) \in Int \cup {Null}
      BY <3>1, LastIdOfSome DEF UserIds
    <3>3. Answer(c, LastId(docs), "found") /\ UNCHANGED <<users, posts, req, local, history>>
      BY <1>7 DEF LoginFound
    <3> HIDE DEF docs
    <3> QED  BY <3>2, <3>3, AnswerType DEF Typing, TypeOK, Outcomes, history
  <2>2. \A d \in Calls : RequestOf(d)'
    BY <1>7 DEF Typing, TypeOK, RequestOf, LoginFound, Answer, history, IsLogin
  <2> QED  BY <2>1, <2>2 DEF Typing
<1>8. CASE LoginNoPair(c)
  <2>1. TypeOK'
    BY <1>8 DEF Typing, TypeOK, LoginNoPair, Await, history, Phases, Waiting
  <2>2. \A d \in Calls : RequestOf(d)'
    BY <1>8 DEF Typing, TypeOK, RequestOf, LoginNoPair, Await, history, IsLogin
  <2> QED  BY <2>1, <2>2 DEF Typing
<1>9. CASE LoginByEmail(c)
  <2>1. TypeOK'
    <3> DEFINE free == UsersWithEmail(TrimmedEmail(c)) = {}
    <3>1. free \in BOOLEAN /\ local' = [local EXCEPT ![c].emailFree = free]
      BY <1>9 DEF LoginByEmail
    <3> HIDE DEF free
    <3>2. local' \in [Calls -> Local]
      BY <3>1, LocalType DEF Typing
    <3> QED  BY <1>9, <3>2 DEF Typing, TypeOK, LoginByEmail, Await, history, Phases, Waiting
  <2>2. \A d \in Calls : RequestOf(d)'
    BY <1>9 DEF Typing, TypeOK, RequestOf, LoginByEmail, Await, history, IsLogin
  <2> QED  BY <2>1, <2>2 DEF Typing
<1>10. CASE LoginFree(c)
  <2>1. TypeOK'
    BY <1>10 DEF Typing, TypeOK, LoginFree, Await, history, Phases, Waiting
  <2>2. \A d \in Calls : RequestOf(d)'
    BY <1>10 DEF Typing, TypeOK, RequestOf, LoginFree, Await, history, IsLogin
  <2> QED  BY <2>1, <2>2 DEF Typing
<1>11. CASE LoginRefused(c)
  <2>1. TypeOK'
    BY <1>11, AnswerType DEF Typing, TypeOK, LoginRefused, Outcomes, history
  <2>2. \A d \in Calls : RequestOf(d)'
    BY <1>11 DEF Typing, TypeOK, RequestOf, LoginRefused, Answer, history, IsLogin
  <2> QED  BY <2>1, <2>2 DEF Typing
<1>12. CASE LoginAdd(c)
  <2>1. TypeOK'
    <3>1. PICK i \in UserIds : StoreUser(c, i) /\ Answer(c, i, "created")
      BY <1>12 DEF LoginAdd
    <3>2. IsLogin(c) /\ i \in Int
      BY <1>12 DEF Typing, RequestOf, LoginAdd, UserIds
    <3> QED  BY <1>12, <3>1, <3>2, StoreUserType, AnswerType DEF Typing, TypeOK, LoginAdd, Outcomes
  <2>2. \A d \in Calls : RequestOf(d)'
    BY <1>12 DEF Typing, TypeOK, RequestOf, LoginAdd, Answer, history, IsLogin
  <2> QED  BY <2>1, <2>2 DEF Typing
<1>13. CASE PostAuthor(c)
  <2>1. TypeOK'
    <3>1. LastId(UsersWithUsername(req[c].username)) \in UserIds \cup {Null}
      BY LastIdType DEF Typing, TypeOK, UsersWithUsername
    <3>2. local' \in [Calls -> Local]
      BY <1>13, <3>1, LocalType DEF Typing, PostAuthor
    <3> QED  BY <1>13, <3>2 DEF Typing, TypeOK, PostAuthor, Await, history, Phases, Waiting
  <2>2. \A d \in Calls : RequestOf(d)'
    BY <1>13 DEF Typing, TypeOK, RequestOf, PostAuthor, Await, history, IsLogin
  <2> QED  BY <2>1, <2>2 DEF Typing
<1>14. CASE PostAdd(c)
  <2>1. TypeOK'
    <3>1. PICK p \in PostIds : StorePost(c, p) /\ Answer(c, p, "posted")
      BY <1>14 DEF PostAdd
    <3>2. p \in Int
      BY DEF PostIds
    <3> QED  BY <1>14, <3>1, <3>2, StorePostType, AnswerType DEF Typing, TypeOK, PostAdd, Outcomes
  <2>2. \A d \in Calls : RequestOf(d)'
    BY <1>14 DEF Typing, TypeOK, RequestOf, PostAdd, Answer, history, IsLogin
  <2> QED  BY <2>1, <2>2 DEF Typing
<1>15. CASE LikeUser(c)
  <2>1. TypeOK'
    <3>1. LastId(UsersWithUsername(req[c].username)) \in UserIds \cup {Null}
      BY LastIdType DEF Typing, TypeOK, UsersWithUsername
    <3>2. local' \in [Calls -> Local]
      BY <1>15, <3>1, LocalType DEF Typing, LikeUser
    <3> QED  BY <1>15, <3>2 DEF Typing, TypeOK, LikeUser, Await, history, Phases, Waiting
  <2>2. \A d \in Calls : RequestOf(d)'
    BY <1>15 DEF Typing, TypeOK, RequestOf, LikeUser, Await, history, IsLogin
  <2> QED  BY <2>1, <2>2 DEF Typing
<1>16. CASE LikeRead(c)
  <2>1. TypeOK'
    <3> DEFINE post == posts[req[c].postId]
               new  == IF req[c].op = "like" THEN Pushed(post, local[c].userId)
                                             ELSE Spliced(post)
    <3>1. req[c].postId \in PostIds
      BY <1>16 DEF Typing, RequestOf, LikeRead, Await
    <3>2. post \in Post /\ local[c].userId \in UserIds \cup {Null}
      BY <3>1 DEF Typing, TypeOK, Local
    <3>3. new.likes \in Seq(UserIds \cup {Null}) /\ new.likesCount \in Int
      BY <3>2, ToggledType
    <3>4. local' = [local EXCEPT ![c].likes = new.likes, ![c].likesCount = new.likesCount]
      BY <1>16 DEF LikeRead
    <3>5. local' \in [Calls -> Local]
      <4> HIDE DEF new
      <4>1. local \in [Calls -> Local] /\ local[c] \in Local
        BY DEF Typing, TypeOK
      <4>2. [local[c] EXCEPT !.likes = new.likes, !.likesCount = new.likesCount] \in Local
        BY <3>3, <4>1 DEF Local
      <4> QED  BY <3>4, <4>1, <4>2
    <3>6. base' \in [Calls -> SUBSET Calls]
      BY <1>16, <3>1 DEF Typing, TypeOK, LikeRead
    <3> QED  BY <1>16, <3>5, <3>6 DEF Typing, TypeOK, LikeRead, Await, Phases, Waiting
  <2>2. \A d \in Calls : RequestOf(d)'
    BY <1>16 DEF Typing, TypeOK, RequestOf, LikeRead, Await, history, IsLogin
  <2> QED  BY <2>1, <2>2 DEF Typing
<1>17. CASE LikeMissing(c)
  <2>1. TypeOK'
    BY <1>17, AnswerType DEF Typing, TypeOK, LikeMissing, Outcomes, history
  <2>2. \A d \in Calls : RequestOf(d)'
    BY <1>17 DEF Typing, TypeOK, RequestOf, LikeMissing, Answer, history, IsLogin
  <2> QED  BY <2>1, <2>2 DEF Typing
<1>18. CASE LikeUpdate(c)
  <2>1. TypeOK'
    <3>1. req[c] # Null /\ req[c].op \in {"like", "unlike"} /\ local[c].likesCount \in Int
      BY <1>18 DEF Typing, TypeOK, RequestOf, LikeUpdate, Local
    <3> QED  BY <1>18, <3>1, StoreLikesType, AnswerType DEF Typing, TypeOK, LikeUpdate, Outcomes
  <2>2. \A d \in Calls : RequestOf(d)'
    BY <1>18 DEF Typing, TypeOK, RequestOf, LikeUpdate, Answer, history, IsLogin
  <2> QED  BY <2>1, <2>2 DEF Typing
<1>19. CASE Throw(c)
  <2>1. TypeOK'
    BY <1>19, AnswerType DEF Typing, TypeOK, Throw, Outcomes, history
  <2>2. \A d \in Calls : RequestOf(d)'
    BY <1>19 DEF Typing, TypeOK, RequestOf, Throw, Answer, Waiting, history, IsLogin
  <2> QED  BY <2>1, <2>2 DEF Typing
<1>20. CASE ThrowUnresolved(c)
  <2>1. TypeOK'
    BY <1>20 DEF Typing, TypeOK, ThrowUnresolved, Phases, Outcomes, history
  <2>2. \A d \in Calls : RequestOf(d)'
    BY <1>20 DEF Typing, TypeOK, RequestOf, ThrowUnresolved, Writing, history, IsLogin
  <2> QED  BY <2>1, <2>2 DEF Typing
<1>21. CASE LateWrite(c)
  <2>1. TypeOK'
    <3>1. /\ pc' \in [Calls -> Phases]
          /\ UNCHANGED <<req, local, reply, knew, base>>
      BY <1>21 DEF Typing, TypeOK, LateWrite, Settle, Await, Phases
    <3>2. req[c] # Null
      BY <1>21 DEF Typing, RequestOf, LateWrite, Settle, Await
    <3>3. CASE req[c].op = "login" /\ \E i \in UserIds : StoreUser(c, i)
      BY <3>1, <3>2, <3>3, StoreUserType DEF Typing, TypeOK, IsLogin
    <3>4. CASE req[c].op = "post" /\ \E p \in PostIds : StorePost(c, p)
      BY <3>1, <3>4, StorePostType DEF Typing, TypeOK
    <3>5. CASE req[c].op \in {"like", "unlike"} /\ StoreLikes(c)
      BY <3>1, <3>2, <3>5, StoreLikesType DEF Typing, TypeOK
    <3> QED  BY <1>21, <3>3, <3>4, <3>5 DEF LateWrite
  <2>2. \A d \in Calls : RequestOf(d)'
    BY <1>21 DEF Typing, TypeOK, RequestOf, LateWrite, Settle, Await, history, IsLogin
  <2> QED  BY <2>1, <2>2 DEF Typing
<1>22. CASE LostWrite(c)
  <2>1. TypeOK'
    BY <1>22 DEF Typing, TypeOK, LostWrite, Settle, Await, Phases
  <2>2. \A d \in Calls : RequestOf(d)'
    BY <1>22 DEF Typing, TypeOK, RequestOf, LostWrite, Settle, Await, history, IsLogin
  <2> QED  BY <2>1, <2>2 DEF Typing
<1> QED  BY <1>2, <1>3, <1>4, <1>5, <1>6, <1>7, <1>8, <1>9, <1>10, <1>11, <1>12, <1>13, <1>14, <1>15, <1>16, <1>17, <1>18, <1>19, <1>20, <1>21, <1>22 DEF Step, Proceed

LEMMA InitTyping == Init => Typing
<1> SUFFICES ASSUME Init PROVE Typing
  OBVIOUS
<1>1. users \subseteq User
  BY SeedAssumption DEF Init
<1>2. posts \in [PostIds -> Post]
  <2>1. ASSUME NEW p \in PostIds, NEW e \in BOOLEAN
        PROVE  [NoPost EXCEPT !.exists = e] \in Post
    <3>1. [NoPost EXCEPT !.exists = e] =
            [exists |-> e, author |-> Null, likes |-> <<>>, likesCount |-> 0]
      BY DEF NoPost
    <3>2. <<>> \in Seq(UserIds \cup {Null}) /\ 0 \in Int /\ Null \in UserIds \cup {Null}
      OBVIOUS
    <3>3. [exists |-> e, author |-> Null, likes |-> <<>>, likesCount |-> 0] \in Post
      BY <3>2, Zenon DEF Post
    <3> QED  BY <3>1, <3>3
  <2>2. \A p \in PostIds : (p \in SeedPosts) \in BOOLEAN
    OBVIOUS
  <2> QED  BY <2>1, <2>2 DEF Init
<1>3. local \in [Calls -> Local]
  BY DEF Init, Local
<1>4. reply \in [Calls -> [value : Int \cup {Null}, how : Outcomes]]
  BY DEF Init, NoReply, Outcomes
<1>5. TypeOK
  BY <1>1, <1>2, <1>3, <1>4 DEF Init, TypeOK, Phases
<1>6. \A c \in Calls : RequestOf(c)
  BY DEF Init, RequestOf, NoReply, IsLogin
<1> QED  BY <1>5, <1>6 DEF Typing

LEMMA TypingInvariant == Spec => []Typing
<1>1. Typing /\ [Next]_vars => Typing'
  BY TypingStep
<1> QED  BY <1>1, InitTyping, PTL DEF Spec

\* Type correctness: every store, request, local variable and answer has the
\* shape that index.js gives it, for any number of concurrent invocations.
THEOREM TypeCorrect == Spec => []TypeOK
<1>1. Typing => TypeOK
  BY DEF Typing
<1> QED  BY <1>1, TypingInvariant, PTL

-----------------------------------------------------------------------------
(* Frames: what the step of an invocation leaves alone *)

LEMMA OthersUnchanged ==
  ASSUME Typing, NEW c \in Calls, Step(c), NEW d \in Calls, d # c
  PROVE  /\ pc'[d] = pc[d] /\ req'[d] = req[d] /\ local'[d] = local[d]
         /\ reply'[d] = reply[d] /\ knew'[d] = knew[d] /\ base'[d] = base[d]
BY DEF Typing, TypeOK, Step, Proceed, LoginCall, PostCall, LikeCall, UnlikeCall, Invoke,
   LoginFound, LoginNoPair, LoginByEmail, LoginFree, LoginRefused, LoginAdd, PostAuthor,
   PostAdd, LikeUser, LikeRead, LikeMissing, LikeUpdate, Throw, ThrowUnresolved, LateWrite,
   LostWrite, Settle, Answer, Await, history

\* A request and what was known when it arrived stay as they are.
LEMMA RequestFixed ==
  ASSUME Typing, NEW c \in Calls, Step(c), pc[c] # "idle"
  PROVE  req' = req /\ knew' = knew
BY DEF Typing, TypeOK, Step, Proceed, LoginCall, PostCall, LikeCall, UnlikeCall, Invoke,
   LoginFound, LoginNoPair, LoginByEmail, LoginFree, LoginRefused, LoginAdd, PostAuthor,
   PostAdd, LikeUser, LikeRead, LikeMissing, LikeUpdate, Throw, ThrowUnresolved, LateWrite,
   LostWrite, Settle, history

\* The only steps that write a document.
LEMMA WritingSteps ==
  ASSUME Typing, NEW c \in Calls, Step(c)
  PROVE  \/ UNCHANGED <<users, posts>>
         \/ /\ pc[c] \in {"login.add", "limbo"} /\ IsLogin(c) /\ pc'[c] = "done"
            /\ \E i \in UserIds : StoreUser(c, i)
         \/ /\ pc[c] \in {"post.add", "limbo"} /\ req[c].op = "post" /\ pc'[c] = "done"
            /\ \E p \in PostIds : StorePost(c, p)
         \/ /\ pc[c] \in {"like.update", "limbo"} /\ req[c].op \in {"like", "unlike"}
            /\ req[c].postId \in PostIds /\ StoreLikes(c)
<1>1. CASE LoginAdd(c)
  BY <1>1 DEF Typing, TypeOK, RequestOf, LoginAdd, Answer
<1>2. CASE PostAdd(c)
  BY <1>2 DEF Typing, TypeOK, RequestOf, PostAdd, Answer
<1>3. CASE LikeUpdate(c)
  BY <1>3 DEF Typing, TypeOK, RequestOf, LikeUpdate, Answer
<1>4. CASE LateWrite(c)
  BY <1>4 DEF Typing, TypeOK, RequestOf, LateWrite, Settle, Await, IsLogin
<1> QED
  BY <1>1, <1>2, <1>3, <1>4 DEF Step, Proceed, LoginCall, PostCall, LikeCall, UnlikeCall,
     Invoke, LoginFound, LoginNoPair, LoginByEmail, LoginFree, LoginRefused, PostAuthor,
     LikeUser, LikeRead, LikeMissing, Throw, ThrowUnresolved, LostWrite

-----------------------------------------------------------------------------
(* Documents persist *)

LEMMA UsersGrow ==
  ASSUME Typing, [Next]_vars
  PROVE  users \subseteq users'
<1>1. CASE UNCHANGED vars
  BY <1>1 DEF vars
<1>2. CASE Next
  <2>1. PICK c \in Calls : Step(c)
    BY <1>2 DEF Next
  <2> QED  BY <2>1, WritingSteps DEF StoreUser, StorePost, StoreLikes
<1> QED  BY <1>1, <1>2

\* No invocation removes a document, rewrites a user or changes the author of a
\* post, whatever writes are applied late (index.js:34-38, 65-72, 106-109).
THEOREM DocumentsArePermanent == Spec => DocumentsPersist
<1>1. Typing /\ [Next]_vars => KeepsDocuments
  <2> SUFFICES ASSUME Typing, [Next]_vars PROVE KeepsDocuments
    OBVIOUS
  <2>1. users \subseteq users'
    BY UsersGrow
  <2>2. ASSUME NEW p \in PostIds, posts[p].exists
        PROVE  posts'[p].exists /\ posts'[p].author = posts[p].author
    <3>1. CASE UNCHANGED vars
      BY <2>2, <3>1 DEF vars
    <3>2. CASE Next
      <4>1. PICK c \in Calls : Step(c)
        BY <3>2 DEF Next
      <4>2. CASE UNCHANGED <<users, posts>>
        BY <2>2, <4>2
      <4>3. CASE \E i \in UserIds : StoreUser(c, i)
        BY <2>2, <4>3 DEF StoreUser
      <4>4. CASE \E q \in PostIds : StorePost(c, q)
        BY <2>2, <4>4 DEF Typing, TypeOK, StorePost, FreePostIds
      <4>5. CASE req[c].postId \in PostIds /\ StoreLikes(c)
        BY <2>2, <4>5 DEF Typing, TypeOK, StoreLikes, Post
      <4> QED  BY <4>1, <4>2, <4>3, <4>4, <4>5, WritingSteps
    <3> QED  BY <3>1, <3>2
  <2> QED  BY <2>1, <2>2 DEF KeepsDocuments
<1> QED  BY <1>1, TypingInvariant, PTL DEF Spec, DocumentsPersist

-----------------------------------------------------------------------------
(* likesCount and likes *)

LEMMA CountStep ==
  ASSUME Typing, CountNeverExceedsLikes, NEW c \in Calls, Step(c)
  PROVE  CountNeverExceedsLikes'
<1>1. ASSUME NEW d \in Calls
      PROVE  local'[d].likesCount <= Len(local'[d].likes)
  <2>1. CASE LikeRead(c) /\ d = c
    <3> DEFINE post == posts[req[c].postId]
               new  == IF req[c].op = "like" THEN Pushed(post, local[c].userId)
                                             ELSE Spliced(post)
    <3>1. req[c].postId \in PostIds
      BY <2>1 DEF Typing, RequestOf, LikeRead, Await, IsLogin
    <3>2. post \in Post /\ local[c].userId \in UserIds \cup {Null}
      BY <3>1 DEF Typing, TypeOK, Local
    <3>3. post.likesCount <= Len(post.likes)
      BY <3>1 DEF CountNeverExceedsLikes
    <3>4. /\ Len(Pushed(post, local[c].userId).likes) = Len(post.likes) + 1
          /\ Len(Spliced(post).likes) >= Len(post.likes) - 1
          /\ Len(Spliced(post).likes) \in Nat
      BY <3>2, ToggledType
    <3>5. post.likesCount \in Int /\ Len(post.likes) \in Nat
      BY <3>2 DEF Post
    <3>6. /\ Pushed(post, local[c].userId).likesCount = post.likesCount + 1
          /\ Spliced(post).likesCount = post.likesCount - 1
      BY DEF Pushed, Spliced
    <3>7. new.likesCount <= Len(new.likes)
      <4> HIDE DEF post
      <4> QED  BY <3>3, <3>4, <3>5, <3>6
    <3>8. local'[c].likes = new.likes /\ local'[c].likesCount = new.likesCount
      <4> HIDE DEF new
      <4>1. local' = [local EXCEPT ![c].likes = new.likes, ![c].likesCount = new.likesCount]
        BY <2>1 DEF LikeRead, new
      <4> QED  BY <4>1 DEF Typing, TypeOK, Local
    <3> QED  BY <2>1, <3>7, <3>8
  <2>2. CASE ~(LikeRead(c) /\ d = c)
    <3>1. local'[d].likes = local[d].likes /\ local'[d].likesCount = local[d].likesCount
      <4>1. CASE d # c
        BY <4>1, OthersUnchanged
      <4>2. CASE d = c
        BY <2>2, <4>2 DEF Typing, TypeOK, Local, Step, Proceed, LoginCall, PostCall, LikeCall,
           UnlikeCall, Invoke, LoginFound, LoginNoPair, LoginByEmail, LoginFree, LoginRefused,
           LoginAdd, PostAuthor, PostAdd, LikeUser, LikeMissing, LikeUpdate, Throw,
           ThrowUnresolved, LateWrite, LostWrite, Settle
      <4> QED  BY <4>1, <4>2
    <3> QED  BY <3>1 DEF CountNeverExceedsLikes
  <2> QED  BY <2>1, <2>2
<1>2. ASSUME NEW p \in PostIds
      PROVE  posts'[p].likesCount <= Len(posts'[p].likes)
  <2>1. CASE UNCHANGED <<users, posts>> \/ \E i \in UserIds : StoreUser(c, i)
    BY <2>1 DEF CountNeverExceedsLikes, StoreUser
  <2>2. CASE \E q \in PostIds : StorePost(c, q)
    BY <2>2 DEF Typing, TypeOK, CountNeverExceedsLikes, StorePost
  <2>3. CASE req[c].postId \in PostIds /\ StoreLikes(c)
    BY <2>3 DEF Typing, TypeOK, CountNeverExceedsLikes, StoreLikes, Post
  <2> QED  BY <2>1, <2>2, <2>3, WritingSteps
<1> QED  BY <1>1, <1>2 DEF CountNeverExceedsLikes

\* A post never claims more likes than its array holds, however likes and unlikes
\* overlap, fail or arrive late (index.js:94-109).
THEOREM CountIsBounded == Spec => []CountNeverExceedsLikes
<1>1. Init => CountNeverExceedsLikes
  BY DEF Init, CountNeverExceedsLikes, NoPost
<1>2. Typing /\ CountNeverExceedsLikes /\ [Next]_vars => CountNeverExceedsLikes'
  BY CountStep DEF Next, CountNeverExceedsLikes, vars
<1> QED  BY <1>1, <1>2, TypingInvariant, PTL DEF Spec

-----------------------------------------------------------------------------
(* What a login or a post in progress has established *)

Knowledge(c) ==
  /\ knew[c].users \subseteq users
  /\ pc[c] = "login.username" /\ local[c].emailFree =>
       \A v \in knew[c].users : v.email # TrimmedEmail(c)
  /\ pc[c] = "login.username" /\ ~local[c].emailFree =>
       \E u \in users : u.email = TrimmedEmail(c)
  /\ pc[c] = "login.add" \/ (pc[c] = "limbo" /\ IsLogin(c)) =>
       \A v \in knew[c].users : ~Conflicts(v, c)
  /\ pc[c] = "post.add" \/ (pc[c] = "limbo" /\ req[c].op = "post") =>
       Credited(local[c].userId, c)

Informed == \A c \in Calls : Knowledge(c)

LEMMA KnowledgeOfOthers ==
  ASSUME Typing, NEW d \in Calls, Knowledge(d), users \subseteq users',
         pc'[d] = pc[d], req'[d] = req[d], local'[d] = local[d], knew'[d] = knew[d]
  PROVE  Knowledge(d)'
BY DEF Knowledge, Credited, IsLogin, Conflicts, TrimmedEmail, TrimmedUsername

LEMMA KnowledgeStep ==
  ASSUME Typing, Informed, NEW c \in Calls, Step(c)
  PROVE  Knowledge(c)'
<1> USE DEF Typing, TypeOK, Informed
<1>1. users \subseteq users'
  BY UsersGrow DEF Next
<1>2. CASE LoginCall(c) \/ PostCall(c) \/ LikeCall(c) \/ UnlikeCall(c)
  BY <1>2 DEF LoginCall, PostCall, LikeCall, UnlikeCall, Invoke, Knowledge, RequestOf
<1>3. CASE LoginNoPair(c)
  BY <1>3 DEF LoginNoPair, Await, history, Knowledge, RequestOf
<1>4. CASE LoginByEmail(c)
  <2>1. IsLogin(c) /\ UNCHANGED <<users, req, knew>> /\ pc'[c] = "login.username"
    BY <1>4 DEF LoginByEmail, Await, history, RequestOf
  <2>2. local'[c].emailFree <=> UsersWithEmail(TrimmedEmail(c)) = {}
    BY <1>4 DEF LoginByEmail, Local
  <2>3. TrimmedEmail(c)' = TrimmedEmail(c)
    BY <2>1 DEF TrimmedEmail
  <2> QED  BY <2>1, <2>2, <2>3 DEF Knowledge, UsersWithEmail
<1>5. CASE LoginFree(c)
  BY <1>5 DEF LoginFree, Await, history, Knowledge, RequestOf, MayRegister, UsersWithUsername,
     Conflicts, TrimmedEmail, TrimmedUsername
<1>6. CASE LoginFound(c) \/ LoginRefused(c) \/ LoginAdd(c) \/ PostAdd(c) \/ LikeMissing(c)
           \/ LikeUpdate(c) \/ Throw(c)
  BY <1>1, <1>6 DEF LoginFound, LoginRefused, LoginAdd, PostAdd, LikeMissing, LikeUpdate,
     Throw, Answer, history, Knowledge
<1>7. CASE PostAuthor(c)
  <2> DEFINE docs == UsersWithUsername(req[c].username)
  <2>1. UNCHANGED <<users, req, knew>> /\ pc'[c] = "post.add" /\ req[c].op = "post"
    BY <1>7 DEF PostAuthor, Await, history, RequestOf
  <2>2. local'[c].userId = LastId(docs)
    BY <1>7 DEF PostAuthor, Local
  <2>3. docs \subseteq User
    BY DEF UsersWithUsername
  <2>4. CASE docs = {}
    BY <2>1, <2>2, <2>4 DEF Knowledge, Credited, UsersWithUsername, LastId
  <2>5. CASE docs # {}
    <3>1. PICK u \in docs : u.id = LastId(docs)
      BY <2>3, <2>5, LastIdOfSome
    <3>2. u \in users /\ u.username = req[c].username
      BY DEF UsersWithUsername
    <3>3. Credited(local[c].userId, c)'
      BY <2>1, <2>2, <3>1, <3>2 DEF Credited
    <3>4. knew[c].users \subseteq users
      BY DEF Knowledge
    <3> QED  BY <2>1, <3>3, <3>4 DEF Knowledge
  <2> QED  BY <2>4, <2>5
<1>8. CASE LikeUser(c) \/ LikeRead(c)
  BY <1>8 DEF LikeUser, LikeRead, Await, history, Knowledge
<1>9. CASE ThrowUnresolved(c)
  <2>1. UNCHANGED <<users, req, local, knew>> /\ pc[c] \in Writing /\ pc'[c] = "limbo"
    BY <1>9 DEF ThrowUnresolved, history
  <2>2. /\ IsLogin(c) => pc[c] = "login.add"
        /\ req[c].op = "post" => pc[c] = "post.add"
    BY <2>1 DEF RequestOf, Writing, IsLogin
  <2> QED  BY <2>1, <2>2 DEF Knowledge, Credited, IsLogin, Conflicts, TrimmedEmail,
              TrimmedUsername
<1>10. CASE LateWrite(c) \/ LostWrite(c)
  BY <1>1, <1>10 DEF LateWrite, LostWrite, Settle, Await, Knowledge
<1> QED
  BY <1>2, <1>3, <1>4, <1>5, <1>6, <1>7, <1>8, <1>9, <1>10 DEF Step, Proceed

LEMMA InformedInvariant == Spec => []Informed
<1>1. Init => Informed
  BY DEF Init, Informed, Knowledge
<1>2. Typing /\ Informed /\ [Next]_vars => Informed'
  <2> SUFFICES ASSUME Typing, Informed, [Next]_vars, NEW d \in Calls PROVE Knowledge(d)'
    BY DEF Informed
  <2>1. users \subseteq users' /\ Knowledge(d)
    BY UsersGrow DEF Informed
  <2>2. CASE UNCHANGED vars
    BY <2>1, <2>2, KnowledgeOfOthers DEF vars
  <2>3. CASE Next
    <3>1. PICK c \in Calls : Step(c)
      BY <2>3 DEF Next
    <3>2. CASE d = c
      BY <3>1, <3>2, KnowledgeStep
    <3>3. CASE d # c
      BY <2>1, <3>1, <3>3, OthersUnchanged, KnowledgeOfOthers
    <3> QED  BY <3>2, <3>3
  <2> QED  BY <2>2, <2>3
<1> QED  BY <1>1, <1>2, TypingInvariant, PTL DEF Spec

\* login registers only pairs of which neither half belonged to a user that existed
\* when it was called (index.js:31-38).
THEOREM RegistrationIsSound == Spec => DuplicatesNeedOverlap
<1>1. Typing /\ Informed /\ [Next]_vars => [RegistersOnlyNew]_vars
  <2> SUFFICES ASSUME Typing, Informed, Next, NEW u \in users' \ users
               PROVE  \E c \in Calls : /\ pc[c] \in {"login.add", "limbo"} /\ IsLogin(c)
                                       /\ pc'[c] = "done"
                                       /\ u.email = TrimmedEmail(c)
                                       /\ u.username = TrimmedUsername(c)
                                       /\ \A v \in knew[c].users : ~Conflicts(v, c)
    BY DEF RegistersOnlyNew
  <2>1. PICK c \in Calls : Step(c)
    BY DEF Next
  <2>2. /\ pc[c] \in {"login.add", "limbo"} /\ IsLogin(c) /\ pc'[c] = "done"
        /\ \E i \in UserIds : StoreUser(c, i)
    BY <2>1, WritingSteps DEF StorePost, StoreLikes
  <2>3. \A v \in knew[c].users : ~Conflicts(v, c)
    BY <2>2 DEF Informed, Knowledge
  <2>4. u.email = TrimmedEmail(c) /\ u.username = TrimmedUsername(c)
    BY <2>2 DEF StoreUser
  <2> QED  BY <2>2, <2>3, <2>4
<1> QED  BY <1>1, TypingInvariant, InformedInvariant, PTL DEF Spec, DuplicatesNeedOverlap

\* Every post carries the id of a user of the caller's username, or null when nobody
\* had that username when post was called (index.js:58-72).
THEOREM CreditIsSound == Spec => PostsAreCredited
<1>1. Typing /\ Informed /\ [Next]_vars => [CreditsNewPosts]_vars
  <2> SUFFICES ASSUME Typing, Informed, Next, NEW p \in PostIds,
                      posts'[p].exists, ~posts[p].exists
               PROVE  \E c \in Calls : /\ pc[c] \in {"post.add", "limbo"} /\ req[c].op = "post"
                                       /\ pc'[c] = "done"
                                       /\ Credited(posts'[p].author, c)
    BY DEF CreditsNewPosts
  <2>1. PICK c \in Calls : Step(c)
    BY DEF Next
  <2>2. ~UNCHANGED <<users, posts>> /\ ~\E i \in UserIds : StoreUser(c, i)
    BY DEF StoreUser
  <2>3. ~(req[c].postId \in PostIds /\ StoreLikes(c))
    <3> SUFFICES ASSUME req[c].postId \in PostIds, StoreLikes(c) PROVE FALSE
      OBVIOUS
    <3>1. CASE p # req[c].postId
      BY <3>1 DEF Typing, TypeOK, StoreLikes
    <3>2. CASE p = req[c].postId
      <4>1. posts'[p] = [posts[p] EXCEPT !.likes = local[c].likes,
                                         !.likesCount = local[c].likesCount]
        BY <3>2 DEF Typing, TypeOK, StoreLikes
      <4>2. posts[p] \in Post
        BY DEF Typing, TypeOK
      <4>3. posts'[p].exists = posts[p].exists
        BY <4>1, <4>2 DEF Post
      <4> QED  BY <4>3
    <3> QED  BY <3>1, <3>2
  <2>4. /\ pc[c] \in {"post.add", "limbo"} /\ req[c].op = "post" /\ pc'[c] = "done"
        /\ \E q \in PostIds : StorePost(c, q)
    BY <2>1, <2>2, <2>3, WritingSteps
  <2>5. posts'[p].author = local[c].userId
    BY <2>4 DEF Typing, TypeOK, StorePost
  <2>6. Credited(local[c].userId, c)
    BY <2>4 DEF Informed, Knowledge
  <2> QED  BY <2>4, <2>5, <2>6
<1> QED  BY <1>1, TypingInvariant, InformedInvariant, PTL DEF Spec, PostsAreCredited

-----------------------------------------------------------------------------
(* Answers of login *)

\* The id that login answers is that of a document with the requested e-mail and
\* the requested username, also when several invocations register at once
\* (index.js:22-40).
LoginAnswersTheRequestedUser ==
  \A c \in Calls :
    IsLogin(c) /\ reply[c].how \in {"found", "created"} =>
      \E u \in users : /\ u.id = reply[c].value
                       /\ u.email = TrimmedEmail(c)
                       /\ u.username = TrimmedUsername(c)

LEMMA AnswersStep ==
  ASSUME Typing, LoginAnswersTheRequestedUser, NEW c \in Calls, Step(c)
  PROVE  LoginAnswersTheRequestedUser'
<1> SUFFICES ASSUME NEW d \in Calls, IsLogin(d)', reply'[d].how \in {"found", "created"}
             PROVE  \E u \in users' : /\ u.id = reply'[d].value
                                      /\ u.email = TrimmedEmail(d)'
                                      /\ u.username = TrimmedUsername(d)'
  BY DEF LoginAnswersTheRequestedUser
<1>1. users \subseteq users'
  BY UsersGrow DEF Next
<1>2. CASE d = c /\ LoginFound(c)
  <2> DEFINE docs == UsersWithPair(TrimmedEmail(c), TrimmedUsername(c))
  <2>1. docs \subseteq users /\ docs # {} /\ docs \subseteq User
    BY <1>2 DEF Typing, TypeOK, LoginFound, UsersWithPair, UsersWithEmail
  <2>2. PICK u \in docs : u.id = LastId(docs)
    BY <2>1, LastIdOfSome
  <2>3. u.email = TrimmedEmail(c) /\ u.username = TrimmedUsername(c)
    BY <2>2 DEF UsersWithPair, UsersWithEmail, UsersWithUsername
  <2>4. reply'[c].value = LastId(docs) /\ req' = req
    BY <1>2 DEF Typing, TypeOK, LoginFound, Answer
  <2>5. TrimmedEmail(c)' = TrimmedEmail(c) /\ TrimmedUsername(c)' = TrimmedUsername(c)
    BY <2>4 DEF TrimmedEmail, TrimmedUsername
  <2>6. u \in users'
    BY <1>1, <2>1
  <2>7. /\ u.id = reply'[c].value
        /\ u.email = TrimmedEmail(c)' /\ u.username = TrimmedUsername(c)'
    BY <2>2, <2>3, <2>4, <2>5
  <2> HIDE DEF docs
  <2> QED  BY <1>2, <2>6, <2>7
<1>3. CASE d = c /\ LoginAdd(c)
  <2>1. PICK i \in UserIds : StoreUser(c, i) /\ Answer(c, i, "created")
    BY <1>3 DEF LoginAdd
  <2>2. reply'[c].value = i /\ req' = req
    BY <1>3, <2>1 DEF Typing, TypeOK, Answer, LoginAdd
  <2>3. TrimmedEmail(c)' = TrimmedEmail(c) /\ TrimmedUsername(c)' = TrimmedUsername(c)
    BY <2>2 DEF TrimmedEmail, TrimmedUsername
  <2>4. PICK u \in users' : /\ u.id = i
                            /\ u.email = TrimmedEmail(c)
                            /\ u.username = TrimmedUsername(c)
    <3> DEFINE new == [id |-> i, email |-> TrimmedEmail(c), username |-> TrimmedUsername(c)]
    <3>1. new \in users'
      BY <2>1 DEF StoreUser
    <3>2. new.id = i /\ new.email = TrimmedEmail(c) /\ new.username = TrimmedUsername(c)
      OBVIOUS
    <3> HIDE DEF new
    <3> QED  BY <3>1, <3>2
  <2> QED  BY <1>3, <2>2, <2>3, <2>4
<1>4. CASE d = c /\ ~LoginFound(c) /\ ~LoginAdd(c)
  <2>1. CASE pc[c] = "idle"
    BY <1>4, <2>1 DEF Typing, TypeOK, RequestOf, Step, Proceed, LoginCall, PostCall, LikeCall,
       UnlikeCall, Invoke, LoginNoPair, LoginByEmail, LoginFree, LoginRefused, PostAuthor,
       PostAdd, LikeUser, LikeRead, LikeMissing, LikeUpdate, Throw, ThrowUnresolved, LateWrite,
       LostWrite, Settle, Await, Waiting, Writing, NoReply
  <2>2. CASE pc[c] # "idle"
    <3>1. req' = req
      BY <2>2, RequestFixed
    <3>2. reply'[c] = reply[c] \/ reply'[c].how \in {"refused", "failed"} \/ ~IsLogin(c)
      BY <1>4, <2>2 DEF Typing, TypeOK, RequestOf, Step, Proceed, LoginCall, PostCall, LikeCall,
         UnlikeCall, Invoke, LoginNoPair, LoginByEmail, LoginFree, LoginRefused, PostAuthor,
         PostAdd, LikeUser, LikeRead, LikeMissing, LikeUpdate, Throw, ThrowUnresolved,
         LateWrite, LostWrite, Settle, Answer, Await, IsLogin
    <3> QED  BY <1>1, <1>4, <3>1, <3>2
             DEF LoginAnswersTheRequestedUser, IsLogin, TrimmedEmail, TrimmedUsername
  <2> QED  BY <2>1, <2>2
<1>5. CASE d # c
  <2>1. reply'[d] = reply[d] /\ req'[d] = req[d]
    BY <1>5, OthersUnchanged
  <2> QED  BY <1>1, <2>1
           DEF LoginAnswersTheRequestedUser, IsLogin, TrimmedEmail, TrimmedUsername
<1> QED  BY <1>2, <1>3, <1>4, <1>5

\* The id that a login answers belongs, then and ever after, to a user with the
\* e-mail and the username of the request (index.js:22-40).
THEOREM LoginAnswersAreSound == Spec => []LoginAnswersTheRequestedUser
<1>1. Init => LoginAnswersTheRequestedUser
  BY DEF Init, LoginAnswersTheRequestedUser, IsLogin
<1>2. Typing /\ LoginAnswersTheRequestedUser /\ [Next]_vars => LoginAnswersTheRequestedUser'
  <2> SUFFICES ASSUME Typing, LoginAnswersTheRequestedUser, UNCHANGED vars
               PROVE  LoginAnswersTheRequestedUser'
    BY AnswersStep DEF Next
  <2> QED  BY DEF vars, LoginAnswersTheRequestedUser, IsLogin, TrimmedEmail, TrimmedUsername
<1> QED  BY <1>1, <1>2, TypingInvariant, PTL DEF Spec

-----------------------------------------------------------------------------
(* How an invocation runs *)

\* Where a handler stands on its way.
Rank(phase) ==
  CASE phase = "idle"                                      -> 0
    [] phase \in {"login.pair", "post.author", "like.user"} -> 1
    [] phase \in {"login.email", "like.read"}               -> 2
    [] phase = "login.username"                            -> 3
    [] phase \in Writing                                   -> 4
    [] phase = "limbo"                                     -> 5
    [] phase = "done"                                      -> 6

LEMMA RankStep ==
  ASSUME Typing, NEW c \in Calls, Step(c)
  PROVE  Rank(pc'[c]) > Rank(pc[c])
<1> USE DEF Typing, TypeOK, Rank, Writing
<1>1. CASE LoginCall(c) \/ PostCall(c) \/ LikeCall(c) \/ UnlikeCall(c)
  BY <1>1 DEF LoginCall, PostCall, LikeCall, UnlikeCall, Invoke
<1>2. CASE LoginFound(c) \/ LoginRefused(c) \/ LoginAdd(c)
  BY <1>2 DEF LoginFound, LoginRefused, LoginAdd, Answer
<1>3. CASE LoginNoPair(c) \/ LoginByEmail(c) \/ LoginFree(c) \/ PostAuthor(c)
  BY <1>3 DEF LoginNoPair, LoginByEmail, LoginFree, PostAuthor, Await
<1>4. CASE PostAdd(c) \/ LikeMissing(c) \/ LikeUpdate(c)
  BY <1>4 DEF PostAdd, LikeMissing, LikeUpdate, Answer
<1>5. CASE LikeUser(c) \/ LikeRead(c)
  BY <1>5 DEF LikeUser, LikeRead, Await
<1>6. CASE Throw(c) \/ ThrowUnresolved(c)
  BY <1>6 DEF Throw, ThrowUnresolved, Answer, Waiting
<1>7. CASE LateWrite(c) \/ LostWrite(c)
  BY <1>7 DEF LateWrite, LostWrite, Settle, Await
<1> QED
  BY <1>1, <1>2, <1>3, <1>4, <1>5, <1>6, <1>7 DEF Step, Proceed

AdvancesOnly ==
  \A c \in Calls : pc'[c] # pc[c] => Rank(pc'[c]) > Rank(pc[c])

\* A handler never returns to an await it has left: at most six steps after its call it
\* has ended, whatever the other invocations do (index.js:17-50, 52-79, 81-116: no
\* loop and no retry).
THEOREM HandlersAdvance == Spec => [][AdvancesOnly]_vars
<1>1. Typing /\ [Next]_vars => [AdvancesOnly]_vars
  <2> SUFFICES ASSUME Typing, NEW c \in Calls, Step(c) PROVE AdvancesOnly
    BY DEF Next
  <2> SUFFICES ASSUME NEW d \in Calls, pc'[d] # pc[d] PROVE Rank(pc'[d]) > Rank(pc[d])
    BY DEF AdvancesOnly
  <2>1. d = c
    BY OthersUnchanged
  <2> QED  BY <2>1, RankStep
<1> QED  BY <1>1, TypingInvariant, PTL DEF Spec

\* An answer is there exactly from the moment the handler returns, also while its write
\* is unresolved.
Answered(c) == reply[c] = NoReply <=> pc[c] \notin {"limbo", "done"}

LEMMA AnsweredStep ==
  ASSUME Typing, NEW c \in Calls, Answered(c), Step(c)
  PROVE  /\ Answered(c)'
         /\ reply[c] # NoReply => reply'[c] = reply[c]
<1> USE DEF Typing, TypeOK, Answered, NoReply
<1>1. CASE LoginCall(c) \/ PostCall(c) \/ LikeCall(c) \/ UnlikeCall(c)
  BY <1>1 DEF LoginCall, PostCall, LikeCall, UnlikeCall, Invoke
<1>2. CASE \E value, how : how # "none" /\ pc[c] \in Waiting /\ Answer(c, value, how)
  BY <1>2 DEF Answer, Waiting
<1>3. CASE pc[c] \in Waiting /\ pc'[c] \in Waiting /\ reply' = reply
  BY <1>3 DEF Waiting
<1>4. CASE ThrowUnresolved(c)
  BY <1>4 DEF ThrowUnresolved, Writing
<1>5. CASE LateWrite(c) \/ LostWrite(c)
  BY <1>5 DEF LateWrite, LostWrite, Settle, Await
<1>6. LoginFound(c) \/ LoginRefused(c) \/ LoginAdd(c) \/ PostAdd(c) \/ LikeMissing(c)
      \/ LikeUpdate(c) \/ Throw(c) =>
        \E value, how : how # "none" /\ pc[c] \in Waiting /\ Answer(c, value, how)
  BY DEF LoginFound, LoginRefused, LoginAdd, PostAdd, LikeMissing, LikeUpdate, Throw, Waiting
<1>7. LoginNoPair(c) \/ LoginByEmail(c) \/ LoginFree(c) \/ PostAuthor(c) \/ LikeUser(c)
      \/ LikeRead(c) => pc[c] \in Waiting /\ pc'[c] \in Waiting /\ reply' = reply
  BY DEF LoginNoPair, LoginByEmail, LoginFree, PostAuthor, LikeUser, LikeRead, Await, Waiting
<1> QED
  BY <1>1, <1>2, <1>3, <1>4, <1>5, <1>6, <1>7 DEF Step, Proceed

LEMMA AnsweredInvariant == Spec => [](\A c \in Calls : Answered(c))
<1>1. Init => \A c \in Calls : Answered(c)
  BY DEF Init, Answered
<1>2. Typing /\ (\A c \in Calls : Answered(c)) /\ [Next]_vars => (\A c \in Calls : Answered(c))'
  <2> SUFFICES ASSUME Typing, \A c \in Calls : Answered(c), [Next]_vars, NEW d \in Calls
               PROVE  Answered(d)'
    OBVIOUS
  <2>1. CASE UNCHANGED vars
    BY <2>1 DEF vars, Answered
  <2>2. ASSUME NEW c \in Calls, Step(c) PROVE Answered(d)'
    <3>1. CASE d = c
      BY <2>2, <3>1, AnsweredStep
    <3>2. CASE d # c
      BY <2>2, <3>2, OthersUnchanged DEF Answered
    <3> QED  BY <3>1, <3>2
  <2> QED  BY <2>1, <2>2 DEF Next
<1> QED  BY <1>1, <1>2, TypingInvariant, PTL DEF Spec

AnswersOnce ==
  \A c \in Calls : reply[c] # NoReply => reply'[c] = reply[c]

\* The answer of an invocation is final: a write that is applied or lost after the answer
\* null does not change it (index.js:46-49, 75-78, 112-115).
THEOREM AnswersAreFinal == Spec => [][AnswersOnce]_vars
<1>1. Typing /\ (\A c \in Calls : Answered(c)) /\ [Next]_vars => [AnswersOnce]_vars
  <2> SUFFICES ASSUME Typing, \A c \in Calls : Answered(c), NEW c \in Calls, Step(c),
                      NEW d \in Calls, reply[d] # NoReply
               PROVE  reply'[d] = reply[d]
    BY DEF Next, AnswersOnce
  <2>1. CASE d = c
    BY <2>1, AnsweredStep
  <2>2. CASE d # c
    BY <2>2, OthersUnchanged
  <2> QED  BY <2>1, <2>2
<1> QED  BY <1>1, TypingInvariant, AnsweredInvariant, PTL DEF Spec

-----------------------------------------------------------------------------
(* What the documents refer to *)

\* An id names at most one user.
IdsAreUnique == \A u, v \in users : u.id = v.id => u = v

\* The server gives a fresh id to every user that login adds, so the id that a client
\* keeps, and that posts and likes refer to, never becomes ambiguous
\* (index.js:34-38: users.add).
THEOREM IdsStayUnique == Spec => []IdsAreUnique
<1>1. Init => IdsAreUnique
  BY SeedAssumption DEF Init, IdsAreUnique
<1>2. Typing /\ IdsAreUnique /\ [Next]_vars => IdsAreUnique'
  <2> SUFFICES ASSUME Typing, IdsAreUnique, [Next]_vars PROVE IdsAreUnique'
    OBVIOUS
  <2>1. CASE UNCHANGED users
    BY <2>1 DEF IdsAreUnique
  <2>2. ASSUME NEW c \in Calls, NEW i \in UserIds, StoreUser(c, i) PROVE IdsAreUnique'
    BY <2>2 DEF StoreUser, FreeUserIds, IdsAreUnique
  <2>3. CASE Next
    BY <2>1, <2>2, <2>3, WritingSteps DEF Next, StorePost, StoreLikes
  <2> QED  BY <2>1, <2>3 DEF vars
<1> QED  BY <1>1, <1>2, TypingInvariant, PTL DEF Spec

\* What a handler may write after /users/ in a reference.
Known == {u.id : u \in users} \cup {Null}

Refer(list) == \A i \in DOMAIN list : list[i] \in Known

\* The references of the documents, and of the updates on their way.
ReferencesResolve ==
  /\ \A p \in PostIds : posts[p].author \in Known /\ Refer(posts[p].likes)
  /\ \A c \in Calls : local[c].userId \in Known /\ Refer(local[c].likes)

LEMMA FoundIsKnown ==
  ASSUME TypeOK, NEW n
  PROVE  LastId(UsersWithUsername(n)) \in Known
<1>1. UsersWithUsername(n) \subseteq users /\ users \subseteq User
  BY DEF TypeOK, UsersWithUsername
<1>2. CASE UsersWithUsername(n) = {}
  BY <1>2 DEF LastId, Known
<1>3. CASE UsersWithUsername(n) # {}
  BY <1>1, <1>3, LastIdOfSome DEF Known
<1> QED  BY <1>2, <1>3

LEMMA TogglesRefer ==
  ASSUME NEW post \in Post, Refer(post.likes), NEW u \in Known
  PROVE  Refer(Pushed(post, u).likes) /\ Refer(Spliced(post).likes)
<1>1. post.likes \in Seq(UserIds \cup {Null}) /\ Len(post.likes) \in Nat
  BY DEF Post
<1>2. Refer(Append(post.likes, u))
  BY <1>1 DEF Refer
<1>3. Refer(Spliced(post).likes)
  <2>1. CASE post.likes = <<>>
    BY <2>1 DEF Spliced, Refer
  <2>2. CASE post.likes # <<>>
    <3>1. Len(post.likes) - 1 \in Nat
      BY <1>1, <2>2
    <3>2. Refer(SubSeq(post.likes, 1, Len(post.likes) - 1))
      BY <1>1, <3>1 DEF Refer
    <3> QED  BY <2>2, <3>2 DEF Spliced
  <2> QED  BY <2>1, <2>2
<1> QED  BY <1>2, <1>3 DEF Pushed

\* A handler takes a reference from a look-up, and a list from the document it reads.
LEMMA LocalsRefer ==
  ASSUME Typing, ReferencesResolve, NEW c \in Calls, Step(c)
  PROVE  local'[c].userId \in Known /\ Refer(local'[c].likes)
<1> USE DEF Typing, TypeOK, Local
<1>1. local[c].userId \in Known /\ Refer(local[c].likes)
  BY DEF ReferencesResolve
<1>2. CASE PostAuthor(c) \/ LikeUser(c)
  <2>1. /\ local' = [local EXCEPT ![c].userId = LastId(UsersWithUsername(req[c].username))]
        /\ LastId(UsersWithUsername(req[c].username)) \in Known
    BY <1>2, FoundIsKnown DEF PostAuthor, LikeUser
  <2>2. local'[c].userId \in Known /\ local'[c].likes = local[c].likes
    BY <2>1
  <2> QED  BY <1>1, <2>2
<1>3. CASE LikeRead(c)
  <2> DEFINE post == posts[req[c].postId]
             new  == IF req[c].op = "like" THEN Pushed(post, local[c].userId)
                                           ELSE Spliced(post)
  <2>1. req[c].postId \in PostIds
    BY <1>3 DEF RequestOf, LikeRead, Await
  <2>2. post \in Post /\ Refer(post.likes)
    BY <2>1 DEF ReferencesResolve
  <2>3. Refer(new.likes)
    BY <1>1, <2>2, TogglesRefer
  <2>4. local' = [local EXCEPT ![c].likes = new.likes, ![c].likesCount = new.likesCount]
    BY <1>3 DEF LikeRead
  <2>5. local'[c].likes = new.likes /\ local'[c].userId = local[c].userId
    <3> HIDE DEF new
    <3> QED  BY <2>4
  <2> QED  BY <1>1, <2>3, <2>5
<1>4. CASE ~PostAuthor(c) /\ ~LikeUser(c) /\ ~LikeRead(c)
  <2>1. local'[c].userId = local[c].userId /\ local'[c].likes = local[c].likes
    BY <1>4 DEF Step, Proceed, LoginCall, PostCall, LikeCall, UnlikeCall, Invoke, LoginFound,
       LoginNoPair, LoginByEmail, LoginFree, LoginRefused, LoginAdd, PostAdd, LikeMissing,
       LikeUpdate, Throw, ThrowUnresolved, LateWrite, LostWrite, Settle
  <2> QED  BY <1>1, <2>1
<1> QED  BY <1>2, <1>3, <1>4

LEMMA DocumentsRefer ==
  ASSUME Typing, ReferencesResolve, NEW c \in Calls, Step(c), NEW p \in PostIds
  PROVE  posts'[p].author \in Known /\ Refer(posts'[p].likes)
<1> USE DEF Typing, TypeOK, Post, Local
<1>1. posts[p].author \in Known /\ Refer(posts[p].likes)
  BY DEF ReferencesResolve
<1>2. local[c].userId \in Known /\ Refer(local[c].likes)
  BY DEF ReferencesResolve
<1>3. CASE posts' = posts
  BY <1>1, <1>3
<1>4. ASSUME NEW q \in PostIds, StorePost(c, q)
      PROVE  posts'[p].author \in Known /\ Refer(posts'[p].likes)
  <2>1. posts' = [posts EXCEPT ![q] = [exists |-> TRUE, author |-> local[c].userId,
                                       likes |-> <<>>, likesCount |-> 0]]
    BY <1>4 DEF StorePost
  <2>2. posts'[p] = posts[p] \/ (posts'[p].author = local[c].userId /\ posts'[p].likes = <<>>)
    BY <2>1
  <2>3. Refer(<<>>)
    BY DEF Refer
  <2> QED  BY <1>1, <1>2, <2>2, <2>3
<1>5. CASE req[c].postId \in PostIds /\ StoreLikes(c)
  <2>1. /\ posts'[p].author = posts[p].author
        /\ posts'[p].likes \in {posts[p].likes, local[c].likes}
    BY <1>5 DEF StoreLikes
  <2> QED  BY <1>1, <1>2, <2>1
<1> QED
  BY <1>3, <1>4, <1>5, WritingSteps DEF StoreUser

\* Every reference that a post holds, its author and its likes, names a registered user or
\* is the /users/null of an unknown username: no late or lost write leaves a post that
\* refers to an account which is not there (index.js:60-71, 89-109).
THEOREM NoDanglingReferences == Spec => []ReferencesResolve
<1>1. Init => ReferencesResolve
  <2> SUFFICES ASSUME Init PROVE ReferencesResolve
    OBVIOUS
  <2>1. \A p \in PostIds : posts[p].author = Null /\ posts[p].likes = <<>>
    BY DEF Init, NoPost
  <2>2. \A c \in Calls : local[c].userId = Null /\ local[c].likes = <<>>
    BY DEF Init
  <2>3. Null \in Known /\ Refer(<<>>)
    BY DEF Refer, Known
  <2> QED  BY <2>1, <2>2, <2>3 DEF ReferencesResolve
<1>2. Typing /\ ReferencesResolve /\ [Next]_vars => ReferencesResolve'
  <2> SUFFICES ASSUME Typing, ReferencesResolve, [Next]_vars PROVE ReferencesResolve'
    OBVIOUS
  <2>1. CASE UNCHANGED vars
    BY <2>1 DEF vars, ReferencesResolve, Refer, Known
  <2>2. ASSUME NEW c \in Calls, Step(c) PROVE ReferencesResolve'
    <3>1. Known \subseteq Known'
      BY <2>2, UsersGrow DEF Known, Next
    <3>2. \A p \in PostIds : posts'[p].author \in Known /\ Refer(posts'[p].likes)
      BY <2>2, DocumentsRefer
    <3>3. \A d \in Calls : local'[d].userId \in Known /\ Refer(local'[d].likes)
      BY <2>2, LocalsRefer, OthersUnchanged DEF ReferencesResolve
    <3> QED  BY <3>1, <3>2, <3>3 DEF ReferencesResolve, Refer
  <2> QED  BY <2>1, <2>2 DEF Next
<1> QED  BY <1>1, <1>2, TypingInvariant, PTL DEF Spec

-----------------------------------------------------------------------------
(* login implements AccountService *)

\* The abstract variables of the other requests do not move.
LEMMA AbstractOthers ==
  ASSUME Typing, NEW c \in Calls, Step(c), NEW d \in Calls, d # c
  PROVE  /\ LoginStatus(d)' = LoginStatus(d)
         /\ LoginPair(d)' = LoginPair(d)
         /\ LoginKnew(d)' = LoginKnew(d)
         /\ LoginVerdict(d)' = LoginVerdict(d)
<1>1. /\ pc'[d] = pc[d] /\ req'[d] = req[d] /\ reply'[d] = reply[d]
      /\ knew'[d] = knew[d]
  BY OthersUnchanged
<1>2. IsLogin(d)' = IsLogin(d)
  BY <1>1 DEF IsLogin
<1> QED  BY <1>1, <1>2 DEF LoginStatus, LoginPair, LoginKnew, LoginVerdict, TrimmedEmail,
         TrimmedUsername

LEMMA InitImplements == Init => Accounts!Init
BY SeedAssumption DEF Init, Accounts!Init, Accounts!Account, User, LoginStatus, LoginPair,
   LoginKnew, LoginVerdict, IsLogin

\* A step of c moves the abstract request of c, as given, and no other.
LEMMA AbstractUpdate ==
  ASSUME Typing, NEW c \in Calls, Step(c)
  PROVE  /\ [d \in Calls |-> LoginStatus(d)]' =
              [[d \in Calls |-> LoginStatus(d)] EXCEPT ![c] = LoginStatus(c)']
         /\ [d \in Calls |-> LoginPair(d)]' =
              [[d \in Calls |-> LoginPair(d)] EXCEPT ![c] = LoginPair(c)']
         /\ [d \in Calls |-> LoginKnew(d)]' =
              [[d \in Calls |-> LoginKnew(d)] EXCEPT ![c] = LoginKnew(c)']
         /\ [d \in Calls |-> LoginVerdict(d)]' =
              [[d \in Calls |-> LoginVerdict(d)] EXCEPT ![c] = LoginVerdict(c)']
BY AbstractOthers

\* A step after the call leaves the abstract request and what it knew.
LEMMA AbstractFixed ==
  ASSUME Typing, NEW c \in Calls, Step(c), pc[c] # "idle"
  PROVE  /\ IsLogin(c)' = IsLogin(c)
         /\ LoginPair(c)' = LoginPair(c)
         /\ LoginKnew(c)' = LoginKnew(c)
         /\ UNCHANGED <<[d \in Calls |-> LoginPair(d)], [d \in Calls |-> LoginKnew(d)]>>
<1>1. req' = req /\ knew' = knew
  BY RequestFixed
<1> QED  BY <1>1 DEF IsLogin, LoginPair, LoginKnew, TrimmedEmail, TrimmedUsername

\* A step that leaves the users and the abstract request of c alone is a stutter.
LEMMA AbstractStutter ==
  ASSUME Typing, NEW c \in Calls, Step(c), users' = users,
         LoginStatus(c)' = LoginStatus(c), LoginPair(c)' = LoginPair(c),
         LoginKnew(c)' = LoginKnew(c), LoginVerdict(c)' = LoginVerdict(c)
  PROVE  UNCHANGED Accounts!vars
<1>1. \A d \in Calls : /\ LoginStatus(d)' = LoginStatus(d)
                       /\ LoginPair(d)' = LoginPair(d)
                       /\ LoginKnew(d)' = LoginKnew(d)
                       /\ LoginVerdict(d)' = LoginVerdict(d)
  BY AbstractOthers
<1> QED  BY <1>1 DEF Accounts!vars

LEMMA StutterOfOthers ==
  ASSUME Typing, NEW c \in Calls, Step(c), ~IsLogin(c)', users' = users, ~IsLogin(c)
  PROVE  UNCHANGED Accounts!vars
BY AbstractStutter DEF LoginStatus, LoginPair, LoginKnew, LoginVerdict

\* How an answer of a login in progress appears to the abstract service.
LEMMA AbstractAnswer ==
  ASSUME Typing, NEW c \in Calls, Step(c), IsLogin(c), pc[c] # "idle",
         NEW value, NEW how, Answer(c, value, how),
         how \in {"found", "created", "refused", "failed"}
  PROVE  Accounts!Close(c, IF how \in {"found", "created"} THEN "granted" ELSE how, value)
<1>1. pc'[c] = "done" /\ reply'[c] = [value |-> value, how |-> how]
  BY DEF Typing, TypeOK, Answer
<1>2. IsLogin(c)'
  BY AbstractFixed
<1>3. LoginStatus(c)' = IF how \in {"found", "created"} THEN "granted" ELSE how
  BY <1>1, <1>2 DEF LoginStatus, Waiting
<1>4. LoginVerdict(c)' = value
  BY <1>1, <1>2 DEF LoginVerdict
<1> QED  BY <1>3, <1>4, AbstractUpdate, AbstractFixed DEF Accounts!Close

LEMMA AbstractRegister ==
  ASSUME Typing, Informed, NEW c \in Calls, IsLogin(c), pc[c] \in {"login.add", "limbo"},
         NEW i \in UserIds, StoreUser(c, i)
  PROVE  Accounts!Register(c, i)
<1>1. \A v \in knew[c].users : ~Conflicts(v, c)
  BY DEF Informed, Knowledge
<1>2. \A a : Accounts!Conflicts(a, LoginPair(c)) <=> Conflicts(a, c)
  BY DEF Accounts!Conflicts, LoginPair, Conflicts
<1>3. [d \in Calls |-> LoginKnew(d)][c] = knew[c].users
  BY DEF LoginKnew
<1>4. [d \in Calls |-> LoginPair(d)][c] = LoginPair(c)
  OBVIOUS
<1>5. LoginPair(c).email = TrimmedEmail(c) /\ LoginPair(c).username = TrimmedUsername(c)
  BY DEF LoginPair
<1> QED  BY <1>1, <1>2, <1>3, <1>4, <1>5 DEF StoreUser, FreeUserIds, Accounts!Register

LEMMA StepImplements ==
  ASSUME Typing, Informed, Typing', NEW c \in Calls, Step(c)
  PROVE  [Accounts!Next]_Accounts!vars
<1> DEFINE status == [d \in Calls |-> LoginStatus(d)]
<1>1. CASE LoginCall(c)
  <2>1. IsLogin(c)' /\ users' = users /\ knew'[c].users = users /\ pc'[c] \in Waiting
    BY <1>1 DEF Typing, TypeOK, RequestOf, LoginCall, Invoke, IsLogin, Waiting
  <2>2. ~IsLogin(c) /\ reply'[c] = NoReply
    BY <1>1 DEF Typing, RequestOf, LoginCall, Invoke, IsLogin
  <2>3. LoginStatus(c) = "idle" /\ LoginStatus(c)' = "open"
    BY <2>1, <2>2 DEF LoginStatus, Waiting
  <2>4. LoginVerdict(c)' = LoginVerdict(c)
    BY <2>1, <2>2 DEF LoginVerdict, NoReply
  <2>5. LoginKnew(c)' = users
    BY <2>1 DEF LoginKnew
  <2>6. \E e \in Emails, n \in Usernames : LoginPair(c)' = [email |-> e, username |-> n]
    <3>1. req'[c] \in Request /\ req'[c].email \in Emails
      BY <2>1 DEF Typing, TypeOK, RequestOf, IsLogin
    <3>2. TrimmedEmail(c)' \in Emails /\ TrimmedUsername(c)' \in Usernames
      BY <3>1, TrimAssumption DEF Request, TrimmedEmail, TrimmedUsername
    <3> QED  BY <2>1, <3>2 DEF LoginPair
  <2>7. UNCHANGED [d \in Calls |-> LoginVerdict(d)]
    BY <2>4, AbstractOthers
  <2>8. PICK e \in Emails, n \in Usernames : LoginPair(c)' = [email |-> e, username |-> n]
    BY <2>6
  <2>9. /\ [d \in Calls |-> LoginPair(d)]' =
             [[d \in Calls |-> LoginPair(d)] EXCEPT ![c] = [email |-> e, username |-> n]]
        /\ [d \in Calls |-> LoginKnew(d)]' = [[d \in Calls |-> LoginKnew(d)] EXCEPT ![c] = users]
        /\ [d \in Calls |-> LoginStatus(d)]' = [[d \in Calls |-> LoginStatus(d)] EXCEPT ![c] = "open"]
    BY <2>3, <2>5, <2>8, AbstractUpdate
  <2>10. [d \in Calls |-> LoginStatus(d)][c] = "idle"
    BY <2>3
  <2>11. Accounts!Ask(c)
    BY <2>1, <2>7, <2>9, <2>10 DEF Accounts!Ask
  <2> QED  BY <2>11 DEF Accounts!Next
<1>2. CASE PostCall(c) \/ LikeCall(c) \/ UnlikeCall(c)
  <2>1. users' = users /\ ~IsLogin(c) /\ ~IsLogin(c)'
    BY <1>2 DEF Typing, TypeOK, RequestOf, PostCall, LikeCall, UnlikeCall, Invoke, IsLogin
  <2> QED  BY <2>1, StutterOfOthers
<1>3. CASE LoginFound(c)
  <2> DEFINE docs == UsersWithPair(TrimmedEmail(c), TrimmedUsername(c))
  <2>1. /\ IsLogin(c) /\ pc[c] = "login.pair" /\ docs # {} /\ docs \subseteq User
        /\ Answer(c, LastId(docs), "found") /\ users' = users
    BY <1>3 DEF Typing, TypeOK, RequestOf, LoginFound, UsersWithPair, UsersWithEmail
  <2>2. PICK u \in docs : u.id = LastId(docs)
    BY <2>1, LastIdOfSome
  <2>3. u \in users /\ u.email = TrimmedEmail(c) /\ u.username = TrimmedUsername(c)
    BY DEF UsersWithPair, UsersWithEmail, UsersWithUsername
  <2>4. Accounts!Matches(u, [d \in Calls |-> LoginPair(d)][c])
    BY <2>1, <2>3 DEF Accounts!Matches, LoginPair
  <2>5. Accounts!Close(c, "granted", u.id)
    BY <2>1, <2>2, AbstractAnswer
  <2>6. status[c] = "open"
    BY <2>1 DEF LoginStatus, Waiting
  <2>7. Accounts!Find(c)
    BY <2>1, <2>3, <2>4, <2>5, <2>6 DEF Accounts!Find
  <2> QED  BY <2>7 DEF Accounts!Next
<1>4. CASE LoginNoPair(c) \/ LoginByEmail(c) \/ LoginFree(c)
  <2>1. /\ IsLogin(c) /\ pc[c] \in Waiting /\ pc'[c] \in Waiting
        /\ UNCHANGED <<users, req, reply, knew>>
    BY <1>4 DEF Typing, TypeOK, RequestOf, LoginNoPair, LoginByEmail, LoginFree, Await,
       history, Waiting
  <2>2. IsLogin(c)'
    BY <2>1 DEF IsLogin
  <2>3. LoginStatus(c) = "open" /\ LoginStatus(c)' = "open"
    BY <2>1, <2>2 DEF LoginStatus, Waiting
  <2>4. LoginVerdict(c)' = LoginVerdict(c)
    BY <2>1, <2>2 DEF LoginVerdict
  <2>5. LoginPair(c)' = LoginPair(c) /\ LoginKnew(c)' = LoginKnew(c)
    BY <2>1, AbstractFixed DEF Waiting
  <2> QED  BY <2>1, <2>3, <2>4, <2>5, AbstractStutter
<1>5. CASE LoginRefused(c)
  <2>1. /\ IsLogin(c) /\ pc[c] = "login.username" /\ ~MayRegister(c)
        /\ Answer(c, Null, "refused") /\ users' = users
    BY <1>5 DEF Typing, RequestOf, LoginRefused
  <2>2. status[c] = "open"
    BY <2>1 DEF LoginStatus, Waiting
  <2>3. \E a \in users : Conflicts(a, c)
    BY <2>1 DEF Informed, Knowledge, MayRegister, UsersWithUsername, Conflicts
  <2>4. \E a \in users : Accounts!Conflicts(a, [d \in Calls |-> LoginPair(d)][c])
    BY <2>1, <2>3 DEF Accounts!Conflicts, Conflicts, LoginPair
  <2>5. Accounts!Close(c, "refused", Null)
    BY <2>1, AbstractAnswer
  <2>6. Accounts!Refuse(c)
    BY <2>1, <2>2, <2>4, <2>5 DEF Accounts!Refuse
  <2> QED  BY <2>6 DEF Accounts!Next
<1>6. CASE LoginAdd(c)
  <2>1. PICK i \in UserIds : StoreUser(c, i) /\ Answer(c, i, "created")
    BY <1>6 DEF LoginAdd
  <2>2. IsLogin(c) /\ pc[c] = "login.add"
    BY <1>6 DEF Typing, RequestOf, LoginAdd
  <2>3. status[c] = "open"
    BY <2>2 DEF LoginStatus, Waiting
  <2>4. Accounts!Register(c, i)
    BY <2>1, <2>2, AbstractRegister
  <2>5. Accounts!Close(c, "granted", i)
    BY <2>1, <2>2, AbstractAnswer
  <2>6. Accounts!Create(c)
    BY <2>3, <2>4, <2>5 DEF Accounts!Create
  <2> QED  BY <2>6 DEF Accounts!Next
<1>7. CASE \/ PostAuthor(c) \/ PostAdd(c)
           \/ LikeUser(c) \/ LikeRead(c) \/ LikeMissing(c) \/ LikeUpdate(c)
  <2>1. users' = users /\ pc[c] # "idle" /\ ~IsLogin(c)
    BY <1>7 DEF Typing, RequestOf, PostAuthor, PostAdd, StorePost, LikeUser, LikeRead,
       LikeMissing, LikeUpdate, StoreLikes, Await, IsLogin
  <2> QED  BY <2>1, AbstractFixed, StutterOfOthers
<1>8. CASE Throw(c)
  <2>1. pc[c] # "idle" /\ Answer(c, Null, "failed") /\ users' = users /\ pc[c] \in Waiting
    BY <1>8 DEF Throw, Waiting
  <2>2. CASE IsLogin(c)
    <3>1. status[c] = "open"
      BY <2>1, <2>2 DEF LoginStatus, Waiting
    <3>2. Accounts!Close(c, "failed", Null)
      BY <2>1, <2>2, AbstractAnswer
    <3>3. Accounts!Fail(c)
      BY <2>1, <3>1, <3>2 DEF Accounts!Fail
    <3> QED  BY <3>3 DEF Accounts!Next
  <2>3. CASE ~IsLogin(c)
    BY <2>1, <2>3, AbstractFixed, StutterOfOthers
  <2> QED  BY <2>2, <2>3
<1>9. CASE ThrowUnresolved(c)
  <2>1. /\ pc[c] # "idle" /\ pc[c] \in Waiting /\ pc'[c] = "limbo" /\ users' = users
        /\ reply'[c].value = Null
    BY <1>9 DEF Typing, TypeOK, ThrowUnresolved, Waiting, Writing
  <2>2. CASE IsLogin(c)
    <3>1. IsLogin(c)'
      BY <2>1, <2>2, AbstractFixed
    <3>2. status[c] = "open" /\ LoginStatus(c)' = "unsure" /\ LoginVerdict(c)' = Null
      BY <2>1, <2>2, <3>1 DEF LoginStatus, LoginVerdict, Waiting
    <3>3. Accounts!Close(c, "unsure", Null)
      BY <2>1, <3>2, AbstractUpdate, AbstractFixed DEF Accounts!Close
    <3>4. Accounts!LoseTrack(c)
      BY <2>1, <3>2, <3>3 DEF Accounts!LoseTrack
    <3> QED  BY <3>4 DEF Accounts!Next
  <2>3. CASE ~IsLogin(c)
    BY <2>1, <2>3, AbstractFixed, StutterOfOthers
  <2> QED  BY <2>2, <2>3
<1>10. CASE LateWrite(c) \/ LostWrite(c)
  <2>1. /\ pc[c] = "limbo" /\ pc'[c] = "done" /\ UNCHANGED <<req, reply, knew>>
        /\ reply[c] = [value |-> Null, how |-> "failed"]
    BY <1>10 DEF Typing, TypeOK, RequestOf, LateWrite, LostWrite, Settle, Await
  <2>2. CASE IsLogin(c)
    <3>1. IsLogin(c)'
      BY <2>1, <2>2, AbstractFixed
    <3>2. status[c] = "unsure" /\ LoginStatus(c)' = "failed" /\ LoginVerdict(c)' = Null
      BY <2>1, <2>2, <3>1 DEF LoginStatus, LoginVerdict, Waiting
    <3>3. Accounts!Close(c, "failed", Null)
      BY <2>1, <3>2, AbstractUpdate, AbstractFixed DEF Accounts!Close
    <3>4. CASE LostWrite(c)
      <4>1. Accounts!Drop(c)
        BY <3>2, <3>3, <3>4 DEF LostWrite, Accounts!Drop
      <4> QED  BY <4>1 DEF Accounts!Next
    <3>5. CASE LateWrite(c)
      <4>1. PICK i \in UserIds : StoreUser(c, i)
        BY <2>2, <3>5 DEF LateWrite, IsLogin
      <4>2. Accounts!Register(c, i)
        BY <2>1, <2>2, <4>1, AbstractRegister
      <4>3. Accounts!CreateLate(c)
        BY <3>2, <3>3, <4>2 DEF Accounts!CreateLate
      <4> QED  BY <4>3 DEF Accounts!Next
    <3> QED  BY <1>10, <3>4, <3>5
  <2>3. CASE ~IsLogin(c)
    <3>1. users' = users
      <4>1. req[c] # Null
        BY <2>1 DEF Typing, RequestOf
      <4> QED  BY <1>10, <2>3, <4>1 DEF LateWrite, LostWrite, StorePost, StoreLikes, IsLogin
    <3> QED  BY <2>1, <2>3, <3>1, AbstractFixed, StutterOfOthers
  <2> QED  BY <2>2, <2>3
<1> QED
  BY <1>1, <1>2, <1>3, <1>4, <1>5, <1>6, <1>7, <1>8, <1>9, <1>10 DEF Step, Proceed

\* The handler of login, with its three look-ups, its add and all its failures,
\* implements the service that decides each request in one step (index.js:17-50).
THEOREM LoginImplementsAccountService == Spec => LoginIsAtomic
<1>1. Typing /\ Informed /\ Typing' /\ [Next]_vars => [Accounts!Next]_Accounts!vars
  <2> SUFFICES ASSUME Typing, Informed, Typing', UNCHANGED vars
               PROVE  UNCHANGED Accounts!vars
    BY StepImplements DEF Next
  <2>1. \A c \in Calls : /\ LoginStatus(c)' = LoginStatus(c) /\ LoginPair(c)' = LoginPair(c)
                         /\ LoginKnew(c)' = LoginKnew(c) /\ LoginVerdict(c)' = LoginVerdict(c)
    BY DEF vars, LoginStatus, LoginPair, LoginKnew, LoginVerdict, IsLogin, TrimmedEmail,
       TrimmedUsername
  <2> QED  BY <2>1 DEF vars, Accounts!vars
<1> QED
  BY <1>1, InitImplements, TypingInvariant, InformedInvariant, PTL
  DEF Spec, LoginIsAtomic, Accounts!Spec

=============================================================================
