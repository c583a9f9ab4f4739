----------------------------- MODULE WhixBackend -----------------------------
(***************************************************************************)
(* The callable Cloud Functions of src/backend/functions/index.js: login,  *)
(* post, like and unlike, over the two Firestore collections "users" and   *)
(* "post".                                                                 *)
(*                                                                         *)
(* Every invocation runs its handler once. Between two awaits a handler    *)
(* touches nothing shared, so one action is one awaited Firestore          *)
(* operation together with the local code up to the next await; the        *)
(* actions of different invocations interleave freely, as invocations of   *)
(* Cloud Functions do. Any await may throw, which the handler's catch      *)
(* turns into the answer null; a write whose acknowledgement is lost may   *)
(* still be applied, before or after that answer.                          *)
(***************************************************************************)
EXTENDS Integers, Sequences, FiniteSets

CONSTANTS
  Calls,      \* the invocations, each of which happens at most once
  Ops,        \* the functions that are invoked: login, post, like, unlike
  Emails,     \* the texts sent as data.email
  Usernames,  \* the texts sent as data.username
  Trim(_),    \* String.prototype.trim on those texts
  MaxUsers,   \* bound: the document ids of "users" are 1..MaxUsers
  MaxPosts,   \* bound: the document ids of "post" are 1..MaxPosts
  SeedUsers,  \* the documents of "users" when the observed run starts
  SeedPosts,  \* the ids of the documents of "post" at that time, without likes
  Null        \* JavaScript's null

UserIds == 1 .. MaxUsers
PostIds == 1 .. MaxPosts

\* A document of "users" (its gravatar is a function of its e-mail).
User == [id : UserIds, email : Emails, username : Usernames]

\* A document of "post"; author stands for the reference /users/<userId>,
\* which a post by an unknown username makes /users/null.
Post == [exists : BOOLEAN, author : UserIds \cup {Null},
         likes : Seq(UserIds \cup {Null}), likesCount : Int]

NoPost == [exists |-> FALSE, author |-> Null, likes |-> <<>>, likesCount |-> 0]

\* The data of a call; a function leaves out the fields it does not take.
Request == [op : {"login", "post", "like", "unlike"}, email : Emails \cup {Null},
            username : Usernames, postId : PostIds \cup {Null}]

ASSUME BoundAssumption == MaxUsers \in Nat /\ MaxPosts \in Nat
ASSUME NullAssumption == Null \notin Int /\ Null \notin Request
ASSUME OpsAssumption == Ops \subseteq {"login", "post", "like", "unlike"}
ASSUME TrimAssumption == /\ \A e \in Emails : Trim(e) \in Emails
                         /\ \A n \in Usernames : Trim(n) \in Usernames
\* Registered users carry trimmed texts, and ids are unique.
ASSUME SeedAssumption ==
  /\ SeedUsers \subseteq User
  /\ \A u \in SeedUsers : u.email = Trim(u.email) /\ u.username = Trim(u.username)
  /\ \A u, v \in SeedUsers : u.id = v.id => u = v
  /\ SeedPosts \subseteq PostIds

VARIABLES
  users,   \* the collection "users"
  posts,   \* the collection "post", by document id
  pc,      \* what each invocation awaits
  req,     \* the data each invocation was called with
  local,   \* the local variables of each handler
  reply,   \* the answer of each invocation, and what it came from
  knew,    \* history: the users and the applied likes when it was called
  base,    \* history: the likes included in the post document that it read
  lineage, \* history: the likes included in the current document of each post
  applied  \* history: the like and unlike calls whose update was applied

stores  == <<users, posts>>
history == <<knew, base, lineage, applied>>
vars    == <<users, posts, pc, req, local, reply, knew, base, lineage, applied>>

Local == [userId : UserIds \cup {Null}, emailFree : BOOLEAN,
          likes : Seq(UserIds \cup {Null}), likesCount : Int]

Waiting == {"login.pair", "login.email", "login.username", "login.add",
            "post.author", "post.add", "like.user", "like.read", "like.update"}
Writing == {"login.add", "post.add", "like.update"}
Phases  == {"idle", "limbo", "done"} \cup Waiting

Outcomes == {"none", "found", "created", "refused", "posted", "counted", "failed"}
NoReply  == [value |-> Null, how |-> "none"]

-----------------------------------------------------------------------------
(* Queries *)

\* Operators named Bad... are faulty variants of the one that follows, each a bug
\* this code could have: the properties are checked to fail with them.

UsersWithEmail(e) == {u \in users : u.email = e}

BadUsersWithUsername(n) == users   \* the where clause forgotten

UsersWithUsername(n) == {u \in users : u.username = n}

BadUsersWithPair(e, n) == UsersWithEmail(e)   \* the second where forgotten

UsersWithPair(e, n) == UsersWithEmail(e) \cap UsersWithUsername(n)

\* The userId that forEach leaves behind: a snapshot is ordered by document id,
\* so it is the last id, and null when the snapshot is empty.
LastId(docs) ==
  IF docs = {} THEN Null
  ELSE CHOOSE i \in {u.id : u \in docs} : \A u \in docs : u.id <= i

FreeUserIds == {i \in UserIds : \A u \in users : u.id # i}
FreePostIds == {p \in PostIds : ~posts[p].exists}

Init ==
  /\ users = SeedUsers
  /\ posts = [p \in PostIds |-> [NoPost EXCEPT !.exists = p \in SeedPosts]]
  /\ pc = [c \in Calls |-> "idle"]
  /\ req = [c \in Calls |-> Null]
  /\ local = [c \in Calls |-> [userId |-> Null, emailFree |-> FALSE,
                               likes |-> <<>>, likesCount |-> 0]]
  /\ reply = [c \in Calls |-> NoReply]
  /\ knew = [c \in Calls |-> [users |-> {}, applied |-> {}]]
  /\ base = [c \in Calls |-> {}]
  /\ lineage = [p \in PostIds |-> {}]
  /\ applied = {}

-----------------------------------------------------------------------------
(* Steps every handler is made of *)

\* The client's call arrives, with an e-mail or a post if the function takes one,
\* and the handler issues its first query.
Invoke(c, op, emails, postIds, first) ==
  /\ pc[c] = "idle"
  /\ op \in Ops
  /\ \E e \in emails, n \in Usernames, p \in postIds :
       req' = [req EXCEPT ![c] = [op |-> op, email |-> e, username |-> n,
                                  postId |-> p]]
  /\ pc' = [pc EXCEPT ![c] = first]
  /\ knew' = [knew EXCEPT ![c] = [users |-> users, applied |-> applied]]
  /\ UNCHANGED <<users, posts, local, reply, base, lineage, applied>>

Await(c, phase, next) == pc[c] = phase /\ pc' = [pc EXCEPT ![c] = next]

Answer(c, value, how) ==
  /\ pc' = [pc EXCEPT ![c] = "done"]
  /\ reply' = [reply EXCEPT ![c] = [value |-> value, how |-> how]]

-----------------------------------------------------------------------------
(* login *)

TrimmedEmail(c)    == Trim(req[c].email)
TrimmedUsername(c) == Trim(req[c].username)

LoginCall(c) == Invoke(c, "login", Emails, {Null}, "login.pair")

\* The pair is registered: the answer is its id.
LoginFound(c) ==
  LET docs == UsersWithPair(TrimmedEmail(c), TrimmedUsername(c)) IN
  /\ pc[c] = "login.pair"
  /\ docs # {}
  /\ Answer(c, LastId(docs), "found")
  /\ UNCHANGED <<users, posts, req, local, history>>

LoginNoPair(c) ==
  /\ Await(c, "login.pair", "login.email")
  /\ UsersWithPair(TrimmedEmail(c), TrimmedUsername(c)) = {}
  /\ UNCHANGED <<users, posts, req, local, reply, history>>

LoginByEmail(c) ==
  /\ Await(c, "login.email", "login.username")
  /\ local' = [local EXCEPT ![c].emailFree = UsersWithEmail(TrimmedEmail(c)) = {}]
  /\ UNCHANGED <<users, posts, req, reply, history>>

BadMayRegister(c) == local[c].emailFree   \* the username is not looked up

\* The username is looked up after the e-mail: only two empty snapshots, which
\* need not be of the same moment, let the handler add an account.
MayRegister(c) ==
  local[c].emailFree /\ UsersWithUsername(TrimmedUsername(c)) = {}

LoginFree(c) ==
  /\ Await(c, "login.username", "login.add")
  /\ MayRegister(c)
  /\ UNCHANGED <<users, posts, req, local, reply, history>>

\* Only the taken e-mail is answered.
BadLoginRefused(c) ==
  /\ pc[c] = "login.username"
  /\ ~local[c].emailFree
  /\ Answer(c, Null, "refused")
  /\ UNCHANGED <<users, posts, req, local, history>>

LoginRefused(c) ==
  /\ pc[c] = "login.username"
  /\ ~MayRegister(c)
  /\ Answer(c, Null, "refused")
  /\ UNCHANGED <<users, posts, req, local, history>>

\* users.add on the server, under a fresh document id.
StoreUser(c, i) ==
  /\ i \in FreeUserIds
  /\ users' = users \cup {[id |-> i, email |-> TrimmedEmail(c),
                           username |-> TrimmedUsername(c)]}
  /\ UNCHANGED <<posts, lineage, applied>>

LoginAdd(c) ==
  /\ pc[c] = "login.add"
  /\ \E i \in UserIds : StoreUser(c, i) /\ Answer(c, i, "created")
  /\ UNCHANGED <<req, local, knew, base>>

-----------------------------------------------------------------------------
(* post *)

PostCall(c) == Invoke(c, "post", {Null}, {Null}, "post.author")

\* data.username is not trimmed here, and the answer of the query is not
\* checked: an unknown username leaves userId null.
PostAuthor(c) ==
  /\ Await(c, "post.author", "post.add")
  /\ local' = [local EXCEPT ![c].userId = LastId(UsersWithUsername(req[c].username))]
  /\ UNCHANGED <<users, posts, req, reply, history>>

\* likesCount left out of the new document.
BadStorePost(c, p) ==
  /\ p \in FreePostIds
  /\ posts' = [posts EXCEPT ![p] = [exists |-> TRUE, author |-> local[c].userId,
                                    likes |-> <<>>, likesCount |-> Null]]
  /\ UNCHANGED <<users, lineage, applied>>

StorePost(c, p) ==
  /\ p \in FreePostIds
  /\ posts' = [posts EXCEPT ![p] = [exists |-> TRUE, author |-> local[c].userId,
                                    likes |-> <<>>, likesCount |-> 0]]
  /\ UNCHANGED <<users, lineage, applied>>

PostAdd(c) ==
  /\ pc[c] = "post.add"
  /\ \E p \in PostIds : StorePost(c, p) /\ Answer(c, p, "posted")
  /\ UNCHANGED <<req, local, knew, base>>

-----------------------------------------------------------------------------
(* like and unlike: toggleLike *)

LikeCall(c)   == Invoke(c, "like", {Null}, PostIds, "like.user")
UnlikeCall(c) == Invoke(c, "unlike", {Null}, PostIds, "like.user")

LikeUser(c) ==
  /\ Await(c, "like.user", "like.read")
  /\ local' = [local EXCEPT ![c].userId = LastId(UsersWithUsername(req[c].username))]
  /\ UNCHANGED <<users, posts, req, reply, history>>

\* A second like by the same user is counted without being pushed.
BadPushed(post, u) ==
  [likes |-> IF \E i \in DOMAIN post.likes : post.likes[i] = u THEN post.likes
             ELSE Append(post.likes, u),
   likesCount |-> post.likesCount + 1]

\* likes.push(reference) and likesCount + 1.
Pushed(post, u) == [likes |-> Append(post.likes, u),
                    likesCount |-> post.likesCount + 1]

\* likes.splice(likes.indexOf(reference), 1) and likesCount - 1: indexOf compares
\* a fresh reference object by identity and yields -1, and splice(-1, 1) removes
\* the last element, or nothing from an empty array.
Spliced(post) ==
  [likes |-> IF post.likes = <<>> THEN <<>>
             ELSE SubSeq(post.likes, 1, Len(post.likes) - 1),
   likesCount |-> post.likesCount - 1]

\* The arrays are rebuilt from an empty document instead of the one read.
BadLikeRead(c) ==
  LET new == IF req[c].op = "like" THEN Pushed(NoPost, local[c].userId)
                                   ELSE Spliced(NoPost) IN
  /\ Await(c, "like.read", "like.update")
  /\ posts[req[c].postId].exists
  /\ local' = [local EXCEPT ![c].likes = new.likes,
                            ![c].likesCount = new.likesCount]
  /\ base' = [base EXCEPT ![c] = {}]
  /\ UNCHANGED <<users, posts, req, reply, knew, lineage, applied>>

\* The new values are computed from the document as it was read.
LikeRead(c) ==
  LET post == posts[req[c].postId]
      new  == IF req[c].op = "like" THEN Pushed(post, local[c].userId)
                                    ELSE Spliced(post) IN
  /\ Await(c, "like.read", "like.update")
  /\ post.exists
  /\ local' = [local EXCEPT ![c].likes = new.likes,
                            ![c].likesCount = new.likesCount]
  /\ base' = [base EXCEPT ![c] = lineage[req[c].postId]]
  /\ UNCHANGED <<users, posts, req, reply, knew, lineage, applied>>

\* A missing document has no data: the handler throws and answers null.
LikeMissing(c) ==
  /\ pc[c] = "like.read"
  /\ ~posts[req[c].postId].exists
  /\ Answer(c, Null, "failed")
  /\ UNCHANGED <<users, posts, req, local, history>>

\* set instead of update: the other fields of the document are gone.
BadStoreLikes(c) ==
  LET p == req[c].postId IN
  /\ posts' = [posts EXCEPT ![p] = [NoPost EXCEPT !.exists = TRUE,
                                                  !.likes = local[c].likes,
                                                  !.likesCount = local[c].likesCount]]
  /\ lineage' = [lineage EXCEPT ![p] = base[c] \cup {c}]
  /\ applied' = applied \cup {c}
  /\ UNCHANGED users

\* The count is incremented on the server while the array is overwritten.
BadStoreLikesCount(c) ==
  LET p == req[c].postId IN
  /\ posts' = [posts EXCEPT ![p].likes = local[c].likes,
                            ![p].likesCount = IF req[c].op = "like" THEN @ + 1 ELSE @ - 1]
  /\ lineage' = [lineage EXCEPT ![p] = base[c] \cup {c}]
  /\ applied' = applied \cup {c}
  /\ UNCHANGED users

\* The update overwrites both fields, whatever the document holds by now.
StoreLikes(c) ==
  LET p == req[c].postId IN
  /\ posts' = [posts EXCEPT ![p].likes = local[c].likes,
                            ![p].likesCount = local[c].likesCount]
  /\ lineage' = [lineage EXCEPT ![p] = base[c] \cup {c}]
  /\ applied' = applied \cup {c}
  /\ UNCHANGED users

LikeUpdate(c) ==
  /\ pc[c] = "like.update"
  /\ StoreLikes(c)
  /\ Answer(c, local[c].likesCount, "counted")
  /\ UNCHANGED <<req, local, knew, base>>

-----------------------------------------------------------------------------
(* Failures *)

\* An await throws and its operation had no effect.
Throw(c) ==
  /\ pc[c] \in Waiting
  /\ Answer(c, Null, "failed")
  /\ UNCHANGED <<users, posts, req, local, history>>

\* A write is not acknowledged: the handler answers null, and the outcome of the
\* write is open.
ThrowUnresolved(c) ==
  /\ pc[c] \in Writing
  /\ pc' = [pc EXCEPT ![c] = "limbo"]
  /\ reply' = [reply EXCEPT ![c] = [value |-> Null, how |-> "failed"]]
  /\ UNCHANGED <<users, posts, req, local, history>>

Settle(c) == Await(c, "limbo", "done") /\ UNCHANGED <<req, local, reply, knew, base>>

LateWrite(c) ==
  /\ Settle(c)
  /\ \/ req[c].op = "login" /\ \E i \in UserIds : StoreUser(c, i)
     \/ req[c].op = "post" /\ \E p \in PostIds : StorePost(c, p)
     \/ req[c].op \in {"like", "unlike"} /\ StoreLikes(c)

LostWrite(c) == Settle(c) /\ UNCHANGED <<users, posts, lineage, applied>>

-----------------------------------------------------------------------------

\* The awaited operation succeeds and the handler goes on.
Proceed(c) ==
  \/ LoginFound(c) \/ LoginNoPair(c) \/ LoginByEmail(c) \/ LoginFree(c)
  \/ LoginRefused(c) \/ LoginAdd(c)
  \/ PostAuthor(c) \/ PostAdd(c)
  \/ LikeUser(c) \/ LikeRead(c) \/ LikeMissing(c) \/ LikeUpdate(c)

Step(c) ==
  \/ LoginCall(c) \/ PostCall(c) \/ LikeCall(c) \/ UnlikeCall(c)
  \/ Proceed(c)
  \/ Throw(c) \/ ThrowUnresolved(c) \/ LateWrite(c) \/ LostWrite(c)

Next == \E c \in Calls : Step(c)

Spec == Init /\ [][Next]_vars

\* An awaited promise of the Firestore client settles and the runtime resumes the
\* handler: an await that does not throw goes on.
Fairness == \A c \in Calls : WF_vars(Proceed(c))

FairSpec == Spec /\ Fairness

-----------------------------------------------------------------------------
(* Properties *)

TypeOK ==
  /\ users \subseteq User
  /\ posts \in [PostIds -> Post]
  /\ pc \in [Calls -> Phases]
  /\ req \in [Calls -> Request \cup {Null}]
  /\ local \in [Calls -> Local]
  /\ reply \in [Calls -> [value : Int \cup {Null}, how : Outcomes]]
  /\ knew \in [Calls -> [users : SUBSET User, applied : SUBSET Calls]]
  /\ base \in [Calls -> SUBSET Calls]
  /\ lineage \in [PostIds -> SUBSET Calls]
  /\ applied \subseteq Calls

IsLogin(c) == req[c] # Null /\ req[c].op = "login"

Conflicts(u, c) == u.email = TrimmedEmail(c) \/ u.username = TrimmedUsername(c)

RegistersOnlyNew ==
  \A u \in users' \ users :
    \E c \in Calls : /\ pc[c] \in {"login.add", "limbo"} /\ IsLogin(c)
                     /\ pc'[c] = "done"
                     /\ u.email = TrimmedEmail(c)
                     /\ u.username = TrimmedUsername(c)
                     /\ \A v \in knew[c].users : ~Conflicts(v, c)

\* login registers no user whose e-mail or username belonged to a user that
\* existed when it was called: duplicates come from overlapping invocations only
\* (index.js:31-38; there is no transaction around the look-ups and the add).
DuplicatesNeedOverlap == [][RegistersOnlyNew]_vars

\* The author of a post by c: a user of the caller's username, or null when none
\* existed when post was called.
Credited(author, c) ==
  \/ \E u \in users : u.id = author /\ u.username = req[c].username
  \/ author = Null /\ \A v \in knew[c].users : v.username # req[c].username

CreditsNewPosts ==
  \A p \in PostIds : posts'[p].exists /\ ~posts[p].exists =>
    \E c \in Calls : /\ pc[c] \in {"post.add", "limbo"} /\ req[c].op = "post"
                     /\ pc'[c] = "done"
                     /\ Credited(posts'[p].author, c)

\* A post is credited to a user of the caller's username, and to /users/null only
\* when no such user existed when post was called (index.js:58-72).
PostsAreCredited == [][CreditsNewPosts]_vars

KeepsDocuments ==
  /\ users \subseteq users'
  /\ \A p \in PostIds : posts[p].exists => /\ posts'[p].exists
                                          /\ posts'[p].author = posts[p].author

\* No invocation takes a document away, rewrites a user, or changes the author of
\* a post, however late a write is applied (index.js:34, 65, 106).
DocumentsPersist == [][KeepsDocuments]_vars

\* likesCount never exceeds the length of likes, in a document or in an update
\* that is on its way: the two are always written together (index.js:95-109).
CountNeverExceedsLikes ==
  /\ \A p \in PostIds : posts[p].likesCount <= Len(posts[p].likes)
  /\ \A c \in Calls : local[c].likesCount <= Len(local[c].likes)

Likes(calls)   == {c \in calls : req[c].op = "like"}
Unlikes(calls) == {c \in calls : req[c].op = "unlike"}

\* likesCount is what the likes and unlikes in the document's lineage add up to:
\* an interleaving loses whole calls and never half of one (index.js:94-109).
CountAccountsForLineage ==
  \A p \in PostIds :
    posts[p].likesCount =
      Cardinality(Likes(lineage[p])) - Cardinality(Unlikes(lineage[p]))

\* A like or unlike whose update was applied and whose effect is gone from the post
\* was overwritten by one that was called before that update was applied, and
\* whose own update came after the lost one was called: calls that follow one
\* another lose nothing (index.js:94-109).
LostLikesNeedOverlap ==
  \A c \in applied :
    c \notin lineage[req[c].postId] =>
      \E d \in applied \ {c} : /\ req[d].postId = req[c].postId
                               /\ c \notin knew[d].applied
                               /\ d \notin knew[c].applied

\* Every invocation is answered: no interleaving and no failure leaves a handler
\* waiting for ever (index.js: every path of the three handlers returns).
EveryCallAnswers ==
  \A c \in Calls : pc[c] \in Waiting ~> pc[c] \in {"limbo", "done"}

-----------------------------------------------------------------------------
(* login implements the abstract account service *)

LoginStatus(c) ==
  CASE ~IsLogin(c)                     -> "idle"
    [] IsLogin(c) /\ pc[c] \in Waiting -> "open"
    [] IsLogin(c) /\ pc[c] = "limbo"   -> "unsure"
    [] IsLogin(c) /\ pc[c] = "done"    ->
         IF reply[c].how \in {"found", "created"} THEN "granted" ELSE reply[c].how

LoginPair(c) == IF IsLogin(c) THEN [email    |-> TrimmedEmail(c),
                                    username |-> TrimmedUsername(c)]
                              ELSE Null

LoginKnew(c) == IF IsLogin(c) THEN knew[c].users ELSE {}

LoginVerdict(c) == IF IsLogin(c) THEN reply[c].value ELSE Null

Accounts == INSTANCE AccountService WITH
  AccountIds <- UserIds,
  accounts   <- users,
  status     <- [c \in Calls |-> LoginStatus(c)],
  wanted     <- [c \in Calls |-> LoginPair(c)],
  knew       <- [c \in Calls |-> LoginKnew(c)],
  verdict    <- [c \in Calls |-> LoginVerdict(c)]

\* Each login decides as if in one step: it grants an account of the requested
\* pair, registers one that conflicts with nothing it could know of, refuses
\* because of an account that exists, or fails (index.js:17-50).
LoginIsAtomic == Accounts!Spec
=============================================================================
