--------------------------- MODULE AccountService ---------------------------
(***************************************************************************)
(* What the callable function "login" of src/backend/functions/index.js    *)
(* promises to the client, whatever the interleaving of its queries with   *)
(* those of other invocations: one atomic decision per request.            *)
(*                                                                         *)
(* - an answered id belongs to an account with the requested pair;         *)
(* - an account is registered only when nothing that existed when the      *)
(*   request arrived used its e-mail or its username;                      *)
(* - a refusal has an account to blame;                                    *)
(* - a failure answers Null, and the account may still appear, once.       *)
(*                                                                         *)
(* The promise is deliberately weaker than uniqueness of e-mails and       *)
(* usernames: two requests in flight together may both register.           *)
(***************************************************************************)
EXTENDS Integers

CONSTANTS
  Calls,      \* the requests
  AccountIds, \* the identifiers the store may give to accounts
  Emails,     \* trimmed e-mail addresses
  Usernames,  \* trimmed usernames
  Null        \* the answer of a request that got no account

VARIABLES
  accounts,   \* the registered accounts
  status,     \* idle, open, granted, refused, failed, or unsure: answered with
              \* Null while its registration is unresolved
  wanted,     \* the [email, username] pair of each request
  knew,       \* the accounts that existed when the request arrived
  verdict     \* the answer of each request

vars == <<accounts, status, wanted, knew, verdict>>

Account == [id : AccountIds, email : Emails, username : Usernames]

Conflicts(a, pair) == a.email = pair.email \/ a.username = pair.username
Matches(a, pair)   == a.email = pair.email /\ a.username = pair.username

Init ==
  /\ accounts \subseteq Account
  /\ status = [c \in Calls |-> "idle"]
  /\ wanted = [c \in Calls |-> Null]
  /\ knew = [c \in Calls |-> {}]
  /\ verdict = [c \in Calls |-> Null]

Ask(c) ==
  /\ status[c] = "idle"
  /\ status' = [status EXCEPT ![c] = "open"]
  /\ \E e \in Emails, n \in Usernames :
       wanted' = [wanted EXCEPT ![c] = [email |-> e, username |-> n]]
  /\ knew' = [knew EXCEPT ![c] = accounts]
  /\ UNCHANGED <<accounts, verdict>>

Close(c, end, answer) ==
  /\ status' = [status EXCEPT ![c] = end]
  /\ verdict' = [verdict EXCEPT ![c] = answer]
  /\ UNCHANGED <<wanted, knew>>

\* A new account for request c, which conflicts with none that c could see.
Register(c, i) ==
  /\ \A a \in accounts : a.id # i
  /\ \A a \in knew[c] : ~Conflicts(a, wanted[c])
  /\ accounts' = accounts \cup {[id |-> i, email |-> wanted[c].email,
                                 username |-> wanted[c].username]}

Find(c) ==
  /\ status[c] = "open"
  /\ \E a \in accounts : Matches(a, wanted[c]) /\ Close(c, "granted", a.id)
  /\ UNCHANGED accounts

Create(c) ==
  /\ status[c] = "open"
  /\ \E i \in AccountIds : Register(c, i) /\ Close(c, "granted", i)

Refuse(c) ==
  /\ status[c] = "open"
  /\ \E a \in accounts : Conflicts(a, wanted[c])
  /\ Close(c, "refused", Null)
  /\ UNCHANGED accounts

Fail(c) ==
  /\ status[c] = "open"
  /\ Close(c, "failed", Null)
  /\ UNCHANGED accounts

\* The request is answered Null while its registration is still on its way.
LoseTrack(c) ==
  /\ status[c] = "open"
  /\ Close(c, "unsure", Null)
  /\ UNCHANGED accounts

CreateLate(c) ==
  /\ status[c] = "unsure"
  /\ \E i \in AccountIds : Register(c, i)
  /\ Close(c, "failed", Null)

Drop(c) ==
  /\ status[c] = "unsure"
  /\ Close(c, "failed", Null)
  /\ UNCHANGED accounts

Next ==
  \E c \in Calls : \/ Ask(c) \/ Find(c) \/ Create(c) \/ Refuse(c) \/ Fail(c)
                   \/ LoseTrack(c) \/ CreateLate(c) \/ Drop(c)

Spec == Init /\ [][Next]_vars
=============================================================================
