------------------------------- MODULE Session -------------------------------
(***************************************************************************)
(* What the login flow of the app promises to the rest of it: who the user *)
(* is, and whether the tab bar can be used. LoginFlow implements this      *)
(* module, and PublishFlow is built on it and keeps to it.                 *)
(*                                                                         *)
(* A session is two keys, and each of its handlers writes both, the id     *)
(* first. The main thread sees both writes or none, but a kill may come    *)
(* between them.                                                           *)
(***************************************************************************)
CONSTANTS
  Calls,  \* the calls of the login function
  Names,  \* the usernames
  Nil     \* no user

VARIABLES
  user,   \* loggedInUsername
  loggedIn, \* loggedInUserId is there
  door,   \* the tab bar: ajar while its viewDidAppear is pending, shut while the
          \* login screen covers it, else open
  asked   \* the login calls whose completion handlers have not run

sessionVars == <<user, loggedIn, door, asked>>

Init == user = Nil /\ loggedIn = FALSE /\ door = "ajar" /\ asked = {}

\* The tab bar appears, and covers itself with the login screen without an id.
Appear ==
  /\ door = "ajar"
  /\ door' = IF loggedIn THEN "open" ELSE "shut"
  /\ UNCHANGED <<user, loggedIn, asked>>

Ask(c) ==
  /\ door = "shut"
  /\ c \notin asked
  /\ asked' = asked \cup {c}
  /\ UNCHANGED <<user, loggedIn, door>>

\* A call made on a login screen opens the session and takes that screen away. If
\* the screen is gone already, the session is opened, or replaced, regardless.
Enter(c, n) ==
  /\ c \in asked
  /\ asked' = asked \ {c}
  /\ user' = n /\ loggedIn' = TRUE
  /\ \/ door' = door
     \/ door = "shut" /\ door' = "ajar"

Fail(c) ==
  /\ c \in asked
  /\ asked' = asked \ {c}
  /\ UNCHANGED <<user, loggedIn, door>>

Leave ==
  /\ door = "open"
  /\ user' = Nil /\ loggedIn' = FALSE
  /\ door' = "shut"
  /\ UNCHANGED asked

\* The tab bar comes back from under another screen than the login screen.
Reveal ==
  /\ door = "open"
  /\ door' = "ajar"
  /\ UNCHANGED <<user, loggedIn, asked>>

\* A new process reads the name as it was last written.
Started == door' = "ajar" /\ asked' = {} /\ user' = user

Relaunch == Started /\ UNCHANGED loggedIn

\* The process dies between the two writes of Enter, or of Leave.
EnterCut == asked # {} /\ loggedIn' = TRUE /\ Started
LeaveCut == door = "open" /\ loggedIn' = FALSE /\ Started

Next ==
  \/ Appear \/ Leave \/ Reveal \/ Relaunch \/ EnterCut \/ LeaveCut
  \/ \E c \in Calls : Ask(c) \/ Fail(c) \/ \E n \in Names : Enter(c, n)

Spec == Init /\ [][Next]_sessionVars
=============================================================================
