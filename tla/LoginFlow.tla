------------------------------ MODULE LoginFlow ------------------------------
(***************************************************************************)
(* Sessions of the iOS app: the login screen (LoginViewController), the    *)
(* tab bar that opens it (MainTabController), logging out                  *)
(* (ProfileController) and the two keys kept in UserDefaults. The server   *)
(* is AccountService, which the login function implements.                 *)
(*                                                                         *)
(* Everything here runs on the main thread: an action is one UI event or   *)
(* one completion handler. A screen that is revealed by a dismissal gets   *)
(* its viewDidAppear later, and the user can touch nothing in between,     *)
(* while completion handlers still run. The two handlers that write the    *)
(* keys are cut between their writes, where the server or a kill may come, *)
(* and nothing else of the main thread.                                    *)
(***************************************************************************)
EXTENDS Integers, Sequences

CONSTANTS
  Calls,         \* bound: the calls of the login function that are made
  AccountIds,    \* the document ids of accounts
  EmailTexts,    \* what can stand in the e-mail field, "" included
  UsernameTexts, \* what can stand in the username field, "" included
  HasAt,         \* the texts of the e-mail field that contain "@"
  Trim(_),       \* removal of blanks at both ends, on the server and in the app
  MaxForms,      \* bound: the login screens that are presented
  MaxKills,      \* bound: how often the process is killed and started again
  Nil            \* Swift's nil, JavaScript's null

ASSUME NilAssumption ==
  /\ Nil \notin AccountIds /\ Nil \notin 1 .. MaxForms
  /\ \A n \in UsernameTexts : Trim(n) # Nil
  /\ Nil # "logout" /\ {Nil, "logout"} \cap Calls = {}
ASSUME TextAssumption == "" \in EmailTexts /\ "" \in UsernameTexts
ASSUME BoundAssumption == MaxForms \in Nat /\ MaxKills \in Nat

VARIABLES
  accounts, status, wanted, knew, verdict, \* the account service
  stack,      \* the presented screens over the tab bar controller, topmost last
  appearing,  \* the top of the stack was revealed, its viewDidAppear is pending
  tab,        \* the selected tab
  stored,     \* loggedInUserId and loggedInUsername in UserDefaults
  form,       \* the two text fields of each login screen
  forms,      \* how many login screens have been created
  sentBy,     \* the login screen that made each call
  returned,   \* the calls whose completion handler has run or was lost
  running,    \* the handler that has written one key: a call, "logout", or Nil
  kills,      \* how often the process was killed
  edited,     \* history: the calls after which their username field was edited
  was,        \* history: there was an id when the running handler began
  cut         \* history: the handler that a kill cut between its writes, if no other
              \* has written both keys since

service == <<accounts, status, wanted, knew, verdict>>
session == <<stored, form, forms, sentBy, returned, edited>>
handler == <<running, was, cut>>
vars == <<accounts, status, wanted, knew, verdict, stack, appearing, tab, stored,
          form, forms, sentBy, returned, running, kills, edited, was, cut>>

Server == INSTANCE AccountService WITH
  Emails <- {Trim(e) : e \in EmailTexts},
  Usernames <- {Trim(n) : n \in UsernameTexts},
  Null <- Nil

Forms == 1 .. MaxForms

\* A screen, and which instance of it.
Screen(kind, n) == [kind |-> kind, n |-> n]
Tabs == Screen("tabs", 0)

Top == stack[Len(stack)]
OnTop(screen) == Top = screen

\* The main thread is in no handler.
Idle == running = Nil

Usable(screen) == OnTop(screen) /\ ~appearing /\ Idle

LoggedOut == [id |-> Nil, username |-> Nil]
LoggedIn == stored.id # Nil

Init ==
  /\ accounts = {}
  /\ Server!Init
  /\ stack = <<Tabs>>
  /\ appearing = TRUE
  /\ tab = "feed"
  /\ stored = LoggedOut
  /\ form = [f \in Forms |-> [email |-> "", username |-> ""]]
  /\ forms = 0
  /\ sentBy = [c \in Calls |-> Nil]
  /\ returned = {}
  /\ kills = 0
  /\ edited = {}
  /\ running = Nil /\ was = FALSE /\ cut = Nil

-----------------------------------------------------------------------------
(* Screens *)

\* performSegue "showLogin": a fresh LoginViewController with empty fields.
ShowLogin ==
  /\ forms < MaxForms
  /\ forms' = forms + 1
  /\ stack' = Append(stack, Screen("login", forms + 1))

\* dismiss: nothing happens when the screen is not presented any more.
Dismiss(screen) ==
  IF OnTop(screen)
  THEN stack' = SubSeq(stack, 1, Len(stack) - 1) /\ appearing' = TRUE
  ELSE UNCHANGED <<stack, appearing>>

\* The check for a session is only made at launch.
BadTabsAppear ==
  /\ Idle
  /\ appearing
  /\ OnTop(Tabs)
  /\ appearing' = FALSE
  /\ IF ~LoggedIn /\ forms = 0 THEN ShowLogin ELSE UNCHANGED <<stack, forms>>
  /\ UNCHANGED <<service, tab, stored, form, sentBy, returned, kills, edited, handler>>

\* MainTabController.viewDidAppear
TabsAppear ==
  /\ Idle
  /\ appearing
  /\ OnTop(Tabs)
  /\ appearing' = FALSE
  /\ IF LoggedIn THEN UNCHANGED <<stack, forms>> ELSE ShowLogin
  /\ UNCHANGED <<service, tab, stored, form, sentBy, returned, kills, edited, handler>>

SelectTab(t) ==
  /\ Usable(Tabs)
  /\ tab # t
  /\ tab' = t
  /\ UNCHANGED <<service, stack, appearing, kills, session, handler>>

-----------------------------------------------------------------------------
(* LoginViewController *)

\* checkBtnStatus, which looks at the untrimmed texts
LoginEnabled(f) == form[f].email \in HasAt /\ form[f].username # ""

InFlight(f) == {c \in Calls : sentBy[c] = f} \ returned

EditEmail(f) ==
  /\ Usable(Screen("login", f))
  /\ \E e \in EmailTexts \ {form[f].email} : form' = [form EXCEPT ![f].email = e]
  /\ UNCHANGED <<service, stack, appearing, tab, stored, forms, sentBy, returned, kills,
                 edited, handler>>

EditUsername(f) ==
  /\ Usable(Screen("login", f))
  /\ \E n \in UsernameTexts \ {form[f].username} :
       form' = [form EXCEPT ![f].username = n]
  /\ edited' = edited \cup InFlight(f)
  /\ UNCHANGED <<service, stack, appearing, tab, stored, forms, sentBy, returned, kills,
                 handler>>

\* onLoginClicked, also from textFieldShouldReturn: nothing prevents a second
\* click while a call is in flight.
LoginClicked(f, c) ==
  /\ Usable(Screen("login", f))
  /\ LoginEnabled(f)
  /\ Server!Ask(c)
  /\ wanted'[c] = [email |-> Trim(form[f].email), username |-> Trim(form[f].username)]
  /\ sentBy' = [sentBy EXCEPT ![c] = f]
  /\ UNCHANGED <<stack, appearing, tab, stored, form, forms, returned, kills, edited,
                 handler>>

Awaited(c) == sentBy[c] # Nil /\ c \notin returned

\* The username is stored as it stands in the field.
BadSessionOf(c) == [id |-> verdict[c], username |-> form[sentBy[c]].username]

\* The id is the answer of the call; the username is read from the text field now.
SessionOf(c) == [id |-> verdict[c], username |-> Trim(form[sentBy[c]].username)]

\* The username is written first.
BadFirstKey(c) == [stored EXCEPT !.username = SessionOf(c).username]

FirstKey(c) == [stored EXCEPT !.id = SessionOf(c).id]

\* The main thread begins to write the keys.
Begin(h) == running' = h /\ was' = LoggedIn /\ UNCHANGED cut

\* It has written both, whatever a handler before left of them.
Finish == running' = Nil /\ was' = FALSE /\ cut' = Nil

\* The completion handler with a String writes the id,
LoginSucceeded(c) ==
  /\ Idle
  /\ Awaited(c)
  /\ status[c] = "granted"
  /\ stored' = FirstKey(c)
  /\ Begin(c)
  /\ UNCHANGED <<service, stack, appearing, tab, form, forms, sentBy, returned, kills,
                 edited>>

\* ... and then the username, and dismisses the screen.
LoginReturns(c) ==
  /\ running = c
  /\ stored' = SessionOf(c)
  /\ Dismiss(Screen("login", sentBy[c]))
  /\ returned' = returned \cup {c}
  /\ Finish
  /\ UNCHANGED <<service, tab, form, forms, sentBy, kills, edited>>

\* The screen is dismissed whatever the answer.
BadLoginFailed(c) ==
  /\ Idle
  /\ Awaited(c)
  /\ Dismiss(Screen("login", sentBy[c]))
  /\ returned' = returned \cup {c}
  /\ UNCHANGED <<service, tab, stored, form, forms, sentBy, kills, edited, handler>>

\* The completion handler with null, or with an error: the call timed out or the
\* connection broke, whatever the server has made or will make of it.
LoginFailed(c) ==
  /\ Idle
  /\ Awaited(c)
  /\ returned' = returned \cup {c}
  /\ UNCHANGED <<service, stack, appearing, tab, stored, form, forms, sentBy, kills,
                 edited, handler>>

-----------------------------------------------------------------------------
(* ProfileController, and the process *)

\* The first row of the profile tab removes the id,
Logout ==
  /\ Usable(Tabs)
  /\ tab = "profile"
  /\ forms < MaxForms
  /\ stored' = [stored EXCEPT !.id = Nil]
  /\ Begin("logout")
  /\ UNCHANGED <<service, stack, appearing, tab, form, forms, sentBy, returned, kills,
                 edited>>

\* ... and then the username, and opens the login screen.
LogoutReturns ==
  /\ running = "logout"
  /\ stored' = LoggedOut
  /\ ShowLogin
  /\ tab' = "feed"
  /\ Finish
  /\ UNCHANGED <<service, appearing, form, sentBy, returned, kills, edited>>

\* The process dies, perhaps between two writes, and is started again: UserDefaults
\* survive, screens and handlers do not.
Relaunch ==
  /\ kills < MaxKills
  /\ kills' = kills + 1
  /\ stack' = <<Tabs>>
  /\ appearing' = TRUE
  /\ tab' = "feed"
  /\ returned' = {c \in Calls : sentBy[c] # Nil}
  /\ running' = Nil /\ was' = FALSE
  /\ cut' = IF Idle THEN cut ELSE running
  /\ UNCHANGED <<service, stored, form, forms, sentBy, edited>>

-----------------------------------------------------------------------------

Decide(c) == Server!Find(c) \/ Server!Create(c) \/ Server!Refuse(c) \/ Server!Fail(c)

ServerStep ==
  /\ \E c \in Calls : \/ Decide(c) \/ Server!LoseTrack(c)
                      \/ Server!CreateLate(c) \/ Server!Drop(c)
  /\ UNCHANGED <<stack, appearing, tab, kills, session, handler>>

Next ==
  \/ TabsAppear
  \/ \E t \in {"feed", "profile"} : SelectTab(t)
  \/ \E f \in Forms : EditEmail(f) \/ EditUsername(f) \/ \E c \in Calls : LoginClicked(f, c)
  \/ \E c \in Calls : LoginSucceeded(c) \/ LoginReturns(c) \/ LoginFailed(c)
  \/ Logout \/ LogoutReturns
  \/ Relaunch
  \/ ServerStep

Spec == Init /\ [][Next]_vars

\* UIKit delivers viewDidAppear, Firebase calls every completion handler, with an
\* error when its time limit passes, and a handler runs to its end or is killed. The
\* user need not do anything.
Fairness ==
  /\ WF_vars(TabsAppear)
  /\ \A c \in Calls : WF_vars(LoginSucceeded(c) \/ LoginFailed(c))
  /\ \A c \in Calls : WF_vars(LoginReturns(c))
  /\ WF_vars(LogoutReturns)

FairSpec == Spec /\ Fairness

-----------------------------------------------------------------------------
(* Properties *)

TypeOK ==
  /\ stack \in Seq([kind : {"tabs", "login"}, n : 0 .. MaxForms])
  /\ appearing \in BOOLEAN
  /\ tab \in {"feed", "profile"}
  /\ stored \in [id : AccountIds \cup {Nil},
                 username : {Trim(n) : n \in UsernameTexts} \cup {Nil}]
  /\ form \in [Forms -> [email : EmailTexts, username : UsernameTexts]]
  /\ forms \in 0 .. MaxForms
  /\ sentBy \in [Calls -> Forms \cup {Nil}]
  /\ returned \subseteq Calls /\ edited \subseteq Calls
  /\ {running, cut} \subseteq Calls \cup {"logout", Nil} /\ was \in BOOLEAN
  /\ kills \in 0 .. MaxKills

\* Between handlers, the stored username is the one of the stored account. There are two
\* exceptions: the username field was edited while the call that logged in was in flight,
\* as the handler reads the field again instead of what it sent; or a kill cut the handler
\* between its writes, and then the id is the new one and the username what it was, until
\* the next login or logout writes both (LoginViewController.swift:34, 42-43,
\* ProfileController.swift:16-17).
StoredNameIsTheAccounts ==
  LoggedIn /\ Idle =>
    \/ \E a \in accounts : a.id = stored.id /\ a.username = stored.username
    \/ \E c \in edited \cap returned : verdict[c] = stored.id
    \/ cut \in Calls /\ verdict[cut] = stored.id

\* A session opens, or is replaced by another one, only on the login screen that asked
\* for it. The one exception is the second click of a double click, whose answer can
\* arrive after that screen is gone, and reopen a session that the user has closed
\* (LoginViewController.swift:21-47).
ReopensByDoubleClick ==
  LoggedIn' /\ stored' # stored =>
    \E c \in Calls \cap {running, running'} :
      \/ OnTop(Screen("login", sentBy[c]))
      \/ \E d \in returned : sentBy[d] = sentBy[c] /\ status[d] = "granted"

SessionsOpenOnTheLoginScreen == [][ReopensByDoubleClick]_vars

\* The rest of the app sees logging in as Session describes it: both keys change at once,
\* unless a kill comes between them, and then the id is the one that has changed
\* (LoginViewController.swift:35-47, ProfileController.swift:16-20,
\* MainTabController.swift:13-21).
Flow == INSTANCE Session WITH
  Names <- {Trim(n) : n \in UsernameTexts},
  user  <- stored.username,
  loggedIn <- IF Idle THEN LoggedIn ELSE was,
  door  <- IF appearing THEN "ajar" ELSE IF OnTop(Tabs) THEN "open" ELSE "shut",
  asked <- {c \in Calls : Awaited(c)}

ImplementsSession == Flow!Spec

\* A user without a session is offered the login screen, after a launch, a
\* dismissal or a logout (MainTabController.swift:13-21, ProfileController.swift:19).
LoginIsOffered == ~LoggedIn ~> (Top.kind = "login" \/ LoggedIn)
=============================================================================
