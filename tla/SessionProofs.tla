---------------------------- MODULE SessionProofs ----------------------------
(***************************************************************************)
(* The safety of logging in, for any number of calls, texts, screens and   *)
(* kills, that LoginFlow implements Session, and that it keeps to          *)
(* AccountService. The inductive invariant has six parts, which every      *)
(* step keeps with the help of one another: the types, with the calls      *)
(* and what the server made of them, the bounds, the screens, the handler  *)
(* between its two writes, the stored keys, and who can still open a       *)
(* session.                                                                *)
(***************************************************************************)
EXTENDS LoginFlow, TLAPS, SequenceTheorems

Names == {Trim(n) : n \in UsernameTexts}
Mails == {Trim(e) : e \in EmailTexts}
Pairs == [email : Mails, username : Names]
Statuses == {"idle", "open", "granted", "refused", "failed", "unsure"}

LoginScreen(f) == Screen("login", f)

AppTypes ==
  /\ appearing \in BOOLEAN
  /\ tab \in {"feed", "profile"}
  /\ stored \in [id : AccountIds \cup {Nil}, username : Names \cup {Nil}]
  /\ form \in [Forms -> [email : EmailTexts, username : UsernameTexts]]
  /\ sentBy \in [Calls -> Forms \cup {Nil}]
  /\ returned \subseteq Calls /\ edited \subseteq Calls
  /\ {running, cut} \subseteq Calls \cup {"logout", Nil} /\ was \in BOOLEAN

Bounds == forms \in 0 .. MaxForms /\ kills \in 0 .. MaxKills

ServerTypes ==
  /\ accounts \subseteq [id : AccountIds, email : Mails, username : Names]
  /\ status \in [Calls -> Statuses]
  /\ wanted \in [Calls -> Pairs \cup {Nil}]
  /\ verdict \in [Calls -> AccountIds \cup {Nil}]

\* At most the login screen is over the tab bar, and only a bare tab bar appears.
Screens ==
  /\ stack = <<Tabs>> \/ \E f \in Forms : stack = <<Tabs, LoginScreen(f)>>
  /\ appearing => stack = <<Tabs>>

\* What is known of a call: the server's side, and then the app's.
Served(c) ==
  /\ status[c] # "idle" => wanted[c] \in Pairs
  /\ verdict[c] # Nil => status[c] = "granted"
  /\ status[c] = "granted" =>
       \E a \in accounts : a.id = verdict[c] /\ a.username = wanted[c].username

Sent(c) ==
  /\ status[c] = "idle" <=> sentBy[c] = Nil
  /\ c \in returned => sentBy[c] # Nil
  /\ Awaited(c) /\ c \notin edited => Trim(form[sentBy[c]].username) = wanted[c].username

\* A call whose login screen is gone had a sibling that dismissed it.
Outlived(c) ==
  Awaited(c) =>
    \/ OnTop(LoginScreen(sentBy[c]))
    \/ \E d \in returned : sentBy[d] = sentBy[c] /\ status[d] = "granted"

Types == AppTypes /\ ServerTypes /\ (\A c \in Calls : Served(c) /\ Sent(c))

\* A handler that has written the id: whose it is, and what it had to write it.
Handling ==
  /\ running \in Calls =>
       Awaited(running) /\ status[running] = "granted" /\ stored.id = verdict[running]
  /\ running = "logout" => stack = <<Tabs>> /\ ~appearing /\ stored.id = Nil
  /\ cut \in Calls => status[cut] = "granted"

\* Between handlers, the two keys of UserDefaults are both there or both gone, unless a
\* kill came between the writes of the last handler to write them: after a cut login the
\* id is the one it brought, and after a cut logout it is gone, whatever the username,
\* which PhotoEditController unwraps without a test (LoginViewController.swift:42-43,
\* ProfileController.swift:16-17, PhotoEditController.swift:71).
KeysTogether ==
  Idle =>
    \/ cut = Nil /\ (stored.id = Nil <=> stored.username = Nil)
    \/ cut = "logout" /\ stored.id = Nil
    \/ cut \in Calls /\ stored.id = verdict[cut] /\ stored.id # Nil

\* Nobody uses the tabs without an id: once the tab bar has appeared, and no handler
\* runs, a user without one has the login screen before them
\* (MainTabController.swift:13-21).
NoAnonymousTabs == ~LoggedIn /\ ~appearing /\ Idle => Top.kind = "login"

Keys == KeysTogether /\ StoredNameIsTheAccounts /\ NoAnonymousTabs

IInv ==
  /\ Types /\ Bounds /\ Screens /\ Handling /\ Keys
  /\ \A c \in Calls : Outlived(c)

-----------------------------------------------------------------------------
(* Stacks *)

LEMMA AppendOne ==
  ASSUME NEW x, NEW y
  PROVE  Append(<<x>>, y) = <<x, y>>
<1> DEFINE s == Append(<<x>>, y)
           t == <<x, y>>
<1>1. <<x>> \in Seq({x, y}) /\ t \in Seq({x, y})
  OBVIOUS
<1>2. s \in Seq({x, y}) /\ Len(s) = 2 /\ s[1] = x /\ s[2] = y
  BY <1>1, AppendProperties
<1>3. Len(t) = 2 /\ t[1] = x /\ t[2] = y
  OBVIOUS
<1> HIDE DEF s, t
<1>4. \A i \in 1 .. Len(s) : s[i] = t[i]
  BY <1>2, <1>3
<1>5. s = t
  BY <1>1, <1>2, <1>3, <1>4, SeqEqual
<1> QED
  BY <1>5 DEF s, t

LEMMA DropLast ==
  ASSUME NEW x, NEW y
  PROVE  SubSeq(<<x, y>>, 1, Len(<<x, y>>) - 1) = <<x>>
<1> DEFINE s == SubSeq(<<x, y>>, 1, 1)
           t == <<x>>
<1>1. <<x, y>> \in Seq({x, y}) /\ t \in Seq({x, y}) /\ Len(<<x, y>>) - 1 = 1
  OBVIOUS
<1>2. s \in Seq({x, y}) /\ Len(s) = 1 /\ s[1] = x
  BY <1>1, SubSeqProperties
<1>3. Len(t) = 1 /\ t[1] = x
  OBVIOUS
<1> HIDE DEF s, t
<1>4. \A i \in 1 .. Len(s) : s[i] = t[i]
  BY <1>2, <1>3
<1>5. s = t
  BY <1>1, <1>2, <1>3, <1>4, SeqEqual
<1> QED
  BY <1>1, <1>5 DEF s, t

\* Which screen is on top says what the stack is.
LEMMA TopOfStack ==
  ASSUME Screens
  PROVE  /\ OnTop(Tabs) <=> stack = <<Tabs>>
         /\ \A f \in Forms : OnTop(LoginScreen(f)) <=> stack = <<Tabs, LoginScreen(f)>>
         /\ Top.kind = "login" <=> ~OnTop(Tabs)
<1>1. CASE stack = <<Tabs>>
  BY <1>1 DEF OnTop, Top, Tabs, LoginScreen, Screen
<1>2. ASSUME NEW g \in Forms, stack = <<Tabs, LoginScreen(g)>>
      PROVE  /\ OnTop(Tabs) <=> stack = <<Tabs>>
             /\ \A f \in Forms : OnTop(LoginScreen(f)) <=> stack = <<Tabs, LoginScreen(f)>>
             /\ Top.kind = "login" <=> ~OnTop(Tabs)
  BY <1>2 DEF OnTop, Top, Tabs, LoginScreen, Screen
<1> QED
  BY <1>1, <1>2 DEF Screens

\* ShowLogin puts a login screen over a bare tab bar.
LEMMA LoginShown ==
  ASSUME Bounds, stack = <<Tabs>>, ShowLogin
  PROVE  forms + 1 \in Forms /\ stack' = <<Tabs, LoginScreen(forms + 1)>>
<1>1. forms + 1 \in Forms
  BY BoundAssumption DEF Bounds, ShowLogin, Forms
<1>2. stack' = Append(<<Tabs>>, LoginScreen(forms + 1))
  BY DEF ShowLogin, LoginScreen
<1> QED
  BY <1>1, <1>2, AppendOne

\* Dismiss takes the login screen away if it is there.
LEMMA Dismissed ==
  ASSUME Screens, NEW f \in Forms, Dismiss(LoginScreen(f))
  PROVE  \/ /\ stack = <<Tabs, LoginScreen(f)>> /\ ~appearing
            /\ stack' = <<Tabs>> /\ appearing' = TRUE
         \/ ~OnTop(LoginScreen(f)) /\ UNCHANGED <<stack, appearing>>
<1>1. CASE OnTop(LoginScreen(f))
  <2>1. stack = <<Tabs, LoginScreen(f)>>
    BY <1>1, TopOfStack
  <2>2. stack' = SubSeq(stack, 1, Len(stack) - 1) /\ appearing' = TRUE
    BY <1>1 DEF Dismiss
  <2>3. stack' = <<Tabs>>
    BY <2>1, <2>2, DropLast
  <2>4. stack # <<Tabs>>
    BY <2>1
  <2> QED
    BY <2>1, <2>2, <2>3, <2>4 DEF Screens
<1>2. CASE ~OnTop(LoginScreen(f))
  BY <1>2 DEF Dismiss
<1> QED
  BY <1>1, <1>2

-----------------------------------------------------------------------------
(* Types *)

\* What the server does in one step, seen from the app.
LEMMA ServerSteps ==
  ASSUME Types, NEW c \in Calls, ServerStep,
         \/ Decide(c) \/ Server!LoseTrack(c) \/ Server!CreateLate(c) \/ Server!Drop(c)
  PROVE  /\ accounts \subseteq accounts'
         /\ accounts' \subseteq [id : AccountIds, email : Mails, username : Names]
         /\ status[c] \in {"open", "unsure"}
         /\ \E end \in Statuses \ {"idle"}, answer \in AccountIds \cup {Nil} :
              /\ status' = [status EXCEPT ![c] = end]
              /\ verdict' = [verdict EXCEPT ![c] = answer]
              /\ answer # Nil => end = "granted"
              /\ end = "granted" =>
                   \E a \in accounts' : a.id = answer /\ a.username = wanted[c].username
         /\ wanted' = wanted
<1> USE DEF Types, ServerTypes
<1>1. status[c] \in {"open", "unsure"}
  BY DEF Decide, Server!Find, Server!Create, Server!Refuse, Server!Fail, Server!LoseTrack,
     Server!CreateLate, Server!Drop
<1>2. wanted[c] \in Pairs
  BY <1>1 DEF Served
<1>3. CASE Server!Find(c)
  <2>1. PICK a \in accounts : Server!Matches(a, wanted[c]) /\ Server!Close(c, "granted", a.id)
    BY <1>3 DEF Server!Find
  <2>2. a.id \in AccountIds /\ a.username = wanted[c].username
    BY <2>1 DEF Server!Matches
  <2> QED
    BY <1>1, <1>3, <2>1, <2>2 DEF Server!Find, Server!Close, Statuses
<1>4. ASSUME NEW i \in AccountIds, Server!Register(c, i)
      PROVE  /\ accounts \subseteq accounts'
             /\ accounts' \subseteq [id : AccountIds, email : Mails, username : Names]
             /\ \E a \in accounts' : a.id = i /\ a.username = wanted[c].username
  <2> DEFINE new == [id |-> i, email |-> wanted[c].email, username |-> wanted[c].username]
  <2>1. accounts' = accounts \cup {new}
    BY <1>4 DEF Server!Register
  <2>2. wanted[c].email \in Mails /\ wanted[c].username \in Names
    BY <1>2 DEF Pairs
  <2>3. new \in [id : AccountIds, email : Mails, username : Names]
    BY <2>2
  <2>4. new.id = i /\ new.username = wanted[c].username
    OBVIOUS
  <2> HIDE DEF new
  <2> QED
    BY <2>1, <2>3, <2>4
<1>5. CASE Server!Create(c)
  <2>1. PICK i \in AccountIds : Server!Register(c, i) /\ Server!Close(c, "granted", i)
    BY <1>5 DEF Server!Create
  <2> QED
    BY <1>1, <1>4, <2>1 DEF Server!Close, Statuses
<1>6. CASE Server!CreateLate(c)
  <2>1. PICK i \in AccountIds : Server!Register(c, i)
    BY <1>6 DEF Server!CreateLate
  <2> QED
    BY <1>1, <1>4, <1>6, <2>1 DEF Server!CreateLate, Server!Close, Statuses
<1>7. CASE Server!Refuse(c) \/ Server!Fail(c) \/ Server!LoseTrack(c) \/ Server!Drop(c)
  BY <1>1, <1>7 DEF Server!Refuse, Server!Fail, Server!LoseTrack, Server!Drop, Server!Close,
     Statuses
<1> QED
  BY <1>3, <1>5, <1>6, <1>7 DEF Decide

LEMMA BoundsStep == Bounds /\ [Next]_vars => Bounds'
<1> SUFFICES ASSUME Bounds, [Next]_vars PROVE Bounds'
  OBVIOUS
<1> USE BoundAssumption DEF Bounds
<1>1. CASE TabsAppear
  BY <1>1 DEF TabsAppear, ShowLogin
<1>2. CASE \E t \in {"feed", "profile"} : SelectTab(t)
  BY <1>2 DEF SelectTab, session
<1>3. ASSUME NEW f \in Forms, EditEmail(f) \/ EditUsername(f) PROVE Bounds'
  BY <1>3 DEF EditEmail, EditUsername
<1>4. ASSUME NEW f \in Forms, NEW c \in Calls, LoginClicked(f, c) PROVE Bounds'
  BY <1>4 DEF LoginClicked
<1>5. ASSUME NEW c \in Calls, LoginSucceeded(c) \/ LoginReturns(c) \/ LoginFailed(c)
      PROVE  Bounds'
  BY <1>5 DEF LoginSucceeded, LoginReturns, LoginFailed
<1>6. CASE Logout \/ LogoutReturns
  BY <1>6 DEF Logout, LogoutReturns, ShowLogin
<1>7. CASE Relaunch
  BY <1>7 DEF Relaunch
<1>8. CASE ServerStep
  BY <1>8 DEF ServerStep, session
<1>9. CASE UNCHANGED vars
  BY <1>9 DEF vars
<1> QED
  BY <1>1, <1>2, <1>3, <1>4, <1>5, <1>6, <1>7, <1>8, <1>9 DEF Next

LEMMA TypesStep == Types /\ Handling /\ [Next]_vars => Types'
<1> SUFFICES ASSUME Types, Handling, [Next]_vars PROVE Types'
  OBVIOUS
<1> USE DEF Types, AppTypes, ServerTypes
\* A step that changes nothing but screens and bounds.
<1>a. ASSUME UNCHANGED <<service, session>> \/ UNCHANGED <<service, stored, form, sentBy,
               returned, edited>>,
             tab' \in {"feed", "profile"}, appearing' \in BOOLEAN, UNCHANGED handler
      PROVE  Types'
  BY <1>a DEF service, session, handler, Served, Sent, Awaited
<1>1. CASE TabsAppear
  BY <1>1, <1>a DEF TabsAppear
<1>2. CASE \E t \in {"feed", "profile"} : SelectTab(t)
  BY <1>2, <1>a DEF SelectTab
<1>3. ASSUME NEW f \in Forms, EditEmail(f) PROVE Types'
  <2>1. /\ form' \in [Forms -> [email : EmailTexts, username : UsernameTexts]]
        /\ \A g \in Forms : form'[g].username = form[g].username
    BY <1>3 DEF EditEmail
  <2>2. UNCHANGED <<service, appearing, tab, stored, sentBy, returned, edited, running,
                    was, cut>>
    BY <1>3 DEF EditEmail, handler
  <2>3. \A c \in Calls : sentBy[c] # Nil => sentBy[c] \in Forms
    OBVIOUS
  <2>4. \A c \in Calls : Served(c)' /\ Sent(c)'
    BY <2>1, <2>2, <2>3 DEF service, Served, Sent, Awaited
  <2> QED
    BY <2>1, <2>2, <2>4 DEF service
<1>4. ASSUME NEW f \in Forms, EditUsername(f) PROVE Types'
  <2>1. /\ form' \in [Forms -> [email : EmailTexts, username : UsernameTexts]]
        /\ \A g \in Forms \ {f} : form'[g] = form[g]
        /\ edited' = edited \cup InFlight(f)
    BY <1>4 DEF EditUsername
  <2>2. UNCHANGED <<service, appearing, tab, stored, sentBy, returned, running, was, cut>>
    BY <1>4 DEF EditUsername, handler
  <2>3. edited' \subseteq Calls
    BY <2>1 DEF InFlight
  <2>4. ASSUME NEW c \in Calls PROVE Served(c)' /\ Sent(c)'
    <3>1. Served(c)' /\ Awaited(c)' = Awaited(c)
      BY <2>2 DEF service, Served, Awaited
    <3>2. Awaited(c) /\ c \notin edited' => c \notin edited /\ sentBy[c] \in Forms \ {f}
      BY <2>1 DEF InFlight, Awaited
    <3> QED
      BY <2>1, <2>2, <3>1, <3>2 DEF service, Sent
  <2> QED
    BY <2>1, <2>2, <2>3, <2>4 DEF service
<1>5. ASSUME NEW f \in Forms, NEW c \in Calls, LoginClicked(f, c) PROVE Types'
  <2>1. /\ status[c] = "idle" /\ status' = [status EXCEPT ![c] = "open"]
        /\ sentBy' = [sentBy EXCEPT ![c] = f]
        /\ UNCHANGED <<accounts, verdict, appearing, tab, stored, form, returned, edited,
                       running, was, cut>>
    BY <1>5 DEF LoginClicked, Server!Ask, handler
  <2>2. PICK e \in Mails, n \in Names :
          wanted' = [wanted EXCEPT ![c] = [email |-> e, username |-> n]]
    BY <1>5 DEF LoginClicked, Server!Ask, Mails, Names
  <2>3. wanted'[c] \in Pairs /\ wanted'[c].username = Trim(form[f].username)
    BY <1>5, <2>2 DEF LoginClicked, Pairs
  <2>4. ASSUME NEW d \in Calls PROVE Served(d)' /\ Sent(d)'
    <3>1. CASE d = c
      BY <2>1, <2>3, <3>1, NilAssumption DEF Served, Sent, Awaited, Forms
    <3>2. CASE d # c
      BY <2>1, <2>2, <3>2 DEF Served, Sent, Awaited
    <3> QED
      BY <3>1, <3>2
  <2> QED
    BY <2>1, <2>2, <2>3, <2>4 DEF Statuses
<1>6. ASSUME NEW c \in Calls, LoginSucceeded(c) PROVE Types'
  <2>1. /\ UNCHANGED <<service, appearing, tab, form, sentBy, returned, edited, cut>>
        /\ stored' = [stored EXCEPT !.id = verdict[c]]
        /\ running' = c /\ was' = LoggedIn
    BY <1>6 DEF LoginSucceeded, FirstKey, SessionOf, Begin
  <2>2. stored' \in [id : AccountIds \cup {Nil}, username : Names \cup {Nil}]
    BY <2>1
  <2>3. \A d \in Calls : Served(d)' /\ Sent(d)'
    BY <2>1 DEF service, Served, Sent, Awaited
  <2> QED
    BY <2>1, <2>2, <2>3 DEF service, LoggedIn
<1>12. ASSUME NEW c \in Calls, LoginReturns(c) PROVE Types'
  <2>1. /\ UNCHANGED <<service, tab, form, sentBy, edited>> /\ Awaited(c)
        /\ returned' = returned \cup {c} /\ sentBy[c] \in Forms
        /\ stored' = [id |-> verdict[c], username |-> Trim(form[sentBy[c]].username)]
        /\ appearing' \in BOOLEAN /\ running' = Nil /\ was' = FALSE /\ cut' = Nil
    BY <1>12 DEF LoginReturns, SessionOf, Finish, Handling, Awaited, Dismiss
  <2>2. stored' \in [id : AccountIds \cup {Nil}, username : Names \cup {Nil}]
    BY <2>1 DEF Names
  <2>3. \A d \in Calls : Served(d)' /\ Sent(d)'
    BY <2>1 DEF service, Served, Sent, Awaited
  <2> QED
    BY <2>1, <2>2, <2>3 DEF service
<1>7. ASSUME NEW c \in Calls, LoginFailed(c) PROVE Types'
  <2>1. /\ UNCHANGED <<service, tab, appearing, stored, form, sentBy, edited, running,
                       was, cut>>
        /\ Awaited(c) /\ returned' = returned \cup {c}
    BY <1>7 DEF LoginFailed, handler
  <2>2. \A d \in Calls : Served(d)' /\ Sent(d)'
    BY <2>1 DEF service, Served, Sent, Awaited
  <2> QED
    BY <2>1, <2>2 DEF service
<1>8. CASE Logout \/ LogoutReturns
  <2>1. /\ UNCHANGED <<service, appearing, form, sentBy, returned, edited>>
        /\ tab' \in {"feed", "profile"}
        /\ \/ stored' = [stored EXCEPT !.id = Nil]
           \/ stored' = LoggedOut
        /\ \/ running' = "logout" /\ was' = LoggedIn /\ UNCHANGED cut
           \/ running' = Nil /\ was' = FALSE /\ cut' = Nil
    BY <1>8 DEF Logout, LogoutReturns, Begin, Finish
  <2>2. \A d \in Calls : Served(d)' /\ Sent(d)'
    BY <2>1 DEF service, Served, Sent, Awaited
  <2>3. stored' \in [id : AccountIds \cup {Nil}, username : Names \cup {Nil}]
    BY <2>1 DEF LoggedOut
  <2> QED
    BY <2>1, <2>2, <2>3 DEF service, LoggedIn
<1>9. CASE Relaunch
  <2>1. /\ UNCHANGED <<service, stored, form, sentBy, edited>>
        /\ tab' = "feed" /\ appearing' = TRUE
        /\ returned' = {c \in Calls : sentBy[c] # Nil}
        /\ running' = Nil /\ was' = FALSE /\ cut' \in {cut, running}
    BY <1>9 DEF Relaunch
  <2>2. \A d \in Calls : Served(d)' /\ Sent(d)'
    BY <2>1 DEF service, Served, Sent, Awaited
  <2> QED
    BY <2>1, <2>2 DEF service
<1>10. CASE ServerStep
  <2>1. PICK c \in Calls : \/ Decide(c) \/ Server!LoseTrack(c)
                           \/ Server!CreateLate(c) \/ Server!Drop(c)
    BY <1>10 DEF ServerStep
  <2>2. UNCHANGED <<appearing, tab, stored, form, sentBy, returned, edited, wanted,
                    running, was, cut>>
    BY <1>10, <2>1, ServerSteps DEF ServerStep, session, handler
  <2>3. PICK end \in Statuses \ {"idle"}, answer \in AccountIds \cup {Nil} :
          /\ status' = [status EXCEPT ![c] = end]
          /\ verdict' = [verdict EXCEPT ![c] = answer]
          /\ answer # Nil => end = "granted"
          /\ end = "granted" =>
               \E a \in accounts' : a.id = answer /\ a.username = wanted[c].username
    BY <1>10, <2>1, ServerSteps
  <2>4. /\ accounts \subseteq accounts'
        /\ accounts' \subseteq [id : AccountIds, email : Mails, username : Names]
        /\ status[c] # "idle"
    BY <1>10, <2>1, ServerSteps
  <2>5. \A d \in Calls : Served(d)'
    BY <2>2, <2>3, <2>4 DEF Served
  <2>6. \A d \in Calls : Sent(d)'
    BY <2>2, <2>3, <2>4 DEF Sent, Awaited
  <2> QED
    BY <2>2, <2>3, <2>4, <2>5, <2>6
<1>11. CASE UNCHANGED vars
  BY <1>11, <1>a DEF vars, service, handler
<1> QED
  BY <1>1, <1>2, <1>3, <1>4, <1>5, <1>6, <1>7, <1>8, <1>9, <1>10, <1>11, <1>12 DEF Next

-----------------------------------------------------------------------------
(* Screens *)

LEMMA ScreensStep == Types /\ Bounds /\ Screens /\ Handling /\ [Next]_vars => Screens'
<1> SUFFICES ASSUME Types, Bounds, Screens, Handling, [Next]_vars PROVE Screens'
  OBVIOUS
<1>1. CASE TabsAppear
  <2>1. stack = <<Tabs>> /\ appearing' = FALSE
    BY <1>1, TopOfStack DEF TabsAppear
  <2>2. stack' = stack \/ ShowLogin
    BY <1>1 DEF TabsAppear
  <2> QED
    BY <2>1, <2>2, LoginShown DEF Screens
<1>2. CASE LogoutReturns
  <2>1. stack = <<Tabs>> /\ ~appearing' /\ ShowLogin
    BY <1>2 DEF LogoutReturns, Handling
  <2> QED
    BY <2>1, LoginShown DEF Screens
<1>3. ASSUME NEW c \in Calls, LoginReturns(c) PROVE Screens'
  <2>1. sentBy[c] \in Forms /\ Dismiss(LoginScreen(sentBy[c]))
    BY <1>3 DEF LoginReturns, LoginScreen, Handling, Awaited, Types, AppTypes
  <2>2. \/ stack' = <<Tabs>>
        \/ UNCHANGED <<stack, appearing>>
    BY <2>1, Dismissed
  <2> QED
    BY <2>2 DEF Screens
<1>4. CASE Relaunch
  BY <1>4 DEF Relaunch, Screens
<1>5. CASE UNCHANGED <<stack, appearing>>
  BY <1>5 DEF Screens
<1> QED
  BY <1>1, <1>2, <1>3, <1>4, <1>5 DEF Next, SelectTab, EditEmail, EditUsername,
     LoginClicked, LoginSucceeded, LoginFailed, Logout, ServerStep, vars

-----------------------------------------------------------------------------
(* The stored keys *)

\* A granted call answers an id, and a text of a field is a name.
LEMMA GrantedIds ==
  ASSUME Types, NEW c \in Calls, status[c] = "granted"
  PROVE  verdict[c] \in AccountIds /\ verdict[c] # Nil
  BY NilAssumption DEF Types, ServerTypes, Served

LEMMA FieldNames ==
  ASSUME Types, NEW f \in Forms
  PROVE  Trim(form[f].username) \in Names /\ Trim(form[f].username) # Nil
  BY NilAssumption DEF Types, AppTypes, Names

\* What a granted call answered stays.
LEMMA VerdictsStay ==
  ASSUME Types, Handling, [Next]_vars
  PROVE  /\ accounts \subseteq accounts'
         /\ \A c \in Calls :
              /\ status[c] = "granted" => status'[c] = "granted" /\ verdict'[c] = verdict[c]
              /\ verdict[c] # Nil => verdict'[c] = verdict[c]
<1>1. CASE ServerStep
  <2>1. PICK c \in Calls : \/ Decide(c) \/ Server!LoseTrack(c)
                           \/ Server!CreateLate(c) \/ Server!Drop(c)
    BY <1>1 DEF ServerStep
  <2>2. /\ accounts \subseteq accounts' /\ status[c] \in {"open", "unsure"}
        /\ \E answer : verdict' = [verdict EXCEPT ![c] = answer]
        /\ \E end : status' = [status EXCEPT ![c] = end]
    BY <1>1, <2>1, ServerSteps
  <2>3. verdict[c] = Nil /\ status[c] # "granted"
    BY <2>2 DEF Types, Served
  <2> QED
    BY <2>2, <2>3 DEF Types, ServerTypes
<1>2. ASSUME NEW f \in Forms, NEW c \in Calls, LoginClicked(f, c)
      PROVE  /\ UNCHANGED <<accounts, verdict>> /\ status[c] = "idle"
             /\ status' = [status EXCEPT ![c] = "open"]
  BY <1>2 DEF LoginClicked, Server!Ask
<1>3. CASE UNCHANGED service
  BY <1>3 DEF service
<1> QED
  BY <1>1, <1>2, <1>3 DEF Next, TabsAppear, SelectTab, EditEmail, EditUsername,
     LoginSucceeded, LoginReturns, LoginFailed, Logout, LogoutReturns, Relaunch, vars,
     service, Types, ServerTypes

LEMMA HandlingStep == Types /\ Screens /\ Handling /\ [Next]_vars => Handling'
<1> SUFFICES ASSUME Types, Screens, Handling, [Next]_vars PROVE Handling'
  OBVIOUS
<1> USE NilAssumption DEF Handling
<1>g. \A c \in Calls :
        status[c] = "granted" => status'[c] = "granted" /\ verdict'[c] = verdict[c]
  BY VerdictsStay
\* A step outside the handlers that write keys.
<1>a. ASSUME Idle, UNCHANGED handler PROVE Handling'
  BY <1>a, <1>g DEF Idle, handler
<1>1. ASSUME NEW c \in Calls, LoginSucceeded(c) PROVE Handling'
  <2>1. /\ Awaited(c) /\ status[c] = "granted" /\ running' = c /\ cut' = cut
        /\ stored' = [stored EXCEPT !.id = verdict[c]]
        /\ UNCHANGED <<service, sentBy, returned>>
    BY <1>1 DEF LoginSucceeded, FirstKey, SessionOf, Begin
  <2>2. stored'.id = verdict[c]
    BY <2>1 DEF Types, AppTypes
  <2> QED
    BY <2>1, <2>2 DEF service, Awaited
<1>2. CASE Logout
  <2>1. /\ stack = <<Tabs>> /\ ~appearing /\ running' = "logout" /\ cut' = cut
        /\ stored' = [stored EXCEPT !.id = Nil] /\ UNCHANGED <<service, stack, appearing>>
    BY <1>2, TopOfStack DEF Logout, Usable, Begin
  <2>2. stored'.id = Nil
    BY <2>1 DEF Types, AppTypes
  <2> QED
    BY <2>1, <2>2 DEF service
<1>3. CASE LogoutReturns \/ \E c \in Calls : LoginReturns(c)
  BY <1>3 DEF LogoutReturns, LoginReturns, Finish
<1>4. CASE Relaunch
  BY <1>4 DEF Relaunch, Idle, service
<1>5. CASE ServerStep
  BY <1>5, <1>g DEF ServerStep, session, handler, Awaited
<1>6. CASE UNCHANGED vars
  BY <1>6 DEF vars, Awaited
<1>7. CASE \/ TabsAppear \/ \E t \in {"feed", "profile"} : SelectTab(t)
           \/ \E f \in Forms : EditEmail(f) \/ EditUsername(f)
           \/ \E f \in Forms, c \in Calls : LoginClicked(f, c)
           \/ \E c \in Calls : LoginFailed(c)
  BY <1>7, <1>a DEF TabsAppear, SelectTab, EditEmail, EditUsername, LoginClicked,
     LoginFailed, Usable
<1> QED
  BY <1>1, <1>2, <1>3, <1>4, <1>5, <1>6, <1>7 DEF Next

LEMMA KeysStep == Types /\ Bounds /\ Screens /\ Handling /\ Keys /\ [Next]_vars => Keys'
<1> SUFFICES ASSUME Types, Bounds, Screens, Handling, Keys, [Next]_vars PROVE Keys'
  OBVIOUS
<1> USE DEF Keys
<1>g. /\ accounts \subseteq accounts'
      /\ \A c \in Calls :
           /\ status[c] = "granted" => status'[c] = "granted" /\ verdict'[c] = verdict[c]
           /\ verdict[c] # Nil => verdict'[c] = verdict[c]
  BY VerdictsStay
\* A step that leaves the keys alone.
<1>a. ASSUME UNCHANGED <<stored, handler>>, returned \subseteq returned',
             edited \subseteq edited'
      PROVE  KeysTogether' /\ StoredNameIsTheAccounts'
  <2>1. KeysTogether'
    BY <1>a, <1>g DEF handler, KeysTogether, Idle, Handling
  <2>2. ASSUME LoggedIn, Idle PROVE StoredNameIsTheAccounts'
    <3>1. CASE \E b \in accounts : b.id = stored.id /\ b.username = stored.username
      BY <1>a, <1>g, <3>1 DEF StoredNameIsTheAccounts
    <3>2. ASSUME NEW c \in edited \cap returned, verdict[c] = stored.id
          PROVE  StoredNameIsTheAccounts'
      <4>1. c \in Calls /\ verdict'[c] = stored'.id /\ c \in edited' \cap returned'
        BY <1>a, <1>g, <2>2, <3>2 DEF LoggedIn, Types, AppTypes
      <4> QED
        BY <4>1 DEF StoredNameIsTheAccounts
    <3>3. CASE cut \in Calls /\ verdict[cut] = stored.id
      BY <1>a, <1>g, <2>2, <3>3 DEF StoredNameIsTheAccounts, LoggedIn, handler
    <3> QED
      BY <2>2, <3>1, <3>2, <3>3 DEF StoredNameIsTheAccounts
  <2> QED
    BY <1>a, <2>1, <2>2 DEF StoredNameIsTheAccounts, LoggedIn, Idle, handler
<1>b. ASSUME UNCHANGED <<stack, appearing, stored, running>> PROVE NoAnonymousTabs'
  BY <1>b DEF NoAnonymousTabs, LoggedIn, Top, Idle
<1>1. CASE TabsAppear
  <2>1. KeysTogether' /\ StoredNameIsTheAccounts'
    BY <1>1, <1>a DEF TabsAppear
  <2>2. ~LoggedIn => stack' = <<Tabs, LoginScreen(forms + 1)>> /\ forms + 1 \in Forms
    BY <1>1, TopOfStack, LoginShown DEF TabsAppear
  <2>3. ~LoggedIn => Top'.kind = "login"
    <3> SUFFICES ASSUME ~LoggedIn PROVE Top'.kind = "login"
      OBVIOUS
    <3>1. stack' = <<Tabs, LoginScreen(forms + 1)>>
      BY <2>2
    <3> QED
      BY <3>1 DEF Top, LoginScreen, Screen
  <2> QED
    BY <1>1, <2>1, <2>3 DEF TabsAppear, NoAnonymousTabs, LoggedIn
<1>2. CASE LogoutReturns
  <2>1. stack = <<Tabs>> /\ ShowLogin
    BY <1>2 DEF LogoutReturns, Handling
  <2>2. stack' = <<Tabs, LoginScreen(forms + 1)>>
    BY <2>1, LoginShown
  <2>3. Top'.kind = "login"
    BY <2>2 DEF Top, LoginScreen, Screen
  <2>4. stored' = LoggedOut /\ cut' = Nil
    BY <1>2 DEF LogoutReturns, Finish
  <2> QED
    BY <2>3, <2>4 DEF LoggedOut, KeysTogether, StoredNameIsTheAccounts, NoAnonymousTabs,
       LoggedIn
<1>3. ASSUME NEW c \in Calls, LoginReturns(c) PROVE Keys'
  <2>1. /\ stored' = [id |-> verdict[c], username |-> Trim(form[sentBy[c]].username)]
        /\ Awaited(c) /\ status[c] = "granted" /\ sentBy[c] \in Forms
        /\ returned' = returned \cup {c} /\ edited' = edited /\ UNCHANGED service
        /\ cut' = Nil
    BY <1>3 DEF LoginReturns, SessionOf, Finish, Handling, Awaited, Types, AppTypes
  <2>2. stored'.id # Nil /\ stored'.username # Nil
    BY <2>1, GrantedIds, FieldNames
  <2>3. StoredNameIsTheAccounts'
    <3>1. CASE c \in edited
      BY <2>1, <3>1 DEF service, StoredNameIsTheAccounts
    <3>2. CASE c \notin edited
      <4>1. Trim(form[sentBy[c]].username) = wanted[c].username
        BY <2>1, <3>2 DEF Types, Sent
      <4>2. \E a \in accounts : a.id = verdict[c] /\ a.username = wanted[c].username
        BY <2>1 DEF Types, Served
      <4> QED
        BY <2>1, <4>1, <4>2 DEF service, StoredNameIsTheAccounts
    <3> QED
      BY <3>1, <3>2
  <2> QED
    BY <2>1, <2>2, <2>3 DEF KeysTogether, NoAnonymousTabs, LoggedIn
<1>4. CASE Relaunch
  <2>1. /\ returned \subseteq returned' /\ appearing' = TRUE /\ UNCHANGED <<service, stored>>
        /\ edited' = edited /\ running' = Nil
        /\ cut' = IF running = Nil THEN cut ELSE running
    BY <1>4 DEF Relaunch, Types, AppTypes, Sent, Idle
  <2>2. CASE running = Nil
    <3>1. KeysTogether'
      BY <2>1, <2>2 DEF service, KeysTogether, Idle
    <3>2. StoredNameIsTheAccounts'
      BY <2>1, <2>2 DEF service, StoredNameIsTheAccounts, Idle, LoggedIn
    <3> QED
      BY <2>1, <3>1, <3>2 DEF NoAnonymousTabs
  <2>3. CASE running = "logout"
    <3>1. stored'.id = Nil /\ cut' = "logout"
      BY <2>1, <2>3, NilAssumption DEF Handling
    <3> QED
      BY <2>1, <3>1 DEF KeysTogether, StoredNameIsTheAccounts, LoggedIn, NoAnonymousTabs
  <2>4. CASE running \in Calls
    <3>1. /\ stored'.id = verdict'[running] /\ cut' = running
          /\ stored'.id # Nil /\ running \in Calls
      BY <2>1, <2>4, GrantedIds, NilAssumption DEF Handling, service
    <3> QED
      BY <2>1, <3>1 DEF KeysTogether, StoredNameIsTheAccounts, NoAnonymousTabs
  <2> QED
    BY <2>2, <2>3, <2>4 DEF Types, AppTypes
<1>5. CASE Logout \/ \E c \in Calls : LoginSucceeded(c)
  <2>1. running' # Nil
    BY <1>5, NilAssumption DEF Logout, LoginSucceeded, Begin
  <2> QED
    BY <2>1 DEF KeysTogether, StoredNameIsTheAccounts, NoAnonymousTabs, Idle
<1>6. CASE \/ \E t \in {"feed", "profile"} : SelectTab(t)
           \/ \E f \in Forms : EditEmail(f) \/ EditUsername(f)
           \/ \E f \in Forms, c \in Calls : LoginClicked(f, c)
           \/ \E c \in Calls : LoginFailed(c)
           \/ ServerStep \/ UNCHANGED vars
  <2>1. /\ UNCHANGED <<stack, appearing, stored, handler>>
        /\ returned \subseteq returned' /\ edited \subseteq edited'
    BY <1>6 DEF SelectTab, EditEmail, EditUsername, LoginClicked, LoginFailed, ServerStep,
       vars, session, handler
  <2>2. UNCHANGED <<stack, appearing, stored, running>>
    BY <2>1 DEF handler
  <2> QED
    BY <1>a, <1>b, <2>1, <2>2
<1> QED
  BY <1>1, <1>2, <1>3, <1>4, <1>5, <1>6 DEF Next

-----------------------------------------------------------------------------
(* Who opens a session *)

LEMMA OutlivedStep ==
  ASSUME Types, Bounds, Screens, Handling, \A c \in Calls : Outlived(c), [Next]_vars
  PROVE  \A c \in Calls : Outlived(c)'
<1> SUFFICES ASSUME NEW c \in Calls, Awaited(c)'
             PROVE  \/ OnTop(LoginScreen(sentBy[c]))'
                    \/ \E d \in returned' : sentBy'[d] = sentBy'[c] /\ status'[d] = "granted"
  BY DEF Outlived
\* A step that moves no screen and answers no call.
<1>a. ASSUME UNCHANGED <<stack, sentBy>>, returned \subseteq returned',
             \A d \in Calls : status[d] = "granted" => status'[d] = "granted"
      PROVE  Outlived(c)'
  BY <1>a DEF Outlived, Awaited, OnTop, Top, LoginScreen, Types, AppTypes
<1>1. CASE TabsAppear \/ LogoutReturns
  <2>1. /\ stack = <<Tabs>>
        /\ UNCHANGED <<service, sentBy, returned>>
    BY <1>1, TopOfStack DEF TabsAppear, LogoutReturns, Handling
  <2>2. sentBy[c] \in Forms
    BY <2>1 DEF Awaited, Types, AppTypes
  <2>3. ~OnTop(LoginScreen(sentBy[c]))
    BY <2>1, <2>2, TopOfStack
  <2> QED
    BY <2>1, <2>3 DEF Outlived, Awaited, service
<1>2. ASSUME NEW f \in Forms, NEW d \in Calls, LoginClicked(f, d) PROVE Outlived(c)'
  <2>1. /\ OnTop(LoginScreen(f)) /\ status[d] = "idle"
        /\ sentBy' = [sentBy EXCEPT ![d] = f] /\ status' = [status EXCEPT ![d] = "open"]
        /\ UNCHANGED <<stack, returned>>
    BY <1>2 DEF LoginClicked, Usable, Server!Ask, LoginScreen
  <2>2. CASE c = d
    BY <2>1, <2>2 DEF Outlived, OnTop, Top, LoginScreen, Types, AppTypes
  <2>3. CASE c # d
    <3>1. d \notin returned
      BY <2>1 DEF Types, Sent
    <3>2. sentBy'[c] = sentBy[c] /\ Awaited(c)
      BY <2>1, <2>3 DEF Awaited, Types, AppTypes
    <3>3. \A e \in returned : sentBy'[e] = sentBy[e] /\ status'[e] = status[e]
      BY <2>1, <3>1 DEF Types, AppTypes, ServerTypes
    <3> QED
      BY <2>1, <3>2, <3>3 DEF Outlived, OnTop, Top, LoginScreen
  <2> QED
    BY <2>2, <2>3
<1>3. ASSUME NEW d \in Calls, LoginReturns(d) PROVE Outlived(c)'
  <2>1. /\ Awaited(d) /\ status[d] = "granted" /\ Dismiss(LoginScreen(sentBy[d]))
        /\ returned' = returned \cup {d} /\ UNCHANGED <<service, sentBy>>
    BY <1>3 DEF LoginReturns, LoginScreen, Handling
  <2>2. sentBy[c] \in Forms /\ sentBy[d] \in Forms /\ Awaited(c)
    BY <2>1 DEF Awaited, Types, AppTypes
  <2>3. CASE sentBy[c] = sentBy[d]
    BY <2>1, <2>3 DEF Outlived, service
  <2>4. CASE sentBy[c] # sentBy[d]
    <3>1. LoginScreen(sentBy[c]) # LoginScreen(sentBy[d])
      BY <2>4 DEF LoginScreen, Screen
    <3>2. OnTop(LoginScreen(sentBy[c])) => UNCHANGED stack
      BY <2>1, <2>2, <3>1, Dismissed, TopOfStack DEF OnTop
    <3> QED
      BY <2>1, <2>2, <3>2 DEF Outlived, OnTop, Top, LoginScreen, service
  <2> QED
    BY <2>3, <2>4
<1>4. CASE Relaunch
  BY <1>4 DEF Relaunch, Awaited
<1>5. CASE ServerStep
  <2>1. PICK d \in Calls : \/ Decide(d) \/ Server!LoseTrack(d)
                           \/ Server!CreateLate(d) \/ Server!Drop(d)
    BY <1>5 DEF ServerStep
  <2>2. /\ status[d] # "granted"
        /\ \E end : status' = [status EXCEPT ![d] = end]
    BY <1>5, <2>1, ServerSteps
  <2> QED
    BY <1>5, <1>a, <2>2 DEF ServerStep, session, Types, ServerTypes, Outlived
<1>6. CASE \/ \E t \in {"feed", "profile"} : SelectTab(t)
           \/ \E f \in Forms : EditEmail(f) \/ EditUsername(f)
           \/ \E d \in Calls : LoginSucceeded(d) \/ LoginFailed(d)
           \/ Logout \/ UNCHANGED vars
  <2>1. UNCHANGED <<service, stack, sentBy>> /\ returned \subseteq returned'
    BY <1>6 DEF SelectTab, EditEmail, EditUsername, LoginSucceeded, LoginFailed, Logout,
       vars, service, session
  <2> QED
    BY <1>a, <2>1 DEF service, Outlived
<1> QED
  BY <1>1, <1>2, <1>3, <1>4, <1>5, <1>6 DEF Next, Outlived

-----------------------------------------------------------------------------
(* The theorems *)

LEMMA Initially == Init => IInv
<1> SUFFICES ASSUME Init PROVE IInv
  OBVIOUS
<1>1. Types
  <2>1. AppTypes
    BY TextAssumption DEF Init, AppTypes, LoggedOut
  <2>2. ServerTypes
    BY DEF Init, Server!Init, ServerTypes, Statuses
  <2>3. \A c \in Calls : Served(c) /\ Sent(c)
    BY DEF Init, Server!Init, Served, Sent, Awaited
  <2> QED
    BY <2>1, <2>2, <2>3 DEF Types
<1>2. Bounds
  <2>1. 0 \in 0 .. MaxForms /\ 0 \in 0 .. MaxKills
    BY BoundAssumption
  <2> QED
    BY <2>1 DEF Init, Bounds
<1>3. Screens /\ Handling /\ Keys
  BY NilAssumption DEF Init, Screens, Handling, Keys, KeysTogether,
     StoredNameIsTheAccounts, NoAnonymousTabs, LoggedIn, LoggedOut
<1>4. \A c \in Calls : Outlived(c)
  BY DEF Init, Outlived, Awaited
<1> QED
  BY <1>1, <1>2, <1>3, <1>4 DEF IInv

LEMMA Inductive == Spec => []IInv
<1>1. IInv /\ [Next]_vars => IInv'
  BY TypesStep, BoundsStep, ScreensStep, HandlingStep, KeysStep, OutlivedStep DEF IInv
<1> QED
  BY <1>1, Initially, PTL DEF Spec

\* The login flow keeps its types.
THEOREM SessionTypes == Spec => []TypeOK
<1>1. IInv => TypeOK
  <2> SUFFICES ASSUME IInv PROVE TypeOK
    OBVIOUS
  <2> DEFINE All == [kind : {"tabs", "login"}, n : 0 .. MaxForms]
  <2>1. Tabs \in All /\ \A f \in Forms : LoginScreen(f) \in All
    BY BoundAssumption DEF Tabs, LoginScreen, Screen, Forms
  <2>2. stack \in Seq(All)
    <3> HIDE DEF All
    <3>1. CASE stack = <<Tabs>>
      BY <2>1, <3>1
    <3>2. ASSUME NEW f \in Forms, stack = <<Tabs, LoginScreen(f)>> PROVE stack \in Seq(All)
      BY <2>1, <3>2
    <3> QED
      BY <3>1, <3>2 DEF IInv, Screens
  <2> QED
    BY <2>2 DEF IInv, Types, AppTypes, Bounds, Names, TypeOK
<1> QED
  BY <1>1, Inductive, PTL

\* The two keys of UserDefaults are both there or both gone, unless a kill came between
\* their writes; then the id is the one that was changed.
THEOREM KeysStayTogether == Spec => []KeysTogether
<1>1. IInv => KeysTogether
  BY DEF IInv, Keys
<1> QED
  BY <1>1, Inductive, PTL

\* The stored username is the account's, unless its field was edited during the call or
\* a kill came between the writes of the two keys.
THEOREM StoredNamesAreTrue == Spec => []StoredNameIsTheAccounts
<1>1. IInv => StoredNameIsTheAccounts
  BY DEF IInv, Keys
<1> QED
  BY <1>1, Inductive, PTL

\* Once the tab bar has appeared, a logged-out user has the login screen before them.
THEOREM TabsNeedASession == Spec => []NoAnonymousTabs
<1>1. IInv => NoAnonymousTabs
  BY DEF IInv, Keys
<1> QED
  BY <1>1, Inductive, PTL

\* A session opens or is replaced on the login screen that asked for it, or by the second
\* click of a double click.
THEOREM SessionsOpenWhereAsked == Spec => SessionsOpenOnTheLoginScreen
<1>1. IInv /\ [Next]_vars => [ReopensByDoubleClick]_vars
  <2> SUFFICES ASSUME IInv, Next, stored' # stored, LoggedIn'
               PROVE  \E c \in Calls \cap {running, running'} :
                        \/ OnTop(Screen("login", sentBy[c]))
                        \/ \E d \in returned : sentBy[d] = sentBy[c] /\ status[d] = "granted"
    BY DEF ReopensByDoubleClick
  <2>a. \/ \E c \in Calls : LoginSucceeded(c) \/ LoginReturns(c)
        \/ Logout \/ LogoutReturns
    BY DEF Next, TabsAppear, SelectTab, EditEmail, EditUsername, LoginClicked,
       LoginFailed, Relaunch, ServerStep, session
  <2>b. ~Logout /\ ~LogoutReturns
    BY DEF Logout, LogoutReturns, LoggedIn, LoggedOut, IInv, Types, AppTypes
  <2>1. PICK c \in Calls : LoginSucceeded(c) \/ LoginReturns(c)
    BY <2>a, <2>b
  <2>2. c \in {running, running'} /\ Awaited(c)
    BY <2>1 DEF LoginSucceeded, LoginReturns, Begin, IInv, Handling
  <2> QED
    BY <2>2 DEF IInv, Outlived, LoginScreen
<1> QED
  BY <1>1, Inductive, PTL DEF Spec, SessionsOpenOnTheLoginScreen

\* The login flow implements Session: every step of the screens, fields, calls and of
\* the server is a step of the abstract session, or a stutter. The first write of a
\* handler is a stutter, the second one opens or closes the session, and a kill between
\* them leaves the session half written.
THEOREM LoginImplementsSession == Spec => ImplementsSession
<1> DEFINE calls == {c \in Calls : Awaited(c)}
           door == IF appearing THEN "ajar" ELSE IF OnTop(Tabs) THEN "open" ELSE "shut"
           in == IF Idle THEN LoggedIn ELSE was
<1>1. Init => Flow!Init
  <2> SUFFICES ASSUME Init PROVE Flow!Init
    OBVIOUS
  <2>1. \A c \in Calls : ~Awaited(c)
    BY DEF Init, Awaited
  <2>2. stored.username = Nil /\ appearing = TRUE /\ in = FALSE
    BY DEF Init, LoggedOut, LoggedIn, Idle
  <2> QED
    BY <2>1, <2>2 DEF Flow!Init
<1>2. ASSUME IInv, [Next]_vars PROVE [Flow!Next]_<<stored.username, in, door, calls>>
  <2> DEFINE Stutter == UNCHANGED <<stored.username, in, stack, appearing, calls>>
  <2>a. Screens /\ Types /\ Bounds /\ Handling
    BY <1>2 DEF IInv
  <2>b. Stutter => UNCHANGED <<stored.username, in, door, calls>>
    BY DEF OnTop, Top
  <2>c. UNCHANGED <<stored, handler>> => in' = in
    BY DEF handler, LoggedIn, Idle
  <2>1. CASE TabsAppear
    <3>1. /\ stack = <<Tabs>> /\ UNCHANGED <<stored, sentBy, returned, handler>>
          /\ ~appearing' /\ appearing /\ in = LoggedIn
      BY <2>1, <2>a, TopOfStack DEF TabsAppear
    <3>2. calls' = calls
      BY <3>1 DEF Awaited
    <3>3. CASE LoggedIn
      <4>1. UNCHANGED stack
        BY <2>1, <3>3 DEF TabsAppear
      <4>2. door' = "open"
        BY <3>1, <4>1 DEF OnTop, Top
      <4>3. Flow!Appear
        BY <2>c, <3>1, <3>2, <3>3, <4>2 DEF Flow!Appear
      <4> QED
        BY <4>3 DEF Flow!Next
    <3>4. CASE ~LoggedIn
      <4>1. stack' = <<Tabs, LoginScreen(forms + 1)>>
        BY <2>1, <2>a, <3>1, <3>4, LoginShown DEF TabsAppear
      <4>2. door' = "shut"
        BY <3>1, <4>1 DEF OnTop, Top, LoginScreen, Tabs, Screen
      <4>3. Flow!Appear
        BY <2>c, <3>1, <3>2, <3>4, <4>2 DEF Flow!Appear
      <4> QED
        BY <4>3 DEF Flow!Next
    <3> QED
      BY <3>3, <3>4
  <2>2. ASSUME NEW f \in Forms, NEW c \in Calls, LoginClicked(f, c)
        PROVE  Flow!Next
    <3>1. /\ Usable(LoginScreen(f)) /\ status[c] = "idle"
          /\ sentBy' = [sentBy EXCEPT ![c] = f]
          /\ UNCHANGED <<stack, appearing, stored, returned, handler>>
      BY <2>2 DEF LoginClicked, Server!Ask, LoginScreen
    <3>2. ~appearing /\ ~OnTop(Tabs)
      BY <3>1 DEF Usable, OnTop, Tabs, LoginScreen, Screen
    <3>3. c \notin calls /\ c \notin returned
      BY <2>a, <3>1 DEF Awaited, Types, Sent
    <3>4. calls' = calls \cup {c}
      BY <2>a, <3>1, <3>3, NilAssumption DEF Awaited, Types, AppTypes, Forms
    <3>5. Flow!Ask(c)
      BY <2>c, <3>1, <3>2, <3>3, <3>4 DEF Flow!Ask, OnTop, Top
    <3> QED
      BY <3>5 DEF Flow!Next
  <2>8. CASE Logout \/ \E c \in Calls : LoginSucceeded(c)
    <3>1. /\ Idle /\ ~Idle' /\ was' = LoggedIn /\ stored'.username = stored.username
          /\ UNCHANGED <<stack, appearing, sentBy, returned>>
      BY <2>8, <2>a, NilAssumption DEF Logout, LoginSucceeded, Begin, FirstKey, Idle, Usable,
         Types, AppTypes
    <3>2. Stutter
      BY <3>1 DEF Awaited
    <3> QED
      BY <2>b, <3>2
  <2>3. ASSUME NEW c \in Calls, LoginReturns(c) PROVE Flow!Next
    <3>1. /\ c \in calls /\ Dismiss(LoginScreen(sentBy[c])) /\ sentBy[c] \in Forms
          /\ returned' = returned \cup {c} /\ UNCHANGED sentBy
          /\ stored'.username = Trim(form[sentBy[c]].username)
      BY <2>3, <2>a DEF LoginReturns, SessionOf, Handling, LoginScreen, Awaited, Types,
         AppTypes
    <3>6. in' = TRUE
      <4>1. Idle' /\ stored'.id = verdict[c] /\ verdict[c] # Nil
        BY <2>3, <2>a, GrantedIds DEF LoginReturns, SessionOf, Finish, Handling, Idle
      <4> QED
        BY <4>1 DEF LoggedIn
    <3>2. calls' = calls \ {c}
      BY <3>1 DEF Awaited
    <3>3. door' = door \/ (door = "shut" /\ door' = "ajar")
      <4>1. CASE stack = <<Tabs, LoginScreen(sentBy[c])>> /\ ~appearing /\ appearing' = TRUE
        BY <4>1 DEF OnTop, Top, LoginScreen, Tabs, Screen
      <4>2. CASE UNCHANGED <<stack, appearing>>
        BY <4>2 DEF OnTop, Top
      <4> QED
        BY <2>a, <3>1, <4>1, <4>2, Dismissed
    <3>4. stored'.username \in Names
      BY <2>a, <3>1, FieldNames
    <3>5. Flow!Enter(c, stored'.username)
      BY <3>1, <3>2, <3>3, <3>6 DEF Flow!Enter
    <3> QED
      BY <3>4, <3>5 DEF Flow!Next, Names
  <2>4. ASSUME NEW c \in Calls, LoginFailed(c) PROVE Flow!Next
    <3>1. /\ c \in calls /\ returned' = returned \cup {c}
          /\ UNCHANGED <<stack, appearing, stored, sentBy, handler>>
      BY <2>4 DEF LoginFailed
    <3>2. calls' = calls \ {c}
      BY <3>1 DEF Awaited
    <3>3. Flow!Fail(c)
      BY <2>c, <3>1, <3>2 DEF Flow!Fail, OnTop, Top
    <3> QED
      BY <3>3 DEF Flow!Next
  <2>5. CASE LogoutReturns
    <3>1. /\ stack = <<Tabs>> /\ ~appearing /\ ShowLogin /\ stored' = LoggedOut
          /\ UNCHANGED <<appearing, sentBy, returned>> /\ Idle'
      BY <2>5, <2>a DEF LogoutReturns, Finish, Handling, Idle
    <3>2. stack' = <<Tabs, LoginScreen(forms + 1)>>
      BY <2>a, <3>1, LoginShown
    <3>3. door = "open" /\ door' = "shut"
      BY <3>1, <3>2 DEF OnTop, Top, LoginScreen, Tabs, Screen
    <3>4. calls' = calls
      BY <3>1 DEF Awaited
    <3>5. Flow!Leave
      BY <3>1, <3>3, <3>4 DEF Flow!Leave, LoggedOut, LoggedIn
    <3> QED
      BY <3>5 DEF Flow!Next
  <2>6. CASE Relaunch
    <3>1. appearing' = TRUE /\ UNCHANGED stored /\ calls' = {} /\ Idle'
      BY <2>6 DEF Relaunch, Awaited, Idle
    <3>2. Flow!Started /\ in' = LoggedIn
      BY <3>1 DEF Flow!Started, LoggedIn
    <3>3. CASE running = Nil
      BY <3>2, <3>3 DEF Flow!Next, Flow!Relaunch, Idle
    <3>4. CASE running = "logout"
      <4>1. stack = <<Tabs>> /\ ~appearing /\ ~LoggedIn
        BY <2>a, <3>4 DEF Handling, LoggedIn
      <4>2. door = "open"
        BY <4>1 DEF OnTop, Top
      <4> QED
        BY <3>2, <4>1, <4>2 DEF Flow!Next, Flow!LeaveCut
    <3>5. CASE running \in Calls
      <4>1. running \in calls /\ LoggedIn
        BY <2>a, <3>5, GrantedIds DEF Handling, LoggedIn
      <4> QED
        BY <3>2, <4>1 DEF Flow!Next, Flow!EnterCut
    <3> QED
      BY <2>a, <3>3, <3>4, <3>5 DEF Types, AppTypes
  <2>7. CASE \/ \E t \in {"feed", "profile"} : SelectTab(t)
             \/ \E f \in Forms : EditEmail(f) \/ EditUsername(f)
             \/ ServerStep \/ UNCHANGED vars
    <3>1. UNCHANGED <<stored, stack, appearing, sentBy, returned, handler>>
      BY <2>7 DEF SelectTab, EditEmail, EditUsername, ServerStep, session, vars, handler
    <3>2. Stutter
      BY <2>c, <3>1 DEF Awaited
    <3> QED
      BY <2>b, <3>2
  <2> QED
    BY <1>2, <2>1, <2>2, <2>3, <2>4, <2>5, <2>6, <2>7, <2>8 DEF Next
<1> QED
  BY <1>1, <1>2, Inductive, PTL DEF Spec, ImplementsSession, Flow!Spec, Flow!sessionVars

\* Whatever the screens do, the app is a client of the login function as AccountService
\* describes it, which WhixBackend is shown to implement: it asks once per call, with
\* trimmed texts, and leaves the rest to the server (LoginViewController.swift:30-35).
THEOREM LoginKeepsToService == Spec => Server!Spec
<1>1. Init => Server!Init
  BY DEF Init
<1>2. [Next]_vars => [Server!Next]_service
  <2> SUFFICES ASSUME [Next]_vars PROVE [Server!Next]_service
    OBVIOUS
  <2>1. ASSUME NEW f \in Forms, NEW c \in Calls, LoginClicked(f, c) PROVE Server!Next
    BY <2>1 DEF LoginClicked, Server!Next
  <2>2. CASE ServerStep
    BY <2>2 DEF ServerStep, Decide, Server!Next
  <2>3. CASE \/ TabsAppear \/ Logout \/ LogoutReturns \/ Relaunch \/ UNCHANGED vars
             \/ \E t \in {"feed", "profile"} : SelectTab(t)
             \/ \E f \in Forms : EditEmail(f) \/ EditUsername(f)
             \/ \E c \in Calls : LoginSucceeded(c) \/ LoginReturns(c) \/ LoginFailed(c)
    BY <2>3 DEF TabsAppear, Logout, LogoutReturns, Relaunch, SelectTab, EditEmail,
       EditUsername, LoginSucceeded, LoginReturns, LoginFailed, vars, service
  <2> QED
    BY <2>1, <2>2, <2>3 DEF Next
<1> QED
  BY <1>1, <1>2, PTL DEF Spec, Server!Spec, Server!vars, service
=============================================================================
