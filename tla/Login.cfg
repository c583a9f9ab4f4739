\* Two login calls, two usernames, one with a blank, and one kill, under fairness.
SPECIFICATION FairSpec
CONSTANTS
  Calls = {c1, c2}
  AccountIds = {1, 2}
  EmailTexts = {"", "a@x"}
  UsernameTexts = {"", "ann ", "bob"}
  HasAt = {"a@x"}
  Trim <- MCTrim
  MaxForms = 4
  MaxKills = 1
  Nil = Nil
CHECK_DEADLOCK FALSE
INVARIANT TypeOK
INVARIANT StoredNameIsTheAccounts
PROPERTY SessionsOpenOnTheLoginScreen
PROPERTY ImplementsSession
PROPERTY LoginIsOffered
