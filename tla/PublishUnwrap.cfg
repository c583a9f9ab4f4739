\* One edit screen whose upload outlives the session.
SPECIFICATION Spec
CONSTANTS
  Calls = {c1, c2}
  Names = {ann, bob}
  Nil = Nil
  MaxEdits = 1
  MaxKills = 0
CHECK_DEADLOCK FALSE
INVARIANT UsernameIsThere
