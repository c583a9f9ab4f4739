\* The feed without fairness: does every look-up of an author give one?
SPECIFICATION Spec
CONSTANTS
  MaxPosts = 2
  Clips = {2}
  Orphans = {1}
  Cells = {c1, c2}
  MaxUses = 3
  Nil = Nil
INVARIANT AuthorIsThere
CHECK_DEADLOCK FALSE
