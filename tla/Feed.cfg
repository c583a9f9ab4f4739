\* The feed and its reused cells, under fairness: a picture by /users/null, then a clip
\* by an author.
SPECIFICATION FairSpec
CONSTANTS
  MaxPosts = 2
  Clips = {2}
  Orphans = {1}
  Cells = {c1, c2}
  MaxUses = 2
  Nil = Nil
INVARIANT TypeOK
INVARIANT ShowsItsPost
INVARIANT RowsShowTheirDocuments
INVARIANT ScrollNeedsReload
PROPERTY StartsOnDisplay
CHECK_DEADLOCK FALSE
PROPERTY FeedCatchesUp
PROPERTY ContentArrives
