\* Two invocations of any function, under fairness, with Ann and Bob known.
SPECIFICATION FairSpec
CONSTANTS
  Calls = {c1, c2}
  Ops = {"login", "post", "like", "unlike"}
  Emails = {"a@x", "b@x", "e@x"}
  Usernames = {"ann", "ann ", "bob", "eve"}
  Trim <- MCTrim
  MaxUsers = 4
  MaxPosts = 3
  SeedUsers <- AnnAndBob
  SeedPosts <- OnePost
  Null = Null
CHECK_DEADLOCK FALSE
PROPERTY EveryCallAnswers
INVARIANT TypeOK
PROPERTY DocumentsPersist
PROPERTY PostsAreCredited
PROPERTY DuplicatesNeedOverlap
PROPERTY LoginIsAtomic
INVARIANT CountNeverExceedsLikes
INVARIANT CountAccountsForLineage
INVARIANT LostLikesNeedOverlap
