SPECIFICATION FairSpec
CONSTANTS
  Items = {1, 2, 3}
  Senders = {"s1", "s2"}
  Debounce = 2
  MaxTime = 2
  MaxPosts = 2
  PageSize = 2
  Ahead = 1
  MaxMishaps = 1
INVARIANTS TypeOK WatchesApart NothingSkipped RepeatsOnlyWatched
PROPERTIES EveryReelComesUp
CHECK_DEADLOCK FALSE
