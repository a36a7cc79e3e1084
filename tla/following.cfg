SPECIFICATION FairSpec
CONSTANTS
  Accounts = {1, 2, 3}
  Videos = {"v", "w"}
  Limit = 1
  Broken = {1}
  Sweepers = {"launchd", "by hand"}
  MaxEdits = 2
  MaxPosts = 2
  MaxMishaps = 1
INVARIANTS TypeOK OnlyFollowedHaveVideos
PROPERTIES FeedCatchesUp
CHECK_DEADLOCK FALSE
