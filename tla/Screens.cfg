\* One page at a time, each with a handful of rows and at most two handlers.
CONSTANTS
  None = None
  MAX_OTHERS = 1
  MAX_PHOTOS = 1
  Items = {i1, i2, i3}
  Mine = i1
  Calls = {c1, c2}
  MAX_EDITS = 2
  Windows = {w1, w2}
  LocalIds = {d1, d2}
  Texts = {"x", "y"}
  LastDay = 3
  PlacesShown = {p, q}
  Sorts = {"RECENT", "HELPFUL"}
  FirstSort = "RECENT"
  Buried = {}
  ReviewIds = {m1, m2}
  New = New
  MAX_MOVES = 1
  Notes = {"text", " text"}
  Blank = Blank
  Trim <- Trimmed
  Tiers = {"MEDIUM"}
  DefaultTier = "MEDIUM"
  NoTier = NoTier
  Weeks = {1, 2}
  Saves = {s1, s2}
  MAX_SAVES = 2
  Photos = {f1, f2, f3}
  Uploads = {u1, u2}
  MAX_LEAVES = 1
  Reviews = {r1, r2}
  Ratings = {2, 5}
  VolumeScore <- VolumeScores
  MONTH_DAYS = 2
  LAST_DAY = 4
  MONTHS_BACK = 2
  RECENCY_WINDOW_DAYS = 3
  LIST_SIZE = 1
  MAX_CHANGES = 1
  Emails = {e1, e2}
  Spots = {spot}
  SignUps = {g1, g2}
  MAX_LOCATING = 2
  Users = {ann, bob}
  Owners = {bob}
  Nobody = Nobody
  MAX_STACK = 3
SPECIFICATION ScreensSpec
 
INVARIANT OneAtATime
INVARIANT NavigationHolds
 
PROPERTY ClicksDoWhatTheySay
CHECK_DEADLOCK FALSE
