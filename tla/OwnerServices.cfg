\* Two requests next to a business with a place, and a pool that two
\* transactions exhaust.
CONSTANTS
  Emails = {e1, e2}
  Days = {d1, d2}
  Requests = {r0, r1, r2}
  MAX_POOL = 2
  Earlier = r0
  EarlierEmail = e1
SPECIFICATION FairSpec
INVARIANT AccountsAreWhole
INVARIANT WeeksAreWhole
PROPERTY LoneSaveDecidesWeek
PROPERTY EveryRequestEnds
