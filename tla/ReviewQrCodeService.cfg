\* Three requests on two places, and as many deletions as exhaust the pool.
CONSTANTS
  Places = {p1, p2}
  Requests = {r1, r2, r3}
  MAX_POOL = 2
SPECIFICATION FairSpec
INVARIANT OneActiveCode
PROPERTY LoneChangeDecidesCode
PROPERTY EveryRequestEnds
