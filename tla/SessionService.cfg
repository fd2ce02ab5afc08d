\* Three requests by two users.
CONSTANTS
  Users = {ann, bob}
  Requests = {r1, r2, r3}
  First = First
SYMMETRY Symmetry
SPECIFICATION Spec
INVARIANT SuccessorRetiresToken
INVARIANT ChangeEndsFormerSessions
PROPERTY SpentStaysSpent
PROPERTY OnlyOwnSessionsEnd
