\* Two requests, two places, fair scheduling: every request is answered.
CONSTANTS
  olga = olga
  ann = ann
  bob = bob
  cafe = cafe
  bar = bar
  r1 = r1
  r2 = r2
  r3 = r3
  Users = {olga, ann, bob}
  Places = {cafe, bar}
  Requests = {r1, r2}
  Ratings = {2, 5}
  Owner <- OneOwner
  Savers <- AnnSaves
SPECIFICATION FairSpec
PROPERTY EveryRequestEnds
