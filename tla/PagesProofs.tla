----------------------------- MODULE PagesProofs -----------------------------
(***************************************************************************)
(* Proofs about the pages of the web client.  Discover: scores that were   *)
(* true, pages that follow each other and a list that keeps to its search. *)
(* Screens: one sign-up and one gallery upload at a time, steps and        *)
(* redirects that lead where they should, what no step of a page ever      *)
(* does, and that the pages show what the server holds.  The two share no  *)
(* variable.                                                               *)
(***************************************************************************)
EXTENDS Discover, Screens, FiniteSetTheorems, SequenceTheorems, TLAPS

-----------------------------------------------------------------------------
(* Discover: keyset pagination. *)

\* The sort value and then the id order the rows strictly.
LEMMA OrderOfRows ==
  ASSUME NEW s, NEW a \in Rows, NEW b \in Rows, NEW c \in Rows
  PROVE  /\ ~Lists!Precedes(s, a, a)
         /\ Lists!Precedes(s, a, b) /\ Lists!Precedes(s, b, c) => Lists!Precedes(s, a, c)
         /\ a.id # b.id => Lists!Precedes(s, a, b) \/ Lists!Precedes(s, b, a)
<1>1. /\ a.id \in Int /\ b.id \in Int /\ c.id \in Int
      /\ a.sortValue \in Int /\ b.sortValue \in Int /\ c.sortValue \in Int
  <2>1. Places \subseteq Int
    BY DiscoverType
  <2> QED BY <2>1 DEF Rows
<1> QED BY <1>1 DEF Lists!Precedes, Lists!Smaller

Before(s, R, r) == {q \in R : Lists!Precedes(s, q, r)}
Rank(s, R, r) == Cardinality(Before(s, R, r))

\* Counting what comes before numbers the rows of a finite set without gaps.
LEMMA RanksNumberRows ==
  ASSUME NEW s, NEW R, R \subseteq Rows, IsFiniteSet(R),
         \A a, b \in R : a.id = b.id => a = b
  PROVE  /\ Cardinality(R) \in Nat
         /\ \A r \in R : Rank(s, R, r) \in 0..(Cardinality(R) - 1)
         /\ \A a, b \in R : Lists!Precedes(s, a, b) <=> Rank(s, R, a) < Rank(s, R, b)
         /\ \A a, b \in R : Rank(s, R, a) = Rank(s, R, b) => a = b
         /\ \A k \in 0..(Cardinality(R) - 1) : \E r \in R : Rank(s, R, r) = k
<1> DEFINE n == Cardinality(R)
<1>1. n \in Nat
  BY FS_CardinalityType
<1>2. ASSUME NEW r \in R
      PROVE  Rank(s, R, r) \in 0..(n - 1) /\ IsFiniteSet(Before(s, R, r))
  <2>1. Before(s, R, r) \subseteq R \ {r}
    BY OrderOfRows DEF Before
  <2>2. IsFiniteSet(R \ {r}) /\ Cardinality(R \ {r}) = n - 1
    BY FS_RemoveElement
  <2>3. IsFiniteSet(Before(s, R, r)) /\ Cardinality(Before(s, R, r)) <= n - 1
    BY <2>1, <2>2, FS_Subset
  <2>4. Cardinality(Before(s, R, r)) \in Nat
    BY <2>3, FS_CardinalityType
  <2> QED BY <1>1, <2>3, <2>4 DEF Rank
<1>3. ASSUME NEW a \in R, NEW b \in R, Lists!Precedes(s, a, b)
      PROVE  Rank(s, R, a) < Rank(s, R, b)
  <2>1. a \notin Before(s, R, a) /\ Before(s, R, a) \cup {a} \subseteq Before(s, R, b)
    BY <1>3, OrderOfRows DEF Before
  <2>2. IsFiniteSet(Before(s, R, a)) /\ IsFiniteSet(Before(s, R, b))
    BY <1>2
  <2>3. Cardinality(Before(s, R, a) \cup {a}) = Cardinality(Before(s, R, a)) + 1
    BY <2>1, <2>2, FS_AddElement
  <2>4. Cardinality(Before(s, R, a) \cup {a}) <= Cardinality(Before(s, R, b))
    BY <2>1, <2>2, FS_Subset
  <2> QED BY <2>3, <2>4, <1>1, <1>2 DEF Rank
<1>4. ASSUME NEW a \in R, NEW b \in R, a # b
      PROVE  Lists!Precedes(s, a, b) \/ Lists!Precedes(s, b, a)
  BY <1>4, OrderOfRows
<1>5. \A a, b \in R : Rank(s, R, a) = Rank(s, R, b) => a = b
  BY <1>1, <1>2, <1>3, <1>4
<1>6. \A a, b \in R : Lists!Precedes(s, a, b) <=> Rank(s, R, a) < Rank(s, R, b)
  BY <1>1, <1>2, <1>3, <1>4
<1>7. \A k \in 0..(n - 1) : \E r \in R : Rank(s, R, r) = k
  <2> DEFINE f == [r \in R |-> Rank(s, R, r)]
  <2>1. f \in Injection(R, 0..(n - 1))
    BY <1>2, <1>5 DEF Injection, IsInjective
  <2>2. IsFiniteSet(0..(n - 1)) /\ Cardinality(0..(n - 1)) = n
    BY <1>1, FS_Interval
  <2>3. f \in Surjection(R, 0..(n - 1))
    BY <2>1, <2>2, FS_Injection
  <2> QED BY <2>3 DEF Surjection
<1> QED BY <1>1, <1>2, <1>5, <1>6, <1>7
\* The rows that a page is cut from.
Eligible(s, f, c) ==
  {r \in {Lists!Row(s, p) : p \in Lists!Candidates(s, f)} : c = NoCursor \/ Lists!Beyond(s, c, r)}

Tables ==
  /\ live \subseteq Places /\ rating \in [Places -> 0..MaxRating]
  /\ trending \in [Places -> 0..MaxRecent]

LEMMA CandidatesHaveRows ==
  ASSUME Tables, NEW s \in Lists!Sorts, NEW f, NEW p \in Lists!Candidates(s, f)
  PROVE  p \in Places /\ Lists!Row(s, p) \in Rows /\ Lists!Row(s, p).id = p
<1>1. p \in live /\ p \in Places /\ p \in Int /\ (s = "NEAREST" => DistanceOf[p] # Unlocated)
  BY DiscoverType DEF Tables, Lists!Candidates
<1>2. Lists!SortColumn(s)[p] \in Int
  <2>1. CASE s = "NEW"
    BY <2>1, <1>1 DEF Lists!SortColumn
  <2>2. CASE s = "HIGHEST_RATED"
    BY <2>2, <1>1, DiscoverType DEF Lists!SortColumn, Tables
  <2>3. CASE s = "TRENDING"
    BY <2>3, <1>1, DiscoverType DEF Lists!SortColumn, Tables
  <2>4. CASE s = "NEAREST"
    BY <2>4, <1>1, DiscoverType DEF Lists!SortColumn
  <2> QED BY <2>1, <2>2, <2>3, <2>4 DEF Lists!Sorts
<1> QED BY <1>1, <1>2 DEF Lists!Row, Rows

LEMMA EligibleAreRows ==
  ASSUME Tables, NEW s \in Lists!Sorts, NEW f, NEW c
  PROVE  /\ Eligible(s, f, c) \subseteq Rows /\ IsFiniteSet(Eligible(s, f, c))
         /\ \A a, b \in Eligible(s, f, c) : a.id = b.id => a = b
<1> DEFINE R == Eligible(s, f, c)
<1>1. \A r \in R : \E p \in Places : r = Lists!Row(s, p) /\ r \in Rows /\ r.id = p
  BY CandidatesHaveRows DEF Eligible
<1>2. R \subseteq Rows /\ \A a, b \in R : a.id = b.id => a = b
  BY <1>1
<1>3. IsFiniteSet(R)
  <2> DEFINE g == [r \in R |-> r.id]
  <2>1. g \in Injection(R, Places)
    BY <1>1, <1>2 DEF Injection, IsInjective
  <2> QED BY <2>1, DiscoverType, FS_Injection
<1> QED BY <1>2, <1>3

\* What the query returns: the first limit + 1 eligible rows, in order.
LEMMA FetchedRows ==
  ASSUME Tables, NEW s \in Lists!Sorts, NEW f, NEW c, NEW limit \in Nat \ {0}
  PROVE  LET R == Eligible(s, f, c)
             feed == Lists!Fetched(s, f, c, limit)
         IN  /\ feed \in Seq(R) /\ Len(feed) <= limit + 1
             /\ \A i, j \in 1..Len(feed) : i < j => Lists!Precedes(s, feed[i], feed[j])
             /\ \A r \in R : \/ \E i \in 1..Len(feed) : feed[i] = r
                             \/ /\ Len(feed) = limit + 1
                                /\ \A i \in 1..Len(feed) : Lists!Precedes(s, feed[i], r)
<1> DEFINE R == Eligible(s, f, c)
           feed == Lists!Fetched(s, f, c, limit)
           n == Cardinality(R)
           m == IF n < limit + 1 THEN n ELSE limit + 1
<1>1. /\ n \in Nat
      /\ \A r \in R : Rank(s, R, r) \in 0..(n - 1)
      /\ \A a, b \in R : Lists!Precedes(s, a, b) <=> Rank(s, R, a) < Rank(s, R, b)
      /\ \A a, b \in R : Rank(s, R, a) = Rank(s, R, b) => a = b
      /\ \A k \in 0..(n - 1) : \E r \in R : Rank(s, R, r) = k
  <2> HIDE DEF R
  <2>1. R \subseteq Rows /\ IsFiniteSet(R) /\ \A a, b \in R : a.id = b.id => a = b
    BY EligibleAreRows DEF R
  <2> QED BY <2>1, RanksNumberRows
<1>2. feed = [i \in 1..m |-> CHOOSE r \in R : Rank(s, R, r) = i - 1]
  BY Zenon DEF Lists!Fetched, Eligible, Rank, Before, Cardinality, Lists!Cardinality
<1> HIDE DEF R, feed, n
<1>3. m \in Nat /\ m <= limit + 1 /\ m <= n
  BY <1>1
<1>4. ASSUME NEW i \in 1..m
      PROVE  feed[i] \in R /\ Rank(s, R, feed[i]) = i - 1
  <2>1. \E r \in R : Rank(s, R, r) = i - 1
    BY <1>1, <1>3
  <2>2. feed[i] = CHOOSE r \in R : Rank(s, R, r) = i - 1
    BY <1>2
  <2> QED BY <2>1, <2>2
<1> HIDE DEF m
<1>5. feed \in Seq(R) /\ Len(feed) = m
  <2>1. feed \in [1..m -> R]
    BY <1>2, <1>4
  <2> QED BY <2>1, <1>3
<1>6. \A i, j \in 1..m : i < j => Lists!Precedes(s, feed[i], feed[j])
  BY <1>1, <1>3, <1>4
<1>7. ASSUME NEW r \in R
      PROVE  \/ \E i \in 1..m : feed[i] = r
             \/ m = limit + 1 /\ \A i \in 1..m : Lists!Precedes(s, feed[i], r)
  <2>1. Rank(s, R, r) \in 0..(n - 1)
    BY <1>1
  <2>2. CASE Rank(s, R, r) < m
    <3>1. Rank(s, R, r) + 1 \in 1..m
      BY <2>1, <2>2, <1>3
    <3>2. feed[Rank(s, R, r) + 1] = r
      BY <3>1, <1>1, <1>4, <2>1
    <3> QED BY <3>1, <3>2
  <2>3. CASE ~(Rank(s, R, r) < m)
    <3>1. m = limit + 1
      BY <2>1, <2>3, <1>1 DEF m
    <3>2. \A i \in 1..m : Rank(s, R, feed[i]) < Rank(s, R, r)
      BY <2>1, <2>3, <1>1, <1>3, <1>4
    <3> QED BY <3>1, <3>2, <1>1, <1>4
  <2> QED BY <2>2, <2>3
<1> QED BY <1>3, <1>5, <1>6, <1>7 DEF R, feed

\* A page in order; what is eligible is on it, or follows its end cursor, and
\* a page that says it is the last leaves nothing out.
LEMMA PageOfList ==
  ASSUME Tables, NEW s \in Lists!Sorts, NEW f, NEW first \in Nat, NEW c
  PROVE  LET R == Eligible(s, f, c)
             answer == Lists!ListPlaces(s, f, first, c)
             feed == answer.rows
         IN  /\ feed \in Seq(R) /\ answer.hasNextPage \in BOOLEAN
             /\ \A i, j \in 1..Len(feed) : i < j => Lists!Precedes(s, feed[i], feed[j])
             /\ feed = <<>> => answer.endCursor = NoCursor /\ ~answer.hasNextPage
             /\ feed # <<>> => answer.endCursor = feed[Len(feed)]
             /\ \A r \in R : \/ \E i \in 1..Len(feed) : feed[i] = r
                             \/ answer.hasNextPage /\ Lists!Precedes(s, answer.endCursor, r)
<1> DEFINE R == Eligible(s, f, c)
           limit == Lists!Limit(first)
           all == Lists!Fetched(s, f, c, limit)
           k == IF Len(all) < limit THEN Len(all) ELSE limit
           feed == Lists!Cut(all, limit)
           answer == Lists!ListPlaces(s, f, first, c)
<1>1. limit \in Nat \ {0}
  BY DiscoverType DEF Lists!Limit
<1>2. /\ all \in Seq(R) /\ Len(all) <= limit + 1
      /\ \A i, j \in 1..Len(all) : i < j => Lists!Precedes(s, all[i], all[j])
      /\ \A r \in R : \/ \E i \in 1..Len(all) : all[i] = r
                      \/ /\ Len(all) = limit + 1
                         /\ \A i \in 1..Len(all) : Lists!Precedes(s, all[i], r)
  BY <1>1, FetchedRows
<1>3. /\ answer.rows = feed /\ answer.hasNextPage = (Len(all) > limit)
      /\ answer.endCursor = IF all = <<>> THEN NoCursor ELSE feed[Len(feed)]
  BY DEF Lists!ListPlaces, Lists!Page, Lists!Last
<1>4. feed = SubSeq(all, 1, k)
  BY DEF Lists!Cut
<1> HIDE DEF R, limit, all, feed, answer
<1>5. Len(all) \in Nat /\ k \in 0..Len(all) /\ k <= limit /\ (k < Len(all) => k = limit)
  BY <1>1, <1>2, LenProperties
<1>6. feed \in Seq(R) /\ Len(feed) = k /\ \A i \in 1..k : feed[i] = all[i]
  <2> HIDE DEF k
  <2>1. \A i \in 1..k : all[i] \in R
    BY <1>2, <1>5, ElementOfSeq
  <2> QED BY <1>4, <1>5, <2>1, SubSeqProperties
<1> HIDE DEF k
<1>7. \A i, j \in 1..Len(feed) : i < j => Lists!Precedes(s, feed[i], feed[j])
  BY <1>2, <1>5, <1>6
<1>8. (feed = <<>> <=> k = 0) /\ (all = <<>> <=> Len(all) = 0) /\ (k = 0 <=> Len(all) = 0)
  <2>1. (feed = <<>> <=> Len(feed) = 0) /\ (all = <<>> <=> Len(all) = 0)
    BY <1>2, <1>6, EmptySeq
  <2> QED BY <2>1, <1>1, <1>5, <1>6
<1>9. ASSUME NEW r \in R
      PROVE  \/ \E i \in 1..Len(feed) : feed[i] = r
             \/ answer.hasNextPage /\ Lists!Precedes(s, answer.endCursor, r)
  <2>1. ASSUME k < Len(all), Lists!Precedes(s, all[k], r)
        PROVE  answer.hasNextPage /\ Lists!Precedes(s, answer.endCursor, r)
    <3>1. k = limit /\ k \in 1..k
      BY <2>1, <1>1, <1>5
    <3>2. answer.endCursor = all[k]
      BY <3>1, <1>3, <1>6, <1>8
    <3> QED BY <3>1, <3>2, <2>1, <1>3
  <2>2. CASE \E i \in 1..Len(all) : all[i] = r
    <3>1. PICK i \in 1..Len(all) : all[i] = r
      BY <2>2
    <3>2. CASE i <= k
      BY <3>1, <3>2, <1>5, <1>6
    <3>3. CASE k < i
      <4>1. k \in 1..Len(all) /\ k < Len(all)
        BY <3>3, <1>1, <1>5
      <4> QED BY <4>1, <3>1, <3>3, <2>1, <1>2
    <3> QED BY <3>2, <3>3, <1>5
  <2>3. CASE Len(all) = limit + 1 /\ \A i \in 1..Len(all) : Lists!Precedes(s, all[i], r)
    BY <2>3, <2>1, <1>1, <1>5
  <2> QED BY <2>2, <2>3, <1>2
<1>10. /\ answer.hasNextPage \in BOOLEAN
       /\ feed = <<>> => answer.endCursor = NoCursor /\ ~answer.hasNextPage
       /\ feed # <<>> => answer.endCursor = feed[Len(feed)]
  <2>1. answer.hasNextPage \in BOOLEAN
    BY <1>3
  <2>2. all = <<>> => ~(Len(all) > limit)
    BY <1>1, <1>8
  <2> QED BY <2>1, <2>2, <1>3, <1>8
<1> QED BY <1>3, <1>6, <1>7, <1>9, <1>10 DEF R, answer
-----------------------------------------------------------------------------
(* The trending job. *)

\* Within a refresh, every count that there has been is remembered.
LEMMA JobKeeps ==
  ASSUME Trend!JobType, CountsSeen, RefreshedScoresWereTrue,
         \/ Trend!JobStep
         \/ \E p \in Places, n \in 0..MaxRecent : Trend!RecentBecomes(p, n)
  PROVE  Trend!JobType' /\ CountsSeen' /\ RefreshedScoresWereTrue'
<1> USE DEF Trend!JobType, CountsSeen, RefreshedScoresWereTrue, Trend!RefreshedScoresWereTrue
<1>0. MaxRecent \in Nat
  BY DiscoverType
<1>1. CASE Trend!CountRecent
  <2>1. \A p \in Places :
          /\ trending'[p] = (IF recent[p] > 0 THEN recent[p] ELSE trending[p])
          /\ since'[p] = {recent[p]} /\ recent'[p] = recent[p]
          /\ recent[p] \in 0..MaxRecent /\ trending[p] \in 0..MaxRecent
    BY <1>1 DEF Trend!CountRecent, Trend!Recounted
  <2>2. Trend!JobType'
    <3>1. trending' \in [Places -> 0..MaxRecent]
      BY <1>1, <2>1 DEF Trend!CountRecent
    <3>2. since' \in [Places -> SUBSET (0..MaxRecent)]
      BY <1>1, <2>1 DEF Trend!CountRecent
    <3> QED BY <1>1, <3>1, <3>2 DEF Trend!CountRecent
  <2>3. CountsSeen'
    BY <2>1, <1>0
  <2> QED BY <1>1, <2>2, <2>3 DEF Trend!CountRecent
<1>2. CASE Trend!ZeroTheRest
  <2>1. \A p \in Places :
          /\ trending'[p] = (IF recent[p] = 0 THEN 0 ELSE trending[p])
          /\ recent[p] \in since[p] /\ (trending[p] \in since[p] \/ 0 \in since[p])
    BY <1>2 DEF Trend!ZeroTheRest, Trend!Unreviewed
  <2>2. trending' \in [Places -> 0..MaxRecent]
    BY <1>0, <1>2 DEF Trend!ZeroTheRest, Trend!Unreviewed
  <2>3. RefreshedScoresWereTrue'
    BY <1>2, <2>1 DEF Trend!ZeroTheRest
  <2> QED BY <1>2, <2>2, <2>3 DEF Trend!ZeroTheRest
<1>3. CASE Trend!RefreshFails
  BY <1>3 DEF Trend!RefreshFails
<1>4. ASSUME NEW p \in Places, NEW n \in 0..MaxRecent, Trend!RecentBecomes(p, n)
      PROVE  Trend!JobType' /\ CountsSeen' /\ RefreshedScoresWereTrue'
  BY <1>0, <1>4 DEF Trend!RecentBecomes
<1> QED BY <1>1, <1>2, <1>3, <1>4 DEF Trend!JobStep

-----------------------------------------------------------------------------
(* The world changes. *)

PageAsked == Browser!Now \in Browser!AllVariables /\ asked \subseteq Browser!AllVariables
PageInv == PageAsked /\ PageType /\ ListsOfPlaces /\ ListKeepsToSearch
WorldInv ==
  /\ Tables /\ clock \in DOMAIN OpenAt /\ changes \in 0..MaxChanges[visitor]
  /\ clicks \in 0..MaxClicks
  /\ Trend!JobType /\ RefreshedScoresWereTrue /\ CountsSeen
WalkInv == WalkType /\ WalkCovers /\ WalkGoesForward

LEMMA InvInParts == DiscoverInv <=> WorldInv /\ WalkInv /\ PageInv
BY DEF DiscoverInv, TypeOK, WorldInv, Tables, WalkInv, WalkType, PageInv, PageAsked,
       Trend!JobType

LEMMA PageUnchanged ==
  ASSUME PageInv, UNCHANGED page
  PROVE  PageInv'
BY DEF page, PageInv, PageAsked, PageType, ListsOfPlaces, ListKeepsToSearch, Browser!Now,
       Browser!Variables, Browser!EffectiveSort, Browser!ListStartsWithFirstPage, Browser!Shown,
       Browser!Data, Browser!Cached, Browser!Absent, Browser!Ids

\* What moves a place is on record, so that an untouched one is where it was.
LEMMA TouchKeepsWalk ==
  ASSUME WalkInv, UNCHANGED <<walk, visitor>>, Touch
  PROVE  WalkInv'
<1>1. touched \subseteq touched' /\ touched' \subseteq Places
  BY DEF Touch, WalkInv, WalkType
<1>2. WalkType' /\ WalkGoesForward'
  BY <1>1 DEF WalkInv, WalkType, WalkGoesForward
<1>3. WalkCovers'
  <2>1. CASE walk.pages = 0
    BY <2>1 DEF Touch, WalkInv, WalkCovers
  <2>2. CASE walk.pages # 0
    <3>1. ASSUME NEW p \in Places \ touched'
          PROVE  /\ p \in Lists!Candidates(walk.sort, walk.filter)' <=>
                      p \in Lists!Candidates(walk.sort, walk.filter)
                 /\ Lists!Row(walk.sort, p)' = Lists!Row(walk.sort, p)
      <4>1. Position(p)' = Position(p)
        BY <2>2, <3>1 DEF Touch
      <4> QED BY <4>1 DEF Position
    <3>2. walk.pages > 0
      BY <2>2 DEF WalkInv, WalkType
    <3> QED BY <1>1, <2>2, <3>1, <3>2 DEF WalkInv, WalkCovers
  <2> QED BY <2>1, <2>2
<1> QED BY <1>2, <1>3 DEF WalkInv

LEMMA WorldKeeps ==
  ASSUME WorldInv, WalkInv, PageInv, WorldChanges
  PROVE  WorldInv' /\ WalkInv' /\ PageInv'
<1>1. /\ UNCHANGED <<visitor, clicks, walk>> /\ UNCHANGED page /\ Touch
      /\ changes < MaxChanges[visitor] /\ changes' = changes + 1
  BY DEF WorldChanges
<1>2. changes' \in 0..MaxChanges'[visitor']
  <2>1. MaxChanges[visitor] \in Nat
    BY DiscoverType DEF WalkInv, WalkType
  <2> QED BY <1>1, <2>1 DEF WorldInv
<1>3. /\ Tables' /\ clock' \in DOMAIN OpenAt
      /\ Trend!JobType' /\ RefreshedScoresWereTrue' /\ CountsSeen'
  <2> USE DEF WorldInv, Tables
  <2>0. MaxRecent \in Nat /\ Trend!JobType /\ recent \in [Places -> 0..MaxRecent]
    BY DiscoverType DEF Trend!JobType
  <2>1. ASSUME NEW p \in Places, RateAndReview(p)
        PROVE  /\ Tables' /\ clock' \in DOMAIN OpenAt
               /\ Trend!JobType' /\ RefreshedScoresWereTrue' /\ CountsSeen'
    <3>1. recent[p] + 1 \in 0..MaxRecent /\ Trend!RecentBecomes(p, recent[p] + 1)
      BY <2>0, <2>1 DEF RateAndReview
    <3>2. Trend!JobType' /\ RefreshedScoresWereTrue' /\ CountsSeen'
      BY <3>1, JobKeeps
    <3>3. rating' \in [Places -> 0..MaxRating]
      BY <2>1 DEF RateAndReview
    <3> QED BY <2>1, <3>2, <3>3 DEF RateAndReview, Trend!JobType
  <2>2. ASSUME NEW p \in Places, ReviewLeaves(p)
        PROVE  /\ Tables' /\ clock' \in DOMAIN OpenAt
               /\ Trend!JobType' /\ RefreshedScoresWereTrue' /\ CountsSeen'
    <3>1. recent[p] - 1 \in 0..MaxRecent /\ Trend!RecentBecomes(p, recent[p] - 1)
      BY <2>0, <2>2 DEF ReviewLeaves
    <3>2. Trend!JobType' /\ RefreshedScoresWereTrue' /\ CountsSeen'
      BY <3>1, JobKeeps
    <3> QED BY <2>2, <3>2 DEF ReviewLeaves, Trend!JobType
  <2>3. ASSUME UNCHANGED <<trending, recent, job, since>>
        PROVE  Trend!JobType' /\ RefreshedScoresWereTrue' /\ CountsSeen'
    BY <2>3 DEF Trend!JobType, RefreshedScoresWereTrue, CountsSeen,
                Trend!RefreshedScoresWereTrue
  <2>4. ASSUME NEW p \in Places, AddOrDelete(p)
        PROVE  /\ Tables' /\ clock' \in DOMAIN OpenAt
               /\ Trend!JobType' /\ RefreshedScoresWereTrue' /\ CountsSeen'
    BY <2>3, <2>4 DEF AddOrDelete
  <2>5. CASE TimePasses
    BY <2>3, <2>5 DEF TimePasses
  <2>6. CASE RefreshRuns
    <3>1. Trend!JobType' /\ RefreshedScoresWereTrue' /\ CountsSeen'
      BY <2>6, JobKeeps DEF RefreshRuns
    <3> QED BY <2>6, <3>1 DEF RefreshRuns, Trend!JobType
  <2> QED BY <2>1, <2>2, <2>4, <2>5, <2>6 DEF WorldChanges
<1> QED BY <1>1, <1>2, <1>3, TouchKeepsWalk, PageUnchanged DEF WorldInv

-----------------------------------------------------------------------------
(* The walk. *)

\* Of the places U, those got are where they were, and those not got lie ahead
\* of the cursor c, unless nothing does.
Covered(s, f, U, got, c, ahead) ==
  \A p \in U :
    /\ \A i \in 1..Len(got) : got[i].id = p =>
         p \in Lists!Candidates(s, f) /\ got[i] = Lists!Row(s, p)
    /\ p \in Lists!Candidates(s, f) =>
         \/ \E i \in 1..Len(got) : got[i].id = p
         \/ ahead /\ (c = NoCursor \/ Lists!Precedes(s, c, Lists!Row(s, p)))

Ordered(s, got) == \A i, j \in 1..Len(got) : i < j => Lists!Precedes(s, got[i], got[j])

\* The next page of a walk in order continues it in order, and covers what the
\* walk has covered.
LEMMA PageContinues ==
  ASSUME Tables, NEW s \in Lists!Sorts, NEW f, NEW first \in Nat, NEW U \in SUBSET Places,
         NEW got \in Seq(Rows), NEW c \in Rows \cup {NoCursor},
         c = NoCursor => got = <<>>,
         c # NoCursor => Len(got) > 0 /\ c = got[Len(got)],
         Ordered(s, got), Covered(s, f, U, got, c, TRUE)
  PROVE  LET answer == Lists!ListPlaces(s, f, first, c)
             got2 == got \o answer.rows
         IN  /\ got2 \in Seq(Rows) /\ answer.endCursor \in Rows \cup {NoCursor}
             /\ answer.hasNextPage \in BOOLEAN
             /\ answer.hasNextPage => /\ answer.endCursor # NoCursor /\ Len(got2) > 0
                                      /\ answer.endCursor = got2[Len(got2)]
             /\ Ordered(s, got2)
             /\ Covered(s, f, U, got2, answer.endCursor, answer.hasNextPage)
<1> DEFINE R == Eligible(s, f, c)
           answer == Lists!ListPlaces(s, f, first, c)
           feed == answer.rows
           end == answer.endCursor
           got2 == got \o feed
           C == Lists!Candidates(s, f)
           Q(p) == Lists!Row(s, p)
<1>1. /\ feed \in Seq(R) /\ answer.hasNextPage \in BOOLEAN
      /\ \A i, j \in 1..Len(feed) : i < j => Lists!Precedes(s, feed[i], feed[j])
      /\ feed = <<>> => end = NoCursor /\ ~answer.hasNextPage
      /\ feed # <<>> => end = feed[Len(feed)]
      /\ \A r \in R : \/ \E i \in 1..Len(feed) : feed[i] = r
                      \/ answer.hasNextPage /\ Lists!Precedes(s, end, r)
  BY PageOfList
<1>2. R \subseteq Rows
  BY EligibleAreRows
<1>3. \A p \in C : p \in Places /\ Q(p).id = p /\ Q(p) \in Rows
  BY CandidatesHaveRows
<1>4. \A r \in R : /\ r.id \in C /\ r = Q(r.id)
                   /\ c = NoCursor \/ Lists!Precedes(s, c, r)
  BY <1>3 DEF Eligible, Lists!Beyond
<1>5. \A p \in C : c = NoCursor \/ Lists!Precedes(s, c, Q(p)) => Q(p) \in R
  BY DEF Eligible, Lists!Beyond
<1> HIDE DEF R, answer, C, Q
<1>6. /\ feed \in Seq(Rows) /\ Len(feed) \in Nat
      /\ \A i \in 1..Len(feed) : feed[i] \in R
      /\ feed = <<>> <=> Len(feed) = 0
      /\ Len(got) \in Nat /\ \A i \in 1..Len(got) : got[i] \in Rows
      /\ got = <<>> <=> Len(got) = 0
  BY <1>1, <1>2, SeqMonotonic, LenProperties, ElementOfSeq, EmptySeq
<1>7. /\ got2 \in Seq(Rows) /\ Len(got2) = Len(got) + Len(feed)
      /\ \A i \in 1..Len(got2) : got2[i] = IF i <= Len(got) THEN got[i] ELSE feed[i - Len(got)]
  BY <1>6, ConcatProperties
<1> HIDE DEF got2, feed, end
<1>8. end \in Rows \cup {NoCursor}
  BY <1>1, <1>2, <1>6
<1>9. \A r \in Rows : r # NoCursor
  BY DiscoverType DEF Rows
<1>10. answer.hasNextPage => /\ end # NoCursor /\ Len(got2) > 0 /\ end = got2[Len(got2)]
  <2> SUFFICES ASSUME answer.hasNextPage
               PROVE  end # NoCursor /\ Len(got2) > 0 /\ end = got2[Len(got2)]
    OBVIOUS
  <2>1. Len(feed) > 0 /\ end = feed[Len(feed)]
    BY <1>1, <1>6
  <2> QED BY <2>1, <1>2, <1>6, <1>7, <1>9
<1>11. Ordered(s, got2)
  <2> SUFFICES ASSUME NEW i \in 1..Len(got2), NEW j \in 1..Len(got2), i < j
               PROVE  Lists!Precedes(s, got2[i], got2[j])
    BY DEF Ordered
  <2>1. CASE j <= Len(got)
    BY <2>1, <1>6, <1>7 DEF Ordered
  <2>2. CASE Len(got) < i
    <3>1. i - Len(got) \in 1..Len(feed) /\ j - Len(got) \in 1..Len(feed)
      BY <2>2, <1>6, <1>7
    <3>2. /\ got2[i] = feed[i - Len(got)] /\ got2[j] = feed[j - Len(got)]
          /\ i - Len(got) < j - Len(got)
      BY <2>2, <1>6, <1>7
    <3> QED BY <3>1, <3>2, <1>1
  <2>3. CASE i <= Len(got) /\ Len(got) < j
    <3>1. j - Len(got) \in 1..Len(feed) /\ got2[j] = feed[j - Len(got)] /\ got2[i] = got[i]
      BY <2>3, <1>6, <1>7
    <3>2. got[i] \in Rows /\ got2[j] \in Rows /\ got2[j] \in R
      BY <2>3, <3>1, <1>2, <1>6
    <3>3. c # NoCursor /\ c = got[Len(got)] /\ c \in Rows
      BY <2>3, <1>6
    <3>4. Lists!Precedes(s, c, got2[j])
      BY <3>2, <3>3, <1>4
    <3>5. got[i] = c \/ Lists!Precedes(s, got[i], c)
      BY <2>3, <3>3, <1>6 DEF Ordered
    <3> QED BY <3>1, <3>2, <3>3, <3>4, <3>5, OrderOfRows
  <2> QED BY <2>1, <2>2, <2>3, <1>6, <1>7
<1>12. ASSUME NEW p \in U, NEW i \in 1..Len(got2), got2[i].id = p
       PROVE  p \in C /\ got2[i] = Q(p)
  <2>1. CASE i <= Len(got)
    BY <2>1, <1>6, <1>7, <1>12 DEF Covered, C, Q
  <2>2. CASE Len(got) < i
    <3>1. i - Len(got) \in 1..Len(feed) /\ got2[i] = feed[i - Len(got)]
      BY <2>2, <1>6, <1>7
    <3> QED BY <3>1, <1>4, <1>6, <1>12
  <2> QED BY <2>1, <2>2, <1>6, <1>7
<1>13. ASSUME NEW p \in U, p \in C
       PROVE  \/ \E i \in 1..Len(got2) : got2[i].id = p
              \/ answer.hasNextPage /\ Lists!Precedes(s, end, Q(p))
  <2>1. CASE \E i \in 1..Len(got) : got[i].id = p
    <3>1. PICK i \in 1..Len(got) : got[i].id = p
      BY <2>1
    <3>2. i \in 1..Len(got2) /\ got2[i] = got[i]
      BY <3>1, <1>6, <1>7
    <3> QED BY <3>1, <3>2
  <2>2. CASE c = NoCursor \/ Lists!Precedes(s, c, Q(p))
    <3>1. Q(p) \in R /\ Q(p).id = p
      BY <2>2, <1>3, <1>5, <1>13
    <3>2. CASE \E i \in 1..Len(feed) : feed[i] = Q(p)
      <4>1. PICK i \in 1..Len(feed) : feed[i] = Q(p)
        BY <3>2
      <4>2. PICK j \in 1..Len(got2) : j = Len(got) + i
        BY <1>6, <1>7
      <4>3. ~(j <= Len(got)) /\ j - Len(got) = i
        BY <4>2, <1>6
      <4>4. got2[j] = feed[i]
        BY <4>3, <1>7
      <4> QED BY <3>1, <4>1, <4>4
    <3> QED BY <3>1, <3>2, <1>1
  <2> QED BY <2>1, <2>2, <1>13 DEF Covered, C, Q
<1>14. Covered(s, f, U, got2, end, answer.hasNextPage)
  BY <1>12, <1>13 DEF Covered, C, Q
<1> QED BY <1>1, <1>7, <1>8, <1>10, <1>11, <1>14 DEF answer, got2, feed, end

WalkBecomes(s, f, first, n, got, c) ==
  LET answer == Lists!ListPlaces(s, f, first, c)
  IN  walk' = [sort |-> s, filter |-> f, first |-> first, pages |-> n,
               got |-> got \o answer.rows, cursor |-> answer.endCursor,
               done |-> ~answer.hasNextPage]

LEMMA StepsOfWalk ==
  ASSUME WorldInv, WalkInv, PageInv, StartWalk \/ NextPage
  PROVE  WorldInv' /\ WalkInv' /\ PageInv'
<1>1. UNCHANGED <<world, changes, visitor, clicks, touched>> /\ UNCHANGED page
  BY DEF StartWalk, NextPage
<1>2. WorldInv'
  BY <1>1 DEF world, WorldInv, Tables, Trend!JobType, RefreshedScoresWereTrue, CountsSeen,
              Trend!RefreshedScoresWereTrue
<1>3. PageInv'
  BY <1>1, PageUnchanged
<1>4. Tables /\ PAGE_SIZE \in Nat /\ touched \subseteq Places
  BY DiscoverType DEF WorldInv, WalkInv, WalkType
<1>5. ASSUME NEW s, NEW f, NEW first \in {0, PAGE_SIZE}, NEW got \in Seq(Rows), NEW c,
             s \in Lists!Sorts, f \in Lists!PlaceFilters, c \in Rows \cup {NoCursor},
             NEW n \in Nat \ {0},
             c = NoCursor => got = <<>>,
             c # NoCursor => Len(got) > 0 /\ c = got[Len(got)],
             Ordered(s, got), Covered(s, f, Places \ touched, got, c, TRUE),
             WalkBecomes(s, f, first, n, got, c)
      PROVE  WalkInv'
  <2> DEFINE answer == Lists!ListPlaces(s, f, first, c)
             got2 == got \o answer.rows
             end == answer.endCursor
  <2>1. walk' = [sort |-> s, filter |-> f, first |-> first, pages |-> n, got |-> got2,
                 cursor |-> end, done |-> ~answer.hasNextPage]
    BY <1>5 DEF WalkBecomes
  <2>2. /\ got2 \in Seq(Rows) /\ end \in Rows \cup {NoCursor}
        /\ answer.hasNextPage \in BOOLEAN
        /\ answer.hasNextPage => end # NoCursor /\ Len(got2) > 0 /\ end = got2[Len(got2)]
        /\ Ordered(s, got2)
        /\ Covered(s, f, Places \ touched, got2, end, answer.hasNextPage)
    <3>1. first \in Nat /\ Places \ touched \in SUBSET Places
      BY <1>4
    <3> QED BY <1>4, <1>5, <3>1, PageContinues
  <2> HIDE DEF answer, got2, end
  <2>3. /\ walk'.sort = s /\ walk'.filter = f /\ walk'.got = got2 /\ walk'.pages = n
        /\ walk'.cursor = end /\ walk'.done = ~answer.hasNextPage /\ touched' = touched
    BY <1>1, <2>1
  <2>4. Len(got2) \in Nat /\ DOMAIN got2 = 1..Len(got2)
    BY <2>2, LenProperties
  <2>5. WalkType'
    <3>1. walk' \in [sort : Lists!Sorts, filter : Lists!PlaceFilters, first : {0, PAGE_SIZE},
                     pages : Nat, got : Seq(Rows), cursor : Rows \cup {NoCursor},
                     done : BOOLEAN]
      <4>1. (~answer.hasNextPage) \in BOOLEAN /\ n \in Nat
        BY <2>2
      <4> QED BY <1>5, <2>1, <2>2, <4>1
    <3>2. visitor' \in Visitors /\ touched' \subseteq Places
      BY <1>1 DEF WalkInv, WalkType
    <3> QED BY <3>1, <3>2 DEF WalkType
  <2>6. WalkGoesForward'
    BY <2>2, <2>3, <2>4 DEF WalkGoesForward, Ordered
  <2>7. Lists!Candidates(walk.sort, walk.filter)' = Lists!Candidates(s, f)
    BY <1>1, <2>3 DEF world, Lists!Candidates, Lists!Matches, Lists!OpenNowExists
  <2>8. \A p : Lists!Row(walk.sort, p)' = Lists!Row(s, p)
    BY <1>1, <2>3 DEF world, Lists!Row, Lists!SortColumn
  <2>9. WalkCovers'
    <3>1. ~(walk'.pages = 0) /\ walk'.pages > 0
      BY <2>3
    <3>2. ~walk'.done => Len(got2) > 0 /\ end = got2[Len(got2)] /\ end # NoCursor
      BY <2>2, <2>3
    <3>3. ASSUME NEW p \in Places \ touched'
          PROVE  /\ \A i \in DOMAIN walk'.got : walk'.got[i].id = p =>
                      /\ p \in Lists!Candidates(walk.sort, walk.filter)'
                      /\ walk'.got[i] = Lists!Row(walk.sort, p)'
                 /\ p \in Lists!Candidates(walk.sort, walk.filter)' =>
                      \/ \E i \in DOMAIN walk'.got : walk'.got[i].id = p
                      \/ /\ ~walk'.done
                         /\ Lists!Precedes(walk'.sort, walk'.cursor, Lists!Row(walk.sort, p)')
      <4>1. p \in Places \ touched /\ (answer.hasNextPage => end # NoCursor)
        BY <2>2, <2>3
      <4>2. Lists!Row(walk.sort, p)' = Lists!Row(s, p)
        BY <2>8
      <4>3. p \in Lists!Candidates(walk.sort, walk.filter)' <=> p \in Lists!Candidates(s, f)
        BY <2>7
      <4>4. /\ \A i \in 1..Len(got2) : got2[i].id = p =>
                 p \in Lists!Candidates(s, f) /\ got2[i] = Lists!Row(s, p)
            /\ p \in Lists!Candidates(s, f) =>
                 \/ \E i \in 1..Len(got2) : got2[i].id = p
                 \/ answer.hasNextPage /\ Lists!Precedes(s, end, Lists!Row(s, p))
        BY <2>2, <4>1 DEF Covered
      <4> QED BY <2>2, <2>3, <2>4, <4>2, <4>3, <4>4
    <3> QED BY <2>3, <3>1, <3>2, <3>3 DEF WalkCovers
  <2> QED BY <2>5, <2>6, <2>9 DEF WalkInv
<1>6. CASE StartWalk
  <2>1. PICK s \in Lists!Sorts, f \in Lists!PlaceFilters, first \in {0, PAGE_SIZE} :
          LET answer == Lists!ListPlaces(s, f, first, NoCursor)
          IN  walk' = [sort |-> s, filter |-> f, first |-> first, pages |-> 1,
                       got |-> answer.rows, cursor |-> answer.endCursor,
                       done |-> ~answer.hasNextPage]
    BY <1>6 DEF StartWalk
  <2>2. <<>> \o Lists!ListPlaces(s, f, first, NoCursor).rows
          = Lists!ListPlaces(s, f, first, NoCursor).rows
    <3>1. first \in Nat
      BY <1>4
    <3>2. Lists!ListPlaces(s, f, first, NoCursor).rows \in Seq(Eligible(s, f, NoCursor))
      BY <1>4, <3>1, PageOfList
    <3> QED BY <3>2, ConcatEmptySeq
  <2>3. /\ Ordered(s, <<>>) /\ Covered(s, f, Places \ touched, <<>>, NoCursor, TRUE)
        /\ <<>> \in Seq(Rows) /\ Len(<<>>) = 0
    BY EmptySeq DEF Ordered, Covered
  <2>4. WalkBecomes(s, f, first, 1, <<>>, NoCursor)
    BY <2>1, <2>2 DEF WalkBecomes
  <2>5. 1 \in Nat \ {0} /\ <<>> \in Seq(Rows) /\ NoCursor \in Rows \cup {NoCursor}
    BY <2>3
  <2> QED BY <1>2, <1>3, <1>5, <2>1, <2>3, <2>4, <2>5
<1>7. CASE NextPage
  <2>1. PICK old \in [sort : Lists!Sorts, filter : Lists!PlaceFilters, first : {0, PAGE_SIZE},
                      pages : Nat, got : Seq(Rows), cursor : Rows \cup {NoCursor},
                      done : BOOLEAN] : old = walk
    BY DEF WalkInv, WalkType
  <2> DEFINE answer == Lists!ListPlaces(old.sort, old.filter, old.first, old.cursor)
  <2>2. /\ old.pages > 0 /\ ~old.done
        /\ walk' = [old EXCEPT !.pages = @ + 1, !.got = @ \o answer.rows,
                               !.cursor = answer.endCursor, !.done = ~answer.hasNextPage]
    BY <1>7, <2>1 DEF NextPage
  <2> HIDE DEF answer
  <2>3. walk' = [sort |-> old.sort, filter |-> old.filter, first |-> old.first,
                 pages |-> old.pages + 1, got |-> old.got \o answer.rows,
                 cursor |-> answer.endCursor, done |-> ~answer.hasNextPage]
    BY <2>2
  <2>4. Len(old.got) > 0 /\ old.cursor = old.got[Len(old.got)] /\ DOMAIN old.got = 1..Len(old.got)
    BY <2>1, <2>2, LenProperties DEF WalkInv, WalkCovers
  <2>5. old.cursor \in Rows /\ old.cursor # NoCursor
    <3>1. old.got[Len(old.got)] \in Rows
      BY <2>4, LenProperties, ElementOfSeq
    <3> QED BY <3>1, <2>4, DiscoverType DEF Rows
  <2>6. Ordered(old.sort, old.got)
    BY <2>1, <2>4 DEF WalkInv, WalkGoesForward, Ordered
  <2>7. Covered(old.sort, old.filter, Places \ touched, old.got, old.cursor, TRUE)
    BY <2>1, <2>2, <2>4 DEF WalkInv, WalkCovers, Covered
  <2>8. old.pages + 1 \in Nat \ {0}
    OBVIOUS
  <2>9. WalkBecomes(old.sort, old.filter, old.first, old.pages + 1, old.got, old.cursor)
    BY <2>3 DEF WalkBecomes, answer
  <2>10. /\ old.sort \in Lists!Sorts /\ old.filter \in Lists!PlaceFilters
         /\ old.first \in {0, PAGE_SIZE} /\ old.got \in Seq(Rows)
    OBVIOUS
  <2>11. PICK s, f, first, got, c, n :
           /\ s = old.sort /\ f = old.filter /\ first = old.first /\ got = old.got
           /\ c = old.cursor /\ n = old.pages + 1
    OBVIOUS
  <2>12. /\ s \in Lists!Sorts /\ f \in Lists!PlaceFilters /\ first \in {0, PAGE_SIZE}
         /\ got \in Seq(Rows) /\ c \in Rows \cup {NoCursor} /\ n \in Nat \ {0}
         /\ c # NoCursor /\ Len(got) > 0 /\ c = got[Len(got)] /\ Ordered(s, got)
         /\ Covered(s, f, Places \ touched, got, c, TRUE)
         /\ WalkBecomes(s, f, first, n, got, c)
    BY <2>4, <2>5, <2>6, <2>7, <2>8, <2>9, <2>10, <2>11
  <2> QED BY <1>2, <1>3, <1>5, <2>12
<1> QED BY <1>2, <1>3, <1>6, <1>7

-----------------------------------------------------------------------------
(* The Discover page. *)

LEMMA VariablesType ==
  ASSUME NEW fs \in Lists!PlaceFilters, NEW q \in BOOLEAN, NEW s \in SortsUsed, NEW located
  PROVE  Browser!Variables(fs, q, s, located) \in Browser!AllVariables
<1>1. [fs EXCEPT !.query = q] \in Lists!PlaceFilters
  BY DEF Lists!PlaceFilters
<1>2. Browser!EffectiveSort(s, located) \in SortsUsed
  BY OnThePage DEF Browser!EffectiveSort
<1> QED BY <1>1, <1>2 DEF Browser!Variables, Browser!AllVariables, Browser!PlaceFilters,
                          Lists!PlaceFilters

\* The page asks the very server that the walk does.
LEMMA SameServer ==
  ASSUME NEW s, NEW f, NEW first, NEW c
  PROVE  Browser!ListPlaces(s, f, first, c) = Lists!ListPlaces(s, f, first, c)
BY Zenon DEF Browser!ListPlaces, Browser!Page, Browser!Cut, Browser!Last, Browser!Limit,
   Browser!Fetched, Browser!Row, Browser!SortColumn, Browser!Candidates, Browser!Matches,
   Browser!OpenNowExists, Browser!Beyond, Browser!Precedes, Browser!SortOf, Browser!Smaller,
   Browser!Cardinality,
   Lists!ListPlaces, Lists!Page, Lists!Cut, Lists!Last, Lists!Limit,
   Lists!Fetched, Lists!Row, Lists!SortColumn, Lists!Candidates, Lists!Matches,
   Lists!OpenNowExists, Lists!Beyond, Lists!Precedes, Lists!SortOf, Lists!Smaller,
   Lists!Cardinality

KeepsTo(v, ids) == v.filter.query => \A i \in DOMAIN ids : ids[i] \in Labelled

LEMMA IdsType ==
  ASSUME NEW answer, answer.rows \in Seq(Rows)
  PROVE  /\ Browser!Ids(answer) \in Seq(Places)
         /\ DOMAIN Browser!Ids(answer) = DOMAIN answer.rows
         /\ \A i \in DOMAIN answer.rows : Browser!Ids(answer)[i] = answer.rows[i].id
<1> DEFINE feed == answer.rows
<1>1. /\ Len(feed) \in Nat /\ DOMAIN feed = 1..Len(feed)
      /\ \A i \in 1..Len(feed) : feed[i].id \in Places
  <2>1. Len(feed) \in Nat /\ DOMAIN feed = 1..Len(feed)
    BY LenProperties
  <2>2. \A i \in 1..Len(feed) : feed[i] \in Rows
    BY ElementOfSeq
  <2> HIDE DEF feed
  <2> QED BY <2>1, <2>2 DEF Rows
<1>2. Browser!Ids(answer) = [i \in 1..Len(feed) |-> feed[i].id]
  BY <1>1 DEF Browser!Ids
<1>3. Browser!Ids(answer) \in [1..Len(feed) -> Places]
  BY <1>1, <1>2
<1> QED BY <1>1, <1>2, <1>3, SeqDef

LEMMA AnswersKeepToSearch ==
  ASSUME Tables, NEW v \in Browser!AllVariables, NEW c
  PROVE  LET answer == Browser!ListPlaces(v.sort, v.filter, PAGE_SIZE, c)
         IN  /\ answer.rows \in Seq(Rows)
             /\ v.filter.query => \A i \in DOMAIN answer.rows : answer.rows[i].id \in Labelled
<1> DEFINE answer == Lists!ListPlaces(v.sort, v.filter, PAGE_SIZE, c)
           R == Eligible(v.sort, v.filter, c)
<1>1. v.sort \in Lists!Sorts /\ PAGE_SIZE \in Nat
  BY OnThePage, DiscoverType DEF Browser!AllVariables
<1>2. answer.rows \in Seq(R)
  BY <1>1, PageOfList
<1>3. R \subseteq Rows
  BY <1>1, EligibleAreRows
<1>4. ASSUME v.filter.query, NEW r \in R
      PROVE  r.id \in Labelled
  <2>1. PICK p \in Lists!Candidates(v.sort, v.filter) : r = Lists!Row(v.sort, p)
    BY <1>4 DEF Eligible
  <2>2. r.id = p
    BY <2>1 DEF Lists!Row
  <2> QED BY <1>4, <2>1, <2>2 DEF Lists!Candidates, Lists!Matches
<1> HIDE DEF R
<1>5. answer.rows \in Seq(Rows) /\ \A i \in DOMAIN answer.rows : answer.rows[i] \in R
  BY <1>2, <1>3, SeqMonotonic, LenProperties, ElementOfSeq
<1> QED BY <1>4, <1>5, SameServer

LEMMA ShownKeepsToSearch ==
  ASSUME ListsOfPlaces, NEW v
  PROVE  /\ Browser!Shown(Browser!Cached(v)) \in Seq(Places)
         /\ KeepsTo(v, Browser!Shown(Browser!Cached(v)))
<1>1. CASE v \in DOMAIN cache /\ cache[v] # NoData
  <2>1. Browser!Shown(Browser!Cached(v)) = Browser!Ids(cache[v])
    BY <1>1 DEF Browser!Shown, Browser!Cached, Browser!Absent
  <2> QED BY <1>1, <2>1, IdsType DEF ListsOfPlaces, KeepsTo
<1>2. CASE ~(v \in DOMAIN cache /\ cache[v] # NoData)
  <2>1. Browser!Shown(Browser!Cached(v)) = <<>>
    BY <1>2 DEF Browser!Shown, Browser!Cached, Browser!Absent
  <2> QED BY <2>1, EmptySeq DEF KeepsTo
<1> QED BY <1>1, <1>2

StartsWith(base, first) == Len(base) >= Len(first) /\ SubSeq(base, 1, Len(first)) = first

LEMMA ListKeepsToSearchInParts ==
  ListKeepsToSearch <=> /\ StartsWith(places, Browser!Shown(Browser!Data))
                        /\ ~late => KeepsTo(Browser!Now, places)
BY DEF ListKeepsToSearch, Browser!ListStartsWithFirstPage, StartsWith, KeepsTo


LEMMA StartsWithItself ==
  ASSUME NEW base \in Seq(Places)
  PROVE  StartsWith(base, base)
BY SubSeqFull, LenProperties DEF StartsWith

LEMMA NothingComesFirst ==
  ASSUME NEW base \in Seq(Places)
  PROVE  StartsWith(base, <<>>)
<1>1. Len(<<>>) = 0 /\ Len(base) \in Nat /\ SubSeq(base, 1, 0) = <<>>
  BY EmptySeq, SubSeqEmpty, LenProperties
<1> QED BY <1>1 DEF StartsWith

LEMMA StartsStillWith ==
  ASSUME NEW base \in Seq(Places), NEW next \in Seq(Places), NEW first \in Seq(Places),
         StartsWith(base, first)
  PROVE  StartsWith(base \o next, first)
<1>1. /\ Len(base) \in Nat /\ Len(next) \in Nat /\ Len(first) \in Nat
      /\ Len(first) <= Len(base) /\ SubSeq(base, 1, Len(first)) = first
  BY LenProperties DEF StartsWith
<1>2. base \o next \in Seq(Places) /\ Len(base \o next) = Len(base) + Len(next)
  BY ConcatProperties
<1>3. CASE Len(first) = 0
  <2>1. first = <<>> /\ SubSeq(base \o next, 1, 0) = <<>>
    BY <1>3, EmptySeq, SubSeqEmpty
  <2> QED BY <1>1, <1>2, <1>3, <2>1 DEF StartsWith
<1>4. CASE Len(first) > 0
  <2>1. 1 \in 1..Len(base) /\ Len(first) \in 1..Len(base)
    BY <1>1, <1>4
  <2>2. SubSeq(base \o next, 1, Len(first)) = SubSeq(base, 1, Len(first))
    BY <2>1, SubSeqOfConcat1
  <2> QED BY <1>1, <1>2, <2>2 DEF StartsWith
<1> QED BY <1>1, <1>3, <1>4

\* A render shows the page of the variables on the screen, or leaves the list.
LEMMA RenderKeeps ==
  ASSUME PageInv, Browser!Chosen,
         filters' \in Lists!PlaceFilters, debouncedQuery' \in BOOLEAN, sort' \in SortsUsed
  PROVE  PageInv'
<1>1. UNCHANGED <<cache, entities, more>> /\ Browser!Render
  BY DEF Browser!Chosen
<1>2. Browser!Now' \in Browser!AllVariables
  BY VariablesType DEF Browser!Now
<1>3. PageType'
  <2>1. late' \in BOOLEAN
    BY <1>1 DEF Browser!Render, PageInv, PageType
  <2> QED BY <1>1, <2>1 DEF PageInv, PageType
<1>4. ListsOfPlaces' /\ PageAsked' /\ ListKeepsToSearch'
  <2>1. CASE Browser!Now' = Browser!Now
    <3>1. UNCHANGED <<asked, places, late>>
      BY <1>1, <2>1 DEF Browser!Render
    <3>2. /\ Browser!Shown(Browser!Data)' = Browser!Shown(Browser!Data)
          /\ Browser!Absent(Browser!Now)' <=> Browser!Absent(Browser!Now)
      BY <1>1, <2>1 DEF Browser!Data, Browser!Cached, Browser!Shown, Browser!Ids, Browser!Absent
    <3>3. ListKeepsToSearch'
      BY <2>1, <3>1, <3>2, ListKeepsToSearchInParts DEF PageInv, KeepsTo, StartsWith,
         ListKeepsToSearch, Browser!ListStartsWithFirstPage
    <3> QED BY <1>1, <1>2, <2>1, <3>1, <3>2, <3>3 DEF PageInv, ListsOfPlaces, PageAsked
  <2>2. CASE Browser!Now' # Browser!Now /\ ~(Browser!Absent(Browser!Now) /\ Browser!Absent(Browser!Now'))
    <3>1. PICK w \in Browser!AllVariables : w = Browser!Now'
      BY <1>2
    <3>2. /\ places' = Browser!Shown(Browser!Cached(w)) /\ late' = FALSE
          /\ asked' \subseteq asked \cup {w}
      BY <1>1, <2>2, <3>1 DEF Browser!Render, Browser!Asks
    <3>3. /\ Browser!Shown(Browser!Data)' = places'
          /\ Browser!Absent(Browser!Now)' => places' = <<>>
      BY <1>1, <3>1, <3>2 DEF Browser!Data, Browser!Cached, Browser!Shown, Browser!Ids,
                              Browser!Absent
    <3>4. places' \in Seq(Places) /\ KeepsTo(w, places')
      BY <3>2, ShownKeepsToSearch DEF PageInv
    <3>5. ListKeepsToSearch'
      <4>1. Len(places') >= Len(places') /\ SubSeq(places', 1, Len(places')) = places'
        BY <3>4, StartsWithItself DEF StartsWith
      <4> QED BY <3>1, <3>3, <3>4, <4>1 DEF ListKeepsToSearch, Browser!ListStartsWithFirstPage,
                                            KeepsTo
    <3> QED BY <1>1, <1>2, <3>1, <3>2, <3>3, <3>4, <3>5 DEF PageInv, ListsOfPlaces, PageAsked
  <2>3. CASE Browser!Now' # Browser!Now /\ Browser!Absent(Browser!Now) /\ Browser!Absent(Browser!Now')
    <3>1. PICK w \in Browser!AllVariables : w = Browser!Now'
      BY <1>2
    <3>2. UNCHANGED <<places, late>> /\ asked' \subseteq asked \cup {w}
      BY <1>1, <2>3, <3>1 DEF Browser!Render, Browser!Asks
    <3>3. places \in Seq(Places) /\ (~late => places = <<>>)
      BY <2>3 DEF PageInv, ListsOfPlaces
    <3>4. Browser!Shown(Browser!Data)' = <<>>
      BY <1>1, <2>3, <3>1 DEF Browser!Data, Browser!Cached, Browser!Shown, Browser!Absent
    <3>5. ListKeepsToSearch'
      <4>1. Len(places) >= Len(<<>>) /\ SubSeq(places, 1, Len(<<>>)) = <<>>
        BY <3>3, NothingComesFirst DEF StartsWith
      <4>2. ~late => \A i \in DOMAIN places : places[i] \in Labelled
        BY <3>3, EmptySeq
      <4> QED BY <3>2, <3>4, <4>1, <4>2 DEF ListKeepsToSearch, Browser!ListStartsWithFirstPage
    <3> QED BY <1>1, <1>2, <3>1, <3>2, <3>3, <3>5 DEF PageInv, ListsOfPlaces, PageAsked
  <2> QED BY <2>1, <2>2, <2>3
<1> QED BY <1>3, <1>4 DEF PageInv

LEMMA VisitorKeeps ==
  ASSUME PageInv, Browser!VisitorActs \/ Browser!Debounce \/ Browser!GeoAnswers
  PROVE  PageInv'
<1>1. filters \in Lists!PlaceFilters /\ debouncedQuery \in BOOLEAN /\ sort \in SortsUsed
  BY DEF PageInv, PageType
<1>2. CASE Browser!LoadMore
  <2>1. /\ more'.variables = Browser!Now /\ Browser!Now \in DOMAIN cache
        /\ UNCHANGED <<filters, debouncedQuery, sort, coords, cache, asked, places, late>>
    BY <1>2 DEF Browser!LoadMore, Browser!HasNextPage, Browser!Data, Browser!Cached,
                Browser!Absent
  <2>2. Browser!Now' = Browser!Now
    BY <2>1 DEF Browser!Now, Browser!Variables, Browser!EffectiveSort
  <2>3. ListKeepsToSearch'
    BY <2>1, <2>2 DEF PageInv, ListKeepsToSearch, Browser!ListStartsWithFirstPage,
       Browser!Data, Browser!Cached, Browser!Absent, Browser!Shown, Browser!Ids
  <2> QED BY <2>1, <2>2, <2>3 DEF PageInv, PageAsked, PageType, ListsOfPlaces, Browser!Absent
<1>3. CASE Browser!ChangeFilters
  <2>1. filters' \in Lists!PlaceFilters
    BY <1>3, OnThePage DEF Browser!ChangeFilters
  <2> QED BY <1>1, <1>3, <2>1, RenderKeeps DEF Browser!ChangeFilters
<1>4. CASE Browser!ChangeSort
  BY <1>1, <1>4, RenderKeeps DEF Browser!ChangeSort
<1>5. CASE Browser!Debounce
  <2>1. filters.query \in BOOLEAN
    BY <1>1 DEF Lists!PlaceFilters
  <2> QED BY <1>1, <1>5, <2>1, RenderKeeps DEF Browser!Debounce
<1>6. CASE Browser!ShowMap \/ Browser!CloseModal \/ Browser!BackToList \/ Browser!GeoAnswers
  BY <1>1, <1>6, RenderKeeps
     DEF Browser!ShowMap, Browser!CloseModal, Browser!BackToList, Browser!GeoAnswers
<1> QED BY <1>2, <1>3, <1>4, <1>5, <1>6 DEF Browser!VisitorActs

LEMMA FailureKeeps ==
  ASSUME PageInv, Browser!RequestFails
  PROVE  PageInv'
<1>1. /\ UNCHANGED <<filters, debouncedQuery, sort, coords, cache, places, late>>
      /\ asked' \subseteq asked /\ (more' = more \/ more' = NoData)
  BY DEF Browser!RequestFails
<1>2. Browser!Now' = Browser!Now
  BY <1>1 DEF Browser!Now, Browser!Variables, Browser!EffectiveSort
<1>3. ListKeepsToSearch'
  BY <1>1, <1>2 DEF PageInv, ListKeepsToSearch, Browser!ListStartsWithFirstPage,
     Browser!Data, Browser!Cached, Browser!Absent, Browser!Shown, Browser!Ids
<1> QED BY <1>1, <1>2, <1>3 DEF PageInv, PageAsked, PageType, ListsOfPlaces, Browser!Absent

\* The first page of v arrives: it is shown if it is the one on the screen.
LEMMA FirstPageKeeps ==
  ASSUME Tables, PageInv, NEW v \in asked, Browser!FirstPageArrives(v)
  PROVE  PageInv'
<1> DEFINE answer == Browser!ListPlaces(v.sort, v.filter, PAGE_SIZE, NoCursor)
<1>1. /\ UNCHANGED <<filters, debouncedQuery, sort, coords, more>> /\ asked' \subseteq asked
      /\ cache' = [w \in DOMAIN cache \cup {v} |-> IF w = v THEN answer ELSE cache[w]]
      /\ places' = Browser!ListFrom(places) /\ late' = (late /\ ~Browser!DataChanges)
  BY DEF Browser!FirstPageArrives
<1>2. v \in Browser!AllVariables
  BY DEF PageInv, PageAsked
<1>3. /\ answer.rows \in Seq(Rows)
      /\ v.filter.query => \A i \in DOMAIN answer.rows : answer.rows[i].id \in Labelled
  BY <1>2, AnswersKeepToSearch
<1> HIDE DEF answer
<1>4. Browser!Now' = Browser!Now
  BY <1>1 DEF Browser!Now, Browser!Variables, Browser!EffectiveSort
<1>5. \A w \in DOMAIN cache' :
        /\ cache'[w].rows \in Seq(Rows)
        /\ w.filter.query =>
             \A i \in DOMAIN cache'[w].rows : cache'[w].rows[i].id \in Labelled
  BY <1>1, <1>3 DEF PageInv, ListsOfPlaces
<1>6. late' \in BOOLEAN
  BY <1>1 DEF PageInv, PageType
<1>7. places' \in Seq(Places) /\ ListKeepsToSearch'
  <2>1. PICK drawn : drawn = Browser!Shown(Browser!Data)'
    OBVIOUS
  <2>2. PICK now : now = Browser!Now'
    OBVIOUS
  <2>3. drawn \in Seq(Places) /\ KeepsTo(now, drawn)
    <3>1. CASE now \in DOMAIN cache' /\ cache'[now] # NoData
      <4>1. PICK got : got = cache'[now]
        OBVIOUS
      <4>2. drawn = Browser!Ids(got)
        BY <2>1, <2>2, <3>1, <4>1 DEF Browser!Shown, Browser!Data, Browser!Cached, Browser!Ids,
                                      Browser!Absent
      <4>3. got.rows \in Seq(Rows)
            /\ (now.filter.query => \A i \in DOMAIN got.rows : got.rows[i].id \in Labelled)
        BY <1>5, <3>1, <4>1
      <4> QED BY <4>2, <4>3, IdsType DEF KeepsTo
    <3>2. CASE ~(now \in DOMAIN cache' /\ cache'[now] # NoData)
      <4>1. drawn = <<>>
        BY <2>1, <2>2, <3>2 DEF Browser!Shown, Browser!Data, Browser!Cached, Browser!Absent
      <4> QED BY <4>1, EmptySeq DEF KeepsTo
    <3> QED BY <3>1, <3>2
  <2>4. CASE Browser!DataChanges
    <3>1. places' = drawn
      BY <1>1, <2>1, <2>4 DEF Browser!ListFrom, Browser!Shown, Browser!Ids
    <3>2. StartsWith(drawn, drawn)
      BY <2>3, StartsWithItself
    <3> QED BY <2>1, <2>2, <2>3, <3>1, <3>2 DEF ListKeepsToSearch, KeepsTo,
                                               Browser!ListStartsWithFirstPage, StartsWith
  <2>5. CASE ~Browser!DataChanges
    <3>1. places' = places /\ Browser!Data' = Browser!Data /\ late' = late
      BY <1>1, <2>5 DEF Browser!ListFrom, Browser!DataChanges, PageInv, PageType
    <3>2. Browser!Shown(Browser!Data)' = Browser!Shown(Browser!Data)
      BY <3>1 DEF Browser!Shown, Browser!Ids
    <3> QED BY <1>4, <3>1, <3>2 DEF PageInv, ListsOfPlaces, ListKeepsToSearch,
                                    Browser!ListStartsWithFirstPage
  <2> QED BY <2>4, <2>5
<1>8. Browser!Absent(Browser!Now)' /\ ~late' => places' = <<>>
  <2> SUFFICES ASSUME Browser!Absent(Browser!Now)', ~late'
               PROVE  places' = <<>>
    OBVIOUS
  <2>1. Browser!Absent(Browser!Now) /\ Browser!Data' = NoData /\ Browser!Data = NoData
    BY <1>1, <1>4 DEF Browser!Absent, Browser!Data, Browser!Cached
  <2>2. CASE Browser!DataChanges
    BY <1>1, <2>1, <2>2 DEF Browser!ListFrom, Browser!Shown
  <2>3. CASE ~Browser!DataChanges
    BY <1>1, <2>1, <2>3 DEF Browser!ListFrom, PageInv, ListsOfPlaces
  <2> QED BY <2>2, <2>3
<1>9. PageAsked' /\ PageType' /\ ListsOfPlaces'
  BY <1>1, <1>2, <1>4, <1>5, <1>6, <1>7, <1>8 DEF PageInv, PageAsked, PageType, ListsOfPlaces
<1> QED BY <1>7, <1>9 DEF PageInv

\* A later page is appended, to whatever list there is.
LEMMA MoreKeeps ==
  ASSUME Tables, PageInv, Browser!MoreArrives
  PROVE  PageInv'
<1>1. PICK v, c : v = more.variables /\ c = more.after
  OBVIOUS
<1> DEFINE answer == Browser!ListPlaces(v.sort, v.filter, PAGE_SIZE, c)
           next == Browser!Ids(answer)
<1>2. /\ UNCHANGED <<filters, debouncedQuery, sort, coords, cache, asked>>
      /\ more # NoData /\ more' = NoData
      /\ places' = Browser!ListFrom(places) \o next
      /\ late' = (v # Browser!Now \/ (late /\ ~Browser!DataChanges))
  BY <1>1 DEF Browser!MoreArrives
<1>3. v \in Browser!AllVariables /\ v \in DOMAIN cache
  BY <1>1, <1>2 DEF PageInv, PageType
<1>4. next \in Seq(Places) /\ KeepsTo(v, next)
  <2>1. /\ answer.rows \in Seq(Rows)
        /\ v.filter.query => \A i \in DOMAIN answer.rows : answer.rows[i].id \in Labelled
    BY <1>3, AnswersKeepToSearch
  <2> HIDE DEF answer
  <2> QED BY <2>1, IdsType DEF KeepsTo
<1> HIDE DEF next
<1>5. Browser!Now' = Browser!Now /\ Browser!Data' = Browser!Data
  BY <1>2 DEF Browser!Now, Browser!Variables, Browser!EffectiveSort, Browser!Data,
              Browser!Cached, Browser!Absent
<1>6. PICK base, drawn : base = Browser!ListFrom(places) /\ drawn = Browser!Shown(Browser!Data)
  OBVIOUS
<1>7. Browser!Shown(Browser!Data)' = drawn
  BY <1>5, <1>6 DEF Browser!Shown, Browser!Ids
<1>8. drawn \in Seq(Places) /\ KeepsTo(Browser!Now, drawn)
  BY <1>6, ShownKeepsToSearch DEF PageInv, Browser!Data
<1>9. /\ base \in Seq(Places) /\ StartsWith(base, drawn)
      /\ ~late' => v = Browser!Now /\ KeepsTo(Browser!Now, base)
  <2>1. CASE Browser!DataChanges
    <3>1. base = drawn
      BY <1>6, <1>7, <2>1 DEF Browser!ListFrom, Browser!Shown, Browser!Ids
    <3> QED BY <1>2, <1>8, <3>1, StartsWithItself
  <2>2. CASE ~Browser!DataChanges
    <3>1. base = places
      BY <1>6, <2>2 DEF Browser!ListFrom
    <3> QED BY <1>2, <1>6, <2>2, <3>1, ListKeepsToSearchInParts DEF PageInv, ListsOfPlaces
  <2> QED BY <2>1, <2>2
<1>10. places' = base \o next
  BY <1>2, <1>6
<1>11. /\ places' \in Seq(Places) /\ StartsWith(places', drawn)
       /\ ~late' => KeepsTo(Browser!Now, places')
  <2>1. base \o next \in Seq(Places) /\ StartsWith(base \o next, drawn)
    BY <1>4, <1>8, <1>9, ConcatProperties, StartsStillWith
  <2>2. ASSUME ~late', Browser!Now.filter.query, NEW i \in DOMAIN (base \o next)
        PROVE  (base \o next)[i] \in Labelled
    <3>1. /\ DOMAIN base = 1..Len(base) /\ DOMAIN next = 1..Len(next)
          /\ Len(base) \in Nat /\ Len(next) \in Nat
          /\ DOMAIN (base \o next) = 1..(Len(base) + Len(next))
          /\ (base \o next)[i] = IF i <= Len(base) THEN base[i] ELSE next[i - Len(base)]
      BY <1>4, <1>9, ConcatProperties, LenProperties
    <3>2. (\A j \in DOMAIN base : base[j] \in Labelled)
          /\ (\A j \in DOMAIN next : next[j] \in Labelled)
      BY <1>4, <1>9, <2>2 DEF KeepsTo
    <3> QED BY <3>1, <3>2
  <2> QED BY <1>10, <2>1, <2>2 DEF KeepsTo
<1>12. ListKeepsToSearch'
  BY <1>5, <1>7, <1>11 DEF ListKeepsToSearch, Browser!ListStartsWithFirstPage, StartsWith,
                           KeepsTo
<1>13. late' \in BOOLEAN
  BY <1>2 DEF PageInv, PageType
<1>14. Browser!Absent(Browser!Now)' => late'
  BY <1>2, <1>3, <1>5 DEF Browser!Absent
<1> QED BY <1>2, <1>5, <1>11, <1>12, <1>13, <1>14 DEF PageInv, PageAsked, PageType, ListsOfPlaces

-----------------------------------------------------------------------------
(* The whole. *)

LEMMA SameWorld ==
  ASSUME WorldInv, WalkInv, UNCHANGED <<world, changes, visitor, walk, touched>>,
         clicks' \in 0..MaxClicks
  PROVE  WorldInv' /\ WalkInv'
<1>1. WorldInv'
  BY DEF world, WorldInv, Tables, Trend!JobType, RefreshedScoresWereTrue, CountsSeen,
         Trend!RefreshedScoresWereTrue
<1>2. WalkInv'
  BY DEF world, WalkInv, WalkType, WalkCovers, WalkGoesForward, Lists!Candidates, Lists!Matches,
         Lists!OpenNowExists, Lists!Row, Lists!SortColumn
<1> QED BY <1>1, <1>2

LEMMA InvInit ==
  ASSUME Init
  PROVE  DiscoverInv
<1>1. MaxRating \in Nat \ {0} /\ MaxRecent \in Nat /\ MaxClicks \in Nat
      /\ visitor \in Visitors /\ MaxChanges[visitor] \in Nat
  BY DiscoverType DEF Init
<1>2. WorldInv
  <2>1. live \subseteq Places /\ rating \in [Places -> 0..MaxRating]
    BY <1>1 DEF Init
  <2>2. clock \in DOMAIN OpenAt
    BY DiscoverType DEF Init
  <2>3. PICK past \in SUBSET (0..MaxRecent) : Trend!JobInit(past)
    BY <1>1 DEF Init
  <2>4. /\ Trend!JobType /\ trending \in [Places -> 0..MaxRecent]
        /\ RefreshedScoresWereTrue /\ CountsSeen
    BY <2>3 DEF Trend!JobInit, Trend!JobType, CountsSeen, RefreshedScoresWereTrue,
                Trend!RefreshedScoresWereTrue
  <2> QED BY <1>1, <2>1, <2>2, <2>4 DEF WorldInv, Tables, Init
<1>3. Browser!NoFilter \in Lists!PlaceFilters
  BY DEF Browser!NoFilter, Lists!PlaceFilters
<1>4. WalkInv
  <2>1. walk = NoWalk /\ touched = {} /\ <<>> \in Seq(Rows)
    BY EmptySeq DEF Init
  <2>2. WalkType
    BY <1>1, <1>3, <2>1 DEF WalkType, NoWalk, Lists!Sorts
  <2>3. WalkCovers /\ WalkGoesForward
    BY <2>1 DEF WalkCovers, WalkGoesForward, NoWalk
  <2> QED BY <2>2, <2>3 DEF WalkInv
<1>5. PageInv
  <2>1. /\ filters = Browser!NoFilter /\ debouncedQuery = FALSE /\ sort = "HIGHEST_RATED"
        /\ coords = FALSE /\ cache = <<>> /\ more = NoData /\ places = <<>> /\ late = FALSE
        /\ asked = {[sort |-> "HIGHEST_RATED", filter |-> Browser!NoFilter]}
    BY DEF Init, Browser!PageInit
  <2>2. "HIGHEST_RATED" \in SortsUsed
    BY OnThePage
  <2>3. PageAsked
    <3>1. Browser!Now \in Browser!AllVariables
      BY <1>3, <2>1, <2>2, VariablesType DEF Browser!Now
    <3>2. asked \subseteq Browser!AllVariables
      BY <1>3, <2>1, <2>2 DEF Browser!AllVariables, Browser!PlaceFilters, Lists!PlaceFilters
    <3> QED BY <3>1, <3>2 DEF PageAsked
  <2>4. DOMAIN cache = {}
    BY <2>1
  <2>5. PageType /\ ListsOfPlaces
    BY <1>3, <2>1, <2>2, <2>4, EmptySeq DEF PageType, ListsOfPlaces
  <2>6. ListKeepsToSearch
    <3>1. Browser!Shown(Browser!Data) = <<>>
      BY <2>4 DEF Browser!Shown, Browser!Data, Browser!Cached, Browser!Absent
    <3>2. StartsWith(<<>>, <<>>)
      BY EmptySeq, StartsWithItself
    <3> QED BY <2>1, <3>1, <3>2, ListKeepsToSearchInParts DEF KeepsTo
  <2> QED BY <2>3, <2>5, <2>6 DEF PageInv
<1> QED BY <1>2, <1>4, <1>5, InvInParts

LEMMA InvStep ==
  ASSUME DiscoverInv, [Next]_vars
  PROVE  DiscoverInv'
<1> SUFFICES WorldInv' /\ WalkInv' /\ PageInv'
  BY DEF DiscoverInv, TypeOK, WorldInv, Tables, WalkInv, WalkType, PageInv, PageAsked,
         Trend!JobType
<1>1. WorldInv /\ WalkInv /\ PageInv /\ Tables
  BY InvInParts DEF WorldInv
<1>2. clicks \in 0..MaxClicks /\ MaxClicks \in Nat
  BY <1>1, DiscoverType DEF WorldInv
<1>3. CASE WorldChanges
  BY <1>1, <1>3, WorldKeeps
<1>4. CASE StartWalk \/ NextPage
  BY <1>1, <1>4, StepsOfWalk
<1>5. CASE VisitorActs
  <2>1. clicks' \in 0..MaxClicks /\ UNCHANGED <<world, changes, visitor, walk, touched>>
    BY <1>2, <1>5 DEF VisitorActs
  <2> QED BY <1>1, <1>5, <2>1, SameWorld, VisitorKeeps DEF VisitorActs
<1>6. CASE Answered
  <2>1. clicks' \in 0..MaxClicks /\ UNCHANGED <<world, changes, visitor, walk, touched>>
    BY <1>2, <1>6 DEF Answered
  <2>2. PageInv'
    BY <1>1, <1>6, VisitorKeeps, FirstPageKeeps, MoreKeeps DEF Answered, Browser!Answers
  <2> QED BY <1>1, <2>1, <2>2, SameWorld
<1>7. CASE RequestFails
  <2>1. clicks' \in 0..MaxClicks /\ UNCHANGED <<world, changes, visitor, walk, touched>>
    BY <1>2, <1>7 DEF RequestFails
  <2> QED BY <1>1, <1>7, <2>1, SameWorld, FailureKeeps DEF RequestFails
<1>8. CASE UNCHANGED vars
  <2>1. clicks' \in 0..MaxClicks /\ UNCHANGED <<world, changes, visitor, walk, touched>>
        /\ UNCHANGED page
    BY <1>2, <1>8 DEF vars
  <2> QED BY <1>1, <2>1, SameWorld, PageUnchanged
<1> QED BY <1>3, <1>4, <1>5, <1>6, <1>7, <1>8 DEF Next

-----------------------------------------------------------------------------
(* Theorems. *)

LEMMA InvHolds == Spec => []DiscoverInv
<1>1. Init => DiscoverInv
  BY InvInit
<1>2. DiscoverInv /\ [Next]_vars => DiscoverInv'
  BY InvStep
<1> QED BY <1>1, <1>2, PTL DEF Spec

\* However many places, pages, changes and clicks there are, every variable of
\* the server's lists, the job, the walk and the page keeps its type.
THEOREM TypeCorrect == Spec => []TypeOK
BY InvHolds, PTL DEF DiscoverInv

\* TrendingScoreJob: a score that a refresh leaves was, at some moment of it, the
\* number of recent reviews, or its place had none and got one in between.
THEOREM ScoresWereTrue == Spec => []RefreshedScoresWereTrue
BY InvHolds, PTL DEF DiscoverInv

\* An order of rows has each of them once, so what is covered is counted once.
LEMMA CoveredIsCountedOnce ==
  ASSUME DiscoverInv
  PROVE  WalkSeesUntouchedOnce
<1> SUFFICES ASSUME NEW p \in Places \ touched
             PROVE  /\ Count(p) <= 1
                    /\ walk.done => Count(p) =
                         IF p \in Lists!Candidates(walk.sort, walk.filter) THEN 1 ELSE 0
  BY DEF WalkSeesUntouchedOnce
<1>1. PICK got, s : got = walk.got /\ s = walk.sort
  OBVIOUS
<1> DEFINE S == {i \in DOMAIN got : got[i].id = p}
<1>2. Count(p) = Cardinality(S)
  BY <1>1 DEF Count
<1>3. /\ walk.pages \in Nat /\ got \in Seq(Rows) /\ Len(got) \in Nat
      /\ DOMAIN got = 1..Len(got) /\ \A i \in DOMAIN got : got[i] \in Rows
  BY <1>1, LenProperties, ElementOfSeq DEF DiscoverInv, WalkType
<1>4. CASE walk.pages = 0
  <2>1. ~walk.done /\ got = <<>>
    BY <1>1, <1>4 DEF DiscoverInv, WalkCovers
  <2>2. S = {}
    BY <2>1
  <2> QED BY <1>2, <2>1, <2>2, FS_EmptySet
<1>5. CASE walk.pages > 0
  <2>1. /\ \A i \in S : p \in Lists!Candidates(walk.sort, walk.filter)
                        /\ got[i] = Lists!Row(walk.sort, p)
        /\ walk.done /\ p \in Lists!Candidates(walk.sort, walk.filter) => S # {}
    BY <1>1, <1>5 DEF DiscoverInv, WalkCovers
  <2>2. ASSUME NEW i \in S, NEW j \in S
        PROVE  ~(i < j)
    <3>1. i \in DOMAIN got /\ j \in DOMAIN got /\ got[i] = got[j] /\ got[i] \in Rows
      BY <2>1, <1>3
    <3>2. i < j => Lists!Precedes(s, got[i], got[j])
      BY <1>1, <3>1 DEF DiscoverInv, WalkGoesForward
    <3> QED BY <3>1, <3>2, OrderOfRows
  <2>3. \A i, j \in S : i = j
    BY <1>3, <2>2
  <2>4. CASE S = {}
    <3>1. Count(p) = 0
      BY <1>2, <2>4, FS_EmptySet
    <3>2. ~(walk.done /\ p \in Lists!Candidates(walk.sort, walk.filter))
      BY <2>1, <2>4
    <3> QED BY <3>1, <3>2
  <2>5. CASE S # {}
    <3>1. PICK i : S = {i}
      BY <2>3, <2>5
    <3>2. Cardinality(S) = 1
      BY <3>1, FS_Singleton
    <3>3. p \in Lists!Candidates(walk.sort, walk.filter)
      BY <2>1, <2>5
    <3> QED BY <1>2, <3>2, <3>3
  <2> QED BY <2>4, <2>5
<1> QED BY <1>3, <1>4, <1>5

\* PlaceService.listPlaces: whoever follows the cursors of a moving list gets the
\* places that stay where they are exactly once, and goes only forward.
THEOREM WalksAreFaithful == Spec => []WalkIsFaithful
<1>1. DiscoverInv => WalkIsFaithful
  BY CoveredIsCountedOnce DEF WalkIsFaithful, DiscoverInv
<1> QED BY <1>1, InvHolds, PTL

\* DiscoverPage: whatever answers come in whatever order, the list starts with the
\* first page of the search on the screen, and keeps to the search unless a page
\* of a former one came late.
THEOREM ListsKeepToSearch == Spec => []ListKeepsToSearch
BY InvHolds, PTL DEF DiscoverInv

-----------------------------------------------------------------------------
(* The sign-up form.                                                         *)

SignUpCall ==
  [kind : SignUp!Kinds, email : Emails, from : {"form 1", "form 2"} \ {None},
   stage : {"sent", "ok", "failed"}]

\* Where the form is on display, and what is submitted from it.
FormOnDisplay ==
  /\ signUps \in [SignUps -> {SignUp!Idle} \cup SignUpCall]
  /\ desk \in {"closed", "left"} => mount = None
  /\ desk = "closed" => accounts = {} /\ SignUp!Running = {}
  /\ step = 2 => mount # None /\ desk = "login"
  /\ desk = "modal" =>
       type = "REGULAR" /\ \A c \in SignUp!Running : signUps[c].kind = "REGULAR"

\* Without an excuse the sign-up that runs is the only one, and its button is
\* the one of the step on display; once it has made an account, it is the last.
OneSignUp ==
  ~excuse =>
    /\ \A c \in SignUp!Running :
         /\ signUps[c].from = mount /\ (signUps[c].kind = "BUSINESS" <=> step = 2)
         /\ \A d \in SignUp!Running : c = d
    /\ accounts # {} => \/ (desk = "left" /\ SignUp!Running = {})
                        \/ \E c \in SignUp!Running : signUps[c].stage = "ok"
    /\ \A a, b \in accounts : a = b

SignUpInv ==
  /\ SignUp!TypeOK /\ FormOnDisplay /\ OneSignUp
  /\ SignUp!StepsAgree /\ SignUp!ScannersAreReviewers

USE DEF SignUp!Kinds, SignUp!Account, SignUp!fields, SignUp!server, SignUp!location


LEMMA SignUpInitially == ASSUME SignUp!Init, MAX_LOCATING \in Nat PROVE SignUpInv
<1>1. SignUp!Running = {}
  BY DEF SignUp!Init, SignUp!Running
<1>2. SignUp!TypeOK
  <2>1. asksLocation \in BOOLEAN /\ excuse \in BOOLEAN
    BY DEF SignUp!Init
  <2> QED BY <1>1, <2>1 DEF SignUp!Init, SignUp!TypeOK
<1>3. FormOnDisplay /\ OneSignUp
  BY <1>1 DEF SignUp!Init, FormOnDisplay, OneSignUp
<1>4. SignUp!StepsAgree /\ SignUp!ScannersAreReviewers
  BY DEF SignUp!Init, SignUp!StepsAgree, SignUp!ScannersAreReviewers
<1> QED BY <1>2, <1>3, <1>4 DEF SignUpInv

FormStep ==
  \/ \E t \in SignUp!Kinds :
       \/ SignUp!Open("login", t) \/ SignUp!Open("modal", t) \/ SignUp!ReturnToTab(t)
       \/ SignUp!ChooseType(t)
  \/ SignUp!LeaveTab \/ SignUp!Continue \/ SignUp!Back \/ SignUp!UseMyLocation
  \/ \E e \in Emails : SignUp!Type(e)
  \/ \E s \in Spots : SignUp!Pick(s) \/ SignUp!Located(s)

\* What the steps of the form change, and what they leave of the calls.
FormTypes ==
  /\ asksLocation' \in BOOLEAN /\ excuse' \in BOOLEAN /\ locating' \in 0..MAX_LOCATING
  /\ type' \in SignUp!Kinds /\ typed' \in Emails \cup {None} /\ account' \in Emails \cup {None}
  /\ pin' \in Spots \cup {None}
FormMoves ==
  /\ desk' = desk \/ (desk = "closed" /\ desk' \in {"login", "modal"})
  /\ \/ mount' \in {mount, None}
     \/ mount' \in {"form 1", "form 2"} /\ desk' \in {"login", "modal"}
  /\ step' = 1 \/ (step' = 2 /\ mount' = mount /\ mount # None /\ desk' = "login")
  /\ desk' = "modal" => type' = "REGULAR"
  /\ step' = 2 => account' = typed' /\ account' # None
CallsRunOn ==
  /\ UNCHANGED <<signUps, accounts, me>>
  /\ excuse => excuse'
  /\ SignUp!Running = {} \/ excuse' \/ (mount' = mount /\ step' = step)

LEMMA FormFacts ==
  ASSUME SignUpInv
  PROVE  /\ asksLocation \in BOOLEAN /\ excuse \in BOOLEAN 
         /\ locating \in 0..MAX_LOCATING
         /\ desk \in {"closed", "login", "modal", "left"} /\ mount \in {None, "form 1", "form 2"}
         /\ type \in SignUp!Kinds /\ step \in {1, 2}
         /\ typed \in Emails \cup {None} /\ account \in Emails \cup {None} /\ pin \in Spots \cup {None}
         /\ desk \in {"closed", "left"} => mount = None
         /\ step = 2 => mount # None /\ desk = "login" /\ account = typed /\ account # None
         /\ desk = "modal" => type = "REGULAR"
         /\ desk = "closed" => SignUp!Running = {}
BY DEF SignUpInv, SignUp!TypeOK, FormOnDisplay, SignUp!StepsAgree

LEMMA FormKeeps == ASSUME SignUpInv, FormTypes, FormMoves, CallsRunOn PROVE SignUpInv'
<1> USE DEF FormTypes, FormMoves, CallsRunOn
<1>1. SignUp!Running' = SignUp!Running
  BY DEF SignUp!Running, SignUp!Idle
<1>2. SignUp!TypeOK'
  BY <1>1 DEF SignUpInv, SignUp!TypeOK
<1>3. FormOnDisplay'
  <2>1. signUps' \in [SignUps -> {SignUp!Idle'} \cup SignUpCall']
    BY DEF SignUpInv, FormOnDisplay, SignUpCall, SignUp!Idle
  <2>2. desk' = "modal" => \A c \in SignUp!Running' : signUps'[c].kind = "REGULAR"
    BY <1>1, FormFacts DEF SignUpInv, FormOnDisplay
  <2>3. desk' \in {"closed", "left"} => mount' = None
    BY FormFacts
  <2>4. desk' = "closed" => accounts' = {} /\ SignUp!Running' = {}
    BY <1>1 DEF SignUpInv, FormOnDisplay
  <2>5. desk' = "modal" => type' = "REGULAR"
    OBVIOUS
  <2>6. step' = 2 => mount' # None /\ desk' = "login"
    BY ONLY FormMoves DEF FormMoves
  <2> QED BY ONLY <2>1, <2>2, <2>3, <2>4, <2>5, <2>6 DEF FormOnDisplay
<1>4. SignUp!StepsAgree' /\ SignUp!ScannersAreReviewers'
  BY DEF SignUpInv, SignUp!TypeOK, FormOnDisplay, SignUp!StepsAgree, SignUp!ScannersAreReviewers
<1>5. OneSignUp'
  BY <1>1 DEF SignUpInv, SignUp!TypeOK, FormOnDisplay, OneSignUp
<1> QED BY <1>2, <1>3, <1>4, <1>5 DEF SignUpInv

LEMMA LocatingFacts ==
  ASSUME SignUpInv
  PROVE  /\ 0 \in 0..MAX_LOCATING
         /\ locating < MAX_LOCATING => locating + 1 \in 0..MAX_LOCATING
         /\ locating > 0 => locating - 1 \in 0..MAX_LOCATING
<1>1. locating \in 0..MAX_LOCATING /\ MAX_LOCATING \in Nat
  BY ScreensType DEF SignUpInv, SignUp!TypeOK
<1> QED BY ONLY <1>1

LEMMA RunningFacts ==
  ASSUME SignUpInv, ~excuse, NEW c \in SignUp!Running
  PROVE  /\ signUps[c] \in SignUpCall /\ c \in SignUps
         /\ mount # None /\ signUps[c].from = mount
         /\ step = 2 => signUps[c].kind = "BUSINESS"
         /\ step = 1 => signUps[c].kind = "REGULAR"
         /\ \A d \in SignUp!Running : c = d
<1>1. signUps[c] \in SignUpCall /\ c \in SignUps
  BY DEF SignUpInv, FormOnDisplay, SignUp!Running
<1>2. step \in {1, 2} /\ signUps[c].kind \in SignUp!Kinds /\ signUps[c].from # None
  BY <1>1, FormFacts DEF SignUpCall
<1>3. /\ signUps[c].from = mount /\ (signUps[c].kind = "BUSINESS" <=> step = 2)
      /\ \A d \in SignUp!Running : c = d
  BY DEF SignUpInv, OneSignUp
<1> QED BY <1>1, <1>2, <1>3

LEMMA FormSteps == ASSUME SignUpInv, FormStep PROVE SignUpInv'
<1>0. SignUp!TypeOK
  BY DEF SignUpInv
<1> USE FormFacts DEF FormTypes, FormMoves, CallsRunOn
<1>1. ASSUME NEW t \in SignUp!Kinds,
             \/ SignUp!Open("login", t) \/ SignUp!Open("modal", t) \/ SignUp!ReturnToTab(t)
             \/ SignUp!ChooseType(t)
      PROVE  SignUpInv'
  <2> USE <1>1 DEF SignUp!Open, SignUp!ReturnToTab, SignUp!ChooseType
  <2>1. SignUp!Running = {} \/ excuse \/ mount' = mount
    BY RunningFacts
  <2>2. step = 1
    OBVIOUS
  <2>3. FormTypes
    OBVIOUS
  <2>4. FormMoves
    BY <2>2
  <2>5. CallsRunOn
    BY <2>1, <2>2
  <2> QED BY <2>3, <2>4, <2>5, FormKeeps
<1>2. CASE SignUp!LeaveTab
  <2> USE <1>2 DEF SignUp!LeaveTab
  <2>1. FormTypes
    <3>1. asksLocation' \in BOOLEAN /\ excuse' \in BOOLEAN
      OBVIOUS
    <3>2. locating' \in 0..MAX_LOCATING
      BY ONLY LocatingFacts, SignUpInv, <1>2 DEF SignUp!LeaveTab
    <3> QED BY <3>1, <3>2
  <2>2. FormMoves
    <3>1. desk' = desk /\ mount' = None /\ step' = 1 /\ type' = "REGULAR"
      OBVIOUS
    <3> QED BY ONLY <3>1 DEF FormMoves
  <2>3. CallsRunOn
    OBVIOUS
  <2> QED BY <2>1, <2>2, <2>3, FormKeeps
<1>3. CASE SignUp!Continue
  <2> USE <1>3 DEF SignUp!Continue, SignUp!Kept
  <2>1. SignUp!Running = {} \/ excuse
    BY RunningFacts DEF SignUp!Submitting
  <2>2. FormTypes
    OBVIOUS
  <2>3. FormMoves
    OBVIOUS
  <2>4. CallsRunOn
    BY <2>1
  <2> QED BY <2>2, <2>3, <2>4, FormKeeps
<1>4. CASE SignUp!Back
  <2> USE <1>4 DEF SignUp!Back
  <2>1. FormTypes
    OBVIOUS
  <2>2. FormMoves
    OBVIOUS
  <2>3. CallsRunOn
    OBVIOUS
  <2> QED BY <2>1, <2>2, <2>3, FormKeeps
<1>5. CASE SignUp!UseMyLocation
  <2> USE <1>5 DEF SignUp!UseMyLocation
  <2>1. FormTypes
    <3>1. asksLocation' \in BOOLEAN /\ excuse' \in BOOLEAN
      OBVIOUS
    <3>2. locating' \in 0..MAX_LOCATING
      BY ONLY LocatingFacts, SignUpInv, <1>5 DEF SignUp!UseMyLocation
    <3> QED BY <3>1, <3>2
  <2>2. FormMoves
    OBVIOUS
  <2>3. CallsRunOn
    OBVIOUS
  <2> QED BY <2>1, <2>2, <2>3, FormKeeps
<1>6. ASSUME NEW e \in Emails, SignUp!Type(e) PROVE SignUpInv'
  <2>1. FormTypes
    BY <1>6 DEF SignUp!Type
  <2>2. FormMoves
    <3>1. desk' = desk /\ mount' = mount /\ step' = 1 /\ type' = type
      BY <1>6 DEF SignUp!Type
    <3>2. desk = "modal" => type = "REGULAR"
      OBVIOUS
    <3> QED BY ONLY <3>1, <3>2 DEF FormMoves
  <2>3. CallsRunOn
    BY <1>6 DEF SignUp!Type
  <2> QED BY <2>1, <2>2, <2>3, FormKeeps
<1>7. ASSUME NEW s \in Spots, SignUp!Pick(s) PROVE SignUpInv'
  <2>1. FormTypes /\ FormMoves /\ CallsRunOn
    BY <1>7 DEF SignUp!Pick
  <2> QED BY <2>1, FormKeeps
<1>8. ASSUME NEW s \in Spots, SignUp!Located(s) PROVE SignUpInv'
  <2> USE <1>8 DEF SignUp!Located
  <2>1. FormTypes
    <3>1. asksLocation' \in BOOLEAN /\ excuse' \in BOOLEAN
      OBVIOUS
    <3>2. locating' \in 0..MAX_LOCATING
      BY ONLY LocatingFacts, SignUpInv, <1>8 DEF SignUp!Located
    <3> QED BY <3>1, <3>2
  <2>2. FormMoves
    OBVIOUS
  <2>3. CallsRunOn
    OBVIOUS
  <2> QED BY <2>1, <2>2, <2>3, FormKeeps
<1> QED BY <1>1, <1>2, <1>3, <1>4, <1>5, <1>6, <1>7, <1>8 DEF FormStep

FormStays == UNCHANGED <<desk, mount, type, step, typed, account, pin, asksLocation, locating>>

\* What the calls and the accounts have to keep to while nobody touches the form.
LEMMA CallKeeps ==
  ASSUME SignUpInv, FormStays, excuse' \in BOOLEAN, me' \in SignUp!Account \cup {None},
         signUps' \in [SignUps -> {SignUp!Idle} \cup SignUpCall],
         accounts' \subseteq SignUp!Account,
         \A a, b \in accounts' : a.email = b.email => a = b,
         desk = "closed" => accounts' = {} /\ SignUp!Running' = {},
         desk = "modal" => /\ \A c \in SignUp!Running' : signUps'[c].kind = "REGULAR"
                           /\ \A a \in accounts' : a.type = "REGULAR",
         OneSignUp'
  PROVE  SignUpInv'
<1>1. \A c \in SignUp!Running' : signUps'[c] \in SignUpCall
  BY DEF SignUp!Running, SignUp!Idle
<1>2. SignUp!TypeOK'
  <2>1. \A c \in SignUp!Running' : /\ signUps'[c].kind \in SignUp!Kinds
                                   /\ signUps'[c].email \in Emails
                                   /\ signUps'[c].stage \in {"sent", "ok", "failed"}
    BY <1>1 DEF SignUpCall
  <2>2. asksLocation' \in BOOLEAN /\ locating' \in 0..MAX_LOCATING
    BY FormFacts DEF FormStays
  <2>3. /\ desk' \in {"closed", "login", "modal", "left"} /\ mount' \in {None, "form 1", "form 2"}
        /\ type' \in SignUp!Kinds /\ step' \in {1, 2}
        /\ {typed', account'} \subseteq Emails \cup {None} /\ pin' \in Spots \cup {None}
    BY FormFacts DEF FormStays
  <2> QED BY ONLY <2>1, <2>2, <2>3, excuse' \in BOOLEAN, me' \in SignUp!Account \cup {None},
             accounts' \subseteq SignUp!Account, \A a, b \in accounts' : a.email = b.email => a = b
          DEF SignUp!TypeOK
<1>3. FormOnDisplay'
  <2>1. signUps' \in [SignUps -> {SignUp!Idle'} \cup SignUpCall']
    BY DEF SignUp!Idle, SignUpCall
  <2>2. /\ desk' \in {"closed", "left"} => mount' = None
        /\ step' = 2 => mount' # None /\ desk' = "login"
        /\ desk' = "modal" => type' = "REGULAR"
    BY FormFacts DEF FormStays
  <2> QED BY <2>1, <2>2 DEF FormOnDisplay, FormStays
<1>4. SignUp!StepsAgree' /\ SignUp!ScannersAreReviewers'
  BY FormFacts DEF SignUpInv, FormStays, SignUp!StepsAgree, SignUp!ScannersAreReviewers
<1> QED BY <1>2, <1>3, <1>4 DEF SignUpInv

LEMMA CallFacts ==
  ASSUME SignUpInv
  PROVE  /\ signUps \in [SignUps -> {SignUp!Idle} \cup SignUpCall]
         /\ \A c \in SignUps : c \in SignUp!Running => signUps[c] \in SignUpCall
         /\ \A c \in SignUps : c \notin SignUp!Running => signUps[c] = SignUp!Idle
         /\ SignUp!Running \subseteq SignUps
         /\ accounts \subseteq SignUp!Account /\ me \in SignUp!Account \cup {None}
         /\ \A a, b \in accounts : a.email = b.email => a = b
         /\ desk = "closed" => accounts = {} /\ SignUp!Running = {}
         /\ desk = "modal" => /\ \A c \in SignUp!Running : signUps[c].kind = "REGULAR"
                              /\ \A a \in accounts : a.type = "REGULAR"
BY DEF SignUpInv, FormOnDisplay, SignUp!Running, SignUp!TypeOK, SignUp!ScannersAreReviewers

\* A sign-up that is sent from the step on display, whose button was enabled.
LEMMA SendKeeps ==
  ASSUME SignUpInv, NEW c \in SignUps, NEW k \in SignUp!Kinds, NEW e \in Emails,
         SignUp!Send(c, k, e), ~SignUp!Submitting(k),
         mount # None, step = 2 <=> k = "BUSINESS", desk = "modal" => k = "REGULAR",
         FormStays, UNCHANGED <<accounts, me, excuse>>
  PROVE  SignUpInv'
<1> DEFINE call == [kind |-> k, email |-> e, from |-> mount, stage |-> "sent"]
<1>1. call \in SignUpCall /\ call # SignUp!Idle
  <2>1. call.stage # SignUp!Idle.stage
    BY DEF SignUp!Idle
  <2> QED BY <2>1, FormFacts DEF SignUpCall
<1>2. /\ signUps' = [signUps EXCEPT ![c] = call] /\ signUps[c] = SignUp!Idle
      /\ signUps' \in [SignUps -> {SignUp!Idle} \cup SignUpCall]
      /\ signUps'[c] = call /\ \A d \in SignUps \ {c} : signUps'[d] = signUps[d]
  BY <1>1, CallFacts DEF SignUp!Send
<1>3. /\ SignUp!Running' = SignUp!Running \cup {c} /\ c \notin SignUp!Running
      /\ call.kind = k /\ call.from = mount /\ call.stage = "sent"
  <2> HIDE DEF call
  <2>1. SignUp!Running' = SignUp!Running \cup {c} /\ c \notin SignUp!Running
    BY <1>1, <1>2 DEF SignUp!Running, SignUp!Idle
  <2> QED BY <2>1 DEF call
<1>4. excuse \/ SignUp!Running = {}
  <2> SUFFICES ASSUME ~excuse, NEW d \in SignUp!Running PROVE FALSE
    OBVIOUS
  <2>1. signUps[d].kind = k /\ signUps[d].from = mount
    BY RunningFacts, FormFacts
  <2> QED BY <2>1 DEF SignUp!Submitting
<1>5. excuse \/ accounts = {}
  BY <1>4, FormFacts DEF SignUpInv, OneSignUp
<1> HIDE DEF call
<1>6. OneSignUp'
  BY <1>2, <1>3, <1>4, <1>5 DEF OneSignUp, FormStays
<1>7. excuse' \in BOOLEAN
  BY FormFacts
<1>8. desk # "closed"
  BY FormFacts
<1>9. desk = "modal" => \A d \in SignUp!Running' : signUps'[d].kind = "REGULAR"
  BY <1>2, <1>3, CallFacts
<1> QED BY <1>2, <1>6, <1>7, <1>8, <1>9, CallFacts, CallKeeps

\* The server's answer, or its loss: the call runs on.
Moved(c, st) ==
  /\ c \in SignUp!Running /\ SignUp!Running' = SignUp!Running
  /\ signUps' \in [SignUps -> {SignUp!Idle} \cup SignUpCall]
  /\ signUps'[c].stage = st
  /\ \A d \in SignUp!Running :
       /\ signUps'[d].kind = signUps[d].kind /\ signUps'[d].from = signUps[d].from
       /\ d # c => signUps'[d] = signUps[d]
  /\ signUps[c].email \in Emails /\ signUps[c].kind \in SignUp!Kinds

LEMMA StageMoves ==
  ASSUME SignUpInv, NEW c \in SignUps, signUps[c].stage \in {"sent", "ok", "failed"},
         NEW st \in {"ok", "failed"}, signUps' = [signUps EXCEPT ![c].stage = st]
  PROVE  Moved(c, st)
<1>1. c \in SignUp!Running /\ signUps[c] \in SignUpCall
  BY CallFacts DEF SignUp!Idle
<1>2. /\ signUps'[c] = [signUps[c] EXCEPT !.stage = st]
      /\ \A d \in SignUps \ {c} : signUps'[d] = signUps[d]
  BY CallFacts
<1>3. /\ signUps'[c] \in SignUpCall /\ signUps'[c].stage = st
      /\ signUps'[c].kind = signUps[c].kind /\ signUps'[c].from = signUps[c].from
      /\ signUps[c].email \in Emails /\ signUps[c].kind \in SignUp!Kinds
  <2> DEFINE old == signUps[c]
  <2> HIDE DEF old
  <2>1. old \in SignUpCall /\ signUps'[c] = [old EXCEPT !.stage = st]
    BY <1>1, <1>2 DEF old
  <2>2. signUps'[c] \in SignUpCall /\ signUps'[c].stage = st
    BY ONLY <2>1, st \in {"ok", "failed"} DEF SignUpCall
  <2>3. /\ signUps'[c].kind = old.kind /\ signUps'[c].from = old.from
        /\ old.email \in Emails /\ old.kind \in SignUp!Kinds
    BY ONLY <2>1 DEF SignUpCall
  <2> QED BY <2>2, <2>3 DEF old
<1>4. signUps'[c] # SignUp!Idle
  BY <1>3 DEF SignUp!Idle
<1>5. signUps' \in [SignUps -> {SignUp!Idle} \cup SignUpCall]
  BY <1>3, CallFacts
<1>6. SignUp!Running' = SignUp!Running
  BY <1>1, <1>2, <1>4 DEF SignUp!Running, SignUp!Idle
<1> QED BY <1>1, <1>2, <1>3, <1>5, <1>6, CallFacts DEF Moved

LEMMA RegisterKeeps == ASSUME SignUpInv, NEW c \in SignUps, SignUp!Register(c) PROVE SignUpInv'
<1>0. FormStays /\ UNCHANGED <<me, excuse>> /\ signUps[c].stage = "sent"
  BY DEF SignUp!Register, FormStays
<1>1. excuse' \in BOOLEAN
  BY <1>0, FormFacts
<1>2. CASE \E a \in accounts : a.email = signUps[c].email
  <2>1. accounts' = accounts /\ Moved(c, "failed")
    BY <1>0, <1>2, StageMoves DEF SignUp!Register
  <2>2. OneSignUp'
    BY <1>0, <2>1 DEF SignUpInv, OneSignUp, Moved, FormStays
  <2> QED BY <1>0, <1>1, <2>1, <2>2, CallFacts, CallKeeps DEF Moved
<1>3. CASE ~\E a \in accounts : a.email = signUps[c].email
  <2> DEFINE new == [email |-> signUps[c].email, type |-> signUps[c].kind]
  <2>1. accounts' = accounts \cup {new} /\ Moved(c, "ok")
    BY <1>0, <1>3, StageMoves DEF SignUp!Register
  <2>2. /\ new \in SignUp!Account /\ new.type = signUps[c].kind
        /\ \A a \in accounts : a.email # new.email
    BY <1>3, <2>1 DEF Moved
  <2> HIDE DEF new
  <2>3. OneSignUp'
    <3>1. excuse \/ accounts = {}
      BY <1>0, <2>1 DEF SignUpInv, OneSignUp, Moved
    <3> QED BY <1>0, <2>1, <3>1 DEF SignUpInv, OneSignUp, Moved, FormStays
  <2>4. accounts' \subseteq SignUp!Account /\ \A a, b \in accounts' : a.email = b.email => a = b
    BY <2>1, <2>2, CallFacts
  <2>5. desk = "modal" => /\ \A d \in SignUp!Running' : signUps'[d].kind = "REGULAR"
                          /\ \A a \in accounts' : a.type = "REGULAR"
    BY <2>1, <2>2, CallFacts DEF Moved
  <2>6. desk # "closed"
    BY <2>1, CallFacts DEF Moved
  <2> QED BY <1>0, <1>1, <2>1, <2>3, <2>4, <2>5, <2>6, CallFacts, CallKeeps DEF Moved
<1> QED BY <1>2, <1>3

LEMMA LoseKeeps == ASSUME SignUpInv, NEW c \in SignUps, SignUp!Lose(c) PROVE SignUpInv'
<1>1. /\ FormStays /\ UNCHANGED <<accounts, me>>
      /\ signUps[c].stage \in {"sent", "ok"} /\ signUps' = [signUps EXCEPT ![c].stage = "failed"]
  BY DEF SignUp!Lose, FormStays
<1>2. excuse' \in BOOLEAN /\ (excuse => excuse') /\ (signUps[c].stage = "ok" => excuse')
  BY DEF SignUp!Lose
<1>3. Moved(c, "failed")
  BY <1>1, StageMoves
<1>4. OneSignUp'
  BY <1>1, <1>2, <1>3 DEF SignUpInv, OneSignUp, Moved, FormStays
<1> QED BY <1>1, <1>2, <1>3, <1>4, CallFacts, CallKeeps DEF Moved

LEMMA EndFacts ==
  ASSUME SignUpInv, NEW c \in SignUps, signUps' = [signUps EXCEPT ![c] = SignUp!Idle]
  PROVE  /\ signUps' \in [SignUps -> {SignUp!Idle} \cup SignUpCall]
         /\ SignUp!Running' = SignUp!Running \ {c}
         /\ \A d \in SignUp!Running \ {c} : signUps'[d] = signUps[d]
BY DEF SignUpInv, FormOnDisplay, SignUp!Running, SignUp!Idle

LEMMA SignedUpKeeps == ASSUME SignUpInv, NEW c \in SignUps, SignUp!SignedUp(c) PROVE SignUpInv'
<1>1. /\ signUps[c].stage = "ok" /\ signUps' = [signUps EXCEPT ![c] = SignUp!Idle]
      /\ me' = [email |-> signUps[c].email, type |-> signUps[c].kind]
      /\ desk' = "left" /\ mount' = None /\ type' = "REGULAR" /\ step' = 1
      /\ typed' = None /\ account' = None /\ pin' = None
      /\ UNCHANGED <<accounts, excuse>>
  BY DEF SignUp!SignedUp
<1>2. asksLocation' = FALSE /\ locating' = 0
  BY DEF SignUp!SignedUp
<1>3. c \in SignUp!Running
  BY <1>1 DEF SignUp!Running, SignUp!Idle
<1>4. SignUp!TypeOK'
  <2>1. me' \in SignUp!Account
    BY <1>1, <1>3 DEF SignUpInv, SignUp!TypeOK
  <2>2. asksLocation' \in BOOLEAN /\ locating' \in 0..MAX_LOCATING
    BY <1>2, LocatingFacts
  <2> QED BY <1>1, <2>1, <2>2, EndFacts DEF SignUpInv, SignUp!TypeOK
<1>5. FormOnDisplay'
  <2>1. signUps' \in [SignUps -> {SignUp!Idle'} \cup SignUpCall']
    BY <1>1, EndFacts DEF SignUpCall, SignUp!Idle
  <2> QED BY <1>1, <2>1 DEF FormOnDisplay
<1>6. SignUp!StepsAgree' /\ SignUp!ScannersAreReviewers'
  BY <1>1 DEF SignUp!StepsAgree, SignUp!ScannersAreReviewers
<1>7. OneSignUp'
  <2>1. SignUp!Running' = SignUp!Running \ {c}
    BY <1>1, EndFacts
  <2>2. ~excuse => /\ SignUp!Running = {c}
                   /\ \A a, b \in accounts : a = b
    BY <1>3 DEF SignUpInv, OneSignUp
  <2> QED BY <1>1, <2>1, <2>2 DEF OneSignUp
<1> QED BY <1>4, <1>5, <1>6, <1>7 DEF SignUpInv

LEMMA SignUpFailedKeeps ==
  ASSUME SignUpInv, NEW c \in SignUps, SignUp!SignUpFailed(c) PROVE SignUpInv'
<1>1. /\ FormStays /\ UNCHANGED <<accounts, me, excuse>>
      /\ signUps[c].stage = "failed" /\ signUps' = [signUps EXCEPT ![c] = SignUp!Idle]
  BY DEF SignUp!SignUpFailed, FormStays
<1>2. c \in SignUp!Running
  BY <1>1 DEF SignUp!Running, SignUp!Idle
<1>3. /\ signUps' \in [SignUps -> {SignUp!Idle} \cup SignUpCall]
      /\ SignUp!Running' = SignUp!Running \ {c}
      /\ \A d \in SignUp!Running \ {c} : signUps'[d] = signUps[d]
  BY <1>1, EndFacts
<1>4. OneSignUp'
  BY <1>1, <1>2, <1>3 DEF SignUpInv, OneSignUp, FormStays
<1>5. excuse' \in BOOLEAN
  BY <1>1, FormFacts
<1> QED BY <1>1, <1>3, <1>4, <1>5, CallFacts, CallKeeps

LEMMA SignUpKeeps == SignUpInv /\ [SignUp!Next]_(SignUp!vars) => SignUpInv'
<1> SUFFICES ASSUME SignUpInv, [SignUp!Next]_(SignUp!vars) PROVE SignUpInv'
  OBVIOUS
<1>1. CASE FormStep
  BY <1>1, FormSteps
<1>2. ASSUME NEW c \in SignUps, SignUp!SignUp(c) PROVE SignUpInv'
  <2>1. typed \in Emails /\ SignUp!Send(c, "REGULAR", typed) /\ ~SignUp!Submitting("REGULAR")
    BY <1>2, FormFacts DEF SignUp!SignUp
  <2>2. FormStays /\ UNCHANGED <<accounts, me, excuse>>
    BY <1>2 DEF SignUp!SignUp, FormStays
  <2> QED BY <1>2, <2>1, <2>2, SendKeeps DEF SignUp!SignUp
<1>3. ASSUME NEW c \in SignUps, SignUp!SignUpBusiness(c) PROVE SignUpInv'
  <2>1. /\ account \in Emails /\ SignUp!Send(c, "BUSINESS", account)
        /\ ~SignUp!Submitting("BUSINESS") /\ mount # None /\ desk = "login" /\ step = 2
    BY <1>3, FormFacts DEF SignUp!SignUpBusiness
  <2>2. FormStays /\ UNCHANGED <<accounts, me, excuse>>
    BY <1>3 DEF SignUp!SignUpBusiness, FormStays
  <2> QED BY <2>1, <2>2, SendKeeps
<1>4. CASE UNCHANGED SignUp!vars
  <2>1. CallsRunOn /\ FormTypes /\ FormMoves
    BY <1>4, FormFacts DEF SignUp!vars, CallsRunOn, FormTypes, FormMoves
  <2> QED BY <2>1, FormKeeps
<1> QED
  BY <1>1, <1>2, <1>3, <1>4, RegisterKeeps, LoseKeeps, SignedUpKeeps, SignUpFailedKeeps
  DEF SignUp!Next, FormStep

-----------------------------------------------------------------------------
(* The picture galleries.                                                    *)

USE DEF Gallery!Slots, Gallery!Kinds

Upload ==
  [kind : Gallery!Kinds \cup {None}, photo : Photos \cup {None},
   step : {"idle", "sign", "store", "attach", "insert"}, mounted : BOOLEAN]

\* The photos of the gallery that is open, on the server.
Kept == Gallery!Gallery(media)

\* Without an excuse each kind of picture has one upload, whose button is on
\* display, and one that has passed the limit finds room for its row.
OneUpload ==
  ~excuse =>
    /\ \A u \in Gallery!Running : uploads[u].mounted
    /\ \A u, v \in Gallery!Running : uploads[u].kind = uploads[v].kind => u = v
    /\ \A u \in Gallery!Running :
         uploads[u].kind = "PHOTO" /\ uploads[u].step = "insert" => Cardinality(Kept) < MAX_PHOTOS

GalleryInv ==
  /\ uploads \in [Uploads -> Upload]
  /\ picked \subseteq Photos
  /\ owner = "closed" => media = {} /\ Gallery!Running = {}
  /\ OneUpload /\ Gallery!LimitHolds

LEMMA SameCardinality ==
  \A S : Gallery!Cardinality(S) = Cardinality(S) /\ SignUp!Cardinality(S) = Cardinality(S)
<1>1. \A S : Gallery!Cardinality(S) = Cardinality(S)
  BY Zenon DEF Cardinality, Gallery!Cardinality
<1>2. \A S : SignUp!Cardinality(S) = Cardinality(S)
  BY Zenon DEF Cardinality, SignUp!Cardinality
<1> QED BY <1>1, <1>2

LEMMA LimitIs == Gallery!LimitHolds <=> (~excuse => Cardinality(Kept) <= MAX_PHOTOS)
BY SameCardinality DEF Gallery!LimitHolds, Kept

LEMMA KeptIsFinite == ASSUME NEW rows_ PROVE IsFiniteSet(Gallery!Gallery(rows_))
BY ScreensType, FS_Subset DEF Gallery!Gallery

LEMMA LimitIsNumber ==
  MAX_PHOTOS \in Nat /\ Cardinality(Photos) \in Nat /\ MAX_PHOTOS <= Cardinality(Photos)
BY ScreensType, FS_CardinalityType

LEMMA LargerGallery ==
  ASSUME NEW old, NEW new, NEW p, Gallery!Gallery(new) \subseteq Gallery!Gallery(old) \cup {p}
  PROVE  /\ Cardinality(Gallery!Gallery(new)) <= Cardinality(Gallery!Gallery(old)) + 1
         /\ Cardinality(Gallery!Gallery(new)) \in Nat /\ Cardinality(Gallery!Gallery(old)) \in Nat
<1> DEFINE G == Gallery!Gallery(old)
           H == Gallery!Gallery(new)
<1>1. IsFiniteSet(G) /\ IsFiniteSet(H)
  BY KeptIsFinite
<1> HIDE DEF G, H
<1>2. IsFiniteSet(G \cup {p}) /\ Cardinality(G \cup {p}) <= Cardinality(G) + 1
  <2>1. Cardinality(G) \in Nat
    BY <1>1, FS_CardinalityType
  <2>2. /\ IsFiniteSet(G \cup {p})
        /\ Cardinality(G \cup {p}) = IF p \in G THEN Cardinality(G) ELSE Cardinality(G) + 1
    BY <1>1, FS_AddElement
  <2> QED BY ONLY <2>1, <2>2
<1>3. H \subseteq G \cup {p}
  BY DEF G, H
<1>4. Cardinality(H) <= Cardinality(G \cup {p})
  BY <1>2, <1>3, FS_Subset
<1>5. Cardinality(H) \in Nat /\ Cardinality(G) \in Nat /\ Cardinality(G \cup {p}) \in Nat
  BY <1>1, <1>2, FS_CardinalityType
<1>6. Cardinality(H) <= Cardinality(G) + 1
  BY <1>2, <1>4, <1>5
<1> QED BY <1>5, <1>6 DEF G, H

LEMMA SmallerGallery ==
  ASSUME NEW old, NEW new, Gallery!Gallery(new) \subseteq Gallery!Gallery(old)
  PROVE  /\ Cardinality(Gallery!Gallery(new)) <= Cardinality(Gallery!Gallery(old))
         /\ Cardinality(Gallery!Gallery(new)) \in Nat /\ Cardinality(Gallery!Gallery(old)) \in Nat
BY KeptIsFinite, FS_Subset, FS_CardinalityType

\* A finite set has a subset of every smaller size.
LEMMA SubsetOfSize ==
  ASSUME NEW S, IsFiniteSet(S), NEW n \in 0..Cardinality(S)
  PROVE  \E T \in SUBSET S : Cardinality(T) = n
<1>1. Cardinality(S) \in Nat /\ ExistsBijection(1..Cardinality(S), S)
  BY FS_CardinalityType
<1>2. PICK f \in Bijection(1..Cardinality(S), S) : TRUE
  BY <1>1 DEF ExistsBijection
<1>3. n \in Nat /\ 1..n \subseteq 1..Cardinality(S)
  BY <1>1
<1> DEFINE T == {f[i] : i \in 1..n}
           g == [i \in 1..n |-> f[i]]
<1>4. g \in Bijection(1..n, T)
  <2>1. f \in [1..Cardinality(S) -> S] /\ \A i, j \in 1..Cardinality(S) : f[i] = f[j] => i = j
    BY <1>2 DEF Bijection, Injection, IsInjective
  <2>2. g \in Injection(1..n, T)
    BY <1>3, <2>1 DEF Injection, IsInjective
  <2>3. g \in Surjection(1..n, T)
    BY DEF Surjection
  <2> QED BY <2>2, <2>3 DEF Bijection
<1>5. ExistsBijection(1..n, T)
  BY <1>4 DEF ExistsBijection
<1>6. Cardinality(T) = n
  BY <1>3, <1>5, FS_CountingElements
<1>7. T \in SUBSET S
  BY <1>2, <1>3 DEF Bijection, Injection
<1> QED BY <1>6, <1>7

LEMMA GalleryInitially == Gallery!Init => GalleryInv
<1> SUFFICES ASSUME Gallery!Init PROVE GalleryInv
  OBVIOUS
<1>1. Gallery!Running = {}
  BY DEF Gallery!Init, Gallery!Running
<1>2. Kept = {}
  BY DEF Gallery!Init, Gallery!Gallery, Kept
<1>3. Gallery!LimitHolds
  <2>1. Cardinality(Kept) = 0
    BY <1>2, FS_EmptySet
  <2> QED BY <2>1, LimitIs, LimitIsNumber
<1>4. Gallery!Idle \in Upload
  BY DEF Gallery!Idle, Upload
<1> QED BY <1>1, <1>3, <1>4 DEF Gallery!Init, GalleryInv, OneUpload

\* Steps that add no row and touch no upload, and lose no excuse.
LEMMA RowsKeep ==
  ASSUME GalleryInv, UNCHANGED <<owner, uploads>>, picked' \subseteq Photos,
         excuse => excuse', owner = "closed" => media' = {},
         ~excuse' => media' \subseteq media
  PROVE  GalleryInv'
<1>1. Gallery!Running' = Gallery!Running
  BY DEF Gallery!Running, Gallery!Idle
<1>2. ~excuse' => Cardinality(Kept') <= Cardinality(Kept) /\ Cardinality(Kept') \in Nat
                   /\ Cardinality(Kept) \in Nat
  BY SmallerGallery DEF Kept, Gallery!Gallery
<1>3. OneUpload'
  BY <1>1, <1>2, LimitIsNumber DEF GalleryInv, OneUpload
<1>4. Gallery!LimitHolds'
  <2>1. ~excuse' => Cardinality(Kept) <= MAX_PHOTOS
    BY LimitIs DEF GalleryInv
  <2>2. ~excuse' => Cardinality(Kept') <= MAX_PHOTOS
    BY <1>2, <2>1, LimitIsNumber
  <2>3. (Gallery!LimitHolds <=> (~excuse => Cardinality(Kept) <= MAX_PHOTOS))'
    BY LimitIs, PTL
  <2> QED BY <2>2, <2>3
<1>5. uploads' \in [Uploads -> Upload']
  BY DEF GalleryInv, Upload
<1> QED BY <1>1, <1>3, <1>4, <1>5 DEF GalleryInv

\* Steps of one upload that leave the rows alone.
LEMMA UploadMoves ==
  ASSUME GalleryInv, NEW u \in Uploads, NEW new \in Upload,
         uploads' = [uploads EXCEPT ![u] = new],
         UNCHANGED <<owner, media, excuse>>, picked' \subseteq Photos, owner # "closed",
         new = Gallery!Idle \/ (new.mounted /\ new.step # "idle") \/ excuse,
         \A v \in Gallery!Running \ {u} :
           excuse \/ new = Gallery!Idle \/ uploads[v].kind # new.kind,
         new.kind = "PHOTO" /\ new.step = "insert" => Cardinality(Kept) < MAX_PHOTOS
  PROVE  GalleryInv'
<1>1. /\ uploads' \in [Uploads -> Upload]
      /\ uploads'[u] = new /\ \A v \in Uploads \ {u} : uploads'[v] = uploads[v]
  BY DEF GalleryInv
<1>2. \A v \in Gallery!Running' : (v = u /\ new # Gallery!Idle) \/ (v # u /\ v \in Gallery!Running)
  BY <1>1 DEF Gallery!Running, Gallery!Idle
<1>3. Kept' = Kept
  BY DEF Kept, Gallery!Gallery
<1>4. Gallery!LimitHolds'
  BY <1>3 DEF GalleryInv, Gallery!LimitHolds, Kept
<1>5. OneUpload'
  <2> SUFFICES ASSUME ~excuse PROVE OneUpload'
    BY DEF OneUpload
  <2>1. \A v \in Gallery!Running : v \in Uploads
    BY DEF Gallery!Running
  <2>2. \A v \in Gallery!Running' : uploads'[v].mounted
    BY <1>1, <1>2, <2>1 DEF GalleryInv, OneUpload
  <2>3. \A v, w \in Gallery!Running' : uploads'[v].kind = uploads'[w].kind => v = w
    BY <1>1, <1>2, <2>1 DEF GalleryInv, OneUpload
  <2>4. \A v \in Gallery!Running' :
          uploads'[v].kind = "PHOTO" /\ uploads'[v].step = "insert" => Cardinality(Kept) < MAX_PHOTOS
    BY <1>1, <1>2, <2>1 DEF GalleryInv, OneUpload
  <2> QED BY <1>3, <2>2, <2>3, <2>4 DEF OneUpload
<1>6. uploads' \in [Uploads -> Upload']
  BY <1>1 DEF Upload
<1> QED BY <1>4, <1>5, <1>6 DEF GalleryInv

LEMMA UploadFacts ==
  ASSUME GalleryInv, NEW u \in Uploads, uploads[u].step # "idle"
  PROVE  /\ uploads[u] \in Upload /\ u \in Gallery!Running /\ owner # "closed"
         /\ uploads[u].mounted \/ excuse
         /\ \A v \in Gallery!Running \ {u} : excuse \/ uploads[v].kind # uploads[u].kind
<1>1. uploads[u] \in Upload /\ u \in Gallery!Running
  BY DEF GalleryInv, Gallery!Running, Gallery!Idle
<1> QED BY <1>1 DEF GalleryInv, OneUpload

LEMMA StepKeeps ==
  ASSUME GalleryInv, NEW u \in Uploads, uploads[u].step # "idle",
         NEW next \in {"store", "attach", "insert"}, uploads' = [uploads EXCEPT ![u].step = next],
         UNCHANGED <<owner, media, excuse, picked>>,
         next = "insert" => Gallery!Room(u)
  PROVE  GalleryInv'
<1> DEFINE old == uploads[u]
           new == [old EXCEPT !.step = next]
<1>1. uploads' = [uploads EXCEPT ![u] = new]
  BY DEF GalleryInv
<1>2. old \in Upload /\ owner # "closed" /\ (old.mounted \/ excuse)
  BY UploadFacts
<1>3. new \in Upload /\ new.kind = old.kind /\ new.mounted = old.mounted /\ new.step = next
  <2> HIDE DEF old
  <2> QED BY <1>2 DEF Upload
<1>4. \A v \in Gallery!Running \ {u} : excuse \/ uploads[v].kind # old.kind
  BY UploadFacts
<1>5. new.kind = "PHOTO" /\ new.step = "insert" => Cardinality(Kept) < MAX_PHOTOS
  BY <1>3, SameCardinality DEF Gallery!Room, Kept
<1>6. picked' \subseteq Photos
  BY DEF GalleryInv
<1> HIDE DEF old, new
<1>7. /\ new = Gallery!Idle \/ (new.mounted /\ new.step # "idle") \/ excuse
      /\ \A v \in Gallery!Running \ {u} :
           excuse \/ new = Gallery!Idle \/ uploads[v].kind # new.kind
  BY <1>2, <1>3, <1>4
<1> QED BY <1>1, <1>2, <1>3, <1>5, <1>6, <1>7, UploadMoves

LEMMA FileIsNew ==
  ASSUME GalleryInv, picked # Photos
  PROVE  Gallery!NewFile \in Photos \ picked
BY DEF GalleryInv, Gallery!NewFile

LEMMA OpenKeeps ==
  ASSUME GalleryInv, NEW o \in {"PLACE", "REVIEW", "USER"}, Gallery!Open(o) PROVE GalleryInv'
<1>1. PICK n \in IF o = "USER" THEN {0} ELSE 0..MAX_PHOTOS :
        LET ps == CHOOSE ps \in SUBSET Photos : Cardinality(ps) = n
        IN  media' = {"PHOTO"} \X ps /\ picked' = ps
  BY SameCardinality DEF Gallery!Open
<1> DEFINE ps == CHOOSE ps \in SUBSET Photos : Cardinality(ps) = n
<1>2. ps \in SUBSET Photos /\ Cardinality(ps) = n
  <2>1. n \in 0..MAX_PHOTOS /\ n \in 0..Cardinality(Photos)
    BY ONLY LimitIsNumber, n \in IF o = "USER" THEN {0} ELSE 0..MAX_PHOTOS
  <2> QED BY <2>1, SubsetOfSize, ScreensType
<1>3. media' = {"PHOTO"} \X ps /\ picked' = ps
  BY <1>1
<1> HIDE DEF ps
<1>4. Kept' = ps
  BY <1>2, <1>3 DEF Kept, Gallery!Gallery
<1>5. Gallery!LimitHolds'
  <2>1. (Gallery!LimitHolds <=> (~excuse => Cardinality(Kept) <= MAX_PHOTOS))'
    BY LimitIs, PTL
  <2>2. Cardinality(Kept') <= MAX_PHOTOS
    BY <1>2, <1>4, LimitIsNumber
  <2> QED BY <2>1, <2>2
<1>6. owner = "closed" /\ owner' = o /\ uploads' = uploads /\ excuse' = excuse
  BY DEF Gallery!Open
<1>7. Gallery!Running' = {}
  BY <1>6 DEF GalleryInv, Gallery!Running, Gallery!Idle
<1>8. uploads' \in [Uploads -> Upload']
  BY <1>6 DEF GalleryInv, Upload
<1> QED BY <1>2, <1>3, <1>5, <1>6, <1>7, <1>8 DEF GalleryInv, OneUpload

LEMMA LeaveKeeps == ASSUME GalleryInv, Gallery!Leave PROVE GalleryInv'
<1>1. /\ uploads' = [u \in Uploads |-> [uploads[u] EXCEPT !.mounted = FALSE]]
      /\ UNCHANGED <<owner, media, picked>>
  BY DEF Gallery!Leave
<1>2. (excuse => excuse') /\ (Gallery!Running = {} \/ excuse')
  BY DEF Gallery!Leave
<1>3. \A u \in Uploads : uploads[u] = Gallery!Idle => uploads'[u] = Gallery!Idle
  <2>1. [Gallery!Idle EXCEPT !.mounted = FALSE] = Gallery!Idle
    <3> DEFINE new == [Gallery!Idle EXCEPT !.mounted = FALSE]
    <3>1. \A r, s \in Upload :
            r.kind = s.kind /\ r.photo = s.photo /\ r.step = s.step /\ r.mounted = s.mounted => r = s
      BY DEF Upload
    <3>2. Gallery!Idle \in Upload /\ Gallery!Idle.mounted = FALSE
      BY DEF Gallery!Idle, Upload
    <3>3. /\ new \in Upload /\ new.kind = Gallery!Idle.kind /\ new.photo = Gallery!Idle.photo
          /\ new.step = Gallery!Idle.step /\ new.mounted = FALSE
      BY <3>2 DEF Upload
    <3> HIDE DEF new
    <3>4. new = Gallery!Idle
      BY <3>1, <3>2, <3>3
    <3> QED BY <3>4 DEF new
  <2> QED BY <1>1, <2>1
<1>4. Gallery!Running' \subseteq Gallery!Running
  BY <1>3 DEF Gallery!Running, Gallery!Idle
<1>5. uploads' \in [Uploads -> Upload']
  <2> SUFFICES ASSUME NEW u \in Uploads PROVE [uploads[u] EXCEPT !.mounted = FALSE] \in Upload
    BY <1>1 DEF Upload
  <2>1. uploads[u] \in Upload
    BY DEF GalleryInv
  <2> QED BY <2>1 DEF Upload
<1>6. OneUpload'
  BY <1>2, <1>4 DEF OneUpload
<1>7. Gallery!LimitHolds'
  <2>1. (Gallery!LimitHolds <=> (~excuse => Cardinality(Kept) <= MAX_PHOTOS))'
    BY LimitIs, PTL
  <2>2. Kept' = Kept
    BY <1>1 DEF Kept, Gallery!Gallery
  <2> QED BY <1>2, <2>1, <2>2, LimitIs DEF GalleryInv
<1> QED BY <1>1, <1>4, <1>5, <1>6, <1>7 DEF GalleryInv

LEMMA PickFileKeeps ==
  ASSUME GalleryInv, NEW u \in Uploads, NEW k \in Gallery!Hooks, Gallery!PickFile(u, k)
  PROVE  GalleryInv'
<1> DEFINE new == [kind |-> k, photo |-> Gallery!NewFile, step |-> "sign", mounted |-> TRUE]
<1>1. k \in Gallery!Kinds /\ owner # "closed"
  BY DEF Gallery!Hooks
<1>2. /\ Gallery!NewFile \in Photos /\ uploads' = [uploads EXCEPT ![u] = new]
      /\ UNCHANGED <<owner, media, excuse>> /\ picked' \subseteq Photos
      /\ ~Gallery!Uploading(k)
  BY FileIsNew DEF Gallery!PickFile, GalleryInv
<1>3. new \in Upload /\ new.mounted /\ new.step = "sign" /\ new.kind = k
  BY <1>1, <1>2 DEF Upload
<1>4. \A v \in Gallery!Running : excuse \/ uploads[v].kind # k
  BY <1>2 DEF Gallery!Uploading, GalleryInv, OneUpload, Gallery!Running
<1> HIDE DEF new
<1>5. /\ new = Gallery!Idle \/ (new.mounted /\ new.step # "idle") \/ excuse
      /\ \A v \in Gallery!Running \ {u} :
           excuse \/ new = Gallery!Idle \/ uploads[v].kind # new.kind
  BY <1>3, <1>4
<1> QED BY <1>1, <1>2, <1>3, <1>5, UploadMoves

\* The row that an upload inserts: one more photo, or none in the gallery.
LEMMA InsertedRows ==
  ASSUME GalleryInv, NEW u \in Uploads, Gallery!Inserted(u)
  PROVE  /\ uploads[u].kind = "PHOTO" => Kept' \subseteq Kept \cup {uploads[u].photo}
         /\ uploads[u].kind # "PHOTO" => Kept' \subseteq Kept
BY DEF Gallery!Inserted, Kept, Gallery!Gallery

LEMMA AttachedKeeps == ASSUME GalleryInv, NEW u \in Uploads, Gallery!Attached(u) PROVE GalleryInv'
<1>1. /\ uploads[u].step = "insert" /\ uploads' = [uploads EXCEPT ![u] = Gallery!Idle]
      /\ UNCHANGED <<owner, excuse, picked>> /\ Gallery!Inserted(u)
  BY DEF Gallery!Attached
<1>2. /\ u \in Gallery!Running /\ owner # "closed"
      /\ \A v \in Gallery!Running \ {u} : excuse \/ uploads[v].kind # uploads[u].kind
  BY <1>1, UploadFacts
<1>3. /\ uploads' \in [Uploads -> Upload] /\ \A v \in Uploads \ {u} : uploads'[v] = uploads[v]
      /\ Gallery!Running' = Gallery!Running \ {u}
  <2>1. Gallery!Idle \in Upload
    BY DEF Gallery!Idle, Upload
  <2> QED BY <1>1, <2>1 DEF GalleryInv, Gallery!Running, Gallery!Idle
<1>4. /\ Cardinality(Kept) \in Nat /\ Cardinality(Kept') \in Nat
      /\ Cardinality(Kept') <= Cardinality(Kept) + 1
      /\ uploads[u].kind # "PHOTO" => Cardinality(Kept') <= Cardinality(Kept)
  <2>1. Kept' \subseteq Kept \cup {uploads[u].photo}
    BY <1>1, InsertedRows
  <2>2. Kept = Gallery!Gallery(media) /\ Kept' = Gallery!Gallery(media')
    BY DEF Kept, Gallery!Gallery
  <2>3. uploads[u].kind # "PHOTO" => Kept' \subseteq Kept
    BY <1>1, InsertedRows
  <2> QED BY <2>1, <2>2, <2>3, LargerGallery, SmallerGallery
<1>5. Gallery!LimitHolds'
  <2>1. (Gallery!LimitHolds <=> (~excuse => Cardinality(Kept) <= MAX_PHOTOS))'
    BY LimitIs, PTL
  <2>2. ~excuse => /\ Cardinality(Kept) <= MAX_PHOTOS
                   /\ uploads[u].kind = "PHOTO" => Cardinality(Kept) < MAX_PHOTOS
    BY <1>1, <1>2, LimitIs DEF GalleryInv, OneUpload
  <2>3. ~excuse => Cardinality(Kept') <= MAX_PHOTOS
    BY <1>4, <2>2, LimitIsNumber
  <2> QED BY <1>1, <2>1, <2>3
<1>6. OneUpload'
  <2> SUFFICES ASSUME ~excuse PROVE OneUpload'
    BY <1>1 DEF OneUpload
  <2>1. \A v \in Gallery!Running' : /\ v \in Gallery!Running /\ v # u /\ v \in Uploads
                                    /\ uploads'[v] = uploads[v]
    BY <1>3 DEF Gallery!Running
  <2>2. ASSUME NEW v \in Gallery!Running', uploads[v].kind = "PHOTO", uploads[v].step = "insert"
        PROVE  Cardinality(Kept') < MAX_PHOTOS
    <3>1. uploads[u].kind # "PHOTO" /\ Cardinality(Kept) < MAX_PHOTOS
      BY <1>2, <2>1, <2>2 DEF GalleryInv, OneUpload
    <3> QED BY <1>4, <3>1, LimitIsNumber
  <2> QED BY <2>1, <2>2 DEF GalleryInv, OneUpload
<1>7. uploads' \in [Uploads -> Upload']
  BY <1>3 DEF Upload
<1> QED BY <1>1, <1>2, <1>5, <1>6, <1>7 DEF GalleryInv

LEMMA UploadFailsKeeps ==
  ASSUME GalleryInv, NEW u \in Uploads, Gallery!UploadFails(u) PROVE GalleryInv'
<1>1. /\ uploads[u] # Gallery!Idle /\ uploads' = [uploads EXCEPT ![u] = Gallery!Idle]
      /\ UNCHANGED <<owner, picked>>
  BY DEF Gallery!UploadFails
<1>2. Gallery!Idle \in Upload /\ Gallery!Idle.step = "idle"
  BY DEF Gallery!Idle, Upload
<1>3. owner # "closed" /\ picked' \subseteq Photos
  BY <1>1 DEF GalleryInv, Gallery!Running
<1>4. CASE UNCHANGED <<media, excuse>>
  <2>1. Gallery!Idle.kind = "PHOTO" /\ Gallery!Idle.step = "insert" => FALSE
    BY <1>2
  <2> QED BY <1>1, <1>2, <1>3, <1>4, <2>1, UploadMoves
<1>5. CASE excuse' = TRUE
  <2>1. uploads' \in [Uploads -> Upload']
    BY <1>1, <1>2 DEF GalleryInv, Upload
  <2>2. Gallery!LimitHolds' /\ OneUpload'
    BY <1>5 DEF Gallery!LimitHolds, OneUpload
  <2> QED BY <1>1, <1>3, <2>1, <2>2 DEF GalleryInv
<1> QED BY <1>4, <1>5 DEF Gallery!UploadFails

LEMMA GalleryKeeps == GalleryInv /\ [Gallery!Next]_(Gallery!vars) => GalleryInv'
<1> SUFFICES ASSUME GalleryInv, [Gallery!Next]_(Gallery!vars) PROVE GalleryInv'
  OBVIOUS
<1>0. picked \subseteq Photos
  BY DEF GalleryInv
<1>1. CASE Gallery!Return \/ Gallery!ReadRows \/ Gallery!ShowRows \/ UNCHANGED Gallery!vars
  <2>1. UNCHANGED <<owner, uploads, media, picked, excuse>>
    BY <1>1 DEF Gallery!Return, Gallery!ReadRows, Gallery!ShowRows, Gallery!vars
  <2> QED BY <1>0, <2>1, RowsKeep DEF GalleryInv
<1>2. CASE Gallery!FetchFails
  BY <1>0, <1>2, RowsKeep DEF Gallery!FetchFails, GalleryInv
<1>3. CASE Gallery!Elsewhere
  <2>1. owner # "closed" /\ UNCHANGED <<owner, uploads>> /\ excuse'
    BY <1>3 DEF Gallery!Elsewhere
  <2>2. picked' \subseteq Photos
    BY <1>0, <1>3, FileIsNew DEF Gallery!Elsewhere
  <2> QED BY <2>1, <2>2, RowsKeep
<1>4. ASSUME NEW p \in Photos, Gallery!Remove(p) \/ Gallery!RemoveFails(p) PROVE GalleryInv'
  <2>1. UNCHANGED <<owner, uploads, media, picked, excuse>>
    BY <1>4 DEF Gallery!Remove, Gallery!RemoveFails
  <2> QED BY <1>0, <2>1, RowsKeep DEF GalleryInv
<1>5. ASSUME NEW p \in Photos, Gallery!Removed(p) PROVE GalleryInv'
  <2>1. UNCHANGED <<owner, uploads, picked>> /\ media' \subseteq media
    BY <1>5 DEF Gallery!Removed
  <2>2. excuse => excuse'
    BY <1>5 DEF Gallery!Removed
  <2> QED BY <1>0, <2>1, <2>2, RowsKeep DEF GalleryInv
<1>6. ASSUME NEW u \in Uploads, Gallery!Signed(u) \/ Gallery!Stored(u) \/ Gallery!CheckCap(u)
      PROVE  GalleryInv'
  <2>1. UNCHANGED <<owner, media, excuse, picked>> /\ uploads[u].step # "idle"
    BY <1>6 DEF Gallery!Signed, Gallery!Stored, Gallery!CheckCap
  <2> QED BY <1>6, <2>1, StepKeeps DEF Gallery!Signed, Gallery!Stored, Gallery!CheckCap
<1> QED
  BY <1>1, <1>2, <1>3, <1>4, <1>5, <1>6, OpenKeeps, LeaveKeeps, PickFileKeeps, AttachedKeeps,
     UploadFailsKeeps
  DEF Gallery!Next

-----------------------------------------------------------------------------
(* The shell, its redirects and the browser's history.                       *)

USE DEF Layout!ReviewerPages, Layout!OwnerPages, Layout!Shared, Layout!AppPaths, Layout!Paths,
        Layout!ReviewerOnly

\* What the shell's effects remember is true of who is signed in and of the page
\* on display; an owner whom they have met on a reviewer's page is elsewhere.
EffectsRemember ==
  /\ shell = "closed" \/ initializing => user = Nobody /\ seen = <<>>
  /\ shell = "closed" => ~initializing
  /\ seen # <<>> => /\ user # Nobody /\ seen[1] = user /\ Layout!path \in Layout!AppPaths
                    /\ user \in Owners /\ seen[2] \in Layout!ReviewerOnly =>
                         Layout!path # seen[2]
  /\ menu # <<>> => seen # <<>> /\ menu = <<seen[2]>>
  /\ went # 0 => at = went

LayoutInv == Layout!TypeOK /\ EffectsRemember

LEMMA LayoutInitially == Layout!Init => LayoutInv
<1> SUFFICES ASSUME Layout!Init PROVE LayoutInv
  OBVIOUS
<1>1. stack \in Seq(Layout!Paths) /\ Len(stack) = 1
  BY DEF Layout!Init
<1>2. Layout!TypeOK
  <2>1. 0 \in 0..MAX_STACK /\ at \in 1..Len(stack)
    BY <1>1, ScreensType DEF Layout!Init
  <2>2. {user, token} \subseteq Users \cup {Nobody} /\ initializing \in BOOLEAN
    BY DEF Layout!Init
  <2> QED BY <1>1, <2>1, <2>2 DEF Layout!Init, Layout!TypeOK
<1>3. EffectsRemember
  BY DEF Layout!Init, EffectsRemember
<1> QED BY <1>2, <1>3 DEF LayoutInv

LEMMA LayoutFacts ==
  ASSUME LayoutInv
  PROVE  /\ stack \in Seq(Layout!Paths) /\ at \in 1..Len(stack) /\ Len(stack) \in Nat
         /\ Layout!path \in Layout!Paths /\ went \in 0..MAX_STACK
         /\ user \in Users \cup {Nobody} /\ token \in Users \cup {Nobody}
         /\ initializing \in BOOLEAN /\ shell \in {"closed", "open"}
         /\ seen = <<>> \/ seen \in Users \X Layout!AppPaths
         /\ menu = <<>> \/ menu \in {<<p>> : p \in Layout!AppPaths}
<1>1. stack \in Seq(Layout!Paths) /\ at \in 1..Len(stack)
  BY DEF LayoutInv, Layout!TypeOK
<1>2. Layout!path \in Layout!Paths
  BY <1>1, ElementOfSeq DEF Layout!path
<1> QED BY <1>1, <1>2, LenProperties DEF LayoutInv, Layout!TypeOK

LEMMA PushedStack ==
  ASSUME LayoutInv, NEW p \in Layout!Paths
  PROVE  /\ Layout!Pushed(p) \in Seq(Layout!Paths)
         /\ Len(Layout!Pushed(p)) \in 1..Len(Layout!Pushed(p))
<1>1. CASE p = Layout!path
  BY <1>1, LayoutFacts DEF Layout!Pushed
<1>2. CASE p # Layout!path
  <2> DEFINE s == SubSeq(stack, 1, at)
  <2>1. s \in Seq(Layout!Paths) /\ Len(s) = at
    BY LayoutFacts
  <2>2. Append(s, p) \in Seq(Layout!Paths) /\ Len(Append(s, p)) = at + 1
    <3> HIDE DEF s
    <3> QED BY <2>1, LayoutFacts
  <2> QED BY <1>2, <2>2, LayoutFacts DEF Layout!Pushed
<1> QED BY <1>1, <1>2

LEMMA ReplacedStack ==
  ASSUME LayoutInv, NEW p \in Layout!Paths
  PROVE  /\ Layout!Replaced(p) \in Seq(Layout!Paths) /\ Len(Layout!Replaced(p)) = Len(stack)
         /\ Layout!Replaced(p)[at] = p
BY LayoutFacts, ExceptSeq DEF Layout!Replaced

\* A move through the history with the effects at rest, or for nobody.
LEMMA GoKeeps ==
  ASSUME LayoutInv, NEW s \in Seq(Layout!Paths), NEW n \in 1..Len(s), NEW u \in Users \cup {Nobody},
         Layout!Go(s, n, u),
         u = Nobody \/ seen = <<>> \/ (u = user /\ seen = <<user, Layout!path>>),
         initializing => u = Nobody, shell = "open", shell' = shell,
         token' \in Users \cup {Nobody}, initializing' = initializing,
         went' \in 0..MAX_STACK, went' # 0 => n = went'
  PROVE  LayoutInv'
<1> DEFINE stays == u # Nobody /\ s[n] \in Layout!AppPaths
<1>1. /\ stack' = s /\ at' = n /\ user' = u
      /\ seen' = IF stays THEN seen ELSE <<>>
      /\ menu' = IF stays THEN menu ELSE <<>>
  BY DEF Layout!Go
<1>2. Layout!path' = s[n]
  BY <1>1 DEF Layout!path
<1>3. Layout!TypeOK'
  BY <1>1, LayoutFacts DEF Layout!TypeOK
<1>4. EffectsRemember'
  <2>1. seen # <<>> /\ u # Nobody => /\ seen[1] = user /\ seen[2] = Layout!path /\ u = user
                                     /\ ~(user \in Owners /\ seen[2] \in Layout!ReviewerOnly)
    BY DEF LayoutInv, EffectsRemember
  <2>2. menu # <<>> => seen # <<>> /\ menu = <<seen[2]>>
    BY DEF LayoutInv, EffectsRemember
  <2>3. initializing => user' = Nobody /\ seen' = <<>>
    BY <1>1
  <2> HIDE DEF stays
  <2>4. stays => u # Nobody /\ s[n] \in Layout!AppPaths
    BY DEF stays
  <2> QED BY <1>1, <1>2, <2>1, <2>2, <2>3, <2>4 DEF EffectsRemember
<1> QED BY <1>3, <1>4 DEF LayoutInv

\* Events find the effects at rest: they have seen who is on which page.
LEMMA EventFacts ==
  ASSUME LayoutInv, Layout!Events
  PROVE  /\ shell = "open"
         /\ seen = <<>> \/ seen = <<user, Layout!path>>
         /\ Layout!Mounted => seen = <<user, Layout!path>> /\ ~initializing /\ user # Nobody
                              /\ Layout!path \in Layout!AppPaths
         /\ initializing => user = Nobody /\ seen = <<>>
         /\ Layout!path \notin Layout!AppPaths => seen = <<>>
<1>1. shell = "open" /\ Layout!Settled
  BY DEF Layout!Events
<1>2. seen # <<>> \/ Layout!Mounted => seen = <<user, Layout!path>>
  BY <1>1 DEF Layout!Settled, Layout!Mounted
<1>3. Layout!Mounted => seen # <<>>
  BY <1>2
<1> QED BY <1>1, <1>2, <1>3 DEF LayoutInv, EffectsRemember

LEMMA PushKeeps ==
  ASSUME LayoutInv, NEW p \in Layout!Paths, NEW u \in Users \cup {Nobody}, Layout!Push(p, u),
         Layout!Events, u = Nobody \/ u = user \/ seen = <<>>,
         initializing => u = Nobody,
         token' \in Users \cup {Nobody}, UNCHANGED <<shell, initializing>>, went' = 0
  PROVE  LayoutInv'
<1> DEFINE s == Layout!Pushed(p)
<1>1. Layout!Go(s, Len(s), u) /\ s \in Seq(Layout!Paths) /\ Len(s) \in 1..Len(s)
  BY PushedStack DEF Layout!Push
<1>2. u = Nobody \/ seen = <<>> \/ (u = user /\ seen = <<user, Layout!path>>)
  BY EventFacts
<1>3. went' \in 0..MAX_STACK /\ (went' # 0 => Len(s) = went') /\ shell = "open"
  BY EventFacts, ScreensType
<1> HIDE DEF s
<1> QED BY <1>1, <1>2, <1>3, GoKeeps

LEMMA EffectsKeep == ASSUME LayoutInv, Layout!RunEffects PROVE LayoutInv'
<1>1. /\ Layout!Mounted /\ seen' = <<user, Layout!path>> /\ menu' = Layout!ClosesAt(menu)
      /\ UNCHANGED <<shell, user, token, initializing, went, at>>
  BY DEF Layout!RunEffects, Layout!BounceToDashboard
<1>2. user # Nobody /\ user \in Users /\ Layout!path \in Layout!AppPaths /\ ~initializing /\ shell # "closed"
  BY <1>1, LayoutFacts DEF Layout!Mounted, LayoutInv, EffectsRemember
<1>3. /\ stack' \in Seq(Layout!Paths) /\ Len(stack') = Len(stack)
      /\ Layout!path' = IF user \in Owners /\ Layout!path \in Layout!ReviewerOnly
                        THEN "dashboard" ELSE Layout!path
  <2>1. "dashboard" \in Layout!Paths
    OBVIOUS
  <2>2. stack' = IF user \in Owners /\ Layout!path \in Layout!ReviewerOnly
                 THEN Layout!Replaced("dashboard") ELSE stack
    BY DEF Layout!RunEffects, Layout!BounceToDashboard
  <2> QED BY <1>1, <2>1, <2>2, ReplacedStack, LayoutFacts DEF Layout!path
<1>4. menu' = <<>> \/ (menu' = menu /\ seen # <<>> /\ seen[2] = Layout!path)
  BY <1>1 DEF Layout!ClosesAt
<1>5. Layout!TypeOK'
  BY <1>1, <1>2, <1>3, <1>4, LayoutFacts DEF Layout!TypeOK
<1>6. EffectsRemember'
  BY <1>1, <1>2, <1>3, <1>4 DEF LayoutInv, EffectsRemember
<1> QED BY <1>5, <1>6 DEF LayoutInv

LEMMA LayoutKeeps == LayoutInv /\ [Layout!Next]_(Layout!vars) => LayoutInv'
<1> SUFFICES ASSUME LayoutInv, [Layout!Next]_(Layout!vars) PROVE LayoutInv'
  OBVIOUS
<1>1. CASE Layout!Open
  <2>1. Layout!TypeOK'
    BY <1>1, LayoutFacts DEF Layout!Open, Layout!TypeOK
  <2>2. EffectsRemember'
    BY <1>1 DEF Layout!Open, LayoutInv, EffectsRemember, Layout!path
  <2> QED BY <2>1, <2>2 DEF LayoutInv
<1>2. CASE Layout!Logout
  BY <1>2, PushKeeps DEF Layout!Logout
<1>3. CASE Layout!Restore
  <2>1. user = Nobody /\ seen = <<>> /\ menu = <<>>
    BY <1>3 DEF Layout!Restore, LayoutInv, EffectsRemember
  <2>2. Layout!TypeOK'
    BY <1>3, LayoutFacts DEF Layout!Restore, Layout!TypeOK
  <2>3. EffectsRemember'
    BY <1>3, <2>1 DEF Layout!Restore, LayoutInv, EffectsRemember, Layout!path
  <2> QED BY <2>2, <2>3 DEF LayoutInv
<1>4. CASE Layout!Redirect
  <2>1. /\ Layout!Go(Layout!Replaced("login"), at, Nobody) /\ shell = "open"
        /\ UNCHANGED <<shell, token, initializing, went>>
    BY <1>4 DEF Layout!Redirect
  <2>2. Layout!Replaced("login") \in Seq(Layout!Paths) /\ Len(Layout!Replaced("login")) = Len(stack)
    BY ReplacedStack
  <2>3. went # 0 => at = went
    BY DEF LayoutInv, EffectsRemember
  <2> QED BY <2>1, <2>2, <2>3, LayoutFacts, GoKeeps
<1>5. CASE Layout!OpenMenu
  <2>1. /\ Layout!Events /\ Layout!Mounted /\ menu' = <<Layout!path>>
        /\ UNCHANGED <<shell, stack, at, user, token, initializing, seen, went>>
    BY <1>5 DEF Layout!OpenMenu
  <2>2. seen = <<user, Layout!path>> /\ Layout!path \in Layout!AppPaths
    BY <2>1, EventFacts
  <2>3. Layout!TypeOK'
    BY <2>1, <2>2, LayoutFacts DEF Layout!TypeOK
  <2>4. EffectsRemember'
    BY <2>1, <2>2 DEF LayoutInv, EffectsRemember, Layout!path
  <2> QED BY <2>3, <2>4 DEF LayoutInv
<1>6. CASE Layout!CloseMenu \/ UNCHANGED Layout!vars
  <2>1. /\ menu' \in {<<>>, menu}
        /\ UNCHANGED <<shell, stack, at, user, token, initializing, seen, went>>
    BY <1>6 DEF Layout!CloseMenu, Layout!vars
  <2>2. Layout!TypeOK'
    BY <2>1, LayoutFacts DEF Layout!TypeOK
  <2>3. EffectsRemember'
    BY <2>1 DEF LayoutInv, EffectsRemember, Layout!path
  <2> QED BY <2>2, <2>3 DEF LayoutInv
<1>7. ASSUME NEW p \in Layout!Paths, Layout!Click(p) PROVE LayoutInv'
  <2>1. /\ Layout!Events /\ Layout!Push(p, user) /\ went' = 0
        /\ UNCHANGED <<shell, token, initializing>>
    BY <1>7 DEF Layout!Click
  <2>2. (initializing => user = Nobody) /\ user \in Users \cup {Nobody} /\ token \in Users \cup {Nobody}
    BY LayoutFacts DEF LayoutInv, EffectsRemember
  <2> QED BY <2>1, <2>2, PushKeeps
<1>8. ASSUME NEW p \in Layout!Paths, Layout!TypeUrl(p) PROVE LayoutInv'
  <2>1. /\ stack' = Layout!Pushed(p) /\ at' = Len(Layout!Pushed(p))
        /\ user' = Nobody /\ initializing' = (token # Nobody)
        /\ seen' = <<>> /\ menu' = <<>> /\ went' = 0 /\ shell = "open"
        /\ UNCHANGED <<shell, token>>
    BY <1>8 DEF Layout!TypeUrl, Layout!Events
  <2>2. Layout!TypeOK'
    <3>1. 0 \in 0..MAX_STACK
      BY ScreensType
    <3>2. Layout!Pushed(p) \in Seq(Layout!Paths) /\ Len(Layout!Pushed(p)) \in 1..Len(Layout!Pushed(p))
      BY PushedStack
    <3> QED BY <2>1, <3>1, <3>2, LayoutFacts DEF Layout!TypeOK
  <2>3. EffectsRemember'
    BY <2>1 DEF EffectsRemember
  <2> QED BY <2>2, <2>3 DEF LayoutInv
<1>9. ASSUME NEW n \in 1..MAX_STACK, Layout!StepTo(n) PROVE LayoutInv'
  <2>1. /\ Layout!Events /\ n \in 1..Len(stack) /\ Layout!Go(stack, n, user)
        /\ went' = IF n < at THEN n ELSE 0
        /\ UNCHANGED <<shell, token, initializing>>
    BY <1>9 DEF Layout!StepTo
  <2>2. /\ seen = <<>> \/ seen = <<user, Layout!path>>
        /\ shell = "open" /\ (initializing => user = Nobody)
    BY <2>1, EventFacts
  <2>3. went' \in 0..MAX_STACK /\ (went' # 0 => n = went')
    BY <2>1, ScreensType
  <2> QED BY <2>1, <2>2, <2>3, LayoutFacts, GoKeeps
<1>10. ASSUME NEW u \in Users, Layout!SignIn(u) PROVE LayoutInv'
  <2>1. /\ Layout!Events /\ Layout!path = "login" /\ ~initializing
        /\ token' = u /\ went' = 0 /\ UNCHANGED <<shell, initializing>>
    BY <1>10 DEF Layout!SignIn
  <2>2. PICK p \in {"dashboard", "discover"} : Layout!Push(p, u)
    BY <1>10 DEF Layout!SignIn
  <2>3. seen = <<>>
    BY <2>1, EventFacts
  <2> QED BY <2>1, <2>2, <2>3, PushKeeps
<1> QED
  BY <1>1, <1>2, <1>3, <1>4, <1>5, <1>6, <1>7, <1>8, <1>9, <1>10, EffectsKeep DEF Layout!Next

LEMMA LayoutLeads ==
  LayoutInv => /\ Layout!TypeOK /\ Layout!OwnersStayInConsole /\ Layout!BackIsNotTrapped
               /\ Layout!MenuClosesOnTheWay
<1> SUFFICES ASSUME LayoutInv
             PROVE  /\ Layout!OwnersStayInConsole /\ Layout!BackIsNotTrapped
                    /\ Layout!MenuClosesOnTheWay
  BY DEF LayoutInv
<1>1. Layout!BackIsNotTrapped
  BY DEF LayoutInv, EffectsRemember, Layout!BackIsNotTrapped
<1>2. Layout!MenuClosesOnTheWay
  <2> SUFFICES ASSUME Layout!Settled, menu # <<>> PROVE menu = <<Layout!path>>
    BY DEF Layout!MenuClosesOnTheWay
  <2>1. seen # <<>> /\ menu = <<seen[2]>>
    BY DEF LayoutInv, EffectsRemember
  <2>2. seen = <<user, Layout!path>>
    BY <2>1 DEF Layout!Settled, Layout!Mounted
  <2> QED BY <2>1, <2>2
<1>3. Layout!OwnersStayInConsole
  <2> SUFFICES ASSUME Layout!Mounted, Layout!Settled, user \in Owners
               PROVE  Layout!path \in Layout!NavItems(user) \cup Layout!Shared
    BY DEF Layout!OwnersStayInConsole
  <2>1. seen = <<user, Layout!path>>
    BY DEF Layout!Settled
  <2>2. seen # <<>> /\ seen[2] = Layout!path
    BY <2>1
  <2>3. Layout!path \in Layout!AppPaths /\ Layout!path \notin Layout!ReviewerOnly
    BY <2>2 DEF LayoutInv, EffectsRemember
  <2> QED BY <2>3 DEF Layout!NavItems
<1> QED BY <1>1, <1>2, <1>3

-----------------------------------------------------------------------------
(* The pages together.  The excuse is the variable that pages share: a page  *)
(* that is open writes it, and one that is closed has nothing to excuse.     *)

ScreensInv == SignUpInv /\ GalleryInv /\ LayoutInv

LEMMA ListExcuse == ASSUME excuse \in BOOLEAN, List!Next PROVE excuse' \in BOOLEAN
<1>1. ASSUME NEW k \in List!Kinds, List!Open(k) PROVE excuse' \in BOOLEAN
  BY <1>1 DEF List!Open, List!Load
<1>2. CASE List!Leave \/ List!Return \/ \E k \in List!AllKeys : List!SelectTab(k)
  BY <1>2 DEF List!Leave, List!Return, List!SelectTab, List!Load
<1>3. ASSUME NEW i \in Items, List!Filter(i) \/ List!StartEdit(i) \/ List!Elsewhere(i)
      PROVE  excuse' \in BOOLEAN
  BY <1>3 DEF List!Filter, List!StartEdit, List!Elsewhere
<1>4. CASE List!CancelEdit \/ List!Read \/ List!Fill \/ List!FetchFails
  BY <1>4 DEF List!CancelEdit, List!Read, List!Fill, List!FetchFails
<1>5. ASSUME NEW c \in Calls, List!Click(c) \/ List!Outdated(c) \/ List!LateAnswer(c)
      PROVE  excuse' \in BOOLEAN
  BY <1>5 DEF List!Click, List!Outdated, List!LateAnswer
<1>6. ASSUME NEW c \in Calls, List!Commit(c) \/ List!Reject(c) PROVE excuse' \in BOOLEAN
  BY <1>6 DEF List!Commit, List!Reject
<1> QED BY <1>1, <1>2, <1>3, <1>4, <1>5, <1>6 DEF List!Next

LEMMA PlaceExcuse == ASSUME excuse \in BOOLEAN, Place!Next PROVE excuse' \in BOOLEAN
<1>1. CASE Place!CheckExisting \/ Place!SignIn \/ Place!Type
  BY <1>1 DEF Place!CheckExisting, Place!SignIn, Place!Type
<1>2. CASE \/ \E e \in {"id", "token"} : Place!Arrive(e)
           \/ \E p \in PlacesShown : Place!GoTo(p)
           \/ \E s \in Sorts : Place!SelectSort(s)
  BY <1>2 DEF Place!Arrive, Place!GoTo, Place!SelectSort, Place!Load
<1>3. CASE \/ Place!OpenWriteForm \/ Place!OpenEditForm \/ Place!CancelWriteForm
           \/ Place!SaveDraft
  BY <1>3 DEF Place!OpenWriteForm, Place!OpenEditForm, Place!Opens, Place!CancelWriteForm,
              Place!SaveDraft
<1>4. CASE \/ Place!SubmitReview \/ Place!SendSucceeds \/ Place!SendFails
           \/ Place!PhotoEnds \/ Place!PhotosSettled
  BY <1>4 DEF Place!SubmitReview, Place!SendSucceeds, Place!SendFails, Place!PhotoEnds,
              Place!PhotosSettled
<1>5. CASE \/ Place!AskDelete \/ Place!CloseDialog \/ Place!ConfirmDelete
           \/ Place!ToggleHelpful
  BY <1>5 DEF Place!AskDelete, Place!CloseDialog, Place!ConfirmDelete, Place!ToggleHelpful
<1>6. CASE Place!JobSucceeds \/ Place!JobFails
  BY <1>6 DEF Place!JobSucceeds, Place!JobFails
<1>7. CASE Place!ReadList \/ Place!FillList \/ Place!ListFails
  BY <1>7 DEF Place!ReadList, Place!FillList, Place!ListFails
<1>8. CASE Place!PlaceArrives \/ Place!PlaceFails \/ Place!SubmitEnds \/ Place!JobEnds
  BY <1>8 DEF Place!PlaceArrives, Place!PlaceFails, Place!SubmitEnds, Place!JobEnds
<1> QED BY <1>1, <1>2, <1>3, <1>4, <1>5, <1>6, <1>7, <1>8 DEF Place!Next, Place!Event

LEMMA ListingExcuse == ASSUME excuse \in BOOLEAN, Listing!Next PROVE excuse' \in BOOLEAN
<1>1. CASE Listing!Open \/ Listing!ReadPlace \/ Listing!Leave \/ Listing!Return
  BY <1>1 DEF Listing!Open, Listing!ReadPlace, Listing!Leave, Listing!Return
<1>2. CASE Listing!Seed \/ Listing!Patch \/ Listing!PhotosChanged \/ Listing!Elsewhere
  BY <1>2 DEF Listing!Seed, Listing!Patch, Listing!PhotosChanged, Listing!Elsewhere
<1>3. ASSUME NEW s \in Saves,
             Listing!Save(s) \/ Listing!PlaceUpdated(s) \/ Listing!HoursSet(s)
      PROVE  excuse' \in BOOLEAN
  BY <1>3 DEF Listing!Save, Listing!PlaceUpdated, Listing!HoursSet
<1>4. ASSUME NEW s \in Saves, Listing!Reread(s) \/ Listing!SaveEnds(s) \/ Listing!SaveFails(s)
      PROVE  excuse' \in BOOLEAN
  BY <1>4 DEF Listing!Reread, Listing!SaveEnds, Listing!SaveFails
<1> QED BY <1>1, <1>2, <1>3, <1>4 DEF Listing!Next

LEMMA GalleryExcuse == ASSUME excuse \in BOOLEAN, Gallery!Next PROVE excuse' \in BOOLEAN
<1>1. CASE \/ \E o \in {"PLACE", "REVIEW", "USER"} : Gallery!Open(o)
           \/ Gallery!Leave \/ Gallery!Return
  BY <1>1 DEF Gallery!Open, Gallery!Leave, Gallery!Return
<1>2. CASE Gallery!ReadRows \/ Gallery!ShowRows \/ Gallery!FetchFails \/ Gallery!Elsewhere
  BY <1>2 DEF Gallery!ReadRows, Gallery!ShowRows, Gallery!FetchFails, Gallery!Elsewhere
<1>3. ASSUME NEW u \in Uploads, NEW k \in Gallery!Hooks, Gallery!PickFile(u, k)
      PROVE  excuse' \in BOOLEAN
  BY <1>3 DEF Gallery!PickFile
<1>4. ASSUME NEW u \in Uploads,
             \/ Gallery!Signed(u) \/ Gallery!Stored(u) \/ Gallery!CheckCap(u)
             \/ Gallery!Attached(u) \/ Gallery!UploadFails(u)
      PROVE  excuse' \in BOOLEAN
  BY <1>4 DEF Gallery!Signed, Gallery!Stored, Gallery!CheckCap, Gallery!Attached,
              Gallery!UploadFails
<1>5. ASSUME NEW p \in Photos, Gallery!Remove(p) \/ Gallery!Removed(p) \/ Gallery!RemoveFails(p)
      PROVE  excuse' \in BOOLEAN
  BY <1>5 DEF Gallery!Remove, Gallery!Removed, Gallery!RemoveFails
<1> QED BY <1>1, <1>2, <1>3, <1>4, <1>5 DEF Gallery!Next

LEMMA DashboardExcuse == ASSUME excuse \in BOOLEAN, Dashboard!Next PROVE excuse' \in BOOLEAN
<1>1. CASE \/ Dashboard!Open \/ Dashboard!NextDay
           \/ Dashboard!ReadReviews \/ Dashboard!ReadReplies \/ Dashboard!ReadList
  BY <1>1 DEF Dashboard!Open, Dashboard!NextDay, Dashboard!ReadReviews, Dashboard!ReadReplies,
              Dashboard!ReadList
<1>2. ASSUME NEW r \in Reviews,
             Dashboard!DeleteReview(r) \/ Dashboard!SubmitReply(r) \/ Dashboard!DeleteReply(r)
      PROVE  excuse' \in BOOLEAN
  BY <1>2 DEF Dashboard!DeleteReview, Dashboard!SubmitReply, Dashboard!DeleteReply,
              Dashboard!Change
<1>3. ASSUME NEW r \in Reviews, NEW n \in Ratings,
             Dashboard!WriteReview(r, n) \/ Dashboard!UpdateReview(r, n)
      PROVE  excuse' \in BOOLEAN
  BY <1>3 DEF Dashboard!WriteReview, Dashboard!UpdateReview, Dashboard!Change
<1> QED BY <1>1, <1>2, <1>3 DEF Dashboard!Next

\* A form and a gallery that are closed stay as they are, whatever another
\* page does with the excuse.
LEMMA SignUpRests ==
  ASSUME SignUpInv, desk = "closed", UNCHANGED signUpVars, excuse' \in BOOLEAN
  PROVE  SignUpInv'
<1> USE DEF signUpVars
<1>1. accounts = {} /\ SignUp!Running = {} /\ SignUp!Running' = SignUp!Running
  BY DEF SignUpInv, FormOnDisplay, SignUp!Running, SignUp!Idle
<1>2. SignUp!TypeOK'
  BY <1>1 DEF SignUpInv, SignUp!TypeOK
<1>3. FormOnDisplay'
  BY <1>1 DEF SignUpInv, FormOnDisplay, SignUpCall, SignUp!Idle
<1>4. OneSignUp'
  BY <1>1 DEF OneSignUp
<1>5. SignUp!StepsAgree' /\ SignUp!ScannersAreReviewers'
  BY DEF SignUpInv, SignUp!StepsAgree, SignUp!ScannersAreReviewers
<1> QED BY <1>2, <1>3, <1>4, <1>5 DEF SignUpInv

LEMMA GalleryRests ==
  ASSUME GalleryInv, owner = "closed", UNCHANGED galleryVars
  PROVE  GalleryInv'
<1> USE DEF galleryVars
<1>1. media' = {} /\ Gallery!Running = {} /\ Gallery!Running' = Gallery!Running
  BY DEF GalleryInv, Gallery!Running, Gallery!Idle
<1>2. Gallery!LimitHolds'
  <2>1. Kept' = {}
    BY <1>1 DEF Kept, Gallery!Gallery
  <2>2. Cardinality(Kept') = 0
    BY <2>1, FS_EmptySet
  <2>3. (Gallery!LimitHolds <=> (~excuse => Cardinality(Kept) <= MAX_PHOTOS))'
    BY LimitIs, PTL
  <2> QED BY <2>2, <2>3, LimitIsNumber
<1>3. OneUpload'
  BY <1>1 DEF OneUpload
<1>4. uploads' \in [Uploads -> Upload'] /\ picked' \subseteq Photos
  BY DEF GalleryInv, Upload
<1> QED BY <1>1, <1>2, <1>3, <1>4 DEF GalleryInv

LEMMA LayoutRests == ASSUME LayoutInv, UNCHANGED layoutVars PROVE LayoutInv'
BY LayoutKeeps DEF layoutVars, Layout!vars

LEMMA OnlyOne ==
  ASSUME NEW n \in 1..8, Only(n)
  PROVE  (n # 5 => owner = "closed") /\ (n # 7 => desk = "closed")
BY DEF Only, Pages

LEMMA ScreensInitially == ScreensInit => ScreensInv
BY SignUpInitially, GalleryInitially, LayoutInitially, ScreensType DEF ScreensInit, ScreensInv

LEMMA OtherPages ==
  ASSUME ScreensInv, NEW n \in 1..8 \ {5, 7, 8}, Only(n), excuse' \in BOOLEAN,
         UNCHANGED <<galleryVars, signUpVars, layoutVars>>
  PROVE  ScreensInv'
<1>1. owner = "closed" /\ desk = "closed"
  BY OnlyOne
<1> QED BY <1>1, SignUpRests, GalleryRests, LayoutRests DEF ScreensInv

LEMMA ScreensKeeps == ScreensInv /\ [ScreensNext]_screensVars => ScreensInv'
<1> SUFFICES ASSUME ScreensInv, [ScreensNext]_screensVars PROVE ScreensInv'
  OBVIOUS
<1>0. excuse \in BOOLEAN
  BY FormFacts DEF ScreensInv
<1>1. CASE ListStep
  BY <1>0, <1>1, ListExcuse, OtherPages DEF ListStep
<1>2. CASE LocalStep
  BY <1>0, <1>2, OtherPages DEF LocalStep
<1>3. CASE PlaceStep
  BY <1>0, <1>3, PlaceExcuse, OtherPages DEF PlaceStep
<1>4. CASE ListingStep
  BY <1>0, <1>4, ListingExcuse, OtherPages DEF ListingStep
<1>5. CASE GalleryStep
  <2>1. Gallery!Next /\ desk = "closed" /\ UNCHANGED <<signUpVars, layoutVars>>
    BY <1>5, OnlyOne DEF GalleryStep
  <2>2. SignUpInv'
    BY <1>0, <2>1, GalleryExcuse, SignUpRests DEF ScreensInv
  <2> QED BY <2>1, <2>2, GalleryKeeps, LayoutRests DEF ScreensInv
<1>6. CASE DashboardStep
  BY <1>0, <1>6, DashboardExcuse, OtherPages DEF DashboardStep
<1>7. CASE SignUpStep
  <2>1. SignUp!Next /\ owner = "closed" /\ UNCHANGED <<galleryVars, layoutVars>>
    BY <1>7, OnlyOne DEF SignUpStep
  <2> QED BY <2>1, SignUpKeeps, GalleryRests, LayoutRests DEF ScreensInv
<1>8. CASE LayoutStep
  <2>1. Layout!Next /\ owner = "closed" /\ desk = "closed"
        /\ UNCHANGED <<excuse, galleryVars, signUpVars>>
    BY <1>8, OnlyOne DEF LayoutStep
  <2> QED BY <1>0, <2>1, SignUpRests, GalleryRests, LayoutKeeps DEF ScreensInv
<1>9. CASE UNCHANGED screensVars
  <2>1. UNCHANGED SignUp!vars
    BY <1>9 DEF screensVars, signUpVars, SignUp!vars
  <2>2. UNCHANGED Gallery!vars
    BY <1>9 DEF screensVars, galleryVars, Gallery!vars
  <2>3. UNCHANGED Layout!vars
    BY <1>9 DEF screensVars, layoutVars, Layout!vars
  <2> QED BY <2>1, <2>2, <2>3, SignUpKeeps, GalleryKeeps, LayoutKeeps DEF ScreensInv
<1> QED BY <1>1, <1>2, <1>3, <1>4, <1>5, <1>6, <1>7, <1>8, <1>9 DEF ScreensNext

\* All that the proofs need to know of the three pages, in every state.
THEOREM ScreensInvariant == ScreensSpec => []ScreensInv
BY ScreensInitially, ScreensKeeps, PTL DEF ScreensSpec

-----------------------------------------------------------------------------
LEMMA OnePerson == SignUpInv => SignUp!OneAccountPerPerson
<1> SUFFICES ASSUME SignUpInv, ~excuse PROVE SignUp!Cardinality(accounts) <= 1
  BY DEF SignUp!OneAccountPerPerson
<1>1. \A a, b \in accounts : a = b
  BY DEF SignUpInv, OneSignUp
<1>2. Cardinality(accounts) <= 1
  <2>1. CASE accounts = {}
    BY <2>1, FS_EmptySet
  <2>2. ASSUME NEW a \in accounts PROVE Cardinality(accounts) <= 1
    <3>1. accounts = {a}
      BY <1>1, <2>2
    <3> QED BY <3>1, FS_Singleton
  <2> QED BY <2>1, <2>2
<1> QED BY <1>2, SameCardinality

\* Buttons that are disabled while their own handler runs keep a person from two
\* accounts and a gallery from passing its limit, if nobody goes away meanwhile,
\* no answer is lost and no other device interferes (SignUpForm.tsx,
\* useMediaUpload.ts).
THEOREM OneAtATimeHolds == ScreensSpec => []OneAtATime
<1>1. ScreensInv => OneAtATime
  BY OnePerson DEF ScreensInv, SignUpInv, GalleryInv, OneAtATime
<1> QED BY <1>1, ScreensInvariant, PTL

\* Steps and redirects lead where they should: an account is submitted as it was
\* typed last, who scanned a code becomes a reviewer, owners settle on pages of
\* their console, "back" leads back and the menu covers no other page, for every
\* history (SignUpForm.tsx, AppLayout.tsx).
THEOREM NavigationIsSound == ScreensSpec => []NavigationHolds
<1>1. ScreensInv => NavigationHolds
  BY LayoutLeads DEF ScreensInv, SignUpInv, NavigationHolds
<1> QED BY <1>1, ScreensInvariant, PTL

-----------------------------------------------------------------------------
(* The place page.                                                           *)

Targets == usedIds \cup {New}
WriteForm == [key : Targets, base : Targets, typed : BOOLEAN]
Submission ==
  [edit : Targets, at : PlacesShown, todo : 0..MAX_PHOTOS, failed : Nat, missing : Nat,
   step : {"send", "photos", "refetch"}]

\* Where the visitor is, and what the server and the cache know of the own reviews.
PlaceData ==
  /\ entry \in {"closed", "id", "token"} /\ signed \in BOOLEAN /\ checked \in BOOLEAN
  /\ warning \in BOOLEAN /\ loading \in BOOLEAN
  /\ place \in PlacesShown /\ placeSort \in Sorts
  /\ visited \subseteq PlacesShown /\ moves \in 0..MAX_MOVES
  /\ usedIds \subseteq ReviewIds
  /\ mine \in [PlacesShown -> usedIds \cup {None}]
  /\ ownReviews \in [Place!Keys -> {None} \cup SUBSET usedIds]
  /\ listFetch \in [key : Place!Keys \cup {None}, got : {None} \cup SUBSET usedIds]
  /\ askedId \in usedIds \cup {None}
  /\ placeJob \in {None} \cup [id : usedIds \cup {None}, step : {"send", "refetch"}]

\* The form was filled with what it is about, is the one of its target and is there
\* with the page only.
FormFits ==
  /\ editingId \in usedIds \cup {None} /\ open \in BOOLEAN
  /\ reviewForm \in {None} \cup WriteForm
  /\ reviewForm # None =>
       /\ open /\ Place!Displayed
       /\ reviewForm.key = Place!EditingReview /\ reviewForm.base = reviewForm.key

\* A photo that is missing has been counted as failed.
SubmitFits ==
  /\ submit \in {None} \cup Submission
  /\ submit # None => submit.missing <= submit.failed

PlaceAtRest ==
  entry = "closed" =>
    /\ usedIds = {} /\ submit = None /\ placeJob = None /\ reviewForm = None
    /\ listFetch = Place!NoFetch /\ loading = FALSE

PlaceInv == PlaceData /\ FormFits /\ SubmitFits /\ PlaceAtRest

LEMMA PlaceInitially == Place!Init => PlaceInv
<1> SUFFICES ASSUME Place!Init PROVE PlaceInv
  OBVIOUS
<1>1. PlaceData
  <2>1. place \in PlacesShown /\ placeSort \in Sorts /\ moves \in 0..MAX_MOVES
    BY ScreensType DEF Place!Init
  <2>2. listFetch \in [key : Place!Keys \cup {None}, got : {None} \cup SUBSET usedIds]
    BY DEF Place!Init, Place!NoFetch
  <2> QED BY <2>1, <2>2 DEF Place!Init, PlaceData
<1>2. FormFits /\ SubmitFits /\ PlaceAtRest
  BY DEF Place!Init, FormFits, SubmitFits, PlaceAtRest
<1> QED BY <1>1, <1>2 DEF PlaceInv

\* The next id is new, as long as there is one.
LEMMA NextIdIsNew ==
  ASSUME usedIds \subseteq ReviewIds, ReviewIds # usedIds
  PROVE  Place!NextId \in ReviewIds \ usedIds
BY DEF Place!NextId

\* The form that a render leaves.
LEMMA Rendered ==
  ASSUME NEW f, reviewForm' = Place!Render(f), open' \in BOOLEAN,
         editingId' \in usedIds' \cup {None},
         ownReviews' \in [Place!Keys -> {None} \cup SUBSET usedIds'],
         place' \in PlacesShown, placeSort' \in Sorts,
         f = None \/ (f \in WriteForm' /\ f.base = f.key)
  PROVE  FormFits'
<1> DEFINE k == Place!EditingReview'
<1>1. k \in Targets'
  <2>1. <<place', placeSort'>> \in Place!Keys
    BY DEF Place!Keys
  <2> QED BY <2>1 DEF Place!EditingReview, Place!CachedReviews, Place!Key, Targets
<1>2. reviewForm' = IF ~open' \/ ~Place!Displayed' THEN None
                    ELSE IF f # None /\ f.key = k THEN f
                    ELSE [key |-> k, base |-> k, typed |-> FALSE]
  BY DEF Place!Render, Place!Mounted, Place!EditingReview, Place!Key, Place!CachedReviews,
     Place!Displayed
<1> HIDE DEF k
<1>3. /\ reviewForm' \in {None} \cup WriteForm'
      /\ reviewForm' # None => /\ open' /\ Place!Displayed'
                              /\ reviewForm'.key = k /\ reviewForm'.base = reviewForm'.key
  BY <1>1, <1>2 DEF WriteForm
<1> QED BY <1>3 DEF FormFits, k

LEMMA PlaceFormStays ==
  ASSUME FormFits, usedIds \subseteq usedIds',
         UNCHANGED <<place, placeSort, ownReviews, visited, loading, open, editingId, reviewForm>>
  PROVE  FormFits'
BY DEF FormFits, WriteForm, Targets, Place!EditingReview, Place!CachedReviews, Place!Key,
       Place!Displayed

LEMMA SubmitStays ==
  ASSUME SubmitFits, usedIds \subseteq usedIds', UNCHANGED submit
  PROVE  SubmitFits'
BY DEF SubmitFits, Submission, Targets

\* Steps that touch neither the form nor a submission.
LEMMA VisitKeeps ==
  ASSUME PlaceInv,
         \/ Place!SignIn \/ Place!AskDelete \/ Place!CloseDialog \/ Place!ConfirmDelete
         \/ Place!ToggleHelpful \/ Place!JobFails \/ Place!JobEnds \/ Place!ReadList
  PROVE  PlaceInv'
<1>1. /\ UNCHANGED <<entry, place, placeSort, usedIds, ownReviews, open, editingId, reviewForm, submit>>
      /\ UNCHANGED <<visited, loading, checked, warning, moves>>
  BY DEF Place!SignIn, Place!AskDelete, Place!CloseDialog, Place!ConfirmDelete,
         Place!ToggleHelpful, Place!JobFails, Place!JobEnds, Place!ReadList
<1>2. FormFits' /\ SubmitFits'
  BY <1>1, PlaceFormStays, SubmitStays DEF PlaceInv
<1>3. PlaceData' /\ PlaceAtRest'
  <2>0. PlaceData /\ PlaceAtRest
    BY DEF PlaceInv
  <2> USE <1>1, <2>0 DEF PlaceData, PlaceAtRest
  <2>1. CASE Place!SignIn
    BY <2>1 DEF Place!SignIn, Place!Keys
  <2>2. CASE Place!AskDelete
    <3>1. askedId' \in usedIds
      <4>1. <<place, placeSort>> \in Place!Keys
        BY DEF Place!Keys
      <4> QED BY <2>2, <4>1 DEF Place!AskDelete, Place!MyReview, Place!CachedReviews, Place!Key
    <3> QED BY <2>2, <3>1 DEF Place!AskDelete, Place!Keys
  <2>3. CASE Place!CloseDialog
    BY <2>3 DEF Place!CloseDialog, Place!Keys
  <2>4. CASE Place!ConfirmDelete \/ Place!ToggleHelpful
    BY <2>4 DEF Place!ConfirmDelete, Place!ToggleHelpful, Place!Active, Place!Displayed, Place!Keys
  <2>5. CASE Place!JobFails \/ Place!JobEnds
    <3>1. mine' \in [PlacesShown -> usedIds \cup {None}]
      BY <2>5 DEF Place!JobFails, Place!JobEnds, Place!Deleted
    <3>2. placeJob' = None /\ UNCHANGED <<listFetch, signed, askedId>>
      BY <2>5 DEF Place!JobFails, Place!JobEnds
    <3> QED BY <3>1, <3>2 DEF Place!Keys
  <2>6. CASE Place!ReadList
    <3>1. listFetch' \in [key : Place!Keys \cup {None}, got : {None} \cup SUBSET usedIds]
      BY <2>6 DEF Place!ReadList, Place!Keys
    <3> QED BY <2>6, <3>1 DEF Place!ReadList, Place!Keys, Place!NoFetch
  <2> QED BY <2>1, <2>2, <2>3, <2>4, <2>5, <2>6
<1> QED BY <1>2, <1>3 DEF PlaceInv

\* Steps that may mount the form again, in the order of the page's life.
LEMMA ArriveKeeps ==
  ASSUME PlaceInv, NEW e \in {"id", "token"}, Place!Arrive(e)
  PROVE  PlaceInv'
<1>0. PlaceData /\ PlaceAtRest /\ FormFits /\ SubmitFits
  BY DEF PlaceInv
<1>1. /\ usedIds = {} /\ submit = None /\ placeJob = None /\ reviewForm = None
      /\ listFetch = Place!NoFetch /\ entry' \in {"id", "token"} /\ loading' = TRUE
      /\ UNCHANGED <<place, placeSort, ownReviews, visited, editingId, checked, reviewForm, submit,
                     placeJob, askedId, warning, moves>>
      /\ open' \in BOOLEAN /\ signed' \in BOOLEAN
  BY <1>0 DEF Place!Arrive, PlaceAtRest
<1>2. PICK id \in {Place!NextId, None} : mine' = [mine EXCEPT ![place] = id] /\ usedIds' = {id} \ {None}
  BY DEF Place!Arrive
<1>3. usedIds' \subseteq ReviewIds
  BY <1>1, <1>2, ScreensType, NextIdIsNew
<1>4. mine' \in [PlacesShown -> usedIds' \cup {None}]
  BY <1>0, <1>1, <1>2 DEF PlaceData
<1>5. listFetch' \in [key : Place!Keys \cup {None}, got : {None} \cup SUBSET usedIds']
  <2>1. Place!Load(Place!Key) /\ Place!Key \in Place!Keys
    BY <1>0 DEF Place!Arrive, PlaceData, Place!Key, Place!Keys
  <2>2. listFetch' \in {listFetch, [key |-> Place!Key, got |-> None]}
    BY <2>1 DEF Place!Load
  <2> QED BY <1>1, <2>1, <2>2 DEF Place!NoFetch
<1>6. PlaceData' /\ PlaceAtRest'
  BY <1>0, <1>1, <1>3, <1>4, <1>5 DEF PlaceData, PlaceAtRest, Place!Keys
<1>7. FormFits' /\ SubmitFits'
  BY <1>0, <1>1 DEF FormFits, SubmitFits
<1> QED BY <1>6, <1>7 DEF PlaceInv

LEMMA RenderKeepsPlace ==
  ASSUME PlaceInv,
         \/ \E p \in PlacesShown : Place!GoTo(p)
         \/ \E s \in Sorts : Place!SelectSort(s)
         \/ Place!CheckExisting \/ Place!OpenWriteForm \/ Place!OpenEditForm
         \/ Place!PlaceArrives \/ Place!PlaceFails \/ Place!JobSucceeds
  PROVE  PlaceInv'
<1>0. /\ PlaceData /\ PlaceAtRest /\ FormFits /\ SubmitFits
      /\ reviewForm = None \/ (reviewForm \in WriteForm /\ reviewForm.base = reviewForm.key)
  BY DEF PlaceInv, FormFits
<1>1. ASSUME NEW p \in PlacesShown, Place!GoTo(p) PROVE PlaceInv'
  <2>1. /\ UNCHANGED <<entry, signed, placeSort, mine, usedIds, ownReviews, visited, open,
                       editingId, checked, submit, placeJob, askedId, warning>>
        /\ moves < MAX_MOVES /\ moves' = moves + 1 /\ place' = p /\ loading' \in BOOLEAN
        /\ Place!Load(<<p, placeSort>>) /\ entry # "closed"
        /\ reviewForm' = Place!Render(reviewForm)
    BY <1>1 DEF Place!GoTo
  <2>2. moves' \in 0..MAX_MOVES
    BY <1>0, <2>1, ScreensType DEF PlaceData
  <2>3. PlaceData' /\ PlaceAtRest'
    BY <1>0, <2>1, <2>2 DEF PlaceData, PlaceAtRest, Place!Load, Place!Keys
  <2>4. FormFits'
    <3>1. WriteForm' = WriteForm /\ Place!Keys' = Place!Keys
      BY <2>1 DEF WriteForm, Targets, Place!Keys
    <3> QED BY <1>0, <2>1, <3>1, Rendered DEF PlaceData, FormFits
  <2> QED BY <1>0, <2>1, <2>3, <2>4, SubmitStays DEF PlaceInv
<1>2. ASSUME NEW s \in Sorts, Place!SelectSort(s) PROVE PlaceInv'
  <2>1. /\ UNCHANGED <<entry, signed, place, mine, usedIds, ownReviews, visited, loading, open,
                       editingId, checked, submit, placeJob, askedId, warning>>
        /\ moves < MAX_MOVES /\ moves' = moves + 1 /\ placeSort' = s
        /\ Place!Load(<<place, s>>) /\ entry # "closed"
        /\ reviewForm' = Place!Render(reviewForm)
    BY <1>2 DEF Place!SelectSort, Place!Active
  <2>2. moves' \in 0..MAX_MOVES
    BY <1>0, <2>1, ScreensType DEF PlaceData
  <2>3. PlaceData' /\ PlaceAtRest'
    BY <1>0, <2>1, <2>2 DEF PlaceData, PlaceAtRest, Place!Load, Place!Keys
  <2>4. FormFits'
    <3>1. WriteForm' = WriteForm /\ Place!Keys' = Place!Keys
      BY <2>1 DEF WriteForm, Targets, Place!Keys
    <3> QED BY <1>0, <2>1, <3>1, Rendered DEF PlaceData, FormFits
  <2> QED BY <1>0, <2>1, <2>3, <2>4, SubmitStays DEF PlaceInv
<1>3. CASE Place!CheckExisting \/ Place!OpenWriteForm \/ Place!OpenEditForm
  <2>1. /\ UNCHANGED <<entry, signed, place, placeSort, mine, usedIds, ownReviews, visited, loading,
                       listFetch, submit, placeJob, askedId, warning, moves>>
        /\ checked' \in BOOLEAN /\ open' \in BOOLEAN
        /\ reviewForm' = Place!Render(reviewForm)
        /\ editingId' \in Place!MyReview \cup {editingId, None}
    BY <1>0, <1>3 DEF Place!CheckExisting, Place!OpenWriteForm, Place!OpenEditForm, Place!Opens,
       PlaceData, FormFits
  <2>2. editingId' \in usedIds' \cup {None} /\ entry # "closed"
    <3>1. <<place, placeSort>> \in Place!Keys
      BY <1>0 DEF PlaceData, Place!Keys
    <3>2. Place!MyReview \subseteq usedIds
      BY <1>0, <3>1 DEF PlaceData, Place!MyReview, Place!CachedReviews, Place!Key
    <3> QED BY <1>0, <1>3, <2>1, <3>2 DEF FormFits, Place!CheckExisting, Place!CheckDue,
               Place!ChecksExisting, Place!OpenWriteForm, Place!OpenEditForm, Place!Active
  <2>3. PlaceData' /\ PlaceAtRest'
    BY <1>0, <2>1, <2>2 DEF PlaceData, PlaceAtRest, Place!Keys
  <2>4. FormFits'
    <3>1. WriteForm' = WriteForm /\ Place!Keys' = Place!Keys
      BY <2>1 DEF WriteForm, Targets, Place!Keys
    <3> QED BY <1>0, <2>1, <2>2, <3>1, Rendered DEF PlaceData
  <2> QED BY <1>0, <2>1, <2>3, <2>4, SubmitStays DEF PlaceInv
<1>4. CASE Place!PlaceArrives \/ Place!PlaceFails \/ Place!JobSucceeds
  <2>1. /\ UNCHANGED <<entry, signed, place, placeSort, usedIds, ownReviews, open, editingId,
                       checked, askedId, warning, moves>>
        /\ visited' \in {visited, visited \cup {place}} /\ loading' \in BOOLEAN
        /\ submit' \in {submit, None} /\ reviewForm' = Place!Render(reviewForm)
    BY <1>0, <1>4 DEF Place!PlaceArrives, Place!PlaceFails, Place!JobSucceeds, Place!WaitersFail,
       Place!RefetchAll, PlaceData
  <2>2. mine' \in [PlacesShown -> usedIds \cup {None}]
    BY <1>0, <1>4 DEF Place!PlaceArrives, Place!PlaceFails, Place!JobSucceeds, Place!Deleted,
       PlaceData
  <2>3. placeJob' \in {None} \cup [id : usedIds \cup {None}, step : {"send", "refetch"}]
    BY <1>0, <1>4 DEF Place!PlaceArrives, Place!PlaceFails, Place!JobSucceeds, PlaceData
  <2>4. listFetch' \in [key : Place!Keys \cup {None}, got : {None} \cup SUBSET usedIds]
    <3>1. Place!Key \in Place!Keys
      BY <1>0 DEF PlaceData, Place!Key, Place!Keys
    <3>2. listFetch' \in {listFetch, [key |-> Place!Key, got |-> None]}
      BY <1>4 DEF Place!PlaceArrives, Place!PlaceFails, Place!JobSucceeds, Place!RefetchAll,
         Place!RefetchReviews
    <3> QED BY <1>0, <3>1, <3>2 DEF PlaceData
  <2>5. PlaceData'
    <3>1. Place!Keys' = Place!Keys
      BY DEF Place!Keys
    <3> QED BY <1>0, <2>1, <2>2, <2>3, <2>4, <3>1 DEF PlaceData
  <2>6. PlaceAtRest'
    BY <1>0, <1>4, <2>1 DEF PlaceAtRest, Place!PlaceArrives, Place!PlaceFails, Place!JobSucceeds
  <2>7. FormFits'
    <3>1. WriteForm' = WriteForm /\ Place!Keys' = Place!Keys
      BY <2>1 DEF WriteForm, Targets, Place!Keys
    <3> QED BY <1>0, <2>1, <3>1, Rendered DEF PlaceData, FormFits
  <2>8. SubmitFits'
    BY <1>0, <2>1 DEF SubmitFits, Submission, Targets
  <2> QED BY <2>5, <2>6, <2>7, <2>8 DEF PlaceInv
<1> QED BY <1>1, <1>2, <1>3, <1>4

\* The photos of a review that is sent are a number.
LEMMA PhotoCounts ==
  ASSUME SubmitFits, submit # None
  PROVE  /\ submit \in Submission /\ submit.failed \in Nat /\ submit.missing \in Nat
         /\ submit.todo \in 0..MAX_PHOTOS /\ submit.missing <= submit.failed
         /\ \A st \in {"send", "photos", "refetch"} : [submit EXCEPT !.step = st] \in Submission
BY DEF SubmitFits, Submission
\* Cancelling, saving a draft and typing.
LEMMA FormKeepsPlace ==
  ASSUME PlaceInv, Place!CancelWriteForm \/ Place!SaveDraft \/ Place!Type
  PROVE  PlaceInv'
<1>0. PlaceData /\ PlaceAtRest /\ FormFits /\ SubmitFits
  BY DEF PlaceInv
<1>1. /\ UNCHANGED <<entry, signed, place, placeSort, mine, usedIds, ownReviews, visited, loading,
                     listFetch, checked, submit, placeJob, askedId, warning, moves>>
      /\ reviewForm # None
  BY DEF Place!CancelWriteForm, Place!SaveDraft, Place!Type
<1>2. PlaceData' /\ PlaceAtRest'
  BY <1>0, <1>1 DEF PlaceData, PlaceAtRest, Place!Keys
<1>3. FormFits'
  <2>1. CASE Place!CancelWriteForm \/ Place!SaveDraft
    <3>1. reviewForm' = None /\ open' = FALSE /\ editingId' \in {editingId, None}
      BY <2>1 DEF Place!CancelWriteForm, Place!SaveDraft, Place!Closes
    <3> QED BY <1>0, <1>1, <3>1 DEF FormFits
  <2>2. CASE Place!Type
    <3>1. /\ reviewForm' = [reviewForm EXCEPT !.typed = TRUE] /\ UNCHANGED <<open, editingId>>
          /\ reviewForm \in WriteForm
      BY <1>0, <1>1, <2>2 DEF Place!Type, FormFits
    <3>2. /\ reviewForm' \in WriteForm' /\ reviewForm'.key = reviewForm.key
          /\ reviewForm'.base = reviewForm.base
      BY <1>1, <3>1 DEF WriteForm, Targets
    <3>3. Place!EditingReview' = Place!EditingReview /\ Place!Displayed' = Place!Displayed
      BY <1>1, <3>1 DEF Place!EditingReview, Place!CachedReviews, Place!Key, Place!Displayed
    <3> QED BY <1>0, <1>1, <3>1, <3>2, <3>3 DEF FormFits
  <2> QED BY <2>1, <2>2
<1> QED BY <1>0, <1>1, <1>2, <1>3, SubmitStays DEF PlaceInv

\* What closes the form after a submission.
LEMMA Finished ==
  ASSUME PlaceData, submit \in Submission, Place!Finish, usedIds \subseteq usedIds',
         submit.missing <= submit.failed
  PROVE  /\ FormFits' /\ SubmitFits' /\ loading' \in BOOLEAN
         /\ listFetch' \in [key : Place!Keys \cup {None}, got : {None} \cup SUBSET usedIds']
<1>1. submit' \in Submission' /\ submit'.missing = submit.missing /\ submit'.failed = submit.failed
  BY DEF Place!Finish, Submission, Targets
<1>2. reviewForm' = None /\ open' = FALSE /\ editingId' = None /\ loading' = TRUE
  BY DEF Place!Finish, Place!Closes, Place!RefetchAll
<1>3. listFetch' \in [key : Place!Keys \cup {None}, got : {None} \cup SUBSET usedIds']
  BY DEF Place!Finish, Place!RefetchAll, Place!RefetchReviews, Place!Key, Place!Keys, PlaceData
<1> QED BY <1>1, <1>2, <1>3 DEF FormFits, SubmitFits

\* What the server holds after a submission.
LEMMA PublishedRows ==
  ASSUME PlaceData, submit \in Submission, Place!Published
  PROVE  /\ usedIds \subseteq usedIds' /\ usedIds' \subseteq ReviewIds
         /\ mine' \in [PlacesShown -> usedIds' \cup {None}]
<1>1. CASE submit.edit = New
  <2>1. /\ ReviewIds # usedIds /\ mine' = [mine EXCEPT ![submit.at] = Place!NextId]
        /\ usedIds' = usedIds \cup {Place!NextId}
    BY <1>1 DEF Place!Published
  <2>2. Place!NextId \in ReviewIds
    BY <2>1, NextIdIsNew DEF PlaceData
  <2> QED BY <2>1, <2>2 DEF PlaceData
<1>2. CASE submit.edit # New
  BY <1>2 DEF Place!Published, PlaceData
<1> QED BY <1>1, <1>2

LEMMA SubmissionKeepsPlace ==
  ASSUME PlaceInv,
         \/ Place!SubmitReview \/ Place!SendSucceeds \/ Place!SendFails
         \/ Place!PhotoEnds \/ Place!PhotosSettled
  PROVE  PlaceInv'
<1>0. PlaceData /\ PlaceAtRest /\ FormFits /\ SubmitFits
  BY DEF PlaceInv
<1>1. /\ UNCHANGED <<entry, signed, place, placeSort, ownReviews, visited, checked, placeJob, askedId, moves>>
      /\ entry # "closed"
  BY <1>0 DEF Place!SubmitReview, Place!SendSucceeds, Place!SendFails, Place!PhotoEnds,
     Place!PhotosSettled, PlaceAtRest
<1>2. SUFFICES
        /\ usedIds \subseteq usedIds' /\ usedIds' \subseteq ReviewIds
        /\ mine' \in [PlacesShown -> usedIds' \cup {None}]
        /\ listFetch' \in [key : Place!Keys \cup {None}, got : {None} \cup SUBSET usedIds']
        /\ {warning', loading'} \subseteq BOOLEAN /\ FormFits' /\ SubmitFits'
  <2> SUFFICES PlaceData' /\ PlaceAtRest'
    BY <1>2 DEF PlaceInv
  <2> QED BY <1>0, <1>1, <1>2 DEF PlaceData, PlaceAtRest, Place!Keys
<1>3. CASE Place!SubmitReview
  <2>1. /\ UNCHANGED <<usedIds, mine, loading, listFetch, open, editingId, reviewForm>>
        /\ warning' = FALSE
        /\ reviewForm # None
    BY <1>3 DEF Place!SubmitReview
  <2>2. PICK n \in Place!Pickable :
          submit' = [edit |-> Place!EditingReview, at |-> place, todo |-> n, failed |-> 0, missing |-> 0,
                     step |-> "send"]
    BY <1>3 DEF Place!SubmitReview
  <2>3. n \in 0..MAX_PHOTOS
    BY ScreensType DEF Place!Pickable
  <2>4. Place!EditingReview \in Targets
    BY <1>0, <2>1 DEF FormFits, WriteForm
  <2>5. submit' \in Submission' /\ submit'.missing = 0 /\ submit'.failed = 0
    BY <1>0, <2>1, <2>2, <2>3, <2>4 DEF Submission, Targets, PlaceData
  <2>6. SubmitFits'
    BY <2>5 DEF SubmitFits
  <2>7. FormFits'
    BY <1>0, <1>1, <2>1, PlaceFormStays
  <2> QED BY <1>0, <2>1, <2>6, <2>7 DEF PlaceData, Place!Keys
<1>4. CASE Place!SendSucceeds
  <2>0. submit # None /\ Place!Published
    BY <1>4 DEF Place!SendSucceeds
  <2>1. submit \in Submission /\ submit.missing <= submit.failed
    BY <1>0, <2>0 DEF SubmitFits
  <2>2. /\ usedIds \subseteq usedIds' /\ usedIds' \subseteq ReviewIds /\ warning' = warning
        /\ mine' \in [PlacesShown -> usedIds' \cup {None}]
    BY <1>0, <1>4, <2>0, <2>1, PublishedRows DEF Place!SendSucceeds
  <2>3. CASE submit.edit = New /\ submit.todo > 0
    <3>1. /\ submit' = [submit EXCEPT !.step = "photos"]
          /\ UNCHANGED <<loading, listFetch, open, editingId, reviewForm>>
      BY <1>4, <2>3 DEF Place!SendSucceeds
    <3>2. /\ submit' \in Submission' /\ submit'.missing = submit.missing
          /\ submit'.failed = submit.failed
      BY <2>1, <2>2, <3>1 DEF Submission, Targets
    <3>3. SubmitFits' /\ FormFits'
      BY <1>0, <1>1, <2>1, <2>2, <3>1, <3>2, PlaceFormStays DEF SubmitFits
    <3> QED BY <1>0, <2>2, <3>1, <3>3 DEF PlaceData, Place!Keys
  <2>4. CASE ~(submit.edit = New /\ submit.todo > 0)
    <3>1. Place!Finish
      BY <1>4, <2>4 DEF Place!SendSucceeds
    <3> QED BY <1>0, <2>1, <2>2, <3>1, Finished DEF PlaceData
  <2> QED BY <2>3, <2>4
<1>5. CASE Place!SendFails
  <2>1. /\ submit # None /\ submit' = None
        /\ UNCHANGED <<loading, listFetch, open, editingId, reviewForm, warning>>
        /\ UNCHANGED <<mine, usedIds>> \/ Place!Published
    BY <1>5 DEF Place!SendFails
  <2>2. submit \in Submission
    BY <1>0, <2>1 DEF SubmitFits
  <2>3. /\ usedIds \subseteq usedIds' /\ usedIds' \subseteq ReviewIds
        /\ mine' \in [PlacesShown -> usedIds' \cup {None}]
    BY <1>0, <2>1, <2>2, PublishedRows DEF PlaceData
  <2>4. SubmitFits' /\ FormFits'
    BY <1>0, <1>1, <2>1, <2>3, PlaceFormStays DEF SubmitFits
  <2> QED BY <1>0, <2>1, <2>3, <2>4 DEF PlaceData, Place!Keys
<1>6. CASE Place!PhotoEnds
  <2>1. /\ submit # None /\ submit.todo > 0
        /\ UNCHANGED <<mine, usedIds, loading, listFetch, open, editingId, reviewForm, warning>>
    BY <1>6 DEF Place!PhotoEnds
  <2>2. PICK attached \in BOOLEAN, reported \in BOOLEAN :
          /\ reported => attached
          /\ submit' = [submit EXCEPT !.todo = @ - 1,
                                      !.failed = @ + (IF reported THEN 0 ELSE 1),
                                      !.missing = @ + (IF attached THEN 0 ELSE 1)]
    BY <1>6 DEF Place!PhotoEnds
  <2>3. /\ submit \in Submission /\ submit.failed \in Nat /\ submit.missing \in Nat
        /\ submit.todo \in 0..MAX_PHOTOS /\ submit.missing <= submit.failed
    BY <1>0, <2>1, PhotoCounts
  <2>4. /\ submit.todo - 1 \in 0..MAX_PHOTOS
        /\ submit.failed + (IF reported THEN 0 ELSE 1) \in Nat
        /\ submit.missing + (IF attached THEN 0 ELSE 1) \in Nat
        /\ submit.missing + (IF attached THEN 0 ELSE 1) <= submit.failed + (IF reported THEN 0 ELSE 1)
    BY <2>1, <2>2, <2>3, ScreensType
  <2>5. /\ submit' \in Submission'
        /\ submit'.missing = submit.missing + (IF attached THEN 0 ELSE 1)
        /\ submit'.failed = submit.failed + (IF reported THEN 0 ELSE 1)
    BY <2>1, <2>2, <2>3, <2>4 DEF Submission, Targets
  <2>6. SubmitFits'
    BY <2>4, <2>5 DEF SubmitFits
  <2>7. FormFits'
    BY <1>0, <1>1, <2>1, PlaceFormStays
  <2> QED BY <1>0, <2>1, <2>6, <2>7 DEF PlaceData, Place!Keys
<1>7. CASE Place!PhotosSettled
  <2>1. /\ submit # None /\ UNCHANGED <<mine, usedIds>> /\ Place!Finish
        /\ warning' = (submit.failed > 0)
    BY <1>7 DEF Place!PhotosSettled, Place!Warns
  <2>2. submit \in Submission /\ submit.missing <= submit.failed
    BY <1>0, <2>1, PhotoCounts
  <2>3. /\ FormFits' /\ SubmitFits' /\ loading' \in BOOLEAN
        /\ listFetch' \in [key : Place!Keys \cup {None}, got : {None} \cup SUBSET usedIds']
    BY <1>0, <2>1, <2>2, Finished
  <2> QED BY <1>0, <2>1, <2>3 DEF PlaceData
<1> QED BY <1>3, <1>4, <1>5, <1>6, <1>7

LEMMA AnswerKeepsPlace ==
  ASSUME PlaceInv, Place!FillList \/ Place!ListFails
  PROVE  PlaceInv'
<1>0. /\ PlaceData /\ PlaceAtRest /\ FormFits /\ SubmitFits
      /\ reviewForm = None \/ (reviewForm \in WriteForm /\ reviewForm.base = reviewForm.key)
  BY DEF PlaceInv, FormFits
<1>1. /\ UNCHANGED <<entry, signed, place, placeSort, mine, usedIds, visited, loading, open,
                     editingId, checked, askedId, warning, moves>>
      /\ listFetch' = Place!NoFetch /\ submit' \in {submit, None} /\ placeJob' \in {placeJob, None}
  BY DEF Place!FillList, Place!ListFails, Place!WaitersFail
<1>2. ownReviews' \in [Place!Keys -> {None} \cup SUBSET usedIds']
  BY <1>0, <1>1 DEF Place!FillList, Place!ListFails, PlaceData
<1>3. PlaceData' /\ PlaceAtRest'
  <2>1. listFetch' \in [key : Place!Keys \cup {None}, got : {None} \cup SUBSET usedIds']
    BY <1>1 DEF Place!NoFetch
  <2>2. placeJob' \in {None} \cup [id : usedIds \cup {None}, step : {"send", "refetch"}]
    BY <1>0, <1>1 DEF PlaceData
  <2>3. PlaceData'
    <3> USE DEF PlaceData
    <3>1. Place!Keys' = Place!Keys
      BY DEF Place!Keys
    <3> QED BY <1>0, <1>1, <1>2, <2>1, <2>2, <3>1
  <2>4. PlaceAtRest'
    BY <1>0, <1>1 DEF PlaceAtRest, Place!NoFetch, Place!FillList, Place!ListFails
  <2> QED BY <2>3, <2>4
<1>4. SubmitFits'
  BY <1>0, <1>1 DEF SubmitFits, Submission, Targets
<1>5. FormFits'
  <2>1. CASE Place!FillList
    <3>1. reviewForm' = Place!Render(reviewForm)
      BY <2>1 DEF Place!FillList
    <3>2. WriteForm' = WriteForm /\ Place!Keys' = Place!Keys
      BY <1>1 DEF WriteForm, Targets, Place!Keys
    <3> QED BY <1>0, <1>1, <1>2, <1>3, <3>1, <3>2, Rendered DEF PlaceData, FormFits
  <2>2. CASE Place!ListFails
    BY <1>0, <1>1, <2>2, PlaceFormStays DEF Place!ListFails
  <2> QED BY <2>1, <2>2
<1> QED BY <1>3, <1>4, <1>5 DEF PlaceInv

\* The handler of the submission ends.
LEMMA SubmitEndsKeeps == ASSUME PlaceInv, Place!SubmitEnds PROVE PlaceInv'
<1>1. /\ UNCHANGED <<entry, signed, place, placeSort, mine, usedIds, ownReviews, visited, loading,
                     listFetch, open, editingId, checked, reviewForm, placeJob, askedId, warning,
                     moves>>
      /\ submit' = None
  BY DEF Place!SubmitEnds
<1>2. FormFits' /\ SubmitFits'
  BY <1>1, PlaceFormStays DEF PlaceInv, SubmitFits
<1>3. PlaceData' /\ PlaceAtRest'
  BY <1>1 DEF PlaceInv, PlaceData, PlaceAtRest, Place!Keys, Place!NoFetch
<1> QED BY <1>2, <1>3 DEF PlaceInv

LEMMA PlaceKeeps ==
  ASSUME PlaceInv, [Place!Next]_placeVars
  PROVE  PlaceInv'
<1>1. CASE UNCHANGED placeVars
  BY <1>1 DEF PlaceInv, PlaceData, FormFits, SubmitFits, PlaceAtRest, placeVars, WriteForm, Submission,
     Targets, Place!EditingReview, Place!CachedReviews, Place!Key, Place!Keys, Place!NoFetch,
     Place!Displayed
<1>2. CASE Place!Next
  BY <1>2, VisitKeeps, ArriveKeeps, RenderKeepsPlace, FormKeepsPlace, SubmissionKeepsPlace,
     AnswerKeepsPlace, SubmitEndsKeeps
     DEF Place!Next, Place!Event
<1> QED BY <1>1, <1>2

\* A form that is mounted for a new review is kept by every render that neither closes
\* it, nor picks another place or target, nor takes the page away.
LEMMA RenderKeepsNew ==
  ASSUME PlaceData, FormFits, reviewForm # None, editingId = None,
         UNCHANGED <<place, open, editingId>>, Place!Displayed',
         ownReviews' \in [Place!Keys -> {None} \cup SUBSET usedIds], placeSort' \in Sorts
  PROVE  Place!Render(reviewForm) = reviewForm
<1>1. /\ None \notin usedIds
      /\ <<place, placeSort>> \in Place!Keys /\ <<place', placeSort'>> \in Place!Keys
  BY ScreensType DEF PlaceData, Place!Keys
<1>2. /\ Place!EditingReview = New
      /\ editingId' \notin Place!CachedReviews(ownReviews', <<place', placeSort'>>)
  BY <1>1 DEF PlaceData, Place!EditingReview, Place!CachedReviews, Place!Key
<1>3. open' /\ reviewForm.key = New
  BY <1>2 DEF FormFits
<1> QED BY <1>2, <1>3 DEF Place!Render

\* What a step of the page never does.
PlaceRules ==
  /\ submit = None /\ submit' # None => reviewForm.base = submit'.edit
  /\ /\ reviewForm # None /\ reviewForm.typed /\ editingId = None /\ submit = None
     /\ placeJob = None \/ placeJob.id = None
     /\ UNCHANGED <<place, open, editingId>>
     => reviewForm' = reviewForm
  /\ submit # None /\ submit.step = "photos" /\ submit.missing > 0 /\ submit'.step = "refetch" => warning'

\* The form is typed into, is kept as it is, or is rendered with the page on display.
LEMMA TypedFormSteps ==
  ASSUME PlaceInv, [Place!Next]_placeVars, reviewForm # None, editingId = None, submit = None,
         placeJob = None \/ placeJob.id = None, UNCHANGED <<place, open, editingId>>
  PROVE  \/ reviewForm' = reviewForm
         \/ reviewForm' = [reviewForm EXCEPT !.typed = TRUE]
         \/ /\ reviewForm' = Place!Render(reviewForm) /\ Place!Displayed'
            /\ ownReviews' \in [Place!Keys -> {None} \cup SUBSET usedIds] /\ placeSort' \in Sorts
<1>0. /\ PlaceData /\ FormFits /\ PlaceAtRest /\ open /\ Place!Displayed /\ entry # "closed"
      /\ ~loading
  BY DEF PlaceInv, FormFits, PlaceAtRest, Place!Displayed
<1>1. CASE \/ UNCHANGED placeVars \/ Place!SignIn
           \/ Place!AskDelete \/ Place!CloseDialog \/ Place!ConfirmDelete \/ Place!ToggleHelpful
           \/ Place!JobFails \/ Place!ReadList \/ Place!ListFails \/ Place!SubmitEnds \/ Place!JobEnds
           \/ Place!SubmitReview
  BY <1>1 DEF placeVars, Place!SignIn, Place!AskDelete, Place!CloseDialog, Place!ConfirmDelete,
     Place!ToggleHelpful, Place!JobFails, Place!ReadList, Place!ListFails, Place!SubmitEnds,
     Place!JobEnds, Place!SubmitReview
<1>2. ~(Place!SendSucceeds \/ Place!SendFails \/ Place!PhotoEnds \/ Place!PhotosSettled)
  BY DEF Place!SendSucceeds, Place!SendFails, Place!PhotoEnds, Place!PhotosSettled
<1>3. ~(Place!PlaceArrives \/ Place!PlaceFails \/ \E e \in {"id", "token"} : Place!Arrive(e))
  BY <1>0 DEF Place!PlaceArrives, Place!PlaceFails, Place!Arrive
<1>4. ~((\E p \in PlacesShown : Place!GoTo(p)) \/ Place!CancelWriteForm \/ Place!SaveDraft)
  BY <1>0 DEF Place!GoTo, Place!CancelWriteForm, Place!SaveDraft, Place!Closes
<1>5. CASE Place!Type
  BY <1>5 DEF Place!Type
<1>6. CASE \/ \E s \in Sorts : Place!SelectSort(s)
           \/ Place!CheckExisting \/ Place!OpenWriteForm \/ Place!OpenEditForm
  <2>1. /\ reviewForm' = Place!Render(reviewForm) /\ UNCHANGED <<visited, loading, ownReviews>>
        /\ placeSort' \in Sorts
    BY <1>0, <1>6 DEF Place!SelectSort, Place!CheckExisting, Place!OpenWriteForm,
       Place!OpenEditForm, Place!Opens, PlaceData
  <2>2. Place!Displayed'
    BY <1>0, <2>1 DEF Place!Displayed
  <2> QED BY <1>0, <2>1, <2>2 DEF PlaceData
<1>7. CASE Place!FillList
  <2>1. /\ reviewForm' = Place!Render(reviewForm) /\ UNCHANGED <<visited, loading, usedIds, placeSort>>
    BY <1>7 DEF Place!FillList
  <2>2. PlaceData'
    BY <1>7, AnswerKeepsPlace DEF PlaceInv
  <2>3. ownReviews' \in [Place!Keys -> {None} \cup SUBSET usedIds]
    BY <2>1, <2>2 DEF PlaceData, Place!Keys
  <2>4. Place!Displayed'
    BY <1>0, <2>1 DEF Place!Displayed
  <2> QED BY <1>0, <2>1, <2>3, <2>4 DEF PlaceData
<1>8. CASE Place!JobSucceeds
  <2>1. /\ reviewForm' = Place!Render(reviewForm) /\ UNCHANGED <<visited, ownReviews, placeSort>>
        /\ placeJob # None
    BY <1>8 DEF Place!JobSucceeds
  <2>2. loading' = loading
    BY <1>8, <2>1 DEF Place!JobSucceeds, Place!RefetchesPlace
  <2>3. Place!Displayed'
    BY <1>0, <2>1, <2>2 DEF Place!Displayed
  <2> QED BY <1>0, <2>1, <2>3 DEF PlaceData
<1> QED BY <1>1, <1>2, <1>3, <1>4, <1>5, <1>6, <1>7, <1>8 DEF Place!Next, Place!Event

LEMMA PlaceObeys ==
  ASSUME PlaceInv, [Place!Next]_placeVars
  PROVE  PlaceRules
<1>0. PlaceData /\ FormFits /\ SubmitFits
  BY DEF PlaceInv
<1>1. ASSUME submit = None, submit' # None PROVE reviewForm.base = submit'.edit
  <2>1. Place!SubmitReview
    BY <1>1 DEF placeVars, Place!Next, Place!Event, Place!CheckExisting, Place!Arrive, Place!SignIn,
       Place!GoTo, Place!SelectSort, Place!OpenWriteForm, Place!OpenEditForm, Place!Opens,
       Place!CancelWriteForm, Place!SaveDraft, Place!Type, Place!SendSucceeds, Place!SendFails,
       Place!PhotoEnds, Place!PhotosSettled, Place!AskDelete, Place!CloseDialog, Place!ConfirmDelete,
       Place!ToggleHelpful, Place!JobSucceeds, Place!JobFails, Place!ReadList, Place!FillList,
       Place!ListFails, Place!WaitersFail, Place!PlaceArrives, Place!PlaceFails, Place!SubmitEnds,
       Place!JobEnds
  <2>2. reviewForm # None /\ submit'.edit = Place!EditingReview
    BY <2>1 DEF Place!SubmitReview
  <2> QED BY <1>0, <2>2 DEF FormFits
<1>2. ASSUME reviewForm # None, reviewForm.typed, editingId = None, submit = None,
             placeJob = None \/ placeJob.id = None, UNCHANGED <<place, open, editingId>>
      PROVE  reviewForm' = reviewForm
  <2>1. [reviewForm EXCEPT !.typed = TRUE] = reviewForm
    BY <1>0, <1>2 DEF FormFits, WriteForm
  <2> QED BY <1>0, <1>2, <2>1, TypedFormSteps, RenderKeepsNew
<1>3. ASSUME submit # None, submit.step = "photos", submit.missing > 0, submit'.step = "refetch"
      PROVE  warning'
  <2>1. \/ Place!PhotosSettled
        \/ Place!PhotoEnds
        \/ submit' = submit
    BY <1>3 DEF placeVars, Place!Next, Place!Event, Place!CheckExisting, Place!Arrive, Place!SignIn,
       Place!GoTo, Place!SelectSort, Place!OpenWriteForm, Place!OpenEditForm, Place!Opens,
       Place!CancelWriteForm, Place!SaveDraft, Place!Type, Place!SubmitReview, Place!SendSucceeds,
       Place!SendFails, Place!AskDelete, Place!CloseDialog, Place!ConfirmDelete,
       Place!ToggleHelpful, Place!JobSucceeds, Place!JobFails, Place!ReadList, Place!FillList,
       Place!ListFails, Place!WaitersFail, Place!Waits, Place!PlaceArrives, Place!PlaceFails,
       Place!SubmitEnds, Place!JobEnds
  <2>2. CASE Place!PhotosSettled
    <3>1. submit.failed > 0
      BY <1>0, <1>3, PhotoCounts
    <3>2. warning' = (submit.failed > 0)
      BY <2>2 DEF Place!PhotosSettled, Place!Warns
    <3> QED BY <3>1, <3>2
  <2>3. CASE Place!PhotoEnds
    <3>1. submit \in Submission
      BY <1>0, <1>3, PhotoCounts
    <3>2. submit'.step = submit.step
      BY <2>3, <3>1 DEF Place!PhotoEnds, Submission
    <3> QED BY <1>3, <3>2
  <2> QED BY <1>3, <2>1, <2>2, <2>3
<1> QED BY <1>1, <1>2, <1>3 DEF PlaceRules

-----------------------------------------------------------------------------
(* Drafts and promotions.                                                    *)

\* What the browser keeps under the ids: drafts or promotions, never both.
Entries ==
  IF section = "drafts" THEN Local!Draft ELSE IF section = "promotions" THEN Local!Promotion ELSE {}
ListOfEntries == [LocalIds -> Entries \cup {None}]

LocalData ==
  /\ section \in {"closed", "drafts", "promotions"}
  /\ made \subseteq LocalIds /\ today \in Local!Days /\ painted \in [Windows -> Local!Days]
  /\ stored \in ListOfEntries /\ copy \in [Windows -> {None} \cup ListOfEntries]
  /\ card \in [Windows -> {None} \cup (made \X Texts)]
  /\ confirming \in [Windows -> {None} \cup made]
  /\ section # "drafts" => \A w \in Windows : card[w] = None /\ confirming[w] = None

\* Only made items are stored or shown; a promotion is never rewritten, so that
\* a copy of it is true until it is deleted.
CopiesFit ==
  \A id \in LocalIds :
    /\ stored[id] # None => id \in made
    /\ \A w \in Windows :
         copy[w] # None /\ copy[w][id] # None =>
           id \in made /\ (section = "promotions" => stored[id] \in {None, copy[w][id]})

LocalInv == LocalData /\ CopiesFit

LEMMA LocalInitially == Local!Init => LocalInv
BY ScreensType DEF Local!Init, LocalInv, LocalData, CopiesFit, ListOfEntries, Entries, Local!Days

\* A window that writes a list and reads it again.
LEMMA PersistKeeps ==
  ASSUME LocalInv, NEW w \in Windows, NEW l \in ListOfEntries, Local!Persist(w, l),
         section' = section, today' = today, made \subseteq made', made' \subseteq LocalIds,
         \A id \in LocalIds : l[id] # None => id \in made',
         section = "promotions" =>
           \A id \in LocalIds : l[id] \in {None, stored[id]} \/ (stored[id] = None /\ id \notin made)
  PROVE  /\ stored' \in ListOfEntries' /\ copy' \in [Windows -> {None} \cup ListOfEntries']
         /\ painted' \in [Windows -> Local!Days] /\ CopiesFit'
<1>1. Entries' = Entries /\ ListOfEntries' = ListOfEntries
  BY DEF Entries, ListOfEntries, Local!Draft, Local!Promotion, Local!Days
<1>2. /\ stored' = l /\ copy' = [copy EXCEPT ![w] = l] /\ painted' = [painted EXCEPT ![w] = today]
  BY DEF Local!Persist
<1>3. /\ copy \in [Windows -> {None} \cup ListOfEntries] /\ painted \in [Windows -> Local!Days]
      /\ today \in Local!Days
  BY DEF LocalInv, LocalData
<1>4. CopiesFit'
  BY <1>2, <1>3 DEF LocalInv, CopiesFit
<1> QED BY <1>1, <1>2, <1>3, <1>4

\* Steps that write nothing.
LEMMA LocalReads ==
  ASSUME LocalInv,
         \/ Local!Start("drafts") \/ Local!Start("promotions") \/ Local!Midnight
         \/ \E w \in Windows :
              \/ Local!OpenPage(w) \/ Local!ContinueWriting(w) \/ Local!Type(w) \/ Local!AskDelete(w)
              \/ Local!Cancel(w) \/ Local!Repaint(w)
  PROVE  LocalInv' /\ stored' = stored
<1>0. LocalData /\ CopiesFit /\ UNCHANGED <<stored, made>>
  BY DEF LocalInv, Local!Start, Local!Midnight, Local!OpenPage, Local!ContinueWriting, Local!Type,
     Local!AskDelete, Local!Cancel, Local!Repaint
<1> USE DEF LocalData
<1>1. ASSUME NEW s \in {"drafts", "promotions"}, Local!Start(s) PROVE LocalInv'
  <2>1. /\ section = "closed" /\ section' = s
        /\ UNCHANGED <<stored, made, copy, card, today, confirming, painted>>
    BY <1>1 DEF Local!Start
  <2>2. ListOfEntries = [LocalIds -> {None}]
    BY <2>1 DEF ListOfEntries, Entries
  <2>3. ListOfEntries \subseteq ListOfEntries'
    BY <2>2 DEF ListOfEntries
  <2>4. LocalData'
    <3>1. stored' \in ListOfEntries' /\ copy' \in [Windows -> {None} \cup ListOfEntries']
      BY <1>0, <2>1, <2>3
    <3> QED BY <1>0, <2>1, <3>1 DEF Local!Days
  <2>5. CopiesFit'
    BY <1>0, <2>1, <2>2 DEF CopiesFit
  <2> QED BY <2>4, <2>5 DEF LocalInv
<1>2. CASE Local!Midnight
  <2>1. /\ UNCHANGED <<section, stored, made, copy, card, confirming, painted>>
        /\ today' = today + 1 /\ today < LastDay
    BY <1>2 DEF Local!Midnight
  <2>2. today' \in Local!Days
    BY <1>0, <2>1, ScreensType DEF Local!Days
  <2>3. LocalData'
    BY <1>0, <2>1, <2>2 DEF Local!Days, ListOfEntries, Entries, Local!Draft, Local!Promotion
  <2> QED BY <1>0, <2>1, <2>3 DEF LocalInv, CopiesFit
<1>3. ASSUME NEW w \in Windows,
             \/ Local!OpenPage(w) \/ Local!ContinueWriting(w) \/ Local!Type(w) \/ Local!AskDelete(w)
             \/ Local!Cancel(w) \/ Local!Repaint(w)
      PROVE  LocalInv'
  <2>1. /\ UNCHANGED <<section, made, stored, today>>
        /\ copy' = copy \/ copy' = [copy EXCEPT ![w] = stored]
        /\ painted' = painted \/ painted' = [painted EXCEPT ![w] = today]
    BY <1>3 DEF Local!OpenPage, Local!ContinueWriting, Local!Type,
       Local!AskDelete, Local!Cancel, Local!Repaint
  <2>2. ListOfEntries' = ListOfEntries
    BY <2>1 DEF Entries, ListOfEntries, Local!Draft, Local!Promotion, Local!Days
  <2>3. /\ card' \in [Windows -> {None} \cup (made \X Texts)]
        /\ confirming' \in [Windows -> {None} \cup made]
        /\ section # "drafts" => \A x \in Windows : card'[x] = None /\ confirming'[x] = None
    <3>1. CASE Local!OpenPage(w)
      BY <1>0, <3>1 DEF Local!OpenPage
    <3>2. CASE Local!ContinueWriting(w)
      <4>1. /\ section = "drafts" /\ confirming' = confirming
            /\ \E id \in made : /\ Local!Has(copy[w], id)
                                /\ card' = [card EXCEPT ![w] = <<id, copy[w][id].text>>]
        BY <3>2 DEF Local!ContinueWriting
      <4>2. PICK id \in made : /\ copy[w] # None /\ copy[w][id] # None
                               /\ card' = [card EXCEPT ![w] = <<id, copy[w][id].text>>]
        BY <4>1 DEF Local!Has
      <4>3. copy[w][id] \in Local!Draft
        BY <1>0, <4>1, <4>2 DEF ListOfEntries, Entries
      <4>4. <<id, copy[w][id].text>> \in made \X Texts
        BY <4>3 DEF Local!Draft
      <4> QED BY <1>0, <4>1, <4>2, <4>4
    <3>3. CASE Local!Type(w)
      <4>1. PICK t \in Texts : card' = [card EXCEPT ![w][2] = t]
        BY <3>3 DEF Local!Type
      <4>2. card[w] \in made \X Texts /\ card[w] # None /\ confirming' = confirming
        BY <1>0, <3>3 DEF Local!Type
      <4>3. [card[w] EXCEPT ![2] = t] \in made \X Texts
        BY <4>2
      <4> QED BY <1>0, <4>1, <4>2, <4>3
    <3>4. CASE Local!AskDelete(w)
      BY <1>0, <3>4 DEF Local!AskDelete
    <3>5. CASE Local!Cancel(w)
      BY <1>0, <3>5 DEF Local!Cancel
    <3>6. CASE Local!Repaint(w)
      BY <1>0, <3>6 DEF Local!Repaint
    <3> QED BY <1>3, <3>1, <3>2, <3>3, <3>4, <3>5, <3>6
  <2>4. LocalData'
    BY <1>0, <2>1, <2>2, <2>3
  <2>5. CopiesFit'
    BY <1>0, <2>1 DEF CopiesFit
  <2> QED BY <2>4, <2>5 DEF LocalInv
<1> QED BY <1>0, <1>1, <1>2, <1>3
LEMMA LocalCardinality == \A S : Local!Cardinality(S) = Cardinality(S)
BY Zenon DEF Cardinality, Local!Cardinality

\* What a step of the two pages never does.
ChangesOne == Local!Cardinality({id \in LocalIds : stored'[id] # stored[id]}) <= 1
NoneComesBack == \A id \in made : stored[id] = None => stored'[id] = None
LocalRules ==
  /\ ChangesOne /\ NoneComesBack
  /\ \A id \in LocalIds : \A w \in Windows :
       section = "promotions" /\ stored[id] # None /\ stored'[id] = None /\ copy'[w] # copy[w] =>
         painted[w] \notin stored[id].from..stored[id].to

\* A step that changes at most one item.
LEMMA OneItem ==
  ASSUME NEW x, \A id \in LocalIds \ {x} : stored'[id] = stored[id]
  PROVE  ChangesOne
<1> DEFINE changed == {id \in LocalIds : stored'[id] # stored[id]}
<1>1. changed \subseteq {x}
  OBVIOUS
<1>2. IsFiniteSet({x}) /\ Cardinality({x}) = 1
  BY FS_Singleton
<1>3. IsFiniteSet(changed) /\ Cardinality(changed) <= 1
  BY <1>1, <1>2, FS_Subset
<1> QED BY <1>3, LocalCardinality DEF ChangesOne

\* Drafts: saved, rewritten and deleted.
LEMMA DraftSteps ==
  ASSUME LocalInv, NEW w \in Windows,
         Local!SaveDraft(w) \/ Local!UpdateDraft(w) \/ Local!DeleteDraft(w)
  PROVE  LocalInv' /\ LocalRules
<1>0. /\ LocalData /\ CopiesFit /\ section = "drafts"
      /\ UNCHANGED <<section, today>> /\ Entries = Local!Draft
  BY DEF LocalInv, LocalData, Local!SaveDraft, Local!UpdateDraft, Local!DeleteDraft, Entries
<1>1. ListOfEntries' = ListOfEntries
  BY <1>0 DEF Entries, ListOfEntries, Local!Draft, Local!Promotion, Local!Days
<1>2. CASE Local!SaveDraft(w)
  <2>1. PICK id \in Local!Free, t \in Texts :
          stored' = [stored EXCEPT ![id] = [text |-> t]] /\ made' = made \cup {id}
    BY <1>2 DEF Local!SaveDraft
  <2>2. /\ UNCHANGED <<copy, card, confirming, painted>> /\ id \in LocalIds /\ id \notin made
        /\ [text |-> t] \in Local!Draft
    BY <1>2 DEF Local!SaveDraft, Local!Free, Local!Draft
  <2>3. stored' \in ListOfEntries
    BY <1>0, <2>1, <2>2 DEF LocalData, ListOfEntries
  <2>4. LocalData'
    BY <1>0, <1>1, <2>1, <2>2, <2>3 DEF LocalData, Local!Days
  <2>5. CopiesFit'
    BY <1>0, <2>1, <2>2 DEF CopiesFit, LocalData, ListOfEntries
  <2>6. \A x \in LocalIds \ {id} : stored'[x] = stored[x]
    BY <1>0, <2>1 DEF LocalData, ListOfEntries
  <2>7. ChangesOne /\ NoneComesBack
    BY <1>0, <2>2, <2>6, OneItem DEF NoneComesBack, LocalData
  <2> QED BY <1>0, <2>4, <2>5, <2>7 DEF LocalInv, LocalRules
<1>3. CASE Local!UpdateDraft(w) \/ Local!DeleteDraft(w)
  <2>1. PICK id \in made, l \in ListOfEntries :
          /\ Local!Persist(w, l)
          /\ \A x \in LocalIds \ {id} : l[x] = stored[x]
          /\ stored[id] = None => l[id] = None
    <3>1. CASE Local!UpdateDraft(w)
      <4>1. card[w] \in made \X Texts
        BY <1>0, <3>1 DEF LocalData, Local!UpdateDraft
      <4> DEFINE id == card[w][1]
                 l == Local!Mapped(stored, id, [text |-> card[w][2]])
      <4>2. id \in made /\ id \in LocalIds /\ [text |-> card[w][2]] \in Local!Draft
        BY <1>0, <4>1 DEF LocalData, Local!Draft
      <4>3. l \in ListOfEntries
        BY <1>0, <4>2 DEF Local!Mapped, LocalData, ListOfEntries
      <4>4. Local!Persist(w, l)
        BY <3>1 DEF Local!UpdateDraft, Local!Base
      <4>5. (\A x \in LocalIds \ {id} : l[x] = stored[x]) /\ (stored[id] = None => l[id] = None)
        BY <1>0, <4>2 DEF Local!Mapped, LocalData, ListOfEntries
      <4> HIDE DEF id, l
      <4> QED BY <4>2, <4>3, <4>4, <4>5
    <3>2. CASE Local!DeleteDraft(w)
      <4>1. confirming[w] \in made /\ confirming[w] \in LocalIds
        BY <1>0, <3>2 DEF LocalData, Local!DeleteDraft
      <4> DEFINE id == confirming[w]
                 l == [stored EXCEPT ![id] = None]
      <4>2. l \in ListOfEntries /\ Local!Persist(w, l)
        BY <1>0, <3>2, <4>1 DEF LocalData, Local!DeleteDraft, ListOfEntries, Local!Base
      <4>3. (\A x \in LocalIds \ {id} : l[x] = stored[x]) /\ l[id] = None
        BY <1>0, <4>1 DEF LocalData, ListOfEntries
      <4> HIDE DEF id, l
      <4> QED BY <4>1, <4>2, <4>3 DEF id
    <3> QED BY <1>3, <3>1, <3>2
  <2>2. made' = made /\ stored' = l /\ id \in LocalIds
    BY <1>0, <1>3, <2>1 DEF Local!UpdateDraft, Local!DeleteDraft, Local!Persist, LocalData
  <2>3. \A x \in LocalIds : l[x] # None => x \in made'
    BY <1>0, <2>1, <2>2 DEF CopiesFit
  <2>4. /\ stored' \in ListOfEntries' /\ copy' \in [Windows -> {None} \cup ListOfEntries']
        /\ painted' \in [Windows -> Local!Days] /\ CopiesFit'
    BY <1>0, <2>1, <2>2, <2>3, PersistKeeps DEF LocalData
  <2>5. /\ card' \in [Windows -> {None} \cup (made \X Texts)]
        /\ confirming' \in [Windows -> {None} \cup made]
    BY <1>0, <1>3 DEF Local!UpdateDraft, Local!DeleteDraft, LocalData
  <2>6. LocalInv'
    BY <1>0, <2>2, <2>4, <2>5 DEF LocalInv, LocalData, Local!Days
  <2>7. ChangesOne /\ NoneComesBack
    BY <1>0, <2>1, <2>2, OneItem DEF NoneComesBack, LocalData
  <2> QED BY <1>0, <2>6, <2>7 DEF LocalRules
<1> QED BY <1>2, <1>3

\* Promotions: created and deleted.
LEMMA PromotionSteps ==
  ASSUME LocalInv, NEW w \in Windows, Local!CreatePromotion(w) \/ Local!DeletePromotion(w)
  PROVE  LocalInv' /\ LocalRules
<1>0. /\ LocalData /\ CopiesFit /\ section = "promotions"
      /\ UNCHANGED <<section, today, card, confirming>> /\ Entries = Local!Promotion
  BY DEF LocalInv, Local!CreatePromotion, Local!DeletePromotion, Entries
<1>1. CASE Local!CreatePromotion(w)
  <2>1. PICK id \in Local!Free, p \in Local!Promotion :
          Local!Persist(w, [stored EXCEPT ![id] = p]) /\ made' = made \cup {id}
    BY <1>1 DEF Local!CreatePromotion, Local!Base
  <2> DEFINE l == [stored EXCEPT ![id] = p]
  <2>2. id \in LocalIds /\ id \notin made /\ stored[id] = None /\ made' \subseteq LocalIds
    BY <1>0, <2>1 DEF Local!Free, CopiesFit, LocalData
  <2>3. l \in ListOfEntries /\ \A x \in LocalIds \ {id} : l[x] = stored[x]
    BY <1>0, <2>1, <2>2 DEF LocalData, ListOfEntries
  <2>4. stored' = l
    BY <2>1 DEF Local!Persist
  <2> HIDE DEF l
  <2>5. Local!Persist(w, l)
    BY <2>1 DEF l
  <2>6. /\ \A x \in LocalIds : l[x] # None => x \in made'
        /\ \A x \in LocalIds : l[x] \in {None, stored[x]} \/ (stored[x] = None /\ x \notin made)
    BY <1>0, <2>1, <2>2, <2>3 DEF CopiesFit
  <2>7. /\ stored' \in ListOfEntries' /\ copy' \in [Windows -> {None} \cup ListOfEntries']
        /\ painted' \in [Windows -> Local!Days] /\ CopiesFit'
    <3>1. made \subseteq made'
      BY <2>1
    <3> QED BY <1>0, <2>2, <2>3, <2>5, <2>6, <3>1, PersistKeeps
  <2>8. LocalInv'
    BY <1>0, <2>1, <2>2, <2>7 DEF LocalInv, LocalData, Local!Days
  <2>9. ChangesOne
    BY <2>3, <2>4, OneItem
  <2>10. NoneComesBack
    BY <1>0, <2>2, <2>3, <2>4 DEF NoneComesBack, LocalData
  <2>11. \A x \in LocalIds : stored[x] # None => stored'[x] # None
    BY <2>2, <2>3, <2>4
  <2> QED BY <2>8, <2>9, <2>10, <2>11 DEF LocalRules
<1>2. CASE Local!DeletePromotion(w)
  <2>1. PICK id \in made :
          /\ Local!Has(copy[w], id) /\ Local!Status(copy[w][id], painted[w]) # "Active"
          /\ Local!Persist(w, [stored EXCEPT ![id] = None])
    BY <1>2 DEF Local!DeletePromotion, Local!Base
  <2> DEFINE l == [stored EXCEPT ![id] = None]
  <2>2. made' = made /\ id \in LocalIds /\ stored' = l /\ copy' = [copy EXCEPT ![w] = l]
    BY <1>0, <1>2, <2>1 DEF LocalData, Local!DeletePromotion, Local!Persist
  <2>3. l \in ListOfEntries /\ l[id] = None /\ \A x \in LocalIds \ {id} : l[x] = stored[x]
    BY <1>0, <2>2 DEF LocalData, ListOfEntries
  <2>4. stored[id] # None => Local!Status(stored[id], painted[w]) # "Active"
    BY <1>0, <2>1, <2>2 DEF CopiesFit, Local!Has
  <2> HIDE DEF l
  <2>5. Local!Persist(w, l)
    BY <2>1 DEF l
  <2>6. \A x \in LocalIds : l[x] # None => x \in made'
    BY <1>0, <2>2, <2>3 DEF CopiesFit
  <2>7. /\ stored' \in ListOfEntries' /\ copy' \in [Windows -> {None} \cup ListOfEntries']
        /\ painted' \in [Windows -> Local!Days] /\ CopiesFit'
    <3>1. made \subseteq made' /\ made' \subseteq LocalIds
      BY <1>0, <2>2 DEF LocalData
    <3>2. \A x \in LocalIds : l[x] \in {None, stored[x]}
      BY <2>3
    <3> QED BY <1>0, <2>3, <2>5, <2>6, <3>1, <3>2, PersistKeeps
  <2>8. LocalInv'
    BY <1>0, <2>2, <2>7 DEF LocalInv, LocalData, Local!Days
  <2>9. ChangesOne
    BY <2>2, <2>3, OneItem
  <2>10. ASSUME NEW x \in LocalIds, NEW v \in Windows,
                stored[x] # None, stored'[x] = None, copy'[v] # copy[v]
         PROVE  painted[v] \notin stored[x].from..stored[x].to
    <3>1. x = id
      BY <2>2, <2>3, <2>10
    <3>2. v = w
      BY <1>0, <2>2, <2>10 DEF LocalData
    <3>3. /\ stored[id] \in Local!Promotion /\ painted[w] \in Local!Days
      BY <1>0, <2>10, <3>1 DEF LocalData, ListOfEntries
    <3>4. stored[id].from \in Int /\ stored[id].to \in Int /\ painted[w] \in Int
      BY <3>3, ScreensType DEF Local!Promotion, Local!Days
    <3>5. ~(stored[id].from <= painted[w] /\ painted[w] <= stored[id].to)
      BY <2>4, <2>10, <3>1, <3>4 DEF Local!Status
    <3> QED BY <3>1, <3>2, <3>4, <3>5
  <2>11. NoneComesBack
    BY <1>0, <2>2, <2>3 DEF NoneComesBack, LocalData
  <2> QED BY <2>8, <2>9, <2>10, <2>11 DEF LocalRules
<1> QED BY <1>1, <1>2

LEMMA LocalKeeps ==
  ASSUME LocalInv, [Local!Next]_localVars
  PROVE  LocalInv' /\ LocalRules
<1>1. ASSUME LocalInv', stored' = stored PROVE LocalRules
  <2>1. ChangesOne
    BY <1>1, OneItem
  <2> QED BY <1>1, <2>1 DEF LocalRules, NoneComesBack
<1>2. CASE UNCHANGED localVars
  <2>1. LocalInv' /\ stored' = stored
    BY <1>2 DEF LocalInv, LocalData, CopiesFit, localVars, ListOfEntries, Entries, Local!Draft,
       Local!Promotion, Local!Days
  <2> QED BY <1>1, <2>1
<1>3. CASE Local!Next
  <2>1. CASE \/ Local!Start("drafts") \/ Local!Start("promotions") \/ Local!Midnight
             \/ \E w \in Windows :
                  \/ Local!OpenPage(w) \/ Local!ContinueWriting(w) \/ Local!Type(w)
                  \/ Local!AskDelete(w) \/ Local!Cancel(w) \/ Local!Repaint(w)
    BY <1>1, <2>1, LocalReads
  <2>2. CASE \E w \in Windows :
               Local!SaveDraft(w) \/ Local!UpdateDraft(w) \/ Local!DeleteDraft(w)
    BY <2>2, DraftSteps
  <2>3. CASE \E w \in Windows : Local!CreatePromotion(w) \/ Local!DeletePromotion(w)
    BY <2>3, PromotionSteps
  <2> QED BY <1>3, <2>1, <2>2, <2>3 DEF Local!Next
<1> QED BY <1>2, <1>3

-----------------------------------------------------------------------------
(* The lists that are edited row by row.                                     *)

RowValues ==
  List!NoticeValues \cup List!SavedValues \cup List!ReplyValues \cup List!ReviewValues
    \cup {"live", List!Gone}
ListEdits ==
  {"mark", "markAll", "delete", "toggle", "move", "reply", "save", "remove", "revoke", "revokeAll"}
ListButtons ==
  {None} \cup ({"delete", "remove", "reply", "save", "signOut"} \X (Items \cup {None}))
ListCall ==
  [edit : ListEdits, for : SUBSET Items, todo : SUBSET Items, to : RowValues \cup {None},
   on : ListButtons, step : {"edit", "refetch", "orphan"}, mounted : BOOLEAN, seen : BOOLEAN,
   alone : BOOLEAN]
NoCall ==
  [edit : {None}, for : {{}}, todo : {{}}, to : {None}, on : {None}, step : {None},
   mounted : {FALSE}, seen : {FALSE}, alone : {FALSE}]
ListFetch ==
  [by : Calls \cup {None, "load"}, key : List!AllKeys \cup {None}, got : {None} \cup SUBSET Items,
   was : [Items -> RowValues]]

ListData ==
  /\ kind \in List!Kinds \cup {"closed"} /\ here \in BOOLEAN
  /\ rows \in [Items -> RowValues] /\ known \in [Items -> RowValues] /\ key \in List!AllKeys
  /\ lists \in [List!AllKeys -> {None} \cup SUBSET Items]
  /\ calls \in [Calls -> NoCall \cup ListCall] /\ fetch \in ListFetch
  /\ editing \in Items \cup {None}
  /\ kind = "closed" => \A c \in Calls : calls[c] \in NoCall

\* A handler edits what its screen offers.
HandlerFits(x) ==
  /\ x.todo \subseteq x.for /\ (x.step = "refetch" => x.todo = {})
  /\ x.edit = "move" => x.to # List!Gone
  /\ x.edit # "toggle" => x.to \in RowValues
  /\ x.edit = "toggle" =>
       /\ kind = "saved" /\ x.step # "orphan"
       /\ \E i \in Items : x.for = {i} /\ x.on \in {None, <<"remove", i>>}
  /\ x.edit = "revokeAll" => kind = "sessions"
  /\ kind = "saved" => x.edit \in {"toggle", "move"}
  /\ kind = "sessions" => x.edit \in {"revoke", "revokeAll"} /\ x.to = List!Gone /\ Mine \notin x.for

\* What a sweep has done is done, and what the only toggle of a row is about to remove
\* is there.
RowsFit(x) ==
  /\ x.edit = "revokeAll" /\ x.step # "orphan" => \A i \in x.for \ x.todo : rows[i] = List!Gone
  /\ x.edit = "toggle" /\ x.seen /\ x.alone => \A i \in x.todo : rows[i] # List!Gone

HandlersFit ==
  /\ \A c \in Calls : calls[c] \in ListCall => HandlerFits(calls[c]) /\ RowsFit(calls[c])
  /\ \A c, d \in Calls :
       c # d /\ calls[c].edit = "toggle" /\ calls[d].edit = "toggle" /\ calls[c].alone =>
         calls[c].todo \cap calls[d].todo = {}

\* A listed row was there when it was read, and who waits for a list refetches it.
ListsFit ==
  /\ \A k \in List!AllKeys : lists[k] # None => \A i \in lists[k] : known[i] # List!Gone
  /\ fetch.got # None => \A i \in fetch.got : fetch.was[i] # List!Gone
  /\ fetch.by \in Calls => calls[fetch.by].step = "refetch" /\ calls[fetch.by].mounted

ListInv == ListData /\ HandlersFit /\ ListsFit

\* A handler that goes on: its button may have come back.
SameCall(x, y) ==
  /\ y \in ListCall /\ y.on \in {x.on, None}
  /\ y.edit = x.edit /\ y.for = x.for /\ y.todo = x.todo /\ y.to = x.to /\ y.step = x.step
  /\ (y.seen => x.seen) /\ (y.alone => x.alone)
Continues(x, y) ==
  /\ x \in NoCall => y \in NoCall
  /\ x \in ListCall => y \in NoCall \/ SameCall(x, y)

LEMMA CallTypes ==
  /\ List!Idle \in NoCall /\ NoCall \cap ListCall = {}
  /\ \A x \in NoCall : /\ x.edit = None /\ x.todo = {} /\ x.for = {} /\ x.step = None
                       /\ x.on = None /\ x.mounted = FALSE
                       /\ [x EXCEPT !.seen = FALSE] \in NoCall
  /\ None \notin {"edit", "refetch", "orphan", "toggle", "revokeAll"}
<1>1. List!Idle \in NoCall
  BY DEF List!Idle, NoCall
<1>2. \A x \in NoCall : /\ x.edit = None /\ x.todo = {} /\ x.for = {} /\ x.step = None
                        /\ x.on = None /\ x.mounted = FALSE
                        /\ [x EXCEPT !.seen = FALSE] \in NoCall
  BY DEF NoCall
<1>3. NoCall \cap ListCall = {}
  BY <1>2, ScreensType DEF ListCall
<1> QED BY <1>1, <1>2, <1>3, ScreensType

\* What does not change because it is a constant.
LEMMA ListConstants ==
  /\ ListCall' = ListCall /\ NoCall' = NoCall /\ ListFetch' = ListFetch /\ RowValues' = RowValues
  /\ List!AllKeys' = List!AllKeys /\ List!Gone' = List!Gone /\ List!Kinds' = List!Kinds
  /\ List!Idle' = List!Idle
<1>1. RowValues' = RowValues /\ List!AllKeys' = List!AllKeys /\ List!Gone' = List!Gone
  BY DEF RowValues, List!NoticeValues, List!SavedValues, List!ReplyValues, List!ReviewValues, List!Gone,
     List!AllKeys, List!NoticeTabs, List!ReviewSorts
<1>2. List!Kinds' = List!Kinds /\ List!Idle' = List!Idle
  BY DEF List!Kinds, List!Idle
<1> QED BY <1>1, <1>2 DEF ListCall, NoCall, ListFetch, ListEdits, ListButtons

LEMMA ListInitially == List!Init => ListInv
<1> SUFFICES ASSUME List!Init PROVE ListInv
  OBVIOUS
<1>1. fetch \in ListFetch /\ fetch.got = None /\ fetch.by = None
  BY DEF List!Init, List!NoFetch, ListFetch, RowValues
<1>2. calls \in [Calls -> NoCall]
  BY CallTypes DEF List!Init
<1>3. ListData
  BY <1>1, <1>2 DEF List!Init, ListData, List!AllKeys, List!NoticeTabs, RowValues
<1>4. HandlersFit
  BY <1>2, CallTypes DEF HandlersFit
<1>5. ListsFit
  BY <1>1, ScreensType DEF List!Init, ListsFit
<1> QED BY <1>3, <1>4, <1>5 DEF ListInv

\* Handlers that go on, or have ended.
LEMMA SelfContinues == \A x \in NoCall \cup ListCall : Continues(x, x)
BY DEF Continues, SameCall

LEMMA HandlersStay ==
  ASSUME ListInv, UNCHANGED <<kind, rows>>, \A c \in Calls : Continues(calls[c], calls'[c])
  PROVE  HandlersFit'
<1>0. \A c \in Calls : calls[c] \in NoCall \cup ListCall
  BY DEF ListInv, ListData
<1>1. \A c \in Calls : calls'[c] \in ListCall \/ calls'[c].edit = "toggle" =>
        calls[c] \in ListCall /\ SameCall(calls[c], calls'[c])
  BY <1>0, CallTypes DEF Continues
<1>2. ASSUME NEW c \in Calls, calls'[c] \in ListCall
      PROVE  (HandlerFits(calls[c]) /\ RowsFit(calls[c]))'
  <2>1. SameCall(calls[c], calls'[c]) /\ HandlerFits(calls[c]) /\ RowsFit(calls[c])
    BY <1>1, <1>2 DEF ListInv, HandlersFit
  <2>2. HandlerFits(calls'[c])
    BY <2>1 DEF HandlerFits, SameCall
  <2>3. RowsFit(calls'[c])
    BY <2>1 DEF RowsFit, SameCall
  <2> QED BY <2>2, <2>3, ListConstants DEF HandlerFits, RowsFit
<1>3. ASSUME NEW c \in Calls, NEW d \in Calls, c # d,
             calls'[c].edit = "toggle", calls'[d].edit = "toggle", calls'[c].alone
      PROVE  calls'[c].todo \cap calls'[d].todo = {}
  <2>1. SameCall(calls[c], calls'[c]) /\ SameCall(calls[d], calls'[d])
    BY <1>1, <1>3
  <2> QED BY <1>3, <2>1 DEF SameCall, ListInv, HandlersFit
<1> QED BY <1>2, <1>3, ListConstants DEF HandlersFit

\* Cards that leave the page take the state of their buttons along, and nothing else.
LEMMA Forgotten ==
  ASSUME NEW cs \in [Calls -> NoCall \cup ListCall], NEW kept
  PROVE  /\ List!Forgets(cs, kept) \in [Calls -> NoCall \cup ListCall]
         /\ \A c \in Calls :
              /\ cs[c] \in NoCall => List!Forgets(cs, kept)[c] \in NoCall
              /\ cs[c] \in ListCall => /\ SameCall(cs[c], List!Forgets(cs, kept)[c])
                                       /\ List!Forgets(cs, kept)[c].seen = cs[c].seen
                                       /\ List!Forgets(cs, kept)[c].alone = cs[c].alone
              /\ List!Forgets(cs, kept)[c].step = cs[c].step
              /\ List!Forgets(cs, kept)[c].mounted = cs[c].mounted
<1> SUFFICES ASSUME NEW c \in Calls
             PROVE  /\ List!Forgets(cs, kept)[c] \in NoCall \cup ListCall
                    /\ cs[c] \in NoCall => List!Forgets(cs, kept)[c] \in NoCall
                    /\ cs[c] \in ListCall => /\ SameCall(cs[c], List!Forgets(cs, kept)[c])
                                             /\ List!Forgets(cs, kept)[c].seen = cs[c].seen
                                             /\ List!Forgets(cs, kept)[c].alone = cs[c].alone
                    /\ List!Forgets(cs, kept)[c].step = cs[c].step
                    /\ List!Forgets(cs, kept)[c].mounted = cs[c].mounted
  BY DEF List!Forgets
<1> DEFINE x == cs[c]
           y == List!Forgets(cs, kept)[c]
<1>1. x \in NoCall \cup ListCall /\ y \in {x, [x EXCEPT !.on = None]}
  BY DEF List!Forgets
<1> HIDE DEF x, y
<1>2. CASE x \in NoCall
  <2>1. y \in NoCall /\ y.step = x.step /\ y.mounted = x.mounted
    BY <1>1, <1>2 DEF NoCall
  <2> QED BY <1>2, <2>1, CallTypes DEF x, y
<1>3. CASE x \in ListCall
  <2>1. [x EXCEPT !.on = None] \in ListCall
    BY <1>3 DEF ListCall, ListButtons
  <2>2. /\ SameCall(x, y) /\ y.step = x.step /\ y.mounted = x.mounted
        /\ y.seen = x.seen /\ y.alone = x.alone
    BY <1>1, <1>3, <2>1 DEF SameCall, ListCall
  <2>3. y \in ListCall
    BY <2>2 DEF SameCall
  <2> QED BY <1>3, <2>2, <2>3, CallTypes DEF x, y
<1> QED BY <1>1, <1>2, <1>3

\* What the query hook does when it mounts or when its variables change.
LEMMA Loaded ==
  ASSUME ListInv, NEW k \in List!AllKeys, List!Load(k), UNCHANGED <<lists, known>>,
         \A c \in Calls : calls'[c].step = calls[c].step /\ calls'[c].mounted = calls[c].mounted
  PROVE  fetch' \in ListFetch' /\ ListsFit'
<1>1. CASE fetch' = fetch
  BY <1>1, ListConstants DEF ListInv, ListData, ListsFit
<1>2. CASE fetch' = List!Fetch("load", k)
  <2>1. fetch' \in ListFetch' /\ fetch'.got = None /\ fetch'.by = "load"
    <3>1. List!Gone \in RowValues
      BY DEF RowValues
    <3> QED BY <1>2, <3>1, ListConstants DEF List!Fetch, List!NoFetch, ListFetch
  <2> QED BY <2>1, ScreensType, ListConstants DEF ListInv, ListsFit
<1> QED BY <1>1, <1>2 DEF List!Load

\* A handler goes on with its edit until it ends, and nobody touches the session
\* of this browser.
CallsGoOn ==
  \A c \in Calls : calls[c] \in ListCall =>
    calls'[c] \in NoCall \/ (calls'[c].edit = calls[c].edit /\ calls'[c].for = calls[c].for)
MineStays == kind = "sessions" /\ others' = others => rows'[Mine] = rows[Mine]

\* The handlers when a screen is opened, left, shown again or filtered.
LEMMA ButtonsForgotten ==
  ASSUME ListInv,
         \/ \E k \in List!Kinds : List!Open(k)
         \/ List!Leave \/ List!Return \/ \E k \in List!AllKeys : List!SelectTab(k)
         \/ \E i \in Items : List!Filter(i) \/ List!StartEdit(i)
         \/ List!CancelEdit
  PROVE  /\ calls' \in [Calls -> NoCall \cup ListCall]
         /\ \A c \in Calls : /\ Continues(calls[c], calls'[c])
                             /\ calls[c] \in ListCall => SameCall(calls[c], calls'[c])
                             /\ calls'[c].step = calls[c].step
                             /\ calls'[c].mounted \in {calls[c].mounted, FALSE}
                             /\ ~List!Leave => calls'[c].mounted = calls[c].mounted
<1>0. calls \in [Calls -> NoCall \cup ListCall]
  BY DEF ListInv, ListData
<1>1. CASE calls' = calls
  BY <1>0, <1>1, SelfContinues DEF SameCall
<1>2. ASSUME NEW kept, calls' = List!Forgets(calls, kept)
      PROVE  /\ calls' \in [Calls -> NoCall \cup ListCall]
             /\ \A c \in Calls : /\ Continues(calls[c], calls'[c])
                                 /\ calls[c] \in ListCall => SameCall(calls[c], calls'[c])
                                 /\ calls'[c].step = calls[c].step
                                 /\ calls'[c].mounted = calls[c].mounted
  BY <1>0, <1>2, Forgotten DEF Continues
<1>3. CASE List!Leave
  <2> DEFINE F == List!Forgets(calls, {})
  <2>1. /\ F \in [Calls -> NoCall \cup ListCall]
        /\ \A c \in Calls : /\ calls[c] \in NoCall => F[c] \in NoCall
                            /\ calls[c] \in ListCall => SameCall(calls[c], F[c])
                            /\ F[c].step = calls[c].step
    BY <1>0, Forgotten
  <2> HIDE DEF F
  <2>2. calls' = [c \in Calls |-> [F[c] EXCEPT !.mounted = FALSE]]
    BY <1>3 DEF List!Leave, F
  <2>3. ASSUME NEW c \in Calls
        PROVE  /\ calls'[c] \in NoCall \cup ListCall /\ Continues(calls[c], calls'[c])
               /\ calls[c] \in ListCall => SameCall(calls[c], calls'[c])
               /\ calls'[c].step = calls[c].step /\ calls'[c].mounted = FALSE
    <3>1. calls'[c] = [F[c] EXCEPT !.mounted = FALSE]
      BY <2>2
    <3>2. CASE calls[c] \in NoCall
      <4>1. F[c] \in NoCall
        BY <2>1, <3>2
      <4>2. calls'[c] \in NoCall
        BY <3>1, <4>1 DEF NoCall
      <4> QED BY <3>2, <4>2, CallTypes DEF Continues
    <3>3. CASE calls[c] \in ListCall
      <4>1. F[c] \in ListCall /\ SameCall(calls[c], F[c])
        BY <2>1, <3>3 DEF SameCall
      <4>2. calls'[c] \in ListCall /\ SameCall(F[c], calls'[c]) /\ calls'[c].mounted = FALSE
        BY <3>1, <4>1 DEF ListCall, SameCall
      <4>3. SameCall(calls[c], calls'[c])
        BY <4>1, <4>2 DEF SameCall
      <4> QED BY <3>3, <4>2, <4>3, CallTypes DEF Continues, SameCall
    <3> QED BY <1>0, <3>2, <3>3
  <2> QED BY <1>3, <2>2, <2>3
<1>4. CASE List!Leave \/ \E kept : calls' = List!Forgets(calls, kept)
  BY <1>2, <1>3, <1>4
<1>5. calls' = calls \/ List!Leave \/ \E kept : calls' = List!Forgets(calls, kept)
  BY DEF List!Open, List!Return, List!SelectTab, List!Filter, List!StartEdit, List!CancelEdit,
     List!Rerendered
<1> QED BY <1>1, <1>4, <1>5

LEMMA ListNavigates ==
  ASSUME ListInv,
         \/ \E k \in List!Kinds : List!Open(k)
         \/ List!Leave \/ List!Return \/ \E k \in List!AllKeys : List!SelectTab(k)
         \/ \E i \in Items : List!Filter(i) \/ List!StartEdit(i)
         \/ List!CancelEdit
  PROVE  ListInv' /\ CallsGoOn /\ MineStays
<1>0. /\ ListData /\ HandlersFit /\ ListsFit /\ UNCHANGED <<lists, known>>
  BY DEF ListInv, List!Open, List!Leave, List!Return, List!SelectTab, List!Filter, List!StartEdit,
     List!CancelEdit
<1>1. /\ calls' \in [Calls -> NoCall \cup ListCall]
      /\ \A c \in Calls : /\ Continues(calls[c], calls'[c]) /\ calls'[c].step = calls[c].step
                          /\ ~List!Leave => calls'[c].mounted = calls[c].mounted
  BY ButtonsForgotten
<1>2. CallsGoOn
  BY <1>1 DEF CallsGoOn, Continues, SameCall
<1>3. (\A c \in Calls : calls[c] \in NoCall) => \A c \in Calls : calls'[c] \in NoCall
  BY <1>1 DEF Continues
<1> USE DEF ListData
<1>4. ASSUME NEW k \in List!Kinds, List!Open(k) PROVE ListInv' /\ MineStays
  <2>1. /\ kind = "closed" /\ kind' = k /\ here' = TRUE /\ key' = "ALL" /\ editing' = editing
        /\ List!Load("ALL") /\ calls' = calls
    BY <1>4 DEF List!Open
  <2>2. rows' \in [Items -> RowValues]
    <3>1. PICK s \in [Items -> List!Values(k) \cup {List!Gone}] : rows' = s
      BY <1>4 DEF List!Open
    <3>2. List!Values(k) \cup {List!Gone} \subseteq RowValues
      BY DEF List!Values, RowValues, List!Kinds
    <3> QED BY <3>1, <3>2
  <2>3. fetch' \in ListFetch' /\ ListsFit'
    BY <1>0, <2>1, Loaded DEF List!AllKeys, List!NoticeTabs
  <2>4. ListData'
    <3>1. key' \in List!AllKeys
      BY <2>1 DEF List!AllKeys, List!NoticeTabs
    <3>2. k # "closed"
      BY DEF List!Kinds
    <3> QED BY <1>0, <1>1, <1>4, <2>1, <2>2, <2>3, <3>1, <3>2, ListConstants
  <2>5. HandlersFit'
    BY <1>0, <2>1, CallTypes, ListConstants DEF HandlersFit
  <2> QED BY <2>1, <2>3, <2>4, <2>5 DEF ListInv, MineStays
<1>5. CASE \/ List!Leave \/ List!CancelEdit
           \/ \E i \in Items : List!Filter(i) \/ List!StartEdit(i)
  <2>1. /\ UNCHANGED <<kind, rows, key>> /\ here' \in BOOLEAN /\ editing' \in Items \cup {None}
        /\ (fetch' = fetch /\ ~List!Leave) \/ fetch' = List!NoFetch
    BY <1>0, <1>5 DEF List!Leave, List!CancelEdit, List!Filter, List!StartEdit
  <2>2. List!NoFetch \in ListFetch /\ List!NoFetch.got = None /\ List!NoFetch.by = None
    BY DEF List!NoFetch, ListFetch, RowValues
  <2>3. ListData'
    BY <1>0, <1>1, <1>3, <2>1, <2>2, ListConstants
  <2>4. HandlersFit'
    BY <1>1, <2>1, HandlersStay
  <2>5. ListsFit'
    BY <1>0, <1>1, <2>1, <2>2, ScreensType, ListConstants DEF ListsFit
  <2> QED BY <1>2, <2>1, <2>3, <2>4, <2>5 DEF ListInv, MineStays
<1>6. CASE List!Return \/ \E k \in List!AllKeys : List!SelectTab(k)
  <2>1. /\ UNCHANGED <<kind, rows, editing>> /\ here' \in BOOLEAN
        /\ \E k \in List!AllKeys : key' = k /\ List!Load(k)
        /\ \A c \in Calls : calls'[c].mounted = calls[c].mounted
    <3>1. UNCHANGED <<kind, rows, editing>> /\ here' \in BOOLEAN
      BY <1>0, <1>6 DEF List!Return, List!SelectTab
    <3>2. \E k \in List!AllKeys : key' = k /\ List!Load(k)
      BY <1>6 DEF List!Return, List!SelectTab, List!AllKeys, List!NoticeTabs
    <3>3. CASE List!Return
      BY <3>1, <3>2, <3>3 DEF List!Return
    <3>4. CASE \E k \in List!AllKeys : List!SelectTab(k)
      <4>1. calls' = List!Rerendered(calls)
        BY <3>4 DEF List!SelectTab
      <4>2. \A c \in Calls : calls'[c].mounted = calls[c].mounted
        BY <1>0, <4>1, Forgotten DEF List!Rerendered
      <4> QED BY <3>1, <3>2, <4>2
    <3> QED BY <1>6, <3>3, <3>4
  <2>2. fetch' \in ListFetch' /\ ListsFit'
    BY <1>0, <1>1, <2>1, Loaded
  <2>3. ListData'
    BY <1>0, <1>1, <1>3, <2>1, <2>2, ListConstants
  <2>4. HandlersFit'
    BY <1>1, <2>1, HandlersStay
  <2> QED BY <1>2, <2>1, <2>2, <2>3, <2>4 DEF ListInv, MineStays
<1> QED BY <1>2, <1>4, <1>5, <1>6


\* The fields of a call that a click starts.
LEMMA EditIs ==
  ASSUME NEW a \in ListEdits, NEW is \in SUBSET Items, NEW v \in RowValues \cup {None},
         NEW b \in ListButtons
  PROVE  /\ List!Edit(a, is, v, b) \in ListCall
         /\ List!Edit(a, is, v, b).edit = a /\ List!Edit(a, is, v, b).for = is
         /\ List!Edit(a, is, v, b).todo = is /\ List!Edit(a, is, v, b).to = v
         /\ List!Edit(a, is, v, b).on = b /\ List!Edit(a, is, v, b).step = "edit"
         /\ List!Edit(a, is, v, b).alone
         /\ (List!Edit(a, is, v, b).seen => \A i \in is : rows[i] = known[i])
BY DEF List!Edit, ListCall

\* A click on a saved place.
LEMMA SavedClickIs ==
  ASSUME NEW e \in List!SavedClicks
  PROVE  \/ \E i \in List!Display : e = List!Edit("toggle", {i}, None, <<"remove", i>>)
         \/ \E i \in List!Display, v \in List!SavedValues : e = List!Edit("move", {i}, v, None)
<1>1. CASE e \in {List!Edit("move", {m[1]}, m[2], None) : m \in List!Display \X List!SavedValues}
  <2>1. PICK m \in List!Display \X List!SavedValues : e = List!Edit("move", {m[1]}, m[2], None)
    BY <1>1, Zenon
  <2>2. m[1] \in List!Display /\ m[2] \in List!SavedValues
    OBVIOUS
  <2> QED BY <2>1, <2>2
<1>2. CASE e \in {List!Edit("toggle", {i}, None, <<"remove", i>>) : i \in List!Display}
  BY <1>2, Zenon
<1> QED BY <1>1, <1>2, Zenon DEF List!SavedClicks

\* A click on a review of one's own.
LEMMA ReviewClickIs ==
  ASSUME NEW e \in List!ReviewClicks
  PROVE  \/ \E i \in List!Edited, v \in List!ReviewValues :
               e = List!Edit("save", {i}, v, List!SaveButton)
         \/ \E i \in List!Shown : e = List!Edit("remove", {i}, List!Gone, None)
<1>1. CASE e \in {List!Edit("save", {m[1]}, m[2], List!SaveButton) : m \in List!Edited \X List!ReviewValues}
  <2>1. PICK m \in List!Edited \X List!ReviewValues : e = List!Edit("save", {m[1]}, m[2], List!SaveButton)
    BY <1>1, Zenon
  <2>2. m[1] \in List!Edited /\ m[2] \in List!ReviewValues
    OBVIOUS
  <2> QED BY <2>1, <2>2
<1>2. CASE e \in {List!Edit("remove", {i}, List!Gone, None) : i \in List!Shown}
  BY <1>2, Zenon
<1> QED BY <1>1, <1>2, Zenon DEF List!ReviewClicks

\* Every button edits rows that its list shows, each kind of screen in its own way.
LEMMA ClickFits ==
  ASSUME ListInv, kind # "closed", NEW e \in List!Clicks
  PROVE  /\ e \in ListCall /\ HandlerFits(e) /\ RowsFit(e) /\ e.step = "edit"
         /\ e.alone
         /\ e.edit = "toggle" => \E i \in Items : e.for = {i} /\ e.on = <<"remove", i>>
         /\ e.edit # "toggle" => e.to \in {List!Gone} \cup List!Values(kind)
<1> DEFINE Fits(a, is, v, b) ==
      /\ e = List!Edit(a, is, v, b)
      /\ a \in ListEdits /\ is \in SUBSET Items /\ v \in RowValues \cup {None} /\ b \in ListButtons
      /\ a = "move" => v # List!Gone
      /\ a # "toggle" => v \in {List!Gone} \cup List!Values(kind)
      /\ a = "toggle" => kind = "saved" /\ \E i \in List!Display : is = {i} /\ b = <<"remove", i>>
      /\ a = "revokeAll" => kind = "sessions"
      /\ kind = "saved" => a \in {"toggle", "move"}
      /\ kind = "sessions" => a \in {"revoke", "revokeAll"} /\ v = List!Gone /\ Mine \notin is
<1>0. /\ kind \in List!Kinds /\ editing \in Items \cup {None}
      /\ List!Shown \subseteq Items /\ List!Display \subseteq List!Shown
      /\ \A i \in List!Shown : known[i] # List!Gone
  BY DEF ListInv, ListData, ListsFit, List!Shown, List!Display
<1> USE DEF ListEdits, ListButtons, RowValues, List!Values
<1>1. \E a, is, v, b : Fits(a, is, v, b)
  <2>1. CASE kind = "notices"
    <3>1. e \in List!NoticeClicks
      BY <2>1 DEF List!Clicks
    <3>2. CASE \E i \in List!Display : e = List!Edit("mark", {i}, "read", None)
      <4>1. PICK i \in List!Display : e = List!Edit("mark", {i}, "read", None)
        BY <3>2
      <4>2. Fits("mark", {i}, "read", None)
        BY <1>0, <2>1, <4>1 DEF List!NoticeValues
      <4> QED BY <4>2
    <3>3. CASE e = List!Edit("markAll", Items \ {Mine}, "read", None)
      <4>1. Fits("markAll", Items \ {Mine}, "read", None)
        BY <2>1, <3>3 DEF List!NoticeValues
      <4> QED BY <4>1
    <3>4. CASE \E i \in List!Display : e = List!Edit("delete", {i}, List!Gone, <<"delete", i>>)
      <4>1. PICK i \in List!Display : e = List!Edit("delete", {i}, List!Gone, <<"delete", i>>)
        BY <3>4
      <4>2. Fits("delete", {i}, List!Gone, <<"delete", i>>)
        BY <1>0, <2>1, <4>1
      <4> QED BY <4>2
    <3> QED BY <3>1, <3>2, <3>3, <3>4 DEF List!NoticeClicks
  <2>2. CASE kind = "saved"
    <3>1. e \in List!SavedClicks
      BY <2>2 DEF List!Clicks
    <3>2. CASE \E i \in List!Display : e = List!Edit("toggle", {i}, None, <<"remove", i>>)
      <4>1. PICK i \in List!Display : e = List!Edit("toggle", {i}, None, <<"remove", i>>)
        BY <3>2
      <4>2. Fits("toggle", {i}, None, <<"remove", i>>)
        BY <1>0, <2>2, <4>1
      <4> QED BY <4>2
    <3>3. CASE \E i \in List!Display, v \in List!SavedValues : e = List!Edit("move", {i}, v, None)
      <4>1. PICK i \in List!Display, v \in List!SavedValues : e = List!Edit("move", {i}, v, None)
        BY <3>3
      <4>2. Fits("move", {i}, v, None)
        BY <1>0, <2>2, <4>1 DEF List!SavedValues, List!Gone
      <4> QED BY <4>2
    <3>4. \/ \E i \in List!Display : e = List!Edit("toggle", {i}, None, <<"remove", i>>)
          \/ \E i \in List!Display, v \in List!SavedValues : e = List!Edit("move", {i}, v, None)
      BY <3>1, SavedClickIs
    <3> QED BY <3>2, <3>3, <3>4
  <2>3. CASE kind = "replies"
    <3>1. PICK i \in List!Display : e = List!Edit("reply", {i}, "replied", <<"reply", i>>)
      BY <2>3 DEF List!Clicks, List!ReplyClicks
    <3>2. Fits("reply", {i}, "replied", <<"reply", i>>)
      BY <1>0, <2>3, <3>1 DEF List!ReplyValues
    <3> QED BY <3>2
  <2>4. CASE kind = "reviews"
    <3>1. e \in List!ReviewClicks
      BY <2>4 DEF List!Clicks
    <3>2. CASE \E i \in List!Display, v \in List!ReviewValues :
                 e = List!Edit("save", {i}, v, List!SaveButton)
      <4>1. PICK i \in List!Display, v \in List!ReviewValues :
              e = List!Edit("save", {i}, v, List!SaveButton)
        BY <3>2
      <4>2. Fits("save", {i}, v, List!SaveButton)
        BY <1>0, <2>4, <4>1 DEF List!SaveButton
      <4> QED BY <4>2
    <3>3. CASE \E i \in List!Shown : e = List!Edit("remove", {i}, List!Gone, None)
      <4>1. PICK i \in List!Shown : e = List!Edit("remove", {i}, List!Gone, None)
        BY <3>3
      <4>2. Fits("remove", {i}, List!Gone, None)
        BY <1>0, <2>4, <4>1
      <4> QED BY <4>2
    <3>4. \/ \E i \in List!Display, v \in List!ReviewValues :
               e = List!Edit("save", {i}, v, List!SaveButton)
          \/ \E i \in List!Shown : e = List!Edit("remove", {i}, List!Gone, None)
      BY <3>1, ReviewClickIs DEF List!Edited
    <3> QED BY <3>2, <3>3, <3>4
  <2>5. CASE kind = "sessions"
    <3>1. e \in List!SecurityClicks \cup List!DangerClicks
      BY <2>5 DEF List!Clicks
    <3>2. CASE \E i \in List!Display \ {Mine} : e = List!Edit("revoke", {i}, List!Gone, None)
      <4>1. PICK i \in List!Display \ {Mine} : e = List!Edit("revoke", {i}, List!Gone, None)
        BY <3>2
      <4>2. Fits("revoke", {i}, List!Gone, None)
        BY <1>0, <2>5, <4>1
      <4> QED BY <4>2
    <3>3. CASE e = List!Edit("revokeAll", List!OtherSessions, List!Gone, List!SignOutButton)
      <4>1. Fits("revokeAll", List!OtherSessions, List!Gone, List!SignOutButton)
        BY <1>0, <2>5, <3>3 DEF List!OtherSessions, List!SignOutButton
      <4> QED BY <4>1
    <3> QED BY <3>1, <3>2, <3>3 DEF List!SecurityClicks, List!DangerClicks
  <2> QED BY <1>0, <2>1, <2>2, <2>3, <2>4, <2>5 DEF List!Kinds
<1> HIDE DEF ListEdits, ListButtons, RowValues, List!Values
<1>2. PICK a, is, v, b : Fits(a, is, v, b)
  BY <1>1
<1>3. /\ e \in ListCall /\ e.edit = a /\ e.for = is /\ e.todo = is /\ e.to = v /\ e.on = b
      /\ e.step = "edit" /\ (e.seen => \A i \in is : rows[i] = known[i])
      /\ e.alone
  <2>1. a \in ListEdits /\ is \in SUBSET Items /\ v \in RowValues \cup {None} /\ b \in ListButtons
    BY <1>2
  <2>2. e = List!Edit(a, is, v, b)
    BY <1>2
  <2> QED BY ONLY <2>1, <2>2, EditIs
<1>4. HandlerFits(e)
  <2>1. {List!Gone} \cup List!Values(kind) \subseteq RowValues
    BY <1>0 DEF List!Values, RowValues, List!Kinds
  <2> QED BY <1>0, <1>2, <1>3, <2>1 DEF HandlerFits
<1>5. RowsFit(e)
  BY <1>0, <1>2, <1>3 DEF RowsFit
<1> QED BY <1>2, <1>3, <1>4, <1>5

\* What a click does to the handlers: a second toggle of a row, from a card that came
\* back, is not alone, and neither is the first one any more.
LEMMA ClickIs ==
  ASSUME ListInv, kind # "closed", NEW c \in Calls, List!Click(c)
  PROVE  \E e \in List!Clicks :
           /\ e.on = None \/ ~List!Busy(e.on)
           /\ calls' \in [Calls -> NoCall \cup ListCall]
           /\ calls'[c] \in ListCall /\ calls'[c].step = "edit" /\ calls'[c].on = e.on
           /\ calls'[c].edit = e.edit /\ calls'[c].for = e.for /\ calls'[c].todo = e.todo
           /\ calls'[c].to = e.to /\ calls'[c].seen = e.seen
           /\ calls'[c].alone => List!Doubled(e) = {}
           /\ \A d \in Calls \ {c} :
                /\ Continues(calls[d], calls'[d])
                /\ calls'[d].step = calls[d].step /\ calls'[d].mounted = calls[d].mounted
                /\ d \in List!Doubled(e) => ~calls'[d].alone
<1>0. calls \in [Calls -> NoCall \cup ListCall]
  BY DEF ListInv, ListData
<1>1. PICK e \in List!Clicks :
        /\ e.on = None \/ ~List!Busy(e.on)
        /\ calls' = [x \in Calls |-> IF x = c THEN [e EXCEPT !.alone = List!Doubled(e) = {}]
                                     ELSE IF x \in List!Doubled(e) THEN [calls[x] EXCEPT !.alone = FALSE]
                                     ELSE calls[x]]
  BY DEF List!Click
<1>2. e \in ListCall /\ e.step = "edit"
  BY ClickFits
<1> DEFINE y == [e EXCEPT !.alone = List!Doubled(e) = {}]
<1>3. /\ y \in ListCall /\ y.step = "edit" /\ y.on = e.on /\ y.edit = e.edit /\ y.for = e.for
      /\ y.todo = e.todo /\ y.to = e.to /\ y.seen = e.seen /\ y.alone = (List!Doubled(e) = {})
  <2>1. (List!Doubled(e) = {}) \in BOOLEAN
    OBVIOUS
  <2> QED BY <1>2, <2>1 DEF ListCall
<1>4. calls'[c] = y
  BY <1>1
<1>5. ASSUME NEW d \in Calls \ {c}
      PROVE  /\ calls'[d] \in NoCall \cup ListCall /\ Continues(calls[d], calls'[d])
             /\ calls'[d].step = calls[d].step /\ calls'[d].mounted = calls[d].mounted
             /\ d \in List!Doubled(e) => ~calls'[d].alone
  <2>1. CASE d \notin List!Doubled(e)
    <3>1. calls'[d] = calls[d]
      BY <1>1, <2>1
    <3> QED BY <1>0, <2>1, <3>1, SelfContinues
  <2>2. CASE d \in List!Doubled(e)
    <3>1. calls'[d] = [calls[d] EXCEPT !.alone = FALSE]
      BY <1>1, <2>2
    <3>2. CASE calls[d] \in NoCall
      <4>1. /\ calls'[d] \in NoCall /\ calls'[d].alone = FALSE
            /\ calls'[d].step = calls[d].step /\ calls'[d].mounted = calls[d].mounted
        BY <3>1, <3>2 DEF NoCall
      <4> QED BY <3>2, <4>1, CallTypes DEF Continues
    <3>3. CASE calls[d] \in ListCall
      <4>1. /\ calls'[d] \in ListCall /\ SameCall(calls[d], calls'[d]) /\ calls'[d].alone = FALSE
            /\ calls'[d].step = calls[d].step /\ calls'[d].mounted = calls[d].mounted
        BY <3>1, <3>3 DEF ListCall, SameCall
      <4> QED BY <3>3, <4>1, CallTypes DEF Continues
    <3> QED BY <1>0, <3>2, <3>3
  <2> QED BY <2>1, <2>2
<1> HIDE DEF y
<1>6. calls' \in [Calls -> NoCall \cup ListCall]
  <2>1. \A d \in Calls : calls'[d] \in NoCall \cup ListCall
    BY <1>3, <1>4, <1>5
  <2> QED BY <1>1, <2>1
<1> QED BY <1>1, <1>3, <1>4, <1>5, <1>6

\* A click starts a handler, if its button does not wait for another one.
LEMMA ClickKeeps ==
  ASSUME ListInv, kind # "closed", NEW c \in Calls, List!Click(c)
  PROVE  ListInv' /\ CallsGoOn /\ MineStays
<1>1. PICK e \in List!Clicks :
           /\ e.on = None \/ ~List!Busy(e.on)
           /\ calls' \in [Calls -> NoCall \cup ListCall]
           /\ calls'[c] \in ListCall /\ calls'[c].step = "edit" /\ calls'[c].on = e.on
           /\ calls'[c].edit = e.edit /\ calls'[c].for = e.for /\ calls'[c].todo = e.todo
           /\ calls'[c].to = e.to /\ calls'[c].seen = e.seen
           /\ calls'[c].alone => List!Doubled(e) = {}
           /\ \A d \in Calls \ {c} :
                /\ Continues(calls[d], calls'[d])
                /\ calls'[d].step = calls[d].step /\ calls'[d].mounted = calls[d].mounted
                /\ d \in List!Doubled(e) => ~calls'[d].alone
  BY ClickIs
<1>2. /\ UNCHANGED <<kind, here, rows, key, lists, known, fetch, editing>> /\ calls[c] = List!Idle
      /\ ListData /\ HandlersFit /\ ListsFit /\ \A d \in Calls : calls[d] \in NoCall \cup ListCall
  BY DEF List!Click, ListInv, ListData
<1>3. /\ HandlerFits(e) /\ RowsFit(e) /\ e.step = "edit" /\ e.alone
      /\ e.edit = "toggle" => \E i \in Items : e.for = {i} /\ e.on = <<"remove", i>>
  BY ClickFits
<1>4. ListData'
  BY <1>1, <1>2, ListConstants DEF ListData
<1>5. \A d \in Calls \ {c} : calls'[d] \in ListCall \/ calls'[d].edit = "toggle" =>
        calls[d] \in ListCall /\ SameCall(calls[d], calls'[d])
  BY <1>1, <1>2, CallTypes DEF Continues
<1>6. ASSUME NEW d \in Calls, calls'[d] \in ListCall
      PROVE  (HandlerFits(calls[d]) /\ RowsFit(calls[d]))'
  <2>1. CASE d = c
    <3>1. HandlerFits(calls'[c])
      BY <1>1, <1>3 DEF HandlerFits
    <3>2. RowsFit(calls'[c])
      <4>1. ASSUME e.edit = "toggle", e.seen, NEW i \in e.todo PROVE rows[i] # List!Gone
        BY <1>3, <4>1 DEF RowsFit
      <4>2. ASSUME e.edit = "revokeAll", NEW i \in e.for \ e.todo PROVE rows[i] = List!Gone
        BY <1>3, <4>2 DEF RowsFit
      <4> QED BY <1>1, <4>1, <4>2 DEF RowsFit
    <3> QED BY <1>2, <2>1, <3>1, <3>2, ListConstants DEF HandlerFits, RowsFit
  <2>2. CASE d # c
    <3>1. SameCall(calls[d], calls'[d]) /\ HandlerFits(calls[d]) /\ RowsFit(calls[d])
      BY <1>2, <1>5, <1>6, <2>2 DEF HandlersFit
    <3>2. HandlerFits(calls'[d]) /\ RowsFit(calls'[d])
      BY <3>1 DEF HandlerFits, RowsFit, SameCall
    <3> QED BY <1>2, <3>2, ListConstants DEF HandlerFits, RowsFit
  <2> QED BY <2>1, <2>2
<1>7. ASSUME e.edit = "toggle", NEW d \in Calls \ {c}, calls'[d].edit = "toggle",
             NEW i \in calls'[c].todo \cap calls'[d].todo
      PROVE  d \in List!Doubled(e)
  <2>1. calls[d] \in ListCall /\ SameCall(calls[d], calls'[d]) /\ calls[d].edit = "toggle"
    BY <1>5, <1>7 DEF SameCall
  <2>2. HandlerFits(calls[d]) /\ calls[d] # List!Idle /\ i \in calls[d].todo \cap e.todo
    BY <1>1, <1>2, <1>7, <2>1, CallTypes DEF HandlersFit, SameCall
  <2>3. calls[d].step # "orphan" /\ calls[d].on \in {None, <<"remove", i>>} /\ e.on = <<"remove", i>>
    BY <1>3, <1>7, <2>1, <2>2 DEF HandlerFits
  <2>4. e.on # None /\ ~List!Busy(e.on)
    BY <1>1, <2>2, <2>3, ScreensType, <1>2, <1>3, <1>7
  <2>5. calls[d].on = None
    BY <2>2, <2>3, <2>4 DEF List!Busy, List!Running
  <2> QED BY <1>7, <2>2, <2>5 DEF List!Doubled, List!Running
<1>8. ASSUME NEW x \in Calls, NEW d \in Calls, x # d,
             calls'[x].edit = "toggle", calls'[d].edit = "toggle", calls'[x].alone
      PROVE  calls'[x].todo \cap calls'[d].todo = {}
  <2>1. CASE x = c
    BY <1>1, <1>7, <1>8, <2>1
  <2>2. CASE d = c
    BY <1>1, <1>7, <1>8, <2>2
  <2>3. CASE x # c /\ d # c
    <3>1. SameCall(calls[x], calls'[x]) /\ SameCall(calls[d], calls'[d])
      BY <1>5, <1>8, <2>3
    <3> QED BY <1>2, <1>8, <3>1 DEF SameCall, HandlersFit
  <2> QED BY <2>1, <2>2, <2>3
<1>9. HandlersFit'
  BY <1>6, <1>8, ListConstants DEF HandlersFit
<1>10. ListsFit'
  <2>1. calls[c].step # "refetch"
    BY <1>2, CallTypes
  <2> QED BY <1>1, <1>2, <2>1, ListConstants DEF ListsFit
<1>11. CallsGoOn /\ MineStays
  <2>1. calls[c] \notin ListCall
    BY <1>2, CallTypes
  <2> QED BY <1>1, <1>2, <2>1 DEF CallsGoOn, MineStays, Continues, SameCall
<1> QED BY <1>4, <1>9, <1>10, <1>11 DEF ListInv

\* What an edit leaves of a row.
LEMMA EffectOf ==
  ASSUME ListInv, NEW c \in Calls, calls[c] \in ListCall, NEW i \in Items
  PROVE  /\ List!Effect(calls[c], i) \in RowValues
         /\ kind = "sessions" => List!Effect(calls[c], i) = List!Gone
         /\ calls[c].edit = "move" /\ rows[i] # List!Gone => List!Effect(calls[c], i) # List!Gone
<1>1. HandlerFits(calls[c]) /\ calls[c].edit \in ListEdits
  BY DEF ListInv, HandlersFit, ListCall
<1>2. "SAVED" \in RowValues /\ List!Gone \in RowValues
  BY DEF RowValues, List!SavedValues
<1>3. calls[c].edit # "toggle" => calls[c].to \in RowValues
  BY <1>1 DEF HandlerFits
<1>4. calls[c].edit = "move" => calls[c].to # List!Gone
  BY <1>1 DEF HandlerFits
<1>5. kind = "sessions" => calls[c].edit \in {"revoke", "revokeAll"} /\ calls[c].to = List!Gone
  BY <1>1 DEF HandlerFits
<1> QED BY <1>2, <1>3, <1>4, <1>5 DEF List!Effect

\* A handler whose edit reaches the server: "done" has been answered for, and
\* "is" took effect.
LEMMA CallMoves ==
  ASSUME ListInv, NEW c \in Calls, calls[c] \in ListCall,
         NEW done \in SUBSET calls[c].todo, NEW is \in SUBSET done,
         kind' = kind, \A i \in Items \ is : rows'[i] = rows[i],
         \A i \in is : rows'[i] = List!Effect(calls[c], i),
         \A d \in Calls \ {c} : Continues(calls[d], calls'[d]),
         \/ calls'[c] \in NoCall
         \/ /\ calls'[c] \in ListCall
            /\ calls'[c].edit = calls[c].edit /\ calls'[c].for = calls[c].for
            /\ calls'[c].to = calls[c].to /\ calls'[c].on \in {calls[c].on, None}
            /\ calls'[c].seen = calls[c].seen /\ calls'[c].alone = calls[c].alone
            /\ calls'[c].todo = calls[c].todo \ done
            /\ calls'[c].step = "refetch" => calls'[c].todo = {}
            /\ calls'[c].step # "orphan" => is = done /\ calls[c].step = "edit"
            /\ calls[c].edit = "toggle" => calls'[c].step # "orphan"
  PROVE  HandlersFit' /\ CallsGoOn /\ MineStays
<1>0. /\ ListData /\ HandlersFit /\ HandlerFits(calls[c]) /\ RowsFit(calls[c])
      /\ calls[c].todo \subseteq Items /\ Mine \in Items
      /\ \A d \in Calls : calls[d] \in NoCall \cup ListCall
  BY ScreensType DEF ListInv, ListData, HandlersFit, ListCall
<1>1. /\ kind = "sessions" => \A i \in is : rows'[i] = List!Gone
      /\ calls[c].edit = "move" => \A i \in is : rows[i] # List!Gone => rows'[i] # List!Gone
  BY <1>0, EffectOf
<1>2. ASSUME NEW d \in Calls, calls'[d] \in ListCall
      PROVE  (HandlerFits(calls[d]) /\ RowsFit(calls[d]))'
  <2>1. CASE d = c
    <3>1. calls'[c] \notin NoCall
      BY <1>2, <2>1, CallTypes
    <3>2. HandlerFits(calls'[c])
      BY <1>0, <3>1 DEF HandlerFits
    <3>3. ASSUME calls'[c].edit = "revokeAll", calls'[c].step # "orphan", NEW i \in calls'[c].for \ calls'[c].todo
          PROVE  rows'[i] = List!Gone
      <4>1. kind = "sessions" /\ i \in Items /\ is = done /\ calls[c].step # "orphan"
        BY <1>0, <3>1, <3>3 DEF HandlerFits, ListCall
      <4>2. CASE i \in is
        BY <1>1, <4>1, <4>2
      <4>3. CASE i \notin is
        BY <1>0, <3>1, <3>3, <4>1, <4>3 DEF RowsFit
      <4> QED BY <4>2, <4>3
    <3>4. ASSUME calls'[c].edit = "toggle", calls'[c].seen, calls'[c].alone, NEW i \in calls'[c].todo
          PROVE  rows'[i] # List!Gone
      BY <1>0, <3>1, <3>4 DEF RowsFit
    <3> QED BY <2>1, <3>2, <3>3, <3>4, ListConstants DEF HandlerFits, RowsFit
  <2>2. CASE d # c
    <3>1. /\ calls[d] \in ListCall /\ SameCall(calls[d], calls'[d])
          /\ HandlerFits(calls[d]) /\ RowsFit(calls[d])
      BY <1>0, <1>2, <2>2, CallTypes DEF Continues, HandlersFit
    <3>2. ASSUME calls'[d].edit = "revokeAll", calls'[d].step # "orphan",
                 NEW i \in calls'[d].for \ calls'[d].todo
          PROVE  rows'[i] = List!Gone
      <4>1. kind = "sessions" /\ i \in Items /\ rows[i] = List!Gone
        BY <3>1, <3>2 DEF HandlerFits, RowsFit, ListCall, SameCall
      <4> QED BY <1>1, <4>1
    <3>3. ASSUME calls'[d].edit = "toggle", calls'[d].seen, calls'[d].alone, NEW i \in calls'[d].todo
          PROVE  rows'[i] # List!Gone
      <4>1. /\ kind = "saved" /\ i \in Items /\ rows[i] # List!Gone
            /\ i \in calls[d].todo /\ calls[d].alone /\ calls[d].edit = "toggle"
        BY <3>1, <3>3 DEF HandlerFits, RowsFit, ListCall, SameCall
      <4>2. CASE i \in is
        <5>1. CASE calls[c].edit = "move"
          BY <1>1, <4>1, <4>2, <5>1
        <5>2. calls[c].edit # "toggle"
          BY <1>0, <2>2, <4>1, <4>2 DEF HandlersFit
        <5> QED BY <1>0, <4>1, <5>1, <5>2 DEF HandlerFits
      <4> QED BY <4>1, <4>2
    <3>4. HandlerFits(calls'[d])
      BY <3>1 DEF HandlerFits, SameCall
    <3> QED BY <3>2, <3>3, <3>4, ListConstants DEF HandlerFits, RowsFit
  <2> QED BY <2>1, <2>2
<1>3. ASSUME NEW x \in Calls, NEW y \in Calls, x # y,
             calls'[x].edit = "toggle", calls'[y].edit = "toggle", calls'[x].alone
      PROVE  calls'[x].todo \cap calls'[y].todo = {}
  <2>1. ASSUME NEW d \in Calls, calls'[d].edit = "toggle"
        PROVE  /\ calls[d].edit = "toggle" /\ (calls'[d].alone => calls[d].alone)
               /\ calls'[d].todo \subseteq calls[d].todo
    <3>1. CASE d = c
      BY <2>1, <3>1, CallTypes
    <3>2. CASE d # c
      <4>1. SameCall(calls[d], calls'[d])
        BY <1>0, <2>1, <3>2, CallTypes DEF Continues
      <4> QED BY <2>1, <4>1 DEF SameCall
    <3> QED BY <3>1, <3>2
  <2>2. /\ calls[x].edit = "toggle" /\ calls[x].alone /\ calls'[x].todo \subseteq calls[x].todo
        /\ calls[y].edit = "toggle" /\ calls'[y].todo \subseteq calls[y].todo
    BY <1>3, <2>1
  <2>3. calls[x].todo \cap calls[y].todo = {}
    BY <1>0, <1>3, <2>2 DEF HandlersFit
  <2> QED BY <2>2, <2>3
<1>4. HandlersFit'
  BY <1>2, <1>3, ListConstants DEF HandlersFit
<1>5. CallsGoOn
  BY DEF CallsGoOn, Continues, SameCall
<1>6. MineStays
  BY <1>0 DEF MineStays, HandlerFits
<1> QED BY <1>4, <1>5, <1>6

\* A handler whose mutation has been answered refetches, and the cards that the page
\* drops meanwhile forget their buttons.
LEMMA AnsweredCalls ==
  ASSUME ListInv, NEW c \in Calls, calls[c] \in ListCall, List!Answered(c)
  PROVE  /\ calls' \in [Calls -> NoCall \cup ListCall]
         /\ \A d \in Calls \ {c} : /\ Continues(calls[d], calls'[d]) /\ calls'[d].step = calls[d].step
                                   /\ calls'[d].mounted = calls[d].mounted
         /\ calls'[c] \in ListCall /\ calls'[c].step = "refetch" /\ calls'[c].todo = {}
         /\ calls'[c].edit = calls[c].edit /\ calls'[c].for = calls[c].for
         /\ calls'[c].to = calls[c].to /\ calls'[c].on \in {calls[c].on, None}
         /\ calls'[c].seen = calls[c].seen /\ calls'[c].alone = calls[c].alone
         /\ calls'[c].mounted = calls[c].mounted
<1>0. calls \in [Calls -> NoCall \cup ListCall]
  BY DEF ListInv, ListData
<1> DEFINE cs == [calls EXCEPT ![c].todo = {}, ![c].step = "refetch",
                               ![c].on = IF kind = "sessions" THEN None ELSE @]
           x == [calls[c] EXCEPT !.todo = {}, !.step = "refetch",
                                 !.on = IF kind = "sessions" THEN None ELSE @]
<1>1. calls' = List!Rerendered(cs)
  BY DEF List!Answered
<1>2. cs = [calls EXCEPT ![c] = x]
  BY <1>0
<1>3. /\ x \in ListCall /\ x.edit = calls[c].edit /\ x.for = calls[c].for /\ x.to = calls[c].to
      /\ x.todo = {} /\ x.step = "refetch" /\ x.seen = calls[c].seen /\ x.alone = calls[c].alone
      /\ x.mounted = calls[c].mounted /\ x.on \in {calls[c].on, None}
  BY DEF ListCall, ListButtons
<1> HIDE DEF cs, x
<1>4. cs \in [Calls -> NoCall \cup ListCall] /\ cs[c] = x /\ \A d \in Calls \ {c} : cs[d] = calls[d]
  BY <1>0, <1>2, <1>3
<1>5. /\ calls' \in [Calls -> NoCall \cup ListCall]
      /\ \A d \in Calls :
              /\ cs[d] \in NoCall => calls'[d] \in NoCall
              /\ cs[d] \in ListCall => /\ SameCall(cs[d], calls'[d])
                                       /\ calls'[d].seen = cs[d].seen /\ calls'[d].alone = cs[d].alone
              /\ calls'[d].step = cs[d].step /\ calls'[d].mounted = cs[d].mounted
  BY <1>1, <1>4, Forgotten DEF List!Rerendered
<1>6. \A d \in Calls \ {c} : Continues(calls[d], calls'[d])
  BY <1>4, <1>5 DEF Continues
<1>7. /\ SameCall(x, calls'[c]) /\ calls'[c].seen = x.seen /\ calls'[c].alone = x.alone
      /\ calls'[c].mounted = x.mounted
  BY <1>3, <1>4, <1>5
<1> QED BY <1>3, <1>4, <1>5, <1>6, <1>7 DEF SameCall

\* The mutation at the server.
LEMMA CommitKeeps ==
  ASSUME ListInv, NEW c \in Calls, List!Commit(c)
  PROVE  ListInv' /\ CallsGoOn /\ MineStays
<1>0. /\ ListData /\ HandlersFit /\ ListsFit /\ UNCHANGED <<kind, here, key, lists>>
      /\ calls[c].step \in {"edit", "orphan"}
  BY DEF ListInv, List!Commit
<1>1. calls[c] \in ListCall /\ HandlerFits(calls[c]) /\ calls[c].todo \in SUBSET Items
  BY <1>0, CallTypes DEF ListData, HandlersFit, ListCall
<1>2. PICK is \in SUBSET calls[c].todo :
        /\ rows' = [i \in Items |-> IF i \in is THEN List!Effect(calls[c], i) ELSE rows[i]]
        /\ known' = [i \in Items |-> IF i \in is /\ List!Carried(c, i) THEN calls[c].to ELSE known[i]]
        /\ List!Settle(c, is)
  <2>1. PICK js \in IF calls[c].edit = "markAll" THEN {calls[c].todo} ELSE {{i} : i \in calls[c].todo} :
          /\ rows' = [i \in Items |-> IF i \in js THEN List!Effect(calls[c], i) ELSE rows[i]]
          /\ known' = [i \in Items |-> IF i \in js /\ List!Carried(c, i) THEN calls[c].to ELSE known[i]]
          /\ List!Settle(c, js)
    BY DEF List!Commit
  <2>2. js \in SUBSET calls[c].todo
    OBVIOUS
  <2> QED BY <2>1, <2>2
<1>3. /\ rows' \in [Items -> RowValues] /\ known' \in [Items -> RowValues]
      /\ \A i \in Items : known[i] # List!Gone => known'[i] # List!Gone
  <2>1. \A i \in Items : List!Effect(calls[c], i) \in RowValues
    BY <1>1, EffectOf
  <2>2. \A i \in Items : List!Carried(c, i) => calls[c].to \in RowValues /\ calls[c].to # List!Gone
    BY <1>1 DEF List!Carried, HandlerFits
  <2> QED BY <1>0, <1>2, <2>1, <2>2 DEF ListData
<1>4. \/ calls' = [calls EXCEPT ![c] = List!Idle] /\ fetch' = fetch
      \/ calls' = [calls EXCEPT ![c].todo = @ \ is] /\ fetch' = fetch
      \/ /\ calls[c].todo = is /\ List!Answered(c) /\ calls'[c].step = "refetch" /\ calls[c].step = "edit"
         /\ \/ fetch' = fetch
            \/ fetch' = List!Fetch(c, key) /\ calls'[c].mounted
  <2>1. CASE calls[c].step = "orphan" \/ calls[c].todo # is
    BY <1>0, <1>2, <2>1 DEF List!Settle
  <2>2. CASE calls[c].step # "orphan" /\ calls[c].todo = is
    <3>1. List!Answered(c)
      BY <1>2, <2>2 DEF List!Settle
    <3>2. calls'[c].step = "refetch" /\ calls'[c].mounted = calls[c].mounted
      BY <1>1, <3>1, AnsweredCalls DEF ListInv
    <3> QED BY <1>0, <2>2, <3>1, <3>2 DEF List!Answered
  <2> QED BY <2>1, <2>2
<1>5. editing' \in Items \cup {None}
  BY <1>0, <1>2 DEF List!Settle, List!Answered, List!Closes, ListData
<1>6. /\ calls' \in [Calls -> NoCall \cup ListCall]
      /\ \A d \in Calls \ {c} : /\ Continues(calls[d], calls'[d]) /\ calls'[d].step = calls[d].step
                                /\ calls'[d].mounted = calls[d].mounted
      /\ \/ calls'[c] \in NoCall
         \/ /\ calls'[c] \in ListCall
            /\ calls'[c].edit = calls[c].edit /\ calls'[c].for = calls[c].for
            /\ calls'[c].to = calls[c].to /\ calls'[c].on \in {calls[c].on, None}
            /\ calls'[c].seen = calls[c].seen /\ calls'[c].alone = calls[c].alone
            /\ calls'[c].todo = calls[c].todo \ is
            /\ \/ calls'[c].step = calls[c].step
               \/ calls[c].step = "edit" /\ calls'[c].step = "refetch" /\ calls'[c].todo = {}
  <2>1. CASE calls' = [calls EXCEPT ![c] = List!Idle]
    BY <1>0, <2>1, CallTypes, SelfContinues DEF ListData
  <2>2. CASE calls' = [calls EXCEPT ![c].todo = @ \ is]
    <3>1. [calls[c] EXCEPT !.todo = @ \ is] \in ListCall
      BY <1>1 DEF ListCall
    <3>2. calls'[c] = [calls[c] EXCEPT !.todo = @ \ is]
      BY <1>0, <2>2 DEF ListData
    <3>3. calls' \in [Calls -> NoCall \cup ListCall] /\ \A d \in Calls \ {c} : calls'[d] = calls[d]
      BY <1>0, <2>2, <3>1 DEF ListData
    <3>4. \A d \in Calls \ {c} : Continues(calls[d], calls'[d])
      BY <1>0, <3>3, SelfContinues DEF ListData
    <3> QED BY <1>1, <3>1, <3>2, <3>3, <3>4 DEF ListCall
  <2>3. CASE calls[c].todo = is /\ List!Answered(c) /\ calls[c].step = "edit"
    BY <1>1, <2>3, AnsweredCalls
  <2> QED BY <1>4, <2>1, <2>2, <2>3
<1>7. HandlersFit' /\ CallsGoOn /\ MineStays
  <2>1. calls[c].edit = "toggle" => calls[c].step = "edit"
    BY <1>0, <1>1 DEF HandlerFits
  <2>2. calls'[c] \in ListCall /\ calls'[c].step # "orphan" => calls[c].step = "edit"
    BY <1>0, <1>6, CallTypes
  <2>3. /\ kind' = kind /\ \A i \in Items \ is : rows'[i] = rows[i]
        /\ \A i \in is : rows'[i] = List!Effect(calls[c], i)
    BY <1>0, <1>1, <1>2
  <2> QED BY <1>0, <1>1, <1>6, <2>1, <2>2, <2>3, CallMoves
<1>8. fetch' \in ListFetch
  <2>1. List!Gone \in RowValues
    BY DEF RowValues
  <2>2. List!Fetch(c, key) \in ListFetch
    BY <1>0, <2>1 DEF List!Fetch, List!NoFetch, ListFetch, ListData
  <2> QED BY <1>0, <1>4, <2>2 DEF ListData
<1>9. ListsFit'
  <2>1. \/ fetch' = fetch
        \/ fetch'.got = None /\ fetch'.by = c /\ calls'[c].step = "refetch" /\ calls'[c].mounted
    BY <1>4 DEF List!Fetch, List!NoFetch
  <2>2. fetch.by \in Calls =>
          calls'[fetch.by].step = "refetch" /\ calls'[fetch.by].mounted
    <3> SUFFICES ASSUME fetch.by \in Calls
                 PROVE  calls'[fetch.by].step = "refetch" /\ calls'[fetch.by].mounted
      OBVIOUS
    <3>1. fetch.by # c /\ calls[fetch.by].step = "refetch" /\ calls[fetch.by].mounted
      BY <1>0 DEF ListsFit
    <3> QED BY <1>6, <3>1
  <2>3. \A k \in List!AllKeys : lists[k] # None => lists[k] \subseteq Items
    BY <1>0 DEF ListData
  <2> QED BY <1>0, <1>3, <2>1, <2>2, <2>3, ListConstants DEF ListsFit
<1>10. ListData'
  <2>1. kind # "closed"
    BY <1>0, <1>1, CallTypes DEF ListData
  <2> QED BY <1>0, <1>3, <1>5, <1>6, <1>8, <2>1, ListConstants DEF ListData
<1> QED BY <1>7, <1>9, <1>10 DEF ListInv
\* A mutation that is refused or lost.
LEMMA RejectKeeps ==
  ASSUME ListInv, NEW c \in Calls, List!Reject(c)
  PROVE  ListInv' /\ CallsGoOn /\ MineStays
<1>0. /\ ListData /\ HandlersFit /\ ListsFit
      /\ UNCHANGED <<kind, here, key, lists, known, fetch, editing>>
      /\ calls[c].step \in {"edit", "orphan"}
  BY DEF ListInv, List!Reject
<1>1. calls[c] \in ListCall /\ HandlerFits(calls[c]) /\ calls[c].todo \in SUBSET Items
  BY <1>0, CallTypes DEF ListData, HandlersFit, ListCall
<1>2. PICK i \in calls[c].todo :
        /\ List!Rejected(c, i)
        /\ UNCHANGED rows \/ rows' = [rows EXCEPT ![i] = List!Effect(calls[c], i)]
  BY DEF List!Reject
<1>3. PICK is \in SUBSET {i} :
        /\ rows' \in [Items -> RowValues] /\ \A j \in Items \ is : rows'[j] = rows[j]
        /\ \A j \in is : rows'[j] = List!Effect(calls[c], j)
  <2>1. List!Effect(calls[c], i) \in RowValues /\ i \in Items
    BY <1>1, EffectOf
  <2>2. CASE UNCHANGED rows
    <3>1. {} \in SUBSET {i} /\ rows' \in [Items -> RowValues]
      BY <1>0, <2>2, ListConstants DEF ListData
    <3> QED BY <2>2, <3>1
  <2>3. CASE rows' = [rows EXCEPT ![i] = List!Effect(calls[c], i)]
    <3>1. {i} \in SUBSET {i} /\ rows' \in [Items -> RowValues]
      BY <1>0, <2>1, <2>3 DEF ListData
    <3>2. \A j \in Items \ {i} : rows'[j] = rows[j]
      BY <1>0, <2>3 DEF ListData
    <3>3. rows'[i] = List!Effect(calls[c], i)
      BY <1>0, <2>1, <2>3 DEF ListData
    <3> QED BY <3>1, <3>2, <3>3
  <2> QED BY <1>2, <2>2, <2>3
<1>4. /\ calls' \in [Calls -> NoCall \cup ListCall] /\ \A d \in Calls \ {c} : calls'[d] = calls[d]
      /\ \/ calls'[c] \in NoCall
         \/ /\ calls'[c] \in ListCall /\ calls[c].todo # {i}
            /\ calls'[c].edit = calls[c].edit /\ calls'[c].for = calls[c].for
            /\ calls'[c].to = calls[c].to /\ calls'[c].on = calls[c].on /\ calls'[c].seen = calls[c].seen
            /\ calls'[c].alone = calls[c].alone
            /\ calls'[c].todo = calls[c].todo \ {i} /\ calls'[c].step = "orphan"
  <2>1. CASE calls' = [calls EXCEPT ![c] = List!Idle]
    BY <1>0, <2>1, CallTypes DEF ListData
  <2>2. CASE calls[c].todo # {i} /\ calls' = [calls EXCEPT ![c] = [calls[c] EXCEPT !.todo = @ \ {i}, !.step = "orphan"]]
    <3>1. [calls[c] EXCEPT !.todo = @ \ {i}, !.step = "orphan"] \in ListCall
      BY <1>1 DEF ListCall
    <3>2. calls'[c] = [calls[c] EXCEPT !.todo = @ \ {i}, !.step = "orphan"]
      BY <1>0, <2>2 DEF ListData
    <3> QED BY <1>0, <1>1, <2>2, <3>1, <3>2 DEF ListData, ListCall
  <2> QED BY <1>2, <2>1, <2>2 DEF List!Rejected
<1>5. HandlersFit' /\ CallsGoOn /\ MineStays
  <2>1. calls[c].edit = "toggle" => calls[c].todo = {i}
    BY <1>1, <1>2 DEF HandlerFits
  <2>2. {i} \in SUBSET calls[c].todo /\ kind' = kind
    BY <1>0, <1>2
  <2>3. \A d \in Calls \ {c} : Continues(calls[d], calls'[d])
    BY <1>0, <1>4, SelfContinues DEF ListData
  <2> QED BY <1>1, <1>3, <1>4, <2>1, <2>2, <2>3, CallMoves
<1>6. ListsFit'
  <2>1. fetch.by \in Calls => fetch.by # c
    BY <1>0 DEF ListsFit
  <2> QED BY <1>0, <1>4, <2>1, ListConstants DEF ListsFit
<1>7. ListData'
  <2>1. kind # "closed"
    BY <1>0, <1>1, CallTypes DEF ListData
  <2> QED BY <1>0, <1>3, <1>4, <2>1, ListConstants DEF ListData
<1> QED BY <1>5, <1>6, <1>7 DEF ListInv

\* The list query.  Handlers go on or end.
LEMMA EndedCalls ==
  ASSUME ListInv,
         \/ List!Read \/ List!Fill \/ List!FetchFails
         \/ \E c \in Calls : List!Outdated(c) \/ List!LateAnswer(c)
  PROVE  /\ calls' \in [Calls -> NoCall \cup ListCall]
         /\ \A c \in Calls :
              /\ Continues(calls[c], calls'[c])
              /\ calls'[c].mounted \in {calls[c].mounted, FALSE}
              /\ calls[c].step # "refetch" => calls'[c].step = calls[c].step
         /\ List!Read \/ fetch' = List!NoFetch
            \/ \E x \in Calls : /\ fetch.by # x /\ UNCHANGED fetch
                                /\ \A c \in Calls \ {x} : calls'[c].step = calls[c].step
                                                          /\ calls'[c].mounted = calls[c].mounted
<1>0. calls \in [Calls -> NoCall \cup ListCall]
  BY DEF ListInv, ListData
<1>1. CASE List!Read
  BY <1>0, <1>1, SelfContinues DEF List!Read
<1>2. ASSUME NEW x
      PROVE  /\ List!End(x) \in [Calls -> NoCall \cup ListCall]
             /\ \A c \in Calls : c # x => List!End(x)[c] = calls[c]
             /\ \A c \in Calls : c = x => List!End(x)[c] \in NoCall
  BY <1>0, CallTypes DEF List!End
<1>3. ASSUME NEW x, x \in Calls => calls[x].step = "refetch",
             calls' = List!End(x) \/ calls' = List!Rerendered(List!End(x))
      PROVE  /\ calls' \in [Calls -> NoCall \cup ListCall]
             /\ \A c \in Calls :
                  /\ Continues(calls[c], calls'[c])
                  /\ calls'[c].mounted \in {calls[c].mounted, FALSE}
                  /\ calls[c].step # "refetch" => calls'[c].step = calls[c].step
                  /\ c # x => calls'[c].step = calls[c].step /\ calls'[c].mounted = calls[c].mounted
  <2> DEFINE E == List!End(x)
  <2>1. /\ calls' \in [Calls -> NoCall \cup ListCall]
        /\ \A c \in Calls : /\ E[c] \in NoCall => calls'[c] \in NoCall
                            /\ E[c] \in ListCall => SameCall(E[c], calls'[c])
                            /\ calls'[c].step = E[c].step /\ calls'[c].mounted = E[c].mounted
    <3>1. CASE calls' = E
      BY <1>2, <3>1 DEF SameCall
    <3>2. CASE calls' = List!Rerendered(E)
      <4>1. E \in [Calls -> NoCall \cup ListCall]
        BY <1>2
      <4> HIDE DEF E
      <4> QED BY <3>2, <4>1, Forgotten DEF List!Rerendered
    <3> QED BY <1>3, <3>1, <3>2
  <2>2. ASSUME NEW c \in Calls, c # x
        PROVE  /\ Continues(calls[c], calls'[c]) /\ calls'[c].step = calls[c].step
               /\ calls'[c].mounted = calls[c].mounted
    <3>1. E[c] = calls[c]
      BY <1>2, <2>2
    <3> QED BY <2>1, <2>2, <3>1 DEF Continues
  <2>3. ASSUME NEW c \in Calls, c = x
        PROVE  /\ Continues(calls[c], calls'[c]) /\ calls'[c].mounted = FALSE
               /\ calls[c].step = "refetch"
    <3>1. calls'[c] \in NoCall
      BY <1>2, <2>1, <2>3
    <3> QED BY <1>3, <2>3, <3>1, CallTypes DEF Continues
  <2> QED BY <2>1, <2>2, <2>3
<1>4. CASE List!Fill \/ List!FetchFails
  <2>1. fetch' = List!NoFetch /\ calls' = List!Rerendered(List!End(fetch.by))
    BY <1>4 DEF List!Fill, List!FetchFails
  <2>2. fetch.by \in Calls => calls[fetch.by].step = "refetch"
    BY DEF ListInv, ListsFit
  <2> QED BY <1>3, <2>1, <2>2
<1>5. ASSUME NEW x \in Calls, List!Outdated(x) \/ List!LateAnswer(x)
      PROVE  /\ fetch.by # x /\ UNCHANGED fetch /\ calls[x].step = "refetch"
             /\ calls' = List!End(x) \/ calls' = List!Rerendered(List!End(x))
  BY <1>5 DEF List!Outdated, List!LateAnswer, ListInv, ListsFit
<1>6. CASE \E c \in Calls : List!Outdated(c) \/ List!LateAnswer(c)
  <2>1. PICK x \in Calls : List!Outdated(x) \/ List!LateAnswer(x)
    BY <1>6
  <2>2. /\ fetch.by # x /\ UNCHANGED fetch /\ calls[x].step = "refetch"
        /\ calls' = List!End(x) \/ calls' = List!Rerendered(List!End(x))
    BY <1>5, <2>1
  <2>3. /\ calls' \in [Calls -> NoCall \cup ListCall]
        /\ \A c \in Calls :
             /\ Continues(calls[c], calls'[c])
             /\ calls'[c].mounted \in {calls[c].mounted, FALSE}
             /\ calls[c].step # "refetch" => calls'[c].step = calls[c].step
             /\ c # x => calls'[c].step = calls[c].step /\ calls'[c].mounted = calls[c].mounted
    BY <1>3, <2>2
  <2> QED BY <2>2, <2>3
<1> QED BY <1>1, <1>4, <1>6

\* Lists and rows that an answer writes were there when it was read.
LEMMA TakesRows ==
  ASSUME ListData, ListsFit, NEW k \in List!AllKeys, NEW got \in SUBSET Items,
         NEW was \in [Items -> RowValues], \A i \in got : was[i] # List!Gone, List!Takes(k, got, was)
  PROVE  /\ known' \in [Items -> RowValues] /\ lists' \in [List!AllKeys -> {None} \cup SUBSET Items]
         /\ \A j \in List!AllKeys : lists'[j] # None => \A i \in lists'[j] : known'[i] # List!Gone
<1>1. /\ lists' = [lists EXCEPT ![k] = got]
      /\ known' = [i \in Items |-> IF i \in got THEN was[i] ELSE known[i]]
  BY DEF List!Takes
<1>2. known' \in [Items -> RowValues] /\ lists' \in [List!AllKeys -> {None} \cup SUBSET Items]
  BY <1>1 DEF ListData
<1>3. ASSUME NEW j \in List!AllKeys, lists'[j] # None, NEW i \in lists'[j]
      PROVE  known'[i] # List!Gone
  <2>1. i \in got \/ (lists[j] # None /\ i \in lists[j])
    BY <1>1, <1>3 DEF ListData
  <2>2. i \in Items
    BY <1>2, <1>3
  <2> QED BY <1>1, <2>1, <2>2 DEF ListsFit
<1> QED BY <1>2, <1>3

LEMMA QueryKeeps ==
  ASSUME ListInv,
         \/ List!Read \/ List!Fill \/ List!FetchFails
         \/ \E c \in Calls : List!Outdated(c) \/ List!LateAnswer(c)
  PROVE  ListInv' /\ CallsGoOn /\ MineStays
<1>0. /\ ListData /\ HandlersFit /\ ListsFit /\ UNCHANGED <<kind, here, rows, key, editing>>
  BY DEF ListInv, List!Read, List!Fill, List!FetchFails, List!Outdated, List!LateAnswer
<1>1. /\ \A c \in Calls : Continues(calls[c], calls'[c])
      /\ calls' \in [Calls -> NoCall \cup ListCall]
      /\ kind = "closed" => \A c \in Calls : calls'[c] \in NoCall
  BY <1>0, EndedCalls DEF ListData, Continues
<1>2. HandlersFit'
  BY <1>0, <1>1, HandlersStay
<1>3. CallsGoOn /\ MineStays
  BY <1>0, <1>1 DEF CallsGoOn, MineStays, Continues, SameCall
<1>4. List!NoFetch \in ListFetch /\ List!NoFetch.got = None /\ List!NoFetch.by = None
  BY DEF List!NoFetch, ListFetch, RowValues
<1>5. \A k : List!View(k) \subseteq Items /\ \A i \in List!View(k) : rows[i] # List!Gone
  BY DEF List!View, List!Unread, List!Live, List!Gone
<1>6. /\ known' \in [Items -> RowValues] /\ lists' \in [List!AllKeys -> {None} \cup SUBSET Items]
      /\ \A k \in List!AllKeys : lists'[k] # None => \A i \in lists'[k] : known'[i] # List!Gone
  <2>1. CASE UNCHANGED <<lists, known>>
    BY <1>0, <2>1 DEF ListData, ListsFit
  <2>2. CASE List!Fill
    <3>1. fetch.got # None /\ List!Takes(fetch.key, fetch.got, fetch.was)
      BY <2>2 DEF List!Fill
    <3>2. fetch.got \in SUBSET Items /\ fetch.was \in [Items -> RowValues]
      BY <1>0, <3>1 DEF ListFetch, ListData
    <3>3. \A i \in fetch.got : fetch.was[i] # List!Gone
      BY <1>0, <3>1 DEF ListsFit
    <3>4. CASE fetch.key \in List!AllKeys
      BY <1>0, <3>1, <3>2, <3>3, <3>4, TakesRows
    <3>5. CASE fetch.key \notin List!AllKeys
      <4>1. lists' = lists /\ known' = [i \in Items |-> IF i \in fetch.got THEN fetch.was[i] ELSE known[i]]
        BY <1>0, <3>1, <3>5 DEF List!Takes, ListData
      <4>2. known' \in [Items -> RowValues]
        BY <1>0, <3>2, <4>1 DEF ListData
      <4>3. \A k \in List!AllKeys : lists[k] # None => lists[k] \subseteq Items
        BY <1>0 DEF ListData
      <4> QED BY <1>0, <3>3, <4>1, <4>2, <4>3 DEF ListData, ListsFit
    <3> QED BY <3>4, <3>5
  <2>3. ASSUME NEW c \in Calls, List!LateAnswer(c)
        PROVE  /\ known' \in [Items -> RowValues]
               /\ lists' \in [List!AllKeys -> {None} \cup SUBSET Items]
               /\ \A k \in List!AllKeys : lists'[k] # None => \A i \in lists'[k] : known'[i] # List!Gone
    <3>1. PICK k \in List!Keys(kind) : List!Takes(k, List!View(k), rows)
      BY <2>3 DEF List!LateAnswer
    <3>2. k \in List!AllKeys
      BY DEF List!Keys, List!AllKeys, List!NoticeTabs, List!ReviewSorts
    <3>3. rows \in [Items -> RowValues]
      BY <1>0 DEF ListData
    <3> QED BY <1>0, <1>5, <3>1, <3>2, <3>3, TakesRows
  <2> QED BY <2>1, <2>2, <2>3 DEF List!Read, List!FetchFails, List!Outdated
<1>7. fetch' \in ListFetch /\ ListsFit'
  <2>1. CASE List!Read
    <3>1. fetch' = [fetch EXCEPT !.got = List!View(fetch.key), !.was = rows] /\ calls' = calls
      BY <2>1 DEF List!Read
    <3>2. /\ fetch' \in ListFetch /\ fetch'.got = List!View(fetch.key) /\ fetch'.was = rows
          /\ fetch'.by = fetch.by
      BY <1>0, <1>5, <3>1 DEF ListFetch, ListData
    <3> QED BY <1>0, <1>5, <1>6, <3>1, <3>2, ListConstants DEF ListsFit
  <2>2. CASE fetch' = List!NoFetch
    BY <1>4, <1>6, <2>2, ScreensType, ListConstants DEF ListsFit
  <2>3. ASSUME NEW x \in Calls, fetch.by # x, UNCHANGED fetch,
               \A c \in Calls \ {x} : calls'[c].step = calls[c].step /\ calls'[c].mounted = calls[c].mounted
        PROVE  fetch' \in ListFetch /\ ListsFit'
    BY <1>0, <1>6, <2>3, ListConstants DEF ListData, ListsFit
  <2> QED BY <2>1, <2>2, <2>3, EndedCalls
<1>8. ListData'
  BY <1>0, <1>1, <1>6, <1>7, ListConstants DEF ListData
<1> QED BY <1>2, <1>3, <1>7, <1>8 DEF ListInv

\* Another device, another user or a job.
LEMMA ElsewhereKeeps ==
  ASSUME ListInv, others \in Nat, NEW i \in Items, List!Elsewhere(i)
  PROVE  ListInv' /\ CallsGoOn /\ MineStays
<1>0. /\ ListData /\ HandlersFit /\ ListsFit
      /\ UNCHANGED <<kind, here, key, lists, known, fetch, editing>> /\ kind # "closed"
      /\ others' = others + 1
      /\ rows[i] = List!Gone /\ kind # "saved" => \A c \in Calls : i \notin calls[c].for
      /\ calls' = [c \in Calls |-> [calls[c] EXCEPT !.seen = FALSE]]
  BY DEF ListInv, List!Elsewhere
<1>1. PICK v \in List!Values(kind) \cup {List!Gone} : rows' = [rows EXCEPT ![i] = v]
  BY DEF List!Elsewhere
<1>2. /\ rows' \in [Items -> RowValues] /\ \A j \in Items \ {i} : rows'[j] = rows[j]
  <2>1. v \in RowValues
    BY <1>0 DEF List!Values, RowValues, ListData, List!Kinds
  <2> QED BY <1>0, <1>1, <2>1 DEF ListData
<1>3. ASSUME NEW c \in Calls
      PROVE  /\ calls[c] \in NoCall => calls'[c] \in NoCall
             /\ calls[c] \in ListCall =>
                  /\ calls'[c] \in ListCall /\ calls'[c].seen = FALSE
                  /\ calls'[c].edit = calls[c].edit /\ calls'[c].for = calls[c].for
                  /\ calls'[c].to = calls[c].to /\ calls'[c].on = calls[c].on
                  /\ calls'[c].todo = calls[c].todo /\ calls'[c].step = calls[c].step
                  /\ calls'[c].alone = calls[c].alone /\ calls'[c].mounted = calls[c].mounted
  <2>1. calls'[c] = [calls[c] EXCEPT !.seen = FALSE]
    BY <1>0
  <2> QED BY <2>1, CallTypes DEF ListCall
<1>4. \A c \in Calls : calls[c] \in NoCall \cup ListCall
  BY <1>0 DEF ListData
<1>5. HandlersFit'
  <2>1. ASSUME NEW c \in Calls, calls'[c] \in ListCall
        PROVE  (HandlerFits(calls[c]) /\ RowsFit(calls[c]))'
    <3>1. calls[c] \in ListCall
      BY <1>3, <1>4, <2>1, CallTypes
    <3>2. HandlerFits(calls[c]) /\ RowsFit(calls[c])
      BY <1>0, <3>1 DEF HandlersFit
    <3>3. HandlerFits(calls'[c])
      BY <1>3, <3>1, <3>2 DEF HandlerFits
    <3>4. ASSUME calls'[c].edit = "revokeAll", calls'[c].step # "orphan", NEW j \in calls'[c].for \ calls'[c].todo
          PROVE  rows'[j] = List!Gone
      <4>1. /\ rows[j] = List!Gone /\ kind = "sessions" /\ j \in calls[c].for /\ j \in Items
        BY <1>3, <3>1, <3>2, <3>4 DEF HandlerFits, RowsFit, ListCall
      <4> QED BY <1>0, <1>2, <4>1
    <3> QED BY <1>0, <1>3, <3>1, <3>3, <3>4, ListConstants DEF HandlerFits, RowsFit
  <2>2. \A c \in Calls : calls'[c].edit = "toggle" =>
          /\ calls[c].edit = "toggle" /\ calls'[c].alone = calls[c].alone
          /\ calls'[c].todo = calls[c].todo
    BY <1>3, <1>4, CallTypes
  <2> QED BY <1>0, <2>1, <2>2, ListConstants DEF HandlersFit
<1>6. ListsFit'
  <2>1. fetch.by \in Calls => calls'[fetch.by].step = "refetch" /\ calls'[fetch.by].mounted
    BY <1>0, <1>3, <1>4, CallTypes DEF ListsFit
  <2> QED BY <1>0, <2>1, ListConstants DEF ListsFit
<1>7. ListData'
  <2>1. calls' \in [Calls -> NoCall \cup ListCall]
    BY <1>0, <1>3, <1>4
  <2> QED BY <1>0, <1>2, <2>1, ListConstants DEF ListData
<1>8. CallsGoOn /\ MineStays
  <2>1. others' # others
    BY <1>0
  <2>2. CallsGoOn
    BY <1>3 DEF CallsGoOn
  <2> QED BY <2>1, <2>2 DEF MineStays
<1> QED BY <1>5, <1>6, <1>7, <1>8 DEF ListInv

LEMMA ListKeeps ==
  ASSUME ListInv, others \in Nat, here => kind # "closed", [List!Next]_<<listVars, here, others>>
  PROVE  ListInv' /\ CallsGoOn /\ MineStays
<1>1. CASE UNCHANGED <<listVars, here, others>>
  <2>1. /\ UNCHANGED <<kind, here, rows, key, lists, known, calls, fetch, editing>>
    BY <1>1 DEF listVars
  <2>2. HandlersFit'
    BY <2>1, HandlersStay, SelfContinues DEF ListInv, ListData
  <2>3. ListData' /\ ListsFit'
    BY <2>1, ListConstants DEF ListInv, ListData, ListsFit
  <2> QED BY <2>1, <2>2, <2>3 DEF ListInv, CallsGoOn, MineStays
<1>2. ASSUME \/ \E k \in List!Kinds : List!Open(k)
             \/ List!Leave \/ List!Return \/ \E k \in List!AllKeys : List!SelectTab(k)
             \/ \E i \in Items : List!Filter(i) \/ List!StartEdit(i)
             \/ List!CancelEdit
      PROVE  ListInv' /\ CallsGoOn /\ MineStays
  BY <1>2, ListNavigates
<1>3. ASSUME NEW c \in Calls, List!Click(c) PROVE ListInv' /\ CallsGoOn /\ MineStays
  <2>1. kind # "closed"
    BY <1>3 DEF List!Click
  <2> QED BY <1>3, <2>1, ClickKeeps
<1>4. CASE List!Next
  BY <1>2, <1>3, <1>4, CommitKeeps, RejectKeeps, QueryKeeps, ElsewhereKeeps DEF List!Next
<1> QED BY <1>1, <1>4

\* What a step of the screens never does.
ListRules ==
  /\ \A c \in Calls : \A i \in calls[c].todo :
       calls[c].edit = "toggle" /\ calls[c].seen /\ calls[c].alone /\ rows[i] = List!Gone =>
         rows'[i] = List!Gone \/ others' # others
  /\ \A c \in Calls :
       calls[c].edit = "revokeAll" /\ calls[c].step = "edit" /\ others' = others =>
         /\ rows'[Mine] = rows[Mine]
         /\ calls'[c].step = "refetch" => \A i \in calls[c].for : rows'[i] = List!Gone

LEMMA ListObeys ==
  ASSUME ListInv, ListInv', CallsGoOn, MineStays
  PROVE  ListRules
<1>0. /\ \A c \in Calls : calls[c] \in NoCall \cup ListCall
      /\ \A c \in Calls : calls'[c] \in NoCall \cup ListCall
  BY ListConstants DEF ListInv, ListData
<1>1. ASSUME NEW c \in Calls, NEW i \in calls[c].todo,
             calls[c].edit = "toggle", calls[c].seen, calls[c].alone
      PROVE  rows[i] # List!Gone
  <2>1. calls[c] \in ListCall
    BY <1>0, <1>1, CallTypes
  <2> QED BY <1>1, <2>1 DEF ListInv, HandlersFit, RowsFit
<1>2. ASSUME NEW c \in Calls, calls[c].edit = "revokeAll"
      PROVE  /\ others' = others => rows'[Mine] = rows[Mine]
             /\ calls'[c].step = "refetch" => \A i \in calls[c].for : rows'[i] = List!Gone
  <2>1. calls[c] \in ListCall
    BY <1>0, <1>2, CallTypes
  <2>2. HandlerFits(calls[c]) /\ kind = "sessions"
    BY <1>2, <2>1 DEF ListInv, HandlersFit, HandlerFits
  <2>3. ASSUME calls'[c].step = "refetch", NEW i \in calls[c].for PROVE rows'[i] = List!Gone
    <3>1. calls'[c] \in ListCall /\ calls'[c].edit = "revokeAll" /\ calls'[c].for = calls[c].for
      BY <1>0, <1>2, <2>1, <2>3, CallTypes DEF CallsGoOn
    <3>2. (HandlerFits(calls[c]) /\ RowsFit(calls[c]))'
      BY <3>1, ListConstants DEF ListInv, HandlersFit
    <3>3. calls'[c].todo = {}
      BY <2>3, <3>2 DEF HandlerFits
    <3> QED BY <2>3, <3>1, <3>2, <3>3, ListConstants DEF RowsFit
  <2> QED BY <2>2, <2>3 DEF MineStays
<1> QED BY <1>1, <1>2 DEF ListRules

-----------------------------------------------------------------------------
(* The dashboard.                                                            *)

DashboardInv ==
  /\ day \in Nat \ {0}
  /\ reviews \in [Reviews -> {None} \cup [rating : Ratings, on : 1..day]]
  /\ replies \in [Reviews -> {None} \cup 1..day]

LEMMA DashboardInitially == Dashboard!Init => DashboardInv
BY DEF Dashboard!Init, DashboardInv

\* Either nothing is replied to, or one review that waited is.
LEMMA DashboardKeeps ==
  ASSUME DashboardInv, [Dashboard!Next]_dashboardVars
  PROVE  /\ DashboardInv'
         /\ \/ \A r \in Reviews : replies'[r] \in {replies[r], None}
            \/ \E r \in Reviews : Dashboard!SubmitReply(r)
<1> USE DEF DashboardInv
<1>1. CASE UNCHANGED dashboardVars
  BY <1>1 DEF dashboardVars
<1>2. CASE Dashboard!NextDay
  <2>1. UNCHANGED <<reviews, replies>> /\ day' = day + 1
    BY <1>2 DEF Dashboard!NextDay
  <2>2. 1..day \subseteq 1..day' /\ day' \in Nat \ {0}
    BY <2>1
  <2>3. reviews' \in [Reviews -> {None} \cup [rating : Ratings, on : 1..day']]
    BY <2>1, <2>2
  <2> QED BY <2>1, <2>2, <2>3
<1>3. CASE Dashboard!Open \/ Dashboard!ReadReviews \/ Dashboard!ReadReplies \/ Dashboard!ReadList
  BY <1>3 DEF Dashboard!Open, Dashboard!ReadReviews, Dashboard!ReadReplies, Dashboard!ReadList
<1>4. ASSUME NEW r \in Reviews, Dashboard!DeleteReview(r) \/ Dashboard!DeleteReply(r)
      PROVE  DashboardInv' /\ \A x \in Reviews : replies'[x] \in {replies[x], None}
  BY <1>4 DEF Dashboard!DeleteReview, Dashboard!DeleteReply
<1>5. ASSUME NEW r \in Reviews, NEW n \in Ratings, Dashboard!WriteReview(r, n) \/ Dashboard!UpdateReview(r, n)
      PROVE  DashboardInv' /\ replies' = replies
  <2>1. /\ UNCHANGED <<day, replies>>
        /\ \/ reviews' = [reviews EXCEPT ![r] = [rating |-> n, on |-> day]]
           \/ reviews[r] # None /\ reviews' = [reviews EXCEPT ![r].rating = n]
    BY <1>5 DEF Dashboard!WriteReview, Dashboard!UpdateReview
  <2>2. [rating |-> n, on |-> day] \in [rating : Ratings, on : 1..day]
    OBVIOUS
  <2>3. reviews[r] # None => [reviews[r] EXCEPT !.rating = n] \in [rating : Ratings, on : 1..day]
    OBVIOUS
  <2>4. reviews' \in [Reviews -> {None} \cup [rating : Ratings, on : 1..day]]
    BY <2>1, <2>2, <2>3
  <2> QED BY <2>1, <2>4
<1>6. ASSUME NEW r \in Reviews, Dashboard!SubmitReply(r) PROVE DashboardInv'
  BY <1>6 DEF Dashboard!SubmitReply
<1> QED BY <1>1, <1>2, <1>3, <1>4, <1>5, <1>6 DEF Dashboard!Next

LEMMA DashboardCardinality == \A S : Dashboard!Cardinality(S) = Cardinality(S)
BY Zenon DEF Cardinality, Dashboard!Cardinality

\* A quotient grows with what is divided.
LEMMA QuotientGrows ==
  ASSUME NEW a \in Int, NEW b \in Int, NEW c \in Nat \ {0}, a <= b
  PROVE  a \div c <= b \div c
<1> DEFINE p == a \div c
           q == b \div c
<1>1. p \in Int /\ q \in Int /\ c * p <= a /\ b < c * q + c
  BY Z3
<1>2. SUFFICES ASSUME q + 1 <= p PROVE FALSE
  BY <1>1
<1> HIDE DEF p, q
<1>3. c * (q + 1) <= c * p
  BY <1>1, <1>2
<1>4. c * (q + 1) = c * q + c
  BY <1>1
<1>5. c * p \in Int /\ c * q \in Int /\ c * (q + 1) \in Int
  BY <1>1
<1> QED BY <1>1, <1>3, <1>4, <1>5

LEMMA RoundGrows ==
  ASSUME NEW a \in Int, NEW b \in Int, NEW d \in Nat \ {0}, a <= b
  PROVE  Dashboard!Round(a, d) <= Dashboard!Round(b, d)
<1>1. 2 * a + d \in Int /\ 2 * b + d \in Int /\ 2 * d \in Nat \ {0} /\ 2 * a + d <= 2 * b + d
  OBVIOUS
<1>2. (2 * a + d) \div (2 * d) <= (2 * b + d) \div (2 * d)
  BY <1>1, QuotientGrows
<1> QED BY <1>2 DEF Dashboard!Round

LEMMA PercentGrows ==
  ASSUME NEW a \in Int, NEW b \in Int, NEW d \in Nat \ {0}, a <= b
  PROVE  Dashboard!Percent(a, d) <= Dashboard!Percent(b, d)
<1>1. 100 * a \in Int /\ 100 * b \in Int /\ 100 * a <= 100 * b /\ d # 0
  OBVIOUS
<1>2. Dashboard!Round(100 * a, d) <= Dashboard!Round(100 * b, d)
  BY <1>1, RoundGrows
<1> QED BY <1>1, <1>2 DEF Dashboard!Percent

LEMMA ScoreGrows ==
  ASSUME NEW sum \in Nat, NEW n \in 1..Cardinality(Reviews), NEW a \in Nat, NEW b \in Nat,
         NEW rec \in Nat, a <= b
  PROVE  Dashboard!Score(sum, n, a, rec) <= Dashboard!Score(sum, n, b, rec)
<1> DEFINE min == Dashboard!Min({5, rec})
           rest == 5500 * sum + VolumeScore[n] * n + 1000 * n * min
<1>1. min \in Int
  BY DEF Dashboard!Min
<1>2. n \in Nat \ {0} /\ VolumeScore[n] \in Nat
  BY ScreensType, FS_CardinalityType
<1> DEFINE v == VolumeScore[n]
           fa == 5500 * sum + v * n + 7500 * a + 1000 * n * min
           fb == 5500 * sum + v * n + 7500 * b + 1000 * n * min
<1>3. v * n \in Int /\ 1000 * n * min \in Int
  BY <1>1, <1>2
<1>4. fa \in Int /\ fb \in Int /\ fa <= fb
  BY <1>3
<1>5. 500 * n \in Nat \ {0}
  BY <1>2
<1>6. Dashboard!Round(fa, 500 * n) <= Dashboard!Round(fb, 500 * n)
  <2> HIDE DEF fa, fb
  <2> QED BY <1>4, <1>5, RoundGrows
<1> QED BY <1>2, <1>6 DEF Dashboard!Score

LEMMA ReplyHelps ==
  ASSUME DashboardInv, NEW r \in Reviews, Dashboard!SubmitReply(r), replies'[r] # None
  PROVE  Dashboard!Improves(Dashboard!Snapshot(reviews, replies, day),
                            Dashboard!Snapshot(reviews', replies', day'))
<1> DEFINE so == Dashboard!SoFar(reviews, day)
           n == Cardinality(so)
           A == Dashboard!Answered(reviews, replies, day)
           B == Dashboard!Answered(reviews, replies', day)
           sum == Dashboard!Total(reviews, so)
           rec == Cardinality(Dashboard!Recent(reviews, day))
           min == Dashboard!Min({5, rec})
<1>1. /\ reviews' = reviews /\ day' = day /\ reviews[r] # None /\ replies[r] = None
      /\ replies' = [replies EXCEPT ![r] = day] /\ day \in Nat
  BY DEF DashboardInv, Dashboard!SubmitReply
<1>2. r \in so /\ so \subseteq Reviews
  <2>1. reviews[r].on <= day
    BY <1>1 DEF DashboardInv
  <2> QED BY <1>1, <2>1 DEF Dashboard!SoFar, Dashboard!Rows
<1>3. IsFiniteSet(so) /\ n \in Nat \ {0} /\ n \in 1..Cardinality(Reviews)
  <2>1. IsFiniteSet(so) /\ n <= Cardinality(Reviews) /\ Cardinality(Reviews) \in Nat /\ n \in Nat
    BY <1>2, ScreensType, FS_Subset, FS_CardinalityType
  <2>2. n # 0
    BY <1>2, <2>1, FS_EmptySet
  <2> QED BY <2>1, <2>2
<1>4. sum \in Nat /\ rec \in Nat
  <2>1. IsFiniteSet(so \X (1..5))
    <3>1. \A k \in Int : IsFiniteSet(1..k)
      BY FS_Interval
    <3>2. IsFiniteSet(1..5)
      <4>1. 5 \in Int
        OBVIOUS
      <4> QED BY <3>1, <4>1, Zenon
    <3> QED BY <1>3, <3>2, FS_Product, Zenon
  <2>2. IsFiniteSet({p \in so \X (1..5) : p[2] <= reviews[p[1]].rating})
    BY <2>1, FS_Subset
  <2>3. Dashboard!Recent(reviews, day) \subseteq so
    BY DEF Dashboard!Recent
  <2> QED BY <1>3, <2>2, <2>3, FS_Subset, FS_CardinalityType, DashboardCardinality DEF Dashboard!Total
<1>6. r \notin A /\ B = A \cup {r}
  <2>1. replies'[r] = day /\ \A x \in Reviews : x # r => replies'[x] = replies[x]
    BY <1>1 DEF DashboardInv
  <2>2. r \notin A
    BY <1>1 DEF Dashboard!Answered
  <2>3. r \in B
    BY <1>1, <1>2, <2>1 DEF Dashboard!Answered
  <2>4. \A x : x # r => (x \in A <=> x \in B)
    BY <1>2, <2>1 DEF Dashboard!Answered
  <2> QED BY <2>2, <2>3, <2>4
<1>7. A \subseteq so
  BY DEF Dashboard!Answered
<1>8. IsFiniteSet(A) /\ Cardinality(A) \in Nat /\ Cardinality(B) = Cardinality(A) + 1
  BY <1>3, <1>6, <1>7, FS_Subset, FS_AddElement, FS_CardinalityType
<1> HIDE DEF A, B, so, n, sum, rec
<1>9. Dashboard!Score(sum, n, Cardinality(A), rec) <= Dashboard!Score(sum, n, Cardinality(B), rec)
  BY <1>3, <1>4, <1>8, ScoreGrows
<1>10. Dashboard!Percent(Cardinality(A), n) <= Dashboard!Percent(Cardinality(B), n)
  BY <1>3, <1>8, PercentGrows
<1>11. n - Cardinality(B) = (n - Cardinality(A)) - 1
  BY <1>3, <1>8
<1> DEFINE before == [count |-> n, sum |-> sum, answered |-> Cardinality(A), pending |-> n - Cardinality(A),
                      score |-> Dashboard!Score(sum, n, Cardinality(A), rec)]
           after == [count |-> n, sum |-> sum, answered |-> Cardinality(B), pending |-> n - Cardinality(B),
                     score |-> Dashboard!Score(sum, n, Cardinality(B), rec)]
<1>12. Dashboard!Snapshot(reviews, replies, day) = before
  BY DashboardCardinality DEF Dashboard!Snapshot, A, so, n, sum, rec
<1>13. Dashboard!Snapshot(reviews', replies', day') = after
  <2>1. Dashboard!Snapshot(reviews', replies', day') = Dashboard!Snapshot(reviews, replies', day)
    BY <1>1
  <2>2. Dashboard!Snapshot(reviews, replies', day) = after
    BY DashboardCardinality DEF Dashboard!Snapshot, B, so, n, sum, rec
  <2> QED BY <2>1, <2>2
<1>14. Dashboard!Improves(before, after)
  BY <1>8, <1>9, <1>10, <1>11 DEF Dashboard!Improves
<1> QED BY <1>12, <1>13, <1>14

SomeReply == \E r \in Reviews : replies[r] = None /\ replies'[r] # None

DashboardRules ==
  SomeReply =>
    Dashboard!Improves(Dashboard!Snapshot(reviews, replies, day),
                       Dashboard!Snapshot(reviews', replies', day'))

LEMMA DashboardObeys ==
  ASSUME DashboardInv, [Dashboard!Next]_dashboardVars
  PROVE  DashboardInv' /\ DashboardRules
<1>1. DashboardInv'
  BY DashboardKeeps
<1>2. CASE \A r \in Reviews : replies'[r] \in {replies[r], None}
  <2>1. ~ SomeReply
    BY <1>2 DEF SomeReply
  <2> QED BY <1>1, <2>1, Zenon DEF DashboardRules
<1>3. ASSUME NEW r \in Reviews, Dashboard!SubmitReply(r) PROVE DashboardRules
  <2>1. SUFFICES ASSUME NEW x \in Reviews, replies[x] = None, replies'[x] # None
                 PROVE  Dashboard!Improves(Dashboard!Snapshot(reviews, replies, day),
                                           Dashboard!Snapshot(reviews', replies', day'))
    BY Zenon DEF DashboardRules, SomeReply
  <2>2. x = r
    BY <1>3, <2>1 DEF Dashboard!SubmitReply, DashboardInv
  <2> QED BY <1>3, <2>1, <2>2, ReplyHelps
<1> QED BY <1>1, <1>2, <1>3, DashboardKeeps

-----------------------------------------------------------------------------
(* The pages whose steps are looked at.  Each rests while another is open,   *)
(* but for what they share: who is on display and how often others wrote.    *)

\* What the pages that take turns have in common.
SharedInv == others \in Nat /\ here \in BOOLEAN /\ (here => kind # "closed" \/ owner # "closed")

StepsInv == SharedInv /\ PlaceInv /\ LocalInv /\ ListInv /\ DashboardInv

StepsRules == PlaceRules /\ LocalRules /\ ListRules /\ DashboardRules

LEMMA StepsInitially == ScreensInit => StepsInv
<1> SUFFICES ASSUME ScreensInit PROVE StepsInv
  OBVIOUS
<1>1. List!Init /\ Local!Init /\ Place!Init /\ Dashboard!Init
  BY DEF ScreensInit
<1>2. SharedInv
  BY <1>1 DEF List!Init, SharedInv
<1> QED BY <1>1, <1>2, PlaceInitially, LocalInitially, ListInitially, DashboardInitially DEF StepsInv

LEMMA ListSharing ==
  ASSUME SharedInv, List!Next, owner = "closed", owner' = owner
  PROVE  SharedInv'
<1>1. ASSUME NEW k \in List!Kinds, List!Open(k) PROVE SharedInv'
  BY <1>1 DEF List!Open, List!Load, SharedInv, List!Kinds
<1>2. CASE List!Leave \/ List!Return \/ \E k \in List!AllKeys : List!SelectTab(k)
  BY <1>2 DEF List!Leave, List!Return, List!SelectTab, List!Load, SharedInv
<1>3. ASSUME NEW i \in Items, List!Filter(i) \/ List!StartEdit(i) \/ List!Elsewhere(i)
      PROVE  SharedInv'
  BY <1>3 DEF List!Filter, List!StartEdit, List!Elsewhere, SharedInv
<1>4. CASE List!CancelEdit \/ List!Read \/ List!Fill \/ List!FetchFails
  BY <1>4 DEF List!CancelEdit, List!Read, List!Fill, List!FetchFails, SharedInv
<1>5. ASSUME NEW c \in Calls, List!Click(c) \/ List!Outdated(c) \/ List!LateAnswer(c) PROVE SharedInv'
  BY <1>5 DEF List!Click, List!Outdated, List!LateAnswer, SharedInv
<1>6. ASSUME NEW c \in Calls, List!Commit(c) \/ List!Reject(c) PROVE SharedInv'
  BY <1>6 DEF List!Commit, List!Reject, SharedInv
<1> QED BY <1>1, <1>2, <1>3, <1>4, <1>5, <1>6 DEF List!Next

LEMMA ListingSharing ==
  ASSUME SharedInv, Listing!Next, UNCHANGED <<here, kind, owner>>
  PROVE  SharedInv'
<1>1. others' = others \/ others' = others + 1
  BY DEF Listing!Next, Listing!Open, Listing!ReadPlace, Listing!Seed, Listing!Leave, Listing!Return,
     Listing!Patch, Listing!PhotosChanged, Listing!Elsewhere, Listing!Save, Listing!PlaceUpdated,
     Listing!HoursSet, Listing!Reread, Listing!SaveEnds, Listing!SaveFails
<1> QED BY <1>1 DEF SharedInv

LEMMA GallerySharing ==
  ASSUME SharedInv, Gallery!Next, kind = "closed", kind' = kind
  PROVE  SharedInv'
<1>1. ASSUME NEW o \in {"PLACE", "REVIEW", "USER"}, Gallery!Open(o) PROVE SharedInv'
  BY <1>1 DEF Gallery!Open, SharedInv
<1>2. CASE Gallery!Leave
  BY <1>2 DEF Gallery!Leave, SharedInv
<1>7. CASE Gallery!Return
  BY <1>7 DEF Gallery!Return, SharedInv
<1>8. CASE Gallery!Elsewhere
  <2>1. others' = others + 1 /\ UNCHANGED <<owner, here>>
    BY <1>8 DEF Gallery!Elsewhere
  <2> QED BY <2>1 DEF SharedInv
<1>3. ASSUME UNCHANGED <<owner, here, others>> PROVE SharedInv'
  BY <1>3 DEF SharedInv
<1>4. CASE Gallery!ReadRows \/ Gallery!ShowRows \/ Gallery!FetchFails
  BY <1>3, <1>4 DEF Gallery!ReadRows, Gallery!ShowRows, Gallery!FetchFails
<1>5. ASSUME NEW u \in Uploads,
             \/ \E k \in Gallery!Hooks : Gallery!PickFile(u, k)
             \/ Gallery!Signed(u) \/ Gallery!Stored(u) \/ Gallery!CheckCap(u)
             \/ Gallery!Attached(u) \/ Gallery!UploadFails(u)
      PROVE  UNCHANGED <<owner, here, others>>
  BY <1>5 DEF Gallery!PickFile, Gallery!Signed, Gallery!Stored, Gallery!CheckCap, Gallery!Attached,
     Gallery!UploadFails
<1>6. ASSUME NEW p \in Photos, Gallery!Remove(p) \/ Gallery!Removed(p) \/ Gallery!RemoveFails(p)
      PROVE  UNCHANGED <<owner, here, others>>
  BY <1>6 DEF Gallery!Remove, Gallery!Removed, Gallery!RemoveFails
<1> QED BY <1>1, <1>2, <1>3, <1>4, <1>5, <1>6, <1>7, <1>8 DEF Gallery!Next

\* The pages that are not open rest.
LEMMA PlaceRests ==
  ASSUME PlaceInv, UNCHANGED placeVars PROVE PlaceInv' /\ PlaceRules
BY PlaceKeeps, PlaceObeys

LEMMA LocalRests ==
  ASSUME LocalInv, UNCHANGED localVars PROVE LocalInv' /\ LocalRules
BY LocalKeeps

LEMMA ListRests ==
  ASSUME ListInv, here' \in BOOLEAN, UNCHANGED listVars PROVE ListInv' /\ ListRules
<1>1. UNCHANGED <<kind, rows, key, lists, known, calls, fetch, editing>>
  BY DEF listVars
<1>2. HandlersFit'
  <2>1. calls \in [Calls -> NoCall \cup ListCall]
    BY DEF ListInv, ListData
  <2> QED BY <1>1, <2>1, HandlersStay, SelfContinues
<1>3. ListData' /\ ListsFit'
  BY <1>1, ListConstants DEF ListInv, ListData, ListsFit
<1>4. CallsGoOn /\ MineStays
  BY <1>1 DEF CallsGoOn, MineStays
<1> QED BY <1>2, <1>3, <1>4, ListObeys DEF ListInv

LEMMA DashboardRests ==
  ASSUME DashboardInv, UNCHANGED dashboardVars PROVE DashboardInv' /\ DashboardRules
BY DashboardObeys

LEMMA StepsKeep ==
  ASSUME StepsInv, [ScreensNext]_screensVars
  PROVE  StepsInv' /\ StepsRules
<1>1. CASE ListStep
  <2>1. /\ List!Next /\ owner = "closed" /\ UNCHANGED <<placeVars, localVars, dashboardVars, owner>>
    BY <1>1 DEF ListStep, Only, Pages, galleryVars
  <2>2. SharedInv'
    BY <2>1, ListSharing DEF StepsInv
  <2>3. ListInv' /\ ListRules
    BY <2>1, ListKeeps, ListObeys DEF StepsInv, SharedInv
  <2> QED BY <2>1, <2>2, <2>3, PlaceRests, LocalRests, DashboardRests DEF StepsInv, StepsRules
<1>2. ASSUME UNCHANGED <<listVars, dashboardVars>>, SharedInv', PlaceInv' /\ PlaceRules, LocalInv' /\ LocalRules
      PROVE  StepsInv' /\ StepsRules
  BY <1>2, ListRests, DashboardRests DEF StepsInv, StepsRules, SharedInv
<1>3. CASE LocalStep
  <2>1. Local!Next /\ UNCHANGED <<here, others, kind, owner, listVars, placeVars, dashboardVars>>
    BY <1>3 DEF LocalStep, listVars, galleryVars
  <2>2. SharedInv'
    BY <2>1 DEF StepsInv, SharedInv
  <2> QED BY <1>2, <2>1, <2>2, PlaceRests, LocalKeeps DEF StepsInv
<1>4. CASE PlaceStep
  <2>1. Place!Next /\ UNCHANGED <<here, others, kind, owner, listVars, localVars, dashboardVars>>
    BY <1>4 DEF PlaceStep, listVars, galleryVars
  <2>2. SharedInv'
    BY <2>1 DEF StepsInv, SharedInv
  <2> QED BY <1>2, <2>1, <2>2, PlaceKeeps, PlaceObeys, LocalRests DEF StepsInv
<1>5. CASE ListingStep
  <2>1. Listing!Next /\ UNCHANGED <<here, kind, owner, listVars, localVars, placeVars, dashboardVars>>
    BY <1>5 DEF ListingStep, listVars, galleryVars
  <2> QED BY <1>2, <2>1, ListingSharing, PlaceRests, LocalRests DEF StepsInv
<1>6. CASE GalleryStep
  <2>1. /\ Gallery!Next /\ kind = "closed"
        /\ UNCHANGED <<kind, listVars, localVars, placeVars, dashboardVars>>
    BY <1>6 DEF GalleryStep, Only, Pages, listVars
  <2> QED BY <1>2, <2>1, GallerySharing, PlaceRests, LocalRests DEF StepsInv
<1>7. CASE DashboardStep
  <2>1. Dashboard!Next /\ UNCHANGED <<here, others, kind, owner, listVars, localVars, placeVars>>
    BY <1>7 DEF DashboardStep, listVars, galleryVars
  <2>2. SharedInv'
    BY <2>1 DEF StepsInv, SharedInv
  <2> QED BY <2>1, <2>2, DashboardObeys, PlaceRests, LocalRests, ListRests
          DEF StepsInv, StepsRules, SharedInv
<1>8. CASE SignUpStep \/ LayoutStep \/ UNCHANGED screensVars
  <2>1. UNCHANGED <<here, others, kind, owner, listVars, localVars, placeVars, dashboardVars>>
    BY <1>8 DEF SignUpStep, LayoutStep, screensVars, listVars, galleryVars
  <2>2. SharedInv'
    BY <2>1 DEF StepsInv, SharedInv
  <2> QED BY <1>2, <2>1, <2>2, PlaceRests, LocalRests DEF StepsInv
<1> QED BY <1>1, <1>3, <1>4, <1>5, <1>6, <1>7, <1>8 DEF ScreensNext

\* What the proofs need to know of the other pages, in every state.
THEOREM StepsInvariant == ScreensSpec => []StepsInv
<1>1. StepsInv /\ [ScreensNext]_screensVars => StepsInv'
  BY StepsKeep
<1> QED BY <1>1, StepsInitially, PTL DEF ScreensSpec

\* No vote and no answer, but that of a deletion, takes away or changes what was
\* typed into a new review while its visitor stays with it, an edit is only
\* submitted from a form that was filled with the review it edits, and two windows
\* over one local list change one item at a time and bring no deleted one back
\* (PlaceDetailPage.tsx, drafts.ts, promotionsStore.ts).
THEOREM NothingIsLost == ScreensSpec => NothingTypedIsLost
<1>1. ASSUME StepsInv, [ScreensNext]_screensVars
      PROVE  /\ [/\ reviewForm # None /\ reviewForm.typed /\ editingId = None /\ submit = None
                 /\ placeJob = None \/ placeJob.id = None
                 /\ UNCHANGED <<place, open, editingId>>
                 => reviewForm' = reviewForm]_(Place!vars)
             /\ [submit = None /\ submit' # None => reviewForm.base = submit'.edit]_(Place!vars)
             /\ [Local!Cardinality({id \in LocalIds : stored'[id] # stored[id]}) <= 1
                 /\ \A id \in made : stored[id] = None => stored'[id] = None]_(Local!vars)
  BY <1>1, StepsKeep DEF StepsRules, PlaceRules, LocalRules, ChangesOne, NoneComesBack
<1> QED BY <1>1, StepsInvariant, PTL
        DEF ScreensSpec, NothingTypedIsLost, Place!AnswersKeepTypedText, Place!EditStartsFromPublished,
            Local!OneItemAtATime

\* "Remove" never saves a place again, unless its card came back, with its button
\* enabled, while its first click ran; "sign out of all other devices" goes on only
\* when every listed session has ended and spares its own, no running promotion is
\* cleared away, a photo that was lost on the way is reported, and a reply never
\* lowers the score or the response rate: unless another device interferes
\* (SavedPage.tsx, RegularSettingsPage.tsx, promotionsStore.ts, PlaceDetailPage.tsx,
\* businessDashboardMath.ts).
THEOREM ClicksAreHonest == ScreensSpec => ClicksDoWhatTheySay
<1>1. ASSUME StepsInv, [ScreensNext]_screensVars
      PROVE  /\ [\A c \in Calls : \A i \in calls[c].todo :
                    calls[c].edit = "toggle" /\ calls[c].seen /\ calls[c].alone /\ rows[i] = List!Gone =>
                      rows'[i] = List!Gone \/ others' # others]_(List!vars)
             /\ [\A c \in Calls :
                    calls[c].edit = "revokeAll" /\ calls[c].step = "edit" /\ others' = others =>
                      /\ rows'[Mine] = rows[Mine]
                      /\ calls'[c].step = "refetch" => \A i \in calls[c].for : rows'[i] = List!Gone]_(List!vars)
             /\ [\A id \in LocalIds : \A w \in Windows :
                    section = "promotions" /\ stored[id] # None /\ stored'[id] = None
                    /\ copy'[w] # copy[w] =>
                      painted[w] \notin stored[id].from..stored[id].to]_(Local!vars)
             /\ [submit # None /\ submit.step = "photos" /\ submit.missing > 0
                 /\ submit'.step = "refetch" => warning']_(Place!vars)
             /\ [(\E r \in Reviews : replies[r] = None /\ replies'[r] # None) =>
                   Dashboard!Improves(Dashboard!Snapshot(reviews, replies, day),
                                      Dashboard!Snapshot(reviews', replies', day'))]_(Dashboard!vars)
  <2>1. StepsRules
    BY <1>1, StepsKeep
  <2> QED BY <2>1, Zenon DEF StepsRules, PlaceRules, LocalRules, ListRules, DashboardRules, SomeReply
<1> QED BY <1>1, StepsInvariant, PTL
        DEF ScreensSpec, ClicksDoWhatTheySay, List!RemoveNeverSaves, List!SweepEndsOthers,
            Local!RunningPromotionsStay, Place!MissingPhotosAreReported, Dashboard!ReplyingHelps

-----------------------------------------------------------------------------
(* What the pages show.  A form, a list or a number that was fetched is true *)
(* unless a row was changed since, and then it is fetched again: each page   *)
(* says so of itself while it is open and its history has no excuse.         *)

\* What a list of own reviews should hold.
OwnReviewOf(k) == IF k[2] \in Buried THEN {} ELSE {mine[k[1]]} \ {None}

\* The latest request is for the list on display.  That list, or the answer on
\* its way to it, is true, except while the photos of a new review are sent,
\* after which it is asked for again.
OwnListFits ==
  entry # "closed" /\ ~excuse =>
    /\ listFetch.key # None => listFetch.key = Place!Key
    /\ submit = None \/ submit.step # "photos" =>
         IF listFetch.key = None
         THEN ownReviews[Place!Key] # None => ownReviews[Place!Key] = OwnReviewOf(Place!Key)
         ELSE listFetch.got # None => listFetch.got = OwnReviewOf(Place!Key)

LEMMA OwnListFitsFirst == Place!Init => OwnListFits
BY DEF Place!Init, OwnListFits

\* A list that is asked for has no answer yet.
LEMMA OwnListAsked ==
  ASSUME listFetch' = [key |-> (Place!Key)', got |-> None], (Place!Key)' # None
  PROVE  OwnListFits'
<1> DEFINE k == (Place!Key)'
<1>1. listFetch'.key = k /\ listFetch'.got = None
  OBVIOUS
<1> QED BY <1>1 DEF OwnListFits

LEMMA OwnListLoaded ==
  ASSUME Place!Load((Place!Key)'), (Place!Key)' # None PROVE OwnListFits'
<1>1. CASE ownReviews[(Place!Key)'] = None
  BY <1>1, OwnListAsked DEF Place!Load
<1>2. CASE ownReviews[(Place!Key)'] # None
  BY <1>2 DEF Place!Load, OwnListFits
<1> QED BY <1>1, <1>2

\* Steps that change no list, no request and no row.
LEMMA OwnListStays ==
  ASSUME OwnListFits,
         UNCHANGED <<entry, place, placeSort, mine, ownReviews, listFetch, excuse>>,
         submit' = None \/ submit'.step # "photos" => submit = None \/ submit.step # "photos"
  PROVE  OwnListFits'
BY DEF OwnListFits, OwnReviewOf, Place!Key

LEMMA NoSubmission == ASSUME PlaceData PROVE None \notin Submission
BY NoneIsNoValue DEF PlaceData, Submission, Targets

LEMMA OwnListKeeps ==
  ASSUME PlaceInv, OwnListFits, excuse \in BOOLEAN, [Place!Next]_(Place!vars)
  PROVE  OwnListFits' /\ excuse' \in BOOLEAN
<1>0. /\ PlaceData /\ FormFits /\ SubmitFits /\ PlaceAtRest /\ Place!Key \in Place!Keys
      /\ ownReviews \in [Place!Keys -> {None} \cup SUBSET usedIds] /\ None \notin Place!Keys
      /\ (Place!Key)' # None
  <2>1. PlaceInv'
    BY PlaceKeeps DEF placeVars, Place!vars
  <2> QED BY <2>1, NoneIsNoValue DEF PlaceInv, PlaceData, Place!Key, Place!Keys
<1>1. ASSUME NEW e \in {"id", "token"}, Place!Arrive(e) PROVE OwnListFits' /\ excuse' \in BOOLEAN
  <2>1. Place!Load((Place!Key)')
    BY <1>1 DEF Place!Arrive, Place!Key
  <2> QED BY <1>0, <2>1, OwnListLoaded DEF Place!Load
<1>2. ASSUME NEW p \in PlacesShown, Place!GoTo(p) PROVE OwnListFits' /\ excuse' \in BOOLEAN
  <2>1. Place!Load((Place!Key)')
    BY <1>2 DEF Place!GoTo, Place!Key
  <2> QED BY <1>0, <2>1, OwnListLoaded DEF Place!Load
<1>3. ASSUME NEW s \in Sorts, Place!SelectSort(s) PROVE OwnListFits' /\ excuse' \in BOOLEAN
  <2>1. Place!Load((Place!Key)')
    BY <1>3 DEF Place!SelectSort, Place!Key
  <2> QED BY <1>0, <2>1, OwnListLoaded DEF Place!Load
<1>4. CASE UNCHANGED <<entry, place, placeSort, mine, ownReviews, listFetch, excuse, submit>>
  BY <1>4, OwnListStays
<1>5. CASE \/ Place!SignIn \/ Place!CheckExisting \/ Place!OpenWriteForm \/ Place!OpenEditForm
           \/ Place!CancelWriteForm \/ Place!SaveDraft \/ Place!Type \/ Place!AskDelete
           \/ Place!CloseDialog \/ Place!ConfirmDelete \/ Place!ToggleHelpful \/ UNCHANGED Place!vars
  BY <1>4, <1>5 DEF Place!SignIn, Place!CheckExisting, Place!OpenWriteForm, Place!OpenEditForm, Place!Opens,
     Place!CancelWriteForm, Place!SaveDraft, Place!Type, Place!AskDelete,
     Place!CloseDialog, Place!ConfirmDelete, Place!ToggleHelpful, Place!vars
<1>6. CASE Place!SubmitReview
  <2>1. UNCHANGED <<entry, place, placeSort, mine, ownReviews, listFetch, excuse>> /\ submit = None
    BY <1>6 DEF Place!SubmitReview
  <2> QED BY <2>1, OwnListStays
<1>7. CASE Place!SendSucceeds
  <2>1. UNCHANGED <<place, placeSort, excuse, ownReviews, entry>> /\ submit \in Submission
    BY <1>0, <1>7 DEF Place!SendSucceeds, SubmitFits
  <2>2. CASE Place!Finish
    BY <1>0, <2>1, <2>2, OwnListAsked DEF Place!Finish, Place!RefetchAll, Place!RefetchReviews, Place!Key
  <2>3. CASE submit' = [submit EXCEPT !.step = "photos"] /\ UNCHANGED listFetch
    <3>1. submit' # None /\ submit'.step = "photos"
      <4>1. [submit EXCEPT !.step = "photos"] \in Submission
        BY <2>1 DEF Submission
      <4> QED BY <1>0, <2>1, <2>3, <4>1, NoSubmission DEF Submission
    <3> QED BY <2>1, <2>3, <3>1 DEF OwnListFits, Place!Key
  <2> QED BY <1>7, <2>2, <2>3 DEF Place!SendSucceeds
<1>8. CASE Place!SendFails
  <2>1. /\ UNCHANGED <<place, placeSort, ownReviews, entry, listFetch>>
        /\ submit.step = "send" /\ submit' = None
        /\ UNCHANGED <<mine, excuse>> \/ excuse' = TRUE
    BY <1>8 DEF Place!SendFails
  <2> QED BY <2>1, OwnListStays DEF OwnListFits
<1>9. CASE Place!PhotoEnds
  <2>1. UNCHANGED <<entry, place, placeSort, mine, ownReviews, listFetch, excuse>>
    BY <1>9 DEF Place!PhotoEnds
  <2>2. submit \in Submission
    BY <1>0, <1>9 DEF Place!PhotoEnds, SubmitFits
  <2>3. submit'.step = submit.step /\ submit.step = "photos" /\ submit # None /\ submit' # None
    <3>1. PICK attached \in BOOLEAN, reported \in BOOLEAN :
            submit' = [submit EXCEPT !.todo = @ - 1,
                                     !.failed = @ + (IF reported THEN 0 ELSE 1),
                                     !.missing = @ + (IF attached THEN 0 ELSE 1)]
      BY <1>9 DEF Place!PhotoEnds
    <3>2. /\ submit.todo > 0 /\ submit # None /\ submit.step = "photos"
          /\ submit.failed \in Nat /\ submit.missing \in Nat /\ submit.todo \in 0..MAX_PHOTOS
      BY <1>0, <1>9, PhotoCounts DEF Place!PhotoEnds
    <3>3. /\ submit.todo - 1 \in 0..MAX_PHOTOS
          /\ submit.failed + (IF reported THEN 0 ELSE 1) \in Nat
          /\ submit.missing + (IF attached THEN 0 ELSE 1) \in Nat
      BY <3>1, <3>2, ScreensType
    <3>4. submit' \in Submission /\ submit'.step = submit.step
      BY <2>2, <3>1, <3>3 DEF Submission
    <3> QED BY <1>0, <3>2, <3>4, NoSubmission
  <2> QED BY <2>1, <2>3, OwnListStays
<1>10. CASE Place!PhotosSettled
  BY <1>0, <1>10, OwnListAsked DEF Place!PhotosSettled, Place!Finish, Place!RefetchAll, Place!RefetchReviews, Place!Key
<1>11. CASE Place!JobSucceeds
  BY <1>0, <1>11, OwnListAsked DEF Place!JobSucceeds, Place!RefetchAll, Place!RefetchReviews, Place!Key
<1>12. CASE Place!JobFails
  <2>1. /\ UNCHANGED <<place, placeSort, ownReviews, entry, listFetch, submit>>
        /\ excuse' \in BOOLEAN
        /\ (UNCHANGED mine \/ excuse' = TRUE) /\ (excuse => excuse')
    <3>1. /\ UNCHANGED <<place, placeSort, ownReviews, entry, listFetch, submit>>
          /\ UNCHANGED <<mine, excuse>> \/ excuse' = TRUE
      BY <1>12 DEF Place!JobFails
    <3> QED BY <3>1
  <2> QED BY <2>1 DEF OwnListFits, OwnReviewOf, Place!Key
<1>13. CASE Place!ReadList
  <2>1. /\ UNCHANGED <<entry, place, placeSort, mine, ownReviews, submit>>
        /\ listFetch' = [listFetch EXCEPT !.got = OwnReviewOf(listFetch.key)]
        /\ listFetch.key # None /\ excuse' = (excuse /\ listFetch.key # Place!Key)
    BY <1>13 DEF Place!ReadList, OwnReviewOf
  <2>2. listFetch'.key = listFetch.key /\ listFetch'.got = OwnReviewOf(listFetch.key)
    BY <1>0, <2>1 DEF PlaceData
  <2> QED BY <2>1, <2>2 DEF OwnListFits, OwnReviewOf, Place!Key
<1>14. CASE Place!FillList
  <2>1. /\ UNCHANGED <<entry, place, placeSort, mine, excuse, submit>> /\ listFetch' = Place!NoFetch
        /\ listFetch.got # None /\ ownReviews' = [ownReviews EXCEPT ![listFetch.key] = listFetch.got]
    BY <1>14 DEF Place!FillList
  <2>2. listFetch'.key = None
    BY <2>1 DEF Place!NoFetch
  <2> QED BY <1>0, <2>1, <2>2 DEF OwnListFits, OwnReviewOf, Place!Key
<1>15. CASE Place!ListFails
  BY <1>15 DEF Place!ListFails, OwnListFits
<1>16. CASE Place!PlaceArrives \/ Place!JobEnds
  BY <1>4, <1>16 DEF Place!PlaceArrives, Place!JobEnds
<1>17. CASE Place!PlaceFails \/ Place!SubmitEnds
  <2>1. /\ UNCHANGED <<entry, place, placeSort, mine, ownReviews, listFetch, excuse>>
        /\ submit' = submit \/ submit.step = "refetch"
    BY <1>17 DEF Place!PlaceFails, Place!SubmitEnds, Place!WaitersFail, Place!Waits
  <2> QED BY <2>1, OwnListStays
<1> QED BY <1>1, <1>2, <1>3, <1>5, <1>6, <1>7, <1>8, <1>9, <1>10, <1>11, <1>12, <1>13, <1>14, <1>15,
           <1>16, <1>17
        DEF Place!Next, Place!Event

LEMMA PlaceAgrees ==
  ASSUME PlaceInv, OwnListFits, excuse \in BOOLEAN
  PROVE  Place!TypeOK /\ Place!MyReviewShows
<1>0. PlaceData /\ FormFits /\ SubmitFits
  BY DEF PlaceInv
<1>1. Place!TypeOK
  <2>1. submit # None => submit.step \in {"send", "photos", "refetch"} /\ submit.todo \in 0..MAX_PHOTOS
    BY <1>0 DEF SubmitFits, Submission
  <2> QED BY <1>0, <2>1 DEF PlaceData, FormFits, Place!TypeOK, WriteForm
<1>2. Place!MyReviewShows
  BY DEF Place!MyReviewShows, OwnListFits, Place!NoFetch, OwnReviewOf, Place!Key
<1> QED BY <1>1, <1>2

-----------------------------------------------------------------------------
(* Drafts and promotions, and the lists that are edited row by row.          *)

LEMMA LocalAgrees == LocalInv => Local!TypeOK
<1> SUFFICES ASSUME LocalInv PROVE Local!TypeOK
  OBVIOUS
<1>1. \A id \in LocalIds :
        /\ stored[id] \in Local!Draft \cup Local!Promotion \cup {None}
        /\ stored[id] # None => id \in made
  BY DEF LocalInv, LocalData, CopiesFit, ListOfEntries, Entries
<1>2. \A w \in Windows :
        /\ copy[w] # None => \A id \in LocalIds : copy[w][id] # None => id \in made
        /\ confirming[w] \in made \cup {None}
        /\ card[w] = None \/ card[w] \in made \X Texts
  BY DEF LocalInv, LocalData, CopiesFit
<1> QED BY <1>1, <1>2 DEF LocalInv, LocalData, Local!TypeOK

\* The values that the rows of the open screen have.
ValuesNow == {List!Gone} \cup (IF kind = "closed" THEN {} ELSE List!Values(kind))

\* Rows, entities, answers and edits are of the kind of the screen.
KindFits ==
  /\ kind # "closed" => key \in List!Keys(kind)
  /\ rows \in [Items -> ValuesNow] /\ known \in [Items -> ValuesNow] /\ fetch.was \in [Items -> ValuesNow]
  /\ \A c \in Calls : calls[c] \in ListCall /\ calls[c].edit # "toggle" => calls[c].to \in ValuesNow
  /\ edits \in 0..MAX_EDITS

\* The latest request is for the list on display.  That list, or the answer on
\* its way to it, is the server's unless an edit has not been answered, after
\* which it is asked for again.
NoEditRuns == \A c \in Calls : calls[c].step # "edit"
ListTrue ==
  /\ fetch.by = None => fetch.got = None
  /\ here /\ kind # "closed" /\ ~excuse =>
       /\ fetch.by # None => fetch.key = key
       /\ NoEditRuns =>
            IF fetch.by = None
            THEN lists[key] # None =>
                   lists[key] = List!View(key) /\ \A i \in lists[key] : known[i] = rows[i]
            ELSE fetch.got # None => fetch.got = List!View(key) /\ fetch.was = rows

\* Nothing is listed or asked for before a screen is opened.
ListAtRest ==
  kind = "closed" =>
    fetch = List!NoFetch /\ waiting = FALSE /\ \A k \in List!AllKeys : lists[k] = None

\* A page that is gone waits for nothing, and none of its handlers is still mounted.
HereFits ==
  /\ waiting \in BOOLEAN
  /\ ~here => fetch = List!NoFetch /\ waiting = FALSE /\ \A c \in Calls : ~calls[c].mounted

LEMMA ListAgreesFirst == List!Init => KindFits /\ ListTrue /\ ListAtRest /\ HereFits
<1> SUFFICES ASSUME List!Init PROVE KindFits /\ ListTrue /\ ListAtRest /\ HereFits
  OBVIOUS
<1>1. fetch.by = None /\ fetch.got = None /\ fetch.was = [i \in Items |-> List!Gone] /\ here = FALSE
  BY DEF List!Init, List!NoFetch
<1>2. \A c \in Calls : calls[c] \notin ListCall /\ ~calls[c].mounted
  BY CallTypes DEF List!Init
<1>3. KindFits
  BY <1>1, <1>2, ScreensType DEF List!Init, KindFits, ValuesNow
<1>4. ListTrue
  BY <1>1 DEF ListTrue
<1>5. ListAtRest /\ HereFits
  BY <1>2 DEF List!Init, ListAtRest, HereFits
<1> QED BY <1>3, <1>4, <1>5

LEMMA OnlyIdle == \A x \in NoCall : x = List!Idle
<1> SUFFICES ASSUME NEW x \in NoCall PROVE x = List!Idle
  OBVIOUS
<1>1. x = [edit |-> x.edit, for |-> x.for, todo |-> x.todo, to |-> x.to, on |-> x.on, step |-> x.step,
           mounted |-> x.mounted, seen |-> x.seen, alone |-> x.alone]
  BY DEF NoCall
<1>2. /\ x.edit = None /\ x.for = {} /\ x.todo = {} /\ x.to = None /\ x.on = None
      /\ x.step = None /\ x.mounted = FALSE /\ x.seen = FALSE /\ x.alone = FALSE
  BY DEF NoCall
<1> QED BY <1>1, <1>2, Zenon DEF List!Idle

\* A request that is sent for the list on display.
LEMMA FetchIs ==
  ASSUME NEW b, NEW k
  PROVE  /\ List!Fetch(b, k).by = b /\ List!Fetch(b, k).key = k /\ List!Fetch(b, k).got = None
         /\ List!Fetch(b, k).was = [i \in Items |-> List!Gone]
BY DEF List!Fetch, List!NoFetch

LEMMA ListLoads ==
  ASSUME ListTrue, NEW k, List!Load(k), key' = k, lists' = lists
  PROVE  ListTrue' /\ excuse' \in BOOLEAN
         /\ (fetch'.was = fetch.was \/ fetch'.was = [i \in Items |-> List!Gone])
<1>1. CASE fetch' = fetch /\ excuse' = TRUE
  BY <1>1 DEF ListTrue
<1>2. CASE lists[k] = None /\ fetch' = List!Fetch("load", k) /\ excuse' = FALSE
  <2>1. fetch'.key = k /\ fetch'.got = None /\ fetch'.was = [i \in Items |-> List!Gone]
    BY <1>2, FetchIs
  <2>2. lists'[key'] = None
    BY <1>2
  <2> QED BY <1>2, <2>1, <2>2 DEF ListTrue
<1> QED BY <1>1, <1>2 DEF List!Load

\* Steps that change no row, no list and no request.
LEMMA ListTrueStays ==
  ASSUME ListTrue, UNCHANGED <<kind, rows, key, lists, known, fetch, excuse>>, here' => here,
         NoEditRuns' => NoEditRuns
  PROVE  ListTrue'
BY DEF ListTrue, List!View, List!Unread, List!Live, List!Gone

LEMMA KindStays ==
  ASSUME ListInv, KindFits, UNCHANGED <<kind, key, edits>>,
         rows' \in [Items -> ValuesNow], known' \in [Items -> ValuesNow], fetch'.was \in [Items -> ValuesNow],
         \A c \in Calls : calls'[c] \in ListCall => 
           /\ calls[c] \in ListCall /\ calls'[c].edit = calls[c].edit /\ calls'[c].to = calls[c].to
  PROVE  KindFits'
<1>1. ValuesNow' = ValuesNow /\ ListCall' = ListCall /\ List!Keys(kind)' = List!Keys(kind)
  BY ListConstants DEF ValuesNow, List!Values, List!Gone, List!Keys
<1> QED BY <1>1 DEF KindFits

\* Steps of the handlers alone, while the page is there or not.
LEMMA HereStays ==
  ASSUME HereFits, here' = here, waiting' \in BOOLEAN,
         ~here => UNCHANGED <<fetch, waiting>> /\ \A c \in Calls : calls'[c].mounted => calls[c].mounted
  PROVE  HereFits'
BY DEF HereFits, List!NoFetch, List!Gone

\* What a step of the screens leaves true of the list on display.
ListGoesOn ==
  KindFits' /\ ListTrue' /\ HereFits' /\ excuse' \in BOOLEAN /\ others' \in 0..MAX_OTHERS

LEMMA ListNavigatesTrue ==
  ASSUME ListInv, KindFits, ListTrue, HereFits, here => kind # "closed", excuse \in BOOLEAN, others \in 0..MAX_OTHERS,
         \/ \E k \in List!Kinds : List!Open(k)
         \/ List!Leave \/ List!Return \/ \E k \in List!AllKeys : List!SelectTab(k)
         \/ \E i \in Items : List!Filter(i) \/ List!StartEdit(i)
         \/ List!CancelEdit
  PROVE  ListGoesOn
<1>0. /\ UNCHANGED <<lists, known, others, edits>>
      /\ [i \in Items |-> List!Gone] \in [Items -> ValuesNow]
  BY DEF List!Open, List!Leave, List!Return, List!SelectTab, List!Filter, List!StartEdit, List!CancelEdit,
     ValuesNow
<1>4. \A c \in Calls : /\ Continues(calls[c], calls'[c]) /\ calls'[c].step = calls[c].step
                       /\ calls'[c].mounted => calls[c].mounted
  BY ButtonsForgotten, CallTypes DEF ListInv, ListData
<1>5. \A c \in Calls : calls'[c] \in ListCall =>
        calls[c] \in ListCall /\ calls'[c].edit = calls[c].edit /\ calls'[c].to = calls[c].to
  BY <1>4, CallTypes DEF ListInv, ListData, Continues, SameCall
<1>6. ASSUME here', waiting' \in BOOLEAN PROVE HereFits'
  BY <1>6 DEF HereFits
<1>1. ASSUME NEW k \in List!Kinds, List!Open(k) PROVE ListGoesOn
  <2>1. /\ kind = "closed" /\ kind' = k /\ key' = "ALL" /\ List!Load("ALL")
        /\ rows' \in [Items -> List!Values(k) \cup {List!Gone}]
    BY <1>1 DEF List!Open
  <2>2. ListTrue' /\ excuse' \in BOOLEAN /\ fetch'.was \in [Items -> ValuesNow]
    BY <1>0, <2>1, ListLoads DEF KindFits
  <2>3. ValuesNow \subseteq ValuesNow' /\ List!Values(k) \cup {List!Gone} \subseteq ValuesNow'
    BY <2>1 DEF ValuesNow, List!Kinds, List!Gone, List!Values
  <2>4. "ALL" \in List!Keys(k)'
    BY DEF List!Keys, List!Kinds, List!NoticeTabs, List!ReviewSorts
  <2>5. \A c \in Calls : calls'[c] \notin ListCall
    BY <1>5, <2>1, CallTypes DEF ListInv, ListData
  <2>7. HereFits'
    BY <1>1, <1>6 DEF List!Open, List!Load, List!Waits
  <2>6. KindFits'
    <3>1. /\ rows' \in [Items -> ValuesNow'] /\ known' \in [Items -> ValuesNow']
          /\ fetch'.was \in [Items -> ValuesNow']
      BY <1>0, <2>1, <2>2, <2>3 DEF KindFits
    <3> QED BY <1>0, <2>1, <2>4, <2>5, <3>1, ListConstants DEF KindFits
  <2> QED BY <1>0, <2>2, <2>6, <2>7 DEF ListGoesOn
<1>2. CASE List!Leave
  <2>1. /\ UNCHANGED <<kind, rows, key, excuse>> /\ here' = FALSE /\ waiting' = FALSE
        /\ fetch' = List!NoFetch
        /\ calls' = [c \in Calls |-> [List!Forgets(calls, {})[c] EXCEPT !.mounted = FALSE]]
    BY <1>2 DEF List!Leave
  <2>2. /\ fetch'.by = None /\ fetch'.got = None /\ fetch'.was = [i \in Items |-> List!Gone]
    BY <2>1 DEF List!NoFetch
  <2>3. KindFits'
    BY <1>0, <1>5, <2>1, <2>2, KindStays DEF KindFits
  <2>4. ASSUME NEW c \in Calls PROVE ~calls'[c].mounted
    <3>1. List!Forgets(calls, {})[c] \in NoCall \cup ListCall
      BY Forgotten DEF ListInv, ListData
    <3> QED BY <2>1, <3>1 DEF NoCall, ListCall
  <2>5. HereFits'
    BY <2>1, <2>4 DEF HereFits, List!NoFetch, List!Gone
  <2> QED BY <1>0, <2>1, <2>2, <2>3, <2>5 DEF ListGoesOn, ListTrue
<1>7. CASE List!CancelEdit \/ \E i \in Items : List!Filter(i) \/ List!StartEdit(i)
  <2>1. UNCHANGED <<kind, rows, key, fetch, excuse, here, waiting>>
    BY <1>7 DEF List!Filter, List!CancelEdit, List!StartEdit
  <2>2. KindFits'
    BY <1>0, <1>5, <2>1, KindStays DEF KindFits
  <2>3. ListTrue'
    BY <1>0, <1>4, <2>1, ListTrueStays DEF NoEditRuns
  <2>4. HereFits'
    BY <1>4, <2>1, HereStays DEF HereFits
  <2> QED BY <1>0, <2>1, <2>2, <2>3, <2>4 DEF ListGoesOn
<1>3. CASE List!Return \/ \E k \in List!AllKeys : List!SelectTab(k)
  <2>1. PICK k \in List!Keys(kind) : key' = k /\ List!Load(k) /\ UNCHANGED <<kind, rows>>
    <3>1. CASE List!Return
      <4>1. "ALL" \in List!Keys(kind)
        BY DEF List!Keys, List!NoticeTabs, List!ReviewSorts
      <4> QED BY <3>1, <4>1 DEF List!Return
    <3> QED BY <1>3, <3>1 DEF List!SelectTab
  <2>2. ListTrue' /\ excuse' \in BOOLEAN /\ fetch'.was \in [Items -> ValuesNow]
    BY <1>0, <2>1, ListLoads DEF KindFits
  <2>3. ValuesNow' = ValuesNow /\ List!Keys(kind)' = List!Keys(kind)
    BY <2>1 DEF ValuesNow, List!Values, List!Gone, List!Keys
  <2>4. KindFits'
    BY <1>0, <1>5, <2>1, <2>2, <2>3, ListConstants DEF KindFits
  <2>5. here'
    BY <1>3 DEF List!Return, List!SelectTab
  <2>6. waiting' \in BOOLEAN
    BY <2>1 DEF List!Load, List!Waits
  <2> QED BY <1>0, <1>6, <2>2, <2>4, <2>5, <2>6 DEF ListGoesOn
<1> QED BY <1>1, <1>2, <1>3, <1>7

LEMMA ListClicksTrue ==
  ASSUME ListInv, KindFits, ListTrue, HereFits, excuse \in BOOLEAN, others \in 0..MAX_OTHERS,
         here => kind # "closed", NEW c \in Calls, List!Click(c)
  PROVE  ListGoesOn
<1>2. /\ UNCHANGED <<kind, here, waiting, rows, key, lists, known, fetch, editing, others, excuse>>
      /\ here /\ kind # "closed" /\ edits' = edits + 1 /\ edits + others < MAX_EDITS
  BY DEF List!Click
<1>3. /\ calls'[c] \in ListCall /\ calls'[c].step = "edit"
      /\ calls'[c].edit # "toggle" => calls'[c].to \in ValuesNow
      /\ \A d \in Calls \ {c} : calls'[d] \in ListCall =>
            calls[d] \in ListCall /\ calls'[d].edit = calls[d].edit /\ calls'[d].to = calls[d].to
  <2>1. PICK e \in List!Clicks :
             /\ calls'[c] \in ListCall /\ calls'[c].step = "edit"
             /\ calls'[c].edit = e.edit /\ calls'[c].to = e.to
             /\ \A d \in Calls \ {c} : Continues(calls[d], calls'[d])
    BY <1>2, ClickIs
  <2>2. e.edit # "toggle" => e.to \in ValuesNow
    BY <1>2, ClickFits DEF ValuesNow
  <2> QED BY <2>1, <2>2, CallTypes DEF ListInv, ListData, Continues, SameCall
<1>5. ~NoEditRuns'
  BY <1>3 DEF NoEditRuns
<1>6. ListTrue'
  BY <1>2, <1>5 DEF ListTrue
<1>7. edits' \in 0..MAX_EDITS
  <2>1. edits \in Nat /\ others \in Nat /\ MAX_EDITS \in Nat
    BY ScreensType DEF KindFits
  <2> QED BY <1>2, <2>1
<1>8. KindFits'
  <2>1. ValuesNow' = ValuesNow /\ List!Keys(kind)' = List!Keys(kind)
    BY <1>2 DEF ValuesNow, List!Values, List!Gone, List!Keys
  <2>2. \A d \in Calls : calls'[d] \in ListCall /\ calls'[d].edit # "toggle" => calls'[d].to \in ValuesNow
    BY <1>3 DEF KindFits
  <2> QED BY <1>2, <1>7, <2>1, <2>2, ListConstants DEF KindFits
<1>9. HereFits'
  BY <1>2 DEF HereFits
<1> QED BY <1>2, <1>6, <1>8, <1>9 DEF ListGoesOn

\* An edit leaves a value of the screen's kind.
LEMMA EffectFits ==
  ASSUME ListInv, KindFits, NEW c \in Calls, calls[c] \in ListCall, NEW i \in Items
  PROVE  List!Effect(calls[c], i) \in ValuesNow
<1>1. /\ HandlerFits(calls[c]) /\ (calls[c].edit # "toggle" => calls[c].to \in ValuesNow)
      /\ List!Gone \in ValuesNow
  BY DEF ListInv, HandlersFit, KindFits, ValuesNow
<1>2. CASE calls[c].edit = "toggle"
  <2>1. "SAVED" \in ValuesNow
    BY <1>1, <1>2 DEF HandlerFits, ValuesNow, List!Values, List!SavedValues
  <2> QED BY <1>1, <1>2, <2>1 DEF List!Effect
<1>3. CASE calls[c].edit # "toggle"
  BY <1>1, <1>3 DEF List!Effect
<1> QED BY <1>2, <1>3

LEMMA ListCommitsTrue ==
  ASSUME ListInv, KindFits, ListTrue, HereFits, here => kind # "closed", excuse \in BOOLEAN,
         others \in 0..MAX_OTHERS, NEW c \in Calls, List!Commit(c)
  PROVE  ListGoesOn
<1>0. /\ ListData /\ UNCHANGED <<kind, here, key, lists, others, edits>>
      /\ calls[c].step \in {"edit", "orphan"}
      /\ excuse' = (excuse \/ calls[c].step = "orphan" \/ ~calls[c].mounted)
      /\ calls \in [Calls -> NoCall \cup ListCall]
  BY DEF ListInv, ListData, List!Commit
<1>1. calls[c] \in ListCall /\ calls[c].todo \in SUBSET Items
  BY <1>0, CallTypes DEF ListData, ListCall
<1>2. PICK is \in SUBSET calls[c].todo :
        /\ rows' = [i \in Items |-> IF i \in is THEN List!Effect(calls[c], i) ELSE rows[i]]
        /\ known' = [i \in Items |-> IF i \in is /\ List!Carried(c, i) THEN calls[c].to ELSE known[i]]
        /\ List!Settle(c, is)
  <2>1. PICK js \in IF calls[c].edit = "markAll" THEN {calls[c].todo} ELSE {{i} : i \in calls[c].todo} :
          /\ rows' = [i \in Items |-> IF i \in js THEN List!Effect(calls[c], i) ELSE rows[i]]
          /\ known' = [i \in Items |-> IF i \in js /\ List!Carried(c, i) THEN calls[c].to ELSE known[i]]
          /\ List!Settle(c, js)
    BY DEF List!Commit
  <2>2. js \in SUBSET calls[c].todo
    OBVIOUS
  <2> QED BY <2>1, <2>2
<1>3. rows' \in [Items -> ValuesNow] /\ known' \in [Items -> ValuesNow]
  <2>1. \A i \in Items : List!Effect(calls[c], i) \in ValuesNow
    BY <1>1, EffectFits
  <2>2. \A i \in Items : List!Carried(c, i) => calls[c].to \in ValuesNow
    BY <1>1 DEF List!Carried, KindFits
  <2> QED BY <1>2, <2>1, <2>2 DEF KindFits
<1> DEFINE Goes(d) ==
      /\ calls'[d] \in ListCall =>
           calls[d] \in ListCall /\ calls'[d].edit = calls[d].edit /\ calls'[d].to = calls[d].to
      /\ calls'[d].mounted => calls[d].mounted
\* The handler goes on without a refetch, or refetches the list of the page.
<1>4. /\ \A d \in Calls : Goes(d)
      /\ \/ /\ UNCHANGED <<fetch, waiting>>
            /\ excuse' \/ calls'[c].step = "edit"
         \/ /\ calls[c].mounted /\ fetch' = List!Fetch(c, key) /\ waiting' = List!Waits
  <2>1. CASE calls' = [calls EXCEPT ![c] = List!Idle] /\ UNCHANGED <<fetch, waiting>>
             /\ calls[c].step = "orphan"
    <3>1. List!Idle \notin ListCall /\ List!Idle.mounted = FALSE
      BY CallTypes
    <3>2. calls'[c] = List!Idle /\ \A d \in Calls \ {c} : calls'[d] = calls[d]
      BY <1>0, <2>1
    <3> QED BY <1>0, <2>1, <3>1, <3>2
  <2>2. CASE calls' = [calls EXCEPT ![c].todo = @ \ is] /\ UNCHANGED <<fetch, waiting>>
    <3>1. calls'[c] = [calls[c] EXCEPT !.todo = @ \ is] /\ \A d \in Calls \ {c} : calls'[d] = calls[d]
      BY <1>0, <2>2
    <3>2. /\ calls'[c].edit = calls[c].edit /\ calls'[c].to = calls[c].to
          /\ calls'[c].step = calls[c].step /\ calls'[c].mounted = calls[c].mounted
      BY <1>1, <3>1 DEF ListCall
    <3> QED BY <1>0, <1>1, <2>2, <3>1, <3>2
  <2>3. CASE List!Answered(c)
    <3>1. /\ \A d \in Calls \ {c} : Continues(calls[d], calls'[d]) /\ calls'[d].mounted = calls[d].mounted
          /\ calls'[c].edit = calls[c].edit /\ calls'[c].to = calls[c].to
          /\ calls'[c].mounted = calls[c].mounted
      BY <1>1, <2>3, AnsweredCalls
    <3>2. \A d \in Calls \ {c} : Goes(d)
      BY <1>0, <3>1, CallTypes DEF Continues, SameCall
    <3>3. \/ ~calls[c].mounted /\ UNCHANGED <<fetch, waiting>>
          \/ calls[c].mounted /\ fetch' = List!Fetch(c, key) /\ waiting' = List!Waits
      BY <2>3 DEF List!Answered
    <3> QED BY <1>0, <1>1, <3>1, <3>2, <3>3
  <2> QED BY <1>0, <1>2, <2>1, <2>2, <2>3 DEF List!Settle
<1> HIDE DEF Goes
<1>5. /\ fetch'.was \in [Items -> ValuesNow] /\ (fetch'.by = None => fetch'.got = None)
      /\ fetch' = fetch \/ (fetch'.by = c /\ fetch'.key = key /\ fetch'.got = None)
  <2>1. CASE fetch' = fetch
    BY <2>1 DEF KindFits, ListTrue
  <2>2. CASE fetch' = List!Fetch(c, key)
    <3>1. [i \in Items |-> List!Gone] \in [Items -> ValuesNow]
      BY DEF ValuesNow
    <3> QED BY <2>2, <3>1, FetchIs, ScreensType
  <2> QED BY <1>4, <2>1, <2>2
<1>7. KindFits'
  BY <1>0, <1>1, <1>3, <1>4, <1>5, KindStays DEF Goes
<1>8. ListTrue'
  <2>1. CASE UNCHANGED <<fetch, waiting>> /\ (excuse' \/ calls'[c].step = "edit")
    <3>1. here /\ kind # "closed" /\ ~excuse' /\ fetch.by # None => fetch.key = key
      BY <1>0 DEF ListTrue
    <3> QED BY <1>0, <1>5, <2>1, <3>1 DEF ListTrue, NoEditRuns
  <2>2. CASE fetch' = List!Fetch(c, key)
    <3>1. fetch'.by = c /\ fetch'.key = key /\ fetch'.got = None
      BY <2>2, FetchIs
    <3> QED BY <1>0, <3>1, ScreensType DEF ListTrue
  <2> QED BY <1>4, <2>1, <2>2
<1>9. HereFits'
  <2>1. calls[c].mounted => here
    BY DEF HereFits
  <2> QED BY <1>0, <1>4, <2>1, HereStays DEF Goes, HereFits, List!Waits
<1> QED BY <1>0, <1>7, <1>8, <1>9 DEF ListGoesOn

LEMMA ListRejectsTrue ==
  ASSUME ListInv, KindFits, ListTrue, HereFits, others \in 0..MAX_OTHERS,
         NEW c \in Calls, List!Reject(c)
  PROVE  ListGoesOn
<1>0. /\ ListData /\ UNCHANGED <<kind, here, waiting, key, lists, known, fetch, others, edits>>
      /\ calls[c].step \in {"edit", "orphan"} /\ excuse' = TRUE
  BY DEF ListInv, List!Reject
<1>1. calls[c] \in ListCall /\ calls[c].todo \in SUBSET Items
  BY <1>0, CallTypes DEF ListData, ListCall
<1>2. PICK i \in calls[c].todo :
        /\ List!Rejected(c, i)
        /\ UNCHANGED rows \/ rows' = [rows EXCEPT ![i] = List!Effect(calls[c], i)]
  BY DEF List!Reject
<1>3. rows' \in [Items -> ValuesNow]
  BY <1>1, <1>2, EffectFits DEF KindFits
<1>4. \A d \in Calls :
        /\ calls'[d] \in ListCall =>
             calls[d] \in ListCall /\ calls'[d].edit = calls[d].edit /\ calls'[d].to = calls[d].to
        /\ calls'[d].mounted => calls[d].mounted
  <2>0. calls \in [Calls -> NoCall \cup ListCall]
    BY <1>0 DEF ListData
  <2>1. CASE calls' = [calls EXCEPT ![c] = List!Idle]
    <3>1. List!Idle \notin ListCall /\ List!Idle.mounted = FALSE
      BY CallTypes
    <3>2. calls'[c] = List!Idle /\ \A d \in Calls \ {c} : calls'[d] = calls[d]
      BY <2>0, <2>1
    <3> QED BY <3>1, <3>2
  <2>2. CASE calls' = [calls EXCEPT ![c] = [calls[c] EXCEPT !.todo = @ \ {i}, !.step = "orphan"]]
    <3>1. calls'[c] = [calls[c] EXCEPT !.todo = @ \ {i}, !.step = "orphan"]
      BY <2>0, <2>2
    <3>2. calls'[c].edit = calls[c].edit /\ calls'[c].to = calls[c].to /\ calls'[c].mounted = calls[c].mounted
      BY <1>1, <3>1 DEF ListCall
    <3> QED BY <1>1, <2>0, <2>2, <3>2
  <2> QED BY <1>2, <2>1, <2>2 DEF List!Rejected
<1>6. HereFits'
  BY <1>0, <1>4, HereStays DEF HereFits
<1>5. KindFits'
  BY <1>0, <1>3, <1>4, KindStays DEF KindFits
<1> QED BY <1>0, <1>5, <1>6 DEF ListGoesOn, ListTrue

LEMMA ListQueriesTrue ==
  ASSUME ListInv, KindFits, ListTrue, HereFits, excuse \in BOOLEAN, others \in 0..MAX_OTHERS,
         \/ List!Read \/ List!Fill \/ List!FetchFails
         \/ \E c \in Calls : List!Outdated(c) \/ List!LateAnswer(c)
  PROVE  ListGoesOn
<1>0. /\ ListData /\ UNCHANGED <<kind, here, rows, key, others, edits>>
      /\ calls \in [Calls -> NoCall \cup ListCall]
      /\ [i \in Items |-> List!Gone] \in [Items -> ValuesNow] /\ fetch \in ListFetch
  BY DEF ListInv, ListData, List!Read, List!Fill, List!FetchFails, List!Outdated, List!LateAnswer, ValuesNow
<1>1. \A c \in Calls : /\ Continues(calls[c], calls'[c])
                       /\ calls'[c].mounted => calls[c].mounted
                       /\ calls[c].step = "edit" => calls'[c].step = "edit"
  BY EndedCalls
<1>2. \A c \in Calls : calls'[c] \in ListCall =>
        calls[c] \in ListCall /\ calls'[c].edit = calls[c].edit /\ calls'[c].to = calls[c].to
  BY <1>0, <1>1, CallTypes DEF Continues, SameCall
<1>3. List!NoFetch.by = None /\ List!NoFetch.got = None /\ List!NoFetch.was = [i \in Items |-> List!Gone]
  BY DEF List!NoFetch
<1>8. NoEditRuns' => NoEditRuns
  BY <1>1 DEF NoEditRuns
<1>9. HereFits'
  <2>1. /\ waiting' \in BOOLEAN
        /\ fetch.by # None \/ fetch.got # None \/ UNCHANGED <<fetch, waiting>>
    BY DEF List!Read, List!Fill, List!FetchFails, List!Outdated, List!LateAnswer, HereFits
  <2>2. ~here => UNCHANGED <<fetch, waiting>>
    BY <1>3, <2>1 DEF HereFits
  <2> QED BY <1>0, <1>1, <2>1, <2>2, HereStays
<1>4. CASE List!Read
  <2>1. /\ fetch.by # None /\ fetch' = [fetch EXCEPT !.got = List!View(fetch.key), !.was = rows]
        /\ excuse' = (excuse /\ fetch.key # key) /\ UNCHANGED <<lists, known>>
    BY <1>4 DEF List!Read
  <2>2. fetch'.got = List!View(fetch.key) /\ fetch'.was = rows /\ fetch'.by = fetch.by /\ fetch'.key = fetch.key
    BY <1>0, <2>1 DEF ListFetch
  <2>3. KindFits'
    BY <1>0, <1>2, <2>1, <2>2, KindStays DEF KindFits
  <2>4. \A k : List!View(k)' = List!View(k)
    BY <1>0 DEF List!View, List!Unread, List!Live, List!Gone
  <2>5. ListTrue'
    BY <1>0, <1>8, <2>1, <2>2, <2>4 DEF ListTrue
  <2> QED BY <1>0, <1>9, <2>1, <2>3, <2>5 DEF ListGoesOn
<1>5. CASE List!Fill
  <2>1. /\ fetch.got # None /\ fetch' = List!NoFetch /\ excuse' = excuse
        /\ lists' = [lists EXCEPT ![fetch.key] = fetch.got]
        /\ known' = [i \in Items |-> IF i \in fetch.got THEN fetch.was[i] ELSE known[i]]
    BY <1>5 DEF List!Fill, List!Takes
  <2>2. known' \in [Items -> ValuesNow]
    BY <1>0, <2>1 DEF KindFits
  <2>3. KindFits'
    BY <1>0, <1>2, <1>3, <2>1, <2>2, KindStays DEF KindFits
  <2>5. ASSUME here, kind # "closed", ~excuse, NoEditRuns'
        PROVE  lists'[key] = List!View(key) /\ \A i \in lists'[key] : known'[i] = rows[i]
    <3>1. /\ lists' = [lists EXCEPT ![key] = fetch.got]
          /\ known' = [i \in Items |-> IF i \in fetch.got THEN fetch.was[i] ELSE known[i]]
          /\ fetch.got = List!View(key) /\ fetch.was = rows
      BY <1>8, <2>1, <2>5 DEF ListTrue
    <3>2. List!View(key) \subseteq Items
      BY DEF List!View, List!Unread, List!Live
    <3> QED BY <1>0, <3>1, <3>2 DEF ListData
  <2>6. ListTrue'
    <3>1. List!View(key)' = List!View(key)
      BY <1>0 DEF List!View, List!Unread, List!Live, List!Gone
    <3> QED BY <1>0, <1>3, <2>1, <2>5, <3>1 DEF ListTrue
  <2> QED BY <1>0, <1>9, <2>1, <2>3, <2>6 DEF ListGoesOn
<1>6. CASE List!FetchFails
  <2>1. fetch' = List!NoFetch /\ excuse' = TRUE /\ UNCHANGED <<lists, known>>
    BY <1>6 DEF List!FetchFails
  <2>2. KindFits'
    BY <1>0, <1>2, <1>3, <2>1, KindStays DEF KindFits
  <2> QED BY <1>0, <1>3, <1>9, <2>1, <2>2 DEF ListGoesOn, ListTrue
<1>7. ASSUME NEW c \in Calls, List!Outdated(c) PROVE ListGoesOn
  <2>1. UNCHANGED <<lists, known, fetch, excuse>>
    BY <1>7 DEF List!Outdated
  <2>2. KindFits'
    BY <1>0, <1>2, <2>1, KindStays DEF KindFits
  <2>3. ListTrue'
    BY <1>0, <1>8, <2>1, ListTrueStays
  <2> QED BY <1>0, <1>9, <2>1, <2>2, <2>3 DEF ListGoesOn
<1>10. ASSUME NEW c \in Calls, List!LateAnswer(c) PROVE ListGoesOn
  <2>1. fetch' = fetch /\ excuse' = TRUE
    BY <1>10 DEF List!LateAnswer
  <2>2. PICK k \in List!Keys(kind) : List!Takes(k, List!View(k), rows)
    BY <1>10 DEF List!LateAnswer
  <2>3. known' \in [Items -> ValuesNow]
    BY <2>2 DEF List!Takes, KindFits
  <2>4. KindFits'
    BY <1>0, <1>2, <2>1, <2>3, KindStays DEF KindFits
  <2> QED BY <1>0, <1>9, <2>1, <2>4 DEF ListGoesOn, ListTrue
<1> QED BY <1>4, <1>5, <1>6, <1>7, <1>10

LEMMA ListChangesTrue ==
  ASSUME ListInv, KindFits, ListTrue, HereFits, others \in 0..MAX_OTHERS, NEW i \in Items, List!Elsewhere(i)
  PROVE  ListGoesOn
<1>0. /\ UNCHANGED <<kind, here, waiting, key, lists, known, fetch, edits>> /\ kind # "closed" /\ excuse' = TRUE
      /\ others' = others + 1 /\ others < MAX_OTHERS
      /\ calls' = [c \in Calls |-> [calls[c] EXCEPT !.seen = FALSE]]
  BY DEF List!Elsewhere
<1>1. rows' \in [Items -> ValuesNow]
  BY <1>0 DEF List!Elsewhere, KindFits, ValuesNow
<1>2. ASSUME NEW c \in Calls, calls'[c] \in ListCall
      PROVE  calls[c] \in ListCall /\ calls'[c].edit = calls[c].edit /\ calls'[c].to = calls[c].to
  <2>1. calls[c] \in NoCall \cup ListCall /\ calls'[c] = [calls[c] EXCEPT !.seen = FALSE]
    BY <1>0 DEF ListInv, ListData
  <2> QED BY <1>2, <2>1, CallTypes DEF ListCall
<1>3. KindFits'
  BY <1>0, <1>1, <1>2, KindStays DEF KindFits
<1>4. others' \in 0..MAX_OTHERS
  BY <1>0, ScreensType
<1>5. HereFits'
  <2>1. ASSUME NEW c \in Calls PROVE calls'[c].mounted = calls[c].mounted
    <3>1. calls[c] \in NoCall \cup ListCall /\ calls'[c] = [calls[c] EXCEPT !.seen = FALSE]
      BY <1>0 DEF ListInv, ListData
    <3> QED BY <3>1 DEF NoCall, ListCall
  <2> QED BY <1>0, <2>1, HereStays DEF HereFits
<1> QED BY <1>0, <1>3, <1>4, <1>5 DEF ListGoesOn, ListTrue

LEMMA ListGoesOnTrue ==
  ASSUME ListInv, KindFits, ListTrue, HereFits, excuse \in BOOLEAN, others \in 0..MAX_OTHERS,
         here => kind # "closed", List!Next
  PROVE  ListGoesOn
BY ListNavigatesTrue, ListClicksTrue, ListCommitsTrue, ListRejectsTrue, ListQueriesTrue, ListChangesTrue
   DEF List!Next

LEMMA ListRestsUntilOpen ==
  ASSUME ListInv, ListAtRest, here => kind # "closed", List!Next
  PROVE  kind' # "closed"
<1>1. ASSUME NEW k \in List!Kinds, List!Open(k) PROVE kind' # "closed"
  BY <1>1 DEF List!Open, List!Kinds
<1>2. kind' = kind \/ \E k \in List!Kinds : List!Open(k)
  BY DEF List!Next, List!Leave, List!Return, List!SelectTab, List!Filter, List!StartEdit, List!CancelEdit,
     List!Click, List!Commit, List!Reject, List!Outdated, List!LateAnswer, List!Read, List!Fill,
     List!FetchFails, List!Elsewhere
<1>3. ASSUME kind = "closed", \A k \in List!Kinds : ~List!Open(k) PROVE FALSE
  <2>1. /\ ~here /\ List!Display = {} /\ fetch.by = None /\ fetch.got = None
        /\ \A c \in Calls : calls[c].step = None
    <3>1. ~here
      BY <1>3
    <3>2. List!Display = {}
      BY <3>1 DEF List!Display
    <3>3. fetch.by = None /\ fetch.got = None
      BY <1>3 DEF ListAtRest, List!NoFetch
    <3>4. \A c \in Calls : calls[c].step = None
      BY <1>3, CallTypes DEF ListInv, ListData
    <3> QED BY <3>1, <3>2, <3>3, <3>4
  <2>2. ~List!Leave /\ ~List!Return /\ ~List!CancelEdit /\ ~List!Read /\ ~List!Fill /\ ~List!FetchFails
    BY <1>3, <2>1 DEF List!Leave, List!Return, List!CancelEdit, List!Read, List!Fill, List!FetchFails
  <2>3. \A i \in Items : ~List!Filter(i) /\ ~List!StartEdit(i) /\ ~List!Elsewhere(i)
    BY <1>3, <2>1 DEF List!Filter, List!StartEdit, List!Elsewhere
  <2>4. \A c \in Calls : /\ ~List!Click(c) /\ ~List!Commit(c) /\ ~List!Reject(c)
                         /\ ~List!Outdated(c) /\ ~List!LateAnswer(c)
    BY <2>1, CallTypes, ScreensType DEF List!Click, List!Commit, List!Reject, List!Outdated, List!LateAnswer
  <2>5. \A k \in List!AllKeys : ~List!SelectTab(k)
    BY <2>1 DEF List!SelectTab
  <2> QED BY <1>3, <2>2, <2>3, <2>4, <2>5 DEF List!Next
<1> QED BY <1>1, <1>2, <1>3

LEMMA ListAgrees ==
  ASSUME ListInv, KindFits, ListTrue, ListAtRest, HereFits, excuse \in BOOLEAN, others \in 0..MAX_OTHERS
  PROVE  List!TypeOK /\ List!ListShowsOwnEdits
<1>1. List!TypeOK
  <2>1. \A c \in List!Running : calls[c].step \in {"edit", "refetch", "orphan"}
    BY OnlyIdle DEF ListInv, ListData, List!Running, ListCall
  <2>2. kind # "closed" => \A i \in Items : {rows[i], known[i]} \subseteq List!Values(kind) \cup {List!Gone}
    BY DEF KindFits, ValuesNow
  <2> QED BY <2>1, <2>2 DEF ListInv, ListData, KindFits, HereFits, List!TypeOK, ListFetch
<1>2. List!ListShowsOwnEdits
  <2>1. List!NoFetch.by = None /\ List!Idle.step = None
    BY DEF List!NoFetch, List!Idle
  <2>2. List!Running = {} => NoEditRuns
    BY <2>1, ScreensType DEF List!Running, NoEditRuns
  <2>3. key \in List!AllKeys
    BY DEF ListInv, ListData
  <2> QED BY <2>1, <2>2, <2>3 DEF List!ListShowsOwnEdits, ListTrue, ListAtRest
<1> QED BY <1>1, <1>2

-----------------------------------------------------------------------------
(* The listing.                                                              *)

SaveSteps == {"place", "hours", "reread"}
SaveOfListing == [sent : Listing!ListingForm, step : SaveSteps, mounted : BOOLEAN]
NoSave == [sent : {None}, step : {"idle"}, mounted : {FALSE}]
Saved(s) == saves[s].step # "idle"

ListingData ==
  /\ listingPage \in {"closed", "shown", "away"} /\ server \in Listing!Listing
  /\ cached \in {None} \cup Listing!Listing
  /\ {form, baseline} \subseteq {None} \cup Listing!ListingForm
  /\ (form = None) = (baseline = None) /\ (listingPage # "shown" => form = None)
  /\ saves \in [Saves -> NoSave \cup SaveOfListing]
  /\ reread \in [Saves -> {None} \cup Listing!Listing]
  /\ \A s \in Saves :
       (reread[s] # None => saves[s].step = "reread") /\ (saves[s].mounted => form # None)
  /\ begun \in 0..MAX_SAVES

\* The server holds what the form says, but for the spaces around a note; an empty
\* note is never sent.
NoteHeld(l) == Trim[l.note] # Blank => Trim[server.note] = Trim[l.note]
PlaceHeld(l) == l.tier = Listing!TierShown(server) /\ NoteHeld(l)
Held(l) == l.week = server.week /\ PlaceHeld(l)

\* The baseline is held when no save runs.  At most one runs otherwise, for the
\* form on display, and what it has sent so far is held.
SavesFit ==
  form # None /\ ~excuse =>
    /\ (\A s \in Saves : ~Saved(s)) => Held(baseline)
    /\ \A s \in Saves : Saved(s) =>
         /\ saves[s].mounted /\ \A t \in Saves : Saved(t) => t = s
         /\ saves[s].step \in {"hours", "reread"} => PlaceHeld(saves[s].sent)
         /\ saves[s].step = "reread" => Held(saves[s].sent)

ListingInv == ListingData /\ SavesFit

LEMMA SaveTypes ==
  /\ Listing!Idle \in NoSave /\ \A x \in NoSave : x = Listing!Idle /\ x.step = "idle" /\ ~x.mounted
  /\ \A x \in SaveOfListing : x.step # "idle" /\ x # Listing!Idle /\ x.mounted \in BOOLEAN
  /\ None \notin Listing!Listing /\ Listing!ListingForm \subseteq Listing!Listing
<1>1. Listing!Idle \in NoSave
  BY DEF Listing!Idle, NoSave
<1>2. ASSUME NEW x \in NoSave PROVE x = Listing!Idle
  <2>1. x = [sent |-> x.sent, step |-> x.step, mounted |-> x.mounted]
    BY DEF NoSave
  <2>2. x.sent = None /\ x.step = "idle" /\ x.mounted = FALSE
    BY DEF NoSave
  <2> QED BY <2>1, <2>2, Zenon DEF Listing!Idle
<1>3. \A x \in NoSave : x.step = "idle" /\ ~x.mounted
  BY DEF NoSave
<1>4. \A x \in SaveOfListing : x.step # "idle" /\ x.mounted \in BOOLEAN
  BY DEF SaveOfListing, SaveSteps
<1>5. None \notin Listing!Listing /\ Listing!ListingForm \subseteq Listing!Listing
  BY NoneIsNoValue DEF Listing!Listing, Listing!ListingForm
<1> QED BY <1>1, <1>2, <1>3, <1>4, <1>5

LEMMA ListingConstants ==
  /\ Listing!Listing' = Listing!Listing /\ Listing!ListingForm' = Listing!ListingForm
  /\ NoSave' = NoSave /\ SaveOfListing' = SaveOfListing
BY DEF Listing!Listing, Listing!ListingForm, NoSave, SaveOfListing, SaveSteps

\* What the fields show of a place that was read.
LEMMA SeededForm ==
  ASSUME NEW l \in Listing!Listing
  PROVE  /\ Listing!Seeded(l) \in Listing!ListingForm /\ Listing!Seeded(l).week = l.week
         /\ Listing!Seeded(l).note = l.note /\ Listing!Seeded(l).tier = Listing!TierShown(l)
BY ScreensType DEF Listing!Seeded, Listing!TierShown, Listing!Listing, Listing!ListingForm

LEMMA ListingInitially == Listing!Init => ListingInv
<1> SUFFICES ASSUME Listing!Init PROVE ListingInv
  OBVIOUS
<1>1. server \in Listing!Listing
  BY ScreensType DEF Listing!Init, Listing!Listing
<1>2. \A s \in Saves : ~saves[s].mounted
  BY SaveTypes DEF Listing!Init
<1> QED BY <1>1, <1>2, SaveTypes, ScreensType DEF Listing!Init, ListingInv, ListingData, SavesFit

\* Steps of the page that leave its handlers alone.
LEMMA EditorKeeps ==
  ASSUME ListingInv, others \in Nat, excuse \in BOOLEAN,
         \/ Listing!Open \/ Listing!ReadPlace \/ Listing!Seed \/ Listing!Return
         \/ Listing!Patch \/ Listing!PhotosChanged \/ Listing!Elsewhere
  PROVE  ListingInv' /\ excuse' \in BOOLEAN
<1>0. ListingData /\ SavesFit /\ UNCHANGED <<saves, reread, begun>>
  BY DEF ListingInv, Listing!Open, Listing!ReadPlace, Listing!Seed, Listing!Return, Listing!Patch,
     Listing!PhotosChanged, Listing!Elsewhere
<1> USE DEF ListingData
<1>1. CASE Listing!Open \/ Listing!ReadPlace \/ Listing!Return \/ Listing!PhotosChanged
  <2>1. /\ UNCHANGED <<form, baseline, excuse>> /\ cached' \in {cached, server}
        /\ listingPage' \in {"shown", listingPage} /\ server' \in Listing!Listing
        /\ form = None \/ server' = server
    BY <1>0, <1>1 DEF Listing!Open, Listing!ReadPlace, Listing!Return, Listing!PhotosChanged
  <2>2. ListingData'
    BY <1>0, <2>1, ListingConstants
  <2>3. SavesFit'
    BY <1>0, <2>1 DEF SavesFit, Saved, Held, PlaceHeld, NoteHeld, Listing!TierShown
  <2> QED BY <2>1, <2>2, <2>3 DEF ListingInv
<1>2. CASE Listing!Seed
  <2>1. /\ form' = Listing!Seeded(cached) /\ baseline' = Listing!Seeded(cached)
        /\ cached # None /\ form = None
        /\ excuse' = (cached # server \/ Listing!Running # {}) /\ UNCHANGED <<listingPage, server, cached>>
        /\ listingPage = "shown"
    BY <1>2 DEF Listing!Seed
  <2>5. form' \in Listing!ListingForm /\ form' # None /\ baseline' = form'
    BY <1>0, <2>1, SeededForm, SaveTypes
  <2>2. ListingData'
    BY <1>0, <2>1, <2>5, ListingConstants
  <2>3. ASSUME ~excuse' PROVE Held(baseline)' /\ \A s \in Saves : ~Saved(s)'
    <3>1. \A s \in Saves : saves[s].step = "idle"
      BY <1>0, <2>1, <2>3, SaveTypes DEF Listing!Running
    <3>2. cached = server /\ server' = server
      BY <2>1, <2>3
    <3>3. /\ baseline'.week = server'.week /\ baseline'.note = server'.note
          /\ baseline'.tier = Listing!TierShown(server')
      BY <1>0, <2>1, <3>2, SeededForm
    <3>4. Held(baseline)'
      BY <3>3 DEF Held, PlaceHeld, NoteHeld, Listing!TierShown
    <3> QED BY <1>0, <3>1, <3>4 DEF Saved
  <2>4. SavesFit'
    BY <2>3 DEF SavesFit
  <2> QED BY <2>1, <2>2, <2>4 DEF ListingInv
<1>3. CASE Listing!Patch
  <2>1. /\ UNCHANGED <<listingPage, server, cached, baseline, excuse>> /\ form # None
        /\ form' \in Listing!ListingForm
    BY <1>0, <1>3 DEF Listing!Patch, Listing!ListingForm
  <2>2. form' # None
    BY <2>1, SaveTypes
  <2>3. ListingData'
    BY <1>0, <2>1, <2>2, ListingConstants
  <2>4. SavesFit'
    BY <1>0, <2>1 DEF SavesFit, Saved, Held, PlaceHeld, NoteHeld, Listing!TierShown
  <2> QED BY <2>1, <2>3, <2>4 DEF ListingInv
<1>4. CASE Listing!Elsewhere
  <2>1. UNCHANGED <<listingPage, cached, form, baseline>> /\ server' \in Listing!Listing /\ excuse' = TRUE
    BY <1>4 DEF Listing!Elsewhere
  <2> QED BY <1>0, <2>1, ListingConstants DEF ListingInv, SavesFit
<1> QED BY <1>1, <1>2, <1>3, <1>4

\* The handlers run on for a page that is gone.
LEMMA ListingLeft ==
  ASSUME ListingInv, Listing!Leave
  PROVE  ListingInv' /\ excuse' = excuse
<1>1. /\ listingPage' = "away" /\ form' = None /\ baseline' = None
      /\ saves' = [s \in Saves |-> [saves[s] EXCEPT !.mounted = FALSE]]
      /\ UNCHANGED <<server, cached, reread, begun, excuse>>
  BY DEF Listing!Leave
<1>2. ASSUME NEW s \in Saves
      PROVE  saves'[s] \in NoSave \cup SaveOfListing /\ saves'[s].step = saves[s].step /\ ~saves'[s].mounted
  <2>1. saves[s] \in NoSave \cup SaveOfListing /\ saves'[s] = [saves[s] EXCEPT !.mounted = FALSE]
    BY <1>1 DEF ListingInv, ListingData
  <2> QED BY <2>1 DEF NoSave, SaveOfListing
<1>3. saves' \in [Saves -> NoSave \cup SaveOfListing]
  BY <1>1, <1>2
<1>4. ListingData'
  BY <1>1, <1>2, <1>3, ListingConstants DEF ListingInv, ListingData
<1> QED BY <1>1, <1>4 DEF ListingInv, SavesFit

\* A save that has begun.
LEMMA SaveBegins ==
  ASSUME ListingInv, others \in Nat, NEW s \in Saves, Listing!Save(s)
  PROVE  ListingInv' /\ excuse' \in BOOLEAN
<1>1. /\ form # None /\ saves[s] = Listing!Idle /\ begun + others < MAX_SAVES /\ begun' = begun + 1
      /\ saves' = [saves EXCEPT ![s] = [sent |-> form, step |-> "place", mounted |-> TRUE]]
      /\ excuse' = (Listing!Running # {}) /\ UNCHANGED <<listingPage, server, cached, form, baseline, reread>>
      /\ ListingData
  BY DEF Listing!Save, Listing!Dirty, ListingInv
<1>2. [sent |-> form, step |-> "place", mounted |-> TRUE] \in SaveOfListing
  BY <1>1 DEF SaveOfListing, SaveSteps, ListingData
<1>3. /\ saves' \in [Saves -> NoSave \cup SaveOfListing] /\ \A t \in Saves \ {s} : saves'[t] = saves[t]
      /\ saves'[s].step = "place" /\ saves'[s].mounted
  BY <1>1, <1>2 DEF ListingData
<1>4. begun' \in 0..MAX_SAVES
  <2>1. begun \in Nat /\ MAX_SAVES \in Nat
    BY <1>1, ScreensType DEF ListingData
  <2> QED BY <1>1, <2>1
<1>5. reread[s] = None
  BY <1>1, SaveTypes DEF ListingData
<1>6. ListingData'
  BY <1>1, <1>3, <1>4, <1>5, ListingConstants DEF ListingData
<1>7. SavesFit'
  <2>1. ASSUME ~excuse', NEW t \in Saves, Saved(t)' PROVE t = s
    <3>1. CASE t # s
      <4>1. saves[t].step # "idle" /\ saves[t] = Listing!Idle
        BY <1>1, <1>3, <2>1, <3>1 DEF Listing!Running, Saved
      <4> QED BY <4>1, SaveTypes
    <3> QED BY <3>1
  <2>2. Saved(s)'
    BY <1>3 DEF Saved
  <2> QED BY <1>3, <2>1, <2>2 DEF SavesFit
<1> QED BY <1>1, <1>6, <1>7 DEF ListingInv

\* The place as a save writes it, first its fields and then its week.
LEMMA WrittenPlace ==
  ASSUME NEW l \in Listing!ListingForm, server \in Listing!Listing
  PROVE  /\ Listing!Updated(l) \in Listing!Listing /\ Listing!Updated(l).tier = l.tier
         /\ Trim[l.note] # Blank => Trim[Listing!Updated(l).note] = Trim[l.note]
         /\ [server EXCEPT !.week = l.week] \in Listing!Listing
         /\ [server EXCEPT !.week = l.week].week = l.week
         /\ [server EXCEPT !.week = l.week].note = server.note
         /\ [server EXCEPT !.week = l.week].tier = server.tier
<1>1. /\ l.note \in Notes \cup {Blank} /\ l.tier \in Tiers \cup {NoTier} /\ l.week \in Weeks
      /\ server \in [note : Notes \cup {Blank}, tier : Tiers \cup {NoTier}, week : Weeks]
  BY DEF Listing!Listing, Listing!ListingForm
<1>2. /\ Listing!Noted(l) \in Notes \cup {Blank}
      /\ Trim[l.note] # Blank => Listing!Noted(l) = Trim[l.note]
  BY <1>1, ScreensType DEF Listing!Noted
<1>3. Trim[Trim[l.note]] = Trim[l.note]
  BY <1>1, ScreensType
<1>4. /\ Listing!Updated(l).note = Listing!Noted(l) /\ Listing!Updated(l).tier = l.tier
      /\ Listing!Updated(l) \in Listing!Listing
  BY <1>1, <1>2 DEF Listing!Updated, Listing!Listing
<1>5. /\ [server EXCEPT !.week = l.week] \in Listing!Listing
      /\ [server EXCEPT !.week = l.week].week = l.week
      /\ [server EXCEPT !.week = l.week].note = server.note
      /\ [server EXCEPT !.week = l.week].tier = server.tier
  BY <1>1 DEF Listing!Listing
<1> QED BY <1>2, <1>3, <1>4, <1>5

\* A save that goes on to its next step.
LEMMA SaveGoesOn ==
  ASSUME ListingInv, excuse \in BOOLEAN, NEW s \in Saves, Listing!PlaceUpdated(s) \/ Listing!HoursSet(s)
  PROVE  ListingInv' /\ excuse' \in BOOLEAN
<1>0. /\ ListingData /\ SavesFit /\ UNCHANGED <<listingPage, cached, form, baseline, reread, begun>>
      /\ excuse' = (excuse \/ ~saves[s].mounted) /\ saves[s].step \in {"place", "hours"}
  BY DEF ListingInv, Listing!PlaceUpdated, Listing!HoursSet
<1>1. saves[s] \in SaveOfListing /\ saves[s].sent \in Listing!ListingForm
  BY <1>0, SaveTypes DEF ListingData, SaveOfListing
<1>2. PICK st \in {"hours", "reread"} :
        /\ saves' = [saves EXCEPT ![s].step = st]
        /\ st = "hours" => server' = Listing!Updated(saves[s].sent)
        /\ st = "reread" => saves[s].step = "hours" /\ server' = [server EXCEPT !.week = saves[s].sent.week]
  BY DEF Listing!PlaceUpdated, Listing!HoursSet
<1>3. [saves[s] EXCEPT !.step = st] \in SaveOfListing
  BY <1>1 DEF SaveOfListing, SaveSteps
<1>4. /\ saves' \in [Saves -> NoSave \cup SaveOfListing] /\ \A t \in Saves \ {s} : saves'[t] = saves[t]
      /\ saves'[s].step = st /\ saves'[s].mounted = saves[s].mounted /\ saves'[s].sent = saves[s].sent
  <2>1. saves'[s] = [saves[s] EXCEPT !.step = st]
    BY <1>0, <1>2 DEF ListingData
  <2> QED BY <1>0, <1>1, <1>2, <1>3, <2>1 DEF ListingData, SaveOfListing
<1>5. server' \in Listing!Listing /\ (st = "hours" => PlaceHeld(saves[s].sent)')
      /\ (st = "reread" => /\ saves[s].sent.week = server'.week
                           /\ server'.note = server.note /\ server'.tier = server.tier)
  <2>1. ASSUME st = "hours" PROVE PlaceHeld(saves[s].sent)'
    <3>1. /\ server'.tier = saves[s].sent.tier /\ saves'[s].sent = saves[s].sent
          /\ Trim[saves[s].sent.note] # Blank => Trim[server'.note] = Trim[saves[s].sent.note]
      BY <1>0, <1>1, <1>2, <1>4, <2>1, WrittenPlace DEF ListingData
    <3>2. saves[s].sent.tier # NoTier
      BY <1>1, ScreensType DEF Listing!ListingForm
    <3> QED BY <3>1, <3>2 DEF PlaceHeld, NoteHeld, Listing!TierShown
  <2>2. CASE st = "hours"
    BY <1>0, <1>1, <1>2, <2>1, <2>2, WrittenPlace DEF ListingData
  <2>3. CASE st = "reread"
    <3>1. server' = [server EXCEPT !.week = saves[s].sent.week] /\ server \in Listing!Listing
      BY <1>0, <1>2, <2>3 DEF ListingData
    <3> QED BY <1>1, <2>3, <3>1, WrittenPlace
  <2> QED BY <2>2, <2>3
<1>6. reread[s] = None
  BY <1>0 DEF ListingData
<1>7. ListingData'
  BY <1>0, <1>4, <1>5, <1>6, ListingConstants DEF ListingData
<1>8. SavesFit'
  <2> SUFFICES ASSUME form # None, ~excuse'
               PROVE  /\ \A t \in Saves \ {s} : ~Saved(t)'
                      /\ Saved(s)' /\ saves'[s].mounted /\ PlaceHeld(saves[s].sent)'
                      /\ saves'[s].step = "reread" => Held(saves[s].sent)'
    BY <1>0 DEF SavesFit
  <2>1. ~excuse /\ saves[s].mounted /\ Saved(s) /\ \A t \in Saves : Saved(t) => t = s
    BY <1>0 DEF SavesFit, Saved
  <2>2. st = "reread" => PlaceHeld(saves[s].sent)'
    <3>1. st = "reread" => PlaceHeld(saves[s].sent)
      BY <1>0, <1>2, <2>1 DEF SavesFit
    <3> QED BY <1>4, <1>5, <3>1 DEF PlaceHeld, NoteHeld, Listing!TierShown
  <2>3. PlaceHeld(saves[s].sent)' /\ (st = "reread" => Held(saves[s].sent)')
    BY <1>4, <1>5, <2>2 DEF Held
  <2> QED BY <1>4, <2>1, <2>3 DEF Saved
<1> QED BY <1>0, <1>7, <1>8 DEF ListingInv

LEMMA RereadKeeps ==
  ASSUME ListingInv, NEW s \in Saves, Listing!Reread(s)
  PROVE  ListingInv' /\ excuse' = excuse
<1>1. /\ saves[s].step = "reread" /\ reread' = [reread EXCEPT ![s] = server]
      /\ UNCHANGED <<listingPage, server, cached, form, baseline, saves, begun, excuse>>
  BY DEF Listing!Reread
<1>2. ListingData'
  BY <1>1, ListingConstants DEF ListingInv, ListingData
<1>3. SavesFit'
  BY <1>1 DEF ListingInv, SavesFit, Saved, Held, PlaceHeld, NoteHeld, Listing!TierShown
<1> QED BY <1>1, <1>2, <1>3 DEF ListingInv

\* A save that ends, well or not.
LEMMA SaveStops ==
  ASSUME ListingInv, excuse \in BOOLEAN, NEW s \in Saves, Listing!SaveEnds(s) \/ Listing!SaveFails(s)
  PROVE  ListingInv' /\ excuse' \in BOOLEAN
<1>0. /\ ListingData /\ SavesFit /\ UNCHANGED <<listingPage, form, begun>>
      /\ saves' = [saves EXCEPT ![s] = Listing!Idle] /\ reread' = [reread EXCEPT ![s] = None]
      /\ saves[s].step \in {"place", "hours", "reread"} => saves[s] \in SaveOfListing
  BY SaveTypes DEF ListingInv, ListingData, Listing!SaveEnds, Listing!SaveFails
<1>1. /\ saves' \in [Saves -> NoSave \cup SaveOfListing] /\ \A t \in Saves \ {s} : saves'[t] = saves[t]
      /\ saves'[s].step = "idle" /\ ~saves'[s].mounted
      /\ reread' \in [Saves -> {None} \cup Listing!Listing] /\ \A t \in Saves \ {s} : reread'[t] = reread[t]
      /\ reread'[s] = None
  BY <1>0, SaveTypes DEF ListingData
<1>2. CASE Listing!SaveEnds(s)
  <2>1. /\ reread[s] # None /\ cached' = reread[s] /\ UNCHANGED <<server, excuse>>
        /\ baseline' = IF saves[s].mounted THEN saves[s].sent ELSE baseline
    BY <1>2 DEF Listing!SaveEnds, Listing!SavedAs
  <2>2. saves[s].step = "reread" /\ saves[s].sent \in Listing!ListingForm /\ saves[s] \in SaveOfListing
    BY <1>0, <2>1 DEF ListingData, SaveOfListing
  <2>3. (form = None) = (baseline' = None) /\ baseline' \in {None} \cup Listing!ListingForm
    BY <1>0, <2>1, <2>2, SaveTypes DEF ListingData
  <2>4. ListingData'
    BY <1>0, <1>1, <2>1, <2>3, ListingConstants DEF ListingData
  <2>5. SavesFit'
    <3> SUFFICES ASSUME form # None, ~excuse
                 PROVE  Held(baseline)' /\ \A t \in Saves : ~Saved(t)'
      BY <1>0, <2>1 DEF SavesFit
    <3>1. saves[s].mounted /\ Held(saves[s].sent) /\ \A t \in Saves : Saved(t) => t = s
      BY <1>0, <2>2 DEF SavesFit, Saved
    <3> QED BY <1>1, <2>1, <3>1 DEF Held, PlaceHeld, NoteHeld, Listing!TierShown, Saved
  <2> QED BY <2>1, <2>4, <2>5 DEF ListingInv
<1>3. CASE Listing!SaveFails(s)
  <2>1. /\ UNCHANGED <<cached, baseline>> /\ excuse' = TRUE
        /\ \/ UNCHANGED server
           \/ saves[s].step = "place" /\ server' = Listing!Updated(saves[s].sent)
           \/ saves[s].step = "hours" /\ server' = [server EXCEPT !.week = saves[s].sent.week]
    BY <1>3 DEF Listing!SaveFails
  <2>2. server' \in Listing!Listing
    <3>1. saves[s].step \in {"place", "hours"} => saves[s].sent \in Listing!ListingForm
      BY <1>0 DEF SaveOfListing
    <3> QED BY <1>0, <2>1, <3>1, WrittenPlace DEF ListingData
  <2>3. ListingData'
    BY <1>0, <1>1, <2>1, <2>2, ListingConstants DEF ListingData
  <2> QED BY <2>1, <2>3 DEF ListingInv, SavesFit
<1> QED BY <1>2, <1>3

LEMMA ListingKeeps ==
  ASSUME ListingInv, excuse \in BOOLEAN, others \in Nat, Listing!Next
  PROVE  ListingInv' /\ excuse' \in BOOLEAN
BY EditorKeeps, ListingLeft, SaveBegins, SaveGoesOn, RereadKeeps, SaveStops DEF Listing!Next

LEMMA ListingRests ==
  ASSUME ListingInv, UNCHANGED listingVars, listingPage = "closed" \/ excuse' = excuse
  PROVE  ListingInv'
<1>1. UNCHANGED <<listingPage, server, cached, form, baseline, saves, reread, begun>>
  BY DEF listingVars
<1>2. ListingData'
  BY <1>1, ListingConstants DEF ListingInv, ListingData
<1>3. SavesFit'
  BY <1>1 DEF ListingInv, ListingData, SavesFit, Saved, Held, PlaceHeld, NoteHeld, Listing!TierShown
<1> QED BY <1>2, <1>3 DEF ListingInv

LEMMA ListingAgrees ==
  ASSUME ListingInv, excuse \in BOOLEAN, others \in 0..MAX_OTHERS
  PROVE  Listing!TypeOK /\ Listing!CleanMeansSaved
<1>1. \A s \in Saves : (saves[s] = Listing!Idle) = ~Saved(s)
  BY SaveTypes DEF ListingInv, ListingData, Saved
<1>2. Listing!TypeOK
  <2>1. \A s \in Listing!Running :
          saves[s].sent \in Listing!ListingForm /\ saves[s].step \in {"place", "hours", "reread"}
    BY SaveTypes DEF ListingInv, ListingData, Listing!Running, SaveOfListing, SaveSteps
  <2> QED BY <2>1 DEF ListingInv, ListingData, Listing!TypeOK
<1>3. Listing!CleanMeansSaved
  BY <1>1 DEF ListingInv, SavesFit, Listing!CleanMeansSaved, Listing!Dirty, Listing!Running, Held, PlaceHeld,
         NoteHeld
<1> QED BY <1>2, <1>3

-----------------------------------------------------------------------------
(* The pictures on display.                                                  *)

\* What a gallery keeps: every row has its file, a slot has one row, an upload
\* that was stored has its file too, and its hook belongs to the page.
UploadsFit ==
  \A u \in Gallery!Running :
    /\ uploads[u].kind \in Gallery!Hooks /\ uploads[u].photo \in picked
    /\ uploads[u].step \in {"sign", "store", "attach", "insert"}
    /\ uploads[u].step \in {"attach", "insert"} => uploads[u].photo \in blobs

PicturesFit ==
  /\ blobs \subseteq picked /\ media \subseteq Gallery!Kinds \X blobs
  /\ \A r, s \in media : r[1] \in Gallery!Slots /\ r[1] = s[1] => r = s
  /\ shown \subseteq Gallery!Kinds \X Photos
  /\ rowsFetch \in {<<>>, <<"asked">>} \cup {<<"got", m>> : m \in SUBSET (Gallery!Kinds \X Photos)}

\* The rows on display, or those that a refetch is to show, are the server's.
GalleryTrue ==
  /\ owner = "closed" => rowsFetch = <<>>
  /\ owner # "closed" /\ ~excuse =>
       \/ rowsFetch = <<>> /\ shown = media
       \/ rowsFetch = <<"asked">>
       \/ rowsFetch = <<"got", media>>

GalleryFits ==
  /\ owner \in {"closed", "PLACE", "REVIEW", "USER"}
  /\ removals \subseteq Photos /\ removing \in Photos \cup {None} /\ leaves \in 0..MAX_LEAVES

PicturesInv == UploadsFit /\ PicturesFit /\ GalleryTrue /\ GalleryFits

LEMMA PicturesInitially == Gallery!Init => PicturesInv
<1> SUFFICES ASSUME Gallery!Init PROVE PicturesInv
  OBVIOUS
<1>1. Gallery!Running = {}
  BY DEF Gallery!Init, Gallery!Running
<1> QED
  BY <1>1, ScreensType
  DEF Gallery!Init, Gallery!NoFetch, PicturesInv, UploadsFit, PicturesFit, GalleryTrue, GalleryFits

\* Steps that leave the rows and the files alone.
LEMMA UploadsMoveOn ==
  ASSUME GalleryInv, PicturesInv, NEW u \in Uploads, NEW new \in Upload,
         uploads' = [uploads EXCEPT ![u] = new], owner' = owner,
         picked \subseteq picked', blobs \subseteq blobs',
         new = Gallery!Idle \/
           (/\ new.kind \in Gallery!Hooks /\ new.photo \in picked' /\ new.step # "idle"
            /\ new.step \in {"attach", "insert"} => new.photo \in blobs')
  PROVE  UploadsFit'
<1>1. uploads'[u] = new /\ \A v \in Uploads \ {u} : uploads'[v] = uploads[v]
  BY DEF GalleryInv
<1>2. \A v \in Gallery!Running' : (v = u /\ new # Gallery!Idle) \/ (v # u /\ v \in Gallery!Running)
  BY <1>1 DEF Gallery!Running, Gallery!Idle
<1>3. Gallery!Hooks' = Gallery!Hooks
  BY DEF Gallery!Hooks
<1>4. new.step \in {"idle", "sign", "store", "attach", "insert"}
  BY DEF Upload
<1>5. \A v \in Gallery!Running' : v \in Uploads
  BY DEF Gallery!Running
<1>6. ASSUME NEW v \in Gallery!Running', v # u
      PROVE  /\ uploads'[v].kind \in Gallery!Hooks' /\ uploads'[v].photo \in picked'
             /\ uploads'[v].step \in {"sign", "store", "attach", "insert"}
             /\ uploads'[v].step \in {"attach", "insert"} => uploads'[v].photo \in blobs'
  BY <1>1, <1>2, <1>3, <1>5, <1>6 DEF PicturesInv, UploadsFit
<1>7. ASSUME NEW v \in Gallery!Running', v = u
      PROVE  /\ uploads'[v].kind \in Gallery!Hooks' /\ uploads'[v].photo \in picked'
             /\ uploads'[v].step \in {"sign", "store", "attach", "insert"}
             /\ uploads'[v].step \in {"attach", "insert"} => uploads'[v].photo \in blobs'
  BY <1>1, <1>2, <1>3, <1>4, <1>7
<1> QED BY <1>6, <1>7 DEF UploadsFit

LEMMA UploadsRunOn ==
  ASSUME PicturesInv, UNCHANGED <<uploads, owner>>, picked \subseteq picked', blobs \subseteq blobs'
  PROVE  UploadsFit'
<1>1. Gallery!Hooks' = Gallery!Hooks /\ Gallery!Running' = Gallery!Running
  BY DEF Gallery!Hooks, Gallery!Running, Gallery!Idle
<1> QED BY <1>1 DEF PicturesInv, UploadsFit

\* A row that is inserted has its file, and replaces the former row of its slot.
LEMMA InsertFits ==
  ASSUME GalleryInv, PicturesInv, NEW u \in Uploads, uploads[u].step = "insert", Gallery!Inserted(u),
         blobs' = blobs
  PROVE  /\ media' \subseteq Gallery!Kinds \X blobs
         /\ \A r, s \in media' : r[1] \in Gallery!Slots /\ r[1] = s[1] => r = s
         /\ owner # "closed"
<1> DEFINE k == uploads[u].kind
           row == <<k, uploads[u].photo>>
           kept == {r \in media : k = "PHOTO" \/ r[1] # k}
<1>1. u \in Gallery!Running /\ owner # "closed"
  BY UploadFacts
<1>2. k \in Gallery!Kinds /\ uploads[u].photo \in blobs
  BY <1>1 DEF PicturesInv, UploadsFit, Gallery!Hooks
<1>3. media' = kept \cup {row} /\ row[1] = k /\ row \in Gallery!Kinds \X blobs
  BY <1>2 DEF Gallery!Inserted
<1>4. kept \subseteq media /\ (k \in Gallery!Slots => \A r \in kept : r[1] # k)
  OBVIOUS
<1> HIDE DEF k, row, kept
<1> QED BY <1>1, <1>3, <1>4 DEF PicturesInv, PicturesFit

LEMMA NewFileFits ==
  ASSUME GalleryInv, picked # Photos PROVE Gallery!NewFile \in Photos
BY FileIsNew

LEMMA HooksAreKinds == Gallery!Hooks \subseteq Gallery!Kinds /\ (owner = "closed" => Gallery!Hooks = {})
BY DEF Gallery!Hooks

LEMMA PicturesOpen ==
  ASSUME GalleryInv, PicturesInv, NEW o \in {"PLACE", "REVIEW", "USER"}, Gallery!Open(o)
  PROVE  PicturesInv'
<1>1. PICK n \in IF o = "USER" THEN {0} ELSE 0..MAX_PHOTOS :
        LET ps == CHOOSE ps \in SUBSET Photos : Cardinality(ps) = n
        IN  /\ media' = {"PHOTO"} \X ps /\ shown' = {"PHOTO"} \X ps /\ blobs' = ps /\ picked' = ps
  BY SameCardinality DEF Gallery!Open
<1> DEFINE ps == CHOOSE ps \in SUBSET Photos : Cardinality(ps) = n
<1>2. ps \in SUBSET Photos
  <2>1. n \in 0..Cardinality(Photos)
    BY ONLY LimitIsNumber, n \in IF o = "USER" THEN {0} ELSE 0..MAX_PHOTOS
  <2> QED BY <2>1, SubsetOfSize, ScreensType
<1>3. /\ media' = {"PHOTO"} \X ps /\ shown' = {"PHOTO"} \X ps /\ blobs' = ps /\ picked' = ps
  BY <1>1
<1> HIDE DEF ps
<1>4. /\ owner = "closed" /\ owner' = o
      /\ UNCHANGED <<uploads, removals, removing, rowsFetch, leaves, excuse>>
  BY DEF Gallery!Open
<1>5. Gallery!Running' = {} /\ rowsFetch = <<>>
  BY <1>4 DEF GalleryInv, PicturesInv, GalleryTrue, Gallery!Running, Gallery!Idle
<1>6. media' \subseteq Gallery!Kinds \X blobs' /\ shown' \subseteq Gallery!Kinds \X Photos /\ shown' = media'
  BY <1>2, <1>3
<1>7. \A r \in media' : r[1] = "PHOTO"
  BY <1>3
<1>8. PicturesFit'
  BY <1>3, <1>4, <1>5, <1>6, <1>7 DEF PicturesFit
<1>9. UploadsFit'
  BY <1>5 DEF UploadsFit
<1> QED BY <1>4, <1>5, <1>6, <1>8, <1>9 DEF PicturesInv, GalleryTrue, GalleryFits

\* The page is left: uploads lose their button and nothing else.
LEMMA PicturesLeft ==
  ASSUME GalleryInv, PicturesInv, others \in Nat, Gallery!Leave PROVE PicturesInv'
<1>1. /\ uploads' = [u \in Uploads |-> [uploads[u] EXCEPT !.mounted = FALSE]]
      /\ leaves + others < MAX_LEAVES /\ leaves' = leaves + 1 /\ removing' = None
      /\ UNCHANGED <<owner, blobs, media, shown, picked, removals, rowsFetch>>
  BY DEF Gallery!Leave
<1>2. excuse => excuse'
  BY DEF Gallery!Leave
<1>3. \A u \in Uploads : uploads[u] = Gallery!Idle => uploads'[u] = Gallery!Idle
  <2>1. \A r, s \in Upload :
          r.kind = s.kind /\ r.photo = s.photo /\ r.step = s.step /\ r.mounted = s.mounted => r = s
    BY DEF Upload
  <2>2. Gallery!Idle \in Upload /\ Gallery!Idle.mounted = FALSE
    BY DEF Gallery!Idle, Upload
  <2> DEFINE new == [Gallery!Idle EXCEPT !.mounted = FALSE]
  <2>3. /\ new \in Upload /\ new.kind = Gallery!Idle.kind /\ new.photo = Gallery!Idle.photo
        /\ new.step = Gallery!Idle.step /\ new.mounted = FALSE
    BY <2>2 DEF Upload
  <2> HIDE DEF new
  <2>4. new = Gallery!Idle
    BY <2>1, <2>2, <2>3
  <2> QED BY <1>1, <2>4 DEF new
<1>4. Gallery!Running' \subseteq Gallery!Running
  BY <1>3 DEF Gallery!Running, Gallery!Idle
<1>5. ASSUME NEW u \in Gallery!Running'
      PROVE  /\ u \in Gallery!Running /\ uploads'[u].kind = uploads[u].kind
             /\ uploads'[u].photo = uploads[u].photo /\ uploads'[u].step = uploads[u].step
  <2>1. u \in Uploads
    BY DEF Gallery!Running
  <2>2. uploads[u] \in Upload /\ uploads'[u] = [uploads[u] EXCEPT !.mounted = FALSE]
    BY <1>1, <2>1 DEF GalleryInv
  <2> QED BY <1>4, <2>2 DEF Upload
<1>6. UploadsFit'
  <2>1. Gallery!Hooks' = Gallery!Hooks
    BY <1>1 DEF Gallery!Hooks
  <2> QED BY <1>1, <1>5, <2>1 DEF PicturesInv, UploadsFit
<1>7. leaves' \in 0..MAX_LEAVES
  BY <1>1, ScreensType DEF PicturesInv, GalleryFits
<1> QED BY <1>1, <1>2, <1>6, <1>7 DEF PicturesInv, PicturesFit, GalleryTrue, GalleryFits

LEMMA PicturesPicked ==
  ASSUME GalleryInv, PicturesInv, NEW u \in Uploads, NEW k \in Gallery!Hooks, Gallery!PickFile(u, k)
  PROVE  PicturesInv'
<1> DEFINE new == [kind |-> k, photo |-> Gallery!NewFile, step |-> "sign", mounted |-> TRUE]
<1>1. /\ uploads' = [uploads EXCEPT ![u] = new] /\ picked' = picked \cup {Gallery!NewFile}
      /\ UNCHANGED <<owner, blobs, media, shown, removals, removing, rowsFetch, leaves, excuse>>
      /\ Gallery!NewFile \in Photos
  BY NewFileFits DEF Gallery!PickFile
<1>2. new \in Upload /\ new.kind = k /\ new.photo = Gallery!NewFile /\ new.step = "sign"
  BY <1>1, HooksAreKinds DEF Upload
<1> HIDE DEF new
<1>3. UploadsFit'
  BY <1>1, <1>2, UploadsMoveOn
<1>4. PicturesFit'
  BY <1>1 DEF PicturesInv, PicturesFit
<1> QED BY <1>1, <1>3, <1>4 DEF PicturesInv, GalleryTrue, GalleryFits

LEMMA PicturesUploaded ==
  ASSUME GalleryInv, PicturesInv, NEW u \in Uploads,
         Gallery!Signed(u) \/ Gallery!Stored(u) \/ Gallery!CheckCap(u)
  PROVE  PicturesInv'
<1>1. /\ UNCHANGED <<owner, media, shown, picked, removals, removing, rowsFetch, leaves, excuse>>
      /\ uploads[u].step # "idle" /\ blobs \subseteq blobs'
  BY DEF Gallery!Signed, Gallery!Stored, Gallery!CheckCap
<1>2. /\ uploads[u] \in Upload /\ u \in Gallery!Running /\ owner # "closed"
  BY <1>1, UploadFacts
<1>3. /\ uploads[u].kind \in Gallery!Hooks /\ uploads[u].photo \in picked
      /\ uploads[u].step = "attach" => uploads[u].photo \in blobs
  BY <1>2 DEF PicturesInv, UploadsFit
<1>4. blobs' \subseteq blobs \cup {uploads[u].photo}
  BY DEF Gallery!Signed, Gallery!Stored, Gallery!CheckCap
<1>5. PICK next \in {"store", "attach", "insert"} :
        /\ uploads' = [uploads EXCEPT ![u].step = next]
        /\ next \in {"attach", "insert"} => uploads[u].photo \in blobs'
  BY <1>3 DEF Gallery!Signed, Gallery!Stored, Gallery!CheckCap
<1> DEFINE old == uploads[u]
           new == [old EXCEPT !.step = next]
<1>6. uploads' = [uploads EXCEPT ![u] = new]
  BY <1>5 DEF GalleryInv
<1>7. new \in Upload /\ new.kind = old.kind /\ new.photo = old.photo /\ new.step = next
  <2>1. old \in Upload
    BY <1>2
  <2> HIDE DEF old
  <2> QED BY <2>1 DEF Upload
<1> HIDE DEF new
<1>8. UploadsFit'
  BY <1>1, <1>3, <1>5, <1>6, <1>7, UploadsMoveOn
<1>9. PicturesFit'
  <2>1. blobs' \subseteq picked'
    BY <1>1, <1>3, <1>4 DEF PicturesInv, PicturesFit
  <2> QED BY <1>1, <2>1 DEF PicturesInv, PicturesFit
<1> QED BY <1>1, <1>8, <1>9 DEF PicturesInv, GalleryTrue, GalleryFits

LEMMA PicturesAttached ==
  ASSUME GalleryInv, PicturesInv, NEW u \in Uploads, Gallery!Attached(u) PROVE PicturesInv'
<1>1. /\ uploads[u].step = "insert" /\ uploads' = [uploads EXCEPT ![u] = Gallery!Idle]
      /\ UNCHANGED <<owner, blobs, shown, picked, removals, removing, leaves>>
      /\ Gallery!Inserted(u) /\ rowsFetch' = <<"asked">>
  BY DEF Gallery!Attached, Gallery!OnChanged, Gallery!Asked
<1>2. Gallery!Idle \in Upload
  BY DEF Gallery!Idle, Upload
<1>3. UploadsFit'
  BY <1>1, <1>2, UploadsMoveOn
<1>4. PicturesFit' /\ owner # "closed"
  BY <1>1, InsertFits DEF PicturesInv, PicturesFit
<1> QED BY <1>1, <1>3, <1>4 DEF PicturesInv, GalleryTrue, GalleryFits

LEMMA PicturesRefused ==
  ASSUME GalleryInv, PicturesInv, NEW u \in Uploads, Gallery!UploadFails(u) PROVE PicturesInv'
<1>1. /\ uploads[u] # Gallery!Idle /\ uploads' = [uploads EXCEPT ![u] = Gallery!Idle]
      /\ UNCHANGED <<owner, shown, picked, removals, removing, rowsFetch, leaves>>
      /\ \/ UNCHANGED <<media, blobs, excuse>>
         \/ blobs' = blobs \cup {uploads[u].photo} /\ UNCHANGED <<media, excuse>>
         \/ uploads[u].step = "insert" /\ Gallery!Inserted(u) /\ excuse' = TRUE /\ UNCHANGED blobs
  BY DEF Gallery!UploadFails
<1>2. Gallery!Idle \in Upload /\ u \in Gallery!Running
  BY <1>1 DEF Gallery!Idle, Upload, Gallery!Running
<1>3. UploadsFit'
  BY <1>1, <1>2, UploadsMoveOn
<1>4. uploads[u].photo \in picked
  BY <1>2 DEF PicturesInv, UploadsFit
<1>5. PicturesFit'
  <2>1. CASE UNCHANGED <<media, blobs>>
    BY <1>1, <2>1 DEF PicturesInv, PicturesFit
  <2>2. CASE blobs' = blobs \cup {uploads[u].photo} /\ UNCHANGED media
    BY <1>1, <1>4, <2>2 DEF PicturesInv, PicturesFit
  <2>3. CASE uploads[u].step = "insert" /\ Gallery!Inserted(u) /\ UNCHANGED blobs
    BY <1>1, <2>3, InsertFits DEF PicturesInv, PicturesFit
  <2> QED BY <1>1, <2>1, <2>2, <2>3
<1>6. GalleryTrue'
  BY <1>1 DEF PicturesInv, GalleryTrue
<1> QED BY <1>1, <1>3, <1>5, <1>6 DEF PicturesInv, GalleryFits

LEMMA PicturesElsewhere ==
  ASSUME GalleryInv, PicturesInv, Gallery!Elsewhere PROVE PicturesInv'
<1>1. /\ owner # "closed" /\ excuse'
      /\ UNCHANGED <<owner, shown, uploads, removals, removing, rowsFetch, leaves>>
      /\ \/ media' \subseteq media /\ UNCHANGED <<blobs, picked>>
         \/ /\ picked # Photos /\ media' = media \cup {<<"PHOTO", Gallery!NewFile>>}
            /\ blobs' = blobs \cup {Gallery!NewFile} /\ picked' = picked \cup {Gallery!NewFile}
  BY DEF Gallery!Elsewhere
<1>2. UploadsFit'
  BY <1>1, UploadsRunOn
<1>3. PicturesFit'
  BY <1>1 DEF PicturesInv, PicturesFit
<1> QED BY <1>1, <1>2, <1>3 DEF PicturesInv, GalleryTrue, GalleryFits

\* Removals, and the refetch, whatever it brings.
LEMMA PicturesRemoved ==
  ASSUME GalleryInv, PicturesInv, NEW p \in Photos,
         Gallery!Remove(p) \/ Gallery!Removed(p) \/ Gallery!RemoveFails(p)
  PROVE  PicturesInv'
<1>1. /\ UNCHANGED <<owner, blobs, shown, picked, uploads, leaves>>
      /\ removals' \subseteq removals \cup {p} /\ removing' \in {p, None}
      /\ \/ UNCHANGED <<media, rowsFetch, excuse>>
         \/ /\ <<"PHOTO", p>> \in media /\ media' \subseteq media
            /\ \/ rowsFetch' = <<"asked">>
               \/ UNCHANGED rowsFetch /\ excuse' = TRUE
  BY DEF Gallery!Remove, Gallery!Removed, Gallery!RemoveFails, Gallery!OnChanged, Gallery!Asked
<1>2. UploadsFit'
  BY <1>1, UploadsRunOn
<1>3. PicturesFit'
  BY <1>1 DEF PicturesInv, PicturesFit
<1>4. GalleryTrue'
  BY <1>1 DEF GalleryInv, PicturesInv, GalleryTrue
<1> QED BY <1>1, <1>2, <1>3, <1>4 DEF PicturesInv, GalleryFits

LEMMA PicturesRead ==
  ASSUME GalleryInv, PicturesInv,
         \/ Gallery!Return \/ Gallery!ReadRows \/ Gallery!ShowRows \/ Gallery!FetchFails
         \/ UNCHANGED Gallery!vars
  PROVE  PicturesInv'
<1>1. UNCHANGED <<owner, blobs, media, picked, uploads, removals, removing, leaves>>
  BY DEF Gallery!Return, Gallery!ReadRows, Gallery!ShowRows, Gallery!FetchFails, Gallery!vars
<1>2. UploadsFit' /\ GalleryFits'
  BY <1>1, UploadsRunOn DEF PicturesInv, GalleryFits
<1>3. media \in SUBSET (Gallery!Kinds \X Photos)
  BY DEF GalleryInv, PicturesInv, PicturesFit
<1>4. CASE Gallery!Return \/ UNCHANGED Gallery!vars
  BY <1>1, <1>2, <1>4 DEF Gallery!Return, Gallery!vars, PicturesInv, PicturesFit, GalleryTrue
<1>5. CASE Gallery!ReadRows
  <2>1. rowsFetch = <<"asked">> /\ rowsFetch' = <<"got", media>> /\ UNCHANGED <<shown, excuse>>
    BY <1>5 DEF Gallery!ReadRows, Gallery!Asked
  <2>2. PicturesFit'
    BY <1>1, <1>3, <2>1 DEF PicturesInv, PicturesFit
  <2> QED BY <1>1, <1>2, <2>1, <2>2 DEF PicturesInv, GalleryTrue
<1>6. CASE Gallery!ShowRows
  <2>1. /\ rowsFetch # <<>> /\ rowsFetch # <<"asked">> /\ shown' = rowsFetch[2] /\ rowsFetch' = <<>>
        /\ UNCHANGED excuse
    BY <1>6 DEF Gallery!ShowRows, Gallery!Asked, Gallery!NoFetch
  <2>2. PICK m \in SUBSET (Gallery!Kinds \X Photos) : rowsFetch = <<"got", m>>
    BY <2>1 DEF PicturesInv, PicturesFit
  <2>3. PicturesFit'
    BY <1>1, <2>1, <2>2 DEF PicturesInv, PicturesFit
  <2>4. owner # "closed" /\ ~excuse => rowsFetch = <<"got", media>>
    BY <2>1 DEF PicturesInv, GalleryTrue
  <2> QED BY <1>1, <1>2, <2>1, <2>3, <2>4 DEF PicturesInv, GalleryTrue
<1>7. CASE Gallery!FetchFails
  <2>1. rowsFetch' = <<>> /\ excuse' = TRUE /\ UNCHANGED shown
    BY <1>7 DEF Gallery!FetchFails, Gallery!NoFetch
  <2>2. PicturesFit'
    BY <1>1, <2>1 DEF PicturesInv, PicturesFit
  <2> QED BY <1>1, <1>2, <2>1, <2>2 DEF PicturesInv, GalleryTrue
<1> QED BY <1>4, <1>5, <1>6, <1>7

LEMMA PicturesKeep ==
  ASSUME GalleryInv, PicturesInv, excuse \in BOOLEAN, others \in 0..MAX_OTHERS, Gallery!Next
  PROVE  PicturesInv' /\ excuse' \in BOOLEAN /\ others' \in 0..MAX_OTHERS
<1>1. excuse' \in BOOLEAN
  BY DEF Gallery!Next, Gallery!Open, Gallery!Leave, Gallery!Return, Gallery!ReadRows, Gallery!ShowRows,
     Gallery!FetchFails, Gallery!Elsewhere, Gallery!PickFile, Gallery!Signed, Gallery!Stored,
     Gallery!CheckCap, Gallery!Attached, Gallery!UploadFails, Gallery!Remove, Gallery!Removed,
     Gallery!RemoveFails
<1>2. others' \in 0..MAX_OTHERS
  <2>1. others' = others \/ (others < MAX_OTHERS /\ others' = others + 1)
    BY DEF Gallery!Next, Gallery!Open, Gallery!Leave, Gallery!Return, Gallery!ReadRows,
       Gallery!ShowRows, Gallery!FetchFails, Gallery!Elsewhere, Gallery!PickFile, Gallery!Signed,
       Gallery!Stored, Gallery!CheckCap, Gallery!Attached, Gallery!UploadFails, Gallery!Remove,
       Gallery!Removed, Gallery!RemoveFails
  <2> QED BY <2>1, ScreensType
<1>3. PicturesInv'
  BY PicturesOpen, PicturesLeft, PicturesPicked, PicturesUploaded, PicturesAttached, PicturesRefused,
     PicturesElsewhere, PicturesRemoved, PicturesRead
  DEF Gallery!Next
<1> QED BY <1>1, <1>2, <1>3

LEMMA PicturesRest ==
  ASSUME PicturesInv, UNCHANGED galleryVars, owner = "closed" \/ excuse' = excuse
  PROVE  PicturesInv'
<1>1. /\ UNCHANGED <<owner, blobs, media, shown, picked, uploads, removals, removing, rowsFetch, leaves>>
  BY DEF galleryVars
<1>2. UploadsFit'
  BY <1>1, UploadsRunOn
<1> QED BY <1>1, <1>2 DEF PicturesInv, PicturesFit, GalleryTrue, GalleryFits

LEMMA PicturesAgree ==
  ASSUME GalleryInv, PicturesInv, here \in BOOLEAN, excuse \in BOOLEAN, others \in 0..MAX_OTHERS
  PROVE  Gallery!TypeOK /\ Gallery!PicturesShown
<1>1. ASSUME NEW k \in Gallery!Slots
      PROVE  Gallery!Cardinality({r \in media : r[1] = k}) <= 1
  <2> DEFINE S == {r \in media : r[1] = k}
  <2>1. \A r, s \in S : r = s
    BY DEF PicturesInv, PicturesFit
  <2>2. Cardinality(S) <= 1
    <3>1. CASE S = {}
      BY <3>1, FS_EmptySet
    <3>2. CASE S # {}
      <4>1. PICK r : S = {r}
        BY <2>1, <3>2
      <4> QED BY <4>1, FS_Singleton
    <3> QED BY <3>1, <3>2
  <2> QED BY <2>2, SameCardinality
<1>2. \A u \in Gallery!Running :
        /\ uploads[u].photo \in picked /\ uploads[u].kind \in Gallery!Hooks
        /\ uploads[u].step \in {"sign", "store", "attach", "insert"}
  BY DEF PicturesInv, UploadsFit
<1>3. Gallery!TypeOK
  BY <1>1, <1>2 DEF Gallery!TypeOK, GalleryInv, PicturesInv, PicturesFit, GalleryFits
<1>4. Gallery!PicturesShown
  BY DEF Gallery!PicturesShown, Gallery!NoFetch, PicturesInv, GalleryTrue
<1> QED BY <1>3, <1>4

-----------------------------------------------------------------------------
(* The numbers of the dashboard: what the page counts.                       *)

\* The reviews that wait for a reply, and what the page lists of a few reviews.
Waiting == {r \in Reviews : reviews[r] # None /\ replies[r] = None}
Listed(s) == {<<r, replies[r] # None>> : r \in s}

DashboardFits ==
  /\ dashboardView \in {"closed", "open"} /\ day <= LAST_DAY /\ listing \in BOOLEAN
  /\ \A r \in Reviews : reviews[r] # None \/ replies[r] # None => r \in used
  /\ pending \in {None} \cup 0..Cardinality(Reviews)
  /\ list = None \/ list \subseteq Reviews \X BOOLEAN
  /\ dashboardView = "closed" => list = None /\ request = None /\ ~listing
  /\ dashboardChanges \in 0..MAX_CHANGES

\* What the two queries of the page brought is true when they have ended; what
\* the first statement of one has read is still true.
DashboardTrue ==
  dashboardView = "open" /\ ~excuse =>
    /\ request = None => pending \in {None, Cardinality(Waiting)}
    /\ request \notin {None, <<>>} => request = <<reviews>>
    /\ ~listing /\ list # None => \E s \in Dashboard!Newest(reviews) : list = Listed(s)

LEMMA ReviewsAreFinite ==
  /\ IsFiniteSet(Reviews) /\ Cardinality(Reviews) \in Nat
  /\ \A S \in SUBSET Reviews : IsFiniteSet(S) /\ Cardinality(S) \in 0..Cardinality(Reviews)
<1>1. IsFiniteSet(Reviews) /\ Cardinality(Reviews) \in Nat
  BY ScreensType, FS_CardinalityType
<1>2. ASSUME NEW S \in SUBSET Reviews PROVE IsFiniteSet(S) /\ Cardinality(S) \in 0..Cardinality(Reviews)
  <2>1. IsFiniteSet(S) /\ Cardinality(S) <= Cardinality(Reviews)
    BY <1>1, FS_Subset
  <2>2. Cardinality(S) \in Nat
    BY <2>1, FS_CardinalityType
  <2> QED BY <1>1, <2>1, <2>2
<1> QED BY <1>1, <1>2

LEMMA NumbersInitially == Dashboard!Init => DashboardFits /\ DashboardTrue
<1> SUFFICES ASSUME Dashboard!Init PROVE DashboardFits /\ DashboardTrue
  OBVIOUS
<1>1. 1 <= LAST_DAY /\ 0 \in 0..MAX_CHANGES
  BY ScreensType
<1> QED BY <1>1 DEF Dashboard!Init, DashboardFits, DashboardTrue

\* What is counted as pending is a number of reviews.
LEMMA PendingIsNumber ==
  ASSUME NEW rv, NEW rp, NEW d
  PROVE  Dashboard!Snapshot(rv, rp, d).pending \in 0..Cardinality(Reviews)
<1> DEFINE so == Dashboard!SoFar(rv, d)
           A == Dashboard!Answered(rv, rp, d)
<1>1. so \subseteq Reviews /\ A \subseteq so
  BY DEF Dashboard!SoFar, Dashboard!Answered, Dashboard!Rows
<1>2. Dashboard!Snapshot(rv, rp, d).pending = Cardinality(so) - Cardinality(A)
  BY DashboardCardinality DEF Dashboard!Snapshot
<1> HIDE DEF so, A
<1>3. IsFiniteSet(so) /\ Cardinality(so) \in 0..Cardinality(Reviews) /\ Cardinality(A) \in Nat
  BY <1>1, ReviewsAreFinite
<1>4. Cardinality(A) <= Cardinality(so)
  BY <1>1, <1>3, FS_Subset
<1>5. Cardinality(Reviews) \in Nat
  BY ReviewsAreFinite
<1> QED BY <1>2, <1>3, <1>4, <1>5

\* The reviews and their replies, read one after the other, and neither changed.
LEMMA PendingIsWaiting ==
  ASSUME DashboardInv, NEW ids, ids = Dashboard!Rows(reviews),
         NEW found, found = [r \in Reviews |-> IF r \in ids THEN replies[r] ELSE None]
  PROVE  Dashboard!Snapshot(reviews, found, day).pending = Cardinality(Waiting)
<1> DEFINE so == Dashboard!SoFar(reviews, day)
           A == Dashboard!Answered(reviews, found, day)
<1>1. /\ so = Dashboard!Rows(reviews) /\ so \subseteq Reviews /\ A \subseteq so
  BY DEF DashboardInv, Dashboard!SoFar, Dashboard!Answered, Dashboard!Rows
<1>2. \A r \in so : found[r] = replies[r] /\ (replies[r] # None => replies[r] <= day)
  BY <1>1 DEF DashboardInv
<1>3. A = {r \in so : replies[r] # None}
  BY <1>2 DEF Dashboard!Answered
<1>4. Waiting = so \ A
  BY <1>1, <1>3 DEF Waiting, Dashboard!Rows
<1>5. Dashboard!Snapshot(reviews, found, day).pending = Cardinality(so) - Cardinality(A)
  BY DashboardCardinality DEF Dashboard!Snapshot
<1> HIDE DEF so, A
<1>6. IsFiniteSet(so) /\ so \cap A = A
  BY <1>1, ReviewsAreFinite
<1>7. Cardinality(so \ A) = Cardinality(so) - Cardinality(so \cap A)
  BY <1>6, FS_Difference
<1> QED BY <1>4, <1>5, <1>6, <1>7

\* Somebody else writes, or a day passes.
LEMMA DashboardWritten ==
  ASSUME DashboardInv, DashboardFits, DashboardTrue, excuse \in BOOLEAN,
         \/ Dashboard!NextDay
         \/ \E r \in Reviews :
              \/ Dashboard!DeleteReview(r) \/ Dashboard!DeleteReply(r)
              \/ \E n \in Ratings : Dashboard!WriteReview(r, n) \/ Dashboard!UpdateReview(r, n)
  PROVE  DashboardFits' /\ DashboardTrue' /\ excuse' \in BOOLEAN
<1> USE DEF DashboardInv
<1>1. /\ UNCHANGED <<dashboardView, request, pending, list, listing>> /\ excuse' = TRUE
      /\ used \subseteq used'
      /\ UNCHANGED dashboardChanges
         \/ (dashboardChanges < MAX_CHANGES /\ dashboardChanges' = dashboardChanges + 1)
      /\ UNCHANGED day \/ (day < LAST_DAY /\ day' = day + 1)
  BY DEF Dashboard!NextDay, Dashboard!DeleteReview, Dashboard!DeleteReply, Dashboard!WriteReview,
     Dashboard!UpdateReview, Dashboard!Change
<1>2. \A x \in Reviews : reviews'[x] # None \/ replies'[x] # None => x \in used'
  <2>1. CASE Dashboard!NextDay
    BY <2>1 DEF Dashboard!NextDay, DashboardFits
  <2>2. ASSUME NEW r \in Reviews, Dashboard!DeleteReview(r) \/ Dashboard!DeleteReply(r)
        PROVE  \A x \in Reviews : reviews'[x] # None \/ replies'[x] # None => x \in used'
    BY <2>2 DEF Dashboard!DeleteReview, Dashboard!DeleteReply, DashboardFits
  <2>3. ASSUME NEW r \in Reviews, NEW n \in Ratings,
               Dashboard!WriteReview(r, n) \/ Dashboard!UpdateReview(r, n)
        PROVE  \A x \in Reviews : reviews'[x] # None \/ replies'[x] # None => x \in used'
    <3>1. /\ replies' = replies /\ \A x \in Reviews \ {r} : reviews'[x] = reviews[x]
          /\ r \in used'
      BY <2>3 DEF Dashboard!WriteReview, Dashboard!UpdateReview, DashboardFits
    <3> QED BY <1>1, <3>1 DEF DashboardFits
  <2> QED BY <2>1, <2>2, <2>3
<1>3. day' <= LAST_DAY /\ dashboardChanges' \in 0..MAX_CHANGES
  BY <1>1, ScreensType DEF DashboardFits
<1>4. DashboardTrue'
  BY <1>1 DEF DashboardTrue
<1> QED BY <1>1, <1>2, <1>3, <1>4 DEF DashboardFits

LEMMA DashboardReplied ==
  ASSUME DashboardInv, DashboardFits, DashboardTrue, NEW r \in Reviews, Dashboard!SubmitReply(r)
  PROVE  DashboardFits' /\ DashboardTrue' /\ excuse' \in BOOLEAN
<1>1. /\ reviews[r] # None /\ replies' = [replies EXCEPT ![r] = day]
      /\ listing' = TRUE /\ request' = <<>> /\ excuse' = FALSE
      /\ UNCHANGED <<dashboardView, day, reviews, used, pending, list, dashboardChanges>>
  BY DEF Dashboard!SubmitReply, Dashboard!RefetchBoth, Dashboard!Asked
<1>2. \A x \in Reviews : reviews'[x] # None \/ replies'[x] # None => x \in used'
  BY <1>1 DEF DashboardInv, DashboardFits
<1>3. request' # None
  BY <1>1, NoneIsNoValue
<1>4. dashboardView = "open"
  BY DEF Dashboard!SubmitReply, DashboardFits
<1> QED BY <1>1, <1>2, <1>3, <1>4 DEF DashboardFits, DashboardTrue

\* The newest reviews are reviews, and all of them when the list is long enough.
LEMMA NewestAreReviews ==
  ASSUME NEW s \in Dashboard!Newest(reviews)
  PROVE  /\ s \subseteq Dashboard!Rows(reviews)
         /\ Cardinality(Dashboard!Rows(reviews)) <= LIST_SIZE => s = Dashboard!Rows(reviews)
BY DashboardCardinality DEF Dashboard!Newest

LEMMA DashboardRead ==
  ASSUME DashboardInv, DashboardFits, DashboardTrue, excuse \in BOOLEAN,
         \/ Dashboard!Open \/ Dashboard!ReadReviews \/ Dashboard!ReadReplies \/ Dashboard!ReadList
         \/ UNCHANGED dashboardVars /\ UNCHANGED excuse
  PROVE  DashboardFits' /\ DashboardTrue' /\ excuse' \in BOOLEAN
<1>1. UNCHANGED <<day, reviews, replies, used, excuse, dashboardChanges>>
  BY DEF Dashboard!Open, Dashboard!ReadReviews, Dashboard!ReadReplies, Dashboard!ReadList, dashboardVars
<1>2. /\ Waiting' = Waiting /\ Dashboard!Newest(reviews)' = Dashboard!Newest(reviews)
      /\ \A s : Listed(s)' = Listed(s)
  BY <1>1 DEF Waiting, Listed
<1>3. CASE Dashboard!Open
  <2>1. /\ dashboardView' = "open" /\ request' = <<>> /\ list = None /\ UNCHANGED <<pending, list, listing>>
    BY <1>3 DEF Dashboard!Open, Dashboard!Asked, DashboardFits
  <2>2. request' # None
    BY <2>1, NoneIsNoValue
  <2> QED BY <1>1, <2>1, <2>2 DEF DashboardFits, DashboardTrue
<1>4. CASE Dashboard!ReadReviews
  <2>1. request' = <<reviews>> /\ UNCHANGED <<dashboardView, pending, list, listing>>
    BY <1>4 DEF Dashboard!ReadReviews
  <2>2. request' # None
    <3>1. 1..day \subseteq 1..LAST_DAY
      BY ScreensType DEF DashboardInv, DashboardFits
    <3>2. reviews \in [Reviews -> {None} \cup [rating : Ratings, on : 1..LAST_DAY]]
      BY <3>1 DEF DashboardInv
    <3> QED BY <2>1, <3>2, NoneIsNoValue
  <2>3. dashboardView = "open"
    BY <1>4, NoneIsNoValue DEF Dashboard!ReadReviews, Dashboard!Asked, DashboardFits
  <2> QED BY <1>1, <1>2, <2>1, <2>2, <2>3 DEF DashboardFits, DashboardTrue
<1>5. CASE Dashboard!ReadReplies
  <2> DEFINE ids == Dashboard!Rows(request[1])
             found == [r \in Reviews |-> IF r \in ids THEN replies[r] ELSE None]
  <2>1. /\ request \notin {None, <<>>} /\ request' = None
        /\ pending' = Dashboard!Snapshot(request[1], found, day).pending
        /\ listing' = (listing \/ pending = None)
        /\ UNCHANGED <<dashboardView, list>>
    BY <1>5 DEF Dashboard!ReadReplies, Dashboard!Asked
  <2>2. pending' \in 0..Cardinality(Reviews)
    BY <2>1, PendingIsNumber
  <2>3. ASSUME dashboardView = "open", ~excuse PROVE pending' = Cardinality(Waiting)
    <3>1. request = <<reviews>>
      BY <2>1, <2>3 DEF DashboardTrue
    <3>2. request[1] = reviews
      BY <3>1
    <3>3. ids = Dashboard!Rows(reviews)
      BY <3>2
    <3>4. Dashboard!Snapshot(reviews, found, day).pending = Cardinality(Waiting)
      <4> HIDE DEF ids
      <4>1. found = [r \in Reviews |-> IF r \in ids THEN replies[r] ELSE None]
        OBVIOUS
      <4> HIDE DEF found
      <4> QED BY <3>3, <4>1, PendingIsWaiting
    <3> QED BY <2>1, <3>2, <3>4
  <2>4. DashboardFits'
    BY <1>1, <2>1, <2>2 DEF DashboardFits
  <2>5. DashboardTrue'
    <3> HIDE DEF found
    <3> QED BY <1>1, <1>2, <2>1, <2>3 DEF DashboardTrue
  <2> QED BY <1>1, <2>4, <2>5
<1>6. CASE Dashboard!ReadList
  <2>1. listing /\ listing' = FALSE /\ UNCHANGED <<dashboardView, request, pending>>
    BY <1>6 DEF Dashboard!ReadList
  <2>2. PICK s \in Dashboard!Newest(reviews) : list' = Listed(s)
    BY <1>6 DEF Dashboard!ReadList, Listed
  <2>3. Listed(s) \subseteq Reviews \X BOOLEAN
    <3>1. \A r \in s : r \in Reviews /\ (replies[r] # None) \in BOOLEAN
      BY NewestAreReviews DEF Dashboard!Rows
    <3> SUFFICES ASSUME NEW x \in Listed(s) PROVE x \in Reviews \X BOOLEAN
      OBVIOUS
    <3>2. PICK r \in s : x = <<r, replies[r] # None>>
      BY Zenon DEF Listed
    <3> DEFINE b == replies[r] # None
    <3>3. r \in Reviews /\ b \in BOOLEAN /\ x = <<r, b>>
      BY <3>1, <3>2, Zenon
    <3> HIDE DEF b
    <3> QED BY <3>3
  <2>4. dashboardView = "open"
    BY <2>1 DEF DashboardFits
  <2>5. DashboardFits'
    BY <1>1, <2>1, <2>2, <2>3, <2>4 DEF DashboardFits
  <2> QED BY <1>1, <1>2, <2>1, <2>2, <2>5 DEF DashboardTrue
<1>7. CASE UNCHANGED dashboardVars /\ UNCHANGED excuse
  <2>1. UNCHANGED <<dashboardView, request, pending, list, listing>>
    BY <1>7 DEF dashboardVars
  <2> QED BY <1>1, <1>2, <2>1 DEF DashboardFits, DashboardTrue
<1> QED BY <1>3, <1>4, <1>5, <1>6, <1>7

LEMMA NumbersKeep ==
  ASSUME DashboardInv, DashboardFits, DashboardTrue, excuse \in BOOLEAN, Dashboard!Next
  PROVE  DashboardFits' /\ DashboardTrue' /\ excuse' \in BOOLEAN
BY DashboardWritten, DashboardReplied, DashboardRead DEF Dashboard!Next

LEMMA NumbersRest ==
  ASSUME DashboardFits, DashboardTrue, UNCHANGED dashboardVars,
         dashboardView = "closed" \/ excuse' = excuse
  PROVE  DashboardFits' /\ DashboardTrue'
<1>1. UNCHANGED <<dashboardView, day, reviews, replies, used, request, pending, list, listing,
                  dashboardChanges>>
  BY DEF dashboardVars
<1>2. /\ Waiting' = Waiting /\ Dashboard!Newest(reviews)' = Dashboard!Newest(reviews)
      /\ \A s : Listed(s)' = Listed(s)
  BY <1>1 DEF Waiting, Listed
<1> QED BY <1>1, <1>2 DEF DashboardFits, DashboardTrue

LEMMA PendingAgrees ==
  ASSUME DashboardInv, DashboardFits, DashboardTrue, excuse \in BOOLEAN
  PROVE  Dashboard!TypeOK /\ Dashboard!PendingMatchesList
<1>1. Dashboard!TypeOK
  <2>1. day \in Dashboard!Days
    BY ScreensType DEF DashboardInv, DashboardFits, Dashboard!Days
  <2>2. \A r \in Reviews :
          /\ reviews[r] # None => reviews[r] \in [rating : Ratings, on : 1..day] /\ r \in used
          /\ replies[r] # None => replies[r] \in 1..day /\ r \in used
    BY DEF DashboardInv, DashboardFits
  <2> QED BY <2>1, <2>2, DashboardCardinality DEF DashboardFits, Dashboard!TypeOK
<1>2. Dashboard!PendingMatchesList
  <2> SUFFICES ASSUME Dashboard!Settled, pending # None, list # None, ~excuse
               PROVE  /\ pending = Cardinality(Dashboard!Waiting) + Cardinality(Dashboard!FurtherBack)
                      /\ Cardinality(Dashboard!Rows(reviews)) <= LIST_SIZE => Dashboard!FurtherBack = {}
    BY DashboardCardinality DEF Dashboard!PendingMatchesList
  <2>1. pending = Cardinality(Waiting)
    BY DEF Dashboard!Settled, DashboardTrue
  <2>0. PICK s \in Dashboard!Newest(reviews) : list = Listed(s)
    BY DEF Dashboard!Settled, DashboardTrue
  <2> DEFINE S == Dashboard!Waiting
             onPage == Waiting \cap s
             f == [r \in onPage |-> <<r, FALSE>>]
  <2>2. \A r \in onPage : <<r, FALSE>> \in S
    BY <2>0 DEF Waiting, Listed, Dashboard!Waiting
  <2>3. \A x \in S : \E r \in onPage : x = <<r, FALSE>>
    <3> SUFFICES ASSUME NEW x \in S PROVE \E r \in onPage : x = <<r, FALSE>>
      OBVIOUS
    <3>1. PICK r \in s : x = <<r, replies[r] # None>>
      BY <2>0, Zenon DEF Listed, Dashboard!Waiting
    <3>2. ~(replies[r] # None)
      BY <3>1 DEF Dashboard!Waiting
    <3>3. r \in onPage
      BY <3>2, NewestAreReviews DEF Waiting, Dashboard!Rows
    <3>4. (replies[r] # None) = FALSE
      BY <3>2
    <3> QED BY <3>1, <3>3, <3>4
  <2>4. IsFiniteSet(Waiting) /\ IsFiniteSet(onPage)
    BY ReviewsAreFinite DEF Waiting
  <2>5. Cardinality(S) = Cardinality(onPage)
    <3> HIDE DEF S, onPage
    <3>1. f \in Injection(onPage, S)
      BY <2>2 DEF Injection, IsInjective
    <3>2. f \in Surjection(onPage, S)
      BY <2>2, <2>3 DEF Surjection
    <3> QED BY <2>4, <3>1, <3>2, FS_Bijection DEF Bijection, ExistsBijection
  <2>6. {x[1] : x \in list} = s
    <3>1. \A r \in s : <<r, replies[r] # None>> \in list
      BY <2>0, Zenon DEF Listed
    <3>2. ASSUME NEW x \in list PROVE x[1] \in s
      <4>1. PICK r \in s : x = <<r, replies[r] # None>>
        BY <2>0, Zenon DEF Listed
      <4> QED BY <4>1
    <3>3. \A r \in s : \E x \in list : r = x[1]
      BY <3>1
    <3> QED BY <3>2, <3>3
  <2>7. Dashboard!FurtherBack = Waiting \ s
    BY <2>6 DEF Dashboard!FurtherBack, Waiting, Dashboard!Rows
  <2>8. Cardinality(Waiting \ s) = Cardinality(Waiting) - Cardinality(onPage)
    BY <2>4, FS_Difference
  <2>9. Cardinality(Waiting) \in Nat /\ Cardinality(onPage) \in Nat
    BY <2>4, FS_CardinalityType
  <2>10. Cardinality(Dashboard!Rows(reviews)) <= LIST_SIZE => Waiting \ s = {}
    BY NewestAreReviews DEF Waiting, Dashboard!Rows
  <2> HIDE DEF S, onPage
  <2> QED BY <2>1, <2>5, <2>7, <2>8, <2>9, <2>10 DEF S
<1> QED BY <1>1, <1>2

-----------------------------------------------------------------------------
(* The numbers of the dashboard: what the formulas say.                      *)

\* Months are counted by whole quotients: a day is in an earlier month exactly
\* when it is no later than the last day of the month before.
LEMMA MonthsAre ==
  ASSUME NEW d \in Nat \ {0}
  PROVE  /\ Dashboard!Month(d) \in Nat /\ Dashboard!PriorAsOf(d) \in Nat /\ Dashboard!PriorAsOf(d) < d
         /\ \A e \in 1..d : /\ Dashboard!Month(e) \in Nat /\ Dashboard!Month(e) <= Dashboard!Month(d)
                            /\ e <= Dashboard!PriorAsOf(d) <=> Dashboard!Month(e) < Dashboard!Month(d)
<1>1. MONTH_DAYS \in Nat \ {0}
  BY ScreensType
<1>2. ASSUME NEW e \in Nat \ {0}
      PROVE  /\ Dashboard!Month(e) \in Nat /\ MONTH_DAYS * Dashboard!Month(e) \in Nat
             /\ MONTH_DAYS * Dashboard!Month(e) <= e - 1
             /\ e - 1 < MONTH_DAYS * Dashboard!Month(e) + MONTH_DAYS
  <2> DEFINE q == (e - 1) \div MONTH_DAYS
  <2>1. e - 1 \in Nat
    OBVIOUS
  <2>2. q \in Int /\ MONTH_DAYS * q <= e - 1 /\ e - 1 < MONTH_DAYS * q + MONTH_DAYS
    BY <1>1, <2>1, Z3
  <2> HIDE DEF q
  <2>3. q >= 0
    <3> SUFFICES ASSUME q + 1 <= 0 PROVE FALSE
      BY <2>2
    <3>1. MONTH_DAYS * (q + 1) <= MONTH_DAYS * 0
      BY <1>1, <2>2
    <3>2. MONTH_DAYS * (q + 1) = MONTH_DAYS * q + MONTH_DAYS /\ MONTH_DAYS * q \in Int
      BY <1>1, <2>2
    <3> QED BY <1>1, <2>1, <2>2, <3>1, <3>2
  <2>4. q \in Nat /\ MONTH_DAYS * q \in Nat
    BY <1>1, <2>2, <2>3
  <2> QED BY <2>2, <2>4 DEF Dashboard!Month, q
<1>3. Dashboard!PriorAsOf(d) = MONTH_DAYS * Dashboard!Month(d)
  BY <1>1, <1>2 DEF Dashboard!PriorAsOf, Dashboard!LastOfPreviousMonth
<1>4. ASSUME NEW e \in 1..d
      PROVE  /\ Dashboard!Month(e) \in Nat /\ Dashboard!Month(e) <= Dashboard!Month(d)
             /\ e <= Dashboard!PriorAsOf(d) <=> Dashboard!Month(e) < Dashboard!Month(d)
  <2> DEFINE m == Dashboard!Month(d)
             k == Dashboard!Month(e)
             M == MONTH_DAYS
  <2>1. e \in Nat \ {0} /\ e <= d
    OBVIOUS
  <2>2. /\ k \in Nat /\ M * k \in Nat /\ M * k <= e - 1 /\ e - 1 < M * k + M
        /\ m \in Nat /\ M * m \in Nat /\ M * m <= d - 1 /\ d - 1 < M * m + M
    BY <1>2, <2>1
  <2> HIDE DEF m, k
  <2>3. ASSUME NEW x \in Nat, NEW y \in Nat, x < y
        PROVE  M * x \in Nat /\ M * y \in Nat /\ M * x + M <= M * y
    <3>1. M * (x + 1) <= M * y
      BY <1>1, <2>3
    <3>2. M * (x + 1) = M * x + M
      BY <1>1
    <3> QED BY <1>1, <3>1, <3>2
  <2>4. k <= m
    <3> SUFFICES ASSUME m < k PROVE FALSE
      BY <2>2
    <3>1. M * m + M <= M * k
      BY <2>2, <2>3
    <3> QED BY <1>1, <2>1, <2>2, <3>1
  <2>5. k < m => e <= M * m
    BY <1>1, <2>1, <2>2, <2>3
  <2>6. e <= M * m => k < m
    <3> SUFFICES ASSUME e <= M * m, k = m PROVE FALSE
      BY <2>2, <2>4
    <3> QED BY <2>1, <2>2
  <2> QED BY <1>3, <2>2, <2>4, <2>5, <2>6 DEF m, k
<1>5. /\ Dashboard!Month(d) \in Nat /\ Dashboard!PriorAsOf(d) \in Nat /\ Dashboard!PriorAsOf(d) < d
  <2>1. /\ MONTH_DAYS * Dashboard!Month(d) \in Nat /\ MONTH_DAYS * Dashboard!Month(d) <= d - 1
        /\ Dashboard!Month(d) \in Nat
    BY <1>2
  <2> QED BY <1>3, <2>1
<1> QED BY <1>4, <1>5

\* The parts of the numbers on display.
Live == Dashboard!Snapshot(reviews, replies, day)
Prior == Dashboard!Snapshot(reviews, replies, Dashboard!PriorAsOf(day))
Volume == Dashboard!ReviewVolume(reviews, day)

LEMMA NowIs ==
  /\ Dashboard!Now.countTrend = Live.count - Prior.count
  /\ Dashboard!Now.ratingTrend = Dashboard!Difference(Live.sum, Live.count, Prior.sum, Prior.count, 10)
  /\ Dashboard!Now.rateTrend =
       Dashboard!Difference(Live.answered, Live.count, Prior.answered, Prior.count, 100)
  /\ Dashboard!Now.scoreTrend = Live.score - Prior.score
  /\ Dashboard!Now.volume = Volume /\ Dashboard!Now.months = Dashboard!RatingTrend(reviews, day)
  /\ Dashboard!Now.insights = Dashboard!Insights(Live, Prior, Volume, day)
BY DEF Dashboard!Now, Dashboard!ComputeDashboardStats, Live, Prior, Volume

LEMMA SnapshotIs ==
  ASSUME NEW d
  PROVE  LET s == Dashboard!Snapshot(reviews, replies, d)
             so == Dashboard!SoFar(reviews, d)
         IN  /\ s.count = Cardinality(so) /\ s.sum = Dashboard!Total(reviews, so)
             /\ s.answered = Cardinality(Dashboard!Answered(reviews, replies, d))
             /\ s.score = Dashboard!Score(s.sum, s.count, s.answered,
                                          Cardinality(Dashboard!Recent(reviews, d)))
BY DashboardCardinality DEF Dashboard!Snapshot

\* The reviews of a month, and those of the months before.
Bucket(m) == {r \in Dashboard!Rows(reviews) : Dashboard!Month(reviews[r].on) = m}

LEMMA RowsAre ==
  ASSUME DashboardInv
  PROVE  /\ Dashboard!Rows(reviews) \subseteq Reviews
         /\ \A r \in Dashboard!Rows(reviews) :
              /\ reviews[r] \in [rating : Ratings, on : 1..day] /\ reviews[r].on \in 1..day
              /\ Dashboard!Month(reviews[r].on) \in 0..Dashboard!Month(day)
              /\ reviews[r].on <= Dashboard!PriorAsOf(day) <=>
                   Dashboard!Month(reviews[r].on) < Dashboard!Month(day)
         /\ Dashboard!SoFar(reviews, day) = Dashboard!Rows(reviews)
         /\ Dashboard!SoFar(reviews, Dashboard!PriorAsOf(day)) =
              {r \in Dashboard!Rows(reviews) : Dashboard!Month(reviews[r].on) < Dashboard!Month(day)}
<1>1. Dashboard!Rows(reviews) \subseteq Reviews
  BY DEF Dashboard!Rows
<1>2. ASSUME NEW r \in Dashboard!Rows(reviews)
      PROVE  reviews[r] \in [rating : Ratings, on : 1..day] /\ reviews[r].on \in 1..day
  BY DEF DashboardInv, Dashboard!Rows
<1>3. ASSUME NEW r \in Dashboard!Rows(reviews)
      PROVE  /\ Dashboard!Month(reviews[r].on) \in 0..Dashboard!Month(day)
             /\ reviews[r].on <= Dashboard!PriorAsOf(day) <=>
                  Dashboard!Month(reviews[r].on) < Dashboard!Month(day)
             /\ reviews[r].on <= day
  <2>1. reviews[r].on \in 1..day /\ day \in Nat \ {0}
    BY <1>2 DEF DashboardInv
  <2>2. /\ Dashboard!Month(day) \in Nat /\ Dashboard!Month(reviews[r].on) \in Nat
        /\ Dashboard!Month(reviews[r].on) <= Dashboard!Month(day)
        /\ reviews[r].on <= Dashboard!PriorAsOf(day) <=>
             Dashboard!Month(reviews[r].on) < Dashboard!Month(day)
    BY <2>1, MonthsAre
  <2> QED BY <2>1, <2>2
<1>4. Dashboard!SoFar(reviews, day) = Dashboard!Rows(reviews)
  BY <1>3 DEF Dashboard!SoFar
<1>5. Dashboard!SoFar(reviews, Dashboard!PriorAsOf(day)) =
        {r \in Dashboard!Rows(reviews) : Dashboard!Month(reviews[r].on) < Dashboard!Month(day)}
  BY <1>3 DEF Dashboard!SoFar
<1> QED BY <1>1, <1>2, <1>3, <1>4, <1>5

LEMMA WindowIs ==
  ASSUME DashboardInv
  PROVE  /\ Dashboard!Month(day) \in Nat /\ MONTHS_BACK \in Nat \ {0}
         /\ Dashboard!Window(day) = (Dashboard!Month(day) - MONTHS_BACK + 1)..Dashboard!Month(day)
         /\ Dashboard!Month(day) \in Dashboard!Window(day)
         /\ Volume = [m \in Dashboard!Window(day) |-> Cardinality(Bucket(m))]
         /\ \A m : IsFiniteSet(Bucket(m)) /\ Cardinality(Bucket(m)) \in 0..Cardinality(Reviews)
                   /\ Bucket(m) \subseteq Reviews
<1>1. Dashboard!Month(day) \in Nat /\ MONTHS_BACK \in Nat \ {0}
  BY MonthsAre, ScreensType DEF DashboardInv
<1>2. /\ Dashboard!Window(day) = (Dashboard!Month(day) - MONTHS_BACK + 1)..Dashboard!Month(day)
      /\ Dashboard!Month(day) \in Dashboard!Window(day)
  BY <1>1 DEF Dashboard!Window
<1>3. Volume = [m \in Dashboard!Window(day) |-> Cardinality(Bucket(m))]
  BY DashboardCardinality DEF Volume, Dashboard!ReviewVolume, Dashboard!Buckets, Bucket
<1>4. ASSUME NEW m PROVE IsFiniteSet(Bucket(m)) /\ Cardinality(Bucket(m)) \in 0..Cardinality(Reviews)
                          /\ Bucket(m) \subseteq Reviews
  <2>1. Bucket(m) \subseteq Reviews
    BY DEF Bucket, Dashboard!Rows
  <2> QED BY <2>1, ReviewsAreFinite
<1> QED BY <1>1, <1>2, <1>3, <1>4

\* The trend of the count is the last bar of the chart.
LEMMA TrendIsLastBar ==
  ASSUME DashboardInv PROVE Dashboard!Now.countTrend = Dashboard!Now.volume[Dashboard!Month(day)]
<1> DEFINE R == Dashboard!Rows(reviews)
           S == Dashboard!SoFar(reviews, Dashboard!PriorAsOf(day))
           B == Bucket(Dashboard!Month(day))
<1>1. /\ Dashboard!Now.countTrend = Cardinality(R) - Cardinality(S)
      /\ Dashboard!Now.volume[Dashboard!Month(day)] = Cardinality(B)
  <2>1. Live.count = Cardinality(R) /\ Prior.count = Cardinality(S)
    BY SnapshotIs, RowsAre DEF Live, Prior
  <2>2. Volume[Dashboard!Month(day)] = Cardinality(B)
    BY WindowIs
  <2> QED BY <2>1, <2>2, NowIs
<1>2. B = R \ S /\ R \cap S = S /\ IsFiniteSet(R)
  <2>1. /\ R \subseteq Reviews
        /\ S = {r \in R : Dashboard!Month(reviews[r].on) < Dashboard!Month(day)}
        /\ \A r \in R : Dashboard!Month(reviews[r].on) \in 0..Dashboard!Month(day)
    BY RowsAre
  <2>2. Dashboard!Month(day) \in Nat
    BY WindowIs
  <2>3. \A r \in R : Dashboard!Month(reviews[r].on) < Dashboard!Month(day)
                     <=> Dashboard!Month(reviews[r].on) # Dashboard!Month(day)
    BY <2>1, <2>2
  <2>4. B = {r \in R : Dashboard!Month(reviews[r].on) = Dashboard!Month(day)}
    BY DEF Bucket
  <2> HIDE DEF R, S, B
  <2> QED BY <2>1, <2>3, <2>4, ReviewsAreFinite
<1> HIDE DEF R, S, B
<1>3. Cardinality(R \ S) = Cardinality(R) - Cardinality(R \cap S)
  BY <1>2, FS_Difference
<1> QED BY <1>1, <1>2, <1>3

\* Every range counts each review of its months once: the i-th of a month in
\* some order stands for the bar's i-th unit.
LEMMA RangesCountReviews ==
  ASSUME DashboardInv, NEW n \in 1..MONTHS_BACK
  PROVE  Dashboard!VolumeInRange(Dashboard!Now.volume, day, n) =
           Cardinality({r \in Dashboard!Rows(reviews) :
                          Dashboard!Month(reviews[r].on) > Dashboard!Month(day) - n})
<1> DEFINE M == Dashboard!Month(day)
           W == Dashboard!Window(day)
           C == 1..Cardinality(Reviews)
           P == {p \in W \X C : p[1] > M - n /\ p[2] <= Cardinality(Bucket(p[1]))}
           R == {r \in Dashboard!Rows(reviews) : Dashboard!Month(reviews[r].on) > M - n}
           g == [m \in W |-> CHOOSE h \in Bijection(1..Cardinality(Bucket(m)), Bucket(m)) : TRUE]
           f == [p \in P |-> g[p[1]][p[2]]]
<1>1. Dashboard!VolumeInRange(Dashboard!Now.volume, day, n) = Cardinality(P)
  <2>1. Dashboard!Now.volume = Volume /\ \A m \in W : Volume[m] = Cardinality(Bucket(m))
    BY NowIs, WindowIs
  <2>2. {p \in W \X C : p[1] > M - n /\ p[2] <= Volume[p[1]]} = P
    BY <2>1
  <2> QED BY <2>1, <2>2, DashboardCardinality DEF Dashboard!VolumeInRange
<1>2. \A m \in W : g[m] \in Bijection(1..Cardinality(Bucket(m)), Bucket(m))
  <2>1. \A m \in W : ExistsBijection(1..Cardinality(Bucket(m)), Bucket(m))
    BY WindowIs, FS_CardinalityType
  <2> QED BY <2>1 DEF ExistsBijection
<1>3. \A m : \A r \in Bucket(m) : r \in Dashboard!Rows(reviews) /\ Dashboard!Month(reviews[r].on) = m
  BY DEF Bucket
<1>4. ASSUME NEW p \in P
      PROVE  /\ p[1] \in W /\ p[2] \in 1..Cardinality(Bucket(p[1]))
             /\ f[p] \in Bucket(p[1]) /\ f[p] \in R /\ Dashboard!Month(reviews[f[p]].on) = p[1]
  <2>1. p[1] \in W /\ p[2] \in C /\ p[1] > M - n /\ p[2] <= Cardinality(Bucket(p[1]))
    OBVIOUS
  <2>2. Cardinality(Bucket(p[1])) \in Nat
    BY WindowIs
  <2>3. p[2] \in 1..Cardinality(Bucket(p[1]))
    BY <2>1, <2>2
  <2>4. g[p[1]] \in Bijection(1..Cardinality(Bucket(p[1])), Bucket(p[1]))
    BY <1>2, <2>1
  <2>5. f[p] = g[p[1]][p[2]]
    OBVIOUS
  <2> HIDE DEF P, g, f
  <2>6. f[p] \in Bucket(p[1])
    BY <2>3, <2>4, <2>5 DEF Bijection, Injection
  <2> QED BY <1>3, <2>1, <2>3, <2>6
<1>5. f \in Injection(P, R)
  <2>1. f \in [P -> R]
    BY <1>4
  <2>2. ASSUME NEW p \in P, NEW q \in P, f[p] = f[q] PROVE p = q
    <3>1. p[1] = q[1]
      <4> HIDE DEF P, R, f
      <4>1. Dashboard!Month(reviews[f[p]].on) = p[1] /\ Dashboard!Month(reviews[f[q]].on) = q[1]
        BY <1>4
      <4> QED BY <2>2, <4>1
    <3>2. /\ g[p[1]] \in Injection(1..Cardinality(Bucket(p[1])), Bucket(p[1]))
          /\ p[2] \in 1..Cardinality(Bucket(p[1])) /\ q[2] \in 1..Cardinality(Bucket(p[1]))
          /\ g[p[1]][p[2]] = g[p[1]][q[2]]
      <4>1. f[p] = g[p[1]][p[2]] /\ f[q] = g[q[1]][q[2]]
        OBVIOUS
      <4>2. g[p[1]] \in Injection(1..Cardinality(Bucket(p[1])), Bucket(p[1]))
        BY <1>2, <1>4 DEF Bijection
      <4> HIDE DEF P, g, f
      <4> QED BY <1>4, <2>2, <3>1, <4>1, <4>2
    <3>3. p[2] = q[2]
      <4> HIDE DEF P, g, f
      <4> QED BY <3>2 DEF Injection, IsInjective
    <3>4. p = <<p[1], p[2]>> /\ q = <<q[1], q[2]>>
      OBVIOUS
    <3> QED BY <3>1, <3>3, <3>4
  <2> HIDE DEF P, R, f
  <2> QED BY <2>1, <2>2 DEF Injection, IsInjective
<1>6. ASSUME NEW r \in R PROVE \E p \in P : f[p] = r
  <2> DEFINE m == Dashboard!Month(reviews[r].on)
  <2>1. r \in Dashboard!Rows(reviews) /\ m > M - n /\ m \in 0..M
    BY RowsAre
  <2>2. m \in W /\ r \in Bucket(m)
    <3>1. M \in Nat /\ MONTHS_BACK \in Nat /\ W = (M - MONTHS_BACK + 1)..M
      BY WindowIs
    <3>2. m \in W
      <4> HIDE DEF M, W, m
      <4> QED BY <2>1, <3>1
    <3> QED BY <2>1, <3>2 DEF Bucket
  <2>3. PICK i \in 1..Cardinality(Bucket(m)) : g[m][i] = r
    <3>1. g[m] \in Surjection(1..Cardinality(Bucket(m)), Bucket(m))
      BY <1>2, <2>2 DEF Bijection
    <3> HIDE DEF g, m
    <3> QED BY <2>2, <3>1 DEF Surjection
  <2>4. i \in C /\ i <= Cardinality(Bucket(m))
    <3>1. Cardinality(Bucket(m)) \in 0..Cardinality(Reviews) /\ Cardinality(Reviews) \in Nat
      BY WindowIs, ReviewsAreFinite
    <3> QED BY <2>3, <3>1
  <2>5. <<m, i>> \in P
    <3> HIDE DEF C, W, M, m
    <3> QED BY <2>1, <2>2, <2>4
  <2>6. f[<<m, i>>] = g[m][i]
    <3> HIDE DEF P, g, m
    <3> QED BY <2>5
  <2> QED BY <2>3, <2>5, <2>6
<1>7. f \in Bijection(P, R)
  <2> HIDE DEF P, R, f
  <2>1. f \in [P -> R]
    BY <1>5 DEF Injection
  <2>2. f \in Surjection(P, R)
    BY <1>6, <2>1 DEF Surjection
  <2> QED BY <1>5, <2>2 DEF Bijection
<1>8. IsFiniteSet(R)
  <2>1. R \subseteq Reviews
    BY RowsAre
  <2> QED BY <2>1, ReviewsAreFinite
<1> HIDE DEF P, R, f
<1>9. IsFiniteSet(P) /\ Cardinality(P) = Cardinality(R)
  <2>1. f \in Injection(P, R) /\ f \in Surjection(P, R)
    BY <1>7 DEF Bijection
  <2> QED BY <1>8, <2>1, FS_Injection
<1> QED BY <1>1, <1>9 DEF R

\* A month has an average when it has a review.
LEMMA BucketsHaveAverages ==
  ASSUME DashboardInv, NEW m \in Dashboard!Window(day)
  PROVE  (Dashboard!Now.months[m] = None) = (Dashboard!Now.volume[m] = 0)
<1> DEFINE b == Bucket(m)
           S == {p \in b \X (1..5) : p[2] <= reviews[p[1]].rating}
           a == Dashboard!Round(100 * Cardinality(S), Cardinality(b))
<1>1. Dashboard!Now.volume[m] = Cardinality(b)
  BY NowIs, WindowIs
<1>2. Dashboard!Now.months[m] = IF b = {} THEN None ELSE a
  BY NowIs, DashboardCardinality
  DEF Dashboard!RatingTrend, Dashboard!Buckets, Dashboard!Total, Bucket
<1>3. IsFiniteSet(b) /\ Cardinality(b) \in Nat /\ (b = {} <=> Cardinality(b) = 0)
  BY WindowIs, FS_CardinalityType, FS_EmptySet
<1>4. Cardinality(S) \in Nat
  <2>1. IsFiniteSet(1..5)
    <3>1. \A k \in Int : IsFiniteSet(1..k)
      BY FS_Interval
    <3>2. 5 \in Int
      OBVIOUS
    <3> QED BY <3>1, <3>2, Zenon
  <2>2. IsFiniteSet(b \X (1..5))
    BY <1>3, <2>1, FS_Product, Zenon
  <2> HIDE DEF b
  <2>3. S \in SUBSET (b \X (1..5))
    OBVIOUS
  <2> QED BY <2>2, <2>3, FS_Subset, FS_CardinalityType
<1>5. b # {} => a # None
  <2> SUFFICES ASSUME b # {} PROVE a \in Int
    BY NoneIsNoValue
  <2>1. Cardinality(b) \in Nat \ {0}
    BY <1>3
  <2> HIDE DEF b, S
  <2>2. 2 * (100 * Cardinality(S)) + Cardinality(b) \in Int /\ 2 * Cardinality(b) \in Nat \ {0}
    BY <1>4, <2>1
  <2> QED BY <2>2, Z3 DEF Dashboard!Round
<1> HIDE DEF a, b
<1> QED BY <1>1, <1>2, <1>3, <1>5

LEMMA CountsDoAgree == ASSUME DashboardInv PROVE Dashboard!CountsAgree
<1>1. \A n \in 1..MONTHS_BACK :
        Dashboard!VolumeInRange(Dashboard!Now.volume, day, n) =
          Cardinality({r \in Dashboard!Rows(reviews) :
                         Dashboard!Month(reviews[r].on) > Dashboard!Month(day) - n})
  BY RangesCountReviews
<1>2. \A m \in Dashboard!Window(day) :
        (Dashboard!Now.months[m] = None) = (Dashboard!Now.volume[m] = 0)
  BY BucketsHaveAverages
<1> QED BY <1>1, <1>2, TrendIsLastBar, DashboardCardinality DEF Dashboard!CountsAgree

\* Of a quotient and itself there is no difference.
LEMMA NoDifference ==
  ASSUME NEW a \in Nat, NEW b \in Nat, NEW unit \in Nat
  PROVE  Dashboard!Difference(a, b, a, b, unit) = 0
<1> DEFINE n == IF b = 0 THEN 1 ELSE b
           k == n * n
<1>1. n \in Nat \ {0}
  OBVIOUS
<1> HIDE DEF n
<1>2. k \in Nat \ {0}
  BY <1>1
<1>3. unit * (a * n - a * n) = 0
  <2>1. a * n \in Nat
    BY <1>1
  <2> QED BY <2>1
<1>4. Dashboard!Difference(a, b, a, b, unit) = Dashboard!Round(0, k)
  <2>1. Dashboard!Difference(a, b, a, b, unit) = Dashboard!Round(unit * (a * n - a * n), n * n)
    BY DEF Dashboard!Difference, n
  <2> QED BY <1>3, <2>1
<1>5. Dashboard!Round(0, k) = 0
  <2> HIDE DEF k
  <2>1. (2 * 0 + k) \div (2 * k) = 0
    BY <1>2, Z3
  <2> QED BY <2>1 DEF Dashboard!Round
<1> QED BY <1>4, <1>5

\* The score grows with the reviews that are recent.
LEMMA RecentScoreGrows ==
  ASSUME NEW sum \in Nat, NEW n \in 0..Cardinality(Reviews), NEW a \in Nat, NEW x \in Nat, NEW y \in Nat,
         x <= y
  PROVE  /\ Dashboard!Score(sum, n, a, x) <= Dashboard!Score(sum, n, a, y)
         /\ Dashboard!Score(sum, n, a, x) \in Int /\ Dashboard!Score(sum, n, a, y) \in Int
<1>1. CASE n = 0
  BY <1>1 DEF Dashboard!Score
<1>2. CASE n # 0
  <2> DEFINE p == Dashboard!Min({5, x})
             q == Dashboard!Min({5, y})
             v == VolumeScore[n]
             fx == 5500 * sum + v * n + 7500 * a + 1000 * n * p
             fy == 5500 * sum + v * n + 7500 * a + 1000 * n * q
  <2>1. p \in Nat /\ q \in Nat /\ p <= q
    <3>1. p = IF x <= 5 THEN x ELSE 5
      BY DEF Dashboard!Min
    <3>2. q = IF y <= 5 THEN y ELSE 5
      BY DEF Dashboard!Min
    <3> HIDE DEF p, q
    <3> QED BY <3>1, <3>2
  <2>2. n \in Nat \ {0} /\ v \in Nat
    <3>1. Cardinality(Reviews) \in Nat
      BY ReviewsAreFinite
    <3>2. n \in 1..Cardinality(Reviews)
      BY <1>2, <3>1
    <3> QED BY <3>1, <3>2, ScreensType
  <2> HIDE DEF p, q, v
  <2>3. v * n \in Nat /\ n * p \in Nat /\ n * q \in Nat /\ n * p <= n * q
    BY <2>1, <2>2
  <2>4. /\ 1000 * n * p = 1000 * (n * p) /\ 1000 * n * q = 1000 * (n * q)
    BY <2>1, <2>2
  <2>5. fx \in Int /\ fy \in Int /\ fx <= fy
    BY <2>3, <2>4
  <2>6. 500 * n \in Nat \ {0}
    BY <2>2
  <2> HIDE DEF fx, fy
  <2>7. Dashboard!Round(fx, 500 * n) <= Dashboard!Round(fy, 500 * n)
    BY <2>5, <2>6, RoundGrows
  <2>8. \A f \in Int : Dashboard!Round(f, 500 * n) \in Int
    <3> DEFINE k == 500 * n
    <3> HIDE DEF k
    <3>1. \A f \in Int : (2 * f + k) \div (2 * k) \in Int
      <4>1. k \in Nat \ {0}
        BY <2>6 DEF k
      <4> QED BY <4>1, Z3
    <3> QED BY <3>1 DEF Dashboard!Round, k
  <2>9. /\ Dashboard!Score(sum, n, a, x) = Dashboard!Round(fx, 500 * n)
        /\ Dashboard!Score(sum, n, a, y) = Dashboard!Round(fy, 500 * n)
    BY <1>2 DEF Dashboard!Score, fx, fy, p, q, v
  <2> QED BY <2>5, <2>7, <2>8, <2>9
<1> QED BY <1>1, <1>2

\* In a quiet month the two snapshots differ in nothing but what is recent.
LEMMA QuietSnapshots ==
  ASSUME DashboardInv, Dashboard!QuietMonth
  PROVE  /\ Live.count = Prior.count /\ Live.sum = Prior.sum /\ Live.answered = Prior.answered
         /\ Live.count \in 0..Cardinality(Reviews) /\ Live.sum \in Nat /\ Live.answered \in Nat
         /\ Live.score <= Prior.score /\ Live.score \in Int /\ Prior.score \in Int
<1> DEFINE R == Dashboard!Rows(reviews)
           E == Dashboard!PriorAsOf(day)
<1>1. Dashboard!SoFar(reviews, day) = R /\ Dashboard!SoFar(reviews, E) = R /\ R \subseteq Reviews
  <2>1. \A r \in R : Dashboard!Month(reviews[r].on) < Dashboard!Month(day)
    BY DEF Dashboard!QuietMonth, Dashboard!Rows
  <2> QED BY <2>1, RowsAre
<1>2. day \in Nat \ {0} /\ E \in Nat /\ E < day
  BY MonthsAre DEF DashboardInv
<1>3. \A r \in Reviews : replies[r] # None => replies[r] <= E /\ replies[r] <= day
  <2> SUFFICES ASSUME NEW r \in Reviews, replies[r] # None PROVE replies[r] <= E /\ replies[r] <= day
    OBVIOUS
  <2>1. replies[r] \in 1..day
    BY DEF DashboardInv
  <2>2. Dashboard!Month(replies[r]) < Dashboard!Month(day)
    BY DEF Dashboard!QuietMonth
  <2>3. replies[r] <= E
    BY <1>2, <2>1, <2>2, MonthsAre
  <2> QED BY <1>2, <2>1, <2>3
<1>4. Dashboard!Answered(reviews, replies, day) = Dashboard!Answered(reviews, replies, E)
  BY <1>1, <1>3 DEF Dashboard!Answered
<1>5. Dashboard!Recent(reviews, day) \subseteq Dashboard!Recent(reviews, E)
  <2>1. \A r \in R : reviews[r].on \in Nat
    <3>1. \A r \in R : reviews[r].on \in 1..day
      BY RowsAre
    <3> QED BY <3>1
  <2>2. \A r \in R : day - reviews[r].on <= RECENCY_WINDOW_DAYS => E - reviews[r].on <= RECENCY_WINDOW_DAYS
    <3>1. RECENCY_WINDOW_DAYS \in Nat
      BY ScreensType
    <3> HIDE DEF R, E
    <3> QED BY <1>2, <2>1, <3>1
  <2> QED BY <1>1, <2>2 DEF Dashboard!Recent
<1> DEFINE A == Dashboard!Answered(reviews, replies, day)
           sum == Dashboard!Total(reviews, R)
           x == Cardinality(Dashboard!Recent(reviews, day))
           y == Cardinality(Dashboard!Recent(reviews, E))
           n == Cardinality(R)
<1>6. n \in 0..Cardinality(Reviews) /\ Cardinality(A) \in Nat /\ x \in Nat /\ y \in Nat /\ x <= y
  <2>1. A \subseteq Reviews
    BY <1>1 DEF Dashboard!Answered
  <2>2. IsFiniteSet(Dashboard!Recent(reviews, E)) /\ Dashboard!Recent(reviews, E) \subseteq Reviews
    <3>1. Dashboard!Recent(reviews, E) \subseteq Reviews
      BY <1>1 DEF Dashboard!Recent
    <3> QED BY <3>1, ReviewsAreFinite
  <2>3. Cardinality(Dashboard!Recent(reviews, day)) <= Cardinality(Dashboard!Recent(reviews, E))
    BY <1>5, <2>2, FS_Subset
  <2>4. Cardinality(A) \in Nat /\ x \in Nat /\ y \in Nat /\ n \in 0..Cardinality(Reviews)
    <3>1. Dashboard!Recent(reviews, day) \subseteq Reviews
      BY <1>5, <2>2
    <3>2. Cardinality(A) \in 0..Cardinality(Reviews) /\ n \in 0..Cardinality(Reviews)
          /\ x \in 0..Cardinality(Reviews) /\ y \in 0..Cardinality(Reviews)
      BY <1>1, <2>1, <2>2, <3>1, ReviewsAreFinite
    <3>3. Cardinality(Reviews) \in Nat
      BY ReviewsAreFinite
    <3> HIDE DEF A, n, x, y
    <3> QED BY <3>2, <3>3
  <2> QED BY <2>3, <2>4
<1>7. sum \in Nat
  <2> DEFINE S == {p \in R \X (1..5) : p[2] <= reviews[p[1]].rating}
  <2>1. IsFiniteSet(1..5)
    <3>1. \A k \in Int : IsFiniteSet(1..k)
      BY FS_Interval
    <3>2. 5 \in Int
      OBVIOUS
    <3> QED BY <3>1, <3>2, Zenon
  <2>2. IsFiniteSet(R)
    BY <1>1, ReviewsAreFinite
  <2>3. IsFiniteSet(R \X (1..5))
    BY <2>1, <2>2, FS_Product, Zenon
  <2>4. S \in SUBSET (R \X (1..5))
    <3> HIDE DEF R
    <3> QED OBVIOUS
  <2>5. Cardinality(S) \in Nat
    BY <2>3, <2>4, FS_Subset, FS_CardinalityType
  <2> QED BY <2>5, DashboardCardinality DEF Dashboard!Total
<1>8. /\ Live.count = n /\ Prior.count = n /\ Live.sum = sum /\ Prior.sum = sum
      /\ Live.answered = Cardinality(A) /\ Prior.answered = Cardinality(A)
      /\ Live.score = Dashboard!Score(Live.sum, Live.count, Live.answered, x)
      /\ Prior.score = Dashboard!Score(Prior.sum, Prior.count, Prior.answered, y)
  BY <1>1, <1>4, SnapshotIs DEF Live, Prior
<1>9. /\ Live.score = Dashboard!Score(sum, n, Cardinality(A), x)
      /\ Prior.score = Dashboard!Score(sum, n, Cardinality(A), y)
  BY <1>8
<1> HIDE DEF A, sum, n, x, y
<1>10. /\ Dashboard!Score(sum, n, Cardinality(A), x) <= Dashboard!Score(sum, n, Cardinality(A), y)
       /\ Dashboard!Score(sum, n, Cardinality(A), x) \in Int
       /\ Dashboard!Score(sum, n, Cardinality(A), y) \in Int
  BY <1>6, <1>7, RecentScoreGrows
<1> QED BY <1>6, <1>7, <1>8, <1>9, <1>10

LEMMA QuietMonthsShowNoGrowth == ASSUME DashboardInv PROVE Dashboard!QuietMonthShowsNoGrowth
<1> SUFFICES ASSUME Dashboard!QuietMonth
             PROVE  /\ Dashboard!Now.countTrend = 0 /\ Dashboard!Now.ratingTrend = 0
                    /\ Dashboard!Now.rateTrend = 0 /\ Dashboard!Now.scoreTrend <= 0
                    /\ Dashboard!Now.insights \subseteq {"none yet", "steady"}
  BY DEF Dashboard!QuietMonthShowsNoGrowth
<1> DEFINE c == Live.count
           s == Live.sum
           a == Live.answered
<1>1. /\ Prior.count = c /\ Prior.sum = s /\ Prior.answered = a
      /\ Live.score <= Prior.score /\ Live.score \in Int /\ Prior.score \in Int
  BY QuietSnapshots
<1>2. c \in Nat /\ s \in Nat /\ a \in Nat
  <2>1. c \in 0..Cardinality(Reviews) /\ s \in Nat /\ a \in Nat
    BY QuietSnapshots
  <2> QED BY <2>1
<1> HIDE DEF c, s, a
<1>3. Dashboard!Now.countTrend = 0 /\ Dashboard!Now.scoreTrend <= 0
  <2>1. Dashboard!Now.countTrend = c - c
    BY <1>1, NowIs DEF c
  <2>2. Dashboard!Now.scoreTrend = Live.score - Prior.score
    BY NowIs
  <2> QED BY <1>1, <1>2, <2>1, <2>2
<1>4. Dashboard!Now.ratingTrend = 0 /\ Dashboard!Now.rateTrend = 0
  <2>1. /\ Dashboard!Now.ratingTrend = Dashboard!Difference(s, c, s, c, 10)
        /\ Dashboard!Now.rateTrend = Dashboard!Difference(a, c, a, c, 100)
    BY <1>1, NowIs DEF c, s, a
  <2>2. Dashboard!Difference(s, c, s, c, 10) = 0 /\ Dashboard!Difference(a, c, a, c, 100) = 0
    BY <1>2, NoDifference
  <2> QED BY <2>1, <2>2
<1>5. Dashboard!Now.insights = Dashboard!Insights(Live, Prior, Volume, day)
  BY NowIs
<1>. DEFINE told == Dashboard!Now.insights
<1>6. CASE c = 0
  <2>1. Dashboard!Insights(Live, Prior, Volume, day) = {"none yet"}
    BY <1>6, Zenon DEF Dashboard!Insights, c
  <2>2. told = {"none yet"}
    BY <1>5, <2>1
  <2> HIDE DEF told
  <2>3. told \subseteq {"none yet", "steady"}
    BY <2>2
  <2> QED BY <1>3, <1>4, <2>3 DEF told
<1>7. CASE c # 0
  <2>1. Volume[Dashboard!Month(day)] = 0
    BY <1>3, TrendIsLastBar, NowIs
  <2>2. Dashboard!Max({1, c}) = c
    BY <1>2, <1>7 DEF Dashboard!Max
  <2>3. ~(a * Dashboard!Max({1, c}) > a * c)
    <3>1. a * c \in Nat
      BY <1>2
    <3> QED BY <2>2, <3>1
  <2>4. ~(s * c < s * c)
    <3>1. s * c \in Nat
      BY <1>2
    <3> QED BY <3>1
  <2>5. ~(Volume[Dashboard!Month(day)] > 0)
    BY <2>1
  <2>6. ~(Live.answered * Dashboard!Max({1, Prior.count}) > Prior.answered * Live.count)
    BY <1>1, <2>3 DEF a, c
  <2>7. ~(Live.sum * Prior.count < Prior.sum * Live.count)
    BY <1>1, <2>4 DEF s, c
  <2>8. Dashboard!Insights(Live, Prior, Volume, day) = {"steady"}
    BY <1>7, <2>5, <2>6, <2>7, Zenon DEF Dashboard!Insights, c
  <2>9. told = {"steady"}
    BY <1>5, <2>8
  <2> HIDE DEF told
  <2>10. told \subseteq {"none yet", "steady"}
    BY <2>9
  <2> QED BY <1>3, <1>4, <2>10 DEF told
<1> QED BY <1>6, <1>7

-----------------------------------------------------------------------------
(* The pages together, and what they show.                                   *)

PagesInv ==
  /\ others \in 0..MAX_OTHERS
  /\ OwnListFits /\ KindFits /\ ListTrue /\ ListAtRest /\ HereFits /\ ListingInv /\ PicturesInv
  /\ DashboardFits /\ DashboardTrue

LEMMA PagesInitially == ScreensInit => PagesInv
<1> SUFFICES ASSUME ScreensInit PROVE PagesInv
  OBVIOUS
<1>1. /\ List!Init /\ Place!Init /\ Listing!Init /\ Gallery!Init /\ Dashboard!Init
  BY DEF ScreensInit
<1>2. others \in 0..MAX_OTHERS
  BY <1>1, ScreensType DEF List!Init
<1> QED BY <1>1, <1>2, OwnListFitsFirst, ListAgreesFirst, ListingInitially, PicturesInitially,
           NumbersInitially DEF PagesInv

LEMMA OwnListRests ==
  ASSUME OwnListFits, UNCHANGED placeVars, entry = "closed" \/ excuse' = excuse PROVE OwnListFits'
<1>1. UNCHANGED <<entry, place, placeSort, mine, ownReviews, listFetch, submit>>
  BY DEF placeVars
<1> QED BY <1>1, OwnListStays DEF OwnListFits

LEMMA ListRestsTrue ==
  ASSUME ListInv, KindFits, ListTrue, ListAtRest, HereFits, UNCHANGED listVars,
         kind = "closed" \/ UNCHANGED <<here, excuse>>
  PROVE  KindFits' /\ ListTrue' /\ ListAtRest' /\ HereFits'
<1>1. UNCHANGED <<kind, waiting, rows, key, lists, known, calls, fetch, edits>>
  BY DEF listVars
<1>2. KindFits'
  <2>1. ValuesNow' = ValuesNow /\ ListCall' = ListCall /\ List!Keys(kind)' = List!Keys(kind)
    BY <1>1, ListConstants DEF ValuesNow, List!Values, List!Gone, List!Keys
  <2> QED BY <1>1, <2>1 DEF KindFits
<1>3. ListTrue'
  <2>1. CASE kind = "closed"
    BY <1>1, <2>1 DEF ListTrue
  <2>2. CASE UNCHANGED <<here, excuse>>
    <3>1. NoEditRuns' => NoEditRuns
      BY <1>1 DEF NoEditRuns
    <3> QED BY <1>1, <2>2, <3>1, ListTrueStays
  <2> QED BY <2>1, <2>2
<1>5. List!NoFetch' = List!NoFetch
  BY DEF List!NoFetch, List!Gone
<1>4. ListAtRest'
  BY <1>1, <1>5, ListConstants DEF ListAtRest
<1>6. HereFits'
  <2>1. CASE kind = "closed"
    BY <1>1, <1>5, <2>1, CallTypes DEF HereFits, ListAtRest, ListInv, ListData
  <2>2. CASE UNCHANGED <<here, excuse>>
    BY <1>1, <1>5, <2>2 DEF HereFits
  <2> QED BY <2>1, <2>2
<1> QED BY <1>2, <1>3, <1>4, <1>6

LEMMA ListingOthers ==
  ASSUME others \in 0..MAX_OTHERS, Listing!Next PROVE others' \in 0..MAX_OTHERS
<1>1. others' = others \/ (others < MAX_OTHERS /\ others' = others + 1)
  BY DEF Listing!Next, Listing!Open, Listing!ReadPlace, Listing!Seed, Listing!Leave, Listing!Return,
     Listing!Patch, Listing!PhotosChanged, Listing!Elsewhere, Listing!Save, Listing!PlaceUpdated,
     Listing!HoursSet, Listing!Reread, Listing!SaveEnds, Listing!SaveFails
<1> QED BY <1>1, ScreensType

\* A page that is open makes the others rest, and they say nothing.
LEMMA PagesKeep ==
  ASSUME ScreensInv, StepsInv, PagesInv, [ScreensNext]_screensVars
  PROVE  PagesInv'
<1>0. /\ excuse \in BOOLEAN /\ others \in Nat /\ others \in 0..MAX_OTHERS
      /\ here => kind # "closed" \/ owner # "closed"
      /\ GalleryInv /\ PlaceInv /\ ListInv /\ DashboardInv
  BY FormFacts DEF ScreensInv, StepsInv, SharedInv, PagesInv
<1>1. CASE ListStep
  <2>1. /\ List!Next
        /\ entry = "closed" /\ listingPage = "closed" /\ owner = "closed" /\ dashboardView = "closed"
        /\ UNCHANGED <<placeVars, listingVars, galleryVars, dashboardVars>>
    BY <1>1 DEF ListStep, Only, Pages
  <2>2. KindFits' /\ ListTrue' /\ HereFits' /\ others' \in 0..MAX_OTHERS
    BY <1>0, <2>1, ListGoesOnTrue DEF PagesInv, ListGoesOn
  <2>3. ListAtRest'
    BY <1>0, <2>1, ListRestsUntilOpen DEF PagesInv, ListAtRest
  <2> QED BY <2>1, <2>2, <2>3, OwnListRests, ListingRests, PicturesRest, NumbersRest DEF PagesInv
<1>2. CASE PlaceStep
  <2>1. /\ Place!Next
        /\ kind = "closed" /\ listingPage = "closed" /\ owner = "closed" /\ dashboardView = "closed"
        /\ UNCHANGED <<here, others, listVars, listingVars, galleryVars, dashboardVars>>
    BY <1>2 DEF PlaceStep, Only, Pages
  <2>2. OwnListFits'
    BY <1>0, <2>1, OwnListKeeps DEF PagesInv
  <2> QED BY <1>0, <2>1, <2>2, ListRestsTrue, ListingRests, PicturesRest, NumbersRest DEF PagesInv
<1>3. CASE ListingStep
  <2>1. /\ Listing!Next
        /\ kind = "closed" /\ entry = "closed" /\ owner = "closed" /\ dashboardView = "closed"
        /\ UNCHANGED <<here, listVars, placeVars, galleryVars, dashboardVars>>
    BY <1>3 DEF ListingStep, Only, Pages
  <2>2. ListingInv' /\ others' \in 0..MAX_OTHERS
    BY <1>0, <2>1, ListingKeeps, ListingOthers DEF PagesInv
  <2> QED BY <1>0, <2>1, <2>2, ListRestsTrue, OwnListRests, PicturesRest, NumbersRest DEF PagesInv
<1>4. CASE GalleryStep
  <2>1. /\ Gallery!Next
        /\ kind = "closed" /\ entry = "closed" /\ listingPage = "closed" /\ dashboardView = "closed"
        /\ UNCHANGED <<listVars, placeVars, listingVars, dashboardVars>>
    BY <1>4 DEF GalleryStep, Only, Pages
  <2>2. PicturesInv' /\ others' \in 0..MAX_OTHERS
    BY <1>0, <2>1, PicturesKeep DEF PagesInv
  <2> QED BY <1>0, <2>1, <2>2, ListRestsTrue, OwnListRests, ListingRests, NumbersRest DEF PagesInv
<1>5. CASE DashboardStep
  <2>1. /\ Dashboard!Next
        /\ kind = "closed" /\ entry = "closed" /\ listingPage = "closed" /\ owner = "closed"
        /\ UNCHANGED <<here, others, listVars, placeVars, listingVars, galleryVars>>
    BY <1>5 DEF DashboardStep, Only, Pages
  <2>2. DashboardFits' /\ DashboardTrue'
    BY <1>0, <2>1, NumbersKeep DEF PagesInv
  <2> QED BY <1>0, <2>1, <2>2, ListRestsTrue, OwnListRests, ListingRests, PicturesRest DEF PagesInv
<1>6. CASE LocalStep \/ SignUpStep \/ LayoutStep \/ UNCHANGED screensVars
  <2>1. /\ UNCHANGED <<here, others, listVars, placeVars, listingVars, galleryVars, dashboardVars>>
        /\ \/ excuse' = excuse
           \/ /\ kind = "closed" /\ entry = "closed" /\ listingPage = "closed" /\ owner = "closed"
              /\ dashboardView = "closed"
    BY <1>6 DEF LocalStep, SignUpStep, LayoutStep, screensVars, Only, Pages
  <2> QED BY <1>0, <2>1, ListRestsTrue, OwnListRests, ListingRests, PicturesRest, NumbersRest
          DEF PagesInv
<1> QED BY <1>1, <1>2, <1>3, <1>4, <1>5, <1>6 DEF ScreensNext

\* What the pages keep true of themselves, in every state.
THEOREM PagesInvariant == ScreensSpec => []PagesInv
BY PagesInitially, PagesKeep, ScreensInvariant, StepsInvariant, PTL DEF ScreensSpec

\* A page shows what the server holds once its handlers and refetches have ended,
\* in whatever order: the lists (MyReviewsPage.tsx, SavedPage.tsx and others), the
\* visitor's own review (PlaceDetailPage.tsx), a listing with nothing left to save
\* (MyListingPage.tsx) and the galleries (useMediaUpload.ts).  The dashboard's two
\* ways of counting the reviews that wait agree, as do the trend and the chart, and
\* a quiet month shows no growth (businessDashboardMath.ts).
THEOREM PagesAlwaysAgree == ScreensSpec => []PagesAgree
<1>1. ASSUME ScreensInv, StepsInv, PagesInv PROVE PagesAgree
  <2>1. /\ excuse \in BOOLEAN /\ here \in BOOLEAN /\ others \in 0..MAX_OTHERS
        /\ GalleryInv /\ PlaceInv /\ LocalInv /\ ListInv /\ DashboardInv
    BY <1>1, FormFacts DEF ScreensInv, StepsInv, SharedInv, PagesInv
  <2>2. Local!TypeOK /\ Place!TypeOK /\ Place!MyReviewShows
    BY <1>1, <2>1, LocalAgrees, PlaceAgrees DEF PagesInv
  <2>3. List!TypeOK /\ List!ListShowsOwnEdits
    BY <1>1, <2>1, ListAgrees DEF PagesInv
  <2>4. Listing!TypeOK /\ Listing!CleanMeansSaved
    BY <1>1, <2>1, ListingAgrees DEF PagesInv
  <2>5. Gallery!TypeOK /\ Gallery!PicturesShown
    BY <1>1, <2>1, PicturesAgree DEF PagesInv
  <2>6. Dashboard!TypeOK /\ Dashboard!PendingMatchesList
    BY <1>1, <2>1, PendingAgrees DEF PagesInv
  <2> QED BY <2>1, <2>2, <2>3, <2>4, <2>5, <2>6, CountsDoAgree, QuietMonthsShowNoGrowth DEF PagesAgree
<1> QED BY <1>1, ScreensInvariant, StepsInvariant, PagesInvariant, PTL
=============================================================================
