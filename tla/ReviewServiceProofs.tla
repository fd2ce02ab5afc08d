------------------------- MODULE ReviewServiceProofs -------------------------
(***************************************************************************)
(* Theorems of ReviewService, for any users, places, requests and ratings. *)
(***************************************************************************)
EXTENDS ReviewService, FiniteSetTheorems, TLAPS

-----------------------------------------------------------------------------
(* Counts and averages are numbers because tables are finite. *)

Finite == /\ IsFiniteSet(reviews)
          /\ \A r \in Requests : IsFiniteSet(wrote[r])

LEMMA SmallSetsFinite == IsFiniteSet({}) /\ \A x : IsFiniteSet({x})
BY FS_EmptySet, FS_Singleton

LEMMA StarsType ==
  ASSUME NEW rows, IsFiniteSet(rows), NEW k
  PROVE  Stars(rows, k) \in Nat
<1>1. IsFiniteSet({x \in rows : x.rating = k})
  BY FS_Subset, {x \in rows : x.rating = k} \subseteq rows
<1> QED BY <1>1, FS_CardinalityType DEF Stars

LEMMA RoundedType ==
  ASSUME NEW s \in Nat, NEW n \in Nat, n # 0
  PROVE  (20 * s + n) \div (2 * n) \in Nat
<1>1. 20 * s + n \in Nat /\ 2 * n \in Nat /\ 2 * n > 0
  OBVIOUS
<1>2. \A a \in Nat : \A b \in Nat : b > 0 => a \div b \in Nat
  OBVIOUS
<1> QED BY <1>1, <1>2

LEMMA TenthsType ==
  ASSUME NEW rows, IsFiniteSet(rows)
  PROVE  Tenths(rows) \in Nat /\ Cardinality(rows) \in Nat
<1>1. Cardinality(rows) \in Nat
  BY FS_CardinalityType
<1>2. rows # {} => Cardinality(rows) # 0
  BY FS_EmptySet
<1>3. Sum(rows) \in Nat
  <2>1. /\ Stars(rows, 1) \in Nat /\ Stars(rows, 2) \in Nat
        /\ Stars(rows, 3) \in Nat /\ Stars(rows, 4) \in Nat
        /\ Stars(rows, 5) \in Nat
    BY StarsType
  <2> QED BY <2>1 DEF Sum
<1> QED BY <1>1, <1>2, <1>3, RoundedType DEF Tenths

LEMMA SeenFinite ==
  ASSUME Finite, NEW r \in Requests
  PROVE  /\ IsFiniteSet(Seen(r))
         /\ \A p : IsFiniteSet(Live(Seen(r), p))
<1>1. IsFiniteSet({x \in reviews : \A w \in wrote[r] : w.id # x.id})
  BY FS_Subset, {x \in reviews : \A w \in wrote[r] : w.id # x.id} \subseteq reviews
     DEF Finite
<1>2. IsFiniteSet(Seen(r))
  BY <1>1, FS_Union DEF Finite, Seen
<1>3. ASSUME NEW p PROVE IsFiniteSet(Live(Seen(r), p))
  BY <1>2, FS_Subset, Live(Seen(r), p) \subseteq Seen(r) DEF Live
<1> QED BY <1>2, <1>3

-----------------------------------------------------------------------------
(* Type correctness.  Finite needs RowsCommitted: an edit writes one row      *)
(* because the table has one version of it.                                   *)

LEMMA InitTypes == Init => TypeOK /\ Finite
<1> SUFFICES ASSUME Init PROVE TypeOK /\ Finite
  OBVIOUS
<1>1. TypeOK
  BY DEF Init, TypeOK, Stages, Row, Notification
<1>2. Finite
  BY FS_EmptySet DEF Init, Finite
<1> QED BY <1>1, <1>2

LEMMA ModifyWritesOne ==
  ASSUME TypeOK, RowsCommitted, NEW r \in Requests, Modify(r)
  PROVE  /\ wrote'[r] = {} \/ \E w : wrote'[r] = {w}
         /\ wrote'[r] \subseteq Row
<1> DEFINE targets == {y \in reviews : y.id = call[r].target /\ y.live}
<1>1. wrote'[r] = {Changed(r, x) : x \in targets}
  BY DEF Modify, TypeOK
<1>2. \A x, y \in targets : x = y
  BY DEF RowsCommitted
<1>3. \A x \in targets : Changed(r, x) \in Row
  <2>1. call[r].op = "edit" => call[r].rating \in Ratings \cup {0}
    BY DEF TypeOK, Call, Create, Edit, Remove
  <2>2. call[r].op \in {"edit", "delete"}
    BY DEF Modify, TypeOK, Call, Create, Edit, Remove
  <2> QED BY <2>1, <2>2 DEF TypeOK, Changed, Row
<1> QED BY <1>1, <1>2, <1>3

LEMMA EnterType ==
  ASSUME NEW r \in Requests, met \in [Requests -> BOOLEAN], Enter(r)
  PROVE  met' \in [Requests -> BOOLEAN]
<1> DEFINE others == {q \in Requests \ {r} :
                        pc[q] \in InTransaction /\ PlaceOf(q) = PlaceOf(r)}
           m(q) == IF q = r THEN others # {} ELSE met[q] \/ q \in others
<1>1. met' = [q \in Requests |-> m(q)]
  BY DEF Enter
<1>2. \A q \in Requests : m(q) \in BOOLEAN
  OBVIOUS
<1> HIDE DEF m
<1> QED BY <1>1, <1>2

LEMMA TypesStep ==
  ASSUME TypeOK, Finite, RowsCommitted, CreatesOnTrack, [Next]_vars
  PROVE  TypeOK' /\ Finite'
<1> USE DEF database
<1>1. ASSUME NEW r \in Requests, StartCreate(r) PROVE TypeOK' /\ Finite'
  BY <1>1 DEF StartCreate, TypeOK, Finite, Stages, Ended
<1>2. ASSUME NEW r \in Requests, StartChange(r) PROVE TypeOK' /\ Finite'
  BY <1>2 DEF StartChange, TypeOK, Finite, Stages, Ended
<1>3. ASSUME NEW r \in Requests, CheckExisting(r) PROVE TypeOK' /\ Finite'
  BY <1>3 DEF CheckExisting, TypeOK, Finite, Stages, Ended
<1>4. ASSUME NEW r \in Requests, Insert(r) PROVE TypeOK' /\ Finite'
  <2> DEFINE new == [id |-> r, place |-> call[r].place, by |-> call[r].user,
                     rating |-> call[r].rating, live |-> TRUE]
  <2>1. new \in Row
    BY <1>4 DEF Insert, TypeOK, Call, Create, Edit, Remove, Row
  <2>2. met' \in [Requests -> BOOLEAN]
    BY <1>4, EnterType DEF Insert, TypeOK
  <2>3. /\ pc' \in [Requests -> Stages]
        /\ wrote' = wrote \/ wrote' = [wrote EXCEPT ![r] = {new}]
    BY <1>4 DEF Insert, TypeOK, Stages, InTransaction, Ended
  <2> HIDE DEF new
  <2>4. TypeOK'
    BY <1>4, <2>1, <2>2, <2>3 DEF Insert, TypeOK
  <2>5. Finite'
    <3>1. IsFiniteSet({new})
      BY SmallSetsFinite
    <3> QED BY <1>4, <2>3, <3>1 DEF Insert, Finite, TypeOK
  <2> QED BY <2>4, <2>5
<1>5. ASSUME NEW r \in Requests, Modify(r) PROVE TypeOK' /\ Finite'
  <2>1. TypeOK'
    <3>1. wrote'[r] \subseteq Row
      BY <1>5, ModifyWritesOne
    <3>2. met' \in [Requests -> BOOLEAN]
      BY <1>5, EnterType DEF Modify, TypeOK
    <3>3. wrote' \in [Requests -> SUBSET Row]
      BY <1>5, <3>1 DEF Modify, TypeOK
    <3> QED
      BY <1>5, <3>2, <3>3 DEF Modify, TypeOK, Stages, InTransaction
  <2>2. IsFiniteSet(wrote'[r])
    <3>1. wrote'[r] = {} \/ \E w : wrote'[r] = {w}
      BY <1>5, ModifyWritesOne
    <3> QED BY <3>1, SmallSetsFinite
  <2>3. Finite'
    BY <1>5, <2>2 DEF Modify, Finite, TypeOK
  <2> QED BY <2>1, <2>3
<1>6. ASSUME NEW r \in Requests, Count(r) PROVE TypeOK' /\ Finite'
  <2>1. Cardinality(Live(Seen(r), PlaceOf(r))) \in Nat
    BY SeenFinite, FS_CardinalityType
  <2> QED BY <1>6, <2>1 DEF Count, Rated, TypeOK, Finite, Stages, InTransaction
<1>7. ASSUME NEW r \in Requests, Average(r) PROVE TypeOK' /\ Finite'
  <2>1. Tenths(Live(Seen(r), PlaceOf(r))) \in Nat
    BY SeenFinite, TenthsType
  <2> QED BY <1>7, <2>1 DEF Average, Rated, TypeOK, Finite, Stages, InTransaction
<1>8. ASSUME NEW r \in Requests, Store(r) PROVE TypeOK' /\ Finite'
  BY <1>8 DEF Store, TypeOK, Finite, Stages, InTransaction
<1>9. ASSUME NEW r \in Requests, Commit(r) PROVE TypeOK' /\ Finite'
  <2>1. Seen(r) \subseteq Row /\ IsFiniteSet(Seen(r))
    BY SeenFinite DEF Seen, TypeOK
  <2>2. TypeOK'
    BY <1>9, <2>1 DEF Commit, TypeOK, Stages, Ended
  <2>3. Finite'
    BY <1>9, <2>1, SmallSetsFinite DEF Commit, Finite, TypeOK
  <2> QED BY <2>2, <2>3
<1>10. ASSUME NEW r \in Requests, TellOwner(r) PROVE TypeOK' /\ Finite'
  <2>1. call[r] \in Create
    BY <1>10 DEF TellOwner, CreatesOnTrack, TypeOK, Call, Edit, Remove
  <2>2. Owner[call[r].place] \in Users
    BY <2>1, ReviewConstants DEF Create
  <2> QED
    BY <1>10, <2>2 DEF TellOwner, TypeOK, Finite, Stages, Notification
<1>11. ASSUME NEW r \in Requests, TellWatchers(r) PROVE TypeOK' /\ Finite'
  <2>1. call[r] \in Create
    BY <1>11 DEF TellWatchers, CreatesOnTrack, TypeOK, Call, Edit, Remove
  <2>2. Watchers(r) \subseteq Users
    BY <2>1, ReviewConstants DEF Create, Watchers, Live, TypeOK, Row
  <2> QED
    BY <1>11, <2>2 DEF TellWatchers, TypeOK, Finite, Stages, Ended, Notification
<1>12. ASSUME NEW r \in Requests, Fail(r) PROVE TypeOK' /\ Finite'
  BY <1>12, SmallSetsFinite DEF Fail, TypeOK, Finite, Stages, Ended
<1>13. ASSUME NEW p \in Places, DeletePlace(p) PROVE TypeOK' /\ Finite'
  BY <1>13 DEF DeletePlace, TypeOK, Finite
<1>14. CASE UNCHANGED vars
  BY <1>14 DEF vars, TypeOK, Finite
<1> QED
  BY <1>1, <1>2, <1>3, <1>4, <1>5, <1>6, <1>7, <1>8, <1>9, <1>10, <1>11,
     <1>12, <1>13, <1>14 DEF Next, Progress, AllAnswered

-----------------------------------------------------------------------------
(* LockDiscipline: every step leaves the rows, the locks and the inbox fit.   *)

LEMMA InitLocks == Init => LockDiscipline
BY DEF Init, LockDiscipline, RowsCommitted, FoundRows, WritesAllowed,
   KeysLocked, CreatesOnTrack, OneLiveReview, NotificationsFit, InTransaction

LEMMA RowIds == TypeOK => \A x \in reviews : x.id \in Requests
BY DEF TypeOK, Row

\* Steps that change no row, no lock and no notification.
LEMMA QuietStep ==
  ASSUME TypeOK, LockDiscipline, NEW r \in Requests,
         StartCreate(r) \/ CheckExisting(r) \/ Count(r) \/ Average(r) \/ Store(r)
  PROVE  LockDiscipline'
<1> USE DEF database, LockDiscipline
<1> DEFINE Moves ==
      \/ pc[r] = "new" /\ call[r].op = "create" /\ pc'[r] = "error"
      \/ pc[r] = "new" /\ call[r].op = "create" /\ pc'[r] = "check"
         /\ call[r].user # Owner[call[r].place]
      \/ pc[r] = "check" /\ pc'[r] \in {"write", "error"}
      \/ pc[r] \in InTransaction /\ pc'[r] \in InTransaction
<1>1. /\ UNCHANGED <<call, found, reviews, wrote, inbox>>
      /\ \A q \in Requests \ {r} : pc'[q] = pc[q]
      /\ Moves
  <2>1. CASE StartCreate(r) BY <2>1 DEF StartCreate, TypeOK
  <2>2. CASE CheckExisting(r) BY <2>2 DEF CheckExisting, TypeOK
  <2>3. CASE Count(r) BY <2>3 DEF Count, TypeOK, InTransaction
  <2>4. CASE Average(r) BY <2>4 DEF Average, TypeOK, InTransaction
  <2>5. CASE Store(r) BY <2>5 DEF Store, TypeOK, InTransaction
  <2> QED BY <2>1, <2>2, <2>3, <2>4, <2>5
<1>2. RowsCommitted'
  BY <1>1, RowIds DEF RowsCommitted, AsCalled, InTransaction, Ended
<1>3. FoundRows'
  BY <1>1 DEF FoundRows, AsCalled, CreatesOnTrack, InTransaction
<1>4. WritesAllowed'
  BY <1>1 DEF WritesAllowed, AsCalled, LiveKey, Live, InTransaction
<1>5. KeysLocked' /\ OneLiveReview' /\ NotificationsFit'
  BY <1>1 DEF KeysLocked, OneLiveReview, NotificationsFit
<1>6. CreatesOnTrack'
  BY <1>1 DEF CreatesOnTrack, InTransaction
<1> QED BY <1>2, <1>3, <1>4, <1>5, <1>6

LEMMA StartChangeStep ==
  ASSUME TypeOK, LockDiscipline, NEW r \in Requests, StartChange(r)
  PROVE  LockDiscipline'
<1> USE DEF database, LockDiscipline
<1> DEFINE mine == {x \in reviews : x.id = call[r].target /\ x.live
                                      /\ x.by = call[r].user}
<1>1. /\ UNCHANGED <<call, reviews, wrote, inbox>>
      /\ \A q \in Requests \ {r} : pc'[q] = pc[q] /\ found'[q] = found[q]
      /\ pc[r] = "new" /\ call[r].op # "create"
      /\ found'[r] = mine
      /\ pc'[r] = IF mine = {} THEN "error" ELSE "write"
  BY DEF StartChange, TypeOK
<1>2. RowsCommitted'
  BY <1>1, RowIds DEF RowsCommitted, AsCalled, InTransaction, Ended
<1>3. FoundRows'
  <2> SUFFICES ASSUME NEW q \in Requests, call[q].op # "create"
               PROVE  /\ pc'[q] \in {"write"} \cup InTransaction => found'[q] # {}
                      /\ \A x \in found'[q] : AsCalled(x)' /\ x.id = call[q].target
    BY <1>1 DEF FoundRows
  <2>1. CASE q = r
    BY <1>1, <2>1 DEF RowsCommitted, AsCalled, InTransaction
  <2>2. CASE q # r
    BY <1>1, <2>2 DEF FoundRows, AsCalled
  <2> QED BY <2>1, <2>2
<1>4. WritesAllowed'
  BY <1>1 DEF WritesAllowed, AsCalled, LiveKey, Live, InTransaction
<1>5. KeysLocked' /\ OneLiveReview' /\ NotificationsFit'
  BY <1>1 DEF KeysLocked, OneLiveReview, NotificationsFit
<1>6. CreatesOnTrack'
  BY <1>1 DEF CreatesOnTrack, InTransaction
<1> QED BY <1>2, <1>3, <1>4, <1>5, <1>6

\* The index lets a create in only when nobody holds its key.
LEMMA InsertStep ==
  ASSUME TypeOK, LockDiscipline, NEW r \in Requests, Insert(r)
  PROVE  LockDiscipline'
<1> USE DEF LockDiscipline
<1> DEFINE new == [id |-> r, place |-> call[r].place, by |-> call[r].user,
                   rating |-> call[r].rating, live |-> TRUE]
<1>1. /\ UNCHANGED <<call, found, reviews, inbox>>
      /\ \A q \in Requests \ {r} : pc'[q] = pc[q] /\ wrote'[q] = wrote[q]
      /\ pc[r] = "write" /\ call[r].op = "create"
      /\ ~KeyPending(r, call[r].place, call[r].user)
      /\ \/ /\ pc'[r] = "error" /\ wrote'[r] = wrote[r]
         \/ /\ LiveKey(reviews, call[r].place, call[r].user) = {}
            /\ pc'[r] = "count" /\ wrote'[r] = {new}
  BY DEF Insert, TypeOK
<1>2. RowsCommitted'
  BY <1>1, RowIds DEF RowsCommitted, AsCalled, InTransaction, Ended
<1>3. FoundRows'
  BY <1>1 DEF FoundRows, AsCalled, CreatesOnTrack, InTransaction
<1>4. wrote[r] = {}
  BY <1>1 DEF WritesAllowed, InTransaction
<1>5. WritesAllowed'
  <2> SUFFICES ASSUME NEW q \in Requests
               PROVE  /\ wrote'[q] # {} => pc'[q] \in InTransaction
                      /\ \A v, w \in wrote'[q] : v = w
                      /\ \A w \in wrote'[q] :
                           /\ AsCalled(w)'
                           /\ call[q].op = "create" =>
                                w.id = q /\ w.live /\ LiveKey(reviews, w.place, w.by) = {}
                           /\ call[q].op # "create" =>
                                /\ w.id = call[q].target
                                /\ \E x \in reviews : x.id = w.id /\ x.live
    BY <1>1 DEF WritesAllowed, LiveKey, Live
  <2>1. CASE q = r
    <3>1. ASSUME NEW w \in wrote'[r]
          PROVE  /\ w = new /\ w.id = r /\ w.live /\ pc'[r] = "count"
                 /\ w.place = call[r].place /\ w.by = call[r].user
      BY <1>1, <1>4
    <3>2. ASSUME NEW w \in wrote'[r] PROVE AsCalled(w)'
      BY <1>1, <3>1 DEF CreatesOnTrack, AsCalled
    <3>3. ASSUME NEW w \in wrote'[r] PROVE LiveKey(reviews, w.place, w.by) = {}
      BY <1>1, <1>4, <3>1
    <3> QED BY <1>1, <2>1, <3>1, <3>2, <3>3 DEF InTransaction
  <2>2. CASE q # r
    BY <1>1, <2>2 DEF WritesAllowed, AsCalled
  <2> QED BY <2>1, <2>2
<1>6. KeysLocked'
  BY <1>1, <1>4 DEF KeysLocked, KeyPending
<1>7. OneLiveReview' /\ NotificationsFit'
  BY <1>1 DEF OneLiveReview, NotificationsFit
<1>8. CreatesOnTrack'
  BY <1>1 DEF CreatesOnTrack, InTransaction
<1> QED BY <1>2, <1>3, <1>5, <1>6, <1>7, <1>8

\* An edit or a delete holds the row lock, so nobody else holds its key.
LEMMA ModifyStep ==
  ASSUME TypeOK, LockDiscipline, NEW r \in Requests, Modify(r)
  PROVE  LockDiscipline'
<1> USE DEF LockDiscipline
<1> DEFINE targets == {y \in reviews : y.id = call[r].target /\ y.live}
<1>1. /\ UNCHANGED <<call, found, reviews, inbox>>
      /\ \A q \in Requests \ {r} : pc'[q] = pc[q] /\ wrote'[q] = wrote[q]
      /\ pc[r] = "write" /\ pc'[r] = "count" /\ call[r].op # "create"
      /\ \A x \in found[r] : ~LockedByOther(r, x)
      /\ wrote'[r] = {Changed(r, x) : x \in targets}
  BY DEF Modify, TypeOK
<1>2. ASSUME NEW w \in wrote'[r]
      PROVE  \E x \in targets : w.id = x.id /\ w.place = x.place /\ w.by = x.by
  BY <1>1 DEF Changed
<1>3. \A v, w \in wrote'[r] : v = w
  <2>1. \A x, y \in targets : x = y
    BY DEF RowsCommitted
  <2> QED BY <1>1, <2>1
<1>4. RowsCommitted'
  BY <1>1, RowIds DEF RowsCommitted, AsCalled, InTransaction, Ended
<1>5. FoundRows'
  BY <1>1 DEF FoundRows, AsCalled, InTransaction
<1>6. WritesAllowed'
  <2> SUFFICES ASSUME NEW q \in Requests
               PROVE  /\ wrote'[q] # {} => pc'[q] \in InTransaction
                      /\ \A v, w \in wrote'[q] : v = w
                      /\ \A w \in wrote'[q] :
                           /\ AsCalled(w)'
                           /\ call[q].op = "create" =>
                                w.id = q /\ w.live /\ LiveKey(reviews, w.place, w.by) = {}
                           /\ call[q].op # "create" =>
                                /\ w.id = call[q].target
                                /\ \E x \in reviews : x.id = w.id /\ x.live
    BY <1>1 DEF WritesAllowed, LiveKey, Live
  <2>1. CASE q = r
    <3>1. ASSUME NEW w \in wrote'[r] PROVE AsCalled(w)'
      BY <1>1, <1>2 DEF RowsCommitted, AsCalled
    <3> QED BY <1>1, <1>2, <1>3, <2>1, <3>1 DEF InTransaction
  <2>2. CASE q # r
    BY <1>1, <2>2 DEF WritesAllowed, AsCalled
  <2> QED BY <2>1, <2>2
<1>7. KeysLocked'
  <2>1. ASSUME NEW q \in Requests \ {r}, NEW v \in wrote[q], NEW x \in targets,
               v.place = x.place, v.by = x.by
        PROVE  FALSE
    <3>1. v.id # x.id
      <4>1. PICK y \in found[r] : y.id = x.id
        BY <1>1 DEF FoundRows
      <4> QED BY <1>1, <4>1 DEF LockedByOther
    <3>2. CASE call[q].op = "create"
      <4>1. x \in LiveKey(reviews, v.place, v.by)
        BY <2>1 DEF LiveKey, Live
      <4> QED BY <3>2, <4>1 DEF WritesAllowed
    <3>3. CASE call[q].op # "create"
      <4>1. PICK y \in reviews : y.id = v.id /\ y.live
        BY <3>3 DEF WritesAllowed
      <4>2. y.place = v.place /\ y.by = v.by
        BY <4>1 DEF WritesAllowed, RowsCommitted, AsCalled
      <4> QED BY <2>1, <3>1, <4>1, <4>2 DEF OneLiveReview
    <3> QED BY <3>2, <3>3
  <2> QED BY <1>1, <1>2, <2>1 DEF KeysLocked
<1>8. OneLiveReview' /\ NotificationsFit'
  BY <1>1 DEF OneLiveReview, NotificationsFit
<1>9. CreatesOnTrack'
  BY <1>1 DEF CreatesOnTrack, InTransaction
<1> QED BY <1>4, <1>5, <1>6, <1>7, <1>8, <1>9

\* What a commit does to the table: the row it wrote replaces the version of
\* that row, or is new.
LEMMA CommitRows ==
  ASSUME TypeOK, LockDiscipline, NEW r \in Requests, Commit(r)
  PROVE  /\ \A x \in reviews' :
              \/ x \in reviews /\ (\A w \in wrote[r] : w.id # x.id)
              \/ x \in wrote[r]
         /\ \A x \in reviews : \E y \in reviews' :
              y.id = x.id /\ y.place = x.place /\ y.by = x.by
         /\ \A x \in reviews' : AsCalled(x) /\ x.id \in Requests
         /\ \A x, y \in reviews' : x.id = y.id => x = y
<1> USE DEF LockDiscipline
<1>1. reviews' = Seen(r)
  BY DEF Commit
<1>2. \A w \in wrote[r] : AsCalled(w) /\ w.id \in Requests
  BY DEF WritesAllowed, TypeOK, Row
<1>3. \A x \in reviews : AsCalled(x) /\ x.id \in Requests
  BY RowIds DEF RowsCommitted
<1>4. ASSUME NEW x \in reviews
      PROVE  \E y \in reviews' : y.id = x.id /\ y.place = x.place /\ y.by = x.by
  <2>1. CASE \E w \in wrote[r] : w.id = x.id
    BY <1>1, <1>2, <1>3, <2>1 DEF Seen, AsCalled
  <2>2. CASE \A w \in wrote[r] : w.id # x.id
    BY <1>1, <2>2 DEF Seen
  <2> QED BY <2>1, <2>2
<1>5. \A x, y \in reviews' : x.id = y.id => x = y
  BY <1>1 DEF Seen, RowsCommitted, WritesAllowed
<1> QED BY <1>1, <1>2, <1>3, <1>4, <1>5 DEF Seen

LEMMA CommitStep ==
  ASSUME TypeOK, LockDiscipline, NEW r \in Requests, Commit(r)
  PROVE  LockDiscipline'
<1> USE DEF LockDiscipline
<1>1. /\ UNCHANGED <<call, found, inbox>>
      /\ \A q \in Requests \ {r} : pc'[q] = pc[q] /\ wrote'[q] = wrote[q]
      /\ pc[r] = "commit" /\ wrote'[r] = {}
      /\ \/ pc'[r] = "error"
         \/ pc'[r] = "tell" /\ call[r].op = "create"
         \/ pc'[r] = "ok" /\ call[r].op # "create"
  BY DEF Commit, TypeOK
<1>2. RowsCommitted'
  <2>1. ASSUME NEW x \in reviews'
        PROVE  AsCalled(x)' /\ pc'[x.id] \in {"tell", "watch"} \cup Ended
    <3>1. AsCalled(x)'
      BY <1>1, CommitRows DEF AsCalled
    <3>2. CASE x \in reviews
      BY <1>1, <3>1, <3>2, RowIds DEF RowsCommitted, Ended
    <3>3. CASE x \in wrote[r] /\ call[r].op = "create"
      BY <1>1, <3>1, <3>3 DEF WritesAllowed, Ended
    <3>4. CASE x \in wrote[r] /\ call[r].op # "create"
      <4>1. PICK y \in reviews : y.id = x.id
        BY <3>4 DEF WritesAllowed
      <4> QED BY <1>1, <3>1, <4>1, RowIds DEF RowsCommitted, Ended
    <3> QED BY <3>1, <3>2, <3>3, <3>4, CommitRows
  <2> QED BY <2>1, CommitRows DEF RowsCommitted
<1>3. FoundRows'
  BY <1>1 DEF FoundRows, AsCalled, InTransaction
<1>4. OneLiveReview'
  <2>1. ASSUME NEW x \in reviews, NEW w \in wrote[r], x.id # w.id, x.live, w.live,
               x.place = w.place, x.by = w.by
        PROVE  FALSE
    <3>1. CASE call[r].op = "create"
      <4>1. x \in LiveKey(reviews, w.place, w.by)
        BY <2>1 DEF LiveKey, Live
      <4> QED BY <3>1, <4>1 DEF WritesAllowed
    <3>2. CASE call[r].op # "create"
      <4>1. PICK y \in reviews : y.id = w.id /\ y.live
        BY <3>2 DEF WritesAllowed
      <4>2. y.place = w.place /\ y.by = w.by
        BY <4>1 DEF WritesAllowed, RowsCommitted, AsCalled
      <4> QED BY <2>1, <4>1, <4>2 DEF OneLiveReview
    <3> QED BY <3>1, <3>2
  <2>2. ASSUME NEW x \in reviews', NEW y \in reviews', x.live, y.live,
               x.place = y.place, x.by = y.by
        PROVE  x = y
    <3>1. CASE x \in reviews /\ y \in reviews
      BY <2>2, <3>1 DEF OneLiveReview
    <3>2. CASE x \in wrote[r] /\ y \in wrote[r]
      BY <3>2 DEF WritesAllowed
    <3> QED BY <2>1, <2>2, <3>1, <3>2, CommitRows
  <2> QED BY <2>2 DEF OneLiveReview
<1>5. WritesAllowed'
  <2> SUFFICES ASSUME NEW q \in Requests, NEW w \in wrote'[q]
               PROVE  /\ AsCalled(w)'
                      /\ call[q].op = "create" =>
                           w.id = q /\ w.live /\ LiveKey(reviews', w.place, w.by) = {}
                      /\ call[q].op # "create" =>
                           /\ w.id = call[q].target
                           /\ \E x \in reviews' : x.id = w.id /\ x.live
    BY <1>1 DEF WritesAllowed, LiveKey, Live
  <2>1. q # r /\ w \in wrote[q]
    BY <1>1
  <2>2. AsCalled(w)'
    BY <1>1, <2>1 DEF WritesAllowed, AsCalled
  <2>3. \A v \in wrote[r] : ~(v.place = w.place /\ v.by = w.by)
    BY <2>1 DEF KeysLocked
  <2>4. ASSUME call[q].op = "create"
        PROVE  w.id = q /\ w.live /\ LiveKey(reviews', w.place, w.by) = {}
    <3>1. LiveKey(reviews, w.place, w.by) = {}
      BY <2>1, <2>4 DEF WritesAllowed
    <3>2. \A x \in reviews' : ~(x.live /\ x.place = w.place /\ x.by = w.by)
      BY <2>3, <3>1, CommitRows DEF LiveKey, Live
    <3> QED BY <2>1, <2>4, <3>2 DEF WritesAllowed, LiveKey, Live
  <2>5. ASSUME call[q].op # "create"
        PROVE  /\ w.id = call[q].target
               /\ \E x \in reviews' : x.id = w.id /\ x.live
    <3>1. PICK x \in reviews : x.id = w.id /\ x.live
      BY <2>1, <2>5 DEF WritesAllowed
    <3>2. x.place = w.place /\ x.by = w.by
      BY <2>1, <3>1 DEF WritesAllowed, RowsCommitted, AsCalled
    <3>3. \A v \in wrote[r] : v.id # x.id
      BY <2>3, <3>1, <3>2 DEF WritesAllowed, RowsCommitted, AsCalled
    <3>4. x \in reviews'
      BY <3>3 DEF Commit, Seen
    <3> QED BY <2>1, <2>5, <3>1, <3>4 DEF WritesAllowed
  <2> QED BY <2>2, <2>4, <2>5
<1>6. KeysLocked'
  BY <1>1 DEF KeysLocked
<1>7. CreatesOnTrack'
  <2>1. ASSUME call[r].op = "create" PROVE \E x \in reviews' : x.id = r
    BY <1>1, <2>1 DEF CreatesOnTrack, WritesAllowed, Commit, Seen, InTransaction
  <2> QED BY <1>1, <2>1, CommitRows DEF CreatesOnTrack, InTransaction
<1>8. NotificationsFit'
  BY <1>1, CommitRows DEF NotificationsFit
<1> QED BY <1>2, <1>3, <1>4, <1>5, <1>6, <1>7, <1>8

LEMMA TellStep ==
  ASSUME TypeOK, LockDiscipline, NEW r \in Requests,
         TellOwner(r) \/ TellWatchers(r)
  PROVE  LockDiscipline'
<1> USE DEF LockDiscipline, database
<1>1. /\ UNCHANGED <<call, found, reviews, wrote>>
      /\ \A q \in Requests \ {r} : pc'[q] = pc[q]
      /\ \/ pc[r] = "tell" /\ pc'[r] = "watch"
         \/ pc[r] = "watch" /\ pc'[r] \in Ended
  BY DEF TellOwner, TellWatchers, TypeOK, Ended
<1>2. PICK x \in reviews :
        x.id = r /\ x.place = call[r].place /\ x.by = call[r].user /\ x.by # Owner[x.place]
  BY <1>1 DEF CreatesOnTrack, RowsCommitted, AsCalled
<1>3. ASSUME NEW n \in inbox', n \notin inbox
      PROVE  n.about = r /\ n.to # x.by /\ (n.type = "NEW_REVIEW" <=> n.to = Owner[x.place])
  <2>1. CASE TellOwner(r)
    BY <1>2, <1>3, <2>1 DEF TellOwner
  <2>2. CASE TellWatchers(r)
    <3>1. n \in [to : Watchers(r), type : {"WATCHED_PLACE_REVIEW"}, about : {r}]
      BY <1>3, <2>2 DEF TellWatchers
    <3> QED BY <1>2, <3>1 DEF Watchers
  <2> QED BY <2>1, <2>2
<1>4. NotificationsFit'
  BY <1>1, <1>2, <1>3 DEF NotificationsFit
<1>5. RowsCommitted'
  BY <1>1, RowIds DEF RowsCommitted, AsCalled, Ended
<1>6. FoundRows'
  BY <1>1 DEF FoundRows, AsCalled, InTransaction, Ended
<1>7. WritesAllowed'
  BY <1>1 DEF WritesAllowed, AsCalled, LiveKey, Live, InTransaction
<1>8. KeysLocked' /\ OneLiveReview'
  BY <1>1 DEF KeysLocked, OneLiveReview
<1>9. CreatesOnTrack'
  BY <1>1 DEF CreatesOnTrack, InTransaction, Ended
<1> QED BY <1>4, <1>5, <1>6, <1>7, <1>8, <1>9

LEMMA FailStep ==
  ASSUME TypeOK, LockDiscipline, NEW r \in Requests, Fail(r)
  PROVE  LockDiscipline'
<1> USE DEF LockDiscipline
<1>1. /\ UNCHANGED <<call, found, reviews, inbox>>
      /\ \A q \in Requests \ {r} : pc'[q] = pc[q] /\ wrote'[q] = wrote[q]
      /\ pc'[r] = "error" /\ wrote'[r] = {}
  BY DEF Fail, TypeOK
<1>2. RowsCommitted'
  BY <1>1, RowIds DEF RowsCommitted, AsCalled, Ended
<1>3. FoundRows'
  BY <1>1 DEF FoundRows, AsCalled, InTransaction
<1>4. WritesAllowed'
  BY <1>1 DEF WritesAllowed, AsCalled, LiveKey, Live
<1>5. KeysLocked'
  BY <1>1 DEF KeysLocked
<1>6. OneLiveReview' /\ NotificationsFit'
  BY <1>1 DEF OneLiveReview, NotificationsFit
<1>7. CreatesOnTrack'
  BY <1>1 DEF CreatesOnTrack, InTransaction
<1> QED BY <1>2, <1>3, <1>4, <1>5, <1>6, <1>7

LEMMA LocksStep ==
  ASSUME TypeOK, LockDiscipline, [Next]_vars
  PROVE  LockDiscipline'
<1>1. ASSUME UNCHANGED <<call, pc, found, reviews, wrote, inbox>>
      PROVE  LockDiscipline'
  BY <1>1 DEF LockDiscipline, RowsCommitted, FoundRows, WritesAllowed, KeysLocked,
     CreatesOnTrack, OneLiveReview, NotificationsFit, AsCalled, LiveKey, Live
<1>2. ASSUME NEW p \in Places, DeletePlace(p) PROVE LockDiscipline'
  BY <1>1, <1>2 DEF DeletePlace
<1>3. CASE UNCHANGED vars
  BY <1>1, <1>3 DEF vars, database
<1> QED
  BY <1>2, <1>3, QuietStep, StartChangeStep, InsertStep, ModifyStep,
     CommitStep, TellStep, FailStep DEF Next, Progress, AllAnswered

\* Tables and request records keep their types, for any number of requests.
THEOREM TypeCorrect == Spec => []TypeOK
<1>1. Init => TypeOK /\ Finite /\ LockDiscipline
  BY InitTypes, InitLocks
<1>2. TypeOK /\ Finite /\ LockDiscipline /\ [Next]_vars
        => (TypeOK /\ Finite /\ LockDiscipline)'
  BY TypesStep, LocksStep DEF LockDiscipline
<1> QED BY <1>1, <1>2, PTL DEF Spec

\* LockDiscipline holds in every reachable state.
THEOREM LockDisciplineHolds == Spec => []LockDiscipline
<1>1. TypeOK /\ LockDiscipline /\ [Next]_vars => LockDiscipline'
  BY LocksStep
<1> QED BY InitLocks, <1>1, TypeCorrect, PTL DEF Spec

\* At most one live review per place and author, whatever the interleaving of
\* createReview, updateReview and deleteReview, rollbacks included.
THEOREM NeverTwoLiveReviews == Spec => []OneLiveReview
BY LockDisciplineHolds, PTL DEF LockDiscipline

\* Notifications tell of committed reviews and reach the right users.
THEOREM NotificationsAlwaysFit == Spec => []NotificationsFit
BY LockDisciplineHolds, PTL DEF LockDiscipline

-----------------------------------------------------------------------------
(* ReviewService implements ReviewBook: only a commit changes the live        *)
(* reviews, and it posts, re-rates or withdraws the one row it wrote.         *)

EntryOf(x) == [id |-> x.id, place |-> x.place, by |-> x.by, rating |-> x.rating]

LEMMA ShelfEntries ==
  /\ Shelf = {EntryOf(x) : x \in {y \in reviews : y.live}}
  /\ Shelf' = {EntryOf(x) : x \in {y \in reviews' : y.live}}
BY DEF Shelf, EntryOf

PostedIds == {x.id : x \in reviews}

LEMMA CommitRefines ==
  ASSUME TypeOK, LockDiscipline, NEW r \in Requests, Commit(r)
  PROVE  Book!Next \/ UNCHANGED <<Shelf, PostedIds>>
<1> USE DEF LockDiscipline, PostedIds
<1>1. reviews' = Seen(r)
  BY DEF Commit
<1>2. CASE wrote[r] = {}
  BY <1>1, <1>2 DEF Seen, Shelf
<1>3. CASE wrote[r] # {}
  <2>1. PICK w \in wrote[r] : wrote[r] = {w}
    BY <1>3 DEF WritesAllowed
  <2>2. AsCalled(w) /\ w \in Row
    BY DEF WritesAllowed, TypeOK
  <2>3. reviews' = {x \in reviews : x.id # w.id} \cup {w}
    BY <1>1, <2>1 DEF Seen
  <2> DEFINE e == EntryOf(w)
  <2>4. /\ e \in Book!Entry
        /\ e.id = w.id /\ e.place = w.place /\ e.by = w.by /\ e.rating = w.rating
    BY <2>2 DEF EntryOf, Row, Book!Entry
  <2>5. CASE call[r].op = "create"
    <3>1. \A x \in reviews : x.id # w.id
      BY <2>5 DEF WritesAllowed, RowsCommitted, Commit, InTransaction, Ended
    <3>2. Shelf' = Shelf \cup {e}
      <4>1. w.live
        BY <2>5 DEF WritesAllowed
      <4> QED BY <2>3, <3>1, <4>1, ShelfEntries
    <3>3. \A f \in Shelf : ~(f.place = e.place /\ f.by = e.by)
      <4>1. LiveKey(reviews, w.place, w.by) = {}
        BY <2>5 DEF WritesAllowed
      <4> QED BY <2>4, <4>1, ShelfEntries DEF LiveKey, Live, EntryOf
    <3>4. e.by # Owner[e.place]
      BY <2>2, <2>4 DEF AsCalled
    <3>5. e.id \notin PostedIds /\ PostedIds' = PostedIds \cup {e.id}
      BY <2>3, <2>4, <3>1
    <3> QED BY <2>4, <3>2, <3>3, <3>4, <3>5 DEF Book!Next, Book!Post
  <2>6. CASE call[r].op # "create"
    <3>1. PICK y \in reviews : y.id = w.id /\ y.live
      BY <2>6 DEF WritesAllowed
    <3> DEFINE old == EntryOf(y)
    <3>2. y.place = w.place /\ y.by = w.by /\ y \in Row
      BY <2>2, <3>1 DEF RowsCommitted, AsCalled, TypeOK
    <3>3. /\ old \in Book!Entry /\ old \in Shelf
          /\ old.id = e.id /\ old.place = e.place /\ old.by = e.by
      BY <2>4, <3>1, <3>2, ShelfEntries DEF EntryOf, Row, Book!Entry
    <3>4. \A x \in reviews : x.live /\ x # y => EntryOf(x) # old
      BY <3>1 DEF OneLiveReview, EntryOf
    <3>5. {x \in reviews : x.id # w.id} = reviews \ {y}
      BY <3>1 DEF RowsCommitted
    <3>6. Shelf \ {old} = {EntryOf(x) : x \in {z \in reviews \ {y} : z.live}}
      BY <3>1, <3>4, ShelfEntries
    <3>9. PostedIds' = PostedIds
      BY <2>3, <3>1
    <3>7. CASE w.live
      <4>1. Shelf' = (Shelf \ {old}) \cup {e}
        BY <2>3, <3>5, <3>6, <3>7, ShelfEntries
      <4>2. e = [id |-> old.id, place |-> old.place, by |-> old.by,
                  rating |-> w.rating]
        BY <3>1, <3>2 DEF EntryOf
      <4>3. w.rating \in Ratings
        BY <2>2 DEF Row
      <4>4. Book!Rerate(old, w.rating)
        BY <3>3, <3>9, <4>1, <4>2 DEF Book!Rerate
      <4> QED BY <3>3, <4>3, <4>4 DEF Book!Next
    <3>8. CASE ~w.live
      <4>1. Shelf' = Shelf \ {old}
        BY <2>3, <3>5, <3>6, <3>8, ShelfEntries
      <4> QED BY <3>3, <3>9, <4>1 DEF Book!Next, Book!Withdraw
    <3> QED BY <3>7, <3>8
  <2> QED BY <2>5, <2>6
<1> QED BY <1>2, <1>3

\* The transactions of the review service implement the atomic book.
THEOREM ServiceImplementsBook == Spec => ImplementsBook
<1>1. Init => Book!Init
  BY DEF Init, Book!Init, Shelf
<1>2. TypeOK /\ LockDiscipline /\ [Next]_vars
        => [Book!Next]_<<Shelf, PostedIds>>
  <2> SUFFICES ASSUME TypeOK, LockDiscipline, [Next]_vars
               PROVE  Book!Next \/ UNCHANGED <<Shelf, PostedIds>>
    OBVIOUS
  <2>1. ASSUME UNCHANGED reviews PROVE UNCHANGED <<Shelf, PostedIds>>
    BY <2>1 DEF Shelf, PostedIds
  <2>2. UNCHANGED reviews \/ \E r \in Requests : Commit(r)
    BY DEF Next, Progress, AllAnswered, vars, database, StartCreate, StartChange,
       CheckExisting, Insert, Modify, Count, Average, Store, TellOwner,
       TellWatchers, Fail, DeletePlace
  <2> QED BY <2>1, <2>2, CommitRefines
<1> QED
  BY <1>1, <1>2, TypeCorrect, LockDisciplineHolds, PTL
     DEF Spec, ImplementsBook, Book!Spec, PostedIds

-----------------------------------------------------------------------------
(* SoloView: nobody disturbs what a transaction that met no other has read.   *)

\* The rows a transaction writes are at the place it recomputes.
LEMMA WritesAtPlace ==
  ASSUME LockDiscipline, NEW r \in Requests, NEW w \in wrote[r]
  PROVE  w.place = PlaceOf(r)
<1> USE DEF LockDiscipline
<1>1. CASE call[r].op = "create"
  BY <1>1 DEF WritesAllowed, AsCalled, PlaceOf
<1>2. CASE call[r].op # "create"
  <2>1. found[r] # {}
    BY <1>2 DEF WritesAllowed, FoundRows
  <2>2. \A x \in found[r] : x.place = w.place
    BY <1>2 DEF WritesAllowed, FoundRows, AsCalled
  <2> QED BY <1>2, <2>1, <2>2 DEF PlaceOf
<1> QED BY <1>1, <1>2

\* A commit elsewhere does not change what r reads at its own place.
LEMMA CommitElsewhere ==
  ASSUME TypeOK, LockDiscipline, NEW q \in Requests, Commit(q),
         NEW r \in Requests \ {q}, PlaceOf(q) # PlaceOf(r)
  PROVE  Live(Seen(r)', PlaceOf(r)) = Live(Seen(r), PlaceOf(r))
<1> USE DEF LockDiscipline
<1>1. wrote'[r] = wrote[r] /\ reviews' = Seen(q)
  BY DEF Commit, TypeOK
<1>2. \A w \in wrote[q] : w.place # PlaceOf(r)
  BY WritesAtPlace
<1>3. \A x \in reviews, w \in wrote[q] : x.id = w.id => x.place # PlaceOf(r)
  BY <1>2 DEF RowsCommitted, WritesAllowed, AsCalled
<1>4. \A x : x.place = PlaceOf(r) => (x \in reviews' <=> x \in reviews)
  BY <1>1, <1>2, <1>3 DEF Seen
<1> QED BY <1>1, <1>4 DEF Seen, Live

\* SoloView for one request.
SoloAt(r) ==
  pc[r] \in InTransaction /\ ~met[r] =>
    /\ \A q \in Requests \ {r} : pc[q] \in InTransaction => PlaceOf(q) # PlaceOf(r)
    /\ pc[r] # "count" => counted[r] = Cardinality(Live(Seen(r), PlaceOf(r)))
    /\ pc[r] \in {"store", "commit"} => average[r] = Tenths(Live(Seen(r), PlaceOf(r)))
    /\ pc[r] = "commit" => PlaceOf(r) \in wroteStats[r] \/ PlaceOf(r) \notin open

LEMMA SoloViewAt == SoloView <=> \A r \in Requests : SoloAt(r)
BY DEF SoloView, SoloAt

\* Which requests are in a transaction, and where, outside Insert and Modify.
LEMMA NobodyEnters ==
  ASSUME TypeOK, [Next]_vars, NEW q \in Requests, pc'[q] \in InTransaction,
         ~Insert(q), ~Modify(q)
  PROVE  pc[q] \in InTransaction /\ PlaceOf(q)' = PlaceOf(q)
<1> DEFINE Goal == pc[q] \in InTransaction /\ PlaceOf(q)' = PlaceOf(q)
<1>1. ASSUME UNCHANGED <<call, found>> PROVE PlaceOf(q)' = PlaceOf(q)
  BY <1>1 DEF PlaceOf
<1>2. ASSUME NEW s \in Requests, pc' = [pc EXCEPT ![s] = pc'[s]],
             pc[s] \in InTransaction \/ pc'[s] \notin InTransaction
      PROVE  pc[q] \in InTransaction
  BY <1>2 DEF TypeOK
<1>3. ASSUME NEW s \in Requests, StartChange(s) PROVE Goal
  <2>1. s # q
    BY <1>3 DEF StartChange, TypeOK, InTransaction
  <2>2. call'[q] = call[q] /\ found'[q] = found[q] /\ pc'[q] = pc[q]
    BY <1>3, <2>1 DEF StartChange, TypeOK
  <2>3. PlaceOf(q)' = PlaceOf(q)
    BY <2>2 DEF PlaceOf
  <2> QED BY <2>2, <2>3
<1>4. ASSUME NEW s \in Requests, Insert(s) \/ Modify(s) PROVE Goal
  <2>1. s # q
    BY <1>4
  <2>2. pc[q] \in InTransaction
    <3>1. CASE Insert(s) BY <2>1, <3>1 DEF Insert, TypeOK
    <3>2. CASE Modify(s) BY <2>1, <3>2 DEF Modify, TypeOK
    <3> QED BY <1>4, <3>1, <3>2
  <2>3. UNCHANGED <<call, found>>
    BY <1>4 DEF Insert, Modify
  <2> QED BY <1>1, <2>2, <2>3
<1>5. ASSUME NEW s \in Requests,
             StartCreate(s) \/ CheckExisting(s) \/ Count(s) \/ Average(s) \/ Store(s)
      PROVE  Goal
  <2>1. pc' = [pc EXCEPT ![s] = pc'[s]]
    BY <1>5 DEF StartCreate, CheckExisting, Count, Average, Store, TypeOK
  <2>2. pc[s] \in InTransaction \/ pc'[s] \notin InTransaction
    BY <1>5 DEF StartCreate, CheckExisting, Count, Average, Store, TypeOK, InTransaction
  <2>3. UNCHANGED <<call, found>>
    BY <1>5 DEF StartCreate, CheckExisting, Count, Average, Store
  <2> QED BY <1>1, <1>2, <2>1, <2>2, <2>3
<1>6. ASSUME NEW s \in Requests,
             Commit(s) \/ TellOwner(s) \/ TellWatchers(s) \/ Fail(s)
      PROVE  Goal
  <2>1. pc' = [pc EXCEPT ![s] = pc'[s]]
    BY <1>6 DEF Commit, TellOwner, TellWatchers, Fail, TypeOK
  <2>2. pc'[s] \notin InTransaction
    BY <1>6 DEF Commit, TellOwner, TellWatchers, Fail, TypeOK, InTransaction
  <2>3. UNCHANGED <<call, found>>
    BY <1>6 DEF Commit, TellOwner, TellWatchers, Fail
  <2> QED BY <1>1, <1>2, <2>1, <2>2, <2>3
<1>7. CASE UNCHANGED vars \/ \E p \in Places : DeletePlace(p)
  BY <1>1, <1>7 DEF DeletePlace, vars
<1> QED
  BY <1>3, <1>4, <1>5, <1>6, <1>7 DEF Next, Progress, AllAnswered

\* A request that stays where it is keeps its view when nothing it reads
\* changes and nobody enters its place without noting so.
LEMMA SoloFrame ==
  ASSUME NEW r \in Requests, SoloAt(r),
         pc'[r] = pc[r], counted'[r] = counted[r], average'[r] = average[r],
         wroteStats'[r] = wroteStats[r], open' \subseteq open,
         PlaceOf(r)' = PlaceOf(r),
         pc[r] \in InTransaction /\ ~met'[r] =>
           /\ ~met[r]
           /\ Live(Seen(r)', PlaceOf(r)) = Live(Seen(r), PlaceOf(r))
           /\ \A q \in Requests \ {r} :
                pc'[q] \in InTransaction => PlaceOf(q)' # PlaceOf(r)
  PROVE  SoloAt(r)'
<1> DEFINE m == Live(Seen(r), PlaceOf(r))
<1>1. Live(Seen(r), PlaceOf(r))' = Live(Seen(r)', PlaceOf(r))
  BY DEF Live
<1>2. SUFFICES ASSUME pc[r] \in InTransaction, ~met'[r]
               PROVE  SoloAt(r)'
  BY DEF SoloAt
<1>3. Live(Seen(r), PlaceOf(r))' = m
  BY <1>1, <1>2
<1>4. Cardinality(Live(Seen(r), PlaceOf(r)))' = Cardinality(m)
      /\ Tenths(Live(Seen(r), PlaceOf(r)))' = Tenths(m)
  BY <1>3 DEF Tenths, Sum, Stars
<1> QED BY <1>2, <1>4 DEF SoloAt

\* Steps of one request after which every other request reads what it read.
LEMMA OthersKeepView ==
  ASSUME TypeOK, LockDiscipline, SoloView, [Next]_vars,
         NEW s \in Requests, NEW r \in Requests \ {s},
         pc'[s] \in InTransaction => ~Insert(s) /\ ~Modify(s),
         pc' = [pc EXCEPT ![s] = pc'[s]], met' = met, open' = open,
         counted'[r] = counted[r], average'[r] = average[r],
         wroteStats'[r] = wroteStats[r], wrote'[r] = wrote[r],
         reviews' = reviews \/ Commit(s)
  PROVE  SoloAt(r)'
<1>1. pc'[r] = pc[r] /\ SoloAt(r)
  BY SoloViewAt DEF TypeOK
<1>2. ASSUME NEW q \in Requests, pc'[q] \in InTransaction
      PROVE  pc[q] \in InTransaction /\ PlaceOf(q)' = PlaceOf(q)
  BY <1>2, NobodyEnters DEF Insert, Modify, TypeOK, InTransaction
<1>3. pc[r] \in InTransaction /\ ~met[r] =>
        \A q \in Requests \ {r} : pc'[q] \in InTransaction => PlaceOf(q)' # PlaceOf(r)
  BY <1>1, <1>2 DEF SoloAt
<1>4. pc[r] \in InTransaction => PlaceOf(r)' = PlaceOf(r)
  BY <1>1, <1>2
<1>5. pc[r] \in InTransaction /\ ~met[r]
        => Live(Seen(r)', PlaceOf(r)) = Live(Seen(r), PlaceOf(r))
  <2>1. CASE reviews' = reviews
    BY <2>1 DEF Seen
  <2>2. CASE Commit(s) /\ pc[r] \in InTransaction /\ ~met[r]
    <3>1. PlaceOf(s) # PlaceOf(r)
      BY <1>1, <2>2 DEF Commit, InTransaction, SoloAt
    <3> QED BY <2>2, <3>1, CommitElsewhere
  <2> QED BY <2>1, <2>2
<1>6. CASE pc[r] \in InTransaction
  BY <1>1, <1>3, <1>4, <1>5, <1>6, SoloFrame
<1>7. CASE pc[r] \notin InTransaction
  BY <1>1, <1>7 DEF SoloAt
<1> QED BY <1>6, <1>7

\* What Enter notes: two transactions on one place know of each other.
LEMMA EnterNotes ==
  ASSUME TypeOK, NEW s \in Requests, Enter(s)
  PROVE  /\ ~met'[s] => \A q \in Requests \ {s} :
                          pc[q] \in InTransaction => PlaceOf(q) # PlaceOf(s)
         /\ \A r \in Requests \ {s} : ~met'[r] =>
              ~met[r] /\ (pc[r] \in InTransaction => PlaceOf(r) # PlaceOf(s))
<1> DEFINE others == {q \in Requests \ {s} :
                        pc[q] \in InTransaction /\ PlaceOf(q) = PlaceOf(s)}
<1>1. met'[s] = (others # {})
  BY DEF Enter
<1>2. \A r \in Requests \ {s} : met'[r] = (met[r] \/ r \in others)
  BY DEF Enter
<1>3. ASSUME ~met'[s], NEW q \in Requests \ {s}, pc[q] \in InTransaction
      PROVE  PlaceOf(q) # PlaceOf(s)
  BY <1>1, <1>3
<1>4. ASSUME NEW r \in Requests \ {s}, ~met'[r]
      PROVE  ~met[r] /\ (pc[r] \in InTransaction => PlaceOf(r) # PlaceOf(s))
  BY <1>2, <1>4
<1> QED BY <1>3, <1>4

LEMMA EnterStep ==
  ASSUME TypeOK, LockDiscipline, SoloView, [Next]_vars,
         NEW s \in Requests, (Insert(s) /\ pc'[s] = "count") \/ Modify(s)
  PROVE  SoloView'
<1>1. /\ UNCHANGED <<call, found, counted, average, reviews, open, wroteStats>>
      /\ pc[s] \notin InTransaction /\ pc'[s] = "count"
      /\ \A q \in Requests \ {s} : pc'[q] = pc[q] /\ wrote'[q] = wrote[q]
      /\ Enter(s)
  BY DEF Insert, Modify, TypeOK, InTransaction
<1>2. \A q : PlaceOf(q)' = PlaceOf(q)
  BY <1>1 DEF PlaceOf
<1>3. SoloAt(s)'
  BY <1>1, <1>2, EnterNotes DEF SoloAt
<1>4. ASSUME NEW r \in Requests \ {s} PROVE SoloAt(r)'
  <2>1. SoloAt(r)
    BY SoloViewAt
  <2>2. Seen(r)' = Seen(r)
    BY <1>1 DEF Seen
  <2>3. ASSUME pc[r] \in InTransaction, ~met'[r]
        PROVE  /\ ~met[r]
               /\ \A q \in Requests \ {r} :
                    pc'[q] \in InTransaction => PlaceOf(q)' # PlaceOf(r)
    <3>1. ~met[r] /\ PlaceOf(r) # PlaceOf(s)
      BY <1>1, <2>3, EnterNotes
    <3> QED BY <1>1, <1>2, <2>1, <2>3, <3>1 DEF SoloAt
  <2> QED BY <1>1, <1>2, <2>1, <2>2, <2>3, SoloFrame
<1> QED BY <1>3, <1>4 DEF SoloView, SoloAt

LEMMA ReadStep ==
  ASSUME TypeOK, Finite, LockDiscipline, SoloView, [Next]_vars,
         NEW s \in Requests, Count(s) \/ Average(s) \/ Store(s)
  PROVE  SoloView'
<1> USE DEF database
<1>1. /\ UNCHANGED <<call, found, reviews, open, wrote, met>>
      /\ pc' = [pc EXCEPT ![s] = pc'[s]]
      /\ pc[s] \in InTransaction
      /\ \A r \in Requests \ {s} : /\ counted'[r] = counted[r]
                                   /\ average'[r] = average[r]
                                   /\ wroteStats'[r] = wroteStats[r]
  BY DEF Count, Average, Store, TypeOK, InTransaction
<1>2. PlaceOf(s)' = PlaceOf(s) /\ Live(Seen(s), PlaceOf(s))' = Live(Seen(s), PlaceOf(s))
  BY <1>1 DEF PlaceOf, Seen, Live
<1>3. \A r \in Requests \ {s} : SoloAt(r)'
  <2>1. ~Insert(s) /\ ~Modify(s)
    BY <1>1 DEF Insert, Modify, InTransaction
  <2> QED BY <1>1, <2>1, OthersKeepView
<1>4. SoloAt(s)'
  <2> DEFINE m == Live(Seen(s), PlaceOf(s))
  <2>1. SUFFICES ASSUME ~met[s], pc'[s] \in InTransaction
                 PROVE  /\ \A q \in Requests \ {s} :
                             pc'[q] \in InTransaction => PlaceOf(q)' # PlaceOf(s)
                        /\ pc'[s] # "count" => counted'[s] = Cardinality(m)
                        /\ pc'[s] \in {"store", "commit"} => average'[s] = Tenths(m)
                        /\ pc'[s] = "commit" =>
                             PlaceOf(s) \in wroteStats'[s] \/ PlaceOf(s) \notin open'
    BY <1>1, <1>2 DEF SoloAt, Tenths, Sum, Stars
  <2>2. SoloAt(s)
    BY SoloViewAt
  <2>3. \A q \in Requests \ {s} :
          pc'[q] \in InTransaction => PlaceOf(q)' # PlaceOf(s)
    <3>1. \A q : PlaceOf(q)' = PlaceOf(q)
      BY <1>1 DEF PlaceOf
    <3> QED BY <1>1, <2>1, <2>2, <3>1 DEF SoloAt, TypeOK
  <2>4. CASE Count(s)
    <3>1. counted'[s] = Cardinality(m) /\ average'[s] = 0
          /\ pc'[s] = IF Cardinality(m) = 0 THEN "store" ELSE "average"
      BY <2>4 DEF Count, Rated, TypeOK
    <3>2. IsFiniteSet(m)
      BY SeenFinite
    <3>3. Cardinality(m) = 0 => Tenths(m) = 0
      BY <3>2, FS_EmptySet DEF Tenths
    <3> HIDE DEF m
    <3> QED BY <2>3, <3>1, <3>3
  <2>5. CASE Average(s)
    <3>1. average'[s] = Tenths(m) /\ counted'[s] = counted[s]
          /\ pc[s] = "average" /\ pc'[s] = "store"
      BY <2>5 DEF Average, Rated, TypeOK
    <3>2. counted[s] = Cardinality(m)
      BY <1>1, <2>1, <2>2, <3>1 DEF SoloAt
    <3> HIDE DEF m
    <3> QED BY <2>3, <3>1, <3>2
  <2>6. CASE Store(s)
    <3>1. average'[s] = average[s] /\ counted'[s] = counted[s]
          /\ pc[s] = "store" /\ pc'[s] = "commit"
          /\ wroteStats'[s] = {PlaceOf(s)} \cap open
      BY <2>6 DEF Store, TypeOK
    <3>2. counted[s] = Cardinality(m) /\ average[s] = Tenths(m)
      BY <1>1, <2>1, <2>2, <3>1 DEF SoloAt
    <3> HIDE DEF m
    <3> QED BY <1>1, <2>3, <3>1, <3>2
  <2> QED BY <2>4, <2>5, <2>6
<1> QED BY <1>3, <1>4 DEF SoloView, SoloAt

LEMMA SoloStep ==
  ASSUME TypeOK, Finite, LockDiscipline, SoloView, [Next]_vars
  PROVE  SoloView'
<1> USE DEF database
<1>1. ASSUME NEW s \in Requests, StartCreate(s) \/ StartChange(s) \/ CheckExisting(s)
                                   \/ TellOwner(s) \/ TellWatchers(s)
                                   \/ (Insert(s) /\ pc'[s] # "count")
      PROVE  SoloView'
  <2>1. /\ pc' = [pc EXCEPT ![s] = pc'[s]] /\ pc'[s] \notin InTransaction
        /\ UNCHANGED <<counted, average, reviews, open, wroteStats, wrote, met>>
    BY <1>1 DEF StartCreate, StartChange, CheckExisting, TellOwner, TellWatchers,
       Insert, TypeOK, InTransaction, Ended
  <2>2. SoloAt(s)'
    BY <2>1 DEF SoloAt
  <2>3. ASSUME NEW r \in Requests \ {s} PROVE SoloAt(r)'
    BY <2>1, <2>3, OthersKeepView
  <2> QED BY <2>2, <2>3, SoloViewAt DEF SoloView, SoloAt
<1>2. ASSUME NEW s \in Requests, Commit(s) \/ Fail(s)
      PROVE  SoloView'
  <2>1. /\ pc' = [pc EXCEPT ![s] = pc'[s]] /\ pc'[s] \notin InTransaction
        /\ UNCHANGED <<counted, average, open, met>>
        /\ \A r \in Requests \ {s} : /\ wroteStats'[r] = wroteStats[r]
                                     /\ wrote'[r] = wrote[r]
        /\ reviews' = reviews \/ Commit(s)
    BY <1>2 DEF Commit, Fail, TypeOK, InTransaction
  <2>2. SoloAt(s)'
    BY <2>1 DEF SoloAt
  <2>3. ASSUME NEW r \in Requests \ {s} PROVE SoloAt(r)'
    BY <2>1, <2>3, OthersKeepView
  <2> QED BY <2>2, <2>3 DEF SoloView, SoloAt
<1>3. ASSUME NEW p \in Places, DeletePlace(p) PROVE SoloView'
  <2>1. /\ open' \subseteq open
        /\ UNCHANGED <<call, pc, found, counted, average, reviews, wrote, wroteStats, met>>
    BY <1>3 DEF DeletePlace
  <2>2. ASSUME NEW r \in Requests PROVE SoloAt(r)'
    <3>1. \A q : PlaceOf(q)' = PlaceOf(q)
      BY <2>1 DEF PlaceOf
    <3>2. Seen(r)' = Seen(r)
      BY <2>1 DEF Seen
    <3> QED BY <2>1, <3>1, <3>2, SoloViewAt, SoloFrame DEF SoloAt
  <2> QED BY <2>2 DEF SoloView, SoloAt
<1>4. CASE UNCHANGED vars
  <2>1. /\ open' \subseteq open
        /\ UNCHANGED <<call, pc, found, counted, average, reviews, wrote, wroteStats, met>>
    BY <1>4 DEF vars
  <2>2. ASSUME NEW r \in Requests PROVE SoloAt(r)'
    <3>1. \A q : PlaceOf(q)' = PlaceOf(q)
      BY <2>1 DEF PlaceOf
    <3>2. Seen(r)' = Seen(r)
      BY <2>1 DEF Seen
    <3> QED BY <2>1, <3>1, <3>2, SoloViewAt, SoloFrame DEF SoloAt
  <2> QED BY <2>2 DEF SoloView, SoloAt
<1> QED
  BY <1>1, <1>2, <1>3, <1>4, EnterStep, ReadStep DEF Next, Progress, AllAnswered

\* A transaction that no other overlapped on its place leaves exact stats.
THEOREM SoloWritersHeal == Spec => SoloWriterLeavesStatsExact
<1>1. Init => SoloView
  BY DEF Init, SoloView, InTransaction
<1>2. TypeOK /\ Finite /\ LockDiscipline /\ SoloView /\ [Next]_vars => SoloView'
  BY SoloStep
<1>3. Spec => []Finite
  <2>1. TypeOK /\ Finite /\ LockDiscipline /\ [Next]_vars => Finite'
    BY TypesStep DEF LockDiscipline
  <2> QED BY InitTypes, <2>1, TypeCorrect, LockDisciplineHolds, PTL DEF Spec
<1>4. TypeOK /\ LockDiscipline /\ SoloView /\ [Next]_vars =>
        [\A r \in Requests :
           Commit(r) /\ ~met[r] /\ PlaceOf(r) \in open => Exact(PlaceOf(r))']_vars
  <2> SUFFICES ASSUME TypeOK, LockDiscipline, SoloView, NEW r \in Requests,
                      Commit(r), ~met[r], PlaceOf(r) \in open
               PROVE  Exact(PlaceOf(r))'
    OBVIOUS
  <2> DEFINE p == PlaceOf(r)
             mine == Live(Seen(r), p)
  <2>1. /\ p \in wroteStats[r] /\ p \in Places
        /\ counted[r] = Cardinality(mine) /\ average[r] = Tenths(mine)
    BY DEF SoloView, Commit, InTransaction, TypeOK
  <2>2. PlaceOf(r)' = p
    BY DEF Commit, PlaceOf
  <2>3. Live(reviews', p) = mine
    BY DEF Commit, Live
  <2>4. stats'[p] = [count |-> Cardinality(mine), tenths |-> Tenths(mine)]
    BY <2>1 DEF Commit
  <2>5. stats'[p] = [count  |-> Cardinality(Live(reviews', p)),
                     tenths |-> Tenths(Live(reviews', p))]
    BY <2>3, <2>4
  <2> HIDE DEF p, mine
  <2> QED BY <2>2, <2>5 DEF Exact
<1> QED
  BY <1>1, <1>2, <1>3, <1>4, TypeCorrect, LockDisciplineHolds, PTL
     DEF Spec, SoloWriterLeavesStatsExact
=============================================================================
