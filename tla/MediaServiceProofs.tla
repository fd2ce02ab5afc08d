------------------------- MODULE MediaServiceProofs -------------------------
(***************************************************************************)
(* Proofs about MediaService: its types, that a picture column never       *)
(* points at a deleted image, and that a lone request owns its slot,       *)
(* counts exactly and keeps the cap.                                       *)
(***************************************************************************)
EXTENDS MediaService, FiniteSetTheorems, TLAPS

Finite ==
  /\ IsFiniteSet(media)
  /\ \A r \in Requests : IsFiniteSet(wrote[r])

LEMMA CallTypes ==
  ASSUME TypeOK, NEW r \in Requests
  PROVE  /\ call[r].op \in {"attach", "remove"}
         /\ call[r].by \in Users
         /\ call[r].op = "attach" => call[r].owner \in Owners /\ call[r].kind \in Kinds
         /\ call[r].op = "remove" => call[r].target \in Requests
BY DEF TypeOK, Attach, Remove

LEMMA NewIsRow ==
  ASSUME TypeOK, NEW r \in Requests, call[r].op = "attach"
  PROVE  New(r) \in Row
BY CallTypes DEF New, Row

LEMMA EnterType ==
  ASSUME TypeOK, NEW r \in Requests, NEW o, NEW k, Enter(r, o, k)
  PROVE  met' \in [Requests -> BOOLEAN]
<1> DEFINE others == {q \in Requests \ {r} :
                        pc[q] \in Writing /\ OwnerOf(q) = o /\ KindOf(q) = k}
<1>1. met' = [q \in Requests |-> IF q = r THEN others # {} ELSE met[q] \/ q \in others]
  BY DEF Enter
<1>2. \A q \in Requests : (IF q = r THEN others # {} ELSE met[q] \/ q \in others) \in BOOLEAN
  BY DEF TypeOK
<1> QED BY <1>1, <1>2

\* What a soft delete writes is a set of dead rows of committed ones.
LEMMA DeadRows ==
  ASSUME TypeOK, Finite, NEW S \in SUBSET media
  PROVE  /\ {Dead(x) : x \in S} \in SUBSET Row
         /\ IsFiniteSet({Dead(x) : x \in S})
<1>1. IsFiniteSet(S)
  BY FS_Subset DEF Finite
<1>2. \A x \in media : Dead(x) \in Row
  BY DEF Dead, Row, TypeOK
<1> DEFINE T == {Dead(x) : x \in S}
           f == [x \in S |-> Dead(x)]
<1>3. f \in Surjection(S, T)
  BY DEF Surjection
<1>4. IsFiniteSet(T)
  BY <1>1, <1>3, FS_Surjection
<1> QED BY <1>2, <1>4

LEMMA SeenFinite ==
  ASSUME TypeOK, Finite, NEW r \in Requests
  PROVE  /\ Seen(r) \in SUBSET Row /\ IsFiniteSet(Seen(r))
         /\ \A o, k : IsFiniteSet(Live(Seen(r), o, k))
<1>1. IsFiniteSet({x \in media : \A w \in wrote[r] : w.id # x.id})
  BY FS_Subset DEF Finite
<1>2. IsFiniteSet(Seen(r))
  BY <1>1, FS_Union DEF Seen, Finite
<1>3. \A o, k : IsFiniteSet(Live(Seen(r), o, k))
  BY <1>2, FS_Subset DEF Live
<1> QED BY <1>2, <1>3 DEF Seen, TypeOK

-----------------------------------------------------------------------------
(* Types. *)

LEMMA InitTypes == Init => TypeOK /\ Finite
BY FS_EmptySet DEF Init, TypeOK, Finite, Stages

LEMMA TypesStep ==
  ASSUME TypeOK, Finite, CallsOnTrack, [Next]_vars
  PROVE  TypeOK' /\ Finite'
<1> USE DEF database, Stages, Writing, Ended
<1>1. ASSUME NEW r \in Requests, StartAttach(r) PROVE TypeOK' /\ Finite'
  <2>1. met' \in [Requests -> BOOLEAN]
    BY <1>1, EnterType DEF StartAttach, TypeOK
  <2> QED BY <1>1, <2>1 DEF StartAttach, TypeOK, Finite
<1>2. ASSUME NEW r \in Requests, StartRemove(r) PROVE TypeOK' /\ Finite'
  <2>1. met' \in [Requests -> BOOLEAN]
    BY <1>2, EnterType DEF StartRemove, TypeOK
  <2> QED BY <1>2, <2>1 DEF StartRemove, TypeOK, Finite
<1>3. ASSUME NEW r \in Requests, CheckCap(r) PROVE TypeOK' /\ Finite'
  <2>1. met' \in [Requests -> BOOLEAN]
    BY <1>3, EnterType DEF CheckCap, TypeOK
  <2> QED BY <1>3, <2>1 DEF CheckCap, TypeOK, Finite
<1>4. ASSUME NEW r \in Requests, CheckKeeper(r) PROVE TypeOK' /\ Finite'
  <2>1. met' \in [Requests -> BOOLEAN]
    BY <1>4, EnterType DEF CheckKeeper, TypeOK
  <2> QED BY <1>4, <2>1 DEF CheckKeeper, TypeOK, Finite
<1>5. ASSUME NEW r \in Requests, StartClear(r) PROVE TypeOK' /\ Finite'
  <2>1. Cleared(r) \in SUBSET Requests
    BY DEF Cleared, Live, TypeOK, Row
  <2> QED BY <1>5, <2>1 DEF StartClear, TypeOK, Finite
<1>6. ASSUME NEW r \in Requests, Clear(r) PROVE TypeOK' /\ Finite'
  <2> DEFINE S == {y \in media : y.id \in matched[r] /\ y.live}
  <2>1. {Dead(x) : x \in S} \in SUBSET Row /\ IsFiniteSet({Dead(x) : x \in S})
    BY DeadRows
  <2>2. wrote' = [wrote EXCEPT ![r] = {Dead(x) : x \in S}]
    BY <1>6 DEF Clear
  <2> HIDE DEF S
  <2> QED BY <1>6, <2>1, <2>2 DEF Clear, TypeOK, Finite
<1>7. ASSUME NEW r \in Requests, InsertPlacePhoto(r) PROVE TypeOK' /\ Finite'
  <2>0. call[r].op = "attach"
    BY <1>7 DEF InsertPlacePhoto, CallsOnTrack
  <2>1. media' \subseteq Row
    BY <1>7, <2>0, NewIsRow DEF InsertPlacePhoto, TypeOK
  <2>2. IsFiniteSet(media')
    BY <1>7, FS_AddElement DEF InsertPlacePhoto, Finite
  <2> QED BY <1>7, <2>1, <2>2 DEF InsertPlacePhoto, TypeOK, Finite
<1>8. ASSUME NEW r \in Requests, Insert(r) PROVE TypeOK' /\ Finite'
  <2>0. call[r].op = "attach"
    BY <1>8 DEF Insert, CallsOnTrack
  <2>1. wrote[r] \cup {New(r)} \in SUBSET Row /\ IsFiniteSet(wrote[r] \cup {New(r)})
    BY <1>8, <2>0, NewIsRow, FS_AddElement DEF TypeOK, Finite
  <2> QED BY <1>8, <2>1 DEF Insert, TypeOK, Finite
<1>9. ASSUME NEW r \in Requests, Delete(r) PROVE TypeOK' /\ Finite'
  <2> DEFINE S == {y \in media : y.id = call[r].target /\ y.live}
  <2>1. {Dead(x) : x \in S} \in SUBSET Row /\ IsFiniteSet({Dead(x) : x \in S})
    BY DeadRows
  <2>2. wrote' = [wrote EXCEPT ![r] = {Dead(x) : x \in S}]
    BY <1>9 DEF Delete
  <2> HIDE DEF S
  <2> QED BY <1>9, <2>1, <2>2 DEF Delete, TypeOK, Finite
<1>10. ASSUME NEW r \in Requests, CountPhotos(r) PROVE TypeOK' /\ Finite'
  <2>1. Cardinality(Photos(r)) \in Nat
    BY SeenFinite, FS_CardinalityType DEF Photos
  <2> QED BY <1>10, <2>1 DEF CountPhotos, TypeOK, Finite
<1>11. ASSUME NEW r \in Requests, Store(r) PROVE TypeOK' /\ Finite'
  BY <1>11 DEF Store, TypeOK, Finite
<1>12. ASSUME NEW r \in Requests, Commit(r) PROVE TypeOK' /\ Finite'
  <2>1. Seen(r) \subseteq Row /\ IsFiniteSet(Seen(r))
    BY SeenFinite
  <2>2. picture' \in [Slots -> SUBSET Requests]
    BY <1>12 DEF Commit, TypeOK, Shown
  <2>3. photoCount' \in [Reviews -> Nat]
    BY <1>12 DEF Commit, TypeOK
  <2>4. Finite'
    BY <1>12, <2>1, FS_EmptySet DEF Commit, Finite, TypeOK
  <2> QED BY <1>12, <2>1, <2>2, <2>3, <2>4 DEF Commit, TypeOK
<1>13. ASSUME NEW r \in Requests, Fail(r) PROVE TypeOK' /\ Finite'
  BY <1>13, FS_EmptySet DEF Fail, TypeOK, Finite
<1>14. ASSUME NEW o \in Owners, DeleteOwner(o) PROVE TypeOK' /\ Finite'
  BY <1>14 DEF DeleteOwner, TypeOK, Finite
<1>15. CASE UNCHANGED vars
  BY <1>15 DEF vars, TypeOK, Finite
<1> QED
  BY <1>1, <1>2, <1>3, <1>4, <1>5, <1>6, <1>7, <1>8, <1>9, <1>10, <1>11, <1>12,
     <1>13, <1>14, <1>15 DEF Next, Progress, AllAnswered

-----------------------------------------------------------------------------
(* SlotDiscipline. *)

\* The request whose attach names the gallery or slot that r is about.
Subject(r) == IF call[r].op = "attach" THEN r ELSE call[r].target

LEMMA SubjectNames ==
  ASSUME TypeOK, CallsOnTrack, NEW r \in Requests,
         pc[r] \in {"keeper"} \cup Writing \/ call[r].op = "attach"
  PROVE  /\ Subject(r) \in Requests /\ call[Subject(r)].op = "attach"
         /\ OwnerOf(r) = call[Subject(r)].owner /\ KindOf(r) = call[Subject(r)].kind
<1>1. CASE call[r].op = "attach"
  BY <1>1 DEF Subject, OwnerOf, KindOf
<1>2. CASE call[r].op = "remove"
  <2>1. PICK x \in found[r] : x = CHOOSE y \in found[r] : TRUE
    BY <1>2 DEF CallsOnTrack
  <2>2. AsCalled(x) /\ x.id = call[r].target
    BY <1>2, <2>1 DEF CallsOnTrack
  <2> QED BY <1>2, <2>1, <2>2, CallTypes DEF Subject, OwnerOf, KindOf, AsCalled
<1> QED BY <1>1, <1>2, CallTypes

LEMMA InitDiscipline == Init => SlotDiscipline
BY DEF Init, SlotDiscipline, CallsOnTrack, WritesOwnSlot, PictureIsLive, Writing

\* Lookups and checks before any write.
LEMMA CheckStep ==
  ASSUME TypeOK, SlotDiscipline, NEW r \in Requests,
         StartAttach(r) \/ StartRemove(r) \/ CheckCap(r) \/ CheckKeeper(r)
  PROVE  SlotDiscipline'
<1> USE DEF SlotDiscipline, Writing, database
<1>1. /\ UNCHANGED <<call, matched, media, picture, wrote, holds, open>>
      /\ pc[r] \in {"new", "cap", "keeper"}
      /\ \A q \in Requests \ {r} : pc'[q] = pc[q] /\ found'[q] = found[q]
      /\ pc'[r] \in {"error", "cap", "keeper", "slot", "insert", "delete"}
      /\ pc'[r] \in {"cap", "slot", "insert"} => call[r].op = "attach"
      /\ pc'[r] \in {"keeper", "delete"} => call[r].op = "remove" /\ found'[r] # {}
      /\ pc'[r] \in {"cap", "insert"} => call[r].kind = "PHOTO"
      /\ pc'[r] = "slot" => call[r].kind # "PHOTO"
      /\ found'[r] # found[r] => \A x \in found'[r] : x \in media /\ x.id = call[r].target
  <2>1. CASE StartAttach(r)
    BY <2>1 DEF StartAttach, TypeOK
  <2>2. CASE StartRemove(r)
    BY <2>2, CallTypes DEF StartRemove, TypeOK
  <2>3. CASE CheckCap(r)
    BY <2>3 DEF CheckCap, TypeOK, CallsOnTrack
  <2>4. CASE CheckKeeper(r)
    <3>1. call[r].op = "remove" \/ call[r].op = "attach"
      BY CallTypes
    <3>2. pc[r] = "keeper" => call[r].op = "remove"
      BY <3>1 DEF CallsOnTrack
    <3> QED BY <2>4, <3>2 DEF CheckKeeper, TypeOK, CallsOnTrack
  <2> QED BY <2>1, <2>2, <2>3, <2>4
<1>2. CallsOnTrack'
  BY <1>1 DEF CallsOnTrack, AsCalled
<1>3. \A q \in Requests \ {r} : OwnerOf(q)' = OwnerOf(q) /\ KindOf(q)' = KindOf(q)
  <2> SUFFICES ASSUME NEW q \in Requests \ {r}
               PROVE  OwnerOf(q)' = OwnerOf(q) /\ KindOf(q)' = KindOf(q)
    OBVIOUS
  <2>1. found'[q] = found[q] /\ call' = call
    BY <1>1
  <2>2. (CHOOSE x \in found'[q] : TRUE) = (CHOOSE x \in found[q] : TRUE)
    BY <2>1
  <2> QED BY <2>1, <2>2 DEF OwnerOf, KindOf
<1>4. WritesOwnSlot'
  BY <1>1, <1>3 DEF WritesOwnSlot, AsCalled, New
<1>5. PictureIsLive' /\ (\A x \in media : AsCalled(x))'
  BY <1>1 DEF PictureIsLive, AsCalled, Live
<1> QED BY <1>2, <1>4, <1>5

\* The steps of a transaction before its commit.
LEMMA WriteStep ==
  ASSUME TypeOK, SlotDiscipline, NEW r \in Requests,
         StartClear(r) \/ Clear(r) \/ Insert(r) \/ Delete(r) \/ CountPhotos(r) \/ Store(r)
  PROVE  SlotDiscipline'
<1> USE DEF SlotDiscipline, Writing, database
<1>1. /\ UNCHANGED <<call, found, media, picture, open>>
      /\ pc[r] \in {"slot", "clear", "insert", "delete", "count", "store"}
      /\ pc'[r] \in {"clear", "insert", "count", "store", "commit"}
      /\ \A q \in Requests \ {r} : pc'[q] = pc[q] /\ matched'[q] = matched[q]
                                   /\ wrote'[q] = wrote[q] /\ holds'[q] = holds[q]
      /\ pc'[r] \in {"clear", "insert"} => call[r].op = "attach"
      /\ pc'[r] \in {"clear", "insert"} => call[r].kind # "PHOTO"
      /\ matched'[r] = matched[r] \/ StartClear(r)
      /\ Clear(r) \/ Insert(r) \/ Delete(r) \/ wrote'[r] = wrote[r]
      /\ pc'[r] # "commit" => holds'[r] = holds[r]
      /\ pc'[r] = "commit" => Store(r) \/ Delete(r)
  BY DEF StartClear, Clear, Insert, Delete, CountPhotos, Store, CallsOnTrack, TypeOK
<1>2. \A q \in Requests : OwnerOf(q)' = OwnerOf(q) /\ KindOf(q)' = KindOf(q)
  BY <1>1 DEF OwnerOf, KindOf
<1>3. CASE StartClear(r)
  <2>1. /\ wrote' = wrote /\ holds' = holds /\ pc'[r] = "clear" /\ pc[r] = "slot"
        /\ matched'[r] = Cleared(r)
    BY <1>3 DEF StartClear, TypeOK
  <2>2. \A id \in matched'[r] : call[id].op = "attach"
           /\ call[id].owner = call[r].owner /\ call[id].kind = call[r].kind
    BY <2>1 DEF Cleared, Live, AsCalled
  <2>3. CallsOnTrack'
    BY <1>1, <2>1, <2>2 DEF CallsOnTrack, AsCalled
  <2>4. WritesOwnSlot'
    BY <1>1, <1>2, <2>1 DEF WritesOwnSlot, AsCalled, New
  <2>5. PictureIsLive' /\ (\A x \in media : AsCalled(x))'
    BY <1>1 DEF PictureIsLive, AsCalled, Live
  <2> QED BY <2>3, <2>4, <2>5
<1>4. CASE ~StartClear(r)
  <2>1. CallsOnTrack'
    BY <1>1, <1>4 DEF CallsOnTrack, AsCalled
  <2>2. PictureIsLive' /\ (\A x \in media : AsCalled(x))'
    BY <1>1 DEF PictureIsLive, AsCalled, Live
  <2>3. /\ OwnerOf(r) = call[Subject(r)].owner /\ KindOf(r) = call[Subject(r)].kind
        /\ call[Subject(r)].op = "attach"
    BY <1>1, SubjectNames
  <2>4. \A w \in wrote'[r] : AsCalled(w) /\ w.owner = OwnerOf(r) /\ w.kind = KindOf(r)
    <3>1. CASE Clear(r)
      <4>1. wrote'[r] = {Dead(x) : x \in {y \in media : y.id \in matched[r] /\ y.live}}
            /\ call[r].op = "attach"
        BY <3>1 DEF Clear, TypeOK, CallsOnTrack
      <4> QED BY <2>3, <4>1 DEF CallsOnTrack, AsCalled, Dead, Subject
    <3>2. CASE Insert(r)
      <4>1. wrote'[r] = wrote[r] \cup {New(r)} /\ call[r].op = "attach"
        BY <3>2 DEF Insert, TypeOK, CallsOnTrack
      <4>2. New(r).id = r /\ New(r).owner = call[r].owner /\ New(r).kind = call[r].kind
        BY DEF New
      <4>3. OwnerOf(r) = call[r].owner /\ KindOf(r) = call[r].kind
        BY <4>1 DEF OwnerOf, KindOf
      <4>4. AsCalled(New(r))
        BY <4>1, <4>2 DEF AsCalled
      <4>5. \A w \in wrote[r] : AsCalled(w) /\ w.owner = OwnerOf(r) /\ w.kind = KindOf(r)
        BY DEF WritesOwnSlot
      <4> QED BY <4>1, <4>2, <4>3, <4>4, <4>5
    <3>3. CASE Delete(r)
      <4>1. wrote'[r] = {Dead(x) : x \in {y \in media : y.id = call[r].target /\ y.live}}
            /\ call[r].op = "remove"
        BY <3>3 DEF Delete, TypeOK, CallsOnTrack
      <4> QED BY <2>3, <4>1 DEF AsCalled, Dead, Subject
    <3> QED BY <1>1, <3>1, <3>2, <3>3 DEF WritesOwnSlot
  <2>5. pc'[r] \in {"count", "store", "commit"} /\ call[r].op = "attach" => New(r) \in wrote'[r]
    <3>1. CASE Insert(r)
      BY <3>1 DEF Insert, TypeOK
    <3>2. CASE Delete(r) \/ Clear(r)
      BY <3>2 DEF Delete, Clear, CallsOnTrack, TypeOK
    <3>3. CASE CountPhotos(r) \/ Store(r)
      BY <3>3 DEF CountPhotos, Store, WritesOwnSlot, TypeOK
    <3> QED BY <1>4, <3>1, <3>2, <3>3
  <2>6. /\ \A o \in holds'[r] : o = OwnerOf(r)
        /\ pc'[r] # "commit" => holds'[r] = {}
        /\ pc'[r] = "commit" /\ KindOf(r) # "PHOTO"
             => OwnerOf(r) \in holds'[r] \/ OwnerOf(r) \notin open
    <3>1. CASE Store(r)
      BY <3>1 DEF Store, TypeOK
    <3>2. CASE ~Store(r)
      <4>1. holds'[r] = holds[r] /\ holds[r] = {}
        BY <1>1, <3>2 DEF WritesOwnSlot, Delete, Clear, Insert, CountPhotos
      <4>2. pc'[r] = "commit" => KindOf(r) = "PHOTO"
        BY <1>1, <3>2 DEF Delete, TypeOK
      <4> QED BY <4>1, <4>2
    <3> QED BY <3>1, <3>2
  <2>7. WritesOwnSlot'
    <3>1. KindOf(r) = call[r].kind \/ call[r].op # "attach"
      BY DEF KindOf
    <3>2. New(r)' = New(r) /\ \A q \in Requests : New(q)' = New(q)
      BY <1>1 DEF New
    <3>3. \A w : AsCalled(w)' <=> AsCalled(w)
      BY <1>1 DEF AsCalled
    <3>4. pc'[r] # "clear"
      BY <1>4 DEF Clear, Insert, Delete, CountPhotos, Store, TypeOK
    <3>5. pc'[r] = "count" => KindOf(r) = "PHOTO"
      BY <1>4 DEF Clear, Insert, Delete, CountPhotos, Store, TypeOK, CallsOnTrack, KindOf
    <3> QED
      BY <1>1, <1>2, <2>4, <2>5, <2>6, <3>1, <3>2, <3>3, <3>4, <3>5 DEF WritesOwnSlot
  <2> QED BY <2>1, <2>2, <2>7
<1> QED BY <1>3, <1>4

LEMMA PlacePhotoStep ==
  ASSUME TypeOK, SlotDiscipline, NEW r \in Requests, InsertPlacePhoto(r)
  PROVE  SlotDiscipline'
<1> USE DEF SlotDiscipline, Writing
<1>1. /\ UNCHANGED <<call, found, matched, picture, open, wrote, holds>>
      /\ pc[r] = "insert" /\ pc'[r] \in Ended /\ call[r].kind = "PHOTO"
      /\ \A q \in Requests \ {r} : pc'[q] = pc[q]
      /\ media' = media \cup {New(r)}
  BY DEF InsertPlacePhoto, TypeOK
<1>2. call[r].op = "attach" /\ KindOf(r) = "PHOTO" /\ AsCalled(New(r))
  BY <1>1 DEF CallsOnTrack, KindOf, AsCalled, New
<1>3. (\A x \in media : AsCalled(x))'
  BY <1>1, <1>2 DEF AsCalled
<1>4. CallsOnTrack'
  BY <1>1 DEF CallsOnTrack, AsCalled, Ended
<1>5. \A q \in Requests : OwnerOf(q)' = OwnerOf(q) /\ KindOf(q)' = KindOf(q)
  BY <1>1 DEF OwnerOf, KindOf
<1>6. WritesOwnSlot'
  <2>1. wrote[r] = {} /\ holds[r] = {}
    BY <1>1, <1>2 DEF WritesOwnSlot
  <2> QED BY <1>1, <1>5, <2>1 DEF WritesOwnSlot, AsCalled, New, Ended
<1>7. PictureIsLive'
  BY <1>1 DEF PictureIsLive, Live
<1> QED BY <1>3, <1>4, <1>6, <1>7

\* A commit that touches a slot's rows overwrites the slot's column as well.
LEMMA CommitStep ==
  ASSUME TypeOK, SlotDiscipline, NEW r \in Requests, Commit(r)
  PROVE  SlotDiscipline'
<1> USE DEF SlotDiscipline, Writing
<1>1. /\ UNCHANGED <<call, found, matched, open>>
      /\ pc[r] = "commit" /\ pc'[r] \in Ended /\ wrote'[r] = {} /\ holds'[r] = {}
      /\ \A q \in Requests \ {r} :
           pc'[q] = pc[q] /\ wrote'[q] = wrote[q] /\ holds'[q] = holds[q]
      /\ media' = Seen(r)
      /\ picture' = [s \in Slots |->
           IF s[1] \in holds[r] /\ s[2] = KindOf(r) THEN Shown(r) ELSE picture[s]]
  BY DEF Commit, TypeOK
<1>2. (\A x \in media : AsCalled(x))'
  BY <1>1 DEF Seen, WritesOwnSlot, AsCalled
<1>3. CallsOnTrack'
  BY <1>1 DEF CallsOnTrack, AsCalled, Ended
<1>4. \A q \in Requests : OwnerOf(q)' = OwnerOf(q) /\ KindOf(q)' = KindOf(q)
  BY <1>1 DEF OwnerOf, KindOf
<1>5. WritesOwnSlot'
  BY <1>1, <1>4 DEF WritesOwnSlot, AsCalled, New, Ended
<1>6. PictureIsLive'
  <2> SUFFICES ASSUME NEW s \in Slots, s[1] \in open, NEW id \in picture'[s]
               PROVE  \E x \in Live(media', s[1], s[2]) : x.id = id
    BY <1>1 DEF PictureIsLive, Live
  <2>1. CASE s[1] \in holds[r] /\ s[2] = KindOf(r)
    <3>1. call[r].op = "attach" /\ id = r
      BY <1>1, <2>1 DEF Shown
    <3>2. New(r) \in media' /\ New(r).owner = s[1] /\ New(r).kind = s[2]
      BY <1>1, <2>1, <3>1 DEF WritesOwnSlot, Seen
    <3> QED BY <3>1, <3>2 DEF Live, New
  <2>2. CASE ~(s[1] \in holds[r] /\ s[2] = KindOf(r))
    <3>1. PICK x \in Live(media, s[1], s[2]) : x.id = id
      BY <1>1, <2>2 DEF PictureIsLive
    <3>2. s[2] # "PHOTO"
      BY DEF Slots
    <3>3. ASSUME NEW w \in wrote[r], w.id = x.id PROVE FALSE
      <4>1. OwnerOf(r) = s[1] /\ KindOf(r) = s[2]
        BY <3>1, <3>3 DEF WritesOwnSlot, AsCalled, Live
      <4> QED BY <1>1, <2>2, <3>2, <4>1 DEF WritesOwnSlot
    <3> QED BY <1>1, <3>1, <3>3 DEF Seen, Live
  <2> QED BY <2>1, <2>2
<1> QED BY <1>2, <1>3, <1>5, <1>6

LEMMA FailStep ==
  ASSUME TypeOK, SlotDiscipline, NEW r \in Requests, Fail(r)
  PROVE  SlotDiscipline'
<1> USE DEF SlotDiscipline, Writing
<1>1. /\ UNCHANGED <<call, found, matched, media, picture, open>>
      /\ pc'[r] = "error" /\ wrote'[r] = {} /\ holds'[r] = {}
      /\ \A q \in Requests \ {r} :
           pc'[q] = pc[q] /\ wrote'[q] = wrote[q] /\ holds'[q] = holds[q]
  BY DEF Fail, TypeOK
<1>2. \A q \in Requests : OwnerOf(q)' = OwnerOf(q) /\ KindOf(q)' = KindOf(q)
  BY <1>1 DEF OwnerOf, KindOf
<1>3. WritesOwnSlot'
  BY <1>1, <1>2 DEF WritesOwnSlot, AsCalled, New
<1>4. CallsOnTrack'
  BY <1>1 DEF CallsOnTrack, AsCalled
<1> QED BY <1>1, <1>3, <1>4 DEF PictureIsLive, AsCalled, Live

LEMMA DisciplineStep ==
  ASSUME TypeOK, SlotDiscipline, [Next]_vars
  PROVE  SlotDiscipline'
<1>1. ASSUME UNCHANGED <<call, pc, found, matched, media, picture, wrote, holds>>,
             open' \subseteq open
      PROVE  SlotDiscipline'
  <2>1. \A q \in Requests : OwnerOf(q)' = OwnerOf(q) /\ KindOf(q)' = KindOf(q)
    BY <1>1 DEF OwnerOf, KindOf
  <2>2. WritesOwnSlot'
    BY <1>1, <2>1 DEF SlotDiscipline, WritesOwnSlot, AsCalled, New
  <2> QED BY <1>1, <2>2 DEF SlotDiscipline, CallsOnTrack, PictureIsLive, AsCalled, Live
<1>2. ASSUME NEW o \in Owners, DeleteOwner(o) PROVE SlotDiscipline'
  BY <1>1, <1>2 DEF DeleteOwner
<1>3. CASE UNCHANGED vars
  BY <1>1, <1>3 DEF vars, database
<1> QED
  BY <1>2, <1>3, CheckStep, WriteStep, PlacePhotoStep, CommitStep, FailStep
     DEF Next, Progress, AllAnswered

\* Tables and request records keep their types, for any number of requests.
THEOREM TypeCorrect == Spec => []TypeOK
<1>1. Init => TypeOK /\ Finite /\ SlotDiscipline
  BY InitTypes, InitDiscipline
<1>2. TypeOK /\ Finite /\ SlotDiscipline /\ [Next]_vars
        => (TypeOK /\ Finite /\ SlotDiscipline)'
  BY TypesStep, DisciplineStep DEF SlotDiscipline
<1> QED BY <1>1, <1>2, PTL DEF Spec

\* A picture column never points at a deleted image, nor at another owner's.
THEOREM PicturesAlwaysLive == Spec => []PictureIsLive
<1>1. TypeOK /\ SlotDiscipline /\ [Next]_vars => SlotDiscipline'
  BY DisciplineStep
<1>2. SlotDiscipline => PictureIsLive
  BY DEF SlotDiscipline
<1> QED BY InitDiscipline, <1>1, <1>2, TypeCorrect, PTL DEF Spec

\* Transactions write in their own slot and update the owner before they commit.
THEOREM SlotDisciplineHolds == Spec => []SlotDiscipline
<1>1. TypeOK /\ SlotDiscipline /\ [Next]_vars => SlotDiscipline'
  BY DisciplineStep
<1> QED BY InitDiscipline, <1>1, TypeCorrect, PTL DEF Spec

-----------------------------------------------------------------------------
(* LoneView: nobody disturbs the slot of an attach that met no other.         *)

SameSlot(q, r) == OwnerOf(q) = OwnerOf(r) /\ KindOf(q) = KindOf(r)
Mine(r) == Live(Seen(r), OwnerOf(r), KindOf(r))

LoneAt(r) ==
  pc[r] \in Writing /\ ~met[r] =>
    /\ \A q \in Requests \ {r} : pc[q] \in Writing => ~SameSlot(q, r)
    /\ call[r].op = "attach" /\ KindOf(r) # "PHOTO" =>
         /\ pc[r] = "clear" =>
              matched[r] = {x.id : x \in Live(media, OwnerOf(r), KindOf(r))}
         /\ pc[r] = "insert" => Mine(r) = {}
         /\ pc[r] \in {"store", "commit"} => Mine(r) = {New(r)}

LEMMA LoneViewAt == LoneView <=> \A r \in Requests : LoneAt(r)
BY DEF LoneView, LoneAt, Mine, SameSlot

LEMMA EnterNotes ==
  ASSUME TypeOK, NEW r \in Requests, NEW o, NEW k, Enter(r, o, k)
  PROVE  /\ ~met'[r] => \A q \in Requests \ {r} :
              pc[q] \in Writing => ~(OwnerOf(q) = o /\ KindOf(q) = k)
         /\ \A s \in Requests \ {r} : ~met'[s] =>
              ~met[s] /\ (pc[s] \in Writing => ~(OwnerOf(s) = o /\ KindOf(s) = k))
<1> DEFINE others == {q \in Requests \ {r} :
                        pc[q] \in Writing /\ OwnerOf(q) = o /\ KindOf(q) = k}
<1>1. met' = [q \in Requests |-> IF q = r THEN others # {} ELSE met[q] \/ q \in others]
  BY DEF Enter
<1>2. met'[r] = (others # {})
  BY <1>1
<1>3. \A s \in Requests \ {r} : met'[s] = (met[s] \/ s \in others)
  BY <1>1
<1> QED BY <1>2, <1>3

\* Lookups: r may start to write, and Enter has told those it overlaps.
LEMMA LoneCheckStep ==
  ASSUME TypeOK, SlotDiscipline, LoneView, NEW r \in Requests, NEW s \in Requests,
         StartAttach(r) \/ StartRemove(r) \/ CheckCap(r) \/ CheckKeeper(r)
  PROVE  LoneAt(s)'
<1> USE DEF database
<1>1. /\ UNCHANGED <<call, matched, media, wrote>>
      /\ \A q \in Requests \ {r} : pc'[q] = pc[q] /\ found'[q] = found[q]
      /\ pc'[r] \in Writing => pc'[r] \in {"slot", "insert", "delete"}
      /\ pc'[r] = "insert" => KindOf(r)' = "PHOTO"
      /\ pc'[r] = "delete" => call[r].op = "remove"
  <2>1. CASE StartAttach(r)
    BY <2>1 DEF StartAttach, TypeOK, Writing
  <2>2. CASE StartRemove(r)
    BY <2>2, CallTypes DEF StartRemove, TypeOK, Writing
  <2>3. CASE CheckCap(r)
    BY <2>3 DEF CheckCap, TypeOK, SlotDiscipline, CallsOnTrack, KindOf, Writing
  <2>4. CASE CheckKeeper(r)
    BY <2>4 DEF CheckKeeper, TypeOK, SlotDiscipline, CallsOnTrack, Writing
  <2> QED BY <2>1, <2>2, <2>3, <2>4
<1>2. \A q \in Requests \ {r} : OwnerOf(q)' = OwnerOf(q) /\ KindOf(q)' = KindOf(q)
  <2> SUFFICES ASSUME NEW q \in Requests \ {r}
               PROVE  OwnerOf(q)' = OwnerOf(q) /\ KindOf(q)' = KindOf(q)
    OBVIOUS
  <2>1. found'[q] = found[q] /\ call' = call
    BY <1>1
  <2>2. (CHOOSE x \in found'[q] : TRUE) = (CHOOSE x \in found[q] : TRUE)
    BY <2>1
  <2> QED BY <2>1, <2>2 DEF OwnerOf, KindOf
<1>3. pc'[r] \in Writing => Enter(r, OwnerOf(r)', KindOf(r)')
  <2>1. CASE StartAttach(r)
    BY <2>1 DEF StartAttach, TypeOK, Writing, OwnerOf, KindOf
  <2>2. CASE StartRemove(r)
    <3>1. SUFFICES ASSUME pc'[r] \in Writing PROVE Enter(r, OwnerOf(r)', KindOf(r)')
      OBVIOUS
    <3>2. PICK x \in found'[r] : Enter(r, x.owner, x.kind)
      BY <2>2, <3>1 DEF StartRemove, TypeOK, Writing
    <3>3. \A y \in found'[r] : y.owner = x.owner /\ y.kind = x.kind
      BY <2>2 DEF StartRemove, TypeOK, SlotDiscipline, AsCalled
    <3>4. call'[r].op # "attach"
      BY <2>2 DEF StartRemove
    <3>5. (CHOOSE y \in found'[r] : TRUE) \in found'[r]
      BY <3>2
    <3>6. OwnerOf(r)' = x.owner /\ KindOf(r)' = x.kind
      BY <3>3, <3>4, <3>5 DEF OwnerOf, KindOf
    <3> QED BY <3>2, <3>6
  <2>3. CASE CheckCap(r)
    BY <2>3 DEF CheckCap, TypeOK, Writing, OwnerOf, KindOf, SlotDiscipline, CallsOnTrack
  <2>4. CASE CheckKeeper(r)
    <3>1. OwnerOf(r)' = OwnerOf(r) /\ KindOf(r)' = KindOf(r)
      BY <2>4 DEF CheckKeeper, OwnerOf, KindOf
    <3> QED BY <2>4, <3>1 DEF CheckKeeper, TypeOK, Writing
  <2> QED BY <2>1, <2>2, <2>3, <2>4
<1>4. pc'[r] \notin Writing => met' = met
  BY DEF StartAttach, StartRemove, CheckCap, CheckKeeper, Writing, TypeOK
<1>5. CASE s = r
  <2>1. SUFFICES ASSUME pc'[r] \in Writing, ~met'[r] PROVE LoneAt(r)'
    BY <1>5 DEF LoneAt
  <2>2. \A q \in Requests \ {r} : pc'[q] \in Writing => ~SameSlot(q, r)'
    BY <1>1, <1>2, <1>3, <2>1, EnterNotes DEF SameSlot
  <2> QED BY <1>1, <2>1, <2>2 DEF LoneAt
<1>6. CASE s # r
  <2>1. SUFFICES ASSUME pc'[s] \in Writing, ~met'[s] PROVE LoneAt(s)'
    BY DEF LoneAt
  <2>2. ~met[s] /\ (pc'[r] \in Writing => ~SameSlot(r, s)')
    BY <1>2, <1>3, <1>4, <1>6, <2>1, EnterNotes, <1>1 DEF SameSlot
  <2>3. LoneAt(s) /\ pc[s] \in Writing
    BY <1>1, <1>6, <2>1, LoneViewAt
  <2>4. \A q \in Requests \ {s} : pc'[q] \in Writing => ~SameSlot(q, s)'
    BY <1>1, <1>2, <1>6, <2>2, <2>3 DEF LoneAt, SameSlot
  <2>5. Mine(s)' = Mine(s) /\ New(s)' = New(s)
    BY <1>1, <1>2, <1>6 DEF Mine, Seen, New
  <2> QED BY <1>1, <1>2, <1>6, <2>2, <2>3, <2>4, <2>5 DEF LoneAt
<1> QED BY <1>5, <1>6

LEMMA LiveSeen ==
  ASSUME NEW s
  PROVE  Mine(s) = {x \in Live(media, OwnerOf(s), KindOf(s)) :
                      \A w \in wrote[s] : w.id # x.id}
                   \cup Live(wrote[s], OwnerOf(s), KindOf(s))
BY DEF Mine, Seen, Live

\* What r itself does to its slot.
LEMMA LoneOwnStep ==
  ASSUME TypeOK, SlotDiscipline, NEW r \in Requests, LoneAt(r),
         StartClear(r) \/ Clear(r) \/ Insert(r) \/ Delete(r) \/ CountPhotos(r) \/ Store(r)
  PROVE  LoneAt(r)'
<1> USE DEF database
<1>1. /\ UNCHANGED <<call, found, media, met>> /\ pc[r] \in Writing
      /\ \A q \in Requests \ {r} : pc'[q] = pc[q]
  BY DEF StartClear, Clear, Insert, Delete, CountPhotos, Store, TypeOK, Writing
<1>2. \A q \in Requests : OwnerOf(q)' = OwnerOf(q) /\ KindOf(q)' = KindOf(q)
  BY <1>1 DEF OwnerOf, KindOf
<1> SUFFICES ASSUME pc'[r] \in Writing, ~met[r]
             PROVE  /\ \A q \in Requests \ {r} : pc'[q] \in Writing => ~SameSlot(q, r)'
                    /\ call[r].op = "attach" /\ KindOf(r) # "PHOTO" =>
                         /\ pc'[r] = "clear" => matched'[r] =
                              {x.id : x \in Live(media, OwnerOf(r), KindOf(r))}
                         /\ pc'[r] = "insert" => Mine(r)' = {}
                         /\ pc'[r] \in {"store", "commit"} => Mine(r)' = {New(r)}
  BY <1>1, <1>2 DEF LoneAt, New
<1>3. \A q \in Requests \ {r} : pc'[q] \in Writing => ~SameSlot(q, r)'
  BY <1>1, <1>2 DEF LoneAt, SameSlot
<1> SUFFICES ASSUME call[r].op = "attach", KindOf(r) # "PHOTO"
             PROVE  /\ pc'[r] = "clear" => matched'[r] =
                         {x.id : x \in Live(media, OwnerOf(r), KindOf(r))}
                    /\ pc'[r] = "insert" => Mine(r)' = {}
                    /\ pc'[r] \in {"store", "commit"} => Mine(r)' = {New(r)}
  BY <1>3
<1>4. OwnerOf(r) = call[r].owner /\ KindOf(r) = call[r].kind
  BY DEF OwnerOf, KindOf
<1>5. CASE StartClear(r)
  BY <1>4, <1>5 DEF StartClear, Cleared, TypeOK
<1>6. CASE Clear(r)
  <2> DEFINE S == {y \in media : y.id \in matched[r] /\ y.live}
  <2>1. pc[r] = "clear" /\ pc'[r] = "insert" /\ wrote'[r] = {Dead(x) : x \in S}
    BY <1>6 DEF Clear, TypeOK
  <2>2. matched[r] = {x.id : x \in Live(media, OwnerOf(r), KindOf(r))}
    BY <1>1, <2>1 DEF LoneAt
  <2>3. ASSUME NEW x \in Live(media, OwnerOf(r), KindOf(r))
        PROVE  \E w \in wrote'[r] : w.id = x.id
    <3>1. x \in S
      BY <2>2, <2>3 DEF Live
    <3>2. Dead(x) \in wrote'[r]
      BY <2>1, <3>1
    <3>3. Dead(x).id = x.id
      BY DEF Dead
    <3> QED BY <3>2, <3>3
  <2>4. Live(wrote'[r], OwnerOf(r), KindOf(r)) = {}
    BY <2>1 DEF Live, Dead
  <2>5. Mine(r)' = {x \in Live(media, OwnerOf(r), KindOf(r)) :
                      \A w \in wrote'[r] : w.id # x.id}
                   \cup Live(wrote'[r], OwnerOf(r), KindOf(r))
    BY <1>1, <1>2 DEF Mine, Seen, Live
  <2>6. Mine(r)' = {}
    BY <2>3, <2>4, <2>5
  <2> QED BY <2>1, <2>6
<1>7. CASE Insert(r)
  <2>1. /\ pc[r] = "insert" /\ pc'[r] = "store"
        /\ wrote'[r] = wrote[r] \cup {New(r)}
    BY <1>4, <1>7 DEF Insert, TypeOK
  <2>2. Mine(r) = {}
    BY <1>1, <2>1 DEF LoneAt
  <2>3. New(r).live /\ New(r).owner = OwnerOf(r) /\ New(r).kind = KindOf(r)
    BY <1>4 DEF New
  <2>4. Mine(r)' = {New(r)}
    BY <1>1, <1>2, <2>1, <2>2, <2>3 DEF Mine, Seen, Live
  <2> QED BY <2>1, <2>4
<1>8. CASE Delete(r)
  BY <1>8 DEF Delete, SlotDiscipline, CallsOnTrack
<1>9. CASE CountPhotos(r) \/ Store(r)
  <2>1. UNCHANGED <<media, wrote>> /\ pc'[r] \in {"store", "commit"}
        /\ pc[r] \in {"count", "store"}
    BY <1>9 DEF CountPhotos, Store, TypeOK
  <2>2. Mine(r)' = Mine(r)
    BY <1>1, <1>2, <2>1 DEF Mine, Seen, Live
  <2>3. CASE Store(r)
    BY <1>1, <2>1, <2>2, <2>3 DEF Store, LoneAt
  <2>4. CASE CountPhotos(r)
    <3>1. KindOf(r) = "PHOTO"
      BY <2>4 DEF CountPhotos, SlotDiscipline, WritesOwnSlot
    <3> QED BY <3>1, <1>4
  <2> QED BY <1>9, <2>3, <2>4
<1> QED BY <1>5, <1>6, <1>7, <1>8, <1>9

\* Nothing another request does touches the rows of a lone one.
LEMMA MineStays ==
  ASSUME TypeOK, SlotDiscipline, NEW r \in Requests, NEW s \in Requests \ {r}, LoneAt(s),
         pc[s] \in Writing, ~met[s],
         \/ StartClear(r) \/ Clear(r) \/ Insert(r) \/ Delete(r) \/ CountPhotos(r)
         \/ Store(r) \/ Commit(r) \/ InsertPlacePhoto(r) \/ Fail(r)
  PROVE  Mine(s)' = Mine(s)
<1> USE DEF database
<1>1. UNCHANGED <<call, found>> /\ wrote'[s] = wrote[s]
  BY DEF StartClear, Clear, Insert, Delete, CountPhotos, Store, Commit,
         InsertPlacePhoto, Fail, TypeOK
<1>2. \A q \in Requests : OwnerOf(q)' = OwnerOf(q) /\ KindOf(q)' = KindOf(q)
  BY <1>1 DEF OwnerOf, KindOf
<1>3. Live(media', OwnerOf(s), KindOf(s)) = Live(media, OwnerOf(s), KindOf(s))
  <2>1. CASE media' = media
    BY <2>1
  <2>2. CASE InsertPlacePhoto(r)
    <3>1. media' = media \cup {New(r)} /\ pc[r] = "insert" /\ pc[r] \in Writing
      BY <2>2 DEF InsertPlacePhoto, Writing
    <3>2. New(r).owner = OwnerOf(r) /\ New(r).kind = KindOf(r)
      BY <3>1 DEF SlotDiscipline, CallsOnTrack, OwnerOf, KindOf, New
    <3>3. ~SameSlot(r, s)
      BY <3>1 DEF LoneAt
    <3> QED BY <3>1, <3>2, <3>3 DEF Live, SameSlot
  <2>3. CASE Commit(r)
    <3>1. media' = Seen(r) /\ pc[r] \in Writing
      BY <2>3 DEF Commit, Writing
    <3>2. ~SameSlot(r, s)
      BY <3>1 DEF LoneAt
    <3>3. \A w \in wrote[r] : ~(w.owner = OwnerOf(s) /\ w.kind = KindOf(s))
      BY <3>2 DEF SlotDiscipline, WritesOwnSlot, SameSlot
    <3>4. \A x \in media, w \in wrote[r] :
            w.id = x.id => w.owner = x.owner /\ w.kind = x.kind
      BY DEF SlotDiscipline, WritesOwnSlot, AsCalled
    <3>5. \A x : x \in Live(media', OwnerOf(s), KindOf(s))
                   => x \in Live(media, OwnerOf(s), KindOf(s))
      BY <3>1, <3>3 DEF Seen, Live
    <3>6. \A x : x \in Live(media, OwnerOf(s), KindOf(s))
                   => x \in Live(media', OwnerOf(s), KindOf(s))
      <4> SUFFICES ASSUME NEW x \in media, x.live,
                          x.owner = OwnerOf(s), x.kind = KindOf(s)
                   PROVE  x \in media'
        BY DEF Live
      <4>1. \A w \in wrote[r] : w.id # x.id
        BY <3>3, <3>4
      <4> QED BY <3>1, <4>1 DEF Seen
    <3> QED BY <3>5, <3>6
  <2> QED
    BY <2>1, <2>2, <2>3 DEF StartClear, Clear, Insert, Delete, CountPhotos, Store, Fail
<1>4. Mine(s)' = {x \in Live(media', OwnerOf(s), KindOf(s)) :
                    \A w \in wrote[s] : w.id # x.id}
                 \cup Live(wrote[s], OwnerOf(s), KindOf(s))
  BY <1>1, <1>2 DEF Mine, Seen, Live
<1> QED BY <1>3, <1>4, LiveSeen

LEMMA LoneOtherStep ==
  ASSUME TypeOK, SlotDiscipline, NEW r \in Requests, NEW s \in Requests \ {r}, LoneAt(s),
         \/ StartClear(r) \/ Clear(r) \/ Insert(r) \/ Delete(r) \/ CountPhotos(r)
         \/ Store(r) \/ Commit(r) \/ InsertPlacePhoto(r) \/ Fail(r)
  PROVE  LoneAt(s)'
<1> USE DEF database
<1>1. /\ UNCHANGED <<call, found, met>> /\ pc'[s] = pc[s]
      /\ matched'[s] = matched[s] /\ wrote'[s] = wrote[s]
      /\ \A q \in Requests : pc'[q] \in Writing => pc[q] \in Writing
  BY DEF StartClear, Clear, Insert, Delete, CountPhotos, Store, Commit,
         InsertPlacePhoto, Fail, TypeOK, Writing, Ended
<1>2. \A q \in Requests : OwnerOf(q)' = OwnerOf(q) /\ KindOf(q)' = KindOf(q)
  BY <1>1 DEF OwnerOf, KindOf
<1> SUFFICES ASSUME pc[s] \in Writing, ~met[s]
             PROVE  LoneAt(s)'
  BY <1>1 DEF LoneAt
<1>3. \A q \in Requests \ {s} : pc'[q] \in Writing => ~SameSlot(q, s)'
  BY <1>1, <1>2 DEF LoneAt, SameSlot
<1>4. Mine(s)' = Mine(s)
  BY MineStays
<1>5. pc[s] = "clear" /\ call[s].op = "attach" /\ KindOf(s) # "PHOTO" =>
        Live(media', OwnerOf(s), KindOf(s)) = Live(media, OwnerOf(s), KindOf(s))
  <2> SUFFICES ASSUME pc[s] = "clear", call[s].op = "attach", KindOf(s) # "PHOTO"
               PROVE  Live(media', OwnerOf(s), KindOf(s)) = Live(media, OwnerOf(s), KindOf(s))
    OBVIOUS
  <2>1. wrote[s] = {} /\ wrote'[s] = {}
    BY <1>1 DEF SlotDiscipline, WritesOwnSlot, Writing
  <2> QED BY <1>2, <1>4, <2>1 DEF Mine, Seen, Live
<1>6. New(s)' = New(s)
  BY <1>1 DEF New
<1> QED BY <1>1, <1>2, <1>3, <1>4, <1>5, <1>6 DEF LoneAt

LEMMA LoneStep ==
  ASSUME TypeOK, SlotDiscipline, LoneView, [Next]_vars
  PROVE  LoneView'
<1> SUFFICES ASSUME NEW s \in Requests
             PROVE  LoneAt(s)'
  BY LoneViewAt DEF LoneView, LoneAt, Mine, SameSlot
<1>1. LoneAt(s)
  BY LoneViewAt
<1>2. ASSUME UNCHANGED <<call, pc, found, matched, media, wrote, met>>
      PROVE  LoneAt(s)'
  <2>1. \A q \in Requests : OwnerOf(q)' = OwnerOf(q) /\ KindOf(q)' = KindOf(q)
    BY <1>2 DEF OwnerOf, KindOf
  <2>2. Mine(s)' = Mine(s) /\ New(s)' = New(s)
    BY <1>2, <2>1 DEF Mine, Seen, New
  <2> QED BY <1>1, <1>2, <2>1, <2>2 DEF LoneAt, SameSlot
<1>3. ASSUME NEW r \in Requests,
             StartAttach(r) \/ StartRemove(r) \/ CheckCap(r) \/ CheckKeeper(r)
      PROVE  LoneAt(s)'
  BY <1>3, LoneCheckStep
<1>4. ASSUME NEW r \in Requests, r # s, Progress(r) \/ Fail(r) PROVE LoneAt(s)'
  BY <1>1, <1>3, <1>4, LoneOtherStep DEF Progress
<1>5. ASSUME Progress(s) \/ Fail(s) PROVE LoneAt(s)'
  <2>1. CASE Commit(s) \/ InsertPlacePhoto(s) \/ Fail(s)
    <3>1. pc'[s] \notin Writing
      BY <2>1 DEF Commit, InsertPlacePhoto, Fail, TypeOK, Writing, Ended
    <3> QED BY <3>1 DEF LoneAt
  <2> QED BY <1>1, <1>3, <1>5, <2>1, LoneOwnStep DEF Progress
<1>6. ASSUME NEW o \in Owners, DeleteOwner(o) PROVE LoneAt(s)'
  BY <1>2, <1>6 DEF DeleteOwner
<1>7. CASE UNCHANGED vars
  BY <1>2, <1>7 DEF vars, database
<1> QED BY <1>3, <1>4, <1>5, <1>6, <1>7 DEF Next, AllAnswered

\* An attach that met no other on its slot leaves its image alone there and
\* shows it, whatever rows earlier overlaps had left behind.
THEOREM LoneAttachesOwnSlots == Spec => LoneAttachOwnsSlot
<1>1. Init => LoneView
  BY DEF Init, LoneView, Writing
<1>2. TypeOK /\ SlotDiscipline /\ LoneView /\ [Next]_vars => LoneView'
  BY LoneStep
<1>3. ASSUME TypeOK, SlotDiscipline, LoneView, NEW r \in Requests,
             Commit(r), ~met[r], call[r].op = "attach", KindOf(r) # "PHOTO"
      PROVE  /\ Live(media, OwnerOf(r), KindOf(r))' = {New(r)}
             /\ OwnerOf(r) \in open => picture'[<<OwnerOf(r), KindOf(r)>>] = {r}
  <2>1. /\ pc[r] = "commit" /\ media' = Seen(r) /\ UNCHANGED <<call, found>>
        /\ picture' = [s \in Slots |->
             IF s[1] \in holds[r] /\ s[2] = KindOf(r) THEN Shown(r) ELSE picture[s]]
    BY <1>3 DEF Commit
  <2>2. Mine(r) = {New(r)}
    BY <1>3, <2>1, LoneViewAt DEF LoneAt, Writing
  <2>3. OwnerOf(r)' = OwnerOf(r) /\ KindOf(r)' = KindOf(r)
    BY <2>1 DEF OwnerOf, KindOf
  <2>4. Live(media, OwnerOf(r), KindOf(r))' = {New(r)}
    BY <2>1, <2>2, <2>3 DEF Mine, Live
  <2>5. <<OwnerOf(r), KindOf(r)>> \in Slots
    BY <1>3 DEF TypeOK, Attach, Remove, OwnerOf, KindOf, Slots, Owners, Kinds
  <2>6. OwnerOf(r) \in open => OwnerOf(r) \in holds[r]
    BY <1>3, <2>1 DEF SlotDiscipline, WritesOwnSlot
  <2> QED BY <1>3, <2>1, <2>4, <2>5, <2>6 DEF Shown
<1>4. TypeOK /\ SlotDiscipline /\ LoneView /\ [Next]_vars
        => [\A r \in Requests :
              Commit(r) /\ ~met[r] /\ call[r].op = "attach" /\ KindOf(r) # "PHOTO" =>
                /\ Live(media, OwnerOf(r), KindOf(r))' = {New(r)}
                /\ OwnerOf(r) \in open => picture'[<<OwnerOf(r), KindOf(r)>>] = {r}]_vars
  BY <1>3
<1> QED
  BY <1>1, <1>2, <1>4, TypeCorrect, SlotDisciplineHolds, PTL
     DEF Spec, LoneAttachOwnsSlot
-----------------------------------------------------------------------------
(* LonePhotoView: what a lone request has counted stays true.                *)

Room(r) == MaxPhotos(OwnerOf(r)) - (IF pc[r] = "insert" THEN 1 ELSE 0)

PhotoAt(r) ==
  pc[r] \in Writing /\ KindOf(r) = "PHOTO" =>
    /\ pc[r] = "commit" /\ OwnerOf(r) \in Reviews \cap open => OwnerOf(r) \in holds[r]
    /\ ~met[r] /\ pc[r] \in {"store", "commit"} /\ OwnerOf(r) \in Reviews =>
         counted[r] = Cardinality(Mine(r))
    /\ ~met[r] /\ call[r].op = "attach" => Cardinality(Mine(r)) <= Room(r)

LEMMA PhotoViewAt == LonePhotoView <=> \A r \in Requests : PhotoAt(r)
BY DEF LonePhotoView, PhotoAt, Mine, Room

LEMMA MineFinite ==
  ASSUME TypeOK, Finite, NEW r \in Requests
  PROVE  IsFiniteSet(Mine(r)) /\ Cardinality(Mine(r)) \in Nat
BY SeenFinite, FS_CardinalityType DEF Mine

LEMMA AddOne ==
  ASSUME NEW S, IsFiniteSet(S), NEW x
  PROVE  IsFiniteSet(S \cup {x}) /\ Cardinality(S \cup {x}) <= Cardinality(S) + 1
<1>1. Cardinality(S) \in Nat
  BY FS_CardinalityType
<1> QED BY <1>1, FS_AddElement

LEMMA MaxIsNumber == \A o : MaxPhotos(o) \in Nat
BY MediaConstants DEF MaxPhotos

\* Lookups: a request that starts to insert has just found room.
LEMMA PhotoCheckStep ==
  ASSUME TypeOK, Finite, SlotDiscipline, LonePhotoView, NEW r \in Requests, NEW s \in Requests,
         StartAttach(r) \/ StartRemove(r) \/ CheckCap(r) \/ CheckKeeper(r)
  PROVE  PhotoAt(s)'
<1> USE DEF database
<1>1. /\ UNCHANGED <<call, counted, media, wrote, holds, open>>
      /\ \A q \in Requests \ {r} : pc'[q] = pc[q] /\ found'[q] = found[q]
      /\ pc'[r] \in Writing => pc'[r] \in {"slot", "insert", "delete"}
      /\ pc'[r] = "slot" => KindOf(r)' # "PHOTO"
      /\ pc'[r] = "insert" => CheckCap(r)
      /\ pc'[r] = "delete" => call[r].op # "attach"
  <2>1. CASE StartAttach(r)
    BY <2>1 DEF StartAttach, TypeOK, Writing, KindOf
  <2>2. CASE StartRemove(r)
    BY <2>2, CallTypes DEF StartRemove, TypeOK, Writing
  <2>3. CASE CheckCap(r)
    BY <2>3 DEF CheckCap, TypeOK, Writing
  <2>4. CASE CheckKeeper(r)
    BY <2>4 DEF CheckKeeper, TypeOK, SlotDiscipline, CallsOnTrack, Writing
  <2> QED BY <2>1, <2>2, <2>3, <2>4
<1>2. CASE s = r
  <2> SUFFICES ASSUME pc'[r] = "insert"
               PROVE  Cardinality(Mine(r)') <= Room(r)'
    BY <1>1, <1>2 DEF PhotoAt
  <2>1. /\ pc[r] = "cap" /\ UNCHANGED found
        /\ ~Full(r, Cardinality(Live(media, call[r].owner, "PHOTO")))
    BY <1>1 DEF CheckCap, TypeOK
  <2>2. /\ OwnerOf(r) = call[r].owner /\ KindOf(r) = "PHOTO" /\ wrote[r] = {}
        /\ OwnerOf(r)' = OwnerOf(r) /\ KindOf(r)' = KindOf(r)
    BY <1>1, <2>1 DEF SlotDiscipline, CallsOnTrack, WritesOwnSlot, OwnerOf, KindOf, Writing
  <2>3. Mine(r)' = Mine(r) /\ Mine(r) = Live(media, call[r].owner, "PHOTO")
    BY <1>1, <2>2 DEF Mine, Seen, Live
  <2>4. Cardinality(Mine(r)) < MaxPhotos(OwnerOf(r)) /\ Cardinality(Mine(r)) \in Nat
    BY <2>1, <2>2, <2>3, MaxIsNumber, MineFinite DEF Full
  <2>5. Room(r)' = MaxPhotos(OwnerOf(r)) - 1
    BY <2>2 DEF Room, MaxPhotos
  <2> QED BY <2>3, <2>4, <2>5, MaxIsNumber
<1>3. CASE s # r
  <2>1. OwnerOf(s)' = OwnerOf(s) /\ KindOf(s)' = KindOf(s)
    <3>1. found'[s] = found[s] /\ call' = call
      BY <1>1, <1>3
    <3>2. (CHOOSE x \in found'[s] : TRUE) = (CHOOSE x \in found[s] : TRUE)
      BY <3>1
    <3> QED BY <3>1, <3>2 DEF OwnerOf, KindOf
  <2>2. ~met'[s] => ~met[s]
    BY <1>3, EnterNotes DEF StartAttach, StartRemove, CheckCap, CheckKeeper
  <2>3. Mine(s)' = Mine(s) /\ Room(s)' = Room(s)
    BY <1>1, <1>3, <2>1 DEF Mine, Seen, Room, MaxPhotos
  <2> QED BY <1>1, <1>3, <2>1, <2>2, <2>3, PhotoViewAt DEF PhotoAt
<1> QED BY <1>2, <1>3

\* What r itself does to its gallery.
LEMMA PhotoOwnStep ==
  ASSUME TypeOK, Finite, SlotDiscipline, NEW r \in Requests, PhotoAt(r),
         StartClear(r) \/ Clear(r) \/ Insert(r) \/ Delete(r) \/ CountPhotos(r) \/ Store(r)
  PROVE  PhotoAt(r)'
<1> USE DEF database
<1>1. UNCHANGED <<call, found, media, open, met>> /\ pc[r] \in Writing
  BY DEF StartClear, Clear, Insert, Delete, CountPhotos, Store, TypeOK, Writing
<1>2. OwnerOf(r)' = OwnerOf(r) /\ KindOf(r)' = KindOf(r)
  BY <1>1 DEF OwnerOf, KindOf
<1> SUFFICES ASSUME KindOf(r) = "PHOTO"
             PROVE  PhotoAt(r)'
  BY <1>2 DEF PhotoAt
<1>3. MaxPhotos(OwnerOf(r))' = MaxPhotos(OwnerOf(r))
  BY <1>2 DEF MaxPhotos
<1>4. CASE StartClear(r) \/ Clear(r)
  BY <1>4 DEF StartClear, Clear, SlotDiscipline, CallsOnTrack, KindOf
<1>5. CASE Insert(r)
  <2>1. /\ pc[r] = "insert" /\ pc'[r] = "count" /\ wrote'[r] = wrote[r] \cup {New(r)}
        /\ wrote[r] = {} /\ call[r].op = "attach"
    BY <1>5 DEF Insert, TypeOK, SlotDiscipline, WritesOwnSlot, CallsOnTrack, KindOf
  <2>2. Mine(r)' \subseteq Mine(r) \cup {New(r)}
    BY <1>1, <1>2, <2>1 DEF Mine, Seen, Live
  <2>3. /\ Cardinality(Mine(r)') <= Cardinality(Mine(r) \cup {New(r)})
        /\ Cardinality(Mine(r) \cup {New(r)}) <= Cardinality(Mine(r)) + 1
        /\ Cardinality(Mine(r) \cup {New(r)}) \in Nat /\ Cardinality(Mine(r)') \in Nat
    <3>1. IsFiniteSet(Mine(r) \cup {New(r)})
      BY MineFinite, AddOne
    <3>2. IsFiniteSet(Mine(r)') /\ Cardinality(Mine(r)') <= Cardinality(Mine(r) \cup {New(r)})
      BY <2>2, <3>1, FS_Subset
    <3>3. Cardinality(Mine(r) \cup {New(r)}) <= Cardinality(Mine(r)) + 1
      BY MineFinite, AddOne
    <3> QED BY <3>1, <3>2, <3>3, FS_CardinalityType
  <2>4. ~met[r] => Cardinality(Mine(r)) <= MaxPhotos(OwnerOf(r)) - 1
    BY <1>1, <2>1 DEF PhotoAt, Room
  <2>5. Room(r)' = MaxPhotos(OwnerOf(r))
    BY <1>3, <2>1, MaxIsNumber DEF Room
  <2>6. ~met[r] => Cardinality(Mine(r)') <= Room(r)'
    BY <2>3, <2>4, <2>5, MineFinite, MaxIsNumber
  <2> QED BY <1>1, <2>1, <2>6 DEF PhotoAt
<1>6. CASE Delete(r)
  <2>1. call[r].op # "attach" /\ pc'[r] \in {"count", "commit"}
        /\ (pc'[r] = "commit" => OwnerOf(r) \notin Reviews)
    BY <1>6 DEF Delete, TypeOK, SlotDiscipline, CallsOnTrack
  <2> QED BY <1>1, <1>2, <2>1 DEF PhotoAt
<1>7. CASE CountPhotos(r)
  <2>1. /\ pc[r] = "count" /\ pc'[r] = "store" /\ UNCHANGED wrote
        /\ counted'[r] = Cardinality(Mine(r))
    BY <1>7 DEF CountPhotos, TypeOK, Photos, Mine
  <2>2. Mine(r)' = Mine(r) /\ Room(r)' = Room(r)
    BY <1>1, <1>2, <1>3, <2>1 DEF Mine, Seen, Live, Room
  <2> QED BY <1>1, <1>2, <2>1, <2>2 DEF PhotoAt
<1>8. CASE Store(r)
  <2>1. /\ pc[r] = "store" /\ pc'[r] = "commit" /\ UNCHANGED <<wrote, counted>>
        /\ holds'[r] = {OwnerOf(r)} \cap open
    BY <1>8 DEF Store, TypeOK
  <2>2. Mine(r)' = Mine(r) /\ Room(r)' = Room(r)
    BY <1>1, <1>2, <1>3, <2>1 DEF Mine, Seen, Live, Room
  <2> QED BY <1>1, <1>2, <2>1, <2>2 DEF PhotoAt
<1> QED BY <1>4, <1>5, <1>6, <1>7, <1>8

\* What the others do to it.
LEMMA PhotoOtherStep ==
  ASSUME TypeOK, SlotDiscipline, NEW r \in Requests, NEW s \in Requests \ {r},
         LoneAt(s), PhotoAt(s),
         \/ StartClear(r) \/ Clear(r) \/ Insert(r) \/ Delete(r) \/ CountPhotos(r)
         \/ Store(r) \/ Commit(r) \/ InsertPlacePhoto(r) \/ Fail(r)
  PROVE  PhotoAt(s)'
<1> USE DEF database
<1>1. /\ UNCHANGED <<call, found, met, open>> /\ pc'[s] = pc[s]
      /\ counted'[s] = counted[s] /\ holds'[s] = holds[s]
  BY DEF StartClear, Clear, Insert, Delete, CountPhotos, Store, Commit,
         InsertPlacePhoto, Fail, TypeOK
<1>2. OwnerOf(s)' = OwnerOf(s) /\ KindOf(s)' = KindOf(s)
  BY <1>1 DEF OwnerOf, KindOf
<1>3. Room(s)' = Room(s)
  BY <1>1, <1>2 DEF Room, MaxPhotos
<1>4. pc[s] \in Writing /\ ~met[s] => Mine(s)' = Mine(s)
  BY MineStays
<1> QED BY <1>1, <1>2, <1>3, <1>4 DEF PhotoAt

LEMMA PhotoStep ==
  ASSUME TypeOK, Finite, SlotDiscipline, LoneView, LonePhotoView, [Next]_vars
  PROVE  LonePhotoView'
<1> SUFFICES ASSUME NEW s \in Requests
             PROVE  PhotoAt(s)'
  BY DEF LonePhotoView, PhotoAt, Mine, Room
<1>1. LoneAt(s) /\ PhotoAt(s)
  BY LoneViewAt, PhotoViewAt
<1>2. ASSUME UNCHANGED <<call, pc, found, counted, media, wrote, holds, met>>,
             open' \subseteq open
      PROVE  PhotoAt(s)'
  <2>1. OwnerOf(s)' = OwnerOf(s) /\ KindOf(s)' = KindOf(s)
    BY <1>2 DEF OwnerOf, KindOf
  <2>2. Mine(s)' = Mine(s) /\ Room(s)' = Room(s)
    BY <1>2, <2>1 DEF Mine, Seen, Live, Room, MaxPhotos
  <2> QED BY <1>1, <1>2, <2>1, <2>2 DEF PhotoAt
<1>3. ASSUME NEW r \in Requests,
             StartAttach(r) \/ StartRemove(r) \/ CheckCap(r) \/ CheckKeeper(r)
      PROVE  PhotoAt(s)'
  BY <1>3, PhotoCheckStep
<1>4. ASSUME NEW r \in Requests, r # s, Progress(r) \/ Fail(r) PROVE PhotoAt(s)'
  BY <1>1, <1>3, <1>4, PhotoOtherStep DEF Progress
<1>5. ASSUME Progress(s) \/ Fail(s) PROVE PhotoAt(s)'
  <2>1. CASE Commit(s) \/ InsertPlacePhoto(s) \/ Fail(s)
    <3>1. pc'[s] \notin Writing
      BY <2>1 DEF Commit, InsertPlacePhoto, Fail, TypeOK, Writing, Ended
    <3> QED BY <3>1 DEF PhotoAt
  <2> QED BY <1>1, <1>3, <1>5, <2>1, PhotoOwnStep DEF Progress
<1>6. ASSUME NEW o \in Owners, DeleteOwner(o) PROVE PhotoAt(s)'
  BY <1>2, <1>6 DEF DeleteOwner
<1>7. CASE UNCHANGED vars
  BY <1>2, <1>7 DEF vars, database
<1> QED BY <1>3, <1>4, <1>5, <1>6, <1>7 DEF Next, AllAnswered

PhotoInv == TypeOK /\ Finite /\ SlotDiscipline /\ LoneView /\ LonePhotoView

LEMMA PhotoInvHolds == Spec => []PhotoInv
<1>1. Init => PhotoInv
  BY InitTypes, InitDiscipline DEF PhotoInv, Init, LoneView, LonePhotoView, Writing
<1>2. PhotoInv /\ [Next]_vars => PhotoInv'
  BY TypesStep, DisciplineStep, LoneStep, PhotoStep DEF PhotoInv, SlotDiscipline
<1> QED BY <1>1, <1>2, PTL DEF Spec

\* A request that met no other on its review's gallery stores the number of its
\* photos, whatever number it found there.
THEOREM LoneWritersCount == Spec => LoneWriterCountsExactly
<1>1. ASSUME PhotoInv, NEW r \in Requests,
             Commit(r), ~met[r], OwnerOf(r) \in Reviews \cap open
      PROVE  CountIsExact(OwnerOf(r))'
  <2>1. /\ pc[r] = "commit" /\ media' = Seen(r) /\ UNCHANGED <<call, found>>
        /\ photoCount' = [v \in Reviews |-> IF v \in holds[r] THEN counted[r] ELSE photoCount[v]]
    BY <1>1 DEF Commit
  <2>2. OwnerOf(r)' = OwnerOf(r) /\ KindOf(r)' = KindOf(r)
    BY <2>1 DEF OwnerOf, KindOf
  <2>3. KindOf(r) = "PHOTO"
    <3>1. /\ Subject(r) \in Requests /\ call[Subject(r)].op = "attach"
          /\ OwnerOf(r) = call[Subject(r)].owner /\ KindOf(r) = call[Subject(r)].kind
      BY <1>1, <2>1, SubjectNames DEF PhotoInv, SlotDiscipline, Writing
    <3>2. call[Subject(r)] \in Attach \cup Remove
      BY <1>1, <3>1 DEF PhotoInv, TypeOK
    <3>3. call[Subject(r)] \in Attach
      BY <3>1, <3>2 DEF Remove
    <3> QED BY <1>1, <3>1, <3>3 DEF Attach
  <2>4. PhotoAt(r)
    BY <1>1, PhotoViewAt DEF PhotoInv
  <2>5. OwnerOf(r) \in holds[r] /\ counted[r] = Cardinality(Mine(r))
    BY <1>1, <2>1, <2>3, <2>4 DEF PhotoAt, Writing
  <2>6. photoCount'[OwnerOf(r)] = Cardinality(Live(media', OwnerOf(r), "PHOTO"))
    BY <1>1, <2>1, <2>3, <2>5 DEF Mine
  <2> QED BY <2>2, <2>6 DEF CountIsExact, Live
<1>2. PhotoInv /\ [Next]_vars
        => [\A r \in Requests :
              Commit(r) /\ ~met[r] /\ OwnerOf(r) \in Reviews \cap open
                => CountIsExact(OwnerOf(r))']_vars
  BY <1>1
<1> QED BY <1>2, PhotoInvHolds, PTL DEF Spec, LoneWriterCountsExactly

\* A photo that met no other request on its gallery keeps it within its cap.
THEOREM LonePhotosKeepCap == Spec => LonePhotoKeepsCap
<1>1. ASSUME PhotoInv, NEW r \in Requests, InsertPlacePhoto(r) \/ Commit(r),
             ~met[r], call[r].op = "attach", call[r].kind = "PHOTO"
      PROVE  Cardinality(Live(media, call[r].owner, "PHOTO")') <= MaxPhotos(call[r].owner)
  <2>1. /\ pc[r] \in {"insert", "commit"} /\ UNCHANGED call
        /\ OwnerOf(r) = call[r].owner /\ KindOf(r) = "PHOTO"
    BY <1>1 DEF InsertPlacePhoto, Commit, OwnerOf, KindOf
  <2>2. Cardinality(Mine(r)) <= Room(r)
    BY <1>1, <2>1, PhotoViewAt DEF PhotoInv, PhotoAt, Writing
  <2>3. IsFiniteSet(Mine(r)) /\ Cardinality(Mine(r)) \in Nat
    BY <1>1, MineFinite DEF PhotoInv
  <2>4. CASE Commit(r)
    <3>1. Live(media, call[r].owner, "PHOTO")' = Mine(r) /\ pc[r] = "commit"
      BY <2>1, <2>4 DEF Commit, Mine, Live
    <3> QED BY <2>1, <2>2, <2>3, <3>1, MaxIsNumber DEF Room
  <2>5. CASE InsertPlacePhoto(r)
    <3>1. pc[r] = "insert" /\ media' = media \cup {New(r)}
      BY <2>5 DEF InsertPlacePhoto
    <3>2. wrote[r] = {}
      BY <1>1, <2>1, <3>1 DEF PhotoInv, SlotDiscipline, WritesOwnSlot
    <3>3. Live(media, call[r].owner, "PHOTO")' \subseteq Mine(r) \cup {New(r)}
      BY <2>1, <3>1, <3>2 DEF Mine, Seen, Live
    <3>4. /\ IsFiniteSet(Mine(r) \cup {New(r)})
          /\ Cardinality(Mine(r) \cup {New(r)}) <= Cardinality(Mine(r)) + 1
      BY <2>3, AddOne
    <3>5. /\ Cardinality(Live(media, call[r].owner, "PHOTO")')
               <= Cardinality(Mine(r) \cup {New(r)})
          /\ Cardinality(Live(media, call[r].owner, "PHOTO")') \in Nat
      BY <3>3, <3>4, FS_Subset, FS_CardinalityType
    <3>6. Room(r) = MaxPhotos(call[r].owner) - 1
      BY <2>1, <3>1 DEF Room
    <3>7. Cardinality(Mine(r) \cup {New(r)}) \in Nat
      BY <3>4, FS_CardinalityType
    <3> QED BY <2>2, <2>3, <3>4, <3>5, <3>6, <3>7, MaxIsNumber
  <2> QED BY <1>1, <2>4, <2>5
<1>2. PhotoInv /\ [Next]_vars
        => [\A r \in Requests :
              /\ InsertPlacePhoto(r) \/ Commit(r)
              /\ ~met[r] /\ call[r].op = "attach" /\ call[r].kind = "PHOTO"
              => Cardinality(Live(media, call[r].owner, "PHOTO")')
                   <= MaxPhotos(call[r].owner)]_vars
  BY <1>1
<1> QED BY <1>2, PhotoInvHolds, PTL DEF Spec, LonePhotoKeepsCap
=============================================================================
