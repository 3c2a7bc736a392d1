--------------------------- MODULE UnitPoolProofs ---------------------------
(***************************************************************************)
(* Proofs about UnitPool for every set of players and every size of their  *)
(* parts.  PoolInv is inductive: the properties of UnitPool hold together  *)
(* or not at all, since what create() pops is unused only because of the   *)
(* partition, and the partition survives only because nothing is listed or *)
(* stacked twice.                                                          *)
(***************************************************************************)
EXTENDS UnitPool, FiniteSetTheorems, TLAPS

(* Before the first creation the stacks are not filled yet.                *)
Unallocated ==
  max_unit = 0 =>
    /\ index_list_size = 0
    /\ free_idx = AllFree

(* What idx_list lists are slots, not what the allocation left there.      *)
ListedAreSlots == \A i \in 0 .. index_list_size - 1 : idx_list[i] \in Slots

PoolInv ==
  /\ TypeOK
  /\ Unallocated
  /\ ListedAreSlots
  /\ ListedOnce
  /\ FreeOnce
  /\ OwnPart
  /\ Partition
  /\ CountAgrees
  /\ IdsNameUnits
  /\ IdsFresh

(* The array has room for at least one unit.                               *)
LEMMA MaxUnitType == MaxUnit \in Nat /\ MaxUnit > 0
<1>1. Cardinality(Players) \in Nat
  BY PoolAssumption, FS_CardinalityType
<1>2. Cardinality(Players) # 0
  BY PoolAssumption, FS_EmptySet
<1>3. MaxUnitPerPlayer \in Nat \ {0}
  BY PoolAssumption
<1>4. ASSUME NEW m \in Nat \ {0}, NEW n \in Nat \ {0}
      PROVE  m * n \in Nat /\ m * n > 0
  OBVIOUS
<1>. QED  BY <1>1, <1>2, <1>3, <1>4 DEF MaxUnit

(* The size of an initial segment of the naturals.                         *)
LEMMA SegmentSize ==
  ASSUME NEW n \in Nat
  PROVE  IsFiniteSet(0 .. n - 1) /\ Cardinality(0 .. n - 1) = n
<1>1. n - 1 \in Int /\ 0 \in Int
  OBVIOUS
<1>2. /\ IsFiniteSet(0 .. n - 1)
      /\ Cardinality(0 .. n - 1) = IF 0 > n - 1 THEN 0 ELSE n - 1 - 0 + 1
  BY <1>1, FS_Interval
<1>. QED  BY <1>2

(* A stack that lacks one slot of its part has not reached its full        *)
(* height: kill() never pushes past the part of the player.                *)
LEMMA RoomToPush ==
  ASSUME TypeOK, FreeOnce, OwnPart,
         NEW s \in Slots, s \notin FreeOf(OwnerOf(s))
  PROVE  free_index_size[OwnerOf(s)] < MaxUnitPerPlayer
<1> DEFINE p == OwnerOf(s)
           n == free_index_size[p]
           T == Places \ {s[2]}
           f == [k \in 0 .. n - 1 |-> free_idx[p][k][2]]
<1>1. p \in Players /\ s[2] \in Places /\ s = <<p, s[2]>>
  BY DEF Slots, OwnerOf
<1>2. n \in 0 .. MaxUnitPerPlayer /\ MaxUnitPerPlayer \in Nat \ {0}
  BY <1>1, PoolAssumption DEF TypeOK
<1>3. ASSUME NEW k \in 0 .. n - 1
      PROVE  /\ free_idx[p][k] \in Slots
             /\ free_idx[p][k] = <<p, free_idx[p][k][2]>>
             /\ free_idx[p][k][2] \in T
  <2>1. k \in Places
    BY <1>2 DEF Places
  <2>2. free_idx[p][k] \in Slots
    BY <1>1, <2>1 DEF TypeOK
  <2>3. OwnerOf(free_idx[p][k]) = p
    BY <1>1 DEF OwnPart
  <2>4. free_idx[p][k] = <<p, free_idx[p][k][2]>> /\ free_idx[p][k][2] \in Places
    BY <2>2, <2>3 DEF Slots, OwnerOf
  <2>5. free_idx[p][k] # s
    BY DEF FreeOf
  <2>. QED  BY <2>2, <2>4, <2>5, <1>1
<1>4. f \in [0 .. n - 1 -> T]
  BY <1>3
<1>5. IsFiniteSet(T) /\ Cardinality(T) = MaxUnitPerPlayer - 1
  <2>1. IsFiniteSet(Places) /\ Cardinality(Places) = MaxUnitPerPlayer
    BY <1>2, SegmentSize DEF Places
  <2>. QED  BY <2>1, <1>1, FS_RemoveElement
<1>6. IsFiniteSet(0 .. n - 1) /\ Cardinality(0 .. n - 1) = n
  BY <1>2, SegmentSize
<1>7. ASSUME n = MaxUnitPerPlayer PROVE FALSE
  <2>1. Cardinality(T) < Cardinality(0 .. n - 1)
    BY <1>2, <1>5, <1>6, <1>7
  <2>2. PICK x, y \in 0 .. n - 1 : x # y /\ f[x] = f[y]
    <3> HIDE DEF f, T, n
    <3>. QED  BY <2>1, <1>4, <1>5, <1>6, FS_PigeonHole
  <2>3. free_idx[p][x] = free_idx[p][y]
    BY <2>2, <1>3
  <2>. QED  BY <2>2, <2>3, <1>1 DEF FreeOnce
<1>. QED  BY <1>2, <1>7

LEMMA InitPoolInv == Init => PoolInv
BY MaxUnitType, PoolAssumption
   DEF Init, NothingCreated, PoolInv, TypeOK, Unallocated, ListedAreSlots,
       ListedOnce, FreeOnce, OwnPart, Partition, CountAgrees, IdsNameUnits,
       IdsFresh, AllFree, Slots, Places, Listed, FreeOf, OwnerOf

(* The first creation fills the stacks; from then on they are what they    *)
(* are.  Either way create() finds heights that fit the list.              *)
LEMMA StacksFit ==
  ASSUME PoolInv
  PROVE  /\ Stacks \in [Players -> 0 .. MaxUnitPerPlayer]
         /\ \A p \in Players : \A k \in 0 .. Stacks[p] - 1 :
              /\ free_idx[p][k] \in Slots
              /\ OwnerOf(free_idx[p][k]) = p
              /\ free_idx[p][k] \notin Listed
         /\ \A p \in Players : \A i, j \in 0 .. Stacks[p] - 1 :
              free_idx[p][i] = free_idx[p][j] => i = j
         /\ \A s \in Slots :
              s \notin Listed =>
                \E k \in 0 .. Stacks[OwnerOf(s)] - 1 :
                  s = free_idx[OwnerOf(s)][k]
<1>1. CASE max_unit = 0
  <2>1. /\ Listed = {}
        /\ free_idx = [p \in Players |-> [k \in Places |-> <<p, k>>]]
        /\ Stacks = [p \in Players |-> MaxUnitPerPlayer]
    BY <1>1 DEF PoolInv, Unallocated, Listed, AllFree, Stacks, FullStacks
  <2>2. \A s \in Slots : OwnerOf(s) \in Players /\ s[2] \in Places
                          /\ s = free_idx[OwnerOf(s)][s[2]]
    BY <2>1 DEF Slots, OwnerOf
  <2>. QED  BY <2>1, <2>2, PoolAssumption DEF Places, Slots, OwnerOf
<1>2. CASE max_unit # 0
  <2>1. Stacks = free_index_size
    BY <1>2 DEF Stacks
  <2>2. Stacks \in [Players -> 0 .. MaxUnitPerPlayer]
    BY <2>1 DEF PoolInv, TypeOK
  <2>3. ASSUME NEW p \in Players, NEW k \in 0 .. Stacks[p] - 1
        PROVE  /\ free_idx[p][k] \in Slots
               /\ OwnerOf(free_idx[p][k]) = p
               /\ free_idx[p][k] \notin Listed
    <3>1. free_idx[p][k] \in Slots
      BY <2>2, PoolAssumption DEF PoolInv, TypeOK, Places
    <3>2. OwnerOf(free_idx[p][k]) = p
      BY <2>1 DEF PoolInv, OwnPart
    <3>3. free_idx[p][k] \in FreeOf(OwnerOf(free_idx[p][k]))
      BY <2>1, <3>2 DEF FreeOf
    <3>. QED  BY <3>1, <3>2, <3>3, <1>2 DEF PoolInv, Partition
  <2>4. ASSUME NEW s \in Slots, s \notin Listed
        PROVE  \E k \in 0 .. Stacks[OwnerOf(s)] - 1 : s = free_idx[OwnerOf(s)][k]
    BY <2>1, <2>4, <1>2 DEF PoolInv, Partition, FreeOf
  <2>. QED  BY <2>1, <2>2, <2>3, <2>4 DEF PoolInv, FreeOnce
<1>. QED  BY <1>1, <1>2

(* What create() pops is a slot of the player that is not in play.         *)
LEMMA CreateTakesFree ==
  ASSUME PoolInv, NEW p \in Players, Create(p)
  PROVE  /\ Stacks[p] \in 1 .. MaxUnitPerPlayer
         /\ free_idx[p][Stacks[p] - 1] \in Slots
         /\ OwnerOf(free_idx[p][Stacks[p] - 1]) = p
         /\ free_idx[p][Stacks[p] - 1] \notin Listed
<1>1. Stacks[p] \in 1 .. MaxUnitPerPlayer
  BY StacksFit, PoolAssumption DEF Create, MayCreate, Stacks, FullStacks
<1>. QED  BY <1>1, StacksFit, PoolAssumption

LEMMA CreatePoolInv ==
  ASSUME PoolInv, NEW p \in Players, Create(p)
  PROVE  PoolInv'
<1> DEFINE h == Stacks[p]
           s == free_idx[p][h - 1]
           n == index_list_size
<1>1. h \in 1 .. MaxUnitPerPlayer /\ MaxUnitPerPlayer \in Nat
  BY CreateTakesFree, PoolAssumption
<1>2. s \in Slots /\ OwnerOf(s) = p /\ s \notin Listed
  BY CreateTakesFree
<1>3. n = nb_unit /\ n \in 0 .. MaxUnit - 1 /\ n + 1 \in 0 .. MaxUnit
  BY MaxUnitType DEF Create, MayCreate, PoolInv, CountAgrees, TypeOK
<1>4. /\ idx_list' = [idx_list EXCEPT ![n] = s]
      /\ index_list_size' = n + 1
      /\ uid' = [uid EXCEPT ![s] = next_unit_ID]
      /\ next_unit_ID' = next_unit_ID + 1
      /\ free_index_size' = [Stacks EXCEPT ![p] = h - 1]
      /\ max_unit' = MaxUnit
      /\ nb_unit' = nb_unit + 1
      /\ UNCHANGED free_idx
      /\ next_unit_ID <= MaxID
  BY DEF Create, TakeSlot
<1>5. TypeOK'
  BY <1>1, <1>2, <1>3, <1>4, StacksFit, PoolAssumption, MaxUnitType
     DEF PoolInv, TypeOK
<1>6. Unallocated'
  BY <1>4, MaxUnitType DEF Unallocated
<1>7. \A i \in 0 .. n : idx_list'[i] = IF i = n THEN s ELSE idx_list[i]
  BY <1>3, <1>4 DEF PoolInv, TypeOK
<1>8. Listed' = Listed \cup {s}
  BY <1>3, <1>4, <1>7 DEF Listed
<1>9. ListedAreSlots'
  BY <1>2, <1>3, <1>4, <1>7 DEF PoolInv, ListedAreSlots
<1>10. ListedOnce'
  <2>1. \A i \in 0 .. n - 1 : idx_list[i] # s
    BY <1>2 DEF Listed
  <2>. QED  BY <2>1, <1>3, <1>4, <1>7 DEF PoolInv, ListedOnce
<1>11. \A q \in Players : free_index_size'[q] = IF q = p THEN h - 1 ELSE Stacks[q]
  BY <1>4, StacksFit
<1>12. FreeOnce' /\ OwnPart'
  BY <1>1, <1>4, <1>11, StacksFit DEF FreeOnce, OwnPart
<1>13. Partition'
  <2> SUFFICES ASSUME NEW t \in Slots
               PROVE  t \in Listed' <=> t \notin FreeOf(OwnerOf(t))'
    BY DEF Partition
  <2> DEFINE q == OwnerOf(t)
  <2>1. q \in Players /\ Stacks[q] \in 0 .. MaxUnitPerPlayer
    BY StacksFit DEF Slots, OwnerOf
  <2>2. FreeOf(q)' = {free_idx[q][k] : k \in 0 .. free_index_size'[q] - 1}
    BY <1>4 DEF FreeOf
  <2>3. CASE t = s
    <3>1. \A k \in 0 .. h - 2 : free_idx[p][k] # s
      BY <1>1, StacksFit
    <3>. QED  BY <2>2, <2>3, <3>1, <1>1, <1>2, <1>8, <1>11
  <2>4. CASE t # s /\ t \in Listed
    <3>1. \A k \in 0 .. Stacks[q] - 1 : free_idx[q][k] # t
      BY <2>1, <2>4, StacksFit
    <3>. QED  BY <2>1, <2>2, <2>4, <3>1, <1>1, <1>8, <1>11
  <2>5. CASE t # s /\ t \notin Listed
    <3>1. PICK k \in 0 .. Stacks[q] - 1 : t = free_idx[q][k]
      BY <2>5, StacksFit
    <3>2. k \in 0 .. free_index_size'[q] - 1
      BY <2>1, <2>5, <3>1, <1>1, <1>11
    <3>. QED  BY <2>2, <2>5, <3>1, <3>2, <1>8
  <2>. QED  BY <2>3, <2>4, <2>5
<1>14. CountAgrees'
  BY <1>3, <1>4 DEF CountAgrees
<1>15. \A t \in Slots : uid'[t] = IF t = s THEN next_unit_ID ELSE uid[t]
  BY <1>2, <1>4 DEF PoolInv, TypeOK
<1>16. IdsNameUnits' /\ IdsFresh'
  <2>1. next_unit_ID \in 1 .. MaxID + 1 /\ MaxID \in Nat
    BY PoolAssumption DEF PoolInv, TypeOK
  <2>2. \A t \in Slots : uid[t] \in 0 .. MaxID /\ uid[t] < next_unit_ID
    BY DEF PoolInv, TypeOK, IdsFresh
  <2>. QED  BY <2>1, <2>2, <1>2, <1>4, <1>8, <1>15
            DEF PoolInv, IdsNameUnits, IdsFresh
<1>. QED  BY <1>5, <1>6, <1>9, <1>10, <1>12, <1>13, <1>14, <1>16 DEF PoolInv

(* Closing the gap with the last entry removes the killed unit only.       *)
LEMMA KillUnlists ==
  ASSUME PoolInv, NEW e \in 0 .. MaxUnit - 1, Kill(e)
  PROVE  idx_list[e] \in Slots /\ Listed' = Listed \ {idx_list[e]}
<1> DEFINE s == idx_list[e]
           n == index_list_size
<1>1. e \in 0 .. n - 1 /\ n \in 1 .. MaxUnit /\ MaxUnit \in Nat
  BY MaxUnitType DEF Kill, PoolInv, TypeOK
<1>2. /\ idx_list' = [idx_list EXCEPT ![e] = idx_list[n - 1]]
      /\ index_list_size' = n - 1
  BY DEF Kill, ReleaseSlot
<1>3. \A i \in 0 .. n - 2 : idx_list'[i] = IF i = e THEN idx_list[n - 1] ELSE idx_list[i]
  BY <1>1, <1>2 DEF PoolInv, TypeOK
<1>4. Listed' = Listed \ {s}
  <2>1. Listed' = {idx_list'[i] : i \in 0 .. n - 2}
    BY <1>1, <1>2 DEF Listed
  <2>2. \A i \in 0 .. n - 2 : idx_list'[i] \in Listed /\ idx_list'[i] # s
    BY <1>1, <1>3 DEF Listed, PoolInv, ListedOnce
  <2>3. \A t \in Listed \ {s} : \E i \in 0 .. n - 2 : t = idx_list'[i]
    <3> TAKE t \in Listed \ {s}
    <3>1. PICK j \in 0 .. n - 1 : t = idx_list[j] /\ j # e
      BY DEF Listed
    <3>2. CASE j = n - 1
      BY <1>1, <1>3, <3>1, <3>2
    <3>3. CASE j # n - 1
      BY <1>1, <1>3, <3>1, <3>3
    <3>. QED  BY <3>2, <3>3
  <2>. QED  BY <2>1, <2>2, <2>3
<1>. QED  BY <1>1, <1>4 DEF PoolInv, ListedAreSlots

LEMMA KillPoolInv ==
  ASSUME PoolInv, NEW e \in 0 .. MaxUnit - 1, Kill(e)
  PROVE  PoolInv'
<1> DEFINE s == idx_list[e]
           p == OwnerOf(s)
           h == free_index_size[p]
           n == index_list_size
<1>1. /\ e \in 0 .. n - 1 /\ n \in 1 .. MaxUnit /\ n = nb_unit
      /\ max_unit # 0 /\ MaxUnit \in Nat
  BY MaxUnitType
     DEF Kill, PoolInv, TypeOK, Unallocated, CountAgrees
<1>2. s \in Slots /\ s \in Listed /\ p \in Players
  BY <1>1 DEF PoolInv, ListedAreSlots, Listed, Slots, OwnerOf
<1>3. s \notin FreeOf(p)
  BY <1>1, <1>2 DEF PoolInv, Partition
<1>4. h \in 0 .. MaxUnitPerPlayer - 1 /\ MaxUnitPerPlayer \in Nat
  BY <1>2, <1>3, RoomToPush, PoolAssumption DEF PoolInv, TypeOK
<1>5. /\ free_idx' = [free_idx EXCEPT ![p][h] = s]
      /\ free_index_size' = [free_index_size EXCEPT ![p] = h + 1]
      /\ idx_list' = [idx_list EXCEPT ![e] = idx_list[n - 1]]
      /\ index_list_size' = n - 1
      /\ nb_unit' = nb_unit - 1
      /\ uid' = [uid EXCEPT ![s] = 0]
      /\ UNCHANGED <<max_unit, next_unit_ID>>
  BY DEF Kill, ReleaseSlot
<1>6. TypeOK'
  <2>1. idx_list[n - 1] \in Slots
    BY <1>1 DEF PoolInv, ListedAreSlots
  <2>2. h \in Places
    BY <1>4 DEF Places
  <2>3. free_idx' \in [Players -> [Places -> Slots]]
    BY <1>2, <1>5, <2>2 DEF PoolInv, TypeOK
  <2>4. uid' \in [Slots -> 0 .. MaxID]
    <3>1. 0 \in 0 .. MaxID
      BY PoolAssumption
    <3>. QED  BY <1>2, <1>5, <3>1 DEF PoolInv, TypeOK
  <2>. QED  BY <1>1, <1>2, <1>4, <1>5, <2>1, <2>3, <2>4 DEF PoolInv, TypeOK
<1>7. Unallocated'
  BY <1>1, <1>5 DEF Unallocated
<1>8. \A i \in 0 .. n - 2 : idx_list'[i] = IF i = e THEN idx_list[n - 1] ELSE idx_list[i]
  BY <1>1, <1>5 DEF PoolInv, TypeOK
<1>9. Listed' = Listed \ {s}
  BY KillUnlists
<1>10. ListedAreSlots'
  BY <1>1, <1>5, <1>8 DEF PoolInv, ListedAreSlots
<1>11. ListedOnce'
  BY <1>1, <1>5, <1>8 DEF PoolInv, ListedOnce
<1>12. \A q \in Players : \A k \in 0 .. free_index_size'[q] - 1 :
         /\ free_index_size'[q] = IF q = p THEN h + 1 ELSE free_index_size[q]
         /\ free_idx'[q][k] = IF q = p /\ k = h THEN s ELSE free_idx[q][k]
  <2> TAKE q \in Players
  <2> TAKE k \in 0 .. free_index_size'[q] - 1
  <2>1. free_index_size'[q] = IF q = p THEN h + 1 ELSE free_index_size[q]
    BY <1>2, <1>5 DEF PoolInv, TypeOK
  <2>2. k \in Places
    BY <2>1, <1>4 DEF PoolInv, TypeOK, Places
  <2>. QED  BY <2>1, <2>2, <1>2, <1>5 DEF PoolInv, TypeOK
<1>13. \A q \in Players : free_index_size'[q] = IF q = p THEN h + 1 ELSE free_index_size[q]
  BY <1>2, <1>5 DEF PoolInv, TypeOK
<1>14. \A q \in Players :
         FreeOf(q)' = IF q = p THEN FreeOf(q) \cup {s} ELSE FreeOf(q)
  <2> TAKE q \in Players
  <2>1. FreeOf(q)' = {free_idx'[q][k] : k \in 0 .. free_index_size'[q] - 1}
    BY DEF FreeOf
  <2>2. CASE q # p
    BY <1>12, <1>13, <2>1, <2>2 DEF FreeOf
  <2>3. CASE q = p
    <3>1. free_index_size'[q] - 1 = h /\ h \in Nat
      BY <1>4, <1>13, <2>3
    <3>2. \A k \in 0 .. h : free_idx'[q][k] = IF k = h THEN s ELSE free_idx[q][k]
      BY <1>12, <2>3, <3>1
    <3>3. FreeOf(q)' = {free_idx'[q][k] : k \in 0 .. h}
      BY <2>1, <3>1
    <3>4. FreeOf(q) = {free_idx[q][k] : k \in 0 .. h - 1}
      BY <2>3 DEF FreeOf
    <3>5. FreeOf(q)' = FreeOf(q) \cup {s}
      <4>1. \A k \in 0 .. h : k \in 0 .. h - 1 \/ k = h
        BY <3>1
      <4>2. \A k \in 0 .. h - 1 : k \in 0 .. h /\ k # h
        BY <3>1
      <4>3. h \in 0 .. h
        BY <3>1
      <4> HIDE DEF h, s, p
      <4>. QED  BY <3>2, <3>3, <3>4, <4>1, <4>2, <4>3
    <3>. QED  BY <3>5, <2>3
  <2>. QED  BY <2>2, <2>3
<1>15. FreeOnce'
  <2>1. \A k \in 0 .. h - 1 : free_idx[p][k] # s
    BY <1>3 DEF FreeOf
  <2> SUFFICES ASSUME NEW q \in Players,
                      NEW i \in 0 .. free_index_size'[q] - 1,
                      NEW j \in 0 .. free_index_size'[q] - 1,
                      free_idx'[q][i] = free_idx'[q][j]
               PROVE  i = j
    BY DEF FreeOnce
  <2>2. CASE q = p
    BY <2>1, <2>2, <1>4, <1>12, <1>13 DEF PoolInv, FreeOnce
  <2>3. CASE q # p
    BY <2>3, <1>12, <1>13 DEF PoolInv, FreeOnce
  <2>. QED  BY <2>2, <2>3
<1>16. OwnPart'
  BY <1>4, <1>12, <1>13 DEF PoolInv, OwnPart
<1>17. Partition'
  <2> SUFFICES ASSUME NEW t \in Slots
               PROVE  t \in Listed' <=> t \notin FreeOf(OwnerOf(t))'
    BY DEF Partition
  <2>1. OwnerOf(t) \in Players
    BY DEF Slots, OwnerOf
  <2>. QED  BY <2>1, <1>1, <1>2, <1>9, <1>14 DEF PoolInv, Partition
<1>18. CountAgrees'
  BY <1>1, <1>5 DEF CountAgrees
<1>19. IdsNameUnits' /\ IdsFresh'
  <2>1. \A t \in Slots : uid'[t] = IF t = s THEN 0 ELSE uid[t]
    BY <1>2, <1>5 DEF PoolInv, TypeOK
  <2>2. next_unit_ID' = next_unit_ID /\ next_unit_ID \in 1 .. MaxID + 1
    BY <1>5 DEF PoolInv, TypeOK
  <2>3. IdsNameUnits'
    BY <2>1, <1>2, <1>9 DEF PoolInv, IdsNameUnits
  <2>4. IdsFresh'
    <3>1. 0 < next_unit_ID
      BY <2>2, PoolAssumption
    <3>. QED  BY <2>1, <2>2, <3>1 DEF PoolInv, IdsFresh
  <2>. QED  BY <2>3, <2>4
<1>. QED  BY <1>6, <1>7, <1>10, <1>11, <1>15, <1>16, <1>17, <1>18, <1>19 DEF PoolInv

LEMMA DestroyPoolInv ==
  ASSUME Destroy
  PROVE  PoolInv'
<1>1. TypeOK'
  BY MaxUnitType, PoolAssumption DEF Destroy, TypeOK, AllFree, Slots, Places
<1>2. Unallocated' /\ ListedAreSlots' /\ ListedOnce' /\ CountAgrees'
  BY DEF Destroy, Unallocated, ListedAreSlots, ListedOnce, CountAgrees
<1>3. FreeOnce' /\ OwnPart' /\ Partition'
  BY DEF Destroy, FreeOnce, OwnPart, Partition
<1>4. Listed' = {}
  BY DEF Destroy, Listed
<1>5. IdsNameUnits' /\ IdsFresh'
  BY <1>4 DEF Destroy, IdsNameUnits, IdsFresh
<1>. QED  BY <1>1, <1>2, <1>3, <1>5 DEF PoolInv

LEMMA NextPoolInv == PoolInv /\ [Next]_vars => PoolInv'
<1>1. PoolInv /\ Next => PoolInv'
  BY CreatePoolInv, KillPoolInv, DestroyPoolInv DEF Next
<1>2. PoolInv /\ UNCHANGED vars => PoolInv'
  BY DEF vars, PoolInv, TypeOK, Unallocated, ListedAreSlots, ListedOnce,
         FreeOnce, OwnPart, Partition, CountAgrees, IdsNameUnits, IdsFresh,
         Listed, FreeOf
<1>. QED  BY <1>1, <1>2

THEOREM PoolInvariant == Spec => []PoolInv
BY InitPoolInv, NextPoolInv, PTL DEF Spec

(* Every variable of the array keeps its range: in particular the lists    *)
(* never grow past the arrays that hold them.                              *)
THEOREM TypeCorrect == Spec => []TypeOK
<1>1. PoolInv => TypeOK
  BY DEF PoolInv
<1>. QED  BY <1>1, PoolInvariant, PTL

(* A slot is in play or free, never both, never neither, and listed at     *)
(* most once, whatever the order of creations and deaths.                  *)
THEOREM SlotsPartitioned == Spec => []EachSlotOnce
<1>1. PoolInv => EachSlotOnce
  BY DEF PoolInv, EachSlotOnce
<1>. QED  BY <1>1, PoolInvariant, PTL

(* An (index, ID) pair names at most one unit.                             *)
THEOREM IdsSound == Spec => []IdsNameUnits
<1>1. PoolInv => IdsNameUnits
  BY DEF PoolInv
<1>. QED  BY <1>1, PoolInvariant, PTL

(* Killing a unit leaves every other unit in play, with the ID it had.     *)
THEOREM OthersUntouched == Spec => OthersSurvive
<1> DEFINE Touched(s) == s \notin Listed' \/ uid'[s] # uid[s]
           OneLeaves == max_unit' # 0 =>
             \A s, t \in Listed :
               Touched(s) /\ Touched(t) => s = t /\ s \notin Listed' /\ uid'[s] = 0
<1>1. ASSUME PoolInv, NEW p \in Players, Create(p)
      PROVE  OneLeaves
  <2> DEFINE u == free_idx[p][Stacks[p] - 1]
  <2>1. u \in Slots /\ u \notin Listed
    BY <1>1, CreateTakesFree
  <2>2. Listed \subseteq Listed'
    <3>1. index_list_size' = index_list_size + 1 /\ index_list_size \in 0 .. MaxUnit - 1
      BY <1>1, MaxUnitType
         DEF Create, MayCreate, TakeSlot, PoolInv, TypeOK, CountAgrees
    <3>2. \A i \in 0 .. index_list_size - 1 : idx_list'[i] = idx_list[i]
      BY <1>1, <3>1, MaxUnitType DEF Create, TakeSlot, PoolInv, TypeOK
    <3>. QED  BY <3>1, <3>2 DEF Listed
  <2>3. \A t \in Slots : t # u => uid'[t] = uid[t]
    BY <1>1 DEF Create, TakeSlot, PoolInv, TypeOK
  <2>4. Listed \subseteq Slots
    BY <1>1 DEF PoolInv, ListedAreSlots, Listed
  <2>. QED  BY <2>1, <2>2, <2>3, <2>4
<1>2. ASSUME PoolInv, NEW e \in 0 .. MaxUnit - 1, Kill(e)
      PROVE  OneLeaves
  <2>1. idx_list[e] \in Slots /\ Listed' = Listed \ {idx_list[e]}
    BY <1>2, KillUnlists
  <2>2. \A t \in Slots : uid'[t] = IF t = idx_list[e] THEN 0 ELSE uid[t]
    BY <1>2, <2>1 DEF Kill, PoolInv, TypeOK
  <2>3. Listed \subseteq Slots
    BY <1>2 DEF PoolInv, ListedAreSlots, Listed
  <2>. QED  BY <2>1, <2>2, <2>3
<1>3. PoolInv /\ [Next]_vars => [OneLeaves]_vars
  <2>1. Destroy => OneLeaves
    BY DEF Destroy
  <2>. QED  BY <1>1, <1>2, <2>1 DEF Next
<1>. QED  BY <1>3, PoolInvariant, PTL DEF Spec, OthersSurvive
=============================================================================
