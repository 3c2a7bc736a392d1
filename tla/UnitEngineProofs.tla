--------------------------- MODULE UnitEngineProofs ---------------------------
(***************************************************************************)
(* Proofs about the threads that share the unit array, for all players,    *)
(* sizes of the array, IDs and games.                                      *)
(*                                                                         *)
(* First what holds whatever the threads do to each other: the variables   *)
(* keep their ranges and no ID is in two slots.  Then the games in which   *)
(* only the engine kills: there the interleaved calls are calls of         *)
(* UnitPool, whose invariant (UnitPoolProofs) holds of the array as the    *)
(* refinement sees it, and the loop of move() skips no unit.               *)
(***************************************************************************)
EXTENDS UnitEngine, FiniteSetTheorems, WellFoundedInduction, TLAPS

ThreadPCs == {"idle", "exam", "move", "create", "capture", "mark",
              "check", "destroy", "release", "cancel"}

(* The places of the stacks that hold a free slot, as create() finds them. *)
FreePlaces == {s \in Slots : s[2] < P!Stacks[s[1]]}

(* Every slot is listed or on a stack, by number: this is what keeps the   *)
(* list within the array, whoever is killed twice, until a stack has no    *)
(* room for the slot.                                                      *)
Counted == Cardinality(FreePlaces) + index_list_size = P!MaxUnit

PoolTyped ==
  /\ max_unit \in {0, P!MaxUnit}
  /\ nb_unit \in 0 .. P!MaxUnit + 1
  /\ idx_list \in [0 .. P!MaxUnit - 1 -> Slots \cup {NoSlot}]
  /\ index_list_size \in 0 .. P!MaxUnit
  /\ free_idx \in [Players -> [P!Places -> Slots]]
  /\ free_index_size \in [Players -> 0 .. MaxUnitPerPlayer + 1]
  /\ uid \in [Slots -> 0 .. MaxID]
  /\ next_unit_ID \in 1 .. MaxID + 1
  /\ \A i \in 0 .. index_list_size - 1 : idx_list[i] \in Slots
  /\ max_unit = 0 => index_list_size = 0 /\ \A s \in Slots : uid[s] = 0
  /\ index_list_size <= nb_unit
  /\ ~ Overrun => Counted

UnitsTyped ==
  /\ flags \in [Slots -> Flags]
  /\ dying \in [Slots -> BOOLEAN] /\ local \in [Slots -> BOOLEAN]
  /\ death_timer \in [Slots -> 0 .. DeathTimer + 1]

(* What a thread that is not idle remembers is a slot of the array, ...    *)
ThreadsTyped ==
  /\ th \in [Threads -> [pc : ThreadPCs, slot : Slots \cup {NoSlot},
                         pos : -1 .. P!MaxUnit - 1, id : 0 .. MaxID]]
  /\ \A t \in Threads : th[t].pc # "idle" => th[t].slot \in Slots

(* ... which then exists.                                                  *)
Allocated == \A t \in Threads : th[t].pc # "idle" => max_unit # 0

(* The loop of move() is at an entry of the list while it looks at one.    *)
Looking == th["engine"].pc \in {"exam", "move", "create", "capture", "mark"}
LoopTyped ==
  /\ cursor \in 0 .. P!MaxUnit
  /\ Looking => cursor < P!MaxUnit
  /\ visited \subseteq 0 .. MaxID /\ told \subseteq 0 .. MaxID

(* A creation that passed its tests has an ID and is within the limit.     *)
Promised ==
  th["engine"].pc \in {"create", "capture"}
    => next_unit_ID <= game.ids /\ nb_unit <= P!MaxUnit

EngineTyped ==
  /\ game \in Games
  /\ PoolTyped /\ UnitsTyped /\ ThreadsTyped /\ LoopTyped /\ Promised
  /\ IdsUnique

-----------------------------------------------------------------------------
(* The constants.                                                          *)
LEMMA Sizes ==
  /\ IsFiniteSet(Players) /\ MaxUnitPerPlayer \in Nat \ {0}
  /\ MaxID \in Nat /\ DeathTimer \in Nat \ {0} /\ NoSlot \notin Slots
  /\ P!MaxUnit \in Nat /\ P!MaxUnit > 0
  /\ IsFiniteSet(Slots) /\ Cardinality(Slots) = P!MaxUnit
<1>1. IsFiniteSet(Players) /\ Players # {}
  BY ArrayAssumption DEF P!PoolAssumption, P!IsFiniteSet, IsFiniteSet
<1>2. MaxUnitPerPlayer \in Nat \ {0} /\ MaxID \in Nat /\ DeathTimer \in Nat \ {0}
  BY ArrayAssumption, EngineAssumption DEF P!PoolAssumption
<1>3. NoSlot \notin Slots
  BY ArrayAssumption DEF P!PoolAssumption, P!Slots, P!Places, Slots
<1>4. P!Cardinality(Players) = Cardinality(Players)
  BY DEF P!Cardinality, Cardinality
<1>5. Cardinality(Players) \in Nat /\ Cardinality(Players) # 0
  BY <1>1, FS_CardinalityType, FS_EmptySet
<1>6. P!MaxUnit = Cardinality(Players) * MaxUnitPerPlayer
  BY <1>2, <1>4, <1>5 DEF P!MaxUnit
<1>7. ASSUME NEW m \in Nat \ {0}, NEW n \in Nat \ {0}
      PROVE  m * n \in Nat /\ m * n > 0
  OBVIOUS
<1>8. P!MaxUnit \in Nat /\ P!MaxUnit > 0
  BY <1>2, <1>5, <1>6, <1>7
<1>9. IsFiniteSet(P!Places) /\ Cardinality(P!Places) = MaxUnitPerPlayer
  BY <1>2, FS_Interval DEF P!Places
<1>10. IsFiniteSet(Slots) /\ Cardinality(Slots) = P!MaxUnit
  BY <1>1, <1>6, <1>9, FS_Product DEF Slots, P!Slots
<1>. QED  BY <1>1, <1>2, <1>3, <1>8, <1>10

(* The heights of the stacks as create() finds them.                       *)
LEMMA StacksTyped ==
  ASSUME PoolTyped, ~ Overrun
  PROVE  P!Stacks \in [Players -> 0 .. MaxUnitPerPlayer]
<1>1. \A p \in Players : free_index_size[p] \in 0 .. MaxUnitPerPlayer
  BY Sizes DEF PoolTyped, Overrun
<1>. QED  BY <1>1, Sizes DEF PoolTyped, P!Stacks, P!FullStacks

(* What a successful creation pops, and what is left to pop.               *)
LEMMA PopsSlot ==
  ASSUME PoolTyped, ~ Overrun, NEW p \in Players, P!Stacks[p] > 0
  PROVE  /\ free_idx[p][P!Stacks[p] - 1] \in Slots
         /\ index_list_size < P!MaxUnit
         /\ [P!Stacks EXCEPT ![p] = @ - 1] \in [Players -> 0 .. MaxUnitPerPlayer]
         /\ \A f : f = [P!Stacks EXCEPT ![p] = @ - 1] =>
              Cardinality({s \in Slots : s[2] < f[s[1]]}) + index_list_size + 1
                = P!MaxUnit
<1> DEFINE h == P!Stacks[p]
           top == <<p, h - 1>>
           f0 == [P!Stacks EXCEPT ![p] = @ - 1]
<1>1. P!Stacks \in [Players -> 0 .. MaxUnitPerPlayer]
  BY StacksTyped
<1>2. h \in 1 .. MaxUnitPerPlayer /\ MaxUnitPerPlayer \in Nat
  BY <1>1, Sizes
<1>3. h - 1 \in P!Places
  BY <1>2 DEF P!Places
<1>4. free_idx[p][h - 1] \in Slots
  BY <1>3 DEF PoolTyped
<1>5. f0 \in [Players -> 0 .. MaxUnitPerPlayer]
  BY <1>1, <1>2
<1>6. top \in FreePlaces
  BY <1>2, <1>3 DEF FreePlaces, Slots, P!Slots
<1>7. {s \in Slots : s[2] < f0[s[1]]} = FreePlaces \ {top}
  <2> SUFFICES ASSUME NEW s \in Slots
               PROVE  s[2] < f0[s[1]] <=> s[2] < P!Stacks[s[1]] /\ s # top
    BY DEF FreePlaces
  <2>1. s[1] \in Players /\ s[2] \in 0 .. MaxUnitPerPlayer - 1 /\ s = <<s[1], s[2]>>
    BY DEF Slots, P!Slots, P!Places
  <2>2. CASE s[1] = p
    <3>1. f0[s[1]] = h - 1
      BY <1>1, <2>2
    <3>2. s = top <=> s[2] = h - 1
      BY <2>1, <2>2
    <3>. QED  BY <2>1, <2>2, <3>1, <3>2, <1>2
  <2>3. CASE s[1] # p
    BY <1>1, <2>1, <2>3
  <2>. QED  BY <2>2, <2>3
<1>8. IsFiniteSet(FreePlaces) /\ Cardinality(FreePlaces) \in Nat
  BY Sizes, FS_Subset, FS_CardinalityType DEF FreePlaces
<1>9. Cardinality(FreePlaces) # 0
  BY <1>6, <1>8, FS_EmptySet
<1>10. Cardinality(FreePlaces \ {top}) = Cardinality(FreePlaces) - 1
  BY <1>6, <1>8, FS_RemoveElement
<1>11. index_list_size \in Nat /\ Cardinality(FreePlaces) + index_list_size = P!MaxUnit
  BY DEF PoolTyped, Counted
<1>12. P!MaxUnit \in Nat
  BY Sizes
<1>13. Cardinality(FreePlaces \ {top}) + index_list_size + 1 = P!MaxUnit
  BY <1>8, <1>10, <1>11, <1>12
<1>14. \A f : f = f0 => {s \in Slots : s[2] < f[s[1]]} = FreePlaces \ {top}
  BY <1>7
<1>15. index_list_size < P!MaxUnit
  BY <1>8, <1>9, <1>11, <1>12
<1> HIDE DEF top
<1>. QED  BY <1>4, <1>5, <1>13, <1>14, <1>15

(* create_unit() keeps the array within its bounds and gives a new ID.     *)
LEMMA CreateKeeps ==
  ASSUME PoolTyped, ~ Overrun, UnitsTyped, IdsUnique, NEW p \in Players, CreateLocked(p),
         next_unit_ID <= MaxID, nb_unit <= P!MaxUnit
  PROVE  /\ PoolTyped' /\ UnitsTyped' /\ IdsUnique'
         /\ nb_unit' = nb_unit + 1
         /\ next_unit_ID' \in {next_unit_ID, next_unit_ID + 1}
<1> DEFINE s == free_idx[p][P!Stacks[p] - 1]
           n == index_list_size
<1>1. /\ nb_unit' = nb_unit + 1 /\ max_unit' = P!MaxUnit /\ UNCHANGED free_idx
      /\ P!MaxUnit \in Nat /\ P!MaxUnit > 0 /\ MaxUnitPerPlayer \in Nat /\ MaxID \in Nat
  BY Sizes DEF CreateLocked
<1>2. P!Stacks \in [Players -> 0 .. MaxUnitPerPlayer]
  BY StacksTyped
<1>3. CASE P!Stacks[p] > 0
  <2>1. /\ s \in Slots /\ n < P!MaxUnit
        /\ [P!Stacks EXCEPT ![p] = @ - 1] \in [Players -> 0 .. MaxUnitPerPlayer]
        /\ \A f : f = [P!Stacks EXCEPT ![p] = @ - 1] =>
             Cardinality({x \in Slots : x[2] < f[x[1]]}) + n + 1 = P!MaxUnit
    BY <1>3, PopsSlot
  <2>2. /\ free_index_size' = [P!Stacks EXCEPT ![p] = @ - 1]
        /\ uid' = [uid EXCEPT ![s] = next_unit_ID]
        /\ next_unit_ID' = next_unit_ID + 1
        /\ idx_list' = [idx_list EXCEPT ![n] = s]
        /\ index_list_size' = n + 1
        /\ flags' = [flags EXCEPT ![s] = "alive"]
        /\ dying' = [dying EXCEPT ![s] = FALSE]
        /\ local' = [local EXCEPT ![s] = p \notin Remote]
    BY <1>3 DEF CreateLocked, P!TakeSlot
  <2>3. Counted'
    <3>1. P!Stacks' = free_index_size'
      BY <1>1 DEF P!Stacks
    <3>2. FreePlaces' = {x \in Slots : x[2] < free_index_size'[x[1]]}
      BY <3>1 DEF FreePlaces
    <3>3. Cardinality({x \in Slots : x[2] < free_index_size'[x[1]]}) + n + 1 = P!MaxUnit
      BY <2>1, <2>2
    <3>4. IsFiniteSet(FreePlaces') /\ Cardinality(FreePlaces') \in Nat
      BY <3>2, Sizes, FS_Subset, FS_CardinalityType
    <3>5. n \in Nat
      BY DEF PoolTyped
    <3>. QED  BY <3>2, <3>3, <3>4, <3>5, <2>2 DEF Counted
  <2>4. \A i \in 0 .. n : idx_list'[i] = IF i = n THEN s ELSE idx_list[i]
    BY <1>1, <2>1, <2>2 DEF PoolTyped
  <2>5. \A i \in 0 .. index_list_size' - 1 : idx_list'[i] \in Slots
    BY <2>1, <2>2, <2>4 DEF PoolTyped
  <2>6. PoolTyped'
    <3>1. idx_list' \in [0 .. P!MaxUnit - 1 -> Slots \cup {NoSlot}]
      BY <2>1, <2>2 DEF PoolTyped
    <3>2. uid' \in [Slots -> 0 .. MaxID]
      BY <1>1, <2>1, <2>2 DEF PoolTyped
    <3>. QED  BY <1>1, <2>1, <2>2, <2>3, <2>5, <3>1, <3>2 DEF PoolTyped
  <2>7. UnitsTyped'
    <3>1. /\ flags' = [flags EXCEPT ![s] = "alive"]
          /\ dying' = [dying EXCEPT ![s] = FALSE]
          /\ local' = [local EXCEPT ![s] = p \notin Remote]
          /\ death_timer' = [death_timer EXCEPT ![s] = 0]
      BY <1>3 DEF CreateLocked
    <3>2. flags' \in [Slots -> Flags] /\ death_timer' \in [Slots -> 0 .. DeathTimer + 1]
      BY <2>1, <3>1, Sizes DEF UnitsTyped, Flags
    <3>3. dying' \in [Slots -> BOOLEAN] /\ local' \in [Slots -> BOOLEAN]
      BY <2>1, <3>1 DEF UnitsTyped
    <3>. QED  BY <3>2, <3>3 DEF UnitsTyped
  <2>8. IdsUnique'
    <3>1. \A x \in Slots : uid'[x] = IF x = s THEN next_unit_ID ELSE uid[x]
      BY <2>1, <2>2 DEF PoolTyped
    <3>2. next_unit_ID \in Nat /\ \A x \in Slots : uid[x] \in Nat
      BY <1>1 DEF PoolTyped
    <3>. QED  BY <2>2, <3>1, <3>2 DEF IdsUnique
  <2>. QED  BY <1>1, <2>2, <2>6, <2>7, <2>8
<1>4. CASE ~ (P!Stacks[p] > 0)
  <2>1. UNCHANGED <<idx_list, index_list_size, free_index_size, uid, next_unit_ID, unitVars>>
    BY <1>4 DEF CreateLocked
  <2>2. max_unit # 0
    BY <1>1, <1>4, Sizes DEF P!Stacks, P!FullStacks
  <2>3. P!Stacks' = P!Stacks
    BY <1>1, <2>1, <2>2 DEF P!Stacks
  <2>4. Counted'
    BY <2>1, <2>3 DEF PoolTyped, Counted, FreePlaces
  <2>5. PoolTyped'
    BY <1>1, <2>1, <2>2, <2>4 DEF PoolTyped
  <2>. QED  BY <1>1, <2>1, <2>5 DEF UnitsTyped, unitVars, IdsUnique
<1>. QED  BY <1>3, <1>4

(* The update of the lists in kill() keeps them within their bounds, for   *)
(* any slot and any position: also when the unit is killed a second time.  *)
LEMMA ReleaseKeeps ==
  ASSUME PoolTyped, ~ Overrun, NEW s \in Slots, NEW e \in -1 .. P!MaxUnit - 1,
         max_unit # 0, HasRoom(OwnerOf(s)),
         P!ReleaseSlot(s, e), UNCHANGED <<max_unit, uid, next_unit_ID>>
  PROVE  PoolTyped'
<1> DEFINE p == OwnerOf(s)
           h == free_index_size[p]
           n == index_list_size
           top == <<p, h>>
<1>1. /\ free_idx' = [free_idx EXCEPT ![p][h] = s]
      /\ free_index_size' = [free_index_size EXCEPT ![p] = @ + 1]
      /\ idx_list' = [idx_list EXCEPT ![e] = idx_list[n - 1]]
      /\ index_list_size' = n - 1
      /\ nb_unit' = nb_unit - 1
  BY DEF P!ReleaseSlot, P!OwnerOf, OwnerOf
<1>2. /\ p \in Players /\ h \in 0 .. MaxUnitPerPlayer - 1 /\ h \in P!Places
      /\ P!MaxUnit \in Nat /\ MaxUnitPerPlayer \in Nat /\ n \in 1 .. P!MaxUnit
  <2>1. p \in Players /\ h \in 0 .. MaxUnitPerPlayer - 1 /\ h \in P!Places
    BY Sizes DEF PoolTyped, OwnerOf, Slots, P!Slots, P!Places, HasRoom
  <2>2. top \in Slots \ FreePlaces
    BY <2>1 DEF Slots, P!Slots, FreePlaces, P!Stacks, Overrun
  <2>3. IsFiniteSet(Slots) /\ FreePlaces \subseteq Slots /\ FreePlaces # Slots
    BY <2>2, Sizes DEF FreePlaces
  <2>4. Cardinality(FreePlaces) < P!MaxUnit /\ Cardinality(FreePlaces) \in Nat
    BY <2>3, Sizes, FS_Subset, FS_CardinalityType
  <2>. QED  BY <2>1, <2>4, Sizes DEF PoolTyped, Counted
<1>3. free_idx' \in [Players -> [P!Places -> Slots]]
  BY <1>1, <1>2 DEF PoolTyped
<1>4. free_index_size' \in [Players -> 0 .. MaxUnitPerPlayer + 1]
  <2>1. h + 1 \in 0 .. MaxUnitPerPlayer + 1
    BY <1>2
  <2>. QED  BY <1>1, <1>2, <2>1 DEF PoolTyped
<1>5. idx_list[n - 1] \in Slots
  BY <1>2 DEF PoolTyped
<1>6. idx_list' \in [0 .. P!MaxUnit - 1 -> Slots \cup {NoSlot}]
  BY <1>1, <1>5 DEF PoolTyped
<1>7. \A i \in 0 .. n - 2 : idx_list'[i] \in Slots
  BY <1>1, <1>2, <1>5 DEF PoolTyped
<1>8. Counted'
  <2>1. P!Stacks = free_index_size /\ P!Stacks' = free_index_size'
    BY <1>2 DEF P!Stacks
  <2>2. top \in Slots /\ top \notin FreePlaces
    BY <1>2, <2>1 DEF Slots, P!Slots, FreePlaces
  <2>3. FreePlaces' = FreePlaces \cup {top}
    <3> SUFFICES ASSUME NEW x \in Slots
                 PROVE  x[2] < free_index_size'[x[1]]
                          <=> x[2] < free_index_size[x[1]] \/ x = top
      BY <2>1, <2>2 DEF FreePlaces
    <3>1. x[1] \in Players /\ x[2] \in 0 .. MaxUnitPerPlayer - 1 /\ x = <<x[1], x[2]>>
      BY DEF Slots, P!Slots, P!Places
    <3>2. CASE x[1] = p
      <4>1. free_index_size'[x[1]] = h + 1
        BY <1>1, <1>2, <3>2 DEF PoolTyped
      <4>2. x = top <=> x[2] = h
        BY <3>1, <3>2
      <4>. QED  BY <1>2, <3>1, <3>2, <4>1, <4>2
    <3>3. CASE x[1] # p
      BY <1>1, <3>1, <3>3 DEF PoolTyped
    <3>. QED  BY <3>2, <3>3
  <2>4. IsFiniteSet(FreePlaces) /\ Cardinality(FreePlaces) \in Nat
    BY Sizes, FS_Subset, FS_CardinalityType DEF FreePlaces
  <2>5. Cardinality(FreePlaces') = Cardinality(FreePlaces) + 1
    BY <2>2, <2>3, <2>4, FS_AddElement
  <2>. QED  BY <1>1, <1>2, <2>4, <2>5 DEF PoolTyped, Counted
<1>. QED  BY <1>1, <1>2, <1>3, <1>4, <1>6, <1>7, <1>8 DEF PoolTyped

(* A set of numbers has a smallest one, and a largest if it is bounded.    *)
LEMMA LeastNumber ==
  ASSUME NEW S \in SUBSET Nat, S # {}
  PROVE  \E i \in S : \A j \in S : i <= j
<1>1. \E i \in S : \A j \in S : ~ (<<j, i>> \in OpToRel(<, Nat))
  BY NatLessThanWellFounded, WFMin, Zenon
<1>2. PICK i \in S : \A j \in S : ~ (<<j, i>> \in OpToRel(<, Nat))
  BY <1>1
<1>3. ASSUME NEW j \in S, j < i PROVE FALSE
  <2>1. <<j, i>> \in Nat \X Nat
    OBVIOUS
  <2>2. <<j, i>> \in OpToRel(<, Nat)
    BY <1>3, <2>1 DEF OpToRel
  <2>. QED  BY <1>2, <2>2
<1>4. ASSUME NEW j \in S PROVE i <= j
  <2>1. ~ (j < i) /\ i \in Nat /\ j \in Nat
    BY <1>3
  <2>. QED  BY <2>1
<1>. QED  BY <1>4

LEMMA LargestNumber ==
  ASSUME NEW n \in Nat, NEW S \in SUBSET (0 .. n - 1), S # {}
  PROVE  \E i \in S : \A j \in S : i >= j
<1> DEFINE T == {n - i : i \in S}
<1>1. T \in SUBSET Nat /\ T # {}
  <2>1. \A i \in 0 .. n - 1 : n - i \in Nat
    OBVIOUS
  <2>. QED  BY <2>1
<1>2. PICK k \in T : \A j \in T : k <= j
  BY <1>1, LeastNumber
<1>3. PICK i \in S : k = n - i
  BY <1>2
<1>4. \A j \in S : n - i <= n - j
  BY <1>2, <1>3
<1>. QED  BY <1>4

-----------------------------------------------------------------------------
LEMMA InitTyped == Init => EngineTyped
<1> SUFFICES ASSUME Init PROVE EngineTyped
  OBVIOUS
<1>1. PoolTyped
  <2>1. FreePlaces = Slots
    <3>1. \A s \in Slots : s[1] \in Players /\ s[2] < MaxUnitPerPlayer
      BY Sizes DEF Slots, P!Slots, P!Places
    <3>. QED  BY <3>1 DEF Init, P!Init, P!NothingCreated, FreePlaces, P!Stacks, P!FullStacks
  <2>2. Counted
    BY <2>1, Sizes DEF Init, P!Init, P!NothingCreated, Counted
  <2>3. free_idx \in [Players -> [P!Places -> Slots]]
    BY DEF Init, P!Init, P!NothingCreated, P!AllFree, Slots, P!Slots, P!Places
  <2>4. free_index_size \in [Players -> 0 .. MaxUnitPerPlayer] /\ uid \in [Slots -> 0 .. MaxID]
    BY Sizes DEF Init, P!Init, P!NothingCreated, Slots
  <2>. QED  BY <2>2, <2>3, <2>4, Sizes DEF Init, P!Init, P!NothingCreated, PoolTyped
<1>2. UnitsTyped /\ IdsUnique
  BY Sizes DEF Init, P!Init, P!NothingCreated, UnitsTyped, Flags, IdsUnique, Slots
<1>3. ThreadsTyped /\ LoopTyped /\ Promised
  BY Sizes DEF Init, ThreadsTyped, LoopTyped, Looking, ThreadPCs, Promised, Idle, Threads
<1>. QED  BY <1>1, <1>2, <1>3 DEF Init, EngineTyped

(* What a thread does to its own program counter alone.                    *)
LEMMA GotoTyped ==
  ASSUME ThreadsTyped, NEW t \in Threads, NEW l \in ThreadPCs,
         th[t].pc # "idle", Goto(t, l)
  PROVE  /\ ThreadsTyped'
         /\ th'[t].pc = l /\ th'[t].slot = th[t].slot
         /\ th'[t].pos = th[t].pos /\ th'[t].id = th[t].id
         /\ \A u \in Threads : u # t => th'[u] = th[u]
BY DEF ThreadsTyped, Goto

LEMMA RestTyped ==
  ASSUME ThreadsTyped, NEW t \in Threads, Rest(t)
  PROVE  /\ ThreadsTyped'
         /\ th'[t] = Idle
         /\ \A u \in Threads : u # t => th'[u] = th[u]
<1>1. Idle \in [pc : ThreadPCs, slot : Slots \cup {NoSlot},
                pos : -1 .. P!MaxUnit - 1, id : 0 .. MaxID]
  BY Sizes DEF Idle, ThreadPCs
<1>. QED  BY <1>1 DEF ThreadsTyped, Rest, Idle

LEMMA CallTyped ==
  ASSUME ThreadsTyped, PoolTyped, NEW t \in Threads, NEW s \in Slots,
         NEW e \in -1 .. P!MaxUnit - 1, CallKill(t, s, e)
  PROVE  /\ ThreadsTyped'
         /\ th'[t] = [pc |-> "check", slot |-> s, pos |-> e, id |-> uid[s]]
         /\ th'[t].pc = "check"
         /\ \A u \in Threads : u # t => th'[u] = th[u]
BY DEF ThreadsTyped, PoolTyped, CallKill, ThreadPCs

(* The games and their players.                                            *)
LEMMA GameTyped ==
  ASSUME game \in Games
  PROVE  /\ game.ids \in 0 .. MaxID /\ MaxID \in Nat
         /\ game.builders \subseteq Players \ Remote
         /\ Remote \subseteq Players
BY EngineAssumption

(* The engine looks at an entry only if it did before, when it is another  *)
(* thread that moves, or when it turns to something else.                  *)
LEMMA EngineLooks ==
  ASSUME NEW t \in Threads, \A u \in Threads : u # t => th'[u] = th[u],
         t = "engine" => th'[t].pc \notin {"exam", "move", "create", "capture", "mark"}
  PROVE  /\ Looking' => Looking
         /\ th'["engine"].pc \in {"create", "capture"}
              => th["engine"].pc \in {"create", "capture"}
BY DEF Looking, Threads

(* kill() keeps everything in its range, in whatever thread.               *)
LEMMA KillingTyped ==
  ASSUME EngineTyped, Allocated, ~ Overrun, UNCHANGED game, NEW t \in Threads, Killing(t)
  PROVE  EngineTyped'
<1>1. CASE KillCheck(t)
  <2>1. th[t].id \in 0 .. MaxID
    BY DEF EngineTyped, ThreadsTyped
  <2>2. /\ ThreadsTyped' /\ told' \subseteq 0 .. MaxID
        /\ \A u \in Threads : u # t => th'[u] = th[u]
        /\ th'[t].pc \in {"destroy", "idle"}
    <3>1. CASE Goto(t, "destroy") /\ UNCHANGED told
      BY <1>1, <3>1, GotoTyped DEF KillCheck, At, EngineTyped, LoopTyped, ThreadPCs
    <3>2. CASE KillReturns(t)
      <4>1. ThreadsTyped' /\ th'[t] = Idle /\ \A u \in Threads : u # t => th'[u] = th[u]
        BY <3>2, RestTyped DEF KillReturns, EngineTyped
      <4>2. told' \subseteq 0 .. MaxID
        BY <2>1, <3>2 DEF KillReturns, EngineTyped, LoopTyped
      <4>. QED  BY <4>1, <4>2 DEF Idle
    <3>. QED  BY <1>1, <3>1, <3>2 DEF KillCheck
  <2>3. /\ Looking' => Looking
        /\ th'["engine"].pc \in {"create", "capture"}
             => th["engine"].pc \in {"create", "capture"}
    BY <2>2, EngineLooks
  <2>4. LoopTyped' /\ Promised'
    BY <1>1, <2>2, <2>3 DEF KillCheck, EngineTyped, LoopTyped, Promised, poolVars
  <2>5. PoolTyped' /\ UnitsTyped' /\ IdsUnique'
    BY <1>1 DEF KillCheck, EngineTyped, poolVars, unitVars, PoolTyped, UnitsTyped,
                IdsUnique, Counted, FreePlaces, P!Stacks, Overrun
  <2>. QED  BY <2>2, <2>4, <2>5 DEF EngineTyped
<1>2. CASE KillDestroy(t)
  <2> DEFINE s == th[t].slot
  <2>1. s \in Slots /\ th[t].pc = "destroy"
    BY <1>2 DEF KillDestroy, At, EngineTyped, ThreadsTyped
  <2>2. /\ ThreadsTyped'
        /\ \A u \in Threads : u # t => th'[u] = th[u]
        /\ th'[t].pc = "release"
    BY <1>2, <2>1, GotoTyped DEF KillDestroy, EngineTyped, ThreadPCs
  <2>3. /\ Looking' => Looking
        /\ th'["engine"].pc \in {"create", "capture"}
             => th["engine"].pc \in {"create", "capture"}
    BY <2>2, EngineLooks
  <2>4. LoopTyped' /\ Promised'
    BY <1>2, <2>2, <2>3 DEF KillDestroy, EngineTyped, LoopTyped, Promised
  <2>5. \A x \in Slots : uid'[x] = IF x = s THEN 0 ELSE uid[x]
    BY <1>2, <2>1 DEF KillDestroy, EngineTyped, PoolTyped
  <2>6. uid' \in [Slots -> 0 .. MaxID]
    BY <1>2, <2>1, Sizes DEF KillDestroy, EngineTyped, PoolTyped
  <2>7. PoolTyped'
    BY <1>2, <2>6 DEF KillDestroy, EngineTyped, PoolTyped, Counted, FreePlaces, P!Stacks, Overrun
  <2>8. IdsUnique'
    BY <1>2, <2>5 DEF KillDestroy, EngineTyped, IdsUnique
  <2>9. UnitsTyped'
    BY <1>2, <2>1, Sizes DEF KillDestroy, EngineTyped, UnitsTyped, Flags
  <2>. QED  BY <2>2, <2>4, <2>7, <2>8, <2>9 DEF EngineTyped
<1>3. CASE KillRelease(t)
  <2>1. /\ th[t].slot \in Slots /\ th[t].pos \in -1 .. P!MaxUnit - 1 /\ th[t].id \in 0 .. MaxID
        /\ max_unit # 0
    BY <1>3 DEF KillRelease, At, EngineTyped, ThreadsTyped, Allocated
  <2>2. PoolTyped'
    BY <1>3, <2>1, ReleaseKeeps DEF KillRelease, EngineTyped
  <2>3. /\ ThreadsTyped' /\ told' \subseteq 0 .. MaxID
        /\ \A u \in Threads : u # t => th'[u] = th[u]
        /\ th'[t].pc = "idle"
    BY <1>3, <2>1, RestTyped DEF KillRelease, KillReturns, EngineTyped, LoopTyped, Idle
  <2>4. nb_unit' = nb_unit - 1 /\ nb_unit \in Nat /\ P!MaxUnit \in Nat
    BY <1>3, Sizes DEF KillRelease, P!ReleaseSlot, EngineTyped, PoolTyped
  <2>5. /\ Looking' => Looking
        /\ th'["engine"].pc \in {"create", "capture"}
             => th["engine"].pc \in {"create", "capture"}
    BY <2>3, EngineLooks
  <2>6. LoopTyped' /\ Promised'
    BY <1>3, <2>3, <2>4, <2>5 DEF KillRelease, EngineTyped, LoopTyped, Promised
  <2>7. UnitsTyped' /\ IdsUnique'
    BY <1>3 DEF KillRelease, EngineTyped, unitVars, UnitsTyped, IdsUnique
  <2>. QED  BY <2>2, <2>3, <2>6, <2>7 DEF EngineTyped
<1>4. CASE KillOverruns(t)
  <2> DEFINE p == OwnerOf(th[t].slot)
  <2>1. th[t].pc = "release" /\ p \in Players /\ th[t].id \in 0 .. MaxID
    BY <1>4 DEF KillOverruns, At, EngineTyped, ThreadsTyped, OwnerOf, Slots, P!Slots
  <2>2. free_index_size[p] \in MaxUnitPerPlayer .. MaxUnitPerPlayer
    BY <1>4, <2>1, Sizes DEF KillOverruns, HasRoom, Overrun, EngineTyped, PoolTyped
  <2>3. /\ free_index_size' \in [Players -> 0 .. MaxUnitPerPlayer + 1]
        /\ free_index_size'[p] = MaxUnitPerPlayer + 1
    BY <1>4, <2>1, <2>2, Sizes DEF KillOverruns, EngineTyped, PoolTyped
  <2>4. Overrun'
    BY <2>1, <2>3, Sizes DEF Overrun
  <2>5. PoolTyped'
    BY <1>4, <2>3, <2>4 DEF KillOverruns, EngineTyped, PoolTyped
  <2>6. /\ ThreadsTyped' /\ told' \subseteq 0 .. MaxID
        /\ \A u \in Threads : u # t => th'[u] = th[u]
        /\ th'[t].pc = "idle"
    BY <1>4, <2>1, RestTyped DEF KillOverruns, KillReturns, EngineTyped, LoopTyped, Idle
  <2>7. /\ Looking' => Looking
        /\ th'["engine"].pc \in {"create", "capture"}
             => th["engine"].pc \in {"create", "capture"}
    BY <2>6, EngineLooks
  <2>8. LoopTyped' /\ Promised'
    BY <1>4, <2>6, <2>7 DEF KillOverruns, EngineTyped, LoopTyped, Promised
  <2>9. UnitsTyped' /\ IdsUnique'
    BY <1>4 DEF KillOverruns, EngineTyped, unitVars, UnitsTyped, IdsUnique
  <2>. QED  BY <2>5, <2>6, <2>8, <2>9 DEF EngineTyped
<1>. QED  BY <1>1, <1>2, <1>3, <1>4 DEF Killing

(* The steps of the engine's loop.                                         *)
LEMMA EngineTypedStep ==
  ASSUME EngineTyped, Allocated, ~ Overrun, UNCHANGED game, Engine
  PROVE  EngineTyped'
<1> DEFINE Same == UNCHANGED <<poolVars, unitVars>> => PoolTyped' /\ UnitsTyped' /\ IdsUnique'
<1>1. Same
  BY DEF EngineTyped, poolVars, unitVars, PoolTyped, UnitsTyped, IdsUnique, Counted,
         FreePlaces, P!Stacks, Overrun
<1>2. UNCHANGED poolVars => PoolTyped' /\ IdsUnique'
  BY DEF EngineTyped, poolVars, PoolTyped, IdsUnique, Counted, FreePlaces, P!Stacks, Overrun
<1> HIDE DEF Same
<1>3. /\ "engine" \in Threads /\ P!MaxUnit \in Nat
      /\ \A l \in ThreadPCs : At("engine", l) /\ l # "idle" => Here \in Slots
  BY Sizes DEF EngineTyped, ThreadsTyped, At, Threads, Here
<1>4. ASSUME Advance, Looking, UNCHANGED <<visited, told>>
      PROVE  ThreadsTyped' /\ LoopTyped' /\ (Promised')
  <2>1. ThreadsTyped' /\ th'["engine"].pc = "idle"
    BY <1>3, <1>4, RestTyped DEF Advance, EngineTyped, Idle
  <2>. QED  BY <1>3, <1>4, <2>1 DEF Advance, EngineTyped, LoopTyped, Looking, Promised
<1>5. CASE EngineFetch
  <2>1. idx_list[cursor] \in Slots /\ cursor < P!MaxUnit
    BY <1>3, <1>5 DEF EngineFetch, EngineTyped, PoolTyped, LoopTyped
  <2>2. ThreadsTyped' /\ th'["engine"].pc = "exam"
    <3> DEFINE R == [pc : ThreadPCs, slot : Slots \cup {NoSlot},
                     pos : -1 .. P!MaxUnit - 1, id : 0 .. MaxID]
               looks == [Idle EXCEPT !.pc = "exam", !.slot = idx_list[cursor]]
    <3>1. th' = [th EXCEPT !["engine"] = looks]
      BY <1>5 DEF EngineFetch
    <3>2. Idle \in R
      BY Sizes DEF Idle, ThreadPCs
    <3>3. looks \in R /\ looks.slot \in Slots /\ looks.pc = "exam"
      BY <2>1, <3>2 DEF ThreadPCs
    <3> HIDE DEF looks
    <3>. QED  BY <1>3, <3>1, <3>3 DEF EngineTyped, ThreadsTyped
  <2>3. LoopTyped' /\ Promised'
    BY <1>5, <2>1, <2>2 DEF EngineFetch, EngineTyped, LoopTyped, Promised
  <2>. QED  BY <1>1, <1>5, <2>2, <2>3 DEF EngineFetch, EngineTyped, Same
<1>6. CASE EnginePassEnds
  <2>1. ThreadsTyped' /\ LoopTyped' /\ Promised'
    BY <1>3, <1>6 DEF EnginePassEnds, EngineTyped, ThreadsTyped, LoopTyped, Looking,
                      Promised, At, poolVars
  <2>. QED  BY <1>1, <1>6, <2>1 DEF EnginePassEnds, EngineTyped, Same
<1>7. CASE EngineExam
  <2>1. Here \in Slots /\ th["engine"].pc = "exam" /\ cursor \in 0 .. P!MaxUnit - 1
    BY <1>3, <1>7 DEF EngineExam, At, ThreadPCs, EngineTyped, LoopTyped, Looking
  <2>2. ThreadsTyped' /\ th'["engine"].pc \in {"check", "move"}
    <3>1. CASE CallKill("engine", Here, cursor)
      <4>1. ThreadsTyped /\ PoolTyped /\ cursor \in -1 .. P!MaxUnit - 1
        BY <1>3, <2>1 DEF EngineTyped
      <4>. QED  BY <1>3, <2>1, <3>1, <4>1, CallTyped
    <3>2. CASE Goto("engine", "move")
      BY <1>3, <2>1, <3>2, GotoTyped DEF EngineTyped, ThreadPCs
    <3>. QED  BY <1>7, <3>1, <3>2 DEF EngineExam
  <2>3. visited' \subseteq 0 .. MaxID
    BY <1>7, <2>1 DEF EngineExam, EngineTyped, PoolTyped, LoopTyped
  <2>4. LoopTyped' /\ Promised'
    BY <1>3, <1>7, <2>1, <2>2, <2>3 DEF EngineExam, EngineTyped, LoopTyped, Promised, poolVars
  <2>. QED  BY <1>1, <1>7, <2>2, <2>4 DEF EngineExam, EngineTyped, Same
<1>8. CASE EngineMoves
  <2>1. Looking
    BY <1>8 DEF EngineMoves, At, Looking
  <2>. QED  BY <1>1, <1>4, <1>8, <2>1 DEF EngineMoves, EngineTyped, Same
<1>9. ASSUME Works
      PROVE  /\ th["engine"].pc = "move" /\ cursor < P!MaxUnit
             /\ next_unit_ID <= game.ids
  BY <1>9 DEF Works, At, IdsLeft, EngineTyped, LoopTyped, Looking, PoolTyped
<1>10. CASE EngineBuilds
  <2>1. th["engine"].pc = "move" /\ cursor < P!MaxUnit /\ next_unit_ID <= game.ids
    BY <1>9, <1>10 DEF EngineBuilds
  <2>2. ThreadsTyped'
    BY <1>3, <1>10, <2>1, GotoTyped DEF EngineBuilds, EngineTyped, ThreadPCs
  <2>3. LoopTyped'
    BY <1>10, <2>1 DEF EngineBuilds, EngineTyped, LoopTyped
  <2>4. nb_unit <= P!MaxUnit
    BY <1>3, <1>10 DEF EngineBuilds, P!MayCreate, EngineTyped, PoolTyped
  <2>5. Promised'
    BY <1>10, <2>1, <2>4 DEF EngineBuilds, Promised, poolVars
  <2>. QED  BY <1>1, <1>10, <2>2, <2>3, <2>5 DEF EngineBuilds, EngineTyped, Same
<1>11. ASSUME CreateLocked(OwnerOf(Here)), th["engine"].pc \in {"create", "capture"}
       PROVE  PoolTyped' /\ UnitsTyped' /\ IdsUnique'
  <2>1. OwnerOf(Here) \in Players
    BY <1>3, <1>11 DEF At, ThreadPCs, OwnerOf, Slots, P!Slots
  <2>2. next_unit_ID <= MaxID /\ nb_unit <= P!MaxUnit
    BY <1>11, GameTyped DEF EngineTyped, Promised, PoolTyped
  <2>. QED  BY <1>11, <2>1, <2>2, CreateKeeps DEF EngineTyped
<1>12. CASE EngineCreates
  <2>1. Looking /\ th["engine"].pc \in {"create", "capture"}
    BY <1>12 DEF EngineCreates, At, Looking
  <2>. QED  BY <1>4, <1>11, <1>12, <2>1 DEF EngineCreates, EngineTyped
<1>13. CASE \E s \in Slots : EngineCaptures(s)
  <2>1. PICK s \in Slots : EngineCaptures(s)
    BY <1>13
  <2> DEFINE l == IF P!MayCreate(OwnerOf(Here)) THEN "capture" ELSE "mark"
  <2>2. th["engine"].pc = "move" /\ cursor < P!MaxUnit /\ next_unit_ID <= game.ids
    BY <1>9, <2>1 DEF EngineCaptures
  <2>3. th' = [th EXCEPT !["engine"] = [@ EXCEPT !.pc = l, !.id = uid[s]]]
    BY <1>3, <2>1 DEF EngineCaptures, EngineTyped, ThreadsTyped
  <2>4. l \in ThreadPCs /\ uid[s] \in 0 .. MaxID
    BY DEF ThreadPCs, EngineTyped, PoolTyped
  <2> HIDE DEF l
  <2>5. ThreadsTyped' /\ th'["engine"].pc = l
    BY <1>3, <2>2, <2>3, <2>4 DEF EngineTyped, ThreadsTyped
  <2>6. LoopTyped'
    BY <2>1, <2>2 DEF EngineCaptures, EngineTyped, LoopTyped
  <2>7. l = "capture" => nb_unit <= P!MaxUnit
    BY <1>3 DEF l, P!MayCreate, EngineTyped, PoolTyped
  <2>8. l # "create"
    BY DEF l
  <2>9. Promised'
    BY <2>1, <2>2, <2>5, <2>7, <2>8 DEF EngineCaptures, Promised, poolVars
  <2>. QED  BY <1>1, <2>1, <2>5, <2>6, <2>9 DEF EngineCaptures, EngineTyped, Same
<1>14. CASE EngineCopiesCaptured
  <2>1. th["engine"].pc = "capture" /\ cursor < P!MaxUnit
    BY <1>14 DEF EngineCopiesCaptured, At, EngineTyped, LoopTyped, Looking
  <2>2. ThreadsTyped' /\ th'["engine"].pc = "mark"
    BY <1>3, <1>14, <2>1, GotoTyped DEF EngineCopiesCaptured, EngineTyped, ThreadPCs
  <2>3. LoopTyped' /\ Promised'
    BY <1>14, <2>1, <2>2 DEF EngineCopiesCaptured, EngineTyped, LoopTyped, Promised
  <2>. QED  BY <1>11, <1>14, <2>1, <2>2, <2>3 DEF EngineCopiesCaptured, EngineTyped
<1>15. CASE EngineMarksCaptured
  <2>1. Looking
    BY <1>15 DEF EngineMarksCaptured, At, Looking
  <2>2. UnitsTyped'
    BY <1>15 DEF EngineMarksCaptured, EngineTyped, UnitsTyped, Flags
  <2>. QED  BY <1>2, <1>4, <1>15, <2>1, <2>2 DEF EngineMarksCaptured, EngineTyped
<1>16. ASSUME Ages
       PROVE  /\ th["engine"].pc = "move" /\ Looking /\ Here \in Slots
              /\ death_timer' \in [Slots -> 0 .. DeathTimer + 1]
  <2>1. th["engine"].pc = "move" /\ Looking /\ Here \in Slots
    BY <1>3, <1>16 DEF Ages, At, Looking, ThreadPCs
  <2>2. death_timer' = [death_timer EXCEPT ![Here] = IF @ > DeathTimer THEN @ ELSE @ + 1]
    BY <1>16 DEF Ages
  <2>. QED  BY <2>1, <2>2, Sizes DEF EngineTyped, UnitsTyped
<1>19. CASE EngineExplodes
  <2>1. Looking /\ death_timer' \in [Slots -> 0 .. DeathTimer + 1]
    BY <1>16, <1>19 DEF EngineExplodes
  <2>2. UnitsTyped'
    BY <1>19, <2>1 DEF EngineExplodes, EngineTyped, UnitsTyped, Flags
  <2>. QED  BY <1>2, <1>4, <1>19, <2>1, <2>2 DEF EngineExplodes, EngineTyped
<1>20. CASE EngineWaits
  <2>1. Looking /\ death_timer' \in [Slots -> 0 .. DeathTimer + 1]
    BY <1>16, <1>20 DEF EngineWaits
  <2>2. UnitsTyped'
    BY <1>20, <2>1 DEF EngineWaits, EngineTyped, UnitsTyped
  <2>. QED  BY <1>2, <1>4, <1>20, <2>1, <2>2 DEF EngineWaits, EngineTyped
<1>17. CASE EngineKills
  <2>5. At("engine", "move") /\ death_timer' \in [Slots -> 0 .. DeathTimer + 1]
    BY <1>16, <1>17 DEF EngineKills, At, EngineTyped, UnitsTyped
  <2>1. Here \in Slots /\ cursor \in 0 .. P!MaxUnit - 1
    BY <1>3, <2>5 DEF At, ThreadPCs, EngineTyped, LoopTyped, Looking
  <2>2. ThreadsTyped' /\ th'["engine"].pc = "check"
    <3>1. ThreadsTyped /\ PoolTyped /\ cursor \in -1 .. P!MaxUnit - 1
      BY <1>3, <2>1 DEF EngineTyped
    <3>2. CallKill("engine", Here, cursor)
      BY <1>17 DEF EngineKills
    <3>. QED  BY <1>3, <2>1, <3>1, <3>2, CallTyped
  <2>3. LoopTyped' /\ Promised'
    BY <1>17, <2>1, <2>2 DEF EngineKills, EngineTyped, LoopTyped, Looking, Promised
  <2>4. UnitsTyped'
    <3>1. flags[Here] \in Flags
      BY <2>1 DEF EngineTyped, UnitsTyped
    <3>2. \E f \in Flags : flags' = [flags EXCEPT ![Here] = f]
      <4> DEFINE v == CASE TimeIsOver                -> flags[Here]
                        [] flags[Here] = "exploding" -> "alive"
                        [] flags[Here] = "captured"  -> "exploding"
                        [] OTHER                     -> flags[Here]
      <4>1. flags' = [flags EXCEPT ![Here] = v]
        BY <1>17 DEF EngineKills
      <4>2. v \in Flags
        BY <3>1 DEF Flags
      <4> HIDE DEF v
      <4>. QED  BY <4>1, <4>2
    <3>. QED  BY <1>17, <2>1, <2>5, <3>2 DEF EngineKills, EngineTyped, UnitsTyped
  <2>. QED  BY <1>2, <1>17, <2>2, <2>3, <2>4 DEF EngineKills, EngineTyped
<1>18. CASE Killing("engine")
  BY <1>3, <1>18, KillingTyped
<1>. QED
  BY <1>5, <1>6, <1>7, <1>8, <1>10, <1>12, <1>13, <1>14, <1>15, <1>19, <1>20, <1>17, <1>18
  DEF Engine

(* A creation by another thread leaves the ID that was promised.           *)
LEMMA OtherCreates ==
  ASSUME EngineTyped, ~ Overrun, UNCHANGED game, NEW p \in Players, IdsLeft, P!MayCreate(p),
         CreateLocked(p), UNCHANGED <<th, cursor, visited, told>>
  PROVE  EngineTyped'
<1>1. /\ next_unit_ID \in Nat /\ nb_unit \in Nat /\ P!MaxUnit \in Nat
      /\ game.ids \in 0 .. MaxID /\ MaxID \in Nat
  BY Sizes, GameTyped DEF EngineTyped, PoolTyped
<1>2. next_unit_ID <= MaxID /\ nb_unit < P!MaxUnit
  BY <1>1 DEF IdsLeft, P!MayCreate
<1>3. /\ PoolTyped' /\ UnitsTyped' /\ IdsUnique'
      /\ nb_unit' = nb_unit + 1
      /\ next_unit_ID' \in {next_unit_ID, next_unit_ID + 1}
  BY <1>1, <1>2, CreateKeeps DEF EngineTyped
<1>4. Promised'
  BY <1>1, <1>2, <1>3 DEF IdsLeft, At, Promised
<1>5. ThreadsTyped' /\ LoopTyped'
  BY DEF EngineTyped, ThreadsTyped, LoopTyped, Looking
<1>. QED  BY <1>3, <1>4, <1>5 DEF EngineTyped

(* The steps of the other threads, and hits.                               *)
LEMMA OthersTypedStep ==
  ASSUME EngineTyped, Allocated, ~ Overrun, UNCHANGED game, Net \/ UI \/ \E s \in Slots : Hit(s)
  PROVE  EngineTyped'
<1>1. UNCHANGED poolVars => PoolTyped' /\ IdsUnique'
  BY DEF EngineTyped, poolVars, PoolTyped, IdsUnique, Counted, FreePlaces, P!Stacks, Overrun
<1>2. ASSUME NEW t \in Threads, t # "engine", \A u \in Threads : u # t => th'[u] = th[u],
             UNCHANGED <<poolVars, cursor, visited, told>>
      PROVE  LoopTyped' /\ Promised'
  <2>1. /\ Looking' => Looking
        /\ th'["engine"].pc \in {"create", "capture"}
             => th["engine"].pc \in {"create", "capture"}
    BY <1>2, EngineLooks
  <2>. QED  BY <1>2, <2>1 DEF EngineTyped, LoopTyped, Promised, poolVars
<1>3. ASSUME NEW t \in {"net", "ui"}, Killing(t)
      PROVE  EngineTyped'
  BY <1>3, KillingTyped DEF Threads
<1>4. ASSUME NEW p \in Remote, NetCreates(p)
      PROVE  EngineTyped'
  <2>1. p \in Players
    BY EngineAssumption
  <2>. QED  BY <1>4, <2>1, OtherCreates DEF NetCreates
<1>5. ASSUME NEW s \in Slots, NetDeath(s)
      PROVE  EngineTyped'
  <2>1. FirstPlace(s) \in -1 .. P!MaxUnit - 1
    <3> DEFINE found == {i \in 0 .. P!MaxUnit - 1 : idx_list[i] = s}
    <3>1. CASE found = {}
      BY <3>1, Sizes DEF FirstPlace
    <3>2. CASE found # {}
      <4>1. \E i \in found : \A j \in found : i <= j
        <5>1. found \subseteq Nat /\ found # {}
          BY <3>2, Sizes
        <5> HIDE DEF found
        <5>. QED  BY <5>1, LeastNumber
      <4>2. (CHOOSE i \in found : \A j \in found : i <= j) \in found
        BY <4>1
      <4>. QED  BY <3>2, <4>2, Sizes DEF FirstPlace
    <3>. QED  BY <3>1, <3>2
  <2>2. ThreadsTyped' /\ \A u \in Threads : u # "net" => th'[u] = th[u]
    BY <1>5, <2>1, CallTyped DEF NetDeath, EngineTyped, Threads
  <2>3. LoopTyped' /\ Promised'
    BY <1>2, <1>5, <2>2 DEF NetDeath, Threads
  <2>4. UnitsTyped'
    BY <1>5 DEF NetDeath, EngineTyped, UnitsTyped, unitVars
  <2>. QED  BY <1>1, <1>5, <2>2, <2>3, <2>4 DEF NetDeath, EngineTyped
<1>6. ASSUME NEW p \in Players \ Remote, ScriptCreates(p)
      PROVE  EngineTyped'
  BY <1>6, OtherCreates DEF ScriptCreates
<1>7. ASSUME NEW s \in Slots, UICancels1(s)
      PROVE  EngineTyped'
  <2>1. LastPlace(s) \in -1 .. P!MaxUnit - 1
    <3> DEFINE found == {i \in DOMAIN idx_list : i < nb_unit /\ idx_list[i] = s}
    <3>1. CASE found = {}
      BY <3>1, Sizes DEF LastPlace
    <3>2. CASE found # {}
      <4>1. \E i \in found : \A j \in found : i >= j
        <5>1. found \in SUBSET (0 .. P!MaxUnit - 1) /\ P!MaxUnit \in Nat
          BY Sizes DEF EngineTyped, PoolTyped
        <5> HIDE DEF found
        <5>. QED  BY <3>2, <5>1, LargestNumber
      <4>2. (CHOOSE i \in found : \A j \in found : i >= j) \in found
        BY <4>1
      <4>3. found \subseteq 0 .. P!MaxUnit - 1
        BY DEF EngineTyped, PoolTyped
      <4>. QED  BY <3>2, <4>2, <4>3, Sizes DEF LastPlace
    <3>. QED  BY <3>1, <3>2
  <2> DEFINE call == [pc |-> "cancel", slot |-> s, pos |-> LastPlace(s), id |-> uid[s]]
  <2>2. /\ th' = [th EXCEPT !["ui"] = call] /\ call.slot \in Slots
        /\ call \in [pc : ThreadPCs, slot : Slots \cup {NoSlot},
                     pos : -1 .. P!MaxUnit - 1, id : 0 .. MaxID]
    BY <1>7, <2>1 DEF UICancels1, EngineTyped, PoolTyped, ThreadPCs
  <2> HIDE DEF call
  <2>3. ThreadsTyped' /\ \A u \in Threads : u # "ui" => th'[u] = th[u]
    BY <2>2 DEF EngineTyped, ThreadsTyped
  <2>4. LoopTyped' /\ Promised'
    BY <1>2, <1>7, <2>3 DEF UICancels1, Threads
  <2>5. UnitsTyped'
    BY <1>7 DEF UICancels1, EngineTyped, UnitsTyped, unitVars
  <2>. QED  BY <1>1, <1>7, <2>3, <2>4, <2>5 DEF UICancels1, EngineTyped
<1>8. ASSUME UICancels2
      PROVE  EngineTyped'
  <2>1. ThreadsTyped' /\ \A u \in Threads : u # "ui" => th'[u] = th[u]
    BY <1>8, GotoTyped DEF UICancels2, At, EngineTyped, Threads, ThreadPCs
  <2>2. LoopTyped' /\ Promised'
    BY <1>2, <1>8, <2>1 DEF UICancels2, Threads
  <2>3. th["ui"].slot \in Slots
    BY <1>8 DEF UICancels2, At, EngineTyped, ThreadsTyped, Threads
  <2>4. UnitsTyped'
    BY <1>8, <2>3 DEF UICancels2, EngineTyped, UnitsTyped, Flags
  <2>. QED  BY <1>1, <1>8, <2>1, <2>2, <2>4 DEF UICancels2, EngineTyped
<1>9. ASSUME NEW s \in Slots, Hit(s)
      PROVE  EngineTyped'
  <2>1. UnitsTyped'
    BY <1>9 DEF Hit, EngineTyped, UnitsTyped
  <2>2. ThreadsTyped' /\ LoopTyped' /\ Promised'
    BY <1>9 DEF Hit, EngineTyped, ThreadsTyped, LoopTyped, Looking, Promised, poolVars
  <2>. QED  BY <1>1, <1>9, <2>1, <2>2 DEF Hit, EngineTyped
<1>. QED  BY <1>3, <1>4, <1>5, <1>6, <1>7, <1>8, <1>9 DEF Net, UI

(* Threads begin to work only once there are units.                        *)
LEMMA AllocatedStep ==
  ASSUME EngineTyped, Allocated, Next
  PROVE  Allocated'
<1>1. max_unit' \in {max_unit, P!MaxUnit} /\ P!MaxUnit # 0
  <2>1. \A p : CreateLocked(p) => max_unit' = P!MaxUnit
    BY DEF CreateLocked
  <2>2. \A t : Killing(t) => max_unit' = max_unit
    BY DEF Killing, KillCheck, KillDestroy, KillRelease, KillOverruns, poolVars
  <2>3. Engine => max_unit' \in {max_unit, P!MaxUnit}
    BY <2>1, <2>2
    DEF Engine, EngineFetch, EnginePassEnds, EngineExam, EngineMoves, EngineBuilds,
        EngineCreates, EngineCaptures, EngineCopiesCaptured, EngineMarksCaptured,
        EngineExplodes, EngineWaits, EngineKills, poolVars
  <2>4. Net \/ UI => max_unit' \in {max_unit, P!MaxUnit}
    BY <2>1, <2>2
    DEF Net, UI, NetCreates, NetDeath, ScriptCreates, UICancels1, UICancels2, poolVars
  <2>5. \A x : Hit(x) => max_unit' = max_unit
    BY DEF Hit, poolVars
  <2>. QED  BY <2>3, <2>4, <2>5, Sizes DEF Next
<1>2. CASE max_unit # 0
  BY <1>1, <1>2 DEF Allocated
<1>3. CASE max_unit = 0
  <2>1. \A t \in Threads : th[t].pc = "idle"
    BY <1>3 DEF Allocated
  <2>2. index_list_size = 0 /\ \A s \in Slots : uid[s] = 0
    BY <1>3 DEF EngineTyped, PoolTyped
  <2>3. cursor >= index_list_size
    BY <2>2 DEF EngineTyped, LoopTyped
  <2>4. UNCHANGED th
    BY <2>1, <2>2, <2>3
    DEF Next, Engine, Net, UI, Killing, Hit, EngineFetch, EnginePassEnds, EngineExam,
        EngineMoves, EngineBuilds, EngineCreates, EngineCaptures, EngineCopiesCaptured,
        EngineMarksCaptured, EngineExplodes, EngineWaits, EngineKills, KillCheck,
        KillDestroy, KillRelease, KillOverruns, NetCreates, NetDeath, ScriptCreates,
        UICancels1, UICancels2, At, Works, Ages, Threads, EngineTyped, LoopTyped, PoolTyped
  <2>. QED  BY <2>1, <2>4 DEF Allocated
<1>. QED  BY <1>2, <1>3

LEMMA TypedStep == EngineTyped /\ Allocated /\ [Next]_vars => (EngineTyped /\ Allocated)'
<1>1. ASSUME EngineTyped, Allocated, Next PROVE EngineTyped' /\ Allocated'
  BY <1>1, EngineTypedStep, OthersTypedStep, AllocatedStep DEF Next
<1>2. ASSUME EngineTyped, Allocated, UNCHANGED vars PROVE EngineTyped' /\ Allocated'
  BY <1>2 DEF vars, poolVars, unitVars, EngineTyped, PoolTyped, UnitsTyped, ThreadsTyped,
              LoopTyped, Looking, Promised, IdsUnique, Counted, FreePlaces, P!Stacks, Overrun,
              Allocated
<1>. QED  BY <1>1, <1>2

LEMMA Typing == Spec => [](EngineTyped /\ Allocated)
<1>1. Init => Allocated
  BY DEF Init, Allocated, Idle
<1>. QED  BY <1>1, InitTyped, TypedStep, PTL DEF Spec

(* No two slots ever carry the same ID.                                    *)
THEOREM IdsAreUnique == Spec => []IdsUnique
<1>1. EngineTyped => IdsUnique
  BY DEF EngineTyped
<1>. QED  BY <1>1, Typing, PTL

-----------------------------------------------------------------------------
(* Games in which only the engine kills.                                   *)
AbsUid == [s \in Slots |->
             IF At("engine", "release") /\ th["engine"].slot = s
             THEN th["engine"].id ELSE uid[s]]
A == INSTANCE UnitPoolProofs WITH uid <- AbsUid

(* No kill() of another thread is under way.                               *)
OthersIdle == th["net"].pc = "idle" /\ th["ui"].pc = "idle"

(* A blank unit is one without an ID.                                      *)
Marked == \A s \in Slots : flags[s] = "none" <=> uid[s] = 0

(* Nobody but the engine shortens the list or moves an entry: the slot it  *)
(* works with stays where the loop found it.                               *)
AtCursor ==
  /\ cursor <= index_list_size
  /\ th["engine"].pc # "idle" => cursor < index_list_size /\ Here = idx_list[cursor]

(* How far a kill() of the engine has come.                                *)
KillsHere ==
  /\ th["engine"].pc # "cancel"
  /\ th["engine"].pc \in {"check", "destroy", "release"} => th["engine"].pos = cursor
  /\ th["engine"].pc \in {"check", "destroy"} => uid[Here] = th["engine"].id
  /\ th["engine"].pc = "release" => uid[Here] = 0

(* The slot a builder was promised is still there when it takes it: nobody *)
(* else creates units for its player while it has one.                     *)
StackHolds ==
  /\ th["engine"].pc \in {"create", "capture"} =>
       OwnerOf(Here) \notin Remote /\ P!Stacks[OwnerOf(Here)] > 0
  /\ th["engine"].pc \in {"capture", "mark"} => th["engine"].id # 0

(* What the loop has met.                                                  *)
Met ==
  /\ \A i \in visited : i < next_unit_ID
  /\ th["engine"].pc \in {"move", "create", "capture", "mark"} => uid[Here] \in visited
  /\ \A k \in 0 .. index_list_size - 1 : uid[idx_list[k]] # 0 =>
       /\ k < cursor => uid[idx_list[k]] \in visited
       /\ k > cursor => uid[idx_list[k]] \notin visited

AloneInv ==
  /\ A!PoolInv
  /\ OthersIdle /\ Marked /\ AtCursor /\ KillsHere /\ StackHolds
  /\ Met

(* The two instances of UnitPool say the same of the array.                *)
LEMMA SamePool ==
  /\ A!PoolAssumption
  /\ A!MaxUnit = P!MaxUnit /\ A!Slots = Slots /\ A!Stacks = P!Stacks
  /\ A!Next => Abs!Next
  /\ A!Init <=> Abs!Init
<1>1. A!PoolAssumption
  BY ArrayAssumption DEF P!PoolAssumption, A!PoolAssumption, P!IsFiniteSet, A!IsFiniteSet
<1>2. A!MaxUnit = P!MaxUnit
  BY DEF A!MaxUnit, P!MaxUnit, P!Cardinality, A!Cardinality
<1>3. A!Slots = Slots /\ A!Stacks = P!Stacks
  BY DEF A!Slots, A!Places, Slots, P!Slots, P!Places, A!Stacks, A!FullStacks, P!Stacks, P!FullStacks
<1>4. A!Next => Abs!Next
  BY DEF A!Next, A!Create, A!MayCreate, A!TakeSlot, A!Stacks, A!FullStacks, A!Kill,
         A!ReleaseSlot, A!OwnerOf, A!Destroy, A!MaxUnit, A!AllFree, A!Places, A!Slots,
         A!Cardinality,
         Abs!Next, Abs!Create, Abs!MayCreate, Abs!TakeSlot, Abs!Stacks, Abs!FullStacks,
         Abs!Kill, Abs!ReleaseSlot, Abs!OwnerOf, Abs!Destroy, Abs!MaxUnit, Abs!AllFree,
         Abs!Places, Abs!Slots, Abs!Cardinality, AbsUid
<1>5. A!Init <=> Abs!Init
  BY DEF A!Init, A!NothingCreated, A!MaxUnit, A!AllFree, A!Places, A!Slots, A!Cardinality,
         Abs!Init, Abs!NothingCreated, Abs!MaxUnit, Abs!AllFree, Abs!Places, Abs!Slots,
         Abs!Cardinality, AbsUid
<1>. QED  BY <1>1, <1>2, <1>3, <1>4, <1>5

(* The invariant of UnitPool, for the array as the refinement sees it.     *)
LEMMA PoolSteps ==
  /\ A!Init => A!PoolInv
  /\ A!PoolInv /\ A!Next => A!PoolInv'
  /\ A!PoolInv /\ UNCHANGED A!vars => A!PoolInv'
<1>1. A!PoolAssumption
  BY SamePool
<1>2. A!Init => A!PoolInv
  BY <1>1, A!InitPoolInv
<1>3. A!PoolInv /\ [A!Next]_(A!vars) => A!PoolInv'
  BY <1>1, A!NextPoolInv
<1>. QED  BY <1>2, <1>3

LEMMA RoomWhenAlone == AloneInv => ~ Overrun
<1>1. AloneInv => \A p \in Players : free_index_size[p] \in 0 .. MaxUnitPerPlayer
  BY DEF AloneInv, A!PoolInv, A!TypeOK
<1>. QED  BY <1>1, Sizes DEF Overrun

(* The unit the engine works with is listed, and it is one until kill()    *)
(* destroys it.                                                            *)
LEMMA HereIsListed ==
  ASSUME EngineTyped, AloneInv, th["engine"].pc # "idle"
  PROVE  /\ Here \in Slots /\ Here = idx_list[cursor]
         /\ cursor \in 0 .. index_list_size - 1 /\ Here \in A!Listed
         /\ th["engine"].pc # "release" => uid[Here] # 0 /\ flags[Here] # "none"
<1>1. /\ Here \in Slots /\ Here = idx_list[cursor] /\ cursor \in 0 .. index_list_size - 1
  BY DEF EngineTyped, PoolTyped, ThreadsTyped, LoopTyped, Threads, Here, AloneInv, AtCursor
<1>2. Here \in A!Listed
  BY <1>1 DEF A!Listed
<1>3. AbsUid[Here] # 0
  BY <1>1, <1>2, SamePool DEF AloneInv, A!PoolInv, A!IdsNameUnits
<1>4. th["engine"].pc # "release" => uid[Here] # 0
  BY <1>1, <1>3 DEF AbsUid, At
<1>. QED  BY <1>1, <1>2, <1>4 DEF AloneInv, Marked

(* A step that leaves the array alone is a stutter for UnitPool.           *)
LEMMA ArrayRests ==
  ASSUME AloneInv, UNCHANGED poolVars,
         \/ th["engine"].pc # "release" /\ th'["engine"].pc # "release"
         \/ UNCHANGED th
  PROVE  /\ A!PoolInv' /\ UNCHANGED A!vars
         /\ P!Stacks' = P!Stacks
<1>1. AbsUid' = AbsUid
  BY DEF AbsUid, At, poolVars
<1>2. UNCHANGED A!vars
  BY <1>1 DEF A!vars, poolVars
<1>. QED  BY <1>2, PoolSteps DEF AloneInv, poolVars, P!Stacks

(* A creation that finds a slot is the call of UnitPool.                   *)
LEMMA CreateMaps ==
  ASSUME EngineTyped, AloneInv, NEW p \in Players, CreateLocked(p), P!Stacks[p] > 0,
         next_unit_ID <= MaxID,
         \/ th["engine"].pc # "release" /\ th'["engine"].pc # "release"
         \/ UNCHANGED th
  PROVE  /\ A!Next /\ A!PoolInv' /\ Marked'
         /\ index_list_size' = index_list_size + 1
         /\ next_unit_ID' = next_unit_ID + 1
         /\ \A q \in Players : q # p => P!Stacks'[q] = P!Stacks[q]
         /\ \A k \in 0 .. index_list_size - 1 :
              idx_list'[k] = idx_list[k] /\ uid'[idx_list[k]] = uid[idx_list[k]]
         /\ uid'[idx_list'[index_list_size]] = next_unit_ID
<1> DEFINE s == free_idx[p][P!Stacks[p] - 1]
           n == index_list_size
<1>1. s \in Slots /\ n < P!MaxUnit /\ n \in Nat /\ P!MaxUnit \in Nat
  BY PopsSlot, RoomWhenAlone, Sizes DEF EngineTyped, PoolTyped
<1>2. /\ nb_unit' = nb_unit + 1 /\ max_unit' = P!MaxUnit /\ UNCHANGED free_idx
      /\ free_index_size' = [P!Stacks EXCEPT ![p] = @ - 1]
      /\ uid' = [uid EXCEPT ![s] = next_unit_ID]
      /\ next_unit_ID' = next_unit_ID + 1
      /\ idx_list' = [idx_list EXCEPT ![n] = s]
      /\ index_list_size' = n + 1
      /\ flags' = [flags EXCEPT ![s] = "alive"]
  BY DEF CreateLocked, P!TakeSlot
<1>3. s \notin A!Listed
  <2>1. A!PoolInv => \A q \in Players : \A k \in 0 .. A!Stacks[q] - 1 :
          free_idx[q][k] \notin A!Listed
    BY SamePool, A!StacksFit
  <2>2. P!Stacks[p] - 1 \in 0 .. P!Stacks[p] - 1
    BY StacksTyped, RoomWhenAlone, Sizes DEF EngineTyped
  <2>. QED  BY <2>1, <2>2, SamePool DEF AloneInv
<1>4. \A k \in 0 .. n - 1 : idx_list[k] # s
  BY <1>3 DEF A!Listed
<1>5. th["engine"].pc = "release" => th["engine"].slot # s
  BY <1>3, HereIsListed DEF Here
<1>6. AbsUid' = [AbsUid EXCEPT ![s] = next_unit_ID]
  <2>1. \A x \in Slots : uid'[x] = IF x = s THEN next_unit_ID ELSE uid[x]
    BY <1>1, <1>2 DEF EngineTyped, PoolTyped
  <2>2. CASE th["engine"].pc # "release" /\ th'["engine"].pc # "release"
    BY <1>1, <2>1, <2>2 DEF AbsUid, At
  <2>3. CASE UNCHANGED th
    BY <1>1, <1>5, <2>1, <2>3 DEF AbsUid, At
  <2>. QED  BY <2>2, <2>3
<1>7. nb_unit < P!MaxUnit
  BY <1>1 DEF AloneInv, A!PoolInv, A!CountAgrees
<1>8. max_unit = 0 \/ free_index_size[p] > 0
  BY DEF P!Stacks
<1>9. A!Next
  <2>1. A!TakeSlot(p)
    BY <1>2, <1>6, SamePool DEF A!TakeSlot
  <2>2. A!Create(p)
    BY <1>2, <1>7, <1>8, <2>1, SamePool DEF A!Create, A!MayCreate
  <2>. QED  BY <2>2 DEF A!Next
<1>10. A!PoolInv'
  BY <1>9, PoolSteps DEF AloneInv
<1>11. Marked'
  BY <1>1, <1>2 DEF AloneInv, Marked, EngineTyped, UnitsTyped, PoolTyped
<1>12. \A q \in Players : q # p => P!Stacks'[q] = P!Stacks[q]
  <2>1. P!Stacks' = free_index_size'
    BY <1>1, <1>2, Sizes DEF P!Stacks
  <2>. QED  BY <1>2, <2>1, StacksTyped, RoomWhenAlone DEF EngineTyped
<1>13. \A k \in 0 .. n - 1 : idx_list'[k] = idx_list[k] /\ uid'[idx_list[k]] = uid[idx_list[k]]
  BY <1>1, <1>2, <1>4 DEF EngineTyped, PoolTyped
<1>14. uid'[idx_list'[n]] = next_unit_ID
  BY <1>1, <1>2 DEF EngineTyped, PoolTyped
<1>. QED  BY <1>2, <1>9, <1>10, <1>11, <1>12, <1>13, <1>14

(* What the loop has met, when the array and its unit stay the same.       *)
LEMMA MetRests ==
  ASSUME EngineTyped, AloneInv, UNCHANGED <<poolVars, cursor, visited>>,
         \/ th'["engine"].pc \notin {"move", "create", "capture", "mark"}
         \/ th["engine"].pc = "move" /\ th'["engine"].slot = Here
  PROVE  Met'
BY DEF AloneInv, Met, poolVars, Here

(* The loop goes on to the next entry after it met this one.               *)
LEMMA MetAdvances ==
  ASSUME EngineTyped, AloneInv, UNCHANGED <<poolVars, visited>>, Advance,
         th["engine"].pc \in {"move", "create", "capture", "mark"}
  PROVE  /\ Met' /\ AtCursor' /\ KillsHere' /\ StackHolds' /\ OthersIdle'
         /\ th["engine"].pc # "release" /\ th'["engine"].pc # "release"
<1>1. th'["engine"] = Idle /\ th'["net"] = th["net"] /\ th'["ui"] = th["ui"]
  BY RestTyped DEF Advance, EngineTyped, Threads
<1>2. /\ Here = idx_list[cursor] /\ cursor \in 0 .. index_list_size - 1
      /\ cursor' = cursor + 1 /\ index_list_size \in Nat
  BY HereIsListed DEF Advance, EngineTyped, PoolTyped
<1>3. uid[Here] \in visited
  BY DEF AloneInv, Met
<1>4. Met'
  <2> SUFFICES ASSUME NEW k \in 0 .. index_list_size - 1, uid[idx_list[k]] # 0
               PROVE  /\ k < cursor + 1 => uid[idx_list[k]] \in visited
                      /\ k > cursor + 1 => uid[idx_list[k]] \notin visited
    BY <1>1, <1>2 DEF AloneInv, Met, poolVars, Idle
  <2>1. CASE k = cursor
    BY <1>2, <1>3, <2>1
  <2>2. CASE k # cursor
    BY <1>2, <2>2 DEF AloneInv, Met
  <2>. QED  BY <2>1, <2>2
<1>. QED  BY <1>1, <1>2, <1>4 DEF AloneInv, AtCursor, KillsHere, StackHolds, OthersIdle,
                                  Idle, poolVars

(* A creation appends a unit the loop has not met.                         *)
LEMMA MetGrows ==
  ASSUME EngineTyped, AloneInv, NEW p \in Players, CreateLocked(p), P!Stacks[p] > 0,
         next_unit_ID <= MaxID, UNCHANGED visited,
         \/ UNCHANGED <<th, cursor>>
         \/ /\ th["engine"].pc = "create" /\ th'["engine"].pc = "idle"
            /\ cursor' = cursor + 1
         \/ /\ th["engine"].pc = "capture" /\ th'["engine"].pc = "mark"
            /\ th'["engine"].slot = Here /\ UNCHANGED cursor
  PROVE  Met'
<1> DEFINE n == index_list_size
<1>1. /\ n \in Nat /\ cursor \in 0 .. n /\ next_unit_ID \in Nat
      /\ visited \subseteq Nat
  BY Sizes DEF EngineTyped, PoolTyped, LoopTyped, AloneInv, AtCursor
<1>2. /\ index_list_size' = n + 1
      /\ next_unit_ID' = next_unit_ID + 1
      /\ \A k \in 0 .. n - 1 :
           idx_list'[k] = idx_list[k] /\ uid'[idx_list[k]] = uid[idx_list[k]]
      /\ uid'[idx_list'[n]] = next_unit_ID
  BY CreateMaps
<1>3. \A i \in visited : i < next_unit_ID /\ i < next_unit_ID'
  BY <1>1, <1>2 DEF AloneInv, Met
<1>4. next_unit_ID \notin visited
  BY <1>1, <1>3
<1>5. /\ th["engine"].pc # "idle" => Here = idx_list[cursor] /\ cursor \in 0 .. n - 1
      /\ th["engine"].pc \in {"move", "create", "capture", "mark"} => uid[Here] \in visited
  BY HereIsListed DEF AloneInv, Met
<1>6. ASSUME th'["engine"].pc \in {"move", "create", "capture", "mark"}
      PROVE  uid'[Here'] \in visited
  BY <1>2, <1>5, <1>6 DEF Here
<1>7. ASSUME NEW k \in 0 .. n, uid'[idx_list'[k]] # 0
      PROVE  /\ k < cursor' => uid'[idx_list'[k]] \in visited
             /\ k > cursor' => uid'[idx_list'[k]] \notin visited
  <2>1. cursor' = cursor \/ (cursor' = cursor + 1 /\ th["engine"].pc = "create")
    OBVIOUS
  <2>2. CASE k = n
    BY <1>1, <1>2, <1>4, <1>5, <2>1, <2>2
  <2>3. CASE k # n
    <3>1. k \in 0 .. n - 1
      BY <1>1, <2>3
    <3>2. /\ k < cursor => uid[idx_list[k]] \in visited
          /\ k > cursor => uid[idx_list[k]] \notin visited
      BY <1>2, <1>7, <3>1 DEF AloneInv, Met
    <3>3. k = cursor /\ th["engine"].pc = "create" => uid[idx_list[k]] \in visited
      BY <1>5
    <3>. QED  BY <1>1, <1>2, <2>1, <3>1, <3>2, <3>3
  <2>. QED  BY <2>2, <2>3
<1>. QED  BY <1>1, <1>2, <1>3, <1>6, <1>7 DEF Met

(* kill() in the engine, from its test to the update of the lists.         *)
LEMMA AloneKills ==
  ASSUME EngineTyped, AloneInv, Killing("engine")
  PROVE  AloneInv' /\ [A!Next]_(A!vars)
<1>1. /\ "engine" \in Threads /\ "net" \in Threads /\ "ui" \in Threads
      /\ P!MaxUnit \in Nat
  BY Sizes DEF Threads
<1>2. CASE KillCheck("engine")
  <2>1. /\ th["engine"].pc = "check" /\ th["engine"].pos = cursor
        /\ cursor \in 0 .. index_list_size - 1 /\ index_list_size \in Nat
    BY <1>2, HereIsListed DEF KillCheck, At, AloneInv, KillsHere, EngineTyped, PoolTyped
  <2>2. Goto("engine", "destroy") /\ UNCHANGED <<poolVars, unitVars, cursor, visited>>
    BY <1>2, <2>1 DEF KillCheck
  <2>3. /\ th'["engine"].pc = "destroy" /\ th'["engine"].slot = th["engine"].slot
        /\ th'["engine"].pos = th["engine"].pos /\ th'["engine"].id = th["engine"].id
        /\ th'["net"] = th["net"] /\ th'["ui"] = th["ui"]
    BY <1>1, <2>1, <2>2, GotoTyped DEF EngineTyped, ThreadPCs
  <2>4. A!PoolInv' /\ UNCHANGED A!vars
    BY <2>1, <2>2, <2>3, ArrayRests
  <2>5. Met'
    BY <2>2, <2>3, MetRests
  <2>6. OthersIdle' /\ AtCursor' /\ KillsHere' /\ StackHolds'
    BY <2>1, <2>2, <2>3
    DEF AloneInv, OthersIdle, AtCursor, KillsHere, StackHolds, Here, poolVars
  <2>7. Marked'
    BY <2>2 DEF AloneInv, Marked, poolVars, unitVars
  <2>. QED  BY <2>4, <2>5, <2>6, <2>7 DEF AloneInv
<1>3. CASE KillDestroy("engine")
  <2>1. /\ th["engine"].pc = "destroy" /\ Here \in Slots
        /\ Here = idx_list[cursor] /\ cursor \in 0 .. index_list_size - 1
        /\ uid[Here] = th["engine"].id
    BY <1>3, HereIsListed DEF KillDestroy, At, AloneInv, KillsHere
  <2>2. Goto("engine", "release")
    BY <1>3 DEF KillDestroy
  <2>3. /\ th'["engine"].pc = "release" /\ th'["engine"].slot = th["engine"].slot
        /\ th'["engine"].pos = th["engine"].pos /\ th'["engine"].id = th["engine"].id
        /\ th'["net"] = th["net"] /\ th'["ui"] = th["ui"]
    BY <1>1, <2>1, <2>2, GotoTyped DEF EngineTyped, ThreadPCs
  <2>4. \A x \in Slots : /\ uid'[x] = IF x = Here THEN 0 ELSE uid[x]
                         /\ flags'[x] = IF x = Here THEN "none" ELSE flags[x]
    BY <1>3, <2>1 DEF KillDestroy, Here, EngineTyped, PoolTyped, UnitsTyped
  <2>5. AbsUid' = AbsUid
    BY <2>1, <2>3, <2>4 DEF AbsUid, At, Here
  <2>6. UNCHANGED A!vars
    BY <1>3, <2>5 DEF KillDestroy, A!vars
  <2>7. A!PoolInv'
    BY <2>6, PoolSteps DEF AloneInv
  <2>8. Marked'
    BY <2>4 DEF AloneInv, Marked
  <2>9. Met'
    <3>1. ASSUME NEW k \in 0 .. index_list_size - 1, uid'[idx_list[k]] # 0
          PROVE  uid'[idx_list[k]] = uid[idx_list[k]]
      BY <2>1, <2>4, <3>1 DEF EngineTyped, PoolTyped
    <3>. QED  BY <1>3, <2>3, <3>1 DEF KillDestroy, AloneInv, Met
  <2>10. OthersIdle' /\ AtCursor' /\ KillsHere' /\ StackHolds'
    BY <1>3, <2>1, <2>3, <2>4
    DEF KillDestroy, AloneInv, OthersIdle, AtCursor, KillsHere, StackHolds, Here
  <2>. QED  BY <2>6, <2>7, <2>8, <2>9, <2>10 DEF AloneInv
<1>4. CASE KillRelease("engine")
  <2> DEFINE n == index_list_size
  <2>1. /\ th["engine"].pc = "release" /\ th["engine"].slot = Here
        /\ th["engine"].pos = cursor /\ uid[Here] = 0
        /\ Here = idx_list[cursor] /\ cursor \in 0 .. n - 1
        /\ Here \in Slots /\ n \in 1 .. P!MaxUnit
    <3>1. /\ th["engine"].pc = "release" /\ th["engine"].slot = Here
          /\ n \in 0 .. P!MaxUnit
      BY <1>4 DEF KillRelease, At, EngineTyped, PoolTyped, Here
    <3>2. Here = idx_list[cursor] /\ cursor \in 0 .. n - 1 /\ Here \in Slots
      BY <3>1, HereIsListed
    <3>3. th["engine"].pos = cursor /\ uid[Here] = 0
      BY <3>1 DEF AloneInv, KillsHere
    <3>4. n \in 1 .. P!MaxUnit
      BY <1>1, <3>1, <3>2
    <3>. QED  BY <3>1, <3>2, <3>3, <3>4
  <2>2. P!ReleaseSlot(Here, cursor) /\ UNCHANGED <<max_unit, uid, next_unit_ID>>
    BY <1>4, <2>1 DEF KillRelease
  <2>3. Rest("engine") /\ UNCHANGED <<flags, cursor, visited>>
    BY <1>4 DEF KillRelease, KillReturns, unitVars
  <2>4. th'["engine"] = Idle /\ th'["net"] = th["net"] /\ th'["ui"] = th["ui"]
    BY <1>1, <2>3, RestTyped DEF EngineTyped
  <2>5. AbsUid' = [AbsUid EXCEPT ![Here] = 0]
    <3>1. th'["engine"].pc # "release"
      BY <2>4 DEF Idle
    <3>2. \A x \in Slots : AbsUid'[x] = uid[x]
      BY <2>2, <3>1 DEF AbsUid, At
    <3>3. \A x \in Slots : x # Here => AbsUid[x] = uid[x]
      BY DEF AbsUid, Here
    <3>4. AbsUid' = [x \in Slots |-> AbsUid'[x]] /\ AbsUid = [x \in Slots |-> AbsUid[x]]
      BY DEF AbsUid
    <3> HIDE DEF AbsUid
    <3>. QED  BY <2>1, <3>2, <3>3, <3>4
  <2>6. A!Kill(cursor)
    <3>1. A!ReleaseSlot(Here, cursor)
      BY <2>2 DEF A!ReleaseSlot, P!ReleaseSlot, A!OwnerOf, P!OwnerOf
    <3>. QED  BY <2>1, <2>2, <2>5, <3>1 DEF A!Kill
  <2>7. A!Next
    BY <1>1, <2>1, <2>6, SamePool DEF A!Next
  <2>8. A!PoolInv'
    BY <2>7, PoolSteps DEF AloneInv
  <2>9. /\ index_list_size' = n - 1
        /\ \A k \in 0 .. n - 2 : k # cursor => idx_list'[k] = idx_list[k]
    BY <1>1, <2>1, <2>2 DEF P!ReleaseSlot, EngineTyped, PoolTyped
  <2>10. Met'
    <3>1. \A k \in 0 .. n - 2 : k # cursor => uid'[idx_list'[k]] = uid[idx_list[k]]
      BY <2>2, <2>9
    <3>2. ASSUME NEW k \in 0 .. n - 2, uid'[idx_list'[k]] # 0
          PROVE  /\ k < cursor => uid'[idx_list'[k]] \in visited
                 /\ k > cursor => uid'[idx_list'[k]] \notin visited
      BY <2>1, <3>1, <3>2 DEF AloneInv, Met
    <3>3. \A i \in visited : i < next_unit_ID
      BY DEF AloneInv, Met
    <3>4. n - 1 - 1 = n - 2
      BY <2>1
    <3>. QED  BY <2>2, <2>3, <2>4, <2>9, <3>2, <3>3, <3>4 DEF Met, Idle
  <2>11. OthersIdle' /\ Marked' /\ AtCursor' /\ KillsHere' /\ StackHolds'
    BY <2>1, <2>2, <2>3, <2>4, <2>9
    DEF AloneInv, OthersIdle, Marked, AtCursor, KillsHere, StackHolds, Idle
  <2>. QED  BY <2>7, <2>8, <2>10, <2>11 DEF AloneInv
<1>5. CASE KillOverruns("engine")
  <2>1. th["engine"].pc = "release" /\ Here \in Slots /\ ~ HasRoom(OwnerOf(Here))
    BY <1>5, HereIsListed DEF KillOverruns, At, Here
  <2>2. Here \in A!Listed /\ A!PoolInv /\ A!PoolAssumption /\ max_unit # 0
    BY <2>1, HereIsListed, SamePool DEF AloneInv, EngineTyped, PoolTyped
  <2>3. Here \notin A!FreeOf(A!OwnerOf(Here))
    BY <2>1, <2>2, SamePool DEF A!PoolInv, A!Partition
  <2>4. A!TypeOK /\ A!FreeOnce /\ A!OwnPart /\ Here \in A!Slots
    BY <2>1, <2>2, SamePool DEF A!PoolInv
  <2>5. free_index_size[A!OwnerOf(Here)] < MaxUnitPerPlayer
    BY <2>2, <2>3, <2>4, A!RoomToPush
  <2>. QED  BY <2>1, <2>5 DEF HasRoom, OwnerOf, A!OwnerOf
<1>. QED  BY <1>2, <1>3, <1>4, <1>5 DEF Killing

(* The loop of move().                                                     *)
LEMMA AloneMoves ==
  ASSUME EngineTyped, AloneInv, Engine
  PROVE  AloneInv' /\ [A!Next]_(A!vars)
<1> DEFINE Others == th'["net"] = th["net"] /\ th'["ui"] = th["ui"]
           Stays(l) == /\ Others /\ th'["engine"].pc = l
                       /\ th'["engine"].slot = th["engine"].slot
                       /\ th'["engine"].pos = th["engine"].pos
<1>1. /\ "engine" \in Threads /\ "net" \in Threads /\ "ui" \in Threads
      /\ P!MaxUnit \in Nat
  BY Sizes DEF Threads
<1>2. ASSUME NEW l \in ThreadPCs, th["engine"].pc # "idle", Goto("engine", l)
      PROVE  Stays(l) /\ th'["engine"].id = th["engine"].id
  BY <1>1, <1>2, GotoTyped DEF EngineTyped
<1>3. CASE EngineFetch
  <2>1. /\ th["engine"].pc = "idle" /\ cursor < index_list_size
        /\ UNCHANGED <<poolVars, unitVars, cursor, visited>>
        /\ th'["engine"].pc = "exam" /\ th'["engine"].slot = idx_list[cursor] /\ Others
    BY <1>1, <1>3 DEF EngineFetch, At, Idle, EngineTyped, ThreadsTyped
  <2>2. A!PoolInv' /\ UNCHANGED A!vars
    BY <2>1, ArrayRests
  <2>3. Met'
    BY <2>1, MetRests
  <2>. QED  BY <2>1, <2>2, <2>3
            DEF AloneInv, OthersIdle, Marked, AtCursor, KillsHere, StackHolds, Here,
                poolVars, unitVars
<1>4. CASE EnginePassEnds
  <2>1. /\ th["engine"].pc = "idle" /\ cursor' = 0 /\ visited' = {}
        /\ UNCHANGED <<poolVars, unitVars, th>>
    BY <1>4 DEF EnginePassEnds, At
  <2>2. A!PoolInv' /\ UNCHANGED A!vars
    BY <2>1, ArrayRests
  <2>3. index_list_size \in Nat
    BY <1>1 DEF EngineTyped, PoolTyped
  <2>4. Met'
    BY <2>1 DEF Met, poolVars
  <2>. QED  BY <2>1, <2>2, <2>3, <2>4
            DEF AloneInv, OthersIdle, Marked, AtCursor, KillsHere, StackHolds,
                poolVars, unitVars
<1>5. CASE EngineExam
  <2>1. /\ th["engine"].pc = "exam" /\ Here = idx_list[cursor] /\ Here \in Slots
        /\ cursor \in 0 .. index_list_size - 1 /\ uid[Here] # 0 /\ flags[Here] # "none"
    BY <1>5, HereIsListed DEF EngineExam, At
  <2>2. /\ Goto("engine", "move") /\ visited' = visited \cup {uid[Here]}
        /\ UNCHANGED <<poolVars, unitVars, cursor>>
    BY <1>5, <2>1 DEF EngineExam
  <2>3. Stays("move")
    BY <1>2, <2>1, <2>2 DEF ThreadPCs
  <2>4. A!PoolInv' /\ UNCHANGED A!vars
    BY <2>1, <2>2, <2>3, ArrayRests
  <2>5. uid[Here] < next_unit_ID
    BY <2>1 DEF EngineTyped, IdsUnique
  <2>6. ASSUME NEW k \in 0 .. index_list_size - 1, k # cursor, uid[idx_list[k]] # 0
        PROVE  uid[idx_list[k]] # uid[Here]
    <3>1. idx_list[k] # Here
      BY <2>1, <2>6 DEF AloneInv, A!PoolInv, A!ListedOnce
    <3>2. idx_list[k] \in Slots
      BY DEF EngineTyped, PoolTyped
    <3>. QED  BY <2>1, <2>6, <3>1, <3>2 DEF EngineTyped, IdsUnique
  <2>7. Met'
    <3>1. ASSUME NEW k \in 0 .. index_list_size - 1, uid[idx_list[k]] # 0
          PROVE  /\ k < cursor => uid[idx_list[k]] \in visited'
                 /\ k > cursor => uid[idx_list[k]] \notin visited'
      BY <2>1, <2>2, <2>6, <3>1 DEF AloneInv, Met
    <3>2. \A i \in visited' : i < next_unit_ID
      BY <2>2, <2>5 DEF AloneInv, Met
    <3>. QED  BY <2>2, <2>3, <3>1, <3>2 DEF Met, poolVars, Here
  <2>. QED  BY <2>1, <2>2, <2>3, <2>4, <2>7
            DEF AloneInv, OthersIdle, Marked, AtCursor, KillsHere, StackHolds, Here,
                poolVars, unitVars
<1>6. ASSUME UNCHANGED <<poolVars, visited>>, Advance, Marked', th["engine"].pc \in {"move", "mark"}
      PROVE  AloneInv' /\ [A!Next]_(A!vars)
  <2>1. /\ Met' /\ AtCursor' /\ KillsHere' /\ StackHolds' /\ OthersIdle'
        /\ th["engine"].pc # "release" /\ th'["engine"].pc # "release"
    BY <1>6, MetAdvances
  <2>2. A!PoolInv' /\ UNCHANGED A!vars
    BY <1>6, <2>1, ArrayRests
  <2>. QED  BY <1>6, <2>1, <2>2 DEF AloneInv
<1>7. CASE EngineMoves
  <2>1. Marked'
    BY <1>7 DEF EngineMoves, AloneInv, Marked, poolVars, unitVars
  <2>. QED  BY <1>6, <1>7, <2>1 DEF EngineMoves, At
<1>8. ASSUME Works
      PROVE  /\ th["engine"].pc = "move" /\ Here \in Slots /\ OwnerOf(Here) \in Players \ Remote
             /\ Here = idx_list[cursor] /\ cursor \in 0 .. index_list_size - 1
  BY <1>8, HereIsListed, GameTyped DEF Works, At, EngineTyped
<1>9. CASE EngineBuilds
  <2>1. Works /\ P!MayCreate(OwnerOf(Here)) /\ Goto("engine", "create")
        /\ UNCHANGED <<poolVars, unitVars, cursor, visited>>
    BY <1>9 DEF EngineBuilds
  <2>2. Stays("create")
    BY <1>2, <1>8, <2>1 DEF ThreadPCs
  <2>3. P!Stacks[OwnerOf(Here)] > 0
    BY <1>8, <2>1, Sizes DEF P!MayCreate, P!Stacks, P!FullStacks
  <2>4. A!PoolInv' /\ UNCHANGED A!vars /\ P!Stacks' = P!Stacks
    BY <1>8, <2>1, <2>2, ArrayRests
  <2>5. Met'
    BY <1>8, <2>1, <2>2, MetRests DEF Here
  <2>. QED  BY <1>8, <2>1, <2>2, <2>3, <2>4, <2>5
            DEF AloneInv, OthersIdle, Marked, AtCursor, KillsHere, StackHolds, Here,
                poolVars, unitVars
<1>10. ASSUME NEW l \in {"create", "capture"}, th["engine"].pc = l
       PROVE  /\ Here \in Slots /\ OwnerOf(Here) \in Players
              /\ P!Stacks[OwnerOf(Here)] > 0 /\ next_unit_ID <= MaxID
              /\ cursor \in 0 .. index_list_size - 1 /\ Here = idx_list[cursor]
              /\ index_list_size \in Nat
  <2>1. Here \in Slots /\ cursor \in 0 .. index_list_size - 1 /\ Here = idx_list[cursor]
    BY <1>10, HereIsListed
  <2>2. P!Stacks[OwnerOf(Here)] > 0
    BY <1>10 DEF AloneInv, StackHolds
  <2>3. next_unit_ID <= MaxID
    BY <1>10, GameTyped DEF EngineTyped, Promised, PoolTyped
  <2>. QED  BY <2>1, <2>2, <2>3 DEF OwnerOf, Slots, P!Slots, EngineTyped, PoolTyped
<1>11. CASE EngineCreates
  <2>1. /\ th["engine"].pc = "create" /\ CreateLocked(OwnerOf(Here)) /\ UNCHANGED visited
        /\ cursor' = cursor + 1 /\ Rest("engine")
    BY <1>11 DEF EngineCreates, At, Advance
  <2>2. th'["engine"] = Idle /\ Others
    BY <1>1, <2>1, RestTyped DEF EngineTyped
  <2>3. th'["engine"].pc = "idle"
    BY <2>2 DEF Idle
  <2>4. /\ A!Next /\ A!PoolInv' /\ Marked' /\ Met' /\ index_list_size' = index_list_size + 1
    BY <1>10, <2>1, <2>3, CreateMaps, MetGrows
  <2>5. AtCursor'
    <3>1. cursor \in 0 .. index_list_size - 1 /\ index_list_size \in Nat
      BY <1>10, <2>1
    <3>. QED  BY <2>1, <2>3, <2>4, <3>1 DEF AtCursor
  <2>. QED  BY <2>2, <2>3, <2>4, <2>5 DEF AloneInv, OthersIdle, KillsHere, StackHolds
<1>12. CASE \E s \in Slots : EngineCaptures(s)
  <2> PICK s \in Slots : EngineCaptures(s)
    BY <1>12
  <2> DEFINE l == IF P!MayCreate(OwnerOf(Here)) THEN "capture" ELSE "mark"
  <2>1. /\ Works /\ uid[s] # 0 /\ l \in {"capture", "mark"}
        /\ th' = [th EXCEPT !["engine"].pc = l, !["engine"].id = uid[s]]
        /\ UNCHANGED <<poolVars, unitVars, cursor, visited>>
    BY DEF EngineCaptures
  <2>2. l = "capture" => P!Stacks[OwnerOf(Here)] > 0
    BY <1>8, <2>1, Sizes DEF P!MayCreate, P!Stacks, P!FullStacks
  <2> HIDE DEF l
  <2>3. Stays(l) /\ th'["engine"].id = uid[s]
    BY <1>1, <2>1 DEF EngineTyped, ThreadsTyped
  <2>4. A!PoolInv' /\ UNCHANGED A!vars /\ P!Stacks' = P!Stacks
    BY <1>8, <2>1, <2>3, ArrayRests
  <2>5. Met'
    BY <1>8, <2>1, <2>3, MetRests DEF Here
  <2>. QED  BY <1>8, <2>1, <2>2, <2>3, <2>4, <2>5
            DEF AloneInv, OthersIdle, Marked, AtCursor, KillsHere, StackHolds, Here,
                poolVars, unitVars
<1>13. CASE EngineCopiesCaptured
  <2>1. /\ th["engine"].pc = "capture" /\ CreateLocked(OwnerOf(Here))
        /\ Goto("engine", "mark") /\ UNCHANGED <<cursor, visited>>
    BY <1>13 DEF EngineCopiesCaptured, At
  <2>2. Stays("mark") /\ th'["engine"].id = th["engine"].id
    BY <1>2, <2>1 DEF ThreadPCs
  <2>3. /\ A!Next /\ A!PoolInv' /\ Marked' /\ index_list_size' = index_list_size + 1
        /\ idx_list'[cursor] = idx_list[cursor]
    BY <1>10, <2>1, <2>2, CreateMaps
  <2>4. Met'
    BY <1>10, <2>1, <2>2, MetGrows DEF Here
  <2>5. AtCursor'
    <3>1. /\ cursor \in 0 .. index_list_size - 1 /\ index_list_size \in Nat
          /\ Here = idx_list[cursor]
      BY <1>10, <2>1
    <3>. QED  BY <2>1, <2>2, <2>3, <3>1 DEF AtCursor, Here
  <2>. QED  BY <2>1, <2>2, <2>3, <2>4, <2>5
            DEF AloneInv, OthersIdle, KillsHere, StackHolds
<1>14. CASE EngineMarksCaptured
  <2>1. th["engine"].pc = "mark" /\ th["engine"].id # 0
    BY <1>14 DEF EngineMarksCaptured, At, AloneInv, StackHolds
  <2>2. Marked'
    BY <1>14, <2>1 DEF EngineMarksCaptured, Captured, AloneInv, Marked, poolVars
  <2>. QED  BY <1>6, <1>14, <2>1, <2>2 DEF EngineMarksCaptured
<1>15. ASSUME EngineExplodes \/ EngineWaits
       PROVE  AloneInv' /\ [A!Next]_(A!vars)
  <2>1. th["engine"].pc = "move" /\ Advance /\ UNCHANGED <<poolVars, visited>>
    BY <1>15 DEF EngineExplodes, EngineWaits, Ages, At
  <2>2. /\ Here \in Slots /\ uid[Here] # 0
        /\ UNCHANGED flags \/ flags' = [flags EXCEPT ![Here] = "exploding"]
    BY <1>15, <2>1, HereIsListed DEF EngineExplodes, EngineWaits
  <2>3. Marked'
    BY <2>1, <2>2 DEF AloneInv, Marked, EngineTyped, UnitsTyped, poolVars
  <2>. QED  BY <1>6, <2>1, <2>3
<1>16. CASE EngineKills
  <2>1. /\ th["engine"].pc = "move" /\ Here \in Slots /\ uid[Here] # 0
        /\ flags[Here] # "none" /\ Here = idx_list[cursor]
        /\ cursor \in 0 .. index_list_size - 1
    <3>1. th["engine"].pc = "move"
      BY <1>16 DEF EngineKills, Ages, At
    <3>. QED  BY <3>1, HereIsListed
  <2>2. /\ CallKill("engine", Here, cursor) /\ UNCHANGED <<poolVars, cursor, visited>>
        /\ \E f \in Flags \ {"none"} : flags' = [flags EXCEPT ![Here] = f]
    <3>1. flags[Here] \in Flags \ {"none"}
      BY <2>1 DEF EngineTyped, UnitsTyped
    <3>. QED  BY <1>16, <3>1 DEF EngineKills, Flags
  <2>3. /\ th'["engine"] = [pc |-> "check", slot |-> Here, pos |-> cursor, id |-> uid[Here]]
        /\ Others
    <3>1. cursor \in -1 .. P!MaxUnit - 1 /\ ThreadsTyped /\ PoolTyped
      BY <1>1, <2>1 DEF EngineTyped, PoolTyped
    <3>. QED  BY <1>1, <2>1, <2>2, <3>1, CallTyped
  <2>4. /\ th'["engine"].pc = "check" /\ th'["engine"].slot = Here
        /\ th'["engine"].pos = cursor /\ th'["engine"].id = uid[Here]
    BY <2>3
  <2>5. A!PoolInv' /\ UNCHANGED A!vars
    BY <2>1, <2>2, <2>4, ArrayRests
  <2>6. Met'
    BY <2>2, <2>4, MetRests
  <2>7. Marked'
    BY <2>1, <2>2 DEF AloneInv, Marked, EngineTyped, UnitsTyped, poolVars
  <2>. QED  BY <2>1, <2>2, <2>3, <2>4, <2>5, <2>6, <2>7
            DEF AloneInv, OthersIdle, AtCursor, KillsHere, StackHolds, Here, poolVars
<1>. QED  BY <1>3, <1>4, <1>5, <1>7, <1>9, <1>11, <1>12, <1>13, <1>14, <1>15, <1>16,
             AloneKills DEF Engine

(* What the network and the main thread still do when only the engine      *)
(* kills: they create units for players that have none in the engine's     *)
(* hands.  And hits.                                                       *)
LEMMA AloneOthers ==
  ASSUME EngineTyped, AloneInv, Alone, Net \/ UI \/ \E s \in Slots : Hit(s)
  PROVE  AloneInv' /\ [A!Next]_(A!vars)
<1>1. ASSUME NEW t \in {"net", "ui"}, Killing(t) PROVE FALSE
  <2>1. th[t].pc = "idle"
    BY DEF AloneInv, OthersIdle
  <2>. QED  BY <1>1, <2>1 DEF Killing, KillCheck, KillDestroy, KillRelease, KillOverruns, At
<1>2. ASSUME NEW p \in Players, P!MayCreate(p), IdsLeft, CreateLocked(p),
             UNCHANGED <<th, cursor, visited>>,
             th["engine"].pc \in {"create", "capture"} => p # OwnerOf(Here)
      PROVE  AloneInv' /\ [A!Next]_(A!vars)
  <2>1. P!Stacks[p] > 0
    BY <1>2, Sizes DEF P!MayCreate, P!Stacks, P!FullStacks
  <2>2. next_unit_ID <= MaxID
    BY <1>2, GameTyped DEF IdsLeft, EngineTyped, PoolTyped
  <2>3. /\ A!Next /\ A!PoolInv' /\ Marked' /\ Met'
        /\ index_list_size' = index_list_size + 1
        /\ \A q \in Players : q # p => P!Stacks'[q] = P!Stacks[q]
        /\ \A k \in 0 .. index_list_size - 1 :
             idx_list'[k] = idx_list[k] /\ uid'[idx_list[k]] = uid[idx_list[k]]
    BY <1>2, <2>1, <2>2, CreateMaps, MetGrows
  <2>4. /\ index_list_size \in Nat /\ cursor \in Nat
        /\ th["engine"].pc # "idle" => /\ Here \in Slots /\ OwnerOf(Here) \in Players
                                      /\ cursor \in 0 .. index_list_size - 1
                                      /\ Here = idx_list[cursor]
    <3>1. index_list_size \in Nat /\ cursor \in Nat
      BY Sizes DEF EngineTyped, PoolTyped, LoopTyped
    <3>2. \A s \in Slots : OwnerOf(s) \in Players
      BY DEF OwnerOf, Slots, P!Slots
    <3>. QED  BY <3>1, <3>2, HereIsListed
  <2>5. AtCursor'
    BY <1>2, <2>3, <2>4 DEF AloneInv, AtCursor, Here
  <2>6. KillsHere'
    BY <1>2, <2>3, <2>4 DEF AloneInv, KillsHere, Here
  <2>7. StackHolds'
    BY <1>2, <2>3, <2>4 DEF AloneInv, StackHolds, Here
  <2>8. OthersIdle'
    BY <1>2 DEF AloneInv, OthersIdle
  <2>. QED  BY <2>3, <2>5, <2>6, <2>7, <2>8 DEF AloneInv
<1>3. ASSUME th["engine"].pc \in {"create", "capture"}
      PROVE  Here \in Slots /\ uid[Here] # 0 /\ OwnerOf(Here) \notin Remote
  BY <1>3, HereIsListed DEF AloneInv, StackHolds
<1>4. ASSUME NEW p \in Remote, NetCreates(p)
      PROVE  AloneInv' /\ [A!Next]_(A!vars)
  BY <1>2, <1>3, <1>4, EngineAssumption DEF NetCreates
<1>5. ASSUME NEW p \in Players \ Remote, ScriptCreates(p)
      PROVE  AloneInv' /\ [A!Next]_(A!vars)
  <2>1. \A s \in Slots : OwnerOf(s) = p => uid[s] = 0
    BY <1>5 DEF ScriptCreates, Alone
  <2>. QED  BY <1>2, <1>3, <1>5, <2>1 DEF ScriptCreates
<1>6. ASSUME NEW s \in Slots, OwnerOf(s) \in Remote, NetDeath(s) PROVE FALSE
  BY <1>6 DEF NetDeath, Alone
<1>7. ASSUME UICancels2 PROVE FALSE
  BY <1>7 DEF UICancels2, At, AloneInv, OthersIdle
<1>8. ASSUME NEW s \in Slots, Hit(s)
      PROVE  AloneInv' /\ [A!Next]_(A!vars)
  <2>1. UNCHANGED <<poolVars, flags, th, cursor, visited>>
    BY <1>8 DEF Hit
  <2>2. A!PoolInv' /\ UNCHANGED A!vars /\ P!Stacks' = P!Stacks
    BY <2>1, ArrayRests
  <2>. QED  BY <2>1, <2>2 DEF AloneInv, OthersIdle, Marked, AtCursor, KillsHere,
                              StackHolds, Met, Here, poolVars
<1>. QED  BY <1>1, <1>4, <1>5, <1>6, <1>7, <1>8 DEF Net, UI, Alone

LEMMA AloneInit == Init => A!Init /\ AloneInv
<1> SUFFICES ASSUME Init PROVE A!Init /\ AloneInv
  OBVIOUS
<1>1. \A t \in Threads : th[t].pc = "idle"
  BY DEF Init, Idle
<1>2. AbsUid = uid
  BY <1>1 DEF AbsUid, At, Threads, Init, P!Init, P!NothingCreated, Slots
<1>3. A!Init
  BY <1>2, SamePool DEF Init, P!Init, P!NothingCreated, A!Init, A!NothingCreated, A!AllFree,
       P!AllFree, A!Places, P!Places, Slots
<1>4. A!PoolInv
  BY <1>3, PoolSteps
<1>5. OthersIdle /\ Marked /\ AtCursor /\ KillsHere /\ StackHolds /\ Met
  BY <1>1 DEF Init, P!Init, P!NothingCreated, OthersIdle, Marked, AtCursor, KillsHere,
       StackHolds, Met, Threads, Slots
<1>. QED  BY <1>3, <1>4, <1>5 DEF AloneInv

LEMMA AloneStep ==
  ASSUME EngineTyped, Alone => AloneInv, [Next]_vars
  PROVE  /\ (Alone => AloneInv)'
         /\ Alone => [A!Next]_(A!vars)
<1>1. Alone' <=> Alone
  BY DEF Next, vars, Alone
<1>2. CASE ~ Alone
  BY <1>1, <1>2
<1>3. CASE Alone /\ Next
  BY <1>1, <1>3, AloneMoves, AloneOthers DEF Next
<1>4. CASE Alone /\ UNCHANGED vars
  <2>1. A!PoolInv' /\ UNCHANGED A!vars
    BY <1>4, ArrayRests DEF vars
  <2>. QED  BY <1>4, <2>1 DEF vars, poolVars, unitVars, AloneInv, OthersIdle, Marked,
              AtCursor, KillsHere, StackHolds, Met, Here, P!Stacks
<1>. QED  BY <1>2, <1>3, <1>4

(* In a game in which only the engine kills, the steps of create() and     *)
(* kill() that the threads interleave are calls of UnitPool, each made at  *)
(* one moment: the limit that create() tested without the lock still holds *)
(* when it takes the slot, and the position that kill() was given is still *)
(* that of its unit.                                                       *)
THEOREM EngineImplementsPool == Spec => ImplementsPool
<1>1. Init => Abs!Init /\ (Alone => AloneInv)
  BY AloneInit, SamePool
<1>2. EngineTyped /\ (Alone => AloneInv) /\ [Next]_vars => (Alone => AloneInv)'
  BY AloneStep
<1>3. EngineTyped /\ (Alone => AloneInv) /\ [Next]_vars => [Alone => Abs!Next]_(Abs!vars)
  <2>1. A!vars = Abs!vars
    BY DEF A!vars, Abs!vars, AbsUid
  <2>2. (UNCHANGED A!vars) <=> (UNCHANGED Abs!vars)
    BY DEF A!vars, Abs!vars, AbsUid
  <2>. QED  BY <2>1, <2>2, AloneStep, SamePool
<1>. QED  BY <1>1, <1>2, <1>3, Typing, PTL DEF Spec, ImplementsPool

(* "Can't skip a unit": in such a game the loop of move() has met exactly  *)
(* the units before its cursor, though a death moves the last entry of the *)
(* list to the place of the dead one.                                      *)
THEOREM LoopMeetsAll == Spec => []NoUnitSkipped
<1>1. Init => (Alone => AloneInv)
  BY AloneInit
<1>2. EngineTyped /\ (Alone => AloneInv) /\ [Next]_vars => (Alone => AloneInv)'
  BY AloneStep
<1>3. (Alone => AloneInv) => NoUnitSkipped
  BY DEF AloneInv, Met, NoUnitSkipped
<1>. QED  BY <1>1, <1>2, <1>3, Typing, PTL DEF Spec

(* Whatever the engine, the network and the player do to the array, and in *)
(* whatever order their steps come, every variable keeps its range: the    *)
(* list never grows past the array, though the limit is tested before the  *)
(* lock is taken and a unit may be killed twice.  When only the engine     *)
(* kills, no stack ever has to take more slots than its player has.        *)
THEOREM EngineTypeCorrect == Spec => []TypeOK
<1>1. Init => (Alone => AloneInv)
  BY AloneInit
<1>2. EngineTyped /\ (Alone => AloneInv) /\ [Next]_vars => (Alone => AloneInv)'
  BY AloneStep
<1>3. EngineTyped /\ (Alone => AloneInv) => TypeOK
  <2>1. EngineTyped /\ (Alone => ~ Overrun) => TypeOK
    BY DEF EngineTyped, PoolTyped, UnitsTyped, ThreadsTyped, LoopTyped, TypeOK
  <2>. QED  BY <2>1, RoomWhenAlone
<1>. QED  BY <1>1, <1>2, <1>3, Typing, PTL DEF Spec

=============================================================================
