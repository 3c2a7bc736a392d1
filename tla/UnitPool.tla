------------------------------ MODULE UnitPool ------------------------------
(***************************************************************************)
(* The unit array of TA3D's unit engine (class INGAME_UNITS), one call of  *)
(* create() or kill() at a time: what the array promises to every thread   *)
(* that uses it.  Module UnitEngine splits the calls into the steps the    *)
(* threads really interleave and relates them to this module.              *)
(*                                                                         *)
(* The array is cut into one part per player.  A slot is a pair            *)
(* <<player, k>>, the k-th unit of the part of that player: the code's     *)
(* index owner * MAX_UNIT_PER_PLAYER + k.                                  *)
(***************************************************************************)
EXTENDS Integers, FiniteSets

CONSTANTS
  Players,           \* 0 .. NB_PLAYERS - 1
  MaxUnitPerPlayer,  \* MAX_UNIT_PER_PLAYER
  MaxID,             \* the largest ID (2^32 - 1: next_unit_ID is a uint32)
  NoSlot             \* what idx_list holds where nothing was written yet

ASSUME PoolAssumption ==
  /\ IsFiniteSet(Players) /\ Players # {}
  /\ MaxUnitPerPlayer \in Nat \ {0}
  /\ MaxID \in Nat
  /\ NoSlot \notin Players \X (0 .. MaxUnitPerPlayer - 1)

MaxUnit == MaxUnitPerPlayer * Cardinality(Players)

Places == 0 .. MaxUnitPerPlayer - 1
Slots == Players \X Places
OwnerOf(s) == s[1]

VARIABLES
  max_unit,         \* 0 until the arrays are allocated, then MaxUnit
  nb_unit,          \* the number of units the engine believes in
  idx_list,         \* the slots in use: the first index_list_size entries
  index_list_size,
  free_idx,         \* per player, the stack of free slots ...
  free_index_size,  \* ... and its height
  uid,              \* the ID of the unit in each slot, 0 when there is none
  next_unit_ID

vars == <<max_unit, nb_unit, idx_list, index_list_size,
          free_idx, free_index_size, uid, next_unit_ID>>

-----------------------------------------------------------------------------
(* The slots of the units in play, and those waiting to be used again.     *)
Listed == {idx_list[i] : i \in 0 .. index_list_size - 1}
FreeOf(p) == {free_idx[p][k] : k \in 0 .. free_index_size[p] - 1}

(* What the first creation fills the stacks with.                          *)
AllFree == [p \in Players |-> [k \in Places |-> <<p, k>>]]
FullStacks == [p \in Players |-> MaxUnitPerPlayer]

(* Mutant: the first unit gets the ID that means "no unit".                *)
NothingCreatedZero ==
  /\ max_unit = 0
  /\ nb_unit = 0
  /\ idx_list = [i \in 0 .. MaxUnit - 1 |-> NoSlot]
  /\ index_list_size = 0
  /\ free_idx = AllFree
  /\ free_index_size = [p \in Players |-> 0]
  /\ uid = [s \in Slots |-> 0]
  /\ next_unit_ID = 0

NothingCreated ==
  /\ max_unit = 0
  /\ nb_unit = 0
  /\ idx_list = [i \in 0 .. MaxUnit - 1 |-> NoSlot]
  /\ index_list_size = 0
  /\ free_idx = AllFree
  /\ free_index_size = [p \in Players |-> 0]
  /\ uid = [s \in Slots |-> 0]
  /\ next_unit_ID = 1

(* INGAME_UNITS::init                                                      *)
Init == NothingCreated

(* The heights of the stacks as create() finds them once the arrays exist. *)
Stacks == IF max_unit = 0 THEN FullStacks ELSE free_index_size

(* The tests create() makes before it does anything.                       *)
MayCreate(p) ==
  /\ nb_unit < MaxUnit
  /\ max_unit = 0 \/ free_index_size[p] > 0

(* Mutant: the height of the stack is not lowered.                         *)
TakeSlotNoPop(p) ==
  LET s == free_idx[p][Stacks[p] - 1]
  IN  /\ free_index_size' = Stacks
      /\ uid' = [uid EXCEPT ![s] = next_unit_ID]
      /\ next_unit_ID' = next_unit_ID + 1
      /\ idx_list' = [idx_list EXCEPT ![index_list_size] = s]
      /\ index_list_size' = index_list_size + 1

(* Mutant: the ID is not counted up.                                       *)
TakeSlotSameID(p) ==
  LET s == free_idx[p][Stacks[p] - 1]
  IN  /\ free_index_size' = [Stacks EXCEPT ![p] = @ - 1]
      /\ uid' = [uid EXCEPT ![s] = next_unit_ID]
      /\ next_unit_ID' = next_unit_ID
      /\ idx_list' = [idx_list EXCEPT ![index_list_size] = s]
      /\ index_list_size' = index_list_size + 1

(* Pop the stack of p, give the slot the next ID, append it to idx_list.   *)
TakeSlot(p) ==
  LET s == free_idx[p][Stacks[p] - 1]
  IN  /\ free_index_size' = [Stacks EXCEPT ![p] = @ - 1]
      /\ uid' = [uid EXCEPT ![s] = next_unit_ID]
      /\ next_unit_ID' = next_unit_ID + 1
      /\ idx_list' = [idx_list EXCEPT ![index_list_size] = s]
      /\ index_list_size' = index_list_size + 1

Create(p) ==
  /\ next_unit_ID <= MaxID
  /\ MayCreate(p)
  /\ nb_unit' = nb_unit + 1
  /\ max_unit' = MaxUnit
  /\ TakeSlot(p)
  /\ UNCHANGED free_idx

(* Mutant: the list is shortened without moving its last entry.            *)
ReleaseSlotNoSwap(s, e) ==
  LET p == OwnerOf(s)
  IN  /\ free_idx' = [free_idx EXCEPT ![p][free_index_size[p]] = s]
      /\ free_index_size' = [free_index_size EXCEPT ![p] = @ + 1]
      /\ index_list_size' = index_list_size - 1
      /\ nb_unit' = nb_unit - 1
      /\ UNCHANGED idx_list

(* Mutant: the slot goes back to the stack of another player.              *)
ReleaseSlotOtherPart(s, e) ==
  \E p \in Players :
    /\ free_index_size[p] < MaxUnitPerPlayer
    /\ free_idx' = [free_idx EXCEPT ![p][free_index_size[p]] = s]
    /\ free_index_size' = [free_index_size EXCEPT ![p] = @ + 1]
    /\ idx_list' = [idx_list EXCEPT ![e] = idx_list[index_list_size - 1]]
    /\ index_list_size' = index_list_size - 1
    /\ nb_unit' = nb_unit - 1

(* Push slot s on the stack of its player, close the gap at e with the     *)
(* last entry of idx_list.                                                 *)
ReleaseSlot(s, e) ==
  LET p == OwnerOf(s)
  IN  /\ free_idx' = [free_idx EXCEPT ![p][free_index_size[p]] = s]
      /\ free_index_size' = [free_index_size EXCEPT ![p] = @ + 1]
      /\ idx_list' = [idx_list EXCEPT ![e] = idx_list[index_list_size - 1]]
      /\ index_list_size' = index_list_size - 1
      /\ nb_unit' = nb_unit - 1

(* INGAME_UNITS::kill(idx_list[e], e): the unit at position e of the list. *)
Kill(e) ==
  /\ e < index_list_size
  /\ uid' = [uid EXCEPT ![idx_list[e]] = 0]
  /\ ReleaseSlot(idx_list[e], e)
  /\ UNCHANGED <<max_unit, next_unit_ID>>

(* INGAME_UNITS::destroy: the arrays go, and init() starts again.          *)
Destroy ==
  /\ max_unit' = 0
  /\ nb_unit' = 0
  /\ idx_list' = [i \in 0 .. MaxUnit - 1 |-> NoSlot]
  /\ index_list_size' = 0
  /\ free_idx' = AllFree
  /\ free_index_size' = [p \in Players |-> 0]
  /\ uid' = [s \in Slots |-> 0]
  /\ next_unit_ID' = 1

Next ==
  \/ \E p \in Players : Create(p)
  \/ \E e \in 0 .. MaxUnit - 1 : Kill(e)
  \/ Destroy

Spec == Init /\ [][Next]_vars

-----------------------------------------------------------------------------
TypeOK ==
  /\ max_unit \in {0, MaxUnit}
  /\ nb_unit \in 0 .. MaxUnit
  /\ idx_list \in [0 .. MaxUnit - 1 -> Slots \cup {NoSlot}]
  /\ index_list_size \in 0 .. MaxUnit
  /\ free_idx \in [Players -> [Places -> Slots]]
  /\ free_index_size \in [Players -> 0 .. MaxUnitPerPlayer]
  /\ uid \in [Slots -> 0 .. MaxID]
  /\ next_unit_ID \in 1 .. MaxID + 1

(* The units in play are each listed once (move() would otherwise step a   *)
(* unit twice a tick, or never).                                           *)
ListedOnce ==
  \A i, j \in 0 .. index_list_size - 1 : idx_list[i] = idx_list[j] => i = j

(* No free slot is in the stack of a player twice: it would become two     *)
(* units.                                                                  *)
FreeOnce ==
  \A p \in Players : \A i, j \in 0 .. free_index_size[p] - 1 :
    free_idx[p][i] = free_idx[p][j] => i = j

(* "The array is subdivided in parts, one for each player": the stack of a *)
(* player holds slots of its own part only.                                *)
OwnPart ==
  \A p \in Players : \A k \in 0 .. free_index_size[p] - 1 :
    OwnerOf(free_idx[p][k]) = p

(* A slot is in use or free, never both and never neither: create() and    *)
(* kill(), in any order, neither lose a slot nor hand out one in use.      *)
Partition ==
  max_unit # 0 =>
    \A s \in Slots : (s \in Listed) <=> (s \notin FreeOf(OwnerOf(s)))

(* Both together: the properties of the two lists.                         *)
EachSlotOnce == ListedOnce /\ Partition

(* What kill() counts and what it lists agree.                             *)
CountAgrees == nb_unit = index_list_size

(* Exactly the listed slots carry an ID, and no two of them the same: an   *)
(* (index, ID) pair kept by another unit names at most one unit.           *)
IdsNameUnits ==
  /\ \A s \in Slots : uid[s] # 0 <=> s \in Listed
  /\ \A s, t \in Slots : uid[s] = uid[t] /\ uid[s] # 0 => s = t

(* An ID that was given is not given again while the battle lasts.         *)
IdsFresh == \A s \in Slots : uid[s] < next_unit_ID

(* A call touches one unit: killing a unit leaves every other one in play  *)
(* with the ID it had, and the one that leaves the list is the one whose   *)
(* ID goes.                                                                *)
OthersSurvive ==
  [][max_unit' # 0 =>
       \A s, t \in Listed :
         (s \notin Listed' \/ uid'[s] # uid[s]) /\ (t \notin Listed' \/ uid'[t] # uid[t])
           => s = t /\ s \notin Listed' /\ uid'[s] = 0]_vars
=============================================================================
