----------------------------- MODULE UnitEngine -----------------------------
(***************************************************************************)
(* The threads that share the unit array of module UnitPool, one step per  *)
(* stretch of code that holds a lock:                                      *)
(*   engine  INGAME_UNITS::proc: move() walks idx_list, lets every unit    *)
(*           build, capture or die, and kills the dead;                    *)
(*   net     PLAYERS::proc: TA3D_Network::check() creates and kills the    *)
(*           units of remote players as their owners' events say;          *)
(*   ui      the main thread: mission scripts create units, the player     *)
(*           cancels the unit a factory is building.                       *)
(* Neither kill() nor create() is one step: kill() tests its arguments     *)
(* without a lock, destroys the unit under the unit's lock and updates the *)
(* lists under the array's; create() tests the limits before it locks.     *)
(***************************************************************************)
EXTENDS Integers, FiniteSets

CONSTANTS
  Players, MaxUnitPerPlayer, MaxID, NoSlot,
  DeathTimer,  \* passes a dead unit may take to disappear: 255
  Remote,      \* the players whose units live on another machine
  Games        \* the games to choose from

(* What happens in a game: whose units build and capture here, whose units *)
(* lose their hit points, the players a mission script creates units for,  *)
(* whether the player cancels units under construction; and how many units *)
(* the model follows it for.                                               *)
ASSUME EngineAssumption ==
  /\ MaxID \in Nat
  /\ DeathTimer \in Nat \ {0}
  /\ Remote \subseteq Players
  /\ Games \subseteq [builders : SUBSET (Players \ Remote),
                     mortals : SUBSET Players,
                     scripts : SUBSET (Players \ Remote),
                     cancels : BOOLEAN,
                     ids : 0 .. MaxID]

VARIABLES
  game,     \* chosen once
  max_unit, nb_unit, idx_list, index_list_size,
  free_idx, free_index_size, uid, next_unit_ID,
  flags,    \* Unit::flags, per slot
  dying,    \* hp <= 0
  local,    \* Unit::local
  death_timer,  \* the passes of move() since the unit died
  th,       \* what each thread is doing
  cursor,   \* e of the loop in move()
  visited,  \* the IDs the loop met in this pass (for the properties)
  told      \* the IDs whose death event was handled (for the properties)

P == INSTANCE UnitPool

ASSUME ArrayAssumption == P!PoolAssumption

poolVars == <<max_unit, nb_unit, idx_list, index_list_size,
              free_idx, free_index_size, uid, next_unit_ID>>
unitVars == <<flags, dying, local, death_timer>>
vars == <<game, poolVars, unitVars, th, cursor, visited, told>>

Slots == P!Slots
OwnerOf(s) == s[1]
Threads == {"engine", "net", "ui"}

(* 0, 1, 4 and 0x14: no unit, a unit, one that blows up, one that another  *)
(* player captured and that is only there to be removed.                   *)
Flags == {"none", "alive", "exploding", "captured"}

Idle == [pc |-> "idle", slot |-> NoSlot, pos |-> 0, id |-> 0]
At(t, l) == th[t].pc = l
Goto(t, l) == th' = [th EXCEPT ![t].pc = l]
Rest(t) == th' = [th EXCEPT ![t] = Idle]

Init ==
  /\ game \in Games
  /\ P!Init
  /\ flags = [s \in Slots |-> "none"]
  /\ dying = [s \in Slots |-> TRUE]
  /\ local = [s \in Slots |-> TRUE]
  /\ death_timer = [s \in Slots |-> 0]
  /\ th = [t \in Threads |-> Idle]
  /\ cursor = 0
  /\ visited = {}
  /\ told = {}

-----------------------------------------------------------------------------
(* The bound of the game: no creation starts that would need a greater ID. *)
IdsLeft ==
  next_unit_ID + (IF At("engine", "create") \/ At("engine", "capture") THEN 1 ELSE 0)
    <= game.ids

(* create_unit() from the lock in create() on: the limit is tested again,  *)
(* but the unit was counted before.                                        *)
CreateLocked(p) ==
  /\ nb_unit' = nb_unit + 1
  /\ max_unit' = P!MaxUnit
  /\ UNCHANGED free_idx
  /\ IF P!Stacks[p] > 0
     THEN LET s == free_idx[p][P!Stacks[p] - 1]
          IN  /\ P!TakeSlot(p)
              /\ flags' = [flags EXCEPT ![s] = "alive"]
              /\ dying' = [dying EXCEPT ![s] = FALSE]
              /\ local' = [local EXCEPT ![s] = p \notin Remote]
              /\ death_timer' = [death_timer EXCEPT ![s] = 0]
     ELSE UNCHANGED <<idx_list, index_list_size, free_index_size, uid,
                      next_unit_ID, unitVars>>

(* Where the unit is listed, as the threads that kill look for it: the     *)
(* death event from the start of the array, the others from its end; what  *)
(* is past the end of the array is no slot.                                *)
FirstPlace(s) ==
  LET found == {i \in 0 .. P!MaxUnit - 1 : idx_list[i] = s}
  IN  IF found = {} THEN -1 ELSE CHOOSE i \in found : \A j \in found : i <= j
LastPlace(s) ==
  LET found == {i \in DOMAIN idx_list : i < nb_unit /\ idx_list[i] = s}
  IN  IF found = {} THEN -1 ELSE CHOOSE i \in found : \A j \in found : i >= j

(* Mutant: the loop has already moved on when it names the position.       *)
CallKillLate(t, s, e) ==
  th' = [th EXCEPT ![t] = [pc |-> "check", slot |-> s, pos |-> e + 1, id |-> uid[s]]]

(* kill(s, e): from here on the thread works with this slot and position.  *)
CallKill(t, s, e) ==
  th' = [th EXCEPT ![t] = [pc |-> "check", slot |-> s, pos |-> e, id |-> uid[s]]]

(* A death event is over once kill() returns.                              *)
KillReturns(t) ==
  /\ Rest(t)
  /\ told' = IF t = "net" THEN told \cup {th[t].id} ELSE told

(* "One cannot destroy a unit that does not exist": no lock is held.       *)
KillCheck(t) ==
  /\ At(t, "check")
  /\ IF th[t].pos >= 0 /\ th[t].pos < index_list_size
     THEN Goto(t, "destroy") /\ UNCHANGED told
     ELSE KillReturns(t)
  /\ UNCHANGED <<poolVars, unitVars, cursor, visited>>

(* The unit being captured is locked until it is marked.                   *)
Capturing == At("engine", "capture") \/ At("engine", "mark")
Captured == {s \in Slots : Capturing /\ uid[s] = th["engine"].id}

(* Unit::destroy(), under the unit's lock: the unit is gone, still listed, *)
(* with no hit points and local as every blank unit.                       *)
KillDestroy(t) ==
  LET s == th[t].slot
  IN  /\ At(t, "destroy")
      /\ s \notin Captured
      /\ uid' = [uid EXCEPT ![s] = 0]
      /\ flags' = [flags EXCEPT ![s] = "none"]
      /\ dying' = [dying EXCEPT ![s] = TRUE]
      /\ local' = [local EXCEPT ![s] = TRUE]
      /\ death_timer' = [death_timer EXCEPT ![s] = 0]
      /\ Goto(t, "release")
      /\ UNCHANGED <<max_unit, nb_unit, idx_list, index_list_size, free_idx,
                     free_index_size, next_unit_ID, cursor, visited, told>>

HasRoom(p) == free_index_size[p] < MaxUnitPerPlayer
Overrun == \E p \in Players : free_index_size[p] > MaxUnitPerPlayer

(* Mutant: the engine's cursor moves on although the list moved up.        *)
KillReleaseSkips(t) ==
  /\ At(t, "release") /\ HasRoom(OwnerOf(th[t].slot))
  /\ P!ReleaseSlot(th[t].slot, th[t].pos)
  /\ KillReturns(t)
  /\ cursor' = IF t = "engine" THEN cursor + 1 ELSE cursor
  /\ UNCHANGED <<max_unit, uid, next_unit_ID, unitVars, visited>>

(* The lists, under the array's lock.                                      *)
KillRelease(t) ==
  /\ At(t, "release") /\ HasRoom(OwnerOf(th[t].slot))
  /\ P!ReleaseSlot(th[t].slot, th[t].pos)
  /\ KillReturns(t)
  /\ UNCHANGED <<max_unit, uid, next_unit_ID, unitVars, cursor, visited>>

(* kill() does not ask whether there is room on the stack: a slot too many *)
(* is written past the player's part of free_idx.  The model ends there.   *)
KillOverruns(t) ==
  LET p == OwnerOf(th[t].slot)
  IN  /\ At(t, "release") /\ ~ HasRoom(p)
      /\ free_index_size' = [free_index_size EXCEPT ![p] = @ + 1]
      /\ KillReturns(t)
      /\ UNCHANGED <<max_unit, nb_unit, idx_list, index_list_size, free_idx, uid,
                     next_unit_ID, unitVars, cursor, visited>>

Killing(t) ==
  KillCheck(t) \/ KillDestroy(t) \/ KillRelease(t) \/ KillOverruns(t)

-----------------------------------------------------------------------------
(* The engine: the loop of move() over idx_list.                           *)
EngineFetch ==
  /\ At("engine", "idle")
  /\ cursor < index_list_size
  /\ th' = [th EXCEPT !["engine"] = [Idle EXCEPT !.pc = "exam", !.slot = idx_list[cursor]]]
  /\ UNCHANGED <<poolVars, unitVars, cursor, visited, told>>

EnginePassEnds ==
  /\ At("engine", "idle")
  /\ cursor >= index_list_size
  /\ cursor' = 0
  /\ visited' = {}
  /\ UNCHANGED <<poolVars, unitVars, th, told>>

Here == th["engine"].slot

(* "ho ho what is it doing there ??": a listed unit that is none is killed *)
(* without moving the cursor.                                              *)
EngineExam ==
  /\ At("engine", "exam")
  /\ visited' = visited \cup {uid[Here]}
  /\ IF flags[Here] = "none"
     THEN CallKill("engine", Here, cursor)
     ELSE Goto("engine", "move")
  /\ UNCHANGED <<poolVars, unitVars, cursor, told>>

Advance == cursor' = cursor + 1 /\ Rest("engine")

(* Mutant: a dead local unit is passed over like a remote one.             *)
EngineMovesDead ==
  /\ At("engine", "move")
  /\ flags[Here] # "none"
  /\ Advance
  /\ UNCHANGED <<poolVars, unitVars, visited, told>>

(* Unit::move(): the unit does nothing that matters to the array.  A dead  *)
(* remote unit waits for its owner's word.                                 *)
EngineMoves ==
  /\ At("engine", "move")
  /\ flags[Here] # "none"
  /\ dying[Here] => ~ local[Here]
  /\ Advance
  /\ UNCHANGED <<poolVars, unitVars, visited, told>>

(* A unit that can build or capture.                                       *)
Works ==
  /\ At("engine", "move")
  /\ flags[Here] = "alive" /\ ~ dying[Here] /\ local[Here]
  /\ OwnerOf(Here) \in game.builders
  /\ IdsLeft

(* A builder's or factory's move() reaches create_unit().                  *)
EngineBuilds ==
  /\ Works
  /\ P!MayCreate(OwnerOf(Here))
  /\ Goto("engine", "create")
  /\ UNCHANGED <<poolVars, unitVars, cursor, visited, told>>

EngineCreates ==
  /\ At("engine", "create")
  /\ CreateLocked(OwnerOf(Here))
  /\ Advance
  /\ UNCHANGED <<visited, told>>

(* The capture of s: a copy of it is created for the captor if the limits  *)
(* allow it, ...                                                           *)
EngineCaptures(s) ==
  /\ Works
  /\ uid[s] # 0 /\ flags[s] = "alive" /\ OwnerOf(s) # OwnerOf(Here)
  /\ th' = [th EXCEPT !["engine"].pc =
               IF P!MayCreate(OwnerOf(Here)) THEN "capture" ELSE "mark",
               !["engine"].id = uid[s]]
  /\ UNCHANGED <<poolVars, unitVars, cursor, visited, told>>

EngineCopiesCaptured ==
  /\ At("engine", "capture")
  /\ CreateLocked(OwnerOf(Here))
  /\ Goto("engine", "mark")
  /\ UNCHANGED <<cursor, visited, told>>

(* ... then, in any case, s becomes a local unit about to be removed.      *)
EngineMarksCaptured ==
  /\ At("engine", "mark")
  /\ flags' = [s \in Slots |-> IF s \in Captured THEN "captured" ELSE flags[s]]
  /\ UNCHANGED death_timer
  /\ dying' = [s \in Slots |-> s \in Captured \/ dying[s]]
  /\ local' = [s \in Slots |-> s \in Captured \/ local[s]]
  /\ Advance
  /\ UNCHANGED <<poolVars, visited, told>>

(* A dead local unit is counted older at each pass; one that was not       *)
(* removed when its time was over is only known to be older.               *)
TimeIsOver == death_timer[Here] + 1 = DeathTimer
Ages ==
  /\ At("engine", "move")
  /\ flags[Here] # "none" /\ dying[Here] /\ local[Here]
  /\ death_timer' = [death_timer EXCEPT ![Here] = IF @ > DeathTimer THEN @ ELSE @ + 1]

(* It first explodes, unless it is still being built, ...                  *)
EngineExplodes ==
  /\ Ages
  /\ flags[Here] = "alive" /\ ~ TimeIsOver
  /\ flags' = [flags EXCEPT ![Here] = "exploding"]
  /\ Advance
  /\ UNCHANGED <<poolVars, dying, local, visited, told>>

(* ... stays while its explosion runs, ...                                 *)
EngineWaits ==
  /\ Ages
  /\ flags[Here] = "exploding" /\ ~ TimeIsOver
  /\ Advance
  /\ UNCHANGED <<poolVars, flags, dying, local, visited, told>>

(* ... and then move() returns -1: at once, when the explosion is over     *)
(* (flags goes back to 1), when it took too long, for a captured unit      *)
(* (flags becomes 4) and for one that another thread destroyed or wrote    *)
(* off since the loop looked at it.                                        *)
EngineKills ==
  /\ \/ Ages
     \/ At("engine", "move") /\ flags[Here] = "none" /\ UNCHANGED death_timer
  /\ flags' = [flags EXCEPT ![Here] =
                 CASE TimeIsOver                -> flags[Here]
                   [] flags[Here] = "exploding" -> "alive"
                   [] flags[Here] = "captured"  -> "exploding"
                   [] OTHER                     -> flags[Here]]
  /\ CallKill("engine", Here, cursor)
  /\ UNCHANGED <<poolVars, dying, local, cursor, visited, told>>

Engine ==
  \/ EngineFetch \/ EnginePassEnds \/ EngineExam
  \/ EngineMoves \/ EngineBuilds \/ EngineCreates
  \/ \E s \in Slots : EngineCaptures(s)
  \/ EngineCopiesCaptured \/ EngineMarksCaptured
  \/ EngineExplodes \/ EngineWaits \/ EngineKills
  \/ Killing("engine")

-----------------------------------------------------------------------------
(* The network: check() runs EVENT_UNIT_CREATION with the array locked.    *)
NetCreates(p) ==
  /\ At("net", "idle")
  /\ IdsLeft /\ P!MayCreate(p)
  /\ CreateLocked(p)
  /\ UNCHANGED <<th, cursor, visited, told>>

(* EVENT_UNIT_DEATH: the position is looked up under the array's lock and  *)
(* used after it.  An owner announces a death once, of a unit it created.  *)
NetDeath(s) ==
  /\ At("net", "idle")
  /\ OwnerOf(s) \in game.mortals
  /\ uid[s] # 0 /\ uid[s] \notin told
  /\ CallKill("net", s, FirstPlace(s))
  /\ UNCHANGED <<poolVars, unitVars, cursor, visited, told>>

Net ==
  \/ \E p \in Remote : NetCreates(p)
  \/ \E s \in Slots : OwnerOf(s) \in Remote /\ NetDeath(s)
  \/ Killing("net")

(* The main thread.  The game script gives every local player a first unit *)
(* and goes on creating units for some; program_create_unit() holds the    *)
(* array's lock.                                                           *)
ScriptCreates(p) ==
  /\ p \in game.scripts \/ \A s \in Slots : OwnerOf(s) = p => uid[s] = 0
  /\ At("ui", "idle")
  /\ IdsLeft /\ P!MayCreate(p)
  /\ CreateLocked(p)
  /\ UNCHANGED <<th, cursor, visited, told>>

(* The player takes back a unit his factory is building: the position is   *)
(* read from idx_list without its lock, ...                                *)
UICancels1(s) ==
  /\ At("ui", "idle")
  /\ uid[s] # 0 /\ LastPlace(s) >= 0
  /\ th' = [th EXCEPT !["ui"] = [pc |-> "cancel", slot |-> s,
                                 pos |-> LastPlace(s), id |-> uid[s]]]
  /\ UNCHANGED <<poolVars, unitVars, cursor, visited, told>>

(* ... then flags is cleared ("Don't count it as a loss"; when the order   *)
(* itself is replaced it is not) and kill() called.                        *)
UICancels2 ==
  /\ At("ui", "cancel")
  /\ \/ flags' = [flags EXCEPT ![th["ui"].slot] = "none"]
     \/ UNCHANGED flags
  /\ Goto("ui", "check")
  /\ UNCHANGED <<poolVars, dying, local, death_timer, cursor, visited, told>>

UI ==
  \/ \E p \in Players \ Remote : ScriptCreates(p)
  \/ game.cancels /\ \E s \in Slots : OwnerOf(s) \notin Remote /\ UICancels1(s)
  \/ UICancels2
  \/ Killing("ui")

(* A unit loses its last hit point: weapons, orders, reclaiming.           *)
Hit(s) ==
  /\ flags[s] = "alive" /\ ~ dying[s] /\ OwnerOf(s) \in game.mortals
  /\ dying' = [dying EXCEPT ![s] = TRUE]
  /\ UNCHANGED <<poolVars, flags, local, death_timer, th, cursor, visited, told>>

Next ==
  /\ UNCHANGED game /\ ~ Overrun
  /\ Engine \/ Net \/ UI \/ \E s \in Slots : Hit(s)

Spec == Init /\ [][Next]_vars

(* The engine thread runs until the battle ends.                           *)
FairSpec == Spec /\ WF_vars(UNCHANGED game /\ ~ Overrun /\ Engine)

-----------------------------------------------------------------------------
(* A game in which only the engine kills.                                  *)
Alone == game.mortals \cap Remote = {} /\ game.scripts = {} /\ ~ game.cancels

(* The list never grows past the array, and when only the engine kills no  *)
(* stack grows past its player's part, though neither create() nor kill()  *)
(* tests it.                                                               *)
TypeOK ==
  /\ game \in Games
  /\ max_unit \in {0, P!MaxUnit}
  /\ nb_unit \in 0 .. P!MaxUnit + 1
  /\ idx_list \in [0 .. P!MaxUnit - 1 -> Slots \cup {NoSlot}]
  /\ index_list_size \in 0 .. P!MaxUnit
  /\ free_idx \in [Players -> [P!Places -> Slots]]
  /\ free_index_size \in [Players -> 0 .. MaxUnitPerPlayer + 1]
  /\ Alone => ~ Overrun
  /\ uid \in [Slots -> 0 .. MaxID]
  /\ next_unit_ID \in 1 .. MaxID + 1
  /\ flags \in [Slots -> Flags]
  /\ dying \in [Slots -> BOOLEAN] /\ local \in [Slots -> BOOLEAN]
  /\ death_timer \in [Slots -> 0 .. DeathTimer + 1]
  /\ \A t \in Threads :
       /\ th[t].slot \in Slots \cup {NoSlot}
       /\ th[t].pos \in -1 .. P!MaxUnit - 1
       /\ th[t].id \in 0 .. MaxID
  /\ cursor \in 0 .. P!MaxUnit
  /\ visited \subseteq 0 .. MaxID /\ told \subseteq 0 .. MaxID

(* Whatever the threads do to each other, no two slots ever carry the same *)
(* ID, and no slot an ID that was not given.                               *)
IdsUnique ==
  \A s, t \in Slots : uid[s] # 0 =>
    uid[s] < next_unit_ID /\ (uid[s] = uid[t] => s = t)

(* When only the engine kills, the interleaved calls are calls of UnitPool *)
(* made one after the other; a unit between destroy() and the update of    *)
(* the lists counts as in play.                                            *)
Abs == INSTANCE UnitPool WITH
  uid <- [s \in Slots |->
            IF At("engine", "release") /\ th["engine"].slot = s
            THEN th["engine"].id ELSE uid[s]]
ImplementsPool ==
  /\ Abs!Init
  /\ [][Alone => Abs!Next]_(Abs!vars)

(* "Can't skip a unit": when only the engine kills, the loop has met       *)
(* exactly the units before its cursor, whatever died in this pass.        *)
NoUnitSkipped ==
  Alone => \A k \in 0 .. index_list_size - 1 : uid[idx_list[k]] # 0 =>
    /\ k < cursor => uid[idx_list[k]] \in visited
    /\ k > cursor => uid[idx_list[k]] \notin visited

(* A unit whose death was announced is gone: "Don't kill remote units,     *)
(* since we're told when to kill them".                                    *)
DeathHonoured == \A s \in Slots : uid[s] # 0 => uid[s] \notin told

(* When only the engine kills, a local unit that lost its hit points is    *)
(* removed in the end.                                                     *)
DeadAreRemoved ==
  \A i \in 1 .. MaxID :
    (Alone /\ \E s \in Slots : uid[s] = i /\ dying[s] /\ local[s])
      ~> (\A s \in Slots : uid[s] # i)
=============================================================================
