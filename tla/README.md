# TA3D in TLA+

TA3D is a real-time strategy game engine (C++, `src/src/ta3d/src`): a battle is a
simulation of units in steps, run by several threads and, in network games, on
several machines at once. These modules describe the parts of it whose
correctness depends on order: who may touch the unit array and when, what a
message means when it arrives, who waits for whom. Paths below are relative to
`src/src/ta3d/src` unless they begin with `docs`.

- [The system](#the-system)
- [Modules](#modules)
- [Runs](#runs)
- [Fairness](#fairness)
- [Proofs](#proofs)
- [Disagreements between the code and its word](#disagreements)
- [What is not modelled](#what-is-not-modelled)
- [Plan](#plan)

## The system

| Part | State | Operations | Talks to |
|---|---|---|---|
| Unit array and engine (`UnitEngine`) | `unit[]`, `idx_list`, free stacks, IDs, `nb_unit` | `create`, `kill`, `move`, `destroy`, orders; the engine's thread | everything; units keep indices and pointers into it |
| Units (`engine/unit`) | hit points, flags, owner, mission, `local` | `move`, missions, capture, build, script calls | unit engine, path finder, scripts, network |
| Network game (`network/TA3D_Network`, `ingame/players`) | sync table, ticks of the others | `check` handles events; `send*Event` | unit engine from a thread of its own |
| Path finder (`ai/pathfinding`) | queue, index, worker | `addTask`, `proc`, `clear` | units (request, answer), main thread (end of the battle) |
| Scripts of units (`scripts/cob.vm`, `script.interface`) | list of threads, stacks, signal masks | `run`, `fork`, `execute`, signals, save and load | units, both ways |
| Game scripts (`scripts/script`, `lua.*`) | Lua state | create and kill units, change owners | unit engine from the main thread |
| Computer players (`ai/ai*`) | weights, per-player thread | orders | unit engine |
| Missions (`engine/mission`) | a queue of steps | add, next, clear | units |
| Weapons, features, particles (`ingame/weapons`, `EngineClass`, `gfx`) | pools | add, move, remove | units, map |
| Network layer (`network/network`, `ta3dsock`, `socket*`) | players, queues, streams | connect, relay, receive threads | network game, menus |
| File transfers (`network/networkutils`) | getters, senders | getFile, sendFile, stop | setup menu, streams |
| Setup menu (`ingame/menus/setupgame`) | the game agreed on | SET, CHANGE, REQUEST, START | network layer |
| Threads (`threads`) | signal counter, stop flag | `sync`, `release`, `join`, `suspend` | all threads |
| Saved games (`restore`) | - | save, load | all of the battle |
| Files, data, graphics, sound, menus | caches | - | - |

**Threads of a battle.** Main (interface, mission script, rendering), unit engine
(`INGAME_UNITS::proc`), players (`PLAYERS::proc`: network events), weapons,
particles, the path finder, one per computer player, one receiver per socket,
AdminThread, one per file transfer. The four engine threads meet at
`Engine::sync()` once per step. Each unit has a mutex, the array another.

**What is hard.** The array changes while it is walked; tests and lookups are made
under one lock and used under the next; slots are used again; index numbers travel
between machines that each keep their own free lists; a condition variable forgets
signals; scripts start and kill scripts of the list that is being run; transfers
share a stream, are told apart by a port that is used again, and may be cut off
at any moment. What makes each part right is what its properties state (below);
the hazards of `PROJECT.json` list the places where it could go wrong.

## Modules

### UnitPool - the unit array, one call at a time
What `create()` and `kill()` promise. A slot is `<<player, k>>`, index
`owner * MAX_UNIT_PER_PLAYER + k` of the code. `Create(p)` pops the free stack of
`p` (filling all stacks the first time, as the first creation allocates the
arrays), appends to `idx_list` and gives the next ID; `Kill(e)` pushes the slot and
moves the last entry into place `e`; `Destroy` empties everything. Properties:
every slot is listed once or free once (`EachSlotOnce`), IDs name units
(`IdsNameUnits`), one call changes one unit (`OthersSurvive`).

### UnitEngine - the threads that share it
Splits the calls at every lock: `kill()` tests without a lock, destroys under the
unit's, unlists under the array's; `create()` tests limits before it locks. The
engine's loop has its cursor as a variable and steps back after a death ("Can't
skip a unit"). A dead unit explodes, stays in the list while its explosion runs
(`EngineExplodes`, `EngineWaits`) and is killed when that is over or `death_timer`, counted
by every pass, has come to `DeathTimer` (255 in the code). The network thread creates and
kills units of remote players, the main thread creates for scripts and cancels what a
factory builds, with or without clearing `flags` first. `game`, chosen
once, says which of these happen: `Alone` holds where only the engine kills, and the
promises that rest on it are made for those games; `IdsUnique` is made for all.
`kill()` does not ask for room on the free stack. Where two threads kill one unit the
model takes the step that passes the bound (`KillOverruns`) and ends, for the code goes on
writing into the next player's part; `TypeOK` says that this does not happen where only
the engine kills.
`ImplementsPool` is the refinement: with the
engine as the only killer, the pieces are calls of `UnitPool`, a unit between
`destroy()` and the update of the lists still counting as in play.

### UnitSync - the arrays of several machines
One machine per player, FIFO channels (TCP; the server relays in order).
`EVENT_UNIT_CREATION` carries no slot that is read, so every machine pops its own
copy of the owner's stack; `EVENT_UNIT_DEATH` carries the index only. Three threads of
each machine change its arrays, and `doing[m][t]` is the call a thread is in the middle
of: a creation that has popped and not yet announced (`CreateUnit`, `Announce`: the event is
sent without the array's lock), and a death that is found (`Finds`), then announced
(`KillSends`), then off the lists (`KillReleases`), by the engine for what has died and for
what it captured, by the main thread for what its player cancels (battle.cpp:1624), and,
without an event of its own, by `net` for the deaths it hears of (`HearsDeath`, which asks
only whether the slot is listed). The script creates under the array's lock, event included,
in the main thread of the server (`ScriptCreates`). `net` is whoever runs
`TA3D_Network::check()`: the players thread, or the unit engine itself while it waits for a
slower machine (UnitEngine.cpp:1773).
Nothing keeps these threads from one another. `raced` is set when two of them are at
the slots of one player, or both at `idx_list` to kill, and the model ends there:
what follows is `UnitEngine`'s matter on one machine, and on two it is disagreement,
which the hazards record. `game`, chosen once, says who does what. `Agreement`: when all is
handled and no threads met, index i is the same unit everywhere. What the
exception does not take away is everything that lies between machines: creations, deaths
and cancellations of several players crossing on their ways, an announcement that
comes long after its pop, deaths by two threads one after the other, a captor's removals.

### Pathfinder - the queue of path requests
`tasks`, the index `stasks` with `taskOffset`, and the worker: `check` (locks the
queue), `empty` (has unlocked it), `asleep` (in `pSync.sync()`), `find`, `deliver`,
`rest`. `Request` is the unit engine's push, `Signal` its `release()` a step later.
The end of the battle wakes the worker until it stops. `calm`, chosen once, says
that missions do not stop and resume and no saved battle is loaded: the promise
that nobody waits for nothing is only made then.

### CobThreads - the scripts of one unit
`childs`, `freeThreads` and the root; a `Tick` cleans the list and gives each
thread a turn, last child first, root last, each turn at most `MAX_CODE_PER_TICK`
opcodes. Opcodes are told apart by what they do to threads (go on, wait, sleep,
call, return, signal, set the mask, start). `Execute` is a query run to its end,
`Reload` saving and loading.

### FileTransfer - maps and scripts from the host to a client
Getters and senders as threads of their own, the two streams as FIFO channels,
the menu's stops and requests (`todo`) in the order the code makes them, the
SocketThreads that hand packets to the getter with the packet's port (and wait for
it), acknowledgements, the minute's timeouts, `AdminThread` and the flag it resets.
A chunk is `<<request, k>>`, so a property can see whose bytes a file holds.
The two calls `getFile()` and `sendSpecial()` of the menu are one step, and the
host's own list is not cleaned (a dead sender only notes acknowledgements).
A file on disk that fills its chunks (`Even`) sends an empty packet after its last chunk: its
end is seen by a read that comes short. (Files out of an archive know their end.) The getter,
which has all its bytes, does not read it; whoever has the port next does, as a length.
`FilesAreWhole` is for ports that earlier transfers left clean (`CleanPort`).

### BattleLoop - how the threads and the machines of a battle keep step
The loops of the unit engine (`INGAME_UNITS::proc`), the players thread
(`PLAYERS::proc`), weapons and particles around `Engine::sync()`; the main thread that
pauses, saves and ends the battle; on two machines the ticks they tell each other and
the orders PAUSE, RESUME, SAVE and GONE. `pc` is what a thread does between two
barriers; `Sync` is the barrier with `need` and `waiting` of the `Synchronizer`;
`EngineMoves`, `EnginePauses`, `EngineLeaves`, `EngineSends`, `EngineWaits` and `EngineChecks`
are the stretches of one pass of the engine, with its two pause loops and the wait for a
machine that is a second behind; `MainLeaves`, `MainReleases` and `MainJoins` are the
end (`nbThreadsToSync = 0`, `release()`, ask, join, thread after thread). To leave a pause
loop takes two steps: `pause` is found clear (`EngineLeaves`), and later `paused` is cleared. A
save begun in between finds `paused` still up, and writes while the engine goes on:
`hasty` marks such a save and `QuietWhileSaving` excepts it. (With
`paused` clear there is nothing to clear, and the two steps are one.)
`client_tick` is the last tick told, `heard`, and what was added since for the time that
passed, `guess`: any number that does not shrink, up to the `drift` of the game, until the next tick is
heard. `NobodyFarAhead` counts the drift in: the code bounds it by nothing but the time
without news, so a machine may be ahead by a second and what it guessed, and by no more.
A `game` is chosen once: its `kind`, one machine with its four threads ("alone"), a client that may leave
("left"), two machines that pause ("talk"), a server that saves ("saved"); and its bounds
(`ticks`, `orders`, `drift`).
Simplified: with two machines the weapons and particles, which neither send nor receive, are
left out; the server does not leave; `dropPlayer()` is one step; no save begins at the bound on ticks.

### Lobby - how the machines agree on a game
The setup menu and the wait room of a server and its clients. `view[m]` is a machine's
`game_data`: who holds each slot, one setting that stands for side, team, metal, energy and
AI level, the ready flag, and whether the AI level is the name of an AI (`named`); `limit[m]` is
`max_unit_per_player`. `ServerHears` and
`ClientHears` are `checkNetworkMessages()`, an operator per message (`NewPlayer`, `Request`,
`Update`, `Info`, `PlayerLeft`), `NoticesDropped` its part for players who are off the list:
it leaves "0" as the AI level of the slots it frees. What clients make of the server's slots is
`Seen`: a closed one is open to them, and so is an AI whose level is shorter than four
characters, as that "0" is until the server's user chooses another.
What a machine says in one go to another is one message (`DATA` is the limit and all
slots, `INFO` a client's own slots and limit). `Init` is the menu as it opens: the server in
the first slot, or in none if it remembers its last game ("remembered"); or everybody there and ready ("joined").
`ServerLoads` moves the players to the top, as the menu does when it is left: `top` is
`player_control[0 .. nb_players - 1]`, while `view[Server][i].who` goes on saying whose id is
at index i, for `player_network_id` stays as it was. From there on an index is waited for if an
id is there (`Awaited`), and `READY` is noted at the index of the speaker's id if a human
was moved there (`Heard`): behind a gap in the slots a player is waited for at another's index, or not at all.
The battle throws no message away before the wait room (`cleanQueues()` is asked for at
battle.cpp:98, when `pNetworkEnabled` is still false), so what comes early waits in `toClient` and `toServer`.
The wait room has the list of units (`USING`, `END`), `MISSING` and its relay by the
SocketThread (`Relays`), `READY`, `START` (`BEGIN` here, to tell it from the menu's). Any client
who has a slot may be found too slow and dropped (`DropsSlow`): the menu asks for the ping by slot index
and so may drop one for the answers of another. A
`game` says what may happen and whether people act only when no message is under way
(`calm`). The exceptions of the properties are what the code does: `Agrees` leaves out an AI
without a level, `UnitsOnAll` players who are not at the index of their id, and `EveryoneBegins` ends,
without a battle, when somebody who is waited for is gone and `playerDropped` does not say so
(`GoneUnnoticed`: he left his menu after START was sent, where PLAYER_LEFT is no longer read, or
his connection broke).
Left out: colours, the options only the server sets (fog, script, map), saved games,
chat, a server that leaves.

`UnitPool` is the abstraction of `UnitEngine` and one machine's share of `UnitSync`;
`Pathfinder` abstracts unit slots to those of `UnitPool` with their IDs.

## Runs

| Run | Bounds | States | Shows |
|---|---|---|---|
| unit_pool | 2 players, 2 slots each, 6 IDs | 7 thousand | the array keeps its promises in every order of calls |
| unit_engine | 2 slots each, 3 passes for an explosion; games in which only the engine kills (4 IDs), the main thread too (3), and all three threads (2) | 82 thousand | no unit is skipped, the pieces are calls of the pool, the dead are removed; no two slots share an ID, whatever the threads do |
| lost_death (violation) | the first of these, remote units die too | stops at some 7 thousand | a remote death is lost: see below |
| unit_sync | 2 machines with three threads each, 3 slots, 4 units; all build, cancel and die while a script creates, or the server captures from a client who builds nothing | 1.7 million | agreement, unless two threads of one machine meet or somebody captures from a player who builds |
| unit_sync_capture (violation) | the same, with a captor | stops at some 22 thousand | two machines disagree on an index |
| pathfinder | 2 slots, 1 goal, 2 IDs, 3 requests | 74 thousand | index, ownership of paths, nobody waits for nothing, answers, the end |
| pathfinder_missed (violation) | 1 slot, 2 requests | 1 thousand | a request waits for the next one |
| cob_threads | root and 2 more threads, 2 opcodes per turn, depth 2, sleep 2, 1 signal | 841 thousand | threads are served once per step, ended, reused and saved soundly |
| file_transfer | 2 requests, a map of 2 whole chunks, a script of 1 that is not full, window 1 | 697 thousand | whole files, the window, every getter ends, the stream moves |
| battle | 4 threads on one machine, 2 on each of two; a second is 1 tick, at most 4 ticks, 2 orders, a drift of 1 | 252 thousand | threads and machines keep step, saves are undisturbed, ends end, the game goes on |
| battle_saved (violation) | two machines, 3 ticks, 1 order, a drift of 1 | 104 thousand | a client waits for itself |
| lobby | a server, 2 clients, 3 slots, 2 limits, 1 unit type; six games of at most 2 acts, the one with dropped players of 4 | 1.1 million | slots and limit agree, units are on all machines, a started game begins |

*Why the bounds are enough.* Two slots per player let one death move another unit
in the list and a slot be taken again, with three or four IDs to tell the units
apart; a third would only move one more. Two machines are sender and receiver of
every event, one slot taken and two free ones are enough for two orders of pops to
differ. In the queue, two units and three requests give a change in place, a
removal before it and a new request after it. Two further script threads are a
list with a first and a last; a third object only lengthens it. Three passes are enough for
an explosion to begin, run on and be cut short. A battle of three ticks with a second of one lets a machine run ahead,
wait and be caught up, and a fourth lets it do so on a guess; two orders are a pause and its end, or a pause and a save. Two
clients are one who acts and one who is told, and three slots hold everybody, or leave a gap
when one is gone; two acts
cross each other in flight, and four free a slot, open it, close it and give it to an AI. A window of one
with two chunks and an empty one reaches the limit and passes it; two requests give one the
other's port. All unbounded counters (IDs, requests, units born, stack depth,
sleep) are bounded in guards by the constants named `Max...`; at the bound the
model stops creating, which is why some runs set `CHECK_DEADLOCK FALSE`: the
system may stop when nothing is left to do, and the models of the array end where a stack is
overrun or two threads meet.

Each property of a passing run was tried against a bug written into the model:
the definitions commented `Mutant` are such bugs (a dropped guard, an off-by-one,
a reset that is forgotten), and TLC finds the property violated with each.

## Fairness

- `UnitEngine`: weak fairness of the engine thread, which loops until the battle
  ends. Nothing is assumed of the network and of the player.
- `Pathfinder`: weak fairness of the worker, of the `release()` that follows a
  push and of the main thread once it has begun to end a battle (it loops until
  the worker is gone). Orders and deaths are free.
- `CobThreads`: weak fairness of the interpreter: once `run()` is called it is not
  left. Ticks themselves are free.
- `BattleLoop`: weak fairness of every engine thread, of the SocketThread that receives,
  and of the main thread once it has begun a save or the end of the battle. Pauses,
  resumes, saves and leaving are free, and `GameGoesOn` asks for progress only when
  pauses end.
- `Lobby`: weak fairness of what the machines do by themselves (messages are handled,
  the relay, loading, the wait room). Users, slow answers and broken connections are
  free.
- `FileTransfer`: weak fairness of each thread by itself (every getter, every
  sender, the two SocketThreads, AdminThread, the host's menu and what the
  client's menu has begun). The operating system schedules them all; streams
  deliver because the receiving threads run, and a timeout is a step of its getter
  that becomes possible while it waits. What the user does is free.

No strong fairness is used, and no lock needs any: critical sections are one step.

## Proofs

All proofs are checked by `tlapm` (Z3, Zenon, LS4) for every value of the constants
that the modules' named assumptions allow.

**UnitPoolProofs** assumes `PoolAssumption` (a finite, non-empty set of players, a
positive number of slots each, no slot equal to `NoSlot`). `Partition` alone is not
inductive: a push could overrun a stack or put a slot there twice. The invariant
`PoolInv` adds that listed entries are slots and listed once, free slots are on
their owner's stack and there once (`FreeOnce`, `OwnPart`), that before the
allocation nothing is listed, that counts agree and that IDs given are below the
next (`IdsFresh`). Two lemmas carry the weight: `CreateTakesFree` (the popped slot is
a free one of that player) and `RoomToPush` (by counting: the free slots of a
player are distinct and do not include the one that is in play, so there is room).
From it follow `TypeCorrect`, `SlotsPartitioned`, `IdsSound` and `OthersUntouched`.

**PathfinderProofs** assumes `PathfinderAssumption`. `IndexExact`: the queue's
operations preserve `IndexSound` (`PushSound` by the two cases of a known and a new
ID, `PopSound` by the shift of positions), and no other action touches the queue.
`PathsAreOwn` adds that the worker holds a path only while it delivers, that this
path is for its request's ID (`FoundForCur`), and that a stopped thread has left
`proc()` and an ended battle has an empty queue (`DeadIsOff`). `NobodyForgotten` strengthens `WaitsForSomething` by
`IndexSound`, `DeadIsOff`, that the IDs of units in play are distinct and below
`next_ID` (`IdsOf`), and that a request names the slot of the unit whose ID it
carries, as long as that unit lives (`TasksFit`): without the last two a worker could serve one unit's
request and take another's flag for answered. `PathfinderTypeCorrect` adds the flags and
the end of the battle to the types the others need.

**UnitEngineProofs** assumes `EngineAssumption` and, of the array, `PoolAssumption`.
Two invariants. `EngineTyped` holds in every game: `TypeOK` is not inductive, since a
limit tested without the lock may be passed and a unit killed twice; what bounds the list is
that listed and free slots are always as many as the array has (`Counted`), until a stack is
overrun, with which the game ends. `IdsAreUnique` follows; `EngineTypeCorrect` takes from
`AloneInv`, by `RoomWhenAlone`, that no stack is overrun where only the engine kills: no guard says so,
it is what UnitPool's invariant counts. `AloneInv` is about the games in which only the engine kills:
the invariant of UnitPool holds of the array as the refinement sees it (a unit between
`destroy()` and the update of the lists still there), the other threads are not within
a kill (`OthersIdle`), the unit the engine works with or kills is at the cursor (`AtCursor`,
`KillsHere`), and what `create()` tested still holds (`StackHolds`). With it every step is a call of UnitPool or none
(`EngineImplementsPool`), and UnitPoolProofs' lemmas are used through INSTANCE;
`LoopMeetsAll` follows from its part `Met`.

**UnitSyncProofs** assumes `SyncAssumption`. `Agreement` speaks of the moment when nothing is
under way; `SyncInv` says what holds before. A machine's copy of p's stack and table is not
always what was announced of p: a unit may have been popped and not yet announced, or announced
dead and not yet pushed. `Settled` is the copy with such a half-done call (`Halves`) undone or completed.
Replaying the events under way to a machine on its settled copy leads, event by event, to the settled copy p
itself has (`Mirrored`, with the way as a sequence of copies), for the players whose units
one machine creates and kills (`OwnsAlone`); units of players who build nothing are gone on all machines or
will be (`Doomed`). What makes these inductive: the threads of a machine are busy
with units of different players until `raced` (`Apart`), so that a copy has one half-done call
at most; what a call is about is there (`Held`); a free slot is free once and holds nothing
(`Free`); a unit that is announced is new to who hears of it (`Fresh`), one that is still to
be announced is new to everybody else (`Unsaid`); and who says and does what (`Speakers`, `Callers`). That the
stacks never overrun (`SyncTypeCorrect`) is a consequence of `Free`, not of a guard. `UnitsAgree` needs
each player to be of one of the two kinds, as in the games of run `unit_sync`; in those
of `unit_sync_capture` one is not, and the machines do differ. Both it and
`DeathsFindTheirUnit` speak of games in which no two threads of a machine have met (`raced`).

**CobThreadsProofs** assumes `CobAssumption` (a finite set of further thread objects,
positive bounds). `Listed` and `Dead` (every object made is in one list, once; those in
`freeThreads` and those never made do not run) are kept by `fork()` (`ForkFacts`: what it
hands out runs nowhere) and by `clean()` (`CleanFacts`, on what `Kept` returns).
`InTick` says what the loop of `run()` relies on: who was awake at the start, lives and had no
turn is still ahead of the loop, who is ahead had no turn and was not started since
(new childs go behind the loop's position), and the root comes last. `LoadingKeeps`
compares the two lists of turns by `KeptSuffix`: what does not run at the front of a
list may be left out.

**BattleLoopProofs** assumes `BattleAssumption`. `BattleInv` has a part for each thing
the threads rely on: what the barrier counts (`Barrier`), that while it lasts all have met
as often (`Levels`), that a step is begun before the bound only (`Room`), how far an ending has come (`Ends`), that
an engine that says it is paused is in a pause loop or has left it and still to say so (`Pauses`), that one that leaves it
while the main thread saves was leaving when the save was begun (`AloneQuiet`, `hasty`), and what each machine was told,
guessed and when (`Ticks`, with the game's `drift`). `ThreadsInStep`, `NobodyRunsAhead` and `QuietSaves` are each a consequence of
one or two of them, but none of these is inductive without the others.

**LobbyProofs** assumes `LobbyAssumption` (finite sets of clients and units, a positive number
of slots). `LobbyInv`: a client holds one slot at most in
whatever copy of the game, those under way included (`Placed`); nobody is ahead of the
server's menu (`Together`); a client who knows something old (but for an AI without a level, which `Seen` leaves open) will hear of it, by a message
under way or by one that the handling of a message under way will cause (`Known`); who is
ready has complained of all units he misses, or his complaint is still before his `READY` in
the queue (`Counted`, in two parts: `Before` the wait room nobody is ready, `During` it readiness
counts for the client whose id is at the index). `EveryoneKnows` and `UnitsAreOnAll` are `Known` and `Counted` with
empty queues. `EveryoneAgrees` (`SameGame`, in the games in which people act one after the
other) has an invariant of its own on top of `LobbyInv`, `Calm`: what a person began is one
message until it is heard (`Single`), so answers of two changes never cross; a client
who changed his own slot (`Pending`) will have told it before the server's data reach him; every other client agrees
already or will be told, and then no client is being asked for his own data (`Follows`); and from the start of the game on nothing changes any more.

**FileTransferProofs** assumes `FileAssumption` (files are not empty, the window is
positive). Neither `FilesAreWhole` nor `WindowKept` says where the packets come
from; `FileInv` does, in parts. `Asked`: a request is on the stream up or in the host's queue once, and until
it is served its sender has sent nothing. `Listed`: a getter off the list is dead, and
a port is given again only then. `Sent`, for every request: its chunks are on the stream in order,
behind those its getter has and up to where its sender is. With these, `OnlyIts` shows
that on a clean port, one whose earlier getters got all of files that leave no empty packet,
every packet belongs to the getter on the list: the earlier files' last chunks were taken off the stream,
and nothing was sent behind them. A file that fills its chunks leaves its empty packet, and its port is
clean no more; the getter of such a file has what it needs without it (`EmptyGoneFlow`). `InOrder`, for
a getter on such a port: it has the beginning of its file, and from the chunk it expects
to the sender's last one everything is on the stream (`Flow`); `ItsNext` is the step that
hands it the next. `Acked`, for every getter alive: an acknowledgement with its port is either no more than
it has written, or still in front of its own request and so handled before its sender exists.
`WholeFiles` follows from `InOrder`, `WindowNeverPassed` from `Acked`. Each kind of step
has a lemma that says which of these parts it can touch (`GetterStepKeeps`,
`TakesKeeps`, `SenderStepKeeps`, `HostSideKeeps`, `NothingMoves`), and each action is shown to
be a step of its kind.

*Induction over data.* The library's induction theorems cannot be instantiated, but
`WFMin` (every set has a minimal element of a well-founded relation) takes a set: a
smallest counterexample does the same work. `LeastNumber` states it, and
`KeptExists`, `KeptFacts` and `KeptSuffix` use it to show that the recursive function `Kept`
is what it is meant to be.

Out of the prover's reach, and left to TLC: liveness (`DeadAreRemoved`,
`AnsweredUnlessMissed`, `Ends`, `TicksEnd`, `GettersEnd`, `StreamMoves`, `MainFinishes`,
`GameGoesOn`, `EveryoneBegins`), ENABLED, and anything defined by a RECURSIVE operator
(there is none). Every invariant a passing run checks is also a theorem.

## Disagreements

Runs that TLC ends with a violation, each against a sentence of the code:

1. `lost_death` - "Don't kill remote units, since we're told when to kill them"
   (UnitEngine.cpp:1067): the position of the unit is looked up and used under
   different locks, and the one message that tells of the death is lost.
2. `unit_sync_capture` - "Force synchronization in networking mode"
   (engine/unit.cpp:4770): the captor's removal of a unit and the owner's next
   creation cross, and an index names two units.
3. `pathfinder_missed` - "Send a request to the pathfinder when we need a complex
   path" (engine/unit.cpp:1541): the signal comes before the worker sleeps.
4. `battle_saved` - "We need this to prevent client dead lock when saving game"
   (UnitEngine.cpp:1773): the order to save is handled in the unit engine's thread when
   it waits for the slowest machine, and `save_game()` then waits until that same thread is paused.

Others were seen while modelling and are kept as hazards with a note, without a
run: a unit killed by two threads, which may write past a free stack (UnitEngine.cpp:1434); two threads of one
machine that announce what they did to a player's slots in another order than they did it; a unit skipped, `nb_unit` one too high, a script's
creation that crosses a death, requests that survive `stopMoving()` or a load, the
answer to an old order taken for the new one (ai/pathfinding.cpp:214), queries that
never end, the menu's stale ports, packets of a stopped transfer that go to the next
getter of its port (network/network.cpp:778), and the empty packet after a file that fills its
chunks (networkutils.cpp:294); a save begun as the engine leaves a pause (UnitEngine.cpp:1739-1744); an AI without a level,
which the clients take for an open slot (setupgame.cpp:920, 1260); players moved to the top without their ids
(setupgame.cpp:104) and so not waited for; a player who leaves after START was sent and is waited for for ever; a broken connection that the lobby does not
notice, a client's own slot overwritten by a late answer, a unit enabled after it was reported missing, the lost notice of a dead getter, `makeTick()`'s
missing braces, the exchanged bits of the nanolathe event, 16-bit damage.

## What is not modelled

Graphics, sound, menus, the parsers of data files and the file system are left out:
their work is conversion and drawing. Physics, economy and damage are floating-point
arithmetic. Undefined behaviour that only shows as memory (a freed thread object
that is still looked at, networkutils.cpp:164; a torn read of an index) is not
modelled; where the models say a deleted thread is "not listed" the code may crash.
Lua and the operating system's sockets and threads are used by what they promise.
Each component's entry in `PROJECT.json` says which part of it is modelled.

## Plan

Written so far, in this order: UnitPool, UnitEngine, UnitSync, Pathfinder, CobThreads,
FileTransfer, BattleLoop, Lobby, and the proofs of all. To come:

1. **LockOrder**: the two orders in which orders, captures, `move()` and `kill()` take
   the locks of the array and of units, and whether they can meet.
2. **MissionQueue**: add, set, next and stop with the flags the move uses, composed
   with Pathfinder to replace `Resume` and `Halt` by their causes.
3. **WeaponPool**, **FeaturePool**: the other pools, as refinements of one abstract
   pool shared with UnitPool.
4. **NetEvents**, **Framing**: wire formats as pure functions with their inverses over
   bounded inputs, and packets cut by TCP.
5. **Resources**: what is taken and given back over build, cancel, capture.

Runs are few on purpose: a module asks its questions in one run whose games are chosen
in Init, and a new module can be checked beside an old one only where they share state.

Proofs to come: those of the modules above.
