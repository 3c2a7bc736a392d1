------------------------------ MODULE Pathfinder ------------------------------
(***************************************************************************)
(* The path finder (AI::Pathfinder), a thread of its own: units queue      *)
(* requests, it answers them one at a time.  The queue holds at most one   *)
(* request per unit; an index from the unit's ID to the number its request *)
(* was given finds it again, so that asking twice changes the request.     *)
(*                                                                         *)
(* Threads: the worker; the unit engine, which holds a unit's lock while   *)
(* it moves it; the main thread, which starts and ends battles and gives   *)
(* orders.                                                                 *)
(***************************************************************************)
EXTENDS Integers, Sequences

CONSTANTS
  Units,        \* the slots of the unit array that are used
  NoUnit,       \* no slot
  Goals,        \* where orders send units
  NoGoal,       \* nowhere: the mission does not move the unit
  MaxID,        \* bound: the unit IDs given
  MaxRequests   \* bound: the requests queued since the queue was cleared

ASSUME PathfinderAssumption ==
  /\ NoUnit \notin Units /\ NoGoal \notin Goals
  /\ MaxID \in Nat /\ MaxRequests \in Nat

NoPath == [uid |-> 0, goal |-> NoGoal]
NoTask == [idx |-> NoUnit, uid |-> 0, goal |-> NoGoal]
Tasks == [idx : Units, uid : 1 .. MaxID, goal : Goals]
Paths == [uid : 1 .. MaxID, goal : Goals] \cup {NoPath}

VARIABLES
  calm,        \* chosen once: no mission stops and resumes its move (as one
               \* that guards does), no saved battle is loaded
  tasks,       \* the queue
  stasks,      \* the index: request number per ID
  taskOffset,  \* the requests that were taken off the queue
  worker,      \* where the worker thread is
  cur, found,  \* its request, and the path it found
  pDead,       \* the thread is to stop, or stopped
  bRunning,    \* it is inside proc()
  game,        \* "play", or how far the end of the battle has come
  calling,     \* the unit whose request the engine has yet to signal
  id,          \* ID of each slot, 0 when there is no unit
  goal,        \* where its mission moves it (MISSION_FLAG_MOVE)
  requesting,  \* Unit::requesting_pathfinder
  path,        \* the path it follows
  next_ID

queue == <<tasks, stasks, taskOffset>>
thread == <<worker, cur, found, pDead, bRunning>>
unit == <<id, goal, requesting, path>>
vars == <<calm, queue, thread, game, calling, unit, next_ID>>

Init ==
  /\ calm \in BOOLEAN
  /\ tasks = <<>> /\ stasks = <<>> /\ taskOffset = 0
  /\ worker = "off" /\ cur = NoTask /\ found = NoPath
  /\ pDead = TRUE /\ bRunning = FALSE
  /\ game = "play" /\ calling = NoUnit
  /\ id = [u \in Units |-> 0] /\ goal = [u \in Units |-> NoGoal]
  /\ requesting = [u \in Units |-> FALSE] /\ path = [u \in Units |-> NoPath]
  /\ next_ID = 1

-----------------------------------------------------------------------------
(* The queue and its index.                                                *)
Without(f, x) == [k \in DOMAIN f \ {x} |-> f[k]]
With(f, x, v) == [k \in DOMAIN f \cup {x} |-> IF k = x THEN v ELSE f[k]]

(* Where in the queue the request of this ID is.                           *)
Place(uid) == stasks[uid] - taskOffset + 1

(* Mutant: the index counts from the current head of the queue.            *)
PushUnshifted(t) ==
  IF t.uid \in DOMAIN stasks
  THEN tasks' = [tasks EXCEPT ![Place(t.uid)] = t] /\ UNCHANGED stasks
  ELSE /\ stasks' = With(stasks, t.uid, Len(tasks))
       /\ tasks' = Append(tasks, t)

(* "If it's in the queue, then change the request".                        *)
Push(t) ==
  IF t.uid \in DOMAIN stasks
  THEN tasks' = [tasks EXCEPT ![Place(t.uid)] = t] /\ UNCHANGED stasks
  ELSE /\ stasks' = With(stasks, t.uid, Len(tasks) + taskOffset)
       /\ tasks' = Append(tasks, t)

(* Mutant: the ID stays in the index.                                      *)
PopKeepsID ==
  /\ tasks # <<>>
  /\ cur' = Head(tasks)
  /\ tasks' = Tail(tasks)
  /\ taskOffset' = taskOffset + 1
  /\ UNCHANGED stasks

Pop ==
  /\ tasks # <<>>
  /\ cur' = Head(tasks)
  /\ stasks' = Without(stasks, Head(tasks).uid)
  /\ tasks' = Tail(tasks)
  /\ taskOffset' = taskOffset + 1

-----------------------------------------------------------------------------
(* The units.  A unit is locked by the engine until its request is signalled *)
Unlocked(u) == calling # u
Playing == game = "play"

Creation(u) ==
  /\ Playing /\ calling = NoUnit
  /\ id[u] = 0 /\ next_ID <= MaxID
  /\ id' = [id EXCEPT ![u] = next_ID]
  /\ next_ID' = next_ID + 1
  /\ goal' = [goal EXCEPT ![u] = NoGoal]
  /\ requesting' = [requesting EXCEPT ![u] = FALSE]
  /\ path' = [path EXCEPT ![u] = NoPath]
  /\ UNCHANGED <<queue, thread, game, calling>>

(* Its requests are not taken off the queue.                               *)
Death(u) ==
  /\ Playing /\ Unlocked(u)
  /\ id[u] # 0
  /\ id' = [id EXCEPT ![u] = 0]
  /\ UNCHANGED <<queue, thread, game, calling, goal, requesting, path, next_ID>>

(* set_mission(), next_mission(): a new mission forgets the path and the   *)
(* request of the last one.                                                *)
Order(u, g) ==
  /\ Playing /\ Unlocked(u) /\ id[u] # 0
  /\ goal' = [goal EXCEPT ![u] = g]
  /\ requesting' = [requesting EXCEPT ![u] = FALSE]
  /\ path' = [path EXCEPT ![u] = NoPath]
  /\ UNCHANGED <<queue, thread, game, calling, id, next_ID>>

(* stopMoving(): what the unit went to came near by itself.                *)
Halt(u) ==
  /\ ~ calm
  /\ Playing /\ calling = NoUnit /\ id[u] # 0 /\ goal[u] # NoGoal
  /\ goal' = [goal EXCEPT ![u] = NoGoal]
  /\ path' = [path EXCEPT ![u] = NoPath]
  /\ UNCHANGED <<queue, thread, game, calling, id, requesting, next_ID>>

(* It went away again: the mission sets MISSION_FLAG_MOVE.                 *)
Resume(u, g) ==
  /\ ~ calm
  /\ Playing /\ calling = NoUnit /\ id[u] # 0 /\ goal[u] = NoGoal
  /\ goal' = [goal EXCEPT ![u] = g]
  /\ UNCHANGED <<queue, thread, game, calling, id, requesting, path, next_ID>>

(* followPath() without a path, or with one the unit wants refreshed:      *)
(* requesting_pathfinder is set and addTask() called, which starts the     *)
(* thread if it does not run.                                              *)
Request(u) ==
  /\ Playing /\ calling = NoUnit
  /\ id[u] # 0 /\ goal[u] # NoGoal /\ ~ requesting[u]
  /\ taskOffset + Len(tasks) < MaxRequests
  /\ path' = [path EXCEPT ![u] = NoPath]
  /\ requesting' = [requesting EXCEPT ![u] = TRUE]
  /\ Push([idx |-> u, uid |-> id[u], goal |-> goal[u]])
  /\ IF pDead THEN worker' = "start" /\ pDead' = FALSE ELSE UNCHANGED <<worker, pDead>>
  /\ calling' = u
  /\ UNCHANGED <<taskOffset, cur, found, bRunning, game, id, goal, next_ID>>

Wake == worker' = IF worker = "asleep" THEN "check" ELSE worker

(* The end of addTask(), after the queue is unlocked: pSync.release().     *)
Signal ==
  /\ calling # NoUnit
  /\ calling' = NoUnit
  /\ Wake
  /\ UNCHANGED <<queue, cur, found, pDead, bRunning, game, unit, next_ID>>

(* The path has been followed to its end, at the place it was found for.   *)
Arrive(u) ==
  /\ Playing /\ calling = NoUnit
  /\ id[u] # 0 /\ path[u] # NoPath /\ goal[u] # NoGoal
  /\ path' = [path EXCEPT ![u] = NoPath]
  /\ goal' = [goal EXCEPT ![u] = IF path[u].goal = @ THEN NoGoal ELSE @]
  /\ requesting' = [requesting EXCEPT ![u] = FALSE]
  /\ UNCHANGED <<queue, thread, game, calling, id, next_ID>>

-----------------------------------------------------------------------------
(* The worker: Pathfinder::proc.                                           *)
Start ==
  /\ worker = "start"
  /\ worker' = "check" /\ bRunning' = TRUE
  /\ UNCHANGED <<queue, cur, found, pDead, game, calling, unit, next_ID>>

Stops == worker' = "off" /\ bRunning' = FALSE /\ cur' = NoTask /\ found' = NoPath

Take ==
  /\ worker = "check" /\ ~ pDead
  /\ IF tasks = <<>>
     THEN worker' = "empty" /\ UNCHANGED <<queue, cur>>
     ELSE Pop /\ worker' = "find"
  /\ UNCHANGED <<found, pDead, bRunning, game, calling, unit, next_ID>>

Leave ==
  /\ worker = "check" /\ pDead
  /\ Stops
  /\ UNCHANGED <<queue, pDead, game, calling, unit, next_ID>>

(* It found the queue empty and unlocked it; only now it waits.            *)
Sleep ==
  /\ worker = "empty"
  /\ worker' = "asleep"
  /\ UNCHANGED <<queue, cur, found, pDead, bRunning, game, calling, unit, next_ID>>

(* Mutant: the search starts without a look at the unit.                   *)
FindUnchecked ==
  /\ worker = "find"
  /\ worker' = "deliver"
  /\ found' \in {[uid |-> id[cur.idx], goal |-> cur.goal], NoPath}
  /\ UNCHANGED <<queue, cur, pDead, bRunning, game, calling, unit, next_ID>>

(* The search, for a unit that is still there, succeeds or does not.       *)
Find ==
  /\ worker = "find"
  /\ IF id[cur.idx] = cur.uid
     THEN /\ worker' = "deliver"
          /\ found' \in {[uid |-> cur.uid, goal |-> cur.goal], NoPath}
     ELSE worker' = "rest" /\ UNCHANGED found
  /\ UNCHANGED <<queue, cur, pDead, bRunning, game, calling, unit, next_ID>>

(* Mutant: the unit is not looked at again after the search.               *)
DeliverUnchecked ==
  /\ worker = "deliver" /\ Unlocked(cur.idx)
  /\ IF requesting[cur.idx] /\ goal[cur.idx] # NoGoal
     THEN /\ path' = [path EXCEPT ![cur.idx] = found]
          /\ requesting' = [requesting EXCEPT ![cur.idx] = FALSE]
     ELSE UNCHANGED <<path, requesting>>
  /\ worker' = "rest"
  /\ UNCHANGED <<queue, cur, found, pDead, bRunning, game, calling, id, goal, next_ID>>

(* Mutant: the unit goes on waiting when no path was found.                *)
DeliverSomething ==
  /\ worker = "deliver" /\ Unlocked(cur.idx)
  /\ IF /\ id[cur.idx] = cur.uid /\ requesting[cur.idx] /\ goal[cur.idx] # NoGoal
        /\ found # NoPath
     THEN /\ path' = [path EXCEPT ![cur.idx] = found]
          /\ requesting' = [requesting EXCEPT ![cur.idx] = FALSE]
     ELSE UNCHANGED <<path, requesting>>
  /\ worker' = "rest"
  /\ UNCHANGED <<queue, cur, found, pDead, bRunning, game, calling, id, goal, next_ID>>

(* Under the unit's lock: is it the same unit, does it still wait?         *)
Deliver ==
  /\ worker = "deliver" /\ Unlocked(cur.idx)
  /\ IF id[cur.idx] = cur.uid /\ requesting[cur.idx] /\ goal[cur.idx] # NoGoal
     THEN /\ path' = [path EXCEPT ![cur.idx] = found]
          /\ requesting' = [requesting EXCEPT ![cur.idx] = FALSE]
     ELSE UNCHANGED <<path, requesting>>
  /\ worker' = "rest"
  /\ UNCHANGED <<queue, cur, found, pDead, bRunning, game, calling, id, goal, next_ID>>

(* suspend(): the thread returns at once when join() has set shouldStop.   *)
Rest ==
  /\ worker = "rest"
  /\ IF game = "join"
     THEN Stops
     ELSE worker' = "check" /\ cur' = NoTask /\ found' = NoPath /\ UNCHANGED bRunning
  /\ UNCHANGED <<queue, pDead, game, calling, unit, next_ID>>

Worker == Start \/ Take \/ Leave \/ Sleep \/ Find \/ Deliver \/ Rest

-----------------------------------------------------------------------------
(* The end of the battle.  The unit engine has stopped; destroyThread()    *)
(* asks a running thread to stop ...                                       *)
Quit ==
  /\ Playing /\ calling = NoUnit
  /\ game' = IF pDead THEN "join" ELSE "exit"
  /\ pDead' = TRUE
  /\ UNCHANGED <<queue, worker, cur, found, bRunning, calling, unit, next_ID>>

(* Mutant: the loop waits for the thread and does not wake it.             *)
WaitUntilStopped ==
  /\ game = "exit"
  /\ game' = IF bRunning THEN game ELSE "join"
  /\ UNCHANGED <<queue, thread, calling, unit, next_ID>>

(* ... signalExitThread() wakes it until it has ...                        *)
WakeUntilStopped ==
  /\ game = "exit"
  /\ IF bRunning THEN Wake /\ UNCHANGED game ELSE game' = "join" /\ UNCHANGED worker
  /\ UNCHANGED <<queue, cur, found, pDead, bRunning, calling, unit, next_ID>>

(* ... and the queue is cleared once the thread has been joined.           *)
Clear ==
  /\ game = "join" /\ worker = "off"
  /\ game' = "over"
  /\ tasks' = <<>> /\ stasks' = <<>> /\ taskOffset' = 0
  /\ UNCHANGED <<thread, calling, unit, next_ID>>

(* The next battle: a new one, or the one that was saved, in which units   *)
(* have the requesting_pathfinder they were saved with.                    *)
NewBattle ==
  /\ game = "over"
  /\ game' = "play"
  /\ \/ ~ calm /\ UNCHANGED <<unit, next_ID>>
     \/ /\ id' = [u \in Units |-> 0] /\ goal' = [u \in Units |-> NoGoal]
        /\ requesting' = [u \in Units |-> FALSE]
        /\ path' = [u \in Units |-> NoPath]
        /\ next_ID' = 1
  /\ UNCHANGED <<queue, thread, calling>>

Main == WakeUntilStopped \/ Clear

Step ==
  \/ \E u \in Units : Creation(u) \/ Death(u) \/ Halt(u) \/ Request(u) \/ Arrive(u)
  \/ \E u \in Units, g \in Goals : Order(u, g) \/ Resume(u, g)
  \/ Signal \/ Worker \/ Quit \/ Main \/ NewBattle

Next == Step /\ UNCHANGED calm

Spec == Init /\ [][Next]_vars

(* Every thread goes on with what it has begun.                            *)
FairSpec ==
  /\ Spec
  /\ WF_vars(Worker /\ UNCHANGED calm)
  /\ WF_vars(Signal /\ UNCHANGED calm)
  /\ WF_vars(Main /\ UNCHANGED calm)

-----------------------------------------------------------------------------
TypeOK ==
  /\ calm \in BOOLEAN
  /\ tasks \in Seq(Tasks)
  /\ taskOffset \in Nat
  /\ worker \in {"off", "start", "check", "empty", "asleep", "find", "deliver", "rest"}
  /\ cur \in Tasks \cup {NoTask} /\ found \in Paths
  /\ pDead \in BOOLEAN /\ bRunning \in BOOLEAN
  /\ game \in {"play", "exit", "join", "over"}
  /\ calling \in Units \cup {NoUnit}
  /\ id \in [Units -> 0 .. MaxID] /\ goal \in [Units -> Goals \cup {NoGoal}]
  /\ requesting \in [Units -> BOOLEAN] /\ path \in [Units -> Paths]
  /\ next_ID \in 1 .. MaxID + 1

(* The index finds every request and nothing else, whatever was pushed,    *)
(* changed and popped in between: no unit has two requests, and none is    *)
(* changed in another's place.                                             *)
IndexSound ==
  /\ \A k \in DOMAIN tasks : tasks[k].uid \in DOMAIN stasks /\ Place(tasks[k].uid) = k
  /\ \A i \in DOMAIN stasks : Place(i) \in DOMAIN tasks /\ tasks[Place(i)].uid = i

(* A path is never given to another unit than the one it was asked for,    *)
(* though slots are used again while the search runs.                      *)
PathIsOwn == \A u \in Units : path[u] # NoPath /\ id[u] # 0 => path[u].uid = id[u]

(* A unit that waits for a path has a request in the queue or in the       *)
(* worker's hands: it never waits for nothing.  Not so when missions stop  *)
(* and resume (requesting_pathfinder survives stopMoving()) or when a      *)
(* battle is loaded (the queue is not saved).                              *)
Waiting(u) == Playing /\ id[u] # 0 /\ requesting[u] /\ goal[u] # NoGoal
Underway(u) ==
  \/ id[u] \in DOMAIN stasks
  \/ cur.idx = u /\ cur.uid = id[u] /\ worker \in {"find", "deliver"}
NoneForgotten == \A u \in Units : Waiting(u) => Underway(u)
WaitsForSomething == calm => NoneForgotten

(* "Send a request to the pathfinder when we need a complex path, then     *)
(* follow computed paths": every request is answered.                      *)
Answered == \A u \in Units : calm /\ Waiting(u) ~> ~ Waiting(u)

(* Only a worker that sleeps on a queue that is not empty keeps a unit     *)
(* waiting: every other interleaving answers.                              *)
Missed == worker = "asleep" /\ tasks # <<>> /\ calling = NoUnit
AnsweredUnlessMissed == (<>[] ~ Missed) => Answered

(* A battle that is left ends: the worker always stops, wherever in its    *)
(* loop it is told to.                                                     *)
Ends == game = "exit" ~> game = "over"
=============================================================================
