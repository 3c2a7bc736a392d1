--------------------------- MODULE PathfinderProofs ---------------------------
(***************************************************************************)
(* Theorems about the path finder's queue, for any number of units, goals, *)
(* IDs and requests.                                                       *)
(***************************************************************************)
EXTENDS Pathfinder, SequenceTheorems, TLAPS

(* What the index needs to be a function into request numbers.             *)
IndexTyped ==
  /\ tasks \in Seq(Tasks)
  /\ taskOffset \in Nat
  /\ stasks = [i \in DOMAIN stasks |-> stasks[i]]
  /\ \A i \in DOMAIN stasks : stasks[i] \in Int

(* What the theorems below need of the other variables.                    *)
RestTyped ==
  /\ cur \in Tasks \cup {NoTask}
  /\ found \in Paths
  /\ id \in [Units -> 0 .. MaxID]
  /\ goal \in [Units -> Goals \cup {NoGoal}]
  /\ requesting \in [Units -> BOOLEAN]
  /\ path \in [Units -> Paths]
  /\ next_ID \in 1 .. MaxID + 1
  /\ calling \in Units \cup {NoUnit}
  /\ worker \in {"off", "start", "check", "empty", "asleep", "find", "deliver", "rest"}
  /\ worker \in {"find", "deliver"} => cur \in Tasks

Typed == IndexTyped /\ RestTyped

-----------------------------------------------------------------------------
(* Taking the first request off renumbers the places of the others.        *)
LEMMA TailPlaces ==
  ASSUME NEW S, NEW s \in Seq(S), s # <<>>
  PROVE  /\ Head(s) \in S
         /\ Tail(s) \in Seq(S)
         /\ Head(s) = s[1]
         /\ 1 \in DOMAIN s
         /\ \A k \in DOMAIN Tail(s) : k + 1 \in DOMAIN s /\ Tail(s)[k] = s[k + 1]
         /\ \A k \in DOMAIN s : k # 1 => k - 1 \in DOMAIN Tail(s)
<1>1. Len(s) \in Nat /\ Len(s) >= 1 /\ DOMAIN s = 1 .. Len(s)
  BY EmptySeq
<1>2. Tail(s) \in Seq(S) /\ Len(Tail(s)) = Len(s) - 1
  BY HeadTailProperties
<1>3. DOMAIN Tail(s) = 1 .. Len(s) - 1
  BY <1>2
<1>4. \A k \in 1 .. Len(s) - 1 : Tail(s)[k] = s[k + 1]
  BY <1>1
<1>5. Head(s) \in S /\ Head(s) = s[1]
  BY <1>1
<1> QED  BY <1>1, <1>2, <1>3, <1>4, <1>5

(* Pop keeps the index exact.                                              *)
LEMMA PopSound ==
  ASSUME IndexTyped, IndexSound, Pop
  PROVE  IndexTyped' /\ IndexSound'
<1> DEFINE h == Head(tasks)
<1>1. /\ tasks \in Seq(Tasks) /\ tasks # <<>>
      /\ tasks' = Tail(tasks) /\ taskOffset' = taskOffset + 1
      /\ stasks' = [i \in DOMAIN stasks \ {h.uid} |-> stasks[i]]
      /\ taskOffset \in Nat
  BY DEF Pop, Without, IndexTyped
<1>2. /\ h \in Tasks /\ h = tasks[1] /\ 1 \in DOMAIN tasks /\ tasks' \in Seq(Tasks)
      /\ \A k \in DOMAIN tasks' : k + 1 \in DOMAIN tasks /\ tasks'[k] = tasks[k + 1]
      /\ \A k \in DOMAIN tasks : k # 1 => k - 1 \in DOMAIN tasks'
  BY <1>1, TailPlaces
<1>3. DOMAIN tasks \subseteq Int /\ DOMAIN tasks' \subseteq Int /\ \A k \in DOMAIN tasks' : k >= 1
  BY <1>1, <1>2
<1>4. DOMAIN stasks' = DOMAIN stasks \ {h.uid}
      /\ \A i \in DOMAIN stasks' : stasks'[i] = stasks[i] /\ stasks[i] \in Int
  BY <1>1 DEF IndexTyped
<1>5. IndexTyped'
  BY <1>1, <1>2, <1>4 DEF IndexTyped
<1>6. ASSUME NEW k \in DOMAIN tasks'
      PROVE  tasks'[k].uid \in DOMAIN stasks' /\ stasks'[tasks'[k].uid] - taskOffset' + 1 = k
  <2>1. tasks[k + 1].uid \in DOMAIN stasks /\ Place(tasks[k + 1].uid) = k + 1
    BY <1>2, <1>6 DEF IndexSound
  <2>2. Place(h.uid) = 1
    BY <1>2 DEF IndexSound
  <2>3. tasks[k + 1].uid # h.uid
    BY <2>1, <2>2, <1>3, <1>6
  <2>4. stasks[tasks[k + 1].uid] - taskOffset + 1 = k + 1
    BY <2>1 DEF Place
  <2>5. stasks'[tasks'[k].uid] - taskOffset' + 1 = k
    <3> DEFINE i == tasks[k + 1].uid
    <3>1. i \in DOMAIN stasks' /\ tasks'[k].uid = i
      BY <2>1, <2>3, <1>2, <1>4, <1>6
    <3>2. stasks'[i] = stasks[i] /\ stasks[i] \in Int
      BY <3>1, <1>4
    <3>3. taskOffset \in Int /\ taskOffset' = taskOffset + 1 /\ k \in Int
      BY <1>1, <1>3, <1>6
    <3>4. stasks[i] - taskOffset + 1 = k + 1
      BY <2>4
    <3> HIDE DEF i
    <3>5. stasks'[i] - taskOffset' + 1 = k
      BY <3>2, <3>3, <3>4
    <3> QED  BY <3>1, <3>5
  <2> QED  BY <2>1, <2>3, <2>5, <1>2, <1>4, <1>6 DEF Place
<1>7. ASSUME NEW i \in DOMAIN stasks'
      PROVE  Place(i)' \in DOMAIN tasks' /\ tasks'[Place(i)'].uid = i
  <2>1. Place(i) \in DOMAIN tasks /\ tasks[Place(i)].uid = i
    BY <1>4, <1>7 DEF IndexSound
  <2>2. Place(i) # 1
    BY <2>1, <1>2, <1>4, <1>7
  <2>3. Place(i)' = Place(i) - 1
    <3>1. stasks'[i] = stasks[i] /\ stasks[i] \in Int
      BY <1>4, <1>7
    <3>2. taskOffset \in Int /\ taskOffset' = taskOffset + 1
      BY <1>1
    <3> QED  BY <3>1, <3>2 DEF Place
  <2>4. Place(i)' \in DOMAIN tasks' /\ tasks'[Place(i)'] = tasks[Place(i)' + 1]
    BY <2>1, <2>2, <2>3, <1>2
  <2>5. Place(i)' + 1 = Place(i)
    BY <2>3, <2>1, <1>3
  <2> QED  BY <2>1, <2>4, <2>5
<1>8. IndexSound'
  BY <1>6, <1>7 DEF IndexSound, Place
<1> QED  BY <1>5, <1>8

(* A new or changed request keeps it exact.                                *)
LEMMA PushSound ==
  ASSUME IndexTyped, IndexSound, NEW t \in Tasks, Push(t), taskOffset' = taskOffset
  PROVE  IndexTyped' /\ IndexSound' /\ DOMAIN stasks' = DOMAIN stasks \cup {t.uid}
<1>0. /\ tasks \in Seq(Tasks) /\ taskOffset \in Nat /\ Len(tasks) \in Nat
      /\ DOMAIN tasks = 1 .. Len(tasks)
      /\ \A i \in DOMAIN stasks : stasks[i] \in Int
  BY DEF IndexTyped
<1>1. CASE t.uid \in DOMAIN stasks
  <2> DEFINE p == Place(t.uid)
  <2>1. stasks' = stasks /\ tasks' = [tasks EXCEPT ![p] = t] /\ p \in DOMAIN tasks
    BY <1>1 DEF Push, IndexSound
  <2> HIDE DEF p
  <2>2. /\ tasks' \in Seq(Tasks) /\ DOMAIN tasks' = DOMAIN tasks
        /\ \A k \in DOMAIN tasks : tasks'[k] = IF k = p THEN t ELSE tasks[k]
    BY <2>1, <1>0
  <2>3. \A i \in DOMAIN stasks : Place(i)' = Place(i)
    BY <2>1 DEF Place
  <2>4. tasks[p].uid = t.uid
    BY <1>1 DEF IndexSound, p
  <2>5. \A k \in DOMAIN tasks : tasks'[k].uid = tasks[k].uid
    BY <2>2, <2>4
  <2>6. IndexSound'
    BY <2>1, <2>2, <2>3, <2>5 DEF IndexSound, Place
  <2>7. IndexTyped'
    BY <2>1, <2>2, <1>0 DEF IndexTyped
  <2> QED  BY <2>1, <2>6, <2>7, <1>1
<1>2. CASE t.uid \notin DOMAIN stasks
  <2>1. /\ tasks' = Append(tasks, t)
        /\ stasks' = [k \in DOMAIN stasks \cup {t.uid} |->
                        IF k = t.uid THEN Len(tasks) + taskOffset ELSE stasks[k]]
    BY <1>2 DEF Push, With
  <2>2. /\ tasks' \in Seq(Tasks) /\ DOMAIN tasks' = 1 .. Len(tasks) + 1
        /\ tasks'[Len(tasks) + 1] = t
        /\ \A k \in DOMAIN tasks : tasks'[k] = tasks[k]
    BY <2>1, <1>0
  <2>3. /\ DOMAIN stasks' = DOMAIN stasks \cup {t.uid}
        /\ stasks'[t.uid] = Len(tasks) + taskOffset
        /\ \A i \in DOMAIN stasks : stasks'[i] = stasks[i]
    BY <2>1, <1>2
  <2>4. Place(t.uid)' = Len(tasks) + 1
    BY <2>3, <1>0 DEF Place
  <2>5. \A i \in DOMAIN stasks : Place(i)' = Place(i)
    BY <2>3 DEF Place
  <2>6. \A k \in DOMAIN tasks' : k \in DOMAIN tasks \/ k = Len(tasks) + 1
    BY <2>2, <1>0
  <2>7. \A k \in DOMAIN tasks' : tasks'[k].uid \in DOMAIN stasks' /\ stasks'[tasks'[k].uid] - taskOffset' + 1 = k
    <3> TAKE k \in DOMAIN tasks'
    <3>1. CASE k \in DOMAIN tasks
      <4>1. tasks[k].uid \in DOMAIN stasks /\ Place(tasks[k].uid) = k
        BY <3>1 DEF IndexSound
      <4>2. Place(tasks[k].uid)' = k
        BY <4>1, <2>5, <2>2, <3>1
      <4> QED  BY <4>1, <4>2, <2>2, <2>3, <3>1 DEF Place
    <3>2. CASE k = Len(tasks) + 1
      BY <3>2, <2>2, <2>3, <1>0
    <3> QED  BY <3>1, <3>2, <2>6
  <2>8. \A i \in DOMAIN stasks' : Place(i)' \in DOMAIN tasks' /\ tasks'[Place(i)'].uid = i
    <3> TAKE i \in DOMAIN stasks'
    <3>1. CASE i = t.uid
      BY <3>1, <2>2, <2>4, <1>0
    <3>2. CASE i \in DOMAIN stasks
      <4>1. Place(i) \in DOMAIN tasks /\ tasks[Place(i)].uid = i
        BY <3>2 DEF IndexSound
      <4> QED  BY <4>1, <3>2, <2>2, <2>5, <1>0
    <3> QED  BY <3>1, <3>2, <2>3
  <2>9. IndexTyped'
    BY <2>1, <2>2, <2>3, <1>0 DEF IndexTyped
  <2> QED  BY <2>3, <2>7, <2>8, <2>9 DEF IndexSound, Place
<1> QED  BY <1>1, <1>2

-----------------------------------------------------------------------------
(* An action that leaves the queue alone leaves all that is said of it.    *)
LEMMA QueueKept ==
  ASSUME IndexTyped, IndexSound, UNCHANGED queue
  PROVE  IndexTyped' /\ IndexSound'
BY DEF queue, IndexTyped, IndexSound, Place

LEMMA InitTyped == Init => Typed /\ IndexSound
<1> SUFFICES ASSUME Init PROVE Typed /\ IndexSound
  OBVIOUS
<1>1. tasks = <<>> /\ stasks = <<>> /\ taskOffset = 0 /\ DOMAIN stasks = {} /\ DOMAIN tasks = {}
  BY DEF Init
<1>2. IndexTyped /\ IndexSound
  BY <1>1 DEF IndexTyped, IndexSound
<1>3. RestTyped
  BY PathfinderAssumption DEF Init, RestTyped, Paths
<1> QED  BY <1>2, <1>3 DEF Typed

(* The request a unit makes is a task.                                     *)
LEMMA RequestTask ==
  ASSUME Typed, NEW u \in Units, Request(u)
  PROVE  [idx |-> u, uid |-> id[u], goal |-> goal[u]] \in Tasks
<1>1. id[u] \in 1 .. MaxID /\ goal[u] \in Goals
  BY DEF Request, Typed, RestTyped
<1> QED  BY <1>1 DEF Tasks

(* What the actions do to the index.                                       *)
LEMMA IndexStep ==
  ASSUME Typed, IndexSound, [Next]_vars
  PROVE  IndexTyped' /\ IndexSound'
<1> USE DEF Typed
<1>1. ASSUME NEW u \in Units, Request(u)
      PROVE  IndexTyped' /\ IndexSound'
  BY <1>1, RequestTask, PushSound DEF Request
<1>2. CASE Take
  <2>1. CASE tasks = <<>>
    BY <1>2, <2>1, QueueKept DEF Take
  <2>2. CASE tasks # <<>>
    BY <1>2, <2>2, PopSound DEF Take
  <2> QED  BY <2>1, <2>2
<1>3. CASE Clear
  <2>1. tasks' = <<>> /\ stasks' = <<>> /\ taskOffset' = 0 /\ DOMAIN stasks' = {} /\ DOMAIN tasks' = {}
    BY <1>3 DEF Clear
  <2> QED  BY <2>1 DEF IndexTyped, IndexSound
<1>4. ASSUME UNCHANGED queue
      PROVE  IndexTyped' /\ IndexSound'
  BY <1>4, QueueKept
<1>5. CASE UNCHANGED vars
  BY <1>4, <1>5 DEF vars
<1>6. ASSUME NEW u \in Units, Creation(u) \/ Death(u) \/ Halt(u) \/ Arrive(u)
      PROVE  IndexTyped' /\ IndexSound'
  BY <1>4, <1>6 DEF Creation, Death, Halt, Arrive
<1>7. ASSUME NEW u \in Units, NEW g \in Goals, Order(u, g) \/ Resume(u, g)
      PROVE  IndexTyped' /\ IndexSound'
  BY <1>4, <1>7 DEF Order, Resume
<1>8. CASE Signal \/ Start \/ Leave \/ Sleep \/ Find \/ Deliver \/ Rest
  BY <1>4, <1>8 DEF Signal, Start, Leave, Sleep, Find, Deliver, Rest
<1>9. CASE Quit \/ WakeUntilStopped \/ NewBattle
  BY <1>4, <1>9 DEF Quit, WakeUntilStopped, NewBattle
<1> QED
  BY <1>1, <1>2, <1>3, <1>5, <1>6, <1>7, <1>8, <1>9 DEF Next, Step, Worker, Main

(* What they do to the other variables.                                    *)
LEMMA RestStep ==
  ASSUME Typed, [Next]_vars
  PROVE  RestTyped'
<1> USE PathfinderAssumption DEF Typed, RestTyped, queue, thread, unit
<1>1. ASSUME NEW u \in Units, Creation(u) PROVE RestTyped'
  BY <1>1 DEF Creation, Paths
<1>2. ASSUME NEW u \in Units, Death(u) PROVE RestTyped'
  BY <1>2 DEF Death
<1>3. ASSUME NEW u \in Units, Halt(u) PROVE RestTyped'
  BY <1>3 DEF Halt, Paths
<1>4. ASSUME NEW u \in Units, Request(u) PROVE RestTyped'
  BY <1>4 DEF Request, Paths
<1>5. ASSUME NEW u \in Units, Arrive(u) PROVE RestTyped'
  BY <1>5 DEF Arrive, Paths
<1>6. ASSUME NEW u \in Units, NEW g \in Goals, Order(u, g) PROVE RestTyped'
  BY <1>6 DEF Order, Paths
<1>7. ASSUME NEW u \in Units, NEW g \in Goals, Resume(u, g) PROVE RestTyped'
  BY <1>7 DEF Resume
<1>8. CASE Signal
  BY <1>8 DEF Signal, Wake
<1>9. CASE Start
  BY <1>9 DEF Start
<1>10. CASE Take
  <2>1. tasks # <<>> => Head(tasks) \in Tasks
    BY TailPlaces DEF IndexTyped
  <2> QED  BY <1>10, <2>1 DEF Take, Pop
<1>11. CASE Leave \/ Sleep \/ Rest
  <2>1. NoPath \in Paths
    BY DEF Paths
  <2>2. UNCHANGED <<id, goal, requesting, path, next_ID, calling>>
    BY <1>11 DEF Leave, Sleep, Rest
  <2>3. /\ cur' = cur \/ cur' = NoTask
        /\ found' = found \/ found' = NoPath
        /\ worker' \in {"off", "asleep", "check"}
    BY <1>11 DEF Leave, Sleep, Rest, Stops
  <2> QED  BY <2>1, <2>2, <2>3
<1>12. CASE Find
  <2>1. cur \in Tasks /\ [uid |-> cur.uid, goal |-> cur.goal] \in Paths /\ NoPath \in Paths
    BY <1>12 DEF Find, Tasks, Paths
  <2> QED  BY <1>12, <2>1 DEF Find
<1>13. CASE Deliver
  BY <1>13 DEF Deliver, Tasks
<1>14. CASE Quit \/ WakeUntilStopped \/ Clear
  <2>1. UNCHANGED <<id, goal, requesting, path, next_ID, calling, cur, found>>
    BY <1>14 DEF Quit, WakeUntilStopped, Clear
  <2>2. worker' = worker \/ worker' = "check"
    BY <1>14 DEF Quit, WakeUntilStopped, Clear, Wake
  <2> QED  BY <2>1, <2>2
<1>15. CASE NewBattle
  <2>1. UNCHANGED <<worker, cur, found, calling>>
    BY <1>15 DEF NewBattle
  <2>2. CASE UNCHANGED <<unit, next_ID>>
    BY <2>1, <2>2
  <2>3. CASE ~ UNCHANGED <<unit, next_ID>>
    <3>1. /\ id' \in [Units -> 0 .. MaxID] /\ goal' \in [Units -> Goals \cup {NoGoal}]
          /\ requesting' \in [Units -> BOOLEAN] /\ next_ID' \in 1 .. MaxID + 1
      <4>1. /\ id' = [u \in Units |-> 0] /\ goal' = [u \in Units |-> NoGoal]
            /\ requesting' = [u \in Units |-> FALSE] /\ next_ID' = 1
        BY <1>15, <2>3 DEF NewBattle
      <4>2. 0 \in 0 .. MaxID /\ 1 \in 1 .. MaxID + 1
        BY PathfinderAssumption
      <4> QED  BY <4>1, <4>2
    <3>2. NoPath \in Paths /\ path' = [u \in Units |-> NoPath]
      BY <1>15, <2>3 DEF NewBattle, Paths
    <3> QED  BY <2>1, <3>1, <3>2
  <2> QED  BY <2>2, <2>3
<1>16. CASE UNCHANGED vars
  BY <1>16 DEF vars
<1> QED
  BY <1>1, <1>2, <1>3, <1>4, <1>5, <1>6, <1>7, <1>8, <1>9, <1>10, <1>11, <1>12,
     <1>13, <1>14, <1>15, <1>16 DEF Next, Step, Worker, Main

(* The index is exact: every request in the queue is found under its ID at *)
(* its place and the index names nothing else.                             *)
THEOREM IndexExact == Spec => []IndexSound
<1>1. Init => Typed /\ IndexSound
  BY InitTyped
<1>2. Typed /\ IndexSound /\ [Next]_vars => (Typed /\ IndexSound)'
  BY IndexStep, RestStep DEF Typed
<1> QED  BY <1>1, <1>2, PTL DEF Spec

(* The flags of the thread and of the battle.                              *)
FlagsTyped ==
  /\ calm \in BOOLEAN /\ pDead \in BOOLEAN /\ bRunning \in BOOLEAN
  /\ game \in {"play", "exit", "join", "over"}

LEMMA FlagsStep ==
  ASSUME FlagsTyped, [Next]_vars
  PROVE  FlagsTyped'
<1> USE DEF FlagsTyped, thread
<1>1. calm' \in BOOLEAN
  BY DEF Next, vars
<1>2. ASSUME UNCHANGED <<pDead, bRunning, game>> PROVE FlagsTyped'
  BY <1>1, <1>2
<1>3. ASSUME NEW u \in Units, Creation(u) \/ Death(u) \/ Halt(u) \/ Arrive(u) PROVE FlagsTyped'
  BY <1>2, <1>3 DEF Creation, Death, Halt, Arrive
<1>4. ASSUME NEW u \in Units, NEW g \in Goals, Order(u, g) \/ Resume(u, g) PROVE FlagsTyped'
  BY <1>2, <1>4 DEF Order, Resume
<1>5. ASSUME NEW u \in Units, Request(u) PROVE FlagsTyped'
  BY <1>1, <1>5 DEF Request
<1>6. CASE Signal \/ Take \/ Sleep \/ Find \/ Deliver
  BY <1>2, <1>6 DEF Signal, Take, Sleep, Find, Deliver
<1>7. CASE Start \/ Leave \/ Rest
  BY <1>1, <1>7 DEF Start, Leave, Rest, Stops
<1>8. CASE Quit \/ WakeUntilStopped \/ Clear \/ NewBattle
  BY <1>1, <1>8 DEF Quit, WakeUntilStopped, Clear, NewBattle
<1>9. CASE UNCHANGED vars
  BY <1>2, <1>9 DEF vars
<1> QED
  BY <1>3, <1>4, <1>5, <1>6, <1>7, <1>8, <1>9 DEF Next, Step, Worker, Main

(* The queue, the thread, the units and the battle stay in their ranges.   *)
THEOREM PathfinderTypeCorrect == Spec => []TypeOK
<1>1. Init => Typed /\ IndexSound /\ FlagsTyped
  BY InitTyped DEF Init, FlagsTyped
<1>2. Typed /\ IndexSound /\ FlagsTyped /\ [Next]_vars => (Typed /\ IndexSound /\ FlagsTyped)'
  BY IndexStep, RestStep, FlagsStep DEF Typed
<1>3. Typed /\ FlagsTyped => TypeOK
  BY DEF Typed, IndexTyped, RestTyped, FlagsTyped, TypeOK
<1> QED  BY <1>1, <1>2, <1>3, PTL DEF Spec

-----------------------------------------------------------------------------
(* The worker holds a path only while it has one to deliver, and it is one *)
(* for the request it holds.                                               *)
FoundForCur ==
  /\ worker \notin {"deliver", "rest"} => found = NoPath
  /\ found # NoPath => found.uid = cur.uid

(* The thread that is not running has left proc(), except while the main   *)
(* thread waits for it.                                                    *)
DeadIsOff ==
  /\ game \in {"play", "over"} /\ pDead => worker = "off"
  /\ game # "play" => pDead
  /\ game = "over" => tasks = <<>>

LEMMA DeadStep ==
  ASSUME DeadIsOff, [Next]_vars
  PROVE  DeadIsOff'
<1> USE DEF DeadIsOff, queue, thread, Playing
<1>1. ASSUME NEW u \in Units, Creation(u) \/ Death(u) \/ Halt(u) \/ Arrive(u) PROVE DeadIsOff'
  BY <1>1 DEF Creation, Death, Halt, Arrive
<1>2. ASSUME NEW u \in Units, NEW g \in Goals, Order(u, g) \/ Resume(u, g) PROVE DeadIsOff'
  BY <1>2 DEF Order, Resume
<1>3. ASSUME NEW u \in Units, Request(u) PROVE DeadIsOff'
  BY <1>3 DEF Request
<1>4. CASE Signal \/ WakeUntilStopped
  BY <1>4 DEF Signal, WakeUntilStopped, Wake
<1>5. CASE Start \/ Leave \/ Sleep \/ Find \/ Deliver \/ Rest
  BY <1>5 DEF Start, Leave, Sleep, Find, Deliver, Rest, Stops
<1>6. CASE Take
  BY <1>6 DEF Take, Pop
<1>7. CASE Quit \/ Clear \/ NewBattle
  BY <1>7 DEF Quit, Clear, NewBattle
<1>8. CASE UNCHANGED vars
  BY <1>8 DEF vars
<1> QED
  BY <1>1, <1>2, <1>3, <1>4, <1>5, <1>6, <1>7, <1>8 DEF Next, Step, Worker, Main

(* A slot that is used again does not inherit a path: the argument is the  *)
(* second look at the unit's ID, under the unit's lock, after the search.  *)
LEMMA OwnStep ==
  ASSUME Typed, DeadIsOff, FoundForCur, PathIsOwn, [Next]_vars
  PROVE  FoundForCur' /\ PathIsOwn'
<1> USE DEF queue, thread, unit
<1>1. ASSUME UNCHANGED <<worker, found, cur>> PROVE FoundForCur'
  BY <1>1 DEF FoundForCur
<1>2. ASSUME UNCHANGED <<path, id>> PROVE PathIsOwn'
  BY <1>2 DEF PathIsOwn
<1>3. ASSUME NEW u \in Units, Creation(u) \/ Death(u) \/ Halt(u) \/ Arrive(u) PROVE FoundForCur'
  BY <1>1, <1>3 DEF Creation, Death, Halt, Arrive
<1>4. ASSUME NEW u \in Units, NEW g \in Goals, Order(u, g) \/ Resume(u, g) PROVE FoundForCur'
  BY <1>1, <1>4 DEF Order, Resume
<1>5. ASSUME NEW u \in Units, NEW v \in Units, PathIsOwn,
             id \in [Units -> 0 .. MaxID], path \in [Units -> Paths],
             id' = id \/ id' = [id EXCEPT ![u] = 0] \/ path' = [path EXCEPT ![u] = NoPath],
             path' = path \/ path' = [path EXCEPT ![u] = NoPath],
             \A w \in Units \ {u} : id'[w] = id[w],
             path'[v] # NoPath, id'[v] # 0
      PROVE  path'[v].uid = id'[v]
  BY <1>5 DEF PathIsOwn
<1>6. ASSUME NEW u \in Units, Creation(u) \/ Death(u) \/ Halt(u) \/ Arrive(u) \/ Request(u) PROVE PathIsOwn'
  <2>1. /\ id' = id \/ id' = [id EXCEPT ![u] = 0] \/ path' = [path EXCEPT ![u] = NoPath]
        /\ path' = path \/ path' = [path EXCEPT ![u] = NoPath]
        /\ \A w \in Units \ {u} : id'[w] = id[w]
    BY <1>6 DEF Creation, Death, Halt, Arrive, Request, Typed, RestTyped
  <2> QED  BY <2>1, <1>5 DEF PathIsOwn, Typed, RestTyped
<1>7. ASSUME NEW u \in Units, NEW g \in Goals, Order(u, g) \/ Resume(u, g) PROVE PathIsOwn'
  BY <1>7 DEF Order, Resume, PathIsOwn, Typed, RestTyped
<1>8. ASSUME NEW u \in Units, Request(u) PROVE FoundForCur'
  BY <1>8 DEF Request, FoundForCur, DeadIsOff, Playing
<1>9. CASE Deliver
  <2>1. FoundForCur'
    BY <1>9 DEF Deliver, FoundForCur
  <2>2. ASSUME NEW v \in Units, path'[v] # NoPath, id'[v] # 0 PROVE path'[v].uid = id'[v]
    <3>1. CASE path'[v] = path[v]
      BY <1>9, <2>2, <3>1 DEF Deliver, PathIsOwn
    <3>2. CASE path'[v] # path[v]
      <4>1. v = cur.idx /\ path'[v] = found /\ id[v] = cur.uid
        BY <1>9, <3>2 DEF Deliver, Typed, RestTyped
      <4> QED  BY <1>9, <2>2, <4>1 DEF FoundForCur, Deliver
    <3> QED  BY <3>1, <3>2
  <2> QED  BY <2>1, <2>2 DEF PathIsOwn
<1>10. CASE Start \/ Leave \/ Sleep \/ Find \/ Rest
  <2>1. PathIsOwn'
    BY <1>2, <1>10 DEF Start, Leave, Sleep, Find, Rest
  <2>2. FoundForCur'
    BY <1>10 DEF Start, Leave, Sleep, Find, Rest, Stops, FoundForCur
  <2> QED  BY <2>1, <2>2
<1>11. CASE Take
  <2>1. PathIsOwn'
    BY <1>2, <1>11 DEF Take
  <2>2. FoundForCur'
    BY <1>11 DEF Take, FoundForCur
  <2> QED  BY <2>1, <2>2
<1>12. CASE Signal \/ WakeUntilStopped
  <2>1. worker' = worker \/ (worker = "asleep" /\ worker' = "check")
    BY <1>12 DEF Signal, WakeUntilStopped, Wake
  <2>2. UNCHANGED <<found, cur, path, id>>
    BY <1>12 DEF Signal, WakeUntilStopped
  <2> QED  BY <1>2, <2>1, <2>2 DEF FoundForCur
<1>13. CASE Quit \/ Clear
  BY <1>1, <1>2, <1>13 DEF Quit, Clear
<1>14. CASE NewBattle
  BY <1>1, <1>14 DEF NewBattle, PathIsOwn
<1>15. CASE UNCHANGED vars
  BY <1>1, <1>2, <1>15 DEF vars
<1> QED
  BY <1>3, <1>4, <1>6, <1>7, <1>8, <1>9, <1>10, <1>11, <1>12, <1>13, <1>14, <1>15
  DEF Next, Step, Worker, Main

(* A path is never given to another unit than the one it was asked for.    *)
THEOREM PathsAreOwn == Spec => []PathIsOwn
<1>1. Init => Typed /\ IndexSound /\ DeadIsOff /\ FoundForCur /\ PathIsOwn
  BY InitTyped DEF Init, DeadIsOff, FoundForCur, PathIsOwn
<1>2. Typed /\ IndexSound /\ DeadIsOff /\ FoundForCur /\ PathIsOwn /\ [Next]_vars
        => (Typed /\ IndexSound /\ DeadIsOff /\ FoundForCur /\ PathIsOwn)'
  BY IndexStep, RestStep, DeadStep, OwnStep DEF Typed
<1> QED  BY <1>1, <1>2, PTL DEF Spec

-----------------------------------------------------------------------------
(* The IDs in use are those of one unit each, and a request carries the ID *)
(* of the slot it is for, as long as a unit has that ID.                   *)
IdsOf ==
  /\ \A u \in Units : id[u] < next_ID
  /\ \A u, v \in Units : id[u] = id[v] /\ id[u] # 0 => u = v
TaskFits(t) ==
  /\ t.uid < next_ID
  /\ \A u \in Units : id[u] = t.uid => t.idx = u
TasksFit ==
  /\ \A k \in DOMAIN tasks : TaskFits(tasks[k])
  /\ worker \in {"find", "deliver", "rest"} \/ cur = NoTask
  /\ cur \in Tasks => TaskFits(cur)

(* Nothing but a creation gives an ID.                                     *)
LEMMA FitKept ==
  ASSUME Typed, NEW t \in Tasks, TaskFits(t),
         \/ UNCHANGED <<id, next_ID>>
         \/ \E u \in Units : Creation(u) \/ Death(u)
  PROVE  TaskFits(t)'
<1>1. t.uid \in Nat /\ t.uid # 0 /\ next_ID \in Nat
  BY PathfinderAssumption DEF Tasks, Typed, RestTyped
<1>2. CASE UNCHANGED <<id, next_ID>>
  BY <1>2 DEF TaskFits
<1>3. ASSUME NEW u \in Units, Creation(u) PROVE TaskFits(t)'
  <2>1. /\ next_ID' = next_ID + 1
        /\ \A v \in Units : id'[v] = IF v = u THEN next_ID ELSE id[v]
    BY <1>3 DEF Creation, Typed, RestTyped
  <2> QED  BY <1>1, <2>1 DEF TaskFits
<1>4. ASSUME NEW u \in Units, Death(u) PROVE TaskFits(t)'
  <2>1. /\ next_ID' = next_ID
        /\ \A v \in Units : id'[v] = IF v = u THEN 0 ELSE id[v]
    BY <1>4 DEF Death, Typed, RestTyped
  <2> QED  BY <1>1, <2>1 DEF TaskFits
<1> QED  BY <1>2, <1>3, <1>4

LEMMA IdsStep ==
  ASSUME Typed, IdsOf, [Next]_vars
  PROVE  IdsOf'
<1> USE DEF unit
<1>0. next_ID \in Nat /\ \A u \in Units : id[u] \in Nat
  BY PathfinderAssumption DEF Typed, RestTyped
<1>1. ASSUME NEW u \in Units, Creation(u) PROVE IdsOf'
  <2>1. /\ next_ID' = next_ID + 1
        /\ \A v \in Units : id'[v] = IF v = u THEN next_ID ELSE id[v]
    BY <1>1 DEF Creation, Typed, RestTyped
  <2> QED  BY <1>0, <2>1 DEF IdsOf
<1>2. ASSUME NEW u \in Units, Death(u) PROVE IdsOf'
  <2>1. /\ next_ID' = next_ID
        /\ \A v \in Units : id'[v] = IF v = u THEN 0 ELSE id[v]
    BY <1>2 DEF Death, Typed, RestTyped
  <2> QED  BY <1>0, <2>1 DEF IdsOf, Typed, RestTyped
<1>3. ASSUME UNCHANGED <<id, next_ID>> PROVE IdsOf'
  BY <1>3 DEF IdsOf
<1>4. CASE NewBattle
  <2>1. CASE UNCHANGED <<unit, next_ID>>
    BY <1>3, <1>4, <2>1
  <2>2. CASE ~ UNCHANGED <<unit, next_ID>>
    BY <1>4, <2>2 DEF NewBattle, IdsOf
  <2> QED  BY <2>1, <2>2
<1>5. ASSUME NEW u \in Units, Halt(u) \/ Arrive(u) \/ Request(u) PROVE IdsOf'
  BY <1>3, <1>5 DEF Halt, Arrive, Request
<1>6. ASSUME NEW u \in Units, NEW g \in Goals, Order(u, g) \/ Resume(u, g) PROVE IdsOf'
  BY <1>3, <1>6 DEF Order, Resume
<1>7. CASE Signal \/ Worker
  BY <1>3, <1>7 DEF Signal, Worker, Start, Take, Leave, Sleep, Find, Deliver, Rest
<1>8. CASE Quit \/ Main
  BY <1>3, <1>8 DEF Quit, Main, WakeUntilStopped, Clear
<1>9. CASE UNCHANGED vars
  BY <1>3, <1>9 DEF vars
<1> QED  BY <1>1, <1>2, <1>4, <1>5, <1>6, <1>7, <1>8, <1>9 DEF Next, Step

(* Push adds or replaces, it does not invent.                              *)
LEMMA PushMembers ==
  ASSUME IndexTyped, IndexSound, NEW t \in Tasks, Push(t)
  PROVE  \A k \in DOMAIN tasks' : tasks'[k] = t \/ \E j \in DOMAIN tasks : tasks'[k] = tasks[j]
<1>1. CASE t.uid \in DOMAIN stasks
  <2> DEFINE p == Place(t.uid)
  <2>1. tasks' = [tasks EXCEPT ![p] = t]
    BY <1>1 DEF Push
  <2> HIDE DEF p
  <2> QED  BY <2>1 DEF IndexTyped
<1>2. CASE t.uid \notin DOMAIN stasks
  BY <1>2 DEF Push, IndexTyped
<1> QED  BY <1>1, <1>2

LEMMA FitStep ==
  ASSUME Typed, IndexSound, DeadIsOff, IdsOf, TasksFit, [Next]_vars
  PROVE  TasksFit'
<1> USE DEF queue, thread, unit
<1>0. /\ \A k \in DOMAIN tasks : tasks[k] \in Tasks /\ TaskFits(tasks[k])
      /\ cur \in Tasks => TaskFits(cur)
      /\ NoTask \notin Tasks
  <2>1. \A k \in DOMAIN tasks : tasks[k] \in Tasks
    BY DEF Typed, IndexTyped
  <2>2. NoTask \notin Tasks
    BY PathfinderAssumption DEF Tasks, NoTask
  <2> QED  BY <2>1, <2>2 DEF TasksFit
<1>1. ASSUME NEW u \in Units, Creation(u) \/ Death(u) PROVE TasksFit'
  <2>1. UNCHANGED <<tasks, cur, worker>>
    BY <1>1 DEF Creation, Death
  <2>2. \A t \in Tasks : TaskFits(t) => TaskFits(t)'
    BY <1>1, FitKept
  <2> QED  BY <1>0, <2>1, <2>2 DEF TasksFit
<1>2. ASSUME UNCHANGED <<tasks, cur, id, next_ID>>,
             worker' \in {"find", "deliver", "rest"} \/ cur = NoTask
      PROVE  TasksFit'
  BY <1>2 DEF TasksFit, TaskFits
<1>3. ASSUME UNCHANGED <<tasks, cur, id, next_ID, worker>> PROVE TasksFit'
  BY <1>2, <1>3 DEF TasksFit
<1>4. ASSUME NEW u \in Units, Halt(u) \/ Arrive(u) PROVE TasksFit'
  BY <1>3, <1>4 DEF Halt, Arrive
<1>5. ASSUME NEW u \in Units, NEW g \in Goals, Order(u, g) \/ Resume(u, g) PROVE TasksFit'
  BY <1>3, <1>5 DEF Order, Resume
<1>6. ASSUME NEW u \in Units, Request(u) PROVE TasksFit'
  <2> DEFINE t == [idx |-> u, uid |-> id[u], goal |-> goal[u]]
  <2>1. t \in Tasks
    BY <1>6, RequestTask
  <2>2. TaskFits(t)
    BY <1>6 DEF Request, TaskFits, IdsOf
  <2>3. UNCHANGED <<cur, id, next_ID>> /\ Push(t)
    BY <1>6 DEF Request
  <2>4. worker' = worker \/ (worker = "off" /\ worker' = "start")
    BY <1>6 DEF Request, DeadIsOff, Playing
  <2> HIDE DEF t
  <2>5. \A k \in DOMAIN tasks' : tasks'[k] = t \/ \E j \in DOMAIN tasks : tasks'[k] = tasks[j]
    BY <2>1, <2>3, PushMembers DEF Typed
  <2>6. \A k \in DOMAIN tasks' : TaskFits(tasks'[k])
    BY <1>0, <2>2, <2>5
  <2> QED  BY <2>3, <2>4, <2>6 DEF TasksFit, TaskFits
<1>7. CASE Take
  <2>1. CASE tasks = <<>>
    BY <1>2, <1>7, <2>1 DEF Take, TasksFit
  <2>2. CASE tasks # <<>>
    <3>1. /\ Head(tasks) = tasks[1] /\ 1 \in DOMAIN tasks
          /\ \A k \in DOMAIN Tail(tasks) : k + 1 \in DOMAIN tasks /\ Tail(tasks)[k] = tasks[k + 1]
      BY <2>2, TailPlaces DEF Typed, IndexTyped
    <3>2. cur' = Head(tasks) /\ tasks' = Tail(tasks) /\ worker' = "find" /\ UNCHANGED <<id, next_ID>>
      BY <1>7, <2>2 DEF Take, Pop
    <3>3. TaskFits(cur') /\ \A k \in DOMAIN tasks' : TaskFits(tasks'[k])
      BY <1>0, <3>1, <3>2
    <3> QED  BY <3>2, <3>3 DEF TasksFit, TaskFits
  <2> QED  BY <2>1, <2>2
<1>8. CASE Leave \/ Rest
  <2>1. cur' = NoTask /\ UNCHANGED <<tasks, id, next_ID>>
    BY <1>8 DEF Leave, Rest, Stops
  <2> QED  BY <1>0, <2>1 DEF TasksFit, TaskFits
<1>9. CASE Start \/ Sleep \/ Find \/ Deliver
  <2>1. UNCHANGED <<tasks, cur, id, next_ID>>
    BY <1>9 DEF Start, Sleep, Find, Deliver
  <2>2. worker' \in {"find", "deliver", "rest"} \/ cur = NoTask
    BY <1>9 DEF Start, Sleep, Find, Deliver, TasksFit
  <2> QED  BY <1>2, <2>1, <2>2
<1>10. CASE Signal \/ WakeUntilStopped
  <2>1. UNCHANGED <<tasks, cur, id, next_ID>>
    BY <1>10 DEF Signal, WakeUntilStopped
  <2>2. worker' = worker \/ (worker = "asleep" /\ worker' = "check")
    BY <1>10 DEF Signal, WakeUntilStopped, Wake
  <2> QED  BY <1>2, <2>1, <2>2 DEF TasksFit
<1>11. CASE Quit
  BY <1>3, <1>11 DEF Quit
<1>12. CASE Clear
  <2>1. tasks' = <<>> /\ DOMAIN tasks' = {} /\ UNCHANGED <<cur, id, next_ID, worker>>
    BY <1>12 DEF Clear
  <2> QED  BY <2>1 DEF TasksFit, TaskFits
<1>13. CASE NewBattle
  <2>1. worker = "off" /\ tasks = <<>> /\ UNCHANGED <<worker, tasks, cur>> /\ DOMAIN tasks' = {}
    BY <1>13 DEF NewBattle, DeadIsOff
  <2>2. cur' = NoTask
    BY <2>1 DEF TasksFit
  <2> QED  BY <1>0, <2>1, <2>2 DEF TasksFit
<1>14. CASE UNCHANGED vars
  BY <1>3, <1>14 DEF vars
<1> QED
  BY <1>1, <1>4, <1>5, <1>6, <1>7, <1>8, <1>9, <1>10, <1>11, <1>12, <1>13, <1>14
  DEF Next, Step, Worker, Main

(* A unit that waits has a request under way, if missions neither stop nor *)
(* resume their moves and no saved battle is loaded.                       *)
LEMMA WaitStep ==
  ASSUME calm,
         Typed, IndexSound, DeadIsOff, TasksFit, NoneForgotten, [Next]_vars
  PROVE  NoneForgotten'
<1> USE DEF queue, thread, unit, NoneForgotten
<1>1. ASSUME NEW v \in Units,
             Waiting(v)' => Waiting(v) /\ id'[v] = id[v],
             DOMAIN stasks \subseteq DOMAIN stasks', cur' = cur,
             worker \in {"find", "deliver"} => worker' \in {"find", "deliver"}
      PROVE  Waiting(v)' => Underway(v)'
  BY <1>1 DEF Underway
<1>2. ASSUME NEW u \in Units, Creation(u) \/ Death(u) \/ Arrive(u) PROVE NoneForgotten'
  <2>1. UNCHANGED <<stasks, cur, worker, game>>
    BY <1>2 DEF Creation, Death, Arrive
  <2>2. ASSUME NEW v \in Units PROVE Waiting(v)' => Waiting(v) /\ id'[v] = id[v]
    BY <1>2, <2>1 DEF Creation, Death, Arrive, Waiting, Playing, Typed, RestTyped
  <2> QED  BY <1>1, <2>1, <2>2
<1>3. ASSUME NEW u \in Units, NEW g \in Goals, Order(u, g) PROVE NoneForgotten'
  <2>1. UNCHANGED <<stasks, cur, worker, game>>
    BY <1>3 DEF Order
  <2>2. ASSUME NEW v \in Units PROVE Waiting(v)' => Waiting(v) /\ id'[v] = id[v]
    BY <1>3, <2>1 DEF Order, Waiting, Playing, Typed, RestTyped
  <2> QED  BY <1>1, <2>1, <2>2
<1>4. ASSUME NEW u \in Units, Request(u) PROVE NoneForgotten'
  <2>1. /\ DOMAIN stasks' = DOMAIN stasks \cup {id[u]}
        /\ UNCHANGED <<cur, id, goal, game>>
        /\ worker \in {"find", "deliver"} => worker' = worker
        /\ \A v \in Units \ {u} : requesting'[v] = requesting[v]
    <3>1. [idx |-> u, uid |-> id[u], goal |-> goal[u]] \in Tasks
      BY <1>4, RequestTask
    <3>2. DOMAIN stasks' = DOMAIN stasks \cup {id[u]}
      BY <1>4, <3>1, PushSound DEF Request, Typed
    <3> QED  BY <1>4, <3>2 DEF Request, DeadIsOff, Playing, Typed, RestTyped
  <2>2. Underway(u)'
    BY <2>1 DEF Underway
  <2>3. ASSUME NEW v \in Units \ {u} PROVE Waiting(v)' => Underway(v)'
    BY <1>1, <2>1 DEF Waiting, Playing
  <2> QED  BY <2>2, <2>3
<1>5. ASSUME UNCHANGED <<stasks, cur, game, unit>>,
             worker \in {"find", "deliver"} => worker' \in {"find", "deliver"}
      PROVE  NoneForgotten'
  BY <1>5, <1>1 DEF Waiting, Playing
<1>6. CASE Signal \/ WakeUntilStopped
  <2>1. UNCHANGED <<stasks, cur, unit>> /\ (worker = "asleep" \/ worker' = worker)
    BY <1>6 DEF Signal, WakeUntilStopped, Wake
  <2>2. CASE Signal
    BY <1>5, <2>1, <2>2 DEF Signal
  <2>3. CASE WakeUntilStopped
    BY <2>3 DEF WakeUntilStopped, Waiting, Playing
  <2> QED  BY <1>6, <2>2, <2>3
<1>7. CASE Start \/ Sleep
  BY <1>5, <1>7 DEF Start, Sleep
<1>8. CASE Leave \/ Rest
  <2>1. UNCHANGED <<stasks, game, unit>> /\ worker \notin {"find", "deliver"}
    BY <1>8 DEF Leave, Rest
  <2> QED  BY <2>1 DEF Underway, Waiting, Playing
<1>9. CASE Take
  <2>1. CASE tasks = <<>>
    BY <1>5, <1>9, <2>1 DEF Take
  <2>2. CASE tasks # <<>>
    <3> DEFINE h == Head(tasks)
    <3>1. h \in Tasks /\ TaskFits(h)
      BY <2>2, TailPlaces DEF Typed, IndexTyped, TasksFit
    <3>2. /\ cur' = h /\ worker' = "find" /\ UNCHANGED <<game, unit>>
          /\ DOMAIN stasks' = DOMAIN stasks \ {h.uid}
          /\ worker = "check"
      BY <1>9, <2>2 DEF Take, Pop, Without
    <3> HIDE DEF h
    <3>3. ASSUME NEW v \in Units, Waiting(v)' PROVE Underway(v)'
      <4>1. id[v] \in DOMAIN stasks
        BY <3>2, <3>3 DEF Waiting, Playing, Underway
      <4>2. CASE id[v] = h.uid
        BY <3>1, <3>2, <4>2 DEF TaskFits, Underway
      <4>3. CASE id[v] # h.uid
        BY <3>2, <4>1, <4>3 DEF Underway
      <4> QED  BY <4>2, <4>3
    <3> QED  BY <3>3
  <2> QED  BY <2>1, <2>2
<1>10. CASE Find
  <2>1. UNCHANGED <<stasks, cur, game, unit>> /\ worker = "find"
    BY <1>10 DEF Find
  <2>2. CASE id[cur.idx] = cur.uid
    BY <1>5, <1>10, <2>1, <2>2 DEF Find
  <2>3. CASE id[cur.idx] # cur.uid
    BY <2>1, <2>3 DEF Underway, Waiting, Playing
  <2> QED  BY <2>2, <2>3
<1>11. CASE Deliver
  <2>1. UNCHANGED <<stasks, cur, game, id, goal>> /\ cur \in Tasks /\ worker = "deliver"
    BY <1>11 DEF Deliver, Typed, RestTyped
  <2>2. ASSUME NEW v \in Units, Waiting(v)' PROVE Underway(v)'
    <3>1. Waiting(v)
      BY <1>11, <2>1, <2>2 DEF Deliver, Waiting, Playing, Typed, RestTyped
    <3>2. id[v] \notin DOMAIN stasks => cur.idx = v /\ cur.uid = id[v]
      BY <3>1 DEF Underway
    <3>3. cur.idx = v /\ cur.uid = id[v] => ~ Waiting(v)'
      BY <1>11, <2>1, <3>1 DEF Deliver, Waiting, Typed, RestTyped
    <3> QED  BY <2>1, <2>2, <3>2, <3>3 DEF Underway
  <2> QED  BY <2>2
<1>12. CASE Quit \/ Clear
  BY <1>12 DEF Quit, Clear, Waiting, Playing
<1>13. CASE NewBattle
  BY <1>13 DEF NewBattle, Waiting
<1>14. CASE UNCHANGED vars
  BY <1>5, <1>14 DEF vars
<1>15. ASSUME NEW u \in Units PROVE ~ Halt(u) /\ \A g \in Goals : ~ Resume(u, g)
  BY DEF Halt, Resume
<1> QED
  BY <1>2, <1>3, <1>4, <1>6, <1>7, <1>8, <1>9, <1>10, <1>11, <1>12, <1>13, <1>14, <1>15
  DEF Next, Step, Worker, Main

(* No unit waits for nothing, for any number of units and requests, in the *)
(* games in which missions do not stop and resume and battles are not      *)
(* loaded.                                                                 *)
THEOREM NobodyForgotten == Spec => []WaitsForSomething
<1> DEFINE I == Typed /\ IndexSound /\ DeadIsOff /\ IdsOf /\ TasksFit /\ WaitsForSomething
<1>1. Init => I
  <2> SUFFICES ASSUME Init PROVE I
    OBVIOUS
  <2>1. Typed /\ IndexSound
    BY InitTyped
  <2>2. DeadIsOff /\ IdsOf /\ WaitsForSomething
    BY DEF Init, DeadIsOff, IdsOf, WaitsForSomething, NoneForgotten, Waiting
  <2>3. tasks = <<>> /\ DOMAIN tasks = {} /\ cur = NoTask /\ NoTask \notin Tasks
    BY PathfinderAssumption DEF Init, Tasks, NoTask
  <2>4. TasksFit
    BY <2>3 DEF TasksFit
  <2> QED  BY <2>1, <2>2, <2>4
<1>2. I /\ [Next]_vars => I'
  <2> SUFFICES ASSUME I, [Next]_vars PROVE I'
    OBVIOUS
  <2>1. (Typed /\ IndexSound /\ DeadIsOff /\ IdsOf /\ TasksFit)'
    BY IndexStep, RestStep, DeadStep, IdsStep, FitStep DEF Typed
  <2>2. calm' = calm
    BY DEF Next, vars
  <2>3. WaitsForSomething'
    BY <2>2, WaitStep DEF WaitsForSomething
  <2> QED  BY <2>1, <2>3
<1> QED  BY <1>1, <1>2, PTL DEF Spec
=============================================================================
