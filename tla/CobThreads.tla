------------------------------ MODULE CobThreads ------------------------------
(***************************************************************************)
(* The script threads of one unit (ScriptInterface, CobVm).  The object    *)
(* the unit owns is a thread itself, the root; it keeps the list of the    *)
(* other threads, childs, and of thread objects to use again, freeThreads. *)
(* Once per simulation step script->run(dt) gives every thread a turn: the *)
(* childs from the last to the first, then the root.  Scripts start other  *)
(* scripts, sleep, signal each other, and end; the unit launches scripts   *)
(* at any time (also out of an opcode) and executes queries to their end.  *)
(* Everything happens under the unit's lock.                               *)
(***************************************************************************)
EXTENDS Integers, Sequences, FiniteSets, SequencesExt

CONSTANTS
  Root,      \* the thread object the unit owns
  Kids,      \* bound: the other thread objects that can be made
  NoThread,
  Signals,   \* the bits of a signal mask
  MaxCode,   \* MAX_CODE_PER_TICK
  MaxDepth,  \* bound: the call stack of a script
  MaxSleep   \* bound: the ticks a SLEEP lasts

ASSUME CobAssumption ==
  /\ IsFiniteSet(Kids) /\ Root \notin Kids /\ NoThread \notin Kids \cup {Root}
  /\ MaxCode \in Nat \ {0} /\ MaxDepth \in Nat \ {0} /\ MaxSleep \in Nat \ {0}

Threads == Kids \cup {Root}

VARIABLES
  childs, freeThreads,
  th,      \* per thread: running, depth of cur, ticks left to sleep, signal_mask
  made,    \* the thread objects that were allocated
  at,      \* "idle", or inside run() for a "tick" or a "query"
  i,       \* the loop of run(): childs i .. 1 are to come, then 0, the root
  turn,    \* the thread whose opcodes are executed
  codes,   \* nb_code of that turn
  query,   \* the thread execute() waits for
  due,     \* the threads that had something to do when the tick began, and
  ran      \* those that had their turn in it (for the properties)

sched == <<at, i, turn, codes, query>>
vars == <<childs, freeThreads, th, made, sched, due, ran>>

Blank == [running |-> FALSE, depth |-> 0, sleep |-> 0, mask |-> {}]
Running(t) == th[t].running
Alive == {t \in Threads : Running(t)}

(* The elements of q that are in S, in their order.                        *)
Kept(q, S) ==
  LET kept[k \in 0 .. Len(q)] ==
        IF k = 0 THEN <<>>
        ELSE IF q[k] \in S THEN Append(kept[k - 1], q[k]) ELSE kept[k - 1]
  IN  kept[Len(q)]

Init ==
  /\ childs = <<>> /\ freeThreads = <<>> /\ made = {}
  /\ th = [t \in Threads |-> Blank]
  /\ at = "idle" /\ i = 0 /\ turn = NoThread /\ codes = 0 /\ query = NoThread
  /\ due = {} /\ ran = {}

-----------------------------------------------------------------------------
(* getFreeThread(), or a new object.                                       *)
GetThread(t) ==
  IF freeThreads # <<>>
  THEN t = Last(freeThreads) /\ freeThreads' = Front(freeThreads) /\ UNCHANGED made
  ELSE t \in Kids \ made /\ made' = made \cup {t} /\ UNCHANGED freeThreads

(* Mutant: a dead child is used again before clean() has taken it away.    *)
ForkReusesDead(t, byRoot) ==
  IF byRoot /\ ~ Running(Root)
  THEN t = Root /\ UNCHANGED <<childs, freeThreads, made>>
  ELSE IF \E k \in Range(childs) : ~ Running(k)
  THEN /\ t \in Range(childs) /\ ~ Running(t)
       /\ childs' = Append(Kept(childs, Kids \ {t}), t)
       /\ UNCHANGED <<freeThreads, made>>
  ELSE GetThread(t) /\ childs' = Append(childs, t)

(* fork(): a root that does not run is used itself; any other thread       *)
(* becomes the last child.                                                 *)
Fork(t, byRoot) ==
  IF byRoot /\ ~ Running(Root)
  THEN t = Root /\ UNCHANGED <<childs, freeThreads, made>>
  ELSE GetThread(t) /\ childs' = Append(childs, t)

(* What the new thread starts as.                                          *)
Started(mask) == [running |-> TRUE, depth |-> 1, sleep |-> 0, mask |-> mask]

(* launchScript(), between the ticks or out of an opcode.  A script that   *)
(* does not exist leaves a thread behind that does not run.                *)
Launch(t) ==
  /\ at = "idle" \/ turn # NoThread
  /\ Fork(t, TRUE)
  /\ \E s \in {Started({}), Blank} : th' = [th EXCEPT ![t] = s]
  /\ UNCHANGED <<sched, due, ran>>

-----------------------------------------------------------------------------
(* One tick: run(dt) of the root.                                          *)

(* Mutant: the threads that ended are forgotten.                           *)
CleanLoses ==
  /\ childs' = Kept(childs, Alive)
  /\ UNCHANGED freeThreads

(* clean(): the childs that do not run any more go to freeThreads.         *)
Clean ==
  /\ childs' = Kept(childs, Alive)
  /\ freeThreads' = freeThreads \o Kept(childs, Threads \ Alive)

Tick ==
  /\ at = "idle"
  /\ Clean
  /\ at' = "tick" /\ i' = Len(childs')
  /\ due' = {t \in Threads : Running(t) /\ th[t].depth > 0 /\ th[t].sleep <= 1}
  /\ ran' = {}
  /\ UNCHANGED <<th, made, turn, codes, query>>

(* The start of a thread's run(): it may have been killed, it may go on    *)
(* sleeping, its call stack may be empty; else its opcodes are executed.   *)
Begin(t, dt) ==
  LET s == IF th[t].sleep > dt THEN th[t].sleep - dt ELSE 0
  IN  IF ~ Running(t) \/ th[t].sleep > dt \/ (th[t].sleep > 0 /\ dt = 0)
      THEN /\ th' = [th EXCEPT ![t].sleep = IF Running(t) THEN s ELSE @]
           /\ UNCHANGED <<turn, codes, ran>>
      ELSE IF th[t].depth = 0
      THEN /\ th' = [th EXCEPT ![t].running = FALSE, ![t].sleep = 0]
           /\ UNCHANGED <<turn, codes, ran>>
      ELSE /\ th' = [th EXCEPT ![t].sleep = 0]
           /\ turn' = t /\ codes' = 0 /\ ran' = ran \cup {t}

(* Mutant: the loop leaves out the first child.                            *)
NextChildSkips ==
  /\ at = "tick" /\ turn = NoThread /\ i > 0
  /\ i' = IF i = 2 THEN 0 ELSE i - 1
  /\ Begin(childs[i], 1)
  /\ UNCHANGED <<childs, freeThreads, made, at, query, due>>

NextChild ==
  /\ at = "tick" /\ turn = NoThread /\ i > 0
  /\ i' = i - 1
  /\ Begin(childs[i], 1)
  /\ UNCHANGED <<childs, freeThreads, made, at, query, due>>

RootsTurn ==
  /\ at = "tick" /\ turn = NoThread /\ i = 0
  /\ i' = -1
  /\ Begin(Root, 1)
  /\ UNCHANGED <<childs, freeThreads, made, at, query, due>>

TickOver == at = "tick" /\ turn = NoThread /\ i = -1

TickEnds ==
  /\ TickOver
  /\ at' = "idle" /\ i' = 0
  /\ UNCHANGED <<childs, freeThreads, th, made, turn, codes, query, due, ran>>

-----------------------------------------------------------------------------
(* execute(): a thread of its own, run with no time passing until it ends. *)
Execute(t) ==
  /\ at = "idle"
  /\ Fork(t, TRUE)
  /\ th' = [th EXCEPT ![t] = Started({})]
  /\ at' = "query" /\ query' = t
  /\ UNCHANGED <<i, turn, codes, due, ran>>

RunAgain ==
  /\ at = "query" /\ turn = NoThread /\ Running(query)
  /\ Begin(query, 0)
  /\ UNCHANGED <<childs, freeThreads, made, at, i, query, due>>

QueryEnds ==
  /\ at = "query" /\ turn = NoThread /\ ~ Running(query)
  /\ at' = "idle" /\ query' = NoThread
  /\ UNCHANGED <<childs, freeThreads, th, made, i, turn, codes, due, ran>>

-----------------------------------------------------------------------------
(* The opcodes.  A turn ends when an opcode says so, or after MaxCode.     *)
Goes(t, more) ==
  /\ codes' = IF more /\ codes + 1 < MaxCode THEN codes + 1 ELSE 0
  /\ turn' = IF more /\ codes + 1 < MaxCode THEN t ELSE NoThread

keptByOps == <<at, i, query, due, ran>>
keptByMost == <<childs, freeThreads, made, keptByOps>>

(* Mutant: a script may go on as long as it likes.                         *)
PlainUnbounded(t) ==
  /\ codes' = IF codes + 1 < MaxCode THEN codes + 1 ELSE 0
  /\ UNCHANGED <<th, turn, keptByMost>>

(* Arithmetic, jumps, moves of pieces.                                     *)
Plain(t) == Goes(t, TRUE) /\ UNCHANGED <<th, keptByMost>>

(* WAIT_FOR_TURN, WAIT_FOR_MOVE: the same opcode again in the next turn.   *)
Wait(t) == Goes(t, FALSE) /\ UNCHANGED <<th, keptByMost>>

SleepOp(t) ==
  /\ \E n \in 1 .. MaxSleep : th' = [th EXCEPT ![t].sleep = n]
  /\ Goes(t, FALSE)
  /\ UNCHANGED keptByMost

(* CALL_SCRIPT goes on in the callee, CALL_FUNCTION in the next turn.      *)
CallOp(t) ==
  /\ th[t].depth < MaxDepth
  /\ th' = [th EXCEPT ![t].depth = @ + 1]
  /\ Goes(t, TRUE) \/ Goes(t, FALSE)
  /\ UNCHANGED keptByMost

(* Mutant: the turn goes on although no script is left.                    *)
ReturnGoesOn(t) ==
  /\ th' = [th EXCEPT ![t].depth = @ - 1]
  /\ Goes(t, TRUE)
  /\ UNCHANGED keptByMost

(* RETURN: a thread whose last script returned goes on "running" until its *)
(* next turn.                                                              *)
ReturnOp(t) ==
  /\ th' = [th EXCEPT ![t].depth = @ - 1]
  /\ Goes(t, th[t].depth > 1)
  /\ UNCHANGED keptByMost

(* An opcode nobody knows: "Stopping script".                              *)
Unknown(t) ==
  /\ th' = [th EXCEPT ![t].depth = @ - 1, ![t].running = th[t].depth > 1]
  /\ Goes(t, FALSE)
  /\ UNCHANGED keptByMost

(* SIGNAL: kills every thread that has the signal in its mask, wherever    *)
(* the list stands.                                                        *)
SignalOp(t, sig) ==
  LET hit == {k \in Range(childs) \cup {Root} : sig \in th[k].mask}
  IN  /\ th' = [k \in Threads |-> IF k \in hit THEN [th[k] EXCEPT !.running = FALSE] ELSE th[k]]
      /\ Goes(t, t \notin hit)
      /\ UNCHANGED keptByMost

SetMask(t, m) ==
  /\ th' = [th EXCEPT ![t].mask = m]
  /\ Goes(t, TRUE)
  /\ UNCHANGED keptByMost

(* START_SCRIPT: the new thread inherits the signal mask.                  *)
StartScript(t, k) ==
  /\ Fork(k, t = Root)
  /\ th' = [th EXCEPT ![k] = Started(th[t].mask)]
  /\ Goes(t, TRUE)
  /\ UNCHANGED keptByOps

Opcode(t) ==
  /\ turn = t
  /\ \/ Plain(t) \/ Wait(t) \/ SleepOp(t) \/ CallOp(t) \/ ReturnOp(t) \/ Unknown(t)
     \/ \E sig \in Signals : SignalOp(t, sig)
     \/ \E m \in SUBSET Signals : SetMask(t, m)
     \/ \E k \in Threads : StartScript(t, k)

-----------------------------------------------------------------------------
(* save_state() and restore_state() into a new VM: each saved child is     *)
(* forked in turn, so that a root that does not run becomes the first      *)
(* child that does; the dead ones before it leave nothing behind.          *)
FirstRunning ==
  IF Running(Root) \/ \A k \in DOMAIN childs : ~ Running(childs[k]) THEN 0
  ELSE CHOOSE k \in DOMAIN childs :
         Running(childs[k]) /\ \A j \in 1 .. k - 1 : ~ Running(childs[j])

(* The new objects: what was saved of those that are used, blank else.     *)
Loaded(first, kept) ==
  /\ childs' = kept /\ freeThreads' = <<>> /\ made' = Range(kept)
  /\ th' = [t \in Threads |-> IF t = Root THEN th[first]
                             ELSE IF t \in Range(kept) THEN th[t] ELSE Blank]
  /\ UNCHANGED <<sched, due, ran>>

(* Mutant: a root that does not run takes the place of the last child.     *)
ReloadLast ==
  /\ at = "idle"
  /\ IF FirstRunning = 0 THEN Loaded(Root, IF Running(Root) THEN childs ELSE <<>>)
     ELSE Loaded(Last(childs), Front(childs))

Reload ==
  /\ at = "idle"
  /\ IF FirstRunning = 0 THEN Loaded(Root, IF Running(Root) THEN childs ELSE <<>>)
     ELSE Loaded(childs[FirstRunning], SubSeq(childs, FirstRunning + 1, Len(childs)))

VM ==
  \/ NextChild \/ RootsTurn \/ TickEnds
  \/ RunAgain \/ QueryEnds
  \/ \E t \in Threads : Opcode(t)

Next ==
  \/ VM \/ Tick \/ Reload
  \/ \E t \in Threads : Launch(t) \/ Execute(t)

Spec == Init /\ [][Next]_vars

(* The unit engine goes on with the run() it called, as long as the unit   *)
(* is there.                                                               *)
FairSpec == Spec /\ WF_vars(VM)

-----------------------------------------------------------------------------
TypeOK ==
  /\ childs \in Seq(Kids) /\ freeThreads \in Seq(Kids) /\ made \subseteq Kids
  /\ th \in [Threads -> [running : BOOLEAN, depth : 0 .. MaxDepth,
                         sleep : 0 .. MaxSleep, mask : SUBSET Signals]]
  /\ at \in {"idle", "tick", "query"}
  /\ i \in -1 .. Cardinality(Kids)
  /\ turn \in Threads \cup {NoThread} /\ query \in Threads \cup {NoThread}
  /\ codes \in 0 .. MaxCode - 1
  /\ due \subseteq Threads /\ ran \subseteq Threads

(* Thread objects are neither lost nor handed out twice: each one that was *)
(* made is in one of the two lists, once, and those to be used again are   *)
(* dead; who executes opcodes is not (no signal has killed him).           *)
EachThreadOnce ==
  /\ IsInjective(childs \o freeThreads)
  /\ Range(childs \o freeThreads) = made
  /\ \A t \in Range(freeThreads) : ~ Running(t)
  /\ turn # NoThread => Running(turn) /\ th[turn].depth > 0

(* A tick serves every thread that had something to do when it began,      *)
(* unless it was killed before its turn came, whatever is started,         *)
(* signalled and killed in between; ...                                    *)
TickServesAll == TickOver => \A t \in due \ ran : ~ Running(t)

(* ... nobody has two turns in a tick, and a child that was started in it  *)
(* waits for the next.                                                     *)
OneTurnEach ==
  [][at = "tick" /\ turn = NoThread /\ turn' # NoThread
       => turn' \notin ran /\ turn' \in due \cup {Root}]_vars

(* Loading a saved unit keeps what its threads were doing, and in which    *)
(* order they have their turns.                                            *)
InOrder == [k \in 1 .. Len(childs) + 1 |-> th[(<<Root>> \o childs)[k]]]
InTurn == Kept(InOrder, {t \in Range(InOrder) : t.running})
ReloadKeeps == [][Reload => InTurn' = InTurn]_vars

(* "Pour eviter que le programme ne fige a cause d'un script": a tick ends *)
(* whatever the scripts do.                                                *)
TicksEnd == at = "tick" ~> at = "idle"
=============================================================================
