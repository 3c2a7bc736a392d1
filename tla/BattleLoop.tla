----------------------------- MODULE BattleLoop -----------------------------
(***************************************************************************)
(* The threads of a battle: how they step together, pause, save and end.   *)
(* The unit engine (INGAME_UNITS::proc), the players thread                *)
(* (PLAYERS::proc), the weapons and the particles meet at Engine::sync()   *)
(* once per step; the main thread pauses, saves and ends the battle.       *)
(*   "alone"  one machine, all four threads;                               *)
(*   "left"   a server and a client, each with its unit engine and players *)
(*            thread (the others neither send nor receive): a machine that *)
(*            is Second ticks ahead of the other waits; the client may go; *)
(*   "talk"   the same two, which pause and tell the other to;             *)
(*   "saved"  the same two, and the server saves, so the client has to.    *)
(* The game is chosen once.  A battle that is over is followed by another. *)
(***************************************************************************)
EXTENDS Integers, Sequences, FiniteSets

CONSTANTS
  Server, Client,
  Second,      \* TICKS_PER_SEC
  Games        \* the games to choose from

(* What happens in a game, and its bounds: the steps and the pauses,       *)
(* resumes and saves it is followed for, the whole ticks that are guessed  *)
(* between two ticks heard.                                                *)
ASSUME BattleAssumption ==
  /\ Server # Client
  /\ Second \in Nat
  /\ Games \subseteq [kind : {"alone", "left", "talk", "saved"},
                     ticks : Nat, orders : Nat, drift : Nat]

VARIABLES
  game,
  pc,        \* what each engine thread of each machine does
  main,      \* what the main thread does
  need,      \* Synchronizer::nbThreadsToSync
  waiting,   \* Synchronizer::nbThreadsWaiting
  ask,       \* the threads whose thread_ask_to_stop is set
  pause,     \* lp_CONFIG->pause: wait!
  paused,    \* lp_CONFIG->paused: the unit engine waits
  previous,  \* save_game()'s previous_pause_state
  rounds,    \* steps begun by each thread; current_tick of the unit engine
  ahead,     \* the unit engine found itself more than a second ahead
  heard,     \* the last tick the other machine told ...
  guess,     \* ... and what was added since: together client_tick
  sent,      \* the last tick told to the other machine
  coming,    \* special messages on their way to a machine
  specialq,  \* special messages waiting for check()
  remote,    \* whether the server counts the client as a remote human
  orders,
  hasty      \* a save was begun as the unit engine left its pause

threadVars == <<pc, need, waiting, ask, rounds>>
pauseVars == <<pause, paused, previous>>
tickVars == <<ahead, heard, guess, sent>>
netVars == <<coming, specialq, remote>>
vars == <<game, main, orders, hasty, threadVars, pauseVars, tickVars, netVars>>

Machines == IF game.kind = "alone" THEN {Server} ELSE {Server, Client}
Threads == IF game.kind = "alone" THEN {"units", "players", "weapons", "particles"}
                             ELSE {"units", "players"}
Other(m) == IF m = Server THEN Client ELSE Server
Connected == game.kind # "alone"

(* The order in which the main thread joins the threads.                   *)
StopOrder == IF game.kind = "alone" THEN <<"players", "weapons", "units", "particles">>
                               ELSE <<"players", "units">>
NextToStop(t) ==
  LET i == CHOOSE j \in 1 .. Len(StopOrder) : StopOrder[j] = t
  IN  IF i < Len(StopOrder) THEN StopOrder[i + 1] ELSE "over"

Tick(m) == rounds[m]["units"]
Ending(m) == main[m] \notin {"play", "save", "write"}

PCs == {"free", "pause", "leave", "wpause", "wleave", "wcheck",
        "save", "blocked", "done"}
MainPCs == {"play", "save", "write", "release", "over"}
Specials == {"GONE", "PAUSE", "RESUME", "SAVE"}

Goto(m, t, l) == pc' = [pc EXCEPT ![m][t] = l]
At(m, t, l) == pc[m][t] = l

All(v) == [m \in Machines |-> v]
Begun == [t \in Threads |-> "free"]
NoRound == [t \in Threads |-> 0]

Init ==
  /\ game \in Games
  /\ pc = All(Begun) /\ main = All("play")
  /\ need = All(Cardinality(Threads)) /\ waiting = All(0) /\ ask = All({})
  /\ pause = All(FALSE) /\ paused = All(FALSE) /\ previous = All(FALSE)
  /\ rounds = All(NoRound)
  /\ ahead = All(FALSE) /\ heard = All(0) /\ guess = All(0) /\ sent = All(0)
  /\ coming = All(<<>>) /\ specialq = All(<<>>)
  /\ remote = Connected
  /\ orders = 0
  /\ hasty = All(FALSE)

-----------------------------------------------------------------------------
(* A step counts from the barrier on (the unit engine's current_tick++     *)
(* follows it); when the barrier is gone none does.                        *)
Count(m, t) ==
  rounds' = IF need[m] = 0 THEN rounds ELSE [rounds EXCEPT ![m][t] = @ + 1]

(* Mutant: the thread that arrives is counted twice.                       *)
SyncTwice(m, t) ==
  /\ Count(m, t)
  /\ IF need[m] <= waiting[m] + 2
     THEN /\ waiting' = [waiting EXCEPT ![m] = 0]
          /\ pc' = [pc EXCEPT ![m] = [u \in Threads |->
                      IF u = t \/ pc[m][u] = "blocked" THEN "free" ELSE pc[m][u]]]
     ELSE /\ waiting' = [waiting EXCEPT ![m] = @ + 1]
          /\ Goto(m, t, "blocked")

(* Mutant: the last thread forgets to clear the count.                     *)
SyncKeeps(m, t) ==
  /\ Count(m, t)
  /\ waiting' = [waiting EXCEPT ![m] = @ + 1]
  /\ IF need[m] <= waiting[m] + 1
     THEN pc' = [pc EXCEPT ![m] = [u \in Threads |->
                   IF u = t \/ pc[m][u] = "blocked" THEN "free" ELSE pc[m][u]]]
     ELSE Goto(m, t, "blocked")

(* Engine::sync().  The last thread to arrive wakes the others, which have *)
(* seen pSignalled change and go on.                                       *)
Sync(m, t) ==
  /\ Count(m, t)
  /\ IF need[m] <= waiting[m] + 1
     THEN /\ waiting' = [waiting EXCEPT ![m] = 0]
          /\ pc' = [pc EXCEPT ![m] = [u \in Threads |->
                      IF u = t \/ pc[m][u] = "blocked" THEN "free" ELSE pc[m][u]]]
     ELSE /\ waiting' = [waiting EXCEPT ![m] = @ + 1]
          /\ Goto(m, t, "blocked")

(* A thread between two barriers.  The flag is only set when the barrier   *)
(* is gone, so it makes no difference when it is looked at.                *)
InLoop(m, t) ==
  /\ At(m, t, "free") /\ t \notin ask[m]
  /\ need[m] = 0 \/ rounds[m][t] < game.ticks

(* A thread that was asked to stop does, and clears its flag; the players  *)
(* thread leaves that to whoever set it.                                   *)
Stops(m, t) ==
  /\ At(m, t, "free") /\ t \in ask[m]
  /\ Goto(m, t, "done")
  /\ IF t = "players" THEN UNCHANGED ask ELSE ask' = [ask EXCEPT ![m] = @ \ {t}]
  /\ UNCHANGED <<game, main, orders, hasty, need, waiting, rounds, pauseVars, tickVars, netVars>>

(* The weapons and the particles: move() and the barrier.                  *)
HelperMoves(m, t) ==
  /\ t \in {"weapons", "particles"}
  /\ InLoop(m, t)
  /\ Sync(m, t)
  /\ UNCHANGED <<game, main, orders, hasty, need, ask, pauseVars, tickVars, netVars>>

-----------------------------------------------------------------------------
(* Messages.  Ticks overtake nothing and only the last counts.             *)
Tell(m, msg) ==
  IF m = Client \/ remote
  THEN coming' = [coming EXCEPT ![Other(m)] = Append(@, msg)]
  ELSE UNCHANGED coming

SendTick(m) ==
  sent' = IF Connected THEN [sent EXCEPT ![m] = Tick(m) + 1] ELSE sent

(* Mutant: a machine that is ahead goes on.                                *)
NeverBeyond(m, tick, slack) == FALSE

(* Whether m follows the ticks of the other: the server those of remote    *)
(* humans, a client those of the server.                                   *)
Follows(m) == Connected /\ (m = Client \/ remote)

(* Whether current_tick is further than slack from min_tick.               *)
Beyond(m, tick, slack) == Follows(m) /\ tick > heard[m] + guess[m] + slack

(* client_tick += client_speed * net_timer / ...: at the speed that was    *)
(* told last the other may have gone on.                                   *)
Guesses(m) ==
  \E g \in guess[m] .. game.drift :
    guess' = [guess EXCEPT ![m] = IF Follows(m) THEN g ELSE @]

(* The SocketThread of m: makeTick(), and special messages for check().    *)
HearsTick(m) ==
  /\ Connected
  /\ m = Server => remote
  /\ heard' = [heard EXCEPT ![m] = sent[Other(m)]]
  /\ guess' = [guess EXCEPT ![m] = 0]
  /\ UNCHANGED <<game, main, orders, hasty, threadVars, pauseVars, ahead, sent, netVars>>

HearsSpecial(m) ==
  /\ coming[m] # <<>>
  /\ m = Server => remote
  /\ coming' = [coming EXCEPT ![m] = Tail(@)]
  /\ specialq' = [specialq EXCEPT ![m] = Append(@, Head(coming[m]))]
  /\ UNCHANGED <<game, main, orders, hasty, threadVars, pauseVars, tickVars, remote>>

(* Mutant: the server does not drop a player who is gone.                  *)
NeverDropped(m, msg) == FALSE

(* check() takes the next special message: GONE, PAUSE, RESUME or SAVE,    *)
(* which calls save_game() from the thread that is here.                   *)
Dropped(m, msg) == m = Server /\ msg = "GONE"

HandlesSpecial(m, t) ==
  /\ specialq[m] # <<>>
  /\ specialq' = [specialq EXCEPT ![m] = Tail(@)]
  /\ LET msg == Head(specialq[m])
     IN  /\ pause' = [pause EXCEPT ![m] =
                        msg \in {"PAUSE", "SAVE"} \/ (@ /\ msg # "RESUME")]
         /\ remote' = (remote /\ ~ Dropped(m, msg))
         /\ IF msg = "SAVE"
            THEN previous' = [previous EXCEPT ![m] = pause[m]] /\ Goto(m, t, "save")
            ELSE UNCHANGED <<previous, pc>>
  /\ UNCHANGED <<game, main, orders, hasty, need, waiting, ask, rounds, paused, tickVars, coming>>

(* save_game() of a thread that handles messages: it waits until the unit  *)
(* engine is paused and writes; check() goes on.                           *)
SavesForServer(m, t) ==
  /\ At(m, t, "save")
  /\ paused[m]
  /\ pause' = [pause EXCEPT ![m] = previous[m]]
  /\ Goto(m, t, IF t = "players" THEN "free" ELSE "wcheck")
  /\ UNCHANGED <<game, main, orders, hasty, need, waiting, ask, rounds, paused, previous,
                 tickVars, netVars>>

(* PLAYERS::proc: check() until there is no message, then the barrier.     *)
PlayersCheck(m) == InLoop(m, "players") /\ HandlesSpecial(m, "players")

PlayersChecked(m) ==
  /\ InLoop(m, "players")
  /\ specialq[m] = <<>>
  /\ Sync(m, "players")
  /\ UNCHANGED <<game, main, orders, hasty, need, ask, pauseVars, tickVars, netVars>>

-----------------------------------------------------------------------------
(* INGAME_UNITS::proc.  Units move, and the slowest machine is looked up.  *)
EngineMoves(m) ==
  /\ InLoop(m, "units")
  /\ ahead' = [ahead EXCEPT ![m] = Beyond(m, Tick(m), Second)]
  /\ Goto(m, "units", "pause")
  /\ UNCHANGED <<game, main, orders, hasty, need, waiting, ask, rounds, pauseVars, heard, guess, sent, netVars>>

(* The pause loop, of which there are two.                                 *)
KeptWaiting(m) == pause[m] /\ "units" \notin ask[m]

EnginePauses(m) ==
  /\ pc[m]["units"] \in {"pause", "wpause"}
  /\ KeptWaiting(m)
  /\ paused' = [paused EXCEPT ![m] = TRUE]
  /\ UNCHANGED <<game, main, orders, hasty, threadVars, pause, previous, tickVars, netVars>>

(* Mutant: paused stays set after the loop.                                *)
StillPaused(m) == UNCHANGED paused

NotPaused(m) == paused' = [paused EXCEPT ![m] = FALSE]

(* The loop is left ...                                                    *)
EngineLeaves(m) ==
  /\ pc[m]["units"] \in {"pause", "wpause"}
  /\ ~ KeptWaiting(m) /\ paused[m]
  /\ Goto(m, "units", IF At(m, "units", "pause") THEN "leave" ELSE "wleave")
  /\ UNCHANGED <<game, main, orders, hasty, need, waiting, ask, rounds, pauseVars,
                 tickVars, netVars>>

(* (With paused clear there is nothing left to clear, and the test of the  *)
(* loop and what follows make one step.)                                   *)
LeftLoop(m, loop, left) ==
  \/ At(m, "units", left)
  \/ At(m, "units", loop) /\ ~ KeptWaiting(m) /\ ~ paused[m]

(* ... and only then paused is cleared.  After the pause the tick is told; *)
(* a machine too far ahead waits, the others meet.                         *)
EngineSends(m) ==
  /\ LeftLoop(m, "pause", "leave")
  /\ NotPaused(m)
  /\ Guesses(m)
  /\ SendTick(m)
  /\ IF ahead[m] /\ "units" \notin ask[m]
     THEN Goto(m, "units", "wpause") /\ UNCHANGED <<waiting, rounds>>
     ELSE Sync(m, "units")
  /\ UNCHANGED <<game, main, orders, hasty, need, ask, pause, previous, ahead, heard, netVars>>

(* The wait for the slowest: a pause loop, check(), the tick, and again    *)
(* until the other has caught up.                                          *)
EngineWaits(m) ==
  /\ LeftLoop(m, "wpause", "wleave")
  /\ NotPaused(m)
  /\ Goto(m, "units", "wcheck")
  /\ UNCHANGED <<game, main, orders, hasty, need, waiting, ask, rounds, pause, previous,
                 tickVars, netVars>>

EngineChecks(m) == At(m, "units", "wcheck") /\ HandlesSpecial(m, "units")

EngineChecked(m) ==
  /\ At(m, "units", "wcheck")
  /\ specialq[m] = <<>>
  /\ SendTick(m)
  /\ IF Beyond(m, Tick(m), 0) /\ "units" \notin ask[m]
     THEN Goto(m, "units", "wpause") /\ UNCHANGED <<waiting, rounds>>
     ELSE Sync(m, "units")
  /\ UNCHANGED <<game, main, orders, hasty, need, ask, pauseVars, ahead, heard, guess, netVars>>

-----------------------------------------------------------------------------
(* The main thread.  The user pauses and resumes; the menu and the orders  *)
(* tell the other machine, the pause key (tells = FALSE) does not.         *)
MayOrder(m) == main[m] = "play" /\ orders < game.orders

Orders(m) ==
  /\ game.kind \in {"alone", "talk"}
  /\ MayOrder(m)
  /\ orders' = orders + 1
  /\ pause' = [pause EXCEPT ![m] = ~ @]
  /\ \/ Connected /\ Tell(m, IF pause[m] THEN "RESUME" ELSE "PAUSE")
     \/ UNCHANGED coming
  /\ UNCHANGED <<game, main, hasty, threadVars, paused, previous, tickVars, specialq, remote>>

(* save_game() from the menu; a server tells the client to save too.  No   *)
(* save begins at the bound, where the unit engine takes no more steps.    *)
MainSaves(m) ==
  /\ game.kind \in {"alone", "saved"} /\ m = Server
  /\ MayOrder(m)
  /\ Tick(m) + 1 < game.ticks
  /\ orders' = orders + 1
  /\ IF Connected THEN Tell(m, "SAVE") ELSE UNCHANGED coming
  /\ previous' = [previous EXCEPT ![m] = pause[m]]
  /\ pause' = [pause EXCEPT ![m] = TRUE]
  /\ main' = [main EXCEPT ![m] = "save"]
  /\ hasty' = [hasty EXCEPT ![m] = paused[m] /\ At(m, "units", "leave")]
  /\ UNCHANGED <<game, threadVars, paused, tickVars, specialq, remote>>

MainWrites(m) ==
  /\ main[m] = "save"
  /\ paused[m]
  /\ main' = [main EXCEPT ![m] = "write"]
  /\ UNCHANGED <<game, orders, hasty, threadVars, pauseVars, tickVars, netVars>>

(* The file is closed; the menu ends the pause whatever it was before.     *)
MainSaved(m) ==
  /\ main[m] = "write"
  /\ pause' = [pause EXCEPT ![m] = FALSE]
  /\ main' = [main EXCEPT ![m] = "play"]
  /\ hasty' = [hasty EXCEPT ![m] = FALSE]
  /\ UNCHANGED <<game, orders, threadVars, paused, previous, tickVars, netVars>>

(* The battle ends: the others are told, the barrier asks for nobody, ...  *)
MainLeaves(m) ==
  /\ game.kind \in {"alone", "left"}
  /\ main[m] = "play"
  /\ Connected => m = Client
  /\ IF m = Client THEN Tell(m, "GONE") ELSE UNCHANGED coming
  /\ need' = [need EXCEPT ![m] = 0]
  /\ main' = [main EXCEPT ![m] = "release"]
  /\ UNCHANGED <<game, orders, hasty, pc, waiting, ask, rounds, pauseVars, tickVars, specialq, remote>>

(* Mutant: whoever waits at the barrier is left there.                     *)
MainReleasesNobody(m) ==
  /\ main[m] = "release"
  /\ waiting' = [waiting EXCEPT ![m] = 0]
  /\ ask' = [ask EXCEPT ![m] = @ \cup {StopOrder[1]}]
  /\ main' = [main EXCEPT ![m] = StopOrder[1]]
  /\ UNCHANGED <<game, orders, hasty, pc, need, rounds, pauseVars, tickVars, netVars>>

(* ... release() wakes whoever waits, and the first thread is asked ...    *)
MainReleases(m) ==
  /\ main[m] = "release"
  /\ waiting' = [waiting EXCEPT ![m] = 0]
  /\ pc' = [pc EXCEPT ![m] = [t \in Threads |->
              IF pc[m][t] = "blocked" THEN "free" ELSE pc[m][t]]]
  /\ ask' = [ask EXCEPT ![m] = @ \cup {StopOrder[1]}]
  /\ main' = [main EXCEPT ![m] = StopOrder[1]]
  /\ UNCHANGED <<game, orders, hasty, need, rounds, pauseVars, tickVars, netVars>>

(* ... and joined, then the next.  PLAYERS::signalExitThread() clears the  *)
(* players thread's flag itself.                                           *)
MainJoins(m) ==
  /\ main[m] \in Threads
  /\ At(m, main[m], "done")
  /\ main' = [main EXCEPT ![m] = NextToStop(main[m])]
  /\ ask' = [ask EXCEPT ![m] = (@ \cup {NextToStop(main[m])}) \ {"players", "over"}]
  /\ UNCHANGED <<game, orders, hasty, pc, need, waiting, rounds, pauseVars, tickVars, netVars>>

(* The next battle: setNbThreadsToSync(4), fresh queues, pause = false.    *)
NextBattle ==
  /\ \A m \in Machines : main[m] = "over"
  /\ pc' = All(Begun) /\ main' = All("play")
  /\ need' = All(Cardinality(Threads))
  /\ pause' = All(FALSE)
  /\ rounds' = All(NoRound)
  /\ ahead' = All(FALSE) /\ heard' = All(0) /\ guess' = All(0) /\ sent' = All(0)
  /\ coming' = All(<<>>) /\ specialq' = All(<<>>)
  /\ remote' = Connected
  /\ orders' = 0
  /\ UNCHANGED <<game, waiting, ask, paused, previous, hasty>>

User(m) == Orders(m) \/ MainSaves(m) \/ MainLeaves(m)
MainGoesOn(m) == MainWrites(m) \/ MainSaved(m) \/ MainReleases(m) \/ MainJoins(m)
Hears(m) == HearsTick(m) \/ HearsSpecial(m)
Players(m) ==
  \/ PlayersCheck(m) \/ PlayersChecked(m)
  \/ SavesForServer(m, "players")
Units(m) ==
  \/ EngineMoves(m) \/ EnginePauses(m) \/ EngineLeaves(m) \/ EngineSends(m)
  \/ EngineWaits(m) \/ EngineChecks(m) \/ EngineChecked(m)
  \/ SavesForServer(m, "units")
Steps(m, t) ==
  \/ Stops(m, t) \/ HelperMoves(m, t)
  \/ t = "players" /\ Players(m)
  \/ t = "units" /\ Units(m)

Next ==
  \/ \E m \in Machines : User(m) \/ MainGoesOn(m) \/ Hears(m)
  \/ \E m \in Machines, t \in Threads : Steps(m, t)
  \/ NextBattle

Spec == Init /\ [][Next]_vars

(* The operating system runs every thread, and TCP delivers.  The main      *)
(* thread finishes a save and the end of a battle; what the user does is   *)
(* free.                                                                   *)
Fairness ==
  \A m \in {Server, Client} :
    /\ \A t \in {"units", "players", "weapons", "particles"} :
         WF_vars(m \in Machines /\ t \in Threads /\ Steps(m, t))
    /\ WF_vars(m \in Machines /\ MainGoesOn(m))
    /\ WF_vars(m \in Machines /\ Hears(m))
FairSpec == Spec /\ Fairness

-----------------------------------------------------------------------------
TypeOK ==
  /\ game \in Games
  /\ pc \in [Machines -> [Threads -> PCs]]
  /\ main \in [Machines -> MainPCs \cup Threads]
  /\ need \in [Machines -> {0, Cardinality(Threads)}]
  /\ waiting \in [Machines -> 0 .. Cardinality(Threads) - 1]
  /\ ask \in [Machines -> SUBSET Threads]
  /\ pause \in [Machines -> BOOLEAN] /\ paused \in [Machines -> BOOLEAN]
  /\ previous \in [Machines -> BOOLEAN]
  /\ rounds \in [Machines -> [Threads -> 0 .. game.ticks]]
  /\ ahead \in [Machines -> BOOLEAN]
  /\ heard \in [Machines -> 0 .. game.ticks + 1]
  /\ guess \in [Machines -> 0 .. game.drift]
  /\ sent \in [Machines -> 0 .. game.ticks + 1]
  /\ coming \in [Machines -> Seq(Specials)] /\ specialq \in [Machines -> Seq(Specials)]
  /\ remote \in BOOLEAN
  /\ orders \in 0 .. game.orders
  /\ hasty \in [Machines -> BOOLEAN]

(* Engine::sync() keeps the threads of a battle in step: while it lasts,   *)
(* none has begun two steps more than another.                             *)
InStep ==
  \A m \in Machines : ~ Ending(m) =>
    \A t, u \in Threads : rounds[m][t] <= rounds[m][u] + 1

(* A machine never gets further ahead of the other than the second it is   *)
(* allowed ("if (current_tick > min_tick + TICKS_PER_SEC)"), one step that *)
(* was told before it was made, one that is made before the next test, and *)
(* what it took the other to have done in the time without news.           *)
NobodyFarAhead ==
  Connected /\ remote /\ (\A m \in Machines : ~ Ending(m)) =>
    \A m \in Machines :
      Tick(m) <= heard[m] + game.drift + Second + 1 /\ heard[m] <= Tick(Other(m)) + 1

(* "Wait for the engine to enter in pause mode so we can save everything   *)
(* we want without having the engine accessing its data".  This fails for  *)
(* a save begun while the unit engine leaves an earlier pause, which has   *)
(* still to clear paused; only such a save meets an engine at work.        *)
QuietWhileSaving ==
  game.kind = "alone" /\ main[Server] = "write" /\ ~ hasty[Server]
    => pc[Server]["units"] = "pause"

(* What the main thread begins it finishes, wherever the other threads are *)
(* at the time (in the barrier, in a pause, in the wait for the other      *)
(* machine): a save is written, a battle that is left ends.                *)
MainFinishes ==
  (\E m \in Machines : main[m] \notin {"play", "over"})
    ~> (\A m \in Machines : main[m] \in {"play", "over"})

(* The game does not freeze: if pauses end, the server's battle goes on    *)
(* until it is left, and a client that stays follows it.  "Remove it from  *)
(* remote players otherwise game will freeze".                             *)
Staying == {m \in Machines : ~ Ending(m)}
GameGoesOn ==
  <>[](Server \in Staying /\ \A m \in Staying : ~ pause[m])
    => <>(\A m \in Staying : Tick(m) = game.ticks)

(* A save that was begun is made, on every machine that makes it: "We need *)
(* this to prevent client dead lock when saving game".                     *)
Saving(m) ==
  m \in Machines /\ (main[m] = "save" \/ \E t \in Threads : At(m, t, "save"))
SavesEnd == \A m \in {Server, Client} : Saving(m) ~> ~ Saving(m)
=============================================================================
