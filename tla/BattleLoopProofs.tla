-------------------------- MODULE BattleLoopProofs --------------------------
(***************************************************************************)
(* Proofs about the threads of a battle, for any length of a second and of *)
(* a battle, any number of orders and any of the games.                    *)
(*                                                                         *)
(* None of the properties is inductive: that the threads keep in step      *)
(* rests on what the barrier counts, that the engine is quiet while the    *)
(* main thread saves on where it was when it set paused, and that nobody   *)
(* runs ahead on what was told to whom.  BattleInv is all of it together.  *)
(***************************************************************************)
EXTENDS BattleLoop, FiniteSetTheorems, SequenceTheorems, TLAPS

Blocked(m) == {t \in Threads : pc[m][t] = "blocked"}

(* The barrier knows how many threads wait in it, ...                      *)
Barrier == \A m \in Machines : waiting[m] = Cardinality(Blocked(m))

(* ... and these are one step ahead of the others, as long as it asks for  *)
(* all the threads.                                                        *)
Completed(m, t) == rounds[m][t] - (IF pc[m][t] = "blocked" THEN 1 ELSE 0)
Levels ==
  \A m \in Machines : need[m] # 0 =>
    \A t, u \in Threads : Completed(m, t) = Completed(m, u)

(* The unit engine that began a step has not reached the bound.            *)
Room ==
  \A m \in Machines :
    pc[m]["units"] \in {"pause", "leave", "wpause", "wleave", "wcheck", "save"}
         /\ need[m] # 0
      => Tick(m) < game.ticks

(* The end of a battle: who was joined has stopped, and nobody is asked to *)
(* stop but the thread the main thread waits for.                          *)
Joined(m) ==
  CASE main[m] = "weapons"   -> {"players"}
    [] main[m] = "units"     -> {"players", "weapons"} \cap Threads
    [] main[m] = "particles" -> {"players", "weapons", "units"}
    [] main[m] = "over"      -> Threads
    [] OTHER                 -> {}
EndsAt(m) ==
  /\ need[m] # 0 <=> ~ Ending(m)
  /\ Ending(m) /\ main[m] # "release" => Blocked(m) = {}
  /\ \A t \in ask[m] : main[m] = t
  /\ \A t \in Threads :
       /\ t \in Joined(m) => pc[m][t] = "done"
       /\ pc[m][t] = "done" => t \in Joined(m) \cup {main[m]}
       /\ pc[m][t] = "done" /\ t # "players" => t \notin ask[m]
Ends == \A m \in Machines : EndsAt(m)

(* The engine that said it is paused is in one of its two pause loops, or  *)
(* has left it and still to say so.                                        *)
Pauses ==
  \A m \in Machines :
    /\ paused[m] => pc[m]["units"] \in {"pause", "leave", "wpause", "wleave"}
    /\ pc[m]["units"] \in {"leave", "wleave"} => paused[m]

(* A machine that plays alone gets no messages and waits for nobody; while *)
(* it saves nobody ends the pause, and no engine leaves it that had not    *)
(* left it before.                                                         *)
AloneQuiet ==
  game.kind = "alone" =>
    /\ coming[Server] = <<>> /\ specialq[Server] = <<>> /\ ~ ahead[Server]
    /\ \A t \in Threads : pc[Server][t] \notin {"wpause", "wleave", "wcheck", "save"}
    /\ main[Server] \in {"save", "write"} =>
         /\ pause[Server]
         /\ pc[Server]["units"] = "leave" => hasty[Server]
    /\ main[Server] = "write" => hasty[Server] \/ paused[Server]

(* What was heard was told, and nothing is told before its step begins.    *)
Ticks ==
  Connected => \A m \in Machines :
    /\ heard[m] <= sent[Other(m)]
    /\ sent[m] <= Tick(m) + 1
    /\ m = Client \/ remote =>
         /\ Tick(m) <= heard[m] + game.drift + Second + 1
         /\ pc[m]["units"] \in {"pause", "leave"} /\ ~ ahead[m]
              => Tick(m) <= heard[m] + game.drift + Second

BattleInv ==
  /\ TypeOK /\ Barrier /\ Levels /\ Room /\ Ends /\ Pauses /\ AloneQuiet /\ Ticks

-----------------------------------------------------------------------------
(* The bounds of a game.                                                   *)
LEMMA GameBounds ==
  ASSUME game \in Games
  PROVE  /\ game.ticks \in Nat /\ game.orders \in Nat /\ game.drift \in Nat
         /\ Second \in Nat
BY BattleAssumption

(* Machines and threads of a game.                                         *)
LEMMA TheThreads ==
  /\ {"units", "players"} \subseteq Threads
  /\ Threads \subseteq {"units", "players", "weapons", "particles"}
  /\ IsFiniteSet(Threads) /\ Cardinality(Threads) \in Nat /\ Cardinality(Threads) > 1
<1>1. /\ {"units", "players"} \subseteq Threads
      /\ Threads \subseteq {"units", "players", "weapons", "particles"}
  BY DEF Threads
<1>2. /\ IsFiniteSet({"units", "players"}) /\ Cardinality({"units", "players"}) = 2
  <2>1. IsFiniteSet({"units"}) /\ Cardinality({"units"}) = 1
    BY FS_Singleton
  <2>2. {"units", "players"} = {"units"} \cup {"players"} /\ "players" \notin {"units"}
    OBVIOUS
  <2>. QED  BY <2>1, <2>2, FS_AddElement
<1>3. /\ IsFiniteSet({"units", "players", "weapons"})
      /\ Cardinality({"units", "players", "weapons"}) = 3
  <2>1. /\ {"units", "players", "weapons"} = {"units", "players"} \cup {"weapons"}
        /\ "weapons" \notin {"units", "players"}
    OBVIOUS
  <2>. QED  BY <1>2, <2>1, FS_AddElement
<1>4. /\ IsFiniteSet({"units", "players", "weapons", "particles"})
      /\ Cardinality({"units", "players", "weapons", "particles"}) = 4
  <2>1. /\ {"units", "players", "weapons", "particles"}
              = {"units", "players", "weapons"} \cup {"particles"}
        /\ "particles" \notin {"units", "players", "weapons"}
    OBVIOUS
  <2>. QED  BY <1>3, <2>1, FS_AddElement
<1>. QED  BY <1>1, <1>2, <1>4 DEF Threads

(* The order of the end of a battle.                                       *)
LEMMA StopsInOrder ==
  /\ StopOrder[1] = "players"
  /\ game.kind = "alone" => /\ NextToStop("players") = "weapons"
                       /\ NextToStop("weapons") = "units"
                       /\ NextToStop("units") = "particles"
                       /\ NextToStop("particles") = "over"
  /\ game.kind # "alone" => /\ NextToStop("players") = "units"
                       /\ NextToStop("units") = "over"
<1>1. CASE game.kind = "alone"
  <2>1. StopOrder = <<"players", "weapons", "units", "particles">> /\ Len(StopOrder) = 4
    BY <1>1 DEF StopOrder
  <2>2. NextToStop("players") = "weapons"
    <3>1. (CHOOSE j \in 1 .. Len(StopOrder) : StopOrder[j] = "players") = 1
      BY <2>1
    <3>. QED  BY <2>1, <3>1 DEF NextToStop
  <2>3. NextToStop("weapons") = "units"
    <3>1. (CHOOSE j \in 1 .. Len(StopOrder) : StopOrder[j] = "weapons") = 2
      BY <2>1
    <3>. QED  BY <2>1, <3>1 DEF NextToStop
  <2>4. NextToStop("units") = "particles"
    <3>1. (CHOOSE j \in 1 .. Len(StopOrder) : StopOrder[j] = "units") = 3
      BY <2>1
    <3>. QED  BY <2>1, <3>1 DEF NextToStop
  <2>5. NextToStop("particles") = "over"
    <3>1. (CHOOSE j \in 1 .. Len(StopOrder) : StopOrder[j] = "particles") = 4
      BY <2>1
    <3>. QED  BY <2>1, <3>1 DEF NextToStop
  <2>. QED  BY <1>1, <2>1, <2>2, <2>3, <2>4, <2>5
<1>2. CASE game.kind # "alone"
  <2>1. StopOrder = <<"players", "units">> /\ Len(StopOrder) = 2
    BY <1>2 DEF StopOrder
  <2>2. NextToStop("players") = "units"
    <3>1. (CHOOSE j \in 1 .. Len(StopOrder) : StopOrder[j] = "players") = 1
      BY <2>1
    <3>. QED  BY <2>1, <3>1 DEF NextToStop
  <2>3. NextToStop("units") = "over"
    <3>1. (CHOOSE j \in 1 .. Len(StopOrder) : StopOrder[j] = "units") = 2
      BY <2>1
    <3>. QED  BY <2>1, <3>1 DEF NextToStop
  <2>. QED  BY <1>2, <2>1, <2>2, <2>3
<1>. QED  BY <1>1, <1>2

(* What a step of thread t of machine m does to the threads: it goes       *)
(* somewhere, and may wake others.                                         *)
PcStep(m, t) ==
  /\ pc' \in [Machines -> [Threads -> PCs]]
  /\ \A k \in Machines, u \in Threads : k # m \/ u # t =>
       pc'[k][u] = pc[k][u] \/ (pc[k][u] = "blocked" /\ pc'[k][u] = "free")

(* The barrier: it counts the step, and it holds a thread only until the   *)
(* last one comes.                                                         *)
LEMMA SyncSteps ==
  ASSUME TypeOK, Barrier, Levels, NEW m \in Machines, NEW t \in Threads,
         pc[m][t] # "blocked", Sync(m, t), need[m] # 0 => rounds[m][t] < game.ticks,
         UNCHANGED <<game, need>>
  PROVE  /\ PcStep(m, t) /\ pc'[m][t] \in {"free", "blocked"}
         /\ waiting' \in [Machines -> 0 .. Cardinality(Threads) - 1]
         /\ rounds' \in [Machines -> [Threads -> 0 .. game.ticks]]
         /\ Barrier' /\ Levels'
         /\ need[m] = 0 => \A u \in Threads : pc'[m][u] # "blocked"
         /\ \A k \in Machines, u \in Threads :
              rounds'[k][u] = IF k = m /\ u = t /\ need[m] # 0 THEN rounds[k][u] + 1
                                                             ELSE rounds[k][u]
<1> DEFINE N == Cardinality(Threads)
           B == Blocked(m)
<1>1. /\ Machines' = Machines /\ Threads' = Threads /\ game.ticks \in Nat
      /\ IsFiniteSet(Threads) /\ N \in Nat /\ N > 1
  BY GameBounds, TheThreads DEF TypeOK, Machines, Threads
<1>2. /\ IsFiniteSet(B) /\ Cardinality(B) \in Nat /\ waiting[m] = Cardinality(B)
      /\ t \notin B /\ B \subseteq Threads /\ need[m] \in {0, N}
  BY <1>1, FS_Subset, FS_CardinalityType DEF Barrier, Blocked, TypeOK
<1>0. /\ pc \in [Machines -> [Threads -> PCs]]
      /\ rounds \in [Machines -> [Threads -> 0 .. game.ticks]]
  BY DEF TypeOK
<1>3. \A k \in Machines, u \in Threads :
        rounds'[k][u] = IF k = m /\ u = t /\ need[m] # 0 THEN rounds[k][u] + 1
                                                       ELSE rounds[k][u]
  BY DEF Sync, Count, TypeOK
<1>4. rounds' \in [Machines -> [Threads -> 0 .. game.ticks]]
  <2>1. need[m] # 0 => rounds[m][t] + 1 \in 0 .. game.ticks
    BY <1>1 DEF TypeOK
  <2>. QED  BY <2>1 DEF Sync, Count, TypeOK
<1>5. CASE need[m] <= waiting[m] + 1
  <2>1. /\ waiting' = [waiting EXCEPT ![m] = 0]
        /\ pc' = [pc EXCEPT ![m] = [u \in Threads |->
                    IF u = t \/ pc[m][u] = "blocked" THEN "free" ELSE pc[m][u]]]
    BY <1>5 DEF Sync
  <2>2. /\ PcStep(m, t) /\ pc'[m][t] = "free"
        /\ \A u \in Threads : pc'[m][u] # "blocked"
        /\ \A k \in Machines : k # m => pc'[k] = pc[k]
    <3>1. [u \in Threads |-> IF u = t \/ pc[m][u] = "blocked" THEN "free" ELSE pc[m][u]]
            \in [Threads -> PCs]
      BY <1>0 DEF PCs
    <3>2. pc' \in [Machines -> [Threads -> PCs]]
      BY <1>0, <2>1, <3>1
    <3>3. \A u \in Threads :
            pc'[m][u] = IF u = t \/ pc[m][u] = "blocked" THEN "free" ELSE pc[m][u]
      BY <1>0, <2>1
    <3>4. \A k \in Machines : k # m => pc'[k] = pc[k]
      BY <1>0, <2>1
    <3>. QED  BY <3>2, <3>3, <3>4 DEF PcStep
  <2>3. waiting' \in [Machines -> 0 .. N - 1]
    BY <1>1, <2>1 DEF TypeOK
  <2>4. Barrier'
    <3>1. Blocked(m)' = {} /\ waiting'[m] = 0
      BY <1>1, <2>1, <2>2 DEF Blocked, TypeOK
    <3>2. \A k \in Machines : k # m => Blocked(k)' = Blocked(k) /\ waiting'[k] = waiting[k]
      BY <1>1, <2>1, <2>2 DEF Blocked, TypeOK
    <3>. QED  BY <1>1, <3>1, <3>2, FS_EmptySet DEF Barrier
  <2>5. ASSUME need[m] # 0
        PROVE  \A u \in Threads : u # t => pc[m][u] = "blocked"
    <3>1. IsFiniteSet(Threads \ {t}) /\ Cardinality(Threads \ {t}) = N - 1
      BY <1>1, FS_RemoveElement
    <3>2. B \subseteq Threads \ {t}
      BY <1>2
    <3>3. Cardinality(B) = N - 1
      <4>1. Cardinality(B) <= N - 1
        BY <3>1, <3>2, FS_Subset
      <4>. QED  BY <1>1, <1>2, <1>5, <2>5, <4>1
    <3>4. B = Threads \ {t}
      BY <3>1, <3>2, <3>3, FS_Subset
    <3>. QED  BY <3>4 DEF Blocked
  <2>6. Levels'
    <3> SUFFICES ASSUME NEW k \in Machines, need[k] # 0, NEW u \in Threads, NEW v \in Threads
                 PROVE  Completed(k, u)' = Completed(k, v)'
      BY <1>1 DEF Levels
    <3>1. CASE k # m
      BY <1>3, <2>2, <3>1 DEF Levels, Completed
    <3>2. CASE k = m
      <4>1. \A x \in Threads : Completed(m, x)' = rounds'[m][x]
        BY <2>2, <1>4 DEF Completed
      <4>2. \A x \in Threads : rounds'[m][x] = Completed(m, x) + 1
        <5>1. \A x \in Threads : rounds[m][x] \in Int
          BY <1>0, <1>1
        <5>2. need[m] # 0
          BY <3>2
        <5>3. \A x \in Threads : Completed(m, x) = rounds[m][x] - (IF x = t THEN 0 ELSE 1)
          BY <2>5, <5>1, <5>2 DEF Completed
        <5>4. \A x \in Threads : rounds'[m][x] = IF x = t THEN rounds[m][x] + 1 ELSE rounds[m][x]
          BY <1>3, <5>2
        <5>. QED  BY <5>1, <5>3, <5>4
      <4>. QED  BY <3>2, <4>1, <4>2 DEF Levels
    <3>. QED  BY <3>1, <3>2
  <2>. QED  BY <1>3, <1>4, <2>2, <2>3, <2>4, <2>6
<1>6. CASE ~ (need[m] <= waiting[m] + 1)
  <2>1. /\ waiting' = [waiting EXCEPT ![m] = @ + 1]
        /\ pc' = [pc EXCEPT ![m][t] = "blocked"]
    BY <1>6 DEF Sync, Goto
  <2>2. /\ PcStep(m, t) /\ pc'[m][t] = "blocked"
        /\ \A u \in Threads : u # t => pc'[m][u] = pc[m][u]
        /\ \A k \in Machines : k # m => pc'[k] = pc[k]
    <3>1. pc' \in [Machines -> [Threads -> PCs]]
      BY <1>0, <2>1 DEF PCs
    <3>2. \A k \in Machines, u \in Threads :
            pc'[k][u] = IF k = m /\ u = t THEN "blocked" ELSE pc[k][u]
      BY <1>0, <2>1
    <3>3. \A k \in Machines : k # m => pc'[k] = pc[k]
      BY <1>0, <2>1
    <3>. QED  BY <3>1, <3>2, <3>3 DEF PcStep
  <2>3. need[m] # 0 /\ waiting[m] + 1 \in 0 .. N - 1
    BY <1>1, <1>2, <1>6
  <2>4. waiting' \in [Machines -> 0 .. N - 1]
    BY <2>1, <2>3 DEF TypeOK
  <2>5. Barrier'
    <3>1. Blocked(m)' = B \cup {t} /\ waiting'[m] = waiting[m] + 1
      BY <1>1, <2>1, <2>2 DEF Blocked, TypeOK
    <3>2. \A k \in Machines : k # m => Blocked(k)' = Blocked(k) /\ waiting'[k] = waiting[k]
      BY <1>1, <2>1, <2>2 DEF Blocked, TypeOK
    <3>3. Cardinality(B \cup {t}) = Cardinality(B) + 1
      BY <1>2, FS_AddElement
    <3>. QED  BY <1>1, <1>2, <3>1, <3>2, <3>3 DEF Barrier
  <2>6. Levels'
    <3> SUFFICES ASSUME NEW k \in Machines, need[k] # 0, NEW u \in Threads, NEW v \in Threads
                 PROVE  Completed(k, u)' = Completed(k, v)'
      BY <1>1 DEF Levels
    <3>1. \A x \in Threads : Completed(k, x)' = Completed(k, x)
      <4>1. \A x \in Threads : rounds[k][x] \in Int
        BY <1>0, <1>1
      <4>2. CASE k = m
        BY <1>3, <2>2, <2>3, <4>1, <4>2 DEF Completed
      <4>3. CASE k # m
        BY <1>3, <2>2, <4>1, <4>3 DEF Completed
      <4>. QED  BY <4>2, <4>3
    <3>. QED  BY <3>1 DEF Levels
  <2>. QED  BY <1>3, <1>4, <2>2, <2>3, <2>4, <2>5, <2>6
<1>. QED  BY <1>5, <1>6

(* Any other step of a thread leaves the barrier alone.                    *)
LEMMA GotoSteps ==
  ASSUME TypeOK, Barrier, Levels, NEW m \in Machines, NEW t \in Threads,
         NEW l \in PCs \ {"blocked"}, pc[m][t] # "blocked", Goto(m, t, l),
         UNCHANGED <<game, need, waiting, rounds>>
  PROVE  PcStep(m, t) /\ pc'[m][t] = l /\ Barrier' /\ Levels'
<1>1. Machines' = Machines /\ Threads' = Threads
  BY DEF Machines, Threads
<1>2. PcStep(m, t) /\ pc'[m][t] = l
  <2>1. pc \in [Machines -> [Threads -> PCs]] /\ l \in PCs
    BY DEF TypeOK
  <2>2. pc' \in [Machines -> [Threads -> PCs]]
    BY <2>1 DEF Goto
  <2>3. pc'[m][t] = l
    BY <2>1 DEF Goto
  <2>4. \A k \in Machines, u \in Threads : k # m \/ u # t => pc'[k][u] = pc[k][u]
    BY <2>1 DEF Goto
  <2>. QED  BY <2>2, <2>3, <2>4 DEF PcStep
<1>3. \A k \in Machines, u \in Threads : pc'[k][u] = "blocked" <=> pc[k][u] = "blocked"
  BY DEF Goto, TypeOK
<1>4. \A k \in Machines : Blocked(k)' = Blocked(k)
  BY <1>1, <1>3 DEF Blocked
<1>5. \A k \in Machines, u \in Threads : Completed(k, u)' = Completed(k, u)
  BY <1>3 DEF Completed
<1>. QED  BY <1>1, <1>2, <1>4, <1>5 DEF Barrier, Levels

(* The steps of a thread that has not stopped leave the end of the battle  *)
(* to the main thread.                                                     *)
LEMMA EndsKept ==
  ASSUME BattleInv, UNCHANGED <<game, main, need, ask>>,
         NEW m \in Machines, NEW t \in Threads, PcStep(m, t),
         pc[m][t] # "done", pc'[m][t] # "done",
         pc'[m][t] = "blocked" => need[m] # 0
  PROVE  Ends'
<1>1. Machines' = Machines /\ Threads' = Threads /\ \A k \in Machines : Joined(k)' = Joined(k)
  BY DEF Machines, Threads, Joined
<1>2. \A k \in Machines, u \in Threads :
        /\ pc'[k][u] = "done" <=> pc[k][u] = "done"
        /\ pc'[k][u] = "blocked" => pc[k][u] = "blocked" \/ need[k] # 0
  BY DEF PcStep
<1>3. \A k \in Machines : Ending(k)' = Ending(k)
  BY DEF Ending
<1>4. ASSUME NEW k \in Machines, Ending(k), main[k] # "release" PROVE Blocked(k)' = {}
  <2>1. Blocked(k) = {} /\ need[k] = 0
    BY <1>4 DEF BattleInv, Ends, EndsAt
  <2>. QED  BY <1>1, <1>2, <2>1 DEF Blocked
<1>. QED  BY <1>1, <1>2, <1>3, <1>4 DEF BattleInv, Ends, EndsAt

LEMMA RoomKept ==
  ASSUME BattleInv, UNCHANGED <<game, need>>,
         NEW m \in Machines, NEW t \in Threads, PcStep(m, t),
         \A k \in Machines, u \in Threads :
           \/ rounds'[k][u] = rounds[k][u]
           \/ k = m /\ u = t /\ pc'[m][t] \in {"free", "blocked"},
         pc'[m][t] \notin {"free", "blocked"} /\ t = "units" /\ need[m] # 0
           => Tick(m) < game.ticks
  PROVE  Room'
<1>1. Machines' = Machines /\ "units" \in Threads
  BY TheThreads DEF Machines
<1>2. SUFFICES ASSUME NEW k \in Machines, need[k] # 0,
                      pc'[k]["units"] \in {"pause", "leave", "wpause", "wleave",
                                           "wcheck", "save"}
               PROVE  Tick(k)' < game.ticks
  BY <1>1 DEF Room
<1>3. Tick(k)' = Tick(k)
  BY <1>1, <1>2 DEF Tick
<1>4. CASE k = m /\ t = "units"
  BY <1>2, <1>3, <1>4
<1>5. CASE ~ (k = m /\ t = "units")
  BY <1>1, <1>2, <1>3, <1>5 DEF PcStep, BattleInv, Room
<1>. QED  BY <1>4, <1>5

LEMMA PausesKept ==
  ASSUME BattleInv, UNCHANGED game,
         NEW m \in Machines, NEW t \in Threads, PcStep(m, t),
         \A k \in Machines : k # m \/ t # "units" => paused'[k] = paused[k],
         t = "units" =>
           /\ paused'[m] => pc'[m]["units"] \in {"pause", "leave", "wpause", "wleave"}
           /\ pc'[m]["units"] \in {"leave", "wleave"} => paused'[m]
  PROVE  Pauses'
<1>1. Machines' = Machines /\ "units" \in Threads
  BY TheThreads DEF Machines
<1>2. SUFFICES ASSUME NEW k \in Machines
               PROVE  /\ paused'[k] => pc'[k]["units"] \in {"pause", "leave", "wpause", "wleave"}
                      /\ pc'[k]["units"] \in {"leave", "wleave"} => paused'[k]
  BY <1>1 DEF Pauses
<1>. QED  BY <1>1, <1>2 DEF PcStep, BattleInv, Pauses

LEMMA TicksKept ==
  ASSUME BattleInv, UNCHANGED <<game, heard, ahead>>, remote' => remote,
         NEW m \in Machines, NEW t \in Threads, PcStep(m, t),
         \/ UNCHANGED sent
         \/ sent' = [sent EXCEPT ![m] = Tick(m) + 1],
         \A k \in Machines, u \in Threads :
           \/ rounds'[k][u] = rounds[k][u]
           \/ k = m /\ u = t /\ rounds'[k][u] = rounds[k][u] + 1,
         t = "units" /\ Tick(m)' # Tick(m) /\ Connected /\ (m = Client \/ remote)
           => Tick(m) <= heard[m] + game.drift + Second,
         t = "units" => \/ pc'[m][t] \notin {"pause", "leave"}
                        \/ pc[m][t] = "pause" /\ UNCHANGED rounds
  PROVE  Ticks'
<1>1. Machines' = Machines /\ "units" \in Threads /\ Second \in Nat /\ Connected' = Connected
  BY TheThreads, BattleAssumption DEF Machines, Connected
<1>0. game.drift \in Nat /\ game' = game
  BY GameBounds DEF BattleInv, TypeOK
<1>2. SUFFICES ASSUME Connected, NEW k \in Machines
               PROVE  /\ heard[k] <= sent'[Other(k)]
                      /\ sent'[k] <= Tick(k)' + 1
                      /\ k = Client \/ remote =>
                           /\ Tick(k)' <= heard[k] + game.drift + Second + 1
                           /\ pc'[k]["units"] \in {"pause", "leave"} /\ ~ ahead[k]
                                => Tick(k)' <= heard[k] + game.drift + Second
  BY <1>1 DEF Ticks, Other
<1>3. Other(k) \in Machines /\ \A j \in Machines : Tick(j) \in Nat /\ sent[j] \in Nat /\ heard[j] \in Nat
  BY <1>1, <1>2 DEF Other, Machines, Connected, BattleInv, TypeOK, Tick
<1>4. /\ Tick(k)' = Tick(k) \/ (k = m /\ t = "units" /\ Tick(k)' = Tick(k) + 1)
  BY <1>1 DEF Tick
<1>5. \A j \in Machines : sent'[j] = sent[j] \/ (j = m /\ sent'[j] = Tick(j) + 1)
  BY DEF BattleInv, TypeOK
<1>6. \A j \in Machines : heard[j] <= sent[Other(j)] /\ sent[j] <= Tick(j) + 1
  BY <1>2 DEF BattleInv, Ticks
<1>7. heard[k] <= sent'[Other(k)]
  <2>1. sent[Other(k)] <= sent'[Other(k)]
    BY <1>3, <1>5, <1>6
  <2>. QED  BY <1>3, <1>5, <1>6, <2>1
<1>8. sent'[k] <= Tick(k)' + 1
  BY <1>3, <1>4, <1>5, <1>6
<1>9. k = Client \/ remote =>
        /\ Tick(k) <= heard[k] + game.drift + Second + 1
        /\ pc[k]["units"] \in {"pause", "leave"} /\ ~ ahead[k]
             => Tick(k) <= heard[k] + game.drift + Second
  BY <1>2 DEF BattleInv, Ticks
<1>10. ASSUME k = Client \/ remote
       PROVE  Tick(k)' <= heard[k] + game.drift + Second + 1
  BY <1>0, <1>1, <1>2, <1>3, <1>4, <1>9, <1>10
<1>11. ASSUME k = Client \/ remote, pc'[k]["units"] \in {"pause", "leave"}, ~ ahead[k]
       PROVE  Tick(k)' <= heard[k] + game.drift + Second
  <2>1. CASE k = m /\ t = "units"
    <3>1. pc[k]["units"] = "pause" /\ UNCHANGED rounds
      BY <1>11, <2>1
    <3>2. Tick(k)' = Tick(k)
      BY <3>1 DEF Tick
    <3>. QED  BY <1>9, <1>11, <3>1, <3>2
  <2>2. CASE ~ (k = m /\ t = "units")
    <3>1. pc[k]["units"] \in {"pause", "leave"}
      BY <1>1, <1>11, <2>2 DEF PcStep
    <3>. QED  BY <1>4, <1>9, <1>11, <2>2, <3>1
  <2>. QED  BY <2>1, <2>2
<1>. QED  BY <1>7, <1>8, <1>10, <1>11

LEMMA AloneKept ==
  ASSUME BattleInv, UNCHANGED <<game, main, hasty>>,
         NEW m \in Machines, NEW t \in Threads, PcStep(m, t),
         game.kind = "alone" =>
           /\ UNCHANGED <<coming, specialq, pause>> /\ ~ ahead'[Server]
           /\ pc'[m][t] \notin {"wpause", "wleave", "wcheck", "save"}
           /\ main[Server] \in {"save", "write"} /\ t = "units" /\ pc'[m][t] = "leave"
                => hasty[Server]
           /\ main[Server] = "write" => hasty[Server] \/ paused'[Server]
  PROVE  AloneQuiet'
<1>1. Threads' = Threads /\ (game.kind = "alone" => m = Server) /\ "units" \in Threads
  BY TheThreads DEF Machines, Threads
<1>2. SUFFICES ASSUME game.kind = "alone" PROVE AloneQuiet'
  BY DEF AloneQuiet
<1>3. \A u \in Threads : pc'[Server][u] \notin {"wpause", "wleave", "wcheck", "save"}
  BY <1>1, <1>2 DEF PcStep, BattleInv, AloneQuiet
<1>4. main[Server] \in {"save", "write"} /\ pc'[Server]["units"] = "leave" => hasty[Server]
  BY <1>1, <1>2 DEF PcStep, BattleInv, AloneQuiet
<1>. QED  BY <1>1, <1>2, <1>3, <1>4 DEF BattleInv, AloneQuiet

(* Messages of a machine: what check() takes and what the socket brings.   *)
LEMMA TakesSpecial ==
  ASSUME TypeOK, NEW m \in Machines, specialq[m] # <<>>
  PROVE  /\ Head(specialq[m]) \in Specials
         /\ [specialq EXCEPT ![m] = Tail(@)] \in [Machines -> Seq(Specials)]
<1>1. specialq[m] \in Seq(Specials)
  BY DEF TypeOK
<1>2. Head(specialq[m]) \in Specials /\ Tail(specialq[m]) \in Seq(Specials)
  BY <1>1, HeadTailProperties
<1>. QED  BY <1>2 DEF TypeOK

(* What the steps that meet at the barrier have in common.                 *)
LEMMA MeetKeeps ==
  ASSUME BattleInv, NEW m \in Machines, NEW t \in Threads,
         pc[m][t] \notin {"blocked", "done"}, Sync(m, t),
         need[m] # 0 => rounds[m][t] < game.ticks,
         UNCHANGED <<game, main, orders, hasty, need, ask, pause, previous, ahead, heard, netVars>>,
         guess' \in [Machines -> 0 .. game.drift],
         \/ UNCHANGED sent
         \/ Connected /\ t = "units" /\ sent' = [sent EXCEPT ![m] = Tick(m) + 1],
         \/ /\ t = "units" => pc[m][t] \notin {"pause", "leave", "wpause", "wleave"}
            /\ UNCHANGED paused
         \/ /\ t = "units" /\ (pc[m][t] = "leave" \/ ~ KeptWaiting(m))
            /\ paused' = [paused EXCEPT ![m] = FALSE],
         t = "units" /\ need[m] # 0 /\ Connected /\ (m = Client \/ remote)
           => Tick(m) <= heard[m] + game.drift + Second
  PROVE  BattleInv'
<1>1. /\ PcStep(m, t) /\ pc'[m][t] \in {"free", "blocked"}
      /\ waiting' \in [Machines -> 0 .. Cardinality(Threads) - 1]
      /\ rounds' \in [Machines -> [Threads -> 0 .. game.ticks]]
      /\ Barrier' /\ Levels'
      /\ need[m] = 0 => \A u \in Threads : pc'[m][u] # "blocked"
      /\ \A k \in Machines, u \in Threads :
           rounds'[k][u] = IF k = m /\ u = t /\ need[m] # 0 THEN rounds[k][u] + 1
                                                          ELSE rounds[k][u]
  BY SyncSteps DEF BattleInv
<1>2. /\ Machines' = Machines /\ Threads' = Threads /\ Cardinality(Threads)' = Cardinality(Threads)
      /\ "units" \in Threads
  BY TheThreads DEF Machines, Threads
<1>3. game.ticks \in Nat /\ Tick(m) \in 0 .. game.ticks
  BY <1>2, GameBounds DEF BattleInv, TypeOK, Tick
<1>4. sent' \in [Machines -> 0 .. game.ticks + 1]
  <2>1. Tick(m) + 1 \in 0 .. game.ticks + 1
    BY <1>3
  <2>2. sent \in [Machines -> 0 .. game.ticks + 1]
    BY DEF BattleInv, TypeOK
  <2>. QED  BY <2>1, <2>2
<1>5. paused' \in [Machines -> BOOLEAN]
  BY DEF BattleInv, TypeOK
<1>6. TypeOK'
  BY <1>1, <1>2, <1>4, <1>5 DEF PcStep, BattleInv, TypeOK, netVars
<1>7. Ends'
  BY <1>1, <1>2, EndsKept
<1>8. Room'
  BY <1>1, RoomKept
<1>9. Pauses'
  <2>1. \A k \in Machines : k # m \/ t # "units" => paused'[k] = paused[k]
    BY DEF BattleInv, TypeOK
  <2>2. t = "units" => ~ paused'[m]
    BY DEF BattleInv, TypeOK, Pauses
  <2>. QED  BY <1>1, <2>1, <2>2, PausesKept
<1>10. AloneQuiet'
  <2>1. ASSUME game.kind = "alone"
        PROVE  ~ ahead[Server] /\ (main[Server] = "write" => hasty[Server] \/ paused'[Server])
    <3>1. m = Server
      BY <2>1 DEF Machines
    <3>2. main[Server] = "write" => "units" \notin ask[Server]
      BY <3>1 DEF BattleInv, Ends, EndsAt
    <3>. QED  BY <2>1, <3>1, <3>2 DEF BattleInv, AloneQuiet, KeptWaiting
  <2>. QED  BY <1>1, <2>1, AloneKept DEF netVars
<1>11. Ticks'
  <2>1. \A k \in Machines, u \in Threads :
          \/ rounds'[k][u] = rounds[k][u]
          \/ k = m /\ u = t /\ rounds'[k][u] = rounds[k][u] + 1
    BY <1>1
  <2>2. t = "units" /\ Tick(m)' # Tick(m) => need[m] # 0
    BY <1>1, <1>2 DEF Tick
  <2>. QED  BY <1>1, <2>1, <2>2, TicksKept DEF netVars
<1>. QED  BY <1>1, <1>6, <1>7, <1>8, <1>9, <1>10, <1>11 DEF BattleInv

(* What the other steps of a thread that goes on have in common.           *)
LEMMA GoKeeps ==
  ASSUME BattleInv, NEW m \in Machines, NEW t \in Threads,
         NEW l \in PCs \ {"blocked", "done"},
         pc[m][t] \notin {"blocked", "done"}, Goto(m, t, l),
         UNCHANGED <<game, main, orders, hasty, need, waiting, ask, rounds>>
  PROVE  /\ PcStep(m, t) /\ pc'[m][t] = l /\ Barrier' /\ Levels' /\ Ends'
         /\ pc' \in [Machines -> [Threads -> PCs]]
<1>1. PcStep(m, t) /\ pc'[m][t] = l /\ Barrier' /\ Levels'
  BY GotoSteps DEF BattleInv
<1>. QED  BY <1>1, EndsKept DEF PcStep

(* check() in the thread that is here.                                     *)
LEMMA HandlesKeeps ==
  ASSUME BattleInv, NEW m \in Machines, NEW t \in Threads, HandlesSpecial(m, t),
         \/ t = "players" /\ pc[m][t] = "free"
         \/ t = "units" /\ pc[m][t] = "wcheck"
  PROVE  BattleInv'
<1> DEFINE msg == Head(specialq[m])
<1>1. /\ specialq[m] # <<>>
      /\ specialq' = [specialq EXCEPT ![m] = Tail(@)]
      /\ pause' = [pause EXCEPT ![m] = msg \in {"PAUSE", "SAVE"} \/ (@ /\ msg # "RESUME")]
      /\ remote' = (remote /\ ~ Dropped(m, msg))
      /\ UNCHANGED <<game, main, orders, hasty, need, waiting, ask, rounds, paused, tickVars, coming>>
      /\ \/ previous' = [previous EXCEPT ![m] = pause[m]] /\ Goto(m, t, "save")
         \/ UNCHANGED <<previous, pc>>
  BY DEF HandlesSpecial
<1>2. Machines' = Machines /\ Threads' = Threads
  BY <1>1 DEF Machines, Threads
<1>3. game.kind # "alone"
  BY <1>1 DEF BattleInv, AloneQuiet, Machines
<1>4. /\ PcStep(m, t) /\ pc'[m][t] \in {pc[m][t], "save"}
      /\ Barrier' /\ Levels' /\ Ends' /\ pc' \in [Machines -> [Threads -> PCs]]
  <2>1. CASE Goto(m, t, "save")
    BY <1>1, <2>1, GoKeeps DEF PCs
  <2>2. CASE UNCHANGED <<previous, pc>>
    <3>1. Barrier' /\ Levels' /\ pc \in [Machines -> [Threads -> PCs]]
      BY <1>1, <1>2, <2>2 DEF BattleInv, Barrier, Blocked, Levels, Completed, TypeOK
    <3>2. PcStep(m, t)
      BY <2>2, <3>1 DEF PcStep
    <3>3. Ends'
      BY <1>1, <2>2, <3>2, EndsKept
    <3>. QED  BY <2>2, <3>1, <3>2, <3>3
  <2>. QED  BY <1>1, <2>1, <2>2
<1>5. TypeOK'
  <2>1. specialq' \in [Machines -> Seq(Specials)]
    BY <1>1, TakesSpecial DEF BattleInv
  <2>2. pause' \in [Machines -> BOOLEAN] /\ previous' \in [Machines -> BOOLEAN]
    BY <1>1 DEF BattleInv, TypeOK
  <2>3. remote' \in BOOLEAN
    BY <1>1
  <2>. QED  BY <1>1, <1>2, <1>4, <2>1, <2>2, <2>3 DEF BattleInv, TypeOK, tickVars
<1>6. Room'
  <2>1. t = "units" /\ need[m] # 0 => Tick(m) < game.ticks
    BY DEF BattleInv, Room
  <2>. QED  BY <1>1, <1>4, <2>1, RoomKept
<1>7. Pauses'
  <2>1. t = "units" => ~ paused[m]
    BY DEF BattleInv, Pauses
  <2>2. t = "units" => pc'[m][t] \notin {"leave", "wleave"}
    BY <1>4
  <2>. QED  BY <1>1, <1>4, <2>1, <2>2, PausesKept
<1>8. AloneQuiet'
  BY <1>1, <1>3 DEF AloneQuiet
<1>9. Ticks'
  BY <1>1, <1>4, TicksKept DEF tickVars, Tick
<1>. QED  BY <1>4, <1>5, <1>6, <1>7, <1>8, <1>9 DEF BattleInv

(* The steps of the threads that play.                                     *)
LEMMA StepsKeep ==
  ASSUME BattleInv, NEW m \in Machines, NEW t \in Threads, Steps(m, t)
  PROVE  BattleInv'
<1>1. /\ {"units", "players"} \subseteq Threads
      /\ Threads \subseteq {"units", "players", "weapons", "particles"}
      /\ Second \in Nat /\ game.ticks \in Nat /\ game.drift \in Nat
  BY TheThreads, GameBounds DEF BattleInv, TypeOK
<1>2. CASE Stops(m, t)
  <2>1. /\ pc[m][t] = "free" /\ t \in ask[m] /\ Goto(m, t, "done")
        /\ ask' = IF t = "players" THEN ask ELSE [ask EXCEPT ![m] = @ \ {t}]
        /\ UNCHANGED <<game, main, orders, hasty, need, waiting, rounds, pauseVars, tickVars, netVars>>
    BY <1>2 DEF Stops, At
  <2>2. Machines' = Machines /\ Threads' = Threads
    BY <2>1 DEF Machines, Threads
  <2>3. PcStep(m, t) /\ pc'[m][t] = "done" /\ Barrier' /\ Levels'
    BY <2>1, GotoSteps DEF BattleInv, PCs
  <2>4. TypeOK'
    <3>1. ask' \in [Machines -> SUBSET Threads]
      BY <2>1 DEF BattleInv, TypeOK
    <3>. QED  BY <2>1, <2>2, <2>3, <3>1 DEF PcStep, BattleInv, TypeOK, pauseVars, tickVars, netVars
  <2>5. Ends'
    <3>1. \A k \in Machines : /\ Joined(k)' = Joined(k) /\ Ending(k)' = Ending(k)
                              /\ Blocked(k)' \subseteq Blocked(k)
      BY <2>1, <2>2, <2>3 DEF Joined, Ending, Threads, Blocked, PcStep
    <3>2. main[m] = t
      BY <2>1 DEF BattleInv, Ends, EndsAt
    <3>3. \A k \in Machines : ask'[k] = IF k = m /\ t # "players" THEN ask[k] \ {t} ELSE ask[k]
      BY <2>1 DEF BattleInv, TypeOK
    <3>4. \A k \in Machines, u \in Threads :
            pc'[k][u] = "done" <=> pc[k][u] = "done" \/ (k = m /\ u = t)
      BY <2>3 DEF PcStep
    <3>5. SUFFICES ASSUME NEW k \in Machines
                   PROVE  /\ need[k] # 0 <=> ~ Ending(k)
                          /\ Ending(k) /\ main[k] # "release" => Blocked(k)' = {}
                          /\ \A u \in ask'[k] : main[k] = u
                          /\ \A u \in Threads :
                               /\ u \in Joined(k) => pc'[k][u] = "done"
                               /\ pc'[k][u] = "done" => u \in Joined(k) \cup {main[k]}
                               /\ pc'[k][u] = "done" /\ u # "players" => u \notin ask'[k]
      BY <2>1, <2>2, <3>1 DEF Ends, EndsAt
    <3>6. /\ need[k] # 0 <=> ~ Ending(k)
          /\ Ending(k) /\ main[k] # "release" => Blocked(k)' = {}
          /\ \A u \in ask'[k] : main[k] = u
      BY <3>1, <3>3 DEF BattleInv, Ends, EndsAt
    <3>7. ASSUME NEW u \in Threads
          PROVE  /\ u \in Joined(k) => pc'[k][u] = "done"
                 /\ pc'[k][u] = "done" => u \in Joined(k) \cup {main[k]}
                 /\ pc'[k][u] = "done" /\ u # "players" => u \notin ask'[k]
      <4>1. CASE k = m /\ u = t
        BY <2>1, <3>2, <3>3, <3>4, <4>1
      <4>2. CASE ~ (k = m /\ u = t)
        <5>1. /\ u \in Joined(k) => pc[k][u] = "done"
              /\ pc[k][u] = "done" => u \in Joined(k) \cup {main[k]}
              /\ pc[k][u] = "done" /\ u # "players" => u \notin ask[k]
          BY DEF BattleInv, Ends, EndsAt
        <5>2. ask'[k] \subseteq ask[k] /\ (pc'[k][u] = "done" <=> pc[k][u] = "done")
          BY <3>3, <3>4, <4>2
        <5>. QED  BY <5>1, <5>2
      <4>. QED  BY <4>1, <4>2
    <3>. QED  BY <3>6, <3>7
  <2>6. Room'
    <3>1. need[m] = 0
      BY <1>1, <2>1 DEF BattleInv, Ends, EndsAt, Ending
    <3>. QED  BY <2>1, <2>3, <3>1, RoomKept
  <2>7. Pauses'
    <3>1. t = "units" => ~ paused[m]
      BY <2>1 DEF BattleInv, Pauses
    <3>. QED  BY <2>1, <2>3, <3>1, PausesKept DEF pauseVars
  <2>8. AloneQuiet'
    <3>1. game.kind = "alone" =>
            ~ ahead[Server] /\ (main[Server] = "write" => hasty[Server] \/ paused[Server])
      BY DEF BattleInv, AloneQuiet
    <3>. QED  BY <2>1, <2>3, <3>1, AloneKept DEF pauseVars, tickVars, netVars
  <2>9. Ticks'
    BY <2>1, <2>3, TicksKept DEF tickVars, netVars, Tick
  <2>. QED  BY <2>3, <2>4, <2>5, <2>6, <2>7, <2>8, <2>9 DEF BattleInv
<1>17. guess \in [Machines -> 0 .. game.drift]
  BY DEF BattleInv, TypeOK
<1>3. CASE HelperMoves(m, t)
  BY <1>3, <1>17, MeetKeeps DEF HelperMoves, InLoop, At, pauseVars, tickVars
<1>4. ASSUME t \in {"players", "units"}, SavesForServer(m, t)
      PROVE  BattleInv'
  <2> DEFINE l == IF t = "players" THEN "free" ELSE "wcheck"
  <2>1. /\ pc[m][t] = "save" /\ paused[m] /\ pause' = [pause EXCEPT ![m] = previous[m]]
        /\ Goto(m, t, l)
        /\ UNCHANGED <<game, main, orders, hasty, need, waiting, ask, rounds, paused, previous,
                       tickVars, netVars>>
    BY <1>4 DEF SavesForServer, At
  <2>2. Machines' = Machines /\ Threads' = Threads /\ game.kind # "alone"
    BY <2>1 DEF Machines, Threads, BattleInv, AloneQuiet
  <2>3. /\ PcStep(m, t) /\ pc'[m][t] = l /\ Barrier' /\ Levels' /\ Ends'
        /\ pc' \in [Machines -> [Threads -> PCs]]
    BY <2>1, GoKeeps DEF PCs
  <2>4. TypeOK'
    <3>1. pause' \in [Machines -> BOOLEAN]
      BY <2>1 DEF BattleInv, TypeOK
    <3>. QED  BY <2>1, <2>2, <2>3, <3>1 DEF BattleInv, TypeOK, tickVars, netVars
  <2>5. t = "units" /\ need[m] # 0 => Tick(m) < game.ticks
    BY <2>1 DEF BattleInv, Room
  <2>6. Room'
    BY <2>1, <2>3, <2>5, RoomKept
  <2>7. t = "units" => ~ paused[m]
    BY <2>1 DEF BattleInv, Pauses
  <2>8. Pauses'
    BY <2>1, <2>3, <2>7, PausesKept
  <2>9. AloneQuiet'
    BY <2>1, <2>2 DEF AloneQuiet
  <2>10. Ticks'
    BY <2>1, <2>3, TicksKept DEF tickVars, netVars, Tick
  <2>. QED  BY <2>3, <2>4, <2>6, <2>8, <2>9, <2>10 DEF BattleInv
<1>5. ASSUME t = "players", PlayersCheck(m)
      PROVE  BattleInv'
  BY <1>5, HandlesKeeps DEF PlayersCheck, InLoop, At
<1>6. ASSUME t = "players", PlayersChecked(m)
      PROVE  BattleInv'
  BY <1>6, <1>17, MeetKeeps DEF PlayersChecked, InLoop, At, pauseVars, tickVars
<1>7. ASSUME t = "units", EngineMoves(m)
      PROVE  BattleInv'
  <2>1. /\ pc[m][t] = "free" /\ (need[m] = 0 \/ Tick(m) < game.ticks)
        /\ ahead' = [ahead EXCEPT ![m] = Beyond(m, Tick(m), Second)]
        /\ Goto(m, t, "pause")
        /\ UNCHANGED <<game, main, orders, hasty, need, waiting, ask, rounds, pauseVars, heard,
                       guess, sent, netVars>>
    BY <1>7 DEF EngineMoves, InLoop, At, Tick
  <2>2. Machines' = Machines /\ Threads' = Threads /\ Connected' = Connected
    BY <2>1 DEF Machines, Threads, Connected
  <2>3. /\ PcStep(m, t) /\ pc'[m][t] = "pause" /\ Barrier' /\ Levels' /\ Ends'
        /\ pc' \in [Machines -> [Threads -> PCs]]
    BY <2>1, GoKeeps DEF PCs
  <2>4. TypeOK'
    <3>1. ahead' \in [Machines -> BOOLEAN]
      BY <2>1 DEF BattleInv, TypeOK, Beyond
    <3>. QED  BY <2>1, <2>2, <2>3, <3>1 DEF BattleInv, TypeOK, pauseVars, netVars
  <2>5. Room'
    BY <2>1, <2>3, RoomKept
  <2>6. Pauses'
    <3>1. ~ paused[m]
      BY <1>7, <2>1 DEF BattleInv, Pauses
    <3>. QED  BY <2>1, <2>3, <3>1, <1>7, PausesKept DEF pauseVars
  <2>7. AloneQuiet'
    <3>1. game.kind = "alone" => /\ ~ ahead'[Server]
                            /\ (main[Server] = "write" => hasty[Server] \/ paused[Server])
      BY <2>1 DEF BattleInv, AloneQuiet, TypeOK, Beyond, Follows, Connected, Machines
    <3>. QED  BY <2>1, <2>3, <3>1, AloneKept DEF pauseVars, netVars
  <2>8. Ticks'
    <3>1. \A k \in Machines : ahead'[k] = IF k = m THEN Beyond(m, Tick(m), Second) ELSE ahead[k]
      BY <2>1 DEF BattleInv, TypeOK
    <3>2. \A k \in Machines : k # m =>
            /\ pc'[k]["units"] = "pause" <=> pc[k]["units"] = "pause"
            /\ pc'[k]["units"] = "leave" <=> pc[k]["units"] = "leave"
      BY <1>1, <2>3 DEF PcStep
    <3>3. heard[m] \in Nat /\ Tick(m) \in Nat /\ guess[m] \in 0 .. game.drift
      BY <1>1 DEF BattleInv, TypeOK, Tick
    <3>4. ASSUME Connected, m = Client \/ remote, ~ ahead'[m]
          PROVE  Tick(m) <= heard[m] + game.drift + Second
      <4>1. ~ Beyond(m, Tick(m), Second)
        BY <3>1, <3>4
      <4>2. ~ (Tick(m) > heard[m] + guess[m] + Second)
        BY <3>4, <4>1 DEF Beyond, Follows
      <4>. QED  BY <1>1, <3>3, <4>2
    <3>5. ASSUME Connected, NEW k \in Machines
          PROVE  /\ heard[k] <= sent[Other(k)]
                 /\ sent[k] <= Tick(k) + 1
                 /\ k = Client \/ remote =>
                      /\ Tick(k) <= heard[k] + game.drift + Second + 1
                      /\ pc'[k]["units"] \in {"pause", "leave"} /\ ~ ahead'[k]
                           => Tick(k) <= heard[k] + game.drift + Second
      BY <3>1, <3>2, <3>4, <3>5 DEF BattleInv, Ticks
    <3>6. \A k \in Machines : Tick(k)' = Tick(k) /\ Other(k)' = Other(k)
      BY <2>1 DEF Tick, Other
    <3>. QED  BY <2>1, <2>2, <3>5, <3>6 DEF Ticks, Other, netVars
  <2>. QED  BY <2>3, <2>4, <2>5, <2>6, <2>7, <2>8 DEF BattleInv
<1>8. ASSUME t = "units", EnginePauses(m)
      PROVE  BattleInv'
  <2>1. /\ pc[m]["units"] \in {"pause", "wpause"} /\ paused' = [paused EXCEPT ![m] = TRUE]
        /\ UNCHANGED <<game, main, orders, hasty, threadVars, pause, previous, tickVars, netVars>>
    BY <1>8 DEF EnginePauses
  <2>2. Machines' = Machines /\ Threads' = Threads
    BY <2>1 DEF Machines, Threads
  <2>3. \A k \in Machines : paused'[k] = (k = m \/ paused[k])
    BY <2>1 DEF BattleInv, TypeOK
  <2>4. TypeOK'
    <3>1. paused' \in [Machines -> BOOLEAN]
      BY <2>1 DEF BattleInv, TypeOK
    <3>. QED  BY <2>1, <2>2, <3>1 DEF BattleInv, TypeOK, threadVars, tickVars, netVars
  <2>5. Pauses' /\ AloneQuiet'
    BY <2>1, <2>2, <2>3 DEF BattleInv, Pauses, AloneQuiet, Machines, threadVars, tickVars, netVars
  <2>6. Barrier' /\ Levels' /\ Room' /\ Ends' /\ Ticks'
    BY <2>1, <2>2 DEF BattleInv, Barrier, Blocked, Levels, Completed, Room, Tick, Ends, EndsAt,
       Ending, Joined, Ticks, Connected, threadVars, tickVars, netVars
  <2>. QED  BY <2>4, <2>5, <2>6 DEF BattleInv
<1>9. ASSUME NEW l \in {"wpause", "wcheck"}, t = "units",
             pc[m]["units"] \in {"pause", "leave", "wpause", "wleave", "wcheck"},
             game.kind # "alone",
             Goto(m, "units", l),
             UNCHANGED <<game, main, orders, hasty, need, waiting, ask, rounds, pause, previous,
                         ahead, heard, netVars>>,
             \/ UNCHANGED paused /\ pc[m]["units"] = "wcheck"
             \/ paused' = [paused EXCEPT ![m] = FALSE],
             guess' \in [Machines -> 0 .. game.drift],
             UNCHANGED sent \/ SendTick(m)
      PROVE  BattleInv'
  <2>1. Machines' = Machines /\ Threads' = Threads
    BY <1>9 DEF Machines, Threads
  <2>2. /\ PcStep(m, t) /\ pc'[m][t] = l /\ Barrier' /\ Levels' /\ Ends'
        /\ pc' \in [Machines -> [Threads -> PCs]]
    BY <1>9, GoKeeps DEF PCs
  <2>3. need[m] # 0 => Tick(m) < game.ticks
    BY <1>9 DEF BattleInv, Room
  <2>4. \/ UNCHANGED sent
        \/ sent' = [sent EXCEPT ![m] = Tick(m) + 1]
    BY <1>9 DEF SendTick
  <2>5. TypeOK'
    <3>1. sent' \in [Machines -> 0 .. game.ticks + 1]
      <4>1. Tick(m) + 1 \in 0 .. game.ticks + 1
        BY <1>1 DEF BattleInv, TypeOK, Tick
      <4>2. sent \in [Machines -> 0 .. game.ticks + 1]
        BY DEF BattleInv, TypeOK
      <4>. QED  BY <2>4, <4>1, <4>2
    <3>2. paused' \in [Machines -> BOOLEAN]
      BY <1>9 DEF BattleInv, TypeOK
    <3>. QED  BY <1>9, <2>1, <2>2, <3>1, <3>2 DEF BattleInv, TypeOK, netVars
  <2>6. Room'
    BY <1>9, <2>2, <2>3, RoomKept
  <2>7. Pauses'
    <3>1. /\ \A k \in Machines : k # m => paused'[k] = paused[k]
          /\ ~ paused'[m]
      BY <1>9 DEF BattleInv, TypeOK, Pauses
    <3>. QED  BY <1>9, <2>2, <3>1, PausesKept
  <2>8. AloneQuiet'
    BY <1>9 DEF AloneQuiet
  <2>9. Ticks'
    BY <1>9, <2>2, <2>4, TicksKept DEF netVars, Tick
  <2>. QED  BY <2>2, <2>5, <2>6, <2>7, <2>8, <2>9 DEF BattleInv
<1>10. ASSUME t = "units", pc[m]["units"] \in {"pause", "leave", "wpause", "wleave", "wcheck"}
       PROVE  /\ need[m] # 0 => Tick(m) < game.ticks
              /\ "units" \in ask[m] => need[m] = 0
  BY <1>10 DEF BattleInv, Room, Ends, EndsAt, Ending, TypeOK, Threads
<1>15. ASSUME t = "units", EngineLeaves(m)
       PROVE  BattleInv'
  <2> DEFINE l == IF pc[m]["units"] = "pause" THEN "leave" ELSE "wleave"
  <2>1. /\ pc[m]["units"] \in {"pause", "wpause"} /\ ~ KeptWaiting(m) /\ paused[m]
        /\ Goto(m, t, l)
        /\ UNCHANGED <<game, main, orders, hasty, need, waiting, ask, rounds, pauseVars,
                       tickVars, netVars>>
    BY <1>15 DEF EngineLeaves, At
  <2>2. Machines' = Machines /\ Threads' = Threads
    BY <2>1 DEF Machines, Threads
  <2>3. /\ PcStep(m, t) /\ pc'[m][t] = l /\ Barrier' /\ Levels' /\ Ends'
        /\ pc' \in [Machines -> [Threads -> PCs]]
    BY <1>15, <2>1, GoKeeps DEF PCs
  <2>4. TypeOK'
    BY <2>1, <2>2, <2>3 DEF BattleInv, TypeOK, pauseVars, tickVars, netVars
  <2>5. Room'
    BY <1>10, <1>15, <2>1, <2>3, RoomKept
  <2>6. Pauses'
    BY <1>15, <2>1, <2>3, PausesKept DEF pauseVars
  <2>7. AloneQuiet'
    <3>1. ASSUME game.kind = "alone"
          PROVE  /\ ~ ahead[Server] /\ l = "leave" /\ main[Server] \notin {"save", "write"}
      <4>1. m = Server /\ "units" \in Threads
        BY <1>1, <3>1 DEF Machines
      <4>2. main[Server] \in {"save", "write"} => "units" \notin ask[Server]
        BY <4>1 DEF BattleInv, Ends, EndsAt
      <4>. QED  BY <2>1, <3>1, <4>1, <4>2 DEF BattleInv, AloneQuiet, KeptWaiting
    <3>. QED  BY <2>1, <2>3, <3>1, AloneKept DEF pauseVars, tickVars, netVars
  <2>8. Ticks'
    BY <1>15, <2>1, <2>3, TicksKept DEF tickVars, netVars, Tick
  <2>. QED  BY <2>3, <2>4, <2>5, <2>6, <2>7, <2>8 DEF BattleInv
<1>16. ASSUME Guesses(m) PROVE guess' \in [Machines -> 0 .. game.drift]
  BY <1>1, <1>16 DEF BattleInv, TypeOK, Guesses
<1>11. ASSUME t = "units", EngineSends(m)
       PROVE  BattleInv'
  <2>1. /\ pc[m]["units"] = "leave" \/ (pc[m]["units"] = "pause" /\ ~ KeptWaiting(m))
        /\ paused' = [paused EXCEPT ![m] = FALSE] /\ SendTick(m)
        /\ UNCHANGED <<game, main, orders, hasty, need, ask, pause, previous, ahead, heard, netVars>>
        /\ guess' \in [Machines -> 0 .. game.drift]
    BY <1>11, <1>16 DEF EngineSends, LeftLoop, At, NotPaused
  <2>2. CASE ahead[m] /\ "units" \notin ask[m]
    <3>1. Goto(m, "units", "wpause") /\ UNCHANGED <<waiting, rounds>>
      BY <1>11, <2>2 DEF EngineSends
    <3>2. game.kind # "alone"
      BY <2>2 DEF BattleInv, AloneQuiet, Machines
    <3>. QED  BY <1>9, <1>11, <2>1, <3>1, <3>2
  <2>3. CASE ~ (ahead[m] /\ "units" \notin ask[m])
    <3>1. Sync(m, "units")
      BY <1>11, <2>3 DEF EngineSends
    <3>2. need[m] # 0 /\ Connected /\ (m = Client \/ remote)
            => Tick(m) <= heard[m] + game.drift + Second
      BY <1>10, <1>11, <2>1, <2>3 DEF BattleInv, Ticks
    <3>3. UNCHANGED sent \/ (Connected /\ sent' = [sent EXCEPT ![m] = Tick(m) + 1])
      BY <2>1 DEF SendTick
    <3>. QED  BY <1>10, <1>11, <2>1, <3>1, <3>2, <3>3, MeetKeeps DEF Tick
  <2>. QED  BY <2>2, <2>3
<1>12. ASSUME t = "units", EngineWaits(m)
       PROVE  BattleInv'
  <2>1. /\ pc[m]["units"] \in {"wpause", "wleave"} /\ paused' = [paused EXCEPT ![m] = FALSE]
        /\ Goto(m, "units", "wcheck")
        /\ UNCHANGED <<game, main, orders, hasty, need, waiting, ask, rounds, pause, previous,
                       ahead, heard, guess, sent, netVars>>
    BY <1>12 DEF EngineWaits, LeftLoop, At, NotPaused, tickVars
  <2>2. game.kind # "alone"
    BY <1>12, <2>1 DEF BattleInv, AloneQuiet, Machines
  <2>3. guess' \in [Machines -> 0 .. game.drift]
    BY <2>1 DEF BattleInv, TypeOK
  <2>. QED  BY <1>9, <1>12, <2>1, <2>2, <2>3
<1>13. ASSUME t = "units", EngineChecks(m)
       PROVE  BattleInv'
  BY <1>13, HandlesKeeps DEF EngineChecks, At
<1>14. ASSUME t = "units", EngineChecked(m)
       PROVE  BattleInv'
  <2>1. /\ pc[m]["units"] = "wcheck" /\ SendTick(m)
        /\ UNCHANGED <<game, main, orders, hasty, need, ask, pause, paused, previous, ahead, heard,
                       guess, netVars>>
        /\ guess' \in [Machines -> 0 .. game.drift]
    BY <1>14 DEF EngineChecked, At, pauseVars, BattleInv, TypeOK
  <2>2. game.kind # "alone"
    BY <2>1, <1>14 DEF BattleInv, AloneQuiet, Machines
  <2>3. CASE Beyond(m, Tick(m), 0) /\ "units" \notin ask[m]
    <3>1. Goto(m, "units", "wpause") /\ UNCHANGED <<waiting, rounds>>
      BY <1>14, <2>3 DEF EngineChecked
    <3>. QED  BY <1>9, <1>14, <2>1, <2>2, <3>1
  <2>4. CASE ~ (Beyond(m, Tick(m), 0) /\ "units" \notin ask[m])
    <3>1. Sync(m, "units")
      BY <1>14, <2>4 DEF EngineChecked
    <3>2. need[m] # 0 /\ Connected /\ (m = Client \/ remote)
            => Tick(m) <= heard[m] + game.drift + Second
      <4>1. heard[m] \in Nat /\ Tick(m) \in Nat /\ guess[m] \in 0 .. game.drift
        BY <1>1 DEF BattleInv, TypeOK, Tick
      <4>. QED  BY <1>1, <1>10, <1>14, <2>1, <2>4, <4>1 DEF Beyond, Follows
    <3>3. UNCHANGED sent \/ (Connected /\ sent' = [sent EXCEPT ![m] = Tick(m) + 1])
      BY <2>1 DEF SendTick
    <3>. QED  BY <1>10, <1>14, <2>1, <3>1, <3>2, <3>3, MeetKeeps DEF Tick
  <2>. QED  BY <2>3, <2>4
<1>. QED  BY <1>2, <1>3, <1>4, <1>5, <1>6, <1>7, <1>8, <1>11, <1>12, <1>13, <1>14,
               <1>15
          DEF Steps, Players, Units

LEMMA TellTyped ==
  ASSUME TypeOK, Connected, NEW m \in Machines, NEW msg \in Specials,
         Tell(m, msg) \/ UNCHANGED coming
  PROVE  coming' \in [Machines -> Seq(Specials)]
<1>1. Other(m) \in Machines
  BY DEF Connected, Machines, Other
<1>2. Append(coming[Other(m)], msg) \in Seq(Specials)
  BY <1>1, AppendProperties DEF TypeOK
<1>3. coming \in [Machines -> Seq(Specials)]
  BY DEF TypeOK
<1>. QED  BY <1>1, <1>2, <1>3 DEF Tell

(* What the steps that move no thread leave as it is.                      *)
LEMMA ThreadsRest ==
  ASSUME BattleInv, UNCHANGED <<game, threadVars>>
  PROVE  /\ Machines' = Machines /\ Threads' = Threads /\ Connected' = Connected
         /\ Barrier' /\ Levels' /\ Room'
         /\ UNCHANGED paused => Pauses'
         /\ UNCHANGED main => Ends'
BY DEF BattleInv, Machines, Threads, Connected, Barrier, Blocked, Levels, Completed, Room,
       Tick, Pauses, Ends, EndsAt, Ending, Joined, threadVars

(* Until the main thread releases the barrier, nobody is asked to stop.    *)
LEMMA NobodyAsked ==
  ASSUME BattleInv, NEW m \in Machines, main[m] \in {"play", "save", "write", "release"}
  PROVE  /\ ask[m] = {} /\ Joined(m) = {}
         /\ \A u \in Threads : pc[m][u] # "done"
<1>1. main[m] \notin Threads
  BY TheThreads
<1>2. Joined(m) = {}
  BY DEF Joined
<1>3. ask[m] \subseteq Threads /\ EndsAt(m)
  BY DEF BattleInv, TypeOK, Ends
<1>. QED  BY <1>1, <1>2, <1>3 DEF EndsAt

(* The end of the battle on the other machine.                             *)
LEMMA OthersEnd ==
  ASSUME BattleInv, UNCHANGED game, NEW m \in Machines, EndsAt(m)',
         \A k \in Machines : k # m =>
           /\ main'[k] = main[k] /\ need'[k] = need[k]
           /\ ask'[k] = ask[k] /\ pc'[k] = pc[k]
  PROVE  Ends'
<1>1. Machines' = Machines /\ Threads' = Threads
  BY DEF Machines, Threads
<1>2. ASSUME NEW k \in Machines, k # m PROVE EndsAt(k)'
  <2>1. /\ main'[k] = main[k] /\ need'[k] = need[k] /\ ask'[k] = ask[k] /\ pc'[k] = pc[k]
    BY <1>2
  <2>2. Joined(k)' = Joined(k) /\ Ending(k)' = Ending(k) /\ Blocked(k)' = Blocked(k)
    BY <1>1, <2>1 DEF Joined, Ending, Blocked
  <2>. QED  BY <1>1, <2>1, <2>2 DEF BattleInv, Ends, EndsAt
<1>. QED  BY <1>1, <1>2 DEF Ends

(* The main thread and the user.                                           *)
LEMMA MainKeeps ==
  ASSUME BattleInv, NEW m \in Machines, User(m) \/ MainGoesOn(m)
  PROVE  BattleInv'
<1>1. CASE Orders(m)
  <2>1. /\ main[m] = "play" /\ orders < game.orders /\ orders' = orders + 1
        /\ pause' = [pause EXCEPT ![m] = ~ @]
        /\ (Connected /\ Tell(m, IF pause[m] THEN "RESUME" ELSE "PAUSE")) \/ UNCHANGED coming
        /\ UNCHANGED <<game, main, hasty, threadVars, paused, previous, tickVars, specialq, remote>>
    BY <1>1 DEF Orders, MayOrder
  <2>2. /\ Machines' = Machines /\ Threads' = Threads /\ Connected' = Connected
        /\ Barrier' /\ Levels' /\ Room' /\ Pauses' /\ Ends'
    BY <2>1, ThreadsRest
  <2>3. TypeOK'
    <3>1. coming' \in [Machines -> Seq(Specials)]
      <4>1. CASE Connected
        BY <2>1, <4>1, TellTyped DEF BattleInv, Specials
      <4>2. CASE UNCHANGED coming
        BY <4>2 DEF BattleInv, TypeOK
      <4>. QED  BY <2>1, <4>1, <4>2
    <3>2. pause' \in [Machines -> BOOLEAN]
      BY <2>1 DEF BattleInv, TypeOK
    <3>3. orders' \in 0 .. game.orders
      BY <2>1, GameBounds DEF BattleInv, TypeOK
    <3>. QED  BY <2>1, <2>2, <3>1, <3>2, <3>3 DEF BattleInv, TypeOK, threadVars, tickVars
  <2>4. AloneQuiet'
    BY <2>1, <2>2 DEF BattleInv, AloneQuiet, Connected, Machines, threadVars, tickVars
  <2>5. Ticks'
    BY <2>1, <2>2 DEF BattleInv, Ticks, Tick, Other, threadVars, tickVars
  <2>. QED  BY <2>2, <2>3, <2>4, <2>5 DEF BattleInv
<1>2. CASE MainSaves(m)
  <2>1. /\ main[m] = "play" /\ orders < game.orders /\ orders' = orders + 1
        /\ IF Connected THEN Tell(m, "SAVE") ELSE UNCHANGED coming
        /\ previous' = [previous EXCEPT ![m] = pause[m]]
        /\ pause' = [pause EXCEPT ![m] = TRUE]
        /\ main' = [main EXCEPT ![m] = "save"]
        /\ hasty' = [hasty EXCEPT ![m] = paused[m] /\ pc[m]["units"] = "leave"]
        /\ UNCHANGED <<game, threadVars, paused, tickVars, specialq, remote>>
    BY <1>2 DEF MainSaves, MayOrder, At
  <2>2. /\ Machines' = Machines /\ Threads' = Threads /\ Connected' = Connected
        /\ Barrier' /\ Levels' /\ Room' /\ Pauses'
    BY <2>1, ThreadsRest
  <2>3. TypeOK'
    <3>1. coming' \in [Machines -> Seq(Specials)]
      <4>1. CASE Connected
        BY <2>1, <4>1, TellTyped DEF BattleInv, Specials
      <4>2. CASE UNCHANGED coming
        BY <4>2 DEF BattleInv, TypeOK
      <4>. QED  BY <2>1, <4>1, <4>2
    <3>2. pause' \in [Machines -> BOOLEAN] /\ previous' \in [Machines -> BOOLEAN]
      BY <2>1 DEF BattleInv, TypeOK
    <3>3. orders' \in 0 .. game.orders
      BY <2>1, GameBounds DEF BattleInv, TypeOK
    <3>5. hasty' \in [Machines -> BOOLEAN]
      BY <2>1 DEF BattleInv, TypeOK
    <3>4. main' \in [Machines -> MainPCs \cup Threads]
      BY <2>1 DEF BattleInv, TypeOK, MainPCs
    <3>. QED  BY <2>1, <2>2, <3>1, <3>2, <3>3, <3>4, <3>5 DEF BattleInv, TypeOK, threadVars, tickVars
  <2>4. \A k \in Machines : main'[k] = IF k = m THEN "save" ELSE main[k]
    BY <2>1 DEF BattleInv, TypeOK
  <2>5. Ends'
    <3>1. Joined(m)' = Joined(m) /\ Ending(m)' = Ending(m) /\ Blocked(m)' = Blocked(m)
      BY <2>1, <2>2, <2>4 DEF Joined, Ending, Blocked, threadVars
    <3>2. ask[m] = {} /\ \A u \in Threads : pc[m][u] # "done" /\ u \notin Joined(m)
      BY <2>1, NobodyAsked
    <3>3. EndsAt(m)'
      BY <2>1, <2>2, <3>1, <3>2 DEF BattleInv, Ends, EndsAt, Ending, threadVars
    <3>. QED  BY <2>1, <2>4, <3>3, OthersEnd DEF threadVars
  <2>6. AloneQuiet'
    <3>1. ASSUME game.kind = "alone"
          PROVE  /\ m = Server /\ UNCHANGED coming
                 /\ pause'[Server] /\ (pc[Server]["units"] = "leave" => hasty'[Server])
      <4>1. m = Server /\ ~ Connected
        BY <3>1 DEF Machines, Connected
      <4>2. pc[m]["units"] = "leave" => paused[m]
        BY DEF BattleInv, Pauses
      <4>3. pause \in [Machines -> BOOLEAN] /\ hasty \in [Machines -> BOOLEAN]
        BY DEF BattleInv, TypeOK
      <4>. QED  BY <2>1, <4>1, <4>2, <4>3
    <3>2. UNCHANGED <<game, pc, paused, ahead, specialq>> /\ Threads' = Threads
      BY <2>1, <2>2 DEF threadVars, tickVars
    <3>3. main'[m] = "save"
      BY <2>4
    <3>. QED  BY <3>1, <3>2, <3>3 DEF BattleInv, AloneQuiet
  <2>7. Ticks'
    BY <2>1, <2>2 DEF BattleInv, Ticks, Tick, Other, threadVars, tickVars
  <2>. QED  BY <2>2, <2>3, <2>5, <2>6, <2>7 DEF BattleInv
<1>3. ASSUME main[m] \in {"save", "write"}, NEW l \in {"write", "play"},
             main' = [main EXCEPT ![m] = l], l = "write" => paused[m] /\ UNCHANGED pause,
             UNCHANGED pause \/ pause' = [pause EXCEPT ![m] = FALSE],
             UNCHANGED hasty \/ (l = "play" /\ hasty' = [hasty EXCEPT ![m] = FALSE]),
             UNCHANGED <<game, orders, threadVars, paused, previous, tickVars, netVars>>
      PROVE  BattleInv'
  <2>1. /\ Machines' = Machines /\ Threads' = Threads /\ Connected' = Connected
        /\ Barrier' /\ Levels' /\ Room' /\ Pauses'
    BY <1>3, ThreadsRest
  <2>2. TypeOK'
    <3>1. pause' \in [Machines -> BOOLEAN]
      BY <1>3 DEF BattleInv, TypeOK
    <3>2. main' \in [Machines -> MainPCs \cup Threads]
      BY <1>3 DEF BattleInv, TypeOK, MainPCs
    <3>3. hasty' \in [Machines -> BOOLEAN]
      BY <1>3 DEF BattleInv, TypeOK
    <3>. QED  BY <1>3, <2>1, <3>1, <3>2, <3>3 DEF BattleInv, TypeOK, threadVars, tickVars, netVars
  <2>3. \A k \in Machines : main'[k] = IF k = m THEN l ELSE main[k]
    BY <1>3 DEF BattleInv, TypeOK
  <2>4. Ends'
    <3>1. Joined(m)' = Joined(m) /\ Ending(m)' = Ending(m) /\ Blocked(m)' = Blocked(m)
      BY <1>3, <2>1, <2>3 DEF Joined, Ending, Blocked, threadVars
    <3>2. ask[m] = {} /\ \A u \in Threads : pc[m][u] # "done" /\ u \notin Joined(m)
      BY <1>3, NobodyAsked
    <3>3. EndsAt(m)'
      BY <1>3, <2>1, <3>1, <3>2 DEF BattleInv, Ends, EndsAt, Ending, threadVars
    <3>. QED  BY <1>3, <2>3, <3>3, OthersEnd DEF threadVars
  <2>5. AloneQuiet'
    BY <1>3, <2>1, <2>3 DEF BattleInv, TypeOK, AloneQuiet, Machines, threadVars, tickVars, netVars
  <2>6. Ticks'
    BY <1>3, <2>1 DEF BattleInv, Ticks, Tick, Other, threadVars, tickVars, netVars
  <2>. QED  BY <2>1, <2>2, <2>4, <2>5, <2>6 DEF BattleInv
<1>4. CASE MainWrites(m)
  BY <1>3, <1>4 DEF MainWrites, pauseVars
<1>5. CASE MainSaved(m)
  BY <1>3, <1>5 DEF MainSaved
<1>6. CASE MainLeaves(m)
  <2>1. /\ main[m] = "play" /\ (Connected => m = Client)
        /\ IF m = Client THEN Tell(m, "GONE") ELSE UNCHANGED coming
        /\ need' = [need EXCEPT ![m] = 0]
        /\ main' = [main EXCEPT ![m] = "release"]
        /\ UNCHANGED <<game, orders, hasty, pc, waiting, ask, rounds, pauseVars, tickVars, specialq, remote>>
    BY <1>6 DEF MainLeaves
  <2>2. Machines' = Machines /\ Threads' = Threads /\ Connected' = Connected
    BY <2>1 DEF Machines, Threads, Connected
  <2>3. TypeOK'
    <3>1. coming' \in [Machines -> Seq(Specials)]
      <4>1. CASE m = Client
        <5>1. Connected
          BY <4>1, BattleAssumption DEF Machines, Connected
        <5>. QED  BY <2>1, <4>1, <5>1, TellTyped DEF BattleInv, Specials
      <4>2. CASE UNCHANGED coming
        BY <4>2 DEF BattleInv, TypeOK
      <4>. QED  BY <2>1, <4>1, <4>2
    <3>2. need' \in [Machines -> {0, Cardinality(Threads)}]
      BY <2>1 DEF BattleInv, TypeOK
    <3>3. main' \in [Machines -> MainPCs \cup Threads]
      BY <2>1 DEF BattleInv, TypeOK, MainPCs
    <3>. QED  BY <2>1, <2>2, <3>1, <3>2, <3>3 DEF BattleInv, TypeOK, pauseVars, tickVars
  <2>4. \A k \in Machines : /\ main'[k] = IF k = m THEN "release" ELSE main[k]
                            /\ need'[k] = IF k = m THEN 0 ELSE need[k]
    BY <2>1 DEF BattleInv, TypeOK
  <2>5. Barrier' /\ Levels' /\ Room' /\ Pauses'
    BY <2>1, <2>2, <2>4 DEF BattleInv, Barrier, Blocked, Levels, Completed, Room, Tick, Pauses,
       pauseVars
  <2>6. Ends'
    <3>1. \A k \in Machines : /\ Joined(k)' = Joined(k)
                              /\ Ending(k)' = (k = m \/ Ending(k))
                              /\ Blocked(k)' = Blocked(k)
      BY <2>1, <2>2, <2>4 DEF Joined, Ending, Blocked
    <3>2. ask[m] = {} /\ \A u \in Threads : pc[m][u] # "done" /\ u \notin Joined(m)
      BY <2>1, NobodyAsked
    <3>3. EndsAt(m)'
      BY <2>1, <2>2, <2>4, <3>1, <3>2 DEF EndsAt
    <3>. QED  BY <2>1, <2>4, <3>3, OthersEnd
  <2>7. AloneQuiet'
    <3>1. game.kind = "alone" => m = Server /\ m # Client
      BY BattleAssumption DEF Machines
    <3>. QED  BY <2>1, <2>2, <2>4, <3>1 DEF BattleInv, AloneQuiet, Machines, pauseVars, tickVars
  <2>8. Ticks'
    BY <2>1, <2>2 DEF BattleInv, Ticks, Tick, Other, tickVars
  <2>. QED  BY <2>3, <2>5, <2>6, <2>7, <2>8 DEF BattleInv
<1>7. CASE MainReleases(m)
  <2>1. /\ main[m] = "release"
        /\ waiting' = [waiting EXCEPT ![m] = 0]
        /\ pc' = [pc EXCEPT ![m] = [t \in Threads |->
                    IF pc[m][t] = "blocked" THEN "free" ELSE pc[m][t]]]
        /\ ask' = [ask EXCEPT ![m] = @ \cup {"players"}]
        /\ main' = [main EXCEPT ![m] = "players"]
        /\ UNCHANGED <<game, orders, hasty, need, rounds, pauseVars, tickVars, netVars>>
    BY <1>7, StopsInOrder DEF MainReleases
  <2>2. /\ Machines' = Machines /\ Threads' = Threads /\ Connected' = Connected
        /\ {"units", "players"} \subseteq Threads
        /\ Cardinality(Threads) \in Nat /\ Cardinality(Threads) > 1
    BY <2>1, TheThreads DEF Machines, Threads, Connected
  <2>3. pc \in [Machines -> [Threads -> PCs]] /\ main \in [Machines -> MainPCs \cup Threads]
    BY DEF BattleInv, TypeOK
  <2>4. /\ pc' \in [Machines -> [Threads -> PCs]]
        /\ \A k \in Machines : k # m => pc'[k] = pc[k]
        /\ \A u \in Threads : pc'[m][u] = IF pc[m][u] = "blocked" THEN "free" ELSE pc[m][u]
    <3>1. [t \in Threads |-> IF pc[m][t] = "blocked" THEN "free" ELSE pc[m][t]]
            \in [Threads -> PCs]
      BY <2>3 DEF PCs
    <3>. QED  BY <2>1, <2>3, <3>1
  <2>5. \A k \in Machines : /\ main'[k] = IF k = m THEN "players" ELSE main[k]
                            /\ waiting'[k] = IF k = m THEN 0 ELSE waiting[k]
                            /\ ask'[k] = IF k = m THEN ask[k] \cup {"players"} ELSE ask[k]
    BY <2>1 DEF BattleInv, TypeOK
  <2>6. TypeOK'
    <3>1. waiting' \in [Machines -> 0 .. Cardinality(Threads) - 1]
      BY <2>1, <2>2 DEF BattleInv, TypeOK
    <3>2. ask' \in [Machines -> SUBSET Threads]
      <4>1. ask \in [Machines -> SUBSET Threads]
        BY DEF BattleInv, TypeOK
      <4>. QED  BY <2>1, <2>2, <4>1
    <3>3. main' \in [Machines -> MainPCs \cup Threads]
      BY <2>1, <2>2, <2>3
    <3>. QED  BY <2>1, <2>2, <2>4, <3>1, <3>2, <3>3
              DEF BattleInv, TypeOK, pauseVars, tickVars, netVars
  <2>7. \A k \in Machines : Blocked(k)' = IF k = m THEN {} ELSE Blocked(k)
    BY <2>2, <2>4 DEF Blocked
  <2>8. need[m] = 0
    BY <2>1 DEF BattleInv, Ends, EndsAt, Ending
  <2>9. Barrier'
    BY <2>2, <2>5, <2>7, FS_EmptySet DEF BattleInv, Barrier
  <2>10. Levels' /\ Room' /\ Pauses'
    BY <2>1, <2>2, <2>4, <2>8 DEF BattleInv, Levels, Completed, Room, Tick, Pauses, pauseVars
  <2>11. Ends'
    <3>1. \A k \in Machines : /\ Joined(k)' = Joined(k) /\ Ending(k)' = Ending(k)
      BY <2>1, <2>2, <2>5 DEF Joined, Ending
    <3>2. ask[m] = {} /\ \A u \in Threads : pc[m][u] # "done" /\ u \notin Joined(m)
      BY <2>1, NobodyAsked
    <3>3. EndsAt(m)'
      <4>1. /\ need'[m] = 0 /\ main'[m] = "players" /\ ask'[m] = {"players"}
            /\ Blocked(m)' = {} /\ Joined(m)' = Joined(m)
        BY <2>1, <2>5, <2>7, <2>8, <3>1, <3>2
      <4>2. Ending(m)'
        BY <4>1 DEF Ending
      <4>3. \A u \in Threads : pc'[m][u] # "done" /\ u \notin Joined(m)
        BY <2>4, <3>2
      <4>. QED  BY <2>2, <4>1, <4>2, <4>3 DEF EndsAt
    <3>. QED  BY <2>1, <2>4, <2>5, <3>3, OthersEnd
  <2>12. AloneQuiet'
    BY <2>1, <2>2, <2>4, <2>5 DEF BattleInv, AloneQuiet, Machines, pauseVars, tickVars, netVars
  <2>13. Ticks'
    BY <2>1, <2>2, <2>4 DEF BattleInv, Ticks, Tick, Other, tickVars, netVars
  <2>. QED  BY <2>6, <2>9, <2>10, <2>11, <2>12, <2>13 DEF BattleInv
<1>8. CASE MainJoins(m)
  <2> DEFINE t == main[m]
             n == NextToStop(t)
  <2>1. /\ t \in Threads /\ pc[m][t] = "done"
        /\ main' = [main EXCEPT ![m] = n]
        /\ ask' = [ask EXCEPT ![m] = (@ \cup {n}) \ {"players", "over"}]
        /\ UNCHANGED <<game, orders, hasty, pc, need, waiting, rounds, pauseVars, tickVars, netVars>>
    BY <1>8 DEF MainJoins, At
  <2>2. /\ Machines' = Machines /\ Threads' = Threads /\ Connected' = Connected
    BY <2>1 DEF Machines, Threads, Connected
  <2>3. /\ n \in Threads \cup {"over"} /\ n # t /\ n # "players"
        /\ n \notin Joined(m)
        /\ (n # "over" => Joined(m) \cup {t} = CASE n = "weapons"   -> {"players"}
                               [] n = "units"     -> {"players", "weapons"} \cap Threads
                               [] n = "particles" -> {"players", "weapons", "units"}
                               [] OTHER -> {})
        /\ (n = "over" => Joined(m) \cup {t} = Threads)
    BY <2>1, StopsInOrder DEF Threads, Joined
  <2>4. \A k \in Machines : /\ main'[k] = IF k = m THEN n ELSE main[k]
                            /\ ask'[k] = IF k = m THEN (ask[k] \cup {n}) \ {"players", "over"}
                                                  ELSE ask[k]
    BY <2>1 DEF BattleInv, TypeOK
  <2>5. Joined(m)' = Joined(m) \cup {t} /\ Ending(m)' /\ Ending(m)
    <3>1. main'[m] = n /\ t \notin {"play", "save", "write"} /\ n \notin {"play", "save", "write"}
      BY <2>1, <2>3, <2>4 DEF Threads
    <3>. QED  BY <2>1, <2>2, <2>3, <3>1 DEF Joined, Ending
  <2>6. \A k \in Machines : k # m => Joined(k)' = Joined(k) /\ Ending(k)' = Ending(k)
    BY <2>2, <2>4 DEF Joined, Ending
  <2>7. TypeOK'
    <3>1. ask' \in [Machines -> SUBSET Threads]
      <4>1. ask \in [Machines -> SUBSET Threads]
        BY DEF BattleInv, TypeOK
      <4>2. (ask[m] \cup {n}) \ {"players", "over"} \in SUBSET Threads
        BY <2>3, <4>1
      <4>. QED  BY <2>1, <4>1, <4>2
    <3>2. main' \in [Machines -> MainPCs \cup Threads]
      BY <2>1, <2>3 DEF BattleInv, TypeOK, MainPCs
    <3>. QED  BY <2>1, <2>2, <3>1, <3>2 DEF BattleInv, TypeOK, pauseVars, tickVars, netVars
  <2>8. Barrier' /\ Levels' /\ Room' /\ Pauses'
    BY <2>1, <2>2 DEF BattleInv, Barrier, Blocked, Levels, Completed, Room, Tick, Pauses, pauseVars
  <2>9. Ends'
    <3>2. /\ need'[m] # 0 <=> ~ Ending(m)'
          /\ Ending(m)' /\ main'[m] # "release" => Blocked(m)' = {}
      <4>1. Blocked(m) = {} /\ need[m] = 0
        BY <2>1, <2>5 DEF BattleInv, Ends, EndsAt, Threads
      <4>. QED  BY <2>1, <2>2, <2>5, <4>1 DEF Blocked
    <3>3. \A u \in ask[m] : u = "players"
      BY <2>1 DEF BattleInv, Ends, EndsAt
    <3>4. ask'[m] \subseteq {n}
      BY <2>4, <3>3
    <3>5. ASSUME NEW u \in Threads
          PROVE  /\ u \in Joined(m)' => pc'[m][u] = "done"
                 /\ pc'[m][u] = "done" => u \in Joined(m)' \cup {main'[m]}
                 /\ pc'[m][u] = "done" /\ u # "players" => u \notin ask'[m]
      BY <2>1, <2>3, <2>5, <3>4 DEF BattleInv, Ends, EndsAt
    <3>6. EndsAt(m)'
      BY <2>2, <2>4, <3>2, <3>4, <3>5 DEF EndsAt
    <3>. QED  BY <2>1, <2>4, <3>6, OthersEnd
  <2>10. AloneQuiet'
    <3>1. n \notin {"save", "write"}
      BY <2>3 DEF Threads
    <3>. QED  BY <2>1, <2>2, <2>4, <3>1 DEF BattleInv, AloneQuiet, Machines, pauseVars, tickVars, netVars
  <2>11. Ticks'
    BY <2>1, <2>2 DEF BattleInv, Ticks, Tick, Other, tickVars, netVars
  <2>. QED  BY <2>7, <2>8, <2>9, <2>10, <2>11 DEF BattleInv
<1>. QED  BY <1>1, <1>2, <1>4, <1>5, <1>6, <1>7, <1>8 DEF User, MainGoesOn

(* What the socket brings.                                                 *)
LEMMA HearsKeep ==
  ASSUME BattleInv, NEW m \in Machines, Hears(m)
  PROVE  BattleInv'
<1>1. CASE HearsTick(m)
  <2>1. /\ Connected /\ heard' = [heard EXCEPT ![m] = sent[Other(m)]]
        /\ guess' = [guess EXCEPT ![m] = 0]
        /\ UNCHANGED <<game, main, orders, hasty, threadVars, pauseVars, ahead, sent, netVars>>
    BY <1>1 DEF HearsTick
  <2>2. /\ Machines' = Machines /\ Threads' = Threads /\ Connected' = Connected
        /\ Barrier' /\ Levels' /\ Room' /\ Pauses' /\ Ends'
    BY <2>1, ThreadsRest DEF pauseVars
  <2>3. /\ heard \in [Machines -> 0 .. game.ticks + 1] /\ sent \in [Machines -> 0 .. game.ticks + 1]
        /\ Other(m) \in Machines /\ game.ticks \in Nat /\ Second \in Nat
        /\ game.drift \in Nat
    BY <2>1, GameBounds DEF BattleInv, TypeOK, Connected, Machines, Other
  <2>4. /\ heard' \in [Machines -> 0 .. game.ticks + 1]
        /\ \A k \in Machines : heard'[k] = IF k = m THEN sent[Other(m)] ELSE heard[k]
    BY <2>1, <2>3
  <2>5. TypeOK'
    <3>1. guess' \in [Machines -> 0 .. game.drift]
      BY <2>1, <2>3 DEF BattleInv, TypeOK
    <3>. QED  BY <2>1, <2>2, <2>4, <3>1 DEF BattleInv, TypeOK, threadVars, pauseVars, netVars
  <2>6. AloneQuiet'
    BY <2>1, <2>2 DEF AloneQuiet, Connected
  <2>7. Ticks'
    <3>1. SUFFICES ASSUME NEW k \in Machines
                   PROVE  /\ heard'[k] <= sent[Other(k)]
                          /\ sent[k] <= Tick(k) + 1
                          /\ k = Client \/ remote =>
                               /\ Tick(k) <= heard'[k] + game.drift + Second + 1
                               /\ pc[k]["units"] \in {"pause", "leave"} /\ ~ ahead[k]
                                    => Tick(k) <= heard'[k] + game.drift + Second
      BY <2>1, <2>2 DEF Ticks, Tick, Other, threadVars, netVars
    <3>2. /\ heard[k] <= sent[Other(k)]
          /\ sent[k] <= Tick(k) + 1
          /\ k = Client \/ remote =>
               /\ Tick(k) <= heard[k] + game.drift + Second + 1
               /\ pc[k]["units"] \in {"pause", "leave"} /\ ~ ahead[k]
                    => Tick(k) <= heard[k] + game.drift + Second
      BY <2>1 DEF BattleInv, Ticks
    <3>3. Tick(k) \in Nat /\ heard[k] \in Nat /\ heard'[k] \in Nat /\ sent[Other(k)] \in Nat
      <4>1. Other(k) \in Machines /\ "units" \in Threads /\ game.ticks \in Nat
        BY <2>1, <2>3, TheThreads DEF Connected, Machines, Other
      <4>. QED  BY <2>3, <2>4, <4>1 DEF BattleInv, TypeOK, Tick
    <3>4. heard[k] <= heard'[k] /\ heard'[k] <= sent[Other(k)]
      BY <2>4, <3>2, <3>3
    <3>. QED  BY <2>3, <3>2, <3>3, <3>4
  <2>. QED  BY <2>2, <2>5, <2>6, <2>7 DEF BattleInv
<1>2. CASE HearsSpecial(m)
  <2>1. /\ coming[m] # <<>>
        /\ coming' = [coming EXCEPT ![m] = Tail(@)]
        /\ specialq' = [specialq EXCEPT ![m] = Append(@, Head(coming[m]))]
        /\ UNCHANGED <<game, main, orders, hasty, threadVars, pauseVars, tickVars, remote>>
    BY <1>2 DEF HearsSpecial
  <2>2. /\ Machines' = Machines /\ Threads' = Threads /\ Connected' = Connected
        /\ Barrier' /\ Levels' /\ Room' /\ Pauses' /\ Ends'
    BY <2>1, ThreadsRest DEF pauseVars
  <2>3. /\ coming' \in [Machines -> Seq(Specials)]
        /\ specialq' \in [Machines -> Seq(Specials)]
    <3>1. coming \in [Machines -> Seq(Specials)] /\ specialq \in [Machines -> Seq(Specials)]
      BY DEF BattleInv, TypeOK
    <3>2. coming[m] \in Seq(Specials) /\ specialq[m] \in Seq(Specials)
      BY <3>1
    <3>3. Head(coming[m]) \in Specials /\ Tail(coming[m]) \in Seq(Specials)
      BY <2>1, <3>2, HeadTailProperties
    <3>4. Append(specialq[m], Head(coming[m])) \in Seq(Specials)
      BY <3>2, <3>3, AppendProperties
    <3>. QED  BY <2>1, <3>1, <3>3, <3>4
  <2>4. TypeOK'
    BY <2>1, <2>2, <2>3 DEF BattleInv, TypeOK, threadVars, pauseVars, tickVars
  <2>5. AloneQuiet'
    <3>1. game.kind # "alone"
      BY <2>1 DEF BattleInv, AloneQuiet, Machines
    <3>. QED  BY <2>1, <3>1 DEF AloneQuiet
  <2>6. Ticks'
    BY <2>1, <2>2 DEF BattleInv, Ticks, Tick, Other, threadVars, tickVars
  <2>. QED  BY <2>2, <2>3, <2>4, <2>5, <2>6 DEF BattleInv
<1>. QED  BY <1>1, <1>2 DEF Hears

(* A battle begins with the threads free, nobody waiting, asked or paused. *)
Begins ==
  /\ game \in Games
  /\ pc = All(Begun) /\ main = All("play")
  /\ need = All(Cardinality(Threads)) /\ waiting = All(0) /\ ask = All({})
  /\ pause = All(FALSE) /\ paused = All(FALSE) /\ previous \in [Machines -> BOOLEAN]
  /\ rounds = All(NoRound)
  /\ ahead = All(FALSE) /\ heard = All(0) /\ guess = All(0) /\ sent = All(0)
  /\ coming = All(<<>>) /\ specialq = All(<<>>)
  /\ remote = Connected
  /\ orders = 0
  /\ hasty \in [Machines -> BOOLEAN]

LEMMA BattleBegins == Begins => BattleInv
<1> SUFFICES ASSUME Begins PROVE BattleInv
  OBVIOUS
<1>1. /\ {"units", "players"} \subseteq Threads /\ "over" \notin Threads
      /\ IsFiniteSet(Threads) /\ Cardinality(Threads) \in Nat /\ Cardinality(Threads) > 1
      /\ Second \in Nat /\ game.ticks \in Nat /\ game.orders \in Nat /\ game.drift \in Nat
  BY TheThreads, GameBounds DEF Begins
<1>2. \A m \in Machines :
        /\ pc[m] = [t \in Threads |-> "free"] /\ rounds[m] = [t \in Threads |-> 0]
        /\ main[m] = "play" /\ need[m] = Cardinality(Threads) /\ waiting[m] = 0 /\ ask[m] = {}
        /\ ~ pause[m] /\ ~ paused[m] /\ ~ ahead[m] /\ heard[m] = 0 /\ sent[m] = 0
        /\ coming[m] = <<>> /\ specialq[m] = <<>>
  BY DEF Begins, All, Begun, NoRound
<1>3. \A m \in Machines : Blocked(m) = {} /\ ~ Ending(m) /\ Joined(m) = {} /\ Tick(m) = 0
  BY <1>1, <1>2 DEF Blocked, Ending, Joined, Tick
<1>4. TypeOK
  <2>1. /\ pc \in [Machines -> [Threads -> PCs]] /\ rounds \in [Machines -> [Threads -> 0 .. game.ticks]]
    BY <1>1 DEF Begins, All, Begun, NoRound, PCs
  <2>2. /\ coming \in [Machines -> Seq(Specials)] /\ specialq \in [Machines -> Seq(Specials)]
    BY EmptySeq DEF Begins, All
  <2>3. /\ main \in [Machines -> MainPCs \cup Threads]
        /\ need \in [Machines -> {0, Cardinality(Threads)}]
        /\ waiting \in [Machines -> 0 .. Cardinality(Threads) - 1]
        /\ ask \in [Machines -> SUBSET Threads]
    BY <1>1 DEF Begins, All, MainPCs
  <2>4. /\ heard \in [Machines -> 0 .. game.ticks + 1] /\ sent \in [Machines -> 0 .. game.ticks + 1]
        /\ orders \in 0 .. game.orders /\ guess \in [Machines -> 0 .. game.drift]
    BY <1>1 DEF Begins, All
  <2>5. /\ pause \in [Machines -> BOOLEAN] /\ paused \in [Machines -> BOOLEAN]
        /\ previous \in [Machines -> BOOLEAN] /\ ahead \in [Machines -> BOOLEAN]
        /\ hasty \in [Machines -> BOOLEAN] /\ remote \in BOOLEAN /\ game \in Games
    BY DEF Begins, All, Connected
  <2>. QED  BY <2>1, <2>2, <2>3, <2>4, <2>5 DEF TypeOK
<1>5. Barrier
  BY <1>2, <1>3, FS_EmptySet DEF Barrier
<1>6. Levels /\ Room /\ Pauses
  BY <1>1, <1>2 DEF Levels, Completed, Room, Pauses
<1>7. Ends
  BY <1>1, <1>2, <1>3 DEF Ends, EndsAt
<1>8. AloneQuiet
  BY <1>2 DEF AloneQuiet, Machines
<1>9. Ticks
  BY <1>1, <1>2, <1>3 DEF Ticks, Connected, Machines, Other
<1>. QED  BY <1>4, <1>5, <1>6, <1>7, <1>8, <1>9 DEF BattleInv

LEMMA NextBegins ==
  ASSUME BattleInv, NextBattle
  PROVE  BattleInv'
<1>1. /\ Machines' = Machines /\ Threads' = Threads /\ Connected' = Connected
      /\ {"units", "players"} \subseteq Threads /\ "over" \notin Threads
  BY TheThreads DEF NextBattle, Machines, Threads, Connected
<1>2. ASSUME NEW m \in Machines
      PROVE  waiting[m] = 0 /\ ask[m] = {} /\ paused[m] = FALSE
  <2>1. main[m] = "over" /\ EndsAt(m) /\ Joined(m) = Threads
    BY <1>2 DEF NextBattle, BattleInv, Ends, Joined
  <2>2. /\ Blocked(m) = {} /\ \A t \in ask[m] : t = "over"
        /\ \A t \in Threads : pc[m][t] = "done"
    BY <2>1 DEF EndsAt, Ending
  <2>3. waiting[m] = 0
    BY <2>2, FS_EmptySet DEF BattleInv, Barrier
  <2>4. ask[m] \subseteq Threads /\ paused[m] \in BOOLEAN
    BY DEF BattleInv, TypeOK
  <2>5. ~ paused[m]
    BY <1>1, <2>2 DEF BattleInv, Pauses
  <2>. QED  BY <1>1, <2>2, <2>3, <2>4, <2>5
<1>3. waiting' = All(0)' /\ ask' = All({})' /\ paused' = All(FALSE)'
  <2>1. /\ waiting \in [Machines -> 0 .. Cardinality(Threads) - 1]
        /\ ask \in [Machines -> SUBSET Threads] /\ paused \in [Machines -> BOOLEAN]
    BY DEF BattleInv, TypeOK
  <2>2. /\ waiting = [m \in Machines |-> 0] /\ ask = [m \in Machines |-> {}]
        /\ paused = [m \in Machines |-> FALSE]
    BY <1>2, <2>1
  <2>. QED  BY <1>1, <2>2 DEF NextBattle, All
<1>4. Begins'
  BY <1>1, <1>3 DEF NextBattle, Begins, All, Begun, NoRound, Connected, BattleInv, TypeOK
<1>. QED  BY <1>4, BattleBegins, PTL

-----------------------------------------------------------------------------
LEMMA StutterKeeps == BattleInv /\ UNCHANGED vars => BattleInv'
<1> SUFFICES ASSUME BattleInv, UNCHANGED vars PROVE BattleInv'
  OBVIOUS
<1>1. UNCHANGED <<game, main, orders, hasty, threadVars, pauseVars, tickVars, netVars>>
  BY DEF vars
<1>2. /\ Machines' = Machines /\ Threads' = Threads /\ Connected' = Connected
      /\ Barrier' /\ Levels' /\ Room' /\ Pauses' /\ Ends'
  BY <1>1, ThreadsRest DEF pauseVars
<1>3. TypeOK'
  BY <1>1, <1>2 DEF BattleInv, TypeOK, threadVars, pauseVars, tickVars, netVars
<1>4. AloneQuiet'
  BY <1>1, <1>2 DEF BattleInv, AloneQuiet, threadVars, pauseVars, tickVars, netVars
<1>5. Ticks'
  BY <1>1, <1>2 DEF BattleInv, Ticks, Tick, Other, threadVars, tickVars, netVars
<1>. QED  BY <1>2, <1>3, <1>4, <1>5 DEF BattleInv

(* BattleInv is an invariant of the threads of a battle.                   *)
THEOREM BattleInductive == Spec => []BattleInv
<1>1. Init => BattleInv
  BY BattleBegins DEF Init, Begins, All
<1>2. BattleInv /\ [Next]_vars => BattleInv'
  <2> SUFFICES ASSUME BattleInv, [Next]_vars PROVE BattleInv'
    OBVIOUS
  <2>1. ASSUME NEW m \in Machines, User(m) \/ MainGoesOn(m) PROVE BattleInv'
    BY <2>1, MainKeeps
  <2>2. ASSUME NEW m \in Machines, Hears(m) PROVE BattleInv'
    BY <2>2, HearsKeep
  <2>3. ASSUME NEW m \in Machines, NEW t \in Threads, Steps(m, t) PROVE BattleInv'
    BY <2>3, StepsKeep
  <2>4. CASE NextBattle
    BY <2>4, NextBegins
  <2>5. CASE UNCHANGED vars
    BY <2>5, StutterKeeps
  <2>. QED  BY <2>1, <2>2, <2>3, <2>4, <2>5 DEF Next
<1>. QED  BY <1>1, <1>2, PTL DEF Spec

(* The threads, the barrier and the main thread stay within their states.  *)
THEOREM BattleTypeCorrect == Spec => []TypeOK
<1>1. BattleInv => TypeOK
  BY DEF BattleInv
<1>. QED  BY <1>1, BattleInductive, PTL

(* Engine::sync() keeps the threads of a battle in step, however long the   *)
(* battle and whatever the main thread does meanwhile.                     *)
THEOREM ThreadsInStep == Spec => []InStep
<1>1. BattleInv => InStep
  <2> SUFFICES ASSUME BattleInv, NEW m \in Machines, ~ Ending(m),
                      NEW t \in Threads, NEW u \in Threads
               PROVE  rounds[m][t] <= rounds[m][u] + 1
    BY DEF InStep
  <2>1. Completed(m, t) = Completed(m, u)
    BY DEF BattleInv, Ends, EndsAt, Levels
  <2>2. rounds[m][t] \in Int /\ rounds[m][u] \in Int
    BY GameBounds DEF BattleInv, TypeOK
  <2>. QED  BY <2>1, <2>2 DEF Completed
<1>. QED  BY <1>1, BattleInductive, PTL

(* However long the second, however slow the network and whatever is       *)
(* guessed while no tick is heard, no machine gets further ahead of the    *)
(* other than it is allowed.                                               *)
THEOREM NobodyRunsAhead == Spec => []NobodyFarAhead
<1>1. BattleInv => NobodyFarAhead
  <2> SUFFICES ASSUME BattleInv, Connected, remote, NEW m \in Machines
               PROVE  Tick(m) <= heard[m] + game.drift + Second + 1 /\ heard[m] <= Tick(Other(m)) + 1
    BY DEF NobodyFarAhead
  <2>1. /\ Other(m) \in Machines /\ "units" \in Threads /\ game.ticks \in Nat
    BY TheThreads, GameBounds DEF BattleInv, TypeOK, Connected, Machines, Other
  <2>2. /\ Tick(Other(m)) \in Int /\ heard[m] \in Int /\ sent[Other(m)] \in Int
    BY <2>1 DEF BattleInv, TypeOK, Tick
  <2>3. /\ heard[m] <= sent[Other(m)] /\ sent[Other(m)] <= Tick(Other(m)) + 1
        /\ Tick(m) <= heard[m] + game.drift + Second + 1
    BY <2>1 DEF BattleInv, Ticks
  <2>. QED  BY <2>2, <2>3
<1>. QED  BY <1>1, BattleInductive, PTL

(* While the main thread writes the file of a battle, the unit engine is   *)
(* in its pause loop and touches nothing, unless the save was begun while  *)
(* the engine left an earlier pause.                                       *)
THEOREM QuietSaves == Spec => []QuietWhileSaving
<1>1. BattleInv => QuietWhileSaving
  <2>1. "units" \in Threads
    BY TheThreads
  <2>. QED  BY <2>1 DEF BattleInv, AloneQuiet, Pauses, Machines, QuietWhileSaving
<1>. QED  BY <1>1, BattleInductive, PTL
=============================================================================
