------------------------------ MODULE UnitSync ------------------------------
(***************************************************************************)
(* The unit arrays of the machines of a network game.  EVENT_UNIT_CREATION *)
(* does not say which slot the sender took (opt1 is written and never      *)
(* read): the receiver pops its own copy of the owner's free stack and     *)
(* must come to the same slot, since every later event names the unit by   *)
(* its index alone.                                                        *)
(*                                                                         *)
(* One machine per player; the events of a machine reach every other one   *)
(* in the order it sent them (TCP, and the server relays at once).  On     *)
(* each machine three threads change the arrays:                           *)
(*   engine  INGAME_UNITS::proc, whose units build, capture and die;       *)
(*   main    the orders of the player, and on the server the game script;  *)
(*   net     whoever is in TA3D_Network::check(), for the events.          *)
(* create() pops under the array's lock, create_unit() announces the unit  *)
(* later without it; kill() is called for a position in idx_list looked up *)
(* before, announces the death, and pushes the slot later.  Positions are  *)
(* in UnitEngine: here `raced' says that two threads of a machine were at  *)
(* it at once, and the game is followed until then.                        *)
(***************************************************************************)
EXTENDS Integers, Sequences, SequencesExt

CONSTANTS
  Machines,          \* one per player, named like the player
  Server,            \* the machine that hosts the game and runs its script
  MaxUnitPerPlayer,
  MaxUnits,          \* bound: the units ever created
  Games              \* the games looked at: who does what in each

ASSUME SyncAssumption ==
  /\ Server \in Machines
  /\ MaxUnitPerPlayer \in Nat \ {0} /\ MaxUnits \in Nat \ {0}
  /\ \A g \in Games : \A r \in {"builders", "mortals", "cancels", "captors", "scripted"} :
       g[r] \subseteq Machines

Places == 0 .. MaxUnitPerPlayer - 1
Threads == {"engine", "main", "net"}

VARIABLES
  game,     \* chosen once: the players that build units, lose units, cancel
            \* units, capture units, and those the script gives units to
  stack,    \* stack[m][p]: the free slots of p as m knows them
  tab,      \* tab[m][p][k]: the unit m keeps in slot k of p, 0 when none
  chan,     \* chan[m][n]: the events of m that n has not handled
  doing,    \* doing[m][t]: the call thread t of m is in the middle of
  seized,   \* the captured units each machine is about to remove
  born,     \* how many units were created
  raced     \* two threads of a machine were in each other's way

vars == <<game, stack, tab, chan, doing, seized, born, raced>>

Create(p, k, u) == [type |-> "EVENT_UNIT_CREATION", player |-> p, slot |-> k, unit |-> u]
Death(p, k, u) == [type |-> "EVENT_UNIT_DEATH", player |-> p, slot |-> k, unit |-> u]

(* A unit is created but not announced; a unit that must go is found; its  *)
(* death is announced, or is no news, and its slot is not yet free.        *)
Call(s, p, k) == [step |-> s, player |-> p, slot |-> k]
Idle == Call("idle", Server, 0)
At(m, t, s) == doing[m][t].step = s

(* Two calls are in each other's way if both kill, for each moves entries  *)
(* of idx_list, or if both are about units of one player.                  *)
Kills(c) == c.step \in {"found", "dying"}
Clash(c, d) == c.step # "idle" /\ (c.player = d.player \/ (Kills(c) /\ Kills(d)))
Meets(m, t, d) == \E x \in Threads \ {t} : Clash(doing[m][x], d)

(* The game starts with one unit per player in the first slot to be popped.*)
Init ==
  /\ game \in Games
  /\ stack = [m \in Machines |-> [p \in Machines |->
                [i \in 1 .. MaxUnitPerPlayer - 1 |-> i - 1]]]
  /\ tab = [m \in Machines |-> [p \in Machines |->
              [k \in Places |-> IF k = MaxUnitPerPlayer - 1 THEN 1 ELSE 0]]]
  /\ chan = [m \in Machines |-> [n \in Machines |-> <<>>]]
  /\ doing = [m \in Machines |-> [t \in Threads |-> Idle]]
  /\ seized = [m \in Machines |-> {}]
  /\ born = 1
  /\ raced = FALSE

Send(m, e) ==
  chan' = [chan EXCEPT ![m] =
             [n \in Machines |-> IF n = m THEN @[n] ELSE Append(@[n], e)]]

(* A thread begins a call, or goes on with one.                            *)
Begins(m, t, d) ==
  /\ At(m, t, "idle")
  /\ doing' = [doing EXCEPT ![m][t] = d]
  /\ raced' = Meets(m, t, d)
Goes(m, t, d) == doing' = [doing EXCEPT ![m][t] = d] /\ UNCHANGED raced

(* Mutant: the slot stays on the stack.                                    *)
TakeNoPop(m, p, u) ==
  /\ stack[m][p] # <<>>
  /\ tab' = [tab EXCEPT ![m][p][Last(stack[m][p])] = u]
  /\ UNCHANGED stack

(* create(): machine m puts unit u in the slot on top of its stack of p.   *)
Take(m, p, u) ==
  /\ stack[m][p] # <<>>
  /\ stack' = [stack EXCEPT ![m][p] = Front(@)]
  /\ tab' = [tab EXCEPT ![m][p][Last(stack[m][p])] = u]

(* kill(): slot k of p is free again on machine m.                         *)
Release(m, p, k) ==
  /\ stack' = [stack EXCEPT ![m][p] = Append(@, k)]
  /\ tab' = [tab EXCEPT ![m][p][k] = 0]

(* create_unit() with sync by the engine of m, for its player: the pop ... *)
CreateUnit(m) ==
  /\ born < MaxUnits
  /\ born' = born + 1
  /\ Take(m, m, born')
  /\ Begins(m, "engine", Call("created", m, Last(stack[m][m])))
  /\ UNCHANGED chan

(* ... and the announcement.                                               *)
Announce(m) ==
  LET c == doing[m]["engine"]
  IN  /\ At(m, "engine", "created")
      /\ Send(m, Create(c.player, c.slot, tab[m][c.player][c.slot]))
      /\ Goes(m, "engine", Idle)
      /\ UNCHANGED <<stack, tab, seized, born>>

(* A factory or a builder of m starts a unit.                              *)
Build(m) ==
  /\ m \in game.builders
  /\ CreateUnit(m)
  /\ UNCHANGED seized

(* A unit of m captures one of p: a copy of it for m, if there is room,    *)
(* and the original, locked until then, becomes local to m, "Force         *)
(* synchronization in networking mode".                                    *)
Capture(m, p, k) ==
  /\ m \in game.captors /\ p # m
  /\ At(m, "engine", "idle")
  /\ tab[m][p][k] # 0 /\ <<p, k>> \notin seized[m]
  /\ seized' = [seized EXCEPT ![m] = @ \cup {<<p, k>>}]
  /\ \/ CreateUnit(m)
     \/ stack[m][m] = <<>> /\ UNCHANGED <<stack, tab, chan, doing, born, raced>>

(* The script runs in the main thread of the server and creates units for  *)
(* every player; it holds the array's lock from the pop to the event.      *)
ScriptCreates(p) ==
  /\ p \in game.scripted
  /\ born < MaxUnits
  /\ At(Server, "main", "idle")
  /\ born' = born + 1
  /\ Take(Server, p, born')
  /\ Send(Server, Create(p, Last(stack[Server][p]), born'))
  /\ raced' = Meets(Server, "main", Call("created", p, Last(stack[Server][p])))
  /\ UNCHANGED <<doing, seized>>

(* The engine comes to a unit of its player, or one it captured, that is   *)
(* dead; the player cancels a unit of his that is being built.             *)
Finds(m, t, p, k) ==
  /\ tab[m][p][k] # 0
  /\ \/ t = "engine" /\ p = m /\ m \in game.mortals
     \/ t = "engine" /\ <<p, k>> \in seized[m]
     \/ t = "main" /\ p = m /\ m \in game.cancels
  /\ Begins(m, t, Call("found", p, k))
  /\ UNCHANGED <<stack, tab, chan, seized, born>>

(* kill() sends EVENT_UNIT_DEATH for a local unit first ...                *)
KillSends(m, t) ==
  LET c == doing[m][t]
  IN  /\ At(m, t, "found")
      /\ Send(m, Death(c.player, c.slot, tab[m][c.player][c.slot]))
      /\ Goes(m, t, [c EXCEPT !.step = "dying"])
      /\ UNCHANGED <<stack, tab, seized, born>>

(* Mutant: the engine does not give the slot back.                         *)
KillReleasesNothing(m, t) ==
  LET c == doing[m][t]
  IN  /\ At(m, t, "dying")
      /\ IF t = "engine"
         THEN tab' = [tab EXCEPT ![m][c.player][c.slot] = 0] /\ UNCHANGED stack
         ELSE Release(m, c.player, c.slot)
      /\ Goes(m, t, Idle)
      /\ seized' = [seized EXCEPT ![m] = @ \ {<<c.player, c.slot>>}]
      /\ UNCHANGED <<chan, born>>

(* ... and updates the lists afterwards.                                   *)
KillReleases(m, t) ==
  LET c == doing[m][t]
  IN  /\ At(m, t, "dying")
      /\ Release(m, c.player, c.slot)
      /\ Goes(m, t, Idle)
      /\ seized' = [seized EXCEPT ![m] = @ \ {<<c.player, c.slot>>}]
      /\ UNCHANGED <<chan, born>>

(* Mutant: the newest event is handled first.                              *)
ReceiveNewest(m, n) ==
  LET e == Last(chan[m][n])
      d == Call("dying", e.player, e.slot)
  IN  /\ chan[m][n] # <<>> /\ At(n, "net", "idle")
      /\ chan' = [chan EXCEPT ![m][n] = Front(@)]
      /\ IF e.type = "EVENT_UNIT_CREATION"
         THEN stack[n][e.player] # <<>> /\ Take(n, e.player, e.unit) /\ UNCHANGED <<doing, raced>>
         ELSE tab[n][e.player][e.slot] # 0 /\ Begins(n, "net", d) /\ UNCHANGED <<stack, tab>>
      /\ UNCHANGED <<seized, born>>

(* TA3D_Network::check() on n, for the oldest event of m: a creation, with *)
(* the array locked, if there is a slot ...                                *)
HearsCreation(m, n) ==
  LET e == Head(chan[m][n])
  IN  /\ chan[m][n] # <<>> /\ At(n, "net", "idle")
      /\ e.type = "EVENT_UNIT_CREATION"
      /\ chan' = [chan EXCEPT ![m][n] = Tail(@)]
      /\ \/ /\ Take(n, e.player, e.unit)
            /\ raced' = Meets(n, "net", Call("created", e.player, Last(stack[n][e.player])))
         \/ stack[n][e.player] = <<>> /\ UNCHANGED <<stack, tab, raced>>
      /\ UNCHANGED <<doing, seized, born>>

(* ... or a death, for a slot that is in idx_list.                         *)
HearsDeath(m, n) ==
  LET e == Head(chan[m][n])
  IN  /\ chan[m][n] # <<>> /\ At(n, "net", "idle")
      /\ e.type = "EVENT_UNIT_DEATH"
      /\ chan' = [chan EXCEPT ![m][n] = Tail(@)]
      /\ IF tab[n][e.player][e.slot] # 0
         THEN Begins(n, "net", Call("dying", e.player, e.slot))
         ELSE UNCHANGED <<doing, raced>>
      /\ UNCHANGED <<stack, tab, seized, born>>

Receive(m, n) == HearsCreation(m, n) \/ HearsDeath(m, n)

Step ==
  \/ \E m \in Machines : Build(m) \/ Announce(m)
  \/ \E m, p \in Machines, k \in Places : Capture(m, p, k)
  \/ \E p \in Machines : ScriptCreates(p)
  \/ \E m, p \in Machines, t \in Threads, k \in Places : Finds(m, t, p, k)
  \/ \E m \in Machines, t \in Threads : KillSends(m, t) \/ KillReleases(m, t)
  \/ \E m, n \in Machines : Receive(m, n)

(* What two threads in each other's way do to idx_list is in UnitEngine.   *)
Next == ~ raced /\ Step /\ UNCHANGED game

Spec == Init /\ [][Next]_vars

-----------------------------------------------------------------------------
(* On each machine a unit is in one slot, no free slot holds one, and the  *)
(* slot of a unit that is being announced or killed is not free yet.       *)
TypeOK ==
  /\ game \in Games
  /\ \A m, p \in Machines :
       /\ Len(stack[m][p]) <= MaxUnitPerPlayer /\ Range(stack[m][p]) \subseteq Places
       /\ tab[m][p] \in [Places -> 0 .. MaxUnits]
       /\ IsInjective(stack[m][p])
       /\ \A k \in Range(stack[m][p]) : tab[m][p][k] = 0
       /\ \A j, k \in Places : tab[m][p][j] = tab[m][p][k] /\ tab[m][p][j] # 0 => j = k
       /\ \A i \in DOMAIN chan[m][p] :
            /\ chan[m][p][i].slot \in Places
            /\ chan[m][p][i].unit \in 1 .. MaxUnits
  /\ \A m \in Machines, t \in Threads :
       LET c == doing[m][t]
       IN  /\ c.step \in {"idle", "created", "found", "dying"}
           /\ c.player \in Machines /\ c.slot \in Places
           /\ c.step # "idle" => tab[m][c.player][c.slot] # 0
  /\ \A m \in Machines : seized[m] \subseteq Machines \X Places
  /\ born \in 1 .. MaxUnits
  /\ raced \in BOOLEAN

Quiet ==
  /\ \A m, n \in Machines : chan[m][n] = <<>>
  /\ \A m \in Machines : seized[m] = {} /\ \A t \in Threads : At(m, t, "idle")

(* Once every event is handled all machines keep the same units in the     *)
(* same slots: index i means the same unit everywhere, unless two threads  *)
(* of one machine were creating and killing at once.                       *)
Agreement == Quiet /\ ~ raced => \A m, n \in Machines : tab[m] = tab[n]

(* An event that is about to be handled finds, in the slot it names, the   *)
(* unit its sender meant: "If it's false then game is out of sync !!".     *)
(* (A captured unit is killed by two machines, and one of them is late.)   *)
EventsFindTheirUnit ==
  game.captors = {} /\ ~ raced =>
  \A m, n \in Machines :
    chan[m][n] # <<>> /\ Head(chan[m][n]).type = "EVENT_UNIT_DEATH" =>
      LET e == Head(chan[m][n]) IN tab[n][e.player][e.slot] = e.unit
=============================================================================
