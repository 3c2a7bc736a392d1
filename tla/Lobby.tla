-------------------------------- MODULE Lobby --------------------------------
(***************************************************************************)
(* How a network game is agreed on: the setup menu (Menus::SetupGame) and  *)
(* the wait room (Menus::WaitRoom) of a server and its clients, up to the  *)
(* first tick of the battle.                                               *)
(*                                                                         *)
(* In the menu each machine keeps its own copy of the game: who holds each *)
(* slot, what he chose and whether he is ready, and the unit limit.  Who   *)
(* changes something sends "NOTIFY UPDATE" and is asked for his data.  In  *)
(* the wait room the machines look for the units that all of them have.    *)
(* What is said in one go to one machine is one message; so are the        *)
(* messages of a machine on their way and in its specialq.                 *)
(* A game says whether people act only when nothing is under way (calm),   *)
(* what may happen in it (may), and how often the users act (edits).       *)
(***************************************************************************)
EXTENDS Integers, Sequences, FiniteSets, SequencesExt

CONSTANTS
  Server, Clients,
  NbSlots,     \* TA3D_PLAYERS_HARD_LIMIT
  Limits,      \* values of max_unit_per_player
  Units,       \* unit types
  Games        \* bound: the games to choose from

Machines == {Server} \cup Clients
Nobody == {"ai", "open", "closed"}

ASSUME LobbyAssumption ==
  /\ Server \notin Clients /\ Machines \cap Nobody = {}
  /\ IsFiniteSet(Clients) /\ IsFiniteSet(Units)
  /\ NbSlots \in Nat \ {0}
  /\ \A g \in Games : g.calm \in BOOLEAN /\ g.edits \in Nat

VARIABLES
  game,
  phase,     \* where each machine is
  view,      \* game_data of each machine: its slots
  limit,     \* and its max_unit_per_player
  conn,      \* Network::players of the server
  dropped,   \* Network::playerDropped
  toServer,  \* special messages of each client, in flight or in specialq
  toClient,  \* and those of the server to each client
  edits,     \* what the users have done so far
  have,      \* the units each machine has
  usable,    \* and those whose not_used is false
  untold,    \* clients the server has yet to send the list of units to
  top,       \* player_control[0 .. nb_players - 1] of the server after the menu
  ready,     \* wait.ready of the server: indices of top
  dead       \* and its dead_player

gameVars == <<view, limit>>
netVars == <<conn, dropped, toServer, toClient>>
unitVars == <<have, usable, untold, top, ready, dead>>
vars == <<game, phase, edits, gameVars, netVars, unitVars>>

Slots == 1 .. NbSlots
Settings == {0, 1}      \* side, team, metal, energy, AI level
(* named: ai_level is the name of an AI, and not "0" or "[C]".             *)
Slot == [who : Machines \cup Nobody, choice : Settings, ready : BOOLEAN, named : BOOLEAN]
Empty == [who |-> "open", choice |-> 0, ready |-> FALSE, named |-> TRUE]
Own(m) == {i \in Slots : view[m][i].who = m}

InMenu(m) == phase[m] = "menu"
Msg(type) == [type |-> type]
May(what) == what \in game.may

(* What a client makes of the server's slots: a closed one looks open, and *)
(* so does an AI whose ai_level has fewer than four characters.            *)
LooksOpen(slot) ==
  \/ slot.who \in {"open", "closed"}
  \/ slot.who = "ai" /\ ~ slot.named
Seen(slots) ==
  [i \in Slots |-> IF LooksOpen(slots[i])
                   THEN [slots[i] EXCEPT !.who = "open", !.named = FALSE] ELSE slots[i]]

(* Nobody has come yet, or everybody has.  A server that remembers its     *)
(* last game begins without a slot.                                        *)
Came == IF May("joined") THEN Clients ELSE {}
Hosts == IF May("remembered") THEN <<>> ELSE <<Server>>
Holder(i) == (Hosts \o SetToSeq(Came) \o [j \in Slots |-> "open"])[i]
Begun == [i \in Slots |-> [Empty EXCEPT !.who = Holder(i),
                                       !.ready = Came # {} /\ Holder(i) # "open"]]

Init ==
  /\ game \in Games
  /\ phase = [m \in Machines |-> IF m \in Came \cup {Server} THEN "menu" ELSE "away"]
  /\ view = [m \in Machines |-> IF m = Server THEN Begun
                                 ELSE IF m \in Came THEN Seen(Begun) ELSE [i \in Slots |-> Empty]]
  /\ limit \in [Machines -> Limits]
  /\ Came # {} => \A m \in Machines : limit[m] = limit[Server]
  /\ conn = Came /\ dropped = FALSE
  /\ toServer = [c \in Clients |-> <<>>] /\ toClient = [c \in Clients |-> <<>>]
  /\ edits = 0
  /\ have \in [Machines -> IF May("start") THEN SUBSET Units ELSE {Units}]
  /\ usable = have
  /\ untold = {} /\ top = <<>> /\ ready = {} /\ dead = {}

-----------------------------------------------------------------------------
(* Sending.  A message to a player who is gone is lost.                    *)
Tell(to, msg) ==
  [c \in Clients |-> IF c \in to \cap conn THEN Append(toClient[c], msg) ELSE toClient[c]]

Ask(c, msg) ==
  toServer' = IF c \in conn THEN [toServer EXCEPT ![c] = Append(@, msg)] ELSE toServer

(* dropPlayer(): of the messages of c some have been received.             *)
CutConnection(c, q, told) ==
  /\ conn' = conn \ {c}
  /\ \E k \in 0 .. Len(q) : toServer' = [toServer EXCEPT ![c] = SubSeq(q, 1, k)]
  /\ toClient' = [told EXCEPT ![c] = <<>>]

(* Nothing is under way.                                                   *)
Quiet ==
  /\ ~ dropped
  /\ \A c \in Clients : toServer[c] = <<>> /\ toClient[c] = <<>>
  /\ \A c \in Clients : InMenu(c) => c \in conn

(* The user of a menu does something.                                      *)
Acts(what) ==
  /\ May(what)
  /\ edits < game.edits
  /\ game.calm => Quiet
  /\ edits' = edits + 1

-----------------------------------------------------------------------------
(* The clients' users.                                                     *)

(* Connect(), getMyID() and getStatus(), which throw away what else comes. *)
Join(c) ==
  /\ phase[c] = "away" /\ InMenu(Server)
  /\ game.calm => Quiet
  /\ phase' = [phase EXCEPT ![c] = "menu"]
  /\ conn' = conn \cup {c}
  /\ toServer' = [toServer EXCEPT ![c] = <<Msg("NEW_PLAYER"), Msg("REQUEST")>>]
  /\ UNCHANGED <<game, edits, gameVars, dropped, toClient, unitVars>>

(* A client changes its own slot.                                          *)
ClientEdits(c) ==
  /\ Acts("edit")
  /\ InMenu(c)
  /\ \E i \in Own(c), ch \in Settings, r \in BOOLEAN :
       view' = [view EXCEPT ![c][i] = [@ EXCEPT !.choice = ch, !.ready = r]]
  /\ view' # view
  /\ Ask(c, Msg("UPDATE"))
  /\ UNCHANGED <<game, phase, limit, conn, dropped, toClient, unitVars>>

ClientLeaves(c) ==
  /\ Acts("leave")
  /\ InMenu(c)
  /\ phase' = [phase EXCEPT ![c] = "gone"]
  /\ Ask(c, Msg("PLAYER_LEFT"))
  /\ conn' = conn \ {c}
  /\ toClient' = [toClient EXCEPT ![c] = <<>>]
  /\ UNCHANGED <<game, gameVars, dropped, unitVars>>

(* The machine or its connection breaks: cleanPlayer() takes the socket    *)
(* off the list and tells nobody.                                          *)
Crash(c) ==
  /\ Acts("crash")
  /\ c \in conn
  /\ phase' = [phase EXCEPT ![c] = "gone"]
  /\ CutConnection(c, toServer[c], toClient)
  /\ UNCHANGED <<game, gameVars, dropped, unitVars>>

(* A client finds itself disconnected: it leaves the menu, or goes on      *)
(* without the others.                                                     *)
CutOff(c) ==
  /\ c \notin conn
  /\ phase[c] \notin {"away", "gone", "battle"}
  /\ phase' = [phase EXCEPT ![c] = IF InMenu(c) THEN "gone" ELSE "battle"]
  /\ UNCHANGED <<game, edits, gameVars, netVars, unitVars>>

-----------------------------------------------------------------------------
(* The server's user.                                                      *)
ServerEdits ==
  /\ Acts("edit")
  /\ InMenu(Server)
  /\ \E i \in Slots :
       /\ view[Server][i].who \notin {"open", "closed"}
       /\ \/ view' = [view EXCEPT ![Server][i].choice = 1 - @]
          \/ /\ view[Server][i].who = "ai"
             /\ \E ch \in Settings :
                  view' = [view EXCEPT ![Server][i] = [@ EXCEPT !.choice = ch, !.named = TRUE]]
          \/ i \in Own(Server) /\ view' = [view EXCEPT ![Server][i].ready = ~ @]
  /\ toClient' = Tell(Clients, Msg("UPDATE"))
  /\ UNCHANGED <<game, phase, limit, conn, dropped, toServer, unitVars>>

(* A click on the name of a slot: the next type of player; a player who    *)
(* was there is kicked.                                                    *)
NextType(i) ==
  CASE view[Server][i].who = "ai"   -> "open"
    [] view[Server][i].who = "open" -> "closed"
    [] view[Server][i].who = "closed" /\ Own(Server) = {} -> Server
    [] OTHER -> "ai"

ServerRetypes(i) ==
  /\ Acts("type")
  /\ InMenu(Server)
  /\ view' = [view EXCEPT ![Server][i].who = NextType(i)]
  /\ LET told == Tell(Clients, Msg("UPDATE"))
         who == view[Server][i].who
     IN  IF who \in Clients
         THEN CutConnection(who, toServer[who], told) /\ dropped' = TRUE
         ELSE toClient' = told /\ UNCHANGED <<conn, dropped, toServer>>
  /\ UNCHANGED <<game, phase, limit, unitVars>>

ServerLimits(l) ==
  /\ Acts("limit")
  /\ InMenu(Server)
  /\ l # limit[Server]
  /\ limit' = [limit EXCEPT ![Server] = l]
  /\ toClient' = Tell(Clients, [type |-> "LIMIT", limit |-> l])
  /\ UNCHANGED <<game, phase, view, conn, dropped, toServer, unitVars>>

(* OK: everybody is ready, and the menu is left.                           *)
ServerStarts ==
  /\ May("start")
  /\ InMenu(Server)
  /\ game.calm => Quiet
  /\ \A i \in Slots : view[Server][i].who \in Machines => view[Server][i].ready
  /\ phase' = [phase EXCEPT ![Server] = "leaving"]
  /\ toClient' = Tell(Clients, Msg("START"))
  /\ UNCHANGED <<game, edits, gameVars, conn, dropped, toServer, unitVars>>

(* A pong that comes after more than ten seconds, of a player the server   *)
(* looks at.                                                               *)
DropsSlow(c) ==
  /\ \/ InMenu(Server) /\ Acts("slow")
     \/ phase[Server] = "wait" /\ May("slow") /\ UNCHANGED edits
  /\ c \in conn
  /\ \E i \in IF InMenu(Server) THEN Slots ELSE DOMAIN top : view[Server][i].who = c
  /\ CutConnection(c, toServer[c], toClient)
  /\ dropped' = TRUE
  /\ UNCHANGED <<game, phase, gameVars, unitVars>>

-----------------------------------------------------------------------------
(* The server's menu: messages and playerDropped.                          *)
(* Mutant: every open slot.                                                *)
AllOpen == {i \in Slots : view[Server][i].who = "open"}

FirstOpen == {i \in Slots : /\ view[Server][i].who = "open"
                            /\ \A j \in 1 .. i - 1 : view[Server][j].who # "open"}

NewPlayer(c, rest) ==
  IF FirstOpen = {}
  THEN /\ CutConnection(c, rest, toClient)
       /\ dropped' = TRUE
       /\ UNCHANGED gameVars
  ELSE /\ view' = [view EXCEPT ![Server] =
                     [i \in Slots |-> IF i \in FirstOpen THEN [@[i] EXCEPT !.who = c] ELSE @[i]]]
       /\ toClient' = Tell(Clients \ {c}, Msg("UPDATE"))
       /\ toServer' = [toServer EXCEPT ![c] = rest]
       /\ UNCHANGED <<limit, conn, dropped>>

(* Mutant: only who asked hears of the limit and of nothing else.          *)
RequestHalf(c, rest) ==
  /\ toClient' = Tell({c}, [type |-> "LIMIT", limit |-> limit[Server]])
  /\ toServer' = [toServer EXCEPT ![c] = rest]
  /\ UNCHANGED <<gameVars, conn, dropped>>

(* "REQUEST GameData": the limit to everybody, the rest to who asked.      *)
Request(c, rest) ==
  LET told == Tell(Clients \ {c}, [type |-> "LIMIT", limit |-> limit[Server]])
      data == [type |-> "DATA", limit |-> limit[Server], slots |-> Seen(view[Server])]
  IN  /\ toClient' = IF c \in conn THEN [told EXCEPT ![c] = Append(@, data)] ELSE told
      /\ toServer' = [toServer EXCEPT ![c] = rest]
      /\ UNCHANGED <<gameVars, conn, dropped>>

Update(c, rest) ==
  /\ toClient' = Tell(Clients, Msg("REQUEST"))
  /\ toServer' = [toServer EXCEPT ![c] = rest]
  /\ UNCHANGED <<gameVars, conn, dropped>>

(* Mutant: the others are not told.                                        *)
InfoUntold(c, rest, msg) ==
  /\ view' = [view EXCEPT ![Server] = [i \in Slots |->
                IF i \in DOMAIN msg.slots THEN msg.slots[i] ELSE @[i]]]
  /\ limit' = [limit EXCEPT ![Server] = msg.limit]
  /\ toServer' = [toServer EXCEPT ![c] = rest]
  /\ UNCHANGED <<conn, dropped, toClient>>

(* SET UNIT LIMIT, PLAYER_INFO and CHANGE TEAM of a client.                *)
Info(c, rest, msg) ==
  /\ view' = [view EXCEPT ![Server] = [i \in Slots |->
                IF i \in DOMAIN msg.slots THEN msg.slots[i] ELSE @[i]]]
  /\ limit' = [limit EXCEPT ![Server] = msg.limit]
  /\ toClient' = IF DOMAIN msg.slots = {} THEN toClient
                 ELSE Tell(Clients \ {c}, Msg("UPDATE"))
  /\ toServer' = [toServer EXCEPT ![c] = rest]
  /\ UNCHANGED <<conn, dropped>>

PlayerLeft(c, rest) ==
  /\ CutConnection(c, rest, Tell(Clients \ {c}, Msg("REQUEST")))
  /\ dropped' = TRUE
  /\ view' = [view EXCEPT ![Server] = [i \in Slots |->
                IF @[i].who = c THEN [@[i] EXCEPT !.who = "open"] ELSE @[i]]]
  /\ UNCHANGED limit

ServerHears(c) ==
  /\ InMenu(Server)
  /\ toServer[c] # <<>>
  /\ LET msg == Head(toServer[c])
         rest == Tail(toServer[c])
     IN  \/ msg.type = "NEW_PLAYER" /\ NewPlayer(c, rest)
         \/ msg.type = "REQUEST" /\ Request(c, rest)
         \/ msg.type = "UPDATE" /\ Update(c, rest)
         \/ msg.type = "INFO" /\ Info(c, rest, msg)
         \/ msg.type = "PLAYER_LEFT" /\ PlayerLeft(c, rest)
  /\ UNCHANGED <<game, phase, edits, unitVars>>

(* The slots of players who are no longer on the list are freed; ai_level  *)
(* becomes "0".                                                            *)
NoticesDropped ==
  /\ InMenu(Server)
  /\ dropped
  /\ dropped' = FALSE
  /\ view' = [view EXCEPT ![Server] = [i \in Slots |->
                IF @[i].who \in Clients \ conn
                THEN [@[i] EXCEPT !.who = "open", !.choice = 0, !.named = FALSE] ELSE @[i]]]
  /\ toClient' = Tell(Clients, Msg("UPDATE"))
  /\ UNCHANGED <<game, phase, edits, limit, conn, toServer, unitVars>>

-----------------------------------------------------------------------------
(* A client's menu.                                                        *)
OwnData(c) ==
  [type |-> "INFO", limit |-> limit[c], slots |-> [i \in Own(c) |-> view[c][i]]]

ClientHears(c) ==
  /\ InMenu(c)
  /\ toClient[c] # <<>>
  /\ toClient' = [toClient EXCEPT ![c] = Tail(@)]
  /\ LET msg == Head(toClient[c])
         asks == Ask(c, IF msg.type = "UPDATE" THEN Msg("REQUEST") ELSE OwnData(c))
     IN  \/ /\ msg.type \in {"UPDATE", "REQUEST"}
            /\ asks
            /\ UNCHANGED <<phase, gameVars>>
         \/ /\ msg.type = "LIMIT"
            /\ limit' = [limit EXCEPT ![c] = msg.limit]
            /\ UNCHANGED <<phase, view, toServer>>
         \/ /\ msg.type = "DATA"
            /\ limit' = [limit EXCEPT ![c] = msg.limit]
            /\ view' = [view EXCEPT ![c] = msg.slots]
            /\ UNCHANGED <<phase, toServer>>
         \/ /\ msg.type = "START"
            /\ phase' = [phase EXCEPT ![c] = "leaving"]
            /\ UNCHANGED <<gameVars, toServer>>
  /\ UNCHANGED <<game, edits, conn, dropped, unitVars>>

-----------------------------------------------------------------------------
(* The menu's end: the battle loads the map; what has come stays in        *)
(* specialq.                                                               *)
ClientLoads(c) ==
  /\ phase[c] = "leaving"
  /\ phase' = [phase EXCEPT ![c] = "load"]
  /\ UNCHANGED <<game, edits, gameVars, netVars, unitVars>>

(* The server moves the players to the top of player_control, but leaves   *)
(* player_network_id as it is: view[Server][i].who goes on saying whose id *)
(* is at i.                                                                *)
Taken == {i \in Slots : view[Server][i].who \notin {"open", "closed"}}

ServerLoads ==
  /\ phase[Server] = "leaving"
  /\ phase' = [phase EXCEPT ![Server] = "load"]
  /\ \E from \in SeqOf(Taken, NbSlots) :
       /\ Range(from) = Taken
       /\ \A k, l \in DOMAIN from : k < l => from[k] < from[l]
       /\ top' = [k \in DOMAIN from |-> view[Server][from[k]].who]
  /\ UNCHANGED <<game, edits, gameVars, netVars, have, usable, untold, ready, dead>>

(* The wait room.  A client disables all units; the server goes through    *)
(* its list for one client after the other.  Its AIs, and itself, are      *)
(* ready.                                                                  *)
ClientWaits(c) ==
  /\ phase[c] = "load"
  /\ phase' = [phase EXCEPT ![c] = "wait"]
  /\ usable' = [usable EXCEPT ![c] = {}]
  /\ UNCHANGED <<game, edits, gameVars, netVars, have, untold, top, ready, dead>>

ServerWaits ==
  /\ phase[Server] = "load"
  /\ phase' = [phase EXCEPT ![Server] = "wait"]
  /\ untold' = conn
  /\ ready' = {i \in DOMAIN top : top[i] \notin Clients}
  /\ dead' = {}
  /\ UNCHANGED <<game, edits, gameVars, netVars, have, usable, top>>

UnitList ==
  SetToSeq({[type |-> "USING", unit |-> u] : u \in have[Server]}) \o <<Msg("END")>>

TellsUnits(c) ==
  /\ c \in untold
  /\ untold' = untold \ {c}
  /\ toClient' = IF c \in conn THEN [toClient EXCEPT ![c] = @ \o UnitList] ELSE toClient
  /\ UNCHANGED <<game, phase, edits, gameVars, conn, dropped, toServer,
                 have, usable, top, ready, dead>>

(* Mutant: a unit the client does not have is passed over.                 *)
ChecksNothing(c, u) ==
  /\ usable' = [usable EXCEPT ![c] = @ \cup ({u} \cap have[c])]
  /\ UNCHANGED toServer

(* "USING": the unit is enabled, or reported to everybody.                 *)
ChecksUnit(c, u) ==
  IF u \in have[c]
  THEN /\ usable' = [usable EXCEPT ![c] = @ \cup {u}]
       /\ UNCHANGED toServer
  ELSE /\ Ask(c, [type |-> "MISSING", unit |-> u, relayed |-> FALSE])
       /\ UNCHANGED usable

ClientWaiting(c) ==
  /\ phase[c] = "wait"
  /\ toClient[c] # <<>>
  /\ toClient' = [toClient EXCEPT ![c] = Tail(@)]
  /\ LET msg == Head(toClient[c])
     IN  \/ /\ msg.type = "USING"
            /\ ChecksUnit(c, msg.unit)
            /\ UNCHANGED phase
         \/ /\ msg.type = "END"
            /\ Ask(c, Msg("READY"))
            /\ UNCHANGED <<phase, usable>>
         \/ /\ msg.type = "MISSING"
            /\ usable' = [usable EXCEPT ![c] = @ \ {msg.unit}]
            /\ UNCHANGED <<phase, toServer>>
         \/ /\ msg.type = "BEGIN"
            /\ phase' = [phase EXCEPT ![c] = "battle"]
            /\ UNCHANGED <<toServer, usable>>
  /\ UNCHANGED <<game, edits, gameVars, conn, dropped, have, untold, top, ready, dead>>

(* The SocketThread of c passes 'A' packets on before check() has them.    *)
Relays(c) ==
  \E k \in DOMAIN toServer[c] :
    /\ toServer[c][k].type = "MISSING" /\ ~ toServer[c][k].relayed
    /\ \A j \in 1 .. k - 1 : toServer[c][j].type = "MISSING" => toServer[c][j].relayed
    /\ toServer' = [toServer EXCEPT ![c][k].relayed = TRUE]
    /\ toClient' = Tell(Clients \ {c}, [type |-> "MISSING", unit |-> toServer[c][k].unit])
    /\ UNCHANGED <<game, phase, edits, gameVars, conn, dropped, unitVars>>

(* The indices the server waits for: those with the id of a client.        *)
Awaited == {i \in DOMAIN top : view[Server][i].who \in Clients}

(* net2id(): the id of c at the index of a human.                          *)
Heard(c) == {i \in Awaited : view[Server][i].who = c /\ top[i] \in Machines}

ServerWaiting(c) ==
  /\ phase[Server] = "wait" /\ untold = {}
  /\ toServer[c] # <<>>
  /\ toServer' = [toServer EXCEPT ![c] = Tail(@)]
  /\ LET msg == Head(toServer[c])
     IN  \/ /\ msg.type = "MISSING" /\ msg.relayed
            /\ usable' = [usable EXCEPT ![Server] = @ \ {msg.unit}]
            /\ UNCHANGED ready
         \/ /\ msg.type = "READY"
            /\ ready' = ready \cup Heard(c)
            /\ UNCHANGED usable
         \/ /\ msg.type \notin {"MISSING", "READY"}
            /\ UNCHANGED <<usable, ready>>
  /\ UNCHANGED <<game, phase, edits, gameVars, conn, dropped, toClient,
                 have, untold, top, dead>>

WaitNoticesDropped ==
  /\ phase[Server] = "wait" /\ untold = {}
  /\ dropped
  /\ dropped' = FALSE
  /\ dead' = dead \cup {i \in Awaited : view[Server][i].who \notin conn}
  /\ UNCHANGED <<game, phase, edits, gameVars, conn, toServer, toClient,
                 have, usable, untold, top, ready>>

(* Mutant: a player who is gone is waited for.                             *)
AllAnswered == Awaited \subseteq ready

AllReady == Awaited \subseteq ready \cup dead

(* "START": every player is ready or dead.                                 *)
ServerBegins ==
  /\ phase[Server] = "wait" /\ untold = {}
  /\ AllReady
  /\ phase' = [phase EXCEPT ![Server] = "battle"]
  /\ toClient' = Tell(Clients, Msg("BEGIN"))
  /\ UNCHANGED <<game, edits, gameVars, conn, dropped, toServer, unitVars>>

ClientUser(c) == ClientEdits(c) \/ ClientLeaves(c) \/ Crash(c) \/ Join(c) \/ DropsSlow(c)
ServerUser ==
  \/ ServerEdits \/ ServerStarts
  \/ \E i \in Slots : ServerRetypes(i)
  \/ \E l \in Limits : ServerLimits(l)
ServerGoesOn(c) == ServerHears(c) \/ ServerWaiting(c) \/ TellsUnits(c)
ServerAlone ==
  NoticesDropped \/ WaitNoticesDropped \/ ServerLoads \/ ServerWaits \/ ServerBegins
ClientGoesOn(c) ==
  ClientHears(c) \/ ClientLoads(c) \/ ClientWaits(c) \/ ClientWaiting(c) \/ CutOff(c)

Next ==
  \/ ServerUser \/ ServerAlone
  \/ \E c \in Clients : ClientUser(c) \/ ServerGoesOn(c) \/ ClientGoesOn(c) \/ Relays(c)

Spec == Init /\ [][Next]_vars

(* TCP delivers and every thread runs; the users need do nothing.          *)
Fairness ==
  /\ WF_vars(ServerAlone)
  /\ \A c \in Clients :
       WF_vars(ServerGoesOn(c)) /\ WF_vars(ClientGoesOn(c)) /\ WF_vars(Relays(c))
FairSpec == Spec /\ Fairness

-----------------------------------------------------------------------------
TypeOK ==
  /\ game \in Games
  /\ phase \in [Machines -> {"away", "menu", "leaving", "load", "wait", "battle", "gone"}]
  /\ view \in [Machines -> [Slots -> Slot]]
  /\ limit \in [Machines -> Limits]
  /\ conn \subseteq Clients /\ dropped \in BOOLEAN
  /\ edits \in 0 .. game.edits
  /\ have \in [Machines -> SUBSET Units] /\ usable \in [Machines -> SUBSET Units]
  /\ untold \subseteq Clients
  /\ top \in SeqOf(Machines \cup {"ai"}, NbSlots)
  /\ ready \subseteq DOMAIN top /\ dead \subseteq DOMAIN top
  /\ \A m \in Machines : Cardinality(Own(m)) <= 1

(* What a client has in a slot is what the server has there: the player, a *)
(* closed slot and an open one being the same to him, his choices and      *)
(* whether he is ready.  The exception is an AI that came where a player   *)
(* had been dropped and whose level has not been chosen.                   *)
Agrees(c, i) ==
  LET mine == view[c][i]
      his  == view[Server][i]
  IN  \/ his.who = "ai" /\ ~ his.named
      \/ /\ mine.who = IF his.who = "closed" THEN "open" ELSE his.who
         /\ mine.choice = his.choice /\ mine.ready = his.ready

(* "Tell others that things have changed": when the messages are through,  *)
(* every client of the menu knows what the server has in the slots of the  *)
(* others, whatever was changed while they were on their way.              *)
OthersKnown ==
  Quiet /\ InMenu(Server) =>
    \A c \in conn, i \in Slots : view[Server][i].who # c => Agrees(c, i)

(* Everybody agrees on the game, if people act one after the other: in the *)
(* menu on the players in the slots and their choices, and then and for    *)
(* good on the limit, on which the numbering of all units rests.           *)
SameGame ==
  game.calm /\ Quiet =>
    \A c \in conn :
      /\ limit[c] = limit[Server]
      /\ InMenu(Server) => \A i \in Slots : Agrees(c, i)

(* "We can only use units available on all clients, so check the list":    *)
(* the server begins with units that every client has who is at the index  *)
(* of his id.  Who was moved up without it is not waited for.              *)
UnitsOnAll ==
  phase[Server] = "battle" =>
    \A i \in Awaited \ dead :
      top[i] = view[Server][i].who => usable[Server] \subseteq have[top[i]]

(* A player the server waits for is gone without having said that he is    *)
(* ready, and playerDropped does not say so: he left the menu after the    *)
(* server did, or his connection broke.                                    *)
GoneUnnoticed ==
  /\ phase[Server] = "wait" /\ ~ dropped
  /\ \E i \in Awaited \ (ready \cup dead) :
       LET c == view[Server][i].who
       IN  c \notin conn /\ \A k \in DOMAIN toServer[c] : toServer[c][k].type # "READY"

(* A game that is started begins, for the server and for every client who  *)
(* is still connected, whoever is kicked, dropped or leaves the menu on    *)
(* the way; unless somebody who is waited for is gone unnoticed.           *)
EveryoneBegins ==
  phase[Server] = "leaving" ~>
    \/ \A m \in conn \cup {Server} : phase[m] = "battle"
    \/ GoneUnnoticed
=============================================================================
