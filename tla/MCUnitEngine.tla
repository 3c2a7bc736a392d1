---------------------------- MODULE MCUnitEngine ----------------------------
(* The threads of the unit array for TLC: two slots for each of two players *)
(* and a few IDs are enough for one death to move another unit in the list. *)
EXTENDS UnitEngine, TLC
CONSTANTS p1, p2

OnlyEngineKills ==
  [builders |-> {p1}, mortals |-> {p1}, scripts |-> {}, cancels |-> FALSE, ids |-> 4]

(* The player cancels what a script and a factory create.                   *)
MainKills ==
  [builders |-> {p1}, mortals |-> {}, scripts |-> {p1}, cancels |-> TRUE, ids |-> 3]

(* All three threads kill and create.                                       *)
AllKill == [MainKills EXCEPT !.mortals = {p1, p2}, !.ids = 2]

(* The engine kills, and the network tells of deaths.                       *)
RemoteDie == [OnlyEngineKills EXCEPT !.mortals = {p1, p2}]

MCPlayers == {p1, p2}
MCRemote == {p2}
MCGames == {OnlyEngineKills, MainKills, AllKill}
MCRemoteGames == {RemoteDie}
=============================================================================
