------------------------------ MODULE MCLobby ------------------------------
(* The setup menu and the wait room for TLC: what may happen in each game. *)
EXTENDS Lobby

Game(calm, may, n) == [calm |-> calm, may |-> may, edits |-> n]

OneByOne == Game(TRUE, {"edit", "type", "limit", "leave", "slow", "start"}, 2)
Dropped == Game(TRUE, {"edit", "type", "slow", "joined", "remembered"}, 4)
AtOnce == Game(FALSE, {"edit", "type", "limit", "leave", "joined"}, 2)
Arriving == Game(FALSE, {"edit"}, 1)
Beginning == Game(FALSE, {"leave", "slow", "joined", "start", "remembered"}, 1)
Breaking == Game(FALSE, {"crash", "leave", "slow", "joined", "start"}, 2)
AllGames == {OneByOne, Dropped, AtOnce, Arriving, Beginning, Breaking}
=============================================================================
