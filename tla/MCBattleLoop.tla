---------------------------- MODULE MCBattleLoop ----------------------------
(* The threads of a battle for TLC: a second is one tick, a battle a few.  *)
EXTENDS BattleLoop, TLC

MCGames ==
  {[kind |-> "alone", ticks |-> 3, orders |-> 2, drift |-> 0],
   [kind |-> "left", ticks |-> 3, orders |-> 0, drift |-> 0],
   [kind |-> "talk", ticks |-> 3, orders |-> 1, drift |-> 0],
   [kind |-> "talk", ticks |-> 2, orders |-> 2, drift |-> 0],
   [kind |-> "talk", ticks |-> 4, orders |-> 0, drift |-> 1]}
MCSaved == {[kind |-> "saved", ticks |-> 3, orders |-> 1, drift |-> 1]}
=============================================================================
