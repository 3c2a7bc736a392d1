----------------------------- MODULE MCUnitSync -----------------------------
(* Two machines, the server and a client, with three slots per player: one  *)
(* that is taken and two free ones to confuse.                              *)
EXTENDS UnitSync

Client == CHOOSE m \in Machines : m # Server

(* Everybody builds, cancels and loses units, and the script creates units  *)
(* for the server's player.                                                 *)
OwnersOnly ==
  [builders |-> Machines, mortals |-> Machines, cancels |-> Machines,
   captors |-> {}, scripted |-> {Server}]

(* The server builds, and captures the units of a client that loses some    *)
(* and builds nothing.                                                      *)
QuietOwner ==
  [builders |-> {Server}, mortals |-> {Client}, cancels |-> {},
   captors |-> {Server}, scripted |-> {Server}]

(* The server captures the units of a client that builds.                   *)
Rivals ==
  [builders |-> Machines, mortals |-> Machines, cancels |-> {},
   captors |-> {Server}, scripted |-> {}]

Peaceful == {OwnersOnly, QuietOwner}
Contested == {Rivals}
=============================================================================
