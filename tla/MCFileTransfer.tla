--------------------------- MODULE MCFileTransfer ---------------------------
(* The files of a game for TLC: a map of one file of two whole chunks,     *)
(* which takes one read more than the window and the chunk being sent, and *)
(* a script of one chunk, which is not full.                               *)
EXTENDS FileTransfer, TLC
CONSTANTS tnt, lua
Sizes == tnt :> 2 @@ lua :> 1
=============================================================================
