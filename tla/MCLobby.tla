------------------------------- MODULE MCLobby -------------------------------
(***************************************************************************)
(* Bubbles of three leave room for a short one that others join.  Three    *)
(* universes at a time and a fourth one created later make one of them     *)
(* leave, by its owner or to make room, and be replaced.                   *)
(***************************************************************************)
EXTENDS Lobby
=============================================================================
