---------------------------- MODULE MCMatchHost -----------------------------
(***************************************************************************)
(* MatchHost with two participants, three connections between them, two    *)
(* challenges and two matches.                                             *)
(***************************************************************************)
EXTENDS MatchHost
=============================================================================
