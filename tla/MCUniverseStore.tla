--------------------------- MODULE MCUniverseStore ---------------------------
(***************************************************************************)
(* Two matches let a save overlap or follow another and a load fall between*)
(* any two of their steps; one crash may fall anywhere.                    *)
(***************************************************************************)
EXTENDS UniverseStore
=============================================================================
