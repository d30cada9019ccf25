-------------------------------- MODULE MCRaid --------------------------------
(***************************************************************************)
(* A small war.  Raider 1 throws bolts and reads minds, raider 2 opens the *)
(* gate and blights books.  Warden 3 summons while there is room, throws   *)
(* bolts when there is none, and knows what raider 1 does not; beside her  *)
(* a soldier of the host makes the odd detachment, and its folk can be     *)
(* levied into the one roster slot she summons into.                       *)
(* What raider 1 and the warden can do with fire and with shadow exclude   *)
(* one another: whoever takes up the one loses the other.                  *)
(* Nodes: 1 opens the gate, 2 and 6 are bolts, 3 reads, 4 blights, 5 calls.*)
(***************************************************************************)
EXTENDS Raid, TLC

mcBody == 1 :> 2 @@ 2 :> 1 @@ 3 :> 1 @@ 7 :> 1
mcVigor == 1 :> 1 @@ 2 :> 1 @@ 3 :> 1
mcSkills == 1 :> {2, 3} @@ 2 :> {1, 4} @@ 3 :> {5, 6}
mcTier == 1 :> 1 @@ 2 :> 1 @@ 3 :> 1 @@ 4 :> 1 @@ 5 :> 1 @@ 6 :> 2
mcAxesOf == [c \in Cells |-> {"perdo"}]
mcCellOf == [n \in 1 .. 6 |-> IF n \in {5, 6} THEN "umbra" ELSE "ignem"]
mcExcludes == [cd \in Cells \X Cells |-> IF cd[1] = cd[2] THEN "none" ELSE "destructive"]
mcCastCost == [n \in 1 .. 6 |-> 1]
mcNodeOf == 1 :> 6 @@ 2 :> 2
mcMuster == [g \in Cohorts |->
  IF g = <<"defender", "soldiers">> THEN 1 ELSE IF g = <<"defender", "folk">> THEN 3 ELSE 0]
mcMaxWorldTick == [s \in Sides |-> IF s = "attacker" THEN 0 ELSE 1]
mcCost == [v \in Verbs |-> IF v \in {"permit", "levy", "ward"} THEN 2 ELSE 1]
=============================================================================
