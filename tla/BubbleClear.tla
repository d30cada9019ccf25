----------------------------- MODULE BubbleClear -----------------------------
(***************************************************************************)
(* What a bubble promises its universes, whatever travels between them and *)
(* its coordinator: it promotes once, and only a member whose every fellow *)
(* member is extinct.  Whether that member still lives when the notice is  *)
(* written is not promised: its own death may be on the way.               *)
(***************************************************************************)
CONSTANT Universes

VARIABLES members, extinct, promoted

Init == members = {} /\ extinct = {} /\ promoted = {}

Join(u) ==
  members' = members \cup {u} /\ UNCHANGED <<extinct, promoted>>

Leave(u) ==
  members' = members \ {u} /\ UNCHANGED <<extinct, promoted>>

Die(u) ==
  extinct' = extinct \cup {u} /\ UNCHANGED <<members, promoted>>

Promote(u) ==
  /\ promoted = {}
  /\ u \in members
  /\ members # {u} /\ members \ {u} \subseteq extinct
  /\ promoted' = {u}
  /\ UNCHANGED <<members, extinct>>

Next == \E u \in Universes : Join(u) \/ Leave(u) \/ Die(u) \/ Promote(u)

Spec == Init /\ [][Next]_<<members, extinct, promoted>>
=============================================================================
