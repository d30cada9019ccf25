---------------------------- MODULE TickAssembly ----------------------------
(***************************************************************************)
(* How the match server turns one tick's submissions into its canonical    *)
(* batch (packages/server/src/ordering.ts).  An assembly is a value, and   *)
(* its operations are functions of it, so that they can be used by a       *)
(* state machine and reasoned about on their own.                          *)
(*                                                                         *)
(* A submission is [slot, tick, sequence, kind].  An assembly keeps, per   *)
(* slot, the submission that is winning (a set of at most one) and the     *)
(* first reason for which one was refused: close reads no other.           *)
(***************************************************************************)
EXTENDS Integers

CONSTANTS
  NumSlots,     \* slots of the match
  Kinds,        \* action ids, as far as they need telling apart
  NoOp          \* action 0, the meaning of an absent submission

ASSUME AssemblyAssumption ==
  /\ NumSlots \in Nat \ {0}
  /\ NoOp \in Kinds

Slots == 0 .. NumSlots - 1
NoReason == "none"
Reasons == {"late", "masked", "malformed"}

Submissions == [slot : Slots, tick : Int, sequence : Int, kind : Kinds]
Assemblies ==
  [winning : [Slots -> SUBSET Submissions], refused : [Slots -> Reasons \union {NoReason}]]
Entries ==
  [kind : Kinds, source : {"submitted", "substituted"},
   rejection : Reasons \union {NoReason}]

EmptyAssembly ==
  [winning |-> [s \in Slots |-> {}], refused |-> [s \in Slots |-> NoReason]]

\* Mutant: a refusal takes back what the slot had already submitted.
RefuseRetracting(asm, slot, reason) ==
  [asm EXCEPT !.refused[slot] = IF @ = NoReason THEN reason ELSE @,
              !.winning[slot] = {}]

\* A refusal is noted, and never retracts what was already admitted.
Refuse(asm, slot, reason) ==
  [asm EXCEPT !.refused[slot] = IF @ = NoReason THEN reason ELSE @]

\* The lowest sequence wins, and the first offered of two that are equal.
\* The loser's duplicate notice is never read: its slot has a winner.
Wins(asm, sub) == \A held \in asm.winning[sub.slot] : sub.sequence < held.sequence

Offer(asm, tick, sub) ==
  CASE sub.tick # tick -> Refuse(asm, sub.slot, "late")
    [] sub.tick = tick /\ Wins(asm, sub) -> [asm EXCEPT !.winning[sub.slot] = {sub}]
    [] OTHER -> asm

\* One entry per slot.  A slot nobody answered for gets the no-op, with the
\* reason if something was refused and without one if nothing arrived.
Close(asm) ==
  [s \in Slots |->
     IF asm.winning[s] = {}
     THEN [kind |-> NoOp, source |-> "substituted", rejection |-> asm.refused[s]]
     ELSE [kind |-> (CHOOSE w \in asm.winning[s] : TRUE).kind,
           source |-> "submitted", rejection |-> NoReason]]
=============================================================================
