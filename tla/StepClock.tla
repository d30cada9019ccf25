------------------------------ MODULE StepClock ------------------------------
(***************************************************************************)
(* What sim-core promises of a universe's clock: it counts world ticks     *)
(* unless an engagement has stopped them, counts engagement ticks from     *)
(* zero while one has, and resumes world time at the tick it paused at.    *)
(* Entering twice, or leaving what was not entered, is an error there and  *)
(* no step here.                                                           *)
(***************************************************************************)
EXTENDS Naturals

VARIABLE clock      \* [worldTick, engagementTick, mode]

Modes == {"world", "engagement"}
Readings == [worldTick : Nat, engagementTick : Nat, mode : Modes]

\* advanceClock
Advanced(c) ==
  IF c.mode = "engagement"
  THEN [c EXCEPT !.engagementTick = @ + 1]
  ELSE [c EXCEPT !.worldTick = @ + 1]

\* enterEngagement
MayEnter(c) == c.mode = "world"
Entered(c) == [worldTick |-> c.worldTick, engagementTick |-> 0, mode |-> "engagement"]

\* leaveEngagement
MayLeave(c) == c.mode = "engagement"
Left(c) == [worldTick |-> c.worldTick, engagementTick |-> 0, mode |-> "world"]

\* createClock
Init == clock = [worldTick |-> 0, engagementTick |-> 0, mode |-> "world"]

Advance == clock' = Advanced(clock)
Enter == MayEnter(clock) /\ clock' = Entered(clock)
Leave == MayLeave(clock) /\ clock' = Left(clock)

Next == Advance \/ Enter \/ Leave

Spec == Init /\ [][Next]_clock
=============================================================================
