-------------------------------- MODULE Bubble --------------------------------
(***************************************************************************)
(* A bubble: its coordinator (packages/bubble) and the universe hosts that *)
(* report to it (packages/universe-host), each over a connection of its    *)
(* own.  The connection is external: it delivers in order, and its closing *)
(* is the last thing it delivers; what was sent shortly before a close may *)
(* be lost.  The coordinator believes what it is told; a host's tick timer *)
(* is re-armed by its own callback.                                        *)
(*                                                                         *)
(* World ticks, frames, lastTick and magesAlive are shown and decide       *)
(* nothing, and targeting, routing and conquest claims only read: they are *)
(* left out.                                                               *)
(***************************************************************************)
EXTENDS Naturals, Sequences, FiniteSets

CONSTANTS
  Universes,
  Headless,         \* those served to no god, which tick by their timer
  MaxWire,          \* bound: frames in flight on one connection
  MaxDepartures     \* bound: connections lost

ASSUME BubbleAssumption ==
  /\ IsFiniteSet(Universes) /\ Headless \subseteq Universes
  /\ {MaxWire, MaxDepartures} \subseteq Nat

VARIABLES
  \* a UniverseHost
  alive,
  timer,            \* tickTimer: null, a pending timer, or one that has fired
  connected,        \* coordSend is set
  wire,             \* host -> the frames on their way to the coordinator
  \* the BubbleCoordinator
  members,
  believed,         \* members whose alive is true
  cleared,
  promoted,         \* who was sent a promotion notice
  departures        \* connections lost so far

hosts == <<alive, timer>>
coordinator == <<members, believed, cleared, promoted>>
vars == <<hosts, connected, wire, coordinator, departures>>

\* A last beat is a heartbeat that says alive: false.
Deaths == {"last beat", "extinction"}
Frames == Deaths \cup {"beat", "closed"}

Init ==
  /\ alive = [u \in Universes |-> TRUE]
  /\ timer = [u \in Universes |-> "none"]
  /\ connected = [u \in Universes |-> FALSE]
  /\ wire = [u \in Universes |-> <<>>]
  /\ members = {} /\ believed = {}
  /\ cleared = FALSE
  /\ promoted = {}
  /\ departures = 0

-----------------------------------------------------------------------------
(* The host. *)

Sent(u, frames) ==
  IF connected[u] THEN [wire EXCEPT ![u] = @ \o frames] ELSE wire

RoomFor(u, n) == Len(wire[u]) + n <= MaxWire

\* startTicking: a timer that has fired still counts as one
StartTicking(u) ==
  /\ u \in Headless
  /\ timer[u] = "none"
  /\ timer' = [timer EXCEPT ![u] = "pending"]
  /\ UNCHANGED <<alive, connected, wire, coordinator, departures>>

StopTicking(u) ==
  /\ timer[u] # "none"
  /\ timer' = [timer EXCEPT ![u] = "none"]
  /\ UNCHANGED <<alive, connected, wire, coordinator, departures>>

\* setSpeed, where it changes anything: stop and start again
SetSpeed(u) ==
  /\ timer[u] = "fired"
  /\ timer' = [timer EXCEPT ![u] = "pending"]
  /\ UNCHANGED <<alive, connected, wire, coordinator, departures>>

\* The callback of a dead host returns at once and leaves the handle behind.
TickOfTheDead(u) ==
  /\ timer[u] = "pending" /\ ~alive[u]
  /\ timer' = [timer EXCEPT ![u] = "fired"]
  /\ UNCHANGED <<alive, connected, wire, coordinator, departures>>

\* The callback otherwise.  What it calls may end the universe before the
\* heartbeat is sent or after; either way, or if it stops the ticking, the
\* timer is armed again.  Left out: an episode that is over, whose submit
\* throws inside the callback, so that the timer is not armed again.
Tick(u) ==
  /\ timer[u] = "pending" /\ alive[u]
  /\ RoomFor(u, 2)
  /\ \/ wire' = Sent(u, <<"beat">>) /\ alive' = alive
     \/ /\ \/ wire' = Sent(u, <<"extinction", "last beat">>)
           \/ wire' = Sent(u, <<"beat", "extinction">>)
        /\ alive' = [alive EXCEPT ![u] = FALSE]
  /\ UNCHANGED <<timer, connected, coordinator, departures>>

\* reportExtinction between two callbacks; it may be called again
ReportExtinction(u) ==
  /\ RoomFor(u, 1)
  /\ alive' = [alive EXCEPT ![u] = FALSE]
  /\ timer' = [timer EXCEPT ![u] = "none"]
  /\ wire' = Sent(u, <<"extinction">>)
  /\ UNCHANGED <<connected, coordinator, departures>>

-----------------------------------------------------------------------------
(* The connection. *)

\* connectCoordinator at one end and addUniverse at the other: what was known
\* of a member by this name is replaced.  A universe registers while it lives.
Connect(u) ==
  /\ ~connected[u] /\ alive[u]
  /\ connected' = [connected EXCEPT ![u] = TRUE]
  /\ members' = members \cup {u}
  /\ believed' = believed \cup {u}
  /\ UNCHANGED <<hosts, wire, cleared, promoted, departures>>

Disconnect(u) ==
  /\ connected[u]
  /\ departures < MaxDepartures
  /\ connected' = [connected EXCEPT ![u] = FALSE]
  /\ \E kept \in 0 .. Len(wire[u]) :
       wire' = [wire EXCEPT ![u] = Append(SubSeq(@, 1, kept), "closed")]
  /\ departures' = departures + 1
  /\ UNCHANGED <<hosts, coordinator>>

-----------------------------------------------------------------------------
(* The coordinator. *)

\* checkClear
CheckClear ==
  IF ~cleared /\ Cardinality(believed') = 1
  THEN cleared' = TRUE /\ promoted' = promoted \cup believed'
  ELSE UNCHANGED <<cleared, promoted>>

\* Mutant: whoever is left after a departure is promoted.
RemoveUniverseAndCheck(u) ==
  /\ members' = members \ {u}
  /\ believed' = believed \ {u}
  /\ CheckClear

\* removeUniverse
RemoveUniverse(u) ==
  /\ members' = members \ {u}
  /\ believed' = believed \ {u}
  /\ UNCHANGED <<cleared, promoted>>

\* Mutant: a report of a death is noted, and the clearing left to the status.
ExtinguishQuietly(u) ==
  /\ believed' = believed \ {u}
  /\ UNCHANGED <<members, cleared, promoted>>

\* reportExtinction: a member believed dead is reported again without harm
Extinguish(u) ==
  IF u \in members
  THEN believed' = believed \ {u} /\ CheckClear /\ UNCHANGED members
  ELSE UNCHANGED coordinator

\* updateStatus: a late status that says alive revives nobody
UpdateStatus(u, frame) ==
  IF frame = "last beat" /\ u \in believed
  THEN Extinguish(u)
  ELSE UNCHANGED coordinator

\* A host sends a heartbeat that says alive, and updateStatus takes a status
\* that says alive.  Nothing in the repository wires the one to the other:
\* whoever does is taken to pass the flag on.
Deliver(u) ==
  /\ wire[u] # <<>>
  /\ wire' = [wire EXCEPT ![u] = Tail(@)]
  /\ LET frame == Head(wire[u]) IN
       \/ frame = "closed" /\ RemoveUniverse(u)
       \/ frame = "extinction" /\ Extinguish(u)
       \/ frame \in {"beat", "last beat"} /\ UpdateStatus(u, frame)
  /\ UNCHANGED <<hosts, connected, departures>>

-----------------------------------------------------------------------------
TimerFires(u) == Tick(u) \/ TickOfTheDead(u)

Next ==
  \E u \in Universes :
    \/ StartTicking(u) \/ StopTicking(u) \/ SetSpeed(u)
    \/ TimerFires(u) \/ ReportExtinction(u)
    \/ Connect(u) \/ Disconnect(u) \/ Deliver(u)

Spec == Init /\ [][Next]_vars

\* Timers fire, and what is on a connection arrives.
LiveSpec ==
  /\ Spec
  /\ \A u \in Universes : WF_vars(TimerFires(u)) /\ WF_vars(Deliver(u))

-----------------------------------------------------------------------------
(* Properties. *)

TypeOK ==
  /\ alive \in [Universes -> BOOLEAN]
  /\ timer \in [Universes -> {"none", "pending", "fired"}]
  /\ connected \in [Universes -> BOOLEAN]
  /\ wire \in [Universes -> Seq(Frames)]
  /\ members \subseteq Universes /\ believed \subseteq members
  /\ cleared \in BOOLEAN
  /\ promoted \subseteq Universes
  /\ departures \in Nat

Clear == INSTANCE BubbleClear WITH extinct <- {u \in Universes : ~alive[u]}

\* The coordinator keeps the bubble's promise though it only ever hears of the
\* universes late, twice or not at all: it promotes once, and only a universe
\* every other member of whose bubble is extinct by then.  The promoted one
\* may itself have died, even first, with its own report still on the way.
PromotesTheLast == Clear!Spec

\* One member lives, of several, and the coordinator has yet to hear of it.
LastStands ==
  /\ Cardinality(members) > 1
  /\ Cardinality({u \in members : alive[u]}) = 1
Unheard == {u \in believed : ~alive[u]}

\* As long as no connection is lost, the death that leaves one universe of a
\* bubble standing clears the bubble; and a host that is extinct stops, though
\* its tick has armed the timer once more.  Only a death does: a universe left
\* alone by a departure, or that joins the dead, is never promoted.
DeathComesThrough ==
  /\ LastStands /\ Unheard # {} /\ departures = 0
       ~> cleared \/ departures > 0 \/ ~LastStands
  /\ \A u \in Universes : ~alive[u] ~> timer[u] # "pending"
=============================================================================
