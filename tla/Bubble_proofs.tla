---------------------------- MODULE Bubble_proofs ----------------------------
(***************************************************************************)
(* That the coordinator keeps the bubble's promise, for any number of      *)
(* universes, any length of wire and any number of lost connections.  The  *)
(* promise is about who is extinct; the coordinator only has beliefs and a *)
(* flag.  The invariant ties them together: a death on the wire is true, a *)
(* member believed dead is dead, and what is not cleared promoted nobody.  *)
(***************************************************************************)
EXTENDS Bubble, FiniteSetTheorems, TLAPS

TidingsAreTrue ==
  \A u \in Universes : \A i \in 1 .. Len(wire[u]) : wire[u][i] \in Deaths => ~alive[u]

BelievedDeadAreDead == \A u \in members \ believed : ~alive[u]

UnclearedPromoteNobody == ~cleared => promoted = {}

Inv == TypeOK /\ TidingsAreTrue /\ BelievedDeadAreDead /\ UnclearedPromoteNobody

LEMMA InitInv == Init => Inv
<1> SUFFICES ASSUME Init PROVE Inv
  OBVIOUS
<1>1. \A u \in Universes : wire[u] = <<>> /\ Len(wire[u]) = 0
  BY DEF Init
<1>2. <<>> \in Seq(Frames)
  OBVIOUS
<1>3. TypeOK
  BY <1>2 DEF Init, TypeOK
<1> QED BY <1>1, <1>3 DEF Init, Inv, TidingsAreTrue, BelievedDeadAreDead, UnclearedPromoteNobody

-----------------------------------------------------------------------------
(* The host's steps: what they put on the wire is true when they put it    *)
(* there, and no host comes back to life.                                  *)

\* A step that leaves the coordinator alone, kills or does not, and appends
\* to one wire frames that are true of the host they are from.
LEMMA HostInv ==
  ASSUME Inv, NEW u \in Universes, NEW frames \in Seq(Frames), NEW mortal \in BOOLEAN,
         alive' = IF mortal THEN [alive EXCEPT ![u] = FALSE] ELSE alive,
         wire' = Sent(u, frames),
         \A i \in 1 .. Len(frames) : frames[i] \in Deaths => mortal,
         timer' \in [Universes -> {"none", "pending", "fired"}],
         UNCHANGED <<connected, members, believed, cleared, promoted, departures>>
  PROVE  Inv'
<1>1. alive' \in [Universes -> BOOLEAN] /\ \A v \in Universes : ~alive[v] => ~alive'[v]
  BY DEF Inv, TypeOK
<1>2. wire' \in [Universes -> Seq(Frames)]
  BY DEF Sent, Inv, TypeOK
<1>3. TypeOK'
  BY <1>1, <1>2 DEF Inv, TypeOK
<1>4. ASSUME NEW v \in Universes, NEW i \in 1 .. Len(wire'[v]), wire'[v][i] \in Deaths
      PROVE  ~alive'[v]
  <2>1. CASE wire'[v] = wire[v]
    BY <1>1, <1>4, <2>1 DEF Inv, TidingsAreTrue
  <2>2. CASE wire'[v] # wire[v]
    <3>1. v = u /\ wire'[u] = wire[u] \o frames /\ wire[u] \in Seq(Frames)
      BY <2>2 DEF Sent, Inv, TypeOK
    <3>2. CASE i <= Len(wire[u])
      <4>1. wire'[u][i] = wire[u][i] /\ i \in 1 .. Len(wire[u])
        BY <3>1, <3>2, <1>4
      <4> QED BY <1>1, <1>4, <3>1, <4>1 DEF Inv, TidingsAreTrue
    <3>3. CASE i > Len(wire[u])
      <4>1. i - Len(wire[u]) \in 1 .. Len(frames) /\ wire'[u][i] = frames[i - Len(wire[u])]
        BY <3>1, <3>3, <1>4
      <4>2. mortal
        BY <4>1, <3>1, <1>4
      <4> QED BY <4>2, <3>1 DEF Inv, TypeOK
    <3> QED BY <3>2, <3>3, <3>1, <1>4
  <2> QED BY <2>1, <2>2
<1>5. TidingsAreTrue'
  BY <1>4 DEF TidingsAreTrue
<1>6. BelievedDeadAreDead' /\ UnclearedPromoteNobody'
  BY <1>1 DEF Inv, TypeOK, BelievedDeadAreDead, UnclearedPromoteNobody
<1> QED BY <1>3, <1>5, <1>6 DEF Inv

LEMMA TickInv ==
  ASSUME Inv, NEW u \in Universes, Tick(u)
  PROVE  Inv'
<1>1. UNCHANGED <<timer, connected, members, believed, cleared, promoted, departures>>
      /\ timer' \in [Universes -> {"none", "pending", "fired"}]
  BY DEF Tick, coordinator, Inv, TypeOK
<1>2. CASE wire' = Sent(u, <<"beat">>) /\ alive' = alive
  <2>1. <<"beat">> \in Seq(Frames) /\ Len(<<"beat">>) = 1 /\ <<"beat">>[1] = "beat"
    BY DEF Frames
  <2>2. "beat" \notin Deaths
    BY DEF Deaths
  <2>3. \A i \in 1 .. Len(<<"beat">>) : <<"beat">>[i] \in Deaths => FALSE
    BY <2>1, <2>2
  <2> QED BY <1>1, <1>2, <2>1, <2>3, HostInv
<1>3. CASE wire' = Sent(u, <<"extinction", "last beat">>) /\ alive' = [alive EXCEPT ![u] = FALSE]
  <2>1. <<"extinction", "last beat">> \in Seq(Frames)
    BY DEF Frames, Deaths
  <2> QED BY <1>1, <1>3, <2>1, HostInv
<1>4. CASE wire' = Sent(u, <<"beat", "extinction">>) /\ alive' = [alive EXCEPT ![u] = FALSE]
  <2>1. <<"beat", "extinction">> \in Seq(Frames)
    BY DEF Frames, Deaths
  <2> QED BY <1>1, <1>4, <2>1, HostInv
<1> QED BY <1>2, <1>3, <1>4 DEF Tick

LEMMA ReportInv ==
  ASSUME Inv, NEW u \in Universes, ReportExtinction(u)
  PROVE  Inv'
<1>1. /\ UNCHANGED <<connected, members, believed, cleared, promoted, departures>>
      /\ timer' \in [Universes -> {"none", "pending", "fired"}]
      /\ alive' = [alive EXCEPT ![u] = FALSE] /\ wire' = Sent(u, <<"extinction">>)
  BY DEF ReportExtinction, coordinator, Inv, TypeOK
<1>2. <<"extinction">> \in Seq(Frames)
  BY DEF Frames, Deaths
<1> QED BY <1>1, <1>2, HostInv

\* Arming, clearing and firing a timer say nothing about anybody.
LEMMA TimerInv ==
  ASSUME Inv, NEW u \in Universes,
         StartTicking(u) \/ StopTicking(u) \/ SetSpeed(u) \/ TickOfTheDead(u)
  PROVE  Inv'
<1>1. /\ UNCHANGED <<alive, connected, wire, members, believed, cleared, promoted, departures>>
      /\ timer' \in [Universes -> {"none", "pending", "fired"}]
  BY DEF StartTicking, StopTicking, SetSpeed, TickOfTheDead, coordinator, Inv, TypeOK
<1> QED BY <1>1 DEF Inv, TypeOK, TidingsAreTrue, BelievedDeadAreDead, UnclearedPromoteNobody

-----------------------------------------------------------------------------
(* The connection.  A close loses frames from the end, and adds no death.  *)

LEMMA ConnectInv ==
  ASSUME Inv, NEW u \in Universes, Connect(u)
  PROVE  Inv'
<1>1. /\ UNCHANGED <<alive, timer, wire, cleared, promoted, departures>>
      /\ connected' = [connected EXCEPT ![u] = TRUE]
      /\ members' = members \cup {u} /\ believed' = believed \cup {u}
  BY DEF Connect, hosts
<1> QED BY <1>1 DEF Inv, TypeOK, TidingsAreTrue, BelievedDeadAreDead, UnclearedPromoteNobody

LEMMA DisconnectInv ==
  ASSUME Inv, NEW u \in Universes, Disconnect(u)
  PROVE  Inv'
<1>1. PICK kept \in 0 .. Len(wire[u]) :
        wire' = [wire EXCEPT ![u] = Append(SubSeq(@, 1, kept), "closed")]
  BY DEF Disconnect
<1>2. /\ UNCHANGED <<alive, timer, members, believed, cleared, promoted>>
      /\ connected' = [connected EXCEPT ![u] = FALSE] /\ departures' = departures + 1
  BY DEF Disconnect, hosts, coordinator
<1>3. wire[u] \in Seq(Frames) /\ "closed" \in Frames /\ "closed" \notin Deaths
  BY DEF Inv, TypeOK, Frames, Deaths
<1> DEFINE tail == Append(SubSeq(wire[u], 1, kept), "closed")
<1>4. /\ tail \in Seq(Frames) /\ Len(tail) = kept + 1 /\ tail[kept + 1] = "closed"
      /\ \A i \in 1 .. kept : i \in 1 .. Len(wire[u]) /\ tail[i] = wire[u][i]
  BY <1>3
<1>5. TypeOK'
  BY <1>1, <1>2, <1>4 DEF Inv, TypeOK
<1>6. \A i \in 1 .. Len(tail) : tail[i] \in Deaths => ~alive[u]
  BY <1>3, <1>4 DEF Inv, TidingsAreTrue
<1>7. TidingsAreTrue'
  <2> SUFFICES ASSUME NEW v \in Universes PROVE \A i \in 1 .. Len(wire'[v]) : wire'[v][i] \in Deaths => ~alive'[v]
    BY DEF TidingsAreTrue
  <2>1. CASE v = u
    BY <2>1, <1>1, <1>2, <1>6 DEF Inv, TypeOK
  <2>2. CASE v # u
    BY <2>2, <1>1, <1>2 DEF Inv, TypeOK, TidingsAreTrue
  <2> QED BY <2>1, <2>2
<1> QED BY <1>2, <1>5, <1>7 DEF Inv, BelievedDeadAreDead, UnclearedPromoteNobody

-----------------------------------------------------------------------------
(* The coordinator.  The one step that promotes follows a true death: the  *)
(* dead member is another than the one it leaves, and every other member   *)
(* was believed dead and is.                                               *)

LEMMA ExtinguishPromotes ==
  ASSUME Inv, NEW u \in Universes, ~alive[u], Extinguish(u), UNCHANGED alive
  PROVE  /\ members' = members /\ believed' \subseteq members
         /\ \A v \in members \ believed' : ~alive[v]
         /\ cleared' \in BOOLEAN /\ (~cleared' => promoted' = {}) /\ promoted' \subseteq Universes
         /\ \/ promoted' = promoted
            \/ \E w \in Universes : Clear!Promote(w)
<1>1. CASE u \notin members
  BY <1>1 DEF Extinguish, coordinator, Inv, TypeOK, BelievedDeadAreDead, UnclearedPromoteNobody
<1>2. CASE u \in members
  <2>1. members' = members /\ believed' = believed \ {u} /\ CheckClear
    BY <1>2 DEF Extinguish
  <2>2. /\ believed' \subseteq members /\ \A v \in members \ believed' : ~alive[v]
    BY <2>1 DEF Inv, TypeOK, BelievedDeadAreDead
  <2>3. CASE ~cleared /\ Cardinality(believed') = 1
    <3>1. cleared' = TRUE /\ promoted = {} /\ promoted' = believed'
      BY <2>1, <2>3 DEF CheckClear, Inv, UnclearedPromoteNobody
    <3>2. IsFiniteSet(believed')
      BY <2>1, BubbleAssumption, FS_Subset DEF Inv, TypeOK
    <3>3. PICK w : believed' = {w}
      BY <3>2, <2>3, FS_Singleton
    <3>4. w \in members /\ members # {w} /\ members \ {w} \subseteq {v \in Universes : ~alive[v]}
      BY <3>3, <2>1, <2>2, <1>2 DEF Inv, TypeOK
    <3>5. Clear!Promote(w) /\ w \in Universes
      BY <3>1, <3>3, <3>4, <2>1 DEF Clear!Promote, Inv, TypeOK
    <3> QED BY <2>1, <2>2, <3>1, <3>3, <3>5
  <2>4. CASE ~(~cleared /\ Cardinality(believed') = 1)
    <3>1. cleared' = cleared /\ promoted' = promoted
      BY <2>1, <2>4 DEF CheckClear
    <3> QED BY <2>1, <2>2, <3>1 DEF Inv, TypeOK, UnclearedPromoteNobody
  <2> QED BY <2>3, <2>4
<1> QED BY <1>1, <1>2

\* Delivering a frame shortens the wire; what it does to the coordinator is a
\* departure, a death or nothing.
LEMMA DeliverInv ==
  ASSUME Inv, NEW u \in Universes, Deliver(u)
  PROVE  /\ Inv'
         /\ \/ UNCHANGED <<members, promoted>>
            \/ Clear!Leave(u)
            \/ \E w \in Universes : Clear!Promote(w)
<1> DEFINE frame == Head(wire[u])
<1>1. /\ UNCHANGED <<alive, timer, connected, departures>>
      /\ wire[u] # <<>> /\ wire' = [wire EXCEPT ![u] = Tail(@)]
  BY DEF Deliver, hosts
<1>2. wire[u] \in Seq(Frames) /\ Tail(wire[u]) \in Seq(Frames)
      /\ frame = wire[u][1] /\ 1 \in 1 .. Len(wire[u])
      /\ \A i \in 1 .. Len(Tail(wire[u])) :
           i + 1 \in 1 .. Len(wire[u]) /\ Tail(wire[u])[i] = wire[u][i + 1]
  BY <1>1 DEF Inv, TypeOK
<1>3. wire' \in [Universes -> Seq(Frames)]
  BY <1>1, <1>2 DEF Inv, TypeOK
<1>4. TidingsAreTrue'
  <2> SUFFICES ASSUME NEW v \in Universes PROVE \A i \in 1 .. Len(wire'[v]) : wire'[v][i] \in Deaths => ~alive'[v]
    BY DEF TidingsAreTrue
  <2>1. CASE v = u
    BY <2>1, <1>1, <1>2 DEF Inv, TypeOK, TidingsAreTrue
  <2>2. CASE v # u
    BY <2>2, <1>1 DEF Inv, TypeOK, TidingsAreTrue
  <2> QED BY <2>1, <2>2
<1>5. frame \in Deaths => ~alive[u]
  BY <1>2 DEF Inv, TidingsAreTrue
<1>6. CASE RemoveUniverse(u)
  <2>1. /\ members' = members \ {u} /\ believed' = believed \ {u}
        /\ UNCHANGED <<cleared, promoted>>
    BY <1>6 DEF RemoveUniverse
  <2>2. Clear!Leave(u)
    BY <2>1, <1>1 DEF Clear!Leave
  <2> QED BY <2>1, <2>2, <1>1, <1>3, <1>4
        DEF Inv, TypeOK, BelievedDeadAreDead, UnclearedPromoteNobody
<1>7. CASE Extinguish(u) /\ frame \in Deaths
  <2>1. /\ members' = members /\ believed' \subseteq members
        /\ \A v \in members \ believed' : ~alive[v]
        /\ cleared' \in BOOLEAN /\ (~cleared' => promoted' = {}) /\ promoted' \subseteq Universes
        /\ \/ promoted' = promoted
           \/ \E w \in Universes : Clear!Promote(w)
    BY <1>7, <1>5, <1>1, ExtinguishPromotes
  <2> QED BY <2>1, <1>1, <1>3, <1>4
        DEF Inv, TypeOK, BelievedDeadAreDead, UnclearedPromoteNobody
<1>8. CASE UNCHANGED coordinator
  BY <1>8, <1>1, <1>3, <1>4
     DEF coordinator, Inv, TypeOK, BelievedDeadAreDead, UnclearedPromoteNobody
<1> QED BY <1>6, <1>7, <1>8 DEF Deliver, UpdateStatus, Deaths

-----------------------------------------------------------------------------
\* Every step of the bubble keeps the invariant and is a step of the promise,
\* or no step of it.
LEMMA NextInv ==
  ASSUME Inv, [Next]_vars
  PROVE  Inv' /\ [Clear!Next]_<<members, {u \in Universes : ~alive[u]}, promoted>>
<1> DEFINE extinct == {u \in Universes : ~alive[u]}
<1>1. ASSUME NEW u \in Universes,
             StartTicking(u) \/ StopTicking(u) \/ SetSpeed(u) \/ TickOfTheDead(u)
      PROVE  Inv' /\ UNCHANGED <<members, alive, promoted>>
  BY <1>1, TimerInv
     DEF StartTicking, StopTicking, SetSpeed, TickOfTheDead, coordinator
<1>2. ASSUME NEW u \in Universes, Tick(u) \/ ReportExtinction(u)
      PROVE  Inv' /\ [Clear!Next]_<<members, extinct, promoted>>
  <2>1. Inv'
    BY <1>2, TickInv, ReportInv
  <2>2. UNCHANGED <<members, promoted>> /\ (alive' = alive \/ alive' = [alive EXCEPT ![u] = FALSE])
    BY <1>2 DEF Tick, ReportExtinction, coordinator
  <2>3. CASE alive' = alive
    BY <2>1, <2>2, <2>3
  <2>4. CASE alive' = [alive EXCEPT ![u] = FALSE]
    <3>1. extinct' = extinct \cup {u}
      BY <2>4 DEF Inv, TypeOK
    <3>2. Clear!Die(u)
      BY <3>1, <2>2 DEF Clear!Die
    <3> QED BY <2>1, <3>2 DEF Clear!Next
  <2> QED BY <2>2, <2>3, <2>4
<1>3. ASSUME NEW u \in Universes, Connect(u)
      PROVE  Inv' /\ [Clear!Next]_<<members, extinct, promoted>>
  <2>1. Clear!Join(u)
    BY <1>3 DEF Connect, hosts, Clear!Join
  <2> QED BY <1>3, <2>1, ConnectInv DEF Clear!Next
<1>4. ASSUME NEW u \in Universes, Disconnect(u)
      PROVE  Inv' /\ UNCHANGED <<members, alive, promoted>>
  BY <1>4, DisconnectInv DEF Disconnect, hosts, coordinator
<1>5. ASSUME NEW u \in Universes, Deliver(u)
      PROVE  Inv' /\ [Clear!Next]_<<members, extinct, promoted>>
  <2>1. UNCHANGED alive
    BY <1>5 DEF Deliver, hosts
  <2> QED BY <1>5, <2>1, DeliverInv DEF Clear!Next
<1>6. CASE UNCHANGED vars
  BY <1>6 DEF vars, hosts, coordinator, Inv, TypeOK, TidingsAreTrue, BelievedDeadAreDead,
              UnclearedPromoteNobody
<1> QED BY <1>1, <1>2, <1>3, <1>4, <1>5, <1>6 DEF Next, TimerFires

\* Types, in every reachable state.
THEOREM TypeCorrect == Spec => []TypeOK
<1>1. Inv => TypeOK
  BY DEF Inv
<1>2. Inv /\ [Next]_vars => Inv'
  BY NextInv
<1> QED BY <1>1, <1>2, InitInv, PTL DEF Spec

\* coordinator.ts 205-222 and 260-295: however late, often or never the
\* universes' reports arrive, the coordinator implements the bubble's promise.
THEOREM BubbleKeepsItsPromise == Spec => PromotesTheLast
<1>1. Init => Clear!Init
  BY DEF Init, Clear!Init
<1>2. Inv /\ [Next]_vars => Inv' /\ [Clear!Next]_<<members, {u \in Universes : ~alive[u]}, promoted>>
  BY NextInv
<1> QED BY <1>1, <1>2, InitInv, PTL DEF Spec, PromotesTheLast, Clear!Spec
=============================================================================
