--------------------------- MODULE LockstepMatch ----------------------------
(***************************************************************************)
(* One live match on the authoritative server (packages/server/src: match, *)
(* ordering, desync, admission and the match half of host).  Participants  *)
(* submit actions for the open tick; the host closes the tick when every   *)
(* slot has answered or the deadline has passed, applies the batch to the  *)
(* slots' universes, publishes their hashes, runs a raid if one was asked  *)
(* for, and compares the participants' checkpoints with its own hashes.    *)
(*                                                                         *)
(* A universe is the log of what was applied to it, and its hash is that   *)
(* log: two universes hash alike exactly when the same was done to them.   *)
(* The simulation behind it is external.  It decides, after every step,    *)
(* what is legal next, whether an episode is over and how a raid ends, and *)
(* each of those is a choice here.                                         *)
(***************************************************************************)
EXTENDS TickAssembly, Sequences, FiniteSets

CONSTANTS
  StepLimit,        \* the challenge's step limit
  MaxSubmissions,   \* AdmissionPolicy.maxSubmissionsPerTick
  MaxSequence,      \* bound: sequence numbers a client uses
  MaxFrames,        \* bound: action frames sent during the match
  Portal,           \* action 14, openPortal
  Masks             \* the legality masks the simulation may present

ASSUME LockstepAssumption ==
  /\ StepLimit \in Nat \ {0}
  /\ MaxSubmissions \in Nat \ {0}
  /\ MaxSequence \in Nat
  /\ MaxFrames \in Nat
  /\ Portal \in Kinds \ {NoOp} /\ "malformed" \notin Kinds
  /\ Masks # {} /\ \A m \in Masks : m \subseteq Kinds /\ NoOp \in m

Malformed == "malformed"   \* the kind -1 that no mask admits
Raided == "raided"         \* what a raid leaves in a universe's log
NoSlot == -1

VARIABLES
  hasResolver,    \* whether the host was built with a raid resolver
  \* Match
  tick,           \* the open tick
  assembly,       \* the open tick's TickAssembly
  record,         \* the batches applied, in order
  ended,          \* why the match ended, "none" while it runs
  \* the sessions
  universe,       \* slot -> what was done to it
  mask,           \* slot -> the kinds that are legal now
  over,           \* slots whose episode ascended or stagnated
  \* LiveMatch and Peer
  deadlinePassed, \* clock.now() >= deadlineAt
  answered,       \* slots that have an action for the open tick
  lastHashes, lastTick,
  portalPending,
  lastSequence,   \* slot -> the highest sequence its peer has used
  budget,         \* slot -> the tick its peer charges and how much it has used
  retained,       \* the ended match is still in `settled`
  up,             \* the server process is running
  frames,         \* action frames sent so far
  \* history
  heard,          \* submissions that reached the open tick
  raids,          \* ticks after which a raid was fought
  lied            \* whether anyone reported a hash it never computed

match == <<tick, assembly, record, ended>>
sessions == <<universe, mask, over>>
peers == <<lastSequence, budget>>
published == <<lastHashes, lastTick>>
vars == <<hasResolver, match, sessions, deadlinePassed, answered, published,
          portalPending, peers, retained, up, frames, heard, raids, lied>>

Live == up /\ ended = "none"

-----------------------------------------------------------------------------
\* Mutant: the mask is left to the core.
ScreenNothing(s, kind) == IF kind = Malformed THEN Malformed ELSE NoReason

\* screen: why an action may not reach the core, or NoReason.  A frozen
\* ruleset is one more way of being masked.
Screen(s, kind) ==
  CASE kind = Malformed -> "malformed"
    [] kind # Malformed /\ kind \notin mask[s] -> "masked"
    [] OTHER -> NoReason

\* Match.submit: what the open assembly becomes.
Submitted(s, sub) ==
  IF Screen(s, sub.kind) = NoReason THEN Offer(assembly, tick, sub)
  ELSE Refuse(assembly, s, Screen(s, sub.kind))

\* The refusal that onAction does not take for an answer.
IsLate(s, sub) == Screen(s, sub.kind) = NoReason /\ sub.tick # tick

Submission(s, t, q, kind) == [slot |-> s, tick |-> t, sequence |-> q, kind |-> kind]

\* chargeSubmission: the count for the tick the frame names, which starts
\* over when that differs from the last one named.  It saturates just past
\* the budget.
Charged(s, t) ==
  LET used == IF budget[s].tick = t THEN budget[s].used + 1 ELSE 1
  IN  [tick |-> t, used |-> IF used > MaxSubmissions THEN MaxSubmissions + 1 ELSE used]

\* onAction.  A frame over its tick's budget is refused unread; one whose
\* sequence does not increase is dropped; any other fixes the slot's action
\* for the tick, unless it was legal and named another tick.
OnAction(s, t, q, kind) ==
  LET sub == Submission(s, t, q, kind)
      charged == Charged(s, t)
  IN
  /\ Live /\ frames < MaxFrames
  /\ frames' = frames + 1
  /\ budget' = [budget EXCEPT ![s] = charged]
  /\ \/ /\ charged.used > MaxSubmissions
        /\ assembly' = Submitted(s, [sub EXCEPT !.kind = Malformed])
        /\ heard' = heard \union {Submission(s, tick, 0, Malformed)}
        /\ UNCHANGED <<lastSequence, answered, portalPending>>
     \/ /\ charged.used <= MaxSubmissions
        /\ q <= lastSequence[s]
        /\ UNCHANGED <<assembly, heard, lastSequence, answered, portalPending>>
     \/ /\ charged.used <= MaxSubmissions
        /\ q > lastSequence[s]
        /\ lastSequence' = [lastSequence EXCEPT ![s] = q]
        /\ portalPending' = IF kind = Portal /\ hasResolver THEN s ELSE portalPending
        /\ assembly' = Submitted(s, sub)
        /\ answered' = IF IsLate(s, sub) THEN answered ELSE answered \union {s}
        /\ heard' = heard \union {sub}
  /\ UNCHANGED <<hasResolver, tick, record, ended, sessions, deadlinePassed,
                 published, retained, up, raids, lied>>

DeadlinePasses ==
  /\ Live /\ ~deadlinePassed
  /\ deadlinePassed' = TRUE
  /\ UNCHANGED <<hasResolver, match, sessions, answered, published,
                 portalPending, peers, retained, up, frames, heard, raids, lied>>

-----------------------------------------------------------------------------
\* Mutant: pump waits for every participant.
ReadyWhenAllAnswered == Live /\ answered = Slots

\* pump: the open tick closes when everyone has answered or time is up.
Ready == Live /\ (answered = Slots \/ deadlinePassed)

\* Match.apply gives each slot its own entry of the batch.
Applied(batch) == [s \in Slots |-> Append(universe[s], batch[s].kind)]

\* Mutant: the limit is overshot by a tick.
EndedByOneMore(nowOver) ==
  CASE nowOver = Slots -> "terminal"
    [] nowOver # Slots /\ tick + 1 > StepLimit -> "truncated"
    [] OTHER -> "none"

\* Match.endedBy, once the tick is applied.  A session is cut off by the same
\* step limit, so it is never truncated before the match is.
EndedBy(nowOver) ==
  CASE nowOver = Slots -> "terminal"
    [] nowOver # Slots /\ tick + 1 >= StepLimit -> "truncated"
    [] OTHER -> "none"

\* Mutant: a raid is fought although the tick ended the match.
RaidRegardless(end) == portalPending # NoSlot

RaidDue(end) == portalPending # NoSlot /\ end = "none"

\* Mutant: the hashes published after a raid are those from before it.
RaidUnhashed(u) == universe' = [s \in Slots |-> Append(u[s], Raided)] /\ lastHashes' = u

\* resolveRaidInMatch: the consequences fall on both universes, and their
\* hashes are taken again.
Raid(u) ==
  /\ universe' = [s \in Slots |-> Append(u[s], Raided)]
  /\ lastHashes' = universe'

\* advance: close, apply, publish, raid, end, and open the next tick.
Advance ==
  LET batch == Close(assembly)
      u == Applied(batch)
  IN
  /\ Ready /\ over = {}
  /\ record' = Append(record, batch)
  /\ lastTick' = tick
  /\ tick' = tick + 1
  /\ assembly' = EmptyAssembly
  /\ answered' = {}
  /\ deadlinePassed' = FALSE
  /\ heard' = {}
  /\ over' \in SUBSET Slots
  /\ portalPending' = NoSlot
  /\ LET end == EndedBy(over') IN
     IF RaidDue(end)
     THEN /\ Raid(u)
          /\ raids' = raids \union {tick}
          /\ ended' \in {end, "conquest"}
     ELSE /\ universe' = u
          /\ lastHashes' = u
          /\ ended' = end
          /\ UNCHANGED raids
  /\ mask' \in IF ended' = "none" THEN [Slots -> Masks] ELSE {mask}
  /\ UNCHANGED <<hasResolver, peers, retained, up, frames, lied>>

\* advance on a match one of whose episodes is over and the other is not:
\* the slots before it are stepped, its session throws, and nothing between
\* there and the timer catches it.
AdvanceThrows ==
  LET first == CHOOSE s \in over : \A x \in over : s <= x IN
  /\ Ready /\ over # {}
  /\ universe' = [s \in Slots |-> IF s < first THEN Applied(Close(assembly))[s]
                                  ELSE universe[s]]
  /\ up' = FALSE
  /\ UNCHANGED <<hasResolver, match, mask, over, deadlinePassed, answered,
                 published, portalPending, peers, retained, frames, heard,
                 raids, lied>>

-----------------------------------------------------------------------------
\* A participant's mirror after tick t: its own entries of the batches.
Mirror(s, t) == [i \in 1 .. t + 1 |-> record[i][s].kind]
Lie == <<"lie">>

\* Mutant: a report is compared whatever tick it is about.
ComparedAlways(t) == TRUE

\* Only the last tick's hashes are authoritative.
Compared(t) == t = lastTick

\* finish: the first reason wins.
Ending(how) == IF ended = "none" THEN how ELSE ended

\* onCheckpoint, when a report on the participant's own slot disagrees.  A
\* running match ends; one that has ended is dropped from `settled`.
OnCheckpoint(s, t, hash) ==
  /\ up /\ (ended = "none" \/ retained)
  /\ Compared(t) /\ hash # lastHashes[s]
  /\ ended' = Ending("desync")
  /\ retained' = (ended = "none")
  /\ lied' = (lied \/ hash = Lie)
  /\ UNCHANGED <<hasResolver, tick, assembly, record, sessions, deadlinePassed,
                 answered, published, portalPending, peers, up, frames,
                 heard, raids>>

\* A participant leaves, or its connection drops with no grace window.
OnLeave ==
  /\ Live
  /\ ended' = Ending("abandoned")
  /\ UNCHANGED <<hasResolver, tick, assembly, record, sessions, deadlinePassed,
                 answered, published, portalPending, peers, retained, up,
                 frames, heard, raids, lied>>

-----------------------------------------------------------------------------
Init ==
  /\ hasResolver \in BOOLEAN
  /\ tick = 0
  /\ assembly = EmptyAssembly
  /\ record = <<>>
  /\ ended = "none"
  /\ universe = [s \in Slots |-> <<>>]
  /\ mask \in [Slots -> Masks]
  /\ over = {}
  /\ deadlinePassed = FALSE
  /\ answered = {}
  /\ lastHashes = universe
  /\ lastTick = -1
  /\ portalPending = NoSlot
  /\ lastSequence = [s \in Slots |-> -1]
  /\ budget = [s \in Slots |-> [tick |-> -1, used |-> 0]]
  /\ retained = TRUE
  /\ up = TRUE
  /\ frames = 0
  /\ heard = {}
  /\ raids = {}
  /\ lied = FALSE

Next ==
  \/ \E s \in Slots, t \in {tick - 1, tick}, q \in 0 .. MaxSequence, kind \in Kinds :
       OnAction(s, t, q, kind)
  \/ DeadlinePasses
  \/ Advance
  \/ AdvanceThrows
  \/ \E s \in Slots, t \in -1 .. lastTick :
       \E hash \in {Mirror(s, t), Lie} : OnCheckpoint(s, t, hash)
  \/ OnLeave

\* Time passes, and the transport's timer pumps the host.  Nothing is
\* assumed of the participants.
Fairness == WF_vars(DeadlinePasses) /\ WF_vars(Advance \/ AdvanceThrows)

Spec == Init /\ [][Next]_vars /\ Fairness

-----------------------------------------------------------------------------
TypeOK ==
  /\ hasResolver \in BOOLEAN
  /\ tick \in 0 .. StepLimit
  /\ assembly \in [winning : [Slots -> SUBSET Submissions],
                   refused : [Slots -> Reasons \union {NoReason}]]
  /\ record \in Seq([Slots -> Entries]) /\ Len(record) = tick
  /\ ended \in {"none", "terminal", "truncated", "conquest", "desync", "abandoned"}
  /\ universe \in [Slots -> Seq(Kinds \union {Raided})]
  /\ mask \in [Slots -> Masks]
  /\ over \subseteq Slots
  /\ deadlinePassed \in BOOLEAN
  /\ answered \subseteq Slots
  /\ lastHashes \in [Slots -> Seq(Kinds \union {Raided})]
  /\ lastTick = tick - 1
  /\ portalPending \in Slots \union {NoSlot}
  /\ lastSequence \in [Slots -> -1 .. MaxSequence]
  /\ budget \in [Slots -> [tick : -1 .. StepLimit, used : 0 .. MaxSubmissions + 1]]
  /\ retained \in BOOLEAN
  /\ up \in BOOLEAN
  /\ frames \in 0 .. MaxFrames
  /\ heard \subseteq [slot : Slots, tick : -1 .. StepLimit, sequence : 0 .. MaxSequence,
                      kind : Kinds \union {Malformed}]
  /\ raids \subseteq 0 .. StepLimit - 1
  /\ lied \in BOOLEAN

\* ordering.ts 30-34.  The batch a tick closes with is a function of what
\* was submitted and not of the order or the moment it arrived in: per slot,
\* the legal submission for that tick with the lowest sequence, and if there
\* is none a no-op, which says whether anything was refused.
Canonical(s, entry) ==
  LET legal == {h \in heard : h.slot = s /\ h.tick = tick /\ h.kind \in mask[s]}
      lowest == {h \in legal : \A x \in legal : h.sequence <= x.sequence}
  IN  IF legal = {}
      THEN /\ entry.kind = NoOp /\ entry.source = "substituted"
           /\ entry.rejection = NoReason <=> \A h \in heard : h.slot # s
      ELSE /\ entry.source = "submitted"
           /\ \E h \in lowest : entry.kind = h.kind

BatchIsCanonical ==
  [][record' # record => \A s \in Slots : Canonical(s, record'[tick + 1][s])]_vars

\* match.ts 86-108.  What reaches the core is legal in the state it is
\* applied to, though it was screened when it was submitted.
OnlyLegalActionsReachTheCore ==
  [][record' # record => \A s \in Slots : record'[tick + 1][s].kind \in mask[s]]_vars

\* The log of slot s that the record and the raids account for: each batch's
\* entry, followed by the raid fought after it if there was one.
Retold(s) ==
  LET told[n \in 0 .. tick] ==
        IF n = 0 THEN <<>>
        ELSE LET log == Append(told[n - 1], record[n][s].kind)
             IN  IF n - 1 \in raids THEN Append(log, Raided) ELSE log
  IN  told[tick]

\* The recorded batches and the raids between them account for everything
\* that was done to a universe, and the published hashes are of that.
RecordAndRaidsReproduceMatch ==
  up => \A s \in Slots : universe[s] = Retold(s) /\ lastHashes[s] = universe[s]

\* match.ts 186, "Replaying these reproduces the match".
ReplayReproducesMatch ==
  up => \A s \in Slots : universe[s] = Mirror(s, lastTick)

\* On a host without raids, a match ends as a desync, or has its final hash
\* disputed, only if a participant reported a hash it did not compute,
\* however late its honest reports arrive.
DesyncIsDeserved ==
  ~hasResolver /\ (ended = "desync" \/ ~retained) => lied

\* host.ts 968-996.  A raid follows a tick during which a participant asked
\* for a portal, and none is fought once the match is over.
RaidsAreAskedFor ==
  [][raids' # raids => /\ \E h \in heard : h.kind = Portal
                       /\ ended' \in {"none", "conquest"}
                       /\ over' # Slots]_vars

\* match.ts 283-293.  The first reason a match ended for is the one it keeps,
\* and its universes stay as they were.
FirstEndWins ==
  [][ended # "none" => UNCHANGED <<ended, universe, record, published>>]_vars

\* host.ts 74-88, "closing early cannot choose differently from closing
\* late": once a slot has answered, nothing its connection may still send for
\* the tick changes the slot's entry.
ClosingEarlyIsClosingLate ==
  Live =>
    \A s \in answered, kind \in Kinds, q \in 0 .. MaxSequence :
      q > lastSequence[s] =>
        Close(Submitted(s, Submission(s, tick, q, kind)))[s] = Close(assembly)[s]

\* session.ts 583-587, "This episode is ...; it cannot be advanced": the
\* match never asks an episode that is over for another tick.
EpisodesOverAreNotAdvanced == ~(Ready /\ over # {})

\* spec.md of authoritative-lockstep: the server "MUST NOT wait indefinitely
\* for a participant".  Whatever the participants do, the match ends, unless
\* the server goes down.
MatchEnds == <>(ended # "none" \/ ~up)
=============================================================================
