--------------------------------- MODULE Raid ---------------------------------
(***************************************************************************)
(* Raids of one universe on another (packages/rules-raid, driven by        *)
(* scenario's raid system).  Opening the portal stops both clocks; the     *)
(* engagement is ticked, with both gods' directives applied between the    *)
(* ticks, until the termination predicate holds; then it is resolved, its  *)
(* outcome is written to both worlds, and the clocks are released.         *)
(*                                                                         *)
(* Geometry is abstracted: whom a combatant can reach, whether a blow or   *)
(* an attempt lands and what it leaves are chosen.  What a combatant may   *)
(* do, in which phase of a tick it takes effect and what refuses it are    *)
(* the code's.                                                             *)
(***************************************************************************)
EXTENDS RaidSetting

VARIABLES
  \* the two worlds
  clock,          \* side -> its universe's clock
  living,         \* mages with alive = 1
  knows,          \* mage -> the nodes in her mind
  adept,          \* mage -> those of them she holds above CASTABLE_MASTERY
  people,         \* cohort -> count
  shelf,          \* books in the host's library
  loot,           \* books in the raider's universe
  hidden,         \* books whose corruption field says hidden
  law,            \* the host's constitution
  favor,          \* the host god's favor
  raids,          \* raids opened
  \* the engagement
  stage,
  roster,         \* combatants fielded
  origin, size,   \* squad -> what it was raised from, and how many of them
  hp,
  vigor,
  withdrawn,
  mask,           \* mage -> legalNodes
  stolen,         \* mage -> nodes read out of minds this raid, in order
  ruined,         \* books corrupted this raid
  held, taken,    \* objectives not resolved, and resolved
  effort,         \* objective -> ticks of contact so far
  stability,      \* of the portal
  contact,        \* contactTick is set
  sky, locked,    \* the arbiter's law; the knobs this raid has turned
  seen,           \* nodes attackers were seen to cast
  spent,          \* side -> taken from its purse
  lessons         \* node -> the mage an exposure teaches, set at resolution

worlds == <<clock, living, knows, adept, people, shelf, loot, hidden, law, favor, raids>>
bodies == <<roster, origin, size, hp, vigor, withdrawn, mask, stolen>>
field == <<ruined, held, taken, effort, stability, contact, seen>>
gods == <<sky, locked, spent>>
vars == <<worlds, stage, bodies, field, gods, lessons>>

Stages == {"peace", "open", "fighting", "ended", "resolved", "applied"}

-----------------------------------------------------------------------------
Attacker == INSTANCE StepClock WITH clock <- clock["attacker"]
Host == INSTANCE StepClock WITH clock <- clock["defender"]

Tick == clock["defender"].engagementTick               \* engagementTickOf

SideOf(c) == IF c \in Of("attacker") THEN "attacker" ELSE "defender"
IsAlive(c) == c \in roster /\ hp[c] > 0
Standing == {c \in roster : IsAlive(c) /\ c \notin withdrawn} \* livingCombatants
Foes(c) == Standing \ Of(SideOf(c))
Fielded(side) == roster \cap Of(side)
AllObjectivesResolved == held = {} /\ taken # {}
RosterHasRoom(side) == SquadsOf(side) \ roster # {}

\* phaseOf, as a number that never falls
Phase ==
  IF Tick >= ResolutionOnset \/ AllObjectivesResolved THEN 2
  ELSE IF ~contact /\ Tick < MusterCeiling THEN 0 ELSE 1

\* terminationOf: the ceiling, the portal, then whether any attacker still has an
\* errand.  At the ceiling the driver throws once the raid is resolved, and
\* resolveOneRaid catches it: the outcome is applied all the same.
TerminationOf(tick, left, errands) ==
  \/ tick >= Ceiling
  \/ left = 0
  \/ errands = {}

-----------------------------------------------------------------------------
(* Between raids. *)

Init ==
  /\ clock = [s \in Sides |-> [worldTick |-> 0, engagementTick |-> 0, mode |-> "world"]]
  /\ living = Mages
  /\ knows = Skills /\ adept = Skills
  /\ people = Muster
  /\ shelf = Books /\ loot = {} /\ hidden = {}
  /\ law \in {l \in Constitutions : \A c \in Cells : l[c] = "none"}
  /\ favor = Favor
  /\ raids = 0
  /\ stage = "peace"
  /\ roster = {} /\ withdrawn = {}
  /\ origin = [s \in Squads |-> Unraised]
  /\ size = [s \in Squads |-> 0]
  /\ hp = [c \in Combatants |-> 0]
  /\ vigor = [m \in Mages |-> 0]
  /\ mask = [m \in Mages |-> {}]
  /\ stolen = [m \in Mages |-> <<>>]
  /\ ruined = {} /\ held = {} /\ taken = {} /\ seen = {} /\ locked = {}
  /\ effort = [o \in Objectives |-> 0]
  /\ stability = 0
  /\ contact = FALSE
  /\ sky = law
  /\ spent = [s \in Sides |-> 0]
  /\ lessons = [n \in Nodes |-> Nobody]

\* One step of a universe's own kernel.
WorldTick(s) ==
  /\ stage = "peace"
  /\ clock[s].worldTick < MaxWorldTick[s]
  /\ clock' = [clock EXCEPT ![s] = Host!Advanced(@)]
  /\ UNCHANGED <<living, knows, adept, people, shelf, loot, hidden, law, favor, raids,
                 stage, bodies, field, gods, lessons>>

Castable(m) == adept[m]

\* raidSystem.run's guards with portalGate; then openPortal.
OpenPortal ==
  /\ stage = "peace"
  /\ raids < MaxRaids
  /\ \A s \in Sides : Host!MayEnter(clock[s])
  /\ \E m \in Raiders \cap living : Castable(m) \cap Gates # {}
  /\ clock' = [s \in Sides |-> Host!Entered(clock[s])]
  /\ raids' = raids + 1
  /\ stage' = "open"
  /\ stability' \in Stabilities
  /\ sky' = law
  /\ UNCHANGED <<living, knows, adept, people, shelf, loot, hidden, law, favor, bodies,
                 ruined, held, taken, effort, contact, seen, locked, spent, lessons>>

\* Mutant: a mage who has left the field keeps the mask she left with.
ArbitratedOnTheField(constitution, fielded) ==
  [m \in Mages |->
    IF m \in fielded \ withdrawn THEN LegalNodeMask(constitution, Castable(m)) ELSE mask[m]]

\* CastArbiter.legalNodeMask, for every mage a raid fields
Arbitrated(constitution, fielded) ==
  [m \in Mages |-> IF m \in fielded THEN LegalNodeMask(constitution, Castable(m)) ELSE {}]

\* Mutant: what does not make a detachment is drawn up as one.
DrawnInWholes(side, n, called, strength) ==
  /\ Cardinality(called) <= Cardinality(SquadsOf(side))
  /\ Strength * Cardinality(called) < n + Strength
  /\ \A s \in called : strength[s] = Strength

\* deploySide's soldiers: whole detachments while there is room, then by a
\* draw one of what is left.
Drawn(side, n, called, strength) ==
  LET whole == Smaller(n \div Strength, Cardinality(SquadsOf(side)))
      rest == n - whole * Strength
      full == {s \in called : strength[s] = Strength}
      part == called \ full
  IN  /\ Cardinality(full) = whole
      /\ \A s \in part : strength[s] = rest
      /\ part # {} => Cardinality(part) = 1 /\ rest \in 1 .. Strength - 1

\* deployRaid, and the termination asked for before the first tick.
DeployRaid ==
  /\ stage = "open"
  /\ \E called \in SUBSET Squads, strength \in [Squads -> 0 .. Strength] :
       /\ \A s \in Squads : strength[s] = 0 <=> s \notin called
       /\ \A s \in Sides : Drawn(s, people[<<s, "soldiers">>], called \cap SquadsOf(s), strength)
       /\ roster' = (Mages \cap living) \cup called
       /\ size' = strength
       /\ origin' = [s \in Squads |->
            IF s \in called THEN <<SideOf(s), "soldiers">> ELSE Unraised]
  /\ hp' = [c \in Combatants |-> IF c \in roster' THEN Body[c] ELSE 0]
  /\ vigor' = [m \in Mages |-> IF m \in roster' THEN Vigor[m] ELSE 0]
  /\ mask' = Arbitrated(sky, roster')
  /\ held' = {o \in Objectives : o = Archmage => Wardens \cap living # {}}
  /\ stage' = IF TerminationOf(0, stability, roster' \cap Of("attacker"))
              THEN "ended" ELSE "fighting"
  /\ UNCHANGED <<worlds, withdrawn, stolen, ruined, taken, effort, stability,
                 contact, seen, gods, lessons>>

-----------------------------------------------------------------------------
(* Directives.  applyDirective refuses a verb whose phase has passed or    *)
(* that its side's purse cannot pay for, and charges only what applied.    *)

Purse(side) == (IF side = "attacker" THEN Vis ELSE favor) - spent[side]

MayDirect(side, verb, lastPhase) ==
  /\ stage = "fighting"
  /\ Phase <= lastPhase
  /\ Cost[verb] <= Purse(side)

Debit(side, verb) == spent' = [spent EXCEPT ![side] = @ + Cost[verb]]

\* resolveRuleVerb, changeRuleMidRaid, applyRuleChange: every fielded mage's
\* mask is made again, the withdrawn and the fallen included.
ChangeRule(kind, knob) ==
  /\ MayDirect("defender", kind, 1)
  /\ knob \notin locked
  /\ ChangesLegality(sky, knob, kind)
  /\ sky' = RulesetWith(sky, knob, kind)
  /\ mask' = Arbitrated(sky', roster)
  /\ locked' = locked \cup {knob}
  /\ Debit("defender", kind)
  /\ UNCHANGED <<worlds, stage, roster, origin, size, hp, vigor, withdrawn, stolen,
                 field, lessons>>

\* resolveLevy, from the cohort that does not fight
Committed == Strength * Cardinality({s \in roster \cap Squads : origin[s] = <<"defender", "folk">>})

Levy ==
  /\ MayDirect("defender", "levy", 0)
  /\ RosterHasRoom("defender")
  /\ people[<<"defender", "folk">>] >= Committed + Strength
  /\ LET s == LeastOf(WardenSquads \ roster) IN
       /\ roster' = roster \cup {s}
       /\ origin' = [origin EXCEPT ![s] = <<"defender", "folk">>]
       /\ size' = [size EXCEPT ![s] = Strength]
       /\ hp' = [hp EXCEPT ![s] = Body[s]]
  /\ Debit("defender", "levy")
  /\ UNCHANGED <<worlds, stage, vigor, withdrawn, mask, stolen, field, sky, locked,
                 lessons>>

\* Mutant: the fallen are healed as well.
MendTheFallen ==
  /\ MayDirect("attacker", "mend", 1)
  /\ hp' = [c \in Combatants |->
       IF c \in Fielded("attacker") THEN Smaller(hp[c] + MendBy, Body[c]) ELSE hp[c]]
  /\ hp' # hp
  /\ Debit("attacker", "mend")
  /\ UNCHANGED <<worlds, stage, roster, origin, size, vigor, withdrawn, mask, stolen,
                 field, sky, locked, lessons>>

\* resolveMend: never past maxHp, and never the fallen
Mend ==
  /\ MayDirect("attacker", "mend", 1)
  /\ hp' = [c \in Combatants |->
       IF c \in Standing \cap Of("attacker") THEN Smaller(hp[c] + MendBy, Body[c]) ELSE hp[c]]
  /\ hp' # hp
  /\ Debit("attacker", "mend")
  /\ UNCHANGED <<worlds, stage, roster, origin, size, vigor, withdrawn, mask, stolen,
                 field, sky, locked, lessons>>

\* resolveWard and resolveConceal: what they raise is abstracted with the
\* damage and the evasion it bears on; the price is not.
Shield(side, verb, lastPhase) ==
  /\ MayDirect(side, verb, lastPhase)
  /\ Standing \cap Of(side) # {}
  /\ Debit(side, verb)
  /\ UNCHANGED <<worlds, stage, bodies, field, sky, locked, lessons>>

Directive ==
  \/ \E kind \in {"forbid", "permit"}, knob \in Knobs : ChangeRule(kind, knob)
  \/ Levy
  \/ Mend
  \/ Shield("defender", "ward", 1)
  \/ Shield("attacker", "conceal", 0)

-----------------------------------------------------------------------------
(* The tick.  Every combatant standing when it begins has one intent,      *)
(* chosen by a fixed priority against the state the tick began with:       *)
(* withdraw, steal, corrupt, cast, objective, move.  A higher one that     *)
(* needs somebody in reach may always find nobody.                         *)

Leaving(c) == c \in Of("attacker") /\ Tick >= WithdrawAfter

Pocketed(t) == {stolen[t][i] : i \in 1 .. Len(stolen[t])}
Stealable(t, v) == knows[v] \ (knows[t] \cup Pocketed(t))
MaySteal ==
  {t \in Standing \cap Mages :
     /\ ~Leaving(t)
     /\ mask[t] \cap Readers # {}
     /\ \E v \in Foes(t) \cap Mages : Stealable(t, v) # {}}

Corruptible == shelf \ (ruined \cup hidden)
BlightOf(s) == LeastOf(mask[s] \cap Blights)
MayCorrupt ==
  {s \in Standing \cap Raiders :
     /\ ~Leaving(s)
     /\ mask[s] \cap Blights # {}
     /\ CastCost[BlightOf(s)] <= vigor[s]
     /\ Library \in held
     /\ Corruptible # {}}

\* sideHasSummonRoom; summonsAlive is never taken down again
Summons(side) == {s \in Fielded(side) \cap Squads : origin[s] = Conjured}
SummonRoom(side) == RosterHasRoom(side) /\ Cardinality(Summons(side)) < MaxSummons

\* firstCastableNode
Releasable(c) ==
  {n \in mask[c] : /\ n \in Bolts \/ (n \in Calls /\ SummonRoom(SideOf(c)))
                   /\ CastCost[n] <= vigor[c]}
SpellOf(c) == LeastOf(Releasable(c))
MayCast == {c \in Standing \cap Mages : ~Leaving(c) /\ Releasable(c) # {} /\ Foes(c) # {}}

\* A raider who could corrupt the library she stands in does not take it.
MaySeize(c, o) ==
  /\ c \in Standing \cap Of("attacker")
  /\ ~Leaving(c)
  /\ o \in held
  /\ o = Library => c \notin MayCorrupt
MayLeave == {c \in Standing \cap Of("attacker") : Leaving(c) \/ held = {}}

\* Phase 4 and phase 8: the casts that had a target, the intrinsic attacks of
\* squads, and what they come to, settled together.  An evasion or a ward may
\* leave a target unhurt; nobody is hurt whom nobody attacked.
Blows(bolting, swords, hurt) ==
  \A s \in Sides :
    Cardinality(hurt \cap Of(s)) <= Cardinality((bolting \cup swords) \cap Of(Opposing(s)))

\* summonInto: over the cap it is a no-op whose cost is still charged
Summoned(risen, calling) ==
  \A s \in Sides :
    LET room == Smaller(Cardinality(SquadsOf(s) \ roster), Less(MaxSummons, Cardinality(Summons(s))))
    IN  Cardinality(risen \cap SquadsOf(s)) = Smaller(Cardinality(calling \cap Of(s)), room)

Strike(casters, swords) ==
  LET calling == {c \in casters : SpellOf(c) \in Calls}
  IN  /\ seen' = seen \cup {SpellOf(c) : c \in casters \cap Raiders}
      /\ contact' = (contact \/ casters # {} \/ swords # {})
      /\ \E risen \in {r \in SUBSET (Squads \ roster) : Summoned(r, calling)},
            hurt \in {h \in SUBSET Standing : Blows(casters \ calling, swords, h)} :
           /\ roster' = roster \cup risen
           /\ origin' = [s \in Squads |-> IF s \in risen THEN Conjured ELSE origin[s]]
           /\ \E left \in [hurt -> UNION {0 .. Body[c] - 1 : c \in hurt}] :
                /\ \A c \in hurt : left[c] < hp[c]
                /\ hp' = [c \in Combatants |->
                     IF c \in hurt THEN left[c] ELSE IF c \in risen THEN Body[c] ELSE hp[c]]

\* Phase 5: theft is judged by what this tick's damage leaves of the victim.
\* One that fails costs the thief nothing but her intent.
Readable(t) ==
  UNION {Deepest(Stealable(t, v)) : v \in {w \in Foes(t) \cap Mages : hp'[w] > 0}}

Read(haul) ==
  stolen' = [m \in Mages |-> IF m \in DOMAIN haul THEN Append(stolen[m], haul[m]) ELSE stolen[m]]

\* Phase 5b: deepest first; an attempt may fail or find the shelf exhausted.
Spoiled(spoils, saboteurs) ==
  /\ Cardinality(spoils) <= Cardinality(saboteurs)
  /\ \A b \in spoils, c \in Corruptible \ spoils : Tier[NodeOf[b]] >= Tier[NodeOf[c]]

\* Each pays for what she released, a saboteur even if nothing came of it.
Paid(casters, saboteurs) ==
  vigor' = [m \in Mages |->
    IF m \in casters THEN vigor[m] - CastCost[SpellOf(m)]
    ELSE IF m \in saboteurs THEN vigor[m] - CastCost[BlightOf(m)] ELSE vigor[m]]

\* Mutant: an objective that is taken can still be worked at.
AdvanceStillHeld(at) ==
  /\ effort' = [o \in Objectives |->
        Smaller(Need, effort[o] + Cardinality({c \in DOMAIN at : at[c] = o}))]
  /\ held' = held
  /\ taken' = taken \cup {o \in held : effort'[o] = Need}

\* Phase 6: each tick of each combatant's contact counts, advanceObjective.
Advance(at) ==
  /\ effort' = [o \in Objectives |->
        Smaller(Need, effort[o] + Cardinality({c \in DOMAIN at : at[c] = o}))]
  /\ LET reached == {o \in held : effort'[o] = Need}
     IN  held' = held \ reached /\ taken' = taken \cup reached

\* stepEngagement, in the order of its phases.  errands: the attackers still
\* counted as having business here; none, if all are marching at a wall.
Step ==
  /\ stage = "fighting"
  /\ \E casters \in SUBSET MayCast, swords \in SUBSET {s \in Standing \cap Squads : Foes(s) # {}} :
       /\ Strike(casters, swords)
       /\ \E thieves \in SUBSET {t \in MaySteal \ casters : Readable(t) # {}} :
          \E haul \in [thieves -> UNION {Readable(t) : t \in thieves}],
             saboteurs \in SUBSET (MayCorrupt \ (casters \cup thieves)) :
            /\ \A t \in thieves : haul[t] \in Readable(t)
            /\ Read(haul)
            /\ Paid(casters, saboteurs)
            /\ \E spoils \in {b \in SUBSET Corruptible : Spoiled(b, saboteurs)} :
                 ruined' = ruined \cup spoils
            /\ LET idle == Standing \ (casters \cup thieves \cup saboteurs)
               IN  /\ \E seizers \in SUBSET (idle \cap Of("attacker")) :
                      \E at \in [seizers -> held] :
                        (\A c \in seizers : MaySeize(c, at[c])) /\ Advance(at)
                   /\ \E leavers \in SUBSET (idle \cap MayLeave) :
                        withdrawn' = withdrawn \cup leavers
  /\ stability' = Less(stability, Decay)
  /\ clock' = [s \in Sides |-> Host!Advanced(clock[s])]
  /\ LET left == {c \in roster' \cap Of("attacker") : hp'[c] > 0 /\ c \notin withdrawn'}
     IN  \E errands \in IF Tick + 1 >= WithdrawAfter THEN {{}, left} ELSE {left} :
           stage' = IF TerminationOf(Tick + 1, stability', errands) THEN "ended" ELSE "fighting"
  /\ UNCHANGED <<living, knows, adept, people, shelf, loot, hidden, law, favor, raids,
                 size, mask, gods, lessons>>

-----------------------------------------------------------------------------
(* The end of it. *)

Stranded(c) == c \in Of("attacker") /\ c \notin withdrawn
Lost == {c \in roster : hp[c] = 0 \/ Stranded(c)}

\* Mutant: a raid nobody returned from is left unresolved.
ResolveForSurvivors ==
  /\ stage = "ended" /\ \E c \in Fielded("attacker") : IsAlive(c)
  /\ stage' = "resolved"
  /\ lessons' = lessons
  /\ UNCHANGED <<worlds, bodies, field, gods>>

\* resolveRaid with exposedNodes: the mage who learns is chosen among those
\* the world still calls living, before the casualties are written.
Resolve ==
  /\ stage = "ended"
  /\ stage' = "resolved"
  /\ lessons' = [n \in Nodes |->
       LET lacking == {m \in Wardens \cap living : n \notin knows[m]}
       IN  IF n \in seen /\ lacking # {} THEN LeastOf(lacking) ELSE Nobody]
  /\ UNCHANGED <<worlds, bodies, field, gods>>

\* What squads of a cohort cost it if they are lost: whole detachments, and
\* the one of what did not make a whole.
Bill(g, squads) ==
  LET of == {s \in squads \cap Squads : origin[s] = g}
  IN  Strength * Cardinality({s \in of : size[s] = Strength})
      + (IF \E s \in of : size[s] # Strength THEN people[g] % Strength ELSE 0)

\* settleLibrary: the first books are carried off, whoever comes home; of the
\* rest a made book may resist the fire, a loose instance never does.
Settled(carried, burnt) ==
  IF Library \notin taken THEN carried = {} /\ burnt = {}
  ELSE /\ carried \subseteq shelf \ Loose
       /\ Cardinality(carried) = Smaller(LootLimit, Cardinality(shelf \ Loose))
       /\ \A b \in carried, c \in (shelf \ Loose) \ carried : b < c
       /\ burnt \subseteq shelf \ carried
       /\ shelf \cap Loose \subseteq burnt

\* What her side saw done, by ascending node
Lessons(m) ==
  [n \in 1 .. NodeCount |-> IF n \in Nodes /\ lessons[n] = m THEN n ELSE Nobody]

\* What the raid leaves a mage: nothing if it took her, and otherwise what she
\* knew with what she read in other minds, or was taught, given in its order.
Remembered(m) ==
  IF m \in Lost THEN {}
  ELSE Learned(SideOf(m), knows[m], IF m \in Raiders THEN stolen[m] ELSE Lessons(m))

\* applyRaidOutcome
ApplyOutcome ==
  /\ stage = "resolved"
  /\ stage' = "applied"
  /\ living' = living \ Lost
  /\ knows' = [m \in Mages |-> Remembered(m)]
  \* LOOTED_INITIAL_MASTERY is below CASTABLE_MASTERY
  /\ adept' = [m \in Mages |-> adept[m] \cap knows'[m]]
  /\ people' = [g \in Cohorts |-> Less(people[g], Bill(g, Lost))]
  /\ \E carried \in SUBSET shelf, burnt \in SUBSET shelf :
       /\ Settled(carried, burnt)
       /\ shelf' = shelf \ (carried \cup burnt)
       /\ loot' = loot \cup carried
  /\ hidden' = (hidden \cup (ruined \cap shelf)) \cap shelf'
  /\ favor' = Less(favor, spent["defender"])
  /\ law' = [k \in Knobs |-> IF k \in locked THEN sky[k] ELSE law[k]]
  /\ UNCHANGED <<clock, raids, bodies, field, gods, lessons>>

\* Mutant: the attacker's mode is assigned and nothing else.
ReleasedByMode ==
  [s \in Sides |-> IF s = "defender" THEN Host!Left(clock[s])
                   ELSE [clock[s] EXCEPT !.mode = "world"]]

\* The host leaves through its clock, the attacker's mode is assigned.
Released ==
  [s \in Sides |->
    IF s = "defender" THEN Host!Left(clock[s])
    ELSE [worldTick |-> clock[s].worldTick, engagementTick |-> 0, mode |-> "world"]]

\* closePortal; the engagement's own store is discarded.
ClosePortal ==
  /\ stage = "applied"
  /\ stage' = "peace"
  /\ Host!MayLeave(clock["defender"])
  /\ clock' = Released
  /\ roster' = {} /\ withdrawn' = {}
  /\ origin' = [s \in Squads |-> Unraised]
  /\ size' = [s \in Squads |-> 0]
  /\ hp' = [c \in Combatants |-> 0]
  /\ vigor' = [m \in Mages |-> 0]
  /\ mask' = [m \in Mages |-> {}]
  /\ stolen' = [m \in Mages |-> <<>>]
  /\ ruined' = {} /\ held' = {} /\ taken' = {} /\ seen' = {} /\ locked' = {}
  /\ effort' = [o \in Objectives |-> 0]
  /\ stability' = 0
  /\ contact' = FALSE
  /\ sky' = law
  /\ spent' = [s \in Sides |-> 0]
  /\ lessons' = [n \in Nodes |-> Nobody]
  /\ UNCHANGED <<living, knows, adept, people, shelf, loot, hidden, law, favor, raids>>

-----------------------------------------------------------------------------
\* Once opened, a raid is run to its end by the call that opened it.
Driver == DeployRaid \/ Step \/ Resolve \/ ApplyOutcome \/ ClosePortal

Next == (\E s \in Sides : WorldTick(s)) \/ OpenPortal \/ Directive \/ Driver

Spec == Init /\ [][Next]_vars

\* raidSystem.run and the loop it calls are synchronous: they return.
LiveSpec == Spec /\ WF_vars(Driver)

-----------------------------------------------------------------------------
(* Properties. *)

Engaged == stage \in {"fighting", "ended", "resolved", "applied"}

TypeOK ==
  /\ clock \in [Sides -> Host!Readings]
  /\ living \subseteq Mages
  /\ knows \in [Mages -> SUBSET Nodes]
  /\ adept \in [Mages -> SUBSET Nodes]
  /\ people \in [Cohorts -> Nat]
  /\ shelf \subseteq Books /\ loot \subseteq Books /\ hidden \subseteq Books
  /\ law \in Constitutions /\ sky \in Constitutions
  /\ favor \in Nat /\ raids \in Nat
  /\ stage \in Stages
  /\ roster \subseteq Combatants /\ withdrawn \subseteq roster
  /\ origin \in [Squads -> Origins]
  /\ size \in [Squads -> 0 .. Strength]
  /\ hp \in [Combatants -> Nat]
  /\ vigor \in [Mages -> Nat]
  /\ mask \in [Mages -> SUBSET Nodes]
  /\ stolen \in [Mages -> Seq(Nodes)]
  /\ ruined \subseteq Books
  /\ held \subseteq Objectives /\ taken \subseteq Objectives /\ held \cap taken = {}
  /\ effort \in [Objectives -> Nat]
  /\ stability \in Nat /\ contact \in BOOLEAN
  /\ locked \subseteq Knobs
  /\ seen \subseteq Nodes
  /\ spent \in [Sides -> Nat]
  /\ lessons \in [Nodes -> Wardens \cup {Nobody}]

\* Every fielded mage selects from exactly the nodes she can cast that the
\* sky permits now, whatever was forbidden or permitted since she deployed;
\* the sky differs from the host's constitution in the locked knobs and in
\* no other; and after the raid the constitution is the last sky.  So no cast
\* is ever refused as forbidden, and no knob is paid for and left as it was.
LawOfTheRaid ==
  Engaged =>
    /\ \A m \in Mages \cap roster : stage # "applied" =>
         mask[m] = LegalNodeMask(sky, Castable(m))
    /\ IF stage = "applied" THEN law = sky
       ELSE locked = {k \in Knobs : sky[k] # law[k]}

\* A mind with no two schools in it that exclude each other, unless she held
\* both before any raid; and with nothing missing that no school excludes.
Sound(m, mind) ==
  /\ SideOf(m) \in Screening =>
       \A n, k \in mind :
         Excludes[CellOf[n], CellOf[k]] # "none" => {n, k} \subseteq Skills[m]
  /\ \A n \in Skills[m] \ mind :
       SideOf(m) \in Screening /\ Rivals(Nodes, n, "destructive") # {}

\* A raid is no way round an exclusion, and takes no more than one does.  The
\* dead know nothing: a lesson whose pupil fell, and a theft whose thief did,
\* reach no mind.  No theft and no lesson, in whatever order they come, puts two
\* schools that exclude each other into a mind that is screened for them; and
\* the living lose nothing but to an exclusion.
NoMindIsLaundered ==
  \A m \in Mages : IF m \in living THEN Sound(m, knows[m]) ELSE knows[m] = {}

\* No cohort has lent more people than it has, levies and the odd detachment
\* included, and no god has spent more than its stock: the clamps at zero in
\* the write-back never bite, so nothing is lost or paid for twice.
NothingIsOverdrawn ==
  Engaged /\ stage # "applied" =>
    /\ \A g \in Cohorts : Bill(g, roster) <= people[g]
    /\ spent["defender"] <= favor /\ spent["attacker"] <= Vis

\* While a raid is fought nothing is undone: a combatant who fell or left
\* takes no further part, no healing raises the fallen, an objective resolved
\* stays resolved, and a verb whose phase has passed does not come back.
NothingIsUndone ==
  [][stage = "fighting" =>
       /\ \A c \in roster \ Standing :
            /\ c \notin Standing'
            /\ hp'[c] = hp[c]
            /\ c \in Mages => vigor'[c] = vigor[c] /\ stolen'[c] = stolen[c]
       /\ taken \subseteq taken'
       /\ Phase <= Phase']_vars

\* Each universe's clock is a clock as sim-core means it, though closing the
\* portal releases the attacker's by assignment; and world time stands still
\* in both while the raid lasts.
ClocksAreKept ==
  /\ Attacker!Spec /\ Host!Spec
  /\ [][stage # "peace" =>
          \A s \in Sides : clock'[s].worldTick = clock[s].worldTick]_vars

\* A portal that opened closes.
RaidEnds == stage # "peace" ~> stage = "peace"
=============================================================================
