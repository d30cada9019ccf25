----------------------------- MODULE RaidSetting -----------------------------
(***************************************************************************)
(* The two universes a raid is fought between and the numbers it is fought *)
(* by, with the law that says which magic a sky permits (state: permits,   *)
(* rule-change) and the mask it leaves a mage (rules-raid: arbitration).   *)
(*                                                                         *)
(* Every handle is a natural number, because the code breaks its ties by   *)
(* ascending handle.  Magnitudes (damage, ranges, positions, evasion) are  *)
(* abstracted: who reaches whom, and what a blow leaves, is chosen.        *)
(***************************************************************************)
EXTENDS Naturals, FiniteSets, Sequences

CONSTANTS
  Raiders,          \* the attacker's mages whose role is raider
  Wardens,          \* the host's mages; every role may defend
  RaiderSquads,     \* room in the attacker's roster beside the mages
  WardenSquads,     \* room in the defender's roster beside the mages
  Body,             \* combatant -> maxHp
  Vigor,            \* mage -> maxVigor
  NodeCount,        \* content ids are interned as 1 .. NodeCount
  Nodes,            \* what can be known
  Skills,           \* mage -> nodes held above CASTABLE_MASTERY at the start
  Tier,             \* node -> its depth
  Axes, Cells,      \* techniques and forms; the cells they cross in
  AxesOf, CellOf,   \* cell -> its axes; node -> its cell
  Excludes,         \* cell, cell -> what becomes of who would hold both
  Screening,        \* sides whose knowledge subsystem was given the exclusions
  Gates,            \* nodes carrying each primitive: portal,
  Bolts,            \*   direct-damage,
  Calls,            \*   summon and nothing else,
  Readers,          \*   knowledge-steal,
  Blights,          \*   knowledge-corrupt
  CastCost,         \* node -> vigor one release of it takes
  MaxSummons,       \* maxSummonsPerSide
  Books, Loose,     \* the host's library; those without a grimoire record
  NodeOf,           \* book -> the node written in it
  LootLimit,        \* lootedGrimoiresPerRaid
  Objectives,       \* what is worth raiding: Library, Archmage, ...
  Library, Archmage,
  Need,             \* engagement ticks of contact that resolve an objective
  Muster,           \* people in the cohorts at the start
  Strength,         \* detachmentStrength
  Stabilities,      \* portal stability with its jitter
  Decay,            \* stabilityDecayPerTick
  Ceiling,          \* MAX_ENGAGEMENT_TICKS
  WithdrawAfter, MusterCeiling, ResolutionOnset,
  Favor, Vis,       \* the stocks a raid is played out of
  Cost,             \* verb -> verbCost
  MendBy,           \* verbMendHitPoints
  MaxRaids,         \* bound: raids
  MaxWorldTick      \* bound: side -> world ticks

Sides == {"attacker", "defender"}
Mages == Raiders \cup Wardens
Squads == RaiderSquads \cup WardenSquads
Combatants == Mages \cup Squads
Of(side) ==
  IF side = "attacker" THEN Raiders \cup RaiderSquads ELSE Wardens \cup WardenSquads
SquadsOf(side) == IF side = "attacker" THEN RaiderSquads ELSE WardenSquads
Opposing(side) == IF side = "attacker" THEN "defender" ELSE "attacker"

Trades == {"soldiers", "folk"}           \* occupations, as far as a raid asks
Cohorts == Sides \X Trades
Conjured == <<"none", "summons">>        \* a summon has no world source
Unraised == <<"none", "none">>           \* room not taken
Origins == Cohorts \cup {Conjured, Unraised}

Verbs == {"forbid", "permit", "levy", "ward", "mend", "conceal"}
Knobs == Axes \cup Cells                 \* what a rule change may turn
Settings == {"forbid", "permit", "none"} \* "none": a cell without an edict

Resolutions == {"none", "refused", "destructive"}  \* EXCLUSION_RESOLUTION

Nobody == 0

ASSUME HandlesAssumption ==
  /\ Raiders \cup Wardens \cup RaiderSquads \cup WardenSquads \subseteq Nat \ {Nobody}
  /\ Raiders \cap Wardens = {}
  /\ RaiderSquads \cap WardenSquads = {}
  /\ Mages \cap Squads = {}
  /\ IsFiniteSet(Raiders) /\ IsFiniteSet(Wardens)
  /\ IsFiniteSet(RaiderSquads) /\ IsFiniteSet(WardenSquads)

ASSUME MagicAssumption ==
  /\ NodeCount \in Nat /\ Nodes \subseteq 1 .. NodeCount
  /\ Axes \cap Cells = {}
  /\ CellOf \in [Nodes -> Cells]
  /\ AxesOf \in [Cells -> SUBSET Axes]
  \* checkExclusions: both halves are authored and agree, and none is of itself
  /\ Excludes \in [Cells \X Cells -> Resolutions]
  /\ \A c, d \in Cells : Excludes[c, d] = Excludes[d, c] /\ Excludes[c, c] = "none"
  /\ Screening \subseteq Sides
  /\ Skills \in [Mages -> SUBSET Nodes]
  /\ Tier \in [Nodes -> Nat]
  /\ CastCost \in [Nodes -> Nat]
  /\ Gates \cup Bolts \cup Calls \cup Readers \cup Blights \subseteq Nodes
  /\ Books \subseteq Nat /\ Loose \subseteq Books /\ IsFiniteSet(Books)
  /\ NodeOf \in [Books -> Nodes]

ASSUME NumbersAssumption ==
  /\ Body \in [Combatants -> Nat \ {0}]
  /\ Vigor \in [Mages -> Nat]
  /\ {MaxSummons, LootLimit, WithdrawAfter, MusterCeiling, ResolutionOnset,
      Favor, Vis, MendBy, MaxRaids} \subseteq Nat
  /\ MaxWorldTick \in [Sides -> Nat]
  /\ {Need, Strength, Decay, Ceiling} \subseteq Nat \ {0}
  /\ Stabilities \subseteq Nat /\ Stabilities # {}
  \* maxEngagementTicks refuses a raid that could outlast the ceiling, and
  \* admits one that lasts exactly as long.
  /\ \A s \in Stabilities : s <= Ceiling * Decay
  /\ Cost \in [Verbs -> Nat]
  /\ Muster \in [Cohorts -> Nat]
  /\ IsFiniteSet(Objectives)

-----------------------------------------------------------------------------
(* The law.  A constitution maps every knob to a setting; a cell's edict   *)
(* overrides its axes.                                                     *)

Constitutions ==
  {law \in [Knobs -> Settings] : \A a \in Axes : law[a] # "none"}

\* permits
Permits(law, cell) ==
  IF law[cell] # "none"
  THEN law[cell] = "permit"
  ELSE \A a \in AxesOf[cell] : law[a] = "permit"

\* changesLegality
ChangesLegality(law, knob, kind) ==
  IF knob \in Axes
  THEN law[knob] # kind
  ELSE Permits(law, knob) <=> kind = "forbid"

\* rulesetWith; writeRuleChange does the same to a world
RulesetWith(law, knob, kind) == [law EXCEPT ![knob] = kind]

\* CastArbiter.legalNodeMask over the instances a mage holds
LegalNodeMask(law, held) == {n \in held : Permits(law, CellOf[n])}

-----------------------------------------------------------------------------
(* What a mage may hold (rules-magic: KnowledgeSubsystem.createInstance).  *)
(* Two cells may exclude one another; a mind that holds the one and is     *)
(* given the other loses the first or is given nothing.                    *)

\* What she holds that the cell of n excludes, with this resolution
Rivals(holding, n, resolution) ==
  {k \in holding : Excludes[CellOf[n], CellOf[k]] = resolution}

\* Mutant: what is read in a mind is written past the exclusions.
Laundered(side, holding, n) == holding \cup {n}

\* createInstance at a mind, with #conflictingHoldings
Acquired(side, holding, n) ==
  IF side \notin Screening THEN holding \cup {n}
  ELSE IF Rivals(holding, n, "refused") # {} THEN holding
  ELSE (holding \ Rivals(holding, n, "destructive")) \cup {n}

\* What is held after each entry of a list is given in turn; Nobody is no entry.
Learned(side, holding, list) ==
  LET after[i \in 0 .. Len(list)] ==
        IF i = 0 THEN holding
        ELSE IF list[i] = Nobody THEN after[i - 1]
        ELSE Acquired(side, after[i - 1], list[i])
  IN  after[Len(list)]

-----------------------------------------------------------------------------
LeastOf(set) == CHOOSE x \in set : \A y \in set : x <= y
Deepest(set) == {n \in set : \A k \in set : Tier[n] >= Tier[k]}
Smaller(a, b) == IF a <= b THEN a ELSE b
Less(a, b) == IF a <= b THEN 0 ELSE a - b     \* subtraction clamped at zero
=============================================================================
