----------------------------- MODULE Raid_proofs -----------------------------
(***************************************************************************)
(* What holds of a raid whoever fights it, under whatever law, with        *)
(* whatever numbers the loader admits.                                     *)
(*                                                                         *)
(* The invariants are stacked: Typed carries the types with what is blank  *)
(* while no combatant is deployed; the laws, minds, stocks, clocks and the *)
(* length of the raid each rest on it and are proved beside one another.   *)
(***************************************************************************)
EXTENDS Raid, Recurrences, FiniteSetTheorems, TLAPS

\* Before deployment the engagement's own store is empty and its sky is the
\* host's constitution.
Blank ==
  stage \in {"peace", "open"} =>
    /\ roster = {} /\ withdrawn = {} /\ taken = {} /\ locked = {}
    /\ \A m \in Mages : stolen[m] = <<>>
    /\ \A s \in Sides : spent[s] = 0
    /\ sky = law

Typed == TypeOK /\ Blank

-----------------------------------------------------------------------------
(* Data. *)

\* A non-empty set of naturals has the least element the code's ascending
\* iteration finds first.
LEMMA LeastIsThere ==
  ASSUME NEW S \in SUBSET Nat, S # {}
  PROVE  LeastOf(S) \in S
BY LeastNumber DEF LeastOf

\* The soldiers drawn up never outnumber the cohort: whole detachments, or
\* the whole ones there are and the odd one.
LEMMA WholesFit ==
  ASSUME NEW n \in Nat, NEW w \in Nat, w <= n \div Strength
  PROVE  /\ Strength * w <= n
         /\ (n - w * Strength \in 1 .. Strength - 1 => Strength * w + (n % Strength) <= n)
<1>1. Strength \in Nat \ {0}
  BY NumbersAssumption
<1>2. n \div Strength \in Nat /\ n % Strength \in 0 .. Strength - 1
      /\ n = Strength * (n \div Strength) + (n % Strength)
  BY <1>1
<1>3. Strength * w <= Strength * (n \div Strength)
  BY <1>1, <1>2
<1> QED BY <1>1, <1>2, <1>3

LEMMA NodesAreNumbers == Nodes \subseteq Nat
<1>1. NodeCount \in Nat /\ Nodes \subseteq 1 .. NodeCount
  BY MagicAssumption
<1> QED BY <1>1

LEMMA FewCombatants ==
  /\ IsFiniteSet(Mages) /\ IsFiniteSet(Squads) /\ IsFiniteSet(Combatants)
  /\ \A S \in SUBSET Combatants : IsFiniteSet(S) /\ Cardinality(S) \in Nat
<1>1. IsFiniteSet(Mages) /\ IsFiniteSet(Squads) /\ IsFiniteSet(Combatants)
  BY FS_Union, HandlesAssumption DEF Mages, Squads, Combatants
<1>2. ASSUME NEW S \in SUBSET Combatants PROVE IsFiniteSet(S) /\ Cardinality(S) \in Nat
  BY <1>1, FS_Subset, FS_CardinalityType
<1> QED BY <1>1, <1>2

LEMMA BillIsCount ==
  ASSUME TypeOK, NEW g \in Cohorts, NEW S
  PROVE  Bill(g, S) \in Nat
<1> DEFINE of == {s \in S \cap Squads : origin[s] = g}
           full == {s \in of : size[s] = Strength}
<1>1. full \in SUBSET Combatants
  BY DEF Combatants
<1>2. Cardinality(full) \in Nat /\ Strength \in Nat \ {0} /\ people[g] \in Nat
  BY <1>1, FewCombatants, NumbersAssumption DEF TypeOK
<1>3. Strength * Cardinality(full) \in Nat
  BY <1>2
<1>4. people[g] % Strength \in Nat
  BY <1>2
<1> QED BY <1>3, <1>4 DEF Bill

\* The steps of a clock are readings of it again.
LEMMA ClockSteps ==
  ASSUME NEW c \in Host!Readings
  PROVE  /\ Host!Advanced(c) \in Host!Readings
         /\ Host!Entered(c) \in Host!Readings
         /\ Host!Left(c) \in Host!Readings
         /\ Host!Advanced(c).mode = c.mode
         /\ c.mode = "engagement" =>
              /\ Host!Advanced(c).worldTick = c.worldTick
              /\ Host!Advanced(c).engagementTick = c.engagementTick + 1
         /\ c.mode = "world" => Host!Advanced(c).engagementTick = c.engagementTick
         /\ Host!Entered(c).worldTick = c.worldTick
         /\ Host!Entered(c).engagementTick = 0 /\ Host!Entered(c).mode = "engagement"
         /\ Host!Left(c).worldTick = c.worldTick /\ Host!Left(c).mode = "world"
         /\ Host!Left(c).engagementTick = 0
<1>1. PICK w \in Nat, e \in Nat, mode \in {"world", "engagement"} :
        c = [worldTick |-> w, engagementTick |-> e, mode |-> mode]
  BY DEF Host!Readings, Host!Modes
<1>2. Host!Advanced(c) =
        IF mode = "engagement"
        THEN [worldTick |-> w, engagementTick |-> e + 1, mode |-> mode]
        ELSE [worldTick |-> w + 1, engagementTick |-> e, mode |-> mode]
  BY <1>1 DEF Host!Advanced
<1>3. Host!Entered(c) = [worldTick |-> w, engagementTick |-> 0, mode |-> "engagement"]
  BY <1>1 DEF Host!Entered
<1>4. Host!Left(c) = [worldTick |-> w, engagementTick |-> 0, mode |-> "world"]
  BY <1>1 DEF Host!Left
<1>5. \A v \in Nat, t \in Nat, a \in {"world", "engagement"} :
        [worldTick |-> v, engagementTick |-> t, mode |-> a] \in Host!Readings
  BY DEF Host!Readings, Host!Modes
<1>6. Host!Advanced(c) \in Host!Readings
  <2>1. w + 1 \in Nat /\ e + 1 \in Nat
    OBVIOUS
  <2> QED BY <1>2, <1>5, <2>1
<1>7. Host!Entered(c) \in Host!Readings /\ Host!Left(c) \in Host!Readings
  BY <1>3, <1>4, <1>5
<1>8. CASE mode = "world"
  BY <1>1, <1>2, <1>3, <1>4, <1>6, <1>7, <1>8
<1>9. CASE mode = "engagement"
  BY <1>1, <1>2, <1>3, <1>4, <1>6, <1>7, <1>9
<1> QED BY <1>8, <1>9

\* A rule change leaves a constitution.
LEMMA RuleChangeLawful ==
  ASSUME NEW l \in Constitutions, NEW k \in Knobs, NEW kind \in {"forbid", "permit"}
  PROVE  RulesetWith(l, k, kind) \in Constitutions
BY MagicAssumption DEF Constitutions, Settings, RulesetWith, Knobs

\* A directive that would change nothing is refused unpaid.
LEMMA RuleChangeBites ==
  ASSUME NEW l \in Constitutions, NEW k \in Knobs, NEW kind \in {"forbid", "permit"},
         ChangesLegality(l, k, kind)
  PROVE  l[k] # kind
BY MagicAssumption DEF Constitutions, Settings, RulesetWith, ChangesLegality, Permits, Knobs

-----------------------------------------------------------------------------
(* What a list of acquisitions leaves.                                     *)

After(f, side, holding, list) ==
  f = [i \in 0 .. Len(list) |->
         IF i = 0 THEN holding
         ELSE IF list[i] = Nobody THEN f[i - 1]
         ELSE Acquired(side, f[i - 1], list[i])]

\* A set of minds that no entry of a list leads out of is not left by the list.
LEMMA LearnedStays ==
  ASSUME NEW S, NEW side, NEW list \in Seq(S \cup {Nobody}), NEW V, NEW holding \in V,
         \A h \in V, n \in S : Acquired(side, h, n) \in V
  PROVE  Learned(side, holding, list) \in V
<1> DEFINE N == Len(list)
           given == [n \in 1 .. N |-> [h \in V |->
                      IF list[n] = Nobody THEN h ELSE Acquired(side, h, list[n])]]
           f == CHOOSE g : After(g, side, holding, list)
<1>1. N \in Nat /\ \A n \in 1 .. N : list[n] \in S \cup {Nobody}
  OBVIOUS
<1>2. given \in [1 .. N -> [V -> V]]
  BY <1>1
<1>3. \A n \in 1 .. N, h \in V :
        given[n][h] = IF list[n] = Nobody THEN h ELSE Acquired(side, h, list[n])
  OBVIOUS
<1>4. After(f, side, holding, list)
  <2> HIDE DEF given, N
  <2>1. PICK g : Computes(g, N, V, holding, given)
    BY <1>1, <1>2, Recursion
  <2>2. g \in [0 .. N -> V] /\ g[0] = holding /\ \A n \in 1 .. N : g[n] = given[n][g[n - 1]]
    BY <2>1 DEF Computes
  <2>3. ASSUME NEW n \in 1 .. N
        PROVE  g[n] = IF list[n] = Nobody THEN g[n - 1] ELSE Acquired(side, g[n - 1], list[n])
    <3>1. g[n - 1] \in V
      BY <1>1, <2>2
    <3> QED BY <1>3, <2>2, <3>1
  <2>4. \A n \in 0 .. N :
          g[n] = IF n = 0 THEN holding
                 ELSE IF list[n] = Nobody THEN g[n - 1]
                 ELSE Acquired(side, g[n - 1], list[n])
    <3>1. \A n \in 0 .. N : n = 0 \/ (n \in 1 .. N /\ n # 0)
      BY <1>1
    <3> QED BY <2>2, <2>3, <3>1
  <2>5. g = [n \in 0 .. N |-> g[n]]
    BY <2>2
  <2>6. g = [n \in 0 .. N |-> IF n = 0 THEN holding
                              ELSE IF list[n] = Nobody THEN g[n - 1]
                              ELSE Acquired(side, g[n - 1], list[n])]
    BY <2>4, <2>5
  <2>7. After(g, side, holding, list)
    BY <2>6 DEF After, N
  <2> QED BY <2>7
<1>5. Learned(side, holding, list) = f[N]
  BY DEF Learned, After
<1> HIDE DEF f, given
<1>6. /\ f[0] = holding
      /\ \A n \in 1 .. N : f[n] = IF list[n] = Nobody THEN f[n - 1]
                                  ELSE Acquired(side, f[n - 1], list[n])
  BY <1>1, <1>4 DEF After
<1> DEFINE T == {n \in Nat : n <= N => f[n] \in V}
<1>7. 0 \in T
  BY <1>6
<1>8. ASSUME NEW n \in Nat, n \in T PROVE n + 1 \in T
  <2> SUFFICES ASSUME n + 1 <= N PROVE f[n + 1] \in V
    OBVIOUS
  <2>1. f[n] \in V /\ n + 1 \in 1 .. N /\ (n + 1) - 1 = n
    BY <1>1, <1>8
  <2>2. list[n + 1] \in S \cup {Nobody}
    BY <1>1, <2>1
  <2>3. f[n + 1] = IF list[n + 1] = Nobody THEN f[n] ELSE Acquired(side, f[n], list[n + 1])
    BY <1>6, <2>1
  <2> QED BY <2>1, <2>2, <2>3
<1>9. N \in T
  <2> HIDE DEF T
  <2> QED BY <1>1, <1>7, <1>8, Induction
<1> QED BY <1>1, <1>5, <1>9

-----------------------------------------------------------------------------
(* What one tick of an engagement comes to, whatever its intents were.     *)

\* Whatever a combatant attempts it attempts standing, and what it releases
\* it has the vigor for.
LEMMA ActorsStand ==
  ASSUME TypeOK
  PROVE  /\ Standing \subseteq Combatants
         /\ MayCast \subseteq Standing \cap Mages
         /\ MayCorrupt \subseteq Standing \cap Mages
         /\ MaySteal \subseteq Standing \cap Mages
         /\ \A m \in MayCast : SpellOf(m) \in Nodes /\ CastCost[SpellOf(m)] <= vigor[m]
         /\ \A m \in MayCorrupt : BlightOf(m) \in Nodes /\ CastCost[BlightOf(m)] <= vigor[m]
         /\ \A c \in Combatants \ Standing : hp[c] = 0 \/ c \notin roster \/ c \in withdrawn
<1>1. Standing \subseteq Combatants
  BY DEF Standing, TypeOK
<1>2. MayCast \subseteq Standing \cap Mages /\ MaySteal \subseteq Standing \cap Mages
  BY DEF MayCast, MaySteal
<1>3. MayCorrupt \subseteq Standing \cap Mages
  BY DEF MayCorrupt, Mages
<1>4. ASSUME NEW m \in MayCast PROVE SpellOf(m) \in Nodes /\ CastCost[SpellOf(m)] <= vigor[m]
  <2>1. Releasable(m) # {} /\ m \in Mages
    BY <1>2 DEF MayCast
  <2>2. Releasable(m) \subseteq Nodes
    BY <2>1 DEF Releasable, TypeOK
  <2>3. SpellOf(m) \in Releasable(m)
    BY <2>1, <2>2, LeastIsThere, NodesAreNumbers DEF SpellOf
  <2> QED BY <2>2, <2>3 DEF Releasable
<1>5. ASSUME NEW m \in MayCorrupt PROVE BlightOf(m) \in Nodes /\ CastCost[BlightOf(m)] <= vigor[m]
  <2>1. mask[m] \cap Blights # {} /\ m \in Mages /\ CastCost[BlightOf(m)] <= vigor[m]
    BY <1>3 DEF MayCorrupt
  <2>2. mask[m] \cap Blights \subseteq Nodes
    BY <2>1 DEF TypeOK
  <2> QED
    <3>1. BlightOf(m) \in mask[m] \cap Blights
      BY <2>1, <2>2, LeastIsThere, NodesAreNumbers DEF BlightOf
    <3> QED BY <2>1, <2>2, <3>1
<1>6. ASSUME NEW c \in Combatants \ Standing PROVE hp[c] = 0 \/ c \notin roster \/ c \in withdrawn
  BY DEF Standing, IsAlive, TypeOK
<1> QED BY <1>1, <1>2, <1>3, <1>4, <1>5, <1>6

LEMMA StrikeFacts ==
  ASSUME TypeOK, NEW casters \in SUBSET MayCast, NEW swords, Strike(casters, swords)
  PROVE  /\ \E risen \in SUBSET (Squads \ roster) :
              /\ roster' = roster \cup risen
              /\ origin' = [s \in Squads |-> IF s \in risen THEN Conjured ELSE origin[s]]
         /\ hp' \in [Combatants -> Nat]
         /\ \A c \in roster \ Standing : hp'[c] = hp[c]
         /\ seen \subseteq seen' /\ seen' \subseteq Nodes
         /\ contact' \in BOOLEAN /\ (contact => contact')
<1>1. /\ seen' = seen \cup {SpellOf(c) : c \in casters \cap Raiders}
      /\ contact' = (contact \/ casters # {} \/ swords # {})
  BY DEF Strike
<1>2. seen \subseteq seen' /\ seen' \subseteq Nodes
  BY <1>1, ActorsStand DEF TypeOK
<1>3. PICK risen \in SUBSET (Squads \ roster), hurt \in SUBSET Standing :
        /\ roster' = roster \cup risen
        /\ origin' = [s \in Squads |-> IF s \in risen THEN Conjured ELSE origin[s]]
        /\ \E left \in [hurt -> UNION {0 .. Body[c] - 1 : c \in hurt}] :
             hp' = [c \in Combatants |->
                     IF c \in hurt THEN left[c] ELSE IF c \in risen THEN Body[c] ELSE hp[c]]
  <2> DEFINE calling == {c \in casters : SpellOf(c) \in Calls}
  <2>1. PICK risen \in {r \in SUBSET (Squads \ roster) : Summoned(r, calling)},
             hurt \in {h \in SUBSET Standing : Blows(casters \ calling, swords, h)} :
          /\ roster' = roster \cup risen
          /\ origin' = [s \in Squads |-> IF s \in risen THEN Conjured ELSE origin[s]]
          /\ \E left \in [hurt -> UNION {0 .. Body[c] - 1 : c \in hurt}] :
               /\ \A c \in hurt : left[c] < hp[c]
               /\ hp' = [c \in Combatants |->
                     IF c \in hurt THEN left[c] ELSE IF c \in risen THEN Body[c] ELSE hp[c]]
    BY DEF Strike
  <2>2. risen \in SUBSET (Squads \ roster) /\ hurt \in SUBSET Standing
    OBVIOUS
  <2> HIDE DEF calling
  <2> QED BY <2>1, <2>2
<1>4. PICK left \in [hurt -> UNION {0 .. Body[c] - 1 : c \in hurt}] :
        hp' = [c \in Combatants |->
                 IF c \in hurt THEN left[c] ELSE IF c \in risen THEN Body[c] ELSE hp[c]]
  BY <1>3
<1>5. \A c \in hurt : left[c] \in Nat
  <2> SUFFICES ASSUME NEW c \in hurt PROVE left[c] \in Nat
    OBVIOUS
  <2>1. PICK d \in hurt : left[c] \in 0 .. Body[d] - 1
    BY <1>4
  <2> QED BY <2>1
<1>6. hp' \in [Combatants -> Nat]
  <2>1. \A c \in Combatants : Body[c] \in Nat /\ hp[c] \in Nat
    BY NumbersAssumption DEF TypeOK
  <2> QED BY <1>4, <1>5, <2>1
<1>7. \A c \in roster \ Standing : hp'[c] = hp[c]
  BY <1>3, <1>4 DEF TypeOK
<1> QED BY <1>1, <1>2, <1>3, <1>6, <1>7 DEF TypeOK

LEMMA ReadFacts ==
  ASSUME TypeOK, NEW thieves \in SUBSET MaySteal,
         NEW haul \in [thieves -> UNION {Readable(t) : t \in thieves}], Read(haul)
  PROVE  /\ stolen' \in [Mages -> Seq(Nodes)]
         /\ \A m \in Mages \ Standing : stolen'[m] = stolen[m]
<1>1. ASSUME NEW t \in thieves PROVE Readable(t) \subseteq Nodes
  BY DEF Readable, Deepest, Stealable, TypeOK
<1>2. \A t \in thieves : haul[t] \in Nodes
  BY <1>1
<1>3. DOMAIN haul = thieves /\ thieves \subseteq Standing
  BY ActorsStand
<1>4. stolen' = [m \in Mages |-> IF m \in thieves THEN Append(stolen[m], haul[m]) ELSE stolen[m]]
  BY <1>3 DEF Read
<1>5. \A m \in Mages : /\ stolen[m] \in Seq(Nodes)
                       /\ m \in thieves => Append(stolen[m], haul[m]) \in Seq(Nodes)
  BY <1>2 DEF TypeOK
<1> QED BY <1>2, <1>3, <1>4, <1>5

LEMMA PaidFacts ==
  ASSUME TypeOK, NEW casters \in SUBSET MayCast, NEW saboteurs \in SUBSET MayCorrupt,
         Paid(casters, saboteurs)
  PROVE  /\ vigor' \in [Mages -> Nat]
         /\ \A m \in Mages \ Standing : vigor'[m] = vigor[m]
<1>1. \A m \in Mages : vigor[m] \in Nat
  BY DEF TypeOK
<1>2. \A m \in casters : CastCost[SpellOf(m)] \in Nat /\ CastCost[SpellOf(m)] <= vigor[m]
  BY ActorsStand, MagicAssumption
<1>3. \A m \in saboteurs : CastCost[BlightOf(m)] \in Nat /\ CastCost[BlightOf(m)] <= vigor[m]
  BY ActorsStand, MagicAssumption
<1>4. \A m \in casters : m \in Mages => vigor[m] - CastCost[SpellOf(m)] \in Nat
  BY <1>1, <1>2
<1>5. \A m \in saboteurs : m \in Mages => vigor[m] - CastCost[BlightOf(m)] \in Nat
  BY <1>1, <1>3
<1>6. casters \subseteq Standing /\ saboteurs \subseteq Standing
  BY ActorsStand
<1> QED BY <1>1, <1>4, <1>5, <1>6 DEF Paid

LEMMA AdvanceFacts ==
  ASSUME TypeOK, NEW seizers \in SUBSET Standing, NEW at \in [seizers -> held], Advance(at)
  PROVE  /\ effort' \in [Objectives -> Nat]
         /\ held' \subseteq held /\ taken \subseteq taken'
         /\ taken' \subseteq Objectives /\ held' \cap taken' = {}
<1>1. ASSUME NEW o \in Objectives
      PROVE  Smaller(Need, effort[o] + Cardinality({c \in DOMAIN at : at[c] = o})) \in Nat
  <2>1. {c \in DOMAIN at : at[c] = o} \in SUBSET Combatants
    BY ActorsStand
  <2>2. Cardinality({c \in DOMAIN at : at[c] = o}) \in Nat
    BY <2>1, FewCombatants
  <2>3. effort[o] \in Nat /\ Need \in Nat
    BY NumbersAssumption DEF TypeOK
  <2> QED BY <2>2, <2>3 DEF Smaller
<1>2. effort' \in [Objectives -> Nat]
  BY <1>1 DEF Advance
<1>3. PICK reached \in SUBSET held : held' = held \ reached /\ taken' = taken \cup reached
  BY DEF Advance
<1> QED BY <1>2, <1>3 DEF TypeOK

LEMMA StepFacts ==
  ASSUME TypeOK, Step
  PROVE  /\ stage = "fighting"
         /\ \E risen \in SUBSET (Squads \ roster) :
              /\ roster' = roster \cup risen
              /\ origin' = [s \in Squads |-> IF s \in risen THEN Conjured ELSE origin[s]]
         /\ hp' \in [Combatants -> Nat]
         /\ \A c \in roster \ Standing : hp'[c] = hp[c]
         /\ seen \subseteq seen' /\ seen' \subseteq Nodes
         /\ contact' \in BOOLEAN /\ (contact => contact')
         /\ stolen' \in [Mages -> Seq(Nodes)]
         /\ \A m \in Mages \ Standing : stolen'[m] = stolen[m]
         /\ vigor' \in [Mages -> Nat]
         /\ \A m \in Mages \ Standing : vigor'[m] = vigor[m]
         /\ ruined' \subseteq Books
         /\ effort' \in [Objectives -> Nat]
         /\ held' \subseteq held /\ taken \subseteq taken'
         /\ taken' \subseteq Objectives /\ held' \cap taken' = {}
         /\ withdrawn \subseteq withdrawn' /\ withdrawn' \subseteq withdrawn \cup Standing
         /\ stability' = Less(stability, Decay)
         /\ clock' = [s \in Sides |-> Host!Advanced(clock[s])]
         /\ \/ stage' = "ended"
            \/ stage' = "fighting" /\ Tick + 1 < Ceiling /\ stability' # 0
         /\ UNCHANGED <<living, knows, adept, people, shelf, loot, hidden, law, favor, raids,
                        size, mask, gods, lessons>>
<1>1. PICK casters \in SUBSET MayCast, swords \in SUBSET {s \in Standing \cap Squads : Foes(s) # {}} :
       /\ Strike(casters, swords)
       /\ \E thieves \in SUBSET {t \in MaySteal \ casters : Readable(t) # {}} :
          \E haul \in [thieves -> UNION {Readable(t) : t \in thieves}],
             saboteurs \in SUBSET (MayCorrupt \ (casters \cup thieves)) :
            /\ \A t \in thieves : haul[t] \in Readable(t)
            /\ Read(haul)
            /\ Paid(casters, saboteurs)
            /\ \E spoils \in {b \in SUBSET Corruptible : Spoiled(b, saboteurs)} :
                 ruined' = ruined \cup spoils
            /\ LET idle == Standing \ (casters \cup thieves \cup saboteurs)
               IN  /\ \E seizers \in SUBSET (idle \cap Of("attacker")) :
                      \E at \in [seizers -> held] :
                        (\A c \in seizers : MaySeize(c, at[c])) /\ Advance(at)
                   /\ \E leavers \in SUBSET (idle \cap MayLeave) :
                        withdrawn' = withdrawn \cup leavers
  BY DEF Step
<1>2. PICK thieves \in SUBSET {t \in MaySteal \ casters : Readable(t) # {}} :
          \E haul \in [thieves -> UNION {Readable(t) : t \in thieves}],
             saboteurs \in SUBSET (MayCorrupt \ (casters \cup thieves)) :
            /\ Read(haul)
            /\ Paid(casters, saboteurs)
            /\ \E spoils \in {b \in SUBSET Corruptible : Spoiled(b, saboteurs)} :
                 ruined' = ruined \cup spoils
            /\ \E seizers \in SUBSET Standing : \E at \in [seizers -> held] : Advance(at)
            /\ \E leavers \in SUBSET Standing : withdrawn' = withdrawn \cup leavers
  BY <1>1
<1>3. PICK haul \in [thieves -> UNION {Readable(t) : t \in thieves}],
           saboteurs \in SUBSET (MayCorrupt \ (casters \cup thieves)) :
            /\ Read(haul)
            /\ Paid(casters, saboteurs)
            /\ \E spoils \in {b \in SUBSET Corruptible : Spoiled(b, saboteurs)} :
                 ruined' = ruined \cup spoils
            /\ \E seizers \in SUBSET Standing : \E at \in [seizers -> held] : Advance(at)
            /\ \E leavers \in SUBSET Standing : withdrawn' = withdrawn \cup leavers
  BY <1>2
<1>4. /\ \E risen \in SUBSET (Squads \ roster) :
              /\ roster' = roster \cup risen
              /\ origin' = [s \in Squads |-> IF s \in risen THEN Conjured ELSE origin[s]]
      /\ hp' \in [Combatants -> Nat]
      /\ \A c \in roster \ Standing : hp'[c] = hp[c]
      /\ seen \subseteq seen' /\ seen' \subseteq Nodes
      /\ contact' \in BOOLEAN /\ (contact => contact')
  BY <1>1, StrikeFacts
<1>5. thieves \in SUBSET MaySteal /\ saboteurs \in SUBSET MayCorrupt
  OBVIOUS
<1>6. /\ stolen' \in [Mages -> Seq(Nodes)]
      /\ \A m \in Mages \ Standing : stolen'[m] = stolen[m]
  BY <1>3, <1>5, ReadFacts
<1>7. /\ vigor' \in [Mages -> Nat]
      /\ \A m \in Mages \ Standing : vigor'[m] = vigor[m]
  BY <1>3, <1>5, PaidFacts
<1>8. /\ effort' \in [Objectives -> Nat]
      /\ held' \subseteq held /\ taken \subseteq taken'
      /\ taken' \subseteq Objectives /\ held' \cap taken' = {}
  BY <1>3, AdvanceFacts
<1>9. withdrawn \subseteq withdrawn' /\ withdrawn' \subseteq withdrawn \cup Standing
  BY <1>3
<1>10. ruined' \subseteq Books
  BY <1>3 DEF Corruptible, TypeOK
<1>11. /\ stage = "fighting"
       /\ stability' = Less(stability, Decay)
       /\ clock' = [s \in Sides |-> Host!Advanced(clock[s])]
       /\ UNCHANGED <<living, knows, adept, people, shelf, loot, hidden, law, favor, raids,
                      size, mask, gods, lessons>>
  BY DEF Step
<1>12. \E errands : stage' = IF TerminationOf(Tick + 1, stability', errands) THEN "ended" ELSE "fighting"
  BY DEF Step
<1>13. Tick \in Nat /\ Ceiling \in Nat
  BY NumbersAssumption DEF TypeOK, Tick, Sides, Host!Readings
<1>14. \/ stage' = "ended"
       \/ stage' = "fighting" /\ Tick + 1 < Ceiling /\ stability' # 0
  BY <1>12, <1>13 DEF TerminationOf
<1> QED BY <1>4, <1>6, <1>7, <1>8, <1>9, <1>10, <1>11, <1>14

-----------------------------------------------------------------------------
(* Types, and what is blank between raids.                                 *)

LEMMA InitTyped == Init => Typed
<1> SUFFICES ASSUME Init PROVE Typed
  OBVIOUS
<1>1. clock \in [Sides -> Host!Readings]
  BY DEF Init, Host!Readings, Host!Modes
<1>2. law \in Constitutions /\ sky = law
  BY DEF Init
<1>3. /\ living \subseteq Mages /\ knows \in [Mages -> SUBSET Nodes] /\ people \in [Cohorts -> Nat]
      /\ shelf \subseteq Books /\ loot \subseteq Books /\ hidden \subseteq Books
      /\ favor \in Nat /\ raids \in Nat /\ stage \in Stages
  BY MagicAssumption, NumbersAssumption DEF Init, Stages
<1>4. /\ roster = {} /\ withdrawn = {} /\ origin \in [Squads -> Origins]
      /\ size \in [Squads -> 0 .. Strength] /\ hp \in [Combatants -> Nat]
      /\ vigor \in [Mages -> Nat] /\ mask \in [Mages -> SUBSET Nodes]
  BY NumbersAssumption DEF Init, Origins
<1>5. /\ ruined = {} /\ held = {} /\ taken = {} /\ seen = {} /\ locked = {}
      /\ effort \in [Objectives -> Nat] /\ stability = 0 /\ contact = FALSE
      /\ spent \in [Sides -> Nat] /\ lessons \in [Nodes -> Wardens \cup {Nobody}]
  BY DEF Init
<1>6. stolen \in [Mages -> Seq(Nodes)] /\ adept \in [Mages -> SUBSET Nodes]
  <2>1. <<>> \in Seq(Nodes)
    OBVIOUS
  <2> QED BY <2>1, MagicAssumption DEF Init
<1>7. TypeOK
  BY <1>1, <1>2, <1>3, <1>4, <1>5, <1>6 DEF TypeOK
<1>8. Blank
  BY DEF Init, Blank
<1> QED BY <1>7, <1>8 DEF Typed

LEMMA WorldTickTyped ==
  ASSUME Typed, NEW s \in Sides, WorldTick(s)
  PROVE  Typed'
<1>1. clock' \in [Sides -> Host!Readings]
  BY ClockSteps DEF Typed, TypeOK, WorldTick
<1> QED BY <1>1 DEF Typed, TypeOK, Blank, WorldTick, bodies, field, gods

LEMMA OpenTyped ==
  ASSUME Typed, OpenPortal
  PROVE  Typed'
<1>1. clock' \in [Sides -> Host!Readings]
  BY ClockSteps DEF Typed, TypeOK, OpenPortal
<1>2. stability' \in Nat /\ raids' \in Nat /\ stage' = "open" /\ stage = "peace" /\ sky' = law
  BY NumbersAssumption DEF Typed, TypeOK, OpenPortal
<1>3. UNCHANGED <<living, knows, adept, people, shelf, loot, hidden, law, favor, bodies,
                 ruined, held, taken, effort, contact, seen, locked, spent, lessons>>
  BY DEF OpenPortal
<1>4. TypeOK'
  BY <1>1, <1>2, <1>3 DEF Typed, TypeOK, bodies, Stages
<1> QED BY <1>2, <1>3, <1>4 DEF Typed, Blank, bodies

LEMMA MasksTyped ==
  ASSUME TypeOK, NEW l, NEW S
  PROVE  Arbitrated(l, S) \in [Mages -> SUBSET Nodes]
<1>1. \A m \in Mages : Castable(m) \subseteq Nodes
  BY DEF Castable, TypeOK
<1> QED BY <1>1 DEF Arbitrated, LegalNodeMask

LEMMA DeployTyped ==
  ASSUME Typed, DeployRaid
  PROVE  Typed'
<1>1. PICK called \in SUBSET Squads, strength \in [Squads -> 0 .. Strength] :
        /\ roster' = (Mages \cap living) \cup called
        /\ size' = strength
        /\ origin' = [s \in Squads |->
             IF s \in called THEN <<SideOf(s), "soldiers">> ELSE Unraised]
  BY DEF DeployRaid
<1>2. roster' \subseteq Combatants /\ size' \in [Squads -> 0 .. Strength]
  BY <1>1 DEF Combatants
<1>3. origin' \in [Squads -> Origins]
  BY <1>1 DEF Origins, Cohorts, SideOf, Sides, Trades
<1>4. hp' \in [Combatants -> Nat] /\ vigor' \in [Mages -> Nat]
  BY NumbersAssumption DEF DeployRaid
<1>5. mask' \in [Mages -> SUBSET Nodes]
  BY MasksTyped DEF DeployRaid, Typed
<1>6. held' \subseteq Objectives /\ stage' \in {"ended", "fighting"} /\ stage = "open"
  BY DEF DeployRaid
<1>7. UNCHANGED <<worlds, withdrawn, stolen, ruined, taken, effort, stability,
                  contact, seen, gods, lessons>>
  BY DEF DeployRaid
<1>8. withdrawn = {} /\ taken = {}
  BY <1>6 DEF Typed, Blank
<1>9. TypeOK'
  BY <1>2, <1>3, <1>4, <1>5, <1>6, <1>7, <1>8 DEF Typed, TypeOK, worlds, gods, Stages
<1> QED BY <1>6, <1>9 DEF Typed, Blank

LEMMA DebitTyped ==
  ASSUME TypeOK, NEW side \in Sides, NEW verb \in Verbs, Debit(side, verb)
  PROVE  spent' \in [Sides -> Nat]
<1>1. Cost[verb] \in Nat /\ \A s \in Sides : spent[s] \in Nat
  BY NumbersAssumption DEF TypeOK
<1> QED BY <1>1 DEF Debit, TypeOK

LEMMA ChangeRuleTyped ==
  ASSUME Typed, NEW kind \in {"forbid", "permit"}, NEW knob \in Knobs, ChangeRule(kind, knob)
  PROVE  Typed'
<1>1. kind \in Verbs /\ "defender" \in Sides
  BY DEF Verbs, Sides
<1>2. spent' \in [Sides -> Nat]
  BY <1>1, DebitTyped DEF ChangeRule, Typed
<1>3. sky' \in Constitutions /\ mask' \in [Mages -> SUBSET Nodes] /\ locked' \subseteq Knobs
  BY RuleChangeLawful, MasksTyped DEF ChangeRule, Typed, TypeOK
<1>4. stage = "fighting" /\ UNCHANGED <<worlds, stage, roster, origin, size, hp, vigor,
        withdrawn, stolen, field, lessons>>
  BY DEF ChangeRule, MayDirect
<1>5. TypeOK'
  BY <1>2, <1>3, <1>4 DEF Typed, TypeOK, worlds, field
<1> QED BY <1>4, <1>5 DEF Typed, Blank

LEMMA LevyFacts ==
  ASSUME TypeOK, Levy
  PROVE  \E s \in WardenSquads \ roster :
           /\ s \in Squads
           /\ roster' = roster \cup {s}
           /\ origin' = [origin EXCEPT ![s] = <<"defender", "folk">>]
           /\ size' = [size EXCEPT ![s] = Strength]
           /\ hp' = [hp EXCEPT ![s] = Body[s]]
<1>1. WardenSquads \ roster # {} /\ WardenSquads \ roster \subseteq Squads
  BY DEF Levy, RosterHasRoom, SquadsOf, Squads
<1>2. WardenSquads \ roster \subseteq Nat
  BY HandlesAssumption
<1>3. LeastOf(WardenSquads \ roster) \in WardenSquads \ roster
  BY <1>1, <1>2, LeastIsThere
<1> QED BY <1>1, <1>3 DEF Levy

LEMMA LevyTyped ==
  ASSUME Typed, Levy
  PROVE  Typed'
<1>1. "levy" \in Verbs /\ "defender" \in Sides
  BY DEF Verbs, Sides
<1>2. spent' \in [Sides -> Nat]
  BY <1>1, DebitTyped DEF Levy, Typed
<1>3. PICK s \in Squads :
           /\ roster' = roster \cup {s}
           /\ origin' = [origin EXCEPT ![s] = <<"defender", "folk">>]
           /\ size' = [size EXCEPT ![s] = Strength]
           /\ hp' = [hp EXCEPT ![s] = Body[s]]
  BY LevyFacts DEF Typed
<1>4. roster' \subseteq Combatants /\ roster \subseteq roster'
  BY <1>3 DEF Typed, TypeOK, Combatants
<1>5. origin' \in [Squads -> Origins]
  BY <1>3 DEF Typed, TypeOK, Origins, Cohorts, Sides, Trades
<1>6. size' \in [Squads -> 0 .. Strength] /\ hp' \in [Combatants -> Nat]
  <2>1. Strength \in 0 .. Strength /\ Body[s] \in Nat
    BY NumbersAssumption DEF Combatants
  <2>2. size \in [Squads -> 0 .. Strength] /\ hp \in [Combatants -> Nat]
    BY DEF Typed, TypeOK
  <2> QED BY <1>3, <2>1, <2>2
<1>7. stage = "fighting" /\ UNCHANGED <<worlds, stage, vigor, withdrawn, mask, stolen, field,
        sky, locked, lessons>>
  BY DEF Levy, MayDirect
<1>8. TypeOK'
  BY <1>2, <1>4, <1>5, <1>6, <1>7 DEF Typed, TypeOK, worlds, field
<1> QED BY <1>7, <1>8 DEF Typed, Blank

LEMMA MendTyped ==
  ASSUME Typed, Mend
  PROVE  Typed'
<1>1. "mend" \in Verbs /\ "attacker" \in Sides
  BY DEF Verbs, Sides
<1>2. spent' \in [Sides -> Nat]
  BY <1>1, DebitTyped DEF Mend, Typed
<1>3. \A c \in Combatants : hp[c] \in Nat /\ Smaller(hp[c] + MendBy, Body[c]) \in Nat
  BY NumbersAssumption DEF Typed, TypeOK, Smaller
<1>4. hp' \in [Combatants -> Nat]
  BY <1>3 DEF Mend
<1>5. stage = "fighting" /\ UNCHANGED <<worlds, stage, roster, origin, size, vigor, withdrawn,
        mask, stolen, field, sky, locked, lessons>>
  BY DEF Mend, MayDirect
<1>6. TypeOK'
  BY <1>2, <1>4, <1>5 DEF Typed, TypeOK, worlds, field
<1> QED BY <1>5, <1>6 DEF Typed, Blank

LEMMA ShieldTyped ==
  ASSUME Typed, NEW side \in Sides, NEW verb \in Verbs, NEW last, Shield(side, verb, last)
  PROVE  Typed'
<1>1. spent' \in [Sides -> Nat]
  BY DebitTyped DEF Shield, Typed
<1>2. stage = "fighting" /\ UNCHANGED <<worlds, stage, bodies, field, sky, locked, lessons>>
  BY DEF Shield, MayDirect
<1>3. TypeOK'
  BY <1>1, <1>2 DEF Typed, TypeOK, worlds, bodies, field
<1> QED BY <1>2, <1>3 DEF Typed, Blank

LEMMA StepTyped ==
  ASSUME Typed, Step
  PROVE  Typed'
<1>1. PICK risen \in SUBSET (Squads \ roster) :
        /\ roster' = roster \cup risen
        /\ origin' = [s \in Squads |-> IF s \in risen THEN Conjured ELSE origin[s]]
  BY StepFacts DEF Typed
<1>2. roster' \subseteq Combatants /\ roster \subseteq roster'
  BY <1>1 DEF Typed, TypeOK, Combatants
<1>3. origin' \in [Squads -> Origins]
  BY <1>1 DEF Typed, TypeOK, Origins
<1>4. clock' \in [Sides -> Host!Readings]
  BY StepFacts, ClockSteps DEF Typed, TypeOK
<1>5. stability' \in Nat
  <2>1. stability' = Less(stability, Decay)
    BY StepFacts DEF Typed
  <2>2. stability \in Nat /\ Decay \in Nat
    BY NumbersAssumption DEF Typed, TypeOK
  <2> QED BY <2>1, <2>2 DEF Less
<1>6. withdrawn' \subseteq roster'
  BY <1>2, StepFacts DEF Typed, TypeOK, Standing
<1>7. /\ hp' \in [Combatants -> Nat] /\ seen' \subseteq Nodes /\ contact' \in BOOLEAN
      /\ stolen' \in [Mages -> Seq(Nodes)] /\ vigor' \in [Mages -> Nat]
      /\ ruined' \subseteq Books /\ effort' \in [Objectives -> Nat]
      /\ held' \subseteq held /\ taken' \subseteq Objectives /\ held' \cap taken' = {}
      /\ stage' \in {"ended", "fighting"}
  BY StepFacts DEF Typed
<1>8. UNCHANGED <<living, knows, adept, people, shelf, loot, hidden, law, favor, raids,
                  size, mask, gods, lessons>>
  BY StepFacts DEF Typed
<1>9. TypeOK'
  BY <1>2, <1>3, <1>4, <1>5, <1>6, <1>7, <1>8 DEF Typed, TypeOK, gods, Stages
<1> QED BY <1>7, <1>9 DEF Typed, Blank

LEMMA ResolveTyped ==
  ASSUME Typed, Resolve
  PROVE  /\ Typed'
         /\ \A n \in Nodes : lessons'[n] \in (Wardens \cap living) \cup {Nobody}
<1>1. ASSUME NEW n \in Nodes
      PROVE  lessons'[n] \in (Wardens \cap living) \cup {Nobody}
  <2> DEFINE lacking == {m \in Wardens \cap living : n \notin knows[m]}
  <2>1. lacking # {} => LeastOf(lacking) \in lacking
    BY LeastIsThere, HandlesAssumption
  <2>2. lessons'[n] = IF n \in seen /\ lacking # {} THEN LeastOf(lacking) ELSE Nobody
    BY DEF Resolve
  <2> QED BY <2>1, <2>2
<1>2. lessons' \in [Nodes -> Wardens \cup {Nobody}]
  BY <1>1 DEF Resolve
<1>3. stage' = "resolved" /\ UNCHANGED <<worlds, bodies, field, gods>>
  BY DEF Resolve
<1>4. TypeOK'
  BY <1>2, <1>3 DEF Typed, TypeOK, worlds, bodies, field, gods, Stages
<1> QED BY <1>1, <1>3, <1>4 DEF Typed, Blank

\* What is handed to a mage when the raid is over: nodes, each read from a mind
\* or seen done, in places that may be empty.
Handed(m) == IF m \in Raiders THEN stolen[m] ELSE Lessons(m)

LEMMA HandedTyped ==
  ASSUME TypeOK, NEW m \in Mages
  PROVE  Handed(m) \in Seq(Nodes \cup {Nobody})
<1>1. stolen[m] \in Seq(Nodes)
  BY DEF TypeOK
<1>2. stolen[m] \in Seq(Nodes \cup {Nobody})
  BY <1>1
<1>3. Lessons(m) \in [1 .. NodeCount -> Nodes \cup {Nobody}] /\ NodeCount \in Nat
  BY MagicAssumption DEF Lessons
<1>4. Lessons(m) \in Seq(Nodes \cup {Nobody})
  BY <1>3
<1> QED BY <1>2, <1>4 DEF Handed

LEMMA RememberedTyped ==
  ASSUME TypeOK, NEW m \in Mages
  PROVE  Remembered(m) \in SUBSET Nodes
<1>1. \A h \in SUBSET Nodes, n \in Nodes : Acquired(SideOf(m), h, n) \in SUBSET Nodes
  BY DEF Acquired
<1>2. knows[m] \in SUBSET Nodes
  BY DEF TypeOK
<1>3. Learned(SideOf(m), knows[m], Handed(m)) \in SUBSET Nodes
  BY <1>1, <1>2, HandedTyped, LearnedStays
<1> QED BY <1>3 DEF Remembered, Handed

LEMMA ApplyTyped ==
  ASSUME Typed, ApplyOutcome
  PROVE  Typed'
<1>1. living' \subseteq Mages
  BY DEF ApplyOutcome, Typed, TypeOK
<1>2. knows' \in [Mages -> SUBSET Nodes] /\ adept' \in [Mages -> SUBSET Nodes]
  BY RememberedTyped DEF ApplyOutcome, Typed, TypeOK
<1>3. people' \in [Cohorts -> Nat]
  BY BillIsCount DEF ApplyOutcome, Typed, TypeOK, Less
<1>4. shelf' \subseteq Books /\ loot' \subseteq Books /\ hidden' \subseteq Books
  BY DEF ApplyOutcome, Typed, TypeOK
<1>5. favor' \in Nat
  BY DEF ApplyOutcome, Typed, TypeOK, Less, Sides
<1>6. law' \in Constitutions
  BY DEF ApplyOutcome, Typed, TypeOK, Constitutions, Knobs
<1>7. stage' = "applied" /\ UNCHANGED <<clock, raids, bodies, field, gods, lessons>>
  BY DEF ApplyOutcome
<1>8. TypeOK'
  BY <1>1, <1>2, <1>3, <1>4, <1>5, <1>6, <1>7 DEF Typed, TypeOK, bodies, field, gods, Stages
<1> QED BY <1>7, <1>8 DEF Typed, Blank

\* What closing the portal makes of the clocks.
LEMMA ReleaseTyped ==
  ASSUME TypeOK
  PROVE  /\ Released \in [Sides -> Host!Readings]
         /\ \A s \in Sides : Released[s] = Host!Left(clock[s])
<1>1. \A s \in Sides : Released[s] = Host!Left(clock[s])
  BY DEF Released, Host!Left
<1> QED BY <1>1, ClockSteps DEF Released, TypeOK

LEMMA CloseTyped ==
  ASSUME Typed, ClosePortal
  PROVE  Typed'
<1>1. clock' \in [Sides -> Host!Readings]
  BY ReleaseTyped DEF ClosePortal, Typed
<1>2. sky' = law /\ UNCHANGED <<living, knows, adept, people, shelf, loot, hidden, law, favor, raids>>
  BY DEF ClosePortal
<1>3. /\ roster' = {} /\ withdrawn' = {} /\ ruined' = {} /\ held' = {} /\ taken' = {}
      /\ seen' = {} /\ locked' = {} /\ stability' = 0 /\ contact' = FALSE /\ stage' = "peace"
      /\ hp' \in [Combatants -> Nat] /\ vigor' \in [Mages -> Nat]
      /\ size' \in [Squads -> 0 .. Strength] /\ origin' \in [Squads -> Origins]
      /\ effort' \in [Objectives -> Nat] /\ lessons' \in [Nodes -> Wardens \cup {Nobody}]
      /\ mask' \in [Mages -> SUBSET Nodes]
  BY NumbersAssumption DEF ClosePortal, Origins
<1>4. /\ stolen' \in [Mages -> Seq(Nodes)] /\ \A m \in Mages : stolen'[m] = <<>>
      /\ spent' \in [Sides -> Nat] /\ \A s \in Sides : spent'[s] = 0
  BY DEF ClosePortal
<1>5. TypeOK'
  BY <1>1, <1>2, <1>3, <1>4 DEF Typed, TypeOK, Stages
<1> QED BY <1>2, <1>3, <1>4, <1>5 DEF Typed, Blank

LEMMA TypedStep == Typed /\ [Next]_vars => Typed'
<1> SUFFICES ASSUME Typed, [Next]_vars PROVE Typed'
  OBVIOUS
<1>1. CASE \E s \in Sides : WorldTick(s)
  BY <1>1, WorldTickTyped
<1>2. CASE OpenPortal
  BY <1>2, OpenTyped
<1>3. CASE Directive
  <2>1. CASE \E kind \in {"forbid", "permit"}, knob \in Knobs : ChangeRule(kind, knob)
    BY <2>1, ChangeRuleTyped
  <2>2. CASE Levy \/ Mend
    BY <2>2, LevyTyped, MendTyped
  <2>3. CASE Shield("defender", "ward", 1) \/ Shield("attacker", "conceal", 0)
    BY <2>3, ShieldTyped DEF Sides, Verbs
  <2> QED BY <1>3, <2>1, <2>2, <2>3 DEF Directive
<1>4. CASE DeployRaid \/ Step \/ Resolve
  BY <1>4, DeployTyped, StepTyped, ResolveTyped
<1>5. CASE ApplyOutcome \/ ClosePortal
  BY <1>5, ApplyTyped, CloseTyped
<1>6. CASE UNCHANGED vars
  BY <1>6 DEF Typed, TypeOK, Blank, vars, worlds, bodies, field, gods
<1> QED BY <1>1, <1>2, <1>3, <1>4, <1>5, <1>6 DEF Next, Driver

\* Every variable keeps its shape, whoever is raided and by whom.
THEOREM TypeCorrect == Spec => []TypeOK
<1>1. Typed => TypeOK
  BY DEF Typed
<1> QED BY InitTyped, TypedStep, <1>1, PTL DEF Spec

-----------------------------------------------------------------------------
(* The law.  Blank is what deployment starts from: nothing locked, and a   *)
(* sky that is the host's constitution.                                    *)

Laws == Typed /\ LawOfTheRaid

\* A step that fields no mage, and turns no knob, keeps masks and locks true.
LEMMA LawStands ==
  ASSUME LawOfTheRaid, Mages \cap roster' \subseteq roster,
         stage \in {"fighting", "ended", "resolved"},
         stage' \in {"fighting", "ended", "resolved"},
         UNCHANGED <<mask, sky, law, locked, adept>>
  PROVE  LawOfTheRaid'
BY DEF LawOfTheRaid, Engaged, LegalNodeMask, Castable

LEMMA DeployLaw ==
  ASSUME Typed, DeployRaid
  PROVE  LawOfTheRaid'
<1>1. /\ mask' = Arbitrated(sky, roster') /\ stage = "open" /\ stage' \in {"ended", "fighting"}
      /\ UNCHANGED <<sky, law, locked, adept>>
  BY DEF DeployRaid, worlds, gods
<1>2. locked = {} /\ sky = law
  BY <1>1 DEF Typed, Blank
<1>3. \A m \in Mages \cap roster' : mask'[m] = LegalNodeMask(sky, Castable(m))
  BY <1>1 DEF Arbitrated
<1>4. \A m \in Mages : (Castable(m))' = Castable(m)
  BY <1>1 DEF Castable
<1> QED BY <1>1, <1>2, <1>3, <1>4 DEF LawOfTheRaid, Engaged, LegalNodeMask

LEMMA ChangeRuleLaw ==
  ASSUME Laws, NEW kind \in {"forbid", "permit"}, NEW knob \in Knobs, ChangeRule(kind, knob)
  PROVE  LawOfTheRaid'
<1>1. /\ sky' = RulesetWith(sky, knob, kind) /\ ChangesLegality(sky, knob, kind)
      /\ knob \notin locked /\ locked' = locked \cup {knob}
      /\ mask' = Arbitrated(sky', roster)
      /\ stage = "fighting" /\ UNCHANGED <<stage, roster, law, adept>>
  BY DEF ChangeRule, MayDirect, worlds
<1>2. locked = {k \in Knobs : sky[k] # law[k]} /\ sky \in Constitutions
  BY <1>1 DEF Laws, Typed, TypeOK, LawOfTheRaid, Engaged
<1>3. sky[knob] = law[knob]
  BY <1>1, <1>2
<1>4. /\ sky[knob] # kind /\ sky'[knob] = kind
      /\ \A j \in Knobs \ {knob} : sky'[j] = sky[j]
  <2>1. /\ RulesetWith(sky, knob, kind)[knob] = kind
        /\ \A j \in Knobs \ {knob} : RulesetWith(sky, knob, kind)[j] = sky[j]
    BY <1>2 DEF RulesetWith, Constitutions
  <2>2. sky[knob] # kind
    BY <1>1, <1>2, RuleChangeBites
  <2> QED BY <1>1, <2>1, <2>2
<1>5. locked' = {k \in Knobs : sky'[k] # law[k]}
  BY <1>1, <1>2, <1>3, <1>4
<1>6. \A m \in Mages \cap roster : mask'[m] = LegalNodeMask(sky', Castable(m))
  BY <1>1 DEF Arbitrated
<1>7. \A m \in Mages : (Castable(m))' = Castable(m)
  BY <1>1 DEF Castable
<1>8. \A m \in Mages : (LegalNodeMask(sky, Castable(m)))' = LegalNodeMask(sky', Castable(m))
  BY <1>7 DEF LegalNodeMask
<1> QED BY <1>1, <1>5, <1>6, <1>8 DEF LawOfTheRaid, Engaged

LEMMA LevyLaw ==
  ASSUME Laws, Levy
  PROVE  LawOfTheRaid'
<1>1. Mages \cap roster' \subseteq roster
  BY LevyFacts, HandlesAssumption DEF Laws, Typed
<1>2. stage = "fighting" /\ UNCHANGED <<stage, mask, sky, law, locked, adept>>
  BY DEF Levy, MayDirect, worlds
<1> QED BY <1>1, <1>2, LawStands DEF Laws

LEMMA StepLaw ==
  ASSUME Laws, Step
  PROVE  LawOfTheRaid'
<1>1. Mages \cap roster' \subseteq roster
  BY StepFacts, HandlesAssumption DEF Laws, Typed
<1>2. /\ stage = "fighting" /\ stage' \in {"fighting", "ended"}
      /\ UNCHANGED <<mask, sky, law, locked, adept>>
  BY StepFacts DEF Laws, Typed, gods
<1> QED BY <1>1, <1>2, LawStands DEF Laws

LEMMA ApplyLaw ==
  ASSUME Laws, ApplyOutcome
  PROVE  LawOfTheRaid'
<1>1. /\ law' = [k \in Knobs |-> IF k \in locked THEN sky[k] ELSE law[k]]
      /\ stage = "resolved" /\ stage' = "applied" /\ sky' = sky
  BY DEF ApplyOutcome, gods
<1>2. locked = {k \in Knobs : sky[k] # law[k]} /\ sky \in [Knobs -> Settings]
  BY <1>1 DEF Laws, Typed, TypeOK, LawOfTheRaid, Engaged, Constitutions
<1>3. law' = sky
  BY <1>1, <1>2
<1> QED BY <1>1, <1>3 DEF LawOfTheRaid

LEMMA LawsStep == Laws /\ [Next]_vars => Laws'
<1> SUFFICES ASSUME Laws, [Next]_vars PROVE LawOfTheRaid'
  BY TypedStep DEF Laws
<1>1. CASE (\E s \in Sides : WorldTick(s)) \/ OpenPortal \/ ClosePortal
  BY <1>1 DEF WorldTick, OpenPortal, ClosePortal, LawOfTheRaid, Engaged
<1>2. CASE Directive
  <2>1. CASE \E kind \in {"forbid", "permit"}, knob \in Knobs : ChangeRule(kind, knob)
    BY <2>1, ChangeRuleLaw
  <2>2. CASE Levy
    BY <2>2, LevyLaw
  <2>3. CASE Mend \/ Shield("defender", "ward", 1) \/ Shield("attacker", "conceal", 0)
    <3>1. stage = "fighting" /\ UNCHANGED <<stage, roster, mask, sky, law, locked, adept>>
      BY <2>3 DEF Mend, Shield, MayDirect, worlds, bodies
    <3> QED BY <3>1, LawStands DEF Laws
  <2> QED BY <1>2, <2>1, <2>2, <2>3 DEF Directive
<1>3. CASE DeployRaid \/ Step
  BY <1>3, DeployLaw, StepLaw DEF Laws
<1>4. CASE Resolve
  <2>1. /\ stage = "ended" /\ stage' = "resolved"
        /\ UNCHANGED <<roster, mask, sky, law, locked, adept>>
    BY <1>4 DEF Resolve, worlds, bodies, gods
  <2> QED BY <2>1, LawStands DEF Laws
<1>5. CASE ApplyOutcome
  BY <1>5, ApplyLaw
<1>6. CASE UNCHANGED vars
  BY <1>6 DEF Laws, LawOfTheRaid, Engaged, LegalNodeMask, Castable, vars, worlds, bodies, gods
<1> QED BY <1>1, <1>2, <1>3, <1>4, <1>5, <1>6 DEF Next, Driver

\* No mage ever selects a node the sky she stands under forbids, and the
\* constitution the host wakes up to is the last sky of the raid.
THEOREM LawHolds == Spec => []LawOfTheRaid
<1>1. Init => Laws
  BY InitTyped DEF Laws, LawOfTheRaid, Engaged, Init
<1>2. Laws => LawOfTheRaid
  BY DEF Laws
<1> QED BY <1>1, <1>2, LawsStep, PTL DEF Spec

-----------------------------------------------------------------------------
(* Minds.  The raid is fought by exactly the mages the worlds call living  *)
(* until its outcome is written, and only they read or are taught.         *)

MindsOfTheRaid ==
  /\ stage \in {"fighting", "ended", "resolved"} =>
       /\ roster \cap Mages = living
       /\ \A m \in Mages \ living : stolen[m] = <<>>
  /\ stage = "resolved" => \A n \in Nodes : lessons[n] \in living \cup {Nobody}

Minds == Typed /\ MindsOfTheRaid /\ NoMindIsLaundered

\* A step that leaves the minds of both worlds alone.
LEMMA MindsStand ==
  ASSUME Minds, roster' \cap Mages = roster \cap Mages,
         stage \in {"fighting", "ended"}, stage' \in {"fighting", "ended"},
         \A m \in Mages \ roster : stolen'[m] = stolen[m],
         UNCHANGED <<living, knows>>
  PROVE  MindsOfTheRaid' /\ NoMindIsLaundered'
BY DEF Minds, MindsOfTheRaid, NoMindIsLaundered

LEMMA DeployMinds ==
  ASSUME Minds, DeployRaid
  PROVE  MindsOfTheRaid' /\ NoMindIsLaundered'
<1>1. PICK called \in SUBSET Squads : roster' = (Mages \cap living) \cup called
  BY DEF DeployRaid
<1>2. /\ stage = "open" /\ stage' \in {"fighting", "ended"}
      /\ UNCHANGED <<living, knows, stolen>>
  BY DEF DeployRaid, worlds
<1>3. roster' \cap Mages = living
  BY <1>1, HandlesAssumption DEF Minds, Typed, TypeOK
<1>4. \A m \in Mages : stolen'[m] = <<>>
  BY <1>2 DEF Minds, Typed, Blank
<1> QED BY <1>2, <1>3, <1>4 DEF Minds, MindsOfTheRaid, NoMindIsLaundered

LEMMA StepMinds ==
  ASSUME Minds, Step
  PROVE  MindsOfTheRaid' /\ NoMindIsLaundered'
<1>1. roster' \cap Mages = roster \cap Mages
  BY StepFacts, HandlesAssumption DEF Minds, Typed
<1>2. \A m \in Mages \ roster : stolen'[m] = stolen[m]
  BY StepFacts DEF Minds, Typed, Standing
<1>3. stage = "fighting" /\ stage' \in {"fighting", "ended"} /\ UNCHANGED <<living, knows>>
  BY StepFacts DEF Minds, Typed
<1> QED BY <1>1, <1>2, <1>3, MindsStand

LEMMA ResolveMinds ==
  ASSUME Minds, Resolve
  PROVE  MindsOfTheRaid' /\ NoMindIsLaundered'
<1>1. /\ stage = "ended" /\ stage' = "resolved"
      /\ UNCHANGED <<living, knows, roster, stolen>>
  BY DEF Resolve, worlds, bodies
<1>2. \A n \in Nodes : lessons'[n] \in living \cup {Nobody}
  BY ResolveTyped DEF Minds
<1> QED BY <1>1, <1>2 DEF Minds, MindsOfTheRaid, NoMindIsLaundered

\* Whatever a sound mind is given, it stays sound: what stays of it beside the
\* new node neither excludes that node nor is excluded by it.
LEMMA AcquiredSound ==
  ASSUME NEW m \in Mages, NEW mind \in SUBSET Nodes, NEW n \in Nodes, Sound(m, mind)
  PROVE  Sound(m, Acquired(SideOf(m), mind, n))
<1>1. CASE SideOf(m) \notin Screening
  BY <1>1 DEF Acquired, Sound
<1>2. CASE SideOf(m) \in Screening /\ Rivals(mind, n, "refused") # {}
  BY <1>2 DEF Acquired
<1>3. CASE SideOf(m) \in Screening /\ Rivals(mind, n, "refused") = {}
  <2> DEFINE doomed == Rivals(mind, n, "destructive")
  <2>1. Acquired(SideOf(m), mind, n) = (mind \ doomed) \cup {n}
    BY <1>3 DEF Acquired
  <2>2. \A k \in mind \ doomed : Excludes[CellOf[n], CellOf[k]] = "none"
    <3> SUFFICES ASSUME NEW k \in mind \ doomed PROVE Excludes[CellOf[n], CellOf[k]] = "none"
      OBVIOUS
    <3>1. CellOf[n] \in Cells /\ CellOf[k] \in Cells
      BY MagicAssumption
    <3>2. Excludes[CellOf[n], CellOf[k]] \in Resolutions
      BY <3>1, MagicAssumption
    <3>3. Excludes[CellOf[n], CellOf[k]] \notin {"refused", "destructive"}
      BY <1>3 DEF Rivals
    <3> QED BY <3>2, <3>3 DEF Resolutions
  <2>3. \A k \in mind \ doomed : Excludes[CellOf[k], CellOf[n]] = "none"
    <3>1. CellOf[n] \in Cells /\ \A k \in mind : CellOf[k] \in Cells
      BY MagicAssumption
    <3> QED BY <2>2, <3>1, MagicAssumption
  <2>4. Excludes[CellOf[n], CellOf[n]] = "none"
    BY MagicAssumption
  <2>5. ASSUME NEW j \in (mind \ doomed) \cup {n}, NEW k \in (mind \ doomed) \cup {n},
               Excludes[CellOf[j], CellOf[k]] # "none"
        PROVE  {j, k} \subseteq Skills[m]
    <3>1. j # n /\ k # n
      BY <2>2, <2>3, <2>4, <2>5
    <3> QED BY <1>3, <2>5, <3>1 DEF Sound
  <2>6. ASSUME NEW k \in Skills[m] \ ((mind \ doomed) \cup {n})
        PROVE  Rivals(Nodes, k, "destructive") # {}
    <3>1. CASE k \notin mind
      BY <2>6, <3>1 DEF Sound
    <3>2. CASE k \in doomed
      <4>1. Excludes[CellOf[n], CellOf[k]] = "destructive" /\ k \in Nodes
        BY <3>2 DEF Rivals
      <4>2. CellOf[n] \in Cells /\ CellOf[k] \in Cells
        BY <4>1, MagicAssumption
      <4>3. Excludes[CellOf[k], CellOf[n]] = "destructive"
        BY <4>1, <4>2, MagicAssumption
      <4> QED BY <4>3 DEF Rivals
    <3> QED BY <2>6, <3>1, <3>2
  <2> QED BY <1>3, <2>1, <2>5, <2>6 DEF Sound
<1> QED BY <1>1, <1>2, <1>3

\* Who was not living was not fielded, stole nothing and was taught nothing;
\* who was fielded and lost is emptied; everyone else is given what her side
\* brought home, one node after another.
LEMMA ApplyMinds ==
  ASSUME Minds, ApplyOutcome
  PROVE  MindsOfTheRaid' /\ NoMindIsLaundered'
<1>1. /\ stage = "resolved" /\ stage' = "applied" /\ living' = living \ Lost
      /\ knows' = [m \in Mages |-> Remembered(m)]
  BY DEF ApplyOutcome
<1>2. /\ roster \cap Mages = living
      /\ \A m \in Mages \ living : stolen[m] = <<>>
      /\ \A n \in Nodes : lessons[n] \in living \cup {Nobody}
  BY <1>1 DEF Minds, MindsOfTheRaid
<1>3. ASSUME NEW m \in Mages
      PROVE  IF m \in living' THEN Sound(m, knows'[m]) ELSE knows'[m] = {}
  <2>1. CASE m \in living'
    <3> DEFINE minds == {h \in SUBSET Nodes : Sound(m, h)}
    <3>1. knows[m] \in minds
      BY <1>1, <2>1 DEF Minds, NoMindIsLaundered, Typed, TypeOK
    <3>2. \A h \in minds, n \in Nodes : Acquired(SideOf(m), h, n) \in minds
      <4>1. \A h \in minds, n \in Nodes : Acquired(SideOf(m), h, n) \in SUBSET Nodes
        BY DEF Acquired
      <4> QED BY <4>1, AcquiredSound
    <3>3. Handed(m) \in Seq(Nodes \cup {Nobody})
      BY HandedTyped DEF Minds, Typed
    <3>4. Learned(SideOf(m), knows[m], Handed(m)) \in minds
      <4> HIDE DEF minds
      <4> QED BY <3>1, <3>2, <3>3, LearnedStays
    <3>5. knows'[m] = Learned(SideOf(m), knows[m], Handed(m))
      BY <1>1, <2>1 DEF Remembered, Handed
    <3> QED BY <2>1, <3>4, <3>5
  <2>2. CASE m \in Lost
    BY <1>1, <2>2 DEF Remembered
  <2>3. CASE m \notin living /\ m \notin Lost
    <3>1. m # Nobody
      BY HandlesAssumption DEF Mages
    <3>2. Lessons(m) \in [1 .. NodeCount -> {} \cup {Nobody}] /\ NodeCount \in Nat
      BY <1>2, <2>3, <3>1, MagicAssumption DEF Lessons
    <3>3. Handed(m) \in Seq({} \cup {Nobody})
      <4>1. <<>> \in Seq({} \cup {Nobody}) /\ Lessons(m) \in Seq({} \cup {Nobody})
        BY <3>2
      <4>2. stolen[m] = <<>>
        BY <1>2, <2>3
      <4> QED BY <4>1, <4>2 DEF Handed
    <3>4. knows[m] \in {{}}
      BY <1>2, <2>3 DEF Minds, NoMindIsLaundered
    <3>5. Learned(SideOf(m), knows[m], Handed(m)) \in {{}}
      BY <3>3, <3>4, LearnedStays
    <3> QED BY <1>1, <2>3, <3>5 DEF Remembered, Handed
  <2> QED BY <1>1, <2>1, <2>2, <2>3
<1> QED BY <1>1, <1>3 DEF MindsOfTheRaid, NoMindIsLaundered, Sound

LEMMA MindsStep == Minds /\ [Next]_vars => Minds'
<1> SUFFICES ASSUME Minds, [Next]_vars PROVE MindsOfTheRaid' /\ NoMindIsLaundered'
  BY TypedStep DEF Minds
<1>1. CASE (\E s \in Sides : WorldTick(s)) \/ OpenPortal \/ ClosePortal
  <2>1. stage' \in {"peace", "open"} /\ UNCHANGED <<living, knows>>
    BY <1>1 DEF WorldTick, OpenPortal, ClosePortal
  <2> QED BY <2>1 DEF Minds, MindsOfTheRaid, NoMindIsLaundered
<1>2. CASE Directive
  <2>1. /\ stage = "fighting" /\ UNCHANGED <<stage, living, knows, stolen>>
    BY <1>2 DEF Directive, ChangeRule, Levy, Mend, Shield, MayDirect, worlds, bodies
  <2>2. roster' \cap Mages = roster \cap Mages
    <3>1. CASE Levy
      BY <3>1, LevyFacts, HandlesAssumption DEF Minds, Typed
    <3>2. CASE ~Levy
      BY <1>2, <3>2 DEF Directive, ChangeRule, Mend, Shield, bodies
    <3> QED BY <3>1, <3>2
  <2> QED BY <2>1, <2>2, MindsStand
<1>3. CASE DeployRaid \/ Step
  BY <1>3, DeployMinds, StepMinds
<1>4. CASE Resolve \/ ApplyOutcome
  BY <1>4, ResolveMinds, ApplyMinds
<1>5. CASE UNCHANGED vars
  BY <1>5 DEF Minds, MindsOfTheRaid, NoMindIsLaundered, vars, worlds, bodies
<1> QED BY <1>1, <1>2, <1>3, <1>4, <1>5 DEF Next, Driver

\* The founding grants are not screened; they are what she started with.
LEMMA InitSound == \A m \in Mages : Sound(m, Skills[m])
BY DEF Sound

\* However often the two universes raid each other, whatever is read and
\* witnessed and in whatever order it is written: the dead know nothing, no
\* raid puts two schools that exclude each other into a screened mind, and the
\* living lose nothing but to such an exclusion.
THEOREM RaidsLaunderNoMind == Spec => []NoMindIsLaundered
<1>1. Init => Minds
  BY InitTyped, InitSound DEF Minds, MindsOfTheRaid, NoMindIsLaundered, Init
<1>2. Minds => NoMindIsLaundered
  BY DEF Minds
<1> QED BY <1>1, <1>2, MindsStep, PTL DEF Spec

-----------------------------------------------------------------------------
(* Clocks.  Both universes are engaged exactly while a portal stands, so   *)
(* what ticks and what is released is always what was entered.             *)

ClocksOfTheRaid ==
  /\ \A s \in Sides : clock[s].mode = IF stage = "peace" THEN "world" ELSE "engagement"
  /\ stage \in {"peace", "open"} => Tick = 0

Timed == Typed /\ ClocksOfTheRaid

\* How one side's clock moves in a step.
Moves(s) ==
  \/ clock'[s] = clock[s]
  \/ clock'[s] = Host!Advanced(clock[s])
  \/ clock[s].mode = "world" /\ clock'[s] = Host!Entered(clock[s])
  \/ clock[s].mode = "engagement" /\ clock'[s] = Host!Left(clock[s])

WorldStandsStill == stage # "peace" => \A s \in Sides : clock'[s].worldTick = clock[s].worldTick

LEMMA TickIsNat == TypeOK => Tick \in Nat
BY DEF TypeOK, Tick, Sides, Host!Readings

LEMMA WorldTickTimed ==
  ASSUME Timed, NEW s \in Sides, WorldTick(s)
  PROVE  ClocksOfTheRaid' /\ WorldStandsStill /\ \A r \in Sides : Moves(r)
<1>1. /\ stage = "peace" /\ stage' = "peace" /\ clock' = [clock EXCEPT ![s] = Host!Advanced(@)]
  BY DEF WorldTick
<1>2. clock \in [Sides -> Host!Readings] /\ "defender" \in Sides
  BY DEF Timed, Typed, TypeOK, Sides
<1>3. \A r \in Sides : /\ clock[r].mode = "world" /\ clock'[r].mode = "world"
                        /\ clock'[r].engagementTick = clock[r].engagementTick
                        /\ Moves(r)
  BY <1>1, <1>2, ClockSteps DEF Timed, ClocksOfTheRaid, Moves
<1> QED BY <1>1, <1>2, <1>3 DEF Timed, ClocksOfTheRaid, WorldStandsStill, Tick

LEMMA OpenTimed ==
  ASSUME Timed, OpenPortal
  PROVE  ClocksOfTheRaid' /\ WorldStandsStill /\ \A r \in Sides : Moves(r)
<1>1. /\ stage = "peace" /\ stage' = "open" /\ clock' = [s \in Sides |-> Host!Entered(clock[s])]
  BY DEF OpenPortal
<1>2. clock \in [Sides -> Host!Readings] /\ "defender" \in Sides
  BY DEF Timed, Typed, TypeOK, Sides
<1>3. \A r \in Sides : /\ clock[r].mode = "world" /\ clock'[r].mode = "engagement"
                        /\ clock'[r].engagementTick = 0
                        /\ Moves(r)
  BY <1>1, <1>2, ClockSteps DEF Timed, ClocksOfTheRaid, Moves
<1> QED BY <1>1, <1>2, <1>3 DEF ClocksOfTheRaid, WorldStandsStill, Tick

LEMMA StepTimed ==
  ASSUME Timed, Step
  PROVE  ClocksOfTheRaid' /\ WorldStandsStill /\ \A r \in Sides : Moves(r)
<1>1. /\ stage = "fighting" /\ stage' \in {"ended", "fighting"}
      /\ clock' = [s \in Sides |-> Host!Advanced(clock[s])]
  BY StepFacts DEF Timed, Typed
<1>2. clock \in [Sides -> Host!Readings] /\ "defender" \in Sides
  BY DEF Timed, Typed, TypeOK, Sides
<1>3. \A r \in Sides : /\ clock[r].mode = "engagement" /\ clock'[r].mode = "engagement"
                        /\ clock'[r].engagementTick = clock[r].engagementTick + 1
                        /\ clock'[r].worldTick = clock[r].worldTick
                        /\ Moves(r)
  BY <1>1, <1>2, ClockSteps DEF Timed, ClocksOfTheRaid, Moves
<1> QED BY <1>1, <1>3 DEF ClocksOfTheRaid, WorldStandsStill

LEMMA CloseTimed ==
  ASSUME Timed, ClosePortal
  PROVE  ClocksOfTheRaid' /\ WorldStandsStill /\ \A r \in Sides : Moves(r)
<1>1. /\ stage = "applied" /\ stage' = "peace" /\ clock' = Released
  BY DEF ClosePortal
<1>2. clock \in [Sides -> Host!Readings] /\ "defender" \in Sides
  BY DEF Timed, Typed, TypeOK, Sides
<1>3. \A r \in Sides : clock'[r] = Host!Left(clock[r])
  BY <1>1, ReleaseTyped DEF Timed, Typed
<1>4. \A r \in Sides : /\ clock[r].mode = "engagement" /\ clock'[r].mode = "world"
                        /\ clock'[r].engagementTick = 0
                        /\ clock'[r].worldTick = clock[r].worldTick
                        /\ Moves(r)
  BY <1>1, <1>2, <1>3, ClockSteps DEF Timed, ClocksOfTheRaid, Moves
<1> QED BY <1>1, <1>2, <1>4 DEF ClocksOfTheRaid, WorldStandsStill, Tick

\* The steps between: no clock moves.
LEMMA StillTimed ==
  ASSUME Timed, UNCHANGED clock,
         \/ stage' = stage
         \/ stage # "peace" /\ stage' \in {"fighting", "ended", "resolved", "applied"}
  PROVE  ClocksOfTheRaid'
BY DEF Timed, ClocksOfTheRaid, Tick

LEMMA TimedStep ==
  ASSUME Timed, [Next]_vars
  PROVE  Timed' /\ WorldStandsStill /\ \A r \in Sides : Moves(r)
<1>1. Typed'
  BY TypedStep DEF Timed
<1>2. UNCHANGED clock => WorldStandsStill /\ \A r \in Sides : Moves(r)
  BY DEF WorldStandsStill, Moves
<1>3. CASE (\E s \in Sides : WorldTick(s)) \/ OpenPortal \/ Step \/ ClosePortal
  BY <1>1, <1>3, WorldTickTimed, OpenTimed, StepTimed, CloseTimed DEF Timed
<1>4. CASE Directive \/ UNCHANGED vars
  <2>1. UNCHANGED <<clock, stage>>
    BY <1>4 DEF Directive, ChangeRule, Levy, Mend, Shield, worlds, vars
  <2> QED BY <1>1, <1>2, <2>1, StillTimed DEF Timed
<1>5. CASE DeployRaid \/ Resolve \/ ApplyOutcome
  <2>1. /\ UNCHANGED clock /\ stage # "peace"
        /\ stage' \in {"fighting", "ended", "resolved", "applied"}
    BY <1>5 DEF DeployRaid, Resolve, ApplyOutcome, worlds
  <2> QED BY <1>1, <1>2, <2>1, StillTimed DEF Timed
<1> QED BY <1>3, <1>4, <1>5 DEF Next, Driver

LEMMA InitTimed == Init => Timed
BY InitTyped, NumbersAssumption DEF Init, Timed, ClocksOfTheRaid, Tick, Sides

\* Each universe's clock is a clock as sim-core means it, and world time
\* stands still in both while a raid is fought: the detailed system, whatever
\* its raids do, implements two of the abstract clocks.
THEOREM ClocksHold == Spec => ClocksAreKept
<1>1. Init => Attacker!Init /\ Host!Init
  BY DEF Init, Attacker!Init, Host!Init, Sides
<1>2. Timed /\ [Next]_vars => [Attacker!Next]_(clock["attacker"])
  BY TimedStep DEF Moves, Sides, Attacker!Next, Attacker!Advance, Attacker!Enter, Attacker!Leave,
     Attacker!MayEnter, Attacker!MayLeave, Attacker!Advanced, Attacker!Entered, Attacker!Left,
     Host!Advanced, Host!Entered, Host!Left
<1>3. Timed /\ [Next]_vars => [Host!Next]_(clock["defender"])
  BY TimedStep DEF Moves, Sides, Host!Next, Host!Advance, Host!Enter, Host!Leave,
     Host!MayEnter, Host!MayLeave, Host!Advanced, Host!Entered, Host!Left
<1>4. Timed /\ [Next]_vars => [stage # "peace" =>
          \A s \in Sides : clock'[s].worldTick = clock[s].worldTick]_vars
  BY TimedStep DEF WorldStandsStill
<1>5. Timed /\ [Next]_vars => Timed'
  BY TimedStep
<1> QED BY <1>1, <1>2, <1>3, <1>4, <1>5, InitTimed, PTL
  DEF Spec, ClocksAreKept, Attacker!Spec, Host!Spec

-----------------------------------------------------------------------------
(* How long a raid lasts.  maxEngagementTicks is asked for a number of     *)
(* ticks before the first of them is stepped.                              *)

\* A portal that opens with stability for n ticks has it for n - Tick more.
BoundedBy(n) ==
  /\ stage = "peace" => stability = 0
  /\ stage = "open" => stability <= n * Decay
  /\ stage = "fighting" => stability > 0 /\ stability <= (n - Tick) * Decay
  /\ Tick <= n
  /\ Tick = n => stability = 0

\* A raid of n more ticks at most is one of n - 1 after the next.
LEMMA Shorter ==
  ASSUME NEW n \in Int, NEW d \in Nat
  PROVE  /\ n * d \in Int /\ n * d - d = (n - 1) * d
         /\ n <= 0 => n * d <= 0
         /\ n = 1 => n * d = d
OBVIOUS

LEMMA OpenBounded ==
  ASSUME Timed, NEW N \in Nat, \A s \in Stabilities : s <= N * Decay, OpenPortal
  PROVE  BoundedBy(N)'
<1>1. stage' = "open" /\ stability' \in Stabilities /\ Tick' = 0
  BY OpenTimed DEF OpenPortal, ClocksOfTheRaid
<1>2. N = 0 => N * Decay = 0
  BY NumbersAssumption
<1>3. stability' \in Nat /\ stability' <= N * Decay
  BY <1>1, NumbersAssumption
<1> QED BY <1>1, <1>2, <1>3 DEF BoundedBy

LEMMA DeployBounded ==
  ASSUME Timed, NEW N \in Nat, BoundedBy(N), DeployRaid
  PROVE  BoundedBy(N)'
<1>1. /\ stage = "open" /\ stage' \in {"ended", "fighting"} /\ UNCHANGED <<clock, stability>>
      /\ stage' = IF TerminationOf(0, stability, roster' \cap Of("attacker"))
                  THEN "ended" ELSE "fighting"
  BY DEF DeployRaid, worlds
<1>2. Tick' = Tick /\ Tick = 0 /\ stability <= N * Decay /\ stability \in Nat /\ N - Tick = N
  BY <1>1 DEF Timed, ClocksOfTheRaid, BoundedBy, Typed, TypeOK, Tick
<1>3. stage' = "fighting" => stability # 0
  BY <1>1 DEF TerminationOf
<1> QED BY <1>1, <1>2, <1>3 DEF BoundedBy

LEMMA StepBounded ==
  ASSUME Timed, NEW N \in Nat, BoundedBy(N), Step
  PROVE  BoundedBy(N)'
<1>1. /\ stage = "fighting" /\ stage' \in {"ended", "fighting"}
      /\ clock' = [s \in Sides |-> Host!Advanced(clock[s])]
      /\ stability' = Less(stability, Decay)
      /\ stage' = "fighting" => stability' # 0
  BY StepFacts DEF Timed, Typed
<1>2. Tick' = Tick + 1 /\ Tick \in Nat
  <2>1. clock["defender"] \in Host!Readings /\ clock["defender"].mode = "engagement"
    BY <1>1 DEF Timed, Typed, TypeOK, ClocksOfTheRaid, Sides
  <2>2. clock'["defender"] = Host!Advanced(clock["defender"])
    BY <1>1 DEF Sides
  <2>3. Host!Advanced(clock["defender"]).engagementTick = clock["defender"].engagementTick + 1
    BY <2>1, ClockSteps
  <2>4. Tick \in Nat
    BY TickIsNat DEF Timed, Typed
  <2> QED BY <2>2, <2>3, <2>4 DEF Tick
<1> DEFINE left == N - Tick
<1>3. /\ stability \in Nat /\ stability > 0 /\ stability <= left * Decay
      /\ Decay \in Nat \ {0} /\ left \in Int
  BY <1>1, <1>2, NumbersAssumption DEF BoundedBy, Timed, Typed, TypeOK
<1>4. /\ left * Decay \in Int /\ left * Decay - Decay = (left - 1) * Decay
      /\ left <= 0 => left * Decay <= 0
      /\ left = 1 => left * Decay = Decay
  BY <1>3, Shorter
<1>5. left >= 1 /\ N - Tick' = left - 1
  BY <1>2, <1>3, <1>4
<1>6. Tick' <= N /\ (Tick' = N => stability' = 0)
  <2>1. Tick' = N => left = 1
    BY <1>2
  <2>2. left = 1 => stability' = 0
    BY <1>1, <1>3, <1>4 DEF Less
  <2> QED BY <1>2, <1>5, <2>1, <2>2
<1>7. stability' # 0 => stability' > 0 /\ stability' <= (N - Tick') * Decay
  <2>1. stability' # 0 => stability' = stability - Decay /\ stability' > 0
    BY <1>1, <1>3 DEF Less
  <2>2. (N - Tick') * Decay = left * Decay - Decay
    BY <1>4, <1>5
  <2> HIDE DEF left
  <2> QED BY <1>3, <1>4, <2>1, <2>2
<1> QED BY <1>1, <1>6, <1>7 DEF BoundedBy

\* maxEngagementTicks bounds the raid: one whose stability is spent in N ticks
\* takes no more, whatever is done on either side, and where it takes them all
\* its portal has collapsed.  So a raid that meets MAX_ENGAGEMENT_TICKS is one
\* whose own bound equals it, and its decrement ran in every tick.
THEOREM PortalBoundsTheRaid ==
  ASSUME NEW N \in Nat, \A s \in Stabilities : s <= N * Decay
  PROVE  Spec => [](Tick <= N /\ (Tick = N => stability = 0))
<1> DEFINE Goal == Tick <= N /\ (Tick = N => stability = 0)
           Held == Timed /\ BoundedBy(N)
<1>1. Init => Held
  BY InitTimed DEF Init, BoundedBy, Timed, ClocksOfTheRaid
<1>2. Held /\ [Next]_vars => Held'
  <2> SUFFICES ASSUME Held, [Next]_vars PROVE BoundedBy(N)'
    BY TimedStep
  <2>1. CASE OpenPortal \/ DeployRaid \/ Step
    BY <2>1, OpenBounded, DeployBounded, StepBounded
  <2>2. CASE (\E s \in Sides : WorldTick(s)) \/ ClosePortal
    <3>1. stage' = "peace" /\ stability' = 0
      BY <2>2 DEF WorldTick, ClosePortal, field, BoundedBy
    <3>2. Tick' = 0
      BY <3>1, TimedStep DEF Timed, ClocksOfTheRaid
    <3> QED BY <3>1, <3>2 DEF BoundedBy
  <2>3. CASE Directive \/ UNCHANGED vars
    <3>1. UNCHANGED <<clock, stage, stability>>
      BY <2>3 DEF Directive, ChangeRule, Levy, Mend, Shield, worlds, field, vars
    <3> QED BY <3>1 DEF BoundedBy, Tick
  <2>4. CASE Resolve \/ ApplyOutcome
    <3>1. /\ UNCHANGED <<clock, stability>> /\ stage \in {"ended", "resolved"}
          /\ stage' \in {"resolved", "applied"}
      BY <2>4 DEF Resolve, ApplyOutcome, worlds, field
    <3> QED BY <3>1 DEF BoundedBy, Tick
  <2> QED BY <2>1, <2>2, <2>3, <2>4 DEF Next, Driver
<1>3. Held => Goal
  BY DEF BoundedBy
<1> HIDE DEF Held, Goal
<1>4. Spec => []Goal
  BY <1>1, <1>2, <1>3, PTL DEF Spec
<1> QED BY <1>4 DEF Goal

-----------------------------------------------------------------------------
(* While the raid is fought.                                               *)

\* A phase is only left for a later one: its conditions, once met, stay met.
LEMMA PhaseRises ==
  ASSUME TypeOK, TypeOK', Tick <= Tick', contact => contact',
         held' \subseteq held, taken \subseteq taken'
  PROVE  Phase <= Phase'
<1>1. /\ Tick \in Nat /\ Tick' \in Nat /\ ResolutionOnset \in Nat /\ MusterCeiling \in Nat
      /\ contact \in BOOLEAN /\ contact' \in BOOLEAN
  BY TickIsNat, NumbersAssumption DEF TypeOK, Tick, Sides, Host!Readings
<1>2. AllObjectivesResolved => AllObjectivesResolved'
  BY DEF AllObjectivesResolved
<1>3. CASE Tick >= ResolutionOnset \/ AllObjectivesResolved
  <2>1. Tick' >= ResolutionOnset \/ AllObjectivesResolved'
    BY <1>1, <1>2, <1>3
  <2> QED BY <1>3, <2>1 DEF Phase
<1>4. CASE ~(Tick >= ResolutionOnset \/ AllObjectivesResolved) /\ ~contact /\ Tick < MusterCeiling
  BY <1>4 DEF Phase
<1>5. CASE ~(Tick >= ResolutionOnset \/ AllObjectivesResolved) /\ ~(~contact /\ Tick < MusterCeiling)
  <2>1. ~(~contact' /\ Tick' < MusterCeiling)
    BY <1>1, <1>5
  <2> QED BY <1>5, <2>1 DEF Phase
<1> QED BY <1>3, <1>4, <1>5

NothingUndone ==
  stage = "fighting" =>
       /\ \A c \in roster \ Standing :
            /\ c \notin Standing'
            /\ hp'[c] = hp[c]
            /\ c \in Mages => vigor'[c] = vigor[c] /\ stolen'[c] = stolen[c]
       /\ taken \subseteq taken'
       /\ Phase <= Phase'

\* Who has fallen or left stays so when nobody who is out of it is healed.
LEMMA OutStayOut ==
  ASSUME TypeOK, NEW c \in roster \ Standing, hp'[c] = hp[c], withdrawn \subseteq withdrawn'
  PROVE  c \notin Standing'
BY DEF Standing, IsAlive

LEMMA StepUndoesNothing ==
  ASSUME Timed, Step
  PROVE  NothingUndone
<1>1. TypeOK /\ TypeOK'
  BY TimedStep DEF Timed, Typed, Next, Driver
<1>2. /\ \A c \in roster \ Standing : hp'[c] = hp[c]
      /\ \A m \in Mages \ Standing : vigor'[m] = vigor[m] /\ stolen'[m] = stolen[m]
      /\ withdrawn \subseteq withdrawn' /\ taken \subseteq taken' /\ held' \subseteq held
      /\ contact => contact'
      /\ clock' = [s \in Sides |-> Host!Advanced(clock[s])] /\ stage = "fighting"
  BY <1>1, StepFacts
<1>3. Tick <= Tick'
  <2>1. clock["defender"] \in Host!Readings /\ clock["defender"].mode = "engagement"
        /\ "defender" \in Sides
    BY <1>1, <1>2 DEF TypeOK, Timed, ClocksOfTheRaid, Sides
  <2>2. Tick' = Tick + 1
    BY <1>2, <2>1, ClockSteps DEF Tick
  <2> QED BY <1>1, <2>2, TickIsNat
<1>4. Phase <= Phase'
  BY <1>1, <1>2, <1>3, PhaseRises
<1>5. \A c \in roster \ Standing : c \notin Standing'
  BY <1>1, <1>2, OutStayOut
<1> QED BY <1>2, <1>4, <1>5 DEF NothingUndone

LEMMA DirectiveUndoesNothing ==
  ASSUME Timed, Directive
  PROVE  NothingUndone
<1>1. TypeOK /\ TypeOK'
  BY TimedStep DEF Timed, Typed, Next
<1>2. UNCHANGED <<clock, contact, held, taken, vigor, stolen, withdrawn>>
  BY DEF Directive, ChangeRule, Levy, Mend, Shield, worlds, bodies, field
<1>3. ASSUME NEW c \in roster \ Standing PROVE hp'[c] = hp[c]
  <2>1. CASE Mend
    BY <1>1, <2>1 DEF Mend, TypeOK
  <2>2. CASE Levy
    <3>1. PICK s \in WardenSquads \ roster : hp' = [hp EXCEPT ![s] = Body[s]]
      BY <1>1, <2>2, LevyFacts
    <3> QED BY <1>1, <3>1 DEF TypeOK
  <2>3. CASE ~Mend /\ ~Levy
    BY <2>3 DEF Directive, ChangeRule, Shield, bodies
  <2> QED BY <2>1, <2>2, <2>3
<1>4. Tick <= Tick'
  BY <1>1, <1>2, TickIsNat DEF Tick
<1>5. Phase <= Phase'
  BY <1>1, <1>2, <1>4, PhaseRises
<1>6. \A c \in roster \ Standing : c \notin Standing'
  BY <1>1, <1>2, <1>3, OutStayOut
<1> QED BY <1>2, <1>3, <1>5, <1>6 DEF NothingUndone

\* Nobody who fell or left takes part again, nothing raises the fallen, an
\* objective taken stays taken, and no phase comes back.
THEOREM NothingComesBack == Spec => NothingIsUndone
<1>1. ASSUME Timed, [Next]_vars PROVE [NothingUndone]_vars
  <2>1. CASE Step
    BY <2>1, <1>1, StepUndoesNothing
  <2>2. CASE Directive
    BY <2>2, <1>1, DirectiveUndoesNothing
  <2>3. CASE ~Step /\ ~Directive
    BY <2>3, <1>1 DEF Next, Driver, WorldTick, OpenPortal, DeployRaid, Resolve, ApplyOutcome,
       ClosePortal, NothingUndone
  <2> QED BY <2>1, <2>2, <2>3
<1>2. Timed /\ [Next]_vars => Timed'
  BY TimedStep
<1>3. Timed /\ [Next]_vars => [stage = "fighting" =>
       /\ \A c \in roster \ Standing :
            /\ c \notin Standing'
            /\ hp'[c] = hp[c]
            /\ c \in Mages => vigor'[c] = vigor[c] /\ stolen'[c] = stolen[c]
       /\ taken \subseteq taken'
       /\ Phase <= Phase']_vars
  BY <1>1 DEF NothingUndone
<1> QED BY <1>2, <1>3, InitTimed, PTL DEF Spec, NothingIsUndone

-----------------------------------------------------------------------------
(* Stocks.  A levied detachment is always a whole one, so what is lent     *)
(* from a cohort is the sum the levy's own guard compares.                 *)

Folk == <<"defender", "folk">>

StocksOfTheRaid ==
  /\ stage \in {"fighting", "ended", "resolved"} => \A g \in Cohorts : Bill(g, roster) <= people[g]
  /\ \A s \in roster \cap Squads : origin[s] = Folk => size[s] = Strength
  /\ stage # "applied" => spent["defender"] <= favor
  /\ spent["attacker"] <= Vis

Stocked == Typed /\ StocksOfTheRaid

\* What is lent depends on the squads raised from the cohort and on nothing else.
LEMMA SameBill ==
  ASSUME NEW g,
         {s \in roster' \cap Squads : origin'[s] = g} = {s \in roster \cap Squads : origin[s] = g},
         \A s \in roster \cap Squads : origin[s] = g => size'[s] = size[s],
         people' = people
  PROVE  (Bill(g, roster))' = Bill(g, roster)
<1> DEFINE of == {s \in roster \cap Squads : origin[s] = g}
<1>1. {s \in of : size'[s] = Strength} = {s \in of : size[s] = Strength}
  OBVIOUS
<1>2. (\E s \in of : size'[s] # Strength) <=> (\E s \in of : size[s] # Strength)
  OBVIOUS
<1> QED BY <1>1, <1>2 DEF Bill

LEMMA DeployStocked ==
  ASSUME Stocked, DeployRaid
  PROVE  StocksOfTheRaid'
<1>1. PICK called \in SUBSET Squads, strength \in [Squads -> 0 .. Strength] :
        /\ \A s \in Sides : Drawn(s, people[<<s, "soldiers">>], called \cap SquadsOf(s), strength)
        /\ roster' = (Mages \cap living) \cup called
        /\ size' = strength
        /\ origin' = [s \in Squads |->
             IF s \in called THEN <<SideOf(s), "soldiers">> ELSE Unraised]
  BY DEF DeployRaid
<1>2. UNCHANGED <<people, favor, spent>> /\ stage = "open"
  BY DEF DeployRaid, worlds, gods
<1>3. roster' \cap Squads = called
  BY <1>1, HandlesAssumption DEF Typed, TypeOK
<1>4. \A s \in called : origin'[s] # Folk
  BY <1>1 DEF Folk
<1>5. ASSUME NEW g \in Cohorts PROVE (Bill(g, roster))' <= people[g]
  <2> DEFINE of == {s \in called : origin'[s] = g}
             full == {s \in of : strength[s] = Strength}
  <2>1. (Bill(g, roster))' = Strength * Cardinality(full)
          + (IF \E s \in of : strength[s] # Strength THEN people[g] % Strength ELSE 0)
    <3>1. {s \in roster' \cap Squads : origin'[s] = g} = of
      BY <1>3
    <3>2. {s \in of : size'[s] = Strength} = full
      BY <1>1
    <3> QED BY <1>1, <1>2, <3>1, <3>2 DEF Bill
  <2>2. people[g] \in Nat /\ Strength \in Nat \ {0}
    BY NumbersAssumption DEF Stocked, Typed, TypeOK
  <2>3. CASE \E side \in Sides : g = <<side, "soldiers">>
    <3>1. PICK side \in Sides : g = <<side, "soldiers">>
      BY <2>3
    <3>2. of = called \cap SquadsOf(side)
      BY <1>1, <3>1, HandlesAssumption DEF SideOf, Of, SquadsOf, Sides, Squads, Mages
    <3> DEFINE whole == Smaller(people[g] \div Strength, Cardinality(SquadsOf(side)))
               rest == people[g] - whole * Strength
    <3>3. /\ Cardinality(full) = whole
          /\ \A s \in of \ full : strength[s] = rest
          /\ of \ full # {} => rest \in 1 .. Strength - 1
      BY <1>1, <3>1, <3>2 DEF Drawn
    <3>4. SquadsOf(side) \in SUBSET Combatants
      BY DEF SquadsOf, Combatants, Squads
    <3>5. whole \in Nat /\ whole <= people[g] \div Strength
      <4>1. Cardinality(SquadsOf(side)) \in Nat
        BY <3>4, FewCombatants
      <4>2. people[g] \div Strength \in Nat
        BY <2>2
      <4> QED BY <4>1, <4>2 DEF Smaller
    <3>6. /\ Strength * whole <= people[g]
          /\ rest \in 1 .. Strength - 1 => Strength * whole + (people[g] % Strength) <= people[g]
      BY <2>2, <3>5, WholesFit
    <3>7. (\E s \in of : strength[s] # Strength) => rest \in 1 .. Strength - 1
      BY <3>3
    <3> HIDE DEF whole, rest, full, of
    <3>8. CASE \E s \in of : strength[s] # Strength
      BY <2>1, <3>3, <3>6, <3>7, <3>8
    <3>9. CASE ~\E s \in of : strength[s] # Strength
      <4>1. Strength * whole \in Nat
        BY <2>2, <3>5
      <4> QED BY <2>1, <3>3, <3>6, <3>9, <4>1
    <3> QED BY <3>8, <3>9
  <2>4. CASE ~\E side \in Sides : g = <<side, "soldiers">>
    <3>1. of = {}
      BY <1>1, <2>4 DEF SideOf, Sides
    <3>2. Cardinality(full) = 0
      BY <3>1, FS_EmptySet
    <3>3. ~\E s \in of : strength[s] # Strength
      BY <3>1
    <3> HIDE DEF full, of
    <3> QED BY <2>1, <2>2, <3>2, <3>3
  <2> QED BY <2>3, <2>4
<1> QED BY <1>2, <1>3, <1>4, <1>5 DEF Stocked, StocksOfTheRaid

\* A debit is made against a purse that covers it.
LEMMA DebitCovered ==
  ASSUME TypeOK, NEW side \in Sides, NEW verb \in Verbs, Debit(side, verb),
         Cost[verb] <= Purse(side), favor' = favor,
         spent["defender"] <= favor, spent["attacker"] <= Vis
  PROVE  spent'["defender"] <= favor' /\ spent'["attacker"] <= Vis
<1>1. /\ Cost[verb] \in Nat /\ favor \in Nat /\ Vis \in Nat
      /\ spent["defender"] \in Nat /\ spent["attacker"] \in Nat
  BY NumbersAssumption DEF TypeOK, Sides
<1>2. CASE side = "attacker"
  BY <1>1, <1>2 DEF Debit, Purse, TypeOK, Sides
<1>3. CASE side = "defender"
  BY <1>1, <1>3 DEF Debit, Purse, TypeOK, Sides
<1> QED BY <1>2, <1>3 DEF Sides

\* What a directive other than a levy leaves of the purses and the squads.
LEMMA DirectiveStocked ==
  ASSUME Stocked, Directive, ~Levy
  PROVE  StocksOfTheRaid'
<1>1. PICK side \in Sides, verb \in Verbs : Debit(side, verb) /\ Cost[verb] <= Purse(side)
  BY DEF Directive, ChangeRule, Mend, Shield, MayDirect, Sides, Verbs
<1>2. stage = "fighting" /\ UNCHANGED <<stage, people, favor, roster, origin, size>>
  BY DEF Directive, ChangeRule, Mend, Shield, MayDirect, worlds, bodies
<1>3. spent'["defender"] <= favor' /\ spent'["attacker"] <= Vis
  BY <1>1, <1>2, DebitCovered DEF Stocked, StocksOfTheRaid, Typed
<1>4. \A g \in Cohorts : (Bill(g, roster))' = Bill(g, roster)
  BY <1>2, SameBill
<1> QED BY <1>2, <1>3, <1>4 DEF Stocked, StocksOfTheRaid

LEMMA LevyStocked ==
  ASSUME Stocked, Levy
  PROVE  StocksOfTheRaid'
<1>1. /\ stage = "fighting" /\ UNCHANGED <<stage, people, favor>>
      /\ Debit("defender", "levy") /\ Cost["levy"] <= Purse("defender")
      /\ people[Folk] >= Committed + Strength
  BY DEF Levy, MayDirect, worlds, Folk
<1>2. spent'["defender"] <= favor' /\ spent'["attacker"] <= Vis
  BY <1>1, DebitCovered DEF Stocked, StocksOfTheRaid, Typed, Sides, Verbs
<1>3. PICK s \in WardenSquads \ roster :
           /\ s \in Squads
           /\ roster' = roster \cup {s}
           /\ origin' = [origin EXCEPT ![s] = Folk]
           /\ size' = [size EXCEPT ![s] = Strength]
  BY LevyFacts DEF Stocked, Typed, Folk
<1>4. origin \in [Squads -> Origins] /\ size \in [Squads -> 0 .. Strength] /\ roster \subseteq Combatants
      /\ Strength \in Nat \ {0}
  BY NumbersAssumption DEF Stocked, Typed, TypeOK
<1>5. /\ origin'[s] = Folk /\ size'[s] = Strength
      /\ \A r \in Squads \ {s} : origin'[r] = origin[r] /\ size'[r] = size[r]
  BY <1>3, <1>4
<1>6. \A r \in roster' \cap Squads : origin'[r] = Folk => size'[r] = Strength
  BY <1>3, <1>5 DEF Stocked, StocksOfTheRaid
<1>7. ASSUME NEW g \in Cohorts, g # Folk
      PROVE  (Bill(g, roster))' = Bill(g, roster)
  <2>1. {r \in roster' \cap Squads : origin'[r] = g} = {r \in roster \cap Squads : origin[r] = g}
    BY <1>3, <1>5, <1>7
  <2>2. \A r \in roster \cap Squads : size'[r] = size[r]
    BY <1>3, <1>5
  <2> QED BY <1>1, <2>1, <2>2, SameBill
<1>8. (Bill(Folk, roster))' <= people[Folk]
  <2> DEFINE lent == {r \in roster \cap Squads : origin[r] = Folk}
  <2>1. {r \in roster' \cap Squads : origin'[r] = Folk} = lent \cup {s}
    BY <1>3, <1>5
  <2>2. \A r \in lent \cup {s} : size'[r] = Strength
    BY <1>5, <1>6, <2>1
  <2>3. {r \in lent \cup {s} : size'[r] = Strength} = lent \cup {s}
    BY <2>2
  <2>4. (Bill(Folk, roster))' = Strength * Cardinality(lent \cup {s}) + 0
    BY <2>1, <2>2, <2>3 DEF Bill
  <2>5. IsFiniteSet(lent) /\ s \notin lent /\ Cardinality(lent) \in Nat
    <3>1. lent \in SUBSET Combatants
      BY DEF Combatants
    <3> QED BY <1>3, <3>1, FewCombatants
  <2>6. Cardinality(lent \cup {s}) = Cardinality(lent) + 1
    BY <2>5, FS_AddElement
  <2>7. Committed = Strength * Cardinality(lent)
    BY DEF Committed, Folk
  <2>8. Strength * (Cardinality(lent) + 1) = Strength * Cardinality(lent) + Strength
        /\ Strength * Cardinality(lent) \in Nat
    BY <1>4, <2>5
  <2>9. people[Folk] \in Nat
    BY DEF Stocked, Typed, TypeOK, Folk, Cohorts, Sides, Trades
  <2> HIDE DEF lent
  <2> QED BY <1>1, <1>4, <2>4, <2>6, <2>7, <2>8, <2>9
<1> QED BY <1>1, <1>2, <1>6, <1>7, <1>8 DEF Stocked, StocksOfTheRaid

\* A summon is nobody's cohort.
LEMMA StepStocked ==
  ASSUME Stocked, Step
  PROVE  StocksOfTheRaid'
<1>1. PICK risen \in SUBSET (Squads \ roster) :
        /\ roster' = roster \cup risen
        /\ origin' = [s \in Squads |-> IF s \in risen THEN Conjured ELSE origin[s]]
  BY StepFacts DEF Stocked, Typed
<1>2. stage = "fighting" /\ stage' \in {"fighting", "ended"} /\ UNCHANGED <<people, favor, size, spent>>
  BY StepFacts DEF Stocked, Typed, gods
<1>3. \A g \in Cohorts : g # Conjured
  BY DEF Cohorts, Conjured, Sides
<1>4. \A g \in Cohorts : {r \in roster' \cap Squads : origin'[r] = g} = {r \in roster \cap Squads : origin[r] = g}
  BY <1>1, <1>3
<1>5. \A g \in Cohorts : (Bill(g, roster))' = Bill(g, roster)
  BY <1>2, <1>4, SameBill
<1>6. Folk \in Cohorts
  BY DEF Folk, Cohorts, Sides, Trades
<1>7. \A s \in roster' \cap Squads : origin'[s] = Folk => size'[s] = Strength
  BY <1>2, <1>4, <1>6 DEF Stocked, StocksOfTheRaid
<1> QED BY <1>2, <1>5, <1>7 DEF Stocked, StocksOfTheRaid

LEMMA StockedStep == Stocked /\ [Next]_vars => Stocked'
<1> SUFFICES ASSUME Stocked, [Next]_vars PROVE StocksOfTheRaid'
  BY TypedStep DEF Stocked
<1>1. CASE (\E s \in Sides : WorldTick(s)) \/ OpenPortal
  <2>1. /\ stage' \in {"peace", "open"} /\ stage = "peace" /\ UNCHANGED <<favor, spent, bodies>>
    BY <1>1 DEF WorldTick, OpenPortal, gods
  <2> QED BY <2>1 DEF Stocked, StocksOfTheRaid, bodies
<1>2. CASE Directive
  BY <1>2, DirectiveStocked, LevyStocked
<1>3. CASE DeployRaid \/ Step
  BY <1>3, DeployStocked, StepStocked
<1>4. CASE Resolve \/ UNCHANGED vars
  <2>1. /\ UNCHANGED <<people, favor, spent, roster, origin, size>>
        /\ stage' = stage \/ (stage = "ended" /\ stage' = "resolved")
    BY <1>4 DEF Resolve, worlds, bodies, gods, vars
  <2>2. \A g \in Cohorts : (Bill(g, roster))' = Bill(g, roster)
    BY <2>1, SameBill
  <2> QED BY <2>1, <2>2 DEF Stocked, StocksOfTheRaid
<1>5. CASE ApplyOutcome
  BY <1>5 DEF ApplyOutcome, Stocked, StocksOfTheRaid, bodies, gods
<1>6. CASE ClosePortal
  <2>1. /\ roster' = {} /\ spent' = [s \in Sides |-> 0] /\ stage' = "peace" /\ favor' = favor
    BY <1>6 DEF ClosePortal
  <2> QED BY <2>1, NumbersAssumption DEF Stocked, Typed, TypeOK, StocksOfTheRaid, Sides
<1> QED BY <1>1, <1>2, <1>3, <1>4, <1>5, <1>6 DEF Next, Driver

\* No cohort lends more people than it has and no god spends more than its
\* stock, so the write-back's clamps at zero never forgive a debt.
THEOREM NothingOverdrawn == Spec => []NothingIsOverdrawn
<1>1. Init => Stocked
  BY InitTyped, NumbersAssumption DEF Init, Stocked, StocksOfTheRaid, Sides
<1>2. Stocked => NothingIsOverdrawn
  BY DEF Stocked, StocksOfTheRaid, NothingIsOverdrawn, Engaged
<1> QED BY <1>1, <1>2, StockedStep, PTL DEF Spec
=============================================================================
