---------------------------- MODULE Lobby_proofs ----------------------------
(***************************************************************************)
(* The lobby, for every number of universes, every bubble size and however *)
(* requests and ticks interleave.  A legacy is paid once: the invariant    *)
(* adds that an identity that is not used yet is neither hosted nor an     *)
(* heir.  Everybody is placed and no seat is left open: what match makes   *)
(* of a queue is followed turn by turn (Outcome), from the eviction to the *)
(* late ones' second try, by induction on the place in the queue.          *)
(***************************************************************************)
EXTENDS Lobby, Recurrences, FiniteSetTheorems, TLAPS

Statuses == {"unused", "running", "ended", "abandoned"}

Typed ==
  /\ universes \subseteq Ids
  /\ status \in [Ids -> Statuses]
  /\ carried \in [Ids -> Ids \union {NoUniverse}]

\* An unused identity is not hosted, and carries nothing.
UnusedAreBlank ==
  \A u \in Ids : status[u] = "unused" => u \notin universes /\ carried[u] = NoUniverse

LegacyInv == Typed /\ UnusedAreBlank /\ LegacyIsPaidOnce

LEMMA NoUniverseIsNoId == NoUniverse \notin Ids
  BY DEF NoUniverse, Ids

\* At the start there is no universe, and so no heir.
LEMMA InitLegacy == Init => LegacyInv
  BY DEF Init, LegacyInv, Typed, Statuses, UnusedAreBlank, LegacyIsPaidOnce, NoUniverse, Ids

\* Creating a universe: the one retired goes in the same step as its legacy
\* is read, and nobody can have read it before.
LEMMA CreateLegacy ==
  ASSUME LegacyInv, NEW u \in Ids, NEW retire \in universes \union {NoUniverse},
         Create(u, retire)
  PROVE  LegacyInv'
<1> DEFINE stay == universes \ Retired(retire)
           kept == universes \ (Retired(retire) \union Displaced(stay))
<1>1. /\ universes' = kept \union {u}
      /\ status' = [status EXCEPT ![u] = "running"]
      /\ carried' = [carried EXCEPT ![u] = Legacy(retire)]
      /\ status[u] = "unused"
  BY DEF Create, Fresh
<1>2. Typed /\ UnusedAreBlank /\ LegacyIsPaidOnce
  BY DEF LegacyInv
<1>3. Legacy(retire) \in Ids \union {NoUniverse}
  BY <1>2 DEF Legacy, Typed
<1>4. Typed'
  BY <1>1, <1>2, <1>3 DEF Typed, Statuses
<1>5. UnusedAreBlank'
  BY <1>1, <1>2 DEF UnusedAreBlank, Typed
<1>6. kept \subseteq universes
  OBVIOUS
<1>7. ASSUME Legacy(retire) # NoUniverse
      PROVE  /\ Legacy(retire) = retire /\ retire \in universes
             /\ status[retire] = "ended" /\ retire \notin kept
  BY <1>7 DEF Legacy, Retired
<1>8. LegacyIsPaidOnce'
  <2> SUFFICES ASSUME NEW v \in Ids, carried'[v] # NoUniverse
               PROVE  /\ status'[carried'[v]] = "ended" /\ carried'[v] \notin universes'
                      /\ \A x \in Ids : carried'[x] = carried'[v] => x = v
    BY DEF LegacyIsPaidOnce
  <2>1. CASE v = u
    <3>1. carried'[v] = retire /\ retire \in universes /\ retire # u
      BY <2>1, <1>1, <1>2, <1>7 DEF Typed
    <3>2. status'[retire] = "ended" /\ retire \notin universes'
      BY <2>1, <3>1, <1>1, <1>2, <1>7 DEF Typed
    <3>3. ASSUME NEW x \in Ids, carried'[x] = retire
          PROVE  x = u
      BY <3>1, <3>3, <1>1, <1>2, NoUniverseIsNoId DEF LegacyIsPaidOnce, Typed
    <3> QED BY <3>1, <3>2, <3>3, <2>1
  <2>2. CASE v # u
    <3>1. carried'[v] = carried[v]
      BY <2>2, <1>1, <1>2 DEF Typed
    <3>2. status[carried[v]] = "ended" /\ carried[v] \notin universes /\ carried[v] \in Ids
      BY <3>1, <1>2 DEF LegacyIsPaidOnce, Typed
    <3>3. status'[carried[v]] = "ended" /\ carried[v] \notin universes'
      BY <3>2, <1>1, <1>2, <1>6 DEF Typed
    <3>4. ASSUME NEW x \in Ids, carried'[x] = carried[v]
          PROVE  x = v
      BY <3>1, <3>2, <3>4, <1>1, <1>2, <1>7, NoUniverseIsNoId DEF LegacyIsPaidOnce, Typed
    <3> QED BY <3>1, <3>3, <3>4
  <2> QED BY <2>1, <2>2
<1> QED BY <1>4, <1>5, <1>8 DEF LegacyInv

\* A tick ends running universes and evicts ended ones; an heir's ancestor is
\* neither.
LEMMA TickLegacy ==
  ASSUME LegacyInv, NEW endings \in Endings, NEW raids, NEW expired,
         TickAll(endings, raids, expired)
  PROVE  LegacyInv'
<1>1. /\ DOMAIN endings \subseteq Living
      /\ universes' \subseteq universes
      /\ status' = [u \in Ids |-> IF u \in DOMAIN endings THEN endings[u] ELSE status[u]]
      /\ carried' = carried
  BY DEF TickAll
<1>2. \A u \in DOMAIN endings : endings[u] \in {"ended", "abandoned"}
  BY DEF Endings
<1>3. \A u \in DOMAIN endings : status[u] = "running"
  BY <1>1 DEF Living, IsAlive
<1>4. Typed /\ UnusedAreBlank /\ LegacyIsPaidOnce
  BY DEF LegacyInv
<1>5. Typed'
  BY <1>1, <1>2, <1>4 DEF Typed, Statuses
<1>6. UnusedAreBlank'
  BY <1>1, <1>2, <1>4 DEF UnusedAreBlank
<1>7. LegacyIsPaidOnce'
  BY <1>1, <1>3, <1>4 DEF LegacyIsPaidOnce, Typed
<1> QED BY <1>5, <1>6, <1>7 DEF LegacyInv

LEMMA NextLegacy == LegacyInv /\ [Next]_vars => LegacyInv'
<1> SUFFICES ASSUME LegacyInv, [Next]_vars PROVE LegacyInv'
  OBVIOUS
<1>1. ASSUME NEW u \in Ids, NEW retire \in universes \union {NoUniverse}, Create(u, retire)
      PROVE  LegacyInv'
  BY <1>1, CreateLegacy
<1>2. CASE Timer
  BY <1>2, TickLegacy DEF Timer
<1>3. ASSUME UNCHANGED <<universes, status, carried>>
      PROVE  LegacyInv'
  BY <1>3 DEF LegacyInv, Typed, UnusedAreBlank, LegacyIsPaidOnce
<1>4. ASSUME NEW u \in Ids, Submit(u) \/ Enqueue(u)
      PROVE  LegacyInv'
  BY <1>4, <1>3 DEF Submit, Enqueue
<1>5. CASE BecomeOverdue
  BY <1>5, <1>3 DEF BecomeOverdue
<1>6. CASE UNCHANGED vars
  BY <1>6, <1>3 DEF vars
<1> QED BY <1>1, <1>2, <1>4, <1>5, <1>6 DEF Next

\* lobby.ts 327-330: an ended universe's legacy begins at most one other, and
\* nothing but an ended universe leaves one.
THEOREM EachLegacyOnce == Spec => []LegacyIsPaidOnce
<1>1. LegacyInv => LegacyIsPaidOnce
  BY DEF LegacyInv
<1> QED BY <1>1, InitLegacy, NextLegacy, PTL DEF Spec
-----------------------------------------------------------------------------
(* What Without leaves of a sequence.                                      *)

Injective(seq) == \A i, j \in 1 .. Len(seq) : seq[i] = seq[j] => i = j
Among(seq, n) == {seq[i] : i \in 1 .. n}

Keeps(f, seq, gone) ==
  f = [n \in 0 .. Len(seq) |->
         IF n = 0 THEN <<>>
         ELSE IF seq[n] \in gone THEN f[n - 1] ELSE Append(f[n - 1], seq[n])]

LEMMA KeepsExists ==
  ASSUME NEW S, NEW seq \in Seq(S), NEW gone
  PROVE  \E f \in [0 .. Len(seq) -> Seq(S)] : Keeps(f, seq, gone)
<1> DEFINE N == Len(seq)
           V == Seq(S)
           step == [n \in 1 .. N |->
                      [k \in V |-> IF seq[n] \in gone THEN k ELSE Append(k, seq[n])]]
<1>1. N \in Nat /\ <<>> \in V
  OBVIOUS
<1>2. step \in [1 .. N -> [V -> V]]
  <2>1. \A n \in 1 .. N : seq[n] \in S
    OBVIOUS
  <2> QED BY <2>1
<1>3. \A n \in 1 .. N, k \in V :
        step[n][k] = IF seq[n] \in gone THEN k ELSE Append(k, seq[n])
  OBVIOUS
<1> HIDE DEF step, V, N
<1>4. PICK f : Computes(f, N, V, <<>>, step)
  BY <1>1, <1>2, Recursion
<1>5. f \in [0 .. N -> V] /\ f[0] = <<>> /\ \A n \in 1 .. N : f[n] = step[n][f[n - 1]]
  BY <1>4 DEF Computes
<1>6. ASSUME NEW n \in 1 .. N
      PROVE  f[n] = IF seq[n] \in gone THEN f[n - 1] ELSE Append(f[n - 1], seq[n])
  <2>1. f[n - 1] \in V
    BY <1>1, <1>5
  <2> QED BY <1>3, <1>5, <2>1
<1>7. \A n \in 0 .. N :
        f[n] = IF n = 0 THEN <<>>
               ELSE IF seq[n] \in gone THEN f[n - 1] ELSE Append(f[n - 1], seq[n])
  <2>1. \A n \in 0 .. N : n = 0 \/ (n \in 1 .. N /\ n # 0)
    BY <1>1
  <2> QED BY <1>5, <1>6, <2>1
<1>8. f = [n \in 0 .. N |-> f[n]]
  BY <1>5
<1>9. f = [n \in 0 .. N |-> IF n = 0 THEN <<>>
                            ELSE IF seq[n] \in gone THEN f[n - 1]
                                 ELSE Append(f[n - 1], seq[n])]
  BY <1>7, <1>8
<1> QED BY <1>5, <1>9 DEF Keeps, N, V

LEMMA WithoutFiltered ==
  ASSUME NEW S, NEW seq \in Seq(S), NEW gone
  PROVE  /\ Without(seq, gone) \in Seq(S)
         /\ ToSet(Without(seq, gone)) = ToSet(seq) \ gone
         /\ Len(Without(seq, gone)) <= Len(seq)
         /\ Injective(seq) => Injective(Without(seq, gone))
<1> DEFINE f == CHOOSE k : Keeps(k, seq, gone)
           N == Len(seq)
<1>1. Keeps(f, seq, gone)
  BY KeepsExists
<1>2. Without(seq, gone) = f[N]
  BY DEF Without, Keeps
<1> HIDE DEF f
<1>3. N \in Nat
  OBVIOUS
<1>4. \A n \in 0 .. N :
         f[n] = IF n = 0 THEN <<>>
                ELSE IF seq[n] \in gone THEN f[n - 1] ELSE Append(f[n - 1], seq[n])
  BY <1>1 DEF Keeps
<1>5. /\ N \in Nat /\ f[0] = <<>>
      /\ \A n \in 1 .. N : f[n] = IF seq[n] \in gone THEN f[n - 1] ELSE Append(f[n - 1], seq[n])
  BY <1>3, <1>4
<1> DEFINE Fine(n) ==
             /\ f[n] \in Seq(S) /\ ToSet(f[n]) = Among(seq, n) \ gone /\ Len(f[n]) <= n
             /\ Injective(seq) => Injective(f[n])
           T == {n \in Nat : n <= N => Fine(n)}
<1>6. 0 \in T
  <2>1. f[0] = <<>> /\ <<>> \in Seq(S) /\ Len(<<>>) = 0
    BY <1>5
  <2>2. ToSet(<<>>) = {} /\ Among(seq, 0) = {} /\ Injective(<<>>)
    BY DEF ToSet, Among, Injective
  <2>3. Fine(0)
    BY <2>1, <2>2
  <2> HIDE DEF Fine
  <2> QED BY <2>3
<1>7. ASSUME NEW n \in Nat, n + 1 <= N, Fine(n) PROVE Fine(n + 1)
  <2>1. n + 1 \in 1 .. N /\ (n + 1) - 1 = n /\ seq[n + 1] \in S
    BY <1>5, <1>7
  <2>2. Among(seq, n + 1) = Among(seq, n) \union {seq[n + 1]}
    BY <1>7 DEF Among
  <2>3. CASE seq[n + 1] \in gone
    <3>1. f[n + 1] = f[n]
      BY <1>5, <2>1, <2>3
    <3> QED BY <1>7, <2>2, <2>3, <3>1
  <2>4. CASE seq[n + 1] \notin gone
    <3>1. f[n + 1] = Append(f[n], seq[n + 1])
      BY <1>5, <2>1, <2>4
    <3>2. /\ f[n + 1] \in Seq(S) /\ Len(f[n + 1]) = Len(f[n]) + 1
          /\ f[n + 1][Len(f[n]) + 1] = seq[n + 1]
          /\ \A i \in 1 .. Len(f[n]) : f[n + 1][i] = f[n][i]
      BY <1>7, <2>1, <3>1
    <3>3. ToSet(f[n + 1]) = ToSet(f[n]) \union {seq[n + 1]}
      <4>1. f[n] \in Seq(S) /\ DOMAIN f[n] = 1 .. Len(f[n]) /\ Len(f[n]) \in Nat
            /\ DOMAIN f[n + 1] = 1 .. Len(f[n]) + 1
        BY <1>7, <3>2
      <4>2. ToSet(f[n + 1]) = {f[n + 1][i] : i \in 1 .. Len(f[n]) + 1}
            /\ ToSet(f[n]) = {f[n][i] : i \in 1 .. Len(f[n])}
        BY <4>1 DEF ToSet
      <4>3. 1 .. Len(f[n]) + 1 = (1 .. Len(f[n])) \union {Len(f[n]) + 1}
        BY <4>1
      <4>4. f[n + 1][Len(f[n]) + 1] = seq[n + 1]
            /\ \A i \in 1 .. Len(f[n]) : f[n + 1][i] = f[n][i]
        BY <3>2
      <4> QED BY ONLY <4>2, <4>3, <4>4
    <3>4. ASSUME Injective(seq) PROVE Injective(f[n + 1])
      <4>1. seq[n + 1] \notin ToSet(f[n])
        BY <1>7, <2>1, <3>4 DEF Among, Injective
      <4>2. Injective(f[n]) /\ f[n] \in Seq(S)
        BY <1>7, <3>4
      <4>3. \A i \in 1 .. Len(f[n]) : f[n][i] # seq[n + 1]
        BY <4>1, <4>2 DEF ToSet
      <4>4. Len(f[n]) \in Nat /\ \A i \in 1 .. Len(f[n]) + 1 :
              i \in 1 .. Len(f[n]) \/ i = Len(f[n]) + 1
        BY <4>2
      <4> QED BY <3>2, <4>2, <4>3, <4>4 DEF Injective
    <3> QED BY <1>7, <2>2, <2>4, <3>2, <3>3, <3>4
  <2> QED BY <2>3, <2>4
<1>8. \A n \in Nat : n \in T => n + 1 \in T
  BY <1>5, <1>7
<1>9. N \in T
  <2> HIDE DEF T
  <2> QED BY <1>5, <1>6, <1>8, Induction
<1>10. Fine(N)
  BY <1>9
<1>11. Among(seq, N) = ToSet(seq)
  BY DEF Among, ToSet
<1> QED BY <1>2, <1>10, <1>11

LEMMA CreationOrder ==
  ASSUME NEW some, some \subseteq Ids
  PROVE  /\ InCreationOrder(some) \in Seq(Ids) /\ Injective(InCreationOrder(some))
         /\ ToSet(InCreationOrder(some)) = some
<1> DEFINE all == [u \in Ids |-> u]
<1>1. MaxCreated \in Nat /\ all \in Seq(Ids) /\ Len(all) = MaxCreated
  BY LobbyAssumption DEF Ids
<1>2. Injective(all) /\ ToSet(all) = Ids
  BY <1>1 DEF Injective, ToSet, Ids
<1>3. InCreationOrder(some) = Without(all, Ids \ some)
  BY DEF InCreationOrder
<1> HIDE DEF all
<1>4. /\ Without(all, Ids \ some) \in Seq(Ids)
      /\ ToSet(Without(all, Ids \ some)) = ToSet(all) \ (Ids \ some)
      /\ Injective(all) => Injective(Without(all, Ids \ some))
  BY <1>1, WithoutFiltered
<1> QED BY <1>2, <1>3, <1>4

-----------------------------------------------------------------------------
(* One universe's try for a seat.                                          *)

SeatMaps == [Bubbles -> [Positions -> Ids \union {NoUniverse}]]
Rooms == [waiting : Seq(Ids), seats : SeatMaps]

\* Nobody sits twice.
Unique(all) ==
  \A b, c \in Bubbles, p, q \in Positions :
    all[b][p] = all[c][q] /\ all[b][p] # NoUniverse => b = c /\ p = q

SitsIn(all, u) == \E b \in Bubbles, p \in Positions : all[b][p] = u

\* Nothing is open to whoever avoids `shunned`.
Blocked(all, living, shunned) == Welcoming(all, living, shunned) = {}

Reseated(all, b, p, u) == [all EXCEPT ![b] = [@ EXCEPT ![p] = u]]

LEMMA PositionsAreFinite ==
  /\ MaxUniverses \in Nat \ {0} /\ BubbleSize \in Nat \ {0, 1}
  /\ IsFiniteSet(Positions) /\ Cardinality(Positions) = BubbleSize
  /\ IsFiniteSet(Bubbles) /\ Cardinality(Bubbles) = MaxUniverses
  /\ Positions \subseteq Nat
<1>1. /\ MaxUniverses \in Nat \ {0} /\ BubbleSize \in Nat \ {0, 1}
      /\ 1 \in Int /\ MaxUniverses \in Int /\ BubbleSize \in Int
  BY LobbyAssumption
<1>2. IsFiniteSet(1 .. BubbleSize) /\ Cardinality(1 .. BubbleSize) = BubbleSize
  BY <1>1, FS_Interval
<1>3. IsFiniteSet(1 .. MaxUniverses) /\ Cardinality(1 .. MaxUniverses) = MaxUniverses
  BY <1>1, FS_Interval
<1> QED BY <1>1, <1>2, <1>3 DEF Positions, Bubbles

LEMMA LoneliestExists ==
  ASSUME NEW all, NEW living, NEW shunned, ~Blocked(all, living, shunned)
  PROVE  Loneliest(all, living, shunned) # {}
<1> DEFINE open == Welcoming(all, living, shunned)
           size(b) == Cardinality(Company(all[b], living))
           T == {size(b) : b \in open}
<1>1. \A b \in open : size(b) \in Nat
  <2> SUFFICES ASSUME NEW b \in open PROVE size(b) \in Nat
    OBVIOUS
  <2>1. Company(all[b], living) \in SUBSET Positions
    BY DEF Company
  <2>2. IsFiniteSet(Company(all[b], living))
    BY <2>1, PositionsAreFinite, FS_Subset
  <2> QED BY <2>2, FS_CardinalityType
<1>2. open # {}
  BY DEF Blocked
<1> HIDE DEF open, size
<1>3. PICK x \in T : \A y \in T : x <= y
  BY <1>1, <1>2, LeastNumber
<1>4. PICK b \in open : x = size(b)
  BY <1>3
<1>5. \A c \in open : size(b) <= size(c)
  BY <1>3, <1>4
<1>6. b \in Loneliest(all, living, shunned)
  BY <1>4, <1>5 DEF Loneliest, open, size
<1> QED BY <1>6

LEMMA SeatedAtAnOpenPosition ==
  ASSUME NEW all, NEW living, NEW shunned, NEW u,
         NEW b \in Welcoming(all, living, shunned)
  PROVE  \E p \in Positions :
           all[b][p] \notin living /\ Seated(all, b, u, living) = Reseated(all, b, p, u)
<1> DEFINE T == {q \in Positions : IsOpen(all[b], q, living)}
           First(q) == /\ IsOpen(all[b], q, living)
                       /\ \A x \in Positions : IsOpen(all[b], x, living) => q <= x
           p == CHOOSE q \in Positions : First(q)
<1>1. T # {} /\ T \subseteq Nat
  BY PositionsAreFinite DEF Welcoming
<1>2. PICK q \in T : \A x \in T : q <= x
  <2> HIDE DEF T
  <2> QED BY <1>1, LeastNumber
<1>3. p \in Positions /\ First(p)
  BY <1>2
<1>4. Seated(all, b, u, living) = [all EXCEPT ![b][p] = u]
  BY DEF Seated
<1>5. all[b][p] \notin living
  BY <1>3 DEF IsOpen
<1> HIDE DEF p
<1> QED BY <1>3, <1>4, <1>5 DEF Reseated

\* Whoever has its turn goes on waiting, with nothing open to it if it may sit
\* down, or takes an open position of a bubble that welcomes it.
LEMMA TurnMoves ==
  ASSUME NEW room \in Rooms, NEW u, NEW living, NEW may, NEW shunned,
         NEW r \in Turn(room, u, living, may, shunned)
  PROVE  \/ /\ r = [waiting |-> Append(room.waiting, u), seats |-> room.seats]
            /\ u \in may => Blocked(room.seats, living, shunned)
         \/ \E b \in Welcoming(room.seats, living, shunned), p \in Positions :
              /\ room.seats[b][p] \notin living
              /\ r = [waiting |-> room.waiting, seats |-> Reseated(room.seats, b, p, u)]
<1> DEFINE there == Loneliest(room.seats, living, shunned)
<1>1. room = [waiting |-> room.waiting, seats |-> room.seats]
  BY DEF Rooms
<1>2. [room EXCEPT !.waiting = Append(@, u)]
        = [waiting |-> Append(room.waiting, u), seats |-> room.seats]
  BY <1>1
<1>3. CASE u \notin may
  BY <1>2, <1>3 DEF Turn
<1>4. CASE u \in may /\ there = {}
  <2>1. r = [waiting |-> Append(room.waiting, u), seats |-> room.seats]
    BY <1>2, <1>4 DEF Turn, Tried
  <2>2. Blocked(room.seats, living, shunned)
    BY <1>4, LoneliestExists
  <2> QED BY <2>1, <2>2
<1>5. CASE u \in may /\ there # {}
  <2>1. PICK b \in there : r = [room EXCEPT !.seats = Seated(@, b, u, living)]
    BY <1>5 DEF Turn, Tried
  <2>2. b \in Welcoming(room.seats, living, shunned)
    BY DEF Loneliest
  <2>3. PICK p \in Positions :
          /\ room.seats[b][p] \notin living
          /\ Seated(room.seats, b, u, living) = Reseated(room.seats, b, p, u)
    BY <2>2, SeatedAtAnOpenPosition
  <2>4. r = [waiting |-> room.waiting, seats |-> Seated(room.seats, b, u, living)]
    BY <1>1, <2>1
  <2> QED BY <2>2, <2>3, <2>4
<1> QED BY <1>3, <1>4, <1>5

LEMMA ReseatedThere ==
  ASSUME NEW all \in SeatMaps, NEW b \in Bubbles, NEW p \in Positions, NEW u \in Ids
  PROVE  /\ Reseated(all, b, p, u) \in SeatMaps
         /\ \A c \in Bubbles, q \in Positions :
              Reseated(all, b, p, u)[c][q] = IF c = b /\ q = p THEN u ELSE all[c][q]
BY DEF Reseated, SeatMaps

\* Taking a seat opens none: a bubble that was closed to others is still.
LEMMA StaysBlocked ==
  ASSUME NEW all \in SeatMaps, NEW living, NEW shunned, NEW others, NEW u \in Ids,
         NEW b \in Welcoming(all, living, shunned), NEW p \in Positions,
         all[b][p] \notin living, Blocked(all, living, others)
  PROVE  Blocked(Reseated(all, b, p, u), living, others)
<1> DEFINE new == Reseated(all, b, p, u)
<1>1. b \in Bubbles /\ Company(all[b], living) # {}
  BY DEF Welcoming
<1>2. \A c \in Bubbles, q \in Positions : new[c][q] = IF c = b /\ q = p THEN u ELSE all[c][q]
  BY <1>1, ReseatedThere
<1> HIDE DEF new
<1> SUFFICES ASSUME NEW c \in Welcoming(new, living, others)
             PROVE  c \in Welcoming(all, living, others)
  BY DEF Blocked, new
<1>3. /\ c \in Bubbles /\ Company(new[c], living) # {}
      /\ Company(new[c], living \intersect others) = {}
      /\ \E q \in Positions : new[c][q] \notin living
  BY DEF Welcoming, IsOpen
<1>4. Company(all[c], living) # {}
  BY <1>1, <1>2, <1>3 DEF Company
<1>5. Company(all[c], living \intersect others) = {}
  BY <1>2, <1>3 DEF Company
<1>6. \E q \in Positions : all[c][q] \notin living
  BY <1>2, <1>3
<1> QED BY <1>3, <1>4, <1>5, <1>6 DEF Welcoming, IsOpen

-----------------------------------------------------------------------------
(* What becomes of a whole queue.                                          *)

\* What the queue and the bubbles have to be like before.
Seatable(queue, all, living) ==
  /\ queue \in Seq(Ids) /\ Injective(queue) /\ ToSet(queue) \subseteq living
  /\ all \in SeatMaps /\ Unique(all)
  /\ \A b \in Bubbles, p \in Positions : all[b][p] \notin ToSet(queue)
  /\ living \subseteq Ids

\* Where the first n of the queue are, once they have had their turns.
Outcome(r, n, queue, all, living, may, shunned) ==
  /\ r \in Rooms
  /\ Injective(r.waiting) /\ ToSet(r.waiting) \subseteq Among(queue, n) /\ Len(r.waiting) <= n
  /\ Unique(r.seats)
  /\ \A b \in Bubbles, p \in Positions :
       /\ r.seats[b][p] = all[b][p] \/ r.seats[b][p] \in Among(queue, n)
       /\ r.seats[b][p] \notin ToSet(r.waiting)
       /\ all[b][p] \in living => r.seats[b][p] = all[b][p]
  /\ \A u \in Among(queue, n) : u \in ToSet(r.waiting) \/ SitsIn(r.seats, u)
  /\ \A u \in ToSet(r.waiting) \intersect may : Blocked(r.seats, living, shunned[u])
  /\ \A some \in SUBSET Ids : Blocked(all, living, some) => Blocked(r.seats, living, some)

LEMMA Appended ==
  ASSUME NEW S, NEW s \in Seq(S), NEW x \in S
  PROVE  /\ Append(s, x) \in Seq(S) /\ Len(Append(s, x)) = Len(s) + 1
         /\ ToSet(Append(s, x)) = ToSet(s) \union {x}
         /\ Injective(s) /\ x \notin ToSet(s) => Injective(Append(s, x))
<1> DEFINE t == Append(s, x)
<1>1. /\ t \in Seq(S) /\ Len(t) = Len(s) + 1 /\ t[Len(s) + 1] = x /\ Len(s) \in Nat
      /\ \A i \in 1 .. Len(s) : t[i] = s[i]
      /\ DOMAIN t = 1 .. Len(s) + 1 /\ DOMAIN s = 1 .. Len(s)
  OBVIOUS
<1> HIDE DEF t
<1>2. \A i \in 1 .. Len(s) + 1 : i \in 1 .. Len(s) \/ i = Len(s) + 1
  BY <1>1
<1>3. ToSet(t) = ToSet(s) \union {x}
  BY <1>1, <1>2 DEF ToSet
<1>4. ASSUME Injective(s), x \notin ToSet(s) PROVE Injective(t)
  BY <1>1, <1>2, <1>4 DEF Injective, ToSet
<1> QED BY <1>1, <1>3, <1>4 DEF t

LEMMA AmongNext ==
  ASSUME NEW queue \in Seq(Ids), Injective(queue), NEW n \in Nat, n < Len(queue)
  PROVE  /\ queue[n + 1] \in Ids /\ queue[n + 1] \in ToSet(queue)
         /\ queue[n + 1] \notin Among(queue, n)
         /\ Among(queue, n + 1) = Among(queue, n) \union {queue[n + 1]}
         /\ Among(queue, n) \subseteq ToSet(queue)
<1>1. n + 1 \in 1 .. Len(queue) /\ DOMAIN queue = 1 .. Len(queue) /\ n + 1 \notin 1 .. n
      /\ 1 .. n + 1 = (1 .. n) \union {n + 1} /\ 1 .. n \subseteq 1 .. Len(queue)
  OBVIOUS
<1> QED BY <1>1 DEF Among, Injective, ToSet

LEMMA TurnKeepsOutcome ==
  ASSUME NEW queue, NEW all, NEW living, NEW may, NEW shunned \in [Ids -> SUBSET Ids],
         Seatable(queue, all, living), NEW n \in Nat, n < Len(queue),
         NEW room, Outcome(room, n, queue, all, living, may, shunned),
         NEW r \in Turn(room, queue[n + 1], living, may, shunned[queue[n + 1]])
  PROVE  Outcome(r, n + 1, queue, all, living, may, shunned)
<1> DEFINE u == queue[n + 1]
<1>1. /\ queue \in Seq(Ids) /\ Injective(queue) /\ ToSet(queue) \subseteq living
      /\ all \in SeatMaps /\ living \subseteq Ids
      /\ \A b \in Bubbles, p \in Positions : all[b][p] \notin ToSet(queue)
  BY DEF Seatable
<1>2. /\ u \in Ids /\ u \in ToSet(queue) /\ u \in living /\ u \notin Among(queue, n)
      /\ Among(queue, n + 1) = Among(queue, n) \union {u}
      /\ Among(queue, n) \subseteq ToSet(queue) /\ u # NoUniverse
  BY <1>1, AmongNext, NoUniverseIsNoId
<1> HIDE DEF u
<1>3. /\ room \in Rooms /\ room.waiting \in Seq(Ids) /\ room.seats \in SeatMaps
      /\ Injective(room.waiting) /\ ToSet(room.waiting) \subseteq Among(queue, n)
      /\ Len(room.waiting) <= n
  BY DEF Outcome, Rooms
<1>4. Unique(room.seats)
  BY DEF Outcome
<1>5. \A b \in Bubbles, p \in Positions :
        /\ room.seats[b][p] = all[b][p] \/ room.seats[b][p] \in Among(queue, n)
        /\ room.seats[b][p] \notin ToSet(room.waiting)
        /\ all[b][p] \in living => room.seats[b][p] = all[b][p]
        /\ room.seats[b][p] # u
  BY <1>1, <1>2 DEF Outcome
<1>6. \A x \in Among(queue, n) : x \in ToSet(room.waiting) \/ SitsIn(room.seats, x)
  BY DEF Outcome
<1>7. \A x \in ToSet(room.waiting) \intersect may : Blocked(room.seats, living, shunned[x])
  BY DEF Outcome
<1>8. \A some \in SUBSET Ids : Blocked(all, living, some) => Blocked(room.seats, living, some)
  BY DEF Outcome
<1>9. u \notin ToSet(room.waiting)
  BY <1>2, <1>3
<1>10. CASE /\ r = [waiting |-> Append(room.waiting, u), seats |-> room.seats]
            /\ u \in may => Blocked(room.seats, living, shunned[u])
  <2>1. r.seats = room.seats /\ r.waiting = Append(room.waiting, u)
    BY <1>10
  <2>2. /\ r.waiting \in Seq(Ids) /\ Len(r.waiting) = Len(room.waiting) + 1
        /\ ToSet(r.waiting) = ToSet(room.waiting) \union {u} /\ Injective(r.waiting)
    BY <1>2, <1>3, <1>9, <2>1, Appended
  <2>3. r \in Rooms
    BY <1>3, <1>10, <2>1, <2>2 DEF Rooms
  <2>4. Len(r.waiting) <= n + 1
    BY <1>3, <2>2
  <2>5. ToSet(r.waiting) \subseteq Among(queue, n + 1)
    BY <1>2, <1>3, <2>2
  <2>6. \A b \in Bubbles, p \in Positions :
          /\ r.seats[b][p] = all[b][p] \/ r.seats[b][p] \in Among(queue, n + 1)
          /\ r.seats[b][p] \notin ToSet(r.waiting)
          /\ all[b][p] \in living => r.seats[b][p] = all[b][p]
    BY <1>2, <1>5, <2>1, <2>2
  <2>7. \A x \in Among(queue, n + 1) : x \in ToSet(r.waiting) \/ SitsIn(r.seats, x)
    BY <1>2, <1>6, <2>1, <2>2
  <2>8. \A x \in ToSet(r.waiting) \intersect may : Blocked(r.seats, living, shunned[x])
    BY <1>7, <1>10, <2>1, <2>2
  <2>9. Unique(r.seats)
        /\ \A some \in SUBSET Ids : Blocked(all, living, some) => Blocked(r.seats, living, some)
    BY <1>4, <1>8, <2>1
  <2> QED BY <2>2, <2>3, <2>4, <2>5, <2>6, <2>7, <2>8, <2>9 DEF Outcome
<1>11. ASSUME NEW b \in Welcoming(room.seats, living, shunned[u]), NEW p \in Positions,
              room.seats[b][p] \notin living,
              r = [waiting |-> room.waiting, seats |-> Reseated(room.seats, b, p, u)]
       PROVE  Outcome(r, n + 1, queue, all, living, may, shunned)
  <2>1. r.waiting = room.waiting /\ r.seats = Reseated(room.seats, b, p, u) /\ b \in Bubbles
    BY <1>11 DEF Welcoming
  <2>2. /\ r.seats \in SeatMaps
        /\ \A c \in Bubbles, q \in Positions :
             r.seats[c][q] = IF c = b /\ q = p THEN u ELSE room.seats[c][q]
    BY <1>2, <1>3, <2>1, ReseatedThere
  <2>3. r \in Rooms
    BY <1>3, <1>11, <2>1, <2>2 DEF Rooms
  <2>4. Len(r.waiting) <= n + 1
    BY <1>3, <2>1
  <2>5. ToSet(r.waiting) \subseteq Among(queue, n + 1) /\ Injective(r.waiting)
    BY <1>2, <1>3, <2>1
  <2>6. Unique(r.seats)
    BY <1>4, <1>5, <2>2 DEF Unique
  <2>7. \A c \in Bubbles, q \in Positions :
          /\ r.seats[c][q] = all[c][q] \/ r.seats[c][q] \in Among(queue, n + 1)
          /\ r.seats[c][q] \notin ToSet(r.waiting)
          /\ all[c][q] \in living => r.seats[c][q] = all[c][q]
    BY <1>2, <1>5, <1>9, <1>11, <2>1, <2>2
  <2>8. \A x \in Among(queue, n + 1) : x \in ToSet(r.waiting) \/ SitsIn(r.seats, x)
    <3>1. SitsIn(r.seats, u)
      BY <2>1, <2>2 DEF SitsIn
    <3>2. ASSUME NEW x \in Among(queue, n), x \notin ToSet(room.waiting)
          PROVE  SitsIn(r.seats, x)
      <4>1. PICK c \in Bubbles, q \in Positions : room.seats[c][q] = x
        BY <1>6, <3>2 DEF SitsIn
      <4>2. x \in living
        BY <1>1, <1>2
      <4>3. ~(c = b /\ q = p)
        BY <1>11, <4>1, <4>2
      <4> QED BY <2>2, <4>1, <4>3 DEF SitsIn
    <3> QED BY <1>2, <2>1, <3>1, <3>2
  <2>9. ASSUME NEW some, Blocked(room.seats, living, some)
        PROVE  Blocked(r.seats, living, some)
    BY <1>2, <1>3, <1>11, <2>1, <2>9, StaysBlocked
  <2>10. \A x \in ToSet(r.waiting) \intersect may : Blocked(r.seats, living, shunned[x])
    BY <1>7, <2>1, <2>9
  <2>11. \A some \in SUBSET Ids : Blocked(all, living, some) => Blocked(r.seats, living, some)
    BY <1>8, <2>9
  <2> QED BY <2>3, <2>4, <2>5, <2>6, <2>7, <2>8, <2>10, <2>11 DEF Outcome
<1>12. r \in Turn(room, u, living, may, shunned[u])
  BY DEF u
<1> QED BY <1>3, <1>10, <1>11, <1>12, TurnMoves

-----------------------------------------------------------------------------
Queues(f, queue, all, living, may, shunned) ==
  f = [n \in 0 .. Len(queue) |->
         IF n = 0 THEN {[waiting |-> <<>>, seats |-> all]}
         ELSE UNION {Turn(r, queue[n], living, may, shunned[queue[n]]) : r \in f[n - 1]}]

LEMMA QueuesExists ==
  ASSUME NEW queue \in Seq(Ids), NEW all \in SeatMaps, NEW living, NEW may, NEW shunned
  PROVE  \E f : Queues(f, queue, all, living, may, shunned)
<1> DEFINE N == Len(queue)
           V == SUBSET Rooms
           first == {[waiting |-> <<>>, seats |-> all]}
           Step(n, rooms) ==
             UNION {Turn(r, queue[n], living, may, shunned[queue[n]]) : r \in rooms}
           step == [n \in 1 .. N |-> [rooms \in V |-> Step(n, rooms)]]
<1>1. N \in Nat /\ first \in V
  BY DEF Rooms
<1>2. ASSUME NEW n \in 1 .. N, NEW rooms \in V PROVE Step(n, rooms) \in V
  <2> SUFFICES ASSUME NEW room \in rooms,
                      NEW r \in Turn(room, queue[n], living, may, shunned[queue[n]])
               PROVE  r \in Rooms
    OBVIOUS
  <2>1. queue[n] \in Ids /\ room \in Rooms
    OBVIOUS
  <2>2. room.waiting \in Seq(Ids) /\ room.seats \in SeatMaps
    BY <2>1 DEF Rooms
  <2>3. Append(room.waiting, queue[n]) \in Seq(Ids)
    BY <2>1, <2>2
  <2>4. ASSUME NEW b \in Welcoming(room.seats, living, shunned[queue[n]]), NEW p \in Positions
        PROVE  Reseated(room.seats, b, p, queue[n]) \in SeatMaps
    <3>1. b \in Bubbles
      BY DEF Welcoming
    <3> QED BY <2>1, <2>2, <3>1, ReseatedThere
  <2>5. \/ r = [waiting |-> Append(room.waiting, queue[n]), seats |-> room.seats]
        \/ \E b \in Welcoming(room.seats, living, shunned[queue[n]]), p \in Positions :
             r = [waiting |-> room.waiting, seats |-> Reseated(room.seats, b, p, queue[n])]
    BY <2>1, TurnMoves
  <2>6. \A w \in Seq(Ids), m \in SeatMaps : [waiting |-> w, seats |-> m] \in Rooms
    BY DEF Rooms
  <2>7. CASE r = [waiting |-> Append(room.waiting, queue[n]), seats |-> room.seats]
    BY <2>2, <2>3, <2>6, <2>7
  <2>8. CASE \E b \in Welcoming(room.seats, living, shunned[queue[n]]), p \in Positions :
               r = [waiting |-> room.waiting, seats |-> Reseated(room.seats, b, p, queue[n])]
    BY <2>2, <2>4, <2>6, <2>8
  <2> QED BY <2>5, <2>7, <2>8
<1>3. step \in [1 .. N -> [V -> V]]
      /\ \A n \in 1 .. N, rooms \in V : step[n][rooms] = Step(n, rooms)
  <2> HIDE DEF Step, V, N
  <2> QED BY <1>2
<1> HIDE DEF step, V, N, first
<1>4. PICK f : Computes(f, N, V, first, step)
  BY <1>1, <1>3, Recursion
<1>5. f \in [0 .. N -> V] /\ f[0] = first /\ \A n \in 1 .. N : f[n] = step[n][f[n - 1]]
  BY <1>4 DEF Computes
<1>6. \A n \in 1 .. N : f[n] = Step(n, f[n - 1])
  <2> SUFFICES ASSUME NEW n \in 1 .. N PROVE f[n] = Step(n, f[n - 1])
    OBVIOUS
  <2>1. n - 1 \in 0 .. N
    BY <1>1
  <2> HIDE DEF Step
  <2> QED BY <1>3, <1>5, <2>1
<1>7. \A n \in 0 .. N : f[n] = IF n = 0 THEN first ELSE Step(n, f[n - 1])
  <2>1. \A n \in 0 .. N : n = 0 \/ (n \in 1 .. N /\ n # 0)
    BY <1>1
  <2> HIDE DEF Step
  <2> QED BY <1>5, <1>6, <2>1
<1>8. f = [n \in 0 .. N |-> f[n]]
  BY <1>5
<1>9. f = [n \in 0 .. N |-> IF n = 0 THEN first ELSE Step(n, f[n - 1])]
  <2> HIDE DEF Step
  <2> QED BY <1>7, <1>8
<1> QED BY <1>9 DEF Queues, N, first

LEMMA SeatingOutcome ==
  ASSUME NEW queue, NEW all, NEW living, NEW may, NEW shunned \in [Ids -> SUBSET Ids],
         Seatable(queue, all, living),
         NEW r \in Seating(queue, all, living, may, shunned)
  PROVE  Outcome(r, Len(queue), queue, all, living, may, shunned)
<1> DEFINE f == CHOOSE k : Queues(k, queue, all, living, may, shunned)
           N == Len(queue)
           Fine(n) == \A x \in f[n] : Outcome(x, n, queue, all, living, may, shunned)
           T == {n \in Nat : n <= N => Fine(n)}
<1>1. queue \in Seq(Ids) /\ all \in SeatMaps /\ N \in Nat
  BY DEF Seatable
<1>2. Queues(f, queue, all, living, may, shunned)
  BY <1>1, QueuesExists
<1>3. Seating(queue, all, living, may, shunned) = f[N]
  BY DEF Seating, Queues
<1> HIDE DEF f
<1>4. \A n \in 0 .. N :
        f[n] = IF n = 0 THEN {[waiting |-> <<>>, seats |-> all]}
               ELSE UNION {Turn(x, queue[n], living, may, shunned[queue[n]]) : x \in f[n - 1]}
  BY <1>2 DEF Queues
<1>5. f[0] = {[waiting |-> <<>>, seats |-> all]}
  <2>1. 0 \in 0 .. N
    BY <1>1
  <2> QED BY <1>4, <2>1
<1>6. ASSUME NEW n \in Nat, n + 1 <= N
       PROVE  f[n + 1] = UNION {Turn(x, queue[n + 1], living, may, shunned[queue[n + 1]]) :
                                  x \in f[n]}
  <2>1. n + 1 \in 0 .. N /\ n + 1 # 0 /\ (n + 1) - 1 = n
    BY <1>1, <1>6
  <2> QED BY <1>4, <2>1
<1>7. Fine(0)
  <2> SUFFICES ASSUME NEW x \in f[0] PROVE Outcome(x, 0, queue, all, living, may, shunned)
    OBVIOUS
  <2>1. x = [waiting |-> <<>>, seats |-> all]
    BY <1>5
  <2>2. x.waiting = <<>> /\ x.seats = all /\ <<>> \in Seq(Ids) /\ Len(<<>>) = 0
    BY <2>1
  <2>3. x \in Rooms
    BY <1>1, <2>1, <2>2 DEF Rooms
  <2>4. ToSet(<<>>) = {} /\ Injective(<<>>) /\ Among(queue, 0) = {}
    BY DEF ToSet, Injective, Among
  <2>5. Unique(all)
    BY DEF Seatable
  <2> QED BY <2>2, <2>3, <2>4, <2>5 DEF Outcome
<1>8. ASSUME NEW n \in Nat, n + 1 <= N, Fine(n) PROVE Fine(n + 1)
  <2> SUFFICES ASSUME NEW x \in f[n + 1]
               PROVE  Outcome(x, n + 1, queue, all, living, may, shunned)
    OBVIOUS
  <2>1. n < Len(queue)
    BY <1>1, <1>8
  <2>2. PICK room \in f[n] : x \in Turn(room, queue[n + 1], living, may, shunned[queue[n + 1]])
    BY <1>8, <1>6
  <2>3. Outcome(room, n, queue, all, living, may, shunned)
    BY <1>8, <2>2
  <2> QED BY <2>1, <2>2, <2>3, TurnKeepsOutcome
<1>9. \A n \in Nat : n \in T => n + 1 \in T
  <2> SUFFICES ASSUME NEW n \in Nat, n \in T, n + 1 <= N PROVE Fine(n + 1)
    OBVIOUS
  <2> HIDE DEF Fine
  <2> QED BY <1>1, <1>8
<1>10. Fine(N)
  <2>1. 0 \in T
    BY <1>7
  <2>2. Nat \subseteq T
    <3> HIDE DEF T
    <3> QED BY <1>9, <2>1, Induction
  <2> HIDE DEF Fine
  <2> QED BY <1>1, <2>2
<1> QED BY <1>3, <1>10

-----------------------------------------------------------------------------
(* Where everybody is, between the steps of match.                         *)

Placed(queue, all, living, hosted) ==
  /\ queue \in Seq(Ids) /\ Injective(queue) /\ ToSet(queue) \subseteq living
  /\ all \in SeatMaps /\ Unique(all)
  /\ \A b \in Bubbles, p \in Positions :
       /\ all[b][p] \notin ToSet(queue)
       /\ all[b][p] # NoUniverse => all[b][p] \in hosted
  /\ \A u \in living : u \in ToSet(queue) \/ SitsIn(all, u)

\* There are never more universes than there may be bubbles.
Hosting(living, hosted) ==
  /\ living \subseteq hosted /\ hosted \subseteq Ids
  /\ IsFiniteSet(hosted) /\ Cardinality(hosted) <= MaxUniverses

KeepsSeats(old, new, living) ==
  \A b \in Bubbles, p \in Positions : old[b][p] \in living => new[b][p] = old[b][p]

LEMMA SeatingPlaces ==
  ASSUME NEW living, NEW hosted, Hosting(living, hosted), NEW queue, NEW all,
         Placed(queue, all, living, hosted), NEW may, NEW shunned \in [Ids -> SUBSET Ids],
         NEW r \in Seating(queue, all, living, may, shunned)
  PROVE  /\ r \in Rooms /\ Placed(r.waiting, r.seats, living, hosted)
         /\ KeepsSeats(all, r.seats, living)
         /\ Len(r.waiting) <= Len(queue) /\ ToSet(r.waiting) \subseteq ToSet(queue)
         /\ \A u \in ToSet(r.waiting) \intersect may : Blocked(r.seats, living, shunned[u])
         /\ \A some \in SUBSET Ids : Blocked(all, living, some) => Blocked(r.seats, living, some)
<1>1. living \subseteq hosted /\ living \subseteq Ids
  BY DEF Hosting
<1>2. Seatable(queue, all, living)
  BY <1>1 DEF Placed, Seatable
<1>3. Outcome(r, Len(queue), queue, all, living, may, shunned)
  BY <1>2, SeatingOutcome
<1>4. Among(queue, Len(queue)) = ToSet(queue)
  BY DEF Among, ToSet, Placed
<1>5. r \in Rooms /\ r.waiting \in Seq(Ids) /\ r.seats \in SeatMaps
  BY <1>3 DEF Outcome, Rooms
<1>6. /\ Injective(r.waiting) /\ ToSet(r.waiting) \subseteq ToSet(queue)
      /\ Len(r.waiting) <= Len(queue) /\ Unique(r.seats)
  BY <1>3, <1>4 DEF Outcome
<1>7. \A b \in Bubbles, p \in Positions :
        /\ r.seats[b][p] = all[b][p] \/ r.seats[b][p] \in ToSet(queue)
        /\ r.seats[b][p] \notin ToSet(r.waiting)
        /\ all[b][p] \in living => r.seats[b][p] = all[b][p]
  BY <1>3, <1>4 DEF Outcome
<1>8. \A u \in ToSet(queue) : u \in ToSet(r.waiting) \/ SitsIn(r.seats, u)
  BY <1>3, <1>4 DEF Outcome
<1>9. \A u \in living : u \in ToSet(r.waiting) \/ SitsIn(r.seats, u)
  <2> SUFFICES ASSUME NEW u \in living, u \notin ToSet(queue) PROVE SitsIn(r.seats, u)
    BY <1>8
  <2>1. PICK b \in Bubbles, p \in Positions : all[b][p] = u
    BY DEF Placed, SitsIn
  <2> QED BY <1>7, <2>1 DEF SitsIn
<1>10. \A b \in Bubbles, p \in Positions :
         r.seats[b][p] # NoUniverse => r.seats[b][p] \in hosted
  BY <1>1, <1>7 DEF Placed
<1>11. ToSet(r.waiting) \subseteq living
  BY <1>6 DEF Placed
<1>12. Placed(r.waiting, r.seats, living, hosted)
  BY <1>5, <1>6, <1>7, <1>9, <1>10, <1>11 DEF Placed
<1>13. KeepsSeats(all, r.seats, living)
  BY <1>7 DEF KeepsSeats
<1>14. /\ \A u \in ToSet(r.waiting) \intersect may : Blocked(r.seats, living, shunned[u])
       /\ \A some \in SUBSET Ids : Blocked(all, living, some) => Blocked(r.seats, living, some)
  BY <1>3 DEF Outcome
<1> QED BY <1>5, <1>6, <1>12, <1>13, <1>14

\* Somebody waits, so there are fewer who sit than there are bubbles: one of
\* them is empty.
LEMMA OneBubbleIsEmpty ==
  ASSUME NEW living, NEW hosted, Hosting(living, hosted), NEW queue, NEW all,
         Placed(queue, all, living, hosted), NEW x \in ToSet(queue)
  PROVE  \E b \in Bubbles : \A p \in Positions : all[b][p] = NoUniverse
<1> SUFFICES ASSUME \A b \in Bubbles : \E p \in Positions : all[b][p] # NoUniverse
             PROVE  FALSE
  OBVIOUS
<1> DEFINE rest == hosted \ {x}
           At(b) == CHOOSE p \in Positions : all[b][p] # NoUniverse
           g == [b \in Bubbles |-> all[b][At(b)]]
<1>1. x \in hosted /\ IsFiniteSet(hosted) /\ Cardinality(hosted) <= MaxUniverses
  BY DEF Placed, Hosting
<1>2. \A b \in Bubbles : At(b) \in Positions /\ all[b][At(b)] # NoUniverse
  OBVIOUS
<1> HIDE DEF At
<1>3. \A b \in Bubbles : g[b] \in rest
  BY <1>2 DEF Placed
<1>4. \A b, c \in Bubbles : g[b] = g[c] => b = c
  BY <1>2 DEF Placed, Unique
<1>5. g \in Injection(Bubbles, rest)
  BY <1>3, <1>4 DEF Injection, IsInjective
<1>6. IsFiniteSet(rest) /\ Cardinality(rest) = Cardinality(hosted) - 1
  BY <1>1, FS_RemoveElement
<1> HIDE DEF g, rest
<1>7. Cardinality(Bubbles) <= Cardinality(rest)
  BY <1>5, <1>6, FS_Injection
<1>8. Cardinality(hosted) \in Nat
  BY <1>1, FS_CardinalityType
<1> QED BY <1>1, <1>6, <1>7, <1>8, PositionsAreFinite

LEMMA FormedPlaces ==
  ASSUME NEW living, NEW hosted, Hosting(living, hosted), NEW late, NEW room \in Rooms,
         Placed(room.waiting, room.seats, living, hosted), Len(room.waiting) <= BubbleSize
  PROVE  /\ Formed(room, late) \in Rooms
         /\ Placed(Formed(room, late).waiting, Formed(room, late).seats, living, hosted)
         /\ KeepsSeats(room.seats, Formed(room, late).seats, living)
         /\ Len(Formed(room, late).waiting) < BubbleSize
         /\ Formed(room, late) = room \/ Formed(room, late).waiting = <<>>
<1> DEFINE w == room.waiting
           all == room.seats
<1>1. /\ w \in Seq(Ids) /\ Len(w) \in Nat /\ all \in SeatMaps /\ Injective(w) /\ Unique(all)
      /\ ToSet(w) \subseteq living /\ living \subseteq hosted /\ living \subseteq Ids
      /\ BubbleSize \in Nat \ {0, 1}
  BY PositionsAreFinite DEF Rooms, Placed, Hosting
<1>2. CASE ~Ready(w, late)
  <2>1. Formed(room, late) = room
    BY <1>2 DEF Formed
  <2>2. Len(w) < BubbleSize
    BY <1>1, <1>2 DEF Ready
  <2> QED BY <2>1, <2>2 DEF KeepsSeats
<1>3. CASE Ready(w, late)
  <2> DEFINE b == CHOOSE x \in Bubbles : \A p \in Positions : all[x][p] = NoUniverse
             batch == [p \in Positions |-> IF p <= Len(w) THEN w[p] ELSE NoUniverse]
             new == [all EXCEPT ![b] = batch]
  <2>1. w # <<>> /\ 1 \in DOMAIN w
    BY <1>1, <1>3 DEF Ready
  <2>2. w[1] \in ToSet(w)
    BY <2>1 DEF ToSet
  <2>3. b \in Bubbles /\ \A p \in Positions : all[b][p] = NoUniverse
    BY <2>2, OneBubbleIsEmpty
  <2>4. Formed(room, late) = [waiting |-> <<>>, seats |-> new]
    BY <1>3 DEF Formed
  <2> HIDE DEF b
  <2>5. \A p \in Positions : p <= Len(w) => p \in 1 .. Len(w) /\ w[p] \in ToSet(w)
    BY <1>1 DEF Positions, ToSet
  <2>6. batch \in [Positions -> Ids \union {NoUniverse}]
    BY <1>1, <2>5
  <2>7. /\ new \in SeatMaps
        /\ \A c \in Bubbles, p \in Positions :
             new[c][p] = IF c = b THEN IF p <= Len(w) THEN w[p] ELSE NoUniverse ELSE all[c][p]
    BY <1>1, <2>3, <2>6 DEF SeatMaps
  <2> HIDE DEF new, batch
  <2>8. \A c \in Bubbles, p \in Positions : all[c][p] \notin ToSet(w)
    BY DEF Placed
  <2>9. Unique(new)
    <3> SUFFICES ASSUME NEW c \in Bubbles, NEW d \in Bubbles, NEW p \in Positions,
                        NEW q \in Positions, new[c][p] = new[d][q], new[c][p] # NoUniverse
                 PROVE  c = d /\ p = q
      BY DEF Unique
    <3>1. CASE c = b /\ d = b
      <4>1. p <= Len(w) /\ q <= Len(w) /\ w[p] = w[q]
        BY <2>7, <3>1
      <4>2. p \in 1 .. Len(w) /\ q \in 1 .. Len(w)
        BY <2>5, <4>1
      <4> QED BY <1>1, <3>1, <4>1, <4>2 DEF Injective
    <3>2. CASE c # b /\ d # b
      BY <1>1, <2>7, <3>2 DEF Unique
    <3>3. CASE c = b /\ d # b
      BY <2>5, <2>7, <2>8, <3>3
    <3>4. CASE c # b /\ d = b
      BY <2>5, <2>7, <2>8, <3>4
    <3> QED BY <3>1, <3>2, <3>3, <3>4
  <2>10. <<>> \in Seq(Ids) /\ Injective(<<>>) /\ ToSet(<<>>) = {} /\ Len(<<>>) = 0
    BY DEF Injective, ToSet
  <2>11. \A c \in Bubbles, p \in Positions :
           new[c][p] # NoUniverse => new[c][p] \in hosted
    <3>1. \A c \in Bubbles, p \in Positions : all[c][p] # NoUniverse => all[c][p] \in hosted
      BY DEF Placed
    <3> QED BY <1>1, <2>5, <2>7, <3>1
  <2>12. \A u \in living : SitsIn(new, u)
    <3> SUFFICES ASSUME NEW u \in living PROVE SitsIn(new, u)
      OBVIOUS
    <3>1. u # NoUniverse
      BY <1>1, NoUniverseIsNoId
    <3>2. CASE u \in ToSet(w)
      <4>1. PICK p \in 1 .. Len(w) : u = w[p]
        BY <1>1, <3>2 DEF ToSet
      <4>2. p \in Positions /\ p <= Len(w)
        BY <1>1, <4>1 DEF Positions
      <4> QED BY <2>3, <2>7, <4>1, <4>2 DEF SitsIn
    <3>3. CASE u \notin ToSet(w)
      <4>1. PICK c \in Bubbles, p \in Positions : all[c][p] = u
        BY <3>3 DEF Placed, SitsIn
      <4>2. c # b
        BY <2>3, <3>1, <4>1
      <4> QED BY <2>7, <4>1, <4>2 DEF SitsIn
    <3> QED BY <3>2, <3>3
  <2>13. Placed(<<>>, new, living, hosted)
    BY <2>7, <2>9, <2>10, <2>11, <2>12 DEF Placed
  <2>14. KeepsSeats(all, new, living)
    BY <1>1, <2>3, <2>7, NoUniverseIsNoId DEF KeepsSeats
  <2>15. Formed(room, late) \in Rooms
    BY <2>4, <2>7, <2>10 DEF Rooms
  <2>16. Formed(room, late).waiting = <<>> /\ Formed(room, late).seats = new
    BY <2>4
  <2> QED BY <1>1, <2>10, <2>13, <2>14, <2>15, <2>16
<1> QED BY <1>2, <1>3

\* Who waits for a bubble of its own age may sit beside a raider, and whoever
\* may sit nowhere else may not sit beside one either.
LEMMA BlockedForMore ==
  ASSUME NEW all, NEW living, NEW some, Blocked(all, living, {})
  PROVE  Blocked(all, living, some)
<1>1. Company(all, {}) = {}
  BY DEF Company
<1>2. \A b \in Bubbles : Company(all[b], living \intersect {}) = {}
  BY DEF Company
<1> QED BY <1>2 DEF Blocked, Welcoming

-----------------------------------------------------------------------------
LEMMA MatchPlaces ==
  ASSUME NEW living, NEW hosted, Hosting(living, hosted),
         NEW gone, gone \intersect hosted = {},
         NEW queue \in Seq(Ids), Injective(queue), Len(queue) <= BubbleSize,
         seats \in SeatMaps, Unique(seats),
         \A b \in Bubbles, p \in Positions :
           /\ seats[b][p] \notin ToSet(queue)
           /\ seats[b][p] # NoUniverse => seats[b][p] \in hosted \union gone,
         \A u \in living : u \in ToSet(queue) \/ SitsIn(seats, u),
         NEW shunned \in [Ids -> SUBSET Ids], Match(queue, gone, living, shunned)
  PROVE  /\ Placed(waiting', seats', living, hosted) /\ Len(waiting') < BubbleSize
         /\ KeepsSeats(seats, seats', living)
         /\ \A u \in ToSet(waiting') : Blocked(seats', living, avoid'[u])
         /\ overdue' \subseteq overdue /\ avoid' \in [Ids -> SUBSET Ids]
<1> DEFINE q == Without(Without(queue, gone), Ids \ living)
           all == [b \in Bubbles |-> Vacated(seats[b], gone)]
           nobody == [u \in Ids |-> {}]
<1>1. /\ living \subseteq hosted /\ living \subseteq Ids /\ living \intersect gone = {}
      /\ NoUniverse \notin living /\ BubbleSize \in Nat \ {0, 1}
  BY NoUniverseIsNoId, PositionsAreFinite DEF Hosting
<1>2. /\ Without(queue, gone) \in Seq(Ids)
      /\ ToSet(Without(queue, gone)) = ToSet(queue) \ gone
      /\ Len(Without(queue, gone)) <= Len(queue) /\ Injective(Without(queue, gone))
  BY WithoutFiltered
<1>3. /\ q \in Seq(Ids) /\ Injective(q)
      /\ ToSet(q) = (ToSet(queue) \ gone) \ (Ids \ living)
      /\ Len(q) <= Len(Without(queue, gone))
  BY <1>2, WithoutFiltered
<1>4. Len(q) <= BubbleSize
  <2>1. Len(q) \in Nat /\ Len(queue) \in Nat /\ Len(Without(queue, gone)) \in Nat
    BY <1>2, <1>3
  <2> QED BY <1>1, <1>2, <1>3, <2>1
<1>5. ToSet(queue) \subseteq Ids
  BY DEF ToSet
<1>6. /\ all \in SeatMaps
      /\ \A b \in Bubbles, p \in Positions :
           all[b][p] = IF seats[b][p] \in gone THEN NoUniverse ELSE seats[b][p]
  BY DEF SeatMaps, Vacated
<1> HIDE DEF all, q
<1>7. Unique(all)
  BY <1>6 DEF Unique
<1>8. \A b \in Bubbles, p \in Positions :
        /\ all[b][p] \notin ToSet(q)
        /\ all[b][p] # NoUniverse => all[b][p] \in hosted
  <2>1. ToSet(q) \subseteq ToSet(queue) /\ NoUniverse \notin ToSet(q)
    BY <1>3, <1>5, NoUniverseIsNoId
  <2>2. \A b \in Bubbles, p \in Positions :
          /\ seats[b][p] \notin ToSet(queue)
          /\ seats[b][p] # NoUniverse => seats[b][p] \in hosted \union gone
    OBVIOUS
  <2> QED BY <1>6, <2>1, <2>2
<1>9. \A u \in living : u \in ToSet(q) \/ SitsIn(all, u)
  <2> SUFFICES ASSUME NEW u \in living, u \notin ToSet(q) PROVE SitsIn(all, u)
    OBVIOUS
  <2>1. u \notin ToSet(queue) /\ u \notin gone
    BY <1>1, <1>3
  <2>2. PICK b \in Bubbles, p \in Positions : seats[b][p] = u
    BY <2>1 DEF SitsIn
  <2> QED BY <1>6, <2>1, <2>2 DEF SitsIn
<1>10. Placed(q, all, living, hosted)
  <2>1. ToSet(q) \subseteq living
    BY <1>3, <1>5
  <2> QED BY <1>3, <1>6, <1>7, <1>8, <1>9, <2>1 DEF Placed
<1>11. PICK room \in SeatAll(Without(queue, gone), all, living, shunned) :
         \E done \in SeatLate(Formed(room, overdue), living, overdue) :
           /\ waiting' = done.waiting
           /\ seats' = done.seats
           /\ overdue' = overdue \intersect ToSet(done.waiting)
           /\ avoid' = [u \in Ids |-> IF u \in ToSet(done.waiting) THEN shunned[u] ELSE {}]
  BY DEF Match, all
<1> DEFINE made == Formed(room, overdue)
<1>12. PICK done \in SeatLate(made, living, overdue) :
         /\ waiting' = done.waiting
         /\ seats' = done.seats
         /\ overdue' = overdue \intersect ToSet(done.waiting)
         /\ avoid' = [u \in Ids |-> IF u \in ToSet(done.waiting) THEN shunned[u] ELSE {}]
  BY <1>11
<1>13. room \in Seating(q, all, living, living, shunned)
  BY <1>11 DEF SeatAll, q
<1>14. /\ room \in Rooms /\ Placed(room.waiting, room.seats, living, hosted)
       /\ KeepsSeats(all, room.seats, living)
       /\ Len(room.waiting) <= Len(q)
       /\ \A u \in ToSet(room.waiting) \intersect living : Blocked(room.seats, living, shunned[u])
  BY <1>10, <1>13, SeatingPlaces
<1>15. Len(room.waiting) <= BubbleSize /\ Len(room.waiting) \in Nat
  <2>1. Len(q) \in Nat /\ Len(room.waiting) \in Nat
    BY <1>3, <1>14 DEF Placed
  <2> QED BY <1>1, <1>4, <1>14, <2>1
<1>16. /\ made \in Rooms /\ Placed(made.waiting, made.seats, living, hosted)
       /\ KeepsSeats(room.seats, made.seats, living)
       /\ Len(made.waiting) < BubbleSize
       /\ made = room \/ made.waiting = <<>>
  BY <1>14, <1>15, FormedPlaces
<1> HIDE DEF made
<1>17. nobody \in [Ids -> SUBSET Ids]
  OBVIOUS
<1>18. done \in Seating(made.waiting, made.seats, living, overdue, nobody)
  BY <1>12 DEF SeatLate
<1>19. /\ Placed(done.waiting, done.seats, living, hosted)
       /\ KeepsSeats(made.seats, done.seats, living)
       /\ Len(done.waiting) <= Len(made.waiting)
       /\ ToSet(done.waiting) \subseteq ToSet(made.waiting)
       /\ \A u \in ToSet(done.waiting) \intersect overdue : Blocked(done.seats, living, nobody[u])
       /\ \A some \in SUBSET Ids :
            Blocked(made.seats, living, some) => Blocked(done.seats, living, some)
  <2> HIDE DEF nobody
  <2> QED BY <1>16, <1>17, <1>18, SeatingPlaces
<1>20. Len(waiting') < BubbleSize
  <2>1. Len(done.waiting) \in Nat /\ Len(made.waiting) \in Nat
    BY <1>16, <1>19 DEF Placed
  <2> QED BY <1>1, <1>12, <1>16, <1>19, <2>1
<1>21. KeepsSeats(seats, seats', living)
  <2>1. KeepsSeats(seats, all, living)
    BY <1>1, <1>6 DEF KeepsSeats
  <2> QED BY <1>12, <1>14, <1>16, <1>19, <2>1 DEF KeepsSeats
<1>22. ASSUME NEW u \in ToSet(done.waiting) PROVE Blocked(done.seats, living, shunned[u])
  <2>1. u \in living /\ u \in Ids /\ shunned[u] \in SUBSET Ids
    BY <1>1, <1>19 DEF Placed
  <2>2. CASE u \in overdue
    <3>1. Blocked(done.seats, living, {})
      BY <1>19, <2>1, <2>2
    <3> QED BY <3>1, BlockedForMore
  <2>3. CASE u \notin overdue
    <3>1. u \in ToSet(made.waiting)
      BY <1>19
    <3>2. made = room
      BY <1>16, <3>1 DEF ToSet
    <3> QED BY <1>14, <1>19, <2>1, <3>1, <3>2
  <2> QED BY <2>2, <2>3
<1>23. \A u \in ToSet(waiting') : Blocked(seats', living, avoid'[u])
  <2>1. ToSet(done.waiting) \subseteq Ids
    BY <1>1, <1>19 DEF Placed
  <2>2. ToSet(waiting') = ToSet(done.waiting)
    BY <1>12
  <2>3. \A u \in ToSet(done.waiting) : avoid'[u] = shunned[u]
    BY <1>12, <2>1
  <2> QED BY <1>12, <1>22, <2>2, <2>3
<1>24. overdue' \subseteq overdue /\ avoid' \in [Ids -> SUBSET Ids]
  BY <1>12
<1> QED BY <1>12, <1>19, <1>20, <1>21, <1>23, <1>24

-----------------------------------------------------------------------------
(* The invariant: everybody is placed, those who wait have nowhere to sit, *)
(* and endedAt knows who has ended.                                        *)

Dates ==
  ended \in Seq(Ids) /\ Injective(ended) /\ ToSet(ended) = universes \ Living

Lists ==
  /\ overdue \subseteq Ids /\ reading \subseteq Ids /\ queued \subseteq Ids
  /\ avoid \in [Ids -> SUBSET Ids] /\ inbound \in [Ids -> SUBSET Ids]

Matched ==
  /\ Placed(waiting, seats, Living, universes) /\ Len(waiting) < BubbleSize
  /\ \A u \in ToSet(waiting) : Blocked(seats, Living, avoid[u])

PlaceInv ==
  LegacyInv /\ Cardinality(universes) <= MaxUniverses /\ Dates /\ Lists /\ Matched

LEMMA HostedAreFinite ==
  ASSUME NEW some, some \subseteq Ids
  PROVE  IsFiniteSet(some) /\ Cardinality(some) \in Nat
<1>1. MaxCreated \in Int /\ 1 \in Int
  BY LobbyAssumption
<1>2. IsFiniteSet(Ids)
  BY <1>1, FS_Interval DEF Ids
<1> QED BY <1>2, FS_Subset, FS_CardinalityType

LEMMA InitPlace == Init => PlaceInv
<1> SUFFICES ASSUME Init PROVE PlaceInv
  OBVIOUS
<1>1. ToSet(<<>>) = {} /\ Injective(<<>>) /\ Len(<<>>) = 0 /\ <<>> \in Seq(Ids)
  BY DEF ToSet, Injective
<1>2. waiting = <<>> /\ ended = <<>> /\ universes = {} /\ Living = {}
  BY DEF Init, Living
<1>3. /\ seats \in SeatMaps
      /\ \A b \in Bubbles, p \in Positions : seats[b][p] = NoUniverse
  BY DEF Init, SeatMaps
<1>4. Placed(waiting, seats, Living, universes)
  BY <1>1, <1>2, <1>3 DEF Placed, Unique
<1>5. Matched
  BY <1>1, <1>2, <1>4, PositionsAreFinite DEF Matched
<1>6. Dates /\ Lists
  BY <1>1, <1>2 DEF Dates, Lists, Init
<1>7. Cardinality(universes) <= MaxUniverses
  BY <1>2, FS_EmptySet, PositionsAreFinite
<1> QED BY <1>5, <1>6, <1>7, InitLegacy DEF PlaceInv

LEMMA CreatePlace ==
  ASSUME PlaceInv, NEW u \in Ids, NEW retire \in universes \union {NoUniverse},
         Create(u, retire)
  PROVE  PlaceInv' /\ KeepsSeats(seats, seats', Living')
<1> DEFINE gone == Retired(retire) \union Displaced(universes \ Retired(retire))
           kept == universes \ gone
           living == (Living \ gone) \union {u}
           shunned == [avoid EXCEPT ![u] = IF retire = NoUniverse THEN {} ELSE inbound[retire]]
<1>1. /\ LegacyInv /\ Dates /\ Lists /\ Matched /\ Typed
      /\ universes \subseteq Ids /\ status \in [Ids -> Statuses] /\ u \notin universes
  BY DEF PlaceInv, LegacyInv, Typed, UnusedAreBlank, Create, Fresh
<1>2. /\ Cardinality(kept) < MaxUniverses
      /\ universes' = kept \union {u} /\ status' = [status EXCEPT ![u] = "running"]
      /\ ended' = Without(ended, gone)
      /\ Match(Append(waiting, u), gone, living, shunned)
      /\ UNCHANGED <<inbound, reading, queued>>
  BY DEF Create, RoomFor, requests
<1>3. gone \subseteq universes
  <2>1. ended # <<>> => Head(ended) \in ToSet(ended)
    BY <1>1 DEF Dates, ToSet
  <2> QED BY <1>1, <2>1 DEF Retired, Displaced, Dates
<1> HIDE DEF gone
<1>4. Living \subseteq universes /\ u \notin Living
  BY <1>1 DEF Living
<1>5. Living' = living
  <2>1. \A x \in universes' : IsAlive(x)' <=> x = u \/ IsAlive(x)
    BY <1>1, <1>2 DEF IsAlive
  <2> QED BY <1>1, <1>2, <1>3, <2>1 DEF Living
<1>6. Hosting(living, universes')
  <2>1. universes' \subseteq Ids /\ kept \subseteq Ids /\ u \notin kept
    BY <1>1, <1>2
  <2>2. IsFiniteSet(kept) /\ Cardinality(kept) \in Nat /\ IsFiniteSet(universes')
    BY <2>1, HostedAreFinite
  <2>3. Cardinality(universes') = Cardinality(kept) + 1
    BY <1>2, <2>1, <2>2, FS_AddElement
  <2>4. Cardinality(universes') <= MaxUniverses
    BY <1>2, <2>2, <2>3, PositionsAreFinite
  <2>5. living \subseteq universes'
    BY <1>2, <1>4
  <2> QED BY <2>1, <2>2, <2>4, <2>5 DEF Hosting
<1>7. shunned \in [Ids -> SUBSET Ids]
  BY <1>1 DEF Lists
<1>8. /\ Placed(waiting, seats, Living, universes) /\ Len(waiting) < BubbleSize
      /\ waiting \in Seq(Ids) /\ Injective(waiting) /\ ToSet(waiting) \subseteq Living
      /\ seats \in SeatMaps /\ Unique(seats)
      /\ \A b \in Bubbles, p \in Positions :
           /\ seats[b][p] \notin ToSet(waiting)
           /\ seats[b][p] # NoUniverse => seats[b][p] \in universes
      /\ \A x \in Living : x \in ToSet(waiting) \/ SitsIn(seats, x)
  BY <1>1 DEF Matched, Placed
<1> DEFINE queue == Append(waiting, u)
<1>9. /\ queue \in Seq(Ids) /\ Len(queue) = Len(waiting) + 1
      /\ ToSet(queue) = ToSet(waiting) \union {u} /\ Injective(queue)
  BY <1>4, <1>8, Appended
<1>10. Len(queue) <= BubbleSize
  <2>1. Len(waiting) \in Nat
    BY <1>8
  <2> QED BY <1>8, <1>9, <2>1, PositionsAreFinite
<1>11. Match(queue, gone, living, shunned)
  BY <1>2
<1> HIDE DEF queue
<1>12. \A b \in Bubbles, p \in Positions :
         /\ seats[b][p] \notin ToSet(queue)
         /\ seats[b][p] # NoUniverse => seats[b][p] \in universes' \union gone
  <2>1. u # NoUniverse
    BY NoUniverseIsNoId
  <2> QED BY <1>1, <1>2, <1>8, <1>9, <2>1
<1>13. \A x \in living : x \in ToSet(queue) \/ SitsIn(seats, x)
  BY <1>8, <1>9
<1>14. gone \intersect universes' = {}
  BY <1>1, <1>2, <1>3
<1> HIDE DEF living, shunned
<1>15. /\ Placed(waiting', seats', living, universes') /\ Len(waiting') < BubbleSize
       /\ KeepsSeats(seats, seats', living)
       /\ \A x \in ToSet(waiting') : Blocked(seats', living, avoid'[x])
       /\ overdue' \subseteq overdue /\ avoid' \in [Ids -> SUBSET Ids]
  BY <1>6, <1>7, <1>8, <1>9, <1>10, <1>11, <1>12, <1>13, <1>14, MatchPlaces
<1>16. Matched'
  BY <1>5, <1>15 DEF Matched
<1>17. Dates'
  <2>1. /\ ended' \in Seq(Ids) /\ Injective(ended')
        /\ ToSet(ended') = (universes \ Living) \ gone
    BY <1>1, <1>2, WithoutFiltered DEF Dates
  <2>2. universes' \ Living' = (universes \ Living) \ gone
    BY <1>1, <1>2, <1>3, <1>4, <1>5 DEF living
  <2> QED BY <2>1, <2>2 DEF Dates
<1>18. Lists'
  BY <1>1, <1>2, <1>15 DEF Lists
<1>19. Cardinality(universes') <= MaxUniverses
  BY <1>6 DEF Hosting
<1> QED BY <1>1, <1>5, <1>15, <1>16, <1>17, <1>18, <1>19, CreateLegacy DEF PlaceInv

LEMMA InjectiveTogether ==
  ASSUME NEW S, NEW a \in Seq(S), NEW b \in Seq(S), Injective(a), Injective(b),
         ToSet(a) \intersect ToSet(b) = {}
  PROVE  a \o b \in Seq(S) /\ Injective(a \o b) /\ ToSet(a \o b) = ToSet(a) \union ToSet(b)
<1> DEFINE t == a \o b
<1>1. /\ t \in Seq(S) /\ Len(t) = Len(a) + Len(b) /\ Len(a) \in Nat /\ Len(b) \in Nat
      /\ \A i \in 1 .. Len(a) : t[i] = a[i]
      /\ \A i \in 1 .. Len(b) : t[Len(a) + i] = b[i]
  OBVIOUS
<1>2. DOMAIN t = 1 .. Len(t) /\ DOMAIN a = 1 .. Len(a) /\ DOMAIN b = 1 .. Len(b)
  BY <1>1
<1> HIDE DEF t
<1>3. \A i \in 1 .. Len(t) : i \in 1 .. Len(a) \/ \E j \in 1 .. Len(b) : i = Len(a) + j
  <2> SUFFICES ASSUME NEW i \in 1 .. Len(t), i \notin 1 .. Len(a)
               PROVE  \E j \in 1 .. Len(b) : i = Len(a) + j
    OBVIOUS
  <2>1. i - Len(a) \in 1 .. Len(b) /\ i = Len(a) + (i - Len(a))
    BY <1>1
  <2> QED BY <2>1
<1>4. \A i \in 1 .. Len(a), j \in 1 .. Len(b) : a[i] # b[j]
  BY <1>2 DEF ToSet
<1>5. Injective(t)
  <2> SUFFICES ASSUME NEW i \in 1 .. Len(t), NEW k \in 1 .. Len(t), t[i] = t[k]
               PROVE  i = k
    BY DEF Injective
  <2>1. CASE i \in 1 .. Len(a) /\ k \in 1 .. Len(a)
    BY <1>1, <2>1 DEF Injective
  <2>2. CASE i \in 1 .. Len(a) /\ k \notin 1 .. Len(a)
    BY <1>1, <1>3, <1>4, <2>2
  <2>3. CASE i \notin 1 .. Len(a) /\ k \in 1 .. Len(a)
    BY <1>1, <1>3, <1>4, <2>3
  <2>4. CASE i \notin 1 .. Len(a) /\ k \notin 1 .. Len(a)
    <3>1. PICK j \in 1 .. Len(b) : i = Len(a) + j
      BY <1>3, <2>4
    <3>2. PICK l \in 1 .. Len(b) : k = Len(a) + l
      BY <1>3, <2>4
    <3> QED BY <1>1, <3>1, <3>2 DEF Injective
  <2> QED BY <2>1, <2>2, <2>3, <2>4
<1>6. ToSet(t) \subseteq ToSet(a) \union ToSet(b)
  <2> SUFFICES ASSUME NEW i \in 1 .. Len(t) PROVE t[i] \in ToSet(a) \union ToSet(b)
    BY <1>2 DEF ToSet
  <2>1. CASE i \in 1 .. Len(a)
    BY <1>1, <1>2, <2>1 DEF ToSet
  <2>2. CASE \E j \in 1 .. Len(b) : i = Len(a) + j
    BY <1>1, <1>2, <2>2 DEF ToSet
  <2> QED BY <1>3, <2>1, <2>2
<1>7. ToSet(a) \subseteq ToSet(t)
  <2>1. \A i \in 1 .. Len(a) : i \in 1 .. Len(t)
    BY <1>1
  <2> QED BY <1>1, <1>2, <2>1 DEF ToSet
<1>8. ToSet(b) \subseteq ToSet(t)
  <2>1. \A i \in 1 .. Len(b) : Len(a) + i \in 1 .. Len(t)
    BY <1>1
  <2> QED BY <1>1, <1>2, <2>1 DEF ToSet
<1> QED BY <1>1, <1>5, <1>6, <1>7, <1>8 DEF t

LEMMA TickPlace ==
  ASSUME PlaceInv, NEW endings \in Endings, NEW raids, NEW expired \in 0 .. Len(ended),
         TickAll(endings, raids, expired)
  PROVE  PlaceInv' /\ KeepsSeats(seats, seats', Living')
<1> DEFINE over == DOMAIN endings
           gone == {ended[i] : i \in 1 .. expired}
           living == Living \ over
<1>1. /\ LegacyInv /\ Dates /\ Lists /\ Matched /\ Typed
      /\ universes \subseteq Ids /\ status \in [Ids -> Statuses]
      /\ Cardinality(universes) <= MaxUniverses
  BY DEF PlaceInv, LegacyInv, Typed
<1>2. /\ over \subseteq Living
      /\ universes' = universes \ gone
      /\ status' = [x \in Ids |-> IF x \in over THEN endings[x] ELSE status[x]]
      /\ ended' = Without(ended, gone) \o InCreationOrder(over)
      /\ inbound' = [x \in Ids |-> inbound[x] \union {y \in Ids : <<y, x>> \in raids}]
      /\ queued' \subseteq queued /\ reading' = reading
      /\ Match(waiting, gone, living, avoid)
  BY DEF TickAll, Dated, Answered
<1>3. \A x \in over : endings[x] \in {"ended", "abandoned"}
  BY DEF Endings
<1>4. gone \subseteq ToSet(ended)
  BY <1>1 DEF Dates, ToSet
<1> HIDE DEF gone, over
<1>5. Living \subseteq universes /\ gone \subseteq universes \ Living
  BY <1>1, <1>4 DEF Living, Dates
<1>6. Living' = living
  <2>1. \A x \in Ids : IsAlive(x)' <=> x \notin over /\ IsAlive(x)
    BY <1>2, <1>3 DEF IsAlive
  <2>2. universes' \subseteq Ids
    BY <1>1, <1>2
  <2> QED BY <1>1, <1>2, <1>5, <2>1, <2>2 DEF Living
<1>7. Hosting(living, universes')
  <2>1. universes' \subseteq Ids /\ universes' \in SUBSET universes
    BY <1>1, <1>2
  <2>2. IsFiniteSet(universes') /\ IsFiniteSet(universes)
        /\ Cardinality(universes') \in Nat /\ Cardinality(universes) \in Nat
    BY <1>1, <2>1, HostedAreFinite
  <2>3. Cardinality(universes') <= Cardinality(universes)
    BY <2>1, <2>2, FS_Subset
  <2>4. Cardinality(universes') <= MaxUniverses
    BY <1>1, <2>2, <2>3, PositionsAreFinite
  <2>5. living \subseteq universes'
    BY <1>2, <1>5
  <2> QED BY <2>1, <2>2, <2>4, <2>5 DEF Hosting
<1>8. /\ Len(waiting) < BubbleSize /\ Len(waiting) \in Nat
      /\ waiting \in Seq(Ids) /\ Injective(waiting) /\ ToSet(waiting) \subseteq Living
      /\ seats \in SeatMaps /\ Unique(seats)
      /\ \A b \in Bubbles, p \in Positions :
           /\ seats[b][p] \notin ToSet(waiting)
           /\ seats[b][p] # NoUniverse => seats[b][p] \in universes
      /\ \A x \in Living : x \in ToSet(waiting) \/ SitsIn(seats, x)
  BY <1>1 DEF Matched, Placed
<1>9. Len(waiting) <= BubbleSize
  BY <1>8, PositionsAreFinite
<1>10. \A b \in Bubbles, p \in Positions :
         /\ seats[b][p] \notin ToSet(waiting)
         /\ seats[b][p] # NoUniverse => seats[b][p] \in universes' \union gone
  BY <1>2, <1>8
<1>11. \A x \in living : x \in ToSet(waiting) \/ SitsIn(seats, x)
  BY <1>8
<1>12. gone \intersect universes' = {} /\ avoid \in [Ids -> SUBSET Ids]
  BY <1>1, <1>2 DEF Lists
<1> HIDE DEF living
<1>13. /\ Placed(waiting', seats', living, universes') /\ Len(waiting') < BubbleSize
       /\ KeepsSeats(seats, seats', living)
       /\ \A x \in ToSet(waiting') : Blocked(seats', living, avoid'[x])
       /\ overdue' \subseteq overdue /\ avoid' \in [Ids -> SUBSET Ids]
  BY <1>2, <1>7, <1>8, <1>9, <1>10, <1>11, <1>12, MatchPlaces
<1>14. Matched'
  BY <1>6, <1>13 DEF Matched
<1>15. Dates'
  <2>1. /\ Without(ended, gone) \in Seq(Ids) /\ Injective(Without(ended, gone))
        /\ ToSet(Without(ended, gone)) = (universes \ Living) \ gone
    BY <1>1, WithoutFiltered DEF Dates
  <2>2. over \subseteq Ids
    BY <1>1, <1>2, <1>5
  <2>3. /\ InCreationOrder(over) \in Seq(Ids) /\ Injective(InCreationOrder(over))
        /\ ToSet(InCreationOrder(over)) = over
    BY <2>2, CreationOrder
  <2>4. /\ ended' \in Seq(Ids) /\ Injective(ended')
        /\ ToSet(ended') = ((universes \ Living) \ gone) \union over
    BY <1>2, <2>1, <2>3, InjectiveTogether
  <2>5. universes' \ Living' = ((universes \ Living) \ gone) \union over
    BY <1>2, <1>5, <1>6 DEF living
  <2> QED BY <2>4, <2>5 DEF Dates
<1>16. Lists'
  BY <1>1, <1>2, <1>13 DEF Lists
<1>17. Cardinality(universes') <= MaxUniverses
  BY <1>7 DEF Hosting
<1> QED BY <1>1, <1>6, <1>13, <1>14, <1>15, <1>16, <1>17, TickLegacy DEF PlaceInv

LEMMA NextPlace ==
  ASSUME PlaceInv, [Next]_vars
  PROVE  PlaceInv' /\ KeepsSeats(seats, seats', Living')
<1>1. ASSUME NEW u \in Ids, NEW retire \in universes \union {NoUniverse}, Create(u, retire)
      PROVE  PlaceInv' /\ KeepsSeats(seats, seats', Living')
  BY <1>1, CreatePlace
<1>2. CASE Timer
  BY <1>2, TickPlace DEF Timer
<1>3. ASSUME UNCHANGED <<universes, status, ended, waiting, avoid, seats, inbound>>,
             overdue' \subseteq Ids, reading' \subseteq Ids, queued' \subseteq Ids
      PROVE  PlaceInv' /\ KeepsSeats(seats, seats', Living')
  <2>1. LegacyInv'
    BY NextLegacy DEF PlaceInv
  <2>2. Living' = Living
    BY <1>3 DEF Living, IsAlive
  <2>3. Dates' /\ Matched' /\ Lists'
    BY <1>3, <2>2 DEF PlaceInv, Dates, Matched, Lists
  <2>4. KeepsSeats(seats, seats', Living')
    BY <1>3 DEF KeepsSeats
  <2> QED BY <1>3, <2>1, <2>3, <2>4 DEF PlaceInv
<1>4. ASSUME NEW u \in Ids, Submit(u) \/ Enqueue(u)
      PROVE  PlaceInv' /\ KeepsSeats(seats, seats', Living')
  <2>1. UNCHANGED <<universes, status, ended, waiting, avoid, seats, inbound, overdue>>
    BY <1>4 DEF Submit, Enqueue, matching
  <2>2. reading' \subseteq Ids /\ queued' \subseteq Ids
    BY <1>4 DEF Submit, Enqueue, PlaceInv, Lists
  <2> QED BY <1>3, <2>1, <2>2 DEF PlaceInv, Lists
<1>5. CASE BecomeOverdue
  <2>1. ToSet(waiting) \subseteq Ids
    BY DEF PlaceInv, Matched, Placed, ToSet
  <2> QED BY <1>3, <1>5, <2>1 DEF BecomeOverdue, requests, PlaceInv, Lists
<1>6. CASE UNCHANGED vars
  BY <1>3, <1>6 DEF vars, matching, requests, PlaceInv, Lists
<1> QED BY <1>1, <1>2, <1>4, <1>5, <1>6 DEF Next

-----------------------------------------------------------------------------
LEMMA PlaceInvIsEnough == PlaceInv => TypeOK
<1> SUFFICES ASSUME PlaceInv PROVE TypeOK
  OBVIOUS
<1>1. Typed /\ Dates /\ Lists /\ Matched /\ Cardinality(universes) <= MaxUniverses
  BY DEF PlaceInv, LegacyInv
<1>2. ToSet(ended) \subseteq Ids /\ ToSet(waiting) \subseteq Ids
  BY <1>1 DEF Typed, Dates, Matched, Placed, ToSet
<1>3. seats \in [Bubbles -> [Positions -> Ids \union {NoUniverse}]]
  BY <1>1 DEF Matched, Placed, SeatMaps
<1> QED BY <1>1, <1>2, <1>3 DEF TypeOK, Typed, Statuses, Lists, Matched

LEMMA EveryoneIsSomewhere == PlaceInv => EveryoneIsPlaced
<1> SUFFICES ASSUME PlaceInv PROVE EveryoneIsPlaced
  OBVIOUS
<1> DEFINE seated(u) == {s \in Bubbles \X Positions : seats[s[1]][s[2]] = u}
           queuing(u) == {<<NoUniverse, i>> : i \in {j \in DOMAIN waiting : waiting[j] = u}}
           places(u) == seated(u) \union queuing(u)
<1>1. /\ waiting \in Seq(Ids) /\ Injective(waiting) /\ ToSet(waiting) \subseteq Living
      /\ DOMAIN waiting = 1 .. Len(waiting)
      /\ Unique(seats)
      /\ \A b \in Bubbles, p \in Positions :
           /\ seats[b][p] \notin ToSet(waiting)
           /\ seats[b][p] # NoUniverse => seats[b][p] \in universes
      /\ \A x \in Living : x \in ToSet(waiting) \/ SitsIn(seats, x)
  BY DEF PlaceInv, Matched, Placed
<1>2. /\ universes \subseteq Ids /\ Living \subseteq universes /\ NoUniverse \notin Ids
      /\ ended \in Seq(Ids) /\ Injective(ended) /\ ToSet(ended) = universes \ Living
  BY NoUniverseIsNoId DEF PlaceInv, LegacyInv, Typed, Dates, Living
<1>3. ASSUME NEW u \in Living PROVE Cardinality(places(u)) = 1
  <2>1. CASE u \in ToSet(waiting)
    <3>1. PICK i \in 1 .. Len(waiting) : waiting[i] = u
      BY <1>1, <2>1 DEF ToSet
    <3>2. seated(u) = {}
      BY <1>1, <2>1
    <3>3. {j \in DOMAIN waiting : waiting[j] = u} = {i}
      BY <1>1, <3>1 DEF Injective
    <3>4. places(u) = {<<NoUniverse, i>>}
      BY <3>2, <3>3
    <3> QED BY <3>4, FS_Singleton
  <2>2. CASE u \notin ToSet(waiting)
    <3>1. PICK b \in Bubbles, p \in Positions : seats[b][p] = u
      BY <1>1, <2>2 DEF SitsIn
    <3>2. seated(u) = {<<b, p>>}
      BY <1>1, <1>2, <3>1 DEF Unique
    <3>3. {j \in DOMAIN waiting : waiting[j] = u} = {}
      BY <2>2 DEF ToSet
    <3>4. places(u) = {<<b, p>>}
      BY <3>2, <3>3
    <3> QED BY <3>4, FS_Singleton
  <2> QED BY <2>1, <2>2
<1>4. ASSUME NEW u \in Ids \ universes PROVE places(u) = {}
  <2>1. {j \in DOMAIN waiting : waiting[j] = u} = {}
    BY <1>1, <1>2 DEF ToSet
  <2>2. seated(u) = {}
    BY <1>1, <1>2
  <2> QED BY <2>1, <2>2
<1>5. Len(ended) = Cardinality(universes \ Living)
  <2>1. Len(ended) \in Nat /\ DOMAIN ended = 1 .. Len(ended)
    BY <1>2
  <2>2. ended \in [1 .. Len(ended) -> ToSet(ended)]
    BY <1>2, <2>1 DEF ToSet
  <2>3. \A x \in ToSet(ended) : \E i \in 1 .. Len(ended) : ended[i] = x
    BY <2>1 DEF ToSet
  <2>4. ended \in Bijection(1 .. Len(ended), ToSet(ended))
    BY <1>2, <2>2, <2>3 DEF Bijection, Injection, Surjection, IsInjective, Injective
  <2>5. ExistsBijection(1 .. Len(ended), ToSet(ended))
    BY <2>4 DEF ExistsBijection
  <2> QED BY <1>2, <2>1, <2>5, FS_CountingElements
<1> QED BY <1>2, <1>3, <1>4, <1>5 DEF EveryoneIsPlaced

LEMMA BlockedHaveNowhere == PlaceInv => NoSeatIsLeftOpen
<1> SUFFICES ASSUME PlaceInv, NEW u \in ToSet(waiting), NEW b \in Bubbles, IsJoinable(b)
             PROVE  Mates(b) \intersect avoid[u] # {}
  BY DEF NoSeatIsLeftOpen
<1>1. Blocked(seats, Living, avoid[u]) /\ Unique(seats)
  BY DEF PlaceInv, Matched, Placed
<1>2. Living \subseteq Ids /\ NoUniverse \notin Living
  BY NoUniverseIsNoId DEF PlaceInv, LegacyInv, Typed, Living
<1>3. Mates(b) \subseteq Ids /\ IsFiniteSet(Mates(b)) /\ Cardinality(Mates(b)) \in Nat
  BY <1>2, HostedAreFinite DEF Mates
<1>4. Cardinality(Mates(b)) >= 1 /\ Cardinality(Mates(b)) <= BubbleSize - 1
  BY PositionsAreFinite DEF IsJoinable
<1>5. Company(seats[b], Living) # {}
  <2>1. Mates(b) # {}
    BY <1>4, FS_EmptySet
  <2> QED BY <2>1 DEF Mates, Company
<1>6. \E p \in Positions : IsOpen(seats[b], p, Living)
  <2> SUFFICES ASSUME \A p \in Positions : seats[b][p] \in Living PROVE FALSE
    BY DEF IsOpen
  <2> DEFINE g == [p \in Positions |-> seats[b][p]]
  <2>1. \A p \in Positions : g[p] \in Mates(b)
    BY DEF Mates
  <2>2. \A p, q \in Positions : g[p] = g[q] => p = q
    BY <1>1, <1>2 DEF Unique
  <2>3. g \in Injection(Positions, Mates(b))
    BY <2>1, <2>2 DEF Injection, IsInjective
  <2> HIDE DEF g
  <2>4. Cardinality(Positions) <= Cardinality(Mates(b))
    BY <1>3, <2>3, FS_Injection
  <2> QED BY <1>3, <1>4, <2>4, PositionsAreFinite
<1>7. Company(seats[b], Living \intersect avoid[u]) # {}
  BY <1>1, <1>5, <1>6 DEF Blocked, Welcoming
<1> QED BY <1>7 DEF Company, Mates

\* Whatever universes come, end and go, every variable keeps its type; the limit
\* on universes holds, and fewer wait than make a bubble, so that formBubble
\* always takes the whole queue.
THEOREM TypeCorrect == Spec => []TypeOK
<1>1. PlaceInv /\ [Next]_vars => PlaceInv'
  BY NextPlace
<1> QED BY <1>1, InitPlace, PlaceInvIsEnough, PTL DEF Spec

\* A universe that runs waits or has exactly one position, in any number of
\* bubbles of any size; and endedAt lists each hosted one that has ended, once.
THEOREM EveryoneStaysPlaced == Spec => []EveryoneIsPlaced
<1>1. PlaceInv /\ [Next]_vars => PlaceInv'
  BY NextPlace
<1> QED BY <1>1, InitPlace, EveryoneIsSomewhere, PTL DEF Spec

\* Matchmaking is complete: between two calls whoever waits could only sit down
\* beside somebody it avoids, whatever was vacated or formed meanwhile.
THEOREM OpenSeatsAreTaken == Spec => []NoSeatIsLeftOpen
<1>1. PlaceInv /\ [Next]_vars => PlaceInv'
  BY NextPlace
<1> QED BY <1>1, InitPlace, BlockedHaveNowhere, PTL DEF Spec

\* While a universe runs no request, tick, eviction or match moves it.
THEOREM SeatsStand == Spec => SeatsHoldStill
<1>1. PlaceInv /\ [Next]_vars => PlaceInv'
  BY NextPlace
<1>2. PlaceInv /\ [Next]_vars =>
        [\A b \in Bubbles, p \in Positions :
           seats[b][p] \in Living \intersect Living' => seats'[b][p] = seats[b][p]]_vars
  BY NextPlace DEF KeepsSeats
<1> QED BY <1>1, <1>2, InitPlace, PTL DEF Spec, SeatsHoldStill
=============================================================================
