-------------------------------- MODULE Lobby --------------------------------
(***************************************************************************)
(* The lobby service (packages/lobby/src: lobby, bubble, universe-host).   *)
(* Players create universes and may retire the one they leave; the lobby   *)
(* seats them in bubbles, ticks every one of them from one timer, and      *)
(* drops those that ended.  A submitted god action waits for its           *)
(* universe's next tick; its request body is read asynchronously, so the   *)
(* universe may be another's, ended or gone when the body is there.        *)
(*                                                                         *)
(* A universe is known by its place in the order of creation, which        *)
(* `universes` iterates in.  Clock readings are replaced by what they are  *)
(* compared with: a waiting universe is overdue from some moment on, an    *)
(* ended one expires in some tick, and owners may leave theirs untouched   *)
(* or not.  A bubble all of whose positions are empty is one deleted.      *)
(***************************************************************************)
EXTENDS Integers, FiniteSets, SequencesExt

CONSTANTS
  MaxCreated,     \* bound: universes ever created
  MaxUniverses,   \* Lobby.maxUniverses
  BubbleSize,     \* Lobby.bubbleSize
  MaxRaids,       \* bound: raids that reach their target
  Submitters      \* bound: the universes whose owners submit actions

ASSUME LobbyAssumption ==
  /\ {MaxCreated, MaxRaids} \subseteq Nat
  /\ MaxUniverses \in Nat \ {0}
  /\ BubbleSize \in Nat \ {0, 1}

Ids == 1 .. MaxCreated
NoUniverse == 0
Bubbles == 1 .. MaxUniverses
Positions == 1 .. BubbleSize

ASSUME SubmittersAssumption == Submitters \subseteq Ids

VARIABLES
  universes,      \* the universes hosted
  status,         \* id -> unused, running, ended, or abandoned
  ended,          \* endedAt: hosted universes in the order they ended
  waiting,        \* the queue for a bubble
  overdue,        \* have waited for matchAfterMs
  avoid,          \* id -> universes it should not be seated beside
  seats,          \* bubble -> position -> universe or NoUniverse
  inbound,        \* id -> universes that raided it
  reading,        \* submits to these are authorized, their bodies not read
  queued,         \* universes with an action for the next tick
  carried         \* id -> the universe whose legacy it began with

matching == <<waiting, overdue, avoid, seats>>
requests == <<reading, queued>>
vars == <<universes, status, ended, matching, inbound, requests, carried>>

IsAlive(u) == status[u] = "running"
Living == {u \in universes : IsAlive(u)}
Fresh(u) == status[u] = "unused" /\ \A x \in Ids : x < u => status[x] # "unused"

\* The code's filters and walks.  (A recursive function, so that what it
\* returns can be proved.)
Without(seq, gone) ==
  LET kept[n \in 0 .. Len(seq)] ==
        IF n = 0 THEN <<>>
        ELSE IF seq[n] \in gone THEN kept[n - 1] ELSE Append(kept[n - 1], seq[n])
  IN  kept[Len(seq)]

\* A walk of `universes`, which keeps the order of creation.
InCreationOrder(some) == Without([u \in Ids |-> u], Ids \ some)

-----------------------------------------------------------------------------
(* Matchmaking, as it maps a queue and the bubbles to what they may become. *)
(* living is who is alive then, shunned whom the newcomer should avoid.     *)

\* Bubble.openSlot: an ended universe's position is open at once.
IsOpen(bubble, p, living) == bubble[p] \notin living

Company(bubble, living) == {p \in Positions : bubble[p] \in living}

\* Mutant: a raider is avoided even when it has ended.
WelcomingWithoutAnyRaider(all, living, shunned) ==
  {b \in Bubbles : /\ Company(all[b], living) # {}
                   /\ Company(all[b], shunned) = {}
                   /\ \E p \in Positions : IsOpen(all[b], p, living)}

\* seatInBubble: bubbles with someone to meet, room, and nobody to avoid.
Welcoming(all, living, shunned) ==
  {b \in Bubbles : /\ Company(all[b], living) # {}
                   /\ Company(all[b], living \intersect shunned) = {}
                   /\ \E p \in Positions : IsOpen(all[b], p, living)}

Loneliest(all, living, shunned) ==
  {b \in Welcoming(all, living, shunned) :
     \A c \in Welcoming(all, living, shunned) :
       Cardinality(Company(all[b], living)) <= Cardinality(Company(all[c], living))}

\* Bubble.add: the first open position.
Seated(all, b, u, living) ==
  LET p == CHOOSE q \in Positions :
             /\ IsOpen(all[b], q, living)
             /\ \A x \in Positions : IsOpen(all[b], x, living) => q <= x
  IN  [all EXCEPT ![b][p] = u]

\* Mutant: who is seated stays in the queue.
TriedKeepingPlace(room, u, living, shunned) ==
  LET there == Loneliest(room.seats, living, shunned)
      still == [room EXCEPT !.waiting = Append(@, u)] IN
  {still} \union {[still EXCEPT !.seats = Seated(@, b, u, living)] : b \in there}

\* One universe of the queue: seated in some loneliest bubble, or left waiting.
Tried(room, u, living, shunned) ==
  LET there == Loneliest(room.seats, living, shunned) IN
  IF there = {}
  THEN {[room EXCEPT !.waiting = Append(@, u)]}
  ELSE {[room EXCEPT !.seats = Seated(@, b, u, living)] : b \in there}

Turn(room, u, living, may, shunned) ==
  IF u \in may THEN Tried(room, u, living, shunned)
  ELSE {[room EXCEPT !.waiting = Append(@, u)]}

\* One after the other, those of the queue who may try for a seat.
Seating(queue, all, living, may, shunned) ==
  LET rooms[n \in 0 .. Len(queue)] ==
        IF n = 0 THEN {[waiting |-> <<>>, seats |-> all]}
        ELSE UNION {Turn(r, queue[n], living, may, shunned[queue[n]]) : r \in rooms[n - 1]}
  IN  rooms[Len(queue)]

\* Step 1 of match: oldest first, each avoiding its raiders.  The dead leave.
SeatAll(queue, all, living, shunned) ==
  Seating(Without(queue, Ids \ living), all, living, living, shunned)

\* Mutant: no short bubble is formed, however long its members wait.
ReadyWhenFull(queue, late) == Len(queue) >= BubbleSize

\* Steps 2 and 3: a full batch, or two who have waited long enough.
Ready(queue, late) ==
  Len(queue) >= BubbleSize \/ (Len(queue) >= 2 /\ \E i \in DOMAIN queue : queue[i] \in late)

\* formBubble.  The queue never outgrows one bubble (TypeOK).
Formed(room, late) ==
  IF ~Ready(room.waiting, late) THEN room
  ELSE LET b == CHOOSE x \in Bubbles : \A p \in Positions : room.seats[x][p] = NoUniverse
           batch == [p \in Positions |-> IF p <= Len(room.waiting) THEN room.waiting[p]
                                         ELSE NoUniverse]
       IN  [waiting |-> <<>>, seats |-> [room.seats EXCEPT ![b] = batch]]

\* Step 4: who has waited long enough sits down even beside a raider.
SeatLate(room, living, late) ==
  Seating(room.waiting, room.seats, living, late, [u \in Ids |-> {}])

\* Mutant: the positions behind one that is vacated close up.
VacatedClosingUp(bubble, gone) ==
  LET rest == Without(bubble, gone) IN
  [p \in Positions |-> IF p <= Len(rest) THEN rest[p] ELSE NoUniverse]

\* Bubble.remove, of all who are evicted.
Vacated(bubble, gone) ==
  [p \in Positions |-> IF bubble[p] \in gone THEN NoUniverse ELSE bubble[p]]

\* match, after `gone` have been evicted.
Match(queue, gone, living, shunned) ==
  \E room \in SeatAll(Without(queue, gone), [b \in Bubbles |-> Vacated(seats[b], gone)],
                       living, shunned) :
    \E done \in SeatLate(Formed(room, overdue), living, overdue) :
      /\ waiting' = done.waiting
      /\ seats' = done.seats
      /\ overdue' = overdue \intersect ToSet(done.waiting)
      /\ avoid' = [u \in Ids |-> IF u \in ToSet(done.waiting) THEN shunned[u] ELSE {}]

-----------------------------------------------------------------------------
\* UniverseHost.legacy: only an ending of the rules, or of the server's cap.
Legacy(u) == IF u # NoUniverse /\ status[u] = "ended" THEN u ELSE NoUniverse

\* Mutant: an ended universe is not dropped when it is retired.
RetiredIfRunning(retire) == {retire} \intersect Living

\* evict, of the universe whose owner leaves it.
Retired(retire) == {retire} \intersect universes

\* makeRoom: what ended longest ago goes, and only if there is no room.
Displaced(stay) ==
  IF Cardinality(stay) >= MaxUniverses /\ ended # <<>> THEN {Head(ended)} ELSE {}

\* Mutant: the limit is off by one.
RoomForOneMore(kept) == Cardinality(kept) <= MaxUniverses

\* create is answered 503 without it.
RoomFor(kept) == Cardinality(kept) < MaxUniverses

\* POST /api/create; retire comes with its owner's token, or is NoUniverse.
Create(u, retire) ==
  LET stay == universes \ Retired(retire)
      gone == Retired(retire) \union Displaced(stay)
      kept == universes \ gone
  IN
  /\ Fresh(u)
  /\ RoomFor(kept)
  /\ universes' = kept \union {u}
  /\ status' = [status EXCEPT ![u] = "running"]
  /\ carried' = [carried EXCEPT ![u] = Legacy(retire)]
  /\ ended' = Without(ended, gone)
  /\ Match(Append(waiting, u), gone, (Living \ gone) \union {u},
           [avoid EXCEPT ![u] = IF retire = NoUniverse THEN {} ELSE inbound[retire]])
  /\ UNCHANGED <<inbound, requests>>

\* POST submit, up to the await on its body.
Submit(u) ==
  /\ u \in (universes \intersect Submitters) \ reading
  /\ reading' = reading \union {u}
  /\ UNCHANGED <<universes, status, ended, matching, inbound, queued, carried>>

\* POST submit, from there on: the host is asked, not the lobby.
Enqueue(u) ==
  /\ u \in reading
  /\ reading' = reading \ {u}
  /\ queued' = IF IsAlive(u) THEN queued \union {u} ELSE queued
  /\ UNCHANGED <<universes, status, ended, matching, inbound, carried>>

-----------------------------------------------------------------------------
\* Who gets an entry in endedAt in one tickAll.
Dated(endings) == DOMAIN endings

\* Mutant: the tick in which a universe ends leaves its action unanswered.
AnsweredUnlessOver(over) == Living \ over

\* UniverseHost.tick answers what is queued, whatever becomes of the universe.
Answered(over) == universes

\* A raid reaches a bubble-mate that is alive when the raider's turn comes.
\* (One that has not stepped once cannot be raided; that is left open here.)
MayRaid(raider, target, over) ==
  /\ {raider, target} \subseteq Living /\ raider # target
  /\ \E b \in Bubbles : {raider, target} \subseteq {seats[b][p] : p \in Positions}
  /\ target < raider => target \notin over

\* tickAll.  `endings` maps the universes that end in it to how: by the rules
\* or at the server's cap, or with nothing to leave, at a cap of their own or
\* untouched by their owners for idleAfterMs.  The first `expired` of those
\* that ended before have been ended for evictAfterMs.
TickAll(endings, raids, expired) ==
  LET over == DOMAIN endings
      gone == {ended[i] : i \in 1 .. expired}
  IN
  /\ over \subseteq Living
  /\ \A r \in raids : MayRaid(r[1], r[2], over)
  /\ universes' = universes \ gone
  /\ status' = [u \in Ids |-> IF u \in over THEN endings[u] ELSE status[u]]
  /\ UNCHANGED <<reading, carried>>
  /\ queued' = queued \ Answered(over)
  /\ inbound' = [u \in Ids |-> inbound[u] \union {x \in Ids : <<x, u>> \in raids}]
  /\ ended' = Without(ended, gone) \o InCreationOrder(Dated(endings))
  /\ Match(waiting, gone, Living \ over, avoid)

\* matchAfterMs has passed since the oldest of them was queued.
BecomeOverdue ==
  /\ \E u \in ToSet(waiting) \ overdue :
       /\ \A x \in ToSet(waiting) \ overdue : u <= x
       /\ overdue' = overdue \union {u}
  /\ UNCHANGED <<universes, status, ended, waiting, avoid, seats, inbound, requests, carried>>

-----------------------------------------------------------------------------
Init ==
  /\ universes = {}
  /\ status = [u \in Ids |-> "unused"]
  /\ overdue = {} /\ reading = {} /\ queued = {}
  /\ ended = <<>> /\ waiting = <<>>
  /\ avoid = [u \in Ids |-> {}] /\ inbound = [u \in Ids |-> {}]
  /\ seats = [b \in Bubbles |-> [p \in Positions |-> NoUniverse]]
  /\ carried = [u \in Ids |-> NoUniverse]

Endings == UNION {[over -> {"ended", "abandoned"}] : over \in SUBSET Living}

\* One god action a tick: a universe opens at most one portal.
Raids ==
  LET landed == {r \in Ids \X Ids : r[1] \in inbound[r[2]]} IN
  {new \in SUBSET (Living \X Living) :
     /\ \A x, y \in new : x[1] = y[1] => x = y
     /\ Cardinality(landed \union new) <= MaxRaids}

Timer ==
  \E endings \in Endings, raids \in Raids, expired \in 0 .. Len(ended) :
    TickAll(endings, raids, expired)

Next ==
  \/ \E u \in Ids : \/ \E retire \in universes \union {NoUniverse} : Create(u, retire)
                    \/ Submit(u) \/ Enqueue(u)
  \/ Timer
  \/ BecomeOverdue

\* setInterval ticks, whatever the universes do in a tick; the clock goes on.
Fairness == WF_vars(TickAll(<<>>, {}, 0)) /\ WF_vars(BecomeOverdue)

Spec == Init /\ [][Next]_vars /\ Fairness

-----------------------------------------------------------------------------
Mates(b) == {seats[b][p] : p \in Positions} \intersect Living

\* b has company and a position no running universe holds.
IsJoinable(b) == Cardinality(Mates(b)) \in 1 .. BubbleSize - 1

TypeOK ==
  /\ {universes, overdue, reading, queued} \subseteq SUBSET Ids
  /\ Cardinality(universes) <= MaxUniverses
  /\ status \in [Ids -> {"unused", "running", "ended", "abandoned"}]
  /\ {ToSet(ended), ToSet(waiting)} \subseteq SUBSET Ids
  /\ Len(waiting) < BubbleSize   \* so a bubble always takes the whole queue
  /\ {avoid, inbound} \subseteq [Ids -> SUBSET Ids]
  /\ seats \in [Bubbles -> [Positions -> Ids \union {NoUniverse}]]
  /\ carried \in [Ids -> Ids \union {NoUniverse}]

\* Whatever universes come, end, are displaced or retired: one that runs is in
\* the queue or has exactly one position, only hosted ones have either, and
\* endedAt, by which makeRoom and tickAll drop, has each hosted universe that
\* no longer runs, once.
EveryoneIsPlaced ==
  LET places(u) == {s \in Bubbles \X Positions : seats[s[1]][s[2]] = u}
                   \union {<<NoUniverse, i>> : i \in {j \in DOMAIN waiting : waiting[j] = u}}
  IN  /\ \A u \in Living : Cardinality(places(u)) = 1
      /\ \A u \in Ids \ universes : places(u) = {}
      /\ ToSet(ended) = universes \ Living
      /\ Len(ended) = Cardinality(universes \ Living)

\* lobby.ts 441-445.  Between two calls nobody waits while a bubble with
\* company and without raiders has an open position, an ended one's included.
NoSeatIsLeftOpen ==
  \A u \in ToSet(waiting), b \in Bubbles : IsJoinable(b) => Mates(b) \intersect avoid[u] # {}

\* lobby.ts 327-330.  A legacy is paid once, and only for an ending of the
\* rules or of the server's cap: never for a run abandoned, cut short or left.
LegacyIsPaidOnce ==
  \A u \in Ids : carried[u] # NoUniverse =>
    /\ status[carried[u]] = "ended" /\ carried[u] \notin universes
    /\ \A x \in Ids : carried[x] = carried[u] => x = u

\* bubble.ts 51-54.  While a universe runs it keeps its position, so that a
\* seat number of its bubble-mates always names it.
SeatsHoldStill ==
  [][\A b \in Bubbles, p \in Positions :
       seats[b][p] \in Living \intersect Living' => seats'[b][p] = seats[b][p]]_vars

\* Once universes stop coming, the wait ends for all, beside a raider if need
\* be, but for a lone universe to which no bubble is open.
NobodyWaitsForever ==
  []<>(\A u \in ToSet(waiting) : Len(waiting) = 1 /\ \A b \in Bubbles : ~IsJoinable(b))

\* Each queued action is answered, unless its universe is retired or displaced
\* before the next tick.
QueuedIsAnswered == \A u \in Submitters : u \in queued ~> u \notin queued \/ u \notin universes
=============================================================================
