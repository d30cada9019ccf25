# A TLA+ verification of Multiverse Mages

Multiverse Mages is a deterministic simulation of universes whose players are
gods, with the services that let universes meet: an authoritative match server,
a lobby that hosts many universes at once, and a headless harness that runs
thousands of them. The rules inside a universe are sequential, seeded and pure;
what is hard to test is around them: who may act when, what survives a
disconnect or a crash, what a late event may still change. That is what is
specified here.

The modules are plain TLA+, one per component. TLC checks each on a small
instance (`MC*.tla`, `MC*.cfg`), TLAPS proves theorems about them for every
value of the constants (`*_proofs.tla`), and `PROJECT.json` maps every
definition to the source lines it stands for.

    tlc -workers 2 -config MCLobby.cfg MCLobby
    tlapm Lobby_proofs.tla

## 1. Inventory

Paths are relative to `src/packages`.

| Component | State it keeps | Operations | Modelled in |
| --- | --- | --- | --- |
| Worker pool, `mc-harness/src/pool.ts`, `worker-main.ts` | queue cursor, results, one slot per worker (generation, task, two timers, ready flag), the promise | spawn, pump, worker messages, error, exit, run and boot timeouts, settle | `WorkerPool`, `TaskLedger` |
| Tick assembly, `server/src/ordering.ts` | winning submission per slot, refusals | offer, refuse, close | `TickAssembly` |
| Lockstep match, `server/src/match.ts` and the match half of `host.ts`, `desync.ts`, `admission.ts` | open tick, record, ending, published hashes, pending portal, sequence and budget per peer | action, deadline, advance, raid, checkpoint, leave | `LockstepMatch` |
| Match host, `server/src/host.ts`, `transport.ts` | peers, name index, challenges, matches, settled matches, grace entries | connect, hello, challenge, accept, decline, checkpoint, leave, disconnect, pump | `MatchHost` |
| Universe storage, `server/src/storage.ts` and `host.ts` | the record file, its temporary file, a peer's prestige, a match's stake | load, challenge, award, save, crash | `UniverseStore` |
| Lobby, `lobby/src/lobby.ts`, `bubble.ts`, `universe-host.ts` | universes, bubbles, the queue, endedAt, queued actions, legacies | create and retire, matchmaking, tickAll, makeRoom, submit | `Lobby` |
| Bubble coordinator, `bubble/src` | members, alive flags, cleared | add, remove, extinction, status, clear; conquest claims only read | `Bubble`, `BubbleClear` |
| Universe host, `universe-host/src` | session, tick timer, speed, coordinator link | tick, start, stop, speed, heartbeat, extinction; god messages | `Bubble`, without the god's side |
| Raid rules, `rules-raid/src`, and the raid system of `scenario/src` | rosters, masks, hit points, objectives, portal, phase, rule lock, purses; what the raid writes into two worlds | open, deploy, directives, tick, terminate, resolve, apply, close | `Raid`, `RaidSetting` |
| Simulation kernel, `sim-core/src` | the two-scale clock; entity handles, component columns | advance, enter, leave; create, destroy, step | the clock: `StepClock` |
| Agent session, `agent-api/src` | one episode, its mask and outcome | submit, observe, reset | environment of the match |
| Rules, `rules-magic`, `rules-world`, `coordination`, `scenario`, `primitives`, `state`, `content` | the content of a universe; who holds which knowledge | one world tick; `createInstance` | what `createInstance` lets into a mind: `RaidSetting`; the law: `RaidSetting` |
| Sweep analysis, gym bridge, routing, codec, client, tools | — | — | not modelled |

How they interact. A match host owns matches; a match owns a tick assembly and
one session per slot. Sockets call the host's handlers, a `setInterval` calls
`pump`, and both run to completion on one thread, so a handler is one action.
At a match's start the host copies the participants' universe records, and at
its end it hands them to storage, whose promises settle later, between any
handlers. The lobby owns universe hosts and bubbles; HTTP handlers and one
timer call it, and only a request body is awaited. The pool runs on the main
thread, and its workers are real threads that talk to it by messages. Universe
hosts tick by timers of their own and report to a bubble coordinator over one
connection each. Inside a universe a raid runs to its end within one step of the
world: it stops both universes' clocks, works on copies and claims of both worlds,
and writes what it came to into them before the clocks go on; between its ticks
both gods act.

What is hard, and what makes each component correct:

* **Worker pool.** Events of a terminated worker arrive after its replacement
  started; two timers race the answers; a failing spawn rejects a sweep whose
  other threads run. Correct: each task one verdict, about the thread it was
  handed to; everything waited for is timed; no thread outlives the promise.
* **Match.** Submissions arrive in any order and are judged against a state
  that later changes. Correct: the batch depends on what was submitted and not
  on when; only legal actions are applied; the record accounts for the
  universes; the first ending stands; no one can stall a match.
* **Match host.** Participants drop, come back, sit in two matches, and leave
  entries behind. Correct: name index, seats and grace entries agree.
* **Storage.** A load, an award and a save interleave; the process dies.
  Correct: the file is whole, awards are carried and recorded.
* **Bubble.** The coordinator hears of a death late, twice, in either of two frames,
  or never. Correct: one promotion, of a universe whose every fellow member is
  extinct, and no deciding death goes unnoticed.
* **Raid.** Law, masks, claims on cohorts, purses and pupils are read at one
  moment and used at another, with rule changes, deaths and withdrawals between;
  what is stolen or taught may exclude what its receiver holds.
  Correct: all select by the law in force, nothing is lent or paid twice, the dead
  learn nothing and no mind gets round an exclusion, what happened stays happened,
  the clocks resume, and it ends.
* **Lobby.** Universes arrive, end, expire, are retired and displaced in any
  order. Correct: every running universe has exactly one place, its seat number
  means the same universe while that runs, and nobody waits or is paid twice.

`PROJECT.json` lists 40 hazards at their lines, each with the properties that
would catch it or the reason none does.

## 2. The modules

### TaskLedger and WorkerPool

`TaskLedger` is what `runTasksOnPool` promises: one result per task, written
once, and a promise that settles once. `WorkerPool` is the implementation. Its
`pool` variables are the closure's locals, one function per `Slot` field;
`OnReady`, `OnAnswer`, `OnNonsense`, `OnError`, `OnExit`, `DropStale`,
`RunTimeout` and `BootTimeout` are the handlers, each with all it does before
it returns (`onSlotLost`, respawn and the `pump` that follows are one step).
`Boot`, `Execute` and `Break` are the threads'. A thread is a slot with a
generation; `mail` holds the events not yet handled, those of terminated
threads included. What a run computes is its verdict class.

### TickAssembly and LockstepMatch

`TickAssembly` is `ordering.ts` as operators on an assembly, so that
`LockstepMatch` uses it and the proofs speak of it alone. In `LockstepMatch` a
universe is the log of what was applied to it and its hash is that log, so two
hashes are equal exactly when the same was done. Masks, episode endings and
raid outcomes are the simulation's choice. `Advance` is the whole of
`MatchHost.advance`: close, apply, publish, raid, end. `AdvanceThrows` is the
same call when a session refuses to go on; nothing catches it, and the server
goes down. `OnAction` has the early returns of `onAction` in their order:
ended match, admission budget, sequence, portal intent, submit.

### MatchHost

One variable per map of the class (`byParticipant`, `challenges`, `settled`,
`disconnected`, ...), one action per verb, `Disconnect` for a closed socket,
and `Expire` and `Pump` for the two loops of `pump`. Which of a pump's matches
and windows are due is chosen by the clock; splitting the loops over their
entries is sound because an entry's handling reads nothing another one's
writes, but for the entries `endMatch` deletes, and a deleted entry's `Expire`
is disabled as its iteration is skipped. Inside a match only `tick` moves.

### UniverseStore

Follows one universe through challenge, award, save, load and crash. Files are
inodes: a save that opens the temporary name truncates the file that is there,
and a rename gives it the other name. `Open`, `Write` and `Rename` are the
steps of `FsStorage.saveUniverse`, and any handler or a `Crash` may fall between
them. Universe ids are declared by clients; it is assumed that one player at a
time plays an id.

### Lobby

Universes are known by their order of creation, which is the iteration order of
the `universes` map. Matchmaking is one operator, `Match`, with the four steps
of the source as operators on the queue, the bubbles and the positions; a step that
walks the queue is `Seating`, a recursive function with one `Turn` for each that waits.
`Match` is the last thing in `Create` and `TickAll`, as in the code. `TickAll` ticks every
universe: which end and how, which raids land and which expire are parameters.
Clock readings are replaced by what they are compared with: `overdue`, and the
order of `endedAt` in `ended`. Positions within a new bubble are given in queue
order; the code sorts by a random id, which no property tells apart. Between
two calls the queue is shorter than a bubble (part of `TypeOK`) and a call adds at
most one universe to it, so the loop that forms bubbles is an IF. `abandoned` also stands
for a run cut short by a cap of its client's choosing: neither leaves a legacy.

### BubbleClear and Bubble

`BubbleClear` is the promise: universes join, leave and die, and one of them may be
promoted, once, when every other member is extinct. `Bubble` is the coordinator
with its hosts. `wire` is a host's connection: frames arrive in order, and when it
closes, any tail of what was in flight is lost and a `"closed"` frame ends it. A
status that says the universe is dead is a `"last beat"`. `alive` is the truth and
`believed` what the coordinator has been told; the refinement maps `extinct` to the
truth, so the promise is about universes and not about reports. `timer` tells a
pending timeout from one that has fired and whose handle is still set, since
`startTicking` looks at the handle only. A universe registers while it is alive;
hosts ticked by a god's client have no timer. Two things are the reader's to know.
Nothing in the repository wires a host's frames to the coordinator, and they do not
fit by themselves: a host sends `heartbeat` frames, `updateStatus` takes a `status`.
`Deliver` takes the one for the other and passes the flag `alive` on. And the callback
submits to its session, which throws when the episode is over (`session.ts`); the
timer is then not armed again. `Tick` leaves that out: the hosts here die by
`reportExtinction` only.

### RaidSetting, StepClock and Raid

`RaidSetting` has the two universes and the numbers of a raid, with the pure parts
(`permits`, `rulesetWith`, `changesLegality`, the legal mask), and with what a mind may
hold: `Acquired` is `KnowledgeSubsystem.createInstance` as the write-back calls it. A
cell may exclude another. Who holds a node of the one and is given a node of the other
is refused it, or loses all she held of the first, as the content says. A side screens
its minds so if its subsystem was built with the exclusions (`Screening`): a player's
universe is, the rival that the scenario builds is not. Handles are naturals,
because the code breaks ties by ascending handle. `StepClock` is sim-core's clock,
instantiated once per universe as the specification each must implement. `Raid`
follows a raid through its stages:

* `OpenPortal`, `DeployRaid`: the gate, both clocks entered, the rosters drawn from
  living mages and from soldiers, in whole detachments and an odd one by a draw.
* `ChangeRule`, `Levy`, `Mend`, `Shield`: the gods' directives with phase, purse,
  lock and refusals, between any two ticks.
* `Step`: `stepEngagement` in the order of its phases. Intents are judged against
  the state at the tick's start, thefts against what this tick's damage left.
* `Resolve`, `ApplyOutcome`, `ClosePortal`: casualties with the stranded, lessons of
  exposure, books carried off and burnt, cohorts billed, favor paid, marks on the
  constitution, clocks released. What a thief read is given to her in the order she
  read it, what a pupil was taught by ascending node, and each gift meets what the
  ones before it left (`Learned`). What is acquired so is held too shallowly to be
  cast, so `adept` only ever shrinks.

What is abstracted: positions, ranges and lines of sight (who reaches whom is
chosen), how hard a blow is and what wards and concealment avert (a struck
combatant is left with any smaller hit points), area denial and blink (folded into
who is struck), chance. Left out: prepared spells (the standard cast hook only), more
than one summon per cast, more than one cohort of soldiers and one of others a side,
captured Vis and the victor, decay, study and births between raids, the tracks of
`exclusion.ts` (they gate research, teaching and the gateway, and `createInstance` does
not ask them), the attacker's own ruleset and favor at the gate, attackers' mages that are not raiders. The roster
cap is the mages and squads given.

## 3. What TLC checks

| Run | Bounds | Distinct states |
| --- | --- | --- |
| `MCWorkerPool` | 3 tasks, 2 workers, 1 fault, spawns may fail | 775,616 |
| `MCLockstepMatch` | 2 slots, 2 kinds, 2 ticks, 2 submissions a tick, 3 frames | 1,574,023 |
| `MCMatchHost` | 2 players, 3 connections, 2 challenges, 2 matches, 2 ticks, 1 settled match | 429,032 |
| `MCUniverseStore` | prestige 0–2, 2 matches, 1 crash | 215,390 |
| `MCLobby` | 4 creations, 3 hosted, bubbles of 3, 1 raid, 1 submitter | 238,255 |
| `MCBubble` | 3 universes, 1 ticked by its timer, 2 frames a connection, 2 departures | 152,641 |
| `MCRaid` | 2 raiders, 1 warden, 1 free place, 6 nodes, 3 knobs, 2 cells that exclude each other, 2 books, 1 objective, 1 raid of at most 3 ticks | 363,128 |

Why the bounds are enough. Three tasks on two workers let one slot be pumped
again after an answer or a loss while the other is at work, and one be retired
early; faults are capped, but hanging is not a fault and is unlimited. Two slots
and two ticks let a submission be late, a checkpoint name the previous tick,
one episode end before the other, and a raid fall between two ticks; three
frames are enough for a refused and an admitted one of one slot next to the
other's. Three connections let one of two players drop and return, or two drop;
two matches overlap, share a player or follow each other, and one settled match
evicts the other. Two matches let two saves follow or overlap each other and a
load fall between any of their steps. With three universes a death need not decide
the bubble, and the deciding one can be reported before, after or without the other;
two departures let a universe leave, come back and leave again. In the raid each
of the three mages has another trade (bolts and reading, the gate and blights,
summons and bolts), the odd soldier, the levy and the summon compete for one place,
the axis and two cells can be turned (two of them in one raid, as the god's purse
has it), and three ticks have a tick of
each phase, a withdrawal and a collapse with a raider still inside. The ceiling is three
as well, so that a raid's own bound meets it. The thief holds one of two schools
that exclude each other and what she can read is the other; the warden's lesson may be
of the school that excludes hers. Two things are too rare for a run of five minutes, and
rest on the theorems: a second levy, which meets the claims of the first
(`NothingOverdrawn`; with a second free place the run does not end in time), and
several acquisitions of one mind, some of them refused (`RaidsLaunderNoMind`). Four universes in three places make one
leave for the fourth, and bubbles of three can be short and be joined. Ad hoc
runs with `MaxUniverses = 4`, and with bubbles of two and five creations, which
take longer or leave no liveness to check, agreed.

**WorkerPool.** `Accounted`: while the sweep runs a task is dispatched exactly
when it has a result or one slot holds it, and the promise resolves with all
results in. `VerdictIsDeserved`: an answer was really given by the thread the
task went to, and a failure is blamed on a thread that broke. `HeldTaskIsTimed`:
whatever is waited for is under one of the two budgets, and the run budget never
runs during boot. `NoThreadIsForgotten`: no thread survives its replacement or
the promise. `KeepsLedger`: the pool implements `TaskLedger`. `Settles`: the
promise settles although workers hang and crash.

**LockstepMatch.** `BatchIsCanonical`: a tick's batch is a function of what was
submitted for it. `OnlyLegalActionsReachTheCore`: screened at submission, still
legal when applied. `RecordAndRaidsReproduceMatch`: batches and raids account
for the universes and published hashes. `DesyncIsDeserved`: without raids, a
desync means a false report. `RaidsAreAskedFor`, `MatchEnds`. That the first ending
stands (`FirstEndWins`) is proved and no longer checked.

**MatchHost.** `NamesAreLive`: a name is indexed while its connection is open.
`EveryPlayerIsAccountedFor`: each player of a running match is seated or has a
grace entry for it, never both. `NoStaleEntry`: no entry is for a match that
ended or a player who is here. `FinalHashesWait`: a match that just ended is the
last of the settled ones to be dropped. `MatchesEnd`. The first three are
stated for behaviours that avoid what the handlers let clients do (a second
hello on a connection, a seat in two live matches, a match whose challenger is
gone); those behaviours are in the model, and `history` variables mark them.

**UniverseStore.** `FileIsWhole`: the file holds the last saved record whole
unless two saves overlapped. `AwardIsCarried`: an award reaches the next
challenge, unless a load was under way. `EndIsRecorded`: an ending is saved
unless the process dies, another match ends, or saves overlap.

**Lobby.** `EveryoneIsPlaced`: one running universe, one place, and `endedAt` has
exactly the hosted universes that ended. `NoSeatIsLeftOpen`: no one waits beside an
open seat in company it does not avoid.
`LegacyIsPaidOnce`. `SeatsHoldStill`: a running universe keeps its position.
`NobodyWaitsForever`: once creations stop, waits end but for a lone universe.
`QueuedIsAnswered`: a queued action is answered, unless its universe is retired
or displaced before the next tick: the code leaves those requests open.

**Bubble.** `PromotesTheLast`: the coordinator with its hosts implements
`BubbleClear`: one promotion, of a member whose every fellow member is extinct. It does
not say that the promoted one lives, nor that it died last. `DeathComesThrough`: while no connection is lost, the death that leaves
one member standing clears the bubble; and the timer of an extinct host falls silent
although its last tick armed it again. Only deaths clear a bubble: one left alone by a
departure, or registering among the dead, is not promoted, in the code as here.

**Raid.** `LawOfTheRaid`: every fielded mage selects from exactly what she can cast
under the law in force, the law differs from the constitution in the knobs turned and
no other, and the constitution ends up as the last law. `NoMindIsLaundered`: the dead
know nothing, whatever lessons and loot were on their way; no theft or lesson puts two
schools that exclude each other into a screened mind that did not begin with both; and
the living lose nothing but to a destructive exclusion. `NothingIsOverdrawn`: the
claims of all squads never exceed their cohort, nor what is spent a purse, so the
clamps in the write-back never hide a loss.
`NothingIsUndone`: the fallen and the gone take no further part, objectives stay
resolved, phases do not return. `ClocksAreKept`: both clocks implement `StepClock` and
world time stands still in a raid. `RaidEnds`.

Each property of a passing run has a mutant beside the definition it alters
(`\* Mutant:`), a plausible bug with which TLC finds the property violated.

`CHECK_DEADLOCK FALSE` is set where the system may stop: a settled sweep, an
ended match, an idle host.

### Fairness

* `WorkerPool`: the event loop handles what is queued, and armed timers fire.
  Nothing is assumed of threads.
* `LockstepMatch`: deadlines pass and the timer of `transport.ts` calls `pump`.
  Nothing is assumed of participants.
* `MatchHost`: the same, and grace windows run out.
* `UniverseStore`: the file system finishes the saves it was given.
* `Lobby`: `setInterval` calls `tickAll`, and time passes for those who wait.
  The fairness is on the tick in which nothing happens to the universes, which
  is always possible; no universe is assumed to end.
* `Bubble`: `setTimeout` fires, and what is on an open connection arrives.
* `Raid`: a raid is run by one synchronous call, which returns. Nothing is assumed
  of directives or of what combatants do.

### Disagreements between the code and what is said of it

Five runs expect a violation; `PROJECT.json` quotes the lines.

* `Early`: closing a tick early can choose differently from closing it late.
* `Replay`: the recorded batches do not reproduce a match with a raid.
* `Over`: an episode that is over is asked for another tick, and throws.
* `Grace`: one match's end deletes the grace entry held for another.
* `Prestige`: what is saved at a match's end is the prestige from before it.

`serve.mjs` passes neither a raid resolver, a prestige function nor a storage to
the host, so `Replay` and `Prestige` concern hosts that do.

Five more were met without a run of their own:

* `termination.ts` calls reaching `MAX_ENGAGEMENT_TICKS` proof that the stability
  decrement did not run. `maxEngagementTicks` and the content loader admit a raid that
  lasts exactly that long, and `terminationOf` tests the ceiling before the portal, so
  its ordinary collapse is reported that way: `PortalBoundsTheRaid` proves that a raid
  that meets the ceiling has collapsed. The driver throws, but after the raid is
  resolved, and `resolveOneRaid` catches it and applies the outcome; what is lost is
  the log of directives. The model has such raids and `MCRaid` runs them; the reason
  they are reported with is not modelled.
* `rival-universe.ts:344` builds the rival's knowledge subsystem without the exclusions.
  `raids.ts:380-384` passes them for the other side: "a raid subsystem built without it
  would let a raider acquire the one school her own holdings forbid". The rival's
  raiders and pupils can. `NoMindIsLaundered` asks it of the sides in
  `Screening` only.
* An exposed spell's pupil is chosen before the casualties are written. If she falls in
  the same raid the lesson is lost, though another living mage could have had it.
* A universe of a bubble whose last rival departs, rather than dies, waits for a
  promotion that never comes.
* A universe that died first is promoted if its rival's death is reported before its own.

## 4. What TLAPS proves

For every value of the constants allowed by the named assumptions of the
modules (`PoolAssumption`, `AssemblyAssumption`, `LockstepAssumption`,
`HostAssumption`, `StoreAssumption`, `LobbyAssumption`, `SubmittersAssumption`,
`BubbleAssumption`, `HandlesAssumption`, `MagicAssumption`, `NumbersAssumption`):

| Module | Theorem | Says | Inductive invariant |
| --- | --- | --- | --- |
| `WorkerPool_proofs` | `TypeCorrect` | `[]TypeOK` | `IInv` |
| | `NoDuplicatesNoOmissions` | `[]Accounted` | `IInv` |
| | `PoolKeepsLedger` | `Spec => KeepsLedger` | `IInv` |
| | `VerdictsAreDeserved` | `[]VerdictIsDeserved` | `WInv` |
| | `HeldTasksAreTimed` | `[]HeldTaskIsTimed` | `WInv` |
| | `NoThreadIsLeftRunning` | `[]NoThreadIsForgotten` | `WInv` |
| `LockstepMatch_proofs` | `ArrivalOrderIsNoInput` | two submissions commute | — |
| | `LegalAtTheCore` | `OnlyLegalActionsReachTheCore` | `Screened` |
| | `FirstEndStands` | `Spec => FirstEndWins` | — |
| | `BatchesAreCanonical` | `Spec => BatchIsCanonical` | `HeardInv` |
| | `RaidsFollowRequests` | `Spec => RaidsAreAskedFor` | `HeardInv` |
| | `HonestReportsAgree` | `[]DesyncIsDeserved` | `MirrorInv` |
| | `TypeCorrect` | `[]TypeOK` | `TypeInv` |
| | `RecordAccountsForMatch` | `[]RecordAndRaidsReproduceMatch` | `RetoldInv` |
| `MatchHost_proofs` | `NamesStayLive` | `[]NamesAreLive` | `HostInv` |
| | `EntriesAreFresh` | `[]NoStaleEntry` | `HostInv` |
| | `PlayersAreAccountedFor` | `[]EveryPlayerIsAccountedFor` | `SeatInv` |
| | `FinalHashesAreHeld` | `Spec => FinalHashesWait` | `QueueInv` |
| | `TypeCorrect` | `[]TypeOK` | `TypeInv` |
| `UniverseStore_proofs` | `CrashLeavesWholeFile` | `[]FileIsWhole` | `StoreInv` |
| | `TypeCorrect` | `[]TypeOK` | `PeerInv` |
| | `AwardsAreCarried` | `[]AwardIsCarried` | `PeerInv` |
| `Lobby_proofs` | `EachLegacyOnce` | `[]LegacyIsPaidOnce` | `LegacyInv` |
| | `TypeCorrect` | `[]TypeOK` | `PlaceInv` |
| | `EveryoneStaysPlaced` | `[]EveryoneIsPlaced` | `PlaceInv` |
| | `OpenSeatsAreTaken` | `[]NoSeatIsLeftOpen` | `PlaceInv` |
| | `SeatsStand` | `Spec => SeatsHoldStill` | `PlaceInv` |
| `Bubble_proofs` | `TypeCorrect` | `[]TypeOK` | `Inv` |
| | `BubbleKeepsItsPromise` | `Spec => PromotesTheLast` | `Inv` |
| `Raid_proofs` | `TypeCorrect` | `[]TypeOK` | `Typed` |
| | `LawHolds` | `[]LawOfTheRaid` | `Laws` |
| | `RaidsLaunderNoMind` | `[]NoMindIsLaundered` | `Minds` |
| | `NothingOverdrawn` | `[]NothingIsOverdrawn` | `Stocked` |
| | `NothingComesBack` | `Spec => NothingIsUndone` | `Typed` |
| | `ClocksHold` | `Spec => ClocksAreKept` | `Timed` |
| | `PortalBoundsTheRaid` | `[](Tick <= N /\ (Tick = N => stability = 0))`, if no portal has stability for more than `N` decrements | `BoundedBy(N)` |

* `IInv` adds to `Accounted` that an answer in flight names the task its thread
  was sent (`AnswersNameTasks`: a fresh answer is about the held task) and that
  a running sweep lacks a result, since the pool settles in the very step that
  completes it. Its preservation has one lemma for handing out a task, one for
  losing a slot and one for answering, as the code has one function each. The
  refinement maps each handler to a `Record`, a `Reject` or a stutter.
* `WInv` says what the wires may hold of a slot's present thread: a verdict is
  written from one event, so each event that can still arrive must be one its thread
  gave cause for. A thread no slot serves has been told to stop or is dead.
* `Screened` says every winner of the open assembly is legal under the present
  masks: masks change only in `Advance`, which opens an empty assembly.
* `HeardInv` adds what the open assembly says of the submissions heard: its winners
  are the lowest of the legal ones, a slot with no winner and no refusal was silent,
  and a pending portal was asked for. A late or masked submission changes no winner.
* `MirrorInv` says that without a resolver no portal is ever pending, so that what is
  published for the last tick is what its mirror shows. `TypeInv` adds that a running
  match is below its step limit, since the tick that would reach it ends the match.
  `RetoldInv` says that a function retelling the record exists and that, while the
  host is up, its last value is the universe and the hashes last broadcast. A tick adds
  one batch to the record, and one more value to the function.
* `HostInv` types the host, keeps closed connections blank, and ties the name
  index, seats and entries together. `NoStaleEntry` needs that only live
  matches have entries, which holds because `endMatch` deletes those of its players.
  `SeatInv` adds that, while nobody was doubled, renamed or absent, no name is in two
  running matches: without it the end of one match would take a seat of another.
  `QueueInv` adds the queue of ended matches and its limit: who leaves it is named by a
  report or a dispute, or is the oldest that an ending displaces from a full queue.
  `TypeInv` adds that names come first: who is seated has said hello, and a
  connection still to come is in no index.
* `StoreInv` adds that, while no two saves overlapped, at most one is under way
  and where its file stands at each step; the crash case then follows from that.
  `PeerInv` adds the participant's side: no load is under way for one who holds an
  award that was not raced, and a match agreed on has a stake.
* `LegacyInv` adds that ids not created yet are not hosted and owe nothing, so that
  a fresh universe is nobody's predecessor.
  `PlaceInv` adds the queue and the bubbles: whoever runs is in one place, whoever waits is
  blocked from every bubble with a seat, fewer wait than would fill a bubble, and `ended`
  lists exactly the hosted universes whose run is over. Its
  preservation follows `match` through its steps: `SeatingOutcome` says what a queue's turns leave behind, one turn at a time; taking
  a seat opens none, so who was blocked stays so; and when a bubble must be formed one
  is empty, because there are as many bubbles as universes may be hosted (a pigeonhole).
* The bubble's `Inv` ties belief to truth: a death on a wire is true, a member believed
  dead is dead, and an uncleared bubble promoted nobody. Each step of coordinator or
  host is then a join, a leave, a death, a promotion or a stutter of `BubbleClear`.
* The raid's invariants all rest on `Typed`: the types, and that before deployment the
  engagement is blank. `Laws` needs nothing more, since each change remakes every mask
  in the step that turns the knob. `Minds` adds that until the outcome is written the
  fielded mages are exactly the living, that only they have read anything, and that a
  pupil is one of them. One acquisition keeps a mind sound (`AcquiredSound`): what stays
  beside the new node neither excludes it nor is excluded by it, for exclusions are
  symmetric; `LearnedStays` carries that over a list of any length.
  `Timed` adds that both universes are engaged exactly while a
  portal stands. `BoundedBy(n)` says that a portal that opens with stability for at most
  `n` decrements has it for `n - Tick` more; the ceiling plays no part in that. `Stocked` adds that
  a levied detachment is whole, so that the levy's guard is about what is billed.

Induction over data. The library's induction theorems take an operator as a
parameter, which the provers cannot instantiate. Two arguments do without. One carries
a recursive function along the behaviour, as `RetoldInv` does. The other starts from
the library's `WFMin`, which gives a nonempty set of numbers its least one. `Recurrences`
has its lemmas: `LeastNumber`, then `Induction` over a set of numbers, then `Recursion`,
that a function defined by recursion exists and satisfies its equation. The lobby's
`WithoutFiltered` and `SeatingOutcome` and the raid's `LearnedStays` are proved this way;
that is why `Without`, `Seating` and `Learned` are recursive functions.

Only model-checked: the liveness properties (`Settles`, `MatchEnds`, `MatchesEnd`,
`EndIsRecorded`, `NobodyWaitsForever`, `QueuedIsAnswered`, `DeathComesThrough`,
`RaidEnds`), for the prover has neither fairness nor ENABLED. Every invariant and every
action property that a passing run checks has a row above; the violations of
section 3 are counterexamples and need no proof. No module uses RECURSIVE operators.

## 5. What is not modelled, and why

* The rules of magic, world and gods, the geometry and magnitudes of raids, and the
  content: numeric, seeded and sequential, with states far beyond enumeration and good unit tests.
  Models take their results as choices of the environment.
* Framing, byte and frame-rate budgets, HTTP routing, static files, history
  frames: input and output without a protocol of their own.
* The participant's program (`server/bin/agent.mjs`) but for its mirror.
* Sweep analysis, tuner and reports: sequential statistics over the ledger.
* Memory storage, unparseable files and failing reads.
* Entity handles, component columns and the order of systems in sim-core: sequential,
  with property tests over long sequences of calls.
* Bubble targeting, raid routes and conquest claims: they read the members and write
  nothing.

## 6. Plan

Order of the modules: the pool (the only real threads) and its ledger; the
match and its assembly; the host that composes matches with connections; the
store it saves to; the lobby; the bubble with its hosts; the raid with its clocks.
These are written. Next:

1. The raid composed with the match that asks for it, where who attacks is decided
   by the order of arrival, and with two raids whose portals contend for one world.
2. `EntityStore`: handles with generations and a free list; no stale handle resolves.
3. Proofs: what of the liveness properties is safety in disguise, as a variant that
   falls with every step of a raid or a match (`BoundedBy` bounds the raid's already).
