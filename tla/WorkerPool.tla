----------------------------- MODULE WorkerPool -----------------------------
(***************************************************************************)
(* The Monte Carlo harness's worker pool (packages/mc-harness/src/pool.ts):*)
(* runTasksOnPool hands tasks to worker threads, replaces a worker that    *)
(* crashes, errs, outlives its budget or speaks nonsense, and resolves     *)
(* with one result per task.                                               *)
(*                                                                         *)
(* The pool runs on the main thread, so each of its event handlers is one  *)
(* atomic action.  The worker threads run beside it: they boot, execute,   *)
(* hang (by never acting) and crash between any two handlers, and the      *)
(* events of a worker that was terminated are still in flight when its     *)
(* replacement is at work.                                                 *)
(***************************************************************************)
EXTENDS Naturals

CONSTANTS
  NumTasks,       \* tasks in the sweep; ids are opaque, so 1 .. NumTasks
  WorkerCount,    \* PoolOptions.workerCount
  MaxFaults,      \* bound: faults the worker threads commit in a behaviour
  SpawnMayFail    \* whether `new Worker` may throw

ASSUME PoolAssumption ==
  /\ NumTasks \in Nat \ {0}
  /\ WorkerCount \in Nat \ {0}
  /\ MaxFaults \in Nat
  /\ SpawnMayFail \in BOOLEAN

Tasks == 1 .. NumTasks
SlotCount == IF WorkerCount < NumTasks THEN WorkerCount ELSE NumTasks
Slots == 1 .. SlotCount
NoTask == 0
NoResult == "none"
Verdicts ==
  {"outcome", "threw", "timeout", "workerError", "workerExit", "protocol"}
Kinds == {"ready", "outcome", "threw", "nonsense", "error", "exit"}

VARIABLES
  \* the pool's own state
  cursor,         \* tasks handed out so far: the next one is cursor + 1
  results,        \* task -> verdict, NoResult while there is none
  outcome,        \* the promise
  gen,            \* slot -> generation; older workers' events are stale
  held,           \* slot -> the task it waits for, or NoTask
  attached,       \* slot -> whether it has a worker (slot.worker # null)
  ready,          \* slot -> whether that worker has reported ready
  runTimer,       \* slot -> whether the per-run budget is armed
  bootTimer,      \* slot -> whether the boot budget is armed
  \* the worker threads, each named by its slot and generation
  alive,          \* threads that are running
  booted,         \* threads whose module called serveRuns
  inbox,          \* [worker, task]: run requests not yet answered
  mail,           \* [worker, kind, task]: events the pool has not handled yet
  faults,         \* faults committed so far
  \* history
  ranOn,          \* task -> the thread it was handed to
  died,           \* threads that broke down of their own accord
  executed        \* [worker, task]: answers threads really gave

slotVars == <<gen, held, attached, ready, runTimer, bootTimer>>
pool == <<cursor, results, outcome, slotVars>>
threads == <<alive, booted, inbox, mail, faults>>
history == <<ranOn, died, executed>>
vars == <<pool, threads, history>>

-----------------------------------------------------------------------------
Running == outcome = "running"
Complete(res) == \A t \in Tasks : res[t] # NoResult

\* Mutant: the sweep is called finished when its queue is empty.
FinishedWhenQueueIsEmpty(res) == cursor = NumTasks

\* Every task was handed out and every result is in.
Finished(res) == cursor = NumTasks /\ Complete(res)

Thread(s) == <<s, gen[s]>>
Attached == {Thread(s) : s \in {x \in Slots : attached[x]}}
Event(w, kind, t) == [worker |-> w, kind |-> kind, task |-> t]
Request(w, t) == [worker |-> w, task |-> t]

\* What terminating the threads ws may leave in flight: an exit from each,
\* and, while the fault bound allows it, an error from one of them as well.
DeathThroes(ws) ==
  LET exits == {Event(w, "exit", NoTask) : w \in ws}
  IN  {exits} \union
      IF faults < MaxFaults
      THEN {exits \union {Event(w, "error", NoTask)} : w \in ws} ELSE {}

\* One handler's traffic with the threads: it has handled the events `seen`,
\* starts the threads `fresh`, posts `requests`, and terminates `gone`, of
\* which only those still running have anything left to say.
Traffic(seen, fresh, requests, gone) ==
  LET running == alive \union fresh IN
  /\ alive' = running \ gone
  /\ inbox' = {m \in inbox \union requests : m.worker \notin gone}
  /\ \E throes \in DeathThroes(running \intersect gone) :
       /\ mail' = (mail \ seen) \union throes
       /\ faults' = IF \E e \in throes : e.kind = "error"
                    THEN faults + 1 ELSE faults
  /\ UNCHANGED <<booted, died>>

\* Mutant: settling lets go of the workers without terminating them.
SettleLettingThreadsRun(how, seen) ==
  /\ outcome' = how
  /\ attached' = [s \in Slots |-> FALSE]
  /\ runTimer' = [s \in Slots |-> FALSE]
  /\ bootTimer' = [s \in Slots |-> FALSE]
  /\ Traffic(seen, {}, {}, {})
  /\ UNCHANGED <<cursor, ready, ranOn>>

\* finish and fail: disarm every budget and let every worker go.
Settle(how, seen) ==
  /\ outcome' = how
  /\ attached' = [s \in Slots |-> FALSE]
  /\ runTimer' = [s \in Slots |-> FALSE]
  /\ bootTimer' = [s \in Slots |-> FALSE]
  /\ Traffic(seen, {}, {}, Attached)
  /\ UNCHANGED <<cursor, ready, ranOn>>

\* Mutants: the budget starts at dispatch, or does not start at all.
ArmAtDispatch(s, task, isReady) == [runTimer EXCEPT ![s] = task # NoTask]
ArmNothing(s, task, isReady) == [runTimer EXCEPT ![s] = FALSE]

\* armRunTimeout: a run's budget starts when its worker is there to run it.
ArmRunTimeout(s, task, isReady) ==
  [runTimer EXCEPT ![s] = isReady /\ task # NoTask]

\* Mutant: pump forgets that the queue may be empty.
HandOutPastTheEnd(s, w, isReady, fresh, seen, gone) ==
  /\ cursor' = cursor + 1
  /\ held' = [held EXCEPT ![s] = cursor + 1]
  /\ runTimer' = ArmRunTimeout(s, cursor + 1, isReady)
  /\ ranOn' = [ranOn EXCEPT ![cursor + 1] = w]
  /\ Traffic(seen, fresh, {Request(w, cursor + 1)}, gone)
  /\ UNCHANGED outcome

\* pump: the slot gets the next task.  Its run budget starts now only if its
\* worker is up; a booting worker's starts when it reports ready.
HandOut(s, w, isReady, fresh, seen, gone) ==
  /\ cursor < NumTasks
  /\ cursor' = cursor + 1
  /\ held' = [held EXCEPT ![s] = cursor + 1]
  /\ runTimer' = ArmRunTimeout(s, cursor + 1, isReady)
  /\ ranOn' = [ranOn EXCEPT ![cursor + 1] = w]
  /\ Traffic(seen, fresh, {Request(w, cursor + 1)}, gone)
  /\ UNCHANGED outcome

\* pump: the queue is empty, so the slot's worker is told to shut down and
\* terminated.  The slot keeps its generation.
Retire(s, fresh, seen, gone) ==
  /\ cursor = NumTasks
  /\ held' = [held EXCEPT ![s] = NoTask]
  /\ attached' = [attached EXCEPT ![s] = FALSE]
  /\ runTimer' = [runTimer EXCEPT ![s] = FALSE]
  /\ bootTimer' = [bootTimer EXCEPT ![s] = FALSE]
  /\ Traffic(seen, fresh, {}, gone)
  /\ UNCHANGED <<cursor, outcome, ranOn>>

-----------------------------------------------------------------------------
\* Mutant: a lost worker's task is dropped with it.
ForfeitNothing(s, verdict) == results

\* onSlotLost: whatever the slot held is recorded as failed, unless it has a
\* result already.
Forfeit(s, verdict) ==
  [t \in Tasks |-> IF t = held[s] /\ results[t] = NoResult
                   THEN verdict ELSE results[t]]

\* The worker is replaced by one of the next generation, which is pumped.
\* `seen` is the event that told the pool, if an event did.
Lost(s, verdict, seen) ==
  LET res == Forfeit(s, verdict)
      over == Finished(res)
      old == Thread(s)
      new == <<s, gen[s] + 1>>
  IN
  /\ Running
  /\ results' = res
  /\ gen' = [gen EXCEPT ![s] = @ + 1]
  /\ UNCHANGED executed
  /\ \/ /\ over
        /\ held' = [held EXCEPT ![s] = NoTask]
        /\ Settle("resolved", seen)
     \/ /\ ~over /\ SpawnMayFail
        /\ held' = [held EXCEPT ![s] = NoTask]
        /\ Settle("rejected", seen)
     \/ /\ ~over
        /\ attached' = [attached EXCEPT ![s] = TRUE]
        /\ ready' = [ready EXCEPT ![s] = FALSE]
        /\ bootTimer' = [bootTimer EXCEPT ![s] = TRUE]
        /\ HandOut(s, new, FALSE, {new}, seen, {old})
     \/ /\ ~over
        /\ ready' = [ready EXCEPT ![s] = FALSE]
        /\ Retire(s, {new}, seen, {old, new})

\* record on the answer path, then pump.  A second result for one task is a
\* pool bug and rejects the whole sweep.
Answered(s, t, verdict, seen) ==
  LET res == [results EXCEPT ![t] = verdict] IN
  /\ UNCHANGED <<gen, executed>>
  /\ IF results[t] # NoResult
     THEN /\ held' = [held EXCEPT ![s] = NoTask]
          /\ Settle("duplicate", seen)
          /\ UNCHANGED results
     ELSE /\ results' = res
          /\ \/ /\ HandOut(s, Thread(s), ready[s], {}, seen, {})
                /\ bootTimer' = [bootTimer EXCEPT ![s] = FALSE]
                /\ UNCHANGED <<attached, ready>>
             \/ /\ ~Complete(res)
                /\ Retire(s, {}, seen, {Thread(s)})
                /\ UNCHANGED ready
             \/ /\ Finished(res)
                /\ held' = [held EXCEPT ![s] = NoTask]
                /\ Settle("resolved", seen)

\* Mutant: events carry no generation.
StaleOnlyWhenSettled(e) == ~Running

\* The handler sees an event only if the promise is unsettled and the event's
\* worker is the slot's present one.
Stale(e) == ~Running \/ gen[e.worker[1]] # e.worker[2]

\* A thread's port is first in first out, so its ready precedes its answers;
\* its exit comes after everything else it said.
Deliverable(e) ==
  \A other \in mail \ {e} :
    other.worker = e.worker =>
      /\ e.kind # "exit"
      /\ other.kind = "ready" => e.kind = "error"

Deliver(e) == e \in mail /\ Deliverable(e)

DropStale(e) ==
  /\ Deliver(e) /\ Stale(e)
  /\ mail' = mail \ {e}
  /\ UNCHANGED <<pool, alive, booted, inbox, faults, history>>

OnReady(e) ==
  LET s == e.worker[1] IN
  /\ Deliver(e) /\ ~Stale(e) /\ e.kind = "ready"
  /\ ready' = [ready EXCEPT ![s] = TRUE]
  /\ bootTimer' = [bootTimer EXCEPT ![s] = FALSE]
  /\ runTimer' = ArmRunTimeout(s, held[s], TRUE)
  /\ mail' = mail \ {e}
  /\ UNCHANGED <<cursor, results, outcome, gen, held, attached,
                 alive, booted, inbox, faults, history>>

OnAnswer(e) ==
  LET s == e.worker[1] IN
  /\ Deliver(e) /\ ~Stale(e) /\ e.kind \in {"outcome", "threw"}
  /\ e.task = held[s]
  /\ Answered(s, e.task, e.kind, {e})

OnNonsense(e) ==
  LET s == e.worker[1] IN
  /\ Deliver(e) /\ ~Stale(e)
  /\ \/ e.kind = "nonsense"
     \/ e.kind \in {"outcome", "threw"} /\ e.task # held[s]
  /\ Lost(s, "protocol", {e})

OnError(e) ==
  /\ Deliver(e) /\ ~Stale(e) /\ e.kind = "error"
  /\ Lost(e.worker[1], "workerError", {e})

\* The exit of a worker that pump retired is no loss: its slot holds nothing.
OnExit(e) ==
  LET s == e.worker[1] IN
  /\ Deliver(e) /\ ~Stale(e) /\ e.kind = "exit"
  /\ IF held[s] = NoTask
     THEN /\ mail' = mail \ {e}
          /\ UNCHANGED <<pool, alive, booted, inbox, faults, history>>
     ELSE Lost(s, "workerExit", {e})

RunTimeout(s) ==
  /\ runTimer[s]
  /\ Lost(s, "timeout", {})

BootTimeout(s) ==
  /\ bootTimer[s]
  /\ Lost(s, "timeout", {})

-----------------------------------------------------------------------------
\* The threads (worker-main.ts: serveRuns posts ready, then one answer per
\* run request).  A thread that hangs simply takes no step.
Boot(w) ==
  /\ w \in alive \ booted
  /\ booted' = booted \union {w}
  /\ mail' = mail \union {Event(w, "ready", NoTask)}
  /\ UNCHANGED <<pool, alive, inbox, faults, history>>

Execute(m) ==
  /\ m \in inbox /\ m.worker \in alive \intersect booted
  /\ \E verdict \in {"outcome", "threw"} :
       mail' = mail \union {Event(m.worker, verdict, m.task)}
  /\ inbox' = inbox \ {m}
  /\ executed' = executed \union {m}
  /\ UNCHANGED <<pool, alive, booted, faults, ranOn, died>>

\* A thread breaks: it exits, dies of an uncaught exception (error, then
\* exit), or posts something that is no message of the protocol.
Break(w) ==
  /\ w \in alive /\ faults < MaxFaults
  /\ faults' = faults + 1
  /\ died' = died \union {w}
  /\ \/ /\ \E last \in {{"exit"}, {"error", "exit"}} :
             mail' = mail \union {Event(w, k, NoTask) : k \in last}
        /\ alive' = alive \ {w}
        /\ inbox' = {m \in inbox : m.worker # w}
     \/ /\ w \in booted
        /\ mail' = mail \union {Event(w, "nonsense", NoTask)}
        /\ UNCHANGED <<alive, inbox>>
  /\ UNCHANGED <<pool, booted, ranOn, executed>>

-----------------------------------------------------------------------------
\* Every slot is spawned, then every slot is pumped: slot s gets task s.  A
\* worker that cannot be started rejects the sweep at once.
Init ==
  LET started == outcome = "running"
      first == {<<s, 0>> : s \in Slots}
  IN
  /\ outcome \in IF SpawnMayFail THEN {"running", "rejected"} ELSE {"running"}
  /\ cursor = IF started THEN SlotCount ELSE 0
  /\ results = [t \in Tasks |-> NoResult]
  /\ gen = [s \in Slots |-> 0]
  /\ held = [s \in Slots |-> IF started THEN s ELSE NoTask]
  /\ attached = [s \in Slots |-> started]
  /\ ready = [s \in Slots |-> FALSE]
  /\ runTimer = [s \in Slots |-> FALSE]
  /\ bootTimer = [s \in Slots |-> started]
  /\ alive = IF started THEN first ELSE {}
  /\ booted = {}
  /\ inbox = IF started THEN {Request(<<s, 0>>, s) : s \in Slots} ELSE {}
  /\ mail = {}
  /\ faults = 0
  /\ ranOn = [t \in Tasks |-> IF started /\ t \in Slots
                              THEN <<t, 0>> ELSE <<NoTask, 0>>]
  /\ died = {}
  /\ executed = {}

Handle(e) ==
  \/ DropStale(e) \/ OnReady(e) \/ OnAnswer(e)
  \/ OnNonsense(e) \/ OnError(e) \/ OnExit(e)

Next ==
  \/ \E e \in mail : Handle(e)
  \/ \E s \in Slots : RunTimeout(s) \/ BootTimeout(s)
  \/ \E w \in alive : Boot(w) \/ Break(w)
  \/ \E m \in inbox : Execute(m)

\* Node's event loop handles what is queued, and armed timers go off.
\* Nothing is assumed of the worker threads: any of them may hang.
Fairness ==
  /\ WF_vars(\E e \in mail : Handle(e))
  /\ \A s \in Slots : WF_vars(RunTimeout(s)) /\ WF_vars(BootTimeout(s))

Spec == Init /\ [][Next]_vars /\ Fairness

-----------------------------------------------------------------------------
Threads == Slots \X Nat

TypeOK ==
  /\ cursor \in 0 .. NumTasks
  /\ results \in [Tasks -> Verdicts \union {NoResult}]
  /\ outcome \in {"running", "resolved", "rejected", "duplicate"}
  /\ gen \in [Slots -> Nat]
  /\ held \in [Slots -> {NoTask} \union Tasks]
  /\ attached \in [Slots -> BOOLEAN]
  /\ ready \in [Slots -> BOOLEAN]
  /\ runTimer \in [Slots -> BOOLEAN]
  /\ bootTimer \in [Slots -> BOOLEAN]
  /\ alive \subseteq Threads
  /\ booted \subseteq Threads
  /\ inbox \subseteq [worker : Threads, task : Tasks]
  /\ mail \subseteq [worker : Threads, kind : Kinds, task : {NoTask} \union Tasks]
  /\ faults \in 0 .. MaxFaults

\* pool.ts 144-147, "no duplicates and no omissions".  While the sweep runs,
\* a task is dispatched exactly when it has a result or one slot waits for
\* it, never both; the promise resolves only with every result in; and the
\* guard against a second result for one task never fires.
Accounted ==
  /\ outcome # "duplicate"
  /\ outcome = "resolved" => Complete(results)
  /\ Running =>
       \A t \in Tasks :
         /\ t <= cursor <=> results[t] # NoResult \/ \E s \in Slots : held[s] = t
         /\ \A s \in Slots :
              held[s] = t =>
                results[t] = NoResult /\ \A x \in Slots : held[x] = t => x = s

\* pool.ts 42-48.  A verdict is about the thread the task was handed to: an
\* answer is one that thread really gave to that task, and a failure blamed
\* on a worker is blamed on the worker that broke, never on its replacement.
VerdictIsDeserved ==
  \A t \in Tasks :
    /\ results[t] \in {"outcome", "threw"} => Request(ranOn[t], t) \in executed
    /\ results[t] \in {"workerError", "workerExit", "protocol"} =>
         ranOn[t] \in died

\* pool.ts 50-68.  Whatever a slot waits for is under one of the two budgets,
\* and the run budget never runs while the worker is still booting.
HeldTaskIsTimed ==
  Running =>
    \A s \in Slots :
      /\ held[s] # NoTask => runTimer[s] \/ bootTimer[s]
      /\ runTimer[s] => Thread(s) \in booted /\ held[s] # NoTask

\* A worker that was replaced, retired or outlived the sweep is not running:
\* no thread holds the process open once the promise is settled.
NoThreadIsForgotten ==
  /\ alive \subseteq Attached
  /\ ~Running => alive = {}

\* The pool keeps the ledger's promise.
Ledger == INSTANCE TaskLedger
KeepsLedger == Ledger!Spec

\* However the workers hang and crash, the sweep's promise is settled.
Settles == <>(~Running)
=============================================================================
