------------------------- MODULE WorkerPool_proofs --------------------------
(***************************************************************************)
(* Proofs about WorkerPool for every number of tasks, workers and faults:  *)
(* its types, the accounting of tasks (no duplicates and no omissions),    *)
(* that it implements TaskLedger, and what it owes its threads: deserved   *)
(* verdicts, a deadline on every wait, no thread left running.             *)
(*                                                                         *)
(* Accounted is not inductive alone.  An answer is recorded for the task   *)
(* it names, so answers in flight must name real tasks; and the event that *)
(* completes the ledger must settle the promise in the same handler, so a  *)
(* running sweep is never complete (IInv).                                 *)
(*                                                                         *)
(* Nor is VerdictIsDeserved: a verdict is written from one event, so what  *)
(* the wires may hold from a slot's present thread must be known (WInv).   *)
(***************************************************************************)
EXTENDS WorkerPool, TLAPS

Answers == {"outcome", "threw"}

AnswersNameTasks == \A e \in mail : e.kind \in Answers => e.task \in Tasks

RunningIsIncomplete == Running => ~Complete(results)

IInv ==
  /\ TypeOK
  /\ AnswersNameTasks
  /\ Accounted
  /\ RunningIsIncomplete

-----------------------------------------------------------------------------
\* No verdict is mistaken for an empty entry, and no task for an idle slot.
LEMMA Distinct ==
  /\ NoResult \notin Verdicts
  /\ NoTask \notin Tasks
  /\ SlotCount \in Nat \ {0}
  /\ SlotCount <= NumTasks
  /\ Slots \subseteq Tasks
BY PoolAssumption DEF NoResult, Verdicts, NoTask, Tasks, SlotCount, Slots

\* Whatever a handler exchanges with the threads keeps the wires well typed,
\* and termination puts no answer on them.
LEMMA TrafficIsTyped ==
  ASSUME TypeOK, AnswersNameTasks,
         NEW seen, NEW fresh \in SUBSET Threads, NEW gone,
         NEW requests \in SUBSET [worker : Threads, task : Tasks],
         Traffic(seen, fresh, requests, gone)
  PROVE  /\ alive' \subseteq Threads
         /\ booted' \subseteq Threads
         /\ inbox' \subseteq [worker : Threads, task : Tasks]
         /\ mail' \subseteq
              [worker : Threads, kind : Kinds, task : {NoTask} \union Tasks]
         /\ faults' \in 0 .. MaxFaults
         /\ AnswersNameTasks'
<1> DEFINE running == alive \union fresh
           AllMail == [worker : Threads, kind : Kinds, task : {NoTask} \union Tasks]
<1>1. running \subseteq Threads
  BY DEF TypeOK
<1>2. PICK throes \in DeathThroes(running \intersect gone) :
        /\ mail' = (mail \ seen) \union throes
        /\ faults' = IF \E e \in throes : e.kind = "error"
                     THEN faults + 1 ELSE faults
  BY DEF Traffic
<1>3. \A e \in throes :
        e \in AllMail /\ e.kind \notin Answers
  BY <1>1 DEF DeathThroes, Event, Kinds, Answers
<1>4. faults < MaxFaults \/ \A e \in throes : e.kind # "error"
  BY DEF DeathThroes, Event
<1>5. faults' \in 0 .. MaxFaults
  BY <1>2, <1>4, PoolAssumption DEF TypeOK
<1>6. mail' \subseteq AllMail /\ AnswersNameTasks'
  BY <1>2, <1>3 DEF TypeOK, AnswersNameTasks, Tasks
<1>7. alive' \subseteq Threads /\ booted' \subseteq Threads
      /\ inbox' \subseteq [worker : Threads, task : Tasks]
  BY <1>1 DEF Traffic, TypeOK
<1> QED
  BY <1>5, <1>6, <1>7

\* The threads of the slots are threads, and so are their successors.
LEMMA SlotThreads ==
  ASSUME TypeOK
  PROVE  /\ \A s \in Slots : Thread(s) \in Threads /\ <<s, gen[s] + 1>> \in Threads
         /\ Attached \subseteq Threads
BY DEF TypeOK, Thread, Threads, Attached

-----------------------------------------------------------------------------
\* The results once slot s has given up its task: every other task is as it
\* was, and a slot that waited for a task has a verdict on it.
Yields(s, res) ==
  /\ res \in [Tasks -> Verdicts \union {NoResult}]
  /\ \A t \in Tasks : res[t] # NoResult <=> results[t] # NoResult \/ t = held[s]

LEMMA ForfeitYields ==
  ASSUME TypeOK, NEW s \in Slots, NEW verdict \in Verdicts
  PROVE  Yields(s, Forfeit(s, verdict))
BY Distinct DEF TypeOK, Yields, Forfeit

LEMMA AnswerYields ==
  ASSUME TypeOK, NEW s \in Slots, NEW verdict \in Verdicts, held[s] \in Tasks
  PROVE  Yields(s, [results EXCEPT ![held[s]] = verdict])
BY Distinct DEF TypeOK, Yields

\* Handing the slot the next task keeps the accounts.
LEMMA HandOutAccounts ==
  ASSUME IInv, Running, NEW s \in Slots, Yields(s, results'),
         NEW w, NEW isReady, NEW fresh, NEW seen, NEW gone,
         HandOut(s, w, isReady, fresh, seen, gone)
  PROVE  Accounted' /\ RunningIsIncomplete'
<1>1. /\ cursor \in Nat /\ cursor < NumTasks /\ cursor' = cursor + 1
      /\ cursor + 1 \in Tasks /\ outcome' = "running"
  BY PoolAssumption DEF HandOut, IInv, TypeOK, Tasks, Running
<1>2. \A x \in Slots : held'[x] = IF x = s THEN cursor + 1 ELSE held[x]
  BY DEF HandOut, IInv, TypeOK
<1>3. results[cursor + 1] = NoResult /\ \A x \in Slots : held[x] # cursor + 1
  BY <1>1 DEF IInv, Accounted
<1>4. results'[cursor + 1] = NoResult
  BY <1>1, <1>3 DEF Yields
<1>5. RunningIsIncomplete'
  BY <1>1, <1>4 DEF RunningIsIncomplete, Complete
<1>6. ASSUME NEW t \in Tasks
      PROVE  /\ t <= cursor' <=>
                  results'[t] # NoResult \/ \E x \in Slots : held'[x] = t
             /\ \A x \in Slots : held'[x] = t =>
                  /\ results'[t] = NoResult
                  /\ \A y \in Slots : held'[y] = t => y = x
  <2>1. CASE t = cursor + 1
    BY <2>1, <1>1, <1>2, <1>3, <1>4
  <2>2. CASE t # cursor + 1
    <3>1. t <= cursor' <=> t <= cursor
      BY <2>2, <1>1 DEF Tasks
    <3>2. /\ t <= cursor <=> results[t] # NoResult \/ \E x \in Slots : held[x] = t
          /\ \A x \in Slots : held[x] = t =>
               results[t] = NoResult /\ \A y \in Slots : held[y] = t => y = x
      BY DEF IInv, Accounted
    <3>3. results'[t] # NoResult <=> results[t] # NoResult \/ t = held[s]
      BY DEF Yields
    <3>4. \A x \in Slots : held'[x] = t <=> x # s /\ held[x] = t
      BY <1>2, <2>2
    <3> QED
      BY <3>1, <3>2, <3>3, <3>4
  <2> QED
    BY <2>1, <2>2
<1> QED
  BY <1>1, <1>5, <1>6 DEF Accounted, Running

\* So does retiring it, when other slots still owe a result.
LEMMA RetireAccounts ==
  ASSUME IInv, Running, NEW s \in Slots, Yields(s, results'),
         ~Complete(results'), NEW fresh, NEW seen, NEW gone,
         Retire(s, fresh, seen, gone)
  PROVE  Accounted' /\ RunningIsIncomplete'
<1>1. cursor' = cursor /\ outcome' = "running"
  BY DEF Retire, Running
<1>2. \A x \in Slots : held'[x] = IF x = s THEN NoTask ELSE held[x]
  BY DEF Retire, IInv, TypeOK
<1>3. RunningIsIncomplete'
  BY DEF RunningIsIncomplete, Complete
<1>4. ASSUME NEW t \in Tasks
      PROVE  /\ t <= cursor' <=>
                  results'[t] # NoResult \/ \E x \in Slots : held'[x] = t
             /\ \A x \in Slots : held'[x] = t =>
                  /\ results'[t] = NoResult
                  /\ \A y \in Slots : held'[y] = t => y = x
  <2>1. /\ t <= cursor <=> results[t] # NoResult \/ \E x \in Slots : held[x] = t
        /\ \A x \in Slots : held[x] = t =>
             results[t] = NoResult /\ \A y \in Slots : held[y] = t => y = x
    BY DEF IInv, Accounted
  <2>2. results'[t] # NoResult <=> results[t] # NoResult \/ t = held[s]
    BY DEF Yields
  <2>3. \A x \in Slots : held'[x] = t <=> x # s /\ held[x] = t
    BY <1>2, Distinct
  <2> QED
    BY <1>1, <2>1, <2>2, <2>3
<1> QED
  BY <1>1, <1>3, <1>4 DEF Accounted, Running

\* Settling needs the results only if the promise resolves.
LEMMA SettleAccounts ==
  ASSUME NEW how \in {"resolved", "rejected"}, NEW seen, Settle(how, seen),
         how = "resolved" => Complete(results')
  PROVE  Accounted' /\ RunningIsIncomplete'
BY DEF Settle, Accounted, RunningIsIncomplete, Running, Complete

-----------------------------------------------------------------------------
LEMMA LostStep ==
  ASSUME IInv, NEW s \in Slots, NEW verdict \in Verdicts, NEW seen,
         Lost(s, verdict, seen)
  PROVE  IInv'
<1> DEFINE res == Forfeit(s, verdict)
           old == Thread(s)
           new == <<s, gen[s] + 1>>
<1>1. Running /\ results' = res /\ gen' = [gen EXCEPT ![s] = @ + 1]
  BY DEF Lost
<1>2. Yields(s, results') /\ results' \in [Tasks -> Verdicts \union {NoResult}]
  BY <1>1, ForfeitYields DEF IInv, Yields
<1>3. gen' \in [Slots -> Nat]
  BY <1>1 DEF IInv, TypeOK
<1>4. old \in Threads /\ new \in Threads /\ Attached \subseteq Threads
  BY SlotThreads DEF IInv
<1>5. Finished(res) => cursor = NumTasks /\ Complete(results')
  BY <1>1 DEF Finished
<1>6. CASE Finished(res) /\ held' = [held EXCEPT ![s] = NoTask]
           /\ Settle("resolved", seen)
  <2>1. Accounted' /\ RunningIsIncomplete'
    BY <1>5, <1>6, SettleAccounts
  <2>2. Traffic(seen, {}, {}, Attached)
    BY <1>6 DEF Settle
  <2> QED
    BY <1>2, <1>3, <1>6, <2>1, <2>2, TrafficIsTyped DEF IInv, TypeOK, Settle
<1>7. CASE held' = [held EXCEPT ![s] = NoTask] /\ Settle("rejected", seen)
  <2>1. Accounted' /\ RunningIsIncomplete'
    BY <1>7, SettleAccounts
  <2>2. Traffic(seen, {}, {}, Attached)
    BY <1>7 DEF Settle
  <2> QED
    BY <1>2, <1>3, <1>7, <2>1, <2>2, TrafficIsTyped DEF IInv, TypeOK, Settle
<1>8. CASE /\ attached' = [attached EXCEPT ![s] = TRUE]
           /\ ready' = [ready EXCEPT ![s] = FALSE]
           /\ bootTimer' = [bootTimer EXCEPT ![s] = TRUE]
           /\ HandOut(s, new, FALSE, {new}, seen, {old})
  <2>1. Accounted' /\ RunningIsIncomplete'
    BY <1>1, <1>2, <1>8, HandOutAccounts
  <2>2. cursor + 1 \in Tasks
    BY <1>8, PoolAssumption DEF HandOut, Tasks, IInv, TypeOK
  <2>3. {Request(new, cursor + 1)} \in SUBSET [worker : Threads, task : Tasks]
    BY <1>4, <2>2 DEF Request
  <2>4. Traffic(seen, {new}, {Request(new, cursor + 1)}, {old})
    BY <1>8 DEF HandOut
  <2>5. /\ alive' \subseteq Threads /\ booted' \subseteq Threads
        /\ inbox' \subseteq [worker : Threads, task : Tasks]
        /\ mail' \subseteq
             [worker : Threads, kind : Kinds, task : {NoTask} \union Tasks]
        /\ faults' \in 0 .. MaxFaults /\ AnswersNameTasks'
    BY <1>4, <2>3, <2>4, TrafficIsTyped DEF IInv
  <2> QED
    BY <1>2, <1>3, <1>8, <2>1, <2>2, <2>5
    DEF IInv, TypeOK, HandOut, ArmRunTimeout, Tasks
<1>9. CASE /\ ~Finished(res)
           /\ ready' = [ready EXCEPT ![s] = FALSE]
           /\ Retire(s, {new}, seen, {old, new})
  <2>1. ~Complete(results')
    BY <1>1, <1>9 DEF Retire, Finished
  <2>2. Accounted' /\ RunningIsIncomplete'
    BY <1>1, <1>2, <1>9, <2>1, RetireAccounts
  <2>3. Traffic(seen, {new}, {}, {old, new})
    BY <1>9 DEF Retire
  <2>4. /\ alive' \subseteq Threads /\ booted' \subseteq Threads
        /\ inbox' \subseteq [worker : Threads, task : Tasks]
        /\ mail' \subseteq
             [worker : Threads, kind : Kinds, task : {NoTask} \union Tasks]
        /\ faults' \in 0 .. MaxFaults /\ AnswersNameTasks'
    BY <1>4, <2>3, TrafficIsTyped DEF IInv
  <2> QED
    BY <1>2, <1>3, <1>9, <2>2, <2>4 DEF IInv, TypeOK, Retire
<1> QED
  BY <1>6, <1>7, <1>8, <1>9 DEF Lost

LEMMA AnsweredStep ==
  ASSUME IInv, NEW s \in Slots, NEW verdict \in Answers, NEW seen,
         held[s] \in Tasks, Running, Answered(s, held[s], verdict, seen)
  PROVE  IInv'
<1> DEFINE res == [results EXCEPT ![held[s]] = verdict]
<1>1. results[held[s]] = NoResult
  BY DEF IInv, Accounted
<1>2. results' = res /\ gen' = gen
  BY <1>1 DEF Answered
<1>3. Yields(s, results') /\ results' \in [Tasks -> Verdicts \union {NoResult}]
  BY <1>2, AnswerYields DEF IInv, Yields, Answers, Verdicts
<1>4. Thread(s) \in Threads /\ Attached \subseteq Threads
  BY SlotThreads DEF IInv
<1>5. CASE /\ HandOut(s, Thread(s), ready[s], {}, seen, {})
           /\ bootTimer' = [bootTimer EXCEPT ![s] = FALSE]
           /\ UNCHANGED <<attached, ready>>
  <2>1. Accounted' /\ RunningIsIncomplete'
    BY <1>3, <1>5, HandOutAccounts
  <2>2. cursor + 1 \in Tasks
    BY <1>5, PoolAssumption DEF HandOut, Tasks, IInv, TypeOK
  <2>3. {Request(Thread(s), cursor + 1)} \in SUBSET [worker : Threads, task : Tasks]
    BY <1>4, <2>2 DEF Request
  <2>4. Traffic(seen, {}, {Request(Thread(s), cursor + 1)}, {})
    BY <1>5 DEF HandOut
  <2>5. /\ alive' \subseteq Threads /\ booted' \subseteq Threads
        /\ inbox' \subseteq [worker : Threads, task : Tasks]
        /\ mail' \subseteq
             [worker : Threads, kind : Kinds, task : {NoTask} \union Tasks]
        /\ faults' \in 0 .. MaxFaults /\ AnswersNameTasks'
    BY <2>3, <2>4, TrafficIsTyped DEF IInv
  <2> QED
    BY <1>2, <1>3, <1>5, <2>1, <2>2, <2>5
    DEF IInv, TypeOK, HandOut, ArmRunTimeout, Tasks
<1>6. CASE ~Complete(res) /\ Retire(s, {}, seen, {Thread(s)}) /\ UNCHANGED ready
  <2>1. Accounted' /\ RunningIsIncomplete'
    BY <1>2, <1>3, <1>6, RetireAccounts
  <2>2. Traffic(seen, {}, {}, {Thread(s)})
    BY <1>6 DEF Retire
  <2> QED
    BY <1>2, <1>3, <1>6, <2>1, <2>2, TrafficIsTyped DEF IInv, TypeOK, Retire
<1>7. CASE /\ Finished(res)
           /\ held' = [held EXCEPT ![s] = NoTask]
           /\ Settle("resolved", seen)
  <2>1. Accounted' /\ RunningIsIncomplete'
    BY <1>2, <1>7, SettleAccounts DEF Finished
  <2>2. Traffic(seen, {}, {}, Attached)
    BY <1>7 DEF Settle
  <2> QED
    BY <1>2, <1>3, <1>7, <2>1, <2>2, TrafficIsTyped DEF IInv, TypeOK, Settle
<1> QED
  BY <1>1, <1>5, <1>6, <1>7 DEF Answered

\* The steps that leave the accounts alone.
Ledgers == <<cursor, results, outcome, held, gen>>

LEMMA AccountsFrame ==
  ASSUME IInv, UNCHANGED Ledgers
  PROVE  Accounted' /\ RunningIsIncomplete'
BY DEF Ledgers, IInv, Accounted, RunningIsIncomplete, Running, Complete

-----------------------------------------------------------------------------
LEMMA InitInv == Init => IInv
<1> SUFFICES ASSUME Init PROVE IInv
  OBVIOUS
<1>1. TypeOK
  <2>1. \A s \in Slots : <<s, 0>> \in Threads /\ s \in Tasks
    BY Distinct DEF Threads
  <2>2. inbox \subseteq [worker : Threads, task : Tasks]
    BY <2>1 DEF Init, Request
  <2> QED
    BY <2>1, <2>2, PoolAssumption, Distinct DEF Init, TypeOK, Tasks
<1>2. AnswersNameTasks
  BY DEF Init, AnswersNameTasks
<1>3. RunningIsIncomplete
  <2>1. 1 \in Tasks
    BY PoolAssumption DEF Tasks
  <2> QED
    BY <2>1 DEF Init, RunningIsIncomplete, Complete
<1>4. Accounted
  <2>1. CASE outcome = "running"
    <3>1. cursor = SlotCount /\ \A s \in Slots : held[s] = s
      BY <2>1 DEF Init
    <3>2. \A t \in Tasks : results[t] = NoResult
      BY DEF Init
    <3>3. \A t \in Tasks : t <= SlotCount <=> t \in Slots
      BY Distinct DEF Slots, Tasks
    <3> QED
      BY <2>1, <3>1, <3>2, <3>3 DEF Accounted, Running
  <2>2. CASE outcome = "rejected"
    BY <2>2 DEF Accounted, Running
  <2> QED
    BY <2>1, <2>2 DEF Init
<1> QED
  BY <1>1, <1>2, <1>3, <1>4 DEF IInv

\* An event comes from a slot's thread, and one that is not stale from the
\* thread the slot has now.
LEMMA EventOfSlot ==
  ASSUME TypeOK, NEW e \in mail
  PROVE  /\ e.worker[1] \in Slots
         /\ ~Stale(e) => Running
         /\ mail \ {e} \subseteq mail
BY DEF TypeOK, Threads, Stale

LEMMA HandleInv ==
  ASSUME IInv, NEW e \in mail, Handle(e)
  PROVE  IInv'
<1>0. e.worker[1] \in Slots /\ (~Stale(e) => Running)
  BY EventOfSlot DEF IInv
<1>1. CASE DropStale(e)
  <2>1. Accounted' /\ RunningIsIncomplete'
    BY <1>1, AccountsFrame DEF DropStale, Ledgers, pool, slotVars
  <2> QED
    BY <1>1, <2>1
    DEF DropStale, IInv, TypeOK, AnswersNameTasks, pool, slotVars, Tasks
<1>2. CASE OnReady(e)
  <2>1. Accounted' /\ RunningIsIncomplete'
    BY <1>2, AccountsFrame DEF OnReady, Ledgers
  <2> QED
    BY <1>0, <1>2, <2>1
    DEF OnReady, ArmRunTimeout, IInv, TypeOK, AnswersNameTasks, Tasks
<1>3. CASE OnAnswer(e)
  <2>1. e.kind \in Answers /\ e.task \in Tasks /\ e.task = held[e.worker[1]]
    BY <1>3 DEF OnAnswer, Answers, IInv, AnswersNameTasks
  <2> QED
    BY <1>0, <1>3, <2>1, AnsweredStep DEF OnAnswer
<1>4. CASE OnNonsense(e)
  BY <1>0, <1>4, LostStep DEF OnNonsense, Verdicts
<1>5. CASE OnError(e)
  BY <1>0, <1>5, LostStep DEF OnError, Verdicts
<1>6. CASE OnExit(e)
  <2>1. CASE held[e.worker[1]] = NoTask
    <3>1. /\ mail' = mail \ {e}
          /\ UNCHANGED <<pool, alive, booted, inbox, faults, history>>
      BY <1>6, <2>1 DEF OnExit
    <3>2. Accounted' /\ RunningIsIncomplete'
      BY <3>1, AccountsFrame DEF Ledgers, pool, slotVars
    <3> QED
      BY <3>1, <3>2 DEF IInv, TypeOK, AnswersNameTasks, pool, slotVars, Tasks
  <2>2. CASE held[e.worker[1]] # NoTask
    <3>1. Lost(e.worker[1], "workerExit", {e})
      BY <1>6, <2>2 DEF OnExit
    <3> QED
      BY <1>0, <3>1, LostStep DEF Verdicts
  <2> QED
    BY <2>1, <2>2
<1> QED
  BY <1>1, <1>2, <1>3, <1>4, <1>5, <1>6 DEF Handle

LEMMA ThreadsInv ==
  ASSUME IInv,
         \/ \E w \in alive : Boot(w) \/ Break(w)
         \/ \E m \in inbox : Execute(m)
  PROVE  IInv'
<1>1. Accounted' /\ RunningIsIncomplete'
  BY AccountsFrame DEF Boot, Break, Execute, Ledgers, pool, slotVars
<1>2. ASSUME NEW w \in alive, Boot(w)
      PROVE  IInv'
  <2>1. /\ Event(w, "ready", NoTask)
             \in [worker : Threads, kind : Kinds, task : {NoTask} \union Tasks]
        /\ Event(w, "ready", NoTask).kind \notin Answers
        /\ w \in Threads
    BY DEF IInv, TypeOK, Event, Kinds, Answers
  <2> QED
    BY <1>1, <1>2, <2>1
    DEF Boot, IInv, TypeOK, AnswersNameTasks, pool, slotVars, Tasks
<1>3. ASSUME NEW w \in alive, Break(w)
      PROVE  IInv'
  <2>1. \A k \in {"exit", "error", "nonsense"} :
          /\ Event(w, k, NoTask)
               \in [worker : Threads, kind : Kinds, task : {NoTask} \union Tasks]
          /\ Event(w, k, NoTask).kind \notin Answers
    BY DEF IInv, TypeOK, Event, Kinds, Answers
  <2>2. PICK new \in SUBSET {Event(w, k, NoTask) : k \in {"exit", "error", "nonsense"}} :
          mail' = mail \union new
    BY <1>3 DEF Break
  <2>5. \A e \in new :
          /\ e \in [worker : Threads, kind : Kinds, task : {NoTask} \union Tasks]
          /\ e.kind \notin Answers
    BY <2>1
  <2>3. /\ mail' \subseteq
             [worker : Threads, kind : Kinds, task : {NoTask} \union Tasks]
        /\ AnswersNameTasks'
    BY <2>2, <2>5 DEF IInv, TypeOK, AnswersNameTasks, Tasks
  <2>4. /\ alive' \subseteq Threads /\ booted' \subseteq Threads
        /\ inbox' \subseteq [worker : Threads, task : Tasks]
        /\ faults' \in 0 .. MaxFaults
    BY <1>3, PoolAssumption DEF Break, IInv, TypeOK
  <2> QED
    BY <1>1, <1>3, <2>3, <2>4 DEF Break, IInv, TypeOK, pool, slotVars
<1>4. ASSUME NEW m \in inbox, Execute(m)
      PROVE  IInv'
  <2>1. \A k \in Answers :
          Event(m.worker, k, m.task)
            \in [worker : Threads, kind : Kinds, task : {NoTask} \union Tasks]
    BY DEF IInv, TypeOK, Event, Kinds, Answers
  <2>2. \A k \in Answers : Event(m.worker, k, m.task).task \in Tasks
    BY DEF IInv, TypeOK, Event
  <2>3. PICK k \in Answers : mail' = mail \union {Event(m.worker, k, m.task)}
    BY <1>4 DEF Execute, Answers
  <2> QED
    BY <1>1, <1>4, <2>1, <2>2, <2>3
    DEF Execute, IInv, TypeOK, AnswersNameTasks, pool, slotVars, Tasks
<1> QED
  BY <1>2, <1>3, <1>4

LEMMA NextInv == IInv /\ [Next]_vars => IInv'
<1> SUFFICES ASSUME IInv, [Next]_vars PROVE IInv'
  OBVIOUS
<1>1. CASE \E e \in mail : Handle(e)
  BY <1>1, HandleInv
<1>2. CASE \E s \in Slots : RunTimeout(s) \/ BootTimeout(s)
  BY <1>2, LostStep DEF RunTimeout, BootTimeout, Verdicts
<1>3. CASE \/ \E w \in alive : Boot(w) \/ Break(w)
           \/ \E m \in inbox : Execute(m)
  BY <1>3, ThreadsInv
<1>4. CASE UNCHANGED vars
  <2>1. Accounted' /\ RunningIsIncomplete'
    BY <1>4, AccountsFrame DEF vars, Ledgers, pool, slotVars
  <2> QED
    BY <1>4, <2>1
    DEF vars, pool, slotVars, threads, IInv, TypeOK, AnswersNameTasks, Tasks
<1> QED
  BY <1>1, <1>2, <1>3, <1>4 DEF Next

LEMMA AlwaysIInv == Spec => []IInv
BY InitInv, NextInv, PTL DEF Spec

\* The pool's state is well typed whatever the workers do.
THEOREM TypeCorrect == Spec => []TypeOK
<1>1. IInv => TypeOK
  BY DEF IInv
<1> QED
  BY <1>1, AlwaysIInv, PTL

\* pool.ts 144-147: exactly one result per task, no duplicates and no
\* omissions, for any number of tasks, workers and faults.
THEOREM NoDuplicatesNoOmissions == Spec => []Accounted
<1>1. IInv => Accounted
  BY DEF IInv
<1> QED
  BY <1>1, AlwaysIInv, PTL

-----------------------------------------------------------------------------
\* A lost worker writes its task's verdict, rejects the sweep, or concerns no
\* task at all.
LEMMA LostKeepsLedger ==
  ASSUME IInv, NEW s \in Slots, NEW verdict \in Verdicts, NEW seen,
         Lost(s, verdict, seen)
  PROVE  [Ledger!Next]_<<results, outcome>>
<1>1. /\ outcome = "running" /\ results' = Forfeit(s, verdict)
      /\ outcome' \in {"running", "resolved", "rejected"}
      /\ outcome' = "resolved" => Finished(results')
  BY DEF Lost, Running, Settle, HandOut, Retire
<1>2. Complete(results') <=> Ledger!Complete(results')
  BY DEF Complete, Ledger!Complete, Tasks, Ledger!Tasks, NoResult, Ledger!NoResult
<1>3. CASE held[s] = NoTask
  <2>1. results' = results
    BY <1>1, <1>3, Distinct DEF Forfeit, IInv, TypeOK
  <2>2. outcome' # "resolved"
    BY <1>1, <2>1 DEF Finished, IInv, RunningIsIncomplete, Running
  <2>3. CASE outcome' = "rejected"
    BY <1>1, <2>1, <2>3 DEF Ledger!Next, Ledger!Reject
  <2> QED
    BY <1>1, <2>1, <2>2, <2>3
<1>4. CASE held[s] # NoTask
  <2> DEFINE t == held[s]
  <2>1. t \in Tasks /\ t \in Ledger!Tasks
    BY <1>4 DEF IInv, TypeOK, Tasks, Ledger!Tasks
  <2>2. results[t] = NoResult
    BY <1>1, <2>1 DEF IInv, Accounted, Running
  <2>3. results' = [results EXCEPT ![t] = verdict]
    BY <1>1, <2>1, <2>2 DEF Forfeit, IInv, TypeOK
  <2>4. CASE outcome' = "rejected"
    BY <1>1, <2>1, <2>2, <2>3, <2>4
    DEF Ledger!Next, Ledger!Reject, NoResult, Ledger!NoResult
  <2>5. CASE outcome' # "rejected"
    <3>1. Ledger!Record(t, verdict)
      BY <1>1, <1>2, <2>1, <2>2, <2>3, <2>5
      DEF Ledger!Record, Finished, NoResult, Ledger!NoResult
    <3> QED
      BY <2>1, <3>1 DEF Ledger!Next
  <2> QED
    BY <2>4, <2>5
<1> QED
  BY <1>3, <1>4

\* An answered task is the ledger's Record.
LEMMA AnsweredKeepsLedger ==
  ASSUME IInv, NEW s \in Slots, NEW verdict \in Answers, NEW seen,
         held[s] \in Tasks, Running, Answered(s, held[s], verdict, seen)
  PROVE  [Ledger!Next]_<<results, outcome>>
<1> DEFINE t == held[s]
<1>1. results[t] = NoResult
  BY DEF IInv, Accounted
<1>2. /\ results' = [results EXCEPT ![t] = verdict]
      /\ outcome' \in {"running", "resolved"}
      /\ outcome' = "resolved" => Finished(results')
  BY <1>1 DEF Answered, Running, Settle, HandOut, Retire
<1>3. Complete(results') <=> Ledger!Complete(results')
  BY DEF Complete, Ledger!Complete, Tasks, Ledger!Tasks, NoResult, Ledger!NoResult
<1>4. t \in Ledger!Tasks /\ verdict \in Verdicts
  BY DEF Tasks, Ledger!Tasks, Answers, Verdicts
<1>5. Ledger!Record(t, verdict)
  BY <1>1, <1>2, <1>3
  DEF Ledger!Record, Finished, NoResult, Ledger!NoResult, Running
<1> QED
  BY <1>4, <1>5 DEF Ledger!Next

LEMMA NextKeepsLedger ==
  IInv /\ [Next]_vars => [Ledger!Next]_<<results, outcome>>
<1> SUFFICES ASSUME IInv, [Next]_vars
             PROVE  [Ledger!Next]_<<results, outcome>>
  OBVIOUS
<1>1. ASSUME NEW e \in mail, Handle(e)
      PROVE  [Ledger!Next]_<<results, outcome>>
  <2>0. e.worker[1] \in Slots /\ (~Stale(e) => Running)
    BY EventOfSlot DEF IInv
  <2>1. CASE OnAnswer(e)
    <3>1. e.kind \in Answers /\ e.task \in Tasks /\ e.task = held[e.worker[1]]
      BY <2>1 DEF OnAnswer, Answers, IInv, AnswersNameTasks
    <3> QED
      BY <2>0, <2>1, <3>1, AnsweredKeepsLedger DEF OnAnswer
  <2>2. CASE OnNonsense(e)
    BY <2>0, <2>2, LostKeepsLedger DEF OnNonsense, Verdicts
  <2>3. CASE OnError(e)
    BY <2>0, <2>3, LostKeepsLedger DEF OnError, Verdicts
  <2>4. CASE OnExit(e)
    <3>1. CASE held[e.worker[1]] = NoTask
      BY <2>4, <3>1 DEF OnExit, pool
    <3>2. CASE held[e.worker[1]] # NoTask
      <4>1. Lost(e.worker[1], "workerExit", {e})
        BY <2>4, <3>2 DEF OnExit
      <4> QED
        BY <2>0, <4>1, LostKeepsLedger DEF Verdicts
    <3> QED
      BY <3>1, <3>2
  <2>5. CASE DropStale(e) \/ OnReady(e)
    BY <2>5 DEF DropStale, OnReady, pool
  <2> QED
    BY <1>1, <2>1, <2>2, <2>3, <2>4, <2>5 DEF Handle
<1>2. CASE \E s \in Slots : RunTimeout(s) \/ BootTimeout(s)
  BY <1>2, LostKeepsLedger DEF RunTimeout, BootTimeout, Verdicts
<1>3. CASE \/ \E w \in alive : Boot(w) \/ Break(w)
           \/ \E m \in inbox : Execute(m)
  BY <1>3 DEF Boot, Break, Execute, pool
<1>4. CASE UNCHANGED vars
  BY <1>4 DEF vars, pool
<1> QED
  BY <1>1, <1>2, <1>3, <1>4 DEF Next

\* The pool, with its threads, timers and generations, implements the ledger
\* that its documentation promises.
THEOREM PoolKeepsLedger == Spec => KeepsLedger
<1>1. Init => Ledger!Init
  BY DEF Init, Ledger!Init, Tasks, Ledger!Tasks, NoResult, Ledger!NoResult
<1>2. IInv /\ [Next]_vars => [Ledger!Next]_Ledger!ledger
  BY NextKeepsLedger DEF Ledger!ledger
<1> QED
  BY <1>1, <1>2, AlwaysIInv, PTL DEF Spec, KeepsLedger, Ledger!Spec
-----------------------------------------------------------------------------
(* The threads.  What a handler concludes from an event holds because the  *)
(* wires hold nothing else from the slot's present thread: its ready comes *)
(* before its answers, it owes one answer at most, and if it is said to be *)
(* gone while a task is waited for, it broke of its own accord.            *)

Homes == (Slots \union {NoTask}) \X Nat

\* No thread is heard of before its generation.
Known ==
  /\ \A w \in booted : w[2] <= gen[w[1]]
  /\ \A m \in inbox : m.worker[2] <= gen[m.worker[1]]
  /\ \A e \in mail : e.worker[2] <= gen[e.worker[1]]

\* What the threads say is so.
Told ==
  \A e \in mail :
    /\ e.kind \in Answers \union {"ready"} => e.worker \in booted
    /\ e.kind \in Answers => Request(e.worker, e.task) \in executed
    /\ e.kind = "nonsense" => e.worker \in died

SlotIsServed(s) ==
  /\ ready[s] => Thread(s) \in booted
  /\ Thread(s) \in booted =>
       ready[s] \/ \E e \in mail : e.worker = Thread(s) /\ e.kind = "ready"
  /\ held[s] # NoTask => ranOn[held[s]] = Thread(s)
  /\ \A m \in inbox : m.worker = Thread(s) =>
       /\ m.task = held[s]
       /\ \A e \in mail : e.worker = Thread(s) => e.kind \notin Answers
  /\ \A e \in mail : e.worker = Thread(s) =>
       /\ e.kind \in Answers =>
            /\ e.task = held[s]
            /\ \A f \in mail : f.worker = Thread(s) /\ f.kind \in Answers => f = e
       /\ e.kind \in {"error", "exit"} /\ held[s] # NoTask => e.worker \in died
  /\ held[s] # NoTask => runTimer[s] \/ bootTimer[s]
  /\ runTimer[s] => Thread(s) \in booted /\ held[s] # NoTask

Served == Running => \A s \in Slots : SlotIsServed(s)

WInv ==
  /\ IInv
  /\ ranOn \in [Tasks -> Homes]
  /\ NoThreadIsForgotten
  /\ Known
  /\ Told
  /\ Served
  /\ VerdictIsDeserved

\* What a handler does to the wires: the threads it terminates may still say
\* that they are gone, and no other thread says anything new.
LEMMA TrafficOnWires ==
  ASSUME NEW seen, NEW fresh, NEW requests, NEW gone,
         Traffic(seen, fresh, requests, gone)
  PROVE  /\ booted' = booted /\ died' = died
         /\ alive' = (alive \union fresh) \ gone
         /\ \A m \in inbox' : m \in inbox \union requests /\ m.worker \notin gone
         /\ \A e \in mail' : \/ e \in mail \ seen
                             \/ e.worker \in gone /\ e.kind \in {"error", "exit"}
         /\ \A e \in mail \ seen : e \in mail'
<1>1. PICK throes \in DeathThroes((alive \union fresh) \intersect gone) :
        mail' = (mail \ seen) \union throes
  BY DEF Traffic
<1>2. \A e \in throes : e.worker \in gone /\ e.kind \in {"error", "exit"}
  BY DEF DeathThroes, Event
<1> QED
  BY <1>1, <1>2 DEF Traffic

\* A slot that a step does not concern: its own state stays, and its threads
\* have the same mail and no new request.
Untouched(x) ==
  /\ gen'[x] = gen[x] /\ held'[x] = held[x] /\ ready'[x] = ready[x]
  /\ runTimer'[x] = runTimer[x] /\ bootTimer'[x] = bootTimer[x]
  /\ held[x] # NoTask => ranOn'[held[x]] = ranOn[held[x]]
  /\ booted' = booted /\ died \subseteq died'
  /\ \A m \in inbox' : m.worker = Thread(x) => m \in inbox
  /\ \A e \in mail' : e.worker = Thread(x) => e \in mail
  /\ \A e \in mail : e.worker = Thread(x) => e \in mail'

LEMMA UntouchedIsServed ==
  ASSUME NEW x \in Slots, SlotIsServed(x), Untouched(x)
  PROVE  SlotIsServed(x)'
<1>1. Thread(x)' = Thread(x)
  BY DEF Untouched, Thread
<1>2. /\ ready'[x] => Thread(x)' \in booted'
      /\ Thread(x)' \in booted' =>
           ready'[x] \/ \E e \in mail' : e.worker = Thread(x)' /\ e.kind = "ready"
  BY <1>1 DEF Untouched, SlotIsServed
<1>3. held'[x] # NoTask => ranOn'[held'[x]] = Thread(x)'
  BY <1>1 DEF Untouched, SlotIsServed
<1>4. \A m \in inbox' : m.worker = Thread(x)' =>
        /\ m.task = held'[x]
        /\ \A e \in mail' : e.worker = Thread(x)' => e.kind \notin Answers
  BY <1>1 DEF Untouched, SlotIsServed
<1>5. \A e \in mail' : e.worker = Thread(x)' =>
        /\ e.kind \in Answers =>
             /\ e.task = held'[x]
             /\ \A f \in mail' : f.worker = Thread(x)' /\ f.kind \in Answers => f = e
        /\ e.kind \in {"error", "exit"} /\ held'[x] # NoTask => e.worker \in died'
  BY <1>1 DEF Untouched, SlotIsServed
<1>6. /\ held'[x] # NoTask => runTimer'[x] \/ bootTimer'[x]
      /\ runTimer'[x] => Thread(x)' \in booted' /\ held'[x] # NoTask
  BY <1>1 DEF Untouched, SlotIsServed
<1> QED
  BY <1>2, <1>3, <1>4, <1>5, <1>6 DEF SlotIsServed

\* A verdict is written to the task that slot s waits for, and no task that
\* has a result is handed out again.
LEMMA VerdictStaysDeserved ==
  ASSUME WInv, NEW s \in Slots, NEW verdict \in Verdicts,
         \A t \in Tasks : results'[t] # results[t] =>
           t = held[s] /\ results'[t] = verdict,
         \A t \in Tasks : results'[t] # NoResult => ranOn'[t] = ranOn[t],
         executed \subseteq executed', died \subseteq died',
         Running,
         held[s] # NoTask /\ verdict \in Answers =>
           Request(Thread(s), held[s]) \in executed,
         held[s] # NoTask /\ verdict \in {"workerError", "workerExit", "protocol"} =>
           Thread(s) \in died
  PROVE  VerdictIsDeserved'
<1> SUFFICES ASSUME NEW t \in Tasks
             PROVE  /\ results'[t] \in Answers => Request(ranOn'[t], t) \in executed'
                    /\ results'[t] \in {"workerError", "workerExit", "protocol"} =>
                         ranOn'[t] \in died'
  BY DEF VerdictIsDeserved, Answers, Request
<1>1. CASE results'[t] = results[t]
  BY <1>1 DEF WInv, VerdictIsDeserved, Answers, NoResult
<1>2. CASE results'[t] # results[t]
  <2>1. t = held[s] /\ results'[t] = verdict /\ t # NoTask
    BY <1>2, Distinct
  <2>2. ranOn'[t] = Thread(s)
    BY <2>1, Distinct DEF WInv, Served, SlotIsServed
  <2> QED
    BY <2>1, <2>2 DEF Answers
<1> QED
  BY <1>1, <1>2

\* A handler's traffic is with threads of generations that have begun.
LEMMA WiresStayKnown ==
  ASSUME WInv, NEW seen, NEW fresh, NEW gone \in SUBSET Threads,
         NEW requests \in SUBSET [worker : Threads, task : Tasks],
         Traffic(seen, fresh, requests, gone),
         gen' \in [Slots -> Nat], \A x \in Slots : gen[x] <= gen'[x],
         \A m \in requests : m.worker[2] <= gen'[m.worker[1]],
         \A w \in gone : w[2] <= gen'[w[1]],
         UNCHANGED executed
  PROVE  Known' /\ Told'
<1>1. /\ booted' = booted /\ died' = died
      /\ \A m \in inbox' : m \in inbox \union requests
      /\ \A e \in mail' : e \in mail \/ (e.worker \in gone /\ e.kind \in {"error", "exit"})
  BY TrafficOnWires
<1>2. \A w \in Threads : w[2] <= gen[w[1]] => w[2] <= gen'[w[1]]
  BY DEF WInv, IInv, TypeOK, Threads
<1>3. /\ \A w \in booted : w \in Threads /\ w[2] <= gen[w[1]]
      /\ \A m \in inbox : m.worker \in Threads /\ m.worker[2] <= gen[m.worker[1]]
      /\ \A e \in mail : e.worker \in Threads /\ e.worker[2] <= gen[e.worker[1]]
  BY DEF WInv, IInv, TypeOK, Known
<1>4. Known'
  <2>1. \A w \in booted' : w[2] <= gen'[w[1]]
    BY <1>1, <1>2, <1>3
  <2>2. \A m \in inbox' : m.worker[2] <= gen'[m.worker[1]]
    BY <1>1, <1>2, <1>3
  <2>3. \A e \in mail' : e.worker[2] <= gen'[e.worker[1]]
    BY <1>1, <1>2, <1>3
  <2> QED
    BY <2>1, <2>2, <2>3 DEF Known
<1>5. Told'
  <2>1. SUFFICES ASSUME NEW e \in mail'
                 PROVE  /\ e.kind \in Answers \union {"ready"} => e.worker \in booted'
                        /\ e.kind \in Answers => Request(e.worker, e.task) \in executed'
                        /\ e.kind = "nonsense" => e.worker \in died'
    BY DEF Told, Request
  <2>2. CASE e \in mail
    BY <1>1, <2>2 DEF WInv, Told
  <2>3. CASE e.kind \in {"error", "exit"}
    BY <2>3 DEF Answers
  <2> QED
    BY <1>1, <2>2, <2>3
<1> QED
  BY <1>4, <1>5

\* Once the promise is settled no thread runs, and nothing is owed.
LEMMA SettledIsServed ==
  ASSUME WInv, NEW how \in {"resolved", "rejected"}, NEW seen, Settle(how, seen),
         gen' \in [Slots -> Nat], \A x \in Slots : gen[x] <= gen'[x],
         UNCHANGED executed
  PROVE  /\ NoThreadIsForgotten' /\ Known' /\ Told' /\ Served'
         /\ ranOn' = ranOn /\ died' = died
<1>1. Traffic(seen, {}, {}, Attached) /\ outcome' = how /\ ranOn' = ranOn
  BY DEF Settle
<1>2. Attached \in SUBSET Threads
  BY SlotThreads DEF WInv, IInv
<1>3. \A w \in Attached : w[2] <= gen'[w[1]]
  BY DEF Attached, Thread, WInv, IInv, TypeOK
<1>4. Known' /\ Told'
  BY <1>1, <1>2, <1>3, WiresStayKnown
<1>5. alive' = {} /\ died' = died
  BY <1>1, TrafficOnWires DEF WInv, NoThreadIsForgotten
<1> QED
  BY <1>1, <1>4, <1>5 DEF NoThreadIsForgotten, Served, Running

\* Terminating and starting threads of slot s leaves the other slots' wires.
LEMMA OthersAreUntouched ==
  ASSUME WInv, Running, NEW s \in Slots, NEW x \in Slots, x # s,
         NEW seen, NEW fresh, NEW requests, NEW gone,
         Traffic(seen, fresh, requests, gone),
         \A e \in seen : e.worker[1] = s,
         \A m \in requests : m.worker[1] = s,
         \A w \in gone : w[1] = s,
         gen'[x] = gen[x], held'[x] = held[x], ready'[x] = ready[x],
         runTimer'[x] = runTimer[x], bootTimer'[x] = bootTimer[x],
         held[x] # NoTask => ranOn'[held[x]] = ranOn[held[x]]
  PROVE  SlotIsServed(x)'
<1>1. Thread(x)[1] = x
  BY DEF Thread
<1>2. Untouched(x)
  BY <1>1, TrafficOnWires DEF Untouched
<1>3. SlotIsServed(x)
  BY DEF WInv, Served
<1> QED
  BY <1>2, <1>3, UntouchedIsServed

\* The slot that is handed the next task.
LEMMA HandOutServes ==
  ASSUME WInv, IInv', Running, NEW s \in Slots,
         NEW seen, NEW fresh \in SUBSET Threads, NEW gone \in SUBSET Threads,
         Yields(s, results'),
         HandOut(s, Thread(s)', ready'[s], fresh, seen, gone),
         gen' \in [Slots -> Nat], \A x \in Slots \ {s} : gen'[x] = gen[x],
         gen[s] <= gen'[s],
         \A x \in Slots \ {s} : attached'[x] = attached[x],
         attached[s] => attached'[s],
         \A v \in fresh : attached'[s],
         \A x \in Slots \ {s} : ready'[x] = ready[x],
         \A x \in Slots \ {s} : bootTimer'[x] = bootTimer[x],
         ready'[s] \/ bootTimer'[s],
         fresh \subseteq {Thread(s)'},
         \A e \in seen : e.worker[1] = s,
         \A w \in gone : w[1] = s /\ w[2] < gen'[s],
         Thread(s) # Thread(s)' => Thread(s) \in gone,
         Thread(s)' \in booted => ready'[s],
         ready'[s] => Thread(s)' \in booted,
         \A m \in inbox : m.worker # Thread(s)',
         \A e \in mail \ seen : e.worker = Thread(s)' =>
           /\ e.kind \notin Answers
           /\ e.kind \in {"error", "exit"} => e.worker \in died,
         UNCHANGED executed
  PROVE  /\ NoThreadIsForgotten' /\ Known' /\ Told' /\ Served' /\ died' = died
         /\ ranOn' \in [Tasks -> Homes]
         /\ \A t \in Tasks : results'[t] # NoResult => ranOn'[t] = ranOn[t]
<1> DEFINE w == Thread(s)'
           request == Request(w, cursor + 1)
<1>1. /\ cursor < NumTasks /\ cursor + 1 \in Tasks
      /\ held' = [held EXCEPT ![s] = cursor + 1]
      /\ runTimer'[s] <=> ready'[s]
      /\ \A x \in Slots \ {s} : runTimer'[x] = runTimer[x]
      /\ ranOn' = [ranOn EXCEPT ![cursor + 1] = w]
      /\ Traffic(seen, fresh, {request}, gone)
      /\ outcome' = outcome
  <2>1. cursor < NumTasks /\ cursor \in Nat /\ cursor + 1 \in Tasks /\ cursor + 1 # NoTask
    BY PoolAssumption, Distinct DEF HandOut, WInv, IInv, TypeOK, Tasks
  <2>2. runTimer' = [runTimer EXCEPT ![s] = ready'[s] /\ cursor + 1 # NoTask]
    BY DEF HandOut, ArmRunTimeout
  <2>3. runTimer'[s] <=> ready'[s]
    BY <2>1, <2>2 DEF WInv, IInv, TypeOK
  <2>4. \A x \in Slots \ {s} : runTimer'[x] = runTimer[x]
    BY <2>2 DEF WInv, IInv, TypeOK
  <2> QED
    BY <2>1, <2>3, <2>4 DEF HandOut
<1>2. w = <<s, gen'[s]>> /\ w \in Threads /\ w \in Homes /\ w \notin gone
  BY DEF Thread, Threads, Homes
<1>3. results[cursor + 1] = NoResult /\ \A x \in Slots : held[x] # cursor + 1
  BY <1>1 DEF WInv, IInv, Accounted, TypeOK
<1>4. results'[cursor + 1] = NoResult
  BY <1>1, <1>3 DEF Yields
<1>5. ranOn' \in [Tasks -> Homes]
  BY <1>1, <1>2 DEF WInv
<1>6. \A t \in Tasks : results'[t] # NoResult => ranOn'[t] = ranOn[t]
  BY <1>1, <1>4 DEF WInv
<1>7. /\ booted' = booted /\ died' = died
      /\ alive' = (alive \union fresh) \ gone
      /\ \A m \in inbox' : m \in inbox \union {request} /\ m.worker \notin gone
      /\ \A e \in mail' : \/ e \in mail \ seen
                          \/ e.worker \in gone /\ e.kind \in {"error", "exit"}
      /\ \A e \in mail \ seen : e \in mail'
  BY <1>1, TrafficOnWires
<1>8. request.worker = w /\ request.task = cursor + 1 /\ request \in [worker : Threads, task : Tasks]
  BY <1>1, <1>2 DEF Request
<1>9. \A x \in Slots : gen[x] <= gen'[x]
  BY DEF WInv, IInv, TypeOK
<1>10. Known' /\ Told'
  <2>1. \A m \in {request} : m.worker[2] <= gen'[m.worker[1]]
    BY <1>2, <1>8
  <2>2. \A v \in gone : v[2] <= gen'[v[1]]
    BY DEF Threads
  <2> HIDE DEF request
  <2> QED
    BY <1>1, <1>8, <1>9, <2>1, <2>2, WiresStayKnown
<1>11. NoThreadIsForgotten'
  <2>1. \A x \in Slots \ {s} : Thread(x)' = Thread(x) /\ attached'[x] = attached[x]
    BY DEF Thread, WInv, IInv, TypeOK
  <2>3. \A v \in alive : \E x \in Slots : attached[x] /\ v = Thread(x)
    BY DEF WInv, NoThreadIsForgotten, Attached
  <2>4. \A v \in alive' : \E x \in Slots : attached'[x] /\ v = Thread(x)'
    BY <1>7, <2>1, <2>3
  <2> QED
    BY <1>1, <2>4 DEF NoThreadIsForgotten, Attached, Running
<1>12. ASSUME NEW x \in Slots, x # s
       PROVE  SlotIsServed(x)'
  <2>1. held[x] # NoTask => held[x] \in Tasks /\ held[x] # cursor + 1
    BY <1>3 DEF WInv, IInv, TypeOK
  <2>2. held[x] # NoTask => ranOn'[held[x]] = ranOn[held[x]]
    BY <1>1, <2>1 DEF WInv
  <2>3. held'[x] = held[x] /\ ready'[x] = ready[x] /\ runTimer'[x] = runTimer[x]
    BY <1>1, <1>12 DEF WInv, IInv, TypeOK
  <2>4. \A m \in {request} : m.worker[1] = s
    BY <1>2, <1>8
  <2> HIDE DEF request
  <2> QED
    BY <1>1, <1>12, <2>2, <2>3, <2>4, OthersAreUntouched
<1>13. SlotIsServed(s)'
  <2>1. held'[s] = cursor + 1 /\ (runTimer'[s] <=> ready'[s])
        /\ held'[s] # NoTask
    BY <1>1, Distinct DEF WInv, IInv, TypeOK
  <2>2. ranOn'[held'[s]] = w
    BY <1>1, <2>1 DEF WInv
  <2>3. \A m \in inbox' : m.worker = w => m.task = cursor + 1
    BY <1>7, <1>8
  <2>4. \A e \in mail' : e.worker = w =>
          /\ e.kind \notin Answers
          /\ e.kind \in {"error", "exit"} => e.worker \in died'
    BY <1>2, <1>7
  <2> HIDE DEF w
  <2> QED
    BY <1>7, <2>1, <2>2, <2>3, <2>4 DEF SlotIsServed, w
<1> QED
  BY <1>1, <1>5, <1>6, <1>7, <1>10, <1>11, <1>12, <1>13 DEF Served

\* The slot that is retired.
LEMMA RetireServes ==
  ASSUME WInv, IInv', Running, NEW s \in Slots,
         NEW seen, NEW fresh, NEW gone \in SUBSET Threads,
         Retire(s, fresh, seen, gone),
         gen' \in [Slots -> Nat], \A x \in Slots \ {s} : gen'[x] = gen[x],
         gen[s] <= gen'[s],
         \A x \in Slots \ {s} : ready'[x] = ready[x],
         fresh \subseteq gone, Thread(s) \in gone, Thread(s)' \in gone,
         \A e \in seen : e.worker[1] = s,
         \A w \in gone : w[1] = s /\ w[2] <= gen'[s],
         ready'[s] <=> Thread(s)' \in booted,
         \A e \in mail \ seen : e.worker = Thread(s)' => e.kind \notin Answers,
         UNCHANGED executed
  PROVE  /\ NoThreadIsForgotten' /\ Known' /\ Told' /\ Served' /\ died' = died
         /\ ranOn' = ranOn
<1>1. /\ held' = [held EXCEPT ![s] = NoTask]
      /\ attached' = [attached EXCEPT ![s] = FALSE]
      /\ runTimer' = [runTimer EXCEPT ![s] = FALSE]
      /\ bootTimer' = [bootTimer EXCEPT ![s] = FALSE]
      /\ Traffic(seen, fresh, {}, gone)
      /\ outcome' = outcome /\ ranOn' = ranOn
  BY DEF Retire
<1>2. /\ booted' = booted /\ died' = died
      /\ alive' = (alive \union fresh) \ gone
      /\ \A m \in inbox' : m.worker \notin gone
      /\ \A e \in mail' : \/ e \in mail \ seen
                          \/ e.worker \in gone /\ e.kind \in {"error", "exit"}
  BY <1>1, TrafficOnWires
<1>3. \A x \in Slots : gen[x] <= gen'[x]
  BY DEF WInv, IInv, TypeOK
<1>4. \A w \in gone : w[2] <= gen'[w[1]]
  OBVIOUS
<1>5. Known' /\ Told'
  BY <1>1, <1>3, <1>4, WiresStayKnown
<1>6. NoThreadIsForgotten'
  <2>1. \A x \in Slots \ {s} : Thread(x)' = Thread(x) /\ attached'[x] = attached[x]
    BY <1>1 DEF Thread, WInv, IInv, TypeOK
  <2>2. \A v \in alive : \E x \in Slots : attached[x] /\ v = Thread(x)
    BY DEF WInv, NoThreadIsForgotten, Attached
  <2>3. \A v \in alive' : \E x \in Slots : attached'[x] /\ v = Thread(x)'
    BY <1>2, <2>1, <2>2
  <2> QED
    BY <1>1, <2>3 DEF NoThreadIsForgotten, Attached, Running
<1>7. ASSUME NEW x \in Slots, x # s
      PROVE  SlotIsServed(x)'
  <2>1. /\ held'[x] = held[x] /\ ready'[x] = ready[x]
        /\ runTimer'[x] = runTimer[x] /\ bootTimer'[x] = bootTimer[x]
    BY <1>1, <1>7 DEF WInv, IInv, TypeOK
  <2>2. (held[x] # NoTask => ranOn'[held[x]] = ranOn[held[x]]) /\ gen'[x] = gen[x]
    BY <1>1, <1>7
  <2>3. /\ \A m \in {} : m.worker[1] = s
        /\ \A w \in gone : w[1] = s
    OBVIOUS
  <2> DEFINE none == {}
  <2>4. Traffic(seen, fresh, none, gone) /\ \A m \in none : m.worker[1] = s
    BY <1>1
  <2> HIDE DEF none
  <2> QED
    BY <1>7, <2>1, <2>2, <2>3, <2>4, OthersAreUntouched
<1>8. SlotIsServed(s)'
  <2>1. held'[s] = NoTask /\ ~runTimer'[s]
    BY <1>1 DEF WInv, IInv, TypeOK
  <2>2. \A e \in mail' : e.worker = Thread(s)' => e.kind \notin Answers
    BY <1>2 DEF Answers
  <2> QED
    BY <1>2, <2>1, <2>2 DEF SlotIsServed
<1> QED
  BY <1>1, <1>2, <1>5, <1>6, <1>7, <1>8 DEF Served

\* A worker is given up only for what it did, or for taking too long.
LEMMA LostServes ==
  ASSUME WInv, NEW s \in Slots, NEW verdict \in Verdicts \ Answers, NEW seen,
         Lost(s, verdict, seen),
         \A e \in seen : e.worker[1] = s,
         held[s] # NoTask /\ verdict \in {"workerError", "workerExit", "protocol"} =>
           Thread(s) \in died
  PROVE  WInv'
<1> DEFINE old == Thread(s)
           new == <<s, gen[s] + 1>>
<1>1. IInv'
  BY LostStep DEF WInv
<1>2. /\ Running /\ results' = Forfeit(s, verdict)
      /\ gen' = [gen EXCEPT ![s] = @ + 1] /\ executed' = executed
  BY DEF Lost
<1>3. Yields(s, results')
  BY <1>2, ForfeitYields DEF WInv, IInv
<1>4. \A t \in Tasks : results'[t] # results[t] => t = held[s] /\ results'[t] = verdict
  BY <1>2 DEF Forfeit
<1>5. /\ gen' \in [Slots -> Nat] /\ gen[s] \in Nat /\ gen'[s] = gen[s] + 1
      /\ \A x \in Slots \ {s} : gen'[x] = gen[x]
      /\ \A x \in Slots : gen[x] <= gen'[x]
  BY <1>2 DEF WInv, IInv, TypeOK
<1>6. /\ old \in Threads /\ new \in Threads /\ new = Thread(s)' /\ old # new
      /\ old[1] = s /\ old[2] = gen[s] /\ new[1] = s /\ new[2] = gen[s] + 1
  BY <1>5 DEF Thread, Threads
<1>7. /\ new \notin booted
      /\ \A m \in inbox : m.worker # new
      /\ \A e \in mail : e.worker # new
  BY <1>5, <1>6 DEF WInv, Known
<1>8. ASSUME \A t \in Tasks : results'[t] # NoResult => ranOn'[t] = ranOn[t],
             died' = died
      PROVE  VerdictIsDeserved'
  BY <1>2, <1>4, <1>8, VerdictStaysDeserved
<1>9. ASSUME NEW how \in {"resolved", "rejected"}, Settle(how, seen)
      PROVE  WInv'
  <2>1. /\ NoThreadIsForgotten' /\ Known' /\ Told' /\ Served'
        /\ ranOn' = ranOn /\ died' = died
    BY <1>2, <1>5, <1>9, SettledIsServed
  <2> QED
    BY <1>1, <1>8, <2>1 DEF WInv, Homes
<1>10. CASE /\ attached' = [attached EXCEPT ![s] = TRUE]
            /\ ready' = [ready EXCEPT ![s] = FALSE]
            /\ bootTimer' = [bootTimer EXCEPT ![s] = TRUE]
            /\ HandOut(s, new, FALSE, {new}, seen, {old})
  <2>1. /\ bootTimer'[s] /\ \A x \in Slots \ {s} : bootTimer'[x] = bootTimer[x]
        /\ attached'[s] /\ \A x \in Slots \ {s} : attached'[x] = attached[x]
    BY <1>10 DEF WInv, IInv, TypeOK
  <2>9. ready'[s] = FALSE /\ \A x \in Slots \ {s} : ready'[x] = ready[x]
    BY <1>10 DEF WInv, IInv, TypeOK
  <2>2. HandOut(s, Thread(s)', ready'[s], {Thread(s)'}, seen, {old})
    BY <1>6, <1>10, <2>9
  <2>3. \A w \in {old} : w[1] = s /\ w[2] < gen'[s]
    BY <1>5, <1>6
  <2>4. {old} \in SUBSET Threads /\ {Thread(s)'} \in SUBSET Threads /\ old \in {old}
    BY <1>6
  <2>5. Thread(s)' \notin booted
    BY <1>6, <1>7
  <2>6. \A m \in inbox : m.worker # Thread(s)'
    BY <1>6, <1>7
  <2>7. \A e \in mail \ seen : e.worker = Thread(s)' =>
          /\ e.kind \notin Answers
          /\ e.kind \in {"error", "exit"} => e.worker \in died
    BY <1>6, <1>7
  <2>10. {Thread(s)'} \subseteq {Thread(s)'} /\ (ready'[s] \/ bootTimer'[s])
         /\ (ready'[s] => Thread(s)' \in booted) /\ gen[s] <= gen'[s]
    BY <1>5, <2>1, <2>9
  <2>8. /\ NoThreadIsForgotten' /\ Known' /\ Told' /\ Served' /\ died' = died
        /\ ranOn' \in [Tasks -> Homes]
        /\ \A t \in Tasks : results'[t] # NoResult => ranOn'[t] = ranOn[t]
    <3> DEFINE gone == {old}
               fresh == {Thread(s)'}
    <3>1. /\ HandOut(s, Thread(s)', ready'[s], fresh, seen, gone)
          /\ gone \in SUBSET Threads /\ fresh \in SUBSET Threads
          /\ fresh \subseteq {Thread(s)'} /\ Thread(s) \in gone
          /\ \A w \in gone : w[1] = s /\ w[2] < gen'[s]
          /\ (\A v \in fresh : attached'[s]) /\ (attached[s] => attached'[s])
      BY <2>1, <2>2, <2>3, <2>4
    <3>2. /\ \A x \in Slots \ {s} : attached'[x] = attached[x]
          /\ \A x \in Slots \ {s} : ready'[x] = ready[x]
          /\ \A x \in Slots \ {s} : bootTimer'[x] = bootTimer[x]
          /\ ready'[s] \/ bootTimer'[s]
          /\ Thread(s) # Thread(s)' => Thread(s) \in gone
          /\ Thread(s)' \in booted => ready'[s]
          /\ ready'[s] => Thread(s)' \in booted
          /\ gen[s] <= gen'[s]
      BY <2>1, <2>5, <2>9, <2>10, <3>1
    <3>3. Running /\ executed' = executed /\ gen' \in [Slots -> Nat]
          /\ \A x \in Slots \ {s} : gen'[x] = gen[x]
      BY <1>2, <1>5
    <3> HIDE DEF old, new, gone, fresh
    <3> QED
      BY <1>1, <1>3, <2>6, <2>7, <3>1, <3>2, <3>3, HandOutServes
  <2> QED
    BY <1>1, <1>8, <2>8 DEF WInv
<1>11. CASE ready' = [ready EXCEPT ![s] = FALSE] /\ Retire(s, {new}, seen, {old, new})
  <2>1. \A w \in {old, new} : w[1] = s /\ w[2] <= gen'[s]
    BY <1>5, <1>6
  <2>2. /\ {old, new} \in SUBSET Threads /\ {new} \subseteq {old, new}
        /\ Thread(s) \in {old, new} /\ Thread(s)' \in {old, new}
    BY <1>6
  <2>3. Thread(s)' \notin booted /\ \A e \in mail \ seen : e.worker # Thread(s)'
    BY <1>6, <1>7
  <2>5. ready'[s] = FALSE /\ \A x \in Slots \ {s} : ready'[x] = ready[x]
    BY <1>11 DEF WInv, IInv, TypeOK
  <2>4. /\ NoThreadIsForgotten' /\ Known' /\ Told' /\ Served' /\ died' = died
        /\ ranOn' = ranOn
    <3> DEFINE gone == {old, new}
               fresh == {new}
    <3>1. /\ Retire(s, fresh, seen, gone)
          /\ gone \in SUBSET Threads /\ fresh \subseteq gone
          /\ Thread(s) \in gone /\ Thread(s)' \in gone
          /\ \A w \in gone : w[1] = s /\ w[2] <= gen'[s]
      BY <1>11, <2>1, <2>2
    <3>2. /\ gen[s] <= gen'[s]
          /\ ready'[s] <=> Thread(s)' \in booted
          /\ \A e \in mail \ seen : e.worker = Thread(s)' => e.kind \notin Answers
      BY <1>5, <2>3, <2>5
    <3> HIDE DEF old, new, gone, fresh
    <3> QED
      BY <1>1, <1>2, <1>5, <2>5, <3>1, <3>2, RetireServes
  <2> QED
    BY <1>1, <1>8, <2>4 DEF WInv, Homes
<1> QED
  BY <1>9, <1>10, <1>11 DEF Lost

\* An answer is the slot's own thread's, to the task the slot waits for, and
\* it is the last thing that thread owes.
LEMMA AnsweredServes ==
  ASSUME WInv, NEW e \in mail, OnAnswer(e)
  PROVE  WInv'
<1> DEFINE s == e.worker[1]
           w == Thread(s)
           verdict == e.kind
<1>1. /\ s \in Slots /\ Running /\ e.worker = w /\ w \in Threads
      /\ verdict \in Answers /\ e.task = held[s] /\ held[s] \in Tasks
  <2>1. e.worker \in Threads /\ Running /\ gen[e.worker[1]] = e.worker[2]
    BY DEF OnAnswer, Stale, WInv, IInv, TypeOK
  <2> QED
    BY <2>1 DEF OnAnswer, Answers, WInv, IInv, AnswersNameTasks, Thread, Threads
<1>2. Answered(s, held[s], verdict, {e})
  BY DEF OnAnswer
<1>3. IInv'
  <2> HIDE DEF s, verdict
  <2> QED
    BY <1>1, <1>2, AnsweredStep DEF WInv
<1>4. SlotIsServed(s)
  BY <1>1 DEF WInv, Served
<1>5. ready[s] /\ w \in booted
  <2>1. w \in booted
    BY <1>1 DEF WInv, Told
  <2>2. \A f \in mail : f.worker = w => f.kind # "ready"
    BY <1>1 DEF OnAnswer, Deliver, Deliverable, Answers
  <2> QED
    BY <1>4, <2>1, <2>2 DEF SlotIsServed
<1>6. results[held[s]] = NoResult /\ gen' = gen /\ executed' = executed
  BY <1>1, <1>2 DEF Answered, WInv, IInv, Accounted
<1>7. results' = [results EXCEPT ![held[s]] = verdict]
  BY <1>2, <1>6 DEF Answered
<1>8. Yields(s, results')
  <2> HIDE DEF s, verdict
  <2> QED
    BY <1>1, <1>7, AnswerYields DEF WInv, IInv, Answers, Verdicts
<1>9. \A t \in Tasks : results'[t] # results[t] => t = held[s] /\ results'[t] = verdict
  BY <1>7 DEF WInv, IInv, TypeOK
<1>10. Request(w, held[s]) \in executed
  BY <1>1 DEF WInv, Told
<1>11. ASSUME \A t \in Tasks : results'[t] # NoResult => ranOn'[t] = ranOn[t],
              died' = died
       PROVE  VerdictIsDeserved'
  <2>1. /\ verdict \in Verdicts
        /\ verdict \notin {"workerError", "workerExit", "protocol"}
    BY <1>1 DEF Answers, Verdicts
  <2> HIDE DEF s, verdict
  <2> QED
    BY <1>1, <1>6, <1>9, <1>10, <1>11, <2>1, VerdictStaysDeserved DEF w
<1>12. /\ Thread(s)' = w /\ w[1] = s /\ w[2] = gen[s] /\ gen[s] \in Nat
       /\ gen' \in [Slots -> Nat] /\ \A x \in Slots : gen[x] <= gen'[x]
       /\ \A x \in Slots \ {s} : gen'[x] = gen[x]
  BY <1>1, <1>6 DEF Thread, WInv, IInv, TypeOK
<1>13. /\ \A m \in inbox : m.worker # w
       /\ \A f \in mail \ {e} : f.worker = w =>
            /\ f.kind \notin Answers
            /\ f.kind \in {"error", "exit"} => f.worker \in died
  BY <1>1, <1>4, Distinct DEF SlotIsServed
<1>14. \A f \in {e} : f.worker[1] = s
  BY <1>1
<1>15. CASE /\ HandOut(s, w, ready[s], {}, {e}, {})
            /\ bootTimer' = [bootTimer EXCEPT ![s] = FALSE]
            /\ UNCHANGED <<attached, ready>>
  <2>1. /\ ready' = ready /\ attached' = attached
        /\ \A x \in Slots \ {s} : bootTimer'[x] = bootTimer[x]
    BY <1>15 DEF WInv, IInv, TypeOK
  <2>3. HandOut(s, Thread(s)', ready'[s], {}, {e}, {})
    BY <1>12, <1>15, <2>1
  <2> DEFINE none == {}
             seen == {e}
  <2>4. /\ HandOut(s, Thread(s)', ready'[s], none, seen, none)
        /\ none \in SUBSET Threads /\ none \subseteq {Thread(s)'}
        /\ \A v \in none : attached'[s]
        /\ \A v \in none : v[1] = s /\ v[2] < gen'[s]
        /\ \A f \in seen : f.worker[1] = s
    BY <1>14, <2>3
  <2>5. /\ \A m \in inbox : m.worker # Thread(s)'
        /\ \A f \in mail \ seen : f.worker = Thread(s)' =>
             /\ f.kind \notin Answers
             /\ f.kind \in {"error", "exit"} => f.worker \in died
    BY <1>12, <1>13
  <2>6. /\ ready'[s] \/ bootTimer'[s]
        /\ Thread(s)' \in booted => ready'[s]
        /\ ready'[s] => Thread(s)' \in booted
        /\ Thread(s) # Thread(s)' => Thread(s) \in none
        /\ gen[s] <= gen'[s]
        /\ \A x \in Slots \ {s} : ready'[x] = ready[x]
    BY <1>1, <1>5, <1>12, <2>1
  <2>7. /\ NoThreadIsForgotten' /\ Known' /\ Told' /\ Served' /\ died' = died
        /\ ranOn' \in [Tasks -> Homes]
        /\ \A t \in Tasks : results'[t] # NoResult => ranOn'[t] = ranOn[t]
    <3> HIDE DEF s, w, verdict, none, seen
    <3> QED
      BY <1>1, <1>3, <1>6, <1>8, <1>12, <2>1, <2>4, <2>5, <2>6, HandOutServes
  <2> QED
    BY <1>3, <1>11, <2>7 DEF WInv
<1>16. CASE Retire(s, {}, {e}, {w}) /\ UNCHANGED ready
  <2> DEFINE none == {}
             seen == {e}
             gone == {w}
  <2>1. /\ Retire(s, none, seen, gone) /\ gone \in SUBSET Threads
        /\ none \subseteq gone /\ Thread(s) \in gone /\ Thread(s)' \in gone
        /\ \A v \in gone : v[1] = s /\ v[2] <= gen'[s]
        /\ \A f \in seen : f.worker[1] = s
    BY <1>1, <1>12, <1>14, <1>16
  <2>2. /\ gen[s] <= gen'[s]
        /\ ready'[s] <=> Thread(s)' \in booted
        /\ \A f \in mail \ seen : f.worker = Thread(s)' => f.kind \notin Answers
        /\ \A x \in Slots \ {s} : ready'[x] = ready[x]
    BY <1>1, <1>5, <1>12, <1>13, <1>16
  <2>3. /\ NoThreadIsForgotten' /\ Known' /\ Told' /\ Served' /\ died' = died
        /\ ranOn' = ranOn
    <3> HIDE DEF s, w, verdict, none, seen, gone
    <3> QED
      BY <1>1, <1>3, <1>6, <1>12, <2>1, <2>2, RetireServes
  <2> QED
    BY <1>3, <1>11, <2>3 DEF WInv, Homes
<1>17. CASE Settle("resolved", {e})
  <2>1. /\ NoThreadIsForgotten' /\ Known' /\ Told' /\ Served'
        /\ ranOn' = ranOn /\ died' = died
    BY <1>6, <1>12, <1>17, SettledIsServed
  <2> QED
    BY <1>3, <1>11, <2>1 DEF WInv, Homes
<1> QED
  BY <1>2, <1>6, <1>15, <1>16, <1>17 DEF Answered

-----------------------------------------------------------------------------
LEMMA InitThreads == Init => WInv
<1> SUFFICES ASSUME Init PROVE WInv
  OBVIOUS
<1>1. IInv
  BY InitInv
<1>2. \A t \in Tasks : results[t] = NoResult
  BY DEF Init
<1>3. VerdictIsDeserved
  BY <1>2 DEF VerdictIsDeserved, NoResult
<1>4. ranOn \in [Tasks -> Homes]
  <2>1. \A s \in Slots \union {NoTask} : <<s, 0>> \in Homes
    BY DEF Homes
  <2> QED
    BY <2>1 DEF Init
<1>5. NoThreadIsForgotten
  BY DEF Init, NoThreadIsForgotten, Attached, Thread, Running
<1>6. Known /\ Told
  BY DEF Init, Known, Told, Request
<1>7. ASSUME Running, NEW s \in Slots
      PROVE  SlotIsServed(s)
  <2>1. /\ held[s] = s /\ bootTimer[s] /\ ~ready[s] /\ ~runTimer[s]
        /\ booted = {} /\ mail = {} /\ Thread(s) = <<s, 0>>
        /\ ranOn[s] = <<s, 0>>
    BY <1>7, Distinct DEF Init, Running, Thread
  <2>2. \A m \in inbox : m.worker = <<m.task, 0>>
    BY <1>7 DEF Init, Running, Request
  <2>3. \A m \in inbox : m.worker = <<s, 0>> => m.task = s
    BY <2>2
  <2> QED
    BY <2>1, <2>3 DEF SlotIsServed
<1> QED
  BY <1>1, <1>3, <1>4, <1>5, <1>6, <1>7 DEF WInv, Served

\* The steps that hand out, judge and terminate nothing.
Standing ==
  <<cursor, results, outcome, gen, held, attached, bootTimer, alive, ranOn>>

LEMMA StandingFrame ==
  ASSUME WInv, UNCHANGED Standing, executed \subseteq executed', died \subseteq died'
  PROVE  ranOn' \in [Tasks -> Homes] /\ NoThreadIsForgotten' /\ VerdictIsDeserved'
<1>1. ranOn' \in [Tasks -> Homes]
  BY DEF Standing, WInv, Homes
<1>2. NoThreadIsForgotten'
  BY DEF Standing, WInv, NoThreadIsForgotten, Attached, Thread, Running
<1>3. VerdictIsDeserved'
  BY DEF Standing, WInv, VerdictIsDeserved, Request
<1> QED
  BY <1>1, <1>2, <1>3

\* An event that concludes nothing is dropped: it is stale, or the exit of a
\* worker whose slot waits for nothing.
LEMMA DroppedServes ==
  ASSUME WInv, IInv', NEW e \in mail, mail' = mail \ {e},
         e.kind # "ready" \/ Stale(e),
         UNCHANGED <<pool, alive, booted, inbox, faults, history>>
  PROVE  WInv'
<1>1. /\ UNCHANGED Standing /\ UNCHANGED <<ready, runTimer, booted, inbox, died, executed>>
  BY DEF Standing, pool, slotVars, history
<1>2. ranOn' \in [Tasks -> Homes] /\ NoThreadIsForgotten' /\ VerdictIsDeserved'
  BY <1>1, StandingFrame
<1>3. Known' /\ Told'
  BY <1>1 DEF Standing, WInv, Known, Told, Request
<1>4. Served'
  <2>1. SUFFICES ASSUME Running, NEW x \in Slots
                 PROVE  SlotIsServed(x)'
    BY <1>1 DEF Standing, Served, Running
  <2>2. SlotIsServed(x)
    BY <2>1 DEF WInv, Served
  <2>3. Thread(x)' = Thread(x)
    BY <1>1 DEF Standing, Thread
  <2>4. e.worker = Thread(x) => e.kind # "ready"
    BY <2>1 DEF Stale, Thread
  <2>5. Thread(x) \in booted =>
          ready[x] \/ \E f \in mail' : f.worker = Thread(x) /\ f.kind = "ready"
    BY <2>2, <2>4 DEF SlotIsServed
  <2> QED
    BY <1>1, <2>2, <2>3, <2>5 DEF Standing, SlotIsServed
<1> QED
  BY <1>2, <1>3, <1>4 DEF WInv

LEMMA ReadyServes ==
  ASSUME WInv, IInv', NEW e \in mail, OnReady(e)
  PROVE  WInv'
<1> DEFINE s == e.worker[1]
<1>1. /\ s \in Slots /\ Running /\ e.worker = Thread(s) /\ e.kind = "ready"
  BY DEF OnReady, Stale, WInv, IInv, TypeOK, Thread, Threads
<1>2. /\ UNCHANGED <<cursor, results, outcome, gen, held, attached, alive, ranOn>>
      /\ UNCHANGED <<booted, inbox, died, executed>> /\ mail' = mail \ {e}
      /\ ready' = [ready EXCEPT ![s] = TRUE]
      /\ bootTimer' = [bootTimer EXCEPT ![s] = FALSE]
      /\ runTimer' = [runTimer EXCEPT ![s] = TRUE /\ held[s] # NoTask]
  BY DEF OnReady, ArmRunTimeout, history
<1>3. ranOn' \in [Tasks -> Homes] /\ NoThreadIsForgotten' /\ VerdictIsDeserved'
  <2>1. ranOn' \in [Tasks -> Homes]
    BY <1>2 DEF WInv, Homes
  <2>2. NoThreadIsForgotten'
    BY <1>2 DEF WInv, NoThreadIsForgotten, Attached, Thread, Running
  <2>3. VerdictIsDeserved'
    BY <1>2 DEF WInv, VerdictIsDeserved, Request
  <2> QED
    BY <2>1, <2>2, <2>3
<1>4. Known' /\ Told'
  BY <1>2 DEF WInv, Known, Told, Request
<1>5. \A x \in Slots : Thread(x)' = Thread(x) /\ SlotIsServed(x)
  BY <1>1, <1>2 DEF Thread, WInv, Served
<1>6. ASSUME NEW x \in Slots, x # s
      PROVE  SlotIsServed(x)'
  <2>1. Thread(x)[1] = x /\ e.worker # Thread(x)
    BY <1>1, <1>6 DEF Thread
  <2>2. /\ ready'[x] = ready[x] /\ runTimer'[x] = runTimer[x]
        /\ bootTimer'[x] = bootTimer[x]
    BY <1>2, <1>6 DEF WInv, IInv, TypeOK
  <2>3. Untouched(x)
    BY <1>2, <2>1, <2>2 DEF Untouched
  <2> QED
    BY <1>5, <2>3, UntouchedIsServed
<1>7. SlotIsServed(s)'
  <2>1. /\ ready'[s] /\ (runTimer'[s] <=> held[s] # NoTask)
        /\ Thread(s) \in booted /\ held' = held
    <3>1. Thread(s) \in booted
      BY <1>1 DEF WInv, Told
    <3>2. ready'[s] /\ (runTimer'[s] <=> held[s] # NoTask)
      BY <1>1, <1>2 DEF WInv, IInv, TypeOK
    <3> QED
      BY <1>2, <3>1, <3>2
  <2> HIDE DEF s
  <2> QED
    BY <1>1, <1>2, <1>5, <2>1 DEF SlotIsServed
<1> QED
  BY <1>3, <1>4, <1>6, <1>7 DEF WInv, Served

LEMMA HandleServes ==
  ASSUME WInv, NEW e \in mail, Handle(e)
  PROVE  WInv'
<1> DEFINE s == e.worker[1]
<1>1. IInv'
  BY HandleInv DEF WInv
<1>2. ~Stale(e) => s \in Slots /\ Running /\ e.worker = Thread(s)
  BY DEF Stale, WInv, IInv, TypeOK, Thread, Threads
<1>3. \A f \in {e} : f.worker[1] = s
  OBVIOUS
<1>4. ~Stale(e) => SlotIsServed(s)
  BY <1>2 DEF WInv, Served
<1>5. CASE DropStale(e)
  BY <1>1, <1>5, DroppedServes DEF DropStale
<1>6. CASE OnReady(e)
  BY <1>1, <1>6, ReadyServes
<1>7. CASE OnAnswer(e)
  BY <1>7, AnsweredServes
<1>8. CASE OnNonsense(e)
  <2>1. ~Stale(e) /\ Lost(s, "protocol", {e})
    BY <1>8 DEF OnNonsense
  <2>2. e.kind = "nonsense"
    BY <1>2, <1>4, <1>8 DEF OnNonsense, SlotIsServed, Answers
  <2>3. Thread(s) \in died
    BY <1>2, <2>1, <2>2 DEF WInv, Told
  <2>4. "protocol" \in Verdicts \ Answers
    BY DEF Verdicts, Answers
  <2> HIDE DEF s
  <2> QED
    BY <1>2, <1>3, <2>1, <2>3, <2>4, LostServes
<1>9. CASE OnError(e)
  <2>1. ~Stale(e) /\ e.kind = "error" /\ Lost(s, "workerError", {e})
    BY <1>9 DEF OnError
  <2>2. held[s] # NoTask => Thread(s) \in died
    BY <1>2, <1>4, <2>1 DEF SlotIsServed
  <2>3. "workerError" \in Verdicts \ Answers
    BY DEF Verdicts, Answers
  <2> HIDE DEF s
  <2> QED
    BY <1>2, <1>3, <2>1, <2>2, <2>3, LostServes
<1>10. CASE OnExit(e)
  <2>1. ~Stale(e) /\ e.kind = "exit"
    BY <1>10 DEF OnExit
  <2>2. held[s] # NoTask => Thread(s) \in died
    BY <1>2, <1>4, <2>1 DEF SlotIsServed
  <2>3. CASE held[s] = NoTask
    BY <1>1, <1>10, <2>1, <2>3, DroppedServes DEF OnExit
  <2>4. CASE held[s] # NoTask
    <3>1. Lost(s, "workerExit", {e})
      BY <1>10, <2>4 DEF OnExit
    <3>2. "workerExit" \in Verdicts \ Answers
      BY DEF Verdicts, Answers
    <3> HIDE DEF s
    <3> QED
      BY <1>2, <1>3, <2>1, <2>2, <3>1, <3>2, LostServes
  <2> QED
    BY <2>3, <2>4
<1> QED
  BY <1>5, <1>6, <1>7, <1>8, <1>9, <1>10 DEF Handle

LEMMA TimeoutServes ==
  ASSUME WInv, NEW s \in Slots, Lost(s, "timeout", {})
  PROVE  WInv'
<1> DEFINE none == {}
<1>1. Lost(s, "timeout", none) /\ \A e \in none : e.worker[1] = s
  OBVIOUS
<1>2. /\ "timeout" \in Verdicts \ Answers
      /\ "timeout" \notin {"workerError", "workerExit", "protocol"}
  BY DEF Verdicts, Answers
<1> HIDE DEF none
<1> QED
  BY <1>1, <1>2, LostServes

LEMMA BootServes ==
  ASSUME WInv, IInv', NEW w \in alive, Boot(w)
  PROVE  WInv'
<1> DEFINE hello == Event(w, "ready", NoTask)
<1>1. /\ UNCHANGED Standing /\ UNCHANGED <<ready, runTimer, inbox, died, executed>>
      /\ booted' = booted \union {w} /\ mail' = mail \union {hello} /\ w \notin booted
  BY DEF Boot, Standing, pool, slotVars, history
<1>2. hello.worker = w /\ hello.kind = "ready"
  BY DEF Event
<1>3. ranOn' \in [Tasks -> Homes] /\ NoThreadIsForgotten' /\ VerdictIsDeserved'
  BY <1>1, StandingFrame
<1>4. PICK y \in Slots : w = Thread(y)
  BY DEF WInv, NoThreadIsForgotten, Attached
<1>5. w[2] <= gen[w[1]]
  BY <1>4 DEF Thread, WInv, IInv, TypeOK
<1>6. Known'
  <2>1. gen' = gen
    BY <1>1 DEF Standing
  <2> HIDE DEF hello
  <2> QED
    BY <1>1, <1>2, <1>5, <2>1 DEF WInv, Known
<1>7. Told'
  <2> HIDE DEF hello
  <2> QED
    BY <1>1, <1>2 DEF WInv, Told, Answers, Request
<1>8. ASSUME Running, NEW x \in Slots
      PROVE  SlotIsServed(x)'
  <2>1. SlotIsServed(x)
    BY <1>8 DEF WInv, Served
  <2>2. Thread(x)' = Thread(x) /\ held' = held /\ ranOn' = ranOn /\ bootTimer' = bootTimer
    BY <1>1 DEF Standing, Thread
  <2>3. \A e \in mail' : e.kind \in Answers \union {"error", "exit"} => e \in mail
    <3> HIDE DEF hello
    <3> QED
      BY <1>1, <1>2 DEF Answers
  <2>4. Thread(x) \in booted' =>
          ready[x] \/ \E e \in mail' : e.worker = Thread(x) /\ e.kind = "ready"
    <3> HIDE DEF hello
    <3> QED
      BY <1>1, <1>2, <2>1 DEF SlotIsServed
  <2> HIDE DEF hello
  <2>5. \A e \in mail' : e.worker = Thread(x) =>
          /\ e.kind \in Answers =>
               /\ e.task = held[x]
               /\ \A f \in mail' : f.worker = Thread(x) /\ f.kind \in Answers => f = e
          /\ e.kind \in {"error", "exit"} /\ held[x] # NoTask => e.worker \in died
    BY <2>1, <2>3 DEF SlotIsServed
  <2>6. \A m \in inbox : m.worker = Thread(x) =>
          /\ m.task = held[x]
          /\ \A e \in mail' : e.worker = Thread(x) => e.kind \notin Answers
    BY <2>1, <2>3 DEF SlotIsServed
  <2> QED
    BY <1>1, <2>1, <2>2, <2>4, <2>5, <2>6 DEF SlotIsServed
<1>9. Served'
  BY <1>1, <1>8 DEF Standing, Served, Running
<1> QED
  BY <1>3, <1>6, <1>7, <1>9 DEF WInv

LEMMA ExecuteServes ==
  ASSUME WInv, IInv', NEW m \in inbox, Execute(m)
  PROVE  WInv'
<1>0. PICK kind \in Answers : mail' = mail \union {Event(m.worker, kind, m.task)}
  BY DEF Execute, Answers
<1> DEFINE answer == Event(m.worker, kind, m.task)
<1>1. /\ UNCHANGED Standing /\ UNCHANGED <<ready, runTimer, booted, died>>
      /\ inbox' = inbox \ {m} /\ executed' = executed \union {m}
      /\ m.worker \in booted /\ m.worker \in alive
  BY DEF Execute, Standing, pool, slotVars
<1>2. answer.worker = m.worker /\ answer.kind = kind /\ answer.task = m.task
  BY DEF Event
<1>3. ranOn' \in [Tasks -> Homes] /\ NoThreadIsForgotten' /\ VerdictIsDeserved'
  BY <1>1, StandingFrame
<1>4. m = Request(m.worker, m.task)
  BY DEF WInv, IInv, TypeOK, Request
<1>5. Known'
  <2>1. gen' = gen
    BY <1>1 DEF Standing
  <2> HIDE DEF answer
  <2> QED
    BY <1>0, <1>1, <1>2, <2>1 DEF WInv, Known, answer
<1>6. Told'
  <2>1. Request(answer.worker, answer.task) \in executed'
    BY <1>1, <1>2, <1>4
  <2>2. \A e \in mail : Request(e.worker, e.task) \in executed
                          => Request(e.worker, e.task) \in executed'
    BY <1>1
  <2>3. answer.kind # "nonsense" /\ mail' = mail \union {answer}
    BY <1>0, <1>2 DEF Answers
  <2> HIDE DEF answer
  <2>4. \A e \in mail' :
          /\ e.kind \in Answers \union {"ready"} => e.worker \in booted'
          /\ e.kind \in Answers => Request(e.worker, e.task) \in executed'
          /\ e.kind = "nonsense" => e.worker \in died'
    BY <1>1, <1>2, <2>1, <2>2, <2>3 DEF WInv, Told
  <2> QED
    BY <2>4 DEF Told, Request
<1>7. ASSUME Running, NEW x \in Slots
      PROVE  SlotIsServed(x)'
  <2>1. SlotIsServed(x)
    BY <1>7 DEF WInv, Served
  <2>2. /\ Thread(x)' = Thread(x) /\ held' = held /\ ranOn' = ranOn
        /\ bootTimer' = bootTimer /\ mail' = mail \union {answer}
    BY <1>0, <1>1 DEF Standing, Thread
  <2> HIDE DEF answer
  <2>3. m.worker = Thread(x) =>
          /\ m.task = held[x]
          /\ \A e \in mail : e.worker = Thread(x) => e.kind \notin Answers
          /\ \A n \in inbox : n.worker = Thread(x) => n = m
    <3>1. \A n \in inbox : n = Request(n.worker, n.task)
      BY DEF WInv, IInv, TypeOK, Request
    <3> QED
      BY <1>4, <2>1, <3>1 DEF SlotIsServed
  <2>4. \A n \in inbox' : n.worker = Thread(x) =>
          /\ n.task = held[x]
          /\ \A e \in mail' : e.worker = Thread(x) => e.kind \notin Answers
    <3> SUFFICES ASSUME NEW n \in inbox', n.worker = Thread(x)
                 PROVE  /\ n.task = held[x]
                        /\ \A e \in mail' : e.worker = Thread(x) => e.kind \notin Answers
      OBVIOUS
    <3>1. m.worker # Thread(x)
      BY <1>1, <2>3
    <3> QED
      BY <1>1, <1>2, <2>1, <2>2, <3>1 DEF SlotIsServed
  <2>5. \A e \in mail' : e.worker = Thread(x) =>
          /\ e.kind \in Answers =>
               /\ e.task = held[x]
               /\ \A f \in mail' : f.worker = Thread(x) /\ f.kind \in Answers => f = e
          /\ e.kind \in {"error", "exit"} /\ held[x] # NoTask => e.worker \in died
    <3>1. CASE m.worker = Thread(x)
      BY <1>2, <2>1, <2>2, <2>3, <3>1 DEF SlotIsServed, Answers
    <3>2. CASE m.worker # Thread(x)
      BY <1>2, <2>1, <2>2, <3>2 DEF SlotIsServed
    <3> QED
      BY <3>1, <3>2
  <2>6. Thread(x) \in booted =>
          ready[x] \/ \E e \in mail' : e.worker = Thread(x) /\ e.kind = "ready"
    BY <2>1, <2>2 DEF SlotIsServed
  <2> QED
    BY <1>1, <2>1, <2>2, <2>4, <2>5, <2>6 DEF SlotIsServed
<1>8. Served'
  BY <1>1, <1>7 DEF Standing, Served, Running
<1> QED
  BY <1>3, <1>5, <1>6, <1>8 DEF WInv

LEMMA BreakServes ==
  ASSUME WInv, IInv', NEW w \in alive, Break(w)
  PROVE  WInv'
<1>1. /\ UNCHANGED <<cursor, results, outcome, gen, held, attached, ready, ranOn>>
      /\ UNCHANGED <<runTimer, bootTimer, booted, executed>>
      /\ died' = died \union {w} /\ alive' \subseteq alive
      /\ \A m \in inbox' : m \in inbox
  BY DEF Break, pool, slotVars
<1>2. /\ \A e \in mail : e \in mail'
      /\ \A e \in mail' : \/ e \in mail
                          \/ e.worker = w /\ e.kind \in {"error", "exit", "nonsense"}
  BY DEF Break, Event
<1>3. PICK y \in Slots : w = Thread(y)
  BY DEF WInv, NoThreadIsForgotten, Attached
<1>4. w[2] <= gen[w[1]]
  BY <1>3 DEF Thread, WInv, IInv, TypeOK
<1>5. ranOn' \in [Tasks -> Homes]
  BY <1>1 DEF WInv, Homes
<1>6. NoThreadIsForgotten'
  BY <1>1 DEF WInv, NoThreadIsForgotten, Attached, Thread, Running
<1>7. VerdictIsDeserved'
  BY <1>1 DEF WInv, VerdictIsDeserved, Request
<1>8. Known'
  BY <1>1, <1>2, <1>4 DEF WInv, Known
<1>9. Told'
  <2>1. \A e \in mail' :
          /\ e.kind \in Answers \union {"ready"} => e.worker \in booted'
          /\ e.kind \in Answers => Request(e.worker, e.task) \in executed'
          /\ e.kind = "nonsense" => e.worker \in died'
    BY <1>1, <1>2 DEF WInv, Told, Answers
  <2> QED
    BY <2>1 DEF Told, Request
<1>10. ASSUME Running, NEW x \in Slots
       PROVE  SlotIsServed(x)'
  <2>1. SlotIsServed(x)
    BY <1>10 DEF WInv, Served
  <2>2. Thread(x)' = Thread(x)
    BY <1>1 DEF Thread
  <2>3. \A e \in mail' : e.kind \in Answers => e \in mail
    BY <1>2 DEF Answers
  <2>4. \A m \in inbox' : m.worker = Thread(x) =>
          /\ m.task = held[x]
          /\ \A e \in mail' : e.worker = Thread(x) => e.kind \notin Answers
    BY <1>1, <2>1, <2>3 DEF SlotIsServed
  <2>5. \A e \in mail' : e.worker = Thread(x) =>
          /\ e.kind \in Answers =>
               /\ e.task = held[x]
               /\ \A f \in mail' : f.worker = Thread(x) /\ f.kind \in Answers => f = e
          /\ e.kind \in {"error", "exit"} /\ held[x] # NoTask => e.worker \in died'
    BY <1>1, <1>2, <2>1, <2>3 DEF SlotIsServed
  <2>6. Thread(x) \in booted =>
          ready[x] \/ \E e \in mail' : e.worker = Thread(x) /\ e.kind = "ready"
    BY <1>2, <2>1 DEF SlotIsServed
  <2> QED
    BY <1>1, <2>1, <2>2, <2>4, <2>5, <2>6 DEF SlotIsServed
<1>11. Served'
  BY <1>1, <1>10 DEF Served, Running
<1> QED
  BY <1>5, <1>6, <1>7, <1>8, <1>9, <1>11 DEF WInv

LEMMA NextServes == WInv /\ [Next]_vars => WInv'
<1> SUFFICES ASSUME WInv, [Next]_vars PROVE WInv'
  OBVIOUS
<1>1. IInv'
  BY NextInv DEF WInv
<1>2. CASE \E e \in mail : Handle(e)
  BY <1>2, HandleServes
<1>3. CASE \E s \in Slots : RunTimeout(s) \/ BootTimeout(s)
  BY <1>3, TimeoutServes DEF RunTimeout, BootTimeout
<1>4. CASE \E w \in alive : Boot(w) \/ Break(w)
  BY <1>1, <1>4, BootServes, BreakServes
<1>5. CASE \E m \in inbox : Execute(m)
  BY <1>1, <1>5, ExecuteServes
<1>6. CASE UNCHANGED vars
  <2>1. /\ UNCHANGED Standing /\ UNCHANGED <<ready, runTimer, booted, inbox, mail, died, executed>>
    BY <1>6 DEF vars, pool, slotVars, threads, history, Standing
  <2>2. ranOn' \in [Tasks -> Homes] /\ NoThreadIsForgotten' /\ VerdictIsDeserved'
    BY <2>1, StandingFrame
  <2>3. Known' /\ Told'
    BY <2>1 DEF Standing, WInv, Known, Told, Request
  <2>4. ASSUME Running, NEW x \in Slots
        PROVE  SlotIsServed(x)'
    <3>1. SlotIsServed(x)
      BY <2>4 DEF WInv, Served
    <3>2. Untouched(x)
      BY <2>1 DEF Standing, Untouched
    <3> QED
      BY <3>1, <3>2, UntouchedIsServed
  <2>5. Served'
    BY <2>1, <2>4 DEF Standing, Served, Running
  <2> QED
    BY <1>1, <2>2, <2>3, <2>5 DEF WInv
<1> QED
  BY <1>2, <1>3, <1>4, <1>5, <1>6 DEF Next

LEMMA AlwaysWInv == Spec => []WInv
BY InitThreads, NextServes, PTL DEF Spec

\* pool.ts 42-48: whatever a task's verdict says, it says of the thread that
\* had the task, for any number of replacements and late events.
THEOREM VerdictsAreDeserved == Spec => []VerdictIsDeserved
<1>1. WInv => VerdictIsDeserved
  BY DEF WInv
<1> QED
  BY <1>1, AlwaysWInv, PTL

\* pool.ts 50-68: no task is waited for without a deadline, and no run is
\* charged for its worker's boot.
THEOREM HeldTasksAreTimed == Spec => []HeldTaskIsTimed
<1>1. WInv => HeldTaskIsTimed
  BY DEF WInv, Served, SlotIsServed, HeldTaskIsTimed
<1> QED
  BY <1>1, AlwaysWInv, PTL

\* No thread outlives the slot or the sweep it worked for.
THEOREM NoThreadIsLeftRunning == Spec => []NoThreadIsForgotten
<1>1. WInv => NoThreadIsForgotten
  BY DEF WInv
<1> QED
  BY <1>1, AlwaysWInv, PTL
=============================================================================
