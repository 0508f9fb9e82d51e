------------------------------ MODULE SearchCycle ------------------------------
(***************************************************************************)
(* Search cycles (_run_loop, run_search_cycle): one worker per amuled      *)
(* drains a shared LIFO queue of tasks, refusing those it is in backoff    *)
(* for; at the end of the cycle the index of the next one and the backoffs *)
(* are saved, and read back when the process starts.                       *)
(*                                                                         *)
(* One step of a worker is its code between two awaits.  Time only matters *)
(* through backoffs: a key is blocked from a failure until its retry_after *)
(* has passed.  The number of attempts only lengthens that time.           *)
(***************************************************************************)
EXTENDS Naturals, SequencesExt, FiniteSetsExt

CONSTANTS
  Worker,     \* the amuled instances, each with its worker
  Keyword,    \* the keywords of the configuration
  NoTask,     \* no task
  MaxCycles,  \* bound: the number of cycles
  MaxFaults   \* bound: failures and crashes of a behaviour

ASSUME SearchAssumption ==
  /\ IsFiniteSet(Worker) /\ Worker # {}
  /\ IsFiniteSet(Keyword)
  /\ MaxCycles \in Nat
  /\ MaxFaults \in Nat

Channel == {"global", "kad"}
Task == Keyword \X Channel
ASSUME NoTaskAssumption == NoTask \notin Task

\* A queued task remembers who has refused it.
Item == [task : Task, skipped : SUBSET Worker]
\* Backoff is kept by instance ("all") and by channel of an instance.
Key == Worker \X (Channel \cup {"all"})

VARIABLES
  pc,        \* where run_search_cycle is
  index,     \* cycle_index, as _run_loop counts it
  queue,     \* the LIFO queue, its top at the end
  wpc,       \* where each worker is
  task,      \* the task each worker runs
  fate,      \* what became of the tasks of this cycle
  connected, \* what each worker believes about its client
  up,        \* whether its client holds a transport
  blocked,   \* the keys whose retry_after lies ahead
  saved,     \* scheduler_state: the index, and the blocked keys of the snapshot
  drained,   \* history: the cycles whose queue was drained
  failing,   \* history: the instances that were ever put in backoff
  faults     \* how many failures and crashes there have been

workerVars == <<queue, wpc, task, fate, connected, up, blocked, failing>>
cycleVars == <<pc, index, saved, drained>>
searchVars == <<workerVars, cycleVars, faults>>

Fates == {"open", "searched", "abandoned", "dropped"}

SearchTypeOK ==
  /\ pc \in {"coverage", "drain", "write", "save", "sleep"}
  /\ index \in Nat
  /\ queue \in Seq(Item)
  /\ wpc \in [Worker -> {"get", "connect", "search", "pause"}]
  /\ task \in [Worker -> Task \cup {NoTask}]
  /\ fate \in [Task -> Fates]
  /\ connected \in [Worker -> BOOLEAN]
  /\ up \in [Worker -> BOOLEAN]
  /\ blocked \subseteq Key
  /\ saved \in [index : Nat, blocked : SUBSET Key]
  /\ drained \subseteq Nat
  /\ failing \subseteq Worker
  /\ faults \in 0 .. MaxFaults

NoFate == [t \in Task |-> "open"]

SearchInit ==
  /\ pc = "coverage"
  /\ index = 0
  /\ queue = <<>>
  /\ wpc = [w \in Worker |-> "get"]
  /\ task = [w \in Worker |-> NoTask]
  /\ fate = NoFate
  /\ connected = [w \in Worker |-> FALSE]
  /\ up \in [Worker -> BOOLEAN]
  /\ blocked = {}
  /\ saved = [index |-> 0, blocked |-> {}]
  /\ drained = {}
  /\ failing = {}
  /\ faults = 0

Fault == faults < MaxFaults /\ faults' = faults + 1

-----------------------------------------------------------------------------
(* The workers.                                                            *)

Top == Last(queue)
IsBlockedFor(w, t) == <<w, "all">> \in blocked \/ <<w, t[2]>> \in blocked

\* record_failure
Block(w, what) ==
  /\ blocked' = blocked \cup {<<w, what>>}
  /\ failing' = failing \cup {w}

Taking(w) ==
  /\ pc = "drain" /\ wpc[w] = "get" /\ queue # <<>>
  /\ UNCHANGED <<connected, up, blocked, failing, cycleVars, faults>>

\* Mutation: a refused task is forgotten.
RefuseSilently(w) ==
  /\ Taking(w) /\ IsBlockedFor(w, Top.task)
  /\ queue' = Front(queue)
  /\ UNCHANGED <<wpc, task, fate>>

\* Mutation: who refuses is not remembered.
RefuseForgetfully(w) ==
  /\ Taking(w) /\ IsBlockedFor(w, Top.task)
  /\ Cardinality(Top.skipped \cup {w}) < Cardinality(Worker)
  /\ UNCHANGED <<queue, wpc, task, fate>>

\* The task goes back on top for a peer, and the worker yields.
Refuse(w) ==
  /\ Taking(w) /\ IsBlockedFor(w, Top.task)
  /\ Cardinality(Top.skipped \cup {w}) < Cardinality(Worker)
  /\ queue' = Append(Front(queue), [Top EXCEPT !.skipped = @ \cup {w}])
  /\ UNCHANGED <<wpc, task, fate>>

\* Mutation: a second refusal by the same worker counts as another worker's.
DropEarly(w) ==
  /\ Taking(w) /\ IsBlockedFor(w, Top.task)
  /\ Cardinality(Top.skipped) + 1 >= Cardinality(Worker)
  /\ queue' = Front(queue)
  /\ fate' = [fate EXCEPT ![Top.task] = "dropped"]
  /\ UNCHANGED <<wpc, task>>

\* report_dropped: every worker has refused the task in this cycle.
Drop(w) ==
  /\ Taking(w) /\ IsBlockedFor(w, Top.task)
  /\ Cardinality(Top.skipped \cup {w}) >= Cardinality(Worker)
  /\ queue' = Front(queue)
  /\ fate' = [fate EXCEPT ![Top.task] = "dropped"]
  /\ UNCHANGED <<wpc, task>>

Start(w) ==
  /\ Taking(w) /\ ~IsBlockedFor(w, Top.task)
  /\ queue' = Front(queue)
  /\ task' = [task EXCEPT ![w] = Top.task]
  /\ wpc' = [wpc EXCEPT ![w] = IF connected[w] THEN "search" ELSE "connect"]
  /\ UNCHANGED fate

\* run_task returns, and the worker pauses if there is more to do.
Finish(w, f) ==
  /\ fate' = [fate EXCEPT ![task[w]] = f]
  /\ task' = [task EXCEPT ![w] = NoTask]
  /\ wpc' = [wpc EXCEPT ![w] = IF queue = <<>> THEN "get" ELSE "pause"]
  /\ UNCHANGED <<queue, cycleVars>>

\* connect() does nothing if the client still holds a transport.
Connect(w) ==
  /\ wpc[w] = "connect"
  /\ up' = [up EXCEPT ![w] = TRUE]
  /\ connected' = [connected EXCEPT ![w] = TRUE]
  /\ blocked' = blocked \ {<<w, "all">>}
  /\ wpc' = [wpc EXCEPT ![w] = "search"]
  /\ UNCHANGED <<queue, task, fate, failing, cycleVars, faults>>

ConnectFails(w) ==
  /\ wpc[w] = "connect" /\ ~up[w]
  /\ Block(w, "all")
  /\ Finish(w, "abandoned")
  /\ Fault
  /\ UNCHANGED <<connected, up>>

Searched(w) ==
  /\ wpc[w] = "search" /\ up[w]
  /\ blocked' = blocked \ {<<w, task[w][2]>>}
  /\ Finish(w, "searched")
  /\ UNCHANGED <<connected, up, failing, faults>>

\* MuleSearchFailedError: amuled refuses the search.
SearchFails(w) ==
  /\ wpc[w] = "search" /\ up[w]
  /\ Block(w, task[w][2])
  /\ Finish(w, "abandoned")
  /\ Fault
  /\ UNCHANGED <<connected, up>>

\* Mutation: the worker goes on believing that it is connected.
UnreachableUnnoticed(w) ==
  /\ wpc[w] = "search"
  /\ IF up[w] THEN Fault ELSE UNCHANGED faults
  /\ up' \in {up, [up EXCEPT ![w] = FALSE]}
  /\ Block(w, "all")
  /\ Finish(w, "abandoned")
  /\ UNCHANGED connected

\* MuleUnreachableError: certain without a transport.  An odd answer leaves it.
Unreachable(w) ==
  /\ wpc[w] = "search"
  /\ IF up[w] THEN Fault ELSE UNCHANGED faults
  /\ up' \in {up, [up EXCEPT ![w] = FALSE]}
  /\ connected' = [connected EXCEPT ![w] = FALSE]
  /\ Block(w, "all")
  /\ Finish(w, "abandoned")

PauseEnds(w) ==
  /\ wpc[w] = "pause"
  /\ wpc' = [wpc EXCEPT ![w] = "get"]
  /\ UNCHANGED <<queue, task, fate, connected, up, blocked, failing, cycleVars, faults>>

\* A retry_after passes.
BackoffEnds(key) ==
  /\ key \in blocked
  /\ blocked' = blocked \ {key}
  /\ UNCHANGED <<queue, wpc, task, fate, connected, up, failing, cycleVars, faults>>

-----------------------------------------------------------------------------
(* The cycle.                                                              *)

\* The status of an instance cannot be read; that may cost it its transport,
\* of which its worker is not told.
StatusFails(w) ==
  /\ pc = "coverage" /\ up[w]
  /\ up' = [up EXCEPT ![w] = FALSE]
  /\ Fault
  /\ UNCHANGED <<queue, wpc, task, fate, connected, blocked, failing, cycleVars>>

\* Keywords in a random order, each on both channels.
Unrefused(k, c) == [task |-> <<k, c>>, skipped |-> {}]
CycleQueue(order) ==
  [i \in 1 .. 2 * Len(order) |->
     Unrefused(order[(i + 1) \div 2], IF i % 2 = 1 THEN "global" ELSE "kad")]

\* Mutation: the index is saved when the cycle begins.
FillQueueSaving ==
  /\ pc = "coverage" /\ index < MaxCycles
  /\ \E order \in SetToSeqs(Keyword) : queue' = CycleQueue(order)
  /\ fate' = NoFate
  /\ pc' = "drain"
  /\ saved' = [saved EXCEPT !.index = index + 1]
  /\ UNCHANGED <<wpc, task, connected, up, blocked, failing, index, drained, faults>>

FillQueue ==
  /\ pc = "coverage" /\ index < MaxCycles
  /\ \E order \in SetToSeqs(Keyword) : queue' = CycleQueue(order)
  /\ fate' = NoFate
  /\ pc' = "drain"
  /\ UNCHANGED <<wpc, task, connected, up, blocked, failing, index, saved, drained, faults>>

\* The join returns when every task is done, and each worker takes its None.
Drained ==
  /\ pc = "drain" /\ queue = <<>> /\ \A w \in Worker : wpc[w] = "get"
  /\ pc' = "write"
  /\ drained' = drained \cup {index}
  /\ UNCHANGED <<workerVars, index, saved, faults>>

\* _run_loop counts the cycle, whatever run_search_cycle met.
EndCycle == pc' = "sleep" /\ index' = index + 1

WriteCycleState ==
  /\ pc = "write"
  /\ saved' = [saved EXCEPT !.index = index + 1]
  /\ pc' = "save"
  /\ UNCHANGED <<workerVars, index, drained, faults>>

SaveBackoff ==
  /\ pc = "save"
  /\ saved' = [saved EXCEPT !.blocked = blocked]
  /\ EndCycle
  /\ UNCHANGED <<workerVars, drained, faults>>

\* A RepositoryError at either write.
SaveFails ==
  /\ pc \in {"write", "save"}
  /\ EndCycle
  /\ Fault
  /\ UNCHANGED <<workerVars, saved, drained>>

WakeUp ==
  /\ pc = "sleep"
  /\ pc' = "coverage"
  /\ UNCHANGED <<workerVars, index, saved, drained, faults>>

\* The process ends, of itself (an exception that nothing catches, such as a
\* refused password) or not, and starts again; retry_afters may have passed.
Crash ==
  /\ Fault
  /\ pc' = "coverage"
  /\ index' = saved.index
  /\ blocked' \in SUBSET saved.blocked
  /\ queue' = <<>>
  /\ fate' = NoFate
  /\ wpc' = [w \in Worker |-> "get"]
  /\ task' = [w \in Worker |-> NoTask]
  /\ connected' = [w \in Worker |-> FALSE]
  /\ up' \in [Worker -> BOOLEAN]
  /\ UNCHANGED <<saved, drained, failing>>

-----------------------------------------------------------------------------
WorkerStep(w) ==
  \/ Refuse(w) \/ Drop(w) \/ Start(w) \/ Connect(w) \/ ConnectFails(w)
  \/ Searched(w) \/ SearchFails(w) \/ Unreachable(w) \/ PauseEnds(w)

CycleStep ==
  \/ FillQueue \/ Drained \/ WriteCycleState \/ SaveBackoff \/ SaveFails \/ WakeUp

SearchNext ==
  \/ \E w \in Worker : WorkerStep(w) \/ StatusFails(w)
  \/ \E key \in Key : BackoffEnds(key)
  \/ CycleStep
  \/ Crash

\* The event loop runs every worker that is ready, and every request ends, if
\* only by a timeout.  No backoff is assumed to end in time.
SearchSpec == SearchInit /\ [][SearchNext]_searchVars
SearchFairSpec ==
  /\ SearchSpec
  /\ \A w \in Worker : WF_searchVars(WorkerStep(w))
  /\ WF_searchVars(CycleStep)

-----------------------------------------------------------------------------
(* Properties                                                              *)

Queued(t) == {i \in DOMAIN queue : queue[i].task = t}
Running(t) == {w \in Worker : task[w] = t}

\* In a cycle every task is in exactly one place: in the queue, with one worker,
\* or settled.  Taking a task and putting it back neither loses nor copies it.
TasksConserved ==
  pc = "drain" =>
    \A t \in Task :
      Cardinality(Queued(t)) + Cardinality(Running(t)) = IF fate[t] = "open" THEN 1 ELSE 0

\* A task is dropped only if no instance was sound: one that never failed would
\* have taken it, however often its peers put it back.
DropsNeedAllFailed ==
  \A t \in Task : fate[t] = "dropped" => failing = Worker

\* Searches given up are paid for, each by a failure of its own: a worker whose
\* transport is gone loses one task, and not the next ones with it.
LossPaid == Cardinality({t \in Task : fate[t] = "abandoned"}) <= faults

\* The process never resumes after a cycle that was not drained to the end.
NoCycleSkipped ==
  /\ 0 .. saved.index - 1 \subseteq drained
  /\ pc \in {"coverage", "drain"} => 0 .. index - 1 \subseteq drained

\* A cycle ends, even if every instance is in backoff and stays there.
CycleEnds == pc = "drain" ~> pc \in {"coverage", "sleep"}
=============================================================================
