-------------------------- MODULE VerificationQueue --------------------------
(***************************************************************************)
(* The durable queue of verification tasks (table verification_tasks of    *)
(* local.db, SqliteLocalStateRepository) and the loop that drains it       *)
(* (run_verification_cycle).  One step of the module is one run of code    *)
(* between two awaits of the loop, since the repositories are synchronous; *)
(* a step that makes several database writes has one disjunct for each     *)
(* place where a RepositoryError can stop it.  A crash between two writes  *)
(* leaves what the error at the second write followed by Crash leaves.     *)
(*                                                                         *)
(* A task is identified by its place in `tasks`: ids grow and rows are     *)
(* never deleted.  The clock only matters through leases, so a claimed row *)
(* says whether its lease_until has passed.                                *)
(***************************************************************************)
EXTENDS Naturals, Sequences, FiniteSetsExt

CONSTANTS
  Hash,         \* the ed2k hashes of the files sent to verification
  MaxAttempts,  \* max_attempts of the repository (3 in the code)
  MaxTasks,     \* bound: rows the environment may ask for
  MaxFaults     \* bound: repository errors and crashes of a behaviour

ASSUME QueueAssumption ==
  /\ MaxAttempts \in Nat \ {0}
  /\ MaxTasks \in Nat
  /\ MaxFaults \in Nat

VARIABLES
  tasks,     \* the table verification_tasks
  verdicts,  \* number of rows of file_verifications (catalog.db) of each hash
  vpc,       \* where run_verification_cycle is
  cur,       \* the task the loop holds in memory, or NoTask
  edge,      \* EdgeState: is the verifier_unavailable alert raised
  faults     \* how many errors and crashes there have been

taskVars == <<tasks, verdicts>>
loopVars == <<vpc, cur, edge>>
queueVars == <<tasks, verdicts, vpc, cur, edge, faults>>

Active == {"pending", "in_progress"}
Settled == {"done", "dead_letter"}
Task == [hash : Hash, status : Active \cup Settled, attempts : Nat, expired : BOOLEAN]
Row(h, status, attempts, expired) ==
  [hash |-> h, status |-> status, attempts |-> attempts, expired |-> expired]
NoTask == 0

Pending == {i \in DOMAIN tasks : tasks[i].status = "pending"}
InProgress == {i \in DOMAIN tasks : tasks[i].status = "in_progress"}

QueueTypeOK ==
  /\ tasks \in Seq(Task)
  /\ verdicts \in [Hash -> Nat]
  /\ vpc \in {"reclaim", "claim", "verify", "sleep"}
  /\ cur \in Nat
  /\ edge \in BOOLEAN
  /\ faults \in 0 .. MaxFaults

QueueInit ==
  /\ tasks = <<>>
  /\ verdicts = [h \in Hash |-> 0]
  /\ vpc = "reclaim"
  /\ cur = NoTask
  /\ edge = FALSE
  /\ faults = 0

Fault == faults < MaxFaults /\ faults' = faults + 1

-----------------------------------------------------------------------------
(* The repository.  Each operator is one committed statement.              *)

\* Mutation: the conflict clause is missing.
EnqueueAlways(h) ==
  tasks' = Append(tasks, Row(h, "pending", 0, FALSE))

\* enqueue_verification: the partial unique index absorbs an active duplicate.
Enqueue(h) ==
  tasks' = IF \E i \in DOMAIN tasks : tasks[i].hash = h /\ tasks[i].status \in Active
           THEN tasks
           ELSE Append(tasks, Row(h, "pending", 0, FALSE))

\* Mutation: nothing is ever reclaimed.
ReclaimedNothing == tasks

\* reclaim_expired: it does not look at attempts.
Reclaimed ==
  [i \in DOMAIN tasks |->
     IF tasks[i].status = "in_progress" /\ tasks[i].expired
     THEN Row(tasks[i].hash, "pending", tasks[i].attempts, FALSE)
     ELSE tasks[i]]

\* claim_verification: FIFO; the attempt is counted now and the lease restarts.
Oldest(i) == i \in Pending /\ \A j \in Pending : i <= j

Claimed(i) ==
  [tasks EXCEPT ![i] = Row(tasks[i].hash, "in_progress", tasks[i].attempts + 1, FALSE)]

Completed(i) ==
  [tasks EXCEPT ![i] = Row(tasks[i].hash, "done", tasks[i].attempts, tasks[i].expired)]

\* Mutation: > instead of >=.
FailedLate(i) ==
  [tasks EXCEPT ![i] =
     Row(tasks[i].hash,
         IF tasks[i].attempts > MaxAttempts THEN "dead_letter" ELSE "pending",
         tasks[i].attempts, FALSE)]

Failed(i) ==
  [tasks EXCEPT ![i] =
     Row(tasks[i].hash,
         IF tasks[i].attempts >= MaxAttempts THEN "dead_letter" ELSE "pending",
         tasks[i].attempts, FALSE)]

\* What complete_verification and fail_verification demand of their task;
\* otherwise they raise "bug du code appelant".  The guards that use it cut
\* nothing off: InFlightIsClaimed shows it true whenever the loop verifies.
Held(i) == i \in InProgress

-----------------------------------------------------------------------------
(* The environment: the download loop asks for a task, a lease runs out.   *)

Request(h) ==
  /\ Len(tasks) < MaxTasks
  /\ Enqueue(h)
  /\ UNCHANGED <<verdicts, loopVars, faults>>

\* Mutation: a reaper gives the task back the moment its lease has passed.
LeaseReaped(i) ==
  /\ i \in InProgress
  /\ tasks' = [tasks EXCEPT ![i] = Row(@.hash, "pending", @.attempts, FALSE)]
  /\ UNCHANGED <<verdicts, loopVars, faults>>

LeaseExpires(i) ==
  /\ i \in InProgress /\ ~tasks[i].expired
  /\ tasks' = [tasks EXCEPT ![i] = Row(@.hash, @.status, @.attempts, TRUE)]
  /\ UNCHANGED <<verdicts, loopVars, faults>>

-----------------------------------------------------------------------------
(* The loop.                                                               *)

Reclaim ==
  /\ vpc = "reclaim"
  /\ tasks' = Reclaimed
  /\ vpc' = "claim"
  /\ UNCHANGED <<verdicts, cur, edge, faults>>

ClaimNothing ==
  /\ vpc = "claim" /\ Pending = {}
  /\ vpc' = "sleep"
  /\ UNCHANGED <<taskVars, cur, edge, faults>>

ClaimTask ==
  /\ vpc = "claim"
  /\ \E i \in Pending :
       /\ Oldest(i)
       /\ tasks' = Claimed(i)
       /\ cur' = i
  /\ vpc' = "verify"
  /\ UNCHANGED <<verdicts, edge, faults>>

\* The read of target_id fails after the claim: the task stays claimed and
\* only the end of its lease frees it.
ClaimThenLose ==
  /\ vpc = "claim"
  /\ \E i \in Pending : Oldest(i) /\ tasks' = Claimed(i)
  /\ vpc' = "sleep"
  /\ Fault
  /\ UNCHANGED <<verdicts, cur, edge>>

\* reclaim, the count of pending tasks or the claim itself fails.
QueueUnreadable ==
  /\ vpc \in {"reclaim", "claim"}
  /\ vpc' = "sleep"
  /\ Fault
  /\ UNCHANGED <<taskVars, cur, edge>>

\* The verifier answered; the verdict, then the end of the task, are written.
Verified ==
  /\ vpc = "verify" /\ Held(cur)
  /\ verdicts' = [verdicts EXCEPT ![tasks[cur].hash] = @ + 1]
  /\ tasks' = Completed(cur)
  /\ edge' = FALSE
  /\ cur' = NoTask
  /\ vpc' = "reclaim"
  /\ UNCHANGED faults

\* Mutation: the task is ended before its verdict is written.
VerdictAfterEnd ==
  /\ vpc = "verify" /\ Held(cur)
  /\ tasks' = Completed(cur)
  /\ cur' = NoTask
  /\ vpc' = "sleep"
  /\ Fault
  /\ UNCHANGED <<verdicts, edge>>

\* The verifier answered, but writing the verdict, or the end of the task after
\* the verdict (recorded), fails; fail_verification may then fail too.
VerdictUnsaved ==
  /\ vpc = "verify" /\ Held(cur)
  /\ \E recorded \in BOOLEAN :
       verdicts' = IF recorded
                   THEN [verdicts EXCEPT ![tasks[cur].hash] = @ + 1]
                   ELSE verdicts
  /\ tasks' \in {tasks, Failed(cur)}
  /\ cur' = NoTask
  /\ vpc' = "sleep"
  /\ Fault
  /\ UNCHANGED edge

\* The verifier did not answer: the task is failed, then the alert raised.
VerifierUnavailable ==
  /\ vpc = "verify" /\ Held(cur)
  /\ tasks' = Failed(cur)
  /\ edge' = TRUE
  /\ cur' = NoTask
  /\ vpc' = "sleep"
  /\ UNCHANGED <<verdicts, faults>>

\* As above, but fail_verification fails: no alert, the task stays claimed.
VerifierUnavailableUnsaved ==
  /\ vpc = "verify" /\ Held(cur)
  /\ cur' = NoTask
  /\ vpc' = "sleep"
  /\ Fault
  /\ UNCHANGED <<taskVars, edge>>

WakeUp ==
  /\ vpc = "sleep"
  /\ vpc' = "reclaim"
  /\ UNCHANGED <<taskVars, cur, edge, faults>>

\* The process stops anywhere, or is stopped, and starts again.
QueueCrash ==
  /\ vpc' = "reclaim"
  /\ cur' = NoTask
  /\ edge' = FALSE
  /\ Fault
  /\ UNCHANGED taskVars

-----------------------------------------------------------------------------
QueueStep ==
  \/ Reclaim \/ ClaimNothing \/ ClaimTask \/ ClaimThenLose \/ QueueUnreadable
  \/ Verified \/ VerdictUnsaved \/ VerifierUnavailable
  \/ VerifierUnavailableUnsaved \/ WakeUp

QueueNext ==
  \/ \E h \in Hash : Request(h)
  \/ \E i \in DOMAIN tasks : LeaseExpires(i)
  \/ QueueStep
  \/ QueueCrash

\* The loop is never stopped for good, and a lease runs out.
QueueFairness ==
  /\ WF_queueVars(QueueStep)
  /\ \A i \in 1 .. MaxTasks : WF_queueVars(i \in DOMAIN tasks /\ LeaseExpires(i))

QueueSpec == QueueInit /\ [][QueueNext]_queueVars
QueueFairSpec == QueueSpec /\ QueueFairness
-----------------------------------------------------------------------------
(* Properties                                                              *)

\* At most one task of a file is waiting or being verified, whatever crashes,
\* retries and repeated requests happen (the partial unique index and every
\* statement that brings a row back to pending).
OneActiveTaskPerHash ==
  \A i, j \in DOMAIN tasks :
    /\ tasks[i].hash = tasks[j].hash
    /\ tasks[i].status \in Active
    /\ tasks[j].status \in Active
    => i = j

\* While the loop waits for the verifier, its task is still its own: no lease
\* that runs out meanwhile and no reclaim takes it away, so that neither
\* complete_verification nor fail_verification can raise "bug du code appelant".
InFlightIsClaimed ==
  /\ vpc = "verify" => Held(cur)
  /\ vpc # "verify" => cur = NoTask

\* A task is done only if a verdict of its file is in the catalogue, although the
\* two live in two databases that no transaction spans.
DoneWasRecorded ==
  \A i \in DOMAIN tasks : tasks[i].status = "done" => verdicts[tasks[i].hash] > 0

\* A task is given up only after max_attempts claims, and is claimed more often
\* only if errors or crashes took it out of the hands of fail_verification:
\* one more claim for each of them.
RetryBudget ==
  \A i \in DOMAIN tasks :
    /\ tasks[i].status = "dead_letter" => tasks[i].attempts >= MaxAttempts
    /\ tasks[i].attempts <= MaxAttempts + faults

\* Why RetryBudget holds: a task that is waiting, or claimed by a loop that has
\* lost it, has been paid for; only the task in the loop's hands may be one
\* claim ahead.
ClaimsPaid ==
  \A i \in DOMAIN tasks :
    tasks[i].status \in Active /\ i # cur => tasks[i].attempts < MaxAttempts + faults

\* The inductive invariant: the safety properties and what they rest on.
QueueInv ==
  /\ QueueTypeOK
  /\ OneActiveTaskPerHash
  /\ InFlightIsClaimed
  /\ DoneWasRecorded
  /\ RetryBudget
  /\ ClaimsPaid

\* No step forgets a task, gives it to another file or reopens a settled one.
SettledIsFinal ==
  [][\A i \in DOMAIN tasks :
       /\ i \in DOMAIN tasks'
       /\ tasks'[i].hash = tasks[i].hash
       /\ tasks[i].status \in Settled => tasks'[i].status = tasks[i].status]_queueVars

\* Every task asked for is verified or given up in the end: no claimed task is
\* forgotten and none starves behind another that keeps failing.
EveryTaskSettles ==
  \A i \in 1 .. MaxTasks :
    i \in DOMAIN tasks ~> i \in DOMAIN tasks /\ tasks[i].status \in Settled
=============================================================================
