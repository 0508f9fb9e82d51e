----------------------- MODULE VerificationQueue_proofs -----------------------
(***************************************************************************)
(* Proofs about the verification queue, for every set of files, every      *)
(* max_attempts and every number of rows and of faults.                    *)
(***************************************************************************)
EXTENDS VerificationQueue, SequenceTheorems, TLAPS

(***************************************************************************)
(* The table as a function from ids to rows, and what one statement does   *)
(* to it.                                                                  *)
(***************************************************************************)
LEMMA Rows ==
  ASSUME QueueTypeOK
  PROVE  /\ Len(tasks) \in Nat
         /\ DOMAIN tasks = 1 .. Len(tasks)
         /\ tasks \in [1 .. Len(tasks) -> Task]
         /\ \A i \in DOMAIN tasks :
              /\ tasks[i] \in Task
              /\ tasks[i].hash \in Hash
              /\ tasks[i].status \in Active \cup Settled
              /\ tasks[i].attempts \in Nat
              /\ tasks[i].expired \in BOOLEAN
<1>1. /\ Len(tasks) \in Nat
      /\ DOMAIN tasks = 1 .. Len(tasks)
      /\ tasks \in [1 .. Len(tasks) -> Task]
  BY LenProperties DEF QueueTypeOK
<1>2. \A i \in DOMAIN tasks : tasks[i] \in Task
  BY <1>1
<1>3. QED
  BY <1>1, <1>2 DEF Task

LEMMA RowReplaced ==
  ASSUME QueueTypeOK, NEW i \in DOMAIN tasks, NEW row \in Task
  PROVE  /\ [tasks EXCEPT ![i] = row] \in Seq(Task)
         /\ DOMAIN [tasks EXCEPT ![i] = row] = DOMAIN tasks
         /\ [tasks EXCEPT ![i] = row][i] = row
         /\ \A j \in DOMAIN tasks \ {i} : [tasks EXCEPT ![i] = row][j] = tasks[j]
<1>1. i \in 1 .. Len(tasks) /\ tasks \in Seq(Task)
  BY Rows DEF QueueTypeOK
<1>2. [tasks EXCEPT ![i] = row] \in Seq(Task)
  BY <1>1, ExceptSeq
<1>3. QED
  BY <1>2

LEMMA ClaimedRow ==
  ASSUME QueueTypeOK, NEW i \in DOMAIN tasks
  PROVE  /\ Claimed(i) \in Seq(Task)
         /\ DOMAIN Claimed(i) = DOMAIN tasks
         /\ \A j \in DOMAIN tasks \ {i} : Claimed(i)[j] = tasks[j]
         /\ Claimed(i)[i].hash = tasks[i].hash
         /\ Claimed(i)[i].status = "in_progress"
         /\ Claimed(i)[i].attempts = tasks[i].attempts + 1
<1>. DEFINE row == Row(tasks[i].hash, "in_progress", tasks[i].attempts + 1, FALSE)
<1>1. /\ row \in Task
      /\ row.hash = tasks[i].hash
      /\ row.status = "in_progress"
      /\ row.attempts = tasks[i].attempts + 1
  BY Rows DEF Task, Row, Active
<1>2. Claimed(i) = [tasks EXCEPT ![i] = row]
  BY DEF Claimed
<1>. HIDE DEF row
<1>3. QED
  BY <1>1, <1>2, RowReplaced

LEMMA CompletedRow ==
  ASSUME QueueTypeOK, NEW i \in DOMAIN tasks
  PROVE  /\ Completed(i) \in Seq(Task)
         /\ DOMAIN Completed(i) = DOMAIN tasks
         /\ \A j \in DOMAIN tasks \ {i} : Completed(i)[j] = tasks[j]
         /\ Completed(i)[i].hash = tasks[i].hash
         /\ Completed(i)[i].status = "done"
         /\ Completed(i)[i].attempts = tasks[i].attempts
<1>. DEFINE row == Row(tasks[i].hash, "done", tasks[i].attempts, tasks[i].expired)
<1>1. /\ row \in Task
      /\ row.hash = tasks[i].hash
      /\ row.status = "done"
      /\ row.attempts = tasks[i].attempts
  BY Rows DEF Task, Row, Settled
<1>2. Completed(i) = [tasks EXCEPT ![i] = row]
  BY DEF Completed
<1>. HIDE DEF row
<1>3. QED
  BY <1>1, <1>2, RowReplaced

LEMMA FailedRow ==
  ASSUME QueueTypeOK, NEW i \in DOMAIN tasks
  PROVE  /\ Failed(i) \in Seq(Task)
         /\ DOMAIN Failed(i) = DOMAIN tasks
         /\ \A j \in DOMAIN tasks \ {i} : Failed(i)[j] = tasks[j]
         /\ Failed(i)[i].hash = tasks[i].hash
         /\ Failed(i)[i].attempts = tasks[i].attempts
         /\ \/ Failed(i)[i].status = "dead_letter" /\ tasks[i].attempts >= MaxAttempts
            \/ Failed(i)[i].status = "pending" /\ tasks[i].attempts < MaxAttempts
<1>. DEFINE row == Row(tasks[i].hash,
                       IF tasks[i].attempts >= MaxAttempts THEN "dead_letter" ELSE "pending",
                       tasks[i].attempts, FALSE)
<1>1. /\ row \in Task
      /\ row.hash = tasks[i].hash
      /\ row.attempts = tasks[i].attempts
      /\ \/ row.status = "dead_letter" /\ tasks[i].attempts >= MaxAttempts
         \/ row.status = "pending" /\ tasks[i].attempts < MaxAttempts
  BY Rows, QueueAssumption DEF Task, Row, Settled, Active
<1>2. Failed(i) = [tasks EXCEPT ![i] = row]
  BY DEF Failed
<1>. HIDE DEF row
<1>3. QED
  BY <1>1, <1>2, RowReplaced

LEMMA ReclaimedRow ==
  ASSUME QueueTypeOK
  PROVE  /\ Reclaimed \in Seq(Task)
         /\ DOMAIN Reclaimed = DOMAIN tasks
         /\ \A j \in DOMAIN tasks :
              /\ Reclaimed[j].hash = tasks[j].hash
              /\ Reclaimed[j].attempts = tasks[j].attempts
              /\ \/ Reclaimed[j].status = tasks[j].status
                 \/ tasks[j].status = "in_progress" /\ Reclaimed[j].status = "pending"
<1>1. ASSUME NEW j \in DOMAIN tasks
      PROVE  /\ Reclaimed[j] \in Task
             /\ Reclaimed[j].hash = tasks[j].hash
             /\ Reclaimed[j].attempts = tasks[j].attempts
             /\ \/ Reclaimed[j].status = tasks[j].status
                \/ tasks[j].status = "in_progress" /\ Reclaimed[j].status = "pending"
  BY Rows DEF Reclaimed, Task, Row, Active
<1>2. Reclaimed = [j \in DOMAIN tasks |-> Reclaimed[j]] /\ DOMAIN Reclaimed = DOMAIN tasks
  BY DEF Reclaimed
<1>3. Reclaimed \in [1 .. Len(tasks) -> Task]
  BY <1>1, <1>2, Rows
<1>4. Reclaimed \in Seq(Task)
  BY <1>3, Rows, SeqDef
<1>5. QED
  BY <1>1, <1>2, <1>4

LEMMA AppendedRow ==
  ASSUME QueueTypeOK, NEW row \in Task
  PROVE  /\ Append(tasks, row) \in Seq(Task)
         /\ DOMAIN Append(tasks, row) = DOMAIN tasks \cup {Len(tasks) + 1}
         /\ Len(tasks) + 1 \notin DOMAIN tasks
         /\ \A i \in DOMAIN tasks : Append(tasks, row)[i] = tasks[i]
         /\ Append(tasks, row)[Len(tasks) + 1] = row
<1>1. /\ Append(tasks, row) \in Seq(Task)
      /\ Len(Append(tasks, row)) = Len(tasks) + 1
      /\ \A i \in 1 .. Len(tasks) : Append(tasks, row)[i] = tasks[i]
      /\ Append(tasks, row)[Len(tasks) + 1] = row
  BY AppendProperties DEF QueueTypeOK
<1>2. DOMAIN Append(tasks, row) = 1 .. Len(tasks) + 1
  BY <1>1, LenProperties
<1>3. QED
  BY <1>1, <1>2, Rows

-----------------------------------------------------------------------------
(***************************************************************************)
(* Every step of the loop changes the table in the same way: it keeps the  *)
(* rows and their files and makes no row active that was not.  Only        *)
(* Enqueue adds a row, and only for a file that has no active one.         *)
(***************************************************************************)
RowsKept ==
  /\ tasks' \in Seq(Task)
  /\ DOMAIN tasks' = DOMAIN tasks
  /\ \A i \in DOMAIN tasks :
       /\ tasks'[i].hash = tasks[i].hash
       /\ tasks'[i].status \in Active => tasks[i].status \in Active

\* Keeping the rows keeps the uniqueness of the active task of a file.
LEMMA OneActiveKept ==
  ASSUME OneActiveTaskPerHash, RowsKept
  PROVE  OneActiveTaskPerHash'
  BY DEF OneActiveTaskPerHash, RowsKept

\* Requesting a file adds at most one pending row, of a file without an active one.
LEMMA EnqueueInv ==
  ASSUME QueueInv, NEW h \in Hash, Enqueue(h), UNCHANGED <<verdicts, loopVars, faults>>
  PROVE  QueueInv'
<1>. DEFINE row == Row(h, "pending", 0, FALSE)
<1>1. CASE \E i \in DOMAIN tasks : tasks[i].hash = h /\ tasks[i].status \in Active
  <2>1. tasks' = tasks
    BY <1>1 DEF Enqueue
  <2>2. QED
    BY <2>1 DEF QueueInv, QueueTypeOK, OneActiveTaskPerHash, InFlightIsClaimed, DoneWasRecorded,
                RetryBudget, ClaimsPaid, Held, InProgress, loopVars
<1>2. CASE ~\E i \in DOMAIN tasks : tasks[i].hash = h /\ tasks[i].status \in Active
  <2>1. row \in Task /\ tasks' = Append(tasks, row)
    BY <1>2 DEF Enqueue, Task, Row, Active
  <2>2. /\ tasks' \in Seq(Task)
        /\ DOMAIN tasks' = DOMAIN tasks \cup {Len(tasks) + 1}
        /\ Len(tasks) + 1 \notin DOMAIN tasks
        /\ \A i \in DOMAIN tasks : tasks'[i] = tasks[i]
        /\ tasks'[Len(tasks) + 1] = row
    BY <2>1, AppendedRow DEF QueueInv
  <2>3. QueueTypeOK'
    BY <2>2 DEF QueueInv, QueueTypeOK, loopVars
  <2>. row.hash = h /\ row.status = "pending" /\ row.attempts = 0
    BY DEF Row
  <2>. HIDE DEF row
  <2>4. OneActiveTaskPerHash'
    BY <1>2, <2>2 DEF QueueInv, OneActiveTaskPerHash
  <2>5. InFlightIsClaimed'
    BY <2>2 DEF QueueInv, InFlightIsClaimed, Held, InProgress, loopVars
  <2>6. DoneWasRecorded'
    BY <2>2 DEF QueueInv, DoneWasRecorded
  <2>7. RetryBudget' /\ ClaimsPaid'
    BY <2>2, QueueAssumption DEF QueueInv, QueueTypeOK, RetryBudget, ClaimsPaid, loopVars
  <2>8. QED
    BY <2>3, <2>4, <2>5, <2>6, <2>7 DEF QueueInv
<1>3. QED
  BY <1>1, <1>2

\* A task that is claimed: it is one claim ahead, and nobody else is.
LEMMA ClaimInv ==
  ASSUME QueueInv, NEW i \in DOMAIN tasks, tasks[i].status = "pending", vpc = "claim",
         tasks' = Claimed(i), UNCHANGED <<verdicts, edge>>,
         \/ cur' = i /\ vpc' = "verify" /\ faults' = faults
         \/ cur' = cur /\ vpc' = "sleep" /\ Fault
  PROVE  QueueInv'
<1>1. /\ tasks' \in Seq(Task)
      /\ DOMAIN tasks' = DOMAIN tasks
      /\ \A j \in DOMAIN tasks \ {i} : tasks'[j] = tasks[j]
      /\ tasks'[i].hash = tasks[i].hash
      /\ tasks'[i].status = "in_progress"
      /\ tasks'[i].attempts = tasks[i].attempts + 1
  BY ClaimedRow DEF QueueInv
<1>2. QueueTypeOK'
  BY <1>1, Rows, QueueAssumption DEF QueueInv, QueueTypeOK, Fault
<1>3. OneActiveTaskPerHash'
  <2>1. RowsKept
    BY <1>1 DEF RowsKept, Active
  <2>2. QED
    BY <2>1, OneActiveKept DEF QueueInv
<1>4. InFlightIsClaimed'
  BY <1>1 DEF QueueInv, InFlightIsClaimed, Held, InProgress
<1>5. DoneWasRecorded'
  BY <1>1 DEF QueueInv, DoneWasRecorded
<1>6. cur = NoTask /\ NoTask \notin DOMAIN tasks
  BY Rows DEF QueueInv, InFlightIsClaimed, NoTask
<1>7. \A j \in DOMAIN tasks : tasks[j].attempts \in Nat /\ faults \in Nat /\ faults' \in Nat
  BY Rows, QueueAssumption DEF QueueInv, QueueTypeOK, Fault
<1>8. tasks[i].attempts < MaxAttempts + faults
  BY <1>6 DEF QueueInv, ClaimsPaid, Active
<1>9. RetryBudget'
  BY <1>1, <1>7, <1>8, QueueAssumption DEF QueueInv, RetryBudget, Fault
<1>10. ClaimsPaid'
  BY <1>1, <1>6, <1>7, <1>8, QueueAssumption DEF QueueInv, ClaimsPaid, Active, Fault
<1>11. QED
  BY <1>2, <1>3, <1>4, <1>5, <1>9, <1>10 DEF QueueInv

\* A lease that runs out changes no status and no number of claims.
LEMMA LeaseExpiresInv ==
  ASSUME QueueInv, NEW i \in DOMAIN tasks, LeaseExpires(i)
  PROVE  QueueInv'
<1>. DEFINE row == Row(tasks[i].hash, tasks[i].status, tasks[i].attempts, TRUE)
<1>1. row \in Task /\ tasks' = [tasks EXCEPT ![i] = row]
  BY Rows DEF QueueInv, LeaseExpires, Task, Row
<1>2. /\ tasks' \in Seq(Task)
      /\ DOMAIN tasks' = DOMAIN tasks
      /\ \A j \in DOMAIN tasks :
              /\ tasks'[j].hash = tasks[j].hash
              /\ tasks'[j].status = tasks[j].status
              /\ tasks'[j].attempts = tasks[j].attempts
  <2>1. row.hash = tasks[i].hash /\ row.status = tasks[i].status /\ row.attempts = tasks[i].attempts
    BY DEF Row
  <2>. HIDE DEF row
  <2>2. QED
    BY <1>1, <2>1, RowReplaced DEF QueueInv
<1>3. UNCHANGED <<verdicts, vpc, cur, edge, faults>>
  BY DEF LeaseExpires, loopVars
<1>4. QED
  BY <1>2, <1>3 DEF QueueInv, QueueTypeOK, OneActiveTaskPerHash, InFlightIsClaimed,
     DoneWasRecorded, RetryBudget, ClaimsPaid, Held, InProgress

\* Reclaiming makes orphaned tasks pending; the loop holds none of them, since
\* it reclaims only between two tasks.
LEMMA ReclaimInv ==
  ASSUME QueueInv, Reclaim
  PROVE  QueueInv'
<1>1. /\ tasks' \in Seq(Task)
      /\ DOMAIN tasks' = DOMAIN tasks
      /\ \A j \in DOMAIN tasks :
           /\ tasks'[j].hash = tasks[j].hash
           /\ tasks'[j].attempts = tasks[j].attempts
           /\ \/ tasks'[j].status = tasks[j].status
              \/ tasks[j].status = "in_progress" /\ tasks'[j].status = "pending"
  BY ReclaimedRow DEF QueueInv, Reclaim
<1>2. /\ vpc = "reclaim" /\ vpc' = "claim" /\ cur = NoTask
      /\ UNCHANGED <<verdicts, cur, edge, faults>>
  BY DEF QueueInv, Reclaim, InFlightIsClaimed
<1>3. QueueTypeOK'
  BY <1>1, <1>2 DEF QueueInv, QueueTypeOK
<1>4. OneActiveTaskPerHash'
  BY <1>1, OneActiveKept DEF RowsKept, QueueInv, Active
<1>5. InFlightIsClaimed' /\ DoneWasRecorded'
  BY <1>1, <1>2 DEF QueueInv, InFlightIsClaimed, DoneWasRecorded
<1>6. RetryBudget' /\ ClaimsPaid'
  BY <1>1, <1>2, Rows DEF QueueInv, RetryBudget, ClaimsPaid, Active
<1>7. QED
  BY <1>3, <1>4, <1>5, <1>6 DEF QueueInv

\* The steps that end a verification have this in common: the row in hand is
\* settled, given back or, at the price of a fault, left claimed, and the loop
\* holds no task afterwards.
TaskEnded ==
  /\ cur \in DOMAIN tasks
  /\ tasks' \in Seq(Task)
  /\ DOMAIN tasks' = DOMAIN tasks
  /\ \A j \in DOMAIN tasks :
       /\ tasks'[j].hash = tasks[j].hash
       /\ tasks'[j].attempts = tasks[j].attempts
       /\ j # cur => tasks'[j].status = tasks[j].status
  /\ tasks[cur].status = "in_progress"
  /\ \/ tasks'[cur].status = "in_progress" /\ faults' = faults + 1
     \/ tasks'[cur].status = "dead_letter" /\ tasks[cur].attempts >= MaxAttempts
     \/ tasks'[cur].status = "pending" /\ tasks[cur].attempts < MaxAttempts
     \/ tasks'[cur].status = "done" /\ verdicts'[tasks[cur].hash] > 0

LEMMA EndsTask ==
  ASSUME QueueInv, vpc = "verify", cur \in DOMAIN tasks, tasks[cur].status = "in_progress",
         \/ tasks' = tasks /\ Fault
         \/ tasks' = Failed(cur)
         \/ tasks' = Completed(cur) /\ verdicts'[tasks[cur].hash] > 0
  PROVE  TaskEnded
<1>1. CASE tasks' = tasks /\ Fault
  BY <1>1 DEF QueueInv, QueueTypeOK, Fault, TaskEnded
<1>2. CASE tasks' = Failed(cur)
  BY <1>2, FailedRow DEF QueueInv, TaskEnded
<1>3. CASE tasks' = Completed(cur) /\ verdicts'[tasks[cur].hash] > 0
  BY <1>3, CompletedRow DEF QueueInv, TaskEnded
<1>4. QED
  BY <1>1, <1>2, <1>3

LEMMA EndInv ==
  ASSUME QueueInv, TaskEnded, faults' = faults \/ Fault,
         verdicts' \in [Hash -> Nat],
         \A h \in Hash : verdicts'[h] >= verdicts[h],
         cur' = NoTask, vpc' \in {"reclaim", "sleep"}, edge' \in BOOLEAN
  PROVE  QueueInv'
<1>1. /\ faults \in Nat /\ faults' \in 0 .. MaxFaults /\ faults' \in Nat
      /\ faults' = faults \/ faults' = faults + 1
  BY QueueAssumption DEF QueueInv, QueueTypeOK, Fault
<1>2. \A j \in DOMAIN tasks : tasks[j].attempts \in Nat /\ tasks[j].hash \in Hash
  BY Rows DEF QueueInv
<1>3. QueueTypeOK'
  BY <1>1 DEF QueueTypeOK, NoTask, TaskEnded
<1>4. OneActiveTaskPerHash'
  <2>1. RowsKept
    BY DEF RowsKept, TaskEnded, Active
  <2>2. QED
    BY <2>1, OneActiveKept DEF QueueInv
<1>5. InFlightIsClaimed'
  BY DEF InFlightIsClaimed
<1>6. DoneWasRecorded'
  <2>1. \A h \in Hash : verdicts[h] > 0 => verdicts'[h] > 0
    BY DEF QueueInv, QueueTypeOK
  <2>2. SUFFICES ASSUME NEW j \in DOMAIN tasks', tasks'[j].status = "done"
                 PROVE  verdicts'[tasks'[j].hash] > 0
    BY DEF DoneWasRecorded
  <2>3. j \in DOMAIN tasks /\ tasks'[j].hash = tasks[j].hash
    BY DEF TaskEnded
  <2>4. CASE j = cur
    BY <2>2, <2>3, <2>4 DEF TaskEnded
  <2>5. CASE j # cur
    <3>1. tasks[j].status = "done"
      BY <2>2, <2>3, <2>5 DEF TaskEnded
    <3>2. QED
      BY <1>2, <2>1, <2>3, <3>1 DEF QueueInv, DoneWasRecorded
  <2>6. QED
    BY <2>4, <2>5
<1>7. RetryBudget' /\ ClaimsPaid'
  <2>1. SUFFICES ASSUME NEW j \in DOMAIN tasks'
                 PROVE  /\ tasks'[j].status = "dead_letter" => tasks'[j].attempts >= MaxAttempts
                        /\ tasks'[j].attempts <= MaxAttempts + faults'
                        /\ tasks'[j].status \in Active => tasks'[j].attempts < MaxAttempts + faults'
    BY DEF RetryBudget, ClaimsPaid
  <2>2. j \in DOMAIN tasks /\ tasks'[j].attempts = tasks[j].attempts /\ tasks[j].attempts \in Nat
    BY <1>2 DEF TaskEnded
  <2>3. tasks[j].attempts <= MaxAttempts + faults
    BY <2>2 DEF QueueInv, RetryBudget
  <2>4. CASE j = cur
    BY <1>1, <2>2, <2>3, <2>4, QueueAssumption DEF TaskEnded, Active
  <2>5. CASE j # cur
    <3>1. tasks'[j].status = tasks[j].status
      BY <2>2, <2>5 DEF TaskEnded
    <3>2. /\ tasks[j].status = "dead_letter" => tasks[j].attempts >= MaxAttempts
          /\ tasks[j].status \in Active => tasks[j].attempts < MaxAttempts + faults
      BY <2>2, <2>5 DEF QueueInv, RetryBudget, ClaimsPaid
    <3>3. /\ tasks[j].attempts <= MaxAttempts + faults'
          /\ tasks[j].attempts < MaxAttempts + faults
               => tasks[j].attempts < MaxAttempts + faults'
      BY <1>1, <2>2, <2>3, QueueAssumption
    <3>4. QED
      BY <2>2, <3>1, <3>2, <3>3
  <2>6. QED
    BY <2>4, <2>5
<1>8. QED
  BY <1>3, <1>4, <1>5, <1>6, <1>7 DEF QueueInv

\* The steps that leave the table and the catalogue alone and hold no task after.
LEMMA IdleInv ==
  ASSUME QueueInv, UNCHANGED taskVars, cur' = NoTask,
         vpc' \in {"reclaim", "claim", "sleep"}, edge' \in BOOLEAN,
         (cur = NoTask /\ faults' = faults) \/ Fault
  PROVE  QueueInv'
<1>1. /\ faults \in Nat /\ faults' \in 0 .. MaxFaults
      /\ faults' = faults \/ faults' = faults + 1
  BY QueueAssumption DEF QueueInv, QueueTypeOK, Fault
<1>2. QueueTypeOK'
  BY <1>1 DEF QueueInv, QueueTypeOK, taskVars, NoTask
<1>3. OneActiveTaskPerHash' /\ InFlightIsClaimed' /\ DoneWasRecorded'
  BY DEF QueueInv, OneActiveTaskPerHash, InFlightIsClaimed, DoneWasRecorded, taskVars
<1>4. \A j \in DOMAIN tasks : tasks[j].attempts \in Nat
  BY Rows DEF QueueInv
<1>5. RetryBudget' /\ ClaimsPaid'
  BY <1>1, <1>4, QueueAssumption DEF QueueInv, RetryBudget, ClaimsPaid, taskVars, Fault
<1>6. QED
  BY <1>2, <1>3, <1>5 DEF QueueInv

-----------------------------------------------------------------------------
\* The invariant is inductive: one step per action of the queue.
LEMMA QueueInvStep == QueueInv /\ [QueueNext]_queueVars => QueueInv'
<1>. SUFFICES ASSUME QueueInv, [QueueNext]_queueVars PROVE QueueInv'
  OBVIOUS
<1>1. ASSUME NEW h \in Hash, Request(h) PROVE QueueInv'
  BY <1>1, EnqueueInv DEF Request
<1>2. ASSUME NEW i \in DOMAIN tasks, LeaseExpires(i) PROVE QueueInv'
  BY <1>2, LeaseExpiresInv
<1>3. CASE Reclaim
  BY <1>3, ReclaimInv
<1>4. CASE ClaimNothing
  BY <1>4, IdleInv DEF ClaimNothing, QueueInv, QueueTypeOK, InFlightIsClaimed
<1>5. CASE ClaimTask
  BY <1>5, ClaimInv DEF ClaimTask, Oldest, Pending
<1>6. CASE ClaimThenLose
  BY <1>6, ClaimInv DEF ClaimThenLose, Oldest, Pending
<1>7. CASE QueueUnreadable
  BY <1>7, IdleInv DEF QueueUnreadable, QueueInv, QueueTypeOK, InFlightIsClaimed
<1>8. ASSUME vpc = "verify", Held(cur)
      PROVE  /\ cur \in DOMAIN tasks /\ tasks[cur].status = "in_progress"
             /\ tasks[cur].hash \in Hash
             /\ verdicts \in [Hash -> Nat] /\ edge \in BOOLEAN
             /\ \A h \in Hash :
                  /\ verdicts[h] >= verdicts[h]
                  /\ [verdicts EXCEPT ![tasks[cur].hash] = @ + 1][h] >= verdicts[h]
             /\ [verdicts EXCEPT ![tasks[cur].hash] = @ + 1] \in [Hash -> Nat]
             /\ [verdicts EXCEPT ![tasks[cur].hash] = @ + 1][tasks[cur].hash] > 0
  BY <1>8, Rows DEF QueueInv, QueueTypeOK, Held, InProgress
<1>9. CASE Verified
  <2>1. TaskEnded
    BY <1>9, <1>8, EndsTask DEF Verified
  <2>2. QED
    BY <1>9, <1>8, <2>1, EndInv DEF Verified
<1>10. CASE VerdictUnsaved
  <2>1. TaskEnded
    BY <1>10, <1>8, EndsTask DEF VerdictUnsaved
  <2>2. QED
    BY <1>10, <1>8, <2>1, EndInv DEF VerdictUnsaved
<1>11. CASE VerifierUnavailable
  <2>1. TaskEnded
    BY <1>11, <1>8, EndsTask DEF VerifierUnavailable
  <2>2. QED
    BY <1>11, <1>8, <2>1, EndInv DEF VerifierUnavailable
<1>12. CASE VerifierUnavailableUnsaved
  <2>1. TaskEnded
    BY <1>12, <1>8, EndsTask DEF VerifierUnavailableUnsaved, taskVars
  <2>2. QED
    BY <1>12, <1>8, <2>1, EndInv DEF VerifierUnavailableUnsaved, taskVars
<1>13. CASE WakeUp
  BY <1>13, IdleInv DEF WakeUp, QueueInv, QueueTypeOK, InFlightIsClaimed
<1>14. CASE QueueCrash
  BY <1>14, IdleInv DEF QueueCrash
<1>15. CASE UNCHANGED queueVars
  BY <1>15 DEF queueVars, QueueInv, QueueTypeOK, OneActiveTaskPerHash, InFlightIsClaimed,
     DoneWasRecorded, RetryBudget, ClaimsPaid, Held, InProgress
<1>16. QED
  BY <1>1, <1>2, <1>3, <1>4, <1>5, <1>6, <1>7, <1>9, <1>10, <1>11, <1>12, <1>13, <1>14, <1>15
  DEF QueueNext, QueueStep

LEMMA QueueInvInit == QueueInit => QueueInv
<1>. SUFFICES ASSUME QueueInit PROVE QueueInv
  OBVIOUS
<1>1. tasks = <<>> /\ <<>> \in Seq(Task) /\ DOMAIN tasks = {}
  BY EmptySeq DEF QueueInit
<1>2. QueueTypeOK
  <2>1. 0 \in Nat /\ 0 \in 0 .. MaxFaults /\ [h \in Hash |-> 0] \in [Hash -> Nat]
    BY QueueAssumption
  <2>2. QED
    BY <1>1, <2>1 DEF QueueInit, QueueTypeOK, NoTask
<1>3. QED
  BY <1>1, <1>2 DEF QueueInit, QueueInv, OneActiveTaskPerHash, InFlightIsClaimed,
     DoneWasRecorded, RetryBudget, ClaimsPaid

THEOREM QueueInvariant == QueueSpec => []QueueInv
  BY QueueInvInit, QueueInvStep, PTL DEF QueueSpec

\* The table only holds rows its schema allows.
THEOREM QueueTypes == QueueSpec => []QueueTypeOK
<1>1. QueueInv => QueueTypeOK
  BY DEF QueueInv
<1>2. QED
  BY <1>1, QueueInvariant, PTL

\* Two tasks of a file are never both pending or in progress.
THEOREM OneActive == QueueSpec => []OneActiveTaskPerHash
<1>1. QueueInv => OneActiveTaskPerHash
  BY DEF QueueInv
<1>2. QED
  BY <1>1, QueueInvariant, PTL

\* The loop still owns the task whose verdict it waits for.
THEOREM InFlight == QueueSpec => []InFlightIsClaimed
<1>1. QueueInv => InFlightIsClaimed
  BY DEF QueueInv
<1>2. QED
  BY <1>1, QueueInvariant, PTL

\* A task marked done has a verdict in the catalogue.
THEOREM DoneRecorded == QueueSpec => []DoneWasRecorded
<1>1. QueueInv => DoneWasRecorded
  BY DEF QueueInv
<1>2. QED
  BY <1>1, QueueInvariant, PTL

\* Claims are bounded by max_attempts and the faults so far, and a task is not
\* given up before max_attempts claims.
THEOREM Retries == QueueSpec => []RetryBudget
<1>1. QueueInv => RetryBudget
  BY DEF QueueInv
<1>2. QED
  BY <1>1, QueueInvariant, PTL

-----------------------------------------------------------------------------
\* What a step does to the rows there are: it keeps them, and a settled one
\* keeps its status.
SettledKept ==
  \A i \in DOMAIN tasks :
    /\ i \in DOMAIN tasks'
    /\ tasks'[i].hash = tasks[i].hash
    /\ tasks[i].status \in Settled => tasks'[i].status = tasks[i].status

LEMMA SettledStep == QueueInv /\ [QueueNext]_queueVars => [SettledKept]_queueVars
<1>. SUFFICES ASSUME QueueInv, [QueueNext]_queueVars PROVE SettledKept \/ UNCHANGED queueVars
  OBVIOUS
<1>. QueueTypeOK
  BY DEF QueueInv
<1>1. ASSUME tasks' = tasks PROVE SettledKept
  BY <1>1 DEF SettledKept
<1>2. ASSUME NEW h \in Hash, Enqueue(h) PROVE SettledKept
  <2>. DEFINE row == Row(h, "pending", 0, FALSE)
  <2>1. row \in Task
    BY DEF Row, Task, Active
  <2>2. CASE tasks' = Append(tasks, row)
    <3>. HIDE DEF row
    <3>1. QED
      BY <2>1, <2>2, AppendedRow DEF SettledKept
  <2>3. QED
    BY <1>1, <1>2, <2>2 DEF Enqueue
<1>3. ASSUME NEW i \in DOMAIN tasks, LeaseExpires(i) PROVE SettledKept
  <2>. DEFINE row == Row(tasks[i].hash, tasks[i].status, tasks[i].attempts, TRUE)
  <2>1. row \in Task /\ tasks' = [tasks EXCEPT ![i] = row]
    BY <1>3, Rows DEF LeaseExpires, Task, Row
  <2>2. row.hash = tasks[i].hash /\ row.status = tasks[i].status
    BY DEF Row
  <2>. HIDE DEF row
  <2>3. QED
    BY <2>1, <2>2, RowReplaced DEF SettledKept
<1>4. ASSUME tasks' = Reclaimed PROVE SettledKept
  BY <1>4, ReclaimedRow DEF SettledKept, Settled
<1>5. ASSUME NEW i \in Pending, tasks' = Claimed(i) PROVE SettledKept
  BY <1>5, ClaimedRow DEF SettledKept, Pending, Settled
<1>6. ASSUME NEW i \in InProgress, tasks' = Failed(i) PROVE SettledKept
  BY <1>6, FailedRow DEF SettledKept, InProgress, Settled
<1>7. ASSUME NEW i \in InProgress, tasks' = Completed(i) PROVE SettledKept
  BY <1>7, CompletedRow DEF SettledKept, InProgress, Settled
<1>8. CASE QueueStep
  <2>1. CASE Reclaim
    BY <2>1, <1>4 DEF Reclaim
  <2>2. CASE ClaimTask \/ ClaimThenLose
    BY <2>2, <1>5 DEF ClaimTask, ClaimThenLose
  <2>3. CASE Verified
    BY <2>3, <1>7 DEF Verified, Held
  <2>4. CASE VerdictUnsaved \/ VerifierUnavailable
    BY <2>4, <1>1, <1>6 DEF VerdictUnsaved, VerifierUnavailable, Held
  <2>5. CASE ClaimNothing \/ QueueUnreadable \/ VerifierUnavailableUnsaved \/ WakeUp
    BY <2>5, <1>1 DEF ClaimNothing, QueueUnreadable, VerifierUnavailableUnsaved, WakeUp, taskVars
  <2>6. QED
    BY <1>8, <2>1, <2>2, <2>3, <2>4, <2>5 DEF QueueStep
<1>9. QED
  BY <1>1, <1>2, <1>3, <1>8 DEF QueueNext, Request, QueueCrash, taskVars

\* No step forgets a task, moves it to another file or reopens a settled one.
THEOREM SettledStays == QueueSpec => SettledIsFinal
<1>1. QueueInv /\ [QueueNext]_queueVars => [SettledKept]_queueVars
  BY SettledStep
<1>2. QueueSpec => [][SettledKept]_queueVars
  BY <1>1, QueueInvariant, PTL DEF QueueSpec
<1>3. QED
  BY <1>2 DEF SettledIsFinal, SettledKept
-----------------------------------------------------------------------------
(***************************************************************************)
(* What the steps of the loop, and the leases, do to the rows and verdicts *)
(* that are there: they open no task, and end at most one.                 *)
(***************************************************************************)
NothingEnds ==
  /\ DOMAIN tasks' = DOMAIN tasks
  /\ \A i \in DOMAIN tasks :
       /\ tasks'[i].hash = tasks[i].hash
       /\ tasks'[i].status \in Active <=> tasks[i].status \in Active
  /\ verdicts' = verdicts

OneLeaves ==
  /\ DOMAIN tasks' = DOMAIN tasks
  /\ \E c \in DOMAIN tasks :
       /\ tasks[c].status \in Active /\ tasks'[c].hash = tasks[c].hash
       /\ \A i \in DOMAIN tasks \ {c} : tasks'[i] = tasks[i]
       /\ \A h \in Hash \ {tasks[c].hash} : verdicts'[h] = verdicts[h]
       /\ verdicts'[tasks[c].hash] \in {verdicts[tasks[c].hash], verdicts[tasks[c].hash] + 1}

LEMMA RequestRows ==
  ASSUME QueueInv, NEW h \in Hash, Enqueue(h)
  PROVE  /\ DOMAIN tasks \subseteq DOMAIN tasks'
         /\ \A i \in DOMAIN tasks : tasks'[i] = tasks[i]
         /\ \A i \in DOMAIN tasks' \ DOMAIN tasks : tasks'[i].hash = h
         /\ \E i \in DOMAIN tasks' : tasks'[i].hash = h /\ tasks'[i].status \in Active
<1>. DEFINE row == Row(h, "pending", 0, FALSE)
<1>1. row \in Task /\ row.hash = h /\ row.status \in Active
  BY DEF Row, Task, Active
<1>2. CASE tasks' = Append(tasks, row)
  <2>. HIDE DEF row
  <2>1. QED
    BY <1>1, <1>2, AppendedRow DEF QueueInv
<1>3. CASE tasks' = tasks /\ \E i \in DOMAIN tasks : tasks[i].hash = h /\ tasks[i].status \in Active
  BY <1>3
<1>4. QED
  BY <1>2, <1>3 DEF Enqueue

LEMMA RowsOfStep ==
  ASSUME QueueInv, QueueStep \/ \E i \in DOMAIN tasks : LeaseExpires(i)
  PROVE  NothingEnds \/ OneLeaves
<1>. QueueTypeOK
  BY DEF QueueInv
<1>1. ASSUME tasks' = tasks, verdicts' = verdicts PROVE NothingEnds
  BY <1>1 DEF NothingEnds
<1>2. ASSUME NEW i \in DOMAIN tasks, LeaseExpires(i) PROVE NothingEnds
  <2>. DEFINE row == Row(tasks[i].hash, tasks[i].status, tasks[i].attempts, TRUE)
  <2>1. row \in Task /\ tasks' = [tasks EXCEPT ![i] = row] /\ verdicts' = verdicts
    BY <1>2, Rows DEF LeaseExpires, Task, Row
  <2>2. row.hash = tasks[i].hash /\ row.status = tasks[i].status
    BY DEF Row
  <2>. HIDE DEF row
  <2>3. QED
    BY <2>1, <2>2, RowReplaced DEF NothingEnds
<1>3. ASSUME Reclaim PROVE NothingEnds
  BY <1>3, ReclaimedRow DEF Reclaim, NothingEnds, Active
<1>4. ASSUME ClaimTask \/ ClaimThenLose PROVE NothingEnds
  <2>1. verdicts' = verdicts
    BY <1>4 DEF ClaimTask, ClaimThenLose
  <2>2. PICK i \in Pending : tasks' = Claimed(i)
    BY <1>4 DEF ClaimTask, ClaimThenLose
  <2>3. QED
    BY <2>1, <2>2, ClaimedRow DEF NothingEnds, Pending, Active
<1>5. ASSUME Verified \/ VerdictUnsaved \/ VerifierUnavailable PROVE OneLeaves
  <2>1. /\ cur \in DOMAIN tasks /\ tasks[cur].status = "in_progress"
        /\ tasks' \in {tasks, Failed(cur), Completed(cur)}
        /\ \/ verdicts' = [verdicts EXCEPT ![tasks[cur].hash] = @ + 1]
           \/ verdicts' = verdicts
    BY <1>5 DEF Verified, VerdictUnsaved, VerifierUnavailable, Held, InProgress
  <2>2. tasks[cur].hash \in Hash /\ verdicts \in [Hash -> Nat]
    BY <2>1, Rows DEF QueueTypeOK
  <2>3. /\ \A h \in Hash \ {tasks[cur].hash} : verdicts'[h] = verdicts[h]
        /\ verdicts'[tasks[cur].hash] \in {verdicts[tasks[cur].hash], verdicts[tasks[cur].hash] + 1}
    BY <2>1, <2>2
  <2>4. /\ DOMAIN tasks' = DOMAIN tasks /\ tasks'[cur].hash = tasks[cur].hash
        /\ \A i \in DOMAIN tasks \ {cur} : tasks'[i] = tasks[i]
    BY <2>1, FailedRow, CompletedRow
  <2>5. QED
    BY <2>1, <2>3, <2>4 DEF OneLeaves, Active
<1>6. QED
  BY <1>1, <1>2, <1>3, <1>4, <1>5 DEF QueueStep, ClaimNothing, QueueUnreadable,
     VerifierUnavailableUnsaved, WakeUp, taskVars
=============================================================================
