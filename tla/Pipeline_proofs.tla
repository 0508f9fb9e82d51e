---------------------------- MODULE Pipeline_proofs ----------------------------
(***************************************************************************)
(* Proofs about the two loops together, for any files, bounds and caps:    *)
(* what a verification rests on, and that the loops implement              *)
(* FileLifecycle, but for its progress.  Each loop keeps the invariant     *)
(* proved of it alone, whatever the other does to what they share.         *)
(***************************************************************************)
EXTENDS Pipeline, Sequences, FiniteSetTheorems, TLAPS

QP == INSTANCE VerificationQueue_proofs WITH faults <- qfaults
DP == INSTANCE DownloadLoop_proofs WITH enqueued <- Enqueued, faults <- dfaults

LEMMA QueueConstants == QP!QueueAssumption
  BY PipelineAssumption DEF QP!QueueAssumption

LEMMA DownloadConstants == DP!DownloadAssumption
  BY PipelineAssumption DEF DP!DownloadAssumption

-----------------------------------------------------------------------------
(***************************************************************************)
(* The steps of the two loops are those of the modules about them.  The    *)
(* sum that ReadCandidates takes is no business of either invariant.       *)
(***************************************************************************)
LEMMA SameQueueSteps ==
  /\ Q!QueueStep => QP!QueueStep
  /\ Q!QueueCrash => QP!QueueCrash
  /\ \A i \in DOMAIN tasks : Q!LeaseExpires(i) => QP!LeaseExpires(i)
  /\ \A h \in Hash : Q!Enqueue(h) => QP!Enqueue(h)
  BY DEF Q!taskVars, QP!taskVars, Q!loopVars, QP!loopVars, Q!Active, QP!Active, Q!Row, QP!Row,
     Q!NoTask, QP!NoTask, Q!Pending, QP!Pending, Q!InProgress, QP!InProgress, Q!Fault,
     QP!Fault, Q!Enqueue, QP!Enqueue, Q!Reclaimed, QP!Reclaimed, Q!Oldest, QP!Oldest,
     Q!Claimed, QP!Claimed, Q!Completed, QP!Completed, Q!Failed, QP!Failed, Q!Held, QP!Held,
     Q!Reclaim, QP!Reclaim, Q!ClaimNothing, QP!ClaimNothing, Q!ClaimTask, QP!ClaimTask,
     Q!ClaimThenLose, QP!ClaimThenLose, Q!QueueUnreadable, QP!QueueUnreadable, Q!Verified,
     QP!Verified, Q!VerdictUnsaved, QP!VerdictUnsaved, Q!VerifierUnavailable,
     QP!VerifierUnavailable, Q!VerifierUnavailableUnsaved, QP!VerifierUnavailableUnsaved,
     Q!WakeUp, QP!WakeUp, Q!QueueStep, QP!QueueStep,
     Q!QueueCrash, QP!QueueCrash, Q!LeaseExpires, QP!LeaseExpires

LEMMA SameQuietSteps == D!QuietStep => D!ReadCandidates \/ DP!QuietStep
  BY DEF D!fileVars, DP!fileVars, D!envVars, DP!envVars, D!Active, DP!Active, D!Terminal,
     DP!Terminal, D!Fault, DP!Fault, D!Goto, DP!Goto, D!Downloading, DP!Downloading,
     D!Started, DP!Started, D!Monitor, DP!Monitor, D!MonitorUnreadable,
     DP!MonitorUnreadable, D!ReadShared, DP!ReadShared, D!SharedUnreadable,
     DP!SharedUnreadable, D!Mark, DP!Mark, D!Move, DP!Move, D!Promotable, DP!Promotable,
     D!Promoting, DP!Promoting, D!SkipBadName, DP!SkipBadName, D!PromoteUnmarked,
     DP!PromoteUnmarked, D!PromoteUnmoved, DP!PromoteUnmoved, D!PromoteUnqueued,
     DP!PromoteUnqueued, D!Promoted, DP!Promoted, D!CandidatesUnreadable,
     DP!CandidatesUnreadable, D!DownloadPolicy, DP!DownloadPolicy, D!Consider, DP!Consider,
     D!Considered, DP!Considered, D!ReadUnsent, DP!ReadUnsent, D!UnsentUnreadable,
     DP!UnsentUnreadable, D!Accepted, DP!Accepted, D!Sending, DP!Sending, D!SendLink,
     DP!SendLink, D!LinkRefused, DP!LinkRefused, D!AnswerLost, DP!AnswerLost, D!LinksSent,
     DP!LinksSent, D!Requesting, DP!Requesting, D!NotConnected, DP!NotConnected, D!EcFails,
     DP!EcFails, D!WakeUp, DP!WakeUp, D!PromoteQuietly, DP!PromoteQuietly, D!QuietStep,
     DP!QuietStep

LEMMA SameDownloadSteps ==
  /\ D!ReadRefused => DP!ReadRefused
  /\ D!RestartAfterRaise => DP!RestartAfterRaise
  /\ D!Crash => DP!Crash
  /\ D!DownloadEnv => DP!DownloadEnv
  /\ \A h \in Hash : D!AskVerification(h) => DP!AskVerification(h)
  BY DEF D!ReadRefused, DP!ReadRefused, D!RestartAfterRaise, DP!RestartAfterRaise, D!Restart,
     DP!Restart, D!Crash, DP!Crash, D!DownloadEnv, DP!DownloadEnv, D!Decide, DP!Decide,
     D!MuleFinishes, DP!MuleFinishes, D!MuleDrops, DP!MuleDrops, D!AskVerification,
     DP!AskVerification, D!Promote, DP!Promote, D!PromoteUnsettled, DP!PromoteUnsettled,
     D!Promoting, DP!Promoting, D!Promotable, DP!Promotable, D!Move, DP!Move, D!Mark,
     DP!Mark, D!Goto, DP!Goto, D!Fault, DP!Fault, D!fileVars, DP!fileVars, D!envVars,
     DP!envVars

-----------------------------------------------------------------------------
\* The row of a file whose verification was asked for says where it is.
Backed == \A h \in Enqueued : state[h] \in {"completed", "quarantined"}

PipelineInv == QP!QueueInv /\ DP!DownloadInv /\ Backed

\* The kinds of steps, in the terms of the modules about the loops.
Asks(h) == QP!Enqueue(h) /\ DP!AskVerification(h) /\ UNCHANGED queueOwn

Downloads ==
  /\ UNCHANGED <<tasks, queueOwn>>
  /\ DP!QuietStep \/ DP!RestartAfterRaise \/ DP!DownloadEnv

Counts == UNCHANGED <<tasks, queueOwn>> /\ D!ReadCandidates

Verifies ==
  /\ QP!QueueStep \/ \E i \in DOMAIN tasks : QP!LeaseExpires(i)
  /\ UNCHANGED downloadOwn

Stops == QP!QueueCrash /\ (DP!ReadRefused \/ DP!Crash)

LEMMA Steps ==
  ASSUME PipelineNext
  PROVE  (\E h \in Hash : Asks(h)) \/ Downloads \/ Counts \/ Verifies \/ Stops
<1>1. CASE \E h \in Hash : AskVerification(h)
  BY <1>1, SameQueueSteps, SameDownloadSteps DEF AskVerification, Asks
<1>2. CASE DownloadAlone
  BY <1>2, SameQuietSteps, SameDownloadSteps DEF DownloadAlone, Downloads, Counts
<1>3. CASE VerifyAlone \/ \E i \in DOMAIN tasks : LeaseExpires(i)
  BY <1>3, SameQueueSteps DEF VerifyAlone, LeaseExpires, Verifies
<1>4. CASE RaiseTogether \/ CrashTogether
  BY <1>4, SameQueueSteps, SameDownloadSteps DEF RaiseTogether, CrashTogether, Stops
<1>5. QED
  BY <1>1, <1>2, <1>3, <1>4 DEF PipelineNext, DownloadLoopStep

LEMMA EnqueuedAdded ==
  ASSUME QP!QueueInv, NEW h \in Hash, QP!Enqueue(h)
  PROVE  Enqueued' = Enqueued \cup {h}
<1>1. /\ DOMAIN tasks \subseteq DOMAIN tasks'
      /\ \A i \in DOMAIN tasks : tasks'[i] = tasks[i]
      /\ \A i \in DOMAIN tasks' \ DOMAIN tasks : tasks'[i].hash = h
      /\ \E i \in DOMAIN tasks' : tasks'[i].hash = h /\ tasks'[i].status \in QP!Active
  BY QP!RequestRows, QueueConstants
<1>2. QED
  BY <1>1 DEF Enqueued

LEMMA EnqueuedKept ==
  ASSUME PipelineInv, Verifies \/ UNCHANGED tasks
  PROVE  Enqueued' = Enqueued
<1>1. CASE Verifies
  <2>1. QP!NothingEnds \/ QP!OneLeaves
    BY <1>1, QP!RowsOfStep, QueueConstants DEF PipelineInv, Verifies
  <2>2. DOMAIN tasks' = DOMAIN tasks /\ \A i \in DOMAIN tasks : tasks'[i].hash = tasks[i].hash
    BY <2>1 DEF QP!NothingEnds, QP!OneLeaves
  <2>3. QED
    BY <2>2 DEF Enqueued
<1>2. CASE UNCHANGED tasks
  BY <1>2 DEF Enqueued
<1>3. QED
  BY <1>1, <1>2

LEMMA PipelineInvInit == PipelineInit => PipelineInv
<1> SUFFICES ASSUME PipelineInit PROVE PipelineInv
  OBVIOUS
<1>1. Enqueued = {}
  BY DEF PipelineInit, Q!QueueInit, Enqueued
<1>2. QP!QueueInit
  BY DEF PipelineInit, Q!QueueInit, QP!QueueInit, Q!NoTask, QP!NoTask
<1>3. DP!DownloadInit
  BY DEF PipelineInit, D!DownloadInit, DP!DownloadInit
<1>4. QP!QueueInv /\ DP!DownloadInv
  BY <1>2, <1>3, QP!QueueInvInit, QueueConstants, DP!DownloadInvInit, DownloadConstants
<1>5. QED
  BY <1>1, <1>4 DEF PipelineInv, Backed

LEMMA QueueKept ==
  ASSUME PipelineInv, [PipelineNext]_pipelineVars
  PROVE  QP!QueueInv'
<1>1. CASE UNCHANGED <<tasks, queueOwn>> \/ Verifies \/ Stops
  <2>1. [QP!QueueNext]_QP!queueVars
    BY <1>1 DEF queueOwn, QP!queueVars, Verifies, Stops, QP!QueueNext
  <2>2. QED
    BY <2>1, QP!QueueInvStep, QueueConstants DEF PipelineInv
<1>2. CASE \E h \in Hash : Asks(h)
  BY <1>2, QP!EnqueueInv, QueueConstants DEF PipelineInv, Asks, queueOwn, QP!loopVars
<1>3. QED
  BY <1>1, <1>2, Steps DEF Downloads, Counts, pipelineVars

LEMMA DownloadKept ==
  ASSUME PipelineInv, [PipelineNext]_pipelineVars
  PROVE  DP!DownloadInv'
<1>1. CASE (\E h \in Hash : Asks(h)) \/ Downloads \/ Stops
  <2>1. DP!DownloadNext
    BY <1>1 DEF Asks, Downloads, Stops, DP!DownloadNext, DP!DownloadStep
  <2>2. QED
    BY <2>1, DP!DownloadInvStep, DownloadConstants DEF PipelineInv
<1>2. CASE Counts
  <2>1. /\ UNCHANGED DP!fileVars /\ UNCHANGED mule
        /\ decided' \subseteq Hash /\ ec' \in BOOLEAN /\ dfaults' = dfaults
        /\ dpc' = "consider" /\ todo' \subseteq Hash
    BY <1>2 DEF Counts, D!ReadCandidates, D!Goto, D!fileVars, DP!fileVars, D!envVars,
       PipelineInv, DP!DownloadInv, DP!DownloadShape
  <2>2. QED
    BY <2>1, DP!IdleInv, DownloadConstants DEF PipelineInv
<1>3. CASE Verifies \/ UNCHANGED pipelineVars
  <2>1. Enqueued' = Enqueued
    BY <1>3, EnqueuedKept DEF pipelineVars
  <2>2. UNCHANGED DP!downloadVars
    BY <1>3, <2>1 DEF Verifies, pipelineVars, downloadOwn, DP!downloadVars, DP!fileVars, DP!envVars
  <2>3. QED
    BY <2>2, DP!DownloadInvStep, DownloadConstants DEF PipelineInv
<1>4. QED
  BY <1>1, <1>2, <1>3, Steps

\* The states of the rows move on as they do without the verification loop.
LEMMA RowsForward ==
  ASSUME PipelineInv, PipelineNext
  PROVE  /\ state \in [Hash -> DP!States]
         /\ DP!Forward /\ DP!OneAtATime
<1>1. state \in [Hash -> DP!States]
  BY DEF PipelineInv, DP!DownloadInv, DP!DownloadShape
<1>2. CASE UNCHANGED state
  BY <1>1, <1>2 DEF DP!Forward, DP!OneAtATime
<1>3. CASE (\E h \in Hash : Asks(h)) \/ Downloads \/ Stops
  <2>1. DP!DownloadNext
    BY <1>3 DEF Asks, Downloads, Stops, DP!DownloadNext, DP!DownloadStep
  <2>2. DP!OneAtATime
    BY <2>1, DP!OneRow, DownloadConstants DEF PipelineInv
  <2>3. [DP!Forward]_DP!downloadVars
    BY <2>1, DP!ForwardStep, DownloadConstants DEF PipelineInv
  <2>4. QED
    BY <1>1, <1>2, <2>2, <2>3 DEF DP!downloadVars, DP!fileVars
<1>4. QED
  BY <1>1, <1>2, <1>3, Steps DEF Counts, D!ReadCandidates, D!fileVars, Verifies, downloadOwn

\* What a step that asks for a verification finds, and what it leaves.
LEMMA AskedRow ==
  ASSUME PipelineInv, NEW h \in Hash, Asks(h)
  PROVE  /\ state[h] \in {"queued", "downloading", "completed"}
         /\ state'[h] \in {"completed", "quarantined"}
         /\ \A g \in Hash \ {h} : state'[g] = state[g]
<1>1. state \in [Hash -> DP!States]
  BY DEF PipelineInv, DP!DownloadInv, DP!DownloadShape
<1>2. state[h] \in {"queued", "downloading", "completed"}
  BY DEF Asks, DP!AskVerification, DP!Promote, DP!PromoteUnsettled, DP!Promoting, PipelineInv,
     DP!DownloadInv, DP!SnapshotsHold, DP!Active
<1>3. DP!Mark(h, "quarantined") \/ DP!Mark(h, "completed")
  BY DEF Asks, DP!AskVerification, DP!Promote, DP!PromoteUnsettled
<1>4. QED
  BY <1>1, <1>2, <1>3 DEF DP!Mark

LEMMA BackedKept ==
  ASSUME PipelineInv, [PipelineNext]_pipelineVars
  PROVE  Backed'
<1>1. CASE UNCHANGED pipelineVars
  BY <1>1, EnqueuedKept DEF pipelineVars, downloadOwn, PipelineInv, Backed
<1>2. CASE PipelineNext
  <2>1. Enqueued \subseteq Hash
    BY DEF PipelineInv, DP!DownloadInv, DP!DownloadShape
  <2>2. \A h \in Enqueued : state'[h] \in {"completed", "quarantined"}
    BY <1>2, <2>1, RowsForward DEF PipelineInv, Backed, DP!Forward, DP!Successors
  <2>3. CASE Enqueued' = Enqueued
    BY <2>2, <2>3 DEF Backed
  <2>4. ASSUME NEW h \in Hash, Asks(h) PROVE Backed'
    BY <2>2, <2>4, AskedRow, EnqueuedAdded DEF Asks, PipelineInv, Backed
  <2>5. QED
    BY <1>2, <2>3, <2>4, Steps, EnqueuedKept DEF Downloads, Counts, Stops, QP!QueueCrash,
       QP!taskVars
<1>3. QED
  BY <1>1, <1>2

\* The invariant of each loop, and the row behind every task, survive the steps of
\* both loops.
THEOREM PipelineInvariant == PipelineSpec => []PipelineInv
<1>1. PipelineInv /\ [PipelineNext]_pipelineVars => PipelineInv'
  BY QueueKept, DownloadKept, BackedKept DEF PipelineInv
<1>2. QED
  BY <1>1, PipelineInvInit, PTL DEF PipelineSpec

\* Whatever the verification loop claims, also after a restart, is in the
\* quarantine, with the row that names its target.
THEOREM ClaimsAreBacked == PipelineSpec => []ClaimIsBacked
<1>1. PipelineInv => ClaimIsBacked
  <2> SUFFICES ASSUME PipelineInv, NEW h \in Hash, Open(h)
               PROVE  h \in quarantine /\ state[h] \in {"completed", "quarantined"}
    BY DEF ClaimIsBacked
  <2>1. h \in Enqueued
    BY DEF Open, TasksOf, Enqueued
  <2>2. QED
    BY <2>1 DEF PipelineInv, Backed, DP!DownloadInv, DP!EnqueuedIsInPlace
<1>2. QED
  BY <1>1, PipelineInvariant, PTL
-----------------------------------------------------------------------------
(***************************************************************************)
(* How often a file is verified.  The promotion that asks for it without   *)
(* an error also settles its row, and a settled row is not promoted again: *)
(* every other request has cost an error.                                  *)
(***************************************************************************)
Paid(h) ==
  Cardinality(TasksOf(h)) <= dfaults + (IF state[h] = "quarantined" THEN 1 ELSE 0)

AllPaid == \A h \in Hash : Paid(h)

\* The rows of a file are finitely many.
LEMMA RowsFinite ==
  ASSUME PipelineInv, NEW h
  PROVE  IsFiniteSet(TasksOf(h)) /\ Cardinality(TasksOf(h)) \in Nat
<1>1. tasks \in Seq(QP!Task)
  BY DEF PipelineInv, QP!QueueInv, QP!QueueTypeOK
<1>2. TasksOf(h) \in SUBSET (1 .. Len(tasks)) /\ Len(tasks) \in Int
  BY <1>1 DEF TasksOf
<1>3. IsFiniteSet(1 .. Len(tasks))
  BY <1>2, FS_Interval
<1>4. IsFiniteSet(TasksOf(h))
  BY <1>2, <1>3, FS_Subset
<1>5. QED
  BY <1>4, FS_CardinalityType

\* A request adds one row at most, and only for its file.
LEMMA RequestedRows ==
  ASSUME PipelineInv, NEW h \in Hash, QP!Enqueue(h)
  PROVE  /\ \A g \in Hash \ {h} : TasksOf(g)' = TasksOf(g)
         /\ Cardinality(TasksOf(h)') \in {Cardinality(TasksOf(h)), Cardinality(TasksOf(h)) + 1}
<1>1. tasks \in Seq(QP!Task)
  BY DEF PipelineInv, QP!QueueInv, QP!QueueTypeOK
<1>2. Cardinality(TasksOf(h)) \in Nat /\ IsFiniteSet(TasksOf(h))
  BY RowsFinite
<1>3. CASE tasks' = tasks
  <2>1. \A g \in Hash : TasksOf(g)' = TasksOf(g)
    BY <1>3 DEF TasksOf
  <2>2. QED
    BY <1>2, <2>1
<1>4. CASE tasks' = Append(tasks, QP!Row(h, "pending", 0, FALSE))
  <2>1. /\ DOMAIN tasks' = DOMAIN tasks \cup {Len(tasks) + 1}
        /\ \A i \in DOMAIN tasks : tasks'[i] = tasks[i]
        /\ tasks'[Len(tasks) + 1].hash = h
        /\ Len(tasks) + 1 \notin DOMAIN tasks
    BY <1>1, <1>4 DEF QP!Row
  <2>2. TasksOf(h)' = TasksOf(h) \cup {Len(tasks) + 1} /\ Len(tasks) + 1 \notin TasksOf(h)
    BY <2>1 DEF TasksOf
  <2>3. \A g \in Hash \ {h} : TasksOf(g)' = TasksOf(g)
    BY <2>1 DEF TasksOf
  <2>4. Cardinality(TasksOf(h)') = Cardinality(TasksOf(h)) + 1
    BY <1>2, <2>2, FS_AddElement
  <2>5. QED
    BY <1>2, <2>3, <2>4
<1>5. QED
  BY <1>3, <1>4 DEF QP!Enqueue

LEMMA OneFaultMore ==
  ASSUME PipelineInv, PipelineNext
  PROVE  dfaults \in Nat /\ dfaults' \in {dfaults, dfaults + 1}
<1>1. dfaults \in Nat
  BY PipelineAssumption DEF PipelineInv, DP!DownloadInv, DP!DownloadShape
<1>2. CASE (\E h \in Hash : Asks(h)) \/ Downloads \/ Stops
  <2>1. DP!DownloadNext
    BY <1>2 DEF Asks, Downloads, Stops, DP!DownloadNext, DP!DownloadStep
  <2>2. QED
    BY <1>1, <2>1, DP!AtMostOneFault, DownloadConstants DEF DP!Fault
<1>3. CASE Counts \/ Verifies
  BY <1>1, <1>3 DEF Counts, D!ReadCandidates, Verifies, downloadOwn
<1>4. QED
  BY <1>2, <1>3, Steps

LEMMA AskedIsPaid ==
  ASSUME PipelineInv, AllPaid, PipelineNext, NEW h \in Hash, Asks(h)
  PROVE  AllPaid'
<1> USE OneFaultMore
<1>1. ASSUME NEW g \in Hash \ {h} PROVE Paid(g)'
  <2>1. TasksOf(g)' = TasksOf(g) /\ state'[g] = state[g]
    BY AskedRow, RequestedRows DEF Asks
  <2>2. Cardinality(TasksOf(g)) \in Nat /\ Paid(g)
    BY RowsFinite DEF AllPaid
  <2>3. QED
    BY <2>1, <2>2 DEF Paid
<1>2. Cardinality(TasksOf(h)) <= dfaults
  <2>1. Cardinality(TasksOf(h)) \in Nat /\ state[h] # "quarantined" /\ Paid(h)
    BY RowsFinite, AskedRow DEF AllPaid
  <2>2. QED
    BY <2>1 DEF Paid
<1>3. \/ state'[h] = "quarantined" /\ dfaults' = dfaults
      \/ dfaults' = dfaults + 1
  <2>1. state \in [Hash -> DP!States]
    BY DEF PipelineInv, DP!DownloadInv, DP!DownloadShape
  <2>2. QED
    BY <2>1 DEF Asks, DP!AskVerification, DP!Promote, DP!PromoteUnsettled, DP!Mark, DP!Fault
<1>4. /\ Cardinality(TasksOf(h)') \in {Cardinality(TasksOf(h)), Cardinality(TasksOf(h)) + 1}
      /\ Cardinality(TasksOf(h)) \in Nat
  BY RequestedRows, RowsFinite DEF Asks
<1>5. Paid(h)'
  BY <1>2, <1>3, <1>4 DEF Paid
<1>6. QED
  BY <1>1, <1>5 DEF AllPaid

LEMMA PaidStep == PipelineInv /\ AllPaid /\ [PipelineNext]_pipelineVars => AllPaid'
<1>. SUFFICES ASSUME PipelineInv, AllPaid, [PipelineNext]_pipelineVars PROVE AllPaid'
  OBVIOUS
<1>1. CASE UNCHANGED pipelineVars
  BY <1>1 DEF pipelineVars, downloadOwn, AllPaid, Paid, TasksOf
<1>2. CASE PipelineNext /\ (Downloads \/ Counts \/ Verifies \/ Stops)
  <2>1. DOMAIN tasks' = DOMAIN tasks /\ \A i \in DOMAIN tasks : tasks'[i].hash = tasks[i].hash
    <3>1. CASE Verifies
      BY <3>1, QP!RowsOfStep, QueueConstants DEF PipelineInv, Verifies, QP!NothingEnds, QP!OneLeaves
    <3>2. QED
      BY <1>2, <3>1 DEF Downloads, Counts, Stops, QP!QueueCrash, QP!taskVars
  <2>2. \A h \in Hash : TasksOf(h)' = TasksOf(h)
    BY <2>1 DEF TasksOf
  <2>3. \A h \in Hash : state[h] = "quarantined" => state'[h] = "quarantined"
    BY <1>2, RowsForward DEF DP!Forward, DP!Successors
  <2>4. QED
    BY <1>2, <2>2, <2>3, OneFaultMore, RowsFinite DEF AllPaid, Paid
<1>3. QED
  BY <1>1, <1>2, AskedIsPaid, Steps

\* A file has one verification more than the errors and crashes the download loop
\* has met, at most.
THEOREM RepeatsArePaid == PipelineSpec => []RepeatsPaid
<1>1. PipelineInit => AllPaid
  <2> SUFFICES ASSUME PipelineInit PROVE AllPaid
    OBVIOUS
  <2>1. tasks = <<>> /\ dfaults = 0
    BY DEF PipelineInit, Q!QueueInit, D!DownloadInit
  <2>2. \A h \in Hash : Cardinality(TasksOf(h)) = 0
    BY <2>1, FS_EmptySet DEF TasksOf
  <2>3. QED
    BY <2>1, <2>2 DEF AllPaid, Paid
<1>2. PipelineSpec => []AllPaid
  BY <1>1, PaidStep, PipelineInvariant, PTL DEF PipelineSpec
<1>3. PipelineInv /\ AllPaid => RepeatsPaid
  <2> SUFFICES ASSUME PipelineInv, AllPaid, NEW h \in Hash
               PROVE  Cardinality(TasksOf(h)) <= 1 + dfaults
    BY DEF RepeatsPaid
  <2>1. dfaults \in Nat
    BY PipelineAssumption DEF PipelineInv, DP!DownloadInv, DP!DownloadShape
  <2>2. QED
    BY <2>1, RowsFinite DEF AllPaid, Paid
<1>4. QED
  BY <1>2, <1>3, PipelineInvariant, PTL
-----------------------------------------------------------------------------
(***************************************************************************)
(* The stages of the files.                                                *)
(***************************************************************************)
Kind(h) == IF state[h] \in {"absent", "failed"} THEN state[h] ELSE "wanted"

\* All a stage depends on stays as it is.
SameGrounds(h) ==
  /\ verdicts'[h] = verdicts[h]
  /\ Open(h)' <=> Open(h)
  /\ (h \in Enqueued)' <=> h \in Enqueued
  /\ Kind(h)' = Kind(h)

Moves(h) ==
  \/ Stage(h)' = Stage(h)
  \/ Stage(h) = "unknown" /\ Stage(h)' = "wanted"
  \/ Stage(h) = "wanted" /\ Stage(h)' \in {"refused", "held"}
  \/ Stage(h) = "held" /\ Stage(h)' \in {"judged", "abandoned"}
  \/ Stage(h) = "abandoned" /\ Stage(h)' = "held"

LEMMA SameStage ==
  ASSUME NEW h \in Hash, SameGrounds(h)
  PROVE  Stage(h)' = Stage(h)
  BY DEF SameGrounds, Kind, Stage

LEMMA OpenIsEnqueued == ASSUME NEW h, Open(h) PROVE h \in Enqueued
  BY DEF Open, TasksOf, Enqueued

LEMMA OneMoves ==
  ASSUME NEW h \in Hash, Moves(h), \A g \in Hash \ {h} : Stage(g)' = Stage(g)
  PROVE  [L!LifecycleNext]_Progress
<1>1. ASSUME Stage(h)' = Stage(h) PROVE UNCHANGED Progress
  BY <1>1 DEF Progress
<1>2. ASSUME NEW b, Stage(h)' = b PROVE Progress' = [Progress EXCEPT ![h] = b]
  BY <1>2 DEF Progress
<1>3. Progress[h] = Stage(h)
  BY DEF Progress
<1>4. QED
  BY <1>1, <1>2, <1>3 DEF Moves, L!LifecycleNext, L!Want, L!Refuse, L!Hold, L!Judge, L!Abandon,
     L!AskAgain, L!Move

\* A verification is asked for: the file is held, if it has no verdict yet.
LEMMA AskMoves ==
  ASSUME PipelineInv, NEW h \in Hash, Asks(h)
  PROVE  [L!LifecycleNext]_Progress
<1>1. verdicts' = verdicts
  BY DEF Asks, queueOwn
<1>2. Enqueued' = Enqueued \cup {h}
  BY EnqueuedAdded DEF Asks, PipelineInv
<1>3. Open(h)' /\ \A g \in Hash \ {h} : Open(g)' <=> Open(g)
  <2>1. /\ DOMAIN tasks \subseteq DOMAIN tasks'
        /\ \A i \in DOMAIN tasks : tasks'[i] = tasks[i]
        /\ \A i \in DOMAIN tasks' \ DOMAIN tasks : tasks'[i].hash = h
        /\ \E i \in DOMAIN tasks' : tasks'[i].hash = h /\ tasks'[i].status \in QP!Active
    BY QP!RequestRows, QueueConstants DEF Asks, PipelineInv
  <2>2. QED
    BY <2>1 DEF Open, TasksOf, Q!Active, QP!Active
<1>4. \A g \in Hash \ {h} : Stage(g)' = Stage(g)
  BY <1>1, <1>2, <1>3, AskedRow, SameStage DEF SameGrounds, Kind
<1>5. Moves(h)
  BY <1>1, <1>2, <1>3, AskedRow, OpenIsEnqueued DEF Moves, Stage
<1>6. QED
  BY <1>4, <1>5, OneMoves

\* The loops change the row of one file, or what amuled has started.
LEMMA RowMoves ==
  ASSUME PipelineInv, PipelineNext, UNCHANGED <<tasks, verdicts>>
  PROVE  [L!LifecycleNext]_Progress
<1>1. \A h \in Hash : (Open(h)' <=> Open(h)) /\ ((h \in Enqueued)' <=> h \in Enqueued)
  BY DEF Open, TasksOf, Enqueued
<1>2. /\ \A h \in Hash : state[h] \in DP!States
      /\ \A h \in Hash : state'[h] = state[h] \/ state'[h] \in DP!Successors[state[h]]
  BY RowsForward DEF DP!Forward
<1>3. PICK h : \A g \in Hash \ {h} : \/ state'[g] = state[g]
                                     \/ {state[g], state'[g]} \subseteq DP!Active
  BY RowsForward DEF DP!OneAtATime
<1>4. \A g \in Hash \ {h} : Stage(g)' = Stage(g)
  BY <1>1, <1>3, SameStage DEF SameGrounds, Kind, DP!Active
<1>5. CASE h \notin Hash
  BY <1>4, <1>5 DEF Progress
<1>6. CASE h \in Hash
  <2>1. h \in Enqueued => state[h] \in {"completed", "quarantined"}
    BY DEF PipelineInv, Backed
  <2>2. ASSUME Kind(h)' = Kind(h) PROVE Moves(h)
    BY <1>1, <1>6, <2>2, SameStage DEF SameGrounds, Moves
  <2>3. ASSUME \/ state[h] = "absent" /\ state'[h] = "queued"
               \/ state[h] = "queued" /\ state'[h] = "failed"
        PROVE  Moves(h)
    BY <1>1, <1>6, <2>1, <2>3, OpenIsEnqueued DEF Moves, Stage
  <2>4. QED
    BY <1>2, <1>4, <1>6, <2>2, <2>3, OneMoves DEF Kind, DP!Successors, DP!States, DP!Active,
       DP!Terminal
<1>7. QED
  BY <1>5, <1>6

\* The verification loop ends or gives back one task.
LEMMA VerifyMoves ==
  ASSUME PipelineInv, Verifies
  PROVE  [L!LifecycleNext]_Progress
<1>1. /\ \A h \in Hash : Kind(h)' = Kind(h)
      /\ Enqueued' = Enqueued
  BY EnqueuedKept DEF Verifies, downloadOwn, Kind
<1>2. QP!NothingEnds \/ QP!OneLeaves
  BY QP!RowsOfStep, QueueConstants DEF PipelineInv, Verifies
<1>3. CASE QP!NothingEnds
  <2>1. \A h \in Hash : Open(h)' <=> Open(h)
    BY <1>3 DEF QP!NothingEnds, Open, TasksOf, Q!Active, QP!Active
  <2>2. \A h \in Hash : Stage(h)' = Stage(h)
    BY <1>1, <1>3, <2>1, SameStage DEF QP!NothingEnds, SameGrounds
  <2>3. QED
    BY <2>2 DEF Progress
<1>4. CASE QP!OneLeaves
  <2>1. PICK c \in DOMAIN tasks :
          /\ DOMAIN tasks' = DOMAIN tasks
          /\ tasks[c].status \in QP!Active /\ tasks'[c].hash = tasks[c].hash
          /\ \A i \in DOMAIN tasks \ {c} : tasks'[i] = tasks[i]
          /\ \A h \in Hash \ {tasks[c].hash} : verdicts'[h] = verdicts[h]
          /\ verdicts'[tasks[c].hash] \in {verdicts[tasks[c].hash], verdicts[tasks[c].hash] + 1}
    BY <1>4 DEF QP!OneLeaves
  <2>2. PICK h \in Hash :
          /\ h = tasks[c].hash /\ verdicts[h] \in Nat
          /\ verdicts'[h] \in {verdicts[h], verdicts[h] + 1}
    BY <2>1, QP!Rows, QueueConstants DEF PipelineInv, QP!QueueInv, QP!QueueTypeOK
  <2>3. Open(h) /\ h \in Enqueued
    BY <2>1, <2>2 DEF Open, TasksOf, Enqueued, Q!Active, QP!Active
  <2>4. \A g \in Hash \ {h} : Open(g)' <=> Open(g)
    BY <2>1, <2>2 DEF Open, TasksOf
  <2>5. \A g \in Hash \ {h} : Stage(g)' = Stage(g)
    BY <1>1, <2>1, <2>2, <2>4, SameStage DEF SameGrounds
  <2>6. Moves(h)
    <3>1. Stage(h) = IF verdicts[h] > 0 THEN "judged" ELSE "held"
      BY <2>2, <2>3 DEF Stage
    <3>2. Stage(h)' = IF verdicts'[h] > 0 THEN "judged"
                      ELSE IF Open(h)' THEN "held" ELSE "abandoned"
      BY <1>1, <2>2, <2>3 DEF Stage
    <3>3. QED
      BY <2>2, <3>1, <3>2 DEF Moves
  <2>7. QED
    BY <2>2, <2>5, <2>6, OneMoves
<1>5. QED
  BY <1>2, <1>3, <1>4

\* The two loops implement the life of a file that FileLifecycle promises, but for
\* its progress: whatever fails, a file is held before it is judged or given up, no
\* verdict is undone, and no file is refused once it was held.
THEOREM LifecycleImplemented == PipelineSpec => L!LifecycleSafe
<1>1. PipelineInit => L!LifecycleInit
  BY DEF PipelineInit, Q!QueueInit, D!DownloadInit, L!LifecycleInit, Progress, Stage, Open,
     TasksOf, Enqueued
<1>2. PipelineInv /\ [PipelineNext]_pipelineVars => [L!LifecycleNext]_Progress
  <2> SUFFICES ASSUME PipelineInv, [PipelineNext]_pipelineVars PROVE [L!LifecycleNext]_Progress
    OBVIOUS
  <2>1. CASE UNCHANGED pipelineVars
    BY <2>1 DEF pipelineVars, downloadOwn, queueOwn, Progress, Stage, Open, TasksOf, Enqueued
  <2>2. CASE PipelineNext
    BY <2>2, Steps, AskMoves, VerifyMoves, RowMoves DEF Downloads, Counts, Stops, queueOwn,
       QP!QueueCrash, QP!taskVars
  <2>3. QED
    BY <2>1, <2>2
<1>3. QED
  BY <1>1, <1>2, PipelineInvariant, PTL DEF PipelineSpec, L!LifecycleSafe
=============================================================================
