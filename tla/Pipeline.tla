------------------------------- MODULE Pipeline -------------------------------
(***************************************************************************)
(* The download loop and the verification loop of one process.  They share *)
(* the table verification_tasks, the quarantine directory and their fate:  *)
(* a crash, or an exception that leaves one of them, ends both.            *)
(***************************************************************************)
EXTENDS Naturals, FiniteSets

CONSTANTS Hash, Size, DiskCap, Eligible, BadName, MaxAttempts, MaxTasks, MaxFaults

ASSUME PipelineAssumption ==
  /\ Size \in [Hash -> Nat] /\ DiskCap \in Nat
  /\ Eligible \subseteq Hash /\ BadName \subseteq Hash
  /\ MaxAttempts \in Nat \ {0}
  /\ MaxTasks \in Nat /\ MaxFaults \in Nat

VARIABLES
  state, decided, mule, staging, quarantine, ec, dpc, todo, committed,
  dfaults,   \* the errors and crashes the download loop has met
  tasks, verdicts, vpc, cur, edge,
  qfaults    \* those the verification loop has met

\* Every file the queue was ever asked to verify.
Enqueued == {tasks[i].hash : i \in DOMAIN tasks}

D == INSTANCE DownloadLoop WITH enqueued <- Enqueued, faults <- dfaults
Q == INSTANCE VerificationQueue WITH faults <- qfaults

downloadOwn == <<state, decided, mule, staging, quarantine, ec, dpc, todo, committed, dfaults>>
queueOwn == <<verdicts, vpc, cur, edge, qfaults>>
pipelineVars == <<downloadOwn, tasks, queueOwn>>

PipelineInit == Q!QueueInit /\ D!DownloadInit

\* The download loop enqueues: the row of the queue and the rest of the step.
AskVerification(h) ==
  /\ Q!Enqueue(h)
  /\ D!AskVerification(h)
  /\ UNCHANGED queueOwn

DownloadAlone ==
  /\ UNCHANGED <<tasks, queueOwn>>
  /\ D!QuietStep \/ D!RestartAfterRaise \/ D!DownloadEnv

VerifyAlone ==
  /\ dpc # "raised"
  /\ Q!QueueStep
  /\ UNCHANGED downloadOwn

LeaseExpires(i) == Q!LeaseExpires(i) /\ UNCHANGED downloadOwn

\* The TaskGroup cancels the verification loop when the download loop raises.
RaiseTogether == Q!QueueCrash /\ D!ReadRefused
CrashTogether == Q!QueueCrash /\ D!Crash

DownloadLoopStep == (\E h \in Hash : AskVerification(h)) \/ DownloadAlone \/ RaiseTogether

PipelineNext ==
  \/ DownloadLoopStep
  \/ VerifyAlone
  \/ \E i \in DOMAIN tasks : LeaseExpires(i)
  \/ CrashTogether

PipelineSpec == PipelineInit /\ [][PipelineNext]_pipelineVars

\* Both loops keep running, a process that ended is started again, leases run out.
PipelineFairness ==
  /\ WF_pipelineVars(\E h \in Hash : AskVerification(h))
  /\ WF_pipelineVars(UNCHANGED <<tasks, queueOwn>> /\ (D!QuietStep \/ D!RestartAfterRaise))
  /\ WF_pipelineVars(VerifyAlone)
  /\ \A i \in 1 .. MaxTasks : WF_pipelineVars(i \in DOMAIN tasks /\ LeaseExpires(i))

PipelineFairSpec == PipelineSpec /\ PipelineFairness

-----------------------------------------------------------------------------
(* Properties                                                              *)

TasksOf(h) == {i \in DOMAIN tasks : tasks[i].hash = h}
Open(h) == \E i \in TasksOf(h) : tasks[i].status \in Q!Active

\* A task can be worked on for as long as it is open, across restarts of both
\* loops: its file is in the quarantine, and its row of downloads, which names the
\* target the verifier is told to expect, is there.
ClaimIsBacked ==
  \A h \in Hash : Open(h) => h \in quarantine /\ state[h] \in {"completed", "quarantined"}

\* A file is verified a second time only if an error or a crash hit its
\* promotion: at most one more task for each.
RepeatsPaid == \A h \in Hash : Cardinality(TasksOf(h)) <= 1 + dfaults

\* The stage of a file, out of both databases.
Stage(h) ==
  CASE verdicts[h] > 0 -> "judged"
    [] verdicts[h] = 0 /\ Open(h) -> "held"
    [] verdicts[h] = 0 /\ ~Open(h) /\ h \in Enqueued -> "abandoned"
    [] verdicts[h] = 0 /\ h \notin Enqueued ->
         CASE state[h] = "absent" -> "unknown"
           [] state[h] = "failed" -> "refused"
           [] OTHER -> "wanted"

Progress == [h \in Hash |-> Stage(h)]

L == INSTANCE FileLifecycle WITH stage <- Progress

\* The two loops together keep the promise of FileLifecycle, its progress included.
LifecycleKept == L!LifecycleSpec
=============================================================================
