----------------------------- MODULE DownloadLoop -----------------------------
(***************************************************************************)
(* The download loop (run_download_cycle): it turns decisions of the       *)
(* catalogue into downloads of amuled, follows them, and moves what amuled *)
(* has finished into the quarantine, asking for its verification.          *)
(*                                                                         *)
(* One step is one run of code between two awaits; amuled and the search   *)
(* workers (which decide) act in between.  Writes of one step are not one  *)
(* transaction: the table downloads, the quarantine directory and the      *)
(* queue of verifications change one after the other, and an error stops   *)
(* the step after any of them.  A crash between two writes leaves what the *)
(* error at the second one followed by Crash leaves.                       *)
(***************************************************************************)
EXTENDS Naturals, Functions

CONSTANTS
  Hash,       \* the ed2k hashes
  Size,       \* size_bytes of a file
  DiskCap,    \* disk_cap_bytes
  Eligible,   \* files whose target is in the config and not complete
  BadName,    \* files amuled shares under a degenerate name
  MaxFaults   \* bound: errors and crashes of a behaviour

ASSUME DownloadAssumption ==
  /\ Size \in [Hash -> Nat]
  /\ DiskCap \in Nat
  /\ Eligible \subseteq Hash
  /\ BadName \subseteq Hash
  /\ MaxFaults \in Nat

VARIABLES
  state,       \* the table downloads: the state of a file, "absent" without a row
  decided,     \* files whose latest decision in the catalogue is "download"
  enqueued,    \* files enqueue_verification was called for
  mule,        \* where amuled has a file: nowhere, in its queue, shared
  staging,     \* files in amuled's Incoming directory
  quarantine,  \* files in the quarantine directory
  ec,          \* whether the EC client holds a transport
  dpc,         \* where run_download_cycle is
  todo,        \* the rest of the snapshot a stage of the cycle iterates over
  committed,   \* committed_bytes as the candidate stage counts it
  faults       \* how many errors and crashes there have been

fileVars == <<state, enqueued, staging, quarantine>>
envVars == <<decided, mule>>
downloadVars == <<fileVars, envVars, ec, dpc, todo, committed, faults>>

Active == {"queued", "downloading"}
Terminal == {"quarantined", "failed"}
States == {"absent", "completed"} \cup Active \cup Terminal

ActiveFiles == {h \in Hash : state[h] \in Active}
CommittedBytes == SumFunctionOnSet(Size, ActiveFiles)

DownloadShape ==
  /\ state \in [Hash -> States]
  /\ decided \subseteq Hash
  /\ enqueued \subseteq Hash
  /\ mule \in [Hash -> {"nowhere", "queue", "shared"}]
  /\ staging \subseteq Hash
  /\ quarantine \subseteq Hash
  /\ ec \in BOOLEAN
  /\ dpc \in {"monitor", "shared", "promote", "candidates", "consider",
              "unsent", "send", "sleep", "raised"}
  /\ todo \subseteq Hash
  /\ faults \in 0 .. MaxFaults

\* The client is connected, or not, when the loop starts (a refused connection
\* at start-up is tolerated).
DownloadInit ==
  /\ state = [h \in Hash |-> "absent"]
  /\ decided = {}
  /\ enqueued = {}
  /\ mule = [h \in Hash |-> "nowhere"]
  /\ staging = {}
  /\ quarantine = {}
  /\ ec \in BOOLEAN
  /\ dpc = "monitor"
  /\ todo = {}
  /\ committed = 0
  /\ faults = 0

Fault == faults < MaxFaults /\ faults' = faults + 1

Goto(pc, rest) == dpc' = pc /\ todo' = rest

-----------------------------------------------------------------------------
(* The environment.                                                        *)

\* A search worker records a decision; the last one counts.
Decide(h) ==
  /\ decided' \in {decided \cup {h}, decided \ {h}}
  /\ decided' # decided
  /\ UNCHANGED <<fileVars, mule, ec, dpc, todo, committed, faults>>

\* amuled completes a file: it moves it to Incoming, then shares it.
MuleFinishes(h) ==
  /\ mule[h] = "queue"
  /\ mule' = [mule EXCEPT ![h] = "shared"]
  /\ staging' = staging \cup {h}
  /\ UNCHANGED <<state, enqueued, quarantine, decided, ec, dpc, todo, committed, faults>>

\* A download is cancelled in amuled.
MuleDrops(h) ==
  /\ mule[h] = "queue"
  /\ mule' = [mule EXCEPT ![h] = "nowhere"]
  /\ UNCHANGED <<fileVars, decided, ec, dpc, todo, committed, faults>>

-----------------------------------------------------------------------------
(* Stage 1, _monitor: downloads that amuled works on are downloading.       *)

Downloading == {h \in Hash : mule[h] = "queue" /\ state[h] = "queued"}

Started(S) == [h \in Hash |-> IF h \in S THEN "downloading" ELSE state[h]]

\* A RepositoryError before the last write ends the stage, not the cycle.
Monitor ==
  /\ dpc = "monitor" /\ ec
  /\ \/ state' = Started(Downloading) /\ UNCHANGED faults
     \/ (\E S \in SUBSET Downloading : state' = Started(S)) /\ Fault
  /\ Goto("shared", {})
  /\ UNCHANGED <<enqueued, staging, quarantine, envVars, ec, committed>>

\* The table cannot be read: the stage ends before it asks amuled anything.
MonitorUnreadable ==
  /\ dpc = "monitor"
  /\ Goto("shared", {})
  /\ Fault
  /\ UNCHANGED <<fileVars, envVars, ec, committed>>

-----------------------------------------------------------------------------
(* Stage 2, _handle_completions.                                           *)

\* Mutation: files already promoted are promoted again.
ReadSharedPromoted ==
  /\ dpc = "shared" /\ ec
  /\ Goto("promote", {h \in Hash : mule[h] = "shared" /\ state[h] \notin {"absent", "failed"}})
  /\ UNCHANGED <<fileVars, envVars, ec, committed, faults>>

ReadShared ==
  /\ dpc = "shared" /\ ec
  /\ Goto("promote", {h \in Hash : mule[h] = "shared" /\ state[h] \notin {"absent"} \cup Terminal})
  /\ UNCHANGED <<fileVars, envVars, ec, committed, faults>>

SharedUnreadable ==
  /\ dpc = "shared"
  /\ Goto("candidates", {})
  /\ Fault
  /\ UNCHANGED <<fileVars, envVars, ec, committed>>

Mark(h, s) == state' = [state EXCEPT ![h] = s]
Move(h) == staging' = staging \ {h} /\ quarantine' = quarantine \cup {h}

\* Mutation: a source that was already moved is an error.
PromotableOnce(h) == h \in staging

\* FilesystemQuarantine.promote works on a file already promoted.
Promotable(h) == h \in staging \cup quarantine

Promoting(h) ==
  /\ dpc = "promote" /\ h \in todo
  /\ Goto("promote", todo \ {h})
  /\ UNCHANGED <<envVars, ec, committed>>

SkipBadName(h) ==
  /\ Promoting(h) /\ h \in BadName
  /\ UNCHANGED <<fileVars, faults>>

\* Mutation: the state is written before the verification is asked for.
PromoteSettledFirst(h) ==
  /\ Promoting(h) /\ h \notin BadName
  /\ Promotable(h)
  /\ Move(h) /\ Mark(h, "quarantined")
  /\ \/ enqueued' = enqueued \cup {h} /\ UNCHANGED faults
     \/ UNCHANGED enqueued /\ Fault

\* Mutation: the verification is asked for before the file is in place.
PromoteEnqueuedFirst(h) ==
  /\ Promoting(h) /\ h \notin BadName
  /\ enqueued' = enqueued \cup {h}
  /\ \/ Promotable(h) /\ Move(h) /\ Mark(h, "quarantined") /\ UNCHANGED faults
     \/ Mark(h, "completed") /\ UNCHANGED <<staging, quarantine>> /\ Fault

\* _promote_completion without an error.
Promote(h) ==
  /\ Promoting(h) /\ h \notin BadName
  /\ Promotable(h)
  /\ Move(h)
  /\ enqueued' = enqueued \cup {h}
  /\ Mark(h, "quarantined")
  /\ UNCHANGED faults

\* The row cannot be marked completed: the file is skipped in this cycle.
PromoteUnmarked(h) ==
  /\ Promoting(h) /\ h \notin BadName
  /\ state[h] # "completed"
  /\ Fault
  /\ UNCHANGED fileVars

\* The rename fails; without a file it cannot but fail.
PromoteUnmoved(h) ==
  /\ Promoting(h) /\ h \notin BadName
  /\ Mark(h, "completed")
  /\ IF Promotable(h) THEN Fault ELSE UNCHANGED faults
  /\ UNCHANGED <<enqueued, staging, quarantine>>

\* The file is moved, but its verification cannot be asked for.
PromoteUnqueued(h) ==
  /\ Promoting(h) /\ h \notin BadName
  /\ Promotable(h)
  /\ Move(h)
  /\ Mark(h, "completed")
  /\ Fault
  /\ UNCHANGED enqueued

\* The verification is asked for, but the row stays completed.
PromoteUnsettled(h) ==
  /\ Promoting(h) /\ h \notin BadName
  /\ Promotable(h)
  /\ Move(h)
  /\ enqueued' = enqueued \cup {h}
  /\ Mark(h, "completed")
  /\ Fault

Promoted ==
  /\ dpc = "promote" /\ todo = {}
  /\ Goto("candidates", {})
  /\ UNCHANGED <<fileVars, envVars, ec, committed, faults>>

-----------------------------------------------------------------------------
(* Stage 3, _queue_new_candidates.  The order of the catalogue's list means *)
(* nothing, so any file of the snapshot may come next.                     *)

ReadCandidates ==
  /\ dpc = "candidates"
  /\ committed' = CommittedBytes
  /\ Goto("consider", decided)
  /\ UNCHANGED <<fileVars, envVars, ec, faults>>

CandidatesUnreadable ==
  /\ dpc \in {"candidates", "consider"}
  /\ dpc = "consider" => todo # {}
  /\ Goto("unsent", {})
  /\ committed' = 0
  /\ Fault
  /\ UNCHANGED <<fileVars, envVars, ec>>

\* download_policy, after the test that the file has no row yet.
DownloadPolicy(h) ==
  /\ state[h] = "absent"
  /\ h \in Eligible
  /\ committed + Size[h] <= DiskCap

\* Mutation: the bytes of this cycle's files are not counted.
ConsiderUncounted(h) ==
  /\ dpc = "consider" /\ h \in todo
  /\ Goto("consider", todo \ {h})
  /\ IF DownloadPolicy(h) THEN Mark(h, "queued") ELSE UNCHANGED state
  /\ UNCHANGED <<enqueued, staging, quarantine, envVars, ec, committed, faults>>

\* Mutation: a file the policy refuses ends the stage.
ConsiderOrStop(h) ==
  /\ dpc = "consider" /\ h \in todo
  /\ IF DownloadPolicy(h)
     THEN Goto("consider", todo \ {h}) /\ Mark(h, "queued") /\ committed' = committed + Size[h]
     ELSE Goto("unsent", {}) /\ committed' = 0 /\ UNCHANGED state
  /\ UNCHANGED <<enqueued, staging, quarantine, envVars, ec, faults>>

Consider(h) ==
  /\ dpc = "consider" /\ h \in todo
  /\ Goto("consider", todo \ {h})
  /\ IF DownloadPolicy(h)
     THEN Mark(h, "queued") /\ committed' = committed + Size[h]
     ELSE UNCHANGED <<state, committed>>
  /\ UNCHANGED <<enqueued, staging, quarantine, envVars, ec, faults>>

Considered ==
  /\ dpc = "consider" /\ todo = {}
  /\ Goto("unsent", {})
  /\ committed' = 0
  /\ UNCHANGED <<fileVars, envVars, ec, faults>>

-----------------------------------------------------------------------------
(* Stage 4, _add_links: a link for every queued file of a fresh snapshot.   *)

\* Mutation: links only for the files the catalogue still wants.
ReadUnsentDecided ==
  /\ dpc = "unsent"
  /\ Goto("send", {h \in decided : state[h] = "queued"})
  /\ UNCHANGED <<fileVars, envVars, ec, committed, faults>>

ReadUnsent ==
  /\ dpc = "unsent"
  /\ Goto("send", {h \in Hash : state[h] = "queued"})
  /\ UNCHANGED <<fileVars, envVars, ec, committed, faults>>

UnsentUnreadable ==
  /\ dpc \in {"unsent", "send"}
  /\ dpc = "send" => todo # {}
  /\ Goto("sleep", {})
  /\ Fault
  /\ UNCHANGED <<fileVars, envVars, ec, committed>>

Accepted(h) == [mule EXCEPT ![h] = IF @ = "nowhere" THEN "queue" ELSE @]

Sending(h) ==
  /\ dpc = "send" /\ h \in todo /\ ec
  /\ UNCHANGED <<enqueued, staging, quarantine, decided, committed>>

SendLink(h) ==
  /\ Sending(h)
  /\ mule' = Accepted(h)
  /\ Goto("send", todo \ {h})
  /\ UNCHANGED <<state, ec, faults>>

\* amuled refuses the link, because it is invalid or because it has the file.
LinkRefused(h) ==
  /\ Sending(h)
  /\ \/ Mark(h, "failed") /\ Goto("send", todo \ {h}) /\ UNCHANGED faults
     \/ UNCHANGED state /\ Goto("sleep", {}) /\ Fault
  /\ UNCHANGED <<mule, ec>>

\* amuled takes the link, but its answer is lost.
AnswerLost(h) ==
  /\ Sending(h)
  /\ mule' = Accepted(h)
  /\ Goto("sleep", {})
  /\ Fault
  /\ ec' \in BOOLEAN
  /\ UNCHANGED state

LinksSent ==
  /\ dpc = "send" /\ todo = {}
  /\ Goto("sleep", {})
  /\ UNCHANGED <<fileVars, envVars, ec, committed, faults>>

-----------------------------------------------------------------------------
(* Errors of the connection, the pause, and the end of the process.         *)

Requesting == dpc \in {"monitor", "shared"} \/ (dpc = "send" /\ todo # {})

\* Without a transport every request fails, and no code of the loop connects.
NotConnected ==
  /\ Requesting /\ ~ec
  /\ Goto("sleep", {})
  /\ UNCHANGED <<fileVars, envVars, ec, committed, faults>>

\* A request fails: the transport is dropped, unless the answer was only odd.
EcFails ==
  /\ Requesting /\ ec
  /\ ec' \in BOOLEAN
  /\ Goto("sleep", {})
  /\ Fault
  /\ UNCHANGED <<fileVars, envVars, committed>>

\* amuled answers a read with EC_OP_FAILED.  No handler of the cycle takes this
\* error: the TaskGroup ends every loop, and the process with them.
ReadRefused ==
  /\ dpc \in {"monitor", "shared"} /\ ec
  /\ Goto("raised", {})
  /\ Fault
  /\ UNCHANGED <<fileVars, envVars, ec, committed>>

WakeUp ==
  /\ dpc = "sleep"
  /\ Goto("monitor", {})
  /\ UNCHANGED <<fileVars, envVars, ec, committed, faults>>

\* Only a start of the process connects.
Restart ==
  /\ Goto("monitor", {})
  /\ ec' \in BOOLEAN
  /\ committed' = 0
  /\ UNCHANGED <<fileVars, envVars>>

Crash == Restart /\ Fault
RestartAfterRaise == dpc = "raised" /\ Restart /\ UNCHANGED faults

-----------------------------------------------------------------------------
\* The steps that call enqueue_verification, and all the others.
AskVerification(h) == Promote(h) \/ PromoteUnsettled(h)

PromoteQuietly(h) ==
  SkipBadName(h) \/ PromoteUnmarked(h) \/ PromoteUnmoved(h) \/ PromoteUnqueued(h)

QuietStep ==
  \/ Monitor \/ MonitorUnreadable \/ ReadShared \/ SharedUnreadable \/ Promoted
  \/ ReadCandidates \/ CandidatesUnreadable \/ Considered
  \/ ReadUnsent \/ UnsentUnreadable \/ LinksSent
  \/ NotConnected \/ EcFails \/ WakeUp
  \/ \E h \in Hash :
       PromoteQuietly(h) \/ Consider(h) \/ SendLink(h) \/ LinkRefused(h) \/ AnswerLost(h)

DownloadStep ==
  \/ \E h \in Hash : AskVerification(h)
  \/ QuietStep
  \/ ReadRefused
  \/ RestartAfterRaise

DownloadEnv == \E h \in Hash : Decide(h) \/ MuleFinishes(h) \/ MuleDrops(h)

DownloadNext == DownloadStep \/ DownloadEnv \/ Crash

\* Nothing is asked of amuled or of the search; the loop keeps running, and a
\* process that ended is started again ("restart: unless-stopped").
DownloadSpec == DownloadInit /\ [][DownloadNext]_downloadVars
DownloadFairSpec == DownloadSpec /\ WF_downloadVars(DownloadStep)
-----------------------------------------------------------------------------
(* Properties                                                              *)

\* A row says quarantined only when the file is in the quarantine and its
\* verification has been asked for: no order of errors, retries and crashes of
\* _promote_completion leaves a file that nobody will verify.
QuarantinedIsSafe ==
  \A h \in Hash : state[h] = "quarantined" => h \in quarantine /\ h \in enqueued

\* A verification is never asked for a file the verifier would not find.
EnqueuedIsInPlace == enqueued \subseteq quarantine

\* A download only counts as completed on amuled's word, and its file is then in
\* Incoming or in the quarantine: a promotion can always be tried again.
CompletedOnEvidence ==
  \A h \in Hash : state[h] \in {"completed", "quarantined"} => mule[h] = "shared" /\ Promotable(h)

\* The active downloads fit under the disk cap, since what the candidate stage
\* counts in memory is what the table says.
CapRespected ==
  /\ CommittedBytes <= DiskCap
  /\ dpc = "consider" => committed = CommittedBytes

\* The row is written before the link is sent: amuled never works on a file
\* the crawler does not know of.
NoUntrackedDownload == \A h \in Hash : mule[h] # "nowhere" => state[h] # "absent"

\* The stages work on snapshots taken before an await; what they go on to write
\* is still right for the row it is written to.
SnapshotsHold ==
  /\ dpc = "promote" => \A h \in todo : mule[h] = "shared" /\ state[h] \in Active \cup {"completed"}
  /\ dpc = "send" => \A h \in todo : state[h] = "queued"

\* Why a promotion can always be tried again: no step takes a finished file out
\* of the two directories.
FinishedIsSomewhere == \A h \in Hash : mule[h] = "shared" => Promotable(h)

\* The inductive invariant: the safety properties, but for the arithmetic of the
\* cap, and what they rest on.
DownloadInv ==
  /\ DownloadShape
  /\ QuarantinedIsSafe
  /\ EnqueuedIsInPlace
  /\ CompletedOnEvidence
  /\ NoUntrackedDownload
  /\ SnapshotsHold
  /\ FinishedIsSomewhere

Successors ==
  [absent |-> {"queued"},
   queued |-> {"downloading", "completed", "quarantined", "failed"},
   downloading |-> {"completed", "quarantined"},
   completed |-> {"quarantined"},
   quarantined |-> {},
   failed |-> {}]

\* The life of a download only goes forward, also when a stage works on a
\* snapshot; a terminal state is never left and a file never queued twice.
NeverRegresses ==
  [][\A h \in Hash : state'[h] = state[h] \/ state'[h] \in Successors[state[h]]]_downloadVars

\* A download amuled has finished is put in the quarantine, whatever failed
\* before, as long as the connection is up.
FinishedFilesSettle ==
  \A h \in Hash \ BadName :
    mule[h] = "shared" /\ state[h] \in Active \cup {"completed"} ~> state[h] \in Terminal \/ ~ec

\* A file the cap deferred, or an error kept back, is taken once it fits.
CandidatesTaken ==
  \A h \in Eligible :
    h \in decided /\ state[h] = "absent"
      ~> \/ state[h] # "absent" \/ h \notin decided
         \/ CommittedBytes + Size[h] > DiskCap \/ ~ec

\* A queued download reaches amuled, even if its decision is withdrawn and
\* earlier attempts to send its link failed.
QueuedReachesMule ==
  \A h \in Hash :
    state[h] = "queued" ~> mule[h] # "nowhere" \/ state[h] = "failed" \/ ~ec
=============================================================================
