------------------------- MODULE DownloadLoop_proofs -------------------------
(***************************************************************************)
(* Proofs about the download loop, for every set of files, every cap, and  *)
(* every number of errors and crashes.                                     *)
(***************************************************************************)
EXTENDS DownloadLoop, FiniteSetTheorems, TLAPS

LEMMA DownloadInvInit == DownloadInit => DownloadInv
<1>. SUFFICES ASSUME DownloadInit PROVE DownloadInv
  OBVIOUS
<1>1. DownloadShape
  BY DownloadAssumption DEF DownloadInit, DownloadShape, States
<1>2. QED
  BY <1>1 DEF DownloadInit, DownloadInv, QuarantinedIsSafe, EnqueuedIsInPlace, Active,
     CompletedOnEvidence, NoUntrackedDownload, SnapshotsHold, FinishedIsSomewhere

\* What Mark writes: one row, and only that.
LEMMA MarkedRow ==
  ASSUME state \in [Hash -> States], NEW h \in Hash, NEW s \in States, Mark(h, s)
  PROVE  /\ state' \in [Hash -> States]
         /\ state'[h] = s
         /\ \A g \in Hash \ {h} : state'[g] = state[g]
  BY DEF Mark

\* One more fault stays within the bound, none at all as well.
LEMMA FaultCounted ==
  ASSUME DownloadShape, faults' = faults \/ Fault
  PROVE  faults' \in 0 .. MaxFaults
  BY DownloadAssumption DEF DownloadShape, Fault

-----------------------------------------------------------------------------
(***************************************************************************)
(* Steps that leave the four stores of a file and amuled alone: they only  *)
(* move the loop on, to a stage whose snapshot is empty or freshly taken.  *)
(***************************************************************************)
LEMMA IdleInv ==
  ASSUME DownloadInv, UNCHANGED fileVars, UNCHANGED mule,
         decided' \subseteq Hash, ec' \in BOOLEAN, faults' = faults \/ Fault,
         dpc' \in {"monitor", "shared", "promote", "candidates", "consider",
                   "unsent", "send", "sleep", "raised"},
         todo' \subseteq Hash,
         dpc' = "promote" =>
           \A h \in todo' : mule[h] = "shared" /\ state[h] \in Active \cup {"completed"},
         dpc' = "send" => \A h \in todo' : state[h] = "queued"
  PROVE  DownloadInv'
<1>1. faults' \in 0 .. MaxFaults
  BY FaultCounted DEF DownloadInv
<1>2. DownloadShape'
  BY <1>1 DEF DownloadInv, DownloadShape, fileVars
<1>3. SnapshotsHold'
  BY DEF SnapshotsHold, fileVars
<1>4. QED
  BY <1>2, <1>3 DEF DownloadInv, QuarantinedIsSafe, EnqueuedIsInPlace, CompletedOnEvidence,
     NoUntrackedDownload, FinishedIsSomewhere, Promotable, fileVars

(***************************************************************************)
(* Steps of amuled: a file it knows moves on, none becomes unfinished.     *)
(***************************************************************************)
LEMMA MuleInv ==
  ASSUME DownloadInv, NEW h \in Hash, MuleFinishes(h) \/ MuleDrops(h)
  PROVE  DownloadInv'
<1>1. /\ mule[h] = "queue" /\ mule \in [Hash -> {"nowhere", "queue", "shared"}]
      /\ UNCHANGED <<state, enqueued, quarantine, decided, ec, dpc, todo, faults>>
      /\ \/ mule' = [mule EXCEPT ![h] = "shared"] /\ staging' = staging \cup {h}
         \/ mule' = [mule EXCEPT ![h] = "nowhere"] /\ staging' = staging
  BY DEF MuleFinishes, MuleDrops, fileVars, DownloadInv, DownloadShape
<1>2. /\ mule' \in [Hash -> {"nowhere", "queue", "shared"}]
      /\ \A g \in Hash \ {h} : mule'[g] = mule[g]
      /\ staging \subseteq staging' /\ staging' \subseteq Hash
      /\ mule'[h] = "shared" => h \in staging'
  BY <1>1 DEF DownloadInv, DownloadShape
<1>3. DownloadShape'
  BY <1>1, <1>2 DEF DownloadInv, DownloadShape
<1>4. state[h] \notin {"absent", "completed", "quarantined"}
  BY <1>1 DEF DownloadInv, NoUntrackedDownload, CompletedOnEvidence
<1>5. CompletedOnEvidence' /\ FinishedIsSomewhere' /\ NoUntrackedDownload'
  BY <1>1, <1>2, <1>4 DEF DownloadInv, CompletedOnEvidence, FinishedIsSomewhere,
     NoUntrackedDownload, Promotable
<1>6. SnapshotsHold'
  BY <1>1, <1>2, <1>4 DEF DownloadInv, DownloadShape, SnapshotsHold
<1>7. QED
  BY <1>1, <1>3, <1>5, <1>6 DEF DownloadInv, QuarantinedIsSafe, EnqueuedIsInPlace

\* _monitor makes some queued files downloading.
LEMMA MonitorInv ==
  ASSUME DownloadInv, Monitor
  PROVE  DownloadInv'
<1>1. PICK S \in SUBSET Downloading : state' = Started(S)
  BY DEF Monitor
<1>2. /\ dpc' = "shared" /\ todo' = {} /\ faults' \in 0 .. MaxFaults
      /\ UNCHANGED <<enqueued, staging, quarantine, decided, mule, ec>>
  BY FaultCounted DEF Monitor, Goto, envVars, DownloadInv
<1>3. /\ state' \in [Hash -> States]
      /\ \A h \in Hash : \/ state'[h] = state[h]
                         \/ state'[h] = "downloading" /\ state[h] = "queued"
  BY <1>1 DEF Started, Downloading, DownloadInv, DownloadShape, States, Active
<1>4. DownloadShape'
  BY <1>2, <1>3 DEF DownloadInv, DownloadShape
<1>5. SnapshotsHold'
  BY <1>2 DEF SnapshotsHold
<1>6. QED
  BY <1>2, <1>3, <1>4, <1>5 DEF DownloadInv, QuarantinedIsSafe, EnqueuedIsInPlace,
     CompletedOnEvidence, NoUntrackedDownload, FinishedIsSomewhere, Promotable

(***************************************************************************)
(* The outcomes of _promote_completion.  Whatever was written, the file is *)
(* in one of the directories, and it was moved before it was enqueued and  *)
(* enqueued before its row became quarantined.                             *)
(***************************************************************************)
LEMMA PromoteInv ==
  ASSUME DownloadInv, NEW h \in Hash, PromoteQuietly(h) \/ AskVerification(h)
  PROVE  DownloadInv'
<1>1. /\ h \in todo /\ dpc = "promote" /\ dpc' = "promote" /\ todo' = todo \ {h}
      /\ UNCHANGED <<decided, mule, ec>>
      /\ faults' \in 0 .. MaxFaults
  BY FaultCounted DEF PromoteQuietly, AskVerification, SkipBadName, Promote, PromoteUnmarked,
     PromoteUnmoved, PromoteUnqueued, PromoteUnsettled, Promoting, Goto, envVars, DownloadInv
<1>2. mule[h] = "shared" /\ Promotable(h) /\ state[h] \in Active \cup {"completed"}
  BY <1>1 DEF DownloadInv, SnapshotsHold, FinishedIsSomewhere
<1>3. /\ \/ UNCHANGED <<staging, quarantine>>
         \/ staging' = staging \ {h} /\ quarantine' = quarantine \cup {h}
      /\ \/ UNCHANGED enqueued
         \/ enqueued' = enqueued \cup {h} /\ h \in quarantine'
      /\ \/ UNCHANGED state
         \/ Mark(h, "completed")
         \/ Mark(h, "quarantined") /\ h \in quarantine' /\ h \in enqueued'
  BY DEF PromoteQuietly, AskVerification, SkipBadName, Promote, PromoteUnmarked,
     PromoteUnmoved, PromoteUnqueued, PromoteUnsettled, Promoting, Move, fileVars
<1>4. /\ state' \in [Hash -> States]
      /\ \A g \in Hash \ {h} : state'[g] = state[g]
      /\ \/ state'[h] = state[h]
         \/ state'[h] = "completed"
         \/ state'[h] = "quarantined" /\ h \in quarantine' /\ h \in enqueued'
  <2>1. /\ state \in [Hash -> States]
        /\ "completed" \in States /\ "quarantined" \in States
    BY DEF DownloadInv, DownloadShape, States, Terminal
  <2>2. CASE UNCHANGED state
    BY <2>1, <2>2
  <2>3. CASE Mark(h, "completed")
    BY <2>1, <2>3, MarkedRow
  <2>4. CASE Mark(h, "quarantined") /\ h \in quarantine' /\ h \in enqueued'
    BY <2>1, <2>4, MarkedRow
  <2>5. QED
    BY <1>3, <2>2, <2>3, <2>4
<1>5. DownloadShape'
  BY <1>1, <1>3, <1>4 DEF DownloadInv, DownloadShape
<1>6. QuarantinedIsSafe'
  BY <1>2, <1>3, <1>4 DEF DownloadInv, QuarantinedIsSafe, Active
<1>7. EnqueuedIsInPlace'
  BY <1>3 DEF DownloadInv, EnqueuedIsInPlace
<1>8. FinishedIsSomewhere'
  BY <1>1, <1>3 DEF DownloadInv, FinishedIsSomewhere, Promotable
<1>9. CompletedOnEvidence'
  BY <1>1, <1>2, <1>4, <1>8 DEF DownloadInv, CompletedOnEvidence, FinishedIsSomewhere
<1>10. NoUntrackedDownload'
  BY <1>1, <1>2, <1>4 DEF DownloadInv, NoUntrackedDownload
<1>11. SnapshotsHold'
  BY <1>1, <1>4 DEF DownloadInv, DownloadShape, SnapshotsHold
<1>12. QED
  BY <1>5, <1>6, <1>7, <1>8, <1>9, <1>10, <1>11 DEF DownloadInv

\* A candidate gets its row, or is left alone.
LEMMA ConsiderInv ==
  ASSUME DownloadInv, NEW h \in Hash, Consider(h)
  PROVE  DownloadInv'
<1>1. /\ dpc' = "consider" /\ todo' \subseteq Hash
      /\ UNCHANGED <<enqueued, staging, quarantine, decided, mule, ec, faults>>
      /\ UNCHANGED state \/ (Mark(h, "queued") /\ state[h] = "absent")
  BY DEF Consider, Goto, DownloadPolicy, envVars, DownloadInv, DownloadShape
<1>2. /\ state' \in [Hash -> States]
      /\ \A g \in Hash : state'[g] = state[g] \/ (state'[g] = "queued" /\ state[g] = "absent")
  BY <1>1, MarkedRow DEF DownloadInv, DownloadShape, States, Active
<1>3. DownloadShape'
  BY <1>1, <1>2 DEF DownloadInv, DownloadShape
<1>4. SnapshotsHold'
  BY <1>1 DEF SnapshotsHold
<1>5. QED
  BY <1>1, <1>2, <1>3, <1>4 DEF DownloadInv, QuarantinedIsSafe, EnqueuedIsInPlace,
     CompletedOnEvidence, NoUntrackedDownload, FinishedIsSomewhere, Promotable

\* A link is only sent for a queued file, and only a queued file can fail.
LEMMA SendInv ==
  ASSUME DownloadInv, NEW h \in Hash, SendLink(h) \/ LinkRefused(h) \/ AnswerLost(h)
  PROVE  DownloadInv'
<1>1. /\ dpc = "send" /\ h \in todo /\ state[h] = "queued"
      /\ UNCHANGED <<enqueued, staging, quarantine, decided>>
      /\ ec' \in BOOLEAN /\ faults' \in 0 .. MaxFaults
      /\ (dpc' = "send" /\ todo' = todo \ {h}) \/ (dpc' = "sleep" /\ todo' = {})
      /\ mule' = Accepted(h) \/ UNCHANGED mule
      /\ UNCHANGED state \/ Mark(h, "failed")
  BY FaultCounted DEF SendLink, LinkRefused, AnswerLost, Sending, Goto, DownloadInv,
     DownloadShape, SnapshotsHold
<1>2. /\ mule' \in [Hash -> {"nowhere", "queue", "shared"}]
      /\ \A g \in Hash : \/ mule'[g] = mule[g]
                         \/ g = h /\ mule'[g] = "queue" /\ mule[g] = "nowhere"
  BY <1>1 DEF Accepted, DownloadInv, DownloadShape
<1>3. /\ state' \in [Hash -> States]
      /\ \A g \in Hash \ {h} : state'[g] = state[g]
      /\ state'[h] \in {"queued", "failed"}
  BY <1>1, MarkedRow DEF DownloadInv, DownloadShape, States, Active, Terminal
<1>4. DownloadShape'
  BY <1>1, <1>2, <1>3 DEF DownloadInv, DownloadShape
<1>5. SnapshotsHold'
  BY <1>1, <1>3 DEF DownloadInv, DownloadShape, SnapshotsHold
<1>6. CompletedOnEvidence' /\ FinishedIsSomewhere' /\ NoUntrackedDownload'
  BY <1>1, <1>2, <1>3 DEF DownloadInv, CompletedOnEvidence, FinishedIsSomewhere,
     NoUntrackedDownload, Promotable
<1>7. QED
  BY <1>1, <1>3, <1>4, <1>5, <1>6 DEF DownloadInv, QuarantinedIsSafe, EnqueuedIsInPlace

-----------------------------------------------------------------------------
\* The invariant is inductive: one step per action of the loop.
LEMMA DownloadInvStep == DownloadInv /\ [DownloadNext]_downloadVars => DownloadInv'
<1>. SUFFICES ASSUME DownloadInv, [DownloadNext]_downloadVars PROVE DownloadInv'
  OBVIOUS
<1>1. ASSUME NEW h \in Hash, AskVerification(h) PROVE DownloadInv'
  BY <1>1, PromoteInv
<1>2. ASSUME NEW h \in Hash, PromoteQuietly(h) PROVE DownloadInv'
  BY <1>2, PromoteInv
<1>3. ASSUME NEW h \in Hash, Consider(h) PROVE DownloadInv'
  BY <1>3, ConsiderInv
<1>4. ASSUME NEW h \in Hash, SendLink(h) \/ LinkRefused(h) \/ AnswerLost(h) PROVE DownloadInv'
  BY <1>4, SendInv
<1>5. CASE Monitor
  BY <1>5, MonitorInv
<1>6. CASE ReadShared
  <2>1. /\ UNCHANGED fileVars /\ UNCHANGED mule /\ faults' = faults
        /\ decided' \subseteq Hash /\ ec' \in BOOLEAN /\ dpc' = "promote"
        /\ todo' = {h \in Hash : mule[h] = "shared" /\ state[h] \notin {"absent"} \cup Terminal}
    BY <1>6 DEF ReadShared, Goto, envVars, DownloadInv, DownloadShape
  <2>2. \A h \in todo' : mule[h] = "shared" /\ state[h] \in Active \cup {"completed"}
    BY <2>1 DEF DownloadInv, DownloadShape, States
  <2>3. QED
    BY <2>1, <2>2, IdleInv
<1>7. CASE ReadCandidates
  BY <1>7, IdleInv DEF ReadCandidates, Goto, envVars, DownloadInv, DownloadShape
<1>8. CASE ReadUnsent
  BY <1>8, IdleInv DEF ReadUnsent, Goto, envVars, DownloadInv, DownloadShape
<1>9. CASE MonitorUnreadable \/ SharedUnreadable \/ CandidatesUnreadable \/ UnsentUnreadable
  BY <1>9, IdleInv DEF MonitorUnreadable, SharedUnreadable, CandidatesUnreadable,
     UnsentUnreadable, Goto, envVars, DownloadInv, DownloadShape
<1>10. CASE Promoted \/ Considered \/ LinksSent \/ NotConnected \/ WakeUp
  BY <1>10, IdleInv DEF Promoted, Considered, LinksSent, NotConnected, WakeUp, Goto,
     envVars, DownloadInv, DownloadShape
<1>11. CASE EcFails \/ ReadRefused \/ RestartAfterRaise \/ Crash
  BY <1>11, IdleInv DEF EcFails, ReadRefused, RestartAfterRaise, Crash, Restart, Goto,
     envVars, DownloadInv, DownloadShape
<1>12. ASSUME NEW h \in Hash, Decide(h) PROVE DownloadInv'
  <2>1. /\ UNCHANGED fileVars /\ UNCHANGED mule /\ faults' = faults
        /\ decided' \subseteq Hash
        /\ UNCHANGED <<ec, dpc, todo>>
    BY <1>12 DEF Decide, DownloadInv, DownloadShape
  <2>2. QED
    BY <2>1, IdleInv DEF DownloadInv, DownloadShape, SnapshotsHold
<1>13. ASSUME NEW h \in Hash, MuleFinishes(h) \/ MuleDrops(h) PROVE DownloadInv'
  BY <1>13, MuleInv
<1>14. CASE UNCHANGED downloadVars
  BY <1>14 DEF downloadVars, fileVars, envVars, DownloadInv, DownloadShape, QuarantinedIsSafe,
     EnqueuedIsInPlace, CompletedOnEvidence, NoUntrackedDownload, SnapshotsHold,
     FinishedIsSomewhere, Promotable
<1>15. CASE QuietStep
  BY <1>15, <1>2, <1>3, <1>4, <1>5, <1>6, <1>7, <1>8, <1>9, <1>10, <1>11 DEF QuietStep
<1>16. QED
  BY <1>1, <1>11, <1>12, <1>13, <1>14, <1>15 DEF DownloadNext, DownloadStep, DownloadEnv

THEOREM DownloadInvariant == DownloadSpec => []DownloadInv
  BY DownloadInvInit, DownloadInvStep, PTL DEF DownloadSpec

\* A row that says quarantined tells the truth about the quarantine and the queue.
THEOREM QuarantinedSafe == DownloadSpec => []QuarantinedIsSafe
<1>1. DownloadInv => QuarantinedIsSafe
  BY DEF DownloadInv
<1>2. QED
  BY <1>1, DownloadInvariant, PTL

\* Every file the verifier is asked about is in the quarantine.
THEOREM EnqueuedInPlace == DownloadSpec => []EnqueuedIsInPlace
<1>1. DownloadInv => EnqueuedIsInPlace
  BY DEF DownloadInv
<1>2. QED
  BY <1>1, DownloadInvariant, PTL

\* A completed download was finished by amuled and its file is not lost.
THEOREM CompletedEvident == DownloadSpec => []CompletedOnEvidence
<1>1. DownloadInv => CompletedOnEvidence
  BY DEF DownloadInv
<1>2. QED
  BY <1>1, DownloadInvariant, PTL

\* amuled works on no file without a row.
THEOREM AllTracked == DownloadSpec => []NoUntrackedDownload
<1>1. DownloadInv => NoUntrackedDownload
  BY DEF DownloadInv
<1>2. QED
  BY <1>1, DownloadInvariant, PTL

\* The snapshots of the promotion and of the link stage never go stale.
THEOREM SnapshotsFresh == DownloadSpec => []SnapshotsHold
<1>1. DownloadInv => SnapshotsHold
  BY DEF DownloadInv
<1>2. QED
  BY <1>1, DownloadInvariant, PTL

-----------------------------------------------------------------------------
(***************************************************************************)
(* That the life of a download only goes forward.                          *)
(***************************************************************************)
Forward ==
  \A h \in Hash : state'[h] = state[h] \/ state'[h] \in Successors[state[h]]

LEMMA ForwardStep == DownloadInv /\ [DownloadNext]_downloadVars => [Forward]_downloadVars
<1>. SUFFICES ASSUME DownloadInv, DownloadNext PROVE Forward
  BY DEF Forward, downloadVars, fileVars
<1>. state \in [Hash -> States]
  BY DEF DownloadInv, DownloadShape
<1>1. ASSUME UNCHANGED state PROVE Forward
  BY <1>1 DEF Forward
<1>2. ASSUME NEW h \in Hash, NEW s \in Successors[state[h]], s \in States, Mark(h, s) PROVE Forward
  BY <1>2, MarkedRow DEF Forward
<1>3. ASSUME NEW h \in Hash, AskVerification(h) \/ PromoteQuietly(h) PROVE Forward
  <2>1. state[h] \in {"queued", "downloading", "completed"}
    BY <1>3 DEF AskVerification, PromoteQuietly, SkipBadName, Promote, PromoteUnmarked, PromoteUnmoved,
       PromoteUnqueued, PromoteUnsettled, Promoting, DownloadInv, SnapshotsHold, Active
  <2>2. UNCHANGED state \/ Mark(h, "completed") \/ Mark(h, "quarantined")
    BY <1>3 DEF AskVerification, PromoteQuietly, SkipBadName, Promote, PromoteUnmarked, PromoteUnmoved,
       PromoteUnqueued, PromoteUnsettled, fileVars
  <2>3. CASE Mark(h, "completed")
    <3>1. CASE state[h] = "completed"
      BY <2>3, <3>1 DEF Mark, Forward
    <3>2. CASE state[h] # "completed"
      BY <2>1, <2>3, <3>2, <1>2 DEF Successors, States
    <3>3. QED
      BY <3>1, <3>2
  <2>4. CASE Mark(h, "quarantined")
    BY <2>1, <2>4, <1>2 DEF Successors, States, Terminal
  <2>5. QED
    BY <2>2, <2>3, <2>4, <1>1
<1>4. ASSUME NEW h \in Hash, Consider(h) PROVE Forward
  <2>1. UNCHANGED state \/ (Mark(h, "queued") /\ state[h] = "absent")
    BY <1>4 DEF Consider, DownloadPolicy
  <2>2. QED
    BY <2>1, <1>1, <1>2 DEF Successors, States, Active
<1>5. ASSUME NEW h \in Hash, SendLink(h) \/ LinkRefused(h) \/ AnswerLost(h) PROVE Forward
  <2>1. UNCHANGED state \/ (Mark(h, "failed") /\ state[h] = "queued")
    BY <1>5 DEF SendLink, LinkRefused, AnswerLost, Sending, DownloadInv, SnapshotsHold
  <2>2. QED
    BY <2>1, <1>1, <1>2 DEF Successors, States, Terminal
<1>6. CASE Monitor
  <2>1. PICK S \in SUBSET Downloading : state' = Started(S)
    BY <1>6 DEF Monitor
  <2>2. QED
    BY <2>1 DEF Started, Downloading, Forward, Successors
<1>7. CASE QuietStep
  BY <1>7, <1>1, <1>3, <1>4, <1>5, <1>6 DEF QuietStep, MonitorUnreadable, ReadShared, SharedUnreadable,
     Promoted, ReadCandidates, CandidatesUnreadable, Considered, ReadUnsent, UnsentUnreadable,
     LinksSent, NotConnected, EcFails, WakeUp, fileVars
<1>8. CASE ReadRefused \/ RestartAfterRaise \/ Crash \/ DownloadEnv
  BY <1>8, <1>1 DEF ReadRefused, RestartAfterRaise, Crash, Restart, DownloadEnv, Decide,
     MuleFinishes, MuleDrops, fileVars
<1>9. QED
  BY <1>3, <1>7, <1>8 DEF DownloadNext, DownloadStep

\* No row is ever moved back, re-queued or taken out of a terminal state.
THEOREM OnlyForward == DownloadSpec => NeverRegresses
<1>1. DownloadSpec => [][Forward]_downloadVars
  BY ForwardStep, DownloadInvariant, PTL DEF DownloadSpec
<1>2. QED
  BY <1>1 DEF NeverRegresses, Forward
-----------------------------------------------------------------------------
\* But for the downloads the monitor finds started, a step changes one row.
OneAtATime ==
  \E h : \A g \in Hash \ {h} : state'[g] = state[g] \/ {state[g], state'[g]} \subseteq Active

LEMMA OneRow ==
  ASSUME DownloadInv, DownloadNext
  PROVE  OneAtATime
<1>1. ASSUME NEW h \in Hash, NEW s, UNCHANGED state \/ Mark(h, s) PROVE OneAtATime
  BY <1>1 DEF OneAtATime, Mark, DownloadInv, DownloadShape
<1>2. ASSUME UNCHANGED state PROVE OneAtATime
  BY <1>2 DEF OneAtATime
<1>3. ASSUME NEW h \in Hash, AskVerification(h) \/ PromoteQuietly(h) PROVE OneAtATime
  BY <1>1, <1>3 DEF AskVerification, PromoteQuietly, SkipBadName, Promote, PromoteUnmarked,
     PromoteUnmoved, PromoteUnqueued, PromoteUnsettled, fileVars
<1>4. ASSUME NEW h \in Hash, Consider(h) \/ SendLink(h) \/ LinkRefused(h) \/ AnswerLost(h)
      PROVE  OneAtATime
  BY <1>1, <1>4 DEF Consider, SendLink, LinkRefused, AnswerLost
<1>5. CASE Monitor
  BY <1>5 DEF Monitor, Started, Downloading, OneAtATime, Active
<1>6. CASE QuietStep
  BY <1>6, <1>2, <1>3, <1>4, <1>5 DEF QuietStep, MonitorUnreadable, ReadShared, SharedUnreadable,
     Promoted, ReadCandidates, CandidatesUnreadable, Considered, ReadUnsent, UnsentUnreadable,
     LinksSent, NotConnected, EcFails, WakeUp, fileVars
<1>7. QED
  BY <1>2, <1>3, <1>6 DEF DownloadNext, DownloadStep, ReadRefused, RestartAfterRaise, Crash,
     Restart, DownloadEnv, Decide, MuleFinishes, MuleDrops, fileVars
-----------------------------------------------------------------------------
(***************************************************************************)
(* Sums over finite sets.  SumFunctionOnSet adds the elements up in an     *)
(* order that CHOOSE picks; what makes it a sum is that any element can be *)
(* taken out of it first (SumWithout).  The inductions are over the        *)
(* smallest counterexample.                                                *)
(***************************************************************************)
\* Induction over a finite set, as its smallest counterexample.
LEMMA SmallestSet ==
  ASSUME NEW S, IsFiniteSet(S), NEW B \in SUBSET SUBSET S, B # {}
  PROVE  \E T \in B : \A U \in B : U \subseteq T => U = T
<1>1. IsWellFoundedOn(StrictSubsetOrdering(S), SUBSET S)
  BY FS_StrictSubsetOrderingWellFounded, FS_FiniteSubsetsOfFinite
<1>2. PICK T \in B : \A U \in B : ~(<<U, T>> \in StrictSubsetOrdering(S))
  BY <1>1, WFMin
<1>3. \A U \in B : U \subseteq T => U = T
  BY <1>2 DEF StrictSubsetOrdering
<1>4. QED
  BY <1>3

Some(s) == CHOOSE x \in s : TRUE

\* g has the sums of f over the sets of a family, built up one element at a time.
AddsUp(g, f, family) ==
  g = [s \in family |-> IF s = {} THEN 0 ELSE f[Some(s)] + g[s \ {Some(s)}]]

LEMMA SumIsChosen ==
  ASSUME NEW f, NEW S
  PROVE  SumFunctionOnSet(f, S) = (CHOOSE g : AddsUp(g, f, SUBSET S))[S]
  BY DEF SumFunctionOnSet, FoldFunctionOnSet, MapThenFoldSet, AddsUp, Some

LEMMA SmallestNumber ==
  ASSUME NEW B \in SUBSET Nat, B # {}
  PROVE  \E n \in B : \A m \in B : n <= m
<1> DEFINE less == {p \in Nat \X Nat : p[1] < p[2]}
<1>1. IsWellFoundedOn(less, Nat)
  BY NatLessThanWellFounded DEF OpToRel
<1>2. PICK n \in B : \A m \in B : ~(<<m, n>> \in less)
  BY <1>1, WFMin
<1>3. ASSUME NEW m \in B PROVE n <= m
  <2>1. <<m, n>> \in Nat \X Nat /\ <<m, n>> \notin less
    BY <1>2
  <2>2. ~(m < n)
    BY <2>1
  <2>3. QED
    BY <2>2
<1>4. QED
  BY <1>3

\* The sums over the sets of at most n elements can be built up.
Small(S, n) == {T \in SUBSET S : Cardinality(T) <= n}

LEMMA SumsExist ==
  ASSUME NEW f, NEW S, IsFiniteSet(S)
  PROVE  \E g : AddsUp(g, f, SUBSET S)
<1> DEFINE Fails == {n \in Nat : ~\E g : AddsUp(g, f, Small(S, n))}
<1>1. \A T \in SUBSET S : IsFiniteSet(T) /\ Cardinality(T) \in Nat
  BY FS_Subset, FS_CardinalityType
<1>2. 0 \notin Fails
  <2>1. Small(S, 0) = {{}}
    BY <1>1, FS_EmptySet DEF Small
  <2> DEFINE g == [s \in {{}} |-> 0]
  <2>2. AddsUp(g, f, {{}})
    BY DEF AddsUp
  <2>3. QED
    BY <2>1, <2>2
<1>3. ASSUME NEW n \in Nat, n \notin Fails PROVE n + 1 \notin Fails
  <2>1. PICK g : AddsUp(g, f, Small(S, n))
    BY <1>3
  <2> DEFINE h == [s \in Small(S, n + 1) |-> IF s = {} THEN 0 ELSE f[Some(s)] + g[s \ {Some(s)}]]
  <2>2. \A s \in Small(S, n + 1) : s # {} => s \ {Some(s)} \in Small(S, n)
    <3>1. ASSUME NEW s \in Small(S, n + 1), s # {} PROVE s \ {Some(s)} \in Small(S, n)
      <4>1. Some(s) \in s /\ IsFiniteSet(s) /\ Cardinality(s) <= n + 1 /\ s \in SUBSET S
        BY <1>1, <3>1 DEF Some, Small
      <4>2. Cardinality(s \ {Some(s)}) = Cardinality(s) - 1
        BY <4>1, FS_RemoveElement
      <4>3. QED
        BY <1>1, <4>1, <4>2 DEF Small
    <3>2. QED
      BY <3>1
  <2>3. Small(S, n) \subseteq Small(S, n + 1)
    BY <1>1 DEF Small
  <2>4. \A s \in Small(S, n) : g[s] = IF s = {} THEN 0 ELSE f[Some(s)] + g[s \ {Some(s)}]
    BY <2>1 DEF AddsUp
  <2>5. \A s \in Small(S, n) : h[s] = g[s]
    BY <2>3, <2>4
  <2>6. h = [s \in Small(S, n + 1) |-> IF s = {} THEN 0 ELSE f[Some(s)] + h[s \ {Some(s)}]]
    BY <2>2, <2>5
  <2>7. AddsUp(h, f, Small(S, n + 1))
    BY <2>6 DEF AddsUp
  <2>8. QED
    BY <2>7
<1>4. Fails = {}
  <2>1. SUFFICES ASSUME Fails # {} PROVE FALSE
    OBVIOUS
  <2>2. PICK n \in Fails : \A m \in Fails : n <= m
    BY <2>1, SmallestNumber
  <2>3. n \in Nat /\ n # 0
    BY <1>2
  <2>4. n - 1 \in Nat /\ n - 1 \notin Fails
    BY <2>2, <2>3
  <2>5. (n - 1) + 1 \notin Fails
    BY <1>3, <2>4
  <2>6. QED
    BY <2>3, <2>5
<1>5. Small(S, Cardinality(S)) = SUBSET S /\ Cardinality(S) \in Nat
  BY FS_Subset, FS_CardinalityType DEF Small
<1>6. QED
  BY <1>4, <1>5

\* Two ways to add up agree on the sets they share.
LEMMA SumsAgree ==
  ASSUME NEW f, NEW S, NEW T \in SUBSET S, IsFiniteSet(T), NEW g, NEW h,
         AddsUp(g, f, SUBSET S), AddsUp(h, f, SUBSET T)
  PROVE  g[T] = h[T]
<1> DEFINE Differ == {U \in SUBSET T : g[U] # h[U]}
<1>1. SUFFICES ASSUME Differ # {} PROVE FALSE
  OBVIOUS
<1>2. Differ \in SUBSET SUBSET T
  OBVIOUS
<1>3. PICK U \in Differ : \A W \in Differ : W \subseteq U => W = U
  <2> HIDE DEF Differ
  <2>1. QED
    BY <1>1, <1>2, SmallestSet
<1>4. /\ g[U] = IF U = {} THEN 0 ELSE f[Some(U)] + g[U \ {Some(U)}]
      /\ h[U] = IF U = {} THEN 0 ELSE f[Some(U)] + h[U \ {Some(U)}]
  BY DEF AddsUp
<1>5. U # {} => Some(U) \in U
  BY DEF Some
<1>6. U # {} => g[U \ {Some(U)}] = h[U \ {Some(U)}]
  BY <1>3, <1>5
<1>7. QED
  BY <1>4, <1>6

LEMMA SumStep ==
  ASSUME NEW f, NEW S, IsFiniteSet(S)
  PROVE  SumFunctionOnSet(f, S) =
           IF S = {} THEN 0 ELSE f[Some(S)] + SumFunctionOnSet(f, S \ {Some(S)})
<1> DEFINE g == CHOOSE g : AddsUp(g, f, SUBSET S)
           T == S \ {Some(S)}
           h == CHOOSE h : AddsUp(h, f, SUBSET T)
<1>1. AddsUp(g, f, SUBSET S) /\ SumFunctionOnSet(f, S) = g[S]
  BY SumsExist, SumIsChosen
<1>2. T \in SUBSET S /\ IsFiniteSet(T)
  BY FS_Subset
<1>3. AddsUp(h, f, SUBSET T) /\ SumFunctionOnSet(f, T) = h[T]
  BY <1>2, SumsExist, SumIsChosen
<1> HIDE DEF g, h
<1>4. g[S] = IF S = {} THEN 0 ELSE f[Some(S)] + g[T]
  BY <1>1 DEF AddsUp
<1>5. g[T] = h[T]
  BY <1>1, <1>2, <1>3, SumsAgree
<1>6. QED
  BY <1>1, <1>3, <1>4, <1>5

LEMMA SumIsNatural ==
  ASSUME NEW f, NEW S, IsFiniteSet(S), \A x \in S : f[x] \in Nat
  PROVE  SumFunctionOnSet(f, S) \in Nat
<1> DEFINE Bad == {T \in SUBSET S : SumFunctionOnSet(f, T) \notin Nat}
<1>1. SUFFICES ASSUME Bad # {} PROVE FALSE
  OBVIOUS
<1>2. PICK T \in Bad : \A U \in Bad : U \subseteq T => U = T
  <2>1. Bad \in SUBSET SUBSET S
    OBVIOUS
  <2> HIDE DEF Bad
  <2>2. QED
    BY <1>1, <2>1, SmallestSet
<1>3. SumFunctionOnSet(f, T) =
        IF T = {} THEN 0 ELSE f[Some(T)] + SumFunctionOnSet(f, T \ {Some(T)})
  BY FS_Subset, SumStep
<1>4. ASSUME T # {}
      PROVE  f[Some(T)] \in Nat /\ SumFunctionOnSet(f, T \ {Some(T)}) \in Nat
  <2>1. Some(T) \in T /\ T \in SUBSET S
    BY <1>4 DEF Some
  <2>2. QED
    BY <1>2, <2>1
<1>5. SumFunctionOnSet(f, T) \in Nat
  BY <1>3, <1>4
<1>6. QED
  BY <1>5

\* Any element can be taken out of a sum first.
LEMMA SumWithout ==
  ASSUME NEW f, NEW S, IsFiniteSet(S), \A x \in S : f[x] \in Nat, NEW x \in S
  PROVE  SumFunctionOnSet(f, S) = f[x] + SumFunctionOnSet(f, S \ {x})
<1> DEFINE Sum(T) == SumFunctionOnSet(f, T)
           Bad == {T \in SUBSET S : \E z \in T : Sum(T) # f[z] + Sum(T \ {z})}
<1>1. SUFFICES ASSUME Bad # {} PROVE FALSE
  OBVIOUS
<1>2. PICK T \in Bad : \A U \in Bad : U \subseteq T => U = T
  <2>1. Bad \in SUBSET SUBSET S
    OBVIOUS
  <2> HIDE DEF Bad
  <2>2. QED
    BY <1>1, <2>1, SmallestSet
<1>3. PICK z \in T : Sum(T) # f[z] + Sum(T \ {z})
  OBVIOUS
<1> DEFINE y == Some(T)
<1>4. y \in T /\ T \in SUBSET S
  BY DEF Some
<1>5. Sum(T) = f[y] + Sum(T \ {y})
  BY <1>4, FS_Subset, SumStep
<1> HIDE DEF y
<1>6. y # z
  BY <1>3, <1>5
<1>7. Sum(T \ {y}) = f[z] + Sum((T \ {y}) \ {z})
  <2>1. T \ {y} \notin Bad
    BY <1>2, <1>4
  <2>2. QED
    BY <1>4, <1>6, <2>1
<1>8. Sum(T \ {z}) = f[y] + Sum((T \ {z}) \ {y})
  <2>1. T \ {z} \notin Bad
    BY <1>2, <1>4
  <2>2. QED
    BY <1>4, <1>6, <2>1
<1>9. (T \ {y}) \ {z} = (T \ {z}) \ {y}
  OBVIOUS
<1>10. /\ f[y] \in Nat /\ f[z] \in Nat
       /\ Sum((T \ {y}) \ {z}) \in Nat
  <2>1. (T \ {y}) \ {z} \in SUBSET S
    BY <1>4
  <2>2. QED
    BY <1>4, <2>1, FS_Subset, SumIsNatural
<1> HIDE DEF Sum
<1>11. QED
  BY <1>3, <1>5, <1>7, <1>8, <1>9, <1>10

LEMMA SumWith ==
  ASSUME NEW f, NEW S, IsFiniteSet(S), NEW x, x \notin S, \A y \in S \cup {x} : f[y] \in Nat
  PROVE  SumFunctionOnSet(f, S \cup {x}) = f[x] + SumFunctionOnSet(f, S)
<1>1. IsFiniteSet(S \cup {x}) /\ (S \cup {x}) \ {x} = S
  BY FS_AddElement
<1>2. QED
  BY <1>1, SumWithout

-----------------------------------------------------------------------------
(***************************************************************************)
(* That the cap holds: what the candidate stage counts in memory stays the *)
(* sum over the table, since no other step makes a file active or, while   *)
(* the stage runs, takes one out.                                          *)
(***************************************************************************)
CapInv == IsFiniteSet(ActiveFiles) /\ CapRespected

\* Steps that make no file active or inactive.
LEMMA CapKept ==
  ASSUME CapInv, ActiveFiles' = ActiveFiles,
         dpc' = "consider" => \/ dpc = "consider" /\ committed' = committed
                              \/ committed' = CommittedBytes
  PROVE  CapInv'
  BY DEF CapInv, CapRespected, CommittedBytes

\* Without one of its files a set of files is no larger.
LEMMA FewerBytes ==
  ASSUME NEW S \in SUBSET Hash, IsFiniteSet(S), NEW h,
         SumFunctionOnSet(Size, S) <= DiskCap
  PROVE  SumFunctionOnSet(Size, S \ {h}) <= DiskCap
<1>1. CASE h \notin S
  <2>1. S \ {h} = S
    BY <1>1
  <2>2. QED
    BY <2>1
<1>2. CASE h \in S
  <2>1. \A x \in S : Size[x] \in Nat
    BY DownloadAssumption
  <2>2. SumFunctionOnSet(Size, S) = Size[h] + SumFunctionOnSet(Size, S \ {h})
    BY <1>2, <2>1, SumWithout
  <2>3. SumFunctionOnSet(Size, S \ {h}) \in Nat
    BY <2>1, FS_Subset, SumIsNatural
  <2>4. QED
    BY <1>2, <2>1, <2>2, <2>3, DownloadAssumption
<1>3. QED
  BY <1>1, <1>2

\* Steps that end the activity of a file, none of them of the candidate stage.
LEMMA CapLess ==
  ASSUME CapInv, NEW h, ActiveFiles' = ActiveFiles \ {h}, dpc' # "consider"
  PROVE  CapInv'
<1>1. IsFiniteSet(ActiveFiles')
  BY FS_Subset DEF CapInv
<1>2. CommittedBytes' <= DiskCap
  BY FewerBytes DEF CapInv, CapRespected, CommittedBytes, ActiveFiles
<1>3. QED
  BY <1>1, <1>2 DEF CapInv, CapRespected

\* A row that changes makes its file active, ends its activity, or neither.
LEMMA MarkedActive ==
  ASSUME state \in [Hash -> States], NEW h \in Hash, NEW s \in States, Mark(h, s)
  PROVE  ActiveFiles' = IF s \in Active THEN ActiveFiles \cup {h} ELSE ActiveFiles \ {h}
  BY MarkedRow DEF ActiveFiles

LEMMA CapPromote ==
  ASSUME DownloadInv, CapInv, NEW h \in Hash, PromoteQuietly(h) \/ AskVerification(h)
  PROVE  CapInv'
<1>1. /\ state \in [Hash -> States]
      /\ "completed" \in States /\ "quarantined" \in States
      /\ "completed" \notin Active /\ "quarantined" \notin Active
  BY DEF DownloadInv, DownloadShape, States, Terminal, Active
<1>2. dpc' = "promote" /\ (UNCHANGED state \/ Mark(h, "completed") \/ Mark(h, "quarantined"))
  BY DEF PromoteQuietly, AskVerification, SkipBadName, Promote, PromoteUnmarked,
     PromoteUnmoved, PromoteUnqueued, PromoteUnsettled, Promoting, Goto, fileVars
<1>3. CASE UNCHANGED state
  BY <1>2, <1>3, CapKept DEF ActiveFiles
<1>4. CASE Mark(h, "completed") \/ Mark(h, "quarantined")
  <2>1. ActiveFiles' = ActiveFiles \ {h}
    BY <1>1, <1>4, MarkedActive
  <2>2. QED
    BY <1>2, <2>1, CapLess
<1>5. QED
  BY <1>2, <1>3, <1>4

\* The policy takes a file only if its bytes still fit, and counts them.
LEMMA CapConsider ==
  ASSUME DownloadInv, CapInv, NEW h \in Hash, Consider(h)
  PROVE  CapInv'
<1>1. dpc = "consider" /\ committed = CommittedBytes
  BY DEF Consider, CapInv, CapRespected
<1>2. CASE ~DownloadPolicy(h)
  BY <1>1, <1>2, CapKept DEF Consider, ActiveFiles
<1>3. CASE DownloadPolicy(h)
  <2>1. /\ state[h] = "absent" /\ committed + Size[h] <= DiskCap
        /\ Mark(h, "queued") /\ committed' = committed + Size[h]
    BY <1>3 DEF Consider, DownloadPolicy
  <2>2. ActiveFiles' = ActiveFiles \cup {h} /\ h \notin ActiveFiles
    BY <2>1, MarkedActive DEF DownloadInv, DownloadShape, States, Active, ActiveFiles
  <2>3. IsFiniteSet(ActiveFiles')
    BY <2>2, FS_AddElement DEF CapInv
  <2>4. \A g \in ActiveFiles \cup {h} : Size[g] \in Nat
    BY DownloadAssumption DEF ActiveFiles
  <2>5. CommittedBytes' = Size[h] + CommittedBytes
    BY <2>2, <2>4, SumWith DEF CapInv, CommittedBytes
  <2>6. CommittedBytes \in Nat
    BY <2>4, SumIsNatural DEF CapInv, CommittedBytes
  <2>7. CommittedBytes' = committed' /\ CommittedBytes' <= DiskCap
    BY <1>1, <2>1, <2>4, <2>5, <2>6
  <2>8. QED
    BY <2>3, <2>7 DEF CapInv, CapRespected
<1>4. QED
  BY <1>2, <1>3

LEMMA CapSend ==
  ASSUME DownloadInv, CapInv, NEW h \in Hash, SendLink(h) \/ LinkRefused(h) \/ AnswerLost(h)
  PROVE  CapInv'
<1>1. dpc' # "consider" /\ (UNCHANGED state \/ Mark(h, "failed"))
  BY DEF SendLink, LinkRefused, AnswerLost, Sending, Goto
<1>2. CASE UNCHANGED state
  BY <1>1, <1>2, CapKept DEF ActiveFiles
<1>3. CASE Mark(h, "failed")
  <2>1. ActiveFiles' = ActiveFiles \ {h}
    BY <1>3, MarkedActive DEF DownloadInv, DownloadShape, States, Terminal, Active
  <2>2. QED
    BY <1>1, <2>1, CapLess
<1>4. QED
  BY <1>1, <1>2, <1>3

LEMMA CapMonitor ==
  ASSUME DownloadInv, CapInv, Monitor
  PROVE  CapInv'
<1>1. PICK S \in SUBSET Downloading : state' = Started(S)
  BY DEF Monitor
<1>2. ActiveFiles' = ActiveFiles
  BY <1>1 DEF Started, Downloading, ActiveFiles, Active
<1>3. QED
  BY <1>2, CapKept DEF Monitor, Goto

LEMMA CapStep == DownloadInv /\ CapInv /\ [DownloadNext]_downloadVars => CapInv'
<1>. SUFFICES ASSUME DownloadInv, CapInv, [DownloadNext]_downloadVars PROVE CapInv'
  OBVIOUS
<1>1. ASSUME UNCHANGED state,
             dpc' = "consider" => \/ dpc = "consider" /\ committed' = committed
                                  \/ committed' = CommittedBytes
      PROVE  CapInv'
  BY <1>1, CapKept DEF ActiveFiles
<1>2. ASSUME NEW h \in Hash, AskVerification(h) \/ PromoteQuietly(h) PROVE CapInv'
  BY <1>2, CapPromote
<1>3. ASSUME NEW h \in Hash, Consider(h) PROVE CapInv'
  BY <1>3, CapConsider
<1>4. ASSUME NEW h \in Hash, SendLink(h) \/ LinkRefused(h) \/ AnswerLost(h) PROVE CapInv'
  BY <1>4, CapSend
<1>5. CASE Monitor
  BY <1>5, CapMonitor
<1>6. CASE \/ MonitorUnreadable \/ ReadShared \/ SharedUnreadable \/ Promoted
           \/ ReadCandidates \/ CandidatesUnreadable \/ Considered
           \/ ReadUnsent \/ UnsentUnreadable \/ LinksSent
           \/ NotConnected \/ EcFails \/ WakeUp
           \/ ReadRefused \/ RestartAfterRaise \/ Crash
  BY <1>1, <1>6 DEF MonitorUnreadable, ReadShared, SharedUnreadable, Promoted, ReadCandidates,
     CandidatesUnreadable, Considered, ReadUnsent, UnsentUnreadable, LinksSent, NotConnected,
     EcFails, WakeUp, ReadRefused, RestartAfterRaise, Crash, Restart, Goto, fileVars
<1>7. CASE DownloadEnv \/ UNCHANGED downloadVars
  BY <1>1, <1>7 DEF DownloadEnv, Decide, MuleFinishes, MuleDrops, downloadVars, fileVars
<1>8. QED
  BY <1>2, <1>3, <1>4, <1>5, <1>6, <1>7 DEF DownloadNext, DownloadStep, QuietStep

\* The active downloads never exceed the disk cap, however many candidates a
\* cycle takes and wherever errors and crashes end it.
THEOREM CapHolds == DownloadSpec => []CapRespected
<1>1. DownloadInit => CapInv
  <2>1. SUFFICES ASSUME DownloadInit PROVE CapInv
    OBVIOUS
  <2>2. ActiveFiles = {} /\ dpc # "consider"
    BY <2>1 DEF DownloadInit, ActiveFiles, Active
  <2>3. IsFiniteSet(ActiveFiles) /\ CommittedBytes = 0
    BY <2>2, FS_EmptySet, SumStep DEF CommittedBytes
  <2>4. QED
    BY <2>2, <2>3, DownloadAssumption DEF CapInv, CapRespected
<1>2. DownloadSpec => []CapInv
  BY <1>1, CapStep, DownloadInvariant, PTL DEF DownloadSpec
<1>3. CapInv => CapRespected
  BY DEF CapInv
<1>4. QED
  BY <1>2, <1>3, PTL

\* A step of the loop or of its environment counts at most one fault.
LEMMA AtMostOneFault == DownloadNext => faults' = faults \/ Fault
<1>. SUFFICES ASSUME DownloadNext PROVE faults' = faults \/ Fault
  OBVIOUS
<1>1. CASE \E h \in Hash : AskVerification(h) \/ PromoteQuietly(h)
  BY <1>1 DEF AskVerification, PromoteQuietly, SkipBadName, Promote, PromoteUnmarked,
     PromoteUnmoved, PromoteUnqueued, PromoteUnsettled
<1>2. CASE \E h \in Hash : Consider(h) \/ SendLink(h) \/ LinkRefused(h) \/ AnswerLost(h)
  BY <1>2 DEF Consider, SendLink, LinkRefused, AnswerLost
<1>3. CASE QuietStep
  BY <1>1, <1>2, <1>3 DEF QuietStep, Monitor, MonitorUnreadable, ReadShared, SharedUnreadable,
     Promoted, ReadCandidates, CandidatesUnreadable, Considered, ReadUnsent, UnsentUnreadable,
     LinksSent, NotConnected, EcFails, WakeUp
<1>4. QED
  BY <1>1, <1>3 DEF DownloadNext, DownloadStep, ReadRefused, RestartAfterRaise, Crash,
     DownloadEnv, Decide, MuleFinishes, MuleDrops
=============================================================================
