------------------------ MODULE VerifierService_proofs ------------------------
(***************************************************************************)
(* Proofs about the verifier service, for any number of requests, any      *)
(* environments and any sizes: what an answered request leaves behind.     *)
(***************************************************************************)
EXTENDS VerifierService, TLAPS

Ended == {"exited", "crashed", "killed"}

ServiceShape ==
  /\ sent \in Nat
  /\ at \in [Requests -> {"unsent", "arrived", "communicating", "reaping", "reaping again",
                          "collecting", "answered", "failed"}]
  /\ child \in [Requests -> {"none", "reading", "checking", "printed", "exited", "crashed", "killed"}]
  /\ helper \in [Requests -> {"none", "running", "killed"}]
  /\ DOMAIN scratch = Requests /\ DOMAIN result = Requests
  /\ \A r \in Requests : r > sent => at[r] = "unsent"

\* The thread of a request, its child and the helper go together: no child before
\* the spawn and none at work after the wait for it; a child is killed, and its
\* group with it, only by the deadline; a helper outlives only a child that the
\* kernel has taken.
Together(r) ==
  /\ at[r] \in {"unsent", "arrived", "failed"} => child[r] = "none" /\ ~scratch[r]
  /\ at[r] = "answered" => child[r] \in Ended \cup {"none"} /\ ~scratch[r]
  /\ at[r] \in {"reaping", "reaping again"} => result[r].timedOut
  /\ at[r] = "collecting" => child[r] \in Ended
  /\ child[r] = "none" => helper[r] = "none"
  /\ child[r] = "killed" => result[r].timedOut
  /\ result[r].timedOut => child[r] \in Ended /\ helper[r] # "running"
  /\ helper[r] = "running" => child[r] \in {"checking", "crashed"}

ServiceInv == ServiceShape /\ \A r \in Requests : Together(r)

\* A request that a step leaves alone.
Same(q) ==
  /\ at'[q] = at[q] /\ child'[q] = child[q] /\ helper'[q] = helper[q]
  /\ scratch'[q] = scratch[q] /\ result'[q] = result[q]

LEMMA SameKept == ASSUME NEW q, Together(q), Same(q) PROVE Together(q)'
  BY DEF Together, Same

LEMMA ServiceInvInit == VerifierInit => ServiceInv
  BY DEF VerifierInit, ServiceInv, ServiceShape, Together, NoResult

-----------------------------------------------------------------------------
\* The thread of a request.
LEMMA ThreadInv ==
  ASSUME ServiceInv, NEW r \in Requests, ThreadStep(r)
  PROVE  ServiceInv'
<1> USE DEF ServiceInv, parentVars, childVars, clientVars
<1>0. Together(r)
  OBVIOUS
<1>1. /\ sent' = sent /\ at[r] # "unsent" /\ at'[r] # "unsent"
      /\ ServiceShape'
      /\ \A q \in Requests \ {r} : Same(q)
      /\ Together(r)'
  <2>1. CASE RejectFile(r)
    BY <1>0, <2>1 DEF RejectFile, ServiceShape, Same, Together, Ended
  <2>2. CASE Spawn(r)
    BY <1>0, <2>2 DEF Spawn, ServiceShape, Same, Together, Ended
  <2>3. CASE SpawnFails(r)
    BY <1>0, <2>3 DEF SpawnFails, ServiceShape, Same, Together, Ended
  <2>4. CASE Communicated(r)
    BY <1>0, <2>4 DEF Communicated, HasExited, ServiceShape, Same, Together, Ended
  <2>5. CASE Deadline(r)
    BY <1>0, <2>5 DEF Deadline, HasExited, ServiceShape, Same, Together, Ended
  <2>6. CASE Reaped(r)
    BY <1>0, <2>6 DEF Reaped, HasExited, ServiceShape, Same, Together, Ended
  <2>7. CASE ReapExpires(r)
    BY <1>0, <2>7 DEF ReapExpires, HasExited, ServiceShape, Same, Together, Ended
  <2>8. CASE Collect(r)
    BY <1>0, <2>8 DEF Collect, ServiceShape, Same, Together, Ended
  <2>9. QED
    BY <2>1, <2>2, <2>3, <2>4, <2>5, <2>6, <2>7, <2>8 DEF ThreadStep
<1>2. QED
  BY <1>1, SameKept

\* The child at work, while its thread waits for it.
LEMMA ChildInv ==
  ASSUME ServiceInv, NEW r \in Requests, ChildStep(r)
  PROVE  ServiceInv'
<1> USE DEF ServiceInv, parentVars, childVars, clientVars
<1>0. Together(r)
  OBVIOUS
<1>1. /\ UNCHANGED <<sent, at, scratch, result>>
      /\ child[r] \in {"reading", "checking", "printed"}
      /\ child' \in [Requests -> {"none", "reading", "checking", "printed", "exited", "crashed", "killed"}]
      /\ helper' \in [Requests -> {"none", "running", "killed"}]
      /\ \A q \in Requests \ {r} : child'[q] = child[q] /\ helper'[q] = helper[q]
      /\ child'[r] \in {"checking", "printed", "exited", "crashed"}
      /\ helper'[r] = "running" => child'[r] = "checking"
  <2>1. CASE RefuseFile(r)
    BY <1>0, <2>1 DEF RefuseFile, ServiceShape, Together
  <2>2. CASE ReadHeader(r)
    BY <1>0, <2>2 DEF ReadHeader, ServiceShape, Together
  <2>3. CASE SniffType(r)
    BY <1>0, <2>3 DEF SniffType, HasNextCheck, ServiceShape, Together
  <2>4. CASE StartHelper(r)
    BY <1>0, <2>4 DEF StartHelper, HasNextCheck, ServiceShape, Together
  <2>5. CASE HelperEnds(r)
    BY <1>0, <2>5 DEF HelperEnds, ServiceShape, Together
  <2>6. CASE ChildCrashes(r)
    BY <1>0, <2>6 DEF ChildCrashes, ServiceShape, Together
  <2>7. CASE PrintVerdict(r)
    BY <1>0, <2>7 DEF PrintVerdict, ServiceShape, Together
  <2>8. CASE ExitChild(r)
    BY <1>0, <2>8 DEF ExitChild, ServiceShape, Together
  <2>9. QED
    BY <2>1, <2>2, <2>3, <2>4, <2>5, <2>6, <2>7, <2>8 DEF ChildStep
<1>2. /\ ServiceShape'
      /\ \A q \in Requests \ {r} : Same(q)
  BY <1>1 DEF ServiceShape, Same
<1>3. at'[r] = at[r] /\ scratch'[r] = scratch[r] /\ result'[r] = result[r]
  BY <1>1
<1>4. child[r] \in {"reading", "checking", "printed"}
  BY <1>1
<1>5. at[r] \notin {"unsent", "arrived", "failed", "answered", "collecting"} /\ ~result[r].timedOut
  BY <1>0, <1>4 DEF Together, Ended
<1>6. Together(r)'
  BY <1>0, <1>1, <1>3, <1>5 DEF Together
<1>7. QED
  BY <1>2, <1>6, SameKept

\* The kernel and the processes that the service does not know of.
LEMMA KernelInv ==
  ASSUME ServiceInv, NEW r \in Requests, KernelStep(r)
  PROVE  ServiceInv'
<1> USE DEF ServiceInv, parentVars, childVars, clientVars
<1>0. Together(r)
  OBVIOUS
<1>1. /\ ServiceShape'
      /\ \A q \in Requests \ {r} : Same(q)
      /\ Together(r)'
  <2>1. CASE KernelKills(r)
    BY <1>0, <2>1 DEF KernelKills, ServiceShape, Same, Together, Ended
  <2>2. CASE KilledDies(r)
    BY <1>0, <2>2 DEF KilledDies, ServiceShape, Same, Together, Ended
  <2>3. CASE OrphanEnds(r)
    BY <1>0, <2>3 DEF OrphanEnds, HasExited, ServiceShape, Same, Together, Ended
  <2>4. CASE PipeHeld(r)
    BY <1>0, <2>4 DEF PipeHeld, ServiceShape, Same, Together, Ended
  <2>5. QED
    BY <2>1, <2>2, <2>3, <2>4 DEF KernelStep
<1>2. QED
  BY <1>1, SameKept

\* The crawler, which starts requests and gives them up but touches none at work.
LEMMA ClientInv ==
  ASSUME ServiceInv, Boot \/ Post \/ \E r \in Requests : Receive(r) \/ Unavailable(r)
  PROVE  ServiceInv'
<1> USE DEF ServiceInv, parentVars, childVars, clientVars
<1>1. CASE Post
  <2>0. sent \in Nat /\ MaxRequests \in Nat /\ sent < MaxRequests
    BY <1>1, VerifierAssumption DEF Post, ServiceShape
  <2>1. PICK next \in Requests : next = sent + 1
    BY <2>0 DEF Requests
  <2>2. next > sent
    BY <2>0, <2>1
  <2>3. at[next] = "unsent" /\ Together(next)
    BY <2>2 DEF ServiceShape
  <2>4. /\ sent' = sent + 1 /\ at' = [at EXCEPT ![next] = "arrived"]
        /\ UNCHANGED <<child, helper, scratch, result>>
    BY <1>1, <2>1 DEF Post
  <2>5. ServiceShape'
    <3>1. ASSUME NEW r \in Requests, r > sent' PROVE at'[r] = "unsent"
      <4>1. r > sent /\ r # next
        BY <2>0, <2>1, <2>4, <3>1 DEF Requests
      <4>2. QED
        BY <2>4, <4>1 DEF ServiceShape
    <3>2. at' \in [Requests -> {"unsent", "arrived", "communicating", "reaping", "reaping again",
                               "collecting", "answered", "failed"}]
      BY <2>4 DEF ServiceShape
    <3>3. \A r \in Requests : r > sent' => at'[r] = "unsent"
      BY <3>1
    <3>4. sent' \in Nat
      BY <2>0, <2>4
    <3>5. /\ child' = child /\ helper' = helper
          /\ scratch' = scratch /\ result' = result
      BY <2>4
    <3>6. QED
      BY <3>2, <3>3, <3>4, <3>5 DEF ServiceShape
  <2>6. Together(next)'
    BY <2>3, <2>4 DEF Together, ServiceShape
  <2>7. \A q \in Requests \ {next} : Same(q)
    BY <2>4 DEF Same, ServiceShape
  <2>8. QED
    BY <2>5, <2>6, <2>7, SameKept
<1>2. CASE Boot \/ \E r \in Requests : Receive(r) \/ Unavailable(r)
  <2>1. UNCHANGED <<sent, at, child, helper, scratch, result>>
    BY <1>2 DEF Boot, Receive, Unavailable
  <2>2. QED
    BY <2>1 DEF ServiceShape, Together
<1>3. QED
  BY <1>1, <1>2

LEMMA ServiceInvStep == ServiceInv /\ [VerifierNext]_verifierVars => ServiceInv'
<1> SUFFICES ASSUME ServiceInv, [VerifierNext]_verifierVars PROVE ServiceInv'
  OBVIOUS
<1>1. CASE VerifierNext
  BY <1>1, ThreadInv, ChildInv, KernelInv, ClientInv DEF VerifierNext
<1>2. CASE UNCHANGED verifierVars
  BY <1>2 DEF verifierVars, parentVars, childVars, clientVars, ServiceInv, ServiceShape, Together
<1>3. QED
  BY <1>1, <1>2

\* ServiceInv holds in every state of the service.
THEOREM ServiceInvariant == VerifierSpec => []ServiceInv
<1>1. QED
  BY ServiceInvInit, ServiceInvStep, PTL DEF VerifierSpec

\* An answered request leaves no directory, no child that is not at its end, and no
\* helper but one whose parent the kernel killed (spawn.py: killpg, rmtree).
THEOREM NothingLeft == VerifierSpec => []NothingLeftBehind
<1>1. ServiceInv => NothingLeftBehind
  BY DEF ServiceInv, ServiceShape, Together, Ended, NothingLeftBehind
<1>2. QED
  BY <1>1, ServiceInvariant, PTL

-----------------------------------------------------------------------------
(* What the crawler is told, and what it rests on.                         *)

Statuses == {"clean", "suspicious", "malicious"}

LEMMA WorstIsAmongThem ==
  ASSUME NEW s \in Seq(Statuses)
  PROVE  /\ WorstStatus(s) \in Statuses
         /\ WorstStatus(s) = "clean" => \A i \in DOMAIN s : s[i] = "clean"
         /\ WorstStatus(s) = "malicious" => \E i \in DOMAIN s : s[i] = "malicious"
<1>1. CASE s = <<>>
  BY <1>1 DEF WorstStatus, Statuses
<1>2. CASE s # <<>>
  <2> DEFINE Worse(status) == \A other \in ToSet(s) : STATUS_RANK[status] >= STATUS_RANK[other]
  <2>1. ToSet(s) \subseteq Statuses /\ ToSet(s) # {} /\ \A x : x \in ToSet(s) <=> \E i \in DOMAIN s : s[i] = x
    BY <1>2 DEF ToSet
  <2>2. \E status \in ToSet(s) : Worse(status)
    BY <2>1 DEF Statuses, STATUS_RANK
  <2>3. WorstStatus(s) = CHOOSE status \in ToSet(s) : Worse(status)
    BY <1>2 DEF WorstStatus
  <2>4. WorstStatus(s) \in ToSet(s) /\ Worse(WorstStatus(s))
    BY <2>2, <2>3
  <2>5. WorstStatus(s) = "clean" => \A x \in ToSet(s) : x = "clean"
    BY <2>1, <2>4 DEF Statuses, STATUS_RANK
  <2>6. QED
    BY <2>1, <2>4, <2>5
<1>3. QED
  BY <1>1, <1>2

LEMMA NothingFound == <<>> \in Seq(Statuses)
  OBVIOUS

LEMMA OutcomeIsFiled ==
  ASSUME NEW res
  PROVE  /\ ClassifyOutcome(res) # "none"
         /\ ClassifyOutcome(res) = "ok" <=>
              /\ ~res.timedOut /\ res.code = 0
              /\ ~(res.output.size > setting.egressCap) /\ Readable(res.output)
<1>1. CASE res.timedOut
  BY <1>1 DEF ClassifyOutcome
<1>2. CASE ~res.timedOut /\ res.code # 0
  BY <1>2 DEF ClassifyOutcome
<1>3. CASE ~res.timedOut /\ res.code = 0 /\ res.output.size > setting.egressCap
  BY <1>3 DEF ClassifyOutcome
<1>4. CASE ~res.timedOut /\ res.code = 0 /\ ~(res.output.size > setting.egressCap)
  BY <1>4 DEF ClassifyOutcome
<1>5. QED
  BY <1>1, <1>2, <1>3, <1>4

LEMMA ChecksReportStatuses ==
  ASSUME NEW check \in KNOWN_CHECKS
  PROVE  Reports(check) \subseteq Statuses
  BY DEF KNOWN_CHECKS, Reports, Sniff, Probe, Scan, Statuses

\* A verdict the child printed: poison, or the worst of all the configured checks.
Earned(r) ==
  \/ output[r].verdict = "suspicious"
  \/ output[r].verdict = WorstStatus(found[r]) /\ Len(found[r]) = Len(setting.checks)

\* A helper runs for a check that is still to report.
HelperInTurn(r) ==
  child[r] = "checking" /\ helper[r] = "running" => Len(found[r]) < Len(setting.checks)

\* What the runner returned is what became of the child.
ResultTrue(r) ==
  IF result[r].code = 0 THEN child[r] = "exited" /\ result[r].output = output[r]
  ELSE child[r] = "crashed"

Evidence(r) ==
  /\ found[r] \in Seq(Statuses)
  /\ output[r] \in [verdict : Statuses \cup {NoVerdict}, size : Nat]
  /\ child[r] \in {"printed", "exited"} => Earned(r)
  /\ HelperInTurn(r)
  /\ (at[r] = "collecting" \/ reply[r].outcome # "none") /\ ~result[r].timedOut => ResultTrue(r)
  /\ reply[r].outcome # "none" =>
       /\ at[r] = "answered"
       /\ reply[r].verdict = Parse(result[r])
       /\ reply[r].outcome = ClassifyOutcome(result[r])
  /\ reply[r].outcome = "none" =>
       \/ reply[r].verdict = NoVerdict
       \/ at[r] = "answered" /\ child[r] = "none" /\ reply[r].verdict = "error"
  /\ received[r] # NoVerdict => at[r] = "answered" /\ received[r] = reply[r].verdict
  /\ at[r] # "unsent" => FromEnv(setting)

EvidenceShape ==
  /\ setting \in Settings
  /\ service = "up" => FromEnv(setting)
  /\ DOMAIN found = Requests /\ DOMAIN output = Requests
  /\ DOMAIN reply = Requests /\ DOMAIN received = Requests

EvidenceInv == EvidenceShape /\ \A r \in Requests : Evidence(r)

LEMMA EvidenceInit == VerifierInit => EvidenceInv
  BY DEF VerifierInit, EvidenceInv, EvidenceShape, Evidence, HelperInTurn, NoOutput, NoReply, NoVerdict, Statuses

\* A request whose evidence a step leaves alone.
Kept(q) ==
  /\ Same(q) /\ found'[q] = found[q] /\ output'[q] = output[q]
  /\ reply'[q] = reply[q] /\ received'[q] = received[q]

LEMMA EvidenceKept ==
  ASSUME NEW q, Evidence(q), Kept(q), setting' = setting
  PROVE  Evidence(q)'
  BY DEF Evidence, Kept, Same, HelperInTurn, Earned, ResultTrue, Parse, ClassifyOutcome, FromEnv

\* Whoever is sent at all is sent to a service whose environment was accepted.
LEMMA AllChecksRun ==
  ASSUME EvidenceInv, FromEnv(setting)
  PROVE  Pipeline = setting.checks /\ Pipeline \in Seq(KNOWN_CHECKS) /\ Len(setting.checks) > 0
<1>1. setting.checks \in Seq(STRING)
  BY VerifierAssumption DEF EvidenceInv, EvidenceShape
<1>2. ToSet(setting.checks) \subseteq KNOWN_CHECKS /\ setting.checks # <<>>
  BY DEF FromEnv, ParsesChecks
<1>3. \A i \in DOMAIN setting.checks : setting.checks[i] \in KNOWN_CHECKS
  BY <1>2 DEF ToSet
<1>4. QED
  BY <1>1, <1>2, <1>3 DEF Pipeline

LEMMA ThreadEvidence ==
  ASSUME ServiceInv, EvidenceInv, NEW r \in Requests, ThreadStep(r)
  PROVE  EvidenceInv'
<1> USE DEF childVars, clientVars
<1>0. Evidence(r) /\ Together(r) /\ at[r] # "unsent"
  BY DEF EvidenceInv, ServiceInv, ThreadStep, RejectFile, Spawn, SpawnFails, Communicated, Deadline,
         Reaped, ReapExpires, Collect
<1>1. /\ EvidenceShape' /\ setting' = setting
      /\ \A q \in Requests \ {r} : Kept(q)
  BY DEF EvidenceInv, EvidenceShape, ServiceInv, ServiceShape, Kept, Same, ThreadStep, RejectFile,
         Spawn, SpawnFails, Communicated, Deadline, Reaped, ReapExpires, Collect, FromEnv
<1>2. FromEnv(setting)'
  BY <1>0, <1>1 DEF Evidence, FromEnv
<1>3. Evidence(r)'
  <2>0. /\ at \in [Requests -> {"unsent", "arrived", "communicating", "reaping", "reaping again",
                               "collecting", "answered", "failed"}]
        /\ DOMAIN child = Requests /\ DOMAIN scratch = Requests /\ DOMAIN result = Requests
        /\ DOMAIN found = Requests /\ DOMAIN reply = Requests
    BY DEF ServiceInv, ServiceShape, EvidenceInv, EvidenceShape
  <2>1. CASE RejectFile(r) \/ Spawn(r) \/ SpawnFails(r)
    <3>1. /\ at[r] = "arrived" /\ at'[r] \in {"communicating", "failed", "answered"}
          /\ at'[r] # "answered" => reply'[r] = reply[r]
          /\ at'[r] = "answered" => reply'[r].verdict = "error" /\ reply'[r].outcome = "none"
          /\ child[r] = "none" /\ child'[r] \in {"none", "reading"}
          /\ at'[r] = "answered" => child'[r] = "none"
          /\ found'[r] = found[r] /\ output'[r] = output[r] /\ received'[r] = received[r]
      <4>1. at[r] = "arrived" /\ child[r] = "none"
        BY <1>0, <2>1 DEF RejectFile, Spawn, SpawnFails, Together
      <4>2. CASE RejectFile(r)
        BY <2>0, <4>1, <4>2 DEF RejectFile
      <4>3. CASE Spawn(r)
        BY <2>0, <4>1, <4>3 DEF Spawn
      <4>4. CASE SpawnFails(r)
        BY <2>0, <4>1, <4>4 DEF SpawnFails
      <4>5. QED
        BY <2>1, <4>2, <4>3, <4>4
    <3>2. HelperInTurn(r)'
      BY <3>1 DEF HelperInTurn
    <3>3. QED
      BY <1>0, <1>2, <3>1, <3>2 DEF Evidence, NoVerdict
  <2>2. CASE Communicated(r)
    <3>1. /\ at[r] = "communicating" /\ at'[r] = "collecting"
          /\ child[r] \in {"exited", "crashed"} /\ child'[r] = child[r]
          /\ helper'[r] = helper[r]
          /\ result'[r].code = IF child[r] = "exited" THEN 0 ELSE 1
          /\ result'[r].output = output[r]
          /\ reply'[r] = reply[r] /\ found'[r] = found[r] /\ output'[r] = output[r]
          /\ received'[r] = received[r]
      BY <2>0, <2>2 DEF Communicated, HasExited
    <3>2. ResultTrue(r)'
      BY <3>1 DEF ResultTrue
    <3>3. (child[r] \in {"printed", "exited"} => Earned(r))' /\ HelperInTurn(r)'
      BY <1>0, <1>1, <3>1 DEF Evidence, Together, Ended, Earned, HelperInTurn
    <3>4. QED
      BY <1>0, <1>2, <3>1, <3>2, <3>3 DEF Evidence
  <2>3. CASE Deadline(r)
    <3>1. /\ at[r] = "communicating" /\ at'[r] = "reaping"
          /\ \/ child'[r] = child[r] /\ child[r] # "checking" /\ found'[r] = found[r]
             \/ child'[r] = "killed" /\ found'[r] = <<>>
          /\ reply'[r] = reply[r] /\ output'[r] = output[r] /\ received'[r] = received[r]
      <4>1. CASE HasExited(r)
        BY <2>0, <2>3, <4>1 DEF Deadline, HasExited
      <4>2. CASE ~HasExited(r)
        BY <1>0, <2>0, <2>3, <4>2 DEF Deadline
      <4>3. QED
        BY <4>1, <4>2
    <3>2. found'[r] \in Seq(Statuses)
      <4>1. found[r] \in Seq(Statuses)
        BY <1>0 DEF Evidence
      <4>2. QED
        BY <3>1, <4>1, NothingFound
    <3>3. (child[r] \in {"printed", "exited"} => Earned(r))' /\ HelperInTurn(r)'
      BY <1>0, <1>1, <3>1 DEF Evidence, Together, Ended, Earned, HelperInTurn
    <3>4. QED
      BY <1>0, <1>2, <3>1, <3>2, <3>3 DEF Evidence
  <2>4. CASE Reaped(r) \/ ReapExpires(r)
    <3>1. /\ at[r] \in {"reaping", "reaping again"} /\ at'[r] \in {"reaping again", "collecting"}
          /\ child'[r] = child[r] /\ found'[r] = found[r] /\ result'[r] = result[r]
          /\ reply'[r] = reply[r] /\ output'[r] = output[r] /\ received'[r] = received[r]
          /\ result[r].timedOut
      BY <1>0, <2>0, <2>4 DEF Reaped, ReapExpires, Together
    <3>2. (child[r] \in {"printed", "exited"} => Earned(r))' /\ HelperInTurn(r)'
      BY <1>0, <1>1, <3>1 DEF Evidence, Together, Ended, Earned, HelperInTurn
    <3>3. QED
      BY <1>0, <1>2, <3>1, <3>2 DEF Evidence
  <2>5. CASE Collect(r)
    <3>1. /\ at[r] = "collecting" /\ at'[r] = "answered"
          /\ child'[r] = child[r] /\ found'[r] = found[r] /\ result'[r] = result[r]
          /\ reply'[r].verdict = Parse(result[r])
          /\ reply'[r].outcome = ClassifyOutcome(result[r])
          /\ output'[r] = output[r] /\ received'[r] = received[r]
      BY <2>0, <2>5 DEF Collect
    <3>2. (child[r] \in {"printed", "exited"} => Earned(r))' /\ HelperInTurn(r)'
      BY <1>0, <1>1, <3>1 DEF Evidence, Together, Ended, Earned, HelperInTurn
    <3>3. ResultTrue(r) \/ result[r].timedOut
      BY <1>0, <3>1 DEF Evidence
    <3>4. ResultTrue(r)' \/ result'[r].timedOut
      BY <3>1, <3>3 DEF ResultTrue
    <3>5. (/\ reply[r].verdict = Parse(result[r])
           /\ reply[r].outcome = ClassifyOutcome(result[r]))'
      <4>1. Parse(result[r])' = Parse(result[r])
        BY <1>1, <3>1 DEF Parse
      <4>2. ClassifyOutcome(result[r])' = ClassifyOutcome(result[r])
        BY <1>1, <3>1 DEF ClassifyOutcome
      <4>3. QED
        BY <3>1, <4>1, <4>2
    <3>6. reply'[r].outcome # "none"
      BY <3>1, OutcomeIsFiled
    <3>7. received'[r] = NoVerdict
      BY <1>0, <3>1 DEF Evidence
    <3>8. QED
      BY <1>0, <1>2, <3>1, <3>2, <3>4, <3>5, <3>6, <3>7 DEF Evidence
  <2>6. QED
    BY <2>1, <2>2, <2>3, <2>4, <2>0, <2>5 DEF ThreadStep
<1>4. QED
  BY <1>1, <1>3, EvidenceKept DEF EvidenceInv

\* The child at work, or taken by the kernel: no answer depends on it yet.
LEMMA ChildEvidence ==
  ASSUME ServiceInv, EvidenceInv, NEW r \in Requests, ChildStep(r) \/ KernelKills(r) \/ PipeHeld(r)
  PROVE  EvidenceInv'
<1> USE DEF parentVars, clientVars
<1>0. Evidence(r) /\ Together(r) /\ DOMAIN found = Requests /\ DOMAIN output = Requests
      /\ child \in [Requests -> {"none", "reading", "checking", "printed", "exited", "crashed", "killed"}]
      /\ at \in [Requests -> {"unsent", "arrived", "communicating", "reaping", "reaping again",
                             "collecting", "answered", "failed"}]
  BY DEF EvidenceInv, EvidenceShape, ServiceInv, ServiceShape
<1>1. /\ child[r] \in {"reading", "checking", "printed"}
      /\ UNCHANGED <<setting, service, at, scratch, result, reply, received>>
  BY DEF ChildStep, RefuseFile, ReadHeader, SniffType, StartHelper, HelperEnds, ChildCrashes,
         PrintVerdict, ExitChild, KernelKills, PipeHeld, HasNextCheck
<1>2. at[r] = "communicating"
  BY <1>0, <1>1 DEF Together, Ended
<1>3. reply[r].outcome = "none" /\ reply[r].verdict = NoVerdict /\ received[r] = NoVerdict
      /\ FromEnv(setting)
  BY <1>0, <1>2 DEF Evidence
<1>4. EvidenceShape' /\ \A q \in Requests \ {r} : Kept(q)
  <2>1. \A q \in Requests \ {r} : child'[q] = child[q] /\ helper'[q] = helper[q]
                                /\ found'[q] = found[q] /\ output'[q] = output[q]
    BY <1>0
    DEF ServiceInv, ServiceShape, ChildStep, RefuseFile, ReadHeader, SniffType, StartHelper,
        HelperEnds, ChildCrashes, PrintVerdict, ExitChild, KernelKills, PipeHeld, Prints
  <2>2. DOMAIN found' = Requests /\ DOMAIN output' = Requests
    BY <1>0
    DEF ChildStep, RefuseFile, ReadHeader, SniffType, StartHelper, HelperEnds, ChildCrashes,
        PrintVerdict, ExitChild, KernelKills, PipeHeld, Prints
  <2>3. EvidenceShape'
    BY <1>1, <2>2 DEF EvidenceInv, EvidenceShape, FromEnv
  <2>4. QED
    BY <1>1, <2>1, <2>3 DEF Kept, Same
<1>5. Pipeline = setting.checks /\ Pipeline \in Seq(KNOWN_CHECKS)
  BY <1>3, AllChecksRun
<1>6. ASSUME found'[r] \in Seq(Statuses),
             output'[r] \in [verdict : Statuses \cup {NoVerdict}, size : Nat],
             (child[r] \in {"printed", "exited"} => Earned(r))', HelperInTurn(r)'
      PROVE  EvidenceInv'
  <2>1. FromEnv(setting)'
    BY <1>1, <1>3 DEF FromEnv
  <2>2. Evidence(r)'
    BY <1>1, <1>2, <1>3, <1>6, <2>1 DEF Evidence
  <2>3. QED
    BY <1>1, <1>4, <2>2, EvidenceKept DEF EvidenceInv
<1>7. /\ found[r] \in Seq(Statuses)
      /\ output[r] \in [verdict : Statuses \cup {NoVerdict}, size : Nat]
  BY <1>0 DEF Evidence
<1>8. CASE RefuseFile(r) \/ PrintVerdict(r)
  <2>1. PICK size \in Sizes, verdict \in Statuses :
          /\ output' = [output EXCEPT ![r] = [verdict |-> verdict, size |-> size]]
          /\ \/ verdict = "suspicious"
             \/ verdict = WorstStatus(found[r]) /\ Len(found[r]) = Len(Pipeline)
    BY <1>7, <1>8, WorstIsAmongThem DEF RefuseFile, PrintVerdict, Prints, Statuses
  <2>2. found' = found
    BY <1>8 DEF RefuseFile, PrintVerdict
  <2>3. output'[r] = [verdict |-> verdict, size |-> size]
    BY <1>0, <2>1
  <2>4. Earned(r)'
    BY <1>1, <1>5, <2>1, <2>2, <2>3 DEF Earned
  <2>5. size \in Nat
    BY VerifierAssumption
  <2>6. output'[r] \in [verdict : Statuses \cup {NoVerdict}, size : Nat]
    BY <2>3, <2>5
  <2>7. child'[r] = "printed"
    BY <1>0, <1>8 DEF RefuseFile, PrintVerdict
  <2>8. HelperInTurn(r)'
    BY <2>7 DEF HelperInTurn
  <2>9. QED
    BY <1>6, <1>7, <2>2, <2>4, <2>6, <2>8
<1>9. CASE SniffType(r) \/ HelperEnds(r)
  <2>1. child[r] = "checking" /\ child' = child /\ output' = output
    BY <1>9 DEF SniffType, HelperEnds, HasNextCheck
  <2>2. PICK status \in Statuses : found'[r] = Append(found[r], status)
    <3>1. CASE SniffType(r)
      BY <1>0, <3>1, ChecksReportStatuses DEF SniffType, KNOWN_CHECKS
    <3>2. CASE HelperEnds(r)
      <4>1. NextCheck(r) \in KNOWN_CHECKS
        <5>1. Len(found[r]) \in Nat /\ Len(found[r]) < Len(Pipeline)
          <6>1. HelperInTurn(r) /\ child[r] = "checking" /\ helper[r] = "running"
            BY <1>0, <3>2 DEF HelperEnds, Evidence
          <6>2. Len(found[r]) < Len(setting.checks)
            BY <6>1 DEF HelperInTurn
          <6>3. QED
            BY <1>5, <1>7, <6>2
        <5>2. QED
          BY <1>5, <5>1 DEF NextCheck
      <4>2. QED
        BY <1>0, <3>2, <4>1, ChecksReportStatuses DEF HelperEnds
    <3>3. QED
      BY <1>9, <3>1, <3>2
  <2>3. found'[r] \in Seq(Statuses)
    BY <1>7, <2>2
  <2>4. helper'[r] # "running"
    BY <1>0, <1>9 DEF SniffType, HelperEnds, HasNextCheck, ServiceInv, ServiceShape
  <2>5. QED
    BY <1>6, <1>7, <2>1, <2>3, <2>4 DEF HelperInTurn
<1>10. CASE ReadHeader(r) \/ StartHelper(r) \/ PipeHeld(r)
  <2>1. found' = found /\ output' = output /\ child'[r] = "checking"
    BY <1>0, <1>10 DEF ReadHeader, StartHelper, PipeHeld, HasNextCheck
  <2>2. HelperInTurn(r)'
    <3>1. CASE ReadHeader(r)
      BY <1>0, <3>1 DEF ReadHeader, Together, HelperInTurn
    <3>2. CASE StartHelper(r)
      BY <1>1, <1>5, <2>1, <3>2 DEF StartHelper, HasNextCheck, HelperInTurn
    <3>3. CASE PipeHeld(r)
      BY <1>0, <1>1, <3>3 DEF PipeHeld, Evidence, HelperInTurn
    <3>4. QED
      BY <1>10, <3>1, <3>2, <3>3
  <2>3. QED
    BY <1>6, <1>7, <2>1, <2>2
<1>11. CASE ChildCrashes(r) \/ KernelKills(r)
  <2>1. found'[r] = <<>> /\ output' = output /\ child'[r] = "crashed"
    BY <1>0, <1>11 DEF ChildCrashes, KernelKills
  <2>2. QED
    BY <1>6, <1>7, <2>1, NothingFound DEF HelperInTurn
<1>12. CASE ExitChild(r)
  <2>1. found' = found /\ output' = output /\ child[r] = "printed"
    BY <1>12 DEF ExitChild
  <2>2. Earned(r)'
    BY <1>0, <1>1, <2>1 DEF Evidence, Earned
  <2>3. child'[r] = "exited"
    BY <1>0, <1>12 DEF ExitChild
  <2>4. QED
    BY <1>6, <1>7, <2>1, <2>2, <2>3 DEF HelperInTurn
<1>13. QED
  BY <1>8, <1>9, <1>10, <1>11, <1>12 DEF ChildStep

LEMMA KernelEvidence ==
  ASSUME ServiceInv, EvidenceInv, NEW r \in Requests, KilledDies(r) \/ OrphanEnds(r)
  PROVE  EvidenceInv'
<1> USE DEF parentVars, clientVars
<1>0. Evidence(r) /\ Together(r)
  BY DEF EvidenceInv, ServiceInv
<1>1. /\ child \in [Requests -> {"none", "reading", "checking", "printed", "exited", "crashed", "killed"}]
      /\ helper \in [Requests -> {"none", "running", "killed"}]
  BY DEF ServiceInv, ServiceShape
<1>2. UNCHANGED <<setting, service, at, scratch, result, reply, received, found, output>>
  BY DEF KilledDies, OrphanEnds
<1>3. EvidenceShape' /\ \A q \in Requests \ {r} : Kept(q)
  BY <1>1, <1>2
  DEF EvidenceInv, EvidenceShape, FromEnv, Kept, Same, KilledDies, OrphanEnds
<1>4. /\ child[r] # "checking" /\ child'[r] # "checking"
      /\ \/ child'[r] = child[r]
         \/ child[r] = "killed" /\ child'[r] = "crashed"
  BY <1>1 DEF KilledDies, OrphanEnds, HasExited
<1>5. Evidence(r)'
  <2>1. (child[r] \in {"printed", "exited"} => Earned(r))' /\ HelperInTurn(r)'
    BY <1>0, <1>2, <1>4 DEF Evidence, Earned, HelperInTurn
  <2>2. ((at[r] = "collecting" \/ reply[r].outcome # "none") /\ ~result[r].timedOut
           => ResultTrue(r))'
    BY <1>0, <1>2, <1>4 DEF Evidence, ResultTrue, Together
  <2>3. /\ FromEnv(setting)' <=> FromEnv(setting)
        /\ Parse(result[r])' = Parse(result[r])
        /\ ClassifyOutcome(result[r])' = ClassifyOutcome(result[r])
    BY <1>2 DEF FromEnv, Parse, ClassifyOutcome
  <2>4. child[r] = "none" => child'[r] = "none"
    BY <1>4
  <2>5. QED
    BY <1>0, <1>2, <2>1, <2>2, <2>3, <2>4 DEF Evidence
<1>6. QED
  BY <1>2, <1>3, <1>5, EvidenceKept DEF EvidenceInv

\* What the crawler hears is the reply: an output that passed the cap of the
\* service is not too large for the crawler.
LEMMA ClientEvidence ==
  ASSUME ServiceInv, EvidenceInv, Boot \/ Post \/ \E r \in Requests : Receive(r) \/ Unavailable(r)
  PROVE  EvidenceInv'
<1> USE DEF parentVars, childVars, clientVars
<1>1. CASE Boot \/ \E r \in Requests : Unavailable(r)
  <2>1. /\ setting' = setting /\ UNCHANGED <<at, scratch, result, reply, received, childVars>>
        /\ service' = service \/ service' = "refused" \/ FromEnv(setting)
    BY <1>1 DEF Boot, Unavailable
  <2>2. \A q \in Requests : Kept(q)
    BY <2>1 DEF Kept, Same
  <2>3. EvidenceShape'
    BY <1>1, <2>1 DEF EvidenceInv, EvidenceShape, FromEnv, Boot, Unavailable
  <2>4. QED
    BY <2>1, <2>2, <2>3, EvidenceKept DEF EvidenceInv
<1>2. CASE Post
  <2>0. sent + 1 > sent
    <3>1. sent \in Nat
      BY DEF ServiceInv, ServiceShape
    <3>2. QED
      BY <3>1
  <2>1. /\ UNCHANGED <<setting, service, received, scratch, result, reply, childVars>>
        /\ at' = [at EXCEPT ![sent + 1] = "arrived"] /\ service = "up"
    BY <1>2 DEF Post
  <2>2. EvidenceShape' /\ FromEnv(setting) /\ FromEnv(setting)'
    BY <2>1 DEF EvidenceInv, EvidenceShape, FromEnv
  <2>3. ASSUME NEW q \in Requests PROVE Evidence(q)'
    <3>1. CASE q # sent + 1
      <4>1. Kept(q)
        BY <2>1, <3>1 DEF Kept, Same, ServiceInv, ServiceShape
      <4>2. QED
        BY <2>1, <4>1, EvidenceKept DEF EvidenceInv
    <3>2. CASE q = sent + 1
      <4>1. at[q] = "unsent" /\ at'[q] = "arrived" /\ child[q] = "none"
        BY <2>0, <2>1, <3>2 DEF ServiceInv, ServiceShape, Together
      <4>2. Evidence(q) /\ reply[q].outcome = "none" /\ received[q] = NoVerdict
        BY <4>1 DEF EvidenceInv, Evidence
      <4>3. /\ reply'[q] = reply[q] /\ received'[q] = received[q] /\ found'[q] = found[q]
            /\ output'[q] = output[q] /\ child'[q] = child[q]
        BY <2>1
      <4>4. HelperInTurn(q)'
        BY <4>1, <4>3 DEF HelperInTurn
      <4>5. QED
        BY <2>2, <4>1, <4>2, <4>3, <4>4 DEF Evidence
    <3>3. QED
      BY <3>1, <3>2
  <2>4. QED
    BY <2>2, <2>3 DEF EvidenceInv
<1>3. ASSUME NEW r \in Requests, Receive(r) PROVE EvidenceInv'
  <2>1. /\ UNCHANGED <<setting, service, at, scratch, result, reply, childVars>>
        /\ at[r] = "answered"
        /\ received' = [received EXCEPT ![r] =
             IF reply[r].outcome = "ok" /\ output[r].size > ResponseCap
             THEN "error" ELSE reply[r].verdict]
    BY <1>3 DEF Receive
  <2>2. EvidenceShape' /\ \A q \in Requests \ {r} : Kept(q)
    BY <2>1 DEF EvidenceInv, EvidenceShape, FromEnv, Kept, Same
  <2>3. Evidence(r)
    BY DEF EvidenceInv
  <2>4. ~(reply[r].outcome = "ok" /\ output[r].size > ResponseCap)
    <3>1. SUFFICES ASSUME reply[r].outcome = "ok" PROVE ~(output[r].size > ResponseCap)
      OBVIOUS
    <3>2. /\ ~result[r].timedOut /\ result[r].code = 0
          /\ ~(result[r].output.size > setting.egressCap)
      BY <2>3, <3>1, OutcomeIsFiled DEF Evidence
    <3>3. result[r].output = output[r] /\ output[r].size \in Nat
      BY <2>3, <3>1, <3>2 DEF Evidence, ResultTrue
    <3>4. setting.egressCap \in Int /\ setting.egressCap <= ResponseCap /\ ResponseCap \in Nat
      BY VerifierAssumption DEF EvidenceInv, EvidenceShape
    <3>5. QED
      BY <3>2, <3>3, <3>4
  <2>5. received'[r] = reply[r].verdict
    BY <2>1, <2>4 DEF EvidenceInv, EvidenceShape
  <2>6. Evidence(r)'
    BY <2>1, <2>3, <2>5
    DEF Evidence, Earned, HelperInTurn, ResultTrue, Parse, ClassifyOutcome, FromEnv
  <2>7. QED
    BY <2>1, <2>2, <2>6, EvidenceKept DEF EvidenceInv
<1>4. QED
  BY <1>1, <1>2, <1>3

LEMMA EvidenceStep == ServiceInv /\ EvidenceInv /\ [VerifierNext]_verifierVars => EvidenceInv'
<1> SUFFICES ASSUME ServiceInv, EvidenceInv, [VerifierNext]_verifierVars PROVE EvidenceInv'
  OBVIOUS
<1>1. CASE VerifierNext
  BY <1>1, ThreadEvidence, ChildEvidence, KernelEvidence, ClientEvidence DEF VerifierNext, KernelStep
<1>2. CASE UNCHANGED verifierVars
  <2>1. EvidenceShape' /\ setting' = setting /\ \A q \in Requests : Kept(q)
    BY <1>2
    DEF verifierVars, parentVars, childVars, clientVars, EvidenceInv, EvidenceShape, FromEnv, Kept, Same
  <2>2. QED
    BY <2>1, EvidenceKept DEF EvidenceInv
<1>3. QED
  BY <1>1, <1>2

\* EvidenceInv holds in every state of the service.
THEOREM EvidenceInvariant == VerifierSpec => [](ServiceInv /\ EvidenceInv)
  BY ServiceInvInit, ServiceInvStep, EvidenceInit, EvidenceStep, PTL DEF VerifierSpec

\* A verdict the crawler is given rests on evidence, for any file, any checks and
\* any end of the child (egress.parse, pipeline.run): clean on all of the configured
\* checks, malicious on one of them, error on there being no child.
THEOREM VerdictIsEarned == VerifierSpec => []VerdictEarned
<1>1. ASSUME ServiceInv, EvidenceInv, NEW r \in Requests, received[r] # NoVerdict
      PROVE  /\ received[r] = "error" => child[r] = "none"
             /\ received[r] \in {"clean", "malicious"} =>
                  /\ child[r] = "exited"
                  /\ received[r] = WorstStatus(found[r])
                  /\ Len(found[r]) = Len(setting.checks)
                  /\ found[r] \in Seq(Statuses) /\ Len(setting.checks) > 0
  <2>1. Evidence(r) /\ received[r] = reply[r].verdict /\ at[r] = "answered"
    BY <1>1 DEF EvidenceInv, Evidence
  <2>2. CASE reply[r].outcome = "none"
    BY <1>1, <2>1, <2>2 DEF Evidence
  <2>3. CASE reply[r].outcome # "none"
    <3>1. reply[r].verdict = Parse(result[r])
      BY <2>1, <2>3 DEF Evidence
    <3>2. CASE result[r].timedOut \/ result[r].code # 0
      BY <2>1, <3>1, <3>2 DEF Parse
    <3>3. CASE ~result[r].timedOut /\ result[r].code = 0
      <4>1. ResultTrue(r)
        BY <2>1, <2>3, <3>3 DEF Evidence
      <4>2. child[r] = "exited" /\ result[r].output = output[r] /\ Earned(r)
        BY <2>1, <3>3, <4>1 DEF Evidence, ResultTrue
      <4>3. \/ reply[r].verdict = "suspicious"
            \/ reply[r].verdict = output[r].verdict /\ output[r].verdict \in Statuses
        BY <3>1, <4>2 DEF Parse, Readable, STATUS_RANK, Statuses
      <4>4. Len(setting.checks) > 0
        BY <1>1, <2>1, AllChecksRun DEF Evidence
      <4>5. QED
        BY <2>1, <4>2, <4>3, <4>4 DEF Evidence, Earned, Statuses
    <3>4. QED
      BY <3>2, <3>3
  <2>4. QED
    BY <2>2, <2>3
<1>2. ASSUME ServiceInv, EvidenceInv, NEW r \in Requests
      PROVE  /\ received[r] = "clean" =>
                  /\ child[r] = "exited"
                  /\ found[r] # <<>> /\ Len(found[r]) = Len(setting.checks)
                  /\ \A i \in DOMAIN found[r] : found[r][i] = "clean"
             /\ received[r] = "malicious" => \E i \in DOMAIN found[r] : found[r][i] = "malicious"
             /\ received[r] = "error" => child[r] = "none"
  <2>1. CASE received[r] \in {"clean", "malicious"}
    BY <1>1, <1>2, <2>1, WorstIsAmongThem DEF NoVerdict
  <2>2. CASE received[r] \notin {"clean", "malicious"}
    BY <1>1, <1>2, <2>2 DEF NoVerdict
  <2>3. QED
    BY <2>1, <2>2
<1>3. ServiceInv /\ EvidenceInv => VerdictEarned
  BY <1>2 DEF VerdictEarned
<1>4. QED
  BY <1>3, EvidenceInvariant, PTL

\* The two readings of the child's end (egress.parse and classify_outcome) agree for
\* every cap and every size.
THEOREM ReadingsAgree == VerifierSpec => []OutcomeAgrees
<1>1. ASSUME ServiceInv, EvidenceInv, NEW r \in Requests, reply[r].outcome = "ok"
      PROVE  /\ reply[r].verdict = output[r].verdict
             /\ reply[r].verdict = WorstStatus(found[r]) \/ reply[r].verdict = "suspicious"
  <2>1. Evidence(r)
    BY <1>1 DEF EvidenceInv
  <2>2. /\ ~result[r].timedOut /\ result[r].code = 0
        /\ ~(result[r].output.size > setting.egressCap) /\ Readable(result[r].output)
    BY <1>1, <2>1, OutcomeIsFiled DEF Evidence
  <2>3. reply[r].verdict = result[r].output.verdict
    BY <1>1, <2>1, <2>2 DEF Evidence, Parse
  <2>4. child[r] = "exited" /\ result[r].output = output[r] /\ Earned(r)
    BY <1>1, <2>1, <2>2 DEF Evidence, ResultTrue
  <2>5. QED
    BY <2>3, <2>4 DEF Earned
<1>2. ASSUME ServiceInv, EvidenceInv, NEW r \in Requests,
             reply[r].outcome # "none", reply[r].outcome # "ok"
      PROVE  /\ reply[r].verdict = "suspicious"
             /\ child[r] = "exited" /\ ~result[r].timedOut => output[r].size > setting.egressCap
  <2>1. Evidence(r)
    BY <1>2 DEF EvidenceInv
  <2>2. ~(/\ ~result[r].timedOut /\ result[r].code = 0
          /\ ~(result[r].output.size > setting.egressCap) /\ Readable(result[r].output))
    BY <1>2, <2>1, OutcomeIsFiled DEF Evidence
  <2>3. reply[r].verdict = "suspicious"
    BY <1>2, <2>1, <2>2 DEF Evidence, Parse
  <2>4. ASSUME child[r] = "exited", ~result[r].timedOut PROVE output[r].size > setting.egressCap
    <3>1. result[r].code = 0 /\ result[r].output = output[r] /\ Earned(r)
      BY <1>2, <2>1, <2>4 DEF Evidence, ResultTrue
    <3>2. output[r].verdict \in Statuses
      BY <2>1, <3>1, WorstIsAmongThem DEF Evidence, Earned, Statuses
    <3>3. Readable(output[r])
      BY <3>2 DEF Readable, STATUS_RANK, Statuses
    <3>4. QED
      BY <2>2, <2>4, <3>1, <3>3
  <2>5. QED
    BY <2>3, <2>4
<1>3. ServiceInv /\ EvidenceInv => OutcomeAgrees
  BY <1>1, <1>2 DEF OutcomeAgrees
<1>4. QED
  BY <1>3, EvidenceInvariant, PTL
=============================================================================
