---------------------------- MODULE VerifierService ----------------------------
(***************************************************************************)
(* The verifier service: a request of the crawler (verifier_http.py) is    *)
(* handled in a thread (app.py, check.py) that starts a confined child for *)
(* one analysis and collects it under a deadline (spawn.py).  The child    *)
(* (analysis_child.py, pipeline.py, checks/) runs the enabled checks, some *)
(* of them in a helper process, and prints a verdict that its parent reads *)
(* defensively (egress.py).                                                *)
(*                                                                         *)
(* The crawler sends one request at a time, but it may give up waiting and *)
(* send the next one while the service still works on the first.           *)
(***************************************************************************)
EXTENDS Integers, FiniteSets, SequencesExt

CONSTANTS
  MaxRequests,  \* bound: requests the crawler sends
  Settings,     \* bound: the environments the service is started with
  Sizes,        \* bound: the sizes an egress may have
  ResponseCap   \* largest response the crawler reads

ASSUME VerifierAssumption ==
  /\ MaxRequests \in Nat
  /\ Sizes \subseteq Nat
  /\ ResponseCap \in Nat
  /\ \A env \in Settings :
       /\ DOMAIN env = {"checks", "limit", "egressCap"}
       /\ env.checks \in Seq(STRING)
       /\ env.limit \in Int /\ env.egressCap \in Int
       /\ env.egressCap <= ResponseCap

VARIABLES
  setting,   \* the environment of the service
  service,   \* "down", "up" or "refused"
  waiting,   \* the request the crawler waits for, or 0
  sent,      \* how many requests it has sent
  received,  \* what it was told about each of them, or NoVerdict
  at,        \* where the thread of each request is
  child,     \* what the analysis child of each request is doing
  helper,    \* its helper process, ffprobe or clamscan: "none", "running" or "killed"
  held,      \* whether some other process keeps the child's standard output open
  found,     \* the results of the checks, in the memory of the child
  output,    \* what the child has printed, or NoOutput
  scratch,   \* whether the working directory of the child exists
  result,    \* what the runner returned: exit code, output, deadline passed
  reply      \* the service's answer, or NoReply

parentVars == <<setting, service, at, scratch, result, reply>>
childVars == <<child, helper, held, found, output>>
clientVars == <<waiting, sent, received>>
verifierVars == <<parentVars, childVars, clientVars>>

Requests == 1 .. MaxRequests

-----------------------------------------------------------------------------
(* The checks and how their results are put together.                      *)

KNOWN_CHECKS == {"type_sniff", "ffprobe", "clamav"}
STATUS_RANK == [clean |-> 0, suspicious |-> 1, malicious |-> 2]
NoVerdict == "none"
NoOutput == [verdict |-> NoVerdict, size |-> 0]
NoReply == [verdict |-> NoVerdict, outcome |-> "none"]
NoResult == [code |-> 0, output |-> NoOutput, timedOut |-> FALSE]

\* What the first bytes of a file look like; what ffprobe prints.
Headers == {"empty", "executable", "zip", "media", "archive", "unknown"}
Listings == {"not json", "not an object", "no streams", "no media stream", "media"}
ExitCodes == {-1, 0, 1, 2}

Sniff(header) ==
  CASE header = "executable" -> "malicious"
    [] header \in {"zip", "archive"} -> "suspicious"
    [] OTHER -> "clean"
Probe(code, listing) == IF code = 0 /\ listing = "media" THEN "clean" ELSE "suspicious"
Scan(code) == CASE code = 0 -> "clean" [] code = 1 -> "malicious" [] OTHER -> "suspicious"

\* What a check may report; the helpers report on any end of their process.
Reports(check) ==
  CASE check = "type_sniff" -> {Sniff(header) : header \in Headers}
    [] check = "ffprobe" -> {Probe(code, listing) : code \in ExitCodes, listing \in Listings}
    [] check = "clamav" -> {Scan(code) : code \in ExitCodes}

WorstStatus(statuses) ==
  IF statuses = <<>> THEN "clean"
  ELSE CHOOSE status \in ToSet(statuses) :
         \A other \in ToSet(statuses) : STATUS_RANK[status] >= STATUS_RANK[other]

\* The environment is read and validated when the service is imported.
ParsesChecks(checks) == checks # <<>> /\ ToSet(checks) \subseteq KNOWN_CHECKS

\* Mutation: an unknown check is ignored, as the pipeline would ignore it.
FromEnvLenient(env) == env.checks # <<>> /\ env.limit > 0 /\ env.egressCap > 0

FromEnv(env) == ParsesChecks(env.checks) /\ env.limit > 0 /\ env.egressCap > 0

\* The checks the pipeline runs: those its dispatch knows, in the order given.
Pipeline ==
  IF ToSet(setting.checks) \subseteq KNOWN_CHECKS THEN setting.checks
  ELSE SelectSeq(setting.checks, LAMBDA check : check \in KNOWN_CHECKS)

-----------------------------------------------------------------------------
(* What the parent makes of the child's end.                               *)

Readable(out) == out.verdict \in DOMAIN STATUS_RANK

Parse(res) ==
  IF res.timedOut \/ res.code # 0 \/ res.output.size > setting.egressCap
       \/ ~Readable(res.output)
  THEN "suspicious" ELSE res.output.verdict

\* Mutation: the cap is tested with >= in one of the two copies of the filters.
ClassifyOutcomeAtCap(res) ==
  CASE res.timedOut -> "timeout"
    [] ~res.timedOut /\ res.code # 0 -> "nonzero_exit"
    [] ~res.timedOut /\ res.code = 0 /\ res.output.size >= setting.egressCap -> "egress_overflow"
    [] OTHER -> IF Readable(res.output) THEN "ok" ELSE "malformed"

ClassifyOutcome(res) ==
  CASE res.timedOut -> "timeout"
    [] ~res.timedOut /\ res.code # 0 -> "nonzero_exit"
    [] ~res.timedOut /\ res.code = 0 /\ res.output.size > setting.egressCap -> "egress_overflow"
    [] OTHER -> IF Readable(res.output) THEN "ok" ELSE "malformed"

-----------------------------------------------------------------------------
VerifierInit ==
  /\ setting \in Settings
  /\ service = "down"
  /\ waiting = 0
  /\ sent = 0
  /\ received = [r \in Requests |-> NoVerdict]
  /\ at = [r \in Requests |-> "unsent"]
  /\ child = [r \in Requests |-> "none"]
  /\ helper = [r \in Requests |-> "none"]
  /\ held = [r \in Requests |-> FALSE]
  /\ found = [r \in Requests |-> <<>>]
  /\ output = [r \in Requests |-> NoOutput]
  /\ scratch = [r \in Requests |-> FALSE]
  /\ result = [r \in Requests |-> NoResult]
  /\ reply = [r \in Requests |-> NoReply]

\* The service starts, or refuses its environment.
Boot ==
  /\ service = "down"
  /\ service' = IF FromEnv(setting) THEN "up" ELSE "refused"
  /\ UNCHANGED <<setting, at, scratch, result, reply, childVars, clientVars>>

-----------------------------------------------------------------------------
(* The crawler's side.                                                     *)

\* POST /verify.
Post ==
  /\ service = "up"
  /\ waiting = 0 /\ sent < MaxRequests
  /\ sent' = sent + 1
  /\ waiting' = sent + 1
  /\ at' = [at EXCEPT ![sent + 1] = "arrived"]
  /\ UNCHANGED <<received, setting, service, scratch, result, reply, childVars>>

\* A response of 200 is read; one that is too large counts as an error.
Receive(r) ==
  /\ waiting = r /\ at[r] = "answered"
  /\ waiting' = 0
  /\ received' = [received EXCEPT ![r] =
       IF reply[r].outcome = "ok" /\ output[r].size > ResponseCap THEN "error" ELSE reply[r].verdict]
  /\ UNCHANGED <<sent, parentVars, childVars>>

\* A status of 500, or no answer in the time the crawler waits: unavailable.
Unavailable(r) ==
  /\ waiting = r /\ at[r] # "answered"
  /\ waiting' = 0
  /\ UNCHANGED <<sent, received, parentVars, childVars>>

-----------------------------------------------------------------------------
(* The thread that handles a request.                                      *)

\* There is no regular file of that name: no child is started.
RejectFile(r) ==
  /\ at[r] = "arrived"
  /\ at' = [at EXCEPT ![r] = "answered"]
  /\ reply' = [reply EXCEPT ![r] = [verdict |-> "error", outcome |-> "none"]]
  /\ UNCHANGED <<setting, service, scratch, result, childVars, clientVars>>

Spawn(r) ==
  /\ at[r] = "arrived"
  /\ at' = [at EXCEPT ![r] = "communicating"]
  /\ scratch' = [scratch EXCEPT ![r] = TRUE]
  /\ child' = [child EXCEPT ![r] = "reading"]
  /\ UNCHANGED <<setting, service, result, reply, helper, held, found, output, clientVars>>

\* mkdtemp or Popen raises; the directory goes all the same, the status is 500.
SpawnFails(r) ==
  /\ at[r] = "arrived"
  /\ at' = [at EXCEPT ![r] = "failed"]
  /\ UNCHANGED <<setting, service, scratch, result, reply, childVars, clientVars>>

HasExited(r) == child[r] \in {"exited", "crashed"}

\* communicate() returns: the pipe is at its end and the child is reaped.
Communicated(r) ==
  /\ at[r] = "communicating"
  /\ HasExited(r) /\ ~held[r]
  /\ at' = [at EXCEPT ![r] = "collecting"]
  /\ result' = [result EXCEPT ![r] =
       [code |-> IF child[r] = "exited" THEN 0 ELSE 1, output |-> output[r], timedOut |-> FALSE]]
  /\ UNCHANGED <<setting, service, scratch, reply, childVars, clientVars>>

\* Mutation: only the child is killed, not its group.
DeadlineChildOnly(r) ==
  /\ at[r] = "communicating"
  /\ at' = [at EXCEPT ![r] = "reaping"]
  /\ child' = [child EXCEPT ![r] = IF HasExited(r) THEN @ ELSE "killed"]
  /\ found' = [found EXCEPT ![r] = IF HasExited(r) THEN @ ELSE <<>>]
  /\ result' = [result EXCEPT ![r] = [code |-> 0, output |-> NoOutput, timedOut |-> TRUE]]
  /\ UNCHANGED <<setting, service, scratch, reply, helper, held, output, clientVars>>

\* The deadline passes: the group of the child is killed and the pipe closed.
Deadline(r) ==
  /\ at[r] = "communicating"
  /\ at' = [at EXCEPT ![r] = "reaping"]
  /\ child' = [child EXCEPT ![r] = IF HasExited(r) THEN @ ELSE "killed"]
  /\ found' = [found EXCEPT ![r] = IF HasExited(r) THEN @ ELSE <<>>]
  /\ helper' = [helper EXCEPT ![r] = IF @ = "running" THEN "killed" ELSE @]
  /\ result' = [result EXCEPT ![r] = [code |-> 0, output |-> NoOutput, timedOut |-> TRUE]]
  /\ UNCHANGED <<setting, service, scratch, reply, held, output, clientVars>>

Reaped(r) ==
  /\ at[r] \in {"reaping", "reaping again"}
  /\ HasExited(r)
  /\ at' = [at EXCEPT ![r] = "collecting"]
  /\ UNCHANGED <<setting, service, scratch, result, reply, childVars, clientVars>>

\* Mutation: the second wait has no bound.
ReapExpiresOnce(r) ==
  /\ at[r] = "reaping"
  /\ ~HasExited(r)
  /\ at' = [at EXCEPT ![r] = "reaping again"]
  /\ UNCHANGED <<setting, service, scratch, result, reply, childVars, clientVars>>

\* The child does not die in time: it is killed once more, then left behind.
ReapExpires(r) ==
  /\ at[r] \in {"reaping", "reaping again"}
  /\ ~HasExited(r)
  /\ at' = [at EXCEPT ![r] = IF @ = "reaping" THEN "reaping again" ELSE "collecting"]
  /\ UNCHANGED <<setting, service, scratch, result, reply, childVars, clientVars>>

\* The directory is removed, the end of the child judged, the answer sent.
Collect(r) ==
  /\ at[r] = "collecting"
  /\ at' = [at EXCEPT ![r] = "answered"]
  /\ scratch' = [scratch EXCEPT ![r] = FALSE]
  /\ reply' = [reply EXCEPT ![r] =
       [verdict |-> Parse(result[r]), outcome |-> ClassifyOutcome(result[r])]]
  /\ UNCHANGED <<setting, service, result, childVars, clientVars>>

-----------------------------------------------------------------------------
(* The child.                                                              *)

Prints(r, verdict) ==
  \E size \in Sizes : output' = [output EXCEPT ![r] = [verdict |-> verdict, size |-> size]]

\* The file has gone, or is no regular file any more: poison.
RefuseFile(r) ==
  /\ child[r] = "reading"
  /\ child' = [child EXCEPT ![r] = "printed"]
  /\ Prints(r, "suspicious")
  /\ UNCHANGED <<helper, held, found, parentVars, clientVars>>

\* The header is read and the filter of the kernel installed.
ReadHeader(r) ==
  /\ child[r] = "reading"
  /\ child' = [child EXCEPT ![r] = "checking"]
  /\ UNCHANGED <<helper, held, found, output, parentVars, clientVars>>

NextCheck(r) == Pipeline[Len(found[r]) + 1]
HasNextCheck(r) == child[r] = "checking" /\ helper[r] = "none" /\ Len(found[r]) < Len(Pipeline)

SniffType(r) ==
  /\ HasNextCheck(r)
  /\ NextCheck(r) = "type_sniff"
  /\ \E status \in Reports("type_sniff") : found' = [found EXCEPT ![r] = Append(@, status)]
  /\ UNCHANGED <<child, helper, held, output, parentVars, clientVars>>

StartHelper(r) ==
  /\ HasNextCheck(r)
  /\ NextCheck(r) # "type_sniff"
  /\ helper' = [helper EXCEPT ![r] = "running"]
  /\ UNCHANGED <<child, held, found, output, parentVars, clientVars>>

\* The helper ends, by itself or by a limit of the kernel.
HelperEnds(r) ==
  /\ child[r] = "checking" /\ helper[r] = "running"
  /\ helper' = [helper EXCEPT ![r] = "none"]
  /\ \E status \in Reports(NextCheck(r)) : found' = [found EXCEPT ![r] = Append(@, status)]
  /\ UNCHANGED <<child, held, output, parentVars, clientVars>>

\* A helper is missing, or outlasts its own deadline: the child ends with an error.
ChildCrashes(r) ==
  /\ child[r] = "checking"
  /\ child' = [child EXCEPT ![r] = "crashed"]
  /\ found' = [found EXCEPT ![r] = <<>>]
  /\ helper' = [helper EXCEPT ![r] = "none"]
  /\ UNCHANGED <<held, output, parentVars, clientVars>>

PrintVerdict(r) ==
  /\ child[r] = "checking" /\ helper[r] = "none" /\ Len(found[r]) = Len(Pipeline)
  /\ child' = [child EXCEPT ![r] = "printed"]
  /\ Prints(r, WorstStatus(found[r]))
  /\ UNCHANGED <<helper, held, found, parentVars, clientVars>>

ExitChild(r) ==
  /\ child[r] = "printed"
  /\ child' = [child EXCEPT ![r] = "exited"]
  /\ UNCHANGED <<helper, held, found, output, parentVars, clientVars>>

-----------------------------------------------------------------------------
(* The kernel.                                                             *)

\* A limit or the memory killer takes the child alone: its helper stays.
KernelKills(r) ==
  /\ child[r] \in {"reading", "checking", "printed"}
  /\ child' = [child EXCEPT ![r] = "crashed"]
  /\ found' = [found EXCEPT ![r] = <<>>]
  /\ UNCHANGED <<helper, held, output, parentVars, clientVars>>

\* A killed child dies, at once or when it leaves the kernel.
KilledDies(r) ==
  /\ child[r] = "killed"
  /\ child' = [child EXCEPT ![r] = "crashed"]
  /\ UNCHANGED <<helper, held, found, output, parentVars, clientVars>>

OrphanEnds(r) ==
  /\ HasExited(r) /\ helper[r] = "running"
  /\ helper' = [helper EXCEPT ![r] = "none"]
  /\ UNCHANGED <<child, held, found, output, parentVars, clientVars>>

\* A process that has left the group keeps the pipe open.
PipeHeld(r) ==
  /\ child[r] = "checking"
  /\ held' = [held EXCEPT ![r] = TRUE]
  /\ UNCHANGED <<child, helper, found, output, parentVars, clientVars>>

-----------------------------------------------------------------------------
ThreadStep(r) ==
  \/ RejectFile(r) \/ Spawn(r) \/ SpawnFails(r)
  \/ Communicated(r) \/ Deadline(r)
  \/ Reaped(r) \/ ReapExpires(r)
  \/ Collect(r)

ChildStep(r) ==
  \/ RefuseFile(r) \/ ReadHeader(r) \/ SniffType(r) \/ StartHelper(r) \/ HelperEnds(r)
  \/ ChildCrashes(r) \/ PrintVerdict(r) \/ ExitChild(r)

KernelStep(r) == KernelKills(r) \/ KilledDies(r) \/ OrphanEnds(r) \/ PipeHeld(r)

VerifierNext ==
  \/ Boot \/ Post
  \/ \E r \in Requests : Receive(r) \/ Unavailable(r)
  \/ \E r \in Requests : ThreadStep(r) \/ ChildStep(r) \/ KernelStep(r)

\* A thread of the service goes on, and its clock does.  Nothing is assumed of
\* the child, of its helpers or of how fast the kernel ends them.
VerifierFairness == \A r \in Requests : WF_verifierVars(ThreadStep(r))

VerifierSpec == VerifierInit /\ [][VerifierNext]_verifierVars /\ VerifierFairness

-----------------------------------------------------------------------------
\* What the crawler is told rests on evidence, however the child, its helper,
\* the deadline and the kernel interleave (egress.parse, pipeline.run): clean
\* only if every configured check ran, each of them found nothing and the child
\* ended by itself; malicious only if a check said so; error only if there was
\* no child at all.
VerdictEarned ==
  \A r \in Requests :
    /\ received[r] = "clean" =>
         /\ child[r] = "exited"
         /\ found[r] # <<>> /\ Len(found[r]) = Len(setting.checks)
         /\ \A i \in DOMAIN found[r] : found[r][i] = "clean"
    /\ received[r] = "malicious" => \E i \in DOMAIN found[r] : found[r][i] = "malicious"
    /\ received[r] = "error" => child[r] = "none"

\* The two readings of the child's end agree (egress.py: parse gives the verdict,
\* classify_outcome the cause, with a copy of the same filters each): outcome ok
\* goes with the verdict the child printed, any incident with suspicious, and a
\* verdict other than suspicious is never filed as an incident.
OutcomeAgrees ==
  \A r \in Requests :
    reply[r].outcome # "none" =>
      IF reply[r].outcome = "ok"
      THEN /\ reply[r].verdict = output[r].verdict
           /\ reply[r].verdict = WorstStatus(found[r]) \/ reply[r].verdict = "suspicious"
      ELSE /\ reply[r].verdict = "suspicious"
           /\ child[r] = "exited" /\ ~result[r].timedOut => output[r].size > setting.egressCap

\* An answered request leaves no directory and no process behind
\* (spawn.py: killpg on the deadline, rmtree in finally): the child has ended or
\* is about to, and a helper that still runs is one whose parent the kernel
\* killed before the deadline, the only end after which nobody kills the group.
NothingLeftBehind ==
  \A r \in Requests :
    at[r] \in {"answered", "failed"} =>
      /\ ~scratch[r]
      /\ child[r] \in {"none", "exited", "crashed", "killed"}
      /\ child[r] = "killed" => result[r].timedOut
      /\ helper[r] = "running" => child[r] = "crashed" /\ ~result[r].timedOut

\* Every request that arrives is answered or fails, even if the child hangs, its
\* helper hangs, a stranger keeps the pipe open or the kernel cannot end the
\* child: each wait of the thread has a bound (spawn.py, _REAP_TIMEOUT_S).
EveryRequestAnswered ==
  \A r \in Requests : at[r] = "arrived" ~> at[r] \in {"answered", "failed"}
=============================================================================
