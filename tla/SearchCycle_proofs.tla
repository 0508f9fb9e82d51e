-------------------------- MODULE SearchCycle_proofs --------------------------
(***************************************************************************)
(* Proofs about the search cycles, for any workers, keywords and bounds.   *)
(***************************************************************************)
EXTENDS SearchCycle, FiniteSetTheorems, TLAPS

\* SearchTypeOK in two parts.
Flags == connected \in [Worker -> BOOLEAN] /\ up \in [Worker -> BOOLEAN]
Shape ==
  /\ pc \in {"coverage", "drain", "write", "save", "sleep"}
  /\ index \in Nat
  /\ queue \in Seq(Item)
  /\ wpc \in [Worker -> {"get", "connect", "search", "pause"}]
  /\ task \in [Worker -> Task \cup {NoTask}]
  /\ fate \in [Task -> Fates]
  /\ blocked \subseteq Key
  /\ saved \in [index : Nat, blocked : SUBSET Key]
  /\ drained \subseteq Nat
  /\ failing \subseteq Worker
  /\ faults \in 0 .. MaxFaults
  /\ \A w \in Worker : wpc[w] \in {"connect", "search"} => task[w] \in Task

LEMMA ShapeInit == SearchInit => Shape
  BY SearchAssumption DEF SearchInit, Shape, Fates, NoFate

LEMMA QueuedItem ==
  ASSUME Shape, queue # <<>>
  PROVE  /\ Top \in Item /\ Top.task \in Task /\ Top.skipped \subseteq Worker
         /\ Front(queue) \in Seq(Item)
         /\ \A i \in DOMAIN Front(queue) : i \in DOMAIN queue /\ Front(queue)[i] = queue[i]
         /\ Len(queue) \in DOMAIN queue /\ Top = queue[Len(queue)]
<1>1. queue \in Seq(Item)
  BY DEF Shape
<1>2. Len(queue) \in Nat /\ Len(queue) # 0 /\ DOMAIN queue = 1 .. Len(queue)
  BY <1>1
<1>3. Len(queue) \in DOMAIN queue /\ Top = queue[Len(queue)]
  BY <1>2 DEF Top, Last
<1>4. Top \in Item
  BY <1>1, <1>2, <1>3
<1>5. /\ Front(queue) \in Seq(Item)
      /\ DOMAIN Front(queue) = 1 .. Len(queue) - 1
      /\ \A i \in 1 .. Len(queue) - 1 : Front(queue)[i] = queue[i]
  BY <1>1, <1>2 DEF Front
<1>6. QED
  BY <1>2, <1>3, <1>4, <1>5 DEF Item

LEMMA CycleQueueType ==
  ASSUME NEW order \in SetToSeqs(Keyword)
  PROVE  /\ CycleQueue(order) \in Seq(Item)
         /\ \A i \in DOMAIN CycleQueue(order) : CycleQueue(order)[i].skipped = {}
<1> DEFINE n == Cardinality(Keyword)
<1>1. n \in Nat
  BY SearchAssumption, FS_CardinalityType
<1>2. order \in [1 .. n -> Keyword]
  BY DEF SetToSeqs
<1>3. order \in Seq(Keyword) /\ Len(order) = n
  BY <1>1, <1>2
<1>4. ASSUME NEW i \in 1 .. 2 * n
      PROVE  /\ CycleQueue(order)[i] \in Item
             /\ CycleQueue(order)[i].skipped = {}
  <2>1. (i + 1) \div 2 \in 1 .. n
    BY <1>1
  <2>2. order[(i + 1) \div 2] \in Keyword
    BY <1>2, <2>1
  <2>3. QED
    BY <1>3, <2>2 DEF CycleQueue, Unrefused, Item, Task, Channel
<1>5. CycleQueue(order) \in [1 .. 2 * n -> Item]
  BY <1>3, <1>4 DEF CycleQueue
<1>6. 2 * n \in Nat
  BY <1>1
<1>7. QED
  BY <1>4, <1>5, <1>6

LEMMA WorkerShape ==
  ASSUME Shape, NEW w \in Worker, WorkerStep(w) \/ StatusFails(w)
  PROVE  Shape'
<1> USE DEF cycleVars
<1>0. faults' \in 0 .. MaxFaults
  BY SearchAssumption
  DEF Shape, WorkerStep, StatusFails, Refuse, Drop, Start, Connect, ConnectFails, Searched,
      SearchFails, Unreachable, PauseEnds, Taking, Fault
<1>1. CASE Refuse(w)
  <2>1. queue # <<>>
    BY <1>1 DEF Refuse, Taking
  <2>2. [Top EXCEPT !.skipped = @ \cup {w}] \in Item
    BY <2>1, QueuedItem DEF Item
  <2>3. queue' \in Seq(Item)
    BY <1>1, <2>1, <2>2, QueuedItem DEF Refuse
  <2>4. QED
    BY <1>0, <1>1, <2>3 DEF Refuse, Taking, Shape
<1>2. CASE Drop(w)
  <2>1. queue # <<>>
    BY <1>2 DEF Drop, Taking
  <2>2. QED
    BY <1>0, <1>2, <2>1, QueuedItem DEF Drop, Taking, Shape, Fates
<1>3. CASE Start(w)
  <2>1. queue # <<>>
    BY <1>3 DEF Start, Taking
  <2>2. QED
    BY <1>0, <1>3, <2>1, QueuedItem DEF Start, Taking, Shape
<1>4. CASE Connect(w)
  BY <1>0, <1>4 DEF Connect, Shape
<1>5. CASE ConnectFails(w)
  BY <1>0, <1>5 DEF ConnectFails, Block, Finish, Shape, Fates, Key
<1>6. CASE Searched(w)
  BY <1>0, <1>6 DEF Searched, Finish, Shape, Fates
<1>7. CASE SearchFails(w)
  BY <1>0, <1>7 DEF SearchFails, Block, Finish, Shape, Fates, Key, Task
<1>8. CASE Unreachable(w)
  BY <1>0, <1>8 DEF Unreachable, Block, Finish, Shape, Fates, Key
<1>9. CASE PauseEnds(w)
  BY <1>0, <1>9 DEF PauseEnds, Shape
<1>10. CASE StatusFails(w)
  BY <1>0, <1>10 DEF StatusFails, Shape
<1>11. QED
  BY <1>1, <1>2, <1>3, <1>4, <1>5, <1>6, <1>7, <1>8, <1>9, <1>10 DEF WorkerStep

LEMMA CycleShape ==
  ASSUME Shape, CycleStep \/ Crash \/ \E key \in Key : BackoffEnds(key)
  PROVE  Shape'
<1> USE DEF cycleVars, workerVars
<1>1. CASE FillQueue
  BY <1>1, CycleQueueType DEF FillQueue, Shape, NoFate, Fates
<1>2. CASE Drained
  BY <1>2 DEF Drained, Shape
<1>3. CASE WriteCycleState
  BY <1>3 DEF WriteCycleState, Shape
<1>4. CASE SaveBackoff
  BY <1>4 DEF SaveBackoff, EndCycle, Shape
<1>5. CASE SaveFails
  BY <1>5, SearchAssumption DEF SaveFails, EndCycle, Fault, Shape
<1>6. CASE WakeUp
  BY <1>6 DEF WakeUp, Shape
<1>7. CASE Crash
  BY <1>7, SearchAssumption DEF Crash, Fault, NoFate, Fates, Shape
<1>8. CASE \E key \in Key : BackoffEnds(key)
  BY <1>8 DEF BackoffEnds, Shape
<1>9. QED
  BY <1>1, <1>2, <1>3, <1>4, <1>5, <1>6, <1>7, <1>8 DEF CycleStep

LEMMA ShapeStep == Shape /\ [SearchNext]_searchVars => Shape'
<1>1. CASE UNCHANGED searchVars
  BY <1>1 DEF searchVars, workerVars, cycleVars, Shape
<1>2. QED
  BY <1>1, WorkerShape, CycleShape DEF SearchNext

LEMMA FlagsInit == SearchInit => Flags
  BY DEF SearchInit, Flags

LEMMA FlagsStep == Flags /\ [SearchNext]_searchVars => Flags'
<1> USE DEF cycleVars, workerVars
<1> SUFFICES ASSUME Flags, [SearchNext]_searchVars PROVE Flags'
  OBVIOUS
<1>1. ASSUME NEW w \in Worker, WorkerStep(w) \/ StatusFails(w) PROVE Flags'
  BY <1>1
  DEF Flags, WorkerStep, StatusFails, Refuse, Drop, Start, Connect, ConnectFails, Searched,
      SearchFails, Unreachable, PauseEnds, Taking
<1>2. CASE Crash \/ CycleStep \/ \E key \in Key : BackoffEnds(key)
  BY <1>2
  DEF Crash, CycleStep, BackoffEnds, FillQueue, Drained, WriteCycleState, SaveBackoff, SaveFails,
      WakeUp, Flags
<1>3. CASE UNCHANGED searchVars
  BY <1>3 DEF searchVars, Flags
<1>4. QED
  BY <1>1, <1>2, <1>3 DEF SearchNext
\* The types of the state of the cycles and their workers.
THEOREM SearchTypes == SearchSpec => []SearchTypeOK
<1>1. Shape /\ Flags => SearchTypeOK
  BY DEF Shape, Flags, SearchTypeOK
<1>2. QED
  BY <1>1, FlagsInit, ShapeInit, ShapeStep, FlagsStep, PTL DEF SearchSpec

-------------------------------------------------------------------------------
(* A cycle that was not drained is not counted.                            *)

DrainedBefore ==
  /\ 0 .. index - 1 \subseteq drained
  /\ 0 .. saved.index - 1 \subseteq drained
  /\ pc \in {"write", "save"} => index \in drained

LEMMA DrainedBeforeStep == Shape /\ DrainedBefore /\ [SearchNext]_searchVars => DrainedBefore'
<1> USE DEF cycleVars, workerVars
<1> SUFFICES ASSUME Shape, DrainedBefore, [SearchNext]_searchVars PROVE DrainedBefore'
  OBVIOUS
<1>0. index \in Nat /\ saved \in [index : Nat, blocked : SUBSET Key]
  BY DEF Shape
<1>1. CASE /\ index' = index /\ saved'.index = saved.index /\ drained \subseteq drained'
           /\ pc' \in {"write", "save"} => pc' = pc \/ index \in drained'
  BY <1>1 DEF DrainedBefore
<1>2. CASE WriteCycleState
  <2>1. saved'.index = index + 1 /\ drained' = drained /\ index' = index /\ index \in drained
    BY <1>0, <1>2 DEF WriteCycleState, DrainedBefore
  <2>2. 0 .. index \subseteq drained
    BY <1>0, <2>1 DEF DrainedBefore
  <2>3. 0 .. saved'.index - 1 = 0 .. index
    BY <1>0, <2>1
  <2>4. QED
    BY <2>1, <2>2, <2>3 DEF DrainedBefore
<1>3. CASE SaveBackoff \/ SaveFails
  <2>1. /\ saved'.index = saved.index /\ drained' = drained /\ index' = index + 1
        /\ index \in drained /\ pc' = "sleep"
    BY <1>0, <1>3 DEF SaveBackoff, SaveFails, EndCycle, DrainedBefore
  <2>2. 0 .. index' - 1 \subseteq drained
    BY <1>0, <2>1 DEF DrainedBefore
  <2>3. QED
    BY <2>1, <2>2 DEF DrainedBefore
<1>4. CASE Crash
  BY <1>0, <1>4 DEF Crash, DrainedBefore
<1>5. CASE Drained
  BY <1>1, <1>5 DEF Drained
<1>6. CASE FillQueue \/ WakeUp \/ UNCHANGED searchVars
  BY <1>1, <1>6 DEF FillQueue, WakeUp, searchVars
<1>7. CASE \E w \in Worker : WorkerStep(w) \/ StatusFails(w)
  BY <1>1, <1>7
  DEF WorkerStep, StatusFails, Refuse, Drop, Start, Connect, ConnectFails, Searched,
      SearchFails, Unreachable, PauseEnds, Taking, Finish
<1>8. CASE \E key \in Key : BackoffEnds(key)
  BY <1>1, <1>8 DEF BackoffEnds
<1>9. QED
  BY <1>2, <1>3, <1>4, <1>5, <1>6, <1>7, <1>8 DEF SearchNext, CycleStep

\* However writes fail and whenever the process ends, it resumes after cycles
\* that were drained to the end, and only after those.
THEOREM CyclesAreDrained == SearchSpec => []NoCycleSkipped
<1>1. SearchInit => DrainedBefore
  BY DEF SearchInit, DrainedBefore
<1>2. DrainedBefore => NoCycleSkipped
  BY DEF DrainedBefore, NoCycleSkipped
<1>3. QED
  BY <1>1, <1>2, ShapeInit, ShapeStep, DrainedBeforeStep, PTL DEF SearchSpec

-------------------------------------------------------------------------------
(* A task is dropped only if every instance has failed.                    *)

FailuresKnown ==
  /\ \A key \in blocked \cup saved.blocked : key[1] \in failing
  /\ \A i \in DOMAIN queue : queue[i].skipped \subseteq failing
  /\ \A t \in Task : fate[t] = "dropped" => failing = Worker

LEMMA RefusesOnlyAfterFailure ==
  ASSUME FailuresKnown, NEW w \in Worker, NEW t, IsBlockedFor(w, t)
  PROVE  w \in failing
  BY DEF IsBlockedFor, FailuresKnown

LEMMA FailuresKnownStep == Shape /\ FailuresKnown /\ [SearchNext]_searchVars => FailuresKnown'
<1> USE DEF cycleVars, workerVars
<1> SUFFICES ASSUME Shape, FailuresKnown, [SearchNext]_searchVars PROVE FailuresKnown'
  OBVIOUS
<1>1. ASSUME NEW w \in Worker, Refuse(w) PROVE FailuresKnown'
  <2>1. queue # <<>> /\ w \in failing
    BY <1>1, RefusesOnlyAfterFailure DEF Refuse, Taking
  <2> DEFINE again == [Top EXCEPT !.skipped = @ \cup {w}]
  <2>2. again \in Item /\ again.skipped \subseteq failing
    BY <2>1, QueuedItem DEF Item, FailuresKnown
  <2>3. queue' = Append(Front(queue), again)
    BY <1>1 DEF Refuse
  <2> HIDE DEF again
  <2>4. \A i \in DOMAIN Front(queue) : Front(queue)[i].skipped \subseteq failing
    BY <2>1, QueuedItem DEF FailuresKnown
  <2>5. \A i \in DOMAIN queue' : queue'[i].skipped \subseteq failing
    BY <2>1, <2>2, <2>3, <2>4, QueuedItem
  <2>6. QED
    BY <1>1, <2>5 DEF Refuse, Taking, FailuresKnown
<1>2. ASSUME NEW w \in Worker, Drop(w) PROVE FailuresKnown'
  <2>1. queue # <<>> /\ w \in failing
    BY <1>2, RefusesOnlyAfterFailure DEF Drop, Taking
  <2>2. Top.skipped \cup {w} \subseteq failing /\ failing \subseteq Worker
    BY <2>1, QueuedItem DEF FailuresKnown, Shape
  <2>3. Cardinality(Top.skipped \cup {w}) <= Cardinality(Worker)
        /\ (Cardinality(Worker) = Cardinality(Top.skipped \cup {w})
              => Worker = Top.skipped \cup {w})
    BY <2>2, SearchAssumption, FS_Subset
  <2>4. /\ Cardinality(Worker) \in Nat /\ Cardinality(Top.skipped \cup {w}) \in Nat
        /\ Cardinality(Top.skipped \cup {w}) >= Cardinality(Worker)
    <3>1. IsFiniteSet(Top.skipped \cup {w})
      BY <2>2, SearchAssumption, FS_Subset
    <3>2. QED
      BY <1>2, <3>1, SearchAssumption, FS_CardinalityType DEF Drop
  <2>5. failing = Worker
    BY <2>2, <2>3, <2>4
  <2>6. QED
    BY <1>2, <2>1, <2>5, QueuedItem DEF Drop, Taking, FailuresKnown
<1>3. ASSUME NEW w \in Worker, Start(w) PROVE FailuresKnown'
  BY <1>3, QueuedItem DEF Start, Taking, FailuresKnown
<1>4. ASSUME NEW w \in Worker, ConnectFails(w) \/ SearchFails(w) \/ Unreachable(w)
      PROVE  FailuresKnown'
  <2>1. PICK what : blocked' = blocked \cup {<<w, what>>}
    BY <1>4 DEF ConnectFails, SearchFails, Unreachable, Block
  <2>2. /\ failing' = failing \cup {w} /\ queue' = queue /\ saved' = saved
        /\ fate' = [fate EXCEPT ![task[w]] = "abandoned"]
    BY <1>4 DEF ConnectFails, SearchFails, Unreachable, Block, Finish
  <2>3. failing = Worker => failing' = Worker
    BY <2>2
  <2>4. \A t \in Task : fate'[t] = "dropped" => fate[t] = "dropped"
    BY <2>2 DEF Shape
  <2>5. QED
    BY <2>1, <2>2, <2>3, <2>4 DEF FailuresKnown
<1>5. ASSUME NEW w \in Worker, Searched(w) PROVE FailuresKnown'
  BY <1>5 DEF Searched, Finish, FailuresKnown, Shape
<1>6. ASSUME NEW w \in Worker, Connect(w) \/ PauseEnds(w) \/ StatusFails(w)
      PROVE  FailuresKnown'
  BY <1>6 DEF Connect, PauseEnds, StatusFails, FailuresKnown
<1>7. CASE \E key \in Key : BackoffEnds(key)
  BY <1>7 DEF BackoffEnds, FailuresKnown
<1>8. CASE FillQueue
  BY <1>8, CycleQueueType DEF FillQueue, NoFate, FailuresKnown
<1>9. CASE WriteCycleState \/ SaveBackoff
  BY <1>9 DEF WriteCycleState, SaveBackoff, EndCycle, FailuresKnown, Shape
<1>10. CASE Drained \/ SaveFails \/ WakeUp \/ UNCHANGED searchVars
  BY <1>10 DEF Drained, SaveFails, EndCycle, WakeUp, searchVars, FailuresKnown
<1>11. CASE Crash
  BY <1>11 DEF Crash, NoFate, FailuresKnown
<1>12. QED
  BY <1>1, <1>2, <1>3, <1>4, <1>5, <1>6, <1>7, <1>8, <1>9, <1>10, <1>11
  DEF SearchNext, WorkerStep, CycleStep

\* An instance that never failed refuses nothing, so a task is dropped only if
\* every instance has been put in backoff.
THEOREM DropsAreForced == SearchSpec => []DropsNeedAllFailed
<1>1. SearchInit => FailuresKnown
  BY DEF SearchInit, NoFate, FailuresKnown
<1>2. FailuresKnown => DropsNeedAllFailed
  BY DEF FailuresKnown, DropsNeedAllFailed
<1>3. QED
  BY <1>1, <1>2, ShapeInit, ShapeStep, FailuresKnownStep, PTL DEF SearchSpec
-------------------------------------------------------------------------------
(* Every search given up is paid for.                                      *)

Abandoned == {t \in Task : fate[t] = "abandoned"}

\* The workers that will lose one more search before they notice.
Deceived == {w \in Worker : connected[w] /\ ~up[w]}

\* Where a worker connects, it believes that it is not connected; where it
\* searches, it believes that it is.
BeliefFollowed ==
  \A w \in Worker :
    /\ wpc[w] = "connect" => ~connected[w]
    /\ wpc[w] = "search" => connected[w]

LossesCounted == Cardinality(Abandoned) + Cardinality(Deceived) <= faults

LEMMA BeliefStep ==
  Shape /\ Flags /\ BeliefFollowed /\ [SearchNext]_searchVars => BeliefFollowed'
<1> USE DEF cycleVars, workerVars
<1> SUFFICES ASSUME Shape, Flags, BeliefFollowed, [SearchNext]_searchVars
             PROVE  BeliefFollowed'
  OBVIOUS
<1>1. ASSUME NEW w \in Worker, WorkerStep(w) PROVE BeliefFollowed'
  BY <1>1
  DEF Shape, Flags, BeliefFollowed, WorkerStep, Refuse, Drop, Start, Connect, ConnectFails, Searched,
      SearchFails, Unreachable, PauseEnds, Taking, Finish
<1>2. CASE wpc' = wpc /\ connected' = connected
  BY <1>2 DEF BeliefFollowed
<1>3. CASE Crash
  BY <1>3 DEF Crash, BeliefFollowed
<1>4. QED
  BY <1>1, <1>2, <1>3
  DEF SearchNext, CycleStep, StatusFails, BackoffEnds, FillQueue, Drained, WriteCycleState,
      SaveBackoff, SaveFails, WakeUp, searchVars

LEMMA TaskIsFinite == IsFiniteSet(Task)
<1>1. IsFiniteSet(Keyword) /\ IsFiniteSet(Channel)
  <2>1. IsFiniteSet({"global"})
    BY FS_Singleton
  <2>2. IsFiniteSet({"global"} \cup {"kad"})
    BY <2>1, FS_AddElement
  <2>3. Channel = {"global"} \cup {"kad"}
    BY DEF Channel
  <2>4. QED
    BY <2>2, <2>3, SearchAssumption
<1>2. QED
  BY <1>1, FS_Product DEF Task

LEMMA CountsAreNumbers ==
  /\ IsFiniteSet(Abandoned) /\ IsFiniteSet(Deceived)
  /\ Cardinality(Abandoned) \in Nat /\ Cardinality(Deceived) \in Nat
  /\ (IsFiniteSet(Abandoned) /\ IsFiniteSet(Deceived))'
  /\ (Cardinality(Abandoned) \in Nat /\ Cardinality(Deceived) \in Nat)'
<1>1. Abandoned \subseteq Task /\ Deceived \subseteq Worker
  BY DEF Abandoned, Deceived
<1>2. (Abandoned \subseteq Task /\ Deceived \subseteq Worker)'
  BY DEF Abandoned, Deceived
<1>3. QED
  BY <1>1, <1>2, TaskIsFinite, SearchAssumption, FS_Subset, FS_CardinalityType

\* A step that gives nothing up and deceives nobody keeps the account.
LEMMA NothingLost ==
  ASSUME LossesCounted, faults \in Nat, faults' = faults,
         Abandoned' \subseteq Abandoned, Deceived' \subseteq Deceived
  PROVE  LossesCounted'
<1>1. Cardinality(Abandoned') <= Cardinality(Abandoned)
  BY CountsAreNumbers, FS_Subset
<1>2. Cardinality(Deceived') <= Cardinality(Deceived)
  BY CountsAreNumbers, FS_Subset
<1>3. QED
  BY <1>1, <1>2, CountsAreNumbers DEF LossesCounted

\* One more loss, which a fault pays for.
LEMMA LossOfAFault ==
  ASSUME LossesCounted, faults \in Nat, faults' = faults + 1,
         NEW t, NEW w,
         \/ Abandoned' \subseteq Abandoned \cup {t} /\ Deceived' \subseteq Deceived
         \/ Abandoned' \subseteq Abandoned /\ Deceived' \subseteq Deceived \cup {w}
  PROVE  LossesCounted'
<1>1. /\ IsFiniteSet(Abandoned \cup {t})
      /\ Cardinality(Abandoned \cup {t}) <= Cardinality(Abandoned) + 1
      /\ IsFiniteSet(Deceived \cup {w})
      /\ Cardinality(Deceived \cup {w}) <= Cardinality(Deceived) + 1
  <2>1. /\ IsFiniteSet(Abandoned) /\ IsFiniteSet(Deceived)
        /\ Cardinality(Abandoned) \in Nat /\ Cardinality(Deceived) \in Nat
    BY CountsAreNumbers
  <2>2. /\ IsFiniteSet(Abandoned \cup {t})
        /\ Cardinality(Abandoned \cup {t}) =
             IF t \in Abandoned THEN Cardinality(Abandoned) ELSE Cardinality(Abandoned) + 1
    BY <2>1, FS_AddElement
  <2>3. /\ IsFiniteSet(Deceived \cup {w})
        /\ Cardinality(Deceived \cup {w}) =
             IF w \in Deceived THEN Cardinality(Deceived) ELSE Cardinality(Deceived) + 1
    BY <2>1, FS_AddElement
  <2>4. QED
    BY <2>1, <2>2, <2>3
<1>2. /\ Cardinality(Abandoned \cup {t}) \in Nat /\ Cardinality(Deceived \cup {w}) \in Nat
  BY <1>1, FS_CardinalityType
<1>3. CASE Abandoned' \subseteq Abandoned \cup {t} /\ Deceived' \subseteq Deceived
  <2>1. Cardinality(Abandoned') <= Cardinality(Abandoned \cup {t})
    BY <1>1, <1>3, FS_Subset
  <2>2. Cardinality(Deceived') <= Cardinality(Deceived)
    BY <1>3, CountsAreNumbers, FS_Subset
  <2>3. QED
    BY <1>1, <1>2, <2>1, <2>2, CountsAreNumbers DEF LossesCounted
<1>4. CASE Abandoned' \subseteq Abandoned /\ Deceived' \subseteq Deceived \cup {w}
  <2>1. Cardinality(Deceived') <= Cardinality(Deceived \cup {w})
    BY <1>1, <1>4, FS_Subset
  <2>2. Cardinality(Abandoned') <= Cardinality(Abandoned)
    BY <1>4, CountsAreNumbers, FS_Subset
  <2>3. QED
    BY <1>1, <1>2, <2>1, <2>2, CountsAreNumbers DEF LossesCounted
<1>5. QED
  BY <1>3, <1>4

\* A deceived worker loses one search, and notices.
LEMMA DeceivedNotices ==
  ASSUME LossesCounted, faults \in Nat, faults' = faults,
         NEW t, NEW w \in Deceived,
         Abandoned' \subseteq Abandoned \cup {t}, Deceived' \subseteq Deceived \ {w}
  PROVE  LossesCounted'
<1>1. /\ IsFiniteSet(Abandoned \cup {t})
      /\ Cardinality(Abandoned \cup {t}) <= Cardinality(Abandoned) + 1
      /\ IsFiniteSet(Deceived \ {w})
      /\ Cardinality(Deceived \ {w}) = Cardinality(Deceived) - 1
  <2>1. /\ IsFiniteSet(Abandoned) /\ IsFiniteSet(Deceived)
        /\ Cardinality(Abandoned) \in Nat /\ Cardinality(Deceived) \in Nat
    BY CountsAreNumbers
  <2>2. /\ IsFiniteSet(Abandoned \cup {t})
        /\ Cardinality(Abandoned \cup {t}) =
             IF t \in Abandoned THEN Cardinality(Abandoned) ELSE Cardinality(Abandoned) + 1
    BY <2>1, FS_AddElement
  <2>3. /\ IsFiniteSet(Deceived \ {w})
        /\ Cardinality(Deceived \ {w}) = Cardinality(Deceived) - 1
    BY <2>1, FS_RemoveElement
  <2>4. QED
    BY <2>1, <2>2, <2>3
<1>2. /\ Cardinality(Abandoned \cup {t}) \in Nat /\ Cardinality(Deceived \ {w}) \in Nat
  BY <1>1, FS_CardinalityType
<1>3. Cardinality(Abandoned') <= Cardinality(Abandoned \cup {t})
  BY <1>1, FS_Subset
<1>4. Cardinality(Deceived') <= Cardinality(Deceived \ {w})
  BY <1>1, FS_Subset
<1>5. QED
  BY <1>1, <1>2, <1>3, <1>4, CountsAreNumbers DEF LossesCounted

LEMMA LossesCountedStep ==
  Shape /\ Flags /\ BeliefFollowed /\ LossesCounted /\ [SearchNext]_searchVars => LossesCounted'
<1> USE DEF cycleVars, workerVars
<1> SUFFICES ASSUME Shape, Flags, BeliefFollowed, LossesCounted, [SearchNext]_searchVars
             PROVE  LossesCounted'
  OBVIOUS
<1>0. faults \in Nat
  BY SearchAssumption DEF Shape
<1>1. ASSUME NEW w \in Worker, ConnectFails(w) \/ SearchFails(w) PROVE LossesCounted'
  <2>1. /\ faults' = faults + 1 /\ connected' = connected /\ up' = up
        /\ fate' = [fate EXCEPT ![task[w]] = "abandoned"]
    BY <1>1 DEF ConnectFails, SearchFails, Finish, Fault
  <2>2. Abandoned' \subseteq Abandoned \cup {task[w]} /\ Deceived' \subseteq Deceived
    BY <2>1 DEF Abandoned, Deceived, Shape
  <2>3. QED
    BY <1>0, <2>1, <2>2, LossOfAFault
<1>2. ASSUME NEW w \in Worker, Unreachable(w) PROVE LossesCounted'
  <2>1. /\ fate' = [fate EXCEPT ![task[w]] = "abandoned"]
        /\ connected' = [connected EXCEPT ![w] = FALSE]
        /\ \A q \in Worker \ {w} : up'[q] = up[q]
        /\ faults' = IF up[w] THEN faults + 1 ELSE faults
        /\ connected[w]
    <3>1. connected[w]
      BY <1>2 DEF Unreachable, BeliefFollowed
    <3>2. \A q \in Worker \ {w} : up'[q] = up[q]
      BY <1>2 DEF Unreachable, Flags
    <3>3. faults' = IF up[w] THEN faults + 1 ELSE faults
      BY <1>2 DEF Unreachable, Fault
    <3>4. QED
      BY <1>2, <3>1, <3>2, <3>3 DEF Unreachable, Finish
  <2>2. Abandoned' \subseteq Abandoned \cup {task[w]}
    BY <2>1 DEF Abandoned, Shape
  <2>3. \A q \in Worker : q # w => connected'[q] = connected[q]
    BY <2>1 DEF Flags
  <2>4. w \notin Deceived'
    BY <2>1 DEF Deceived, Flags
  <2>5. Deceived' \subseteq Deceived \ {w}
    BY <2>1, <2>3, <2>4 DEF Deceived
  <2>6. CASE up[w]
    BY <1>0, <2>1, <2>2, <2>5, <2>6, LossOfAFault
  <2>7. CASE ~up[w]
    <3>1. w \in Deceived
      BY <2>1, <2>7 DEF Deceived
    <3>2. QED
      BY <1>0, <2>1, <2>2, <2>5, <2>7, <3>1, DeceivedNotices
  <2>8. QED
    BY <2>6, <2>7
<1>3. ASSUME NEW w \in Worker, StatusFails(w) PROVE LossesCounted'
  <2>1. faults' = faults + 1 /\ Abandoned' = Abandoned /\ Deceived' \subseteq Deceived \cup {w}
    BY <1>3 DEF StatusFails, Fault, Abandoned, Deceived
  <2>2. QED
    BY <1>0, <2>1, LossOfAFault
<1>4. ASSUME NEW w \in Worker, Connect(w) PROVE LossesCounted'
  <2>1. /\ up' = [up EXCEPT ![w] = TRUE]
        /\ connected' = [connected EXCEPT ![w] = TRUE]
        /\ fate' = fate /\ faults' = faults
    BY <1>4 DEF Connect
  <2>2. Deceived' \subseteq Deceived /\ Abandoned' = Abandoned
    BY <2>1 DEF Deceived, Abandoned, Flags
  <2>3. QED
    BY <1>0, <2>1, <2>2, NothingLost
<1>5. ASSUME NEW w \in Worker, Drop(w) \/ Searched(w) PROVE LossesCounted'
  <2>1. /\ faults' = faults /\ connected' = connected /\ up' = up
        /\ \E t : \E f \in {"dropped", "searched"} : fate' = [fate EXCEPT ![t] = f]
    BY <1>5 DEF Drop, Searched, Taking, Finish
  <2>2. Deceived' = Deceived /\ Abandoned' \subseteq Abandoned
    BY <2>1 DEF Deceived, Abandoned, Shape
  <2>3. QED
    BY <1>0, <2>1, <2>2, NothingLost
<1>6. CASE /\ faults' = faults \/ faults' = faults + 1
           /\ fate' = fate \/ fate' = NoFate
           /\ connected' = connected /\ up' = up
  <2>1. Deceived' = Deceived /\ Abandoned' \subseteq Abandoned
    BY <1>6 DEF Deceived, Abandoned, NoFate
  <2>2. QED
    BY <1>0, <1>6, <2>1, NothingLost, LossOfAFault
<1>7. ASSUME NEW w \in Worker, Refuse(w) \/ Start(w) \/ PauseEnds(w) PROVE LossesCounted'
  BY <1>6, <1>7 DEF Refuse, Start, PauseEnds, Taking
<1>8. CASE \E key \in Key : BackoffEnds(key)
  BY <1>6, <1>8 DEF BackoffEnds
<1>9. CASE CycleStep \/ UNCHANGED searchVars
  BY <1>6, <1>9
  DEF CycleStep, FillQueue, Drained, WriteCycleState, SaveBackoff, SaveFails, EndCycle, WakeUp,
      Fault, searchVars
<1>10. CASE Crash
  <2>1. faults' = faults + 1 /\ Abandoned' = {} /\ Deceived' = {}
    BY <1>10 DEF Crash, Fault, NoFate, Abandoned, Deceived
  <2>2. QED
    BY <1>0, <2>1, LossOfAFault
<1>11. QED
  BY <1>1, <1>2, <1>3, <1>4, <1>5, <1>7, <1>8, <1>9, <1>10 DEF SearchNext, WorkerStep

\* The searches a cycle gives up never outnumber the failures: losing its
\* transport costs a worker one search, not the ones after it.
THEOREM LossesArePaid == SearchSpec => []LossPaid
<1>1. SearchInit => BeliefFollowed /\ LossesCounted
  <2>1. ASSUME SearchInit PROVE BeliefFollowed
    BY <2>1 DEF SearchInit, BeliefFollowed
  <2>2. ASSUME SearchInit PROVE LossesCounted
    <3>1. Abandoned = {} /\ Deceived = {} /\ faults = 0
      BY <2>2 DEF SearchInit, NoFate, Abandoned, Deceived
    <3>2. QED
      BY <3>1, FS_EmptySet DEF LossesCounted
  <2>3. QED
    BY <2>1, <2>2
<1>2. Shape /\ LossesCounted => LossPaid
  <2>1. ASSUME Shape, LossesCounted PROVE LossPaid
    <3>1. faults \in Nat
      BY <2>1, SearchAssumption DEF Shape
    <3>2. Cardinality(Abandoned) <= faults
      BY <2>1, <3>1, CountsAreNumbers DEF LossesCounted
    <3>3. QED
      BY <3>2 DEF Abandoned, LossPaid
  <2>2. QED
    BY <2>1
<1>3. QED
  BY <1>1, <1>2, ShapeInit, ShapeStep, FlagsInit, FlagsStep, BeliefStep, LossesCountedStep,
     PTL DEF SearchSpec
-------------------------------------------------------------------------------
(* A task of the cycle is in one place.                                     *)

IsQueued(t) == \E i \in DOMAIN queue : queue[i].task = t
IsRunning(t) == \E w \in Worker : task[w] = t

\* TasksConserved without counting.
OnePlace ==
  /\ \A i, j \in DOMAIN queue : queue[i].task = queue[j].task => i = j
  /\ \A v, w \in Worker : task[v] = task[w] /\ task[v] # NoTask => v = w
  /\ \A i \in DOMAIN queue, w \in Worker : queue[i].task # task[w]
  /\ \A t \in Task : fate[t] = "open" <=> IsQueued(t) \/ IsRunning(t)

\* Outside of the drain no worker has anything to do.
Idle == \A w \in Worker : wpc[w] = "get"

Placed ==
  /\ \A w \in Worker : wpc[w] \in {"get", "pause"} => task[w] = NoTask
  /\ pc = "drain" => OnePlace
  /\ pc # "drain" => Idle

\* The queue of a cycle has each keyword on both channels, once.
LEMMA CycleQueueTasks ==
  ASSUME NEW order \in SetToSeqs(Keyword)
  PROVE  /\ \A i, j \in DOMAIN CycleQueue(order) :
              CycleQueue(order)[i].task = CycleQueue(order)[j].task => i = j
         /\ \A t \in Task : \E i \in DOMAIN CycleQueue(order) : CycleQueue(order)[i].task = t
<1> DEFINE n == Cardinality(Keyword)
           q == CycleQueue(order)
<1>1. n \in Nat /\ IsFiniteSet(Keyword)
  BY SearchAssumption, FS_CardinalityType
<1>2. /\ order \in [1 .. n -> Keyword]
      /\ \A k, l \in 1 .. n : order[k] = order[l] => k = l
  BY DEF SetToSeqs
<1>3. Len(order) = n
  BY <1>1, <1>2
<1>4. /\ DOMAIN q = 1 .. 2 * n
      /\ \A i \in 1 .. 2 * n :
           q[i].task = <<order[(i + 1) \div 2], IF i % 2 = 1 THEN "global" ELSE "kad">>
  BY <1>3 DEF CycleQueue, Unrefused
<1>5. ASSUME NEW i \in 1 .. 2 * n, NEW j \in 1 .. 2 * n, q[i].task = q[j].task
      PROVE  i = j
  <2>1. (i + 1) \div 2 \in 1 .. n /\ (j + 1) \div 2 \in 1 .. n
    BY <1>1
  <2>2. order[(i + 1) \div 2] = order[(j + 1) \div 2] /\ (i % 2 = 1 <=> j % 2 = 1)
    BY <1>4, <1>5
  <2>3. (i + 1) \div 2 = (j + 1) \div 2
    BY <1>2, <2>1, <2>2
  <2>4. QED
    BY <1>1, <2>2, <2>3
<1>6. ASSUME NEW t \in Task PROVE \E i \in 1 .. 2 * n : q[i].task = t
  <2>1. order \in Surjection(1 .. n, Keyword)
    <3>1. order \in Injection(1 .. n, Keyword)
      BY <1>2 DEF Injection, IsInjective
    <3>2. Cardinality(1 .. n) = n
      BY <1>1, FS_Interval
    <3>3. QED
      BY <1>1, <3>1, <3>2, FS_Injection
  <2>2. PICK k \in 1 .. n : order[k] = t[1]
    BY <2>1 DEF Surjection, Task
  <2>3. t = <<t[1], t[2]>> /\ t[2] \in {"global", "kad"}
    BY DEF Task, Channel
  <2>4. CASE t[2] = "global"
    <3>1. 2 * k - 1 \in 1 .. 2 * n /\ ((2 * k - 1) + 1) \div 2 = k /\ (2 * k - 1) % 2 = 1
      BY <1>1
    <3>2. q[2 * k - 1].task = <<order[k], "global">>
      BY <1>4, <3>1
    <3>3. QED
      BY <2>2, <2>3, <2>4, <3>1, <3>2
  <2>5. CASE t[2] = "kad"
    <3>1. 2 * k \in 1 .. 2 * n /\ (2 * k + 1) \div 2 = k /\ (2 * k) % 2 = 0
      BY <1>1
    <3>2. q[2 * k].task = <<order[k], "kad">>
      BY <1>4, <3>1
    <3>3. QED
      BY <2>2, <2>3, <2>5, <3>1, <3>2
  <2>6. QED
    BY <2>3, <2>4, <2>5
<1>7. QED
  BY <1>4, <1>5, <1>6

\* The task on top and those below it.
LEMMA TopIsApart ==
  ASSUME Shape, OnePlace, queue # <<>>
  PROVE  /\ DOMAIN queue = DOMAIN Front(queue) \cup {Len(queue)}
         /\ Len(queue) \notin DOMAIN Front(queue)
         /\ \A i \in DOMAIN Front(queue) : Front(queue)[i].task # Top.task
         /\ \A t : IsQueued(t) <=>
              t = Top.task \/ \E i \in DOMAIN Front(queue) : Front(queue)[i].task = t
<1>1. /\ DOMAIN queue = DOMAIN Front(queue) \cup {Len(queue)}
      /\ Len(queue) \notin DOMAIN Front(queue)
  <2>1. queue \in Seq(Item) /\ Len(queue) \in Nat \ {0} /\ DOMAIN queue = 1 .. Len(queue)
    BY DEF Shape
  <2>2. DOMAIN Front(queue) = 1 .. Len(queue) - 1
    BY <2>1 DEF Front
  <2>3. QED
    BY <2>1, <2>2
<1>2. QED
  BY <1>1, QueuedItem DEF OnePlace, IsQueued

LEMMA ItemTask ==
  ASSUME NEW q \in Seq(Item)
  PROVE  \A i \in DOMAIN q : q[i].task \in Task
<1>1. \A i \in DOMAIN q : q[i] \in Item
  OBVIOUS
<1>2. QED
  BY <1>1 DEF Item

\* A worker's task is settled: nothing else moves.
LEMMA SettlingKeepsPlaces ==
  ASSUME Shape, OnePlace, NEW w \in Worker, task[w] \in Task,
         NEW f \in Fates \ {"open"},
         fate' = [fate EXCEPT ![task[w]] = f],
         task' = [task EXCEPT ![w] = NoTask],
         queue' = queue
  PROVE  OnePlace'
<1>1. \A v \in Worker \ {w} : task'[v] = task[v] /\ task[v] # task[w]
  BY NoTaskAssumption DEF Shape, OnePlace
<1>2. task'[w] = NoTask
  BY DEF Shape
<1>3. \A t \in Task \ {task[w]} : fate'[t] = fate[t]
  BY DEF Shape
<1>4. fate'[task[w]] # "open"
  BY DEF Shape
<1>5. \A i \in DOMAIN queue : queue[i].task \in Task
  BY ItemTask DEF Shape
<1>6. \A t : IsQueued(t)' <=> IsQueued(t)
  BY DEF IsQueued
<1>7. ASSUME NEW t \in Task PROVE fate'[t] = "open" <=> IsQueued(t)' \/ IsRunning(t)'
  <2>1. CASE t = task[w]
    <3>1. ~IsQueued(t) /\ ~IsRunning(t)'
      BY <1>1, <1>2, <2>1, NoTaskAssumption DEF IsRunning, IsQueued, OnePlace
    <3>2. QED
      BY <1>4, <1>6, <2>1, <3>1
  <2>2. CASE t # task[w]
    <3>1. IsRunning(t)' <=> IsRunning(t)
      BY <1>1, <1>2, <2>2, NoTaskAssumption DEF IsRunning
    <3>2. QED
      BY <1>3, <1>6, <2>2, <3>1 DEF OnePlace
  <2>3. QED
    BY <2>1, <2>2
<1>8. \A v, u \in Worker : task'[v] = task'[u] /\ task'[v] # NoTask => v = u
  BY <1>1, <1>2 DEF OnePlace
<1>9. \A i \in DOMAIN queue, v \in Worker : queue[i].task # task'[v]
  BY <1>1, <1>2, <1>5, NoTaskAssumption DEF OnePlace
<1>10. \A i, j \in DOMAIN queue' : queue'[i].task = queue'[j].task => i = j
  BY DEF OnePlace
<1>11. QED
  BY <1>7, <1>8, <1>9, <1>10 DEF OnePlace

\* The top leaves the queue, and goes back to it, to a worker or to its fate.
LEMMA TakingKeepsPlaces ==
  ASSUME Shape, Placed, NEW w \in Worker, Refuse(w) \/ Drop(w) \/ Start(w)
  PROVE  OnePlace'
<1> DEFINE below == Front(queue)
<1>1. /\ queue # <<>> /\ OnePlace /\ task[w] = NoTask
  BY DEF Refuse, Drop, Start, Taking, Placed
<1>2. /\ Top.task \in Task
      /\ Len(queue) \in DOMAIN queue /\ queue[Len(queue)].task = Top.task
      /\ \A i \in DOMAIN below : /\ i \in DOMAIN queue
                                 /\ below[i] = queue[i]
                                 /\ below[i].task # Top.task
      /\ \A t : IsQueued(t) <=> t = Top.task \/ \E i \in DOMAIN below : below[i].task = t
      /\ below \in Seq(Item) /\ Top \in Item
  BY <1>1, QueuedItem, TopIsApart
<1> HIDE DEF below
<1>3. /\ \A i, j \in DOMAIN below : below[i].task = below[j].task => i = j
      /\ \A i \in DOMAIN below, v \in Worker : below[i].task # task[v]
      /\ \A v \in Worker : task[v] # Top.task
  BY <1>1, <1>2 DEF OnePlace
<1>4. ~IsRunning(Top.task)
  BY <1>3 DEF IsRunning
<1>5. CASE Refuse(w)
  <2> DEFINE again == [Top EXCEPT !.skipped = @ \cup {w}]
  <2>1. again \in Item /\ again.task = Top.task
    BY <1>2 DEF Item
  <2>2. queue' = Append(below, again) /\ task' = task /\ fate' = fate
    BY <1>5 DEF Refuse, below
  <2> HIDE DEF again
  <2>3. /\ DOMAIN queue' = DOMAIN below \cup {Len(below) + 1}
        /\ queue'[Len(below) + 1] = again
        /\ \A i \in DOMAIN below : queue'[i] = below[i] /\ i # Len(below) + 1
    BY <1>2, <2>1, <2>2
  <2>4. \A t : IsQueued(t)' <=> t = Top.task \/ \E i \in DOMAIN below : below[i].task = t
    BY <2>1, <2>3 DEF IsQueued
  <2>5. \A t \in Task : fate'[t] = "open" <=> IsQueued(t)' \/ IsRunning(t)'
    BY <1>1, <1>2, <2>2, <2>4 DEF OnePlace, IsRunning
  <2>6. \A i, j \in DOMAIN queue' : queue'[i].task = queue'[j].task => i = j
    BY <1>2, <1>3, <2>1, <2>3
  <2>7. \A i \in DOMAIN queue', v \in Worker : queue'[i].task # task'[v]
    BY <1>3, <2>1, <2>2, <2>3
  <2>8. QED
    BY <1>1, <2>2, <2>5, <2>6, <2>7 DEF OnePlace
<1>6. CASE Drop(w)
  <2>1. queue' = below /\ task' = task /\ fate' = [fate EXCEPT ![Top.task] = "dropped"]
    BY <1>6 DEF Drop, below
  <2>2. fate'[Top.task] # "open" /\ \A t \in Task \ {Top.task} : fate'[t] = fate[t]
    BY <1>2, <2>1 DEF Shape
  <2>3. \A t : IsQueued(t)' <=> \E i \in DOMAIN below : below[i].task = t
    BY <2>1 DEF IsQueued
  <2>4. \A t \in Task : fate'[t] = "open" <=> IsQueued(t)' \/ IsRunning(t)'
    BY <1>1, <1>2, <1>4, <2>1, <2>2, <2>3 DEF OnePlace, IsRunning
  <2>5. QED
    BY <1>1, <1>3, <2>1, <2>4 DEF OnePlace
<1>7. CASE Start(w)
  <2>1. queue' = below /\ task' = [task EXCEPT ![w] = Top.task] /\ fate' = fate
    BY <1>7 DEF Start, below
  <2>2. task'[w] = Top.task /\ \A v \in Worker \ {w} : task'[v] = task[v]
    BY <2>1 DEF Shape
  <2>3. \A t : IsQueued(t)' <=> \E i \in DOMAIN below : below[i].task = t
    BY <2>1 DEF IsQueued
  <2>4. \A t \in Task : IsRunning(t)' <=> t = Top.task \/ IsRunning(t)
    BY <1>1, <2>2, NoTaskAssumption DEF IsRunning
  <2>5. \A t \in Task : fate'[t] = "open" <=> IsQueued(t)' \/ IsRunning(t)'
    BY <1>1, <1>2, <2>1, <2>3, <2>4 DEF OnePlace
  <2>6. \A v, u \in Worker : task'[v] = task'[u] /\ task'[v] # NoTask => v = u
    BY <1>1, <1>3, <2>2 DEF OnePlace
  <2>7. \A i \in DOMAIN queue', v \in Worker : queue'[i].task # task'[v]
    BY <1>2, <1>3, <2>1, <2>2
  <2>8. QED
    BY <1>3, <2>1, <2>5, <2>6, <2>7 DEF OnePlace
<1>8. QED
  BY <1>5, <1>6, <1>7

LEMMA PlacedStep == Shape /\ Placed /\ [SearchNext]_searchVars => Placed'
<1> USE DEF cycleVars, workerVars
<1> SUFFICES ASSUME Shape, Placed, [SearchNext]_searchVars PROVE Placed'
  OBVIOUS
<1>1. ASSUME NEW w \in Worker, Refuse(w) \/ Drop(w) \/ Start(w) PROVE Placed'
  <2>1. OnePlace'
    BY <1>1, TakingKeepsPlaces
  <2>2. pc = "drain" /\ pc' = pc /\ wpc[w] = "get"
    BY <1>1 DEF Refuse, Drop, Start, Taking
  <2>3. \A v \in Worker : wpc'[v] \in {"get", "pause"} => task'[v] = NoTask
    BY <1>1 DEF Refuse, Drop, Start, Placed, Shape
  <2>4. QED
    BY <2>1, <2>2, <2>3 DEF Placed
<1>2. ASSUME NEW w \in Worker, ConnectFails(w) \/ Searched(w) \/ SearchFails(w) \/ Unreachable(w)
      PROVE  Placed'
  <2>1. PICK f \in {"searched", "abandoned"} : Finish(w, f)
    BY <1>2 DEF ConnectFails, Searched, SearchFails, Unreachable
  <2>2. wpc[w] \in {"connect", "search"}
    BY <1>2 DEF ConnectFails, Searched, SearchFails, Unreachable
  <2>3. task[w] \in Task /\ pc = "drain" /\ OnePlace
    BY <2>2 DEF Shape, Placed, Idle
  <2>4. /\ fate' = [fate EXCEPT ![task[w]] = f]
        /\ task' = [task EXCEPT ![w] = NoTask]
        /\ queue' = queue /\ pc' = pc
    BY <2>1 DEF Finish
  <2>5. f \in Fates \ {"open"}
    BY DEF Fates
  <2>6. OnePlace'
    BY <2>3, <2>4, <2>5, SettlingKeepsPlaces
  <2>7. \A v \in Worker : wpc'[v] \in {"get", "pause"} => task'[v] = NoTask
    BY <2>1 DEF Finish, Placed, Shape
  <2>8. QED
    BY <2>3, <2>4, <2>6, <2>7 DEF Placed
<1>3. CASE UNCHANGED <<queue, task, fate, wpc, pc>>
  BY <1>3 DEF Placed, OnePlace, Idle, IsQueued, IsRunning
<1>4. ASSUME NEW w \in Worker, Connect(w) \/ PauseEnds(w) PROVE Placed'
  <2>1. /\ UNCHANGED <<queue, task, fate, pc>> /\ pc = "drain"
        /\ \A v \in Worker \ {w} : wpc'[v] = wpc[v]
        /\ wpc'[w] = "search" \/ (wpc'[w] = "get" /\ wpc[w] = "pause")
    BY <1>4 DEF Connect, PauseEnds, Placed, Idle, Shape
  <2>2. OnePlace'
    BY <2>1 DEF Placed, OnePlace, IsQueued, IsRunning
  <2>3. QED
    BY <2>1, <2>2 DEF Placed
<1>5. CASE FillQueue
  <2>1. /\ pc # "drain" /\ pc' = "drain" /\ wpc' = wpc /\ task' = task
        /\ fate' = NoFate
    BY <1>5 DEF FillQueue
  <2>2. \A v \in Worker : task[v] = NoTask
    BY <2>1 DEF Placed, Idle
  <2>3. PICK order \in SetToSeqs(Keyword) : queue' = CycleQueue(order)
    BY <1>5 DEF FillQueue
  <2>4. /\ \A i, j \in DOMAIN queue' : queue'[i].task = queue'[j].task => i = j
        /\ \A t \in Task : \E i \in DOMAIN queue' : queue'[i].task = t
    BY <2>3, CycleQueueTasks
  <2>5. \A i \in DOMAIN queue' : queue'[i].task \in Task
    BY <2>3, CycleQueueType, ItemTask
  <2>6. \A t \in Task : fate'[t] = "open" /\ IsQueued(t)'
    BY <2>1, <2>4 DEF NoFate, IsQueued
  <2>7. OnePlace'
    BY <2>1, <2>2, <2>4, <2>5, <2>6, NoTaskAssumption DEF OnePlace
  <2>8. QED
    BY <2>1, <2>2, <2>7 DEF Placed
<1>6. CASE Drained
  BY <1>6 DEF Drained, Placed, Idle
<1>7. CASE WriteCycleState \/ SaveBackoff \/ SaveFails \/ WakeUp
  BY <1>7 DEF WriteCycleState, SaveBackoff, SaveFails, EndCycle, WakeUp, Placed, Idle
<1>8. CASE Crash
  BY <1>8 DEF Crash, Placed, Idle
<1>9. QED
  BY <1>1, <1>2, <1>3, <1>4, <1>5, <1>6, <1>7, <1>8
  DEF SearchNext, WorkerStep, CycleStep, StatusFails, BackoffEnds, searchVars

\* A task that has a place has one, and is counted once.
LEMMA PlacesCounted ==
  ASSUME Shape, OnePlace, NEW t \in Task
  PROVE  Cardinality(Queued(t)) + Cardinality(Running(t)) = IF fate[t] = "open" THEN 1 ELSE 0
<1>1. Cardinality({}) = 0 /\ \A x : Cardinality({x}) = 1
  BY FS_EmptySet, FS_Singleton
<1>2. IsQueued(t) => \E i : Queued(t) = {i}
  BY DEF IsQueued, Queued, OnePlace
<1>3. ASSUME IsRunning(t) PROVE \E w : Running(t) = {w}
  <2>1. PICK w \in Worker : task[w] = t
    BY <1>3 DEF IsRunning
  <2>2. Running(t) = {w}
    BY <2>1, NoTaskAssumption DEF Running, OnePlace
  <2>3. QED
    BY <2>2
<1>4. /\ ~IsQueued(t) => Queued(t) = {}
      /\ ~IsRunning(t) => Running(t) = {}
      /\ ~(IsQueued(t) /\ IsRunning(t))
  BY DEF IsQueued, Queued, IsRunning, Running, OnePlace
<1>5. Cardinality(Queued(t)) = IF IsQueued(t) THEN 1 ELSE 0
  BY <1>1, <1>2, <1>4
<1>6. Cardinality(Running(t)) = IF IsRunning(t) THEN 1 ELSE 0
  BY <1>1, <1>3, <1>4
<1>7. fate[t] = "open" <=> IsQueued(t) \/ IsRunning(t)
  BY DEF OnePlace
<1>8. QED
  BY <1>4, <1>5, <1>6, <1>7

\* While the queue is drained every task is in the queue, with one worker or
\* settled: for any number of workers that take, refuse, fail and crash.
THEOREM TasksAreConserved == SearchSpec => []TasksConserved
<1>1. SearchInit => Placed
  BY DEF SearchInit, Placed, Idle
<1>2. Shape /\ Placed => TasksConserved
  BY PlacesCounted DEF Placed, TasksConserved
<1>3. QED
  BY <1>1, <1>2, ShapeInit, ShapeStep, PlacedStep, PTL DEF SearchSpec
================================================================================
