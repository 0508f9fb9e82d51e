---------------------------- MODULE FileLifecycle -----------------------------
(***************************************************************************)
(* What the crawler promises for each file it may download, whatever       *)
(* fails: a file that is held (in quarantine, its verification asked for)  *)
(* is judged by the verifier or given up, and nothing judged is undone.    *)
(***************************************************************************)
CONSTANT Hash

VARIABLE stage

Stages == {"unknown", "wanted", "refused", "held", "judged", "abandoned"}

LifecycleInit == stage = [h \in Hash |-> "unknown"]

Move(h, from, to) ==
  /\ stage[h] = from
  /\ stage' = [stage EXCEPT ![h] = to]

Want(h) == Move(h, "unknown", "wanted")
Refuse(h) == Move(h, "wanted", "refused")
Hold(h) == Move(h, "wanted", "held")
Judge(h) == Move(h, "held", "judged")
Abandon(h) == Move(h, "held", "abandoned")
AskAgain(h) == Move(h, "abandoned", "held")

LifecycleNext ==
  \E h \in Hash :
    Want(h) \/ Refuse(h) \/ Hold(h) \/ Judge(h) \/ Abandon(h) \/ AskAgain(h)

LifecycleSafe == LifecycleInit /\ [][LifecycleNext]_stage

LifecycleSpec ==
  /\ LifecycleSafe
  /\ \A h \in Hash : WF_stage(Judge(h) \/ Abandon(h))
=============================================================================
