------------------------------ MODULE MCDecisions ------------------------------
(* Two names that match and one that does, or does not, with the configuration. *)
EXTENDS Decisions

MCJudge ==
  LET wanted == [target |-> "t", tier |-> "download"]
      noted == [target |-> "t", tier |-> "notify"]
      other == [target |-> "u", tier |-> "notify"]
  IN  [old |-> [clear |-> wanted, vague |-> noted, odd |-> NoMatch],
       new |-> [clear |-> wanted, vague |-> other, odd |-> NoMatch]]
=============================================================================
