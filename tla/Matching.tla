------------------------------- MODULE Matching -------------------------------
(***************************************************************************)
(* The matching engine of packages/matching: targets.yml and matcher.yml   *)
(* are parsed and validated once (validation.py), and an observed file is  *)
(* then evaluated against all targets (engine.py, resolver.py).            *)
(*                                                                         *)
(* A definition of the YAML file is the sequence of the conditions in its  *)
(* text, the outermost first; a leaf is a sequence of one.  Each is a      *)
(* record: the keys it has, its operands, and its numbers.  An operand is  *)
(* a bare token name, a reference with overrides, or a condition written   *)
(* in place, given by where it is in the definition.  Texts are reduced to *)
(* what they match: a file says which phrases it contains, for which       *)
(* targets a pattern is found in it, and how much of a title it covers at  *)
(* each similarity threshold.                                              *)
(*                                                                         *)
(* The walk over the graph of tokens and the loop over the targets are     *)
(* modelled step by step.  The walk takes the references of a token in any *)
(* order, where the code follows the text.                                 *)
(***************************************************************************)
EXTENDS Integers, FiniteSetsExt, SequencesExt, Functions

CONSTANTS
  RawConfigs,  \* bound: the files matcher.yml that are tried
  RawTargets,  \* bound: the files targets.yml that are tried
  Files,       \* bound: the observed files that are evaluated
  MaxDepth     \* how deep tokens may refer to tokens (32 in the code)

VARIABLES
  config,    \* matcher.yml
  episodes,  \* targets.yml
  loaded,    \* how far the start-up is, or the error that ended it
  stack,     \* the tokens the walk is below, the outermost first
  todo,      \* what the walk has left of the tokens, and of the references of each in stack
  done,      \* the tokens the walk is done with
  file,      \* the observed file that is evaluated, or NoFile
  compared,  \* how many targets it was compared with
  decision   \* the best decision so far, or NoDecision

walkVars == <<stack, todo, done>>
fileVars == <<file, compared, decision>>
matchingVars == <<config, episodes, loaded, walkVars, fileVars>>

-----------------------------------------------------------------------------
(* The grammar.                                                            *)

None == -1  \* an absent number
Full == 2   \* the fraction 1 in the scale of the model: 0 .. Full is [0, 1]
DefaultFuzz == 1
NoName == ""

ConditionKeys == {"all", "any", "not"}
LeafKeys == {"keyword", "regex", "coverage", "attr_between"}
TIERS == {"catalog", "notify", "download"}
TIER_RANK == [catalog |-> 0, notify |-> 1, download |-> 2]

IsComposite(node) == node.keys \cap ConditionKeys # {}
Kind(node) == CHOOSE key \in node.keys : key \in IF IsComposite(node) THEN ConditionKeys ELSE LeafKeys

UnitFraction(number) == number = None \/ number \in 0 .. Full

OperandParses(operand) ==
  \/ operand.kind \in {"name", "condition"}
  \/ /\ operand.kind = "ref"
     /\ operand.name # NoName
     /\ UnitFraction(operand.min) /\ UnitFraction(operand.fuzz)

ConditionParses(node) ==
  /\ Cardinality(node.keys \cap ConditionKeys) = 1
  /\ node.operands # <<>>
  /\ \A i \in DOMAIN node.operands : OperandParses(node.operands[i])

LeafParses(node) ==
  /\ Cardinality(node.keys \cap LeafKeys) = 1
  /\ "coverage" \in node.keys
       => node.min # None /\ UnitFraction(node.min) /\ UnitFraction(node.fuzz)
  /\ "attr_between" \in node.keys
       => /\ node.text # "unknown attribute"
          /\ node.min # None /\ node.max # None => node.min <= node.max

TokenParses(def) ==
  IF IsComposite(def[1]) THEN \A k \in DOMAIN def : ConditionParses(def[k])
  ELSE LeafParses(def[1])

RuleParses(c, rule) ==
  /\ rule.name # NoName
  /\ rule.tier \in TIERS
  /\ \A k \in DOMAIN c.defs[rule.condition] : ConditionParses(c.defs[rule.condition][k])

ConfigParses(c) ==
  /\ \A name \in c.tokens : TokenParses(c.defs[name])
  /\ \A i \in DOMAIN c.rules : RuleParses(c, c.rules[i])

\* The conditions of a file, by definition and place.
Places(c) == UNION {{name} \X DOMAIN c.defs[name] : name \in DOMAIN c.defs}

IsSequence(s) == s \in Seq(Range(s))

\* A file is a finite text, and a condition written in place comes after the one it
\* is written in.  The conditions of rules have names of their own, which no operand uses.
WellNested(c) ==
  /\ IsFiniteSet(DOMAIN c.defs)
  /\ IsSequence(c.rules)
  /\ DOMAIN c.defs = c.tokens \cup {c.rules[i].condition : i \in DOMAIN c.rules}
  /\ \A i \in DOMAIN c.rules : c.rules[i].condition \notin c.tokens
  /\ \A name \in DOMAIN c.defs :
       /\ IsSequence(c.defs[name]) /\ c.defs[name] # <<>>
       /\ IsComposite(c.defs[name][1]) \/ Len(c.defs[name]) = 1
  /\ \A p \in Places(c) :
       LET node == c.defs[p[1]][p[2]] IN
       /\ IsSequence(node.operands)
       /\ "not" \in node.keys => DOMAIN node.operands \subseteq {1}
       /\ \A i \in DOMAIN node.operands :
            node.operands[i].kind = "condition"
              => node.operands[i].at \in DOMAIN c.defs[p[1]] /\ node.operands[i].at > p[2]

Upper == [a |-> 1, A |-> 1, b |-> 2, B |-> 2]

ASSUME MatchingAssumption ==
  /\ MaxDepth \in Nat \ {0}
  /\ \A c \in RawConfigs : WellNested(c)
  /\ \A segments \in RawTargets :
       /\ IsSequence(segments)
       /\ \A s \in DOMAIN segments : segments[s].number \in Int /\ segments[s].letter \in DOMAIN Upper

-----------------------------------------------------------------------------
(* Validation of the graph of tokens.                                      *)

\* The references of a definition, those of conditions written in place included.
DefRefs(def) ==
  UNION {{node.operands[i] : i \in {i \in DOMAIN node.operands : node.operands[i].kind # "condition"}} :
           node \in {def[k] : k \in {k \in DOMAIN def : IsComposite(def[k])}}}

AllRefs(c) == UNION {DefRefs(c.defs[name]) : name \in DOMAIN c.defs}

ReferencesExist(c) == \A ref \in AllRefs(c) : ref.name \in c.tokens

OverridesTargetCoverage(c) ==
  \A ref \in AllRefs(c) :
    ref.min # None \/ ref.fuzz # None
      => /\ ref.name \in c.tokens
         /\ ~IsComposite(c.defs[ref.name][1]) /\ "coverage" \in c.defs[ref.name][1].keys

\* The graph of the walk: the tokens that a token refers to.
Refs(c, name) == {ref.name : ref \in DefRefs(c.defs[name])}

\* The longest chain of tokens from each token; the graph has no cycle.
Depth(c) ==
  LET depth[name \in c.tokens] == 1 + Max({0} \cup {depth[ref] : ref \in Refs(c, name)})
  IN  depth

\* Mutation: the walk alone is trusted to find the depth.
MaxResolutionDepthWalked(c) == 0

MaxResolutionDepth(c) == Max({0} \cup {Depth(c)[name] : name \in c.tokens})

RegexesCompile(c) ==
  \A name \in c.tokens :
    LET node == c.defs[name][1]
    IN  "regex" \in node.keys /\ ~IsComposite(node) => node.text # "invalid pattern"

-----------------------------------------------------------------------------
(* Targets: the segments of all episodes in the order of the text.         *)

\* target_id: zero-padded, so that its order is that of the pairs.
TargetId(segment) == 10 * segment.number + Upper[segment.letter]

\* parse_targets: mono_gate opens for the only segment of an episode entry.
Targets(segments) ==
  [s \in DOMAIN segments |->
     [id |-> TargetId(segments[s]),
      sole |-> \A t \in DOMAIN segments \ {s} : segments[t].entry # segments[s].entry]]

TargetsDistinct(targets) == IsInjective([i \in DOMAIN targets |-> targets[i].id])

-----------------------------------------------------------------------------
(* Evaluation.                                                             *)

Overridden(override, own) == IF override = None THEN own ELSE override

KeywordMatches(node, f) == node.text \in f.phrases

\* The pattern after interpolation: {mono_gate} lets it match sole segments only.
RegexMatches(node, target, f) ==
  target.id \in f.found /\ (node.text = "gated pattern" => target.sole)

CoverageMatches(target, min, fuzz, f) == f.cover[target.id][fuzz] >= min

AttrBetweenMatches(node, f) ==
  /\ f.size # None
  /\ node.min # None => f.size >= node.min
  /\ node.max # None => f.size <= node.max

LeafMatches(node, min, fuzz, target, f) ==
  \/ Kind(node) = "keyword" /\ KeywordMatches(node, f)
  \/ Kind(node) = "regex" /\ RegexMatches(node, target, f)
  \/ /\ Kind(node) = "coverage"
     /\ CoverageMatches(target, Overridden(min, node.min),
                        Overridden(fuzz, Overridden(node.fuzz, DefaultFuzz)), f)
  \/ Kind(node) = "attr_between" /\ AttrBetweenMatches(node, f)

\* Mutation: the override of min is forgotten.
OperandMatchesUnbound(c, matches, name, operand, target, f) ==
  IF operand.kind = "condition" THEN matches[<<name, operand.at>>]
  ELSE IF IsComposite(c.defs[operand.name][1]) THEN matches[<<operand.name, 1>>]
  ELSE LeafMatches(c.defs[operand.name][1], None, operand.fuzz, target, f)

\* _build_operand: the overrides reach a leaf, and nothing below a composite.
OperandMatches(c, matches, name, operand, target, f) ==
  IF operand.kind = "condition" THEN matches[<<name, operand.at>>]
  ELSE IF IsComposite(c.defs[operand.name][1]) THEN matches[<<operand.name, 1>>]
  ELSE LeafMatches(c.defs[operand.name][1], operand.min, operand.fuzz, target, f)

\* AllMatcher, AnyMatcher, NotMatcher: what the operands that match make of the condition.
Combined(node, matching) ==
  \/ Kind(node) = "all" /\ matching = DOMAIN node.operands
  \/ Kind(node) = "any" /\ matching # {}
  \/ Kind(node) = "not" /\ matching = {}

\* _build_def, and what the matchers it builds say of the file.
Matches(c, target, f) ==
  LET matches[p \in Places(c)] ==
        LET node == c.defs[p[1]][p[2]]
            matching == {i \in DOMAIN node.operands :
                           OperandMatches(c, matches, p[1], node.operands[i], target, f)}
        IN  IF IsComposite(node) THEN Combined(node, matching)
            ELSE LeafMatches(node, None, None, target, f)
  IN  matches

\* ResolvedTarget.rules is a dict by rule name: of two rules of one name the
\* condition of the last is evaluated for both.
ResolvedCondition(c, i) ==
  c.rules[Max({j \in DOMAIN c.rules : c.rules[j].name = c.rules[i].name})].condition

RulesFired(c, target, f) ==
  {i \in DOMAIN c.rules : Matches(c, target, f)[<<ResolvedCondition(c, i), 1>>]}

FirstRule(c, target, f) == Min(RulesFired(c, target, f))

\* Whether the key (tier, rule, target) of the first outranks that of the second.
Outranks(c, i, target, j, other) ==
  LET rank(n) == TIER_RANK[c.rules[n].tier] IN
  \/ rank(i) > rank(j)
  \/ rank(i) = rank(j) /\ i < j
  \/ rank(i) = rank(j) /\ i = j /\ target < other

NoDecision == [target |-> 0, index |-> 0, fired |-> {}]

-----------------------------------------------------------------------------
NoFile == [long |-> TRUE]

MatchingInit ==
  /\ config \in RawConfigs
  /\ episodes \in RawTargets
  /\ loaded = "unread"
  /\ stack = <<>> /\ todo = <<>> /\ done = {}
  /\ file = NoFile /\ compared = 0 /\ decision = NoDecision

\* The start-up reads both files; any error is fatal.
ReadTargets ==
  /\ loaded = "unread"
  /\ loaded' = IF TargetsDistinct(Targets(episodes)) THEN "targets" ELSE "duplicate target"
  /\ UNCHANGED <<config, episodes, walkVars, fileVars>>

ReadConfig ==
  /\ loaded = "targets"
  /\ loaded' = IF ~ConfigParses(config) THEN "schema"
               ELSE IF ~ReferencesExist(config) THEN "unknown"
               ELSE IF ~OverridesTargetCoverage(config) THEN "override"
               ELSE "walking"
  /\ todo' = <<config.tokens>>
  /\ UNCHANGED <<config, episodes, stack, done, fileVars>>

\* One call of walk: the token is done, or closes a cycle, or is too deep, or is entered.
Walk(name) ==
  LET rest == [todo EXCEPT ![Len(todo)] = @ \ {name}] IN
  /\ loaded = "walking" /\ name \in todo[Len(todo)]
  /\ \/ /\ name \in done
        /\ todo' = rest
        /\ UNCHANGED <<loaded, stack>>
     \/ /\ name \notin done
        /\ \/ name \in ToSet(stack) /\ loaded' = "cycle"
           \/ name \notin ToSet(stack) /\ Len(stack) >= MaxDepth /\ loaded' = "depth"
        /\ UNCHANGED <<stack, todo>>
     \/ /\ name \notin done \cup ToSet(stack) /\ Len(stack) < MaxDepth
        /\ stack' = Append(stack, name)
        /\ todo' = Append(rest, Refs(config, name))
        /\ UNCHANGED loaded
  /\ UNCHANGED <<config, episodes, done, fileVars>>

\* A call of walk ends.
Leave ==
  /\ loaded = "walking" /\ stack # <<>> /\ todo[Len(todo)] = {}
  /\ done' = done \cup {stack[Len(stack)]}
  /\ stack' = Front(stack) /\ todo' = Front(todo)
  /\ UNCHANGED <<config, episodes, loaded, fileVars>>

\* validate_config, after the walk from every token.
FinishWalk ==
  /\ loaded = "walking" /\ stack = <<>> /\ todo = <<{}>>
  /\ loaded' = IF MaxResolutionDepth(config) > MaxDepth THEN "depth"
               ELSE IF ~RegexesCompile(config) THEN "regex"
               ELSE "accepted"
  /\ UNCHANGED <<config, episodes, walkVars, fileVars>>

\* evaluate: a name that is too long is not compared with any target.
Evaluate(f) ==
  /\ loaded = "accepted" /\ file = NoFile
  /\ file' = f
  /\ compared' = IF f.long THEN Len(Targets(episodes)) ELSE 0
  /\ UNCHANGED <<config, episodes, loaded, walkVars, decision>>

\* One round of its loop over the targets.
CompareTarget ==
  LET target == Targets(episodes)[compared + 1]
      fired == RulesFired(config, target, file)
      first == FirstRule(config, target, file) IN
  /\ file # NoFile /\ compared < Len(Targets(episodes))
  /\ compared' = compared + 1
  /\ decision' = IF /\ fired # {}
                    /\ \/ decision = NoDecision
                       \/ Outranks(config, first, target.id, decision.index, decision.target)
                 THEN [target |-> target.id, index |-> first, fired |-> fired]
                 ELSE decision
  /\ UNCHANGED <<config, episodes, loaded, walkVars, file>>

MatchingNext ==
  \/ ReadTargets \/ ReadConfig
  \/ \E name \in config.tokens : Walk(name)
  \/ Leave \/ FinishWalk
  \/ \E f \in Files : Evaluate(f)
  \/ CompareTarget

MatchingSpec == MatchingInit /\ [][MatchingNext]_matchingVars
-----------------------------------------------------------------------------
(* Properties                                                              *)

\* A chain of n tokens, each referring to the next.
Chain(c, n) ==
  \E chain \in [1 .. n -> c.tokens] :
    \A i \in 1 .. n - 1 : chain[i + 1] \in Refs(c, chain[i])

\* Some tokens each of which refers to one of them: there is a cycle among them.
Cyclic(c) ==
  \E knot \in (SUBSET c.tokens) \ {{}} : \A name \in knot : Refs(c, name) \cap knot # {}

\* The walk and the depth computation of validate_config, whatever the order of
\* the tokens in the file, let through exactly the graphs without a cycle and
\* without a chain of more than max_depth tokens, and a cycle is only reported
\* where there is one.
GraphChecksExact ==
  loaded \in {"cycle", "depth", "regex", "accepted"} =>
    /\ (loaded \in {"cycle", "depth"}) = Chain(config, MaxDepth + 1)
    /\ loaded = "cycle" => Cyclic(config)

\* Whether an operand is true when conditions have the given truth values; a
\* reference with overrides asks the coverage token again.
OperandTrue(c, value, name, operand, target, f) ==
  \/ operand.kind = "condition" /\ value[<<name, operand.at>>]
  \/ /\ operand.kind # "condition"
     /\ IF operand.min = None /\ operand.fuzz = None THEN value[<<operand.name, 1>>]
        ELSE LET own == c.defs[operand.name][1]
             IN  f.cover[target.id][IF operand.fuzz # None THEN operand.fuzz
                                    ELSE IF own.fuzz # None THEN own.fuzz ELSE DefaultFuzz]
                   >= (IF operand.min # None THEN operand.min ELSE own.min)

ConditionTrue(c, value, p, target, f) ==
  LET node == c.defs[p[1]][p[2]]
      true(i) == OperandTrue(c, value, p[1], node.operands[i], target, f) IN
  \/ ~IsComposite(node) /\ LeafMatches(node, None, None, target, f)
  \/ /\ IsComposite(node)
     /\ \/ "all" \in node.keys /\ \A i \in DOMAIN node.operands : true(i)
        \/ "any" \in node.keys /\ \E i \in DOMAIN node.operands : true(i)
        \/ "not" \in node.keys /\ ~true(1)

\* Truth values of the conditions that agree with their definitions.
Agrees(c, value, target, f) ==
  \A p \in Places(c) : value[p] = ConditionTrue(c, value, p, target, f)

Truth(c, target, f) == CHOOSE value \in [Places(c) -> BOOLEAN] : Agrees(c, value, target, f)

\* The rules whose own condition is true.
TrueRules(c, target, f) ==
  LET value == Truth(c, target, f) IN {i \in DOMAIN c.rules : value[<<c.rules[i].condition, 1>>]}

\* What the specification of the engine asks for ("1re regle vraie"; "palier le
\* plus haut, departage deterministe : index de regle, puis target_id"): each
\* target offers its first true rule, and no other offer outranks the decision.
DecisionRight(c, list, f, d) ==
  LET offers == {<<Min(TrueRules(c, target, f)), target.id, TrueRules(c, target, f)>> :
                   target \in {t \in ToSet(list) : TrueRules(c, t, f) # {}}} IN
  \/ d = NoDecision /\ (f.long \/ offers = {})
  \/ \E won \in offers :
       /\ ~f.long
       /\ d = [target |-> won[2], index |-> won[1], fired |-> won[3]]
       /\ \A offer \in offers \ {won} : Outranks(c, won[1], won[2], offer[1], offer[2])

NamesDistinct(c) == IsInjective([i \in DOMAIN c.rules |-> c.rules[i].name])

\* With distinct rule names the decision is the right one, in whatever order the
\* targets are listed, through references, overrides and nested conditions.
BestRuleWins ==
  file # NoFile /\ compared = Len(Targets(episodes)) /\ NamesDistinct(config)
    => DecisionRight(config, Targets(episodes), file, decision)
=============================================================================
