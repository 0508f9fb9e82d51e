------------------------------ MODULE MCMatching -------------------------------
(***************************************************************************)
(* Files matcher.yml, targets.yml and observed files for Matching: every   *)
(* graph of three tokens of a few shapes, every shape of a leaf, and pairs *)
(* of rules over a keyword, a pattern and a coverage token.                *)
(***************************************************************************)
EXTENDS Matching

Node(keys, operands, text, min, max, fuzz) ==
  [keys |-> keys, operands |-> operands, text |-> text, min |-> min, max |-> max, fuzz |-> fuzz]
Leaf(key, text, min, max, fuzz) == <<Node({key}, <<>>, text, min, max, fuzz)>>
Condition(key, operands) == <<Node({key}, operands, "", None, None, None)>>

Ref(name, min, fuzz) == [kind |-> "ref", name |-> name, min |-> min, fuzz |-> fuzz]
Name(name) == [kind |-> "name", name |-> name, min |-> None, fuzz |-> None]
InPlace(k) == [kind |-> "condition", at |-> k]

Phrase == Leaf("keyword", "p", None, None, None)
Pattern == Leaf("regex", "plain pattern", None, None, None)
Gated == Leaf("regex", "gated pattern", None, None, None)
Title(min, fuzz) == Leaf("coverage", "", min, None, fuzz)
Size(min, max) == Leaf("attr_between", "size_mb", min, max, None)

Names == {"A", "B", "C"}
Config(a, b, c, defs, rules) ==
  [tokens |-> Names, defs |-> [A |-> a, B |-> b, C |-> c] @@ defs, rules |-> rules]
Rule(name, tier, condition) == [name |-> name, tier |-> tier, condition |-> condition]

\* Graphs of tokens.
Shapes ==
  {Phrase}
    \cup {Condition("all", <<Name(n)>>) : n \in Names \cup {"unknown"}}
    \cup {Condition("not", <<Name(n)>>) : n \in Names}
    \cup {Condition("any", <<Name(n), Name(m)>>) : n, m \in Names}
    \cup {Condition("all", <<Name("B"), InPlace(2)>>) \o Condition("not", <<Name(n)>>) : n \in Names}

GraphConfigs ==
  {Config(a, b, c, [r1 |-> Condition("all", <<Name("A")>>)], <<Rule("r", "notify", "r1")>>) : a, b, c \in Shapes}

\* Leaves, well formed or not, and references to them with overrides.
Leaves ==
  {Phrase, Pattern, Gated, Leaf("regex", "invalid pattern", None, None, None),
   Title(1, None), Title(2, 2), Title(0, 0), Title(None, 1), Title(3, 1), Title(1, 3),
   Size(None, None), Size(1, None), Size(1, 2), Size(2, 1), Size(None, 0),
   Leaf("attr_between", "unknown attribute", 0, 1, None),
   <<Node({"keyword", "regex"}, <<>>, "p", None, None, None)>>,
   <<Node({}, <<>>, "", None, None, None)>>,
   Condition("any", <<>>),
   <<Node({"all", "any"}, <<Name("B")>>, "", None, None, None)>>,
   <<Node({"all", "keyword"}, <<Name("B")>>, "p", None, None, None)>>,
   <<Node({"all", "coverage"}, <<Name("B")>>, "", 1, None, None)>>}

Uses ==
  {Condition(key, <<operand>>) :
     key \in {"all", "not"},
     operand \in {Name("A"), Ref("A", 2, None), Ref("A", None, 0), Ref("A", 2, 2), Ref("A", 3, None),
                  Ref(NoName, None, None), [kind |-> "scalar"]}}
    \cup {Condition(key, <<InPlace(2)>>) \o Condition("any", <<Ref("A", 1, None), Name("B")>>) :
            key \in {"all", "not"}}

LeafConfigs ==
  {Config(a, Phrase, use, [r1 |-> Condition("all", <<Name("C")>>)], <<Rule("r", "download", "r1")>>) :
     a \in Leaves, use \in Uses}

\* Pairs of rules, of two names or of one.
Conditions ==
  {Condition("all", <<Name("A")>>), Condition("not", <<Name("A")>>),
   Condition("all", <<Ref("C", 2, 2)>>), Condition("any", <<Name("B"), Name("C")>>)}

RuleConfigs ==
  {Config(Phrase, Gated, Title(1, None),
          [r1 |-> c1, r2 |-> c2], <<Rule("r", t1, "r1"), Rule(name, t2, "r2")>>) :
     t1, t2 \in TIERS, c1, c2 \in Conditions, name \in {"r", "s"}}

MalformedConfigs ==
  {Config(Phrase, Phrase, Phrase, [r1 |-> Condition("all", <<Name("A")>>)], <<rule>>) :
     rule \in {Rule(NoName, "notify", "r1"), Rule("r", "urgent", "r1")}}
    \cup {Config(Phrase, Phrase, Phrase, [r1 |-> Phrase], <<Rule("r", "notify", "r1")>>)}

MCRawConfigs == GraphConfigs \cup LeafConfigs \cup RuleConfigs \cup MalformedConfigs

\* One episode of two segments; two episodes of one; the second in another order;
\* a letter that is there twice.
Segment(entry, number, letter) == [entry |-> entry, number |-> number, letter |-> letter]
MCRawTargets ==
  {<<Segment(1, 1, "b"), Segment(1, 1, "a")>>,
   <<Segment(1, 1, "b"), Segment(2, 2, "a")>>,
   <<Segment(1, 1, "a"), Segment(1, 1, "A")>>}

\* What is found in a file depends on the letter of the target.
ByLetter(a, b) == [id \in {11, 12, 21, 22} |-> IF id \in {11, 21} THEN a ELSE b]
Covers == {[fuzz \in 0 .. Full |-> IF fuzz = 0 THEN 2 ELSE 0],
           [fuzz \in 0 .. Full |-> IF fuzz = 2 THEN 1 ELSE 2]}

MCFiles ==
  {[long |-> FALSE, phrases |-> phrases, found |-> found, cover |-> ByLetter(a, b), size |-> size] :
     phrases \in {{}, {"p"}}, found \in {{}, {11, 21}, {11, 12, 21, 22}},
     a, b \in Covers, size \in {None, 2}}
    \cup {[long |-> TRUE, phrases |-> {"p"}, found |-> {11}, cover |-> ByLetter(a, a), size |-> 1] : a \in Covers}
=============================================================================
