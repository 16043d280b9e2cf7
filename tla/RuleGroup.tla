------------------------------ MODULE RuleGroup ------------------------------
(***************************************************************************)
(* How a group of conditions is decided when some of them cannot be        *)
(* evaluated: the loop of evaluate_rule (models/strategy_rules.py), with   *)
(* its early exits, and evaluate_custom_strategy                           *)
(* (models/custom_strategy.py), which collects its results first.          *)
(*                                                                         *)
(* A child is a condition or another group; evaluating it changes nothing, *)
(* so it appears here as its verdict.  Python's None is "unknown".         *)
(***************************************************************************)
EXTENDS Integers, Sequences, FiniteSets

CONSTANT MaxChildren    \* bound: children of one group (20 in validate_strategy)

ASSUME RuleAssumption == MaxChildren \in Nat

Verdict == {"true", "false", "unknown"}
Pending == "pending"

VARIABLES
    evaluator,  \* "rule" or "custom"
    op,         \* "all", "any" or "at_least"
    children,   \* the verdicts of the conditions and groups below
    rows,       \* custom: the children that are tests of one candle, not of the library
    minimum,    \* how many children have to match
    index,      \* children looked at so far
    matched, unknown,
    verdict     \* what the caller gets

inputs == <<evaluator, op, children, rows, minimum>>
vars == <<evaluator, op, children, rows, minimum, index, matched, unknown, verdict>>

Child == 1 .. Len(children)

(* `minimum = len(children) if all, 1 if any, else rule["minimum"]`.       *)
Minimum(o, n) == CASE o = "all" -> {n} [] o = "any" -> {1} [] o = "at_least" -> 1 .. n

Init ==
    /\ \E n \in 1 .. MaxChildren :
          /\ children \in [1 .. n -> Verdict]
          /\ \/ evaluator = "rule" /\ op \in {"all", "any", "at_least"} /\ rows = {}
             \/ evaluator = "custom" /\ op \in {"all", "any"} /\ rows \in SUBSET (1 .. n)
          /\ minimum \in Minimum(op, n)
    /\ index = 0 /\ matched = 0 /\ unknown = 0
    /\ verdict = Pending

(* Mutant: whatever is not false has matched.                              *)
CountNotFalse(v) ==
    IF children[index + 1] = v \/ (v = "true" /\ children[index + 1] # "false") THEN 1 ELSE 0

Count(v) == IF children[index + 1] = v THEN 1 ELSE 0

LookAtChild ==
    /\ verdict = Pending
    /\ index < Len(children)
    /\ index' = index + 1
    /\ matched' = matched + Count("true")
    /\ unknown' = unknown + Count("unknown")

(* One turn of the loop: it ends as soon as the rest cannot matter.        *)
TakeChild ==
    /\ evaluator = "rule"
    /\ LookAtChild
    /\ verdict' = IF matched' >= minimum THEN "true"
                  ELSE IF matched' + unknown' + Len(children) - index' < minimum THEN "false"
                  ELSE Pending
    /\ UNCHANGED inputs

(* Behind the loop.                                                        *)
FinishGroup ==
    /\ evaluator = "rule"
    /\ verdict = Pending
    /\ index = Len(children)
    /\ verdict' = IF matched + unknown >= minimum /\ unknown > 0 THEN "unknown"
                  ELSE IF matched >= minimum THEN "true" ELSE "false"
    /\ UNCHANGED <<inputs, index, matched, unknown>>

(* A test of a candle that is missing ends the evaluation at once, one of  *)
(* the library is collected like any other result.                         *)
CollectResult ==
    /\ evaluator = "custom"
    /\ LookAtChild
    /\ verdict' = IF index' \in rows /\ children[index'] = "unknown" THEN "unknown" ELSE Pending
    /\ UNCHANGED inputs

(* Mutant: a result that is not there is not false either.                 *)
DecideCustomEarly ==
    /\ evaluator = "custom"
    /\ verdict = Pending
    /\ index = Len(children)
    /\ LET found(v) == \E i \in Child : children[i] = v
       IN  verdict' = IF op = "all"
                      THEN IF found("false") THEN "false" ELSE "true"
                      ELSE IF found("true") THEN "true"
                           ELSE IF found("unknown") THEN "unknown" ELSE "false"
    /\ UNCHANGED <<inputs, index, matched, unknown>>

DecideCustom ==
    /\ evaluator = "custom"
    /\ verdict = Pending
    /\ index = Len(children)
    /\ LET found(v) == \E i \in Child : children[i] = v
       IN  verdict' = IF op = "all"
                      THEN IF found("false") THEN "false"
                           ELSE IF found("unknown") THEN "unknown" ELSE "true"
                      ELSE IF found("true") THEN "true"
                           ELSE IF found("unknown") THEN "unknown" ELSE "false"
    /\ UNCHANGED <<inputs, index, matched, unknown>>

Next == TakeChild \/ FinishGroup \/ CollectResult \/ DecideCustom

Spec == Init /\ [][Next]_vars

-----------------------------------------------------------------------------
TypeOK ==
    /\ evaluator \in {"rule", "custom"} /\ op \in {"all", "any", "at_least"}
    /\ children \in Seq(Verdict)
    /\ rows \subseteq Child
    /\ minimum \in 1 .. Len(children)
    /\ index \in 0 .. Len(children)
    /\ matched \in 0 .. index /\ unknown \in 0 .. index - matched
    /\ verdict \in Verdict \cup {Pending}

(* What the children may turn out to be once the missing data is there.    *)
Completion == {c \in [Child -> BOOLEAN] :
                 \A i \in Child : children[i] # "unknown" => c[i] = (children[i] = "true")}
Fires(c) == Cardinality({i \in Child : c[i]}) >= minimum

(* A group is decided only if no missing datum could have changed it, and  *)
(* left undecided only if one could: the early exits lose nothing          *)
(* (models/strategy_rules.py:216-238).                                     *)
VerdictForced ==
    evaluator = "rule" =>
        /\ verdict = "true" => \A c \in Completion : Fires(c)
        /\ verdict = "false" => \A c \in Completion : ~Fires(c)
        /\ verdict = "unknown" => (\E c \in Completion : Fires(c)) /\ \E c \in Completion : ~Fires(c)

(* "None means unavailable data; never coerce it to zero or a matching     *)
(* signal" (models/custom_strategy.py:54): a user's strategy is decided    *)
(* only by what is known, and one of library conditions alone is decided   *)
(* exactly as the same group of a built-in model.                          *)
CustomForced ==
    evaluator = "custom" =>
        /\ verdict = "true" => \A c \in Completion : Fires(c)
        /\ verdict = "false" => \A c \in Completion : ~Fires(c)
        /\ verdict = "unknown" /\ rows = {} =>
              (\E c \in Completion : Fires(c)) /\ \E c \in Completion : ~Fires(c)

(* Both evaluators decide only what no missing datum could change.         *)
OnlyForced == VerdictForced /\ CustomForced

=============================================================================
