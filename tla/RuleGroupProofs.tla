--------------------------- MODULE RuleGroupProofs ---------------------------
(***************************************************************************)
(* Theorems about RuleGroup, for groups of any size: a group is decided    *)
(* only if nothing missing could have changed it, and left undecided only  *)
(* if something could.                                                     *)
(***************************************************************************)
EXTENDS RuleGroup, FiniteSetTheorems, TLAPS

(* The children among the first k whose verdict is v.                      *)
Looked(v, k) == {i \in 1 .. k : children[i] = v}

CountersExact ==
    /\ matched = Cardinality(Looked("true", index))
    /\ unknown = Cardinality(Looked("unknown", index))

(* What the early exits and the last line of evaluate_rule know.           *)
RuleDecided ==
    evaluator = "rule" =>
        /\ verdict = "true" => matched >= minimum
        /\ verdict = "false" => matched + unknown + Len(children) - index < minimum
        /\ verdict = "unknown" => index = Len(children) /\ matched < minimum
                                  /\ matched + unknown >= minimum
        /\ verdict = Pending => matched < minimum
                                /\ matched + unknown + Len(children) - index >= minimum

(* What the last two lines of evaluate_custom_strategy know.               *)
Found(v) == \E i \in Child : children[i] = v
CustomDecided ==
    evaluator = "custom" =>
        /\ (op = "all" => minimum = Len(children)) /\ (op # "all" => op = "any" /\ minimum = 1)
        /\ verdict = "true" => IF op = "all" THEN ~Found("false") /\ ~Found("unknown")
                               ELSE Found("true")
        /\ verdict = "false" => IF op = "all" THEN Found("false")
                                ELSE ~Found("true") /\ ~Found("unknown")
        /\ verdict = "unknown" /\ rows = {} =>
              Found("unknown") /\ ~Found(IF op = "all" THEN "false" ELSE "true")

IInv == TypeOK /\ CountersExact /\ RuleDecided /\ CustomDecided

-----------------------------------------------------------------------------
(* What is looked at is finite, and the counter of it is a number.         *)
LEMMA LookedFinite ==
  ASSUME NEW v, NEW k \in Nat
  PROVE  /\ IsFiniteSet(Looked(v, k))
         /\ Cardinality(Looked(v, k)) \in Nat
<1>1. IsFiniteSet(1 .. k)
  BY FS_Interval
<1>2. Looked(v, k) \subseteq 1 .. k
  BY DEF Looked
<1>3. IsFiniteSet(Looked(v, k))
  BY <1>1, <1>2, FS_Subset
<1> QED
  BY <1>3, FS_CardinalityType

(* One more child adds at most one to what was counted.                    *)
LEMMA LookedStep ==
  ASSUME NEW v, NEW k \in Nat
  PROVE  Cardinality(Looked(v, k + 1)) =
           Cardinality(Looked(v, k)) + IF children[k + 1] = v THEN 1 ELSE 0
<1>0. IsFiniteSet(Looked(v, k)) /\ Cardinality(Looked(v, k)) \in Nat
  BY LookedFinite
<1>1. CASE children[k + 1] = v
  <2>1. Looked(v, k + 1) = Looked(v, k) \cup {k + 1}
    BY <1>1 DEF Looked
  <2>2. k + 1 \notin Looked(v, k)
    BY DEF Looked
  <2> QED
    BY <1>0, <1>1, <2>1, <2>2, FS_AddElement
<1>2. CASE children[k + 1] # v
  <2>1. Looked(v, k + 1) = Looked(v, k)
    BY <1>2 DEF Looked
  <2> QED
    BY <1>0, <1>2, <2>1
<1> QED
  BY <1>1, <1>2

-----------------------------------------------------------------------------
LEMMA InitIInv == Init => IInv
<1> SUFFICES ASSUME Init PROVE IInv
  OBVIOUS
<1>1. PICK n \in 1 .. MaxChildren :
        /\ children \in [1 .. n -> Verdict]
        /\ \/ evaluator = "rule" /\ op \in {"all", "any", "at_least"} /\ rows = {}
           \/ evaluator = "custom" /\ op \in {"all", "any"} /\ rows \in SUBSET (1 .. n)
        /\ minimum \in Minimum(op, n)
  BY DEF Init
<1>2. n \in Nat /\ n >= 1 /\ children \in Seq(Verdict) /\ Len(children) = n
  BY <1>1, RuleAssumption
<1>3. minimum \in 1 .. n /\ (op = "all" => minimum = n) /\ (op = "any" => minimum = 1)
  BY <1>1, <1>2 DEF Minimum
<1>4. TypeOK
  BY <1>1, <1>2, <1>3 DEF Init, TypeOK, Child, Pending
<1>5. CountersExact
  <2>1. Looked("true", 0) = {} /\ Looked("unknown", 0) = {}
    BY DEF Looked
  <2> QED
    BY <2>1, FS_EmptySet DEF CountersExact, Init
<1>6. RuleDecided
  BY <1>2, <1>3 DEF RuleDecided, Init, Pending
<1>7. CustomDecided
  BY <1>1, <1>2, <1>3 DEF CustomDecided, Init, Pending
<1> QED
  BY <1>4, <1>5, <1>6, <1>7 DEF IInv

(* A turn of either loop counts the child it looks at.                     *)
LEMMA LookCounts ==
  ASSUME TypeOK, CountersExact, LookAtChild, UNCHANGED inputs
  PROVE  /\ CountersExact'
         /\ index' \in 1 .. Len(children) /\ index' = index + 1
         /\ matched' \in 0 .. index' /\ unknown' \in 0 .. index' - matched'
         /\ matched' + unknown' \in {matched + unknown, matched + unknown + 1}
         /\ matched' \in {matched, matched + 1}
<1>1. index \in Nat /\ index' = index + 1 /\ index' \in 1 .. Len(children)
  BY DEF TypeOK, LookAtChild
<1>2. /\ matched' = matched + Count("true")
      /\ unknown' = unknown + Count("unknown")
  BY DEF LookAtChild
<1>3. /\ Count("true") \in {0, 1} /\ Count("unknown") \in {0, 1}
      /\ Count("true") = 1 => Count("unknown") = 0
  BY DEF Count
<1>4. Looked("true", index)' = Looked("true", index + 1)
  BY <1>1 DEF Looked, inputs
<1>5. Looked("unknown", index)' = Looked("unknown", index + 1)
  BY <1>1 DEF Looked, inputs
<1>6. CountersExact'
  BY <1>1, <1>2, <1>4, <1>5, LookedStep DEF CountersExact, Count
<1>7. /\ matched \in Nat /\ unknown \in Nat /\ matched + unknown <= index
  BY DEF TypeOK
<1>8. /\ matched' \in 0 .. index' /\ unknown' \in 0 .. index' - matched'
      /\ matched' + unknown' \in {matched + unknown, matched + unknown + 1}
      /\ matched' \in {matched, matched + 1}
  <2> DEFINE t == Count("true")  u == Count("unknown")
  <2>1. /\ t \in {0, 1} /\ u \in {0, 1} /\ (t = 1 => u = 0)
        /\ matched' = matched + t /\ unknown' = unknown + u
    BY <1>2, <1>3
  <2> HIDE DEF t, u
  <2> QED
    BY <1>1, <1>7, <2>1
<1> QED
  BY <1>1, <1>6, <1>8

LEMMA TypeStep == TypeOK /\ CountersExact /\ [Next]_vars => TypeOK'
<1> SUFFICES ASSUME TypeOK, CountersExact, [Next]_vars PROVE TypeOK'
  OBVIOUS
<1>1. ASSUME LookAtChild, UNCHANGED inputs, verdict' \in Verdict \cup {Pending}
      PROVE  TypeOK'
  <2>1. /\ index' \in 0 .. Len(children)
        /\ matched' \in 0 .. index' /\ unknown' \in 0 .. index' - matched'
    BY <1>1, LookCounts
  <2> QED
    BY <1>1, <2>1 DEF TypeOK, inputs, Child
<1>2. ASSUME UNCHANGED <<inputs, index, matched, unknown>>, verdict' \in Verdict \cup {Pending}
      PROVE  TypeOK'
  BY <1>2 DEF TypeOK, inputs, Child
<1>3. CASE TakeChild
  BY <1>1, <1>3 DEF TakeChild, Verdict
<1>4. CASE FinishGroup
  BY <1>2, <1>4 DEF FinishGroup, Verdict
<1>5. CASE CollectResult
  BY <1>1, <1>5 DEF CollectResult, Verdict
<1>6. CASE DecideCustom
  <2>1. verdict' \in {"true", "false", "unknown"}
    BY <1>6 DEF DecideCustom
  <2> QED
    BY <1>2, <1>6, <2>1 DEF DecideCustom, Verdict
<1>7. CASE UNCHANGED vars
  BY <1>2, <1>7 DEF vars, inputs, TypeOK
<1> QED
  BY <1>3, <1>4, <1>5, <1>6, <1>7 DEF Next

LEMMA CountersStep == TypeOK /\ CountersExact /\ [Next]_vars => CountersExact'
<1> SUFFICES ASSUME TypeOK, CountersExact, [Next]_vars PROVE CountersExact'
  OBVIOUS
<1>1. CASE TakeChild \/ CollectResult
  BY <1>1, LookCounts DEF TakeChild, CollectResult
<1>2. CASE UNCHANGED <<inputs, index, matched, unknown>>
  BY <1>2 DEF CountersExact, Looked, inputs
<1> QED
  BY <1>1, <1>2 DEF Next, FinishGroup, DecideCustom, vars, inputs

LEMMA RuleStep == TypeOK /\ CountersExact /\ RuleDecided /\ [Next]_vars => RuleDecided'
<1> SUFFICES ASSUME TypeOK, CountersExact, RuleDecided, [Next]_vars PROVE RuleDecided'
  OBVIOUS
<1>0. /\ Len(children) \in Nat /\ index \in 0 .. Len(children) /\ minimum \in 1 .. Len(children)
      /\ matched \in 0 .. index /\ unknown \in 0 .. index - matched
  BY DEF TypeOK
<1>1. CASE TakeChild
  <2>1. /\ index' \in 1 .. Len(children)
        /\ matched' \in 0 .. index' /\ unknown' \in 0 .. index' - matched'
    BY <1>1, LookCounts DEF TakeChild
  <2>2. children' = children /\ minimum' = minimum
    BY <1>1 DEF TakeChild, inputs
  <2>3. verdict' = IF matched' >= minimum THEN "true"
                   ELSE IF matched' + unknown' + Len(children) - index' < minimum THEN "false"
                   ELSE Pending
    BY <1>1 DEF TakeChild
  <2> QED
    BY <1>0, <2>1, <2>2, <2>3 DEF RuleDecided, Pending
<1>2. CASE FinishGroup
  <2>1. /\ evaluator = "rule" /\ verdict = Pending /\ index = Len(children)
        /\ children' = children /\ minimum' = minimum /\ index' = index
        /\ matched' = matched /\ unknown' = unknown
        /\ verdict' = IF matched + unknown >= minimum /\ unknown > 0 THEN "unknown"
                      ELSE IF matched >= minimum THEN "true" ELSE "false"
    BY <1>2 DEF FinishGroup, inputs
  <2> QED
    BY <1>0, <2>1 DEF RuleDecided, Pending
<1>3. CASE CollectResult \/ DecideCustom
  BY <1>3 DEF CollectResult, DecideCustom, RuleDecided, inputs
<1>4. CASE UNCHANGED vars
  BY <1>4 DEF RuleDecided, vars, inputs
<1> QED
  BY <1>1, <1>2, <1>3, <1>4 DEF Next

LEMMA CustomStep == TypeOK /\ CustomDecided /\ [Next]_vars => CustomDecided'
<1> SUFFICES ASSUME TypeOK, CustomDecided, [Next]_vars PROVE CustomDecided'
  OBVIOUS
<1>1. CASE TakeChild \/ FinishGroup
  BY <1>1 DEF TakeChild, FinishGroup, CustomDecided, inputs
<1>2. CASE CollectResult
  <2>1. /\ evaluator = "custom" /\ UNCHANGED inputs
        /\ verdict' \in {"unknown", Pending}
        /\ verdict' = "unknown" => rows # {}
    BY <1>2 DEF CollectResult, Pending
  <2> QED
    BY <2>1 DEF CustomDecided, inputs, Pending
<1>3. CASE DecideCustom
  <2>1. /\ evaluator = "custom" /\ UNCHANGED inputs
        /\ verdict' = IF op = "all"
                      THEN IF Found("false") THEN "false"
                           ELSE IF Found("unknown") THEN "unknown" ELSE "true"
                      ELSE IF Found("true") THEN "true"
                           ELSE IF Found("unknown") THEN "unknown" ELSE "false"
    BY <1>3 DEF DecideCustom, Found
  <2>2. \A v : Found(v)' <=> Found(v)
    BY <2>1 DEF inputs, Found, Child
  <2>3. op' = op /\ minimum' = minimum /\ children' = children /\ rows' = rows
    BY <2>1 DEF inputs
  <2>4. CASE op = "all"
    BY <2>1, <2>2, <2>3, <2>4 DEF CustomDecided
  <2>5. CASE op # "all"
    BY <2>1, <2>2, <2>3, <2>5 DEF CustomDecided
  <2> QED
    BY <2>4, <2>5
<1>4. CASE UNCHANGED vars
  BY <1>4 DEF CustomDecided, Found, Child, vars, inputs
<1> QED
  BY <1>1, <1>2, <1>3, <1>4 DEF Next

(* The invariant holds in every reachable state.                           *)
LEMMA Invariant == Spec => []IInv
<1>1. IInv /\ [Next]_vars => IInv'
  BY TypeStep, CountersStep, RuleStep, CustomStep DEF IInv
<1> QED
  BY <1>1, InitIInv, PTL DEF Spec

(* Every counter stays within what was looked at (strategy_rules.py:226).  *)
THEOREM TypeCorrect == Spec => []TypeOK
<1>1. IInv => TypeOK
  BY DEF IInv
<1> QED
  BY <1>1, Invariant, PTL

-----------------------------------------------------------------------------
(* The children that are true in a completion, and the two extreme ones.   *)
Trues(c) == {i \in Child : c[i]}
Best == [i \in Child |-> children[i] # "false"]
Worst == [i \in Child |-> children[i] = "true"]

LEMMA ChildFinite ==
  ASSUME TypeOK, NEW S \in SUBSET Child
  PROVE  IsFiniteSet(S) /\ Cardinality(S) \in Nat
<1>1. IsFiniteSet(Child)
  BY FS_Interval DEF Child, TypeOK
<1>2. IsFiniteSet(S)
  BY <1>1, FS_Subset
<1> QED
  BY <1>2, FS_CardinalityType

LEMMA Extremes ==
  ASSUME TypeOK
  PROVE  Best \in Completion /\ Worst \in Completion
<1>1. \A i \in Child : children[i] \in Verdict
  BY DEF TypeOK, Child
<1> QED
  BY <1>1 DEF Best, Worst, Completion, Verdict

(* What has matched stays matched.                                         *)
LEMMA AtLeastMatched ==
  ASSUME IInv, NEW c \in Completion
  PROVE  Cardinality(Trues(c)) >= matched
<1>1. Looked("true", index) \subseteq Trues(c)
  BY DEF IInv, TypeOK, Looked, Trues, Completion, Child
<1>2. IsFiniteSet(Trues(c))
  BY ChildFinite DEF IInv, Trues
<1> QED
  BY <1>1, <1>2, FS_Subset DEF IInv, CountersExact

(* At most what matched, what is missing and what was not looked at can be *)
(* true.                                                                   *)
LEMMA AtMostPossible ==
  ASSUME IInv, NEW c \in Completion
  PROVE  Cardinality(Trues(c)) <= matched + unknown + Len(children) - index
<1> DEFINE T == Looked("true", index)
           U == Looked("unknown", index)
           R == index + 1 .. Len(children)
<1>1. index \in Nat /\ Len(children) \in Nat /\ index <= Len(children)
  BY DEF IInv, TypeOK
<1>2. /\ IsFiniteSet(T) /\ Cardinality(T) = matched /\ matched \in Nat
      /\ IsFiniteSet(U) /\ Cardinality(U) = unknown /\ unknown \in Nat
  BY <1>1, LookedFinite DEF IInv, CountersExact
<1>3. IsFiniteSet(R) /\ Cardinality(R) = Len(children) - index
  <2>0. index + 1 \in Int /\ Len(children) \in Int
    BY <1>1
  <2>1. /\ IsFiniteSet(R)
        /\ Cardinality(R) = IF index + 1 > Len(children) THEN 0 ELSE Len(children) - (index + 1) + 1
    BY <2>0, FS_Interval, Zenon
  <2> HIDE DEF R
  <2> QED
    BY <1>1, <2>1
<1>4. Trues(c) \subseteq (T \cup U) \cup R
  <2> SUFFICES ASSUME NEW i \in Child, c[i], i \notin T, i \notin U PROVE i \in R
    BY DEF Trues
  <2>1. CASE i <= index
    <3>1. children[i] # "true" /\ children[i] # "unknown"
      BY <2>1, <1>1 DEF Looked, Child
    <3> QED
      BY <3>1 DEF Completion
  <2>2. CASE i > index
    BY <2>2, <1>1 DEF Child
  <2> QED
    BY <2>1, <2>2, <1>1 DEF Child
<1> HIDE DEF T, U, R
<1>5. /\ IsFiniteSet(T \cup U) /\ Cardinality(T \cup U) \in Nat
      /\ Cardinality(T \cup U) <= matched + unknown
  <2>1. /\ IsFiniteSet(T \cup U)
        /\ Cardinality(T \cup U) = Cardinality(T) + Cardinality(U) - Cardinality(T \cap U)
    BY <1>2, FS_Union
  <2>2. Cardinality(T \cap U) \in Nat
    BY <1>2, FS_Intersection, FS_CardinalityType
  <2>3. Cardinality(T \cup U) \in Nat
    BY <2>1, FS_CardinalityType
  <2> QED
    BY <1>2, <2>1, <2>2, <2>3
<1>6. /\ IsFiniteSet((T \cup U) \cup R) /\ Cardinality((T \cup U) \cup R) \in Nat
      /\ Cardinality((T \cup U) \cup R) <= matched + unknown + Len(children) - index
  <2>1. /\ IsFiniteSet((T \cup U) \cup R)
        /\ Cardinality((T \cup U) \cup R)
             = Cardinality(T \cup U) + Cardinality(R) - Cardinality((T \cup U) \cap R)
    BY <1>3, <1>5, FS_Union
  <2>2. Cardinality((T \cup U) \cap R) \in Nat
    BY <1>5, FS_Intersection, FS_CardinalityType
  <2>3. Cardinality((T \cup U) \cup R) \in Nat
    BY <2>1, FS_CardinalityType
  <2> QED
    BY <1>1, <1>2, <1>3, <1>5, <2>1, <2>2, <2>3
<1>7. /\ Cardinality(Trues(c)) \in Nat
      /\ Cardinality(Trues(c)) <= Cardinality((T \cup U) \cup R)
  BY <1>4, <1>6, FS_Subset, FS_CardinalityType
<1> QED
  BY <1>1, <1>2, <1>6, <1>7

(* With every child looked at, the best completion has all that is not     *)
(* false.                                                                  *)
LEMMA BestCount ==
  ASSUME IInv, index = Len(children)
  PROVE  Cardinality(Trues(Best)) = matched + unknown
<1> DEFINE T == Looked("true", index)
           U == Looked("unknown", index)
<1>1. index \in Nat /\ \A i \in Child : children[i] \in Verdict
  BY DEF IInv, TypeOK, Child
<1>2. Trues(Best) = T \cup U
  BY <1>1 DEF Trues, Best, Looked, Child, Verdict
<1>3. T \cap U = {}
  BY DEF Looked
<1>4. /\ IsFiniteSet(T) /\ Cardinality(T) = matched /\ matched \in Nat
      /\ IsFiniteSet(U) /\ Cardinality(U) = unknown /\ unknown \in Nat
  BY <1>1, LookedFinite DEF IInv, CountersExact
<1> HIDE DEF T, U
<1>5. Cardinality(T \cup U) = Cardinality(T) + Cardinality(U) - Cardinality(T \cap U)
  BY <1>4, FS_Union
<1>6. Cardinality(T \cap U) = 0
  BY <1>3, FS_EmptySet
<1> QED
  BY <1>2, <1>4, <1>5, <1>6

LEMMA WorstCount ==
  ASSUME IInv, index = Len(children)
  PROVE  Cardinality(Trues(Worst)) = matched
<1>1. Trues(Worst) = Looked("true", index)
  BY DEF Trues, Worst, Looked, Child
<1> QED
  BY <1>1 DEF IInv, CountersExact

(* No missing datum can change what a group of a built-in model was        *)
(* decided to be (strategy_rules.py:234-238).                              *)
THEOREM GroupVerdictForced == Spec => []VerdictForced
<1>1. IInv => VerdictForced
  <2> SUFFICES ASSUME IInv, evaluator = "rule" PROVE VerdictForced
    BY DEF VerdictForced
  <2>0. /\ matched \in Nat /\ unknown \in Nat /\ minimum \in Nat
        /\ index \in Nat /\ Len(children) \in Nat
    BY DEF IInv, TypeOK
  <2>t. \A c : Fires(c) <=> Cardinality(Trues(c)) >= minimum
    BY DEF Fires, Trues
  <2>n. \A c \in Completion : Cardinality(Trues(c)) \in Nat
    BY ChildFinite DEF IInv, Trues
  <2>1. ASSUME verdict = "true", NEW c \in Completion PROVE Fires(c)
    <3>1. matched >= minimum
      BY <2>1 DEF IInv, RuleDecided
    <3> QED
      BY <2>0, <2>t, <2>n, <3>1, AtLeastMatched
  <2>2. ASSUME verdict = "false", NEW c \in Completion PROVE ~Fires(c)
    <3>1. matched + unknown + Len(children) - index < minimum
      BY <2>2 DEF IInv, RuleDecided
    <3> QED
      BY <2>0, <2>t, <2>n, <3>1, AtMostPossible
  <2>3. ASSUME verdict = "unknown"
        PROVE  (\E c \in Completion : Fires(c)) /\ \E c \in Completion : ~Fires(c)
    <3>1. index = Len(children) /\ matched < minimum /\ matched + unknown >= minimum
      BY <2>3 DEF IInv, RuleDecided
    <3>2. Best \in Completion /\ Worst \in Completion
      BY Extremes DEF IInv
    <3>3. Fires(Best)
      BY <2>0, <2>t, <3>1, BestCount
    <3>4. ~Fires(Worst)
      BY <2>0, <2>t, <3>1, WorstCount
    <3> QED
      BY <3>2, <3>3, <3>4
  <2> QED
    BY <2>1, <2>2, <2>3 DEF VerdictForced
<1> QED
  BY <1>1, Invariant, PTL

(* "All" fires exactly when every child is true, "any" when one is.        *)
LEMMA FiresAllAny ==
  ASSUME TypeOK, NEW c \in [Child -> BOOLEAN]
  PROVE  /\ minimum = Len(children) => (Fires(c) <=> \A i \in Child : c[i])
         /\ minimum = 1 => (Fires(c) <=> \E i \in Child : c[i])
<1>1. Len(children) \in Nat /\ IsFiniteSet(Child) /\ Cardinality(Child) = Len(children)
  BY FS_Interval DEF TypeOK, Child
<1>2. Trues(c) \subseteq Child
  BY DEF Trues
<1>3. IsFiniteSet(Trues(c)) /\ Cardinality(Trues(c)) \in Nat
  BY <1>2, ChildFinite
<1>4. Fires(c) <=> Cardinality(Trues(c)) >= minimum
  BY DEF Fires, Trues
<1>5. /\ Cardinality(Trues(c)) <= Cardinality(Child)
      /\ Cardinality(Trues(c)) = Cardinality(Child) => Trues(c) = Child
  BY <1>1, <1>2, FS_Subset
<1>6. Cardinality(Trues(c)) = 0 <=> Trues(c) = {}
  BY <1>3, FS_EmptySet
<1>7. ASSUME minimum = Len(children) PROVE Fires(c) <=> \A i \in Child : c[i]
  <2>1. Fires(c) <=> Trues(c) = Child
    BY <1>1, <1>3, <1>4, <1>5, <1>7
  <2> QED
    BY <2>1 DEF Trues
<1>8. ASSUME minimum = 1 PROVE Fires(c) <=> \E i \in Child : c[i]
  <2>1. Fires(c) <=> Trues(c) # {}
    BY <1>3, <1>4, <1>6, <1>8
  <2> QED
    BY <2>1 DEF Trues
<1> QED
  BY <1>7, <1>8

(* A user's strategy is decided only by what is known                      *)
(* (custom_strategy.py:86-88).                                             *)
THEOREM CustomVerdictForced == Spec => []CustomForced
<1>1. IInv => CustomForced
  <2> SUFFICES ASSUME IInv, evaluator = "custom" PROVE CustomForced
    BY DEF CustomForced
  <2>1. \A i \in Child : children[i] \in Verdict
    BY DEF IInv, TypeOK, Child
  <2>2. \A c \in Completion :
          /\ c \in [Child -> BOOLEAN]
          /\ \A i \in Child : /\ children[i] = "true" => c[i]
                              /\ children[i] = "false" => ~c[i]
    BY DEF Completion
  <2>3. /\ Best \in Completion /\ Worst \in Completion
        /\ \A i \in Child : /\ Best[i] <=> children[i] # "false"
                            /\ Worst[i] <=> children[i] = "true"
    BY Extremes DEF IInv, Best, Worst
  <2>4. Child # {}
    BY DEF IInv, TypeOK, Child
  <2>5. ASSUME op = "all" PROVE CustomForced
    <3>1. /\ minimum = Len(children)
          /\ verdict = "true" => ~Found("false") /\ ~Found("unknown")
          /\ verdict = "false" => Found("false")
          /\ verdict = "unknown" /\ rows = {} => Found("unknown") /\ ~Found("false")
      BY <2>5 DEF IInv, CustomDecided
    <3>2. \A c \in Completion : Fires(c) <=> \A i \in Child : c[i]
      BY <2>2, <3>1, FiresAllAny DEF IInv
    <3> QED
      BY <2>1, <2>2, <2>3, <3>1, <3>2 DEF CustomForced, Found, Verdict
  <2>6. ASSUME op # "all" PROVE CustomForced
    <3>1. /\ minimum = 1
          /\ verdict = "true" => Found("true")
          /\ verdict = "false" => ~Found("true") /\ ~Found("unknown")
          /\ verdict = "unknown" /\ rows = {} => Found("unknown") /\ ~Found("true")
      BY <2>6 DEF IInv, CustomDecided
    <3>2. \A c \in Completion : Fires(c) <=> \E i \in Child : c[i]
      BY <2>2, <3>1, FiresAllAny DEF IInv
    <3> QED
      BY <2>1, <2>2, <2>3, <3>1, <3>2 DEF CustomForced, Found, Verdict
  <2> QED
    BY <2>5, <2>6
<1> QED
  BY <1>1, Invariant, PTL

(* Neither evaluator decides what missing data could still change          *)
(* (strategy_rules.py:216-238, custom_strategy.py:86-88).                  *)
THEOREM RulesForced == Spec => []OnlyForced
<1>1. VerdictForced /\ CustomForced => OnlyForced
  BY DEF OnlyForced
<1> QED
  BY <1>1, GroupVerdictForced, CustomVerdictForced, PTL

=============================================================================
