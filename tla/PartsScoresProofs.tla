-------------------------- MODULE PartsScoresProofs --------------------------
(***************************************************************************)
(* The other components of Parts: those that read candles (the catalogue   *)
(* of conditions, the entry score and the exit signals, for candles of any *)
(* prices) and the records of signals.  Then the composition: what is left *)
(* of its properties, the score view among them, and all types.            *)
(***************************************************************************)
EXTENDS PartsProofs, RuleGroupProofs, WellFoundedInduction, NaturalsInduction, FiniteSetTheorems, TLAPS

(* The operators of a library module, seen through an instance.            *)
LEMMA SameCounting ==
  /\ \A S : CO!IsFiniteSet(S) = IsFiniteSet(S) /\ CO!Cardinality(S) = Cardinality(S)
  /\ \A S : EX!IsFiniteSet(S) = IsFiniteSet(S) /\ EX!Cardinality(S) = Cardinality(S)
  /\ \A S : TR!IsFiniteSet(S) = IsFiniteSet(S) /\ TR!Cardinality(S) = Cardinality(S)
<1>1. \A S : CO!IsFiniteSet(S) = IsFiniteSet(S)
  BY DEF CO!IsFiniteSet, IsFiniteSet
<1>2. \A S : CO!Cardinality(S) = Cardinality(S)
  BY DEF CO!Cardinality, Cardinality
<1>3. \A S : EX!IsFiniteSet(S) = IsFiniteSet(S)
  BY DEF EX!IsFiniteSet, IsFiniteSet
<1>4. \A S : EX!Cardinality(S) = Cardinality(S)
  BY DEF EX!Cardinality, Cardinality
<1>5. \A S : TR!IsFiniteSet(S) = IsFiniteSet(S)
  BY DEF TR!IsFiniteSet, IsFiniteSet
<1>6. \A S : TR!Cardinality(S) = Cardinality(S)
  BY DEF TR!Cardinality, Cardinality
<1> QED
  BY <1>1, <1>2, <1>3, <1>4, <1>5, <1>6

(* What is known of finite sets, of the sets that the components count.    *)
LEMMA CountedEmpty ==
  /\ \A S : (S = {} => CO!IsFiniteSet(S) /\ CO!Cardinality(S) = 0) /\ (CO!IsFiniteSet(S) => (CO!Cardinality(S) = 0 <=> S = {}))
  /\ \A S : (S = {} => EX!IsFiniteSet(S) /\ EX!Cardinality(S) = 0) /\ (EX!IsFiniteSet(S) => (EX!Cardinality(S) = 0 <=> S = {}))
  BY SameCounting, FS_EmptySet

LEMMA CountedType ==
  /\ \A S : CO!IsFiniteSet(S) => CO!Cardinality(S) \in Nat
  /\ \A S : EX!IsFiniteSet(S) => EX!Cardinality(S) \in Nat
  /\ \A S : TR!IsFiniteSet(S) => TR!Cardinality(S) \in Nat
  BY SameCounting, FS_CardinalityType

LEMMA CountedMore ==
  /\ \A S, x : CO!IsFiniteSet(S) => CO!IsFiniteSet(S \cup {x})
  /\ \A S, x : EX!IsFiniteSet(S) => EX!IsFiniteSet(S \cup {x})
  BY SameCounting, FS_AddElement

LEMMA CountedSubset ==
  /\ \A S, T : CO!IsFiniteSet(S) /\ T \subseteq S => CO!IsFiniteSet(T) /\ CO!Cardinality(T) <= CO!Cardinality(S)
                     /\ (CO!Cardinality(T) = CO!Cardinality(S) => T = S)
  /\ \A S, T : EX!IsFiniteSet(S) /\ T \subseteq S => EX!IsFiniteSet(T) /\ EX!Cardinality(T) <= EX!Cardinality(S)
                     /\ (EX!Cardinality(T) = EX!Cardinality(S) => T = S)
  /\ \A S, T : TR!IsFiniteSet(S) /\ T \subseteq S => TR!IsFiniteSet(T) /\ TR!Cardinality(T) <= TR!Cardinality(S)
                     /\ (TR!Cardinality(T) = TR!Cardinality(S) => T = S)
  BY SameCounting, FS_Subset

LEMMA CountedLess ==
  /\ \A S, x : CO!IsFiniteSet(S) /\ x \in S => CO!IsFiniteSet(S \ {x}) /\ CO!Cardinality(S \ {x}) = CO!Cardinality(S) - 1
  /\ \A S, x : EX!IsFiniteSet(S) /\ x \in S => EX!IsFiniteSet(S \ {x}) /\ EX!Cardinality(S \ {x}) = EX!Cardinality(S) - 1
  BY SameCounting, FS_RemoveElement

LEMMA CountedInterval ==
  \A a, b \in Int : /\ CO!IsFiniteSet(a .. b) /\ CO!Cardinality(a .. b) = IF a > b THEN 0 ELSE b - a + 1
                    /\ TR!IsFiniteSet(a .. b) /\ TR!Cardinality(a .. b) = IF a > b THEN 0 ELSE b - a + 1
<1>1. \A a, b \in Int : IsFiniteSet(a .. b) /\ Cardinality(a .. b) = IF a > b THEN 0 ELSE b - a + 1
  BY FS_Interval
<1> QED
  BY <1>1, SameCounting, Zenon

-----------------------------------------------------------------------------
(***************************************************************************)
(* The catalogue of conditions (Conditions).                               *)
(***************************************************************************)

(* A whole history: every candle that is read is one of its kind.          *)
HistoryTyped ==
    /\ kind \in DOMAIN CO!ReadOf
    /\ history \in Seq(ConditionCandles[kind]) /\ Len(history) <= ConditionDepth[kind]

LEMMA Read ==
  ASSUME CO!ConditionAssumption, HistoryTyped, CO!Full, NEW i \in Nat, i < CO!ReadOf[kind]
  PROVE  CO!At(i) \in ConditionCandles[kind]
<1>1. Len(history) >= CO!ReadOf[kind] /\ CO!ReadOf[kind] \in Nat /\ Len(history) \in Nat
  <2>1. CO!ReadOf[kind] \in Nat
    BY DEF HistoryTyped, CO!ReadOf
  <2>2. ConditionDepth[kind] \in Nat /\ ConditionDepth[kind] >= CO!ReadOf[kind]
    BY DEF CO!ConditionAssumption, HistoryTyped
  <2> QED
    BY <2>1, <2>2 DEF CO!Full
<1>2. i + 1 \in 1 .. Len(history)
  BY <1>1
<1> QED
  BY <1>2 DEF HistoryTyped, CO!At

(* The catalogue, one condition at a time.                                 *)

LEMMA BandFields ==
  ASSUME CO!ConditionAssumption, HistoryTyped, CO!Full, kind = "band", NEW i \in 0 .. 3
  PROVE  /\ CO!At(i).upper \in Nat /\ CO!At(i).mid \in Nat /\ CO!At(i).close \in Nat /\ CO!At(i).high \in Nat
         /\ CO!At(i).mid <= CO!At(i).upper
<1>1. CO!At(i) \in ConditionCandles["band"]
  BY Read DEF CO!ReadOf
<1> QED
  BY <1>1 DEF CO!ConditionAssumption

LEMMA Arithmetic ==
  ASSUME NEW price \in Nat, NEW upper \in Nat, NEW mid \in Nat, mid <= upper
  PROVE  /\ (price >= upper /\ 100 * (price - upper) > 1 * upper) <=> ~(100 * price <= 101 * upper)
         /\ (price >= upper /\ 100 * (price - upper) > 8 * upper) <=> 100 * price > 108 * upper
         /\ (price >= mid /\ 100 * (upper - price) <= 3 * (upper - mid))
               <=> price >= upper - (3 * (upper - mid)) \div 100
         /\ (price >= mid /\ 100 * (upper - price) <= 20 * (upper - mid))
               <=> price >= upper - (20 * (upper - mid)) \div 100
  OBVIOUS

LEMMA PriceGuard ==
  ASSUME CO!ConditionAssumption, HistoryTyped, CO!Full, kind = "band"
  PROVE  CO!Matched("price_guard") = CO!Promised("price_guard")
<1>1. CO!Matched("price_guard") = ~ \E i \in {0, 1} : CO!is_curr_price_away_from_bbupper(i, 1)
  BY DEF CO!Matched, CO!Parameters
<1>2. CO!Promised("price_guard") = ({i \in {0, 1} : 100 * CO!At(i).close <= 101 * CO!At(i).upper} = {0, 1})
  BY DEF CO!Promised, CO!describe_condition, CO!Described, CO!Parameters, CO!Changing, CO!Satisfied
<1>3. \A i \in {0, 1} : CO!is_curr_price_away_from_bbupper(i, 1) <=> ~(100 * CO!At(i).close <= 101 * CO!At(i).upper)
  <2> TAKE i \in {0, 1}
  <2>1. CO!At(i).close \in Nat /\ CO!At(i).upper \in Nat
    BY BandFields
  <2> QED
    BY <2>1 DEF CO!is_curr_price_away_from_bbupper
<1> QED
  BY <1>1, <1>2, <1>3

LEMMA HighAway ==
  ASSUME CO!ConditionAssumption, HistoryTyped, CO!Full, kind = "band"
  PROVE  CO!Matched("high_away") = CO!Promised("high_away")
<1> DEFINE far == {i \in {0, 1} : 100 * CO!At(i).high > 108 * CO!At(i).upper}
<1>1. CO!Matched("high_away") = \E i \in {0, 1} : CO!is_high_price_away_from_bbupper(i, 8)
  BY DEF CO!Matched, CO!Parameters
<1>2. CO!Promised("high_away") = (CO!Cardinality(far) >= 1)
  BY DEF CO!Promised, CO!describe_condition, CO!Described, CO!Parameters, CO!Changing, CO!Satisfied
<1>3. \A i \in {0, 1} : CO!is_high_price_away_from_bbupper(i, 8) <=> i \in far
  <2> TAKE i \in {0, 1}
  <2>1. CO!At(i).high \in Nat /\ CO!At(i).upper \in Nat
    BY BandFields
  <2> QED
    BY <2>1 DEF CO!is_high_price_away_from_bbupper
<1>4. CO!IsFiniteSet(far)
  <2>1. far \subseteq 0 .. 1
    OBVIOUS
  <2>2. CO!IsFiniteSet(0 .. 1)
    <3>1. 0 \in Int /\ 1 \in Int
      OBVIOUS
    <3> QED
      BY <3>1, CountedInterval, Zenon
  <2> QED
    BY <2>1, <2>2, CountedSubset
<1> HIDE DEF far
<1>5. CO!Cardinality(far) \in Nat /\ (CO!Cardinality(far) = 0 <=> far = {})
  BY <1>4, CountedEmpty, CountedType
<1>6. (CO!Cardinality(far) >= 1) = (far # {})
  BY <1>5
<1>7. far \subseteq {0, 1}
  BY DEF far
<1>8. (\E i \in {0, 1} : CO!is_high_price_away_from_bbupper(i, 8)) = (far # {})
  BY <1>3, <1>7
<1> QED
  BY <1>1, <1>2, <1>6, <1>8, Zenon

(* A set of candles counted twice is one count.                            *)
LEMMA Bullish ==
  ASSUME CO!ConditionAssumption, HistoryTyped, CO!Full, kind = "candle", NEW key \in {"bullish_ratio", "hour_bullish"}
  PROVE  CO!Matched(key) = CO!Promised(key)
<1> DEFINE p == CO!Parameters[key]
<1>1. CO!Matched(key) = (CO!Cardinality({i \in p.indices : [n \in p.indices |-> CO!is_bullish_k(n)][i]}) >= p.minimum)
  BY DEF CO!Matched, CO!Over
<1>2. CO!Promised(key) = (CO!Cardinality({i \in p.indices : CO!At(i).close > CO!At(i).open}) >= p.minimum)
  BY DEF CO!Promised, CO!describe_condition, CO!Described, CO!Changing, CO!Satisfied
<1>3. p.indices \subseteq 0 .. 4
  BY DEF CO!Parameters
<1> HIDE DEF p
<1>4. \A i \in p.indices : CO!is_bullish_k(i) <=> CO!At(i).close > CO!At(i).open
  <2> TAKE i \in p.indices
  <2>1. CO!At(i) \in ConditionCandles["candle"]
    BY <1>3, Read DEF CO!ReadOf
  <2> QED
    BY <2>1 DEF CO!ConditionAssumption, CO!is_bullish_k
<1>5. {i \in p.indices : [n \in p.indices |-> CO!is_bullish_k(n)][i]} = {i \in p.indices : CO!At(i).close > CO!At(i).open}
  BY <1>4
<1> QED
  BY <1>1, <1>2, <1>5

LEMMA NearUpper ==
  ASSUME CO!ConditionAssumption, HistoryTyped, CO!Full, kind = "band", NEW i \in 0 .. 3, NEW tolerance \in {3, 20}
  PROVE  CO!is_near_upper(i, tolerance)
            <=> CO!At(i).close >= CO!At(i).upper - (tolerance * (CO!At(i).upper - CO!At(i).mid)) \div 100
<1>1. CO!At(i).upper \in Nat /\ CO!At(i).mid \in Nat /\ CO!At(i).close \in Nat /\ CO!At(i).mid <= CO!At(i).upper
  BY BandFields
<1> QED
  BY <1>1, Arithmetic DEF CO!is_near_upper

LEMMA NearUpperBand ==
  ASSUME CO!ConditionAssumption, HistoryTyped, CO!Full, kind = "band"
  PROVE  CO!Matched("near_upper") = CO!Promised("near_upper")
<1>1. CO!Matched("near_upper") = (CO!Cardinality({i \in 1 .. 3 : [n \in 1 .. 3 |-> CO!is_near_upper(n, 3)][i]}) >= 2)
  BY DEF CO!Matched, CO!Over, CO!Parameters
<1>2. CO!Promised("near_upper") =
         (CO!Cardinality({i \in 1 .. 3 : CO!At(i).close >= CO!At(i).upper - (3 * (CO!At(i).upper - CO!At(i).mid)) \div 100}) >= 2)
  BY DEF CO!Promised, CO!describe_condition, CO!Described, CO!Parameters, CO!Changing, CO!Satisfied
<1>3. {i \in 1 .. 3 : [n \in 1 .. 3 |-> CO!is_near_upper(n, 3)][i]}
         = {i \in 1 .. 3 : CO!At(i).close >= CO!At(i).upper - (3 * (CO!At(i).upper - CO!At(i).mid)) \div 100}
  BY NearUpper
<1> QED
  BY <1>1, <1>2, <1>3

(* What the catalogue says of the windows.                                 *)
LEMMA Catalogue ==
  /\ CO!describe_condition("hour_upper") = [samples |-> 0 .. 2, minimum |-> 2]
  /\ CO!describe_condition("above_ema") = [samples |-> 1 .. 3, minimum |-> 3]
  /\ CO!describe_condition("widen") = [samples |-> 1 .. 5, minimum |-> 5]
  /\ CO!describe_condition("macd_down") = [samples |-> 0 .. 2, minimum |-> 3]
  /\ CO!describe_condition("j_down") = [samples |-> 0 .. 2, minimum |-> 3]
<1> DEFINE extra == [above_ema |-> 0, widen |-> 2, macd_down |-> 0, j_down |-> 1]
<1>1. /\ extra["above_ema"] = 0 /\ extra["widen"] = 2 /\ extra["macd_down"] = 0 /\ extra["j_down"] = 1
      /\ CO!Parameters["hour_upper"].size = 3
      /\ CO!Parameters["above_ema"].index = 1 /\ CO!Parameters["above_ema"].size = 3
      /\ CO!Parameters["widen"].index = 1 /\ CO!Parameters["widen"].size = 3
      /\ CO!Parameters["macd_down"].index = 0 /\ CO!Parameters["macd_down"].size = 3
      /\ CO!Parameters["j_down"].index = 0 /\ CO!Parameters["j_down"].size = 2
  BY DEF CO!Parameters
<1> HIDE DEF extra
<1>2. /\ 3 \div 2 + 1 = 2 /\ 3 - 1 = 2 /\ 3 + 0 = 3 /\ 3 + 2 = 5 /\ 2 + 1 = 3
      /\ 1 + 3 - 1 = 3 /\ 1 + 5 - 1 = 5 /\ 0 + 3 - 1 = 2
  OBVIOUS
<1>3. CO!Described("hour_upper", extra) = [samples |-> 0 .. 3 - 1, minimum |-> 3 \div 2 + 1]
  BY <1>1 DEF CO!Described
<1>4. \A key \in {"above_ema", "widen", "macd_down", "j_down"} :
         CO!Described(key, extra) = [samples |-> CO!Window(CO!Parameters[key].index, CO!Parameters[key].size + extra[key]),
                                  minimum |-> CO!Parameters[key].size + extra[key]]
  BY DEF CO!Described
<1>5. CO!Window(1, 3) = 1 .. 3 /\ CO!Window(1, 5) = 1 .. 5 /\ CO!Window(0, 3) = 0 .. 2
  BY <1>2 DEF CO!Window
<1>6. \A key : CO!describe_condition(key) = CO!Described(key, extra)
  BY DEF CO!describe_condition, extra
<1> QED
  BY <1>1, <1>2, <1>3, <1>4, <1>5, <1>6

LEMMA AlongUpper ==
  ASSUME CO!ConditionAssumption, HistoryTyped, CO!Full, kind = "band"
  PROVE  CO!Matched("hour_upper") = CO!Promised("hour_upper")
<1> DEFINE near == {i \in 0 .. 2 : CO!is_near_upper(i, 20)}
           told == {i \in 0 .. 2 : CO!At(i).close >= CO!At(i).upper - (20 * (CO!At(i).upper - CO!At(i).mid)) \div 100}
<1>1. CO!Matched("hour_upper") = (2 * CO!Cardinality(near) > 3)
  BY DEF CO!Matched, CO!Parameters, CO!is_along_upper_band
<1>2. CO!Promised("hour_upper") = (CO!Cardinality(told) >= 2)
  <2>1. CO!Promised("hour_upper") = (CO!Cardinality({i \in 0 .. 2 : CO!Satisfied("hour_upper", i)}) >= 2)
    BY Catalogue DEF CO!Promised, CO!Changing
  <2>2. {i \in 0 .. 2 : CO!Satisfied("hour_upper", i)} = told
    BY DEF CO!Satisfied
  <2> QED
    BY <2>1, <2>2
<1>3. near = told
  BY NearUpper
<1>4. CO!IsFiniteSet(told)
  <2>1. 0 \in Int /\ 2 \in Int
    OBVIOUS
  <2>2. CO!IsFiniteSet(0 .. 2)
    BY <2>1, CountedInterval, Zenon
  <2>3. told \subseteq 0 .. 2
    OBVIOUS
  <2> QED
    BY <2>2, <2>3, CountedSubset
<1> HIDE DEF near, told
<1>5. CO!Cardinality(told) \in Nat
  BY <1>4, CountedType
<1>6. (2 * CO!Cardinality(told) > 3) = (CO!Cardinality(told) >= 2)
  BY <1>5
<1> QED
  BY <1>1, <1>2, <1>3, <1>6

(* As many of three as there are of three are all of them.                 *)
LEMMA AboveEma ==
  ASSUME CO!ConditionAssumption, HistoryTyped, CO!Full, kind = "ema"
  PROVE  CO!Matched("above_ema") = CO!Promised("above_ema")
<1> DEFINE above3 == {i \in 1 .. 3 : CO!At(i).close > CO!At(i).ema12}
<1>1. CO!Matched("above_ema") = \A i \in 1 .. 3 : CO!At(i).ema12 < CO!At(i).close
  BY DEF CO!Matched, CO!Parameters, CO!is_ema12_continue_lt_close, CO!Window
<1>2. CO!Promised("above_ema") = (CO!Cardinality(above3) >= 3)
  BY Catalogue DEF CO!Promised, CO!Changing, CO!Satisfied
<1>3. \A i \in 1 .. 3 : CO!At(i).ema12 \in Int /\ CO!At(i).close \in Int
  <2> TAKE i \in 1 .. 3
  <2>1. CO!At(i) \in ConditionCandles["ema"]
    BY Read DEF CO!ReadOf
  <2> QED
    BY <2>1 DEF CO!ConditionAssumption
<1>4. (\A i \in 1 .. 3 : CO!At(i).ema12 < CO!At(i).close) = (above3 = 1 .. 3)
  BY <1>3
<1>5. CO!IsFiniteSet(1 .. 3) /\ CO!Cardinality(1 .. 3) = 3
  <2>1. 1 \in Int /\ 3 \in Int
    OBVIOUS
  <2>2. CO!IsFiniteSet(1 .. 3) /\ CO!Cardinality(1 .. 3) = IF 1 > 3 THEN 0 ELSE 3 - 1 + 1
    BY <2>1, CountedInterval, Zenon
  <2> HIDE DEF above3
  <2> QED
    BY <2>2
<1>6. above3 \subseteq 1 .. 3
  OBVIOUS
<1> HIDE DEF above3
<1>7. CO!Cardinality(above3) \in Nat /\ CO!Cardinality(above3) <= 3 /\ (CO!Cardinality(above3) = 3 => above3 = 1 .. 3)
  <2>1. CO!IsFiniteSet(above3) /\ CO!Cardinality(above3) <= CO!Cardinality(1 .. 3)
        /\ (CO!Cardinality(above3) = CO!Cardinality(1 .. 3) => above3 = 1 .. 3)
    BY <1>5, <1>6, CountedSubset, Zenon
  <2>2. CO!Cardinality(above3) \in Nat
    BY <2>1, CountedType
  <2> DEFINE n == CO!Cardinality(above3)
             m == CO!Cardinality(1 .. 3)
  <2>3. n \in Nat /\ n <= m /\ m = 3 /\ (n = m => above3 = 1 .. 3)
    BY <1>5, <2>1, <2>2
  <2> HIDE DEF n, m
  <2>4. n \in Nat /\ n <= 3 /\ (n = 3 => above3 = 1 .. 3)
    BY <2>3
  <2> QED
    BY <2>4 DEF n
<1>8. (CO!Cardinality(above3) >= 3) = (above3 = 1 .. 3)
  <2>1. CASE above3 = 1 .. 3
    BY <1>5, <2>1
  <2>2. CASE above3 # 1 .. 3
    BY <1>7, <2>2
  <2> QED
    BY <2>1, <2>2
<1> QED
  BY <1>1, <1>2, <1>4, <1>8

LEMMA Widen == CO!Matched("widen") = CO!Promised("widen")
<1>1. CO!Matched("widen") = \A i \in 1 .. 4 : CO!BandWidth(i) > CO!BandWidth(i + 1)
  BY DEF CO!Matched, CO!Parameters, CO!is_boll_widen
<1>2. CO!Promised("widen") = \A i \in 1 .. 5 : i - 1 \in 1 .. 5 => CO!BandWidth(i - 1) > CO!BandWidth(i)
  BY Catalogue DEF CO!Promised, CO!Changing, CO!Changed
<1>3. ASSUME \A i \in 1 .. 4 : CO!BandWidth(i) > CO!BandWidth(i + 1), NEW i \in 1 .. 5, i - 1 \in 1 .. 5
      PROVE  CO!BandWidth(i - 1) > CO!BandWidth(i)
  <2>1. i - 1 \in 1 .. 4 /\ (i - 1) + 1 = i
    BY <1>3
  <2> QED
    BY <1>3, <2>1
<1>4. ASSUME \A i \in 1 .. 5 : i - 1 \in 1 .. 5 => CO!BandWidth(i - 1) > CO!BandWidth(i), NEW i \in 1 .. 4
      PROVE  CO!BandWidth(i) > CO!BandWidth(i + 1)
  <2>1. i + 1 \in 1 .. 5 /\ (i + 1) - 1 = i /\ i \in 1 .. 5
    OBVIOUS
  <2> QED
    BY <1>4, <2>1
<1> QED
  BY <1>1, <1>2, <1>3, <1>4

LEMMA MacdDown ==
  ASSUME CO!ConditionAssumption, HistoryTyped, CO!Full, kind = "macd"
  PROVE  CO!Matched("macd_down") = CO!Promised("macd_down")
<1>1. CO!Matched("macd_down") = \A i \in 1 .. 2 : CO!At(i).macd > CO!At(i - 1).macd
  <2>1. CO!Matched("macd_down") = CO!is_continue_down(0, 3)
    BY DEF CO!Matched, CO!Parameters
  <2>2. 0 + 1 = 1 /\ 0 + 3 - 1 = 2
    OBVIOUS
  <2> QED
    BY <2>1, <2>2 DEF CO!is_continue_down
<1>2. CO!Promised("macd_down") = \A i \in 0 .. 2 : i - 1 \in 0 .. 2 => CO!At(i - 1).macd < CO!At(i).macd
  BY Catalogue DEF CO!Promised, CO!Changing, CO!Changed
<1>3. \A i \in 0 .. 2 : CO!At(i).macd \in Int
  <2> TAKE i \in 0 .. 2
  <2>1. CO!At(i) \in ConditionCandles["macd"]
    BY Read DEF CO!ReadOf
  <2> QED
    BY <2>1 DEF CO!ConditionAssumption
<1>4. \A i \in 0 .. 2 : i - 1 \in 0 .. 2 <=> i \in 1 .. 2
  OBVIOUS
<1>5. \A i \in 1 .. 2 : (CO!At(i).macd > CO!At(i - 1).macd) <=> CO!At(i - 1).macd < CO!At(i).macd
  BY <1>3
<1>6. ASSUME \A i \in 1 .. 2 : CO!At(i).macd > CO!At(i - 1).macd, NEW i \in 0 .. 2, i - 1 \in 0 .. 2
      PROVE  CO!At(i - 1).macd < CO!At(i).macd
  BY <1>4, <1>5, <1>6
<1>7. ASSUME \A i \in 0 .. 2 : i - 1 \in 0 .. 2 => CO!At(i - 1).macd < CO!At(i).macd, NEW i \in 1 .. 2
      PROVE  CO!At(i).macd > CO!At(i - 1).macd
  BY <1>4, <1>5, <1>7
<1> QED
  BY <1>1, <1>2, <1>6, <1>7

LEMMA JDown ==
  ASSUME CO!ConditionAssumption, HistoryTyped, CO!Full, kind = "kdj"
  PROVE  CO!Matched("j_down") = CO!Promised("j_down")
<1>1. CO!Matched("j_down") = \A i \in 1 .. 2 : CO!J(i) > CO!J(i - 1)
  BY DEF CO!Matched, CO!Parameters, CO!is_j_continue_down
<1>2. CO!Promised("j_down") = \A i \in 0 .. 2 : i - 1 \in 0 .. 2 => CO!J(i - 1) < CO!J(i)
  BY Catalogue DEF CO!Promised, CO!Changing, CO!Changed
<1>3. \A i \in 0 .. 2 : CO!J(i) \in Int
  <2> TAKE i \in 0 .. 2
  <2>1. CO!At(i) \in ConditionCandles["kdj"]
    BY Read DEF CO!ReadOf
  <2> QED
    BY <2>1 DEF CO!ConditionAssumption, CO!J
<1>4. \A i \in 0 .. 2 : i - 1 \in 0 .. 2 <=> i \in 1 .. 2
  OBVIOUS
<1>5. \A i \in 1 .. 2 : (CO!J(i) > CO!J(i - 1)) <=> CO!J(i - 1) < CO!J(i)
  BY <1>3
<1>6. ASSUME \A i \in 1 .. 2 : CO!J(i) > CO!J(i - 1), NEW i \in 0 .. 2, i - 1 \in 0 .. 2
      PROVE  CO!J(i - 1) < CO!J(i)
  BY <1>4, <1>5, <1>6
<1>7. ASSUME \A i \in 0 .. 2 : i - 1 \in 0 .. 2 => CO!J(i - 1) < CO!J(i), NEW i \in 1 .. 2
      PROVE  CO!J(i) > CO!J(i - 1)
  BY <1>4, <1>5, <1>7
<1> QED
  BY <1>1, <1>2, <1>6, <1>7

LEMMA CatalogueHolds ==
  ASSUME CO!ConditionAssumption, HistoryTyped
  PROVE  CO!CataloguePromisesWhatIsChecked
<1> SUFFICES ASSUME CO!Full, NEW key \in CO!KeysOf[kind] PROVE CO!Matched(key) = CO!Promised(key)
  BY DEF CO!CataloguePromisesWhatIsChecked
<1>1. /\ kind \in DOMAIN CO!ReadOf
      /\ kind = "candle" => key \in {"bullish_ratio", "hour_bullish"}
      /\ kind = "width" => key = "widen"
      /\ kind = "band" => key \in {"price_guard", "high_away", "near_upper", "hour_upper"}
      /\ kind = "ema" => key = "above_ema"
      /\ kind = "macd" => key = "macd_down"
      /\ kind = "kdj" => key = "j_down"
  BY DEF CO!KeysOf, HistoryTyped
<1>2. kind \in {"candle", "width", "band", "ema", "macd", "kdj"}
  BY <1>1 DEF CO!ReadOf
<1> QED
  BY <1>1, <1>2, Bullish, Widen, PriceGuard, HighAway, NearUpperBand, AlongUpper, AboveEma, MacdDown, JDown

(* The crosses.  The last cross tells the side the newest candle is on, and *)
(* a line that has led and no longer does was seen to cross or to meet.    *)
CrossesSeen ==
    /\ crossed \in [last : {"none", "golden", "death"}, repeated : {FALSE}]
    /\ {above, met, reported} \subseteq BOOLEAN
    /\ ~CO!Full => crossed.last = "none" /\ ~above
    /\ CO!Full /\ crossed.last = "golden" => kind = "macd" /\ CO!At(0).macd >= 0
    /\ CO!Full /\ crossed.last = "death" => kind = "macd" /\ CO!At(0).macd < 0
    /\ CO!Full /\ above /\ kind = "ema" /\ ~CO!Leading => reported
    /\ CO!Full /\ above /\ kind = "kdj" /\ ~CO!Leading => reported \/ met

ConditionInv == HistoryTyped /\ CrossesSeen

(* The candle that closes is the newest, and the newest before it is next. *)
LEMMA Closing ==
  ASSUME CO!ConditionAssumption, HistoryTyped, NEW c \in ConditionCandles[kind], CO!Close(c)
  PROVE  /\ HistoryTyped' /\ kind' = kind
         /\ CO!Full' <=> Len(history) >= ConditionDepth[kind] - 1
         /\ CO!At(0)' = c
         /\ CO!Full => CO!Full' /\ CO!At(1)' = CO!At(0)
<1> DEFINE d == ConditionDepth[kind]
           C == ConditionCandles[kind]
<1>1. d \in Nat /\ d >= 3 /\ history \in Seq(C) /\ Len(history) <= d /\ c \in C /\ kind' = kind
  <2>1. ConditionDepth[kind] \in Nat /\ ConditionDepth[kind] >= CO!ReadOf[kind]
    BY DEF CO!ConditionAssumption, HistoryTyped
  <2>2. CO!ReadOf[kind] \in {3, 4, 5, 6}
    BY DEF HistoryTyped, CO!ReadOf
  <2> QED
    BY <2>1, <2>2 DEF HistoryTyped, CO!Close
<1>2. history' = IF Len(history) < d THEN <<c>> \o history ELSE <<c>> \o SubSeq(history, 1, d - 1)
  BY DEF CO!Close
<1> HIDE DEF d, C
<1>3. CASE Len(history) < d
  <2>1. history' \in Seq(C) /\ Len(history') = Len(history) + 1 /\ history'[1] = c
    BY <1>1, <1>2, <1>3
  <2> QED
    BY <1>1, <1>3, <2>1 DEF HistoryTyped, CO!Full, CO!At, d, C
<1>4. CASE ~(Len(history) < d)
  <2>1. Len(history) = d
    BY <1>1, <1>4
  <2>2. /\ SubSeq(history, 1, d - 1) \in Seq(C) /\ Len(SubSeq(history, 1, d - 1)) = d - 1
        /\ SubSeq(history, 1, d - 1)[1] = history[1]
    BY <1>1, <2>1
  <2> DEFINE rest == SubSeq(history, 1, d - 1)
  <2>3. history' = <<c>> \o rest /\ rest \in Seq(C) /\ Len(rest) = d - 1 /\ rest[1] = history[1]
    BY <1>2, <1>4, <2>2
  <2> HIDE DEF rest
  <2>4. history' \in Seq(C) /\ Len(history') = d /\ history'[1] = c /\ history'[2] = history[1]
    BY <1>1, <2>3
  <2> QED
    BY <1>1, <2>1, <2>4 DEF HistoryTyped, CO!Full, CO!At, d, C
<1> QED
  BY <1>3, <1>4

LEMMA ConditionStart == ASSUME CO!ConditionAssumption, CO!Init PROVE ConditionInv
<1>1. HistoryTyped
  <2>1. Len(history) = 0 /\ history \in Seq(ConditionCandles[kind])
    BY DEF CO!Init
  <2>2. ConditionDepth[kind] \in Nat /\ kind \in DOMAIN CO!ReadOf
    BY DEF CO!Init, CO!ConditionAssumption
  <2> QED
    BY <2>1, <2>2 DEF HistoryTyped
<1>2. ~CO!Full
  <2>1. CO!ReadOf[kind] \in {3, 4, 5, 6} /\ ConditionDepth[kind] \in Nat /\ ConditionDepth[kind] >= CO!ReadOf[kind]
    BY DEF CO!Init, CO!ConditionAssumption, CO!ReadOf
  <2>2. Len(history) = 0
    BY DEF CO!Init
  <2> QED
    BY <2>1, <2>2 DEF CO!Full
<1> QED
  BY <1>1, <1>2 DEF ConditionInv, CrossesSeen, CO!Init

LEMMA ConditionStep == ASSUME CO!ConditionAssumption, ConditionInv, [CO!Next]_CO!conditionVars PROVE ConditionInv'
<1>1. CASE UNCHANGED CO!conditionVars
  BY <1>1 DEF CO!conditionVars, ConditionInv, HistoryTyped, CrossesSeen, CO!Full, CO!At, CO!Leading, CO!Fast, CO!Slow
<1>2. ASSUME NEW c \in ConditionCandles[kind], CO!Close(c) PROVE ConditionInv'
  <2>1. /\ HistoryTyped' /\ kind' = kind
        /\ CO!Full' <=> Len(history) >= ConditionDepth[kind] - 1
        /\ CO!At(0)' = c
        /\ CO!Full => CO!Full' /\ CO!At(1)' = CO!At(0)
    BY <1>2, Closing DEF ConditionInv
  <2>2. CASE ~CO!Full'
    <3>1. UNCHANGED <<crossed, above, met, reported>> /\ ~CO!Full
      BY <1>2, <2>1, <2>2 DEF CO!Close
    <3> QED
      BY <2>1, <2>2, <3>1 DEF ConditionInv, CrossesSeen
  <2>3. CASE CO!Full'
    <3>1. CO!Note
      BY <1>2, <2>1, <2>3 DEF CO!Close
    <3>2. /\ crossed \in [last : {"none", "golden", "death"}, repeated : {FALSE}]
          /\ {above, met, reported} \subseteq BOOLEAN
          /\ ~CO!Full => crossed.last = "none" /\ ~above
      BY DEF ConditionInv, CrossesSeen
    <3>3. {above', met', reported'} \subseteq BOOLEAN
      BY <3>1, <3>2 DEF CO!Note
    <3>4. CASE kind = "macd"
      <4>1. CO!At(0)' \in ConditionCandles["macd"] /\ c.macd \in Int /\ (CO!Full => CO!At(0).macd \in Int)
        BY <2>1, <3>4, <1>2, Read DEF ConditionInv, CO!ConditionAssumption, CO!ReadOf
      <4>2. CO!Cross' \in {"none", "golden", "death"} /\ (CO!Cross' = "golden" => CO!At(0)'.macd >= 0 /\ CO!At(1)'.macd < 0)
            /\ (CO!Cross' = "death" => CO!At(0)'.macd < 0 /\ CO!At(1)'.macd >= 0)
        BY DEF CO!Cross, CO!is_golden_cross, CO!is_death_cross
      <4>3. (CO!Cross' = "none" => ~(CO!At(0)'.macd >= 0 /\ CO!At(1)'.macd < 0) /\ ~(CO!At(0)'.macd < 0 /\ CO!At(1)'.macd >= 0))
        BY <2>1, <3>4 DEF CO!Cross, CO!is_golden_cross, CO!is_death_cross
      <4>4. CO!Cross' # "none" => CO!Cross' # crossed.last
        BY <2>1, <3>4, <4>1, <4>2 DEF ConditionInv, CrossesSeen
      <4>5. crossed' = IF CO!Cross' = "none" THEN crossed ELSE [last |-> CO!Cross', repeated |-> crossed.repeated \/ CO!Cross' = crossed.last]
        BY <3>1 DEF CO!Note
      <4>6. ~CO!Leading'
        BY <2>1, <3>4 DEF CO!Leading
      <4>7. crossed' \in [last : {"none", "golden", "death"}, repeated : {FALSE}]
        BY <3>2, <4>2, <4>4, <4>5
      <4>8. (crossed'.last = "golden" => c.macd >= 0) /\ (crossed'.last = "death" => c.macd < 0)
        <5>1. CASE CO!Cross' # "none"
          BY <2>1, <4>2, <4>5, <5>1
        <5>2. CASE CO!Cross' = "none"
          <6>1. crossed' = crossed
            BY <4>5, <5>2
          <6>2. CASE ~CO!Full
            BY <3>2, <6>1, <6>2
          <6>3. CASE CO!Full
            BY <2>1, <4>1, <4>3, <5>2, <6>1, <6>3 DEF ConditionInv, CrossesSeen
          <6> QED
            BY <6>2, <6>3
        <5> QED
          BY <5>1, <5>2
      <4> QED
        BY <2>1, <2>3, <3>3, <3>4, <4>7, <4>8 DEF ConditionInv, CrossesSeen
    <3>5. CASE kind # "macd"
      <4>1. CO!Cross' = "none" /\ crossed.last = "none"
        BY <2>1, <3>2, <3>5 DEF CO!Cross, ConditionInv, CrossesSeen
      <4>2. crossed' = crossed
        BY <3>1, <4>1 DEF CO!Note
      <4>3. ASSUME above', ~CO!Leading' PROVE (kind = "ema" => reported') /\ (kind = "kdj" => reported' \/ met')
        <5>1. above /\ CO!Full
          BY <3>1, <3>2, <4>3 DEF CO!Note
        <5>2. reported' = (reported \/ CO!Death') /\ met' = (met \/ CO!Level')
          BY <3>1, <3>2, <4>3 DEF CO!Note
        <5>3. CASE kind = "ema"
          <6>1. CO!At(0) \in ConditionCandles["ema"] /\ c \in ConditionCandles["ema"]
            BY <1>2, <5>1, <5>3, Read DEF ConditionInv, CO!ReadOf
          <6>2. CO!At(0).ema12 \in Int /\ CO!At(0).ema26 \in Int /\ c.ema12 \in Int /\ c.ema26 \in Int
            BY <6>1 DEF CO!ConditionAssumption
          <6>3. c.ema12 <= c.ema26
            BY <2>1, <4>3, <5>3, <6>2 DEF CO!Leading, CO!Fast, CO!Slow
          <6>4. CASE CO!Leading
            <7>1. CO!At(0).ema12 > CO!At(0).ema26
              BY <5>3, <6>4 DEF CO!Leading, CO!Fast, CO!Slow
            <7>2. CO!Death'
              BY <2>1, <5>1, <5>3, <6>3, <7>1 DEF CO!Death, CO!is_ema_death_cross
            <7> QED
              BY <5>2, <5>3, <7>2
          <6>5. CASE ~CO!Leading
            BY <5>1, <5>2, <5>3, <6>5, Zenon DEF ConditionInv, CrossesSeen
          <6> QED
            BY <6>4, <6>5
        <5>4. CASE kind = "kdj"
          <6>1. CO!At(0) \in ConditionCandles["kdj"] /\ c \in ConditionCandles["kdj"]
            BY <1>2, <5>1, <5>4, Read DEF ConditionInv, CO!ReadOf
          <6>2. CO!At(0).k \in Int /\ CO!At(0).d \in Int /\ c.k \in Int /\ c.d \in Int
            BY <6>1 DEF CO!ConditionAssumption
          <6>3. c.k <= c.d
            BY <2>1, <4>3, <5>4, <6>2 DEF CO!Leading, CO!Fast, CO!Slow
          <6>4. CASE CO!Leading
            <7>1. CO!At(0).k > CO!At(0).d
              BY <5>4, <6>4 DEF CO!Leading, CO!Fast, CO!Slow
            <7>2. CASE c.k = c.d
              <8>1. CO!Level'
                BY <2>1, <5>4, <7>2 DEF CO!Level, CO!Fast, CO!Slow
              <8> QED
                BY <5>2, <5>4, <8>1
            <7>3. CASE c.k # c.d
              <8>1. c.k < c.d
                BY <6>2, <6>3, <7>3
              <8>2. CO!Death'
                BY <2>1, <5>1, <5>4, <7>1, <8>1 DEF CO!Death, CO!kdj_is_death_cross
              <8> QED
                BY <5>2, <5>4, <8>2
            <7> QED
              BY <7>2, <7>3
          <6>5. CASE ~CO!Leading
            BY <5>1, <5>2, <5>4, <6>5, Zenon DEF ConditionInv, CrossesSeen
          <6> QED
            BY <6>4, <6>5
        <5> QED
          BY <5>3, <5>4
      <4> QED
        BY <2>1, <2>3, <3>2, <3>3, <4>1, <4>2, <4>3 DEF ConditionInv, CrossesSeen
    <3> QED
      BY <3>4, <3>5
  <2> QED
    BY <2>2, <2>3
<1> QED
  BY <1>1, <1>2 DEF CO!Next

LEMMA ConditionImplies == ASSUME CO!ConditionAssumption, ConditionInv PROVE CO!FactorsAsPromised /\ CO!TypeOK
<1>1. CO!CataloguePromisesWhatIsChecked
  BY CatalogueHolds DEF ConditionInv
<1>2. CO!MacdCrossesAlternate
  BY DEF ConditionInv, CrossesSeen, CO!MacdCrossesAlternate
<1>3. CO!EmaFallReported
  <2> SUFFICES ASSUME CO!Fallen, kind = "ema" PROVE reported
    BY DEF CO!EmaFallReported
  <2>1. CO!At(0) \in ConditionCandles["ema"]
    BY Read DEF CO!Fallen, ConditionInv, CO!ReadOf
  <2>2. CO!At(0).ema12 \in Int /\ CO!At(0).ema26 \in Int
    BY <2>1 DEF CO!ConditionAssumption
  <2>3. ~CO!Leading
    BY <2>2 DEF CO!Fallen, CO!Leading, CO!Fast, CO!Slow
  <2> QED
    BY <2>3 DEF CO!Fallen, ConditionInv, CrossesSeen
<1>4. CO!KdjFallSeenUnlessMet
  <2> SUFFICES ASSUME CO!Fallen, kind = "kdj" PROVE reported \/ met
    BY DEF CO!KdjFallSeenUnlessMet
  <2>1. CO!At(0) \in ConditionCandles["kdj"]
    BY Read DEF CO!Fallen, ConditionInv, CO!ReadOf
  <2>2. CO!At(0).k \in Int /\ CO!At(0).d \in Int
    BY <2>1 DEF CO!ConditionAssumption
  <2>3. ~CO!Leading
    BY <2>2 DEF CO!Fallen, CO!Leading, CO!Fast, CO!Slow
  <2> QED
    BY <2>3 DEF CO!Fallen, ConditionInv, CrossesSeen
<1>5. CO!TypeOK
  BY DEF CO!TypeOK, ConditionInv, CrossesSeen, HistoryTyped, CO!ConditionAssumption
<1> QED
  BY <1>1, <1>2, <1>3, <1>4, <1>5 DEF CO!FactorsAsPromised

(* What the catalogue tells of a condition is what is evaluated, and no    *)
(* cross is reported twice or missed, for candles of any prices            *)
(* (strategy_rules.py:262, factor.py:453).                                 *)
THEOREM FactorsPromised == ASSUME CO!ConditionAssumption PROVE CO!Spec => [](CO!FactorsAsPromised /\ CO!TypeOK)
<1>1. CO!Init => ConditionInv
  BY ConditionStart
<1>2. ConditionInv /\ [CO!Next]_CO!conditionVars => ConditionInv'
  BY ConditionStep
<1>3. ConditionInv => CO!FactorsAsPromised /\ CO!TypeOK
  BY ConditionImplies
<1> QED
  BY <1>1, <1>2, <1>3, PTL DEF CO!Spec

-----------------------------------------------------------------------------
(***************************************************************************)
(* The entry score (EntryScore).                                           *)
(***************************************************************************)

(* A history of candles of one kind.                                       *)
ScoreTyped ==
    /\ scoreKind \in DOMAIN ES!ReadOf
    /\ scoreHistory \in Seq(ScoreCandles[scoreKind]) /\ Len(scoreHistory) <= ScoreDepth[scoreKind]

LEMMA ScoreRead ==
  ASSUME ES!ScoreAssumption, ScoreTyped, ES!Full, NEW i \in Nat, i < ES!ReadOf[scoreKind]
  PROVE  ES!At(i) \in ScoreCandles[scoreKind]
<1>1. Len(scoreHistory) >= ES!ReadOf[scoreKind] /\ ES!ReadOf[scoreKind] \in Nat /\ Len(scoreHistory) \in Nat
  <2>1. ES!ReadOf[scoreKind] \in Nat
    BY DEF ScoreTyped, ES!ReadOf
  <2>2. ScoreDepth[scoreKind] \in Nat /\ ScoreDepth[scoreKind] >= ES!ReadOf[scoreKind]
    BY DEF ES!ScoreAssumption, ScoreTyped
  <2> QED
    BY <2>1, <2>2 DEF ES!Full
<1>2. i + 1 \in 1 .. Len(scoreHistory)
  BY <1>1
<1> QED
  BY <1>2 DEF ScoreTyped, ES!At

(* What each part can award.                                               *)

LEMMA TrendParts ==
  /\ ES!If(ES!has_ema_bullish_alignment, 20) \in 0 .. 20 /\ ES!If(ES!has_ema_bullish_alignment, 10) \in 0 .. 10
  /\ ES!_get_adjust_score_4h_has_ema_uptrend \in -20 .. 10
  /\ ES!_get_adjust_score_1h_has_ema_uptrend \in -18 .. 8
  /\ ES!_get_adjust_score_1h_macd_trend \in 0 .. 10
  /\ ES!If(ES!At(0).macd > 0, 4) \in 0 .. 4
  /\ ES!_get_adjust_score_4h_macd_uptrend \in 0 .. 10
<1>1. ES!If(ES!has_ema_bullish_alignment, 20) \in 0 .. 20 /\ ES!If(ES!has_ema_bullish_alignment, 10) \in 0 .. 10
  BY DEF ES!If
<1>2. ES!_get_adjust_score_4h_has_ema_uptrend \in -20 .. 10
  BY DEF ES!If, ES!_get_adjust_score_4h_has_ema_uptrend
<1>3. ES!_get_adjust_score_1h_has_ema_uptrend \in -18 .. 8
  BY DEF ES!If, ES!_get_adjust_score_1h_has_ema_uptrend
<1>4. ES!_get_adjust_score_1h_macd_trend \in 0 .. 10
  BY DEF ES!If, ES!_get_adjust_score_1h_macd_trend
<1>5. ES!If(ES!At(0).macd > 0, 4) \in 0 .. 4
  BY DEF ES!If
<1>6. ES!_get_adjust_score_4h_macd_uptrend \in 0 .. 10
  BY DEF ES!If, ES!_get_adjust_score_4h_macd_uptrend
<1> QED
  BY <1>1, <1>2, <1>3, <1>4, <1>5, <1>6

LEMMA KdjFields ==
  ASSUME ES!ScoreAssumption, ScoreTyped, ES!Full, scoreKind = "kdj", NEW i \in 0 .. 3
  PROVE  /\ ES!At(i).k \in Int /\ ES!At(i).d \in Int /\ ES!J(i) \in Int
         /\ ES!J(i) = 3 * ES!At(i).k - 2 * ES!At(i).d
<1>1. ES!At(i) \in ScoreCandles["kdj"]
  BY ScoreRead DEF ES!ReadOf
<1> QED
  BY <1>1 DEF ES!ScoreAssumption, ES!J

LEMMA KdjParts ==
  ASSUME ES!ScoreAssumption, ScoreTyped, ES!Full, scoreKind = "kdj"
  PROVE  ES!_get_adjust_score_kdj_4h \in 0 .. 30 /\ ES!_get_adjust_score_kdj_1h \in -10 .. 40
<1>1. ES!J(0) \in Int
  BY KdjFields
<1>2. ES!_get_adjust_score_kdj_4h_up \in 0 .. 20
  BY <1>1 DEF ES!_get_adjust_score_kdj_4h_up
<1>3. ES!_get_adjust_score_kdj_4h \in 0 .. 30
  BY <1>2 DEF ES!_get_adjust_score_kdj_4h, ES!If
<1>4. ES!_get_adjust_score_kdj_1h_no_death_cross \in 2 .. 10
  BY DEF ES!_get_adjust_score_kdj_1h_no_death_cross, ES!If
<1>5. ES!_get_adjust_score_kdj_1h \in -10 .. 40
  BY <1>4 DEF ES!_get_adjust_score_kdj_1h, ES!If
<1> QED
  BY <1>3, <1>5

(* An RSI that breaks out or is healthy is not one that recovers from below *)
(* thirty.                                                                 *)
LEMMA RsiParts4h ==
  ASSUME ES!ScoreAssumption, ScoreTyped, ES!Full, scoreKind = "rsi_4h"
  PROVE  ES!_get_adjust_score_rsi_4h \in -10 .. 28
<1>1. ES!At(0).rsi \in Int
  <2>1. ES!At(0) \in ScoreCandles["rsi_4h"]
    BY ScoreRead DEF ES!ReadOf
  <2> QED
    BY <2>1 DEF ES!ScoreAssumption
<1> DEFINE breakout == ES!If(ES!get_breakout(60), 6)
           healthy == ES!If(ES!get_healthy_bound, 6)
           recovers == ES!If(ES!At(0).rsi < 30 /\ ES!At(0).rsi > ES!At(1).rsi, 10)
<1>2. \E a, b, c : /\ a \in {0, 6} /\ b \in {0, -10} /\ c \in {0, 10}
                  /\ ES!_get_adjust_score_rsi_4h = breakout + healthy + a + b + c + recovers
  BY DEF ES!_get_adjust_score_rsi_4h, ES!If
<1>3. breakout \in {0, 6} /\ healthy \in {0, 6} /\ recovers \in {0, 10}
  BY DEF ES!If
<1>4. recovers = 10 => breakout = 0 /\ healthy = 0
  BY <1>1 DEF ES!If, ES!get_breakout, ES!get_healthy_bound
<1> HIDE DEF breakout, healthy, recovers
<1> QED
  BY <1>2, <1>3, <1>4

(* An RSI that rebounds fell before, and one that rises did not.           *)
LEMMA RsiParts1h ==
  ASSUME ES!ScoreAssumption, ScoreTyped, ES!Full, scoreKind = "rsi_1h"
  PROVE  ES!_get_adjust_score_rsi_1h \in -10 .. 36
<1>1. ES!At(1).rsi \in Int /\ ES!At(2).rsi \in Int
  <2>1. ES!At(1) \in ScoreCandles["rsi_1h"] /\ ES!At(2) \in ScoreCandles["rsi_1h"]
    BY ScoreRead DEF ES!ReadOf
  <2> QED
    BY <2>1 DEF ES!ScoreAssumption
<1> DEFINE rebound == ES!If(ES!get_rebound, 10)
           uptrend == ES!If(ES!rsi_uptrend, 10)
           pullback == ES!If(ES!get_pullback_entry, 6)
           breakout == ES!If(ES!get_breakout_from_low, 10)
           heated == ES!If(ES!At(0).rsi > 80 \/ ES!At(1).rsi > 80, -10)
           recovers == ES!If(ES!At(0).rsi >= 30 /\ ES!At(1).rsi < 25, 10)
<1>2. ES!_get_adjust_score_rsi_1h = rebound + uptrend + pullback + breakout + heated + recovers
  BY DEF ES!_get_adjust_score_rsi_1h
<1>3. /\ rebound \in {0, 10} /\ uptrend \in {0, 10} /\ pullback \in {0, 6}
      /\ breakout \in {0, 10} /\ heated \in {0, -10} /\ recovers \in {0, 10}
  BY DEF ES!If
<1>4. rebound = 10 => uptrend = 0
  BY <1>1 DEF ES!If, ES!get_rebound, ES!rsi_uptrend
<1> HIDE DEF rebound, uptrend, pullback, breakout, heated, recovers
<1> QED
  BY <1>2, <1>3, <1>4

LEMMA BollFields ==
  ASSUME ES!ScoreAssumption, ScoreTyped, ES!Full, scoreKind = "boll", NEW i \in 0 .. 3
  PROVE  /\ ES!At(i).close \in Int /\ ES!At(i).mid \in Int /\ ES!At(i).upper \in Int /\ ES!At(i).lower \in Int
         /\ ES!At(i).mid <= ES!At(i).upper
<1>1. ES!At(i) \in ScoreCandles["boll"]
  BY ScoreRead DEF ES!ReadOf
<1> QED
  BY <1>1 DEF ES!ScoreAssumption

(* A close is not on both sides of the upper band.                         *)
LEMMA BollParts ==
  ASSUME ES!ScoreAssumption, ScoreTyped, ES!Full, scoreKind = "boll"
  PROVE  /\ ES!_get_adjust_score_boll_4h \in -16 .. 0 /\ ES!_get_adjust_score_boll_1h \in -80 .. 16
         /\ ES!_get_adjust_score_kline_4h \in -4 .. 0 /\ ES!_get_adjust_score_kline_1h \in -6 .. 0
<1>1. ES!At(0).close \in Int /\ ES!At(0).upper \in Int
  BY BollFields
<1>2. ES!_get_adjust_score_boll_4h \in -16 .. 0
  BY <1>1 DEF ES!_get_adjust_score_boll_4h, ES!If
<1>3. ES!Overheated \in -60 .. 0
  BY DEF ES!Overheated, ES!If
<1>4. ES!Back \in 0 .. 16
  BY DEF ES!Back
<1>5. ES!_get_adjust_score_boll_1h \in -80 .. 16
  BY <1>3, <1>4 DEF ES!_get_adjust_score_boll_1h, ES!If
<1>6. ES!_get_adjust_score_kline_4h \in -4 .. 0 /\ ES!_get_adjust_score_kline_1h \in -6 .. 0
  BY DEF ES!_get_adjust_score_kline_4h, ES!_get_adjust_score_kline_1h, ES!If
<1> QED
  BY <1>2, <1>5, <1>6

LEMMA VolumePart == ES!_get_adjust_score_vol_1h_up_13x \in 0 .. 10
  BY DEF ES!_get_adjust_score_vol_1h_up_13x, ES!If

LEMMA PartsWithinBounds == ASSUME ES!ScoreAssumption, ScoreTyped PROVE ES!PartsBounded
<1> SUFFICES ASSUME ES!Full, NEW p \in DOMAIN ES!score_info
             PROVE  ES!Bounds[p][1] <= ES!score_info[p] /\ ES!score_info[p] <= ES!Bounds[p][2]
  BY DEF ES!PartsBounded
<1>1. CASE scoreKind = "ema"
  <2>1. /\ ES!score_info = [stack_4h |-> ES!If(ES!has_ema_bullish_alignment, 20),
                         uptrend_4h |-> ES!_get_adjust_score_4h_has_ema_uptrend,
                         stack_1h |-> ES!If(ES!has_ema_bullish_alignment, 10),
                         uptrend_1h |-> ES!_get_adjust_score_1h_has_ema_uptrend]
    BY <1>1 DEF ES!score_info
  <2> QED
    BY <2>1, TrendParts DEF ES!Bounds
<1>2. CASE scoreKind = "macd"
  <2>1. ES!score_info = [macd_1h |-> ES!_get_adjust_score_1h_macd_trend, macd_1d |-> ES!If(ES!At(0).macd > 0, 4),
                      macd_4h |-> ES!_get_adjust_score_4h_macd_uptrend]
    BY <1>2 DEF ES!score_info
  <2> QED
    BY <2>1, TrendParts DEF ES!Bounds
<1>3. CASE scoreKind = "kdj"
  <2>1. ES!score_info = [kdj_4h |-> ES!_get_adjust_score_kdj_4h, kdj_1h |-> ES!_get_adjust_score_kdj_1h]
    BY <1>3 DEF ES!score_info
  <2> QED
    BY <1>3, <2>1, KdjParts DEF ES!Bounds
<1>4. CASE scoreKind = "rsi_4h"
  <2>1. ES!score_info = [rsi_4h |-> ES!_get_adjust_score_rsi_4h]
    BY <1>4 DEF ES!score_info
  <2> QED
    BY <1>4, <2>1, RsiParts4h DEF ES!Bounds
<1>5. CASE scoreKind = "rsi_1h"
  <2>1. ES!score_info = [rsi_1h |-> ES!_get_adjust_score_rsi_1h]
    BY <1>5 DEF ES!score_info
  <2> QED
    BY <1>5, <2>1, RsiParts1h DEF ES!Bounds
<1>6. CASE scoreKind = "boll"
  <2>1. ES!score_info = [boll_4h |-> ES!_get_adjust_score_boll_4h, boll_1h |-> ES!_get_adjust_score_boll_1h,
                      kline_4h |-> ES!_get_adjust_score_kline_4h, kline_1h |-> ES!_get_adjust_score_kline_1h]
    BY <1>6 DEF ES!score_info
  <2> QED
    BY <1>6, <2>1, BollParts DEF ES!Bounds
<1>7. CASE scoreKind = "volume"
  <2>1. ES!score_info = [vol_1h |-> ES!_get_adjust_score_vol_1h_up_13x]
    BY <1>7 DEF ES!score_info
  <2> QED
    BY <2>1, VolumePart DEF ES!Bounds
<1>8. scoreKind \in {"ema", "macd", "kdj", "rsi_4h", "rsi_1h", "boll", "volume"}
  BY DEF ScoreTyped, ES!ReadOf
<1> QED
  BY <1>1, <1>2, <1>3, <1>4, <1>5, <1>6, <1>7, <1>8

(* Where a score fails.                                                    *)
LEMMA ErrorPair ==
  ASSUME NEW size \in {2, 3}, ES!get_uptrend(size) = "error"
  PROVE  \E i \in 0 .. 1 : ES!Rising(i) = "error"
<1> DEFINE decided == {i \in 0 .. size - 2 : ES!Rising(i) # "yes"}
<1>1. decided # {} /\ ES!Rising(ES!Max(decided)) = "error"
  BY DEF ES!get_uptrend
<1>2. decided \subseteq {0, 1}
  OBVIOUS
<1> HIDE DEF decided
<1>3. \E x \in decided : \A y \in decided : x >= y
  <2>1. CASE 1 \in decided
    BY <1>2, <2>1
  <2>2. CASE 1 \notin decided
    <3>1. decided = {0}
      BY <1>1, <1>2, <2>2
    <3> QED
      BY <3>1
  <2> QED
    BY <2>1, <2>2
<1>4. ES!Max(decided) \in decided
  BY <1>3 DEF ES!Max
<1>5. \A m \in decided : m \in 0 .. 1
  BY <1>2
<1> QED
  BY <1>1, <1>4, <1>5, Zenon

LEMMA ScoreFails == ASSUME ES!ScoreAssumption, ScoreTyped PROVE ES!FailsOnlyCollapsed
<1> DEFINE collapsed(i) == /\ \E n \in {i, i + 1} : ES!At(n).d >= 4 * ES!At(n).k
                           /\ (ES!Above(i) /\ ES!Above(i + 1)) \/ (ES!Below(i) /\ ES!Below(i + 1))
<1> SUFFICES ASSUME ES!Fails PROVE \E i \in 0 .. 1 : collapsed(i)
  BY DEF ES!FailsOnlyCollapsed
<1>0. ES!Full /\ scoreKind = "kdj" /\ (ES!get_uptrend(3) = "error" \/ ES!get_uptrend(2) = "error")
  BY DEF ES!Fails
<1>1. PICK i \in 0 .. 1 : ES!Rising(i) = "error"
  BY <1>0, ErrorPair
<1>2. /\ (ES!Above(i) /\ ES!Above(i + 1)) \/ (ES!Below(i) /\ ES!Below(i + 1))
      /\ ~(ES!CvKnown(i) /\ ES!CvKnown(i + 1))
  BY <1>1 DEF ES!Rising
<1>3. ASSUME NEW n \in {i, i + 1}, ~ES!CvKnown(n) PROVE ES!At(n).d >= 4 * ES!At(n).k
  <2>1. n \in 0 .. 3
    OBVIOUS
  <2>2. ES!At(n).k \in Int /\ ES!At(n).d \in Int /\ ES!J(n) = 3 * ES!At(n).k - 2 * ES!At(n).d
    BY <1>0, <2>1, KdjFields
  <2> QED
    BY <1>3, <2>2 DEF ES!CvKnown, ES!Total
<1> QED
  BY <1>2, <1>3

LEMMA NotBothHighAndBack == ASSUME ES!ScoreAssumption, ScoreTyped PROVE ES!HighIsNotBack
<1> SUFFICES ASSUME ES!Full, scoreKind = "boll", 2 * ES!At(0).close > ES!At(0).upper + ES!At(0).mid, ES!Back > 0
             PROVE  ES!At(1).close > ES!At(1).lower /\ 2 * ES!At(1).close <= ES!At(1).lower + ES!At(1).mid
  BY DEF ES!HighIsNotBack
<1>1. ES!At(0).close \in Int /\ ES!At(0).mid \in Int /\ ES!At(0).upper \in Int /\ ES!At(0).mid <= ES!At(0).upper
  BY BollFields
<1>2. ~(ES!At(0).close < ES!At(0).mid)
  BY <1>1
<1>3. ~(10 * (ES!At(0).close - ES!At(0).mid) < ES!At(0).upper - ES!At(0).mid)
  BY <1>1
<1> QED
  BY <1>2, <1>3 DEF ES!Back

LEMMA ScoreStep == ASSUME ES!ScoreAssumption, ScoreTyped, [ES!Next]_ES!scoreVars PROVE ScoreTyped'
<1>1. CASE UNCHANGED ES!scoreVars
  BY <1>1 DEF ES!scoreVars, ScoreTyped
<1>2. ASSUME NEW c \in ScoreCandles[scoreKind], ES!Close(c) PROVE ScoreTyped'
  <2> DEFINE d == ScoreDepth[scoreKind]
             C == ScoreCandles[scoreKind]
  <2>1. d \in Nat /\ d >= 1 /\ scoreHistory \in Seq(C) /\ Len(scoreHistory) <= d /\ c \in C /\ scoreKind' = scoreKind
    <3>1. ScoreDepth[scoreKind] \in Nat /\ ScoreDepth[scoreKind] >= ES!ReadOf[scoreKind]
      BY DEF ES!ScoreAssumption, ScoreTyped
    <3>2. ES!ReadOf[scoreKind] \in {3, 4, 5, 6, 7}
      BY DEF ScoreTyped, ES!ReadOf
    <3> QED
      BY <1>2, <3>1, <3>2 DEF ScoreTyped, ES!Close
  <2>2. scoreHistory' = IF Len(scoreHistory) = d THEN <<c>> \o SubSeq(scoreHistory, 1, d - 1) ELSE <<c>> \o scoreHistory
    BY <1>2 DEF ES!Close, ES!Full
  <2>3. scoreKind' = scoreKind /\ scoreKind \in DOMAIN ES!ReadOf
    BY <2>1 DEF ScoreTyped
  <2> HIDE DEF d, C
  <2>4. scoreHistory' \in Seq(C) /\ Len(scoreHistory') <= d
    <3>1. CASE Len(scoreHistory) # d
      BY <2>1, <2>2, <3>1
    <3>2. CASE Len(scoreHistory) = d
      <4> DEFINE rest == SubSeq(scoreHistory, 1, d - 1)
      <4>1. rest \in Seq(C) /\ Len(rest) = d - 1
        BY <2>1, <3>2
      <4>2. scoreHistory' = <<c>> \o rest
        BY <2>2, <3>2
      <4> HIDE DEF rest
      <4> QED
        BY <2>1, <4>1, <4>2
    <3> QED
      BY <3>1, <3>2
  <2> QED
    BY <2>3, <2>4 DEF ScoreTyped, d, C
<1> QED
  BY <1>1, <1>2 DEF ES!Next

(* A score fails only on a collapsed KDJ, no part leaves its range, and a   *)
(* price is not high and back at once, for candles of any prices           *)
(* (strategy.py:422, indicators.py:216).                                   *)
THEOREM EntryScores == ASSUME ES!ScoreAssumption PROVE ES!Spec => [](ES!EntryScoreSound /\ ES!TypeOK)
<1>1. ES!Init => ScoreTyped
  <2> SUFFICES ASSUME ES!Init PROVE ScoreTyped
    OBVIOUS
  <2>1. Len(scoreHistory) = 0 /\ scoreHistory \in Seq(ScoreCandles[scoreKind])
    BY DEF ES!Init
  <2>2. ScoreDepth[scoreKind] \in Nat /\ scoreKind \in DOMAIN ES!ReadOf
    BY DEF ES!Init, ES!ScoreAssumption
  <2> QED
    BY <2>1, <2>2 DEF ScoreTyped
<1>2. ScoreTyped /\ [ES!Next]_ES!scoreVars => ScoreTyped'
  BY ScoreStep
<1>3. ScoreTyped => ES!EntryScoreSound /\ ES!TypeOK
  BY PartsWithinBounds, ScoreFails, NotBothHighAndBack DEF ES!EntryScoreSound, ScoreTyped, ES!TypeOK, ES!ScoreAssumption
<1> QED
  BY <1>1, <1>2, <1>3, PTL DEF ES!Spec

-----------------------------------------------------------------------------
(***************************************************************************)
(* The exit signals (ExitSignals).                                         *)
(***************************************************************************)

(* A set of naturals has a least element.                                  *)
LEMMA LeastNumber ==
  ASSUME NEW T, T \subseteq Nat, T # {}
  PROVE  \E n \in T : \A m \in T : n <= m
<1>1. PICK n \in T : \A m \in T : ~(<<m, n>> \in OpToRel(<, Nat))
  BY NatLessThanWellFounded, WFMin
<1>2. \A m \in Nat : m < n => <<m, n>> \in OpToRel(<, Nat)
  BY DEF OpToRel
<1>3. \A m \in T : ~(m < n) /\ m \in Nat /\ n \in Nat
  BY <1>1, <1>2
<1> QED
  BY <1>3

(* As many numbers as there are have a greatest one.                       *)
LEMMA GreatestNumber ==
  ASSUME NEW f, NEW n \in Nat, n >= 1, \A i \in 1 .. n : f[i] \in Int
  PROVE  \E m \in 1 .. n : \A i \in 1 .. n : f[i] <= f[m]
<1> DEFINE Top(k) == \E m \in 1 .. k : \A i \in 1 .. k : f[i] <= f[m]
           T == {k \in 1 .. n : ~Top(k)}
<1> SUFFICES ASSUME T # {} PROVE FALSE
  <2>1. n \in 1 .. n
    OBVIOUS
  <2> QED
    BY <2>1
<1>1. PICK k \in T : \A l \in T : k <= l
  <2>1. T \subseteq Nat
    OBVIOUS
  <2> HIDE DEF T
  <2> QED
    BY <2>1, LeastNumber
<1>2. k \in 1 .. n /\ ~Top(k)
  BY <1>1
<1>3. k # 1
  <2>1. f[1] <= f[1] /\ 1 \in 1 .. 1 /\ \A i \in 1 .. 1 : i = 1
    OBVIOUS
  <2>2. Top(1)
    BY <2>1
  <2> QED
    BY <1>2, <2>2
<1>4. k - 1 \in 1 .. n /\ ~(k <= k - 1)
  BY <1>2, <1>3
<1>5. Top(k - 1)
  BY <1>1, <1>4
<1>6. PICK m \in 1 .. k - 1 : \A i \in 1 .. k - 1 : f[i] <= f[m]
  BY <1>5
<1>7. f[m] \in Int /\ f[k] \in Int /\ m \in 1 .. k /\ k \in 1 .. k
  BY <1>2, <1>6
<1>8. \A i \in 1 .. k : i = k \/ i \in 1 .. k - 1
  BY <1>2
<1>9. CASE f[k] <= f[m]
  <2>1. \A i \in 1 .. k : f[i] <= f[m]
    BY <1>6, <1>8, <1>9
  <2> QED
    BY <1>2, <1>7, <2>1
<1>10. CASE ~(f[k] <= f[m])
  <2>1. \A i \in 1 .. k : f[i] \in Int
    BY <1>2
  <2>2. f[m] <= f[k] /\ f[k] <= f[k]
    BY <1>7, <1>10
  <2>3. ASSUME NEW i \in 1 .. k PROVE f[i] <= f[k]
    <3>1. CASE i = k
      BY <2>2, <3>1
    <3>2. CASE i \in 1 .. k - 1
      <4>1. f[i] <= f[m] /\ f[i] \in Int
        BY <1>6, <2>1, <3>2
      <4> QED
        BY <1>7, <2>2, <4>1
    <3> QED
      BY <1>8, <3>1, <3>2
  <2> QED
    BY <1>2, <1>7, <2>3
<1> QED
  BY <1>9, <1>10

(* The exit score.                                                         *)

SignalNames == {"macd_4h_downtrend", "kdj_1h_j_80_downtrend", "kdj_1d_over_bought", "kdj_4h_over_bought",
          "vol_1h_stagflation"}

Award(S, s) == IF s \in S THEN EX!Weights[s] ELSE 0

Added(S) == Award(S, "macd_4h_downtrend") + Award(S, "kdj_1h_j_80_downtrend") + Award(S, "kdj_1d_over_bought")
            + Award(S, "kdj_4h_over_bought") + Award(S, "vol_1h_stagflation")

LEMMA PartsAreNumbers == \A S : \A s \in SignalNames : Award(S, s) \in {0, EX!Weights[s]} /\ EX!Weights[s] \in {10, 15}
  BY DEF Award, EX!Weights, SignalNames

LEMMA AddedIsNumber == \A S : Added(S) \in Nat
<1> SUFFICES ASSUME NEW S PROVE Added(S) \in Nat
  OBVIOUS
<1>1. \A s \in SignalNames : Award(S, s) \in Nat
  BY PartsAreNumbers
<1> QED
  BY <1>1 DEF Added, SignalNames

(* One signal less is its weight less.                                     *)
LEMMA OneLess ==
  ASSUME NEW S, NEW x \in SignalNames, x \in S
  PROVE  Added(S) = EX!Weights[x] + Added(S \ {x})
<1> DEFINE R == S \ {x}
<1>1. \A s \in SignalNames : s # x => Award(R, s) = Award(S, s)
  BY DEF Award
<1>2. Award(S, x) = EX!Weights[x] /\ Award(R, x) = 0
  BY DEF Award
<1>3. \A s \in SignalNames : Award(S, s) \in Int /\ EX!Weights[s] \in Int /\ Award(R, s) \in Int
  BY PartsAreNumbers
<1> HIDE DEF R
<1>4. Added(S) = EX!Weights[x] + Added(R)
  <2>1. CASE x = "macd_4h_downtrend"
    BY <1>1, <1>2, <1>3, <2>1 DEF Added, SignalNames
  <2>2. CASE x = "kdj_1h_j_80_downtrend"
    BY <1>1, <1>2, <1>3, <2>2 DEF Added, SignalNames
  <2>3. CASE x = "kdj_1d_over_bought"
    BY <1>1, <1>2, <1>3, <2>3 DEF Added, SignalNames
  <2>4. CASE x = "kdj_4h_over_bought"
    BY <1>1, <1>2, <1>3, <2>4 DEF Added, SignalNames
  <2>5. CASE x = "vol_1h_stagflation"
    BY <1>1, <1>2, <1>3, <2>5 DEF Added, SignalNames
  <2> QED
    BY <2>1, <2>2, <2>3, <2>4, <2>5 DEF SignalNames
<1> QED
  BY <1>4 DEF R

LEMMA NamesAreFinite == EX!IsFiniteSet(SignalNames)
<1>1. EX!IsFiniteSet({}) /\ \A S, x : EX!IsFiniteSet(S) => EX!IsFiniteSet(S \cup {x})
  BY CountedEmpty, CountedMore
<1>2. SignalNames = ((((({} \cup {"macd_4h_downtrend"}) \cup {"kdj_1h_j_80_downtrend"}) \cup {"kdj_1d_over_bought"})
                \cup {"kdj_4h_over_bought"}) \cup {"vol_1h_stagflation"})
  BY DEF SignalNames
<1> QED
  BY <1>1, <1>2

Fold(iter, S) ==
  iter = [s \in SUBSET S |->
             IF s = {} THEN 0 ELSE LET x == CHOOSE x \in s : TRUE IN EX!Weights[x] + iter[s \ {x}]]

(* The sum of a set of signals is what its members add.                    *)
LEMMA SumIsAdded ==
  ASSUME NEW S, S \subseteq SignalNames
  PROVE  EX!MapThenSumSet(LAMBDA s : EX!Weights[s], S) = Added(S)
<1> DEFINE iter == CHOOSE i : Fold(i, S)
<1>1. EX!MapThenSumSet(LAMBDA s : EX!Weights[s], S) = iter[S]
  BY DEF EX!MapThenSumSet, EX!MapThenFoldSet, Fold
<1>2. Fold([s \in SUBSET S |-> Added(s)], S)
  <2> DEFINE g == [s \in SUBSET S |-> Added(s)]
  <2>1. ASSUME NEW s \in SUBSET S
        PROVE  Added(s) = IF s = {} THEN 0 ELSE LET x == CHOOSE x \in s : TRUE IN EX!Weights[x] + g[s \ {x}]
    <3>1. CASE s = {}
      BY <3>1 DEF Added, Award
    <3>2. CASE s # {}
      <4> DEFINE x == CHOOSE x \in s : TRUE
      <4>1. x \in s
        BY <3>2
      <4> HIDE DEF x
      <4>2. Added(s) = EX!Weights[x] + Added(s \ {x})
        BY <4>1, OneLess
      <4>3. g[s \ {x}] = Added(s \ {x})
        OBVIOUS
      <4>4. Added(s) = EX!Weights[x] + g[s \ {x}]
        BY <4>2, <4>3
      <4> HIDE DEF g
      <4> QED
        BY <3>2, <4>4 DEF x
    <3> QED
      BY <3>1, <3>2
  <2> QED
    BY <2>1 DEF Fold
<1>3. Fold(iter, S)
  BY <1>2
<1> HIDE DEF iter
<1>4. \A s \in SUBSET S : iter[s] = Added(s)
  <2> DEFINE Wrong == {s \in SUBSET S : iter[s] # Added(s)}
             Sizes == {EX!Cardinality(s) : s \in Wrong}
  <2>1. \A s \in SUBSET S : EX!IsFiniteSet(s)
    BY NamesAreFinite, CountedSubset
  <2> SUFFICES ASSUME Wrong # {} PROVE FALSE
    OBVIOUS
  <2>2. Sizes \subseteq Nat /\ Sizes # {}
    BY <2>1, CountedType
  <2>3. PICK n \in Sizes : \A m \in Sizes : n <= m
    BY <2>2, LeastNumber
  <2>4. PICK s \in Wrong : n = EX!Cardinality(s)
    BY <2>3
  <2>5. s \in SUBSET S /\ iter[s] # Added(s)
    BY <2>4
  <2>6. iter[s] = IF s = {} THEN 0 ELSE LET x == CHOOSE x \in s : TRUE IN EX!Weights[x] + iter[s \ {x}]
    BY <1>3, <2>5 DEF Fold
  <2>7. s # {}
    BY <2>5, <2>6 DEF Added, Award
  <2> DEFINE x == CHOOSE x \in s : TRUE
  <2>8. x \in s /\ iter[s] = EX!Weights[x] + iter[s \ {x}]
    BY <2>6, <2>7
  <2> HIDE DEF x
  <2>9. Added(s) = EX!Weights[x] + Added(s \ {x})
    BY <2>5, <2>8, OneLess
  <2>10. s \ {x} \in Wrong
    BY <2>5, <2>8, <2>9
  <2>11. EX!Cardinality(s \ {x}) \in Sizes
    BY <2>10
  <2>12. n \in Nat /\ EX!Cardinality(s \ {x}) = n - 1
    BY <2>1, <2>2, <2>3, <2>4, <2>5, <2>8, CountedLess
  <2> HIDE DEF Wrong, Sizes
  <2> QED
    BY <2>3, <2>11, <2>12
<1> QED
  BY <1>1, <1>4

(* Two signals are enough, and one is not.                                 *)
LEMMA TwoSignals ==
  ASSUME NEW S, S \subseteq SignalNames
  PROVE  EX!Cardinality(S) >= 2 <=> Added(S) >= 20
<1> DEFINE two == \E a, b \in S : a # b
<1>1. EX!IsFiniteSet(S)
  BY NamesAreFinite, CountedSubset
<1>2. EX!Cardinality(S) >= 2 <=> two
  <2>1. ASSUME two PROVE EX!Cardinality(S) >= 2
    <3>1. PICK a, b \in S : a # b
      BY <2>1
    <3>2. S \ {a} # {} /\ EX!IsFiniteSet(S \ {a}) /\ EX!Cardinality(S \ {a}) = EX!Cardinality(S) - 1
      BY <1>1, <3>1, CountedLess
    <3>3. EX!Cardinality(S \ {a}) # 0 /\ EX!Cardinality(S \ {a}) \in Nat /\ EX!Cardinality(S) \in Nat
      BY <1>1, <3>2, CountedEmpty, CountedType
    <3> QED
      BY <3>2, <3>3
  <2>2. ASSUME ~two PROVE ~(EX!Cardinality(S) >= 2)
    <3>1. CASE S = {}
      BY <3>1, CountedEmpty
    <3>2. CASE S # {}
      <4>1. PICK a : a \in S
        BY <3>2
      <4>2. S \ {a} = {}
        BY <2>2, <4>1
      <4>3. EX!Cardinality(S \ {a}) = EX!Cardinality(S) - 1 /\ EX!Cardinality(S) \in Nat
        BY <1>1, <4>1, CountedLess, CountedType
      <4>4. EX!Cardinality(S \ {a}) = 0
        BY <4>2, CountedEmpty
      <4> QED
        BY <4>3, <4>4
    <3> QED
      BY <3>1, <3>2
  <2> QED
    BY <2>1, <2>2
<1>3. two <=> Added(S) >= 20
  <2>1. ASSUME two PROVE Added(S) >= 20
    <3>1. PICK a, b \in S : a # b
      BY <2>1
    <3>2. Added(S) = EX!Weights[a] + Added(S \ {a}) /\ Added(S \ {a}) = EX!Weights[b] + Added((S \ {a}) \ {b})
      <4>1. b \in S \ {a}
        BY <3>1
      <4> QED
        BY <3>1, <4>1, OneLess
    <3>3. EX!Weights[a] \in {10, 15} /\ EX!Weights[b] \in {10, 15}
      BY <3>1, PartsAreNumbers
    <3>4. Added((S \ {a}) \ {b}) \in Nat
      BY AddedIsNumber
    <3> QED
      BY <3>2, <3>3, <3>4
  <2>2. ASSUME ~two PROVE ~(Added(S) >= 20)
    <3>1. Added({}) = 0
      BY DEF Added, Award
    <3>2. CASE S = {}
      BY <3>1, <3>2
    <3>3. CASE S # {}
      <4>1. PICK a : a \in S
        BY <3>3
      <4>2. S \ {a} = {}
        BY <2>2, <4>1
      <4>3. Added(S) = EX!Weights[a] + 0
        BY <3>1, <4>1, <4>2, OneLess
      <4>4. EX!Weights[a] \in {10, 15}
        BY <4>1, PartsAreNumbers
      <4> QED
        BY <4>3, <4>4
    <3> QED
      BY <3>2, <3>3
  <2> QED
    BY <2>1, <2>2
<1> QED
  BY <1>2, <1>3

LEMMA NeedsTwo == EX!ExitScoreNeedsTwo
<1> DEFINE two == EX!Cardinality(EX!score_info) >= 2
<1>1. EX!score_info \subseteq SignalNames
  BY DEF EX!score_info, EX!Weights, SignalNames
<1>2. EX!sum_score = Added(EX!score_info)
  BY <1>1, SumIsAdded DEF EX!sum_score
<1>3. two <=> EX!sum_score >= 20
  BY <1>1, <1>2, TwoSignals
<1>4. Added({}) = 0
  BY DEF Added, Award
<1>5. EX!MapThenSumSet(LAMBDA s : EX!Weights[s], {}) = 0
  <2>1. {} \subseteq SignalNames
    OBVIOUS
  <2> QED
    BY <1>4, <2>1, SumIsAdded
<1>6. CASE two
  <2>1. EX!_get_exit_score = EX!score_info
    BY <1>3, <1>6 DEF EX!_get_exit_score
  <2>2. EX!score_info # {}
    <3>1. EX!Cardinality({}) = 0
      BY CountedEmpty
    <3> QED
      BY <1>6, <3>1
  <2>3. EX!_calculate_exit_score = EX!sum_score
    BY <2>1 DEF EX!_calculate_exit_score, EX!sum_score
  <2>4. EX!get_sell_direction # "hold"
    BY <2>1, <2>2 DEF EX!get_sell_direction
  <2>5. EX!sum_score >= 20
    BY <1>3, <1>6
  <2> HIDE DEF two
  <2>6. two <=> EX!_get_exit_score # {}
    BY <1>6, <2>1, <2>2
  <2>7. two <=> EX!_calculate_exit_score >= 20
    BY <1>6, <2>3, <2>5
  <2> QED
    BY <2>4, <2>6, <2>7 DEF EX!ExitScoreNeedsTwo, two
<1>7. CASE ~two
  <2>1. EX!_get_exit_score = {}
    BY <1>3, <1>7 DEF EX!_get_exit_score
  <2>2. EX!_calculate_exit_score = 0
    BY <1>5, <2>1 DEF EX!_calculate_exit_score
  <2>3. ~(EX!_calculate_exit_score >= 20)
    BY <2>2
  <2> HIDE DEF two
  <2>4. two <=> EX!_get_exit_score # {}
    BY <1>7, <2>1
  <2>5. two <=> EX!_calculate_exit_score >= 20
    BY <1>7, <2>3
  <2> QED
    BY <1>7, <2>4, <2>5 DEF EX!ExitScoreNeedsTwo, two
<1> QED
  BY <1>6, <1>7

(* Prices.                                                                 *)

ExitTyped == exitHistory \in Seq(ExitCandles) /\ Len(exitHistory) <= ExitDepth /\ facts \subseteq EX!Facts

LEMMA Highs ==
  ASSUME EX!ExitAssumption, ExitTyped, EX!Full, NEW i \in 0 .. ExitDepth - 1
  PROVE  EX!At(i).high \in Int
<1>1. Len(exitHistory) = ExitDepth /\ ExitDepth \in Nat
  BY DEF EX!Full, EX!ExitAssumption
<1>2. i + 1 \in 1 .. Len(exitHistory)
  BY <1>1
<1>3. EX!At(i) \in ExitCandles
  BY <1>2 DEF ExitTyped, EX!At
<1> QED
  BY <1>3 DEF EX!ExitAssumption

LEMMA AtNewHigh == ASSUME EX!ExitAssumption, ExitTyped PROVE EX!ShrinksOnlyAtNewHigh
<1> SUFFICES ASSUME EX!Full, EX!_get_sell_direction_active_taking_profit = "shrinks"
             PROVE  \A i \in 1 .. ExitDepth - 1 : EX!At(i).high <= EX!At(0).high /\ EX!At(i).high <= EX!At(1).high
  BY DEF EX!ShrinksOnlyAtNewHigh
<1>1. EX!ShrinksAtUpper
  BY DEF EX!_get_sell_direction_active_taking_profit
<1>2. ~(EX!At(0).high < EX!max_price(0, 25)) /\ ~(EX!At(1).high < EX!max_price(0, 25))
  BY <1>1 DEF EX!ShrinksAtUpper, EX!UnderChannel
<1>3. ExitDepth \in 3 .. 26 /\ Len(exitHistory) = ExitDepth
  BY DEF EX!Full, EX!ExitAssumption
<1> DEFINE n == ExitDepth - 1
<1>4. n \in Nat /\ n >= 1 /\ n <= 25
  BY <1>3
<1>5. EX!Behind(0, 25) = 1 .. n
  <2>1. EX!Min({25, n}) = n
    BY <1>4 DEF EX!Min
  <2>2. EX!Behind(0, 25) = 0 + 1 .. EX!Min({0 + 25, Len(exitHistory) - 1})
    BY DEF EX!Behind
  <2> QED
    BY <1>3, <2>1, <2>2
<1> DEFINE f == [i \in 1 .. n |-> EX!At(i).high]
<1>6. \A i \in 1 .. n : f[i] \in Int
  BY Highs, <1>3
<1>7. PICK m \in 1 .. n : \A i \in 1 .. n : f[i] <= f[m]
  BY <1>4, <1>6, GreatestNumber
<1> DEFINE S == {EX!At(i).high : i \in EX!Behind(0, 25)}
<1>8. S = {f[i] : i \in 1 .. n}
  BY <1>5
<1>9. EX!max_price(0, 25) = EX!Max(S)
  BY DEF EX!max_price
<1>10. \A i \in 1 .. n : EX!At(i).high = f[i]
  OBVIOUS
<1>11. EX!At(0).high \in Int /\ EX!At(1).high \in Int
  BY <1>3, Highs
<1> HIDE DEF f, S, n
<1>12. EX!Max(S) \in S /\ \A y \in S : EX!Max(S) >= y
  <2>1. f[m] \in S /\ \A y \in S : f[m] >= y
    BY <1>6, <1>7, <1>8
  <2> QED
    BY <2>1 DEF EX!Max
<1>13. \A i \in 1 .. n : EX!Max(S) \in Int /\ f[i] <= EX!Max(S)
  BY <1>6, <1>8, <1>12
<1>14. \A i \in 1 .. n : EX!At(i).high <= EX!At(0).high /\ EX!At(i).high <= EX!At(1).high
  BY <1>2, <1>6, <1>9, <1>10, <1>11, <1>13
<1> QED
  BY <1>14 DEF n

LEMMA NoDoubleTop == ASSUME EX!ExitAssumption, ExitTyped PROVE EX!DoubleTopNeverReported
<1> SUFFICES ASSUME EX!Full PROVE ~EX!has_double_top(Tops)
  BY DEF EX!DoubleTopNeverReported
<1> DEFINE newest == IF EX!Peaks(Tops) = {} THEN 0 ELSE EX!At(EX!Min(EX!Peaks(Tops))).high
<1>1. ExitDepth \in Nat /\ Tops \in Nat /\ Tops <= ExitDepth
  BY DEF EX!ExitAssumption
<1>2. newest \in Int
  <2>1. CASE EX!Peaks(Tops) = {}
    BY <2>1
  <2>2. CASE EX!Peaks(Tops) # {}
    <3>1. EX!Peaks(Tops) \subseteq 1 .. Tops - 2
      BY DEF EX!Peaks
    <3>2. EX!Peaks(Tops) \subseteq Nat
      BY <1>1, <3>1
    <3>3. \E n \in EX!Peaks(Tops) : \A m \in EX!Peaks(Tops) : n <= m
      BY <2>2, <3>2, LeastNumber
    <3>4. EX!Min(EX!Peaks(Tops)) \in EX!Peaks(Tops)
      BY <3>3 DEF EX!Min
    <3>5. \A i \in 1 .. Tops - 2 : i \in 0 .. ExitDepth - 1
      BY <1>1
    <3>6. EX!Min(EX!Peaks(Tops)) \in 0 .. ExitDepth - 1
      BY <3>1, <3>4, <3>5, Zenon
    <3>7. EX!At(EX!Min(EX!Peaks(Tops))).high \in Int
      BY <3>6, Highs
    <3> QED
      BY <2>2, <3>7
  <2> QED
    BY <2>1, <2>2
<1>3. EX!has_double_top(Tops) => newest < newest
  BY DEF EX!has_double_top
<1> HIDE DEF newest
<1> QED
  BY <1>2, <1>3

LEMMA ExitStep == ASSUME EX!ExitAssumption, ExitTyped, [EX!Next]_EX!exitVars PROVE ExitTyped'
<1>1. CASE UNCHANGED EX!exitVars
  BY <1>1 DEF EX!exitVars, ExitTyped
<1>2. ASSUME NEW c \in ExitCandles, EX!Close(c) PROVE ExitTyped'
  <2>1. ExitDepth \in Nat /\ ExitDepth >= 1 /\ exitHistory \in Seq(ExitCandles) /\ Len(exitHistory) <= ExitDepth
    BY DEF EX!ExitAssumption, ExitTyped
  <2>2. exitHistory' = IF Len(exitHistory) = ExitDepth THEN <<c>> \o SubSeq(exitHistory, 1, ExitDepth - 1) ELSE <<c>> \o exitHistory
    BY <1>2 DEF EX!Close, EX!Full
  <2>3. facts' \subseteq EX!Facts
    BY <1>2 DEF EX!Close, ExitTyped
  <2>4. exitHistory' \in Seq(ExitCandles) /\ Len(exitHistory') <= ExitDepth
    <3>1. CASE Len(exitHistory) # ExitDepth
      BY <2>1, <2>2, <3>1
    <3>2. CASE Len(exitHistory) = ExitDepth
      <4> DEFINE rest == SubSeq(exitHistory, 1, ExitDepth - 1)
      <4>1. rest \in Seq(ExitCandles) /\ Len(rest) = ExitDepth - 1
        BY <2>1, <3>2
      <4>2. exitHistory' = <<c>> \o rest
        BY <2>2, <3>2
      <4> HIDE DEF rest
      <4> QED
        BY <2>1, <4>1, <4>2
    <3> QED
      BY <3>1, <3>2
  <2> QED
    BY <2>3, <2>4 DEF ExitTyped
<1> QED
  BY <1>1, <1>2 DEF EX!Next

(* The exit score needs two signals, profit on a shrinking MACD is taken at *)
(* a new high alone, and no double top is reported, for candles of any     *)
(* prices (strategy.py, factor.py).                                        *)
THEOREM ExitSignalsHold == ASSUME EX!ExitAssumption PROVE EX!Spec => [](EX!ExitSignalsSound /\ EX!TypeOK)
<1>1. EX!Init => ExitTyped
  BY DEF EX!Init, ExitTyped, EX!ExitAssumption
<1>2. ExitTyped /\ [EX!Next]_EX!exitVars => ExitTyped'
  BY ExitStep
<1>3. ExitTyped => EX!ExitSignalsSound /\ EX!TypeOK
  BY NeedsTwo, AtNewHigh, NoDoubleTop DEF EX!ExitSignalsSound, ExitTyped, EX!TypeOK
<1> QED
  BY <1>1, <1>2, <1>3, PTL DEF EX!Spec

-----------------------------------------------------------------------------
(***************************************************************************)
(* The records of signals (TradeRecords).                                  *)
(***************************************************************************)

Ticket == [symbol : Symbols, status : 0 .. 5]

(* Types, and the bounds of rows and pages: no page is asked beyond the    *)
(* last that the rows counted can fill.                                    *)
RecordTypes ==
    /\ records \in Seq(Ticket) /\ Len(records) \in 1 .. MaxRecords
    /\ sweep = [w \in Sweepers |-> sweep[w]]
    /\ \A w \in Sweepers : DOMAIN sweep[w] \subseteq TR!Ids /\ \A i \in DOMAIN sweep[w] : sweep[w][i] \in TR!Pending
    /\ tradeWatched \subseteq Symbols
    /\ pages \in TR!Uncounted .. MaxRecords /\ (pages - 1) * PageSize < MaxRecords
    /\ page \in Nat /\ (page > 0 => (page - 1) * PageSize < MaxRecords)
    /\ asked.ids \cup seen \subseteq TR!Ids
    /\ overlapped \in BOOLEAN /\ shifted \in BOOLEAN

(* While sweeps do not overlap one at most is in progress, and what it has *)
(* read is still so: only a sweep writes a pending row.                    *)
SweepInv ==
    ~overlapped =>
        /\ \A v, w \in Sweepers : sweep[v] # TR!NotSweeping /\ sweep[w] # TR!NotSweeping => v = w
        /\ \A w \in Sweepers : \A i \in DOMAIN sweep[w] : records[i].status = sweep[w][i]

(* While no row was shifted, what the client asked for and has not seen is *)
(* behind the pages it has read, and the pages are counted right.          *)
PageInv ==
    /\ missed = {}
    /\ page = 0 => pages = TR!Uncounted
    /\ page > 0 /\ ~shifted =>
          /\ asked.ids \subseteq TR!Selected
          /\ \A i \in asked.ids \ seen : TR!Cardinality(TR!Newer(i)) >= (page - 1) * PageSize
    /\ pages # TR!Uncounted /\ ~shifted => pages = TR!total_pages

RecordInv == RecordTypes /\ SweepInv /\ PageInv

(* Arithmetic of the pages.                                                *)
LEMMA PagesFill ==
  ASSUME NEW n \in Nat, NEW size \in Nat \ {0}
  PROVE  LET p == (n + size - 1) \div size
         IN p \in Nat /\ p <= n /\ n <= p * size /\ (p - 1) * size < n
<1> DEFINE p == (n + size - 1) \div size
<1>1. p \in Int /\ p * size <= n + size - 1 /\ n + size - 1 < (p + 1) * size
  OBVIOUS
<1>2. p >= 0
  <2> SUFFICES ASSUME p < 0 PROVE FALSE
    BY <1>1
  <2>1. (p + 1) * size <= 0
    BY <1>1
  <2> QED
    BY <1>1, <2>1
<1>3. p <= n
  <2> SUFFICES ASSUME p >= n + 1 PROVE FALSE
    BY <1>1
  <2>1. p * size >= (n + 1) * size
    BY <1>1
  <2>2. (n + 1) * size = n * size + size
    OBVIOUS
  <2>3. n * size >= n
    OBVIOUS
  <2> QED
    BY <1>1, <2>1, <2>2, <2>3
<1>4. (p + 1) * size = p * size + size /\ (p - 1) * size = p * size - size
  BY <1>1
<1>5. p * size \in Int
  BY <1>1
<1> QED
  BY <1>1, <1>2, <1>3, <1>4, <1>5

LEMMA PageOrder ==
  ASSUME NEW p \in Int, NEW q \in Int, p <= q, NEW size \in Nat
  PROVE  p * size <= q * size /\ p * size \in Int /\ q * size \in Int
  OBVIOUS

LEMMA NextPage ==
  ASSUME NEW p \in Int, NEW size \in Nat
  PROVE  p * size \in Int /\ (p - 1) * size \in Int /\ p * size = (p - 1) * size + size
  OBVIOUS

(* Rows that a query selects, and the place of each of them.               *)
LEMMA PlacesCounted ==
  ASSUME NEW n \in Nat, NEW T \in SUBSET (1 .. n)
  PROVE  /\ TR!IsFiniteSet(T) /\ TR!Cardinality(T) \in 0 .. n
         /\ \A i \in Int : TR!IsFiniteSet({j \in T : j > i}) /\ TR!Cardinality({j \in T : j > i}) \in Nat
         /\ \A i \in T : TR!Cardinality({j \in T : j > i}) < TR!Cardinality(T)
<1>1. TR!IsFiniteSet(1 .. n) /\ TR!Cardinality(1 .. n) = n
  BY CountedInterval
<1>2. TR!IsFiniteSet(T) /\ TR!Cardinality(T) <= n
  <2>1. T \subseteq 1 .. n
    OBVIOUS
  <2>2. TR!IsFiniteSet(T) /\ TR!Cardinality(T) <= TR!Cardinality(1 .. n)
    BY <1>1, <2>1, CountedSubset, Zenon
  <2> QED
    BY <1>1, <2>2
<1>3. TR!Cardinality(T) \in Nat
  BY <1>2, CountedType
<1>4. ASSUME NEW i \in Int
      PROVE  TR!IsFiniteSet({j \in T : j > i}) /\ TR!Cardinality({j \in T : j > i}) \in Nat
  <2>1. {j \in T : j > i} \subseteq T
    OBVIOUS
  <2> QED
    BY <1>2, <2>1, CountedSubset, CountedType
<1>5. ASSUME NEW i \in T
      PROVE  TR!Cardinality({j \in T : j > i}) < TR!Cardinality(T)
  <2> DEFINE U == {j \in T : j > i}
  <2>1. i \in Int
    OBVIOUS
  <2>2. U \subseteq T /\ i \notin U
    BY <2>1
  <2>3. TR!Cardinality(U) \in Nat
    BY <1>4, <2>1
  <2> HIDE DEF U
  <2>4. TR!Cardinality(U) <= TR!Cardinality(T) /\ (TR!Cardinality(U) = TR!Cardinality(T) => U = T)
    BY <1>2, <2>2, CountedSubset
  <2>5. TR!Cardinality(U) < TR!Cardinality(T)
    BY <1>3, <2>2, <2>3, <2>4
  <2> QED
    BY <2>5 DEF U
<1> QED
  BY <1>2, <1>3, <1>4, <1>5

LEMMA SelectedCounted ==
  ASSUME RecordTypes
  PROVE  /\ TR!IsFiniteSet(TR!Selected) /\ TR!Cardinality(TR!Selected) \in 0 .. Len(records)
         /\ TR!Selected \subseteq TR!Ids /\ TR!Ids = 1 .. Len(records) /\ Len(records) \in Nat
         /\ \A i \in Int : TR!IsFiniteSet(TR!Newer(i)) /\ TR!Cardinality(TR!Newer(i)) \in Nat
         /\ \A i \in TR!Selected : TR!Cardinality(TR!Newer(i)) < TR!Cardinality(TR!Selected)
<1>1. TR!Ids = 1 .. Len(records) /\ Len(records) \in Nat
  BY DEF RecordTypes, TR!Ids
<1>2. TR!Selected \subseteq TR!Ids
  BY DEF TR!Selected, TR!Matching, TR!Ids
<1>3. TR!Selected \in SUBSET (1 .. Len(records))
  BY <1>1, <1>2
<1> QED
  BY <1>1, <1>2, <1>3, PlacesCounted DEF TR!Newer

LEMMA SelectedCountedNext ==
  ASSUME RecordTypes'
  PROVE  /\ TR!IsFiniteSet(TR!Selected') /\ TR!Cardinality(TR!Selected') \in 0 .. Len(records')
         /\ TR!Selected' \subseteq 1 .. Len(records') /\ Len(records') \in Nat
         /\ \A i \in Int : TR!IsFiniteSet(TR!Newer(i)') /\ TR!Cardinality(TR!Newer(i)') \in Nat
<1>1. DOMAIN records' = 1 .. Len(records') /\ Len(records') \in Nat
  BY DEF RecordTypes
<1>2. TR!Selected' \subseteq DOMAIN records'
  BY DEF TR!Selected, TR!Matching
<1>3. TR!Selected' \in SUBSET (1 .. Len(records'))
  BY <1>1, <1>2
<1> QED
  BY <1>1, <1>3, PlacesCounted DEF TR!Newer

(* Rows that are written, and monitors that change, leave the reader where *)
(* he is, or count as a shift.                                             *)
LEMMA ReaderKept ==
  ASSUME TR!TradeAssumption, RecordTypes, RecordTypes', PageInv,
         shifted' = (\/ shifted
                     \/ page > 0 /\ ~(TR!Selected \subseteq TR!Selected')
                     \/ pages # TR!Uncounted /\ ~(TR!Selected' \subseteq TR!Selected)),
         UNCHANGED <<page, pages, asked, seen, missed>>
  PROVE  PageInv'
<1>1. missed' = {} /\ (page' = 0 => pages' = TR!Uncounted)
  BY DEF PageInv
<1>2. ASSUME page' > 0, ~shifted'
      PROVE  asked'.ids \subseteq TR!Selected'
             /\ \A i \in asked'.ids \ seen' : TR!Cardinality(TR!Newer(i)') >= (page' - 1) * PageSize
  <2>1. page > 0 /\ ~shifted /\ TR!Selected \subseteq TR!Selected'
    BY <1>2
  <2>2. asked.ids \subseteq TR!Selected /\ \A i \in asked.ids \ seen : TR!Cardinality(TR!Newer(i)) >= (page - 1) * PageSize
    BY <2>1 DEF PageInv
  <2>3. ASSUME NEW i \in asked.ids \ seen
        PROVE  TR!Cardinality(TR!Newer(i)') >= (page - 1) * PageSize
    <3>1. TR!Newer(i) \subseteq TR!Newer(i)'
      BY <2>1 DEF TR!Newer
    <3>2. i \in Int
      BY <2>2, SelectedCounted
    <3>3. TR!IsFiniteSet(TR!Newer(i)') /\ TR!Cardinality(TR!Newer(i)') \in Nat
      BY <3>2, SelectedCountedNext
    <3>4. TR!IsFiniteSet(TR!Newer(i)) /\ TR!Cardinality(TR!Newer(i)) \in Nat
      BY <3>2, SelectedCounted
    <3>5. TR!Cardinality(TR!Newer(i)) <= TR!Cardinality(TR!Newer(i)')
      BY <3>1, <3>3, CountedSubset
    <3>6. (page - 1) * PageSize \in Int
      BY DEF RecordTypes, TR!TradeAssumption
    <3> QED
      BY <2>2, <3>3, <3>4, <3>5, <3>6
  <2> QED
    BY <2>1, <2>2, <2>3
<1>3. ASSUME pages' # TR!Uncounted, ~shifted'
      PROVE  pages' = TR!total_pages'
  <2>1. pages # TR!Uncounted /\ ~shifted /\ page > 0
    BY <1>3 DEF PageInv, RecordTypes
  <2>2. TR!Selected' = TR!Selected
    BY <1>3, <2>1
  <2> QED
    BY <2>1, <2>2 DEF PageInv, TR!total_pages
<1> QED
  BY <1>1, <1>2, <1>3 DEF PageInv

(* Rows that a sweep writes.                                               *)
Swept(w, outcome) == [i \in TR!Ids |-> IF i \in DOMAIN outcome /\ outcome[i] # sweep[w][i]
                                    THEN [records[i] EXCEPT !.status = outcome[i]] ELSE records[i]]

LEMMA SweptRows ==
  ASSUME RecordTypes, NEW w \in Sweepers, NEW outcome \in [DOMAIN sweep[w] -> 0 .. 5]
  PROVE  /\ Swept(w, outcome) \in Seq(Ticket) /\ Len(Swept(w, outcome)) = Len(records)
         /\ \A i \in TR!Ids : /\ Swept(w, outcome)[i].symbol = records[i].symbol
                              /\ i \notin DOMAIN sweep[w] => Swept(w, outcome)[i] = records[i]
<1>1. TR!Ids = 1 .. Len(records) /\ Len(records) \in Nat /\ \A i \in TR!Ids : records[i] \in Ticket
  BY DEF RecordTypes, TR!Ids
<1>2. DOMAIN outcome = DOMAIN sweep[w] /\ \A i \in DOMAIN outcome : outcome[i] \in 0 .. 5
  OBVIOUS
<1>3. ASSUME NEW i \in TR!Ids
      PROVE  Swept(w, outcome)[i] \in Ticket /\ Swept(w, outcome)[i].symbol = records[i].symbol
             /\ (i \notin DOMAIN sweep[w] => Swept(w, outcome)[i] = records[i])
  <2>1. Swept(w, outcome)[i] = IF i \in DOMAIN outcome /\ outcome[i] # sweep[w][i]
                               THEN [records[i] EXCEPT !.status = outcome[i]] ELSE records[i]
    BY DEF Swept
  <2>2. records[i] \in Ticket
    BY <1>1
  <2> QED
    BY <1>2, <2>1, <2>2 DEF Ticket
<1>4. Swept(w, outcome) \in [1 .. Len(records) -> Ticket]
  BY <1>1, <1>3 DEF Swept
<1>5. Swept(w, outcome) \in Seq(Ticket) /\ Len(Swept(w, outcome)) = Len(records)
  BY <1>1, <1>4
<1> QED
  BY <1>3, <1>5

(* What a writer does to the rows: none is lost, none changes its symbol.  *)
Rewritten ==
    /\ records' \in Seq(Ticket) /\ Len(records') \in Len(records) .. MaxRecords
    /\ \A i \in TR!Ids : records'[i].symbol = records[i].symbol

(* A record that is written is pending and in a sweep, or open and the     *)
(* last of its symbol.                                                     *)
Ending ==
    \A i \in TR!Ids : records'[i] # records[i] =>
        \/ records[i].status = TR!Open /\ i \in TR!Latest(records[i].symbol)
        \/ \E w \in Sweepers : /\ i \in DOMAIN sweep[w] /\ sweep' = [sweep EXCEPT ![w] = TR!NotSweeping]
                               /\ overlapped' = overlapped /\ sweep[w] # TR!NotSweeping

(* The writers.                                                            *)
RecordWrites ==
    \/ \E s \in Symbols : TR!AddBidTicket(s) \/ \E end \in {4, 5} : TR!UpdateAskTicket(s, end)
    \/ \E w \in Sweepers : \E outcome \in [DOMAIN sweep[w] -> 0 .. 5] : TR!SweepWrites(w, outcome)

LEMMA WritersRewrite ==
  ASSUME TR!TradeAssumption, RecordTypes, RecordWrites
  PROVE  /\ Rewritten /\ Ending
         /\ TR!Shift(records', tradeWatched) /\ UNCHANGED <<tradeWatched, page, pages, asked, seen, missed>>
         /\ UNCHANGED <<sweep, overlapped>>
            \/ \E w \in Sweepers : sweep' = [sweep EXCEPT ![w] = TR!NotSweeping] /\ UNCHANGED overlapped
<1>1. records \in Seq(Ticket) /\ Len(records) \in 1 .. MaxRecords /\ TR!Ids = 1 .. Len(records)
  BY DEF RecordTypes, TR!Ids
<1>2. MaxRecords \in Nat
  BY DEF TR!TradeAssumption
<1>3. ASSUME NEW s \in Symbols, TR!AddBidTicket(s)
      PROVE  Rewritten /\ Ending /\ TR!Shift(records', tradeWatched)
             /\ UNCHANGED <<tradeWatched, page, pages, asked, seen, missed>> /\ UNCHANGED <<sweep, overlapped>>
  <2>1. records' = Append(records, [symbol |-> s, status |-> TR!Open]) /\ Len(records) < MaxRecords
    BY <1>3 DEF TR!AddBidTicket, TR!Writes
  <2>2. [symbol |-> s, status |-> TR!Open] \in Ticket
    BY DEF Ticket, TR!Open
  <2>3. records' \in Seq(Ticket) /\ Len(records') = Len(records) + 1 /\ \A i \in TR!Ids : records'[i] = records[i]
    BY <1>1, <2>1, <2>2
  <2>4. Rewritten
    BY <1>1, <1>2, <2>1, <2>3 DEF Rewritten
  <2>5. Ending
    BY <2>3 DEF Ending
  <2> QED
    BY <1>3, <2>1, <2>4, <2>5 DEF TR!AddBidTicket, TR!Writes
<1>4. ASSUME NEW s \in Symbols, NEW end \in {4, 5}, TR!UpdateAskTicket(s, end)
      PROVE  Rewritten /\ Ending /\ TR!Shift(records', tradeWatched)
             /\ UNCHANGED <<tradeWatched, page, pages, asked, seen, missed>> /\ UNCHANGED <<sweep, overlapped>>
  <2>1. PICK k \in TR!Latest(s) : records[k].status = TR!Open /\ TR!Writes([records EXCEPT ![k].status = end])
    BY <1>4 DEF TR!UpdateAskTicket
  <2>2. k \in TR!Ids /\ records[k].symbol = s
    BY <2>1 DEF TR!Latest
  <2>3. records' = [records EXCEPT ![k].status = end]
    BY <2>1 DEF TR!Writes
  <2>4. \A i \in TR!Ids : i # k => records'[i] = records[i]
    BY <2>3 DEF TR!Ids
  <2>5. records[k] \in Ticket /\ records'[k] = [records[k] EXCEPT !.status = end]
    BY <1>1, <2>2, <2>3
  <2>6. records'[k] \in Ticket /\ records'[k].symbol = records[k].symbol
    BY <2>5 DEF Ticket
  <2>7. DOMAIN records' = 1 .. Len(records) /\ \A i \in 1 .. Len(records) : records'[i] \in Ticket
    BY <1>1, <2>3, <2>4, <2>6
  <2>8. records = [i \in 1 .. Len(records) |-> records[i]]
    BY <1>1
  <2>12. records' = [i \in 1 .. Len(records) |-> records'[i]]
    BY <2>3, <2>8
  <2>9. records' \in Seq(Ticket) /\ Len(records') = Len(records)
    BY <1>1, <2>7, <2>12
  <2>10. Rewritten
    BY <1>1, <1>2, <2>4, <2>6, <2>9 DEF Rewritten
  <2>11. Ending
    BY <2>1, <2>2, <2>4 DEF Ending
  <2> QED
    BY <1>4, <2>1, <2>3, <2>10, <2>11 DEF TR!UpdateAskTicket, TR!Writes
<1>5. ASSUME NEW w \in Sweepers, NEW outcome \in [DOMAIN sweep[w] -> 0 .. 5], TR!SweepWrites(w, outcome)
      PROVE  Rewritten /\ Ending /\ TR!Shift(records', tradeWatched)
             /\ UNCHANGED <<tradeWatched, page, pages, asked, seen, missed>>
             /\ sweep' = [sweep EXCEPT ![w] = TR!NotSweeping] /\ UNCHANGED overlapped
  <2>1. records' = Swept(w, outcome) /\ sweep' = [sweep EXCEPT ![w] = TR!NotSweeping] /\ UNCHANGED overlapped
           /\ sweep[w] # TR!NotSweeping
    BY <1>5 DEF TR!SweepWrites, TR!Writes, Swept
  <2>5. /\ Swept(w, outcome) \in Seq(Ticket) /\ Len(Swept(w, outcome)) = Len(records)
        /\ \A i \in TR!Ids : /\ Swept(w, outcome)[i].symbol = records[i].symbol
                             /\ i \notin DOMAIN sweep[w] => Swept(w, outcome)[i] = records[i]
    BY SweptRows
  <2>6. /\ records' \in Seq(Ticket) /\ Len(records') = Len(records)
        /\ \A i \in TR!Ids : /\ records'[i].symbol = records[i].symbol
                             /\ i \notin DOMAIN sweep[w] => records'[i] = records[i]
    BY <2>1, <2>5
  <2>2. Rewritten
    BY <1>1, <1>2, <2>6 DEF Rewritten
  <2>3. \A i \in TR!Ids : i \notin DOMAIN sweep[w] => records'[i] = records[i]
    BY <2>6
  <2>4. Ending
    BY <2>1, <2>3 DEF Ending
  <2> QED
    BY <1>5, <2>1, <2>2, <2>4 DEF TR!SweepWrites, TR!Writes
<1> QED
  BY <1>3, <1>4, <1>5 DEF RecordWrites

LEMMA RecordSteps ==
  ASSUME TR!Next
  PROVE  \/ RecordWrites
         \/ \E w \in Sweepers : TR!SweepReads(w)
         \/ \E status \in Filters : TR!StartReading(status)
         \/ TR!CountPages \/ TR!ReadPage
         \/ \E symbols \in SUBSET Symbols : TR!ChangeMonitors(symbols)
  BY DEF TR!Next, RecordWrites

(* The writers keep the types.                                             *)
LEMMA WritersTyped ==
  ASSUME TR!TradeAssumption, RecordTypes, RecordWrites
  PROVE  RecordTypes'
<1>1. /\ Rewritten /\ TR!Shift(records', tradeWatched) /\ UNCHANGED <<tradeWatched, page, pages, asked, seen, missed>>
      /\ UNCHANGED <<sweep, overlapped>>
         \/ \E w \in Sweepers : sweep' = [sweep EXCEPT ![w] = TR!NotSweeping] /\ UNCHANGED overlapped
  BY WritersRewrite
<1>2. TR!Ids = 1 .. Len(records) /\ Len(records) \in 1 .. MaxRecords /\ MaxRecords \in Nat
  BY DEF RecordTypes, TR!Ids, TR!TradeAssumption
<1>3. records' \in Seq(Ticket) /\ Len(records') \in 1 .. MaxRecords
  BY <1>1, <1>2 DEF Rewritten
<1>4. TR!Ids \subseteq TR!Ids'
  <2>1. DOMAIN records' = 1 .. Len(records')
    BY <1>3
  <2>2. Len(records') \in Len(records) .. MaxRecords
    BY <1>1 DEF Rewritten
  <2>3. 1 .. Len(records) \subseteq 1 .. Len(records')
    BY <1>2, <2>2
  <2> QED
    BY <1>2, <2>1, <2>3 DEF TR!Ids
<1>5. overlapped' \in BOOLEAN /\ shifted' \in BOOLEAN
  BY <1>1 DEF RecordTypes, TR!Shift
<1>6. /\ sweep' = [v \in Sweepers |-> sweep'[v]]
      /\ \A v \in Sweepers : DOMAIN sweep'[v] \subseteq TR!Ids /\ \A i \in DOMAIN sweep'[v] : sweep'[v][i] \in TR!Pending
  <2>1. CASE UNCHANGED sweep
    BY <2>1 DEF RecordTypes
  <2>2. ASSUME NEW w \in Sweepers, sweep' = [sweep EXCEPT ![w] = TR!NotSweeping]
        PROVE  <1>6!1 /\ <1>6!2
    <3>1. DOMAIN TR!NotSweeping = {}
      BY DEF TR!NotSweeping
    <3>2. sweep = [v \in Sweepers |-> sweep[v]]
      BY DEF RecordTypes
    <3>3. sweep' = [v \in Sweepers |-> IF v = w THEN TR!NotSweeping ELSE sweep[v]]
      BY <2>2, <3>2
    <3>4. \A v \in Sweepers : sweep'[v] = TR!NotSweeping \/ sweep'[v] = sweep[v]
      BY <3>3
    <3> QED
      BY <3>1, <3>3, <3>4 DEF RecordTypes
  <2> QED
    BY <1>1, <2>1, <2>2
<1>7. \A v \in Sweepers : DOMAIN sweep'[v] \subseteq TR!Ids' /\ \A i \in DOMAIN sweep'[v] : sweep'[v][i] \in TR!Pending
  BY <1>4, <1>6
<1>8. asked'.ids \cup seen' \subseteq TR!Ids'
  BY <1>1, <1>4 DEF RecordTypes
<1>9. /\ tradeWatched' \subseteq Symbols
      /\ pages' \in TR!Uncounted .. MaxRecords /\ (pages' - 1) * PageSize < MaxRecords
      /\ page' \in Nat /\ (page' > 0 => (page' - 1) * PageSize < MaxRecords)
  <2>1. tradeWatched' = tradeWatched /\ pages' = pages /\ page' = page
    BY <1>1
  <2> QED
    BY <2>1 DEF RecordTypes
<1> QED
  BY <1>3, <1>5, <1>6, <1>7, <1>8, <1>9 DEF RecordTypes

(* A sweep that reads.                                                     *)
LEMMA ReadsTyped ==
  ASSUME RecordTypes, NEW w \in Sweepers, TR!SweepReads(w)
  PROVE  /\ RecordTypes'
         /\ sweep' = [v \in Sweepers |-> IF v = w THEN TR!ReadOf(TR!Pending) ELSE sweep[v]]
<1>1. /\ sweep' = [sweep EXCEPT ![w] = TR!ReadOf(TR!Pending)]
      /\ overlapped' = (overlapped \/ \E v \in Sweepers \ {w} : sweep[v] # TR!NotSweeping)
      /\ UNCHANGED <<records, tradeWatched, page, pages, asked, seen, shifted, missed>>
  BY DEF TR!SweepReads
<1>2. sweep' = [v \in Sweepers |-> IF v = w THEN TR!ReadOf(TR!Pending) ELSE sweep[v]]
  <2>1. sweep = [v \in Sweepers |-> sweep[v]]
    BY DEF RecordTypes
  <2> QED
    BY <1>1, <2>1
<1>3. DOMAIN TR!ReadOf(TR!Pending) \subseteq TR!Ids /\ \A i \in DOMAIN TR!ReadOf(TR!Pending) : TR!ReadOf(TR!Pending)[i] \in TR!Pending
  BY DEF TR!ReadOf
<1>4. sweep' = [v \in Sweepers |-> sweep'[v]]
  BY <1>2
<1>5. \A v \in Sweepers : sweep'[v] = TR!ReadOf(TR!Pending) \/ sweep'[v] = sweep[v]
  BY <1>2
<1>6. \A v \in Sweepers : DOMAIN sweep'[v] \subseteq TR!Ids' /\ \A i \in DOMAIN sweep'[v] : sweep'[v][i] \in TR!Pending
  <2>1. TR!Ids' = TR!Ids
    BY <1>1 DEF TR!Ids
  <2> QED
    BY <1>3, <1>5, <2>1 DEF RecordTypes
<1>7. overlapped' \in BOOLEAN
  BY <1>1 DEF RecordTypes
<1>8. /\ records' = records /\ tradeWatched' = tradeWatched /\ page' = page /\ pages' = pages /\ asked' = asked /\ seen' = seen
      /\ shifted' = shifted /\ TR!Ids' = TR!Ids
  BY <1>1 DEF TR!Ids
<1> QED
  BY <1>2, <1>4, <1>6, <1>7, <1>8 DEF RecordTypes

(* The client's steps: what they leave alone, and the types.               *)
ReaderTypes ==
    /\ tradeWatched \subseteq Symbols
    /\ pages \in TR!Uncounted .. MaxRecords /\ (pages - 1) * PageSize < MaxRecords
    /\ page \in Nat /\ (page > 0 => (page - 1) * PageSize < MaxRecords)
    /\ asked.ids \cup seen \subseteq TR!Ids
    /\ shifted \in BOOLEAN

LEMMA ReaderTyped ==
  ASSUME RecordTypes, ReaderTypes', UNCHANGED <<records, sweep, overlapped>>
  PROVE  RecordTypes'
<1>1. records' = records /\ sweep' = sweep /\ overlapped' = overlapped /\ TR!Ids' = TR!Ids
  BY DEF TR!Ids
<1> QED
  BY <1>1 DEF RecordTypes, ReaderTypes

LEMMA StartTyped ==
  ASSUME TR!TradeAssumption, RecordTypes, NEW status, TR!StartReading(status)
  PROVE  RecordTypes'
<1>1. page' = 1 /\ asked'.ids = TR!Matching(records, tradeWatched, status)
      /\ UNCHANGED <<records, sweep, overlapped, tradeWatched, pages, seen, shifted>>
  BY DEF TR!StartReading
<1>2. asked'.ids \cup seen' \subseteq TR!Ids'
  BY <1>1 DEF RecordTypes, TR!Matching, TR!Ids
<1>3. (page' - 1) * PageSize < MaxRecords
  BY <1>1 DEF TR!TradeAssumption
<1>4. ReaderTypes'
  BY <1>1, <1>2, <1>3 DEF RecordTypes, ReaderTypes
<1> QED
  BY <1>1, <1>4, ReaderTyped

(* What the count says.                                                    *)
LEMMA TotalPages ==
  ASSUME TR!TradeAssumption, RecordTypes
  PROVE  /\ TR!total_pages \in 0 .. MaxRecords
         /\ TR!Cardinality(TR!Selected) <= TR!total_pages * PageSize
         /\ (TR!total_pages - 1) * PageSize < MaxRecords
<1> DEFINE n == TR!Cardinality(TR!Selected)
<1>1. n \in Nat /\ n <= MaxRecords /\ MaxRecords \in Nat /\ PageSize \in Nat \ {0}
  BY SelectedCounted DEF RecordTypes, TR!TradeAssumption
<1>2. TR!total_pages = (n + PageSize - 1) \div PageSize
  BY DEF TR!total_pages
<1> HIDE DEF n
<1>3. TR!total_pages \in Nat /\ TR!total_pages <= n /\ n <= TR!total_pages * PageSize /\ (TR!total_pages - 1) * PageSize < n
  BY <1>1, <1>2, PagesFill
<1>4. (TR!total_pages - 1) * PageSize \in Int
  BY <1>1, <1>3
<1> QED
  BY <1>1, <1>3, <1>4 DEF n

LEMMA CountTyped ==
  ASSUME TR!TradeAssumption, RecordTypes, TR!CountPages
  PROVE  RecordTypes'
<1>1. pages' = TR!total_pages /\ UNCHANGED <<records, sweep, overlapped, tradeWatched, page, asked, seen, shifted>>
  BY DEF TR!CountPages
<1>2. pages' \in TR!Uncounted .. MaxRecords /\ (pages' - 1) * PageSize < MaxRecords
  BY <1>1, TotalPages DEF TR!Uncounted, TR!TradeAssumption
<1>3. ReaderTypes'
  BY <1>1, <1>2 DEF RecordTypes, ReaderTypes, TR!Ids
<1> QED
  BY <1>1, <1>3, ReaderTyped

LEMMA PageTyped ==
  ASSUME TR!TradeAssumption, RecordTypes, TR!ReadPage
  PROVE  RecordTypes'
<1> DEFINE more == page < pages
<1>1. /\ pages # TR!Uncounted /\ pages' = TR!Uncounted
      /\ page' = (IF more THEN page + 1 ELSE 0)
      /\ seen' = (IF more THEN seen \cup TR!Page(page) ELSE {})
      /\ asked' = (IF more THEN asked ELSE TR!Nothing)
      /\ shifted' = (more /\ shifted)
      /\ UNCHANGED <<records, sweep, overlapped, tradeWatched>>
  BY DEF TR!ReadPage
<1>2. page \in Nat /\ pages \in Int /\ PageSize \in Nat \ {0} /\ MaxRecords \in Nat \ {0}
  BY DEF RecordTypes, TR!TradeAssumption, TR!Uncounted
<1>3. page' \in Nat /\ (page' > 0 => (page' - 1) * PageSize < MaxRecords)
  <2>1. CASE more
    <3>1. page * PageSize <= (pages - 1) * PageSize /\ page * PageSize \in Int /\ (pages - 1) * PageSize \in Int
      BY <1>2, <2>1, PageOrder
    <3>2. (pages - 1) * PageSize < MaxRecords
      BY DEF RecordTypes
    <3>3. page * PageSize < MaxRecords
      BY <1>2, <3>1, <3>2
    <3>4. page' = page + 1 /\ page' - 1 = page
      BY <1>1, <1>2, <2>1
    <3> QED
      BY <1>2, <3>3, <3>4
  <2>2. CASE ~more
    BY <1>1, <2>2
  <2> QED
    BY <2>1, <2>2
<1>4. pages' \in TR!Uncounted .. MaxRecords /\ (pages' - 1) * PageSize < MaxRecords
  <2>1. pages' = -1
    BY <1>1 DEF TR!Uncounted
  <2>2. (-1 - 1) * PageSize < MaxRecords
    BY <1>2
  <2> QED
    BY <1>2, <2>1, <2>2 DEF TR!Uncounted
<1>5. asked'.ids \cup seen' \subseteq TR!Ids'
  <2>1. TR!Page(page) \subseteq TR!Ids /\ TR!Ids' = TR!Ids
    BY <1>1 DEF TR!Page, TR!Selected, TR!Matching, TR!Ids
  <2> QED
    BY <1>1, <2>1 DEF RecordTypes, TR!Nothing
<1>6. shifted' \in BOOLEAN /\ tradeWatched' \subseteq Symbols
  BY <1>1 DEF RecordTypes
<1>7. ReaderTypes'
  BY <1>3, <1>4, <1>5, <1>6 DEF ReaderTypes
<1> QED
  BY <1>1, <1>7, ReaderTyped

LEMMA ChangeTyped ==
  ASSUME RecordTypes, NEW symbols \in SUBSET Symbols, TR!ChangeMonitors(symbols)
  PROVE  RecordTypes'
<1>1. tradeWatched' = symbols /\ UNCHANGED <<records, sweep, overlapped, page, pages, asked, seen>>
  BY DEF TR!ChangeMonitors
<1>2. shifted' \in BOOLEAN
  BY DEF TR!ChangeMonitors, TR!Shift, RecordTypes
<1>3. ReaderTypes'
  BY <1>1, <1>2 DEF RecordTypes, ReaderTypes, TR!Ids
<1> QED
  BY <1>1, <1>3, ReaderTyped

LEMMA TypesStep ==
  ASSUME TR!TradeAssumption, RecordTypes, [TR!Next]_TR!tradeVars
  PROVE  RecordTypes'
<1>1. CASE UNCHANGED TR!tradeVars
  <2>1. /\ records' = records /\ sweep' = sweep /\ tradeWatched' = tradeWatched /\ page' = page /\ pages' = pages
        /\ asked' = asked /\ seen' = seen /\ shifted' = shifted /\ overlapped' = overlapped /\ TR!Ids' = TR!Ids
    BY <1>1 DEF TR!tradeVars, TR!Ids
  <2> QED
    BY <2>1 DEF RecordTypes
<1>2. CASE TR!Next
  BY <1>2, RecordSteps, WritersTyped, ReadsTyped, StartTyped, CountTyped, PageTyped, ChangeTyped
<1> QED
  BY <1>1, <1>2

(* The sweeps.                                                             *)
LEMMA SweepStep ==
  ASSUME TR!TradeAssumption, RecordTypes, SweepInv, [TR!Next]_TR!tradeVars
  PROVE  SweepInv'
<1>1. CASE UNCHANGED <<records, sweep, overlapped>>
  BY <1>1 DEF SweepInv
<1>2. CASE RecordWrites
  <2>1. /\ Rewritten /\ Ending
        /\ UNCHANGED <<sweep, overlapped>>
           \/ \E w \in Sweepers : sweep' = [sweep EXCEPT ![w] = TR!NotSweeping] /\ UNCHANGED overlapped
    BY <1>2, WritersRewrite
  <2>2. overlapped' = overlapped
    BY <2>1
  <2>3. \A v \in Sweepers : sweep'[v] = sweep[v] \/ sweep'[v] = TR!NotSweeping
    <3>1. sweep = [v \in Sweepers |-> sweep[v]]
      BY DEF RecordTypes
    <3> QED
      BY <2>1, <3>1
  <2>4. DOMAIN TR!NotSweeping = {}
    BY DEF TR!NotSweeping
  <2>5. ASSUME ~overlapped, NEW v \in Sweepers, NEW i \in DOMAIN sweep'[v]
        PROVE  records'[i].status = sweep'[v][i]
    <3>1. sweep'[v] = sweep[v] /\ sweep[v] # TR!NotSweeping /\ i \in DOMAIN sweep[v]
      BY <2>3, <2>4, <2>5
    <3>2. records[i].status = sweep[v][i] /\ sweep[v][i] \in TR!Pending /\ i \in TR!Ids
      BY <2>5, <3>1 DEF SweepInv, RecordTypes
    <3>3. records[i].status # TR!Open
      BY <3>2 DEF TR!Pending, TR!Open
    <3>4. records'[i] = records[i]
      <4> SUFFICES ASSUME records'[i] # records[i] PROVE FALSE
        OBVIOUS
      <4>1. PICK w \in Sweepers : sweep' = [sweep EXCEPT ![w] = TR!NotSweeping] /\ sweep[w] # TR!NotSweeping
        BY <2>1, <3>2, <3>3 DEF Ending
      <4>2. w = v
        BY <2>5, <3>1, <4>1 DEF SweepInv
      <4>3. sweep'[v] = TR!NotSweeping
        <5>1. sweep = [u \in Sweepers |-> sweep[u]]
          BY DEF RecordTypes
        <5> QED
          BY <4>1, <4>2, <5>1
      <4> QED
        BY <3>1, <4>3
    <3> QED
      BY <3>1, <3>2, <3>4
  <2>6. ASSUME ~overlapped, NEW v \in Sweepers, NEW w \in Sweepers, sweep'[v] # TR!NotSweeping, sweep'[w] # TR!NotSweeping
        PROVE  v = w
    <3>1. sweep[v] # TR!NotSweeping /\ sweep[w] # TR!NotSweeping
      BY <2>3, <2>6
    <3> QED
      BY <2>6, <3>1 DEF SweepInv
  <2> QED
    BY <2>2, <2>5, <2>6 DEF SweepInv
<1>3. ASSUME NEW w \in Sweepers, TR!SweepReads(w) PROVE SweepInv'
  <2>1. sweep' = [v \in Sweepers |-> IF v = w THEN TR!ReadOf(TR!Pending) ELSE sweep[v]]
    BY <1>3, ReadsTyped
  <2>2. records' = records /\ overlapped' = (overlapped \/ \E v \in Sweepers \ {w} : sweep[v] # TR!NotSweeping)
    BY <1>3 DEF TR!SweepReads
  <2>3. ASSUME ~overlapped', NEW v \in Sweepers, v # w PROVE sweep'[v] = TR!NotSweeping
    BY <2>1, <2>2, <2>3
  <2>4. sweep'[w] = TR!ReadOf(TR!Pending)
    BY <2>1
  <2>5. \A i \in DOMAIN TR!ReadOf(TR!Pending) : records[i].status = TR!ReadOf(TR!Pending)[i]
    BY DEF TR!ReadOf
  <2>6. DOMAIN TR!NotSweeping = {}
    BY DEF TR!NotSweeping
  <2>7. ASSUME ~overlapped', NEW v \in Sweepers, NEW i \in DOMAIN sweep'[v]
        PROVE  records'[i].status = sweep'[v][i]
    <3>1. v = w
      BY <2>3, <2>6, <2>7
    <3> QED
      BY <2>2, <2>4, <2>5, <2>7, <3>1
  <2>8. ASSUME ~overlapped', NEW u \in Sweepers, NEW v \in Sweepers, sweep'[u] # TR!NotSweeping, sweep'[v] # TR!NotSweeping
        PROVE  u = v
    BY <2>3, <2>8
  <2> QED
    BY <2>7, <2>8 DEF SweepInv
<1>4. CASE UNCHANGED TR!tradeVars
  BY <1>1, <1>4 DEF TR!tradeVars
<1>5. CASE TR!Next
  <2>1. ASSUME \/ \E status \in Filters : TR!StartReading(status)
               \/ TR!CountPages \/ TR!ReadPage
               \/ \E symbols \in SUBSET Symbols : TR!ChangeMonitors(symbols)
        PROVE  UNCHANGED <<records, sweep, overlapped>>
    BY <2>1 DEF TR!StartReading, TR!CountPages, TR!ReadPage, TR!ChangeMonitors
  <2> QED
    BY <1>1, <1>2, <1>3, <1>5, <2>1, RecordSteps
<1> QED
  BY <1>4, <1>5

(* While sweeps do not overlap, a step writes a record only if it is       *)
(* pending, or open and the last of its symbol.                            *)
LEMMA EndedKept ==
  ASSUME TR!TradeAssumption, RecordTypes, SweepInv, [TR!Next]_TR!tradeVars
  PROVE  TR!EndedStaysEnded /\ TR!OvertakenStaysOpen
<1>1. ASSUME NEW i \in TR!Ids, ~overlapped, records'[i] # records[i]
      PROVE  records[i].status \in TR!Pending \/ (records[i].status = TR!Open /\ i \in TR!Latest(records[i].symbol))
  <2>1. RecordWrites
    <3>1. records' # records
      BY <1>1
    <3>2. TR!Next
      BY <3>1 DEF TR!tradeVars
    <3> QED
      BY <3>1, <3>2, RecordSteps DEF TR!SweepReads, TR!StartReading, TR!CountPages, TR!ReadPage, TR!ChangeMonitors
  <2>2. Ending
    BY <2>1, WritersRewrite
  <2>3. CASE \E w \in Sweepers : i \in DOMAIN sweep[w]
    <3>1. PICK w \in Sweepers : i \in DOMAIN sweep[w]
      BY <2>3
    <3>2. records[i].status = sweep[w][i]
      BY <1>1, <3>1 DEF SweepInv
    <3>3. sweep[w][i] \in TR!Pending
      BY <3>1 DEF RecordTypes
    <3> QED
      BY <3>2, <3>3
  <2> QED
    BY <1>1, <2>2, <2>3 DEF Ending
<1>2. TR!Pending \cap TR!Closed = {} /\ TR!Open \notin TR!Closed /\ TR!Open \notin TR!Pending
  BY DEF TR!Pending, TR!Closed, TR!Open
<1> QED
  BY <1>1, <1>2 DEF TR!EndedStaysEnded, TR!OvertakenStaysOpen

(* The client.                                                             *)
LEMMA StartKept ==
  ASSUME TR!TradeAssumption, RecordTypes, PageInv, NEW status, TR!StartReading(status)
  PROVE  PageInv'
<1>1. /\ page = 0 /\ page' = 1 /\ asked' = [status |-> status, ids |-> TR!Matching(records, tradeWatched, status)]
      /\ UNCHANGED <<records, tradeWatched, pages, seen, shifted, missed>>
  BY DEF TR!StartReading
<1>2. pages' = TR!Uncounted /\ missed' = {}
  BY <1>1 DEF PageInv
<1>3. TR!Selected' = asked'.ids
  BY <1>1 DEF TR!Selected
<1>4. ASSUME NEW i \in asked'.ids
      PROVE  TR!Cardinality(TR!Newer(i)') >= (page' - 1) * PageSize
  <2>1. (page' - 1) * PageSize = 0
    BY <1>1 DEF TR!TradeAssumption
  <2>2. i \in Int
    BY <1>1 DEF RecordTypes, TR!Matching
  <2>3. TR!Cardinality(TR!Newer(i)') \in Nat
    BY <2>2, StartTyped, SelectedCountedNext
  <2> QED
    BY <2>1, <2>3
<1> QED
  BY <1>1, <1>2, <1>3, <1>4 DEF PageInv

LEMMA CountKept ==
  ASSUME TR!TradeAssumption, RecordTypes, PageInv, TR!CountPages
  PROVE  PageInv'
<1>1. page > 0 /\ pages' = TR!total_pages /\ UNCHANGED <<records, tradeWatched, page, asked, seen, shifted, missed>>
  BY DEF TR!CountPages
<1>2. TR!Selected' = TR!Selected /\ (\A i : TR!Newer(i)' = TR!Newer(i)) /\ TR!total_pages' = TR!total_pages
  BY <1>1 DEF TR!Selected, TR!Newer, TR!total_pages
<1>3. page' # 0
  BY <1>1 DEF RecordTypes
<1> QED
  BY <1>1, <1>2, <1>3 DEF PageInv

(* What the last page has not shown is nowhere: every record has fewer     *)
(* newer ones than there are.                                              *)
LEMMA PageKept ==
  ASSUME TR!TradeAssumption, RecordTypes, PageInv, TR!ReadPage
  PROVE  PageInv'
<1> DEFINE more == page < pages
           shown == seen \cup TR!Page(page)
<1>1. /\ pages # TR!Uncounted /\ pages' = TR!Uncounted
      /\ page' = (IF more THEN page + 1 ELSE 0)
      /\ seen' = (IF more THEN shown ELSE {})
      /\ asked' = (IF more THEN asked ELSE TR!Nothing)
      /\ shifted' = (more /\ shifted)
      /\ missed' = (IF more \/ shifted THEN missed ELSE missed \cup (asked.ids \ shown))
      /\ UNCHANGED <<records, tradeWatched>>
  BY DEF TR!ReadPage
<1>2. page \in Nat /\ page > 0 /\ pages \in Int /\ PageSize \in Nat \ {0}
  BY <1>1 DEF RecordTypes, TR!TradeAssumption, TR!Uncounted, PageInv
<1>3. page * PageSize \in Int /\ (page - 1) * PageSize \in Int /\ page * PageSize = (page - 1) * PageSize + PageSize
  BY <1>2, NextPage
<1>4. ASSUME ~shifted, NEW i \in asked.ids \ shown
      PROVE  i \in TR!Selected /\ TR!Cardinality(TR!Newer(i)) \in Nat /\ TR!Cardinality(TR!Newer(i)) >= page * PageSize
  <2>1. i \in TR!Selected /\ TR!Cardinality(TR!Newer(i)) >= (page - 1) * PageSize
    BY <1>2, <1>4 DEF PageInv
  <2>2. TR!Cardinality(TR!Newer(i)) \in Nat
    BY <2>1, SelectedCounted
  <2>3. TR!Cardinality(TR!Newer(i)) \notin (page - 1) * PageSize .. page * PageSize - 1
    BY <1>4, <2>1 DEF TR!Page
  <2> HIDE DEF shown
  <2> QED
    BY <1>3, <2>1, <2>2, <2>3
<1>5. CASE more
  <2>1. page' = page + 1 /\ page' - 1 = page /\ page' # 0 /\ missed' = {} /\ shifted' = shifted /\ asked' = asked /\ seen' = shown
    BY <1>1, <1>2, <1>5 DEF PageInv, RecordTypes
  <2>2. TR!Selected' = TR!Selected /\ \A i : TR!Newer(i)' = TR!Newer(i)
    BY <1>1, <2>1 DEF TR!Selected, TR!Newer
  <2>3. ~shifted => asked.ids \subseteq TR!Selected
    BY <1>2 DEF PageInv
  <2> HIDE DEF shown, more
  <2> QED
    BY <1>1, <1>4, <2>1, <2>2, <2>3 DEF PageInv
<1>6. CASE ~more
  <2>1. page' = 0 /\ ~shifted'
    BY <1>1, <1>6
  <2>2. ASSUME ~shifted, NEW i \in asked.ids \ shown PROVE FALSE
    <3>1. pages = TR!total_pages
      BY <1>1, <2>2 DEF PageInv
    <3>2. TR!Cardinality(TR!Selected) <= pages * PageSize
      BY <3>1, TotalPages
    <3>3. pages * PageSize <= page * PageSize /\ pages * PageSize \in Int
      BY <1>2, <1>6, PageOrder
    <3>4. i \in TR!Selected /\ TR!Cardinality(TR!Newer(i)) \in Nat /\ TR!Cardinality(TR!Newer(i)) >= page * PageSize
      BY <1>4, <2>2
    <3>5. TR!Cardinality(TR!Newer(i)) < TR!Cardinality(TR!Selected) /\ TR!Cardinality(TR!Selected) \in Int
      BY <3>4, SelectedCounted
    <3> QED
      BY <1>3, <3>2, <3>3, <3>4, <3>5
  <2>3. missed' = {}
    BY <1>1, <1>6, <2>2 DEF PageInv
  <2>4. ~(0 > 0)
    OBVIOUS
  <2> QED
    BY <1>1, <2>1, <2>3, <2>4 DEF PageInv
<1> QED
  BY <1>5, <1>6

LEMMA PageStep ==
  ASSUME TR!TradeAssumption, RecordTypes, PageInv, [TR!Next]_TR!tradeVars
  PROVE  PageInv'
<1>1. RecordTypes'
  BY TypesStep
<1>2. CASE UNCHANGED TR!tradeVars
  <2>1. UNCHANGED <<records, tradeWatched, page, pages, asked, seen, shifted, missed>>
    BY <1>2 DEF TR!tradeVars
  <2>2. TR!Selected' = TR!Selected /\ (\A i : TR!Newer(i)' = TR!Newer(i)) /\ TR!total_pages' = TR!total_pages
    BY <2>1 DEF TR!Selected, TR!Newer, TR!total_pages
  <2> QED
    BY <2>1, <2>2 DEF PageInv
<1>3. CASE RecordWrites
  <2>1. TR!Shift(records', tradeWatched) /\ UNCHANGED <<tradeWatched, page, pages, asked, seen, missed>>
    BY <1>3, WritersRewrite
  <2>2. TR!Matching(records', tradeWatched, asked.status) = TR!Selected'
    BY <2>1 DEF TR!Selected
  <2> QED
    BY <1>1, <2>1, <2>2, ReaderKept DEF TR!Shift
<1>4. ASSUME NEW symbols \in SUBSET Symbols, TR!ChangeMonitors(symbols) PROVE PageInv'
  <2>1. TR!Shift(records, symbols) /\ tradeWatched' = symbols /\ UNCHANGED <<records, page, pages, asked, seen, missed>>
    BY <1>4 DEF TR!ChangeMonitors
  <2>2. TR!Matching(records, symbols, asked.status) = TR!Selected'
    BY <2>1 DEF TR!Selected
  <2> QED
    BY <1>1, <2>1, <2>2, ReaderKept DEF TR!Shift
<1>5. ASSUME NEW w \in Sweepers, TR!SweepReads(w) PROVE PageInv'
  <2>1. UNCHANGED <<records, tradeWatched, page, pages, asked, seen, shifted, missed>>
    BY <1>5 DEF TR!SweepReads
  <2>2. TR!Selected' = TR!Selected /\ (\A i : TR!Newer(i)' = TR!Newer(i)) /\ TR!total_pages' = TR!total_pages
    BY <2>1 DEF TR!Selected, TR!Newer, TR!total_pages
  <2> QED
    BY <2>1, <2>2 DEF PageInv
<1>6. CASE TR!Next
  BY <1>3, <1>4, <1>5, <1>6, RecordSteps, StartKept, CountKept, PageKept
<1> QED
  BY <1>2, <1>6

LEMMA RecordInit ==
  ASSUME TR!TradeAssumption, TR!Init
  PROVE  RecordInv
<1>1. PICK s \in Symbols, status \in {0, 1, 3} : records = <<[symbol |-> s, status |-> status]>>
  BY DEF TR!Init
<1>2. [symbol |-> s, status |-> status] \in Ticket
  BY DEF Ticket
<1>3. records \in Seq(Ticket) /\ Len(records) = 1
  BY <1>1, <1>2
<1>4. Len(records) \in 1 .. MaxRecords /\ MaxRecords \in Nat \ {0} /\ PageSize \in Nat \ {0}
  BY <1>3 DEF TR!TradeAssumption
<1>5. sweep = [w \in Sweepers |-> TR!NotSweeping] /\ sweep = [w \in Sweepers |-> sweep[w]]
  BY DEF TR!Init
<1>6. DOMAIN TR!NotSweeping = {}
  BY DEF TR!NotSweeping
<1>7. /\ tradeWatched \subseteq Symbols /\ page = 0 /\ pages = TR!Uncounted /\ asked = TR!Nothing /\ seen = {} /\ shifted = FALSE
      /\ missed = {} /\ overlapped = FALSE
  BY DEF TR!Init
<1>8. pages \in TR!Uncounted .. MaxRecords /\ (pages - 1) * PageSize < MaxRecords
  BY <1>4, <1>7 DEF TR!Uncounted
<1>9. asked.ids \cup seen \subseteq TR!Ids
  BY <1>7 DEF TR!Nothing
<1>13. \A w \in Sweepers : DOMAIN sweep[w] \subseteq TR!Ids /\ \A i \in DOMAIN sweep[w] : sweep[w][i] \in TR!Pending
  BY <1>5, <1>6
<1>14. page \in Nat /\ ~(page > 0)
  BY <1>7
<1>15. overlapped \in BOOLEAN /\ shifted \in BOOLEAN
  BY <1>7
<1>10. RecordTypes
  BY <1>3, <1>4, <1>5, <1>7, <1>8, <1>9, <1>13, <1>14, <1>15 DEF RecordTypes
<1>11. SweepInv
  BY <1>5, <1>6 DEF SweepInv
<1>12. PageInv
  BY <1>7 DEF PageInv
<1> QED
  BY <1>10, <1>11, <1>12 DEF RecordInv

(* A reading that ends has missed nothing unless rows were shifted, and    *)
(* what has ended or was overtaken is left alone.                          *)
THEOREM RecordsHold ==
  ASSUME TR!TradeAssumption
  PROVE  TR!Spec => TR!RecordsKept /\ [](TR!TypeOK /\ TR!NothingSkipped)
<1>1. TR!Init => RecordInv
  BY RecordInit
<1>2. RecordInv /\ [TR!Next]_TR!tradeVars => RecordInv'
  BY TypesStep, SweepStep, PageStep DEF RecordInv
<1>3. RecordInv /\ [TR!Next]_TR!tradeVars => TR!EndedStaysEnded /\ TR!OvertakenStaysOpen
  BY EndedKept DEF RecordInv
<1>4. RecordInv => TR!NothingSkipped
  BY DEF RecordInv, PageInv, TR!NothingSkipped
<1>5. RecordInv => TR!TypeOK
  <2>1. ASSUME RecordInv PROVE \A i \in TR!Ids : records[i] \in [symbol : Symbols, status : 0 .. 5]
    <3>1. records \in Seq(Ticket) /\ TR!Ids = 1 .. Len(records)
      BY <2>1 DEF RecordInv, RecordTypes, TR!Ids
    <3>2. \A i \in TR!Ids : records[i] \in Ticket
      BY <3>1
    <3> QED
      BY <3>2 DEF Ticket
  <2> QED
    BY <2>1 DEF RecordInv, RecordTypes, TR!TypeOK, PageInv
<1> QED
  BY <1>1, <1>2, <1>3, <1>4, <1>5, PTL DEF TR!Spec, TR!RecordsKept

-----------------------------------------------------------------------------
(***************************************************************************)
(* The composition.                                                        *)
(***************************************************************************)

(* Every behaviour of the parts is one of each component.                  *)
LEMMA ScoresRun == PartsSpec => CO!Spec /\ ES!Spec /\ EX!Spec /\ TR!Spec
<1> DEFINE partsVars == <<part, vars, rateParts, sessionParts, stateParts, listParts, strategyParts, topParts,
                         backtestParts, conditionParts, scoreParts, exitParts, viewParts, tradeParts>>
<1>1. PartsInit => CO!Init /\ ES!Init /\ EX!Init /\ TR!Init
  BY DEF PartsInit
<1>2. [PartsNext]_partsVars => [CO!Next]_CO!conditionVars
  BY DEF PartsNext, conditionParts, CO!conditionVars
<1>3. [PartsNext]_partsVars => [ES!Next]_ES!scoreVars
  BY DEF PartsNext, scoreParts, ES!scoreVars
<1>4. [PartsNext]_partsVars => [EX!Next]_EX!exitVars
  BY DEF PartsNext, exitParts, EX!exitVars
<1>5. [PartsNext]_partsVars => [TR!Next]_TR!tradeVars
  BY DEF PartsNext, tradeParts, TR!tradeVars
<1>6. PartsSpec => PartsInit /\ [][PartsNext]_partsVars
  BY DEF PartsSpec
<1> HIDE DEF partsVars
<1> QED
  BY <1>1, <1>2, <1>3, <1>4, <1>5, <1>6, PTL DEF CO!Spec, ES!Spec, EX!Spec, TR!Spec

(* What the catalogue promises of a condition is what the check evaluates, *)
(* for candles of any prices.                                              *)
THEOREM FactorsAsPromisedInParts == PartsSpec => []FactorsAsPromised
<1>1. CO!FactorsAsPromised => FactorsAsPromised
  BY DEF FactorsAsPromised
<1>2. CO!Spec => [](CO!FactorsAsPromised /\ CO!TypeOK)
  BY ConditionInstance, FactorsPromised
<1> QED
  BY <1>1, <1>2, ScoresRun, PTL

(* The scores stay in their ranges and fail on a collapsed KDJ alone, and  *)
(* the exit signals speak when two of them do.                             *)
THEOREM ScoresSoundInParts == PartsSpec => []ScoresSound
<1>1. ES!EntryScoreSound /\ EX!ExitSignalsSound => ScoresSound
  BY DEF ScoresSound
<1>2. ES!Spec => [](ES!EntryScoreSound /\ ES!TypeOK)
  BY ScoreInstance, EntryScores
<1>3. EX!Spec => [](EX!ExitSignalsSound /\ EX!TypeOK)
  BY ExitInstance, ExitSignalsHold
<1> QED
  BY <1>1, <1>2, <1>3, ScoresRun, PTL

(* A client that reads to the last page has missed nothing unless rows     *)
(* were shifted under it, and sweeps and exit signals leave alone what has *)
(* ended or was overtaken.                                                 *)
THEOREM RecordsKeptInParts == PartsSpec => RecordsKept
<1>1. TR!Spec => TR!RecordsKept /\ [](TR!TypeOK /\ TR!NothingSkipped)
  BY TradeInstance, RecordsHold
<1>2. tradeParts = TR!tradeVars
  BY DEF tradeParts, TR!tradeVars
<1>3. [TR!EndedStaysEnded /\ TR!OvertakenStaysOpen /\ TR!NothingSkipped']_TR!tradeVars
         => [TR!EndedStaysEnded /\ TR!OvertakenStaysOpen /\ TR!NothingSkipped']_tradeParts
  BY <1>2 DEF tradeParts, TR!tradeVars
<1>4. TR!RecordsKept => RecordsKept
  BY <1>3, PTL DEF TR!RecordsKept, RecordsKept
<1> QED
  BY <1>1, <1>4, ScoresRun, PTL

(***************************************************************************)
(* The scores shown while the pipeline writes (ScoreView). Its theorem is  *)
(* proved of the module by itself; VP is that module seen from the parts,  *)
(* with the same parameters as VW, and so with the same definitions.       *)
(***************************************************************************)
VP == INSTANCE ScoreViewProofs WITH Take <- IndicatorTake, Window <- IndicatorWindow, None <- Unset,
                                    watched <- pairWatched, rows <- indicatorRows

(* The two instances start alike.                                          *)
LEMMA SameViewInit == VW!ViewInit <=> VP!ViewInit
  BY DEF VW!Idle, VP!Idle, VW!Init, VP!Init, VW!NotRead, VP!NotRead, VW!ViewInit, VP!ViewInit

(* They take the same steps.                                               *)
LEMMA SameViewStep == [VW!ViewNext]_VW!viewVars <=> [VP!ViewNext]_VP!viewVars
  BY DEF VW!Base, VP!Base, VW!BeginCheck, VP!BeginCheck, VW!CalcFails, VP!CalcFails,
     VW!CalcIndicators, VP!CalcIndicators, VW!CalcKeyExpires, VP!CalcKeyExpires, VW!Cardinality,
     VP!Cardinality, VW!CreateFirstRows, VP!CreateFirstRows, VW!DecideFromMacd, VP!DecideFromMacd,
     VW!Exact, VP!Exact, VW!Extended, VP!Extended, VW!Fault, VP!Fault, VW!Fetch, VP!Fetch,
     VW!FetchEmpty, VP!FetchEmpty, VW!Fetched, VP!Fetched, VW!FinalAndConsecutive,
     VP!FinalAndConsecutive, VW!FirstRow, VP!FirstRow, VW!Idle, VP!Idle, VW!InTurn, VP!InTurn,
     VW!InitKlines, VP!InitKlines, VW!InitialStarts, VP!InitialStarts, VW!Inputs, VP!Inputs,
     VW!JobFails, VP!JobFails, VW!JobKeyExpires, VP!JobKeyExpires, VW!Known, VP!Known, VW!Last,
     VP!Last, VW!LongestNeed, VP!LongestNeed, VW!Max, VP!Max, VW!Min, VP!Min, VW!Missing,
     VP!Missing, VW!NewestRows, VP!NewestRows, VW!Next, VP!Next, VW!NotRead, VP!NotRead, VW!Order,
     VP!Order, VW!PauseOrResume, VP!PauseOrResume, VW!ReadKlines, VP!ReadKlines, VW!ReadNext,
     VP!ReadNext, VW!Ready, VP!Ready, VW!SaveKlines, VP!SaveKlines, VW!ScheduleIndicators,
     VP!ScheduleIndicators, VW!ScheduleKline, VP!ScheduleKline, VW!ShortWindow, VP!ShortWindow,
     VW!SkipPaused, VP!SkipPaused, VW!SkipRsi, VP!SkipRsi, VW!Start, VP!Start, VW!StepFrom,
     VP!StepFrom, VW!Stepped, VP!Stepped, VW!TakeCalc, VP!TakeCalc, VW!TakeKline, VP!TakeKline,
     VW!Tick, VP!Tick, VW!ToSet, VP!ToSet, VW!UpdateKlines, VP!UpdateKlines, VW!Upsert, VP!Upsert,
     VW!Upserted, VP!Upserted, VW!ViewNext, VP!ViewNext, VW!Waiting, VP!Waiting,
     VW!_calculate_symbol_score, VP!_calculate_symbol_score, VW!keys, VP!keys, VW!tables, VP!tables,
     VW!vars, VP!vars, VW!viewVars, VP!viewVars

(* They promise the same.                                                  *)
LEMMA SameTorn == VW!TornOnlyAtZero <=> VP!TornOnlyAtZero
  BY DEF VW!Answered, VP!Answered, VW!Max, VP!Max, VW!RowOf, VP!RowOf, VW!Stamps, VP!Stamps,
     VW!ToSet, VP!ToSet, VW!TornOnlyAtZero, VP!TornOnlyAtZero, VW!_align_data, VP!_align_data

LEMMA SameViewType == VW!ViewTypeOK <=> VP!ViewTypeOK
  BY DEF VW!Candle, VP!Candle, VW!InTurn, VP!InTurn, VW!Order, VP!Order, VW!Row, VP!Row, VW!TypeOK,
     VP!TypeOK, VW!ViewTypeOK, VP!ViewTypeOK

(* They are given the same constants.                                      *)
LEMMA SameViewConstants == VP!ViewAssumption /\ VP!ConstantsAssumption
<1>1. VW!ViewAssumption <=> VP!ViewAssumption
  BY DEF VW!ViewAssumption, VP!ViewAssumption
<1>2. VP!ViewAssumption
  BY <1>1, ViewInstance
<1> QED
  BY <1>2 DEF VP!ViewAssumption

(* Every behaviour of the parts is one of the view.                        *)
LEMMA ViewRuns == PartsSpec => VP!ViewSpec
<1> DEFINE partsVars == <<part, vars, rateParts, sessionParts, stateParts, listParts, strategyParts, topParts,
                         backtestParts, conditionParts, scoreParts, exitParts, viewParts, tradeParts>>
<1>1. PartsInit => VP!ViewInit
  BY SameViewInit DEF PartsInit
<1>2. [PartsNext]_partsVars => [VW!ViewNext]_VW!viewVars
  BY DEF PartsNext, viewParts, VW!viewVars, VW!vars
<1>3. [PartsNext]_partsVars => [VP!ViewNext]_VP!viewVars
  BY <1>2, SameViewStep
<1>4. PartsSpec => PartsInit /\ [][PartsNext]_partsVars
  BY DEF PartsSpec
<1> HIDE DEF partsVars
<1> QED
  BY <1>1, <1>3, <1>4, PTL DEF VP!ViewSpec

(* However the pipeline writes between the reads of a view, what is scored *)
(* are candles in a row, and all but the newest have closing prices in     *)
(* every table: a table is saved in order and no row is taken back.        *)
THEOREM TornOnlyAtZeroInParts == PartsSpec => []TornOnlyAtZero
<1>1. VP!TornOnlyAtZero => TornOnlyAtZero
  BY SameTorn DEF TornOnlyAtZero
<1>2. VP!ViewSpec => [](VP!TornOnlyAtZero /\ VP!ViewTypeOK)
  BY SameViewConstants, VP!ScoredInARow
<1> QED
  BY <1>1, <1>2, ViewRuns, PTL

(***************************************************************************)
(* The types and bounds of every component.                                *)
(***************************************************************************)

(* Every behaviour of the parts is one of the evaluators of rules.         *)
LEMMA RulesRun == PartsSpec => Spec
<1> DEFINE partsVars == <<part, vars, rateParts, sessionParts, stateParts, listParts, strategyParts, topParts,
                         backtestParts, conditionParts, scoreParts, exitParts, viewParts, tradeParts>>
<1>1. PartsInit => Init
  BY DEF PartsInit
<1>2. [PartsNext]_partsVars => [Next]_vars
  BY DEF PartsNext
<1>3. PartsSpec => PartsInit /\ [][PartsNext]_partsVars
  BY DEF PartsSpec
<1> HIDE DEF partsVars
<1> QED
  BY <1>1, <1>2, <1>3, PTL DEF Spec

(* Which component runs is decided at the start.                           *)
PartNames == {"rules", "rate", "sessions", "state", "list", "strategies", "top", "backtest",
              "conditions", "entry", "exit", "view", "records"}

LEMMA PartStays == PartsSpec => [](part \in PartNames)
<1> DEFINE partsVars == <<part, vars, rateParts, sessionParts, stateParts, listParts, strategyParts, topParts,
                         backtestParts, conditionParts, scoreParts, exitParts, viewParts, tradeParts>>
<1>1. PartsInit => part \in PartNames
  BY DEF PartsInit, PartNames
<1>2. part \in PartNames /\ [PartsNext]_partsVars => (part \in PartNames)'
  BY DEF PartsNext
<1>3. PartsSpec => PartsInit /\ [][PartsNext]_partsVars
  BY DEF PartsSpec
<1> HIDE DEF partsVars
<1> QED
  BY <1>1, <1>2, <1>3, PTL

(* The component that runs keeps its types and its bounds, and so does     *)
(* every other.                                                            *)
THEOREM PartsTyped == PartsSpec => []PartsTypeOK
<1>1. Spec => []TypeOK
  BY TypeCorrect
<1>2. RL!Spec => [](RL!LimitsKept /\ RL!TypeOK)
  BY RateInstance, LimitsHold
<1>3. SE!Spec => [](SE!AccountsAndSessions /\ SE!TypeOK)
  BY SessionInstance, SessionsHold
<1>4. MS!Spec => [](MS!ShownAsDecided /\ MS!TypeOK)
  BY StateShown
<1>5. ML!Spec => [](ML!MonitorsKept /\ ML!TypeOK)
  BY ListInstance, ListKept
<1>6. SV!Spec => [](SV!NoSaveLost /\ SV!TypeOK)
  BY StrategyInstance, NoEditLost
<1>7. TP!Spec => [](TP!HighsToldOnce /\ TP!TypeOK)
  BY TopInstance, HighsTold
<1>8. BT!Spec => [](BT!OrdersFollowModels /\ BT!TypeOK)
  BY BacktestInstance, ModelsDecide
<1>9. CO!Spec => [](CO!FactorsAsPromised /\ CO!TypeOK)
  BY ConditionInstance, FactorsPromised
<1>10. ES!Spec => [](ES!EntryScoreSound /\ ES!TypeOK)
  BY ScoreInstance, EntryScores
<1>11. EX!Spec => [](EX!ExitSignalsSound /\ EX!TypeOK)
  BY ExitInstance, ExitSignalsHold
<1>12. VP!ViewSpec => [](VP!TornOnlyAtZero /\ VP!ViewTypeOK)
  BY SameViewConstants, VP!ScoredInARow
<1>13. TR!Spec => TR!RecordsKept /\ [](TR!TypeOK /\ TR!NothingSkipped)
  BY TradeInstance, RecordsHold
<1>14. VP!ViewTypeOK => VW!ViewTypeOK
  BY SameViewType
<1>15. /\ part \in PartNames /\ TypeOK /\ RL!TypeOK /\ SE!TypeOK /\ MS!TypeOK /\ ML!TypeOK /\ SV!TypeOK /\ TP!TypeOK
       /\ BT!TypeOK /\ CO!TypeOK /\ ES!TypeOK /\ EX!TypeOK /\ VW!ViewTypeOK /\ TR!TypeOK
       => PartsTypeOK
  BY DEF PartNames, PartsTypeOK
<1> QED
  BY <1>1, <1>2, <1>3, <1>4, <1>5, <1>6, <1>7, <1>8, <1>9, <1>10, <1>11, <1>12, <1>13, <1>14, <1>15,
     RulesRun, PartStays, RunsEach, ScoresRun, ViewRuns, PTL

=============================================================================
