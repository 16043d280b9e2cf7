----------------------------- MODULE Conditions -----------------------------
(***************************************************************************)
(* The conditions strategies are composed of (models/strategy_rules.py):   *)
(* what evaluate_condition makes of the factors, and what the catalogue    *)
(* (describe_condition) tells the user that it reads.  Candles of one kind *)
(* arrive one at a time; a kind has the fields its conditions look at.     *)
(***************************************************************************)
EXTENDS Factor

CONSTANTS
    Candles,    \* per kind, the candles that may arrive
    Depth       \* per kind, the candles its conditions read

VARIABLES
    kind,       \* which fields this history has
    crossed,    \* ghost: the last cross, and whether it was the second of its sort in a row
    above,      \* ghost: the fast line was above the slow one
    met,        \* ghost: since it last was, the lines were equal
    reported    \* ghost: since it last was, a death cross was reported

(* The prices and indicators of a kind, and how many candles its conditions *)
(* and the crosses below look at.                                          *)
ReadOf == [candle |-> 5, width |-> 6, band |-> 4, ema |-> 4, macd |-> 3, kdj |-> 3]

ConditionAssumption ==
    /\ DOMAIN Candles = DOMAIN ReadOf
    /\ Candles["candle"] \subseteq [open : Int, close : Int]
    /\ Candles["width"] \subseteq [upper : Int, lower : Int]
    /\ Candles["band"] \subseteq [upper : Nat, mid : Nat, close : Nat, high : Nat]
    /\ \A c \in Candles["band"] : c.mid <= c.upper
    /\ Candles["ema"] \subseteq [ema12 : Int, ema26 : Int, close : Int]
    /\ Candles["macd"] \subseteq [macd : Int]
    /\ Candles["kdj"] \subseteq [k : Int, d : Int]
    /\ \A k \in DOMAIN ReadOf : Depth[k] \in Nat /\ Depth[k] >= ReadOf[k]

conditionVars == <<kind, history, crossed, above, met, reported>>

-----------------------------------------------------------------------------
(* The conditions: the parameters a factor is called with, and what        *)
(* evaluate_condition makes of its answers.                                *)

Over(indices, minimum, holds) == Cardinality({i \in indices : holds[i]}) >= minimum

Parameters ==
    [price_guard |-> [indices |-> {0, 1}, minimum |-> 1],
     high_away |-> [indices |-> {0, 1}, minimum |-> 1],
     bullish_ratio |-> [indices |-> 1 .. 4, minimum |-> 3],
     hour_bullish |-> [indices |-> 0 .. 2, minimum |-> 3],
     near_upper |-> [indices |-> 1 .. 3, minimum |-> 2],
     hour_upper |-> [index |-> 0, size |-> 3],
     above_ema |-> [index |-> 1, size |-> 3],
     widen |-> [index |-> 1, size |-> 3],
     macd_down |-> [index |-> 0, size |-> 3],
     j_down |-> [index |-> 0, size |-> 2]]

KeysOf ==
    [candle |-> {"bullish_ratio", "hour_bullish"}, width |-> {"widen"},
     band |-> {"price_guard", "high_away", "near_upper", "hour_upper"},
     ema |-> {"above_ema"}, macd |-> {"macd_down"}, kdj |-> {"j_down"}]

Matched(key) ==
    LET p == Parameters[key]
    IN  CASE key = "price_guard" ->
                ~ \E i \in p.indices : is_curr_price_away_from_bbupper(i, 1)
          [] key = "high_away" ->
                \E i \in p.indices : is_high_price_away_from_bbupper(i, 8)
          [] key \in {"bullish_ratio", "hour_bullish"} ->
                Over(p.indices, p.minimum, [i \in p.indices |-> is_bullish_k(i)])
          [] key = "near_upper" ->
                Over(p.indices, p.minimum, [i \in p.indices |-> is_near_upper(i, 3)])
          [] key = "hour_upper" -> is_along_upper_band(p.size, 20)
          [] key = "above_ema" -> is_ema12_continue_lt_close(p.index, p.size)
          [] key = "widen" -> is_boll_widen(p.index, p.size)
          [] key = "macd_down" -> is_continue_down(p.index, p.size)
          [] key = "j_down" -> is_j_continue_down(p.index, p.size)

-----------------------------------------------------------------------------
(* The catalogue: how many candles are sampled, from where, and how many   *)
(* of them, or of the changes between them, must satisfy the operation.    *)

Changing == {"widen", "macd_down", "j_down"}

Described(key, extra) ==
    LET p == Parameters[key]
        count == p.size + extra[key]
    IN  CASE key \in {"price_guard", "high_away", "bullish_ratio", "hour_bullish", "near_upper"} ->
                [samples |-> p.indices, minimum |-> p.minimum]
          [] key = "hour_upper" -> [samples |-> 0 .. p.size - 1, minimum |-> p.size \div 2 + 1]
          [] OTHER -> [samples |-> Window(p.index, count), minimum |-> count]

(* Mutant: the samples of a window are as many as its size says.           *)
DescribedBySize(key) ==
    Described(key, [above_ema |-> 0, widen |-> 0, macd_down |-> 0, j_down |-> 0])

describe_condition(key) ==
    Described(key, [above_ema |-> 0, widen |-> 2, macd_down |-> 0, j_down |-> 1])

(* The operation as the catalogue words it, of one candle or one change.   *)
Satisfied(key, i) ==
    CASE key = "price_guard" -> 100 * At(i).close <= 101 * At(i).upper
      [] key = "high_away" -> 100 * At(i).high > 108 * At(i).upper
      [] key \in {"bullish_ratio", "hour_bullish"} -> At(i).close > At(i).open
      [] key = "near_upper" -> At(i).close >= At(i).upper - (3 * (At(i).upper - At(i).mid)) \div 100
      [] key = "hour_upper" -> At(i).close >= At(i).upper - (20 * (At(i).upper - At(i).mid)) \div 100
      [] key = "above_ema" -> At(i).close > At(i).ema12

Changed(key, older) ==
    CASE key = "widen" -> BandWidth(older - 1) > BandWidth(older)
      [] key = "macd_down" -> At(older - 1).macd < At(older).macd
      [] key = "j_down" -> J(older - 1) < J(older)

Promised(key) ==
    LET d == describe_condition(key)
        good == {i \in d.samples : Satisfied(key, i)}
    IN  CASE key \in Changing -> \A i \in d.samples : i - 1 \in d.samples => Changed(key, i)
          [] key = "price_guard" -> good = d.samples
          [] OTHER -> Cardinality(good) >= d.minimum

-----------------------------------------------------------------------------
Init ==
    /\ kind \in DOMAIN Candles
    /\ history = <<>>
    /\ crossed = [last |-> "none", repeated |-> FALSE]
    /\ above = FALSE /\ met = FALSE /\ reported = FALSE

Fast(i) == IF kind = "ema" THEN At(i).ema12 ELSE At(i).k
Slow(i) == IF kind = "ema" THEN At(i).ema26 ELSE At(i).d
Cross == CASE kind = "macd" /\ is_golden_cross(0) -> "golden"
           [] kind = "macd" /\ is_death_cross(0) -> "death"
           [] OTHER -> "none"
Death == \/ kind = "ema" /\ is_ema_death_cross(0)
         \/ kind = "kdj" /\ kdj_is_death_cross(0)

Leading == kind \in {"ema", "kdj"} /\ Fast(0) > Slow(0)
Level == kind \in {"ema", "kdj"} /\ Fast(0) = Slow(0)

(* The ghosts take down what the factors report of the history they get.   *)
Note ==
    /\ crossed' = IF Cross' = "none" THEN crossed
                  ELSE [last |-> Cross', repeated |-> crossed.repeated \/ Cross' = crossed.last]
    /\ above' = (above \/ Leading')
    /\ met' = (above' /\ ~Leading' /\ (met \/ Level'))
    /\ reported' = (above' /\ ~Leading' /\ (reported \/ Death'))

(* A candle closes; the oldest is no longer read.                          *)
Close(c) ==
    /\ history' = IF Len(history) < Depth[kind] THEN <<c>> \o history
                  ELSE <<c>> \o SubSeq(history, 1, Depth[kind] - 1)
    /\ UNCHANGED kind
    /\ IF Len(history) >= Depth[kind] - 1 THEN Note ELSE UNCHANGED <<crossed, above, met, reported>>

Next == \E c \in Candles[kind] : Close(c)

Spec == Init /\ [][Next]_conditionVars

-----------------------------------------------------------------------------
TypeOK ==
    /\ kind \in DOMAIN Candles
    /\ history \in Seq(Candles[kind]) /\ Len(history) <= Depth[kind]
    /\ crossed \in [last : {"none", "golden", "death"}, repeated : BOOLEAN]
    /\ {above, met, reported} \subseteq BOOLEAN

Full == Len(history) = Depth[kind]
Fallen == Full /\ above /\ kind \in {"ema", "kdj"} /\ Fast(0) < Slow(0)

(* What describe_condition tells the user of a condition is what           *)
(* evaluate_condition decides, for every history of candles: the candles   *)
(* sampled, how many must satisfy the operation and the operation itself,  *)
(* whatever a factor's window_size means.                                  *)
CataloguePromisesWhatIsChecked ==
    Full => \A key \in KeysOf[kind] : Matched(key) = Promised(key)

(* Golden and death crosses of the MACD alternate: zero belongs to the     *)
(* same side for both.                                                     *)
MacdCrossesAlternate == ~crossed.repeated

(* EMA12 never falls from above EMA26 to below it without a death cross    *)
(* having been reported, however long the two were equal in between.       *)
EmaFallReported == Fallen /\ kind = "ema" => reported

(* K falls from above D to below it unreported only when the two were      *)
(* exactly equal in between.                                               *)
KdjFallSeenUnlessMet == Fallen /\ kind = "kdj" => reported \/ met

(* What is read is what is told, and a cross on the edge belongs to a side. *)
FactorsAsPromised ==
    /\ CataloguePromisesWhatIsChecked
    /\ MacdCrossesAlternate /\ EmaFallReported /\ KdjFallSeenUnlessMet

=============================================================================
