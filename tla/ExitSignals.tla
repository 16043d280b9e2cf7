---------------------------- MODULE ExitSignals -----------------------------
(***************************************************************************)
(* The exit signals of a symbol (business/strategy.py): the three parts    *)
(* that get_exit_by_multi_factor_score_info reports, and the order in      *)
(* which get_sell_direction takes them.                                    *)
(*                                                                         *)
(* The history is of 1h candles with their indicators; what the 4h and the *)
(* daily data say is a set of facts.                                       *)
(***************************************************************************)
EXTENDS Factor

CONSTANTS
    Candles,    \* the 1h candles that may arrive
    Depth,      \* how many are read
    Tops        \* bound: the candles searched for a double top, 10 in the code

VARIABLE facts      \* what the other intervals say

(* Three candles are read at least, and no more than the newest and the    *)
(* channel behind it.                                                      *)
ExitAssumption ==
    /\ Candles \subseteq [high : Int, close : Int, volume : Int, rsi : Int, macd : Int, k : Int, d : Int,
                          ema12 : Int, ema26 : Int, mid : Int, lower : Int, upper : Int]
    /\ Depth \in 3 .. 26 /\ Tops \in 0 .. Depth

exitVars == <<history, facts>>

Facts == {"engulfed_4h", "along_upper_4h", "macd_4h_downtrend", "kdj_1d_over_bought", "kdj_4h_over_bought"}

-----------------------------------------------------------------------------
(* MACD DIF, the distance of the averages.                                 *)
get_dif_downtrend == At(1).ema12 - At(1).ema26 > At(0).ema12 - At(0).ema26

(* The newest candles that stay below the channel behind the newest.       *)
UnderChannel == {i \in {0, 1} : At(i).high < max_price(0, 25)}

(* Mutant: as the docstring has it, no new high nearby.                    *)
ShrinksUnderHigh ==
    /\ is_near_upper(0, 20) /\ At(0).rsi < 75 /\ At(0).macd < At(1).macd
    /\ UnderChannel = {0, 1}
    /\ "along_upper_4h" \notin facts

(* Neither of the two newest candles may be below the channel.             *)
ShrinksAtUpper ==
    /\ is_near_upper(0, 20) /\ At(0).rsi < 75 /\ At(0).macd < At(1).macd
    /\ UnderChannel = {}
    /\ "along_upper_4h" \notin facts

Overbought ==
    /\ is_near_upper(0, 10) /\ At(0).rsi > 80
    /\ VolumeAbove(5, 130)
    /\ 0 \in UnderChannel

is_bb_lower2mid_taking_profit ==
    /\ At(2).high < At(2).mid /\ ~is_near_mid(2, 20)
    /\ is_near_mid(1, 20)
    /\ At(0).macd < 0 \/ J(0) > 80 \/ At(0).rsi < 75

(* The first of these that holds.                                          *)
_get_sell_direction_active_taking_profit ==
    IF J(0) > 90 /\ get_dif_downtrend THEN "overheated"
    ELSE IF Overbought THEN "overbought"
    ELSE IF ShrinksAtUpper THEN "shrinks"
    ELSE IF is_bb_lower2mid_taking_profit THEN "lower_to_mid"
    ELSE IF has_double_top(Tops) THEN "double_top"
    ELSE IF "engulfed_4h" \in facts THEN "engulfed" ELSE "none"

_get_sell_direction_stop_loss == IF is_ema_death_cross(0) THEN "death_cross" ELSE "none"

-----------------------------------------------------------------------------
(* The exit score.                                                         *)

Weights ==
    [macd_4h_downtrend |-> 10, kdj_1h_j_80_downtrend |-> 10, kdj_1d_over_bought |-> 15,
     kdj_4h_over_bought |-> 15, vol_1h_stagflation |-> 15]

score_info ==
    (facts \cap DOMAIN Weights)
    \cup {s \in {"kdj_1h_j_80_downtrend"} : J(1) > 80 /\ J(1) < J(2)}
    \cup {s \in {"vol_1h_stagflation"} : VolumeAbove(3, 200) /\ At(0).high < max_price(0, 3)}

sum_score == MapThenSumSet(LAMBDA s : Weights[s], score_info)

(* The signals that the text names, or none.                               *)
_get_exit_score == IF sum_score >= 20 THEN score_info ELSE {}

(* The score read back from the text, in hundredths.                       *)
_calculate_exit_score == MapThenSumSet(LAMBDA s : Weights[s], _get_exit_score)

get_sell_direction ==
    IF _get_sell_direction_active_taking_profit # "none" THEN "take_profit"
    ELSE IF _get_sell_direction_stop_loss # "none" THEN "stop_loss"
    ELSE IF _get_exit_score # {} THEN "score" ELSE "hold"

-----------------------------------------------------------------------------
Init == history = <<>> /\ facts \in SUBSET Facts

Full == Len(history) = Depth

Close(c) ==
    /\ history' = IF Full THEN <<c>> \o SubSeq(history, 1, Depth - 1) ELSE <<c>> \o history
    /\ UNCHANGED facts

Next == \E c \in Candles : Close(c)

Spec == Init /\ [][Next]_exitVars

-----------------------------------------------------------------------------
TypeOK ==
    /\ history \in Seq(Candles) /\ Len(history) <= Depth
    /\ facts \subseteq Facts

(* The exit score speaks exactly when at least two of its five signals do, *)
(* whatever their weights, and then something says to sell.                *)
ExitScoreNeedsTwo ==
    LET two == Cardinality(score_info) >= 2
    IN  Full => /\ two <=> _get_exit_score # {}
                /\ two <=> _calculate_exit_score >= 20
                /\ two => get_sell_direction # "hold"

(* Taking profit because the MACD shrinks happens only at the highest      *)
(* prices of the channel: the newest candle and the one behind it are both *)
(* as high as any behind the newest.                                       *)
ShrinksOnlyAtNewHigh ==
    Full /\ _get_sell_direction_active_taking_profit = "shrinks"
        => \A i \in 1 .. Depth - 1 : At(i).high <= At(0).high /\ At(i).high <= At(1).high

(* has_double_top reports no candles, whatever peaks they have.            *)
DoubleTopNeverReported == Full => ~has_double_top(Tops)

(* When the exit signals speak.                                            *)
ExitSignalsSound == ExitScoreNeedsTwo /\ ShrinksOnlyAtNewHigh /\ DoubleTopNeverReported

=============================================================================
