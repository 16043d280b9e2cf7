----------------------------- MODULE EntryScore -----------------------------
(***************************************************************************)
(* The entry score of a symbol (get_buy_by_multi_factor_score_info,        *)
(* business/strategy.py): what each part of it awards for the candles it   *)
(* reads.  The parts are added up and read no data of one another, so a    *)
(* history here is one of the candles of one kind of data.                 *)
(*                                                                         *)
(* Points are counted in halves.  Support and resistance (check_near_low), *)
(* 4h volume and the regression behind the trend of 18 MACD rows are left  *)
(* out; the last is a field of a candle, rising.                           *)
(***************************************************************************)
EXTENDS Factor

CONSTANTS
    Candles,    \* per kind, the candles that may arrive
    Depth       \* per kind, the candles its parts read

VARIABLE
    kind        \* which data this history is of

(* What a kind of data consists of, and how many candles are read of it.   *)
ReadOf == [ema |-> 6, macd |-> 3, kdj |-> 4, rsi_4h |-> 5, rsi_1h |-> 7, boll |-> 4, volume |-> 6]

ScoreAssumption ==
    /\ DOMAIN Candles = DOMAIN ReadOf
    /\ Candles["ema"] \subseteq [ema12 : Int, ema26 : Int]
    /\ Candles["macd"] \subseteq [macd : Int, rising : BOOLEAN]
    /\ Candles["kdj"] \subseteq [k : Int, d : Int, rsi : Int]
    /\ Candles["rsi_4h"] \subseteq [rsi : Int, high : Int, low : Int]
    /\ Candles["rsi_1h"] \subseteq [rsi : Int]
    /\ Candles["boll"] \subseteq [open : Int, close : Int, high : Int, low : Int, lower : Int, mid : Int, upper : Int]
    /\ \A c \in Candles["boll"] : c.mid <= c.upper
    /\ Candles["volume"] \subseteq [volume : Int, high : Int]
    /\ \A k \in DOMAIN ReadOf : Depth[k] \in Nat /\ Depth[k] >= ReadOf[k]

scoreVars == <<kind, history>>

If(condition, halves) == IF condition THEN halves ELSE 0

-----------------------------------------------------------------------------
(* The trend.                                                              *)

_get_adjust_score_4h_has_ema_uptrend ==
    LET trend == get_ema_trend(5)
    IN  (IF At(0).ema12 < At(1).ema12 THEN -6 ELSE 6)
        + If(At(0).ema26 < At(1).ema26, -10)
        + If(trend = "downward_spiral", -4) + If(trend = "parabolic_move", 4)

_get_adjust_score_1h_has_ema_uptrend ==
    (IF At(0).ema12 < At(1).ema12 THEN -3 ELSE 3)
    + If(At(0).ema26 < At(1).ema26, -5) + If(At(0).ema26 > At(1).ema26, 5)
    + If(get_ema_trend(7) = "downward_spiral", -10)

_get_adjust_score_1h_macd_trend ==
    If(At(0).rising, 10 + If(~(At(0).macd > At(1).macd /\ At(1).macd > At(2).macd), -6))

_get_adjust_score_4h_macd_uptrend ==
    If(At(0).macd > 0, 10 + If(is_continue_down(0, 3), -6))

-----------------------------------------------------------------------------
(* Momentum.                                                               *)

_get_adjust_score_kdj_4h_up ==
    CASE J(0) > 20 /\ J(0) <= 95 -> 20
      [] J(0) > 95 /\ J(0) <= 100 -> 2 * (10 - (J(0) - 95))
      [] OTHER -> 0

_get_adjust_score_kdj_4h ==
    If(get_uptrend(3) = "yes", _get_adjust_score_kdj_4h_up) + If(get_curr_golden_cross(0), 10)

_get_adjust_score_kdj_1h_no_death_cross ==
    10 + If(get_sideways(4), -4) + If(At(0).rsi > 70, -4)

_get_adjust_score_kdj_1h ==
    If(get_uptrend(2) = "yes", 10)
    + If(At(0).k >= At(0).d, _get_adjust_score_kdj_1h_no_death_cross)
    + If(J(1) > 100 /\ J(2) > 100, -10)
    + If(J(0) > 20 /\ J(1) <= 15, 10)
    + If(get_curr_golden_cross_by_threshold(20), 10)

_get_adjust_score_rsi_4h ==
    LET behind == {At(i).rsi : i \in 1 .. 4}
    IN  If(get_breakout(60), 6) + If(get_healthy_bound, 6) + If(rsi_uptrend, 6)
        + If(At(0).high > max_price(0, 4) /\ At(0).rsi <= Max(behind), -10)
        + If(At(0).low < min_price(0, 4) /\ At(0).rsi >= Min(behind), 10)
        + If(At(0).rsi < 30 /\ At(0).rsi > At(1).rsi, 10)

_get_adjust_score_rsi_1h ==
    If(get_rebound, 10) + If(rsi_uptrend, 10) + If(get_pullback_entry, 6)
    + If(get_breakout_from_low, 10)
    + If(At(0).rsi > 80 \/ At(1).rsi > 80, -10)
    + If(At(0).rsi >= 30 /\ At(1).rsi < 25, 10)

-----------------------------------------------------------------------------
(* Bands, candles and volume.                                              *)

_get_adjust_score_boll_4h ==
    If(At(0).close < At(0).upper /\ At(0).high > At(0).upper, -6)
    + If(At(0).close > At(0).upper /\ At(0).open > At(0).upper, -6)
    + If(At(0).high > At(0).upper /\ is_crosshairs(0), -10)

Overheated ==
    If(\E i \in {0, 1} : is_long_upper_shadow(i) /\ get_fake_breakout_by_bb(i), -10)
    + If(2 * At(0).close > At(0).upper + At(0).mid, -10)
    + If(get_first_breakout_by_bb, -40)

Back ==
    CASE At(1).close > At(1).lower /\ 2 * At(1).close <= At(1).lower + At(1).mid -> 10
      [] At(0).close < At(0).mid -> 16
      [] At(0).close >= At(0).mid /\ 10 * (At(0).close - At(0).mid) < At(0).upper - At(0).mid -> 10
      [] OTHER -> 0

_get_adjust_score_boll_1h == Overheated + If(is_along_lower_band(4, 2), -20) + Back

_get_adjust_score_kline_4h == If(is_long_upper_shadow(0), -4)
_get_adjust_score_kline_1h == If(get_corsshairs_and_long_lower_shadow(1), -6)

_get_adjust_score_vol_1h_up_13x ==
    If(VolumeAbove(5, 130), 10 + If(max_price(0, 5) >= At(0).high, -6))

-----------------------------------------------------------------------------
(* The entries of score_info that the data of this kind decides.           *)
score_info ==
    CASE kind = "ema" -> [stack_4h |-> If(has_ema_bullish_alignment, 20),
                          uptrend_4h |-> _get_adjust_score_4h_has_ema_uptrend,
                          stack_1h |-> If(has_ema_bullish_alignment, 10),
                          uptrend_1h |-> _get_adjust_score_1h_has_ema_uptrend]
      [] kind = "macd" -> [macd_1h |-> _get_adjust_score_1h_macd_trend,
                           macd_1d |-> If(At(0).macd > 0, 4),
                           macd_4h |-> _get_adjust_score_4h_macd_uptrend]
      [] kind = "kdj" -> [kdj_4h |-> _get_adjust_score_kdj_4h, kdj_1h |-> _get_adjust_score_kdj_1h]
      [] kind = "rsi_4h" -> [rsi_4h |-> _get_adjust_score_rsi_4h]
      [] kind = "rsi_1h" -> [rsi_1h |-> _get_adjust_score_rsi_1h]
      [] kind = "boll" -> [boll_4h |-> _get_adjust_score_boll_4h, boll_1h |-> _get_adjust_score_boll_1h,
                           kline_4h |-> _get_adjust_score_kline_4h, kline_1h |-> _get_adjust_score_kline_1h]
      [] kind = "volume" -> [vol_1h |-> _get_adjust_score_vol_1h_up_13x]

Full == Len(history) = Depth[kind]

(* Comparing two values of calculate_cv of which one is None.              *)
Fails == Full /\ kind = "kdj" /\ "error" \in {get_uptrend(3), get_uptrend(2)}

Init ==
    /\ kind \in DOMAIN Candles
    /\ history = <<>>

(* A candle closes; with a whole window the score is asked for.            *)
Close(c) ==
    /\ UNCHANGED kind
    /\ history' = IF Full THEN <<c>> \o SubSeq(history, 1, Depth[kind] - 1) ELSE <<c>> \o history

Next == \E c \in Candles[kind] : Close(c)

Spec == Init /\ [][Next]_scoreVars

-----------------------------------------------------------------------------
TypeOK ==
    /\ kind \in DOMAIN Candles
    /\ history \in Seq(Candles[kind]) /\ Len(history) <= Depth[kind]

(* A score cannot be computed only where K, D and J of a candle average to *)
(* zero or less: D at least four times K, with K and D on the same sides   *)
(* as at the neighbouring candle.                                          *)
FailsOnlyCollapsed ==
    Fails => \E i \in 0 .. 1 : /\ \E n \in {i, i + 1} : At(n).d >= 4 * At(n).k
                               /\ (Above(i) /\ Above(i + 1)) \/ (Below(i) /\ Below(i + 1))

(* The least and the most a part can award, whatever the candles: signals  *)
(* that contradict one another are never added up.                         *)
Bounds ==
    [stack_4h |-> <<0, 20>>, uptrend_4h |-> <<-20, 10>>, stack_1h |-> <<0, 10>>,
     uptrend_1h |-> <<-18, 8>>, macd_1h |-> <<0, 10>>, macd_1d |-> <<0, 4>>, macd_4h |-> <<0, 10>>,
     kdj_4h |-> <<0, 30>>, kdj_1h |-> <<-10, 40>>, rsi_4h |-> <<-10, 28>>, rsi_1h |-> <<-10, 36>>,
     boll_4h |-> <<-16, 0>>, boll_1h |-> <<-80, 16>>, kline_4h |-> <<-4, 0>>, kline_1h |-> <<-6, 0>>,
     vol_1h |-> <<0, 10>>]

PartsBounded ==
    Full /\ ~Fails =>
        LET info == score_info
        IN  \A p \in DOMAIN info : Bounds[p][1] <= info[p] /\ info[p] <= Bounds[p][2]

(* A price that loses points for being high in its band gets none for      *)
(* being back at its middle, unless the candle behind it was still low.    *)
HighIsNotBack ==
    Full /\ kind = "boll" /\ 2 * At(0).close > At(0).upper + At(0).mid /\ Back > 0
        => At(1).close > At(1).lower /\ 2 * At(1).close <= At(1).lower + At(1).mid

(* Where there is no score, and what a score can be.                       *)
EntryScoreSound == FailsOnlyCollapsed /\ PartsBounded /\ HighIsNotBack

=============================================================================
