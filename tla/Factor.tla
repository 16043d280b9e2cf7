------------------------------- MODULE Factor -------------------------------
(***************************************************************************)
(* The factors: what models/factor.py, with utils/indicators.py, reads of  *)
(* the newest candles of a symbol.  Everything that scores, checks or      *)
(* describes a strategy is built from these.                               *)
(*                                                                         *)
(* Index 0 is the newest candle, as in the lists of the code; a candle has *)
(* the fields its readers look at.  Tolerances are in hundredths, and      *)
(* quotients are compared by multiplying out.                              *)
(***************************************************************************)
EXTENDS Integers, Sequences, FiniteSets, FiniteSetsExt

VARIABLE history    \* the candles of one symbol and interval, newest first

At(i) == history[i + 1]
Window(start, size) == start .. start + size - 1
Distance(a, b) == IF a > b THEN a - b ELSE b - a
Sum(first, last, value) ==
    LET sum[i \in first - 1 .. last] == IF i < first THEN 0 ELSE sum[i - 1] + value[i]
    IN  sum[last]

-----------------------------------------------------------------------------
(* Candles.                                                                *)

(* As many candles behind this one as there are, up to size.               *)
Behind(index, size) == index + 1 .. Min({index + size, Len(history) - 1})

(* get_donchian_channel                                                    *)
max_price(index, size) == Max({At(i).high : i \in Behind(index, size)})
min_price(index, size) == Min({At(i).low : i \in Behind(index, size)})

is_bullish_k(i) == At(i).open < At(i).close

Body(i) == Distance(At(i).open, At(i).close)
UpperShadow(i) == At(i).high - Max({At(i).open, At(i).close})
LowerShadow(i) == Min({At(i).open, At(i).close}) - At(i).low
WholeRange(i) == At(i).high - At(i).low

is_long_upper_shadow(i) == 2 * UpperShadow(i) > 3 * Body(i)
is_crosshairs(i) == 100 * Body(i) < 15 * WholeRange(i)
get_corsshairs_and_long_lower_shadow(i) ==
    /\ is_crosshairs(i)
    /\ 10 * LowerShadow(i) > 12 * UpperShadow(i)
    /\ 10 * LowerShadow(i) > 3 * WholeRange(i)

Peaks(total) == {i \in 1 .. total - 2 : At(i).high > At(i - 1).high /\ At(i).high > At(i + 1).high}

(* The first and the second peak are both set at the newest one, where the *)
(* search ends.                                                            *)
has_double_top(total) ==
    LET newest == IF Peaks(total) = {} THEN 0 ELSE At(Min(Peaks(total))).high
    IN  \E first, second \in {newest} : first # 0 /\ second # 0 /\ first < second

-----------------------------------------------------------------------------
(* Bollinger bands.                                                        *)

is_curr_price_away_from_bbupper(i, tolerance) ==
    /\ At(i).close >= At(i).upper
    /\ 100 * (At(i).close - At(i).upper) > tolerance * At(i).upper

is_high_price_away_from_bbupper(i, tolerance) ==
    /\ At(i).high >= At(i).upper
    /\ 100 * (At(i).high - At(i).upper) > tolerance * At(i).upper

is_near_upper(i, tolerance) ==
    /\ At(i).close >= At(i).mid
    /\ 100 * (At(i).upper - At(i).close) <= tolerance * (At(i).upper - At(i).mid)

is_near_mid(i, tolerance) ==
    /\ At(i).close >= At(i).lower
    /\ 100 * Distance(At(i).close, At(i).mid) <= tolerance * (At(i).upper - At(i).lower)

is_along_upper_band(n, tolerance) ==
    2 * Cardinality({i \in 0 .. n - 1 : is_near_upper(i, tolerance)}) > n

(* Hugging the lower band, or piercing it.                                 *)
is_along_lower_band(n, tolerance) ==
    LET low == {i \in 0 .. n - 1 : /\ At(i).close <= At(i).mid
                                   /\ \/ 100 * (At(i).close - At(i).lower) <= tolerance * (At(i).mid - At(i).lower)
                                      \/ At(i).low < At(i).lower}
    IN  10 * Cardinality(low) > 7 * n

BandWidth(i) == At(i).upper - At(i).lower

(* One comparison more than window_size says.                              *)
is_boll_widen(index, size) ==
    \A i \in index .. index + size : BandWidth(i) > BandWidth(i + 1)

get_fake_breakout_by_bb(i) == At(i).high > At(i).upper /\ At(i).close < At(i).upper

(* analyze_list_trend, of a field of the newest candles read oldest first: *)
(* the sign of the regression's slope, and how often the value went up and *)
(* down.                                                                   *)
Trend(size, value) ==
    LET slope == Sum(0, size - 1, [i \in 0 .. size - 1 |-> (size - 1 - 2 * i) * value[i]])
        ups == Cardinality({i \in 0 .. size - 2 : value[i] > value[i + 1]})
        downs == Cardinality({i \in 0 .. size - 2 : value[i] < value[i + 1]})
        change == value[0] - value[size - 1]
    IN  CASE slope > 0 /\ ups >= downs -> "parabolic_move"
          [] slope < 0 /\ downs >= ups -> "downward_spiral"
          [] OTHER -> IF change > 0 THEN "modest_increase"
                      ELSE IF change < 0 THEN "modest_decline" ELSE "range_bound"

get_first_breakout_by_bb ==
    /\ At(0).close >= At(0).mid
    /\ ~(At(1).low < At(1).upper /\ At(1).upper < At(1).high)
    /\ Trend(3, [i \in 0 .. 2 |-> At(i).high]) = "parabolic_move"
    /\ is_near_upper(0, 20)

-----------------------------------------------------------------------------
(* Moving averages and volume.                                             *)

has_ema_bullish_alignment == At(0).ema12 >= At(0).ema26
is_ema12_continue_lt_close(index, size) ==
    \A i \in Window(index, size) : At(i).ema12 < At(i).close

(* get_ema_trend leaves one candle of its window out.                      *)
get_ema_trend(size) == Trend(size - 1, [i \in 0 .. size - 2 |-> At(i).ema12 - At(i).ema26])

is_ema_death_cross(i) == At(i).ema12 <= At(i).ema26 /\ At(i + 1).ema12 > At(i + 1).ema26

(* The volume against the mean of those behind it, times rate hundredths.  *)
VolumeAbove(size, rate) ==
    LET n == Cardinality(Behind(0, size))
    IN  100 * n * At(0).volume > rate * Sum(1, n, [i \in 1 .. n |-> At(i).volume])

-----------------------------------------------------------------------------
(* MACD.                                                                   *)

is_golden_cross(i) == At(i).macd >= 0 /\ At(i + 1).macd < 0
is_death_cross(i) == At(i).macd < 0 /\ At(i + 1).macd >= 0

is_continue_down(index, size) ==
    \A i \in index + 1 .. index + size - 1 : At(i).macd > At(i - 1).macd

-----------------------------------------------------------------------------
(* KDJ.                                                                    *)

J(i) == 3 * At(i).k - 2 * At(i).d

is_j_continue_down(index, size) ==
    \A i \in index + 1 .. index + size : J(i) > J(i - 1)

kdj_is_death_cross(i) == At(i + 1).k > At(i + 1).d /\ At(i).k < At(i).d
get_curr_golden_cross(i) == At(i + 1).k < At(i + 1).d /\ At(i).k > At(i).d

get_curr_golden_cross_by_threshold(threshold) ==
    /\ \A x \in {At(1).k, At(1).d, J(1)} : x <= threshold
    /\ get_curr_golden_cross(0)

(* get_sideways over analyze_crossovers, where a touch is a cross already. *)
get_sideways(size) ==
    /\ \E i \in 0 .. size - 2 : At(i).k >= At(i).d /\ At(i + 1).k < At(i + 1).d
    /\ \E i \in 0 .. size - 2 : At(i).k <= At(i).d /\ At(i + 1).k > At(i + 1).d

Total(i) == At(i).k + At(i).d + J(i)

(* calculate_cv has a value only over a positive mean.                     *)
CvKnown(i) == Total(i) > 0

(* The coefficient of variation of candle i is at most that of candle m.   *)
CvAtMost(i, m) ==
    LET Square(x, n) == (3 * x - Total(n)) * (3 * x - Total(n))
        Squares(n) == Square(At(n).k, n) + Square(At(n).d, n) + Square(J(n), n)
    IN  Squares(i) * Total(m) * Total(m) <= Squares(m) * Total(i) * Total(i)

Above(i) == At(i).k >= At(i).d
Below(i) == At(i).k <= At(i).d

(* get_uptrend of two neighbours; two unknown values cannot be compared.   *)
Rising(i) ==
    LET above == Above(i) /\ Above(i + 1)
        below == Below(i) /\ Below(i + 1)
    IN  CASE (above \/ below) /\ ~(CvKnown(i) /\ CvKnown(i + 1)) -> "error"
          [] above /\ CvAtMost(i, i + 1) -> "no"
          [] below /\ ~CvAtMost(i, i + 1) -> "no"
          [] Above(i + 1) /\ Below(i) -> "no"
          [] OTHER -> "yes"

(* The pairs are looked at from the oldest on, until one decides.          *)
get_uptrend(size) ==
    LET decided == {i \in 0 .. size - 2 : Rising(i) # "yes"}
    IN  IF decided = {} THEN "yes" ELSE Rising(Max(decided))

-----------------------------------------------------------------------------
(* RSI.                                                                    *)

rsi_uptrend == At(0).rsi > At(1).rsi /\ At(1).rsi > At(2).rsi

get_rebound ==
    /\ At(0).rsi > At(1).rsi
    /\ At(1).rsi < 40
    /\ At(1).rsi < At(2).rsi

get_breakout(threshold) == At(0).rsi > threshold /\ \E i \in 0 .. 2 : At(i).rsi < threshold
get_breakout_from_low == get_breakout(50) /\ \E i \in 0 .. 4 : At(i).rsi < 40
get_healthy_bound == At(0).rsi > 45 /\ At(0).rsi < 65
get_pullback_entry ==
    /\ At(0).rsi < 60
    /\ \E i \in 0 .. 6 : At(i).rsi > 65
    /\ At(6).rsi < 55
=============================================================================
