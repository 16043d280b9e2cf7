------------------------------ MODULE MCParts -------------------------------
(***************************************************************************)
(* An instance of Parts for TLC: the values of its constants that are not  *)
(* in the configuration.                                                   *)
(***************************************************************************)
EXTENDS Parts, TLC

CONSTANTS c1, c2, c3

ClientUser == c1 :> "user" @@ c2 :> "user" @@ c3 :> "other"
Asked == [owner : {"user"}, symbol : {"b", "e"}, sell : {FALSE}]
         \cup [owner : {"root"}, symbol : {"b"}, sell : {TRUE}]
CandlesNeeded == [macd |-> 4, kdj |-> 3]
CandlesTaken == [macd |-> 2, kdj |-> 2]
CandlesRead == [macd |-> 1, kdj |-> 2]
AllOrOpen == {-1, 1}

-----------------------------------------------------------------------------
(* The candles of the factors' users.                                      *)

\* Per kind of condition, and how many its conditions read; the prices of the
\* bands lie on either side of every tolerance.
SomeConditionCandles ==
    [candle |-> [open : 1 .. 2, close : 1 .. 2],
     width |-> [upper : 1 .. 5, lower : {0}],
     band |-> {[upper |-> 1100, mid |-> 1000, close |-> p, high |-> 1112] :
                   p \in {990, 1000, 1079, 1080, 1096, 1097, 1111, 1112}}
              \cup {[upper |-> 1100, mid |-> 1000, close |-> 1000, high |-> p] : p \in {1188, 1189}},
     ema |-> [ema12 : 0 .. 2, ema26 : {1}, close : 0 .. 2],
     macd |-> [macd : -2 .. 2],
     kdj |-> [k : 0 .. 2, d : 0 .. 2]]
SomeConditionDepth == [candle |-> 5, width |-> 6, band |-> 4, ema |-> 4, macd |-> 3, kdj |-> 3]

\* Per part of the entry score: indicators on either side of its thresholds.
SomeScoreCandles ==
    [ema |-> [ema12 : 0 .. 1, ema26 : 0 .. 1],
     macd |-> [macd : -1 .. 2, rising : BOOLEAN],
     kdj |-> {[k |-> p[1], d |-> p[2], rsi |-> p[3]] :
                  p \in {<<2, 9, 30>>, <<5, 10, 30>>, <<18, 14, 50>>, <<90, 80, 75>>, <<90, 80, 50>>,
                         <<60, 70, 50>>, <<60, 60, 50>>, <<98, 97, 75>>, <<96, 96, 50>>}},
     rsi_4h |-> {[rsi |-> p[1], high |-> p[2], low |-> p[3]] :
                  p \in {<<20, 2, 1>>, <<28, 2, 0>>, <<52, 2, 1>>, <<62, 2, 0>>, <<62, 3, 1>>, <<28, 3, 1>>}},
     rsi_1h |-> [rsi : {10, 20, 52, 85}],
     boll |-> {[open |-> p[1], close |-> p[2], high |-> p[3], low |-> p[4], lower |-> 80, mid |-> 100, upper |-> 120] :
                  p \in {<<81, 79, 82, 78>>, <<80, 80, 90, 70>>, <<79, 88, 89, 78>>, <<88, 95, 96, 87>>,
                         <<95, 101, 103, 94>>, <<101, 108, 109, 100>>, <<108, 112, 124, 107>>,
                         <<112, 117, 119, 111>>, <<117, 119, 125, 116>>, <<121, 125, 126, 120>>,
                         <<121, 121, 126, 116>>, <<101, 101, 102, 90>>}},
     volume |-> [volume : {1, 3}, high : 1 .. 2]]
SomeScoreDepth == [ema |-> 6, macd |-> 3, kdj |-> 4, rsi_4h |-> 5, rsi_1h |-> 7, boll |-> 4, volume |-> 6]

\* A fall under the lower band, a rise over the middle, three tops.
SomeExitCandles ==
    {[high |-> p[1], close |-> p[2], volume |-> p[3], rsi |-> p[4], macd |-> p[5], k |-> p[6], d |-> p[7],
      ema12 |-> p[8], ema26 |-> 5, mid |-> 100, lower |-> 80, upper |-> 120] :
        p \in {<<95, 90, 1, 40, -1, 30, 40, 4>>, <<103, 101, 1, 60, 1, 60, 50, 5>>, <<119, 118, 2, 70, 1, 88, 85, 7>>,
               <<119, 118, 9, 85, 3, 86, 80, 6>>, <<122, 119, 9, 74, 2, 84, 83, 6>>}}
=============================================================================
