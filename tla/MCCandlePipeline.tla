--------------------------- MODULE MCCandlePipeline ---------------------------
(* All four indicators, windows of one to three candles.  As in the code   *)
(* the MACD waits longest, its first row lies far behind the newest        *)
(* candle, and the Bollinger bands wait for fewest candles.                *)
EXTENDS CandlePipeline

MCNeed == [i \in Indicators |-> CASE i = "macd" -> 5 [] i = "boll" -> 3 [] OTHER -> 4]
MCTake == [i \in Indicators |-> IF i \in {"macd", "kdj"} THEN 3 ELSE 2]
MCWindow == [i \in Indicators |-> CASE i = "macd" -> 1 [] i = "kdj" -> 3 [] OTHER -> 2]
=============================================================================
