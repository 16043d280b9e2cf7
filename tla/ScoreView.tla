----------------------------- MODULE ScoreView ------------------------------
(***************************************************************************)
(* The score of a symbol as the API gives it (SymbolScoreView, apis/       *)
(* plot.py, and prepare_data, business/strategy.py), beside the pipeline   *)
(* that writes the tables.  The view reads the newest rows of one table    *)
(* after the other, each with a query of its own and an await in between,  *)
(* and keeps the candles that all of them have.                            *)
(*                                                                         *)
(* Of the two intervals that are scored one is modelled: they share no     *)
(* rows and are aligned each for itself.                                   *)
(***************************************************************************)
EXTENDS CandlePipeline

CONSTANT Limit      \* the rows a query returns at most, 30 in the code

VARIABLES
    view,       \* what the request has read, by table
    waiting     \* the tables it has yet to read

ViewAssumption == ConstantsAssumption /\ Limit \in Nat

viewVars == <<vars, view, waiting>>

InTurn(table) == IF table \in Indicators THEN <<table>> ELSE <<>>
Order == InTurn("macd") \o InTurn("kdj") \o InTurn("rsi") \o InTurn("boll")
NotRead == [t \in {"kline"} \cup Indicators |-> <<>>]
NewestRows(table) == SubSeq(table, Max({1, Len(table) - Limit + 1}), Len(table))

ViewInit ==
    /\ Init
    /\ view = NotRead
    /\ waiting = <<>>

_calculate_symbol_score ==
    /\ waiting = <<>>
    /\ view' = [NotRead EXCEPT !["kline"] = NewestRows(klines)]
    /\ waiting' = Order
    /\ UNCHANGED vars

ReadNext ==
    /\ waiting # <<>>
    /\ view' = [view EXCEPT ![Head(waiting)] = NewestRows(rows[Head(waiting)])]
    /\ waiting' = Tail(waiting)
    /\ UNCHANGED vars

ViewNext ==
    \/ Next /\ UNCHANGED <<view, waiting>>
    \/ _calculate_symbol_score \/ ReadNext

ViewSpec == ViewInit /\ [][ViewNext]_viewVars

-----------------------------------------------------------------------------
Stamps(table) == {r.ts : r \in ToSet(table)}
RowOf(table, ts) == CHOOSE r \in ToSet(table) : r.ts = ts

(* Every table was read and none was empty; else the answer is "No data    *)
(* found."                                                                 *)
Answered == waiting = <<>> /\ \A t \in DOMAIN view : view[t] # <<>>

(* Mutant: the newest row of each table is taken for the same candle.      *)
AlignByPlace ==
    LET newest == Max(Stamps(view["kline"]))
        shared == Min({Len(view[t]) : t \in DOMAIN view})
    IN  newest - shared + 1 .. newest

(* The candles that the klines and all the indicators have.                *)
_align_data ==
    {ts \in Stamps(view["kline"]) : \A i \in Indicators : ts \in Stamps(view[i])}

ViewTypeOK ==
    /\ TypeOK
    /\ \A t \in DOMAIN view : Len(view[t]) <= Limit
    /\ waiting \in {SubSeq(Order, n, Len(Order)) : n \in 1 .. Len(Order) + 1}

(* However the pipeline writes between the reads, what is scored are       *)
(* candles in a row, each with a row of every table; only the newest of    *)
(* them may have been read before its close in one table and after it in   *)
(* another, and every older one has closing prices throughout              *)
(* (business/strategy.py:48-86, apis/plot.py:92-180).                      *)
TornOnlyAtZero ==
    Answered =>
        LET aligned == _align_data
        IN  \A ts \in aligned :
               /\ \A i \in Indicators : ts \in Stamps(view[i])
               /\ ts # Max(aligned) =>
                     /\ ts + 1 \in aligned
                     /\ RowOf(view["kline"], ts).final
                     /\ \A i \in Indicators \ {"boll"} : RowOf(view[i], ts).settled
=============================================================================
