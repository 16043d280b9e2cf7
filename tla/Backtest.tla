------------------------------ MODULE Backtest ------------------------------
(***************************************************************************)
(* The backtest of the two swing models (business/backtest,                *)
(* business/strategy.py, models/strategy.py): bar by bar the strategy asks *)
(* the models for an entry or an exit, and which model it asks depends on  *)
(* the names of its last two orders.  The broker fills a market order      *)
(* later, or refuses a purchase for want of cash.                          *)
(*                                                                         *)
(* What the indicators of a bar say is a record of the verdicts the models *)
(* are composed of; the candle patterns themselves are in Conditions.      *)
(***************************************************************************)
EXTENDS Integers, Sequences

CONSTANT MaxOrders      \* bound: orders of one run

VARIABLES
    orderNames,     \* order_model_name_list
    order,          \* the order the broker has: "buy", "sell" or "none"
    position,       \* an amount is held
    heldBy          \* ghost: the name of the order that bought it

backtestVars == <<orderNames, order, position, heldBy>>

(* A model's name, with what is_out or is_in_twice put behind it.          *)
Name(model, tail) == [model |-> model, tail |-> tail]
None == Name("", "")
TopRise == Name("top_rise", "")
Oscillation == Name("oscillation", "")

Market ==
    [entry : BOOLEAN, exit : BOOLEAN,       \* the rules TOP_RISE
     marks : 1 .. 2,                        \* marks of an oscillation: candles, band, MACD, RSI
     newHigh : BOOLEAN, newLow : BOOLEAN,   \* against the last twenty candles
     above : BOOLEAN, below : BOOLEAN,      \* the extreme lies beyond its band
     away : BOOLEAN, nearUpper : BOOLEAN,   \* of the upper band, now and in ten candles
     force : BOOLEAN]                       \* volume, MACD or RSI confirm

Init ==
    /\ orderNames = <<>>
    /\ order = "none"
    /\ position = FALSE
    /\ heldBy = None

-----------------------------------------------------------------------------
(* The models.                                                             *)

TopRiseIn(m) == IF m.entry THEN TopRise ELSE None

TopRiseTwice(m) ==
    IF ~m.away /\ m.newHigh /\ m.nearUpper /\ m.force THEN Name("top_rise", "twice") ELSE None

TopRiseOut(m) == IF m.exit THEN TopRise ELSE None

OscillationIn(m) == IF m.marks >= 2 THEN Oscillation ELSE None

OscillationOut(m) ==
    IF m.newHigh /\ m.above THEN Name("oscillation", "up")
    ELSE IF m.newLow /\ m.below THEN Name("oscillation", "down") ELSE None

Either(first, second) == IF first # None THEN first ELSE second

(* check_in_by_model: what to buy after the last two orders.  After a      *)
(* first order on a model's name alone it has no answer.                   *)
AfterFirst(last, m) ==
    IF last.model = "top_rise" THEN OscillationIn(m)
    ELSE IF last.tail \in {"down", "up"} THEN TopRiseIn(m) ELSE None

AfterMore(last, last2, m) ==
    IF last2.model = "top_rise" /\ last = Name("oscillation", "up") THEN TopRiseTwice(m)
    ELSE IF last.model = "top_rise" THEN OscillationIn(m)
    ELSE Either(TopRiseIn(m), OscillationIn(m))

CheckIn(last, last2, m) ==
    IF last = None THEN Either(TopRiseIn(m), OscillationIn(m))
    ELSE IF last2 = None THEN AfterFirst(last, m) ELSE AfterMore(last, last2, m)

(* Mutant: the exit is not asked of the model that bought.                 *)
CheckOutOfAny(last, m) == Either(TopRiseOut(m), OscillationOut(m))

(* check_out_by_model: only the model of the last order is asked.          *)
CheckOut(last, m) ==
    IF last.model = "top_rise" THEN TopRiseOut(m) ELSE OscillationOut(m)

-----------------------------------------------------------------------------
(* The strategy and the broker.                                            *)

Recent(n) == IF Len(orderNames) >= n THEN orderNames[Len(orderNames) - n + 1] ELSE None
BuySignal(m) == CheckIn(Recent(1), Recent(2), m)
SellSignal(m) == CheckOut(Recent(1), m)

Place(side, name) ==
    /\ name # None
    /\ Len(orderNames) < MaxOrders
    /\ order' = side
    /\ orderNames' = Append(orderNames, name)
    /\ UNCHANGED <<position, heldBy>>

(* next: nothing while an order is under way; any answer of the models is  *)
(* taken for a signal.                                                     *)
NextBar(m) ==
    /\ order = "none"
    /\ IF position THEN Place("sell", SellSignal(m)) ELSE Place("buy", BuySignal(m))

(* notify_order: Completed.                                                *)
Filled ==
    /\ order # "none"
    /\ order' = "none"
    /\ position' = (order = "buy")
    /\ heldBy' = IF order = "buy" THEN Recent(1) ELSE None
    /\ UNCHANGED orderNames

(* Canceled, Margin or Rejected: the name of the order stays in the list.  *)
Refused ==
    /\ order = "buy"
    /\ order' = "none"
    /\ UNCHANGED <<orderNames, position, heldBy>>

Next == (\E m \in Market : NextBar(m)) \/ Filled \/ Refused

Spec == Init /\ [][Next]_backtestVars

-----------------------------------------------------------------------------
TypeOK ==
    /\ \A n \in DOMAIN orderNames :
          orderNames[n] \in [model : {"top_rise", "oscillation"}, tail : {"", "up", "down", "twice"}]
    /\ Len(orderNames) <= MaxOrders
    /\ order \in {"none", "buy", "sell"}
    /\ position \in BOOLEAN
    /\ heldBy \in {orderNames[n] : n \in DOMAIN orderNames} \cup {None}

(* Whatever was refused before, without a position some market brings the  *)
(* next purchase; only when the very first order, one on an oscillation,   *)
(* was refused, the strategy asks no model any more: after a name without  *)
(* "up" or "down" the second branch of check_in_by_model has no answer     *)
(* (business/strategy.py:164-180).                                         *)
TradesUnlessFirstRefused ==
    order = "none" /\ ~position /\ orderNames # <<Oscillation>> =>
        \E m \in Market : BuySignal(m) # None

(* The branch for a second entry after a consolidation (is_in_twice) is    *)
(* never taken: a name ending in "up" is a sale, which the model that      *)
(* bought decides on, so the order before it was no rise                   *)
(* (business/strategy.py:182-188, 283-291).                                *)
NeverEntersTwice ==
    \A n \in DOMAIN orderNames : orderNames[n].tail # "twice"

(* A position is only sold by the model that bought it, whichever orders   *)
(* were refused in between (backtest_strategy.py:88-116, 202-203).         *)
SoldByItsBuyer == order = "sell" => Recent(1).model = heldBy.model

(* Which model decides on the next order.                                  *)
OrdersFollowModels == TradesUnlessFirstRefused /\ NeverEntersTwice /\ SoldByItsBuyer

=============================================================================
