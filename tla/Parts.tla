-------------------------------- MODULE Parts --------------------------------
(***************************************************************************)
(* The components that share no state with another, side by side: a        *)
(* behaviour is one of one of them, and the others rest where they are     *)
(* parked.  Each has its own constants; the names of two are shared.       *)
(***************************************************************************)
EXTENDS RuleGroup

CONSTANTS
    Senders, CallLimit, CallWindow, MaxAdmitted, MaxFailures,           \* RateLimit
    Requests, CodeLife, SessionLife, ZoneOffset, MaxLogins, MaxCodes,   \* Sessions
    Owners, ListSymbols, Quota, MaxIds, MaxLost, New,                   \* MonitorList
    Clients, UserOf, Strategies, MaxSaves,                              \* StrategyVersions
    Workers, TopSymbols, MaxHour,                                       \* TopPrice
    MaxOrders,                                                          \* Backtest
    ConditionCandles, ConditionDepth,                                   \* Conditions
    ScoreCandles, ScoreDepth,                                           \* EntryScore
    ExitCandles, ExitDepth, Tops,                                       \* ExitSignals
    Indicators, Need, IndicatorTake, IndicatorWindow, FetchLimit, StartClock, MaxClock,
    MaxQueue, MaxFaults, Limit, Unset,                                  \* ScoreView
    Symbols, Sweepers, MaxRecords, PageSize, Filters                    \* TradeRecords

VARIABLES
    part,       \* the component that runs
    counter, count, ttl, sender, admitted, quiet, slipped, redisFailures,
    registered, mailCode, invite, codes, session, tokens, request, loggedOut, vouched,
    row, snapshot,
    monitors, lastId, held, lock, adding, outlived,
    strategy, loaded, saving, saves, builtOn,
    listed, watched, enabled, hour, worker, topHistory, topQueue, pushes, discarded,
    orderNames, order, position, heldBy,
    kind, history, crossed, above, met, reported,
    scoreKind, scoreHistory,
    exitHistory, facts,
    clock, pairWatched, klines, indicatorRows, queue, jobKey, calcKey, consumer, check, faults, view, waiting,
    records, sweep, overlapped, tradeWatched, page, pages, asked, seen, shifted, missed

-----------------------------------------------------------------------------
RL == INSTANCE RateLimit WITH Limit <- CallLimit, Window <- CallWindow
SE == INSTANCE Sessions
MS == INSTANCE MonitorState
ML == INSTANCE MonitorList WITH Symbols <- ListSymbols
SV == INSTANCE StrategyVersions WITH User <- UserOf
TP == INSTANCE TopPrice WITH Symbols <- TopSymbols
BT == INSTANCE Backtest
CO == INSTANCE Conditions WITH Candles <- ConditionCandles, Depth <- ConditionDepth
ES == INSTANCE EntryScore WITH Candles <- ScoreCandles, Depth <- ScoreDepth, kind <- scoreKind, history <- scoreHistory
EX == INSTANCE ExitSignals WITH Candles <- ExitCandles, Depth <- ExitDepth, history <- exitHistory
VW == INSTANCE ScoreView WITH Take <- IndicatorTake, Window <- IndicatorWindow, None <- Unset, watched <- pairWatched,
                              rows <- indicatorRows
TR == INSTANCE TradeRecords WITH watched <- tradeWatched

ASSUME RateInstance == RL!RateAssumption
ASSUME SessionInstance == SE!SessionAssumption
ASSUME ListInstance == ML!ListAssumption
ASSUME StrategyInstance == MaxSaves \in Nat
ASSUME TopInstance == TP!TopAssumption
ASSUME BacktestInstance == MaxOrders \in Nat
ASSUME ConditionInstance == CO!ConditionAssumption
ASSUME ScoreInstance == ES!ScoreAssumption
ASSUME ExitInstance == EX!ExitAssumption
ASSUME ViewInstance == VW!ViewAssumption
ASSUME TradeInstance == TR!TradeAssumption

rateParts == <<counter, count, ttl, sender, admitted, quiet, slipped, redisFailures>>
sessionParts == <<registered, mailCode, invite, codes, session, tokens, request, loggedOut, vouched>>
stateParts == <<row, snapshot>>
listParts == <<monitors, lastId, held, lock, adding, outlived>>
strategyParts == <<strategy, loaded, saving, saves, builtOn>>
topParts == <<listed, watched, enabled, hour, worker, topHistory, topQueue, pushes, discarded>>
backtestParts == <<orderNames, order, position, heldBy>>
conditionParts == <<kind, history, crossed, above, met, reported>>
scoreParts == <<scoreKind, scoreHistory>>
exitParts == <<exitHistory, facts>>
viewParts == <<clock, pairWatched, klines, indicatorRows, queue, jobKey, calcKey, consumer, check, faults, view, waiting>>
tradeParts == <<records, sweep, overlapped, tradeWatched, page, pages, asked, seen, shifted, missed>>

PartsInit ==
    /\ part \in {"rules", "rate", "sessions", "state", "list", "strategies", "top", "backtest",
                 "conditions", "entry", "exit", "view", "records"}
    /\ part # "rules" => children = <<"true">> /\ evaluator = "rule" /\ op = "all"
    /\ part # "rate" => counter = "api"
    /\ part # "state" => row = [owner |-> "user", valid |-> TRUE,
                                config |-> [dir |-> "buy", model |-> "open", take |-> 0, stop |-> 0]]
    /\ part # "list" => held = {}
    /\ part # "top" => listed = {} /\ watched = [s \in TopSymbols |-> 0] /\ enabled = FALSE /\ topQueue = {}
    /\ part # "conditions" => kind = "ema"
    /\ part # "entry" => scoreKind = "ema"
    /\ part # "exit" => facts = {}
    /\ part # "records" => records = <<[symbol |-> CHOOSE s \in Symbols : TRUE, status |-> 0]>> /\ tradeWatched = {}
    /\ Init /\ RL!Init /\ SE!Init /\ MS!Init /\ ML!Init /\ SV!Init /\ TP!Init /\ BT!Init
    /\ CO!Init /\ ES!Init /\ EX!Init /\ VW!ViewInit /\ TR!Init

PartsNext ==
    /\ UNCHANGED part
    /\ IF part = "rules" THEN Next ELSE UNCHANGED vars
    /\ IF part = "rate" THEN RL!Next ELSE UNCHANGED rateParts
    /\ IF part = "sessions" THEN SE!Next ELSE UNCHANGED sessionParts
    /\ IF part = "state" THEN MS!Next ELSE UNCHANGED stateParts
    /\ IF part = "list" THEN ML!Next ELSE UNCHANGED listParts
    /\ IF part = "strategies" THEN SV!Next ELSE UNCHANGED strategyParts
    /\ IF part = "top" THEN TP!Next ELSE UNCHANGED topParts
    /\ IF part = "backtest" THEN BT!Next ELSE UNCHANGED backtestParts
    /\ IF part = "conditions" THEN CO!Next ELSE UNCHANGED conditionParts
    /\ IF part = "entry" THEN ES!Next ELSE UNCHANGED scoreParts
    /\ IF part = "exit" THEN EX!Next ELSE UNCHANGED exitParts
    /\ IF part = "view" THEN VW!ViewNext ELSE UNCHANGED viewParts
    /\ IF part = "records" THEN TR!Next ELSE UNCHANGED tradeParts

PartsSpec == PartsInit /\ [][PartsNext]_<<part, vars, rateParts, sessionParts, stateParts, listParts, strategyParts,
                                           topParts, backtestParts, conditionParts, scoreParts, exitParts,
                                           viewParts, tradeParts>>

-----------------------------------------------------------------------------
(* The properties of the components, each stated in its module.            *)
\* Types and bounds of the component that runs.
PartsTypeOK ==
    CASE part = "rules" -> TypeOK
      [] part = "rate" -> RL!TypeOK
      [] part = "sessions" -> SE!TypeOK
      [] part = "state" -> MS!TypeOK
      [] part = "list" -> ML!TypeOK
      [] part = "strategies" -> SV!TypeOK
      [] part = "top" -> TP!TypeOK
      [] part = "backtest" -> BT!TypeOK
      [] part = "conditions" -> CO!TypeOK
      [] part = "entry" -> ES!TypeOK
      [] part = "exit" -> EX!TypeOK
      [] part = "view" -> VW!ViewTypeOK
      [] part = "records" -> TR!TypeOK

\* The limiters count no refused call, are overrun by a bounded number of calls,
\* and end with their window unless a key slipped (check_rate_limit).
LimitsKept == part = "rate" => RL!LimitsKept
\* Each address has one account, opened with both codes; a token ends with its
\* six hours, a later login or its logout (apis/user.py, verify_token).
AccountsAndSessions == part = "sessions" => SE!AccountsAndSessions
\* A monitor shown as monitoring is one the checks look at and deliver for, and
\* a resumption that is offered is accepted (monitor_state, update_monitor).
ShownAsDecided == part = "state" => MS!ShownAsDecided
\* Overlapping requests keep the quota, one monitor per symbol, and no active
\* sell monitor without its position (add_symbol).
MonitorsKept == part = "list" => ML!MonitorsKept
\* A version of a strategy was built on the version before it (save_strategy).
NoSaveLost == part = "strategies" => SV!NoSaveLost
\* One notice per symbol, candle and source, and a candidate's only if nobody
\* monitors the symbol (send_msg, check_break_history_top_price).
HighsToldOnce == part = "top" => TP!HighsToldOnce
\* Some market brings the next purchase unless the first order was refused, no
\* second entry is made, and the buyer sells (check_in_by_model, check_out_by_model).
OrdersFollowModels == part = "backtest" => BT!OrdersFollowModels
\* The catalogue tells what is evaluated; no cross is reported twice, or missed
\* but across an equality (describe_condition, models/factor.py).
FactorsAsPromised == part = "conditions" => CO!FactorsAsPromised
\* The entry score fails on a collapsed KDJ alone and no part leaves its range;
\* the exit score needs two signals, and profit is taken on a shrinking MACD at a
\* new high only (business/strategy.py).
ScoresSound == (part = "entry" => ES!EntryScoreSound) /\ (part = "exit" => EX!ExitSignalsSound)
\* A score reads the same candle in every table, but for the newest rows (_align_data).
TornOnlyAtZero == part = "view" => VW!TornOnlyAtZero
\* Reading to the last page misses nothing unless rows shifted, and sweeps and exit
\* signals leave alone what has ended or was overtaken (trade_signal_recorder.py).
RecordsKept == [][TR!EndedStaysEnded /\ TR!OvertakenStaysOpen /\ TR!NothingSkipped']_tradeParts
=============================================================================
