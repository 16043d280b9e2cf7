--------------------------- MODULE CandlePipeline ---------------------------
(***************************************************************************)
(* The candles and indicator rows of one symbol at one interval            *)
(* (msgqueue/tasks/dw.py) and the strategy check that reads them           *)
(* (msgqueue/tasks/strategy.py).                                           *)
(*                                                                         *)
(* The scheduler and the amf consumer put save_kline_job and               *)
(* save_indicators_job_by_symbol into the queue amf_kline, whose one       *)
(* consumer fetches candles, upserts them, and extends the four indicator  *)
(* tables from them.  The plot consumer reads klines and MACD rows in a    *)
(* transaction of its own, at any moment.                                  *)
(*                                                                         *)
(* Time is counted in candles: candle t is open while clock = t.  Of a     *)
(* candle row only its place and whether its prices are the closing ones   *)
(* is kept; of an indicator row whether it is computed from closing prices *)
(* of consecutive candles alone.  Tables are sequences in the order of id. *)
(***************************************************************************)
EXTENDS Integers, SequencesExt

CONSTANTS
    Indicators,     \* a subset of {"rsi", "macd", "kdj", "boll"} with "macd"
    Need,           \* candles an indicator waits for before its first row
    Take,           \* the candle, of those, its first row belongs to
    Window,         \* candles one incremental step reads
    FetchLimit,     \* candles the exchange returns at most
    StartClock, MaxClock,   \* bound: the candles the model runs through
    MaxQueue,       \* bound: jobs of one kind waiting in amf_kline
    MaxFaults,      \* bound: failures, crashes, and pauses of the monitor
    None            \* no start time, no check under way

Candle == [ts : Nat, final : BOOLEAN]
Row == [ts : Nat, settled : BOOLEAN]

ASSUME ConstantsAssumption ==
    /\ "macd" \in Indicators /\ Indicators \subseteq {"rsi", "macd", "kdj", "boll"}
    /\ {Need, Take, Window} \subseteq [Indicators -> Nat \ {0}]
    /\ \A i \in Indicators : Window[i] <= Take[i] /\ Take[i] < Need[i] /\ Need[i] <= Need["macd"]
    /\ \A i \in Indicators \ {"kdj", "boll"} : Window[i] <= 2
    /\ FetchLimit \in Nat /\ FetchLimit >= Need["macd"]
    /\ StartClock \in Nat /\ MaxClock \in Nat /\ MaxClock >= StartClock
    /\ MaxQueue \in Nat /\ MaxFaults \in Nat
    /\ None \notin Int /\ None \notin [reads : {"klines", "macd"}, open : Nat]

VARIABLES
    clock,      \* the open candle
    watched,    \* an active monitor on the symbol exists
    klines,     \* kline_table
    rows,       \* the indicator tables
    queue,      \* amf_kline
    jobKey,     \* redis: save_kline_job is set
    calcKey,    \* redis: s_indicators:symbol:interval is set
    consumer,   \* the kline consumer: pc, and the candles it fetched
    check,      \* the strategy check under way: what it reads next, its open candle
    faults

tables == <<klines, rows>>
keys == <<jobKey, calcKey>>
vars == <<clock, watched, klines, rows, queue, jobKey, calcKey, consumer, check, faults>>

Idle == [pc |-> "idle", batch |-> <<>>]

Init ==
    /\ clock = StartClock
    /\ watched = TRUE
    /\ klines = <<>>
    /\ rows = [i \in Indicators |-> <<>>]
    /\ queue = <<>>
    /\ jobKey = FALSE
    /\ calcKey = FALSE
    /\ consumer = Idle
    /\ check = None
    /\ faults = 0

Fault ==
    /\ faults < MaxFaults
    /\ faults' = faults + 1

-----------------------------------------------------------------------------
(* The scheduler, the amf consumer and the expiry of keys.                 *)

Waiting(job) == Cardinality({n \in DOMAIN queue : queue[n] = job})

ScheduleKline ==
    /\ ~jobKey
    /\ Waiting("kline") < MaxQueue
    /\ queue' = Append(queue, "kline")
    /\ UNCHANGED <<clock, watched, tables, keys, consumer, check, faults>>

(* The key is set before the push, and a push that fails leaves it.        *)
ScheduleIndicators ==
    /\ watched
    /\ ~calcKey
    /\ Waiting("calc") < MaxQueue
    /\ calcKey' = TRUE
    /\ \/ queue' = Append(queue, "calc") /\ UNCHANGED faults
       \/ Fault /\ UNCHANGED queue
    /\ UNCHANGED <<clock, watched, tables, jobKey, consumer, check>>

JobKeyExpires ==
    /\ jobKey /\ jobKey' = FALSE
    /\ UNCHANGED <<clock, watched, tables, queue, calcKey, consumer, check, faults>>

(* Mutant: s_indicators is set without a TTL.                              *)
CalcKeyStays == calcKey /\ UNCHANGED vars

CalcKeyExpires ==
    /\ calcKey /\ calcKey' = FALSE
    /\ UNCHANGED <<clock, watched, tables, queue, jobKey, consumer, check, faults>>

-----------------------------------------------------------------------------
(* save_kline_job: read where to start, fetch, save in one transaction.    *)

TakeKline ==
    /\ consumer.pc = "idle" /\ queue # <<>> /\ Head(queue) = "kline"
    /\ queue' = Tail(queue)
    /\ jobKey' = TRUE
    /\ consumer' = IF jobKey THEN consumer ELSE [Idle EXCEPT !.pc = "fetching"]
    /\ UNCHANGED <<clock, watched, tables, calcKey, check, faults>>

SkipPaused ==
    /\ consumer.pc = "fetching"
    /\ ~watched
    /\ consumer' = Idle
    /\ jobKey' = FALSE
    /\ UNCHANGED <<clock, watched, tables, queue, calcKey, check, faults>>

LongestNeed == Max({Need[i] : i \in Indicators \ {"boll"}})

(* get_init_indicators_time: None, or the first of the candles the         *)
(* indicators need; which candle its unordered query looks at is open.     *)
InitialStarts ==
    LET start  == clock - LongestNeed + 1
        recent == {k \in ToSet(klines) : k.ts >= start}
    IN  IF \E i \in Indicators \ {"boll"} : rows[i] # <<>> THEN {None}
        ELSE IF recent = {} THEN {start}
        ELSE {IF k.ts = start THEN None ELSE start : k \in recent}

(* Mutant: the fetch goes on behind the newest row, without the overlap.   *)
FetchedWithoutOverlap(start) ==
    LET first == Max({0, IF start = None THEN Last(klines).ts + 1 ELSE start})
        last  == Min({first + FetchLimit - 1, clock})
    IN  [n \in 1 .. last - first + 1 |-> [ts |-> first + n - 1, final |-> first + n - 1 < clock]]

(* What the exchange returns for startTime: k_interval before the newest   *)
(* row reaches back exactly one candle.  Without klines there is always an *)
(* initial start, so the limit of 17 is never asked for.                   *)
Fetched(start) ==
    LET first == Max({0, IF start = None THEN Last(klines).ts - 1 ELSE start})
        last  == Min({first + FetchLimit - 1, clock})
    IN  [n \in 1 .. last - first + 1 |-> [ts |-> first + n - 1, final |-> first + n - 1 < clock]]

Fetch ==
    /\ consumer.pc = "fetching"
    /\ watched
    /\ \E start \in InitialStarts :
          consumer' = [pc |-> "saving", batch |-> Fetched(start)]
    /\ UNCHANGED <<clock, watched, tables, queue, keys, check, faults>>

(* An answer other than 200 is no candles: the job ends well.              *)
FetchEmpty ==
    /\ consumer.pc = "fetching"
    /\ Fault
    /\ consumer' = Idle
    /\ jobKey' = FALSE
    /\ UNCHANGED <<clock, watched, tables, queue, calcKey, check>>

Upsert(table, row) ==
    IF \E n \in DOMAIN table : table[n].ts = row.ts
    THEN [n \in DOMAIN table |-> IF table[n].ts = row.ts THEN row ELSE table[n]]
    ELSE Append(table, row)

(* The rows are saved one after the other.                                 *)
Upserted(table, batch) ==
    LET after[n \in 0 .. Len(batch)] == IF n = 0 THEN table ELSE Upsert(after[n - 1], batch[n])
    IN  after[Len(batch)]

SaveKlines ==
    /\ consumer.pc = "saving"
    /\ klines' = Upserted(klines, consumer.batch)
    /\ consumer' = Idle
    /\ jobKey' = FALSE
    /\ UNCHANGED <<clock, watched, rows, queue, calcKey, check, faults>>

(* An exception in the job rolls the transaction back; neither it nor a    *)
(* crash of the consumer deletes the key.                                  *)
JobFails ==
    /\ consumer.pc \in {"fetching", "saving"}
    /\ Fault
    /\ consumer' = Idle
    /\ UNCHANGED <<clock, watched, tables, queue, keys, check>>

-----------------------------------------------------------------------------
(* save_indicators_job_by_symbol.  No other process writes what it reads,  *)
(* and it commits once, or row by row when it creates first rows.          *)

FinalAndConsecutive(seq) ==
    \A n \in DOMAIN seq : seq[n].final /\ seq[n].ts = seq[1].ts + n - 1

(* _get_klines_for_init leaves the newest candle out.                      *)
InitKlines(i) == SubSeq(klines, Len(klines) - Need[i] + 1, Len(klines) - 1)
FirstRow(i) ==
    LET used == SubSeq(InitKlines(i), 1, Take[i])
    IN  [ts |-> Last(used).ts, settled |-> FinalAndConsecutive(used)]

Missing == {i \in Indicators : rows[i] = <<>>}
Ready == {i \in Missing : Len(klines) >= Need[i]}

(* Mutant: only the newest row is read.                                    *)
KnownNewest(i) == SubSeq(rows[i], Len(rows[i]), Len(rows[i]))

(* The three newest rows of a table by id, from which an update goes on.   *)
Known(i) == SubSeq(rows[i], Max({1, Len(rows[i]) - 2}), Len(rows[i]))
Base(i) == Min({r.ts : r \in ToSet(Known(i))})
StartAtBase(i) == Base(i)     \* mutant: the window before the row is left out
Start(i) == IF i \in {"kdj", "boll"} THEN Base(i) - Window[i] ELSE Base(i)
UpdateKlines ==
    LET start == Min({Start(i) : i \in Indicators})
    IN  {n \in DOMAIN klines : klines[n].ts >= start}

(* The candles the step for candle n reads of db: KDJ by open_ts, the      *)
(* others by their place in the list.  The list is ordered by id, and      *)
(* while StoredInOrder holds a candle's place in it is its place in klines *)
(* less the older candles that were not selected.                          *)
Inputs(i, db, n) ==
    IF i = "kdj" THEN {m \in db : klines[n].ts - klines[m].ts \in 0 .. Window[i] - 1}
                 ELSE (n - Window[i] + 1 .. n) \cap db

Exact(i, db, n) ==
    LET used == Inputs(i, db, n)
    IN  /\ {klines[m].ts : m \in used} = klines[n].ts - Window[i] + 1 .. klines[n].ts
        /\ \A m \in used : klines[m].final

(* Every step needs the row before it; all but the Bollinger bands go on   *)
(* from its values.                                                        *)
Stepped(i, db, known, n) ==
    LET before == {r \in ToSet(known) : r.ts = klines[n].ts - 1}
    IN  IF n \notin db \/ before = {} THEN known
        ELSE Upsert(known, [ts |-> klines[n].ts,
                            settled |-> /\ Exact(i, db, n)
                                        /\ i = "boll" \/ \A r \in before : r.settled])

(* The same step; naming the table lets TLC compute it once.               *)
StepFrom(i, db, known, n) ==
    CHOOSE after \in {Stepped(i, db, table, n) : table \in {known}} : TRUE

Extended(i, db) ==
    LET known[n \in 0 .. Len(klines)] ==
            IF n = 0 THEN Known(i) ELSE StepFrom(i, db, known[n - 1], n)
    IN  SubSeq(rows[i], 1, Len(rows[i]) - 3) \o known[Len(klines)]

(* A window that is too short: the step would subscript None.              *)
ShortWindow ==
    LET db == UpdateKlines
    IN  \E i \in Indicators :
           LET first == Base(i) + 1
           IN  \E n \in db : klines[n].ts >= first /\ Cardinality(Inputs(i, db, n)) # Window[i]

TakeCalc ==
    /\ consumer.pc = "idle" /\ queue # <<>> /\ Head(queue) = "calc"
    /\ queue' = Tail(queue)
    /\ UNCHANGED <<clock, watched, klines, jobKey, consumer, check>>

CreateFirstRows(new) ==
    rows' = [i \in Indicators |-> IF i \in new THEN <<FirstRow(i)>> ELSE rows[i]]

(* While an indicator has no row, no table is extended.                    *)
CalcIndicators ==
    /\ TakeCalc
    /\ calcKey' = FALSE
    /\ UNCHANGED faults
    /\ \/ ~watched /\ UNCHANGED rows
       \/ watched /\ Missing # {} /\ CreateFirstRows(Ready)
       \/ /\ watched /\ Missing = {} /\ ~ShortWindow
          /\ rows' = [i \in Indicators |-> Extended(i, UpdateKlines)]

(* The RSI of a window without losses is not a number: no row, no error.   *)
SkipRsi ==
    /\ TakeCalc
    /\ watched
    /\ "rsi" \in Ready
    /\ Fault
    /\ calcKey' = FALSE
    /\ CreateFirstRows(Ready \ {"rsi"})

(* An exception, of the database or of the arithmetic, or a crash: the     *)
(* update is rolled back, first rows created before it stay, the key too.  *)
CalcFails ==
    /\ TakeCalc
    /\ watched
    /\ Fault
    /\ UNCHANGED calcKey
    /\ \E done \in SUBSET Ready : CreateFirstRows(done)

-----------------------------------------------------------------------------
(* The strategy check: the candle it takes for open is fixed when it is    *)
(* created; the tables are read one after the other (read committed).      *)

(* Mutant: the hour is rounded up.                                         *)
BeginCheckRoundedUp ==
    /\ check = None
    /\ watched
    /\ check' = [reads |-> "klines", open |-> clock + 1]
    /\ UNCHANGED <<clock, watched, tables, queue, keys, consumer, faults>>

BeginCheck ==
    /\ check = None
    /\ watched
    /\ check' = [reads |-> "klines", open |-> clock]
    /\ UNCHANGED <<clock, watched, tables, queue, keys, consumer, faults>>

(* Unless the newest candle is the open one the check decides nothing.     *)
ReadKlines ==
    /\ check # None
    /\ check.reads = "klines"
    /\ check' = IF klines # <<>> /\ Last(klines).ts = check.open
                THEN [check EXCEPT !.reads = "macd"] ELSE None
    /\ UNCHANGED <<clock, watched, tables, queue, keys, consumer, faults>>

RowsAt(t) == {n \in DOMAIN rows["macd"] : rows["macd"][n].ts = t}
RowAt(t) == rows["macd"][CHOOSE n \in RowsAt(t) : TRUE]
BothRows(newer, older) ==
    IF \A t \in {newer, older} : Cardinality(RowsAt(t)) = 1
    THEN <<RowAt(newer), RowAt(older)>> ELSE <<>>

(* closed_factor for two closed candles: each must have exactly one row.   *)
ClosedRows == BothRows(check.open - 1, check.open - 2)

(* What the check decides from, at the moment it reads the rows.           *)
Evidence == IF check # None /\ check.reads = "macd" THEN ClosedRows ELSE <<>>

DecideFromMacd ==
    /\ check # None
    /\ check.reads = "macd"
    /\ check' = None
    /\ UNCHANGED <<clock, watched, tables, queue, keys, consumer, faults>>

-----------------------------------------------------------------------------
Tick ==
    /\ clock < MaxClock
    /\ clock' = clock + 1
    /\ UNCHANGED <<watched, tables, queue, keys, consumer, check, faults>>

PauseOrResume ==
    /\ IF watched THEN Fault ELSE UNCHANGED faults
    /\ watched' = ~watched
    /\ UNCHANGED <<clock, tables, queue, keys, consumer, check>>

Next ==
    \/ ScheduleKline \/ ScheduleIndicators \/ JobKeyExpires \/ CalcKeyExpires
    \/ TakeKline \/ SkipPaused \/ Fetch \/ FetchEmpty \/ SaveKlines \/ JobFails
    \/ CalcIndicators \/ SkipRsi \/ CalcFails
    \/ BeginCheck \/ ReadKlines \/ DecideFromMacd
    \/ Tick \/ PauseOrResume

(* The scheduler runs every minute, keys have a TTL, the consumer goes on. *)
Fairness ==
    /\ WF_vars(ScheduleKline) /\ WF_vars(ScheduleIndicators)
    /\ WF_vars(JobKeyExpires) /\ WF_vars(CalcKeyExpires)
    /\ WF_vars(TakeKline) /\ WF_vars(SkipPaused) /\ WF_vars(Fetch) /\ WF_vars(SaveKlines)
    /\ WF_vars(CalcIndicators)

Spec == Init /\ [][Next]_vars
FairSpec == Spec /\ Fairness

-----------------------------------------------------------------------------
TypeOK ==
    /\ clock \in StartClock .. MaxClock
    /\ check \in {None} \cup [reads : {"klines", "macd"}, open : StartClock .. clock]
    /\ klines \in Seq(Candle)
    /\ rows \in [Indicators -> Seq(Row)]
    /\ queue \in Seq({"kline", "calc"}) /\ Len(queue) <= 2 * MaxQueue
    /\ consumer.pc \in {"idle", "fetching", "saving"} /\ consumer.batch \in Seq(Candle)
    /\ faults \in 0 .. MaxFaults
    /\ {watched, jobKey, calcKey} \subseteq BOOLEAN

(* Whatever fails and however long the monitor was paused, the ids of the  *)
(* kline table follow open_ts (every check orders by id), no candle is    *)
(* stored twice, and of as many candles as an indicator waits for, all but *)
(* the newest have their closing prices and leave no gap: a fetch overlaps *)
(* by the one candle that may have been open, or starts over far enough    *)
(* back (get_init_indicators_time, dw.py:303-346, 367, 430-462).           *)
StoredInOrder ==
    \A n \in 1 .. Len(klines) - 1 :
        /\ klines[n].ts < klines[n + 1].ts
        /\ n > Len(klines) - LongestNeed =>
              klines[n].final /\ klines[n + 1].ts = klines[n].ts + 1

(* The candle before a gap keeps its interim price.  Only Bollinger bands  *)
(* can be computed over it: get_init_indicators_time leaves a gap while no *)
(* other table has rows, and those start behind it.                        *)
Abandoned == {klines[n].ts : n \in {m \in 1 .. Len(klines) - 1 : ~klines[m].final}}

(* An indicator row that is not the newest of its table is computed from   *)
(* closing prices only: an update goes on from the third newest row and so *)
(* repairs the row it computed while the candle was open, however many     *)
(* candles closed since (dw.py:1236-1293, 1395-1513).                      *)
SettledBehindNewest ==
    \A i \in Indicators : \A m, n \in DOMAIN rows[i] :
        m < n => /\ rows[i][n].ts = rows[i][m].ts + n - m
                 /\ \/ rows[i][m].settled
                    \/ i = "boll" /\ \E back \in 0 .. Window[i] - 1 :
                                        rows[i][m].ts - back \in Abandoned

(* Once all four tables have rows, the update can read a full window for   *)
(* every candle it steps over: the smallest of the four start times        *)
(* reaches back far enough for each of them (dw.py:1267-1293).             *)
WindowsComplete == Missing = {} => ~ShortWindow

(* Of the two closed candles a rule compares, the older one is exact and   *)
(* they follow each other, whenever the tables are read (closed_factor,    *)
(* models/strategy_rules.py:163-185).                                      *)
OlderEvidenceExact ==
    Evidence # <<>> => Evidence[2].settled /\ Evidence[1].ts = Evidence[2].ts + 1

(* models/strategy_rules.py:164: "Locate exact closed candles; missing/    *)
(* stale/non-finite data is unavailable."  A decision is made from closing *)
(* prices only.                                                            *)
EvidenceIsFinal == \A n \in DOMAIN Evidence : Evidence[n].settled

(* While a monitor is active and the candle does not change, the tables    *)
(* reach the open candle, lost jobs and stuck keys notwithstanding.        *)
UpToDate ==
    /\ klines # <<>> /\ Last(klines).ts = clock
    /\ clock + 1 >= LongestNeed =>
          \A i \in Indicators : rows[i] # <<>> /\ Last(rows[i]).ts = clock
CatchesUp == []<>~watched \/ <>[]UpToDate

=============================================================================
