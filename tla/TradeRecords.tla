---------------------------- MODULE TradeRecords ----------------------------
(***************************************************************************)
(* The records of signals (business/trade_signal_recorder.py): the writers *)
(* of PlotBackTestTable, and a client that reads its list page by page,    *)
(* newest record first.  The list is served by the API; nothing in this    *)
(* repository calls the writers any more, so their callers are external.   *)
(* A record is its symbol and status: its id grows with bid_ts.            *)
(***************************************************************************)
EXTENDS Integers, Sequences, FiniteSets

CONSTANTS Symbols,      \* trading pairs
          Sweepers,     \* processes that run update_real_ticket
          MaxRecords,   \* bound: rows of the table
          PageSize,     \* rows of a page
          Filters       \* statuses the client asks for, Every or one

VARIABLES records,      \* the rows by id: [symbol, status]
          sweep,        \* what a sweep has read and not yet written back: status by id
          overlapped,   \* history: two sweeps were once in progress together
          watched,      \* symbols of the client's monitors, {} for the root user
          page,         \* the page the client asks next, 0 when not reading
          pages,        \* total_pages of the answer being made, Uncounted before its count
          asked,        \* [status, ids]: the filter, and what matched when the client began
          seen,         \* ids the client was shown since
          shifted,      \* history: rows moved under the reading client: one left the
                        \* filter, or one joined between an answer's count and its rows
          missed        \* history: what a finished reading should have shown and did not

tradeVars == <<records, sweep, overlapped, watched, page, pages, asked, seen, shifted, missed>>

TradeAssumption == MaxRecords \in Nat \ {0} /\ PageSize \in Nat \ {0}

Every == -1
Pending == {0, 3}                 \* the signal waits for its price
Open == 1                         \* bought, waits for an exit signal
Closed == {2, 4, 5}               \* entry failed, sold, sold at the current price
Ids == DOMAIN records
Uncounted == -1
Nothing == [status |-> Every, ids |-> {}]
NotSweeping == <<>>

Init ==
    /\ \E s \in Symbols, status \in {0, 1, 3} : records = <<[symbol |-> s, status |-> status]>>
    /\ sweep = [w \in Sweepers |-> NotSweeping]
    /\ overlapped = FALSE
    /\ watched \in SUBSET Symbols
    /\ page = 0 /\ pages = Uncounted /\ asked = Nothing /\ seen = {} /\ shifted = FALSE /\ missed = {}

\* Rows the query selects, by their status and by the symbols watched: of
\* every symbol when none is, for the root user or another.
Matching(rows, symbols, status) ==
    {i \in DOMAIN rows : (symbols = {} \/ rows[i].symbol \in symbols) /\ status \in {Every, rows[i].status}}

Selected == Matching(records, watched, asked.status)
Shift(rows, symbols) ==
    LET now == Matching(rows, symbols, asked.status)
    IN  shifted' = (\/ shifted
                    \/ page > 0 /\ ~(Selected \subseteq now)
                    \/ pages # Uncounted /\ ~(now \subseteq Selected))

(*** Writers ***)
Writes(rows) == records' = rows /\ Shift(rows, watched) /\ UNCHANGED <<watched, page, pages, asked, seen, missed>>

AddBidTicket(s) ==
    /\ Len(records) < MaxRecords
    /\ Writes(Append(records, [symbol |-> s, status |-> Open]))
    /\ UNCHANGED <<sweep, overlapped>>

\* The last record of the symbol.
Latest(s) == {i \in Ids : records[i].symbol = s /\ \A j \in Ids : records[j].symbol = s => j <= i}

\* An exit signal closes the last record, if it is open. Under the lock of
\* the symbol, and nothing else writes an open record: one step.
UpdateAskTicket(s, end) ==
    /\ \E i \in Latest(s) : records[i].status = Open /\ Writes([records EXCEPT ![i].status = end])
    /\ UNCHANGED <<sweep, overlapped>>

ReadOf(statuses) == [i \in {i \in Ids : records[i].status \in statuses} |-> records[i].status]

\* mutant: open rows are read too
SweepReadsAll(w) ==
    /\ sweep[w] = NotSweeping
    /\ sweep' = [sweep EXCEPT ![w] = ReadOf(Pending \cup {Open})]
    /\ sweep'[w] # NotSweeping
    /\ overlapped' = (overlapped \/ \E v \in Sweepers \ {w} : sweep[v] # NotSweeping)
    /\ UNCHANGED <<records, watched, page, pages, asked, seen, shifted, missed>>

\* update_real_ticket takes no lock: two sweeps may have read the same rows.
SweepReads(w) ==
    /\ sweep[w] = NotSweeping
    /\ sweep' = [sweep EXCEPT ![w] = ReadOf(Pending)]
    /\ sweep'[w] # NotSweeping
    /\ overlapped' = (overlapped \/ \E v \in Sweepers \ {w} : sweep[v] # NotSweeping)
    /\ UNCHANGED <<records, watched, page, pages, asked, seen, shifted, missed>>

\* What a price and the time make of a row read as pending entry or exit;
\* a row they leave alone is not saved.
Outcome(status) == IF status = 3 THEN {3, 4, 5} ELSE {status, Open, 2}

\* One transaction. A whole row is saved, whatever it is by now.
SweepWrites(w, outcome) ==
    /\ sweep[w] # NotSweeping
    /\ DOMAIN outcome = DOMAIN sweep[w]
    /\ \A i \in DOMAIN outcome : outcome[i] \in Outcome(sweep[w][i])
    /\ sweep' = [sweep EXCEPT ![w] = NotSweeping]
    /\ Writes([i \in Ids |-> IF i \in DOMAIN outcome /\ outcome[i] # sweep[w][i]
                             THEN [records[i] EXCEPT !.status = outcome[i]] ELSE records[i]])
    /\ UNCHANGED overlapped

(*** The client ***)
StartReading(status) ==
    /\ page = 0
    /\ page' = 1
    /\ asked' = [status |-> status, ids |-> Matching(records, watched, status)]
    /\ UNCHANGED <<records, sweep, overlapped, watched, pages, seen, shifted, missed>>

total_pages == (Cardinality(Selected) + PageSize - 1) \div PageSize

\* ORDER BY id DESC OFFSET .. LIMIT ..: a row's place is how many are newer.
Newer(i) == {j \in Selected : j > i}
Page(p) == {i \in Selected : Cardinality(Newer(i)) \in (p - 1) * PageSize .. p * PageSize - 1}

\* An answer takes two queries, the count and the rows.
CountPages ==
    /\ page > 0 /\ pages = Uncounted
    /\ pages' = total_pages
    /\ UNCHANGED <<records, sweep, overlapped, watched, page, asked, seen, shifted, missed>>

\* The answer shows the page and tells how many there are; the client stops
\* after the last.
ReadPage ==
    LET shown == seen \cup Page(page)
        more == page < pages
    IN  /\ pages # Uncounted
        /\ pages' = Uncounted
        /\ page' = IF more THEN page + 1 ELSE 0
        /\ seen' = IF more THEN shown ELSE {}
        /\ asked' = IF more THEN asked ELSE Nothing
        /\ shifted' = (more /\ shifted)
        /\ missed' = IF more \/ shifted THEN missed ELSE missed \cup (asked.ids \ shown)
        /\ UNCHANGED <<records, sweep, overlapped, watched>>

ChangeMonitors(symbols) ==
    /\ symbols # watched /\ watched' = symbols
    /\ Shift(records, symbols)
    /\ UNCHANGED <<records, sweep, overlapped, page, pages, asked, seen, missed>>

Next ==
    \/ \E s \in Symbols : AddBidTicket(s) \/ \E end \in {4, 5} : UpdateAskTicket(s, end)
    \/ \E w \in Sweepers : \/ SweepReads(w)
                           \/ \E outcome \in [DOMAIN sweep[w] -> 0 .. 5] : SweepWrites(w, outcome)
    \/ \E status \in Filters : StartReading(status)
    \/ CountPages \/ ReadPage
    \/ \E symbols \in SUBSET Symbols : ChangeMonitors(symbols)

Spec == Init /\ [][Next]_tradeVars

\* Types of the variables; rows and pages within their bounds.
TypeOK ==
    /\ Len(records) \in 1 .. MaxRecords
    /\ \A i \in Ids : records[i] \in [symbol : Symbols, status : 0 .. 5]
    /\ \A w \in Sweepers : DOMAIN sweep[w] \subseteq Ids /\ \A i \in DOMAIN sweep[w] : sweep[w][i] \in Pending
    /\ watched \subseteq Symbols
    /\ pages \in Uncounted .. MaxRecords
    /\ page \in Nat /\ (page > 0 => (page - 1) * PageSize < MaxRecords)
    /\ asked.ids \cup seen \cup missed \subseteq Ids
    /\ overlapped \in BOOLEAN /\ shifted \in BOOLEAN

\* Reading to the last page shows every record that matched when the reading
\* began, although others arrive meanwhile and push it further back - unless
\* one left the filter, or joined between an answer's count and its rows: then
\* the rest moves up, or the client stops a page early (get_trade_records).
NothingSkipped == missed = {}

\* A record that ended is never opened or rewritten by a sweep that read it
\* earlier, as long as sweeps do not overlap (update_real_ticket takes no
\* lock, the exit signal closes only what it finds open).
EndedStaysEnded == overlapped \/ \A i \in Ids : records[i].status \in Closed => records'[i] = records[i]

\* An open record that a newer one of its symbol has overtaken is never
\* closed: update_ask_ticket looks at the last one alone.
OvertakenStaysOpen ==
    \/ overlapped
    \/ \A i \in Ids : records[i].status = Open /\ i \notin Latest(records[i].symbol) => records'[i] = records[i]

\* The three of them, of every step.
RecordsKept == [][EndedStaysEnded /\ OvertakenStaysOpen /\ NothingSkipped']_tradeVars
=============================================================================
