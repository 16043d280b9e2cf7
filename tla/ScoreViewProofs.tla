--------------------------- MODULE ScoreViewProofs ---------------------------
(***************************************************************************)
(* What the API scores while the pipeline writes (ScoreView), from the     *)
(* invariants of the tables (CandlePipelineProofs), for any indicators,    *)
(* windows, limits and faults.                                             *)
(***************************************************************************)
EXTENDS ScoreView, CandlePipelineProofs

-----------------------------------------------------------------------------
(* What a step of the pipeline leaves of what was read.                    *)

\* Nothing is stored between or before the candles that are stored.
OnlyNewer == \A t \in Stored' : t \in Stored \/ klines = <<>> \/ t > Newest

\* A save puts new candles behind the newest.
LEMMA SavedBehind == ASSUME TableInv, SaveKlines PROVE OnlyNewer
  <1>1. PICK now, first, keep, B, N \in Nat : SavedAs(now, first, keep, B, N)
    BY SavedTable
  <1> DEFINE L == Len(klines)
  <1>2. /\ L \in Nat /\ keep <= L /\ L - keep <= B /\ N = keep + B /\ Len(klines') = N
        /\ \A n \in 1 .. L : klines[n].ts \in Nat
        /\ \A n \in keep + 1 .. L : klines[n].ts = first + n - keep - 1
        /\ \A n \in 1 .. keep : klines'[n] = klines[n]
        /\ \A n \in keep + 1 .. N : klines'[n].ts = first + n - keep - 1
    BY <1>1, Candles DEF SavedAs
  <1> SUFFICES ASSUME NEW n \in 1 .. N, klines # <<>>, klines'[n].ts \notin Stored PROVE klines'[n].ts > Newest
    BY <1>2 DEF OnlyNewer, Stored
  <1>3. L >= 1 /\ L \in 1 .. L /\ L <= N
    BY <1>2, Candles
  <1>4. ASSUME NEW m \in 1 .. L PROVE klines'[m].ts = klines[m].ts
    <2>1. CASE m <= keep
      <3>1. m \in 1 .. keep
        BY <1>1, <1>4, <2>1
      <3> QED
        BY <1>2, <3>1
    <2>2. CASE ~(m <= keep)
      <3>1. m \in keep + 1 .. L /\ m \in keep + 1 .. N
        BY <1>1, <1>2, <1>3, <1>4, <2>2
      <3> QED
        BY <1>2, <3>1
    <2> QED
      BY <2>1, <2>2
  <1>5. ~(n <= L)
    <2> SUFFICES ASSUME n <= L PROVE FALSE
      OBVIOUS
    <2>1. n \in 1 .. L
      BY <1>2
    <2> QED
      BY <1>4, <2>1 DEF Stored
  <1>6. klines'[L].ts < klines'[n].ts
    <2>1. TableInv'
      BY SaveStep
    <2>2. L \in 1 .. N /\ L < n
      BY <1>2, <1>3, <1>5
    <2> QED
      BY <1>2, <2>1, <2>2 DEF TableInv, Rising
  <1>7. klines'[L].ts = Newest /\ Newest \in Nat
    BY <1>2, <1>3, <1>4 DEF Newest
  <1>8. klines'[n].ts \in Nat
    <2>1. TableInv'
      BY SaveStep
    <2>2. klines' \in Seq(Candle)
      BY <2>1 DEF TableInv, Numbers
    <2>3. klines'[n] \in Candle
      BY <1>2, <2>2
    <2> QED
      BY <2>3 DEF Candle
  <1> QED
    BY <1>6, <1>7, <1>8

\* What later steps keep of the tables.
Grown ==
  /\ Stored \subseteq Stored' /\ Abandoned \subseteq Abandoned'
  /\ OnlyNewer
  /\ \A i \in Indicators : rows[i] # <<>> => rows'[i] # <<>> /\ rows'[i][1].ts = rows[i][1].ts

LEMMA TablesGrow == ASSUME TableInv, RowInv, [Next]_vars PROVE Grown
  <1>1. CASE SaveKlines
    <2>1. Stored \subseteq Stored' /\ Abandoned \subseteq Abandoned'
      BY <1>1, SavedSets
    <2>2. rows' = rows
      BY <1>1 DEF SaveKlines
    <2> QED
      BY <1>1, <2>1, <2>2, SavedBehind DEF Grown
  <1>2. ASSUME klines' = klines PROVE Stored' = Stored /\ Abandoned' = Abandoned /\ OnlyNewer
    BY <1>2 DEF Stored, Abandoned, OnlyNewer
  <1>3. ASSUME NEW new \in SUBSET Ready, CreateFirstRows(new), NEW i \in Indicators, rows[i] # <<>>
        PROVE  rows'[i] = rows[i]
    BY <1>3 DEF CreateFirstRows, Ready, Missing
  <1>4. CASE rows' = rows /\ klines' = klines
    BY <1>2, <1>4 DEF Grown
  <1>5. ASSUME NEW new \in SUBSET Ready, CreateFirstRows(new), klines' = klines PROVE Grown
    <2>1. \A i \in Indicators : rows[i] # <<>> => rows'[i] = rows[i]
      BY <1>3, <1>5
    <2> QED
      BY <1>2, <1>5, <2>1 DEF Grown
  <1>6. ASSUME klines' = klines, Missing = {}, rows' = [i \in Indicators |-> Extended(i, UpdateKlines)]
        PROVE  Grown
    <2>1. ASSUME NEW i \in Indicators PROVE rows'[i] # <<>> /\ rows'[i][1].ts = rows[i][1].ts
      <3>1. rows[i] # <<>> /\ Reads(i, UpdateKlines, Base(i))
        BY <1>6, UpdateReads DEF Reads, Missing
      <3> DEFINE s == rows'[i]
      <3>2. s = Extended(i, UpdateKlines)
        BY <1>6
      <3> HIDE DEF s
      <3>3. s \in Seq(Row) /\ Len(s) \in Nat /\ Len(s) >= Len(rows[i]) /\ s[1] = rows[i][1]
        BY <3>1, <3>2, ExtendedTable
      <3>4. Len(rows[i]) \in Nat /\ Oldest(i) \in 1 .. Len(rows[i])
        BY <3>1, KnownRows
      <3>5. Len(s) >= 1
        BY <3>3, <3>4
      <3>6. s # <<>>
        BY <3>3, <3>5
      <3> QED
        BY <3>3, <3>6 DEF s
    <2> QED
      BY <1>2, <1>6, <2>1 DEF Grown
  <1>7. CASE CalcIndicators
    <2>1. klines' = klines
      BY <1>7 DEF CalcIndicators, TakeCalc
    <2>2. CASE rows' = rows
      BY <1>4, <2>1, <2>2
    <2>3. CASE CreateFirstRows(Ready)
      BY <1>5, <2>1, <2>3
    <2>4. CASE Missing = {} /\ rows' = [i \in Indicators |-> Extended(i, UpdateKlines)]
      BY <1>6, <2>1, <2>4
    <2> QED
      BY <1>7, <2>2, <2>3, <2>4 DEF CalcIndicators
  <1>8. CASE SkipRsi
    BY <1>5, <1>8 DEF SkipRsi, TakeCalc
  <1>9. CASE CalcFails
    BY <1>5, <1>9 DEF CalcFails, TakeCalc
  <1>10. CASE ~SaveKlines /\ ~CalcIndicators /\ ~SkipRsi /\ ~CalcFails
    <2>1. rows' = rows /\ klines' = klines
      BY <1>10 DEF Next, vars, tables, ScheduleKline, ScheduleIndicators, JobKeyExpires, CalcKeyExpires,
         TakeKline, SkipPaused, Fetch, FetchEmpty, JobFails,
         BeginCheck, ReadKlines, DecideFromMacd, Tick, PauseOrResume
    <2> QED
      BY <1>4, <2>1
  <1> QED
    BY <1>1, <1>7, <1>8, <1>9, <1>10

-----------------------------------------------------------------------------
(* What a request holds while it reads.                                    *)

\* Of the klines: what was stored between the first and the last is there, and a
\* candle that is not the newest has its closing price or was abandoned.
KlinesRead(K) ==
  /\ K \in Seq(Candle)
  /\ \A n \in 1 .. Len(K) : K[n].ts \in Stored
  /\ \A m, n \in 1 .. Len(K) : m < n => K[m].ts < K[n].ts
  /\ \A n \in 1 .. Len(K) : n < Len(K) => K[n].final \/ K[n].ts \in Abandoned
  /\ \A t \in Stored : K # <<>> /\ K[1].ts <= t /\ t <= K[Len(K)].ts => \E n \in 1 .. Len(K) : K[n].ts = t

\* Of an indicator: rows that follow each other, none older than its first.
RowsRead(i, V) ==
  /\ V \in Seq(Row)
  /\ V # <<>> => rows[i] # <<>> /\ rows[i][1].ts <= V[1].ts
  /\ \A n \in 1 .. Len(V) : V[n].ts = V[1].ts + n - 1
  /\ i # "boll" => \A n \in 1 .. Len(V) - 1 : V[n].settled

Steps == {SubSeq(Order, n, Len(Order)) : n \in 1 .. Len(Order) + 1}

ViewRead ==
  /\ DOMAIN view = {"kline"} \cup Indicators
  /\ \A t \in DOMAIN view : Len(view[t]) <= Limit
  /\ KlinesRead(view["kline"])
  /\ \A i \in Indicators : RowsRead(i, view[i])
  /\ waiting \in Steps

LEMMA KlineIsNoIndicator == "kline" \notin Indicators
  BY ConstantsAssumption

LEMMA OrderType == Order \in Seq(Indicators)
  <1>1. \A t : InTurn(t) \in Seq(Indicators)
    BY DEF InTurn
  <1>2. \A s, t \in Seq(Indicators) : s \o t \in Seq(Indicators)
    OBVIOUS
  <1> QED
    BY <1>1, <1>2 DEF Order

LEMMA NextStep ==
  ASSUME NEW w \in Steps, w # <<>>
  PROVE  Head(w) \in Indicators /\ Tail(w) \in Steps
  <1> DEFINE L == Len(Order)
  <1>1. L \in Nat /\ Order \in Seq(Indicators)
    BY OrderType
  <1>2. PICK n \in 1 .. L + 1 : w = SubSeq(Order, n, L)
    BY DEF Steps
  <1>3. n \in 1 .. L
    BY <1>1, <1>2
  <1>4. Head(w) = Order[n] /\ Tail(w) = SubSeq(Order, n + 1, L)
    BY <1>1, <1>2, <1>3
  <1>5. Order[n] \in Indicators /\ n + 1 \in 1 .. L + 1
    BY <1>1, <1>3
  <1> QED
    BY <1>4, <1>5 DEF Steps

\* The newest rows of a table are its end.
LEMMA NewestAreTail ==
  ASSUME NEW S, NEW table \in Seq(S), Limit \in Nat
  PROVE  \E a \in 1 .. Len(table) + 1 :
           /\ NewestRows(table) \in Seq(S)
           /\ Len(NewestRows(table)) = Len(table) - a + 1
           /\ Len(NewestRows(table)) <= Limit
           /\ \A n \in 1 .. Len(NewestRows(table)) : a + n - 1 \in 1 .. Len(table) /\ NewestRows(table)[n] = table[a + n - 1]
  <1> DEFINE L == Len(table)
             a == Max({1, L - Limit + 1})
  <1>1. L \in Nat /\ L - Limit + 1 \in Int
    OBVIOUS
  <1>2. a = IF 1 >= L - Limit + 1 THEN 1 ELSE L - Limit + 1
    BY <1>1, OfTwo
  <1>3. NewestRows(table) = SubSeq(table, a, L)
    BY DEF NewestRows
  <1> HIDE DEF a
  <1>4. a \in 1 .. L + 1 /\ L - a + 1 <= Limit
    BY <1>1, <1>2
  <1> DEFINE s == SubSeq(table, a, L)
  <1>5. s \in Seq(S) /\ Len(s) = L - a + 1 /\ \A n \in 1 .. L - a + 1 : s[n] = table[a + n - 1]
    BY <1>4
  <1>6. \A n \in 1 .. L - a + 1 : a + n - 1 \in 1 .. L
    BY <1>1, <1>4
  <1> HIDE DEF s
  <1>7. NewestRows(table) = s
    BY <1>3 DEF s
  <1> QED
    BY <1>4, <1>5, <1>6, <1>7

LEMMA ReadsKlines ==
  ASSUME TableInv, Limit \in Nat
  PROVE  KlinesRead(NewestRows(klines)) /\ Len(NewestRows(klines)) <= Limit
  <1> DEFINE L == Len(klines)
             K == NewestRows(klines)
             N == Len(K)
  <1>1. klines \in Seq(Candle) /\ L \in Nat /\ \A n \in 1 .. L : klines[n].ts \in Nat
    BY Candles
  <1>2. PICK a \in 1 .. L + 1 : /\ K \in Seq(Candle) /\ N = L - a + 1 /\ N <= Limit
                                /\ \A n \in 1 .. N : a + n - 1 \in 1 .. L /\ K[n] = klines[a + n - 1]
    BY <1>1, NewestAreTail
  <1>3. \A m, n \in 1 .. L : m < n <=> klines[m].ts < klines[n].ts
    BY Candles
  <1> HIDE DEF K
  <1>4. N \in Nat
    BY <1>2
  <1>5. \A n \in 1 .. N : K[n].ts \in Stored
    BY <1>2 DEF Stored
  <1>6. ASSUME NEW m \in 1 .. N, NEW n \in 1 .. N, m < n PROVE K[m].ts < K[n].ts
    <2> DEFINE p == a + m - 1
               q == a + n - 1
    <2>1. p \in 1 .. L /\ q \in 1 .. L /\ K[m] = klines[p] /\ K[n] = klines[q]
      BY <1>2
    <2>2. p < q
      BY <1>1, <1>2, <1>4, <1>6
    <2> HIDE DEF p, q
    <2> QED
      BY <1>3, <2>1, <2>2
  <1>7. ASSUME NEW n \in 1 .. N, n < N PROVE K[n].final \/ K[n].ts \in Abandoned
    <2>1. a + n - 1 \in 1 .. L - 1
      BY <1>1, <1>2, <1>4, <1>7
    <2> QED
      BY <1>2, <2>1 DEF Abandoned
  <1>8. ASSUME NEW t \in Stored, K # <<>>, K[1].ts <= t PROVE \E n \in 1 .. N : K[n].ts = t
    <2>1. PICK m \in 1 .. L : klines[m].ts = t
      BY DEF Stored
    <2>2. 1 \in 1 .. N
      BY <1>2, <1>4, <1>8
    <2>3. a \in 1 .. L /\ K[1] = klines[a]
      <3>1. a + 1 - 1 = a
        BY <1>2
      <3> QED
        BY <1>2, <2>2, <3>1
    <2>4. ~(klines[m].ts < klines[a].ts)
      BY <1>1, <1>8, <2>1, <2>3
    <2>5. ~(m < a)
      BY <1>3, <2>3, <2>4
    <2>6. m - a + 1 \in 1 .. N /\ a + (m - a + 1) - 1 = m
      BY <1>1, <1>2, <2>1, <2>5
    <2> QED
      BY <1>2, <2>1, <2>6
  <1>9. KlinesRead(K)
    BY <1>2, <1>5, <1>6, <1>7, <1>8 DEF KlinesRead
  <1> QED
    BY <1>2, <1>9 DEF K

LEMMA ReadsRows ==
  ASSUME RowInv, Limit \in Nat, NEW i \in Indicators
  PROVE  RowsRead(i, NewestRows(rows[i])) /\ Len(NewestRows(rows[i])) <= Limit
  <1> DEFINE s == rows[i]
             L == Len(s)
             V == NewestRows(s)
             N == Len(V)
  <1>1. s \in Seq(Row) /\ L \in Nat /\ \A n \in 1 .. L : s[n].ts = s[1].ts + n - 1
    BY DEF RowInv, InStep, First
  <1>2. i # "boll" => \A n \in 1 .. L - 1 : s[n].settled
    BY DEF RowInv, RowsSound, SoundRow
  <1>3. L >= 1 => s[1].ts \in Nat
    <2> SUFFICES ASSUME L >= 1 PROVE s[1] \in Row
      BY DEF Row
    <2> QED
      BY <1>1
  <1> HIDE DEF s
  <1>4. PICK a \in 1 .. L + 1 : /\ V \in Seq(Row) /\ N = L - a + 1 /\ N <= Limit
                                /\ \A n \in 1 .. N : a + n - 1 \in 1 .. L /\ V[n] = s[a + n - 1]
    BY <1>1, NewestAreTail
  <1> HIDE DEF V
  <1>5. N \in Nat /\ a \in Nat
    BY <1>1, <1>4
  <1>6. ASSUME V # <<>>
        PROVE  s # <<>> /\ L >= 1 /\ 1 \in 1 .. N /\ V[1] = s[a] /\ V[1].ts = s[1].ts + a - 1 /\ s[1].ts <= V[1].ts
    <2>1. 1 \in 1 .. N /\ a + 1 - 1 = a
      BY <1>4, <1>5, <1>6
    <2>2. a \in 1 .. L /\ V[1] = s[a]
      BY <1>4, <2>1
    <2>3. L >= 1 /\ s # <<>>
      BY <1>1, <2>2
    <2>4. V[1].ts = s[1].ts + a - 1
      BY <1>1, <2>2
    <2> QED
      BY <1>3, <1>4, <2>1, <2>2, <2>3, <2>4
  <1>7. ASSUME NEW n \in 1 .. N PROVE V[n].ts = V[1].ts + n - 1
    <2>1. V # <<>>
      BY <1>4, <1>5, <1>7
    <2>2. V[n].ts = s[1].ts + (a + n - 1) - 1
      BY <1>1, <1>4
    <2>3. s[1].ts \in Nat /\ V[1].ts = s[1].ts + a - 1 /\ n \in Nat
      BY <1>3, <1>6, <2>1
    <2> QED
      BY <1>5, <2>2, <2>3
  <1>8. ASSUME i # "boll", NEW n \in 1 .. N - 1 PROVE V[n].settled
    <2>1. n \in 1 .. N /\ a + n - 1 \in 1 .. L - 1
      BY <1>1, <1>4, <1>5
    <2> QED
      BY <1>2, <1>4, <1>8, <2>1
  <1>9. RowsRead(i, V)
    BY <1>4, <1>6, <1>7, <1>8 DEF RowsRead, s
  <1> QED
    BY <1>4, <1>9 DEF V, s

LEMMA EmptyRead == KlinesRead(<<>>) /\ \A i : RowsRead(i, <<>>)
  <1>1. Len(<<>>) = 0 /\ \A S : <<>> \in Seq(S)
    OBVIOUS
  <1>2. KlinesRead(<<>>)
    BY <1>1 DEF KlinesRead
  <1>3. \A i : RowsRead(i, <<>>)
    BY <1>1 DEF RowsRead
  <1> QED
    BY <1>2, <1>3

-----------------------------------------------------------------------------
(* The steps.                                                              *)

\* What was read stays as sound as it was.
LEMMA StaysRead ==
  ASSUME TableInv, TableInv', RowInv, Grown, ViewRead, UNCHANGED <<view, waiting>>
  PROVE  ViewRead'
  <1> DEFINE K == view["kline"]
  <1>1. KlinesRead(K)
    BY DEF ViewRead
  <1>2. view' = view /\ waiting' = waiting
    OBVIOUS
  <1>3. KlinesRead(K)'
    <2>1. /\ K' = K /\ K \in Seq(Candle)
          /\ \A n \in 1 .. Len(K) : K[n].ts \in Stored'
          /\ \A m, n \in 1 .. Len(K) : m < n => K[m].ts < K[n].ts
          /\ \A n \in 1 .. Len(K) : n < Len(K) => K[n].final \/ K[n].ts \in Abandoned'
      BY <1>1, <1>2 DEF KlinesRead, Grown
    <2>2. ASSUME NEW t \in Stored', K # <<>>, K[1].ts <= t, t <= K[Len(K)].ts
          PROVE  \E n \in 1 .. Len(K) : K[n].ts = t
      <3>1. Len(K) \in 1 .. Len(K)
        BY <2>1, <2>2
      <3>2. K[Len(K)].ts \in Stored
        BY <1>1, <3>1 DEF KlinesRead
      <3>3. PICK m \in 1 .. Len(klines) : klines[m].ts = K[Len(K)].ts
        BY <3>2 DEF Stored
      <3>4. klines # <<>> /\ K[Len(K)].ts \in Nat /\ Newest \in Nat /\ K[Len(K)].ts <= Newest
        <4>1. Len(klines) \in Nat /\ Len(klines) \in 1 .. Len(klines) /\ klines # <<>>
          BY <3>3, Candles
        <4>2. klines[m].ts \in Nat /\ klines[Len(klines)].ts \in Nat
          BY <3>3, <4>1, Candles
        <4>3. ~(Len(klines) < m)
          BY <3>3, <4>1
        <4>4. ~(klines[Len(klines)].ts < klines[m].ts)
          BY <3>3, <4>1, <4>3, Candles
        <4> QED
          BY <3>3, <4>1, <4>2, <4>4 DEF Newest
      <3>5. t \in Nat
        <4>1. PICK n \in 1 .. Len(klines') : klines'[n].ts = t
          BY <2>2 DEF Stored
        <4>2. klines'[n] \in Candle
          BY <4>1 DEF TableInv, Numbers
        <4> QED
          BY <4>1, <4>2 DEF Candle
      <3>6. t \in Stored
        BY <2>2, <3>4, <3>5 DEF Grown, OnlyNewer
      <3> QED
        BY <1>1, <2>2, <3>6 DEF KlinesRead
    <2> QED
      BY <2>1, <2>2 DEF KlinesRead
  <1>4. ASSUME NEW i \in Indicators PROVE RowsRead(i, view[i])'
    <2> DEFINE V == view[i]
    <2>1. V' = V /\ RowsRead(i, V)
      BY <1>2 DEF ViewRead
    <2>2. rows[i] # <<>> => rows'[i] # <<>> /\ rows'[i][1].ts = rows[i][1].ts
      BY DEF Grown
    <2> QED
      BY <2>1, <2>2 DEF RowsRead
  <1> QED
    BY <1>2, <1>3, <1>4 DEF ViewRead

LEMMA SameKlines ==
  ASSUME klines' = klines, KlinesRead(view'["kline"])
  PROVE  KlinesRead(view["kline"])'
  <1>1. Stored' = Stored /\ Abandoned' = Abandoned
    BY DEF Stored, Abandoned
  <1> DEFINE K == view["kline"]
  <1>2. KlinesRead(K')
    OBVIOUS
  <1>3. KlinesRead(K)'
    BY <1>1, <1>2 DEF KlinesRead
  <1> QED
    BY <1>3

LEMMA ViewStep ==
  ASSUME Limit \in Nat, TableInv, TableInv', RowInv, ViewRead, [ViewNext]_viewVars
  PROVE  ViewRead'
  <1>1. ASSUME [Next]_vars, UNCHANGED <<view, waiting>> PROVE ViewRead'
    <2>1. Grown
      BY <1>1, TablesGrow
    <2> QED
      BY <1>1, <2>1, StaysRead
  <1>2. CASE _calculate_symbol_score
    <2>1. /\ view' = [NotRead EXCEPT !["kline"] = NewestRows(klines)] /\ waiting' = Order
          /\ klines' = klines /\ rows' = rows
      BY <1>2 DEF _calculate_symbol_score, vars, tables
    <2>2. /\ DOMAIN view' = {"kline"} \cup Indicators /\ view'["kline"] = NewestRows(klines)
          /\ \A i \in Indicators : view'[i] = <<>>
      BY <2>1, KlineIsNoIndicator DEF NotRead
    <2>3. KlinesRead(view["kline"])'
      <3>1. KlinesRead(view'["kline"])
        BY <2>2, ReadsKlines
      <3> QED
        BY <2>1, <3>1, SameKlines
    <2>4. \A i \in Indicators : RowsRead(i, view[i])'
      BY <2>1, <2>2, EmptyRead DEF RowsRead
    <2>5. \A t \in DOMAIN view' : Len(view'[t]) <= Limit
      <3>1. Len(<<>>) <= Limit
        OBVIOUS
      <3> QED
        BY <2>2, <3>1, ReadsKlines
    <2>6. waiting' \in Steps
      <3>1. Order = SubSeq(Order, 1, Len(Order)) /\ 1 \in 1 .. Len(Order) + 1
        BY OrderType
      <3> QED
        BY <2>1, <3>1 DEF Steps
    <2> QED
      BY <2>2, <2>3, <2>4, <2>5, <2>6 DEF ViewRead
  <1>3. CASE ReadNext
    <2> DEFINE h == Head(waiting)
    <2>1. /\ view' = [view EXCEPT ![h] = NewestRows(rows[h])] /\ waiting' = Tail(waiting)
          /\ klines' = klines /\ rows' = rows /\ waiting # <<>>
      BY <1>3 DEF ReadNext, vars, tables
    <2>2. h \in Indicators /\ waiting' \in Steps
      BY <2>1, NextStep DEF ViewRead
    <2> HIDE DEF h
    <2>3. /\ DOMAIN view' = {"kline"} \cup Indicators /\ view'["kline"] = view["kline"]
          /\ view'[h] = NewestRows(rows[h])
          /\ \A i \in Indicators : i # h => view'[i] = view[i]
      BY <2>1, <2>2, KlineIsNoIndicator DEF ViewRead
    <2>4. KlinesRead(view["kline"])'
      <3>1. KlinesRead(view'["kline"])
        BY <2>3 DEF ViewRead
      <3> QED
        BY <2>1, <3>1, SameKlines
    <2>5. ASSUME NEW i \in Indicators PROVE RowsRead(i, view[i])'
      <3>1. RowsRead(i, view'[i])
        <4>1. CASE i = h
          BY <2>3, <4>1, ReadsRows
        <4>2. CASE i # h
          BY <2>3, <4>2 DEF ViewRead
        <4> QED
          BY <4>1, <4>2
      <3> QED
        BY <2>1, <3>1 DEF RowsRead
    <2>6. \A t \in DOMAIN view' : Len(view'[t]) <= Limit
      BY <2>2, <2>3, ReadsRows DEF ViewRead
    <2> QED
      BY <2>2, <2>3, <2>4, <2>5, <2>6 DEF ViewRead
  <1>4. CASE UNCHANGED viewVars
    BY <1>1, <1>4 DEF viewVars
  <1> QED
    BY <1>1, <1>2, <1>3, <1>4 DEF ViewNext

-----------------------------------------------------------------------------
(* What is scored.                                                         *)

\* Some candle is the last of those that every table has.
LEMMA LastAligned ==
  ASSUME ViewRead, NEW ts \in _align_data
  PROVE  Max(_align_data) \in _align_data /\ \A t \in _align_data : t <= Max(_align_data)
  <1> DEFINE A == _align_data
             K == view["kline"]
             N == Len(K)
             P == {n \in 0 .. N - 1 : K[N - n].ts \in A}
  <1>1. K \in Seq(Candle) /\ N \in Nat /\ \A m, n \in 1 .. N : m < n => K[m].ts < K[n].ts
    BY DEF ViewRead, KlinesRead
  <1>2. \A n \in 1 .. N : K[n].ts \in Nat
    <2> TAKE n \in 1 .. N
    <2>1. K[n] \in Candle
      BY <1>1
    <2> QED
      BY <2>1 DEF Candle
  <1>3. \A t \in A : \E n \in 1 .. N : K[n].ts = t
    BY DEF _align_data, Stamps, ToSet
  <1> HIDE DEF A, K
  <1>4. P # {} /\ P \subseteq Nat
    <2>1. PICK n \in 1 .. N : K[n].ts = ts
      BY <1>3 DEF A
    <2>2. N - n \in 0 .. N - 1 /\ N - (N - n) = n
      BY <1>1
    <2>3. ts \in A
      BY DEF A
    <2>4. N - n \in P
      BY <2>1, <2>2, <2>3
    <2>5. P \subseteq Nat
      BY <1>1
    <2> QED
      BY <2>4, <2>5
  <1>5. PICK p \in P : \A q \in P : p <= q
    BY <1>4, LeastNumber
  <1> DEFINE l == N - p
  <1>6. l \in 1 .. N /\ K[l].ts \in A
    BY <1>1, <1>5
  <1>7. ASSUME NEW t \in A PROVE t <= K[l].ts
    <2>1. PICK n \in 1 .. N : K[n].ts = t
      BY <1>3
    <2>2. N - n \in P
      <3>1. N - n \in 0 .. N - 1 /\ N - (N - n) = n
        BY <1>1
      <3> QED
        BY <2>1, <3>1
    <2>3. p <= N - n /\ p \in Nat
      BY <1>4, <1>5, <2>2
    <2> HIDE DEF P
    <2>4. n <= l
      BY <1>1, <2>3
    <2>5. CASE n = l
      BY <1>2, <2>1, <2>5
    <2>6. CASE n # l
      <3>1. n < l
        BY <1>1, <1>6, <2>4, <2>6
      <3> HIDE DEF l
      <3> QED
        BY <1>1, <1>2, <1>6, <2>1, <3>1
    <2> QED
      BY <2>5, <2>6
  <1> HIDE DEF l, P
  <1>8. \A t \in A : t \in Nat
    BY <1>2, <1>3
  <1>9. \E x \in A : \A y \in A : x >= y
    BY <1>6, <1>7, <1>8
  <1>10. Max(A) \in A /\ \A y \in A : Max(A) >= y
    BY <1>9 DEF Max
  <1>11. \A y \in A : y <= Max(A)
    BY <1>8, <1>10
  <1> QED
    BY <1>10, <1>11 DEF A

\* The rows of an indicator that was read, at two candles it has.
LEMMA RowsBetween ==
  ASSUME RowInv, ViewRead, NEW i \in Indicators, NEW ts \in Stamps(view[i]), NEW last \in Stamps(view[i]), ts < last
  PROVE  /\ ts \in Nat /\ last \in Nat /\ ts + 1 \in Stamps(view[i])
         /\ i # "boll" => RowOf(view[i], ts).settled
         /\ rows[i] # <<>> /\ rows[i][1].ts <= ts
  <1> DEFINE V == view[i]
             N == Len(V)
  <1>1. /\ V \in Seq(Row) /\ N \in Nat
        /\ V # <<>> => rows[i] # <<>> /\ rows[i][1].ts <= V[1].ts
        /\ \A n \in 1 .. N : V[n].ts = V[1].ts + n - 1
        /\ i # "boll" => \A n \in 1 .. N - 1 : V[n].settled
    BY DEF ViewRead, RowsRead
  <1>2. (\A r : r \in ToSet(V) <=> \E n \in 1 .. N : V[n] = r)
    BY <1>1 DEF ToSet
  <1>3. PICK m \in 1 .. N : V[m].ts = ts
    BY <1>2 DEF Stamps
  <1>4. PICK n \in 1 .. N : V[n].ts = last
    BY <1>2 DEF Stamps
  <1>5. \A k \in 1 .. N : V[k].ts \in Nat
    <2> TAKE k \in 1 .. N
    <2>1. V[k] \in Row
      BY <1>1
    <2> QED
      BY <2>1 DEF Row
  <1>6. RowOf(V, ts) \in ToSet(V) /\ RowOf(V, ts).ts = ts
    BY <1>2, <1>3 DEF RowOf
  <1>7. Stamps(V) = {r.ts : r \in ToSet(V)}
    BY DEF Stamps
  <1> DEFINE f == V[1].ts
             r == RowOf(V, ts)
  <1> HIDE DEF V, r
  <1>8. 1 \in 1 .. N /\ f \in Nat /\ V # <<>>
    BY <1>1, <1>3, <1>5
  <1> HIDE DEF f
  <1>9. ts = f + m - 1 /\ last = f + n - 1
    BY <1>1, <1>3, <1>4 DEF f
  <1>10. ts \in Nat /\ last \in Nat /\ m < n /\ m + 1 \in 1 .. N /\ f <= ts /\ m \in 1 .. N - 1
    BY <1>1, <1>8, <1>9
  <1>11. V[m + 1].ts = ts + 1
    <2>1. V[m + 1].ts = f + (m + 1) - 1
      BY <1>1, <1>10 DEF f
    <2> QED
      BY <1>8, <1>9, <2>1
  <1>12. ts + 1 \in Stamps(V)
    BY <1>2, <1>7, <1>10, <1>11
  <1>13. PICK k \in 1 .. N : V[k] = r
    BY <1>2, <1>6 DEF r
  <1>14. k = m
    <2>1. V[k].ts = f + k - 1 /\ V[k].ts = ts
      BY <1>1, <1>6, <1>13 DEF f, r
    <2> QED
      BY <1>1, <1>8, <1>9, <2>1
  <1>15. i # "boll" => r.settled
    BY <1>1, <1>10, <1>13, <1>14
  <1>16. rows[i] # <<>> /\ rows[i][1].ts <= ts
    <2>1. rows[i] # <<>> /\ rows[i][1].ts <= f
      BY <1>1, <1>8 DEF f
    <2>2. rows[i][1].ts \in Int
      BY <2>1, KnownRows DEF First
    <2> QED
      BY <1>8, <1>10, <2>1, <2>2
  <1> QED
    BY <1>10, <1>12, <1>15, <1>16 DEF V, r

\* What is scored lies side by side, and only its last candle may be torn.
LEMMA Torn == TableInv /\ RowInv /\ ViewRead => TornOnlyAtZero
  <1> SUFFICES ASSUME TableInv, RowInv, ViewRead, Answered, NEW ts \in _align_data
               PROVE  /\ \A i \in Indicators : ts \in Stamps(view[i])
                      /\ ts # Max(_align_data) =>
                            /\ ts + 1 \in _align_data
                            /\ RowOf(view["kline"], ts).final
                            /\ \A i \in Indicators \ {"boll"} : RowOf(view[i], ts).settled
    BY DEF TornOnlyAtZero
  <1>1. \A t \in _align_data : t \in Stamps(view["kline"]) /\ \A i \in Indicators : t \in Stamps(view[i])
    BY DEF _align_data
  <1> DEFINE last == Max(_align_data)
  <1> SUFFICES ASSUME ts # last
               PROVE  /\ ts + 1 \in _align_data
                      /\ RowOf(view["kline"], ts).final
                      /\ \A i \in Indicators \ {"boll"} : RowOf(view[i], ts).settled
    BY <1>1
  <1>2. last \in _align_data /\ ts <= last
    BY LastAligned
  <1> HIDE DEF last
  <1>3. "macd" \in Indicators
    BY ConstantsAssumption
  <1> DEFINE K == view["kline"]
             N == Len(K)
  <1>4. KlinesRead(K) /\ K \in Seq(Candle) /\ N \in Nat
    BY DEF ViewRead, KlinesRead
  <1>5. \A r : r \in ToSet(K) <=> \E n \in 1 .. N : K[n] = r
    BY <1>4 DEF ToSet
  <1>6. \A n \in 1 .. N : K[n].ts \in Nat
    <2> TAKE n \in 1 .. N
    <2>1. K[n] \in Candle
      BY <1>4
    <2> QED
      BY <2>1 DEF Candle
  <1>7. Stamps(K) = {r.ts : r \in ToSet(K)}
    BY DEF Stamps
  <1>8. PICK m \in 1 .. N : K[m].ts = ts
    BY <1>1, <1>5 DEF Stamps
  <1>9. PICK n \in 1 .. N : K[n].ts = last
    BY <1>1, <1>2, <1>5 DEF Stamps
  <1>10. ts \in Nat /\ last \in Nat /\ ts < last
    BY <1>2, <1>6, <1>8, <1>9
  <1>11. ASSUME NEW i \in Indicators
         PROVE  /\ ts + 1 \in Stamps(view[i])
                /\ i # "boll" => RowOf(view[i], ts).settled
                /\ rows[i] # <<>> /\ rows[i][1].ts <= ts
    <2>1. ts \in Stamps(view[i]) /\ last \in Stamps(view[i])
      BY <1>1, <1>2
    <2> QED
      BY <1>10, <2>1, RowsBetween
  <1>r. RowOf(K, ts) \in ToSet(K) /\ RowOf(K, ts).ts = ts
    BY <1>5, <1>8 DEF RowOf
  <1>12. last \in Stored /\ last <= Newest /\ Newest \in Nat
    <2>1. last \in Stored
      BY <1>4, <1>9 DEF KlinesRead
    <2>2. PICK k \in 1 .. Len(klines) : klines[k].ts = last
      BY <2>1 DEF Stored
    <2>3. Len(klines) \in Nat /\ Len(klines) \in 1 .. Len(klines) /\ ~(Len(klines) < k)
      BY <2>2, Candles
    <2>4. klines[Len(klines)].ts \in Nat /\ ~(klines[Len(klines)].ts < klines[k].ts)
      BY <2>2, <2>3, Candles
    <2> QED
      BY <1>10, <2>1, <2>2, <2>4 DEF Newest
  <1>13. \A t \in {ts, ts + 1} : t \in Stored /\ (t < Newest => t \notin Interim)
    <2>1. rows["macd"] # <<>> /\ rows["macd"][1].ts <= ts /\ First("macd") \in Nat
      BY <1>3, <1>11, KnownRows
    <2>2. \A t \in First("macd") - Window["macd"] + 1 .. Newest : t \in Stored /\ (t < Newest => t \notin Interim)
      BY <1>3, <2>1 DEF RowInv, Unbroken
    <2>3. Window["macd"] \in Nat /\ 1 <= Window["macd"]
      BY <1>3, IndicatorNumbers
    <2>4. First("macd") <= ts
      BY <2>1 DEF First
    <2>5. \A t \in {ts, ts + 1} : t \in First("macd") - Window["macd"] + 1 .. Newest
      BY <1>10, <1>12, <2>1, <2>3, <2>4
    <2> QED
      BY <2>2, <2>5
  <1> HIDE DEF K
  <1>14. m < n
    BY <1>4, <1>6, <1>8, <1>9, <1>10 DEF KlinesRead
  <1>15. ts + 1 \in Stamps(K)
    <2>1. K # <<>> /\ 1 \in 1 .. N /\ N \in 1 .. N
      BY <1>4, <1>8
    <2>2. K[1].ts <= ts
      <3>1. CASE m = 1
        BY <1>6, <1>8, <3>1
      <3>2. CASE m # 1
        <4>1. 1 < m
          BY <3>2
        <4>2. K[1].ts < K[m].ts
          BY <1>4, <2>1, <4>1 DEF KlinesRead
        <4> QED
          BY <1>6, <1>8, <2>1, <4>2
      <3> QED
        BY <3>1, <3>2
    <2>3. last <= K[N].ts
      <3>1. CASE n = N
        BY <1>6, <1>9, <3>1
      <3>2. CASE n # N
        <4>1. n < N
          BY <1>4, <3>2
        <4>2. K[n].ts < K[N].ts
          BY <1>4, <2>1, <4>1 DEF KlinesRead
        <4> QED
          BY <1>6, <1>9, <2>1, <4>2
      <3> QED
        BY <3>1, <3>2
    <2>4. K[1].ts <= ts + 1 /\ ts + 1 <= K[N].ts
      BY <1>6, <1>10, <2>1, <2>2, <2>3
    <2>5. \E k \in 1 .. N : K[k].ts = ts + 1
      BY <1>4, <1>13, <2>1, <2>4 DEF KlinesRead
    <2> QED
      BY <1>5, <1>7, <2>5
  <1>16. RowOf(K, ts).final
    <2>1. PICK k \in 1 .. N : K[k] = RowOf(K, ts)
      BY <1>5, <1>r DEF K
    <2>2. K[k].ts = ts
      BY <1>r, <2>1 DEF K
    <2>3. k < N
      <3>1. ~(n < k) /\ k # n
        BY <1>4, <1>6, <1>9, <1>10, <2>2 DEF KlinesRead
      <3> QED
        BY <1>4, <3>1
    <2>4. K[k].final \/ ts \in Abandoned
      BY <1>4, <2>2, <2>3 DEF KlinesRead
    <2>5. Abandoned \subseteq Interim
      <3>1. Len(klines) \in Nat
        BY Candles
      <3> QED
        BY <3>1 DEF Abandoned, Interim
    <2>6. ts \notin Interim
      BY <1>10, <1>12, <1>13
    <2> QED
      BY <2>1, <2>4, <2>5, <2>6
  <1>17. ts + 1 \in _align_data
    BY <1>11, <1>15 DEF _align_data, K
  <1> QED
    BY <1>11, <1>16, <1>17 DEF K

-----------------------------------------------------------------------------
(* The theorems.                                                           *)

LEMMA ViewStarts == Limit \in Nat /\ ViewInit => ViewRead
  <1> SUFFICES ASSUME Limit \in Nat, ViewInit PROVE ViewRead
    OBVIOUS
  <1>1. DOMAIN view = {"kline"} \cup Indicators /\ \A t \in DOMAIN view : view[t] = <<>>
    BY DEF ViewInit, NotRead
  <1>2. \A t \in DOMAIN view : Len(view[t]) <= Limit
    <2>1. Len(<<>>) <= Limit
      OBVIOUS
    <2> QED
      BY <1>1, <2>1
  <1>3. waiting \in Steps
    <2>1. Len(Order) \in Nat /\ Order \in Seq(Indicators)
      BY OrderType
    <2>2. SubSeq(Order, Len(Order) + 1, Len(Order)) = <<>> /\ Len(Order) + 1 \in 1 .. Len(Order) + 1
      BY <2>1
    <2> QED
      BY <2>2 DEF Steps, ViewInit
  <1> QED
    BY <1>1, <1>2, <1>3, EmptyRead DEF ViewRead

\* The pipeline runs as it does without requests, and what they hold is sound.
LEMMA ViewKept == ASSUME ViewAssumption PROVE ViewSpec => [](TableInv /\ RowInv /\ Types /\ ViewRead)
  <1> DEFINE ViewInv == TableInv /\ RowInv /\ Types /\ ViewRead
  <1>0. Limit \in Nat
    BY DEF ViewAssumption
  <1>1. ViewInit => ViewInv
    BY <1>0, ViewStarts, InitTable, InitRows, InitTypes DEF ViewInit
  <1>2. ASSUME ViewInv, [ViewNext]_viewVars PROVE ViewInv'
    <2>1. [Next]_vars
      BY <1>2 DEF ViewNext, viewVars, _calculate_symbol_score, ReadNext
    <2>2. TableInv' /\ RowInv' /\ Types'
      BY <1>2, <2>1, SaveStep, OtherStep, RowStep, TypesStep
    <2>3. ViewRead'
      BY <1>0, <1>2, <2>2, ViewStep
    <2> QED
      BY <2>2, <2>3
  <1> HIDE DEF ViewInv
  <1>3. ViewInit /\ [][ViewNext]_viewVars => []ViewInv
    BY <1>1, <1>2, PTL
  <1> QED
    BY <1>3 DEF ViewSpec, ViewInv

\* However the pipeline writes between the reads, what is scored are candles in a
\* row, and only the newest of them may be torn (apis/plot.py:92-180).
THEOREM ScoredInARow == ASSUME ViewAssumption PROVE ViewSpec => [](TornOnlyAtZero /\ ViewTypeOK)
  <1>1. TableInv /\ RowInv /\ Types /\ ViewRead => TornOnlyAtZero
    BY Torn
  <1>2. TableInv /\ RowInv /\ Types /\ ViewRead => ViewTypeOK
    BY TypesSuffice DEF ViewTypeOK, ViewRead, Steps
  <1> QED
    BY <1>1, <1>2, ViewKept, PTL

=============================================================================
