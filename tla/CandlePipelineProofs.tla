------------------------ MODULE CandlePipelineProofs ------------------------
(***************************************************************************)
(* Theorems about CandlePipeline, for any indicators, windows, limits of   *)
(* the exchange and bounds.                                                *)
(***************************************************************************)
EXTENDS CandlePipeline, WellFoundedInduction, NaturalsInduction, FiniteSetTheorems,
        SequenceTheorems, TLAPS

USE DEF tables, keys

-----------------------------------------------------------------------------
(* Numbers, and what a fold over a batch computes.                         *)

\* A set of naturals has a least element.
LEMMA LeastNumber ==
  ASSUME NEW T, T \subseteq Nat, T # {}
  PROVE  \E n \in T : \A m \in T : n <= m
  <1>1. PICK n \in T : \A m \in T : ~(<<m, n>> \in OpToRel(<, Nat))
    BY NatLessThanWellFounded, WFMin
  <1>2. \A m \in Nat : m < n => <<m, n>> \in OpToRel(<, Nat)
    BY DEF OpToRel
  <1>3. \A m \in T : ~(m < n) /\ m \in Nat /\ n \in Nat
    BY <1>1, <1>2
  <1>4. \A m \in T : n <= m
    BY <1>3
  <1> QED
    BY <1>4

\* The tables between the rows of a batch: each is the one before with one
\* more row saved.
Between(after, table, batch, k) ==
  after = [n \in 0 .. k |-> IF n = 0 THEN table ELSE Upsert(after[n - 1], batch[n])]

\* Such tables exist for as many rows as wanted.
LEMMA BetweenExists ==
  ASSUME NEW table, NEW batch
  PROVE  \A k \in Nat : \E after : Between(after, table, batch, k)
  <1> DEFINE T == {k \in Nat : ~ \E after : Between(after, table, batch, k)}
  <1> SUFFICES ASSUME T # {} PROVE FALSE
    OBVIOUS
  <1>1. PICK k \in T : \A m \in T : k <= m
    BY LeastNumber
  <1>2. k # 0
    <2>1. Between([n \in 0 .. 0 |-> table], table, batch, 0)
      BY DEF Between
    <2> QED
      BY <2>1
  <1>3. k - 1 \in Nat /\ k \in Nat /\ k - 1 \notin T
    BY <1>1, <1>2
  <1>4. PICK after : Between(after, table, batch, k - 1)
    BY <1>3
  <1> DEFINE more == [n \in 0 .. k |-> IF n = k THEN Upsert(after[k - 1], batch[k]) ELSE after[n]]
  <1>5. ASSUME NEW n \in 0 .. k
        PROVE  more[n] = IF n = 0 THEN table ELSE Upsert(more[n - 1], batch[n])
    <2>1. CASE n = 0
      BY <1>2, <1>3, <1>4, <2>1 DEF Between
    <2>2. CASE n # 0 /\ n # k
      <3>1. n \in 0 .. k - 1 /\ n - 1 \in 0 .. k /\ n - 1 # k
        BY <1>3, <2>2
      <3>2. more[n] = after[n] /\ more[n - 1] = after[n - 1]
        BY <2>2, <3>1
      <3>3. after[n] = Upsert(after[n - 1], batch[n])
        BY <1>4, <2>2, <3>1 DEF Between
      <3> HIDE DEF more
      <3> QED
        BY <2>2, <3>2, <3>3
    <2>3. CASE n = k
      <3>1. k - 1 \in 0 .. k /\ k - 1 # k /\ k \in 0 .. k
        BY <1>3
      <3>2. more[k] = Upsert(after[k - 1], batch[k]) /\ more[k - 1] = after[k - 1]
        BY <3>1
      <3> HIDE DEF more
      <3> QED
        BY <1>2, <2>3, <3>2
    <2> QED
      BY <2>1, <2>2, <2>3
  <1>6. Between(more, table, batch, k)
    <2>1. more = [n \in 0 .. k |-> more[n]]
      OBVIOUS
    <2>2. [n \in 0 .. k |-> more[n]]
            = [n \in 0 .. k |-> IF n = 0 THEN table ELSE Upsert(more[n - 1], batch[n])]
      <3> HIDE DEF more
      <3> QED
        BY <1>5
    <2> HIDE DEF more
    <2> QED
      BY <2>1, <2>2 DEF Between
  <1> QED
    BY <1>1, <1>6

\* Saving a batch is saving its rows one after the other.
LEMMA UpsertedSteps ==
  ASSUME NEW table, NEW batch, Len(batch) \in Nat
  PROVE  \E after : /\ after[0] = table
                    /\ \A n \in 1 .. Len(batch) : after[n] = Upsert(after[n - 1], batch[n])
                    /\ Upserted(table, batch) = after[Len(batch)]
  <1> DEFINE after == CHOOSE f : Between(f, table, batch, Len(batch))
  <1>1. Between(after, table, batch, Len(batch))
    BY BetweenExists
  <1>2. Upserted(table, batch) = after[Len(batch)]
    BY DEF Upserted, Between
  <1> HIDE DEF after
  <1>3. after[0] = table /\ \A n \in 1 .. Len(batch) : after[n] = Upsert(after[n - 1], batch[n])
    BY <1>1 DEF Between
  <1> QED
    BY <1>2, <1>3

-----------------------------------------------------------------------------
(* Saving consecutive candles over a table that ends in the same candles.  *)

\* A run of candles, the first of which the table keeps after "keep" rows, as
\* far as it has them.
Overlaps(table, batch, keep, first) ==
  /\ table \in Seq(Candle) /\ batch \in Seq(Candle) /\ first \in Nat
  /\ keep \in 0 .. Len(table) /\ Len(table) - keep <= Len(batch)
  /\ \A n \in 1 .. Len(batch) : batch[n].ts = first + n - 1
  /\ \A n \in 1 .. keep : table[n].ts < first
  /\ \A n \in keep + 1 .. Len(table) : table[n].ts = first + n - keep - 1

\* The table once the first k rows of the batch are saved.
Longest(a, b) == IF a >= b THEN a ELSE b
Saved(table, batch, keep, k) ==
  [n \in 1 .. Longest(keep + k, Len(table)) |->
     IF n <= keep \/ n > keep + k THEN table[n] ELSE batch[n - keep]]

\* It is a sequence of candles, and what its rows are.
LEMMA SavedType ==
  ASSUME NEW table, NEW batch, NEW keep, NEW first, Overlaps(table, batch, keep, first),
         NEW k \in 0 .. Len(batch)
  PROVE  /\ Saved(table, batch, keep, k) \in Seq(Candle)
         /\ Len(Saved(table, batch, keep, k)) = Longest(keep + k, Len(table))
         /\ Longest(keep + k, Len(table)) \in Nat
         /\ \A n \in 1 .. Longest(keep + k, Len(table)) :
              /\ Saved(table, batch, keep, k)[n] =
                   IF n <= keep \/ n > keep + k THEN table[n] ELSE batch[n - keep]
              /\ Saved(table, batch, keep, k)[n] \in Candle
  <1> DEFINE L == Longest(keep + k, Len(table))
             s == Saved(table, batch, keep, k)
  <1>1. /\ table \in Seq(Candle) /\ batch \in Seq(Candle) /\ keep \in 0 .. Len(table)
        /\ Len(table) \in Nat /\ Len(batch) \in Nat /\ k \in Nat /\ k <= Len(batch) /\ keep \in Nat
    BY DEF Overlaps
  <1>2. L \in Nat /\ (L = keep + k \/ L = Len(table))
    BY <1>1 DEF Longest
  <1>3. ASSUME NEW n \in 1 .. L
        PROVE  (IF n <= keep \/ n > keep + k THEN table[n] ELSE batch[n - keep]) \in Candle
    <2>1. CASE n <= keep \/ n > keep + k
      <3>1. n \in 1 .. Len(table)
        BY <1>1, <1>2, <2>1
      <3> QED
        BY <1>1, <2>1, <3>1
    <2>2. CASE ~(n <= keep \/ n > keep + k)
      <3>1. n - keep \in 1 .. Len(batch)
        BY <1>1, <1>2, <2>2
      <3> QED
        BY <1>1, <2>2, <3>1
    <2> QED
      BY <2>1, <2>2
  <1>4. s = [n \in 1 .. L |-> IF n <= keep \/ n > keep + k THEN table[n] ELSE batch[n - keep]]
    BY DEF Saved
  <1> HIDE DEF L, s
  <1>5. s \in [1 .. L -> Candle]
    BY <1>3, <1>4
  <1>6. s \in Seq(Candle) /\ Len(s) = L
    BY <1>2, <1>5
  <1>7. \A n \in 1 .. L : /\ s[n] = IF n <= keep \/ n > keep + k THEN table[n] ELSE batch[n - keep]
                          /\ s[n] \in Candle
    BY <1>4, <1>5
  <1> QED
    BY <1>2, <1>6, <1>7 DEF L, s

\* One more row of the batch replaces its candle, or is appended.
LEMMA SavedStep ==
  ASSUME NEW table, NEW batch, NEW keep, NEW first, Overlaps(table, batch, keep, first),
         NEW k \in 1 .. Len(batch)
  PROVE  Upsert(Saved(table, batch, keep, k - 1), batch[k]) = Saved(table, batch, keep, k)
  <1> DEFINE s == Saved(table, batch, keep, k - 1)
             t == Saved(table, batch, keep, k)
             row == batch[k]
             L == Longest(keep + (k - 1), Len(table))
  <1>1. /\ table \in Seq(Candle) /\ batch \in Seq(Candle) /\ keep \in Nat /\ keep <= Len(table)
        /\ Len(table) \in Nat /\ Len(batch) \in Nat /\ k \in Nat /\ k >= 1 /\ first \in Nat
        /\ k - 1 \in 0 .. Len(batch) /\ k \in 0 .. Len(batch)
    BY DEF Overlaps
  <1>2. row \in Candle /\ row.ts = first + k - 1
    BY <1>1 DEF Overlaps
  <1>a. /\ s \in Seq(Candle) /\ Len(s) = L /\ L \in Nat
        /\ \A n \in 1 .. L :
             /\ s[n] = IF n <= keep \/ n > keep + (k - 1) THEN table[n] ELSE batch[n - keep]
             /\ s[n] \in Candle
    <2>1. ASSUME NEW j \in 0 .. Len(batch)
          PROVE  /\ Saved(table, batch, keep, j) \in Seq(Candle)
                 /\ Len(Saved(table, batch, keep, j)) = Longest(keep + j, Len(table))
                 /\ Longest(keep + j, Len(table)) \in Nat
                 /\ \A n \in 1 .. Longest(keep + j, Len(table)) :
                      /\ Saved(table, batch, keep, j)[n] =
                           IF n <= keep \/ n > keep + j THEN table[n] ELSE batch[n - keep]
                      /\ Saved(table, batch, keep, j)[n] \in Candle
      BY SavedType
    <2> QED
      BY <1>1, <2>1
  <1>5. /\ t = [n \in 1 .. Longest(keep + k, Len(table)) |->
                  IF n <= keep \/ n > keep + k THEN table[n] ELSE batch[n - keep]]
        /\ s = [n \in 1 .. L |-> s[n]]
    BY DEF Saved
  <1>b. L = IF keep + (k - 1) >= Len(table) THEN keep + (k - 1) ELSE Len(table)
    BY DEF Longest
  <1> HIDE DEF s, t, L, row
  <1>3. /\ s \in Seq(Candle) /\ Len(s) = L /\ L \in Nat
        /\ \A n \in 1 .. L : s[n] = IF n <= keep \/ n > keep + (k - 1) THEN table[n] ELSE batch[n - keep]
    BY <1>a
  <1>4. \A n \in 1 .. L : s[n].ts = row.ts <=> n = keep + k
    <2> SUFFICES ASSUME NEW n \in 1 .. L PROVE s[n].ts = row.ts <=> n = keep + k
      OBVIOUS
    <2>1. L = keep + (k - 1) \/ L = Len(table)
      BY <1>b
    <2>2. CASE n <= keep
      <3>1. s[n] = table[n] /\ table[n].ts < first /\ table[n].ts \in Nat
        <4>1. n \in 1 .. keep /\ n \in 1 .. Len(table)
          BY <1>1, <2>2
        <4>2. table[n] \in Candle
          BY <1>1, <4>1
        <4> QED
          BY <1>3, <2>2, <4>1, <4>2 DEF Overlaps, Candle
      <3>2. row.ts >= first /\ n # keep + k
        BY <1>1, <1>2, <2>2
      <3> QED
        BY <1>1, <1>2, <3>1, <3>2
    <2>3. CASE n > keep + (k - 1)
      <3>1. n \in keep + 1 .. Len(table)
        BY <1>1, <1>3, <2>1, <2>3
      <3>2. s[n] = table[n] /\ table[n].ts = first + n - keep - 1
        BY <1>3, <2>3, <3>1 DEF Overlaps
      <3> QED
        BY <1>1, <1>2, <3>1, <3>2
    <2>4. CASE ~(n <= keep) /\ ~(n > keep + (k - 1))
      <3>1. n - keep \in 1 .. Len(batch) /\ n # keep + k /\ n \in Nat
        BY <1>1, <1>3, <2>4
      <3>2. s[n] = batch[n - keep] /\ batch[n - keep].ts = first + (n - keep) - 1
        BY <1>3, <2>4, <3>1 DEF Overlaps
      <3> QED
        BY <1>1, <1>2, <3>1, <3>2
    <2> QED
      BY <2>2, <2>3, <2>4
  <1>6. CASE keep + k <= Len(table)
    <2>1. L = Len(table) /\ Longest(keep + k, Len(table)) = L /\ keep + k \in 1 .. L
      BY <1>1, <1>b, <1>6 DEF Longest
    <2>2. Upsert(s, row) = [n \in 1 .. L |-> IF s[n].ts = row.ts THEN row ELSE s[n]]
      <3>1. DOMAIN s = 1 .. L
        BY <1>5
      <3>2. \E n \in DOMAIN s : s[n].ts = row.ts
        BY <1>4, <2>1, <3>1
      <3> QED
        BY <3>1, <3>2 DEF Upsert
    <2>3. ASSUME NEW n \in 1 .. L
          PROVE  (IF s[n].ts = row.ts THEN row ELSE s[n])
                    = IF n <= keep \/ n > keep + k THEN table[n] ELSE batch[n - keep]
      <3>1. CASE n = keep + k
        <4>1. s[n].ts = row.ts /\ n - keep = k /\ ~(n <= keep) /\ ~(n > keep + k)
          BY <1>1, <1>4, <2>3, <3>1
        <4> QED
          BY <4>1 DEF row
      <3>2. CASE n # keep + k
        <4>1. ~(s[n].ts = row.ts)
          BY <1>4, <2>3, <3>2
        <4>2. n > keep + k <=> n > keep + (k - 1)
          BY <1>1, <1>3, <3>2
        <4> QED
          BY <1>3, <4>1, <4>2
      <3> QED
        BY <3>1, <3>2
    <2> QED
      BY <1>5, <2>1, <2>2, <2>3 DEF s, t, row
  <1>7. CASE ~(keep + k <= Len(table))
    <2>1. L = keep + (k - 1) /\ Longest(keep + k, Len(table)) = L + 1 /\ keep + k = L + 1
      BY <1>1, <1>b, <1>7 DEF Longest
    <2>2. Upsert(s, row) = Append(s, row)
      <3>1. DOMAIN s = 1 .. L
        BY <1>5
      <3>2. ~ \E n \in DOMAIN s : s[n].ts = row.ts
        BY <1>3, <1>4, <2>1, <3>1
      <3> QED
        BY <3>2 DEF Upsert
    <2>3. Append(s, row) = [n \in 1 .. L + 1 |-> IF n <= L THEN s[n] ELSE row]
      <3>1. Append(s, row) \in Seq(Candle) /\ Len(Append(s, row)) = L + 1
        BY <1>2, <1>3
      <3>a. ASSUME NEW q \in Seq(Candle) PROVE q = [n \in 1 .. Len(q) |-> q[n]]
        OBVIOUS
      <3>2. Append(s, row) = [n \in 1 .. L + 1 |-> Append(s, row)[n]]
        BY <3>1, <3>a
      <3>3. \A n \in 1 .. L : Append(s, row)[n] = s[n]
        BY <1>2, <1>3
      <3>4. Append(s, row)[L + 1] = row
        BY <1>2, <1>3
      <3>5. \A n \in 1 .. L + 1 : (n <= L /\ n \in 1 .. L) \/ (~(n <= L) /\ n = L + 1)
        BY <1>3
      <3>6. \A n \in 1 .. L + 1 : Append(s, row)[n] = IF n <= L THEN s[n] ELSE row
        BY <3>3, <3>4, <3>5
      <3> QED
        BY <3>2, <3>6
    <2>4. ASSUME NEW n \in 1 .. L + 1
          PROVE  (IF n <= L THEN s[n] ELSE row)
                    = IF n <= keep \/ n > keep + k THEN table[n] ELSE batch[n - keep]
      <3>1. CASE n <= L
        <4>1. n \in 1 .. L /\ (n > keep + k <=> n > keep + (k - 1))
          BY <1>1, <1>3, <2>1, <3>1
        <4> QED
          BY <1>3, <3>1, <4>1
      <3>2. CASE ~(n <= L)
        <4>1. n - keep = k /\ ~(n <= keep) /\ ~(n > keep + k)
          BY <1>1, <1>3, <2>1, <2>4, <3>2
        <4> QED
          BY <3>2, <4>1 DEF row
      <3> QED
        BY <3>1, <3>2
    <2>5. t = [n \in 1 .. L + 1 |-> IF n <= keep \/ n > keep + k THEN table[n] ELSE batch[n - keep]]
      BY <1>5, <2>1
    <2>6. Append(s, row) = t
      BY <2>3, <2>4, <2>5
    <2> QED
      BY <2>2, <2>6 DEF s, t, row
  <1> QED
    BY <1>6, <1>7

\* A batch that overlaps the end of the table replaces what it overlaps.
LEMMA UpsertedRun ==
  ASSUME NEW table, NEW batch, NEW keep, NEW first, Overlaps(table, batch, keep, first)
  PROVE  Upserted(table, batch) = Saved(table, batch, keep, Len(batch))
  <1>1. /\ table \in Seq(Candle) /\ Len(table) \in Nat /\ Len(batch) \in Nat
        /\ keep \in Nat /\ keep <= Len(table)
    BY DEF Overlaps
  <1>2. PICK after : /\ after[0] = table
                     /\ \A n \in 1 .. Len(batch) : after[n] = Upsert(after[n - 1], batch[n])
                     /\ Upserted(table, batch) = after[Len(batch)]
    BY <1>1, UpsertedSteps
  <1> DEFINE T == {k \in 0 .. Len(batch) : after[k] # Saved(table, batch, keep, k)}
  <1>3. ASSUME T # {} PROVE FALSE
    <2>1. PICK k \in T : \A m \in T : k <= m
      <3>1. T \subseteq Nat
        BY <1>1
      <3> QED
        BY <1>3, <3>1, LeastNumber
    <2>2. CASE k = 0
      <3>1. Longest(keep + 0, Len(table)) = Len(table)
        BY <1>1 DEF Longest
      <3>2. \A n \in 1 .. Len(table) : n <= keep \/ n > keep + 0
        BY <1>1
      <3>3. table = [n \in 1 .. Len(table) |-> table[n]]
        BY <1>1
      <3>4. Saved(table, batch, keep, 0) = table
        BY <3>1, <3>2, <3>3 DEF Saved
      <3> QED
        BY <1>2, <2>1, <2>2, <3>4
    <2>3. CASE k # 0
      <3>1. k \in 1 .. Len(batch) /\ k - 1 \in 0 .. Len(batch) /\ ~(k <= k - 1)
        BY <1>1, <2>1, <2>3
      <3>2. after[k - 1] = Saved(table, batch, keep, k - 1)
        BY <2>1, <3>1
      <3>3. after[k] = Saved(table, batch, keep, k)
        BY <1>2, <3>1, <3>2, SavedStep
      <3> QED
        BY <2>1, <3>3
    <2> QED
      BY <2>2, <2>3
  <1>4. Len(batch) \in 0 .. Len(batch)
    BY <1>1
  <1> QED
    BY <1>2, <1>3, <1>4

-----------------------------------------------------------------------------
(* The constants, and the smallest and largest of two numbers.             *)

\* The MACD waits longest.
LEMMA LongestIsMacd ==
  /\ LongestNeed = Need["macd"] /\ LongestNeed \in Nat /\ LongestNeed >= 2
  /\ FetchLimit \in Nat /\ FetchLimit >= LongestNeed
  <1> DEFINE S == {Need[i] : i \in Indicators \ {"boll"}}
  <1>1. /\ "macd" \in Indicators \ {"boll"} /\ \A i \in Indicators : Need[i] \in Nat /\ Need[i] <= Need["macd"]
        /\ Window["macd"] \in Nat /\ Window["macd"] >= 1 /\ Take["macd"] \in Nat
        /\ Window["macd"] <= Take["macd"] /\ Take["macd"] < Need["macd"]
    BY ConstantsAssumption
  <1>2. Need["macd"] \in S /\ S \subseteq Nat /\ \A y \in S : Need["macd"] >= y
    BY <1>1
  <1>3. Max(S) \in S /\ \A y \in S : Max(S) >= y
    <2> HIDE DEF S
    <2> QED
      BY <1>2 DEF Max
  <1>4. LongestNeed = Max(S)
    BY DEF LongestNeed
  <1> HIDE DEF S
  <1>5. LongestNeed = Need["macd"]
    <2>1. Max(S) >= Need["macd"] /\ Need["macd"] >= Max(S) /\ Max(S) \in Nat /\ Need["macd"] \in Nat
      BY <1>2, <1>3
    <2>2. \A x, y \in Nat : (x >= y /\ y >= x) => x = y
      OBVIOUS
    <2> QED
      BY <1>4, <2>1, <2>2
  <1> QED
    BY <1>1, <1>5, ConstantsAssumption

\* The smaller and the larger of two numbers.
LEMMA OfTwo ==
  ASSUME NEW a \in Int, NEW b \in Int
  PROVE  /\ Max({a, b}) = IF a >= b THEN a ELSE b
         /\ Min({a, b}) = IF a <= b THEN a ELSE b
  <1>1. Max({a, b}) \in {a, b} /\ \A y \in {a, b} : Max({a, b}) >= y
    <2>1. \E x \in {a, b} : \A y \in {a, b} : x >= y
      <3>1. CASE a >= b
        BY <3>1
      <3>2. CASE ~(a >= b)
        BY <3>2
      <3> QED
        BY <3>1, <3>2
    <2> QED
      BY <2>1 DEF Max
  <1>2. Min({a, b}) \in {a, b} /\ \A y \in {a, b} : Min({a, b}) <= y
    <2>1. \E x \in {a, b} : \A y \in {a, b} : x <= y
      <3>1. CASE a <= b
        BY <3>1
      <3>2. CASE ~(a <= b)
        BY <3>2
      <3> QED
        BY <3>1, <3>2
    <2> QED
      BY <2>1 DEF Min
  <1> QED
    BY <1>1, <1>2

-----------------------------------------------------------------------------
(* The invariant of the kline table.                                       *)

\* No candle of the future is stored, and the table follows the clock.
Numbers ==
  /\ clock \in Nat /\ klines \in Seq(Candle)
  /\ \A n \in 1 .. Len(klines) : klines[n].ts <= clock
Rising == \A m, n \in 1 .. Len(klines) : m < n => klines[m].ts < klines[n].ts

\* The newest candles, as many as the MACD waits for, leave no gap, and all but
\* the newest have their closing prices.
TailExact ==
  \A n \in 1 .. Len(klines) : n > Len(klines) - LongestNeed =>
    /\ klines[n].ts = klines[Len(klines)].ts - (Len(klines) - n)
    /\ n < Len(klines) => klines[n].final

\* A shorter table begins with the first candle of all.
FromStart == klines = <<>> \/ Len(klines) >= LongestNeed \/ klines[1].ts = 0

\* Rows of indicators are computed from candles.
RowsBehind == (\E i \in Indicators : rows[i] # <<>>) => klines # <<>>

\* What was fetched follows the newest candle of the table, or begins with one
\* of its newest rows and goes at least as far; if nothing overlaps it is as long
\* as the longest window.
Fits(batch, now, first, keep) ==
  /\ Overlaps(klines, batch, keep, first)
  /\ \A n \in 1 .. Len(batch) : batch[n].final <=> batch[n].ts < now
  /\ Len(batch) >= 1 /\ first + Len(batch) - 1 <= now
  /\ Len(klines) - keep <= LongestNeed
  /\ keep = Len(klines) => \/ Len(batch) >= LongestNeed
                           \/ klines = <<>> /\ first = 0
BatchFits ==
  consumer.pc = "saving" =>
    \E now, first \in 0 .. clock, keep \in 0 .. Len(klines) : Fits(consumer.batch, now, first, keep)

TableInv == Numbers /\ Rising /\ TailExact /\ FromStart /\ RowsBehind /\ BatchFits

\* A run of consecutive candles up to the clock, of which all but the open one
\* have their closing prices.
Run(f, l) == [n \in 1 .. l - f + 1 |-> [ts |-> f + n - 1, final |-> f + n - 1 < clock]]

\* A run is a sequence of candles that follow each other.
LEMMA RunType ==
  ASSUME NEW f \in Nat, NEW l \in Nat, f <= l
  PROVE  /\ Run(f, l) \in Seq(Candle) /\ Len(Run(f, l)) = l - f + 1 /\ l - f + 1 \in Nat
         /\ \A n \in 1 .. Len(Run(f, l)) :
              /\ Run(f, l)[n].ts = f + n - 1
              /\ Run(f, l)[n].final <=> Run(f, l)[n].ts < clock
  <1> DEFINE N == l - f + 1
  <1>1. N \in Nat
    OBVIOUS
  <1> HIDE DEF N
  <1> DEFINE s == [n \in 1 .. N |-> [ts |-> f + n - 1, final |-> f + n - 1 < clock]]
  <1>2. ASSUME NEW n \in 1 .. N PROVE [ts |-> f + n - 1, final |-> f + n - 1 < clock] \in Candle
    <2>1. f + n - 1 \in Nat /\ (f + n - 1 < clock) \in BOOLEAN
      BY <1>1
    <2> QED
      BY <2>1 DEF Candle
  <1>3. s \in [1 .. N -> Candle]
    BY <1>2
  <1>4. \A n \in 1 .. N : /\ s[n].ts = f + n - 1
                          /\ s[n].final <=> s[n].ts < clock
    OBVIOUS
  <1> HIDE DEF s
  <1>5. s \in Seq(Candle) /\ Len(s) = N
    BY <1>1, <1>3
  <1>6. Run(f, l) = s /\ N = l - f + 1
    BY DEF Run, s, N
  <1> QED
    BY <1>1, <1>4, <1>5, <1>6

\* A run fits the table if it begins behind it, or in its newest rows.
LEMMA RunFits ==
  ASSUME Numbers, Rising, TailExact, NEW f \in Nat, NEW l \in Nat, f <= l, l <= clock,
         \/ /\ \A n \in 1 .. Len(klines) : klines[n].ts < f
            /\ l - f + 1 >= LongestNeed \/ (klines = <<>> /\ f = 0)
         \/ /\ klines # <<>> /\ f <= klines[Len(klines)].ts /\ klines[Len(klines)].ts <= l
            /\ klines[Len(klines)].ts - f < LongestNeed
            /\ klines[Len(klines)].ts - f < Len(klines)
  PROVE  \E keep \in 0 .. Len(klines) : Fits(Run(f, l), clock, f, keep)
  <1> DEFINE L == Len(klines)
             r == Run(f, l)
             t == klines[L].ts
  <1>1. /\ klines \in Seq(Candle) /\ L \in Nat /\ clock \in Nat /\ LongestNeed \in Nat
        /\ LongestNeed >= 2
    BY LongestIsMacd DEF Numbers
  <1>2. /\ r \in Seq(Candle) /\ Len(r) = l - f + 1 /\ l - f + 1 \in Nat
        /\ \A n \in 1 .. Len(r) : /\ r[n].ts = f + n - 1
                                  /\ r[n].final <=> r[n].ts < clock
    BY RunType
  <1> HIDE DEF r
  <1>3. Len(r) >= 1 /\ f + Len(r) - 1 <= clock
    BY <1>1, <1>2
  <1>4. ASSUME \A n \in 1 .. L : klines[n].ts < f,
               l - f + 1 >= LongestNeed \/ (klines = <<>> /\ f = 0)
        PROVE  Fits(r, clock, f, L)
    <2>1. L \in 0 .. L /\ L - L <= Len(r) /\ L - L <= LongestNeed /\ L + 1 .. L = {}
      BY <1>1, <1>2
    <2>2. Overlaps(klines, r, L, f)
      BY <1>1, <1>2, <1>4, <2>1 DEF Overlaps
    <2>3. Len(r) >= LongestNeed \/ (klines = <<>> /\ f = 0)
      BY <1>2, <1>4
    <2> QED
      BY <1>2, <1>3, <2>1, <2>2, <2>3 DEF Fits
  <1>5. ASSUME klines # <<>>, f <= t, t <= l, t - f < LongestNeed, t - f < L
        PROVE  \E keep \in 0 .. L : Fits(r, clock, f, keep)
    <2>1. L >= 1 /\ klines[L] \in Candle
      BY <1>1, <1>5
    <2>2. t \in Nat
      BY <2>1 DEF Candle
    <2> HIDE DEF t
    <2> DEFINE keep == L - (t - f + 1)
    <2>3. keep \in 0 .. L /\ keep < L /\ L - keep = t - f + 1 /\ keep + 1 \in 1 .. L
      BY <1>1, <1>5, <2>1, <2>2
    <2> HIDE DEF keep
    <2>4. ASSUME NEW n \in keep + 1 .. L PROVE klines[n].ts = f + n - keep - 1
      <3>1. n \in 1 .. L /\ n > L - LongestNeed
        BY <1>1, <1>5, <2>2, <2>3
      <3>2. klines[n].ts = t - (L - n)
        BY <3>1 DEF TailExact, t
      <3>3. n \in Nat /\ f \in Nat /\ t \in Nat /\ L \in Nat /\ keep \in Nat /\ L - keep = t - f + 1
        BY <1>1, <2>2, <2>3, <3>1
      <3> HIDE DEF L
      <3>4. t - (L - n) = f + n - keep - 1
        BY <3>3
      <3> QED
        BY <3>2, <3>4
    <2>5. klines[keep + 1].ts = f
      <3>1. keep + 1 \in keep + 1 .. L /\ f + (keep + 1) - keep - 1 = f
        BY <1>1, <2>3
      <3> QED
        BY <2>4, <3>1
    <2>6. ASSUME NEW n \in 1 .. keep PROVE klines[n].ts < f
      <3>1. n \in 1 .. L /\ n < keep + 1
        BY <1>1, <2>3
      <3> QED
        BY <2>3, <2>5, <3>1 DEF Rising
    <2>7. L - keep <= Len(r) /\ L - keep <= LongestNeed /\ keep # L
      BY <1>1, <1>2, <1>5, <2>2, <2>3
    <2>8. Overlaps(klines, r, keep, f)
      BY <1>1, <1>2, <2>3, <2>4, <2>6, <2>7 DEF Overlaps
    <2>9. Fits(r, clock, f, keep)
      BY <1>2, <1>3, <2>7, <2>8 DEF Fits
    <2> QED
      BY <2>3, <2>9
  <1>6. L \in 0 .. L
    BY <1>1
  <1> QED
    BY <1>4, <1>5, <1>6 DEF r

-----------------------------------------------------------------------------
(* The steps.                                                              *)

\* A table that holds rows of indicators, or a recent candle, is not empty.
LEMMA Starts ==
  ASSUME RowsBehind, NEW start \in InitialStarts
  PROVE  \/ start = None /\ klines # <<>>
         \/ start = clock - LongestNeed + 1
  <1> DEFINE first  == clock - LongestNeed + 1
             recent == {k \in ToSet(klines) : k.ts >= first}
  <1>1. CASE \E i \in Indicators \ {"boll"} : rows[i] # <<>>
    <2>1. start = None
      BY <1>1 DEF InitialStarts
    <2> QED
      BY <1>1, <2>1 DEF RowsBehind
  <1>2. CASE (~ \E i \in Indicators \ {"boll"} : rows[i] # <<>>) /\ recent = {}
    BY <1>2 DEF InitialStarts
  <1>3. CASE (~ \E i \in Indicators \ {"boll"} : rows[i] # <<>>) /\ recent # {}
    <2>1. start \in {IF k.ts = first THEN None ELSE first : k \in recent}
      BY <1>3 DEF InitialStarts
    <2>2. klines # <<>>
      BY <1>3 DEF ToSet
    <2> QED
      BY <2>1, <2>2
  <1> QED
    BY <1>1, <1>2, <1>3

\* What is fetched fits the table.
LEMMA FetchStep == TableInv /\ Fetch => BatchFits'
  <1> SUFFICES ASSUME TableInv, Fetch PROVE BatchFits'
    OBVIOUS
  <1> USE DEF TableInv
  <1>1. PICK start \in InitialStarts :
          consumer' = [pc |-> "saving", batch |-> Fetched(start)]
    BY DEF Fetch
  <1>2. klines' = klines /\ clock' = clock
    BY DEF Fetch
  <1> DEFINE L  == Len(klines)
             t  == klines[L].ts
             from == IF start = None THEN Last(klines).ts - 1 ELSE start
             f  == Max({0, from})
             l  == Min({f + FetchLimit - 1, clock})
  <1>3. Fetched(start) = Run(f, l)
    BY DEF Fetched, Run
  <1>4. /\ klines \in Seq(Candle) /\ L \in Nat /\ clock \in Nat
        /\ LongestNeed \in Nat /\ LongestNeed >= 2
        /\ FetchLimit \in Nat /\ FetchLimit >= LongestNeed
        /\ \A n \in 1 .. L : klines[n].ts \in Nat /\ klines[n].ts <= clock
    <2>1. klines \in Seq(Candle) /\ L \in Nat /\ clock \in Nat
      BY DEF Numbers
    <2>2. \A n \in 1 .. L : klines[n] \in Candle
      BY <2>1
    <2>3. \A n \in 1 .. L : klines[n].ts \in Nat
      BY <2>2 DEF Candle
    <2> QED
      BY <2>1, <2>3, LongestIsMacd DEF Numbers
  <1>5. ASSUME f \in Nat, l \in Nat, f <= l, l <= clock,
               \/ /\ \A n \in 1 .. L : klines[n].ts < f
                  /\ l - f + 1 >= LongestNeed \/ (klines = <<>> /\ f = 0)
               \/ /\ klines # <<>> /\ f <= t /\ t <= l /\ t - f < LongestNeed /\ t - f < L
        PROVE  BatchFits'
    <2>1. PICK keep \in 0 .. L : Fits(Run(f, l), clock, f, keep)
      BY <1>5, RunFits
    <2> HIDE DEF f, l
    <2>2. consumer'.batch = Run(f, l)
      BY <1>1, <1>3
    <2>3. clock \in 0 .. clock /\ f \in 0 .. clock
      BY <1>4, <1>5
    <2>5. \E now, first \in 0 .. clock, keeps \in 0 .. L : Fits(consumer'.batch, now, first, keeps)
      BY <2>1, <2>2, <2>3
    <2> QED
      BY <1>2, <2>5 DEF BatchFits, Fits
  <1>6. CASE start = None /\ klines # <<>>
    <2>1. L >= 1 /\ Last(klines).ts = t /\ t \in Nat /\ t <= clock
      BY <1>4, <1>6 DEF Last
    <2>2. f = IF 0 >= t - 1 THEN 0 ELSE t - 1
      BY <1>6, <2>1, OfTwo
    <2> HIDE DEF f
    <2>3. f \in Nat /\ (t = 0 => f = 0) /\ (t # 0 => f = t - 1)
      BY <2>1, <2>2
    <2>4. l = IF f + FetchLimit - 1 <= clock THEN f + FetchLimit - 1 ELSE clock
      <3>1. f + FetchLimit - 1 \in Int /\ clock \in Int
        BY <1>4, <2>3
      <3> QED
        BY <3>1, OfTwo
    <2> HIDE DEF l
    <2>5. l \in Nat /\ f <= l /\ l <= clock /\ t <= l /\ f <= t /\ t - f < LongestNeed
      BY <1>4, <2>1, <2>3, <2>4
    <2>6. t - f < L
      <3>1. CASE t = 0
        BY <2>1, <2>3, <3>1, <1>4
      <3>2. CASE t # 0
        <4>1. L # 1
          <5> SUFFICES ASSUME L = 1 PROVE FALSE
            OBVIOUS
          <5>1. t = klines[1].ts /\ ~(L >= LongestNeed)
            BY <1>4
          <5> QED
            BY <1>6, <3>2, <5>1 DEF FromStart
        <4> HIDE DEF t, L
        <4> QED
          BY <1>4, <2>1, <2>3, <3>2, <4>1
      <3> QED
        BY <3>1, <3>2
    <2> HIDE DEF t, L
    <2> QED
      BY <1>5, <1>6, <2>3, <2>5, <2>6
  <1>7. CASE start = clock - LongestNeed + 1
    <2>1. start \in Int /\ start # None /\ start <= clock /\ clock - start = LongestNeed - 1
      BY <1>4, <1>7, ConstantsAssumption
    <2>2. f = IF 0 >= start THEN 0 ELSE start
      BY <2>1, OfTwo
    <2> HIDE DEF f
    <2>3. f \in Nat /\ f <= clock /\ f >= start /\ f + FetchLimit - 1 >= clock
      BY <1>4, <2>1, <2>2
    <2>4. l = clock
      <3>0. f + FetchLimit - 1 \in Int /\ clock \in Int
        BY <1>4, <2>3
      <3>1. l = IF f + FetchLimit - 1 <= clock THEN f + FetchLimit - 1 ELSE clock
        BY <3>0, OfTwo
      <3> HIDE DEF l
      <3> QED
        BY <1>4, <2>3, <3>1
    <2> HIDE DEF l
    <2>5. CASE \A n \in 1 .. L : klines[n].ts < start
      <3>1. \A n \in 1 .. L : klines[n].ts < f
        BY <1>4, <2>1, <2>3, <2>5
      <3>2. CASE 0 >= start
        <4>1. L = 0
          <5> SUFFICES ASSUME L # 0 PROVE FALSE
            OBVIOUS
          <5>1. 1 \in 1 .. L
            BY <1>4
          <5>2. klines[1].ts \in Nat /\ klines[1].ts < start
            BY <1>4, <2>5, <5>1
          <5> QED
            BY <2>1, <3>2, <5>2
        <4>2. klines = <<>> /\ f = 0
          BY <1>4, <2>2, <3>2, <4>1
        <4> QED
          BY <1>5, <2>3, <2>4, <3>1, <4>2, <1>4
      <3>3. CASE ~(0 >= start)
        <4>1. l - f + 1 >= LongestNeed
          BY <1>4, <2>1, <2>2, <2>4, <3>3
        <4> QED
          BY <1>5, <2>3, <2>4, <3>1, <4>1, <1>4
      <3> QED
        BY <3>2, <3>3
    <2>6. CASE ~ \A n \in 1 .. L : klines[n].ts < start
      <3>1. PICK n \in 1 .. L : klines[n].ts >= start
        BY <1>4, <2>1, <2>6
      <3>2. L >= 1 /\ t \in Nat /\ t <= clock /\ klines # <<>>
        BY <1>4, <3>1
      <3>3. t >= start
        <4>1. CASE n = L
          BY <3>1, <4>1
        <4>2. CASE n # L
          <5>1. n < L /\ L \in 1 .. L
            BY <1>4, <3>1, <4>2
          <5>2. klines[n].ts < klines[L].ts
            BY <5>1 DEF Rising
          <5> QED
            BY <1>4, <2>1, <3>1, <3>2, <5>2
        <4> QED
          BY <4>1, <4>2
      <3>4. f <= t /\ t - f < LongestNeed
        BY <1>4, <2>1, <2>2, <3>2, <3>3
      <3>5. t - f < L
        <4>1. CASE L >= LongestNeed
          BY <1>4, <2>3, <3>2, <3>4, <4>1
        <4>2. CASE ~(L >= LongestNeed)
          <5>1. klines[1].ts = 0 /\ 1 \in 1 .. L /\ 1 > L - LongestNeed
            BY <1>4, <3>2, <4>2 DEF FromStart
          <5>2. klines[1].ts = t - (L - 1)
            BY <5>1 DEF TailExact
          <5> HIDE DEF t, L
          <5> QED
            BY <1>4, <2>3, <3>2, <5>1, <5>2
        <4> QED
          BY <4>1, <4>2
      <3> HIDE DEF t, L
      <3> QED
        BY <1>4, <1>5, <2>3, <2>4, <3>2, <3>4, <3>5
    <2> QED
      BY <2>5, <2>6
  <1> QED
    BY <1>6, <1>7, Starts

\* A save keeps the first rows and puts the candles from "first" on behind them.
SavedAs(now, first, keep, B, N) ==
  /\ klines \in Seq(Candle) /\ clock \in Nat /\ now <= clock /\ keep <= Len(klines)
  /\ Len(klines) - keep <= B /\ B >= 1 /\ first + B - 1 <= now /\ Len(klines) - keep <= LongestNeed
  /\ first = consumer.batch[1].ts /\ N = keep + B
  /\ \A n \in 1 .. Len(klines) : klines[n].ts \in Nat /\ klines[n].ts <= clock
  /\ \A n \in 1 .. keep : klines[n].ts < first
  /\ \A n \in keep + 1 .. Len(klines) : klines[n].ts = first + n - keep - 1
  /\ keep = Len(klines) => (B >= LongestNeed \/ (klines = <<>> /\ first = 0))
  /\ klines' \in Seq(Candle) /\ Len(klines') = N
  /\ \A n \in 1 .. keep : klines'[n] = klines[n]
  /\ \A n \in keep + 1 .. N : klines'[n].ts = first + n - keep - 1
  /\ \A n \in keep + 1 .. N : klines'[n].final <=> klines'[n].ts < now

\* What the table is once a batch that fits is saved.
LEMMA SavedTable ==
  ASSUME TableInv, SaveKlines
  PROVE  \E now, first, keep, B, N \in Nat : SavedAs(now, first, keep, B, N)
  <1> USE DEF TableInv
  <1> DEFINE batch == consumer.batch
             L == Len(klines)
             B == Len(batch)
  <1>0. /\ klines' = Upserted(klines, batch) /\ consumer' = Idle
        /\ clock' = clock /\ rows' = rows /\ consumer.pc = "saving"
    BY DEF SaveKlines
  <1>1. PICK now \in 0 .. clock, first \in 0 .. clock, keep \in 0 .. L : Fits(batch, now, first, keep)
    BY <1>0 DEF BatchFits
  <1>2. /\ klines \in Seq(Candle) /\ batch \in Seq(Candle) /\ L \in Nat /\ B \in Nat /\ clock \in Nat
        /\ now \in Nat /\ now <= clock /\ first \in Nat /\ keep \in Nat /\ keep <= L
        /\ L - keep <= B /\ B >= 1 /\ first + B - 1 <= now /\ L - keep <= LongestNeed
        /\ LongestNeed \in Nat /\ LongestNeed >= 2
    BY <1>1, LongestIsMacd DEF Fits, Overlaps, Numbers
  <1>3. /\ \A n \in 1 .. B : batch[n].ts = first + n - 1 /\ (batch[n].final <=> batch[n].ts < now)
        /\ \A n \in 1 .. keep : klines[n].ts < first
        /\ \A n \in keep + 1 .. L : klines[n].ts = first + n - keep - 1
        /\ keep = L => (B >= LongestNeed \/ (klines = <<>> /\ first = 0))
    BY <1>1 DEF Fits, Overlaps
  <1> DEFINE N == keep + B
  <1>4. /\ klines' \in Seq(Candle) /\ Len(klines') = N /\ N \in Nat /\ N >= 1 /\ N >= L /\ N > keep
        /\ \A n \in 1 .. keep : n \in 1 .. N /\ n \in 1 .. L /\ klines'[n] = klines[n]
        /\ \A n \in keep + 1 .. N : n \in 1 .. N /\ n - keep \in 1 .. B /\ klines'[n] = batch[n - keep]
    <2>1. Overlaps(klines, batch, keep, first)
      BY <1>1 DEF Fits
    <2>2. klines' = Saved(klines, batch, keep, B)
      BY <1>0, <2>1, UpsertedRun
    <2>3. Longest(keep + B, L) = N
      BY <1>2 DEF Longest
    <2>4. B \in 0 .. B
      BY <1>2
    <2>5. /\ klines' \in Seq(Candle) /\ Len(klines') = N
          /\ \A n \in 1 .. N : klines'[n] = IF n <= keep \/ n > keep + B THEN klines[n] ELSE batch[n - keep]
      <3> HIDE DEF B, N
      <3>1. /\ klines' \in Seq(Candle) /\ Len(klines') = Longest(keep + B, L)
            /\ \A n \in 1 .. Longest(keep + B, L) :
                 klines'[n] = IF n <= keep \/ n > keep + B THEN klines[n] ELSE batch[n - keep]
        <4>1. ASSUME NEW k \in 0 .. Len(batch)
              PROVE  /\ Saved(klines, batch, keep, k) \in Seq(Candle)
                     /\ Len(Saved(klines, batch, keep, k)) = Longest(keep + k, Len(klines))
                     /\ \A n \in 1 .. Longest(keep + k, Len(klines)) :
                          Saved(klines, batch, keep, k)[n] =
                            IF n <= keep \/ n > keep + k THEN klines[n] ELSE batch[n - keep]
          BY <2>1, SavedType
        <4> QED
          BY <2>2, <2>4, <4>1 DEF B
      <3> QED
        BY <2>3, <3>1
    <2> HIDE DEF batch, B, L
    <2>6. N \in Nat /\ N >= 1 /\ N >= L /\ N > keep
      BY <1>2
    <2>7. ASSUME NEW n \in 1 .. keep PROVE n \in 1 .. N /\ n \in 1 .. L /\ klines'[n] = klines[n]
      <3>1. n \in 1 .. N /\ n \in 1 .. L /\ n <= keep
        BY <1>2, <2>6
      <3> HIDE DEF N
      <3> QED
        BY <2>5, <3>1
    <2>8. ASSUME NEW n \in keep + 1 .. N
          PROVE n \in 1 .. N /\ n - keep \in 1 .. B /\ klines'[n] = batch[n - keep]
      <3>1. n \in 1 .. N /\ n - keep \in 1 .. B /\ ~(n <= keep) /\ ~(n > keep + B)
        BY <1>2, <2>6
      <3> HIDE DEF N
      <3> QED
        BY <2>5, <3>1
    <2> QED
      BY <2>5, <2>6, <2>7, <2>8
  <1> HIDE DEF batch, B, L
  <1>5. /\ \A n \in 1 .. L : klines[n].ts \in Nat /\ klines[n].ts <= clock
    <2>1. \A n \in 1 .. L : klines[n] \in Candle
      BY <1>2 DEF L
    <2>2. \A n \in 1 .. L : klines[n].ts \in Nat
      BY <2>1 DEF Candle
    <2> QED
      BY <2>2 DEF Numbers, L
  <1> HIDE DEF N
  <1>6. \A n \in keep + 1 .. N : klines'[n].ts = first + n - keep - 1
    <2> SUFFICES ASSUME NEW n \in keep + 1 .. N PROVE klines'[n].ts = first + n - keep - 1
      OBVIOUS
    <2>1. n - keep \in 1 .. B /\ klines'[n] = batch[n - keep]
      BY <1>4
    <2>2. batch[n - keep].ts = first + (n - keep) - 1
      BY <1>3, <2>1
    <2>3. first + (n - keep) - 1 = first + n - keep - 1
      BY <1>2, <1>4
    <2> QED
      BY <2>1, <2>2, <2>3
  <1>f. \A n \in keep + 1 .. N : klines'[n].final <=> klines'[n].ts < now
    <2> SUFFICES ASSUME NEW n \in keep + 1 .. N PROVE klines'[n].final <=> klines'[n].ts < now
      OBVIOUS
    <2>1. n - keep \in 1 .. B /\ klines'[n] = batch[n - keep]
      BY <1>4
    <2> QED
      BY <1>3, <2>1, Zenon
  <1>n. N = keep + B
    BY DEF N
  <1>8. first = batch[1].ts
    <2>1. 1 \in 1 .. B /\ first + 1 - 1 = first
      BY <1>2
    <2> QED
      BY <1>3, <2>1
  <1>9. SavedAs(now, first, keep, B, N)
    <2>1. /\ klines \in Seq(Candle) /\ clock \in Nat /\ now <= clock /\ keep <= L /\ L - keep <= B /\ B >= 1
          /\ first + B - 1 <= now /\ L - keep <= LongestNeed /\ first = consumer.batch[1].ts /\ N = keep + B
      BY <1>2, <1>8, <1>n DEF batch
    <2>2. /\ klines' \in Seq(Candle) /\ Len(klines') = N
          /\ \A n \in 1 .. keep : klines'[n] = klines[n]
      BY <1>4
    <2> QED
      BY <1>3, <1>5, <1>6, <1>f, <2>1, <2>2, Zenon DEF SavedAs, L
  <1> QED
    BY <1>2, <1>4, <1>9

\* Saving what was fetched keeps the table in order and its end complete.
LEMMA SaveStep == TableInv /\ SaveKlines => TableInv'
  <1> SUFFICES ASSUME TableInv, SaveKlines PROVE TableInv'
    OBVIOUS
  <1> USE DEF TableInv
  <1>0. clock' = clock /\ rows' = rows /\ consumer' = Idle
    BY DEF SaveKlines
  <1>1. PICK now \in Nat, first \in Nat, keep \in Nat, B \in Nat, N \in Nat : SavedAs(now, first, keep, B, N)
    BY SavedTable
  <1> DEFINE L == Len(klines)
  <1>2. /\ klines \in Seq(Candle) /\ L \in Nat /\ B \in Nat /\ clock \in Nat
        /\ now \in Nat /\ now <= clock /\ first \in Nat /\ keep \in Nat /\ keep <= L
        /\ L - keep <= B /\ B >= 1 /\ first + B - 1 <= now /\ L - keep <= LongestNeed
        /\ LongestNeed \in Nat /\ LongestNeed >= 2
    BY <1>1, LongestIsMacd DEF SavedAs
  <1>3. /\ \A n \in 1 .. keep : klines[n].ts < first
        /\ \A n \in keep + 1 .. L : klines[n].ts = first + n - keep - 1
        /\ keep = L => (B >= LongestNeed \/ (klines = <<>> /\ first = 0))
    BY <1>1 DEF SavedAs
  <1>n. N = keep + B
    BY <1>1 DEF SavedAs
  <1>5. \A n \in 1 .. L : klines[n].ts \in Nat /\ klines[n].ts <= clock
    BY <1>1 DEF SavedAs
  <1>6. \A n \in keep + 1 .. N : klines'[n].ts = first + n - keep - 1
    BY <1>1 DEF SavedAs
  <1>f. \A n \in keep + 1 .. N : klines'[n].final <=> klines'[n].ts < now
    BY <1>1, Zenon DEF SavedAs
  <1>k. klines' \in Seq(Candle) /\ Len(klines') = N /\ \A n \in 1 .. keep : klines'[n] = klines[n]
    BY <1>1 DEF SavedAs
  <1> HIDE DEF L
  <1>4. /\ klines' \in Seq(Candle) /\ Len(klines') = N /\ N \in Nat /\ N >= 1 /\ N >= L /\ N > keep
        /\ \A n \in 1 .. keep : n \in 1 .. N /\ n \in 1 .. L /\ klines'[n] = klines[n]
    <2>1. N >= 1 /\ N >= L /\ N > keep
      BY <1>2, <1>n
    <2>2. \A n \in 1 .. keep : n \in 1 .. N /\ n \in 1 .. L
      BY <1>2, <2>1
    <2> QED
      BY <1>k, <2>1, <2>2
  <1>l. N \in keep + 1 .. N /\ klines'[N].ts = first + B - 1
    BY <1>2, <1>4, <1>6, <1>n
  <1>7. Numbers'
    <2>1. ASSUME NEW n \in 1 .. N PROVE klines'[n].ts <= clock
      <3>1. CASE n <= keep
        <4>1. n \in 1 .. keep
          BY <1>2, <3>1
        <4> QED
          BY <1>4, <1>5, <4>1
      <3>2. CASE ~(n <= keep)
        <4>1. n \in keep + 1 .. N
          BY <1>2, <1>4, <3>2
        <4>2. klines'[n].ts = first + n - keep - 1
          BY <1>6, <4>1
        <4> QED
          BY <1>2, <1>4, <1>n, <4>1, <4>2
      <3> QED
        BY <3>1, <3>2
    <2> QED
      BY <1>0, <1>2, <1>4, <2>1 DEF Numbers
  <1>8. Rising'
    <2> SUFFICES ASSUME NEW m \in 1 .. N, NEW n \in 1 .. N, m < n PROVE klines'[m].ts < klines'[n].ts
      BY <1>4 DEF Rising
    <2>1. CASE n <= keep
      <3>1. m \in 1 .. keep /\ n \in 1 .. keep
        BY <1>2, <2>1
      <3>2. m \in 1 .. L /\ n \in 1 .. L /\ klines'[m] = klines[m] /\ klines'[n] = klines[n]
        BY <1>4, <3>1
      <3> QED
        BY <3>2 DEF Rising, L
    <2>2. CASE ~(n <= keep)
      <3>1. n \in keep + 1 .. N
        BY <1>2, <1>4, <2>2
      <3>2. klines'[n].ts = first + n - keep - 1
        BY <1>6, <3>1
      <3>3. CASE m <= keep
        <4>1. m \in 1 .. keep
          BY <1>2, <3>3
        <4>2. klines'[m] = klines[m] /\ klines[m].ts < first /\ klines[m].ts \in Nat
          BY <1>3, <1>4, <1>5, <4>1
        <4> QED
          BY <1>2, <3>1, <3>2, <4>2
      <3>4. CASE ~(m <= keep)
        <4>1. m \in keep + 1 .. N
          BY <1>2, <1>4, <3>4
        <4>2. klines'[m].ts = first + m - keep - 1
          BY <1>6, <4>1
        <4> QED
          BY <1>2, <3>2, <4>2
      <3> QED
        BY <3>3, <3>4
    <2> QED
      BY <2>1, <2>2
  <1>9. TailExact'
    <2> SUFFICES ASSUME NEW n \in 1 .. N, n > N - LongestNeed
                 PROVE  klines'[n].ts = klines'[N].ts - (N - n) /\ (n < N => klines'[n].final)
      BY <1>4 DEF TailExact, LongestNeed
    <2>1. CASE n <= keep
      <3>1. n \in 1 .. keep /\ keep >= 1
        BY <1>2, <2>1
      <3>2. n \in 1 .. L /\ klines'[n] = klines[n]
        BY <1>4, <3>1
      <3>3. keep # L
        <4> SUFFICES ASSUME keep = L PROVE FALSE
          OBVIOUS
        <4>1. CASE B >= LongestNeed
          BY <1>2, <1>n, <2>1, <4>1
        <4>2. CASE klines = <<>>
          BY <1>2, <3>1, <4>2 DEF L
        <4> QED
          BY <1>3, <4>1, <4>2
      <3>4. L \in keep + 1 .. L /\ n > L - LongestNeed /\ n < L
        BY <1>2, <1>n, <2>1, <3>3
      <3>5. klines[L].ts = first + L - keep - 1
        BY <1>3, <3>4
      <3>6. klines[n].ts = klines[L].ts - (L - n) /\ klines[n].final
        BY <3>2, <3>4 DEF TailExact, L
      <3>7. klines'[n].ts = klines'[N].ts - (N - n)
        BY <1>2, <1>n, <1>l, <3>2, <3>5, <3>6
      <3> QED
        BY <3>2, <3>6, <3>7
    <2>2. CASE ~(n <= keep)
      <3>1. n \in keep + 1 .. N
        BY <1>2, <1>4, <2>2
      <3>2. klines'[n].ts = first + n - keep - 1
        BY <1>6, <3>1
      <3>3. klines'[n].ts = klines'[N].ts - (N - n)
        BY <1>2, <1>n, <1>l, <3>1, <3>2
      <3>4. n < N => klines'[n].ts < now
        BY <1>2, <1>n, <3>1, <3>2
      <3>5. n < N => klines'[n].final
        BY <1>f, <3>1, <3>4, Zenon
      <3> QED
        BY <3>3, <3>5
    <2> QED
      BY <2>1, <2>2
  <1>10. FromStart'
    <2>1. CASE L >= LongestNeed
      <3>1. N >= LongestNeed
        BY <1>2, <1>4, <2>1
      <3> QED
        BY <1>4, <3>1 DEF FromStart, LongestNeed
    <2>2. CASE ~(L >= LongestNeed) /\ L = 0
      <3>1. keep = 0 /\ keep = L
        BY <1>2, <2>2
      <3>2. CASE B >= LongestNeed
        BY <1>2, <1>4, <1>n, <3>1, <3>2 DEF FromStart, LongestNeed
      <3>3. CASE first = 0
        <4>1. 1 \in keep + 1 .. N
          BY <1>4, <3>1
        <4>2. klines'[1].ts = 0
          BY <1>6, <3>1, <3>3, <4>1
        <4> QED
          BY <4>2 DEF FromStart
      <3> QED
        BY <1>3, <3>1, <3>2, <3>3
    <2>3. CASE ~(L >= LongestNeed) /\ L # 0
      <3>1. klines[1].ts = 0 /\ 1 \in 1 .. L
        <4>1. klines # <<>>
          BY <1>2, <2>3 DEF L
        <4> QED
          BY <1>2, <2>3, <4>1 DEF FromStart, L
      <3>2. CASE keep = 0
        <4>1. 1 \in keep + 1 .. L /\ 1 \in keep + 1 .. N
          BY <1>2, <1>4, <2>3, <3>2
        <4>2. first = 0
          BY <1>2, <1>3, <3>1, <3>2, <4>1
        <4>3. klines'[1].ts = 0
          BY <1>6, <3>2, <4>1, <4>2
        <4> QED
          BY <4>3 DEF FromStart
      <3>3. CASE keep # 0
        <4>1. 1 \in 1 .. keep
          BY <1>2, <3>3
        <4>2. klines'[1] = klines[1]
          BY <1>4, <4>1
        <4> QED
          BY <3>1, <4>2 DEF FromStart
      <3> QED
        BY <3>2, <3>3
    <2> QED
      BY <2>1, <2>2, <2>3
  <1>11. RowsBehind'
    <2>1. klines' # <<>>
      BY <1>4
    <2> QED
      BY <2>1 DEF RowsBehind
  <1>12. BatchFits'
    BY <1>0 DEF BatchFits, Idle
  <1> QED
    BY <1>7, <1>8, <1>9, <1>10, <1>11, <1>12

\* No other step touches the table; the clock only grows.
LEMMA OtherStep == TableInv /\ [Next]_vars /\ ~SaveKlines => TableInv'
  <1> SUFFICES ASSUME TableInv, [Next]_vars, ~SaveKlines PROVE TableInv'
    OBVIOUS
  <1> USE DEF TableInv
  <1>0. clock \in Nat
    BY DEF Numbers
  <1>1. klines' = klines /\ (clock' = clock \/ clock' = clock + 1)
    BY DEF Next, vars, ScheduleKline, ScheduleIndicators, JobKeyExpires, CalcKeyExpires, TakeKline,
           SkipPaused, Fetch, FetchEmpty, JobFails, CalcIndicators, SkipRsi, CalcFails, TakeCalc,
           BeginCheck, ReadKlines, DecideFromMacd, Tick, PauseOrResume
  <1>2. clock' \in Nat /\ clock <= clock'
    BY <1>0, <1>1
  <1>3. Numbers'
    <2>1. ASSUME NEW n \in 1 .. Len(klines) PROVE klines[n].ts <= clock'
      <3>1. klines[n] \in Candle
        BY <2>1 DEF Numbers
      <3>2. klines[n].ts \in Nat /\ klines[n].ts <= clock
        BY <2>1, <3>1 DEF Numbers, Candle
      <3> QED
        BY <1>0, <1>2, <3>2
    <2> QED
      BY <1>1, <1>2, <2>1 DEF Numbers
  <1>4. Rising' /\ TailExact' /\ FromStart'
    BY <1>1 DEF Rising, TailExact, FromStart, LongestNeed
  <1>5. RowsBehind'
    <2>1. CASE rows' = rows
      BY <1>1, <2>1 DEF RowsBehind
    <2>2. CASE klines # <<>>
      BY <1>1, <2>2 DEF RowsBehind
    <2>3. ASSUME NEW new \in SUBSET Ready, CreateFirstRows(new), klines = <<>> PROVE FALSE \/ RowsBehind'
      <3>1. \A i \in Indicators : i \notin Ready
        <4>1. \A i \in Indicators : Need[i] \in Nat /\ Need[i] >= 1
          BY ConstantsAssumption
        <4> QED
          BY <2>3, <4>1 DEF Ready
      <3>2. \A i \in Indicators : rows'[i] = rows[i]
        BY <2>3, <3>1 DEF CreateFirstRows
      <3> QED
        BY <1>1, <3>2 DEF RowsBehind
    <2>4. CASE CalcIndicators
      <3>1. CASE Missing = {}
        <4>1. klines # <<>>
          BY <3>1, ConstantsAssumption DEF Missing, RowsBehind
        <4> QED
          BY <2>2, <4>1
      <3>2. CASE Missing # {}
        BY <2>1, <2>2, <2>3, <2>4, <3>2 DEF CalcIndicators
      <3> QED
        BY <3>1, <3>2
    <2>5. CASE SkipRsi \/ CalcFails
      BY <2>1, <2>2, <2>3, <2>5 DEF SkipRsi, CalcFails, Ready, Missing
    <2>6. CASE ~CalcIndicators /\ ~SkipRsi /\ ~CalcFails
      <3>1. rows' = rows
        BY <2>6 DEF Next, vars, ScheduleKline, ScheduleIndicators, JobKeyExpires, CalcKeyExpires,
           TakeKline, SkipPaused, Fetch, FetchEmpty, JobFails,
           BeginCheck, ReadKlines, DecideFromMacd, Tick, PauseOrResume
      <3> QED
        BY <2>1, <3>1
    <2> QED
      BY <2>4, <2>5, <2>6
  <1>6. BatchFits'
    <2>1. CASE Fetch
      BY <2>1, FetchStep
    <2>2. CASE consumer' = consumer
      <3> SUFFICES ASSUME consumer.pc = "saving" PROVE BatchFits'
        BY <2>2 DEF BatchFits
      <3>1. PICK now \in 0 .. clock, first \in 0 .. clock, keep \in 0 .. Len(klines) :
              Fits(consumer.batch, now, first, keep)
        BY DEF BatchFits
      <3>2. now \in 0 .. clock' /\ first \in 0 .. clock'
        BY <1>0, <1>2
      <3> QED
        BY <1>1, <2>2, <3>1, <3>2 DEF BatchFits, Fits, LongestNeed
    <2>3. CASE ~Fetch /\ consumer' # consumer
      <3>1. consumer' = Idle \/ consumer' = [Idle EXCEPT !.pc = "fetching"]
        BY <2>3 DEF Next, vars, ScheduleKline, ScheduleIndicators, JobKeyExpires, CalcKeyExpires,
           TakeKline, SkipPaused, FetchEmpty, JobFails, CalcIndicators, SkipRsi, CalcFails, TakeCalc,
           BeginCheck, ReadKlines, DecideFromMacd, Tick, PauseOrResume
      <3>2. consumer'.pc # "saving"
        BY <3>1 DEF Idle
      <3> QED
        BY <3>2 DEF BatchFits
    <2> QED
      BY <2>1, <2>2, <2>3
  <1> QED
    BY <1>3, <1>4, <1>5, <1>6

\* The empty table keeps the invariant.
LEMMA InitTable == Init => TableInv
BY ConstantsAssumption
   DEF Init, TableInv, Numbers, Rising, TailExact, FromStart, RowsBehind, BatchFits, Idle

-----------------------------------------------------------------------------
(* The invariant of the indicator tables.                                  *)

Stored == {klines[n].ts : n \in 1 .. Len(klines)}
Interim == {klines[n].ts : n \in {m \in 1 .. Len(klines) : ~klines[m].final}}
Newest == klines[Len(klines)].ts
First(i) == rows[i][1].ts
Latest(i) == rows[i][Len(rows[i])].ts

\* The rows of an indicator follow each other, from a first one that is exact.
InStep ==
  \A i \in Indicators : \A n \in 1 .. Len(rows[i]) : rows[i][n].ts = First(i) + n - 1
FirstSettled == \A i \in Indicators : rows[i] # <<>> => rows[i][1].settled

\* The candles every row was computed from are stored.
WindowsStored ==
  \A i \in Indicators : rows[i] # <<>> =>
    \A t \in First(i) - Window[i] + 1 .. Latest(i) : t \in Stored

\* From the first row of an indicator on, no candle is missing, and only the newest
\* may be an interim one.  The Bollinger bands may end before a gap.
Unbroken ==
  \A i \in Indicators \ {"boll"} : rows[i] # <<>> =>
    \A t \in First(i) - Window[i] + 1 .. Newest : t \in Stored /\ (t < Newest => t \notin Interim)

\* A row is exact unless its candle may be open, or it is a Bollinger band over an
\* abandoned candle.
SoundRow(i, row) ==
  row.settled \/ (i = "boll" /\ \E back \in 0 .. Window[i] - 1 : row.ts - back \in Abandoned)
RowsSound == \A i \in Indicators : \A n \in 1 .. Len(rows[i]) - 1 : SoundRow(i, rows[i][n])

\* While such rows exist, a fetch overlaps the table.
BatchReaches ==
  consumer.pc = "saving" /\ (\E i \in Indicators \ {"boll"} : rows[i] # <<>>) =>
    consumer.batch[1].ts <= Newest

RowInv ==
  /\ rows \in [Indicators -> Seq(Row)]
  /\ InStep /\ FirstSettled /\ WindowsStored /\ Unbroken /\ RowsSound /\ BatchReaches

-----------------------------------------------------------------------------
(* The constants of an indicator, and the candles of the table.            *)

\* What is assumed of the numbers of an indicator.
LEMMA IndicatorNumbers ==
  ASSUME NEW i \in Indicators
  PROVE  /\ Need[i] \in Nat /\ Take[i] \in Nat /\ Window[i] \in Nat
         /\ 1 <= Window[i] /\ Window[i] <= Take[i] /\ Take[i] < Need[i] /\ Need[i] <= LongestNeed
         /\ i \notin {"kdj", "boll"} => Window[i] <= 2
BY LongestIsMacd, ConstantsAssumption

\* Candles are numbers in the order of their places.
LEMMA Candles ==
  ASSUME TableInv
  PROVE  /\ klines \in Seq(Candle) /\ Len(klines) \in Nat /\ clock \in Nat
         /\ \A n \in 1 .. Len(klines) :
              klines[n].ts \in Nat /\ klines[n].final \in BOOLEAN /\ klines[n].ts <= clock
         /\ \A m, n \in 1 .. Len(klines) : m < n <=> klines[m].ts < klines[n].ts
         /\ \A m, n \in 1 .. Len(klines) : klines[m].ts = klines[n].ts => m = n
  <1>1. klines \in Seq(Candle) /\ Len(klines) \in Nat /\ clock \in Nat
    BY DEF TableInv, Numbers
  <1>2. \A n \in 1 .. Len(klines) : klines[n] \in Candle
    BY <1>1
  <1>3. \A n \in 1 .. Len(klines) : klines[n].ts \in Nat /\ klines[n].final \in BOOLEAN
    BY <1>2 DEF Candle
  <1>4. \A m, n \in 1 .. Len(klines) : m < n => klines[m].ts < klines[n].ts
    BY DEF TableInv, Rising
  <1>5. \A n \in 1 .. Len(klines) : klines[n].ts \in Nat /\ n \in Nat
    BY <1>1, <1>3
  <1>6. \A m, n \in 1 .. Len(klines) : /\ m < n <=> klines[m].ts < klines[n].ts
                                       /\ klines[m].ts = klines[n].ts => m = n
    <2> SUFFICES ASSUME NEW m \in 1 .. Len(klines), NEW n \in 1 .. Len(klines)
                 PROVE  /\ m < n <=> klines[m].ts < klines[n].ts
                        /\ klines[m].ts = klines[n].ts => m = n
      OBVIOUS
    <2>1. m < n => klines[m].ts < klines[n].ts
      BY <1>4
    <2>2. n < m => klines[n].ts < klines[m].ts
      BY <1>4
    <2>3. m \in Nat /\ n \in Nat /\ klines[m].ts \in Nat /\ klines[n].ts \in Nat
      BY <1>5
    <2> QED
      BY <2>1, <2>2, <2>3
  <1> QED
    BY <1>1, <1>3, <1>6 DEF TableInv, Numbers

\* Candles that are all stored lie side by side.
LEMMA SideBySide ==
  ASSUME TableInv, NEW n \in 1 .. Len(klines), NEW w \in Nat,
         \A t \in klines[n].ts - w + 1 .. klines[n].ts : t \in Stored
  PROVE  \A k \in 0 .. w - 1 : n - k \in 1 .. Len(klines) /\ klines[n - k].ts = klines[n].ts - k
  <1> DEFINE L == Len(klines)
             t == klines[n].ts
             T == {k \in 0 .. w - 1 : ~(n - k \in 1 .. L /\ klines[n - k].ts = t - k)}
  <1>1. L \in Nat /\ t \in Nat /\ n \in Nat /\ \A m \in 1 .. L : klines[m].ts \in Nat /\ m \in Nat
    BY Candles
  <1> SUFFICES ASSUME T # {} PROVE FALSE
    OBVIOUS
  <1>2. PICK k \in T : \A m \in T : k <= m
    <2>1. T \subseteq Nat
      OBVIOUS
    <2> QED
      BY <2>1, LeastNumber
  <1>3. k \in 0 .. w - 1 /\ k \in Nat
    BY <1>2
  <1>4. k # 0
    BY <1>1, <1>2
  <1>5. k - 1 \in 0 .. w - 1 /\ ~(k <= k - 1)
    BY <1>3, <1>4
  <1>6. n - (k - 1) \in 1 .. L /\ klines[n - (k - 1)].ts = t - (k - 1)
    BY <1>2, <1>5
  <1>7. PICK m \in 1 .. L : klines[m].ts = t - k
    <2>1. t - k \in t - w + 1 .. t
      BY <1>1, <1>3
    <2> QED
      BY <2>1 DEF Stored
  <1> HIDE DEF t
  <1>8. m < n - (k - 1)
    <2>1. klines[m].ts < klines[n - (k - 1)].ts
      BY <1>1, <1>3, <1>6, <1>7
    <2> QED
      BY <1>6, <2>1, Candles
  <1>9. n - k \in 1 .. L /\ m <= n - k
    BY <1>1, <1>3, <1>6, <1>7, <1>8
  <1>10. ~(m < n - k)
    <2> SUFFICES ASSUME m < n - k PROVE FALSE
      OBVIOUS
    <2>1. klines[m].ts < klines[n - k].ts
      BY <1>9, Candles
    <2>2. n - k < n - (k - 1)
      BY <1>1, <1>3
    <2>3. klines[n - k].ts < klines[n - (k - 1)].ts
      BY <1>6, <1>9, <2>2, Candles
    <2> QED
      BY <1>1, <1>3, <1>6, <1>7, <1>9, <2>1, <2>3
  <1>11. m = n - k
    BY <1>1, <1>3, <1>7, <1>9, <1>10
  <1>12. klines[n - k].ts = t - k
    BY <1>7, <1>11
  <1> QED
    BY <1>2, <1>9, <1>12

\* The newest candles, up to as many as the MACD waits for.
LEMMA NewestCandles ==
  ASSUME TableInv, NEW n \in 1 .. Len(klines), n > Len(klines) - LongestNeed
  PROVE  /\ klines[n].ts = Newest - (Len(klines) - n) /\ Newest \in Nat
         /\ \A t \in klines[n].ts .. Newest : t \in Stored /\ (t < Newest => t \notin Interim)
  <1> DEFINE L == Len(klines)
  <1>1. L \in Nat /\ n \in Nat /\ L \in 1 .. L /\ LongestNeed \in Nat /\ Newest \in Nat
    BY Candles, LongestIsMacd DEF Newest
  <1>2. \A m \in 1 .. L : m >= n => /\ klines[m].ts = Newest - (L - m)
                                    /\ m < L => klines[m].final
    BY <1>1 DEF TableInv, TailExact, Newest
  <1>3. klines[n].ts = Newest - (L - n)
    BY <1>1, <1>2
  <1>4. ASSUME NEW t \in klines[n].ts .. Newest
        PROVE  t \in Stored /\ (t < Newest => t \notin Interim)
    <2> DEFINE m == L - (Newest - t)
    <2>1. t \in Int /\ t <= Newest /\ t >= Newest - (L - n)
      BY <1>1, <1>3, <1>4
    <2>2. m \in 1 .. L /\ m >= n /\ Newest - (L - m) = t /\ (t < Newest => m < L)
      BY <1>1, <2>1
    <2> HIDE DEF m
    <2>3. klines[m].ts = t /\ (t < Newest => klines[m].final)
      BY <1>2, <2>2
    <2>4. t \in Stored
      BY <2>2, <2>3 DEF Stored
    <2>5. ASSUME t < Newest, t \in Interim PROVE FALSE
      <3>1. PICK k \in 1 .. L : ~klines[k].final /\ klines[k].ts = t
        BY <2>5 DEF Interim
      <3>2. k = m
        BY <2>2, <2>3, <3>1, Candles
      <3> QED
        BY <2>3, <2>5, <3>1, <3>2
    <2> QED
      BY <2>4, <2>5
  <1> QED
    BY <1>1, <1>3, <1>4

\* A candle behind which another is stored is abandoned, or has its closing price.
LEMMA FinalOrAbandoned ==
  ASSUME TableInv, NEW n \in 1 .. Len(klines), klines[n].ts < Newest
  PROVE  klines[n].final \/ klines[n].ts \in Abandoned
  <1>1. Len(klines) \in Nat /\ Len(klines) \in 1 .. Len(klines)
    BY Candles
  <1>2. n < Len(klines)
    BY <1>1, Candles DEF Newest
  <1> QED
    BY <1>1, <1>2 DEF Abandoned

-----------------------------------------------------------------------------
(* Saves and fetches, seen from the indicator tables.                      *)

\* What a save does to the sets of stored, interim and abandoned candles.
LEMMA SavedSets ==
  ASSUME TableInv, SaveKlines
  PROVE  \E first, last \in Nat :
           /\ first = consumer.batch[1].ts /\ first <= last /\ Newest' = last
           /\ klines # <<>> => Newest <= last
           /\ Stored \subseteq Stored' /\ first .. last \subseteq Stored'
           /\ \A t \in Interim' : t = last \/ (t \in Interim /\ t < first)
           /\ Abandoned \subseteq Abandoned'
  <1>1. PICK now \in Nat, first \in Nat, keep \in Nat, B \in Nat, N \in Nat : SavedAs(now, first, keep, B, N)
    BY SavedTable
  <1> DEFINE L == Len(klines)
             last == first + B - 1
  <1>2. /\ L \in Nat /\ keep <= L /\ B >= 1 /\ L - keep <= B /\ N = keep + B /\ last <= now
        /\ L - keep <= LongestNeed /\ LongestNeed \in Nat /\ first = consumer.batch[1].ts
        /\ last \in Nat /\ first <= last /\ Len(klines') = N
    <2>1. /\ keep <= L /\ B >= 1 /\ L - keep <= B /\ N = keep + B /\ last <= now
          /\ L - keep <= LongestNeed /\ first = consumer.batch[1].ts /\ Len(klines') = N
      BY <1>1 DEF SavedAs
    <2>2. last \in Nat /\ first <= last
      BY <2>1
    <2> QED
      BY <2>1, <2>2, LongestIsMacd, Candles
  <1>3. /\ \A n \in 1 .. L : klines[n].ts \in Nat
        /\ \A n \in 1 .. keep : klines[n].ts < first
        /\ \A n \in keep + 1 .. L : klines[n].ts = first + n - keep - 1
    BY <1>1 DEF SavedAs
  <1>4. \A n \in 1 .. keep : klines'[n] = klines[n]
    BY <1>1 DEF SavedAs
  <1>5. \A n \in keep + 1 .. N : klines'[n].ts = first + n - keep - 1
    BY <1>1 DEF SavedAs
  <1>6. \A n \in keep + 1 .. N : klines'[n].final <=> klines'[n].ts < now
    BY <1>1, Zenon DEF SavedAs
  <1> HIDE DEF L, last
  <1>c. last = first + B - 1
    BY DEF last
  <1>7. Newest' = last
    <2>1. N \in keep + 1 .. N /\ first + N - keep - 1 = last
      BY <1>2, <1>c
    <2>2. klines'[N].ts = last
      BY <1>5, <2>1
    <2> QED
      BY <1>2, <2>2 DEF Newest
  <1>8. klines # <<>> => Newest <= last
    <2> SUFFICES ASSUME klines # <<>> PROVE klines[L].ts <= last
      BY DEF Newest, L
    <2>1. L >= 1 /\ L \in 1 .. L
      BY <1>2, Candles DEF L
    <2>2. CASE L = keep
      <3>1. klines[L].ts < first /\ klines[L].ts \in Nat
        BY <1>3, <2>1, <2>2
      <3> QED
        BY <1>2, <3>1
    <2>3. CASE L # keep
      <3>1. L \in keep + 1 .. L
        BY <1>2, <2>3
      <3>2. klines[L].ts = first + L - keep - 1
        BY <1>3, <3>1
      <3> QED
        BY <1>2, <1>c, <3>2
    <2> QED
      BY <2>2, <2>3
  <1>9. first .. last \subseteq Stored'
    <2> SUFFICES ASSUME NEW t \in first .. last PROVE t \in Stored'
      OBVIOUS
    <2> DEFINE n == keep + (t - first) + 1
    <2>0. t \in Int /\ first <= t /\ t <= last /\ last - first = B - 1
      BY <1>2, <1>c
    <2>n. N = keep + B /\ B >= 1 /\ t - first <= B - 1 /\ t - first >= 0
      BY <1>2, <2>0
    <2>1. n \in keep + 1 .. N /\ n \in 1 .. N /\ first + n - keep - 1 = t
      BY <2>0, <2>n
    <2> HIDE DEF n
    <2>2. klines'[n].ts = t
      BY <1>5, <2>1
    <2> QED
      BY <1>2, <2>1, <2>2 DEF Stored
  <1>10. Stored \subseteq Stored'
    <2> SUFFICES ASSUME NEW m \in 1 .. L PROVE klines[m].ts \in Stored'
      BY DEF Stored, L
    <2>1. CASE m \in 1 .. keep
      <3>1. m \in 1 .. N /\ klines'[m].ts = klines[m].ts
        BY <1>2, <1>4, <2>1
      <3> QED
        BY <1>2, <3>1 DEF Stored
    <2>2. CASE ~(m \in 1 .. keep)
      <3>1. m \in keep + 1 .. L
        BY <1>2, <2>2
      <3>2. klines[m].ts = first + m - keep - 1
        BY <1>3, <3>1
      <3>3. klines[m].ts \in first .. last
        BY <1>2, <1>c, <3>1, <3>2
      <3> QED
        BY <1>9, <3>3
    <2> QED
      BY <2>1, <2>2
  <1>11. ASSUME NEW t \in Interim' PROVE t = last \/ (t \in Interim /\ t < first)
    <2>1. PICK n \in 1 .. N : ~klines'[n].final /\ t = klines'[n].ts
      BY <1>2, <1>11 DEF Interim
    <2>2. CASE n \in 1 .. keep
      <3>1. n \in 1 .. L /\ klines'[n] = klines[n] /\ klines[n].ts < first
        BY <1>2, <1>3, <1>4, <2>2
      <3> QED
        BY <2>1, <3>1 DEF Interim, L
    <2>3. CASE ~(n \in 1 .. keep)
      <3>1. n \in keep + 1 .. N
        BY <1>2, <2>3
      <3>2. t = first + n - keep - 1
        BY <1>5, <2>1, <3>1
      <3>3. ~(t < now)
        BY <1>6, <2>1, <3>1, Zenon
      <3>4. t \in Int /\ t <= last
        BY <1>2, <1>c, <3>1, <3>2
      <3> QED
        BY <1>2, <3>3, <3>4
    <2> QED
      BY <2>2, <2>3
  <1>12. Abandoned \subseteq Abandoned'
    <2> SUFFICES ASSUME NEW m \in 1 .. L - 1, ~klines[m].final PROVE klines[m].ts \in Abandoned'
      BY DEF Abandoned, L
    <2>1. CASE m \in 1 .. keep
      <3>1. klines'[m] = klines[m] /\ m \in 1 .. N - 1
        BY <1>2, <1>4, <2>1
      <3> QED
        BY <1>2, <3>1 DEF Abandoned
    <2>2. CASE ~(m \in 1 .. keep)
      <3>1. m \in 1 .. L /\ m > L - LongestNeed /\ m < L
        BY <1>2, <2>2
      <3>2. klines[m].final
        BY <3>1 DEF TableInv, TailExact, L
      <3> QED
        BY <3>2
    <2> QED
      BY <2>1, <2>2
  <1> QED
    BY <1>2, <1>7, <1>8, <1>9, <1>10, <1>11, <1>12

\* Saving candles takes none away from under a row, and settles the interim one.
LEMMA RowsAfterSave ==
  ASSUME TableInv, RowInv, SaveKlines
  PROVE  RowInv'
  <1>0. rows' = rows /\ consumer.pc = "saving" /\ consumer'.pc = "idle"
    BY DEF SaveKlines, Idle
  <1>1. PICK first \in Nat, last \in Nat :
           /\ first = consumer.batch[1].ts /\ first <= last /\ Newest' = last
           /\ klines # <<>> => Newest <= last
           /\ Stored \subseteq Stored' /\ first .. last \subseteq Stored'
           /\ \A t \in Interim' : t = last \/ (t \in Interim /\ t < first)
           /\ Abandoned \subseteq Abandoned'
    BY SavedSets
  <1>2. rows' \in [Indicators -> Seq(Row)] /\ InStep' /\ FirstSettled'
    BY <1>0 DEF RowInv, InStep, FirstSettled, First
  <1>3. WindowsStored'
    BY <1>0, <1>1 DEF RowInv, WindowsStored, First, Latest
  <1>4. Unbroken'
    <2> SUFFICES ASSUME NEW i \in Indicators \ {"boll"}, rows[i] # <<>>,
                        NEW t \in First(i) - Window[i] + 1 .. Newest'
                 PROVE  t \in Stored' /\ (t < Newest' => t \notin Interim')
      BY <1>0 DEF Unbroken, First
    <2>1. klines # <<>> /\ first <= Newest
      BY <1>0, <1>1 DEF TableInv, RowsBehind, RowInv, BatchReaches
    <2>2. Newest \in Nat
      <3>1. Len(klines) \in 1 .. Len(klines)
        BY <2>1, Candles
      <3> QED
        BY <3>1, Candles DEF Newest
    <2>3. First(i) \in Nat
      <3>1. rows[i] \in Seq(Row)
        BY DEF RowInv
      <3>2. rows[i][1] \in Row
        BY <3>1
      <3> QED
        BY <3>2 DEF First, Row
    <2>4. First(i) - Window[i] + 1 \in Int /\ t \in Int
      BY <2>3, IndicatorNumbers
    <2>5. CASE t <= Newest
      <3>1. t \in First(i) - Window[i] + 1 .. Newest
        BY <1>1, <2>2, <2>4, <2>5
      <3>2. t \in Stored /\ (t < Newest => t \notin Interim)
        BY <3>1 DEF RowInv, Unbroken
      <3>3. ASSUME t < last, t \in Interim' PROVE FALSE
        <4>1. t \in Interim /\ t < first
          BY <1>1, <2>4, <3>3
        <4>2. t < Newest
          BY <1>1, <2>1, <2>2, <2>4, <4>1
        <4> QED
          BY <3>2, <4>1, <4>2
      <3> QED
        BY <1>1, <3>2, <3>3
    <2>6. CASE ~(t <= Newest)
      <3>1. t \in first .. last /\ ~(t < first)
        BY <1>1, <2>1, <2>2, <2>4, <2>6
      <3>2. t \in Stored'
        BY <1>1, <3>1
      <3>3. ASSUME t < last PROVE t \notin Interim'
        BY <1>1, <2>4, <3>1, <3>3
      <3> QED
        BY <1>1, <3>2, <3>3
    <2> QED
      BY <2>5, <2>6
  <1>5. RowsSound'
    BY <1>0, <1>1 DEF RowInv, RowsSound, SoundRow
  <1>6. BatchReaches'
    BY <1>0 DEF BatchReaches
  <1> QED
    BY <1>2, <1>3, <1>4, <1>5, <1>6 DEF RowInv

\* Once there are rows, what is fetched overlaps the table.
LEMMA FetchReaches ==
  ASSUME TableInv, RowInv, Fetch
  PROVE  BatchReaches'
  <1>1. PICK start \in InitialStarts :
          consumer' = [pc |-> "saving", batch |-> Fetched(start)]
    BY DEF Fetch
  <1>2. klines' = klines /\ rows' = rows
    BY DEF Fetch
  <1> SUFFICES ASSUME NEW i \in Indicators \ {"boll"}, rows[i] # <<>>
               PROVE  Fetched(start)[1].ts <= Newest
    BY <1>1, <1>2 DEF BatchReaches, Newest
  <1>3. start = None
    BY <1>1 DEF InitialStarts
  <1>4. klines # <<>>
    BY DEF TableInv, RowsBehind
  <1>5. Newest \in Nat /\ Last(klines).ts = Newest /\ Newest <= clock /\ clock \in Nat
    <2>1. Len(klines) \in 1 .. Len(klines)
      BY <1>4, Candles
    <2> QED
      BY <2>1, Candles DEF Newest, Last
  <1> DEFINE f == Max({0, Newest - 1})
             l == Min({f + FetchLimit - 1, clock})
  <1>6. Fetched(start) = [n \in 1 .. l - f + 1 |-> [ts |-> f + n - 1, final |-> f + n - 1 < clock]]
    BY <1>3, <1>5 DEF Fetched
  <1>7. f = IF 0 >= Newest - 1 THEN 0 ELSE Newest - 1
    BY <1>5, OfTwo
  <1> HIDE DEF f
  <1>8. f \in Nat /\ f <= Newest /\ FetchLimit \in Nat /\ FetchLimit >= 2
    BY <1>5, <1>7, LongestIsMacd
  <1>9. l = IF f + FetchLimit - 1 <= clock THEN f + FetchLimit - 1 ELSE clock
    <2>1. f + FetchLimit - 1 \in Int /\ clock \in Int
      BY <1>5, <1>8
    <2> QED
      BY <2>1, OfTwo
  <1> HIDE DEF l
  <1>10. 1 \in 1 .. l - f + 1 /\ f + 1 - 1 = f
    BY <1>5, <1>8, <1>9
  <1>11. Fetched(start)[1].ts = f + 1 - 1
    BY <1>6, <1>10
  <1> QED
    BY <1>8, <1>10, <1>11

-----------------------------------------------------------------------------
(* First rows.                                                             *)

\* The first row of an indicator is computed from closing prices of consecutive
\* candles, and no candle is missing behind them.
LEMMA FirstRowExact ==
  ASSUME TableInv, NEW i \in Indicators, Len(klines) >= Need[i]
  PROVE  /\ FirstRow(i) \in Row /\ FirstRow(i).settled /\ FirstRow(i).ts <= Newest
         /\ \A t \in FirstRow(i).ts - Window[i] + 1 .. Newest :
              t \in Stored /\ (t < Newest => t \notin Interim)
  <1> DEFINE N == Need[i]
             T == Take[i]
             W == Window[i]
             L == Len(klines)
             p == L - N
             s == InitKlines(i)
             used == SubSeq(s, 1, T)
  <1>s. klines \in Seq(Candle)
    BY Candles
  <1>1. /\ L \in Nat /\ N \in Nat /\ T \in Nat /\ W \in Nat
        /\ 1 <= W /\ W <= T /\ T < N /\ N <= LongestNeed
        /\ LongestNeed \in Nat /\ p \in Nat
    BY Candles, IndicatorNumbers, LongestIsMacd
  <1>p. p = L - N
    OBVIOUS
  <1> HIDE DEF p, L, N, T, W
  <1>2. /\ s \in Seq(Candle) /\ Len(s) = N - 1
        /\ \A m \in 1 .. N - 1 : s[m] = klines[p + m]
    <2>1. s = SubSeq(klines, p + 1, L - 1)
      BY DEF InitKlines, p, L, N
    <2>2. /\ p + 1 \in Int /\ L - 1 \in Int /\ p + 1 <= L - 1 /\ (L - 1) - (p + 1) + 1 = N - 1
          /\ \A m \in p + 1 .. L - 1 : m \in 1 .. L
          /\ \A m \in 1 .. N - 1 : p + 1 + m - 1 = p + m
      BY <1>1, <1>p
    <2> HIDE DEF s
    <2>3. \A m \in p + 1 .. L - 1 : klines[m] \in Candle
      BY <1>s, <2>2 DEF L
    <2>4. /\ s \in Seq(Candle) /\ Len(s) = (L - 1) - (p + 1) + 1
          /\ \A m \in 1 .. (L - 1) - (p + 1) + 1 : s[m] = klines[p + 1 + m - 1]
      BY <2>1, <2>2, <2>3, SubSeqProperties
    <2> QED
      BY <2>2, <2>4
  <1> HIDE DEF s
  <1>3. used \in Seq(Candle) /\ Len(used) = T /\ \A m \in 1 .. T : used[m] = klines[p + m]
    <2>1. /\ 1 \in Int /\ T \in Int /\ 1 <= T /\ T - 1 + 1 = T
          /\ \A m \in 1 .. T : m \in 1 .. N - 1 /\ 1 + m - 1 = m
      BY <1>1
    <2>2. \A m \in 1 .. T : s[m] \in Candle
      BY <1>2, <2>1
    <2>3. /\ used \in Seq(Candle) /\ Len(used) = T - 1 + 1
          /\ \A m \in 1 .. T - 1 + 1 : used[m] = s[1 + m - 1]
      BY <2>1, <2>2, SubSeqProperties
    <2> QED
      BY <1>2, <2>1, <2>3
  <1> HIDE DEF used
  <1>4. Last(used) = used[T] /\ DOMAIN used = 1 .. T
    BY <1>3 DEF Last
  <1>r. FirstRow(i) = [ts |-> Last(used).ts, settled |-> FinalAndConsecutive(used)]
    BY DEF FirstRow, s, T, used
  <1>5. ASSUME NEW m \in 1 .. T
        PROVE  /\ used[m].final /\ used[m].ts = Newest - (N - m) /\ Newest \in Nat
               /\ \A t \in used[m].ts .. Newest : t \in Stored /\ (t < Newest => t \notin Interim)
    <2>0. m \in Nat /\ 1 <= m /\ m <= T
      BY <1>1
    <2>1. p + m \in 1 .. L /\ p + m > L - LongestNeed /\ L - (p + m) = N - m /\ p + m < L
      BY <1>1, <1>p, <2>0
    <2> USE DEF L
    <2>2. /\ klines[p + m].ts = Newest - (L - (p + m)) /\ Newest \in Nat
          /\ \A t \in klines[p + m].ts .. Newest : t \in Stored /\ (t < Newest => t \notin Interim)
      <3>1. \A n \in 1 .. L : n > L - LongestNeed =>
              /\ klines[n].ts = Newest - (Len(klines) - n) /\ Newest \in Nat
              /\ \A t \in klines[n].ts .. Newest : t \in Stored /\ (t < Newest => t \notin Interim)
        BY NewestCandles
      <3> QED
        BY <2>1, <3>1
    <2>3. klines[p + m].final
      BY <2>1 DEF TableInv, TailExact
    <2>4. used[m] = klines[p + m]
      BY <1>3
    <2> QED
      BY <2>1, <2>2, <2>3, <2>4
  <1>6. 1 \in 1 .. T /\ T \in 1 .. T
    BY <1>1
  <1>7. /\ Newest \in Nat /\ used[1].ts = Newest - (N - 1)
        /\ used[T].ts = Newest - (N - T)
        /\ \A t \in used[1].ts .. Newest : t \in Stored /\ (t < Newest => t \notin Interim)
    BY <1>5, <1>6
  <1>8. used[1].ts \in Nat /\ used[T].ts \in Nat
    <2>1. klines[p + 1].ts \in Nat /\ klines[p + T].ts \in Nat
      <3>1. p + 1 \in 1 .. Len(klines) /\ p + T \in 1 .. Len(klines)
        BY <1>1 DEF p, L
      <3> QED
        BY <3>1, Candles
    <2> QED
      BY <1>3, <1>6, <2>1
  <1>9. FinalAndConsecutive(used)
    <2>1. ASSUME NEW m \in 1 .. T PROVE used[m].final /\ used[m].ts = used[1].ts + m - 1
      <3>1. used[m].final /\ used[m].ts = Newest - (N - m)
        BY <1>5
      <3> QED
        BY <1>1, <1>7, <3>1
    <2> QED
      BY <1>4, <2>1 DEF FinalAndConsecutive
  <1>10. FirstRow(i) = [ts |-> used[T].ts, settled |-> TRUE]
    BY <1>4, <1>9, <1>r
  <1>11. FirstRow(i) \in Row /\ FirstRow(i).settled /\ FirstRow(i).ts = used[T].ts
    BY <1>8, <1>10 DEF Row
  <1>12. FirstRow(i).ts <= Newest
    BY <1>1, <1>7, <1>11
  <1>13. FirstRow(i).ts - W + 1 >= used[1].ts
    BY <1>1, <1>7, <1>11
  <1>14. \A t \in FirstRow(i).ts - W + 1 .. Newest : t \in used[1].ts .. Newest
    BY <1>1, <1>7, <1>8, <1>11, <1>13
  <1> QED
    BY <1>7, <1>11, <1>12, <1>14 DEF W

\* Creating the first rows of some indicators, all or not, keeps the invariant.
LEMMA RowsCreated ==
  ASSUME TableInv, RowInv, NEW new \in SUBSET Ready, CreateFirstRows(new),
         klines' = klines, consumer'.pc # "saving"
  PROVE  RowInv'
  <1>c. DOMAIN rows' = Indicators /\ \A i \in Indicators : rows'[i] = IF i \in new THEN <<FirstRow(i)>> ELSE rows[i]
    BY DEF CreateFirstRows
  <1>1. ASSUME NEW i \in new PROVE i \in Indicators /\ rows[i] = <<>> /\ Len(klines) >= Need[i]
    BY DEF Ready, Missing
  <1>2. ASSUME NEW i \in new PROVE rows'[i] = <<FirstRow(i)>>
    BY <1>1 DEF CreateFirstRows
  <1>3. ASSUME NEW i \in Indicators, i \notin new PROVE rows'[i] = rows[i]
    BY <1>3, <1>c
  <1>n. Newest' = Newest /\ Stored' = Stored /\ Interim' = Interim /\ Abandoned' = Abandoned
    BY DEF Newest, Stored, Interim, Abandoned
  <1>4. ASSUME NEW i \in new
        PROVE  /\ Len(rows'[i]) = 1 /\ rows'[i] \in Seq(Row) /\ rows'[i][1].settled
               /\ rows'[i][1].ts = FirstRow(i).ts /\ FirstRow(i).ts \in Nat /\ FirstRow(i).ts <= Newest
               /\ \A t \in FirstRow(i).ts - Window[i] + 1 .. Newest :
                    t \in Stored /\ (t < Newest => t \notin Interim)
    <2>1. FirstRow(i) \in Row
      BY <1>1, FirstRowExact
    <2>2. FirstRow(i).ts \in Nat
      BY <2>1 DEF Row
    <2>3. rows'[i] \in Seq(Row) /\ Len(rows'[i]) = 1 /\ rows'[i][1] = FirstRow(i)
      <3>1. \A r \in Row : <<r>> \in Seq(Row) /\ Len(<<r>>) = 1 /\ <<r>>[1] = r
        OBVIOUS
      <3> QED
        BY <1>2, <2>1, <3>1
    <2> QED
      BY <1>1, <2>2, <2>3, FirstRowExact
  <1>5. rows' \in [Indicators -> Seq(Row)]
    <2>1. \A i \in Indicators : rows'[i] \in Seq(Row)
      BY <1>3, <1>4 DEF RowInv
    <2> DEFINE next == [i \in Indicators |-> IF i \in new THEN <<FirstRow(i)>> ELSE rows[i]]
    <2>a. rows' = next /\ next = [i \in Indicators |-> next[i]]
      BY DEF CreateFirstRows
    <2> HIDE DEF next
    <2>2. rows' = [i \in Indicators |-> rows'[i]]
      BY <2>a
    <2> QED
      BY <2>1, <2>2, Zenon
  <1>6. InStep'
    <2> SUFFICES ASSUME NEW i \in Indicators, NEW n \in 1 .. Len(rows'[i])
                 PROVE  rows'[i][n].ts = rows'[i][1].ts + n - 1
      BY DEF InStep, First
    <2>1. CASE i \in new
      <3>0. Len(rows'[i]) = 1 /\ rows'[i][1].ts \in Nat
        BY <1>4, <2>1
      <3>1. n = 1 /\ rows'[i][1].ts \in Nat
        BY <3>0
      <3> QED
        BY <3>1
    <2>2. CASE i \notin new
      BY <1>3, <2>2 DEF RowInv, InStep, First
    <2> QED
      BY <2>1, <2>2
  <1>7. FirstSettled'
    BY <1>3, <1>4 DEF RowInv, FirstSettled
  <1>8. WindowsStored'
    <2> SUFFICES ASSUME NEW i \in Indicators, rows'[i] # <<>>,
                        NEW t \in rows'[i][1].ts - Window[i] + 1 .. rows'[i][Len(rows'[i])].ts
                 PROVE  t \in Stored
      BY <1>n DEF WindowsStored, First, Latest
    <2>1. CASE i \in new
      <3>1. /\ t \in FirstRow(i).ts - Window[i] + 1 .. FirstRow(i).ts
            /\ FirstRow(i).ts \in Nat /\ FirstRow(i).ts <= Newest
        BY <1>4, <2>1
      <3>2. Newest \in Nat
        <4>0. Need[i] \in Nat /\ 1 <= Need[i] /\ Len(klines) >= Need[i] /\ Len(klines) \in Nat
          BY <1>1, <2>1, Candles, IndicatorNumbers
        <4>1. Len(klines) \in 1 .. Len(klines)
          BY <4>0
        <4> QED
          BY <4>1, Candles DEF Newest
      <3>3. t \in FirstRow(i).ts - Window[i] + 1 .. Newest
        BY <3>1, <3>2, IndicatorNumbers
      <3> QED
        BY <1>4, <2>1, <3>3
    <2>2. CASE i \notin new
      BY <1>3, <2>2 DEF RowInv, WindowsStored, First, Latest
    <2> QED
      BY <2>1, <2>2
  <1>9. Unbroken'
    <2> SUFFICES ASSUME NEW i \in Indicators \ {"boll"}, rows'[i] # <<>>,
                        NEW t \in rows'[i][1].ts - Window[i] + 1 .. Newest
                 PROVE  t \in Stored /\ (t < Newest => t \notin Interim)
      BY <1>n DEF Unbroken, First
    <2>1. CASE i \in new
      BY <1>4, <2>1
    <2>2. CASE i \notin new
      BY <1>3, <2>2 DEF RowInv, Unbroken, First
    <2> QED
      BY <2>1, <2>2
  <1>10. RowsSound'
    <2> SUFFICES ASSUME NEW i \in Indicators, NEW n \in 1 .. Len(rows'[i]) - 1
                 PROVE  SoundRow(i, rows'[i][n])
      BY <1>n DEF RowsSound, SoundRow
    <2>1. CASE i \in new
      <3>1. Len(rows'[i]) = 1
        BY <1>4, <2>1
      <3> QED
        BY <3>1
    <2>2. CASE i \notin new
      BY <1>3, <2>2 DEF RowInv, RowsSound
    <2> QED
      BY <2>1, <2>2
  <1>11. BatchReaches'
    BY DEF BatchReaches
  <1> QED
    BY <1>5, <1>6, <1>7, <1>8, <1>9, <1>10, <1>11 DEF RowInv

-----------------------------------------------------------------------------
(* What an update reads.                                                   *)

\* The place of the third newest row.
Oldest(i) == IF Len(rows[i]) >= 3 THEN Len(rows[i]) - 2 ELSE 1

\* The rows an update goes on from, and their candles.
LEMMA KnownRows ==
  ASSUME RowInv, NEW i \in Indicators, rows[i] # <<>>
  PROVE  /\ rows[i] \in Seq(Row) /\ Len(rows[i]) \in Nat /\ Oldest(i) \in 1 .. Len(rows[i])
         /\ Known(i) \in Seq(Row) /\ Len(Known(i)) = Len(rows[i]) - Oldest(i) + 1
         /\ \A j \in 1 .. Len(Known(i)) : /\ Known(i)[j] = rows[i][Oldest(i) + j - 1]
                                          /\ Known(i)[j].ts = Base(i) + j - 1
         /\ Base(i) = First(i) + Oldest(i) - 1 /\ First(i) \in Nat /\ Base(i) \in Nat
         /\ Latest(i) = First(i) + Len(rows[i]) - 1
  <1> DEFINE s == rows[i]
             N == Len(s)
             b == Oldest(i)
             k == Known(i)
  <1>1. s \in Seq(Row) /\ N \in Nat /\ N >= 1
    BY DEF RowInv
  <1>2. b \in 1 .. N /\ b \in Int /\ N \in Int /\ b <= N
    BY <1>1 DEF Oldest
  <1>3. Max({1, N - 2}) = b
    <2>1. Max({1, N - 2}) = IF 1 >= N - 2 THEN 1 ELSE N - 2
      BY <1>1, OfTwo
    <2> HIDE DEF s
    <2> QED
      BY <1>1, <2>1 DEF Oldest, s
  <1>4. k = SubSeq(s, b, N)
    BY <1>3 DEF Known
  <1>5. \A n \in 1 .. N : s[n] \in Row /\ s[n].ts \in Nat
    <2>1. \A n \in 1 .. N : s[n] \in Row
      BY <1>1
    <2> QED
      BY <2>1 DEF Row
  <1>6. \A n \in 1 .. N : s[n].ts = First(i) + n - 1
    BY DEF RowInv, InStep
  <1>f. 1 \in 1 .. N /\ First(i) \in Nat
    BY <1>1, <1>5 DEF First
  <1>l. Latest(i) = First(i) + N - 1
    BY <1>1, <1>6 DEF Latest
  <1> HIDE DEF s, N, b, k
  <1>7. /\ k \in Seq(Row) /\ Len(k) = N - b + 1
        /\ \A j \in 1 .. N - b + 1 : k[j] = s[b + j - 1]
    <2>1. \A n \in b .. N : s[n] \in Row
      BY <1>1, <1>2, <1>5
    <2> QED
      BY <1>2, <1>4, <2>1, SubSeqProperties
  <1>8. ASSUME NEW j \in 1 .. N - b + 1 PROVE k[j].ts = First(i) + b - 1 + j - 1
    <2>1. b + j - 1 \in 1 .. N
      BY <1>1, <1>2
    <2>2. k[j].ts = First(i) + (b + j - 1) - 1
      BY <1>6, <1>7, <2>1
    <2> QED
      BY <1>2, <1>f, <2>2
  <1>9. Base(i) = First(i) + b - 1
    <2> DEFINE S == {r.ts : r \in ToSet(k)}
    <2>1. DOMAIN k = 1 .. N - b + 1
      BY <1>7
    <2>2. S = {k[j].ts : j \in 1 .. N - b + 1}
      BY <2>1 DEF ToSet
    <2>3. Base(i) = Min(S)
      BY DEF Base, k
    <2> HIDE DEF S
    <2>4. 1 \in 1 .. N - b + 1
      BY <1>1, <1>2
    <2>5. k[1].ts \in S /\ k[1].ts = First(i) + b - 1 /\ First(i) + b - 1 \in Int
      <3>1. k[1].ts = First(i) + b - 1 + 1 - 1
        BY <1>8, <2>4
      <3> QED
        BY <1>2, <1>f, <2>2, <2>4, <3>1
    <2>6. \A y \in S : y \in Int /\ First(i) + b - 1 <= y
      <3> SUFFICES ASSUME NEW j \in 1 .. N - b + 1
                   PROVE  k[j].ts \in Int /\ First(i) + b - 1 <= k[j].ts
        BY <2>2
      <3>1. k[j].ts = First(i) + b - 1 + j - 1
        BY <1>8
      <3> QED
        BY <1>2, <1>f, <3>1
    <2>7. Min(S) \in S /\ \A y \in S : Min(S) <= y
      <3>1. \E x \in S : \A y \in S : x <= y
        BY <2>5, <2>6
      <3> QED
        BY <3>1 DEF Min
    <2>8. Min(S) <= First(i) + b - 1 /\ First(i) + b - 1 <= Min(S) /\ Min(S) \in Int
      BY <2>5, <2>6, <2>7
    <2> QED
      BY <2>3, <2>5, <2>8
  <1>10. Base(i) \in Nat
    BY <1>2, <1>9, <1>f
  <1>11. \A j \in 1 .. Len(k) : k[j] = s[b + j - 1] /\ k[j].ts = Base(i) + j - 1
    BY <1>7, <1>8, <1>9
  <1>12. s \in Seq(Row) /\ N \in Nat /\ b \in 1 .. N /\ k \in Seq(Row) /\ Len(k) = N - b + 1
    BY <1>1, <1>2, <1>7
  <1> QED
    BY <1>9, <1>10, <1>11, <1>12, <1>f, <1>l DEF s, N, b, k

\* The candles behind the rows an update goes on from.
LEMMA BaseStored ==
  ASSUME RowInv, NEW i \in Indicators, rows[i] # <<>>
  PROVE  \A t \in Base(i) - Window[i] + 1 .. Latest(i) : t \in Stored
  <1>1. First(i) <= Base(i) /\ First(i) \in Nat /\ Base(i) \in Nat
    BY KnownRows
  <1>2. \A t \in Base(i) - Window[i] + 1 .. Latest(i) : t \in First(i) - Window[i] + 1 .. Latest(i)
    BY <1>1, IndicatorNumbers, KnownRows
  <1> QED
    BY <1>2 DEF RowInv, WindowsStored

\* An update reads all candles from a start that is early enough for every indicator.
LEMMA UpdateReads ==
  ASSUME TableInv, RowInv, Missing = {}
  PROVE  \E start \in Int :
           /\ UpdateKlines = {n \in 1 .. Len(klines) : klines[n].ts >= start}
           /\ \A i \in Indicators : /\ start <= Base(i)
                                    /\ i \in {"kdj", "boll"} => start <= Base(i) - Window[i]
  <1>1. \A i \in Indicators : rows[i] # <<>>
    BY DEF Missing
  <1>2. ASSUME NEW i \in Indicators
        PROVE  /\ Start(i) \in Int /\ Start(i) + 1 \in Nat /\ Start(i) <= Base(i)
               /\ i \in {"kdj", "boll"} => Start(i) = Base(i) - Window[i]
    <2>1. Base(i) \in Nat /\ Window[i] \in Nat /\ 1 <= Window[i]
      BY <1>1, KnownRows, IndicatorNumbers
    <2>2. Base(i) - Window[i] + 1 \in Stored
      <3>1. Base(i) <= Latest(i)
        BY <1>1, KnownRows
      <3>2. Latest(i) \in Nat
        BY <1>1, KnownRows
      <3>3. Base(i) - Window[i] + 1 \in Base(i) - Window[i] + 1 .. Latest(i)
        BY <2>1, <3>1, <3>2
      <3> QED
        BY <1>1, <3>3, BaseStored
    <2>3. Base(i) - Window[i] + 1 \in Nat
      BY <2>2, Candles DEF Stored
    <2> QED
      BY <2>1, <2>3 DEF Start
  <1> DEFINE S == {Start(i) : i \in Indicators}
             T == {x + 1 : x \in S}
  <1>3. T \subseteq Nat /\ T # {}
    BY <1>2, ConstantsAssumption
  <1>4. PICK x \in T : \A y \in T : x <= y
    BY <1>3, LeastNumber
  <1>5. x - 1 \in S /\ \A y \in S : x - 1 <= y
    <2>1. PICK z \in S : x = z + 1
      BY <1>4
    <2>2. \A y \in S : y \in Int
      BY <1>2
    <2>3. \A y \in S : x <= y + 1
      BY <1>4
    <2> HIDE DEF S, T
    <2>4. x - 1 = z
      BY <2>1, <2>2
    <2>5. \A y \in S : z + 1 <= y + 1
      BY <2>1, <2>3
    <2>6. \A y \in S : z <= y
      BY <2>2, <2>5
    <2> QED
      BY <2>4, <2>6
  <1>6. Min(S) \in S /\ \A y \in S : Min(S) <= y
    <2> HIDE DEF S
    <2> QED
      BY <1>5 DEF Min
  <1>7. UpdateKlines = {n \in 1 .. Len(klines) : klines[n].ts >= Min(S)}
    <2>1. DOMAIN klines = 1 .. Len(klines)
      BY Candles
    <2> QED
      BY <2>1 DEF UpdateKlines
  <1>8. ASSUME NEW i \in Indicators
        PROVE  /\ Min(S) <= Base(i)
               /\ i \in {"kdj", "boll"} => Min(S) <= Base(i) - Window[i]
    <2>1. Min(S) <= Start(i)
      BY <1>6
    <2>2. Min(S) \in Int
      BY <1>2, <1>6
    <2> HIDE DEF S
    <2>3. Base(i) \in Nat
      BY <1>1, KnownRows
    <2> QED
      BY <1>2, <2>1, <2>2, <2>3
  <1>9. Min(S) \in Int
    BY <1>2, <1>6
  <1> QED
    BY <1>7, <1>8, <1>9

-----------------------------------------------------------------------------
(* One step of an update.                                                  *)

\* What a run of rows that begins at b becomes by the row that follows its k-th.
Followed(known, b, k, row, next) ==
  /\ next \in Seq(Row) /\ Len(next) \in Nat /\ Len(next) >= Len(known)
  /\ \A j \in 1 .. Len(next) : /\ next[j].ts = b + j - 1
                               /\ j # k + 1 => j \in 1 .. Len(known) /\ next[j] = known[j]
                               /\ j = k + 1 => next[j] = row

\* A row that follows one of a run of rows replaces its successor, or is appended.
LEMMA UpsertNext ==
  ASSUME NEW known \in Seq(Row), NEW b \in Nat,
         \A j \in 1 .. Len(known) : known[j].ts = b + j - 1,
         NEW row \in Row, NEW k \in 1 .. Len(known), row.ts = b + k
  PROVE  Followed(known, b, k, row, Upsert(known, row))
  <1> DEFINE K == Len(known)
             next == Upsert(known, row)
  <1>1. K \in Nat /\ DOMAIN known = 1 .. K /\ k \in Nat /\ 1 <= k /\ k <= K /\ row.ts \in Nat
    BY DEF Row
  <1>2. \A j \in 1 .. K : known[j] \in Row /\ known[j].ts = b + j - 1
    OBVIOUS
  <1>3. \A j \in 1 .. K : known[j].ts = row.ts <=> j = k + 1
    BY <1>1
  <1>4. CASE k < K
    <2>1. k + 1 \in 1 .. K
      BY <1>1, <1>4
    <2>2. next = [j \in 1 .. K |-> IF known[j].ts = row.ts THEN row ELSE known[j]]
      BY <1>1, <1>3, <2>1 DEF Upsert
    <2> HIDE DEF next, K
    <2>3. next \in [1 .. K -> Row]
      BY <1>2, <2>2
    <2>4. next \in Seq(Row) /\ Len(next) = K
      <3>1. K \in Nat
        BY <1>1
      <3> QED
        BY <2>3, <3>1
    <2>5. ASSUME NEW j \in 1 .. K
          PROVE  /\ next[j].ts = b + j - 1
                 /\ j # k + 1 => next[j] = known[j]
                 /\ j = k + 1 => next[j] = row
      <3>1. next[j] = IF known[j].ts = row.ts THEN row ELSE known[j]
        BY <2>2
      <3>2. CASE j = k + 1
        <4>1. next[j] = row
          BY <1>3, <3>1, <3>2
        <4>2. b + j - 1 = b + k
          BY <1>1, <3>2
        <4> QED
          BY <3>2, <4>1, <4>2
      <3>3. CASE j # k + 1
        BY <1>2, <1>3, <3>1, <3>3
      <3> QED
        BY <3>2, <3>3
    <2> QED
      BY <1>1, <2>4, <2>5 DEF Followed, next, K
  <1>5. CASE k = K
    <2>1. ~ \E j \in 1 .. K : known[j].ts = row.ts
      BY <1>1, <1>3, <1>5
    <2>2. next = Append(known, row)
      BY <1>1, <2>1 DEF Upsert
    <2> HIDE DEF next
    <2>3. next \in Seq(Row) /\ Len(next) = K + 1
      BY <2>2
    <2>4. \A j \in 1 .. K : next[j] = known[j]
      BY <2>2
    <2>5. next[K + 1] = row
      BY <2>2
    <2> HIDE DEF K
    <2>6. ASSUME NEW j \in 1 .. K + 1
          PROVE  /\ next[j].ts = b + j - 1
                 /\ j # k + 1 => j \in 1 .. K /\ next[j] = known[j]
                 /\ j = k + 1 => next[j] = row
      <3>1. CASE j = K + 1
        <4>1. next[j] = row /\ j = k + 1 /\ b + j - 1 = b + k
          BY <1>1, <1>5, <2>5, <3>1
        <4> QED
          BY <4>1
      <3>2. CASE j # K + 1
        <4>1. j \in 1 .. K /\ j # k + 1
          BY <1>1, <1>5, <3>2
        <4> QED
          BY <1>2, <2>4, <4>1
      <3> QED
        BY <3>1, <3>2
    <2>7. K + 1 \in Nat /\ K + 1 >= K
      BY <1>1
    <2> QED
      BY <2>3, <2>6, <2>7 DEF Followed, next, K
  <1>6. k < K \/ k = K
    <2> HIDE DEF K
    <2> QED
      BY <1>1
  <1> QED
    BY <1>4, <1>5, <1>6, Zenon

\* What the step for a candle behind a known row reads: if the candles of its
\* window are all stored, exactly those.
Reads(i, db, base) ==
  \E start \in Int : /\ db = {m \in 1 .. Len(klines) : klines[m].ts >= start}
                     /\ start <= base
                     /\ i \in {"kdj", "boll"} => start <= base - Window[i]

\* With a full window behind it, a step reads just that window.
LEMMA InputsWindow ==
  ASSUME TableInv, NEW i \in Indicators, NEW n \in 1 .. Len(klines), NEW db, NEW base \in Nat,
         Reads(i, db, base), klines[n].ts > base,
         \A t \in klines[n].ts - Window[i] + 1 .. klines[n].ts : t \in Stored
  PROVE  /\ n \in db
         /\ \A k \in 0 .. Window[i] - 1 :
              n - k \in 1 .. Len(klines) /\ klines[n - k].ts = klines[n].ts - k
         /\ Inputs(i, db, n) = n - Window[i] + 1 .. n
         /\ {klines[m].ts : m \in Inputs(i, db, n)} = klines[n].ts - Window[i] + 1 .. klines[n].ts
  <1> DEFINE W == Window[i]
             L == Len(klines)
             t == klines[n].ts
  <1>1. /\ W \in Nat /\ 1 <= W /\ (i \notin {"kdj", "boll"} => W <= 2)
        /\ L \in Nat /\ n \in Nat /\ t \in Nat
    BY IndicatorNumbers, Candles
  <1>2. PICK start \in Int : /\ db = {m \in 1 .. L : klines[m].ts >= start}
                             /\ start <= base
                             /\ i \in {"kdj", "boll"} => start <= base - W
    BY DEF Reads
  <1>3. \A k \in 0 .. W - 1 : n - k \in 1 .. L /\ klines[n - k].ts = t - k
    BY <1>1, SideBySide
  <1>t. t > base
    OBVIOUS
  <1>e. \A m \in 1 .. L : klines[m].ts \in Nat
    BY Candles
  <1>u. \A m, k \in 1 .. L : klines[m].ts = klines[k].ts => m = k
    BY Candles
  <1> HIDE DEF W, L, t
  <1>4. ASSUME NEW k \in 0 .. W - 1 PROVE n - k \in db
    <2>1. t - k >= start
      <3>1. CASE i \in {"kdj", "boll"}
        <4>1. start <= base - W
          BY <1>2, <3>1
        <4> QED
          BY <1>1, <1>t, <4>1
      <3>2. CASE i \notin {"kdj", "boll"}
        <4>1. W <= 2
          BY <1>1, <3>2
        <4> QED
          BY <1>1, <1>2, <1>t, <4>1
      <3> QED
        BY <3>1, <3>2
    <2> QED
      BY <1>2, <1>3, <2>1
  <1>5. n \in db
    <2>1. 0 \in 0 .. W - 1 /\ n - 0 = n
      BY <1>1
    <2> QED
      BY <1>4, <2>1
  <1>6. \A m \in n - W + 1 .. n : n - m \in 0 .. W - 1 /\ n - (n - m) = m
    BY <1>1
  <1>7. \A m \in n - W + 1 .. n : m \in db /\ klines[m].ts = t - (n - m)
    BY <1>3, <1>4, <1>6
  <1>8. Inputs(i, db, n) = n - W + 1 .. n
    <2>1. CASE i # "kdj"
      <3>1. Inputs(i, db, n) = (n - W + 1 .. n) \cap db
        BY <2>1 DEF Inputs, W
      <3> QED
        BY <1>7, <3>1
    <2>2. CASE i = "kdj"
      <3>1. Inputs(i, db, n) = {m \in db : t - klines[m].ts \in 0 .. W - 1}
        BY <2>2 DEF Inputs, W, t
      <3>2. ASSUME NEW m \in db, t - klines[m].ts \in 0 .. W - 1 PROVE m \in n - W + 1 .. n
        <4> DEFINE k == t - klines[m].ts
        <4>1. m \in 1 .. L
          BY <1>2
        <4>2. klines[m].ts \in Nat
          BY <1>e, <4>1
        <4>3. k \in 0 .. W - 1 /\ t - k = klines[m].ts
          BY <1>1, <3>2, <4>2
        <4> HIDE DEF k
        <4>4. n - k \in 1 .. L /\ klines[n - k].ts = klines[m].ts
          BY <1>3, <4>3
        <4>5. m = n - k
          BY <1>u, <4>1, <4>4
        <4> QED
          BY <1>1, <4>3, <4>5
      <3>3. ASSUME NEW m \in n - W + 1 .. n PROVE m \in db /\ t - klines[m].ts \in 0 .. W - 1
        <4>1. m \in db /\ klines[m].ts = t - (n - m)
          BY <1>7
        <4>2. n - m \in 0 .. W - 1
          BY <1>6
        <4>3. t - (t - (n - m)) = n - m
          BY <1>1, <4>2
        <4> QED
          BY <4>1, <4>2, <4>3
      <3> QED
        BY <3>1, <3>2, <3>3
    <2> QED
      BY <2>1, <2>2
  <1>9. {klines[m].ts : m \in Inputs(i, db, n)} = t - W + 1 .. t
    <2>1. ASSUME NEW m \in n - W + 1 .. n PROVE klines[m].ts \in t - W + 1 .. t
      <3>1. klines[m].ts = t - (n - m) /\ n - m \in 0 .. W - 1
        BY <1>6, <1>7
      <3> QED
        BY <1>1, <3>1
    <2>2. ASSUME NEW u \in t - W + 1 .. t PROVE \E m \in n - W + 1 .. n : klines[m].ts = u
      <3>1. n - (t - u) \in n - W + 1 .. n /\ t - (n - (n - (t - u))) = u
        BY <1>1
      <3> QED
        BY <1>7, <3>1
    <2> QED
      BY <1>8, <2>1, <2>2
  <1> QED
    BY <1>3, <1>5, <1>8, <1>9 DEF W, L, t

\* The rows an update has reached once it stepped over the first n candles: they
\* follow each other, and those it computed are sound.
StoredTo(n) == {klines[m].ts : m \in 1 .. n}
KnownTo(i, known, n) ==
  /\ known \in Seq(Row) /\ Len(known) >= Len(Known(i)) /\ known[1] = Known(i)[1]
  /\ \A j \in 1 .. Len(known) : known[j].ts = Base(i) + j - 1 /\ known[j].ts \in Stored
  /\ \A j \in 2 .. Len(known) :
       known[j].ts \in StoredTo(n) /\ known[j].ts < Newest => SoundRow(i, known[j])

\* The window of a candle that follows a known row is stored.
LEMMA WindowStored ==
  ASSUME TableInv, RowInv, NEW i \in Indicators, rows[i] # <<>>,
         NEW known, NEW n \in Nat, KnownTo(i, known, n),
         NEW k \in 1 .. Len(known), NEW t \in Stored, t = Base(i) + k
  PROVE  \A u \in t - Window[i] + 1 .. t : u \in Stored
  <1> DEFINE b == Base(i)
             W == Window[i]
             K == Len(known)
  <1>1. b \in Nat /\ W \in Nat /\ 1 <= W /\ k \in Nat /\ 1 <= k /\ k <= K /\ K \in Nat
    <2>1. K \in Nat
      BY DEF KnownTo
    <2> QED
      BY <2>1, KnownRows, IndicatorNumbers
  <1>2. b <= Latest(i) /\ Latest(i) \in Nat
    <2> DEFINE N == Len(rows[i])
    <2>1. /\ N \in Nat /\ Oldest(i) \in 1 .. N /\ First(i) \in Nat
          /\ b = First(i) + Oldest(i) - 1 /\ Latest(i) = First(i) + N - 1
      BY KnownRows
    <2> HIDE DEF N, b
    <2> QED
      BY <2>1
  <1>3. \A u \in b - W + 1 .. Latest(i) : u \in Stored
    BY BaseStored
  <1>4. \A j \in 1 .. K : known[j].ts = b + j - 1 /\ known[j].ts \in Stored
    BY DEF KnownTo
  <1> SUFFICES ASSUME NEW u \in t - W + 1 .. t PROVE u \in Stored
    OBVIOUS
  <1> HIDE DEF b, W, K
  <1>0. t = b + k
    BY DEF b
  <1>5. CASE u < b
    <2>1. u \in b - W + 1 .. Latest(i)
      BY <1>0, <1>1, <1>2, <1>5
    <2> QED
      BY <1>3, <2>1
  <1>6. CASE u >= b /\ u < t
    <2>1. u - b + 1 \in 1 .. K /\ b + (u - b + 1) - 1 = u
      BY <1>0, <1>1, <1>6
    <2> QED
      BY <1>4, <2>1
  <1>7. CASE u = t
    BY <1>7
  <1> QED
    BY <1>0, <1>1, <1>5, <1>6, <1>7

\* A row that an update computes is sound if the one it goes on from is.
LEMMA ComputedSound ==
  ASSUME TableInv, RowInv, NEW i \in Indicators, rows[i] # <<>>,
         NEW n \in 1 .. Len(klines), NEW db, Reads(i, db, Base(i)),
         klines[n].ts > Base(i), klines[n].ts < Newest,
         \A t \in klines[n].ts - Window[i] + 1 .. klines[n].ts : t \in Stored,
         NEW before, i = "boll" \/ before,
         NEW row \in Row, row.ts = klines[n].ts,
         row.settled = (Exact(i, db, n) /\ (i = "boll" \/ before))
  PROVE  SoundRow(i, row)
  <1> DEFINE W == Window[i]
             L == Len(klines)
             t == klines[n].ts
  <1>1. Base(i) \in Nat /\ W \in Nat /\ 1 <= W /\ t \in Nat /\ n \in Nat /\ L \in Nat
    BY KnownRows, IndicatorNumbers, Candles
  <1>2. /\ \A k \in 0 .. W - 1 : n - k \in 1 .. L /\ klines[n - k].ts = t - k
        /\ Inputs(i, db, n) = n - W + 1 .. n
        /\ {klines[m].ts : m \in Inputs(i, db, n)} = t - W + 1 .. t
    <2>1. \A base \in Nat : Reads(i, db, base) /\ t > base =>
            /\ \A k \in 0 .. W - 1 : n - k \in 1 .. L /\ klines[n - k].ts = t - k
            /\ Inputs(i, db, n) = n - W + 1 .. n
            /\ {klines[m].ts : m \in Inputs(i, db, n)} = t - W + 1 .. t
      BY InputsWindow
    <2> QED
      BY <1>1, <2>1
  <1>3. CASE \A k \in 0 .. W - 1 : klines[n - k].final
    <2>1. \A m \in n - W + 1 .. n : n - m \in 0 .. W - 1 /\ n - (n - m) = m
      <3> HIDE DEF W, L, t
      <3> QED
        BY <1>1
    <2>2. \A m \in n - W + 1 .. n : klines[m].final
      BY <1>3, <2>1
    <2>3. Exact(i, db, n)
      BY <1>2, <2>2 DEF Exact
    <2>4. row.settled
      BY <2>3
    <2> QED
      BY <2>4 DEF SoundRow
  <1>4. CASE \E k \in 0 .. W - 1 : ~klines[n - k].final
    <2>1. PICK k \in 0 .. W - 1 : ~klines[n - k].final
      BY <1>4
    <2>2. n - k \in 1 .. L /\ klines[n - k].ts = t - k
      BY <1>2
    <2>3. t - k < Newest /\ Newest \in Nat
      <3>1. Newest \in Nat
        <4>1. L \in 1 .. L
          <5>1. n \in 1 .. L
            OBVIOUS
          <5> HIDE DEF L
          <5> QED
            BY <1>1, <5>1
        <4> QED
          BY <4>1, Candles DEF Newest
      <3> HIDE DEF W, L
      <3>2. t < Newest
        OBVIOUS
      <3> HIDE DEF t
      <3> QED
        BY <1>1, <3>1, <3>2
    <2>4. t - k \in Abandoned
      <3>1. \A m \in 1 .. L : klines[m].ts < Newest => klines[m].final \/ klines[m].ts \in Abandoned
        BY FinalOrAbandoned
      <3> QED
        BY <2>1, <2>2, <2>3, <3>1
    <2>5. CASE i = "boll"
      BY <2>4, <2>5 DEF SoundRow
    <2>6. CASE i # "boll"
      <3>1. t - k \in Interim
        BY <2>1, <2>2 DEF Interim
      <3>2. t - k \in First(i) - W + 1 .. Newest
        <4>1. First(i) \in Nat /\ First(i) <= Base(i)
          BY KnownRows
        <4>2. t > Base(i)
          OBVIOUS
        <4> HIDE DEF t, W, L
        <4> QED
          BY <1>1, <2>3, <4>1, <4>2
      <3>3. t - k \notin Interim
        BY <2>3, <2>6, <3>2 DEF RowInv, Unbroken
      <3> QED
        BY <3>1, <3>3
    <2> QED
      BY <2>5, <2>6
  <1> QED
    BY <1>3, <1>4

\* The row an update goes on from is sound.
LEMMA BaseSound ==
  ASSUME RowInv, NEW i \in Indicators, rows[i] # <<>>
  PROVE  SoundRow(i, Known(i)[1]) /\ Known(i)[1].ts = Base(i) /\ Len(Known(i)) >= 1
  <1> DEFINE N == Len(rows[i])
  <1>1. /\ N \in Nat /\ Oldest(i) \in 1 .. N /\ Len(Known(i)) = N - Oldest(i) + 1 /\ Base(i) \in Nat
        /\ \A j \in 1 .. Len(Known(i)) : /\ Known(i)[j] = rows[i][Oldest(i) + j - 1]
                                         /\ Known(i)[j].ts = Base(i) + j - 1
    BY KnownRows
  <1>o. Oldest(i) = IF N >= 3 THEN N - 2 ELSE 1
    BY DEF Oldest
  <1> HIDE DEF N
  <1>2. Len(Known(i)) >= 1 /\ 1 \in 1 .. Len(Known(i)) /\ Oldest(i) + 1 - 1 = Oldest(i)
    BY <1>1
  <1>3. Known(i)[1] = rows[i][Oldest(i)] /\ Known(i)[1].ts = Base(i)
    BY <1>1, <1>2
  <1>4. CASE N >= 3
    <2>1. Oldest(i) \in 1 .. N - 1
      BY <1>1, <1>4, <1>o
    <2> QED
      BY <1>2, <1>3, <2>1 DEF RowInv, RowsSound, N
  <1>5. CASE ~(N >= 3)
    BY <1>2, <1>3, <1>5, <1>o DEF RowInv, FirstSettled, SoundRow
  <1> QED
    BY <1>4, <1>5

\* One more step of an update, whether it computes a row or not.
LEMMA SteppedRow ==
  ASSUME TableInv, RowInv, NEW i \in Indicators, rows[i] # <<>>,
         NEW n \in 1 .. Len(klines), NEW db, Reads(i, db, Base(i)),
         NEW known, KnownTo(i, known, n - 1)
  PROVE  KnownTo(i, Stepped(i, db, known, n), n)
  <1> DEFINE b == Base(i)
             t == klines[n].ts
             K == Len(known)
             before == {r \in ToSet(known) : r.ts = t - 1}
             next == Stepped(i, db, known, n)
  <1>1. /\ known \in Seq(Row) /\ K \in Nat /\ K >= 1 /\ K >= Len(Known(i)) /\ known[1] = Known(i)[1]
        /\ \A j \in 1 .. K : known[j].ts = b + j - 1 /\ known[j].ts \in Stored
        /\ \A j \in 2 .. K : known[j].ts \in StoredTo(n - 1) /\ known[j].ts < Newest => SoundRow(i, known[j])
    <2>1. /\ known \in Seq(Row) /\ K >= Len(Known(i)) /\ known[1] = Known(i)[1]
          /\ \A j \in 1 .. K : known[j].ts = b + j - 1 /\ known[j].ts \in Stored
          /\ \A j \in 2 .. K : known[j].ts \in StoredTo(n - 1) /\ known[j].ts < Newest => SoundRow(i, known[j])
      BY DEF KnownTo
    <2>2. K \in Nat /\ Len(Known(i)) \in Nat /\ Len(Known(i)) >= 1
      BY <2>1, KnownRows, BaseSound
    <2>3. K >= 1
      <3> HIDE DEF K
      <3> QED
        BY <2>1, <2>2
    <2> QED
      BY <2>1, <2>2, <2>3
  <1>2. b \in Nat /\ t \in Nat /\ n \in Nat /\ t \in Stored /\ n >= 1
    BY KnownRows, Candles DEF Stored
  <1>3. ToSet(known) = {known[j] : j \in 1 .. K}
    BY <1>1 DEF ToSet
  <1>4. \A s \in StoredTo(n) : s = t \/ s \in StoredTo(n - 1)
    <2> SUFFICES ASSUME NEW m \in 1 .. n PROVE klines[m].ts = t \/ klines[m].ts \in StoredTo(n - 1)
      BY DEF StoredTo
    <2>1. m = n \/ m \in 1 .. n - 1
      BY <1>2
    <2> QED
      BY <2>1 DEF StoredTo
  <1>b. \A j \in 1 .. K : known[j].ts = t - 1 => before # {}
    BY <1>3
  <1>d. t > b => n \in db
    <2> SUFFICES ASSUME t > b PROVE n \in db
      OBVIOUS
    <2>1. PICK start \in Int : db = {m \in 1 .. Len(klines) : klines[m].ts >= start} /\ start <= b
      BY DEF Reads
    <2>2. t >= start
      <3>1. t > b
        OBVIOUS
      <3> HIDE DEF t, b
      <3> QED
        BY <1>2, <2>1, <3>1
    <2> QED
      BY <2>1, <2>2
  <1>5. CASE n \notin db \/ before = {}
    <2>1. next = known
      BY <1>5 DEF Stepped
    <2>2. ASSUME NEW j \in 2 .. K, known[j].ts \in StoredTo(n), known[j].ts < Newest
          PROVE  SoundRow(i, known[j])
      <3>1. CASE known[j].ts = t
        <4> HIDE DEF before, t, b, K
        <4>1. j - 1 \in 1 .. K /\ j \in 1 .. K
          BY <1>1
        <4>2. known[j].ts = b + j - 1 /\ known[j - 1].ts = b + (j - 1) - 1
          BY <1>1, <4>1
        <4>3. known[j - 1].ts = t - 1 /\ t > b
          BY <1>2, <3>1, <4>2
        <4> QED
          BY <1>5, <1>b, <1>d, <4>1, <4>3
      <3>2. CASE known[j].ts \in StoredTo(n - 1)
        BY <1>1, <2>2, <3>2
      <3> QED
        BY <1>4, <2>2, <3>1, <3>2
    <2> QED
      BY <1>1, <2>1, <2>2 DEF KnownTo
  <1>6. CASE n \in db /\ before # {}
    <2>1. PICK k \in 1 .. K : known[k].ts = t - 1
      BY <1>3, <1>6
    <2> DEFINE was == \A r \in before : r.settled
               row == [ts |-> t, settled |-> Exact(i, db, n) /\ (i = "boll" \/ was)]
    <2>2. t = b + k /\ k \in Nat /\ 1 <= k /\ t > b
      <3>1. known[k].ts = b + k - 1
        BY <1>1
      <3> HIDE DEF t, b, K
      <3> QED
        BY <1>1, <1>2, <2>1, <3>1
    <2>3. next = Upsert(known, row)
      BY <1>6 DEF Stepped
    <2>4. row \in Row /\ row.ts = t /\ row.settled = (Exact(i, db, n) /\ (i = "boll" \/ was))
      <3>1. (Exact(i, db, n) /\ (i = "boll" \/ was)) \in BOOLEAN
        OBVIOUS
      <3> QED
        BY <1>2, <3>1 DEF Row
    <2>u. \A s \in t - Window[i] + 1 .. t : s \in Stored
      <3>1. \A m \in Nat : KnownTo(i, known, m) =>
              \A j \in 1 .. Len(known) : \A s \in Stored :
                s = Base(i) + j => \A u \in s - Window[i] + 1 .. s : u \in Stored
        BY WindowStored
      <3>2. n - 1 \in Nat
        <4> HIDE DEF t
        <4> QED
          BY <1>2
      <3> QED
        BY <1>2, <2>2, <3>1, <3>2
    <2> HIDE DEF row
    <2>5. /\ next \in Seq(Row) /\ Len(next) \in Nat /\ Len(next) >= K
          /\ \A j \in 1 .. Len(next) :
               /\ next[j].ts = b + j - 1
               /\ j # k + 1 => j \in 1 .. K /\ next[j] = known[j]
               /\ j = k + 1 => next[j] = row
      <3>1. \A j \in 1 .. Len(known) : known[j].ts = b + j - 1
        BY <1>1
      <3>2. row.ts = b + k
        BY <2>2, <2>4
      <3>3. known \in Seq(Row) /\ b \in Nat /\ row \in Row /\ k \in 1 .. Len(known)
        BY <1>1, <1>2, <2>4
      <3> HIDE DEF b, t, before, was, next
      <3>4. Followed(known, b, k, row, Upsert(known, row))
        BY <3>1, <3>2, <3>3, UpsertNext
      <3> QED
        BY <2>3, <3>4 DEF Followed
    <2>6. next[1] = known[1]
      <3>1. 1 \in 1 .. Len(next) /\ 1 # k + 1
        <4> HIDE DEF next, K
        <4> QED
          BY <1>1, <2>2, <2>5
      <3> QED
        BY <2>5, <3>1
    <2>7. \A j \in 1 .. Len(next) : next[j].ts \in Stored
      <3> SUFFICES ASSUME NEW j \in 1 .. Len(next) PROVE next[j].ts \in Stored
        OBVIOUS
      <3> HIDE DEF next, t
      <3> QED
        BY <1>1, <1>2, <2>4, <2>5
    <2>8. t < Newest => SoundRow(i, row)
      <3> SUFFICES ASSUME t < Newest PROVE SoundRow(i, row)
        OBVIOUS
      <3>1. ASSUME i # "boll" PROVE was
        <4>1. SoundRow(i, known[k])
          <5>1. CASE k = 1
            BY <1>1, <5>1, BaseSound
          <5>2. CASE k # 1
            <6>1. k \in 2 .. K
              BY <1>1, <5>2
            <6>2. PICK m \in 1 .. Len(klines) : klines[m].ts = t - 1
              <7>1. known[k].ts \in Stored
                BY <1>1
              <7> QED
                BY <2>1, <7>1 DEF Stored
            <6>3. m < n
              <7>1. klines[m].ts < klines[n].ts
                BY <1>2, <6>2
              <7> QED
                BY <7>1, Candles
            <6>4. m \in 1 .. n - 1
              BY <1>2, <6>3
            <6>5. known[k].ts \in StoredTo(n - 1)
              BY <2>1, <6>2, <6>4 DEF StoredTo
            <6>6. known[k].ts < Newest
              <7>1. Newest \in Nat
                <8>1. Len(klines) \in Nat /\ Len(klines) \in 1 .. Len(klines)
                  BY Candles
                <8> QED
                  BY <8>1, Candles DEF Newest
              <7>2. t < Newest
                OBVIOUS
              <7> HIDE DEF t
              <7> QED
                BY <1>2, <2>1, <7>1, <7>2
            <6> QED
              BY <1>1, <6>1, <6>5, <6>6
          <5> QED
            BY <5>1, <5>2
        <4>2. known[k].settled
          BY <3>1, <4>1 DEF SoundRow
        <4>3. \A r \in before : r = known[k]
          <5> SUFFICES ASSUME NEW j \in 1 .. K, known[j].ts = t - 1 PROVE j = k
            BY <1>3
          <5>1. known[j].ts = b + j - 1 /\ known[k].ts = b + k - 1
            BY <1>1
          <5> HIDE DEF b, t, K
          <5> QED
            BY <1>1, <1>2, <2>1, <5>1
        <4> QED
          BY <4>2, <4>3
      <3>2. \A old : (i = "boll" \/ old) /\ row.settled = (Exact(i, db, n) /\ (i = "boll" \/ old))
                     => SoundRow(i, row)
        BY <2>2, <2>4, <2>u, ComputedSound
      <3> HIDE DEF was
      <3> QED
        BY <2>4, <3>1, <3>2
    <2>9. ASSUME NEW j \in 2 .. Len(next), next[j].ts \in StoredTo(n), next[j].ts < Newest
          PROVE  SoundRow(i, next[j])
      <3>0. j \in 1 .. Len(next)
        OBVIOUS
      <3>1. CASE j = k + 1
        BY <2>4, <2>5, <2>8, <2>9, <3>0, <3>1
      <3>2. CASE j # k + 1
        <4>1. j \in 1 .. K /\ next[j] = known[j] /\ known[j].ts = b + j - 1
          BY <1>1, <2>5, <3>0, <3>2
        <4>2. known[j].ts # t /\ j \in 2 .. K
          <5> HIDE DEF b, t, K
          <5> QED
            BY <1>1, <1>2, <2>2, <3>2, <4>1
        <4>3. known[j].ts \in StoredTo(n - 1)
          BY <1>4, <2>9, <4>1, <4>2
        <4> QED
          BY <1>1, <2>9, <4>1, <4>2, <4>3
      <3> QED
        BY <3>1, <3>2
    <2>10. Len(next) >= Len(Known(i))
      <3>1. Len(Known(i)) \in Nat
        BY KnownRows
      <3> HIDE DEF next, K
      <3> QED
        BY <1>1, <2>5, <3>1
    <2> HIDE DEF next
    <2> QED
      BY <1>1, <2>5, <2>6, <2>7, <2>9, <2>10 DEF KnownTo, next
  <1> QED
    BY <1>5, <1>6

-----------------------------------------------------------------------------
(* The run of an update over the candles.                                  *)

\* Naming a table changes nothing of a step.
LEMMA StepFromIt ==
  ASSUME NEW i, NEW db, NEW known, NEW n
  PROVE  StepFrom(i, db, known, n) = Stepped(i, db, known, n)
  <1>1. {Stepped(i, db, table, n) : table \in {known}} = {Stepped(i, db, known, n)}
    OBVIOUS
  <1> QED
    BY <1>1 DEF StepFrom

\* The tables an update passes through.
Stepping(run, i, db, k) ==
  run = [n \in 0 .. k |-> IF n = 0 THEN Known(i) ELSE StepFrom(i, db, run[n - 1], n)]

\* The run of an update exists for as many candles as wanted.
LEMMA SteppingExists ==
  ASSUME NEW i, NEW db
  PROVE  \A k \in Nat : \E run : Stepping(run, i, db, k)
  <1> DEFINE T == {k \in Nat : ~ \E run : Stepping(run, i, db, k)}
  <1> SUFFICES ASSUME T # {} PROVE FALSE
    OBVIOUS
  <1>1. PICK k \in T : \A m \in T : k <= m
    BY LeastNumber
  <1>2. k # 0
    <2>1. Stepping([n \in 0 .. 0 |-> Known(i)], i, db, 0)
      BY DEF Stepping
    <2> QED
      BY <2>1
  <1>3. k - 1 \in Nat /\ k \in Nat /\ k - 1 \notin T
    BY <1>1, <1>2
  <1>4. PICK run : Stepping(run, i, db, k - 1)
    BY <1>3
  <1> DEFINE more == [n \in 0 .. k |-> IF n = k THEN StepFrom(i, db, run[k - 1], k) ELSE run[n]]
  <1>5. ASSUME NEW n \in 0 .. k
        PROVE  more[n] = IF n = 0 THEN Known(i) ELSE StepFrom(i, db, more[n - 1], n)
    <2>1. CASE n = 0
      BY <1>2, <1>3, <1>4, <2>1 DEF Stepping
    <2>2. CASE n # 0 /\ n # k
      <3>1. n \in 0 .. k - 1 /\ n - 1 \in 0 .. k /\ n - 1 # k
        BY <1>3, <2>2
      <3>2. more[n] = run[n] /\ more[n - 1] = run[n - 1]
        BY <2>2, <3>1
      <3>3. run[n] = StepFrom(i, db, run[n - 1], n)
        BY <1>4, <2>2, <3>1 DEF Stepping
      <3> HIDE DEF more
      <3> QED
        BY <2>2, <3>2, <3>3
    <2>3. CASE n = k
      <3>1. k - 1 \in 0 .. k /\ k - 1 # k /\ k \in 0 .. k
        BY <1>3
      <3>2. more[k] = StepFrom(i, db, run[k - 1], k) /\ more[k - 1] = run[k - 1]
        BY <3>1
      <3> HIDE DEF more
      <3> QED
        BY <1>2, <2>3, <3>2
    <2> QED
      BY <2>1, <2>2, <2>3
  <1>6. Stepping(more, i, db, k)
    <2>1. more = [n \in 0 .. k |-> more[n]]
      OBVIOUS
    <2>2. [n \in 0 .. k |-> more[n]]
            = [n \in 0 .. k |-> IF n = 0 THEN Known(i) ELSE StepFrom(i, db, more[n - 1], n)]
      <3> HIDE DEF more
      <3> QED
        BY <1>5
    <2> HIDE DEF more
    <2> QED
      BY <2>1, <2>2 DEF Stepping
  <1> QED
    BY <1>1, <1>6

\* Before the first step the rows are the newest of the table.
LEMMA FirstKnown ==
  ASSUME RowInv, NEW i \in Indicators, rows[i] # <<>>
  PROVE  KnownTo(i, Known(i), 0)
  <1> DEFINE N == Len(rows[i])
             K == Len(Known(i))
  <1>1. /\ N \in Nat /\ Oldest(i) \in 1 .. N /\ K = N - Oldest(i) + 1 /\ Base(i) \in Nat
        /\ Known(i) \in Seq(Row) /\ First(i) \in Nat
        /\ Base(i) = First(i) + Oldest(i) - 1 /\ Latest(i) = First(i) + N - 1
        /\ \A j \in 1 .. K : Known(i)[j].ts = Base(i) + j - 1
    BY KnownRows
  <1>2. Window[i] \in Nat /\ 1 <= Window[i]
    BY IndicatorNumbers
  <1>3. \A t \in Base(i) - Window[i] + 1 .. Latest(i) : t \in Stored
    BY BaseStored
  <1> HIDE DEF N, K
  <1>4. \A j \in 1 .. K : Known(i)[j].ts \in Base(i) - Window[i] + 1 .. Latest(i)
    <2> SUFFICES ASSUME NEW j \in 1 .. K PROVE Base(i) + j - 1 \in Base(i) - Window[i] + 1 .. Latest(i)
      BY <1>1
    <2> DEFINE W == Window[i]
    <2>1. /\ N \in Nat /\ Oldest(i) \in Nat /\ K = N - Oldest(i) + 1 /\ First(i) \in Nat
          /\ Base(i) = First(i) + Oldest(i) - 1 /\ Latest(i) = First(i) + N - 1
          /\ W \in Nat /\ 1 <= W
      <3>1. N \in Nat /\ Oldest(i) \in 1 .. N
        BY <1>1
      <3>2. Oldest(i) \in Nat
        BY <3>1
      <3> QED
        BY <1>1, <1>2, <3>1, <3>2
    <2> HIDE DEF W
    <2>2. Base(i) + j - 1 \in Base(i) - W + 1 .. Latest(i)
      BY <2>1
    <2> QED
      BY <2>2 DEF W
  <1>5. StoredTo(0) = {}
    BY DEF StoredTo
  <1>6. K >= K
    BY <1>1
  <1> QED
    BY <1>1, <1>3, <1>4, <1>5, <1>6 DEF KnownTo, K

\* An update of a table keeps all but its three newest rows, and goes on with the
\* rows it computed over all candles.
LEMMA ExtendedRun ==
  ASSUME TableInv, RowInv, NEW i \in Indicators, rows[i] # <<>>, NEW db, Reads(i, db, Base(i))
  PROVE  \E known : /\ KnownTo(i, known, Len(klines))
                    /\ Extended(i, db) = SubSeq(rows[i], 1, Len(rows[i]) - 3) \o known
  <1> DEFINE L == Len(klines)
             run == CHOOSE f : Stepping(f, i, db, L)
  <1>1. L \in Nat
    BY Candles
  <1>2. Stepping(run, i, db, L)
    BY <1>1, SteppingExists
  <1>3. Extended(i, db) = SubSeq(rows[i], 1, Len(rows[i]) - 3) \o run[L]
    BY DEF Extended, Stepping
  <1> HIDE DEF run
  <1>4. run[0] = Known(i) /\ \A n \in 1 .. L : run[n] = Stepped(i, db, run[n - 1], n)
    <2>1. run[0] = Known(i) /\ \A n \in 1 .. L : run[n] = StepFrom(i, db, run[n - 1], n)
      BY <1>1, <1>2 DEF Stepping
    <2> QED
      BY <2>1, StepFromIt
  <1> DEFINE T == {n \in 0 .. L : ~KnownTo(i, run[n], n)}
  <1>5. T = {}
    <2> SUFFICES ASSUME T # {} PROVE FALSE
      OBVIOUS
    <2>0. T \subseteq Nat
      BY <1>1
    <2>1. PICK n \in T : \A m \in T : n <= m
      BY <2>0, LeastNumber
    <2>2. n # 0
      BY <1>4, <2>1, FirstKnown
    <2>3. n \in 1 .. L /\ n - 1 \in 0 .. L /\ ~(n <= n - 1)
      BY <1>1, <2>1, <2>2
    <2>4. KnownTo(i, run[n - 1], n - 1)
      BY <2>1, <2>3
    <2>5. KnownTo(i, Stepped(i, db, run[n - 1], n), n)
      BY <2>3, <2>4, SteppedRow
    <2>6. KnownTo(i, run[n], n)
      BY <1>4, <2>3, <2>5
    <2> QED
      BY <2>1, <2>6
  <1>6. KnownTo(i, run[L], L)
    BY <1>1, <1>5
  <1> QED
    BY <1>3, <1>6

\* An updated table: no gaps, stored candles, and sound rows.
LEMMA ExtendedTable ==
  ASSUME TableInv, RowInv, NEW i \in Indicators, rows[i] # <<>>, NEW db, Reads(i, db, Base(i)),
         NEW s, s = Extended(i, db)
  PROVE  /\ s \in Seq(Row) /\ Len(s) \in Nat /\ Len(s) >= Len(rows[i]) /\ s[1] = rows[i][1]
         /\ \A n \in 1 .. Len(s) : s[n].ts = First(i) + n - 1
         /\ \A n \in 1 .. Len(s) : s[n].ts \in Stored \/ n < Oldest(i)
         /\ \A n \in 1 .. Len(s) - 1 : SoundRow(i, s[n])
  <1> DEFINE N == Len(rows[i])
             o == Oldest(i)
             head == SubSeq(rows[i], 1, N - 3)
             L == Len(klines)
  <1>1. PICK known : KnownTo(i, known, L) /\ s = head \o known
    BY ExtendedRun
  <1> DEFINE K == Len(known)
  <1>2. /\ N \in Nat /\ o \in 1 .. N /\ First(i) \in Nat /\ Base(i) = First(i) + o - 1
        /\ Len(Known(i)) = N - o + 1 /\ rows[i] \in Seq(Row)
    BY KnownRows
  <1>3. Known(i)[1] = rows[i][o]
    <2>1. 1 \in 1 .. Len(Known(i)) /\ o + 1 - 1 = o
      <3> HIDE DEF N, o
      <3> QED
        BY <1>2
    <2>2. \A j \in 1 .. Len(Known(i)) : Known(i)[j] = rows[i][o + j - 1]
      BY KnownRows
    <2> QED
      BY <2>1, <2>2
  <1>o. o = IF N >= 3 THEN N - 2 ELSE 1
    BY DEF Oldest
  <1>4. /\ known \in Seq(Row) /\ K \in Nat /\ known[1] = rows[i][o]
        /\ \A j \in 1 .. K : known[j].ts = Base(i) + j - 1 /\ known[j].ts \in Stored
        /\ \A j \in 2 .. K : known[j].ts \in StoredTo(L) /\ known[j].ts < Newest => SoundRow(i, known[j])
        /\ K >= N - o + 1
    BY <1>1, <1>2, <1>3 DEF KnownTo
  <1>5. \A n \in 1 .. N : rows[i][n] \in Row /\ rows[i][n].ts = First(i) + n - 1
    BY <1>2 DEF RowInv, InStep
  <1>6. \A n \in 1 .. N - 1 : SoundRow(i, rows[i][n])
    BY DEF RowInv, RowsSound
  <1>7. SoundRow(i, rows[i][o])
    BY <1>3, BaseSound
  <1> HIDE DEF N, o, K
  <1>8. /\ head \in Seq(Row) /\ Len(head) = o - 1
        /\ \A n \in 1 .. o - 1 : head[n] = rows[i][n]
    <2>1. CASE N > 3
      <3>1. /\ 1 \in Int /\ N - 3 \in Int /\ 1 <= N - 3 /\ N - 3 - 1 + 1 = o - 1
            /\ \A n \in 1 .. N - 3 : n \in 1 .. N /\ 1 + n - 1 = n
        BY <1>2, <1>o, <2>1
      <3>2. \A n \in 1 .. N - 3 : rows[i][n] \in Row
        BY <1>5, <3>1
      <3>3. /\ head \in Seq(Row) /\ Len(head) = N - 3 - 1 + 1
            /\ \A n \in 1 .. N - 3 - 1 + 1 : head[n] = rows[i][1 + n - 1]
        BY <3>1, <3>2, SubSeqProperties
      <3> QED
        BY <3>1, <3>3
    <2>2. CASE ~(N > 3)
      <3>1. N - 3 \in Int /\ N - 3 < 1 /\ o = 1
        BY <1>2, <1>o, <2>2
      <3>2. head = <<>>
        BY <3>1, SubSeqEmpty
      <3> QED
        BY <3>1, <3>2
    <2> QED
      BY <2>1, <2>2
  <1> HIDE DEF head, L
  <1>9. /\ s \in Seq(Row) /\ Len(s) = o - 1 + K
        /\ \A n \in 1 .. o - 1 + K : s[n] = IF n <= o - 1 THEN head[n] ELSE known[n - (o - 1)]
    <2>1. known \in Seq(Row) /\ Len(known) = K
      BY <1>4 DEF K
    <2>2. /\ head \o known \in Seq(Row) /\ Len(head \o known) = Len(head) + Len(known)
          /\ \A n \in 1 .. Len(head) + Len(known) :
               (head \o known)[n] = IF n <= Len(head) THEN head[n] ELSE known[n - Len(head)]
      BY <1>8, <2>1, ConcatProperties
    <2>3. Len(head) = o - 1 /\ s = head \o known
      BY <1>1, <1>8
    <2> QED
      BY <2>1, <2>2, <2>3
  <1>10. K >= 1 /\ o \in Nat /\ 1 <= o /\ o <= N /\ Len(s) \in Nat /\ Len(s) >= N /\ K \in Nat
    <2>1. K \in Nat /\ K >= N - o + 1
      BY <1>4
    <2> QED
      BY <1>2, <1>9, <2>1
  <1>n. K >= 1 /\ o \in Nat /\ 1 <= o /\ o <= N /\ K \in Nat /\ N \in Nat
    BY <1>2, <1>10
  <1>11. \A n \in 1 .. o - 1 : n \in 1 .. o - 1 + K /\ s[n] = rows[i][n]
    BY <1>8, <1>9, <1>10
  <1>12. \A n \in o .. o - 1 + K : /\ n - (o - 1) \in 1 .. K /\ s[n] = known[n - (o - 1)]
                                   /\ n = o => n - (o - 1) = 1
                                   /\ n # o => n - (o - 1) \in 2 .. K
    BY <1>9, <1>10
  <1>13. \A n \in 1 .. o - 1 + K : n \in 1 .. o - 1 \/ n \in o .. o - 1 + K
    BY <1>10
  <1>14. s[1] = rows[i][1]
    <2>1. CASE o = 1
      <3>1. 1 \in o .. o - 1 + K /\ 1 - (o - 1) = 1
        BY <1>10, <2>1
      <3>2. s[1] = known[1]
        BY <1>12, <3>1
      <3> QED
        BY <1>4, <2>1, <3>2
    <2>2. CASE o # 1
      <3>1. 1 \in 1 .. o - 1
        BY <1>10, <2>2
      <3> QED
        BY <1>11, <3>1
    <2> QED
      BY <2>1, <2>2
  <1>15. \A n \in o .. o - 1 + K : s[n].ts = First(i) + n - 1 /\ s[n].ts \in Stored
    <2> SUFFICES ASSUME NEW n \in o .. o - 1 + K
                 PROVE  s[n].ts = First(i) + n - 1 /\ s[n].ts \in Stored
      OBVIOUS
    <2>1. s[n] = known[n - (o - 1)] /\ n - (o - 1) \in 1 .. K
      BY <1>12
    <2>2. s[n].ts = Base(i) + (n - (o - 1)) - 1 /\ s[n].ts \in Stored
      BY <1>4, <2>1
    <2>3. Base(i) + (n - (o - 1)) - 1 = First(i) + n - 1
      BY <1>2, <1>10
    <2> QED
      BY <2>2, <2>3
  <1>16. \A n \in 1 .. o - 1 + K : s[n].ts = First(i) + n - 1
    <2>1. \A n \in 1 .. o - 1 : n \in 1 .. N
      BY <1>n
    <2> QED
      BY <1>5, <1>11, <1>13, <1>15, <2>1
  <1>17. ASSUME NEW n \in 1 .. o - 1 + K - 1 PROVE SoundRow(i, s[n])
    <2>1. CASE n \in 1 .. o - 1
      <3>1. n \in 1 .. N - 1
        BY <1>n, <2>1
      <3> QED
        BY <1>6, <1>11, <2>1, <3>1
    <2>2. CASE n = o
      <3>1. o \in o .. o - 1 + K
        BY <1>10
      <3>2. s[n] = known[1]
        BY <1>12, <2>2, <3>1
      <3> QED
        BY <1>4, <1>7, <3>2
    <2>3. CASE n \in o + 1 .. o - 1 + K
      <3>1. n \in o .. o - 1 + K /\ n + 1 \in o .. o - 1 + K /\ n # o
        BY <1>10, <2>3
      <3>2. s[n] = known[n - (o - 1)] /\ n - (o - 1) \in 2 .. K
        BY <1>12, <3>1
      <3>3. s[n].ts \in Stored /\ s[n].ts = First(i) + n - 1
            /\ s[n + 1].ts \in Stored /\ s[n + 1].ts = First(i) + (n + 1) - 1
        BY <1>15, <3>1
      <3>4. \A t \in Stored : t <= Newest /\ t \in Nat /\ Newest \in Nat
        <4> SUFFICES ASSUME NEW m \in 1 .. Len(klines)
                     PROVE  /\ klines[m].ts <= Newest /\ klines[m].ts \in Nat
                            /\ Newest \in Nat
          BY DEF Stored
        <4>1. Len(klines) \in 1 .. Len(klines) /\ m <= Len(klines)
          BY Candles
        <4>2. klines[m].ts \in Nat /\ Newest \in Nat
          BY <4>1, Candles DEF Newest
        <4>3. m = Len(klines) \/ m < Len(klines)
          BY <4>1, Candles
        <4>4. m < Len(klines) => klines[m].ts < Newest
          BY <4>1, Candles DEF Newest
        <4> QED
          BY <4>2, <4>3, <4>4 DEF Newest
      <3>5. s[n].ts < Newest
        BY <1>2, <3>3, <3>4
      <3>6. s[n].ts \in StoredTo(L)
        BY <3>3 DEF Stored, StoredTo, L
      <3> QED
        BY <1>4, <3>2, <3>5, <3>6
    <2> QED
      BY <1>10, <2>1, <2>2, <2>3
  <1>18. \A n \in 1 .. o - 1 + K : s[n].ts \in Stored \/ n < o
    BY <1>10, <1>13, <1>15
  <1> QED
    BY <1>9, <1>10, <1>14, <1>16, <1>17, <1>18 DEF N, o

\* Extending every table keeps the invariant.
LEMMA RowsExtended ==
  ASSUME TableInv, RowInv, Missing = {}, klines' = klines, consumer'.pc # "saving",
         rows' = [i \in Indicators |-> Extended(i, UpdateKlines)]
  PROVE  RowInv'
  <1>1. ASSUME NEW i \in Indicators PROVE rows[i] # <<>> /\ Reads(i, UpdateKlines, Base(i))
    <2>1. rows[i] # <<>>
      BY DEF Missing
    <2> QED
      BY <2>1, UpdateReads DEF Reads
  <1>2. ASSUME NEW i \in Indicators
        PROVE  /\ rows'[i] \in Seq(Row) /\ Len(rows'[i]) \in Nat /\ Len(rows'[i]) >= Len(rows[i])
               /\ rows'[i][1] = rows[i][1]
               /\ \A n \in 1 .. Len(rows'[i]) : rows'[i][n].ts = First(i) + n - 1
               /\ \A n \in 1 .. Len(rows'[i]) : rows'[i][n].ts \in Stored \/ n < Oldest(i)
               /\ \A n \in 1 .. Len(rows'[i]) - 1 : SoundRow(i, rows'[i][n])
    <2>1. rows'[i] = Extended(i, UpdateKlines)
      OBVIOUS
    <2> DEFINE s == rows'[i]
    <2>2. s = Extended(i, UpdateKlines)
      BY <2>1
    <2> HIDE DEF s
    <2>3. /\ s \in Seq(Row) /\ Len(s) \in Nat /\ Len(s) >= Len(rows[i]) /\ s[1] = rows[i][1]
          /\ \A n \in 1 .. Len(s) : s[n].ts = First(i) + n - 1
          /\ \A n \in 1 .. Len(s) : s[n].ts \in Stored \/ n < Oldest(i)
          /\ \A n \in 1 .. Len(s) - 1 : SoundRow(i, s[n])
      BY <1>1, <2>2, ExtendedTable
    <2> QED
      BY <2>3 DEF s
  <1>3. ASSUME NEW i \in Indicators
        PROVE  /\ Len(rows[i]) \in Nat /\ 1 <= Len(rows[i]) /\ First(i) \in Nat
               /\ Oldest(i) \in 1 .. Len(rows[i])
               /\ Latest(i) = First(i) + Len(rows[i]) - 1
    <2>1. Len(rows[i]) \in Nat /\ Oldest(i) \in 1 .. Len(rows[i])
      BY <1>1, KnownRows
    <2>2. 1 <= Len(rows[i])
      BY <2>1
    <2> QED
      BY <1>1, <2>1, <2>2, KnownRows
  <1>4. Newest' = Newest /\ Stored' = Stored /\ Interim' = Interim /\ Abandoned' = Abandoned
    BY DEF Newest, Stored, Interim, Abandoned
  <1>5. \A i \in Indicators : First(i)' = First(i)
    BY <1>2 DEF First
  <1>6. rows' \in [Indicators -> Seq(Row)]
    <2>1. \A i \in Indicators : rows'[i] \in Seq(Row)
      BY <1>2
    <2>2. rows' = [i \in Indicators |-> rows'[i]]
      OBVIOUS
    <2> QED
      BY <2>1, <2>2, Zenon
  <1>7. InStep' /\ FirstSettled'
    <2>1. InStep'
      BY <1>2, <1>5 DEF InStep, First
    <2>2. FirstSettled'
      BY <1>1, <1>2 DEF FirstSettled, RowInv
    <2> QED
      BY <2>1, <2>2
  <1>8. WindowsStored'
    <2> SUFFICES ASSUME NEW i \in Indicators,
                        NEW t \in First(i) - Window[i] + 1 .. rows'[i][Len(rows'[i])].ts
                 PROVE  t \in Stored
      BY <1>2, <1>4 DEF WindowsStored, First, Latest
    <2> DEFINE N == Len(rows[i])
               M == Len(rows'[i])
               f == First(i)
               W == Window[i]
    <2>1. /\ N \in Nat /\ 1 <= N /\ f \in Nat /\ Latest(i) = f + N - 1 /\ Oldest(i) \in 1 .. N
          /\ M \in Nat /\ M >= N /\ W \in Nat
      BY <1>2, <1>3, IndicatorNumbers
    <2>2. \A n \in 1 .. M : rows'[i][n].ts = f + n - 1 /\ (rows'[i][n].ts \in Stored \/ n < Oldest(i))
      BY <1>2
    <2>3. \A u \in f - W + 1 .. Latest(i) : u \in Stored
      BY <1>1 DEF RowInv, WindowsStored
    <2>t. t \in f - W + 1 .. rows'[i][M].ts
      OBVIOUS
    <2> HIDE DEF N, M, f, W
    <2>4. M \in 1 .. M
      BY <2>1
    <2>5. t \in f - W + 1 .. f + M - 1
      BY <2>2, <2>4, <2>t
    <2>6. CASE t <= Latest(i)
      <3>1. t \in f - W + 1 .. Latest(i)
        BY <2>1, <2>5, <2>6
      <3> QED
        BY <2>3, <3>1
    <2>7. CASE ~(t <= Latest(i))
      <3>1. t - f + 1 \in 1 .. M /\ ~(t - f + 1 < Oldest(i)) /\ f + (t - f + 1) - 1 = t
        BY <2>1, <2>5, <2>7
      <3> QED
        BY <2>2, <3>1
    <2> QED
      BY <2>6, <2>7
  <1>9. Unbroken'
    <2> SUFFICES ASSUME NEW i \in Indicators \ {"boll"},
                        NEW t \in First(i) - Window[i] + 1 .. Newest
                 PROVE  t \in Stored /\ (t < Newest => t \notin Interim)
      BY <1>4, <1>5 DEF Unbroken
    <2> QED
      BY <1>1 DEF RowInv, Unbroken
  <1>10. RowsSound'
    <2>1. \A i \in Indicators : \A n \in 1 .. Len(rows'[i]) - 1 : SoundRow(i, rows'[i][n])
      BY <1>2
    <2> QED
      BY <1>4, <2>1 DEF RowsSound, SoundRow
  <1>11. BatchReaches'
    BY DEF BatchReaches
  <1> QED
    BY <1>6, <1>7, <1>8, <1>9, <1>10, <1>11 DEF RowInv

\* Steps that touch neither tables nor a batch.
LEMMA RowsKept ==
  ASSUME RowInv, rows' = rows, klines' = klines, consumer' = consumer \/ consumer'.pc # "saving"
  PROVE  RowInv'
BY DEF RowInv, InStep, FirstSettled, WindowsStored, Unbroken, RowsSound, BatchReaches,
       First, Latest, Newest, Stored, Interim, SoundRow, Abandoned

\* Every step keeps the invariant of the indicator tables.
LEMMA RowStep == TableInv /\ RowInv /\ [Next]_vars => RowInv'
  <1> SUFFICES ASSUME TableInv, RowInv, [Next]_vars PROVE RowInv'
    OBVIOUS
  <1>1. CASE SaveKlines
    BY <1>1, RowsAfterSave
  <1>2. CASE Fetch
    <2>1. BatchReaches'
      BY <1>2, FetchReaches
    <2>2. rows' = rows /\ klines' = klines
      BY <1>2 DEF Fetch
    <2> QED
      BY <2>1, <2>2 DEF RowInv, InStep, FirstSettled, WindowsStored, Unbroken, RowsSound,
         First, Latest, Newest, Stored, Interim, SoundRow, Abandoned
  <1>3. ASSUME TakeCalc PROVE klines' = klines /\ consumer'.pc # "saving" /\ (rows' = rows => RowInv')
    BY <1>3, RowsKept DEF TakeCalc
  <1>4. CASE CalcIndicators
    BY <1>3, <1>4, RowsKept, RowsCreated, RowsExtended DEF CalcIndicators
  <1>5. CASE SkipRsi
    <2>1. Ready \ {"rsi"} \in SUBSET Ready
      OBVIOUS
    <2> QED
      BY <1>3, <1>5, <2>1, RowsCreated DEF SkipRsi
  <1>6. CASE CalcFails
    BY <1>3, <1>6, RowsCreated DEF CalcFails
  <1>7. CASE ~SaveKlines /\ ~Fetch /\ ~CalcIndicators /\ ~SkipRsi /\ ~CalcFails
    <2>1. rows' = rows /\ klines' = klines
      BY <1>7 DEF Next, vars, ScheduleKline, ScheduleIndicators, JobKeyExpires, CalcKeyExpires,
         TakeKline, SkipPaused, FetchEmpty, JobFails,
         BeginCheck, ReadKlines, DecideFromMacd, Tick, PauseOrResume
    <2>2. consumer' = consumer \/ consumer' = Idle \/ consumer' = [Idle EXCEPT !.pc = "fetching"]
      BY <1>7 DEF Next, vars, ScheduleKline, ScheduleIndicators, JobKeyExpires, CalcKeyExpires,
         TakeKline, SkipPaused, FetchEmpty, JobFails,
         BeginCheck, ReadKlines, DecideFromMacd, Tick, PauseOrResume
    <2>3. consumer' = consumer \/ consumer'.pc # "saving"
      BY <2>2 DEF Idle
    <2> QED
      BY <2>1, <2>3, RowsKept
  <1> QED
    BY <1>1, <1>2, <1>4, <1>5, <1>6, <1>7

\* Empty tables keep the invariant.
LEMMA InitRows == Init => RowInv
  <1> SUFFICES ASSUME Init PROVE RowInv
    OBVIOUS
  <1>1. rows = [i \in Indicators |-> <<>>] /\ consumer.pc # "saving"
    BY DEF Init, Idle
  <1>2. \A i \in Indicators : rows[i] = <<>> /\ Len(rows[i]) = 0
    BY <1>1
  <1>3. rows \in [Indicators -> Seq(Row)]
    BY <1>1
  <1>4. InStep /\ RowsSound
    BY <1>2 DEF InStep, RowsSound
  <1>5. FirstSettled /\ WindowsStored /\ Unbroken
    BY <1>2 DEF FirstSettled, WindowsStored, Unbroken
  <1>6. BatchReaches
    BY <1>1 DEF BatchReaches
  <1> QED
    BY <1>3, <1>4, <1>5, <1>6 DEF RowInv

-----------------------------------------------------------------------------
(* Types, and the length of the queue.                                     *)

Jobs == {"kline", "calc"}

\* Where a job waits.
Places(q, job) == {n \in 1 .. Len(q) : q[n] = job}

\* The places of a job in the queue can be counted.
LEMMA PlacesFinite ==
  ASSUME NEW q \in Seq(Jobs), NEW job
  PROVE  /\ IsFiniteSet(Places(q, job)) /\ Cardinality(Places(q, job)) \in Nat
         /\ Places(q, job) \subseteq 1 .. Len(q)
  <1>1. IsFiniteSet(1 .. Len(q))
    BY FS_Interval
  <1>2. Places(q, job) \subseteq 1 .. Len(q)
    BY DEF Places
  <1>3. IsFiniteSet(Places(q, job))
    BY <1>1, <1>2, FS_Subset
  <1> QED
    BY <1>2, <1>3, FS_CardinalityType

\* A push adds one place, of the job that is pushed.
LEMMA PushedPlaces ==
  ASSUME NEW q \in Seq(Jobs), NEW new \in Jobs, NEW job
  PROVE  Cardinality(Places(Append(q, new), job))
           = Cardinality(Places(q, job)) + IF job = new THEN 1 ELSE 0
  <1> DEFINE p == Append(q, new)
             L == Len(q)
  <1>1. L \in Nat /\ Len(p) = L + 1 /\ p[L + 1] = new /\ \A n \in 1 .. L : p[n] = q[n]
    OBVIOUS
  <1> HIDE DEF p
  <1>2. \A n \in 1 .. L + 1 : n = L + 1 \/ n \in 1 .. L
    BY <1>1
  <1>3. \A n \in 1 .. L : n \in 1 .. L + 1 /\ n # L + 1
    BY <1>1
  <1>4. L + 1 \in 1 .. L + 1 /\ L + 1 \notin 1 .. L
    BY <1>1
  <1>5. IsFiniteSet(Places(q, job)) /\ Cardinality(Places(q, job)) \in Nat
    BY PlacesFinite
  <1>6. CASE job = new
    <2>1. Places(p, job) = Places(q, job) \cup {L + 1} /\ L + 1 \notin Places(q, job)
      BY <1>1, <1>2, <1>3, <1>4, <1>6 DEF Places
    <2> QED
      BY <1>5, <1>6, <2>1, FS_AddElement DEF p
  <1>7. CASE job # new
    <2>1. Places(p, job) = Places(q, job)
      BY <1>1, <1>2, <1>3, <1>4, <1>7 DEF Places
    <2> QED
      BY <1>5, <1>7, <2>1 DEF p
  <1> QED
    BY <1>6, <1>7

\* Taking a job adds no place to any.
LEMMA TakenPlaces ==
  ASSUME NEW q \in Seq(Jobs), q # <<>>, NEW job
  PROVE  Cardinality(Places(Tail(q), job)) <= Cardinality(Places(q, job))
  <1> DEFINE p == Tail(q)
             S == Places(p, job)
             T == Places(q, job)
             f == [n \in S |-> n + 1]
  <1>1. /\ Len(q) \in Nat /\ p \in Seq(Jobs) /\ Len(p) = Len(q) - 1
        /\ \A n \in 1 .. Len(p) : p[n] = q[n + 1]
    OBVIOUS
  <1> HIDE DEF p
  <1>2. \A n \in 1 .. Len(p) : n + 1 \in 1 .. Len(q)
    BY <1>1
  <1>3. \A n \in S : n \in Int /\ n + 1 \in T
    BY <1>1, <1>2 DEF Places
  <1>4. IsFiniteSet(T)
    BY PlacesFinite
  <1> HIDE DEF S, T
  <1>5. f \in [S -> T] /\ \A m, n \in S : f[m] = f[n] => m = n
    BY <1>3
  <1>6. f \in Injection(S, T)
    BY <1>5 DEF Injection, IsInjective
  <1> HIDE DEF f
  <1>7. Cardinality(S) <= Cardinality(T)
    BY <1>4, <1>6, FS_Injection
  <1> QED
    BY <1>7 DEF S, T, p

\* Every place holds one of the two jobs.
LEMMA AllPlaces ==
  ASSUME NEW q \in Seq(Jobs)
  PROVE  Len(q) = Cardinality(Places(q, "kline")) + Cardinality(Places(q, "calc"))
  <1> DEFINE S == Places(q, "kline")
             T == Places(q, "calc")
  <1>1. Len(q) \in Nat /\ \A n \in 1 .. Len(q) : q[n] \in Jobs
    OBVIOUS
  <1>2. S \cup T = 1 .. Len(q) /\ S \cap T = {}
    BY <1>1 DEF Places, Jobs
  <1>3. IsFiniteSet(S) /\ IsFiniteSet(T) /\ Cardinality(S) \in Nat /\ Cardinality(T) \in Nat
    BY PlacesFinite
  <1> HIDE DEF S, T
  <1>4. Cardinality(S \cup T) = Cardinality(S) + Cardinality(T) - Cardinality(S \cap T)
    BY <1>3, FS_Union
  <1>5. Cardinality(S \cap T) = 0
    BY <1>2, FS_EmptySet
  <1>6. Cardinality(1 .. Len(q)) = Len(q)
    <2>1. Cardinality(1 .. Len(q)) = IF 1 > Len(q) THEN 0 ELSE Len(q) - 1 + 1
      BY <1>1, FS_Interval
    <2> QED
      BY <1>1, <2>1
  <1>8. Cardinality(S \cup T) = Len(q)
    BY <1>2, <1>6
  <1>9. Cardinality(S) \in Int /\ Cardinality(T) \in Int
    BY <1>3
  <1>7. Len(q) = Cardinality(S) + Cardinality(T)
    BY <1>4, <1>5, <1>8, <1>9
  <1> QED
    BY <1>7 DEF S, T

\* No more jobs of a kind wait than the bound.
QueueBound ==
  /\ queue \in Seq(Jobs)
  /\ \A job \in Jobs : Cardinality(Places(queue, job)) <= MaxQueue
\* The types of the variables but for the tables.
Types ==
  /\ clock \in StartClock .. MaxClock
  /\ check \in {None} \cup [reads : {"klines", "macd"}, open : StartClock .. clock]
  /\ QueueBound
  /\ consumer.pc = "saving" \/ consumer = Idle \/ consumer = [Idle EXCEPT !.pc = "fetching"]
  /\ faults \in 0 .. MaxFaults
  /\ watched \in BOOLEAN /\ jobKey \in BOOLEAN /\ calcKey \in BOOLEAN

\* A push below the bound keeps it.
LEMMA QueuePushed ==
  ASSUME QueueBound, NEW new \in Jobs, Cardinality(Places(queue, new)) < MaxQueue,
         queue' = Append(queue, new)
  PROVE  QueueBound'
  <1>1. queue' \in Seq(Jobs)
    BY DEF QueueBound
  <1>2. ASSUME NEW job \in Jobs PROVE Cardinality(Places(queue', job)) <= MaxQueue
    <2>1. Cardinality(Places(queue', job))
            = Cardinality(Places(queue, job)) + IF job = new THEN 1 ELSE 0
      BY PushedPlaces DEF QueueBound
    <2>2. Cardinality(Places(queue, job)) \in Nat /\ Cardinality(Places(queue, job)) <= MaxQueue
          /\ Cardinality(Places(queue, new)) \in Nat /\ MaxQueue \in Nat
      BY PlacesFinite, ConstantsAssumption DEF QueueBound
    <2> QED
      BY <2>1, <2>2
  <1> QED
    BY <1>1, <1>2 DEF QueueBound

\* Taking a job keeps the bound.
LEMMA QueueTaken ==
  ASSUME QueueBound, queue # <<>>, queue' = Tail(queue)
  PROVE  QueueBound'
  <1>1. queue' \in Seq(Jobs)
    BY DEF QueueBound
  <1>2. ASSUME NEW job \in Jobs PROVE Cardinality(Places(queue', job)) <= MaxQueue
    <2>1. Cardinality(Places(queue', job)) <= Cardinality(Places(queue, job))
      BY TakenPlaces DEF QueueBound
    <2>2. Cardinality(Places(queue, job)) \in Nat /\ Cardinality(Places(queue, job)) <= MaxQueue
          /\ Cardinality(Places(queue', job)) \in Nat /\ MaxQueue \in Nat
      BY <1>1, PlacesFinite, ConstantsAssumption DEF QueueBound
    <2> QED
      BY <2>1, <2>2
  <1> QED
    BY <1>1, <1>2 DEF QueueBound

\* Every step keeps the types.
LEMMA TypesStep == Types /\ [Next]_vars => Types'
  <1> SUFFICES ASSUME Types, [Next]_vars PROVE Types'
    OBVIOUS
  <1> DEFINE Checks(now) == {None} \cup [reads : {"klines", "macd"}, open : StartClock .. now]
  <1>0. StartClock \in Nat /\ MaxClock \in Nat /\ clock \in Nat /\ MaxFaults \in Nat /\ faults \in Nat
        /\ StartClock <= clock
    BY ConstantsAssumption DEF Types
  <1>w. \A job \in Jobs : Waiting(job) = Cardinality(Places(queue, job))
    <2>1. DOMAIN queue = 1 .. Len(queue)
      BY DEF Types, QueueBound
    <2> QED
      BY <2>1 DEF Waiting, Places
  <1>f. Fault => faults' \in 0 .. MaxFaults
    BY <1>0 DEF Fault
  <1>1. clock' \in StartClock .. MaxClock /\ StartClock .. clock \subseteq StartClock .. clock'
    <2>1. clock' = clock \/ (clock' = clock + 1 /\ clock < MaxClock)
      BY DEF Next, vars, ScheduleKline, ScheduleIndicators, JobKeyExpires, CalcKeyExpires, TakeKline,
           SkipPaused, Fetch, FetchEmpty, SaveKlines, JobFails, CalcIndicators, SkipRsi, CalcFails, TakeCalc,
           BeginCheck, ReadKlines, DecideFromMacd, Tick, PauseOrResume
    <2>2. clock \in StartClock .. MaxClock
      BY DEF Types
    <2> QED
      BY <1>0, <2>1, <2>2
  <1>2. check' \in Checks(clock')
    <2>1. check \in Checks(clock)
      BY DEF Types
    <2>2. check' = check => check' \in Checks(clock')
      BY <1>1, <2>1
    <2>3. CASE BeginCheck
      <3>1. check' = [reads |-> "klines", open |-> clock] /\ clock' = clock
        BY <2>3 DEF BeginCheck
      <3>2. clock \in StartClock .. clock'
        BY <1>0, <3>1
      <3> QED
        BY <3>1, <3>2
    <2>4. CASE ReadKlines
      <3>1. check # None /\ clock' = clock
            /\ (check' = [check EXCEPT !.reads = "macd"] \/ check' = None)
        BY <2>4 DEF ReadKlines
      <3>2. check \in [reads : {"klines", "macd"}, open : StartClock .. clock]
        BY <2>1, <3>1
      <3>3. [check EXCEPT !.reads = "macd"] \in [reads : {"klines", "macd"}, open : StartClock .. clock]
        BY <3>2
      <3> QED
        BY <3>1, <3>3
    <2>5. CASE DecideFromMacd
      BY <2>5 DEF DecideFromMacd
    <2>6. CASE ~BeginCheck /\ ~ReadKlines /\ ~DecideFromMacd
      <3>1. check' = check
        BY <2>6 DEF Next, vars, ScheduleKline, ScheduleIndicators, JobKeyExpires, CalcKeyExpires, TakeKline,
           SkipPaused, Fetch, FetchEmpty, SaveKlines, JobFails, CalcIndicators, SkipRsi, CalcFails, TakeCalc,
           Tick, PauseOrResume
      <3> QED
        BY <2>2, <3>1
    <2> QED
      BY <2>3, <2>4, <2>5, <2>6
  <1>3. QueueBound'
    <2>0. QueueBound /\ (queue' = queue => QueueBound')
      BY DEF Types, QueueBound
    <2>1. CASE ScheduleKline
      <3>1. "kline" \in Jobs /\ queue' = Append(queue, "kline") /\ Waiting("kline") < MaxQueue
        BY <2>1 DEF ScheduleKline, Jobs
      <3> QED
        BY <1>w, <2>0, <3>1, QueuePushed
    <2>2. CASE ScheduleIndicators
      <3>1. "calc" \in Jobs /\ Waiting("calc") < MaxQueue
            /\ (queue' = Append(queue, "calc") \/ queue' = queue)
        BY <2>2 DEF ScheduleIndicators, Jobs
      <3> QED
        BY <1>w, <2>0, <3>1, QueuePushed
    <2>3. CASE TakeKline \/ CalcIndicators \/ SkipRsi \/ CalcFails
      <3>1. queue # <<>> /\ queue' = Tail(queue)
        BY <2>3 DEF TakeKline, CalcIndicators, SkipRsi, CalcFails, TakeCalc
      <3> QED
        BY <2>0, <3>1, QueueTaken
    <2>4. CASE ~ScheduleKline /\ ~ScheduleIndicators /\ ~TakeKline /\ ~CalcIndicators /\ ~SkipRsi /\ ~CalcFails
      <3>1. queue' = queue
        BY <2>4 DEF Next, vars, JobKeyExpires, CalcKeyExpires,
           SkipPaused, Fetch, FetchEmpty, SaveKlines, JobFails,
           BeginCheck, ReadKlines, DecideFromMacd, Tick, PauseOrResume
      <3> QED
        BY <2>0, <3>1
    <2> QED
      BY <2>1, <2>2, <2>3, <2>4
  <1>4. (consumer.pc = "saving" \/ consumer = Idle \/ consumer = [Idle EXCEPT !.pc = "fetching"])'
    <2>1. CASE Fetch
      BY <2>1 DEF Fetch
    <2>2. CASE ~Fetch
      <3>1. consumer' = consumer \/ consumer' = Idle \/ consumer' = [Idle EXCEPT !.pc = "fetching"]
        BY <2>2 DEF Next, vars, ScheduleKline, ScheduleIndicators, JobKeyExpires, CalcKeyExpires, TakeKline,
           SkipPaused, FetchEmpty, SaveKlines, JobFails, CalcIndicators, SkipRsi, CalcFails, TakeCalc,
           BeginCheck, ReadKlines, DecideFromMacd, Tick, PauseOrResume
      <3> QED
        BY <3>1 DEF Types, Idle
    <2> QED
      BY <2>1, <2>2
  <1>5. faults' \in 0 .. MaxFaults
    <2>1. Fault \/ faults' = faults
      BY DEF Next, vars, ScheduleKline, ScheduleIndicators, JobKeyExpires, CalcKeyExpires, TakeKline,
           SkipPaused, Fetch, FetchEmpty, SaveKlines, JobFails, CalcIndicators, SkipRsi, CalcFails, TakeCalc,
           BeginCheck, ReadKlines, DecideFromMacd, Tick, PauseOrResume
    <2> QED
      BY <1>f, <2>1 DEF Types
  <1>6. watched' \in BOOLEAN /\ jobKey' \in BOOLEAN /\ calcKey' \in BOOLEAN
    <2>1. watched' \in {watched, ~watched}
      BY DEF Next, vars, ScheduleKline, ScheduleIndicators, JobKeyExpires, CalcKeyExpires, TakeKline,
           SkipPaused, Fetch, FetchEmpty, SaveKlines, JobFails, CalcIndicators, SkipRsi, CalcFails, TakeCalc,
           BeginCheck, ReadKlines, DecideFromMacd, Tick, PauseOrResume
    <2>2. jobKey' \in {jobKey, TRUE, FALSE}
      BY DEF Next, vars, ScheduleKline, ScheduleIndicators, JobKeyExpires, CalcKeyExpires, TakeKline,
           SkipPaused, Fetch, FetchEmpty, SaveKlines, JobFails, CalcIndicators, SkipRsi, CalcFails, TakeCalc,
           BeginCheck, ReadKlines, DecideFromMacd, Tick, PauseOrResume
    <2>3. calcKey' \in {calcKey, TRUE, FALSE}
      BY DEF Next, vars, ScheduleKline, ScheduleIndicators, JobKeyExpires, CalcKeyExpires, TakeKline,
           SkipPaused, Fetch, FetchEmpty, SaveKlines, JobFails, CalcIndicators, SkipRsi, CalcFails, TakeCalc,
           BeginCheck, ReadKlines, DecideFromMacd, Tick, PauseOrResume
    <2> QED
      BY <2>1, <2>2, <2>3 DEF Types
  <1> QED
    BY <1>1, <1>2, <1>3, <1>4, <1>5, <1>6 DEF Types

\* The types hold at first.
LEMMA InitTypes == Init => Types
  <1> SUFFICES ASSUME Init PROVE Types
    OBVIOUS
  <1>1. queue = <<>> /\ queue \in Seq(Jobs) /\ Len(queue) = 0
    BY DEF Init
  <1>2. ASSUME NEW job \in Jobs PROVE Cardinality(Places(queue, job)) <= MaxQueue
    <2>1. Places(queue, job) = {}
      BY <1>1 DEF Places
    <2>2. Cardinality(Places(queue, job)) = 0
      BY <2>1, FS_EmptySet
    <2> QED
      BY <2>2, ConstantsAssumption
  <1>3. clock \in StartClock .. MaxClock /\ faults \in 0 .. MaxFaults
    BY ConstantsAssumption DEF Init
  <1> QED
    BY <1>1, <1>2, <1>3 DEF Init, Types, QueueBound, Idle

\* The types and the two invariants make the type invariant.
LEMMA TypesSuffice == TableInv /\ RowInv /\ Types => TypeOK
  <1> SUFFICES ASSUME TableInv, RowInv, Types PROVE TypeOK
    OBVIOUS
  <1>1. queue \in Seq({"kline", "calc"}) /\ Len(queue) <= 2 * MaxQueue
    <2>1. queue \in Seq(Jobs) /\ "kline" \in Jobs /\ "calc" \in Jobs
      BY DEF Types, QueueBound, Jobs
    <2> DEFINE a == Cardinality(Places(queue, "kline"))
               b == Cardinality(Places(queue, "calc"))
    <2>2. Len(queue) = a + b /\ a \in Nat /\ b \in Nat
      BY <2>1, AllPlaces, PlacesFinite
    <2>3. a <= MaxQueue /\ b <= MaxQueue /\ MaxQueue \in Nat
      BY <2>1, ConstantsAssumption DEF Types, QueueBound
    <2> HIDE DEF a, b
    <2>4. a + b <= 2 * MaxQueue
      BY <2>2, <2>3
    <2> QED
      BY <2>1, <2>2, <2>4 DEF Jobs
  <1>2. consumer.pc \in {"idle", "fetching", "saving"} /\ consumer.batch \in Seq(Candle)
    <2>1. CASE consumer.pc = "saving"
      BY <2>1 DEF TableInv, BatchFits, Fits, Overlaps
    <2>2. CASE consumer = Idle \/ consumer = [Idle EXCEPT !.pc = "fetching"]
      <3>1. consumer.batch = <<>> /\ consumer.pc \in {"idle", "fetching"}
        BY <2>2 DEF Idle
      <3>2. <<>> \in Seq(Candle)
        OBVIOUS
      <3> QED
        BY <3>1, <3>2
    <2> QED
      BY <2>1, <2>2 DEF Types
  <1>3. klines \in Seq(Candle) /\ rows \in [Indicators -> Seq(Row)]
    BY DEF TableInv, Numbers, RowInv
  <1>4. /\ clock \in StartClock .. MaxClock
        /\ check \in {None} \cup [reads : {"klines", "macd"}, open : StartClock .. clock]
        /\ faults \in 0 .. MaxFaults
        /\ {watched, jobKey, calcKey} \subseteq BOOLEAN
    BY DEF Types
  <1> QED
    BY <1>1, <1>2, <1>3, <1>4 DEF TypeOK

-----------------------------------------------------------------------------
(* What the invariant says of updates and of checks.                       *)

\* The Bollinger bands read by place: the window of the oldest row they go on
\* from is stored, and so is whatever follows it.
LEMMA BollWindow ==
  ASSUME TableInv, RowInv, rows["boll"] # <<>>, "boll" \in Indicators,
         NEW db, Reads("boll", db, Base("boll")),
         NEW n \in 1 .. Len(klines), klines[n].ts > Base("boll")
  PROVE  Inputs("boll", db, n) = n - Window["boll"] + 1 .. n
  <1> DEFINE W == Window["boll"]
             b == Base("boll")
             L == Len(klines)
  <1>1. /\ W \in Nat /\ 1 <= W /\ b \in Nat /\ b <= Latest("boll") /\ Latest("boll") \in Nat
        /\ L \in Nat /\ n \in Nat /\ n <= L
    <2>1. W \in Nat /\ 1 <= W /\ L \in Nat /\ n \in Nat /\ n <= L
      BY IndicatorNumbers, Candles
    <2> DEFINE N == Len(rows["boll"])
               o == Oldest("boll")
               f == First("boll")
    <2>2. /\ N \in Nat /\ o \in 1 .. N /\ f \in Nat /\ b = f + o - 1
          /\ Latest("boll") = f + N - 1
      BY KnownRows
    <2> HIDE DEF W, b, L, N, o, f
    <2>3. b \in Nat /\ b <= Latest("boll") /\ Latest("boll") \in Nat
      BY <2>2
    <2> QED
      BY <2>1, <2>3
  <1>2. \A t \in b - W + 1 .. Latest("boll") : t \in Stored
    BY BaseStored
  <1>3. PICK start \in Int : db = {m \in 1 .. L : klines[m].ts >= start} /\ start <= b - W
    BY DEF Reads
  <1>4. PICK p \in 1 .. L : klines[p].ts = b
    <2>1. b \in b - W + 1 .. Latest("boll")
      <3> HIDE DEF b, W
      <3> QED
        BY <1>1
    <2> QED
      BY <1>2, <2>1 DEF Stored
  <1>5. \A k \in 0 .. W - 1 : p - k \in 1 .. L /\ klines[p - k].ts = b - k
    <2>1. \A t \in b - W + 1 .. b : t \in b - W + 1 .. Latest("boll")
      <3> HIDE DEF b, W
      <3> QED
        BY <1>1
    <2>2. \A t \in klines[p].ts - W + 1 .. klines[p].ts : t \in Stored
      BY <1>2, <1>4, <2>1
    <2> QED
      BY <1>1, <1>4, <2>2, SideBySide
  <1>6. p < n
    <2>1. klines[p].ts < klines[n].ts
      BY <1>4
    <2> QED
      BY <2>1, Candles
  <1>e. \A m \in 1 .. L : klines[m].ts \in Nat
    BY Candles
  <1>r. \A m, k \in 1 .. L : m < k => klines[m].ts < klines[k].ts
    BY Candles
  <1> HIDE DEF W, b, L
  <1>7. ASSUME NEW m \in n - W + 1 .. n PROVE m \in db
    <2> DEFINE q == p - (W - 1)
    <2>1. W - 1 \in 0 .. W - 1
      BY <1>1
    <2>2. q \in 1 .. L /\ klines[q].ts = b - (W - 1)
      BY <1>5, <2>1
    <2>3. m \in 1 .. L /\ q < m
      BY <1>1, <1>6, <2>2
    <2> HIDE DEF q
    <2>4. klines[q].ts < klines[m].ts
      BY <1>r, <2>2, <2>3
    <2>5. klines[m].ts \in Nat
      BY <1>e, <2>3
    <2>6. klines[m].ts >= start
      BY <1>1, <1>3, <2>2, <2>4, <2>5
    <2> QED
      BY <1>3, <2>3, <2>6
  <1>8. Inputs("boll", db, n) = (n - W + 1 .. n) \cap db
    BY DEF Inputs, W
  <1> QED
    BY <1>7, <1>8 DEF W

\* Every step of an update reads its full window.
LEMMA WindowsRead == TableInv /\ RowInv => WindowsComplete
  <1> SUFFICES ASSUME TableInv, RowInv, Missing = {},
                      NEW i \in Indicators, NEW n \in UpdateKlines, klines[n].ts >= Base(i) + 1
               PROVE  Cardinality(Inputs(i, UpdateKlines, n)) = Window[i]
    BY DEF WindowsComplete, ShortWindow
  <1> DEFINE W == Window[i]
  <1>1. rows[i] # <<>> /\ Reads(i, UpdateKlines, Base(i)) /\ n \in 1 .. Len(klines)
    <2>1. rows[i] # <<>>
      BY DEF Missing
    <2>2. PICK start \in Int :
            /\ UpdateKlines = {m \in 1 .. Len(klines) : klines[m].ts >= start}
            /\ \A k \in Indicators : /\ start <= Base(k)
                                     /\ k \in {"kdj", "boll"} => start <= Base(k) - Window[k]
      BY UpdateReads
    <2> QED
      BY <2>1, <2>2 DEF Reads
  <1>2. /\ W \in Nat /\ 1 <= W /\ Base(i) \in Nat /\ klines[n].ts \in Nat /\ n \in Nat
        /\ First(i) \in Nat /\ First(i) <= Base(i)
    BY <1>1, IndicatorNumbers, KnownRows, Candles
  <1>3. klines[n].ts > Base(i)
    BY <1>2
  <1>4. Inputs(i, UpdateKlines, n) = n - W + 1 .. n
    <2>1. CASE i = "boll"
      <3>1. rows["boll"] # <<>> /\ "boll" \in Indicators /\ Reads("boll", UpdateKlines, Base("boll"))
            /\ klines[n].ts > Base("boll") /\ n \in 1 .. Len(klines)
        BY <1>1, <1>3, <2>1
      <3>2. Inputs("boll", UpdateKlines, n) = n - Window["boll"] + 1 .. n
        BY <3>1, BollWindow
      <3> QED
        BY <2>1, <3>2
    <2>2. CASE i # "boll"
      <3>1. klines[n].ts <= Newest /\ Newest \in Nat
        <4>1. Len(klines) \in 1 .. Len(klines) /\ n <= Len(klines)
          BY <1>1, Candles
        <4>2. Newest \in Nat
          BY <4>1, Candles DEF Newest
        <4>3. n = Len(klines) \/ n < Len(klines)
          BY <1>2, <4>1, Candles
        <4>4. n < Len(klines) => klines[n].ts < Newest
          BY <1>1, <4>1, Candles DEF Newest
        <4> QED
          BY <1>2, <4>2, <4>3, <4>4 DEF Newest
      <3>2. \A t \in klines[n].ts - W + 1 .. klines[n].ts : t \in First(i) - W + 1 .. Newest
        <4> DEFINE u == klines[n].ts
        <4>1. u \in Nat /\ u > Base(i) /\ u <= Newest
          BY <1>2, <1>3, <3>1
        <4> HIDE DEF u, W
        <4>2. \A t \in u - W + 1 .. u : t \in First(i) - W + 1 .. Newest
          BY <1>2, <3>1, <4>1
        <4> QED
          BY <4>2 DEF u
      <3>3. \A t \in klines[n].ts - W + 1 .. klines[n].ts : t \in Stored
        BY <1>1, <2>2, <3>2 DEF RowInv, Unbroken
      <3> QED
        BY <1>1, <1>2, <1>3, <3>3, InputsWindow
    <2> QED
      BY <2>1, <2>2
  <1> HIDE DEF W
  <1>5. n - W + 1 \in Int /\ n \in Int /\ ~(n - W + 1 > n) /\ n - (n - W + 1) + 1 = W
    BY <1>2
  <1>6. Cardinality(n - W + 1 .. n) = W
    BY <1>5, FS_Interval
  <1> QED
    BY <1>4, <1>6 DEF W

\* The property of the tables, from their invariant.
LEMMA SoundBehindNewest == TableInv /\ RowInv => SettledBehindNewest
  <1> SUFFICES ASSUME TableInv, RowInv, NEW i \in Indicators,
                      NEW m \in DOMAIN rows[i], NEW n \in DOMAIN rows[i], m < n
               PROVE  /\ rows[i][n].ts = rows[i][m].ts + n - m
                      /\ SoundRow(i, rows[i][m])
    BY DEF SettledBehindNewest, SoundRow
  <1> DEFINE N == Len(rows[i])
  <1>1. N \in Nat /\ m \in 1 .. N /\ n \in 1 .. N /\ rows[i] # <<>>
    BY DEF RowInv
  <1>2. First(i) \in Nat
    BY <1>1, KnownRows
  <1>3. rows[i][n].ts = First(i) + n - 1 /\ rows[i][m].ts = First(i) + m - 1
    BY <1>1 DEF RowInv, InStep
  <1> HIDE DEF N
  <1>4. rows[i][n].ts = rows[i][m].ts + n - m /\ m \in 1 .. N - 1
    BY <1>1, <1>2, <1>3
  <1>5. SoundRow(i, rows[i][m])
    BY <1>4 DEF RowInv, RowsSound, N
  <1> QED
    BY <1>4, <1>5

\* The property of the checks, from the invariant of the tables.
LEMMA EvidenceExact == RowInv /\ Types => OlderEvidenceExact
  <1> SUFFICES ASSUME RowInv, Types, Evidence # <<>>
               PROVE  Evidence[2].settled /\ Evidence[1].ts = Evidence[2].ts + 1
    BY DEF OlderEvidenceExact
  <1> DEFINE t == check.open
             i == "macd"
             N == Len(rows[i])
  <1>1. check # None /\ Evidence = BothRows(t - 1, t - 2)
    BY DEF Evidence, ClosedRows
  <1>2. t \in Nat
    BY <1>1, ConstantsAssumption DEF Types
  <1>3. /\ \A u \in {t - 1, t - 2} : Cardinality(RowsAt(u)) = 1
        /\ Evidence = <<RowAt(t - 1), RowAt(t - 2)>>
    BY <1>1 DEF BothRows
  <1>4. i \in Indicators /\ rows[i] \in Seq(Row) /\ N \in Nat /\ DOMAIN rows[i] = 1 .. N
    BY ConstantsAssumption DEF RowInv
  <1>5. ASSUME NEW u \in {t - 1, t - 2}
        PROVE  \E n \in 1 .. N : RowAt(u) = rows[i][n] /\ rows[i][n].ts = u
    <2>1. RowsAt(u) # {}
      BY <1>3, FS_EmptySet
    <2> DEFINE n == CHOOSE m \in RowsAt(u) : TRUE
    <2>2. n \in RowsAt(u) /\ RowAt(u) = rows[i][n]
      BY <2>1 DEF RowAt
    <2> HIDE DEF n
    <2> QED
      BY <1>4, <2>2 DEF RowsAt
  <1>6. PICK m \in 1 .. N : RowAt(t - 1) = rows[i][m] /\ rows[i][m].ts = t - 1
    BY <1>5
  <1>7. PICK n \in 1 .. N : RowAt(t - 2) = rows[i][n] /\ rows[i][n].ts = t - 2
    BY <1>5
  <1>8. rows[i][m].ts = First(i) + m - 1 /\ rows[i][n].ts = First(i) + n - 1
    BY <1>4 DEF RowInv, InStep
  <1>9. First(i) \in Nat
    <2>1. N # 0
      BY <1>4
    <2>2. rows[i] # <<>>
      BY <1>4, <2>1
    <2> QED
      BY <1>4, <2>2, KnownRows
  <1> HIDE DEF t, N
  <1>10. n \in 1 .. N - 1
    BY <1>2, <1>4, <1>6, <1>7, <1>8, <1>9
  <1>11. SoundRow(i, rows[i][n])
    BY <1>4, <1>10 DEF RowInv, RowsSound, N
  <1>12. rows[i][n].settled
    BY <1>11 DEF SoundRow
  <1>13. rows[i][m].ts = rows[i][n].ts + 1
    BY <1>2, <1>6, <1>7
  <1>14. Evidence[1] = rows[i][m] /\ Evidence[2] = rows[i][n]
    BY <1>3, <1>6, <1>7
  <1> QED
    BY <1>12, <1>13, <1>14

-----------------------------------------------------------------------------
(* The theorems.                                                           *)

\* The table, the candles on their way into it and the clock stay in step.
THEOREM TableCorrect == Spec => []TableInv
  <1>1. TableInv /\ [Next]_vars => TableInv'
    BY SaveStep, OtherStep
  <1> QED
    BY <1>1, InitTable, PTL DEF Spec

\* Whatever jobs fail and however long a monitor was paused, the kline table is in
\* the order of its ids, and of as many candles as an indicator waits for all but
\* the newest are final and follow each other.
THEOREM TableOrdered == Spec => []StoredInOrder
  <1>1. TableInv => StoredInOrder
    <2> SUFFICES ASSUME TableInv, NEW n \in 1 .. Len(klines) - 1
                 PROVE  /\ klines[n].ts < klines[n + 1].ts
                        /\ n > Len(klines) - LongestNeed =>
                              klines[n].final /\ klines[n + 1].ts = klines[n].ts + 1
      BY DEF StoredInOrder
    <2> DEFINE L == Len(klines)
    <2>1. /\ klines \in Seq(Candle) /\ L \in Nat /\ LongestNeed \in Nat
          /\ n \in 1 .. L /\ n + 1 \in 1 .. L /\ n < n + 1 /\ n < L /\ L \in 1 .. L
      BY LongestIsMacd DEF TableInv, Numbers
    <2>2. klines[n].ts < klines[n + 1].ts
      BY <2>1 DEF TableInv, Rising
    <2>3. ASSUME n > L - LongestNeed PROVE klines[n].final /\ klines[n + 1].ts = klines[n].ts + 1
      <3>1. n + 1 > L - LongestNeed
        BY <2>1, <2>3
      <3>2. klines[n].final /\ klines[n].ts = klines[L].ts - (L - n)
        BY <2>1, <2>3 DEF TableInv, TailExact
      <3>3. klines[n + 1].ts = klines[L].ts - (L - (n + 1))
        BY <2>1, <3>1 DEF TableInv, TailExact
      <3>4. klines[L].ts \in Nat
        <4>1. klines[L] \in Candle
          BY <2>1
        <4> QED
          BY <4>1 DEF Candle
      <3> HIDE DEF L
      <3>5. klines[n + 1].ts = klines[n].ts + 1
        BY <2>1, <3>2, <3>3, <3>4
      <3> QED
        BY <3>2, <3>5
    <2> QED
      BY <2>2, <2>3
  <1> QED
    BY <1>1, TableCorrect, PTL

\* The rows of every indicator follow each other and are computed from stored
\* candles, whatever jobs fail and wherever an update stops.
THEOREM RowsCorrect == Spec => [](TableInv /\ RowInv)
  <1>1. TableInv /\ RowInv /\ [Next]_vars => TableInv' /\ RowInv'
    BY SaveStep, OtherStep, RowStep
  <1> QED
    BY <1>1, InitTable, InitRows, PTL DEF Spec

\* Every variable keeps its type, and the queue its bound.
THEOREM TypeCorrect == Spec => []TypeOK
  <1>1. Spec => []Types
    BY InitTypes, TypesStep, PTL DEF Spec
  <1> QED
    BY <1>1, RowsCorrect, TypesSuffice, PTL

\* A row that is not the newest of its table is computed from closing prices only,
\* but for Bollinger bands over a candle whose closing price was never fetched.
THEOREM RowsSettled == Spec => []SettledBehindNewest
BY RowsCorrect, SoundBehindNewest, PTL

\* Once every table has rows, no step of an update lacks a candle of its window.
THEOREM WindowsFull == Spec => []WindowsComplete
BY RowsCorrect, WindowsRead, PTL

\* Of the two closed candles a check decides from, the older one is exact and they
\* follow each other.
THEOREM OlderIsExact == Spec => []OlderEvidenceExact
  <1>1. Spec => []Types
    BY InitTypes, TypesStep, PTL DEF Spec
  <1> QED
    BY <1>1, RowsCorrect, EvidenceExact, PTL

=============================================================================
