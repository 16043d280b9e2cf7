--------------------------- MODULE JobQueueProofs ---------------------------
(***************************************************************************)
(* No message of a queue is handled twice or stuck between places, and     *)
(* error mails do not multiply (amf_scheduler.py, amf_consumers.py,        *)
(* msgqueue/), for any number of messages, attempts, faults and outages.   *)
(***************************************************************************)
EXTENDS JobQueue, FiniteSetTheorems, TLAPS

-----------------------------------------------------------------------------
(* Sequences without repetition.                                           *)

Elements(s) == {s[n] : n \in DOMAIN s}
Distinct(s) == \A i, j \in DOMAIN s : s[i] = s[j] => i = j

LEMMA AppendNew ==
  ASSUME NEW S, NEW s \in Seq(S), Distinct(s), NEW x \in S, x \notin Elements(s)
  PROVE  /\ Append(s, x) \in Seq(S) /\ Distinct(Append(s, x))
         /\ Elements(Append(s, x)) = Elements(s) \cup {x}
<1> DEFINE t == Append(s, x)
<1>1. /\ t \in Seq(S) /\ Len(s) \in Nat /\ DOMAIN s = 1 .. Len(s) /\ DOMAIN t = 1 .. Len(s) + 1
      /\ t[Len(s) + 1] = x /\ \A n \in 1 .. Len(s) : t[n] = s[n]
  OBVIOUS
<1> HIDE DEF t
<1>2. Distinct(t)
  BY <1>1 DEF Distinct, Elements
<1>3. Elements(t) = Elements(s) \cup {x}
  <2>1. Elements(t) \subseteq Elements(s) \cup {x}
    BY <1>1 DEF Elements
  <2>2. ASSUME NEW y \in Elements(s) PROVE y \in Elements(t)
    <3>1. PICK n \in DOMAIN s : y = s[n]
      BY DEF Elements
    <3>2. n \in DOMAIN t /\ t[n] = y
      BY <1>1, <3>1
    <3> QED
      BY <3>2 DEF Elements
  <2>3. x \in Elements(t)
    <3>1. Len(s) + 1 \in DOMAIN t
      BY <1>1
    <3> QED
      BY <1>1, <3>1 DEF Elements
  <2> QED
    BY <2>1, <2>2, <2>3
<1> QED
  BY <1>1, <1>2, <1>3 DEF t

LEMMA TailDistinct ==
  ASSUME NEW S, NEW s \in Seq(S), Distinct(s), s # <<>>
  PROVE  /\ Tail(s) \in Seq(S) /\ Distinct(Tail(s)) /\ Head(s) \in Elements(s)
         /\ Elements(Tail(s)) = Elements(s) \ {Head(s)}
<1> DEFINE t == Tail(s)
<1>1. /\ t \in Seq(S) /\ Len(s) \in Nat \ {0} /\ DOMAIN s = 1 .. Len(s) /\ DOMAIN t = 1 .. Len(s) - 1
      /\ Head(s) = s[1] /\ \A n \in 1 .. Len(s) - 1 : t[n] = s[n + 1]
  OBVIOUS
<1> HIDE DEF t
<1>2. Distinct(t)
  <2> SUFFICES ASSUME NEW i \in DOMAIN t, NEW j \in DOMAIN t, t[i] = t[j] PROVE i = j
    BY DEF Distinct
  <2>1. s[i + 1] = s[j + 1] /\ i + 1 \in DOMAIN s /\ j + 1 \in DOMAIN s
    BY <1>1
  <2>2. i + 1 = j + 1
    BY <2>1 DEF Distinct
  <2> QED
    BY <1>1, <2>2
<1>3. ASSUME NEW y \in Elements(t) PROVE y \in Elements(s) \ {Head(s)}
  <2>1. PICK n \in DOMAIN t : y = t[n]
    BY DEF Elements
  <2>2. n + 1 \in DOMAIN s /\ y = s[n + 1] /\ n + 1 # 1 /\ 1 \in DOMAIN s
    BY <1>1, <2>1
  <2>3. y \in Elements(s)
    BY <2>2 DEF Elements
  <2>4. y # s[1]
    BY <2>2 DEF Distinct
  <2> QED
    BY <1>1, <2>3, <2>4
<1>4. ASSUME NEW y \in Elements(s) \ {Head(s)} PROVE y \in Elements(t)
  <2>1. PICK n \in DOMAIN s : y = s[n]
    BY DEF Elements
  <2>2. n # 1
    BY <1>1, <2>1
  <2>3. n - 1 \in DOMAIN t /\ t[n - 1] = s[n]
    <3>1. n - 1 \in 1 .. Len(s) - 1 /\ (n - 1) + 1 = n
      BY <1>1, <2>2
    <3> QED
      BY <1>1, <3>1
  <2> QED
    BY <2>1, <2>3 DEF Elements
<1>5. Head(s) \in Elements(s)
  <2>1. 1 \in DOMAIN s
    BY <1>1
  <2> QED
    BY <1>1, <2>1 DEF Elements
<1> QED
  BY <1>1, <1>2, <1>3, <1>4, <1>5 DEF t

LEMMA PutBack ==
  ASSUME NEW S, NEW s \in Seq(S), Distinct(s), NEW x \in S, x \notin Elements(s)
  PROVE  /\ <<x>> \o s \in Seq(S) /\ Distinct(<<x>> \o s)
         /\ Elements(<<x>> \o s) = Elements(s) \cup {x}
<1> DEFINE t == <<x>> \o s
<1>1. /\ t \in Seq(S) /\ Len(s) \in Nat /\ DOMAIN s = 1 .. Len(s) /\ DOMAIN t = 1 .. Len(s) + 1
      /\ t[1] = x /\ \A n \in 2 .. Len(s) + 1 : t[n] = s[n - 1]
  OBVIOUS
<1> HIDE DEF t
<1>2. \A n \in DOMAIN t : n = 1 \/ (n - 1 \in DOMAIN s /\ t[n] = s[n - 1])
  BY <1>1
<1>3. Distinct(t)
  <2> SUFFICES ASSUME NEW i \in DOMAIN t, NEW j \in DOMAIN t, t[i] = t[j] PROVE i = j
    BY DEF Distinct
  <2>1. CASE i = 1 \/ j = 1
    BY <1>1, <1>2, <2>1 DEF Elements
  <2>2. CASE i # 1 /\ j # 1
    <3>1. i - 1 \in DOMAIN s /\ j - 1 \in DOMAIN s /\ s[i - 1] = s[j - 1]
      BY <1>2, <2>2
    <3>2. i - 1 = j - 1
      BY <3>1 DEF Distinct
    <3> QED
      BY <1>1, <3>2
  <2> QED
    BY <2>1, <2>2
<1>4. ASSUME NEW y \in Elements(t) PROVE y \in Elements(s) \cup {x}
  BY <1>1, <1>2, <1>4 DEF Elements
<1>5. ASSUME NEW y \in Elements(s) PROVE y \in Elements(t)
  <2>1. PICK n \in DOMAIN s : y = s[n]
    BY DEF Elements
  <2>2. n + 1 \in DOMAIN t /\ t[n + 1] = y
    <3>1. n + 1 \in 2 .. Len(s) + 1 /\ (n + 1) - 1 = n
      BY <1>1
    <3> QED
      BY <1>1, <2>1, <3>1
  <2> QED
    BY <2>2 DEF Elements
<1>6. x \in Elements(t)
  <2>1. 1 \in DOMAIN t
    BY <1>1
  <2> QED
    BY <1>1, <2>1 DEF Elements
<1> QED
  BY <1>1, <1>3, <1>4, <1>5, <1>6 DEF t

LEMMA OneMore ==
  ASSUME NEW S, IsFiniteSet(S), NEW x
  PROVE  /\ IsFiniteSet(S \cup {x}) /\ Cardinality(S \cup {x}) \in Nat /\ Cardinality(S) \in Nat
         /\ Cardinality(S \cup {x}) <= Cardinality(S) + 1
<1>1. Cardinality(S) \in Nat
  BY FS_CardinalityType
<1>2. IsFiniteSet(S \cup {x}) /\ Cardinality(S \cup {x}) \in {Cardinality(S), Cardinality(S) + 1}
  BY FS_AddElement
<1> QED
  BY <1>1, <1>2

LEMMA CountDistinct ==
  ASSUME NEW S, NEW s \in Seq(S), Distinct(s), NEW x
  PROVE  Cardinality({n \in DOMAIN s : s[n] = x}) = IF x \in Elements(s) THEN 1 ELSE 0
<1>1. CASE x \in Elements(s)
  <2>1. PICK n \in DOMAIN s : x = s[n]
    BY <1>1 DEF Elements
  <2>2. {k \in DOMAIN s : s[k] = x} = {n}
    BY <2>1 DEF Distinct
  <2> QED
    BY <1>1, <2>2, FS_Singleton
<1>2. CASE x \notin Elements(s)
  <2>1. {k \in DOMAIN s : s[k] = x} = {}
    BY <1>2 DEF Elements
  <2> QED
    BY <1>2, <2>1, FS_EmptySet
<1> QED
  BY <1>1, <1>2

-----------------------------------------------------------------------------
(* The invariant.  A stored message waits, is held, was handled or is      *)
(* lost, and only one of these; without that, a failing task's mail could  *)
(* not be known to take the place of the message it reports.               *)

Held == {current} \ {0}
Done == {m \in Message : handled[m] = 1}

Flags == {ownQueue, up, mq, stop} \subseteq BOOLEAN

Counters ==
    /\ push \in {Idle} \cup 0 .. MaxAttempts
    /\ connectionFailures \in 0 .. MaxConnectionFailures - 1
    /\ processingFailures \in 0 .. MaxProcessingFailures - 1
    /\ reconnects \in 0 .. MaxReconnects + 1
    /\ faults \in 0 .. MaxFaults /\ outages \in 0 .. MaxOutages

HoldsWhenBusy ==
    /\ pc \in {"top", "get", "acking", "handling", "reconnect", "exited"}
    /\ current # 0 <=> pc \in {"acking", "handling"}

Stored ==
    /\ puts \in 0 .. MaxPuts /\ pushes \in 0 .. puts
    /\ queue \in Seq(1 .. puts) /\ Distinct(queue)
    /\ current \in 0 .. puts
    /\ handled \in [Message -> 0 .. 1] /\ lost \subseteq Message

Places ==
    /\ Elements(queue) \cup Held \cup Done \cup lost = 1 .. puts
    /\ Elements(queue) \cap Held = {} /\ Elements(queue) \cap Done = {} /\ Elements(queue) \cap lost = {}
    /\ Held \cap Done = {} /\ Held \cap lost = {} /\ Done \cap lost = {}

MailsReplace ==
    /\ IsFiniteSet(Elements(queue) \cup Held)
    /\ Cardinality(Elements(queue) \cup Held) <= pushes

IInv == Flags /\ Counters /\ HoldsWhenBusy /\ Stored /\ Places /\ MailsReplace

-----------------------------------------------------------------------------
(* The flags and counters.                                                 *)

LEMMA FlagsKept == ASSUME Flags, [Next]_vars PROVE Flags'
<1> USE DEF Flags, broker, producer, counters, consumerVars
<1>1. CASE BeginPush \/ Publish \/ PublishFails \/ PublishFailsLate
  BY <1>1, Zenon DEF BeginPush, Publish, PublishFails, PublishFailsLate
<1>2. CASE Top \/ Connect \/ ConnectFails \/ GetNothing \/ GetMessage \/ GetFails \/ Ack \/ AckFails
  BY <1>2, Zenon DEF Top, Connect, ConnectFails, GetNothing, GetMessage, GetFails, Ack, AckFails
<1>3. CASE Reconnect
  BY <1>3, Zenon DEF Reconnect
<1>4. CASE Handle \/ HandleFails
  BY <1>4, Zenon DEF Handle, HandleFails
<1>5. CASE HandleRaises
  <2>1. mq' \in {FALSE, mq} /\ stop' = stop /\ up' = up /\ ownQueue' = ownQueue
    BY <1>5, Zenon DEF HandleRaises
  <2> QED
    BY <2>1, Zenon
<1>6. CASE Signal \/ Kill \/ Restart
  BY <1>6, Zenon DEF Signal, Kill, Restart
<1>7. CASE BrokerFails \/ BrokerRecovers
  BY <1>7, Zenon DEF BrokerFails, BrokerRecovers
<1>8. CASE UNCHANGED vars
  BY <1>8, Zenon DEF vars
<1> QED
  BY <1>1, <1>2, <1>3, <1>4, <1>5, <1>6, <1>7, <1>8, Zenon DEF Next

LEMMA FaultsCounted ==
  /\ Fault => faults < MaxFaults /\ faults' = faults + 1
  /\ FailedCall => faults' = faults \/ (faults < MaxFaults /\ faults' = faults + 1)
  /\ FailedReconnect =>
        \/ reconnects' = reconnects \/ reconnects' = 0
        \/ reconnects <= MaxReconnects /\ reconnects' = reconnects + 1
  /\ AfterFailure = Idle \/ (AfterFailure = push + 1 /\ push + 1 <= MaxAttempts)
<1>1. Fault => faults < MaxFaults /\ faults' = faults + 1
  BY DEF Fault
<1>2. FailedCall => faults' = faults \/ (faults < MaxFaults /\ faults' = faults + 1)
  BY <1>1 DEF FailedCall
<1>3. FailedReconnect =>
        \/ reconnects' = reconnects \/ reconnects' = 0
        \/ reconnects <= MaxReconnects /\ reconnects' = reconnects + 1
  BY DEF FailedReconnect
<1>4. AfterFailure = Idle \/ (AfterFailure = push + 1 /\ push + 1 <= MaxAttempts)
  BY DEF AfterFailure
<1> QED
  BY <1>1, <1>2, <1>3, <1>4

LEMMA CountersKept == ASSUME Counters, [Next]_vars PROVE Counters'
<1> USE ConstantsAssumption, FaultsCounted DEF Counters, broker, producer, counters, consumerVars, Idle
<1>1. CASE BeginPush
  BY <1>1 DEF BeginPush
<1>2. CASE Publish
  BY <1>2 DEF Publish
<1>3. CASE PublishFails
  BY <1>3 DEF PublishFails
<1>4. CASE PublishFailsLate
  BY <1>4 DEF PublishFailsLate
<1>5. CASE Top \/ Connect \/ GetNothing \/ GetMessage \/ GetFails
  <2>1. push' = push /\ outages' = outages /\ processingFailures' = processingFailures /\ connectionFailures' \in {0, connectionFailures}
        /\ reconnects' \in {0, reconnects} /\ (faults' = faults \/ FailedCall)
    BY <1>5, Zenon DEF Top, Connect, GetNothing, GetMessage, GetFails
  <2> QED
    BY <2>1
<1>6. CASE ConnectFails
  BY <1>6 DEF ConnectFails
<1>7. CASE Ack \/ AckFails
  <2>1. /\ push' = push /\ outages' = outages /\ processingFailures' = processingFailures
        /\ connectionFailures' = connectionFailures /\ reconnects' = reconnects
        /\ faults' = faults \/ FailedCall
    BY <1>7, Zenon DEF Ack, AckFails
  <2> QED
    BY <2>1
<1>8. CASE Reconnect
  BY <1>8 DEF Reconnect
<1>9. CASE Handle \/ HandleFails
  BY <1>9 DEF Handle, HandleFails
<1>10. CASE HandleRaises
  BY <1>10 DEF HandleRaises
<1>11. CASE Signal \/ Kill \/ Restart
  <2>1. /\ push' = push /\ outages' = outages /\ processingFailures' \in {0, processingFailures}
        /\ connectionFailures' \in {0, connectionFailures} /\ reconnects' \in {0, reconnects}
        /\ faults' = faults \/ Fault
    BY <1>11, Zenon DEF Signal, Kill, Restart
  <2> QED
    BY <2>1
<1>12. CASE BrokerFails \/ BrokerRecovers
  BY <1>12 DEF BrokerFails, BrokerRecovers
<1>13. CASE UNCHANGED vars
  BY <1>13 DEF vars
<1> QED
  BY <1>1, <1>2, <1>3, <1>4, <1>5, <1>6, <1>7, <1>8, <1>9, <1>10, <1>11, <1>12, <1>13 DEF Next

-----------------------------------------------------------------------------
(* What an action does to the messages.                                    *)

Quiet == UNCHANGED <<queue, puts, pushes, current, handled, lost>>
Arrives == Store /\ pushes' = pushes + 1 /\ UNCHANGED <<current, handled, lost>>
Taken ==
    /\ queue # <<>> /\ current = 0
    /\ current' = Head(queue) /\ queue' = Tail(queue)
    /\ UNCHANGED <<puts, pushes, handled, lost>>
Returned ==
    /\ current # 0 /\ current' = 0 /\ queue' = <<current>> \o queue
    /\ UNCHANGED <<puts, pushes, handled, lost>>
Dropped ==
    /\ current # 0 /\ current' = 0 /\ lost' = lost \cup {current}
    /\ UNCHANGED <<queue, puts, pushes, handled>>
Finished ==
    /\ current # 0 /\ current' = 0 /\ handled' = [handled EXCEPT ![current] = @ + 1]
    /\ UNCHANGED <<pushes, lost>>

Move == Quiet \/ Arrives \/ Taken \/ Returned \/ Dropped
            \/ (Finished /\ UNCHANGED <<queue, puts>>) \/ (Finished /\ Store)

LEMMA NextMoves == ASSUME HoldsWhenBusy, [Next]_vars PROVE Move
<1> USE DEF broker, producer, counters, consumerVars
<1>1. CASE Top \/ Connect \/ ConnectFails \/ GetNothing \/ GetFails \/ Ack \/ Reconnect
  <2>1. Quiet
    BY <1>1, Zenon DEF Quiet, Top, Connect, ConnectFails, GetNothing, GetFails, Ack, Reconnect
  <2> QED
    BY <2>1, Zenon DEF Move
<1>2. CASE BeginPush \/ PublishFails \/ Signal \/ Restart \/ BrokerFails \/ BrokerRecovers
  <2>1. Quiet
    BY <1>2, Zenon DEF Quiet, BeginPush, PublishFails, Signal, Restart, BrokerFails, BrokerRecovers
  <2> QED
    BY <2>1, Zenon DEF Move
<1>3. CASE Publish \/ PublishFailsLate
  <2>1. Arrives
    BY <1>3, Zenon DEF Arrives, Publish, PublishFailsLate
  <2> QED
    BY <2>1, Zenon DEF Move
<1>4. CASE GetMessage
  <2>1. current = 0
    BY <1>4 DEF GetMessage, HoldsWhenBusy
  <2>2. Taken
    BY <1>4, <2>1, Zenon DEF GetMessage, Taken
  <2> QED
    BY <2>2, Zenon DEF Move
<1>5. CASE AckFails
  <2>1. current # 0
    BY <1>5 DEF AckFails, HoldsWhenBusy
  <2>2. Returned \/ Dropped
    BY <1>5, <2>1, Zenon DEF AckFails, Returned, Dropped
  <2> QED
    BY <2>2, Zenon DEF Move
<1>6. CASE Handle \/ HandleFails \/ HandleRaises
  <2>1. pc = "handling"
    BY <1>6, Zenon DEF Handle, HandleFails, HandleRaises, HandOver
  <2>2. current # 0
    BY <2>1 DEF HoldsWhenBusy
  <2>3. Finished
    BY <1>6, <2>2, Zenon DEF Handle, HandleFails, HandleRaises, HandOver, Finished
  <2>4. (UNCHANGED <<queue, puts>>) \/ Store
    BY <1>6, Zenon DEF Handle, HandleFails, HandleRaises
  <2> QED
    BY <2>3, <2>4, Zenon DEF Move
<1>7. CASE Kill
  <2>1. CASE pc = "acking"
    <3>1. current # 0
      BY <2>1 DEF HoldsWhenBusy
    <3>2. queue' = <<current>> \o queue /\ lost' = lost
      BY <1>7, <2>1 DEF Kill
    <3>3. Returned
      BY <1>7, <3>1, <3>2, Zenon DEF Kill, Returned
    <3> QED
      BY <3>3, Zenon DEF Move
  <2>2. CASE pc = "handling"
    <3>1. current # 0
      BY <2>2 DEF HoldsWhenBusy
    <3>2. queue' = queue /\ lost' = lost \cup {current}
      BY <1>7, <2>2 DEF Kill
    <3>3. Dropped
      BY <1>7, <3>1, <3>2, Zenon DEF Kill, Dropped
    <3> QED
      BY <3>3, Zenon DEF Move
  <2>3. CASE pc # "acking" /\ pc # "handling"
    <3>1. current = 0
      BY <2>3 DEF HoldsWhenBusy
    <3>2. queue' = queue /\ lost' = lost /\ current' = 0
      BY <1>7, <2>3 DEF Kill
    <3>3. Quiet
      BY <1>7, <3>1, <3>2, Zenon DEF Kill, Quiet
    <3> QED
      BY <3>3, Zenon DEF Move
  <2> QED
    BY <2>1, <2>2, <2>3
<1>8. CASE UNCHANGED vars
  <2>1. Quiet
    BY <1>8, Zenon DEF Quiet, vars
  <2> QED
    BY <2>1, Zenon DEF Move
<1> QED
  BY <1>1, <1>2, <1>3, <1>4, <1>5, <1>6, <1>7, <1>8, Zenon DEF Next

LEMMA HeldMessage ==
  ASSUME Stored
  PROVE  /\ current = 0 => Held = {}
         /\ current # 0 => Held = {current} /\ current \in 1 .. puts
  BY DEF Stored, Held

LEMMA StoredKept ==
  ASSUME Stored, Places, Move
  PROVE  Stored' /\ Places' /\ (MailsReplace => MailsReplace')
<1> USE ConstantsAssumption
<1>0. /\ puts \in Nat /\ MaxPuts \in Nat /\ puts <= MaxPuts /\ pushes \in Nat /\ pushes <= puts
      /\ queue \in Seq(1 .. puts) /\ Distinct(queue) /\ current \in 0 .. puts
      /\ handled \in [Message -> 0 .. 1] /\ lost \subseteq Message
      /\ Elements(queue) \subseteq 1 .. puts /\ Message = 1 .. MaxPuts
  BY DEF Stored, ConstantsAssumption, Elements, Message
<1>1. CASE Quiet
  BY <1>1 DEF Quiet, Stored, Places, MailsReplace, Held, Done
<1>2. CASE Arrives
  <2> DEFINE new == puts + 1
  <2>1. /\ puts' = new /\ puts < MaxPuts /\ queue' = Append(queue, new) /\ pushes' = pushes + 1
        /\ current' = current /\ handled' = handled /\ lost' = lost
    BY <1>2 DEF Arrives, Store
  <2>2. new \in 1 .. new /\ new \notin 1 .. puts /\ 1 .. new = (1 .. puts) \cup {new} /\ new \in Nat
    BY <1>0
  <2> HIDE DEF new
  <2>3. queue' \in Seq(1 .. new) /\ Distinct(queue') /\ Elements(queue') = Elements(queue) \cup {new}
    <3>1. queue \in Seq(1 .. new)
      BY <1>0, <2>2
    <3>2. new \notin Elements(queue)
      BY <1>0, <2>2
    <3> QED
      BY <1>0, <2>1, <2>2, <3>1, <3>2, AppendNew
  <2>4. Held' = Held /\ Done' = Done
    BY <2>1 DEF Held, Done
  <2>5. Stored'
    BY <1>0, <2>1, <2>2, <2>3 DEF Stored, new
  <2>6. Places'
    BY <2>1, <2>2, <2>3, <2>4 DEF Places
  <2>7. ASSUME MailsReplace PROVE MailsReplace'
    <3>1. (Elements(queue) \cup Held)' = (Elements(queue) \cup Held) \cup {new}
      BY <2>3, <2>4
    <3> DEFINE kept == Elements(queue) \cup Held
    <3>2. IsFiniteSet(kept) /\ Cardinality(kept) <= pushes
      BY <2>7 DEF MailsReplace
    <3> HIDE DEF kept
    <3>3. IsFiniteSet(kept \cup {new}) /\ Cardinality(kept \cup {new}) <= pushes + 1
      <4>1. /\ IsFiniteSet(kept \cup {new}) /\ Cardinality(kept \cup {new}) \in Nat
            /\ Cardinality(kept) \in Nat /\ Cardinality(kept \cup {new}) <= Cardinality(kept) + 1
        BY <3>2, OneMore
      <4> QED
        BY <1>0, <3>2, <4>1
    <3> QED
      BY <2>1, <3>1, <3>3 DEF MailsReplace, kept
  <2> QED
    BY <2>5, <2>6, <2>7
<1>3. CASE Taken
  <2>1. /\ Tail(queue) \in Seq(1 .. puts) /\ Distinct(Tail(queue))
        /\ Head(queue) \in Elements(queue) /\ Elements(Tail(queue)) = Elements(queue) \ {Head(queue)}
    BY <1>0, <1>3, TailDistinct DEF Taken
  <2>2. /\ queue' = Tail(queue) /\ current' = Head(queue) /\ current = 0
        /\ puts' = puts /\ pushes' = pushes /\ handled' = handled /\ lost' = lost
    BY <1>3 DEF Taken
  <2>3. Head(queue) \in 1 .. puts /\ Head(queue) # 0 /\ Head(queue) \in 0 .. puts
    BY <1>0, <2>1
  <2>4. Held = {} /\ Held' = {Head(queue)} /\ Done' = Done
    BY <2>2, <2>3 DEF Held, Done
  <2>5. Stored'
    BY <1>0, <2>1, <2>2, <2>3 DEF Stored
  <2>6. Places'
    BY <2>1, <2>2, <2>4 DEF Places
  <2>7. (Elements(queue) \cup Held)' = Elements(queue) \cup Held
    BY <2>1, <2>2, <2>4
  <2> QED
    BY <2>2, <2>5, <2>6, <2>7 DEF MailsReplace
<1>4. CASE Returned
  <2>1. /\ queue' = <<current>> \o queue /\ current # 0 /\ current' = 0
        /\ puts' = puts /\ pushes' = pushes /\ handled' = handled /\ lost' = lost
    BY <1>4 DEF Returned
  <2>2. Held = {current} /\ current \in 1 .. puts /\ Held' = {} /\ Done' = Done
    BY <2>1, HeldMessage DEF Held, Done
  <2>3. queue' \in Seq(1 .. puts) /\ Distinct(queue') /\ Elements(queue') = Elements(queue) \cup {current}
    <3>1. current \notin Elements(queue)
      BY <2>2 DEF Places
    <3> QED
      BY <1>0, <2>1, <2>2, <3>1, PutBack
  <2>4. Stored'
    BY <1>0, <2>1, <2>3 DEF Stored
  <2>5. Places'
    BY <2>1, <2>2, <2>3 DEF Places
  <2>6. (Elements(queue) \cup Held)' = Elements(queue) \cup Held
    BY <2>2, <2>3
  <2> QED
    BY <2>1, <2>4, <2>5, <2>6 DEF MailsReplace
<1>5. CASE Dropped
  <2>1. /\ lost' = lost \cup {current} /\ current # 0 /\ current' = 0
        /\ queue' = queue /\ puts' = puts /\ pushes' = pushes /\ handled' = handled
    BY <1>5 DEF Dropped
  <2>2. Held = {current} /\ current \in 1 .. puts /\ Held' = {} /\ Done' = Done
    BY <2>1, HeldMessage DEF Held, Done
  <2>3. Stored'
    BY <1>0, <2>1, <2>2 DEF Stored
  <2>4. Places'
    BY <2>1, <2>2 DEF Places
  <2>5. (Elements(queue) \cup Held)' \subseteq Elements(queue) \cup Held
    BY <2>1, <2>2
  <2>6. MailsReplace => MailsReplace'
    BY <1>0, <2>1, <2>5, FS_Subset, FS_CardinalityType DEF MailsReplace
  <2> QED
    BY <2>3, <2>4, <2>6
<1>6. ASSUME Finished
      PROVE  /\ Held = {current} /\ current \in 1 .. puts /\ Held' = {} /\ current' = 0
             /\ handled' \in [Message -> 0 .. 1] /\ Done' = Done \cup {current}
             /\ lost' = lost /\ pushes' = pushes
  <2>1. /\ current # 0 /\ current' = 0 /\ handled' = [handled EXCEPT ![current] = @ + 1]
        /\ lost' = lost /\ pushes' = pushes
    BY <1>6 DEF Finished
  <2>2. Held = {current} /\ current \in 1 .. puts /\ Held' = {} /\ current \in Message
    BY <1>0, <2>1, HeldMessage DEF Held
  <2>3. handled[current] = 0
    <3>1. current \notin Done
      BY <2>2 DEF Places
    <3> QED
      BY <1>0, <2>2, <3>1 DEF Done
  <2>4. /\ handled' \in [Message -> 0 .. 1] /\ handled'[current] = 1
        /\ \A m \in Message : m # current => handled'[m] = handled[m]
    BY <1>0, <2>1, <2>2, <2>3
  <2>5. Done' = Done \cup {current}
    BY <2>2, <2>4 DEF Done
  <2> QED
    BY <2>1, <2>2, <2>4, <2>5
<1>7. CASE Finished /\ UNCHANGED <<queue, puts>>
  <2>1. queue' = queue /\ puts' = puts
    BY <1>7
  <2>2. Stored'
    <3>1. /\ current' = 0 /\ handled' \in [Message -> 0 .. 1] /\ lost' = lost /\ pushes' = pushes
      BY <1>6, <1>7
    <3> QED
      BY <1>0, <2>1, <3>1 DEF Stored
  <2>3. Places'
    BY <1>6, <1>7, <2>1 DEF Places
  <2>4. (Elements(queue) \cup Held)' \subseteq Elements(queue) \cup Held
    BY <1>6, <1>7, <2>1
  <2>5. MailsReplace => MailsReplace'
    BY <1>0, <1>6, <1>7, <2>4, FS_Subset, FS_CardinalityType DEF MailsReplace
  <2> QED
    BY <2>2, <2>3, <2>5
<1>8. CASE Finished /\ Store
  <2> DEFINE new == puts + 1
  <2>1. puts' = new /\ puts < MaxPuts /\ queue' = Append(queue, new)
    BY <1>8 DEF Store
  <2>2. new \in 1 .. new /\ new \notin 1 .. puts /\ 1 .. new = (1 .. puts) \cup {new} /\ new \in Nat
    BY <1>0
  <2> HIDE DEF new
  <2>3. queue' \in Seq(1 .. new) /\ Distinct(queue') /\ Elements(queue') = Elements(queue) \cup {new}
    <3>1. queue \in Seq(1 .. new)
      BY <1>0, <2>2
    <3>2. new \notin Elements(queue)
      BY <1>0, <2>2
    <3> QED
      BY <1>0, <2>1, <2>2, <3>1, <3>2, AppendNew
  <2>4. Stored'
    <3>1. /\ current' = 0 /\ handled' \in [Message -> 0 .. 1] /\ lost' = lost /\ pushes' = pushes
      BY <1>6, <1>8
    <3>2. new <= MaxPuts /\ pushes <= new
      BY <1>0, <2>1 DEF new
    <3> QED
      BY <1>0, <2>1, <2>2, <2>3, <3>1, <3>2 DEF Stored
  <2>5. Places'
    BY <1>6, <1>8, <2>1, <2>2, <2>3 DEF Places
  <2>6. ASSUME MailsReplace PROVE MailsReplace'
    <3> DEFINE kept == (Elements(queue) \cup Held) \ {current}
    <3>1. (Elements(queue) \cup Held)' = kept \cup {new}
      <4>1. current \notin Elements(queue)
        BY <1>6, <1>8 DEF Places
      <4> QED
        BY <1>6, <1>8, <2>3, <4>1
    <3>2. IsFiniteSet(kept) /\ Cardinality(kept) = Cardinality(Elements(queue) \cup Held) - 1
      <4>1. current \in Elements(queue) \cup Held
        BY <1>6, <1>8
      <4> QED
        BY <2>6, <4>1, FS_RemoveElement DEF MailsReplace
    <3> HIDE DEF kept
    <3>3. IsFiniteSet(kept \cup {new}) /\ Cardinality(kept \cup {new}) <= Cardinality(kept) + 1
      BY <3>2, OneMore
    <3>4. Cardinality(Elements(queue) \cup Held) \in Nat /\ Cardinality(kept \cup {new}) \in Nat
      BY <2>6, <3>3, FS_CardinalityType DEF MailsReplace
    <3> QED
      <4>1. Cardinality(kept \cup {new}) <= pushes
        BY <1>0, <2>6, <3>2, <3>3, <3>4 DEF MailsReplace
      <4> QED
        BY <1>6, <1>8, <3>1, <3>3, <4>1 DEF MailsReplace
  <2> QED
    BY <2>4, <2>5, <2>6
<1> QED
  BY <1>1, <1>2, <1>3, <1>4, <1>5, <1>7, <1>8 DEF Move

LEMMA BusyKept == ASSUME HoldsWhenBusy, Stored, [Next]_vars PROVE HoldsWhenBusy'
<1> USE DEF broker, producer, counters, consumerVars
<1>1. CASE BeginPush \/ Publish \/ PublishFails \/ PublishFailsLate \/ Signal \/ BrokerFails \/ BrokerRecovers
  <2>1. pc' = pc /\ current' = current
    BY <1>1, Zenon DEF BeginPush, Publish, PublishFails, PublishFailsLate, Signal, BrokerFails, BrokerRecovers
  <2> QED
    BY <2>1 DEF HoldsWhenBusy
<1>2. CASE Top \/ Connect \/ ConnectFails \/ GetNothing \/ GetFails \/ Reconnect \/ Restart
  <2>1. pc \in {"top", "get", "reconnect", "exited"} /\ pc' \in {"top", "get", "reconnect", "exited"}
        /\ current' = current
    <3>1. CASE Top
      BY <3>1 DEF Top
    <3>2. CASE Connect
      BY <3>2, Zenon DEF Connect
    <3>3. CASE ConnectFails \/ GetNothing \/ GetFails \/ Reconnect \/ Restart
      BY <3>3, Zenon DEF ConnectFails, GetNothing, GetFails, Reconnect, Restart
    <3> QED
      BY <1>2, <3>1, <3>2, <3>3
  <2> QED
    BY <2>1 DEF HoldsWhenBusy
<1>3. CASE GetMessage
  <2>1. queue # <<>> /\ current' = Head(queue) /\ pc' = "acking"
    BY <1>3, Zenon DEF GetMessage
  <2>2. Head(queue) \in 1 .. puts /\ puts \in Nat
    BY <2>1 DEF Stored
  <2>3. current' # 0
    BY <2>1, <2>2
  <2> QED
    BY <2>1, <2>3 DEF HoldsWhenBusy
<1>4. CASE Ack
  <2>1. pc = "acking" /\ pc' = "handling" /\ current' = current
    BY <1>4, Zenon DEF Ack
  <2> QED
    BY <2>1 DEF HoldsWhenBusy
<1>5. CASE AckFails \/ Handle \/ HandleFails \/ HandleRaises \/ Kill
  <2>1. pc' \in {"top", "reconnect", "exited"} /\ current' = 0
    BY <1>5, Zenon DEF AckFails, Handle, HandleFails, HandleRaises, HandOver, Kill
  <2> QED
    BY <2>1 DEF HoldsWhenBusy
<1>6. CASE UNCHANGED vars
  <2>1. pc' = pc /\ current' = current
    BY <1>6, Zenon DEF vars
  <2> QED
    BY <2>1 DEF HoldsWhenBusy
<1> QED
  BY <1>1, <1>2, <1>3, <1>4, <1>5, <1>6, Zenon DEF Next

-----------------------------------------------------------------------------
LEMMA Starts == ASSUME Init PROVE IInv
<1> USE ConstantsAssumption
<1>1. Flags
  BY Zenon DEF Init, Flags
<1>2. Counters
  BY DEF Init, Counters
<1>3. HoldsWhenBusy
  BY DEF Init, HoldsWhenBusy
<1>4. /\ queue = <<>> /\ puts = 0 /\ pushes = 0 /\ current = 0 /\ lost = {}
      /\ handled = [m \in Message |-> 0]
  BY Zenon DEF Init
<1>5. Stored
  BY <1>4 DEF Stored, Distinct
<1>6. Elements(queue) = {} /\ Held = {} /\ Done = {} /\ 1 .. puts = {}
  BY <1>4 DEF Elements, Held, Done
<1>7. Places
  BY <1>4, <1>6 DEF Places
<1>8. MailsReplace
  <2>1. Elements(queue) \cup Held = {}
    BY <1>6
  <2>2. IsFiniteSet({}) /\ Cardinality({}) = 0
    BY FS_EmptySet
  <2>3. Cardinality(Elements(queue) \cup Held) = 0 /\ IsFiniteSet(Elements(queue) \cup Held)
    BY <2>1, <2>2, Zenon
  <2>4. 0 <= pushes
    BY <1>4
  <2> QED
    BY <2>3, <2>4, Zenon DEF MailsReplace
<1> QED
  BY <1>1, <1>2, <1>3, <1>5, <1>7, <1>8 DEF IInv

LEMMA Invariance == Spec => []IInv
<1>1. Init => IInv
  BY Starts
<1>2. ASSUME IInv, [Next]_vars PROVE IInv'
  BY <1>2, FlagsKept, CountersKept, BusyKept, NextMoves, StoredKept DEF IInv
<1> QED
  BY <1>1, <1>2, PTL DEF Spec

(* The variables keep their types, with the bounds of every counter.       *)
THEOREM TypeCorrect == Spec => []TypeOK
<1>1. IInv => TypeOK
  <2> SUFFICES ASSUME IInv PROVE TypeOK
    OBVIOUS
  <2>1. queue \in Seq(Message) /\ puts \in 0 .. MaxPuts /\ pushes \in 0 .. puts
    <3>1. 1 .. puts \subseteq Message
      BY ConstantsAssumption DEF IInv, Stored, Message
    <3> QED
      BY <3>1 DEF IInv, Stored
  <2>2. handled \in [Message -> Nat]
    BY DEF IInv, Stored
  <2> QED
    BY <2>1, <2>2, Zenon DEF IInv, Flags, Counters, HoldsWhenBusy, Stored, TypeOK
<1> QED
  BY <1>1, Invariance, PTL

(* However many messages are stored and whichever calls fail, each is in   *)
(* one place: no redelivery repeats a task, and only a kill or a failing   *)
(* acknowledgement loses a message (amf_consumers.py:94-123).              *)
THEOREM MessagesOnce == Spec => []EachMessageOnce
<1>1. IInv => EachMessageOnce
  <2> SUFFICES ASSUME IInv, NEW m \in 1 .. puts
               PROVE  Cardinality({n \in DOMAIN queue : queue[n] = m}) + (IF current = m THEN 1 ELSE 0)
                        + handled[m] + (IF m \in lost THEN 1 ELSE 0) = 1
    BY DEF EachMessageOnce
  <2>1. Cardinality({n \in DOMAIN queue : queue[n] = m}) = IF m \in Elements(queue) THEN 1 ELSE 0
    BY CountDistinct DEF IInv, Stored
  <2>2. m \in Message /\ m # 0 /\ handled[m] \in 0 .. 1
    BY ConstantsAssumption DEF IInv, Stored, Message
  <2>3. (m \in Held <=> current = m) /\ (m \in Done <=> handled[m] = 1)
    BY <2>2 DEF Held, Done
  <2>4. Places
    BY DEF IInv
  <2>5. CASE m \in Elements(queue)
    <3>1. current # m /\ handled[m] = 0 /\ m \notin lost
      BY <2>2, <2>3, <2>4, <2>5 DEF Places
    <3> QED
      BY <2>1, <2>5, <3>1
  <2>6. CASE m \notin Elements(queue)
    <3>1. Cardinality({n \in DOMAIN queue : queue[n] = m}) = 0
      BY <2>1, <2>6
    <3>2. CASE current = m
      <4>1. handled[m] = 0 /\ m \notin lost
        BY <2>2, <2>3, <2>4, <3>2 DEF Places
      <4> QED
        BY <3>1, <3>2, <4>1
    <3>3. CASE current # m
      <4>1. CASE handled[m] = 1
        <5>1. m \notin lost
          BY <2>3, <2>4, <4>1 DEF Places
        <5> QED
          BY <3>1, <3>3, <4>1, <5>1
      <4>2. CASE handled[m] # 1
        <5>1. handled[m] = 0
          BY <2>2, <4>2
        <5>2. m \in lost
          BY <2>3, <2>4, <2>6, <3>3, <4>2 DEF Places
        <5> QED
          BY <3>1, <3>3, <5>1, <5>2
      <4> QED
        BY <4>1, <4>2
    <3> QED
      BY <3>2, <3>3
  <2> QED
    BY <2>5, <2>6
<1> QED
  BY <1>1, Invariance, PTL

(* A failing message is replaced by at most one error mail, so whatever    *)
(* fails, what waits and what is held are no more than the producers put   *)
(* (msgqueue/__init__.py:63-78).                                           *)
THEOREM MailsBounded == Spec => []ErrorMailsBounded
<1>1. IInv => ErrorMailsBounded
  BY DEF IInv, MailsReplace, ErrorMailsBounded, Waiting, Elements, Held
<1> QED
  BY <1>1, Invariance, PTL

=============================================================================
