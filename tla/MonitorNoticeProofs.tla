------------------------- MODULE MonitorNoticeProofs -------------------------
(***************************************************************************)
(* Theorems about MonitorNotice, for any number of monitors, consumers,    *)
(* checkers, requests and closures and for any bounds.                     *)
(***************************************************************************)
EXTENDS MonitorNotice, TLAPS

TypeInv == TypeOK /\ PlacesOK

USE DEF dataVars, ghostVars, lockVars

\* A function updated at one point keeps its range.
LEMMA FunUpdate ==
  ASSUME NEW S, NEW T, NEW f \in [S -> T], NEW x \in S, NEW y \in T
  PROVE  [f EXCEPT ![x] = y] \in [S -> T]
OBVIOUS

\* A process has one role.
LEMMA Roles ==
  /\ \A w \in Workers : w \in Proc /\ w \notin Checkers /\ w \notin Editors /\ w \notin Syncers
  /\ \A c \in Checkers : c \in Proc /\ c \notin Workers /\ c \notin Editors /\ c \notin Syncers
  /\ \A e \in Editors : e \in Proc /\ e \notin Workers /\ e \notin Checkers /\ e \notin Syncers
  /\ \A s \in Syncers : s \in Proc /\ s \notin Workers /\ s \notin Checkers /\ s \notin Editors
BY NoticeAssumption DEF Proc

\* The candle of a clock reading is a natural number.
LEMMA CandleType == \A t \in Nat : Candle(t) \in Nat
BY NoticeAssumption DEF Candle

LEMMA DigestType == \A n \in Message : Digest(n) \in Digests
BY DEF Digest, Digests, Message

LEMMA MessageFields ==
  ASSUME NEW n \in Message
  PROVE  /\ n.id \in Monitors /\ n.ver \in Nat /\ n.reason \in Reason
         /\ n.candle \in Nat /\ n.dir \in {"buy", "sell"}
         /\ \A t \in Nat : [n EXCEPT !.created = t] \in Message
BY DEF Message

\* What the writers of a row store is a row.
LEMMA RowUpdates ==
  ASSUME NEW r \in Row
  PROVE  /\ r.ver \in Nat /\ r.cfg.dir \in {"buy", "sell"} /\ r.cfg \in Config \cup LegacyConfig
         /\ \A reason \in Reason : [r EXCEPT !.signal = reason] \in Row
         /\ [r EXCEPT !.exists = FALSE] \in Row
         /\ \A c \in Config \cup LegacyConfig, v \in BOOLEAN, version \in Nat :
              Reconfigured(r, c, v, version) \in Row
  <1>1. r.cfg.dir \in {"buy", "sell"}
    BY DEF Row, Config, LegacyConfig
  <1> QED
    BY <1>1 DEF Row, Reconfigured

LEMMA InitType == Init => TypeInv
  <1> SUFFICES ASSUME Init PROVE TypeInv
    OBVIOUS
  <1>1. rows \in [Monitors -> Row]
    <2> DEFINE First(c) == [exists |-> TRUE, valid |-> TRUE, cfg |-> c, ver |-> 1,
                            signal |-> None]
    <2>1. rows \in [Monitors -> {First(c) : c \in Config \cup LegacyConfig}]
      BY DEF Init
    <2>2. \A c \in Config \cup LegacyConfig : First(c) \in Row
      BY DEF Row
    <2>3. {First(c) : c \in Config \cup LegacyConfig} \subseteq Row
      BY <2>2
    <2> HIDE DEF First
    <2> QED
      BY <2>1, <2>3
  <1>2. TypeOK
    BY <1>1 DEF Init, TypeOK
  <1>3. PlacesOK
    BY Roles DEF Init, PlacesOK, RowInHand
  <1> QED
    BY <1>2, <1>3 DEF TypeInv

\* Every step keeps the types and what each process holds.
LEMMA StepType == TypeInv /\ [Next]_vars => TypeInv'
  <1> SUFFICES ASSUME TypeInv, [Next]_vars PROVE TypeInv'
    OBVIOUS
  <1> USE DEF TypeInv, TypeOK, PlacesOK, Goto, Critical, WorkerCritical, EditorCritical,
              SyncerCritical, RowInHand
  <1>1. ASSUME NEW c \in Checkers, CheckerStep(c) PROVE TypeInv'
    <2>1. ASSUME NEW m \in Monitors, NEW reason \in Reason, CheckMonitor(c, m, reason)
          PROVE  TypeInv'
      <3>1. Candle(clock) \in Nat
        BY CandleType
      <3>2. job'[c] \in Message
        BY <2>1, <3>1, RowUpdates, Roles DEF CheckMonitor, Message
      <3> QED
        BY <2>1, <3>2, Roles DEF CheckMonitor
    <2>2. CASE EnqueueNotice(c)
      <3>1. job[c] \in Message /\ [job[c] EXCEPT !.created = clock] \in Message
        BY <2>2, MessageFields DEF EnqueueNotice
      <3> DEFINE stamped == [job[c] EXCEPT !.created = clock]
      <3>2. queue' = queue \/ queue' = Append(queue, stamped)
        BY <2>2 DEF EnqueueNotice
      <3>a. stamped \in Message
        BY <3>1
      <3> HIDE DEF stamped
      <3>b. Append(queue, stamped) \in Seq(Message)
        BY <3>a
      <3>c. queue' \in Seq(Message)
        BY <3>2, <3>b
      <3> QED
        BY <2>2, <3>c, Roles DEF EnqueueNotice
    <2>3. CASE PushFails(c)
      BY <2>3, Roles DEF PushFails
    <2> QED
      BY <1>1, <2>1, <2>2, <2>3 DEF CheckerStep
  <1>2. ASSUME NEW w \in Workers, WorkerStep(w) PROVE TypeInv'
    <2> USE Roles
    <2>1. CASE ReceiveNotice(w)
      <3>1. Head(queue) \in Message /\ Tail(queue) \in Seq(Message)
        BY <2>1 DEF ReceiveNotice
      <3>2. CASE Stale(Head(queue))
        BY <2>1, <3>1, <3>2 DEF ReceiveNotice
      <3>3. CASE ~Stale(Head(queue))
        <4>1. /\ queue' = Tail(queue) /\ job' = [job EXCEPT ![w] = Head(queue)]
              /\ pc' = [pc EXCEPT ![w] = "lock"] /\ pc[w] = "idle"
              /\ UNCHANGED <<dataVars, ghostVars, lockVars, at, seen, clock, faults>>
          BY <2>1, <3>3 DEF ReceiveNotice
        <4> QED
          BY <4>1, <3>1
      <3> QED
        BY <3>2, <3>3
    <2>2. CASE LockNotice(w)
      BY <2>2, MessageFields DEF LockNotice, TakeLock
    <2>3. CASE GiveUpNotice(w)
      BY <2>3 DEF GiveUpNotice
    <2>4. CASE ReadMonitor(w)
      <3>1. rows[job[w].id] \in Row
        BY <2>4, MessageFields DEF ReadMonitor
      <3>2. CASE Stale(job[w]) \/ ~Matches(job[w], rows[job[w].id])
        BY <2>4, <3>2 DEF ReadMonitor
      <3>3. CASE ~(Stale(job[w]) \/ ~Matches(job[w], rows[job[w].id]))
        <4>1. /\ pc' = [pc EXCEPT ![w] = "dedupe"] /\ pc[w] = "read"
              /\ seen' = [seen EXCEPT ![w] = rows[job[w].id]]
              /\ UNCHANGED <<dataVars, ghostVars, queue, lockVars, job, at, clock, faults>>
          BY <2>4, <3>3 DEF ReadMonitor
        <4> QED
          BY <4>1, <3>1
      <3> QED
        BY <3>2, <3>3
    <2>5. CASE CheckHistory(w)
      BY <2>5 DEF CheckHistory
    <2>6. CASE SendEmail(w)
      BY <2>6, DigestType DEF SendEmail
    <2>7. CASE NotSent(w)
      BY <2>7 DEF NotSent
    <2>8. CASE RecordNotice(w)
      BY <2>8, DigestType DEF RecordNotice
    <2>9. CASE SaveSignal(w)
      BY <2>9, MessageFields, RowUpdates DEF SaveSignal
    <2>10. CASE FinishNotice(w)
      BY <2>10, MessageFields DEF FinishNotice, DropLock
    <2>11. CASE DatabaseFails(w)
      BY <2>11, DigestType DEF DatabaseFails
    <2> QED
      BY <1>2, <2>1, <2>2, <2>3, <2>4, <2>5, <2>6, <2>7, <2>8, <2>9, <2>10, <2>11
         DEF WorkerStep
  <1>3. ASSUME NEW e \in Editors, EditorStep(e) PROVE TypeInv'
    <2> USE Roles
    <2>1. ASSUME NEW m \in Monitors, BeginEdit(e, m) PROVE TypeInv'
      BY <2>1 DEF BeginEdit, TakeLock
    <2>2. CASE ReadForEdit(e)
      <3>1. CASE rows[at[e]].exists
        <4>1. /\ pc' = [pc EXCEPT ![e] = "edit_save"] /\ pc[e] = "edit_read"
              /\ seen' = [seen EXCEPT ![e] = rows[at[e]]]
              /\ UNCHANGED <<dataVars, ghostVars, queue, lockVars, job, at, clock, faults>>
          BY <2>2, <3>1 DEF ReadForEdit
        <4>2. rows[at[e]] \in Row
          BY <4>1
        <4> QED
          BY <4>1, <4>2
      <3>2. CASE ~rows[at[e]].exists
        BY <2>2, <3>2 DEF ReadForEdit
      <3> QED
        BY <3>1, <3>2
    <2>3. CASE SaveEdit(e)
      <3>1. at[e] \in Monitors /\ rows[at[e]] \in Row /\ lastVer[at[e]] + 1 \in Nat
        BY <2>3 DEF SaveEdit
      <3>2. PICK c \in Config \cup {None}, v \in BOOLEAN \cup {None} :
              rows' = [rows EXCEPT ![at[e]] =
                        IF @.exists
                          THEN Reconfigured(@, IF c = None THEN @.cfg ELSE c,
                                            IF v = None THEN @.valid ELSE v, lastVer[at[e]] + 1)
                          ELSE @]
        BY <2>3 DEF SaveEdit
      <3> DEFINE cfg == IF c = None THEN rows[at[e]].cfg ELSE c
                 valid == IF v = None THEN rows[at[e]].valid ELSE v
                 edited == Reconfigured(rows[at[e]], cfg, valid, lastVer[at[e]] + 1)
      <3>3. cfg \in Config \cup LegacyConfig /\ valid \in BOOLEAN
        BY <3>1, <3>2 DEF Row
      <3>4. edited \in Row
        <4> HIDE DEF cfg, valid
        <4> QED
          BY <3>1, <3>3, RowUpdates
      <3>5. rows' = [rows EXCEPT ![at[e]] = edited] \/ rows' = rows
        BY <3>1, <3>2
      <3> HIDE DEF edited
      <3>6. rows' \in [Monitors -> Row]
        BY <3>1, <3>4, <3>5, FunUpdate
      <3> QED
        BY <2>3, <3>1, <3>6 DEF SaveEdit
    <2>4. CASE RefuseEdit(e)
      BY <2>4 DEF RefuseEdit
    <2>5. CASE DeleteMonitor(e)
      BY <2>5, RowUpdates DEF DeleteMonitor
    <2>6. CASE FinishEdit(e)
      BY <2>6 DEF FinishEdit, DropLock
    <2> QED
      BY <1>3, <2>1, <2>2, <2>3, <2>4, <2>5, <2>6 DEF EditorStep
  <1>4. ASSUME NEW s \in Syncers, SyncerStep(s) PROVE TypeInv'
    <2> USE Roles
    <2>1. ASSUME NEW m \in Monitors, FindClosed(s, m) PROVE TypeInv'
      BY <2>1 DEF FindClosed
    <2>2. CASE LockClosed(s)
      BY <2>2 DEF LockClosed, TakeLock
    <2>3. CASE GiveUpClosed(s)
      BY <2>3 DEF GiveUpClosed
    <2>4. CASE PauseClosed(s)
      <3>1. at[s] \in Monitors /\ rows[at[s]] \in Row /\ lastVer[at[s]] + 1 \in Nat
        BY <2>4 DEF PauseClosed
      <3> DEFINE paused == Reconfigured(rows[at[s]], rows[at[s]].cfg, FALSE, lastVer[at[s]] + 1)
      <3>2. paused \in Row
        BY <3>1, RowUpdates
      <3>3. rows' \in [Monitors -> Row] /\ lastVer' \in [Monitors -> Nat]
        <4>1. \/ /\ rows' = [rows EXCEPT ![at[s]] = paused]
                 /\ lastVer' = [lastVer EXCEPT ![at[s]] = lastVer[at[s]] + 1]
              \/ UNCHANGED <<rows, lastVer>>
          BY <2>4 DEF PauseClosed
        <4> HIDE DEF paused
        <4>2. rows \in [Monitors -> Row] /\ lastVer \in [Monitors -> Nat]
          OBVIOUS
        <4>3. rows' \in [Monitors -> Row]
          BY <4>1, <4>2, <3>1, <3>2
        <4> DEFINE version == lastVer[at[s]] + 1
        <4>4. version \in Nat /\ (lastVer' = [lastVer EXCEPT ![at[s]] = version] \/ lastVer' = lastVer)
          BY <4>1, <3>1
        <4> HIDE DEF version
        <4>5. [lastVer EXCEPT ![at[s]] = version] \in [Monitors -> Nat]
          BY <4>2, <4>4, <3>1, FunUpdate
        <4>6. lastVer' \in [Monitors -> Nat]
          BY <4>2, <4>4, <4>5
        <4> QED
          BY <4>3, <4>6
      <3> QED
        BY <2>4, <3>3 DEF PauseClosed
    <2>5. CASE FinishClosed(s)
      BY <2>5 DEF FinishClosed, DropLock
    <2> QED
      BY <1>4, <2>1, <2>2, <2>3, <2>4, <2>5 DEF SyncerStep
  <1>5. ASSUME NEW m \in Monitors, LockTimeout(m) PROVE TypeInv'
    BY <1>5 DEF LockTimeout
  <1>6. ASSUME NEW p \in Proc, Crash(p) PROVE TypeInv'
    BY <1>6, Roles, DigestType DEF Crash
  <1>7. CASE Tick
    BY <1>7 DEF Tick
  <1>8. CASE UNCHANGED vars
    BY <1>8 DEF vars
  <1> QED
    BY <1>1, <1>2, <1>3, <1>4, <1>5, <1>6, <1>7, <1>8 DEF Next

\* The types of the specification hold for every number of processes, and every
\* process holds a notice, a monitor and a row wherever the code uses them.
THEOREM TypeCorrect == Spec => []TypeInv
  <1>1. Init => TypeInv
    BY InitType
  <1>2. TypeInv /\ [Next]_vars => TypeInv'
    BY StepType
  <1> QED
    BY <1>1, <1>2, PTL DEF Spec

-----------------------------------------------------------------------------
(* Every step is a step of one process, a lock timeout or a clock tick.     *)

StepOf(p) ==
  \/ p \in Checkers /\ CheckerStep(p)
  \/ p \in Workers /\ WorkerStep(p)
  \/ p \in Editors /\ EditorStep(p)
  \/ p \in Syncers /\ SyncerStep(p)
  \/ Crash(p)

\* A process that is not the one that moves keeps what it knows.
Still(q) ==
  /\ pc'[q] = pc[q]
  /\ q \in Workers \cup Checkers => job'[q] = job[q]
  /\ q \in Editors \cup Syncers => at'[q] = at[q]
  /\ q \in Workers \cup Editors \cup Syncers => seen'[q] = seen[q]

\* A step of one process leaves the program counter, the notice, the monitor and
\* the row of every other process alone.
LEMMA OthersAreStill ==
  ASSUME TypeInv, NEW p \in Proc, StepOf(p), NEW q \in Proc, q # p
  PROVE  Still(q)
  <1>1. /\ pc = [r \in Proc |-> pc[r]]
        /\ job = [r \in Workers \cup Checkers |-> job[r]]
        /\ at = [r \in Editors \cup Syncers |-> at[r]]
        /\ seen = [r \in Workers \cup Editors \cup Syncers |-> seen[r]]
    BY DEF TypeInv, TypeOK
  <1> USE <1>1 DEF Still, Goto
  <1>2. CASE p \in Checkers /\ CheckerStep(p)
    BY <1>2 DEF CheckerStep, CheckMonitor, EnqueueNotice, PushFails
  <1>3. CASE p \in Workers /\ WorkerStep(p)
    <2>1. CASE ReceiveNotice(p) \/ LockNotice(p) \/ GiveUpNotice(p)
      BY <2>1 DEF ReceiveNotice, LockNotice, GiveUpNotice
    <2>2. CASE ReadMonitor(p) \/ CheckHistory(p) \/ SendEmail(p) \/ NotSent(p)
      BY <2>2 DEF ReadMonitor, CheckHistory, SendEmail, NotSent
    <2>3. CASE RecordNotice(p) \/ SaveSignal(p) \/ FinishNotice(p) \/ DatabaseFails(p)
      BY <2>3 DEF RecordNotice, SaveSignal, FinishNotice, DatabaseFails
    <2> QED
      BY <1>3, <2>1, <2>2, <2>3 DEF WorkerStep
  <1>4. CASE p \in Editors /\ EditorStep(p)
    BY <1>4 DEF EditorStep, BeginEdit, ReadForEdit, SaveEdit, RefuseEdit, DeleteMonitor,
                FinishEdit
  <1>5. CASE p \in Syncers /\ SyncerStep(p)
    BY <1>5 DEF SyncerStep, FindClosed, LockClosed, GiveUpClosed, PauseClosed, FinishClosed
  <1>6. CASE Crash(p)
    BY <1>6 DEF Crash
  <1> QED
    BY <1>2, <1>3, <1>4, <1>5, <1>6 DEF StepOf

\* The steps of the specification, by the process that takes them.
LEMMA NextCases ==
  [Next]_vars => \/ \E p \in Proc : StepOf(p)
                 \/ \E m \in Monitors : LockTimeout(m)
                 \/ Tick
                 \/ UNCHANGED vars
BY Roles DEF Next, StepOf

\* A process changes only a free lock or its own, and enters the critical
\* section of a monitor by taking its lock.
LEMMA LockMoves ==
  ASSUME TypeInv, NEW p \in Proc, StepOf(p)
  PROVE  /\ overrun' = overrun
         /\ \A m \in Monitors : lock'[m] # lock[m] => lock[m] \in {None, p}
         /\ Guarded(p)' => \/ Guarded(p) /\ Monitor(p)' = Monitor(p) /\ lock' = lock
                           \/ lock'[Monitor(p)'] = p
  <1>1. /\ pc = [r \in Proc |-> pc[r]]
        /\ job = [r \in Workers \cup Checkers |-> job[r]]
        /\ at = [r \in Editors \cup Syncers |-> at[r]]
        /\ lock = [m \in Monitors |-> lock[m]]
    BY DEF TypeInv, TypeOK
  <1>2. /\ p \in Workers /\ pc[p] = "lock" => job[p].id \in Monitors
        /\ p \in Syncers /\ pc[p] = "close_lock" => at[p] \in Monitors
    BY MessageFields DEF TypeInv, PlacesOK
  <1> USE <1>1, Roles
      DEF Goto, Guarded, Monitor, Critical, WorkerCritical, EditorCritical, SyncerCritical
  <1>3. CASE p \in Checkers /\ CheckerStep(p)
    BY <1>3 DEF CheckerStep, CheckMonitor, EnqueueNotice, PushFails
  <1>4. CASE p \in Workers /\ WorkerStep(p)
    <2>1. CASE ReceiveNotice(p) \/ GiveUpNotice(p)
      BY <1>4, <2>1 DEF ReceiveNotice, GiveUpNotice
    <2>2. CASE LockNotice(p)
      BY <1>2, <1>4, <2>2 DEF LockNotice, TakeLock
    <2>3. CASE ReadMonitor(p) \/ CheckHistory(p)
      BY <1>4, <2>3 DEF ReadMonitor, CheckHistory
    <2>4. CASE SendEmail(p) \/ NotSent(p)
      BY <1>4, <2>4 DEF SendEmail, NotSent
    <2>5. CASE RecordNotice(p) \/ SaveSignal(p) \/ DatabaseFails(p)
      BY <1>4, <2>5 DEF RecordNotice, SaveSignal, DatabaseFails
    <2>6. CASE FinishNotice(p)
      BY <1>4, <2>6 DEF FinishNotice, DropLock
    <2> QED
      BY <1>4, <2>1, <2>2, <2>3, <2>4, <2>5, <2>6 DEF WorkerStep
  <1>5. CASE p \in Editors /\ EditorStep(p)
    <2>1. CASE \E m \in Monitors : BeginEdit(p, m)
      BY <1>5, <2>1 DEF BeginEdit, TakeLock
    <2>2. CASE ReadForEdit(p) \/ SaveEdit(p) \/ RefuseEdit(p) \/ DeleteMonitor(p)
      BY <1>5, <2>2 DEF ReadForEdit, SaveEdit, RefuseEdit, DeleteMonitor
    <2>3. CASE FinishEdit(p)
      BY <1>5, <2>3 DEF FinishEdit, DropLock
    <2> QED
      BY <1>5, <2>1, <2>2, <2>3 DEF EditorStep
  <1>6. CASE p \in Syncers /\ SyncerStep(p)
    <2>1. CASE (\E m \in Monitors : FindClosed(p, m)) \/ GiveUpClosed(p) \/ PauseClosed(p)
      BY <1>6, <2>1 DEF FindClosed, GiveUpClosed, PauseClosed
    <2>2. CASE LockClosed(p)
      BY <1>2, <1>6, <2>2 DEF LockClosed, TakeLock
    <2>3. CASE FinishClosed(p)
      BY <1>6, <2>3 DEF FinishClosed, DropLock
    <2> QED
      BY <1>6, <2>1, <2>2, <2>3 DEF SyncerStep
  <1>7. CASE Crash(p)
    BY <1>7 DEF Crash
  <1> QED
    BY <1>3, <1>4, <1>5, <1>6, <1>7 DEF StepOf

\* Whoever works on a monitor under its lock still owns the lock, until a lock
\* of that monitor is outlived.
LEMMA OwnerStep == TypeInv /\ CriticalOwnsLock /\ [Next]_vars => CriticalOwnsLock'
  <1> SUFFICES ASSUME TypeInv, CriticalOwnsLock, [Next]_vars PROVE CriticalOwnsLock'
    OBVIOUS
  <1>1. \A q \in Proc : Guarded(q) => Monitor(q) \in Monitors
    BY MessageFields, Roles
       DEF TypeInv, PlacesOK, Guarded, Monitor, Critical, WorkerCritical, EditorCritical,
           SyncerCritical, Proc
  <1>2. ASSUME NEW p \in Proc, StepOf(p), NEW q \in Proc, Guarded(q)'
        PROVE  lock'[Monitor(q)'] = q
    <2>1. CASE q = p
      BY <1>1, <1>2, <2>1, LockMoves DEF CriticalOwnsLock
    <2>2. CASE q # p
      <3>1. Guarded(q) /\ Monitor(q)' = Monitor(q)
        BY <1>2, <2>2, OthersAreStill, LockMoves, Roles
           DEF Still, Guarded, Monitor, Critical, WorkerCritical, EditorCritical, SyncerCritical,
               Proc, TypeInv, PlacesOK
      <3>2. lock[Monitor(q)] = q /\ q # None
        BY <3>1, NoticeAssumption DEF CriticalOwnsLock
      <3> QED
        BY <1>1, <1>2, <2>2, <3>1, <3>2, LockMoves
    <2> QED
      BY <2>1, <2>2
  <1>3. ASSUME NEW m \in Monitors, LockTimeout(m) PROVE CriticalOwnsLock'
    BY <1>3, NoticeAssumption
       DEF LockTimeout, CriticalOwnsLock, Guarded, Monitor, TypeInv, TypeOK
  <1>4. CASE Tick \/ UNCHANGED vars
    BY <1>4 DEF Tick, vars, CriticalOwnsLock, Guarded, Monitor
  <1> QED
    BY <1>2, <1>3, <1>4, NextCases DEF CriticalOwnsLock

\* Two processes are never in the critical section of a monitor whose lock
\* nobody outlived.
LEMMA Exclusion ==
  ASSUME TypeInv, CriticalOwnsLock, NEW p \in Proc, NEW q \in Proc,
         pc[p] \in Critical, pc[q] \in Critical, Monitor(p) = Monitor(q),
         Monitor(p) \notin overrun
  PROVE  p = q
BY DEF CriticalOwnsLock, Guarded

\* Who changes which part of the shared state, and for which monitor.
LEMMA RowMoves ==
  ASSUME TypeInv, NEW p \in Proc, StepOf(p)
  PROVE  /\ \A m \in Monitors : rows'[m] # rows[m] \/ lastVer'[m] # lastVer[m] =>
                /\ Monitor(p) = m
                /\ \/ p \in Workers /\ SaveSignal(p)
                   \/ p \in Editors /\ (SaveEdit(p) \/ DeleteMonitor(p))
                   \/ p \in Syncers /\ PauseClosed(p)
         /\ \/ history' = history
            \/ p \in Workers /\ RecordNotice(p)
         /\ \/ mailed' = mailed /\ repeated' = repeated
            \/ p \in Workers /\ SendEmail(p)
         /\ unrecorded \subseteq unrecorded'
  <1>1. /\ rows = [m \in Monitors |-> rows[m]]
        /\ lastVer = [m \in Monitors |-> lastVer[m]]
    BY DEF TypeInv, TypeOK
  <1> USE <1>1, Roles DEF Monitor
  <1>2. CASE p \in Checkers /\ CheckerStep(p)
    BY <1>2 DEF CheckerStep, CheckMonitor, EnqueueNotice, PushFails
  <1>3. CASE p \in Workers /\ WorkerStep(p)
    <2>1. CASE ReceiveNotice(p) \/ LockNotice(p) \/ GiveUpNotice(p)
      BY <2>1 DEF ReceiveNotice, LockNotice, GiveUpNotice
    <2>2. CASE \/ ReadMonitor(p) \/ CheckHistory(p) \/ NotSent(p) \/ FinishNotice(p)
               \/ DatabaseFails(p)
      BY <2>2 DEF ReadMonitor, CheckHistory, NotSent, FinishNotice, DatabaseFails
    <2>3. CASE SendEmail(p)
      BY <1>3, <2>3 DEF SendEmail
    <2>4. CASE RecordNotice(p)
      BY <1>3, <2>4 DEF RecordNotice
    <2>5. CASE SaveSignal(p)
      BY <1>3, <2>5 DEF SaveSignal
    <2> QED
      BY <1>3, <2>1, <2>2, <2>3, <2>4, <2>5 DEF WorkerStep
  <1>4. CASE p \in Editors /\ EditorStep(p)
    <2>1. CASE \/ \E m \in Monitors : BeginEdit(p, m)
               \/ ReadForEdit(p) \/ RefuseEdit(p) \/ FinishEdit(p)
      BY <2>1 DEF BeginEdit, ReadForEdit, RefuseEdit, FinishEdit
    <2>2. CASE SaveEdit(p)
      BY <1>4, <2>2 DEF SaveEdit
    <2>3. CASE DeleteMonitor(p)
      BY <1>4, <2>3 DEF DeleteMonitor
    <2> QED
      BY <1>4, <2>1, <2>2, <2>3 DEF EditorStep
  <1>5. CASE p \in Syncers /\ SyncerStep(p)
    <2>1. CASE \/ \E m \in Monitors : FindClosed(p, m)
               \/ LockClosed(p) \/ GiveUpClosed(p) \/ FinishClosed(p)
      BY <2>1 DEF FindClosed, LockClosed, GiveUpClosed, FinishClosed
    <2>2. CASE PauseClosed(p)
      BY <1>5, <2>2 DEF PauseClosed
    <2> QED
      BY <1>5, <2>1, <2>2 DEF SyncerStep
  <1>6. CASE Crash(p)
    BY <1>6 DEF Crash
  <1> QED
    BY <1>2, <1>3, <1>4, <1>5, <1>6 DEF StepOf

\* The row a delivery or an edit read under the lock is still the stored row
\* when it is written back.
LEMMA SeenStep ==
  TypeInv /\ CriticalOwnsLock /\ SeenIsCurrent /\ [Next]_vars => SeenIsCurrent'
  <1> SUFFICES ASSUME TypeInv, CriticalOwnsLock, SeenIsCurrent, [Next]_vars
               PROVE  SeenIsCurrent'
    OBVIOUS
  <1> DEFINE HasRow(q) ==
        /\ q \in Workers /\ Guarded(q) /\ pc[q] \in RowInHand =>
             seen[q] = rows[job[q].id] /\ Matches(job[q], seen[q])
        /\ q \in Editors /\ Guarded(q) /\ pc[q] = "edit_save" =>
             seen[q] = rows[at[q]] /\ seen[q].exists
  <1>1. \A q \in Proc : HasRow(q)
    BY DEF SeenIsCurrent
  <1>2. ASSUME NEW p \in Proc, StepOf(p), NEW q \in Proc, q # p PROVE HasRow(q)'
    <2>1. Still(q) /\ overrun' = overrun
      BY <1>2, OthersAreStill, LockMoves
    <2>2. ASSUME Guarded(q), Monitor(q) \in Monitors PROVE rows'[Monitor(q)] = rows[Monitor(q)]
      <3>1. rows'[Monitor(q)] # rows[Monitor(q)] => Monitor(p) = Monitor(q) /\ pc[p] \in Critical
        BY <1>2, <2>2, RowMoves
           DEF SaveSignal, SaveEdit, DeleteMonitor, PauseClosed, Critical, WorkerCritical,
               EditorCritical, SyncerCritical
      <3> QED
        BY <1>2, <2>2, <3>1, Exclusion DEF Guarded
    <2>3. ASSUME q \in Workers, Guarded(q)', pc'[q] \in RowInHand
          PROVE  seen'[q] = rows'[job'[q].id] /\ Matches(job[q], seen[q])'
      BY <1>1, <2>1, <2>2, <2>3, MessageFields
         DEF Still, Guarded, Monitor, Matches, TypeInv, PlacesOK, RowInHand
    <2>4. ASSUME q \in Editors, Guarded(q)', pc'[q] = "edit_save"
          PROVE  seen'[q] = rows'[at'[q]] /\ seen'[q].exists
      BY <1>1, <2>1, <2>2, <2>4, Roles DEF Still, Guarded, Monitor, TypeInv, PlacesOK
    <2> QED
      BY <2>3, <2>4
  <1>3. ASSUME NEW p \in Proc, StepOf(p) PROVE HasRow(p)'
    <2>1. /\ pc = [r \in Proc |-> pc[r]]
          /\ seen = [r \in Workers \cup Editors \cup Syncers |-> seen[r]]
      BY DEF TypeInv, TypeOK
    <2> USE <2>1, Roles
        DEF Goto, Guarded, Monitor, Critical, WorkerCritical, EditorCritical, SyncerCritical,
            RowInHand
    <2>2. CASE p \in Checkers /\ CheckerStep(p)
      BY <2>2
    <2>3. CASE p \in Workers /\ WorkerStep(p)
      <3>1. CASE ReceiveNotice(p) \/ LockNotice(p) \/ GiveUpNotice(p)
        BY <2>3, <3>1 DEF ReceiveNotice, LockNotice, GiveUpNotice, TypeInv, PlacesOK
      <3>2. CASE ReadMonitor(p)
        BY <2>3, <3>2 DEF ReadMonitor, Matches
      <3>3. CASE CheckHistory(p)
        BY <1>1, <2>3, <3>3 DEF CheckHistory, Matches
      <3>4. CASE SendEmail(p) \/ NotSent(p)
        BY <1>1, <2>3, <3>4 DEF SendEmail, NotSent, Matches
      <3>5. CASE RecordNotice(p)
        BY <1>1, <2>3, <3>5 DEF RecordNotice, Matches
      <3>6. CASE SaveSignal(p) \/ FinishNotice(p) \/ DatabaseFails(p)
        BY <2>3, <3>6 DEF SaveSignal, FinishNotice, DatabaseFails
      <3> QED
        BY <2>3, <3>1, <3>2, <3>3, <3>4, <3>5, <3>6 DEF WorkerStep
    <2>4. CASE p \in Editors /\ EditorStep(p)
      <3>1. CASE ReadForEdit(p)
        BY <2>4, <3>1 DEF ReadForEdit
      <3>2. CASE ~ReadForEdit(p)
        BY <2>4, <3>2
           DEF EditorStep, BeginEdit, SaveEdit, RefuseEdit, DeleteMonitor, FinishEdit
      <3> QED
        BY <3>1, <3>2
    <2>5. CASE p \in Syncers /\ SyncerStep(p)
      BY <2>5
    <2>6. CASE Crash(p)
      BY <2>6 DEF Crash
    <2> QED
      BY <1>3, <2>2, <2>3, <2>4, <2>5, <2>6 DEF StepOf
  <1>4. ASSUME NEW m \in Monitors, LockTimeout(m) PROVE SeenIsCurrent'
    BY <1>4, NoticeAssumption
       DEF LockTimeout, CriticalOwnsLock, SeenIsCurrent, Guarded, Monitor, Matches
  <1>5. CASE Tick \/ UNCHANGED vars
    BY <1>5 DEF Tick, vars, SeenIsCurrent, Guarded, Monitor, Matches
  <1>6. ASSUME NEW p \in Proc, StepOf(p) PROVE SeenIsCurrent'
    BY <1>2, <1>3, <1>6, Roles DEF SeenIsCurrent
  <1> QED
    BY <1>4, <1>5, <1>6, NextCases

\* Every save keeps the newest configuration version in the row.
LEMMA NewestStep == TypeInv /\ NoLostEdit /\ [Next]_vars => NoLostEdit'
  <1> SUFFICES ASSUME TypeInv, NoLostEdit, [Next]_vars, NEW m \in Monitors, rows'[m].exists
               PROVE  rows'[m].ver = lastVer'[m]
    BY DEF NoLostEdit
  <1>1. ASSUME NEW p \in Proc, StepOf(p) PROVE rows'[m].ver = lastVer'[m]
    <2>1. CASE rows'[m] = rows[m] /\ lastVer'[m] = lastVer[m]
      BY <1>1, <2>1 DEF NoLostEdit
    <2>2. CASE ~(rows'[m] = rows[m] /\ lastVer'[m] = lastVer[m])
      <3>1. /\ Monitor(p) = m
            /\ \/ p \in Workers /\ SaveSignal(p)
               \/ p \in Editors /\ (SaveEdit(p) \/ DeleteMonitor(p))
               \/ p \in Syncers /\ PauseClosed(p)
        BY <1>1, <2>2, RowMoves
      <3>2. rows \in [Monitors -> Row] /\ lastVer \in [Monitors -> Nat]
        BY DEF TypeInv, TypeOK
      <3> USE Roles DEF Monitor
      <3>3. CASE p \in Workers /\ SaveSignal(p)
        BY <3>1, <3>2, <3>3 DEF SaveSignal, NoLostEdit, Row
      <3>4. CASE p \in Editors /\ SaveEdit(p)
        BY <3>1, <3>2, <3>4 DEF SaveEdit, Reconfigured
      <3>5. CASE p \in Editors /\ DeleteMonitor(p)
        BY <3>1, <3>2, <3>5 DEF DeleteMonitor, Row
      <3>6. CASE p \in Syncers /\ PauseClosed(p)
        BY <2>2, <3>1, <3>2, <3>6 DEF PauseClosed, Reconfigured
      <3> QED
        BY <3>1, <3>3, <3>4, <3>5, <3>6
    <2> QED
      BY <2>1, <2>2
  <1>2. ASSUME NEW k \in Monitors, LockTimeout(k) PROVE rows'[m].ver = lastVer'[m]
    BY <1>2 DEF LockTimeout, NoLostEdit
  <1>3. CASE Tick \/ UNCHANGED vars
    BY <1>3 DEF Tick, vars, NoLostEdit
  <1> QED
    BY <1>1, <1>2, <1>3, NextCases

\* Between the history lookup and the email nobody else records the digest.
LEMMA UnrecordedStep ==
  TypeInv /\ CriticalOwnsLock /\ SendIsUnrecorded /\ [Next]_vars => SendIsUnrecorded'
  <1> SUFFICES ASSUME TypeInv, CriticalOwnsLock, SendIsUnrecorded, [Next]_vars,
                      NEW w \in Workers, Guarded(w)', pc'[w] = "send"
               PROVE  Digest(job[w])' \notin history'
    BY DEF SendIsUnrecorded
  <1> USE Roles DEF Guarded, Monitor, Critical, WorkerCritical
  <1>1. ASSUME NEW p \in Proc, StepOf(p) PROVE Digest(job[w])' \notin history'
    <2>1. CASE p # w
      <3>1. Still(w) /\ overrun' = overrun
        BY <1>1, <2>1, OthersAreStill, LockMoves
      <3>2. Guarded(w) /\ pc[w] = "send" /\ Digest(job[w])' = Digest(job[w])
        BY <3>1 DEF Still, Digest
      <3>3. CASE p \in Workers /\ RecordNotice(p)
        <4>1. history' = history \cup {Digest(job[p])} /\ pc[p] = "record"
          BY <3>3 DEF RecordNotice
        <4>2. Digest(job[w]) = Digest(job[p]) => job[w].id = job[p].id
          BY DEF Digest
        <4> QED
          BY <2>1, <3>2, <3>3, <4>1, <4>2, Exclusion DEF SendIsUnrecorded
      <3> QED
        BY <1>1, <3>2, <3>3, RowMoves DEF SendIsUnrecorded
    <2>2. CASE p = w
      <3>1. pc = [r \in Proc |-> pc[r]]
        BY DEF TypeInv, TypeOK
      <3>2. CASE WorkerStep(p)
        <4>1. CheckHistory(p)
          BY <2>2, <3>1, <3>2
             DEF WorkerStep, Goto, ReceiveNotice, LockNotice, GiveUpNotice, ReadMonitor, SendEmail,
                 NotSent, RecordNotice, SaveSignal, FinishNotice, DatabaseFails
        <4> QED
          BY <2>2, <3>1, <4>1 DEF CheckHistory, Goto, Digest
      <3>3. CASE Crash(p)
        BY <2>2, <3>1, <3>3 DEF Crash, Goto
      <3> QED
        BY <1>1, <2>2, <3>2, <3>3 DEF StepOf
    <2> QED
      BY <2>1, <2>2
  <1>2. ASSUME NEW k \in Monitors, LockTimeout(k) PROVE Digest(job[w])' \notin history'
    BY <1>2 DEF LockTimeout, SendIsUnrecorded, Digest
  <1>3. CASE Tick \/ UNCHANGED vars
    BY <1>3 DEF Tick, vars, SendIsUnrecorded, Digest
  <1> QED
    BY <1>1, <1>2, <1>3, NextCases

\* An email that was sent is recorded, is about to be, or its record failed.
LEMMA AccountStep ==
  TypeInv /\ MailIsAccountedFor /\ [Next]_vars => MailIsAccountedFor'
  <1> SUFFICES ASSUME TypeInv, MailIsAccountedFor, [Next]_vars PROVE MailIsAccountedFor'
    OBVIOUS
  <1> DEFINE Pending(d) == \E w \in Workers : pc[w] = "record" /\ Digest(job[w]) = d
  <1>1. ASSUME NEW p \in Proc, StepOf(p) PROVE MailIsAccountedFor'
    <2>0. pc = [r \in Proc |-> pc[r]]
      BY DEF TypeInv, TypeOK
    <2>1. ASSUME NEW w \in Workers, w # p, pc[w] = "record" \/ pc'[w] = "record"
          PROVE  pc[w] = pc'[w] /\ Digest(job[w])' = Digest(job[w])
      BY <1>1, <2>1, OthersAreStill, Roles DEF Still, Digest
    <2>2. ASSUME NEW w \in Workers, pc'[w] = "record" PROVE Digest(job[w])' \in mailed'
      <3>1. CASE w # p
        BY <1>1, <2>1, <2>2, <3>1, RowMoves DEF MailIsAccountedFor, SendEmail
      <3>2. CASE w = p /\ WorkerStep(p)
        <4>1. SendEmail(p)
          BY <2>0, <2>2, <3>2, Roles
             DEF WorkerStep, Goto, ReceiveNotice, LockNotice, GiveUpNotice, ReadMonitor,
                 CheckHistory, NotSent, RecordNotice, SaveSignal, FinishNotice, DatabaseFails
        <4> QED
          BY <3>2, <4>1 DEF SendEmail, Digest
      <3>3. CASE w = p /\ Crash(p)
        BY <2>0, <2>2, <3>3 DEF Crash, Goto
      <3> QED
        BY <1>1, <3>1, <3>2, <3>3, Roles DEF StepOf
    <2>3. ASSUME NEW d \in mailed' PROVE d \in history' \/ Excused(d)' \/ Pending(d)'
      <3>1. Excused(d) => Excused(d)'
        BY <1>1, RowMoves, LockMoves DEF Excused
      <3>2. history \subseteq history'
        BY <1>1, RowMoves DEF RecordNotice
      <3>3. CASE p \in Workers /\ SendEmail(p)
        <4>1. pc'[p] = "record" /\ Digest(job[p])' = Digest(job[p])
              /\ mailed' = mailed \cup {Digest(job[p])} /\ pc[p] = "send"
          BY <2>0, <3>3, Roles DEF SendEmail, Goto, Digest
        <4>2. Pending(d) => Pending(d)'
          BY <2>1, <4>1
        <4>3. d = Digest(job[p]) => Pending(d)'
          BY <3>3, <4>1
        <4> QED
          BY <2>3, <3>1, <3>2, <4>1, <4>2, <4>3 DEF MailIsAccountedFor
      <3>4. CASE ~(p \in Workers /\ SendEmail(p))
        <4>1. d \in mailed
          BY <1>1, <2>3, <3>4, RowMoves
        <4>2. ASSUME NEW w \in Workers, w # p, pc[w] = "record", Digest(job[w]) = d
              PROVE  Pending(d)'
          BY <2>1, <4>2
        <4>3. ASSUME p \in Workers, pc[p] = "record", Digest(job[p]) = d
              PROVE  d \in history' \/ Excused(d)' \/ Pending(d)'
          <5>1. CASE Crash(p)
            BY <4>3, <5>1 DEF Crash, Excused
          <5>2. CASE WorkerStep(p)
            <6>1. RecordNotice(p) \/ DatabaseFails(p)
              BY <4>3, <5>2
                 DEF WorkerStep, ReceiveNotice, LockNotice, GiveUpNotice, ReadMonitor,
                     CheckHistory, SendEmail, NotSent, SaveSignal, FinishNotice
            <6> QED
              BY <4>3, <6>1 DEF RecordNotice, DatabaseFails, Excused
          <5> QED
            BY <1>1, <4>3, <5>1, <5>2, Roles DEF StepOf
        <4> QED
          BY <3>1, <3>2, <4>1, <4>2, <4>3 DEF MailIsAccountedFor
      <3> QED
        BY <3>3, <3>4
    <2> QED
      BY <2>2, <2>3 DEF MailIsAccountedFor
  <1>2. ASSUME NEW k \in Monitors, LockTimeout(k) PROVE MailIsAccountedFor'
    BY <1>2 DEF LockTimeout, MailIsAccountedFor, Excused, Digest
  <1>3. CASE Tick \/ UNCHANGED vars
    BY <1>3 DEF Tick, vars, MailIsAccountedFor, Excused, Digest
  <1> QED
    BY <1>1, <1>2, <1>3, NextCases

\* A second email for a digest is excused: nobody else is between the email and
\* its record for a monitor whose lock was not outlived.
LEMMA SecondEmail ==
  ASSUME TypeInv, DeliveryInv, NEW w \in Workers, pc[w] = "send", Digest(job[w]) \in mailed
  PROVE  Excused(Digest(job[w]))
  <1> SUFFICES ASSUME ~Excused(Digest(job[w])) PROVE FALSE
    OBVIOUS
  <1> USE Roles
  <1>1. Guarded(w) /\ Monitor(w) = job[w].id
    BY DEF Guarded, Monitor, Critical, WorkerCritical, Excused, Digest
  <1>2. PICK v \in Workers : pc[v] = "record" /\ Digest(job[v]) = Digest(job[w])
    BY <1>1 DEF DeliveryInv, SendIsUnrecorded, MailIsAccountedFor
  <1>3. Monitor(v) = Monitor(w) /\ pc[v] \in Critical
    BY <1>1, <1>2 DEF Monitor, Digest, Critical, WorkerCritical
  <1> QED
    BY <1>1, <1>2, <1>3, Exclusion DEF DeliveryInv, Guarded

\* A second email for a digest is excused, and only sent digests are recorded.
LEMMA RepeatStep == TypeInv /\ DeliveryInv /\ [Next]_vars => NoRepeatedEmail' /\ RecordedWasMailed'
  <1> SUFFICES ASSUME TypeInv, DeliveryInv, [Next]_vars
               PROVE  NoRepeatedEmail' /\ RecordedWasMailed'
    OBVIOUS
  <1> USE DEF DeliveryInv
  <1>1. ASSUME NEW p \in Proc, StepOf(p) PROVE NoRepeatedEmail' /\ RecordedWasMailed'
    <2>1. \A d \in repeated : Excused(d)'
      BY <1>1, RowMoves, LockMoves DEF Excused, NoRepeatedEmail
    <2>2. CASE p \in Workers /\ SendEmail(p)
      <3> DEFINE d == Digest(job[p])
      <3>1. /\ pc[p] = "send" /\ mailed' = mailed \cup {d} /\ history' = history
            /\ repeated' = IF d \in mailed THEN repeated \cup {d} ELSE repeated
            /\ unrecorded' = unrecorded /\ overrun' = overrun
        BY <2>2 DEF SendEmail
      <3>2. d \in mailed => Excused(d)
        BY <2>2, <3>1, SecondEmail
      <3>3. Excused(d) => \A x \in {d} : Excused(x)'
        BY <3>1 DEF Excused
      <3>4. NoRepeatedEmail'
        <4> HIDE DEF d
        <4> QED
          BY <2>1, <3>1, <3>2, <3>3 DEF NoRepeatedEmail
      <3>5. RecordedWasMailed'
        BY <3>1 DEF RecordedWasMailed
      <3> QED
        BY <3>4, <3>5
    <2>3. CASE ~(p \in Workers /\ SendEmail(p))
      <3>1. repeated' = repeated /\ mailed' = mailed
        BY <1>1, <2>3, RowMoves
      <3>2. history' \subseteq mailed
        BY <1>1, RowMoves DEF RecordNotice, MailIsAccountedFor, RecordedWasMailed
      <3> QED
        BY <2>1, <3>1, <3>2 DEF NoRepeatedEmail, RecordedWasMailed
    <2> QED
      BY <2>2, <2>3
  <1>2. ASSUME NEW k \in Monitors, LockTimeout(k) PROVE NoRepeatedEmail' /\ RecordedWasMailed'
    BY <1>2 DEF LockTimeout, NoRepeatedEmail, Excused, RecordedWasMailed
  <1>3. CASE Tick \/ UNCHANGED vars
    BY <1>3 DEF Tick, vars, NoRepeatedEmail, Excused, RecordedWasMailed
  <1> QED
    BY <1>1, <1>2, <1>3, NextCases

-----------------------------------------------------------------------------
(* The theorems.                                                            *)

\* The delivery protocol of deliver_monitor_notice, update_monitor,
\* delete_symbol and pause_closed_monitors keeps its inductive invariant.
THEOREM DeliveryCorrect == Spec => []DeliveryInv
  <1>1. Init => DeliveryInv
    <2>1. Init => CriticalOwnsLock /\ SeenIsCurrent /\ SendIsUnrecorded
      BY Roles DEF Init, CriticalOwnsLock, SeenIsCurrent, SendIsUnrecorded, Guarded, Critical,
                   WorkerCritical, EditorCritical, SyncerCritical, RowInHand
    <2>2. Init => MailIsAccountedFor /\ RecordedWasMailed /\ NoRepeatedEmail
      BY Roles DEF Init, MailIsAccountedFor, RecordedWasMailed, NoRepeatedEmail
    <2>3. Init => NoLostEdit
      BY DEF Init, NoLostEdit
    <2> QED
      BY <2>1, <2>2, <2>3 DEF DeliveryInv
  <1>2. TypeInv /\ DeliveryInv /\ [Next]_vars => DeliveryInv'
    BY OwnerStep, SeenStep, NewestStep, UnrecordedStep, AccountStep, RepeatStep DEF DeliveryInv
  <1> QED
    BY <1>1, <1>2, TypeCorrect, PTL DEF Spec

\* The history never suppresses a notice nobody received.
THEOREM HistoryIsMailed == Spec => []RecordedWasMailed
  <1>1. DeliveryInv => RecordedWasMailed
    BY DEF DeliveryInv
  <1> QED
    BY <1>1, DeliveryCorrect, PTL

\* The part of the type theorem the runs check.
THEOREM TypesHold == Spec => []TypeOK
  <1>1. TypeInv => TypeOK
    BY DEF TypeInv
  <1> QED
    BY <1>1, TypeCorrect, PTL

\* One email per digest, for any number of consumers and requests.
THEOREM NoticesSentOnce == Spec => []NoRepeatedEmail
  <1>1. DeliveryInv => NoRepeatedEmail
    BY DEF DeliveryInv
  <1> QED
    BY <1>1, DeliveryCorrect, PTL

\* No save of a delivery, an edit or a closure undoes a newer configuration.
THEOREM EditsSurvive == Spec => []NoLostEdit
  <1>1. DeliveryInv => NoLostEdit
    BY DEF DeliveryInv
  <1> QED
    BY <1>1, DeliveryCorrect, PTL

\* A notice about to be sent matches the monitor as it is stored now.
THEOREM NoticesAreCurrent == Spec => []SendsForCurrentConfig
  <1>1. TypeInv /\ DeliveryInv => SendsForCurrentConfig
    <2> SUFFICES ASSUME TypeInv, DeliveryInv, NEW w \in Workers, pc[w] = "send",
                        job[w].id \notin overrun
                 PROVE  Matches(job[w], rows[job[w].id])
      BY DEF SendsForCurrentConfig
    <2>1. Guarded(w) /\ pc[w] \in RowInHand
      BY Roles DEF Guarded, Monitor, Critical, WorkerCritical, RowInHand
    <2> QED
      BY <2>1 DEF DeliveryInv, SeenIsCurrent
  <1> QED
    BY <1>1, TypeCorrect, DeliveryCorrect, PTL

\* No step of an edit, a removal or a closure forgets the last signal reason.
THEOREM SignalsKept == Spec => SignalNotForgotten
  <1> DEFINE Kept == \A m \in Monitors : rows[m].signal # None => rows'[m].signal # None
  <1>1. TypeInv /\ [Next]_vars => [Kept]_vars
    <2> SUFFICES ASSUME TypeInv, [Next]_vars, NEW m \in Monitors, rows[m].signal # None
                 PROVE  rows'[m].signal # None \/ UNCHANGED vars
      OBVIOUS
    <2>1. ASSUME NEW p \in Proc, StepOf(p), rows'[m] # rows[m] PROVE rows'[m].signal # None
      <3>1. /\ Monitor(p) = m
            /\ \/ p \in Workers /\ SaveSignal(p)
               \/ p \in Editors /\ (SaveEdit(p) \/ DeleteMonitor(p))
               \/ p \in Syncers /\ PauseClosed(p)
        BY <2>1, RowMoves
      <3>2. rows \in [Monitors -> Row]
        BY DEF TypeInv, TypeOK
      <3> USE Roles DEF Monitor
      <3>3. CASE p \in Workers /\ SaveSignal(p)
        <4>1. job[p].reason # None
          BY <3>3, MessageFields, NoticeAssumption DEF SaveSignal, TypeInv, PlacesOK, Reason
        <4> QED
          BY <3>1, <3>2, <3>3, <4>1 DEF SaveSignal, Row
      <3>4. CASE p \in Editors /\ SaveEdit(p)
        BY <3>1, <3>2, <3>4 DEF SaveEdit, Reconfigured
      <3>5. CASE p \in Editors /\ DeleteMonitor(p)
        BY <3>1, <3>2, <3>5 DEF DeleteMonitor, Row
      <3>6. CASE p \in Syncers /\ PauseClosed(p)
        BY <2>1, <3>1, <3>2, <3>6 DEF PauseClosed, Reconfigured
      <3> QED
        BY <3>1, <3>3, <3>4, <3>5, <3>6
    <2>2. ASSUME NEW k \in Monitors, LockTimeout(k) PROVE rows' = rows
      BY <2>2 DEF LockTimeout
    <2>3. CASE Tick \/ UNCHANGED vars
      BY <2>3 DEF Tick, vars
    <2> QED
      BY <2>1, <2>2, <2>3, NextCases
  <1> QED
    BY <1>1, TypeCorrect, PTL DEF Spec, SignalNotForgotten

-----------------------------------------------------------------------------
(* The refinement of NoticePromise.  Its versions and digests are bounded, *)
(* so the numbers of a behaviour must be shown to stay within the bounds.  *)

InRange(n) == n.ver \in 1..MaxVersion /\ n.candle \in 0..MaxClock

VersionsInRange ==
  \A m \in Monitors : lastVer[m] \in 1..MaxVersion /\ rows[m].ver \in 1..MaxVersion

NoticesInRange ==
  /\ clock <= MaxClock
  /\ \A i \in 1..Len(queue) : InRange(queue[i])
  /\ \A p \in Workers \cup Checkers : pc[p] # "idle" => InRange(job[p])

RangeInv == VersionsInRange /\ NoticesInRange

\* The candle of a clock reading is not later than the reading.
LEMMA CandleBound == \A t \in Nat : Candle(t) <= t
BY NoticeAssumption DEF Candle

LEMMA InitRange == Init => RangeInv
  <1> SUFFICES ASSUME Init PROVE RangeInv
    OBVIOUS
  <1>1. VersionsInRange
    <2>1. 1 \in 1..MaxVersion
      BY NoticeAssumption
    <2>2. \A m \in Monitors : rows[m].ver = 1 /\ lastVer[m] = 1
      BY DEF Init
    <2> QED
      BY <2>1, <2>2 DEF VersionsInRange
  <1>2. NoticesInRange
    BY Roles, NoticeAssumption DEF Init, NoticesInRange
  <1> QED
    BY <1>1, <1>2 DEF RangeInv

\* Versions are handed out by edits and closures, one more than the newest.
LEMMA VersionRangeStep == TypeInv /\ VersionsInRange /\ [Next]_vars => VersionsInRange'
  <1> SUFFICES ASSUME TypeInv, VersionsInRange, [Next]_vars, NEW m \in Monitors
               PROVE  lastVer'[m] \in 1..MaxVersion /\ rows'[m].ver \in 1..MaxVersion
    BY DEF VersionsInRange
  <1> DEFINE Goal == lastVer'[m] \in 1..MaxVersion /\ rows'[m].ver \in 1..MaxVersion
  <1>0. /\ lastVer[m] \in 1..MaxVersion /\ rows[m].ver \in 1..MaxVersion
        /\ rows \in [Monitors -> Row] /\ lastVer \in [Monitors -> Nat] /\ MaxVersion \in Nat
    BY NoticeAssumption DEF VersionsInRange, TypeInv, TypeOK
  <1>1. ASSUME NEW p \in Proc, StepOf(p) PROVE Goal
    <2>1. CASE rows'[m] = rows[m] /\ lastVer'[m] = lastVer[m]
      BY <1>0, <2>1
    <2>2. CASE ~(rows'[m] = rows[m] /\ lastVer'[m] = lastVer[m])
      <3>1. /\ Monitor(p) = m
            /\ \/ p \in Workers /\ SaveSignal(p)
               \/ p \in Editors /\ (SaveEdit(p) \/ DeleteMonitor(p))
               \/ p \in Syncers /\ PauseClosed(p)
        BY <1>1, <2>2, RowMoves
      <3>2. rows[m] \in Row
        BY <1>0
      <3> USE Roles DEF Monitor
      <3>3. CASE p \in Workers /\ SaveSignal(p)
        <4>1. rows'[m].ver = rows[m].ver /\ lastVer' = lastVer
          BY <1>0, <3>1, <3>2, <3>3 DEF SaveSignal, Row
        <4> QED
          BY <1>0, <4>1
      <3>4. CASE p \in Editors /\ SaveEdit(p)
        <4>1. /\ lastVer[m] < MaxVersion /\ lastVer'[m] = lastVer[m] + 1
              /\ rows'[m].ver = lastVer[m] + 1 \/ rows'[m] = rows[m]
          BY <1>0, <3>1, <3>4 DEF SaveEdit, Reconfigured
        <4> QED
          BY <1>0, <4>1
      <3>5. CASE p \in Editors /\ DeleteMonitor(p)
        <4>1. rows'[m].ver = rows[m].ver /\ lastVer' = lastVer
          BY <1>0, <3>1, <3>2, <3>5 DEF DeleteMonitor, Row
        <4> QED
          BY <1>0, <4>1
      <3>6. CASE p \in Syncers /\ PauseClosed(p)
        <4>1. /\ lastVer[m] < MaxVersion /\ lastVer'[m] = lastVer[m] + 1
              /\ rows'[m].ver = lastVer[m] + 1
          BY <1>0, <2>2, <3>1, <3>6 DEF PauseClosed, Reconfigured
        <4> QED
          BY <1>0, <4>1
      <3> HIDE DEF Goal
      <3> QED
        BY <3>1, <3>3, <3>4, <3>5, <3>6
    <2> QED
      BY <2>1, <2>2
  <1>2. ASSUME NEW k \in Monitors, LockTimeout(k) PROVE Goal
    BY <1>0, <1>2 DEF LockTimeout
  <1>3. CASE Tick \/ UNCHANGED vars
    BY <1>0, <1>3 DEF Tick, vars
  <1> QED
    BY <1>1, <1>2, <1>3, NextCases

\* A process that works on a notice has had it since its last step, has just
\* built it from a stored row, or has just taken it from the queue.
LEMMA NoticeMoves ==
  ASSUME TypeInv, NEW p \in Workers \cup Checkers, StepOf(p), pc'[p] # "idle"
  PROVE  \/ pc[p] # "idle" /\ job'[p] = job[p]
         \/ p \in Checkers /\ \E m \in Monitors, reason \in Reason : CheckMonitor(p, m, reason)
         \/ p \in Workers /\ queue # <<>> /\ job'[p] = Head(queue)
  <1>1. pc = [r \in Proc |-> pc[r]] /\ job = [r \in Workers \cup Checkers |-> job[r]]
    BY DEF TypeInv, TypeOK
  <1> USE Roles DEF Goto
  <1>2. CASE p \in Checkers /\ CheckerStep(p)
    BY <1>1, <1>2 DEF CheckerStep, EnqueueNotice, PushFails
  <1>3. CASE p \in Workers /\ WorkerStep(p)
    <2>1. CASE ReceiveNotice(p)
      BY <1>1, <1>3, <2>1 DEF ReceiveNotice
    <2>2. CASE ~ReceiveNotice(p)
      BY <1>1, <1>3, <2>2
         DEF WorkerStep, LockNotice, GiveUpNotice, ReadMonitor, CheckHistory, SendEmail,
             NotSent, RecordNotice, SaveSignal, FinishNotice, DatabaseFails
    <2> QED
      BY <2>1, <2>2
  <1>4. CASE Crash(p)
    BY <1>1, <1>4 DEF Crash
  <1> QED
    BY <1>2, <1>3, <1>4 DEF StepOf

\* Who changes the queue.
LEMMA QueueMoves ==
  ASSUME NEW p \in Proc, StepOf(p), queue' # queue
  PROVE  \/ p \in Workers /\ queue # <<>> /\ queue' = Tail(queue)
         \/ /\ p \in Checkers /\ pc[p] = "enqueue"
            /\ queue' = Append(queue, [job[p] EXCEPT !.created = clock])
  <1> USE Roles
  <1>1. CASE p \in Checkers /\ CheckerStep(p)
    BY <1>1 DEF CheckerStep, CheckMonitor, EnqueueNotice, PushFails
  <1>2. CASE p \in Workers /\ WorkerStep(p)
    BY <1>2 DEF WorkerStep, ReceiveNotice, LockNotice, GiveUpNotice, ReadMonitor, CheckHistory,
             SendEmail, NotSent, RecordNotice, SaveSignal, FinishNotice, DatabaseFails
  <1>3. CASE p \in Editors /\ EditorStep(p)
    BY <1>3 DEF EditorStep, BeginEdit, ReadForEdit, SaveEdit, RefuseEdit, DeleteMonitor, FinishEdit
  <1>4. CASE p \in Syncers /\ SyncerStep(p)
    BY <1>4 DEF SyncerStep, FindClosed, LockClosed, GiveUpClosed, PauseClosed, FinishClosed
  <1>5. CASE Crash(p)
    BY <1>5 DEF Crash
  <1> QED
    BY <1>1, <1>2, <1>3, <1>4, <1>5 DEF StepOf

\* Notices carry a version and a candle that some row and some clock reading had.
LEMMA NoticeRangeStep ==
  TypeInv /\ RangeInv /\ [Next]_vars => NoticesInRange'
  <1> SUFFICES ASSUME TypeInv, RangeInv, [Next]_vars PROVE NoticesInRange'
    OBVIOUS
  <1>0. /\ clock \in Nat /\ clock <= MaxClock /\ MaxClock \in Nat
        /\ queue \in Seq(Message)
        /\ \A i \in 1..Len(queue) : InRange(queue[i])
        /\ \A p \in Workers \cup Checkers : pc[p] # "idle" => InRange(job[p])
    BY NoticeAssumption DEF TypeInv, TypeOK, RangeInv, NoticesInRange
  <1>1. ASSUME NEW p \in Proc, StepOf(p) PROVE NoticesInRange'
    <2>1. clock' = clock
      BY <1>1 DEF StepOf, CheckerStep, CheckMonitor, EnqueueNotice, PushFails,
             WorkerStep, ReceiveNotice, LockNotice, GiveUpNotice, ReadMonitor, CheckHistory,
             SendEmail, NotSent, RecordNotice, SaveSignal, FinishNotice, DatabaseFails,
             EditorStep, BeginEdit, ReadForEdit, SaveEdit, RefuseEdit, DeleteMonitor, FinishEdit,
             SyncerStep, FindClosed, LockClosed, GiveUpClosed, PauseClosed, FinishClosed, Crash
    <2>2. ASSUME NEW i \in 1..Len(queue)' PROVE InRange(queue'[i])
      <3>1. CASE queue' = queue
        BY <1>0, <2>2, <3>1
      <3>2. CASE queue # <<>> /\ queue' = Tail(queue)
        BY <1>0, <2>2, <3>2
      <3>3. CASE p \in Checkers /\ pc[p] = "enqueue"
                 /\ queue' = Append(queue, [job[p] EXCEPT !.created = clock])
        <4> DEFINE n == [job[p] EXCEPT !.created = clock]
        <4>1. InRange(job[p]) /\ job[p] \in Message
          BY <1>0, <3>3, Roles DEF TypeInv, PlacesOK
        <4>2. n.ver = job[p].ver /\ n.candle = job[p].candle
          BY <4>1 DEF Message
        <4>3. InRange(n) /\ n \in Message
          BY <4>1, <4>2, <1>0, MessageFields DEF InRange
        <4> HIDE DEF n
        <4>4. queue' = Append(queue, n)
          BY <3>3 DEF n
        <4>5. /\ Len(queue') = Len(queue) + 1 /\ Len(queue) \in Nat
              /\ \A j \in 1..Len(queue) : queue'[j] = queue[j]
              /\ queue'[Len(queue) + 1] = n
          BY <1>0, <4>3, <4>4, SMT
        <4>6. i \in 1..Len(queue) \/ i = Len(queue) + 1
          BY <2>2, <4>5
        <4> QED
          BY <1>0, <4>3, <4>5, <4>6
      <3> QED
        BY <1>1, <3>1, <3>2, <3>3, QueueMoves
    <2>3. ASSUME NEW q \in Workers \cup Checkers, pc'[q] # "idle" PROVE InRange(job'[q])
      <3>1. CASE q # p
        <4>1. pc'[q] = pc[q] /\ job'[q] = job[q]
          BY <1>1, <3>1, OthersAreStill DEF Still, Proc
        <4> QED
          BY <1>0, <2>3, <4>1
      <3>2. CASE q = p
        <4>1. CASE pc[p] # "idle" /\ job'[p] = job[p]
          BY <1>0, <3>2, <4>1
        <4>2. ASSUME p \in Checkers, NEW m \in Monitors, NEW reason \in Reason,
                     CheckMonitor(p, m, reason)
              PROVE  InRange(job'[p])
          <5>1. job'[p].ver = rows[m].ver /\ job'[p].candle = Candle(clock)
            BY <4>2 DEF CheckMonitor, TypeInv, TypeOK
          <5>2. rows[m].ver \in 1..MaxVersion
            BY DEF RangeInv, VersionsInRange
          <5>3. Candle(clock) \in 0..MaxClock
            BY <1>0, CandleType, CandleBound
          <5> QED
            BY <5>1, <5>2, <5>3 DEF InRange
        <4>3. CASE p \in Workers /\ queue # <<>> /\ job'[p] = Head(queue)
          <5>1. Head(queue) = queue[1] /\ 1 \in 1..Len(queue)
            BY <1>0, <4>3
          <5> QED
            BY <1>0, <3>2, <4>3, <5>1
        <4> QED
          BY <1>1, <2>3, <3>2, <4>1, <4>2, <4>3, NoticeMoves
      <3> QED
        BY <3>1, <3>2
    <2> QED
      BY <1>0, <2>1, <2>2, <2>3 DEF NoticesInRange
  <1>2. ASSUME NEW k \in Monitors, LockTimeout(k) PROVE NoticesInRange'
    BY <1>0, <1>2 DEF LockTimeout, NoticesInRange
  <1>3. CASE Tick
    <2>1. clock' <= MaxClock
      BY <1>0, <1>3 DEF Tick
    <2> QED
      BY <1>0, <1>3, <2>1 DEF Tick, NoticesInRange
  <1>4. CASE UNCHANGED vars
    BY <1>0, <1>4 DEF vars, NoticesInRange
  <1> QED
    BY <1>1, <1>2, <1>3, <1>4, NextCases

\* The numbers of a run stay within its bounds.
LEMMA RangeCorrect == Spec => []RangeInv
  <1>1. TypeInv /\ RangeInv /\ [Next]_vars => RangeInv'
    BY VersionRangeStep, NoticeRangeStep DEF RangeInv
  <1> QED
    BY <1>1, InitRange, TypeCorrect, PTL DEF Spec

\* The version a monitor is notified for, as the promise sees it.
Active == [m \in Monitors |-> IF rows[m].exists /\ rows[m].valid THEN rows[m].ver ELSE None]

LEMMA InitPromised == Init => Promise!PromiseInit
  <1> SUFFICES ASSUME Init PROVE Promise!PromiseInit
    OBVIOUS
  <1>1. \A m \in Monitors : rows[m].exists /\ rows[m].valid /\ rows[m].ver = 1
    BY DEF Init
  <1>2. Active = lastVer
    BY <1>1 DEF Init, Active
  <1>3. lastVer \in [Monitors -> 1..MaxVersion]
    BY NoticeAssumption DEF Init
  <1>4. mailed = {} /\ repeated = {} /\ unrecorded = {} /\ overrun = {}
    BY DEF Init
  <1> QED
    BY <1>2, <1>3, <1>4 DEF Promise!PromiseInit, Active

\* A step that changes the row or the newest version of one monitor only, and
\* stops the monitor or gives it a newer version, reconfigures it.
LEMMA Reconfigures ==
  ASSUME NEW m \in Monitors, TypeInv, TypeOK', VersionsInRange, VersionsInRange',
         \A k \in Monitors : k # m => rows'[k] = rows[k] /\ lastVer'[k] = lastVer[k],
         \/ ~rows'[m].exists /\ lastVer'[m] >= lastVer[m]
         \/ rows'[m].ver = lastVer'[m] /\ lastVer'[m] > lastVer[m],
         UNCHANGED <<mailed, repeated, unrecorded, overrun>>
  PROVE  Promise!Reconfigure(m)
  <1> DEFINE v == lastVer'[m]
             a == IF rows'[m].exists /\ rows'[m].valid THEN v ELSE None
  <1>0. /\ lastVer = [k \in Monitors |-> lastVer[k]] /\ lastVer' = [k \in Monitors |-> lastVer'[k]]
        /\ lastVer[m] \in Nat /\ lastVer'[m] \in Nat
    BY DEF TypeInv, TypeOK
  <1>1. v \in 1..MaxVersion /\ a \in (1..MaxVersion) \cup {None}
    BY DEF VersionsInRange
  <1>2. \/ a = None /\ v >= lastVer[m]
        \/ a = v /\ v > lastVer[m]
    <2>1. CASE ~rows'[m].exists /\ v >= lastVer[m]
      <3>1. a = None
        BY <2>1
      <3>2. v >= lastVer[m]
        BY <2>1
      <3> HIDE DEF a, v
      <3> QED
        BY <3>1, <3>2
    <2>2. CASE v > lastVer[m]
      <3>1. v >= lastVer[m]
        BY <1>0, <2>2
      <3>2. a = None \/ a = v
        OBVIOUS
      <3> HIDE DEF a, v
      <3> QED
        BY <2>2, <3>1, <3>2
    <2> QED
      BY <2>1, <2>2
  <1>3. lastVer' = [lastVer EXCEPT ![m] = v]
    BY <1>0
  <1>4. Active' = [Active EXCEPT ![m] = a]
    BY DEF Active
  <1> HIDE DEF v, a
  <1> QED
    BY <1>1, <1>2, <1>3, <1>4 DEF Promise!Reconfigure, Active
\* What an email, a fault before its record and an expired lock change.
LEMMA Emails ==
  ASSUME NEW w \in Workers, TypeInv, DeliveryInv, RangeInv, SendEmail(w)
  PROVE  \E d \in Monitors \X (1..MaxVersion) \X Reason \X (0..MaxClock) : Promise!Email(d)
  <1> DEFINE d == Digest(job[w])
  <1>0. pc[w] = "send" /\ job[w] \in Message /\ InRange(job[w])
    BY Roles DEF SendEmail, TypeInv, PlacesOK, RangeInv, NoticesInRange
  <1>1. /\ d \in Monitors \X (1..MaxVersion) \X Reason \X (0..MaxClock)
        /\ d[1] = job[w].id /\ d[2] = job[w].ver /\ job[w].id \in Monitors
    BY <1>0, MessageFields DEF Digest, InRange
  <1>2. /\ mailed' = mailed \cup {d}
        /\ repeated' = IF d \in mailed THEN repeated \cup {d} ELSE repeated
        /\ UNCHANGED <<rows, lastVer, unrecorded, overrun>>
    BY DEF SendEmail
  <1>3. d \in mailed => d \in unrecorded \/ d[1] \in overrun
    BY <1>0, SecondEmail DEF Excused
  <1>4. d[1] \notin overrun => Active[d[1]] = d[2]
    <2> SUFFICES ASSUME d[1] \notin overrun PROVE Active[d[1]] = d[2]
      OBVIOUS
    <2>1. Guarded(w) /\ pc[w] \in RowInHand
      BY <1>0, <1>1, Roles DEF Guarded, Monitor, Critical, WorkerCritical, RowInHand
    <2>2. Matches(job[w], rows[job[w].id])
      BY <2>1 DEF DeliveryInv, SeenIsCurrent
    <2> HIDE DEF d
    <2> QED
      BY <1>1, <2>2 DEF Matches, Active
  <1>5. Active' = Active
    BY <1>2 DEF Active
  <1> HIDE DEF d
  <1>6. Promise!Email(d)
    BY <1>2, <1>3, <1>4, <1>5 DEF Promise!Email, Active
  <1> QED
    BY <1>1, <1>6

\* Only a crash and a failed insert, between an email and its record, pardon it.
LEMMA Pardons ==
  ASSUME NEW p \in Proc, TypeInv, DeliveryInv, RangeInv, StepOf(p), unrecorded' # unrecorded
  PROVE  \E d \in Monitors \X (1..MaxVersion) \X Reason \X (0..MaxClock) : Promise!Pardon(d)
  <1> DEFINE d == Digest(job[p])
  <1>1. /\ p \in Workers /\ pc[p] = "record" /\ unrecorded' = unrecorded \cup {d}
        /\ UNCHANGED <<rows, lastVer, mailed, repeated, overrun>>
    <2>1. CASE Crash(p)
      BY <2>1 DEF Crash
    <2>2. CASE p \in Workers /\ DatabaseFails(p)
      BY <2>2 DEF DatabaseFails
    <2>3. CASE ~Crash(p) /\ ~(p \in Workers /\ DatabaseFails(p))
      <3> HIDE DEF d
      <3> QED
        BY <2>3 DEF StepOf, CheckerStep, CheckMonitor, EnqueueNotice, PushFails,
             WorkerStep, ReceiveNotice, LockNotice, GiveUpNotice, ReadMonitor, CheckHistory,
             SendEmail, NotSent, RecordNotice, SaveSignal, FinishNotice,
             EditorStep, BeginEdit, ReadForEdit, SaveEdit, RefuseEdit, DeleteMonitor, FinishEdit,
             SyncerStep, FindClosed, LockClosed, GiveUpClosed, PauseClosed, FinishClosed
    <2> QED
      BY <2>1, <2>2, <2>3
  <1>2. job[p] \in Message /\ InRange(job[p]) /\ d \in mailed
    BY <1>1, Roles DEF TypeInv, PlacesOK, RangeInv, NoticesInRange, DeliveryInv, MailIsAccountedFor
  <1>3. d \in Monitors \X (1..MaxVersion) \X Reason \X (0..MaxClock)
    BY <1>2, MessageFields DEF Digest, InRange
  <1> HIDE DEF d
  <1>4. Active' = Active
    BY <1>1 DEF Active
  <1>5. Promise!Pardon(d)
    BY <1>1, <1>2, <1>4 DEF Promise!Pardon, Active
  <1> QED
    BY <1>3, <1>5

\* Every step of the protocol is a step of the promise.
LEMMA StepPromised ==
  TypeInv /\ TypeInv' /\ DeliveryInv /\ DeliveryInv' /\ RangeInv /\ RangeInv' /\ [Next]_vars
    => [Promise!PromiseNext]_(Promise!promiseVars)
  <1> SUFFICES ASSUME TypeInv, TypeInv', DeliveryInv, DeliveryInv', RangeInv, RangeInv', [Next]_vars
               PROVE  [Promise!PromiseNext]_(Promise!promiseVars)
    OBVIOUS
  <1> DEFINE Goal == [Promise!PromiseNext]_(Promise!promiseVars)
  <1>0. /\ rows \in [Monitors -> Row] /\ lastVer \in [Monitors -> Nat]
        /\ rows' \in [Monitors -> Row] /\ lastVer' \in [Monitors -> Nat]
    BY DEF TypeInv, TypeOK
  <1>s. Active' = Active /\ UNCHANGED <<lastVer, mailed, repeated, unrecorded, overrun>> => Goal
    BY DEF Promise!promiseVars, Active
  <1>r. ASSUME NEW m \in Monitors,
               \A k \in Monitors : k # m => rows'[k] = rows[k] /\ lastVer'[k] = lastVer[k],
               \/ ~rows'[m].exists /\ lastVer'[m] >= lastVer[m]
               \/ rows'[m].ver = lastVer'[m] /\ lastVer'[m] > lastVer[m],
               UNCHANGED <<mailed, repeated, unrecorded, overrun>>
        PROVE  Goal
    BY <1>r, Reconfigures DEF Promise!PromiseNext, RangeInv, TypeInv
  <1> HIDE DEF Goal
  <1>1. ASSUME NEW p \in Proc, StepOf(p) PROVE Goal
    <2> USE Roles DEF Monitor
    <2>1. ASSUME rows' # rows \/ lastVer' # lastVer PROVE Goal
      <3>1. PICK m \in Monitors : rows'[m] # rows[m] \/ lastVer'[m] # lastVer[m]
        <4>1. /\ rows = [m \in Monitors |-> rows[m]] /\ lastVer = [m \in Monitors |-> lastVer[m]]
              /\ rows' = [m \in Monitors |-> rows'[m]]
              /\ lastVer' = [m \in Monitors |-> lastVer'[m]]
          BY <1>0
        <4> QED
          BY <2>1, <4>1
      <3>2. /\ Monitor(p) = m
            /\ \/ p \in Workers /\ SaveSignal(p)
               \/ p \in Editors /\ (SaveEdit(p) \/ DeleteMonitor(p))
               \/ p \in Syncers /\ PauseClosed(p)
        BY <1>1, <3>1, RowMoves
      <3>3. \A k \in Monitors : k # m => rows'[k] = rows[k] /\ lastVer'[k] = lastVer[k]
        BY <1>1, <3>2, RowMoves
      <3>4. UNCHANGED <<mailed, repeated, unrecorded, overrun>>
        BY <3>2 DEF SaveSignal, SaveEdit, DeleteMonitor, PauseClosed
      <3>5. CASE p \in Workers /\ SaveSignal(p)
        <4>1. \A k \in Monitors : /\ rows'[k].exists = rows[k].exists /\ rows'[k].ver = rows[k].ver
                                  /\ rows'[k].valid = rows[k].valid
          BY <1>0, <3>2, <3>5 DEF SaveSignal, Row
        <4>2. Active' = Active /\ lastVer' = lastVer
          BY <3>5, <4>1 DEF Active, SaveSignal
        <4> QED
          BY <1>s, <3>4, <4>2
      <3>6. CASE p \in Editors /\ SaveEdit(p)
        <4>1. lastVer'[m] = lastVer[m] + 1 /\ lastVer[m] \in Nat
          BY <1>0, <3>2, <3>6 DEF SaveEdit
        <4>2. lastVer'[m] > lastVer[m] /\ lastVer'[m] >= lastVer[m]
          BY <4>1
        <4>3. rows'[m].exists => rows'[m].ver = lastVer'[m]
          BY DEF DeliveryInv, NoLostEdit
        <4> QED
          BY <1>r, <3>3, <3>4, <4>2, <4>3
      <3>7. CASE p \in Editors /\ DeleteMonitor(p)
        <4>1. lastVer'[m] = lastVer[m] /\ lastVer[m] \in Nat
          BY <1>0, <3>2, <3>7 DEF DeleteMonitor
        <4>2. lastVer'[m] >= lastVer[m]
          BY <4>1
        <4>3. ~rows'[m].exists
          BY <1>0, <3>2, <3>7 DEF DeleteMonitor, Row
        <4> QED
          BY <1>r, <3>3, <3>4, <4>2, <4>3
      <3>8. CASE p \in Syncers /\ PauseClosed(p)
        <4>1. lastVer'[m] = lastVer[m] + 1 /\ lastVer[m] \in Nat
          BY <1>0, <3>1, <3>2, <3>8 DEF PauseClosed
        <4>2. lastVer'[m] > lastVer[m] /\ lastVer'[m] >= lastVer[m]
          BY <4>1
        <4>3. rows'[m].exists => rows'[m].ver = lastVer'[m]
          BY DEF DeliveryInv, NoLostEdit
        <4> QED
          BY <1>r, <3>3, <3>4, <4>2, <4>3
      <3> QED
        BY <3>2, <3>5, <3>6, <3>7, <3>8
    <2>2. ASSUME UNCHANGED <<rows, lastVer>> PROVE Goal
      <3>1. Active' = Active /\ lastVer' = lastVer /\ overrun' = overrun
        BY <1>1, <2>2, LockMoves DEF Active
      <3>2. CASE p \in Workers /\ SendEmail(p)
        BY <3>2, Emails DEF Promise!PromiseNext, Goal
      <3>3. CASE unrecorded' # unrecorded
        BY <1>1, <3>3, Pardons DEF Promise!PromiseNext, Goal
      <3>4. CASE ~(p \in Workers /\ SendEmail(p)) /\ unrecorded' = unrecorded
        <4>1. mailed' = mailed /\ repeated' = repeated
          BY <1>1, <3>4, RowMoves
        <4> QED
          BY <1>s, <3>1, <3>4, <4>1
      <3> QED
        BY <3>2, <3>3, <3>4
    <2> QED
      BY <2>1, <2>2
  <1>2. ASSUME NEW m \in Monitors, LockTimeout(m) PROVE Goal
    <2>1. /\ overrun' = overrun \/ overrun' = overrun \cup {m}
          /\ UNCHANGED <<rows, lastVer, mailed, repeated, unrecorded>>
      BY <1>2 DEF LockTimeout
    <2>2. Active' = Active
      BY <2>1 DEF Active
    <2>3. CASE overrun' = overrun \cup {m}
      <3>1. Promise!Suspend(m)
        BY <2>1, <2>2, <2>3 DEF Promise!Suspend, Active
      <3> QED
        BY <3>1 DEF Promise!PromiseNext, Goal
    <2> QED
      BY <1>s, <2>1, <2>2, <2>3
  <1>3. ASSUME Tick \/ UNCHANGED vars PROVE Goal
    <2>1. UNCHANGED <<rows, lastVer, mailed, repeated, unrecorded, overrun>>
      BY <1>3 DEF Tick, vars
    <2>2. Active' = Active
      BY <2>1 DEF Active
    <2> QED
      BY <1>s, <2>1, <2>2
  <1>4. Goal
    BY <1>1, <1>2, <1>3, NextCases
  <1> QED
    BY <1>4 DEF Goal

\* The notification path implements NoticePromise, for any number of consumers,
\* checkers, requests and closures: whatever crashes, expiries and failed inserts
\* do, an email goes to the version the monitor has at that moment and once per
\* digest, unless a fault pardoned it or a holder outlived the lock.
THEOREM PromiseKept == Spec => NoticePromised
  <1> QED
    BY InitPromised, StepPromised, TypeCorrect, DeliveryCorrect, RangeCorrect, PTL
       DEF Spec, NoticePromised, Promise!PromiseSpec
=============================================================================
