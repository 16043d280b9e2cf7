---------------------------- MODULE MonitorNotice ----------------------------
(***************************************************************************)
(* The life of a monitor notification: a scheduled check reads the active  *)
(* monitors and queues a notice, an amf_msg consumer delivers it by email, *)
(* while API requests edit, pause or remove the same monitors and the spot *)
(* synchronisation pauses monitors whose position was closed.              *)
(*                                                                         *)
(* Source: business/monitor.py, business/market.py (SymbolHandle),         *)
(* business/spot_holdings.py (pause_closed_monitors), models/user.py,      *)
(* msgqueue/tasks/strategy.py (check), msgqueue/tasks/sms.py,              *)
(* business/mail_serve.py, msgqueue/queue.py, amf_consumers.py.            *)
(*                                                                         *)
(* One step of this module is the code between two awaits that let another *)
(* process run.  A consumer acknowledges a message before it handles it,   *)
(* so a crash loses the message; a lock held by a crashed process stays in *)
(* Redis until its 120 seconds are over; a live holder can overrun them.   *)
(***************************************************************************)
EXTENDS Integers, Sequences, FiniteSets

CONSTANTS
  Monitors,    \* ids of monitor rows; an id is never used twice (AutoField)
  Workers,     \* coroutines that run deliver_monitor_notice
  Checkers,    \* coroutines that run the scheduled checks
  Editors,     \* API requests in flight in the web process
  Syncers,     \* coroutines inside pause_closed_monitors
  BuyModels,   \* keys of the models with an entry rule
  SpotModel,   \* the model key of every new sell monitor
  SellReasons, \* take_profit and stop_loss
  None,        \* no process, no message, no row, no signal yet
  Dead,        \* the owner of a lock whose holder crashed
  HourTicks,   \* length of an hourly candle in clock ticks (3600 s)
  MaxAge,      \* ticks after which a notice is too old (180 s)
  MaxClock,    \* bound: the clock stops here
  MaxVersion,  \* bound: configuration versions of one monitor
  MaxQueue,    \* bound: messages waiting in amf_msg
  MaxFaults    \* bound: crashes and failed database calls in the middle of a task

Proc == Workers \cup Checkers \cup Editors \cup Syncers

ASSUME NoticeAssumption ==
  /\ Workers \cap (Checkers \cup Editors \cup Syncers) = {}
  /\ Checkers \cap (Editors \cup Syncers) = {}
  /\ Editors \cap Syncers = {}
  /\ None \notin Proc /\ Dead \notin Proc /\ None # Dead
  /\ None \notin Monitors \cup BuyModels \cup SellReasons
  /\ SpotModel \notin BuyModels
  /\ BuyModels \cap SellReasons = {}
  /\ HourTicks \in Nat \ {0}
  /\ MaxAge \in Nat /\ MaxClock \in Nat /\ MaxQueue \in Nat /\ MaxFaults \in Nat
  /\ MaxVersion \in Nat \ {0}

VARIABLES
  rows,       \* symbol_plot_table
  lastVer,    \* the newest config_version given to each monitor
  history,    \* email_msg_history_table: the digests recorded as sent
  mailed,     \* ghost: the digests the SMTP server accepted at least once
  repeated,   \* ghost: the digests it accepted more than once
  unrecorded, \* ghost: digests mailed but not recorded: a crash or a failed insert
  queue,      \* the amf_msg queue
  lock,       \* lock_monitor:{id} in Redis
  overrun,    \* ghost: monitors whose lock once expired under a live holder
  pc,         \* where each process is
  job,        \* the notice a checker builds or a worker delivers
  at,         \* the monitor an editor or syncer works on
  seen,       \* the row a process has read
  clock,      \* wall clock in ticks
  faults      \* number of faults so far

dataVars  == <<rows, lastVer, history>>
ghostVars == <<mailed, repeated, unrecorded>>
lockVars  == <<lock, overrun>>
vars == <<rows, lastVer, history, mailed, repeated, unrecorded, queue, lock,
          overrun, pc, job, at, seen, clock, faults>>

Reason == BuyModels \cup SellReasons

\* What validate_config accepts: a buy monitor with an entry model, or a spot sell.
Config == [dir : {"buy"}, model : BuyModels] \cup [dir : {"sell"}, model : {SpotModel}]
\* Sell monitors saved before spot monitoring existed keep a strategy model.
LegacyConfig == [dir : {"sell"}, model : BuyModels]

Row == [exists : BOOLEAN, valid : BOOLEAN, cfg : Config \cup LegacyConfig,
        ver : Nat, signal : Reason \cup {None}]

Message == [id : Monitors, ver : Nat, dir : {"buy", "sell"}, reason : Reason,
            candle : Nat, created : Nat]

Candle(t) == t \div HourTicks

\* The md5 input of enqueue_monitor_notice; symbol, user and direction are
\* determined by the monitor and the version.
Digest(n) == <<n.id, n.ver, n.reason, n.candle>>
Digests == Monitors \X Nat \X Reason \X Nat

\* Line 103 and line 111: older than MaxAge, or another hourly candle.
Stale(n) == clock - n.created > MaxAge \/ n.candle # Candle(clock)

\* Mutant: the row query without config_version.
MatchesAnyVersion(n, r) == r.exists /\ r.valid /\ r.cfg.dir = n.dir

\* The row query of deliver_monitor_notice.
Matches(n, r) == r.exists /\ r.valid /\ r.ver = n.ver /\ r.cfg.dir = n.dir

\* A reason a row of this configuration can be notified for.
ReasonFits(r, reason) ==
  \/ r.cfg.dir = "buy" /\ reason = r.cfg.model
  \/ r.cfg = [dir |-> "sell", model |-> SpotModel] /\ reason \in SellReasons

\* Places inside "async with monitor_lock(...)".
WorkerCritical == {"read", "dedupe", "send", "record", "save", "release"}
RowInHand == {"dedupe", "send", "record", "save"}  \* after the row query succeeded
EditorCritical == {"edit_read", "edit_save", "edit_release"}
SyncerCritical == {"close", "close_release"}
Critical == WorkerCritical \cup EditorCritical \cup SyncerCritical

\* The monitor whose lock a process works under.
Monitor(p) == IF p \in Workers THEN job[p].id ELSE at[p]

-----------------------------------------------------------------------------
Init ==
  /\ rows \in [Monitors -> {[exists |-> TRUE, valid |-> TRUE, cfg |-> c, ver |-> 1,
                             signal |-> None] : c \in Config \cup LegacyConfig}]
  /\ lastVer = [m \in Monitors |-> 1]
  /\ history = {} /\ mailed = {} /\ repeated = {} /\ unrecorded = {}
  /\ queue = <<>>
  /\ lock = [m \in Monitors |-> None]
  /\ overrun = {}
  /\ pc = [p \in Proc |-> "idle"]
  /\ job = [p \in Workers \cup Checkers |-> None]
  /\ at = [p \in Editors \cup Syncers |-> None]
  /\ seen = [p \in Workers \cup Editors \cup Syncers |-> None]
  /\ clock = 0
  /\ faults = 0

-----------------------------------------------------------------------------
(* The lock of one monitor, shared by deliveries, edits and closures.       *)

Goto(p, place) == pc' = [pc EXCEPT ![p] = place]

\* Mutants of TakeLock: the key as token; SET without NX.
TakeLockByKey(p, m) == lock[m] = None /\ lock' = [lock EXCEPT ![m] = m] /\ UNCHANGED overrun
TakeLockAnyway(p, m) == lock' = [lock EXCEPT ![m] = p] /\ UNCHANGED overrun

TakeLock(p, m) == lock[m] = None /\ lock' = [lock EXCEPT ![m] = p] /\ UNCHANGED overrun

\* lock.release() compares the token: after an expiry it raises and leaves
\* the lock of the next owner alone.
DropLock(p, m) ==
  /\ lock' = [lock EXCEPT ![m] = IF @ = p THEN None ELSE @]
  /\ UNCHANGED overrun

\* Mutant: a lock without expiry.
LockTimeoutNever(m) ==
  /\ lock[m] # None /\ lock[m] # Dead
  /\ lock' = [lock EXCEPT ![m] = None]
  /\ overrun' = overrun \cup {m}
  /\ UNCHANGED <<dataVars, ghostVars, queue, pc, job, at, seen, clock, faults>>

\* The 120 seconds of a lock are over.  A live holder goes on unaware.
LockTimeout(m) ==
  /\ lock[m] # None
  /\ lock' = [lock EXCEPT ![m] = None]
  /\ overrun' = IF lock[m] = Dead THEN overrun ELSE overrun \cup {m}
  /\ UNCHANGED <<dataVars, ghostVars, queue, pc, job, at, seen, clock, faults>>

-----------------------------------------------------------------------------
(* Scheduled checks: check_monitor_prices and StrategyCheckHandle.check.    *)

\* An active row is read and one of its conditions is found to hold.
CheckMonitor(c, m, reason) ==
  /\ pc[c] = "idle"
  /\ rows[m].exists /\ rows[m].valid
  /\ ReasonFits(rows[m], reason)
  /\ job' = [job EXCEPT ![c] = [id |-> m, ver |-> rows[m].ver, dir |-> rows[m].cfg.dir,
                                reason |-> reason, candle |-> Candle(clock),
                                created |-> clock]]
  /\ Goto(c, "enqueue")
  /\ UNCHANGED <<dataVars, ghostVars, queue, lockVars, at, seen, clock, faults>>

\* Mutant: the history is written when the notice is queued.
EnqueueRecorded(c) ==
  /\ pc[c] = "enqueue"
  /\ \/ Digest(job[c]) \in history /\ UNCHANGED <<queue, history>>
     \/ /\ Digest(job[c]) \notin history
        /\ Len(queue) < MaxQueue
        /\ queue' = Append(queue, [job[c] EXCEPT !.created = clock])
        /\ history' = history \cup {Digest(job[c])}
  /\ job' = [job EXCEPT ![c] = None]
  /\ Goto(c, "idle")
  /\ UNCHANGED <<rows, lastVer, ghostVars, lockVars, at, seen, clock, faults>>

\* enqueue_monitor_notice with the row read earlier: a recorded digest is
\* dropped, otherwise the notice is stamped and pushed.
EnqueueNotice(c) ==
  /\ pc[c] = "enqueue"
  /\ \/ Digest(job[c]) \in history /\ UNCHANGED queue
     \/ /\ Digest(job[c]) \notin history
        /\ Len(queue) < MaxQueue
        /\ queue' = Append(queue, [job[c] EXCEPT !.created = clock])
  /\ job' = [job EXCEPT ![c] = None]
  /\ Goto(c, "idle")
  /\ UNCHANGED <<dataVars, ghostVars, lockVars, at, seen, clock, faults>>

\* push_msg(strict=True) raises: the check ends, the next run tries again.
PushFails(c) ==
  /\ pc[c] = "enqueue"
  /\ Digest(job[c]) \notin history
  /\ job' = [job EXCEPT ![c] = None]
  /\ Goto(c, "idle")
  /\ UNCHANGED <<dataVars, ghostVars, queue, lockVars, at, seen, clock, faults>>

-----------------------------------------------------------------------------
(* Delivery: QueueConsumer.run, sms.send_email, deliver_monitor_notice.     *)

\* Get and acknowledge the next notice; a stale one is discarded at once.
ReceiveNotice(w) ==
  /\ pc[w] = "idle"
  /\ queue # <<>>
  /\ queue' = Tail(queue)
  /\ IF Stale(Head(queue))
       THEN UNCHANGED <<job, pc>>
       ELSE job' = [job EXCEPT ![w] = Head(queue)] /\ Goto(w, "lock")
  /\ UNCHANGED <<dataVars, ghostVars, lockVars, at, seen, clock, faults>>

LockNotice(w) ==
  /\ pc[w] = "lock"
  /\ TakeLock(w, job[w].id)
  /\ Goto(w, "read")
  /\ UNCHANGED <<dataVars, ghostVars, queue, job, at, seen, clock, faults>>

\* Five seconds without the lock (or, for a sell, without the lock of the
\* spot synchronisation): the exception ends the task, the notice is gone.
GiveUpNotice(w) ==
  /\ pc[w] = "lock"
  /\ lock[job[w].id] # None \/ job[w].dir = "sell"
  /\ job' = [job EXCEPT ![w] = None]
  /\ Goto(w, "idle")
  /\ UNCHANGED <<dataVars, ghostVars, queue, lockVars, at, seen, clock, faults>>

\* Mutant: the queued notice is trusted; only a removed row stops it.
ReadMonitorTrusting(w) ==
  /\ pc[w] = "read"
  /\ LET r == rows[job[w].id] IN
       IF Stale(job[w]) \/ ~r.exists
         THEN Goto(w, "release") /\ UNCHANGED seen
         ELSE Goto(w, "dedupe") /\ seen' = [seen EXCEPT ![w] = r]
  /\ UNCHANGED <<dataVars, ghostVars, queue, lockVars, job, at, clock, faults>>

\* Under the lock: age again, then the row query.
ReadMonitor(w) ==
  /\ pc[w] = "read"
  /\ LET r == rows[job[w].id] IN
       IF Stale(job[w]) \/ ~Matches(job[w], r)
         THEN Goto(w, "release") /\ UNCHANGED seen
         ELSE Goto(w, "dedupe") /\ seen' = [seen EXCEPT ![w] = r]
  /\ UNCHANGED <<dataVars, ghostVars, queue, lockVars, job, at, clock, faults>>

\* Mutant: the history is only consulted when the notice is queued.
CheckHistoryNever(w) ==
  /\ pc[w] = "dedupe"
  /\ Goto(w, "send")
  /\ UNCHANGED <<dataVars, ghostVars, queue, lockVars, job, at, seen, clock, faults>>

CheckHistory(w) ==
  /\ pc[w] = "dedupe"
  /\ Goto(w, IF Digest(job[w]) \in history THEN "release" ELSE "send")
  /\ UNCHANGED <<dataVars, ghostVars, queue, lockVars, job, at, seen, clock, faults>>

\* send_email returned True.
SendEmail(w) ==
  /\ pc[w] = "send"
  /\ ReasonFits(seen[w], job[w].reason)
  /\ mailed' = mailed \cup {Digest(job[w])}
  /\ repeated' = IF Digest(job[w]) \in mailed THEN repeated \cup {Digest(job[w])} ELSE repeated
  /\ Goto(w, "record")
  /\ UNCHANGED <<dataVars, unrecorded, queue, lockVars, job, at, seen, clock, faults>>

\* Mutant: the result of send_email is ignored.
NotSentRecorded(w) ==
  /\ pc[w] = "send"
  /\ Goto(w, "record")
  /\ UNCHANGED <<dataVars, ghostVars, queue, lockVars, job, at, seen, clock, faults>>

\* No recipient, no eligible position, a reason that does not fit, the rate
\* limit, or an SMTP error: nothing is recorded.
NotSent(w) ==
  /\ pc[w] = "send"
  /\ Goto(w, "release")
  /\ UNCHANGED <<dataVars, ghostVars, queue, lockVars, job, at, seen, clock, faults>>

\* msg_md5 is unique: a second insert raises and the row is not saved.
RecordNotice(w) ==
  /\ pc[w] = "record"
  /\ history' = history \cup {Digest(job[w])}
  /\ Goto(w, IF Digest(job[w]) \in history THEN "release" ELSE "save")
  /\ UNCHANGED <<rows, lastVer, ghostVars, queue, lockVars, job, at, seen, clock, faults>>

\* Mutant: aio_save() without only_save_dirty writes every column as it was read.
SaveWholeRow(w) ==
  /\ pc[w] = "save"
  /\ rows' = [rows EXCEPT ![job[w].id] =
                IF @.exists THEN [seen[w] EXCEPT !.signal = job[w].reason] ELSE @]
  /\ Goto(w, "release")
  /\ UNCHANGED <<lastVer, history, ghostVars, queue, lockVars, job, at, seen, clock, faults>>

\* row.aio_save() writes the columns assigned since the row was read
\* (Base.Meta.only_save_dirty): the last signal.
SaveSignal(w) ==
  /\ pc[w] = "save"
  /\ rows' = [rows EXCEPT ![job[w].id] =
                IF @.exists THEN [@ EXCEPT !.signal = job[w].reason] ELSE @]
  /\ Goto(w, "release")
  /\ UNCHANGED <<lastVer, history, ghostVars, queue, lockVars, job, at, seen, clock, faults>>

FinishNotice(w) ==
  /\ pc[w] = "release"
  /\ DropLock(w, job[w].id)
  /\ job' = [job EXCEPT ![w] = None]
  /\ seen' = [seen EXCEPT ![w] = None]
  /\ Goto(w, "idle")
  /\ UNCHANGED <<dataVars, ghostVars, queue, at, clock, faults>>

-----------------------------------------------------------------------------
(* API requests: SymbolHandle.update_monitor and delete_symbol.             *)

BeginEdit(e, m) ==
  /\ pc[e] = "idle"
  /\ TakeLock(e, m)
  /\ at' = [at EXCEPT ![e] = m]
  /\ Goto(e, "edit_read")
  /\ UNCHANGED <<dataVars, ghostVars, queue, job, seen, clock, faults>>

\* get_owned_monitor under the lock.
ReadForEdit(e) ==
  /\ pc[e] = "edit_read"
  /\ IF rows[at[e]].exists
       THEN Goto(e, "edit_save") /\ seen' = [seen EXCEPT ![e] = rows[at[e]]]
       ELSE Goto(e, "edit_release") /\ UNCHANGED seen
  /\ UNCHANGED <<dataVars, ghostVars, queue, lockVars, job, at, clock, faults>>

\* Mutant: the last signal is reset with the configuration.
ReconfiguredReset(r, c, v, version) ==
  [exists |-> r.exists, valid |-> v, cfg |-> c, ver |-> version, signal |-> None]

Reconfigured(r, c, v, version) ==
  [exists |-> r.exists, valid |-> v, cfg |-> c, ver |-> version, signal |-> r.signal]

\* What an edit assigns and saves, None for a column it leaves alone: pausing
\* writes is_valid only, every other edit a configuration validate_config accepts.
\* config_version is always fresh.
SaveEdit(e) ==
  /\ pc[e] = "edit_save"
  /\ lastVer[at[e]] < MaxVersion
  /\ \E c \in Config \cup {None}, v \in BOOLEAN \cup {None} :
       /\ c = None => v = FALSE
       /\ \/ c \notin {None, seen[e].cfg} \/ v \notin {None, seen[e].valid}
          \/ c # None /\ c.dir = "sell"   \* other prices
       /\ rows' = [rows EXCEPT ![at[e]] =
                     IF @.exists
                       THEN Reconfigured(@, IF c = None THEN @.cfg ELSE c,
                                         IF v = None THEN @.valid ELSE v, lastVer[at[e]] + 1)
                       ELSE @]
  /\ lastVer' = [lastVer EXCEPT ![at[e]] = @ + 1]
  /\ Goto(e, "edit_release")
  /\ UNCHANGED <<history, ghostVars, queue, lockVars, job, at, seen, clock, faults>>

\* A request that is refused (validation, position) or that changes nothing.
RefuseEdit(e) ==
  /\ pc[e] = "edit_save"
  /\ Goto(e, "edit_release")
  /\ UNCHANGED <<dataVars, ghostVars, queue, lockVars, job, at, seen, clock, faults>>

DeleteMonitor(e) ==
  /\ pc[e] = "edit_save"
  /\ rows' = [rows EXCEPT ![at[e]].exists = FALSE]
  /\ Goto(e, "edit_release")
  /\ UNCHANGED <<lastVer, history, ghostVars, queue, lockVars, job, at, seen, clock, faults>>

FinishEdit(e) ==
  /\ pc[e] = "edit_release"
  /\ DropLock(e, at[e])
  /\ at' = [at EXCEPT ![e] = None]
  /\ seen' = [seen EXCEPT ![e] = None]
  /\ Goto(e, "idle")
  /\ UNCHANGED <<dataVars, ghostVars, queue, job, clock, faults>>

-----------------------------------------------------------------------------
(* pause_closed_monitors: compare and set on the version read before.       *)

FindClosed(s, m) ==
  /\ pc[s] = "idle"
  /\ rows[m].exists /\ rows[m].valid
  /\ rows[m].cfg = [dir |-> "sell", model |-> SpotModel]
  /\ at' = [at EXCEPT ![s] = m]
  /\ seen' = [seen EXCEPT ![s] = rows[m]]
  /\ Goto(s, "close_lock")
  /\ UNCHANGED <<dataVars, ghostVars, queue, lockVars, job, clock, faults>>

LockClosed(s) ==
  /\ pc[s] = "close_lock"
  /\ TakeLock(s, at[s])
  /\ Goto(s, "close")
  /\ UNCHANGED <<dataVars, ghostVars, queue, job, at, seen, clock, faults>>

GiveUpClosed(s) ==
  /\ pc[s] = "close_lock"
  /\ lock[at[s]] # None
  /\ at' = [at EXCEPT ![s] = None]
  /\ seen' = [seen EXCEPT ![s] = None]
  /\ Goto(s, "idle")
  /\ UNCHANGED <<dataVars, ghostVars, queue, lockVars, job, clock, faults>>

PauseClosed(s) ==
  /\ pc[s] = "close"
  /\ LET m == at[s]
         current == rows[m].exists /\ rows[m].valid /\ rows[m].ver = seen[s].ver IN
       \/ /\ current /\ lastVer[m] < MaxVersion
          /\ rows' = [rows EXCEPT ![m] = Reconfigured(@, @.cfg, FALSE, lastVer[m] + 1)]
          /\ lastVer' = [lastVer EXCEPT ![m] = @ + 1]
       \/ (~current \/ lastVer[m] >= MaxVersion) /\ UNCHANGED <<rows, lastVer>>
  /\ Goto(s, "close_release")
  /\ UNCHANGED <<history, ghostVars, queue, lockVars, job, at, seen, clock, faults>>

FinishClosed(s) ==
  /\ pc[s] = "close_release"
  /\ DropLock(s, at[s])
  /\ at' = [at EXCEPT ![s] = None]
  /\ seen' = [seen EXCEPT ![s] = None]
  /\ Goto(s, "idle")
  /\ UNCHANGED <<dataVars, ghostVars, queue, job, clock, faults>>

-----------------------------------------------------------------------------
(* Faults and time.                                                         *)

\* The process of p stops and is restarted: what it held in memory is gone,
\* its Redis lock is not.
Crash(p) ==
  /\ pc[p] # "idle"
  /\ faults < MaxFaults
  /\ faults' = faults + 1
  /\ Goto(p, "idle")
  /\ lock' = [m \in Monitors |-> IF lock[m] = p THEN Dead ELSE lock[m]]
  /\ unrecorded' = IF p \in Workers /\ pc[p] = "record"
                     THEN unrecorded \cup {Digest(job[p])} ELSE unrecorded
  /\ job' = [q \in Workers \cup Checkers |-> IF q = p THEN None ELSE job[q]]
  /\ at' = [q \in Editors \cup Syncers |-> IF q = p THEN None ELSE at[q]]
  /\ seen' = [q \in Workers \cup Editors \cup Syncers |-> IF q = p THEN None ELSE seen[q]]
  /\ UNCHANGED <<dataVars, mailed, repeated, queue, overrun, clock>>

\* A database call of the delivery raises: the lock is released, the rest is lost.
DatabaseFails(w) ==
  /\ pc[w] \in {"read", "dedupe", "record", "save"}
  /\ faults < MaxFaults
  /\ faults' = faults + 1
  /\ unrecorded' = IF pc[w] = "record" THEN unrecorded \cup {Digest(job[w])} ELSE unrecorded
  /\ Goto(w, "release")
  /\ UNCHANGED <<dataVars, mailed, repeated, queue, lockVars, job, at, seen, clock>>

Tick ==
  /\ clock < MaxClock
  /\ clock' = clock + 1
  /\ UNCHANGED <<dataVars, ghostVars, queue, lockVars, pc, job, at, seen, faults>>

-----------------------------------------------------------------------------
CheckerStep(c) ==
  \/ \E m \in Monitors, reason \in Reason : CheckMonitor(c, m, reason)
  \/ EnqueueNotice(c)
  \/ PushFails(c)

WorkerStep(w) ==
  \/ ReceiveNotice(w) \/ LockNotice(w) \/ GiveUpNotice(w)
  \/ ReadMonitor(w) \/ CheckHistory(w) \/ SendEmail(w) \/ NotSent(w)
  \/ RecordNotice(w) \/ SaveSignal(w) \/ FinishNotice(w) \/ DatabaseFails(w)

EditorStep(e) ==
  \/ \E m \in Monitors : BeginEdit(e, m)
  \/ ReadForEdit(e) \/ SaveEdit(e) \/ RefuseEdit(e) \/ DeleteMonitor(e)
  \/ FinishEdit(e)

SyncerStep(s) ==
  \/ \E m \in Monitors : FindClosed(s, m)
  \/ LockClosed(s) \/ GiveUpClosed(s) \/ PauseClosed(s) \/ FinishClosed(s)

Next ==
  \/ \E c \in Checkers : CheckerStep(c)
  \/ \E w \in Workers : WorkerStep(w)
  \/ \E e \in Editors : EditorStep(e)
  \/ \E s \in Syncers : SyncerStep(s)
  \/ \E m \in Monitors : LockTimeout(m)
  \/ \E p \in Proc : Crash(p)
  \/ Tick

Spec == Init /\ [][Next]_vars

(***************************************************************************)
(* Fairness: the event loops run what they have (weak), the scheduler      *)
(* checks every monitor again and again, Redis expires the lock of a dead  *)
(* holder, and the broker, the SMTP server and the lock let a retried call *)
(* through at last (strong).  Requests, closures, crashes and time are not *)
(* fair.                                                                   *)
(***************************************************************************)
Fairness ==
  /\ \A c \in Checkers :
       /\ \A m \in Monitors, reason \in Reason : SF_vars(CheckMonitor(c, m, reason))
       /\ WF_vars(pc[c] = "enqueue" /\ (EnqueueNotice(c) \/ PushFails(c)))
       /\ SF_vars(EnqueueNotice(c))
  /\ \A w \in Workers :
       /\ WF_vars(WorkerStep(w))
       /\ SF_vars(LockNotice(w))
       /\ SF_vars(SendEmail(w))
  /\ \A e \in Editors :
       /\ WF_vars(ReadForEdit(e))
       /\ WF_vars(SaveEdit(e) \/ RefuseEdit(e) \/ DeleteMonitor(e))
       /\ WF_vars(FinishEdit(e))
  /\ \A s \in Syncers : WF_vars(LockClosed(s) \/ GiveUpClosed(s)) /\ WF_vars(PauseClosed(s))
                        /\ WF_vars(FinishClosed(s))
  /\ \A m \in Monitors : WF_vars(lock[m] = Dead /\ LockTimeout(m))

FairSpec == Spec /\ Fairness

-----------------------------------------------------------------------------
(* Properties.                                                              *)

TypeOK ==
  /\ rows \in [Monitors -> Row]
  /\ lastVer \in [Monitors -> Nat]
  /\ history \subseteq Digests /\ mailed \subseteq Digests
  /\ repeated \subseteq Digests /\ unrecorded \subseteq Digests
  /\ queue \in Seq(Message)
  /\ lock \in [Monitors -> Proc \cup {None, Dead}]
  /\ overrun \subseteq Monitors
  /\ pc \in [Proc -> {"idle", "enqueue", "lock", "close_lock"} \cup Critical]
  /\ job \in [Workers \cup Checkers -> Message \cup {None}]
  /\ at \in [Editors \cup Syncers -> Monitors \cup {None}]
  /\ seen \in [Workers \cup Editors \cup Syncers -> Row \cup {None}]
  /\ clock \in Nat
  /\ faults \in Nat

\* What a process holds at each place.
PlacesOK ==
  /\ \A c \in Checkers : /\ pc[c] \in {"idle", "enqueue"}
                         /\ pc[c] # "idle" => job[c] \in Message
  /\ \A w \in Workers : /\ pc[w] \in {"idle", "lock"} \cup WorkerCritical
                        /\ pc[w] # "idle" => job[w] \in Message
                        /\ pc[w] \in RowInHand => seen[w] \in Row
  /\ \A e \in Editors : /\ pc[e] \in {"idle"} \cup EditorCritical
                        /\ pc[e] # "idle" => at[e] \in Monitors
                        /\ pc[e] = "edit_save" => seen[e] \in Row
  /\ \A s \in Syncers : /\ pc[s] \in {"idle", "close_lock"} \cup SyncerCritical
                        /\ pc[s] # "idle" => at[s] \in Monitors /\ seen[s] \in Row

\* One email per digest: deliver_monitor_notice consults the history under the
\* monitor's lock and records after sending, so a second email for the same
\* monitor, version, reason and candle needs a fault between the SMTP reply and
\* the insert, or a delivery that outlived the lock's 120 seconds.
Excused(d) == d \in unrecorded \/ d[1] \in overrun
NoRepeatedEmail == \A d \in repeated : Excused(d)

\* "A paused/deleted/edited queued notice is discarded": whoever is about to
\* send delivers for the row as it is now, whatever edits, pauses, removals and
\* closures happened since the notice was queued, unless a holder outlived the lock.
SendsForCurrentConfig ==
  \A w \in Workers :
    pc[w] = "send" /\ job[w].id \notin overrun => Matches(job[w], rows[job[w].id])

\* The history never suppresses a notice nobody received: every recorded digest
\* was accepted by the SMTP server first.
RecordedWasMailed == history \subseteq mailed

\* No edit is undone: whatever deliveries, edits and closures write back, even
\* after a lock was outlived, a monitor keeps its newest configuration version.
NoLostEdit == \A m \in Monitors : rows[m].exists => rows[m].ver = lastVer[m]

\* No save forgets the last signal of a monitor: an edit or a closure keeps
\* last_signal_reason.
SignalNotForgotten ==
  [][\A m \in Monitors : rows[m].signal # None => rows'[m].signal # None]_vars

(* The inductive invariant behind the properties above. *)

\* A monitor no holder outlived: everything its lock protects is as intended.
Guarded(p) == pc[p] \in Critical /\ Monitor(p) \notin overrun

CriticalOwnsLock == \A p \in Proc : Guarded(p) => lock[Monitor(p)] = p

SeenIsCurrent ==
  /\ \A w \in Workers : Guarded(w) /\ pc[w] \in RowInHand =>
       seen[w] = rows[job[w].id] /\ Matches(job[w], seen[w])
  /\ \A e \in Editors : Guarded(e) /\ pc[e] = "edit_save" =>
       seen[e] = rows[at[e]] /\ seen[e].exists

SendIsUnrecorded ==
  \A w \in Workers : Guarded(w) /\ pc[w] = "send" => Digest(job[w]) \notin history

MailIsAccountedFor ==
  /\ \A d \in mailed : \/ d \in history \/ Excused(d)
                       \/ \E w \in Workers : pc[w] = "record" /\ Digest(job[w]) = d
  /\ \A w \in Workers : pc[w] = "record" => Digest(job[w]) \in mailed

\* The delivery protocol as a whole: while no lock was outlived, the process in
\* the critical section owns the lock, holds the current row, and every email is
\* either recorded or about to be.
DeliveryInv ==
  /\ CriticalOwnsLock /\ SeenIsCurrent /\ SendIsUnrecorded /\ MailIsAccountedFor
  /\ RecordedWasMailed /\ NoRepeatedEmail /\ NoLostEdit

\* Every step of the notification path is a step NoticePromise allows: emails go
\* to the active version only, once, and versions never come back.
Promise == INSTANCE NoticePromise WITH
  Versions  <- 1..MaxVersion,
  Digests   <- Monitors \X (1..MaxVersion) \X Reason \X (0..MaxClock),
  NoVersion <- None,
  newest    <- lastVer,
  active    <- [m \in Monitors |->
                  IF rows[m].exists /\ rows[m].valid THEN rows[m].ver ELSE None],
  sent      <- mailed,
  again     <- repeated,
  pardoned  <- unrecorded,
  suspended <- overrun
NoticePromised == Promise!PromiseSpec

\* Every lock is released or expires, so no monitor becomes uneditable.
LocksAreFreed == \A m \in Monitors : lock[m] # None ~> lock[m] = None

\* A condition that goes on holding is reported before its candle ends, unless
\* the monitor is edited, paused or removed; requests and closures stop at some
\* point, time stops in that candle.
Quiet == \A p \in Editors \cup Syncers : pc[p] = "idle"
Reported(m, reason) ==
  \/ ~rows[m].exists \/ ~rows[m].valid \/ ~ReasonFits(rows[m], reason)
  \/ <<m, rows[m].ver, reason, Candle(clock)>> \in mailed
ConditionIsReported ==
  <>[]Quiet => \A m \in Monitors, reason \in Reason : []<>Reported(m, reason)
=============================================================================
