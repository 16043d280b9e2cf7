------------------------------ MODULE SpotSync ------------------------------
(***************************************************************************)
(* The spot synchronisation and the sell monitors that depend on it: the   *)
(* account snapshot in Redis, the closure that pauses a monitor whose      *)
(* position is gone, and the API edits that activate a sell monitor only   *)
(* for a position the snapshot shows.                                      *)
(*                                                                         *)
(* Source: business/spot_holdings.py, business/market.py (update_monitor), *)
(* business/monitor.py (monitor_lock).                                     *)
(*                                                                         *)
(* A step is the code between two awaits.  config_version is a uuid4: only *)
(* its difference from the versions somebody still compares with matters,  *)
(* so a fresh version is any number nobody holds.                          *)
(***************************************************************************)
EXTENDS Integers, FiniteSets

CONSTANTS
  Monitors,  \* spot monitor rows of root, one symbol each
  Callers,   \* checks, deliveries and refreshes that call sync_spot_holdings
  Editors,   \* update_monitor requests in flight
  Sync,      \* the lock lock_monitor_spot_sync:root
  None, Dead,
  MinGap,    \* ticks between two attempts (25 s)
  MaxAge,    \* ticks a snapshot and its prices stay fresh (MAX_AGE)
  MaxClock,  \* bound: the clock stops here
  MaxFaults, \* bound: crashes and outlived locks
  Outlivable \* bound: the locks a live holder may outlive

Proc == Callers \cup Editors
Locks == Monitors \cup {Sync}

ASSUME SyncAssumption ==
  /\ Callers \cap Editors = {}
  /\ Sync \notin Monitors /\ None \notin Proc \cup Monitors /\ Dead \notin Proc \cup {None}
  /\ None \notin BOOLEAN /\ None \notin {"buy", "sell"} /\ None \notin Monitors \X Nat
  /\ MinGap \in Nat /\ MaxAge \in Nat /\ MaxClock \in Nat /\ MaxFaults \in Nat
  /\ IsFiniteSet(Proc) /\ Outlivable \subseteq Locks

VARIABLES
  balance,  \* what the account holds at the exchange
  snap,     \* the snapshot in Redis
  rows,     \* the monitors
  lock,     \* Redis locks
  pc,       \* where each process is
  back,     \* where a process goes on after sync_spot_holdings
  draft,    \* the snapshot a process is building
  todo,     \* the monitors it still has to close, with the versions it read
  closing,  \* the one it is closing now
  request,  \* what an edit asks for, and the monitor
  target,   \* the columns an edit is about to save
  clock,
  asked,    \* ghost: when the exchange was last asked for the account
  slipped,  \* ghost: sell monitors activated without the synchronisation lock
  outlived, \* ghost: locks that once expired under a live holder
  faults    \* crashes and outlived locks so far

syncVars == <<back, draft, todo, closing>>
editVars == <<request, target>>
vars == <<balance, snap, rows, lock, pc, back, draft, todo, closing, request, target,
          clock, asked, slipped, outlived, faults>>

\* A position is gone or worth at least min_holding_usdt.
Balance == {"none", "enough"}
\* A position worth less, or a pair that is not traded in USDT, is neither
\* evidence of a closure nor enough for a sell monitor.
Seen == Balance \cup {"unclear"}

Versions == 0..(Cardinality(Proc) + 1)
Row == [dir : {"buy", "sell"}, valid : BOOLEAN, ver : Versions]
Snapshot == [status : {"pending", "ok", "error"}, held : [Monitors -> Seen],
             attempt : Int, updated : Int, priced : Int \cup {None}]
Request == [id : Monitors, dir : {"keep", "buy", "sell"}, valid : {"keep", "on", "off"},
            locked : BOOLEAN]

Active(r) == r.dir = "sell" /\ r.valid

\* A uuid nobody holds.
FreshVersion(m) ==
  CHOOSE v \in Versions : v # rows[m].ver /\ \A p \in Proc : <<m, v>> \notin todo[p] \cup {closing[p]}

\* read_snapshot and position: fresh, listed, priced and worth enough.
Eligible(m) ==
  /\ snap.status = "ok" /\ clock - snap.updated <= MaxAge
  /\ snap.held[m] = "enough"
  /\ snap.priced # None /\ clock - snap.priced <= MaxAge

Goto(p, place) == pc' = [pc EXCEPT ![p] = place]

-----------------------------------------------------------------------------
Init ==
  /\ balance \in [Monitors -> Balance]
  /\ snap = [status |-> "pending", held |-> [m \in Monitors |-> "unclear"],
             attempt |-> -MinGap, updated |-> 0, priced |-> None]
  /\ rows \in [Monitors -> [dir : {"buy", "sell"}, valid : BOOLEAN, ver : {0}]]
  /\ lock = [l \in Locks |-> None]
  /\ pc = [p \in Proc |-> "idle"]
  /\ back = [p \in Proc |-> "idle"]
  /\ draft = [p \in Proc |-> None]
  /\ todo = [p \in Proc |-> {}]
  /\ closing = [p \in Proc |-> None]
  /\ request = [e \in Editors |-> None]
  /\ target = [e \in Editors |-> None]
  /\ clock = 0 /\ asked = -MinGap
  /\ slipped = {} /\ outlived = {}
  /\ faults = 0

-----------------------------------------------------------------------------
(* sync_spot_holdings and pause_closed_monitors.                            *)

\* A check, a delivery or a refresh calls sync_spot_holdings.
StartSync(p) ==
  /\ pc[p] = "idle" /\ p \in Callers
  /\ Goto(p, "sync")
  /\ UNCHANGED <<balance, snap, rows, lock, syncVars, editVars, clock, asked, slipped, outlived,
                 faults>>

\* Mutant: the synchronisation does not wait for its lock.
LockSyncAnyway(p) ==
  /\ pc[p] = "sync"
  /\ lock' = [lock EXCEPT ![Sync] = p]
  /\ Goto(p, "look")
  /\ UNCHANGED <<balance, snap, rows, syncVars, editVars, clock, asked, slipped, outlived,
                 faults>>

LockSync(p) ==
  /\ pc[p] = "sync"
  /\ lock[Sync] = None
  /\ lock' = [lock EXCEPT ![Sync] = p]
  /\ Goto(p, "look")
  /\ UNCHANGED <<balance, snap, rows, syncVars, editVars, clock, asked, slipped, outlived,
                 faults>>

\* Five seconds without the lock: the exception ends the task or the request.
GiveUpSync(p) ==
  /\ pc[p] \in {"sync", "edit_sync"}
  /\ lock[Sync] # None
  /\ Goto(p, "idle")
  /\ back' = [back EXCEPT ![p] = "idle"]
  /\ request' = [e \in Editors |-> IF e = p THEN None ELSE request[e]]
  /\ UNCHANGED <<balance, snap, rows, lock, draft, todo, closing, target, clock, asked,
                 slipped, outlived, faults>>

\* Mutant: the attempt is not stamped before the exchange is asked.
LookWithoutStamp(p) ==
  /\ pc[p] = "look"
  /\ IF clock - snap.attempt < MinGap
       THEN Goto(p, "sync_release") /\ UNCHANGED <<draft, asked>>
       ELSE draft' = [draft EXCEPT ![p] = snap] /\ asked' = clock /\ Goto(p, "fetch")
  /\ UNCHANGED <<balance, snap, rows, lock, back, todo, closing, editVars, clock, slipped,
                 outlived, faults>>

\* A recent attempt is returned as it is; otherwise the account is asked for.
LookAtSnapshot(p) ==
  /\ pc[p] = "look"
  /\ IF clock - snap.attempt < MinGap
       THEN Goto(p, "sync_release") /\ UNCHANGED <<draft, asked>>
       ELSE /\ draft' = [draft EXCEPT ![p] = [snap EXCEPT !.attempt = clock]]
            /\ asked' = clock
            /\ Goto(p, "fetch")
  /\ UNCHANGED <<balance, snap, rows, lock, back, todo, closing, editVars, clock, slipped,
                 outlived, faults>>

\* Mutant: the prices of the previous snapshot are kept.
FetchKeepingPrices(p, clear) ==
  /\ pc[p] = "fetch"
  /\ draft' = [draft EXCEPT ![p] =
                  [status |-> "ok", attempt |-> @.attempt, updated |-> clock, priced |-> @.priced,
                   held |-> [m \in Monitors |-> IF m \in clear THEN balance[m] ELSE "unclear"]]]
  /\ Goto(p, "price")
  /\ UNCHANGED <<balance, snap, rows, lock, back, todo, closing, editVars, clock, asked,
                 slipped, outlived, faults>>

\* Exchange metadata and account: old prices are dropped with the old balances.
FetchBalances(p, clear) ==
  /\ pc[p] = "fetch"
  /\ draft' = [draft EXCEPT ![p] =
                  [status |-> "ok", attempt |-> @.attempt, updated |-> clock, priced |-> None,
                   held |-> [m \in Monitors |-> IF m \in clear THEN balance[m] ELSE "unclear"]]]
  /\ Goto(p, "price")
  /\ UNCHANGED <<balance, snap, rows, lock, back, todo, closing, editVars, clock, asked,
                 slipped, outlived, faults>>

\* Mutants: an unknown status; the exception leaves the synchronisation at once.
FetchFailsOddly(p) ==
  /\ pc[p] = "fetch"
  /\ draft' = [draft EXCEPT ![p].status = "failed"]
  /\ Goto(p, "publish")
  /\ UNCHANGED <<balance, snap, rows, lock, back, todo, closing, editVars, clock, asked,
                 slipped, outlived, faults>>
FetchRaises(p) ==
  /\ pc[p] = "fetch"
  /\ draft' = [draft EXCEPT ![p] = None]
  /\ Goto(p, "idle")
  /\ UNCHANGED <<balance, snap, rows, lock, back, todo, closing, editVars, clock, asked,
                 slipped, outlived, faults>>

\* The exchange fails or answers something else: the previous data with status
\* error.
FetchFails(p) ==
  /\ pc[p] = "fetch"
  /\ draft' = [draft EXCEPT ![p].status = "error"]
  /\ Goto(p, "publish")
  /\ UNCHANGED <<balance, snap, rows, lock, back, todo, closing, editVars, clock, asked,
                 slipped, outlived, faults>>

\* Valuation is optional: a failure leaves the snapshot without prices.
FetchPrices(p) ==
  /\ pc[p] = "price"
  /\ \/ draft' = [draft EXCEPT ![p].priced = clock]
     \/ UNCHANGED draft
  /\ Goto(p, "select")
  /\ UNCHANGED <<balance, snap, rows, lock, back, todo, closing, editVars, clock, asked,
                 slipped, outlived, faults>>

\* Active sell monitors whose listed base asset is gone.
SelectClosed(p) ==
  /\ pc[p] = "select"
  /\ todo' = [todo EXCEPT ![p] = {<<m, rows[m].ver>> :
                m \in {k \in Monitors : Active(rows[k]) /\ draft[p].held[k] = "none"}}]
  /\ Goto(p, "close")
  /\ UNCHANGED <<balance, snap, rows, lock, back, draft, closing, editVars, clock, asked,
                 slipped, outlived, faults>>

LockClosed(p) ==
  /\ pc[p] = "close"
  /\ \E c \in todo[p] :
       /\ lock[c[1]] = None
       /\ lock' = [lock EXCEPT ![c[1]] = p]
       /\ closing' = [closing EXCEPT ![p] = c]
       /\ todo' = [todo EXCEPT ![p] = @ \ {c}]
  /\ Goto(p, "pause")
  /\ UNCHANGED <<balance, snap, rows, back, draft, editVars, clock, asked, slipped, outlived, faults>>

\* Mutant: a monitor that is being edited is skipped.
SkipClosed(p) ==
  /\ pc[p] = "close"
  /\ \E c \in todo[p] : lock[c[1]] # None /\ todo' = [todo EXCEPT ![p] = @ \ {c}]
  /\ UNCHANGED <<balance, snap, rows, lock, pc, back, draft, closing, editVars, clock, asked,
                 slipped, outlived, faults>>

\* The lock of one monitor is not to be had: the whole attempt is an error.
GiveUpClosed(p) ==
  /\ pc[p] = "close"
  /\ \E c \in todo[p] : lock[c[1]] # None
  /\ todo' = [todo EXCEPT ![p] = {}]
  /\ draft' = [draft EXCEPT ![p].status = "error"]
  /\ Goto(p, "publish")
  /\ UNCHANGED <<balance, snap, rows, lock, back, closing, editVars, clock, asked, slipped,
                 outlived, faults>>

\* Mutant: the closure updates whatever version it finds.
PauseAnyVersion(p) ==
  /\ pc[p] = "pause"
  /\ LET m == closing[p][1] IN
       /\ rows' = [rows EXCEPT ![m] = [dir |-> @.dir, valid |-> FALSE, ver |-> FreshVersion(m)]]
       /\ slipped' = slipped \ {m}
       /\ lock' = [lock EXCEPT ![m] = IF @ = p THEN None ELSE @]
  /\ closing' = [closing EXCEPT ![p] = None]
  /\ Goto(p, "close")
  /\ UNCHANGED <<balance, snap, back, draft, todo, editVars, clock, asked, outlived, faults>>

\* UPDATE ... WHERE config_version is the one read, then the lock is released.
PauseClosed(p) ==
  /\ pc[p] = "pause"
  /\ LET m == closing[p][1] IN
       /\ IF rows[m].ver = closing[p][2] /\ rows[m].valid
            THEN /\ rows' = [rows EXCEPT ![m] =
                               [dir |-> @.dir, valid |-> FALSE, ver |-> FreshVersion(m)]]
                 /\ slipped' = slipped \ {m}
            ELSE UNCHANGED <<rows, slipped>>
       /\ lock' = [lock EXCEPT ![m] = IF @ = p THEN None ELSE @]
  /\ closing' = [closing EXCEPT ![p] = None]
  /\ Goto(p, "close")
  /\ UNCHANGED <<balance, snap, back, draft, todo, editVars, clock, asked, outlived, faults>>

ClosureDone(p) ==
  /\ pc[p] = "close" /\ todo[p] = {}
  /\ Goto(p, "publish")
  /\ UNCHANGED <<balance, snap, rows, lock, syncVars, editVars, clock, asked, slipped, outlived,
                 faults>>

PublishSnapshot(p) ==
  /\ pc[p] = "publish"
  /\ snap' = draft[p]
  /\ draft' = [draft EXCEPT ![p] = None]
  /\ Goto(p, "sync_release")
  /\ UNCHANGED <<balance, rows, lock, back, todo, closing, editVars, clock, asked, slipped,
                 outlived, faults>>

ReleaseSync(p) ==
  /\ pc[p] = "sync_release"
  /\ lock' = [lock EXCEPT ![Sync] = IF @ = p THEN None ELSE @]
  /\ Goto(p, back[p])
  /\ back' = [back EXCEPT ![p] = "idle"]
  /\ UNCHANGED <<balance, snap, rows, draft, todo, closing, editVars, clock, asked, slipped,
                 outlived, faults>>

-----------------------------------------------------------------------------
(* update_monitor.  Pausing alone never needs the position.                  *)

PauseOnly(q) == q.dir = "keep" /\ q.valid = "off"

\* The row is read before any lock to see whether this is a sell request.
BeginEdit(e, m, dir, valid) ==
  /\ pc[e] = "idle"
  /\ LET ask == [id |-> m, dir |-> dir, valid |-> valid]
         sell == IF dir = "keep" THEN rows[m].dir = "sell" ELSE dir = "sell"
         locked == sell /\ ~PauseOnly(ask) IN
       /\ request' = [request EXCEPT ![e] =
                        [id |-> m, dir |-> dir, valid |-> valid, locked |-> locked]]
       /\ Goto(e, IF locked THEN "sync" ELSE "edit_lock")
       /\ back' = [back EXCEPT ![e] = IF locked THEN "edit_sync" ELSE "idle"]
  /\ UNCHANGED <<balance, snap, rows, lock, draft, todo, closing, target, clock, asked,
                 slipped, outlived, faults>>

\* Nobody synchronises between the position check and the save.
LockEditSync(e) ==
  /\ pc[e] = "edit_sync"
  /\ lock[Sync] = None
  /\ lock' = [lock EXCEPT ![Sync] = e]
  /\ Goto(e, "edit_lock")
  /\ UNCHANGED <<balance, snap, rows, syncVars, editVars, clock, asked, slipped, outlived,
                 faults>>

LockEdit(e) ==
  /\ pc[e] = "edit_lock"
  /\ lock[request[e].id] = None
  /\ lock' = [lock EXCEPT ![request[e].id] = e]
  /\ Goto(e, "edit_read")
  /\ UNCHANGED <<balance, snap, rows, syncVars, editVars, clock, asked, slipped, outlived,
                 faults>>

GiveUpEdit(e) ==
  /\ pc[e] = "edit_lock"
  /\ lock[request[e].id] # None
  /\ Goto(e, "edit_release")
  /\ UNCHANGED <<balance, snap, rows, lock, syncVars, editVars, clock, asked, slipped,
                 outlived, faults>>

\* The columns a request assigns, None for one it leaves alone.
Assigned(r, q) ==
  [dir   |-> IF PauseOnly(q) THEN None ELSE IF q.dir = "keep" THEN r.dir ELSE q.dir,
   valid |-> IF q.valid = "keep" THEN None ELSE q.valid = "on"]

Merged(r, new, version) ==
  [dir   |-> IF new.dir = None THEN r.dir ELSE new.dir,
   valid |-> IF new.valid = None THEN r.valid ELSE new.valid,
   ver   |-> version]

\* Resuming an active monitor, and selling without an eligible position, are refused.
Accepted(r, q) ==
  \/ PauseOnly(q)
  \/ /\ q.dir = "keep" /\ q.valid = "on" => ~r.valid
     /\ Assigned(r, q).dir = "sell" => Eligible(q.id)

\* Under the locks: read the row again, merge the request, check the position.
ReadForEdit(e) ==
  /\ pc[e] = "edit_read"
  /\ LET q == request[e]
         r == rows[q.id]
         new == Assigned(r, q)
         changed == Merged(r, new, r.ver) # r \/ new.dir = "sell" IN  \* other prices
       IF Accepted(r, q) /\ changed
         THEN Goto(e, "edit_save") /\ target' = [target EXCEPT ![e] = new]
         ELSE Goto(e, "edit_release") /\ UNCHANGED target
  /\ UNCHANGED <<balance, snap, rows, lock, syncVars, request, clock, asked, slipped,
                 outlived, faults>>

\* Only the assigned columns and a fresh config_version are written.
SaveEdit(e) ==
  /\ pc[e] = "edit_save"
  /\ LET m == request[e].id
         saved == Merged(rows[m], target[e], FreshVersion(m)) IN
       /\ rows' = [rows EXCEPT ![m] = saved]
       /\ slipped' = IF Active(saved) /\ ~request[e].locked
                       THEN slipped \cup {m} ELSE slipped \ {m}
  /\ Goto(e, "edit_release")
  /\ UNCHANGED <<balance, snap, lock, syncVars, editVars, clock, asked, outlived, faults>>

FinishEdit(e) ==
  /\ pc[e] = "edit_release"
  /\ lock' = [l \in Locks |-> IF lock[l] = e THEN None ELSE lock[l]]
  /\ request' = [request EXCEPT ![e] = None]
  /\ target' = [target EXCEPT ![e] = None]
  /\ Goto(e, "idle")
  /\ UNCHANGED <<balance, snap, rows, syncVars, clock, asked, slipped, outlived, faults>>

-----------------------------------------------------------------------------
(* The account, faults and time.                                            *)

\* The owner of the account trades.
Trade(m) ==
  /\ \E b \in Balance \ {balance[m]} : balance' = [balance EXCEPT ![m] = b]
  /\ UNCHANGED <<snap, rows, lock, pc, syncVars, editVars, clock, asked, slipped, outlived,
                 faults>>

\* A lock is over after 120 seconds; a live holder goes on unaware.
LockTimeout(l) ==
  /\ lock[l] # None
  /\ lock' = [lock EXCEPT ![l] = None]
  /\ \/ lock[l] = Dead /\ UNCHANGED <<outlived, faults>>
     \/ /\ lock[l] # Dead /\ l \in Outlivable /\ faults < MaxFaults
        /\ faults' = faults + 1
        /\ outlived' = outlived \cup {l}
  /\ UNCHANGED <<balance, snap, rows, pc, syncVars, editVars, clock, asked, slipped>>

Crash(p) ==
  /\ pc[p] # "idle"
  /\ faults < MaxFaults
  /\ faults' = faults + 1
  /\ Goto(p, "idle")
  /\ lock' = [l \in Locks |-> IF lock[l] = p THEN Dead ELSE lock[l]]
  /\ back' = [back EXCEPT ![p] = "idle"]
  /\ draft' = [draft EXCEPT ![p] = None]
  /\ todo' = [todo EXCEPT ![p] = {}]
  /\ closing' = [closing EXCEPT ![p] = None]
  /\ request' = [e \in Editors |-> IF e = p THEN None ELSE request[e]]
  /\ target' = [e \in Editors |-> IF e = p THEN None ELSE target[e]]
  /\ UNCHANGED <<balance, snap, rows, clock, asked, slipped, outlived>>

Tick ==
  /\ clock < MaxClock
  /\ clock' = clock + 1
  /\ UNCHANGED <<balance, snap, rows, lock, pc, syncVars, editVars, asked, slipped, outlived,
                 faults>>

-----------------------------------------------------------------------------
SyncStep(p) ==
  \/ LockSync(p) \/ GiveUpSync(p) \/ LookAtSnapshot(p)
  \/ \E clear \in SUBSET Monitors : FetchBalances(p, clear)
  \/ FetchFails(p) \/ FetchPrices(p) \/ SelectClosed(p) \/ LockClosed(p) \/ GiveUpClosed(p)
  \/ PauseClosed(p) \/ ClosureDone(p) \/ PublishSnapshot(p) \/ ReleaseSync(p)

EditStep(e) ==
  \/ LockEditSync(e) \/ LockEdit(e) \/ GiveUpEdit(e) \/ ReadForEdit(e) \/ SaveEdit(e)
  \/ FinishEdit(e)

Next ==
  \/ \E c \in Callers : StartSync(c)
  \/ \E p \in Proc : SyncStep(p)
  \/ \E e \in Editors : EditStep(e)
  \/ \E e \in Editors, m \in Monitors, dir \in {"keep", "buy", "sell"},
        valid \in {"keep", "on", "off"} : BeginEdit(e, m, dir, valid)
  \/ \E m \in Monitors : Trade(m)
  \/ \E l \in Locks : LockTimeout(l)
  \/ \E p \in Proc : Crash(p)
  \/ Tick

Spec == Init /\ [][Next]_vars

(***************************************************************************)
(* Fairness: tasks run on (weak), the price check calls the                *)
(* synchronisation every 20 seconds, and the lock, the exchange and the    *)
(* row locks let a repeated attempt through at last (strong).              *)
(***************************************************************************)
Fairness ==
  /\ \A c \in Callers :
       /\ WF_vars(StartSync(c))
       /\ SF_vars(LockSync(c))
       /\ SF_vars(FetchBalances(c, Monitors))
       /\ SF_vars(LockClosed(c))
  /\ \A p \in Proc : WF_vars(SyncStep(p))
  /\ \A e \in Editors : WF_vars(EditStep(e))
  /\ \A l \in Locks : WF_vars(lock[l] = Dead /\ LockTimeout(l))

FairSpec == Spec /\ Fairness

-----------------------------------------------------------------------------
(* Properties.                                                              *)

TypeOK ==
  /\ balance \in [Monitors -> Balance]
  /\ snap \in Snapshot
  /\ rows \in [Monitors -> Row]
  /\ lock \in [Locks -> Proc \cup {None, Dead}]
  /\ pc \in [Proc -> {"idle", "sync", "look", "fetch", "price", "select", "close", "pause",
                      "publish", "sync_release", "edit_sync", "edit_lock", "edit_read",
                      "edit_save", "edit_release"}]
  /\ back \in [Proc -> {"idle", "edit_sync"}]
  /\ draft \in [Proc -> Snapshot \cup {None}]
  /\ todo \in [Proc -> SUBSET (Monitors \X Versions)]
  /\ closing \in [Proc -> (Monitors \X Versions) \cup {None}]
  /\ request \in [Editors -> Request \cup {None}]
  /\ target \in [Editors -> [dir : {"buy", "sell", None}, valid : BOOLEAN \cup {None}]
                            \cup {None}]
  /\ clock \in Nat /\ asked \in Int
  /\ slipped \subseteq Monitors /\ outlived \subseteq Locks
  /\ faults \in Nat

\* "Persist closure before making the new snapshot available to API edits": a
\* published snapshot that shows a position as gone leaves no active sell monitor
\* of it behind.
ClosedInSnapshot(m) == snap.status = "ok" /\ snap.held[m] = "none" /\ Active(rows[m])
ClosurePersistedFirst == outlived = {} => \A m \in Monitors : ~ClosedInSnapshot(m)

\* The same, but for monitors an edit activated without the synchronisation lock,
\* which update_monitor decides from the row it read before taking any lock.
PublishedClosure == outlived = {} => \A m \in Monitors \ slipped : ~ClosedInSnapshot(m)

\* "never reuse old prices": a usable snapshot values its balances with prices
\* fetched after them.
PricesFollowBalances ==
  snap.status = "ok" /\ snap.priced # None => snap.priced >= snap.updated

\* A later snapshot never shows an older account, unless the synchronisation lock
\* was outlived.
SnapshotsInOrder ==
  [][Sync \notin outlived /\ snap.status # "pending" => snap'.updated >= snap.updated]_vars

\* The account is asked for at most once in MinGap, by all processes together,
\* failed attempts included; a crash loses the record of its attempt.
AttemptsSpaced ==
  [][faults = 0 /\ (\E p \in Proc : pc[p] = "look" /\ pc'[p] = "fetch") =>
       clock - asked >= MinGap]_vars

\* A closure never pauses a monitor that has become a buy monitor since it was
\* selected: only an edit stops a buy monitor.
BuyStoppedByEdit ==
  [][\A m \in Monitors :
       rows[m].dir = "buy" /\ rows[m].valid /\ ~rows'[m].valid =>
         \E e \in Editors : pc[e] = "edit_save" /\ request[e].id = m /\ pc'[e] # pc[e]]_vars

\* A position that is gone for good stops its sell monitor for good, whatever
\* edits slipped in, once requests stop.
ClosedIsPaused ==
  \A m \in Monitors :
    <>[](balance[m] = "none" /\ \A e \in Editors : pc[e] = "idle") => <>[]~Active(rows[m])
=============================================================================
