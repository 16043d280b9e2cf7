---------------------------- MODULE MonitorList ----------------------------
(***************************************************************************)
(* The list of monitors: add_symbol and delete_symbol                      *)
(* (business/market.py), from requests that overlap wherever a handler     *)
(* awaits.  A buy monitor is added under the lock of its owner; a sell     *)
(* monitor, which only root may have, also under the lock of the           *)
(* synchronisation, which publishes positions and pauses what was sold.    *)
(*                                                                         *)
(* Locks are leases of 120 seconds in Redis: one may end under a request   *)
(* that is still at work.                                                  *)
(***************************************************************************)
EXTENDS Integers, FiniteSets

CONSTANTS
    Requests,   \* requests in flight at one time
    Owners,     \* the users; "root" is one of them
    Symbols,
    New,        \* bound: the monitors that are asked for, [owner, symbol, sell]
    Quota,      \* 3: monitors of one user
    MaxIds,     \* bound: rows ever created
    MaxLost     \* bound: leases that end under their request

VARIABLES
    monitors,   \* the rows of symbol_plot_table: [id, owner, symbol, sell]
    lastId,     \* AutoField: ids are not used again
    held,       \* the symbols with an eligible position in the snapshot
    lock,       \* per lock: the request that has it, Free, or Gone after a restart
    adding,     \* per request: what it does, and where it waits
    outlived    \* ghost: leases that ended under a living request

listVars == <<monitors, lastId, held, lock, adding, outlived>>

Free == "free"
Gone == "gone"
Sync == "lock_monitor_spot_sync"
Locks == Owners \cup {Sync}

(* The values the constants may have: locks are told from requests and     *)
(* from one another by their keys.  The proofs suppose it, and Parts       *)
(* assumes it of its instance.                                             *)
ListAssumption ==
    /\ IsFiniteSet(Requests) /\ Free \notin Requests /\ Gone \notin Requests
    /\ Sync \notin Owners
    /\ Quota \in Nat /\ MaxIds \in Nat /\ MaxLost \in Nat
    /\ New \subseteq [owner : Owners, symbol : Symbols, sell : BOOLEAN]

NoRequest == [at |-> "idle"]
Row(id, new) == [id |-> id, owner |-> new.owner, symbol |-> new.symbol, sell |-> new.sell, valid |-> TRUE]

Init ==
    /\ monitors = {} /\ lastId = 0
    /\ held \in {{}, Symbols}
    /\ lock = [l \in Locks |-> Free]
    /\ adding = [r \in Requests |-> NoRequest]
    /\ outlived = 0

Of(owner) == {m \in monitors : m.owner = owner}
Goto(r, place) == adding' = [adding EXCEPT ![r].at = place]

(* Whoever is not root asks for a sell monitor in vain.                    *)
AskToAdd(r, new) ==
    /\ adding[r] = NoRequest
    /\ new.sell => new.owner = "root"
    /\ adding' = [adding EXCEPT ![r] = [at |-> IF new.sell THEN "sync" ELSE "lock", new |-> new]]
    /\ UNCHANGED <<monitors, lastId, held, lock, outlived>>

Take(r, l, from, to) ==
    /\ adding[r].at = from
    /\ lock[l] = Free
    /\ lock' = [lock EXCEPT ![l] = r]
    /\ Goto(r, to)
    /\ UNCHANGED <<monitors, lastId, held, outlived>>

(* Mutant: a sell monitor is added under the lock of its owner alone.      *)
LockSyncNever(r) ==
    /\ adding[r].at = "sync"
    /\ Goto(r, "lock")
    /\ UNCHANGED <<monitors, lastId, held, lock, outlived>>

LockSync(r) == Take(r, Sync, "sync", "lock")

LockOwner(r) ==
    /\ adding[r].at = "lock"
    /\ Take(r, adding[r].new.owner, "lock", "look")

(* Five seconds passed without the lock: the request is refused, and what  *)
(* it has is released behind it.                                           *)
GiveUp(r) ==
    /\ adding[r].at \in {"sync", "lock"}
    /\ Goto(r, "release")
    /\ UNCHANGED <<monitors, lastId, held, lock, outlived>>

(* require_position, then the query for the symbol.                        *)
LookForSymbol(r) ==
    /\ adding[r].at = "look"
    /\ LET new == adding[r].new
           refused == \/ new.sell /\ new.symbol \notin held
                      \/ \E m \in Of(new.owner) : m.symbol = new.symbol
       IN  Goto(r, IF refused THEN "release" ELSE IF new.owner = "root" THEN "create" ELSE "count")
    /\ UNCHANGED <<monitors, lastId, held, lock, outlived>>

CountSymbols(r) ==
    /\ adding[r].at = "count"
    /\ Goto(r, IF Cardinality(Of(adding[r].new.owner)) >= Quota THEN "release" ELSE "create")
    /\ UNCHANGED <<monitors, lastId, held, lock, outlived>>

(* The unique index of owner and symbol refuses what the query missed.     *)
CreateRow(r) ==
    /\ adding[r].at = "create"
    /\ LET new == adding[r].new
       IN  IF \E m \in Of(new.owner) : m.symbol = new.symbol
           THEN UNCHANGED <<monitors, lastId>>
           ELSE /\ lastId < MaxIds
                /\ lastId' = lastId + 1
                /\ monitors' = monitors \cup {Row(lastId', new)}
    /\ Goto(r, "release")
    /\ UNCHANGED <<held, lock, outlived>>

(* Releasing a lock whose lease ended raises, and leaves it to its holder. *)
Release(r) ==
    /\ adding[r].at = "release"
    /\ lock' = [l \in Locks |-> IF lock[l] = r THEN Free ELSE lock[l]]
    /\ adding' = [adding EXCEPT ![r] = NoRequest]
    /\ UNCHANGED <<monitors, lastId, held, outlived>>

(* delete_symbol: the row is looked up by id and owner, and deleted by id. *)
AskToDelete(r, m) ==
    /\ adding[r] = NoRequest
    /\ adding' = [adding EXCEPT ![r] = [at |-> "delete", id |-> m.id]]
    /\ UNCHANGED <<monitors, lastId, held, lock, outlived>>

DeleteRow(r) ==
    /\ adding[r].at = "delete"
    /\ monitors' = {m \in monitors : m.id # adding[r].id}
    /\ adding' = [adding EXCEPT ![r] = NoRequest]
    /\ UNCHANGED <<lastId, held, lock, outlived>>

(* A synchronisation, as far as requests see it: under its lock it pauses  *)
(* the sell monitors whose position is gone and publishes the snapshot.    *)
SpotSync(now) ==
    /\ lock[Sync] = Free
    /\ held' = now
    /\ monitors' = {IF m.sell /\ m.symbol \notin now THEN [m EXCEPT !.valid = FALSE] ELSE m : m \in monitors}
    /\ UNCHANGED <<lastId, lock, adding, outlived>>

LeaseEnds(l) ==
    /\ lock[l] # Free
    /\ IF lock[l] = Gone THEN UNCHANGED outlived
       ELSE outlived < MaxLost /\ outlived' = outlived + 1
    /\ lock' = [lock EXCEPT ![l] = Free]
    /\ UNCHANGED <<monitors, lastId, held, adding>>

(* The web process restarts: its requests are gone, its locks are not.     *)
Restart ==
    /\ adding' = [r \in Requests |-> NoRequest]
    /\ lock' = [l \in Locks |-> IF lock[l] = Free THEN Free ELSE Gone]
    /\ adding # adding'
    /\ UNCHANGED <<monitors, lastId, held, outlived>>

Next ==
    \/ \E r \in Requests :
          \/ \E new \in New : AskToAdd(r, new)
          \/ LockSync(r) \/ LockOwner(r) \/ GiveUp(r)
          \/ LookForSymbol(r) \/ CountSymbols(r) \/ CreateRow(r) \/ Release(r)
          \/ \E m \in monitors : AskToDelete(r, m)
          \/ DeleteRow(r)
    \/ \E now \in {{}, Symbols} : SpotSync(now)
    \/ \E l \in Locks : LeaseEnds(l)
    \/ Restart

Spec == Init /\ [][Next]_listVars

-----------------------------------------------------------------------------
TypeOK ==
    /\ monitors \subseteq [id : 1 .. lastId, owner : Owners, symbol : Symbols, sell : BOOLEAN, valid : BOOLEAN]
    /\ lastId \in 0 .. MaxIds
    /\ held \subseteq Symbols
    /\ lock \in [Locks -> Requests \cup {Free, Gone}]
    /\ \A r \in Requests : adding[r].at \in
          {"idle", "sync", "lock", "look", "count", "create", "release", "delete"}
    /\ outlived \in 0 .. MaxLost

(* Requests that overlap add no more monitors than one after another       *)
(* would: a user has at most Quota, and one more for each request that     *)
(* was still at work when its lease ended (market.py:296-314).             *)
QuotaKept == \A o \in Owners \ {"root"} : Cardinality(Of(o)) <= Quota + outlived

(* A symbol is monitored once for each owner, even behind a lost lock: two *)
(* rows would send two mails for one signal (market.py:302-306,            *)
(* models/user.py:48).                                                     *)
OneMonitorEach ==
    \A m, n \in monitors : m.owner = n.owner /\ m.symbol = n.symbol => m = n

(* No sell monitor is active without its position: a position that was     *)
(* sold while the monitor was being added has paused it, or refused it     *)
(* (market.py:295-301, spot_holdings.py:120-142).                          *)
AddedOnlyIfHeld ==
    outlived = 0 => \A m \in monitors : m.sell /\ m.valid => m.symbol \in held

(* Requests that overlap keep the list as it has to be.                    *)
MonitorsKept == QuotaKept /\ OneMonitorEach /\ AddedOnlyIfHeld

=============================================================================
