--------------------------- MODULE SpotSyncProofs ---------------------------
(***************************************************************************)
(* Theorems about SpotSync, for any number of monitors, callers and        *)
(* requests, any clock and any faults.                                     *)
(***************************************************************************)
EXTENDS SpotSync, FiniteSetTheorems, TLAPS

USE DEF syncVars, editVars

-----------------------------------------------------------------------------
(* The inductive invariant.                                                *)

Drafting == {"fetch", "price", "select", "close", "pause", "publish"}
Closing == {"close", "pause"}
EditPlaces == {"edit_lock", "edit_read", "edit_save", "edit_release"}
Selected == Closing \cup {"publish"}
Columns == [dir : {"buy", "sell", None}, valid : BOOLEAN \cup {None}]

LockedRequest(p) == p \in Editors /\ request[p] \in Request /\ request[p].locked

\* What a process holds at each of its places.
Places ==
  \A p \in Proc :
    /\ pc[p] \in Drafting => draft[p] \in Snapshot
    /\ pc[p] = "pause" => closing[p] \in Monitors \X Versions
    /\ pc[p] # "pause" => closing[p] = None
    /\ pc[p] \notin Closing => todo[p] = {}
    /\ back[p] = "edit_sync" => LockedRequest(p)
    /\ pc[p] \in EditPlaces \cup {"edit_sync", "idle"} => back[p] = "idle"
    /\ pc[p] = "edit_sync" => LockedRequest(p)
    /\ pc[p] \in EditPlaces => p \in Editors /\ request[p] \in Request
    /\ pc[p] = "edit_save" =>
         target[p] \in Columns /\ (target[p].dir = None => target[p].valid = FALSE)

Holds(p, m, v) == <<m, v>> \in todo[p] \cup {closing[p]}

\* A process remembers at most one version of a monitor.
OneVersion ==
  \A p \in Proc, m \in Monitors : \A v, w \in Versions : Holds(p, m, v) /\ Holds(p, m, w) => v = w

TypeInv == TypeOK /\ Places /\ OneVersion

-----------------------------------------------------------------------------
(* Versions.                                                               *)

\* Of two versions more than there are processes, one is unused.
LEMMA UnusedNumber ==
  ASSUME NEW P, IsFiniteSet(P), NEW H \in SUBSET P, NEW h \in [H -> Nat], NEW w \in Nat
  PROVE  \E v \in 0 .. (Cardinality(P) + 1) : v # w /\ \A p \in H : v # h[p]
  <1> DEFINE T == {h[p] : p \in H}
             V == 0 .. (Cardinality(P) + 1)
  <1>1. IsFiniteSet(H) /\ Cardinality(H) <= Cardinality(P)
    BY FS_Subset
  <1>2. h \in Surjection(H, T)
    BY DEF Surjection
  <1>3. IsFiniteSet(T) /\ Cardinality(T) <= Cardinality(H)
    BY <1>1, <1>2, FS_Surjection
  <1>4. Cardinality(P) \in Nat /\ Cardinality(H) \in Nat /\ Cardinality(T) \in Nat
    BY <1>1, <1>3, FS_CardinalityType
  <1>5. /\ IsFiniteSet(T \cup {w})
        /\ Cardinality(T \cup {w}) = IF w \in T THEN Cardinality(T) ELSE Cardinality(T) + 1
    BY <1>3, FS_AddElement
  <1>6. IsFiniteSet(V) /\ Cardinality(V) = Cardinality(P) + 2
    <2>1. 0 \in Int /\ Cardinality(P) + 1 \in Int /\ ~(0 > Cardinality(P) + 1)
      BY <1>4
    <2>2. Cardinality(V) = (Cardinality(P) + 1) - 0 + 1 /\ IsFiniteSet(V)
      BY <2>1, FS_Interval
    <2> QED
      BY <1>4, <2>2
  <1>7. Cardinality(T \cup {w}) \in Nat /\ Cardinality(T \cup {w}) <= Cardinality(P) + 1
    BY <1>1, <1>3, <1>4, <1>5
  <1>8. ~(V \subseteq T \cup {w})
    <2> SUFFICES ASSUME V \subseteq T \cup {w} PROVE FALSE
      OBVIOUS
    <2>1. Cardinality(V) <= Cardinality(T \cup {w})
      BY <1>5, FS_Subset
    <2> HIDE DEF T, V
    <2> QED
      BY <1>4, <1>6, <1>7, <2>1
  <1> QED
    BY <1>8

\* FreshVersion is a version nobody holds, and not the one in the row.
LEMMA FreshIsFresh ==
  ASSUME TypeInv, NEW m \in Monitors
  PROVE  /\ FreshVersion(m) \in Versions /\ FreshVersion(m) # rows[m].ver
         /\ \A p \in Proc : ~Holds(p, m, FreshVersion(m))
  <1> DEFINE H == {p \in Proc : \E v \in Versions : Holds(p, m, v)}
             h == [p \in H |-> CHOOSE v \in Versions : Holds(p, m, v)]
  <1>1. \A p \in H : h[p] \in Versions /\ Holds(p, m, h[p])
    OBVIOUS
  <1>2. h \in [H -> Nat] /\ Versions \subseteq Nat
    BY <1>1 DEF Versions
  <1>3. rows[m].ver \in Nat /\ IsFiniteSet(Proc)
    BY <1>2, SyncAssumption DEF TypeInv, TypeOK, Row
  <1>4. \A p \in H, v \in Versions : Holds(p, m, v) => v = h[p]
    BY <1>1 DEF TypeInv, OneVersion
  <1> HIDE DEF h
  <1>5. PICK v \in Versions : v # rows[m].ver /\ \A p \in H : v # h[p]
    BY <1>2, <1>3, UnusedNumber DEF Versions
  <1>6. \A p \in Proc : ~Holds(p, m, v)
    BY <1>4, <1>5
  <1> HIDE DEF H
  <1>7. \E x \in Versions : x # rows[m].ver /\ \A p \in Proc : <<m, x>> \notin todo[p] \cup {closing[p]}
    BY <1>5, <1>6 DEF Holds
  <1> QED
    BY <1>7 DEF FreshVersion, Holds

-----------------------------------------------------------------------------
(* Types and places.                                                       *)

LEMMA Roles ==
  /\ \A c \in Callers : c \in Proc /\ c \notin Editors
  /\ \A e \in Editors : e \in Proc
  /\ \A p \in Proc : p # None /\ p # Dead
  /\ \A m \in Monitors : m \in Locks /\ m # Sync
  /\ Sync \in Locks /\ None # Dead
BY SyncAssumption DEF Proc, Locks

\* What a synchronisation makes of a snapshot is a snapshot.
LEMMA SnapshotUpdates ==
  ASSUME NEW s \in Snapshot
  PROVE  /\ s.attempt \in Int /\ s.updated \in Int /\ s.priced \in Int \cup {None}
         /\ s.held \in [Monitors -> Seen]
         /\ [s EXCEPT !.status = "error"] \in Snapshot
         /\ \A t \in Int : [s EXCEPT !.attempt = t] \in Snapshot
         /\ \A t \in Int : [s EXCEPT !.priced = t] \in Snapshot
         /\ \A t \in Int, h \in [Monitors -> Seen] :
              [status |-> "ok", attempt |-> s.attempt, updated |-> t, priced |-> None, held |-> h]
                \in Snapshot
BY DEF Snapshot

\* What a request assigns, and what is saved of it.
LEMMA AssignedColumns ==
  ASSUME NEW r \in Row, NEW q \in Request
  PROVE  /\ Assigned(r, q) \in Columns
         /\ Assigned(r, q).dir = None => Assigned(r, q).valid = FALSE
  <1>1. r.dir \in {"buy", "sell"} /\ q.dir \in {"keep", "buy", "sell"}
    BY DEF Row, Request
  <1>2. Assigned(r, q).dir \in {"buy", "sell", None}
    BY <1>1 DEF Assigned
  <1>3. Assigned(r, q).valid \in BOOLEAN \cup {None}
    BY DEF Assigned
  <1>4. Assigned(r, q).dir = None => PauseOnly(q)
    BY <1>1, SyncAssumption DEF Assigned
  <1>5. PauseOnly(q) => Assigned(r, q).valid = FALSE
    BY DEF Assigned, PauseOnly
  <1> QED
    BY <1>2, <1>3, <1>4, <1>5 DEF Columns, Assigned

LEMMA MergedRow ==
  ASSUME NEW r \in Row, NEW new \in Columns, NEW v \in Versions
  PROVE  Merged(r, new, v) \in Row
  <1>1. r.dir \in {"buy", "sell"} /\ r.valid \in BOOLEAN
    BY DEF Row
  <1>2. new.dir \in {"buy", "sell", None} /\ new.valid \in BOOLEAN \cup {None}
    BY DEF Columns
  <1>3. (IF new.dir = None THEN r.dir ELSE new.dir) \in {"buy", "sell"}
    BY <1>1, <1>2
  <1>4. (IF new.valid = None THEN r.valid ELSE new.valid) \in BOOLEAN
    BY <1>1, <1>2
  <1> QED
    BY <1>3, <1>4 DEF Merged, Row

LEMMA InitType == Init => TypeInv
  <1> SUFFICES ASSUME Init PROVE TypeInv
    OBVIOUS
  <1>1. snap \in Snapshot
    <2>1. -MinGap \in Int /\ snap.held \in [Monitors -> Seen]
      BY SyncAssumption DEF Init, Seen
    <2> QED
      BY <2>1 DEF Init, Snapshot
  <1>2. rows \in [Monitors -> Row]
    <2>1. 0 \in Versions
      BY SyncAssumption, FS_CardinalityType DEF Versions
    <2>2. [dir : {"buy", "sell"}, valid : BOOLEAN, ver : {0}] \subseteq Row
      BY <2>1 DEF Row
    <2> QED
      BY <2>2 DEF Init
  <1>3. TypeOK
    BY <1>1, <1>2, SyncAssumption DEF Init, TypeOK
  <1>4. Places
    BY DEF Init, Places, Drafting, Closing, EditPlaces
  <1>5. OneVersion
    BY SyncAssumption DEF Init, OneVersion, Holds
  <1> QED
    BY <1>3, <1>4, <1>5 DEF TypeInv

\* The steps of a synchronisation keep types and places.
LEMMA SyncType ==
  ASSUME TypeInv, NEW p \in Proc, SyncStep(p)
  PROVE  TypeOK' /\ Places'
  <1> USE DEF TypeInv, TypeOK, Places, Goto, LockedRequest, Drafting, Closing, EditPlaces
  <1>1. CASE LockSync(p)
    BY <1>1 DEF LockSync
  <1>2. CASE GiveUpSync(p)
    BY <1>2, Roles DEF GiveUpSync
  <1>3. CASE LookAtSnapshot(p)
    <2>1. CASE clock - snap.attempt < MinGap
      BY <1>3, <2>1 DEF LookAtSnapshot
    <2>2. CASE ~(clock - snap.attempt < MinGap)
      <3>1. snap \in Snapshot /\ clock \in Int
        OBVIOUS
      <3>2. [snap EXCEPT !.attempt = clock] \in Snapshot
        BY ONLY <3>1, SnapshotUpdates
      <3> QED
        BY <1>3, <2>2, <3>2 DEF LookAtSnapshot
    <2> QED
      BY <2>1, <2>2
  <1>4. ASSUME NEW clear \in SUBSET Monitors, FetchBalances(p, clear) PROVE TypeOK' /\ Places'
    <2> DEFINE h == [m \in Monitors |-> IF m \in clear THEN balance[m] ELSE "unclear"]
    <2>1. h \in [Monitors -> Seen]
      BY DEF Seen
    <2>2. [status |-> "ok", attempt |-> draft[p].attempt, updated |-> clock, priced |-> None,
           held |-> h] \in Snapshot
      <3>1. draft[p] \in Snapshot /\ clock \in Int
        BY <1>4 DEF FetchBalances
      <3> HIDE DEF h
      <3> QED
        BY ONLY <2>1, <3>1, SnapshotUpdates
    <2> QED
      BY <1>4, <2>2 DEF FetchBalances
  <1>5. CASE FetchFails(p)
    <2>1. [draft[p] EXCEPT !.status = "error"] \in Snapshot
      BY <1>5, SnapshotUpdates DEF FetchFails
    <2> QED
      BY <1>5, <2>1 DEF FetchFails
  <1>6. CASE FetchPrices(p)
    <2>a. draft[p] \in Snapshot /\ clock \in Int
      BY <1>6 DEF FetchPrices
    <2>1. [draft[p] EXCEPT !.priced = clock] \in Snapshot
      BY ONLY <2>a, SnapshotUpdates
    <2> QED
      <3>1. draft' = [draft EXCEPT ![p] = [draft[p] EXCEPT !.priced = clock]] \/ draft' = draft
        BY <1>6 DEF FetchPrices
      <3>2. /\ pc[p] = "price" /\ pc' = [pc EXCEPT ![p] = "select"]
            /\ UNCHANGED <<balance, snap, rows, lock, back, todo, closing, editVars, clock, asked,
                           slipped, outlived, faults>>
        BY <1>6 DEF FetchPrices
      <3>3. draft' \in [Proc -> Snapshot \cup {None}] /\ draft'[p] \in Snapshot
            /\ \A q \in Proc \ {p} : draft'[q] = draft[q]
        BY <2>a, <2>1, <3>1
      <3>4. TypeOK'
        BY <3>2, <3>3
      <3> QED
        BY <3>2, <3>3, <3>4
  <1>7. CASE SelectClosed(p)
    <2>1. \A m \in Monitors : <<m, rows[m].ver>> \in Monitors \X Versions
      BY DEF Row
    <2>2. todo'[p] \subseteq Monitors \X Versions
      BY <1>7, <2>1 DEF SelectClosed
    <2> QED
      BY <1>7, <2>2 DEF SelectClosed
  <1>8. CASE LockClosed(p)
    <2>1. PICK c \in todo[p] :
            /\ lock' = [lock EXCEPT ![c[1]] = p] /\ closing' = [closing EXCEPT ![p] = c]
            /\ todo' = [todo EXCEPT ![p] = @ \ {c}]
      BY <1>8 DEF LockClosed
    <2>2. c \in Monitors \X Versions
      OBVIOUS
    <2> QED
      BY <1>8, <2>1, <2>2 DEF LockClosed
  <1>9. CASE GiveUpClosed(p)
    <2>1. [draft[p] EXCEPT !.status = "error"] \in Snapshot
      BY <1>9, SnapshotUpdates DEF GiveUpClosed
    <2> QED
      BY <1>9, <2>1 DEF GiveUpClosed
  <1>10. CASE PauseClosed(p)
    <2> DEFINE m == closing[p][1]
    <2>1. m \in Monitors
      BY <1>10 DEF PauseClosed
    <2>2. [dir |-> rows[m].dir, valid |-> FALSE, ver |-> FreshVersion(m)] \in Row
      BY <2>1, FreshIsFresh DEF Row
    <2>3. rows' \in [Monitors -> Row] /\ slipped' \subseteq Monitors
      BY <1>10, <2>1, <2>2 DEF PauseClosed
    <2> QED
      BY <1>10, <2>1, <2>3, Roles DEF PauseClosed
  <1>11. CASE ClosureDone(p)
    BY <1>11 DEF ClosureDone
  <1>12. CASE PublishSnapshot(p)
    BY <1>12 DEF PublishSnapshot
  <1>13. CASE ReleaseSync(p)
    BY <1>13, Roles DEF ReleaseSync
  <1> QED
    BY <1>1, <1>2, <1>3, <1>4, <1>5, <1>6, <1>7, <1>8, <1>9, <1>10, <1>11, <1>12, <1>13
    DEF SyncStep

\* The steps of a request keep types and places.
LEMMA EditType ==
  ASSUME TypeInv, NEW e \in Editors, EditStep(e)
  PROVE  TypeOK' /\ Places'
  <1> USE Roles DEF TypeInv, TypeOK, Places, Goto, LockedRequest, Drafting, Closing, EditPlaces
  <1>1. CASE LockEditSync(e)
    BY <1>1 DEF LockEditSync
  <1>2. CASE LockEdit(e)
    <2>1. request[e].id \in Locks
      BY <1>2 DEF LockEdit, Request
    <2> QED
      BY <1>2, <2>1 DEF LockEdit
  <1>3. CASE GiveUpEdit(e)
    BY <1>3 DEF GiveUpEdit
  <1>4. CASE ReadForEdit(e)
    <2> DEFINE q == request[e]
               new == Assigned(rows[q.id], q)
    <2>1. q \in Request /\ rows[q.id] \in Row
      BY <1>4 DEF ReadForEdit, Request
    <2>2. new \in Columns /\ (new.dir = None => new.valid = FALSE)
      BY ONLY <2>1, AssignedColumns
    <2>3. \/ pc' = [pc EXCEPT ![e] = "edit_save"] /\ target' = [target EXCEPT ![e] = new]
          \/ pc' = [pc EXCEPT ![e] = "edit_release"] /\ target' = target
      BY <1>4 DEF ReadForEdit
    <2>4. UNCHANGED <<balance, snap, rows, lock, back, draft, todo, closing, request, clock,
                      asked, slipped, outlived, faults>> /\ pc[e] = "edit_read"
      BY <1>4 DEF ReadForEdit
    <2> HIDE DEF q, new
    <2>5. target' \in [Editors -> Columns \cup {None}]
      <3>1. target \in [Editors -> Columns \cup {None}]
        BY DEF Columns
      <3> QED
        BY ONLY <2>2, <2>3, <3>1
    <2>6. TypeOK'
      BY <2>3, <2>4, <2>5 DEF Columns
    <2>7. Places'
      BY <2>2, <2>3, <2>4
    <2> QED
      BY <2>6, <2>7
  <1>5. CASE SaveEdit(e)
    <2> DEFINE m == request[e].id
               saved == Merged(rows[m], target[e], FreshVersion(m))
    <2>1. m \in Monitors /\ target[e] \in Columns
      BY <1>5 DEF SaveEdit, Request
    <2>2. rows[m] \in Row /\ FreshVersion(m) \in Versions
      BY <2>1, FreshIsFresh
    <2>3. saved \in Row
      BY ONLY <2>1, <2>2, MergedRow
    <2>4. rows' = [rows EXCEPT ![m] = saved] /\ slipped' \subseteq slipped \cup {m}
      BY <1>5 DEF SaveEdit
    <2> HIDE DEF m, saved
    <2>5. rows' \in [Monitors -> Row] /\ slipped' \subseteq Monitors
      BY <2>1, <2>3, <2>4
    <2> QED
      BY <1>5, <2>5 DEF SaveEdit
  <1>6. CASE FinishEdit(e)
    <2>1. lock' \in [Locks -> Proc \cup {None, Dead}]
      BY <1>6 DEF FinishEdit
    <2>a. /\ pc' = [pc EXCEPT ![e] = "idle"] /\ request' = [request EXCEPT ![e] = None]
          /\ target' = [target EXCEPT ![e] = None]
          /\ UNCHANGED <<balance, snap, rows, syncVars, clock, asked, slipped, outlived, faults>>
      BY <1>6 DEF FinishEdit
    <2>2. TypeOK'
      BY <2>1, <2>a
    <2>b. pc[e] = "edit_release" /\ back[e] # "edit_sync"
      BY <1>6 DEF FinishEdit
    <2>3. Places'
      BY <2>a, <2>b
    <2> QED
      BY <2>2, <2>3
  <1> QED
    BY <1>1, <1>2, <1>3, <1>4, <1>5, <1>6 DEF EditStep

Arrives(e) ==
  \E m \in Monitors, dir \in {"keep", "buy", "sell"}, valid \in {"keep", "on", "off"} :
    BeginEdit(e, m, dir, valid)

\* The kinds of steps.
LEMMA NextCases ==
  ASSUME [Next]_vars
  PROVE  \/ \E c \in Callers : StartSync(c)
         \/ \E p \in Proc : SyncStep(p)
         \/ \E e \in Editors : EditStep(e) \/ Arrives(e)
         \/ \E m \in Monitors : Trade(m)
         \/ \E l \in Locks : LockTimeout(l)
         \/ \E p \in Proc : Crash(p)
         \/ Tick
         \/ UNCHANGED vars
BY DEF Next, Arrives

LEMMA RestType == TypeInv /\ [Next]_vars => TypeOK' /\ Places'
  <1> SUFFICES ASSUME TypeInv, [Next]_vars PROVE TypeOK' /\ Places'
    OBVIOUS
  <1> USE DEF TypeInv, TypeOK, Places, Goto, LockedRequest, Drafting, Closing, EditPlaces
  <1>1. ASSUME NEW c \in Callers, StartSync(c) PROVE TypeOK' /\ Places'
    BY <1>1, Roles DEF StartSync
  <1>2. ASSUME NEW e \in Editors, Arrives(e) PROVE TypeOK' /\ Places'
    <2>1. PICK m \in Monitors, dir \in {"keep", "buy", "sell"}, valid \in {"keep", "on", "off"} :
            BeginEdit(e, m, dir, valid)
      BY <1>2 DEF Arrives
    <2> DEFINE ask == [id |-> m, dir |-> dir, valid |-> valid]
               sell == IF dir = "keep" THEN rows[m].dir = "sell" ELSE dir = "sell"
               locked == sell /\ ~PauseOnly(ask)
               q == [id |-> m, dir |-> dir, valid |-> valid, locked |-> locked]
    <2>2. /\ pc[e] = "idle" /\ request' = [request EXCEPT ![e] = q]
          /\ pc' = [pc EXCEPT ![e] = IF locked THEN "sync" ELSE "edit_lock"]
          /\ back' = [back EXCEPT ![e] = IF locked THEN "edit_sync" ELSE "idle"]
          /\ UNCHANGED <<balance, snap, rows, lock, draft, todo, closing, target, clock, asked,
                         slipped, outlived, faults>>
      BY <2>1 DEF BeginEdit
    <2>3. locked \in BOOLEAN
      OBVIOUS
    <2> HIDE DEF locked
    <2>4. q \in Request /\ q.locked = locked
      BY <2>3 DEF Request
    <2> HIDE DEF q
    <2> QED
      BY <2>2, <2>3, <2>4, Roles
  <1>3. ASSUME NEW m \in Monitors, Trade(m) PROVE TypeOK' /\ Places'
    BY <1>3 DEF Trade, Balance
  <1>4. ASSUME NEW l \in Locks, LockTimeout(l) PROVE TypeOK' /\ Places'
    BY <1>4 DEF LockTimeout
  <1>5. ASSUME NEW p \in Proc, Crash(p) PROVE TypeOK' /\ Places'
    BY <1>5 DEF Crash
  <1>6. CASE Tick
    BY <1>6 DEF Tick
  <1>7. CASE UNCHANGED vars
    BY <1>7 DEF vars
  <1> QED
    BY <1>1, <1>2, <1>3, <1>4, <1>5, <1>6, <1>7, SyncType, EditType, NextCases

\* A process remembers a version only by selecting it, with nothing in hand.
LEMMA HoldsMoves ==
  ASSUME TypeInv, [Next]_vars, NEW q \in Proc, NEW m \in Monitors, NEW v \in Versions,
         Holds(q, m, v)'
  PROVE  \/ Holds(q, m, v) /\ pc[q] \in Closing
         \/ SelectClosed(q) /\ Active(rows[m]) /\ v = rows[m].ver
  <1> USE DEF Holds
  <1>0. <<m, v>> # None
    BY SyncAssumption DEF Versions
  <1>1. Holds(q, m, v) => pc[q] \in Closing
    BY <1>0 DEF TypeInv, Places, Closing
  <1>2. CASE UNCHANGED <<todo, closing>>
    BY <1>1, <1>2
  <1>3. ASSUME NEW p \in Proc, SyncStep(p)
        PROVE  \/ Holds(q, m, v)
               \/ SelectClosed(q) /\ Active(rows[m]) /\ v = rows[m].ver
    <2>1. CASE SelectClosed(p)
      <3>1. CASE p = q
        BY <1>0, <2>1, <3>1 DEF SelectClosed, TypeInv, Places, TypeOK
      <3>2. CASE p # q
        BY <2>1, <3>2 DEF SelectClosed
      <3> QED
        BY <3>1, <3>2
    <2>2. CASE LockClosed(p)
      BY <2>2 DEF LockClosed, TypeInv, TypeOK
    <2>3. CASE GiveUpClosed(p)
      BY <2>3 DEF GiveUpClosed, TypeInv, TypeOK
    <2>4. CASE PauseClosed(p)
      BY <1>0, <2>4 DEF PauseClosed, TypeInv, TypeOK
    <2>5. CASE ~(SelectClosed(p) \/ LockClosed(p) \/ GiveUpClosed(p) \/ PauseClosed(p))
      <3>1. UNCHANGED <<todo, closing>>
        BY <1>3, <2>5 DEF SyncStep, LockSync, GiveUpSync, LookAtSnapshot, FetchBalances, FetchFails,
           FetchPrices, ClosureDone, PublishSnapshot, ReleaseSync
      <3> QED
        BY <3>1
    <2> QED
      BY <2>1, <2>2, <2>3, <2>4, <2>5
  <1>4. ASSUME NEW p \in Proc, Crash(p) PROVE Holds(q, m, v)
    BY <1>0, <1>4 DEF Crash, TypeInv, TypeOK
  <1>5. ASSUME ~(\E p \in Proc : SyncStep(p) \/ Crash(p)) PROVE UNCHANGED <<todo, closing>>
    <2>1. ASSUME NEW c \in Callers, StartSync(c) PROVE UNCHANGED <<todo, closing>>
      BY <2>1 DEF StartSync
    <2>2. ASSUME NEW e \in Editors, EditStep(e) PROVE UNCHANGED <<todo, closing>>
      BY <2>2 DEF EditStep, LockEditSync, LockEdit, GiveUpEdit, ReadForEdit, SaveEdit, FinishEdit
    <2>3. ASSUME NEW e \in Editors, Arrives(e) PROVE UNCHANGED <<todo, closing>>
      BY <2>3 DEF Arrives, BeginEdit
    <2>4. ASSUME NEW k \in Monitors, Trade(k) PROVE UNCHANGED <<todo, closing>>
      BY <2>4 DEF Trade
    <2>5. ASSUME NEW l \in Locks, LockTimeout(l) PROVE UNCHANGED <<todo, closing>>
      BY <2>5 DEF LockTimeout
    <2>6. CASE Tick \/ UNCHANGED vars
      BY <2>6 DEF Tick, vars
    <2> QED
      BY <1>5, <2>1, <2>2, <2>3, <2>4, <2>5, <2>6, NextCases
  <1> QED
    BY <1>1, <1>2, <1>3, <1>4, <1>5

LEMMA VersionStep == TypeInv /\ [Next]_vars => OneVersion'
  <1> SUFFICES ASSUME TypeInv, [Next]_vars, NEW q \in Proc, NEW m \in Monitors,
                      NEW v \in Versions, NEW w \in Versions, Holds(q, m, v)', Holds(q, m, w)'
               PROVE  v = w
    BY DEF OneVersion, Versions
  <1>1. SelectClosed(q) => pc[q] = "select"
    BY DEF SelectClosed
  <1> QED
    BY <1>1, HoldsMoves DEF TypeInv, OneVersion, Closing

THEOREM TypesKept == Spec => []TypeInv
  <1>1. TypeInv /\ [Next]_vars => TypeInv'
    BY RestType, VersionStep DEF TypeInv
  <1> QED
    BY <1>1, InitType, PTL DEF Spec

-----------------------------------------------------------------------------
(* Who writes what.                                                        *)

\* Only the compare-and-set of the closure and the save of a request write rows.
LEMMA RowMoves ==
  ASSUME [Next]_vars
  PROVE  \/ \E p \in Proc : PauseClosed(p)
         \/ \E e \in Editors : SaveEdit(e)
         \/ rows' = rows /\ slipped' = slipped
  <1>1. ASSUME NEW p \in Proc, SyncStep(p), ~PauseClosed(p) PROVE UNCHANGED <<rows, slipped>>
    BY <1>1 DEF SyncStep, LockSync, GiveUpSync, LookAtSnapshot, FetchBalances, FetchFails,
       FetchPrices, SelectClosed, LockClosed, GiveUpClosed, ClosureDone, PublishSnapshot,
       ReleaseSync
  <1>2. ASSUME NEW e \in Editors, EditStep(e), ~SaveEdit(e) PROVE UNCHANGED <<rows, slipped>>
    BY <1>2 DEF EditStep, LockEditSync, LockEdit, GiveUpEdit, ReadForEdit, FinishEdit
  <1>3. ASSUME NEW c \in Callers, StartSync(c) PROVE UNCHANGED <<rows, slipped>>
    BY <1>3 DEF StartSync
  <1>4. ASSUME NEW e \in Editors, Arrives(e) PROVE UNCHANGED <<rows, slipped>>
    BY <1>4 DEF Arrives, BeginEdit
  <1>5. ASSUME NEW m \in Monitors, Trade(m) PROVE UNCHANGED <<rows, slipped>>
    BY <1>5 DEF Trade
  <1>6. ASSUME NEW l \in Locks, LockTimeout(l) PROVE UNCHANGED <<rows, slipped>>
    BY <1>6 DEF LockTimeout
  <1>7. ASSUME NEW p \in Proc, Crash(p) PROVE UNCHANGED <<rows, slipped>>
    BY <1>7 DEF Crash
  <1>8. CASE Tick \/ UNCHANGED vars
    BY <1>8 DEF Tick, vars
  <1> QED
    BY <1>1, <1>2, <1>3, <1>4, <1>5, <1>6, <1>7, <1>8, NextCases

\* Neither faults nor outlived locks are taken back.
LEMMA FaultsGrow ==
  ASSUME TypeInv, [Next]_vars
  PROVE  outlived \subseteq outlived' /\ (faults' = 0 => faults = 0 /\ outlived' = outlived)
  <1> USE DEF TypeInv, TypeOK
  <1>1. ASSUME NEW p \in Proc, SyncStep(p) PROVE UNCHANGED <<outlived, faults>>
    BY <1>1 DEF SyncStep, LockSync, GiveUpSync, LookAtSnapshot, FetchBalances, FetchFails,
       FetchPrices, SelectClosed, LockClosed, GiveUpClosed, PauseClosed, ClosureDone,
       PublishSnapshot, ReleaseSync
  <1>2. ASSUME NEW e \in Editors, EditStep(e) PROVE UNCHANGED <<outlived, faults>>
    BY <1>2 DEF EditStep, LockEditSync, LockEdit, GiveUpEdit, ReadForEdit, SaveEdit, FinishEdit
  <1>3. ASSUME NEW p \in Proc, Crash(p) PROVE outlived' = outlived /\ faults' # 0
    BY <1>3 DEF Crash
  <1>4. ASSUME NEW l \in Locks, LockTimeout(l)
        PROVE  \/ UNCHANGED <<outlived, faults>>
               \/ outlived \subseteq outlived' /\ faults' # 0
    BY <1>4 DEF LockTimeout
  <1>5. ASSUME NEW c \in Callers, StartSync(c) PROVE UNCHANGED <<outlived, faults>>
    BY <1>5 DEF StartSync
  <1>6. ASSUME NEW e \in Editors, Arrives(e) PROVE UNCHANGED <<outlived, faults>>
    BY <1>6 DEF Arrives, BeginEdit
  <1>7. ASSUME NEW m \in Monitors, Trade(m) PROVE UNCHANGED <<outlived, faults>>
    BY <1>7 DEF Trade
  <1>8. CASE Tick \/ UNCHANGED vars
    BY <1>8 DEF Tick, vars
  <1> QED
    BY <1>1, <1>2, <1>3, <1>4, <1>5, <1>6, <1>7, <1>8, NextCases

\* The steps that touch a draft or the snapshot; every other leaves them alone.
DraftStep(p) ==
  \/ LookAtSnapshot(p) \/ \E clear \in SUBSET Monitors : FetchBalances(p, clear)
  \/ FetchFails(p) \/ FetchPrices(p) \/ GiveUpClosed(p) \/ PublishSnapshot(p)

LEMMA DraftMoves ==
  ASSUME TypeInv, [Next]_vars, ~(\E p \in Proc : DraftStep(p))
  PROVE  /\ UNCHANGED <<snap, asked>> /\ clock <= clock'
         /\ \A q \in Proc : pc'[q] \in Drafting => pc[q] \in Drafting /\ draft'[q] = draft[q]
         /\ \A q \in Proc : faults' = 0 /\ pc[q] \in Drafting => pc'[q] \in Drafting
  <1> DEFINE Goal == /\ UNCHANGED <<snap, asked>> /\ clock <= clock'
                     /\ \A q \in Proc : pc'[q] \in Drafting => pc[q] \in Drafting /\ draft'[q] = draft[q]
                     /\ \A q \in Proc : faults' = 0 /\ pc[q] \in Drafting => pc'[q] \in Drafting
  <1> USE DEF TypeInv, TypeOK, Goto, Drafting
  <1>1. ASSUME NEW p \in Proc, SyncStep(p) PROVE Goal
    <2>1. CASE LockSync(p)
      BY <2>1 DEF LockSync
    <2>2. CASE GiveUpSync(p)
      BY <2>2 DEF GiveUpSync
    <2>3. CASE SelectClosed(p)
      BY <2>3 DEF SelectClosed
    <2>4. CASE LockClosed(p)
      BY <2>4 DEF LockClosed
    <2>5. CASE PauseClosed(p)
      BY <2>5 DEF PauseClosed
    <2>6. CASE ClosureDone(p)
      BY <2>6 DEF ClosureDone
    <2>7. CASE ReleaseSync(p)
      BY <2>7 DEF ReleaseSync
    <2> QED
      BY <1>1, <2>1, <2>2, <2>3, <2>4, <2>5, <2>6, <2>7 DEF SyncStep, DraftStep
  <1>2. ASSUME NEW e \in Editors, EditStep(e) PROVE Goal
    <2> USE Roles
    <2>1. CASE LockEditSync(e)
      BY <2>1 DEF LockEditSync
    <2>2. CASE LockEdit(e)
      BY <2>2 DEF LockEdit
    <2>3. CASE GiveUpEdit(e)
      BY <2>3 DEF GiveUpEdit
    <2>4. CASE ReadForEdit(e)
      BY <2>4 DEF ReadForEdit
    <2>5. CASE SaveEdit(e)
      BY <2>5 DEF SaveEdit
    <2>6. CASE FinishEdit(e)
      BY <2>6 DEF FinishEdit
    <2> QED
      BY <1>2, <2>1, <2>2, <2>3, <2>4, <2>5, <2>6 DEF EditStep
  <1>3. ASSUME NEW c \in Callers, StartSync(c) PROVE Goal
    BY <1>3, Roles DEF StartSync
  <1>4. ASSUME NEW e \in Editors, Arrives(e) PROVE Goal
    BY <1>4, Roles DEF Arrives, BeginEdit
  <1>5. ASSUME NEW m \in Monitors, Trade(m) PROVE Goal
    BY <1>5 DEF Trade
  <1>6. ASSUME NEW l \in Locks, LockTimeout(l) PROVE Goal
    BY <1>6 DEF LockTimeout
  <1>7. ASSUME NEW p \in Proc, Crash(p) PROVE Goal
    BY <1>7 DEF Crash
  <1>8. CASE Tick \/ UNCHANGED vars
    BY <1>8 DEF Tick, vars
  <1> QED
    BY <1>1, <1>2, <1>3, <1>4, <1>5, <1>6, <1>7, <1>8, NextCases

-----------------------------------------------------------------------------
(* The lock of the synchronisation.                                        *)

InSync(p) ==
  \/ pc[p] \in Drafting \cup {"look", "sync_release"}
  \/ pc[p] \in EditPlaces /\ request[p].locked

\* Whoever synchronises, or edits with a position check, holds the lock.
OwnsSync == \A p \in Proc : Sync \notin outlived /\ InSync(p) => lock[Sync] = p

LEMMA OwnerStep == TypeInv /\ OwnsSync /\ [Next]_vars => OwnsSync'
  <1> SUFFICES ASSUME TypeInv, OwnsSync, [Next]_vars, NEW q \in Proc, Sync \notin outlived',
                      InSync(q)'
               PROVE  lock'[Sync] = q
    BY DEF OwnsSync
  <1>0. /\ Sync \notin outlived /\ (InSync(q) => lock[Sync] = q)
        /\ lock \in [Locks -> Proc \cup {None, Dead}] /\ DOMAIN pc = Proc /\ pc = [p \in Proc |-> pc[p]]
    <2>1. pc = [p \in Proc |-> pc[p]] /\ DOMAIN pc = Proc
      BY DEF TypeInv, TypeOK
    <2> QED
      BY <2>1, FaultsGrow DEF OwnsSync, TypeInv, TypeOK
  <1> DEFINE Goal == lock'[Sync] = q
  <1>e. pc[q] \in EditPlaces => q \in Editors
    BY DEF TypeInv, Places
  <1> USE <1>0, Roles DEF Goto, InSync, Drafting, EditPlaces
  <1>1. ASSUME NEW p \in Proc, SyncStep(p) PROVE Goal
    <2>1. CASE LockSync(p)
      BY <2>1 DEF LockSync
    <2>2. CASE GiveUpSync(p)
      BY <2>2, <1>e DEF GiveUpSync
    <2>3. CASE LookAtSnapshot(p)
      BY <2>3 DEF LookAtSnapshot
    <2>4. CASE SelectClosed(p)
      BY <2>4 DEF SelectClosed
    <2>5. CASE LockClosed(p)
      <3>1. \A c \in todo[p] : c[1] \in Monitors
        BY DEF TypeInv, TypeOK
      <3>2. lock'[Sync] = lock[Sync] /\ (InSync(q))
        BY <2>5, <3>1 DEF LockClosed
      <3> QED
        BY <3>2
    <2>6. CASE PauseClosed(p)
      <3>1. closing[p][1] \in Monitors
        BY <2>6 DEF TypeInv, Places, PauseClosed
      <3>2. lock'[Sync] = lock[Sync] /\ InSync(q)
        BY <2>6, <3>1 DEF PauseClosed
      <3> QED
        BY <3>2
    <2>7. CASE ClosureDone(p)
      BY <2>7 DEF ClosureDone
    <2>8. CASE ReleaseSync(p)
      <3>1. back[p] \in {"idle", "edit_sync"}
        BY DEF TypeInv, TypeOK
      <3>2. q # p
        BY <2>8, <3>1 DEF ReleaseSync
      <3> QED
        BY <2>8, <3>2 DEF ReleaseSync
    <2>9. CASE GiveUpClosed(p)
      BY <2>9 DEF GiveUpClosed
    <2>10. ASSUME NEW clear \in SUBSET Monitors, FetchBalances(p, clear) PROVE Goal
      BY <2>10 DEF FetchBalances
    <2>11. CASE FetchFails(p)
      BY <2>11 DEF FetchFails
    <2>12. CASE FetchPrices(p)
      BY <2>12 DEF FetchPrices
    <2>13. CASE PublishSnapshot(p)
      BY <2>13 DEF PublishSnapshot
    <2> QED
      BY <1>1, <2>1, <2>2, <2>3, <2>4, <2>5, <2>6, <2>7, <2>8, <2>9, <2>10, <2>11, <2>12, <2>13
      DEF SyncStep
  <1>2. ASSUME NEW e \in Editors, EditStep(e) PROVE Goal
    <2>0. /\ pc[e] \in EditPlaces => request[e].id \in Monitors
          /\ request \in [Editors -> Request \cup {None}]
      BY DEF TypeInv, TypeOK, Places, Request
    <2>1. CASE LockEditSync(e)
      BY <2>1 DEF LockEditSync
    <2>2. CASE LockEdit(e)
      BY <2>0, <2>2 DEF LockEdit
    <2>3. CASE GiveUpEdit(e)
      BY <2>3 DEF GiveUpEdit
    <2>4. CASE ReadForEdit(e)
      BY <2>4 DEF ReadForEdit
    <2>5. CASE SaveEdit(e)
      BY <2>5 DEF SaveEdit
    <2>6. CASE FinishEdit(e)
      BY <2>0, <2>6 DEF FinishEdit
    <2> QED
      BY <1>2, <2>1, <2>2, <2>3, <2>4, <2>5, <2>6 DEF EditStep
  <1>3. ASSUME NEW c \in Callers, StartSync(c) PROVE Goal
    BY <1>3 DEF StartSync
  <1>4. ASSUME NEW e \in Editors, Arrives(e) PROVE Goal
    <2>1. request \in [Editors -> Request \cup {None}]
      BY DEF TypeInv, TypeOK
    <2>2. PICK m \in Monitors, dir \in {"keep", "buy", "sell"}, valid \in {"keep", "on", "off"} :
            BeginEdit(e, m, dir, valid)
      BY <1>4 DEF Arrives
    <2>3. PICK locked \in BOOLEAN :
            /\ request' = [request EXCEPT ![e] =
                             [id |-> m, dir |-> dir, valid |-> valid, locked |-> locked]]
            /\ pc' = [pc EXCEPT ![e] = IF locked THEN "sync" ELSE "edit_lock"]
            /\ lock' = lock
      BY <2>2 DEF BeginEdit
    <2> QED
      BY <2>1, <2>3
  <1>5. ASSUME NEW m \in Monitors, Trade(m) PROVE Goal
    BY <1>5 DEF Trade
  <1>6. ASSUME NEW l \in Locks, LockTimeout(l) PROVE Goal
    BY <1>6 DEF LockTimeout
  <1>7. ASSUME NEW p \in Proc, Crash(p) PROVE Goal
    BY <1>7, <1>e DEF Crash
  <1>8. CASE Tick \/ UNCHANGED vars
    BY <1>8 DEF Tick, vars
  <1> QED
    BY <1>1, <1>2, <1>3, <1>4, <1>5, <1>6, <1>7, <1>8, NextCases

-----------------------------------------------------------------------------
(* Versions that are remembered are those of sell monitors.                *)

SellsOnly ==
  \A p \in Proc, m \in Monitors : \A v \in Versions :
    Holds(p, m, v) /\ v = rows[m].ver => rows[m].dir = "sell"

\* What the two writers do to a row: a new version nobody holds.
LEMMA RowWrites ==
  ASSUME TypeInv, [Next]_vars, NEW m \in Monitors, rows'[m] # rows[m]
  PROVE  /\ rows'[m].ver = FreshVersion(m)
         /\ \/ \E p \in Proc : /\ PauseClosed(p) /\ Holds(p, m, rows[m].ver)
                               /\ rows'[m].dir = rows[m].dir /\ ~rows'[m].valid
            \/ \E e \in Editors : /\ SaveEdit(e) /\ request[e].id = m /\ pc'[e] # pc[e]
                                  /\ rows'[m] = Merged(rows[m], target[e], FreshVersion(m))
  <1>1. ASSUME NEW p \in Proc, PauseClosed(p)
        PROVE  /\ rows'[m].ver = FreshVersion(m)
               /\ Holds(p, m, rows[m].ver) /\ rows'[m].dir = rows[m].dir /\ ~rows'[m].valid
    <2> DEFINE k == closing[p][1]
               new == [dir |-> rows[k].dir, valid |-> FALSE, ver |-> FreshVersion(k)]
    <2>1. k \in Monitors /\ closing[p] = <<k, closing[p][2]>>
      BY <1>1 DEF PauseClosed, TypeInv, Places
    <2>2. rows \in [Monitors -> Row]
      BY DEF TypeInv, TypeOK
    <2>3. \/ rows' = rows
          \/ rows[k].ver = closing[p][2] /\ rows' = [rows EXCEPT ![k] = new]
      BY <1>1 DEF PauseClosed
    <2>4. new.dir = rows[k].dir /\ new.ver = FreshVersion(k) /\ ~new.valid
      OBVIOUS
    <2> HIDE DEF k, new
    <2>5. k = m /\ rows'[m] = new /\ rows[k].ver = closing[p][2]
      BY <2>1, <2>2, <2>3
    <2> QED
      BY <2>1, <2>4, <2>5 DEF Holds
  <1>2. ASSUME NEW e \in Editors, SaveEdit(e)
        PROVE  /\ rows'[m].ver = FreshVersion(m) /\ request[e].id = m /\ pc'[e] # pc[e]
               /\ rows'[m] = Merged(rows[m], target[e], FreshVersion(m))
    <2> DEFINE k == request[e].id
    <2>1. rows \in [Monitors -> Row] /\ pc = [p \in Proc |-> pc[p]] /\ e \in Proc
      BY Roles DEF TypeInv, TypeOK
    <2>2. rows' = [rows EXCEPT ![k] = Merged(rows[k], target[e], FreshVersion(k))]
      BY <1>2 DEF SaveEdit
    <2>3. pc[e] = "edit_save" /\ pc' = [pc EXCEPT ![e] = "edit_release"]
      BY <1>2 DEF SaveEdit, Goto
    <2> HIDE DEF k
    <2>4. k = m /\ rows'[m] = Merged(rows[m], target[e], FreshVersion(m))
      BY <2>1, <2>2
    <2>5. pc'[e] # pc[e]
      BY <2>1, <2>3
    <2> QED
      BY <2>4, <2>5 DEF k, Merged
  <1> QED
    BY <1>1, <1>2, RowMoves

LEMMA SellsStep == TypeInv /\ SellsOnly /\ [Next]_vars => SellsOnly'
  <1> SUFFICES ASSUME TypeInv, SellsOnly, [Next]_vars, NEW q \in Proc, NEW m \in Monitors,
                      NEW v \in Versions, Holds(q, m, v)', v = rows'[m].ver
               PROVE  rows'[m].dir = "sell"
    BY DEF SellsOnly, Versions
  <1>1. CASE SelectClosed(q) /\ Active(rows[m]) /\ v = rows[m].ver
    BY <1>1 DEF SelectClosed, Active
  <1>2. CASE Holds(q, m, v)
    <2>1. v # FreshVersion(m)
      BY <1>2, FreshIsFresh
    <2>2. rows'[m] = rows[m]
      BY <2>1, RowWrites
    <2> QED
      BY <1>2, <2>2 DEF SellsOnly
  <1> QED
    BY <1>1, <1>2, HoldsMoves

-----------------------------------------------------------------------------
(* Dates and prices.                                                       *)

Valued(s) == s.status = "ok" /\ s.priced # None => s.priced >= s.updated

\* A snapshot is dated, and the prices of a usable one are not older than it.
Sound(s) == s.updated <= clock /\ Valued(s)

SoundData == Sound(snap) /\ \A p \in Proc : pc[p] \in Drafting => Sound(draft[p])

\* Nobody prepares an older account than the published one.
NoneOlder ==
  Sync \notin outlived => \A p \in Proc : pc[p] \in Drafting => draft[p].updated >= snap.updated

\* The latest attempt is the one in the snapshot, or the one of who is preparing it.
AttemptKnown ==
  faults = 0 =>
    /\ outlived = {}
    /\ \A p \in Proc : pc[p] \in Drafting => draft[p].attempt = asked
    /\ (\A p \in Proc : pc[p] \notin Drafting) => snap.attempt = asked

\* Two processes do not prepare snapshots at once.
LEMMA OneDrafts ==
  ASSUME OwnsSync, Sync \notin outlived, NEW p \in Proc, NEW q \in Proc,
         pc[p] \in Drafting \cup {"look"}, pc[q] \in Drafting \cup {"look"}
  PROVE  p = q
BY DEF OwnsSync, InSync, Drafting

LEMMA DraftSound ==
  ASSUME TypeInv, SoundData, NEW p \in Proc, DraftStep(p)
  PROVE  SoundData'
  <1> USE DEF Goto, Drafting
  <1>0. /\ clock \in Int /\ snap \in Snapshot /\ Sound(snap)
        /\ \A q \in Proc : pc[q] \in Drafting => draft[q] \in Snapshot /\ Sound(draft[q])
        /\ pc = [q \in Proc |-> pc[q]] /\ draft = [q \in Proc |-> draft[q]]
    BY DEF SoundData, TypeInv, TypeOK, Places
  <1>1. CASE LookAtSnapshot(p)
    <2> DEFINE new == [snap EXCEPT !.attempt = clock]
    <2>1. Sound(new)
      BY <1>0 DEF Sound, Valued, Snapshot
    <2>2. /\ \/ pc' = [pc EXCEPT ![p] = "sync_release"] /\ draft' = draft
             \/ pc' = [pc EXCEPT ![p] = "fetch"] /\ draft' = [draft EXCEPT ![p] = new]
          /\ UNCHANGED <<snap, clock>>
      BY <1>1 DEF LookAtSnapshot
    <2> HIDE DEF new
    <2> QED
      BY <1>0, <2>1, <2>2 DEF SoundData, Sound
  <1>2. ASSUME NEW clear \in SUBSET Monitors, FetchBalances(p, clear) PROVE SoundData'
    <2> DEFINE new == [status |-> "ok", attempt |-> draft[p].attempt, updated |-> clock,
                       priced |-> None,
                       held |-> [m \in Monitors |-> IF m \in clear THEN balance[m] ELSE "unclear"]]
    <2>1. Sound(new)
      BY <1>0 DEF Sound, Valued
    <2>2. /\ pc' = [pc EXCEPT ![p] = "price"] /\ draft' = [draft EXCEPT ![p] = new]
          /\ UNCHANGED <<snap, clock>>
      BY <1>2 DEF FetchBalances
    <2> HIDE DEF new
    <2> QED
      BY <1>0, <2>1, <2>2 DEF SoundData, Sound
  <1>3. CASE FetchFails(p) \/ GiveUpClosed(p)
    <2> DEFINE new == [draft[p] EXCEPT !.status = "error"]
    <2>1. pc[p] \in Drafting
      BY <1>3 DEF FetchFails, GiveUpClosed
    <2>2. draft[p].updated <= clock /\ draft[p] \in Snapshot
      BY <1>0, <2>1 DEF Sound
    <2>3. Sound(new)
      BY <1>0, <2>2 DEF Sound, Valued, Snapshot
    <2>4. /\ pc' = [pc EXCEPT ![p] = "publish"] /\ draft' = [draft EXCEPT ![p] = new]
          /\ UNCHANGED <<snap, clock>>
      BY <1>3 DEF FetchFails, GiveUpClosed
    <2> HIDE DEF new
    <2> QED
      BY <1>0, <2>3, <2>4 DEF SoundData, Sound
  <1>4. CASE FetchPrices(p)
    <2> DEFINE new == [draft[p] EXCEPT !.priced = clock]
    <2>1. pc[p] = "price"
      BY <1>4 DEF FetchPrices
    <2>2. draft[p].updated <= clock /\ draft[p] \in Snapshot
      BY <1>0, <2>1 DEF Sound
    <2>3. Sound(new)
      BY <1>0, <2>2 DEF Sound, Valued, Snapshot
    <2>4. /\ pc' = [pc EXCEPT ![p] = "select"]
          /\ draft' = [draft EXCEPT ![p] = new] \/ draft' = draft
          /\ UNCHANGED <<snap, clock>>
      BY <1>4 DEF FetchPrices
    <2> HIDE DEF new
    <2> QED
      BY <1>0, <2>1, <2>3, <2>4 DEF SoundData, Sound
  <1>5. CASE PublishSnapshot(p)
    <2>1. /\ pc[p] = "publish" /\ pc' = [pc EXCEPT ![p] = "sync_release"]
          /\ draft' = [draft EXCEPT ![p] = None] /\ snap' = draft[p] /\ clock' = clock
      BY <1>5 DEF PublishSnapshot
    <2> QED
      BY <1>0, <2>1 DEF SoundData, Sound
  <1> QED
    BY <1>1, <1>2, <1>3, <1>4, <1>5 DEF DraftStep

LEMMA SoundStep == TypeInv /\ SoundData /\ [Next]_vars => SoundData'
  <1> SUFFICES ASSUME TypeInv, SoundData, [Next]_vars PROVE SoundData'
    OBVIOUS
  <1>1. ASSUME ~(\E p \in Proc : DraftStep(p)) PROVE SoundData'
    <2>1. /\ clock <= clock' /\ clock \in Int /\ clock' \in Int
          /\ snap \in Snapshot /\ \A p \in Proc : pc[p] \in Drafting => draft[p] \in Snapshot
      <3>1. clock <= clock'
        BY <1>1, DraftMoves
      <3>2. TypeOK'
        BY RestType
      <3>3. clock \in Int /\ clock' \in Int
        BY <3>2 DEF TypeInv, TypeOK
      <3> QED
        BY <3>1, <3>3 DEF TypeInv, TypeOK, Places
    <2>2. ASSUME NEW s \in Snapshot, Sound(s) PROVE Sound(s)'
      BY <2>1, <2>2 DEF Sound, Valued, Snapshot
    <2>3. snap' = snap /\ \A q \in Proc : pc'[q] \in Drafting => pc[q] \in Drafting /\ draft'[q] = draft[q]
      BY <1>1, DraftMoves
    <2> QED
      BY <2>1, <2>2, <2>3 DEF SoundData, Sound
  <1> QED
    BY <1>1, DraftSound

LEMMA NoneOlderStep == TypeInv /\ OwnsSync /\ SoundData /\ NoneOlder /\ [Next]_vars => NoneOlder'
  <1> SUFFICES ASSUME TypeInv, OwnsSync, SoundData, NoneOlder, [Next]_vars, Sync \notin outlived',
                      NEW q \in Proc, pc'[q] \in Drafting
               PROVE  draft'[q].updated >= snap'.updated
    BY DEF NoneOlder
  <1>0. /\ Sync \notin outlived /\ clock \in Int /\ snap.updated \in Int /\ snap.updated <= clock
        /\ \A p \in Proc : pc[p] \in Drafting => draft[p].updated >= snap.updated
        /\ pc = [p \in Proc |-> pc[p]] /\ draft = [p \in Proc |-> draft[p]]
    BY FaultsGrow DEF SoundData, Sound, NoneOlder, TypeInv, TypeOK, Snapshot
  <1> USE DEF Goto, Drafting
  <1>1. ASSUME NEW p \in Proc, DraftStep(p), p # q PROVE draft'[q].updated >= snap'.updated
    <2>1. pc'[q] = pc[q] /\ draft'[q] = draft[q]
      BY <1>0, <1>1 DEF DraftStep, LookAtSnapshot, FetchBalances, FetchFails, FetchPrices,
         GiveUpClosed, PublishSnapshot
    <2>2. pc[q] \in Drafting
      BY <2>1
    <2>3. pc[p] \in Drafting \cup {"look"}
      BY <1>1 DEF DraftStep, LookAtSnapshot, FetchBalances, FetchFails, FetchPrices,
         GiveUpClosed, PublishSnapshot
    <2> QED
      BY <1>0, <1>1, <2>2, <2>3, OneDrafts
  <1>2. ASSUME DraftStep(q) PROVE draft'[q].updated >= snap'.updated
    <2>1. CASE LookAtSnapshot(q)
      <3> DEFINE new == [snap EXCEPT !.attempt = clock]
      <3>1. /\ pc' = [pc EXCEPT ![q] = "sync_release"] \/ draft' = [draft EXCEPT ![q] = new]
            /\ snap' = snap
        BY <2>1 DEF LookAtSnapshot
      <3>2. new.updated = snap.updated
        BY DEF TypeInv, TypeOK, Snapshot
      <3> HIDE DEF new
      <3>3. pc' # [pc EXCEPT ![q] = "sync_release"]
        BY <1>0
      <3>4. draft'[q].updated = snap.updated
        BY <1>0, <3>1, <3>2, <3>3
      <3> QED
        BY <1>0, <3>1, <3>4
    <2>2. ASSUME NEW clear \in SUBSET Monitors, FetchBalances(q, clear)
          PROVE  draft'[q].updated >= snap'.updated
      BY <1>0, <2>2 DEF FetchBalances
    <2>3. CASE FetchFails(q) \/ GiveUpClosed(q) \/ FetchPrices(q)
      <3>1. draft[q] \in Snapshot /\ draft[q].updated >= snap.updated
        BY <1>0, <2>3 DEF FetchFails, GiveUpClosed, FetchPrices, TypeInv, Places
      <3>2. /\ [draft[q] EXCEPT !.status = "error"].updated = draft[q].updated
            /\ [draft[q] EXCEPT !.priced = clock].updated = draft[q].updated
        BY <3>1 DEF Snapshot
      <3>3. /\ snap' = snap
            /\ \/ draft' = draft
               \/ draft' = [draft EXCEPT ![q] = [draft[q] EXCEPT !.status = "error"]]
               \/ draft' = [draft EXCEPT ![q] = [draft[q] EXCEPT !.priced = clock]]
        BY <2>3 DEF FetchFails, GiveUpClosed, FetchPrices
      <3> QED
        BY <1>0, <3>1, <3>2, <3>3
    <2>4. CASE PublishSnapshot(q)
      BY <1>0, <2>4 DEF PublishSnapshot
    <2> QED
      BY <1>2, <2>1, <2>2, <2>3, <2>4 DEF DraftStep
  <1>3. ASSUME ~(\E p \in Proc : DraftStep(p)) PROVE draft'[q].updated >= snap'.updated
    BY <1>0, <1>3, DraftMoves
  <1> QED
    BY <1>1, <1>2, <1>3

LEMMA AttemptStep == TypeInv /\ OwnsSync /\ AttemptKnown /\ [Next]_vars => AttemptKnown'
  <1> SUFFICES ASSUME TypeInv, OwnsSync, AttemptKnown, [Next]_vars, faults' = 0
               PROVE  /\ outlived' = {}
                      /\ \A q \in Proc : pc'[q] \in Drafting => draft'[q].attempt = asked'
                      /\ (\A q \in Proc : pc'[q] \notin Drafting) => snap'.attempt = asked'
    BY DEF AttemptKnown
  <1>0. /\ outlived = {} /\ outlived' = {}
        /\ \A q \in Proc : pc[q] \in Drafting => draft[q].attempt = asked
        /\ (\A q \in Proc : pc[q] \notin Drafting) => snap.attempt = asked
        /\ pc = [q \in Proc |-> pc[q]] /\ draft = [q \in Proc |-> draft[q]]
    BY FaultsGrow DEF AttemptKnown, TypeInv, TypeOK
  <1> DEFINE Goal == /\ \A q \in Proc : pc'[q] \in Drafting => draft'[q].attempt = asked'
                     /\ (\A q \in Proc : pc'[q] \notin Drafting) => snap'.attempt = asked'
  <1> USE DEF Goto, Drafting
  <1>1. ASSUME NEW p \in Proc, DraftStep(p) PROVE Goal
    <2>0. \A q \in Proc \ {p} : pc[q] \notin Drafting
      <3>1. pc[p] \in Drafting \cup {"look"}
        BY <1>1 DEF DraftStep, LookAtSnapshot, FetchBalances, FetchFails, FetchPrices,
           GiveUpClosed, PublishSnapshot
      <3> QED
        BY <1>0, <3>1, OneDrafts
    <2>1. CASE LookAtSnapshot(p)
      <3>1. /\ snap' = snap /\ pc[p] = "look"
            /\ \/ pc' = [pc EXCEPT ![p] = "sync_release"] /\ UNCHANGED <<draft, asked>>
               \/ /\ draft' = [draft EXCEPT ![p] = [snap EXCEPT !.attempt = clock]]
                  /\ pc' = [pc EXCEPT ![p] = "fetch"] /\ asked' = clock
        BY <2>1 DEF LookAtSnapshot
      <3>2. [snap EXCEPT !.attempt = clock].attempt = clock
        BY DEF TypeInv, TypeOK, Snapshot
      <3> QED
        BY <1>0, <2>0, <3>1, <3>2
    <2>2. ASSUME NEW clear \in SUBSET Monitors, FetchBalances(p, clear) PROVE Goal
      BY <1>0, <2>0, <2>2 DEF FetchBalances
    <2>3. CASE FetchFails(p) \/ GiveUpClosed(p) \/ FetchPrices(p)
      <3>1. draft[p] \in Snapshot /\ draft[p].attempt = asked
        BY <1>0, <2>3 DEF FetchFails, GiveUpClosed, FetchPrices, TypeInv, Places
      <3>2. /\ [draft[p] EXCEPT !.status = "error"].attempt = draft[p].attempt
            /\ [draft[p] EXCEPT !.priced = clock].attempt = draft[p].attempt
        BY <3>1 DEF Snapshot
      <3>3. /\ asked' = asked
            /\ \/ draft' = draft
               \/ draft' = [draft EXCEPT ![p] = [draft[p] EXCEPT !.status = "error"]]
               \/ draft' = [draft EXCEPT ![p] = [draft[p] EXCEPT !.priced = clock]]
        BY <2>3 DEF FetchFails, GiveUpClosed, FetchPrices
      <3>4. \/ pc' = [pc EXCEPT ![p] = "publish"] \/ pc' = [pc EXCEPT ![p] = "select"]
        BY <2>3 DEF FetchFails, GiveUpClosed, FetchPrices
      <3> QED
        BY <1>0, <2>0, <3>1, <3>2, <3>3, <3>4
    <2>4. CASE PublishSnapshot(p)
      BY <1>0, <2>0, <2>4 DEF PublishSnapshot
    <2> QED
      BY <1>1, <2>1, <2>2, <2>3, <2>4 DEF DraftStep
  <1>2. ASSUME ~(\E p \in Proc : DraftStep(p)) PROVE Goal
    BY <1>0, <1>2, DraftMoves
  <1> QED
    BY <1>0, <1>1, <1>2

-----------------------------------------------------------------------------
(* The closure.                                                            *)

Usable(s, m) == s.status = "ok" /\ s.held[m] = "none"

\* Whoever publishes a snapshot without a position still has its active sell
\* monitor to close.
ClosureKept ==
  outlived = {} =>
    \A p \in Proc, m \in Monitors \ slipped :
      pc[p] \in Selected /\ Usable(draft[p], m) /\ Active(rows[m]) => Holds(p, m, rows[m].ver)

\* An edit that may activate a sell monitor saves while the position is shown.
SaveShown ==
  outlived = {} =>
    \A e \in Editors : pc[e] = "edit_save" /\ request[e].locked /\ target[e].dir = "sell" =>
                         snap.held[request[e].id] = "enough"

\* What is closed next is what was selected, unless it has just been paused.
LEMMA SelectedMoves ==
  ASSUME TypeInv, [Next]_vars, NEW q \in Proc, pc'[q] \in Selected, draft'[q].status = "ok"
  PROVE  \/ SelectClosed(q)
         \/ PauseClosed(q)
         \/ /\ pc[q] \in Selected /\ draft'[q] = draft[q]
            /\ \A m \in Monitors, v \in Versions : Holds(q, m, v) => Holds(q, m, v)'
  <1> DEFINE Goal == /\ pc[q] \in Selected /\ draft'[q] = draft[q]
                     /\ todo[q] \cup {closing[q]} \subseteq todo'[q] \cup {closing'[q], None}
  <1>0. /\ pc = [p \in Proc |-> pc[p]] /\ draft = [p \in Proc |-> draft[p]]
        /\ todo = [p \in Proc |-> todo[p]] /\ closing = [p \in Proc |-> closing[p]]
    BY DEF TypeInv, TypeOK
  <1> USE <1>0 DEF Goto, Selected, Closing
  <1>1. ASSUME NEW p \in Proc, SyncStep(p), ~SelectClosed(q), ~PauseClosed(q) PROVE Goal
    <2>0. draft[p] \in Snapshot => [draft[p] EXCEPT !.status = "error"].status = "error"
      BY DEF Snapshot
    <2>1. CASE LockSync(p)
      BY <2>1 DEF LockSync
    <2>2. CASE GiveUpSync(p)
      BY <2>2 DEF GiveUpSync
    <2>3. CASE LookAtSnapshot(p)
      BY <2>3 DEF LookAtSnapshot
    <2>4. CASE SelectClosed(p)
      <3>1. p # q
        BY <1>1, <2>4
      <3> QED
        BY <2>4, <3>1 DEF SelectClosed
    <2>5. CASE LockClosed(p)
      <3>1. pc[p] = "close" /\ closing[p] = None
        BY <2>5 DEF LockClosed, TypeInv, Places
      <3> QED
        BY <2>5, <3>1 DEF LockClosed
    <2>6. CASE PauseClosed(p)
      BY <1>1, <2>6 DEF PauseClosed
    <2>7. CASE ClosureDone(p)
      BY <2>7 DEF ClosureDone
    <2>8. CASE ReleaseSync(p)
      <3>1. back[p] \in {"idle", "edit_sync"}
        BY DEF TypeInv, TypeOK
      <3> QED
        BY <2>8, <3>1 DEF ReleaseSync
    <2>9. CASE GiveUpClosed(p)
      <3>1. draft[p] \in Snapshot
        BY <2>9 DEF GiveUpClosed, TypeInv, Places, Drafting
      <3> QED
        BY <2>0, <2>9, <3>1 DEF GiveUpClosed
    <2>10. ASSUME NEW clear \in SUBSET Monitors, FetchBalances(p, clear) PROVE Goal
      BY <2>10 DEF FetchBalances
    <2>11. CASE FetchFails(p)
      <3>1. draft[p] \in Snapshot
        BY <2>11 DEF FetchFails, TypeInv, Places, Drafting
      <3> QED
        BY <2>0, <2>11, <3>1 DEF FetchFails
    <2>12. CASE FetchPrices(p)
      BY <2>12 DEF FetchPrices
    <2>13. CASE PublishSnapshot(p)
      BY <2>13 DEF PublishSnapshot
    <2> QED
      BY <1>1, <2>1, <2>2, <2>3, <2>4, <2>5, <2>6, <2>7, <2>8, <2>9, <2>10, <2>11, <2>12, <2>13
      DEF SyncStep
  <1>2. ASSUME NEW e \in Editors, EditStep(e) PROVE Goal
    BY <1>2, Roles DEF EditStep, LockEditSync, LockEdit, GiveUpEdit, ReadForEdit, SaveEdit, FinishEdit
  <1>3. ASSUME NEW c \in Callers, StartSync(c) PROVE Goal
    BY <1>3, Roles DEF StartSync
  <1>4. ASSUME NEW e \in Editors, Arrives(e) PROVE Goal
    BY <1>4, Roles DEF Arrives, BeginEdit
  <1>5. ASSUME NEW m \in Monitors, Trade(m) PROVE Goal
    BY <1>5 DEF Trade
  <1>6. ASSUME NEW l \in Locks, LockTimeout(l) PROVE Goal
    BY <1>6 DEF LockTimeout
  <1>7. ASSUME NEW p \in Proc, Crash(p) PROVE Goal
    BY <1>7 DEF Crash
  <1>8. ASSUME Tick \/ UNCHANGED vars PROVE Goal
    <2>1. pc' = pc /\ draft' = draft /\ todo' = todo /\ closing' = closing
      BY <1>8 DEF Tick, vars
    <2>2. todo[q] \cup {closing[q]} \subseteq todo'[q] \cup {closing'[q], None}
      BY <2>1
    <2> QED
      BY <2>1, <2>2
  <1> HIDE <1>0 DEF Goal
  <1>9. SelectClosed(q) \/ PauseClosed(q) \/ Goal
    BY <1>1, <1>2, <1>3, <1>4, <1>5, <1>6, <1>7, <1>8, NextCases
  <1>10. \A m \in Monitors, v \in Versions : <<m, v>> # None
    BY SyncAssumption DEF Versions
  <1> QED
    BY <1>9, <1>10 DEF Holds, Goal

LEMMA ClosureStep == TypeInv /\ OwnsSync /\ ClosureKept /\ [Next]_vars => ClosureKept'
  <1> SUFFICES ASSUME TypeInv, OwnsSync, ClosureKept, [Next]_vars, outlived' = {},
                      NEW q \in Proc, NEW m \in Monitors \ slipped', pc'[q] \in Selected,
                      Usable(draft'[q], m), Active(rows'[m])
               PROVE  Holds(q, m, rows[m].ver)'
    BY DEF ClosureKept, Usable, Active, Holds
  <1>0. /\ outlived = {} /\ rows[m].ver \in Versions
        /\ pc = [p \in Proc |-> pc[p]] /\ todo = [p \in Proc |-> todo[p]]
        /\ closing = [p \in Proc |-> closing[p]] /\ rows = [k \in Monitors |-> rows[k]]
    BY FaultsGrow DEF TypeInv, TypeOK, Row
  <1> USE DEF Goto
  <1>1. CASE SelectClosed(q)
    <2>1. /\ pc[q] = "select" /\ draft' = draft /\ rows' = rows
          /\ todo'[q] = {<<k, rows[k].ver>> : k \in {k \in Monitors : Active(rows[k]) /\ draft[q].held[k] = "none"}}
      BY <1>0, <1>1 DEF SelectClosed
    <2> QED
      BY <2>1 DEF Usable, Active, Holds
  <1>2. CASE PauseClosed(q)
    <2> DEFINE k == closing[q][1]
               v == closing[q][2]
    <2>1. k \in Monitors /\ v \in Versions /\ closing[q] = <<k, v>> /\ pc[q] = "pause" /\ pc[q] \in Selected
      BY <1>2 DEF PauseClosed, TypeInv, Places, Selected, Closing
    <2>2. /\ draft' = draft /\ todo' = todo
          /\ \/ /\ rows[k].ver = v /\ rows[k].valid /\ slipped' = slipped \ {k}
                /\ rows' = [rows EXCEPT ![k] = [dir |-> @.dir, valid |-> FALSE, ver |-> FreshVersion(k)]]
             \/ ~(rows[k].ver = v /\ rows[k].valid) /\ rows' = rows /\ slipped' = slipped
      BY <1>2 DEF PauseClosed
    <2> HIDE DEF k, v
    <2>3. k = m => rows' = rows /\ rows[k].ver # v
      BY <1>0, <2>1, <2>2 DEF Active
    <2>4. rows'[m] = rows[m] /\ m \notin slipped
      BY <1>0, <2>1, <2>2, <2>3
    <2>5. Holds(q, m, rows[m].ver)
      BY <1>0, <2>1, <2>2, <2>4 DEF ClosureKept
    <2>6. <<m, rows[m].ver>> # <<k, v>>
      BY <2>3
    <2>7. <<m, rows[m].ver>> \in todo[q]
      BY <2>1, <2>5, <2>6 DEF Holds
    <2> QED
      BY <2>2, <2>4, <2>7 DEF Holds
  <1>3. CASE /\ pc[q] \in Selected /\ draft'[q] = draft[q]
             /\ \A k \in Monitors, v \in Versions : Holds(q, k, v) => Holds(q, k, v)'
    <2>1. CASE rows'[m] = rows[m] /\ m \notin slipped
      <3>1. Holds(q, m, rows[m].ver)
        BY <1>0, <1>3, <2>1 DEF ClosureKept
      <3> QED
        BY <1>0, <1>3, <2>1, <3>1 DEF Holds
    <2>2. CASE rows'[m] # rows[m] \/ m \in slipped
      <3>1. PICK e \in Editors : SaveEdit(e) /\ request[e].id = m
        <4>1. ASSUME NEW e \in Editors, SaveEdit(e) PROVE request[e].id = m
          <5>1. /\ rows' = [rows EXCEPT ![request[e].id] = Merged(rows[request[e].id], target[e], FreshVersion(request[e].id))]
                /\ slipped \ {request[e].id} \subseteq slipped'
            BY <4>1 DEF SaveEdit
          <5> QED
            BY <1>0, <2>2, <5>1
        <4>2. ASSUME NEW p \in Proc, PauseClosed(p) PROVE FALSE
          <5> DEFINE k == closing[p][1]
          <5>1. /\ k \in Monitors
                /\ \/ /\ slipped' = slipped \ {k}
                      /\ rows' = [rows EXCEPT ![k] = [dir |-> @.dir, valid |-> FALSE, ver |-> FreshVersion(k)]]
                   \/ rows' = rows /\ slipped' = slipped
            BY <4>2 DEF PauseClosed, TypeInv, Places
          <5> HIDE DEF k
          <5>2. k # m
            BY <1>0, <2>2, <5>1 DEF Active
          <5> QED
            BY <1>0, <2>2, <5>1, <5>2
        <4> QED
          BY <2>2, <4>1, <4>2, RowMoves
      <3>2. request[e].locked
        <4>1. rows'[m] = Merged(rows[m], target[e], FreshVersion(m))
          BY <1>0, <3>1 DEF SaveEdit
        <4> QED
          BY <3>1, <4>1 DEF SaveEdit
      <3>3. pc[e] = "edit_save" /\ e \in Proc
        BY <3>1, Roles DEF SaveEdit
      <3>4. InSync(e) /\ InSync(q)
        BY <1>3, <3>2, <3>3 DEF InSync, EditPlaces, Drafting, Selected, Closing
      <3>5. e = q
        BY <1>0, <3>3, <3>4 DEF OwnsSync
      <3> QED
        BY <1>3, <3>3, <3>5 DEF Selected, Closing
    <2> QED
      BY <2>1, <2>2
  <1> QED
    BY <1>1, <1>2, <1>3, SelectedMoves DEF Usable

\* Nobody publishes while a locked edit is under way.
LEMMA NobodyPublishes ==
  ASSUME OwnsSync, outlived = {}, NEW e \in Editors, pc[e] \in EditPlaces, request[e].locked,
         NEW p \in Proc
  PROVE  ~PublishSnapshot(p)
  <1> SUFFICES ASSUME PublishSnapshot(p) PROVE FALSE
    OBVIOUS
  <1>1. InSync(e) /\ InSync(p) /\ e \in Proc /\ pc[p] = "publish"
    BY Roles DEF InSync, Drafting, PublishSnapshot
  <1>2. e = p
    BY <1>1 DEF OwnsSync
  <1> QED
    BY <1>1, <1>2 DEF EditPlaces

\* The snapshot is what somebody publishes.
LEMMA SnapMoves ==
  ASSUME TypeInv, [Next]_vars, snap' # snap
  PROVE  \E p \in Proc : PublishSnapshot(p)
BY DraftMoves DEF DraftStep, LookAtSnapshot, FetchBalances, FetchFails, FetchPrices, GiveUpClosed

\* An edit saves what it decided when it last read the row.
LEMMA SaveMoves ==
  ASSUME TypeInv, [Next]_vars, NEW q \in Editors, pc'[q] = "edit_save"
  PROVE  \/ /\ pc[q] = "edit_read" /\ Accepted(rows[request[q].id], request[q])
            /\ target'[q] = Assigned(rows[request[q].id], request[q])
            /\ request' = request /\ snap' = snap
         \/ pc[q] = "edit_save" /\ request'[q] = request[q] /\ target'[q] = target[q]
  <1> DEFINE Goal == \/ /\ pc[q] = "edit_read" /\ Accepted(rows[request[q].id], request[q])
                        /\ target'[q] = Assigned(rows[request[q].id], request[q])
                        /\ request' = request /\ snap' = snap
                     \/ pc[q] = "edit_save" /\ request'[q] = request[q] /\ target'[q] = target[q]
  <1>0. /\ pc = [p \in Proc |-> pc[p]] /\ request = [e \in Editors |-> request[e]]
        /\ target = [e \in Editors |-> target[e]] /\ q \in Proc
    BY Roles DEF TypeInv, TypeOK
  <1> USE <1>0 DEF Goto
  <1>1. ASSUME NEW p \in Proc, SyncStep(p) PROVE Goal
    <2>1. CASE GiveUpSync(p)
      BY <2>1 DEF GiveUpSync
    <2>2. CASE LookAtSnapshot(p)
      BY <2>2 DEF LookAtSnapshot
    <2>3. CASE ReleaseSync(p)
      <3>1. back[p] \in {"idle", "edit_sync"}
        BY DEF TypeInv, TypeOK
      <3> QED
        BY <2>3, <3>1 DEF ReleaseSync
    <2>4. CASE ~(GiveUpSync(p) \/ LookAtSnapshot(p) \/ ReleaseSync(p))
      <3>1. PICK place \in {"look", "price", "publish", "select", "close", "pause", "sync_release"} :
              pc' = [pc EXCEPT ![p] = place]
        BY <1>1, <2>4 DEF SyncStep, LockSync, FetchBalances, FetchFails, FetchPrices,
           SelectClosed, LockClosed, GiveUpClosed, PauseClosed, ClosureDone, PublishSnapshot
      <3>2. UNCHANGED <<request, target>>
        BY <1>1, <2>4 DEF SyncStep, LockSync, FetchBalances, FetchFails, FetchPrices,
           SelectClosed, LockClosed, GiveUpClosed, PauseClosed, ClosureDone, PublishSnapshot
      <3> QED
        BY <3>1, <3>2
    <2> QED
      BY <2>1, <2>2, <2>3, <2>4
  <1>2. ASSUME NEW e \in Editors, EditStep(e) PROVE Goal
    <2> USE Roles
    <2>1. CASE LockEditSync(e)
      BY <2>1 DEF LockEditSync
    <2>2. CASE LockEdit(e)
      BY <2>2 DEF LockEdit
    <2>3. CASE GiveUpEdit(e)
      BY <2>3 DEF GiveUpEdit
    <2>4. CASE ReadForEdit(e)
      BY <2>4 DEF ReadForEdit
    <2>5. CASE SaveEdit(e)
      BY <2>5 DEF SaveEdit
    <2>6. CASE FinishEdit(e)
      BY <2>6 DEF FinishEdit
    <2> QED
      BY <1>2, <2>1, <2>2, <2>3, <2>4, <2>5, <2>6 DEF EditStep
  <1>3. ASSUME NEW c \in Callers, StartSync(c) PROVE Goal
    BY <1>3, Roles DEF StartSync
  <1>4. ASSUME NEW e \in Editors, Arrives(e) PROVE Goal
    BY <1>4, Roles DEF Arrives, BeginEdit
  <1>5. ASSUME NEW m \in Monitors, Trade(m) PROVE Goal
    BY <1>5 DEF Trade
  <1>6. ASSUME NEW l \in Locks, LockTimeout(l) PROVE Goal
    BY <1>6 DEF LockTimeout
  <1>7. ASSUME NEW p \in Proc, Crash(p) PROVE Goal
    BY <1>7 DEF Crash
  <1>8. ASSUME Tick \/ UNCHANGED vars PROVE Goal
    BY <1>8 DEF Tick, vars
  <1> HIDE <1>0 DEF Goal
  <1>9. Goal
    BY <1>1, <1>2, <1>3, <1>4, <1>5, <1>6, <1>7, <1>8, NextCases
  <1> QED
    BY <1>9 DEF Goal

LEMMA ShownStep == TypeInv /\ OwnsSync /\ SaveShown /\ [Next]_vars => SaveShown'
  <1> SUFFICES ASSUME TypeInv, OwnsSync, SaveShown, [Next]_vars, outlived' = {},
                      NEW e \in Editors, pc'[e] = "edit_save", request'[e].locked,
                      target'[e].dir = "sell"
               PROVE  snap'.held[request'[e].id] = "enough"
    BY DEF SaveShown
  <1>0. outlived = {}
    BY FaultsGrow
  <1>1. CASE /\ pc[e] = "edit_read" /\ Accepted(rows[request[e].id], request[e])
             /\ target'[e] = Assigned(rows[request[e].id], request[e])
             /\ request' = request /\ snap' = snap
    <2>1. ~PauseOnly(request[e])
      BY <1>1, SyncAssumption DEF Assigned
    <2>2. Eligible(request[e].id)
      BY <1>1, <2>1 DEF Accepted
    <2> QED
      BY <1>1, <2>2 DEF Eligible
  <1>2. CASE pc[e] = "edit_save" /\ request'[e] = request[e] /\ target'[e] = target[e]
    <2>1. snap' = snap
      BY <1>0, <1>2, NobodyPublishes, SnapMoves DEF EditPlaces
    <2> QED
      BY <1>0, <1>2, <2>1 DEF SaveShown
  <1> QED
    BY <1>1, <1>2, SaveMoves

\* A request that saves an active sell monitor asked for a sell monitor.
LEMMA ActiveMerged ==
  ASSUME NEW r \in Row, NEW new \in Columns, new.dir = None => new.valid = FALSE, NEW v,
         Active(Merged(r, new, v))
  PROVE  new.dir = "sell"
  <1>1. new.dir # None
    <2> SUFFICES ASSUME new.dir = None PROVE FALSE
      OBVIOUS
    <2>1. new.valid = FALSE /\ FALSE # None
      BY SyncAssumption
    <2> QED
      BY <2>1 DEF Active, Merged
  <1> QED
    BY <1>1 DEF Active, Merged

LEMMA PublishedStep ==
  TypeInv /\ OwnsSync /\ ClosureKept /\ SaveShown /\ PublishedClosure /\ [Next]_vars
    => PublishedClosure'
  <1> SUFFICES ASSUME TypeInv, OwnsSync, ClosureKept, SaveShown, PublishedClosure, [Next]_vars,
                      outlived' = {}, NEW m \in Monitors \ slipped', Usable(snap', m),
                      Active(rows'[m])
               PROVE  FALSE
    BY DEF PublishedClosure, ClosedInSnapshot, Usable, Active
  <1>0. outlived = {} /\ rows = [k \in Monitors |-> rows[k]] /\ rows[m] \in Row
    BY FaultsGrow DEF TypeInv, TypeOK
  <1>1. CASE snap' # snap
    <2>1. PICK p \in Proc : PublishSnapshot(p)
      BY <1>1, SnapMoves
    <2>2. /\ pc[p] = "publish" /\ snap' = draft[p] /\ rows' = rows /\ slipped' = slipped
      BY <2>1 DEF PublishSnapshot
    <2>3. Holds(p, m, rows[m].ver)
      BY <1>0, <2>2 DEF ClosureKept, Selected
    <2>4. todo[p] = {} /\ closing[p] = None
      BY <2>2 DEF TypeInv, Places, Closing
    <2>5. <<m, rows[m].ver>> # None
      BY <1>0, SyncAssumption DEF Row, Versions
    <2> QED
      BY <2>3, <2>4, <2>5 DEF Holds
  <1>2. CASE snap' = snap /\ m \notin slipped /\ rows'[m] = rows[m]
    BY <1>0, <1>2 DEF PublishedClosure, ClosedInSnapshot, Usable, Active
  <1>3. CASE snap' = snap /\ (m \in slipped \/ rows'[m] # rows[m])
    <2>1. ASSUME NEW p \in Proc, PauseClosed(p) PROVE FALSE
      <3> DEFINE k == closing[p][1]
      <3>1. /\ k \in Monitors
            /\ \/ /\ slipped' = slipped \ {k}
                  /\ rows' = [rows EXCEPT ![k] = [dir |-> @.dir, valid |-> FALSE, ver |-> FreshVersion(k)]]
               \/ rows' = rows /\ slipped' = slipped
        BY <2>1 DEF PauseClosed, TypeInv, Places
      <3> HIDE DEF k
      <3>2. k # m
        BY <1>0, <1>3, <3>1 DEF Active
      <3> QED
        BY <1>0, <1>3, <3>1, <3>2
    <2>2. ASSUME NEW e \in Editors, SaveEdit(e) PROVE FALSE
      <3> DEFINE k == request[e].id
                 saved == Merged(rows[k], target[e], FreshVersion(k))
      <3>1. /\ pc[e] = "edit_save" /\ rows' = [rows EXCEPT ![k] = saved]
            /\ slipped' = IF Active(saved) /\ ~request[e].locked THEN slipped \cup {k} ELSE slipped \ {k}
        BY <2>2 DEF SaveEdit
      <3>2. target[e] \in Columns /\ (target[e].dir = None => target[e].valid = FALSE)
        BY <3>1, Roles DEF TypeInv, Places
      <3> HIDE DEF k
      <3>3. k = m
        BY <1>0, <1>3, <3>1
      <3>4. rows'[m] = saved
        BY <1>0, <3>1, <3>3
      <3>5. Active(saved) /\ request[e].locked
        BY <3>1, <3>3, <3>4
      <3>6. target[e].dir = "sell"
        BY <1>0, <3>2, <3>3, <3>5, ActiveMerged
      <3>7. snap.held[m] = "enough"
        BY <1>0, <3>1, <3>3, <3>5, <3>6 DEF SaveShown, k
      <3> QED
        BY <1>3, <3>7 DEF Usable
    <2> QED
      BY <1>3, <2>1, <2>2, RowMoves
  <1> QED
    BY <1>1, <1>2, <1>3

-----------------------------------------------------------------------------
(* The theorems.                                                            *)

SyncInv ==
  OwnsSync /\ SellsOnly /\ SoundData /\ NoneOlder /\ AttemptKnown /\ ClosureKept /\ SaveShown
  /\ PublishedClosure

\* sync_spot_holdings, pause_closed_monitors and update_monitor keep their
\* inductive invariant.
THEOREM SyncCorrect == Spec => []SyncInv
  <1>1. Init => SyncInv
    <2> SUFFICES ASSUME Init PROVE SyncInv
      OBVIOUS
    <2>1. \A p \in Proc : pc[p] = "idle" /\ todo[p] = {} /\ closing[p] = None
      BY DEF Init
    <2>2. OwnsSync /\ NoneOlder
      BY <2>1 DEF OwnsSync, NoneOlder, InSync, Drafting, EditPlaces
    <2>3. SellsOnly
      <3>1. \A m \in Monitors, v \in Versions : <<m, v>> # None
        BY SyncAssumption DEF Versions
      <3> QED
        BY <2>1, <3>1 DEF SellsOnly, Holds
    <2>4. snap.status = "pending" /\ snap.updated = 0 /\ clock = 0 /\ snap.attempt = asked /\ outlived = {}
      BY DEF Init
    <2>5. SoundData /\ AttemptKnown
      BY <2>1, <2>4 DEF SoundData, Sound, Valued, AttemptKnown, Drafting
    <2>6. ClosureKept /\ SaveShown
      BY <2>1, Roles DEF ClosureKept, SaveShown, Selected, Closing
    <2>7. PublishedClosure
      BY <2>4 DEF PublishedClosure, ClosedInSnapshot
    <2> QED
      BY <2>2, <2>3, <2>5, <2>6, <2>7 DEF SyncInv
  <1>2. TypeInv /\ SyncInv /\ [Next]_vars => SyncInv'
    BY OwnerStep, SellsStep, SoundStep, NoneOlderStep, AttemptStep, ClosureStep, ShownStep,
       PublishedStep DEF SyncInv
  <1> QED
    BY <1>1, <1>2, TypesKept, PTL DEF Spec

\* The part of the type theorem the runs check.
THEOREM TypeCorrect == Spec => []TypeOK
  <1>1. TypeInv => TypeOK
    BY DEF TypeInv
  <1> QED
    BY <1>1, TypesKept, PTL

\* A usable snapshot values its balances with prices fetched after them.
THEOREM PricesAreNew == Spec => []PricesFollowBalances
  <1>1. SyncInv => PricesFollowBalances
    BY DEF SyncInv, SoundData, Sound, Valued, PricesFollowBalances
  <1> QED
    BY <1>1, SyncCorrect, PTL

\* A published snapshot that shows a position as gone leaves no active sell
\* monitor of it behind, but for those activated without the lock.
THEOREM ClosuresPublished == Spec => []PublishedClosure
  <1>1. SyncInv => PublishedClosure
    BY DEF SyncInv
  <1> QED
    BY <1>1, SyncCorrect, PTL

\* The account in the snapshot only becomes newer.
THEOREM SnapshotsOrdered == Spec => SnapshotsInOrder
  <1> DEFINE Newer == Sync \notin outlived /\ snap.status # "pending" => snap'.updated >= snap.updated
  <1>1. TypeInv /\ SyncInv /\ [Next]_vars => [Newer]_vars
    <2> SUFFICES ASSUME TypeInv, SyncInv, [Next]_vars, Sync \notin outlived
                 PROVE  snap'.updated >= snap.updated
      OBVIOUS
    <2>1. CASE snap' = snap
      BY <2>1 DEF TypeInv, TypeOK, Snapshot
    <2>2. CASE snap' # snap
      <3>1. PICK p \in Proc : PublishSnapshot(p)
        BY <2>2, SnapMoves
      <3>2. pc[p] \in Drafting /\ snap' = draft[p]
        BY <3>1 DEF PublishSnapshot, Drafting
      <3> QED
        BY <3>2 DEF SyncInv, NoneOlder
    <2> QED
      BY <2>1, <2>2
  <1> QED
    BY <1>1, TypesKept, SyncCorrect, PTL DEF Spec, SnapshotsInOrder

\* Only a save of a request stops an active buy monitor.
THEOREM BuyMonitorsKept == Spec => BuyStoppedByEdit
  <1> DEFINE Kept == \A m \in Monitors :
                       rows[m].dir = "buy" /\ rows[m].valid /\ ~rows'[m].valid =>
                         \E e \in Editors : pc[e] = "edit_save" /\ request[e].id = m /\ pc'[e] # pc[e]
  <1>1. TypeInv /\ SyncInv /\ [Next]_vars => [Kept]_vars
    <2> SUFFICES ASSUME TypeInv, SyncInv, [Next]_vars, NEW m \in Monitors,
                        rows[m].dir = "buy", rows[m].valid, ~rows'[m].valid
                 PROVE  \E e \in Editors : pc[e] = "edit_save" /\ request[e].id = m /\ pc'[e] # pc[e]
      OBVIOUS
    <2>1. rows'[m] # rows[m] /\ rows[m].ver \in Versions
      BY DEF TypeInv, TypeOK, Row
    <2>2. ASSUME NEW p \in Proc, Holds(p, m, rows[m].ver) PROVE FALSE
      BY <2>1, <2>2 DEF SyncInv, SellsOnly
    <2>3. PICK e \in Editors : SaveEdit(e) /\ request[e].id = m /\ pc'[e] # pc[e]
      BY <2>1, <2>2, RowWrites
    <2> QED
      BY <2>3 DEF SaveEdit
  <1> QED
    BY <1>1, TypesKept, SyncCorrect, PTL DEF Spec, BuyStoppedByEdit

\* The account is asked for at most once in MinGap.
THEOREM AttemptsApart == Spec => AttemptsSpaced
  <1> DEFINE Apart == faults = 0 /\ (\E p \in Proc : pc[p] = "look" /\ pc'[p] = "fetch") =>
                        clock - asked >= MinGap
  <1>1. TypeInv /\ SyncInv /\ [Next]_vars => [Apart]_vars
    <2> SUFFICES ASSUME TypeInv, SyncInv, [Next]_vars, faults = 0,
                        NEW p \in Proc, pc[p] = "look", pc'[p] = "fetch"
                 PROVE  clock - asked >= MinGap
      OBVIOUS
    <2>1. PICK q \in Proc : DraftStep(q)
      BY DraftMoves DEF Drafting
    <2>2. pc = [r \in Proc |-> pc[r]]
      BY DEF TypeInv, TypeOK
    <2>3. LookAtSnapshot(q) /\ q = p
      <3>1. ~LookAtSnapshot(q) => pc'[p] # "fetch"
        BY <2>1, <2>2 DEF DraftStep, FetchBalances, FetchFails, FetchPrices, GiveUpClosed,
           PublishSnapshot, Goto
      <3>2. LookAtSnapshot(q) => q = p
        BY <2>2 DEF LookAtSnapshot, Goto
      <3> QED
        BY <3>1, <3>2
    <2>4. ~(clock - snap.attempt < MinGap)
      BY <2>2, <2>3 DEF LookAtSnapshot, Goto
    <2>5. \A r \in Proc : pc[r] \notin Drafting
      <3>1. outlived = {} /\ OwnsSync
        BY DEF SyncInv, AttemptKnown
      <3> QED
        BY <3>1, OneDrafts DEF Drafting
    <2>6. snap.attempt = asked
      BY <2>5 DEF SyncInv, AttemptKnown
    <2>7. clock \in Int /\ asked \in Int /\ MinGap \in Int
      BY SyncAssumption DEF TypeInv, TypeOK
    <2> QED
      BY <2>4, <2>6, <2>7
  <1> QED
    BY <1>1, TypesKept, SyncCorrect, PTL DEF Spec, AttemptsSpaced
=============================================================================
