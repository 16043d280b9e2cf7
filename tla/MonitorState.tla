---------------------------- MODULE MonitorState ----------------------------
(***************************************************************************)
(* What the owner of a monitor is shown, what the API lets him do, and     *)
(* whether anything watches the market for him: monitor_state              *)
(* (business/monitor_state.py), validate_config and update_monitor         *)
(* (business/market.py), and the rows that the two checks and the delivery *)
(* take (business/monitor.py, msgqueue/tasks/strategy.py).                 *)
(*                                                                         *)
(* One monitor and one request at a time: locks and overlapping requests   *)
(* are in MonitorNotice and SpotSync.                                      *)
(***************************************************************************)
EXTENDS Integers

VARIABLES
    row,        \* the row of symbol_plot_table
    snapshot    \* what read_snapshot answers, and the position of the symbol in it

monitorVars == <<row, snapshot>>

User == {"root", "user"}
Direction == {"buy", "sell"}
Model == {"spot", "open", "closed"}     \* SPOT_MODEL, in MONITOR_MODELS, no longer there
Price == 0 .. 2                         \* 0: not set
Config == [dir : Direction, model : Model, take : Price, stop : Price]
Row == [owner : User, valid : BOOLEAN, config : Config]

Status == {"ok", "pending", "stale"}    \* unconfigured, config_mismatch, error block like pending
Holding == {"unsupported", "none", "unvalued", "below", "eligible"}

Keep == -1
Change == [dir : Direction \cup {"keep"}, model : {"keep", "open"},
           take : {Keep} \cup Price, stop : {Keep} \cup Price, valid : {"keep", "on", "off"}]

Only(valid) == [dir |-> "keep", model |-> "keep", take |-> Keep, stop |-> Keep, valid |-> valid]
Pause == Only("off")
Resume == Only("on")

(* Only the direct pair with USDT counts, at a price that is fresh.        *)
position == IF snapshot.status = "ok" THEN snapshot.holding ELSE "unsupported"
Eligible == position = "eligible"

(* The model of a sell monitor is set, whatever was sent.                  *)
Normal(c) == IF c.dir = "sell" THEN [c EXCEPT !.model = "spot"] ELSE c

validate_config(c) ==
    /\ c.dir = "buy" => c.model = "open" /\ c.take = 0 /\ c.stop = 0
    /\ c.dir = "sell" => c.take # 0 \/ c.stop # 0
    /\ c.take # 0 /\ c.stop # 0 => c.stop < c.take

(* Mutant: the readiness of a buy monitor does not look at its model.      *)
ReadinessLoose ==
    IF row.config.dir = "sell" /\ row.owner # "root" THEN "unsupported_account"
    ELSE IF row.config.dir = "buy" THEN "monitoring"
    ELSE IF row.config.model # "spot" \/ ~validate_config(Normal(row.config)) THEN "needs_configuration"
    ELSE IF snapshot.status # "ok" THEN snapshot.status
    ELSE IF Eligible THEN "monitoring" ELSE snapshot.holding

Readiness ==
    IF row.config.dir = "sell" /\ row.owner # "root" THEN "unsupported_account"
    ELSE IF row.config.dir = "sell" /\ row.config.model # "spot" THEN "needs_configuration"
    ELSE IF ~validate_config(Normal(row.config)) THEN "needs_configuration"
    ELSE IF row.config.dir = "buy" THEN "monitoring"
    ELSE IF snapshot.status # "ok" THEN snapshot.status
    ELSE IF Eligible THEN "monitoring" ELSE snapshot.holding

ShownStatus == IF row.valid THEN Readiness ELSE "paused"
Manages(viewer) == viewer = "root" \/ viewer = row.owner
ResumeOffered(viewer) == Manages(viewer) /\ ~row.valid /\ Readiness = "monitoring"

Or(new, old, keep) == IF new = keep THEN old ELSE new

Merged(c) ==
    LET dir == Or(c.dir, row.config.dir, "keep")
    IN  [dir |-> dir, model |-> Or(c.model, row.config.model, "keep"),
         take |-> IF dir = "buy" THEN 0 ELSE Or(c.take, row.config.take, Keep),
         stop |-> IF dir = "buy" THEN 0 ELSE Or(c.stop, row.config.stop, Keep)]

(* update_monitor, with the locks taken and the row read again: a pause    *)
(* asks nothing but the right to manage, any other change to a sell        *)
(* monitor needs root, the spot model and an eligible position.            *)
Accepted(viewer, c) ==
    /\ Manages(viewer)
    /\ Or(c.dir, row.config.dir, "keep") = "sell" /\ c # Pause =>
          /\ viewer = "root" /\ row.owner = "root"
          /\ row.config.model = "spot" \/ c.dir = "sell"
    /\ c = Resume => ResumeOffered(viewer)
    /\ c # Pause => validate_config(Normal(Merged(c)))
    /\ c # Pause /\ Merged(c).dir = "sell" => Eligible

(* Rows of the time before spot monitors and before a model was withdrawn  *)
(* are still there: monitor_state and update_monitor tell them apart.      *)
Init ==
    /\ row \in [owner : User, valid : BOOLEAN,
                config : [dir : {"buy"}, model : {"open", "closed"}, take : {0}, stop : {0}]
                         \cup [dir : {"sell"}, model : {"open", "closed"}, take : Price, stop : Price]]
    /\ snapshot = [status |-> "pending", holding |-> "unsupported"]

UpdateMonitor(viewer, c) ==
    /\ Accepted(viewer, c)
    /\ row' = [row EXCEPT !.config = IF c = Pause THEN @ ELSE Normal(Merged(c)),
                          !.valid = IF c.valid = "keep" THEN @ ELSE c.valid = "on"]
    /\ UNCHANGED snapshot

(* A synchronisation, a trade, a price, the age limit.                     *)
SnapshotChanges ==
    /\ snapshot' \in [status : Status, holding : Holding]
    /\ UNCHANGED row

Next ==
    \/ \E viewer \in User, c \in Change : UpdateMonitor(viewer, c)
    \/ SnapshotChanges

Spec == Init /\ [][Next]_monitorVars

-----------------------------------------------------------------------------
(* check_monitor_prices takes a row and, at the right price, a notice is   *)
(* queued.                                                                 *)
CheckedForPrice ==
    /\ row.valid /\ row.config.dir = "sell" /\ row.owner = "root" /\ row.config.model = "spot"
    /\ row.config.take # 0 \/ row.config.stop # 0
    /\ Eligible

(* StrategyCheckHandle.check: a rule must exist for model and direction.   *)
CheckedForSignal == row.valid /\ row.config.dir = "buy" /\ row.config.model = "open"

(* deliver_monitor_notice lets a notice of this row out.                   *)
Deliverable ==
    /\ row.valid
    /\ IF row.config.dir = "sell"
       THEN row.owner = "root" /\ row.config.model = "spot" /\ Eligible
       ELSE row.config.model = "open"

-----------------------------------------------------------------------------
TypeOK == row \in Row /\ snapshot \in [status : Status, holding : Holding]

(* A monitor is shown as monitoring exactly while one of the checks would  *)
(* notice its signal and the delivery would mail it: after any history of  *)
(* edits, pauses, withdrawn models and synchronisations nobody trusts a    *)
(* monitor that is dead, and none shown as blocked sends mail              *)
(* (monitor_state.py:31-58, monitor.py:60-90, 140-151, strategy.py:333).   *)
WatchedAsShown ==
    /\ ShownStatus = "monitoring" <=> CheckedForPrice \/ CheckedForSignal
    /\ ShownStatus = "monitoring" <=> Deliverable

(* What the list offers as resume is accepted   *)
(* when it is asked for at once, and nothing else is; the list of actions  *)
(* and update_monitor decide separately (monitor_state.py:65-72,           *)
(* market.py:320-347).                                                     *)
ResumeHonoured ==
    \A viewer \in User : ResumeOffered(viewer) <=> Accepted(viewer, Resume)

(* What is shown, offered, checked, delivered and accepted agree.          *)
ShownAsDecided == WatchedAsShown /\ ResumeHonoured

=============================================================================
