---------------------------- MODULE NoticePromise ----------------------------
(***************************************************************************)
(* What the notification path promises to the owner of a monitor, whatever *)
(* the number of checkers, consumers and requests: an email is sent only   *)
(* for the configuration the monitor has at that moment, and once for each *)
(* digest.  The promise about a monitor is suspended only once a lock of   *)
(* it was outlived by its holder, and a digest is pardoned only by a fault *)
(* between the email and its record.  MonitorNotice implements this module *)
(* (NoticePromised there).                                                 *)
(***************************************************************************)
EXTENDS Integers

CONSTANTS
  Monitors,   \* monitor rows
  Versions,   \* configuration versions, a set of numbers
  Digests,    \* tuples <<monitor, version, reason, candle>>
  NoVersion   \* a paused or removed monitor has no active version

VARIABLES
  newest,     \* the newest version of each monitor
  active,     \* the version each monitor is notified for, or NoVersion
  sent,       \* digests emailed
  again,      \* digests emailed more than once
  pardoned,   \* digests that may be emailed again
  suspended   \* monitors about which nothing is promised any more

promiseVars == <<newest, active, sent, again, pardoned, suspended>>

PromiseInit ==
  /\ newest \in [Monitors -> Versions]
  /\ active \in {newest} \cup [Monitors -> {NoVersion}]
  /\ sent = {} /\ again = {} /\ pardoned = {} /\ suspended = {}

\* A monitor stops, or continues with a version that no notice was built for.
Reconfigure(m) ==
  /\ \E v \in Versions, a \in Versions \cup {NoVersion} :
       /\ \/ a = NoVersion /\ v >= newest[m]
          \/ a = v /\ v > newest[m]
       /\ newest' = [newest EXCEPT ![m] = v]
       /\ active' = [active EXCEPT ![m] = a]
  /\ UNCHANGED <<sent, again, pardoned, suspended>>

Email(d) ==
  /\ \/ d[1] \in suspended
     \/ active[d[1]] = d[2] /\ (d \notin sent \/ d \in pardoned)
  /\ sent' = sent \cup {d}
  /\ again' = IF d \in sent THEN again \cup {d} ELSE again
  /\ UNCHANGED <<newest, active, pardoned, suspended>>

Pardon(d) ==
  /\ d \in sent
  /\ pardoned' = pardoned \cup {d}
  /\ UNCHANGED <<newest, active, sent, again, suspended>>

Suspend(m) ==
  /\ suspended' = suspended \cup {m}
  /\ UNCHANGED <<newest, active, sent, again, pardoned>>

PromiseNext ==
  \/ \E m \in Monitors : Reconfigure(m) \/ Suspend(m)
  \/ \E d \in Digests : Email(d) \/ Pardon(d)

PromiseSpec == PromiseInit /\ [][PromiseNext]_promiseVars
=============================================================================
