------------------------------ MODULE TopPrice ------------------------------
(***************************************************************************)
(* Notices of new highs: check_break_history_top_price and                 *)
(* update_all_symbols (TopPriceTaskHandle, msgqueue/tasks/plot.py), which  *)
(* run in the consumers of different queues, send_msg with its history     *)
(* (msgqueue/tasks/base.py), and what the mail task makes of the message   *)
(* (msgqueue/tasks/sms.py).                                                *)
(*                                                                         *)
(* Whether the newest candle of a symbol is a new high is an input.        *)
(***************************************************************************)
EXTENDS Integers, FiniteSets

CONSTANTS
    Workers,    \* the consumers at work on one of the two jobs
    Symbols,    \* the symbols the exchange lists against USDT
    MaxHour     \* bound: hours, each with one newest candle

TopAssumption == MaxHour \in Nat \ {0}

VARIABLES
    listed,     \* bn_symbol_table
    watched,    \* how many monitors there are of each symbol
    enabled,    \* CandidateTopPriceNoticeSetting
    hour,       \* opening time of the newest candle
    worker,     \* per worker: where its job is
    topHistory, \* email_msg_history_table: the notices on record
    topQueue,   \* messages for the mail task
    pushes,     \* ghost: how often each notice was published
    discarded   \* ghost: the kinds of messages the mail task threw away

topVars == <<listed, watched, enabled, hour, worker, topHistory, topQueue, pushes, discarded>>

Source == {"rows", "api"}   \* candles of the table, candles of the exchange
Notice == [symbol : Symbols, hour : 1 .. MaxHour, source : Source]
NoNotice == [source |-> "none"]
Rest == [at |-> "idle", job |-> "none", candidates |-> {}, rows |-> [s \in Symbols |-> 0],
         seen |-> {}, notice |-> NoNotice]

Init ==
    /\ listed \in {{}, Symbols}
    /\ watched \in [Symbols -> 0 .. 2]
    /\ enabled \in BOOLEAN
    /\ hour = 1
    /\ worker = [w \in Workers |-> Rest]
    /\ topHistory = {}
    /\ topQueue \in {{}, {[kind |-> "retired", notice |-> NoNotice]}}
    /\ pushes = [n \in Notice |-> 0]
    /\ discarded = {}

Is(w, place) == worker[w].at = place
Becomes(w, state) == worker' = [worker EXCEPT ![w] = state]
Goto(w, place) == Becomes(w, [worker[w] EXCEPT !.at = place])

(* The valid symbols are read; an empty table is filled first.             *)
StartCheck(w) ==
    /\ Is(w, "idle")
    /\ Becomes(w, [Rest EXCEPT !.at = IF listed = {} THEN "fetch" ELSE "users",
                               !.job = "check", !.candidates = listed])
    /\ UNCHANGED <<listed, watched, enabled, hour, topHistory, topQueue, pushes, discarded>>

StartUpdate(w) ==
    /\ Is(w, "idle")
    /\ Becomes(w, [Rest EXCEPT !.at = "fetch", !.job = "update"])
    /\ UNCHANGED <<listed, watched, enabled, hour, topHistory, topQueue, pushes, discarded>>

(* The exchange answers, and the table is read to find what is new.        *)
FetchSymbols(w) ==
    /\ Is(w, "fetch")
    /\ Becomes(w, [worker[w] EXCEPT !.at = "insert", !.candidates = Symbols, !.seen = listed])
    /\ UNCHANGED <<listed, watched, enabled, hour, topHistory, topQueue, pushes, discarded>>

(* One transaction: a symbol that another job inserted meanwhile rolls     *)
(* all of it back, and ends the job.                                       *)
InsertSymbols(w) ==
    /\ Is(w, "insert")
    /\ LET new == worker[w].candidates \ worker[w].seen
       IN  IF new \cap listed # {}
           THEN UNCHANGED listed /\ Becomes(w, Rest)
           ELSE /\ listed' = listed \cup new
                /\ Becomes(w, IF worker[w].job = "update" THEN Rest
                              ELSE [worker[w] EXCEPT !.at = "users", !.seen = {}])
    /\ UNCHANGED <<watched, enabled, hour, topHistory, topQueue, pushes, discarded>>

(* All monitors, whoever owns them, also paused ones.                      *)
ReadMonitors(w) ==
    /\ Is(w, "users")
    /\ Becomes(w, [worker[w] EXCEPT !.at = "rows", !.rows = watched,
                                    !.seen = {s \in Symbols : watched[s] > 0}])
    /\ UNCHANGED <<listed, watched, enabled, hour, topHistory, topQueue, pushes, discarded>>

(* A new high makes a notice; its time is that of the newest candle there  *)
(* is, which in the table may still be the one before.                     *)
Notices(w, s, state) ==
    \E n \in Notice :
        /\ n.symbol = s /\ n.source = worker[w].at
        /\ n.hour \in IF Is(w, "api") THEN {hour} ELSE {hour - 1, hour}
        /\ Becomes(w, [state EXCEPT !.at = "look", !.notice = n])

Struck(w, s) == [worker[w] EXCEPT !.candidates = @ \ {s}]
Taken(w, s) == [worker[w] EXCEPT !.rows[s] = @ - 1]

(* A listed symbol is struck off the list, and that is all; one that is    *)
(* not there, or no more, is looked up in the table of candles.            *)
TakeMonitor(w, s) ==
    /\ Is(w, "rows") /\ worker[w].rows[s] > 0
    /\ IF s \in worker[w].candidates
       THEN Becomes(w, [Taken(w, s) EXCEPT !.candidates = @ \ {s}])
       ELSE Becomes(w, Taken(w, s)) \/ Notices(w, s, Taken(w, s))
    /\ UNCHANGED <<listed, watched, enabled, hour, topHistory, topQueue, pushes, discarded>>

MonitorsDone(w) ==
    /\ Is(w, "rows") /\ \A s \in Symbols : worker[w].rows[s] = 0
    /\ Becomes(w, IF enabled THEN [worker[w] EXCEPT !.at = "api"] ELSE Rest)
    /\ UNCHANGED <<listed, watched, enabled, hour, topHistory, topQueue, pushes, discarded>>

(* A candidate's candles are asked for; no answer is no high.              *)
TakeCandidate(w, s) ==
    /\ Is(w, "api") /\ s \in worker[w].candidates
    /\ Becomes(w, Struck(w, s)) \/ Notices(w, s, Struck(w, s))
    /\ UNCHANGED <<listed, watched, enabled, hour, topHistory, topQueue, pushes, discarded>>

CandidatesDone(w) ==
    /\ Is(w, "api") /\ worker[w].candidates = {}
    /\ Becomes(w, Rest)
    /\ UNCHANGED <<listed, watched, enabled, hour, topHistory, topQueue, pushes, discarded>>

(* send_msg goes back to the loop it was called from.                      *)
Resumed(w) == [worker[w] EXCEPT !.at = worker[w].notice.source, !.notice = NoNotice]

LookAtHistory(w) ==
    /\ Is(w, "look")
    /\ IF worker[w].notice \in topHistory THEN Becomes(w, Resumed(w)) ELSE Goto(w, "record")
    /\ UNCHANGED <<listed, watched, enabled, hour, topHistory, topQueue, pushes, discarded>>

(* Mutant: the digest is not unique in the table.                          *)
RecordAnyNotice(w) ==
    /\ Is(w, "record")
    /\ topHistory' = topHistory \cup {worker[w].notice}
    /\ Goto(w, "push")
    /\ UNCHANGED <<listed, watched, enabled, hour, topQueue, pushes, discarded>>

(* The digest is unique: the second of two that looked at once fails, and  *)
(* the rest of its job with it.                                            *)
RecordNotice(w) ==
    /\ Is(w, "record")
    /\ IF worker[w].notice \in topHistory
       THEN UNCHANGED topHistory /\ Becomes(w, Rest)
       ELSE topHistory' = topHistory \cup {worker[w].notice} /\ Goto(w, "push")
    /\ UNCHANGED <<listed, watched, enabled, hour, topQueue, pushes, discarded>>

(* push_msg logs what it cannot publish, and says no more: that notice is  *)
(* on record and never sent.                                               *)
PushNotice(w) ==
    /\ Is(w, "push")
    /\ \/ /\ topQueue' = topQueue \cup {[kind |-> "top", notice |-> worker[w].notice]}
          /\ pushes' = [pushes EXCEPT ![worker[w].notice] = @ + 1]
       \/ UNCHANGED <<topQueue, pushes>>
    /\ Becomes(w, Resumed(w))
    /\ UNCHANGED <<listed, watched, enabled, hour, topHistory, discarded>>

(* `title.endswith((" Strategy Check Notice", " Price Notice"))`: the      *)
(* title of a new high is "<symbol> Top Price Notice".                     *)
EndsLikeRetired(kind) == kind \in {"retired", "top"}

(* A message that is thrown away is acknowledged like one that was mailed. *)
TakeMessage(m) ==
    /\ topQueue' = topQueue \ {m}
    /\ IF EndsLikeRetired(m.kind) THEN discarded' = discarded \cup {m.kind} ELSE UNCHANGED discarded
    /\ UNCHANGED <<listed, watched, enabled, hour, worker, topHistory, pushes>>

Crash(w) ==
    /\ ~Is(w, "idle")
    /\ Becomes(w, Rest)
    /\ UNCHANGED <<listed, watched, enabled, hour, topHistory, topQueue, pushes, discarded>>

NextHour ==
    /\ hour < MaxHour
    /\ hour' = hour + 1
    /\ UNCHANGED <<listed, watched, enabled, worker, topHistory, topQueue, pushes, discarded>>

SetEnabled ==
    /\ enabled' = ~enabled
    /\ UNCHANGED <<listed, watched, hour, worker, topHistory, topQueue, pushes, discarded>>

Next ==
    \/ \E w \in Workers :
          \/ StartCheck(w) \/ StartUpdate(w) \/ FetchSymbols(w) \/ InsertSymbols(w)
          \/ ReadMonitors(w) \/ MonitorsDone(w) \/ CandidatesDone(w)
          \/ \E s \in Symbols : TakeMonitor(w, s) \/ TakeCandidate(w, s)
          \/ LookAtHistory(w) \/ RecordNotice(w) \/ PushNotice(w)
          \/ Crash(w)
    \/ \E m \in topQueue : TakeMessage(m)
    \/ NextHour \/ SetEnabled

Spec == Init /\ [][Next]_topVars

-----------------------------------------------------------------------------
TypeOK ==
    /\ listed \subseteq Symbols
    /\ watched \in [Symbols -> 0 .. 2] /\ enabled \in BOOLEAN /\ hour \in 1 .. MaxHour
    /\ \A w \in Workers :
          /\ worker[w].at \in {"idle", "fetch", "insert", "users", "rows", "api", "look", "record", "push"}
          /\ worker[w].at \in {"look", "record", "push"} <=> worker[w].notice \in Notice
          /\ worker[w].candidates \subseteq Symbols /\ worker[w].rows \in [Symbols -> 0 .. 2]
    /\ topHistory \subseteq Notice /\ pushes \in [Notice -> 0 .. 1]
    /\ discarded \subseteq {"top", "retired"}

(* A new high is published once, and only when it is on record: jobs that  *)
(* overlap, and jobs that were cut off and run again, do not repeat it     *)
(* (msgqueue/tasks/base.py:28-49).                                         *)
PublishedOnce ==
    \A n \in Notice : pushes[n] <= IF n \in topHistory THEN 1 ELSE 0

(* A notice of a candidate never is about a symbol that somebody monitors, *)
(* however many monitors it has and whatever the other jobs do to the      *)
(* list (plot.py:237-255).                                                 *)
CandidatesUnwatched ==
    \A w \in Workers :
        /\ Is(w, "api") => worker[w].candidates \cap worker[w].seen = {}
        /\ worker[w].notice # NoNotice /\ worker[w].notice.source = "api" =>
              worker[w].notice.symbol \notin worker[w].seen

(* "Queued notices from the retired automatic/independent-price flow have  *)
(* no owner/version" (sms.py:14): nothing else is thrown away.             *)
DiscardsOnlyRetired == discarded \subseteq {"retired"}

(* Each new high once, and a candidate's only if nobody watches it.        *)
HighsToldOnce == PublishedOnce /\ CandidatesUnwatched

=============================================================================
