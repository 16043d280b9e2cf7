----------------------------- MODULE RateLimit -----------------------------
(***************************************************************************)
(* The two counters in Redis that limit a rate: that of the HTTP requests  *)
(* (parse_request_params, amf.py, key api:count, 60 seconds) and that of   *)
(* the mails (check_rate_limit, cache/__init__.py, called by send_email of *)
(* business/mail_serve.py, key email_send_limit, 600 seconds).             *)
(*                                                                         *)
(* Both read the key, compare, and then either set it with an expiry or    *)
(* increment it.  Redis expires the key whenever its time is over, also    *)
(* between the two calls.  The web process is one process whose calls to   *)
(* Redis block; mails are sent by several consumers.                       *)
(***************************************************************************)
EXTENDS Integers, FiniteSets

CONSTANTS
    Senders,        \* the processes that ask
    Limit,          \* 100 in both uses
    Window,         \* the expiry, in ticks
    MaxAdmitted,    \* bound: calls admitted since the key was last absent
    MaxFailures     \* bound: Redis calls that fail

VARIABLES
    counter,    \* "api" or "mail"
    count,      \* the value of the key, 0 while there is none
    ttl,        \* its time to live, or Forever
    sender,     \* per process: what it read, or NotAsking
    admitted,   \* calls let through since the key was last absent
    quiet,      \* ticks since a call was last let through
    slipped,    \* an increment met a key that had expired since it was read
    redisFailures

rateVars == <<counter, count, ttl, sender, admitted, quiet, slipped, redisFailures>>

(* The values the constants may have. The proofs suppose it; Parts states  *)
(* it of its constants.                                                    *)
RateAssumption ==
    /\ IsFiniteSet(Senders)
    /\ {Limit, Window} \subseteq Nat \ {0} /\ {MaxAdmitted, MaxFailures} \subseteq Nat

Forever == -1
NotAsking == -1

Init ==
    /\ counter \in {"api", "mail"}
    /\ count = 0 /\ ttl = 0
    /\ sender = [s \in Senders |-> NotAsking]
    /\ admitted = 0 /\ quiet = 0
    /\ slipped = FALSE
    /\ redisFailures = 0

(* Requests of the one web process do not overlap: nothing is awaited      *)
(* between the first middleware and the last call to Redis.                *)
MayAsk(s) ==
    /\ sender[s] = NotAsking
    /\ counter = "api" => \A t \in Senders : sender[t] = NotAsking

(* `int(api_count) > 100` for requests, `int(count) >= limit` for mails.   *)
Full(c) == IF counter = "api" THEN c > Limit ELSE c >= Limit

Admit ==
    /\ admitted < MaxAdmitted
    /\ admitted' = admitted + 1
    /\ quiet' = 0

(* A call that meets a full counter is refused, and changes nothing.       *)
ReadCount(s) ==
    /\ MayAsk(s)
    /\ ~Full(count)
    /\ sender' = [sender EXCEPT ![s] = count]
    /\ UNCHANGED <<counter, count, ttl, admitted, quiet, slipped, redisFailures>>

(* Mutant: the key is set without its expiry.                              *)
StartWindowForGood(s) ==
    /\ sender[s] = 0
    /\ Admit
    /\ count' = 1 /\ ttl' = Forever
    /\ sender' = [sender EXCEPT ![s] = NotAsking]
    /\ UNCHANGED <<counter, slipped, redisFailures>>

(* No key was there: SET key 1 EX.  A process that read before another set *)
(* the key starts the window once more.                                    *)
StartWindow(s) ==
    /\ sender[s] = 0
    /\ Admit
    /\ count' = 1 /\ ttl' = Window
    /\ sender' = [sender EXCEPT ![s] = NotAsking]
    /\ UNCHANGED <<counter, slipped, redisFailures>>

(* INCR keeps the expiry of the key it meets, and creates one without any. *)
Increment(n) ==
    /\ count' = count + n
    /\ ttl' = IF count = 0 THEN Forever ELSE ttl
    /\ slipped' = (slipped \/ count = 0)

CountCall(s) ==
    /\ sender[s] > 0
    /\ Admit
    /\ Increment(1)
    /\ sender' = [sender EXCEPT ![s] = NotAsking]
    /\ UNCHANGED <<counter, redisFailures>>

RedisFailure == redisFailures < MaxFailures /\ redisFailures' = redisFailures + 1

(* The answer to INCR times out: the client sends it once more             *)
(* (retry_on_timeout), and the first may have been carried out.            *)
CountCallRetried(s) ==
    /\ sender[s] > 0
    /\ RedisFailure
    /\ Admit
    /\ Increment(2)
    /\ sender' = [sender EXCEPT ![s] = NotAsking]
    /\ UNCHANGED counter

(* Redis does not answer at all.  The middleware lets the request through, *)
(* the mail task ends with the exception.                                  *)
RedisFails(s) ==
    /\ MayAsk(s) \/ sender[s] # NotAsking
    /\ RedisFailure
    /\ sender' = [sender EXCEPT ![s] = NotAsking]
    /\ UNCHANGED <<counter, count, ttl, admitted, slipped>>
    /\ IF counter = "api" THEN quiet' = 0 ELSE UNCHANGED quiet

Tick ==
    /\ ttl' = IF ttl > 0 THEN ttl - 1 ELSE ttl
    /\ IF ttl = 1 THEN count' = 0 /\ admitted' = 0 ELSE UNCHANGED <<count, admitted>>
    /\ quiet' = IF quiet > Window THEN quiet ELSE quiet + 1
    /\ UNCHANGED <<counter, sender, slipped, redisFailures>>

Next ==
    \/ \E s \in Senders :
          \/ ReadCount(s) \/ StartWindow(s)
          \/ CountCall(s) \/ CountCallRetried(s) \/ RedisFails(s)
    \/ Tick

Spec == Init /\ [][Next]_rateVars

-----------------------------------------------------------------------------
TypeOK ==
    /\ counter \in {"api", "mail"}
    /\ count \in 0 .. 2 * MaxAdmitted
    /\ ttl \in {Forever} \cup 0 .. Window /\ (ttl = 0 <=> count = 0)
    /\ sender \in [Senders -> {NotAsking} \cup Nat]
    /\ admitted \in 0 .. MaxAdmitted /\ quiet \in 0 .. Window + 1
    /\ slipped \in BOOLEAN /\ redisFailures \in 0 .. MaxFailures

(* The limiter counts no call it did not let through, but for one that was *)
(* sent to Redis again: a caller is refused only behind Limit others       *)
(* (cache/__init__.py:154-164, amf.py:103-110, exts.py:73).                *)
CountsWhatItAdmits == count <= admitted + redisFailures

(* How far the limit can be overrun: in the one web process by the one     *)
(* call the comparison allows; among the mail consumers by a window for    *)
(* each process whose read came before the key, and in each such window by *)
(* one call for each other process whose read came before the last one     *)
(* (amf.py:107, cache/__init__.py:156-161).                                *)
AdmittedBounded ==
    LET n == Cardinality(Senders)
    IN  ~slipped => admitted <= IF counter = "api" THEN Limit + 1
                                ELSE n * Limit + (n * (n - 1)) \div 2

(* Nobody is refused when a whole window has passed since the last call    *)
(* that was let through, except after an increment that met an expired key *)
(* and so left one that never expires (amf.py:110, cache/__init__.py:163). *)
RefusalsEndUnlessSlipped == Full(count) /\ quiet > Window => slipped

(* The limiters count, overrun and end as far as stated, and no further.   *)
LimitsKept == CountsWhatItAdmits /\ AdmittedBounded /\ RefusalsEndUnlessSlipped

=============================================================================
