------------------------------ MODULE JobQueue ------------------------------
(***************************************************************************)
(* One RabbitMQ queue of the system: the scheduler that pushes jobs into   *)
(* it (amf_scheduler.py), or the tasks that push mails into amf_msg        *)
(* (msgqueue/queue.py), and the consumer process that serves the queue     *)
(* (amf_consumers.py, exts.py, msgqueue/__init__.py).                      *)
(*                                                                         *)
(* A message is the number of the put that stored it.  A job pushed again  *)
(* after a late error is another message.  The consumer acknowledges a     *)
(* message before it handles it; one that fails is reported by an email    *)
(* message, which goes into the same queue if that is amf_msg.             *)
(***************************************************************************)
EXTENDS Integers, Sequences, FiniteSets

CONSTANTS
    MaxAttempts,            \* max_attempts of push_to_queue
    MaxReconnects,          \* max_reconnect_attempts of QueueConnectionManager
    MaxConnectionFailures,  \* of the consumer loop, before the long sleep
    MaxProcessingFailures,  \* of the consumer loop, before it reconnects
    MaxPuts,                \* bound: messages ever stored
    MaxFaults,              \* bound: failing calls, malformed messages, signals and kills
    MaxOutages              \* bound: times the broker goes down

ASSUME ConstantsAssumption ==
    /\ {MaxAttempts, MaxReconnects, MaxConnectionFailures, MaxProcessingFailures} \subseteq Nat \ {0}
    /\ {MaxPuts, MaxFaults, MaxOutages} \subseteq Nat

VARIABLES
    ownQueue,   \* the queue is amf_msg: push_msg fills it, error mails come back to it
    up,         \* the broker answers
    queue,      \* the stored messages
    puts,       \* messages stored so far
    pushes,     \* those of them that are no error mails
    push,       \* push_to_queue: Idle, or the failed attempts so far
    pc,         \* the consumer: top, get, acking, handling, reconnect, exited
    current,    \* the message it holds, 0 for none
    mq,         \* it has a SimpleQueue
    stop,       \* restart_flag
    connectionFailures, processingFailures,
    reconnects, \* reconnect_attempts of the connection manager
    handled,    \* how often a message was handed to its task
    lost,       \* messages acknowledged but never handled
    faults, outages

broker == <<up, outages>>
producer == <<ownQueue, push, pushes>>
counters == <<connectionFailures, processingFailures, reconnects>>
vars == <<ownQueue, up, queue, puts, pushes, push, pc, current, mq, stop, connectionFailures,
          processingFailures, reconnects, handled, lost, faults, outages>>

Message == 1 .. MaxPuts
Idle == -1

Init ==
    /\ ownQueue \in BOOLEAN
    /\ up = TRUE
    /\ queue = <<>> /\ puts = 0 /\ pushes = 0 /\ push = Idle
    /\ pc = "top" /\ current = 0 /\ mq = FALSE /\ stop = FALSE
    /\ connectionFailures = 0 /\ processingFailures = 0 /\ reconnects = 0
    /\ handled = [m \in Message |-> 0] /\ lost = {}
    /\ faults = 0 /\ outages = 0

Fault == faults < MaxFaults /\ faults' = faults + 1
FailedCall == Fault \/ (~up /\ UNCHANGED faults)

-----------------------------------------------------------------------------
(* push_to_queue: `while attempt <= max_attempts`.                         *)

Store ==
    /\ up
    /\ puts < MaxPuts
    /\ puts' = puts + 1
    /\ queue' = Append(queue, puts + 1)

consumerVars == <<pc, current, mq, stop, counters, handled, lost>>

BeginPush ==
    /\ push = Idle
    /\ puts < MaxPuts
    /\ push' = 0
    /\ UNCHANGED <<ownQueue, broker, queue, puts, pushes, consumerVars, faults>>

Publish ==
    /\ push # Idle
    /\ Store
    /\ pushes' = pushes + 1
    /\ push' = Idle
    /\ UNCHANGED <<ownQueue, broker, consumerVars, faults>>

(* push_msg gives up, or raises, after the first failure.                  *)
AfterFailure == IF ~ownQueue /\ push + 1 <= MaxAttempts THEN push + 1 ELSE Idle

PublishFails ==
    /\ push # Idle
    /\ FailedCall
    /\ push' = AfterFailure
    /\ UNCHANGED <<ownQueue, broker, queue, puts, pushes, consumerVars>>

(* The message is stored, but closing the queue or releasing the           *)
(* connection raises: the scheduler publishes the job once more.           *)
PublishFailsLate ==
    /\ push # Idle
    /\ Fault
    /\ Store
    /\ pushes' = pushes + 1
    /\ push' = AfterFailure
    /\ UNCHANGED <<ownQueue, broker, consumerVars>>

-----------------------------------------------------------------------------
(* The consumer loop.                                                      *)

Top ==
    /\ pc = "top"
    /\ pc' = IF stop THEN "exited" ELSE "get"
    /\ UNCHANGED <<broker, queue, puts, producer, current, mq, stop, counters, handled, lost, faults>>

(* Mutant: after the last attempt it really stops reconnecting.            *)
ConnectUntilMax ==
    /\ pc = "get" /\ ~mq
    /\ up
    /\ reconnects < MaxReconnects
    /\ mq' = TRUE
    /\ UNCHANGED <<broker, queue, puts, producer, pc, current, stop, counters, handled, lost, faults>>

Connect ==
    /\ pc = "get" /\ ~mq
    /\ up
    /\ mq' = TRUE
    /\ connectionFailures' = 0
    /\ reconnects' = 0
    /\ UNCHANGED <<broker, queue, puts, producer, pc, current, stop, processingFailures, handled, lost,
                   faults>>

(* The connection fails and is counted (capped one above the maximum, for  *)
(* a finite model), or comes too soon after the last one and is not, or    *)
(* stands and the queue cannot be declared.                                *)
FailedReconnect ==
    \/ reconnects' = IF reconnects <= MaxReconnects THEN reconnects + 1 ELSE reconnects
    \/ UNCHANGED reconnects
    \/ reconnects' = 0

ConnectFails ==
    /\ pc = "get" /\ ~mq
    /\ FailedCall
    /\ connectionFailures' = IF connectionFailures + 1 >= MaxConnectionFailures
                             THEN 0 ELSE connectionFailures + 1
    /\ FailedReconnect
    /\ pc' = "top"
    /\ UNCHANGED <<broker, queue, puts, producer, current, mq, stop, processingFailures, handled, lost>>

GetNothing ==
    /\ pc = "get" /\ mq /\ up
    /\ queue = <<>>
    /\ pc' = "top"
    /\ UNCHANGED <<broker, queue, puts, producer, current, mq, stop, counters, handled, lost, faults>>

GetMessage ==
    /\ pc = "get" /\ mq /\ up
    /\ queue # <<>>
    /\ current' = Head(queue)
    /\ queue' = Tail(queue)
    /\ pc' = "acking"
    /\ UNCHANGED <<broker, puts, producer, mq, stop, counters, handled, lost, faults>>

GetFails ==
    /\ pc = "get" /\ mq
    /\ FailedCall
    /\ pc' = "reconnect"
    /\ UNCHANGED <<broker, queue, puts, producer, current, mq, stop, counters, handled, lost>>

(* Mutant: the flag is looked at again after the acknowledgement.          *)
AckThenStop ==
    /\ pc = "acking" /\ up
    /\ pc' = IF stop THEN "exited" ELSE "handling"
    /\ current' = IF stop THEN 0 ELSE current
    /\ UNCHANGED <<broker, queue, puts, producer, mq, stop, counters, handled, lost, faults>>

Ack ==
    /\ pc = "acking" /\ up
    /\ pc' = "handling"
    /\ UNCHANGED <<broker, queue, puts, producer, current, mq, stop, counters, handled, lost, faults>>

(* An acknowledgement that raises may or may not have reached the broker;  *)
(* if not, the message returns to the head of the queue.                   *)
AckFails ==
    /\ pc = "acking"
    /\ FailedCall
    /\ \/ queue' = <<current>> \o queue /\ UNCHANGED lost
       \/ lost' = lost \cup {current} /\ UNCHANGED queue
    /\ current' = 0
    /\ pc' = "reconnect"
    /\ UNCHANGED <<broker, puts, producer, mq, stop, counters, handled>>

Reconnect ==
    /\ pc = "reconnect"
    /\ \/ up /\ mq' = TRUE /\ reconnects' = 0 /\ UNCHANGED faults
       \/ FailedCall /\ mq' = FALSE /\ FailedReconnect
    /\ pc' = "top"
    /\ UNCHANGED <<broker, queue, puts, producer, current, stop, connectionFailures, processingFailures,
                   handled, lost>>

HandOver ==
    /\ pc = "handling"
    /\ handled' = [handled EXCEPT ![current] = @ + 1]
    /\ current' = 0
    /\ pc' = "top"

Handle ==
    /\ HandOver
    /\ UNCHANGED <<broker, queue, puts, producer, mq, stop, counters, lost, faults>>

(* Mutant: the failed job is pushed again beside the mail.                 *)
HandleFailsTwice ==
    /\ HandOver
    /\ Fault
    /\ IF ownQueue /\ up /\ puts + 2 <= MaxPuts
       THEN puts' = puts + 2 /\ queue' = queue \o <<puts + 1, puts + 2>>
       ELSE UNCHANGED <<queue, puts>>
    /\ UNCHANGED <<broker, producer, mq, stop, counters, lost>>

(* deal_msg: the task raises and its error is mailed; push_msg is not      *)
(* strict, so the mail may be dropped.                                     *)
HandleFails ==
    /\ HandOver
    /\ Fault
    /\ \/ ownQueue /\ Store
       \/ UNCHANGED <<queue, puts>>
    /\ UNCHANGED <<broker, producer, mq, stop, counters, lost>>

(* Mutant: the failures are compared with > instead of >=.                 *)
HandleRaisesLate ==
    /\ HandOver
    /\ Fault
    /\ IF processingFailures + 1 > MaxProcessingFailures
       THEN mq' = FALSE /\ processingFailures' = 0
       ELSE processingFailures' = processingFailures + 1 /\ UNCHANGED mq
    /\ UNCHANGED <<broker, queue, puts, producer, stop, connectionFailures, reconnects, lost>>

(* A body deal_msg cannot read raises out of process_message.              *)
HandleRaises ==
    /\ HandOver
    /\ Fault
    /\ IF processingFailures + 1 >= MaxProcessingFailures
       THEN mq' = FALSE /\ processingFailures' = 0
       ELSE processingFailures' = processingFailures + 1 /\ UNCHANGED mq
    /\ UNCHANGED <<broker, queue, puts, producer, stop, connectionFailures, reconnects, lost>>

-----------------------------------------------------------------------------
(* A signal only sets the flag; a kill takes the process wherever it is.   *)

Signal ==
    /\ pc # "exited"
    /\ Fault
    /\ stop' = TRUE
    /\ UNCHANGED <<broker, queue, puts, producer, pc, current, mq, counters, handled, lost>>

Kill ==
    /\ pc # "exited"
    /\ Fault
    /\ pc' = "exited"
    /\ current' = 0
    /\ queue' = IF pc = "acking" THEN <<current>> \o queue ELSE queue
    /\ lost' = IF pc = "handling" THEN lost \cup {current} ELSE lost
    /\ UNCHANGED <<broker, puts, producer, mq, stop, counters, handled>>

Restart ==
    /\ pc = "exited"
    /\ pc' = "top" /\ mq' = FALSE /\ stop' = FALSE
    /\ connectionFailures' = 0 /\ processingFailures' = 0 /\ reconnects' = 0
    /\ UNCHANGED <<broker, queue, puts, producer, current, handled, lost, faults>>

BrokerFails ==
    /\ up
    /\ outages < MaxOutages
    /\ up' = FALSE
    /\ outages' = outages + 1
    /\ UNCHANGED <<queue, puts, producer, consumerVars, faults>>

BrokerRecovers ==
    /\ ~up
    /\ up' = TRUE
    /\ UNCHANGED <<outages, queue, puts, producer, consumerVars, faults>>

Next ==
    \/ BeginPush \/ Publish \/ PublishFails \/ PublishFailsLate
    \/ Top \/ Connect \/ ConnectFails \/ GetNothing \/ GetMessage \/ GetFails
    \/ Ack \/ AckFails \/ Reconnect
    \/ Handle \/ HandleFails \/ HandleRaises
    \/ Signal \/ Kill \/ Restart
    \/ BrokerFails \/ BrokerRecovers

ConsumerStep ==
    Top \/ Connect \/ ConnectFails \/ GetNothing \/ GetMessage \/ GetFails \/ Ack \/ AckFails
        \/ Reconnect \/ Handle \/ HandleFails \/ HandleRaises

(* The loop goes on, the container restarts the process, and somebody      *)
(* restarts the broker.                                                    *)
Fairness == WF_vars(ConsumerStep) /\ WF_vars(Restart) /\ WF_vars(BrokerRecovers)

Spec == Init /\ [][Next]_vars
FairSpec == Spec /\ Fairness

-----------------------------------------------------------------------------
Waiting == {queue[n] : n \in DOMAIN queue}

TypeOK ==
    /\ {ownQueue, up, mq, stop} \subseteq BOOLEAN
    /\ queue \in Seq(Message) /\ puts \in 0 .. MaxPuts /\ pushes \in 0 .. puts
    /\ push \in {Idle} \cup 0 .. MaxAttempts
    /\ pc \in {"top", "get", "acking", "handling", "reconnect", "exited"}
    /\ current \in 0 .. puts /\ (current # 0 <=> pc \in {"acking", "handling"})
    /\ connectionFailures \in 0 .. MaxConnectionFailures - 1
    /\ processingFailures \in 0 .. MaxProcessingFailures - 1
    /\ reconnects \in 0 .. MaxReconnects + 1
    /\ handled \in [Message -> Nat] /\ lost \subseteq Message
    /\ faults \in 0 .. MaxFaults /\ outages \in 0 .. MaxOutages

(* A message stored once is in one place: it waits, is held, was handled   *)
(* once, or was lost by a kill or an acknowledgement that raised.  In      *)
(* particular a redelivery never repeats a task, and an orderly stop       *)
(* (SIGTERM) loses nothing (amf_consumers.py:41-44, 66-68, 94-123).        *)
EachMessageOnce ==
    \A m \in 1 .. puts :
        Cardinality({n \in DOMAIN queue : queue[n] = m}) + (IF current = m THEN 1 ELSE 0)
            + handled[m] + (IF m \in lost THEN 1 ELSE 0) = 1

(* A task of amf_msg that fails reports into its own queue.  That never    *)
(* makes the queue longer than the producers made it: a failing message is *)
(* replaced by at most one other (msgqueue/__init__.py:63-78).             *)
ErrorMailsBounded ==
    Cardinality(Waiting \cup ({current} \ {0})) <= pushes

(* Every stored message is fetched, whatever fails: an outage, ten bodies  *)
(* nobody can read, kills and restarts.                                    *)
Drains == \A m \in Message : m \in Waiting ~> m \notin Waiting
=============================================================================
