---------------------------- MODULE MessageQueues ----------------------------
(***************************************************************************)
(* Messages between services, over a partition of a Kafka topic or a list  *)
(* in Redis: entity operations send them from their post-hooks, before     *)
(* they commit, and consumers execute the service functions they ask for.  *)
(*                                                                         *)
(* What executing a message does is module ServiceCalls; here it is one    *)
(* step that ends with a status, or throws.                                *)
(***************************************************************************)
EXTENDS Integers, Sequences, FiniteSets

CONSTANTS Operations,      \* operations that send
          FreeOperations,  \* bound: those that may send several messages, or unacknowledged
          Consumers,       \* replicas that consume
          Nobody,          \* owner of a partition that no consumer has
          Resent,          \* bound: those whose messages consumers may send again
          MaxCopies        \* bound: copies of a message, each sent from the one before

ASSUME FreeOperationsAssumption == FreeOperations \subseteq Operations
ASSUME MaxCopiesAssumption == MaxCopies \in Nat

VARIABLES broker,      \* which of the two the servers in the URLs are
          operation,   \* progress of each operation
          queue,       \* messages in the partition; those left in the list
          position,    \* Kafka: messages that the owner of the partition has passed
          offset,      \* Kafka: those its group has committed, or NoOffset
          start,       \* Kafka: messages that have expired and are deleted
          owner,       \* Kafka: consumer that the partition is assigned to
          consumer,    \* progress of each consumer
          sent,        \* history: messages that reached the broker
          settled,     \* history: messages that succeeded or were sent again
          lost,        \* history: messages that failed and could not be sent again
          skipped      \* history: messages passed over by a consumer that began at the end

sendVars == <<operation, sent>>
partitionVars == <<position, offset, start, owner>>
fates == <<settled, lost, skipped>>
vars == <<broker, operation, queue, partitionVars, consumer, sent, fates>>

-----------------------------------------------------------------------------
(* Messages and the operations that send them.                             *)

\* The part-th message of an operation, or a copy of it that a consumer has sent
\* again; answered: it has a responseUrl, which copies do not.
Messages == [operation : Operations, part : {1, 2}, copy : 0 .. MaxCopies, answered : BOOLEAN]

ASSUME NobodyAssumption == Nobody \notin Consumers /\ Nobody \notin Messages

Message(o, part) ==
    [operation |-> o, part |-> part, copy |-> 0, answered |-> operation[o].answered]

CopyOf(m) == [m EXCEPT !.copy = @ + 1, !.answered = FALSE]

\* Whether a consumer tries to answer: Kafka sends the header always, and what
\* arrives, a buffer, is truthy also when it is empty.
Answers(m) == broker = "kafka" \/ m.answered

\* sendToRemoteService sends one message, sendToRemoteServiceInsideTransaction several.
Parts(o) == IF operation[o].transactional THEN {1, 2} ELSE {1}

NotStarted == [stage |-> "none", transactional |-> FALSE, acknowledged |-> FALSE,
               answered |-> FALSE, pushed |-> 0]
Idle == [stage |-> "idle", message |-> Nobody]
NoOffset == -1

Init ==
    /\ broker \in {"kafka", "redis"}
    /\ operation = [o \in Operations |-> NotStarted]
    /\ queue = <<>>
    /\ offset \in {NoOffset, IF broker = "kafka" THEN 0 ELSE NoOffset}
    /\ position = 0 /\ start = 0 /\ owner = Nobody
    /\ consumer = [k \in Consumers |-> Idle]
    /\ sent = {}
    /\ settled = {} /\ lost = {} /\ skipped = {}

OperationGoesTo(o, stage) == operation' = [operation EXCEPT ![o].stage = stage]

\* An operation has written, and executes its post-hook.  acknowledged: the
\* message is sent with the acknowledgement of all replicas, as by default, which
\* only Kafka knows; to whom a responseUrl makes no difference.
EnterPostHook(o) ==
    /\ operation[o].stage = "none"
    /\ \E transactional, acknowledged \in BOOLEAN, answered \in {FALSE, (broker = "redis")} :
          /\ o \notin FreeOperations => acknowledged /\ ~transactional
          /\ broker = "redis" \/ transactional => acknowledged
          /\ operation' = [operation EXCEPT ![o] =
                [@ EXCEPT !.stage = "postHook", !.transactional = transactional,
                          !.acknowledged = acknowledged, !.answered = answered]]
    /\ UNCHANGED <<broker, queue, partitionVars, consumer, sent, fates>>

\* Mutant: an error of the brokers is logged only.
SendToKafkaUnchecked(o) ==
    /\ broker = "kafka"
    /\ operation[o].stage = "postHook"
    /\ \/ /\ ~operation[o].transactional
          /\ queue' = Append(queue, Message(o, 1))
          /\ sent' = sent \cup {Message(o, 1)}
       \/ UNCHANGED <<queue, sent>>
    /\ OperationGoesTo(o, "sent")
    /\ UNCHANGED <<broker, partitionVars, consumer, fates>>

\* A message; without the answer of the brokers sending fails although it may be
\* there.  Unless all replicas acknowledge it, sending succeeds also when it gets
\* lost.  A transaction is an error of the producer, which has no transactionalId.
SendToKafka(o) ==
    /\ broker = "kafka"
    /\ operation[o].stage = "postHook"
    /\ \/ /\ ~operation[o].transactional
          /\ queue' = Append(queue, Message(o, 1))
          /\ sent' = sent \cup {Message(o, 1)}
          /\ \E stage \in {"sent", "sendFailed"} : OperationGoesTo(o, stage)
       \/ /\ ~operation[o].transactional /\ ~operation[o].acknowledged
          /\ OperationGoesTo(o, "sent")
          /\ UNCHANGED <<queue, sent>>
       \/ /\ OperationGoesTo(o, "sendFailed")
          /\ UNCHANGED <<queue, sent>>
    /\ UNCHANGED <<broker, partitionVars, consumer, fates>>

\* RPUSH, one by one: multi() has only opened a pipeline that is not used.
PushToRedis(o) ==
    LET m == Message(o, operation[o].pushed + 1)
    IN /\ broker = "redis"
       /\ operation[o].stage = "postHook"
       /\ operation[o].pushed < Cardinality(Parts(o))
       /\ \/ /\ queue' = Append(queue, m)
             /\ sent' = sent \cup {m}
             /\ \/ operation' = [operation EXCEPT ![o].pushed = @ + 1]
                \/ OperationGoesTo(o, "sendFailed")
          \/ /\ OperationGoesTo(o, "sendFailed")
             /\ UNCHANGED <<queue, sent>>
       /\ UNCHANGED <<broker, partitionVars, consumer, fates>>

\* EXEC without MULTI is an error.
EndSendToRedis(o) ==
    /\ broker = "redis"
    /\ operation[o].stage = "postHook"
    /\ operation[o].pushed = Cardinality(Parts(o))
    /\ OperationGoesTo(o, IF operation[o].transactional THEN "sendFailed" ELSE "sent")
    /\ UNCHANGED <<broker, queue, partitionVars, consumer, sent, fates>>

\* The post-hook throws the error that sending has returned.
EndOperation(o) ==
    /\ \/ operation[o].stage = "sent" /\ OperationGoesTo(o, "committed")
       \/ operation[o].stage = "sendFailed" /\ OperationGoesTo(o, "rolledBack")
    /\ UNCHANGED <<broker, queue, partitionVars, consumer, sent, fates>>

\* A commit that fails, or a crash of the replica.
LoseOperation(o) ==
    /\ operation[o].stage \in {"postHook", "sent", "sendFailed"}
    /\ OperationGoesTo(o, "rolledBack")
    /\ UNCHANGED <<broker, queue, partitionVars, consumer, sent, fates>>

-----------------------------------------------------------------------------
(* Which message a consumer executes next.                                 *)

ConsumerGoesTo(k, stage) == consumer' = [consumer EXCEPT ![k].stage = stage]

\* Mutant: subscribe is told to begin with the first message, and does so always.
TakeFromTheBeginning(k) ==
    /\ broker = "kafka"
    /\ owner = Nobody
    /\ consumer[k].stage = "idle"
    /\ owner' = k
    /\ position' = start
    /\ UNCHANGED <<broker, sendVars, queue, offset, start, consumer, fates>>

BeginAtTheEnd(first) ==
    /\ position' = Len(queue)
    /\ skipped' = skipped \cup {queue[i] : i \in first .. Len(queue)}

\* A consumer joins the group again when its handler has returned.  As subscribe
\* is given no fromBeginning, it begins at the end of the partition when the group
\* has committed no offset, or one whose message has expired.
TakePartition(k) ==
    /\ broker = "kafka"
    /\ owner = Nobody
    /\ consumer[k].stage = "idle"
    /\ owner' = k
    /\ IF offset # NoOffset /\ offset >= start
       THEN position' = offset /\ UNCHANGED skipped
       ELSE BeginAtTheEnd(IF offset = NoOffset THEN 1 ELSE offset + 1)
    /\ UNCHANGED <<broker, sendVars, queue, offset, start, consumer, settled, lost>>

\* So it does when it fetches a message that has expired in the meantime.
ResetPosition(k) ==
    /\ owner = k
    /\ consumer[k].stage = "idle"
    /\ position < start
    /\ BeginAtTheEnd(position + 1)
    /\ UNCHANGED <<broker, sendVars, queue, offset, start, owner, consumer, settled, lost>>

\* Mutant: a message is passed when it is delivered.
DeliverAndPass(k) ==
    /\ broker = "kafka"
    /\ owner = k
    /\ consumer[k].stage = "idle"
    /\ position < Len(queue)
    /\ consumer' = [consumer EXCEPT ![k] = [stage |-> "execute", message |-> queue[position + 1]]]
    /\ position' = position + 1
    /\ UNCHANGED <<broker, sendVars, queue, offset, start, owner, fates>>

\* The message may have been fetched before it expired.
DeliverFromKafka(k) ==
    /\ broker = "kafka"
    /\ owner = k
    /\ consumer[k].stage = "idle"
    /\ position < Len(queue)
    /\ consumer' = [consumer EXCEPT ![k] = [stage |-> "execute", message |-> queue[position + 1]]]
    /\ UNCHANGED <<broker, sendVars, queue, partitionVars, fates>>

\* LPOP, before the message is executed.
PopFromRedis(k) ==
    /\ broker = "redis"
    /\ consumer[k].stage = "idle"
    /\ queue # <<>>
    /\ consumer' = [consumer EXCEPT ![k] = [stage |-> "execute", message |-> Head(queue)]]
    /\ queue' = Tail(queue)
    /\ UNCHANGED <<broker, sendVars, partitionVars, fates>>

\* Mutant: a consumer that has lost the partition counts its message, too.
PassWhoeverOwnsIt(k) ==
    /\ consumer' = [consumer EXCEPT ![k] = Idle]
    /\ position' = position + 1
    /\ UNCHANGED <<offset, start, owner>>

\* The handler has returned.  Of a consumer that has lost the partition in the
\* meantime nobody asks for it.
Pass(k) ==
    /\ consumer' = [consumer EXCEPT ![k] = Idle]
    /\ position' = IF owner = k THEN position + 1 ELSE position
    /\ UNCHANGED <<offset, start, owner>>

\* The handler has thrown: Kafka delivers the message again; the loop around LPOP
\* logs the error and goes on to the next.
GiveUp(k) ==
    /\ consumer' = [consumer EXCEPT ![k] = Idle]
    /\ UNCHANGED partitionVars

CommitOffset ==
    /\ owner # Nobody
    /\ offset' = position
    /\ UNCHANGED <<broker, sendVars, queue, position, start, owner, consumer, fates>>

-----------------------------------------------------------------------------
(* What becomes of the message.                                            *)

\* Redis: without a responseUrl, or without a response, there is no answer.
Succeed(k) ==
    LET m == consumer[k].message
    IN /\ consumer[k].stage = "execute"
       /\ settled' = settled \cup {m}
       /\ \/ Answers(m) /\ ConsumerGoesTo(k, "reply") /\ UNCHANGED partitionVars
          \/ broker = "redis" /\ Pass(k)
       /\ UNCHANGED <<broker, sendVars, queue, lost, skipped>>

FailOnServer(k) ==
    LET m == consumer[k].message
    IN /\ consumer[k].stage = "execute"
       /\ m.operation \in Resent /\ m.copy < MaxCopies /\ CopyOf(m) \notin sent
       /\ ConsumerGoesTo(k, "wait")
       /\ UNCHANGED <<broker, sendVars, queue, partitionVars, fates>>

\* A status of a client error is thrown, or what the execution has thrown.
RefuseMessage(k) ==
    /\ consumer[k].stage = "execute"
    /\ GiveUp(k)
    /\ UNCHANGED <<broker, sendVars, queue, fates>>

\* Ten seconds later it is sent to the end of the queue; whether that succeeds is
\* not looked at.
SendAgain(k) ==
    LET m == consumer[k].message
    IN /\ consumer[k].stage = "wait"
       /\ \/ /\ queue' = Append(queue, CopyOf(m)) /\ sent' = sent \cup {CopyOf(m)}
             /\ settled' = settled \cup {m}
             /\ UNCHANGED lost
          \/ /\ lost' = lost \cup {m}
             /\ UNCHANGED <<queue, sent, settled>>
       /\ Pass(k)
       /\ UNCHANGED <<broker, operation, skipped>>

\* The response goes to another queue.  A responseUrl that cannot be parsed is
\* thrown, and over Kafka none can, as it is a buffer.
Reply(k) ==
    /\ consumer[k].stage = "reply"
    /\ GiveUp(k)
    /\ UNCHANGED <<broker, sendVars, queue, fates>>

-----------------------------------------------------------------------------
(* Consumers that stop, and partitions that move.                          *)

Crash(k) ==
    /\ consumer[k].stage # "idle"
    /\ consumer' = [consumer EXCEPT ![k] = Idle]
    /\ owner' = IF owner = k THEN Nobody ELSE owner
    /\ UNCHANGED <<broker, sendVars, queue, position, offset, start, fates>>

\* The session times out while the consumer goes on with its message.
LosePartition ==
    /\ owner # Nobody
    /\ owner' = Nobody
    /\ UNCHANGED <<broker, sendVars, queue, position, offset, start, consumer, fates>>

\* retention.ms, from the first message on.
ExpireMessages ==
    /\ broker = "kafka"
    /\ start' \in start + 1 .. Len(queue)
    /\ UNCHANGED <<broker, sendVars, queue, position, offset, owner, consumer, fates>>

Next ==
    \/ \E o \in Operations :
          \/ EnterPostHook(o) \/ SendToKafka(o) \/ PushToRedis(o) \/ EndSendToRedis(o)
          \/ EndOperation(o) \/ LoseOperation(o)
    \/ \E k \in Consumers :
          \/ TakePartition(k) \/ ResetPosition(k) \/ DeliverFromKafka(k) \/ PopFromRedis(k)
          \/ Succeed(k) \/ FailOnServer(k) \/ RefuseMessage(k) \/ SendAgain(k) \/ Reply(k)
          \/ Crash(k)
    \/ CommitOffset \/ LosePartition \/ ExpireMessages

Spec == Init /\ [][Next]_vars

-----------------------------------------------------------------------------
(* Every variable has its type: an owner has passed no message that is not   *)
(* there, and the consumers of Redis own nothing.                            *)
TypeOK ==
    /\ broker \in {"kafka", "redis"}
    /\ operation \in [Operations ->
          [stage : {"none", "postHook", "sent", "sendFailed", "committed", "rolledBack"},
           transactional : BOOLEAN, acknowledged : BOOLEAN, answered : BOOLEAN, pushed : 0 .. 2]]
    /\ queue \in Seq(Messages)
    /\ position \in 0 .. Len(queue) /\ start \in 0 .. Len(queue)
    /\ offset \in NoOffset .. Len(queue)
    /\ owner \in Consumers \cup {Nobody}
    /\ broker = "redis" => owner = Nobody
    /\ consumer \in [Consumers -> [stage : {"idle", "execute", "wait", "reply"},
                                   message : Messages \cup {Nobody}]]
    /\ sent \subseteq Messages
    /\ settled \subseteq sent /\ lost \subseteq sent /\ skipped \subseteq sent

(* An operation that has committed has sent all that its post-hook sends:    *)
(* the errors of sendOneOrMore reach it.  Over Kafka that is so only when it *)
(* waits for the acknowledgement of all replicas.                            *)
CommittedOperationsHaveSent ==
    \A o \in Operations :
       operation[o].stage = "committed" /\ (broker = "kafka" => operation[o].acknowledged)
       => {Message(o, i) : i \in Parts(o)} \subseteq sent

(* A consumer of Kafka never commits an offset beyond a message that was     *)
(* neither executed with success nor sent again, in spite of crashes and     *)
(* partitions that move, but for those that could not be sent again and      *)
(* those a consumer passed over when it began at the end; what a consumer of *)
(* Redis executes was not executed before, and nobody else executes it or    *)
(* will.                                                                     *)
DeliveriesAreNotLostOrRepeated ==
    /\ broker = "kafka" => \A i \in 1 .. offset : queue[i] \in settled \cup lost \cup skipped
    /\ broker = "redis" =>
          \A k \in Consumers :
             consumer[k].stage = "execute" =>
                /\ consumer[k].message \notin settled
                /\ \A i \in 1 .. Len(queue) : queue[i] # consumer[k].message
                /\ \A other \in Consumers \ {k} : consumer[other].message # consumer[k].message

(* Kafka delivers at least once, until messages expire, and Redis at most    *)
(* once: what producers, consumers, retention and rebalancing do amounts to  *)
(* accepting, handling, losing and dismissing messages in this order.        *)
(* Messages are skipped only when a group has not committed anything yet, or *)
(* when messages have expired; committed offsets do not go back.             *)
Dismissed == IF broker = "kafka" THEN {queue[i] : i \in 1 .. offset}
             ELSE {m \in sent : \A i \in 1 .. Len(queue) : queue[i] # m}
Delivery == INSTANCE MessageDelivery
            WITH guarantee <- IF broker = "kafka" THEN "atLeastOnceUntilExpiry" ELSE "atMostOnce",
                 accepted <- sent, dismissed <- Dismissed, handled <- settled,
                 expired <- {queue[i] : i \in 1 .. start}
ImplementsMessageDelivery == Delivery!Spec

=============================================================================
