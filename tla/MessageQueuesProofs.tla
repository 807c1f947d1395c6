------------------------- MODULE MessageQueuesProofs -------------------------
(***************************************************************************)
(* Proofs about MessageQueues, for any number of operations, consumers and *)
(* copies: what a committed operation has sent, and what becomes of it.    *)
(***************************************************************************)
EXTENDS MessageQueues, SequenceTheorems, FiniteSetTheorems, TLAPS

\* What reached the broker is what an operation sends, or a copy that nobody answers;
\* Kafka has it when the operation is past sending, Redis when it has been pushed.
SendingOK ==
    /\ \A m \in sent :
          LET o == operation[m.operation]
          IN IF m.copy > 0 THEN ~m.answered
             ELSE /\ o.stage # "none"
                  /\ m.answered = o.answered
                  /\ m.part = 2 => o.transactional
                  /\ o.stage = "postHook" => broker = "redis" /\ m.part <= o.pushed
    /\ \A o \in Operations :
          /\ operation[o].stage = "none" => operation[o] = NotStarted
          /\ operation[o].pushed <= Cardinality(Parts(o))
          /\ broker = "redis" => \A i \in 1 .. operation[o].pushed : Message(o, i) \in sent
          /\ operation[o].stage \in {"sent", "committed"}
                /\ (broker = "kafka" => operation[o].acknowledged) =>
                    \A i \in Parts(o) : Message(o, i) \in sent

\* Consumers and the queue hold what has been sent.
HoldingOK ==
    /\ \A i \in 1 .. Len(queue) : queue[i] \in sent
    /\ \A k \in Consumers :
          LET m == consumer[k].message
          IN /\ consumer[k].stage = "idle" => consumer[k] = Idle
             /\ consumer[k].stage # "idle" => m \in sent
             /\ consumer[k].stage = "wait" => m.copy < MaxCopies
             /\ consumer[k].stage = "reply" => m \in settled

\* What has become of the messages of Kafka that nobody waits for.
Fates == settled \cup lost \cup skipped

\* The fate of what a consumer has passed is known, and of what is committed; the owner
\* of the partition works on the next message, and is behind nothing that is committed.
KafkaOK ==
    broker = "kafka" =>
       /\ \A i \in 1 .. position : queue[i] \in Fates
       /\ \A i \in 1 .. offset : queue[i] \in Fates
       /\ owner # Nobody => offset <= position
       /\ \A k \in Consumers :
             owner = k /\ consumer[k].stage # "idle" =>
                position < Len(queue) /\ consumer[k].message = queue[position + 1]

\* A message is in the list once, or with one consumer, and not settled before it was
\* executed; the consumer that waits is the only one that will send the copy.
RedisOK ==
    broker = "redis" =>
       /\ position = 0 /\ offset = NoOffset /\ start = 0
       /\ \A i, j \in 1 .. Len(queue) : queue[i] = queue[j] => i = j
       /\ \A i \in 1 .. Len(queue) : queue[i] \notin settled
       /\ \A k \in Consumers :
             LET m == consumer[k].message
             IN /\ consumer[k].stage # "idle" => \A i \in 1 .. Len(queue) : queue[i] # m
                /\ consumer[k].stage # "idle" =>
                      \A other \in Consumers \ {k} : consumer[other].message # m
                /\ consumer[k].stage \in {"execute", "wait"} => m \notin settled
                /\ consumer[k].stage = "wait" => CopyOf(m) \notin sent

Inv == TypeOK /\ SendingOK /\ HoldingOK /\ KafkaOK /\ RedisOK

-----------------------------------------------------------------------------
\* Nothing was sent at first.
LEMMA InitInv == Init => Inv
<1> SUFFICES ASSUME Init PROVE Inv
  OBVIOUS
<1> USE DEF Init, NotStarted, Idle, NoOffset
<1>1. TypeOK
  BY NobodyAssumption DEF TypeOK
<1>2. SendingOK
  <2>1. \A o \in Operations : Cardinality(Parts(o)) = 1
    <3>1. \A o \in Operations : Parts(o) = {1}
      BY DEF Parts
    <3> QED BY <3>1, FS_Singleton, Zenon
  <2> QED BY <2>1 DEF SendingOK
<1>3. HoldingOK /\ KafkaOK /\ RedisOK
  BY DEF HoldingOK, KafkaOK, RedisOK
<1> QED BY <1>1, <1>2, <1>3 DEF Inv

\* The number of parts.
LEMMA TwoParts == Cardinality({1}) = 1 /\ Cardinality({1, 2}) = 2
<1>1. Cardinality({1}) = 1
  BY FS_Singleton, Zenon
<1>2. 1 \in Int /\ 2 \in Int
  OBVIOUS
<1>3. Cardinality(1 .. 2) = IF 1 > 2 THEN 0 ELSE 2 - 1 + 1
  BY <1>2, FS_Interval, Zenon
<1>4. 1 .. 2 = {1, 2}
  OBVIOUS
<1> QED BY <1>1, <1>3, <1>4

\* An operation sends one message or two.
LEMMA PartsFacts ==
    ASSUME TypeOK, NEW o \in Operations
    PROVE  /\ Cardinality(Parts(o)) = IF operation[o].transactional THEN 2 ELSE 1
           /\ Parts(o) = 1 .. Cardinality(Parts(o))
           /\ \A i \in {1, 2} :
                 /\ Message(o, i) \in Messages
                 /\ Message(o, i).operation = o
                 /\ Message(o, i).part = i
                 /\ Message(o, i).copy = 0
                 /\ Message(o, i).answered = operation[o].answered
<1>2. {1, 2} = 1 .. 2 /\ {1} = 1 .. 1
  OBVIOUS
<1>3. operation[o].answered \in BOOLEAN /\ 0 \in 0 .. MaxCopies
  BY MaxCopiesAssumption DEF TypeOK
<1> QED BY <1>2, <1>3, TwoParts DEF Parts, Message, Messages

\* A copy is another message.
LEMMA CopyFacts ==
    ASSUME NEW m \in Messages, m.copy < MaxCopies
    PROVE  /\ CopyOf(m) \in Messages
           /\ CopyOf(m).operation = m.operation
           /\ CopyOf(m).part = m.part
           /\ CopyOf(m).copy = m.copy + 1
           /\ CopyOf(m).answered = FALSE
<1>1. m.copy \in 0 .. MaxCopies /\ m.copy + 1 \in 0 .. MaxCopies
  BY MaxCopiesAssumption DEF Messages
<1> QED BY <1>1 DEF Messages, CopyOf

\* A message is known by its operation, its part and the number of copies before it.
LEMMA SentMessagesDiffer ==
    ASSUME TypeOK, SendingOK, NEW m \in sent, NEW n \in sent,
           m.operation = n.operation, m.part = n.part, m.copy = n.copy
    PROVE  m = n
<1>1. m \in Messages /\ n \in Messages
  BY DEF TypeOK
<1>2. m.answered = n.answered
  BY <1>1, MaxCopiesAssumption DEF SendingOK, Messages
<1> QED BY <1>1, <1>2 DEF Messages

\* The queue after a message is appended, and after the first is taken.
LEMMA AppendFacts ==
    ASSUME NEW q \in Seq(Messages), NEW m \in Messages
    PROVE  /\ Append(q, m) \in Seq(Messages)
           /\ Len(Append(q, m)) = Len(q) + 1
           /\ \A i \in 1 .. Len(q) : Append(q, m)[i] = q[i]
           /\ Append(q, m)[Len(q) + 1] = m
  BY AppendProperties

\* Its rest, and its first message.
LEMMA TailFacts ==
    ASSUME NEW q \in Seq(Messages), q # <<>>
    PROVE  /\ Tail(q) \in Seq(Messages)
           /\ Len(q) \in Nat \ {0}
           /\ Len(Tail(q)) = Len(q) - 1
           /\ \A i \in 1 .. Len(Tail(q)) : Tail(q)[i] = q[i + 1]
           /\ Head(q) = q[1]
  BY HeadTailProperties, EmptySeq

\* What sending to Kafka does to the queue.
LEMMA KafkaSends ==
    ASSUME TypeOK, NEW o \in Operations, SendToKafka(o)
    PROVE  /\ queue' \in Seq(Messages) /\ Len(queue) <= Len(queue')
           /\ \A i \in 1 .. Len(queue) : queue'[i] = queue[i]
           /\ \A i \in 1 .. Len(queue') : i > Len(queue) => queue'[i] \in sent'
           /\ sent' \in {sent, sent \cup {Message(o, 1)}}
           /\ sent \subseteq sent' /\ sent' \subseteq Messages
<1>1. CASE UNCHANGED <<queue, sent>>
  BY <1>1 DEF TypeOK
<1>2. CASE queue' = Append(queue, Message(o, 1)) /\ sent' = sent \cup {Message(o, 1)}
  <2>1. Message(o, 1) \in Messages
    BY PartsFacts DEF TypeOK
  <2>2. queue \in Seq(Messages) /\ Len(queue) \in Nat
    BY DEF TypeOK
  <2>3. /\ queue' \in Seq(Messages) /\ Len(queue') = Len(queue) + 1
        /\ \A i \in 1 .. Len(queue) : queue'[i] = queue[i]
        /\ queue'[Len(queue) + 1] = Message(o, 1)
    BY <1>2, <2>1, <2>2, AppendFacts
  <2>4. \A i \in 1 .. Len(queue') : i > Len(queue) => i = Len(queue) + 1
    BY <2>2, <2>3
  <2> QED BY <1>2, <2>1, <2>2, <2>3, <2>4 DEF TypeOK
<1> QED BY <1>1, <1>2 DEF SendToKafka

\* The type of the progress of an operation.
OperationTypes ==
    [stage : {"none", "postHook", "sent", "sendFailed", "committed", "rolledBack"},
     transactional : BOOLEAN, acknowledged : BOOLEAN, answered : BOOLEAN, pushed : 0 .. 2]

\* The count of what was pushed, and one more.
LEMMA PushedTypes ==
    /\ \A o \in Operations : TypeOK => operation[o].pushed \in Nat
    /\ \A p \in OperationTypes :
          p.pushed \in {0, 1} => [p EXCEPT !.pushed = @ + 1] \in OperationTypes
<1>1. ASSUME TypeOK, NEW o \in Operations PROVE operation[o].pushed \in Nat
  <2>1. operation[o] \in OperationTypes
    BY <1>1 DEF TypeOK, OperationTypes
  <2> QED BY <2>1 DEF OperationTypes
<1>2. ASSUME NEW p \in OperationTypes, p.pushed \in {0, 1}
      PROVE  [p EXCEPT !.pushed = @ + 1] \in OperationTypes
  BY <1>2 DEF OperationTypes
<1> QED BY <1>1, <1>2

\* It has it still when it has gone to another stage.
LEMMA StageTypes ==
    ASSUME operation \in [Operations -> OperationTypes], NEW o \in Operations,
           NEW s \in {"sent", "sendFailed", "committed", "rolledBack"}, OperationGoesTo(o, s)
    PROVE  operation' \in [Operations -> OperationTypes]
<1> DEFINE p == [operation[o] EXCEPT !.stage = s]
<1>1. p \in OperationTypes
  BY DEF OperationTypes
<1>2. operation' = [operation EXCEPT ![o] = p]
  BY DEF OperationGoesTo
<1> HIDE DEF p
<1> QED BY <1>1, <1>2

\* Types: an owner passes a message only when there was one.
LEMMA TypeStep ==
    ASSUME TypeOK, SendingOK, HoldingOK, KafkaOK, RedisOK, Next
    PROVE  TypeOK'
<1> USE DEF TypeOK, sendVars, partitionVars, fates, ConsumerGoesTo, NoOffset
<1>0. operation \in [Operations -> OperationTypes]
  BY DEF OperationTypes
<1>1. ASSUME NEW o \in Operations, EnterPostHook(o) PROVE TypeOK'
  <2>1. PICK t \in BOOLEAN, c \in BOOLEAN, a \in {FALSE, (broker = "redis")} :
           operation' = [operation EXCEPT ![o] =
              [@ EXCEPT !.stage = "postHook", !.transactional = t,
                        !.acknowledged = c, !.answered = a]]
    BY <1>1, Zenon DEF EnterPostHook
  <2>2. operation' \in [Operations -> OperationTypes]
    <3> DEFINE p == [operation[o] EXCEPT !.stage = "postHook", !.transactional = t,
                                         !.acknowledged = c, !.answered = a]
    <3>1. a \in BOOLEAN
      <4>1. (broker = "redis") \in BOOLEAN
        OBVIOUS
      <4> QED BY <4>1, Zenon
    <3>2. operation[o] \in OperationTypes
      BY DEF OperationTypes
    <3>3. operation' = [operation EXCEPT ![o] = p]
      BY <2>1
    <3>4. p \in OperationTypes
      BY <3>1, <3>2 DEF OperationTypes
    <3> HIDE DEF p
    <3> QED BY <3>3, <3>4 DEF OperationTypes
  <2>3. UNCHANGED <<broker, queue, position, offset, start, owner, consumer, sent,
                    settled, lost, skipped>>
    BY <1>1 DEF EnterPostHook
  <2> QED BY <2>2, <2>3 DEF OperationTypes
<1>2. ASSUME NEW o \in Operations, SendToKafka(o) PROVE TypeOK'
  <2>1. PICK s \in {"sent", "sendFailed"} : OperationGoesTo(o, s)
    BY <1>2 DEF SendToKafka
  <2>2. UNCHANGED <<broker, position, offset, start, owner, consumer, settled, lost, skipped>>
    BY <1>2 DEF SendToKafka
  <2>3. /\ queue' \in Seq(Messages) /\ Len(queue) <= Len(queue')
        /\ sent \subseteq sent' /\ sent' \subseteq Messages
    BY <1>2, KafkaSends
  <2>4. Len(queue) \in Nat /\ Len(queue') \in Nat
    BY <2>3
  <2>5. operation' \in [Operations -> OperationTypes]
    BY <1>0, <2>1, StageTypes
  <2> QED BY <2>2, <2>3, <2>4, <2>5 DEF OperationTypes
<1>3. ASSUME NEW o \in Operations, PushToRedis(o) PROVE TypeOK'
  <2> DEFINE m == Message(o, operation[o].pushed + 1)
  <2>1. operation[o].pushed \in {0, 1} /\ m \in Messages
    BY <1>3, PartsFacts DEF PushToRedis
  <2> HIDE DEF m
  <2>2. \/ queue' = Append(queue, m) /\ sent' = sent \cup {m}
        \/ UNCHANGED <<queue, sent>>
    BY <1>3 DEF PushToRedis, m
  <2>3. /\ queue' \in Seq(Messages) /\ Len(queue) <= Len(queue')
        /\ sent' \subseteq Messages /\ sent \subseteq sent'
    <3>1. CASE queue' = Append(queue, m) /\ sent' = sent \cup {m}
      BY <2>1, <3>1, AppendFacts
    <3>2. CASE UNCHANGED <<queue, sent>>
      BY <1>3, <3>2
    <3> QED BY <2>2, <3>1, <3>2
  <2>4. operation' \in [Operations -> OperationTypes]
    <3>1. CASE operation' = [operation EXCEPT ![o].pushed = @ + 1]
      <4>1. operation[o] \in OperationTypes
        BY DEF OperationTypes
      <4>2. [operation[o] EXCEPT !.pushed = @ + 1] \in OperationTypes
        BY <2>1, <4>1, PushedTypes
      <4> QED BY <3>1, <4>2 DEF OperationTypes
    <3>2. CASE OperationGoesTo(o, "sendFailed")
      BY <1>0, <3>2, StageTypes
    <3> QED BY <1>3, <3>1, <3>2 DEF PushToRedis
  <2>5. UNCHANGED <<broker, position, offset, start, owner, consumer, settled, lost, skipped>>
    BY <1>3 DEF PushToRedis
  <2> QED BY <2>3, <2>4, <2>5 DEF OperationTypes
<1>4. ASSUME NEW o \in Operations, EndSendToRedis(o) PROVE TypeOK'
  <2>1. PICK s \in {"sent", "sendFailed"} : OperationGoesTo(o, s)
    BY <1>4, Zenon DEF EndSendToRedis
  <2>2. UNCHANGED <<broker, queue, position, offset, start, owner, consumer, sent, settled, lost, skipped>>
    BY <1>4 DEF EndSendToRedis
  <2>3. operation' \in [Operations -> OperationTypes]
    BY <1>0, <2>1, StageTypes
  <2> QED BY <2>2, <2>3 DEF OperationTypes
<1>5. ASSUME NEW o \in Operations, EndOperation(o) PROVE TypeOK'
  <2>1. PICK s \in {"committed", "rolledBack"} : OperationGoesTo(o, s)
    BY <1>5, Zenon DEF EndOperation
  <2>2. UNCHANGED <<broker, queue, position, offset, start, owner, consumer, sent, settled, lost, skipped>>
    BY <1>5 DEF EndOperation
  <2>3. operation' \in [Operations -> OperationTypes]
    BY <1>0, <2>1, StageTypes
  <2> QED BY <2>2, <2>3 DEF OperationTypes
<1>6. ASSUME NEW o \in Operations, LoseOperation(o) PROVE TypeOK'
  <2>1. UNCHANGED <<broker, queue, position, offset, start, owner, consumer, sent, settled, lost, skipped>>
    BY <1>6 DEF LoseOperation
  <2>2. operation' \in [Operations -> OperationTypes]
    BY <1>0, <1>6, StageTypes DEF LoseOperation
  <2> QED BY <2>1, <2>2 DEF OperationTypes
<1>7. ASSUME NEW k \in Consumers, TakePartition(k) \/ ResetPosition(k) PROVE TypeOK'
  <2>1. ASSUME NEW first \in Nat \ {0}, BeginAtTheEnd(first)
        PROVE  position' \in 0 .. Len(queue) /\ skipped' \subseteq sent
    <3>1. \A i \in first .. Len(queue) : queue[i] \in sent
      BY DEF HoldingOK
    <3> QED BY <2>1, <3>1 DEF BeginAtTheEnd
  <2>2. CASE TakePartition(k)
    <3>1. (IF offset = NoOffset THEN 1 ELSE offset + 1) \in Nat \ {0}
      OBVIOUS
    <3>2. position' \in 0 .. Len(queue) /\ skipped' \subseteq sent
      <4>1. CASE offset # NoOffset /\ offset >= start
        BY <2>2, <4>1 DEF TakePartition
      <4>2. CASE ~(offset # NoOffset /\ offset >= start)
        <5>1. BeginAtTheEnd(IF offset = NoOffset THEN 1 ELSE offset + 1)
          BY <2>2, <4>2 DEF TakePartition
        <5> HIDE DEF NoOffset
        <5> QED BY <2>1, <3>1, <5>1
      <4> QED BY <4>1, <4>2
    <3> QED BY <2>2, <3>2 DEF TakePartition
  <2>3. CASE ResetPosition(k)
    <3>1. position + 1 \in Nat \ {0}
      OBVIOUS
    <3>2. position' \in 0 .. Len(queue) /\ skipped' \subseteq sent
      BY <2>1, <2>3, <3>1 DEF ResetPosition
    <3> QED BY <2>3, <3>2 DEF ResetPosition
  <2> QED BY <1>7, <2>2, <2>3
<1>8. ASSUME NEW k \in Consumers, DeliverFromKafka(k) PROVE TypeOK'
  BY <1>8 DEF DeliverFromKafka
<1>9. ASSUME NEW k \in Consumers, PopFromRedis(k) PROVE TypeOK'
  BY <1>9, TailFacts DEF PopFromRedis, RedisOK
<1>10. ASSUME NEW k \in Consumers, consumer[k].stage # "idle", Pass(k), UNCHANGED broker,
              queue' \in Seq(Messages), Len(queue) <= Len(queue')
       PROVE  /\ consumer' \in [Consumers -> [stage : {"idle", "execute", "wait", "reply"},
                                              message : Messages \cup {Nobody}]]
              /\ position' \in 0 .. Len(queue') /\ start' \in 0 .. Len(queue')
              /\ offset' \in NoOffset .. Len(queue')
              /\ UNCHANGED owner
  BY <1>10, NobodyAssumption DEF Pass, KafkaOK, Idle
<1>11. ASSUME NEW k \in Consumers, Succeed(k) PROVE TypeOK'
  BY <1>10, <1>11 DEF Succeed, HoldingOK
<1>12. ASSUME NEW k \in Consumers, FailOnServer(k) PROVE TypeOK'
  BY <1>12 DEF FailOnServer
<1>13. ASSUME NEW k \in Consumers, RefuseMessage(k) PROVE TypeOK'
  BY <1>13 DEF RefuseMessage, GiveUp, Idle
<1>14. ASSUME NEW k \in Consumers, SendAgain(k) PROVE TypeOK'
  <2> DEFINE m == consumer[k].message
  <2>1. m \in sent /\ CopyOf(m) \in Messages
    BY <1>14, CopyFacts DEF SendAgain, HoldingOK
  <2>2. /\ \/ /\ queue' = Append(queue, CopyOf(m)) /\ sent' = sent \cup {CopyOf(m)}
              /\ settled' = settled \cup {m} /\ UNCHANGED lost
           \/ lost' = lost \cup {m} /\ UNCHANGED <<queue, sent, settled>>
        /\ UNCHANGED skipped
    BY <1>14 DEF SendAgain
  <2>3. /\ queue' \in Seq(Messages) /\ Len(queue) <= Len(queue')
        /\ sent' \subseteq Messages
        /\ settled' \subseteq sent' /\ lost' \subseteq sent' /\ skipped' \subseteq sent'
    <3> HIDE DEF m
    <3>1. CASE queue' = Append(queue, CopyOf(m)) /\ sent' = sent \cup {CopyOf(m)}
      BY <2>1, <2>2, <3>1, AppendFacts
    <3>2. CASE UNCHANGED <<queue, sent>>
      BY <2>1, <2>2, <3>2
    <3> QED BY <2>2, <3>1, <3>2
  <2> QED BY <1>10, <1>14, <2>3 DEF SendAgain
<1>15. ASSUME NEW k \in Consumers, Reply(k) PROVE TypeOK'
  BY <1>10, <1>15 DEF Reply, GiveUp, Idle
<1>16. ASSUME NEW k \in Consumers, Crash(k) PROVE TypeOK'
  BY <1>16 DEF Crash, Idle
<1>17. CASE CommitOffset
  BY <1>17 DEF CommitOffset
<1>18. CASE LosePartition
  BY <1>18 DEF LosePartition
<1>19. CASE ExpireMessages
  BY <1>19 DEF ExpireMessages
<1> QED BY <1>1, <1>2, <1>3, <1>4, <1>5, <1>6, <1>7, <1>8, <1>9, <1>11, <1>12, <1>13,
           <1>14, <1>15, <1>16, <1>17, <1>18, <1>19 DEF Next


\* An operation that goes on, and does not send, keeps what was sent in order.
LEMMA SendingKept ==
    ASSUME TypeOK, TypeOK', SendingOK, UNCHANGED broker,
           NEW o \in Operations,
           \A p \in Operations \ {o} : operation'[p] = operation[p],
           operation[o].stage # "none",
           operation'[o].stage \notin {"none", "postHook"},
           operation'[o].transactional = operation[o].transactional,
           operation'[o].acknowledged = operation[o].acknowledged,
           operation'[o].answered = operation[o].answered,
           operation'[o].pushed = operation[o].pushed,
           sent \subseteq sent',
           \A m \in sent' \ sent : \/ m.copy > 0 /\ ~m.answered
                                   \/ \E i \in Parts(o) : m = Message(o, i),
           operation'[o].stage \in {"sent", "committed"}
              /\ (broker = "kafka" => operation[o].acknowledged) =>
                  \A i \in Parts(o) : Message(o, i) \in sent'
    PROVE  SendingOK'
<1> USE DEF SendingOK
<1>1. \A p \in Operations : /\ Parts(p)' = Parts(p)
                            /\ \A i \in {1, 2} : Message(p, i)' = Message(p, i)
  BY DEF Parts, Message
<1>2. \A p \in Operations :
          /\ operation'[p].stage = "none" => operation'[p] = NotStarted
          /\ operation'[p].pushed <= Cardinality(Parts(p)')
  BY <1>1
<1>3. ASSUME NEW p \in Operations, broker' = "redis", NEW i \in 1 .. operation'[p].pushed
      PROVE  Message(p, i)' \in sent'
  <2>1. operation'[p].pushed = operation[p].pushed /\ operation[p].pushed \in 0 .. 2
    BY DEF TypeOK
  <2>2. i \in {1, 2} /\ Message(p, i) \in sent
    BY <1>3, <2>1
  <2> QED BY <1>1, <2>2
<1>4. \A p \in Operations : operation'[p].stage \in {"sent", "committed"}
          /\ (broker' = "kafka" => operation'[p].acknowledged) =>
              \A i \in Parts(p)' : Message(p, i)' \in sent'
  BY <1>1 DEF Parts
<1>5. ASSUME NEW m \in sent'
      PROVE  IF m.copy > 0 THEN ~m.answered
             ELSE /\ operation'[m.operation].stage # "none"
                  /\ m.answered = operation'[m.operation].answered
                  /\ m.part = 2 => operation'[m.operation].transactional
                  /\ operation'[m.operation].stage = "postHook" =>
                        broker' = "redis" /\ m.part <= operation'[m.operation].pushed
  <2>1. m \in Messages
    BY DEF TypeOK
  <2>2. CASE m \in sent
    BY <2>1, <2>2 DEF Messages
  <2>3. ASSUME NEW i \in Parts(o), m = Message(o, i)
        PROVE  /\ m.operation = o /\ m.copy = 0 /\ m.part = i
               /\ m.answered = operation[o].answered
    BY <2>3 DEF Message
  <2>4. CASE m \notin sent
    BY <2>3, <2>4 DEF Parts
  <2> QED BY <2>2, <2>4
<1> QED BY <1>2, <1>3, <1>4, <1>5

\* What remains when an operation goes to another stage.
LEMMA StageFacts ==
    ASSUME TypeOK, NEW o \in Operations, NEW s, OperationGoesTo(o, s)
    PROVE  /\ \A p \in Operations \ {o} : operation'[p] = operation[p]
           /\ operation'[o].stage = s
           /\ operation'[o].transactional = operation[o].transactional
           /\ operation'[o].acknowledged = operation[o].acknowledged
           /\ operation'[o].answered = operation[o].answered
           /\ operation'[o].pushed = operation[o].pushed
  BY DEF TypeOK, OperationGoesTo

\* What was sent stays as it was sent.
LEMMA SendingStep ==
    ASSUME TypeOK, TypeOK', SendingOK, HoldingOK, Next
    PROVE  SendingOK'
<1> USE DEF sendVars, fates, OperationGoesTo
<1>1. ASSUME NEW o \in Operations, EnterPostHook(o) PROVE SendingOK'
  <2>1. /\ operation[o] = NotStarted /\ UNCHANGED <<broker, sent>>
        /\ \A m \in sent : m.operation = o => m.copy > 0
    BY <1>1, MaxCopiesAssumption DEF EnterPostHook, SendingOK, TypeOK, Messages
  <2>2. /\ \A p \in Operations \ {o} : operation'[p] = operation[p]
        /\ operation'[o].stage = "postHook" /\ operation'[o].pushed = 0
    BY <1>1, <2>1 DEF EnterPostHook, TypeOK, NotStarted
  <2>3. \A p \in Operations \ {o} : /\ Parts(p)' = Parts(p)
                                    /\ \A i : Message(p, i)' = Message(p, i)
    BY <2>2 DEF Parts, Message
  <2>4. Cardinality(Parts(o)') \in {1, 2}
    BY TwoParts DEF Parts
  <2>5. \A m \in sent : m.operation \in Operations
    BY DEF TypeOK, Messages
  <2>6. \A i : Message(o, i)' \notin sent
    <3>1. \A i : Message(o, i)'.operation = o /\ Message(o, i)'.copy = 0
      BY DEF Message
    <3> QED BY <2>1, <3>1
  <2> QED BY <2>1, <2>2, <2>3, <2>4, <2>5, <2>6 DEF SendingOK
<1>2. ASSUME NEW o \in Operations, SendToKafka(o) PROVE SendingOK'
  <2>1. PICK s \in {"sent", "sendFailed"} :
           /\ OperationGoesTo(o, s)
           /\ s = "sent" => /\ ~operation[o].transactional
                            /\ operation[o].acknowledged => sent' = sent \cup {Message(o, 1)}
    BY <1>2 DEF SendToKafka
  <2>2. UNCHANGED broker /\ operation[o].stage = "postHook" /\ broker = "kafka"
    BY <1>2 DEF SendToKafka
  <2>3. sent \subseteq sent' /\ \A m \in sent' \ sent : m = Message(o, 1)
    BY <1>2, KafkaSends
  <2>4. 1 \in Parts(o)
    BY DEF Parts
  <2>5. s = "sent" /\ (broker = "kafka" => operation[o].acknowledged) =>
           \A i \in Parts(o) : Message(o, i) \in sent'
    BY <2>1, <2>2 DEF Parts
  <2>6. \A m \in sent' \ sent : \E i \in Parts(o) : m = Message(o, i)
    BY <2>3, <2>4
  <2>7. /\ \A p \in Operations \ {o} : operation'[p] = operation[p]
        /\ operation'[o].stage = s
        /\ operation'[o].transactional = operation[o].transactional
        /\ operation'[o].acknowledged = operation[o].acknowledged
        /\ operation'[o].answered = operation[o].answered
        /\ operation'[o].pushed = operation[o].pushed
    BY <2>1, StageFacts
  <2> QED BY <2>2, <2>3, <2>5, <2>6, <2>7, SendingKept
<1>3. ASSUME NEW o \in Operations, PushToRedis(o) PROVE SendingOK'
  <2> DEFINE n == operation[o].pushed + 1
             m == Message(o, n)
  <2>1. /\ broker = "redis" /\ UNCHANGED broker /\ operation[o].stage = "postHook"
        /\ n \in Parts(o) /\ n <= Cardinality(Parts(o)) /\ n \in {1, 2}
    <3>1. /\ broker = "redis" /\ UNCHANGED broker /\ operation[o].stage = "postHook"
          /\ operation[o].pushed < Cardinality(Parts(o))
      BY <1>3 DEF PushToRedis
    <3>2. operation[o].pushed \in 0 .. 2
      BY DEF TypeOK
    <3>3. Cardinality(Parts(o)) \in {1, 2} /\ Parts(o) = 1 .. Cardinality(Parts(o))
      BY PartsFacts
    <3> QED BY <3>1, <3>2, <3>3
  <2>2. sent' = sent \cup {m} \/ sent' = sent
    BY <1>3 DEF PushToRedis
  <2>3. CASE OperationGoesTo(o, "sendFailed")
    <3>1. sent \subseteq sent' /\ \A q \in sent' \ sent : q = Message(o, n)
      BY <2>2
    <3> HIDE DEF n
    <3>2. \A q \in sent' \ sent : \E i \in Parts(o) : q = Message(o, i)
      BY <2>1, <3>1
    <3>3. /\ \A p \in Operations \ {o} : operation'[p] = operation[p]
          /\ operation'[o].stage = "sendFailed"
          /\ operation'[o].transactional = operation[o].transactional
          /\ operation'[o].acknowledged = operation[o].acknowledged
          /\ operation'[o].answered = operation[o].answered
          /\ operation'[o].pushed = operation[o].pushed
      BY <2>3, StageFacts
    <3> QED BY <2>1, <3>1, <3>2, <3>3, SendingKept
  <2>4. CASE /\ operation' = [operation EXCEPT ![o].pushed = @ + 1]
             /\ sent' = sent \cup {m}
    <3>1. /\ \A p \in Operations \ {o} : operation'[p] = operation[p]
          /\ operation'[o].stage = "postHook" /\ operation'[o].pushed = n
          /\ operation'[o].transactional = operation[o].transactional
          /\ operation'[o].acknowledged = operation[o].acknowledged
          /\ operation'[o].answered = operation[o].answered
      BY <2>1, <2>4 DEF TypeOK
    <3>2. \A p \in Operations : /\ Parts(p)' = Parts(p)
                                /\ \A i : Message(p, i)' = Message(p, i)
      BY <3>1 DEF Parts, Message
    <3>3. \A i \in 1 .. n : Message(o, i) \in sent'
      <4>1. operation[o].pushed \in Nat
        BY PushedTypes
      <4>2. \A i \in 1 .. operation[o].pushed : Message(o, i) \in sent
        BY <2>1 DEF SendingOK
      <4>3. \A i \in 1 .. n : i = n \/ i \in 1 .. operation[o].pushed
        BY <4>1
      <4> QED BY <2>4, <4>2, <4>3
    <3>4. /\ m.operation = o /\ m.copy = 0 /\ m.part = n
          /\ m.answered = operation[o].answered
          /\ n = 2 => operation[o].transactional
      BY <2>1, PartsFacts DEF Parts
    <3>5. \A q \in sent : q.operation \in Operations /\ q.part \in {1, 2} /\ q.copy \in Nat
      BY MaxCopiesAssumption DEF TypeOK, Messages
    <3>6. operation[o].pushed \in Nat
      BY PushedTypes
    <3> HIDE DEF m
    <3>7. ASSUME NEW q \in sent'
          PROVE  IF q.copy > 0 THEN ~q.answered
                 ELSE /\ operation'[q.operation].stage # "none"
                      /\ q.answered = operation'[q.operation].answered
                      /\ q.part = 2 => operation'[q.operation].transactional
                      /\ operation'[q.operation].stage = "postHook" =>
                            broker' = "redis" /\ q.part <= operation'[q.operation].pushed
      BY <2>1, <2>4, <3>1, <3>4, <3>5, <3>6 DEF SendingOK
    <3>8. ASSUME NEW p \in Operations
          PROVE  /\ operation'[p].stage = "none" => operation'[p] = NotStarted
                 /\ operation'[p].pushed <= Cardinality(Parts(p)')
                 /\ \A i \in 1 .. operation'[p].pushed : Message(p, i)' \in sent'
                 /\ operation'[p].stage \in {"sent", "committed"}
                    /\ (broker' = "kafka" => operation'[p].acknowledged) =>
                       \A i \in Parts(p)' : Message(p, i)' \in sent'
      BY <2>1, <2>4, <3>1, <3>2, <3>3 DEF SendingOK
    <3> QED BY <2>1, <3>7, <3>8 DEF SendingOK
  <2> QED BY <1>3, <2>3, <2>4 DEF PushToRedis
<1>4. ASSUME NEW o \in Operations, EndSendToRedis(o) PROVE SendingOK'
  <2>1. /\ broker = "redis" /\ UNCHANGED <<broker, sent>>
        /\ operation[o].stage = "postHook"
        /\ operation[o].pushed = Cardinality(Parts(o))
    BY <1>4 DEF EndSendToRedis
  <2>2. \A i \in Parts(o) : Message(o, i) \in sent
    BY <2>1, PartsFacts DEF SendingOK
  <2>3. PICK s \in {"sent", "sendFailed"} : OperationGoesTo(o, s)
    BY <1>4 DEF EndSendToRedis
  <2> QED BY <2>1, <2>2, <2>3, StageFacts, SendingKept
<1>5. ASSUME NEW o \in Operations, EndOperation(o) PROVE SendingOK'
  <2>1. CASE operation[o].stage = "sent" /\ OperationGoesTo(o, "committed")
    BY <1>5, <2>1, StageFacts, SendingKept DEF EndOperation, SendingOK
  <2>2. CASE operation[o].stage = "sendFailed" /\ OperationGoesTo(o, "rolledBack")
    BY <1>5, <2>2, StageFacts, SendingKept DEF EndOperation, SendingOK
  <2> QED BY <1>5, <2>1, <2>2 DEF EndOperation
<1>6. ASSUME NEW o \in Operations, LoseOperation(o) PROVE SendingOK'
  <2>1. /\ OperationGoesTo(o, "rolledBack") /\ UNCHANGED <<broker, sent>>
        /\ operation[o].stage # "none"
    BY <1>6 DEF LoseOperation
  <2>3. /\ \A p \in Operations \ {o} : operation'[p] = operation[p]
        /\ operation'[o].stage = "rolledBack"
        /\ operation'[o].transactional = operation[o].transactional
        /\ operation'[o].acknowledged = operation[o].acknowledged
        /\ operation'[o].answered = operation[o].answered
        /\ operation'[o].pushed = operation[o].pushed
    BY <2>1, StageFacts
  <2> QED BY <2>1, <2>3, SendingKept
<1>7. CASE UNCHANGED <<broker, operation, sent>>
  BY <1>7 DEF SendingOK, Parts, Message
<1>8. ASSUME NEW k \in Consumers, SendAgain(k) PROVE SendingOK'
  <2> DEFINE m == consumer[k].message
  <2>1. m \in sent /\ m \in Messages /\ m.copy < MaxCopies
    BY <1>8 DEF SendAgain, HoldingOK, TypeOK
  <2>2. CopyOf(m).copy > 0 /\ CopyOf(m).answered = FALSE
    <3> HIDE DEF m
    <3>1. CopyOf(m).copy = m.copy + 1 /\ CopyOf(m).answered = FALSE
      BY <2>1, CopyFacts
    <3>2. m.copy \in Nat
      BY <2>1, MaxCopiesAssumption DEF Messages
    <3> QED BY <3>1, <3>2
  <2>3. sent' = sent \cup {CopyOf(m)} \/ sent' = sent
    BY <1>8 DEF SendAgain
  <2>4. UNCHANGED <<broker, operation>>
    BY <1>8 DEF SendAgain
  <2> HIDE DEF m
  <2> QED BY <2>2, <2>3, <2>4 DEF SendingOK, Parts, Message
<1> QED BY <1>1, <1>2, <1>3, <1>4, <1>5, <1>6, <1>7, <1>8
        DEF Next, TakePartition, ResetPosition, DeliverFromKafka, PopFromRedis, Succeed,
            FailOnServer, RefuseMessage, Reply, Crash, CommitOffset, LosePartition,
            ExpireMessages

\* Who lets a message go holds none.
LEMMA HoldingStep ==
    ASSUME TypeOK, TypeOK', SendingOK, HoldingOK, KafkaOK, Next
    PROVE  HoldingOK'
<1> USE DEF HoldingOK, sendVars, partitionVars, fates, ConsumerGoesTo
<1>1. ASSUME NEW o \in Operations, SendToKafka(o) PROVE HoldingOK'
  <2>1. UNCHANGED <<consumer, settled>> /\ sent \subseteq sent'
    BY <1>1, KafkaSends DEF SendToKafka
  <2>2. \A i \in 1 .. Len(queue') : queue'[i] \in sent'
    <3>1. Len(queue) \in Nat /\ Len(queue') \in Nat
      BY DEF TypeOK
    <3> QED BY <1>1, <2>1, <3>1, KafkaSends
  <2> QED BY <2>1, <2>2
<1>2. ASSUME NEW o \in Operations, PushToRedis(o) PROVE HoldingOK'
  <2> DEFINE m == Message(o, operation[o].pushed + 1)
  <2>1. m \in Messages
    BY <1>2, PartsFacts DEF PushToRedis, TypeOK
  <2>2. /\ UNCHANGED <<consumer, settled>>
        /\ \/ queue' = Append(queue, m) /\ sent' = sent \cup {m}
           \/ UNCHANGED <<queue, sent>>
    BY <1>2 DEF PushToRedis
  <2>3. queue \in Seq(Messages) /\ Len(queue) \in Nat
    BY DEF TypeOK
  <2> HIDE DEF m
  <2>4. \A i \in 1 .. Len(queue') : queue'[i] \in sent'
    BY <2>1, <2>2, <2>3, AppendFacts
  <2> QED BY <2>2, <2>4
<1>3. ASSUME NEW k \in Consumers, SendAgain(k) PROVE HoldingOK'
  <2> DEFINE m == CopyOf(consumer[k].message)
  <2>1. m \in Messages
    BY <1>3, CopyFacts DEF SendAgain, TypeOK
  <2>2. /\ consumer' = [consumer EXCEPT ![k] = Idle]
        /\ settled \subseteq settled'
        /\ \/ queue' = Append(queue, m) /\ sent' = sent \cup {m}
           \/ UNCHANGED <<queue, sent>>
    BY <1>3 DEF SendAgain, Pass
  <2>3. queue \in Seq(Messages) /\ Len(queue) \in Nat
    BY DEF TypeOK
  <2> HIDE DEF m
  <2>4. \A i \in 1 .. Len(queue') : queue'[i] \in sent'
    BY <2>1, <2>2, <2>3, AppendFacts
  <2> QED BY <2>2, <2>4 DEF TypeOK, Idle
<1>4. ASSUME NEW k \in Consumers, PopFromRedis(k) PROVE HoldingOK'
  <2>1. queue \in Seq(Messages) /\ queue # <<>>
    BY <1>4 DEF PopFromRedis, TypeOK
  <2>2. /\ consumer' = [consumer EXCEPT ![k] = [stage |-> "execute", message |-> queue[1]]]
        /\ \A i \in 1 .. Len(queue') : i + 1 \in 1 .. Len(queue) /\ queue'[i] = queue[i + 1]
        /\ queue[1] \in sent
        /\ UNCHANGED <<sent, settled>>
    BY <1>4, <2>1, TailFacts DEF PopFromRedis
  <2> QED BY <2>2 DEF TypeOK
<1>5. ASSUME NEW k \in Consumers, DeliverFromKafka(k) PROVE HoldingOK'
  BY <1>5 DEF DeliverFromKafka, TypeOK
<1>6. ASSUME NEW k \in Consumers, Succeed(k) PROVE HoldingOK'
  BY <1>6 DEF Succeed, Pass, Idle, TypeOK
<1>7. ASSUME NEW k \in Consumers, FailOnServer(k) PROVE HoldingOK'
  BY <1>7 DEF FailOnServer, TypeOK
<1>8. ASSUME NEW k \in Consumers, consumer' = [consumer EXCEPT ![k] = Idle],
             UNCHANGED <<queue, sent, settled>>
      PROVE  HoldingOK'
  BY <1>8 DEF Idle, TypeOK
<1>9. CASE UNCHANGED <<queue, consumer, sent, settled>>
  BY <1>9
<1> QED BY <1>1, <1>2, <1>3, <1>4, <1>5, <1>6, <1>7, <1>8, <1>9
        DEF Next, EnterPostHook, EndSendToRedis, EndOperation, LoseOperation, TakePartition,
            ResetPosition, RefuseMessage, GiveUp, Reply, Crash, CommitOffset, LosePartition,
            ExpireMessages

\* The fate of what the owner passes is known.
LEMMA KafkaStep ==
    ASSUME TypeOK, TypeOK', HoldingOK, KafkaOK, Next
    PROVE  KafkaOK'
<1> USE DEF KafkaOK, sendVars, partitionVars, fates, ConsumerGoesTo, NoOffset
<1>0. /\ queue \in Seq(Messages) /\ Len(queue) \in Nat
      /\ position \in 0 .. Len(queue) /\ offset \in -1 .. Len(queue)
  BY DEF TypeOK
<1>1. ASSUME NEW o \in Operations, SendToKafka(o) PROVE KafkaOK'
  <2>1. UNCHANGED <<broker, position, offset, start, owner, consumer, settled, lost, skipped>>
    BY <1>1 DEF SendToKafka
  <2>2. /\ Len(queue') \in Nat /\ Len(queue) <= Len(queue')
        /\ \A i \in 1 .. Len(queue) : queue'[i] = queue[i]
    BY <1>1, KafkaSends DEF TypeOK
  <2> SUFFICES ASSUME broker' = "kafka"
               PROVE  /\ \A i \in 1 .. position' : queue'[i] \in Fates'
                      /\ \A i \in 1 .. offset' : queue'[i] \in Fates'
                      /\ owner' # Nobody => offset' <= position'
                      /\ \A k \in Consumers :
                            owner' = k /\ consumer'[k].stage # "idle" =>
                               /\ position' < Len(queue')
                               /\ consumer'[k].message = queue'[position' + 1]
    OBVIOUS
  <2>3. Fates' = Fates
    BY <2>1 DEF Fates
  <2>4. /\ \A i \in 1 .. position' : queue'[i] \in Fates'
        /\ \A i \in 1 .. offset' : queue'[i] \in Fates'
        /\ owner' # Nobody => offset' <= position'
    BY <1>0, <2>1, <2>2, <2>3
  <2>5. ASSUME NEW k \in Consumers, owner' = k, consumer'[k].stage # "idle"
        PROVE  position' < Len(queue') /\ consumer'[k].message = queue'[position' + 1]
    BY <1>0, <2>1, <2>2, <2>5
  <2> QED BY <2>4, <2>5
<1>2. ASSUME NEW o \in Operations, PushToRedis(o) PROVE KafkaOK'
  BY <1>2 DEF PushToRedis
<1>3. ASSUME NEW k \in Consumers, SendAgain(k) PROVE KafkaOK'
  <2> DEFINE m == CopyOf(consumer[k].message)
  <2>1. m \in Messages
    BY <1>3, CopyFacts DEF SendAgain, HoldingOK, TypeOK
  <2>2. queue' = Append(queue, m) \/ UNCHANGED queue
    BY <1>3 DEF SendAgain
  <2> HIDE DEF m
  <2>3. /\ \A i \in 1 .. Len(queue) : queue'[i] = queue[i]
        /\ Len(queue') \in Nat /\ Len(queue) <= Len(queue')
    BY <1>0, <2>1, <2>2, AppendFacts
  <2>4. /\ UNCHANGED <<broker, offset, start, owner>>
        /\ consumer[k].stage # "idle"
        /\ consumer' = [consumer EXCEPT ![k] = Idle]
        /\ position' = IF owner = k THEN position + 1 ELSE position
        /\ Fates' = Fates \cup {consumer[k].message}
    BY <1>3 DEF SendAgain, Pass, Fates
  <2>5. broker = "kafka" /\ owner = k =>
           position < Len(queue) /\ consumer[k].message = queue[position + 1]
    BY <2>4
  <2>6. ASSUME broker = "kafka", NEW i \in 1 .. offset'
        PROVE  queue'[i] \in Fates'
    <3>1. i \in 1 .. offset /\ i \in 1 .. Len(queue)
      BY <1>0, <2>4, <2>6
    <3> QED BY <2>3, <2>4, <2>6, <3>1
  <2>7. ASSUME broker = "kafka", NEW i \in 1 .. position'
        PROVE  queue'[i] \in Fates'
    <3>1. CASE i \in 1 .. position
      BY <1>0, <2>3, <2>4, <2>7, <3>1
    <3>2. CASE i \notin 1 .. position
      <4>1. owner = k /\ i = position + 1
        BY <1>0, <2>4, <2>7, <3>2
      <4> QED BY <1>0, <2>3, <2>4, <2>5, <2>7, <4>1
    <3> QED BY <3>1, <3>2
  <2>8. ASSUME broker = "kafka", NEW c \in Consumers, owner = c, consumer'[c].stage # "idle"
        PROVE  position' < Len(queue') /\ consumer'[c].message = queue'[position' + 1]
    <3>1. c # k /\ consumer'[c] = consumer[c] /\ position' = position
      BY <2>4, <2>8 DEF TypeOK, Idle
    <3>2. position < Len(queue) /\ consumer[c].message = queue[position + 1]
      BY <2>8, <3>1
    <3> QED BY <1>0, <2>3, <3>1, <3>2
  <2>9. broker = "kafka" /\ owner # Nobody => offset <= position'
    BY <1>0, <2>4
  <2> QED BY <2>4, <2>6, <2>7, <2>8, <2>9
<1>4. ASSUME NEW k \in Consumers, PopFromRedis(k) PROVE KafkaOK'
  BY <1>4 DEF PopFromRedis
<1>5. ASSUME NEW k \in Consumers, DeliverFromKafka(k) PROVE KafkaOK'
  BY <1>5 DEF DeliverFromKafka, TypeOK, Fates
<1>6. ASSUME NEW k \in Consumers, NEW first \in Nat, BeginAtTheEnd(first),
             UNCHANGED <<broker, queue, offset, consumer, settled, lost>>,
             owner' = k, consumer[k].stage = "idle",
             \A i \in 1 .. first - 1 : queue[i] \in Fates,
             \A i \in 1 .. offset : queue[i] \in Fates
      PROVE  KafkaOK'
  <2>1. /\ position' = Len(queue)
        /\ Fates' = Fates \cup {queue[i] : i \in first .. Len(queue)}
    BY <1>6 DEF BeginAtTheEnd, Fates
  <2>2. \A i \in 1 .. position' : queue'[i] \in Fates'
    BY <1>0, <1>6, <2>1
  <2> QED BY <1>0, <1>6, <2>1, <2>2
<1>7. ASSUME NEW k \in Consumers, TakePartition(k) PROVE KafkaOK'
  <2>1. CASE offset # NoOffset /\ offset >= start
    BY <1>0, <1>7, <2>1, NobodyAssumption DEF TakePartition, HoldingOK, TypeOK, Fates
  <2>2. CASE ~(offset # NoOffset /\ offset >= start)
    <3> DEFINE first == IF offset = NoOffset THEN 1 ELSE offset + 1
    <3>1. /\ BeginAtTheEnd(first) /\ broker = "kafka" /\ owner' = k
          /\ consumer[k].stage = "idle"
          /\ UNCHANGED <<broker, queue, offset, consumer, settled, lost>>
      BY <1>7, <2>2 DEF TakePartition
    <3>2. first \in Nat /\ \A i \in 1 .. first - 1 : i \in 1 .. offset
      BY <1>0
    <3>3. /\ \A i \in 1 .. first - 1 : queue[i] \in Fates
          /\ \A i \in 1 .. offset : queue[i] \in Fates
      BY <3>1, <3>2
    <3> HIDE DEF first
    <3> QED BY <1>6, <3>1, <3>2, <3>3
  <2> QED BY <2>1, <2>2
<1>8. ASSUME NEW k \in Consumers, ResetPosition(k) PROVE KafkaOK'
  <2> DEFINE first == position + 1
  <2>1. /\ BeginAtTheEnd(first) /\ owner = k /\ owner' = k
        /\ consumer[k].stage = "idle"
        /\ UNCHANGED <<broker, queue, offset, consumer, settled, lost>>
    BY <1>8 DEF ResetPosition
  <2>2. broker = "kafka"
    BY <2>1, NobodyAssumption DEF TypeOK
  <2>3. /\ first \in Nat
        /\ \A i \in 1 .. first - 1 : queue[i] \in Fates
        /\ \A i \in 1 .. offset : queue[i] \in Fates
    BY <1>0, <2>2
  <2> HIDE DEF first
  <2> QED BY <1>6, <2>1, <2>3
<1>9. ASSUME NEW k \in Consumers, Succeed(k) PROVE KafkaOK'
  <2>1. CASE ConsumerGoesTo(k, "reply") /\ UNCHANGED partitionVars
    BY <1>9, <2>1 DEF Succeed, TypeOK, Fates
  <2>2. CASE broker = "redis"
    BY <1>9, <2>2 DEF Succeed
  <2> QED BY <1>9, <2>1, <2>2 DEF Succeed
<1>10. ASSUME NEW k \in Consumers, FailOnServer(k) PROVE KafkaOK'
  BY <1>10 DEF FailOnServer, TypeOK, Fates
<1>11. ASSUME NEW k \in Consumers, consumer' = [consumer EXCEPT ![k] = Idle],
              UNCHANGED <<broker, queue, position, offset, settled, lost, skipped>>,
              owner' \in {owner, Nobody}
       PROVE  KafkaOK'
  BY <1>11, NobodyAssumption DEF Idle, TypeOK, Fates
<1>12. CASE CommitOffset
  BY <1>12 DEF CommitOffset, TypeOK, Fates
<1>13. CASE LosePartition
  BY <1>13, NobodyAssumption DEF LosePartition, Fates
<1>14. CASE UNCHANGED <<broker, queue, position, offset, owner, consumer, settled, lost, skipped>>
  BY <1>14 DEF Fates
<1> QED BY <1>1, <1>2, <1>3, <1>4, <1>5, <1>7, <1>8, <1>9, <1>10, <1>11, <1>12, <1>13, <1>14
        DEF Next, EnterPostHook, EndSendToRedis, EndOperation, LoseOperation,
            RefuseMessage, GiveUp, Reply, Crash, ExpireMessages

\* What a consumer has is a message, or nothing at all.
LEMMA HeldMessages ==
    ASSUME TypeOK, HoldingOK, NEW k \in Consumers
    PROVE  /\ consumer[k].stage = "idle" => consumer[k].message \notin Messages
           /\ consumer[k].stage # "idle" => consumer[k].message \in Messages
  BY NobodyAssumption DEF TypeOK, HoldingOK, Idle

\* A message that was never sent is appended.
LEMMA FreshMessages ==
    ASSUME TypeOK, HoldingOK, RedisOK, broker = "redis",
           NEW m \in Messages, m \notin sent, queue' = Append(queue, m)
    PROVE  /\ \A i, j \in 1 .. Len(queue') : queue'[i] = queue'[j] => i = j
           /\ \A i \in 1 .. Len(queue') : queue'[i] \in {queue[j] : j \in 1 .. Len(queue)} \cup {m}
           /\ \A i \in 1 .. Len(queue') : queue'[i] \notin settled
           /\ \A k \in Consumers : consumer[k].stage # "idle" =>
                 \A i \in 1 .. Len(queue') : queue'[i] # consumer[k].message
<1>1. /\ Len(queue) \in Nat /\ Len(queue') = Len(queue) + 1
      /\ \A i \in 1 .. Len(queue) : queue'[i] = queue[i]
      /\ queue'[Len(queue) + 1] = m
  BY AppendFacts DEF TypeOK
<1>2. \A i \in 1 .. Len(queue') : i \in 1 .. Len(queue) \/ i = Len(queue) + 1
  BY <1>1
<1>3. \A i \in 1 .. Len(queue) : queue[i] # m
  BY DEF HoldingOK
<1>4. \A i, j \in 1 .. Len(queue') : queue'[i] = queue'[j] => i = j
  BY <1>1, <1>2, <1>3 DEF RedisOK
<1>5. m \notin settled
  BY DEF TypeOK
<1>6. \A k \in Consumers : consumer[k].stage # "idle" => consumer[k].message # m
  BY DEF HoldingOK
<1> QED BY <1>1, <1>2, <1>4, <1>5, <1>6 DEF RedisOK

\* A message moves from the list to one consumer, and comes back as another.
LEMMA RedisStep ==
    ASSUME TypeOK, TypeOK', SendingOK, HoldingOK, RedisOK, Next
    PROVE  RedisOK'
<1> USE DEF sendVars, partitionVars, fates, ConsumerGoesTo
<1>0. ASSUME broker = "kafka" PROVE RedisOK'
  <2>1. broker' = broker
    BY DEF Next, EnterPostHook, SendToKafka, PushToRedis, EndSendToRedis, EndOperation,
           LoseOperation, TakePartition, ResetPosition, DeliverFromKafka, PopFromRedis,
           Succeed, FailOnServer, RefuseMessage, SendAgain, Reply, Crash, CommitOffset,
           LosePartition, ExpireMessages
  <2> QED BY <1>0, <2>1 DEF RedisOK
<1> SUFFICES ASSUME broker = "redis" PROVE RedisOK'
  BY <1>0 DEF TypeOK
<1>1. /\ position = 0 /\ offset = NoOffset /\ start = 0 /\ owner = Nobody
  BY DEF RedisOK, TypeOK
<1>2. ASSUME NEW o \in Operations, PushToRedis(o) PROVE RedisOK'
  <2> DEFINE m == Message(o, operation[o].pushed + 1)
  <2>1. /\ m \in Messages /\ m.copy = 0 /\ m.operation = o /\ m.part = operation[o].pushed + 1
        /\ operation[o].stage = "postHook" /\ operation[o].pushed \in Nat
    BY <1>2, PartsFacts DEF PushToRedis, TypeOK
  <2>2. /\ UNCHANGED <<broker, position, offset, start, owner, consumer, settled, lost, skipped>>
        /\ \/ queue' = Append(queue, m) /\ sent' = sent \cup {m}
           \/ UNCHANGED <<queue, sent>>
    BY <1>2 DEF PushToRedis
  <2> HIDE DEF m
  <2>3. m \notin sent
    BY <2>1 DEF SendingOK
  <2>4. \A k \in Consumers : consumer[k].stage = "wait" => CopyOf(consumer[k].message) # m
    <3> SUFFICES ASSUME NEW k \in Consumers, consumer[k].stage = "wait"
                 PROVE  CopyOf(consumer[k].message) # m
      OBVIOUS
    <3> DEFINE n == consumer[k].message
    <3>1. n \in Messages /\ n.copy < MaxCopies
      BY HeldMessages DEF HoldingOK
    <3> HIDE DEF n
    <3>2. n.copy \in Nat
      BY <3>1, MaxCopiesAssumption DEF Messages
    <3>3. CopyOf(n).copy = n.copy + 1
      BY <3>1, CopyFacts
    <3>4. CopyOf(n) # m
      BY <2>1, <3>2, <3>3
    <3> QED BY <3>4 DEF n
  <2>5. CASE queue' = Append(queue, m) /\ sent' = sent \cup {m}
    BY <2>1, <2>2, <2>3, <2>4, <2>5, FreshMessages DEF RedisOK
  <2>6. CASE UNCHANGED <<queue, sent>>
    BY <2>2, <2>6 DEF RedisOK
  <2> QED BY <2>2, <2>5, <2>6
<1>3. ASSUME NEW k \in Consumers, PopFromRedis(k) PROVE RedisOK'
  <2>1. queue \in Seq(Messages) /\ queue # <<>>
    BY <1>3 DEF PopFromRedis, TypeOK
  <2>2. /\ consumer' = [consumer EXCEPT ![k] = [stage |-> "execute", message |-> queue[1]]]
        /\ \A i \in 1 .. Len(queue') : i \in Nat /\ i + 1 \in 1 .. Len(queue)
                                       /\ i + 1 # 1 /\ queue'[i] = queue[i + 1]
        /\ 1 \in 1 .. Len(queue) /\ queue[1] \in Messages
        /\ UNCHANGED <<broker, position, offset, start, sent, settled>>
    BY <1>3, <2>1, TailFacts DEF PopFromRedis
  <2>3. /\ \A i, j \in 1 .. Len(queue') : queue'[i] = queue'[j] => i = j
        /\ \A i \in 1 .. Len(queue') : queue'[i] \notin settled
        /\ \A i \in 1 .. Len(queue') : queue'[i] # queue[1]
    <3>1. ASSUME NEW i \in 1 .. Len(queue'), NEW j \in 1 .. Len(queue'), queue'[i] = queue'[j]
          PROVE  i = j
      <4>1. queue[i + 1] = queue[j + 1]
        BY <2>2, <3>1
      <4>2. i + 1 = j + 1
        BY <2>2, <4>1 DEF RedisOK
      <4> QED BY <2>2, <4>2
    <3>2. ASSUME NEW i \in 1 .. Len(queue')
          PROVE  queue'[i] \notin settled /\ queue'[i] # queue[1]
      BY <2>2 DEF RedisOK
    <3> QED BY <3>1, <3>2
  <2>4. \A c \in Consumers : consumer[c].message # queue[1]
    BY <2>2, HeldMessages DEF RedisOK
  <2>5. /\ consumer'[k].stage = "execute" /\ consumer'[k].message = queue[1]
        /\ \A c \in Consumers \ {k} : consumer'[c] = consumer[c]
    BY <2>2 DEF TypeOK
  <2> QED BY <2>2, <2>3, <2>4, <2>5 DEF RedisOK
<1>4. ASSUME NEW k \in Consumers, SendAgain(k) PROVE RedisOK'
  <2> DEFINE m == consumer[k].message
             n == CopyOf(m)
  <2>1. /\ m \in sent /\ m \in Messages /\ m.copy < MaxCopies /\ n \notin sent
        /\ consumer[k].stage = "wait"
    BY <1>4, HeldMessages DEF SendAgain, HoldingOK, RedisOK
  <2>2. /\ consumer' = [consumer EXCEPT ![k] = Idle]
        /\ settled' \subseteq settled \cup {m}
        /\ \/ queue' = Append(queue, n) /\ sent' = sent \cup {n}
           \/ UNCHANGED <<queue, sent>>
        /\ UNCHANGED <<broker, position, offset, start>>
    BY <1>1, <1>4, NobodyAssumption DEF SendAgain, Pass
  <2>3. /\ consumer'[k] = Idle
        /\ \A c \in Consumers \ {k} : consumer'[c] = consumer[c] /\ consumer[c].message # m
    BY <2>1, <2>2 DEF TypeOK, RedisOK
  <2>4. n \in Messages /\ n # m
    <3> HIDE DEF m
    <3>1. n \in Messages /\ n.copy = m.copy + 1
      BY <2>1, CopyFacts
    <3>2. m.copy \in Nat
      BY <2>1, MaxCopiesAssumption DEF Messages
    <3> QED BY <3>1, <3>2
  <2>5. ASSUME NEW c \in Consumers \ {k}, consumer[c].stage = "wait"
        PROVE  CopyOf(consumer[c].message) \notin sent \cup {n}
    <3> DEFINE x == consumer[c].message
    <3>1. x \in sent /\ x \in Messages /\ x.copy < MaxCopies /\ CopyOf(x) \notin sent /\ x # m
      BY <2>3, <2>5, HeldMessages DEF HoldingOK, RedisOK
    <3> HIDE DEF m, x
    <3>2. ASSUME CopyOf(x) = CopyOf(m) PROVE FALSE
      <4>1. x.copy + 1 = m.copy + 1 /\ x.operation = m.operation /\ x.part = m.part
        <5>1. /\ CopyOf(x).copy = x.copy + 1 /\ CopyOf(x).operation = x.operation
              /\ CopyOf(x).part = x.part
          BY <3>1, CopyFacts
        <5>2. /\ CopyOf(m).copy = m.copy + 1 /\ CopyOf(m).operation = m.operation
              /\ CopyOf(m).part = m.part
          BY <2>1, CopyFacts
        <5> QED BY <3>2, <5>1, <5>2
      <4>2. x.copy \in Nat /\ m.copy \in Nat
        BY <2>1, <3>1, MaxCopiesAssumption DEF Messages
      <4>3. x.copy = m.copy
        BY <4>1, <4>2
      <4> QED BY <2>1, <3>1, <4>1, <4>3, SentMessagesDiffer
    <3>3. CopyOf(x) # n
      BY <3>2
    <3> HIDE DEF n
    <3>4. CopyOf(x) \notin sent \cup {n}
      BY <3>1, <3>3
    <3> QED BY <3>4 DEF x
  <2> HIDE DEF m, n
  <2>6. /\ \A i, j \in 1 .. Len(queue') : queue'[i] = queue'[j] => i = j
        /\ \A i \in 1 .. Len(queue') : queue'[i] \notin settled \cup {m}
        /\ \A c \in Consumers : consumer[c].stage # "idle" =>
              \A i \in 1 .. Len(queue') : queue'[i] # consumer[c].message
    <3>1. \A i \in 1 .. Len(queue) : queue[i] # m
      BY <2>1 DEF RedisOK, m
    <3>2. CASE UNCHANGED queue
      BY <3>1, <3>2 DEF RedisOK
    <3>3. CASE queue' = Append(queue, n)
      BY <2>1, <2>4, <3>1, <3>3, FreshMessages
    <3> QED BY <2>2, <3>2, <3>3
  <2>7. \A c \in Consumers \ {k} : consumer[c].stage # "idle" =>
           /\ consumer[c].message # Nobody
           /\ consumer[c].stage \in {"execute", "wait"} => consumer[c].message \notin settled'
    BY <2>2, <2>3, HeldMessages, NobodyAssumption DEF RedisOK
  <2>8. sent' \subseteq sent \cup {n}
    BY <2>2
  <2> QED BY <1>1, <2>2, <2>3, <2>5, <2>6, <2>7, <2>8 DEF RedisOK, Idle
<1>5. ASSUME NEW k \in Consumers, Succeed(k) PROVE RedisOK'
  <2> DEFINE m == consumer[k].message
  <2>1. /\ consumer[k].stage = "execute" /\ settled' = settled \cup {m}
        /\ UNCHANGED <<broker, queue, sent, position, offset, start>>
        /\ consumer'[k].stage \in {"idle", "reply"}
        /\ consumer'[k].message \in {m, Nobody}
        /\ consumer'[k].stage = "reply" => consumer'[k].message = m
        /\ \A c \in Consumers \ {k} : consumer'[c] = consumer[c]
    <3>1. CASE Pass(k)
      <4>1. /\ consumer[k].stage = "execute" /\ settled' = settled \cup {m}
            /\ UNCHANGED <<broker, queue, sent>>
        BY <1>5 DEF Succeed
      <4>2. consumer' = [consumer EXCEPT ![k] = Idle] /\ UNCHANGED <<position, offset, start>>
        BY <1>1, <3>1, NobodyAssumption DEF Pass
      <4> QED BY <4>1, <4>2 DEF Idle, TypeOK
    <3>2. CASE ConsumerGoesTo(k, "reply") /\ UNCHANGED partitionVars
      BY <1>1, <1>5, <3>2 DEF Succeed, TypeOK
    <3> QED BY <1>5, <3>1, <3>2 DEF Succeed
  <2> QED BY <2>1, HeldMessages, NobodyAssumption DEF RedisOK
<1>6. ASSUME NEW k \in Consumers, FailOnServer(k) PROVE RedisOK'
  <2>1. /\ consumer[k].stage = "execute" /\ CopyOf(consumer[k].message) \notin sent
        /\ consumer'[k].stage = "wait" /\ consumer'[k].message = consumer[k].message
        /\ \A c \in Consumers \ {k} : consumer'[c] = consumer[c]
        /\ UNCHANGED <<broker, queue, sent, settled, position, offset, start>>
    BY <1>6 DEF FailOnServer, TypeOK
  <2> QED BY <2>1 DEF RedisOK
<1>7. ASSUME NEW k \in Consumers, consumer' = [consumer EXCEPT ![k] = Idle],
             UNCHANGED <<broker, queue, sent, settled, position, offset, start>>
      PROVE  RedisOK'
  <2>1. consumer'[k] = Idle /\ \A c \in Consumers \ {k} : consumer'[c] = consumer[c]
    BY <1>7 DEF TypeOK
  <2> QED BY <1>7, <2>1, HeldMessages, NobodyAssumption DEF RedisOK, Idle
<1>8. CASE UNCHANGED <<broker, queue, position, offset, start, consumer, sent, settled>>
  BY <1>8 DEF RedisOK
<1> QED BY <1>1, <1>2, <1>3, <1>4, <1>5, <1>6, <1>7, <1>8, NobodyAssumption
        DEF Next, EnterPostHook, SendToKafka, EndSendToRedis, EndOperation, LoseOperation,
            TakePartition, ResetPosition, DeliverFromKafka, RefuseMessage, GiveUp, Reply, Crash,
            CommitOffset, LosePartition, ExpireMessages

-----------------------------------------------------------------------------
\* The invariant is inductive.
LEMMA StepInv == Inv /\ [Next]_vars => Inv'
<1> SUFFICES ASSUME Inv, [Next]_vars PROVE Inv'
  OBVIOUS
<1>1. CASE Next
  <2>1. TypeOK'
    BY <1>1, TypeStep DEF Inv
  <2> QED BY <1>1, <2>1, SendingStep, HoldingStep, KafkaStep, RedisStep DEF Inv
<1>2. CASE UNCHANGED vars
  <2>1. UNCHANGED <<broker, operation, queue, position, offset, start, owner, consumer, sent, settled, lost, skipped>>
    BY <1>2 DEF vars, partitionVars, fates
  <2>2. TypeOK'
    BY <2>1 DEF Inv, TypeOK
  <2>3. SendingOK'
    BY <2>1 DEF Inv, SendingOK, Parts, Message
  <2>4. HoldingOK' /\ KafkaOK' /\ RedisOK'
    BY <2>1 DEF Inv, HoldingOK, KafkaOK, RedisOK, CopyOf, Fates
  <2> QED BY <2>2, <2>3, <2>4 DEF Inv
<1> QED BY <1>1, <1>2

(* The invariant holds in every reachable state.                             *)
THEOREM Invariance == Spec => []Inv
<1>1. Init => Inv
  BY InitInv
<1>2. Inv /\ [Next]_vars => Inv'
  BY StepInv
<1> QED BY <1>1, <1>2, PTL DEF Spec

(* Every variable has its type: no consumer passes a message that is not     *)
(* there, however partitions move.                                           *)
THEOREM TypeCorrectness == Spec => []TypeOK
<1>1. Inv => TypeOK
  BY DEF Inv
<1> QED BY <1>1, Invariance, PTL

(* An operation that has committed has sent its messages, over Kafka if it   *)
(* waits for the acknowledgement of all replicas, for any number of them.    *)
THEOREM CommittedHaveSent == Spec => []CommittedOperationsHaveSent
<1>1. Inv => CommittedOperationsHaveSent
  <2> SUFFICES ASSUME Inv, NEW o \in Operations, operation[o].stage = "committed",
                      broker = "kafka" => operation[o].acknowledged
               PROVE  {Message(o, i) : i \in Parts(o)} \subseteq sent
    BY DEF CommittedOperationsHaveSent
  <2> QED BY DEF Inv, SendingOK
<1> QED BY <1>1, Invariance, PTL

(* No offset is committed beyond a message that was neither executed nor     *)
(* sent again, unless it could not be sent again or a consumer that began at *)
(* the end has passed it over; and a message of Redis is with one consumer.  *)
THEOREM DeliveriesAreSettled == Spec => []DeliveriesAreNotLostOrRepeated
<1>1. Inv => DeliveriesAreNotLostOrRepeated
  BY DEF Inv, KafkaOK, RedisOK, DeliveriesAreNotLostOrRepeated, Fates
<1> QED BY <1>1, Invariance, PTL

-----------------------------------------------------------------------------
(* The refinement of MessageDelivery.                                      *)

Expired == {queue[i] : i \in 1 .. start}

DeliveryStep == [Delivery!Next]_Delivery!vars

\* What is accepted, handled, lost, skipped, dismissed or has expired changes by one step
\* of the abstract specification, or not at all.
LEMMA Stuttering ==
    ASSUME UNCHANGED <<broker, sent, Expired, Dismissed, settled, lost, skipped>>
    PROVE  DeliveryStep
  BY DEF DeliveryStep, Delivery!vars, Expired

LEMMA Accepting ==
    ASSUME UNCHANGED <<broker, Expired, Dismissed, settled, lost, skipped>>,
           NEW m \in Messages, sent' = sent \cup {m}
    PROVE  DeliveryStep
<1>1. CASE m \in sent
  BY <1>1, Stuttering
<1>2. CASE m \notin sent
  <2>1. Delivery!Accept(m)
    BY DEF Delivery!Accept, Expired
  <2> QED BY <1>2, <2>1 DEF DeliveryStep, Delivery!Next
<1> QED BY <1>1, <1>2

LEMMA Handling ==
    ASSUME UNCHANGED <<broker, Expired, Dismissed, lost, skipped>>,
           NEW m \in sent, settled' = settled \cup {m},
           broker = "kafka" \/ m \in Dismissed,
           \/ sent' = sent
           \/ \E c \in Messages : sent' = sent \cup {c}
    PROVE  DeliveryStep
<1>1. PICK copies \in {{}} \cup {{c} : c \in Messages \ sent} : sent' = sent \cup copies
  <2>1. CASE sent' = sent \cup {}
    <3>1. {} \in {{}} \cup {{c} : c \in Messages \ sent}
      OBVIOUS
    <3> QED BY <2>1, <3>1
  <2>2. CASE \E c \in Messages : sent' = sent \cup {c}
    <3>1. PICK c \in Messages : sent' = sent \cup {c}
      BY <2>2
    <3>2. CASE c \in sent
      <4>1. sent' = sent \cup {}
        BY <3>1, <3>2
      <4> QED BY <2>1, <4>1
    <3>3. CASE c \notin sent
      BY <3>1, <3>3
    <3> QED BY <3>2, <3>3
  <2>3. sent' = sent => sent' = sent \cup {}
    OBVIOUS
  <2> QED BY <2>1, <2>2, <2>3
<1>2. Delivery!Handle(m, copies)
  BY <1>1 DEF Delivery!Handle, Expired
<1> QED BY <1>1, <1>2 DEF DeliveryStep, Delivery!Next

LEMMA Losing ==
    ASSUME UNCHANGED <<broker, sent, Expired, Dismissed, settled, skipped>>,
           NEW m \in sent, lost' = lost \cup {m},
           broker = "kafka" \/ m \in Dismissed
    PROVE  DeliveryStep
<1>1. Delivery!Lose(m)
  BY DEF Delivery!Lose, Expired
<1> QED BY <1>1 DEF DeliveryStep, Delivery!Next

\* What was in a queue of Kafka is still there, behind what was appended.
LEMMA BehindAppended ==
    ASSUME TypeOK, UNCHANGED <<offset, start>>,
           \A i \in 1 .. Len(queue) : queue'[i] = queue[i]
    PROVE  /\ Expired' = Expired
           /\ {queue'[i] : i \in 1 .. offset'} = {queue[i] : i \in 1 .. offset}
<1>1. (\A i \in 1 .. offset : i \in 1 .. Len(queue)) /\ (\A i \in 1 .. start : i \in 1 .. Len(queue))
  BY DEF TypeOK, NoOffset
<1> QED BY <1>1 DEF Expired

\* What is appended is not dismissed, and the queue behind it is what it was.
LEMMA AppendingDismissesNone ==
    ASSUME Inv, UNCHANGED <<broker, offset, start>>, NEW m \in Messages,
           queue' = Append(queue, m), sent' = sent \cup {m},
           broker = "redis" => m \notin sent
    PROVE  Dismissed' = Dismissed /\ Expired' = Expired
<1>1. /\ Len(queue) \in Nat /\ Len(queue') = Len(queue) + 1
      /\ \A i \in 1 .. Len(queue) : queue'[i] = queue[i]
      /\ queue'[Len(queue) + 1] = m
  BY AppendFacts DEF Inv, TypeOK
<1>2. CASE broker = "kafka"
  BY <1>1, <1>2, BehindAppended DEF Inv, Dismissed
<1>3. CASE broker = "redis"
  <2>1. \A i \in 1 .. Len(queue') : i \in 1 .. Len(queue) \/ i = Len(queue) + 1
    BY <1>1
  <2>2. ASSUME NEW x
        PROVE  /\ x # m => ((\A i \in 1 .. Len(queue') : queue'[i] # x)
                              <=> (\A i \in 1 .. Len(queue) : queue[i] # x))
               /\ x = m => ~ \A i \in 1 .. Len(queue') : queue'[i] # x
    BY <1>1, <2>1
  <2>3. m \notin sent
    BY <1>3
  <2>4. Dismissed' = Dismissed
    BY <1>3, <2>2, <2>3 DEF Dismissed
  <2> QED BY <1>1, <2>4, BehindAppended DEF Inv
<1> QED BY <1>2, <1>3 DEF Inv, TypeOK

\* Redis: who takes a message off the list dismisses it.
LEMMA PoppingDismisses ==
    ASSUME Inv, NEW k \in Consumers, PopFromRedis(k)
    PROVE  DeliveryStep
<1>1. queue \in Seq(Messages) /\ queue # <<>> /\ broker = "redis"
  BY DEF Inv, TypeOK, PopFromRedis
<1>2. /\ UNCHANGED <<broker, sent, start, settled, lost, skipped>>
      /\ \A i \in 1 .. Len(queue') : i \in Nat /\ i + 1 \in 1 .. Len(queue)
                                     /\ i + 1 # 1 /\ queue'[i] = queue[i + 1]
      /\ \A i \in 1 .. Len(queue) : i # 1 => i - 1 \in 1 .. Len(queue') /\ queue'[i - 1] = queue[i]
      /\ 1 \in 1 .. Len(queue) /\ queue[1] \in Messages
  BY <1>1, TailFacts DEF PopFromRedis, sendVars, partitionVars, fates
<1> DEFINE m == queue[1]
<1>3. m \in sent /\ m \notin settled
  BY <1>1, <1>2 DEF Inv, HoldingOK, RedisOK
<1>4. \A i \in 1 .. Len(queue') : queue'[i] # m
  BY <1>1, <1>2 DEF Inv, RedisOK
<1>5. ASSUME NEW x, x # m
      PROVE  (\A i \in 1 .. Len(queue') : queue'[i] # x)
               <=> (\A i \in 1 .. Len(queue) : queue[i] # x)
  <2>1. ASSUME NEW i \in 1 .. Len(queue'), queue'[i] = x
        PROVE  \E j \in 1 .. Len(queue) : queue[j] = x
    BY <1>2, <2>1
  <2>2. ASSUME NEW i \in 1 .. Len(queue), queue[i] = x
        PROVE  \E j \in 1 .. Len(queue') : queue'[j] = x
    BY <1>2, <1>5, <2>2
  <2> QED BY <2>1, <2>2
<1>6. m \notin Dismissed
  BY <1>1, <1>2 DEF Dismissed
<1> HIDE DEF m
<1>7. Dismissed' = Dismissed \cup {m}
  <2>1. /\ Dismissed = {x \in sent : \A i \in 1 .. Len(queue) : queue[i] # x}
        /\ Dismissed' = {x \in sent : \A i \in 1 .. Len(queue') : queue'[i] # x}
    BY <1>1, <1>2 DEF Dismissed
  <2>2. ASSUME NEW x PROVE x \in Dismissed' <=> x \in Dismissed \/ x = m
    <3>1. CASE x = m
      BY <1>3, <1>4, <2>1, <3>1
    <3>2. CASE x # m
      BY <1>5, <2>1, <3>2
    <3> QED BY <3>1, <3>2
  <2> QED BY <2>1, <2>2
<1>8. m \in Messages
  BY <1>3 DEF Inv, TypeOK
<1>9. Expired = {} /\ Expired' = {}
  BY <1>1, <1>2 DEF Expired, Inv, RedisOK
<1>10. Delivery!Dismiss({m})
  BY <1>1, <1>2, <1>3, <1>7, <1>8, <1>9 DEF Delivery!Dismiss, Expired
<1> QED BY <1>3, <1>6, <1>10 DEF DeliveryStep, Delivery!Next

\* Kafka: committing an offset dismisses what the owner has passed.
LEMMA CommittingDismisses ==
    ASSUME Inv, CommitOffset
    PROVE  DeliveryStep
<1>1. /\ broker = "kafka" /\ owner # Nobody
      /\ UNCHANGED <<broker, sent, settled, lost, skipped, queue, start>> /\ offset' = position
  BY DEF Inv, TypeOK, CommitOffset, sendVars, fates
<1>2. /\ offset <= position /\ position \in 0 .. Len(queue) /\ offset \in Int
      /\ \A i \in 1 .. position : queue[i] \in Fates
  BY <1>1 DEF Inv, TypeOK, KafkaOK, NoOffset
<1> DEFINE M == Dismissed' \ Dismissed
<1>3. Dismissed = {queue[i] : i \in 1 .. offset}
  BY <1>1 DEF Dismissed
<1>4. Dismissed' = {queue[i] : i \in 1 .. position}
  BY <1>1 DEF Dismissed
<1>5. Dismissed \subseteq Dismissed'
  BY <1>2, <1>3, <1>4
<1>6. Dismissed' \subseteq Fates
  BY <1>2, <1>4
<1>7. M \in SUBSET (sent \ Dismissed) /\ M \subseteq Fates /\ Dismissed' = Dismissed \cup M
  BY <1>5, <1>6 DEF Inv, TypeOK, Fates
<1> HIDE DEF M
<1>8. Delivery!Dismiss(M)
  BY <1>1, <1>7 DEF Delivery!Dismiss, Fates
<1> QED BY <1>7, <1>8 DEF DeliveryStep, Delivery!Next

\* Kafka: who begins at the end skips what is left, before anything was dismissed or
\* when something has expired.
LEMMA BeginningSkips ==
    ASSUME Inv, NEW k \in Consumers, TakePartition(k) \/ ResetPosition(k)
    PROVE  DeliveryStep
<1>1. /\ UNCHANGED <<broker, sent, settled, lost, queue, offset, start>> /\ broker = "kafka"
  BY NobodyAssumption DEF TakePartition, ResetPosition, sendVars, Inv, TypeOK
<1>2. Dismissed' = Dismissed /\ Expired' = Expired
  BY <1>1 DEF Dismissed, Expired
<1>3. /\ Len(queue) \in Nat /\ position \in Nat /\ start \in 0 .. Len(queue)
      /\ offset \in -1 .. Len(queue)
      /\ \A i \in 1 .. Len(queue) : queue[i] \in sent
  BY DEF Inv, TypeOK, HoldingOK, NoOffset
<1>4. ASSUME NEW first \in Nat \ {0}, BeginAtTheEnd(first), offset = NoOffset \/ start > 0
      PROVE  DeliveryStep
  <2> DEFINE M == {queue[i] : i \in first .. Len(queue)}
  <2>1. M \subseteq sent /\ skipped' = skipped \cup M
    BY <1>3, <1>4 DEF BeginAtTheEnd
  <2>2. Dismissed = {} \/ Expired # {}
    <3>1. CASE offset = NoOffset
      <4>1. 1 .. offset = {}
        BY <3>1 DEF NoOffset
      <4> QED BY <1>1, <4>1 DEF Dismissed
    <3>2. CASE start > 0
      <4>1. 1 \in 1 .. start
        BY <1>3, <3>2
      <4>2. queue[1] \in Expired
        BY <4>1 DEF Expired
      <4> QED BY <4>2
    <3> QED BY <1>4, <3>1, <3>2
  <2> HIDE DEF M
  <2>3. Delivery!Skip(M)
    BY <1>1, <1>2, <2>1, <2>2 DEF Delivery!Skip, Expired
  <2> QED BY <2>1, <2>3 DEF DeliveryStep, Delivery!Next
<1>5. CASE TakePartition(k)
  <2>1. CASE offset # NoOffset /\ offset >= start
    BY <1>1, <1>2, <1>5, <2>1, Stuttering DEF TakePartition
  <2>2. CASE ~(offset # NoOffset /\ offset >= start)
    <3> DEFINE first == IF offset = NoOffset THEN 1 ELSE offset + 1
    <3>1. first \in Nat \ {0} /\ (offset = NoOffset \/ start > 0)
      BY <1>3, <2>2 DEF NoOffset
    <3>2. BeginAtTheEnd(first)
      BY <1>5, <2>2 DEF TakePartition
    <3> HIDE DEF first
    <3> QED BY <1>4, <3>1, <3>2
  <2> QED BY <2>1, <2>2
<1>6. CASE ResetPosition(k)
  <2>1. position + 1 \in Nat \ {0} /\ start > 0
    BY <1>3, <1>6 DEF ResetPosition
  <2>2. BeginAtTheEnd(position + 1)
    BY <1>6 DEF ResetPosition
  <2> QED BY <1>4, <2>1, <2>2
<1> QED BY <1>5, <1>6

\* Kafka: retention.
LEMMA ExpiryExpires ==
    ASSUME Inv, ExpireMessages
    PROVE  DeliveryStep
<1>1. /\ UNCHANGED <<broker, sent, queue, offset, settled, lost, skipped>> /\ broker = "kafka"
      /\ start' \in start + 1 .. Len(queue) /\ start \in Nat /\ Len(queue) \in Nat
      /\ \A i \in 1 .. Len(queue) : queue[i] \in sent
  BY DEF ExpireMessages, sendVars, fates, Inv, TypeOK, HoldingOK
<1>2. Dismissed' = Dismissed
  BY <1>1 DEF Dismissed
<1>3. Expired \subseteq Expired' /\ Expired' \subseteq sent
  BY <1>1 DEF Expired
<1>4. PICK M \in SUBSET sent : M = Expired'
  BY <1>3
<1>5. Delivery!Expire(M)
  BY <1>1, <1>2, <1>3, <1>4 DEF Delivery!Expire, Expired
<1> QED BY <1>5 DEF DeliveryStep, Delivery!Next

\* Messages that operations send are accepted.
LEMMA SendingAccepts ==
    ASSUME Inv, NEW o \in Operations, SendToKafka(o) \/ PushToRedis(o)
    PROVE  DeliveryStep
<1>1. CASE SendToKafka(o)
  <2>1. UNCHANGED <<broker, settled, lost, skipped, offset, start>> /\ broker = "kafka"
    BY <1>1 DEF SendToKafka, partitionVars, fates
  <2>2. /\ \A i \in 1 .. Len(queue) : queue'[i] = queue[i]
        /\ sent' \in {sent, sent \cup {Message(o, 1)}}
    BY <1>1, KafkaSends DEF Inv
  <2>3. Dismissed' = Dismissed /\ Expired' = Expired
    BY <2>1, <2>2, BehindAppended DEF Inv, Dismissed
  <2>4. Message(o, 1) \in Messages
    BY PartsFacts DEF Inv
  <2> QED BY <2>1, <2>2, <2>3, <2>4, Accepting, Stuttering
<1>2. CASE PushToRedis(o)
  <2> DEFINE m == Message(o, operation[o].pushed + 1)
  <2>1. /\ m \in Messages /\ m.copy = 0 /\ m.operation = o /\ m.part = operation[o].pushed + 1
        /\ operation[o].stage = "postHook" /\ operation[o].pushed \in Nat
    BY <1>2, PartsFacts DEF PushToRedis, Inv, TypeOK
  <2>2. /\ UNCHANGED <<broker, offset, start, settled, lost, skipped>>
        /\ \/ queue' = Append(queue, m) /\ sent' = sent \cup {m}
           \/ UNCHANGED <<queue, sent>>
    BY <1>2 DEF PushToRedis, partitionVars, fates
  <2> HIDE DEF m
  <2>3. m \notin sent
    BY <2>1 DEF Inv, SendingOK
  <2>4. CASE queue' = Append(queue, m) /\ sent' = sent \cup {m}
    <3>1. Dismissed' = Dismissed /\ Expired' = Expired
      BY <2>1, <2>2, <2>3, <2>4, AppendingDismissesNone
    <3> QED BY <2>1, <2>2, <2>4, <3>1, Accepting
  <2>5. CASE UNCHANGED <<queue, sent>>
    <3>1. Dismissed' = Dismissed /\ Expired' = Expired
      BY <2>2, <2>5 DEF Dismissed, Expired
    <3> QED BY <2>2, <2>5, <3>1, Stuttering
  <2> QED BY <2>2, <2>4, <2>5
<1> QED BY <1>1, <1>2

\* A message that succeeded, or that is sent again, is handled; one that cannot be
\* sent again is lost.
LEMMA ExecutingHandles ==
    ASSUME Inv, NEW k \in Consumers, Succeed(k) \/ SendAgain(k)
    PROVE  DeliveryStep
<1> DEFINE m == consumer[k].message
<1>1. consumer[k].stage # "idle" /\ UNCHANGED <<broker, offset, start, skipped>>
  BY DEF Succeed, SendAgain, Pass, partitionVars
<1>2. m \in sent
  BY <1>1 DEF Inv, HoldingOK
<1>3. broker = "kafka" \/ (broker = "redis" /\ m \in Dismissed)
  <2>1. broker = "redis" => \A i \in 1 .. Len(queue) : queue[i] # m
    BY <1>1 DEF Inv, RedisOK
  <2>2. broker \in {"kafka", "redis"}
    BY DEF Inv, TypeOK
  <2> QED BY <1>2, <2>1, <2>2 DEF Dismissed
<1>4. UNCHANGED <<queue, sent>> => Dismissed' = Dismissed /\ Expired' = Expired
  BY <1>1 DEF Dismissed, Expired
<1>5. CASE Succeed(k)
  <2>1. UNCHANGED <<queue, sent, lost>> /\ settled' = settled \cup {m}
    BY <1>5 DEF Succeed, sendVars
  <2> HIDE DEF m
  <2> QED BY <1>1, <1>2, <1>3, <1>4, <2>1, Handling
<1>6. CASE SendAgain(k)
  <2>1. consumer[k].stage = "wait"
    BY <1>6 DEF SendAgain
  <2>2. m.copy < MaxCopies /\ m \in Messages
    BY <1>2, <2>1 DEF Inv, HoldingOK, TypeOK
  <2>3. broker = "redis" => CopyOf(m) \notin sent
    BY <2>1 DEF Inv, RedisOK
  <2>4. \/ /\ queue' = Append(queue, CopyOf(m)) /\ sent' = sent \cup {CopyOf(m)}
           /\ settled' = settled \cup {m} /\ UNCHANGED lost
        \/ lost' = lost \cup {m} /\ UNCHANGED <<queue, sent, settled>>
    BY <1>6 DEF SendAgain
  <2> HIDE DEF m
  <2>5. CopyOf(m) \in Messages
    BY <2>2, CopyFacts
  <2>6. CASE /\ queue' = Append(queue, CopyOf(m)) /\ sent' = sent \cup {CopyOf(m)}
             /\ settled' = settled \cup {m} /\ UNCHANGED lost
    <3>1. Dismissed' = Dismissed /\ Expired' = Expired
      BY <1>1, <2>3, <2>5, <2>6, AppendingDismissesNone
    <3> QED BY <1>1, <1>2, <1>3, <2>5, <2>6, <3>1, Handling
  <2>7. CASE lost' = lost \cup {m} /\ UNCHANGED <<queue, sent, settled>>
    BY <1>1, <1>2, <1>3, <1>4, <2>7, Losing
  <2> QED BY <2>4, <2>6, <2>7
<1> QED BY <1>5, <1>6

LEMMA StepDelivery == Inv /\ [Next]_vars => DeliveryStep
<1> SUFFICES ASSUME Inv, [Next]_vars PROVE DeliveryStep
  OBVIOUS
<1>1. ASSUME UNCHANGED <<broker, sent, settled, lost, skipped, queue, offset, start>>
      PROVE  DeliveryStep
  BY <1>1, Stuttering DEF Dismissed, Expired
<1>2. CASE Next
  BY <1>1, <1>2, PoppingDismisses, CommittingDismisses, SendingAccepts, ExecutingHandles,
     BeginningSkips, ExpiryExpires
     DEF Next, EnterPostHook, EndSendToRedis, EndOperation, LoseOperation, DeliverFromKafka,
         FailOnServer, RefuseMessage, GiveUp, Reply, Crash, LosePartition, sendVars,
         partitionVars, fates
<1>3. CASE UNCHANGED vars
  BY <1>1, <1>3 DEF vars, sendVars, partitionVars, fates
<1> QED BY <1>2, <1>3

(* Every behaviour of operations, brokers and consumers is one of            *)
(* MessageDelivery: Kafka delivers at least once until messages expire, with *)
(* the losses named there, Redis at most once, and no committed offset goes  *)
(* back, however partitions move and consumers crash.                        *)
THEOREM Refinement == Spec => ImplementsMessageDelivery
<1>1. Init => Delivery!Init
  <2> SUFFICES ASSUME Init PROVE Delivery!Init
    OBVIOUS
  <2>1. 1 .. offset = {} /\ 1 .. start = {}
    BY DEF Init, NoOffset
  <2>2. Dismissed = {} /\ {queue[i] : i \in 1 .. start} = {}
    BY <2>1 DEF Init, Dismissed
  <2> QED BY <2>2 DEF Init, Delivery!Init
<1>2. Inv /\ [Next]_vars => [Delivery!Next]_Delivery!vars
  BY StepDelivery DEF DeliveryStep
<1> QED BY <1>1, <1>2, Invariance, PTL DEF Spec, ImplementsMessageDelivery, Delivery!Spec
=============================================================================
