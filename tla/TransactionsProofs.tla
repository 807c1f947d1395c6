------------------------- MODULE TransactionsProofs -------------------------
(***************************************************************************)
(* Proofs about Transactions, for any number of requests and connections   *)
(* and any bounds: connections are exclusive, and a single call commits    *)
(* what it reports.  Multiple calls matter here for the connections they   *)
(* keep; what they commit is not what the properties are about.            *)
(*                                                                         *)
(* What a single call needs of the state is five values: its function g,   *)
(* its flags fl, the session s of its connection, the writes it has        *)
(* executed (made) and those of them that are committed (done).  The first *)
(* lemmas are about these values alone; then it is shown that a step of    *)
(* one request leaves the five values of every other one as they are.      *)
(***************************************************************************)
EXTENDS Transactions, TLAPS

Sessions == [tx : {"none", "open", "aborted"}, writes : SUBSET Writes]

-----------------------------------------------------------------------------
(* The invariant of a call.                                                *)

\* Of any function.
ProgressOK(g) ==
    /\ g.pc = "none" => g = NotStarted
    /\ g.pc = "operation" \/ g.late # {} => g.operations > 0
    /\ g.pc = "operation" => ~g.failed
    /\ g.late # {} => g.failed
    /\ g.localCount <= g.operations
    /\ g.started => g.localCount > 0
    /\ g.depth = 2 => g.nested
    /\ g.depth > 0 => g.blocks > 0

\* Between operations no local transaction is open, and outside
\* executeInsideTransaction no global one.
FlagsOK(g, fl) ==
    /\ fl \subseteq {"globalTransaction", "localTransaction"}
    /\ "localTransaction" \in fl <=> g.pc = "operation" /\ g.started
    /\ g.pc = "operation" /\ g.started => "globalTransaction" \notin fl
    /\ g.depth = 0 /\ ~g.failed => "globalTransaction" \notin fl
    /\ g.depth = 0 /\ g.pc = "operation" => g.started
    /\ g.depth = 1 /\ ~g.nested => "globalTransaction" \in fl

\* What is open on its connection, and what waits there.
SessionOK(g, s) ==
    /\ s.tx = "none" => s.writes = {}
    /\ s.tx = "aborted" => g.failed /\ g.depth > 0
    /\ g.depth = 0 /\ g.pc # "operation" =>
          /\ s.writes = {}
          /\ g.late # {} => s.tx = "none"
    /\ g.pc = "operation" /\ g.started => s.tx = "open"
    /\ g.pc = "operation" /\ g.depth = 0 => \A w \in s.writes : w.block = 0
    /\ g.depth = 1 /\ ~g.nested /\ ~g.failed => s.tx = "open"

InBlock(W, b) == {w \in W : w.block = b /\ ~w.late}

\* Without an error all that was written is committed or waits for the COMMIT, and
\* what waits in executeInsideTransaction was written there.
WaitingOK(g, s, done, made) ==
    /\ s.writes \subseteq made
    /\ ~g.failed => made \subseteq done \cup s.writes
    /\ ~g.nested /\ g.depth > 0 =>
          /\ ~g.failed => InBlock(made, g.blocks) \subseteq s.writes
          /\ \A w \in s.writes : ~w.late => w.block = g.blocks

\* A call of one unit of work that is not over, or has failed.
Uncommitted(g) ==
    /\ ~g.nested /\ g.blocks + g.localCount <= 1
    /\ \/ g.failed \/ g.pc = "operation" \/ g.depth > 0
       \/ g.blocks + g.localCount = 0

\* What it answers is true of what it has committed, and the transaction it is in is
\* not committed at all.
AnswerOK(g, done, made) ==
    /\ done \subseteq made
    /\ g.pc = "ok" => made \subseteq done /\ g.late = {}
    /\ g.pc = "error" => \/ g.failed \/ g.remote
                         \/ g.blocks + g.localCount = 0 \/ g.localCount > 1
    /\ Uncommitted(g) => \A w \in done : w.late
    /\ \A w \in made : w.block <= g.blocks
    /\ ~g.nested =>
          /\ g.depth > 0 => InBlock(made, g.blocks) \cap done = {}
          /\ \A b \in 1 .. MaxBlocks : \/ InBlock(made, b) \subseteq done
                                       \/ InBlock(made, b) \cap done = {}

CallOK(g, fl, s, done, made) ==
    /\ FlagsOK(g, fl) /\ SessionOK(g, s)
    /\ WaitingOK(g, s, done, made) /\ AnswerOK(g, done, made)

-----------------------------------------------------------------------------
(* The invariant.                                                          *)

Own(c) == session[connection[c]]

By(c, W) == {w \in W : w.call = c}

\* How far a request is, and what it has by then.
RequestOK(kd, st, conn, fn, made) ==
    /\ \A f \in Functions : ProgressOK(fn[f])
    /\ st \in {"new", "reserving"} =>
          /\ conn = NoConnection
          /\ \A f \in Functions : fn[f] = NotStarted
          /\ made = {}
    /\ IF st = "new" THEN kd = "none" ELSE kd \in Kinds
    /\ st \in {"running", "broken"} => conn # NoConnection
    /\ \A f \in Functions : fn[f].pc \in {"body", "operation"} =>
                               st \in {"running", "broken"}
    /\ kd = "single" =>
          /\ fn[2] = NotStarted
          /\ st # "broken"
          /\ st = "running" => fn[1].pc \in {"none", "body", "operation"}
          /\ st = "ended" => fn[1].pc \in {"ok", "error", "threw"}

RequestsOK ==
    \A c \in Calls :
        RequestOK(kind[c], stage[c], connection[c], function[c], By(c, issued))

\* What waits for a COMMIT on a connection was written by the request that has it.
SessionsOK ==
    /\ committed \subseteq issued
    /\ \A k \in Connections : \A w \in session[k].writes :
          w \in issued /\ connection[w.call] = k

SingleOK(c) ==
    /\ stage[c] = "running" =>
          CallOK(function[c][1], flags[c], Own(c), By(c, committed), By(c, issued))
    /\ AnswerOK(function[c][1], By(c, committed), By(c, issued))

SinglesOK == \A c \in Calls : kind[c] = "single" => SingleOK(c)

Inv ==
    /\ TypeOK /\ ConnectionsAreExclusive /\ IdleConnectionsHoldNoWrites
    /\ RequestsOK /\ SessionsOK /\ SinglesOK

-----------------------------------------------------------------------------
(* Steps of a single call, on the five values.                             *)

Opened == [tx |-> "open", writes |-> {}]

\* What BEGIN and COMMIT make of a session, and of the committed writes of its call.
BegunSession(s) == IF ~pooled \/ s.tx = "none" THEN Opened ELSE s
BegunDone(s, done) == IF ~pooled THEN done \cup s.writes ELSE done
CommittedDone(s, done) == IF s.tx = "open" THEN done \cup s.writes ELSE done

\* A call starts an operation: it is in a transaction then, its own or that of
\* executeInsideTransaction.
LEMMA StartKeeps ==
    ASSUME NEW g \in Progress, NEW fl, NEW s \in Sessions, NEW done, NEW made,
           ProgressOK(g), CallOK(g, fl, s, done, made),
           g.pc = "body", ~g.failed, NEW parts \in SUBSET Parts,
           NEW needs \in BOOLEAN, needs <=> fl \cap TransactionFlags = {},
           NEW g2, g2 = [g EXCEPT !.pc = "operation", !.todo = parts,
                                  !.operations = @ + 1, !.started = needs,
                                  !.localCount = IF needs THEN @ + 1 ELSE @]
    PROVE  /\ needs => CallOK(g2, fl \cup {"localTransaction"}, BegunSession(s),
                              BegunDone(s, done), made)
           /\ ~needs => CallOK(g2, fl, s, done, made)
<1> USE DEF Progress
<1>1. needs <=> "globalTransaction" \notin fl /\ "localTransaction" \notin fl
  BY DEF CallOK, FlagsOK, TransactionFlags, Flags
<1>2. /\ g2.pc = "operation" /\ g2.late = g.late /\ g2.failed = g.failed
      /\ g2.depth = g.depth /\ g2.blocks = g.blocks /\ g2.nested = g.nested
      /\ g2.started = needs
      /\ g2.localCount = IF needs THEN g.localCount + 1 ELSE g.localCount
  OBVIOUS
<1>3. g.depth = 0 => needs /\ s.writes = {}
  BY <1>1 DEF CallOK, FlagsOK, SessionOK
<1>4. needs => g.depth = 0 \/ g.nested
  BY <1>1 DEF CallOK, FlagsOK, ProgressOK
<1>5. s.tx # "aborted" /\ g.late = {}
  BY DEF CallOK, SessionOK, ProgressOK
<1>6. CASE needs
  <2> DEFINE s2 == BegunSession(s)
             done2 == BegunDone(s, done)
  <2>1. s2.tx = "open" /\ s2.writes \subseteq s.writes
    BY <1>5 DEF BegunSession, Opened, Sessions
  <2>2. done \subseteq done2 /\ done2 \subseteq done \cup s.writes
        /\ done \cup s.writes \subseteq done2 \cup s2.writes
    BY <1>5 DEF BegunSession, BegunDone, Opened, Sessions, CallOK, SessionOK
  <2> HIDE DEF s2, done2
  <2>3. FlagsOK(g2, fl \cup {"localTransaction"})
    BY <1>1, <1>2, <1>4, <1>6 DEF CallOK, FlagsOK
  <2>4. SessionOK(g2, s2)
    BY <1>2, <1>3, <1>4, <1>6, <2>1 DEF CallOK, SessionOK
  <2>5. WaitingOK(g2, s2, done2, made)
    BY <1>2, <1>3, <1>4, <1>6, <2>1, <2>2 DEF CallOK, WaitingOK
  <2>6. AnswerOK(g2, done2, made)
    BY <1>2, <1>3, <1>4, <1>6, <2>1, <2>2 DEF CallOK, WaitingOK, AnswerOK, Uncommitted, ProgressOK
  <2> QED BY <1>6, <2>3, <2>4, <2>5, <2>6 DEF CallOK, s2, done2
<1>7. CASE ~needs
  <2>1. FlagsOK(g2, fl) BY <1>1, <1>2, <1>3, <1>7 DEF CallOK, FlagsOK
  <2>2. SessionOK(g2, s) BY <1>2, <1>3, <1>7 DEF CallOK, SessionOK
  <2>3. WaitingOK(g2, s, done, made) BY <1>2, <1>7 DEF CallOK, WaitingOK
  <2>4. AnswerOK(g2, done, made)
    BY <1>2, <1>3, <1>7 DEF CallOK, AnswerOK, Uncommitted
  <2> QED BY <1>7, <2>1, <2>2, <2>3, <2>4 DEF CallOK
<1> QED BY <1>6, <1>7

\* A statement of its operation goes to its transaction.
LEMMA StatementKeeps ==
    ASSUME NEW g \in Progress, NEW fl, NEW s \in Sessions,
           NEW done \in SUBSET Writes, NEW made \in SUBSET Writes,
           ProgressOK(g), CallOK(g, fl, s, done, made),
           g.pc = "operation", s.tx # "aborted",
           NEW w \in Writes, ~w.late, w.block = IF g.depth = 0 THEN 0 ELSE g.blocks,
           NEW rest, NEW g2, g2 = [g EXCEPT !.todo = rest]
    PROVE  /\ s.tx = "open" => CallOK(g2, fl, [s EXCEPT !.writes = @ \cup {w}],
                                      done, made \cup {w})
           /\ s.tx # "open" => CallOK(g2, fl, s, done \cup {w}, made \cup {w})
<1> USE DEF Progress
<1>1. /\ g2.pc = g.pc /\ g2.late = g.late /\ g2.failed = g.failed
      /\ g2.depth = g.depth /\ g2.blocks = g.blocks /\ g2.nested = g.nested
      /\ g2.started = g.started /\ g2.localCount = g.localCount
  OBVIOUS
<1>2. ~g.failed /\ FlagsOK(g2, fl)
  BY <1>1 DEF CallOK, FlagsOK, ProgressOK
<1>3. CASE s.tx = "open"
  <2> DEFINE s2 == [s EXCEPT !.writes = @ \cup {w}]
  <2>1. s2.tx = "open" /\ s2.writes = s.writes \cup {w}
    BY <1>3 DEF Sessions
  <2> HIDE DEF s2
  <2>2. SessionOK(g2, s2)
    BY <1>1, <1>2, <2>1 DEF CallOK, SessionOK
  <2>3. WaitingOK(g2, s2, done, made \cup {w})
    BY <1>1, <1>2, <2>1 DEF CallOK, WaitingOK, InBlock
  <2>4. AnswerOK(g2, done, made \cup {w})
    <3>1. Uncommitted(g2) => \A v \in done : v.late
      BY <1>1 DEF CallOK, AnswerOK, Uncommitted
    <3>2. \A v \in made \cup {w} : v.block <= g2.blocks
      BY <1>1 DEF CallOK, AnswerOK
    <3>3. ~g.nested /\ g.depth > 0 => w \notin done
      BY DEF CallOK, AnswerOK, InBlock
    <3>4. ASSUME ~g.nested, NEW b \in 1 .. MaxBlocks
          PROVE  \/ InBlock(made \cup {w}, b) \subseteq done
                 \/ InBlock(made \cup {w}, b) \cap done = {}
      <4>1. CASE g.depth = 0
        BY <3>4, <4>1 DEF CallOK, AnswerOK, InBlock
      <4>2. CASE g.depth > 0 /\ b # g.blocks
        BY <3>4, <4>2 DEF CallOK, AnswerOK, InBlock
      <4>3. CASE g.depth > 0 /\ b = g.blocks
        BY <3>3, <3>4, <4>3 DEF CallOK, AnswerOK, InBlock
      <4> QED BY <4>1, <4>2, <4>3
    <3>5. ~g.nested /\ g.depth > 0 => InBlock(made \cup {w}, g.blocks) \cap done = {}
      BY <3>3 DEF CallOK, AnswerOK, InBlock
    <3> QED BY <1>1, <3>1, <3>2, <3>4, <3>5 DEF CallOK, AnswerOK
  <2> QED BY <1>2, <1>3, <2>2, <2>3, <2>4 DEF CallOK, s2
<1>4. CASE s.tx # "open"
  <2>1. s.writes = {} /\ g.depth > 0 /\ g.nested
    BY <1>2, <1>4 DEF CallOK, FlagsOK, SessionOK, ProgressOK, Sessions
  <2>2. SessionOK(g2, s)
    BY <1>1, <2>1 DEF CallOK, SessionOK
  <2>3. WaitingOK(g2, s, done \cup {w}, made \cup {w})
    BY <1>1, <2>1 DEF CallOK, WaitingOK
  <2>4. AnswerOK(g2, done \cup {w}, made \cup {w})
    BY <1>1, <2>1 DEF CallOK, AnswerOK, Uncommitted
  <2> QED BY <1>2, <1>4, <2>2, <2>3, <2>4 DEF CallOK
<1> QED BY <1>3, <1>4

\* A statement nobody waits for changes nothing of what the call answers, nor, while
\* it runs, of what waits for a COMMIT.
LEMMA LateStatementKeeps ==
    ASSUME NEW g \in Progress, NEW fl, NEW s \in Sessions, s.tx # "aborted",
           NEW done \in SUBSET Writes, NEW made \in SUBSET Writes,
           ProgressOK(g), AnswerOK(g, done, made), g.late # {},
           NEW w \in Writes, w.late, w.block = IF g.depth = 0 THEN 0 ELSE g.blocks,
           NEW rest, NEW g2, g2 = [g EXCEPT !.late = @ \ rest],
           NEW done2, done2 = IF s.tx = "open" THEN done ELSE done \cup {w},
           NEW s2, s2 = IF s.tx = "open" THEN [s EXCEPT !.writes = @ \cup {w}] ELSE s
    PROVE  /\ AnswerOK(g2, done2, made \cup {w})
           /\ CallOK(g, fl, s, done, made) => CallOK(g2, fl, s2, done2, made \cup {w})
<1> USE DEF Progress
<1>1. /\ g2.pc = g.pc /\ g2.late \subseteq g.late /\ g2.failed = g.failed
      /\ g2.depth = g.depth /\ g2.blocks = g.blocks /\ g2.nested = g.nested
      /\ g2.started = g.started /\ g2.localCount = g.localCount
  OBVIOUS
<1>2. g.failed /\ g.pc # "operation" /\ g.pc # "ok"
  BY DEF ProgressOK, AnswerOK
<1>3. done2 \subseteq made \cup {w} /\ \A v \in done2 : v \in done \/ v = w
  BY DEF AnswerOK
<1>4. \A b : /\ InBlock(made \cup {w}, b) = InBlock(made, b)
             /\ InBlock(made, b) \cap done2 = InBlock(made, b) \cap done
  BY DEF InBlock
<1>5. AnswerOK(g2, done2, made \cup {w})
  <2>1. Uncommitted(g2) => \A v \in done2 : v.late
    BY <1>1, <1>3 DEF AnswerOK, Uncommitted
  <2>2. \A v \in made \cup {w} : v.block <= g2.blocks
    BY <1>1 DEF AnswerOK
  <2>3. done \subseteq done2
    OBVIOUS
  <2>4. /\ g2.failed /\ g2.pc # "ok" /\ g2.nested = g.nested
        /\ g2.depth = g.depth /\ g2.blocks = g.blocks
    BY <1>1, <1>2
  <2>5. ~g.nested =>
          /\ g.depth > 0 => InBlock(made \cup {w}, g.blocks) \cap done2 = {}
          /\ \A b \in 1 .. MaxBlocks :
                \/ InBlock(made \cup {w}, b) \subseteq done2
                \/ InBlock(made \cup {w}, b) \cap done2 = {}
    <3> HIDE DEF Progress
    <3>1. ASSUME ~g.nested, NEW b \in 1 .. MaxBlocks
          PROVE  \/ InBlock(made, b) \subseteq done2
                 \/ InBlock(made, b) \cap done = {}
      BY <2>3, <3>1 DEF AnswerOK
    <3>2. ~g.nested /\ g.depth > 0 => InBlock(made, g.blocks) \cap done = {}
      BY DEF AnswerOK
    <3> QED BY <1>4, <3>1, <3>2
  <2> HIDE DEF Progress
  <2> QED BY <1>3, <2>1, <2>2, <2>4, <2>5 DEF AnswerOK
<1>6. ASSUME CallOK(g, fl, s, done, made)
      PROVE  CallOK(g2, fl, s2, done2, made \cup {w})
  <2>1. FlagsOK(g2, fl)
    BY <1>1, <1>6 DEF CallOK, FlagsOK
  <2>2. s2.tx = s.tx /\ s2.writes = IF s.tx = "open" THEN s.writes \cup {w} ELSE s.writes
    BY DEF Sessions
  <2>3. SessionOK(g2, s2)
    BY <1>1, <1>2, <1>6, <2>2 DEF CallOK, SessionOK
  <2>4. WaitingOK(g2, s2, done2, made \cup {w})
    BY <1>1, <1>2, <1>6, <2>2 DEF CallOK, WaitingOK
  <2> QED BY <1>5, <2>1, <2>3, <2>4 DEF CallOK
<1> QED BY <1>5, <1>6

\* An operation that succeeds commits the transaction it has started.
LEMMA SuccessKeeps ==
    ASSUME NEW g \in Progress, NEW fl, NEW s \in Sessions, NEW done, NEW made,
           ProgressOK(g), CallOK(g, fl, s, done, made), g.pc = "operation",
           NEW g2, g2 = [g EXCEPT !.pc = "body", !.started = FALSE]
    PROVE  /\ g.started => CallOK(g2, fl \ {"localTransaction"}, Closed,
                                  CommittedDone(s, done), made)
           /\ ~g.started => CallOK(g2, fl, s, done, made)
<1> USE DEF Progress
<1>1. /\ g2.pc = "body" /\ g2.late = g.late /\ g2.failed = g.failed
      /\ g2.depth = g.depth /\ g2.blocks = g.blocks /\ g2.nested = g.nested
      /\ g2.started = FALSE /\ g2.localCount = g.localCount
  OBVIOUS
<1>2. g.depth = 0 => g.started /\ \A w \in s.writes : w.block = 0
  BY DEF CallOK, FlagsOK, SessionOK
<1>3. g.started => s.tx = "open" /\ g.localCount > 0 /\ (g.depth = 0 \/ g.nested)
  BY DEF CallOK, FlagsOK, SessionOK, ProgressOK
<1>4. ~g.failed /\ g.late = {}
  BY DEF ProgressOK
<1>5. CASE g.started
  <2> DEFINE fl2 == fl \ {"localTransaction"}
             done2 == CommittedDone(s, done)
  <2>1. done2 = done \cup s.writes /\ done2 \subseteq made
    BY <1>3, <1>5 DEF CommittedDone, CallOK, WaitingOK, AnswerOK
  <2> HIDE DEF done2
  <2>2. FlagsOK(g2, fl2)
    BY <1>1, <1>3, <1>5 DEF CallOK, FlagsOK
  <2>3. SessionOK(g2, Closed)
    BY <1>1, <1>3, <1>4, <1>5 DEF SessionOK, Closed
  <2>4. WaitingOK(g2, Closed, done2, made)
    BY <1>1, <1>3, <1>5, <2>1 DEF CallOK, WaitingOK, Closed
  <2>5. ~Uncommitted(g2)
    BY <1>1, <1>3, <1>4, <1>5 DEF Uncommitted
  <2>6. ASSUME ~g.nested, NEW b \in 1 .. MaxBlocks
        PROVE  \/ InBlock(made, b) \subseteq done2
               \/ InBlock(made, b) \cap done2 = {}
    BY <1>2, <1>3, <1>5, <2>1, <2>6 DEF CallOK, AnswerOK, InBlock
  <2>7. AnswerOK(g2, done2, made)
    BY <1>1, <1>3, <1>5, <2>1, <2>5, <2>6 DEF CallOK, AnswerOK
  <2> QED BY <1>5, <2>2, <2>3, <2>4, <2>7 DEF CallOK, done2
<1>6. CASE ~g.started
  <2>1. FlagsOK(g2, fl) BY <1>1, <1>2, <1>6 DEF CallOK, FlagsOK
  <2>2. SessionOK(g2, s) BY <1>1, <1>2, <1>6 DEF CallOK, SessionOK
  <2>3. WaitingOK(g2, s, done, made) BY <1>1 DEF CallOK, WaitingOK
  <2>4. AnswerOK(g2, done, made) BY <1>1 DEF CallOK, AnswerOK, Uncommitted
  <2> QED BY <1>6, <2>1, <2>2, <2>3, <2>4 DEF CallOK
<1> QED BY <1>5, <1>6

\* Whatever fails, s2 is what is left of the session: nothing of the transaction that
\* an operation has started.
LEMMA FailureKeeps ==
    ASSUME NEW g \in Progress, NEW fl, NEW s \in Sessions, NEW done, NEW made,
           ProgressOK(g), CallOK(g, fl, s, done, made), g.pc = "operation",
           NEW rest \in SUBSET Parts,
           NEW g2, g2 = [g EXCEPT !.pc = "body", !.started = FALSE, !.todo = {},
                                  !.late = rest, !.failed = TRUE],
           NEW s2, \/ s2 = s \/ s2 = Closed
                   \/ s.tx = "open" /\ s2 = [s EXCEPT !.tx = "aborted"]
    PROVE  /\ g.started /\ s2 = Closed =>
                  CallOK(g2, fl \ {"localTransaction"}, s2, done, made)
           /\ ~g.started => CallOK(g2, fl, s2, done, made)
<1> USE DEF Progress
<1>1. /\ g2.pc = "body" /\ g2.failed = TRUE /\ g2.started = FALSE
      /\ g2.depth = g.depth /\ g2.blocks = g.blocks /\ g2.nested = g.nested
      /\ g2.localCount = g.localCount
  OBVIOUS
<1>2. g.depth = 0 => g.started
  BY DEF CallOK, FlagsOK
<1>3. /\ s2.writes \subseteq s.writes
      /\ s2.tx = "none" => s2.writes = {}
  BY DEF Closed, Sessions, CallOK, SessionOK
<1>4. AnswerOK(g2, done, made)
  BY <1>1 DEF CallOK, AnswerOK, Uncommitted
<1>5. WaitingOK(g2, s2, done, made)
  BY <1>1, <1>3 DEF CallOK, WaitingOK
<1>6. ASSUME g.started, s2 = Closed
      PROVE  FlagsOK(g2, fl \ {"localTransaction"}) /\ SessionOK(g2, s2)
  BY <1>1, <1>6 DEF CallOK, FlagsOK, SessionOK, Closed
<1>7. ASSUME ~g.started
      PROVE  FlagsOK(g2, fl) /\ SessionOK(g2, s2)
  BY <1>1, <1>2, <1>3, <1>7 DEF CallOK, FlagsOK, SessionOK
<1> QED BY <1>4, <1>5, <1>6, <1>7 DEF CallOK

\* The read that finds nothing leaves its transaction open, with no write in it.
LEMMA AbandonKeeps ==
    ASSUME NEW g \in Progress, NEW fl, NEW s \in Sessions, NEW done, NEW made,
           ProgressOK(g), CallOK(g, fl, s, done, made),
           g.pc = "body", ~g.failed, fl \cap TransactionFlags = {},
           NEW g2, g2 = [g EXCEPT !.operations = @ + 1, !.localCount = @ + 1,
                                  !.failed = TRUE]
    PROVE  CallOK(g2, fl, BegunSession(s), BegunDone(s, done), made)
<1> USE DEF Progress
<1>1. "globalTransaction" \notin fl /\ "localTransaction" \notin fl
  BY DEF CallOK, FlagsOK, TransactionFlags, Flags
<1>2. /\ g2.pc = "body" /\ g2.late = g.late /\ g2.failed = TRUE
      /\ g2.depth = g.depth /\ g2.blocks = g.blocks /\ g2.nested = g.nested
      /\ g2.started = g.started /\ g2.localCount = g.localCount + 1
  OBVIOUS
<1>3. g.depth = 0 => s.writes = {}
  BY DEF CallOK, SessionOK
<1>4. g.depth = 0 \/ g.nested
  BY <1>1 DEF CallOK, FlagsOK, ProgressOK
<1>5. s.tx # "aborted" /\ g.late = {}
  BY DEF CallOK, SessionOK, ProgressOK
<1> DEFINE s2 == BegunSession(s)
           done2 == BegunDone(s, done)
<1>6. s2.tx = "open" /\ s2.writes \subseteq s.writes
  BY <1>5 DEF BegunSession, Opened, Sessions
<1>7. done \subseteq done2 /\ done2 \subseteq done \cup s.writes
  BY DEF BegunDone
<1> HIDE DEF s2, done2
<1>8. FlagsOK(g2, fl)
  BY <1>1, <1>2, <1>4 DEF CallOK, FlagsOK
<1>9. SessionOK(g2, s2)
  BY <1>2, <1>3, <1>4, <1>5, <1>6 DEF CallOK, SessionOK
<1>10. WaitingOK(g2, s2, done2, made)
  BY <1>2, <1>4, <1>3, <1>6, <1>7 DEF CallOK, WaitingOK
<1>11. AnswerOK(g2, done2, made)
  BY <1>2, <1>3, <1>4, <1>6, <1>7 DEF CallOK, WaitingOK, AnswerOK, Uncommitted, ProgressOK
<1> QED BY <1>8, <1>9, <1>10, <1>11 DEF CallOK, s2, done2

\* Entering executeInsideTransaction, within another or not.
LEMMA EnterKeeps ==
    ASSUME NEW g \in Progress, NEW fl, NEW s \in Sessions, NEW done,
           NEW made \in SUBSET Writes,
           ProgressOK(g), CallOK(g, fl, s, done, made),
           g.pc = "body", ~g.failed, g.depth # 0 => ~g.nested,
           NEW g2, g2 = [g EXCEPT !.depth = @ + 1, !.blocks = BlocksEntered(g),
                                  !.nested = @ \/ g.depth > 0]
    PROVE  CallOK(g2, fl \cup {"globalTransaction"}, BegunSession(s),
                  BegunDone(s, done), made)
<1> USE DEF Progress
<1>1. /\ g2.pc = "body" /\ g2.late = g.late /\ g2.failed = FALSE
      /\ g2.depth = g.depth + 1
      /\ g2.blocks = IF g.depth = 0 THEN g.blocks + 1 ELSE g.blocks
      /\ g2.nested <=> g.nested \/ g.depth > 0
      /\ g2.started = g.started /\ g2.localCount = g.localCount
  BY DEF BlocksEntered
<1>2. g.depth = 0 => s.writes = {}
  BY DEF CallOK, SessionOK
<1>3. s.tx # "aborted" /\ g.late = {}
  BY DEF CallOK, SessionOK, ProgressOK
<1> DEFINE s2 == BegunSession(s)
           done2 == BegunDone(s, done)
<1>4. s2.tx = "open" /\ s2.writes \subseteq s.writes
  BY <1>3 DEF BegunSession, Opened, Sessions
<1>5. /\ done \subseteq done2 /\ done2 \subseteq done \cup s.writes
      /\ done \cup s.writes \subseteq done2 \cup s2.writes
  BY <1>3 DEF BegunSession, BegunDone, Opened, Sessions, CallOK, SessionOK
<1>6. g.depth = 0 => InBlock(made, g2.blocks) = {}
  BY <1>1 DEF CallOK, AnswerOK, InBlock
<1> HIDE DEF s2, done2
<1>7. FlagsOK(g2, fl \cup {"globalTransaction"})
  BY <1>1 DEF CallOK, FlagsOK
<1>8. SessionOK(g2, s2)
  BY <1>1, <1>4 DEF CallOK, SessionOK
<1>9. WaitingOK(g2, s2, done2, made)
  BY <1>1, <1>2, <1>4, <1>5, <1>6 DEF CallOK, WaitingOK
<1>10. AnswerOK(g2, done2, made)
  BY <1>1, <1>2, <1>5, <1>6 DEF CallOK, WaitingOK, AnswerOK, Uncommitted, Writes
<1> QED BY <1>7, <1>8, <1>9, <1>10 DEF CallOK, s2, done2

\* A BEGIN or a COMMIT that fails, or an executable that did: the transaction is
\* rolled back, the flag may stay.
LEMMA RollbackKeeps ==
    ASSUME NEW g \in Progress, NEW fl, NEW s \in Sessions, NEW done,
           NEW made \in SUBSET Writes,
           ProgressOK(g), CallOK(g, fl, s, done, made), g.pc = "body",
           NEW g2, NEW fl2,
           \/ /\ g2 = [g EXCEPT !.failed = TRUE, !.blocks = BlocksEntered(g)]
              /\ fl2 = fl \cup {"globalTransaction"}
           \/ /\ g2 = [g EXCEPT !.depth = @ - 1, !.failed = TRUE]
              /\ g.depth > 0
              /\ fl2 = fl \/ fl2 = fl \ {"globalTransaction"}
    PROVE  CallOK(g2, fl2, Closed, done, made)
<1> USE DEF Progress
<1>1. /\ g2.pc = "body" /\ g2.failed = TRUE
      /\ g2.nested = g.nested
      /\ g2.started = g.started /\ g2.localCount = g.localCount
  OBVIOUS
<1>2. \/ /\ fl2 = fl \cup {"globalTransaction"} /\ g2.depth = g.depth
         /\ g2.blocks = IF g.depth = 0 THEN g.blocks + 1 ELSE g.blocks
      \/ /\ g.depth > 0 /\ g2.depth = g.depth - 1 /\ g2.blocks = g.blocks
         /\ fl2 = fl \/ fl2 = fl \ {"globalTransaction"}
  BY DEF BlocksEntered
<1>3. FlagsOK(g2, fl2)
  BY <1>1, <1>2 DEF CallOK, FlagsOK, ProgressOK
<1>4. SessionOK(g2, Closed)
  BY <1>1, <1>2 DEF SessionOK, Closed
<1>5. WaitingOK(g2, Closed, done, made)
  BY <1>1, <1>2 DEF WaitingOK, Closed
<1>6. AnswerOK(g2, done, made)
  BY <1>1, <1>2 DEF CallOK, AnswerOK, Uncommitted, Writes
<1> QED BY <1>3, <1>4, <1>5, <1>6 DEF CallOK

\* The COMMIT of executeInsideTransaction.
LEMMA LeaveKeeps ==
    ASSUME NEW g \in Progress, NEW fl, NEW s \in Sessions, NEW done, NEW made,
           ProgressOK(g), CallOK(g, fl, s, done, made),
           g.pc = "body", ~g.failed, g.depth > 0,
           NEW g2, g2 = [g EXCEPT !.depth = @ - 1]
    PROVE  CallOK(g2, fl \ {"globalTransaction"}, Closed, CommittedDone(s, done), made)
<1> USE DEF Progress
<1>1. /\ g2.pc = "body" /\ g2.late = g.late /\ g2.failed = FALSE
      /\ g2.depth = g.depth - 1 /\ g2.blocks = g.blocks /\ g2.nested = g.nested
      /\ g2.started = g.started /\ g2.localCount = g.localCount
  OBVIOUS
<1>2. s.tx # "aborted" /\ g.late = {}
  BY DEF CallOK, SessionOK, ProgressOK
<1> DEFINE done2 == CommittedDone(s, done)
<1>3. done2 = done \cup s.writes /\ done2 \subseteq made
  BY <1>2 DEF CommittedDone, Sessions, CallOK, SessionOK, WaitingOK, AnswerOK
<1> HIDE DEF done2
<1>4. FlagsOK(g2, fl \ {"globalTransaction"})
  BY <1>1 DEF CallOK, FlagsOK, ProgressOK
<1>5. SessionOK(g2, Closed)
  BY <1>1, <1>2 DEF SessionOK, Closed, ProgressOK
<1>6. WaitingOK(g2, Closed, done2, made)
  BY <1>1, <1>3 DEF CallOK, WaitingOK, Closed, ProgressOK
<1>7. ~Uncommitted(g2) /\ (~g.nested => g2.depth = 0)
  BY <1>1 DEF Uncommitted, ProgressOK
<1>8. ASSUME ~g.nested, NEW b \in 1 .. MaxBlocks
      PROVE  \/ InBlock(made, b) \subseteq done2
             \/ InBlock(made, b) \cap done2 = {}
  BY <1>3, <1>8 DEF CallOK, WaitingOK, AnswerOK, InBlock
<1>9. AnswerOK(g2, done2, made)
  BY <1>1, <1>3, <1>7, <1>8 DEF CallOK, AnswerOK
<1> QED BY <1>4, <1>5, <1>6, <1>9 DEF CallOK, done2

\* The end of a call, and its start.
LEMMA EndsKeep ==
    ASSUME NEW g \in Progress, NEW fl, NEW s \in Sessions, NEW done, NEW made,
           ProgressOK(g), CallOK(g, fl, s, done, made),
           NEW p, NEW g2, g2 = [g EXCEPT !.pc = p]
    PROVE  /\ g.pc = "none" /\ p = "body" => CallOK(g2, fl, s, done, made)
           /\ g.pc = "body" /\ p = "threw" => AnswerOK(g2, done, made)
           /\ g.pc = "body" /\ g.depth = 0 /\ ~g.failed /\ p = "ok" =>
                 AnswerOK(g2, done, made)
           /\ g.pc = "body" /\ (g.failed \/ g.remote \/ g.localCount > 1) /\ p = "error" =>
                 AnswerOK(g2, done, made)
<1> USE DEF Progress
<1>1. /\ g2.pc = p /\ g2.late = g.late /\ g2.failed = g.failed
      /\ g2.depth = g.depth /\ g2.blocks = g.blocks /\ g2.nested = g.nested
      /\ g2.started = g.started /\ g2.localCount = g.localCount /\ g2.remote = g.remote
  OBVIOUS
<1>2. ASSUME g.pc = "none", p = "body" PROVE CallOK(g2, fl, s, done, made)
  BY <1>1, <1>2 DEF CallOK, FlagsOK, SessionOK, WaitingOK, AnswerOK, Uncommitted,
                    ProgressOK, NotStarted
<1>3. ASSUME g.pc = "body", p \in {"threw", "ok", "error"},
             p = "ok" => g.depth = 0 /\ ~g.failed,
             p = "error" => g.failed \/ g.remote \/ g.localCount > 1
      PROVE  AnswerOK(g2, done, made)
  <2>1. ~g.failed /\ g.depth = 0 => made \subseteq done /\ g.late = {}
    BY <1>3 DEF CallOK, SessionOK, WaitingOK, ProgressOK
  <2> QED BY <1>1, <1>3, <2>1 DEF CallOK, AnswerOK, Uncommitted
<1> QED BY <1>2, <1>3

\* A call begins with a connection on which nothing waits.
LEMMA BeginningOK ==
    ASSUME NEW s \in Sessions, s.writes = {}, s.tx # "aborted"
    PROVE  /\ CallOK(NotStarted, {}, s, {}, {})
           /\ AnswerOK(NotStarted, {}, {})
           /\ AnswerOK([NotStarted EXCEPT !.pc = "error"], {}, {})
           /\ ProgressOK(NotStarted)
BY DEF CallOK, FlagsOK, SessionOK, WaitingOK, AnswerOK, Uncommitted, InBlock,
       ProgressOK, NotStarted

-----------------------------------------------------------------------------
(* What a step of request d does to the database, on connection k.         *)

Changed(k, d, s2, done2, made2) ==
    /\ session' = [session EXCEPT ![k] = s2]
    /\ committed \subseteq committed' /\ committed' \subseteq committed \cup done2
    /\ issued \subseteq issued' /\ issued' \subseteq issued \cup made2
    /\ By(d, committed') = done2 /\ By(d, issued') = made2

\* Each operation of the database touches the writes of one call.
LEMMA DatabaseFacts ==
    ASSUME TypeOK, SessionsOK, NEW d \in Calls, NEW k \in Connections,
           \A w \in session[k].writes : w.call = d
    PROVE  LET s == session[k]
               done == By(d, committed)
               made == By(d, issued)
           IN /\ s \in Sessions /\ done \in SUBSET Writes /\ made \in SUBSET Writes
              /\ done \subseteq made /\ s.writes \subseteq made
              /\ UNCHANGED databaseVars => Changed(k, d, s, done, made)
              /\ BeginTransaction(k) =>
                    Changed(k, d, BegunSession(s), BegunDone(s, done), made)
              /\ Commit(k) => Changed(k, d, Closed, CommittedDone(s, done), made)
              /\ Rollback(k) => Changed(k, d, Closed, done, made)
              /\ AbortIn(k) => /\ s.tx = "open"
                               /\ Changed(k, d, [s EXCEPT !.tx = "aborted"], done, made)
              /\ \A w \in Writes : Execute(k, w) /\ w.call = d =>
                    /\ s.tx # "aborted"
                    /\ Changed(k, d, IF s.tx = "open" THEN [s EXCEPT !.writes = @ \cup {w}]
                                     ELSE s,
                               IF s.tx = "open" THEN done ELSE done \cup {w},
                               made \cup {w})
<1> DEFINE s == session[k]
           done == By(d, committed)
           made == By(d, issued)
<1>1. /\ session \in [Connections -> Sessions]
      /\ committed \subseteq Writes /\ issued \subseteq Writes
  BY DEF TypeOK, Sessions
<1>2. /\ s \in Sessions /\ done \in SUBSET Writes /\ made \in SUBSET Writes
      /\ done \subseteq made /\ s.writes \subseteq made
      /\ By(d, s.writes) = s.writes
  BY <1>1 DEF SessionsOK, By, Sessions
<1>3. UNCHANGED databaseVars => Changed(k, d, s, done, made)
  BY <1>1 DEF databaseVars, Changed
<1>4. BeginTransaction(k) => Changed(k, d, BegunSession(s), BegunDone(s, done), made)
  <2>1. CASE ~pooled
    BY <1>1, <1>2, <2>1 DEF BeginTransaction, Changed, BegunSession, BegunDone, Opened, By
  <2>2. CASE pooled /\ s.tx = "none"
    BY <1>1, <1>2, <2>2 DEF BeginTransaction, Changed, BegunSession, BegunDone, Opened, By
  <2>3. CASE pooled /\ s.tx # "none"
    BY <1>1, <1>2, <2>3 DEF BeginTransaction, Changed, BegunSession, BegunDone, Opened, By
  <2> QED BY <2>1, <2>2, <2>3
<1>5. Commit(k) => Changed(k, d, Closed, CommittedDone(s, done), made)
  BY <1>1, <1>2 DEF Commit, Changed, CommittedDone, By
<1>6. Rollback(k) => Changed(k, d, Closed, done, made)
  BY <1>1, <1>2 DEF Rollback, Changed
<1>7. AbortIn(k) => /\ s.tx = "open"
                    /\ Changed(k, d, [s EXCEPT !.tx = "aborted"], done, made)
  BY <1>1, <1>2 DEF AbortIn, Changed
<1>8. ASSUME NEW w \in Writes, Execute(k, w), w.call = d
      PROVE  /\ s.tx # "aborted"
             /\ Changed(k, d, IF s.tx = "open" THEN [s EXCEPT !.writes = @ \cup {w}]
                              ELSE s,
                        IF s.tx = "open" THEN done ELSE done \cup {w},
                        made \cup {w})
  <2>1. CASE s.tx = "open"
    BY <1>1, <1>2, <1>8, <2>1 DEF Execute, Changed, By
  <2>2. CASE s.tx # "open"
    BY <1>1, <1>2, <1>8, <2>2 DEF Execute, Changed, By
  <2> QED BY <2>1, <2>2 DEF Execute
<1> QED BY <1>2, <1>3, <1>4, <1>5, <1>6, <1>7, <1>8

\* A step of request d on connection k, after which it has the values of the arguments.
StepTo(d, k, s2, done2, made2, kd, st, conn, fl2, fn2) ==
    /\ d \in Calls /\ k \in Connections \cup {NoConnection}
    /\ connection[d] \in {k, NoConnection}
    /\ s2 \in Sessions /\ done2 \in SUBSET Writes /\ made2 \in SUBSET Writes
    /\ Changed(k, d, s2, done2, made2)
    /\ done2 \subseteq made2 /\ s2.writes \subseteq made2
    /\ kd \in Kinds /\ kind' = [kind EXCEPT ![d] = kd]
    /\ st \in {"reserving", "running", "broken", "ended"}
    /\ stage' = [stage EXCEPT ![d] = st]
    /\ connection' = [connection EXCEPT ![d] = conn]
    /\ fl2 \in SUBSET Flags /\ flags' = [flags EXCEPT ![d] = fl2]
    /\ fn2 \in [Functions -> Progress] /\ function' = [function EXCEPT ![d] = fn2]
    /\ RequestOK(kd, st, conn, fn2, made2)
    /\ \/ connection[d] = k /\ conn = k /\ idle' = idle
       \/ k \in idle /\ conn = k /\ idle' = idle \ {k}
       \/ /\ connection[d] = k /\ conn = NoConnection /\ idle' = idle \cup {k}
          /\ k # NoConnection /\ s2.writes = {}
          /\ s2.tx # "none" => pooled /\ s2.tx = "open"
    /\ kd = "single" => /\ st = "running" => CallOK(fn2[1], fl2, s2, done2, made2)
                        /\ AnswerOK(fn2[1], done2, made2)

\* After such a step the invariant holds: what the other requests have is the same.
LEMMA StepOfOne ==
    ASSUME Inv, UNCHANGED pooled,
           NEW d, NEW k, NEW s2, NEW done2, NEW made2,
           NEW kd, NEW st, NEW conn, NEW fl2, NEW fn2,
           StepTo(d, k, s2, done2, made2, kd, st, conn, fl2, fn2)
    PROVE  Inv'
<1> USE DEF StepTo
<1>1. /\ TypeOK /\ ConnectionsAreExclusive /\ IdleConnectionsHoldNoWrites
      /\ RequestsOK /\ SessionsOK /\ SinglesOK
  BY DEF Inv
<1>2. NoConnection \notin Connections /\ idle \subseteq Connections
  BY <1>1, ConnectionAssumption DEF TypeOK
<1>3. /\ \A c \in Calls \ {d} :
            /\ kind'[c] = kind[c] /\ stage'[c] = stage[c] /\ connection'[c] = connection[c]
            /\ flags'[c] = flags[c] /\ function'[c] = function[c]
      /\ kind'[d] = kd /\ stage'[d] = st /\ connection'[d] = conn
      /\ flags'[d] = fl2 /\ function'[d] = fn2
      /\ \A j \in Connections \ {k} : session'[j] = session[j]
      /\ k # NoConnection => session'[k] = s2
  BY <1>1 DEF TypeOK, Changed
<1>4. \A c \in Calls \ {d} : connection[c] # NoConnection => connection[c] # k
  BY <1>1 DEF ConnectionsAreExclusive
<1>5. \A c \in Calls \ {d} : /\ By(c, committed') = By(c, committed)
                             /\ By(c, issued') = By(c, issued)
  BY DEF Changed, By
<1>6. TypeOK'
  <2>1. kind' \in [Calls -> Kinds \cup {"none"}]
    BY <1>1 DEF TypeOK
  <2>2. stage' \in [Calls -> {"new", "reserving", "running", "broken", "ended"}]
    BY <1>1 DEF TypeOK
  <2>3. connection' \in [Calls -> Connections \cup {NoConnection}]
    BY <1>1 DEF TypeOK
  <2>4. flags' \in [Calls -> SUBSET Flags] /\ function' \in [Calls -> [Functions -> Progress]]
    BY <1>1 DEF TypeOK
  <2>5. idle' \subseteq Connections /\ pooled' \in BOOLEAN
    BY <1>1, <1>2 DEF TypeOK
  <2>6. session' \in [Connections -> Sessions]
    BY <1>1 DEF TypeOK, Sessions, Changed
  <2>7. committed' \subseteq Writes /\ issued' \subseteq Writes
    BY <1>1 DEF TypeOK, Changed
  <2> QED BY <2>1, <2>2, <2>3, <2>4, <2>5, <2>6, <2>7 DEF TypeOK, Sessions
<1>7. ConnectionsAreExclusive'
  <2>1. \A c \in Calls \ {d} : connection'[c] \notin idle'
    BY <1>1, <1>2, <1>3, <1>4 DEF ConnectionsAreExclusive
  <2>2. connection'[d] \notin idle'
    BY <1>1, <1>2, <1>3 DEF ConnectionsAreExclusive
  <2>3. ASSUME NEW c \in Calls, NEW e \in Calls, connection'[c] = connection'[e],
               connection'[c] # NoConnection
        PROVE  c = e
    BY <1>1, <1>2, <1>3, <1>4, <2>3 DEF ConnectionsAreExclusive
  <2> QED BY <2>1, <2>2, <2>3 DEF ConnectionsAreExclusive
<1>8. IdleConnectionsHoldNoWrites'
  <2>1. \A j \in idle' \ {k} : j \in idle /\ j \in Connections
    BY <1>2
  <2>2. k \in idle' => /\ k # NoConnection /\ s2.writes = {}
                       /\ s2.tx # "none" => pooled /\ s2.tx = "open"
    BY <1>1, <1>2, <1>3 DEF ConnectionsAreExclusive
  <2> QED BY <1>1, <1>3, <2>1, <2>2 DEF IdleConnectionsHoldNoWrites
<1>9. RequestsOK'
  BY <1>1, <1>3, <1>5 DEF RequestsOK, Changed
<1>10. SessionsOK'
  <2>1. committed' \subseteq issued'
    BY <1>1 DEF SessionsOK, Changed, By
  <2>2. ASSUME NEW j \in Connections \ {k}, NEW w \in session'[j].writes
        PROVE  w \in issued' /\ connection'[w.call] = j
    <3>1. w \in issued /\ connection[w.call] = j /\ w.call \in Calls
      BY <1>1, <1>3 DEF SessionsOK, TypeOK, Writes
    <3> QED BY <1>2, <1>3, <3>1 DEF Changed
  <2>3. ASSUME k # NoConnection, NEW w \in session'[k].writes
        PROVE  w \in issued' /\ connection'[w.call] = k
    <3>1. w \in made2 /\ w.call = d /\ w \in issued' /\ conn = k
      BY <1>3, <2>3 DEF Changed, By
    <3> QED BY <1>3, <3>1
  <2> QED BY <2>1, <2>2, <2>3, <1>2 DEF SessionsOK
<1>11. SinglesOK'
  <2>1. ASSUME NEW c \in Calls \ {d}, kind'[c] = "single"
        PROVE  SingleOK(c)'
    <3>1. SingleOK(c)
      BY <1>1, <1>3, <2>1 DEF SinglesOK
    <3>2. stage[c] = "running" => Own(c)' = Own(c)
      <4>1. stage[c] = "running" =>
                connection[c] # NoConnection /\ connection[c] \in Connections
        BY <1>1 DEF RequestsOK, RequestOK, TypeOK
      <4> QED BY <1>3, <1>4, <4>1 DEF Own
    <3> QED BY <1>3, <1>5, <3>1, <3>2 DEF SingleOK
  <2>2. kind'[d] = "single" => SingleOK(d)'
    <3>1. st = "running" => conn = k /\ k # NoConnection
      BY DEF RequestOK
    <3>2. st = "running" => Own(d)' = s2
      BY <1>3, <3>1 DEF Own
    <3> QED BY <1>3, <3>2 DEF SingleOK, Changed
  <2> QED BY <2>1, <2>2 DEF SinglesOK
<1> QED BY <1>6, <1>7, <1>8, <1>9, <1>10, <1>11 DEF Inv

-----------------------------------------------------------------------------
(* The steps of a service function that runs.                              *)

\* What an operation of the database does on the connection of a request.
LEMMA ConnectionFacts ==
    ASSUME Inv, NEW d \in Calls, connection[d] # NoConnection
    PROVE  LET k == connection[d]
               s == Own(d)
               done == By(d, committed)
               made == By(d, issued)
           IN /\ TypeOK /\ k \in Connections
              /\ s \in Sessions /\ done \in SUBSET Writes /\ made \in SUBSET Writes
              /\ done \subseteq made /\ s.writes \subseteq made
              /\ UNCHANGED databaseVars => Changed(k, d, s, done, made)
              /\ BeginTransaction(k) =>
                    Changed(k, d, BegunSession(s), BegunDone(s, done), made)
              /\ Commit(k) => Changed(k, d, Closed, CommittedDone(s, done), made)
              /\ Rollback(k) => Changed(k, d, Closed, done, made)
              /\ AbortIn(k) => /\ s.tx = "open"
                               /\ Changed(k, d, [s EXCEPT !.tx = "aborted"], done, made)
              /\ \A w \in Writes : Execute(k, w) /\ w.call = d =>
                    /\ s.tx # "aborted"
                    /\ Changed(k, d, IF s.tx = "open" THEN [s EXCEPT !.writes = @ \cup {w}]
                                     ELSE s,
                               IF s.tx = "open" THEN done ELSE done \cup {w},
                               made \cup {w})
<1>1. TypeOK /\ SessionsOK /\ ConnectionsAreExclusive
  BY DEF Inv
<1>2. connection[d] \in Connections
  BY <1>1 DEF TypeOK
<1>3. ASSUME NEW w \in session[connection[d]].writes PROVE w.call = d
  <2>1. w.call \in Calls /\ connection[w.call] = connection[d]
    BY <1>1, <1>2, <1>3 DEF SessionsOK, TypeOK, Writes
  <2> QED BY <1>1, <2>1 DEF ConnectionsAreExclusive
<1> QED BY <1>1, <1>2, <1>3, DatabaseFacts DEF Own

\* What holds of it, and what an operation of the database on its connection does.
LEMMA FunctionFacts ==
    ASSUME Inv, NEW d \in Calls, NEW f \in Functions,
           \/ function[d][f].pc \in {"body", "operation"}
           \/ CanStart(d, f)
    PROVE  LET k == connection[d]
               g == function[d][f]
               s == Own(d)
               done == By(d, committed)
               made == By(d, issued)
           IN /\ TypeOK /\ k \in Connections
              /\ g \in Progress /\ ProgressOK(g) /\ flags[d] \in SUBSET Flags
              /\ stage[d] \in {"running", "broken"} /\ kind[d] \in Kinds
              /\ kind[d] = "single" =>
                    f = 1 /\ stage[d] = "running" /\ CallOK(g, flags[d], s, done, made)
              /\ s \in Sessions /\ done \in SUBSET Writes /\ made \in SUBSET Writes
              /\ done \subseteq made /\ s.writes \subseteq made
              /\ UNCHANGED databaseVars => Changed(k, d, s, done, made)
              /\ BeginTransaction(k) =>
                    Changed(k, d, BegunSession(s), BegunDone(s, done), made)
              /\ Commit(k) => Changed(k, d, Closed, CommittedDone(s, done), made)
              /\ Rollback(k) => Changed(k, d, Closed, done, made)
              /\ AbortIn(k) => /\ s.tx = "open"
                               /\ Changed(k, d, [s EXCEPT !.tx = "aborted"], done, made)
              /\ \A w \in Writes : Execute(k, w) /\ w.call = d =>
                    /\ s.tx # "aborted"
                    /\ Changed(k, d, IF s.tx = "open" THEN [s EXCEPT !.writes = @ \cup {w}]
                                     ELSE s,
                               IF s.tx = "open" THEN done ELSE done \cup {w},
                               made \cup {w})
<1>1. TypeOK /\ RequestsOK /\ SinglesOK
  BY DEF Inv
<1>2. function[d][f] \in Progress /\ flags[d] \in SUBSET Flags
  BY <1>1 DEF TypeOK
<1>3. RequestOK(kind[d], stage[d], connection[d], function[d], By(d, issued))
  BY <1>1 DEF RequestsOK
<1>4. /\ stage[d] \in {"running", "broken"} /\ kind[d] \in Kinds
      /\ connection[d] # NoConnection /\ ProgressOK(function[d][f])
  BY <1>3 DEF RequestOK, CanStart
<1>5. kind[d] = "single" => f = 1 /\ stage[d] = "running"
  BY <1>3, <1>4 DEF RequestOK, CanStart, FunctionsOf, Functions, NotStarted
<1>6. kind[d] = "single" => CallOK(function[d][f], flags[d], Own(d),
                                  By(d, committed), By(d, issued))
  BY <1>1, <1>5 DEF SinglesOK, SingleOK
<1> QED BY <1>2, <1>4, <1>5, <1>6, ConnectionFacts

\* A step of a function that changes neither its request's stage nor the connection.
FunctionStepTo(d, f, s2, done2, made2, fl2, g2) ==
    /\ UNCHANGED <<requestVars, connection, idle>>
    /\ function[d][f].pc \in {"body", "operation"} \/ CanStart(d, f)
    /\ s2 \in Sessions /\ done2 \in SUBSET Writes /\ made2 \in SUBSET Writes
    /\ Changed(connection[d], d, s2, done2, made2)
    /\ done2 \subseteq made2 /\ s2.writes \subseteq made2
    /\ fl2 \in SUBSET Flags /\ flags' = [flags EXCEPT ![d] = fl2]
    /\ g2 \in Progress /\ ProgressOK(g2)
    /\ function' = [function EXCEPT ![d][f] = g2]
    /\ kind[d] = "single" => /\ g2.pc \in {"body", "operation"}
                             /\ CallOK(g2, fl2, s2, done2, made2)

\* Such a step of a function keeps the invariant.
LEMMA StepOfFunction ==
    ASSUME Inv, UNCHANGED pooled, NEW d \in Calls, NEW f \in Functions,
           NEW s2, NEW done2, NEW made2, NEW fl2, NEW g2,
           FunctionStepTo(d, f, s2, done2, made2, fl2, g2)
    PROVE  Inv'
<1> USE DEF FunctionStepTo
<1>1. /\ TypeOK /\ connection[d] \in Connections
      /\ stage[d] \in {"running", "broken"} /\ kind[d] \in Kinds
      /\ kind[d] = "single" => f = 1 /\ stage[d] = "running"
  BY FunctionFacts
<1>2. RequestOK(kind[d], stage[d], connection[d], function[d], By(d, issued))
  BY DEF Inv, RequestsOK
<1> DEFINE fn2 == [function[d] EXCEPT ![f] = g2]
<1>3. /\ fn2 \in [Functions -> Progress]
      /\ function' = [function EXCEPT ![d] = fn2]
      /\ fn2[f] = g2 /\ \A e \in Functions \ {f} : fn2[e] = function[d][e]
  BY <1>1 DEF TypeOK
<1>4. /\ kind' = [kind EXCEPT ![d] = kind[d]]
      /\ stage' = [stage EXCEPT ![d] = stage[d]]
      /\ connection' = [connection EXCEPT ![d] = connection[d]]
      /\ idle' = idle /\ UNCHANGED pooled
  BY <1>1 DEF TypeOK, requestVars
<1> HIDE DEF fn2
<1>5. RequestOK(kind[d], stage[d], connection[d], fn2, made2)
  BY <1>1, <1>2, <1>3 DEF RequestOK, Functions
<1>6. kind[d] = "single" => CallOK(fn2[1], fl2, s2, done2, made2) /\ AnswerOK(fn2[1], done2, made2)
  BY <1>1, <1>3 DEF CallOK
<1>7. StepTo(d, connection[d], s2, done2, made2, kind[d], stage[d], connection[d], fl2, fn2)
  BY <1>1, <1>3, <1>4, <1>5, <1>6 DEF StepTo
<1> QED BY <1>7, StepOfOne

\* Starting it.
LEMMA StartFunctionStep ==
    ASSUME Inv, UNCHANGED pooled, NEW d \in Calls, NEW f \in Functions,
           StartFunction(d, f)
    PROVE  Inv'
<1> DEFINE g == function[d][f]
           g2 == [g EXCEPT !.pc = "body"]
           s == Own(d)
           done == By(d, committed)
           made == By(d, issued)
<1>1. CanStart(d, f) /\ g.pc = "none" /\ UNCHANGED databaseVars
  BY DEF StartFunction, CanStart
<1>2. /\ TypeOK /\ g \in Progress /\ ProgressOK(g) /\ flags[d] \in SUBSET Flags
      /\ kind[d] = "single" => CallOK(g, flags[d], s, done, made)
  BY <1>1, FunctionFacts
<1>3. /\ s \in Sessions /\ done \in SUBSET Writes /\ made \in SUBSET Writes
      /\ done \subseteq made /\ s.writes \subseteq made
      /\ Changed(connection[d], d, s, done, made)
  BY <1>1, FunctionFacts
<1>4. g2 \in Progress /\ ProgressOK(g2) /\ g2.pc = "body"
  BY <1>1, <1>2 DEF Progress, ProgressOK, NotStarted
<1>5. kind[d] = "single" => CallOK(g2, flags[d], s, done, made)
  BY <1>1, <1>2, <1>3, EndsKeep
<1>6. /\ UNCHANGED <<requestVars, connection, idle>>
      /\ flags' = [flags EXCEPT ![d] = flags[d]]
      /\ function' = [function EXCEPT ![d][f] = g2]
  BY <1>2 DEF StartFunction, TypeOK
<1> HIDE DEF g2, s, done, made
<1>7. FunctionStepTo(d, f, s, done, made, flags[d], g2)
  BY <1>1, <1>2, <1>3, <1>4, <1>5, <1>6 DEF FunctionStepTo
<1> QED BY <1>7, StepOfFunction

\* Starting an operation.
LEMMA StartOperationStep ==
    ASSUME Inv, UNCHANGED pooled, NEW d \in Calls, NEW f \in Functions,
           StartOperation(d, f)
    PROVE  Inv'
<1> DEFINE g == function[d][f]
           s == Own(d)
           done == By(d, committed)
           made == By(d, issued)
<1>1. g.pc = "body" /\ ~g.failed /\ g.operations < MaxOperations
  <2>1. Bound(d, MaxOperations) <= MaxOperations
    BY BoundsAssumption DEF Bound
  <2>2. g.pc = "body" /\ ~g.failed /\ g.operations < Bound(d, MaxOperations)
    BY DEF StartOperation, Active, MayOperate
  <2>3. g \in Progress
    BY <2>2, FunctionFacts
  <2>4. g.operations \in Nat /\ Bound(d, MaxOperations) \in Nat
    BY <2>3, BoundsAssumption DEF Progress, Bound
  <2> QED BY <2>1, <2>2, <2>4, BoundsAssumption
<1>2. /\ TypeOK /\ g \in Progress /\ ProgressOK(g) /\ flags[d] \in SUBSET Flags
      /\ kind[d] = "single" => CallOK(g, flags[d], s, done, made)
  BY <1>1, FunctionFacts
<1>3. PICK parts \in SUBSET Parts :
        function' = [function EXCEPT ![d][f] =
              [g EXCEPT !.pc = "operation",
                        !.todo = parts,
                        !.operations = @ + 1,
                        !.started = NeedsTransaction(d),
                        !.localCount = IF NeedsTransaction(d) THEN @ + 1 ELSE @]]
  <2>1. \A n \in 1 .. Bound(d, 2) : 1 .. n \in SUBSET Parts
    BY DEF Bound, Parts
  <2> QED BY <2>1 DEF StartOperation
<1>4. PICK needs \in BOOLEAN :
        /\ needs <=> NeedsTransaction(d)
        /\ function' = [function EXCEPT ![d][f] =
              [g EXCEPT !.pc = "operation",
                        !.todo = parts,
                        !.operations = @ + 1,
                        !.started = needs,
                        !.localCount = IF needs THEN @ + 1 ELSE @]]
  <2>1. CASE NeedsTransaction(d)
    BY <1>3, <2>1 DEF NeedsTransaction
  <2>2. CASE ~NeedsTransaction(d)
    BY <1>3, <2>2 DEF NeedsTransaction
  <2> QED BY <2>1, <2>2
<1> DEFINE g2 == [g EXCEPT !.pc = "operation", !.todo = parts,
                           !.operations = @ + 1, !.started = needs,
                           !.localCount = IF needs THEN @ + 1 ELSE @]
<1>5. function' = [function EXCEPT ![d][f] = g2]
  BY <1>4
<1>6. g2 \in Progress /\ ProgressOK(g2) /\ g2.pc = "operation"
  <2>1. /\ g2 \in Progress /\ g2.pc = "operation" /\ g2.operations = g.operations + 1
        /\ g2.localCount = IF needs THEN g.localCount + 1 ELSE g.localCount
        /\ g2.started = needs
        /\ g2.late = g.late /\ g2.failed = g.failed /\ g2.depth = g.depth
        /\ g2.nested = g.nested /\ g2.blocks = g.blocks
    <3>1. g.operations + 1 \in 0 .. MaxOperations /\ g.localCount + 1 \in 0 .. MaxOperations
      BY <1>1, <1>2, BoundsAssumption DEF Progress, ProgressOK
    <3> HIDE DEF g
    <3>2. CASE needs = TRUE
      BY <1>2, <3>1, <3>2 DEF Progress
    <3>3. CASE needs = FALSE
      BY <1>2, <3>1, <3>3 DEF Progress
    <3> QED BY <3>2, <3>3
  <2> HIDE DEF g2
  <2> QED BY <1>1, <1>2, <1>4, <2>1, BoundsAssumption DEF Progress, ProgressOK
<1>7. /\ s \in Sessions /\ done \in SUBSET Writes /\ made \in SUBSET Writes
      /\ done \subseteq made /\ s.writes \subseteq made
      /\ UNCHANGED databaseVars => Changed(connection[d], d, s, done, made)
      /\ BeginTransaction(connection[d]) =>
            Changed(connection[d], d, BegunSession(s), BegunDone(s, done), made)
  BY <1>1, FunctionFacts
<1>8. kind[d] = "single" =>
        /\ needs => CallOK(g2, flags[d] \cup {"localTransaction"}, BegunSession(s),
                           BegunDone(s, done), made)
        /\ ~needs => CallOK(g2, flags[d], s, done, made)
  BY <1>1, <1>2, <1>4, <1>7, StartKeeps DEF NeedsTransaction
<1>9. UNCHANGED <<requestVars, connection, idle>>
  BY DEF StartOperation
<1>10. CASE needs
  <2>1. /\ BegunSession(s) \in Sessions /\ BegunDone(s, done) \in SUBSET Writes
        /\ BegunDone(s, done) \subseteq made /\ BegunSession(s).writes \subseteq made
    BY <1>7 DEF BegunSession, BegunDone, Opened, Sessions
  <2>2. /\ flags[d] \cup {"localTransaction"} \in SUBSET Flags
        /\ flags' = [flags EXCEPT ![d] = flags[d] \cup {"localTransaction"}]
        /\ Changed(connection[d], d, BegunSession(s), BegunDone(s, done), made)
    BY <1>2, <1>4, <1>7, <1>10 DEF StartOperation, Flags
  <2> HIDE DEF g2, s, done, made
  <2>3. FunctionStepTo(d, f, BegunSession(s), BegunDone(s, done), made,
                       flags[d] \cup {"localTransaction"}, g2)
    BY <1>1, <1>2, <1>5, <1>6, <1>7, <1>8, <1>9, <1>10, <2>1, <2>2 DEF FunctionStepTo
  <2> QED BY <2>3, StepOfFunction
<1>11. CASE ~needs
  <2>1. /\ flags' = [flags EXCEPT ![d] = flags[d]]
        /\ Changed(connection[d], d, s, done, made)
    BY <1>2, <1>4, <1>7, <1>11 DEF StartOperation, TypeOK
  <2> HIDE DEF g2, s, done, made
  <2>2. FunctionStepTo(d, f, s, done, made, flags[d], g2)
    BY <1>1, <1>2, <1>5, <1>6, <1>7, <1>8, <1>9, <1>11, <2>1 DEF FunctionStepTo
  <2> QED BY <2>2, StepOfFunction
<1> QED BY <1>10, <1>11

\* A statement.
LEMMA StatementStep ==
    ASSUME Inv, UNCHANGED pooled, NEW d \in Calls, NEW f \in Functions,
           NEW p \in Parts, Statement(d, f, p)
    PROVE  Inv'
<1> DEFINE g == function[d][f]
           g2 == [g EXCEPT !.todo = @ \ {p}]
           s == Own(d)
           done == By(d, committed)
           made == By(d, issued)
           w == WriteOf(d, f, p, FALSE)
           open == s.tx = "open"
           s2 == IF s.tx = "open" THEN [s EXCEPT !.writes = @ \cup {w}] ELSE s
           done2 == IF s.tx = "open" THEN done ELSE done \cup {w}
<1>1. g.pc = "operation" /\ Execute(connection[d], w)
  BY DEF Statement
<1>2. /\ TypeOK /\ g \in Progress /\ ProgressOK(g) /\ flags[d] \in SUBSET Flags
      /\ kind[d] = "single" => CallOK(g, flags[d], s, done, made)
  BY <1>1, FunctionFacts
<1>3. /\ w \in Writes /\ ~w.late /\ w.call = d
      /\ w.block = IF g.depth = 0 THEN 0 ELSE g.blocks
  BY <1>1, <1>2, BoundsAssumption DEF WriteOf, Writes, Progress, ProgressOK
<1>4. /\ s \in Sessions /\ done \in SUBSET Writes /\ made \in SUBSET Writes
      /\ done \subseteq made /\ s.writes \subseteq made
  BY <1>1, FunctionFacts
<1>5. s.tx # "aborted" /\ Changed(connection[d], d, s2, done2, made \cup {w})
  BY <1>1, <1>3, FunctionFacts
<1>6. g2 \in Progress /\ ProgressOK(g2) /\ g2.pc = "operation"
  BY <1>1, <1>2 DEF Progress, ProgressOK
<1>7. /\ UNCHANGED <<requestVars, connection, idle>>
      /\ flags' = [flags EXCEPT ![d] = flags[d]]
      /\ function' = [function EXCEPT ![d][f] = g2]
  BY <1>2 DEF Statement, TypeOK
<1> HIDE DEF w
<1>8. /\ s2 \in Sessions /\ done2 \in SUBSET Writes /\ made \cup {w} \in SUBSET Writes
      /\ done2 \subseteq made \cup {w} /\ s2.writes \subseteq made \cup {w}
  BY <1>3, <1>4 DEF Sessions
<1>9. kind[d] = "single" => CallOK(g2, flags[d], s2, done2, made \cup {w})
  <2>1. CASE s.tx = "open"
    BY <1>1, <1>2, <1>3, <1>4, <1>5, <2>1, StatementKeeps
  <2>2. CASE s.tx # "open"
    BY <1>1, <1>2, <1>3, <1>4, <1>5, <2>2, StatementKeeps
  <2> QED BY <2>1, <2>2
<1> HIDE DEF g2, s2, done2, made, s, done
<1>10. FunctionStepTo(d, f, s2, done2, made \cup {w}, flags[d], g2)
  BY <1>1, <1>2, <1>5, <1>6, <1>7, <1>8, <1>9 DEF FunctionStepTo
<1> QED BY <1>10, StepOfFunction

\* An operation that succeeds.
LEMMA OperationSucceedsStep ==
    ASSUME Inv, UNCHANGED pooled, NEW d \in Calls, NEW f \in Functions,
           OperationSucceeds(d, f)
    PROVE  Inv'
<1> DEFINE g == function[d][f]
           g2 == [g EXCEPT !.pc = "body", !.started = FALSE]
           s == Own(d)
           done == By(d, committed)
           made == By(d, issued)
<1>1. g.pc = "operation" /\ UNCHANGED <<requestVars, connection, idle>>
      /\ function' = [function EXCEPT ![d][f] = g2]
  BY DEF OperationSucceeds
<1>2. /\ TypeOK /\ g \in Progress /\ ProgressOK(g) /\ flags[d] \in SUBSET Flags
      /\ kind[d] = "single" => CallOK(g, flags[d], s, done, made)
  BY <1>1, FunctionFacts
<1>3. /\ s \in Sessions /\ done \in SUBSET Writes /\ made \in SUBSET Writes
      /\ done \subseteq made /\ s.writes \subseteq made
      /\ UNCHANGED databaseVars => Changed(connection[d], d, s, done, made)
      /\ Commit(connection[d]) =>
            Changed(connection[d], d, Closed, CommittedDone(s, done), made)
  BY <1>1, FunctionFacts
<1>4. g2 \in Progress /\ ProgressOK(g2) /\ g2.pc = "body"
  BY <1>1, <1>2 DEF Progress, ProgressOK
<1>5. kind[d] = "single" =>
        /\ g.started => CallOK(g2, flags[d] \ {"localTransaction"}, Closed,
                               CommittedDone(s, done), made)
        /\ ~g.started => CallOK(g2, flags[d], s, done, made)
  BY <1>1, <1>2, <1>3, SuccessKeeps
<1>6. CASE g.started
  <2>1. /\ flags' = [flags EXCEPT ![d] = flags[d] \ {"localTransaction"}]
        /\ flags[d] \ {"localTransaction"} \in SUBSET Flags
        /\ Changed(connection[d], d, Closed, CommittedDone(s, done), made)
    BY <1>2, <1>3, <1>6 DEF OperationSucceeds
  <2>2. /\ Closed \in Sessions /\ CommittedDone(s, done) \in SUBSET Writes
        /\ CommittedDone(s, done) \subseteq made /\ Closed.writes \subseteq made
    BY <1>3 DEF Closed, CommittedDone, Sessions
  <2> HIDE DEF g2, made, s, done
  <2>3. FunctionStepTo(d, f, Closed, CommittedDone(s, done), made,
                       flags[d] \ {"localTransaction"}, g2)
    BY <1>1, <1>3, <1>4, <1>5, <1>6, <2>1, <2>2 DEF FunctionStepTo
  <2> QED BY <2>3, StepOfFunction
<1>7. CASE ~g.started
  <2>1. /\ flags' = [flags EXCEPT ![d] = flags[d]]
        /\ Changed(connection[d], d, s, done, made)
    BY <1>2, <1>3, <1>7 DEF OperationSucceeds, TypeOK
  <2> HIDE DEF g2, made, s, done
  <2>2. FunctionStepTo(d, f, s, done, made, flags[d], g2)
    BY <1>1, <1>2, <1>3, <1>4, <1>5, <1>7, <2>1 DEF FunctionStepTo
  <2> QED BY <2>2, StepOfFunction
<1> QED BY <1>6, <1>7

\* An operation that fails.
LEMMA OperationFailsStep ==
    ASSUME Inv, UNCHANGED pooled, NEW d \in Calls, NEW f \in Functions,
           OperationFails(d, f)
    PROVE  Inv'
<1> DEFINE g == function[d][f]
           s == Own(d)
           done == By(d, committed)
           made == By(d, issued)
<1>1. g.pc = "operation" /\ UNCHANGED <<requestVars, connection, idle>>
  BY DEF OperationFails
<1>2. /\ TypeOK /\ g \in Progress /\ ProgressOK(g) /\ flags[d] \in SUBSET Flags
      /\ kind[d] = "single" => CallOK(g, flags[d], s, done, made)
  BY <1>1, FunctionFacts
<1>3. PICK rest \in {g.todo \ {p} : p \in Parts} :
        function' = [function EXCEPT ![d][f] =
            [g EXCEPT !.pc = "body", !.started = FALSE, !.todo = {},
                      !.late = rest, !.failed = TRUE]]
  BY DEF OperationFails
<1> DEFINE g2 == [g EXCEPT !.pc = "body", !.started = FALSE, !.todo = {},
                           !.late = rest, !.failed = TRUE]
<1>4. rest \in SUBSET Parts
  BY <1>2 DEF Progress
<1>5. /\ s \in Sessions /\ done \in SUBSET Writes /\ made \in SUBSET Writes
      /\ done \subseteq made /\ s.writes \subseteq made
      /\ UNCHANGED databaseVars => Changed(connection[d], d, s, done, made)
      /\ Rollback(connection[d]) => Changed(connection[d], d, Closed, done, made)
      /\ AbortIn(connection[d]) =>
            s.tx = "open" /\ Changed(connection[d], d, [s EXCEPT !.tx = "aborted"], done, made)
  BY <1>1, FunctionFacts
<1>6. g2 \in Progress /\ ProgressOK(g2) /\ g2.pc = "body"
  BY <1>1, <1>2, <1>4 DEF Progress, ProgressOK
<1>7. PICK s2, fl2 :
        /\ Changed(connection[d], d, s2, done, made)
        /\ flags' = [flags EXCEPT ![d] = fl2]
        /\ \/ g.started /\ s2 = Closed /\ fl2 = flags[d] \ {"localTransaction"}
           \/ /\ ~g.started /\ fl2 = flags[d]
              /\ s2 = s \/ (s.tx = "open" /\ s2 = [s EXCEPT !.tx = "aborted"])
  <2>1. CASE g.started
    BY <1>5, <2>1 DEF OperationFails
  <2>2. CASE ~g.started
    <3>1. flags' = [flags EXCEPT ![d] = flags[d]]
      BY <1>2, <2>2 DEF OperationFails, TypeOK
    <3>2. AbortIn(connection[d]) \/ UNCHANGED databaseVars
      BY <2>2 DEF OperationFails
    <3>3. \E s2 : /\ Changed(connection[d], d, s2, done, made)
                  /\ s2 = s \/ (s.tx = "open" /\ s2 = [s EXCEPT !.tx = "aborted"])
      <4>1. CASE AbortIn(connection[d])
        <5> DEFINE a == [s EXCEPT !.tx = "aborted"]
        <5>1. Changed(connection[d], d, a, done, made) /\ s.tx = "open"
          BY <1>5, <4>1
        <5> HIDE DEF s
        <5>2. s.tx = "open" /\ a = [s EXCEPT !.tx = "aborted"]
          BY <5>1
        <5> HIDE DEF a
        <5> QED BY <5>1, <5>2
      <4>2. CASE UNCHANGED databaseVars
        <5>1. Changed(connection[d], d, s, done, made)
          BY <1>5, <4>2
        <5> HIDE DEF s, done, made
        <5> QED BY <5>1
      <4> QED BY <3>2, <4>1, <4>2
    <3> HIDE DEF g, s, done, made
    <3> QED BY <2>2, <3>1, <3>3
  <2> QED BY <2>1, <2>2
<1>8. kind[d] = "single" => CallOK(g2, fl2, s2, done, made)
  <2>1. g2 = [g EXCEPT !.pc = "body", !.started = FALSE, !.todo = {},
                       !.late = rest, !.failed = TRUE]
    OBVIOUS
  <2>2. \/ s2 = s \/ s2 = Closed
        \/ s.tx = "open" /\ s2 = [s EXCEPT !.tx = "aborted"]
    BY <1>7
  <2> HIDE DEF g, g2, s, done, made
  <2>3. ASSUME kind[d] = "single"
        PROVE  /\ g.started /\ s2 = Closed =>
                      CallOK(g2, flags[d] \ {"localTransaction"}, s2, done, made)
               /\ ~g.started => CallOK(g2, flags[d], s2, done, made)
    BY <1>1, <1>2, <1>4, <1>5, <2>1, <2>2, <2>3, FailureKeeps
  <2> QED BY <1>7, <2>3
<1>9. s2 \in Sessions /\ s2.writes \subseteq made /\ fl2 \in SUBSET Flags
  BY <1>2, <1>5, <1>7 DEF Sessions, Closed
<1> HIDE DEF g2, made, s, done
<1>10. FunctionStepTo(d, f, s2, done, made, fl2, g2)
  BY <1>1, <1>3, <1>5, <1>6, <1>7, <1>8, <1>9 DEF FunctionStepTo, g2
<1> QED BY <1>10, StepOfFunction

\* The read that finds nothing.
LEMMA ReadAbandonsStep ==
    ASSUME Inv, UNCHANGED pooled, NEW d \in Calls, NEW f \in Functions,
           ReadAbandonsTransaction(d, f)
    PROVE  Inv'
<1> DEFINE g == function[d][f]
           g2 == [g EXCEPT !.operations = @ + 1, !.localCount = @ + 1, !.failed = TRUE]
           s == Own(d)
           done == By(d, committed)
           made == By(d, issued)
<1>1. /\ g.pc = "body" /\ ~g.failed /\ g.operations < Bound(d, MaxOperations)
      /\ flags[d] \cap TransactionFlags = {} /\ BeginTransaction(connection[d])
      /\ UNCHANGED <<requestVars, connection, idle>>
      /\ function' = [function EXCEPT ![d][f] = g2]
  BY DEF ReadAbandonsTransaction, Active, MayOperate, NeedsTransaction
<1>2. /\ TypeOK /\ g \in Progress /\ ProgressOK(g) /\ flags[d] \in SUBSET Flags
      /\ kind[d] = "single" => CallOK(g, flags[d], s, done, made)
  BY <1>1, FunctionFacts
<1>3. /\ s \in Sessions /\ done \in SUBSET Writes /\ made \in SUBSET Writes
      /\ done \subseteq made /\ s.writes \subseteq made
      /\ Changed(connection[d], d, BegunSession(s), BegunDone(s, done), made)
  BY <1>1, FunctionFacts
<1>4. g2 \in Progress /\ ProgressOK(g2) /\ g2.pc = "body"
  <2>1. Bound(d, MaxOperations) \in 1 .. MaxOperations
    BY BoundsAssumption DEF Bound
  <2>2. g.operations \in Nat /\ g.localCount \in Nat /\ g.localCount <= g.operations
    BY <1>2 DEF Progress, ProgressOK
  <2>3. g.operations + 1 \in 0 .. MaxOperations /\ g.localCount + 1 \in 0 .. MaxOperations
    BY <1>1, <2>1, <2>2, BoundsAssumption
  <2>4. g2 \in Progress
    <3> HIDE DEF g
    <3> QED BY <1>2, <2>3 DEF Progress
  <2>5. /\ g2.pc = g.pc /\ g2.late = g.late /\ g2.operations = g.operations + 1
        /\ g2.failed = TRUE /\ g2.localCount = g.localCount + 1
        /\ g2.started = g.started /\ g2.depth = g.depth
        /\ g2.blocks = g.blocks /\ g2.nested = g.nested
    BY <1>2 DEF Progress
  <2> HIDE DEF g, g2
  <2> QED BY <1>1, <1>2, <2>2, <2>4, <2>5 DEF ProgressOK
<1>5. kind[d] = "single" =>
        CallOK(g2, flags[d], BegunSession(s), BegunDone(s, done), made)
  <2>1. g2 = [g EXCEPT !.operations = @ + 1, !.localCount = @ + 1, !.failed = TRUE]
    OBVIOUS
  <2> HIDE DEF g, g2, s, done, made
  <2> QED BY <1>1, <1>2, <1>3, <2>1, AbandonKeeps
<1>6. /\ BegunSession(s) \in Sessions /\ BegunDone(s, done) \in SUBSET Writes
      /\ BegunDone(s, done) \subseteq made /\ BegunSession(s).writes \subseteq made
  BY <1>3 DEF BegunSession, BegunDone, Opened, Sessions
<1>7. flags' = [flags EXCEPT ![d] = flags[d]]
  BY <1>2 DEF ReadAbandonsTransaction, TypeOK
<1> HIDE DEF g2, made, s, done
<1>8. FunctionStepTo(d, f, BegunSession(s), BegunDone(s, done), made, flags[d], g2)
  BY <1>1, <1>2, <1>3, <1>4, <1>5, <1>6, <1>7 DEF FunctionStepTo
<1> QED BY <1>8, StepOfFunction

\* A multiple call's transaction is joined: for a single call there is none.
LEMMA SinglesJoinNone ==
    ASSUME NEW d \in Calls, NEW g, NEW s, NEW done, NEW made,
           CallOK(g, flags[d], s, done, made)
    PROVE  ~JoinsMultiple(d)
BY DEF CallOK, FlagsOK, JoinsMultiple

\* Entering executeInsideTransaction.
LEMMA EnterTransactionStep ==
    ASSUME Inv, UNCHANGED pooled, NEW d \in Calls, NEW f \in Functions,
           EnterTransaction(d, f)
    PROVE  Inv'
<1> DEFINE g == function[d][f]
           g2 == [g EXCEPT !.depth = @ + 1, !.blocks = BlocksEntered(g),
                           !.nested = @ \/ g.depth > 0]
           s == Own(d)
           done == By(d, committed)
           made == By(d, issued)
<1>1. /\ g.pc = "body" /\ ~g.failed
      /\ IF g.depth = 0 THEN g.blocks < MaxBlocks ELSE ~g.nested
      /\ UNCHANGED <<requestVars, connection, idle>>
      /\ function' = [function EXCEPT ![d][f] = g2]
  BY DEF EnterTransaction, Active, CanEnter
<1>2. /\ TypeOK /\ g \in Progress /\ ProgressOK(g) /\ flags[d] \in SUBSET Flags
      /\ kind[d] = "single" => CallOK(g, flags[d], s, done, made)
  BY <1>1, FunctionFacts
<1>3. /\ s \in Sessions /\ done \in SUBSET Writes /\ made \in SUBSET Writes
      /\ done \subseteq made /\ s.writes \subseteq made
      /\ UNCHANGED databaseVars => Changed(connection[d], d, s, done, made)
      /\ BeginTransaction(connection[d]) =>
            Changed(connection[d], d, BegunSession(s), BegunDone(s, done), made)
  BY <1>1, FunctionFacts
<1>4. g2 \in Progress /\ ProgressOK(g2) /\ g2.pc = "body"
  <2>1. /\ g.depth \in 0 .. 1 /\ g.blocks \in 0 .. MaxBlocks
        /\ BlocksEntered(g) \in 1 .. MaxBlocks
    BY <1>1, <1>2, BoundsAssumption DEF Progress, ProgressOK, BlocksEntered
  <2>2. g2 \in Progress
    <3>1. g.depth + 1 \in 0 .. 2 /\ BlocksEntered(g) \in 0 .. MaxBlocks
      BY <2>1
    <3>2. (g.nested \/ g.depth > 0) \in BOOLEAN
      OBVIOUS
    <3> HIDE DEF g
    <3>3. CASE g.nested \/ g.depth > 0
      BY <1>2, <3>1, <3>3 DEF Progress
    <3>4. CASE ~(g.nested \/ g.depth > 0)
      BY <1>2, <3>1, <3>4 DEF Progress
    <3> QED BY <3>3, <3>4
  <2>3. /\ g2.pc = g.pc /\ g2.late = g.late /\ g2.operations = g.operations
        /\ g2.failed = g.failed /\ g2.localCount = g.localCount
        /\ g2.started = g.started /\ g2.depth = g.depth + 1
        /\ g2.blocks = BlocksEntered(g) /\ (g2.nested <=> g.nested \/ g.depth > 0)
    BY <1>2 DEF Progress
  <2> HIDE DEF g, g2
  <2> QED BY <1>1, <1>2, <2>1, <2>2, <2>3 DEF ProgressOK
<1>5. kind[d] = "single" => CallOK(g2, flags[d] \cup {"globalTransaction"},
                                  BegunSession(s), BegunDone(s, done), made)
  <2>1. g2 = [g EXCEPT !.depth = @ + 1, !.blocks = BlocksEntered(g),
                       !.nested = @ \/ g.depth > 0]
    OBVIOUS
  <2> HIDE DEF g, g2, s, done, made
  <2> QED BY <1>1, <1>2, <1>3, <2>1, EnterKeeps
<1>6. CASE ~JoinsMultiple(d)
  <2>1. /\ flags' = [flags EXCEPT ![d] = flags[d] \cup {"globalTransaction"}]
        /\ flags[d] \cup {"globalTransaction"} \in SUBSET Flags
        /\ Changed(connection[d], d, BegunSession(s), BegunDone(s, done), made)
    BY <1>2, <1>3, <1>6 DEF EnterTransaction, Flags
  <2>2. /\ BegunSession(s) \in Sessions /\ BegunDone(s, done) \in SUBSET Writes
        /\ BegunDone(s, done) \subseteq made /\ BegunSession(s).writes \subseteq made
    BY <1>3 DEF BegunSession, BegunDone, Opened, Sessions
  <2> HIDE DEF g2, made, s, done
  <2>3. FunctionStepTo(d, f, BegunSession(s), BegunDone(s, done), made,
                       flags[d] \cup {"globalTransaction"}, g2)
    BY <1>1, <1>3, <1>4, <1>5, <2>1, <2>2 DEF FunctionStepTo
  <2> QED BY <2>3, StepOfFunction
<1>7. CASE JoinsMultiple(d)
  <2>1. /\ flags' = [flags EXCEPT ![d] = flags[d]]
        /\ Changed(connection[d], d, s, done, made)
    BY <1>2, <1>3, <1>7 DEF EnterTransaction, TypeOK
  <2>2. kind[d] # "single"
    BY <1>2, <1>7, SinglesJoinNone
  <2> HIDE DEF g2, made, s, done
  <2>3. FunctionStepTo(d, f, s, done, made, flags[d], g2)
    BY <1>1, <1>2, <1>3, <1>4, <2>1, <2>2 DEF FunctionStepTo
  <2> QED BY <2>3, StepOfFunction
<1> QED BY <1>6, <1>7

\* A BEGIN or COMMIT of executeInsideTransaction that fails.
LEMMA FailsStep ==
    ASSUME Inv, UNCHANGED pooled, NEW d \in Calls, NEW f \in Functions,
           EnterFails(d, f) \/ CommitFails(d, f)
    PROVE  Inv'
<1> DEFINE g == function[d][f]
           s == Own(d)
           done == By(d, committed)
           made == By(d, issued)
<1>1. /\ g.pc = "body" /\ ~g.failed /\ Rollback(connection[d])
      /\ UNCHANGED <<requestVars, connection, idle>>
  BY DEF EnterFails, CommitFails, Active, CanEnter
<1>2. /\ TypeOK /\ g \in Progress /\ ProgressOK(g) /\ flags[d] \in SUBSET Flags
      /\ kind[d] = "single" => CallOK(g, flags[d], s, done, made)
  BY <1>1, FunctionFacts
<1>3. /\ s \in Sessions /\ done \in SUBSET Writes /\ made \in SUBSET Writes
      /\ done \subseteq made /\ Closed \in Sessions /\ Closed.writes \subseteq made
      /\ Changed(connection[d], d, Closed, done, made)
  <2>1. Closed \in Sessions /\ Closed.writes = {}
    BY DEF Closed, Sessions
  <2> QED BY <1>1, <2>1, FunctionFacts
<1>4. CASE EnterFails(d, f)
  <2> DEFINE g2 == [g EXCEPT !.failed = TRUE, !.blocks = BlocksEntered(g)]
             fl2 == flags[d] \cup {"globalTransaction"}
  <2>1. /\ function' = [function EXCEPT ![d][f] = g2]
        /\ flags' = [flags EXCEPT ![d] = fl2] /\ fl2 \in SUBSET Flags
        /\ g.depth = 0 => g.blocks < MaxBlocks
    BY <1>2, <1>4 DEF EnterFails, CanEnter, Flags
  <2>2. g2 \in Progress /\ ProgressOK(g2) /\ g2.pc = "body"
    <3>1. /\ BlocksEntered(g) \in 0 .. MaxBlocks
          /\ BlocksEntered(g) = IF g.depth = 0 THEN g.blocks + 1 ELSE g.blocks
      BY <1>2, <2>1, BoundsAssumption DEF Progress, BlocksEntered
    <3>2. g2 \in Progress
      <4> HIDE DEF g
      <4> QED BY <1>2, <3>1 DEF Progress
    <3>3. /\ g2.pc = g.pc /\ g2.late = g.late /\ g2.operations = g.operations
          /\ g2.failed = TRUE /\ g2.localCount = g.localCount
          /\ g2.started = g.started /\ g2.depth = g.depth
          /\ g2.blocks = BlocksEntered(g) /\ g2.nested = g.nested
      BY <1>2 DEF Progress
    <3>4. g.blocks \in Nat /\ g.depth \in Nat
      BY <1>2 DEF Progress
    <3> HIDE DEF g, g2
    <3> QED BY <1>1, <1>2, <3>1, <3>2, <3>3, <3>4 DEF ProgressOK
  <2>3. g2 = [g EXCEPT !.failed = TRUE, !.blocks = BlocksEntered(g)]
    OBVIOUS
  <2> HIDE DEF g, g2, s, done, made
  <2>4. kind[d] = "single" => CallOK(g2, fl2, Closed, done, made)
    BY <1>1, <1>2, <1>3, <2>3, RollbackKeeps
  <2>5. FunctionStepTo(d, f, Closed, done, made, fl2, g2)
    BY <1>1, <1>3, <2>1, <2>2, <2>4 DEF FunctionStepTo, g
  <2> QED BY <2>5, StepOfFunction
<1>5. CASE CommitFails(d, f)
  <2> DEFINE g2 == [g EXCEPT !.depth = @ - 1, !.failed = TRUE]
  <2>1. /\ function' = [function EXCEPT ![d][f] = g2]
        /\ flags' = [flags EXCEPT ![d] = flags[d]]
        /\ g.depth > 0
    BY <1>2, <1>5 DEF CommitFails, TypeOK
  <2>2. g2 \in Progress /\ ProgressOK(g2) /\ g2.pc = "body"
    <3>1. g.depth - 1 \in 0 .. 2 /\ g.depth \in 0 .. 2
      BY <1>2, <2>1 DEF Progress
    <3>2. g2 \in Progress
      <4> HIDE DEF g
      <4> QED BY <1>2, <3>1 DEF Progress
    <3>3. /\ g2.pc = g.pc /\ g2.late = g.late /\ g2.operations = g.operations
          /\ g2.failed = TRUE /\ g2.localCount = g.localCount
          /\ g2.started = g.started /\ g2.depth = g.depth - 1
          /\ g2.blocks = g.blocks /\ g2.nested = g.nested
      BY <1>2 DEF Progress
    <3> HIDE DEF g, g2
    <3> QED BY <1>1, <1>2, <3>1, <3>2, <3>3 DEF ProgressOK
  <2>3. g2 = [g EXCEPT !.depth = @ - 1, !.failed = TRUE]
    OBVIOUS
  <2> HIDE DEF g, g2, s, done, made
  <2>4. kind[d] = "single" => CallOK(g2, flags[d], Closed, done, made)
    BY <1>1, <1>2, <1>3, <2>1, <2>3, RollbackKeeps
  <2>5. FunctionStepTo(d, f, Closed, done, made, flags[d], g2)
    BY <1>1, <1>2, <1>3, <2>1, <2>2, <2>4 DEF FunctionStepTo, g
  <2> QED BY <2>5, StepOfFunction
<1> QED BY <1>4, <1>5

\* The end of executeInsideTransaction.
LEMMA LeaveTransactionStep ==
    ASSUME Inv, UNCHANGED pooled, NEW d \in Calls, NEW f \in Functions,
           LeaveTransaction(d, f)
    PROVE  Inv'
<1> DEFINE g == function[d][f]
           g2 == [g EXCEPT !.depth = @ - 1]
           s == Own(d)
           done == By(d, committed)
           made == By(d, issued)
           fl2 == flags[d] \ {"globalTransaction"}
<1>1. /\ g.pc = "body" /\ g.depth > 0
      /\ UNCHANGED <<requestVars, connection, idle>>
      /\ function' = [function EXCEPT ![d][f].depth = @ - 1]
  BY DEF LeaveTransaction
<1>2. /\ TypeOK /\ g \in Progress /\ ProgressOK(g) /\ flags[d] \in SUBSET Flags
      /\ kind[d] = "single" => CallOK(g, flags[d], s, done, made)
  BY <1>1, FunctionFacts
<1>3. /\ s \in Sessions /\ done \in SUBSET Writes /\ made \in SUBSET Writes
      /\ done \subseteq made /\ s.writes \subseteq made
      /\ UNCHANGED databaseVars => Changed(connection[d], d, s, done, made)
      /\ Rollback(connection[d]) => Changed(connection[d], d, Closed, done, made)
      /\ Commit(connection[d]) =>
            Changed(connection[d], d, Closed, CommittedDone(s, done), made)
  BY <1>1, FunctionFacts
<1>4. function' = [function EXCEPT ![d][f] = g2]
  BY <1>1, <1>2 DEF TypeOK
<1>5. g2 \in Progress /\ ProgressOK(g2) /\ g2.pc = "body"
  BY <1>1, <1>2 DEF Progress, ProgressOK
<1>6. /\ Closed \in Sessions /\ Closed.writes \subseteq made
      /\ CommittedDone(s, done) \in SUBSET Writes /\ CommittedDone(s, done) \subseteq made
      /\ fl2 \in SUBSET Flags
  BY <1>2, <1>3 DEF Closed, CommittedDone, Sessions
<1>7. g2 = [g EXCEPT !.depth = @ - 1]
  OBVIOUS
<1>8. CASE JoinsMultiple(d)
  <2>1. /\ flags' = [flags EXCEPT ![d] = flags[d]]
        /\ Changed(connection[d], d, s, done, made)
    BY <1>2, <1>3, <1>8 DEF LeaveTransaction, TypeOK
  <2>2. kind[d] # "single"
    BY <1>2, <1>8, SinglesJoinNone
  <2> HIDE DEF g2, made, s, done
  <2>3. FunctionStepTo(d, f, s, done, made, flags[d], g2)
    BY <1>1, <1>2, <1>3, <1>4, <1>5, <2>1, <2>2 DEF FunctionStepTo
  <2> QED BY <2>3, StepOfFunction
<1>9. CASE ~JoinsMultiple(d) /\ ~g.failed
  <2>1. /\ flags' = [flags EXCEPT ![d] = fl2]
        /\ Changed(connection[d], d, Closed, CommittedDone(s, done), made)
    BY <1>3, <1>9 DEF LeaveTransaction
  <2> HIDE DEF g, g2, made, s, done, fl2
  <2>2. kind[d] = "single" => CallOK(g2, fl2, Closed, CommittedDone(s, done), made)
    BY <1>1, <1>2, <1>3, <1>7, <1>9, LeaveKeeps DEF fl2
  <2>3. FunctionStepTo(d, f, Closed, CommittedDone(s, done), made, fl2, g2)
    BY <1>1, <1>3, <1>4, <1>5, <1>6, <2>1, <2>2 DEF FunctionStepTo, g
  <2> QED BY <2>3, StepOfFunction
<1>10. CASE ~JoinsMultiple(d) /\ g.failed
  <2>1. /\ flags' = [flags EXCEPT ![d] = fl2]
        /\ Changed(connection[d], d, Closed, done, made)
    BY <1>3, <1>10 DEF LeaveTransaction
  <2>2. g2 = [g EXCEPT !.depth = @ - 1, !.failed = TRUE]
    BY <1>2, <1>10 DEF Progress
  <2> HIDE DEF g, g2, made, s, done, fl2
  <2>3. kind[d] = "single" => CallOK(g2, fl2, Closed, done, made)
    BY <1>1, <1>2, <1>3, <2>2, RollbackKeeps DEF fl2
  <2>4. FunctionStepTo(d, f, Closed, done, made, fl2, g2)
    BY <1>1, <1>3, <1>4, <1>5, <1>6, <2>1, <2>3 DEF FunctionStepTo, g
  <2> QED BY <2>4, StepOfFunction
<1> QED BY <1>8, <1>9, <1>10

\* A function of a multiple call is answered.
LEMMA AnswerInMultipleStep ==
    ASSUME Inv, UNCHANGED pooled, NEW d \in Calls, NEW f \in Functions,
           AnswerInMultiple(d, f)
    PROVE  Inv'
<1> DEFINE g == function[d][f]
           s == Own(d)
           done == By(d, committed)
           made == By(d, issued)
<1>1. /\ kind[d] # "single" /\ g.pc = "body" /\ UNCHANGED databaseVars
      /\ UNCHANGED <<requestVars, connection, idle, flags>>
  BY DEF AnswerInMultiple, Multiple, InSequence, InParallel
<1>2. /\ TypeOK /\ g \in Progress /\ ProgressOK(g) /\ flags[d] \in SUBSET Flags
      /\ s \in Sessions /\ done \in SUBSET Writes /\ made \in SUBSET Writes
      /\ done \subseteq made /\ s.writes \subseteq made
      /\ Changed(connection[d], d, s, done, made)
  BY <1>1, FunctionFacts
<1>3. PICK p \in {"ok", "error"} : function' = [function EXCEPT ![d][f].pc = p]
  BY DEF AnswerInMultiple
<1> DEFINE g2 == [g EXCEPT !.pc = p]
<1>4. /\ function' = [function EXCEPT ![d][f] = g2]
      /\ flags' = [flags EXCEPT ![d] = flags[d]]
  BY <1>1, <1>2, <1>3 DEF TypeOK
<1>5. g2 \in Progress /\ ProgressOK(g2)
  BY <1>1, <1>2, <1>3 DEF Progress, ProgressOK
<1> HIDE DEF g2, made, s, done
<1>6. FunctionStepTo(d, f, s, done, made, flags[d], g2)
  BY <1>1, <1>2, <1>4, <1>5 DEF FunctionStepTo
<1> QED BY <1>6, StepOfFunction

\* A step that only changes the pc of a function, and what its call has then.
PcBecomes(d, f, p) == function' = [function EXCEPT ![d][f].pc = p]
WithPc(d, f, p) == [function[d] EXCEPT ![f] = [function[d][f] EXCEPT !.pc = p]]

\* The function goes on as it was, but for its pc; the other one is not concerned.
LEMMA PcChanges ==
    ASSUME TypeOK, NEW d \in Calls, NEW f \in Functions, ProgressOK(function[d][f]),
           NEW p \in {"ok", "error", "threw"},
           PcBecomes(d, f, p)
    PROVE  LET fn2 == WithPc(d, f, p)
           IN /\ fn2 \in [Functions -> Progress]
              /\ function' = [function EXCEPT ![d] = fn2]
              /\ fn2[f] = [function[d][f] EXCEPT !.pc = p] /\ fn2[f].pc = p
              /\ \A e \in Functions \ {f} : fn2[e] = function[d][e]
              /\ ProgressOK(fn2[f])
<1> DEFINE fn2 == WithPc(d, f, p)
           g == function[d][f]
           g2 == [g EXCEPT !.pc = p]
<1>1. function \in [Calls -> [Functions -> Progress]] /\ g \in Progress
  BY DEF TypeOK
<1>2. g2 \in Progress /\ g2.pc = p /\ ProgressOK(g2)
  BY <1>1 DEF Progress, ProgressOK
<1>3. function' = [function EXCEPT ![d][f] = g2]
  BY <1>1 DEF PcBecomes
<1> HIDE DEF g2
<1>4. fn2 = [function[d] EXCEPT ![f] = g2]
  BY DEF g2, WithPc
<1> HIDE DEF fn2
<1>5. /\ fn2 \in [Functions -> Progress] /\ fn2[f] = g2
      /\ function' = [function EXCEPT ![d] = fn2]
      /\ \A e \in Functions \ {f} : fn2[e] = function[d][e]
  BY <1>1, <1>2, <1>3, <1>4
<1> QED BY <1>2, <1>5 DEF fn2, g2

\* A single call returns, and its connection is released.
LEMMA ReturnSingleStep ==
    ASSUME Inv, UNCHANGED pooled, NEW d \in Calls, NEW f \in Functions,
           ReturnSingle(d, f)
    PROVE  Inv'
<1> DEFINE g == function[d][f]
           k == connection[d]
           s == Own(d)
           done == By(d, committed)
           made == By(d, issued)
           s2 == IF pooled THEN s ELSE Closed
<1>1. /\ kind[d] = "single" /\ g.pc = "body" /\ g.depth = 0
      /\ idle' = idle \cup {k} /\ connection' = [connection EXCEPT ![d] = NoConnection]
      /\ IF pooled THEN UNCHANGED databaseVars ELSE Rollback(k)
      /\ stage' = [stage EXCEPT ![d] = "ended"] /\ UNCHANGED <<kind, flags>>
  BY DEF ReturnSingle, Release
<1>2. /\ TypeOK /\ g \in Progress /\ ProgressOK(g) /\ flags[d] \in SUBSET Flags
      /\ k \in Connections /\ f = 1 /\ CallOK(g, flags[d], s, done, made)
  BY <1>1, FunctionFacts
<1>3. /\ s \in Sessions /\ done \in SUBSET Writes /\ made \in SUBSET Writes
      /\ done \subseteq made
  BY <1>1, FunctionFacts
<1>4. Changed(k, d, s2, done, made)
  <2>1. /\ UNCHANGED databaseVars => Changed(k, d, s, done, made)
        /\ Rollback(k) => Changed(k, d, Closed, done, made)
    BY <1>1, FunctionFacts
  <2> QED BY <1>1, <2>1
<1>5. /\ s2 \in Sessions /\ s2.writes = {} /\ s2.writes \subseteq made
      /\ s2.tx # "none" => pooled /\ s2.tx = "open"
  BY <1>1, <1>2, <1>3 DEF CallOK, SessionOK, Closed, Sessions
<1>6. PICK p \in {"ok", "error"}, r \in BOOLEAN :
        /\ function' = [function EXCEPT ![d][f] = [g EXCEPT !.pc = p, !.remote = r]]
        /\ p = "ok" => ~g.failed
        /\ p = "error" => g.failed \/ r \/ g.localCount > 1
  <2>1. PICK remote \in PossibleRemoteCalls(d, g), nt \in BOOLEAN, nd \in BOOLEAN :
          function' = [function EXCEPT ![d][f] =
              [g EXCEPT !.pc = IF g.failed \/ FailsCheck(g, remote, nt, nd)
                               THEN "error" ELSE "ok",
                        !.remote = remote.made > 0 \/ remote.inPostHooks > 1]]
    BY DEF ReturnSingle
  <2>2. /\ remote.made \in 0 .. 2 /\ remote.inPostHooks \in 0 .. 2
        /\ remote.operationAfter => remote.made > 0
    BY DEF PossibleRemoteCalls, RemoteCalls
  <2>3. FailsCheck(g, remote, nt, nd) =>
            remote.made > 0 \/ remote.inPostHooks > 1 \/ g.localCount > 1
    BY <2>2 DEF FailsCheck
  <2>4. CASE g.failed \/ FailsCheck(g, remote, nt, nd)
    <3>1. function' = [function EXCEPT ![d][f] =
              [g EXCEPT !.pc = "error",
                        !.remote = remote.made > 0 \/ remote.inPostHooks > 1]]
      BY <2>1, <2>4
    <3> QED BY <2>3, <2>4, <3>1
  <2>5. CASE ~(g.failed \/ FailsCheck(g, remote, nt, nd))
    <3>1. function' = [function EXCEPT ![d][f] =
              [g EXCEPT !.pc = "ok",
                        !.remote = remote.made > 0 \/ remote.inPostHooks > 1]]
      BY <2>1, <2>5
    <3> QED BY <2>5, <3>1
  <2> QED BY <2>4, <2>5
<1> DEFINE g1 == [g EXCEPT !.remote = r]
           g2 == [g1 EXCEPT !.pc = p]
           fn2 == [function[d] EXCEPT ![f] = g2]
<1>7. /\ g1 \in Progress /\ g2 \in Progress /\ ProgressOK(g1) /\ ProgressOK(g2)
       /\ g1.remote = r /\ g1.pc = "body" /\ g1.depth = 0 /\ g1.failed = g.failed
       /\ g1.localCount = g.localCount /\ g2.pc = p
       /\ g2 = [g EXCEPT !.pc = p, !.remote = r]
  BY <1>1, <1>2 DEF Progress, ProgressOK, NotStarted
<1>8. CallOK(g1, flags[d], s, done, made)
  <2>1. /\ g1.pc = g.pc /\ g1.late = g.late /\ g1.failed = g.failed /\ g1.depth = g.depth
        /\ g1.blocks = g.blocks /\ g1.nested = g.nested /\ g1.started = g.started
        /\ g1.localCount = g.localCount
    BY <1>2 DEF Progress
  <2> HIDE DEF g1, g, s, done, made
  <2> QED BY <1>1, <1>2, <2>1
    DEF CallOK, FlagsOK, SessionOK, WaitingOK, AnswerOK, Uncommitted
<1>9. /\ fn2 \in [Functions -> Progress]
      /\ function' = [function EXCEPT ![d] = fn2]
      /\ fn2[f] = g2 /\ fn2[f].pc = p
      /\ \A e \in Functions \ {f} : fn2[e] = function[d][e]
      /\ ProgressOK(fn2[f])
  <2>1. function' = [function EXCEPT ![d][f] = g2] /\ function[d] \in [Functions -> Progress]
    BY <1>2, <1>6, <1>7 DEF TypeOK
  <2> HIDE DEF g2
  <2> QED BY <1>2, <1>7, <2>1 DEF TypeOK
<1> HIDE DEF fn2, s, s2, done, made
<1>10. AnswerOK(fn2[1], done, made)
  <2>1. fn2[1] = g2
    BY <1>2, <1>9
  <2> HIDE DEF g
  <2> HIDE DEF g1
  <2>2. g2 = [g1 EXCEPT !.pc = p]
    OBVIOUS
  <2>3. CASE p = "ok"
    BY <1>3, <1>6, <1>7, <1>8, <2>1, <2>2, <2>3, EndsKeep
  <2>4. CASE p = "error"
    BY <1>3, <1>6, <1>7, <1>8, <2>1, <2>2, <2>4, EndsKeep
  <2> QED BY <1>6, <2>3, <2>4
<1>11. RequestOK("single", "ended", NoConnection, fn2, made)
  <2>1. RequestOK(kind[d], stage[d], connection[d], function[d], By(d, issued))
    BY DEF Inv, RequestsOK
  <2>2. fn2[2] = NotStarted /\ fn2[1].pc \in {"ok", "error", "threw"}
    BY <1>1, <1>2, <1>6, <1>9, <2>1 DEF RequestOK, Functions
  <2>3. NotStarted.pc = "none" /\ ProgressOK(NotStarted)
    BY DEF NotStarted, ProgressOK
  <2> QED BY <1>2, <1>6, <1>9, <2>2, <2>3 DEF RequestOK, Functions, Kinds
<1>12. /\ kind' = [kind EXCEPT ![d] = "single"] /\ flags' = [flags EXCEPT ![d] = flags[d]]
       /\ k # NoConnection
  BY <1>1, <1>2, ConnectionAssumption DEF TypeOK
<1>13. StepTo(d, k, s2, done, made, "single", "ended", NoConnection, flags[d], fn2)
  BY <1>1, <1>2, <1>3, <1>4, <1>5, <1>9, <1>10, <1>11, <1>12 DEF StepTo, Kinds
<1> QED BY <1>13, StepOfOne

\* A single call throws, and keeps its connection.
LEMMA ThrowInSingleStep ==
    ASSUME Inv, UNCHANGED pooled, NEW d \in Calls, NEW f \in Functions,
           ThrowInSingle(d, f)
    PROVE  Inv'
<1> DEFINE g == function[d][f]
           k == connection[d]
           s == Own(d)
           done == By(d, committed)
           made == By(d, issued)
<1>1. /\ kind[d] = "single" /\ g.pc = "body" /\ UNCHANGED databaseVars
      /\ stage' = [stage EXCEPT ![d] = "ended"]
      /\ UNCHANGED <<kind, flags, connection, idle>>
      /\ function' = [function EXCEPT ![d][f].pc = "threw"]
  BY DEF ThrowInSingle
<1>2. /\ TypeOK /\ g \in Progress /\ ProgressOK(g) /\ flags[d] \in SUBSET Flags
      /\ k \in Connections /\ f = 1 /\ CallOK(g, flags[d], s, done, made)
  BY <1>1, FunctionFacts
<1>3. /\ s \in Sessions /\ done \in SUBSET Writes /\ made \in SUBSET Writes
      /\ done \subseteq made /\ s.writes \subseteq made
      /\ Changed(k, d, s, done, made)
  BY <1>1, FunctionFacts
<1> DEFINE fn2 == WithPc(d, f, "threw")
<1>4. /\ fn2 \in [Functions -> Progress]
      /\ function' = [function EXCEPT ![d] = fn2]
      /\ fn2[f] = [g EXCEPT !.pc = "threw"] /\ fn2[f].pc = "threw"
      /\ \A e \in Functions \ {f} : fn2[e] = function[d][e]
      /\ ProgressOK(fn2[f])
  <2>1. TypeOK /\ ProgressOK(function[d][f])
    BY <1>2
  <2>2. PcBecomes(d, f, "threw")
    BY <1>1 DEF PcBecomes
  <2> QED BY <2>1, <2>2, PcChanges
<1> HIDE DEF fn2, s, done, made
<1>5. AnswerOK(fn2[1], done, made)
  <2> HIDE DEF g
  <2> QED BY <1>1, <1>2, <1>3, <1>4, EndsKeep
<1>6. RequestOK("single", "ended", k, fn2, made)
  <2>1. RequestOK(kind[d], stage[d], connection[d], function[d], By(d, issued))
    BY DEF Inv, RequestsOK
  <2>2. fn2[2] = NotStarted /\ fn2[1].pc \in {"ok", "error", "threw"}
    BY <1>1, <1>2, <1>4, <2>1 DEF RequestOK, Functions
  <2>3. NotStarted.pc = "none" /\ ProgressOK(NotStarted)
    BY DEF NotStarted, ProgressOK
  <2> QED BY <1>2, <1>4, <2>2, <2>3 DEF RequestOK, Functions, Kinds
<1>7. /\ kind' = [kind EXCEPT ![d] = "single"] /\ flags' = [flags EXCEPT ![d] = flags[d]]
      /\ connection' = [connection EXCEPT ![d] = k]
  BY <1>1, <1>2 DEF TypeOK
<1>8. StepTo(d, k, s, done, made, "single", "ended", k, flags[d], fn2)
  BY <1>1, <1>2, <1>3, <1>4, <1>5, <1>6, <1>7 DEF StepTo, Kinds
<1> QED BY <1>8, StepOfOne

-----------------------------------------------------------------------------
(* The other steps of a request.                                           *)

\* A late statement, of a call that runs or of one that has left its connection behind.
LEMMA LateStatementStep ==
    ASSUME Inv, UNCHANGED pooled, NEW d \in Calls, NEW f \in Functions, NEW p \in Parts,
           LateStatement(d, f, p)
    PROVE  Inv'
<1> DEFINE k == connection[d]
           g == function[d][f]
           g2 == [g EXCEPT !.late = @ \ {p}]
           s == Own(d)
           done == By(d, committed)
           made == By(d, issued)
           w == WriteOf(d, f, p, TRUE)
           s2 == IF s.tx = "open" THEN [s EXCEPT !.writes = @ \cup {w}] ELSE s
           done2 == IF s.tx = "open" THEN done ELSE done \cup {w}
           fn2 == [function[d] EXCEPT ![f] = g2]
<1>1. /\ p \in g.late /\ k # NoConnection /\ Execute(k, w)
      /\ function' = [function EXCEPT ![d][f].late = @ \ {p}]
      /\ UNCHANGED <<requestVars, connection, flags, idle>>
  BY DEF LateStatement
<1>2. /\ TypeOK /\ k \in Connections
      /\ s \in Sessions /\ done \in SUBSET Writes /\ made \in SUBSET Writes
      /\ done \subseteq made /\ s.writes \subseteq made
  BY <1>1, ConnectionFacts
<1>3. RequestOK(kind[d], stage[d], k, function[d], made)
  BY DEF Inv, RequestsOK
<1>4. /\ g \in Progress /\ ProgressOK(g) /\ flags[d] \in SUBSET Flags
      /\ stage[d] \in {"running", "broken", "ended"} /\ kind[d] \in Kinds
      /\ kind[d] = "single" => f = 1
  BY <1>1, <1>2, <1>3 DEF TypeOK, RequestOK, NotStarted, Functions
<1>5. /\ w \in Writes /\ w.late /\ w.call = d
      /\ w.block = IF g.depth = 0 THEN 0 ELSE g.blocks
  BY <1>1, <1>4, BoundsAssumption DEF WriteOf, Writes, Progress, ProgressOK
<1>6. s.tx # "aborted" /\ Changed(k, d, s2, done2, made \cup {w})
  BY <1>1, <1>5, ConnectionFacts
<1> HIDE DEF w
<1>7. /\ s2 \in Sessions /\ done2 \in SUBSET Writes /\ made \cup {w} \in SUBSET Writes
      /\ done2 \subseteq made \cup {w} /\ s2.writes \subseteq made \cup {w}
  BY <1>2, <1>5 DEF Sessions
<1>8. /\ g2 \in Progress /\ ProgressOK(g2) /\ g2.pc = g.pc
      /\ function' = [function EXCEPT ![d][f] = g2]
  <2>1. function' = [function EXCEPT ![d][f] = g2]
    BY <1>1, <1>2 DEF TypeOK
  <2>2. g.late \ {p} \in SUBSET Parts
    BY <1>4 DEF Progress
  <2>3. g2 \in Progress
    <3> HIDE DEF g
    <3> QED BY <1>4, <2>2 DEF Progress
  <2>4. /\ g2.pc = g.pc /\ g2.late = g.late \ {p} /\ g2.operations = g.operations
        /\ g2.failed = g.failed /\ g2.localCount = g.localCount
        /\ g2.started = g.started /\ g2.depth = g.depth
        /\ g2.blocks = g.blocks /\ g2.nested = g.nested
    BY <1>4 DEF Progress
  <2>5. g.pc # "none"
    BY <1>1, <1>4 DEF ProgressOK, NotStarted
  <2> HIDE DEF g, g2
  <2>6. ProgressOK(g2)
    BY <1>4, <2>4, <2>5 DEF ProgressOK
  <2> QED BY <2>1, <2>3, <2>4, <2>6 DEF g
<1>9. kind[d] = "single" =>
        /\ AnswerOK(g2, done2, made \cup {w})
        /\ stage[d] = "running" => CallOK(g2, flags[d], s2, done2, made \cup {w})
  <2>1. ASSUME kind[d] = "single"
        PROVE  /\ AnswerOK(g, done, made)
               /\ stage[d] = "running" => CallOK(g, flags[d], s, done, made)
    BY <1>4, <2>1 DEF Inv, SinglesOK, SingleOK
  <2>2. g2 = [g EXCEPT !.late = @ \ {p}] /\ g.late # {}
    BY <1>1
  <2>3. /\ s2 = IF s.tx = "open" THEN [s EXCEPT !.writes = @ \cup {w}] ELSE s
        /\ done2 = IF s.tx = "open" THEN done ELSE done \cup {w}
    OBVIOUS
  <2> HIDE DEF g, g2, s, s2, done, done2, made
  <2> QED BY <1>2, <1>4, <1>5, <1>6, <2>1, <2>2, <2>3, LateStatementKeeps
<1> HIDE DEF g2
<1>10. /\ fn2 \in [Functions -> Progress]
       /\ function' = [function EXCEPT ![d] = fn2]
       /\ fn2[f] = g2 /\ \A e \in Functions \ {f} : fn2[e] = function[d][e]
  BY <1>2, <1>8 DEF TypeOK
<1> HIDE DEF fn2, s, s2, done, done2, made
<1>11. RequestOK(kind[d], stage[d], k, fn2, made \cup {w})
  BY <1>3, <1>4, <1>8, <1>10 DEF RequestOK, Functions
<1>12. /\ kind' = [kind EXCEPT ![d] = kind[d]] /\ stage' = [stage EXCEPT ![d] = stage[d]]
       /\ connection' = [connection EXCEPT ![d] = k]
       /\ flags' = [flags EXCEPT ![d] = flags[d]] /\ idle' = idle
  BY <1>1, <1>2 DEF TypeOK, requestVars
<1>13. StepTo(d, k, s2, done2, made \cup {w}, kind[d], stage[d], k, flags[d], fn2)
  BY <1>2, <1>4, <1>6, <1>7, <1>9, <1>10, <1>11, <1>12 DEF StepTo
<1> QED BY <1>13, StepOfOne

\* A multiple call breaks off.
LEMMA BreakMultipleStep ==
    ASSUME Inv, UNCHANGED pooled, NEW d \in Calls, NEW f \in Functions,
           BreakMultiple(d, f)
    PROVE  Inv'
<1> DEFINE k == connection[d]
           s == Own(d)
           done == By(d, committed)
           made == By(d, issued)
           fn2 == WithPc(d, f, "threw")
<1>1. /\ kind[d] # "single" /\ CanStart(d, f) /\ UNCHANGED databaseVars
      /\ stage' = [stage EXCEPT ![d] = "broken"] /\ PcBecomes(d, f, "threw")
      /\ UNCHANGED <<kind, connection, flags, idle>>
  BY DEF BreakMultiple, Multiple, InSequence, InParallel, PcBecomes
<1>2. /\ TypeOK /\ k \in Connections /\ ProgressOK(function[d][f])
      /\ flags[d] \in SUBSET Flags /\ kind[d] \in Kinds
      /\ stage[d] \in {"running", "broken"}
      /\ s \in Sessions /\ done \in SUBSET Writes /\ made \in SUBSET Writes
      /\ done \subseteq made /\ s.writes \subseteq made
      /\ Changed(k, d, s, done, made)
  BY <1>1, FunctionFacts
<1>3. /\ fn2 \in [Functions -> Progress]
      /\ function' = [function EXCEPT ![d] = fn2]
      /\ fn2[f].pc = "threw" /\ ProgressOK(fn2[f])
      /\ \A e \in Functions \ {f} : fn2[e] = function[d][e]
  BY <1>1, <1>2, PcChanges
<1> HIDE DEF fn2, s, done
<1>4. RequestOK(kind[d], "broken", k, fn2, made)
  <2>1. RequestOK(kind[d], stage[d], k, function[d], made)
    BY DEF Inv, RequestsOK
  <2> HIDE DEF made
  <2> QED BY <1>1, <1>2, <1>3, <2>1 DEF RequestOK
<1> HIDE DEF made
<1>5. /\ kind' = [kind EXCEPT ![d] = kind[d]] /\ connection' = [connection EXCEPT ![d] = k]
      /\ flags' = [flags EXCEPT ![d] = flags[d]] /\ idle' = idle
  BY <1>1, <1>2 DEF TypeOK
<1>6. StepTo(d, k, s, done, made, kind[d], "broken", k, flags[d], fn2)
  BY <1>1, <1>2, <1>3, <1>4, <1>5 DEF StepTo
<1> QED BY <1>6, StepOfOne

\* A multiple call ends, and keeps its connection.
LEMMA EndMultipleStep ==
    ASSUME Inv, UNCHANGED pooled, NEW d \in Calls, EndMultiple(d)
    PROVE  Inv'
<1> DEFINE k == connection[d]
           s == Own(d)
           done == By(d, committed)
           made == By(d, issued)
<1>1. /\ kind[d] # "single" /\ stage[d] = "running" /\ AllAnswered(d)
      /\ stage' = [stage EXCEPT ![d] = "ended"] /\ flags' = [flags EXCEPT ![d] = {}]
      /\ UNCHANGED <<kind, connection, function, idle>>
      /\ Commit(k) \/ Rollback(k) \/ UNCHANGED databaseVars
  BY DEF EndMultiple, Multiple, InSequence, InParallel
<1>2. RequestOK(kind[d], stage[d], k, function[d], made)
  BY DEF Inv, RequestsOK
<1>3. k # NoConnection /\ kind[d] \in Kinds
  BY <1>1, <1>2 DEF RequestOK
<1>4. /\ TypeOK /\ k \in Connections
      /\ s \in Sessions /\ done \in SUBSET Writes /\ made \in SUBSET Writes
      /\ done \subseteq made /\ s.writes \subseteq made
      /\ UNCHANGED databaseVars => Changed(k, d, s, done, made)
      /\ Commit(k) => Changed(k, d, Closed, CommittedDone(s, done), made)
      /\ Rollback(k) => Changed(k, d, Closed, done, made)
  BY <1>3, ConnectionFacts
<1>5. /\ Closed \in Sessions /\ Closed.writes \subseteq made
      /\ CommittedDone(s, done) \in SUBSET Writes /\ CommittedDone(s, done) \subseteq made
  BY <1>4 DEF Closed, CommittedDone, Sessions
<1> HIDE DEF s, done, made
<1>6. PICK s2, done2 : /\ Changed(k, d, s2, done2, made)
                       /\ s2 \in Sessions /\ s2.writes \subseteq made
                       /\ done2 \in SUBSET Writes /\ done2 \subseteq made
  BY <1>1, <1>4, <1>5
<1>7. RequestOK(kind[d], "ended", k, function[d], made)
  <2>1. \A f \in Functions : function[d][f].pc \notin {"body", "operation"}
    BY <1>1 DEF AllAnswered
  <2> QED BY <1>1, <1>2, <2>1 DEF RequestOK
<1>8. /\ kind' = [kind EXCEPT ![d] = kind[d]] /\ connection' = [connection EXCEPT ![d] = k]
      /\ function' = [function EXCEPT ![d] = function[d]] /\ idle' = idle
      /\ function[d] \in [Functions -> Progress]
  BY <1>1, <1>4 DEF TypeOK
<1>9. StepTo(d, k, s2, done2, made, kind[d], "ended", k, {}, function[d])
  BY <1>1, <1>3, <1>4, <1>6, <1>7, <1>8 DEF StepTo
<1> QED BY <1>9, StepOfOne

\* A request that has no connection yet has written nothing.
LEMMA NothingYet ==
    ASSUME Inv, NEW d \in Calls, stage[d] \in {"new", "reserving"}
    PROVE  /\ TypeOK /\ connection[d] = NoConnection
           /\ function[d] \in [Functions -> Progress]
           /\ \A f \in Functions : function[d][f] = NotStarted
           /\ By(d, issued) = {} /\ By(d, committed) = {}
           /\ flags[d] \in SUBSET Flags
           /\ stage[d] = "reserving" => kind[d] \in Kinds
           /\ Closed \in Sessions /\ Closed.writes = {}
           /\ AnswerOK(NotStarted, {}, {}) /\ ProgressOK(NotStarted)
           /\ AnswerOK([NotStarted EXCEPT !.pc = "error"], {}, {})
           /\ NotStarted.pc = "none"
<1>1. TypeOK /\ SessionsOK
  BY DEF Inv
<1>2. RequestOK(kind[d], stage[d], connection[d], function[d], By(d, issued))
  BY DEF Inv, RequestsOK
<1>3. By(d, committed) \subseteq By(d, issued)
  BY <1>1 DEF SessionsOK, By
<1>4. Closed \in Sessions /\ Closed.writes = {} /\ Closed.tx # "aborted"
  BY DEF Closed, Sessions
<1>5. /\ AnswerOK(NotStarted, {}, {}) /\ ProgressOK(NotStarted)
      /\ AnswerOK([NotStarted EXCEPT !.pc = "error"], {}, {})
  BY <1>4, BeginningOK
<1>6. NotStarted.pc = "none"
  BY DEF NotStarted
<1> HIDE DEF NotStarted
<1> QED BY <1>1, <1>2, <1>3, <1>4, <1>5, <1>6 DEF RequestOK, TypeOK

\* A step that leaves the database alone, of a request that has no connection.
LEMMA NoConnectionChanges ==
    ASSUME TypeOK, NEW d \in Calls, UNCHANGED databaseVars,
           By(d, issued) = {}, By(d, committed) = {}
    PROVE  Changed(NoConnection, d, Closed, {}, {})
<1>1. session' = session /\ session = [session EXCEPT ![NoConnection] = Closed]
  BY ConnectionAssumption DEF TypeOK, databaseVars
<1> QED BY <1>1 DEF Changed, databaseVars

\* A request arrives.
LEMMA ArriveStep ==
    ASSUME Inv, UNCHANGED pooled, NEW d \in Calls, Arrive(d)
    PROVE  Inv'
<1>1. /\ stage[d] = "new" /\ stage' = [stage EXCEPT ![d] = "reserving"]
      /\ UNCHANGED <<connection, flags, function, idle>> /\ UNCHANGED databaseVars
  BY DEF Arrive
<1>2. PICK kd \in Kinds : kind' = [kind EXCEPT ![d] = kd]
  BY DEF Arrive, Kinds
<1>3. /\ TypeOK /\ connection[d] = NoConnection
      /\ function[d] \in [Functions -> Progress]
      /\ \A f \in Functions : function[d][f] = NotStarted
      /\ By(d, issued) = {} /\ By(d, committed) = {}
      /\ flags[d] \in SUBSET Flags
      /\ Closed \in Sessions /\ Closed.writes = {}
      /\ AnswerOK(NotStarted, {}, {}) /\ ProgressOK(NotStarted) /\ NotStarted.pc = "none"
  BY <1>1, NothingYet
<1>4. Changed(NoConnection, d, Closed, {}, {})
  BY <1>1, <1>3, NoConnectionChanges
<1>5. RequestOK(kd, "reserving", NoConnection, function[d], {})
  BY <1>3 DEF RequestOK, Functions
<1>6. /\ connection' = [connection EXCEPT ![d] = NoConnection]
      /\ flags' = [flags EXCEPT ![d] = flags[d]]
      /\ function' = [function EXCEPT ![d] = function[d]] /\ idle' = idle
  BY <1>1, <1>3 DEF TypeOK
<1>7. function[d][1] = NotStarted
  BY <1>3 DEF Functions
<1>8. StepTo(d, NoConnection, Closed, {}, {}, kd, "reserving", NoConnection, flags[d],
             function[d])
  BY <1>1, <1>2, <1>3, <1>4, <1>5, <1>6, <1>7 DEF StepTo
<1> QED BY <1>8, StepOfOne

\* There is no connection for it.
LEMMA ReserveFailsStep ==
    ASSUME Inv, UNCHANGED pooled, NEW d \in Calls, ReserveFails(d)
    PROVE  Inv'
<1> DEFINE fn2 == IF kind[d] = "single" THEN WithPc(d, 1, "error") ELSE function[d]
<1>1. /\ stage[d] = "reserving" /\ stage' = [stage EXCEPT ![d] = "ended"]
      /\ UNCHANGED <<kind, connection, flags, idle>> /\ UNCHANGED databaseVars
      /\ function' = [function EXCEPT ![d][1].pc = IF kind[d] = "single" THEN "error" ELSE @]
  BY DEF ReserveFails
<1>2. /\ TypeOK /\ connection[d] = NoConnection
      /\ function[d] \in [Functions -> Progress]
      /\ \A f \in Functions : function[d][f] = NotStarted
      /\ By(d, issued) = {} /\ By(d, committed) = {}
      /\ flags[d] \in SUBSET Flags /\ kind[d] \in Kinds
      /\ Closed \in Sessions /\ Closed.writes = {}
      /\ AnswerOK([NotStarted EXCEPT !.pc = "error"], {}, {})
      /\ ProgressOK(NotStarted) /\ NotStarted.pc = "none"
  BY <1>1, NothingYet
<1>3. Changed(NoConnection, d, Closed, {}, {})
  BY <1>1, <1>2, NoConnectionChanges
<1>4. /\ fn2 \in [Functions -> Progress] /\ function' = [function EXCEPT ![d] = fn2]
      /\ RequestOK(kind[d], "ended", NoConnection, fn2, {})
      /\ kind[d] = "single" => AnswerOK(fn2[1], {}, {})
  <2>1. CASE kind[d] = "single"
    <3>1. PcBecomes(d, 1, "error") /\ 1 \in Functions /\ ProgressOK(function[d][1])
      BY <1>1, <1>2, <2>1 DEF PcBecomes, Functions
    <3> DEFINE h == WithPc(d, 1, "error")
    <3>0. /\ h \in [Functions -> Progress] /\ function' = [function EXCEPT ![d] = h]
          /\ h[1] = [function[d][1] EXCEPT !.pc = "error"] /\ h[1].pc = "error"
          /\ \A e \in Functions \ {1} : h[e] = function[d][e]
          /\ ProgressOK(h[1])
      <4>1. TypeOK /\ 1 \in Functions /\ ProgressOK(function[d][1])
        BY <1>2, <3>1
      <4>2. PcBecomes(d, 1, "error")
        BY <3>1
      <4> HIDE DEF fn2
      <4> QED BY <4>1, <4>2, PcChanges
    <3>4. fn2 = h
      BY <2>1
    <3> HIDE DEF fn2, h
    <3>2. /\ fn2 \in [Functions -> Progress] /\ function' = [function EXCEPT ![d] = fn2]
          /\ fn2[1] = [function[d][1] EXCEPT !.pc = "error"] /\ fn2[1].pc = "error"
          /\ \A e \in Functions \ {1} : fn2[e] = function[d][e]
          /\ ProgressOK(fn2[1])
      BY <3>0, <3>4
    <3>3. fn2[1] = [NotStarted EXCEPT !.pc = "error"] /\ fn2[2] = NotStarted
      BY <1>2, <3>2 DEF Functions
    <3> QED BY <1>2, <2>1, <3>2, <3>3 DEF RequestOK, Functions, Kinds
  <2>2. CASE kind[d] # "single"
    <3>1. function' = [function EXCEPT ![d] = function[d]] /\ fn2 = function[d]
      <4> DEFINE g == function[d][1]
      <4>1. /\ function \in [Calls -> [Functions -> Progress]] /\ 1 \in Functions
            /\ g \in Progress
        BY <1>2 DEF TypeOK, Functions
      <4>2. function' = [function EXCEPT ![d][1] = [g EXCEPT !.pc = g.pc]]
        BY <1>1, <2>2, <4>1
      <4>3. [g EXCEPT !.pc = g.pc] = g
        BY <4>1 DEF Progress
      <4>4. function' = [function EXCEPT ![d][1] = g]
        BY <4>2, <4>3
      <4>5. [function EXCEPT ![d][1] = g] = function
        BY <4>1
      <4>6. function = [function EXCEPT ![d] = function[d]]
        BY <4>1
      <4> QED BY <2>2, <4>4, <4>5, <4>6
    <3> HIDE DEF fn2
    <3> QED BY <1>2, <2>2, <3>1 DEF RequestOK, Functions
  <2> QED BY <2>1, <2>2
<1> HIDE DEF fn2
<1>5. /\ connection' = [connection EXCEPT ![d] = NoConnection]
      /\ flags' = [flags EXCEPT ![d] = flags[d]]
      /\ kind' = [kind EXCEPT ![d] = kind[d]] /\ idle' = idle
  BY <1>1, <1>2 DEF TypeOK
<1>6. StepTo(d, NoConnection, Closed, {}, {}, kind[d], "ended", NoConnection, flags[d], fn2)
  BY <1>1, <1>2, <1>3, <1>4, <1>5 DEF StepTo
<1> QED BY <1>6, StepOfOne

\* Nothing waits on a connection nobody has.
LEMMA IdleFacts ==
    ASSUME Inv, NEW d \in Calls, stage[d] = "reserving", NEW k \in idle
    PROVE  LET s == session[k]
           IN /\ k \in Connections /\ k # NoConnection
              /\ s \in Sessions /\ s.writes = {} /\ s.tx # "aborted"
              /\ UNCHANGED databaseVars => Changed(k, d, s, {}, {})
              /\ BeginTransaction(k) => Changed(k, d, BegunSession(s), {}, {})
              /\ Rollback(k) => Changed(k, d, Closed, {}, {})
<1>1. TypeOK /\ SessionsOK /\ IdleConnectionsHoldNoWrites
  BY DEF Inv
<1>2. k \in Connections /\ k # NoConnection /\ session[k] \in Sessions
  BY <1>1, ConnectionAssumption DEF TypeOK, Sessions
<1>3. session[k].writes = {} /\ session[k].tx # "aborted"
  BY <1>1, <1>2 DEF IdleConnectionsHoldNoWrites
<1>4. By(d, issued) = {} /\ By(d, committed) = {}
  BY NothingYet
<1>5. BegunDone(session[k], {}) = {}
  BY <1>3 DEF BegunDone
<1> QED BY <1>1, <1>2, <1>3, <1>4, <1>5, DatabaseFacts

\* It gets a connection.
LEMMA ReserveStep ==
    ASSUME Inv, UNCHANGED pooled, NEW d \in Calls, Reserve(d)
    PROVE  Inv'
<1> DEFINE fl2 == CASE kind[d] = "single" -> {}
                    [] kind[d] \in InsideTransaction ->
                          {"multipleConnection", "multipleTransaction", "globalTransaction"}
                    [] OTHER -> {"multipleConnection", "multipleTransaction"}
<1>1. /\ stage[d] = "reserving" /\ stage' = [stage EXCEPT ![d] = "running"]
      /\ UNCHANGED <<kind, function>> /\ flags' = [flags EXCEPT ![d] = fl2]
  BY DEF Reserve
<1>2. PICK k \in idle :
        /\ idle' = idle \ {k} /\ connection' = [connection EXCEPT ![d] = k]
        /\ IF kind[d] \in InsideTransaction THEN BeginTransaction(k)
           ELSE UNCHANGED databaseVars
  BY DEF Reserve
<1>3. /\ TypeOK /\ connection[d] = NoConnection
      /\ function[d] \in [Functions -> Progress]
      /\ \A f \in Functions : function[d][f] = NotStarted
      /\ kind[d] \in Kinds /\ AnswerOK(NotStarted, {}, {})
      /\ ProgressOK(NotStarted) /\ NotStarted.pc = "none"
  BY <1>1, NothingYet
<1> DEFINE s == session[k]
<1>4. /\ k \in Connections /\ k # NoConnection
      /\ s \in Sessions /\ s.writes = {} /\ s.tx # "aborted"
      /\ UNCHANGED databaseVars => Changed(k, d, s, {}, {})
      /\ BeginTransaction(k) => Changed(k, d, BegunSession(s), {}, {})
  BY <1>1, IdleFacts
<1>5. fl2 \in SUBSET Flags /\ (kind[d] = "single" => fl2 = {})
  <2>1. /\ {"multipleConnection", "multipleTransaction", "globalTransaction"} \in SUBSET Flags
        /\ {"multipleConnection", "multipleTransaction"} \in SUBSET Flags
    BY DEF Flags
  <2>2. CASE kind[d] = "single"
    BY <2>2 DEF InsideTransaction
  <2>3. CASE kind[d] # "single" /\ kind[d] \in InsideTransaction
    BY <2>1, <2>3
  <2>4. CASE kind[d] # "single" /\ kind[d] \notin InsideTransaction
    BY <2>1, <2>4
  <2> QED BY <2>2, <2>3, <2>4
<1> HIDE DEF fl2, s
<1>6. CallOK(NotStarted, {}, s, {}, {})
  BY <1>4, BeginningOK
<1>7. RequestOK(kind[d], "running", k, function[d], {})
  BY <1>3, <1>4 DEF RequestOK, Functions
<1>8. /\ kind' = [kind EXCEPT ![d] = kind[d]]
      /\ function' = [function EXCEPT ![d] = function[d]]
      /\ function[d][1] = NotStarted
  BY <1>1, <1>3 DEF TypeOK, Functions
<1>9. PICK s2 \in Sessions : /\ Changed(k, d, s2, {}, {}) /\ s2.writes = {}
                             /\ kind[d] = "single" => s2 = s
  <2>1. CASE kind[d] \in InsideTransaction
    <3>1. BegunSession(s) \in Sessions /\ BegunSession(s).writes = {}
      BY <1>4 DEF BegunSession, Opened, Sessions
    <3>2. kind[d] # "single"
      BY <2>1 DEF InsideTransaction
    <3> QED BY <1>2, <1>4, <2>1, <3>1, <3>2
  <2>2. CASE kind[d] \notin InsideTransaction
    BY <1>2, <1>4, <2>2
  <2> QED BY <2>1, <2>2
<1>10. StepTo(d, k, s2, {}, {}, kind[d], "running", k, fl2, function[d])
  BY <1>1, <1>2, <1>3, <1>4, <1>5, <1>6, <1>7, <1>8, <1>9 DEF StepTo
<1> QED BY <1>10, StepOfOne

\* Its BEGIN fails.
LEMMA BeginMultipleFailsStep ==
    ASSUME Inv, UNCHANGED pooled, NEW d \in Calls, BeginMultipleFails(d)
    PROVE  Inv'
<1>1. /\ stage[d] = "reserving" /\ stage' = [stage EXCEPT ![d] = "ended"]
      /\ UNCHANGED <<kind, flags, function>> /\ kind[d] # "single"
  BY DEF BeginMultipleFails, InsideTransaction
<1>2. PICK k \in idle :
        /\ idle' = idle \ {k} /\ connection' = [connection EXCEPT ![d] = k] /\ Rollback(k)
  BY DEF BeginMultipleFails
<1>3. /\ TypeOK /\ connection[d] = NoConnection
      /\ function[d] \in [Functions -> Progress] /\ flags[d] \in SUBSET Flags
      /\ \A f \in Functions : function[d][f] = NotStarted
      /\ kind[d] \in Kinds /\ Closed \in Sessions /\ Closed.writes = {}
      /\ ProgressOK(NotStarted) /\ NotStarted.pc = "none"
  BY <1>1, NothingYet
<1>4. /\ k \in Connections /\ k # NoConnection /\ Changed(k, d, Closed, {}, {})
  BY <1>1, <1>2, IdleFacts
<1>5. RequestOK(kind[d], "ended", k, function[d], {})
  BY <1>1, <1>3, <1>4 DEF RequestOK, Functions
<1>6. /\ kind' = [kind EXCEPT ![d] = kind[d]] /\ flags' = [flags EXCEPT ![d] = flags[d]]
      /\ function' = [function EXCEPT ![d] = function[d]]
  BY <1>1, <1>3 DEF TypeOK
<1>7. StepTo(d, k, Closed, {}, {}, kind[d], "ended", k, flags[d], function[d])
  BY <1>1, <1>2, <1>3, <1>4, <1>5, <1>6 DEF StepTo
<1> QED BY <1>7, StepOfOne

-----------------------------------------------------------------------------
(* The theorems.                                                           *)

\* Nothing has been asked for at first, and all connections are free.
LEMMA InitInv == Init => Inv
<1> SUFFICES ASSUME Init PROVE Inv
  OBVIOUS
<1> USE DEF Init
<1>1. /\ ProgressOK(NotStarted) /\ NotStarted \in Progress /\ NotStarted.pc = "none"
  BY BoundsAssumption DEF ProgressOK, NotStarted, Progress
<1>2. TypeOK
  BY <1>1 DEF TypeOK, Closed, Kinds
<1>3. ConnectionsAreExclusive
  BY ConnectionAssumption DEF ConnectionsAreExclusive
<1>4. IdleConnectionsHoldNoWrites
  BY DEF IdleConnectionsHoldNoWrites, Closed
<1>5. RequestsOK
  BY <1>1 DEF RequestsOK, RequestOK, By, Kinds, Multiple, InSequence, InParallel
<1>6. SessionsOK
  BY DEF SessionsOK, Closed
<1>7. SinglesOK
  BY DEF SinglesOK
<1> QED BY <1>2, <1>3, <1>4, <1>5, <1>6, <1>7 DEF Inv

\* A step in which nothing changes.
LEMMA StutterInv == Inv /\ UNCHANGED vars => Inv'
<1> SUFFICES ASSUME Inv, UNCHANGED vars PROVE Inv'
  OBVIOUS
<1> USE DEF vars, requestVars, databaseVars, Inv
<1>1. TypeOK'
  BY DEF TypeOK
<1>2. ConnectionsAreExclusive' /\ IdleConnectionsHoldNoWrites'
  BY DEF ConnectionsAreExclusive, IdleConnectionsHoldNoWrites
<1>3. RequestsOK' /\ SessionsOK'
  BY DEF RequestsOK, SessionsOK
<1>4. SinglesOK'
  BY DEF SinglesOK, SingleOK, Own
<1> QED BY <1>1, <1>2, <1>3, <1>4

\* Every step of a call, and every step that changes nothing, keeps the invariant.
LEMMA StepInv == Inv /\ [Next]_vars => Inv'
<1> SUFFICES ASSUME Inv, [Next]_vars PROVE Inv'
  OBVIOUS
<1>1. CASE UNCHANGED vars
  BY <1>1, StutterInv
<1>2. CASE Next
  <2>1. UNCHANGED pooled
    BY <1>2 DEF Next
  <2>2. PICK c \in Calls :
          \/ Arrive(c) \/ Reserve(c) \/ ReserveFails(c) \/ BeginMultipleFails(c)
          \/ \E f \in Functions : FunctionStep(c, f)
          \/ EndMultiple(c)
          \/ \E f \in Functions, p \in Parts : LateStatement(c, f, p)
    BY <1>2 DEF Next, RequestStep
  <2>3. ASSUME NEW f \in Functions, FunctionStep(c, f) PROVE Inv'
    <3>1. CASE StartFunction(c, f) BY <2>1, <3>1, StartFunctionStep
    <3>2. CASE StartOperation(c, f) BY <2>1, <3>2, StartOperationStep
    <3>3. CASE \E p \in Parts : Statement(c, f, p) BY <2>1, <3>3, StatementStep
    <3>4. CASE OperationSucceeds(c, f) BY <2>1, <3>4, OperationSucceedsStep
    <3>5. CASE OperationFails(c, f) BY <2>1, <3>5, OperationFailsStep
    <3>6. CASE ReadAbandonsTransaction(c, f) BY <2>1, <3>6, ReadAbandonsStep
    <3>7. CASE EnterTransaction(c, f) BY <2>1, <3>7, EnterTransactionStep
    <3>8. CASE EnterFails(c, f) \/ CommitFails(c, f) BY <2>1, <3>8, FailsStep
    <3>9. CASE LeaveTransaction(c, f) BY <2>1, <3>9, LeaveTransactionStep
    <3>10. CASE ReturnSingle(c, f) BY <2>1, <3>10, ReturnSingleStep
    <3>11. CASE ThrowInSingle(c, f) BY <2>1, <3>11, ThrowInSingleStep
    <3>12. CASE AnswerInMultiple(c, f) BY <2>1, <3>12, AnswerInMultipleStep
    <3>13. CASE BreakMultiple(c, f) BY <2>1, <3>13, BreakMultipleStep
    <3> QED BY <2>3, <3>1, <3>2, <3>3, <3>4, <3>5, <3>6, <3>7, <3>8, <3>9, <3>10,
               <3>11, <3>12, <3>13 DEF FunctionStep
  <2>4. CASE Arrive(c) BY <2>1, <2>4, ArriveStep
  <2>5. CASE Reserve(c) BY <2>1, <2>5, ReserveStep
  <2>6. CASE ReserveFails(c) BY <2>1, <2>6, ReserveFailsStep
  <2>7. CASE BeginMultipleFails(c) BY <2>1, <2>7, BeginMultipleFailsStep
  <2>8. CASE EndMultiple(c) BY <2>1, <2>8, EndMultipleStep
  <2>9. CASE \E f \in Functions, p \in Parts : LateStatement(c, f, p)
    BY <2>1, <2>9, LateStatementStep
  <2> QED BY <2>2, <2>3, <2>4, <2>5, <2>6, <2>7, <2>8, <2>9
<1> QED BY <1>1, <1>2

\* The inductive invariant holds in every reachable state.
THEOREM Invariance == Spec => []Inv
<1>1. Init => Inv
  BY InitInv
<1>2. Inv /\ [Next]_vars => Inv'
  BY StepInv
<1> QED BY <1>1, <1>2, PTL DEF Spec

\* The variables hold values of their types.
THEOREM TypeCorrectness == Spec => []TypeOK
<1>1. Inv => TypeOK
  BY DEF Inv
<1> QED BY <1>1, Invariance, PTL

\* A connection belongs to one request or to the pool, whatever multiple calls,
\* exceptions and failures do with theirs (tryReserveDbConnectionFromPool).
THEOREM ConnectionsStayExclusive == Spec => []ConnectionsAreExclusive
<1>1. Inv => ConnectionsAreExclusive
  BY DEF Inv
<1> QED BY <1>1, Invariance, PTL

\* No connection goes back to the pool with a write that waits for a COMMIT
\* (tryReleaseDbConnectionBackToPool).
THEOREM IdleConnectionsAreClean == Spec => []IdleConnectionsHoldNoWrites
<1>1. Inv => IdleConnectionsHoldNoWrites
  BY DEF Inv
<1> QED BY <1>1, Invariance, PTL

\* The properties of a single call follow from what it answers.
LEMMA AnswersImply ==
    ASSUME Inv
    PROVE  AllOrNothing /\ ErrorsLeaveNothing /\ SuccessIsDurable
<1>1. ASSUME NEW c \in Calls, kind[c] = "single"
      PROVE  AnswerOK(function[c][1], By(c, committed), By(c, issued))
  BY <1>1 DEF Inv, SinglesOK, SingleOK
<1>2. AllOrNothing
  <2> SUFFICES ASSUME NEW c \in Calls, NEW b \in 1 .. MaxBlocks, kind[c] = "single",
                      ~function[c][1].nested
               PROVE  \/ WritesIn(c, b) \subseteq committed
                      \/ WritesIn(c, b) \cap committed = {}
    BY DEF AllOrNothing
  <2>1. \/ InBlock(By(c, issued), b) \subseteq By(c, committed)
        \/ InBlock(By(c, issued), b) \cap By(c, committed) = {}
    BY <1>1 DEF AnswerOK
  <2> QED BY <2>1 DEF WritesIn, InBlock, By
<1>3. ErrorsLeaveNothing
  <2> SUFFICES ASSUME NEW c \in Calls, kind[c] = "single", function[c][1].pc = "error",
                      UnitsOfWork(c) <= 1, ~function[c][1].nested,
                      ~function[c][1].remote
               PROVE  \A w \in committed : w.call = c => w.late
    BY DEF ErrorsLeaveNothing
  <2>1. function[c][1] \in Progress
    BY DEF Inv, TypeOK, Functions
  <2>2. Uncommitted(function[c][1])
    BY <1>1, <2>1 DEF AnswerOK, Uncommitted, UnitsOfWork, Progress
  <2> QED BY <1>1, <2>2 DEF AnswerOK, By
<1>4. SuccessIsDurable
  <2> SUFFICES ASSUME NEW c \in Calls, kind[c] = "single", function[c][1].pc = "ok"
               PROVE  \A w \in issued : w.call = c => w \in committed
    BY DEF SuccessIsDurable
  <2> QED BY <1>1 DEF AnswerOK, By
<1> QED BY <1>2, <1>3, <1>4

\* What a function did in one executeInsideTransaction is committed as a whole or not
\* at all (executeInsideTransaction).
THEOREM TransactionsAreAtomic == Spec => []AllOrNothing
<1>1. Inv => AllOrNothing
  BY AnswersImply
<1> QED BY <1>1, Invariance, PTL

\* An error of a call that was one unit of work means that it changed nothing
\* (tryExecuteServiceMethod).
THEOREM FailedCallsLeaveNothing == Spec => []ErrorsLeaveNothing
<1>1. Inv => ErrorsLeaveNothing
  BY AnswersImply
<1> QED BY <1>1, Invariance, PTL

\* A call that answered without an error has committed all it wrote
\* (tryCommitLocalTransactionIfNeeded, executeInsideTransaction).
THEOREM SuccessfulCallsAreDurable == Spec => []SuccessIsDurable
<1>1. Inv => SuccessIsDurable
  BY AnswersImply
<1> QED BY <1>1, Invariance, PTL
=============================================================================
