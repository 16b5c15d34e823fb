------------------------- MODULE AsyncLoggerProofs -------------------------
(* Proofs about AsyncLogger for any threads that log, batch size and number   *)
(* of records.                                                                *)
EXTENDS AsyncLogger, SequenceTheorems, TLAPS

Records == Producers \X Nat

LogTypes ==
    /\ stream \in {"good", "bad"}
    /\ queue \in Seq(Records) /\ pushed \in Seq(Records)
    /\ buffer \in Seq(Records) /\ written \in Seq(Records) /\ lost \in Seq(Records)
    /\ count \in [Producers -> Nat]

\* The worker drains only after the stop, which comes after the last push.
StoppedLast ==
    /\ ~running => finished = Producers
    /\ worker \in {"drain", "gone"} => ~running
    /\ worker = "gone" => queue = <<>> /\ buffer = <<>>

\* The inductive invariant.
LogInv == LogTypes /\ NothingLostOrReordered /\ StoppedLast

----------------------------------------------------------------------------
(* Moving the first record of a queue to the end of what comes before it      *)
(* leaves their concatenation as it is.                                       *)
LEMMA HeadMoves ==
    ASSUME NEW S, NEW b \in Seq(S), NEW q \in Seq(S), q # <<>>
    PROVE  Append(b, Head(q)) \o Tail(q) = b \o q
<1>1. Head(q) \in S /\ Tail(q) \in Seq(S)
  BY HeadTailProperties
<1>2. <<Head(q)>> \in Seq(S) /\ Append(b, Head(q)) = b \o <<Head(q)>>
  BY <1>1
<1>3. <<Head(q)>> \o Tail(q) = q
  BY <1>1
<1> QED BY <1>1, <1>2, <1>3, ConcatAssociative

(* What is appended to the queue is appended to the concatenation.            *)
LEMMA AppendMoves ==
    ASSUME NEW S, NEW a \in Seq(S), NEW q \in Seq(S), NEW r \in S
    PROVE  a \o Append(q, r) = Append(a \o q, r)
<1>1. <<r>> \in Seq(S) /\ a \o q \in Seq(S)
  BY ConcatProperties
<1>2. Append(q, r) = q \o <<r>> /\ Append(a \o q, r) = (a \o q) \o <<r>>
  BY <1>1
<1> QED BY <1>1, <1>2, ConcatAssociative

\* What was taken from the queue, in order.
Taken == (written \o buffer) \o lost

(* Three sequences of records are concatenated from either end.               *)
LEMMA ConcatMoves ==
    \A a, b, c \in Seq(Records) : (a \o b) \o c = a \o (b \o c)
BY ConcatAssociative

(* The initial states satisfy the invariant.                                  *)
LEMMA LogInvInit == LogInit => LogInv
<1> SUFFICES ASSUME LogInit PROVE LogInv
  OBVIOUS
<1>1. LogTypes /\ StoppedLast
  BY EmptySeq DEF LogInit, LogTypes, StoppedLast
<1>2. NothingLostOrReordered
  BY DEF LogInit, NothingLostOrReordered
<1> QED BY <1>1, <1>2 DEF LogInv

(* A record that is put into the stream, and one that the stream fails on,    *)
(* goes to the end of what was taken from the queue before it.                *)
LEMMA PutTakes ==
    ASSUME LogTypes, NothingLostOrReordered, NEW record \in Records, NEW writes \in BOOLEAN,
           Put(record, writes)
    PROVE  /\ Taken' = Append(Taken, record)
           /\ buffer' \in Seq(Records) /\ written' \in Seq(Records) /\ lost' \in Seq(Records)
           /\ stream' \in {"good", "bad"}
           /\ stream' = "good" => lost' = <<>>
           /\ stream' = "bad" => buffer' = <<>>
<1>1. /\ buffer \in Seq(Records) /\ written \in Seq(Records) /\ lost \in Seq(Records)
      /\ <<record>> \in Seq(Records) /\ Append(buffer, record) \in Seq(Records)
      /\ written \o buffer \in Seq(Records)
  BY ConcatProperties DEF LogTypes
<1>2. CASE stream = "good" /\ writes
  <2>1. /\ buffer' = Append(buffer, record) /\ written' = written /\ lost' = <<>> /\ lost = <<>>
        /\ stream' = "good"
    BY <1>2 DEF Put, fileVars, NothingLostOrReordered
  <2>2. written \o Append(buffer, record) = Append(written \o buffer, record)
    BY <1>1, AppendMoves
  <2>3. /\ Append(written \o buffer, record) \in Seq(Records)
        /\ Taken = written \o buffer
    BY <1>1, <2>1, ConcatEmptySeq DEF Taken
  <2>4. Taken' = Append(written \o buffer, record)
    BY <2>1, <2>2, <2>3, ConcatEmptySeq DEF Taken
  <2> QED BY <1>1, <2>1, <2>3, <2>4
<1>3. CASE ~(stream = "good" /\ writes)
  <2>1. /\ buffer' = <<>> /\ written' = written /\ lost' = lost \o Append(buffer, record)
        /\ stream' = "bad"
    BY <1>3 DEF Put, Fail
  <2>2. lost = <<>> \/ buffer = <<>>
    BY DEF NothingLostOrReordered, LogTypes
  <2>3. lost \o Append(buffer, record) = Append(lost \o buffer, record)
        /\ lost \o buffer = buffer \o lost
        /\ lost \o buffer \in Seq(Records)
    <3>1. lost \o Append(buffer, record) = Append(lost \o buffer, record)
      BY <1>1, AppendMoves
    <3>2. lost \o buffer = buffer \o lost
      BY <1>1, <2>2, ConcatEmptySeq
    <3> QED BY <1>1, <3>1, <3>2, ConcatProperties
  <2>4. Taken' = written \o Append(buffer \o lost, record)
    BY <1>1, <2>1, <2>3, ConcatEmptySeq DEF Taken
  <2>5. written \o Append(buffer \o lost, record) = Append(written \o (buffer \o lost), record)
    <3> DEFINE held == buffer \o lost
    <3>1. held \in Seq(Records) /\ written \in Seq(Records) /\ record \in Records
      BY <1>1, <2>3
    <3> HIDE DEF held
    <3>2. written \o Append(held, record) = Append(written \o held, record)
      BY <3>1, AppendMoves
    <3> QED BY <3>2 DEF held
  <2>6. written \o (buffer \o lost) = Taken
    <3>1. /\ written \in Seq(Records) /\ buffer \in Seq(Records) /\ lost \in Seq(Records)
      BY <1>1
    <3>2. (written \o buffer) \o lost = written \o (buffer \o lost)
      BY <3>1, ConcatMoves
    <3> QED BY <3>2, Zenon DEF Taken
  <2>7. lost' \in Seq(Records)
    BY <1>1, <2>1, ConcatProperties
  <2> QED BY <1>1, <2>1, <2>4, <2>5, <2>6, <2>7
<1> QED BY <1>2, <1>3

(* A flush, and one that fails, keeps what was taken from the queue.          *)
LEMMA FlushKeeps ==
    ASSUME LogTypes, NothingLostOrReordered, NEW writes \in BOOLEAN, Flush(writes)
    PROVE  /\ Taken' = Taken
           /\ buffer' = <<>> /\ written' \in Seq(Records) /\ lost' \in Seq(Records)
           /\ stream' \in {"good", "bad"}
           /\ stream' = "good" => lost' = <<>>
<1>1. /\ buffer \in Seq(Records) /\ written \in Seq(Records) /\ lost \in Seq(Records)
      /\ written \o buffer \in Seq(Records) /\ lost \o buffer \in Seq(Records)
  BY ConcatProperties DEF LogTypes
<1>2. CASE stream = "good" /\ (writes \/ buffer = <<>>)
  <2>1. /\ buffer' = <<>> /\ written' = written \o buffer /\ lost' = lost /\ stream' = "good"
        /\ lost = <<>>
    BY <1>2 DEF Flush, NothingLostOrReordered
  <2>2. Taken = written \o buffer /\ Taken' = written \o buffer
    BY <1>1, <2>1, ConcatEmptySeq DEF Taken
  <2> QED BY <1>1, <2>1, <2>2
<1>3. CASE ~(stream = "good" /\ (writes \/ buffer = <<>>))
  <2>1. buffer' = <<>> /\ written' = written /\ lost' = lost \o buffer /\ stream' = "bad"
    BY <1>3 DEF Flush, Fail
  <2>2. lost = <<>> \/ buffer = <<>>
    BY DEF NothingLostOrReordered, LogTypes
  <2>3. CASE lost = <<>>
    BY <1>1, <2>1, <2>3, ConcatEmptySeq DEF Taken
  <2>4. CASE buffer = <<>>
    BY <1>1, <2>1, <2>4, ConcatEmptySeq DEF Taken
  <2> QED BY <1>1, <2>1, <2>2, <2>3, <2>4
<1> QED BY <1>2, <1>3

(* Every step preserves it. A push and a pop move a record, a flush moves the *)
(* buffer, a failed write what it had; the rest leaves the records alone.     *)
LEMMA LogInvNext == LogInv /\ [LogNext]_logVars => LogInv'
<1> SUFFICES ASSUME LogInv, [LogNext]_logVars PROVE LogInv'
  OBVIOUS
<1> USE DEF LogInv
<1>q. /\ queue \in Seq(Records) /\ pushed \in Seq(Records)
      /\ buffer \in Seq(Records) /\ written \in Seq(Records) /\ lost \in Seq(Records)
      /\ Taken \in Seq(Records) /\ pushed = Taken \o queue
  BY ConcatProperties DEF LogTypes, Taken, NothingLostOrReordered
<1>1. ASSUME NEW p \in Producers, TryLog(p) PROVE LogInv'
  <2> DEFINE r == <<p, count'[p]>>
  <2>1. r \in Records /\ count' \in [Producers -> Nat]
    BY <1>1 DEF TryLog, LogTypes, Records
  <2>2. LogTypes'
    BY <1>1, <2>1 DEF TryLog, LogTypes, fileVars
  <2>3. NothingLostOrReordered'
    <3>1. queue' = Append(queue, r) /\ pushed' = Append(pushed, r) /\ Taken' = Taken
          /\ UNCHANGED <<stream, lost, buffer>>
      BY <1>1 DEF TryLog, Taken, fileVars
    <3> HIDE DEF r
    <3>2. Taken \o Append(queue, r) = Append(Taken \o queue, r)
      BY <1>q, <2>1, AppendMoves
    <3>3. pushed' = Taken' \o queue'
      BY <1>q, <3>1, <3>2
    <3> QED BY <3>1, <3>3 DEF NothingLostOrReordered, Taken
  <2>4. running
    BY <1>1 DEF TryLog, StoppedLast
  <2> QED BY <1>1, <2>2, <2>3, <2>4 DEF TryLog, StoppedLast
<1>2. ASSUME NEW writes \in BOOLEAN, Pop(writes) PROVE LogInv'
  <2>1. /\ Head(queue) \in Records /\ Tail(queue) \in Seq(Records) /\ queue # <<>>
        /\ Put(Head(queue), writes) /\ queue' = Tail(queue)
        /\ UNCHANGED <<pushed, count, finished, running, worker>>
    BY <1>2, <1>q, HeadTailProperties DEF Pop
  <2>2. /\ Taken' = Append(Taken, Head(queue))
        /\ buffer' \in Seq(Records) /\ written' \in Seq(Records) /\ lost' \in Seq(Records)
        /\ stream' \in {"good", "bad"}
        /\ stream' = "good" => lost' = <<>>
        /\ stream' = "bad" => buffer' = <<>>
    BY <2>1, PutTakes
  <2>3. LogTypes'
    BY <2>1, <2>2 DEF LogTypes
  <2>4. Append(Taken, Head(queue)) \o Tail(queue) = Taken \o queue
    BY <1>q, <2>1, HeadMoves
  <2>5. NothingLostOrReordered'
    <3>1. pushed' = Taken' \o queue'
      BY <1>q, <2>1, <2>2, <2>4
    <3> QED BY <2>2, <3>1 DEF NothingLostOrReordered, Taken
  <2>6. worker # "gone"
    BY <1>2 DEF Pop
  <2> QED BY <2>1, <2>3, <2>5, <2>6 DEF StoppedLast
<1>3. ASSUME NEW writes \in BOOLEAN, Flush(writes), UNCHANGED <<queue, pushed, count>>
      PROVE  LogTypes' /\ NothingLostOrReordered'
  <2>1. /\ Taken' = Taken
        /\ buffer' = <<>> /\ written' \in Seq(Records) /\ lost' \in Seq(Records)
        /\ stream' \in {"good", "bad"}
        /\ stream' = "good" => lost' = <<>>
    BY <1>3, FlushKeeps
  <2>2. LogTypes'
    BY <1>3, <2>1, EmptySeq DEF LogTypes
  <2>3. pushed' = Taken' \o queue'
    BY <1>q, <1>3, <2>1
  <2> QED BY <2>1, <2>2, <2>3 DEF NothingLostOrReordered, Taken
<1>4. ASSUME NEW writes \in BOOLEAN, EndBatch(writes) PROVE LogInv'
  <2>1. CASE processed = 0
    BY <1>4, <2>1 DEF EndBatch, LogTypes, NothingLostOrReordered, StoppedLast, fileVars
  <2>2. CASE processed # 0
    <3>1. LogTypes' /\ NothingLostOrReordered'
      BY <1>3, <1>4, <2>2 DEF EndBatch
    <3> QED BY <1>4, <3>1 DEF EndBatch, StoppedLast
  <2> QED BY <2>1, <2>2
<1>5. ASSUME NEW writes \in BOOLEAN, EndDrain(writes) PROVE LogInv'
  <2>1. LogTypes' /\ NothingLostOrReordered'
    BY <1>3, <1>5 DEF EndDrain
  <2>2. buffer' = <<>>
    BY <1>5, FlushKeeps DEF EndDrain
  <2> QED BY <1>5, <2>1, <2>2 DEF EndDrain, StoppedLast
<1>6. ASSUME UNCHANGED <<queue, pushed, count, buffer, fileVars>>
      PROVE  LogTypes' /\ NothingLostOrReordered'
  BY <1>6 DEF LogTypes, NothingLostOrReordered, fileVars
<1>7. ASSUME NEW opens \in BOOLEAN, OpenFile(opens) PROVE LogInv'
  BY <1>6, <1>7 DEF OpenFile, StoppedLast
<1>8. ASSUME CheckRunning PROVE LogInv'
  BY <1>6, <1>8 DEF CheckRunning, StoppedLast
<1>9. ASSUME NEW p \in Producers, ProducerEnds(p) PROVE LogInv'
  BY <1>6, <1>9 DEF ProducerEnds, StoppedLast
<1>10. ASSUME Shutdown \/ StopLogger \/ JoinWorker \/ UNCHANGED logVars PROVE LogInv'
  BY <1>6, <1>10 DEF Shutdown, StopLogger, JoinWorker, logVars, fileVars, StoppedLast
<1> QED
  BY <1>1, <1>2, <1>4, <1>5, <1>7, <1>8, <1>9, <1>10 DEF LogNext, Work

(* The logger neither repeats nor reorders a record, whichever threads log,   *)
(* however often and in batches of any size (AsyncJsonlLogger::run), and      *)
(* loses none unless a write fails: then it loses that write's and all later  *)
(* ones.                                                                      *)
THEOREM LogKeepsOrder == LogSpec => []NothingLostOrReordered
<1>1. LogInv => NothingLostOrReordered
  BY DEF LogInv
<1> QED BY <1>1, LogInvInit, LogInvNext, PTL DEF LogSpec

(* When main has returned, everything that was logged is in the file, unless  *)
(* the file did not open or a write failed: the producers were joined before  *)
(* the logger was stopped, and the worker drained the queue after it had seen *)
(* the stop. With a failed write, only the end of the log is missing.         *)
THEOREM LogCompleteAtExit == LogSpec => []AllWrittenAtExit
<1>1. LogInv => AllWrittenAtExit
  <2> SUFFICES ASSUME LogInv, worker = "gone"
               PROVE  written \o lost = pushed /\ (stream = "good" => written = pushed)
    BY DEF AllWrittenAtExit
  <2>1. /\ queue = <<>> /\ buffer = <<>> /\ written \in Seq(Records) /\ lost \in Seq(Records)
        /\ stream = "good" => lost = <<>>
    BY DEF LogInv, LogTypes, StoppedLast, NothingLostOrReordered
  <2>2. written \o <<>> = written
    BY <2>1, ConcatEmptySeq
  <2>3. ((written \o <<>>) \o lost) \o <<>> = written \o lost
    BY <2>1, <2>2, ConcatEmptySeq, ConcatProperties
  <2>4. ((written \o <<>>) \o lost) \o <<>> = pushed
    BY <2>1 DEF LogInv, NothingLostOrReordered
  <2> QED BY <2>1, <2>2, <2>3, <2>4
<1> QED BY <1>1, LogInvInit, LogInvNext, PTL DEF LogSpec
=============================================================================
