---------------------------- MODULE AsyncLogger ----------------------------
(* AsyncJsonlLogger and the shutdown that ends it: producers push records, a  *)
(* single worker pops them in batches and writes them to the file, and main   *)
(* joins the producing threads before it stops the logger.                    *)
(*                                                                            *)
(* A push and a pop of the lock-free queue are one step each. The queue is    *)
(* declared without a fixed size, so a push allocates when the initial        *)
(* capacity is used up and try_log does not fail: dropped_ stays 0. The worker *)
(* never looks at the state of its stream: once a write has failed, on a full *)
(* disk say, the stream ignores what it is given from then on.                *)
EXTENDS Naturals, SequencesExt

CONSTANTS
    Producers,      \* the threads that log
    MaxBatch,       \* records the worker writes between two flushes
    MaxLogs         \* bound on the number of records of a producer

ASSUME BatchAssumption == MaxBatch \in Nat \ {0}
ASSUME LogsAssumption == MaxLogs \in Nat

VARIABLES
    queue,          \* q_
    pushed,         \* every record pushed, in the order of the pushes (history)
    count,          \* records each producer has pushed
    finished,       \* producers whose thread has ended
    running,        \* running_
    worker,         \* what the worker does next
    processed,      \* records popped in the current batch
    buffer,         \* records written to the stream and not yet flushed
    written,        \* records in the file
    stream,         \* good, or bad once a write has failed: for ever
    lost,           \* records of the write that failed and of all later ones: the
                    \* file may have pieces of them (history)
    main            \* main thread: serving, stopping, joining, done

logVars == <<queue, pushed, count, finished, running, worker, processed, buffer,
             written, stream, lost, main>>
fileVars == <<written, stream, lost>>

----------------------------------------------------------------------------
LogInit ==
    /\ queue = <<>> /\ pushed = <<>>
    /\ count = [p \in Producers |-> 0] /\ finished = {}
    /\ running = TRUE /\ worker = "open" /\ processed = 0
    /\ buffer = <<>> /\ written = <<>> /\ stream = "good" /\ lost = <<>>
    /\ main = "serving"

TryLog(p) ==
    /\ p \notin finished /\ count[p] < MaxLogs
    /\ count' = [count EXCEPT ![p] = @ + 1]
    /\ queue' = Append(queue, <<p, count'[p]>>)
    /\ pushed' = Append(pushed, <<p, count'[p]>>)
    /\ UNCHANGED <<finished, running, worker, processed, buffer, fileVars, main>>

\* The worker gives up for good when the file does not open.
OpenFile(opens) ==
    /\ worker = "open"
    /\ worker' = IF opens THEN "check" ELSE "failed"
    /\ UNCHANGED <<queue, pushed, count, finished, running, processed, buffer, fileVars, main>>

\* Mutant: the flag is read once and for all.
CheckNothing ==
    /\ worker = "check"
    /\ worker' = "batch"
    /\ processed' = 0
    /\ UNCHANGED <<queue, pushed, count, finished, running, buffer, fileVars, main>>

CheckRunning ==
    /\ worker = "check"
    /\ worker' = IF running THEN "batch" ELSE "drain"
    /\ processed' = 0
    /\ UNCHANGED <<queue, pushed, count, finished, running, buffer, fileVars, main>>

\* The stream fails while it writes these records.
Fail(records) ==
    /\ stream' = "bad"
    /\ lost' = lost \o records
    /\ buffer' = <<>>
    /\ UNCHANGED written

\* A record is put into the stream, which writes when its own buffer is full.
Put(record, writes) ==
    IF stream = "good" /\ writes
    THEN buffer' = Append(buffer, record) /\ UNCHANGED fileVars
    ELSE Fail(Append(buffer, record))

Flush(writes) ==
    IF stream = "good" /\ (writes \/ buffer = <<>>)
    THEN written' = written \o buffer /\ buffer' = <<>> /\ UNCHANGED <<stream, lost>>
    ELSE Fail(buffer)

\* Mutant: the newest record is taken first.
PopNewest(writes) ==
    /\ queue # <<>>
    /\ \/ worker = "batch" /\ processed < MaxBatch
       \/ worker = "drain"
    /\ queue' = Front(queue)
    /\ Put(Last(queue), writes)
    /\ processed' = IF worker = "batch" THEN processed + 1 ELSE processed
    /\ UNCHANGED <<pushed, count, finished, running, worker, main>>

\* One record of a batch, or of the rest after the stop.
Pop(writes) ==
    /\ queue # <<>>
    /\ \/ worker = "batch" /\ processed < MaxBatch
       \/ worker = "drain"
    /\ queue' = Tail(queue)
    /\ Put(Head(queue), writes)
    /\ processed' = IF worker = "batch" THEN processed + 1 ELSE processed
    /\ UNCHANGED <<pushed, count, finished, running, worker, main>>

\* Mutant: only a full batch is flushed.
EndBatchLazily(writes) ==
    /\ worker = "batch"
    /\ processed = MaxBatch \/ queue = <<>>
    /\ IF processed < MaxBatch THEN UNCHANGED <<buffer, fileVars>> ELSE Flush(writes)
    /\ worker' = "check"
    /\ UNCHANGED <<queue, pushed, count, finished, running, processed, main>>

\* The batch is full or the queue was found empty. An empty batch sleeps
\* instead of flushing.
EndBatch(writes) ==
    /\ worker = "batch"
    /\ processed = MaxBatch \/ queue = <<>>
    /\ IF processed = 0 THEN UNCHANGED <<buffer, fileVars>> ELSE Flush(writes)
    /\ worker' = "check"
    /\ UNCHANGED <<queue, pushed, count, finished, running, processed, main>>

EndDrain(writes) ==
    /\ worker = "drain" /\ queue = <<>>
    /\ Flush(writes)
    /\ worker' = "gone"
    /\ UNCHANGED <<queue, pushed, count, finished, running, processed, main>>

\* main: run_until_stop returns, the market and control threads are stopped and
\* joined, then the logger is stopped and its worker joined.
Shutdown ==
    /\ main = "serving"
    /\ main' = "stopping"
    /\ UNCHANGED <<queue, pushed, count, finished, running, worker, processed, buffer, fileVars>>

ProducerEnds(p) ==
    /\ main = "stopping" /\ p \notin finished
    /\ finished' = finished \union {p}
    /\ UNCHANGED <<queue, pushed, count, running, worker, processed, buffer, fileVars, main>>

\* Mutant: the logger is stopped first.
StopLoggerFirst ==
    /\ main = "stopping"
    /\ running' = FALSE
    /\ main' = "joining"
    /\ UNCHANGED <<queue, pushed, count, finished, worker, processed, buffer, fileVars>>

StopLogger ==
    /\ main = "stopping" /\ finished = Producers
    /\ running' = FALSE
    /\ main' = "joining"
    /\ UNCHANGED <<queue, pushed, count, finished, worker, processed, buffer, fileVars>>

JoinWorker ==
    /\ main = "joining" /\ worker \in {"gone", "failed"}
    /\ main' = "done"
    /\ UNCHANGED <<queue, pushed, count, finished, running, worker, processed, buffer, fileVars>>

Work ==
    \/ \E opens \in BOOLEAN : OpenFile(opens)
    \/ CheckRunning
    \/ \E writes \in BOOLEAN : Pop(writes) \/ EndBatch(writes) \/ EndDrain(writes)

LogNext ==
    \/ \E p \in Producers : TryLog(p) \/ ProducerEnds(p)
    \/ Work
    \/ Shutdown \/ StopLogger \/ JoinWorker

\* The worker and main run when they can. Nothing has to be logged, the signal
\* to stop need not come, and a producer may take for ever to end: the market
\* and control threads block in reads that only their peer can end.
LogFairness == WF_logVars(Work) /\ WF_logVars(StopLogger) /\ WF_logVars(JoinWorker)

LogSpec == LogInit /\ [][LogNext]_logVars /\ LogFairness

----------------------------------------------------------------------------
(* The file, the stream's buffer and the queue together hold every record     *)
(* pushed, once and in the order of the pushes, at every moment, through      *)
(* batches, the stop and the final drain. When a write fails the file keeps   *)
(* the records before it, without a gap, and gets none after it.              *)
NothingLostOrReordered ==
    /\ written \o buffer \o lost \o queue = pushed
    /\ stream = "good" => lost = <<>>
    /\ stream = "bad" => buffer = <<>>

(* When main returns, everything logged is in the file, unless the file did   *)
(* not open or a write failed, which nothing then tells: the threads that log *)
(* are joined before the logger is stopped, and the worker drains the queue   *)
(* after it has seen the stop. After a failed write what is missing is the    *)
(* end of the log, every record of it taken from the queue.                   *)
AllWrittenAtExit ==
    main = "done" /\ worker = "gone" =>
        /\ written \o lost = pushed
        /\ stream = "good" => written = pushed

(* A record does not stay in the queue or the buffer: it reaches the file     *)
(* even if nothing more is logged, unless the file did not open or a write    *)
(* failed.                                                                    *)
RecordsReachFile ==
    \A n \in 1..(MaxLogs * Cardinality(Producers)) :
        Len(pushed) >= n ~> (Len(written) >= n \/ worker = "failed" \/ stream = "bad")

(* Stopping the logger returns, whatever is queued, once the threads that log *)
(* have ended.                                                                *)
StopReturns == main = "stopping" /\ finished = Producers ~> main = "done"
=============================================================================
