---------------------------- MODULE ExecutorLogs ----------------------------
(***************************************************************************)
(* How the output of an executor becomes events (events/executor.go and    *)
(* stepWorker.Run): the command's copy goroutines hand chunks of stdout    *)
(* and stderr to a tailing goroutine, which keeps the tail of each in a    *)
(* ring and offers it, rate limited, to a writing goroutine through a      *)
(* bounded channel.  When the command has returned the step cancels the    *)
(* context of the tailer and waits for the writer.                         *)
(*                                                                         *)
(* A chunk is a number.  Write passes the copy goroutine's buffer itself,  *)
(* and returns before the tailer has read it: the goroutine may fill it    *)
(* with the next chunk first, a data race.                                 *)
(***************************************************************************)
EXTENDS Integers, Sequences

CONSTANTS
  LastChunk,     \* bound: chunks the command writes to a stream
  RingSize,      \* LogTailSize, in chunks
  EventBuffer,   \* capacity of eventch
  MaxLogFaults   \* bound: failed writes of events

(* ring.NewBuffer refuses a size of zero.                                  *)
ASSUME RingAssumption == RingSize \in Nat \ {0}

Stream == {"stdout", "stderr"}

VARIABLES
  streaming,  \* LogUpdateRate > 0: StreamLogTail, otherwise LogTail
  filled,     \* the number of the chunk in each copy goroutine's buffer
  handing,    \* the streams whose Write has not returned
  ring,       \* the tail of each stream
  fresh,      \* the streams with new bytes in the ring
  tailer,     \* where the tailing goroutine is
  eventch,    \* the channel of events
  writing,    \* the event the writer has taken
  step,       \* where stepWorker.Run is
  tails,      \* the tail of each stream in the task's log
  late,       \* history: the last flush gave up after its five seconds
  logFaults   \* failed writes so far

logVars == <<streaming, filled, handing, ring, fresh, tailer, eventch, writing, step, tails,
             late, logFaults>>

Nothing == <<>>
Select == [at |-> "select"]
FlushOf(s, final, fired) == [at |-> "flush", stream |-> s, final |-> final, fired |-> fired]

LogInit ==
  /\ streaming \in BOOLEAN
  /\ filled = [s \in Stream |-> 0] /\ handing = {}
  /\ ring = [s \in Stream |-> <<>>] /\ fresh = {}
  /\ tailer = Select
  /\ eventch = <<>> /\ writing = Nothing
  /\ step = "running"
  /\ tails = [s \in Stream |-> <<>>]
  /\ late = FALSE /\ logFaults = 0

(* A step that is over, before it had any output.                          *)
LogOver ==
  /\ streaming = FALSE
  /\ filled = [s \in Stream |-> 0] /\ handing = {}
  /\ ring = [s \in Stream |-> <<>>] /\ fresh = {}
  /\ tailer = [at |-> "over"]
  /\ eventch = <<>> /\ writing = Nothing
  /\ step = "returned"
  /\ tails = [s \in Stream |-> <<>>]
  /\ late = FALSE /\ logFaults = 0

(* ring.Buffer.Write: only the last RingSize chunks are kept.              *)
LastChunks(all) ==
  IF Len(all) <= RingSize THEN all ELSE SubSeq(all, Len(all) - RingSize + 1, Len(all))

RingWrite(s, c) == ring' = [ring EXCEPT ![s] = LastChunks(Append(@, c))]
-----------------------------------------------------------------------------
(* The command writes a chunk.  In streaming mode Write blocks until the   *)
(* tailer has received the buffer; LogTail hands out the ring itself.      *)
CommandWrites(s) ==
  /\ step = "running" /\ s \notin handing
  /\ filled[s] < LastChunk
  /\ filled' = [filled EXCEPT ![s] = @ + 1]
  /\ IF streaming
     THEN handing' = handing \cup {s} /\ UNCHANGED ring
     ELSE RingWrite(s, filled[s] + 1) /\ UNCHANGED handing
  /\ UNCHANGED <<streaming, fresh, tailer, eventch, writing, step, tails, late, logFaults>>

(* Command.Run returns once its output was copied; the step writes its own *)
(* events, and its deferred cleanup cancels the context.                   *)
CommandReturns ==
  /\ step = "running" /\ handing = {}
  /\ step' = "cleanup"
  /\ UNCHANGED <<streaming, filled, handing, ring, fresh, tailer, eventch, writing, tails, late,
                 logFaults>>

(* The tailer receives a buffer, ...                                       *)
Receive(s) ==
  /\ streaming /\ tailer = Select /\ s \in handing
  /\ handing' = handing \ {s}
  /\ tailer' = [at |-> "copy", stream |-> s]
  /\ UNCHANGED <<streaming, filled, ring, fresh, eventch, writing, step, tails, late, logFaults>>

(* ... copies what it holds by then, and flushes if the limiter allows it. *)
CopyChunk ==
  /\ streaming /\ tailer.at = "copy"
  /\ RingWrite(tailer.stream, filled[tailer.stream])
  /\ fresh' = fresh \cup {tailer.stream}
  /\ tailer' \in {Select, FlushOf("stdout", FALSE, FALSE)}
  /\ UNCHANGED <<streaming, filled, handing, eventch, writing, step, tails, late, logFaults>>

(* The ticker: a flush if there is anything new and the limiter allows it. *)
Tick ==
  /\ streaming /\ tailer = Select /\ fresh # {}
  /\ tailer' = FlushOf("stdout", FALSE, FALSE)
  /\ UNCHANGED <<streaming, filled, handing, ring, fresh, eventch, writing, step, tails, late,
                 logFaults>>

(* The context is done: one more flush, with five seconds for both.        *)
ContextDone ==
  /\ streaming /\ tailer = Select /\ step = "cleanup"
  /\ tailer' = FlushOf("stdout", TRUE, FALSE)
  /\ UNCHANGED <<streaming, filled, handing, ring, fresh, eventch, writing, step, tails, late,
                 logFaults>>

(* After stdout comes stderr, and after that the loop, or the end: the     *)
(* channel is closed.                                                      *)
AfterFlush(fired) ==
  CASE tailer.stream = "stdout" -> FlushOf("stderr", tailer.final, fired)
    [] tailer.stream = "stderr" /\ tailer.final -> [at |-> "over"]
    [] OTHER -> Select

(* Mutant: a stream counts as flushed even when its event was dropped.     *)
DropForgets ==
  /\ tailer.at = "flush" /\ tailer.stream \in fresh
  /\ tailer.final => Len(eventch) = EventBuffer /\ ~tailer.fired
  /\ late' = (late \/ tailer.final)
  /\ tailer' = AfterFlush(tailer.final)
  /\ fresh' = fresh \ {tailer.stream}
  /\ UNCHANGED eventch

(* flush drops the event: an immediate flush may do so whenever it likes,  *)
(* since a closed channel is always ready; the last one only after five    *)
(* seconds of a full channel, and the timer fires but once.                *)
Drop ==
  /\ tailer.at = "flush" /\ tailer.stream \in fresh
  /\ tailer.final => Len(eventch) = EventBuffer /\ ~tailer.fired
  /\ late' = (late \/ tailer.final)
  /\ tailer' = AfterFlush(tailer.final)
  /\ UNCHANGED <<fresh, eventch>>

(* flush sends the whole tail, or has nothing new to send.                 *)
Send ==
  /\ tailer.at = "flush" /\ tailer.stream \in fresh
  /\ Len(eventch) < EventBuffer
  /\ eventch' = Append(eventch, [stream |-> tailer.stream, tail |-> ring[tailer.stream]])
  /\ fresh' = fresh \ {tailer.stream}
  /\ tailer' = AfterFlush(tailer.fired)
  /\ UNCHANGED late

NothingNew ==
  /\ tailer.at = "flush" /\ tailer.stream \notin fresh
  /\ tailer' = AfterFlush(tailer.fired)
  /\ UNCHANGED <<fresh, eventch, late>>

Flush ==
  /\ Send \/ Drop \/ NothingNew
  /\ UNCHANGED <<streaming, filled, handing, ring, writing, step, tails, logFaults>>
-----------------------------------------------------------------------------
(* The writer takes an event, and writes it; after an error, five seconds  *)
(* included, it goes on with the next one.                                 *)
TakeEvent ==
  /\ writing = Nothing /\ eventch # <<>>
  /\ writing' = Head(eventch)
  /\ eventch' = Tail(eventch)
  /\ UNCHANGED <<streaming, filled, handing, ring, fresh, tailer, step, tails, late, logFaults>>

WriteTail ==
  /\ writing # Nothing
  /\ writing' = Nothing
  /\ \/ tails' = [tails EXCEPT ![writing.stream] = writing.tail] /\ UNCHANGED logFaults
     \/ logFaults < MaxLogFaults /\ logFaults' = logFaults + 1 /\ UNCHANGED tails
  /\ UNCHANGED <<streaming, filled, handing, ring, fresh, tailer, eventch, step, late>>

(* Mutant: the channel is never closed, the writer never done.             *)
StepWaitsForever ==
  /\ step = "cleanup" /\ ~streaming
  /\ step' = "returned"
  /\ UNCHANGED <<streaming, filled, handing, ring, fresh, tailer, eventch, writing, tails, late,
                 logFaults>>

(* wg.Wait: the writer has emptied the closed channel.  LogTail adds       *)
(* nothing to the wait group.                                              *)
StepReturns ==
  /\ step = "cleanup"
  /\ streaming => tailer.at = "over" /\ eventch = <<>> /\ writing = Nothing
  /\ step' = "returned"
  /\ UNCHANGED <<streaming, filled, handing, ring, fresh, tailer, eventch, writing, tails, late,
                 logFaults>>

(* LogTail flushes both streams from the ring of stdout, with the context  *)
(* that is already done: a writer that looks at it refuses the event.      *)
FlushLogTail ==
  /\ ~streaming /\ step # "running" /\ tailer = Select
  /\ \/ tails' = [s \in Stream |-> ring["stdout"]]
     \/ UNCHANGED tails
  /\ tailer' = [at |-> "over"]
  /\ UNCHANGED <<streaming, filled, handing, ring, fresh, eventch, writing, step, late, logFaults>>

Tailing == (\E s \in Stream : Receive(s)) \/ CopyChunk \/ Tick \/ ContextDone \/ Flush
EventWriting == TakeEvent \/ WriteTail

LogNext ==
  \/ \E s \in Stream : CommandWrites(s)
  \/ CommandReturns \/ Tailing \/ EventWriting \/ StepReturns \/ FlushLogTail

(* The goroutines keep going.  A select picks among its ready cases at     *)
(* random: a command that waits, and a context that is done, cannot lose   *)
(* to the ticker forever.                                                  *)
LogFairness ==
  /\ WF_logVars(Tailing) /\ WF_logVars(EventWriting \/ StepReturns)
  /\ SF_logVars(ContextDone \/ \E s \in Stream : Receive(s))

LogSpec == LogInit /\ [][LogNext]_logVars /\ LogFairness
-----------------------------------------------------------------------------
(* StreamLogTail: whichever events were dropped while the command ran, a   *)
(* step that has returned has left the tail of each stream, up to its very *)
(* last chunk, in the log, unless an event failed to be written or the     *)
(* last flush met a full channel for five seconds.                         *)
FinalTails ==
  streaming /\ step = "returned" /\ logFaults = 0 /\ ~late =>
    \A s \in Stream :
      /\ tails[s] = ring[s]
      /\ Len(ring[s]) = IF filled[s] < RingSize THEN filled[s] ELSE RingSize
      /\ filled[s] > 0 => ring[s][Len(ring[s])] = filled[s]

(* Neither side of the pipeline waits for the other for ever: a command is *)
(* never stuck in a Write, and a step whose command has returned returns,  *)
(* however slow or faulty the event writer is (stepWorker.Run, wg.Wait).   *)
LogsNeverBlock == []<>(handing = {} /\ step # "cleanup")
=============================================================================
