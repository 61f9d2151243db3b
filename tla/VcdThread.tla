----------------------------- MODULE VcdThread ------------------------------
(***************************************************************************)
(* The VCD writer thread behind `--threads 2` and above                    *)
(* (crates/sim-engine/src/vcd_thread.rs), with its two clients: the        *)
(* `$dumpflush` task (builtins/dispatch.rs), which drops the flush's       *)
(* result, and finalize_vcd (state/changes.rs), which turns an error into  *)
(* the W-RUN-VCD-WRITE-FAIL warning.                                       *)
(*                                                                         *)
(* The simulation hands chunks 1, 2, ... to a bounded channel; the thread  *)
(* writes them, and any write may fail.  `File::flush` does nothing and    *)
(* succeeds.                                                               *)
(***************************************************************************)
EXTENDS Integers, Sequences

CONSTANTS
    Cap,        \* sync_channel(8)
    MaxChunks,  \* bound: chunks the run produces
    MaxFlushes, \* bound: `$dumpflush` calls
    MaxFails,   \* bound: failing writes
    MayDie      \* whether the writer thread may die (a panic of its sink)

ASSUME VcdThreadAssumption ==
    /\ Cap \in Nat \ {0}
    /\ MaxChunks \in Nat
    /\ MaxFlushes \in Nat
    /\ MaxFails \in Nat
    /\ MayDie \in BOOLEAN

Chunks == 1 .. MaxChunks
Flush  == 0            \* the other message; a chunk is its number

VARIABLES
    sent,       \* chunks handed to ThreadedWriter::write
    channel,    \* the bounded FIFO
    producer,   \* "run", "dumpflush" or "finalize" (blocked on the ack),
                \* "drop" (finalized), "join" (channel closed) or "done"
    ack,        \* the flush acknowledgement: "none", "ok", "err"
    first_err,  \* the thread's latch
    file,       \* what reached the sink: c whole, -c a torn piece of c
    thread,     \* "live", "exited" or "dead"
    warned,     \* finalize_vcd has warned
    flushes,    \* `$dumpflush` calls so far
    fails,      \* failed writes so far
    dropped     \* an error result was handed to `$dumpflush`

vars == <<sent, channel, producer, ack, first_err, file, thread, warned,
          flushes, fails, dropped>>

Init ==
    /\ sent = 0 /\ channel = <<>> /\ producer = "run" /\ ack = "none"
    /\ first_err = FALSE /\ file = <<>> /\ thread = "live" /\ warned = FALSE
    /\ flushes = 0 /\ fails = 0 /\ dropped = FALSE

Room == Len(channel) < Cap
Gone == thread = "dead"

-----------------------------------------------------------------------------
(* The simulation thread.                                                  *)

\* `write`: a full channel blocks; a dead thread swallows the chunk.
Write ==
    /\ producer = "run"
    /\ sent < MaxChunks
    /\ Gone \/ Room
    /\ sent' = sent + 1
    /\ channel' = IF Gone THEN channel ELSE Append(channel, sent + 1)
    /\ UNCHANGED <<producer, ack, first_err, file, thread, warned, flushes,
                   fails, dropped>>

\* `flush`: send the request and wait for the answer.
SendFlush(caller) ==
    /\ producer = "run"
    /\ Gone \/ Room
    /\ channel' = IF Gone THEN channel ELSE Append(channel, Flush)
    /\ producer' = caller
    /\ UNCHANGED <<sent, ack, first_err, file, thread, warned, fails>>

DumpFlush == /\ flushes < MaxFlushes
             /\ SendFlush("dumpflush")
             /\ flushes' = flushes + 1
             /\ UNCHANGED dropped

Finalize  == SendFlush("finalize") /\ UNCHANGED <<flushes, dropped>>

\* The flush returns: with the ack, or with "terminated" when the thread died.
FlushReturns ==
    /\ producer \in {"dumpflush", "finalize"}
    /\ ack # "none" \/ Gone
    /\ LET failed == ack # "ok"
       IN  /\ warned' = (warned \/ (producer = "finalize" /\ failed))
           /\ dropped' = (dropped \/ (producer = "dumpflush" /\ failed))
    /\ producer' = IF producer = "finalize" THEN "drop" ELSE "run"
    /\ ack' = "none"
    /\ UNCHANGED <<sent, channel, first_err, file, thread, flushes, fails>>

\* `Drop`: close the channel, then join the thread.
DropWriter ==
    /\ producer = "drop"
    /\ producer' = "join"
    /\ UNCHANGED <<sent, channel, ack, first_err, file, thread, warned, flushes,
                   fails, dropped>>

Joined ==
    /\ producer = "join"
    /\ thread # "live"
    /\ producer' = "done"
    /\ UNCHANGED <<sent, channel, ack, first_err, file, thread, warned, flushes,
                   fails, dropped>>

-----------------------------------------------------------------------------
(* The writer thread.                                                      *)

Receives(m) == /\ thread = "live"
               /\ channel # <<>>
               /\ Head(channel) = m
               /\ channel' = Tail(channel)

\* mutant: chunks after a failed one are still written
Skips_Never == FALSE

\* After an error the thread discards the chunks it receives.
Skips == first_err

ThreadBytes(c) ==
    /\ Receives(c)
    /\ \/ /\ Skips
          /\ UNCHANGED <<first_err, file, fails>>
       \/ /\ ~Skips
          /\ file' = Append(file, c)
          /\ UNCHANGED <<first_err, fails>>
       \/ /\ ~Skips
          /\ fails < MaxFails
          /\ fails' = fails + 1
          /\ first_err' = TRUE
          /\ file' \in {file, Append(file, 0 - c)}
    /\ UNCHANGED <<sent, producer, ack, thread, warned, flushes, dropped>>

\* mutant: the acknowledgement ignores the latch
Answer_AlwaysOk == "ok"

Answer == IF first_err THEN "err" ELSE "ok"

\* The flush takes the latch: the error is given to this caller and forgotten.
ThreadFlush ==
    /\ Receives(Flush)
    /\ ack' = Answer
    /\ first_err' = FALSE
    /\ UNCHANGED <<sent, producer, file, thread, warned, flushes, fails, dropped>>

\* mutant: Drop joins the thread before it closes the channel
Drained_NotClosed == FALSE

\* The receiver's loop ends when the channel is closed and empty.
Drained == producer = "join" /\ channel = <<>>

ThreadExit ==
    /\ thread = "live"
    /\ Drained
    /\ thread' = "exited"
    /\ UNCHANGED <<sent, channel, producer, ack, first_err, file, warned, flushes,
                   fails, dropped>>

\* The sink panics: the receiver is dropped with everything queued.
ThreadDies ==
    /\ MayDie
    /\ thread = "live"
    /\ thread' = "dead"
    /\ channel' = <<>>
    /\ UNCHANGED <<sent, producer, ack, first_err, file, warned, flushes, fails,
                   dropped>>

Finished == producer = "done" /\ UNCHANGED vars

Simulation == Write \/ DumpFlush \/ Finalize \/ FlushReturns \/ DropWriter \/ Joined
Writer     == (\E c \in Chunks : ThreadBytes(c)) \/ ThreadFlush \/ ThreadExit

Next == Simulation \/ Writer \/ ThreadDies \/ Finished

Spec == Init /\ [][Next]_vars

\* Both threads are scheduled; neither blocks but where the actions say.
FairSpec == Spec /\ WF_vars(Simulation) /\ WF_vars(Writer)

-----------------------------------------------------------------------------
TypeOK ==
    /\ sent \in 0 .. MaxChunks
    /\ channel \in Seq(Chunks \cup {Flush}) /\ Len(channel) <= Cap
    /\ producer \in {"run", "dumpflush", "finalize", "drop", "join", "done"}
    /\ ack \in {"none", "ok", "err"}
    /\ first_err \in BOOLEAN
    /\ file \in Seq((0 - MaxChunks) .. MaxChunks)
    /\ thread \in {"live", "exited", "dead"}
    /\ warned \in BOOLEAN
    /\ flushes \in 0 .. MaxFlushes
    /\ fails \in 0 .. MaxFails
    /\ dropped \in BOOLEAN

Number(e) == IF e < 0 THEN 0 - e ELSE e
Whole(f)  == \A i \in 1 .. Len(f) : f[i] = i

\* Something the simulation wrote is not in the file, or is torn.
Loss == ~(Whole(file) /\ Len(file) = sent)

\* The file never holds a chunk twice or out of order, and a hole or a torn
\* chunk in its middle means that an error result went to a `$dumpflush`
\* (the thread's latch: first_err).
GapOnlyAfterDroppedError ==
    /\ \A i, j \in 1 .. Len(file) : i < j => Number(file[i]) < Number(file[j])
    /\ ~dropped => /\ \A i \in 1 .. Len(file) - 1 : file[i] = i
                   /\ file # <<>> => Number(file[Len(file)]) = Len(file)

\* Whatever is missing from the file when the run ends was either warned about
\* by finalize_vcd or reported to a `$dumpflush`.
LossIsReported == producer = "done" /\ Loss => warned \/ dropped

\* No interleaving leaves a thread waiting for ever: the run ends.
Terminates == <>(producer = "done")

\* The documented error model (vcd_thread.rs, `$dumpflush`): a write error is
\* surfaced by finalize_vcd.
TruncationIsWarned == producer = "done" /\ Loss => warned

Stream == INSTANCE DumpStream WITH
    produced <- sent,
    told <- dropped,
    ending <- IF producer # "done" THEN "open" ELSE IF warned THEN "warned" ELSE "clean"

\* The threaded file is the one a single thread would have written, up to the
\* gaps that follow an error a `$dumpflush` was handed (ThreadedWriter).
KeepsStream == Stream!Spec
=============================================================================
