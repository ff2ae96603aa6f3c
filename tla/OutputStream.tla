---------------------------- MODULE OutputStream ----------------------------
(***************************************************************************)
(* The output of one command (src/exec.rs): two reader threads move chunks *)
(* from the pipes into a bounded channel, the waiter thread adds the Exit  *)
(* event after draining the readers for at most two seconds, and a         *)
(* consumer takes events until Exit (stream_events for a foreground        *)
(* command, whose client may be slow or leave; pump_background otherwise). *)
(*                                                                         *)
(* A chunk is its number within its stream.  Pipes and channel are bounded *)
(* and block their writers.  An heir is a descendant that inherited the    *)
(* pipes and outlives the command.                                         *)
(***************************************************************************)
EXTENDS Integers, Sequences

CONSTANTS
    Streams,    \* stdout and stderr
    QueueCap,   \* OUTPUT_QUEUE_CHUNKS (64)
    PipeCap,    \* chunks a pipe holds
    MaxChunks,  \* bound: chunks written to a stream
    Heirs       \* whether the command may leave an heir behind

ASSUME CapsAssumption == QueueCap \in Nat \ {0} /\ PipeCap \in Nat \ {0} /\ MaxChunks \in Nat
ASSUME HeirsAssumption == Heirs \in BOOLEAN

VARIABLES
    command,   \* "run" or "ended"
    heir,      \* a descendant holds the write ends of the pipes
    written,   \* chunks written into each pipe so far
    taken,     \* chunks read out of each pipe so far
    reader,    \* "read", "send" or "done", per stream
    queue,     \* the sync_channel
    waiter,    \* wait_and_report: "wait", "drain", "exit", "done"
    drained,   \* both readers reported done before the deadline
    consumer,  \* "on", "finished" (saw Exit) or "gone"
    got        \* chunks delivered, per stream

vars == <<command, heir, written, taken, reader, queue, waiter, drained, consumer, got>>

Exit == [event |-> "exit"]
Chunk(st, n) == [event |-> st, data |-> n]

Init ==
    /\ command = "run"
    /\ heir = FALSE
    /\ written = [st \in Streams |-> 0]
    /\ taken = [st \in Streams |-> 0]
    /\ reader = [st \in Streams |-> "read"]
    /\ queue = <<>>
    /\ waiter = "wait"
    /\ drained = FALSE
    /\ consumer = "on"
    /\ got = [st \in Streams |-> <<>>]

-----------------------------------------------------------------------------
(* The command and its descendants *)

\* A write blocks while the pipe is full; without a reader it fails.
Write(st) ==
    /\ command = "run" \/ heir
    /\ reader[st] # "done"
    /\ written[st] < MaxChunks
    /\ written[st] - taken[st] < PipeCap
    /\ written' = [written EXCEPT ![st] = @ + 1]
    /\ UNCHANGED <<command, heir, taken, reader, queue, waiter, drained, consumer, got>>

CommandEnds ==
    /\ command = "run"
    /\ command' = "ended"
    /\ heir' \in {FALSE, Heirs}
    /\ UNCHANGED <<written, taken, reader, queue, waiter, drained, consumer, got>>

HeirEnds ==
    /\ heir
    /\ heir' = FALSE
    /\ UNCHANGED <<command, written, taken, reader, queue, waiter, drained, consumer, got>>

-----------------------------------------------------------------------------
(* spawn_reader *)

\* read returns data.
ReadChunk(st) ==
    /\ reader[st] = "read"
    /\ taken[st] < written[st]
    /\ taken' = [taken EXCEPT ![st] = @ + 1]
    /\ reader' = [reader EXCEPT ![st] = "send"]
    /\ UNCHANGED <<command, heir, written, queue, waiter, drained, consumer, got>>

\* read returns 0: the pipe is empty and nobody can write to it any more.
ReadEof(st) ==
    /\ reader[st] = "read"
    /\ taken[st] = written[st] /\ command = "ended" /\ ~heir
    /\ reader' = [reader EXCEPT ![st] = "done"]
    /\ UNCHANGED <<command, heir, written, taken, queue, waiter, drained, consumer, got>>

Full == Len(queue) >= QueueCap

\* Mutant: try_send, which drops the chunk when the channel is full.
SendChunk_Dropping(st) ==
    /\ reader[st] = "send"
    /\ consumer = "on"
    /\ queue' = IF Full THEN queue ELSE Append(queue, Chunk(st, taken[st]))
    /\ reader' = [reader EXCEPT ![st] = "read"]
    /\ UNCHANGED <<command, heir, written, taken, waiter, drained, consumer, got>>

\* tx.send blocks while the channel is full and its receiver exists.
SendChunk(st) ==
    /\ reader[st] = "send"
    /\ consumer = "on" /\ ~Full
    /\ queue' = Append(queue, Chunk(st, taken[st]))
    /\ reader' = [reader EXCEPT ![st] = "read"]
    /\ UNCHANGED <<command, heir, written, taken, waiter, drained, consumer, got>>

\* Mutant: a failed send is retried.
SendFails_Retried(st) == FALSE

\* The receiver is gone: send fails and the reader stops.
SendFails(st) ==
    /\ reader[st] = "send"
    /\ consumer # "on"
    /\ reader' = [reader EXCEPT ![st] = "done"]
    /\ UNCHANGED <<command, heir, written, taken, queue, waiter, drained, consumer, got>>

-----------------------------------------------------------------------------
(* wait_and_report, after the command was reaped *)

WaitReturns ==
    /\ waiter = "wait" /\ command = "ended"
    /\ waiter' = "drain"
    /\ UNCHANGED <<command, heir, written, taken, reader, queue, drained, consumer, got>>

\* Mutant: one reader's report is enough.
Drained_Once == \E st \in Streams : reader[st] = "done"

\* Both readers sent on output_done.
Drained == \A st \in Streams : reader[st] = "done"

DrainDone ==
    /\ waiter = "drain" /\ Drained
    /\ waiter' = "exit"
    /\ drained' = TRUE
    /\ UNCHANGED <<command, heir, written, taken, reader, queue, consumer, got>>

\* A reader cannot go on by itself: its pipe is empty and held open, or the
\* channel is full.
Stuck(st) ==
    \/ reader[st] = "read" /\ taken[st] = written[st] /\ heir
    \/ reader[st] = "send" /\ consumer = "on" /\ Full

\* Mutant: recv without a deadline.
DrainTimeout_Never == FALSE

\* OUTPUT_DRAIN_TIMEOUT passes; two seconds are ample for a reader that can
\* go on, so this takes one that cannot.
DrainTimeout ==
    /\ waiter = "drain" /\ ~Drained
    /\ \E st \in Streams : Stuck(st)
    /\ waiter' = "exit"
    /\ UNCHANGED <<command, heir, written, taken, reader, queue, drained, consumer, got>>

\* tx.send(Exit), delivered or not.
SendExit ==
    /\ waiter = "exit"
    /\ consumer # "on" \/ ~Full
    /\ queue' = IF consumer = "on" THEN Append(queue, Exit) ELSE queue
    /\ waiter' = "done"
    /\ UNCHANGED <<command, heir, written, taken, reader, drained, consumer, got>>

-----------------------------------------------------------------------------
(* stream_events and pump_background *)

\* The next event is taken and written to the client; Exit ends the stream.
Receive ==
    /\ consumer = "on" /\ queue # <<>>
    /\ LET e == Head(queue) IN
       IF e = Exit THEN consumer' = "finished" /\ UNCHANGED got
       ELSE /\ got' = [got EXCEPT ![e.event] = Append(@, e.data)]
            /\ UNCHANGED consumer
    /\ queue' = Tail(queue)
    /\ UNCHANGED <<command, heir, written, taken, reader, waiter, drained>>

\* Writing an event or a ping fails: the client left, or WRITE_TIMEOUT.
ClientGone ==
    /\ consumer = "on"
    /\ consumer' = "gone"
    /\ UNCHANGED <<command, heir, written, taken, reader, queue, waiter, drained, got>>

-----------------------------------------------------------------------------
ReaderStep(st) == ReadChunk(st) \/ ReadEof(st) \/ SendChunk(st) \/ SendFails(st)

WaiterStep == WaitReturns \/ DrainDone \/ DrainTimeout \/ SendExit

Next ==
    \/ \E st \in Streams : Write(st) \/ ReaderStep(st)
    \/ CommandEnds \/ HeirEnds
    \/ WaiterStep
    \/ Receive \/ ClientGone

Spec == Init /\ [][Next]_vars

\* Threads keep running and deadlines pass.  The consumer moves on because
\* every write to the client has a timeout.  The command and its heir need
\* not write or end.
FairSpec ==
    /\ Spec
    /\ \A st \in Streams : WF_vars(ReaderStep(st))
    /\ WF_vars(WaiterStep)
    /\ WF_vars(Receive)

-----------------------------------------------------------------------------
(* Properties *)

\* Each stream reaches the client in order and without gaps: what was
\* delivered is a prefix of what the command wrote, also across backpressure
\* and with the two streams interleaved in one channel.
DeliveredPrefix ==
    \A st \in Streams :
        /\ Len(got[st]) <= taken[st]
        /\ \A n \in DOMAIN got[st] : got[st][n] = n

\* When both readers finished within the drain deadline, a stream that ends
\* with Exit delivered everything that was written: no output is overtaken by
\* Exit, even if it was written just before the command ended.
DrainedIsComplete ==
    drained /\ consumer = "finished" =>
        \A st \in Streams : Len(got[st]) = written[st]

\* Once the command ended its Exit is sent, whether or not an heir keeps the
\* pipes open and whether or not the client is still there.
ExitAlwaysSent == command = "ended" ~> waiter = "done"

\* When the command and its heirs ended, both reader threads end too: neither
\* a full channel nor a client that left keeps one of them.
ReadersEnd ==
    \A st \in Streams :
        command = "ended" /\ ~heir ~> reader[st] = "done"
=============================================================================
