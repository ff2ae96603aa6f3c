-------------------------- MODULE OutputStreamProofs --------------------------
(* Theorems about OutputStream: what a client receives of a command's output, *)
(* for every set of streams, capacity of the channel and of the pipes.        *)
EXTENDS OutputStream, TLAPS

Events == {Exit} \cup {Chunk(st, n) : st \in Streams, n \in Nat}

\* Type correctness.
StreamTypeOK ==
    /\ command \in {"run", "ended"} /\ heir \in BOOLEAN
    /\ written \in [Streams -> Nat] /\ taken \in [Streams -> Nat]
    /\ reader \in [Streams -> {"read", "send", "done"}]
    /\ queue \in Seq(Events)
    /\ waiter \in {"wait", "drain", "exit", "done"} /\ drained \in BOOLEAN
    /\ consumer \in {"on", "finished", "gone"}
    /\ got \in [Streams -> Seq(Nat)]

\* The chunks of a stream that its reader has put into the channel.
Sent(st) == IF reader[st] = "send" THEN taken[st] - 1 ELSE taken[st]

\* While the consumer takes events, the channel holds of each stream the chunks
\* sent and not yet delivered, each of them, in order, and no others.
QueueInRange ==
    \A i \in 1 .. Len(queue), st \in Streams, n \in Nat :
        queue[i] = Chunk(st, n) => Len(got[st]) < n /\ n <= Sent(st)
QueueInOrder ==
    \A i, j \in 1 .. Len(queue), st \in Streams, m, n \in Nat :
        i < j /\ queue[i] = Chunk(st, m) /\ queue[j] = Chunk(st, n) => m < n
QueueHasAll ==
    \A st \in Streams, n \in Nat :
        Len(got[st]) < n /\ n <= Sent(st) => \E i \in 1 .. Len(queue) : queue[i] = Chunk(st, n)
QueueExact ==
    consumer = "on" =>
        /\ QueueInRange /\ QueueInOrder /\ QueueHasAll
        /\ \A st \in Streams : Len(got[st]) <= Sent(st)

\* A reader that ended before the consumer did has read all there will be.
ReadersRead ==
    \A st \in Streams :
        /\ reader[st] = "send" => taken[st] > 0
        /\ consumer = "on" /\ reader[st] = "done" => taken[st] = written[st]

\* Exit is sent once; after a drain it is the last event.
ExitLast ==
    /\ drained => waiter \in {"exit", "done"} /\ Drained
    /\ consumer = "finished" => waiter = "done"
    /\ \A i \in 1 .. Len(queue) :
          queue[i] = Exit => waiter = "done" /\ (drained => i = Len(queue))

\* The inductive invariant.
StreamInv ==
    /\ StreamTypeOK /\ QueueExact /\ ReadersRead /\ ExitLast
    /\ DeliveredPrefix /\ DrainedIsComplete

-----------------------------------------------------------------------------
\* Events are told apart: a chunk is not Exit, and a chunk is its stream and number.
LEMMA EventsDiffer ==
    ASSUME NEW st, NEW n
    PROVE  Chunk(st, n) # Exit /\ Chunk(st, n).event = st /\ Chunk(st, n).data = n
<1>1. "data" \in DOMAIN Chunk(st, n) /\ "data" \notin DOMAIN Exit
  BY DEF Chunk, Exit
<1> QED
  BY <1>1 DEF Chunk, Exit

\* What a channel holds after a send and after a receive.
LEMMA AppendEvent ==
    ASSUME NEW S, NEW q \in Seq(S), NEW e \in S
    PROVE  /\ Append(q, e) \in Seq(S)
           /\ Len(Append(q, e)) = Len(q) + 1
           /\ \A i \in 1 .. Len(q) : Append(q, e)[i] = q[i]
           /\ Append(q, e)[Len(q) + 1] = e
OBVIOUS

LEMMA TailEvent ==
    ASSUME NEW S, NEW q \in Seq(S), q # <<>>
    PROVE  /\ Tail(q) \in Seq(S)
           /\ Len(Tail(q)) = Len(q) - 1 /\ Len(q) \in Nat /\ Len(q) > 0
           /\ \A i \in 1 .. Len(Tail(q)) : Tail(q)[i] = q[i + 1]
           /\ Head(q) = q[1] /\ Head(q) \in S
OBVIOUS

-----------------------------------------------------------------------------
\* At the start nothing was written, sent or delivered.
LEMMA StreamInit == Init => StreamInv
<1> SUFFICES ASSUME Init PROVE StreamInv
  OBVIOUS
<1>1. Len(queue) = 0 /\ queue \in Seq(Events)
  BY DEF Init
<1>2. \A st \in Streams : got[st] = <<>> /\ Len(got[st]) = 0 /\ Sent(st) = 0
  BY DEF Init, Sent
<1>3. StreamTypeOK
  <2>1. <<>> \in Seq(Nat)
    OBVIOUS
  <2>2. got \in [Streams -> Seq(Nat)]
    BY <2>1 DEF Init
  <2> QED
    BY <1>1, <2>2 DEF Init, StreamTypeOK
<1>4. QueueInRange /\ QueueInOrder /\ QueueHasAll
  BY <1>1, <1>2 DEF QueueInRange, QueueInOrder, QueueHasAll
<1>5. ReadersRead /\ ExitLast /\ DrainedIsComplete
  BY <1>1 DEF Init, ReadersRead, ExitLast, DrainedIsComplete
<1>6. DeliveredPrefix
  <2> SUFFICES ASSUME NEW st \in Streams
               PROVE  Len(got[st]) <= taken[st] /\ \A n \in DOMAIN got[st] : got[st][n] = n
    BY DEF DeliveredPrefix
  <2>1. taken[st] = 0
    BY DEF Init
  <2>2. got[st] \in Seq(Nat)
    BY <1>3 DEF StreamTypeOK
  <2>3. DOMAIN got[st] = 1 .. 0
    BY <1>2, <2>2
  <2> QED
    BY <1>2, <2>1, <2>3
<1> QED
  BY <1>2, <1>3, <1>4, <1>5, <1>6 DEF StreamInv, QueueExact

\* The channel is as exact as it was if nothing was sent or delivered.
LEMMA QueueKept ==
    ASSUME QueueExact, UNCHANGED <<queue, consumer, got>>,
           \A st \in Streams : Sent(st)' = Sent(st)
    PROVE  QueueExact'
BY DEF QueueExact, QueueInRange, QueueInOrder, QueueHasAll

\* The command and its heirs only write, and only to a reader that is there.
LEMMA CommandSteps ==
    ASSUME StreamInv, (\E st \in Streams : Write(st)) \/ CommandEnds \/ HeirEnds
    PROVE  StreamInv'
<1>1. /\ UNCHANGED <<taken, reader, queue, waiter, drained, consumer, got>>
      /\ command' \in {"run", "ended"} /\ heir' \in BOOLEAN
      /\ written' \in [Streams -> Nat]
      /\ \A st \in Streams : reader[st] = "done" => written'[st] = written[st]
  <2>1. written \in [Streams -> Nat] /\ command \in {"run", "ended"} /\ heir \in BOOLEAN
    BY DEF StreamInv, StreamTypeOK
  <2>2. ASSUME NEW st \in Streams, Write(st)
        PROVE  /\ written' \in [Streams -> Nat] /\ UNCHANGED <<command, heir>>
               /\ \A s \in Streams : reader[s] = "done" => written'[s] = written[s]
    BY <2>1, <2>2 DEF Write
  <2> QED
    BY <2>1, <2>2, HeirsAssumption DEF Write, CommandEnds, HeirEnds
<1>2. StreamTypeOK' /\ ReadersRead' /\ ExitLast' /\ DeliveredPrefix'
  BY <1>1 DEF StreamInv, StreamTypeOK, ReadersRead, ExitLast, DeliveredPrefix, Drained
<1>4. QueueExact'
  BY <1>1, QueueKept DEF StreamInv, Sent
<1>3. DrainedIsComplete'
  BY <1>1 DEF StreamInv, ExitLast, DrainedIsComplete, Drained
<1> QED
  BY <1>2, <1>3, <1>4 DEF StreamInv

\* A reader takes one chunk at a time, and ends at the end of the pipe.
LEMMA ReadSteps ==
    ASSUME StreamInv, NEW st \in Streams, ReadChunk(st) \/ ReadEof(st)
    PROVE  StreamInv'
<1>1. /\ UNCHANGED <<command, heir, written, queue, waiter, drained, consumer, got>>
      /\ reader[st] = "read"
      /\ \/ /\ taken' = [taken EXCEPT ![st] = @ + 1]
            /\ reader' = [reader EXCEPT ![st] = "send"]
         \/ /\ taken' = taken /\ taken[st] = written[st]
            /\ reader' = [reader EXCEPT ![st] = "done"]
  BY DEF ReadChunk, ReadEof
<1>0. taken \in [Streams -> Nat] /\ reader \in [Streams -> {"read", "send", "done"}]
  BY DEF StreamInv, StreamTypeOK
<1>2. /\ taken' \in [Streams -> Nat] /\ reader' \in [Streams -> {"read", "send", "done"}]
      /\ \A s \in Streams : taken[s] <= taken'[s]
      /\ \A s \in Streams : s # st => taken'[s] = taken[s] /\ reader'[s] = reader[s]
      /\ \/ taken'[st] = taken[st] + 1 /\ reader'[st] = "send"
         \/ taken'[st] = written[st] /\ taken'[st] = taken[st] /\ reader'[st] = "done"
  BY <1>0, <1>1
<1>3. StreamTypeOK'
  BY <1>1, <1>2 DEF StreamInv, StreamTypeOK
<1>8. ReadersRead'
  BY <1>0, <1>1, <1>2 DEF StreamInv, ReadersRead
<1>9. \A s \in Streams : Sent(s)' = Sent(s)
  BY <1>0, <1>1, <1>2 DEF Sent
<1>4. QueueExact'
  BY <1>1, <1>9, QueueKept DEF StreamInv
<1>5. ~drained
  BY <1>1 DEF StreamInv, ExitLast, Drained
<1>6. ExitLast' /\ DrainedIsComplete'
  BY <1>1, <1>5 DEF StreamInv, ExitLast, DrainedIsComplete
<1>7. DeliveredPrefix'
  <2>1. \A s \in Streams : Len(got[s]) \in Nat
    BY DEF StreamInv, StreamTypeOK
  <2> QED
    BY <1>0, <1>1, <1>2, <2>1 DEF StreamInv, DeliveredPrefix
<1> QED
  BY <1>3, <1>4, <1>6, <1>7, <1>8 DEF StreamInv

\* A chunk enters the channel behind the chunks before it.
LEMMA SendStep ==
    ASSUME StreamInv, NEW st \in Streams, SendChunk(st)
    PROVE  StreamInv'
<1> DEFINE e == Chunk(st, taken[st])
<1>1. /\ UNCHANGED <<command, heir, written, taken, waiter, drained, consumer, got>>
      /\ reader[st] = "send" /\ consumer = "on"
      /\ queue' = Append(queue, e)
      /\ reader' = [reader EXCEPT ![st] = "read"]
  BY DEF SendChunk
<1>2. taken[st] \in Nat /\ taken[st] > 0 /\ queue \in Seq(Events) /\ e \in Events
  BY <1>1 DEF StreamInv, StreamTypeOK, ReadersRead, Events
<1>3. /\ queue' \in Seq(Events) /\ Len(queue) \in Nat /\ Len(queue') = Len(queue) + 1
      /\ \A i \in 1 .. Len(queue) : queue'[i] = queue[i]
      /\ queue'[Len(queue) + 1] = e
  BY <1>1, <1>2, AppendEvent
<1>4. StreamTypeOK' /\ ReadersRead'
  BY <1>1, <1>3 DEF StreamInv, StreamTypeOK, ReadersRead
<1>5. /\ Sent(st) = taken[st] - 1 /\ Sent(st)' = taken[st]
      /\ \A s \in Streams : s # st => Sent(s)' = Sent(s)
      /\ \A s \in Streams : Sent(s) \in Int /\ Len(got[s]) \in Nat
  BY <1>1 DEF StreamInv, StreamTypeOK, Sent
<1>6. \A s \in Streams, n \in Nat : e = Chunk(s, n) => s = st /\ n = taken[st]
  BY EventsDiffer
<1>7. e # Exit
  BY EventsDiffer
<1> HIDE DEF e
<1>8. QueueInRange'
  <2> SUFFICES ASSUME NEW i \in 1 .. Len(queue'), NEW s \in Streams, NEW n \in Nat,
                      queue'[i] = Chunk(s, n)
               PROVE  Len(got[s]) < n /\ n <= Sent(s)'
    BY <1>1 DEF QueueInRange
  <2>1. CASE i = Len(queue) + 1
    BY <1>1, <1>2, <1>3, <1>5, <1>6, <2>1 DEF StreamInv, QueueExact
  <2>2. CASE i # Len(queue) + 1
    <3>1. i \in 1 .. Len(queue) /\ queue[i] = Chunk(s, n)
      BY <1>3, <2>2
    <3>2. Len(got[s]) < n /\ n <= Sent(s)
      BY <1>1, <3>1 DEF StreamInv, QueueExact, QueueInRange
    <3> QED
      BY <1>2, <1>5, <3>2
  <2> QED
    BY <2>1, <2>2
<1>9. QueueInOrder'
  <2> SUFFICES ASSUME NEW i \in 1 .. Len(queue'), NEW j \in 1 .. Len(queue'),
                      NEW s \in Streams, NEW m \in Nat, NEW n \in Nat,
                      i < j, queue'[i] = Chunk(s, m), queue'[j] = Chunk(s, n)
               PROVE  m < n
    BY DEF QueueInOrder
  <2>1. i \in 1 .. Len(queue) /\ queue[i] = Chunk(s, m)
    BY <1>3
  <2>2. CASE j = Len(queue) + 1
    <3>1. s = st /\ n = taken[st]
      BY <1>3, <1>6, <2>2
    <3>2. m <= Sent(st)
      BY <1>1, <2>1, <3>1 DEF StreamInv, QueueExact, QueueInRange
    <3> QED
      BY <1>2, <1>5, <3>1, <3>2
  <2>3. CASE j # Len(queue) + 1
    <3>1. j \in 1 .. Len(queue) /\ queue[j] = Chunk(s, n)
      BY <1>3, <2>3
    <3> QED
      BY <1>1, <2>1, <3>1 DEF StreamInv, QueueExact, QueueInOrder
  <2> QED
    BY <2>2, <2>3
<1>10. QueueHasAll'
  <2> SUFFICES ASSUME NEW s \in Streams, NEW n \in Nat, Len(got[s]) < n, n <= Sent(s)'
               PROVE  \E i \in 1 .. Len(queue') : queue'[i] = Chunk(s, n)
    BY <1>1 DEF QueueHasAll
  <2>1. CASE s = st /\ n = taken[st]
    BY <2>1, <1>3 DEF e
  <2>2. CASE ~ (s = st /\ n = taken[st])
    <3>1. n <= Sent(s)
      BY <2>2, <1>2, <1>5
    <3>2. PICK i \in 1 .. Len(queue) : queue[i] = Chunk(s, n)
      BY <1>1, <3>1 DEF StreamInv, QueueExact, QueueHasAll
    <3> QED
      BY <1>3, <3>2
  <2> QED
    BY <2>1, <2>2
<1>11. QueueExact'
  <2>1. \A s \in Streams : Len(got[s]) <= Sent(s)'
    BY <1>1, <1>2, <1>5 DEF StreamInv, QueueExact
  <2> QED
    BY <1>1, <1>8, <1>9, <1>10, <2>1 DEF QueueExact
<1>12. ~drained
  BY <1>1 DEF StreamInv, ExitLast, Drained
<1>13. ExitLast' /\ DrainedIsComplete'
  BY <1>1, <1>3, <1>7, <1>12 DEF StreamInv, ExitLast, DrainedIsComplete
<1>14. DeliveredPrefix'
  BY <1>1 DEF StreamInv, DeliveredPrefix
<1> QED
  BY <1>4, <1>11, <1>13, <1>14 DEF StreamInv

\* Steps after which the consumer takes nothing more: it is gone already, or goes.
LEMMA AbandonSteps ==
    ASSUME StreamInv, (\E st \in Streams : SendFails(st)) \/ ClientGone
    PROVE  StreamInv'
<1>1. /\ UNCHANGED <<command, heir, written, taken, queue, waiter, drained, got>>
      /\ consumer' # "on" /\ consumer' \in {"finished", "gone"}
      /\ consumer' = "finished" => consumer = "finished"
      /\ reader' \in [Streams -> {"read", "send", "done"}]
      /\ \A s \in Streams : reader'[s] = reader[s] \/ reader'[s] = "done"
  BY DEF SendFails, ClientGone, StreamInv, StreamTypeOK
<1>2. StreamTypeOK' /\ QueueExact' /\ ReadersRead' /\ DeliveredPrefix' /\ DrainedIsComplete'
  BY <1>1 DEF StreamInv, StreamTypeOK, QueueExact, ReadersRead, DeliveredPrefix,
              DrainedIsComplete
<1>3. ExitLast'
  BY <1>1 DEF StreamInv, ExitLast, Drained
<1> QED
  BY <1>2, <1>3 DEF StreamInv

\* The waiter before it sends Exit: a drain is one of both readers.
LEMMA DrainSteps ==
    ASSUME StreamInv, WaitReturns \/ DrainDone \/ DrainTimeout
    PROVE  StreamInv'
<1>1. /\ UNCHANGED <<command, heir, written, taken, reader, queue, consumer, got>>
      /\ waiter \in {"wait", "drain"} /\ waiter' \in {"drain", "exit"}
      /\ drained' = drained \/ (drained' = TRUE /\ Drained /\ waiter' = "exit")
  BY DEF WaitReturns, DrainDone, DrainTimeout
<1>2. ~drained /\ consumer # "finished"
  BY <1>1 DEF StreamInv, ExitLast
<1>3. StreamTypeOK' /\ ReadersRead' /\ DeliveredPrefix'
  BY <1>1 DEF StreamInv, StreamTypeOK, ReadersRead, DeliveredPrefix
<1>5. QueueExact'
  BY <1>1, QueueKept DEF StreamInv, Sent
<1>4. ExitLast' /\ DrainedIsComplete'
  BY <1>1, <1>2 DEF StreamInv, StreamTypeOK, ExitLast, DrainedIsComplete, Drained
<1> QED
  BY <1>3, <1>4, <1>5 DEF StreamInv

\* Exit enters the channel last; it is no chunk.
LEMMA ExitStep ==
    ASSUME StreamInv, SendExit
    PROVE  StreamInv'
<1>1. /\ UNCHANGED <<command, heir, written, taken, reader, drained, consumer, got>>
      /\ waiter = "exit" /\ waiter' = "done"
      /\ queue' = IF consumer = "on" THEN Append(queue, Exit) ELSE queue
  BY DEF SendExit
<1>2. consumer # "finished" /\ \A i \in 1 .. Len(queue) : queue[i] # Exit
  BY <1>1 DEF StreamInv, ExitLast
<1>3. CASE consumer # "on"
  BY <1>1, <1>2, <1>3
     DEF StreamInv, StreamTypeOK, QueueExact, ReadersRead, ExitLast, DeliveredPrefix,
         DrainedIsComplete, Drained
<1>4. CASE consumer = "on"
  <2>1. queue \in Seq(Events) /\ Exit \in Events
    BY DEF StreamInv, StreamTypeOK, Events
  <2>2. /\ queue' \in Seq(Events) /\ Len(queue) \in Nat /\ Len(queue') = Len(queue) + 1
        /\ \A i \in 1 .. Len(queue) : queue'[i] = queue[i]
        /\ queue'[Len(queue) + 1] = Exit
    BY <1>1, <1>4, <2>1, AppendEvent
  <2>3. StreamTypeOK' /\ ReadersRead' /\ DeliveredPrefix'
    BY <1>1, <2>2 DEF StreamInv, StreamTypeOK, ReadersRead, DeliveredPrefix
  <2>4. ExitLast' /\ DrainedIsComplete'
    BY <1>1, <1>2, <2>2 DEF StreamInv, ExitLast, DrainedIsComplete, Drained
  <2>5. \A s \in Streams, n \in Nat : Chunk(s, n) # Exit
    BY EventsDiffer
  <2>6. \A s \in Streams : Sent(s)' = Sent(s)
    BY <1>1 DEF Sent
  <2>7. QueueInRange' /\ QueueInOrder'
    BY <1>1, <1>4, <2>2, <2>5, <2>6 DEF StreamInv, QueueExact, QueueInRange, QueueInOrder
  <2>8. QueueHasAll'
    BY <1>1, <1>4, <2>2, <2>6 DEF StreamInv, QueueExact, QueueHasAll
  <2> QED
    BY <1>1, <2>3, <2>4, <2>6, <2>7, <2>8 DEF StreamInv, QueueExact
<1> QED
  BY <1>3, <1>4

\* The chunk at the head of the channel is the next one of its stream.
LEMMA NextChunk ==
    ASSUME StreamInv, consumer = "on", queue # <<>>,
           NEW st \in Streams, NEW n \in Nat, queue[1] = Chunk(st, n)
    PROVE  n = Len(got[st]) + 1 /\ n <= Sent(st)
<1>1. Len(queue) \in Nat /\ Len(queue) > 0
  BY TailEvent DEF StreamInv, StreamTypeOK
<1>6. Len(got[st]) \in Nat /\ Sent(st) \in Int
  BY DEF StreamInv, StreamTypeOK, Sent
<1>2. Len(got[st]) \in Nat /\ Len(got[st]) < n /\ n <= Sent(st) /\ Sent(st) \in Int
  BY <1>1, <1>6 DEF StreamInv, QueueExact, QueueInRange
<1>3. PICK i \in 1 .. Len(queue) : queue[i] = Chunk(st, Len(got[st]) + 1)
  BY SMTT(30), <1>2 DEF StreamInv, QueueExact, QueueHasAll
<1>4. CASE i = 1
  BY <1>3, <1>4, EventsDiffer, <1>2
<1>5. CASE i # 1
  <2>1. n < Len(got[st]) + 1
    BY <1>1, <1>2, <1>3, <1>5 DEF StreamInv, QueueExact, QueueInOrder
  <2> QED
    BY <1>2, <2>1
<1> QED
  BY <1>4, <1>5

\* An event leaves the channel: a chunk for the client, or Exit, which after a
\* drain leaves nothing behind.
LEMMA ReceiveStep ==
    ASSUME StreamInv, Receive
    PROVE  StreamInv'
<1>1. /\ consumer = "on" /\ queue # <<>> /\ queue \in Seq(Events)
      /\ queue' = Tail(queue)
      /\ UNCHANGED <<command, heir, written, taken, reader, waiter, drained>>
  BY DEF Receive, StreamInv, StreamTypeOK
<1>2. /\ queue' \in Seq(Events) /\ Len(queue') \in Nat
      /\ Len(queue') = Len(queue) - 1 /\ Len(queue) \in Nat /\ Len(queue) > 0
      /\ \A i \in 1 .. Len(queue') : queue'[i] = queue[i + 1]
      /\ Head(queue) = queue[1] /\ queue[1] \in Events
  BY <1>1, TailEvent
<1>3. \A s \in Streams : /\ Sent(s)' = Sent(s) /\ Sent(s) \in Int
                         /\ Len(got[s]) \in Nat /\ taken[s] \in Nat /\ Sent(s) <= taken[s]
  BY <1>1 DEF Sent, StreamInv, StreamTypeOK
<1>4. ReadersRead' /\ QueueInOrder'
  BY <1>1, <1>2, <1>3 DEF StreamInv, ReadersRead, QueueExact, QueueInOrder, Receive
<1>5. CASE queue[1] = Exit
  <2>1. consumer' = "finished" /\ got' = got
    BY <1>2, <1>5 DEF Receive
  <2>2. waiter = "done" /\ (drained => Len(queue) = 1)
    BY <1>2, <1>5 DEF StreamInv, ExitLast
  <2>3. StreamTypeOK' /\ QueueExact' /\ DeliveredPrefix'
    <3>1. StreamTypeOK'
      BY <1>1, <1>2, <2>1 DEF StreamInv, StreamTypeOK
    <3>2. QueueExact'
      BY <2>1 DEF QueueExact
    <3>3. DeliveredPrefix'
      BY <1>1, <2>1 DEF StreamInv, DeliveredPrefix
    <3> QED
      BY <3>1, <3>2, <3>3
  <2>4. ExitLast'
    <3>1. ASSUME NEW i \in 1 .. Len(queue'), queue'[i] = Exit, drained PROVE i = Len(queue')
      BY SMTT(30), <1>2, <2>2, <3>1
    <3>2. drained' => waiter' \in {"exit", "done"} /\ Drained'
      BY <1>1 DEF StreamInv, ExitLast, Drained
    <3>3. waiter' = "done" /\ drained' = drained
      BY <1>1, <2>2
    <3> QED
      BY ONLY <3>1, <3>2, <3>3 DEF ExitLast
  <2>5. DrainedIsComplete'
    <3> SUFFICES ASSUME drained, NEW st \in Streams PROVE Len(got[st]) = written[st]
      BY <1>1, <2>1 DEF DrainedIsComplete
    <3>1. taken[st] = written[st] /\ Sent(st) = taken[st]
      BY <1>1 DEF StreamInv, ReadersRead, ExitLast, Drained, Sent
    <3>2. Len(got[st]) <= Sent(st)
      BY <1>1 DEF StreamInv, QueueExact
    <3>3. ~ (Len(got[st]) < Sent(st))
      <4> SUFFICES ASSUME Len(got[st]) < Sent(st) PROVE FALSE
        OBVIOUS
      <4>1. Sent(st) \in Nat
        BY <1>3
      <4>2. PICK i \in 1 .. Len(queue) : queue[i] = Chunk(st, Sent(st))
        BY <1>1, <4>1 DEF StreamInv, QueueExact, QueueHasAll
      <4>3. Len(queue) = 1
        BY <2>2
      <4> QED
        BY <1>5, <4>2, <4>3, EventsDiffer
    <3> QED
      BY <1>3, <3>1, <3>2, <3>3
  <2> QED
    BY <1>4, <2>3, <2>4, <2>5 DEF StreamInv
<1>6. CASE queue[1] # Exit
  <2>1. PICK st \in Streams, n \in Nat : queue[1] = Chunk(st, n)
    BY <1>2, <1>6 DEF Events
  <2>2. n = Len(got[st]) + 1 /\ n <= Sent(st)
    BY <1>1, <2>1, NextChunk
  <2>3. queue[1].event = st /\ queue[1].data = n
    BY <2>1, EventsDiffer
  <2>4. consumer' = consumer /\ got' = [got EXCEPT ![st] = Append(@, n)]
    BY <1>2, <1>6, <2>3 DEF Receive
  <2>5. /\ got' \in [Streams -> Seq(Nat)]
        /\ Len(got'[st]) = n /\ got'[st][n] = n
        /\ \A k \in 1 .. Len(got[st]) : got'[st][k] = got[st][k]
        /\ \A s \in Streams : s # st => got'[s] = got[s]
    BY <2>2, <2>4, AppendEvent DEF StreamInv, StreamTypeOK
  <2>6. StreamTypeOK'
    BY <1>1, <1>2, <2>4, <2>5 DEF StreamInv, StreamTypeOK
  <2>7. DeliveredPrefix'
    <3> SUFFICES ASSUME NEW s \in Streams
                 PROVE  /\ Len(got'[s]) <= taken[s]
                        /\ \A k \in 1 .. Len(got'[s]) : got'[s][k] = k
      BY <1>1, <2>5 DEF DeliveredPrefix
    <3>1. Len(got[s]) <= taken[s] /\ \A k \in 1 .. Len(got[s]) : got[s][k] = k
      BY DEF StreamInv, StreamTypeOK, DeliveredPrefix
    <3>2. CASE s # st
      BY <2>5, <3>1, <3>2
    <3>3. CASE s = st
      <4>1. Len(got'[st]) <= taken[st]
        BY <1>3, <2>2, <2>5
      <4>2. ASSUME NEW k \in 1 .. Len(got'[st]), k # n PROVE k \in 1 .. Len(got[st])
        BY <1>3, <2>2, <2>5, <4>2
      <4>3. \A k \in 1 .. Len(got'[st]) : got'[st][k] = k
        BY <2>5, <3>1, <3>3, <4>2
      <4> QED
        BY <3>3, <4>1, <4>3
    <3> QED
      BY <3>2, <3>3
  <2>8. ExitLast' /\ DrainedIsComplete'
    <3>1. ASSUME NEW i \in 1 .. Len(queue'), queue'[i] = Exit
          PROVE  waiter = "done" /\ (drained => i = Len(queue'))
      <4>1. i + 1 \in 1 .. Len(queue) /\ queue[i + 1] = Exit
        BY <1>2, <3>1
      <4>2. waiter = "done" /\ (drained => i + 1 = Len(queue))
        BY <4>1 DEF StreamInv, ExitLast
      <4> QED
        BY <1>2, <4>2
    <3> QED
      BY <1>1, <2>4, <3>1 DEF StreamInv, ExitLast, DrainedIsComplete, Drained
  <2>9. QueueInRange'
    <3> SUFFICES ASSUME NEW i \in 1 .. Len(queue'), NEW s \in Streams, NEW m \in Nat,
                        queue'[i] = Chunk(s, m)
                 PROVE  Len(got'[s]) < m /\ m <= Sent(s)'
      BY DEF QueueInRange
    <3>1. queue[i + 1] = Chunk(s, m) /\ i + 1 \in 1 .. Len(queue) /\ 1 \in 1 .. Len(queue)
      BY <1>2
    <3>2. Len(got[s]) < m /\ m <= Sent(s)
      BY <1>1, <3>1 DEF StreamInv, QueueExact, QueueInRange
    <3>3. s = st => n < m
      BY <1>1, <2>1, <3>1 DEF StreamInv, QueueExact, QueueInOrder
    <3> QED
      BY <1>3, <2>5, <3>2, <3>3
  <2>10. QueueHasAll'
    <3> SUFFICES ASSUME NEW s \in Streams, NEW m \in Nat, Len(got'[s]) < m, m <= Sent(s)'
                 PROVE  \E i \in 1 .. Len(queue') : queue'[i] = Chunk(s, m)
      BY DEF QueueHasAll
    <3>1. Len(got[s]) < m /\ m <= Sent(s) /\ (s = st => m # n)
      BY <1>3, <2>2, <2>5
    <3>2. PICK i \in 1 .. Len(queue) : queue[i] = Chunk(s, m)
      BY <1>1, <3>1 DEF StreamInv, QueueExact, QueueHasAll
    <3>3. i # 1
      BY <2>1, <3>1, <3>2, EventsDiffer
    <3>4. i - 1 \in 1 .. Len(queue') /\ queue'[i - 1] = queue[i]
      BY <1>2, <3>3
    <3> QED
      BY <3>2, <3>4
  <2>11. \A s \in Streams : Len(got'[s]) <= Sent(s)'
    BY <1>1, <1>3, <2>2, <2>5 DEF StreamInv, QueueExact
  <2> QED
    BY <1>4, <2>6, <2>7, <2>8, <2>9, <2>10, <2>11 DEF StreamInv, QueueExact
<1> QED
  BY <1>5, <1>6

\* The invariant, for every set of streams and every capacity.
THEOREM StreamInvariant == Spec => []StreamInv
<1>1. ASSUME StreamInv, [Next]_vars PROVE StreamInv'
  <2>1. CASE UNCHANGED vars
    BY <1>1, <2>1 DEF vars, StreamInv, StreamTypeOK, QueueExact, QueueInRange, QueueInOrder,
       QueueHasAll, ReadersRead, ExitLast, DeliveredPrefix, DrainedIsComplete, Sent, Drained
  <2> QED
    BY <1>1, <2>1, CommandSteps, ReadSteps, SendStep, AbandonSteps, DrainSteps, ExitStep,
       ReceiveStep DEF Next, ReaderStep, WaiterStep
<1> QED
  BY <1>1, StreamInit, PTL DEF Spec

\* Each stream reaches the client in order and without gaps, whatever the
\* channel's backpressure and the interleaving of the streams in it.
THEOREM StreamsDeliveredInOrder == Spec => []DeliveredPrefix
<1>1. StreamInv => DeliveredPrefix
  BY DEF StreamInv
<1> QED
  BY <1>1, StreamInvariant, PTL

\* When both readers finished within the drain deadline, a stream that ends
\* with Exit delivered everything that was written.
THEOREM DrainedStreamsComplete == Spec => []DrainedIsComplete
<1>1. StreamInv => DrainedIsComplete
  BY DEF StreamInv
<1> QED
  BY <1>1, StreamInvariant, PTL
=============================================================================
