-------------------------- MODULE ProxySpliceProofs --------------------------
(* Theorems about ProxySplice: what passes through the tunnel in each        *)
(* direction, for every socket size and every number of bytes.               *)
EXTENDS ProxySplice, TLAPS

\* q is the bytes that follow byte a.
Run(q, a) == \A i \in 1 .. Len(q) : q[i] = a + i

\* Bytes the backend was given, the head included, and the client was given.
Given == Len(backendGot) + Len(toBackend)
Delivered == Len(clientGot) + Len(toClient)

\* Type correctness.
SpliceTypeOK ==
    /\ client \in {"open", "half", "gone"} /\ backend \in {"open", "half", "closed"}
    /\ clientSent \in Nat /\ backendSent \in Nat
    /\ clientGot \in Seq(Int) /\ toClient \in Seq(Int) /\ fromClient \in Seq(Int)
    /\ backendGot \in Seq(Int) /\ toBackend \in Seq(Int) /\ fromBackend \in Seq(Int)
    /\ prefetched \in Seq(Int)
    /\ writeShut \in BOOLEAN /\ outerShut \in BOOLEAN
    /\ main \in {"replay", "leftover", "read", "write", "shut", "shutOuter", "join", "done"}
    /\ pump \in {"off", "read", "write", "shut", "done"}
    /\ held \in [main : Int, pump : Int]

\* Who has started and who has shut what down.
Phases ==
    /\ main \in {"replay", "leftover"} => pump = "off"
    /\ pump = "off" => main \in {"replay", "leftover", "done"}
    /\ writeShut => pump = "done" \/ main \in {"shutOuter", "join", "done"}
    /\ outerShut => main \in {"join", "done"}

\* Client to backend: each place holds consecutive bytes, and each begins where
\* the one before it ends, as long as that one may still be forwarded.
Upstream ==
    /\ Run(backendGot, -1) /\ Run(toBackend, Len(backendGot) - 1)
    /\ Run(fromClient, clientSent - Len(fromClient))
    /\ main = "replay" =>
         Given = 0 /\ Run(prefetched, 0) /\ Len(prefetched) + Len(fromClient) = clientSent
    /\ main = "leftover" =>
         Run(prefetched, Given - 1) /\ Given - 1 + Len(prefetched) + Len(fromClient) = clientSent
    /\ pump = "read" => Given - 1 + Len(fromClient) = clientSent
    /\ pump = "write" => held.pump = Given /\ Given + Len(fromClient) = clientSent
    /\ pump \in {"shut", "done"} /\ backend # "closed" /\ main \in {"read", "write"} =>
         client # "open" /\ Given = clientSent + 1

\* Backend to client.
Downstream ==
    /\ Run(clientGot, 0) /\ Run(toClient, Len(clientGot))
    /\ Run(fromBackend, backendSent - Len(fromBackend))
    /\ main \in {"replay", "leftover", "read"} => Delivered + Len(fromBackend) = backendSent
    /\ main = "write" =>
         held.main = Delivered + 1 /\ Delivered + 1 + Len(fromBackend) = backendSent
    /\ main \in {"shut", "shutOuter", "join"} /\ client # "gone" =>
         Delivered = backendSent /\ backend # "open"

\* The inductive invariant.
SpliceInv == SpliceTypeOK /\ Phases /\ Upstream /\ Downstream

-----------------------------------------------------------------------------
\* Adding the next byte to a run, and taking the first one off.
LEMMA RunAppend ==
    ASSUME NEW q \in Seq(Int), NEW a \in Int, Run(q, a), NEW b \in Int, b = a + Len(q) + 1
    PROVE  /\ Append(q, b) \in Seq(Int) /\ Len(q) \in Nat
           /\ Len(Append(q, b)) = Len(q) + 1
           /\ Run(Append(q, b), a)
<1>1. /\ Append(q, b) \in Seq(Int) /\ Len(q) \in Nat
      /\ Len(Append(q, b)) = Len(q) + 1
      /\ \A i \in 1 .. Len(q) : Append(q, b)[i] = q[i]
      /\ Append(q, b)[Len(q) + 1] = b
  OBVIOUS
<1> QED
  BY <1>1 DEF Run

LEMMA RunTail ==
    ASSUME NEW q \in Seq(Int), NEW a \in Int, Run(q, a), q # <<>>
    PROVE  /\ Tail(q) \in Seq(Int) /\ Len(q) \in Nat /\ Len(q) > 0
           /\ Len(Tail(q)) = Len(q) - 1
           /\ Head(q) = a + 1
           /\ Run(Tail(q), a + 1)
<1>1. /\ Tail(q) \in Seq(Int) /\ Len(q) \in Nat /\ Len(q) > 0
      /\ Len(Tail(q)) = Len(q) - 1
      /\ \A i \in 1 .. Len(Tail(q)) : Tail(q)[i] = q[i + 1]
      /\ Head(q) = q[1]
  OBVIOUS
<1> QED
  BY <1>1 DEF Run

\* The empty run, and the lengths the invariant speaks of.
LEMMA RunEmpty ==
    ASSUME NEW a
    PROVE  Run(<<>>, a) /\ Len(<<>>) = 0 /\ <<>> \in Seq(Int)
BY DEF Run

LengthsOK ==
    /\ Len(backendGot) \in Nat /\ Len(toBackend) \in Nat /\ Len(fromBackend) \in Nat
    /\ Len(clientGot) \in Nat /\ Len(toClient) \in Nat /\ Len(fromClient) \in Nat
    /\ Len(prefetched) \in Nat /\ clientSent \in Nat /\ backendSent \in Nat
    /\ held.main \in Int /\ held.pump \in Int
    /\ Given \in Nat /\ Delivered \in Nat

LEMMA Lengths ==
    ASSUME SpliceTypeOK
    PROVE  LengthsOK
BY DEF SpliceTypeOK, LengthsOK, Given, Delivered

\* Each thread changes its own copy buffer.
LEMMA HeldByPump ==
    ASSUME NEW h \in [main : Int, pump : Int], NEW b \in Int
    PROVE  /\ [h EXCEPT !.pump = b] \in [main : Int, pump : Int]
           /\ [h EXCEPT !.pump = b].main = h.main
           /\ [h EXCEPT !.pump = b].pump = b
OBVIOUS

LEMMA HeldByMain ==
    ASSUME NEW h \in [main : Int, pump : Int], NEW b \in Int
    PROVE  /\ [h EXCEPT !.main = b] \in [main : Int, pump : Int]
           /\ [h EXCEPT !.main = b].pump = h.pump
           /\ [h EXCEPT !.main = b].main = b
OBVIOUS

-----------------------------------------------------------------------------
\* The bytes that the BufReader prefetched are the client's first.
LEMMA SpliceInit == Init => SpliceInv
<1> SUFFICES ASSUME Init PROVE SpliceInv
  OBVIOUS
<1>1. clientSent \in Nat /\ prefetched = [i \in 1 .. clientSent |-> i]
  BY SpliceBoundsAssumption DEF Init
<1>2. prefetched \in Seq(Int) /\ Len(prefetched) = clientSent /\ Run(prefetched, 0)
  BY <1>1 DEF Run
<1>3. SpliceTypeOK
  <2>1. held \in [main : Int, pump : Int]
    BY DEF Init
  <2> QED
    BY <1>1, <1>2, <2>1, RunEmpty DEF Init, SpliceTypeOK
<1>4. Phases
  BY DEF Init, Phases
<1>5. Upstream
  BY <1>1, <1>2, RunEmpty DEF Init, Upstream, Given
<1>6. Downstream
  BY RunEmpty DEF Init, Downstream, Delivered
<1> QED
  BY <1>3, <1>4, <1>5, <1>6 DEF SpliceInv

\* A peer sends: its next byte enters its socket.
LEMMA SendSteps ==
    ASSUME SpliceInv, ClientSends \/ BackendSends
    PROVE  SpliceInv'
<1> USE DEF SpliceInv, LengthsOK
<1> LengthsOK
  BY Lengths
<1>1. CASE ClientSends
  <2>1. /\ client = "open" /\ clientSent' = clientSent + 1
        /\ fromClient' = Append(fromClient, clientSent + 1)
        /\ UNCHANGED <<client, clientGot, prefetched, toClient, backendVars, fromBackend,
                       toBackend, shutVars, main, pump, held>>
    BY <1>1 DEF ClientSends
  <2>2. /\ fromClient' \in Seq(Int) /\ Len(fromClient') = Len(fromClient) + 1
        /\ Run(fromClient', clientSent' - Len(fromClient'))
    <3> DEFINE a == clientSent - Len(fromClient)
    <3>1. a \in Int
      OBVIOUS
    <3>2. Run(fromClient, a) /\ clientSent + 1 = a + Len(fromClient) + 1
      BY DEF Upstream
    <3> HIDE DEF a
    <3>3. /\ fromClient' \in Seq(Int) /\ Len(fromClient') = Len(fromClient) + 1
          /\ Run(fromClient', a)
      BY <2>1, <3>1, <3>2, RunAppend DEF SpliceTypeOK
    <3>4. a = clientSent' - Len(fromClient')
      BY <2>1, <3>1, <3>3 DEF a
    <3> QED
      BY <3>3, <3>4
  <2>3. SpliceTypeOK' /\ Phases' /\ Downstream' /\ Given' = Given
    BY <2>1, <2>2 DEF SpliceTypeOK, Phases, Downstream, Delivered, Given, backendVars, shutVars
  <2>4. /\ Run(backendGot', -1) /\ Run(toBackend', Len(backendGot') - 1)
        /\ Run(fromClient', clientSent' - Len(fromClient'))
    BY <2>1, <2>2 DEF Upstream, backendVars
  <2>5. clientSent' - Len(fromClient') = clientSent - Len(fromClient)
    BY <2>1, <2>2
  <2>6. /\ clientSent \in Int /\ clientSent' \in Int /\ Given \in Int /\ Len(prefetched) \in Int
        /\ Len(fromClient) \in Int /\ Len(fromClient') \in Int
    BY <2>1, <2>2
  <2>7. /\ main = "replay" =>
             Given = 0 /\ Run(prefetched, 0) /\ Len(prefetched) + Len(fromClient') = clientSent'
        /\ main = "leftover" =>
             Run(prefetched, Given - 1) /\ Given - 1 + Len(prefetched) + Len(fromClient') = clientSent'
    <3>1. /\ main = "replay" =>
               Given = 0 /\ Run(prefetched, 0) /\ Len(prefetched) + Len(fromClient) = clientSent
          /\ main = "leftover" =>
               Run(prefetched, Given - 1) /\ Given - 1 + Len(prefetched) + Len(fromClient) = clientSent
      BY DEF Upstream
    <3> QED
      BY ONLY <2>5, <2>6, <3>1
  <2>8. /\ pump = "read" => Given - 1 + Len(fromClient') = clientSent'
        /\ pump = "write" => held.pump = Given /\ Given + Len(fromClient') = clientSent'
    <3>1. /\ pump = "read" => Given - 1 + Len(fromClient) = clientSent
          /\ pump = "write" => held.pump = Given /\ Given + Len(fromClient) = clientSent
      BY DEF Upstream
    <3> QED
      BY ONLY <2>5, <2>6, <3>1
  <2>9. ~(pump \in {"shut", "done"} /\ backend # "closed" /\ main \in {"read", "write"})
    BY <2>1 DEF Upstream
  <2>10. Upstream'
    <3> HIDE DEF Given
    <3> QED
      BY <2>1, <2>3, <2>4, <2>7, <2>8, <2>9 DEF Upstream, backendVars
  <2> QED
    BY <2>3, <2>10
<1>2. CASE BackendSends
  <2>1. /\ backend = "open" /\ backendSent' = backendSent + 1
        /\ fromBackend' = Append(fromBackend, backendSent + 1)
        /\ UNCHANGED <<clientVars, prefetched, fromClient, toClient, backend, backendGot,
                       toBackend, shutVars, main, pump, held>>
    BY <1>2 DEF BackendSends
  <2>2. /\ fromBackend' \in Seq(Int) /\ Len(fromBackend') = Len(fromBackend) + 1
        /\ Run(fromBackend', backendSent' - Len(fromBackend'))
    <3> DEFINE a == backendSent - Len(fromBackend)
    <3>1. a \in Int
      OBVIOUS
    <3>2. Run(fromBackend, a) /\ backendSent + 1 = a + Len(fromBackend) + 1
      BY DEF Downstream
    <3> HIDE DEF a
    <3>3. /\ fromBackend' \in Seq(Int) /\ Len(fromBackend') = Len(fromBackend) + 1
          /\ Run(fromBackend', a)
      BY <2>1, <3>1, <3>2, RunAppend DEF SpliceTypeOK
    <3>4. a = backendSent' - Len(fromBackend')
      BY <2>1, <3>1, <3>3 DEF a
    <3> QED
      BY <3>3, <3>4
  <2>3. SpliceTypeOK' /\ Phases' /\ Upstream' /\ Delivered' = Delivered
    BY <2>1, <2>2 DEF SpliceTypeOK, Phases, Upstream, Delivered, Given, clientVars, shutVars
  <2>4. Downstream'
    <3>1. ASSUME NEW d \in Nat, d + Len(fromBackend) = backendSent
          PROVE  d + Len(fromBackend') = backendSent'
      <4>1. Len(fromBackend') = Len(fromBackend) + 1 /\ backendSent' = backendSent + 1
        BY <2>1, <2>2
      <4> QED
        BY <3>1, <4>1
    <3>2. main \notin {"shut", "shutOuter", "join"} \/ client = "gone"
      BY <2>1 DEF Downstream
    <3> QED
      BY SMTT(30), <2>1, <2>2, <2>3, <3>1, <3>2 DEF Downstream, clientVars
  <2> QED
    BY <2>3, <2>4
<1> QED
  BY <1>1, <1>2

\* A peer receives: a byte moves from what was written to it to what it got.
LEMMA ReceiveSteps ==
    ASSUME SpliceInv, ClientReceives \/ BackendReceives
    PROVE  SpliceInv'
<1> USE DEF SpliceInv, LengthsOK
<1> LengthsOK
  BY Lengths
<1>1. CASE ClientReceives
  <2>1. /\ toClient # <<>> /\ clientGot' = Append(clientGot, Head(toClient))
        /\ toClient' = Tail(toClient)
        /\ UNCHANGED <<client, clientSent, prefetched, fromClient, backendVars, fromBackend,
                       toBackend, shutVars, main, pump, held>>
    BY <1>1 DEF ClientReceives
  <2>2. /\ toClient' \in Seq(Int) /\ Len(toClient') = Len(toClient) - 1
        /\ Head(toClient) = Len(clientGot) + 1 /\ Run(toClient', Len(clientGot) + 1)
    BY <2>1, RunTail DEF SpliceTypeOK, Downstream
  <2>3. /\ clientGot' \in Seq(Int) /\ Len(clientGot') = Len(clientGot) + 1
        /\ Run(clientGot', 0)
    BY <2>1, <2>2, RunAppend DEF SpliceTypeOK, Downstream
  <2>4. SpliceTypeOK' /\ Phases' /\ Upstream' /\ Delivered' = Delivered
    BY <2>1, <2>2, <2>3
       DEF SpliceTypeOK, Phases, Upstream, Given, Delivered, backendVars, shutVars
  <2>5. Downstream'
    BY <2>1, <2>2, <2>3, <2>4 DEF Downstream, backendVars
  <2> QED
    BY <2>4, <2>5
<1>2. CASE BackendReceives
  <2>1. /\ toBackend # <<>> /\ backendGot' = Append(backendGot, Head(toBackend))
        /\ toBackend' = Tail(toBackend)
        /\ UNCHANGED <<clientVars, prefetched, fromClient, toClient, backend, backendSent,
                       fromBackend, shutVars, main, pump, held>>
    BY <1>2 DEF BackendReceives
  <2>2. /\ toBackend' \in Seq(Int) /\ Len(toBackend') = Len(toBackend) - 1
        /\ Head(toBackend) = Len(backendGot) /\ Run(toBackend', Len(backendGot))
    <3> DEFINE a == Len(backendGot) - 1
    <3>1. a \in Int
      OBVIOUS
    <3>2. Run(toBackend, a) /\ a + 1 = Len(backendGot)
      BY DEF Upstream
    <3> HIDE DEF a
    <3> QED
      BY <2>1, <3>1, <3>2, RunTail DEF SpliceTypeOK
  <2>3. /\ backendGot' \in Seq(Int) /\ Len(backendGot') = Len(backendGot) + 1
        /\ Run(backendGot', -1)
    BY SMTT(30), <2>1, <2>2, RunAppend DEF SpliceTypeOK, Upstream
  <2>4. SpliceTypeOK' /\ Phases' /\ Downstream' /\ Given' = Given
    BY <2>1, <2>2, <2>3
       DEF SpliceTypeOK, Phases, Downstream, Given, Delivered, clientVars, shutVars
  <2>5. Len(backendGot') - 1 = Len(backendGot)
    BY <2>3
  <2>6. Upstream'
    BY <2>1, <2>2, <2>3, <2>4, <2>5 DEF Upstream, clientVars
  <2> QED
    BY <2>4, <2>6
<1> QED
  BY <1>1, <1>2

\* A peer ends its input or leaves: nothing moves.
LEMMA LeaveSteps ==
    ASSUME SpliceInv, ClientHalfCloses \/ ClientLeaves \/ BackendHalfCloses \/ BackendCloses
    PROVE  SpliceInv'
<1>1. /\ UNCHANGED <<clientSent, clientGot, prefetched, fromClient, toClient, backendSent,
                     backendGot, fromBackend, toBackend, shutVars, main, pump, held>>
      /\ client' = client \/ client' \in {"half", "gone"}
      /\ client = "gone" => client' = "gone"
      /\ backend' = backend \/ backend' \in {"half", "closed"}
      /\ backend = "closed" => backend' = "closed"
  BY DEF ClientHalfCloses, ClientLeaves, BackendHalfCloses, BackendCloses, clientVars, backendVars
<1>2. SpliceTypeOK' /\ Phases'
  BY <1>1 DEF SpliceInv, SpliceTypeOK, Phases, shutVars
<1>3. Upstream'
  BY <1>1 DEF SpliceInv, Upstream, Given
<1>4. Downstream'
  BY <1>1 DEF SpliceInv, Downstream, Delivered
<1> QED
  BY <1>2, <1>3, <1>4 DEF SpliceInv

\* A byte is written to the backend: the head, a prefetched byte or the byte
\* that the pump holds, each of them the next one.
LEMMA GiveSteps ==
    ASSUME SpliceInv, ReplayHead \/ ForwardLeftover \/ PumpWrite
    PROVE  SpliceInv'
<1> USE DEF SpliceInv, LengthsOK
<1> LengthsOK
  BY Lengths
<1>0. UNCHANGED <<clientVars, fromClient, toClient, backendVars, fromBackend, shutVars, held>>
  BY DEF ReplayHead, ForwardLeftover, PumpWrite
<1>1. ASSUME toBackend' = Append(toBackend, Given)
      PROVE  /\ toBackend' \in Seq(Int) /\ Given' = Given + 1
             /\ Run(toBackend', Len(backendGot) - 1)
  BY <1>0, <1>1, RunAppend DEF SpliceTypeOK, Upstream, Given, backendVars
<1>2. CASE ReplayHead
  <2>1. /\ main = "replay" /\ main' = "leftover" /\ pump = "off" /\ Given = 0
        /\ toBackend' = Append(toBackend, Given) /\ UNCHANGED <<pump, prefetched>>
        /\ ~writeShut
    BY <1>2 DEF ReplayHead, Upstream, Phases, BackendTakes
  <2>2. SpliceTypeOK' /\ Phases' /\ Downstream'
    BY <1>0, <1>1, <2>1
       DEF SpliceTypeOK, Phases, Downstream, Delivered, clientVars, backendVars, shutVars
  <2>3. Upstream'
    BY <1>0, <1>1, <2>1 DEF Upstream, clientVars, backendVars
  <2> QED
    BY <2>2, <2>3
<1>3. CASE ForwardLeftover
  <2>1. /\ main = "leftover" /\ prefetched # <<>> /\ pump = "off"
        /\ toBackend' = Append(toBackend, Head(prefetched))
        /\ prefetched' = Tail(prefetched) /\ UNCHANGED <<main, pump>>
    BY <1>3 DEF ForwardLeftover, Phases
  <2>2. /\ prefetched' \in Seq(Int) /\ Len(prefetched') = Len(prefetched) - 1
        /\ Head(prefetched) = Given /\ Run(prefetched', Given)
    <3> DEFINE a == Given - 1
    <3>1. a \in Int
      OBVIOUS
    <3>2. Run(prefetched, a) /\ a + 1 = Given
      BY <2>1 DEF Upstream
    <3> HIDE DEF a
    <3> QED
      BY <2>1, <3>1, <3>2, RunTail DEF SpliceTypeOK
  <2>3. toBackend' = Append(toBackend, Given)
    BY <2>1, <2>2
  <2>4. SpliceTypeOK' /\ Phases' /\ Downstream'
    BY <1>0, <1>1, <2>1, <2>2, <2>3
       DEF SpliceTypeOK, Phases, Downstream, Delivered, clientVars, backendVars, shutVars
  <2>5. Given' - 1 = Given
    BY <1>1, <2>1, <2>3
  <2>6. Given' - 1 + Len(prefetched') + Len(fromClient) = clientSent
    <3>1. Given - 1 + Len(prefetched) + Len(fromClient) = clientSent
      BY <2>1 DEF Upstream
    <3> QED
      BY SMTT(30), <2>2, <2>5, <3>1
  <2>7. Run(prefetched', Given' - 1) /\ Run(toBackend', Len(backendGot) - 1)
    BY <1>1, <2>2, <2>3, <2>5
  <2>8. Upstream'
    BY <1>0, <2>1, <2>6, <2>7 DEF Upstream, clientVars, backendVars
  <2> QED
    BY <2>4, <2>8
<1>4. CASE PumpWrite
  <2>1. /\ pump = "write" /\ pump' = "read" /\ held.pump = Given
        /\ toBackend' = Append(toBackend, Given) /\ UNCHANGED <<main, prefetched>>
        /\ main \notin {"replay", "leftover"} /\ ~writeShut
    BY <1>4 DEF PumpWrite, Upstream, Phases, BackendTakes
  <2>2. SpliceTypeOK' /\ Phases' /\ Downstream'
    BY <1>0, <1>1, <2>1
       DEF SpliceTypeOK, Phases, Downstream, Delivered, clientVars, backendVars, shutVars
  <2>3. Upstream'
    BY <1>0, <1>1, <2>1 DEF Upstream, clientVars, backendVars
  <2> QED
    BY <2>2, <2>3
<1> QED
  BY <1>2, <1>3, <1>4

\* The pump reads: the byte it holds is the next one, and when there is none
\* left of a client that ended its input, the backend was given all of it.
LEMMA PumpSteps ==
    ASSUME SpliceInv, PumpRead \/ PumpEof \/ PumpWriteFails \/ PumpShut
    PROVE  SpliceInv'
<1> USE DEF SpliceInv, LengthsOK
<1> LengthsOK
  BY Lengths
<1>0. UNCHANGED <<clientVars, prefetched, toClient, backendVars, fromBackend, toBackend,
                  outerShut, main>>
  BY DEF PumpRead, PumpEof, PumpWriteFails, PumpShut, shutVars
<1>1. Given' = Given /\ Delivered' = Delivered
  BY <1>0 DEF Given, Delivered, clientVars, backendVars
<1>2. CASE PumpRead
  <2>1. /\ pump = "read" /\ pump' = "write" /\ fromClient # <<>>
        /\ held' = [held EXCEPT !.pump = Head(fromClient)]
        /\ fromClient' = Tail(fromClient) /\ writeShut' = writeShut
    BY <1>2 DEF PumpRead, shutVars
  <2>2. /\ fromClient' \in Seq(Int) /\ Len(fromClient') = Len(fromClient) - 1
        /\ Head(fromClient) = clientSent - Len(fromClient) + 1
        /\ Run(fromClient', clientSent - Len(fromClient'))
    <3> DEFINE a == clientSent - Len(fromClient)
    <3>1. a \in Int
      OBVIOUS
    <3>2. Run(fromClient, a)
      BY DEF Upstream
    <3> HIDE DEF a
    <3>3. /\ fromClient' \in Seq(Int) /\ Len(fromClient') = Len(fromClient) - 1
          /\ Head(fromClient) = a + 1 /\ Run(fromClient', a + 1)
      BY <2>1, <3>1, <3>2, RunTail DEF SpliceTypeOK
    <3>4. a + 1 = clientSent - Len(fromClient')
      BY <3>1, <3>3 DEF a
    <3> QED
      BY <3>3, <3>4 DEF a
  <2>3. /\ held' \in [main : Int, pump : Int] /\ held'.main = held.main
        /\ held'.pump = Head(fromClient)
    <3>1. Head(fromClient) \in Int /\ held \in [main : Int, pump : Int]
      BY <2>2 DEF SpliceTypeOK
    <3> QED
      BY <2>1, <3>1, HeldByPump
  <2>4. main \notin {"replay", "leftover"}
    BY <2>1 DEF Phases
  <2>5. SpliceTypeOK' /\ Phases' /\ Downstream'
    BY <1>0, <1>1, <2>1, <2>2, <2>3, <2>4
       DEF SpliceTypeOK, Phases, Downstream, clientVars, backendVars
  <2>6. Given + Len(fromClient') = clientSent /\ held'.pump = Given
    <3>1. Given - 1 + Len(fromClient) = clientSent
      BY <2>1 DEF Upstream
    <3> QED
      BY SMTT(30), <2>2, <2>3, <3>1
  <2>7. Upstream'
    BY <1>0, <1>1, <2>1, <2>2, <2>4, <2>6 DEF Upstream, clientVars, backendVars
  <2> QED
    BY <2>5, <2>7
<1>3. CASE ~PumpRead
  <2>1. /\ UNCHANGED <<fromClient, held>>
        /\ \/ pump = "read" /\ pump' = "shut" /\ fromClient = <<>> /\ writeShut' = writeShut
              /\ (client # "open" \/ outerShut)
           \/ pump = "write" /\ pump' = "shut" /\ writeShut' = writeShut
              /\ (backend = "closed" \/ writeShut)
           \/ pump = "shut" /\ pump' = "done" /\ writeShut' = TRUE
    BY <1>3 DEF PumpEof, PumpWriteFails, PumpShut, BackendRefuses, shutVars
  <2>2. main \notin {"replay", "leftover"}
    BY <2>1 DEF Phases
  <2>3. SpliceTypeOK'
    BY <1>0, <2>1 DEF SpliceTypeOK, clientVars, backendVars
  <2>5. Phases' /\ Downstream'
    BY <1>0, <1>1, <2>1, <2>2 DEF Phases, Downstream, clientVars, backendVars
  <2>4. Upstream'
    BY SMTT(30), <1>0, <1>1, <2>1, <2>2, RunEmpty DEF Phases, Upstream, clientVars, backendVars
  <2> QED
    BY <2>3, <2>4, <2>5
<1> QED
  BY <1>2, <1>3

\* The connection's thread copies: the byte it holds is the next one, and it
\* stops when there is none left, or the client is gone.
LEMMA CopySteps ==
    ASSUME SpliceInv, CopyRead \/ CopyEof \/ CopyWrite \/ CopyWriteFails
    PROVE  SpliceInv'
<1> USE DEF SpliceInv, LengthsOK
<1> LengthsOK
  BY Lengths
<1>0. UNCHANGED <<clientVars, prefetched, fromClient, backendVars, toBackend, shutVars, pump>>
  BY DEF CopyRead, CopyEof, CopyWrite, CopyWriteFails
<1>1. Given' = Given /\ main \in {"read", "write"} /\ main' \in {"read", "write", "shut"}
  BY <1>0 DEF Given, backendVars, CopyRead, CopyEof, CopyWrite, CopyWriteFails
<1>2. Phases'
  BY <1>0, <1>1 DEF Phases, shutVars
<1>3. ASSUME held'.pump = held.pump PROVE Upstream'
  BY <1>0, <1>1, <1>3 DEF Upstream, clientVars, backendVars
<1>4. CASE CopyRead
  <2>1. /\ main = "read" /\ main' = "write" /\ fromBackend # <<>> /\ toClient' = toClient
        /\ held' = [held EXCEPT !.main = Head(fromBackend)]
        /\ fromBackend' = Tail(fromBackend)
    BY <1>4 DEF CopyRead
  <2>2. /\ fromBackend' \in Seq(Int) /\ Len(fromBackend') = Len(fromBackend) - 1
        /\ Head(fromBackend) = backendSent - Len(fromBackend) + 1
        /\ Run(fromBackend', backendSent - Len(fromBackend'))
    <3> DEFINE a == backendSent - Len(fromBackend)
    <3>1. a \in Int
      OBVIOUS
    <3>2. Run(fromBackend, a)
      BY DEF Downstream
    <3> HIDE DEF a
    <3>3. /\ fromBackend' \in Seq(Int) /\ Len(fromBackend') = Len(fromBackend) - 1
          /\ Head(fromBackend) = a + 1 /\ Run(fromBackend', a + 1)
      BY <2>1, <3>1, <3>2, RunTail DEF SpliceTypeOK
    <3>4. a + 1 = backendSent - Len(fromBackend')
      BY <3>1, <3>3 DEF a
    <3> QED
      BY <3>3, <3>4 DEF a
  <2>3. /\ held' \in [main : Int, pump : Int] /\ held'.pump = held.pump
        /\ held'.main = Head(fromBackend)
    <3>1. Head(fromBackend) \in Int /\ held \in [main : Int, pump : Int]
      BY <2>2 DEF SpliceTypeOK
    <3> QED
      BY <2>1, <3>1, HeldByMain
  <2>4. SpliceTypeOK'
    BY <1>0, <1>1, <2>1, <2>2, <2>3 DEF SpliceTypeOK, clientVars, backendVars, shutVars
  <2>5. Downstream'
    BY <1>0, <2>1, <2>2, <2>3 DEF Downstream, Delivered, clientVars, backendVars
  <2> QED
    BY <1>2, <1>3, <2>3, <2>4, <2>5
<1>5. CASE CopyWrite
  <2>1. /\ main = "write" /\ main' = "read" /\ UNCHANGED <<fromBackend, held>>
        /\ toClient' = Append(toClient, held.main)
    BY <1>5 DEF CopyWrite
  <2>2. held.main = Len(clientGot) + Len(toClient) + 1
    BY <2>1 DEF Downstream, Delivered
  <2>3. /\ toClient' \in Seq(Int) /\ Len(toClient') = Len(toClient) + 1
        /\ Run(toClient', Len(clientGot))
    BY SMTT(30), <2>1, <2>2, RunAppend DEF SpliceTypeOK, Downstream
  <2>4. SpliceTypeOK'
    BY <1>0, <1>1, <2>1, <2>3 DEF SpliceTypeOK, clientVars, backendVars, shutVars
  <2>5. Downstream'
    BY <1>0, <2>1, <2>3 DEF Downstream, Delivered, clientVars, backendVars
  <2> QED
    BY <1>2, <1>3, <2>1, <2>4, <2>5
<1>6. CASE CopyEof \/ CopyWriteFails
  <2>1. /\ main' = "shut" /\ UNCHANGED <<fromBackend, toClient, held>>
        /\ \/ main = "read" /\ fromBackend = <<>> /\ backend # "open"
           \/ main = "write" /\ (client = "gone" \/ outerShut)
    BY <1>6 DEF CopyEof, CopyWriteFails
  <2>2. SpliceTypeOK'
    BY <1>0, <2>1 DEF SpliceTypeOK, clientVars, backendVars, shutVars
  <2>3. Downstream'
    BY <1>0, <2>1, RunEmpty DEF Phases, Downstream, Delivered, clientVars, backendVars
  <2> QED
    BY <1>2, <1>3, <2>1, <2>2, <2>3
<1> QED
  BY <1>4, <1>5, <1>6

\* The steps that start the pump and tear the tunnel down move no byte.
LEMMA TearDownSteps ==
    ASSUME SpliceInv, ReplayFails \/ StartPump \/ ShutBackend \/ ShutOuter \/ Join
    PROVE  SpliceInv'
<1> USE DEF SpliceInv, LengthsOK
<1> LengthsOK
  BY Lengths
<1>0. /\ UNCHANGED <<clientVars, prefetched, fromClient, toClient, backendVars, fromBackend,
                     toBackend, held>>
      /\ Given' = Given /\ Delivered' = Delivered
  BY DEF ReplayFails, StartPump, ShutBackend, ShutOuter, Join, Given, Delivered,
         clientVars, backendVars
<1>1. CASE StartPump
  <2>1. /\ main = "leftover" /\ main' = "read" /\ pump' = "read" /\ prefetched = <<>>
        /\ UNCHANGED shutVars /\ Len(prefetched) = 0
    BY <1>1, RunEmpty DEF StartPump
  <2>2. SpliceTypeOK' /\ Phases' /\ Downstream'
    BY <1>0, <2>1 DEF SpliceTypeOK, Phases, Downstream, clientVars, backendVars, shutVars
  <2>3. Upstream'
    BY <1>0, <2>1 DEF Upstream, clientVars, backendVars
  <2> QED
    BY <2>2, <2>3
<1>2. CASE ~StartPump
  <2>1. /\ pump' = pump /\ writeShut' \in BOOLEAN /\ outerShut' \in BOOLEAN
        /\ \/ main \in {"replay", "leftover"} /\ main' = "done"
           \/ main = "shut" /\ main' = "shutOuter" /\ outerShut' = outerShut
           \/ main = "shutOuter" /\ main' = "join" /\ writeShut' = writeShut
           \/ main = "join" /\ main' = "done" /\ UNCHANGED shutVars
    BY <1>2 DEF ReplayFails, ShutBackend, ShutOuter, Join, SpliceTypeOK, shutVars
  <2>2. SpliceTypeOK' /\ Phases' /\ Downstream'
    BY <1>0, <2>1 DEF SpliceTypeOK, Phases, Downstream, clientVars, backendVars, shutVars
  <2>3. Upstream'
    BY <1>0, <2>1 DEF Upstream, clientVars, backendVars
  <2> QED
    BY <2>2, <2>3
<1> QED
  BY <1>1, <1>2

-----------------------------------------------------------------------------
\* The invariant, for every socket size and number of bytes.
THEOREM SpliceInvariant == Spec => []SpliceInv
<1>1. ASSUME SpliceInv, [Next]_vars PROVE SpliceInv'
  <2>1. CASE UNCHANGED vars
    BY <1>1, <2>1 DEF vars, clientVars, backendVars, shutVars, SpliceInv, SpliceTypeOK, Phases,
                      Upstream, Downstream, Given, Delivered
  <2> QED
    BY <1>1, <2>1, SendSteps, ReceiveSteps, LeaveSteps, GiveSteps, PumpSteps, CopySteps,
       TearDownSteps DEF Next, ClientStep, BackendStep, MainStep, PumpStep
<1> QED
  BY <1>1, SpliceInit, PTL DEF Spec

\* Two runs of which the second begins where the first ends are one.
LEMMA RunConcat ==
    ASSUME NEW q \in Seq(Int), NEW r \in Seq(Int), NEW a \in Int,
           Run(q, a), Run(r, a + Len(q))
    PROVE  /\ q \o r \in Seq(Int)
           /\ Len(q \o r) = Len(q) + Len(r)
           /\ \A i \in 1 .. Len(q \o r) : (q \o r)[i] = a + i
<1>1. /\ q \o r \in Seq(Int) /\ Len(q) \in Nat /\ Len(r) \in Nat
      /\ Len(q \o r) = Len(q) + Len(r)
      /\ \A i \in 1 .. Len(q) : (q \o r)[i] = q[i]
      /\ \A i \in 1 .. Len(r) : (q \o r)[Len(q) + i] = r[i]
  OBVIOUS
<1>2. ASSUME NEW i \in 1 .. Len(q \o r), ~ (i \in 1 .. Len(q))
      PROVE  (q \o r)[i] = a + i
  <2>1. i - Len(q) \in 1 .. Len(r) /\ i = Len(q) + (i - Len(q))
    BY <1>1, <1>2
  <2>2. r[i - Len(q)] = a + Len(q) + (i - Len(q))
    BY <2>1 DEF Run
  <2> QED
    BY <1>1, <2>1, <2>2
<1> QED
  BY <1>1, <1>2 DEF Run

\* The backend receives the head first, then the client's bytes in order,
\* without a gap or a repetition where the prefetched bytes end.
THEOREM InputForwardedInOrder == Spec => []ForwardedInOrder
<1>1. SpliceInv => ForwardedInOrder
  <2> SUFFICES ASSUME SpliceInv PROVE ForwardedInOrder
    OBVIOUS
  <2> DEFINE stream == backendGot \o toBackend
  <2>1. /\ Run(backendGot, -1) /\ Run(toBackend, -1 + Len(backendGot))
        /\ backendGot \in Seq(Int) /\ toBackend \in Seq(Int)
    <3>1. -1 + Len(backendGot) = Len(backendGot) - 1
      BY Lengths DEF SpliceInv
    <3> QED
      BY <3>1 DEF SpliceInv, SpliceTypeOK, Upstream
  <2>2. stream \in Seq(Int) /\ \A i \in 1 .. Len(stream) : stream[i] = -1 + i
    BY <2>1, RunConcat
  <2> HIDE DEF stream
  <2>3. \A i \in DOMAIN stream : stream[i] = i - 1
    BY <2>2
  <2> QED
    BY <2>3 DEF ForwardedInOrder, stream
<1> QED
  BY <1>1, SpliceInvariant, PTL

\* Once the pump passed the end of the client's input on to a backend that is
\* still there, the backend has been given all the client sent.
THEOREM HalfCloseCarriesAllInput == Spec => []HalfCloseAfterAllInput
<1>1. SpliceInv => HalfCloseAfterAllInput
  BY DEF SpliceInv, Upstream, Given, HalfCloseAfterAllInput
<1> QED
  BY <1>1, SpliceInvariant, PTL

\* A client that stayed, even one that ended its own input, is given all the
\* backend sent, in order, before its socket is shut down.
THEOREM ResponsesDelivered == Spec => []ResponseDelivered
<1>1. SpliceInv => ResponseDelivered
  <2> SUFFICES ASSUME SpliceInv, main \in {"shut", "shutOuter", "join"}, client # "gone"
               PROVE  clientGot \o toClient = [i \in 1 .. backendSent |-> i]
    BY DEF ResponseDelivered
  <2> DEFINE stream == clientGot \o toClient
  <2>1. /\ Run(clientGot, 0) /\ Run(toClient, 0 + Len(clientGot))
        /\ clientGot \in Seq(Int) /\ toClient \in Seq(Int)
        /\ Len(clientGot) + Len(toClient) = backendSent
    <3>1. 0 + Len(clientGot) = Len(clientGot)
      BY Lengths DEF SpliceInv
    <3> QED
      BY <3>1 DEF SpliceInv, SpliceTypeOK, Downstream, Delivered
  <2>2. /\ stream \in Seq(Int) /\ Len(stream) = backendSent
        /\ \A i \in 1 .. Len(stream) : stream[i] = 0 + i
    BY <2>1, RunConcat
  <2> HIDE DEF stream
  <2>3. DOMAIN stream = 1 .. backendSent /\ \A i \in 1 .. backendSent : stream[i] = i
    BY <2>2
  <2>4. stream = [i \in 1 .. backendSent |-> i]
    BY <2>2, <2>3
  <2> QED
    BY <2>4 DEF stream
<1> QED
  BY <1>1, SpliceInvariant, PTL
=============================================================================
