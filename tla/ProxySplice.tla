----------------------------- MODULE ProxySplice -----------------------------
(***************************************************************************)
(* The tunnel of handle_proxy (src/proxy.rs) after it connected to the     *)
(* backend: the connection's thread replays the request head and what the  *)
(* BufReader had prefetched, starts a pump thread for client -> backend,   *)
(* copies backend -> client itself, and tears both directions down.        *)
(*                                                                         *)
(* Bytes are numbered in each direction; 0 is the replayed head.  Sockets  *)
(* hold SockCap bytes and block their writers.                             *)
(***************************************************************************)
EXTENDS Integers, Sequences

CONSTANTS
    SockCap,       \* bytes a socket buffers
    MaxBytes,      \* bound: bytes sent in each direction
    MaxPrefetch    \* bound: bytes the BufReader read past the head

ASSUME SpliceBoundsAssumption ==
    SockCap \in Nat \ {0} /\ MaxBytes \in Nat /\ MaxPrefetch \in 0 .. MaxBytes

VARIABLES
    client,      \* "open", "half" (done sending, still reading) or "gone"
    clientSent,  \* bytes the client sent
    clientGot,   \* what it received
    prefetched,  \* the bytes in the BufReader
    fromClient,  \* the client's socket, unread
    toClient,    \* written to the client, not yet received
    backend,     \* "open", "half" (done sending, still reading) or "closed"
    backendSent, \* bytes the backend sent
    backendGot,  \* what it received
    fromBackend, \* the backend's socket, unread
    toBackend,   \* written to the backend, not yet received
    writeShut,   \* backend socket shut down for writing
    outerShut,   \* client socket shut down
    main,        \* the connection's thread
    pump,        \* the pump thread
    held         \* the byte in each thread's copy buffer

clientVars == <<client, clientSent, clientGot>>
backendVars == <<backend, backendSent, backendGot>>
shutVars == <<writeShut, outerShut>>

vars == <<clientVars, prefetched, fromClient, toClient, backendVars, fromBackend,
          toBackend, shutVars, main, pump, held>>

Room(q) == Len(q) < SockCap

Init ==
    /\ client = "open" /\ clientGot = <<>>
    /\ clientSent \in 0 .. MaxPrefetch
    /\ prefetched = [i \in 1 .. clientSent |-> i]
    /\ fromClient = <<>> /\ toClient = <<>>
    /\ backend = "open" /\ backendSent = 0 /\ backendGot = <<>>
    /\ fromBackend = <<>> /\ toBackend = <<>>
    /\ writeShut = FALSE /\ outerShut = FALSE
    /\ main = "replay" /\ pump = "off"
    /\ held = [main |-> 0, pump |-> 0]

-----------------------------------------------------------------------------
(* The client *)

ClientSends ==
    /\ client = "open" /\ clientSent < MaxBytes /\ Room(fromClient)
    /\ clientSent' = clientSent + 1
    /\ fromClient' = Append(fromClient, clientSent')
    /\ UNCHANGED <<client, clientGot, prefetched, toClient, backendVars, fromBackend,
                   toBackend, shutVars, main, pump, held>>

ClientReceives ==
    /\ client # "gone" /\ toClient # <<>>
    /\ clientGot' = Append(clientGot, Head(toClient))
    /\ toClient' = Tail(toClient)
    /\ UNCHANGED <<client, clientSent, prefetched, fromClient, backendVars, fromBackend,
                   toBackend, shutVars, main, pump, held>>

ClientHalfCloses ==
    /\ client = "open"
    /\ client' = "half"
    /\ UNCHANGED <<clientSent, clientGot, prefetched, fromClient, toClient, backendVars,
                   fromBackend, toBackend, shutVars, main, pump, held>>

ClientLeaves ==
    /\ client # "gone"
    /\ client' = "gone"
    /\ UNCHANGED <<clientSent, clientGot, prefetched, fromClient, toClient, backendVars,
                   fromBackend, toBackend, shutVars, main, pump, held>>

-----------------------------------------------------------------------------
(* The server inside the sandbox *)

BackendReceives ==
    /\ backend # "closed" /\ toBackend # <<>>
    /\ backendGot' = Append(backendGot, Head(toBackend))
    /\ toBackend' = Tail(toBackend)
    /\ UNCHANGED <<clientVars, prefetched, fromClient, toClient, backend, backendSent,
                   fromBackend, shutVars, main, pump, held>>

BackendSends ==
    /\ backend = "open" /\ backendSent < MaxBytes /\ Room(fromBackend)
    /\ backendSent' = backendSent + 1
    /\ fromBackend' = Append(fromBackend, backendSent')
    /\ UNCHANGED <<clientVars, prefetched, fromClient, toClient, backend, backendGot,
                   toBackend, shutVars, main, pump, held>>

BackendHalfCloses ==
    /\ backend = "open"
    /\ backend' = "half"
    /\ UNCHANGED <<clientVars, prefetched, fromClient, toClient, backendSent, backendGot,
                   fromBackend, toBackend, shutVars, main, pump, held>>

BackendCloses ==
    /\ backend # "closed"
    /\ backend' = "closed"
    /\ UNCHANGED <<clientVars, prefetched, fromClient, toClient, backendSent, backendGot,
                   fromBackend, toBackend, shutVars, main, pump, held>>

\* It read everything up to the end of its input, and closes.
BackendHangsUp == writeShut /\ toBackend = <<>> /\ BackendCloses

-----------------------------------------------------------------------------
(* The connection's thread *)

BackendTakes == backend # "closed" /\ ~writeShut /\ Room(toBackend)
BackendRefuses == backend = "closed" \/ writeShut

ReplayHead ==
    /\ main = "replay" /\ BackendTakes
    /\ toBackend' = Append(toBackend, 0)
    /\ main' = "leftover"
    /\ UNCHANGED <<clientVars, prefetched, fromClient, toClient, backendVars, fromBackend,
                   shutVars, pump, held>>

\* Mutant: the prefetched bytes are consumed and not forwarded.
ForwardLeftover_Lost ==
    /\ main = "leftover" /\ prefetched # <<>> /\ BackendTakes
    /\ prefetched' = Tail(prefetched)
    /\ UNCHANGED <<clientVars, fromClient, toClient, backendVars, fromBackend, toBackend,
                   shutVars, main, pump, held>>

\* write_all(leftover), which may block in the middle.
ForwardLeftover ==
    /\ main = "leftover" /\ prefetched # <<>> /\ BackendTakes
    /\ toBackend' = Append(toBackend, Head(prefetched))
    /\ prefetched' = Tail(prefetched)
    /\ UNCHANGED <<clientVars, fromClient, toClient, backendVars, fromBackend,
                   shutVars, main, pump, held>>

\* A write fails: the handler returns, and both sockets close with it.
ReplayFails ==
    /\ main \in {"replay", "leftover"} /\ backend = "closed"
    /\ main' = "done"
    /\ writeShut' = TRUE /\ outerShut' = TRUE
    /\ UNCHANGED <<clientVars, prefetched, fromClient, toClient, backendVars, fromBackend,
                   toBackend, pump, held>>

StartPump ==
    /\ main = "leftover" /\ prefetched = <<>>
    /\ pump' = "read"
    /\ main' = "read"
    /\ UNCHANGED <<clientVars, prefetched, fromClient, toClient, backendVars, fromBackend,
                   toBackend, shutVars, held>>

CopyRead ==
    /\ main = "read" /\ fromBackend # <<>>
    /\ held' = [held EXCEPT !.main = Head(fromBackend)]
    /\ fromBackend' = Tail(fromBackend)
    /\ main' = "write"
    /\ UNCHANGED <<clientVars, prefetched, fromClient, toClient, backendVars, toBackend,
                   shutVars, pump>>

CopyEof ==
    /\ main = "read" /\ fromBackend = <<>> /\ backend # "open"
    /\ main' = "shut"
    /\ UNCHANGED <<clientVars, prefetched, fromClient, toClient, backendVars, fromBackend,
                   toBackend, shutVars, pump, held>>

CopyWrite ==
    /\ main = "write" /\ client # "gone" /\ ~outerShut /\ Room(toClient)
    /\ toClient' = Append(toClient, held.main)
    /\ main' = "read"
    /\ UNCHANGED <<clientVars, prefetched, fromClient, backendVars, fromBackend, toBackend,
                   shutVars, pump, held>>

CopyWriteFails ==
    /\ main = "write" /\ (client = "gone" \/ outerShut)
    /\ main' = "shut"
    /\ UNCHANGED <<clientVars, prefetched, fromClient, toClient, backendVars, fromBackend,
                   toBackend, shutVars, pump, held>>

\* backend_rd.shutdown(Both)
ShutBackend ==
    /\ main = "shut"
    /\ writeShut' = TRUE
    /\ main' = "shutOuter"
    /\ UNCHANGED <<clientVars, prefetched, fromClient, toClient, backendVars, fromBackend,
                   toBackend, outerShut, pump, held>>

\* Mutant: only the backend is shut down before the join.
ShutOuter_Missing ==
    /\ main = "shutOuter"
    /\ main' = "join"
    /\ UNCHANGED <<clientVars, prefetched, fromClient, toClient, backendVars, fromBackend,
                   toBackend, shutVars, pump, held>>

\* outer_wr.shutdown(Both)
ShutOuter ==
    /\ main = "shutOuter"
    /\ outerShut' = TRUE
    /\ main' = "join"
    /\ UNCHANGED <<clientVars, prefetched, fromClient, toClient, backendVars, fromBackend,
                   toBackend, writeShut, pump, held>>

Join ==
    /\ main = "join" /\ pump = "done"
    /\ main' = "done"
    /\ UNCHANGED <<clientVars, prefetched, fromClient, toClient, backendVars, fromBackend,
                   toBackend, shutVars, pump, held>>

-----------------------------------------------------------------------------
(* The pump thread *)

PumpRead ==
    /\ pump = "read" /\ fromClient # <<>>
    /\ held' = [held EXCEPT !.pump = Head(fromClient)]
    /\ fromClient' = Tail(fromClient)
    /\ pump' = "write"
    /\ UNCHANGED <<clientVars, prefetched, toClient, backendVars, fromBackend, toBackend,
                   shutVars, main>>

\* Mutant: a client that closed is noticed before its last bytes were read.
PumpEof_Early ==
    /\ pump = "read" /\ (client # "open" \/ outerShut)
    /\ pump' = "shut"
    /\ UNCHANGED <<clientVars, prefetched, fromClient, toClient, backendVars, fromBackend,
                   toBackend, shutVars, main, held>>

PumpEof ==
    /\ pump = "read" /\ fromClient = <<>> /\ (client # "open" \/ outerShut)
    /\ pump' = "shut"
    /\ UNCHANGED <<clientVars, prefetched, fromClient, toClient, backendVars, fromBackend,
                   toBackend, shutVars, main, held>>

PumpWrite ==
    /\ pump = "write" /\ BackendTakes
    /\ toBackend' = Append(toBackend, held.pump)
    /\ pump' = "read"
    /\ UNCHANGED <<clientVars, prefetched, fromClient, toClient, backendVars, fromBackend,
                   shutVars, main, held>>

PumpWriteFails ==
    /\ pump = "write" /\ BackendRefuses
    /\ pump' = "shut"
    /\ UNCHANGED <<clientVars, prefetched, fromClient, toClient, backendVars, fromBackend,
                   toBackend, shutVars, main, held>>

\* Mutant: the client's socket is shut down in both directions.
PumpShut_Both ==
    /\ pump = "shut"
    /\ writeShut' = TRUE /\ outerShut' = TRUE
    /\ pump' = "done"
    /\ UNCHANGED <<clientVars, prefetched, fromClient, toClient, backendVars, fromBackend,
                   toBackend, main, held>>

\* backend_wr.shutdown(Write), and the client's socket for reading, which
\* nobody reads any more.
PumpShut ==
    /\ pump = "shut"
    /\ writeShut' = TRUE
    /\ pump' = "done"
    /\ UNCHANGED <<clientVars, prefetched, fromClient, toClient, backendVars, fromBackend,
                   toBackend, outerShut, main, held>>

-----------------------------------------------------------------------------
ClientStep == ClientSends \/ ClientReceives \/ ClientHalfCloses \/ ClientLeaves

BackendStep == BackendReceives \/ BackendSends \/ BackendHalfCloses \/ BackendCloses

MainStep ==
    \/ ReplayHead \/ ForwardLeftover \/ ReplayFails \/ StartPump
    \/ CopyRead \/ CopyEof \/ CopyWrite \/ CopyWriteFails
    \/ ShutBackend \/ ShutOuter \/ Join

PumpStep == PumpRead \/ PumpEof \/ PumpWrite \/ PumpWriteFails \/ PumpShut

Next == ClientStep \/ BackendStep \/ MainStep \/ PumpStep

Spec == Init /\ [][Next]_vars

\* Both threads run.  The tunnel has no timeouts, so its end takes peers that
\* go on: a client that reads what it is sent or leaves, and a backend that
\* reads its input and closes when the input ended.
FairSpec ==
    /\ Spec
    /\ WF_vars(MainStep) /\ WF_vars(PumpStep)
    /\ WF_vars(ClientReceives)
    /\ WF_vars(BackendReceives) /\ WF_vars(BackendHangsUp)

-----------------------------------------------------------------------------
(* Properties *)

\* The backend receives the head first, then the client's bytes in order,
\* without a gap or a repetition where the prefetched bytes end and the
\* socket's begin.
ForwardedInOrder ==
    LET stream == backendGot \o toBackend
    IN \A i \in DOMAIN stream : stream[i] = i - 1

\* Once the client ended its input and the pump passed that on to a backend
\* that is still there, the backend has been given all the client sent.
HalfCloseAfterAllInput ==
    pump = "done" /\ backend # "closed" /\ main \in {"read", "write"} =>
        Len(backendGot) + Len(toBackend) = clientSent + 1

\* A client that stayed, even one that ended its own input long before, is
\* given all the backend sent, in order, before its socket is shut down.
ResponseDelivered ==
    main \in {"shut", "shutOuter", "join"} /\ client # "gone" =>
        clientGot \o toClient = [i \in 1 .. backendSent |-> i]

\* When the backend is done, the tunnel comes down: the pump, which may be waiting for a
\* client that stays silent, is woken, and joined.  When the client is gone it comes down
\* too, although it is the backend that the connection's thread waits for.
TunnelEnds == backend # "open" \/ client = "gone" ~> main = "done"
=============================================================================
