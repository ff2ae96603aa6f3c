------------------------------ MODULE UidLease ------------------------------
(***************************************************************************)
(* What the uid pool promises, without registry, threads or free list: a   *)
(* uid is available, leased to one sandbox, or retired for the lifetime of *)
(* the server.  It is handed out and handed back only while no process of  *)
(* a sandbox runs under it (doc of UidPool, src/sandboxes.rs 142-154).     *)
(***************************************************************************)
CONSTANTS Uids, InUse

VARIABLES
    status,  \* of every uid
    live     \* uids under which a process of a sandbox is alive

leaseVars == <<status, live>>

LeaseTypeOK ==
    /\ status \in [Uids -> {"available", "leased", "retired"}]
    /\ live \subseteq Uids

LeaseInit ==
    /\ status = [u \in Uids |-> IF u \in InUse THEN "retired" ELSE "available"]
    /\ live = {}

\* The uids of R, all available, are given up.
Retiring(R) ==
    /\ \A v \in R : status[v] = "available"
    /\ UNCHANGED live

\* Hand out u; on the way, doubtful available uids may be given up.
Grant(u, R) ==
    /\ status[u] = "available" /\ u \notin live /\ u \notin R
    /\ Retiring(R)
    /\ status' = [v \in Uids |-> IF v = u THEN "leased"
                                 ELSE IF v \in R THEN "retired" ELSE status[v]]

\* Nothing could be handed out.
GiveUp(R) ==
    /\ Retiring(R)
    /\ status' = [v \in Uids |-> IF v \in R THEN "retired" ELSE status[v]]

\* A process starts under a leased uid.
Start(u) ==
    /\ status[u] = "leased"
    /\ live' = live \cup {u}
    /\ UNCHANGED status

\* The last process under u dies, whatever became of u.
Die(u) ==
    /\ u \in live
    /\ live' = live \ {u}
    /\ UNCHANGED status

\* The lease ends with nothing left under u.
GiveBack(u) ==
    /\ status[u] = "leased" /\ u \notin live
    /\ status' = [status EXCEPT ![u] = "available"]
    /\ UNCHANGED live

\* The lease ends in doubt.
Retire(u) ==
    /\ status[u] = "leased"
    /\ status' = [status EXCEPT ![u] = "retired"]
    /\ UNCHANGED live

LeaseNext ==
    \/ \E R \in SUBSET Uids : GiveUp(R) \/ \E u \in Uids : Grant(u, R)
    \/ \E u \in Uids : Start(u) \/ Die(u) \/ GiveBack(u) \/ Retire(u)

LeaseSpec == LeaseInit /\ [][LeaseNext]_leaseVars
=============================================================================
