------------------------------ MODULE KillSweep ------------------------------
(***************************************************************************)
(* kill_uid and pids_of_uid (src/sandboxes.rs): the sweep that empties a   *)
(* uid before it is released, against processes that fork and exit while   *)
(* /proc is read.  SandboxPool takes a pass to be one step; here a pass is *)
(* a getdents for some of the pids beyond the last one it got, then one    *)
(* read of /proc/<pid>/status at a time, until a getdents gives no more.   *)
(* Pids are shared with other processes, and may have started over before. *)
(*                                                                         *)
(* Nothing is spawned into the uid from outside: the sandbox is marked as  *)
(* deleted before it is swept.                                             *)
(***************************************************************************)
EXTENDS Integers, FiniteSets, FiniteSetsExt

CONSTANTS
    PidMax,    \* pids are 1 .. PidMax, handed out in order, from 1 again after the last
    NProc,     \* RLIMIT_NPROC of the sandbox
    Attempts   \* passes that kill before the one that only looks

ASSUME SweepAssumption == PidMax \in Nat \ {0} /\ NProc \in 1 .. PidMax /\ Attempts \in Nat

Pid == 1 .. PidMax

VARIABLES
    proc,      \* "free"; "other", of another uid; of this uid, "live", "killed"
               \* (SIGKILL pending) or "zombie"
    lastPid,   \* the pid handed out last
    pc,        \* "dirents", "status", "kill" or "done"
    attempt,   \* passes made
    pos,       \* the last pid getdents returned in this pass
    buf,       \* pids returned and not yet looked at
    found,     \* pids of live processes: the result of the pass
    clean,     \* what kill_uid returned
    behind,    \* history: pids this uid got where the pass had been already
    ordered,   \* history: since the pass began, new pids were above all others
    unread     \* history: a read of /proc failed during this pass

sweepVars == <<proc, lastPid, pc, attempt, pos, buf, found, clean, behind, ordered, unread>>
procVars == <<proc, lastPid, behind, ordered>>
scanVars == <<pc, attempt, pos, buf, found, clean, unread>>

In(S) == {p \in Pid : proc[p] \in S}
Running == In({"live", "killed"})
Used == Pid \ In({"free"})

\* The last pid handed out is the highest in use.
TopLast == \A p \in Used : p <= lastPid

SweepInit ==
    /\ proc \in [Pid -> {"free", "other", "live"}]
    /\ Cardinality(Running) \in 1 .. NProc
    /\ lastPid \in Pid
    /\ pc = "dirents" /\ attempt = 0 /\ pos = 0 /\ buf = {} /\ found = {}
    /\ clean = FALSE /\ behind = {} /\ ordered = TopLast /\ unread = FALSE

-----------------------------------------------------------------------------
(* Processes; one with SIGKILL pending forks no more *)

\* The kernel gives a new process the next free pid after the last.
Takes(kind) ==
    LET free == In({"free"})
        ahead == {p \in free : p > lastPid}
        pid == IF ahead # {} THEN Min(ahead) ELSE Min(free)
    IN  /\ free # {}
        /\ proc' = [proc EXCEPT ![pid] = kind]
        /\ lastPid' = pid
        /\ ordered' = (ordered /\ ahead # {})
        /\ behind' = IF kind = "live" /\ (pid <= pos \/ pc = "done") THEN behind \cup {pid} ELSE behind

Fork ==
    /\ In({"live"}) # {} /\ Cardinality(In({"live", "killed", "zombie"})) < NProc
    /\ Takes("live")
    /\ UNCHANGED scanVars

OutsiderForks == Takes("other") /\ UNCHANGED scanVars

Exit(p) ==
    /\ p \in Running
    /\ proc' = [proc EXCEPT ![p] = "zombie"]
    /\ UNCHANGED <<lastPid, behind, ordered, scanVars>>

\* By the orphan reaper or the parent; or a process of another uid is gone.
Reaped(p) ==
    /\ proc[p] \in {"zombie", "other"}
    /\ proc' = [proc EXCEPT ![p] = "free"]
    /\ UNCHANGED <<lastPid, behind, ordered, scanVars>>

-----------------------------------------------------------------------------
(* The sweep *)

\* The next pass.
NextPass(n) ==
    /\ pc' = "dirents" /\ attempt' = n /\ pos' = 0 /\ buf' = {} /\ found' = {}
    /\ behind' = {} /\ ordered' = TopLast /\ unread' = FALSE /\ UNCHANGED clean

\* A pass that found nothing, or the last: the verdict, is_empty.
PassEnds ==
    IF found = {} \/ attempt = Attempts
    THEN /\ pc' = "done" /\ clean' = (found = {})
         /\ UNCHANGED <<attempt, pos, buf, found>>
    ELSE pc' = "kill" /\ UNCHANGED <<attempt, pos, buf, found, clean>>

\* Part of the entries, those up to some pid.
Buffered(more) ==
    \E last \in more :
        /\ pc' = "status" /\ buf' = {p \in more : p <= last} /\ pos' = last
        /\ UNCHANGED <<attempt, found, clean>>

\* Mutant: the directory is taken to be what the first getdents returned.
Dirents_Once ==
    /\ pc = "dirents"
    /\ IF pos = 0 /\ Used # {} THEN Buffered(Used) ELSE PassEnds
    /\ UNCHANGED <<procVars, unread>>

\* getdents: processes beyond the last one returned, as many as fit.
Dirents ==
    /\ pc = "dirents"
    /\ LET more == {p \in Used : p > pos}
       IN  IF more = {} THEN PassEnds ELSE Buffered(more)
    /\ UNCHANGED <<procVars, unread>>

\* /proc cannot be opened or read: the pass ends with what it found.
DirentsFail ==
    /\ pc = "dirents"
    /\ unread' = TRUE
    /\ PassEnds
    /\ UNCHANGED procVars

\* One status file: a process that is gone, or a zombie, does not count.
ReadStatus ==
    /\ pc = "status"
    /\ LET p == Min(buf) IN
       /\ found' = IF p \in Running THEN found \cup {p} ELSE found
       /\ buf' = buf \ {p}
       /\ pc' = IF buf = {p} THEN "dirents" ELSE "status"
    /\ UNCHANGED <<procVars, attempt, pos, clean, unread>>

\* The status of a process that is there cannot be read: it is skipped.
StatusFails ==
    /\ pc = "status" /\ Min(buf) \in Running
    /\ unread' = TRUE
    /\ buf' = buf \ {Min(buf)}
    /\ pc' = IF buf = {Min(buf)} THEN "dirents" ELSE "status"
    /\ UNCHANGED <<procVars, attempt, pos, found, clean>>

\* SIGKILL to a pid found, whatever became of it; after the last one, sleep and look again.
Kill ==
    /\ pc = "kill"
    /\ LET p == Min(found) IN
       /\ proc' = IF p \in Running THEN [proc EXCEPT ![p] = "killed"] ELSE proc
       /\ IF found = {p} THEN NextPass(attempt + 1)
          ELSE found' = found \ {p} /\ UNCHANGED <<pc, attempt, pos, buf, clean, behind, ordered, unread>>
    /\ UNCHANGED lastPid

Sweep == Dirents \/ DirentsFail \/ ReadStatus \/ StatusFails \/ Kill

SweepNext == Fork \/ OutsiderForks \/ (\E p \in Pid : Exit(p) \/ Reaped(p)) \/ Sweep

SweepSpec == SweepInit /\ [][SweepNext]_sweepVars

-----------------------------------------------------------------------------
(* Properties *)

\* When kill_uid reports the uid empty and /proc could be read in the last pass, all that
\* may still run under it was forked during that pass at a pid the pass had gone by,
\* however processes forked and exited between its reads; and nothing runs if new pids
\* were above all others throughout the pass.
VerdictHolds ==
    (pc = "done" /\ clean /\ ~unread) =>
        Running \subseteq behind /\ (ordered => Running = {})
=============================================================================
