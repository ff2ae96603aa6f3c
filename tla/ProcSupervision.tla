--------------------------- MODULE ProcSupervision ---------------------------
(***************************************************************************)
(* Supervision of spawned commands (src/exec.rs): ProcHandle and kill_tree,*)
(* the waiter thread wait_and_report with its timeout watcher, OWNED_PIDS  *)
(* and the orphan reaper, over a kernel that reuses process ids.           *)
(*                                                                         *)
(* A pid is a slot of the process table.  Its occupant is a command the    *)
(* server spawned or some other process, in the process group of a command *)
(* or in none of them; a process that ended as a child of the server stays *)
(* a zombie in its slot until somebody waits for it.  Any free number may  *)
(* be handed out next, except one that is still in use as a process group. *)
(*                                                                         *)
(* The `running' mutex covers kill_tree's check and signals and the        *)
(* waiter's reap, and OWNED_PIDS covers spawn, untrack and one round of    *)
(* the reaper; each such section is one step here, except the reaper's     *)
(* round, whose peek and reap are separate steps with the mutex held.      *)
(*                                                                         *)
(* The waiter frees the pid (child.wait) before it untracks it, so a new   *)
(* command may be given a number whose entry in OWNED_PIDS the old waiter  *)
(* is about to drop.  `shared' records the commands that met this window;  *)
(* what is promised to a command is promised to the others.                *)
(***************************************************************************)
EXTENDS FiniteSets, Integers

CONSTANTS
    Cmds,    \* commands, each spawned at most once
    Timed,   \* those that have a timeout
    Pids,    \* process ids of the kernel
    NoPid, Other, Nobody

ASSUME TokensAssumption ==
    NoPid \notin Pids /\ Other \notin Cmds /\ Nobody \notin Cmds /\ Other # Nobody

VARIABLES
    occupant,  \* who is in a slot of the process table
    group,     \* the command whose process group the process is in, or Nobody
    zombies,   \* slots whose process ended and was not waited for
    adopted,   \* slots with another process that is a child of the server
    elder,     \* <<p, q>> where p was adopted before q
    owned,     \* OWNED_PIDS
    awake,     \* the reaper is in its rounds, not asleep
    peeked,    \* pid the reaper is about to reap; it then holds OWNED_PIDS
    pid,       \* ProcHandle.pid
    running,   \* ProcHandle.running, per command
    timedOut,  \* the AtomicBool shared with the watcher
    waiter,    \* progress of wait_and_report
    watcher,   \* progress of the timeout watcher
    status,    \* whose exit status child.wait() returned
    report,    \* ExitInfo.timed_out as reported, or "none"
    shared,    \* history: commands given a pid that a waiter had yet to untrack
    caught     \* history: commands the deadline's signal found in their slot

kernel == <<occupant, group, zombies, adopted, elder>>
reaper == <<awake, peeked>>
history == <<shared, caught>>
vars == <<kernel, owned, reaper, pid, running, timedOut, waiter, watcher, status,
          report, history>>

SupTypeOK ==
    /\ occupant \in [Pids -> Cmds \cup {Other, Nobody}]
    /\ group \in [Pids -> Cmds \cup {Nobody}]
    /\ zombies \subseteq Pids
    /\ adopted \subseteq Pids
    /\ elder \subseteq Pids \X Pids
    /\ owned \subseteq Pids
    /\ awake \in BOOLEAN
    /\ peeked \in Pids \cup {NoPid}
    /\ pid \in [Cmds -> Pids \cup {NoPid}]
    /\ running \in [Cmds -> BOOLEAN]
    /\ timedOut \in [Cmds -> BOOLEAN]
    /\ waiter \in [Cmds -> {"none", "wait", "reap", "cancel", "untrack", "report", "done"}]
    /\ watcher \in [Cmds -> {"none", "armed", "fire", "done"}]
    /\ status \in [Cmds -> {"none", "own", "foreign", "lost"}]
    /\ report \in [Cmds -> {"none", "timed_out", "exited"}]
    /\ shared \subseteq Cmds
    /\ caught \subseteq Cmds

Init ==
    /\ occupant = [p \in Pids |-> Nobody]
    /\ group = [p \in Pids |-> Nobody]
    /\ zombies = {} /\ adopted = {} /\ elder = {} /\ owned = {}
    /\ awake = FALSE /\ peeked = NoPid
    /\ pid = [c \in Cmds |-> NoPid]
    /\ running = [c \in Cmds |-> FALSE]
    /\ timedOut = [c \in Cmds |-> FALSE]
    /\ waiter = [c \in Cmds |-> "none"]
    /\ watcher = [c \in Cmds |-> "none"]
    /\ status = [c \in Cmds |-> "none"]
    /\ report = [c \in Cmds |-> "none"]
    /\ shared = {} /\ caught = {}

-----------------------------------------------------------------------------
(* The kernel *)

\* p is a process the server may wait for.
Child(p) == occupant[p] \in Cmds \/ p \in adopted

Alive(p) == occupant[p] # Nobody /\ p \notin zombies

\* The processes kill(-n) reaches.
Group(n) == {q \in Pids : Alive(q) /\ group[q] \in Cmds /\ pid[group[q]] = n}

\* A number can be handed out when neither a process nor a group has it.
Free(p) ==
    /\ occupant[p] = Nobody
    /\ \A q \in Pids : group[q] \in Cmds => pid[group[q]] # p

\* The slots of S become free.
Gone(S) ==
    /\ occupant' = [p \in Pids |-> IF p \in S THEN Nobody ELSE occupant[p]]
    /\ group' = [p \in Pids |-> IF p \in S THEN Nobody ELSE group[p]]

\* The processes of S end: a child of the server becomes a zombie, any other
\* process is collected by its own parent.
Dies(S) ==
    /\ Gone({p \in S : ~Child(p)})
    /\ zombies' = zombies \cup {p \in S : Child(p)}
    /\ UNCHANGED <<adopted, elder>>

\* wait() collects the zombie at p and frees the slot.
Collected(p) ==
    /\ Gone({p})
    /\ zombies' = zombies \ {p}
    /\ adopted' = adopted \ {p}
    /\ elder' = {e \in elder : e[1] # p /\ e[2] # p}

Exits(p) ==
    /\ Alive(p)
    /\ Dies({p})
    /\ UNCHANGED <<owned, reaper, pid, running, timedOut, waiter, watcher, status,
                   report, history>>

\* A command's descendant, in its group or out of it, or anything else in the
\* image takes a pid.
OtherForks(p) ==
    /\ Free(p)
    /\ occupant' = [occupant EXCEPT ![p] = Other]
    /\ \E g \in {Nobody} \cup {group[q] : q \in {r \in Pids : Alive(r)}} :
         group' = [group EXCEPT ![p] = g]
    /\ UNCHANGED <<zombies, adopted, elder, owned, reaper, pid, running, timedOut,
                   waiter, watcher, status, report, history>>

\* Its parent ended: the server, as PID 1 or subreaper, adopts it.
Orphaned(p) ==
    /\ occupant[p] = Other /\ p \notin adopted
    /\ adopted' = adopted \cup {p}
    /\ elder' = elder \cup (adopted \X {p})
    /\ UNCHANGED <<occupant, group, zombies, owned, reaper, pid, running, timedOut,
                   waiter, watcher, status, report, history>>

-----------------------------------------------------------------------------
(* spawn, kill_tree, wait_and_report *)

\* The commands whose waiter has yet to untrack their pid.
Holding == {d \in Cmds : waiter[d] \in {"wait", "reap", "cancel", "untrack"}}

\* spawn: fork, insertion into OWNED_PIDS and ProcHandle::open in one critical
\* section; then wait_detached, with a timeout watcher or without.
Spawn(c) ==
    /\ waiter[c] = "none"
    /\ peeked = NoPid
    /\ \E p \in Pids :
        /\ Free(p)
        /\ occupant' = [occupant EXCEPT ![p] = c]
        /\ group' = [group EXCEPT ![p] = c]
        /\ owned' = owned \cup {p}
        /\ pid' = [pid EXCEPT ![c] = p]
        /\ shared' = IF \E d \in Holding : pid[d] = p THEN shared \cup {c} ELSE shared
    /\ running' = [running EXCEPT ![c] = TRUE]
    /\ waiter' = [waiter EXCEPT ![c] = "wait"]
    /\ watcher' = [watcher EXCEPT ![c] = IF c \in Timed THEN "armed" ELSE "none"]
    /\ UNCHANGED <<zombies, adopted, elder, reaper, timedOut, status, report, caught>>

\* signal_leader: through the pidfd, or by number where there is none.
Leader(c) == {{q \in Pids : occupant[q] = c}, {q \in Pids : Alive(q) /\ q = pid[c]}}

\* Mutant: the liveness check is dropped.
KillTree_Unchecked(c) == \E lead \in Leader(c) : Dies(Group(pid[c]) \cup lead)

\* kill_tree: with `running' locked and true, SIGKILL the group and the leader.
KillTree(c) ==
    IF running[c] THEN \E lead \in Leader(c) : Dies(Group(pid[c]) \cup lead)
    ELSE UNCHANGED kernel

\* Mutant: the flag is set before the check.
MarkTimedOut_Early(c) == timedOut' = [timedOut EXCEPT ![c] = TRUE]

\* kill_tree(.., Some(&timed_out)) sets the flag only past the check.
MarkTimedOut(c) == timedOut' = [timedOut EXCEPT ![c] = @ \/ running[c]]

\* DELETE /processes/{id}, at any time after the spawn.
KillRequest(c) ==
    /\ waiter[c] # "none"
    /\ KillTree(c)
    /\ UNCHANGED <<owned, reaper, pid, running, timedOut, waiter, watcher, status,
                   report, history>>

\* The watcher's recv_timeout expires before the sender is dropped.
WatcherExpires(c) ==
    /\ watcher[c] = "armed"
    /\ waiter[c] \in {"wait", "reap", "cancel"}
    /\ watcher' = [watcher EXCEPT ![c] = "fire"]
    /\ UNCHANGED <<kernel, owned, reaper, pid, running, timedOut, waiter, status, report, history>>

WatcherKills(c) ==
    /\ watcher[c] = "fire"
    /\ KillTree(c)
    /\ MarkTimedOut(c)
    /\ caught' = IF \E p \in Pids : occupant[p] = c THEN caught \cup {c} ELSE caught
    /\ watcher' = [watcher EXCEPT ![c] = "done"]
    /\ UNCHANGED <<owned, reaper, pid, running, waiter, status, report, shared>>

\* Mutant: the watcher sleeps, so it cannot be cancelled.
WatcherCancelled_Sleeping(c) == FALSE

\* The sender was dropped: recv_timeout returns Disconnected.
WatcherCancelled(c) ==
    /\ watcher[c] = "armed"
    /\ waiter[c] \in {"untrack", "report", "done"}
    /\ watcher' = [watcher EXCEPT ![c] = "done"]
    /\ UNCHANGED <<kernel, owned, reaper, pid, running, timedOut, waiter, status, report, history>>

\* waitid(P_PID, WNOWAIT): returns once the child with that pid has ended, or
\* with an error when there is no such child.
WaitReturns(c) ==
    /\ waiter[c] = "wait"
    /\ pid[c] \in zombies \/ ~Child(pid[c])
    /\ waiter' = [waiter EXCEPT ![c] = "reap"]
    /\ UNCHANGED <<kernel, owned, reaper, pid, running, timedOut, watcher, status, report, history>>

\* With `running' locked: child.wait(), then *running = false.
Reap(c) ==
    LET p == pid[c] IN
    /\ waiter[c] = "reap"
    /\ \/ /\ p \in zombies
          /\ status' = [status EXCEPT ![c] = IF occupant[p] = c THEN "own" ELSE "foreign"]
          /\ Collected(p)
       \/ /\ ~Child(p)
          /\ status' = [status EXCEPT ![c] = "lost"]
          /\ UNCHANGED kernel
    /\ running' = [running EXCEPT ![c] = FALSE]
    /\ waiter' = [waiter EXCEPT ![c] = "cancel"]
    /\ UNCHANGED <<owned, reaper, pid, timedOut, watcher, report, history>>

\* Mutant: the watcher thread is joined instead of cancelled.
Cancel_Joining(c) ==
    /\ waiter[c] = "cancel" /\ watcher[c] \in {"none", "done"}
    /\ waiter' = [waiter EXCEPT ![c] = "untrack"]
    /\ UNCHANGED <<kernel, owned, reaper, pid, running, timedOut, watcher, status, report, history>>

\* drop(cancel_tx)
Cancel(c) ==
    /\ waiter[c] = "cancel"
    /\ waiter' = [waiter EXCEPT ![c] = "untrack"]
    /\ UNCHANGED <<kernel, owned, reaper, pid, running, timedOut, watcher, status, report, history>>

\* untrack_owned(pid), after the pid became reusable.
Untrack(c) ==
    /\ waiter[c] = "untrack"
    /\ peeked = NoPid
    /\ owned' = owned \ {pid[c]}
    /\ waiter' = [waiter EXCEPT ![c] = "report"]
    /\ UNCHANGED <<kernel, reaper, pid, running, timedOut, watcher, status, report, history>>

\* ExitInfo is filled in and sent; a lost status is never "timed out".
Report(c) ==
    /\ waiter[c] = "report"
    /\ report' = [report EXCEPT ![c] =
         IF timedOut[c] /\ status[c] # "lost" THEN "timed_out" ELSE "exited"]
    /\ waiter' = [waiter EXCEPT ![c] = "done"]
    /\ UNCHANGED <<kernel, owned, reaper, pid, running, timedOut, watcher, status, history>>

-----------------------------------------------------------------------------
(* spawn_orphan_reaper *)

\* The zombies waitid(P_ALL) may show: a thread's children come in the order in
\* which they became its children, and commands and adopted processes are
\* children of different threads.
Front ==
    {p \in zombies : occupant[p] \in Cmds}
    \cup {p \in zombies \cap adopted :
            \A q \in zombies \cap adopted : <<q, p>> \notin elder}

\* The end of the second it sleeps, without the mutex, after each tick.
ReaperWakes ==
    /\ ~awake
    /\ awake' = TRUE
    /\ UNCHANGED <<kernel, owned, peeked, pid, running, timedOut, waiter, watcher,
                   status, report, history>>

\* Mutant: the reaper does not look at OWNED_PIDS.
ReaperPeek_Unchecked(p) ==
    /\ awake /\ peeked = NoPid
    /\ p \in Front
    /\ peeked' = p
    /\ UNCHANGED <<kernel, owned, awake, pid, running, timedOut, waiter, watcher,
                   status, report, history>>

\* waitid(P_ALL, WNOHANG | WNOWAIT) shows one zombie child; a pid the server
\* spawned is left alone and ends the tick, whatever is behind it.
ReaperPeek(p) ==
    /\ awake /\ peeked = NoPid
    /\ p \in Front
    /\ IF p \in owned THEN awake' = FALSE /\ UNCHANGED peeked
       ELSE peeked' = p /\ UNCHANGED awake
    /\ UNCHANGED <<kernel, owned, pid, running, timedOut, waiter, watcher, status,
                   report, history>>

\* waitid shows nothing.
ReaperIdle ==
    /\ awake /\ peeked = NoPid
    /\ zombies = {}
    /\ awake' = FALSE
    /\ UNCHANGED <<kernel, owned, peeked, pid, running, timedOut, waiter, watcher,
                   status, report, history>>

\* Mutant: waitpid with WNOWAIT fails, and nothing is collected.
ReaperReap_WithNowait(p) ==
    /\ peeked = p
    /\ peeked' = NoPid /\ awake' = FALSE
    /\ UNCHANGED <<kernel, owned, pid, running, timedOut, waiter, watcher, status,
                   report, history>>

\* waitpid(pid, WNOHANG) and the end of the critical section.  The tick ends
\* after 256 rounds, here after any number, or when there is nothing to collect
\* any more.
ReaperReap(p) ==
    /\ peeked = p
    /\ IF p \in zombies THEN Collected(p) /\ awake' \in BOOLEAN
       ELSE UNCHANGED kernel /\ awake' = FALSE
    /\ peeked' = NoPid
    /\ UNCHANGED <<owned, pid, running, timedOut, waiter, watcher, status, report,
                   history>>

-----------------------------------------------------------------------------
WaiterStep(c) ==
    WaitReturns(c) \/ Reap(c) \/ Cancel(c) \/ Untrack(c) \/ Report(c)

WatcherStep(c) == WatcherKills(c) \/ WatcherCancelled(c)

ReaperStep ==
    \/ ReaperWakes \/ ReaperIdle
    \/ \E p \in Pids : ReaperPeek(p) \/ ReaperReap(p)

Next ==
    \/ \E c \in Cmds : \/ Spawn(c) \/ KillRequest(c) \/ WatcherExpires(c)
                       \/ WaiterStep(c) \/ WatcherStep(c)
    \/ \E p \in Pids : Exits(p) \/ OtherForks(p) \/ Orphaned(p)
    \/ ReaperStep

Spec == Init /\ [][Next]_vars

\* The waiter and watcher threads and the reaper keep running; processes need
\* not end, requests need not come and deadlines need not pass.  Untrack gets
\* its mutex because the reaper sleeps a second, without it, after at most 256
\* rounds.
FairSpec ==
    /\ Spec
    /\ \A c \in Cmds : /\ WF_vars(WaiterStep(c)) /\ SF_vars(Untrack(c))
                        /\ WF_vars(WatcherStep(c))
    /\ WF_vars(ReaperStep)

-----------------------------------------------------------------------------
(* Properties *)

\* As long as `running' is true the pid still names the command, alive or as
\* an unreaped zombie, so kill_tree's group signal cannot reach a stranger
\* that was given the same number.
PidNamesCommand == \A c \in Cmds \ shared : running[c] => occupant[pid[c]] = c

\* What a kill request or an expired timeout of a command does to the process
\* table, it does to the processes of its own group alone, however late it
\* comes; only a command that got its pid before the last holder of the number
\* had untracked it may lose its pid to a stranger.
NoStrangerSignalled ==
    [][\A c \in Cmds \ shared : KillRequest(c) \/ WatcherKills(c) =>
         \A p \in Pids : group[p] # c =>
             occupant'[p] = occupant[p] /\ (p \in zombies' <=> p \in zombies)]_vars

\* The reaper takes no exit status of a command the server spawned: every
\* waiter gets the status of its own command.  The one way to lose it is a pid
\* that came back between child.wait() and untrack_owned().
StatusNotStolen == \A c \in Cmds \ shared : status[c] \in {"none", "own"}

\* A command is reported as timed out exactly when the deadline's signal went
\* out while the command, alive or ended and not yet collected, still had its
\* slot: one collected before is never reported as timed out, and one the
\* deadline killed always is.
TimeoutReportedExactly ==
    \A c \in Cmds \ shared : waiter[c] = "done" => (report[c] = "timed_out" <=> c \in caught)

\* Once a command was reported its timeout watcher ends too, instead of
\* sleeping out the timeout.
WatcherEnds ==
    \A c \in Cmds : waiter[c] = "done" ~> watcher[c] \in {"none", "done"}

\* A command that ended is reported.
ExitReported ==
    \A c \in Cmds : c \notin shared /\ running[c] /\ pid[c] \in zombies ~> waiter[c] = "done"

\* An adopted process that ended does not stay a zombie, although the reaper
\* gives up its tick whenever it is shown a command.
OrphansReaped == \A p \in Pids : p \in zombies /\ p \in adopted ~> p \notin zombies

\* Every unreaped command is tracked and alone with its pid, and the reaper is
\* never about to reap a tracked pid; with the types, the inductive
\* strengthening of PidNamesCommand and StatusNotStolen.
OwnedUntilReaped ==
    /\ SupTypeOK
    /\ \A c \in Cmds :
        /\ running[c] <=> waiter[c] \in {"wait", "reap"}
        /\ waiter[c] = "none" <=> pid[c] = NoPid
    /\ \A c \in Cmds \ shared : running[c] =>
        /\ pid[c] \in owned
        /\ \A d \in Holding : pid[d] = pid[c] => d = c
    /\ peeked # NoPid => peeked \notin owned
    /\ \A p \in zombies : Child(p)
    /\ \A p \in adopted : occupant[p] = Other
    /\ \A p \in Pids :
        /\ occupant[p] \in Cmds =>
             pid[occupant[p]] = p /\ running[occupant[p]] /\ group[p] = occupant[p]
        /\ group[p] \in Cmds => occupant[p] # Nobody /\ pid[group[p]] \in Pids
    /\ \A p, q \in Pids :
        group[p] \in Cmds /\ group[q] \in Cmds /\ pid[group[p]] = pid[group[q]]
        => group[p] = group[q]
=============================================================================
