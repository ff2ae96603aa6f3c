---------------------------- MODULE HostActivity ----------------------------
(***************************************************************************)
(* What the server knows about running work, and what the idle watchdog    *)
(* does with it: ProcRegistry with its background processes and in-flight  *)
(* operations (src/exec.rs), the handlers that start and stop commands,    *)
(* and the watchdog thread of main (src/main.rs), in host mode and in      *)
(* dedicated mode, where the whole job is the sandbox (NoSandbox).         *)
(*                                                                         *)
(* Time is abstract: a sandbox or a dedicated server may be past its       *)
(* timeout at any time after the last touch, and the watchdog's 5 s sleep  *)
(* is one sample.  Creation and the teardown inside `delete' are the steps *)
(* that SandboxPool details: the mark and the kill sweep are one step      *)
(* here, and the sweep converges.                                          *)
(* The output channels are in OutputStream, pids in ProcSupervision.       *)
(***************************************************************************)
EXTENDS Integers, Sequences, FiniteSets

CONSTANTS
    Sandboxes, Threads, NoSandbox,
    MaxFinished,  \* MAX_FINISHED_PROCS (256)
    MaxIds,       \* bound: process ids allocated in a behaviour
    IdleTicks     \* empty samples the host survives (SBX_IDLE_TIMEOUT / 5 s)

ASSUME NoSandboxAssumption == NoSandbox \notin Sandboxes
ASSUME BoundsAssumption == MaxFinished \in Nat /\ MaxIds \in Nat /\ IdleTicks \in Nat
ASSUME ThreadsAssumption == IsFiniteSet(Threads)

Ids == 1 .. MaxIds

VARIABLES
    map,        \* registered sandboxes
    deleted,    \* sandboxes whose teardown passed the mark
    idle,       \* registered sandboxes past their idle timeout
    procs,      \* ProcRegistry.procs
    seq,        \* ProcRegistry.seq
    active,     \* ProcRegistry.active
    owner,      \* the sandbox under whose uid a background process runs
    live,       \* background process ids whose command is running
    mine,       \* threads whose command is running, before it has an id
    left,       \* sandboxes running a command whose client went away
    pc, sbx,    \* request threads
    victim,     \* the process id a thread has taken off the list and is to kill, or 0
    wd,         \* watchdog: "sleep", "exit"; host: "check", "ops", "remove", "kill",
                \* "forget"; dedicated: "procs", "active"
    todo,       \* idle candidates it has not looked at
    cand,       \* the one it is looking at
    late,       \* history: ids registered since it counted the processes
    begun,      \* history: threads that began an operation since it read active_ops
    samples,    \* consecutive samples that found the host empty
    mode,       \* "host" or "dedicated"
    quiet,      \* dedicated: SBX_IDLE_TIMEOUT has passed since last_activity
    down        \* the server exited

registry == <<procs, seq, active>>
work == <<owner, live, mine, left>>
threads == <<pc, sbx, victim>>
watchdog == <<wd, todo, cand, samples>>
history == <<late, begun>>
server == <<mode, quiet, down>>
vars == <<map, deleted, idle, registry, work, threads, watchdog, history, server>>

Init ==
    /\ map = {} /\ deleted = {} /\ idle = {}
    /\ procs = <<>> /\ seq = 1 /\ active = 0
    /\ owner = [i \in Ids |-> NoSandbox]
    /\ live = {} /\ mine = {} /\ left = {}
    /\ pc = [t \in Threads |-> "idle"]
    /\ sbx = [t \in Threads |-> NoSandbox]
    /\ victim = [t \in Threads |-> 0]
    /\ wd = "sleep" /\ todo = {} /\ cand = NoSandbox /\ late = {} /\ begun = {}
    /\ samples = 0 /\ down = FALSE
    /\ mode \in {"host", "dedicated"} /\ quiet = FALSE

-----------------------------------------------------------------------------
(* ProcRegistry *)

Owned(s) == {i \in DOMAIN procs : procs[i].sandbox_id = s}

\* Background ids of s whose command is running.
LiveOf(s) == {i \in live : owner[i] = s}

\* Positions of finished processes in a list.
Finished(list) == {i \in DOMAIN list : list[i].exit}

\* The list without some positions, the others in order (Vec::retain).
Without(list, doomed) ==
    LET kept == DOMAIN list \ doomed
        rank(i) == Cardinality({j \in kept : j <= i})
    IN [n \in 1 .. Cardinality(kept) |-> list[CHOOSE i \in kept : rank(i) = n]]

\* Positions to drop: the oldest finished ones beyond the last MaxFinished.
Doomed(list) ==
    {i \in Finished(list) :
        Cardinality({j \in Finished(list) : j >= i}) > MaxFinished}

\* Mutant: any oldest entry is dropped, running or not.
Trimmed_Oldest(list) ==
    Without(list, {i \in DOMAIN list : Len(list) - i > MaxFinished})

Trimmed(list) == Without(list, Doomed(list))

\* ProcRegistry::remove_for_sandbox
Forgotten(s) == Without(procs, Owned(s))

\* ProcRegistry::running_count_for
RunningCountFor(s) == Cardinality({i \in Owned(s) : ~procs[i].exit})

\* ProcRegistry::running_count
RunningCount == Cardinality({i \in DOMAIN procs : ~procs[i].exit})

-----------------------------------------------------------------------------
(* Requests.  route() stamps the activity of the server and of the sandbox.*)

Stamp == quiet' = FALSE /\ UNCHANGED <<mode, down>>

\* What a request may name: a registered sandbox, or the whole job.
Scopes == IF mode = "host" THEN map ELSE {NoSandbox}

Goto(t, from, to) == ~down /\ pc[t] = from /\ pc' = [pc EXCEPT ![t] = to]

Return(t, from) ==
    /\ Goto(t, from, "idle")
    /\ sbx' = [sbx EXCEPT ![t] = NoSandbox]

\* POST /v1/sandboxes
Create(t, s) ==
    /\ ~down /\ mode = "host" /\ pc[t] = "idle"
    /\ s \notin map \cup left /\ Owned(s) = {} /\ cand # s /\ s \notin todo
    /\ \A r \in Threads : sbx[r] # s
    /\ map' = map \cup {s}
    /\ deleted' = deleted \ {s}
    /\ UNCHANGED <<idle, registry, work, threads, watchdog, history>>
    /\ Stamp

\* POST .../exec or .../processes: touch the sandbox, take its entry, and
\* read the body.
Request(t, s) ==
    /\ s \in Scopes
    /\ Goto(t, "idle", "body")
    /\ sbx' = [sbx EXCEPT ![t] = s]
    /\ idle' = idle \ {s}
    /\ UNCHANGED <<map, deleted, registry, work, victim, watchdog, history>>
    /\ Stamp

\* spawn refuses, because the sandbox was deleted meanwhile or it fails.
SpawnFails(t) ==
    /\ Return(t, "body")
    /\ UNCHANGED <<map, deleted, idle, registry, work, victim, watchdog, history, server>>

\* spawn for a foreground or a background command.
Spawned(t, to) ==
    /\ Goto(t, "body", to)
    /\ sbx[t] \notin deleted
    /\ mine' = mine \cup {t}
    /\ UNCHANGED <<map, deleted, idle, registry, owner, live, left, sbx, victim, watchdog, history,
                   server>>

SpawnForeground(t) == Spawned(t, "fg")
SpawnBackground(t) == Spawned(t, "bg")

\* handle_exec: begin_op, after the command was spawned.
BeginOp(t) ==
    /\ Goto(t, "fg", "stream")
    /\ active' = active + 1
    /\ begun' = IF wd = "exit" THEN begun \cup {t} ELSE begun
    /\ UNCHANGED <<map, deleted, idle, procs, seq, work, sbx, victim, watchdog, late, server>>

\* Mutant: the count is not given back when the client is gone.
EndOp_Leaking(t) ==
    /\ Return(t, "stream")
    /\ active' = IF t \in mine THEN active ELSE active - 1
    /\ left' = IF t \in mine THEN left \cup {sbx[t]} ELSE left
    /\ mine' = mine \ {t}
    /\ quiet' \in IF t \in mine THEN {quiet} ELSE {quiet, FALSE}
    /\ begun' = begun \ {t}
    /\ UNCHANGED <<map, deleted, idle, procs, seq, owner, live, victim, watchdog, late, mode, down>>

\* handle_exec returns after Exit, which stamps the activity, or because the
\* client is gone; then the command goes on without it.  ActiveOp is dropped
\* either way.
EndOp(t) ==
    /\ Return(t, "stream")
    /\ active' = active - 1
    /\ left' = IF t \in mine THEN left \cup {sbx[t]} ELSE left
    /\ mine' = mine \ {t}
    /\ quiet' \in IF t \in mine THEN {quiet} ELSE {quiet, FALSE}
    /\ begun' = begun \ {t}
    /\ UNCHANGED <<map, deleted, idle, procs, seq, owner, live, victim, watchdog, late, mode, down>>

\* stream_events: output of the command is evidence of life.
Output(t) ==
    /\ ~down /\ pc[t] = "stream" /\ t \in mine
    /\ Stamp
    /\ UNCHANGED <<map, deleted, idle, registry, work, threads, watchdog, history>>

\* The watchdog has counted processes and acts on it.
AfterCount == {"ops", "remove", "kill", "active", "exit"}

\* start_background: alloc_id, then insert with its trimming.
Register(t) ==
    /\ seq \in Ids
    /\ Return(t, "bg")
    /\ seq' = seq + 1
    /\ procs' = Trimmed(Append(procs,
                    [id |-> seq, sandbox_id |-> sbx[t], exit |-> FALSE]))
    /\ owner' = [owner EXCEPT ![seq] = sbx[t]]
    /\ live' = IF t \in mine THEN live \cup {seq} ELSE live
    /\ mine' = mine \ {t}
    /\ late' = IF wd \in AfterCount THEN late \cup {seq} ELSE late
    /\ UNCHANGED <<map, deleted, idle, active, left, victim, watchdog, begun, server>>

\* The command of a thread, a background command, or one without client ends.
CommandEnds ==
    /\ ~down
    /\ \/ \E t \in mine : mine' = mine \ {t} /\ UNCHANGED <<live, left>>
       \/ \E i \in live : live' = live \ {i} /\ UNCHANGED <<mine, left>>
       \/ \E s \in left : left' = left \ {s} /\ UNCHANGED <<mine, live>>
    /\ UNCHANGED <<map, deleted, idle, registry, owner, threads, watchdog, history, server>>

\* pump_background records the exit status.
PumpExit(i) ==
    /\ ~down
    /\ i \in DOMAIN procs /\ procs[i].id \notin live /\ ~procs[i].exit
    /\ procs' = [procs EXCEPT ![i].exit = TRUE]
    /\ UNCHANGED <<map, deleted, idle, seq, active, work, threads, watchdog, history, server>>

\* DELETE .../processes/{id}: remove_by_id within the sandbox ...
StopRemove(t, s) ==
    /\ s \in Scopes
    /\ Goto(t, "idle", "stop")
    /\ sbx' = [sbx EXCEPT ![t] = s]
    /\ \E i \in Owned(s) :
        /\ procs' = Without(procs, {i})
        /\ victim' = [victim EXCEPT ![t] = procs[i].id]
    /\ idle' = idle \ {s}
    /\ UNCHANGED <<map, deleted, seq, active, work, watchdog, history>>
    /\ Stamp

\* ... then kill_tree.
StopKill(t) ==
    /\ Return(t, "stop")
    /\ live' = live \ {victim[t]}
    /\ victim' = [victim EXCEPT ![t] = 0]
    /\ UNCHANGED <<map, deleted, idle, registry, owner, mine, left, watchdog, history, server>>

-----------------------------------------------------------------------------
(* SandboxRegistry::delete and its callers *)

\* The mark and the sweep: no command of s survives, none can start.
KillAll(s) ==
    /\ deleted' = deleted \cup {s}
    /\ live' = live \ LiveOf(s)
    /\ mine' = {t \in mine : sbx[t] # s}
    /\ left' = left \ {s}

\* DELETE /v1/sandboxes/{id}, or one turn of DELETE /v1/sandboxes.
DeleteRemove(t, s) ==
    /\ s \in map
    /\ Goto(t, "idle", "kill")
    /\ sbx' = [sbx EXCEPT ![t] = s]
    /\ map' = map \ {s}
    /\ idle' = idle \ {s}
    /\ UNCHANGED <<deleted, registry, work, victim, watchdog, history>>
    /\ Stamp

DeleteKill(t) ==
    /\ Goto(t, "kill", "forget")
    /\ KillAll(sbx[t])
    /\ UNCHANGED <<map, idle, registry, owner, sbx, victim, watchdog, history, server>>

DeleteForget(t) ==
    /\ Return(t, "forget")
    /\ procs' = Forgotten(sbx[t])
    /\ UNCHANGED <<map, deleted, idle, seq, active, work, victim, watchdog, history, server>>

\* handle_delete_all, for an id of its snapshot that somebody else deleted
\* meanwhile: delete returns None and the processes are forgotten all the same.
ForgetGone(t, s) ==
    /\ ~down /\ pc[t] = "idle"
    /\ s \notin map /\ Owned(s) # {}
    /\ procs' = Forgotten(s)
    /\ UNCHANGED <<map, deleted, idle, seq, active, work, threads, watchdog, history, server>>

-----------------------------------------------------------------------------
(* The idle watchdog *)

\* idle_timeout_ms passes without a touch.
BecomesIdle(s) ==
    /\ ~down /\ s \in map \ idle
    /\ idle' = idle \cup {s}
    /\ UNCHANGED <<map, deleted, registry, work, threads, watchdog, history, server>>

\* After its sleep: idle_candidates.
WdScan ==
    /\ ~down /\ mode = "host" /\ wd = "sleep"
    /\ todo' = idle
    /\ wd' = "check"
    /\ UNCHANGED <<map, deleted, idle, registry, work, threads, cand, history, samples, server>>

\* Mutant: only in-flight operations are looked at.
WdCountProcs_Skipped(s) ==
    /\ ~down /\ wd = "check" /\ s \in todo
    /\ todo' = todo \ {s}
    /\ wd' = "ops" /\ cand' = s
    /\ late' = {}
    /\ UNCHANGED <<map, deleted, idle, registry, work, threads, samples, begun, server>>

\* running_count_for(&id) == 0, or on to the next candidate.
WdCountProcs(s) ==
    /\ ~down /\ wd = "check" /\ s \in todo
    /\ todo' = todo \ {s}
    /\ IF RunningCountFor(s) = 0
       THEN wd' = "ops" /\ cand' = s
       ELSE UNCHANGED <<wd, cand>>
    /\ late' = {}
    /\ UNCHANGED <<map, deleted, idle, registry, work, threads, samples, begun, server>>

\* active_ops() == 0, or on to the next candidate.
WdCountOps ==
    /\ ~down /\ wd = "ops"
    /\ IF active = 0
       THEN wd' = "remove" /\ UNCHANGED <<cand, late>>
       ELSE wd' = "check" /\ cand' = NoSandbox /\ late' = {}
    /\ UNCHANGED <<map, deleted, idle, registry, work, threads, todo, samples, begun, server>>

\* delete(&id): map.remove, or None.
WdRemove ==
    /\ ~down /\ wd = "remove"
    /\ wd' = IF cand \in map THEN "kill" ELSE "forget"
    /\ map' = map \ {cand} /\ idle' = idle \ {cand}
    /\ UNCHANGED <<deleted, registry, work, threads, todo, cand, samples, history, server>>

WdKill ==
    /\ ~down /\ wd = "kill"
    /\ wd' = "forget"
    /\ KillAll(cand)
    /\ late' = {}
    /\ UNCHANGED <<map, idle, registry, owner, threads, todo, cand, samples, begun, server>>

WdForget ==
    /\ ~down /\ wd = "forget"
    /\ wd' = "check" /\ cand' = NoSandbox
    /\ procs' = Forgotten(cand)
    /\ UNCHANGED <<map, deleted, idle, seq, active, work, threads, todo, samples, history, server>>

\* Mutant: the empty-host timer starts again at every sample.
WdHost_Restarting ==
    /\ ~down /\ wd = "check" /\ todo = {}
    /\ wd' = "sleep"
    /\ samples' = 0
    /\ UNCHANGED <<map, deleted, idle, registry, work, threads, todo, cand, history, server>>

\* All candidates done: count(), then empty_since, or on to exit(0).
WdHost ==
    /\ ~down /\ wd = "check" /\ todo = {}
    /\ IF map # {}
       THEN wd' = "sleep" /\ samples' = 0
       ELSE /\ wd' = IF samples >= IdleTicks THEN "exit" ELSE "sleep"
            /\ samples' = samples + 1
    /\ UNCHANGED <<map, deleted, idle, registry, work, threads, todo, cand, history, server>>

\* Dedicated mode: idle_ms passes without a stamp.
GoesQuiet ==
    /\ ~down /\ mode = "dedicated" /\ ~quiet
    /\ quiet' = TRUE
    /\ UNCHANGED <<map, deleted, idle, registry, work, threads, watchdog, history, mode, down>>

\* One of the watchdog's three reads: it goes on to the next if `cond' holds.
WdRead(from, cond, to) ==
    /\ ~down /\ wd = from
    /\ wd' = IF cond THEN to ELSE "sleep"
    /\ UNCHANGED <<map, deleted, idle, registry, work, threads, todo, cand, samples, server>>

WdQuiet == mode = "dedicated" /\ quiet /\ WdRead("sleep", TRUE, "procs") /\ UNCHANGED history
WdRunning == WdRead("procs", RunningCount = 0, "active") /\ late' = {} /\ UNCHANGED begun

\* Mutant: foreground commands are not counted.
WdActive_Uncounted == WdRead("active", TRUE, "exit") /\ begun' = {} /\ UNCHANGED late

\* active_ops(); what begins from here on is not seen.
WdActive ==
    /\ WdRead("active", active = 0, "exit")
    /\ begun' = {}
    /\ late' = IF active = 0 THEN late ELSE {}

\* process::exit(0)
WdExit ==
    /\ ~down /\ wd = "exit"
    /\ down' = TRUE
    /\ wd' = "sleep" /\ late' = {} /\ begun' = {}
    /\ UNCHANGED <<map, deleted, idle, registry, work, threads, todo, cand, samples, mode, quiet>>

-----------------------------------------------------------------------------
HandlerStep(t) ==
    \/ SpawnFails(t) \/ SpawnForeground(t) \/ SpawnBackground(t)
    \/ BeginOp(t) \/ Register(t)
    \/ DeleteKill(t) \/ DeleteForget(t) \/ StopKill(t)
    \/ (t \notin mine /\ EndOp(t))

WatchdogStep ==
    \/ WdScan \/ (\E s \in Sandboxes : WdCountProcs(s)) \/ WdCountOps
    \/ WdRemove \/ WdKill \/ WdForget \/ WdHost
    \/ WdQuiet \/ WdRunning \/ WdActive \/ WdExit

Next ==
    \/ \E t \in Threads :
        \/ HandlerStep(t) \/ EndOp(t) \/ Output(t)
        \/ \E s \in Scopes : Request(t, s) \/ StopRemove(t, s)
        \/ \E s \in Sandboxes : Create(t, s) \/ DeleteRemove(t, s) \/ ForgetGone(t, s)
    \/ \E s \in Sandboxes : BecomesIdle(s)
    \/ GoesQuiet
    \/ CommandEnds
    \/ \E i \in DOMAIN procs : PumpExit(i)
    \/ WatchdogStep

Spec == Init /\ [][Next]_vars

\* The watchdog and the handlers keep running, and recorded exits arrive;
\* clients, commands and the clock are under no obligation.
FairSpec ==
    /\ Spec
    /\ WF_vars(\E i \in DOMAIN procs : PumpExit(i))
    /\ WF_vars(WatchdogStep)
    /\ \A t \in Threads : WF_vars(HandlerStep(t))

-----------------------------------------------------------------------------
(* Properties *)

\* Something runs for s: a background process, a command still in the hands of
\* its handler, or one whose client went away.
HasWork(s) ==
    LiveOf(s) # {} \/ s \in left \/ \E t \in mine : sbx[t] = s

\* A DELETE has taken the process off the list and is about to kill it.
BeingStopped(i) == \E t \in Threads : pc[t] = "stop" /\ victim[t] = i

\* Every running background process of a registered sandbox is listed, so that
\* it counts as work and its owner can stop it, unless somebody is stopping it:
\* neither trimming nor the teardown of another sandbox loses it.
RunningListed ==
    \A i \in live : owner[i] \in map =>
        BeingStopped(i) \/ \E j \in DOMAIN procs : procs[j].id = i

\* An eviction kills no background process that was registered when the
\* watchdog counted the sandbox's processes.
EvictionSparesRegistered ==
    [][wd = "kill" /\ wd' = "forget" =>
         \A i \in LiveOf(cand) : i \in late \/ BeingStopped(i)]_vars

\* The exit of a dedicated server spares every background process registered when it
\* counted them, and every foreground command being streamed when it read active_ops,
\* whatever started or ended between its three reads and the exit.
ShutdownSparesCounted ==
    [][mode = "dedicated" /\ down' /\ ~down =>
         /\ \A i \in live : i \in late \/ BeingStopped(i)
         /\ \A t \in Threads : pc[t] = "stream" => t \in begun]_vars

\* Nobody is being streamed the output of a foreground command.
NoStream == \A t \in Threads : pc[t] # "stream"

\* A server that stays abandoned is shut down: a host without sandboxes, or a dedicated
\* server that is quiet, runs no background process and streams to nobody.
AbandonedServerStops ==
    \/ []<>(IF mode = "host" THEN map # {} ELSE ~quiet \/ live # {} \/ ~NoStream)
    \/ <>down

\* A sandbox that stays idle without work is evicted, once no foreground command is
\* streamed any more: no operation that is over goes on counting as one.
IdleEvictedWhenHostQuiet ==
    \A s \in Sandboxes :
        <>[]NoStream => []<>(s \notin idle \/ HasWork(s) \/ down)

\* running_count_for: "host-mode idle eviction must not evict a sandbox that
\* still has work running".
EvictsOnlyQuiet == [][wd = "kill" /\ wd' = "forget" => ~HasWork(cand)]_vars
=============================================================================
