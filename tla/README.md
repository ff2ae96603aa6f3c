# A TLA+ model of sandbox-server

`sandbox-server` is a small HTTP server (Rust, one thread per connection, no async
runtime) that runs commands and serves files inside a job. In *dedicated* mode the
job is the sandbox. In *host* mode one job packs many sandboxes, each with its own
uid, home directory and Landlock ruleset. These modules model the parts of it whose
correctness depends on how threads, processes, peers and failures interleave.
Source files are named relative to the repository (`src/exec.rs`, ...).

## 1. Inventory

| Component | State it keeps | Operations | What makes it hard |
|---|---|---|---|
| Sandbox registry and uid pool (`src/sandboxes.rs`) | `map`, `reserved`, `UidPool{next, free, quarantined}`, per entry `uid`, `deleted`, home, ruleset | `create`, `delete`, `kill_uid`, `get`, `touch` | creates, deletes and spawns race; every step can fail; a uid must not be reused while anything remains of its last holder |
| Kill sweep (`kill_uid`, `pids_of_uid`) | the pids of one pass | getdents, status reads, SIGKILL, verdict | `/proc` is read entry by entry while processes fork and exit |
| Sandbox endpoints (`handle_create`, `handle_delete`, `handle_delete_all`) | none | clamp, loop over `create` or `delete`, answer | capacity and ids read long before they are used |
| Command supervision (`src/exec.rs`) | `ProcHandle{pid, pidfd, running}`, `OWNED_PIDS`, one waiter and one watcher thread per command, one orphan reaper | `spawn`, `kill_tree`, `wait_and_report`, reaper pass | the kernel reuses pids; two parties wait for children |
| Output streaming (`src/exec.rs`) | two pipes, two reader threads, a bounded channel, the Exit event | read, send, drain with deadline, consume | backpressure, descendants that keep pipes open, clients that leave |
| Process registry and watchdog (`src/exec.rs`, `src/main.rs`) | `procs`, `seq`, `active`, `last_activity`, idle timers | insert and trim, remove, count, evict, exit | counters read in separate steps from the action they justify |
| HTTP connection (`src/main.rs`, `src/http.rs`) | socket buffers, `Request{content_length, body_consumed}`, `ResponseWriter` | read a head, read, stream or drain a body, answer, keep alive | request and response framing must survive every way a handler can end |
| Port proxy (`src/proxy.rs`) | two sockets, a BufReader with prefetched bytes, a pump thread | look up and vet a socket, connect, replay, splice, tear down | two threads, four half-connections, no timeouts |
| File endpoints, descriptor walk (`src/files.rs`, `src/fsutil.rs`) | the file system | read, write, list, stat, delete, mkdir | files and directories change underneath a server that runs as root |
| Start-up, connection limit, authorisation, routing (`src/main.rs`) | configuration, `LIVE_CONNECTIONS`, tokens | refuse or serve, accept, authorise, dispatch | the order of checks; a sandbox looked up twice |
| Landlock (`src/landlock.rs`) | pinned directory descriptors, rulesets | features per ABI, build, restrict | what is enforced is put together apart from what is promised |

Interactions: connection threads call the registry, which shares the entry's
`deleted` mutex with `spawn`; `spawn` shares `OWNED_PIDS` with the reaper; the waiter
and the readers feed the channel that a connection thread or a pump thread consumes;
the watchdog reads the counters of the process registry and calls `delete`; the proxy
takes the socket away from the connection loop; routing hands a registry entry to the
file, command and proxy handlers, which use it after it may have been deleted.

What each part must guarantee:

* registry: one holder per uid, no process or file inherited, capacity exact, a delete returns;
* sweep: what a verdict "empty" can miss is only what was forked behind the last pass;
* endpoints: a create is turned away only from a full host, an answer accounts for the whole request;
* supervision: signals only reach the command meant, exit statuses reach their waiter, nothing stays a zombie, no thread outlives its purpose;
* streaming: output in order and complete, Exit always;
* activity: work the watchdog could count is never ended by it, abandoned work and servers always are;
* connection: requests are read at message boundaries, answers match them, a stalled client is dropped;
* proxy: both directions in order and complete, teardown always finishes;
* files: nothing outside the home is reached, uploads and listings come out whole, what is created belongs to the sandbox;
* front door: a handler acts only on what the credential covers, an unauthenticated caller learns nothing, a command runs under what `/health` promises.

The hazards behind these guarantees are listed, each at its line, in `PROJECT.json`.

## 2. Modules

| Module | Models | Checked by |
|---|---|---|
| `UidLease` | abstract: what the pool promises about a uid (available, leased, retired; live processes only while leased or retired) | refined by `SandboxPool` |
| `SandboxPool` | `SandboxRegistry`, `UidPool`, `kill_uid` pass by pass, `spawn`'s side of the mutex | `MCSandboxPool`, `SandboxPoolProofs` |
| `KillSweep` | `kill_uid` and `pids_of_uid` read by read | `MCKillSweep`, `ProcessProofs` |
| `ProcSupervision` | `ProcHandle`, waiter, watcher, `OWNED_PIDS`, reaper, over a process table | `MCProcSupervision`, `ProcessProofs` |
| `OutputStream` | pipes, readers, channel, drain, consumer of one command | `MCOutputStream`, `OutputStreamProofs` |
| `HostActivity` | `ProcRegistry`, the handlers that start and stop commands, the watchdog of both modes | `MCHostActivity`, `HostActivityProofs` |
| `HttpConnection` | `handle_connection`, `read_request`, bodies, `ResponseWriter` | `MCHttpConnection`, `HttpConnectionProofs` |
| `ProxySplice` | `handle_proxy` after it connected | `MCProxySplice`, `ProxySpliceProofs` |
| `ScopedFiles` | the host-mode file endpoints and `open_sandbox_socket` over `ScopedRoot`, system call by system call | `MCScopedFiles`, `ScopedFilesProofs` |
| `HostRequests` | start-up, connection slots, `authorize`, `route`, the sandbox endpoints, Landlock rulesets | `MCHostRequests`, `HostRequestsProofs` |

Each `MC` module only adds what TLC needs: the sets of configurations and requests, and
symmetry where a run checks safety alone. An operator whose name ends in `_Something`
after the name of an action or helper is a deliberately wrong variant of it; no
specification uses it. It is there to show that the property named beside it in
`PROJECT.json` fails when the code is wrong in that way.

The modules meet at these seams: `KillSweep` opens the pass that `SandboxPool` takes in
one step; `HostActivity` and `HostRequests` take `create` and `delete` as the outcome that
`SandboxPool` details; `ProxySplice` starts where the `Connect` of `ScopedFiles` ends;
`HttpConnection` reduces a route to what it does to the connection, `HostRequests` decides
which route it is.

### How state and actions correspond to the code

**SandboxPool.** The variables are the fields of the registry and of its entries; each
thread has a label `pc`, the entry it holds an `Arc` of (`sbx`), and the locals of the
call it is in. One action is one critical section or one system call with the code
around it: `CreateReserve` is the `fetch_add`, `TakeFreed`/`TakeNew`/`TakeNone` are the
branches of `UidPool::take` under the mutex, `CreateHome*`, `CreateRefuse` and
`CreateInsert` the stages of `create_inner`, `CreateFailSlot`/`CreateFailUid` the error
arm; `DeleteRemove` through `DeleteRelease`/`DeleteQuarantine` are `delete`, with one
`SweepKill` per pass of `kill_uid`; `SpawnLock`, `SpawnFork`, `SpawnReturn` are `spawn`
under the entry's mutex. Abstractions:

* "has live processes" is one bit per sandbox: only emptiness is tested, and a process may fork;
* `pids_of_uid` is an atomic snapshot; `KillSweep` shows how far that is true of a pass
  that reports the uid empty, and a `/proc` that cannot be read is not in `SandboxPool`;
* an id nothing refers to any more may be used again and stands for the next random id;
* strangers are processes the image starts in the uid range; they may appear at any time;
* a file handler cannot bring a removed home back: it acts below an open directory descriptor.

**KillSweep.** Pids are shared with the processes of other uids (`OutsiderForks`); the
kernel hands out the next free one after the last (`Takes`) and starts over at the end.
Any table of processes and any cursor is an initial state, so pids may have started over
before the sweep as well as during it. `Dirents` is one `getdents` of `/proc`, which returns
processes beyond the last pid it returned; `ReadStatus` is one `/proc/<pid>/status`; `Kill`
is one `kill(2)`; `PassEnds` is the loop's `is_empty` test and the final one. `DirentsFail`
and `StatusFails` are reads that fail, which the code skips. The processes fork up to
`RLIMIT_NPROC`, exit and are reaped at any time; one with SIGKILL pending forks no more.
Three histories say what the verdict is worth: `behind` are the pids this uid got where the
pass had been already, `ordered` that new pids were above all others since the pass began,
`unread` that a read failed.

**ProcSupervision.** A pid is a slot of the process table with an occupant (a command,
another process, nobody) in the process group of a command or of none; an ended child stays
a zombie until someone waits for it. `kill_tree` and the reap are one step each because the
`running` mutex covers them, and `kill_tree` is both signals, `kill(-pid)` to the group and
the one to the leader, through its pidfd or by number. Any free number may be handed out
next, at once too, unless it is in use as a group. That includes the window between
`child.wait()` and `untrack_owned`: a command that is given a pid while another waiter still
has to untrack it is recorded in `shared`, and the properties promise nothing to it. The
reaper's peek and reap are two steps with `OWNED_PIDS` held. What `waitid(P_ALL)` shows is
`Front`: the kernel goes through the threads of the server and through the children of each
in the order in which they came to it, so among the adopted processes the eldest zombie is
shown, but a command's zombie may be shown before any of them, and then the tick is over.
`caught` records the commands that the deadline's signal found in their slot.

**OutputStream.** A chunk is its number. Pipes and channel are bounded queues. The drain
deadline can only pass when a reader cannot go on by itself (its pipe is empty and held
open, or the channel is full), since two seconds are ample otherwise.

**HostActivity.** Time is abstract: a sandbox becomes idle, a dedicated server goes quiet,
when nothing stamped it for its timeout, and the watchdog's sleep is one sample. The
watchdog's counter reads (`WdCountProcs`, `WdCountOps`), the parts of its `delete`
(`WdRemove`, `WdKill`) and its `remove_for_sandbox` are separate steps, as are `spawn`,
`begin_op` and `insert`, the `remove_by_id` and `kill_tree` of a stop (`StopRemove`,
`StopKill`; in between the process runs unlisted, on purpose, with the thread that is to
kill it holding it as `victim`), and the three reads of dedicated mode and its exit
(`WdQuiet`, `WdRunning`, `WdActive`, `WdExit`). `late` and `begun` record what was registered
or began to be streamed after the watchdog had looked. `mode` is chosen at the start; in
dedicated mode the whole job is the one scope. A sandbox's uid is its name here, and a sweep
converges.

**HttpConnection.** The wire is a sequence of heads and body units tagged with their
request. Routes are reduced to what they do to the connection: ignore the body, read it
whole up to a limit, stream it with a writer that may fail, send a file that may shrink,
stream a command's output, or take the socket over. `parse_head` decides between
well-formed and not. The body of a request with `Transfer-Encoding` is left on the wire and
parsed as a head: it may be refused (`ReadBadHead`) or be one, with any route and length
(`ReadStray`), and after that every read may find either, since the borders between requests
are no longer the client's. `heads` records the heads that were read, with number 0 for one
the client did not send as such.

**ProxySplice.** Both directions are queues of numbered bytes through bounded sockets;
`Shutdown` calls set the flag the other thread or the peer observes. Peers may half-close
or leave at any time.

**ScopedFiles.** Inodes are names; `entry` maps each directory's names to inodes, some of
them links to the outside, and `owner` says who owns an inode. A thread holds descriptors
(`fd`, `file`, a `stack` while it deletes a tree) and the rest of its path, and makes one
system call per step: the loop of `locate` is `LocateMkdir`, `LocateOpen` and `LocateGive`
(the `fchown`), `mkdir_all` ends with `MkdirLast`, `MkdirAdopt` and `MkdirHand`, a write is
open, `fchown`, body and `set_len`, a recursive delete one probe, unlink, descent or
`rmdir` at a time with the listing it took on entering. `Tamper` is a rename or exchange by
the sandbox between any two of them. The kernel may refuse any open for reasons of its own
(`OpenFails`) and any `fchown`, whose result the code ignores (`HandOver`); `lost` are the
inodes that were left to root in this way and not handed over since. `Normalize` is
`normalize_relative`. `part` is the range of an upload and the page size of a listing; a
client continues a listing from `next`, and repeats a range whose connection broke
(`BodyBreaks`). A listing opens entry after entry (`ListEntry`), in any order, and leaves out
those whose open fails (`missed`); `handle_list` then compares, sorts and pages the texts
that `to_string_lossy` makes of the names, which `Shown` ranks: names that are not UTF-8 may
share a text with another name. `touched` and `connected` record what the privileged calls
reached.

**HostRequests.** `conf` is what `main` found in its environment, flags and kernel;
`Refuses` its exits before serving. A connection goes from `Accept` through `Send`,
`Admit` (authorisation, 411, mode gate, in the code's order) and `Dispatch` (the route
table, where the sandbox is looked up a second time) to a handler. `/health` is the raw path,
so `/health/` is not it. `Remaining` and `CreateBegin` to `CreateDone` are `handle_create`
with the `create` it calls: `CreateReserve` is the `fetch_add` and its test; a create that is
turned away goes on counting until `CreateFull` takes the count back; `CreateOk` and
`CreateIo` are what `create_inner` can return. A delete removes the sandbox (`DeleteOne`,
`DeleteAllStep`) before it gives back the slot (`DeleteFree`). `brim` records that the host
was full, and stays while creates are being turned away. `HandledFs`,
`SystemDirRules`, `Attaches`, `BuildRuleset` and `Enforced` are `landlock.rs`: which rights
a ruleset handles, what it allows on a system directory, a device node or the home, what the
kernel accepts as a rule, and what a restricted process is then guaranteed; `Features` is what
`/health` says. A sandbox is its own capability token and never returns.

## 3. Runs

Passing runs (TLC finishes without error):

| Run | Instance | Shows |
|---|---|---|
| `pool` | 3 threads, 2 sandboxes, 2 uids of which 1 in use at start, capacity 2, 1 sweep pass | no shared or inherited uid, exact slot accounting, no spawn after the mark, quarantine kept, refinement of `UidLease`; a delete returns |
| `sweep` | 4 pids, up to 2 processes of the uid among others, 1 killing pass, any cursor | after a verdict "empty" only what was forked during the last pass at a pid already passed can run, and nothing if new pids were above all others; a `/proc` that cannot be read is excepted |
| `proc` | 2 commands, 1 of them with a timeout, 2 pids | signals stay within the command's group, statuses with their command; timeouts reported exactly; exits reported, watchers end, orphans are reaped |
| `activity` | both modes, 2 sandboxes, 1 thread, 2 process ids, finished list of length 0 | running work stays listed; neither eviction nor shutdown ends what was there when the watchdog counted; abandoned servers stop, idle sandboxes go once no foreground command runs |
| `output` | 2 streams, channel and pipes of 2, 3 chunks each, heirs allowed | order, completeness within the deadline; Exit sent, readers end |
| `http` | 2 pipelined requests, bodies up to 3 units, JSON limit 2, drain limit 1 | framing both ways, answers in order, also once a body is served as a request; a stalled client is dropped |
| `proxy` | sockets of 2, up to 4 bytes each way, up to 2 prefetched | bytes in order and complete, also across half-closes; the tunnel ends when either peer does |
| `files` | 2 threads, every kind of request on paths of up to 2 names, 1 rename by the sandbox or call refused by the kernel, 1 broken upload, 1 pair of names with one text | nothing outside the home is reached; parallel uploads, paged listings and racing creations come out right |
| `requests` | 2 connections, 2 sandbox ids, 22 configurations, 28 requests | handlers act within the credential; 403 tells nothing; commands are confined as promised; creates are turned away from full hosts only |

Bounds. Two sandboxes and three threads give every pair of racing calls on one entry
together with a third party that takes the freed uid or slot; the theorems of section 5
cover the other sizes. Two uids with one in use make `take` skip, reuse and exhaust. Four
pids and two processes put processes on both sides of a pass's position and of the cursor,
with parents that exit before they are looked at and children in slots already passed. Two
commands on two pids let the second take the pid of the first, before and after it was
untracked, and let an orphan, a member of a command's group or an unrelated process take it
while the other command runs; one watcher is enough, as a watcher only ever acts on its own
command. One request thread of `HostActivity` interleaves with the watchdog, the
ends of commands, the clock and a second sandbox's processes, which outlive the requests
that started them; with two ids and a finished list of length zero, trimming happens at
the second registration. Two chunks of channel and pipe with three chunks of output reach every
combination of full and empty. A second request sees whatever the first one left on the
wire, and the per-request state is reset by reading a head, so two requests reach the
desynchronised states. Limits are ordered as in the code's cases: a body below the drain
limit, between the limits, and above the JSON limit. In `files`, one exchange of two names
suffices to put a link or another owner's socket at any step of a walk, since each walk
meets every name once; it and a refused call exclude one another in the run, not in the
proofs. In `requests`, the configurations are the documented one and each
single departure from it, and every ABI boundary on both sides of the required one; a
third connection would be refused like the second of a server limited to one. With two
connections a create is being turned away while a delete frees a slot; that a third is then
turned away too, from a host that is no longer full, is left to the theorem.
`CHECK_DEADLOCK FALSE` is set where the system really comes to rest: a closed connection,
a finished command or sweep, a server that exited, clients that ask for nothing more.

Violated runs. Each states what a comment or document of the repository says and finds
the code doing otherwise; `findings` in `PROJECT.json` quotes the line:

| Run | What TLC shows |
|---|---|
| `activity_evict` | a sandbox is evicted under a command that was just spawned |
| `http_chunked` | after a 411 the chunked body is parsed as the next request |
| `create_rejected` | a batch larger than the free capacity is answered without counting what was cut off |

Smaller disagreements between comments and code, met while modelling and not given a run:

* `src/sandboxes.rs:297` releases the uid of a failed create as "clean by construction"; a
  home that was already given to it stays on disk if removing it failed (line 341 ignores
  the error), owned by that uid.
* `src/exec.rs:349`: Exit waits for the readers two seconds; output that a slow client
  held back in the full channel for longer can arrive behind it.
* `kill_uid` takes an unreadable `/proc` (no free descriptors) for an empty uid, and can
  miss a process that gets a pid the pass has gone by, which takes pids that started over,
  before the sweep or during it; the recheck in `UidPool::take` is the second defence, which
  `SandboxPool` has.
* A dedicated server does not count a foreground command whose client left, and may exit
  just after a long silent command ended, because it read `last_activity` before the
  command's Exit stamped it.
* `src/files.rs:321`: a listing with `limit=0` answers `truncated` with no `next`.
* A directory the server creates can stay with root if the sandbox renames it between
  `mkdirat` and the open that leads to `fchown`, if that open is refused, or if `fchown` fails,
  which is ignored (`src/fsutil.rs:196`, 300); `CreatedHandedOver` is about runs without
  such renames and says of what it excepts that one of the latter happened to it.
* `src/files.rs:316`: of two names with the same lossy text the second is skipped when a
  page ends between them, and an entry whose open fails is left out without a word.
* `src/exec.rs:327`: a command that ended by itself just before its deadline, and was not
  collected yet, is reported as timed out; `TimeoutReportedExactly` counts it as one.
* `src/sandboxes.rs:269` says a create is refused when the host is at capacity; one can be
  refused with a slot free, because another refused create has not undone its increment yet.
  `TurnedAwayFromFull` says how far that can go: there was a full host, and refused creates
  ever since.
* `src/exec.rs:447` says a deleted sandbox's processes are forgotten; one registered after
  `remove_for_sandbox` ran stays listed, for a sandbox nobody can ask about.
* `src/exec.rs:402` says finished processes are kept per scope; `insert` counts those of all
  sandboxes together, so one sandbox's displace another's.
* The README's `SBX_IDLE_TIMEOUT` speaks of no authenticated request; in host mode only the
  absence of sandboxes counts, so the empty host can exit shortly after a request.
* `src/main.rs:502` tests `active_ops` of the whole host: a foreground command of one
  sandbox keeps every other idle sandbox alive, hence the premise of
  `IdleEvictedWhenHostQuiet`.
* `src/main.rs:375` wants no connection dropped silently; an over-long JSON body is.
* `src/exec.rs:334`: `untrack_owned` comes after the reap and can remove the pid of a newer
  command, which then is no longer tracked; the reaper may take its status, after which its
  `running` flag stands for a pid that is not its own. The history `shared` marks these
  commands, and the properties of `proc` are about the others.

## 4. Fairness

* `SandboxPool`: weak fairness of each thread inside a call. Threads are scheduled by
  the OS, mutexes are held for bounded sections; requests and process exits are not
  obliged to happen. The sweep is bounded by its passes, not by fairness of exits.
* `ProcSupervision`: weak fairness of waiter, watcher and reaper as a whole, not of what the
  reaper does with a given orphan. `Untrack` is strongly fair because the reaper sleeps a
  second without the mutex after at most 256 rounds. That an orphan is reaped although a
  command in front ends the tick follows from the waiters, which collect their commands, and
  from the order among the adopted; an endless stream of ending commands could put it off
  for ever, and the model has finitely many.
* `OutputStream`: readers, waiter and consumer run; the consumer moves on because every
  write to a client has a timeout. The command and its descendants owe nothing.
* `HostActivity`: watchdog, handlers and exit recording run; clients, commands and the
  clock owe nothing.
* `HttpConnection`: the thread runs, as every read and write has a timeout. A stream or
  a tunnel may last for ever.
* `ProxySplice`: both threads run. The tunnel has no timeouts, so ending it also takes a
  client that reads what it is sent (or leaves) and a backend that reads its input and
  closes at its end; these are assumptions about the peers, not about the server.
* `KillSweep`, `ScopedFiles` and `HostRequests` state safety only and assume no fairness.

## 5. Proofs

Every safety invariant and action property of the passing runs is also a theorem, for every
value of the constants that the assumptions of its module allow: any number of threads, sandboxes, connections, commands or
pids, any sizes of queues, sockets, bodies and limits, any requests and configurations. No theorem
has a hypothesis of its own.

| Module | Theorem | States |
|---|---|---|
| `SandboxPoolProofs` | `PoolInvariant`, `LeaseInvariant`, `TypesHold` | `[]PoolInv` (the inductive invariant), `[]LeaseInv`, `[]TypeOK` |
| | `UidsExclusive`, `ProcessesNotInherited`, `SpawnsStopAtMark` | `[]UidExclusive`, `[]NoInheritedProcesses`, `NoSpawnAfterMark` |
| | `SlotsExact`, `CapacityHolds` | `[]ReservedExact`, `[]CapacityRespected` |
| | `TornDownHomesKept` | `[]TornDownHomesKeepUid` |
| | `RegistryImplementsLease` | `Spec => ImplementsLease`: the registry refines `UidLease` |
| `ProcessProofs` | `SupervisionInvariant` | `[]SupInv` |
| | `StatusesNotStolen`, `PidsNameCommands`, `TimeoutsReportedExactly` | `[]StatusNotStolen`, `[]PidNamesCommand`, `[]TimeoutReportedExactly` |
| | `StrangersNotSignalled` | `NoStrangerSignalled` |
| | `SweepInvariant`, `VerdictsHold` | `[]SweepInv`, `[]VerdictHolds` |
| `OutputStreamProofs` | `StreamInvariant`, `StreamsDeliveredInOrder`, `DrainedStreamsComplete` | `[]StreamInv`, `[]DeliveredPrefix`, `[]DrainedIsComplete` |
| `HttpConnectionProofs` | `ConnectionInvariant` | `[]ConnInv` |
| | `StaysAtMessageBoundaries`, `ResponsesComplete`, `RequestsAnsweredInOrder` | `[]AtMessageBoundary`, `[]ResponseComplete`, `[]AnswersInOrder` |
| `ProxySpliceProofs` | `SpliceInvariant` | `[]SpliceInv` |
| | `InputForwardedInOrder`, `HalfCloseCarriesAllInput`, `ResponsesDelivered` | `[]ForwardedInOrder`, `[]HalfCloseAfterAllInput`, `[]ResponseDelivered` |
| `HostActivityProofs` | `ActivityInvariant`, `RunningProcessesListed` | `[]ActInv`, `[]RunningListed` |
| | `EvictionsSpareRegistered`, `ShutdownsSpareCounted` | `EvictionSparesRegistered`, `ShutdownSparesCounted` |
| `ScopedFilesProofs` | `FilesInvariant`, `WalksStayInHome`, `CreationsHandedOver` | `[]FilesInv`, `[]StaysInHome`, `[]CreatedHandedOver` |
| | `TrailInvariant`, `UploadsExact`, `ListingsComplete` | `[]TrailInv`, `[]UploadExact`, `[]ListedOnce` |
| `HostRequestsProofs` | `RequestsInvariant` | `[]RequestsInv` |
| | `HandlersAuthorised`, `UnauthenticatedLearnsNothing`, `CommandsConfined` | `[]ServedAuthorised`, `[]UnauthLearnsNothing`, `[]RunsConfined` |
| | `SlotsInvariant`, `TurnedAwayFromFullOnly` | `[]SlotsOK`, `[]TurnedAwayFromFull` |

Each inductive invariant was also evaluated by TLC on the instance of its run.

### Assumptions

Those the modules declare, which TLC evaluates on every instance: token constants differ
from the real ones, bounds are naturals, `SandboxPool`'s capacity is not zero (`main` refuses
it), queues and sockets have room for one element. Finiteness is assumed only where
something is counted: sandboxes and threads of `SandboxPool` (slots), threads of
`HostActivity` (operations under way), connections of `HostRequests` (the connection
limit). `HostRequests` takes requests whose credential is a token, a wrong one or none, and
configurations with integer ABIs and natural capacities; `ScopedFiles` takes requests on
paths of any length over names, `..` and `.`.

### The arguments

**SandboxPool.** `UidExclusive` alone is not inductive: whether a delete may release its uid
depends on what other threads can still do with the entry. `LeaseInv` adds three parts.
`LocalsOK` ties each thread's locals to its label, and in particular says that a spawn's
entry is registered, marked, or about to be marked by exactly the thread that removed it,
and that a spawn past its check holds the mutex of an unmarked entry. `AliveAccounted`
says that whoever has live processes is registered, being torn down, or has its uid in
quarantine. `RegistryOK` says that only a spawn holds a mutex and that uids at or above
`next` are nowhere. The proof has one lemma per group of steps and conjunct: steps that
leave uids alone, steps that take one, steps that move an entry, steps that settle one.
The slot theorems count: every action moves at most one thread or one sandbox between
the sets that hold a slot, and `SlotMoves` gives the cardinalities for each such move.
Capacity then follows because `CreateReserve` only takes a slot when the counter, which
is at least the number of slots in use, is below it. `HomesAccounted` adds, for the homes
that a delete could not remove, that their uid is still the deleting thread's or already in
quarantine. For the refinement, one lemma per group of actions says which of the abstract
steps (or none) it is; `LeaseInv` is what lets a release of the registry be a release of
the abstract lease, since it rules out live processes of the uid.

**ProcSupervision.** `SupInv` is `OwnedUntilReaped`, `PidNamesCommand` and `ReapedExactly`.
A command outside `shared` that is not reaped occupies its pid, the pid is tracked, no other
waiter is going to untrack it, and the reaper, which peeks with `OWNED_PIDS` held, is not
looking at it (`UnreapedNamed`). A pid that serves as a group is not handed out again, so the
members of its group are the command's own and `kill(-pid)` reaches them alone
(`KillTreeDies`); `running` says that the leader is still the command. The reaper never has
its pid in hand. The timeout flag is only set by a watcher that found `running`, and then the
command was in its slot, so once the command is reaped flag and history agree for good,
although the waiter does not wait for the watcher.

**KillSweep.** `NothingMissed` is the core: a pass that has found nothing so far has
everything that runs ahead of its position, in its buffer, or among the pids handed out
behind it. A fork keeps it because it either comes out ahead of the position or enters
`behind`; nothing else makes a process. `PidsInOrder` adds that `behind` stays empty as long
as new pids are above all others, since the position is never above the last of them.

**OutputStream.** `QueueExact` describes the channel without naming its contents: of each
stream it holds every chunk sent and not delivered (`QueueHasAll`), no other
(`QueueInRange`), in order (`QueueInOrder`). With `ReadersRead` and `ExitLast` (after a drain
Exit is the last event) completeness follows when Exit is taken.

**HttpConnection.** `Layout` is the wire followed by what the client owes of the last body.
`HeadsFramed` says that every head in it is followed by exactly the body it announces,
`RestFramed` that what the thread takes for the rest of the current body (`Pending`) is the
rest of it, while it can still read. `CountsAgree` is about `got` and `consumed`, which a
failed `read_body` leaves apart: they agree at every label where one is used for the other.
The restriction to reads that can still succeed is needed, since a client that leaves in
the middle of a body leaves a short one. All this holds until something is served that the
client did not send as a request; `BodiesLed` says that before this can happen a head with
`Transfer-Encoding` was read, so that a client that sends none is never concerned. `HeadsCounted`
and `AnswersSoFar` go on holding: whatever is read is answered once, in its turn.

**ProxySplice.** Each place a byte can be in holds a run of consecutive numbers (`Run`), and
`Upstream` and `Downstream` say where one run ends and the next begins at each pair of
positions of the two threads, as long as what lies in it may still be forwarded; `Phases`
orders the shutdowns.

**HostActivity.** `AllListed` needs `AllAttended`: commands run only for sandboxes that are
registered or that a thread is about to sweep, so removing a sandbox's entries after the
sweep removes none that runs. Trimming is a filter; `Retained` shows that it keeps every
entry that has not finished. An entry that a stop takes off the list has the
thread about to kill it (`StoppedStep`). `OnlyLate` carries the watchdog's count to its kill
or exit: what runs then was registered in between or is being stopped. `OpsCounted` equates
`active` with the number of streaming threads, and `OnlyBegun` carries the read of it to the
exit of a dedicated server.

**ScopedFiles.** `NormalizedNames` shows by induction over the path that `normalize_relative`
leaves plain names only. `ThreadsOK` then says that every descriptor a thread holds is a
directory of the home, a file in it, or the sandbox's socket, `HomeOK` that directories of
the home hold nothing of the outside except through links, which no call follows; both
survive any rename. `BeingHandedOver` says that an inode which the server made and which is
not the sandbox's yet has a thread that is about to hand it over or is in `lost`, until the
sandbox renames.

Uploads and listings need to know that two requests on one path meet the same inode, and
two on different paths do not. `Trail` is what a path leads through, from the home down.
Until the sandbox renames, every inode has one name (`Single`: a creation takes an unused
inode, a delete only removes names), so two different paths never lead to one inode
(`TrailUnique`), and a thread holds what its own path leads to. With deletes this holds of
the inodes that were there at the start (`OnInitialTrail`); if none was asked for, of all
(`OnTrail`), because a trail then only grows (`TrailStays`). `RangesKept` follows: only
uploads of the same path write to a file, so that a range once written stays, and the one
that states the size cuts no other off. `UploadExact` therefore says under which other
requests it holds: any number of threads doing anything but delete, rename or overwrite the
file as a whole. For listings, `SortedNames` says what the result of `sort_by` on the texts can be,
`ListsPage` that a page extends what the client has seen by the next texts beyond it, and
`PagesKept` that whatever was there all along is, while a page is read, still to be visited,
found or missed, and, once the listing has passed its text, was given with that text or
missed; here deletes are allowed.

**HostRequests.** `ConnectionOK` says what each label of a connection implies about its
credential, target and counters. `RulesetEnforces` shows, for every ABI, that a process
under the ruleset built for it has at least what `Features` promises; with
`ServesOnlyAccepted` and the rulesets the registry can hold, `RunsConfined` follows.
`SlotsOK` says that the counter is the slots held plus the creates being turned away, and
that while there are any, `brim` holds. The first create of such an episode is turned away
with none before it, so the counter it read is the slots held, and the host is full; the
others find `brim` and keep it. Every step moves one connection between the sets that are
counted (`AtAnyMoves`, `SlotsMove`).

### Only model-checked

* All liveness properties: fairness and `ENABLED` are outside the prover's reach.
* More ranges, names and inodes than `ScopedFiles` defines: in its proofs as in its run an
  upload has two ranges of one byte, there are four names and a few inodes to create.
  Threads, requests, renames and the depth of paths are arbitrary in the proofs.

## 6. Not modelled

* Dedicated-mode file access (`Target::Direct`): `std::fs` on the path as given, with the
  rights of the job's one user; there is no boundary to keep.
* The text of heads and targets: `parse_head`, `build_head`, `split_target`, and
  `ExecSpec::from_json` with the environment of a command. They shape data that no property
  here tells apart; what fails to parse is a refused request or a failing spawn.
* The content of output: `from_utf8_lossy` runs on each read, so a character split between
  two reads is replaced.
* `BODY_TIMEOUT` as a timeout of each read: `HttpConnection` drops a client that stops, a
  client that trickles is one that goes on.
* `idle_timeout_secs * 1000` (`src/sandboxes.rs:641`): one expression on a value the client
  chooses for its own sandbox.
* A SIGKILL of the sweep that meets a pid reused by another uid after pids started over.
* Which system directories exist in the image, resource limits, logging.
* Descriptor lifetimes: enforced by ownership in Rust.
* Fuzz targets, scripts and CI: no behaviour of the server.

## 7. Plan

Done, in this order: the uid pool and registry, command supervision, activity and watchdog,
output, the connection loop, the proxy tunnel, the proofs about the pool; then the kill sweep
read by read, the dedicated watchdog, file access against a tampering sandbox, and the front
door from start-up to confinement; then the proofs about all the other modules, the
refinement of `UidLease`, uploads and listings for any number of threads; last the windows and
failures that the first versions left out: pids that started over, reuse before untracking,
process groups, the order in which children are shown, reads apart from the act they justify,
bodies served as requests, refused opens and chowns, lossy names, and slots as they are counted.

Next:

1. Shorter proofs: several lemmas of `HttpConnectionProofs` and `ScopedFilesProofs` repeat
   one pattern per action.
