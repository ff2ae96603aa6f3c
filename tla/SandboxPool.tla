---------------------------- MODULE SandboxPool ----------------------------
(***************************************************************************)
(* The sandbox registry of host mode: SandboxRegistry and UidPool          *)
(* (src/sandboxes.rs) with exec::spawn's side of the `deleted' mutex       *)
(* (src/exec.rs).                                                          *)
(*                                                                         *)
(* Connection threads and the idle watchdog call create, delete and spawn  *)
(* concurrently on one registry.  Every step below is one critical section *)
(* or one system call of those functions, so the interleavings are the     *)
(* ones the mutexes and atomics of the code permit.                        *)
(*                                                                         *)
(* Data that no property distinguishes is abstracted: a sandbox is its id; *)
(* "has live processes" is one bit per sandbox, because a process may fork *)
(* and only emptiness is ever tested; a home is present, with an owner, or *)
(* absent.  An id denotes a fresh random one each time: an id that nothing *)
(* refers to any more may stand for the next random id.                    *)
(***************************************************************************)
EXTENDS Integers, Sequences, FiniteSets

CONSTANTS
    Sandboxes,        \* ids random_hex(8) can return
    Threads,          \* connection threads and the idle watchdog
    NoSandbox,        \* "no entry held"
    NoThread,         \* "mutex not held"
    UidRange,         \* UID_MAX - UID_BASE; uids are offsets into the range
    InUse,            \* uids_already_in_use() at startup
    Capacity,         \* SBX_CAPACITY
    AllowUnconfined,  \* --allow-unconfined
    SweepAttempts     \* passes of kill_uid before its last scan (100)

Uids == 0 .. (UidRange - 1)
NoUid == -1
Root == -2           \* the server's own uid

ASSUME IdsAssumption ==
    NoSandbox \notin Sandboxes /\ NoThread \notin Threads
ASSUME FiniteAssumption == IsFiniteSet(Sandboxes) /\ IsFiniteSet(Threads)
ASSUME UidAssumption == UidRange \in Nat /\ InUse \subseteq Uids
\* main refuses to start with SBX_CAPACITY=0.
ASSUME CapacityAssumption == Capacity \in Nat \ {0}
ASSUME SweepAssumption == SweepAttempts \in Nat
ASSUME ConfinementAssumption == AllowUnconfined \in BOOLEAN

VARIABLES
    map,          \* ids in SandboxRegistry.map
    reserved,     \* SandboxRegistry.reserved
    next,         \* UidPool.next
    free,         \* UidPool.free, a LIFO Vec
    quarantined,  \* UidPool.quarantined
    entryUid,     \* SandboxEntry.uid
    deleted,      \* entries whose `deleted' flag is true
    guard,        \* who holds the `deleted' mutex of an entry
    home,         \* owner of the home directory on disk, NoUid if absent
    alive,        \* sandboxes with at least one live process
    strangers,    \* uids with a live process that no sandbox started
    pc, sbx, uid, \* what each thread is doing, on which entry, with which uid
    tries,        \* passes of kill_uid made by the thread
    clean         \* `converged' && removed.is_ok() so far

pool == <<next, free, quarantined>>
entries == <<map, entryUid, deleted, guard>>
world == <<home, alive, strangers>>
locals == <<pc, sbx, uid, tries, clean>>
vars == <<map, reserved, next, free, quarantined, entryUid, deleted, guard,
          home, alive, strangers, pc, sbx, uid, tries, clean>>

Labels == {"idle",
           "undo", "take", "build", "confine", "fail_slot", "fail_uid",
           "mark", "slot", "sweep", "unlink", "settle",
           "spawn", "fork", "unlock"}

\* Types, except that the counter is not known to stay above zero.
ShapeOK ==
    /\ map \subseteq Sandboxes
    /\ reserved \in Int
    /\ next \in 0 .. UidRange
    /\ free \in Seq(Uids)
    /\ quarantined \subseteq Uids
    /\ entryUid \in [Sandboxes -> Uids \cup {NoUid}]
    /\ deleted \subseteq Sandboxes
    /\ guard \in [Sandboxes -> Threads \cup {NoThread}]
    /\ home \in [Sandboxes -> Uids \cup {NoUid, Root}]
    /\ alive \subseteq Sandboxes
    /\ strangers \subseteq Uids
    /\ pc \in [Threads -> Labels]
    /\ sbx \in [Threads -> Sandboxes \cup {NoSandbox}]
    /\ uid \in [Threads -> Uids \cup {NoUid}]
    /\ tries \in [Threads -> 0 .. SweepAttempts]
    /\ clean \in [Threads -> BOOLEAN]

\* Types.  The usize counter would wrap around below zero: it never goes
\* there, although five places lower it.
TypeOK == ShapeOK /\ reserved >= 0

Init ==
    /\ map = {}
    /\ reserved = 0
    /\ next = 0
    /\ free = <<>>
    /\ quarantined = InUse
    /\ entryUid = [s \in Sandboxes |-> NoUid]
    /\ deleted = {}
    /\ guard = [s \in Sandboxes |-> NoThread]
    /\ home = [s \in Sandboxes |-> NoUid]
    /\ alive = {}
    /\ strangers = {}
    /\ pc = [t \in Threads |-> "idle"]
    /\ sbx = [t \in Threads |-> NoSandbox]
    /\ uid = [t \in Threads |-> NoUid]
    /\ tries = [t \in Threads |-> 0]
    /\ clean = [t \in Threads |-> TRUE]

-----------------------------------------------------------------------------
(* Helpers *)

\* Thread t moves from one label to another and keeps its other locals.
Goto(t, from, to) ==
    /\ pc[t] = from
    /\ pc' = [pc EXCEPT ![t] = to]

\* The call made by t returns: its references and locals go out of scope.
Return(t, from) ==
    /\ Goto(t, from, "idle")
    /\ sbx' = [sbx EXCEPT ![t] = NoSandbox]
    /\ uid' = [uid EXCEPT ![t] = NoUid]
    /\ tries' = [tries EXCEPT ![t] = 0]
    /\ clean' = [clean EXCEPT ![t] = TRUE]

\* Sandboxes with a live process under uid u.
LiveUnder(u) == {s \in alive : entryUid[s] = u}

\* pids_of_uid(u) is not empty: some live process has real uid u.
Haunted(u) == LiveUnder(u) # {} \/ u \in strangers

\* An id nothing refers to: no entry, no Arc, no process, no directory.
Fresh(s) ==
    /\ s \notin map /\ s \notin alive /\ home[s] = NoUid
    /\ \A t \in Threads : sbx[t] # s

Elements(seq) == {seq[i] : i \in DOMAIN seq}

-----------------------------------------------------------------------------
(* SandboxRegistry::create *)

\* Mutant: the comparison is off by one.
CreateReserve_OffByOne(t) ==
    /\ Goto(t, "idle", IF reserved > Capacity THEN "undo" ELSE "take")
    /\ reserved' = reserved + 1
    /\ UNCHANGED <<pool, entries, world, sbx, uid, tries, clean>>

\* reserved.fetch_add(1) >= capacity: the counter is raised either way.
CreateReserve(t) ==
    /\ Goto(t, "idle", IF reserved >= Capacity THEN "undo" ELSE "take")
    /\ reserved' = reserved + 1
    /\ UNCHANGED <<pool, entries, world, sbx, uid, tries, clean>>

\* fetch_sub and CreateError::Full, for a full host or an exhausted range.
CreateFull(t) ==
    /\ Return(t, "undo")
    /\ reserved' = reserved - 1
    /\ UNCHANGED <<pool, entries, world>>

\* The free uids above position k were popped and still have processes.
PoppedHaunted(k) == \A i \in (k + 1) .. Len(free) : Haunted(free[i])

Popped(k) == {free[i] : i \in (k + 1) .. Len(free)}

\* UidPool::take, under the `uids' mutex: the most recently freed uid that
\* pids_of_uid finds empty; the ones popped before it are quarantined.
TakeFreed(t) ==
    \E k \in 1 .. Len(free) :
        /\ ~Haunted(free[k])
        /\ PoppedHaunted(k)
        /\ Goto(t, "take", "build")
        /\ uid' = [uid EXCEPT ![t] = free[k]]
        /\ free' = SubSeq(free, 1, k - 1)
        /\ quarantined' = quarantined \cup Popped(k)
        /\ UNCHANGED <<next, reserved, entries, world, sbx, tries, clean>>

\* Mutant: fresh uids are not compared with the quarantine list.
TakeNew_IgnoringQuarantine(t) ==
    /\ Goto(t, "take", "build")
    /\ free = <<>> /\ next < UidRange
    /\ uid' = [uid EXCEPT ![t] = next]
    /\ next' = next + 1
    /\ UNCHANGED <<free, quarantined, reserved, entries, world, sbx, tries, clean>>

\* UidPool::take when no freed uid is usable: the first never-used uid that
\* is not quarantined.  Its processes are not looked for.
TakeNew(t) ==
    /\ PoppedHaunted(0)
    /\ free' = <<>>
    /\ quarantined' = quarantined \cup Popped(0)
    /\ \E u \in next .. (UidRange - 1) :
        /\ u \notin quarantined'
        /\ \A v \in next .. (u - 1) : v \in quarantined'
        /\ Goto(t, "take", "build")
        /\ uid' = [uid EXCEPT ![t] = u]
        /\ next' = u + 1
    /\ UNCHANGED <<reserved, entries, world, sbx, tries, clean>>

\* UidPool::take returns None: the range is exhausted.
TakeNone(t) ==
    /\ PoppedHaunted(0)
    /\ free' = <<>>
    /\ quarantined' = quarantined \cup Popped(0)
    /\ \A v \in next .. (UidRange - 1) : v \in quarantined'
    /\ next' = UidRange
    /\ Goto(t, "take", "undo")
    /\ UNCHANGED <<reserved, entries, world, sbx, uid, tries, clean>>

\* A directory named by a new random id appears; no entry has that id yet.
NewHome(s, owner) ==
    /\ Fresh(s)
    /\ home' = [home EXCEPT ![s] = owner]
    /\ deleted' = deleted \ {s}

\* create_inner: random id, then the home with its subdirectories, chowned to
\* the uid; the result of chown is not looked at.
CreateHome(t) ==
    /\ Goto(t, "build", "confine")
    /\ \E s \in Sandboxes, owner \in {uid[t], Root} :
        NewHome(s, owner) /\ sbx' = [sbx EXCEPT ![t] = s]
    /\ UNCHANGED <<pool, reserved, map, entryUid, guard, alive, strangers,
                   uid, tries, clean>>

\* create_inner: /dev/urandom or the first mkdir fails; nothing was made.
CreateHomeFails(t) ==
    /\ Goto(t, "build", "fail_slot")
    /\ UNCHANGED <<pool, reserved, entries, world, sbx, uid, tries, clean>>

\* create_inner: a later `?' fails; the directory made so far stays.  It has
\* not been chowned yet.
CreateHomePartial(t) ==
    /\ Goto(t, "build", "fail_slot")
    /\ \E s \in Sandboxes : NewHome(s, Root)
    /\ UNCHANGED <<pool, reserved, map, entryUid, guard, alive, strangers,
                   sbx, uid, tries, clean>>

\* create_inner: a ruleset was built, or --allow-unconfined accepts uid-only
\* isolation; the entry is inserted and create returns Ok.
CreateInsert(t) ==
    LET s == sbx[t] IN
    /\ Return(t, "confine")
    /\ map' = map \cup {s}
    /\ entryUid' = [entryUid EXCEPT ![s] = uid[t]]
    /\ UNCHANGED <<pool, reserved, deleted, guard, world>>

\* create_inner: no ruleset and no --allow-unconfined.  The result of
\* remove_dir_all is discarded, so the home may stay.
CreateRefuse(t) ==
    /\ ~AllowUnconfined
    /\ Goto(t, "confine", "fail_slot")
    /\ \E gone \in BOOLEAN :
        home' = IF gone THEN [home EXCEPT ![sbx[t]] = NoUid] ELSE home
    /\ sbx' = [sbx EXCEPT ![t] = NoSandbox]
    /\ UNCHANGED <<pool, reserved, entries, alive, strangers, uid, tries, clean>>

\* Mutant: the error arm forgets the slot.
CreateFailSlot_Leaking(t) ==
    /\ Goto(t, "fail_slot", "fail_uid")
    /\ UNCHANGED <<pool, reserved, entries, world, sbx, uid, tries, clean>>

\* create's error arm, first statement: give the slot back.
CreateFailSlot(t) ==
    /\ Goto(t, "fail_slot", "fail_uid")
    /\ reserved' = reserved - 1
    /\ UNCHANGED <<pool, entries, world, sbx, uid, tries, clean>>

\* create's error arm, second statement: release(uid).
CreateFailUid(t) ==
    /\ Return(t, "fail_uid")
    /\ free' = Append(free, uid[t])
    /\ UNCHANGED <<next, quarantined, reserved, entries, world>>

-----------------------------------------------------------------------------
(* SandboxRegistry::delete *)

\* Mutant: the entry is looked up, and stays in the map.
DeleteRemove_Get(t, s) ==
    /\ s \in map
    /\ Goto(t, "idle", "mark")
    /\ sbx' = [sbx EXCEPT ![t] = s]
    /\ uid' = [uid EXCEPT ![t] = entryUid[s]]
    /\ UNCHANGED <<pool, reserved, entries, world, tries, clean>>

\* map.remove(id): exactly one caller gets the entry, any other gets None.
DeleteRemove(t, s) ==
    /\ s \in map
    /\ Goto(t, "idle", "mark")
    /\ map' = map \ {s}
    /\ sbx' = [sbx EXCEPT ![t] = s]
    /\ uid' = [uid EXCEPT ![t] = entryUid[s]]
    /\ UNCHANGED <<pool, reserved, entryUid, deleted, guard, world, tries, clean>>

\* Mutant: the flag is an atomic, so a spawn in progress is not waited for.
DeleteMark_NoLock(t) ==
    /\ Goto(t, "mark", "slot")
    /\ deleted' = deleted \cup {sbx[t]}
    /\ UNCHANGED <<pool, reserved, map, entryUid, guard, world, sbx, uid, tries, clean>>

\* *entry.deleted.lock() = true, which waits for a spawn in progress.
DeleteMark(t) ==
    /\ Goto(t, "mark", "slot")
    /\ guard[sbx[t]] = NoThread
    /\ deleted' = deleted \cup {sbx[t]}
    /\ UNCHANGED <<pool, reserved, map, entryUid, guard, world, sbx, uid, tries, clean>>

DeleteFreeSlot(t) ==
    /\ Goto(t, "slot", "sweep")
    /\ reserved' = reserved - 1
    /\ UNCHANGED <<pool, entries, world, sbx, uid, tries, clean>>

\* kill_uid: a scan that finds nothing, within the attempts or as last scan.
SweepClear(t) ==
    /\ ~Haunted(uid[t])
    /\ Goto(t, "sweep", "unlink")
    /\ UNCHANGED <<pool, reserved, entries, world, sbx, uid, tries, clean>>

\* Mutant: the sweep repeats until nothing is left, without a bound.
SweepKill_Unbounded(t) ==
    /\ pc[t] = "sweep"
    /\ Haunted(uid[t])
    /\ \E dead \in SUBSET LiveUnder(uid[t]) : alive' = alive \ dead
    /\ UNCHANGED <<pool, reserved, entries, home, strangers, locals>>

\* kill_uid: one pass of SIGKILL.  Processes may outrun it by forking.
SweepKill(t) ==
    /\ pc[t] = "sweep"
    /\ Haunted(uid[t])
    /\ tries[t] < SweepAttempts
    /\ tries' = [tries EXCEPT ![t] = @ + 1]
    /\ \E dead \in SUBSET LiveUnder(uid[t]) : alive' = alive \ dead
    /\ strangers' \in {strangers, strangers \ {uid[t]}}
    /\ UNCHANGED <<pool, reserved, entries, home, pc, sbx, uid, clean>>

\* kill_uid: the last scan still finds something; converged = false.
SweepGiveUp(t) ==
    /\ Haunted(uid[t])
    /\ tries[t] = SweepAttempts
    /\ Goto(t, "sweep", "unlink")
    /\ clean' = [clean EXCEPT ![t] = FALSE]
    /\ UNCHANGED <<pool, reserved, entries, world, sbx, uid, tries>>

\* Mutant: the result of remove_dir_all is ignored.
DeleteHome_Unchecked(t) ==
    /\ Goto(t, "unlink", "settle")
    /\ home' \in {home, [home EXCEPT ![sbx[t]] = NoUid]}
    /\ UNCHANGED <<pool, reserved, entries, alive, strangers, sbx, uid, tries, clean>>

\* remove_dir_all(&entry.home), which may fail.
DeleteHome(t) ==
    /\ Goto(t, "unlink", "settle")
    /\ \E removed \in BOOLEAN :
        /\ home' = IF removed THEN [home EXCEPT ![sbx[t]] = NoUid] ELSE home
        /\ clean' = [clean EXCEPT ![t] = clean[t] /\ removed]
    /\ UNCHANGED <<pool, reserved, entries, alive, strangers, sbx, uid, tries>>

\* The sweep converged and the home is gone: the uid may be reused.
DeleteRelease(t) ==
    /\ clean[t]
    /\ Return(t, "settle")
    /\ free' = Append(free, uid[t])
    /\ UNCHANGED <<next, quarantined, reserved, entries, world>>

\* Something survived: the uid is never handed out again.
DeleteQuarantine(t) ==
    /\ ~clean[t]
    /\ Return(t, "settle")
    /\ quarantined' = quarantined \cup {uid[t]}
    /\ UNCHANGED <<next, free, reserved, entries, world>>

-----------------------------------------------------------------------------
(* exec::spawn for a sandbox *)

\* with_sandbox found the entry; the request now reads its body with the Arc
\* in hand, for as long as the client takes.
SpawnGet(t, s) ==
    /\ s \in map
    /\ Goto(t, "idle", "spawn")
    /\ sbx' = [sbx EXCEPT ![t] = s]
    /\ UNCHANGED <<pool, reserved, entries, world, uid, tries, clean>>

\* deleted.lock(): the flag is set, so the spawn is refused.
SpawnRefused(t) ==
    /\ Return(t, "spawn")
    /\ guard[sbx[t]] = NoThread
    /\ sbx[t] \in deleted
    /\ UNCHANGED <<pool, reserved, entries, world>>

\* Mutant: the flag is not looked at after locking.
SpawnLock_Unchecked(t) ==
    /\ Goto(t, "spawn", "fork")
    /\ guard[sbx[t]] = NoThread
    /\ guard' = [guard EXCEPT ![sbx[t]] = t]
    /\ UNCHANGED <<pool, reserved, map, entryUid, deleted, world, sbx, uid, tries, clean>>

\* deleted.lock(): the flag is clear; the guard is kept until spawn returns.
SpawnLock(t) ==
    /\ Goto(t, "spawn", "fork")
    /\ guard[sbx[t]] = NoThread
    /\ sbx[t] \notin deleted
    /\ guard' = [guard EXCEPT ![sbx[t]] = t]
    /\ UNCHANGED <<pool, reserved, map, entryUid, deleted, world, sbx, uid, tries, clean>>

\* command.spawn(): a process starts under the uid, or the spawn fails.
SpawnFork(t) ==
    /\ Goto(t, "fork", "unlock")
    /\ alive' \in {alive, alive \cup {sbx[t]}}
    /\ UNCHANGED <<pool, reserved, entries, home, strangers, sbx, uid, tries, clean>>

\* spawn returns, which drops the guard.
SpawnReturn(t) ==
    /\ Return(t, "unlock")
    /\ guard' = [guard EXCEPT ![sbx[t]] = NoThread]
    /\ UNCHANGED <<pool, reserved, map, entryUid, deleted, world>>

-----------------------------------------------------------------------------
(* The operating system *)

\* The last process of a sandbox exits by itself.
ProcExit(s) ==
    /\ s \in alive
    /\ alive' = alive \ {s}
    /\ UNCHANGED <<pool, reserved, entries, home, strangers, locals>>

\* Something else in the image starts or ends a process under a uid of the
\* range: what take's check at hand-out guards against.  (Nothing ever looks
\* at the processes of a uid in InUse again.)
StrangerStart(u) ==
    /\ u \notin strangers
    /\ strangers' = strangers \cup {u}
    /\ UNCHANGED <<pool, reserved, entries, home, alive, locals>>

StrangerExit(u) ==
    /\ u \in strangers
    /\ strangers' = strangers \ {u}
    /\ UNCHANGED <<pool, reserved, entries, home, alive, locals>>

-----------------------------------------------------------------------------
CreateStep(t) ==
    \/ CreateFull(t) \/ TakeFreed(t) \/ TakeNew(t) \/ TakeNone(t)
    \/ CreateHome(t) \/ CreateHomeFails(t) \/ CreateHomePartial(t)
    \/ CreateInsert(t) \/ CreateRefuse(t)
    \/ CreateFailSlot(t) \/ CreateFailUid(t)

DeleteStep(t) ==
    \/ DeleteMark(t) \/ DeleteFreeSlot(t)
    \/ SweepClear(t) \/ SweepKill(t) \/ SweepGiveUp(t)
    \/ DeleteHome(t) \/ DeleteRelease(t) \/ DeleteQuarantine(t)

SpawnStep(t) ==
    \/ SpawnRefused(t) \/ SpawnLock(t) \/ SpawnFork(t) \/ SpawnReturn(t)

\* A call already started takes its next step.
Step(t) == CreateStep(t) \/ DeleteStep(t) \/ SpawnStep(t)

\* A request arrives (or the watchdog decides to evict).
Begin(t) ==
    \/ CreateReserve(t)
    \/ \E s \in Sandboxes : DeleteRemove(t, s) \/ SpawnGet(t, s)

Environment ==
    \/ \E s \in Sandboxes : ProcExit(s)
    \/ \E u \in Uids \ InUse : StrangerStart(u) \/ StrangerExit(u)

Next == (\E t \in Threads : Begin(t) \/ Step(t)) \/ Environment

Spec == Init /\ [][Next]_vars

\* Threads are preemptive operating-system threads: a call that can take its
\* next step eventually does.  Requests, process exits and strangers are not
\* obliged to happen.
FairSpec == Spec /\ \A t \in Threads : WF_vars(Step(t))

-----------------------------------------------------------------------------
(* Properties *)

\* Labels at which the thread's call is responsible for uid[t].
CreatorLabels == {"build", "confine", "fail_slot", "fail_uid"}
DeleterLabels == {"mark", "slot", "sweep", "unlink", "settle"}
Holds(t) == pc[t] \in CreatorLabels \cup DeleterLabels

Leased(u) ==
    \/ \E s \in map : entryUid[s] = u
    \/ \E t \in Threads : Holds(t) /\ uid[t] = u

\* Calls that hold an entry of the registry without owning its teardown.
SpawnLabels == {"spawn", "fork", "unlock"}

\* A uid has one holder: a registered sandbox, a create in progress, a delete
\* in progress, one place in the free list, or quarantine.  Two of them at
\* once would put two "isolated" sandboxes under one uid, however create,
\* delete and a second delete of the same id interleave.
UidExclusive ==
    /\ \A s1, s2 \in map : entryUid[s1] = entryUid[s2] => s1 = s2
    /\ \A t \in Threads : Holds(t) => \A s \in map : entryUid[s] # uid[t]
    /\ \A t1, t2 \in Threads :
         Holds(t1) /\ Holds(t2) /\ uid[t1] = uid[t2] => t1 = t2
    /\ \A i, j \in DOMAIN free : free[i] = free[j] => i = j
    /\ \A u \in Elements(free) : ~Leased(u) /\ u \notin quarantined
    /\ \A u \in quarantined : ~Leased(u)

\* A live process of sandbox s runs under a uid that nobody but s holds and
\* that is not up for reuse: no other sandbox can signal or read it.  This is
\* what the `deleted' mutex, the kill sweep and the quarantine together give
\* a spawn that raced a delete.
NoInheritedProcesses ==
    \A s \in alive :
        /\ entryUid[s] \notin Elements(free)
        /\ \A r \in map : entryUid[r] = entryUid[s] => r = s
        /\ \A t \in Threads :
             Holds(t) /\ uid[t] = entryUid[s] => sbx[t] = s /\ pc[t] \in DeleterLabels

\* Every entry and every thread's locals agree with where the thread is.
LocalsOK ==
    \A t \in Threads :
        /\ pc[t] \in {"idle", "undo", "take", "build", "fail_slot", "fail_uid"}
             => sbx[t] = NoSandbox
        /\ pc[t] \in CreatorLabels => uid[t] \in Uids
        /\ pc[t] = "confine" =>
             /\ sbx[t] \in Sandboxes \ (map \cup deleted \cup alive)
             /\ \A r \in Threads : sbx[r] = sbx[t] => r = t
        /\ pc[t] \in DeleterLabels =>
             /\ sbx[t] \in Sandboxes \ map
             /\ uid[t] = entryUid[sbx[t]] /\ uid[t] \in Uids
             /\ (pc[t] = "mark") <=> (sbx[t] \notin deleted)
        /\ pc[t] \in {"unlink", "settle"} /\ clean[t] => sbx[t] \notin alive
        /\ pc[t] \in SpawnLabels =>
             /\ sbx[t] \in Sandboxes
             /\ \/ sbx[t] \in deleted
                \/ sbx[t] \in map
                \/ \E r \in Threads : pc[r] = "mark" /\ sbx[r] = sbx[t]
        /\ pc[t] \in {"fork", "unlock"} =>
             guard[sbx[t]] = t /\ sbx[t] \notin deleted

\* Every sandbox with a live process still holds its uid, or the uid is lost.
AliveAccounted ==
    \A s \in alive :
        /\ entryUid[s] \in Uids
        /\ \/ s \in map
           \/ \E t \in Threads : pc[t] \in DeleterLabels /\ sbx[t] = s
           \/ entryUid[s] \in quarantined

\* A registered entry has a uid and is not marked; only a spawn in progress
\* holds a mutex; uids not yet reached by `next' are nowhere in use.
RegistryOK ==
    /\ \A s \in map : entryUid[s] \in Uids /\ s \notin deleted
    /\ \A s \in Sandboxes : guard[s] # NoThread =>
         pc[guard[s]] \in {"fork", "unlock"} /\ sbx[guard[s]] = s
    /\ \A u \in Uids : Leased(u) \/ u \in Elements(free) => u < next

\* The inductive strengthening behind UidExclusive and NoInheritedProcesses:
\* whoever can still start or own a process under a uid is accounted for.
LeaseInv == UidExclusive /\ LocalsOK /\ AliveAccounted /\ RegistryOK

SlotLabels == {"take", "build", "confine", "fail_slot", "mark", "slot"}
SlotThreads == {t \in Threads : pc[t] \in SlotLabels}
UndoThreads == {t \in Threads : pc[t] = "undo"}

\* Slots taken by sandboxes that exist, are being made, or are being removed.
SlotsInUse == Cardinality(map) + Cardinality(SlotThreads)

\* The counter is exactly the slots in use plus the refused creates that have
\* not undone their fetch_add: no error path loses or doubles a slot.
ReservedExact == reserved = SlotsInUse + Cardinality(UndoThreads)

\* Concurrent creates cannot over-commit the host past its capacity.
CapacityRespected == SlotsInUse <= Capacity

\* After a delete, a home directory that is still there is owned by a uid that
\* will not be handed out again.
TornDownHomesKeepUid ==
    \A s \in deleted :
        s \notin map /\ home[s] # NoUid => home[s] \notin Elements(free)

\* No process starts in a sandbox whose teardown passed the deleted mark, even
\* for a request that looked the entry up before the delete.
NoSpawnAfterMark ==
    [][\A s \in Sandboxes : s \in alive' /\ s \notin alive => s \notin deleted]_vars

\* A delete that removed its entry from the registry runs to its end: it waits
\* for the spawns that already hold the entry, and no new ones can come.
DeleteCompletes ==
    \A t \in Threads : pc[t] = "mark" ~> pc[t] = "idle"

\* The uid pool as UidLease describes it.
leaseStatus ==
    [u \in Uids |-> IF u \in quarantined THEN "retired"
                    ELSE IF Leased(u) THEN "leased" ELSE "available"]
leaseLive == {entryUid[s] : s \in alive}

Lease == INSTANCE UidLease WITH status <- leaseStatus, live <- leaseLive

\* The registry implements the lease discipline: every hand-out, release and
\* quarantine is a step of UidLease, everything else leaves it unchanged.
ImplementsLease == Lease!LeaseSpec
=============================================================================
