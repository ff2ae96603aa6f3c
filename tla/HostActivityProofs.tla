------------------------- MODULE HostActivityProofs -------------------------
(* Theorems about HostActivity, for every number of sandboxes, request     *)
(* threads and processes, and every limit on finished ones: a running      *)
(* background process of a registered sandbox is listed, an eviction kills *)
(* none that was registered when the watchdog counted, and the exit of a   *)
(* dedicated server spares what it counted.                                *)
EXTENDS HostActivity, FiniteSetTheorems, SequenceTheorems, TLAPS

-----------------------------------------------------------------------------
(* The inductive invariant *)

ScopeIds == Sandboxes \cup {NoSandbox}
Proc == [id : Ids, sandbox_id : ScopeIds, exit : BOOLEAN]
ThreadLabels == {"idle", "body", "fg", "bg", "stream", "kill", "forget", "stop"}
WatchdogLabels ==
    {"sleep", "check", "ops", "remove", "kill", "forget", "procs", "active", "exit"}

\* Types.
ActTypeOK ==
    /\ map \subseteq Sandboxes /\ idle \subseteq Sandboxes /\ todo \subseteq Sandboxes
    /\ procs \in Seq(Proc) /\ seq \in Nat \ {0} /\ active \in Int
    /\ owner \in [Ids -> ScopeIds]
    /\ live \subseteq Ids /\ mine \subseteq Threads
    /\ pc \in [Threads -> ThreadLabels] /\ sbx \in [Threads -> ScopeIds]
    /\ victim \in [Threads -> Ids \cup {0}]
    /\ wd \in WatchdogLabels /\ cand \in ScopeIds
    /\ mode \in {"host", "dedicated"}

\* An entry of the list names a process that was started for its sandbox, and is
\* marked as finished only when the process is.
EntriesTrue ==
    /\ \A i \in live : i < seq
    /\ \A j \in DOMAIN procs :
         /\ procs[j].id < seq
         /\ owner[procs[j].id] = procs[j].sandbox_id
         /\ procs[j].exit => procs[j].id \notin live

\* Sandboxes, and with them deletions and evictions, are there in host mode only.
InTheirMode ==
    /\ mode = "dedicated" => map = {}
    /\ wd \in {"check", "ops", "remove", "kill", "forget"} => mode = "host"
    /\ wd \in {"procs", "active"} => mode = "dedicated"
    /\ \A t \in Threads : pc[t] \in {"kill", "forget"} => mode = "host"

\* What a deletion or an eviction works on is no longer registered.
Unregistered ==
    /\ \A t \in Threads : pc[t] \in {"kill", "forget"} => sbx[t] \in Sandboxes \ map
    /\ wd \in {"ops", "remove", "kill", "forget"} => cand \in Sandboxes
    /\ wd \in {"kill", "forget"} => cand \notin map

\* A sweep of s is still to come.
KillPending(s) ==
    (\E t \in Threads : pc[t] = "kill" /\ sbx[t] = s) \/ (wd = "kill" /\ cand = s)

\* s is registered, or the whole job, or about to be swept.
Attended(s) == s \in map \/ s = NoSandbox \/ KillPending(s)

\* Commands run only for what is attended; a thread that holds on to a sandbox
\* which is not will be refused.
AllAttended ==
    /\ \A i \in live : Attended(owner[i])
    /\ \A t \in mine : Attended(sbx[t]) /\ pc[t] \in {"fg", "bg", "stream"}
    /\ \A t \in Threads : Attended(sbx[t]) \/ sbx[t] \in deleted

\* A process is listed.
ListedIn(list, i) == \E j \in DOMAIN list : list[j].id = i

\* What runs for a registered sandbox, or for the job, is listed,
\* unless it is being stopped.
AllListed ==
    \A i \in live : owner[i] \in map \cup {NoSandbox} => ListedIn(procs, i) \/ BeingStopped(i)

\* ActiveOp: one per foreground command being streamed.
Streaming == {t \in Threads : pc[t] = "stream"}
OpsCounted == active = Cardinality(Streaming)

LateOrStopped(i) == i \in late \/ BeingStopped(i)

\* What has been running since the watchdog counted was registered after, or is
\* being stopped.
OnlyLate ==
    /\ wd \in {"ops", "remove"} /\ cand \in map => \A i \in LiveOf(cand) : LateOrStopped(i)
    /\ wd = "kill" => \A i \in LiveOf(cand) : LateOrStopped(i)
    /\ wd \in {"active", "exit"} /\ mode = "dedicated" => \A i \in live : LateOrStopped(i)

\* What has been streamed since the watchdog read active_ops began after.
OnlyBegun == wd = "exit" /\ mode = "dedicated" => Streaming \subseteq begun

ActInv ==
    /\ ActTypeOK /\ EntriesTrue /\ InTheirMode /\ Unregistered
    /\ AllAttended /\ AllListed /\ OpsCounted /\ OnlyLate /\ OnlyBegun

\* The tuples of variables are abbreviations, expanded throughout.
USE DEF registry, work, threads, watchdog, history, server

-----------------------------------------------------------------------------
(* Vec::retain *)

Kept(list, doomed) == DOMAIN list \ doomed
Position(kept, i) == Cardinality({j \in kept : j <= i})

\* Later elements of a set of positions have a higher rank, and the ranks are
\* exactly 1, 2, ...
LEMMA PositionsCount ==
    ASSUME NEW L \in Nat, NEW kept \in SUBSET (1 .. L)
    PROVE  /\ Cardinality(kept) \in Nat
           /\ \A i \in kept : Position(kept, i) \in 1 .. Cardinality(kept)
           /\ \A i, j \in kept : Position(kept, i) = Position(kept, j) => i = j
           /\ \A n \in 1 .. Cardinality(kept) : \E i \in kept : Position(kept, i) = n
<1> DEFINE upto(i) == {j \in kept : j <= i}
           N == Cardinality(kept)
<1>1. IsFiniteSet(kept) /\ N \in Nat
  <2>1. IsFiniteSet(1 .. L)
    BY FS_Interval
  <2> QED
    BY <2>1, FS_Subset, FS_CardinalityType
<1>2. \A i \in kept :
        /\ IsFiniteSet(upto(i)) /\ Cardinality(upto(i)) \in Nat
        /\ Cardinality(upto(i)) <= N
  BY <1>1, FS_Subset, FS_CardinalityType
<1>3. ASSUME NEW i \in kept, NEW j \in kept, i < j
      PROVE  Cardinality(upto(i)) < Cardinality(upto(j))
  <2>1. upto(i) \in SUBSET upto(j) /\ j \in upto(j) /\ j \notin upto(i)
    <3>1. kept \subseteq Int /\ i \in Int /\ j \in Int
      OBVIOUS
    <3>2. j \in upto(j) /\ j \notin upto(i)
      BY <1>3, <3>1
    <3>3. \A x \in upto(i) : x \in upto(j)
      BY <1>3, <3>1
    <3> QED
      BY <3>2, <3>3
  <2>2. /\ Cardinality(upto(i)) <= Cardinality(upto(j))
        /\ Cardinality(upto(j)) = Cardinality(upto(i)) => upto(j) = upto(i)
    BY <1>2, <2>1, FS_Subset
  <2> QED
    BY <1>2, <2>1, <2>2
<1>4. \A i \in kept : Cardinality(upto(i)) \in 1 .. N
  <2> SUFFICES ASSUME NEW i \in kept PROVE Cardinality(upto(i)) # 0
    BY <1>1, <1>2
  <2>1. upto(i) # {}
    OBVIOUS
  <2> QED
    BY <1>2, <2>1, FS_EmptySet
<1>5. \A i, j \in kept : Cardinality(upto(i)) = Cardinality(upto(j)) => i = j
  BY <1>2, <1>3
<1> DEFINE f == [i \in kept |-> Cardinality(upto(i))]
<1>6. f \in Injection(kept, 1 .. N)
  BY <1>4, <1>5 DEF Injection, IsInjective
<1>7. IsFiniteSet(1 .. N) /\ Cardinality(1 .. N) = N
  BY <1>1, FS_Interval
<1>8. f \in Surjection(kept, 1 .. N)
  <2> HIDE DEF f
  <2> QED
    BY <1>1, <1>6, <1>7, FS_Injection
<1>9. \A n \in 1 .. N : \E i \in kept : Cardinality(upto(i)) = n
  BY <1>8 DEF Surjection
<1> QED
  BY <1>1, <1>4, <1>5, <1>9 DEF Position

\* Retaining keeps every entry that is not doomed, and no other.
LEMMA Retained ==
    ASSUME NEW S, NEW list \in Seq(S), NEW doomed
    PROVE  /\ Without(list, doomed) \in Seq(S)
           /\ \A i \in DOMAIN list \ doomed :
                \E n \in DOMAIN Without(list, doomed) : Without(list, doomed)[n] = list[i]
           /\ \A n \in DOMAIN Without(list, doomed) :
                \E i \in DOMAIN list \ doomed : Without(list, doomed)[n] = list[i]
<1> DEFINE kept == DOMAIN list \ doomed
           N == Cardinality(kept)
           pick(n) == CHOOSE i \in kept : Position(kept, i) = n
           out == [n \in 1 .. N |-> list[pick(n)]]
<1>1. Len(list) \in Nat /\ kept \in SUBSET (1 .. Len(list))
  BY LenProperties
<1>2. Without(list, doomed) = out
  BY DEF Without, Position
<1>3. N \in Nat /\ \A n \in 1 .. N : pick(n) \in kept /\ Position(kept, pick(n)) = n
  BY <1>1, PositionsCount
<1>4. \A i \in kept : Position(kept, i) \in 1 .. N /\ pick(Position(kept, i)) = i
  <2> SUFFICES ASSUME NEW i \in kept
               PROVE  Position(kept, i) \in 1 .. N /\ pick(Position(kept, i)) = i
    OBVIOUS
  <2>1. Position(kept, i) \in 1 .. N
    BY <1>1, PositionsCount
  <2>2. /\ pick(Position(kept, i)) \in kept
        /\ Position(kept, pick(Position(kept, i))) = Position(kept, i)
    BY <1>3, <2>1
  <2> HIDE DEF pick
  <2> QED
    BY <1>1, <2>1, <2>2, PositionsCount
<1> HIDE DEF pick, kept, N
<1>5. \A i \in kept : list[i] \in S
  BY <1>1 DEF kept
<1>6. out \in Seq(S) /\ DOMAIN out = 1 .. N
  BY <1>3, <1>5
<1>7. \A i \in kept : \E n \in DOMAIN out : out[n] = list[i]
  BY <1>4, <1>6
<1>8. \A n \in DOMAIN out : \E i \in kept : out[n] = list[i]
  BY <1>3, <1>6
<1> QED
  BY SMTT(30), <1>2, <1>6, <1>7, <1>8 DEF kept

-----------------------------------------------------------------------------
(* Steps, by what they do to the list of processes *)

\* The list, the ids and the owners stay; commands may end.
Ending == UNCHANGED <<procs, seq, owner>> /\ live' \subseteq live

\* The entries of a sandbox are dropped.
Forgets(s) == procs' = Forgotten(s) /\ UNCHANGED <<seq, owner, live>>

\* The steps that do more than end commands.
ListSteps ==
    \/ \E t \in Threads : Register(t) \/ DeleteForget(t)
    \/ \E t \in Threads : \E s \in Scopes : StopRemove(t, s)
    \/ \E t \in Threads : \E s \in Sandboxes : ForgetGone(t, s)
    \/ \E i \in DOMAIN procs : PumpExit(i)
    \/ WdForget

\* Every other step leaves the list alone.
LEMMA OtherStepsEnd ==
    ASSUME Next
    PROVE  Ending \/ ListSteps
<1>1. ASSUME NEW t \in Threads, HandlerStep(t) \/ EndOp(t) \/ Output(t) PROVE Ending \/ ListSteps
  BY <1>1 DEF HandlerStep, SpawnFails, SpawnForeground, SpawnBackground, Spawned, BeginOp, EndOp,
      DeleteKill, KillAll, StopKill, Output, Ending, ListSteps, Stamp
<1>2. ASSUME NEW t \in Threads, NEW s \in Scopes, Request(t, s) \/ StopRemove(t, s)
      PROVE  Ending \/ ListSteps
  BY <1>2 DEF Request, Ending, ListSteps
<1>3. ASSUME NEW t \in Threads, NEW s \in Sandboxes,
             Create(t, s) \/ DeleteRemove(t, s) \/ ForgetGone(t, s)
      PROVE  Ending \/ ListSteps
  BY <1>3 DEF Create, DeleteRemove, Ending, ListSteps
<1>4. ASSUME (\E s \in Sandboxes : BecomesIdle(s)) \/ GoesQuiet \/ CommandEnds
      PROVE  Ending
  BY <1>4 DEF BecomesIdle, GoesQuiet, CommandEnds, Ending
<1>5. ASSUME WatchdogStep PROVE Ending \/ ListSteps
  BY <1>5 DEF WatchdogStep, WdScan, WdCountProcs, WdCountOps, WdRemove, WdKill, KillAll, WdHost, WdQuiet,
      WdRunning, WdActive, WdExit, WdRead, Ending, ListSteps
<1> QED
  BY <1>1, <1>2, <1>3, <1>4, <1>5 DEF Next, ListSteps

\* A new entry is kept by the trimming of its own insertion, and so is every
\* entry that is not finished.
LEMMA TrimKeepsRunning ==
    ASSUME NEW list \in Seq(Proc)
    PROVE  /\ Trimmed(list) \in Seq(Proc)
           /\ \A i \in DOMAIN list : ~list[i].exit =>
                \E n \in DOMAIN Trimmed(list) : Trimmed(list)[n] = list[i]
           /\ \A n \in DOMAIN Trimmed(list) : \E i \in DOMAIN list : Trimmed(list)[n] = list[i]
<1>1. \A i \in DOMAIN list : ~list[i].exit => i \in DOMAIN list \ Doomed(list)
  BY DEF Doomed, Finished
<1> QED
  BY <1>1, Retained DEF Trimmed

\* The list after a registration.
LEMMA Registered ==
    ASSUME ActTypeOK, NEW t \in Threads, Register(t)
    PROVE  /\ seq \in Ids /\ seq' = seq + 1
           /\ procs' \in Seq(Proc)
           /\ \A j \in DOMAIN procs' :
                \/ \E i \in DOMAIN procs : procs'[j] = procs[i]
                \/ procs'[j] = [id |-> seq, sandbox_id |-> sbx[t], exit |-> FALSE]
           /\ \A i \in DOMAIN procs : ~procs[i].exit =>
                \E j \in DOMAIN procs' : procs'[j] = procs[i]
           /\ \E j \in DOMAIN procs' : procs'[j].id = seq
<1> DEFINE e == [id |-> seq, sandbox_id |-> sbx[t], exit |-> FALSE]
           list == Append(procs, e)
<1>1. seq \in Ids /\ seq' = seq + 1 /\ procs' = Trimmed(list)
  BY DEF Register
<1>2. e \in Proc /\ e.id = seq /\ ~e.exit
  BY <1>1 DEF Proc, ActTypeOK
<1> HIDE DEF e
<1>3. /\ procs \in Seq(Proc) /\ Len(procs) \in Nat /\ DOMAIN procs = 1 .. Len(procs)
      /\ list \in Seq(Proc) /\ DOMAIN list = 1 .. (Len(procs) + 1)
      /\ list[Len(procs) + 1] = e
      /\ \A i \in 1 .. Len(procs) : list[i] = procs[i]
  <2>1. procs \in Seq(Proc)
    BY DEF ActTypeOK
  <2>2. Len(procs) \in Nat /\ DOMAIN procs = 1 .. Len(procs)
    BY <2>1
  <2>3. /\ list \in Seq(Proc) /\ Len(list) = Len(procs) + 1 /\ list[Len(procs) + 1] = e
        /\ \A i \in 1 .. Len(procs) : list[i] = procs[i]
    BY <1>2, <2>1, AppendProperties
  <2>4. DOMAIN list = 1 .. Len(list)
    BY <2>3
  <2> QED
    BY <2>1, <2>2, <2>3, <2>4
<1> HIDE DEF list
<1>4. /\ Trimmed(list) \in Seq(Proc)
      /\ \A i \in DOMAIN list : ~list[i].exit =>
           \E n \in DOMAIN Trimmed(list) : Trimmed(list)[n] = list[i]
      /\ \A n \in DOMAIN Trimmed(list) : \E i \in DOMAIN list : Trimmed(list)[n] = list[i]
  BY <1>3, TrimKeepsRunning
<1>5. \A j \in DOMAIN procs' : procs'[j] = e \/ \E i \in DOMAIN procs : procs'[j] = procs[i]
  <2> SUFFICES ASSUME NEW j \in DOMAIN procs'
               PROVE  procs'[j] = e \/ \E i \in DOMAIN procs : procs'[j] = procs[i]
    OBVIOUS
  <2>1. PICK i \in DOMAIN list : procs'[j] = list[i]
    BY <1>1, <1>4
  <2> QED
    BY <1>3, <2>1
<1>6. \A i \in DOMAIN procs : ~procs[i].exit => \E j \in DOMAIN procs' : procs'[j] = procs[i]
  BY <1>1, <1>3, <1>4
<1>7. \E j \in DOMAIN procs' : procs'[j] = e
  BY <1>1, <1>2, <1>3, <1>4
<1> QED
  BY <1>1, <1>2, <1>4, <1>5, <1>6, <1>7 DEF e

\* The list after entries were dropped.
LEMMA Dropped ==
    ASSUME ActTypeOK, NEW doomed, procs' = Without(procs, doomed)
    PROVE  /\ procs' \in Seq(Proc)
           /\ \A j \in DOMAIN procs' : \E i \in DOMAIN procs \ doomed : procs'[j] = procs[i]
           /\ \A i \in DOMAIN procs \ doomed : \E j \in DOMAIN procs' : procs'[j] = procs[i]
BY Retained DEF ActTypeOK

\* The list after an exit was recorded.
LEMMA ExitRecorded ==
    ASSUME ActTypeOK, NEW i \in DOMAIN procs, PumpExit(i)
    PROVE  /\ procs' \in Seq(Proc) /\ DOMAIN procs' = DOMAIN procs
           /\ \A j \in DOMAIN procs :
                /\ procs'[j].id = procs[j].id
                /\ procs'[j].sandbox_id = procs[j].sandbox_id
                /\ procs'[j].exit => procs[j].exit \/ procs[j].id \notin live
<1> DEFINE e == [procs[i] EXCEPT !.exit = TRUE]
<1>1. procs \in Seq(Proc) /\ procs[i] \in Proc
  BY DEF ActTypeOK
<1>2. e \in Proc /\ e.id = procs[i].id /\ e.sandbox_id = procs[i].sandbox_id
  BY <1>1 DEF Proc
<1>3. procs' = [procs EXCEPT ![i] = e] /\ procs[i].id \notin live
  BY <1>1 DEF PumpExit
<1> HIDE DEF e
<1>4. procs' \in Seq(Proc) /\ DOMAIN procs' = DOMAIN procs
  BY <1>1, <1>2, <1>3, ExceptSeq
<1>5. \A j \in DOMAIN procs : procs'[j] = IF j = i THEN e ELSE procs[j]
  BY <1>3
<1> QED
  BY <1>2, <1>3, <1>4, <1>5

\* The steps that drop entries, and whose.
LEMMA Forgetting ==
    ASSUME ActInv, (\E t \in Threads : DeleteForget(t) \/ \E s \in Sandboxes : ForgetGone(t, s))
                   \/ WdForget
    PROVE  /\ \E s \in Sandboxes \ map : Forgets(s)
           /\ UNCHANGED <<map, deleted, active, mine>>
<1>1. ASSUME NEW t \in Threads, DeleteForget(t)
      PROVE  sbx[t] \in Sandboxes \ map /\ Forgets(sbx[t]) /\ UNCHANGED <<map, deleted, active, mine>>
  BY <1>1 DEF ActInv, Unregistered, DeleteForget, Return, Goto, Forgets
<1>2. ASSUME NEW t \in Threads, NEW s \in Sandboxes, ForgetGone(t, s)
      PROVE  s \in Sandboxes \ map /\ Forgets(s) /\ UNCHANGED <<map, deleted, active, mine>>
  BY <1>2 DEF ForgetGone, Forgets
<1>3. ASSUME WdForget
      PROVE  cand \in Sandboxes \ map /\ Forgets(cand) /\ UNCHANGED <<map, deleted, active, mine>>
  BY <1>3 DEF ActInv, Unregistered, WdForget, Forgets
<1> QED
  BY <1>1, <1>2, <1>3

-----------------------------------------------------------------------------
(* Types *)

\* The list, the ids and the owners keep their types.
LEMMA ListTypes ==
    ASSUME ActInv, Next
    PROVE  procs' \in Seq(Proc) /\ seq' \in Nat \ {0} /\ owner' \in [Ids -> ScopeIds]
           /\ live' \subseteq Ids
<1>1. /\ ActTypeOK /\ procs \in Seq(Proc) /\ seq \in Nat \ {0} /\ owner \in [Ids -> ScopeIds]
      /\ live \subseteq Ids
  BY DEF ActInv, ActTypeOK
<1>2. CASE Ending
  BY <1>1, <1>2 DEF Ending
<1>3. ASSUME NEW s, Forgets(s) PROVE procs' \in Seq(Proc) /\ UNCHANGED <<seq, owner, live>>
  BY <1>1, <1>3, Dropped DEF Forgets, Forgotten
<1>4. ASSUME NEW t \in Threads, Register(t)
      PROVE  /\ procs' \in Seq(Proc) /\ seq' \in Nat \ {0}
             /\ owner' \in [Ids -> ScopeIds] /\ live' \subseteq Ids
  <2>1. procs' \in Seq(Proc) /\ seq \in Ids /\ seq' = seq + 1
    BY <1>1, <1>4, Registered
  <2>2. sbx[t] \in ScopeIds
    BY <1>1 DEF ActTypeOK
  <2> QED
    BY <1>1, <1>4, <2>1, <2>2 DEF Register
<1>5. ASSUME NEW t \in Threads, NEW s \in Scopes, StopRemove(t, s)
      PROVE  procs' \in Seq(Proc) /\ UNCHANGED <<seq, owner, live>>
  <2>1. PICK i \in Owned(s) : procs' = Without(procs, {i})
    BY <1>5 DEF StopRemove
  <2> QED
    BY <1>1, <1>5, <2>1, Dropped DEF StopRemove
<1>6. ASSUME NEW i \in DOMAIN procs, PumpExit(i)
      PROVE  procs' \in Seq(Proc) /\ UNCHANGED <<seq, owner, live>>
  BY <1>1, <1>6, ExitRecorded DEF PumpExit
<1> QED
  BY <1>1, <1>2, <1>3, <1>4, <1>5, <1>6, OtherStepsEnd, Forgetting DEF ListSteps

\* The threads keep theirs.
LEMMA ThreadTypes ==
    ASSUME ActTypeOK, Next
    PROVE  /\ pc' \in [Threads -> ThreadLabels] /\ sbx' \in [Threads -> ScopeIds]
           /\ mine' \subseteq Threads /\ victim' \in [Threads -> Ids \cup {0}]
<1>1. /\ pc \in [Threads -> ThreadLabels] /\ sbx \in [Threads -> ScopeIds]
      /\ mine \subseteq Threads /\ map \subseteq Sandboxes
      /\ victim \in [Threads -> Ids \cup {0}]
      /\ \A i \in DOMAIN procs : procs[i].id \in Ids
  <2>1. \A i \in DOMAIN procs : procs[i] \in Proc
    BY DEF ActTypeOK
  <2> QED
    BY <2>1 DEF ActTypeOK, Proc
<1>2. Scopes \subseteq ScopeIds /\ Sandboxes \subseteq ScopeIds /\ NoSandbox \in ScopeIds
  BY <1>1 DEF Scopes, ScopeIds
<1>3. ASSUME NEW t \in Threads, HandlerStep(t) \/ EndOp(t) \/ Output(t)
      PROVE  /\ pc' \in [Threads -> ThreadLabels] /\ sbx' \in [Threads -> ScopeIds]
             /\ mine' \subseteq Threads /\ victim' \in [Threads -> Ids \cup {0}]
  BY <1>1, <1>2, <1>3 DEF HandlerStep, SpawnFails, SpawnForeground, SpawnBackground, Spawned,
      BeginOp, Register, EndOp, StopKill, DeleteKill, DeleteForget, KillAll, Output, Return, Goto,
      ThreadLabels
<1>4. ASSUME NEW t \in Threads, NEW s \in Scopes, Request(t, s) \/ StopRemove(t, s)
      PROVE  /\ pc' \in [Threads -> ThreadLabels] /\ sbx' \in [Threads -> ScopeIds]
             /\ mine' \subseteq Threads /\ victim' \in [Threads -> Ids \cup {0}]
  BY <1>1, <1>2, <1>4 DEF Request, StopRemove, Goto, Owned, ThreadLabels
<1>5. ASSUME NEW t \in Threads, NEW s \in Sandboxes,
             Create(t, s) \/ DeleteRemove(t, s) \/ ForgetGone(t, s)
      PROVE  /\ pc' \in [Threads -> ThreadLabels] /\ sbx' \in [Threads -> ScopeIds]
             /\ mine' \subseteq Threads /\ victim' \in [Threads -> Ids \cup {0}]
  BY <1>1, <1>2, <1>5 DEF Create, DeleteRemove, ForgetGone, Goto, ThreadLabels
<1>6. ASSUME \/ \E s \in Sandboxes : BecomesIdle(s)
             \/ GoesQuiet \/ CommandEnds \/ \E i \in DOMAIN procs : PumpExit(i)
             \/ WatchdogStep
      PROVE  pc' = pc /\ sbx' = sbx /\ mine' \subseteq mine /\ victim' = victim
  BY <1>6 DEF BecomesIdle, GoesQuiet, CommandEnds, PumpExit, WatchdogStep, WdScan, WdCountProcs,
      WdCountOps, WdRemove, WdKill, KillAll, WdForget, WdHost, WdQuiet, WdRunning, WdActive, WdExit, WdRead
<1> QED
  BY <1>1, <1>3, <1>4, <1>5, <1>6 DEF Next

\* The watchdog and the registry of sandboxes keep theirs.
LEMMA WatchdogTypes ==
    ASSUME ActTypeOK, Next
    PROVE  /\ map' \subseteq Sandboxes /\ idle' \subseteq Sandboxes /\ todo' \subseteq Sandboxes
           /\ wd' \in WatchdogLabels /\ cand' \in ScopeIds /\ mode' = mode
<1> DEFINE G == /\ map' \subseteq Sandboxes /\ idle' \subseteq Sandboxes
                /\ todo' \subseteq Sandboxes
                /\ wd' \in WatchdogLabels /\ cand' \in ScopeIds /\ mode' = mode
<1>1. /\ map \subseteq Sandboxes /\ idle \subseteq Sandboxes /\ todo \subseteq Sandboxes
      /\ wd \in WatchdogLabels /\ cand \in ScopeIds
  BY DEF ActTypeOK
<1>2. ASSUME NEW t \in Threads, HandlerStep(t) \/ EndOp(t) \/ Output(t) PROVE G
  BY <1>1, <1>2 DEF HandlerStep, SpawnFails, SpawnForeground, SpawnBackground, Spawned,
      BeginOp, Register, EndOp, DeleteKill, DeleteForget, StopKill, Output, Stamp
<1>3. ASSUME NEW t \in Threads, NEW s \in Scopes, Request(t, s) \/ StopRemove(t, s) PROVE G
  BY <1>1, <1>3 DEF Request, StopRemove, Stamp
<1>4. ASSUME NEW t \in Threads, NEW s \in Sandboxes,
             Create(t, s) \/ DeleteRemove(t, s) \/ ForgetGone(t, s)
      PROVE  G
  BY <1>1, <1>4 DEF Create, DeleteRemove, ForgetGone, Stamp
<1>5. ASSUME \/ \E s \in Sandboxes : BecomesIdle(s)
             \/ GoesQuiet \/ CommandEnds \/ \E i \in DOMAIN procs : PumpExit(i)
      PROVE  G
  BY <1>1, <1>5 DEF BecomesIdle, GoesQuiet, CommandEnds, PumpExit
<1>6. ASSUME WatchdogStep PROVE G
  BY <1>1, <1>6 DEF WatchdogStep, WdScan, WdCountProcs, WdCountOps, WdRemove, WdKill, WdForget, WdHost,
      WdQuiet, WdRunning, WdActive, WdExit, WdRead, WatchdogLabels, ScopeIds
<1> QED
  BY <1>2, <1>3, <1>4, <1>5, <1>6 DEF Next

\* Foreground commands are counted while they are streamed.
LEMMA OpsStep ==
    ASSUME ActTypeOK, OpsCounted, Next
    PROVE  OpsCounted' /\ active' \in Int
<1>1. IsFiniteSet(Streaming) /\ Cardinality(Streaming) \in Nat /\ active \in Int
  <2>1. IsFiniteSet(Streaming)
    BY ThreadsAssumption, FS_Subset DEF Streaming
  <2> QED
    BY <2>1, FS_CardinalityType DEF ActTypeOK
<1>2. pc \in [Threads -> ThreadLabels] /\ active = Cardinality(Streaming)
  BY DEF ActTypeOK, OpsCounted
<1>3. ASSUME NEW t \in Threads, BeginOp(t) PROVE OpsCounted' /\ active' \in Int
  <2>1. Streaming' = Streaming \cup {t} /\ t \notin Streaming /\ active' = active + 1
    BY <1>2, <1>3 DEF BeginOp, Goto, Streaming
  <2>2. Cardinality(Streaming \cup {t}) = Cardinality(Streaming) + 1
    BY <1>1, <2>1, FS_AddElement
  <2> QED
    BY <1>1, <1>2, <2>1, <2>2 DEF OpsCounted
<1>4. ASSUME NEW t \in Threads, EndOp(t) PROVE OpsCounted' /\ active' \in Int
  <2>1. Streaming' = Streaming \ {t} /\ t \in Streaming /\ active' = active - 1
    BY <1>2, <1>4 DEF EndOp, Return, Goto, Streaming
  <2>2. Cardinality(Streaming \ {t}) = Cardinality(Streaming) - 1
    BY <1>1, <2>1, FS_RemoveElement
  <2> QED
    BY <1>1, <1>2, <2>1, <2>2 DEF OpsCounted
<1>5. ASSUME Streaming' = Streaming, active' = active PROVE OpsCounted' /\ active' \in Int
  BY <1>1, <1>2, <1>5 DEF OpsCounted
<1>6. ASSUME NEW t \in Threads,
             \/ SpawnFails(t) \/ SpawnForeground(t) \/ SpawnBackground(t) \/ Register(t)
             \/ DeleteKill(t) \/ DeleteForget(t) \/ StopKill(t) \/ Output(t)
      PROVE  Streaming' = Streaming /\ active' = active
  BY <1>2, <1>6 DEF SpawnFails, SpawnForeground, SpawnBackground, Spawned, Register, DeleteKill,
      DeleteForget, StopKill, Output, Return, Goto, Streaming
<1>7. ASSUME NEW t \in Threads, NEW s \in Scopes, Request(t, s) \/ StopRemove(t, s)
      PROVE  Streaming' = Streaming /\ active' = active
  BY <1>2, <1>7 DEF Request, StopRemove, Goto, Streaming
<1>8. ASSUME NEW t \in Threads, NEW s \in Sandboxes,
             Create(t, s) \/ DeleteRemove(t, s) \/ ForgetGone(t, s)
      PROVE  Streaming' = Streaming /\ active' = active
  BY <1>2, <1>8 DEF Create, DeleteRemove, ForgetGone, Goto, Streaming
<1>9. ASSUME \/ \E s \in Sandboxes : BecomesIdle(s)
             \/ GoesQuiet \/ CommandEnds \/ \E i \in DOMAIN procs : PumpExit(i)
             \/ WatchdogStep
      PROVE  pc' = pc /\ active' = active
  BY <1>9 DEF BecomesIdle, GoesQuiet, CommandEnds, PumpExit, WatchdogStep, WdScan, WdCountProcs,
      WdCountOps, WdRemove, WdKill, WdForget, WdHost, WdQuiet, WdRunning, WdActive, WdExit, WdRead
<1>10. pc' = pc => Streaming' = Streaming
  BY DEF Streaming
<1> QED
  BY <1>3, <1>4, <1>5, <1>6, <1>7, <1>8, <1>9, <1>10 DEF Next, HandlerStep

\* Steps keep types.
LEMMA ActTypes ==
    ASSUME ActInv, Next
    PROVE  ActTypeOK'
<1>1. ActTypeOK /\ OpsCounted
  BY DEF ActInv
<1>2. mode' \in {"host", "dedicated"} /\ active' \in Int
  BY <1>1, WatchdogTypes, OpsStep DEF ActTypeOK
<1> QED
  BY <1>1, <1>2, ListTypes, ThreadTypes, WatchdogTypes DEF ActTypeOK

-----------------------------------------------------------------------------
(* The list of processes *)

\* Entries stay true.
LEMMA EntriesStep ==
    ASSUME ActInv, Next
    PROVE  EntriesTrue'
<1>1. /\ ActTypeOK /\ EntriesTrue /\ procs \in Seq(Proc) /\ seq \in Nat \ {0}
      /\ owner \in [Ids -> ScopeIds] /\ live \subseteq Ids
  BY DEF ActInv, ActTypeOK
<1>2. \A j \in DOMAIN procs : procs[j].id \in Ids
  <2>1. \A j \in DOMAIN procs : procs[j] \in Proc
    BY <1>1
  <2> QED
    BY <2>1 DEF Proc
<1>3. CASE Ending
  BY <1>1, <1>3 DEF Ending, EntriesTrue
<1>4. ASSUME NEW doomed, procs' = Without(procs, doomed), UNCHANGED <<seq, owner>>,
             live' \subseteq live
      PROVE  EntriesTrue'
  <2>1. \A j \in DOMAIN procs' : \E i \in DOMAIN procs : procs'[j] = procs[i]
    BY <1>1, <1>4, Dropped
  <2> QED
    BY <1>1, <1>4, <2>1 DEF EntriesTrue
<1>5. ASSUME NEW s, Forgets(s) PROVE EntriesTrue'
  BY <1>4, <1>5 DEF Forgets, Forgotten
<1>6. ASSUME NEW t \in Threads, NEW s \in Scopes, StopRemove(t, s) PROVE EntriesTrue'
  <2>1. PICK i \in Owned(s) : procs' = Without(procs, {i})
    BY <1>6 DEF StopRemove
  <2> QED
    BY <1>4, <1>6, <2>1 DEF StopRemove
<1>7. ASSUME NEW i \in DOMAIN procs, PumpExit(i) PROVE EntriesTrue'
  <2>1. UNCHANGED <<seq, owner, live>>
    BY <1>7 DEF PumpExit
  <2> QED
    BY <1>1, <1>7, <2>1, ExitRecorded DEF EntriesTrue
<1>8. ASSUME NEW t \in Threads, Register(t) PROVE EntriesTrue'
  <2>1. /\ seq \in Ids /\ seq' = seq + 1
        /\ \A j \in DOMAIN procs' :
             \/ \E i \in DOMAIN procs : procs'[j] = procs[i]
             \/ procs'[j] = [id |-> seq, sandbox_id |-> sbx[t], exit |-> FALSE]
    BY <1>1, <1>8, Registered
  <2>2. owner' = [owner EXCEPT ![seq] = sbx[t]] /\ live' \subseteq live \cup {seq}
    BY <1>8 DEF Register
  <2>3. \A i \in live' : i < seq'
    BY <1>1, <2>1, <2>2 DEF EntriesTrue, Ids
  <2>4. ASSUME NEW j \in DOMAIN procs', NEW i \in DOMAIN procs, procs'[j] = procs[i]
        PROVE  /\ procs'[j].id < seq' /\ owner'[procs'[j].id] = procs'[j].sandbox_id
               /\ procs'[j].exit => procs'[j].id \notin live'
    <3>1. /\ procs[i].id \in Ids /\ procs[i].id < seq
          /\ owner[procs[i].id] = procs[i].sandbox_id
          /\ procs[i].exit => procs[i].id \notin live
      BY <1>1, <1>2 DEF EntriesTrue
    <3>2. procs[i].id # seq /\ procs[i].id < seq'
      BY <1>1, <2>1, <3>1 DEF Ids
    <3> QED
      BY <1>1, <2>1, <2>2, <2>4, <3>1, <3>2
  <2>5. ASSUME NEW j \in DOMAIN procs',
               procs'[j] = [id |-> seq, sandbox_id |-> sbx[t], exit |-> FALSE]
        PROVE  /\ procs'[j].id < seq' /\ owner'[procs'[j].id] = procs'[j].sandbox_id
               /\ procs'[j].exit => procs'[j].id \notin live'
    <3>1. procs'[j].id = seq /\ procs'[j].sandbox_id = sbx[t] /\ ~procs'[j].exit
      BY <2>5
    <3>2. seq < seq' /\ owner'[seq] = sbx[t]
      BY <1>1, <2>1, <2>2
    <3> QED
      BY <3>1, <3>2
  <2> QED
    BY <2>1, <2>3, <2>4, <2>5 DEF EntriesTrue
<1> QED
  BY <1>3, <1>5, <1>6, <1>7, <1>8, OtherStepsEnd, Forgetting DEF ListSteps

\* A process that is being stopped is so until it is dead.
LEMMA StoppedStep ==
    ASSUME ActInv, Next, NEW i \in live \cap live', BeingStopped(i)
    PROVE  BeingStopped(i)'
<1>1. PICK t \in Threads : pc[t] = "stop" /\ victim[t] = i
  BY DEF BeingStopped
<1>2. pc \in [Threads -> ThreadLabels] /\ victim \in [Threads -> Ids \cup {0}]
  BY DEF ActInv, ActTypeOK
<1>3. ASSUME pc'[t] = pc[t], victim'[t] = victim[t] PROVE BeingStopped(i)'
  BY <1>1, <1>3 DEF BeingStopped
<1>4. ASSUME NEW r \in Threads, HandlerStep(r) \/ EndOp(r) \/ Output(r) PROVE BeingStopped(i)'
  <2>1. r = t => ~StopKill(r)
    BY <1>1 DEF StopKill
  <2>2. pc'[t] = pc[t] /\ victim'[t] = victim[t]
    BY <1>1, <1>2, <1>4, <2>1 DEF HandlerStep, SpawnFails, SpawnForeground, SpawnBackground,
        Spawned, BeginOp, Register, DeleteKill, DeleteForget, StopKill, EndOp, Output, Return, Goto
  <2> QED
    BY <1>3, <2>2
<1>5. ASSUME NEW r \in Threads, NEW s \in Scopes, Request(r, s) \/ StopRemove(r, s)
      PROVE  BeingStopped(i)'
  <2>1. pc'[t] = pc[t] /\ victim'[t] = victim[t]
    BY <1>1, <1>2, <1>5 DEF Request, StopRemove, Goto
  <2> QED
    BY <1>3, <2>1
<1>6. ASSUME NEW r \in Threads, NEW s \in Sandboxes,
             Create(r, s) \/ DeleteRemove(r, s) \/ ForgetGone(r, s)
      PROVE  BeingStopped(i)'
  <2>1. pc'[t] = pc[t] /\ victim'[t] = victim[t]
    BY <1>1, <1>2, <1>6 DEF Create, DeleteRemove, ForgetGone, Goto
  <2> QED
    BY <1>3, <2>1
<1>7. ASSUME \/ \E s \in Sandboxes : BecomesIdle(s)
             \/ GoesQuiet \/ CommandEnds \/ \E j \in DOMAIN procs : PumpExit(j)
             \/ WatchdogStep
      PROVE  pc' = pc /\ victim' = victim
  BY <1>7 DEF BecomesIdle, GoesQuiet, CommandEnds, PumpExit, WatchdogStep, WdScan, WdCountProcs,
      WdCountOps, WdRemove, WdKill, WdForget, WdHost, WdQuiet, WdRunning, WdActive, WdExit, WdRead
<1> QED
  BY <1>3, <1>4, <1>5, <1>6, <1>7 DEF Next

\* What is listed stays so, but for a process that is being stopped or whose sandbox
\* is no longer registered; a process that is registered is listed.
LEMMA ListedStep ==
    ASSUME ActInv, Next
    PROVE  /\ \A i \in live \cap live' :
                /\ owner'[i] = owner[i]
                /\ owner[i] \in map \cup {NoSandbox} =>
                     ListedIn(procs', i) \/ BeingStopped(i)'
           /\ \A i \in live' \ live : \E t \in mine :
                Register(t) /\ i = seq /\ ListedIn(procs', i) /\ owner'[i] = sbx[t]
<1>1. /\ ActTypeOK /\ EntriesTrue /\ AllListed /\ procs \in Seq(Proc) /\ seq \in Nat \ {0}
      /\ owner \in [Ids -> ScopeIds] /\ live \subseteq Ids /\ map \subseteq Sandboxes
  BY DEF ActInv, ActTypeOK
<1> DEFINE Kept1 == \A i \in live \cap live' :
                     /\ owner'[i] = owner[i]
                     /\ owner[i] \in map \cup {NoSandbox} /\ ListedIn(procs, i) =>
                          ListedIn(procs', i) \/ BeingStopped(i)'
           G == Kept1 /\ live' \subseteq live
           R == Kept1 /\ \A i \in live' \ live : \E t \in mine :
                  Register(t) /\ i = seq /\ ListedIn(procs', i) /\ owner'[i] = sbx[t]
<1>2. ASSUME NEW i \in live, owner[i] \in map \cup {NoSandbox}, ListedIn(procs, i)
      PROVE  \E j \in DOMAIN procs :
               /\ procs[j].id = i /\ ~procs[j].exit /\ procs[j].sandbox_id = owner[i]
  BY <1>1, <1>2 DEF EntriesTrue, ListedIn
<1>3. ASSUME Ending PROVE G
  BY <1>1, <1>3 DEF Ending, ListedIn
<1>4. ASSUME NEW s \in Sandboxes \ map, Forgets(s) PROVE G
  <2>1. /\ UNCHANGED <<owner, live>>
        /\ \A j \in DOMAIN procs \ Owned(s) : \E k \in DOMAIN procs' : procs'[k] = procs[j]
    BY <1>1, <1>4, Dropped DEF Forgets, Forgotten
  <2>2. ASSUME NEW i \in live, owner[i] \in map \cup {NoSandbox}, ListedIn(procs, i)
        PROVE  ListedIn(procs', i)
    <3>1. PICK j \in DOMAIN procs : procs[j].id = i /\ procs[j].sandbox_id = owner[i]
      BY <1>2, <2>2
    <3>2. owner[i] # s
      BY <2>2, <1>4, NoSandboxAssumption
    <3>3. j \notin Owned(s)
      BY <3>1, <3>2 DEF Owned
    <3>4. \E k \in DOMAIN procs' : procs'[k].id = i
      BY <2>1, <3>1, <3>3
    <3> QED
      BY <3>4 DEF ListedIn
  <2> QED
    BY <2>1, <2>2
<1>5. ASSUME NEW t \in Threads, NEW s \in Scopes, StopRemove(t, s) PROVE G
  <2>1. PICK d \in Owned(s) : /\ procs' = Without(procs, {d})
                              /\ victim' = [victim EXCEPT ![t] = procs[d].id]
    BY <1>5 DEF StopRemove
  <2>2. owner' = owner /\ live' = live /\ pc'[t] = "stop" /\ victim'[t] = procs[d].id
    BY <1>1, <1>5, <2>1 DEF StopRemove, Goto, ActTypeOK
  <2>3. \A j \in DOMAIN procs \ {d} : \E k \in DOMAIN procs' : procs'[k] = procs[j]
    BY <1>1, <2>1, Dropped
  <2>4. ASSUME NEW i \in live, ListedIn(procs, i) PROVE ListedIn(procs', i) \/ BeingStopped(i)'
    <3>1. PICK j \in DOMAIN procs : procs[j].id = i
      BY <2>4 DEF ListedIn
    <3>2. CASE j = d
      BY <2>2, <3>1, <3>2 DEF BeingStopped
    <3>3. CASE j # d
      <4>1. \E k \in DOMAIN procs' : procs'[k].id = i
        BY <2>3, <3>1, <3>3
      <4> QED
        BY <4>1 DEF ListedIn
    <3> QED
      BY <3>2, <3>3
  <2> QED
    BY <2>2, <2>4
<1>6. ASSUME NEW d \in DOMAIN procs, PumpExit(d) PROVE G
  <2>1. UNCHANGED <<owner, live>> /\ \A i \in Ids : ListedIn(procs, i) => ListedIn(procs', i)
    BY <1>1, <1>6, ExitRecorded DEF PumpExit, ListedIn
  <2> QED
    BY <1>1, <2>1
<1>7. ASSUME NEW t \in Threads, Register(t) PROVE R
  <2>1. /\ seq \in Ids
        /\ \A j \in DOMAIN procs : ~procs[j].exit =>
             \E k \in DOMAIN procs' : procs'[k] = procs[j]
        /\ \E k \in DOMAIN procs' : procs'[k].id = seq
    BY <1>1, <1>7, Registered
  <2>2. /\ owner' = [owner EXCEPT ![seq] = sbx[t]]
        /\ live' = IF t \in mine THEN live \cup {seq} ELSE live
    BY <1>7 DEF Register
  <2>3. \A i \in live : i \in Ids /\ i # seq
    <3>1. live \subseteq Ids /\ \A i \in live : i < seq
      BY <1>1 DEF ActTypeOK, EntriesTrue
    <3>2. \A i \in Ids : ~(i < i)
      BY DEF Ids
    <3> QED
      BY <2>1, <3>1, <3>2
  <2>4. ASSUME NEW i \in live, owner[i] \in map \cup {NoSandbox}, ListedIn(procs, i)
        PROVE  ListedIn(procs', i)
    <3>1. PICK j \in DOMAIN procs : procs[j].id = i /\ ~procs[j].exit
      BY <1>2, <2>4
    <3>2. \E k \in DOMAIN procs' : procs'[k].id = i
      BY <2>1, <3>1
    <3> QED
      BY <3>2 DEF ListedIn
  <2>5. \A i \in live : owner'[i] = owner[i]
    BY <1>1, <2>1, <2>2, <2>3
  <2>6. ListedIn(procs', seq)
    BY <2>1 DEF ListedIn
  <2> QED
    BY <1>1, <1>7, <2>1, <2>2, <2>4, <2>5, <2>6
<1>8. R
  <2>1. G => R
    OBVIOUS
  <2> HIDE DEF G, R
  <2> QED
    BY <1>3, <1>4, <1>5, <1>6, <1>7, <2>1, OtherStepsEnd, Forgetting DEF ListSteps
<1>9. \A i \in live : owner[i] \in map \cup {NoSandbox} => ListedIn(procs, i) \/ BeingStopped(i)
  BY <1>1 DEF AllListed
<1> QED
  BY <1>8, <1>9, StoppedStep

-----------------------------------------------------------------------------
(* Sandboxes and modes *)

\* Deletions and evictions stay in host mode, and work on what is not registered.
LEMMA PlacesStep ==
    ASSUME ActInv, Next
    PROVE  InTheirMode' /\ Unregistered'
<1>1. /\ InTheirMode /\ Unregistered /\ mode' = mode /\ mode \in {"host", "dedicated"}
      /\ pc \in [Threads -> ThreadLabels] /\ sbx \in [Threads -> ScopeIds]
      /\ map \subseteq Sandboxes /\ todo \subseteq Sandboxes
  BY WatchdogTypes DEF ActInv, ActTypeOK
<1> DEFINE G == InTheirMode' /\ Unregistered'
<1>2. ASSUME UNCHANGED <<map, wd, cand, pc, sbx>> PROVE G
  BY <1>1, <1>2 DEF InTheirMode, Unregistered
<1>3. ASSUME NEW t \in Threads,
             \/ SpawnFails(t) \/ SpawnForeground(t) \/ SpawnBackground(t) \/ BeginOp(t)
             \/ Register(t) \/ DeleteKill(t) \/ DeleteForget(t) \/ StopKill(t) \/ EndOp(t)
      PROVE  G
  <2>1. /\ UNCHANGED <<map, wd, cand>>
        /\ \E to \in {"idle", "fg", "bg", "stream", "forget"} :
             /\ pc' = [pc EXCEPT ![t] = to]
             /\ to = "forget" => pc[t] = "kill" /\ sbx' = sbx
             /\ to # "forget" => sbx' = sbx \/ sbx' = [sbx EXCEPT ![t] = NoSandbox]
    BY <1>3 DEF SpawnFails, SpawnForeground, SpawnBackground, Spawned, BeginOp, Register,
        DeleteKill, DeleteForget, StopKill, EndOp, Return, Goto
  <2>2. PICK to \in {"idle", "fg", "bg", "stream", "forget"} :
             /\ pc' = [pc EXCEPT ![t] = to]
             /\ to = "forget" => pc[t] = "kill" /\ sbx' = sbx
             /\ to # "forget" => sbx' = sbx \/ sbx' = [sbx EXCEPT ![t] = NoSandbox]
    BY <2>1
  <2>3. \A r \in Threads : pc'[r] \in {"kill", "forget"} =>
           pc[r] \in {"kill", "forget"} /\ sbx'[r] = sbx[r]
    BY <1>1, <2>2
  <2> QED
    BY <1>1, <2>1, <2>3 DEF InTheirMode, Unregistered
<1>4. ASSUME NEW t \in Threads, NEW s \in Scopes, Request(t, s) \/ StopRemove(t, s) PROVE G
  <2>1. /\ UNCHANGED <<map, wd, cand>> /\ pc[t] = "idle" /\ sbx' = [sbx EXCEPT ![t] = s]
        /\ pc' = [pc EXCEPT ![t] = "body"] \/ pc' = [pc EXCEPT ![t] = "stop"]
    BY <1>4 DEF Request, StopRemove, Goto
  <2> QED
    BY <1>1, <2>1 DEF InTheirMode, Unregistered
<1>5. ASSUME NEW t \in Threads, NEW s \in Sandboxes, Create(t, s) PROVE G
  <2>1. /\ map' = map \cup {s} /\ mode = "host" /\ UNCHANGED <<wd, cand, pc, sbx>>
        /\ cand # s /\ \A r \in Threads : sbx[r] # s
    BY <1>5 DEF Create
  <2> QED
    BY <1>1, <2>1 DEF InTheirMode, Unregistered
<1>6. ASSUME NEW t \in Threads, NEW s \in Sandboxes, DeleteRemove(t, s) PROVE G
  <2>1. /\ s \in map /\ map' = map \ {s} /\ UNCHANGED <<wd, cand>>
        /\ pc' = [pc EXCEPT ![t] = "kill"] /\ sbx' = [sbx EXCEPT ![t] = s]
    BY <1>6 DEF DeleteRemove, Goto
  <2>2. mode = "host"
    BY <1>1, <2>1 DEF InTheirMode
  <2> QED
    BY <1>1, <2>1, <2>2 DEF InTheirMode, Unregistered
<1>7. ASSUME NEW s \in Sandboxes, WdCountProcs(s) PROVE G
  BY <1>1, <1>7 DEF WdCountProcs, InTheirMode, Unregistered
<1>8. CASE WdScan \/ WdCountOps \/ WdRemove \/ WdKill \/ WdForget \/ WdHost
  BY <1>1, <1>8
     DEF WdScan, WdCountOps, WdRemove, WdKill, WdForget, WdHost, InTheirMode, Unregistered
<1>9. CASE WdQuiet \/ WdRunning \/ WdActive \/ WdExit
  BY <1>1, <1>9 DEF WdQuiet, WdRunning, WdActive, WdExit, WdRead, InTheirMode, Unregistered
<1>10. ASSUME NEW t \in Threads, NEW s, Output(t) \/ ForgetGone(t, s) PROVE G
  BY <1>2, <1>10 DEF Output, ForgetGone
<1>11. ASSUME \/ \E s \in Sandboxes : BecomesIdle(s)
              \/ GoesQuiet \/ CommandEnds \/ \E i \in DOMAIN procs : PumpExit(i)
       PROVE  G
  BY <1>2, <1>11 DEF BecomesIdle, GoesQuiet, CommandEnds, PumpExit
<1> QED
  BY <1>3, <1>4, <1>5, <1>6, <1>7, <1>8, <1>9, <1>10, <1>11 DEF Next, HandlerStep, WatchdogStep

\* The sweep of s leaves no command of s and marks it deleted.
Swept(s) ==
    /\ live' = live \ LiveOf(s)
    /\ mine' = {t \in mine : sbx[t] # s}
    /\ s \in deleted'
    /\ UNCHANGED <<owner, sbx>>

\* What was attended stays so until it is swept.
LEMMA AttendedStep ==
    ASSUME ActInv, Next, NEW s \in ScopeIds, Attended(s)
    PROVE  Attended(s)' \/ Swept(s)
<1>1. /\ pc \in [Threads -> ThreadLabels] /\ sbx \in [Threads -> ScopeIds]
      /\ s \in map \/ s = NoSandbox \/ KillPending(s)
  BY DEF ActInv, ActTypeOK, Attended
<1> DEFINE G == Attended(s)' \/ Swept(s)
<1>2. ASSUME UNCHANGED <<map, wd, cand, pc, sbx>> PROVE G
  BY <1>1, <1>2 DEF Attended, KillPending
<1>3. ASSUME NEW t \in Threads, pc[t] # "kill",
             \A r \in Threads : r # t => pc'[r] = pc[r] /\ sbx'[r] = sbx[r],
             UNCHANGED <<map, wd, cand>>
      PROVE  G
  BY <1>1, <1>3 DEF Attended, KillPending
<1>4. ASSUME NEW t \in Threads,
             \/ SpawnFails(t) \/ SpawnForeground(t) \/ SpawnBackground(t) \/ BeginOp(t)
             \/ Register(t) \/ DeleteForget(t) \/ StopKill(t) \/ EndOp(t)
      PROVE  G
  <2>1. /\ UNCHANGED <<map, wd, cand>> /\ pc[t] # "kill"
        /\ \A r \in Threads : r # t => pc'[r] = pc[r] /\ sbx'[r] = sbx[r]
    BY <1>1, <1>4 DEF SpawnFails, SpawnForeground, SpawnBackground, Spawned, BeginOp, Register,
        DeleteForget, StopKill, EndOp, Return, Goto
  <2> QED
    BY <1>3, <2>1
<1>5. ASSUME NEW t \in Threads, NEW z \in Scopes, Request(t, z) \/ StopRemove(t, z) PROVE G
  <2>1. /\ UNCHANGED <<map, wd, cand>> /\ pc[t] # "kill"
        /\ \A r \in Threads : r # t => pc'[r] = pc[r] /\ sbx'[r] = sbx[r]
    BY <1>1, <1>5 DEF Request, StopRemove, Goto
  <2> QED
    BY <1>3, <2>1
<1>6. ASSUME NEW t \in Threads, NEW z \in Sandboxes, Create(t, z) PROVE G
  BY <1>1, <1>6 DEF Create, Attended, KillPending
<1>7. ASSUME NEW t \in Threads, NEW z \in Sandboxes, DeleteRemove(t, z) PROVE G
  <2>1. /\ map' = map \ {z} /\ UNCHANGED <<wd, cand>> /\ pc[t] = "idle"
        /\ pc' = [pc EXCEPT ![t] = "kill"] /\ sbx' = [sbx EXCEPT ![t] = z]
    BY <1>7 DEF DeleteRemove, Goto
  <2> QED
    BY <1>1, <2>1 DEF Attended, KillPending
<1>8. ASSUME NEW t \in Threads, DeleteKill(t) PROVE G
  <2>1. /\ UNCHANGED <<map, wd, cand, sbx, owner>> /\ KillAll(sbx[t])
        /\ pc' = [pc EXCEPT ![t] = "forget"]
    BY <1>8 DEF DeleteKill, Goto
  <2>2. CASE sbx[t] = s
    BY <2>1, <2>2 DEF KillAll, Swept
  <2>3. CASE sbx[t] # s
    BY <1>1, <2>1, <2>3 DEF Attended, KillPending
  <2> QED
    BY <2>2, <2>3
<1>9. CASE WdKill
  <2>1. UNCHANGED <<map, cand, sbx, owner, pc>> /\ KillAll(cand)
    BY <1>9 DEF WdKill
  <2>2. CASE cand = s
    BY <2>1, <2>2 DEF KillAll, Swept
  <2>3. CASE cand # s
    BY <1>1, <2>1, <2>3 DEF Attended, KillPending
  <2> QED
    BY <2>2, <2>3
<1>10. CASE WdRemove
  BY <1>1, <1>10 DEF WdRemove, Attended, KillPending
<1>11. ASSUME UNCHANGED <<map, pc, sbx>>, wd # "kill" PROVE G
  BY <1>1, <1>11 DEF Attended, KillPending
<1>12. CASE WdScan \/ WdCountOps \/ WdForget \/ WdHost \/ \E z \in Sandboxes : WdCountProcs(z)
  BY <1>11, <1>12 DEF WdScan, WdCountOps, WdForget, WdHost, WdCountProcs
<1>13. CASE WdQuiet \/ WdRunning \/ WdActive \/ WdExit
  BY <1>11, <1>13 DEF WdQuiet, WdRunning, WdActive, WdExit, WdRead
<1>14. ASSUME NEW t \in Threads, NEW z, Output(t) \/ ForgetGone(t, z) PROVE G
  BY <1>2, <1>14 DEF Output, ForgetGone
<1>15. ASSUME \/ \E z \in Sandboxes : BecomesIdle(z)
              \/ GoesQuiet \/ CommandEnds \/ \E i \in DOMAIN procs : PumpExit(i)
       PROVE  G
  BY <1>2, <1>15 DEF BecomesIdle, GoesQuiet, CommandEnds, PumpExit
<1> QED
  BY <1>4, <1>5, <1>6, <1>7, <1>8, <1>9, <1>10, <1>12, <1>13, <1>14, <1>15
     DEF Next, HandlerStep, WatchdogStep

\* Who runs a command, and which sandbox a thread works for.
LEMMA HoldersStep ==
    ASSUME ActInv, Next
    PROVE  /\ \A t \in mine' :
                /\ t \in Threads /\ sbx'[t] = sbx[t]
                /\ pc'[t] \in {"fg", "bg", "stream"}
                /\ t \in mine \/ sbx[t] \notin deleted
           /\ \A t \in Threads : sbx'[t] = sbx[t] \/ Attended(sbx[t])'
           /\ \A s \in deleted : s \in deleted' \/ s \in map'
           /\ \A s \in map' \ map : s # NoSandbox /\ ~KillPending(s)
<1>1. /\ pc \in [Threads -> ThreadLabels] /\ sbx \in [Threads -> ScopeIds]
      /\ mine \subseteq Threads /\ map \subseteq Sandboxes
      /\ \A t \in mine : pc[t] \in {"fg", "bg", "stream"}
  BY DEF ActInv, ActTypeOK, AllAttended
<1> DEFINE M == \A t \in mine' :
                  /\ t \in Threads /\ sbx'[t] = sbx[t]
                  /\ pc'[t] \in {"fg", "bg", "stream"}
                  /\ t \in mine \/ sbx[t] \notin deleted
           H == \A t \in Threads : sbx'[t] = sbx[t] \/ Attended(sbx[t])'
           D == \A s \in deleted : s \in deleted' \/ s \in map'
           N == \A s \in map' \ map : s # NoSandbox /\ ~KillPending(s)
<1>2. ASSUME NEW t \in Threads, SpawnForeground(t) \/ SpawnBackground(t) PROVE M /\ H /\ D /\ N
  BY <1>1, <1>2 DEF SpawnForeground, SpawnBackground, Spawned, Goto
<1>3. ASSUME NEW t \in Threads, SpawnFails(t) \/ BeginOp(t) \/ Register(t) \/ EndOp(t)
             \/ DeleteForget(t) \/ StopKill(t)
      PROVE  M /\ H /\ D /\ N
  <2>1. /\ UNCHANGED <<map, deleted>> /\ mine' \subseteq mine
        /\ t \in mine' => pc[t] = "fg" /\ pc'[t] = "stream" /\ sbx'[t] = sbx[t]
        /\ \A r \in Threads : r # t => pc'[r] = pc[r] /\ sbx'[r] = sbx[r]
        /\ sbx'[t] \in {sbx[t], NoSandbox}
    BY <1>1, <1>3 DEF SpawnFails, BeginOp, Register, EndOp, DeleteForget, StopKill, Return, Goto
  <2> QED
    BY <1>1, <2>1 DEF Attended
<1>4. ASSUME NEW t \in Threads, NEW z \in Scopes, Request(t, z) \/ StopRemove(t, z)
      PROVE  M /\ H /\ D /\ N
  <2>1. /\ UNCHANGED <<map, deleted, mine>> /\ pc[t] = "idle" /\ sbx' = [sbx EXCEPT ![t] = z]
        /\ pc' = [pc EXCEPT ![t] = "body"] \/ pc' = [pc EXCEPT ![t] = "stop"]
        /\ z \in map \/ z = NoSandbox
    BY <1>4 DEF Request, StopRemove, Goto, Scopes
  <2> QED
    BY <1>1, <2>1 DEF Attended
<1>5. ASSUME NEW t \in Threads, NEW z \in Sandboxes, Create(t, z) PROVE M /\ H /\ D /\ N
  <2>1. /\ UNCHANGED <<mine, pc, sbx>> /\ map' = map \cup {z} /\ deleted' = deleted \ {z}
        /\ cand # z /\ \A r \in Threads : sbx[r] # z
    BY <1>5 DEF Create
  <2> QED
    BY <1>1, <2>1, NoSandboxAssumption DEF KillPending
<1>6. ASSUME NEW t \in Threads, NEW z \in Sandboxes, DeleteRemove(t, z) PROVE M /\ H /\ D /\ N
  <2>1. /\ map' = map \ {z} /\ UNCHANGED <<deleted, mine>> /\ pc[t] = "idle"
        /\ pc' = [pc EXCEPT ![t] = "kill"] /\ sbx' = [sbx EXCEPT ![t] = z]
    BY <1>6 DEF DeleteRemove, Goto
  <2> QED
    BY <1>1, <2>1 DEF Attended, KillPending
<1>7. ASSUME NEW t \in Threads, DeleteKill(t) PROVE M /\ H /\ D /\ N
  <2>1. /\ UNCHANGED <<map, sbx>> /\ mine' \subseteq mine /\ deleted \subseteq deleted'
        /\ pc[t] = "kill" /\ pc' = [pc EXCEPT ![t] = "forget"]
    BY <1>7 DEF DeleteKill, Goto, KillAll
  <2> QED
    BY <1>1, <2>1
<1>8. ASSUME UNCHANGED <<pc, sbx>>, mine' \subseteq mine, deleted \subseteq deleted', map' \subseteq map
      PROVE  M /\ H /\ D /\ N
  BY <1>1, <1>8
<1>9. CASE WatchdogStep
  BY <1>8, <1>9 DEF WatchdogStep, WdScan, WdCountProcs, WdCountOps, WdRemove, WdKill, KillAll, WdForget,
      WdHost, WdQuiet, WdRunning, WdActive, WdExit, WdRead
<1>10. ASSUME NEW t \in Threads, NEW z, Output(t) \/ ForgetGone(t, z)
       PROVE  M /\ H /\ D /\ N
  BY <1>8, <1>10 DEF Output, ForgetGone
<1>11. ASSUME \/ \E z \in Sandboxes : BecomesIdle(z)
              \/ GoesQuiet \/ CommandEnds \/ \E i \in DOMAIN procs : PumpExit(i)
       PROVE  M /\ H /\ D /\ N
  BY <1>8, <1>11 DEF BecomesIdle, GoesQuiet, CommandEnds, PumpExit
<1> QED
  BY <1>2, <1>3, <1>4, <1>5, <1>6, <1>7, <1>9, <1>10, <1>11 DEF Next, HandlerStep

\* Commands go on running only for what is attended, and listed.
LEMMA AttendanceStep ==
    ASSUME ActInv, Next
    PROVE  AllAttended' /\ AllListed'
<1>1. /\ AllAttended /\ AllListed /\ owner \in [Ids -> ScopeIds] /\ live \subseteq Ids
      /\ sbx \in [Threads -> ScopeIds] /\ mine \subseteq Threads
  BY DEF ActInv, ActTypeOK
<1>2. \A i \in live : owner[i] \in ScopeIds
  BY <1>1
<1>3. \A t \in Threads : sbx[t] \in ScopeIds
  BY <1>1
<1> DEFINE both == live \cap live'
<1>4. \A i \in both :
        /\ owner'[i] = owner[i]
        /\ owner[i] \in map \cup {NoSandbox} => ListedIn(procs', i) \/ BeingStopped(i)'
  BY ListedStep
<1>5. \A t \in mine' :
        /\ t \in Threads /\ sbx'[t] = sbx[t]
        /\ pc'[t] \in {"fg", "bg", "stream"}
        /\ t \in mine \/ sbx[t] \notin deleted
  BY HoldersStep
<1>6. ASSUME NEW i \in live' PROVE Attended(owner[i])'
  <2>1. CASE i \in live
    <3> DEFINE s == owner[i]
    <3>1. s \in ScopeIds /\ Attended(s) /\ owner'[i] = s
      BY <1>1, <1>2, <1>4, <2>1 DEF AllAttended
    <3>2. ~Swept(s)
      BY <2>1 DEF Swept, LiveOf
    <3> HIDE DEF s
    <3>3. ASSUME NEW z, z = s PROVE Attended(z)'
      BY <3>1, <3>2, <3>3, AttendedStep
    <3> QED
      BY <3>1, <3>3 DEF Attended, KillPending
  <2>2. CASE i \notin live
    <3>1. PICK t \in mine : owner'[i] = sbx[t]
      BY <2>2, ListedStep
    <3> DEFINE s == sbx[t]
    <3>2. s \in ScopeIds /\ Attended(s) /\ owner'[i] = s
      BY <1>1, <1>3, <3>1 DEF AllAttended
    <3>3. ~Swept(s)
      BY <2>2 DEF Swept
    <3> HIDE DEF s
    <3>4. ASSUME NEW z, z = s PROVE Attended(z)'
      BY <3>2, <3>3, <3>4, AttendedStep
    <3> QED
      BY <3>2, <3>4 DEF Attended, KillPending
  <2> QED
    BY <2>1, <2>2
<1>7. ASSUME NEW t \in mine' PROVE Attended(sbx[t])' /\ pc'[t] \in {"fg", "bg", "stream"}
  <2> DEFINE s == sbx[t]
  <2>1. /\ t \in Threads /\ sbx'[t] = s /\ pc'[t] \in {"fg", "bg", "stream"}
        /\ t \in mine \/ s \notin deleted
    BY <1>5
  <2>2. s \in ScopeIds /\ Attended(s)
    BY <1>1, <1>3, <2>1 DEF AllAttended
  <2>3. ~Swept(s)
    BY DEF Swept
  <2> HIDE DEF s
  <2>4. ASSUME NEW z, z = s PROVE Attended(z)'
    BY <2>2, <2>3, <2>4, AttendedStep
  <2> QED
    BY <2>1, <2>4 DEF Attended, KillPending
<1>8. ASSUME NEW t \in Threads PROVE Attended(sbx[t])' \/ sbx'[t] \in deleted'
  <2>1. CASE sbx'[t] # sbx[t]
    BY <2>1, HoldersStep
  <2>2. CASE sbx'[t] = sbx[t]
    <3> DEFINE s == sbx[t]
    <3>1. s \in ScopeIds /\ sbx'[t] = s /\ (Attended(s) \/ s \in deleted)
      BY <1>1, <1>3, <2>2 DEF AllAttended
    <3>2. s \in deleted => s \in deleted' \/ s \in map'
      BY HoldersStep
    <3> HIDE DEF s
    <3>3. ASSUME NEW z, z = s PROVE Attended(z)' \/ z \in deleted'
      BY <3>1, <3>2, <3>3, AttendedStep DEF Attended, Swept
    <3> QED
      BY <3>1, <3>3 DEF Attended, KillPending
  <2> QED
    BY <2>1, <2>2
<1>9. AllAttended'
  BY <1>6, <1>7, <1>8 DEF AllAttended
<1>10. ASSUME NEW i \in live', owner'[i] \in map' \cup {NoSandbox}
       PROVE  ListedIn(procs', i) \/ BeingStopped(i)'
  <2>1. CASE i \notin live
    BY <2>1, ListedStep
  <2>2. CASE i \in live
    <3>1. /\ owner'[i] = owner[i]
          /\ owner[i] \in map \cup {NoSandbox} => ListedIn(procs', i) \/ BeingStopped(i)'
      BY <1>4, <2>2
    <3>2. owner[i] \notin map' \ map
      BY <1>1, <2>2, HoldersStep DEF AllAttended, Attended
    <3> QED
      BY <1>10, <3>1, <3>2
  <2> QED
    BY <2>1, <2>2
<1>11. AllListed'
  BY <1>10 DEF AllListed
<1> QED
  BY <1>9, <1>11

\* A sandbox that the watchdog is looking at is not created anew.
LEMMA CreatedElsewhere ==
    ASSUME Next, wd \in {"ops", "remove"}, cand \in map'
    PROVE  cand \in map
<1>1. ASSUME NEW t \in Threads, HandlerStep(t) \/ EndOp(t) \/ Output(t) PROVE map' = map
  BY <1>1 DEF HandlerStep, SpawnFails, SpawnForeground, SpawnBackground, Spawned, BeginOp,
      Register, EndOp, DeleteKill, DeleteForget, StopKill, Output
<1>2. ASSUME NEW t \in Threads, NEW s \in Scopes, Request(t, s) \/ StopRemove(t, s)
      PROVE  map' = map
  BY <1>2 DEF Request, StopRemove
<1>3. ASSUME NEW t \in Threads, NEW s \in Sandboxes,
             Create(t, s) \/ DeleteRemove(t, s) \/ ForgetGone(t, s)
      PROVE  cand \in map
  BY <1>3 DEF Create, DeleteRemove, ForgetGone
<1>4. ASSUME \/ \E s \in Sandboxes : BecomesIdle(s)
             \/ GoesQuiet \/ CommandEnds \/ \E i \in DOMAIN procs : PumpExit(i)
      PROVE  map' = map
  BY <1>4 DEF BecomesIdle, GoesQuiet, CommandEnds, PumpExit
<1>5. ASSUME WatchdogStep PROVE map' \subseteq map
  BY <1>5 DEF WatchdogStep, WdScan, WdCountProcs, WdCountOps, WdRemove, WdKill, WdForget, WdHost, WdQuiet,
      WdRunning, WdActive, WdExit, WdRead
<1> QED
  BY <1>1, <1>2, <1>3, <1>4, <1>5 DEF Next

\* A count of zero means that nothing listed is running.
LEMMA CountedNone ==
    ASSUME ActInv
    PROVE  /\ \A s : RunningCountFor(s) = 0 => \A j \in Owned(s) : procs[j].exit
           /\ RunningCount = 0 => \A j \in DOMAIN procs : procs[j].exit
<1>1. IsFiniteSet(DOMAIN procs)
  <2>1. Len(procs) \in Nat /\ DOMAIN procs = 1 .. Len(procs)
    BY DEF ActInv, ActTypeOK
  <2> QED
    BY <2>1, FS_Interval
<1>2. ASSUME NEW T \in SUBSET DOMAIN procs, Cardinality(T) = 0 PROVE T = {}
  BY <1>1, <1>2, FS_Subset, FS_EmptySet
<1>3. ASSUME NEW s, RunningCountFor(s) = 0, NEW j \in Owned(s) PROVE procs[j].exit
  <2>1. {i \in Owned(s) : ~procs[i].exit} \in SUBSET DOMAIN procs
    BY DEF Owned
  <2>2. {i \in Owned(s) : ~procs[i].exit} = {}
    BY <1>2, <1>3, <2>1 DEF RunningCountFor
  <2> QED
    BY <2>2
<1>4. ASSUME RunningCount = 0, NEW j \in DOMAIN procs PROVE procs[j].exit
  <2>1. {i \in DOMAIN procs : ~procs[i].exit} = {}
    BY <1>2, <1>4 DEF RunningCount
  <2> QED
    BY <2>1
<1> QED
  BY <1>3, <1>4

\* What runs for a registered sandbox, or for the job, and is not being stopped has
\* an entry that says so.
LEMMA RunningEntry ==
    ASSUME ActInv, NEW i \in live, owner[i] \in map \cup {NoSandbox}, ~BeingStopped(i)
    PROVE  \E j \in DOMAIN procs : ~procs[j].exit /\ j \in Owned(owner[i])
<1>1. PICK j \in DOMAIN procs : procs[j].id = i
  BY DEF ActInv, AllListed, ListedIn
<1>2. ~procs[j].exit /\ owner[i] = procs[j].sandbox_id
  BY <1>1 DEF ActInv, EntriesTrue
<1> QED
  BY <1>1, <1>2 DEF Owned

\* Between a count and the kill, or the exit, all that is new is late.
LEMMA LateStep ==
    ASSUME ActInv, Next
    PROVE  OnlyLate'
<1>1. OnlyLate /\ InTheirMode /\ Unregistered /\ AllAttended
  BY DEF ActInv
<1>2. ASSUME UNCHANGED <<wd, cand, mode>>, \/ late' = late /\ live' \subseteq live
                                          \/ \E t \in Threads : Register(t)
      PROVE  OnlyLate'
  <2>1. \A i \in live' :
          \/ i \in live /\ owner'[i] = owner[i]
          \/ wd \in AfterCount => i \in late'
    <3> SUFFICES ASSUME NEW i \in live', i \notin live, wd \in AfterCount
                 PROVE  i \in late'
      <4>1. \A i \in live \cap live' : owner'[i] = owner[i]
        BY ListedStep
      <4> QED
        BY <4>1
    <3>1. PICK t \in mine : Register(t) /\ i = seq
      BY ListedStep
    <3> QED
      BY <3>1 DEF Register
  <2>2. late \subseteq late'
    BY <1>2 DEF Register
  <2>3. wd \in {"ops", "remove"} /\ cand \in map' => cand \in map
    BY <1>2, CreatedElsewhere
  <2>4. \A i \in live \cap live' : LateOrStopped(i) => LateOrStopped(i)'
    BY <2>2, StoppedStep DEF LateOrStopped
  <2>5. ASSUME wd \in AfterCount, NEW c, \A i \in LiveOf(c) : LateOrStopped(i)
        PROVE  \A i \in live' : owner'[i] = c => LateOrStopped(i)'
    BY <2>1, <2>4, <2>5 DEF LiveOf, LateOrStopped
  <2>6. ASSUME wd \in AfterCount, \A i \in live : LateOrStopped(i)
        PROVE  \A i \in live' : LateOrStopped(i)'
    BY <2>1, <2>4, <2>6 DEF LateOrStopped
  <2>7. (wd \in {"ops", "remove"} /\ cand \in map)' => \A i \in LiveOf(cand)' : LateOrStopped(i)'
    BY <1>1, <1>2, <2>3, <2>5 DEF OnlyLate, LiveOf, AfterCount
  <2>8. (wd = "kill")' => \A i \in LiveOf(cand)' : LateOrStopped(i)'
    BY <1>1, <1>2, <2>5 DEF OnlyLate, LiveOf, AfterCount
  <2>9. (wd \in {"active", "exit"} /\ mode = "dedicated")' => \A i \in live' : LateOrStopped(i)'
    BY <1>1, <1>2, <2>6 DEF OnlyLate, AfterCount
  <2> QED
    BY <2>7, <2>8, <2>9 DEF OnlyLate
<1>3. ASSUME NEW t \in Threads, HandlerStep(t) \/ EndOp(t) \/ Output(t) PROVE OnlyLate'
  <2>1. UNCHANGED <<wd, cand, mode>> /\ (Register(t) \/ (late' = late /\ live' \subseteq live))
    BY <1>3 DEF HandlerStep, SpawnFails, SpawnForeground, SpawnBackground, Spawned, BeginOp,
        Register, EndOp, DeleteKill, DeleteForget, StopKill, KillAll, Output, Stamp
  <2> QED
    BY <1>2, <2>1
<1>4. ASSUME NEW t \in Threads, NEW s \in Scopes, Request(t, s) \/ StopRemove(t, s) PROVE OnlyLate'
  <2>1. UNCHANGED <<wd, cand, mode, late>> /\ live' \subseteq live
    BY <1>4 DEF Request, StopRemove, Stamp
  <2> QED
    BY <1>2, <2>1
<1>5. ASSUME NEW t \in Threads, NEW s \in Sandboxes,
             Create(t, s) \/ DeleteRemove(t, s) \/ ForgetGone(t, s)
      PROVE  OnlyLate'
  <2>1. UNCHANGED <<wd, cand, mode, late>> /\ live' \subseteq live
    BY <1>5 DEF Create, DeleteRemove, ForgetGone, Stamp
  <2> QED
    BY <1>2, <2>1
<1>6. ASSUME \/ \E s \in Sandboxes : BecomesIdle(s)
             \/ GoesQuiet \/ CommandEnds \/ \E i \in DOMAIN procs : PumpExit(i)
      PROVE  OnlyLate'
  <2>1. UNCHANGED <<wd, cand, mode, late>> /\ live' \subseteq live
    BY <1>6 DEF BecomesIdle, GoesQuiet, CommandEnds, PumpExit
  <2> QED
    BY <1>2, <2>1
<1>7. ASSUME NEW s \in Sandboxes, WdCountProcs(s) PROVE OnlyLate'
  <2>1. /\ UNCHANGED <<map, live, owner>>
        /\ \/ wd' = "check"
           \/ wd' = "ops" /\ cand' = s /\ RunningCountFor(s) = 0
    BY <1>7 DEF WdCountProcs
  <2>2. ASSUME RunningCountFor(s) = 0, s \in map, NEW i \in LiveOf(s) PROVE BeingStopped(i)
    BY <2>2, CountedNone, RunningEntry DEF LiveOf
  <2>3. \A i : BeingStopped(i) => BeingStopped(i)'
    BY <1>7 DEF WdCountProcs, BeingStopped
  <2> QED
    BY <2>1, <2>2, <2>3 DEF OnlyLate, LiveOf, LateOrStopped
<1>8. CASE WdCountOps \/ WdRemove
  <2>1. \A i : BeingStopped(i)' <=> BeingStopped(i)
    BY <1>8 DEF WdCountOps, WdRemove, BeingStopped
  <2> QED
    BY <1>1, <1>8, <2>1 DEF WdCountOps, WdRemove, OnlyLate, LiveOf, LateOrStopped
<1>9. CASE WdScan \/ WdKill \/ WdForget \/ WdHost \/ WdQuiet \/ WdExit
  <2>1. /\ wd' \notin {"ops", "remove", "kill", "active"}
        /\ wd' = "exit" => mode' = "host"
    BY <1>1, <1>9 DEF WdScan, WdKill, WdForget, WdHost, WdQuiet, WdExit, WdRead, InTheirMode
  <2> QED
    BY <2>1 DEF OnlyLate
<1>10. CASE WdRunning
  <2>1. /\ live' = live /\ wd = "procs"
        /\ wd' \in {"sleep", "active"} /\ (wd' = "active" => RunningCount = 0)
        /\ \A i : BeingStopped(i)' <=> BeingStopped(i)
    BY <1>10 DEF WdRunning, WdRead, BeingStopped
  <2>2. ASSUME RunningCount = 0, NEW i \in live PROVE BeingStopped(i)
    <3>1. mode = "dedicated" /\ map = {} /\ \A s : ~KillPending(s)
      BY <1>1, <2>1 DEF InTheirMode, KillPending
    <3>2. owner[i] = NoSandbox
      BY <1>1, <3>1 DEF AllAttended, Attended
    <3> QED
      BY <2>2, <3>2, CountedNone, RunningEntry
  <2> QED
    BY <2>1, <2>2 DEF OnlyLate, LateOrStopped
<1>11. CASE WdActive
  <2>1. \A i : BeingStopped(i)' <=> BeingStopped(i)
    BY <1>11 DEF WdActive, WdRead, BeingStopped
  <2> QED
    BY <1>1, <1>11, <2>1 DEF WdActive, WdRead, OnlyLate, LateOrStopped
<1> QED
  BY <1>3, <1>4, <1>5, <1>6, <1>7, <1>8, <1>9, <1>10, <1>11 DEF Next, WatchdogStep

\* Between the watchdog's read of active_ops and the exit, who streams has begun since.
LEMMA BegunStep ==
    ASSUME ActInv, Next
    PROVE  OnlyBegun'
<1>1. /\ OnlyBegun /\ InTheirMode /\ OpsCounted /\ pc \in [Threads -> ThreadLabels]
  BY DEF ActInv, ActTypeOK
<1>2. ASSUME NEW t \in Threads, HandlerStep(t) \/ EndOp(t) \/ Output(t) PROVE OnlyBegun'
  <2>1. /\ UNCHANGED <<wd, mode>>
        /\ \A r \in Threads : r # t => pc'[r] = pc[r] /\ (r \in begun => r \in begun')
        /\ pc'[t] = "stream" /\ wd = "exit" =>
             t \in begun' \/ (pc[t] = "stream" /\ begun' = begun)
    <3>1. CASE BeginOp(t)
      <4>1. /\ begun' = IF wd = "exit" THEN begun \cup {t} ELSE begun
            /\ pc' = [pc EXCEPT ![t] = "stream"] /\ UNCHANGED <<wd, mode>>
        BY <3>1 DEF BeginOp, Goto
      <4>2. begun \subseteq begun' /\ (wd = "exit" => t \in begun')
        BY <4>1
      <4> QED
        BY <1>1, <4>1, <4>2
    <3>2. CASE EndOp(t)
      BY <1>1, <3>2 DEF EndOp, Return, Goto
    <3>3. CASE Output(t)
      BY <1>1, <3>3 DEF Output, Stamp
    <3>4. CASE HandlerStep(t) /\ ~BeginOp(t) /\ ~EndOp(t)
      BY <1>1, <3>4 DEF HandlerStep, SpawnFails, SpawnForeground, SpawnBackground, Spawned,
          Register, DeleteKill, DeleteForget, StopKill, Return, Goto
    <3> QED
      BY <1>2, <3>1, <3>2, <3>3, <3>4
  <2> QED
    BY <1>1, <2>1 DEF OnlyBegun, Streaming
<1>3. ASSUME NEW t \in Threads, NEW s \in Scopes, Request(t, s) \/ StopRemove(t, s) PROVE OnlyBegun'
  <2>1. /\ UNCHANGED <<wd, mode, begun>>
        /\ \A r \in Threads : pc'[r] = "stream" => pc[r] = "stream"
    BY <1>1, <1>3 DEF Request, StopRemove, Goto, Stamp
  <2> QED
    BY <1>1, <2>1 DEF OnlyBegun, Streaming
<1>4. ASSUME NEW t \in Threads, NEW s \in Sandboxes,
             Create(t, s) \/ DeleteRemove(t, s) \/ ForgetGone(t, s)
      PROVE  OnlyBegun'
  <2>1. /\ UNCHANGED <<wd, mode, begun>>
        /\ \A r \in Threads : pc'[r] = "stream" => pc[r] = "stream"
    BY <1>1, <1>4 DEF Create, DeleteRemove, ForgetGone, Goto, Stamp
  <2> QED
    BY <1>1, <2>1 DEF OnlyBegun, Streaming
<1>5. ASSUME \/ \E s \in Sandboxes : BecomesIdle(s)
             \/ GoesQuiet \/ CommandEnds \/ \E i \in DOMAIN procs : PumpExit(i)
      PROVE  OnlyBegun'
  <2>1. UNCHANGED <<wd, mode, begun, pc>>
    BY <1>5 DEF BecomesIdle, GoesQuiet, CommandEnds, PumpExit
  <2> QED
    BY <1>1, <2>1 DEF OnlyBegun, Streaming
<1>6. CASE WdActive
  <2>1. wd' = "exit" => active = 0 /\ Streaming' = Streaming
    BY <1>6 DEF WdActive, WdRead, Streaming
  <2>2. active = 0 => Streaming = {}
    <3>1. IsFiniteSet(Streaming)
      BY ThreadsAssumption, FS_Subset DEF Streaming
    <3> QED
      BY <1>1, <3>1, FS_EmptySet DEF OpsCounted
  <2> QED
    BY <2>1, <2>2 DEF OnlyBegun
<1>7. ASSUME WatchdogStep, ~WdActive PROVE OnlyBegun'
  <2>1. wd' = "exit" => mode' = "host"
    BY <1>1, <1>7 DEF WatchdogStep, WdScan, WdCountProcs, WdCountOps, WdRemove, WdKill, WdForget,
        WdHost, WdQuiet, WdRunning, WdExit, WdRead, InTheirMode
  <2> QED
    BY <2>1 DEF OnlyBegun
<1> QED
  BY <1>2, <1>3, <1>4, <1>5, <1>6, <1>7 DEF Next

-----------------------------------------------------------------------------
(* The theorems *)

\* The invariant holds initially.
LEMMA ActInvInit == Init => ActInv
<1> SUFFICES ASSUME Init PROVE ActInv
  OBVIOUS
<1>1. /\ procs = <<>> /\ procs \in Seq(Proc) /\ DOMAIN procs = {}
  BY EmptySeq DEF Init
<1>2. ActTypeOK
  BY <1>1 DEF Init, ActTypeOK, ScopeIds, ThreadLabels, WatchdogLabels
<1>3. EntriesTrue /\ AllListed
  BY <1>1 DEF Init, EntriesTrue, AllListed
<1>4. InTheirMode /\ Unregistered /\ AllAttended /\ OnlyLate /\ OnlyBegun
  BY DEF Init, InTheirMode, Unregistered, AllAttended, Attended, OnlyLate, OnlyBegun
<1>5. OpsCounted
  <2>1. Streaming = {}
    BY DEF Init, Streaming
  <2> QED
    BY <2>1, FS_EmptySet DEF Init, OpsCounted
<1> QED
  BY <1>2, <1>3, <1>4, <1>5 DEF ActInv

\* Every step keeps it.
LEMMA ActInvStep == ActInv /\ [Next]_vars => ActInv'
<1> SUFFICES ASSUME ActInv, [Next]_vars PROVE ActInv'
  OBVIOUS
<1>1. CASE Next
  <2>1. OpsCounted'
    BY <1>1, OpsStep DEF ActInv
  <2> QED
    BY <1>1, <2>1, ActTypes, EntriesStep, PlacesStep, AttendanceStep, LateStep, BegunStep
       DEF ActInv
<1>2. CASE UNCHANGED vars
  BY <1>2 DEF vars, ActInv, ActTypeOK, EntriesTrue, InTheirMode, Unregistered, AllAttended,
      Attended, KillPending, AllListed, BeingStopped, OpsCounted, Streaming, OnlyLate,
      LateOrStopped, LiveOf, OnlyBegun
<1> QED
  BY <1>1, <1>2

\* The invariant always holds.
THEOREM ActivityInvariant == Spec => []ActInv
BY ActInvInit, ActInvStep, PTL DEF Spec

\* A running background process of a registered sandbox is in the list: neither
\* the trimming in insert nor remove_for_sandbox for another sandbox, nor any
\* other handler that runs meanwhile, loses it.
THEOREM RunningProcessesListed == Spec => []RunningListed
<1>1. ActInv => RunningListed
  BY DEF ActInv, AllListed, ListedIn, RunningListed
<1> QED
  BY <1>1, ActivityInvariant, PTL

\* An eviction by the watchdog kills no background process that was registered when
\* running_count_for was called for the sandbox.
THEOREM EvictionsSpareRegistered == Spec => EvictionSparesRegistered
<1>1. ActInv => (wd = "kill" /\ wd' = "forget" =>
                   \A i \in LiveOf(cand) : i \in late \/ BeingStopped(i))
  BY DEF ActInv, OnlyLate, LateOrStopped
<1> QED
  BY <1>1, ActivityInvariant, PTL DEF EvictionSparesRegistered

\* The watchdog of a dedicated server exits with no background process that was registered
\* when running_count was called, but for one a DELETE is killing, and no foreground command
\* that was being streamed when active_ops was called.
THEOREM ShutdownsSpareCounted == Spec => ShutdownSparesCounted
<1>1. ActInv /\ [Next]_vars =>
        (mode = "dedicated" /\ down' /\ ~down =>
           /\ \A i \in live : i \in late \/ BeingStopped(i)
           /\ \A t \in Threads : pc[t] = "stream" => t \in begun)
  <2> SUFFICES ASSUME ActInv, [Next]_vars, mode = "dedicated", down', ~down
               PROVE  /\ \A i \in live : i \in late \/ BeingStopped(i)
                      /\ \A t \in Threads : pc[t] = "stream" => t \in begun
    OBVIOUS
  <2>1. WdExit
    <3>1. ~(UNCHANGED down)
      OBVIOUS
    <3> QED
      BY <3>1 DEF Next, vars, HandlerStep, SpawnFails, SpawnForeground, SpawnBackground, Spawned,
          BeginOp, Register, EndOp, DeleteKill, DeleteForget, StopKill, Output, Request,
          StopRemove, Create, DeleteRemove, ForgetGone, BecomesIdle, GoesQuiet, CommandEnds,
          PumpExit, WatchdogStep, WdScan, WdCountProcs, WdCountOps, WdRemove, WdKill, WdForget,
          WdHost, WdQuiet, WdRunning, WdActive, WdRead, Stamp
  <2>2. wd = "exit"
    BY <2>1 DEF WdExit
  <2> QED
    BY <2>2 DEF ActInv, OnlyLate, LateOrStopped, OnlyBegun, Streaming
<1> QED
  BY <1>1, ActivityInvariant, PTL DEF Spec, ShutdownSparesCounted
=============================================================================
