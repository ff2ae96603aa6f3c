--------------------------- MODULE ProcessProofs ---------------------------
(***************************************************************************)
(* Theorems about the two models of processes, which share no state:       *)
(*   - ProcSupervision, for every number of commands and pids and every    *)
(*     reuse of a pid the kernel allows;                                   *)
(*   - KillSweep, the verdict of kill_uid, for every number of pids, limit *)
(*     on processes and number of passes.                                  *)
(***************************************************************************)
EXTENDS ProcSupervision, KillSweep, NaturalsInduction, WellFoundedInduction, TLAPS

(* Supervision of commands *)

\* What is known of a command that had its pid for itself: once it was reaped
\* its status is its own, and its flag says whether the deadline found it.
ReapedExactly ==
    \A c \in Cmds \ shared :
        /\ status[c] = IF waiter[c] \in {"none", "wait", "reap"} THEN "none" ELSE "own"
        /\ timedOut[c] <=> c \in caught
        /\ waiter[c] = "done" => (report[c] = "timed_out" <=> c \in caught)

\* The inductive invariant.
SupInv == OwnedUntilReaped /\ PidNamesCommand /\ ReapedExactly

\* A command that has its pid for itself and is unreaped is found under it, tracked.
LEMMA UnreapedNamed ==
    ASSUME SupInv, NEW c \in Cmds \ shared, running[c]
    PROVE  /\ pid[c] \in Pids /\ occupant[pid[c]] = c /\ group[pid[c]] = c
           /\ Child(pid[c]) /\ pid[c] \in owned /\ pid[c] # peeked
           /\ waiter[c] \in {"wait", "reap"}
           /\ \A d \in Holding : pid[d] = pid[c] => d = c
BY TokensAssumption DEF SupInv, OwnedUntilReaped, PidNamesCommand, SupTypeOK, Child

\* The initial state satisfies the invariant.
LEMMA SupInit == Init => SupInv
BY TokensAssumption
   DEF Init, SupInv, OwnedUntilReaped, PidNamesCommand, ReapedExactly, SupTypeOK, Child, Holding

\* Processes that end, of any group and by any cause, disturb nobody else: a command
\* stays in its slot until its status is collected.
LEMMA DeathsKeep ==
    ASSUME SupInv, NEW S \in SUBSET Pids, Dies(S), \A p \in S : occupant[p] # Nobody,
           UNCHANGED <<owned, peeked, pid, running, waiter, shared>>,
           awake' \in BOOLEAN,
           SupTypeOK'
    PROVE  OwnedUntilReaped' /\ PidNamesCommand'
<1> USE TokensAssumption DEF SupInv, OwnedUntilReaped, SupTypeOK
<1>1. /\ \A p \in Pids : occupant'[p] = IF p \in S /\ ~Child(p) THEN Nobody ELSE occupant[p]
      /\ \A p \in Pids : group'[p] = IF p \in S /\ ~Child(p) THEN Nobody ELSE group[p]
      /\ zombies' = zombies \cup {p \in S : Child(p)}
      /\ adopted' = adopted
  BY DEF Dies, Gone
<1>2. \A p \in Pids : occupant[p] \in Cmds => occupant'[p] = occupant[p] /\ group'[p] = group[p]
  BY <1>1 DEF Child
<1>3. \A p \in Pids : occupant'[p] \in Cmds => occupant[p] = occupant'[p] /\ group'[p] = group[p]
  BY <1>1
<1>4. \A p \in Pids : group'[p] \in Cmds => group[p] = group'[p] /\ occupant'[p] = occupant[p]
  BY <1>1
<1>5. Holding' = Holding
  BY DEF Holding
<1>6. PidNamesCommand'
  BY <1>2 DEF PidNamesCommand
<1>7. /\ \A p \in zombies' : Child(p)'
      /\ \A p \in adopted' : occupant'[p] = Other
  BY <1>1 DEF Child
<1>8. OwnedUntilReaped'
  BY <1>2, <1>3, <1>4, <1>5, <1>7
<1> QED
  BY <1>6, <1>8

\* What the kernel does on its own: a process ends, another one starts, or is adopted.
LEMMA KernelSteps ==
    ASSUME SupInv, NEW p \in Pids, Exits(p) \/ OtherForks(p) \/ Orphaned(p)
    PROVE  SupInv'
<1> USE TokensAssumption DEF SupInv, SupTypeOK
<1>1. UNCHANGED <<owned, awake, peeked, pid, running, timedOut, waiter, watcher, status, report,
                  shared, caught>>
  BY DEF Exits, OtherForks, Orphaned, reaper, history
<1>2. ReapedExactly'
  BY <1>1 DEF ReapedExactly
<1>3. CASE Exits(p)
  <2>1. Dies({p}) /\ occupant[p] # Nobody
    BY <1>3 DEF Exits, Alive
  <2>2. SupTypeOK'
    BY <1>1, <2>1 DEF Dies, Gone, OwnedUntilReaped
  <2> QED
    BY <1>1, <1>2, <2>1, <2>2, DeathsKeep DEF OwnedUntilReaped
<1>4. CASE OtherForks(p)
  <2>1. /\ Free(p) /\ occupant' = [occupant EXCEPT ![p] = Other]
        /\ UNCHANGED <<zombies, adopted, elder>>
    BY <1>4 DEF OtherForks
  <2>2. PICK g \in {Nobody} \cup {group[q] : q \in {r \in Pids : Alive(r)}} :
          group' = [group EXCEPT ![p] = g]
    BY <1>4 DEF OtherForks
  <2>3. g \in Cmds \cup {Nobody} /\ (g \in Cmds => \E q \in Pids : group[q] = g)
    BY DEF OwnedUntilReaped
  <2>4. SupTypeOK'
    BY <1>1, <2>1, <2>2, <2>3 DEF OwnedUntilReaped
  <2>5. PidNamesCommand'
    BY <1>1, <2>1, UnreapedNamed DEF PidNamesCommand, Free
  <2>6. Holding' = Holding
    BY <1>1 DEF Holding
  <2>7. OwnedUntilReaped'
    BY <1>1, <2>1, <2>2, <2>3, <2>4, <2>6 DEF OwnedUntilReaped, Free, Child
  <2> QED
    BY <1>2, <2>5, <2>7
<1>5. CASE Orphaned(p)
  <2>1. /\ occupant[p] = Other /\ adopted' = adopted \cup {p}
        /\ elder' = elder \cup (adopted \X {p})
        /\ UNCHANGED <<occupant, group, zombies>>
    BY <1>5 DEF Orphaned
  <2>2. SupTypeOK'
    BY <1>1, <2>1 DEF OwnedUntilReaped
  <2>3. Holding' = Holding
    BY <1>1 DEF Holding
  <2> QED
    BY <1>1, <1>2, <2>1, <2>2, <2>3 DEF OwnedUntilReaped, PidNamesCommand, Child
<1> QED
  BY <1>3, <1>4, <1>5

\* kill_tree: nothing, or the processes of one group and the leader end.
LEMMA KillTreeDies ==
    ASSUME SupInv, NEW c \in Cmds, KillTree(c)
    PROVE  \/ UNCHANGED kernel
           \/ /\ running[c]
              /\ \E S \in SUBSET Pids :
                   /\ Dies(S)
                   /\ \A p \in S : occupant[p] # Nobody
                   /\ c \notin shared => \A p \in S : group[p] = c
<1> SUFFICES ASSUME running[c]
             PROVE  \E S \in SUBSET Pids :
                      /\ Dies(S)
                      /\ \A p \in S : occupant[p] # Nobody
                      /\ c \notin shared => \A p \in S : group[p] = c
  BY DEF KillTree
<1>1. PICK lead \in Leader(c) : Dies(Group(pid[c]) \cup lead)
  BY DEF KillTree
<1>2. /\ lead \in SUBSET Pids
      /\ \A q \in lead : occupant[q] # Nobody /\ (occupant[q] = c \/ q = pid[c])
  BY TokensAssumption DEF Leader, Alive
<1>3. /\ Group(pid[c]) \in SUBSET Pids
      /\ \A q \in Group(pid[c]) : /\ occupant[q] # Nobody
                                  /\ group[q] \in Cmds /\ pid[group[q]] = pid[c]
  BY DEF Group, Alive
<1>4. ASSUME c \notin shared, NEW q \in Group(pid[c]) \cup lead
      PROVE  group[q] = c
  <2>1. pid[c] \in Pids /\ occupant[pid[c]] = c /\ group[pid[c]] = c
    BY <1>4, UnreapedNamed
  <2>2. CASE q \in Group(pid[c])
    BY <1>3, <2>1, <2>2 DEF SupInv, OwnedUntilReaped
  <2>3. CASE q \in lead
    BY <1>2, <2>1, <2>3 DEF SupInv, OwnedUntilReaped
  <2> QED
    BY <2>2, <2>3
<1> QED
  BY <1>1, <1>2, <1>3, <1>4

\* Signals keep the invariant: they change neither who is where nor who is tracked.
LEMMA SignalSteps ==
    ASSUME SupInv, NEW c \in Cmds, KillRequest(c) \/ WatcherKills(c)
    PROVE  SupInv'
<1>1. /\ KillTree(c)
      /\ UNCHANGED <<owned, awake, peeked, pid, running, waiter, status, report, shared>>
  BY DEF KillRequest, WatcherKills, reaper, history
<1>2. /\ watcher' \in [Cmds -> {"none", "armed", "fire", "done"}]
      /\ timedOut' \in [Cmds -> BOOLEAN]
      /\ caught' \subseteq Cmds
  BY DEF KillRequest, WatcherKills, MarkTimedOut, SupInv, OwnedUntilReaped, SupTypeOK, history
<1>3. \A d \in Cmds \ shared : timedOut'[d] <=> d \in caught'
  <2>1. \A d \in Cmds \ shared : running[d] <=> \E p \in Pids : occupant[p] = d
    BY UnreapedNamed DEF SupInv, OwnedUntilReaped
  <2>2. \A d \in Cmds \ shared : timedOut[d] <=> d \in caught
    BY DEF SupInv, ReapedExactly
  <2>3. CASE KillRequest(c)
    BY <2>2, <2>3 DEF KillRequest, history
  <2>4. CASE WatcherKills(c)
    BY <2>1, <2>2, <2>4 DEF WatcherKills, MarkTimedOut, SupInv, OwnedUntilReaped, SupTypeOK
  <2> QED
    BY <2>3, <2>4
<1>4. \A d \in Cmds \ shared : waiter[d] = "done" => (d \in caught' <=> d \in caught)
  <2>1. \A d \in Cmds : waiter[d] = "done" => ~running[d] /\ \A p \in Pids : occupant[p] # d
    BY DEF SupInv, OwnedUntilReaped
  <2> QED
    BY <2>1 DEF KillRequest, WatcherKills, history
<1>5. ReapedExactly'
  BY <1>1, <1>3, <1>4 DEF ReapedExactly, SupInv
<1>6. SupTypeOK'
  <2>1. CASE UNCHANGED kernel
    BY <1>1, <1>2, <2>1 DEF SupTypeOK, SupInv, OwnedUntilReaped, kernel
  <2>2. CASE \E S \in SUBSET Pids : Dies(S)
    BY <1>1, <1>2, <2>2 DEF SupTypeOK, SupInv, OwnedUntilReaped, Dies, Gone
  <2> QED
    BY <1>1, <2>1, <2>2, KillTreeDies
<1>7. CASE UNCHANGED kernel
  <2>1. Holding' = Holding /\ \A p \in Pids : Child(p)' = Child(p)
    BY <1>1, <1>7 DEF Holding, Child, kernel
  <2> QED
    BY <1>1, <1>5, <1>6, <1>7, <2>1
       DEF kernel, SupInv, OwnedUntilReaped, PidNamesCommand, SupTypeOK
<1>8. CASE \E S \in SUBSET Pids : Dies(S) /\ \A p \in S : occupant[p] # Nobody
  <2>1. awake' \in BOOLEAN
    BY <1>6 DEF SupTypeOK
  <2> QED
    BY <1>1, <1>5, <1>6, <1>8, <2>1, DeathsKeep DEF SupInv
<1> QED
  BY <1>1, <1>7, <1>8, KillTreeDies

\* A new command takes a number that no process and no group has.
LEMMA SpawnStep ==
    ASSUME SupInv, NEW c \in Cmds, Spawn(c)
    PROVE  SupInv'
<1> USE TokensAssumption DEF SupInv, SupTypeOK
<1>1. PICK p \in Pids :
        /\ Free(p)
        /\ occupant' = [occupant EXCEPT ![p] = c]
        /\ group' = [group EXCEPT ![p] = c]
        /\ owned' = owned \cup {p}
        /\ pid' = [pid EXCEPT ![c] = p]
        /\ shared' = IF \E d \in Holding : pid[d] = p THEN shared \cup {c} ELSE shared
  BY DEF Spawn
<1>2. /\ waiter[c] = "none" /\ peeked = NoPid /\ ~running[c] /\ pid[c] = NoPid
      /\ running' = [running EXCEPT ![c] = TRUE]
      /\ waiter' = [waiter EXCEPT ![c] = "wait"]
      /\ watcher' \in [Cmds -> {"none", "armed", "fire", "done"}]
      /\ UNCHANGED <<zombies, adopted, elder, awake, peeked, timedOut, status, report, caught>>
  BY DEF Spawn, OwnedUntilReaped, reaper
<1>3. \A d \in Cmds \ shared' : d \notin shared
  BY <1>1
<1>4. ReapedExactly'
  BY <1>2, <1>3 DEF ReapedExactly, OwnedUntilReaped
<1>5. PidNamesCommand'
  <2>1. \A d \in Cmds \ shared' : d # c /\ running[d] => pid[d] # p /\ occupant[pid[d]] = d
    BY <1>1, <1>3, UnreapedNamed DEF Free
  <2> QED
    BY <1>1, <1>2, <1>3, <2>1 DEF PidNamesCommand, OwnedUntilReaped
<1>6. SupTypeOK'
  BY <1>1, <1>2 DEF OwnedUntilReaped
<1>7. Holding' = Holding \cup {c} /\ c \notin Holding
  BY <1>2 DEF Holding, OwnedUntilReaped
<1>8. \A d \in Cmds \ shared' : running'[d] =>
        pid'[d] \in owned' /\ \A e \in Holding' : pid'[e] = pid'[d] => e = d
  <2>1. \A d \in Cmds \ shared' : d # c /\ running[d] =>
          /\ pid[d] \in owned /\ pid[d] # p
          /\ \A e \in Holding : pid[e] = pid[d] => e = d
    BY <1>1, <1>3, UnreapedNamed DEF Free
  <2>2. c \notin shared' => \A e \in Holding : pid[e] # p
    BY <1>1
  <2>3. \A d \in Cmds : pid'[d] = IF d = c THEN p ELSE pid[d]
    BY <1>1 DEF OwnedUntilReaped
  <2>4. \A d \in Cmds : running'[d] => d = c \/ running[d]
    BY <1>2 DEF OwnedUntilReaped
  <2>5. Holding \subseteq Cmds
    BY DEF Holding
  <2> QED
    BY <1>1, <1>7, <2>1, <2>2, <2>3, <2>4, <2>5
<1>9. /\ \A q \in Pids : occupant'[q] = IF q = p THEN c ELSE occupant[q]
      /\ \A q \in Pids : group'[q] = IF q = p THEN c ELSE group[q]
      /\ \A d \in Cmds : pid'[d] = IF d = c THEN p ELSE pid[d]
      /\ \A q \in Pids : group[q] \in Cmds => group[q] # c /\ pid[group[q]] # p
      /\ \A q \in Pids : occupant[q] # c
      /\ p \notin zombies /\ p \notin adopted
  BY <1>1, <1>2 DEF OwnedUntilReaped, Free, Child
<1>10. OwnedUntilReaped'
  BY <1>1, <1>2, <1>6, <1>8, <1>9 DEF OwnedUntilReaped, Child
<1> QED
  BY <1>4, <1>5, <1>10

\* The other steps of the watcher change nothing but its own progress.
LEMMA WatcherSteps ==
    ASSUME SupInv, NEW c \in Cmds, WatcherExpires(c) \/ WatcherCancelled(c)
    PROVE  SupInv'
BY DEF WatcherExpires, WatcherCancelled, kernel, reaper, history, SupInv, OwnedUntilReaped,
       PidNamesCommand, ReapedExactly, SupTypeOK, Child, Holding

\* Collecting the zombie at p leaves every command alone that is not there.
LEMMA CollectedKeeps ==
    ASSUME SupInv, NEW p \in Pids, p \in zombies, Collected(p),
           \A d \in Cmds \ shared : running'[d] => running[d] /\ pid[d] # p,
           \A d \in Cmds, q \in Pids : q # p /\ occupant[q] = d => running'[d] = running[d],
           \A d \in Cmds : running'[d] <=> waiter'[d] \in {"wait", "reap"},
           \A d \in Cmds : waiter'[d] = "none" <=> waiter[d] = "none",
           Holding' \subseteq Holding,
           peeked' # NoPid => peeked' = peeked,
           UNCHANGED <<owned, pid, shared>>, SupTypeOK'
    PROVE  OwnedUntilReaped' /\ PidNamesCommand'
<1> USE TokensAssumption DEF SupInv, SupTypeOK
<1>1. /\ \A q \in Pids : occupant'[q] = IF q = p THEN Nobody ELSE occupant[q]
      /\ \A q \in Pids : group'[q] = IF q = p THEN Nobody ELSE group[q]
      /\ zombies' = zombies \ {p} /\ adopted' = adopted \ {p}
  BY DEF Collected, Gone, OwnedUntilReaped
<1>2. PidNamesCommand'
  BY <1>1, UnreapedNamed DEF PidNamesCommand
<1>3. \A d \in Cmds \ shared' : running'[d] =>
        pid'[d] \in owned' /\ \A e \in Holding' : pid'[e] = pid'[d] => e = d
  BY UnreapedNamed
<1>4. \A q \in Pids : occupant'[q] \in Cmds =>
        pid'[occupant'[q]] = q /\ running'[occupant'[q]] /\ group'[q] = occupant'[q]
  BY <1>1 DEF OwnedUntilReaped
<1>5. OwnedUntilReaped'
  BY <1>1, <1>3, <1>4 DEF OwnedUntilReaped, Child
<1> QED
  BY <1>2, <1>5

\* The waiter: the zombie it collects is its own command.
LEMMA ReapStep ==
    ASSUME SupInv, NEW c \in Cmds, Reap(c)
    PROVE  SupInv'
<1> USE TokensAssumption DEF SupInv, SupTypeOK
<1>1. /\ waiter[c] = "reap" /\ running[c] /\ pid[c] \in Pids /\ c \in Holding
      /\ running' = [running EXCEPT ![c] = FALSE]
      /\ waiter' = [waiter EXCEPT ![c] = "cancel"]
      /\ UNCHANGED <<owned, awake, peeked, pid, timedOut, watcher, report, shared, caught>>
  BY DEF Reap, reaper, history, OwnedUntilReaped, Holding
<1>2. /\ \A d \in Cmds : d # c => running'[d] = running[d] /\ waiter'[d] = waiter[d]
      /\ ~running'[c] /\ waiter'[c] = "cancel"
      /\ Holding' \subseteq Holding
  BY <1>1 DEF OwnedUntilReaped, Holding
<1>3. \A d \in Cmds \ shared : running'[d] => running[d] /\ d # c /\ pid[d] # pid[c]
  BY <1>1, <1>2, UnreapedNamed
<1>4. status' \in [Cmds -> {"none", "own", "foreign", "lost"}]
      /\ \A d \in Cmds : d # c => status'[d] = status[d]
  BY DEF Reap, OwnedUntilReaped
<1>5. c \notin shared => status'[c] = "own"
  BY <1>1, UnreapedNamed DEF Reap, OwnedUntilReaped
<1>6. ReapedExactly'
  BY <1>1, <1>2, <1>4, <1>5 DEF ReapedExactly
<1>7. CASE pid[c] \in zombies /\ Collected(pid[c])
  <2>1. SupTypeOK'
    BY <1>1, <1>4, <1>7 DEF Collected, Gone, OwnedUntilReaped
  <2>2. \A d \in Cmds, q \in Pids : q # pid[c] /\ occupant[q] = d => running'[d] = running[d]
    BY <1>2 DEF OwnedUntilReaped
  <2>3. /\ \A d \in Cmds : running'[d] <=> waiter'[d] \in {"wait", "reap"}
        /\ \A d \in Cmds : waiter'[d] = "none" <=> waiter[d] = "none"
    BY <1>1, <1>2 DEF OwnedUntilReaped
  <2>4. OwnedUntilReaped' /\ PidNamesCommand'
    BY <1>1, <1>2, <1>3, <1>7, <2>1, <2>2, <2>3, CollectedKeeps
  <2> QED
    BY <1>6, <2>4
<1>8. CASE ~Child(pid[c]) /\ UNCHANGED kernel
  <2>1. occupant[pid[c]] # c /\ \A p \in Pids : occupant[p] # c
    BY <1>1, <1>8 DEF Child, OwnedUntilReaped
  <2>2. PidNamesCommand'
    BY <1>1, <1>3, <1>8 DEF PidNamesCommand, kernel
  <2>3. SupTypeOK'
    BY <1>1, <1>4, <1>8 DEF OwnedUntilReaped, kernel
  <2>4. \A d \in Cmds \ shared' : running'[d] =>
          pid'[d] \in owned' /\ \A e \in Holding' : pid'[e] = pid'[d] => e = d
    BY <1>1, <1>2, <1>3, UnreapedNamed
  <2>5. OwnedUntilReaped'
    BY <1>1, <1>2, <1>8, <2>1, <2>3, <2>4 DEF OwnedUntilReaped, kernel, Child
  <2> QED
    BY <1>6, <2>2, <2>5
<1> QED
  BY <1>7, <1>8 DEF Reap

\* The other steps of the waiter; its untracking concerns no command that has its
\* pid for itself.
LEMMA WaiterSteps ==
    ASSUME SupInv, NEW c \in Cmds,
           WaitReturns(c) \/ Cancel(c) \/ Untrack(c) \/ Report(c)
    PROVE  SupInv'
<1> USE TokensAssumption DEF SupInv, SupTypeOK
<1>1. UNCHANGED <<occupant, group, zombies, adopted, elder, awake, peeked, pid, running, timedOut,
                  watcher, status, shared, caught>>
  BY DEF WaitReturns, Cancel, Untrack, Report, kernel, reaper, history
<1>2. /\ waiter' \in [Cmds -> {"none", "wait", "reap", "cancel", "untrack", "report", "done"}]
      /\ \A d \in Cmds : d # c => waiter'[d] = waiter[d] /\ report'[d] = report[d]
      /\ waiter[c] # "none" /\ waiter'[c] # "none"
      /\ waiter[c] \in {"wait", "reap"} <=> waiter'[c] \in {"wait", "reap"}
      /\ report' \in [Cmds -> {"none", "timed_out", "exited"}]
      /\ Holding' \subseteq Holding
  BY DEF WaitReturns, Cancel, Untrack, Report, OwnedUntilReaped, Holding
<1>3. PidNamesCommand'
  BY <1>1 DEF PidNamesCommand
<1>4. ReapedExactly'
  <2>1. waiter'[c] = "done" => /\ waiter[c] = "report"
                               /\ report'[c] = IF timedOut[c] /\ status[c] # "lost"
                                               THEN "timed_out" ELSE "exited"
    BY DEF WaitReturns, Cancel, Untrack, Report, OwnedUntilReaped
  <2> QED
    BY <1>1, <1>2, <2>1 DEF ReapedExactly
<1>5. /\ owned' \subseteq owned
      /\ \A d \in Cmds \ shared : running[d] => pid[d] \in owned'
  <2>1. CASE Untrack(c)
    <3>1. c \in Holding /\ ~running[c] /\ owned' = owned \ {pid[c]}
      BY <2>1 DEF Untrack, Holding, OwnedUntilReaped
    <3> QED
      BY <3>1, UnreapedNamed
  <2>2. CASE UNCHANGED owned
    BY <2>2, UnreapedNamed
  <2> QED
    BY <2>1, <2>2 DEF WaitReturns, Cancel, Report
<1>6. OwnedUntilReaped'
  BY <1>1, <1>2, <1>5 DEF OwnedUntilReaped, Child
<1> QED
  BY <1>3, <1>4, <1>6

\* The reaper collects a zombie that is not tracked, hence of no command that has its
\* pid for itself.
LEMMA ReaperSteps ==
    ASSUME SupInv, ReaperStep
    PROVE  SupInv'
<1> USE TokensAssumption DEF SupInv, SupTypeOK
<1>1. /\ UNCHANGED <<owned, pid, running, timedOut, waiter, watcher, status, report, shared, caught>>
      /\ awake' \in BOOLEAN
  BY DEF ReaperStep, ReaperWakes, ReaperIdle, ReaperPeek, ReaperReap, history, OwnedUntilReaped
<1>2. ReapedExactly'
  BY <1>1 DEF ReapedExactly
<1>3. Holding' = Holding
  BY <1>1 DEF Holding
<1>4. ASSUME UNCHANGED kernel, peeked' = peeked \/ peeked' \in Pids \ owned \/ peeked' = NoPid
      PROVE  SupInv'
  BY <1>1, <1>2, <1>3, <1>4 DEF kernel, OwnedUntilReaped, PidNamesCommand, Child
<1>5. CASE ReaperWakes \/ ReaperIdle
  BY <1>4, <1>5 DEF ReaperWakes, ReaperIdle
<1>6. ASSUME NEW p \in Pids, ReaperPeek(p)
      PROVE  SupInv'
  BY <1>4, <1>6 DEF ReaperPeek
<1>7. ASSUME NEW p \in Pids, ReaperReap(p)
      PROVE  SupInv'
  <2>1. peeked = p /\ peeked' = NoPid /\ p \notin owned
    BY <1>7 DEF ReaperReap, OwnedUntilReaped
  <2>2. CASE UNCHANGED kernel
    BY <1>4, <2>1, <2>2
  <2>3. CASE p \in zombies /\ Collected(p)
    <3>1. SupTypeOK'
      BY <1>1, <2>1, <2>3 DEF Collected, Gone, OwnedUntilReaped
    <3>2. \A d \in Cmds \ shared : running'[d] => running[d] /\ pid[d] # p
      BY <1>1, <2>1, UnreapedNamed
    <3> QED
      BY <1>1, <1>2, <1>3, <2>1, <2>3, <3>1, <3>2, CollectedKeeps DEF OwnedUntilReaped
  <2> QED
    BY <1>7, <2>2, <2>3 DEF ReaperReap
<1> QED
  BY <1>5, <1>6, <1>7 DEF ReaperStep

\* Every step keeps the invariant.
LEMMA SupNext ==
    ASSUME SupInv, [Next]_vars
    PROVE  SupInv'
<1>1. CASE UNCHANGED vars
  BY <1>1 DEF vars, kernel, reaper, history, SupInv, OwnedUntilReaped, PidNamesCommand,
              ReapedExactly, SupTypeOK, Child, Holding
<1>2. CASE Next
  BY <1>2, KernelSteps, SignalSteps, SpawnStep, WatcherSteps, ReapStep, WaiterSteps, ReaperSteps
     DEF Next, WatcherStep, WaiterStep
<1> QED
  BY <1>1, <1>2

\* The inductive invariant holds: spawn, waiter, watcher and reaper agree at all times
\* on which pids belong to commands, except for pids that came back before their last
\* holder had untracked them.
THEOREM SupervisionInvariant == Spec => []SupInv
BY SupInit, SupNext, PTL DEF Spec

\* The orphan reaper never takes the status of a command (wait_and_report gets its own)
\* unless the command's pid came back before untrack_owned.
THEOREM StatusesNotStolen == Spec => []StatusNotStolen
<1>1. SupInv => StatusNotStolen
  BY DEF SupInv, ReapedExactly, StatusNotStolen
<1> QED
  BY <1>1, SupervisionInvariant, PTL

\* While a ProcHandle is `running', its pid names the command that was spawned, with the
\* same exception.
THEOREM PidsNameCommands == Spec => []PidNamesCommand
<1>1. SupInv => PidNamesCommand
  BY DEF SupInv
<1> QED
  BY <1>1, SupervisionInvariant, PTL

\* ExitInfo.timed_out is true exactly if the deadline's kill found the command in its slot.
THEOREM TimeoutsReportedExactly == Spec => []TimeoutReportedExactly
<1>1. SupInv => TimeoutReportedExactly
  BY DEF SupInv, ReapedExactly, TimeoutReportedExactly
<1> QED
  BY <1>1, SupervisionInvariant, PTL

\* kill_tree, called by DELETE or by an expired timeout, signals its own group or nobody.
THEOREM StrangersNotSignalled == Spec => NoStrangerSignalled
<1>1. SupInv => \A c \in Cmds \ shared : KillRequest(c) \/ WatcherKills(c) =>
         \A p \in Pids : group[p] # c =>
             occupant'[p] = occupant[p] /\ (p \in zombies' <=> p \in zombies)
  <2> SUFFICES ASSUME SupInv, NEW c \in Cmds \ shared, KillRequest(c) \/ WatcherKills(c),
                      NEW p \in Pids, group[p] # c
               PROVE  occupant'[p] = occupant[p] /\ (p \in zombies' <=> p \in zombies)
    OBVIOUS
  <2>1. KillTree(c)
    BY DEF KillRequest, WatcherKills
  <2>2. CASE UNCHANGED kernel
    BY <2>2 DEF kernel
  <2>3. CASE \E S \in SUBSET Pids : Dies(S) /\ \A q \in S : group[q] = c
    BY <2>3 DEF Dies, Gone
  <2> QED
    BY <2>1, <2>2, <2>3, KillTreeDies
<1> QED
  BY <1>1, SupervisionInvariant, PTL DEF NoStrangerSignalled

-----------------------------------------------------------------------------
(* The kill sweep *)


\* Type correctness.
SweepTypeOK ==
    /\ proc \in [Pid -> {"free", "other", "live", "killed", "zombie"}]
    /\ lastPid \in Pid
    /\ pc \in {"dirents", "status", "kill", "done"}
    /\ attempt \in Nat
    /\ pos \in 0 .. PidMax
    /\ buf \in SUBSET Pid
    /\ found \in SUBSET Pid
    /\ behind \in SUBSET Pid
    /\ clean \in BOOLEAN /\ ordered \in BOOLEAN /\ unread \in BOOLEAN

\* As long as new pids are above all others the pass has not read past them, and
\* no process is behind it.
PidsInOrder ==
    ordered => /\ pos <= lastPid /\ TopLast
               /\ pc # "done" => behind = {}

\* What the position in the pass says of its buffer and its result.
PassShape ==
    /\ pc = "dirents" => buf = {}
    /\ pc = "status" => buf # {}
    /\ pc = "kill" => found # {}

\* A pass that has found nothing yet has everything that runs still ahead of it, unless
\* it was forked behind it.
NothingMissed ==
    pc \in {"dirents", "status"} /\ ~unread /\ found = {} =>
        \A p \in Running : p > pos \/ p \in buf \/ p \in behind

\* The inductive invariant.
SweepInv == SweepTypeOK /\ PidsInOrder /\ PassShape /\ NothingMissed /\ VerdictHolds

-----------------------------------------------------------------------------
\* A set of naturals that is not empty has a least element.
LEMMA LeastExists ==
    ASSUME NEW S \in SUBSET Nat, S # {}
    PROVE  \E x \in S : \A y \in S : x <= y
<1> DEFINE R == OpToRel(<, Nat)
<1>1. IsWellFoundedOn(R, Nat)
  BY NatLessThanWellFounded
<1>2. PICK x \in S : \A y \in S : ~ (<<y, x>> \in R)
  <2> HIDE DEF R
  <2> QED  BY <1>1, WFMin
<1>3. \A y \in S : ~ (y < x)
  BY <1>2 DEF OpToRel
<1> QED
  BY <1>3

\* Min of a set of pids is its least element.
LEMMA MinOfPids ==
    ASSUME NEW S \in SUBSET Pid, S # {}
    PROVE  Min(S) \in S /\ \A y \in S : Min(S) <= y
<1>1. \E x \in S : \A y \in S : x <= y
  BY LeastExists, SweepAssumption DEF Pid
<1> QED
  BY <1>1 DEF Min

-----------------------------------------------------------------------------
\* At the start everything is beyond position 0.
LEMMA SweepInvInit == SweepInit => SweepInv
<1> SUFFICES ASSUME SweepInit PROVE SweepInv
  OBVIOUS
<1>1. SweepTypeOK
  <2>1. 0 \in 0 .. PidMax /\ {} \in SUBSET Pid /\ TopLast \in BOOLEAN
    BY SweepAssumption DEF TopLast
  <2> QED
    BY <2>1 DEF SweepInit, SweepTypeOK
<1>2. PidsInOrder
  BY SweepAssumption DEF SweepInit, PidsInOrder, Pid
<1>3. \A p \in Running : p > 0
  BY SweepAssumption DEF Running, In, Pid
<1> QED
  BY <1>1, <1>2, <1>3 DEF SweepInit, SweepInv, PassShape, NothingMissed, VerdictHolds

\* A new process of either kind gets a pid that the pass has yet to reach, or one that is
\* noted as behind it.
LEMMA TakesStep ==
    ASSUME SweepInv, NEW kind \in {"live", "other"}, Takes(kind), UNCHANGED scanVars,
           kind = "live" => In({"live"}) # {}
    PROVE  SweepInv'
<1> USE SweepAssumption DEF SweepInv, SweepTypeOK
<1> DEFINE free == In({"free"})
           ahead == {p \in free : p > lastPid}
           child == IF ahead # {} THEN Min(ahead) ELSE Min(free)
<1>1. /\ free # {} /\ free \in SUBSET Pid /\ ahead \in SUBSET Pid
      /\ proc' = [proc EXCEPT ![child] = kind] /\ lastPid' = child
      /\ ordered' = (ordered /\ ahead # {})
      /\ behind' = IF kind = "live" /\ (child <= pos \/ pc = "done") THEN behind \cup {child} ELSE behind
      /\ UNCHANGED scanVars
  BY DEF Takes, In
<1>2. child \in free /\ child \in Pid /\ (ahead # {} => child \in ahead)
  BY <1>1, MinOfPids
<1> HIDE DEF child
<1>3. ordered' => ordered /\ child > lastPid
  BY <1>1, <1>2
<1>4. SweepTypeOK'
  BY <1>1, <1>2 DEF scanVars
<1>5. \A p \in Used' : p = child \/ p \in Used
  BY <1>1, <1>2 DEF Used, In
<1>6. PidsInOrder'
  <2>1. SUFFICES ASSUME ordered' PROVE pos <= child /\ (\A p \in Used' : p <= child)
                                      /\ (pc # "done" => behind' = {})
    BY <1>1 DEF PidsInOrder, TopLast, scanVars
  <2>2. ordered /\ child > lastPid /\ pos <= lastPid /\ \A p \in Used : p <= lastPid
    BY <1>3, <2>1 DEF PidsInOrder, TopLast
  <2>3. lastPid \in Int /\ pos \in Int /\ child \in Int /\ \A p \in Used : p \in Int
    BY <1>2 DEF Pid, Used
  <2>4. \A p \in Used' : p <= child
    BY <1>5, <2>2, <2>3
  <2>5. ~(child <= pos)
    BY <2>2, <2>3
  <2>6. pc # "done" => behind' = {}
    BY <1>1, <2>2, <2>5 DEF PidsInOrder
  <2> QED  BY <2>2, <2>3, <2>4, <2>6
<1>7. \A p \in Running' : (p = child /\ kind = "live") \/ p \in Running
  BY <1>1, <1>2 DEF Running, In
<1>8. NothingMissed'
  <2>1. SUFFICES ASSUME pc \in {"dirents", "status"}, ~unread, found = {}, NEW p \in Running'
                 PROVE  p > pos \/ p \in buf \/ p \in behind'
    BY <1>1 DEF NothingMissed, scanVars
  <2>2. CASE p = child /\ kind = "live"
    <3>1. child \in Int /\ pos \in Int
      BY <1>2 DEF Pid
    <3> QED  BY <1>1, <2>2, <3>1
  <2>3. CASE p \in Running
    BY <1>1, <2>1, <2>3 DEF NothingMissed
  <2> QED  BY <1>7, <2>2, <2>3
<1>9. VerdictHolds'
  <2>1. SUFFICES ASSUME pc = "done", clean, ~unread
                 PROVE  Running' \subseteq behind' /\ (ordered' => Running' = {})
    BY <1>1 DEF VerdictHolds, scanVars
  <2>2. Running \subseteq behind /\ (ordered => Running = {})
    BY <2>1 DEF VerdictHolds
  <2>3. Running' \subseteq behind'
    BY <1>1, <1>7, <2>1, <2>2
  <2>4. ordered' => kind = "other"
    BY <1>3, <2>2 DEF Running, In
  <2> QED  BY <1>3, <1>7, <2>2, <2>3, <2>4
<1> QED
  BY <1>1, <1>4, <1>6, <1>8, <1>9 DEF PassShape, scanVars

\* A process that ends or is reaped leaves less to find.
LEMMA EndSteps ==
    ASSUME SweepInv, NEW p \in Pid, Exit(p) \/ Reaped(p)
    PROVE  SweepInv'
<1>1. /\ proc' \in [Pid -> {"free", "other", "live", "killed", "zombie"}]
      /\ \A q \in Used' : q \in Used
      /\ \A q \in Running' : q \in Running
      /\ UNCHANGED <<lastPid, behind, ordered, scanVars>>
  BY DEF Exit, Reaped, SweepInv, SweepTypeOK, Running, Used, In
<1>2. Running = {} => Running' = {}
  BY <1>1
<1>3. PidsInOrder'
  BY <1>1 DEF SweepInv, PidsInOrder, TopLast, scanVars
<1> QED
  BY <1>1, <1>2, <1>3 DEF SweepInv, SweepTypeOK, PassShape, NothingMissed, VerdictHolds, scanVars

\* getdents: the buffer holds what is between the old position and the new; a pass that
\* ends has nothing beyond it.
LEMMA DirentsStep ==
    ASSUME SweepInv, Dirents
    PROVE  SweepInv'
<1> USE SweepAssumption DEF SweepInv, SweepTypeOK
<1> DEFINE more == {p \in Used : p > pos}
<1>0. /\ pc = "dirents" /\ buf = {} /\ UNCHANGED <<procVars, unread>>
      /\ Running' = Running /\ Used' = Used
  BY DEF Dirents, PassShape, procVars, Running, Used, In
<1>1. CASE more = {}
  <2>1. PassEnds
    BY <1>1 DEF Dirents
  <2>2. SweepTypeOK' /\ PassShape' /\ NothingMissed'
    BY <1>0, <2>1 DEF PassEnds, PassShape, NothingMissed, procVars
  <2>3. PidsInOrder'
    BY <1>0, <2>1 DEF PassEnds, PidsInOrder, TopLast, procVars
  <2>4. VerdictHolds'
    <3>1. SUFFICES ASSUME pc' = "done", clean', ~unread'
                   PROVE Running \subseteq behind /\ (ordered => Running = {})
      BY <1>0 DEF VerdictHolds, procVars
    <3>2. found = {} /\ ~unread
      BY <1>0, <2>1, <3>1 DEF PassEnds
    <3>3. \A p \in Running : p > pos \/ p \in behind
      BY <1>0, <3>2 DEF NothingMissed
    <3>4. Running \subseteq Used
      BY DEF Running, Used, In
    <3>5. Running \subseteq behind
      BY <1>1, <3>3, <3>4
    <3> QED
      BY <1>0, <3>5 DEF PidsInOrder
  <2> QED
    BY <2>2, <2>3, <2>4
<1>2. CASE more # {}
  <2>1. PICK last \in more :
        /\ pc' = "status" /\ buf' = {p \in more : p <= last} /\ pos' = last
        /\ UNCHANGED <<attempt, found, clean>>
    BY <1>2 DEF Dirents, Buffered
  <2>2. more \in SUBSET Pid /\ last \in Pid /\ last \in Used /\ last \in Int
    BY DEF Used, Pid
  <2>3. SweepTypeOK' /\ PassShape' /\ VerdictHolds'
    BY <1>0, <2>1, <2>2 DEF PassShape, VerdictHolds, procVars, Pid
  <2>4. PidsInOrder'
    BY <1>0, <2>1, <2>2 DEF PidsInOrder, TopLast, procVars
  <2>5. NothingMissed'
    <3>1. SUFFICES ASSUME ~unread, found = {}, NEW p \in Running
                   PROVE  p > last \/ p \in buf' \/ p \in behind
      BY <1>0, <2>1 DEF NothingMissed, procVars
    <3>2. p \in Used /\ p \in Int
      BY DEF Running, Used, In, Pid
    <3>3. p > pos \/ p \in behind
      BY <1>0, <3>1 DEF NothingMissed
    <3> QED  BY <2>1, <2>2, <3>2, <3>3
  <2> QED
    BY <2>3, <2>4, <2>5
<1> QED
  BY <1>1, <1>2

\* A pass that could not read /proc is marked as such.
LEMMA DirentsFailStep ==
    ASSUME SweepInv, DirentsFail
    PROVE  SweepInv'
<1>1. /\ UNCHANGED procVars /\ Running' = Running /\ Used' = Used /\ unread' = TRUE /\ PassEnds
      /\ pc = "dirents"
  BY DEF DirentsFail, procVars, Running, Used, In
<1> QED
  BY <1>1 DEF SweepInv, SweepTypeOK, PidsInOrder, TopLast, PassShape, NothingMissed, VerdictHolds,
              PassEnds, procVars

\* A pid leaves the buffer only for the result, or because it does not run, or
\* in a pass that is marked as unread.
LEMMA StatusSteps ==
    ASSUME SweepInv, ReadStatus \/ StatusFails
    PROVE  SweepInv'
<1> DEFINE p == Min(buf)
<1>1. pc = "status" /\ buf \in SUBSET Pid /\ buf # {} /\ p \in buf
  BY MinOfPids DEF SweepInv, SweepTypeOK, PassShape, ReadStatus, StatusFails
<1>2. /\ UNCHANGED <<procVars, attempt, pos, clean>>
      /\ Running' = Running
      /\ buf' = buf \ {p}
      /\ pc' = IF buf = {p} THEN "dirents" ELSE "status"
      /\ \/ unread' = TRUE /\ found' = found
         \/ unread' = unread /\ found' = IF p \in Running THEN found \cup {p} ELSE found
  BY DEF ReadStatus, StatusFails, procVars, Running, In
<1> HIDE DEF p
<1>2a. Used' = Used
  BY <1>2 DEF procVars, Used, In
<1>3. SweepTypeOK' /\ PassShape' /\ PidsInOrder' /\ VerdictHolds'
  BY <1>1, <1>2, <1>2a
     DEF SweepInv, SweepTypeOK, PassShape, PidsInOrder, TopLast, VerdictHolds, procVars
<1>4. NothingMissed'
  BY <1>1, <1>2 DEF SweepInv, NothingMissed, procVars
<1> QED
  BY <1>3, <1>4 DEF SweepInv

\* A SIGKILL starts no process; after the last one the next pass starts at position 0.
LEMMA KillStep ==
    ASSUME SweepInv, Kill
    PROVE  SweepInv'
<1> USE SweepAssumption DEF SweepInv, SweepTypeOK
<1> DEFINE p == Min(found)
<1>1. pc = "kill" /\ found \in SUBSET Pid /\ found # {} /\ p \in found
  BY MinOfPids DEF PassShape, Kill
<1>2. /\ proc' = IF p \in Running THEN [proc EXCEPT ![p] = "killed"] ELSE proc
      /\ UNCHANGED lastPid
      /\ IF found = {p} THEN NextPass(attempt + 1)
         ELSE found' = found \ {p} /\ UNCHANGED <<pc, attempt, pos, buf, clean, behind, ordered, unread>>
  BY DEF Kill
<1> HIDE DEF p
<1>3. /\ proc' \in [Pid -> {"free", "other", "live", "killed", "zombie"}]
      /\ Used' = Used
  BY <1>1, <1>2 DEF Running, Used, In
<1>4. \A q \in Running' : q > 0
  BY DEF Running, In, Pid
<1>5. CASE found = {p}
  <2>1. NextPass(attempt + 1)
    BY <1>2, <1>5
  <2>2. SweepTypeOK'
    <3>1. 0 \in 0 .. PidMax /\ {} \in SUBSET Pid /\ attempt + 1 \in Nat /\ TopLast \in BOOLEAN
      BY DEF TopLast
    <3> QED
      BY <1>2, <1>3, <2>1, <3>1 DEF NextPass
  <2>3. PassShape' /\ VerdictHolds'
    BY <2>1 DEF NextPass, PassShape, VerdictHolds
  <2>4. PidsInOrder'
    <3>1. ordered' => TopLast
      BY <2>1 DEF NextPass
    <3>2. ordered' => TopLast'
      BY <1>2, <1>3, <3>1 DEF TopLast
    <3>3. pos' = 0 /\ lastPid' = lastPid /\ 0 <= lastPid /\ behind' = {}
      BY <1>2, <2>1 DEF NextPass, Pid
    <3> QED  BY <3>2, <3>3 DEF PidsInOrder
  <2>5. NothingMissed'
    BY <1>4, <2>1 DEF NextPass, NothingMissed
  <2> QED
    BY <2>2, <2>3, <2>4, <2>5
<1>6. CASE found # {p}
  BY <1>1, <1>2, <1>3, <1>6
     DEF PidsInOrder, TopLast, PassShape, NothingMissed, VerdictHolds
<1> QED
  BY <1>5, <1>6

\* The invariant, for every pid space, process limit and number of passes.
THEOREM SweepInvariant == SweepSpec => []SweepInv
<1>1. ASSUME SweepInv, [SweepNext]_sweepVars PROVE SweepInv'
  <2>1. CASE UNCHANGED sweepVars
    <3>1. Running' = Running /\ Used' = Used
      BY <2>1 DEF sweepVars, Running, Used, In
    <3> QED
      BY <1>1, <2>1, <3>1 DEF sweepVars, SweepInv, SweepTypeOK, PidsInOrder, TopLast, PassShape,
                              NothingMissed, VerdictHolds
  <2>2. CASE Fork \/ OutsiderForks
    BY <1>1, <2>2, TakesStep DEF Fork, OutsiderForks
  <2> QED
    BY <1>1, <2>1, <2>2, EndSteps, DirentsStep, DirentsFailStep, StatusSteps, KillStep
       DEF SweepNext, Sweep
<1> QED
  BY <1>1, SweepInvInit, PTL DEF SweepSpec

\* If kill_uid reports the uid empty after a pass that could read /proc, whatever still
\* runs was forked during that pass at a pid the pass had gone by; nothing runs if the
\* kernel's pids were above all others throughout the pass.
THEOREM VerdictsHold == SweepSpec => []VerdictHolds
<1>1. SweepInv => VerdictHolds
  BY DEF SweepInv
<1> QED
  BY <1>1, SweepInvariant, PTL
=============================================================================
