------------------------- MODULE SandboxPoolProofs -------------------------
(* Theorems about SandboxPool, for every number of sandboxes, threads, uids *)
(* and slots: one holder per uid, no inherited processes, exact slots, the  *)
(* refinement of UidLease, and the homes a delete leaves behind.            *)
EXTENDS SandboxPool, SequenceTheorems, FiniteSetTheorems, TLAPS

-----------------------------------------------------------------------------
(* Types *)

\* The uids popped off the free list are uids, and what stays is a free list.
LEMMA FreeListShape ==
    ASSUME ShapeOK
    PROVE  /\ Popped(0) \subseteq Uids
           /\ \A k \in 1 .. Len(free) : Popped(k) \subseteq Uids
           /\ \A k \in 1 .. Len(free) : free[k] \in Uids
           /\ \A k \in 1 .. Len(free) : SubSeq(free, 1, k - 1) \in Seq(Uids)
           /\ \A u \in Uids : Append(free, u) \in Seq(Uids)
<1>1. free \in Seq(Uids) /\ Len(free) \in Nat
  BY DEF ShapeOK
<1>2. \A k \in 1 .. Len(free) : free[k] \in Uids
  BY <1>1
<1>3. /\ Popped(0) \subseteq Uids
      /\ \A k \in 1 .. Len(free) : Popped(k) \subseteq Uids
  BY <1>1, <1>2 DEF Popped
<1>4. \A k \in 1 .. Len(free) : SubSeq(free, 1, k - 1) \in Seq(Uids)
  BY <1>1, SubSeqProperties
<1> QED
  BY <1>1, <1>2, <1>3, <1>4

\* A step of create keeps the shape of the state.
LEMMA CreateShape ==
    ASSUME ShapeOK, LocalsOK, NEW t \in Threads, CreateStep(t) \/ CreateReserve(t)
    PROVE  ShapeOK'
<1> USE DEF ShapeOK, Goto, Labels, pool, entries, world
<1>0. CASE CreateReserve(t)
  BY <1>0 DEF CreateReserve
<1>1. CASE CreateFull(t)
  BY <1>1, SweepAssumption DEF CreateFull, Return
<1>2. CASE TakeFreed(t)
  <2>1. PICK k \in 1 .. Len(free) :
          /\ uid' = [uid EXCEPT ![t] = free[k]]
          /\ free' = SubSeq(free, 1, k - 1)
          /\ quarantined' = quarantined \cup Popped(k)
    BY <1>2 DEF TakeFreed
  <2>2. /\ uid' \in [Threads -> Uids \cup {NoUid}]
        /\ free' \in Seq(Uids)
        /\ quarantined' \subseteq Uids
    BY <2>1, FreeListShape
  <2> QED
    BY <1>2, <2>2 DEF TakeFreed
<1>3. CASE TakeNew(t)
  <2>1. PICK u \in next .. (UidRange - 1) :
          /\ uid' = [uid EXCEPT ![t] = u]
          /\ next' = u + 1
    BY <1>3 DEF TakeNew
  <2>2. u \in Uids /\ next' \in 0 .. UidRange
    BY <2>1, UidAssumption DEF Uids
  <2>3. /\ free' \in Seq(Uids)
        /\ quarantined' \subseteq Uids
    <3>1. free' = <<>> /\ quarantined' = quarantined \cup Popped(0)
      BY <1>3 DEF TakeNew
    <3> QED
      BY <3>1, FreeListShape, EmptySeq
  <2>4. pc' \in [Threads -> Labels]
    BY <1>3 DEF TakeNew
  <2> QED
    BY <1>3, <2>1, <2>2, <2>3, <2>4 DEF TakeNew
<1>4. CASE TakeNone(t)
  <2>1. /\ free' \in Seq(Uids)
        /\ quarantined' \subseteq Uids
        /\ next' \in 0 .. UidRange
    BY <1>4, FreeListShape, UidAssumption DEF TakeNone
  <2> QED
    BY <1>4, <2>1 DEF TakeNone
<1>5. CASE CreateHome(t)
  BY <1>5 DEF CreateHome, NewHome
<1>6. CASE CreateHomeFails(t)
  BY <1>6 DEF CreateHomeFails
<1>7. CASE CreateHomePartial(t)
  BY <1>7 DEF CreateHomePartial, NewHome
<1>8. CASE CreateInsert(t)
  BY <1>8, SweepAssumption DEF CreateInsert, Return, LocalsOK
<1>9. CASE CreateRefuse(t)
  BY <1>9 DEF CreateRefuse
<1>10. CASE CreateFailSlot(t)
  BY <1>10 DEF CreateFailSlot
<1>11. CASE CreateFailUid(t)
  <2>1. free' \in Seq(Uids)
    BY <1>11, FreeListShape DEF CreateFailUid, Return, LocalsOK, CreatorLabels
  <2> QED
    BY <1>11, <2>1, SweepAssumption DEF CreateFailUid, Return
<1> QED
  BY <1>0, <1>1, <1>2, <1>3, <1>4, <1>5, <1>6, <1>7, <1>8, <1>9, <1>10, <1>11
     DEF CreateStep

\* A step of delete keeps the shape of the state.
LEMMA DeleteShape ==
    ASSUME ShapeOK, LocalsOK, NEW t \in Threads,
           DeleteStep(t) \/ \E s \in Sandboxes : DeleteRemove(t, s)
    PROVE  ShapeOK'
<1> USE DEF ShapeOK, Goto, Labels, pool, entries, world
<1>0. ASSUME NEW s \in Sandboxes, DeleteRemove(t, s)
      PROVE  ShapeOK'
  BY <1>0 DEF DeleteRemove
<1>1. CASE DeleteMark(t)
  BY <1>1 DEF DeleteMark, LocalsOK, DeleterLabels
<1>2. CASE DeleteFreeSlot(t)
  BY <1>2 DEF DeleteFreeSlot
<1>3. CASE SweepClear(t)
  BY <1>3 DEF SweepClear
<1>4. CASE SweepKill(t)
  BY <1>4, SweepAssumption DEF SweepKill
<1>5. CASE SweepGiveUp(t)
  BY <1>5 DEF SweepGiveUp
<1>6. CASE DeleteHome(t)
  BY <1>6 DEF DeleteHome
<1>7. CASE DeleteRelease(t)
  <2>1. free' \in Seq(Uids)
    BY <1>7, FreeListShape DEF DeleteRelease, Return, LocalsOK, DeleterLabels
  <2> QED
    BY <1>7, <2>1, SweepAssumption DEF DeleteRelease, Return
<1>8. CASE DeleteQuarantine(t)
  <2>1. uid[t] \in Uids
    BY <1>8 DEF DeleteQuarantine, Return, LocalsOK, DeleterLabels
  <2> QED
    BY <1>8, <2>1, SweepAssumption DEF DeleteQuarantine, Return
<1> QED
  BY <1>0, <1>1, <1>2, <1>3, <1>4, <1>5, <1>6, <1>7, <1>8 DEF DeleteStep

\* A step of spawn, and of the operating system, keeps the shape of the state.
LEMMA SpawnShape ==
    ASSUME ShapeOK, LocalsOK,
           \/ \E t \in Threads :
                SpawnStep(t) \/ \E s \in Sandboxes : SpawnGet(t, s)
           \/ Environment
    PROVE  ShapeOK'
<1> USE DEF ShapeOK, Goto, Labels, pool, entries, world, locals
<1>1. ASSUME NEW t \in Threads, NEW s \in Sandboxes, SpawnGet(t, s)
      PROVE  ShapeOK'
  BY <1>1 DEF SpawnGet
<1>2. ASSUME NEW t \in Threads, SpawnRefused(t)
      PROVE  ShapeOK'
  BY <1>2, SweepAssumption DEF SpawnRefused, Return
<1>3. ASSUME NEW t \in Threads, SpawnLock(t)
      PROVE  ShapeOK'
  BY <1>3 DEF SpawnLock
<1>4. ASSUME NEW t \in Threads, SpawnFork(t)
      PROVE  ShapeOK'
  BY <1>4 DEF SpawnFork, LocalsOK, SpawnLabels
<1>5. ASSUME NEW t \in Threads, SpawnReturn(t)
      PROVE  ShapeOK'
  <2>1. guard' \in [Sandboxes -> Threads \cup {NoThread}]
    BY <1>5 DEF SpawnReturn
  <2> QED
    BY <1>5, <2>1, SweepAssumption DEF SpawnReturn, Return
<1>6. CASE Environment
  BY <1>6 DEF Environment, ProcExit, StrangerStart, StrangerExit
<1> QED
  BY <1>1, <1>2, <1>3, <1>4, <1>5, <1>6 DEF SpawnStep

-----------------------------------------------------------------------------
(* The free list *)

\* Releasing a uid adds it to the uids up for reuse.
LEMMA ElementsAppend ==
    ASSUME ShapeOK, NEW u \in Uids
    PROVE  Elements(Append(free, u)) = Elements(free) \cup {u}
<1>1. free \in Seq(Uids) /\ Len(free) \in Nat /\ DOMAIN free = 1 .. Len(free)
  BY DEF ShapeOK
<1>2. /\ DOMAIN Append(free, u) = 1 .. (Len(free) + 1)
      /\ \A i \in 1 .. Len(free) : Append(free, u)[i] = free[i]
      /\ Append(free, u)[Len(free) + 1] = u
  BY <1>1, AppendProperties
<1> QED
  BY <1>1, <1>2 DEF Elements

\* Releasing a uid that is not on the free list keeps the list free of
\* duplicates.
LEMMA AppendDistinct ==
    ASSUME ShapeOK, NEW u \in Uids, u \notin Elements(free),
           \A i, j \in DOMAIN free : free[i] = free[j] => i = j
    PROVE  LET f == Append(free, u) IN
           \A i, j \in DOMAIN f : f[i] = f[j] => i = j
<1>1. free \in Seq(Uids) /\ Len(free) \in Nat /\ DOMAIN free = 1 .. Len(free)
  BY DEF ShapeOK
<1>2. /\ DOMAIN Append(free, u) = 1 .. (Len(free) + 1)
      /\ \A i \in 1 .. Len(free) : Append(free, u)[i] = free[i]
      /\ Append(free, u)[Len(free) + 1] = u
  BY <1>1, AppendProperties
<1>3. \A i \in 1 .. Len(free) : free[i] # u
  BY <1>1 DEF Elements
<1> QED
  BY <1>1, <1>2, <1>3

\* take pops from the end: what it pops leaves the free list for good, the
\* rest stays, and on a list without duplicates the two do not overlap.
LEMMA ElementsPop ==
    ASSUME ShapeOK, NEW k \in 1 .. Len(free),
           \A i, j \in DOMAIN free : free[i] = free[j] => i = j
    PROVE  LET f == SubSeq(free, 1, k - 1) IN
           /\ Elements(f) \subseteq Elements(free)
           /\ free[k] \in Elements(free) \ Elements(f)
           /\ free[k] \notin Popped(k)
           /\ Popped(k) \subseteq Elements(free) \ Elements(f)
           /\ \A i, j \in DOMAIN f : f[i] = f[j] => i = j
<1> DEFINE f == SubSeq(free, 1, k - 1)
<1>1. free \in Seq(Uids) /\ Len(free) \in Nat /\ DOMAIN free = 1 .. Len(free)
  BY DEF ShapeOK
<1>2. /\ DOMAIN f = 1 .. (k - 1)
      /\ \A i \in 1 .. (k - 1) : f[i] = free[i]
  BY <1>1, SubSeqProperties
<1>3. /\ DOMAIN f \subseteq DOMAIN free
      /\ \A i \in DOMAIN f : f[i] = free[i] /\ i < k
      /\ k \in DOMAIN free
      /\ \A i \in (k + 1) .. Len(free) : i \in DOMAIN free /\ i > k
  BY <1>1, <1>2
<1> HIDE DEF f
<1>4. Elements(f) \subseteq Elements(free)
  BY <1>3 DEF Elements
<1>5. free[k] \in Elements(free) \ Elements(f)
  BY <1>1, <1>3 DEF Elements
<1>6. free[k] \notin Popped(k)
  BY <1>1, <1>3 DEF Popped
<1>7. Popped(k) \subseteq Elements(free) \ Elements(f)
  BY <1>1, <1>3 DEF Elements, Popped
<1>8. \A i, j \in DOMAIN f : f[i] = f[j] => i = j
  BY <1>3
<1> QED
  BY <1>4, <1>5, <1>6, <1>7, <1>8 DEF f

\* When take empties the free list, exactly its uids are quarantined.
LEMMA ElementsPopAll ==
    ASSUME ShapeOK
    PROVE  Popped(0) = Elements(free) /\ Elements(<<>>) = {}
<1>1. free \in Seq(Uids) /\ Len(free) \in Nat /\ DOMAIN free = 1 .. Len(free)
  BY DEF ShapeOK
<1>2. Popped(0) = Elements(free)
  BY <1>1 DEF Popped, Elements
<1>3. Elements(<<>>) = {}
  BY DEF Elements
<1> QED
  BY <1>2, <1>3

-----------------------------------------------------------------------------
(* One holder per uid *)

\* A step that touches neither pool nor entries and makes nobody responsible
\* for a uid they were not responsible for keeps the lease discipline.
LEMMA QuietLease ==
    ASSUME UidExclusive, RegistryOK,
           map' = map, free' = free, quarantined' = quarantined,
           next' = next, entryUid' = entryUid,
           \A r \in Threads : Holds(r)' => Holds(r) /\ uid'[r] = uid[r]
    PROVE  /\ UidExclusive'
           /\ \A u \in Uids : Leased(u)' \/ u \in Elements(free)' => u < next'
<1>1. \A u : Leased(u)' => Leased(u)
  BY DEF Leased
<1>2. Elements(free)' = Elements(free)
  BY DEF Elements
<1> QED
  BY <1>1, <1>2 DEF UidExclusive, RegistryOK

\* A thread that holds a uid is the only one to be named when that uid is
\* leased: letting go of it leaves the uid without a holder.
LEMMA LeaseOfHolder ==
    ASSUME UidExclusive, NEW t \in Threads, Holds(t), NEW r \in Threads, Holds(r),
           r # t
    PROVE  uid[r] # uid[t]
BY DEF UidExclusive

\* The labels of create, delete and spawn do not overlap.
LEMMA LabelSets ==
    ASSUME NEW t \in Threads
    PROVE  /\ Holds(t) <=> pc[t] \in {"build", "confine", "fail_slot", "fail_uid",
                                      "mark", "slot", "sweep", "unlink", "settle"}
           /\ Holds(t)' <=> pc'[t] \in {"build", "confine", "fail_slot", "fail_uid",
                                        "mark", "slot", "sweep", "unlink", "settle"}
BY DEF Holds, CreatorLabels, DeleterLabels

\* The uids of the range that have a holder lie below `next'.
Below == \A u \in Uids : Leased(u) \/ u \in Elements(free) => u < next

\* Steps of create, delete and spawn that hand nothing out and take nothing
\* back.
LEMMA QuietSteps ==
    ASSUME ShapeOK, LeaseInv, NEW t \in Threads,
           \/ CreateReserve(t) \/ CreateFull(t)
           \/ CreateHome(t) \/ CreateHomeFails(t) \/ CreateHomePartial(t)
           \/ CreateRefuse(t) \/ CreateFailSlot(t)
           \/ DeleteMark(t) \/ DeleteFreeSlot(t)
           \/ SweepClear(t) \/ SweepKill(t) \/ SweepGiveUp(t) \/ DeleteHome(t)
           \/ \E s \in Sandboxes : SpawnGet(t, s)
           \/ SpawnRefused(t) \/ SpawnLock(t) \/ SpawnFork(t) \/ SpawnReturn(t)
    PROVE  UidExclusive' /\ Below'
<1>1. /\ map' = map /\ free' = free /\ quarantined' = quarantined
      /\ next' = next /\ entryUid' = entryUid
  BY DEF CreateReserve, CreateFull, CreateHome, CreateHomeFails, CreateHomePartial,
         NewHome, CreateRefuse, CreateFailSlot, DeleteMark, DeleteFreeSlot,
         SweepClear, SweepKill, SweepGiveUp, DeleteHome, SpawnGet, SpawnRefused,
         SpawnLock, SpawnFork, SpawnReturn, pool, entries
<1>2. \A r \in Threads : Holds(r)' => Holds(r) /\ uid'[r] = uid[r]
  BY LabelSets
     DEF ShapeOK, CreateReserve, CreateFull, CreateHome, CreateHomeFails,
         CreateHomePartial, CreateRefuse, CreateFailSlot, DeleteMark,
         DeleteFreeSlot, SweepClear, SweepKill, SweepGiveUp, DeleteHome,
         SpawnGet, SpawnRefused, SpawnLock, SpawnFork, SpawnReturn, Return, Goto
<1> QED
  BY <1>1, <1>2, QuietLease DEF LeaseInv, Below

\* take: the uid handed out had no holder, and those popped before it become
\* quarantined without ever having had one.
LEMMA TakeSteps ==
    ASSUME ShapeOK, LeaseInv, NEW t \in Threads,
           TakeFreed(t) \/ TakeNew(t) \/ TakeNone(t)
    PROVE  UidExclusive' /\ Below'
<1>0. /\ \A i, j \in DOMAIN free : free[i] = free[j] => i = j
      /\ Below
      /\ UidExclusive
  BY DEF LeaseInv, UidExclusive, RegistryOK, Below
<1>1. CASE TakeFreed(t)
  <2>1. PICK k \in 1 .. Len(free) :
          /\ uid' = [uid EXCEPT ![t] = free[k]]
          /\ free' = SubSeq(free, 1, k - 1)
          /\ quarantined' = quarantined \cup Popped(k)
    BY <1>1 DEF TakeFreed
  <2>2. /\ pc[t] = "take" /\ pc' = [pc EXCEPT ![t] = "build"]
        /\ map' = map /\ entryUid' = entryUid /\ next' = next
    BY <1>1 DEF TakeFreed, Goto, entries
  <2>3. /\ Elements(free') \subseteq Elements(free)
        /\ free[k] \in Elements(free) \ Elements(free')
        /\ free[k] \notin Popped(k)
        /\ Popped(k) \subseteq Elements(free) \ Elements(free')
        /\ \A i, j \in DOMAIN free' : free'[i] = free'[j] => i = j
    BY <1>0, <2>1, ElementsPop
  <2>4. \A r \in Threads :
          /\ r # t => (Holds(r)' <=> Holds(r)) /\ uid'[r] = uid[r]
          /\ r = t => ~Holds(r) /\ Holds(r)' /\ uid'[r] = free[k]
    BY <2>1, <2>2, LabelSets DEF ShapeOK
  <2>5. \A u : Leased(u)' <=> Leased(u) \/ u = free[k]
    BY <2>2, <2>4 DEF Leased
  <2>6. ~Leased(free[k]) /\ free[k] \notin quarantined /\ free[k] \in Uids
    BY <1>0, <2>3, FreeListShape DEF UidExclusive
  <2>7. Below'
    BY <1>0, <2>2, <2>3, <2>5, <2>6 DEF Below
  <2>8. UidExclusive'
    BY <1>0, <2>1, <2>2, <2>3, <2>4, <2>5, <2>6 DEF UidExclusive, Leased
  <2> QED
    BY <2>7, <2>8
<1>2. CASE TakeNew(t)
  <2>1. /\ free' = <<>>
        /\ quarantined' = quarantined \cup Popped(0)
        /\ map' = map /\ entryUid' = entryUid
    BY <1>2 DEF TakeNew, entries
  <2>2. PICK u \in next .. (UidRange - 1) :
          /\ u \notin quarantined'
          /\ pc[t] = "take" /\ pc' = [pc EXCEPT ![t] = "build"]
          /\ uid' = [uid EXCEPT ![t] = u]
          /\ next' = u + 1
    BY <1>2 DEF TakeNew, Goto
  <2>3. /\ Popped(0) = Elements(free) /\ Elements(free') = {}
        /\ DOMAIN free' = {}
    BY <2>1, ElementsPopAll
  <2>4. \A r \in Threads :
          /\ r # t => (Holds(r)' <=> Holds(r)) /\ uid'[r] = uid[r]
          /\ r = t => ~Holds(r) /\ Holds(r)' /\ uid'[r] = u
    BY <2>2, LabelSets DEF ShapeOK
  <2>5. \A v : Leased(v)' <=> Leased(v) \/ v = u
    BY <2>1, <2>4 DEF Leased
  <2>6. u \in Uids /\ ~Leased(u) /\ u \in Int /\ next \in Int /\ next <= u
    BY <1>0, <2>2, UidAssumption DEF Below, ShapeOK, Uids
  <2>7. Below'
    BY <1>0, <2>2, <2>3, <2>5, <2>6 DEF Below, Uids
  <2>8. UidExclusive'
    BY <1>0, <2>1, <2>2, <2>3, <2>4, <2>5, <2>6 DEF UidExclusive, Leased
  <2> QED
    BY <2>7, <2>8
<1>3. CASE TakeNone(t)
  <2>1. /\ free' = <<>>
        /\ quarantined' = quarantined \cup Popped(0)
        /\ map' = map /\ entryUid' = entryUid /\ uid' = uid
        /\ next' = UidRange
        /\ pc[t] = "take" /\ pc' = [pc EXCEPT ![t] = "undo"]
    BY <1>3 DEF TakeNone, Goto, entries
  <2>2. /\ Popped(0) = Elements(free) /\ Elements(free') = {}
        /\ DOMAIN free' = {}
    BY <2>1, ElementsPopAll
  <2>3. \A r \in Threads : Holds(r)' <=> Holds(r)
    BY <2>1, LabelSets DEF ShapeOK
  <2>4. \A v : Leased(v)' <=> Leased(v)
    BY <2>1, <2>3 DEF Leased
  <2>5. Below'
    BY <2>1, UidAssumption DEF Below, Uids
  <2>6. UidExclusive'
    BY <1>0, <2>1, <2>2, <2>3, <2>4 DEF UidExclusive
  <2> QED
    BY <2>5, <2>6
<1> QED
  BY <1>1, <1>2, <1>3

\* A uid passes from the creating thread to the entry it inserts, and from an
\* entry to the thread that removes it.
LEMMA EntrySteps ==
    ASSUME ShapeOK, LeaseInv, NEW t \in Threads,
           CreateInsert(t) \/ \E s \in Sandboxes : DeleteRemove(t, s)
    PROVE  UidExclusive' /\ Below'
<1>0. UidExclusive /\ Below /\ LocalsOK
  BY DEF LeaseInv, RegistryOK, Below
<1>1. CASE CreateInsert(t)
  <2> DEFINE s == sbx[t]
  <2>1. /\ pc[t] = "confine" /\ pc' = [pc EXCEPT ![t] = "idle"]
        /\ uid' = [uid EXCEPT ![t] = NoUid]
        /\ map' = map \cup {s}
        /\ entryUid' = [entryUid EXCEPT ![s] = uid[t]]
        /\ free' = free /\ quarantined' = quarantined /\ next' = next
    BY <1>1 DEF CreateInsert, Return, Goto, pool
  <2>2. s \in Sandboxes \ map
    BY <1>0, <2>1 DEF LocalsOK
  <2> HIDE DEF s
  <2>3. /\ Holds(t) /\ ~Holds(t)'
        /\ \A r \in Threads : r # t => (Holds(r)' <=> Holds(r)) /\ uid'[r] = uid[r]
    BY <2>1, LabelSets DEF ShapeOK
  <2>4. /\ entryUid'[s] = uid[t]
        /\ \A r \in map : entryUid'[r] = entryUid[r]
    BY <2>1, <2>2 DEF ShapeOK
  <2>5. \A u : Leased(u)' => Leased(u)
    BY <2>1, <2>3, <2>4 DEF Leased
  <2>6. Below'
    BY <1>0, <2>1, <2>5 DEF Below
  <2>7. UidExclusive'
    BY <1>0, <2>1, <2>2, <2>3, <2>4, <2>5 DEF UidExclusive
  <2> QED
    BY <2>6, <2>7
<1>2. ASSUME NEW s \in Sandboxes, DeleteRemove(t, s)
      PROVE  UidExclusive' /\ Below'
  <2>1. /\ s \in map /\ map' = map \ {s}
        /\ pc[t] = "idle" /\ pc' = [pc EXCEPT ![t] = "mark"]
        /\ uid' = [uid EXCEPT ![t] = entryUid[s]]
        /\ free' = free /\ quarantined' = quarantined /\ next' = next
        /\ entryUid' = entryUid
    BY <1>2 DEF DeleteRemove, Goto, pool
  <2>2. /\ ~Holds(t) /\ Holds(t)' /\ uid'[t] = entryUid[s]
        /\ \A r \in Threads : r # t => (Holds(r)' <=> Holds(r)) /\ uid'[r] = uid[r]
    BY <2>1, LabelSets DEF ShapeOK
  <2>3. \A u : Leased(u)' => Leased(u)
    BY <2>1, <2>2 DEF Leased
  <2>4. Below'
    BY <1>0, <2>1, <2>3 DEF Below
  <2>5. UidExclusive'
    BY <1>0, <2>1, <2>2, <2>3 DEF UidExclusive
  <2> QED
    BY <2>4, <2>5
<1> QED
  BY <1>1, <1>2

\* The thread that settles a uid is its last holder: the uid goes to the free
\* list or into quarantine, and nobody holds it any more.
LEMMA SettleSteps ==
    ASSUME ShapeOK, LeaseInv, NEW t \in Threads,
           CreateFailUid(t) \/ DeleteRelease(t) \/ DeleteQuarantine(t)
    PROVE  UidExclusive' /\ Below'
<1>1. /\ UidExclusive /\ Below /\ LocalsOK
      /\ \A i, j \in DOMAIN free : free[i] = free[j] => i = j
  BY DEF LeaseInv, RegistryOK, UidExclusive, Below
<1>2. /\ pc[t] \in {"fail_uid", "settle"} /\ pc' = [pc EXCEPT ![t] = "idle"]
      /\ uid' = [uid EXCEPT ![t] = NoUid]
      /\ map' = map /\ entryUid' = entryUid /\ next' = next
      /\ \/ free' = Append(free, uid[t]) /\ quarantined' = quarantined
         \/ quarantined' = quarantined \cup {uid[t]} /\ free' = free
  BY DEF CreateFailUid, DeleteRelease, DeleteQuarantine, Return, Goto, entries
<1>3. uid[t] \in Uids
  BY <1>1, <1>2 DEF LocalsOK, CreatorLabels, DeleterLabels
<1>4. /\ Holds(t) /\ ~Holds(t)'
      /\ \A r \in Threads : r # t => (Holds(r)' <=> Holds(r)) /\ uid'[r] = uid[r]
  BY <1>2, LabelSets DEF ShapeOK
<1>5. \A u : Leased(u)' => Leased(u) /\ u # uid[t]
  BY <1>1, <1>2, <1>4 DEF Leased, UidExclusive
<1>6. Leased(uid[t])
  BY <1>4 DEF Leased
<1>7. /\ uid[t] \notin Elements(free)
      /\ \A u \in Elements(free) : ~Leased(u) /\ u \notin quarantined
      /\ uid[t] \notin quarantined
  BY <1>1, <1>6 DEF UidExclusive
<1>8. /\ \A i, j \in DOMAIN free' : free'[i] = free'[j] => i = j
      /\ \/ Elements(free') = Elements(free) \cup {uid[t]} /\ quarantined' = quarantined
         \/ quarantined' = quarantined \cup {uid[t]} /\ free' = free
  BY <1>1, <1>2, <1>3, <1>7, ElementsAppend, AppendDistinct
<1>9. Below'
  BY <1>1, <1>2, <1>3, <1>5, <1>6, <1>8 DEF Below
<1>10. UidExclusive'
  <2>1. /\ \A s1, s2 \in map' : entryUid'[s1] = entryUid'[s2] => s1 = s2
        /\ \A r \in Threads : Holds(r)' => \A s \in map' : entryUid'[s] # uid'[r]
        /\ \A r1, r2 \in Threads :
             Holds(r1)' /\ Holds(r2)' /\ uid'[r1] = uid'[r2] => r1 = r2
    BY <1>1, <1>2, <1>4 DEF UidExclusive
  <2>2. /\ \A u \in Elements(free') : ~Leased(u)' /\ u \notin quarantined'
        /\ \A u \in quarantined' : ~Leased(u)'
    BY <1>1, <1>5, <1>7, <1>8 DEF UidExclusive
  <2> QED
    BY <1>8, <2>1, <2>2 DEF UidExclusive
<1> QED
  BY <1>9, <1>10

\* Every step keeps one holder per uid.
LEMMA ExclusiveStep ==
    ASSUME ShapeOK, LeaseInv, [Next]_vars
    PROVE  UidExclusive' /\ Below'
<1>1. ASSUME NEW t \in Threads, Begin(t) \/ Step(t)
      PROVE  UidExclusive' /\ Below'
  BY <1>1, QuietSteps, TakeSteps, EntrySteps, SettleSteps
     DEF Begin, Step, CreateStep, DeleteStep, SpawnStep
<1>2. CASE Environment \/ UNCHANGED vars
  <2>1. /\ map' = map /\ free' = free /\ quarantined' = quarantined
        /\ next' = next /\ entryUid' = entryUid /\ uid' = uid /\ pc' = pc
    BY <1>2 DEF Environment, ProcExit, StrangerStart, StrangerExit, vars,
                pool, entries, locals
  <2>2. \A r \in Threads : Holds(r)' => Holds(r)
    BY <2>1 DEF Holds
  <2> QED
    BY <2>1, <2>2, QuietLease DEF LeaseInv, Below
<1> QED
  BY <1>1, <1>2 DEF Next

-----------------------------------------------------------------------------
(* Threads, entries and live processes *)

\* Steps of create keep threads and entries in agreement.
LEMMA CreateLocals ==
    ASSUME ShapeOK, LeaseInv, NEW t \in Threads,
           CreateStep(t) \/ CreateReserve(t)
    PROVE  LocalsOK'
<1> USE DEF LeaseInv, ShapeOK, LocalsOK, Goto, CreatorLabels, DeleterLabels,
            SpawnLabels, pool, entries, world
<1>1. CASE CreateReserve(t)
  BY <1>1, IdsAssumption DEF CreateReserve
<1>2. CASE CreateFull(t)
  BY <1>2, IdsAssumption DEF CreateFull, Return
<1>3. CASE TakeFreed(t)
  BY <1>3 DEF TakeFreed
<1>4. CASE TakeNew(t)
  <2>1. PICK u \in next .. (UidRange - 1) :
          /\ pc[t] = "take" /\ pc' = [pc EXCEPT ![t] = "build"]
          /\ uid' = [uid EXCEPT ![t] = u]
    BY <1>4 DEF TakeNew
  <2>2. u \in Uids
    BY <2>1, UidAssumption DEF Uids
  <2> QED
    BY <1>4, <2>1, <2>2 DEF TakeNew
<1>5. CASE TakeNone(t)
  BY <1>5 DEF TakeNone
<1>6. CASE CreateHome(t)
  BY <1>6, IdsAssumption DEF CreateHome, NewHome, Fresh
<1>7. CASE CreateHomeFails(t)
  BY <1>7, IdsAssumption DEF CreateHomeFails
<1>8. CASE CreateHomePartial(t)
  BY <1>8, IdsAssumption DEF CreateHomePartial, NewHome, Fresh
<1>9. CASE CreateInsert(t)
  BY <1>9, IdsAssumption DEF CreateInsert, Return
<1>10. CASE CreateRefuse(t)
  BY <1>10, IdsAssumption DEF CreateRefuse
<1>11. CASE CreateFailSlot(t)
  BY <1>11, IdsAssumption DEF CreateFailSlot
<1>12. CASE CreateFailUid(t)
  BY <1>12, IdsAssumption DEF CreateFailUid, Return
<1> QED
  BY <1>1, <1>2, <1>3, <1>4, <1>5, <1>6, <1>7, <1>8, <1>9, <1>10, <1>11, <1>12
     DEF CreateStep

\* Steps of delete keep threads and entries in agreement: the mutex makes sure
\* that no spawn is under way when the mark is set.
LEMMA DeleteLocals ==
    ASSUME ShapeOK, LeaseInv, NEW t \in Threads,
           DeleteStep(t) \/ \E s \in Sandboxes : DeleteRemove(t, s)
    PROVE  LocalsOK'
<1> USE DEF LeaseInv, ShapeOK, LocalsOK, Goto, CreatorLabels, DeleterLabels,
            SpawnLabels, pool, entries, world
<1>0. ASSUME NEW s \in Sandboxes, DeleteRemove(t, s)
      PROVE  LocalsOK'
  BY <1>0, IdsAssumption DEF DeleteRemove, RegistryOK
<1>1. CASE DeleteMark(t)
  <2>1. /\ pc[t] = "mark" /\ sbx[t] \in Sandboxes \ map
        /\ pc' = [pc EXCEPT ![t] = "slot"]
        /\ deleted' = deleted \cup {sbx[t]}
        /\ guard[sbx[t]] = NoThread
        /\ sbx' = sbx /\ uid' = uid /\ clean' = clean
        /\ map' = map /\ entryUid' = entryUid /\ guard' = guard /\ alive' = alive
    BY <1>1 DEF DeleteMark
  <2>2. \A r \in Threads : r # t /\ pc[r] \in DeleterLabels => sbx[r] # sbx[t]
    BY <2>1 DEF UidExclusive, Holds
  <2>3. \A r \in Threads : pc[r] \in {"fork", "unlock"} => sbx[r] # sbx[t]
    BY <2>1, IdsAssumption
  <2>4. \A r \in Threads : pc[r] = "confine" => sbx[r] # sbx[t]
    BY <2>1
  <2> QED
    BY <2>1, <2>2, <2>3, <2>4
<1>2. CASE DeleteFreeSlot(t)
  BY <1>2 DEF DeleteFreeSlot
<1>3. CASE SweepClear(t)
  <2>1. sbx[t] \notin alive
    BY <1>3 DEF SweepClear, Haunted, LiveUnder
  <2> QED
    BY <1>3, <2>1 DEF SweepClear
<1>4. CASE SweepKill(t)
  BY <1>4 DEF SweepKill
<1>5. CASE SweepGiveUp(t)
  BY <1>5 DEF SweepGiveUp
<1>6. CASE DeleteHome(t)
  BY <1>6 DEF DeleteHome
<1>7. CASE DeleteRelease(t)
  BY <1>7, IdsAssumption DEF DeleteRelease, Return
<1>8. CASE DeleteQuarantine(t)
  BY <1>8, IdsAssumption DEF DeleteQuarantine, Return
<1> QED
  BY <1>0, <1>1, <1>2, <1>3, <1>4, <1>5, <1>6, <1>7, <1>8
     DEF DeleteStep

\* Steps of spawn keep threads and entries in agreement.
LEMMA SpawnLocals ==
    ASSUME ShapeOK, LeaseInv, NEW t \in Threads,
           SpawnStep(t) \/ \E s \in Sandboxes : SpawnGet(t, s)
    PROVE  LocalsOK'
<1> USE DEF LeaseInv, ShapeOK, LocalsOK, Goto, CreatorLabels, DeleterLabels,
            SpawnLabels, pool, entries, world
<1>0. ASSUME NEW s \in Sandboxes, SpawnGet(t, s)
      PROVE  LocalsOK'
  BY <1>0, IdsAssumption DEF SpawnGet, RegistryOK
<1>1. CASE SpawnRefused(t)
  BY <1>1, IdsAssumption DEF SpawnRefused, Return
<1>2. CASE SpawnLock(t)
  BY <1>2, IdsAssumption DEF SpawnLock
<1>3. CASE SpawnFork(t)
  BY <1>3, IdsAssumption DEF SpawnFork
<1>4. CASE SpawnReturn(t)
  BY <1>4, IdsAssumption DEF SpawnReturn, Return
<1> QED
  BY <1>0, <1>1, <1>2, <1>3, <1>4
     DEF SpawnStep

\* So do the steps of the operating system.
LEMMA EnvironmentLocals ==
    ASSUME ShapeOK, LeaseInv, Environment \/ UNCHANGED vars
    PROVE  LocalsOK'
BY DEF LeaseInv, LocalsOK, Environment, ProcExit, StrangerStart, StrangerExit,
       vars, pool, entries, locals, CreatorLabels, DeleterLabels, SpawnLabels

\* Every step keeps the uid of a live process in the hands of its sandbox or
\* out of circulation.
LEMMA AliveStep ==
    ASSUME ShapeOK, LeaseInv, [Next]_vars
    PROVE  AliveAccounted'
<1> USE DEF LeaseInv, AliveAccounted, Goto, pool, entries, world, locals
<1>1. ASSUME NEW t \in Threads, CreateReserve(t) \/ CreateStep(t)
      PROVE  AliveAccounted'
  <2>1. CASE CreateInsert(t)
    BY <1>1, <2>1 DEF CreateInsert, Return, ShapeOK, LocalsOK, DeleterLabels
  <2>2. CASE ~CreateInsert(t)
    <3>1. /\ map' = map /\ entryUid' = entryUid /\ alive' = alive
          /\ quarantined \subseteq quarantined'
          /\ pc[t] \notin DeleterLabels
          /\ \A r \in Threads : r # t => pc'[r] = pc[r] /\ sbx'[r] = sbx[r]
      BY <1>1, <2>2
         DEF CreateStep, CreateReserve, CreateFull, TakeFreed, TakeNew, TakeNone,
             CreateHome, CreateHomeFails, CreateHomePartial, NewHome,
             CreateRefuse, CreateFailSlot, CreateFailUid, Return, ShapeOK,
             DeleterLabels
    <3> QED
      BY <3>1
  <2> QED
    BY <2>1, <2>2
<1>2. ASSUME NEW t \in Threads, NEW s \in Sandboxes, DeleteRemove(t, s)
      PROVE  AliveAccounted'
  BY <1>2 DEF DeleteRemove, ShapeOK, DeleterLabels
<1>3. ASSUME NEW t \in Threads, DeleteStep(t)
      PROVE  AliveAccounted'
  <2>1. CASE DeleteRelease(t)
    BY <2>1 DEF DeleteRelease, Return, ShapeOK, LocalsOK
  <2>2. CASE DeleteQuarantine(t)
    BY <2>2 DEF DeleteQuarantine, Return, ShapeOK, LocalsOK, DeleterLabels
  <2>3. CASE ~DeleteRelease(t) /\ ~DeleteQuarantine(t)
    <3>1. /\ map' = map /\ entryUid' = entryUid /\ alive' \subseteq alive
          /\ quarantined' = quarantined /\ sbx' = sbx
          /\ \A r \in Threads : pc[r] \in DeleterLabels => pc'[r] \in DeleterLabels
      BY <1>3, <2>3
         DEF DeleteStep, DeleteMark, DeleteFreeSlot, SweepClear, SweepKill,
             SweepGiveUp, DeleteHome, ShapeOK, DeleterLabels
    <3> QED
      BY <3>1
  <2> QED
    BY <2>1, <2>2, <2>3
<1>4. ASSUME NEW t \in Threads,
             SpawnStep(t) \/ \E s \in Sandboxes : SpawnGet(t, s)
      PROVE  AliveAccounted'
  <2>1. /\ map' = map /\ entryUid' = entryUid /\ quarantined' = quarantined
        /\ pc[t] \notin DeleterLabels
        /\ \A r \in Threads : r # t => pc'[r] = pc[r] /\ sbx'[r] = sbx[r]
    BY <1>4 DEF SpawnStep, SpawnGet, SpawnRefused, SpawnLock, SpawnFork, SpawnReturn,
                Return, ShapeOK, DeleterLabels
  <2>2. CASE SpawnFork(t)
    <3>1. alive' \subseteq alive \cup {sbx[t]}
      BY <2>2 DEF SpawnFork
    <3>2. /\ \/ sbx[t] \in map
             \/ \E r \in Threads : pc[r] = "mark" /\ sbx[r] = sbx[t]
          /\ entryUid[sbx[t]] \in Uids
      BY <2>2 DEF SpawnFork, LocalsOK, RegistryOK, SpawnLabels, DeleterLabels
    <3> QED
      BY <2>1, <3>1, <3>2 DEF DeleterLabels
  <2>3. CASE ~SpawnFork(t)
    <3>1. alive' = alive
      BY <1>4, <2>3 DEF SpawnStep, SpawnGet, SpawnRefused, SpawnLock, SpawnReturn
    <3> QED
      BY <2>1, <3>1
  <2> QED
    BY <2>2, <2>3
<1>5. CASE Environment \/ UNCHANGED vars
  BY <1>5 DEF Environment, ProcExit, StrangerStart, StrangerExit, vars
<1> QED
  BY <1>1, <1>2, <1>3, <1>4, <1>5 DEF Next, Begin, Step

\* Every step keeps registered entries unmarked and mutexes in the hands of
\* spawns.
LEMMA RegistryStep ==
    ASSUME ShapeOK, LeaseInv, [Next]_vars
    PROVE  RegistryOK'
<1> USE DEF LeaseInv, Goto, pool, entries, world, locals
<1> DEFINE EntriesOK == \A s \in map : entryUid[s] \in Uids /\ s \notin deleted
           GuardsOK == \A s \in Sandboxes : guard[s] # NoThread =>
                          pc[guard[s]] \in {"fork", "unlock"} /\ sbx[guard[s]] = s
<1>0. EntriesOK /\ GuardsOK
  BY DEF RegistryOK
<1>1. ASSUME NEW t \in Threads, CreateReserve(t) \/ CreateStep(t)
      PROVE  EntriesOK' /\ GuardsOK'
  <2>1. /\ guard' = guard
        /\ pc[t] \notin {"fork", "unlock"}
        /\ \A r \in Threads : r # t => pc'[r] = pc[r] /\ sbx'[r] = sbx[r]
    BY <1>1
       DEF CreateStep, CreateReserve, CreateFull, TakeFreed, TakeNew, TakeNone,
           CreateHome, CreateHomeFails, CreateHomePartial, NewHome, CreateInsert,
           CreateRefuse, CreateFailSlot, CreateFailUid, Return, ShapeOK
  <2>2. GuardsOK'
    BY <1>0, <2>1 DEF ShapeOK
  <2>3. CASE CreateInsert(t)
    <3>1. EntriesOK'
      BY <1>0, <2>3 DEF CreateInsert, Return, ShapeOK, LocalsOK, CreatorLabels
    <3> QED
      BY <2>2, <3>1
  <2>4. CASE ~CreateInsert(t)
    <3>1. map' = map /\ entryUid' = entryUid /\ deleted' \subseteq deleted
      BY <1>1, <2>4
         DEF CreateStep, CreateReserve, CreateFull, TakeFreed, TakeNew, TakeNone,
             CreateHome, CreateHomeFails, CreateHomePartial, NewHome,
             CreateRefuse, CreateFailSlot, CreateFailUid
    <3> QED
      BY <1>0, <2>2, <3>1
  <2> QED
    BY <2>3, <2>4
<1>2. ASSUME NEW t \in Threads,
             DeleteStep(t) \/ \E s \in Sandboxes : DeleteRemove(t, s)
      PROVE  EntriesOK' /\ GuardsOK'
  <2>1. /\ guard' = guard /\ entryUid' = entryUid /\ map' \subseteq map
        /\ pc[t] \notin {"fork", "unlock"}
        /\ \A r \in Threads : r # t => pc'[r] = pc[r] /\ sbx'[r] = sbx[r]
    BY <1>2
       DEF DeleteStep, DeleteRemove, DeleteMark, DeleteFreeSlot, SweepClear, SweepKill,
           SweepGiveUp, DeleteHome, DeleteRelease, DeleteQuarantine, Return, ShapeOK
  <2>2. GuardsOK'
    BY <1>0, <2>1 DEF ShapeOK
  <2>3. \A s \in map : s \in deleted' => s \in deleted
    <3>1. CASE DeleteMark(t)
      BY <3>1 DEF DeleteMark, LocalsOK, DeleterLabels
    <3>2. ASSUME ~DeleteMark(t) PROVE deleted' = deleted
      BY <1>2, <3>2
         DEF DeleteStep, DeleteRemove, DeleteFreeSlot, SweepClear, SweepKill,
             SweepGiveUp, DeleteHome, DeleteRelease, DeleteQuarantine
    <3> QED
      BY <3>1, <3>2
  <2>4. EntriesOK'
    BY <1>0, <2>1, <2>3
  <2> QED
    BY <2>2, <2>4
<1>3. ASSUME NEW t \in Threads,
             SpawnStep(t) \/ \E s \in Sandboxes : SpawnGet(t, s)
      PROVE  EntriesOK' /\ GuardsOK'
  <2>1. map' = map /\ entryUid' = entryUid /\ deleted' = deleted
    BY <1>3 DEF SpawnStep, SpawnGet, SpawnRefused, SpawnLock, SpawnFork, SpawnReturn
  <2>2. EntriesOK'
    BY <1>0, <2>1
  <2>3. GuardsOK'
    <3>1. ASSUME NEW s \in Sandboxes, SpawnGet(t, s) PROVE GuardsOK'
      BY <1>0, <3>1 DEF SpawnGet, ShapeOK
    <3>2. CASE SpawnRefused(t)
      BY <1>0, <3>2 DEF SpawnRefused, Return, ShapeOK
    <3>3. CASE SpawnLock(t)
      BY <1>0, <3>3 DEF SpawnLock, ShapeOK, LocalsOK, SpawnLabels
    <3>4. CASE SpawnFork(t)
      BY <1>0, <3>4 DEF SpawnFork, ShapeOK
    <3>5. CASE SpawnReturn(t)
      BY <1>0, <3>5 DEF SpawnReturn, Return, ShapeOK, LocalsOK, SpawnLabels
    <3> QED
      BY <1>3, <3>1, <3>2, <3>3, <3>4, <3>5 DEF SpawnStep
  <2> QED
    BY <2>2, <2>3
<1>4. ASSUME Environment \/ UNCHANGED vars
      PROVE  EntriesOK' /\ GuardsOK'
  <2>1. /\ map' = map /\ entryUid' = entryUid /\ deleted' = deleted
        /\ guard' = guard /\ pc' = pc /\ sbx' = sbx
    BY <1>4 DEF Environment, ProcExit, StrangerStart, StrangerExit, vars
  <2> QED
    BY <1>0, <2>1
<1>5. EntriesOK' /\ GuardsOK'
  BY <1>1, <1>2, <1>3, <1>4 DEF Next, Begin, Step
<1>6. Below'
  BY ExclusiveStep
<1> QED
  BY <1>5, <1>6 DEF RegistryOK, Below

-----------------------------------------------------------------------------
(* The theorems about uids *)

\* The strengthened invariant: types, and the lease discipline.
PoolInv == ShapeOK /\ LeaseInv

\* It holds when the server starts.
LEMMA PoolInvInit == Init => PoolInv
<1> SUFFICES ASSUME Init PROVE PoolInv
  OBVIOUS
<1>1. ShapeOK
  BY UidAssumption, SweepAssumption, EmptySeq DEF Init, ShapeOK, Labels
<1>2. \A t \in Threads : pc[t] = "idle" /\ sbx[t] = NoSandbox
  BY DEF Init
<1>3. Elements(free) = {} /\ DOMAIN free = {}
  BY DEF Init, Elements
<1>4. \A u : ~Leased(u)
  BY <1>2, LabelSets DEF Init, Leased
<1>5. UidExclusive
  BY <1>2, <1>3, <1>4, LabelSets DEF Init, UidExclusive
<1>6. LocalsOK
  BY <1>2 DEF LocalsOK, CreatorLabels, DeleterLabels, SpawnLabels
<1>7. AliveAccounted /\ RegistryOK
  BY <1>3, <1>4 DEF Init, AliveAccounted, RegistryOK
<1> QED
  BY <1>1, <1>5, <1>6, <1>7 DEF PoolInv, LeaseInv

\* Every step keeps it.
LEMMA PoolInvStep == PoolInv /\ [Next]_vars => PoolInv'
<1> SUFFICES ASSUME ShapeOK, LeaseInv, [Next]_vars PROVE PoolInv'
  BY DEF PoolInv
<1>1. LocalsOK
  BY DEF LeaseInv
<1>2. ShapeOK'
  <2>1. CASE UNCHANGED vars
    BY <2>1 DEF ShapeOK, vars
  <2> QED
    BY <1>1, <2>1, CreateShape, DeleteShape, SpawnShape DEF Next, Begin, Step
<1>3. LocalsOK'
  BY CreateLocals, DeleteLocals, SpawnLocals, EnvironmentLocals DEF Next, Begin, Step
<1> QED
  BY <1>2, <1>3, ExclusiveStep, AliveStep, RegistryStep DEF PoolInv, LeaseInv

\* Types and lease discipline in every reachable state, for every number of
\* threads, ids, uids and slots.
THEOREM PoolInvariant == Spec => []PoolInv
  BY PoolInvInit, PoolInvStep, PTL DEF Spec

\* What one inductive invariant gives: a uid has one holder, however creates,
\* deletes and spawns interleave.
THEOREM UidsExclusive == Spec => []UidExclusive
<1>1. PoolInv => UidExclusive
  BY DEF PoolInv, LeaseInv
<1> QED
  BY <1>1, PoolInvariant, PTL

\* The strengthening itself is an invariant.
THEOREM LeaseInvariant == Spec => []LeaseInv
<1>1. PoolInv => LeaseInv
  BY DEF PoolInv
<1> QED
  BY <1>1, PoolInvariant, PTL

\* The one who answers for a live process's uid is its own sandbox, the delete of
\* its own sandbox, or quarantine.
LEMMA LiveUidHolders ==
    ASSUME PoolInv
    PROVE  NoInheritedProcesses
<1> SUFFICES ASSUME ShapeOK, UidExclusive, LocalsOK, AliveAccounted, NEW s \in alive
             PROVE  /\ entryUid[s] \notin Elements(free)
                    /\ \A r \in map : entryUid[r] = entryUid[s] => r = s
                    /\ \A t \in Threads : Holds(t) /\ uid[t] = entryUid[s]
                         => sbx[t] = s /\ pc[t] \in DeleterLabels
  BY DEF PoolInv, LeaseInv, NoInheritedProcesses
<1>1. CASE s \in map
  BY <1>1 DEF UidExclusive, Leased
<1>2. ASSUME NEW t \in Threads, pc[t] \in DeleterLabels, sbx[t] = s
      PROVE  /\ entryUid[s] \notin Elements(free)
             /\ \A r \in map : entryUid[r] = entryUid[s] => r = s
             /\ \A r \in Threads : Holds(r) /\ uid[r] = entryUid[s]
                  => sbx[r] = s /\ pc[r] \in DeleterLabels
  <2>1. uid[t] = entryUid[s] /\ Holds(t)
    BY <1>2 DEF LocalsOK, Holds
  <2> QED
    BY <1>2, <2>1 DEF UidExclusive, Leased
<1>3. CASE entryUid[s] \in quarantined
  BY <1>3 DEF UidExclusive, Leased
<1> QED
  BY <1>1, <1>2, <1>3 DEF AliveAccounted

\* A live process never shares its uid with another sandbox, with a create or
\* with the free list.
THEOREM ProcessesNotInherited == Spec => []NoInheritedProcesses
  BY LiveUidHolders, PoolInvariant, PTL

\* No process starts in a sandbox after its delete passed the mark, whatever
\* request still holds the entry.
THEOREM SpawnsStopAtMark == Spec => NoSpawnAfterMark
<1>1. PoolInv /\ [Next]_vars
        => [\A s \in Sandboxes : s \in alive' /\ s \notin alive => s \notin deleted]_vars
  <2> SUFFICES ASSUME LocalsOK, Next,
                      NEW s \in Sandboxes, s \in alive', s \notin alive
               PROVE  s \notin deleted
    BY DEF PoolInv, LeaseInv
  <2>1. PICK t \in Threads : SpawnFork(t)
    BY DEF Next, Begin, Step, CreateStep, DeleteStep, SpawnStep, Environment,
           CreateReserve, CreateFull, TakeFreed, TakeNew, TakeNone, CreateHome,
           CreateHomeFails, CreateHomePartial, CreateInsert, CreateRefuse,
           CreateFailSlot, CreateFailUid, DeleteRemove, DeleteMark, DeleteFreeSlot,
           SweepClear, SweepKill, SweepGiveUp, DeleteHome, DeleteRelease,
           DeleteQuarantine, SpawnGet, SpawnRefused, SpawnLock, SpawnReturn,
           ProcExit, StrangerStart, StrangerExit, world
  <2>2. s = sbx[t] /\ pc[t] = "fork"
    BY <2>1 DEF SpawnFork, Goto
  <2> QED
    BY <2>2 DEF LocalsOK
<1> QED
  BY <1>1, PoolInvariant, PTL DEF Spec, NoSpawnAfterMark

-----------------------------------------------------------------------------
(* The slot counter: it is exact, it never goes below zero, and the host is *)
(* never over-committed                                                     *)

\* The counter is exact and the slots fit; with this, types follow.
SlotsInv == ReservedExact /\ CapacityRespected

\* Sizes are natural numbers.
LEMMA SlotSizes ==
    ASSUME ShapeOK
    PROVE  /\ IsFiniteSet(map) /\ Cardinality(map) \in Nat
           /\ IsFiniteSet(SlotThreads) /\ Cardinality(SlotThreads) \in Nat
           /\ IsFiniteSet(UndoThreads) /\ Cardinality(UndoThreads) \in Nat
<1>1. map \subseteq Sandboxes
  BY DEF ShapeOK
<1>2. SlotThreads \subseteq Threads /\ UndoThreads \subseteq Threads
  BY DEF SlotThreads, UndoThreads
<1>3. IsFiniteSet(map) /\ IsFiniteSet(SlotThreads) /\ IsFiniteSet(UndoThreads)
  BY <1>1, <1>2, FiniteAssumption, FS_Subset
<1> QED
  BY <1>3, FS_CardinalityType

\* Where a step of t takes its label decides how it changes the two sets.
LEMMA SlotMoves ==
    ASSUME ShapeOK, NEW t \in Threads,
           \A r \in Threads : r # t => pc'[r] = pc[r]
    PROVE  /\ SlotThreads' = IF pc'[t] \in SlotLabels THEN SlotThreads \cup {t}
                             ELSE SlotThreads \ {t}
           /\ UndoThreads' = IF pc'[t] = "undo" THEN UndoThreads \cup {t}
                             ELSE UndoThreads \ {t}
<1>2. SlotThreads' = IF pc'[t] \in SlotLabels THEN SlotThreads \cup {t}
                     ELSE SlotThreads \ {t}
  BY DEF SlotThreads
<1>3. UndoThreads' = IF pc'[t] = "undo" THEN UndoThreads \cup {t}
                     ELSE UndoThreads \ {t}
  BY DEF UndoThreads
<1> QED
  BY <1>2, <1>3

\* A step of t from one label to another changes the sizes by the difference.
LEMMA SlotCounts ==
    ASSUME ShapeOK, NEW t \in Threads,
           \A r \in Threads : r # t => pc'[r] = pc[r]
    PROVE  /\ Cardinality(SlotThreads)' =
                Cardinality(SlotThreads) + (IF pc'[t] \in SlotLabels THEN 1 ELSE 0)
                                         - (IF pc[t] \in SlotLabels THEN 1 ELSE 0)
           /\ Cardinality(UndoThreads)' =
                Cardinality(UndoThreads) + (IF pc'[t] = "undo" THEN 1 ELSE 0)
                                         - (IF pc[t] = "undo" THEN 1 ELSE 0)
<1>0. /\ SlotThreads' = IF pc'[t] \in SlotLabels THEN SlotThreads \cup {t}
                        ELSE SlotThreads \ {t}
      /\ UndoThreads' = IF pc'[t] = "undo" THEN UndoThreads \cup {t}
                        ELSE UndoThreads \ {t}
  BY SlotMoves
<1>1. /\ IsFiniteSet(SlotThreads) /\ Cardinality(SlotThreads) \in Nat
      /\ IsFiniteSet(UndoThreads) /\ Cardinality(UndoThreads) \in Nat
  BY SlotSizes
<1>2. /\ t \in SlotThreads <=> pc[t] \in SlotLabels
      /\ t \in UndoThreads <=> pc[t] = "undo"
  BY DEF SlotThreads, UndoThreads
<1>3. Cardinality(SlotThreads') =
        Cardinality(SlotThreads) + (IF pc'[t] \in SlotLabels THEN 1 ELSE 0)
                                 - (IF pc[t] \in SlotLabels THEN 1 ELSE 0)
  <2>1. /\ Cardinality(SlotThreads \cup {t}) =
             IF t \in SlotThreads THEN Cardinality(SlotThreads)
             ELSE Cardinality(SlotThreads) + 1
        /\ Cardinality(SlotThreads \ {t}) =
             IF t \in SlotThreads THEN Cardinality(SlotThreads) - 1
             ELSE Cardinality(SlotThreads)
    BY <1>1, FS_AddElement, FS_RemoveElement
  <2> QED
    BY <1>0, <1>1, <1>2, <2>1
<1>4. Cardinality(UndoThreads') =
        Cardinality(UndoThreads) + (IF pc'[t] = "undo" THEN 1 ELSE 0)
                                 - (IF pc[t] = "undo" THEN 1 ELSE 0)
  <2>1. /\ Cardinality(UndoThreads \cup {t}) =
             IF t \in UndoThreads THEN Cardinality(UndoThreads)
             ELSE Cardinality(UndoThreads) + 1
        /\ Cardinality(UndoThreads \ {t}) =
             IF t \in UndoThreads THEN Cardinality(UndoThreads) - 1
             ELSE Cardinality(UndoThreads)
    BY <1>1, FS_AddElement, FS_RemoveElement
  <2> QED
    BY <1>0, <1>1, <1>2, <2>1
<1> QED
  BY <1>3, <1>4

\* A step that moves no thread across the boundaries of the two sets.
LEMMA QuietSlots ==
    ASSUME SlotsInv, map' = map, reserved' = reserved,
           \A r \in Threads : /\ pc'[r] \in SlotLabels <=> pc[r] \in SlotLabels
                              /\ pc'[r] = "undo" <=> pc[r] = "undo"
    PROVE  SlotsInv'
<1>1. SlotThreads' = SlotThreads /\ UndoThreads' = UndoThreads
  BY DEF SlotThreads, UndoThreads
<1> QED
  BY <1>1 DEF SlotsInv, ReservedExact, CapacityRespected, SlotsInUse

\* Every step keeps the counter exact and the slots within capacity.
LEMMA SlotsStep ==
    ASSUME PoolInv, SlotsInv, [Next]_vars
    PROVE  SlotsInv'
<1>0. /\ ShapeOK /\ LocalsOK
      /\ reserved \in Int /\ Capacity \in Nat
      /\ pc \in [Threads -> Labels]
  BY CapacityAssumption DEF PoolInv, LeaseInv, ShapeOK
<1>1. /\ IsFiniteSet(map) /\ Cardinality(map) \in Nat
      /\ Cardinality(SlotThreads) \in Nat
      /\ Cardinality(UndoThreads) \in Nat
  BY <1>0, SlotSizes
<1>2. /\ reserved = Cardinality(map) + Cardinality(SlotThreads) + Cardinality(UndoThreads)
      /\ Cardinality(map) + Cardinality(SlotThreads) <= Capacity
  BY DEF SlotsInv, ReservedExact, CapacityRespected, SlotsInUse
<1>l. /\ "take" \in SlotLabels /\ "confine" \in SlotLabels /\ "mark" \in SlotLabels
      /\ "idle" \notin SlotLabels /\ "undo" \notin SlotLabels
      /\ "sweep" \notin SlotLabels /\ "fail_uid" \notin SlotLabels
  BY DEF SlotLabels
<1> DEFINE Exact == /\ reserved' = Cardinality(map)' + Cardinality(SlotThreads)'
                                   + Cardinality(UndoThreads)'
                    /\ Cardinality(map)' + Cardinality(SlotThreads)' <= Capacity
<1>3. Exact => SlotsInv'
  BY DEF SlotsInv, ReservedExact, CapacityRespected, SlotsInUse
<1>4. ASSUME NEW t \in Threads, CreateReserve(t)
      PROVE  SlotsInv'
  <2>1. CASE reserved >= Capacity
    <3>1. /\ pc[t] = "idle" /\ pc' = [pc EXCEPT ![t] = "undo"]
          /\ reserved' = reserved + 1 /\ map' = map
      BY <1>4, <2>1 DEF CreateReserve, Goto, entries
    <3>2. /\ Cardinality(SlotThreads)' = Cardinality(SlotThreads)
          /\ Cardinality(UndoThreads)' = Cardinality(UndoThreads) + 1
      <4>1. pc'[t] = "undo" /\ \A r \in Threads : r # t => pc'[r] = pc[r]
        BY <1>0, <3>1
      <4> QED
        BY <1>0, <1>1, <1>l, <3>1, <4>1, SlotCounts
    <3> QED
      BY <1>0, <1>1, <1>2, <1>3, <3>1, <3>2
  <2>2. CASE ~(reserved >= Capacity)
    <3>1. /\ pc[t] = "idle" /\ pc' = [pc EXCEPT ![t] = "take"]
          /\ reserved' = reserved + 1 /\ map' = map
      BY <1>4, <2>2 DEF CreateReserve, Goto, entries
    <3>2. /\ Cardinality(SlotThreads)' = Cardinality(SlotThreads) + 1
          /\ Cardinality(UndoThreads)' = Cardinality(UndoThreads)
      <4>1. pc'[t] = "take" /\ \A r \in Threads : r # t => pc'[r] = pc[r]
        BY <1>0, <3>1
      <4> QED
        BY <1>0, <1>1, <1>l, <3>1, <4>1, SlotCounts
    <3> QED
      BY <1>0, <1>1, <1>2, <1>3, <2>2, <3>1, <3>2
  <2> QED
    BY <2>1, <2>2
<1>5. ASSUME NEW t \in Threads, CreateFull(t)
      PROVE  SlotsInv'
  <2>1. /\ pc[t] = "undo" /\ pc' = [pc EXCEPT ![t] = "idle"]
        /\ reserved' = reserved - 1 /\ map' = map
    BY <1>5 DEF CreateFull, Return, Goto, entries
  <2>2. /\ Cardinality(SlotThreads)' = Cardinality(SlotThreads)
        /\ Cardinality(UndoThreads)' = Cardinality(UndoThreads) - 1
    <3>1. pc'[t] = "idle" /\ \A r \in Threads : r # t => pc'[r] = pc[r]
      BY <1>0, <2>1
    <3> QED
      BY <1>0, <1>1, <1>l, <2>1, <3>1, SlotCounts
  <2> QED
    BY <1>0, <1>1, <1>2, <1>3, <2>1, <2>2
<1>6. ASSUME NEW t \in Threads, TakeNone(t)
      PROVE  SlotsInv'
  <2>1. /\ pc[t] = "take" /\ pc' = [pc EXCEPT ![t] = "undo"]
        /\ reserved' = reserved /\ map' = map
    BY <1>6 DEF TakeNone, Goto, entries
  <2>2. /\ Cardinality(SlotThreads)' = Cardinality(SlotThreads) - 1
        /\ Cardinality(UndoThreads)' = Cardinality(UndoThreads) + 1
    <3>1. pc'[t] = "undo" /\ \A r \in Threads : r # t => pc'[r] = pc[r]
      BY <1>0, <2>1
    <3> QED
      BY <1>0, <1>1, <1>l, <2>1, <3>1, SlotCounts
  <2> QED
    BY <1>0, <1>1, <1>2, <1>3, <2>1, <2>2
<1>7. ASSUME NEW t \in Threads, CreateInsert(t)
      PROVE  SlotsInv'
  <2>1. /\ pc[t] = "confine" /\ pc' = [pc EXCEPT ![t] = "idle"]
        /\ reserved' = reserved /\ map' = map \cup {sbx[t]}
    BY <1>7 DEF CreateInsert, Return, Goto
  <2>2. sbx[t] \notin map
    BY <1>0, <2>1 DEF LocalsOK
  <2>3. Cardinality(map') = Cardinality(map) + 1
    BY <1>1, <2>1, <2>2, FS_AddElement
  <2>4. /\ Cardinality(SlotThreads)' = Cardinality(SlotThreads) - 1
        /\ Cardinality(UndoThreads)' = Cardinality(UndoThreads)
    <3>1. pc'[t] = "idle" /\ \A r \in Threads : r # t => pc'[r] = pc[r]
      BY <1>0, <2>1
    <3> QED
      BY <1>0, <1>1, <1>l, <2>1, <3>1, SlotCounts
  <2> QED
    BY <1>0, <1>1, <1>2, <1>3, <2>1, <2>3, <2>4
<1>8. ASSUME NEW t \in Threads, CreateFailSlot(t) \/ DeleteFreeSlot(t)
      PROVE  SlotsInv'
  <2>1. PICK l \in {"fail_uid", "sweep"} :
          /\ pc[t] \in SlotLabels /\ pc' = [pc EXCEPT ![t] = l]
          /\ reserved' = reserved - 1 /\ map' = map
    BY <1>8 DEF CreateFailSlot, DeleteFreeSlot, Goto, entries, SlotLabels
  <2>2. /\ Cardinality(SlotThreads)' = Cardinality(SlotThreads) - 1
        /\ Cardinality(UndoThreads)' = Cardinality(UndoThreads)
    <3>1. pc'[t] = l /\ \A r \in Threads : r # t => pc'[r] = pc[r]
      BY <1>0, <2>1
    <3> QED
      BY <1>0, <1>1, <1>l, <2>1, <3>1, SlotCounts
  <2> QED
    BY <1>0, <1>1, <1>2, <1>3, <2>1, <2>2
<1>9. ASSUME NEW t \in Threads, NEW s \in Sandboxes, DeleteRemove(t, s)
      PROVE  SlotsInv'
  <2>1. /\ pc[t] = "idle" /\ pc' = [pc EXCEPT ![t] = "mark"]
        /\ reserved' = reserved /\ s \in map /\ map' = map \ {s}
    BY <1>9 DEF DeleteRemove, Goto
  <2>2. Cardinality(map') = Cardinality(map) - 1
    BY <1>1, <2>1, FS_RemoveElement
  <2>3. /\ Cardinality(SlotThreads)' = Cardinality(SlotThreads) + 1
        /\ Cardinality(UndoThreads)' = Cardinality(UndoThreads)
    <3>1. pc'[t] = "mark" /\ \A r \in Threads : r # t => pc'[r] = pc[r]
      BY <1>0, <2>1
    <3> QED
      BY <1>0, <1>1, <1>l, <2>1, <3>1, SlotCounts
  <2> QED
    BY <1>0, <1>1, <1>2, <1>3, <2>1, <2>2, <2>3
<1>10. ASSUME NEW t \in Threads,
              \/ TakeFreed(t) \/ TakeNew(t)
              \/ CreateHome(t) \/ CreateHomeFails(t) \/ CreateHomePartial(t)
              \/ CreateRefuse(t) \/ CreateFailUid(t)
       PROVE  SlotsInv'
  <2>1. /\ map' = map /\ reserved' = reserved
        /\ \A r \in Threads : /\ pc'[r] \in SlotLabels <=> pc[r] \in SlotLabels
                              /\ pc'[r] = "undo" <=> pc[r] = "undo"
    BY <1>0, <1>10
       DEF TakeFreed, TakeNew, CreateHome, CreateHomeFails, CreateHomePartial,
           CreateRefuse, CreateFailUid, Return, Goto, entries, SlotLabels
  <2> QED
    BY <2>1, QuietSlots
<1>11. ASSUME NEW t \in Threads,
              \/ DeleteMark(t) \/ SweepClear(t) \/ SweepKill(t) \/ SweepGiveUp(t)
              \/ DeleteHome(t) \/ DeleteRelease(t) \/ DeleteQuarantine(t)
       PROVE  SlotsInv'
  <2>1. /\ map' = map /\ reserved' = reserved
        /\ \A r \in Threads : /\ pc'[r] \in SlotLabels <=> pc[r] \in SlotLabels
                              /\ pc'[r] = "undo" <=> pc[r] = "undo"
    BY <1>0, <1>11
       DEF DeleteMark, SweepClear, SweepKill, SweepGiveUp, DeleteHome, DeleteRelease,
           DeleteQuarantine, Return, Goto, entries, SlotLabels
  <2> QED
    BY <2>1, QuietSlots
<1>12. ASSUME NEW t \in Threads,
              SpawnStep(t) \/ \E s \in Sandboxes : SpawnGet(t, s)
       PROVE  SlotsInv'
  <2>1. /\ map' = map /\ reserved' = reserved
        /\ \A r \in Threads : /\ pc'[r] \in SlotLabels <=> pc[r] \in SlotLabels
                              /\ pc'[r] = "undo" <=> pc[r] = "undo"
    BY <1>0, <1>12
       DEF SpawnStep, SpawnGet, SpawnRefused, SpawnLock, SpawnFork, SpawnReturn,
           Return, Goto, entries, SlotLabels
  <2> QED
    BY <2>1, QuietSlots
<1>13. CASE Environment \/ UNCHANGED vars
  <2>1. map' = map /\ reserved' = reserved /\ pc' = pc
    BY <1>13 DEF Environment, ProcExit, StrangerStart, StrangerExit, vars,
                 entries, locals
  <2> QED
    BY <2>1, QuietSlots
<1> QED
  BY <1>4, <1>5, <1>6, <1>7, <1>8, <1>9, <1>10, <1>11, <1>12, <1>13
     DEF Next, Begin, Step, CreateStep, DeleteStep

\* The counter is exact and the slots fit in every reachable state.
LEMMA SlotsInvariant == Spec => []SlotsInv
<1>1. Init => SlotsInv
  <2> SUFFICES ASSUME Init PROVE SlotsInv
    OBVIOUS
  <2>1. map = {} /\ SlotThreads = {} /\ UndoThreads = {} /\ reserved = 0
    BY DEF Init, SlotThreads, UndoThreads, SlotLabels
  <2> QED
    BY <2>1, FS_EmptySet, CapacityAssumption
       DEF SlotsInv, ReservedExact, CapacityRespected, SlotsInUse
<1>2. PoolInv /\ SlotsInv /\ [Next]_vars => SlotsInv'
  BY SlotsStep
<1> QED
  BY <1>1, <1>2, PoolInvariant, PTL DEF Spec

\* Every error path of create and delete gives back exactly the slot it took.
THEOREM SlotsExact == Spec => []ReservedExact
<1>1. SlotsInv => ReservedExact
  BY DEF SlotsInv
<1> QED
  BY <1>1, SlotsInvariant, PTL

\* Concurrent creates never over-commit the host.
THEOREM CapacityHolds == Spec => []CapacityRespected
<1>1. SlotsInv => CapacityRespected
  BY DEF SlotsInv
<1> QED
  BY <1>1, SlotsInvariant, PTL

\* Types, including that the unsigned counter does not wrap below zero.
THEOREM TypesHold == Spec => []TypeOK
<1>1. PoolInv /\ SlotsInv => TypeOK
  <2> SUFFICES ASSUME PoolInv, SlotsInv PROVE TypeOK
    OBVIOUS
  <2>1. ShapeOK
    BY DEF PoolInv
  <2>2. reserved >= 0
    BY <2>1, SlotSizes DEF SlotsInv, ReservedExact, SlotsInUse
  <2> QED
    BY <2>1, <2>2 DEF TypeOK
<1> QED
  BY <1>1, PoolInvariant, SlotsInvariant, PTL

-----------------------------------------------------------------------------
(* The registry implements the lease discipline *)

\* The abstract status of a uid, before and after a step.
LEMMA LeaseStatus ==
    ASSUME NEW u \in Uids
    PROVE  /\ leaseStatus[u] = "retired" <=> u \in quarantined
           /\ leaseStatus[u] = "leased" <=> u \notin quarantined /\ Leased(u)
           /\ leaseStatus[u] = "available" <=> u \notin quarantined /\ ~Leased(u)
           /\ leaseStatus'[u] = IF u \in quarantined' THEN "retired"
                                ELSE IF Leased(u)' THEN "leased" ELSE "available"
BY DEF leaseStatus

\* A step that changes no holder, no quarantine and no live uid is a stutter of
\* UidLease.
LEMMA LeaseStutter ==
    ASSUME quarantined' = quarantined, leaseLive' = leaseLive,
           \A u \in Uids : Leased(u)' <=> Leased(u)
    PROVE  UNCHANGED Lease!leaseVars
<1>1. leaseStatus' = leaseStatus
  BY DEF leaseStatus
<1> QED
  BY <1>1 DEF Lease!leaseVars

\* A uid without a holder gets one, and others without a holder are given up.
LEMMA LeaseGrant ==
    ASSUME NEW u \in Uids, NEW R \in SUBSET Uids,
           u \notin quarantined, ~Leased(u), u \notin leaseLive, u \notin R,
           \A v \in R : v \notin quarantined /\ ~Leased(v),
           quarantined' = quarantined \cup R, leaseLive' = leaseLive,
           \A v \in Uids : Leased(v)' <=> Leased(v) \/ v = u
    PROVE  Lease!LeaseNext
<1>1. /\ leaseStatus[u] = "available"
      /\ \A v \in R : leaseStatus[v] = "available"
  BY LeaseStatus
<1>2. leaseStatus' = [v \in Uids |-> IF v = u THEN "leased"
                                     ELSE IF v \in R THEN "retired" ELSE leaseStatus[v]]
  BY DEF leaseStatus
<1>3. Lease!Grant(u, R)
  BY <1>1, <1>2 DEF Lease!Grant, Lease!Retiring
<1> QED
  BY <1>3 DEF Lease!LeaseNext

\* Uids without a holder are given up and nothing is handed out.
LEMMA LeaseGiveUp ==
    ASSUME NEW R \in SUBSET Uids,
           \A v \in R : v \notin quarantined /\ ~Leased(v),
           quarantined' = quarantined \cup R, leaseLive' = leaseLive,
           \A v \in Uids : Leased(v)' <=> Leased(v)
    PROVE  Lease!LeaseNext
<1>1. \A v \in R : leaseStatus[v] = "available"
  BY LeaseStatus
<1>2. leaseStatus' = [v \in Uids |-> IF v \in R THEN "retired" ELSE leaseStatus[v]]
  BY DEF leaseStatus
<1>3. Lease!GiveUp(R)
  BY <1>1, <1>2 DEF Lease!GiveUp, Lease!Retiring
<1> QED
  BY <1>3 DEF Lease!LeaseNext

\* The last holder of a uid lets go of it: back to the pool when nothing runs
\* under it, into quarantine otherwise.
LEMMA LeaseEnd ==
    ASSUME NEW u \in Uids, u \notin quarantined, Leased(u),
           \A v \in Uids : Leased(v)' <=> Leased(v) /\ v # u,
           leaseLive' = leaseLive,
           \/ quarantined' = quarantined /\ u \notin leaseLive
           \/ quarantined' = quarantined \cup {u}
    PROVE  Lease!LeaseNext
<1>1. leaseStatus[u] = "leased"
  BY LeaseStatus
<1>2. CASE quarantined' = quarantined /\ u \notin leaseLive
  <2>1. leaseStatus' = [leaseStatus EXCEPT ![u] = "available"]
    BY <1>2 DEF leaseStatus
  <2>2. Lease!GiveBack(u)
    BY <1>1, <1>2, <2>1 DEF Lease!GiveBack
  <2> QED
    BY <2>2 DEF Lease!LeaseNext
<1>3. CASE quarantined' = quarantined \cup {u}
  <2>1. leaseStatus' = [leaseStatus EXCEPT ![u] = "retired"]
    BY <1>3 DEF leaseStatus
  <2>2. Lease!Retire(u)
    BY <1>1, <2>1 DEF Lease!Retire
  <2> QED
    BY <2>2 DEF Lease!LeaseNext
<1> QED
  BY <1>2, <1>3

\* Processes die under one uid: the last of them, or not.
LEMMA LeaseDeaths ==
    ASSUME NEW u \in Uids, NEW dead \in SUBSET LiveUnder(u),
           alive' = alive \ dead, entryUid' = entryUid, quarantined' = quarantined,
           \A v \in Uids : Leased(v)' <=> Leased(v)
    PROVE  Lease!LeaseNext \/ UNCHANGED Lease!leaseVars
<1>1. leaseLive' \in {leaseLive, leaseLive \ {u}}
  BY DEF leaseLive, LiveUnder
<1>2. leaseStatus' = leaseStatus
  BY DEF leaseStatus
<1>3. CASE leaseLive' = leaseLive
  BY <1>2, <1>3 DEF Lease!leaseVars
<1>4. CASE leaseLive' # leaseLive
  <2>1. Lease!Die(u)
    BY <1>1, <1>2, <1>4 DEF Lease!Die
  <2> QED
    BY <2>1 DEF Lease!LeaseNext
<1> QED
  BY <1>3, <1>4

\* Steps that hand nothing out and take nothing back leave every holder, the
\* quarantine and the uid of every entry alone.
LEMMA QuietHolders ==
    ASSUME ShapeOK, NEW t \in Threads,
           \/ CreateReserve(t) \/ CreateFull(t)
           \/ CreateHome(t) \/ CreateHomeFails(t) \/ CreateHomePartial(t)
           \/ CreateRefuse(t) \/ CreateFailSlot(t)
           \/ DeleteMark(t) \/ DeleteFreeSlot(t)
           \/ SweepClear(t) \/ SweepKill(t) \/ SweepGiveUp(t) \/ DeleteHome(t)
           \/ \E s \in Sandboxes : SpawnGet(t, s)
           \/ SpawnRefused(t) \/ SpawnLock(t) \/ SpawnFork(t) \/ SpawnReturn(t)
    PROVE  /\ quarantined' = quarantined /\ entryUid' = entryUid
           /\ \A u : Leased(u)' <=> Leased(u)
<1>1. map' = map /\ quarantined' = quarantined /\ entryUid' = entryUid
  BY DEF CreateReserve, CreateFull, CreateHome, CreateHomeFails, CreateHomePartial,
         NewHome, CreateRefuse, CreateFailSlot, DeleteMark, DeleteFreeSlot,
         SweepClear, SweepKill, SweepGiveUp, DeleteHome, SpawnGet, SpawnRefused,
         SpawnLock, SpawnFork, SpawnReturn, pool, entries
<1>2. \A r \in Threads : /\ Holds(r)' <=> Holds(r)
                         /\ Holds(r) => uid'[r] = uid[r]
  BY LabelSets
     DEF ShapeOK, CreateReserve, CreateFull, CreateHome, CreateHomeFails,
         CreateHomePartial, CreateRefuse, CreateFailSlot, DeleteMark,
         DeleteFreeSlot, SweepClear, SweepKill, SweepGiveUp, DeleteHome,
         SpawnGet, SpawnRefused, SpawnLock, SpawnFork, SpawnReturn, Return, Goto
<1> QED
  BY <1>1, <1>2 DEF Leased

\* Of those, only a sweep and a fork change the uids with live processes: the
\* sweep under the uid it sweeps, the fork under a uid that is leased because
\* the mutex kept its sandbox from being marked.
LEMMA QuietLeaseSteps ==
    ASSUME PoolInv, NEW t \in Threads,
           \/ CreateReserve(t) \/ CreateFull(t)
           \/ CreateHome(t) \/ CreateHomeFails(t) \/ CreateHomePartial(t)
           \/ CreateRefuse(t) \/ CreateFailSlot(t)
           \/ DeleteMark(t) \/ DeleteFreeSlot(t)
           \/ SweepClear(t) \/ SweepKill(t) \/ SweepGiveUp(t) \/ DeleteHome(t)
           \/ \E s \in Sandboxes : SpawnGet(t, s)
           \/ SpawnRefused(t) \/ SpawnLock(t) \/ SpawnFork(t) \/ SpawnReturn(t)
    PROVE  Lease!LeaseNext \/ UNCHANGED Lease!leaseVars
<1>1. ShapeOK /\ LocalsOK /\ UidExclusive /\ RegistryOK
  BY DEF PoolInv, LeaseInv
<1>2. /\ quarantined' = quarantined /\ entryUid' = entryUid
      /\ \A u : Leased(u)' <=> Leased(u)
  BY <1>1, QuietHolders
<1>3. CASE SweepKill(t)
  <2>1. PICK dead \in SUBSET LiveUnder(uid[t]) : alive' = alive \ dead
    BY <1>3 DEF SweepKill
  <2>2. uid[t] \in Uids
    BY <1>1, <1>3 DEF SweepKill, LocalsOK, DeleterLabels
  <2> QED
    BY <1>2, <2>1, <2>2, LeaseDeaths
<1>4. CASE SpawnFork(t)
  <2> DEFINE s == sbx[t]
             u == entryUid[s]
  <2>1. alive' = alive \/ alive' = alive \cup {s}
    BY <1>4 DEF SpawnFork
  <2>2. u \in Uids /\ Leased(u)
    <3>1. \/ s \in map
          \/ \E r \in Threads : pc[r] = "mark" /\ sbx[r] = s
      BY <1>1, <1>4 DEF SpawnFork, Goto, LocalsOK, SpawnLabels
    <3>2. CASE s \in map
      BY <1>1, <3>2 DEF RegistryOK, Leased
    <3>3. ASSUME NEW r \in Threads, pc[r] = "mark", sbx[r] = s
          PROVE  u \in Uids /\ Leased(u)
      BY <1>1, <3>3 DEF LocalsOK, DeleterLabels, Leased, Holds
    <3> QED
      BY <3>1, <3>2, <3>3
  <2>3. u \notin quarantined
    BY <1>1, <2>2 DEF UidExclusive
  <2>4. leaseStatus' = leaseStatus
    BY <1>2 DEF leaseStatus
  <2>5. CASE alive' = alive
    <3>1. leaseLive' = leaseLive
      BY <1>2, <2>5 DEF leaseLive
    <3> QED
      BY <2>4, <3>1 DEF Lease!leaseVars
  <2>6. CASE alive' = alive \cup {s}
    <3>1. leaseLive' = leaseLive \cup {u}
      BY <1>2, <2>6 DEF leaseLive
    <3>2. leaseStatus[u] = "leased"
      BY <2>2, <2>3, LeaseStatus
    <3> HIDE DEF u, s
    <3>3. Lease!Start(u)
      BY <2>4, <3>1, <3>2 DEF Lease!Start
    <3> QED
      BY <2>2, <3>3 DEF Lease!LeaseNext
  <2> QED
    BY <2>1, <2>5, <2>6
<1>5. CASE ~SweepKill(t) /\ ~SpawnFork(t)
  <2>1. alive' = alive
    BY <1>5
       DEF CreateReserve, CreateFull, CreateHome, CreateHomeFails, CreateHomePartial,
           CreateRefuse, CreateFailSlot, DeleteMark, DeleteFreeSlot, SweepClear,
           SweepGiveUp, DeleteHome, SpawnGet, SpawnRefused, SpawnLock, SpawnReturn,
           world
  <2>2. leaseLive' = leaseLive
    BY <1>2, <2>1 DEF leaseLive
  <2> QED
    BY <1>2, <2>2, LeaseStutter
<1> QED
  BY <1>3, <1>4, <1>5

\* take is a Grant, or a GiveUp when the range is exhausted.  A freed uid was
\* looked at before it is handed out; a new one has never had a process.
LEMMA TakeLeaseSteps ==
    ASSUME PoolInv, NEW t \in Threads,
           TakeFreed(t) \/ TakeNew(t) \/ TakeNone(t)
    PROVE  Lease!LeaseNext
<1>1. /\ ShapeOK /\ UidExclusive /\ LocalsOK /\ AliveAccounted /\ Below
      /\ \A i, j \in DOMAIN free : free[i] = free[j] => i = j
      /\ \A u \in Elements(free) : ~Leased(u) /\ u \notin quarantined
  BY DEF PoolInv, LeaseInv, UidExclusive, RegistryOK, Below
<1>2. /\ map' = map /\ entryUid' = entryUid /\ alive' = alive
      /\ leaseLive' = leaseLive
  BY DEF TakeFreed, TakeNew, TakeNone, entries, world, leaseLive
<1>3. CASE TakeFreed(t)
  <2>1. PICK k \in 1 .. Len(free) :
          /\ ~Haunted(free[k])
          /\ pc[t] = "take" /\ pc' = [pc EXCEPT ![t] = "build"]
          /\ uid' = [uid EXCEPT ![t] = free[k]]
          /\ quarantined' = quarantined \cup Popped(k)
    BY <1>3 DEF TakeFreed, Goto
  <2>2. /\ free[k] \in Elements(free) /\ free[k] \notin Popped(k)
        /\ Popped(k) \subseteq Elements(free)
        /\ free[k] \in Uids /\ Popped(k) \in SUBSET Uids
    BY <1>1, <2>1, ElementsPop, FreeListShape
  <2>3. \A v : Leased(v)' <=> Leased(v) \/ v = free[k]
    <3>1. \A r \in Threads :
            /\ r # t => (Holds(r)' <=> Holds(r)) /\ uid'[r] = uid[r]
            /\ r = t => ~Holds(r) /\ Holds(r)' /\ uid'[r] = free[k]
      BY <1>1, <2>1, LabelSets DEF ShapeOK
    <3> QED
      BY <1>2, <3>1 DEF Leased
  <2>4. free[k] \notin leaseLive
    BY <2>1 DEF leaseLive, Haunted, LiveUnder
  <2> QED
    BY <1>1, <1>2, <2>1, <2>2, <2>3, <2>4, LeaseGrant
<1>4. CASE TakeNew(t)
  <2>1. PICK u \in next .. (UidRange - 1) :
          /\ u \notin quarantined'
          /\ pc[t] = "take" /\ pc' = [pc EXCEPT ![t] = "build"]
          /\ uid' = [uid EXCEPT ![t] = u]
          /\ quarantined' = quarantined \cup Popped(0)
    BY <1>4 DEF TakeNew, Goto
  <2>2. u \in Uids /\ ~Leased(u) /\ u \notin quarantined /\ u \notin Popped(0)
    <3>1. u \in Uids /\ ~(u < next)
      BY <1>1, <2>1, UidAssumption DEF ShapeOK, Uids
    <3> QED
      BY <1>1, <2>1, <3>1 DEF Below
  <2>3. Popped(0) = Elements(free) /\ Popped(0) \in SUBSET Uids
    BY <1>1, ElementsPopAll, FreeListShape
  <2>4. \A v : Leased(v)' <=> Leased(v) \/ v = u
    <3>1. \A r \in Threads :
            /\ r # t => (Holds(r)' <=> Holds(r)) /\ uid'[r] = uid[r]
            /\ r = t => ~Holds(r) /\ Holds(r)' /\ uid'[r] = u
      BY <1>1, <2>1, LabelSets DEF ShapeOK
    <3> QED
      BY <1>2, <3>1 DEF Leased
  <2>5. ASSUME NEW s \in alive, entryUid[s] = u
        PROVE  FALSE
    BY <1>1, <2>2, <2>5 DEF AliveAccounted, Leased, LocalsOK, Holds
  <2>6. u \notin leaseLive
    BY <2>5 DEF leaseLive
  <2> QED
    BY <1>1, <1>2, <2>1, <2>2, <2>3, <2>4, <2>6, LeaseGrant
<1>5. CASE TakeNone(t)
  <2>1. /\ pc[t] = "take" /\ pc' = [pc EXCEPT ![t] = "undo"] /\ uid' = uid
        /\ quarantined' = quarantined \cup Popped(0)
    BY <1>5 DEF TakeNone, Goto
  <2>2. Popped(0) = Elements(free) /\ Popped(0) \in SUBSET Uids
    BY <1>1, ElementsPopAll, FreeListShape
  <2>3. \A v : Leased(v)' <=> Leased(v)
    <3>1. \A r \in Threads : Holds(r)' <=> Holds(r)
      BY <1>1, <2>1, LabelSets DEF ShapeOK
    <3> QED
      BY <1>2, <2>1, <3>1 DEF Leased
  <2> QED
    BY <1>1, <1>2, <2>1, <2>2, <2>3, LeaseGiveUp
<1> QED
  BY <1>3, <1>4, <1>5

\* A uid that passes between a thread and its entry stays leased.
LEMMA EntryLeaseSteps ==
    ASSUME PoolInv, NEW t \in Threads,
           CreateInsert(t) \/ \E s \in Sandboxes : DeleteRemove(t, s)
    PROVE  UNCHANGED Lease!leaseVars
<1>1. ShapeOK /\ LocalsOK
  BY DEF PoolInv, LeaseInv
<1>2. CASE CreateInsert(t)
  <2> DEFINE s == sbx[t]
  <2>1. /\ pc[t] = "confine" /\ pc' = [pc EXCEPT ![t] = "idle"]
        /\ uid' = [uid EXCEPT ![t] = NoUid]
        /\ map' = map \cup {s}
        /\ entryUid' = [entryUid EXCEPT ![s] = uid[t]]
        /\ quarantined' = quarantined /\ alive' = alive
    BY <1>2 DEF CreateInsert, Return, Goto, pool, world
  <2>2. s \in Sandboxes \ map /\ s \notin alive
    BY <1>1, <2>1 DEF LocalsOK
  <2> HIDE DEF s
  <2>3. /\ Holds(t) /\ ~Holds(t)'
        /\ \A r \in Threads : r # t => (Holds(r)' <=> Holds(r)) /\ uid'[r] = uid[r]
    BY <1>1, <2>1, LabelSets DEF ShapeOK
  <2>4. /\ entryUid'[s] = uid[t]
        /\ \A r \in map \cup alive : entryUid'[r] = entryUid[r]
    BY <1>1, <2>1, <2>2 DEF ShapeOK
  <2>5. \A u : Leased(u)' <=> Leased(u)
    BY <2>1, <2>3, <2>4 DEF Leased
  <2>6. leaseLive' = leaseLive
    BY <2>1, <2>4 DEF leaseLive
  <2> QED
    BY <2>1, <2>5, <2>6, LeaseStutter
<1>3. ASSUME NEW s \in Sandboxes, DeleteRemove(t, s)
      PROVE  UNCHANGED Lease!leaseVars
  <2>1. /\ s \in map /\ map' = map \ {s}
        /\ pc[t] = "idle" /\ pc' = [pc EXCEPT ![t] = "mark"]
        /\ uid' = [uid EXCEPT ![t] = entryUid[s]]
        /\ quarantined' = quarantined /\ entryUid' = entryUid /\ alive' = alive
    BY <1>3 DEF DeleteRemove, Goto, pool, world
  <2>2. /\ ~Holds(t) /\ Holds(t)' /\ uid'[t] = entryUid[s]
        /\ \A r \in Threads : r # t => (Holds(r)' <=> Holds(r)) /\ uid'[r] = uid[r]
    BY <1>1, <2>1, LabelSets DEF ShapeOK
  <2>3. \A u : Leased(u)' <=> Leased(u)
    BY <2>1, <2>2 DEF Leased
  <2>4. leaseLive' = leaseLive
    BY <2>1 DEF leaseLive
  <2> QED
    BY <2>1, <2>3, <2>4, LeaseStutter
<1> QED
  BY <1>2, <1>3

\* The end of a failed create or of a delete is a GiveBack or a Retire.  It is
\* a GiveBack only when the sweep left no process of the sandbox behind, and
\* no other sandbox can have one under this uid.
LEMMA SettleLeaseSteps ==
    ASSUME PoolInv, NEW t \in Threads,
           CreateFailUid(t) \/ DeleteRelease(t) \/ DeleteQuarantine(t)
    PROVE  Lease!LeaseNext
<1>1. ShapeOK /\ UidExclusive /\ LocalsOK /\ NoInheritedProcesses
  BY LiveUidHolders DEF PoolInv, LeaseInv
<1>2. /\ pc[t] \in {"fail_uid", "settle"} /\ pc' = [pc EXCEPT ![t] = "idle"]
      /\ uid' = [uid EXCEPT ![t] = NoUid]
      /\ map' = map /\ entryUid' = entryUid /\ alive' = alive
      /\ \/ /\ quarantined' = quarantined
            /\ pc[t] = "settle" => clean[t]
         \/ quarantined' = quarantined \cup {uid[t]}
  BY DEF CreateFailUid, DeleteRelease, DeleteQuarantine, Return, Goto, entries, world
<1>3. uid[t] \in Uids /\ Holds(t)
  BY <1>1, <1>2 DEF LocalsOK, CreatorLabels, DeleterLabels, Holds
<1>4. /\ ~Holds(t)'
      /\ \A r \in Threads : r # t => (Holds(r)' <=> Holds(r)) /\ uid'[r] = uid[r]
  BY <1>1, <1>2, LabelSets DEF ShapeOK
<1>5. \A u : Leased(u)' <=> Leased(u) /\ u # uid[t]
  BY <1>1, <1>2, <1>3, <1>4 DEF Leased, UidExclusive
<1>6. Leased(uid[t]) /\ uid[t] \notin quarantined
  BY <1>1, <1>3 DEF Leased, UidExclusive
<1>7. leaseLive' = leaseLive
  BY <1>2 DEF leaseLive
<1>8. quarantined' = quarantined /\ (pc[t] = "settle" => clean[t]) => uid[t] \notin leaseLive
  <2> SUFFICES ASSUME pc[t] = "settle" => clean[t], NEW s \in alive, entryUid[s] = uid[t]
               PROVE  FALSE
    BY DEF leaseLive
  <2>1. sbx[t] = s /\ pc[t] \in DeleterLabels
    BY <1>1, <1>3 DEF NoInheritedProcesses
  <2>2. pc[t] = "settle"
    BY <1>2, <2>1 DEF DeleterLabels
  <2> QED
    BY <1>1, <2>1, <2>2 DEF LocalsOK
<1> QED
  BY <1>2, <1>3, <1>5, <1>6, <1>7, <1>8, LeaseEnd

\* Processes exit, and strangers come and go, on their own.
LEMMA EnvironmentLeaseSteps ==
    ASSUME PoolInv, Environment \/ UNCHANGED vars
    PROVE  Lease!LeaseNext \/ UNCHANGED Lease!leaseVars
<1>1. /\ map' = map /\ quarantined' = quarantined /\ entryUid' = entryUid
      /\ pc' = pc /\ uid' = uid
  BY DEF Environment, ProcExit, StrangerStart, StrangerExit, vars, pool, entries, locals
<1>2. \A u : Leased(u)' <=> Leased(u)
  BY <1>1 DEF Leased, Holds
<1>3. ASSUME NEW s \in Sandboxes, ProcExit(s)
      PROVE  Lease!LeaseNext \/ UNCHANGED Lease!leaseVars
  <2>1. entryUid[s] \in Uids /\ {s} \in SUBSET LiveUnder(entryUid[s]) /\ alive' = alive \ {s}
    BY <1>3 DEF ProcExit, LiveUnder, PoolInv, LeaseInv, AliveAccounted
  <2> QED
    BY <1>1, <1>2, <2>1, LeaseDeaths
<1>4. CASE alive' = alive
  <2>1. leaseLive' = leaseLive
    BY <1>1, <1>4 DEF leaseLive
  <2> QED
    BY <1>1, <1>2, <2>1, LeaseStutter
<1>5. (\E s \in Sandboxes : ProcExit(s)) \/ alive' = alive
  BY DEF Environment, StrangerStart, StrangerExit, vars
<1> QED
  BY <1>3, <1>4, <1>5

\* Every step of the registry is a step of UidLease or leaves it unchanged.
LEMMA LeaseStep ==
    ASSUME PoolInv, [Next]_vars
    PROVE  [Lease!LeaseNext]_(Lease!leaseVars)
<1>1. ASSUME NEW t \in Threads, Begin(t) \/ Step(t)
      PROVE  Lease!LeaseNext \/ UNCHANGED Lease!leaseVars
  BY <1>1, QuietLeaseSteps, TakeLeaseSteps, EntryLeaseSteps, SettleLeaseSteps
     DEF Begin, Step, CreateStep, DeleteStep, SpawnStep
<1> QED
  BY <1>1, EnvironmentLeaseSteps DEF Next

\* The registry implements the lease discipline of UidLease, for every number
\* of threads, ids, uids and slots: a uid is handed out only while it is
\* available and no sandbox's process runs under it, and comes back only when
\* none is left.
THEOREM RegistryImplementsLease == Spec => ImplementsLease
<1>1. Init => Lease!LeaseInit
  <2> SUFFICES ASSUME Init PROVE Lease!LeaseInit
    OBVIOUS
  <2>1. \A u : ~Leased(u)
    BY LabelSets DEF Init, Leased
  <2>2. leaseStatus = [u \in Uids |-> IF u \in InUse THEN "retired" ELSE "available"]
    BY <2>1 DEF Init, leaseStatus
  <2>3. leaseLive = {}
    BY DEF Init, leaseLive
  <2> QED
    BY <2>2, <2>3 DEF Lease!LeaseInit
<1>2. PoolInv /\ [Next]_vars => [Lease!LeaseNext]_(Lease!leaseVars)
  BY LeaseStep
<1> QED
  BY <1>1, <1>2, PoolInvariant, PTL DEF Spec, ImplementsLease, Lease!LeaseSpec

-----------------------------------------------------------------------------
(* Homes of sandboxes that were torn down *)

\* Whose uid may own the home of an entry, for as long as somebody answers for
\* the entry, and afterwards.
HomesAccounted ==
    /\ \A t \in Threads : pc[t] = "confine" => home[sbx[t]] \in {uid[t], Root}
    /\ \A s \in map : home[s] \in {NoUid, Root, entryUid[s]}
    /\ \A t \in Threads : pc[t] \in DeleterLabels =>
         home[sbx[t]] \in {NoUid, Root, uid[t]}
    /\ \A t \in Threads : pc[t] = "settle" /\ clean[t] => home[sbx[t]] = NoUid
    /\ \A s \in deleted :
         \/ home[s] \in {NoUid, Root} \cup quarantined
         \/ \E t \in Threads : pc[t] \in DeleterLabels /\ sbx[t] = s

\* A step that leaves homes, entries and marks alone, and whoever answers for
\* an entry where they were.
LEMMA QuietHomes ==
    ASSUME HomesAccounted, home' = home, map' = map, entryUid' = entryUid,
           deleted' = deleted, quarantined \subseteq quarantined',
           \A r \in Threads :
             /\ pc'[r] \in DeleterLabels <=> pc[r] \in DeleterLabels
             /\ pc'[r] \in DeleterLabels \cup {"confine"} =>
                  sbx'[r] = sbx[r] /\ uid'[r] = uid[r]
             /\ pc'[r] = "confine" => pc[r] = "confine"
             /\ pc'[r] = "settle" => pc[r] = "settle" /\ clean'[r] = clean[r]
    PROVE  HomesAccounted'
BY DEF HomesAccounted, DeleterLabels

\* Steps of create keep homes accounted for: a new home belongs to nobody else,
\* because its id is new.
LEMMA CreateHomes ==
    ASSUME PoolInv, HomesAccounted, NEW t \in Threads, CreateStep(t) \/ CreateReserve(t)
    PROVE  HomesAccounted'
<1>1. ShapeOK /\ LocalsOK
  BY DEF PoolInv, LeaseInv
<1>2. CASE CreateHome(t) \/ CreateHomePartial(t)
  <2>1. PICK s \in Sandboxes, owner \in {uid[t], Root} :
          /\ Fresh(s) /\ home' = [home EXCEPT ![s] = owner]
          /\ deleted' = deleted \ {s}
          /\ pc[t] = "build"
          /\ \/ pc' = [pc EXCEPT ![t] = "confine"] /\ sbx' = [sbx EXCEPT ![t] = s]
             \/ pc' = [pc EXCEPT ![t] = "fail_slot"] /\ sbx' = sbx
    BY <1>2 DEF CreateHome, CreateHomePartial, NewHome, Goto
  <2>2. /\ map' = map /\ entryUid' = entryUid /\ quarantined' = quarantined
        /\ uid' = uid /\ clean' = clean
    BY <1>2 DEF CreateHome, CreateHomePartial, pool
  <2>3. home'[s] = owner /\ \A r \in Sandboxes : r # s => home'[r] = home[r]
    BY <1>1, <2>1 DEF ShapeOK
  <2>4. \A r \in Threads : sbx[r] # s
    BY <2>1 DEF Fresh
  <2>5. s \notin map /\ map \subseteq Sandboxes /\ deleted \subseteq Sandboxes
    BY <1>1, <2>1 DEF Fresh, ShapeOK
  <2>6. \A r \in Threads : /\ pc[r] \in DeleterLabels \cup {"confine"} => sbx[r] \in Sandboxes
                           /\ r # t => pc'[r] = pc[r] /\ sbx'[r] = sbx[r]
    BY <1>1, <2>1 DEF ShapeOK, LocalsOK
  <2>7. /\ pc[t] \notin DeleterLabels /\ pc'[t] \notin DeleterLabels /\ pc'[t] # "settle"
        /\ pc'[t] = "confine" => sbx'[t] = s
    BY <1>1, <2>1 DEF ShapeOK, DeleterLabels
  <2>8. /\ \A r \in Threads : pc'[r] = "confine" => home'[sbx'[r]] \in {uid'[r], Root}
        /\ \A r \in map' : home'[r] \in {NoUid, Root, entryUid'[r]}
    BY <2>1, <2>2, <2>3, <2>4, <2>5, <2>6, <2>7 DEF HomesAccounted
  <2>9. /\ \A r \in Threads : pc'[r] \in DeleterLabels =>
             home'[sbx'[r]] \in {NoUid, Root, uid'[r]}
        /\ \A r \in Threads : pc'[r] = "settle" /\ clean'[r] => home'[sbx'[r]] = NoUid
    BY <2>2, <2>3, <2>4, <2>6, <2>7 DEF HomesAccounted, DeleterLabels
  <2>10. \A d \in deleted' :
           \/ home'[d] \in {NoUid, Root} \cup quarantined'
           \/ \E r \in Threads : pc'[r] \in DeleterLabels /\ sbx'[r] = d
    <3> SUFFICES ASSUME NEW d \in deleted'
                 PROVE  \/ home'[d] \in {NoUid, Root} \cup quarantined'
                        \/ \E r \in Threads : pc'[r] \in DeleterLabels /\ sbx'[r] = d
      OBVIOUS
    <3>1. d \in deleted /\ home'[d] = home[d]
      BY <2>1, <2>3, <2>5
    <3> QED
      BY <2>2, <2>6, <2>7, <3>1 DEF HomesAccounted
  <2> QED
    BY <2>8, <2>9, <2>10 DEF HomesAccounted
<1>3. CASE CreateInsert(t)
  <2>1. /\ pc[t] = "confine" /\ pc' = [pc EXCEPT ![t] = "idle"]
        /\ map' = map \cup {sbx[t]}
        /\ entryUid' = [entryUid EXCEPT ![sbx[t]] = uid[t]]
        /\ quarantined' = quarantined /\ home' = home /\ deleted' = deleted
        /\ \A r \in Threads : r # t =>
             sbx'[r] = sbx[r] /\ uid'[r] = uid[r] /\ clean'[r] = clean[r]
    BY <1>1, <1>3 DEF CreateInsert, Return, Goto, pool, world, ShapeOK
  <2>2. sbx[t] \in Sandboxes \ map
    BY <1>1, <2>1 DEF LocalsOK
  <2>3. pc'[t] = "idle" /\ \A r \in Threads : r # t => pc'[r] = pc[r]
    BY <1>1, <2>1 DEF ShapeOK
  <2>4. \A s \in map' : home'[s] \in {NoUid, Root, entryUid'[s]}
    BY <1>1, <2>1, <2>2 DEF HomesAccounted, ShapeOK
  <2> QED
    BY <2>1, <2>3, <2>4 DEF HomesAccounted, DeleterLabels
<1>4. CASE CreateRefuse(t)
  <2>1. /\ pc[t] = "confine" /\ pc' = [pc EXCEPT ![t] = "fail_slot"]
        /\ home' \in {home, [home EXCEPT ![sbx[t]] = NoUid]}
        /\ map' = map /\ entryUid' = entryUid /\ quarantined' = quarantined
        /\ deleted' = deleted /\ uid' = uid /\ clean' = clean
        /\ sbx' = [sbx EXCEPT ![t] = NoSandbox]
    BY <1>4 DEF CreateRefuse, Goto, pool, entries
  <2>2. \A r \in Threads : r # t =>
          /\ pc'[r] = pc[r] /\ sbx'[r] = sbx[r] /\ sbx[r] # sbx[t]
          /\ pc[r] \in DeleterLabels \cup {"confine"} => sbx[r] \in Sandboxes
    BY <1>1, <2>1 DEF ShapeOK, LocalsOK
  <2>3. pc'[t] = "fail_slot" /\ sbx[t] \in Sandboxes \ (map \cup deleted)
    BY <1>1, <2>1 DEF ShapeOK, LocalsOK
  <2>4. \A s \in Sandboxes : s # sbx[t] => home'[s] = home[s]
    BY <1>1, <2>1 DEF ShapeOK
  <2>5. map \subseteq Sandboxes /\ deleted \subseteq Sandboxes
    BY <1>1 DEF ShapeOK
  <2> QED
    BY <2>1, <2>2, <2>3, <2>4, <2>5 DEF HomesAccounted, DeleterLabels
<1>5. CASE ~(CreateHome(t) \/ CreateHomePartial(t) \/ CreateInsert(t) \/ CreateRefuse(t))
  <2>1. /\ home' = home /\ map' = map /\ entryUid' = entryUid /\ deleted' = deleted
        /\ quarantined \subseteq quarantined'
    BY <1>5 DEF CreateStep, CreateReserve, CreateFull, TakeFreed, TakeNew, TakeNone,
                CreateHomeFails, CreateFailSlot, CreateFailUid, pool, entries, world
  <2>2. /\ pc'[t] \notin DeleterLabels \cup {"confine"} /\ pc[t] \notin DeleterLabels
        /\ \A r \in Threads : r # t =>
             /\ pc'[r] = pc[r] /\ sbx'[r] = sbx[r] /\ uid'[r] = uid[r]
             /\ clean'[r] = clean[r]
    BY <1>1, <1>5
       DEF CreateStep, CreateReserve, CreateFull, TakeFreed, TakeNew, TakeNone,
           CreateHomeFails, CreateFailSlot, CreateFailUid, Return, Goto, ShapeOK,
           DeleterLabels
  <2> QED
    BY <2>1, <2>2, QuietHomes DEF DeleterLabels
<1> QED
  BY <1>2, <1>3, <1>4, <1>5

\* Steps of delete keep homes accounted for: a home that could not be removed
\* leaves the call unclean, and the uid that owns it goes into quarantine.
LEMMA DeleteHomes ==
    ASSUME PoolInv, HomesAccounted, NEW t \in Threads,
           DeleteStep(t) \/ \E s \in Sandboxes : DeleteRemove(t, s)
    PROVE  HomesAccounted'
<1>1. ShapeOK /\ LocalsOK /\ UidExclusive
  BY DEF PoolInv, LeaseInv
<1>2. ASSUME NEW s \in Sandboxes, DeleteRemove(t, s)
      PROVE  HomesAccounted'
  <2>1. /\ s \in map /\ map' = map \ {s} /\ entryUid' = entryUid
        /\ pc[t] = "idle" /\ pc' = [pc EXCEPT ![t] = "mark"]
        /\ sbx' = [sbx EXCEPT ![t] = s] /\ uid' = [uid EXCEPT ![t] = entryUid[s]]
        /\ home' = home /\ deleted' = deleted /\ quarantined' = quarantined
        /\ clean' = clean
    BY <1>2 DEF DeleteRemove, Goto, pool, world
  <2>2. /\ pc'[t] = "mark" /\ sbx'[t] = s /\ uid'[t] = entryUid[s]
        /\ \A r \in Threads : r # t =>
             pc'[r] = pc[r] /\ sbx'[r] = sbx[r] /\ uid'[r] = uid[r]
    BY <1>1, <2>1 DEF ShapeOK
  <2>3. pc[t] \notin DeleterLabels
    BY <2>1 DEF DeleterLabels
  <2> QED
    BY <2>1, <2>2, <2>3 DEF HomesAccounted
<1>3. CASE DeleteMark(t)
  <2>1. /\ deleted' = deleted \cup {sbx[t]} /\ map' = map /\ entryUid' = entryUid
        /\ home' = home /\ quarantined' = quarantined
        /\ sbx' = sbx /\ uid' = uid /\ clean' = clean
        /\ pc[t] = "mark" /\ pc' = [pc EXCEPT ![t] = "slot"]
    BY <1>3 DEF DeleteMark, Goto, pool, world
  <2>2. pc'[t] = "slot" /\ \A r \in Threads : r # t => pc'[r] = pc[r]
    BY <1>1, <2>1 DEF ShapeOK
  <2> QED
    BY <2>1, <2>2 DEF HomesAccounted, DeleterLabels
<1>4. CASE DeleteHome(t)
  <2>1. PICK removed \in BOOLEAN :
          /\ home' = IF removed THEN [home EXCEPT ![sbx[t]] = NoUid] ELSE home
          /\ clean' = [clean EXCEPT ![t] = clean[t] /\ removed]
    BY <1>4 DEF DeleteHome
  <2>2. /\ pc[t] = "unlink" /\ pc' = [pc EXCEPT ![t] = "settle"]
        /\ map' = map /\ entryUid' = entryUid /\ deleted' = deleted
        /\ quarantined' = quarantined /\ sbx' = sbx /\ uid' = uid
    BY <1>4 DEF DeleteHome, Goto, pool, entries
  <2>3. sbx[t] \in Sandboxes \ map
    BY <1>1, <2>2 DEF LocalsOK, DeleterLabels
  <2>4. /\ \A s \in Sandboxes : home'[s] = home[s] \/ home'[s] = NoUid
        /\ \A s \in Sandboxes : s # sbx[t] => home'[s] = home[s]
        /\ removed => home'[sbx[t]] = NoUid
    BY <1>1, <2>1, <2>3 DEF ShapeOK
  <2>5. /\ pc'[t] = "settle" /\ \A r \in Threads : r # t => pc'[r] = pc[r]
        /\ clean'[t] => removed
        /\ \A r \in Threads : r # t => clean'[r] = clean[r]
    BY <1>1, <2>1, <2>2 DEF ShapeOK
  <2>6. \A r \in Threads : /\ pc[r] \in DeleterLabels \cup {"confine"} => sbx[r] \in Sandboxes
                           /\ pc[r] = "confine" => sbx[r] # sbx[t]
    BY <1>1, <2>2 DEF LocalsOK, DeleterLabels
  <2>7. /\ \A r \in Threads : pc'[r] = "confine" => home'[sbx'[r]] \in {uid'[r], Root}
        /\ \A s \in map' : home'[s] \in {NoUid, Root, entryUid'[s]}
    BY <1>1, <2>2, <2>4, <2>5, <2>6 DEF HomesAccounted, ShapeOK
  <2>8. /\ \A r \in Threads : pc'[r] \in DeleterLabels =>
             home'[sbx'[r]] \in {NoUid, Root, uid'[r]}
        /\ \A r \in Threads : pc'[r] = "settle" /\ clean'[r] => home'[sbx'[r]] = NoUid
    BY <2>2, <2>4, <2>5, <2>6 DEF HomesAccounted, DeleterLabels
  <2>9. \A s \in deleted' :
           \/ home'[s] \in {NoUid, Root} \cup quarantined'
           \/ \E r \in Threads : pc'[r] \in DeleterLabels /\ sbx'[r] = s
    BY <1>1, <2>2, <2>4, <2>5 DEF HomesAccounted, DeleterLabels, ShapeOK
  <2> QED
    BY <2>7, <2>8, <2>9 DEF HomesAccounted
<1>5. CASE DeleteRelease(t) \/ DeleteQuarantine(t)
  <2>1. /\ pc[t] = "settle" /\ pc' = [pc EXCEPT ![t] = "idle"]
        /\ home' = home /\ map' = map /\ entryUid' = entryUid /\ deleted' = deleted
        /\ \/ clean[t] /\ quarantined' = quarantined
           \/ quarantined' = quarantined \cup {uid[t]}
        /\ \A r \in Threads : r # t =>
             sbx'[r] = sbx[r] /\ uid'[r] = uid[r] /\ clean'[r] = clean[r]
    BY <1>1, <1>5 DEF DeleteRelease, DeleteQuarantine, Return, Goto, entries, world, ShapeOK
  <2>2. pc'[t] = "idle" /\ \A r \in Threads : r # t => pc'[r] = pc[r]
    BY <1>1, <2>1 DEF ShapeOK
  <2>3. home[sbx[t]] \in {NoUid, Root} \cup quarantined'
    BY <2>1 DEF HomesAccounted, DeleterLabels
  <2>4. \A s \in deleted' :
           \/ home'[s] \in {NoUid, Root} \cup quarantined'
           \/ \E r \in Threads : pc'[r] \in DeleterLabels /\ sbx'[r] = s
    BY <2>1, <2>2, <2>3 DEF HomesAccounted
  <2> QED
    BY <2>1, <2>2, <2>4 DEF HomesAccounted, DeleterLabels
<1>6. CASE DeleteFreeSlot(t) \/ SweepClear(t) \/ SweepKill(t) \/ SweepGiveUp(t)
  <2>1. /\ home' = home /\ map' = map /\ entryUid' = entryUid /\ deleted' = deleted
        /\ quarantined' = quarantined /\ sbx' = sbx /\ uid' = uid
    BY <1>6 DEF DeleteFreeSlot, SweepClear, SweepKill, SweepGiveUp, pool, entries, world
  <2>2. /\ pc'[t] \in {"sweep", "unlink"} /\ pc[t] \in DeleterLabels
        /\ \A r \in Threads : r # t => pc'[r] = pc[r] /\ clean'[r] = clean[r]
    BY <1>1, <1>6
       DEF DeleteFreeSlot, SweepClear, SweepKill, SweepGiveUp, Goto, ShapeOK,
           DeleterLabels
  <2> QED
    BY <2>1, <2>2, QuietHomes DEF DeleterLabels
<1> QED
  BY <1>2, <1>3, <1>4, <1>5, <1>6 DEF DeleteStep

\* No other step touches homes, marks or those who answer for them.
LEMMA OtherHomes ==
    ASSUME PoolInv, HomesAccounted,
           \/ \E t \in Threads :
                SpawnStep(t) \/ \E s \in Sandboxes : SpawnGet(t, s)
           \/ Environment \/ UNCHANGED vars
    PROVE  HomesAccounted'
<1>1. ShapeOK
  BY DEF PoolInv
<1>2. ASSUME NEW t \in Threads, SpawnStep(t) \/ \E s \in Sandboxes : SpawnGet(t, s)
      PROVE  HomesAccounted'
  <2>1. /\ home' = home /\ map' = map /\ entryUid' = entryUid /\ deleted' = deleted
        /\ quarantined' = quarantined
    BY <1>2 DEF SpawnStep, SpawnGet, SpawnRefused, SpawnLock, SpawnFork, SpawnReturn,
                pool, entries, world
  <2>2. /\ pc'[t] \in SpawnLabels \cup {"idle"} /\ pc[t] \in SpawnLabels \cup {"idle"}
        /\ \A r \in Threads : r # t =>
             /\ pc'[r] = pc[r] /\ sbx'[r] = sbx[r] /\ uid'[r] = uid[r]
             /\ clean'[r] = clean[r]
    BY <1>1, <1>2 DEF SpawnStep, SpawnGet, SpawnRefused, SpawnLock, SpawnFork,
                      SpawnReturn, Return, Goto, ShapeOK, SpawnLabels
  <2>3. /\ pc'[t] \notin DeleterLabels \cup {"confine"}
        /\ pc[t] \notin DeleterLabels \cup {"confine"}
    BY <2>2 DEF SpawnLabels, DeleterLabels
  <2> QED
    BY <2>1, <2>2, <2>3, QuietHomes DEF DeleterLabels
<1>3. CASE Environment \/ UNCHANGED vars
  BY <1>3, QuietHomes DEF Environment, ProcExit, StrangerStart, StrangerExit, vars,
                          pool, entries, locals
<1> QED
  BY <1>2, <1>3

\* After a delete, a home that is still there is owned by root or by a uid that
\* is not up for reuse: the next sandbox cannot find files it owns.
THEOREM TornDownHomesKept == Spec => []TornDownHomesKeepUid
<1>1. Init => HomesAccounted
  BY DEF Init, HomesAccounted, DeleterLabels
<1>2. PoolInv /\ HomesAccounted /\ [Next]_vars => HomesAccounted'
  BY CreateHomes, DeleteHomes, OtherHomes DEF Next, Begin, Step
<1>3. PoolInv /\ HomesAccounted => TornDownHomesKeepUid
  <2> SUFFICES ASSUME PoolInv, HomesAccounted, NEW s \in deleted, home[s] # NoUid
               PROVE  home[s] \notin Elements(free)
    BY DEF TornDownHomesKeepUid
  <2>1. /\ \A u \in Elements(free) : ~Leased(u) /\ u \notin quarantined
        /\ Elements(free) \subseteq Uids
    BY DEF PoolInv, LeaseInv, UidExclusive, ShapeOK, Elements
  <2>2. Root \notin Uids
    BY UidAssumption DEF Root, Uids
  <2>3. ASSUME NEW t \in Threads, pc[t] \in DeleterLabels, sbx[t] = s
        PROVE  home[s] \in {NoUid, Root} \/ Leased(home[s])
    BY <2>3 DEF HomesAccounted, Leased, Holds
  <2> QED
    BY <2>1, <2>2, <2>3 DEF HomesAccounted
<1> QED
  BY <1>1, <1>2, <1>3, PoolInvariant, PTL DEF Spec
=============================================================================
