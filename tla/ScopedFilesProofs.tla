-------------------------- MODULE ScopedFilesProofs --------------------------
(* Theorems about ScopedFiles, for any number of threads, any requests on    *)
(* paths of any length, and any number of renames and broken uploads: the    *)
(* walk never leaves the home, what requests create is handed over, uploads  *)
(* arrive as sent, and listings account for every name.                      *)
EXTENDS ScopedFiles, SequenceTheorems, FiniteSetTheorems, NaturalsInduction,
        WellFoundedInduction, TLAPS

Frame == [dir : InsideDir, name : Names, todo : SUBSET Names, subs : SUBSET Names]

\* The labels at which a thread works below an open directory, and those at which
\* it has a name left to act on.
Open == {"locate", "descend", "give", "entries", "adopt", "hand", "connect", "own", "body", "setlen",
         "unlink", "rmdir", "delete", "scan", "drop"}
Naming == {"descend", "adopt", "unlink", "rmdir", "delete", "scan", "drop"}

\* What a thread holds: descriptors of directories in the home, of a file in it or of
\* the sandbox's own socket, and plain names.
ThreadOK(x) ==
    /\ DOMAIN x = DOMAIN Idle
    /\ x.pc \in Open \cup {"idle", "ok", "error"}
    /\ x.pc # "idle" => x.req \in Request
    /\ x.rest \in Seq(Names) /\ (x.pc \in Naming => Len(x.rest) > 0)
    /\ x.pc \in Open => x.fd \in InsideDir
    /\ x.pc \in {"descend", "give"} => x.req.op \in {"write", "mkdir"}
    /\ x.pc = "entries" => x.scan \subseteq Names /\ x.found \subseteq Names
    /\ x.pc = "hand" => x.file \in InsideDir
    /\ x.pc \in {"own", "body", "setlen"} => x.file \in File \ Outside
    /\ x.pc = "connect" => x.file = "sock"
    /\ x.stack \in Seq(Frame) /\ (x.pc \in {"scan", "drop"} => Len(x.stack) > 0)
    /\ x.pc = "drop" => x.probe \in Names

ThreadsOK == DOMAIN th = Thread /\ \A t \in Thread : ThreadOK(th[t])

\* No directory of the home holds an inode from outside but through a link, and the
\* other owner's socket stays that owner's.
HomeOK ==
    /\ entry \in [Dir -> [Names -> Inode \cup {None}]]
    /\ \A d \in InsideDir, n \in Names : entry[d][n] \notin Outside
    /\ owner \in [Inode -> {"sandbox", "other", None}] /\ owner["alien"] = "other"

\* Until the sandbox renames, an inode the server made and did not hand over yet is one
\* that a thread is about to open by its name, or has open to hand it over; or the
\* hand-over failed.
Adopts(x, d, n) == x.pc \in {"descend", "adopt"} /\ x.fd = d /\ Head(x.rest) = n
Hands(x, i) ==
    \/ x.pc = "give" /\ x.fd = i
    \/ x.pc \in {"hand", "own"} /\ x.file = i
Handing == {"descend", "adopt", "give", "hand", "own"}
Owed(i) == owner[i] # "sandbox" /\ i \notin lost
BeingHandedOver ==
    /\ tampers \in Nat
    /\ Untampered => \A d \in InsideDir, n \in Names :
         /\ entry[d][n] \in NewDir /\ Owed(entry[d][n]) =>
              \E t \in Thread : Adopts(th[t], d, n) \/ Hands(th[t], entry[d][n])
         /\ entry[d][n] \in NewFile /\ Owed(entry[d][n]) => \E t \in Thread : Hands(th[t], entry[d][n])

\* The inductive invariant.
FilesInv == ThreadsOK /\ HomeOK /\ StaysInHome /\ BeingHandedOver

-----------------------------------------------------------------------------
(* Paths *)

\* A set of naturals that is not empty has a least element.
LEMMA LeastExists ==
    ASSUME NEW S \in SUBSET Nat, S # {}
    PROVE  \E x \in S : \A y \in S : x <= y
<1> DEFINE R == OpToRel(<, Nat)
<1>1. IsWellFoundedOn(R, Nat)
  BY NatLessThanWellFounded
<1>2. PICK x \in S : \A y \in S : ~ (<<y, x>> \in R)
  <2> HIDE DEF R
  <2> QED  BY <1>1, WFMin
<1>3. \A y \in S : ~ (y < x)
  BY <1>2 DEF OpToRel
<1> QED
  BY <1>3

\* A component of a path leaves a sequence of names.
LEMMA ComponentOfNames ==
    ASSUME NEW done \in Seq(Names), NEW c
    PROVE  Component(done, c) \in Seq(Names)
<1>1. CASE done = <<>>
  BY <1>1 DEF Component
<1>2. CASE done # <<>>
  <2>1. SubSeq(done, 1, Len(done) - 1) \in Seq(Names)
    BY <1>2, SubSeqProperties
  <2> QED  BY <2>1 DEF Component
<1> QED  BY <1>1, <1>2

\* normalize_relative yields plain names, whatever the path.
LEMMA NormalizedNames ==
    ASSUME NEW S, NEW path \in Seq(S)
    PROVE  Normalize(path) \in Seq(Names)
<1> DEFINE n == Len(path)
           Norm(f) == f = [k \in 0 .. n |-> IF k = 0 THEN <<>> ELSE Component(f[k - 1], path[k])]
           Upto(m, g) == g[0] = <<>> /\ \A k \in 1 .. m : g[k] = Component(g[k - 1], path[k])
           Built(m) == \E g \in [0 .. m -> Seq(Names)] : Upto(m, g)
<1>1. n \in Nat
  OBVIOUS
<1> HIDE DEF n
<1>2. Built(n)
  <2> DEFINE T == {m \in 0 .. n : ~ Built(m)}
  <2> SUFFICES ASSUME T # {} PROVE FALSE
    <3> HIDE DEF Built
    <3> QED  BY <1>1
  <2>1. PICK m \in T : \A y \in T : m <= y
    <3>1. T \in SUBSET Nat
      BY <1>1
    <3> HIDE DEF T
    <3> QED  BY <3>1, LeastExists
  <2>2. m \in 0 .. n /\ ~ Built(m)
    BY <2>1
  <2>3. Built(0)
    <3>1. [k \in 0 .. 0 |-> <<>>] \in [0 .. 0 -> Seq(Names)]
      OBVIOUS
    <3>2. Upto(0, [k \in 0 .. 0 |-> <<>>])
      OBVIOUS
    <3> QED  BY <3>1, <3>2
  <2>4. m \in 1 .. n
    <3> HIDE DEF Built
    <3> QED  BY <1>1, <2>2, <2>3
  <2>5. Built(m - 1)
    <3> HIDE DEF Built
    <3> QED  BY <1>1, <2>1, <2>4
  <2>6. PICK g \in [0 .. m - 1 -> Seq(Names)] : Upto(m - 1, g)
    BY <2>5
  <2> DEFINE c == Component(g[m - 1], path[m])
             h == [k \in 0 .. m |-> IF k = m THEN c ELSE g[k]]
  <2>7. c \in Seq(Names)
    <3>1. g[m - 1] \in Seq(Names)
      BY <1>1, <2>4
    <3> QED  BY <3>1, ComponentOfNames
  <2>8. h \in [0 .. m -> Seq(Names)]
    <3> HIDE DEF c
    <3> QED  BY <1>1, <2>4, <2>7
  <2>9. Upto(m, h)
    <3>1. h[0] = <<>>
      BY <1>1, <2>4, <2>6
    <3>2. ASSUME NEW k \in 1 .. m PROVE h[k] = Component(h[k - 1], path[k])
      <4>1. h[k - 1] = g[k - 1]
        BY <1>1, <2>4
      <4>2. CASE k = m
        BY <1>1, <2>4, <4>1, <4>2
      <4>3. CASE k # m
        <5>1. h[k] = g[k] /\ k \in 1 .. m - 1
          BY <1>1, <2>4, <4>3
        <5> QED  BY <5>1, <4>1, <2>6
      <4> QED  BY <4>2, <4>3
    <3> QED  BY <3>1, <3>2
  <2> QED  BY <2>2, <2>8, <2>9
<1>3. \E f : Norm(f)
  <2>1. PICK g \in [0 .. n -> Seq(Names)] : Upto(n, g)
    BY <1>2
  <2>2. Norm(g)
    BY <1>1, <2>1
  <2> QED  BY <2>2
<1> DEFINE f == CHOOSE x : Norm(x)
<1>4. Norm(f)
  BY <1>3
<1>5. Normalize(path) = f[n]
  BY DEF Normalize, n
<1> HIDE DEF f
<1>6. f[n] \in Seq(Names)
  <2>1. f[0] = <<>> /\ \A k \in 1 .. n : f[k] = Component(f[k - 1], path[k])
    BY <1>1, <1>4
  <2> DEFINE Named(m) == f[m] \in Seq(Names)
             T == {m \in 0 .. n : ~ Named(m)}
  <2> SUFFICES ASSUME T # {} PROVE FALSE
    BY <1>1
  <2>2. PICK m \in T : \A y \in T : m <= y
    <3>1. T \in SUBSET Nat
      BY <1>1
    <3> HIDE DEF T
    <3> QED  BY <3>1, LeastExists
  <2>3. m \in 0 .. n /\ ~ Named(m)
    BY <2>2
  <2>4. Named(0)
    BY <2>1
  <2>5. m \in 1 .. n
    <3> HIDE DEF Named
    <3> QED  BY <1>1, <2>3, <2>4
  <2>6. Named(m - 1)
    <3> HIDE DEF Named
    <3> QED  BY <1>1, <2>2, <2>5
  <2> QED  BY <2>1, <2>3, <2>5, <2>6, ComponentOfNames
<1> QED  BY <1>5, <1>6

-----------------------------------------------------------------------------
(* Inodes *)

\* The kinds of inodes, as far as the proofs tell them apart.
LEMMA Kinds ==
    /\ InsideDir \subseteq Dir /\ Dir \ Outside \subseteq InsideDir
    /\ Dir \subseteq Inode /\ File \subseteq Inode /\ Socket \subseteq Inode /\ Link \subseteq Inode
    /\ Dir \cap File = {} /\ NewDir \subseteq InsideDir /\ NewFile \subseteq File \ Outside
    /\ InsideDir \cap Outside = {} /\ Dir \cap Link = {}
    /\ Socket \ Outside = {"sock", "alien"} /\ "alien" \in Inode /\ "alien" \notin Dir \cup File
    /\ "sock" \notin Outside /\ "home" \in InsideDir /\ None \notin Inode
    /\ NewDir \cap NewFile = {}
BY DEF InsideDir, Dir, Outside, Inode, File, Socket, Link, NewDir, NewFile, None

\* The names of the model.
LEMMA FourNames == Names = {"a", "b", "c", "z"}
BY DEF Names

\* A thread with nothing open.
LEMMA IdleOK ==
    /\ ThreadOK(Idle)
    /\ \A s, m : \A r \in Request, a \in {"ok", "error"} :
         ThreadOK([Idle EXCEPT !.pc = a, !.req = r, !.seen = s, !.missed = m])
<1>1. ThreadOK(Idle)
  BY DEF ThreadOK, Idle, Open, Naming
<1>2. ASSUME NEW s, NEW m, NEW r \in Request, NEW a \in {"ok", "error"}
      PROVE  ThreadOK([Idle EXCEPT !.pc = a, !.req = r, !.seen = s, !.missed = m])
  BY DEF ThreadOK, Idle, Open, Naming
<1> QED  BY <1>1, <1>2

\* The invariant of the walk holds at the start.
LEMMA FilesInit == Init => FilesInv
<1> SUFFICES ASSUME Init PROVE FilesInv
  OBVIOUS
<1>1. ThreadsOK
  <2>1. ThreadOK(Idle)
    BY IdleOK
  <2>2. DOMAIN th = Thread /\ \A t \in Thread : th[t] = Idle
    BY DEF Init
  <2> QED  BY <2>1, <2>2, SMTT(30) DEF ThreadsOK
<1>2. HomeOK
  <2>1. entry \in [Dir -> [Names -> Inode \cup {None}]] /\ \A d \in InsideDir, n \in Names : entry[d][n] \notin Outside
    BY DEF Init, InitEntry, Names, Inode, Dir, InsideDir, File, Socket, Link, Outside, NewDir, NewFile, None
  <2>2. owner \in [Inode -> {"sandbox", "other", None}] /\ owner["alien"] = "other"
    BY DEF Init, Inode, Socket, NewDir, NewFile, Outside, None
  <2> QED  BY <2>1, <2>2 DEF HomeOK
<1>3. StaysInHome
  BY DEF Init, StaysInHome
<1>4. BeingHandedOver
  <2>1. ASSUME NEW d \in InsideDir, NEW n \in Names PROVE InitEntry[d][n] \notin NewDir \cup NewFile
    BY FourNames DEF InitEntry, InsideDir, Dir, NewDir, NewFile, None
  <2>2. tampers = 0 /\ entry = InitEntry
    BY DEF Init
  <2> QED  BY <2>1, <2>2 DEF BeingHandedOver
<1> QED  BY <1>1, <1>2, <1>3, <1>4 DEF FilesInv

-----------------------------------------------------------------------------
(* What a step does to the threads *)

\* A step of one thread leaves the others alone.
LEMMA SetOK ==
    ASSUME ThreadsOK, NEW t \in Thread, NEW r, Set(t, r), ThreadOK(r)
    PROVE  ThreadsOK'
BY DEF ThreadsOK, Set

\* Answering leaves every thread in order.
LEMMA FinishOK ==
    ASSUME ThreadsOK, NEW t \in Thread, th[t].pc # "idle",
           NEW a \in {"ok", "error"}, Finish(t, a)
    PROVE  ThreadsOK'
<1>1. th[t].req \in Request
  BY SMTT(30) DEF ThreadsOK, ThreadOK
<1> DEFINE r == [Idle EXCEPT !.pc = a, !.req = th[t].req, !.seen = th[t].seen, !.missed = th[t].missed]
<1>2. ThreadOK(r)
  BY <1>1, IdleOK
<1>3. Set(t, r)
  BY DEF Finish
<1> QED
  <2> HIDE DEF r
  <2> QED  BY <1>2, <1>3, SetOK

\* A thread that begins a request holds the home and plain names only.
LEMMA BegunOK ==
    ASSUME NEW r \in Request, NEW s, NEW m
    PROVE  ThreadOK(Begun(r)) /\ ThreadOK([Begun(r) EXCEPT !.seen = s, !.missed = m])
<1>1. Normalize(r.path) \in Seq(Names)
  BY FilesAssumption, NormalizedNames
<1>2. "home" \in InsideDir
  BY Kinds
<1> HIDE DEF Normalize
<1> QED  BY <1>1, <1>2 DEF ThreadOK, Begun, Idle, Open, Naming

\* What the labels say of a thread at work.
LEMMA AtWork ==
    ASSUME ThreadsOK, NEW t \in Thread, th[t].pc \in Open
    PROVE  /\ th[t].req \in Request /\ th[t].fd \in InsideDir /\ th[t].rest \in Seq(Names)
           /\ th[t].pc # "idle" /\ DOMAIN th[t] = DOMAIN Idle /\ th[t].stack \in Seq(Frame)
           /\ Located(t) \/ Walking(t) \/ th[t].pc \in Naming =>
                Len(th[t].rest) > 0 /\ Name(t) \in Names /\ Tail(th[t].rest) \in Seq(Names)
           /\ Walking(t) => Len(Tail(th[t].rest)) > 0
<1>1. ThreadOK(th[t])
  BY DEF ThreadsOK
<1>2. /\ th[t].req \in Request /\ th[t].fd \in InsideDir /\ th[t].rest \in Seq(Names)
      /\ th[t].pc # "idle" /\ DOMAIN th[t] = DOMAIN Idle /\ th[t].stack \in Seq(Frame)
      /\ th[t].pc \in Naming => Len(th[t].rest) > 0
  BY <1>1 DEF ThreadOK, Open
<1> DEFINE s == th[t].rest
<1>3. s \in Seq(Names)
  BY <1>2
<1>4. Located(t) \/ Walking(t) \/ th[t].pc \in Naming => Len(s) > 0
  <2>1. Len(s) \in Nat
    BY <1>2
  <2>2. CASE Located(t)
    BY ONLY <2>1, <2>2 DEF Located
  <2>3. CASE Walking(t)
    BY ONLY <2>1, <2>3 DEF Walking
  <2> QED  BY <1>2, <2>2, <2>3
<1>5. Walking(t) => Len(s) > 1
  BY DEF Walking
<1>6. Name(t) = Head(s)
  BY DEF Name
<1> HIDE DEF s
<1>7. Len(s) > 0 => Head(s) \in Names /\ Tail(s) \in Seq(Names) /\ Len(Tail(s)) = Len(s) - 1
  BY <1>3, HeadTailProperties, EmptySeq
<1>8. Len(s) > 1 => Len(s) > 0 /\ Len(s) - 1 > 0
  BY <1>3
<1> QED  BY <1>2, <1>4, <1>5, <1>6, <1>7, <1>8 DEF s

\* What a directory of the home yields.
LEMMA Opened ==
    ASSUME HomeOK, NEW d \in InsideDir, NEW n \in Names
    PROVE  /\ OpenDirAt(d, n) \subseteq InsideDir
           /\ OpenAt(d, n) \cap File \subseteq File \ Outside
           /\ OpenPathAt(d, n) \cap Outside = {}
           /\ \A i \in OpenPathAt(d, n) : i \in Socket /\ owner[i] = "sandbox" => i = "sock"
           /\ OpenDirAt(d, n) = {} => entry[d][n] \notin NewDir
           /\ \A i \in OpenDirAt(d, n) : i = entry[d][n]
           /\ \A i \in OpenAt(d, n) : i = entry[d][n]
<1>1. entry[d][n] \notin Outside /\ owner["alien"] = "other"
  BY DEF HomeOK
<1> QED
  BY <1>1, Kinds DEF OpenDirAt, OpenAt, OpenPathAt

\* A step of a thread that has nothing to hand over, and makes nothing.
LEMMA QuietHandover ==
    ASSUME BeingHandedOver, ThreadsOK, NEW t \in Thread, NEW r, Set(t, r),
           th[t].pc \notin Handing, UNCHANGED <<owner, tampers, lost>>,
           \A d \in InsideDir, n \in Names : entry'[d][n] \in {entry[d][n], None}
    PROVE  BeingHandedOver'
<1>1. \A u \in Thread : u # t => th'[u] = th[u]
  BY DEF Set, ThreadsOK
<1>2. tampers' \in Nat
  BY DEF BeingHandedOver
<1>3. None \notin NewDir \cup NewFile
  BY DEF None, NewDir, NewFile
<1> SUFFICES ASSUME Untampered', NEW d \in InsideDir, NEW n \in Names,
                    entry'[d][n] \in NewDir \cup NewFile, Owed(entry[d][n])'
             PROVE  /\ entry'[d][n] \in NewDir => \E u \in Thread : Adopts(th'[u], d, n) \/ Hands(th'[u], entry'[d][n])
                    /\ entry'[d][n] \in NewFile => \E u \in Thread : Hands(th'[u], entry'[d][n])
  BY <1>2 DEF BeingHandedOver
<1>4. entry'[d][n] = entry[d][n] /\ Owed(entry[d][n]) /\ Untampered
  BY <1>3 DEF Owed, Untampered
<1>5. /\ entry[d][n] \in NewDir => \E u \in Thread : Adopts(th[u], d, n) \/ Hands(th[u], entry[d][n])
      /\ entry[d][n] \in NewFile => \E u \in Thread : Hands(th[u], entry[d][n])
  BY <1>4 DEF BeingHandedOver
<1> QED
  BY <1>1, <1>4, <1>5 DEF Adopts, Hands, Handing

-----------------------------------------------------------------------------
(* The steps *)

\* A rename by the sandbox keeps the invariant.
LEMMA TamperStep ==
    ASSUME FilesInv, Tamper
    PROVE  FilesInv'
<1>1. PICK d1 \in InsideDir, d2 \in InsideDir, n1 \in Names, n2 \in Names :
        entry' = Exchanged(d1, n1, d2, n2)
  BY FilesAssumption DEF Tamper
<1>2. UNCHANGED <<owner, th, touched, connected>> /\ tampers' = tampers + 1
  BY DEF Tamper
<1>3. HomeOK'
  <2>1. entry[d1][n1] \in Inode \cup {None} /\ entry[d2][n2] \in Inode \cup {None}
    BY Kinds DEF FilesInv, HomeOK
  <2>2. entry[d1][n1] \notin Outside /\ entry[d2][n2] \notin Outside
    BY DEF FilesInv, HomeOK
  <2>3. entry' \in [Dir -> [Names -> Inode \cup {None}]]
    BY <1>1, <2>1 DEF FilesInv, HomeOK, Exchanged
  <2>4. \A d \in InsideDir, n \in Names : entry'[d][n] \in {entry[d][n], entry[d1][n1], entry[d2][n2]}
    BY <1>1, Kinds DEF FilesInv, HomeOK, Exchanged
  <2> QED  BY <1>2, <2>2, <2>3, <2>4 DEF FilesInv, HomeOK
<1>4. ThreadsOK' /\ StaysInHome'
  BY <1>2 DEF FilesInv, ThreadsOK, StaysInHome
<1>5. BeingHandedOver'
  BY <1>2 DEF FilesInv, BeingHandedOver, Untampered
<1> QED  BY <1>3, <1>4, <1>5 DEF FilesInv

\* Beginning a request keeps the invariant.
LEMMA BeginStep ==
    ASSUME FilesInv, NEW t \in Thread, Begin(t)
    PROVE  FilesInv'
<1>1. PICK r \in Request : Set(t, Begun(r))
  BY DEF Begin
<1>2. /\ th[t].pc = "idle" /\ UNCHANGED <<entry, owner, touched, connected, tampers, lost>>
  BY DEF Begin, At, fsVars, histVars
<1>3. ThreadsOK'
  BY <1>1, BegunOK, SetOK DEF FilesInv
<1>4. BeingHandedOver'
  BY <1>1, <1>2, QuietHandover DEF FilesInv, Handing
<1> QED  BY <1>2, <1>3, <1>4 DEF FilesInv, HomeOK, StaysInHome

\* A thread's record after some of its fields were set.
LEMMA Fields ==
    DOMAIN Idle = {"pc", "req", "rest", "fd", "file", "stack", "probe", "seen", "scan", "found", "missed"}
BY DEF Idle

\* Changing the label of a thread changes nothing else of it.
LEMMA Relabelled ==
    ASSUME NEW y, DOMAIN y = DOMAIN Idle, NEW p,
           NEW x, x = [y EXCEPT !.pc = p]
    PROVE  /\ DOMAIN x = DOMAIN Idle /\ x.pc = p /\ x.req = y.req /\ x.rest = y.rest /\ x.fd = y.fd
           /\ x.file = y.file /\ x.stack = y.stack /\ x.probe = y.probe
BY Fields

\* mkdirat for a name of a path: whoever made the directory, this thread opens and
\* hands it over next.
LEMMA MkdirStep ==
    ASSUME FilesInv, NEW t \in Thread, Walking(t) \/ Located(t),
           NEW p \in {"descend", "adopt"}, p = "descend" => Creates(t),
           MkdirAt(t, [th[t] EXCEPT !.pc = p]), UNCHANGED <<connected, tampers, lost>>
    PROVE  FilesInv'
<1>1. th[t].pc = "locate" /\ th[t].pc \in Open
  BY DEF Walking, Located, At, Open
<1>2. /\ th[t].fd \in InsideDir /\ th[t].rest \in Seq(Names) /\ Len(th[t].rest) > 0
      /\ Name(t) \in Names /\ th[t].req \in Request /\ DOMAIN th[t] = DOMAIN Idle
      /\ th[t].stack \in Seq(Frame)
  BY <1>1, AtWork DEF FilesInv
<1> DEFINE d == th[t].fd
           n == Name(t)
           x == [th[t] EXCEPT !.pc = p]
<1>3. /\ DOMAIN x = DOMAIN Idle /\ x.pc = p /\ x.req = th[t].req /\ x.rest = th[t].rest
      /\ x.fd = d /\ x.stack = th[t].stack
  BY <1>2, Relabelled
<1>4. ThreadOK(x) /\ Adopts(x, d, n)
  <2> HIDE DEF x
  <2>1. ThreadOK(x)
    BY <1>2, <1>3 DEF ThreadOK, Open, Naming, Creates, OpOf
  <2>2. Adopts(x, d, n)
    BY <1>3 DEF Adopts, Name
  <2> QED  BY <2>1, <2>2
<1>5. \/ Set(t, x) /\ UNCHANGED <<entry, owner, touched>>
      \/ Fail(t) /\ UNCHANGED <<entry, owner, touched>>
      \/ /\ Set(t, x) /\ touched' = touched \cup ({d} \cap Outside)
         /\ \E i \in Fresh(NewDir) : /\ entry' = [entry EXCEPT ![d][n] = i]
                                     /\ owner' = [owner EXCEPT ![i] = "other"]
  BY DEF MkdirAt, Touch, Name
<1> HIDE DEF d, n, x
<1>6. CASE UNCHANGED <<entry, owner, touched>> /\ (Set(t, x) \/ Fail(t))
  <2>1. ThreadsOK'
    BY <1>1, <1>4, <1>6, SetOK, FinishOK DEF FilesInv, Fail
  <2>2. BeingHandedOver'
    BY <1>1, <1>6, QuietHandover DEF FilesInv, Fail, Finish, Handing
  <2> QED  BY <1>6, <2>1, <2>2 DEF FilesInv, HomeOK, StaysInHome
<1>7. ASSUME Set(t, x), touched' = touched \cup ({d} \cap Outside), NEW i \in Fresh(NewDir),
             entry' = [entry EXCEPT ![d][n] = i], owner' = [owner EXCEPT ![i] = "other"]
      PROVE  FilesInv'
  <2>1. d \in InsideDir /\ n \in Names /\ i \in NewDir /\ i \in Inode \ Outside /\ d \in Dir
        /\ owner[i] # "sandbox" /\ i # "alien"
    BY <1>2, Kinds DEF d, n, Fresh, None
  <2>2. ThreadsOK'
    BY <1>4, <1>7, SetOK DEF FilesInv
  <2>3. HomeOK'
    BY <1>7, <2>1, Kinds DEF FilesInv, HomeOK
  <2>4. StaysInHome'
    BY <1>7, <2>1, Kinds DEF FilesInv, StaysInHome
  <2>5. BeingHandedOver'
    <3>1. th'[t] = x /\ \A u \in Thread : u # t => th'[u] = th[u]
      BY <1>7 DEF Set, FilesInv, ThreadsOK
    <3>2. tampers' \in Nat
      BY DEF FilesInv, BeingHandedOver
    <3>3. ASSUME NEW e \in InsideDir, NEW m \in Names, Untampered', Owed(entry[e][m])',
                 entry'[e][m] \in NewDir \cup NewFile
          PROVE  /\ entry'[e][m] \in NewDir => \E u \in Thread : Adopts(th'[u], e, m) \/ Hands(th'[u], entry'[e][m])
                 /\ entry'[e][m] \in NewFile => \E u \in Thread : Hands(th'[u], entry'[e][m])
      <4>1. CASE e = d /\ m = n
        <5>1. entry'[e][m] = i
          BY <1>7, <2>1, <4>1 DEF FilesInv, HomeOK
        <5> QED  BY <1>4, <2>1, <3>1, <4>1, <5>1, Kinds
      <4>2. CASE ~(e = d /\ m = n)
        <5>1. entry'[e][m] = entry[e][m]
          BY <1>7, <2>1, <4>2, Kinds DEF FilesInv, HomeOK
        <5>2. entry[e][m] \in Inode
          BY <5>1, <3>3, Kinds
        <5>3. Owed(entry[e][m]) /\ Untampered
          BY <1>7, <2>1, <3>3, <5>1, <5>2 DEF Owed, Untampered, FilesInv, HomeOK
        <5> QED  BY <1>1, <3>1, <3>3, <5>1, <5>3 DEF FilesInv, BeingHandedOver, Adopts, Hands
      <4> QED  BY <4>1, <4>2
    <3> QED  BY <3>2, <3>3 DEF BeingHandedOver
  <2> QED  BY <2>2, <2>3, <2>4, <2>5 DEF FilesInv
<1> QED  BY <1>5, <1>6, <1>7

\* A thread that had something to open by its name or to hand over has it open now, or is
\* done with it: it was handed over, or that failed, or it is not of the server's making.
LEMMA HandoverGoesOn ==
    ASSUME FilesInv, NEW t \in Thread, NEW r, Set(t, r), UNCHANGED <<entry, tampers>>,
           \A i \in Inode : Owed(i)' => Owed(i),
           \A d \in InsideDir, n \in Names :
              /\ Adopts(th[t], d, n) /\ entry[d][n] \in NewDir => Hands(r, entry[d][n]) \/ ~Owed(entry[d][n])'
              /\ Hands(th[t], entry[d][n]) => Hands(r, entry[d][n]) \/ ~Owed(entry[d][n])'
    PROVE  BeingHandedOver'
<1>1. th'[t] = r /\ \A u \in Thread : u # t => th'[u] = th[u]
  BY DEF Set, FilesInv, ThreadsOK
<1>2. tampers' \in Nat
  BY DEF FilesInv, BeingHandedOver
<1>3. ASSUME NEW e \in InsideDir, NEW m \in Names, Untampered', Owed(entry[e][m])',
             entry'[e][m] \in NewDir \cup NewFile
      PROVE  /\ entry'[e][m] \in NewDir => \E u \in Thread : Adopts(th'[u], e, m) \/ Hands(th'[u], entry'[e][m])
             /\ entry'[e][m] \in NewFile => \E u \in Thread : Hands(th'[u], entry'[e][m])
  <2> DEFINE i == entry[e][m]
  <2>1. entry'[e][m] = i /\ i \in Inode /\ i \in NewDir \cup NewFile /\ Owed(i)'
    BY <1>3, Kinds
  <2>2. Owed(i) /\ Untampered
    BY <1>3, <2>1 DEF Untampered
  <2>3. /\ i \in NewDir => \E u \in Thread : Adopts(th[u], e, m) \/ Hands(th[u], i)
        /\ i \in NewFile => \E u \in Thread : Hands(th[u], i)
    BY <2>2 DEF FilesInv, BeingHandedOver
  <2>4. /\ Adopts(th[t], e, m) /\ i \in NewDir => Hands(th'[t], i)
        /\ Hands(th[t], i) => Hands(th'[t], i)
    BY <1>1, <2>1
  <2> HIDE DEF i
  <2> QED
    BY <1>1, <2>1, <2>3, <2>4
<1> QED
  BY <1>2, <1>3 DEF BeingHandedOver

\* fchown of a directory or file of the home, done or refused.
LEMMA HandOverHome ==
    ASSUME HomeOK, StaysInHome, NEW i \in InsideDir \cup (File \ Outside), HandOver(i),
           UNCHANGED <<entry, connected>>
    PROVE  /\ HomeOK' /\ StaysInHome' /\ ~Owed(i)'
           /\ \A j \in Inode : Owed(j)' => Owed(j)
<1>1. i \in Inode /\ i # "alien" /\ i \notin Outside
  BY Kinds
<1>2. CASE /\ owner' = [owner EXCEPT ![i] = "sandbox"] /\ lost' = lost \ {i}
           /\ touched' = touched \cup ({i} \cap Outside)
  <2>1. HomeOK'
    BY <1>1, <1>2 DEF HomeOK
  <2>2. StaysInHome'
    BY <1>1, <1>2 DEF StaysInHome
  <2>3. ~Owed(i)' /\ \A j \in Inode : Owed(j)' => Owed(j)
    BY <1>1, <1>2 DEF HomeOK, Owed
  <2> QED  BY <2>1, <2>2, <2>3
<1>3. CASE lost' = lost \cup {i} /\ UNCHANGED <<owner, touched>>
  BY <1>1, <1>3 DEF HomeOK, StaysInHome, Owed
<1> QED
  BY <1>2, <1>3 DEF HandOver, Touch

\* Opening the next directory of a path keeps the invariant.
LEMMA LocateOpenStep ==
    ASSUME FilesInv, NEW t \in Thread, LocateOpen(t)
    PROVE  FilesInv'
<1>1. /\ th[t].pc \in {"descend", "locate"} /\ th[t].pc \in Open
      /\ th[t].pc = "descend" \/ Walking(t)
      /\ th[t].pc = "descend" => th[t].pc \in Naming
  BY DEF LocateOpen, Walking, At, Open, Naming
<1>2. /\ th[t].fd \in InsideDir /\ Name(t) \in Names /\ th[t].req \in Request
      /\ DOMAIN th[t] = DOMAIN Idle /\ Tail(th[t].rest) \in Seq(Names) /\ th[t].stack \in Seq(Frame)
  BY <1>1, AtWork DEF FilesInv
<1>3. th[t].pc = "descend" <=> Creates(t)
  BY <1>1 DEF LocateOpen, FilesInv, ThreadsOK, ThreadOK, Creates, OpOf, Walking, At
<1>4. UNCHANGED <<entry, owner, touched, connected, tampers, lost>>
  BY DEF LocateOpen, fsVars, histVars
<1> DEFINE opened == OpenDirAt(th[t].fd, Name(t))
           next == IF Creates(t) THEN "give" ELSE "locate"
           r(d) == [th[t] EXCEPT !.pc = next, !.fd = d, !.rest = Tail(@)]
<1>5. /\ opened \subseteq InsideDir /\ \A i \in opened : i = entry[th[t].fd][Name(t)]
      /\ opened = {} => entry[th[t].fd][Name(t)] \notin NewDir
  BY <1>2, Opened DEF FilesInv
<1>6. (\E d \in opened : Set(t, r(d))) \/ (opened = {} /\ Fail(t))
  BY DEF LocateOpen
<1>7. \A d \in InsideDir : ThreadOK(r(d)) /\ (Creates(t) => Hands(r(d), d))
  BY <1>2, Fields DEF ThreadOK, Open, Naming, Creates, OpOf, Hands
<1>8. /\ ~Hands(th[t], entry[th[t].fd][Name(t)])
      /\ \A d, n : ~Hands(th[t], entry[d][n]) /\ (Adopts(th[t], d, n) => d = th[t].fd /\ n = Name(t) /\ Creates(t))
  BY <1>1, <1>3 DEF Hands, Adopts, Name
<1> HIDE DEF opened, r, next
<1>9. \A i \in Inode : Owed(i)' => Owed(i)
  BY <1>4 DEF Owed
<1>10. HomeOK' /\ StaysInHome'
  BY <1>4 DEF FilesInv, HomeOK, StaysInHome
<1>11. ASSUME NEW d \in opened, Set(t, r(d)) PROVE FilesInv'
  <2>1. d \in InsideDir /\ d = entry[th[t].fd][Name(t)]
    BY <1>5
  <2>2. ThreadsOK'
    BY <1>7, <1>11, <2>1, SetOK DEF FilesInv
  <2>3. \A e, n : Adopts(th[t], e, n) => Hands(r(d), entry[e][n])
    BY <1>7, <1>8, <2>1
  <2>4. BeingHandedOver'
    BY <1>4, <1>8, <1>9, <1>11, <2>3, HandoverGoesOn
  <2> QED  BY <1>10, <2>2, <2>4 DEF FilesInv
<1>12. ASSUME opened = {}, Fail(t) PROVE FilesInv'
  <2>1. ThreadsOK'
    BY <1>1, <1>12, FinishOK DEF FilesInv, Fail
  <2>2. \A e, n : Adopts(th[t], e, n) => entry[e][n] \notin NewDir
    BY <1>5, <1>8, <1>12
  <2>3. BeingHandedOver'
    BY <1>4, <1>8, <1>9, <1>12, <2>2, HandoverGoesOn DEF Fail, Finish
  <2> QED  BY <1>10, <2>1, <2>3 DEF FilesInv
<1> QED
  BY <1>6, <1>11, <1>12

\* Handing over what was opened: a directory of a path, one that mkdir made, or a file.
LEMMA HandStep ==
    ASSUME FilesInv, NEW t \in Thread, LocateGive(t) \/ MkdirHand(t) \/ WriteOwn(t)
    PROVE  FilesInv'
<1>0. PICK i : i = IF th[t].pc = "give" THEN th[t].fd ELSE th[t].file
  OBVIOUS
<1> DEFINE x(p) == [th[t] EXCEPT !.pc = p]
<1>1. /\ th[t].pc \in {"give", "hand", "own"} /\ th[t].pc \in Open /\ HandOver(i)
      /\ UNCHANGED <<entry, connected, tampers>>
      /\ \/ th[t].pc = "give" /\ Set(t, x("locate"))
         \/ Finish(t, "ok")
         \/ th[t].pc = "own" /\ Set(t, x("body"))
  BY <1>0 DEF LocateGive, MkdirHand, WriteOwn, At, keptVars, Open
<1>2. ThreadOK(th[t])
  BY DEF FilesInv, ThreadsOK
<1>3. i \in InsideDir \cup (File \ Outside) /\ \A j : Hands(th[t], j) => j = i
  BY <1>0, <1>1, <1>2 DEF ThreadOK, Hands
<1>4. /\ th[t].pc = "give" => ThreadOK(x("locate"))
      /\ th[t].pc = "own" => ThreadOK(x("body"))
  BY <1>1, <1>2, Fields DEF ThreadOK, Open, Naming
<1> HIDE DEF x
<1>5. ThreadsOK'
  BY <1>1, <1>4, SetOK, FinishOK DEF FilesInv
<1>6. HomeOK' /\ StaysInHome' /\ ~Owed(i)' /\ \A j \in Inode : Owed(j)' => Owed(j)
  BY <1>1, <1>3, HandOverHome DEF FilesInv
<1>7. \A d, n : ~Adopts(th[t], d, n)
  BY <1>1 DEF Adopts
<1>8. \A d, n : Hands(th[t], entry[d][n]) => ~Owed(entry[d][n])'
  BY <1>1, <1>3, <1>6
<1>9. PICK r : Set(t, r)
  BY <1>1 DEF Finish
<1>10. BeingHandedOver'
  BY <1>1, <1>6, <1>7, <1>8, <1>9, HandoverGoesOn
<1> QED
  BY <1>5, <1>6, <1>10 DEF FilesInv

\* Opening a directory that mkdir made keeps the invariant.
LEMMA MkdirAdoptStep ==
    ASSUME FilesInv, NEW t \in Thread, MkdirAdopt(t)
    PROVE  FilesInv'
<1>1. th[t].pc = "adopt" /\ th[t].pc \in Open /\ th[t].pc \in Naming
  BY DEF MkdirAdopt, At, Open, Naming
<1>2. th[t].fd \in InsideDir /\ Name(t) \in Names /\ ThreadOK(th[t])
  BY <1>1, AtWork DEF FilesInv, ThreadsOK
<1>3. UNCHANGED <<entry, owner, touched, connected, tampers, lost>>
  BY DEF MkdirAdopt, fsVars, histVars
<1> DEFINE opened == OpenDirAt(th[t].fd, Name(t))
           r(d) == [th[t] EXCEPT !.pc = "hand", !.file = d]
<1>4. /\ opened \subseteq InsideDir /\ \A i \in opened : i = entry[th[t].fd][Name(t)]
      /\ opened = {} => entry[th[t].fd][Name(t)] \notin NewDir
  BY <1>2, Opened DEF FilesInv
<1>5. (\E d \in opened : Set(t, r(d))) \/ (opened = {} /\ Fail(t))
  BY DEF MkdirAdopt
<1>6. \A d \in InsideDir : ThreadOK(r(d)) /\ Hands(r(d), d)
  BY <1>1, <1>2, Fields DEF ThreadOK, Open, Naming, Hands
<1>7. \A d, n : ~Hands(th[t], entry[d][n]) /\ (Adopts(th[t], d, n) => d = th[t].fd /\ n = Name(t))
  BY <1>1 DEF Hands, Adopts, Name
<1> HIDE DEF opened, r
<1>8. \A i \in Inode : Owed(i)' => Owed(i)
  BY <1>3 DEF Owed
<1>9. HomeOK' /\ StaysInHome'
  BY <1>3 DEF FilesInv, HomeOK, StaysInHome
<1>10. ASSUME NEW d \in opened, Set(t, r(d)) PROVE FilesInv'
  <2>1. d \in InsideDir /\ d = entry[th[t].fd][Name(t)]
    BY <1>4
  <2>2. ThreadsOK'
    BY <1>6, <1>10, <2>1, SetOK DEF FilesInv
  <2>3. \A e, n : Adopts(th[t], e, n) => Hands(r(d), entry[e][n])
    BY <1>6, <1>7, <2>1
  <2>4. BeingHandedOver'
    BY <1>3, <1>7, <1>8, <1>10, <2>3, HandoverGoesOn
  <2> QED  BY <1>9, <2>2, <2>4 DEF FilesInv
<1>11. ASSUME opened = {}, Fail(t) PROVE FilesInv'
  <2>1. ThreadsOK'
    BY <1>1, <1>11, FinishOK DEF FilesInv, Fail
  <2>2. \A e, n : Adopts(th[t], e, n) => entry[e][n] \notin NewDir
    BY <1>4, <1>7, <1>11
  <2>3. BeingHandedOver'
    BY <1>3, <1>7, <1>8, <1>11, <2>2, HandoverGoesOn DEF Fail, Finish
  <2> QED  BY <1>9, <2>1, <2>3 DEF FilesInv
<1> QED
  BY <1>5, <1>10, <1>11

\* A refused open ends the request; what mkdirat made for it is accounted as lost.
LEMMA OpenFailsStep ==
    ASSUME FilesInv, NEW t \in Thread, OpenFails(t)
    PROVE  FilesInv'
<1>1. /\ th[t].pc \notin {"idle", "give", "hand", "own"} /\ Fail(t)
      /\ UNCHANGED <<entry, owner, touched, connected, tampers>> /\ lost \subseteq lost'
      /\ th[t].pc \in {"descend", "adopt"} => entry[th[t].fd][Name(t)] \in lost'
  BY DEF OpenFails, fsVars, keptVars
<1>2. ThreadsOK'
  BY <1>1, FinishOK DEF FilesInv, Fail
<1>3. HomeOK' /\ StaysInHome'
  BY <1>1 DEF FilesInv, HomeOK, StaysInHome
<1>4. \A i : Owed(i)' => Owed(i)
  BY <1>1 DEF Owed
<1>5. \A d, n : ~Hands(th[t], entry[d][n]) /\ (Adopts(th[t], d, n) => ~Owed(entry[d][n])')
  BY <1>1 DEF Hands, Adopts, Name, Owed
<1>6. BeingHandedOver'
  BY <1>1, <1>4, <1>5, HandoverGoesOn DEF Fail, Finish
<1> QED  BY <1>2, <1>3, <1>6 DEF FilesInv

\* Entries stay, or one of the home goes.
Unlinks == \/ entry' = entry
           \/ \E d \in InsideDir, n \in Names : entry' = [entry EXCEPT ![d][n] = None]

\* A step that makes and hands over nothing.
LEMMA QuietStep ==
    ASSUME FilesInv, NEW t \in Thread, th[t].pc \notin Handing, Unlinks,
           NEW r, Set(t, r), ThreadsOK', UNCHANGED <<owner, tampers, lost>>, StaysInHome'
    PROVE  FilesInv'
<1>1. /\ entry' \in [Dir -> [Names -> Inode \cup {None}]]
      /\ \A d \in InsideDir, n \in Names : entry'[d][n] \in {entry[d][n], None}
  <2>1. CASE entry' = entry
    BY <2>1 DEF FilesInv, HomeOK
  <2>2. ASSUME NEW d \in InsideDir, NEW n \in Names, entry' = [entry EXCEPT ![d][n] = None]
        PROVE  /\ entry' \in [Dir -> [Names -> Inode \cup {None}]]
               /\ \A e \in InsideDir, m \in Names : entry'[e][m] \in {entry[e][m], None}
    BY <2>2, Kinds DEF FilesInv, HomeOK
  <2> QED  BY <2>1, <2>2 DEF Unlinks
<1>2. None \notin Outside
  BY DEF None, Outside
<1>3. HomeOK'
  BY <1>1, <1>2 DEF FilesInv, HomeOK
<1>4. BeingHandedOver'
  BY <1>1, QuietHandover DEF FilesInv
<1> QED  BY <1>3, <1>4 DEF FilesInv

\* A request that answers after at most removing names keeps the invariant.
LEMMA QuietFinish ==
    ASSUME FilesInv, NEW t \in Thread, th[t].pc \notin Handing \cup {"idle"}, Unlinks,
           NEW a \in {"ok", "error"}, Finish(t, a), UNCHANGED <<owner, tampers, lost>>, StaysInHome'
    PROVE  FilesInv'
<1>1. ThreadsOK'
  BY FinishOK DEF FilesInv
<1> QED  BY <1>1, QuietStep DEF Finish

\* What is done to the home itself, and what only looks.
LEMMA LookSteps ==
    ASSUME FilesInv, NEW t \in Thread,
           OnRoot(t) \/ Read(t) \/ Stat(t) \/ ListOpen(t) \/ ListEntry(t) \/ ListEntries(t)
    PROVE  FilesInv'
<1>1. /\ th[t].pc \in {"locate", "entries"} /\ th[t].pc \in Open
      /\ th[t].pc \notin Handing \cup {"idle"}
  BY DEF OnRoot, Read, Stat, ListOpen, ListEntry, ListEntries, RootNamed, Located, At, Open, Handing
<1>2. /\ th[t].fd \in InsideDir /\ th[t].req \in Request /\ DOMAIN th[t] = DOMAIN Idle
      /\ th[t].rest \in Seq(Names) /\ th[t].stack \in Seq(Frame)
      /\ Located(t) => Name(t) \in Names
  BY <1>1, AtWork, SMTT(30) DEF FilesInv
<1>3. UNCHANGED <<entry, owner, connected, tampers, lost>> /\ Unlinks
  BY DEF OnRoot, Read, Stat, ListOpen, ListEntry, ListEntries, fsVars, histVars, keptVars, Unlinks
<1>4. ASSUME touched' = touched \/ \E S : Touch(S) /\ S \cap Outside = {}
      PROVE  StaysInHome'
  BY <1>3, <1>4 DEF FilesInv, StaysInHome, Touch
<1>5. \A d \in InsideDir : ThreadOK(Listing(t, d))
  BY <1>2, Fields DEF ThreadOK, Open, Naming, Listing
<1>6. CASE OnRoot(t)
  <2>1. StaysInHome'
    BY <1>4, <1>6, Kinds DEF OnRoot
  <2>2. CASE Finish(t, "ok") \/ Finish(t, "error")
    BY <1>1, <1>3, <2>1, <2>2, QuietFinish
  <2>3. CASE Set(t, Listing(t, th[t].fd))
    <3>1. ThreadsOK'
      BY <1>2, <1>5, <2>3, SetOK DEF FilesInv
    <3> QED  BY <1>1, <1>3, <2>1, <2>3, <3>1, QuietStep
  <2> QED  BY <1>6, <2>2, <2>3 DEF OnRoot, Fail
<1>7. CASE Read(t)
  <2> DEFINE files == OpenAt(th[t].fd, Name(t)) \cap (File \ {"fifo"})
  <2>1. files \cap Outside = {}
    BY <1>2, <1>7, Opened DEF FilesInv, Read
  <2>2. Touch(files) /\ Finish(t, IF files = {} THEN "error" ELSE "ok")
    BY <1>7 DEF Read
  <2> HIDE DEF files
  <2>3. StaysInHome'
    BY <1>4, <2>1, <2>2
  <2> QED  BY <1>1, <1>3, <2>2, <2>3, QuietFinish
<1>8. CASE Stat(t)
  <2> DEFINE found == OpenPathAt(th[t].fd, Name(t))
  <2>1. found \cap Outside = {}
    BY <1>2, <1>8, Opened DEF FilesInv, Stat
  <2>2. Touch(found) /\ Finish(t, IF found = {} THEN "error" ELSE "ok")
    BY <1>8 DEF Stat
  <2> HIDE DEF found
  <2>3. StaysInHome'
    BY <1>4, <2>1, <2>2
  <2> QED  BY <1>1, <1>3, <2>2, <2>3, QuietFinish
<1>9. CASE ListOpen(t)
  <2>1. StaysInHome'
    BY <1>4, <1>9 DEF ListOpen, fsVars
  <2>2. ASSUME NEW d \in OpenDirAt(th[t].fd, Name(t)), Set(t, Listing(t, d))
        PROVE  FilesInv'
    <3>1. d \in InsideDir
      BY <1>2, <1>9, Opened DEF FilesInv, ListOpen
    <3>2. ThreadsOK'
      BY <1>5, <2>2, <3>1, SetOK DEF FilesInv
    <3> QED  BY <1>1, <1>3, <2>1, <2>2, <3>2, QuietStep
  <2>3. CASE Fail(t)
    BY <1>1, <1>3, <2>1, <2>3, QuietFinish DEF Fail
  <2> QED  BY <1>9, <2>2, <2>3 DEF ListOpen
<1>10. CASE ListEntry(t)
  <2> DEFINE x(n, f, m) == [th[t] EXCEPT !.scan = @ \ {n}, !.found = f, !.missed = m]
  <2>1. ThreadOK(th[t]) /\ th[t].pc = "entries"
    BY <1>10 DEF FilesInv, ThreadsOK, ListEntry, At
  <2>2. PICK n \in th[t].scan : \E f, m, S :
          /\ Set(t, x(n, f, m)) /\ f \subseteq th[t].found \cup {n}
          /\ Touch(S) /\ S \subseteq {th[t].fd} \cup OpenPathAt(th[t].fd, n)
    <3>1. PICK n \in th[t].scan :
            LET there == OpenPathAt(th[t].fd, n)
                visited == [th[t] EXCEPT !.scan = @ \ {n}]
            IN  \/ /\ Touch({th[t].fd} \cup there)
                   /\ Set(t, IF there = {} THEN visited ELSE [visited EXCEPT !.found = @ \cup {n}])
                \/ Touch({th[t].fd}) /\ Set(t, [visited EXCEPT !.missed = @ \cup {n}])
      BY <1>10 DEF ListEntry
    <3> DEFINE v == [th[t] EXCEPT !.scan = @ \ {n}]
    <3>2. /\ v = x(n, th[t].found, th[t].missed)
          /\ [v EXCEPT !.found = @ \cup {n}] = x(n, th[t].found \cup {n}, th[t].missed)
          /\ [v EXCEPT !.missed = @ \cup {n}] = x(n, th[t].found, th[t].missed \cup {n})
      BY <1>2, Fields
    <3> HIDE DEF x
    <3>3. CASE Touch({th[t].fd}) /\ Set(t, [v EXCEPT !.missed = @ \cup {n}])
      BY <3>2, <3>3
    <3>4. CASE /\ Touch({th[t].fd} \cup OpenPathAt(th[t].fd, n))
               /\ Set(t, v) \/ Set(t, [v EXCEPT !.found = @ \cup {n}])
      BY <3>2, <3>4
    <3> QED  BY <3>1, <3>3, <3>4
  <2>3. PICK f, m, S : /\ Set(t, x(n, f, m)) /\ f \subseteq th[t].found \cup {n}
                       /\ Touch(S) /\ S \subseteq {th[t].fd} \cup OpenPathAt(th[t].fd, n)
    BY <2>2
  <2>4. n \in Names /\ f \subseteq Names
    BY <2>1, <2>3 DEF ThreadOK
  <2>5. ThreadOK(x(n, f, m))
    BY <1>2, <2>1, <2>4, Fields DEF ThreadOK, Open, Naming
  <2> HIDE DEF x
  <2>6. StaysInHome'
    <3>1. S \cap Outside = {}
      BY <1>2, <2>3, <2>4, Opened, Kinds DEF FilesInv
    <3> QED  BY <1>4, <2>3, <3>1
  <2>7. ThreadsOK'
    BY <2>3, <2>5, SetOK DEF FilesInv
  <2> QED  BY <1>1, <1>3, <2>3, <2>6, <2>7, QuietStep
<1>11. CASE ListEntries(t)
  <2>1. StaysInHome'
    BY <1>4, <1>11 DEF ListEntries, fsVars
  <2> DEFINE y(s, m) == [Begun(th[t].req) EXCEPT !.seen = s, !.missed = m]
             x(s, m) == [y(s, m) EXCEPT !.pc = "ok", !.rest = <<>>, !.fd = None]
  <2>2. \E s, m : Set(t, x(s, m)) \/ Set(t, y(s, m))
    BY <1>11, ZenonT(30) DEF ListEntries
  <2>3. PICK s, m : Set(t, x(s, m)) \/ Set(t, y(s, m))
    BY <2>2
  <2>4. ThreadOK(y(s, m))
    BY <1>2, BegunOK
  <2>5. ThreadOK(x(s, m))
    <3>1. DOMAIN Begun(th[t].req) = DOMAIN Idle /\ Begun(th[t].req).stack = <<>> /\ Begun(th[t].req).req = th[t].req
      BY DEF Begun, Idle
    <3> DEFINE b == Begun(th[t].req)
               z == x(s, m)
    <3> HIDE DEF b
    <3>2. /\ DOMAIN z = DOMAIN Idle /\ z.pc = "ok" /\ z.rest = <<>> /\ z.stack = <<>>
          /\ z.req = th[t].req
      BY <3>1, Fields DEF b
    <3> HIDE DEF z
    <3>3. <<>> \in Seq(Names) /\ <<>> \in Seq(Frame)
      OBVIOUS
    <3>4. ThreadOK(z)
      BY <1>2, <3>2, <3>3 DEF ThreadOK, Open, Naming
    <3> QED  BY <3>4 DEF z
  <2> HIDE DEF x, y
  <2>6. ThreadsOK'
    BY <2>3, <2>4, <2>5, SetOK DEF FilesInv
  <2> QED  BY <1>1, <1>3, <2>1, <2>3, <2>6, QuietStep
<1> QED
  BY <1>6, <1>7, <1>8, <1>9, <1>10, <1>11, ZenonT(30)

\* Vetting and connecting to a socket keep the invariant.
LEMMA ConnectSteps ==
    ASSUME FilesInv, NEW t \in Thread, ConnectVet(t) \/ Connect(t)
    PROVE  FilesInv'
<1>1. th[t].pc \in {"locate", "connect"} /\ th[t].pc \in Open /\ th[t].pc \notin Handing \cup {"idle"}
  BY DEF ConnectVet, Connect, Located, At, Open, Handing
<1>2. /\ th[t].fd \in InsideDir /\ th[t].req \in Request /\ DOMAIN th[t] = DOMAIN Idle
      /\ th[t].rest \in Seq(Names) /\ th[t].stack \in Seq(Frame)
      /\ Located(t) => Name(t) \in Names
  BY <1>1, AtWork DEF FilesInv
<1>3. UNCHANGED <<owner, tampers, lost>> /\ Unlinks
  BY DEF ConnectVet, Connect, fsVars, histVars, failVars, Unlinks
<1>4. CASE ConnectVet(t)
  <2>1. StaysInHome'
    BY <1>4, ZenonT(30) DEF ConnectVet, fsVars, histVars, FilesInv, StaysInHome
  <2> DEFINE x(i) == [th[t] EXCEPT !.pc = "connect", !.file = i]
  <2>2. Fail(t) \/ \E i \in OpenPathAt(th[t].fd, Name(t)) :
                      i \in Socket /\ owner[i] = "sandbox" /\ Set(t, x(i))
    BY <1>4 DEF ConnectVet
  <2>3. \A i \in OpenPathAt(th[t].fd, Name(t)) : i \in Socket /\ owner[i] = "sandbox" => i = "sock"
    BY <1>2, <1>4, Opened DEF FilesInv, ConnectVet
  <2>4. ThreadOK(x("sock"))
    BY <1>2, Fields DEF ThreadOK, Open, Naming
  <2> HIDE DEF x
  <2>5. CASE Set(t, x("sock"))
    <3>1. ThreadsOK'
      BY <2>4, <2>5, SetOK DEF FilesInv
    <3> QED  BY <1>1, <1>3, <1>4, <2>1, <2>5, <3>1, QuietStep DEF ConnectVet, Located, At
  <2>6. CASE Fail(t)
    BY <1>1, <1>3, <2>1, <2>6, QuietFinish DEF Fail
  <2> QED  BY <2>2, <2>3, <2>5, <2>6
<1>5. CASE Connect(t)
  <2>1. th[t].file = "sock"
    BY <1>5 DEF Connect, At, FilesInv, ThreadsOK, ThreadOK
  <2>2. StaysInHome'
    BY <1>5, <2>1, Kinds DEF Connect, Touch, FilesInv, StaysInHome
  <2>3. Finish(t, "ok") \/ Finish(t, "error")
    BY <1>5 DEF Connect
  <2> QED  BY <1>1, <1>3, <2>2, <2>3, QuietFinish
<1> QED
  BY <1>4, <1>5

\* O_CREAT: the new file is this thread's to hand over.
LEMMA CreateFileStep ==
    ASSUME FilesInv, NEW t \in Thread, th[t].pc = "locate", NEW d \in InsideDir, NEW n \in Names,
           NEW f \in Fresh(NewFile), NEW r, ThreadOK(r), Hands(r, f), Set(t, r),
           entry' = [entry EXCEPT ![d][n] = f], owner' = [owner EXCEPT ![f] = "other"],
           Touch({d}), UNCHANGED <<connected, tampers, lost>>
    PROVE  FilesInv'
<1>1. f \in NewFile /\ f \in Inode \ Outside /\ d \in Dir /\ owner[f] # "sandbox" /\ f # "alien"
  BY Kinds DEF Fresh, None
<1>2. ThreadsOK'
  BY SetOK DEF FilesInv
<1>3. HomeOK'
  BY <1>1, Kinds DEF FilesInv, HomeOK
<1>4. StaysInHome'
  BY <1>1, Kinds DEF FilesInv, StaysInHome, Touch
<1>5. BeingHandedOver'
  <2>1. th'[t] = r /\ \A u \in Thread : u # t => th'[u] = th[u]
    BY DEF Set, FilesInv, ThreadsOK
  <2>2. tampers' \in Nat
    BY DEF FilesInv, BeingHandedOver
  <2>3. ASSUME NEW e \in InsideDir, NEW m \in Names, Untampered', Owed(entry[e][m])',
               entry'[e][m] \in NewDir \cup NewFile
        PROVE  /\ entry'[e][m] \in NewDir => \E u \in Thread : Adopts(th'[u], e, m) \/ Hands(th'[u], entry'[e][m])
               /\ entry'[e][m] \in NewFile => \E u \in Thread : Hands(th'[u], entry'[e][m])
    <3>1. CASE e = d /\ m = n
      <4>1. entry'[e][m] = f
        BY <1>1, <3>1 DEF FilesInv, HomeOK
      <4> QED  BY <1>1, <2>1, <4>1, Kinds
    <3>2. CASE ~(e = d /\ m = n)
      <4>1. entry'[e][m] = entry[e][m]
        BY <1>1, <3>2, Kinds DEF FilesInv, HomeOK
      <4>2. entry[e][m] \in Inode
        BY <4>1, <2>3, Kinds
      <4>3. Owed(entry[e][m]) /\ Untampered
        BY <1>1, <2>3, <4>1, <4>2 DEF Owed, Untampered, FilesInv, HomeOK
      <4> QED  BY <2>1, <2>3, <4>1, <4>3 DEF FilesInv, BeingHandedOver, Adopts, Hands
    <3> QED  BY <3>1, <3>2
  <2> QED  BY <2>2, <2>3 DEF BeingHandedOver
<1> QED
  BY <1>2, <1>3, <1>4, <1>5 DEF FilesInv

\* Opening or creating the file of an upload keeps the invariant.
LEMMA WriteOpenStep ==
    ASSUME FilesInv, NEW t \in Thread, WriteOpen(t)
    PROVE  FilesInv'
<1>1. /\ th[t].pc = "locate" /\ th[t].pc \in Open /\ Located(t) /\ UNCHANGED <<connected, tampers, lost>>
      /\ th[t].pc \notin Handing \cup {"idle"}
  BY DEF WriteOpen, Located, At, Open, histVars, Handing
<1>2. /\ th[t].fd \in InsideDir /\ th[t].req \in Request /\ DOMAIN th[t] = DOMAIN Idle
      /\ th[t].rest \in Seq(Names) /\ th[t].stack \in Seq(Frame) /\ Name(t) \in Names
  BY <1>1, AtWork DEF FilesInv
<1> DEFINE regular == OpenAt(th[t].fd, Name(t)) \cap (File \ {"fifo"})
           x(f) == [th[t] EXCEPT !.pc = "own", !.file = f]
<1>3. regular \subseteq File \ Outside
  BY <1>2, Opened DEF FilesInv
<1>4. \A f \in File \ Outside : ThreadOK(x(f)) /\ Hands(x(f), f)
  BY <1>2, Fields DEF ThreadOK, Open, Naming, Hands
<1>5. \/ \E f \in regular : /\ Set(t, x(f)) /\ UNCHANGED <<entry, owner>>
                            /\ Touch({f}) \/ UNCHANGED touched
      \/ \E f \in Fresh(NewFile) :
           /\ Set(t, x(f)) /\ entry' = [entry EXCEPT ![th[t].fd][Name(t)] = f]
           /\ owner' = [owner EXCEPT ![f] = "other"] /\ Touch({th[t].fd})
      \/ Fail(t) /\ UNCHANGED <<entry, owner, touched>>
  BY DEF WriteOpen, fsVars
<1> HIDE DEF regular, x
<1>6. ASSUME NEW f \in regular, Set(t, x(f)), UNCHANGED <<entry, owner>>,
             Touch({f}) \/ UNCHANGED touched
      PROVE  FilesInv'
  <2>1. f \in File \ Outside
    BY <1>3
  <2>2. StaysInHome'
    BY <1>1, <1>6, <2>1 DEF FilesInv, StaysInHome, Touch
  <2>3. ThreadsOK'
    BY <1>4, <1>6, <2>1, SetOK DEF FilesInv
  <2> QED  BY <1>1, <1>6, <2>2, <2>3, QuietStep DEF Unlinks
<1>7. ASSUME NEW f \in Fresh(NewFile), Set(t, x(f)), Touch({th[t].fd}),
             entry' = [entry EXCEPT ![th[t].fd][Name(t)] = f],
             owner' = [owner EXCEPT ![f] = "other"]
      PROVE  FilesInv'
  <2>1. f \in File \ Outside
    BY Kinds DEF Fresh
  <2> QED  BY <1>1, <1>2, <1>4, <1>7, <2>1, CreateFileStep
<1>8. ASSUME Fail(t), UNCHANGED <<entry, owner, touched>>
      PROVE  FilesInv'
  <2>1. StaysInHome'
    BY <1>1, <1>8 DEF FilesInv, StaysInHome
  <2> QED  BY <1>1, <1>8, <2>1, QuietFinish DEF Fail, Unlinks
<1> QED
  BY <1>5, <1>6, <1>7, <1>8

\* Receiving the body of an upload and fixing its length keep the invariant.
LEMMA WriteSteps ==
    ASSUME FilesInv, NEW t \in Thread, WriteBody(t) \/ BodyBreaks(t) \/ WriteSetLen(t)
    PROVE  FilesInv'
<1>1. /\ th[t].pc \in {"body", "setlen"} /\ th[t].pc \notin Handing \cup {"idle"}
      /\ UNCHANGED <<entry, owner, connected, tampers, lost>> /\ Unlinks
      /\ UNCHANGED touched \/ Touch({th[t].file})
  BY DEF WriteBody, BodyBreaks, WriteSetLen, At, fsVars, histVars, failVars, Unlinks, Handing
<1>2. ThreadOK(th[t]) /\ th[t].file \in File \ Outside /\ th[t].req \in Request
  BY <1>1 DEF FilesInv, ThreadsOK, ThreadOK
<1>3. StaysInHome'
  BY <1>1, <1>2 DEF FilesInv, StaysInHome, Touch
<1>4. CASE WriteBody(t)
  <2> DEFINE x == [th[t] EXCEPT !.pc = "setlen"]
  <2>1. Set(t, x)
    BY <1>4 DEF WriteBody
  <2>2. ThreadOK(x)
    BY <1>1, <1>2, Fields DEF ThreadOK, Open, Naming
  <2> HIDE DEF x
  <2>3. ThreadsOK'
    BY <2>1, <2>2, SetOK DEF FilesInv
  <2> QED  BY <1>1, <1>3, <2>1, <2>3, QuietStep
<1>5. CASE BodyBreaks(t)
  <2>1. Set(t, Begun(th[t].req))
    BY <1>5 DEF BodyBreaks
  <2>2. ThreadsOK'
    BY <1>2, <2>1, BegunOK, SetOK DEF FilesInv
  <2> QED  BY <1>1, <1>3, <2>1, <2>2, QuietStep
<1>6. CASE WriteSetLen(t)
  <2>1. Finish(t, "ok")
    BY <1>6 DEF WriteSetLen
  <2> QED  BY <1>1, <1>3, <2>1, QuietFinish
<1> QED
  BY <1>4, <1>5, <1>6

\* Deleting what a name leads to.
LEMMA DeleteSteps ==
    ASSUME FilesInv, NEW t \in Thread, DeleteStat(t) \/ DeleteUnlink(t)
    PROVE  FilesInv'
<1>1. /\ th[t].pc \in {"locate", "unlink", "rmdir"} /\ th[t].pc \in Open
      /\ UNCHANGED <<owner, connected, tampers, lost>> /\ th[t].pc \notin Handing \cup {"idle"}
      /\ Located(t) \/ th[t].pc \in Naming
  BY DEF DeleteStat, DeleteUnlink, Located, At, Open, Naming, fsVars, histVars, Handing
<1>2. /\ th[t].fd \in InsideDir /\ th[t].req \in Request /\ DOMAIN th[t] = DOMAIN Idle
      /\ th[t].rest \in Seq(Names) /\ th[t].stack \in Seq(Frame)
      /\ Len(th[t].rest) > 0 /\ Name(t) \in Names
  BY <1>1, AtWork DEF FilesInv
<1>3. CASE DeleteStat(t)
  <2>1. StaysInHome' /\ Unlinks
    BY <1>1, <1>3 DEF DeleteStat, fsVars, FilesInv, StaysInHome, Unlinks
  <2> DEFINE x(c) == [th[t] EXCEPT !.pc = c]
  <2>2. Fail(t) \/ \E c \in {"delete", "rmdir", "unlink"} : Set(t, x(c))
    BY <1>3 DEF DeleteStat
  <2>3. \A c \in {"delete", "rmdir", "unlink"} : ThreadOK(x(c))
    BY <1>2, Fields DEF ThreadOK, Open, Naming
  <2> HIDE DEF x
  <2>4. ASSUME NEW c \in {"delete", "rmdir", "unlink"}, Set(t, x(c)) PROVE FilesInv'
    <3>1. ThreadsOK'
      BY <2>3, <2>4, SetOK DEF FilesInv
    <3> QED  BY <1>1, <2>1, <2>4, <3>1, QuietStep
  <2>5. CASE Fail(t)
    BY <1>1, <2>1, <2>5, QuietFinish DEF Fail
  <2> QED  BY <2>2, <2>4, <2>5
<1>4. CASE DeleteUnlink(t)
  <2>1. \/ UnlinkAt(th[t].fd, Name(t)) /\ Finish(t, "ok")
        \/ Finish(t, "error") /\ UNCHANGED <<entry, touched>>
    BY <1>4 DEF DeleteUnlink, Fail
  <2>2. Unlinks
    BY <1>2, <2>1 DEF UnlinkAt, Unlinks
  <2>3. StaysInHome'
    BY <1>1, <1>2, <2>1, Kinds DEF UnlinkAt, Touch, FilesInv, StaysInHome
  <2> QED  BY <1>1, <2>1, <2>2, <2>3, QuietFinish
<1> QED
  BY <1>3, <1>4

-----------------------------------------------------------------------------
(* remove_dir_contents *)

\* The frames of a recursive delete.
LEMMA FramePushed ==
    ASSUME NEW a \in Frame, NEW s \in Seq(Frame)
    PROVE  <<a>> \o s \in Seq(Frame) /\ Len(<<a>> \o s) > 0
<1>1. <<a>> \in Seq(Frame) /\ Len(<<a>>) = 1 /\ Len(s) \in Nat
  OBVIOUS
<1>2. <<a>> \o s \in Seq(Frame) /\ Len(<<a>> \o s) = Len(<<a>>) + Len(s)
  BY <1>1, ConcatProperties
<1> QED  BY <1>1, <1>2

\* What the innermost directory of a recursive delete is.
LEMMA TopFrame ==
    ASSUME FilesInv, NEW t \in Thread, th[t].pc \in {"scan", "drop"}
    PROVE  /\ th[t].stack \in Seq(Frame) /\ Len(th[t].stack) > 0 /\ Top(t) = th[t].stack[1]
           /\ Top(t) \in Frame /\ Top(t).dir \in InsideDir /\ Top(t).name \in Names
           /\ Top(t).todo \subseteq Names /\ Top(t).subs \subseteq Names
           /\ Tail(th[t].stack) \in Seq(Frame)
           /\ Len(th[t].stack) # 1 => th[t].stack[2].dir \in InsideDir /\ Len(Tail(th[t].stack)) > 0
           /\ th[t].pc = "drop" => th[t].probe \in Names
<1> DEFINE s == th[t].stack
<1>1. s \in Seq(Frame) /\ Len(s) > 0 /\ Len(s) \in Nat /\ (th[t].pc = "drop" => th[t].probe \in Names)
  BY DEF FilesInv, ThreadsOK, ThreadOK
<1>2. Top(t) = Head(s)
  BY DEF Top
<1> HIDE DEF s
<1>3. /\ Head(s) = s[1] /\ s[1] \in Frame /\ Tail(s) \in Seq(Frame) /\ Len(Tail(s)) = Len(s) - 1
  <2>1. s # <<>>
    BY <1>1, EmptySeq
  <2> QED  BY <1>1, <2>1, HeadTailProperties
<1>4. ASSUME Len(s) # 1 PROVE s[2] \in Frame /\ Len(s) - 1 > 0
  <2> DEFINE k == Len(s)
  <2>1. k \in Nat /\ k > 0 /\ k # 1
    BY <1>1, <1>4
  <2> HIDE DEF k
  <2>2. 2 \in 1 .. k /\ k - 1 > 0
    BY ONLY <2>1
  <2> QED  BY <1>1, <2>2, ElementOfSeq DEF k
<1>5. \A a \in Frame : /\ a.dir \in InsideDir /\ a.name \in Names
                       /\ a.todo \subseteq Names /\ a.subs \subseteq Names
  BY DEF Frame
<1> QED
  BY <1>1, <1>2, <1>3, <1>4, <1>5 DEF s

\* Entering a directory to delete it keeps the invariant.
LEMMA PushStep ==
    ASSUME FilesInv, NEW t \in Thread, th[t].pc \in {"delete", "scan"},
           NEW parent \in InsideDir, NEW n \in Names, NEW rest \in Seq(Frame),
           Push(t, parent, n, rest), UNCHANGED <<fsVars, histVars>>
    PROVE  FilesInv'
<1>1. /\ UNCHANGED <<entry, owner, touched, connected, tampers, lost>> /\ Unlinks /\ StaysInHome'
      /\ th[t].pc \in Open /\ th[t].pc \in Naming /\ th[t].pc \notin Handing \cup {"idle"}
  BY DEF fsVars, histVars, Unlinks, FilesInv, StaysInHome, Open, Naming, Handing
<1>2. /\ th[t].fd \in InsideDir /\ th[t].req \in Request /\ DOMAIN th[t] = DOMAIN Idle
      /\ th[t].rest \in Seq(Names) /\ Len(th[t].rest) > 0
  BY <1>1, AtWork DEF FilesInv
<1> DEFINE listed(d) == {m \in Names : entry[d][m] # None}
           frames(d) == <<[dir |-> d, name |-> n, todo |-> listed(d), subs |-> {}]>> \o rest
           x(d) == [th[t] EXCEPT !.pc = "scan", !.stack = frames(d)]
<1>3. \/ \E d \in OpenDirAt(parent, n) : Set(t, x(d))
      \/ Fail(t)
  BY DEF Push
<1>4. OpenDirAt(parent, n) \subseteq InsideDir
  BY Opened DEF FilesInv
<1>5. ASSUME NEW d \in InsideDir PROVE ThreadOK(x(d))
  <2>1. [dir |-> d, name |-> n, todo |-> listed(d), subs |-> {}] \in Frame
    BY DEF Frame
  <2>2. frames(d) \in Seq(Frame) /\ Len(frames(d)) > 0
    <3> HIDE DEF listed
    <3> QED  BY <2>1, FramePushed
  <2> HIDE DEF frames
  <2> QED  BY <1>2, <2>2, Fields DEF ThreadOK, Open, Naming
<1> HIDE DEF x
<1>6. ASSUME NEW d \in OpenDirAt(parent, n), Set(t, x(d)) PROVE FilesInv'
  <2>1. ThreadsOK'
    BY <1>4, <1>5, <1>6, SetOK DEF FilesInv
  <2> QED  BY <1>1, <1>6, <2>1, QuietStep
<1>7. CASE Fail(t)
  BY <1>1, <1>7, QuietFinish DEF Fail
<1> QED
  BY <1>3, <1>6, <1>7

\* The two places where a recursive delete enters a directory.
LEMMA DescendSteps ==
    ASSUME FilesInv, NEW t \in Thread, DeleteTree(t) \/ PurgeDescend(t)
    PROVE  FilesInv'
<1>1. CASE DeleteTree(t)
  <2>1. th[t].pc = "delete" /\ th[t].pc \in Open /\ th[t].pc \in Naming
    BY <1>1 DEF DeleteTree, At, Open, Naming
  <2>2. th[t].fd \in InsideDir /\ Name(t) \in Names
    BY <2>1, AtWork DEF FilesInv
  <2>3. Push(t, th[t].fd, Name(t), <<>>) /\ UNCHANGED <<fsVars, histVars>> /\ <<>> \in Seq(Frame)
    BY <1>1 DEF DeleteTree
  <2> QED  BY <2>1, <2>2, <2>3, PushStep
<1>2. CASE PurgeDescend(t)
  <2>1. th[t].pc = "scan" /\ UNCHANGED <<fsVars, histVars>>
    BY <1>2 DEF PurgeDescend, At
  <2>2. PICK n \in Top(t).subs :
          Push(t, Top(t).dir, n, <<[Top(t) EXCEPT !.subs = @ \ {n}]>> \o Tail(th[t].stack))
    BY <1>2 DEF PurgeDescend
  <2>3. Top(t) \in Frame /\ Top(t).dir \in InsideDir /\ n \in Names /\ Tail(th[t].stack) \in Seq(Frame)
    BY <2>1, TopFrame
  <2>4. [Top(t) EXCEPT !.subs = @ \ {n}] \in Frame
    BY <2>3 DEF Frame
  <2>5. <<[Top(t) EXCEPT !.subs = @ \ {n}]>> \o Tail(th[t].stack) \in Seq(Frame)
    BY <2>3, <2>4, FramePushed
  <2> QED  BY <2>1, <2>2, <2>3, <2>5, PushStep
<1> QED
  BY <1>1, <1>2

\* Removing an entry, or finding that it is a directory, keeps the invariant.
LEMMA ProbeStep ==
    ASSUME FilesInv, NEW t \in Thread, PurgeProbe(t)
    PROVE  FilesInv'
<1>1. /\ th[t].pc = "scan" /\ UNCHANGED <<owner, tampers, lost>> /\ Unlinks /\ StaysInHome'
      /\ th[t].pc \in Open /\ th[t].pc \in Naming /\ th[t].pc \notin Handing
  BY DEF PurgeProbe, At, fsVars, histVars, Unlinks, FilesInv, StaysInHome, Open, Naming, Handing
<1>2. /\ th[t].fd \in InsideDir /\ th[t].req \in Request /\ DOMAIN th[t] = DOMAIN Idle
      /\ th[t].rest \in Seq(Names) /\ Len(th[t].rest) > 0
  BY <1>1, AtWork DEF FilesInv
<1>3. /\ th[t].stack \in Seq(Frame) /\ Len(th[t].stack) > 0 /\ th[t].stack[1] \in Frame
      /\ Top(t).todo \subseteq Names
  BY <1>1, TopFrame, SMTT(30)
<1> DEFINE s == th[t].stack
           goes(n) == [th[t] EXCEPT !.stack[1].todo = @ \ {n}, !.stack[1].subs = @ \cup {n}]
           drops(n) == [th[t] EXCEPT !.stack[1].todo = @ \ {n}, !.pc = "drop", !.probe = n]
           a(n) == [s[1] EXCEPT !.todo = @ \ {n}, !.subs = @ \cup {n}]
           b(n) == [s[1] EXCEPT !.todo = @ \ {n}]
<1>4. PICK n \in Names : Set(t, goes(n)) \/ Set(t, drops(n))
  BY <1>3 DEF PurgeProbe
<1>5. a(n) \in Frame /\ b(n) \in Frame
  BY <1>3 DEF Frame
<1>6. \A c \in Frame : [s EXCEPT ![1] = c] \in Seq(Frame) /\ Len([s EXCEPT ![1] = c]) = Len(s)
  <2> HIDE DEF s
  <2>1. s \in Seq(Frame) /\ 1 \in 1 .. Len(s)
    BY <1>3 DEF s
  <2> QED  BY <2>1, ExceptSeq
<1>7. ThreadOK(goes(n))
  <2> DEFINE x == goes(n)
  <2>1. /\ DOMAIN x = DOMAIN Idle /\ x.pc = "scan" /\ x.req = th[t].req /\ x.rest = th[t].rest
        /\ x.fd = th[t].fd /\ x.stack = [s EXCEPT ![1] = a(n)]
    BY <1>1, <1>2, <1>3, Fields
  <2> HIDE DEF goes, a, s
  <2>2. x.stack \in Seq(Frame) /\ Len(x.stack) > 0
    BY <1>3, <1>5, <1>6, <2>1 DEF s
  <2> QED  BY <1>2, <2>1, <2>2 DEF ThreadOK, Open, Naming
<1>8. ThreadOK(drops(n))
  <2> DEFINE x == drops(n)
  <2>1. /\ DOMAIN x = DOMAIN Idle /\ x.pc = "drop" /\ x.req = th[t].req /\ x.rest = th[t].rest
        /\ x.fd = th[t].fd /\ x.probe = n /\ x.stack = [s EXCEPT ![1] = b(n)]
    BY <1>1, <1>2, <1>3, Fields
  <2> HIDE DEF drops, b, s
  <2>2. x.stack \in Seq(Frame) /\ Len(x.stack) > 0
    BY <1>3, <1>5, <1>6, <2>1 DEF s
  <2> QED  BY <1>2, <2>1, <2>2 DEF ThreadOK, Open, Naming
<1> HIDE DEF goes, drops
<1>9. ThreadsOK'
  BY <1>4, <1>7, <1>8, SetOK DEF FilesInv
<1> QED
  BY <1>1, <1>4, <1>9, QuietStep

\* Removing an emptied directory and going back to its parent keep the invariant.
LEMMA PurgeSteps ==
    ASSUME FilesInv, NEW t \in Thread, PurgeDrop(t) \/ PurgeAscend(t)
    PROVE  FilesInv'
<1>1. /\ th[t].pc \in {"scan", "drop"} /\ UNCHANGED <<owner, connected, tampers, lost>>
      /\ th[t].pc \in Open /\ th[t].pc \in Naming /\ th[t].pc \notin Handing \cup {"idle"}
  BY DEF PurgeDrop, PurgeAscend, At, histVars, Open, Naming, Handing
<1>2. /\ th[t].fd \in InsideDir /\ th[t].req \in Request /\ DOMAIN th[t] = DOMAIN Idle
      /\ th[t].rest \in Seq(Names) /\ Len(th[t].rest) > 0
  BY <1>1, AtWork DEF FilesInv
<1> DEFINE s == th[t].stack
           scans == [th[t] EXCEPT !.pc = "scan", !.probe = None]
           rises == [th[t] EXCEPT !.stack = Tail(@)]
           parent == IF Len(s) = 1 THEN th[t].fd ELSE s[2].dir
<1>3. /\ s \in Seq(Frame) /\ Len(s) > 0 /\ Tail(s) \in Seq(Frame)
      /\ Top(t).dir \in InsideDir /\ Top(t).name \in Names /\ parent \in InsideDir
      /\ Len(s) # 1 => Len(Tail(s)) > 0
      /\ th[t].pc = "drop" => th[t].probe \in Names
  BY <1>1, <1>2, TopFrame
<1>4. ASSUME NEW d \in InsideDir, NEW n \in Names, UnlinkAt(d, n)
      PROVE  Unlinks /\ StaysInHome'
  BY <1>1, <1>4, Kinds DEF UnlinkAt, Touch, Unlinks, FilesInv, StaysInHome
<1>5. ASSUME Fail(t), UNCHANGED <<entry, touched>> PROVE FilesInv'
  <2>1. Unlinks /\ StaysInHome'
    BY <1>1, <1>5 DEF Unlinks, FilesInv, StaysInHome
  <2> QED  BY <1>1, <1>5, <2>1, QuietFinish DEF Fail
<1>6. CASE PurgeDrop(t)
  <2>1. \/ UnlinkAt(Top(t).dir, th[t].probe) /\ Set(t, scans)
        \/ Fail(t) /\ UNCHANGED <<entry, touched>>
    BY <1>6 DEF PurgeDrop
  <2>2. ThreadOK(scans) /\ th[t].probe \in Names
    BY <1>2, <1>3, <1>6, Fields DEF ThreadOK, Open, Naming, PurgeDrop, At
  <2> HIDE DEF scans
  <2>3. ASSUME UnlinkAt(Top(t).dir, th[t].probe), Set(t, scans) PROVE FilesInv'
    <3>1. ThreadsOK'
      BY <2>2, <2>3, SetOK DEF FilesInv
    <3>2. Unlinks /\ StaysInHome'
      BY <1>3, <1>4, <2>2, <2>3
    <3> QED  BY <1>1, <2>3, <3>1, <3>2, QuietStep
  <2> QED  BY <1>5, <2>1, <2>3
<1>7. CASE PurgeAscend(t)
  <2>1. \/ UnlinkAt(parent, Top(t).name) /\ Len(s) = 1 /\ Finish(t, "ok")
        \/ UnlinkAt(parent, Top(t).name) /\ Len(s) # 1 /\ Set(t, rises)
        \/ Fail(t) /\ UNCHANGED <<entry, touched>>
    BY <1>7 DEF PurgeAscend
  <2> HIDE DEF parent
  <2>2. UnlinkAt(parent, Top(t).name) => Unlinks /\ StaysInHome'
    BY <1>3, <1>4
  <2>3. CASE UnlinkAt(parent, Top(t).name) /\ Finish(t, "ok")
    BY <1>1, <2>2, <2>3, QuietFinish
  <2>4. CASE UnlinkAt(parent, Top(t).name) /\ Len(s) # 1 /\ Set(t, rises)
    <3>1. ThreadOK(rises)
      <4>1. /\ DOMAIN rises = DOMAIN Idle /\ rises.pc = th[t].pc /\ rises.req = th[t].req
            /\ rises.rest = th[t].rest /\ rises.fd = th[t].fd /\ rises.stack = Tail(s)
            /\ rises.probe = th[t].probe
        BY <1>2, Fields
      <4> HIDE DEF rises, s
      <4> QED  BY <1>1, <1>2, <1>3, <2>4, <4>1 DEF ThreadOK, Open, Naming
    <3> HIDE DEF rises
    <3>2. ThreadsOK'
      BY <2>4, <3>1, SetOK DEF FilesInv
    <3> QED  BY <1>1, <2>2, <2>4, <3>2, QuietStep
  <2> QED  BY <1>5, <2>1, <2>3, <2>4
<1> QED
  BY <1>6, <1>7

-----------------------------------------------------------------------------
\* Every step keeps the invariant of the walk.
LEMMA FilesStep ==
    ASSUME FilesInv, [Next]_vars
    PROVE  FilesInv'
<1>1. CASE UNCHANGED vars
  BY <1>1 DEF vars, FilesInv, ThreadsOK, HomeOK, StaysInHome, BeingHandedOver, Untampered, Owed
<1>2. CASE Tamper
  BY <1>2, TamperStep
<1>3. ASSUME NEW t \in Thread, Serve(t) PROVE FilesInv'
  <2>1. CASE LocateMkdir(t) \/ MkdirLast(t)
    BY <2>1, MkdirStep DEF LocateMkdir, MkdirLast, histVars
  <2> QED
    BY <1>3, <2>1, BeginStep, LocateOpenStep, HandStep, MkdirAdoptStep, OpenFailsStep, LookSteps,
       ConnectSteps, WriteOpenStep, WriteSteps, DeleteSteps, DescendSteps, ProbeStep, PurgeSteps DEF Serve
<1> QED
  BY <1>1, <1>2, <1>3 DEF Next

\* The inductive invariant of the file requests, for any number of threads, any requests
\* on paths of any length, and any number of renames and broken uploads.
THEOREM FilesInvariant == Spec => []FilesInv
BY FilesInit, FilesStep, PTL DEF Spec

\* Whatever the sandbox renames while the server walks (ScopedRoot), no privileged call
\* reaches an inode outside the home, or a socket of another owner.
THEOREM WalksStayInHome == Spec => []StaysInHome
<1>1. FilesInv => StaysInHome
  BY DEF FilesInv
<1> QED
  BY <1>1, FilesInvariant, PTL

\* What requests create below the home belongs to the sandbox once they are answered
\* (locate, open_write, mkdir_all), whichever of them raced or were repeated, but for what
\* a refused open or chown kept from being handed over.
THEOREM CreationsHandedOver == Spec => []CreatedHandedOver
<1>1. FilesInv => CreatedHandedOver
  <2> SUFFICES ASSUME FilesInv, Untampered, \A t \in Thread : Answered(t) \/ At(t, "idle"),
                      NEW d \in InsideDir, NEW n \in Names, entry[d][n] \in NewDir \cup NewFile
               PROVE  owner[entry[d][n]] = "sandbox" \/ entry[d][n] \in lost
    BY DEF CreatedHandedOver
  <2>1. \A t \in Thread : th[t].pc \in {"ok", "error", "idle"}
    BY DEF Answered, At
  <2> QED
    BY <2>1 DEF FilesInv, BeingHandedOver, Owed, Adopts, Hands
<1> QED
  BY <1>1, FilesInvariant, PTL

-----------------------------------------------------------------------------
(* Trails *)

\* Induction up to a number, for a set.
LEMMA UpTo ==
    ASSUME NEW n \in Nat, NEW G, 0 \in G, \A k \in 1 .. n : k - 1 \in G => k \in G
    PROVE  0 .. n \subseteq G
<1> DEFINE T == {k \in 0 .. n : k \notin G}
<1> SUFFICES ASSUME T # {} PROVE FALSE
  OBVIOUS
<1>1. T \in SUBSET Nat
  OBVIOUS
<1>2. PICK m \in T : \A y \in T : m <= y
  <2> HIDE DEF T
  <2> QED  BY <1>1, LeastExists
<1>3. m \in 1 .. n /\ m - 1 \notin T
  BY <1>2
<1> QED  BY <1>2, <1>3

Store == [Dir -> [Names -> Inode \cup {None}]]

\* What a directory holds under the next name of a path.
Under(e, i, n) == IF i \in Dir THEN e[i][n] ELSE None

\* The recursive definition of a trail has the solution it should have.
LEMMA TrailMet ==
    ASSUME NEW e \in Store, NEW path \in Seq(Names)
    PROVE  /\ Len(path) \in Nat
           /\ Trail(e, path)[0] = "home"
           /\ \A k \in 1 .. Len(path) : Trail(e, path)[k] = Under(e, Trail(e, path)[k - 1], path[k])
           /\ \A k \in 0 .. Len(path) : Trail(e, path)[k] \in Inode \cup {None}
<1> DEFINE n == Len(path)
           V == Inode \cup {None}
           Met(f) == f = [k \in 0 .. n |-> IF k = 0 THEN "home" ELSE
                            IF f[k - 1] \in Dir THEN e[f[k - 1]][path[k]] ELSE None]
           Upto(m, g) == g[0] = "home" /\ \A k \in 1 .. m : g[k] = Under(e, g[k - 1], path[k])
           Built(m) == \E g \in [0 .. m -> V] : Upto(m, g)
<1>1. n \in Nat /\ \A k \in 1 .. n : path[k] \in Names
  OBVIOUS
<1>2. "home" \in V /\ \A i \in V, m \in Names : Under(e, i, m) \in V
  BY Kinds DEF Under, Store
<1> HIDE DEF n, V
<1>3. Built(n)
  <2> DEFINE G == {m \in 0 .. n : Built(m)}
  <2>1. 0 \in G
    <3>1. [k \in 0 .. 0 |-> "home"] \in [0 .. 0 -> V] /\ Upto(0, [k \in 0 .. 0 |-> "home"])
      BY <1>2
    <3>2. Built(0)
      BY <3>1
    <3> HIDE DEF Built
    <3> QED  BY <1>1, <3>2
  <2>2. ASSUME NEW m \in 1 .. n, m - 1 \in G PROVE m \in G
    <3>1. PICK g \in [0 .. m - 1 -> V] : Upto(m - 1, g)
      BY <2>2
    <3> DEFINE c == Under(e, g[m - 1], path[m])
               h == [k \in 0 .. m |-> IF k = m THEN c ELSE g[k]]
    <3>2. c \in V
      <4>1. g[m - 1] \in V
        BY <1>1, <2>2
      <4> QED  BY <1>1, <1>2, <4>1
    <3>3. h \in [0 .. m -> V]
      <4> HIDE DEF c
      <4> QED  BY <1>1, <2>2, <3>2
    <3>4. h[0] = "home"
      BY <1>1, <3>1
    <3>5. ASSUME NEW k \in 1 .. m PROVE h[k] = Under(e, h[k - 1], path[k])
      <4>1. h[k - 1] = g[k - 1]
        BY <1>1
      <4>2. CASE k = m
        BY <1>1, <4>1, <4>2
      <4>3. CASE k # m
        <5>1. h[k] = g[k] /\ k \in 1 .. m - 1
          BY <1>1, <4>3
        <5> QED  BY <5>1, <4>1, <3>1
      <4> QED  BY <4>2, <4>3
    <3>6. Built(m)
      BY <3>3, <3>4, <3>5
    <3> HIDE DEF Built
    <3> QED  BY <1>1, <3>6
  <2> HIDE DEF Built
  <2>3. 0 .. n \subseteq G
    <3> HIDE DEF G
    <3> QED  BY <1>1, <2>1, <2>2, UpTo
  <2> QED  BY <1>1, <2>3
<1>4. \E f : Met(f)
  <2>1. PICK g \in [0 .. n -> V] : Upto(n, g)
    BY <1>3
  <2>2. Met(g)
    BY <1>1, <2>1, SMTT(30) DEF Under
  <2> QED  BY <2>2
<1> DEFINE f == CHOOSE x : Met(x)
<1>5. Met(f)
  BY <1>4
<1>6. Trail(e, path) = f
  BY DEF Trail, n
<1> HIDE DEF f
<1>7. f[0] = "home" /\ \A k \in 1 .. n : f[k] = Under(e, f[k - 1], path[k])
  BY <1>1, <1>5 DEF Under
<1>8. \A k \in 0 .. n : f[k] \in V
  <2> DEFINE G == {k \in 0 .. n : f[k] \in V}
  <2>1. 0 \in G
    BY <1>1, <1>2, <1>7
  <2>2. ASSUME NEW k \in 1 .. n, k - 1 \in G PROVE k \in G
    <3>1. f[k] = Under(e, f[k - 1], path[k]) /\ f[k - 1] \in V /\ path[k] \in Names
      BY <1>1, <1>7, <2>2
    <3>2. f[k] \in V
      BY <3>1, <1>2
    <3> QED  BY <1>1, <3>2
  <2>3. 0 .. n \subseteq G
    <3> HIDE DEF G
    <3> QED  BY <1>1, <2>1, <2>2, UpTo
  <2> QED  BY <2>3
<1> QED  BY <1>1, <1>6, <1>7, <1>8 DEF n, V

\* The trail of a path in a home that holds nothing of the outside stays inside.
LEMMA TrailInside ==
    ASSUME NEW e \in Store, \A d \in InsideDir, n \in Names : e[d][n] \notin Outside,
           NEW path \in Seq(Names), NEW k \in 0 .. Len(path)
    PROVE  /\ Trail(e, path)[k] \in (Inode \cup {None}) \ Outside
           /\ Trail(e, path)[k] \in Dir => Trail(e, path)[k] \in InsideDir
<1> DEFINE n == Len(path)
           f == Trail(e, path)
           G == {j \in 0 .. n : f[j] \notin Outside}
<1>1. n \in Nat /\ \A j \in 1 .. n : path[j] \in Names
  OBVIOUS
<1>2. f[0] = "home" /\ \A j \in 1 .. n : f[j] = Under(e, f[j - 1], path[j])
  BY TrailMet
<1>3. \A j \in 0 .. n : f[j] \in Inode \cup {None}
  BY TrailMet
<1>4. k \in 0 .. n
  OBVIOUS
<1> HIDE DEF n, f
<1>5. 0 \in G
  BY <1>1, <1>2, Kinds
<1>6. ASSUME NEW j \in 1 .. n, j - 1 \in G PROVE j \in G
  <2>1. f[j] = Under(e, f[j - 1], path[j]) /\ f[j - 1] \notin Outside /\ path[j] \in Names
    BY <1>1, <1>2, <1>6
  <2>2. f[j] \notin Outside
    <3>1. CASE f[j - 1] \in Dir
      BY <2>1, <3>1, Kinds DEF Under
    <3>2. CASE f[j - 1] \notin Dir
      BY <2>1, <3>2 DEF Under, None, Outside
    <3> QED  BY <3>1, <3>2
  <2> QED  BY <1>1, <2>2
<1>7. 0 .. n \subseteq G
  <2> HIDE DEF G
  <2> QED  BY <1>1, <1>5, <1>6, UpTo
<1> QED  BY <1>3, <1>4, <1>7, Kinds DEF f

\* A home that holds nothing of the outside.
Within(e) == e \in Store /\ \A d \in InsideDir, n \in Names : e[d][n] \notin Outside

\* The inodes the sandbox started with.
Initial == Inode \ (NewDir \cup NewFile)

\* The home has what it started with, less what was deleted, and what requests made.
Original(e) ==
    \A d \in InsideDir, n \in Names :
        e[d][n] \in {InitEntry[d][n], None} \cup NewDir \cup NewFile

\* Every inode has one name.
Single(e) ==
    \A d \in InsideDir, n \in Names :
        /\ e[d][n] # "home"
        /\ \A x \in InsideDir, m \in Names : e[d][n] = e[x][m] /\ e[d][n] # None => d = x /\ n = m

\* One step along a trail.
LEMMA TrailStep ==
    ASSUME NEW e, Within(e), NEW path \in Seq(Names), NEW k \in 1 .. Len(path)
    PROVE  /\ Trail(e, path)[k] = Under(e, Trail(e, path)[k - 1], path[k])
           /\ path[k] \in Names /\ k - 1 \in 0 .. Len(path) /\ Len(path) \in Nat
           /\ Trail(e, path)[k] # None =>
                /\ Trail(e, path)[k - 1] \in InsideDir /\ Trail(e, path)[k - 1] # None
                /\ Trail(e, path)[k] = e[Trail(e, path)[k - 1]][path[k]]
<1> DEFINE n == Len(path)
           f == Trail(e, path)
<1>1. n \in Nat /\ path[k] \in Names
  OBVIOUS
<1>2. k - 1 \in 0 .. n
  BY <1>1
<1>3. f[k] = Under(e, f[k - 1], path[k])
  BY TrailMet DEF Within
<1>4. f[k - 1] \in Dir => f[k - 1] \in InsideDir
  BY <1>2, TrailInside DEF Within
<1> HIDE DEF n, f
<1>5. f[k] # None => f[k - 1] \in InsideDir /\ f[k - 1] # None /\ f[k] = e[f[k - 1]][path[k]]
  BY <1>3, <1>4, Kinds DEF Under
<1> QED  BY <1>1, <1>2, <1>3, <1>5 DEF n, f

\* Where nothing goes away, what a path leads to stays.
LEMMA TrailGrows ==
    ASSUME NEW e, NEW e2, Within(e), Within(e2),
           \A d \in InsideDir, n \in Names : e[d][n] # None => e2[d][n] = e[d][n],
           NEW path \in Seq(Names), NEW k \in 0 .. Len(path), Trail(e, path)[k] # None
    PROVE  Trail(e2, path)[k] = Trail(e, path)[k]
<1> DEFINE n == Len(path)
           f == Trail(e, path)
           g == Trail(e2, path)
           G == {j \in 0 .. n : f[j] # None => g[j] = f[j]}
<1>1. n \in Nat /\ f[0] = "home" /\ g[0] = "home" /\ k \in 0 .. n
  BY TrailMet DEF Within
<1>2. ASSUME NEW j \in 1 .. n, j - 1 \in G PROVE j \in G
  <2>1. /\ f[j] # None => f[j - 1] \in InsideDir /\ f[j - 1] # None /\ f[j] = e[f[j - 1]][path[j]]
        /\ path[j] \in Names
    BY TrailStep
  <2>2. g[j] = Under(e2, g[j - 1], path[j])
    BY TrailStep
  <2> HIDE DEF n, f, g
  <2>3. ASSUME f[j] # None PROVE g[j] = f[j]
    <3>1. g[j - 1] = f[j - 1] /\ f[j - 1] \in InsideDir
      BY <1>2, <2>1, <2>3
    <3> QED  BY <2>1, <2>2, <2>3, <3>1, Kinds DEF Under
  <2> QED  BY <1>1, <2>3
<1> HIDE DEF n, f, g
<1>3. 0 .. n \subseteq G
  <2>1. 0 \in G
    BY <1>1
  <2> HIDE DEF G
  <2> QED  BY <1>1, <1>2, <2>1, UpTo
<1> QED  BY <1>1, <1>3 DEF f, g

\* Requests put nothing the sandbox started with into a directory they made.
LEMMA InitialParent ==
    ASSUME NEW e, Within(e), Original(e), NEW path \in Seq(Names), NEW k \in 1 .. Len(path),
           Trail(e, path)[k] \in Initial
    PROVE  Trail(e, path)[k - 1] \in Initial \cap InsideDir
<1> DEFINE d == Trail(e, path)[k - 1]
<1>1. Trail(e, path)[k] # None
  BY Kinds DEF Initial
<1>2. d \in InsideDir /\ Trail(e, path)[k] = e[d][path[k]] /\ path[k] \in Names
  BY <1>1, TrailStep
<1> HIDE DEF d
<1>3. InitEntry[d][path[k]] # None
  BY <1>1, <1>2 DEF Original, Initial
<1>4. d \notin NewDir
  BY <1>2, <1>3, Kinds, FourNames DEF InitEntry, NewDir, None
<1> QED  BY <1>2, <1>4, Kinds DEF Initial, d

\* What a path leads to, if the sandbox started with it, is what the path led to before.
LEMMA TrailInitial ==
    ASSUME NEW e, NEW e2, Within(e), Within(e2), Original(e2),
           \A d \in InsideDir, n \in Names : e2[d][n] \in Initial => e[d][n] = e2[d][n],
           NEW path \in Seq(Names), NEW k \in 0 .. Len(path), Trail(e2, path)[k] \in Initial
    PROVE  Trail(e, path)[k] = Trail(e2, path)[k]
<1> DEFINE n == Len(path)
           f == Trail(e, path)
           g == Trail(e2, path)
           G == {j \in 0 .. n : g[j] \in Initial => g[j] = f[j]}
<1>1. n \in Nat /\ f[0] = "home" /\ g[0] = "home" /\ k \in 0 .. n
  BY TrailMet DEF Within
<1>2. ASSUME NEW j \in 1 .. n, j - 1 \in G PROVE j \in G
  <2>1. f[j] = Under(e, f[j - 1], path[j]) /\ path[j] \in Names
    BY TrailStep
  <2>2. /\ g[j] \in Initial => g[j - 1] \in Initial \cap InsideDir
        /\ g[j] # None => g[j] = e2[g[j - 1]][path[j]]
    BY TrailStep, InitialParent
  <2> HIDE DEF n, f, g
  <2>3. ASSUME g[j] \in Initial PROVE g[j] = f[j]
    <3>1. g[j - 1] = f[j - 1] /\ g[j - 1] \in InsideDir /\ g[j] = e2[g[j - 1]][path[j]]
      BY <1>2, <2>2, <2>3, Kinds DEF Initial
    <3> QED  BY <2>1, <2>3, <3>1, Kinds DEF Under
  <2> QED  BY <1>1, <2>3
<1> HIDE DEF n, f, g
<1>3. 0 .. n \subseteq G
  <2>1. 0 \in G
    BY <1>1
  <2> HIDE DEF G
  <2> QED  BY <1>1, <1>2, <2>1, UpTo
<1> QED  BY <1>1, <1>3 DEF f, g

\* Where every inode has one name, two paths do not lead to the same one.
LEMMA TrailUnique ==
    ASSUME NEW e, Within(e), Single(e), NEW P \in Seq(Names), NEW Q \in Seq(Names),
           Lookup(e, P) = Lookup(e, Q), Lookup(e, P) # None
    PROVE  P = Q
<1> DEFINE n == Len(P)
           m == Len(Q)
           f == Trail(e, P)
           g == Trail(e, Q)
<1>1. n \in Nat /\ m \in Nat /\ f[0] = "home" /\ g[0] = "home"
  BY TrailMet DEF Within
<1>2. f[n] = g[m] /\ f[n] # None
  BY DEF Lookup
<1>3. ASSUME NEW j \in 1 .. n, NEW k \in 1 .. m, f[j] = g[k], f[j] # None
      PROVE  f[j - 1] = g[k - 1] /\ f[j - 1] # None /\ P[j] = Q[k]
  <2>1. f[j - 1] \in InsideDir /\ f[j - 1] # None /\ f[j] = e[f[j - 1]][P[j]] /\ P[j] \in Names
    BY <1>3, TrailStep
  <2>2. g[k - 1] \in InsideDir /\ g[k] = e[g[k - 1]][Q[k]] /\ Q[k] \in Names
    BY <1>3, TrailStep
  <2>3. ASSUME NEW y \in InsideDir, NEW z \in InsideDir, NEW p \in Names, NEW q \in Names,
               e[y][p] = e[z][q], e[y][p] # None
        PROVE  y = z /\ p = q
    BY <2>3 DEF Single
  <2>4. f[j] = g[k] /\ f[j] # None
    BY <1>3
  <2> DEFINE d == f[j - 1]
             x == g[k - 1]
             a == P[j]
             b == Q[k]
  <2>5. /\ d \in InsideDir /\ d # None /\ f[j] = e[d][a] /\ a \in Names
        /\ x \in InsideDir /\ g[k] = e[x][b] /\ b \in Names
    BY <2>1, <2>2
  <2> HIDE DEF n, m, f, g, d, x, a, b
  <2>6. d = x /\ a = b
    <3>1. e[d][a] # None
      BY <2>4, <2>5
    <3>2. e[d][a] = e[x][b]
      BY <2>4, <2>5
    <3>3. d \in InsideDir /\ x \in InsideDir /\ a \in Names /\ b \in Names
      BY <2>5
    <3> QED  BY <2>3, <3>1, <3>2, <3>3
  <2> QED  BY <2>5, <2>6 DEF d, x, a, b
<1>4. /\ \A j \in 1 .. n : f[j] # "home"
      /\ \A k \in 1 .. m : g[k] # "home"
  <2>1. ASSUME NEW j \in 1 .. n PROVE f[j] # "home"
    <3>1. f[j] # None => f[j - 1] \in InsideDir /\ f[j] = e[f[j - 1]][P[j]] /\ P[j] \in Names
      BY TrailStep
    <3> HIDE DEF n, f
    <3> QED  BY <3>1 DEF Single, None
  <2>2. ASSUME NEW j \in 1 .. m PROVE g[j] # "home"
    <3>1. g[j] # None => g[j - 1] \in InsideDir /\ g[j] = e[g[j - 1]][Q[j]] /\ Q[j] \in Names
      BY TrailStep
    <3> HIDE DEF m, g
    <3> QED  BY <3>1 DEF Single, None
  <2> QED  BY <2>1, <2>2
<1> HIDE DEF n, m, f, g
<1> DEFINE N == IF n <= m THEN n ELSE m
<1>6. N \in Nat /\ N <= n /\ N <= m /\ (N = n \/ N = m)
  BY <1>1
<1> HIDE DEF N
<1> DEFINE G == {i \in 0 .. N : f[n - i] = g[m - i] /\ f[n - i] # None}
<1>7. ASSUME NEW i \in 1 .. N, i - 1 \in G PROVE i \in G /\ P[n - (i - 1)] = Q[m - (i - 1)]
  <2> DEFINE j == n - (i - 1)
             k == m - (i - 1)
  <2>1. j \in 1 .. n /\ k \in 1 .. m /\ j - 1 = n - i /\ k - 1 = m - i /\ i \in 0 .. N
    BY <1>1, <1>6
  <2>2. f[j] = g[k] /\ f[j] # None
    BY <1>7
  <2> HIDE DEF j, k
  <2>3. f[j - 1] = g[k - 1] /\ f[j - 1] # None /\ P[j] = Q[k]
    BY <1>3, <2>1, <2>2
  <2> QED  BY <2>1, <2>3 DEF j, k
<1>8. 0 .. N \subseteq G
  <2>1. 0 \in G
    BY <1>1, <1>2, <1>6
  <2> HIDE DEF G
  <2> QED  BY <1>6, <1>7, <2>1, UpTo
<1>9. n = m
  <2>1. f[n - N] = g[m - N]
    BY <1>6, <1>8
  <2>2. CASE N = n
    <3>1. n - N = 0 /\ (m - N = 0 \/ m - N \in 1 .. m)
      BY <1>1, <1>6, <2>2
    <3>2. m - N = 0
      BY <1>1, <1>4, <2>1, <3>1
    <3> QED  BY <1>1, <1>6, <2>2, <3>2
  <2>3. CASE N = m
    <3>1. m - N = 0 /\ (n - N = 0 \/ n - N \in 1 .. n)
      BY <1>1, <1>6, <2>3
    <3>2. n - N = 0
      BY <1>1, <1>4, <2>1, <3>1
    <3> QED  BY <1>1, <1>6, <2>3, <3>2
  <2> QED  BY <1>6, <2>2, <2>3
<1>10. ASSUME NEW j \in 1 .. n PROVE P[j] = Q[j]
  <2> DEFINE i == n - j + 1
  <2>1. i \in 1 .. N /\ i - 1 \in 0 .. N /\ n - (i - 1) = j /\ m - (i - 1) = j
    BY <1>1, <1>6, <1>9
  <2> HIDE DEF i, G
  <2> QED  BY <1>7, <1>8, <2>1
<1>11. Len(P) = Len(Q) /\ \A j \in 1 .. Len(P) : P[j] = Q[j]
  BY <1>9, <1>10 DEF n, m
<1> QED  BY <1>11, SeqEqual

-----------------------------------------------------------------------------
(* Sorting *)

Ascending(s) ==
    \A j, k \in 1 .. Len(s) : j < k => s[j] # s[k] /\ Shown[s[j]] <= Shown[s[k]]

\* The texts of names are ordered as numbers are.
LEMMA ShownIsNumber == \A n \in Names : Shown[n] \in Int
BY FilesAssumption

\* Sets of names are finite.
LEMMA NamesCounted ==
    ASSUME NEW S \in SUBSET Names
    PROVE  Cardinality(S) \in Nat
<1>1. IsFiniteSet({"a"}) /\ IsFiniteSet({"b"}) /\ IsFiniteSet({"c"}) /\ IsFiniteSet({"z"})
  BY FS_Singleton
<1>2. IsFiniteSet({"a"} \cup {"b"}) /\ IsFiniteSet({"c"} \cup {"z"})
  BY <1>1, FS_Union
<1>3. IsFiniteSet(({"a"} \cup {"b"}) \cup ({"c"} \cup {"z"}))
  BY <1>2, FS_Union
<1>4. S \subseteq ({"a"} \cup {"b"}) \cup ({"c"} \cup {"z"})
  BY FourNames
<1> QED  BY <1>3, <1>4, FS_Subset, FS_CardinalityType

\* Whatever order sort_by leaves names of the same text in.
LEMMA SortedNames ==
    ASSUME NEW S \in SUBSET Names, NEW s \in Sortings(S)
    PROVE  /\ s \in Seq(Names) /\ Ascending(s)
           /\ \A k \in 1 .. Len(s) : s[k] \in S
           /\ \A n \in S : \E k \in 1 .. Len(s) : s[k] = n
<1> DEFINE C == Cardinality(S)
<1>1. C \in Nat
  BY NamesCounted
<1>2. /\ s \in [1 .. C -> S]
      /\ \A n \in S : \E k \in DOMAIN s : s[k] = n
      /\ \A j, k \in DOMAIN s : j < k => s[j] # s[k] /\ Shown[s[j]] <= Shown[s[k]]
  BY DEF Sortings
<1> HIDE DEF C
<1>3. s \in Seq(Names) /\ Len(s) = C /\ DOMAIN s = 1 .. C
  <2>1. s \in [1 .. C -> Names]
    BY <1>2
  <2> QED  BY <1>1, <2>1
<1> QED  BY <1>2, <1>3 DEF Ascending

-----------------------------------------------------------------------------
(* Threads on their trails *)

Purging == {"unlink", "rmdir", "delete", "scan", "drop"}
Writing == {"own", "body", "setlen"}
Walks == {"locate", "descend", "give"}
Following == Walks \cup {"entries"} \cup Writing

\* The path a thread was asked for, how far it followed it and the inode it holds there.
Path(x) == Normalize(x.req.path)
Depth(x) == IF x.pc \in Walks THEN Len(Path(x)) - Len(x.rest) ELSE Len(Path(x))
Holds(x) == IF x.pc \in Writing THEN x.file ELSE x.fd

\* What a thread does is what it was asked for, the names it has left are the end of the
\* path, and the names it listed are sorted.
Serves(x) ==
    /\ x.pc = "entries" => x.req.op = "list"
    /\ x.pc \in {"adopt", "hand"} => x.req.op = "mkdir"
    /\ x.pc = "connect" => x.req.op = "connect"
    /\ x.pc \in Writing => x.req.op = "write"
    /\ x.pc \in Purging => x.req.op \in {"delete", "rmdir"}
    /\ x.pc \in Walks =>
         /\ Len(x.rest) <= Len(Path(x))
         /\ \A i \in 1 .. Len(x.rest) : x.rest[i] = Path(x)[Depth(x) + i]
    /\ x.seen \in Seq(Names) /\ Ascending(x.seen)

\* What a step can do to a thread: begin, or begin again; go on where it is; follow its
\* path by one name; be answered.  ListEntries is apart.
Begins(x, y) ==
    /\ x.pc = "idle" \/ (x.pc = "body" /\ y.req = x.req)
    /\ y.pc = "locate" /\ y.req \in Request /\ y.seen = <<>> /\ Depth(y) = 0 /\ Holds(y) = "home"
\* A name that is there is looked at, or still to be looked at, as long as the directory is
\* read.
Scans(e, x, y) ==
    \/ y.scan = Names
    \/ /\ x.pc = "entries" /\ y.fd = x.fd
       /\ \A n \in x.scan \cup x.found \cup x.missed :
             e[x.fd][n] # None => n \in y.scan \cup y.found \cup y.missed
Stays(e, x, y) ==
    /\ x.pc \in Open /\ y.pc \in Open /\ y.req = x.req /\ y.seen = x.seen
    /\ x.missed \subseteq y.missed
    /\ y.pc = "entries" => Scans(e, x, y)
    /\ y.pc \in Following => x.pc \in Following /\ Depth(y) = Depth(x) /\ Holds(y) = Holds(x)
    /\ y.pc = "setlen" => x.pc = "body"
Descends(e, x, y) ==
    /\ x.pc \in {"locate", "descend"} /\ y.pc \in {"locate", "give", "entries", "own"}
    /\ y.req = x.req /\ y.seen = x.seen /\ y.missed = x.missed
    /\ y.pc = "entries" => y.scan = Names
    /\ Depth(x) \in 0 .. Len(Path(x)) - 1 /\ Depth(y) = Depth(x) + 1
    /\ Holds(y) = e[Holds(x)][Path(x)[Depth(x) + 1]]
Ends(x, y) ==
    /\ x.pc \in Open /\ y.pc \in {"ok", "error"} /\ y.req = x.req /\ y.seen = x.seen
    /\ y.missed = x.missed
    /\ y.pc = "ok" => x.pc = "setlen" \/ x.req.op \notin {"write", "list"}

Moves(t) ==
    \/ Begins(th[t], th'[t]) \/ Stays(entry', th[t], th'[t]) \/ Descends(entry', th[t], th'[t])
    \/ Ends(th[t], th'[t]) \/ ListEntries(t)

\* What normalize_relative leaves of the path of a request is a sequence of names.
LEMMA PathNames == \A x : x.req \in Request => Path(x) \in Seq(Names) /\ Len(Path(x)) \in Nat
<1> SUFFICES ASSUME NEW x, x.req \in Request PROVE Path(x) \in Seq(Names) /\ Len(Path(x)) \in Nat
  OBVIOUS
<1>1. x.req.path \in Seq((Names \ {"z"}) \cup {"..", "."})
  BY FilesAssumption
<1>2. Path(x) \in Seq(Names)
  BY <1>1, NormalizedNames DEF Path
<1> QED  BY <1>2

\* A thread that has just begun a request is at the start of its path.
LEMMA BegunServes ==
    ASSUME NEW r \in Request, NEW y, y.pc = "locate", y.req = r, y.rest = Normalize(r.path),
           y.fd = "home", y.seen \in Seq(Names), Ascending(y.seen)
    PROVE  Serves(y) /\ Depth(y) = 0 /\ Holds(y) = "home"
<1>3. y.rest = Path(y)
  BY DEF Path
<1>4. Path(y) \in Seq(Names) /\ Len(Path(y)) \in Nat
  BY PathNames
<1>5. Depth(y) = 0 /\ Holds(y) = "home"
  BY <1>3, <1>4 DEF Depth, Holds, Writing, Walks
<1>6. Serves(y)
  <2>1. \A i \in 1 .. Len(Path(y)) : Depth(y) + i = i
    BY <1>4, <1>5
  <2> HIDE DEF Path, Depth
  <2> QED  BY <1>3, <1>4, <2>1 DEF Serves, Writing, Purging, Walks
<1> QED  BY <1>5, <1>6

\* A thread that goes on where it is.
LEMMA GoesOn ==
    ASSUME NEW x, NEW y, NEW e, Serves(x), x.pc \in Open, x.req \in Request, x.rest \in Seq(Names),
           y.req = x.req, y.seen = x.seen, y.rest = x.rest, x.missed \subseteq y.missed,
           \/ x.pc = "locate" /\ y.pc = "descend" /\ y.fd = x.fd
           \/ x.pc = "give" /\ y.pc = "locate" /\ y.fd = x.fd
           \/ /\ x.pc = "locate" /\ y.pc = "entries" /\ y.fd = x.fd /\ x.rest = <<>>
              /\ x.req.op = "list" /\ y.scan = Names
           \/ x.pc = "entries" /\ y.pc = "entries" /\ y.fd = x.fd /\ Scans(e, x, y)
           \/ x.pc = "own" /\ y.pc = "body" /\ y.file = x.file
           \/ x.pc = "body" /\ y.pc = "setlen" /\ y.file = x.file
           \/ y.pc \in {"adopt", "hand"} /\ x.req.op = "mkdir"
           \/ y.pc = "connect" /\ x.req.op = "connect"
           \/ y.pc \in Purging /\ x.req.op \in {"delete", "rmdir"}
    PROVE  Serves(y) /\ Stays(e, x, y)
<1>1. Path(y) = Path(x) /\ Path(x) \in Seq(Names) /\ Len(Path(x)) \in Nat
  BY PathNames DEF Path
<1>2. CASE /\ x.pc \in {"locate", "give"} /\ y.pc \in {"descend", "locate"} /\ y.fd = x.fd
  <2>1. Depth(y) = Depth(x) /\ Holds(y) = Holds(x)
    BY <1>1, <1>2 DEF Depth, Holds, Writing, Walks
  <2> QED  BY <1>1, <1>2, <2>1 DEF Serves, Stays, Open, Following, Writing, Purging, Walks
<1>3. CASE /\ x.pc = "locate" /\ y.pc = "entries" /\ y.fd = x.fd /\ x.rest = <<>>
           /\ x.req.op = "list" /\ y.scan = Names
  <2>1. Depth(y) = Depth(x) /\ Holds(y) = Holds(x)
    BY <1>1, <1>3 DEF Depth, Holds, Writing, Walks
  <2> QED  BY <1>3, <2>1 DEF Serves, Stays, Scans, Open, Following, Writing, Purging, Walks
<1>4. CASE x.pc \in {"own", "body"} /\ y.pc \in {"body", "setlen"} /\ y.file = x.file /\ (y.pc = "setlen" => x.pc = "body")
  <2>1. Depth(y) = Depth(x) /\ Holds(y) = Holds(x)
    BY <1>1, <1>4 DEF Depth, Holds, Writing, Walks
  <2> QED  BY <1>4, <2>1 DEF Serves, Stays, Open, Following, Writing, Purging, Walks
<1>5. CASE \/ y.pc \in {"adopt", "hand"} /\ x.req.op = "mkdir"
           \/ y.pc = "connect" /\ x.req.op = "connect"
           \/ y.pc \in Purging /\ x.req.op \in {"delete", "rmdir"}
  BY <1>5 DEF Serves, Stays, Open, Following, Writing, Purging, Walks
<1>6. CASE x.pc = "entries" /\ y.pc = "entries" /\ y.fd = x.fd /\ Scans(e, x, y)
  <2>1. Depth(y) = Depth(x) /\ Holds(y) = Holds(x)
    BY <1>1, <1>6 DEF Depth, Holds, Writing, Walks
  <2> QED  BY <1>6, <2>1 DEF Serves, Stays, Open, Following, Writing, Purging, Walks
<1> QED  BY <1>2, <1>3, <1>4, <1>5, <1>6

\* A thread that opens the next name of its path.
LEMMA GoesDown ==
    ASSUME NEW x, NEW y, NEW e, Serves(x), x.pc \in {"locate", "descend"}, x.req \in Request,
           x.rest \in Seq(Names), Len(x.rest) > 0, y.req = x.req, y.seen = x.seen, y.missed = x.missed,
           \/ y.pc \in {"locate", "give"} /\ y.rest = Tail(x.rest) /\ y.fd = e[x.fd][Head(x.rest)]
           \/ /\ y.pc = "entries" /\ x.req.op = "list" /\ Len(x.rest) = 1
              /\ y.fd = e[x.fd][Head(x.rest)] /\ y.scan = Names
           \/ /\ y.pc = "own" /\ x.req.op = "write" /\ Len(x.rest) = 1
              /\ y.file = e[x.fd][Head(x.rest)]
    PROVE  Serves(y) /\ Descends(e, x, y)
<1> DEFINE p == Path(x)
           s == x.rest
           n == Len(p)
           m == Len(s)
<1>1. Path(y) = p /\ p \in Seq(Names) /\ n \in Nat
  BY PathNames DEF Path
<1>2. s \in Seq(Names) /\ m \in Nat /\ m > 0 /\ m <= n
  BY DEF Serves, Walks
<1>3. Depth(x) = n - m /\ Holds(x) = x.fd
  BY DEF Depth, Holds, Writing, Walks
<1>4. \A i \in 1 .. m : s[i] = p[n - m + i]
  <2>1. \A i \in 1 .. m : s[i] = p[Depth(x) + i]
    BY DEF Serves, Walks
  <2> HIDE DEF n, m, s, p
  <2> QED  BY <1>3, <2>1
<1>5. Head(s) = s[1] /\ Tail(s) \in Seq(Names) /\ Len(Tail(s)) = m - 1
      /\ \A i \in 1 .. m - 1 : Tail(s)[i] = s[i + 1]
  <2>1. s # <<>>
    BY <1>2, EmptySeq
  <2> QED  BY <1>2, <2>1, HeadTailProperties
<1>6. Head(s) = p[Depth(x) + 1]
  <2> HIDE DEF n, m, s, p
  <2>1. 1 \in 1 .. m
    BY <1>2
  <2> QED  BY <1>3, <1>4, <1>5, <2>1
<1>7. Depth(y) = n - m + 1
  <2>1. CASE y.pc \in {"locate", "give"} /\ y.rest = Tail(s)
    <3>1. Depth(y) = n - (m - 1)
      BY <1>1, <1>5, <2>1 DEF Depth, Walks
    <3> HIDE DEF n, m
    <3> QED  BY <1>1, <1>2, <3>1
  <2>2. CASE y.pc \in {"entries", "own"} /\ m = 1
    <3>1. Depth(y) = n
      BY <1>1, <2>2 DEF Depth, Walks
    <3> HIDE DEF n, m
    <3> QED  BY <1>1, <2>2, <3>1
  <2> QED  BY <2>1, <2>2
<1>8. Holds(y) = e[x.fd][Head(s)]
  BY DEF Holds, Writing
<1>9. Descends(e, x, y)
  <2>1. Depth(x) \in 0 .. n - 1 /\ Depth(y) = Depth(x) + 1
    <3> HIDE DEF n, m
    <3> QED  BY <1>1, <1>2, <1>3, <1>7
  <2>2. Holds(y) = e[Holds(x)][p[Depth(x) + 1]]
    BY <1>3, <1>6, <1>8
  <2> QED  BY <2>1, <2>2 DEF Descends
<1>10. y.pc \in Walks => y.rest = Tail(s)
  BY DEF Walks
<1>11. y.pc \in Walks => Len(y.rest) <= n /\ \A i \in 1 .. Len(y.rest) : y.rest[i] = p[Depth(y) + i]
  <2> SUFFICES ASSUME y.pc \in Walks PROVE Len(y.rest) <= n /\ \A i \in 1 .. Len(y.rest) : y.rest[i] = p[Depth(y) + i]
    OBVIOUS
  <2>1. y.rest = Tail(s) /\ Len(y.rest) = m - 1
    BY <1>5, <1>10
  <2>2. ASSUME NEW i \in 1 .. m - 1 PROVE y.rest[i] = p[Depth(y) + i]
    <3>1. i + 1 \in 1 .. m /\ n - m + (i + 1) = n - m + 1 + i
      <4> HIDE DEF n, m
      <4> QED  BY <1>1, <1>2
    <3>2. y.rest[i] = s[i + 1] /\ s[i + 1] = p[n - m + (i + 1)]
      BY <1>4, <1>5, <2>1, <3>1
    <3> QED  BY <1>7, <3>1, <3>2
  <2>3. m - 1 <= n
    <3> HIDE DEF n, m
    <3> QED  BY <1>1, <1>2
  <2> QED  BY <2>1, <2>2, <2>3
<1>12. Serves(y)
  <2>1. y.pc \in {"locate", "give", "entries", "own"} /\ y.seen \in Seq(Names) /\ Ascending(y.seen)
    BY DEF Serves
  <2> HIDE DEF p, n
  <2> QED  BY <1>1, <1>11, <2>1 DEF Serves, Writing, Purging, Walks, p, n
<1> QED  BY <1>9, <1>12

\* A thread that is answered.
LEMMA IsAnswered ==
    ASSUME ThreadsOK, NEW t \in Thread, Serves(th[t]), th[t].pc \in Open, NEW a \in {"ok", "error"},
           Finish(t, a), a = "ok" => th[t].pc = "setlen" \/ OpOf(t) \notin {"write", "list"}
    PROVE  Serves(th'[t]) /\ Ends(th[t], th'[t])
<1> DEFINE y == [Idle EXCEPT !.pc = a, !.req = th[t].req, !.seen = th[t].seen,
                             !.missed = th[t].missed]
<1>1. th'[t] = y
  BY DEF Finish, Set, ThreadsOK
<1>2. y.pc = a /\ y.req = th[t].req /\ y.seen = th[t].seen /\ y.missed = th[t].missed
  BY DEF Idle
<1> HIDE DEF y
<1> QED  BY <1>1, <1>2 DEF Serves, Ends, Writing, Purging, Walks, OpOf

-----------------------------------------------------------------------------
(* Pages *)

\* The names of a page, cut at the limit.
Page(named, limit) == IF Len(named) > limit THEN SubSeq(named, 1, limit) ELSE named

\* A page of sorted names appended to the names of the pages before it.
LEMMA PageAppended ==
    ASSUME NEW s \in Seq(Names), Ascending(s), NEW S \in SUBSET Names, NEW limit \in Nat,
           \A n \in S : Len(s) > 0 => Shown[n] > Shown[s[Len(s)]],
           NEW named \in Sortings(S)
    PROVE  LET page == Page(named, limit)
               z == s \o page
           IN  /\ page \in Seq(Names) /\ z \in Seq(Names) /\ Ascending(z)
               /\ \A n \in S : page = named \/ (Len(z) > 0 /\ Shown[n] <= Shown[z[Len(z)]])
                               => \E k \in 1 .. Len(page) : Shown[page[k]] = Shown[n]
               /\ page = <<>> => page = named \/ limit = 0
<1> DEFINE page == Page(named, limit)
<1>0. page = IF Len(named) > limit THEN SubSeq(named, 1, limit) ELSE named
  BY DEF Page
<1> HIDE DEF page
<1> DEFINE a == Len(s)
           b == Len(named)
           c == Len(page)
           z == s \o page
<1>1. /\ named \in Seq(Names) /\ b \in Nat /\ a \in Nat /\ Ascending(named)
      /\ \A k \in 1 .. b : named[k] \in S
      /\ \A n \in S : \E k \in 1 .. b : named[k] = n
  BY SortedNames
<1>2. /\ page \in Seq(Names) /\ c \in 0 .. b /\ (c # b => c = limit) /\ (c = b => page = named)
      /\ \A k \in 1 .. c : page[k] = named[k]
  <2>1. CASE b > limit
    <3>1. page = SubSeq(named, 1, limit)
      BY <1>0, <2>1
    <3>2. limit <= b /\ 1 \in 1 .. b /\ limit \in 0 .. b /\ limit # b
      BY <1>1, <2>1
    <3>3. SubSeq(named, 1, limit) \in Seq(Names) /\ Len(SubSeq(named, 1, limit)) = limit
          /\ \A k \in 1 .. limit : SubSeq(named, 1, limit)[k] = named[k]
      <4> HIDE DEF b
      <4>1. SubSeq(named, 1, limit) = [k \in 1 .. limit |-> named[k]]
        BY <1>1, <3>2
      <4>2. \A k \in 1 .. limit : named[k] \in Names
        BY <1>1, <3>2
      <4>3. [k \in 1 .. limit |-> named[k]] \in Seq(Names) /\ Len([k \in 1 .. limit |-> named[k]]) = limit
        BY <4>2
      <4> QED  BY <4>1, <4>3
    <3> QED  BY <3>1, <3>2, <3>3
  <2>2. CASE ~(b > limit)
    BY <1>0, <1>1, <2>2
  <2> QED  BY <2>1, <2>2
<1>3. z \in Seq(Names) /\ Len(z) = a + c /\ (\A k \in 1 .. a : z[k] = s[k])
      /\ (\A k \in 1 .. c : z[a + k] = page[k])
  BY <1>1, <1>2
<1>4. \A n \in Names : Shown[n] \in Int
  BY ShownIsNumber
<1>5. /\ \A j, k \in 1 .. a : j < k => s[j] # s[k] /\ Shown[s[j]] <= Shown[s[k]]
      /\ \A j, k \in 1 .. b : j < k => named[j] # named[k] /\ Shown[named[j]] <= Shown[named[k]]
  BY <1>1 DEF Ascending
<1>6. \A k \in 1 .. a : s[k] \in Names
  OBVIOUS
<1>7. \A n \in S : a > 0 => Shown[n] > Shown[s[a]]
  OBVIOUS
<1>12. c = 0 => page = <<>>
  BY <1>2, EmptySeq
<1>13. page = <<>> => c = 0
  OBVIOUS
<1> HIDE DEF a, b, c, z
<1>8. ASSUME NEW j \in 1 .. a + c, NEW k \in 1 .. a + c, j < k
      PROVE  z[j] # z[k] /\ Shown[z[j]] <= Shown[z[k]]
  <2>1. CASE k <= a
    <3>1. j \in 1 .. a /\ k \in 1 .. a
      BY <1>1, <1>2, <1>8, <2>1
    <3> QED  BY <1>3, <1>5, <1>8, <3>1
  <2>2. CASE k > a
    <3> DEFINE q == k - a
    <3>1. q \in 1 .. c /\ q \in 1 .. b /\ k = a + q
      BY <1>1, <1>2, <2>2
    <3> HIDE DEF q
    <3>2. z[k] = named[q] /\ named[q] \in S
      BY <1>1, <1>2, <1>3, <3>1
    <3>3. CASE j <= a
      <4>1. j \in 1 .. a /\ a \in 1 .. a /\ a > 0 /\ (j = a \/ j < a)
        BY <1>1, <1>2, <1>8, <3>3
      <4>2. z[j] = s[j] /\ (s[j] = s[a] \/ Shown[s[j]] <= Shown[s[a]])
        BY <1>3, <1>5, <4>1
      <4>3. Shown[s[a]] < Shown[named[q]]
        BY <1>4, <1>6, <1>7, <3>2, <4>1
      <4>4. Shown[s[j]] \in Int /\ Shown[s[a]] \in Int /\ Shown[named[q]] \in Int
        BY <1>4, <1>6, <3>2, <4>1
      <4>5. Shown[s[j]] < Shown[named[q]]
        BY <4>2, <4>3, <4>4
      <4> QED  BY <3>2, <4>2, <4>4, <4>5
    <3>4. CASE j > a
      <4> DEFINE r == j - a
      <4>1. r \in 1 .. c /\ r \in 1 .. b /\ j = a + r /\ r < q
        BY <1>1, <1>2, <1>8, <3>1, <3>4
      <4> HIDE DEF r
      <4>2. z[j] = named[r]
        BY <1>2, <1>3, <4>1
      <4> QED  BY <1>5, <3>1, <3>2, <4>1, <4>2
    <3> QED  BY <1>1, <3>3, <3>4
  <2> QED  BY <1>1, <2>1, <2>2
<1>9. Ascending(z)
  BY <1>3, <1>8 DEF Ascending
<1>10. ASSUME NEW n \in S, page = named \/ (a + c > 0 /\ Shown[n] <= Shown[z[a + c]])
       PROVE  \E k \in 1 .. c : Shown[page[k]] = Shown[n]
  <2>1. PICK k \in 1 .. b : named[k] = n
    BY <1>1
  <2>2. CASE k <= c
    <3>1. k \in 1 .. c
      BY <1>1, <1>2, <2>2
    <3> QED  BY <1>2, <2>1, <3>1
  <2>3. CASE k > c
    <3>1. c < b /\ c \in Nat
      BY <1>1, <1>2, <2>3
    <3>2. page # named
      BY <1>2, <3>1 DEF b, c
    <3>3. a + c > 0 /\ Shown[n] <= Shown[z[a + c]]
      BY <1>10, <3>2
    <3>4. CASE c > 0
      <4>1. c \in 1 .. c /\ c \in 1 .. b
        BY <3>1, <3>4, <1>1
      <4>2. z[a + c] = named[c] /\ page[c] = named[c]
        BY <1>2, <1>3, <4>1
      <4>3. Shown[named[c]] <= Shown[named[k]]
        BY <1>5, <2>3, <4>1
      <4>4. Shown[named[c]] \in Int /\ Shown[named[k]] \in Int
        BY <1>1, <1>4, <2>1, <4>1
      <4>5. Shown[named[k]] <= Shown[named[c]]
        BY <2>1, <3>3, <4>2
      <4>6. Shown[page[c]] = Shown[n]
        BY <2>1, <4>2, <4>3, <4>4, <4>5
      <4> QED  BY <4>1, <4>6
    <3>5. CASE c = 0
      <4>1. a + c = a /\ a > 0 /\ a \in 1 .. a
        BY <1>1, <3>3, <3>5
      <4>2. z[a] = s[a] /\ Shown[n] > Shown[s[a]] /\ Shown[n] <= Shown[s[a]]
        BY <1>3, <1>7, <3>3, <4>1
      <4>3. Shown[n] \in Int /\ Shown[s[a]] \in Int
        BY <1>4, <1>6, <4>1
      <4> QED  BY <4>2, <4>3
    <3>6. c > 0 \/ c = 0
      BY <3>1
    <3> QED  BY <3>4, <3>5, <3>6
  <2> QED  BY <1>1, <1>2, <2>2, <2>3
<1>11. page = <<>> => page = named \/ limit = 0
  BY <1>2, <1>13
<1> QED  BY <1>2, <1>3, <1>9, <1>10, <1>11 DEF c, z, page

\* Has the listing passed a name, so that it must have accounted for it?
Passed(x, n) ==
    \/ x.pc = "ok" /\ x.req.part > 0
    \/ Len(x.seen) > 0 /\ Shown[n] <= Shown[x.seen[Len(x.seen)]]

\* The listing gave the text of a name, or its open was refused.
Covered(x, n) ==
    \/ n \in x.missed
    \/ \E k \in 1 .. Len(x.seen) : Shown[x.seen[k]] = Shown[n]

\* A page extends what the client has seen by names beyond it, in order, and the last one completes it.
LEMMA ListsPage ==
    ASSUME FilesInv, NEW t \in Thread, Serves(th[t]), ListEntries(t)
    PROVE  /\ Serves(th'[t]) /\ th[t].pc = "entries" /\ th'[t].req = th[t].req
           /\ th[t].scan = {} /\ th'[t].missed = th[t].missed
           /\ th'[t].pc = "ok" \/ (th'[t].pc = "locate" /\ Depth(th'[t]) = 0 /\ Holds(th'[t]) = "home")
           /\ \A k \in 1 .. Len(th[t].seen) : k \in 1 .. Len(th'[t].seen) /\ th'[t].seen[k] = th[t].seen[k]
           /\ \A n \in th[t].found : Beyond(t, n) /\ Passed(th'[t], n)
                => \E k \in 1 .. Len(th'[t].seen) : Shown[th'[t].seen[k]] = Shown[n]
<1> DEFINE S == {n \in th[t].found : Beyond(t, n)}
           limit == th[t].req.part
           s == th[t].seen
           m == th[t].missed
           y == th'[t]
           more(p) == [Begun(th[t].req) EXCEPT !.seen = s \o p, !.missed = m]
           ends(p) == [more(p) EXCEPT !.pc = "ok", !.rest = <<>>, !.fd = None]
<1>1. th[t].pc = "entries" /\ th[t].pc \in Open /\ th[t].scan = {}
  BY DEF ListEntries, At, Open
<1>2. th[t].req \in Request /\ limit \in Nat
  <2>1. th[t].req \in Request
    BY <1>1, AtWork DEF FilesInv
  <2> QED  BY <2>1, FilesAssumption DEF Part
<1>3. s \in Seq(Names) /\ Ascending(s)
  BY DEF Serves
<1>4. S \in SUBSET Names
  BY <1>1 DEF FilesInv, ThreadsOK, ThreadOK
<1>5. \A n \in S : Len(s) > 0 => Shown[n] > Shown[s[Len(s)]]
  BY <1>3, EmptySeq, SMTT(30) DEF Beyond
<1>6. PICK named \in Sortings(S) :
         LET page == Page(named, limit)
         IN  /\ page = named \/ page = <<>> => Set(t, ends(page))
             /\ ~(page = named \/ page = <<>>) => Set(t, more(page))
  BY DEF ListEntries, Page
<1>7. DOMAIN th = Thread
  BY DEF FilesInv, ThreadsOK
<1> DEFINE page == Page(named, limit)
           z == s \o page
<1> HIDE DEF S, limit, s, m
<1>8. /\ page \in Seq(Names) /\ z \in Seq(Names) /\ Ascending(z)
      /\ \A n \in S : page = named \/ (Len(z) > 0 /\ Shown[n] <= Shown[z[Len(z)]])
                      => \E k \in 1 .. Len(page) : Shown[page[k]] = Shown[n]
      /\ page = <<>> => page = named \/ limit = 0
  BY ONLY <1>2, <1>3, <1>4, <1>5, PageAppended, named \in Sortings(S), ZenonT(60)
<1>14. /\ page = named \/ page = <<>> => y = ends(page)
       /\ ~(page = named \/ page = <<>>) => y = more(page)
  BY <1>6, <1>7 DEF Set
<1> HIDE DEF page
<1>9. Len(z) = Len(s) + Len(page) /\ (\A k \in 1 .. Len(s) : z[k] = s[k])
      /\ (\A k \in 1 .. Len(page) : z[Len(s) + k] = page[k]) /\ Len(s) \in Nat /\ Len(page) \in Nat
  BY <1>3, <1>8
<1>15. /\ more(page).pc = "locate" /\ more(page).req = th[t].req
       /\ more(page).rest = Normalize(th[t].req.path) /\ more(page).fd = "home"
       /\ more(page).seen = z /\ more(page).missed = m
  BY DEF Begun, Idle
<1>16. ends(page).pc = "ok" /\ ends(page).req = th[t].req /\ ends(page).seen = z /\ ends(page).missed = m
  BY DEF Begun, Idle
<1> HIDE DEF z, y, more, ends
<1>10. /\ Serves(y) /\ y.req = th[t].req /\ y.seen = z /\ y.missed = m
       /\ \/ y.pc = "ok" /\ (page = named \/ limit = 0)
          \/ y.pc = "locate" /\ Depth(y) = 0 /\ Holds(y) = "home"
  <2>1. CASE page = named \/ page = <<>>
    <3>2. y.pc = "ok" /\ y.req = th[t].req /\ y.seen = z /\ y.missed = m
      BY <1>14, <1>16, <2>1
    <3> QED  BY <1>8, <2>1, <3>2 DEF Serves, Writing, Purging, Walks
  <2>2. CASE ~(page = named \/ page = <<>>)
    <3>2. /\ y.pc = "locate" /\ y.req = th[t].req /\ y.rest = Normalize(th[t].req.path)
          /\ y.fd = "home" /\ y.seen = z /\ y.missed = m
      BY <1>14, <1>15, <2>2
    <3> QED  BY <1>2, <1>8, <3>2, BegunServes
  <2> QED  BY <2>1, <2>2
<1>11. \A k \in 1 .. Len(s) : k \in 1 .. Len(z)
  BY <1>9
<1>12. ASSUME NEW n \in th[t].found, Beyond(t, n), Passed(y, n)
       PROVE  \E k \in 1 .. Len(z) : Shown[z[k]] = Shown[n]
  <2>1. n \in S
    BY <1>12 DEF S
  <2>2. page = named \/ (Len(z) > 0 /\ Shown[n] <= Shown[z[Len(z)]])
    <3>1. (y.pc = "ok" /\ limit > 0) \/ (Len(z) > 0 /\ Shown[n] <= Shown[z[Len(z)]])
      BY <1>10, <1>12 DEF Passed, limit
    <3>2. y.pc = "ok" /\ limit > 0 => page = named
      BY <1>2, <1>10
    <3> QED  BY <3>1, <3>2
  <2>3. PICK k \in 1 .. Len(page) : Shown[page[k]] = Shown[n]
    BY <1>8, <2>1, <2>2
  <2>4. Len(s) + k \in 1 .. Len(z) /\ z[Len(s) + k] = page[k]
    BY <1>9
  <2> QED  BY <2>3, <2>4
<1> QED  BY <1>1, <1>9, <1>10, <1>11, <1>12, SMTT(30) DEF y, s, m

-----------------------------------------------------------------------------
(* The steps of a thread *)

\* A step of one thread changes only that thread.
LEMMA SetTo ==
    ASSUME FilesInv, NEW t \in Thread, NEW r, Set(t, r)
    PROVE  th'[t] = r /\ \A u \in Thread : u # t => th'[u] = th[u]
BY DEF FilesInv, ThreadsOK, Set

\* The record of a thread after some of its fields were set.
LEMMA Refitted ==
    ASSUME NEW x, DOMAIN x = DOMAIN Idle, NEW p, NEW v, NEW w
    PROVE  /\ LET y == [x EXCEPT !.pc = p]
              IN  /\ y.pc = p /\ y.req = x.req /\ y.seen = x.seen /\ y.missed = x.missed /\ y.rest = x.rest
                  /\ y.fd = x.fd /\ y.file = x.file
           /\ LET y == [x EXCEPT !.pc = p, !.fd = v, !.rest = w]
              IN  y.pc = p /\ y.req = x.req /\ y.seen = x.seen /\ y.missed = x.missed /\ y.rest = w /\ y.fd = v
           /\ LET y == [x EXCEPT !.pc = p, !.fd = v]
              IN  y.pc = p /\ y.req = x.req /\ y.seen = x.seen /\ y.missed = x.missed /\ y.rest = x.rest /\ y.fd = v
           /\ LET y == [x EXCEPT !.pc = p, !.file = v]
              IN  y.pc = p /\ y.req = x.req /\ y.seen = x.seen /\ y.missed = x.missed /\ y.rest = x.rest /\ y.file = v
           /\ LET y == [x EXCEPT !.pc = p, !.stack = v]
              IN  y.pc = p /\ y.req = x.req /\ y.seen = x.seen /\ y.missed = x.missed /\ y.rest = x.rest
           /\ LET y == [x EXCEPT !.pc = p, !.probe = v]
              IN  y.pc = p /\ y.req = x.req /\ y.seen = x.seen /\ y.missed = x.missed /\ y.rest = x.rest
           /\ LET y == [x EXCEPT !.stack = v]
              IN  y.pc = x.pc /\ y.req = x.req /\ y.seen = x.seen /\ y.missed = x.missed /\ y.rest = x.rest
           /\ LET y == [x EXCEPT !.stack = v, !.pc = p, !.probe = w]
              IN  y.pc = p /\ y.req = x.req /\ y.seen = x.seen /\ y.missed = x.missed /\ y.rest = x.rest
BY Fields

\* Beginning a request, or repeating a range, starts at the home.
LEMMA BeginMoves ==
    ASSUME FilesInv, NEW t \in Thread, Begin(t) \/ BodyBreaks(t)
    PROVE  Moves(t) /\ Serves(th'[t])
<1>1. PICK r \in Request : /\ Set(t, Begun(r))
                           /\ th[t].pc = "idle" \/ (th[t].pc = "body" /\ r = th[t].req)
  <2>1. BodyBreaks(t) => th[t].pc \in Open /\ th[t].pc = "body"
    BY DEF BodyBreaks, At, Open
  <2>2. BodyBreaks(t) => th[t].req \in Request
    BY <2>1, AtWork DEF FilesInv
  <2> QED  BY <2>1, <2>2 DEF Begin, BodyBreaks, At
<1>2. th'[t] = Begun(r)
  BY <1>1, SetTo
<1>3. <<>> \in Seq(Names) /\ Ascending(<<>>)
  BY DEF Ascending
<1>4. /\ Serves(th'[t]) /\ th'[t].pc = "locate" /\ th'[t].req = r /\ Depth(th'[t]) = 0
      /\ Holds(th'[t]) = "home" /\ th'[t].seen = <<>>
  <2> DEFINE y == Begun(r)
  <2>1. /\ y.pc = "locate" /\ y.req = r /\ y.rest = Normalize(r.path) /\ y.fd = "home"
        /\ y.seen = <<>>
    BY DEF Begun, Idle
  <2>2. th'[t] = y
    BY <1>2
  <2> HIDE DEF y
  <2> QED  BY <1>3, <2>1, <2>2, BegunServes
<1> QED  BY <1>1, <1>4 DEF Moves, Begins

\* What the labels say of a thread at work, for its trail.
LEMMA OnTheWay ==
    ASSUME FilesInv, NEW t \in Thread, th[t].pc \in Open
    PROVE  /\ ThreadsOK /\ DOMAIN th[t] = DOMAIN Idle /\ th[t].req \in Request /\ th[t].rest \in Seq(Names)
           /\ Len(th[t].rest) \in Nat /\ th[t].fd \in InsideDir
           /\ Located(t) \/ Walking(t) \/ th[t].pc \in Naming => Len(th[t].rest) > 0 /\ Name(t) \in Names
<1>1. ThreadsOK
  BY DEF FilesInv
<1> QED  BY <1>1, AtWork

\* Creating a directory on the way, and handing it over, does not move the thread.
LEMMA LocateMoves ==
    ASSUME FilesInv, NEW t \in Thread, Serves(th[t]), LocateMkdir(t) \/ MkdirLast(t) \/ LocateGive(t)
    PROVE  Moves(t) /\ Serves(th'[t])
<1>1. th[t].pc \in {"locate", "give"} /\ th[t].pc \in Open
  BY DEF LocateMkdir, MkdirLast, LocateGive, Walking, Located, At, Open
<1>2. ThreadsOK /\ DOMAIN th[t] = DOMAIN Idle /\ th[t].req \in Request /\ th[t].rest \in Seq(Names)
  BY <1>1, OnTheWay
<1>3. PICK p \in {"descend", "adopt", "locate"} :
         /\ Set(t, [th[t] EXCEPT !.pc = p]) \/ Finish(t, "error")
         /\ p = "descend" => th[t].pc = "locate"
         /\ p = "adopt" => th[t].req.op = "mkdir"
         /\ p = "locate" => th[t].pc = "give"
  BY DEF LocateMkdir, MkdirLast, LocateGive, MkdirAt, Fail, OpOf, Walking, At
<1>4. CASE Set(t, [th[t] EXCEPT !.pc = p])
  <2>1. th'[t] = [th[t] EXCEPT !.pc = p]
    BY <1>4, SetTo
  <2>2. /\ th'[t].pc = p /\ th'[t].req = th[t].req /\ th'[t].seen = th[t].seen
        /\ th'[t].rest = th[t].rest /\ th'[t].fd = th[t].fd /\ th'[t].missed = th[t].missed
    BY <1>2, <2>1, Refitted
  <2>3. Serves(th'[t]) /\ Stays(entry', th[t], th'[t])
    BY <1>1, <1>2, <1>3, <2>2, GoesOn
  <2> QED  BY <2>3 DEF Moves
<1>5. CASE Finish(t, "error")
  BY <1>1, <1>2, <1>5, IsAnswered DEF Moves
<1> QED  BY <1>3, <1>4, <1>5

\* Opening a directory takes the thread one name further down its path.
LEMMA OpenMoves ==
    ASSUME FilesInv, NEW t \in Thread, Serves(th[t]), LocateOpen(t) \/ ListOpen(t)
    PROVE  Moves(t) /\ Serves(th'[t])
<1>1. /\ th[t].pc \in {"locate", "descend"} /\ th[t].pc \in Open
      /\ Located(t) \/ Walking(t) \/ th[t].pc \in Naming
      /\ entry' = entry
  BY DEF LocateOpen, ListOpen, Walking, Located, At, Open, Naming, fsVars
<1>2. /\ ThreadsOK /\ DOMAIN th[t] = DOMAIN Idle /\ th[t].req \in Request /\ th[t].rest \in Seq(Names)
      /\ th[t].fd \in InsideDir /\ Len(th[t].rest) > 0 /\ Name(t) \in Names
  BY <1>1, OnTheWay
<1>3. \A d \in OpenDirAt(th[t].fd, Name(t)) : d = entry'[th[t].fd][Head(th[t].rest)]
  BY <1>1, <1>2, Opened, SMTT(30) DEF FilesInv, Name
<1> DEFINE down(p, d) == [th[t] EXCEPT !.pc = p, !.fd = d, !.rest = Tail(th[t].rest)]
           into(d) == [th[t] EXCEPT !.pc = "entries", !.fd = d, !.scan = Names, !.found = {}]
<1>4. \/ \E d \in OpenDirAt(th[t].fd, Name(t)), p \in {"locate", "give"} : Set(t, down(p, d))
      \/ /\ Len(th[t].rest) = 1 /\ th[t].req.op = "list"
         /\ \E d \in OpenDirAt(th[t].fd, Name(t)) : Set(t, into(d))
      \/ Finish(t, "error")
  <2>1. CASE LocateOpen(t)
    BY <2>1, ZenonT(30) DEF LocateOpen, Fail
  <2>2. CASE ListOpen(t)
    BY <2>2, ZenonT(30) DEF ListOpen, Listing, Located, Fail, OpOf
  <2> QED  BY <2>1, <2>2, Zenon
<1>5. \A d, p : /\ down(p, d).pc = p /\ down(p, d).req = th[t].req /\ down(p, d).seen = th[t].seen
                /\ down(p, d).rest = Tail(th[t].rest) /\ down(p, d).fd = d
                /\ down(p, d).missed = th[t].missed
  BY <1>2, Refitted
<1>9. \A d : /\ into(d).pc = "entries" /\ into(d).req = th[t].req /\ into(d).seen = th[t].seen
             /\ into(d).fd = d /\ into(d).missed = th[t].missed /\ into(d).scan = Names
  BY <1>2, Fields
<1> HIDE DEF down, into
<1>6. ASSUME NEW d \in OpenDirAt(th[t].fd, Name(t)), NEW p \in {"locate", "give"}, Set(t, down(p, d))
      PROVE  Moves(t) /\ Serves(th'[t])
  <2>1. th'[t] = down(p, d)
    BY <1>6, SetTo
  <2>2. Serves(th'[t]) /\ Descends(entry', th[t], th'[t])
    BY <1>1, <1>2, <1>3, <1>5, <2>1, GoesDown, SMTT(30)
  <2> QED  BY <2>2 DEF Moves
<1>7. ASSUME NEW d \in OpenDirAt(th[t].fd, Name(t)), Set(t, into(d)),
             Len(th[t].rest) = 1, th[t].req.op = "list"
      PROVE  Moves(t) /\ Serves(th'[t])
  <2>1. th'[t] = into(d)
    BY <1>7, SetTo
  <2>2. Serves(th'[t]) /\ Descends(entry', th[t], th'[t])
    BY <1>1, <1>2, <1>3, <1>7, <1>9, <2>1, GoesDown, ZenonT(60)
  <2> QED  BY <2>2 DEF Moves
<1>8. CASE Finish(t, "error")
  BY <1>1, <1>2, <1>8, IsAnswered DEF Moves
<1> QED  BY <1>4, <1>6, <1>7, <1>8

\* Reading one entry of a directory leaves no other unread.
LEMMA EntryMoves ==
    ASSUME FilesInv, NEW t \in Thread, Serves(th[t]), ListEntry(t)
    PROVE  Moves(t) /\ Serves(th'[t])
<1>1. th[t].pc = "entries" /\ th[t].pc \in Open /\ entry' = entry
  BY DEF ListEntry, At, Open
<1>2. ThreadsOK /\ DOMAIN th[t] = DOMAIN Idle /\ th[t].req \in Request /\ th[t].rest \in Seq(Names)
  BY <1>1, OnTheWay
<1> DEFINE visited(n) == [th[t] EXCEPT !.scan = th[t].scan \ {n}]
           found(n) == [visited(n) EXCEPT !.found = visited(n).found \cup {n}]
           missed(n) == [visited(n) EXCEPT !.missed = visited(n).missed \cup {n}]
<1>3. PICK n \in th[t].scan :
         \/ Set(t, visited(n)) /\ OpenPathAt(th[t].fd, n) = {}
         \/ Set(t, found(n))
         \/ Set(t, missed(n))
  BY DEF ListEntry
<1>4. entry[th[t].fd][n] # None => OpenPathAt(th[t].fd, n) # {}
  BY DEF OpenPathAt
<1>5. ASSUME NEW y, Set(t, y), y.pc = "entries", y.req = th[t].req, y.seen = th[t].seen,
             y.rest = th[t].rest, y.fd = th[t].fd, y.scan = th[t].scan \ {n},
             th[t].found \subseteq y.found, th[t].missed \subseteq y.missed,
             entry[th[t].fd][n] # None => n \in y.found \cup y.missed
      PROVE  Moves(t) /\ Serves(th'[t])
  <2>1. th'[t] = y
    BY <1>5, SetTo
  <2>2. Scans(entry', th[t], y)
    BY <1>1, <1>5 DEF Scans
  <2>3. Serves(th'[t]) /\ Stays(entry', th[t], th'[t])
    BY <1>1, <1>2, <1>5, <2>1, <2>2, GoesOn
  <2> QED  BY <2>3 DEF Moves
<1>6. /\ visited(n).pc = "entries" /\ visited(n).req = th[t].req /\ visited(n).seen = th[t].seen
      /\ visited(n).rest = th[t].rest /\ visited(n).fd = th[t].fd /\ visited(n).scan = th[t].scan \ {n}
      /\ visited(n).found = th[t].found /\ visited(n).missed = th[t].missed
      /\ DOMAIN visited(n) = DOMAIN Idle
  BY <1>1, <1>2, Fields
<1> HIDE DEF visited
<1>7. /\ found(n).pc = "entries" /\ found(n).req = th[t].req /\ found(n).seen = th[t].seen
      /\ found(n).rest = th[t].rest /\ found(n).fd = th[t].fd /\ found(n).scan = th[t].scan \ {n}
      /\ found(n).found = th[t].found \cup {n} /\ found(n).missed = th[t].missed
  BY <1>6, Fields
<1>8. /\ missed(n).pc = "entries" /\ missed(n).req = th[t].req /\ missed(n).seen = th[t].seen
      /\ missed(n).rest = th[t].rest /\ missed(n).fd = th[t].fd /\ missed(n).scan = th[t].scan \ {n}
      /\ missed(n).found = th[t].found /\ missed(n).missed = th[t].missed \cup {n}
  BY <1>6, Fields
<1> HIDE DEF found, missed
<1>9. CASE Set(t, visited(n)) /\ OpenPathAt(th[t].fd, n) = {}
  BY <1>4, <1>5, <1>6, <1>9
<1>10. CASE Set(t, found(n))
  BY <1>5, <1>7, <1>10
<1>11. CASE Set(t, missed(n))
  BY <1>5, <1>8, <1>11
<1> QED  BY <1>3, <1>9, <1>10, <1>11

\* A request whose open is refused ends.
LEMMA RefusalMoves ==
    ASSUME FilesInv, NEW t \in Thread, Serves(th[t]), OpenFails(t)
    PROVE  Moves(t) /\ Serves(th'[t])
<1>1. th[t].pc \in Open /\ Finish(t, "error")
  BY DEF OpenFails, Open, Fail
<1> QED  BY <1>1, IsAnswered DEF Moves, FilesInv

\* Requests that only look end where they stand.
LEMMA LookMoves ==
    ASSUME FilesInv, NEW t \in Thread, Serves(th[t]),
           OnRoot(t) \/ Read(t) \/ Stat(t) \/ MkdirAdopt(t) \/ MkdirHand(t)
    PROVE  Moves(t) /\ Serves(th'[t])
<1>1. th[t].pc \in {"locate", "adopt", "hand"} /\ th[t].pc \in Open
  BY DEF OnRoot, Read, Stat, MkdirAdopt, MkdirHand, RootNamed, Located, At, Open
<1>2. ThreadsOK /\ DOMAIN th[t] = DOMAIN Idle /\ th[t].req \in Request /\ th[t].rest \in Seq(Names)
  BY <1>1, OnTheWay
<1> DEFINE into == [th[t] EXCEPT !.pc = "entries", !.fd = th[t].fd, !.scan = Names, !.found = {}]
           holds(d) == [th[t] EXCEPT !.pc = "hand", !.file = d]
<1>3. \/ /\ th[t].pc = "locate" /\ th[t].rest = <<>> /\ th[t].req.op = "list"
         /\ Set(t, into)
      \/ th[t].req.op = "mkdir" /\ \E d : Set(t, holds(d))
      \/ \E a \in {"ok", "error"} :
            Finish(t, a) /\ (a = "ok" => OpOf(t) \notin {"write", "list"})
  <2>1. CASE OnRoot(t)
    BY <2>1 DEF OnRoot, Listing, RootNamed, At, OpOf, Fail
  <2>2. CASE Read(t) \/ Stat(t)
    <3>1. OpOf(t) \notin {"write", "list"}
      BY <2>2 DEF Read, Stat
    <3>2. Finish(t, "ok") \/ Finish(t, "error")
      BY <2>2 DEF Read, Stat
    <3> QED  BY <3>1, <3>2
  <2>3. CASE MkdirAdopt(t) \/ MkdirHand(t)
    <3>1. OpOf(t) = "mkdir"
      BY <2>3 DEF MkdirAdopt, MkdirHand, At, Serves, OpOf
    <3>2. Finish(t, "ok") \/ Finish(t, "error") \/ \E d : Set(t, holds(d))
      BY <2>3 DEF MkdirAdopt, MkdirHand, Fail
    <3> QED  BY <3>1, <3>2 DEF OpOf
  <2> QED  BY <2>1, <2>2, <2>3
<1>4. CASE /\ th[t].pc = "locate" /\ th[t].rest = <<>> /\ th[t].req.op = "list"
           /\ Set(t, into)
  <2>1. th'[t] = into
    BY <1>4, SetTo
  <2>2. /\ into.pc = "entries" /\ into.req = th[t].req /\ into.seen = th[t].seen
        /\ into.rest = th[t].rest /\ into.fd = th[t].fd /\ into.missed = th[t].missed
        /\ into.scan = Names
    BY <1>2, Fields
  <2> HIDE DEF into
  <2>3. Serves(th'[t]) /\ Stays(entry', th[t], th'[t])
    BY <1>1, <1>2, <1>4, <2>1, <2>2, GoesOn
  <2> QED  BY <2>3 DEF Moves
<1>6. ASSUME NEW d, Set(t, holds(d)), th[t].req.op = "mkdir" PROVE Moves(t) /\ Serves(th'[t])
  <2>1. th'[t] = holds(d)
    BY <1>6, SetTo
  <2>2. /\ th'[t].pc = "hand" /\ th'[t].req = th[t].req /\ th'[t].seen = th[t].seen
        /\ th'[t].rest = th[t].rest /\ th'[t].missed = th[t].missed
    BY <1>2, <2>1, Refitted
  <2>3. Serves(th'[t]) /\ Stays(entry', th[t], th'[t])
    BY <1>1, <1>2, <1>6, <2>2, GoesOn
  <2> QED  BY <2>3 DEF Moves
<1>5. ASSUME NEW a \in {"ok", "error"}, Finish(t, a), a = "ok" => OpOf(t) \notin {"write", "list"}
      PROVE  Moves(t) /\ Serves(th'[t])
  BY <1>1, <1>2, <1>5, IsAnswered DEF Moves
<1> HIDE DEF into, holds
<1> QED  BY <1>3, <1>4, <1>5, <1>6

\* Connecting follows the path to the socket and ends there.
LEMMA ConnectMoves ==
    ASSUME FilesInv, NEW t \in Thread, Serves(th[t]), ConnectVet(t) \/ Connect(t)
    PROVE  Moves(t) /\ Serves(th'[t])
<1>1. th[t].pc \in {"locate", "connect"} /\ th[t].pc \in Open /\ OpOf(t) = "connect"
  BY DEF ConnectVet, Connect, Located, At, Open, Serves, OpOf
<1>2. ThreadsOK /\ DOMAIN th[t] = DOMAIN Idle /\ th[t].req \in Request /\ th[t].rest \in Seq(Names)
  BY <1>1, OnTheWay
<1> DEFINE x(i) == [th[t] EXCEPT !.pc = "connect", !.file = i]
<1>3. (\E i : Set(t, x(i))) \/ Finish(t, "ok") \/ Finish(t, "error")
  BY DEF ConnectVet, Connect, Fail
<1>4. ASSUME NEW i, Set(t, x(i)) PROVE Moves(t) /\ Serves(th'[t])
  <2>1. th'[t] = x(i)
    BY <1>4, SetTo
  <2>2. /\ th'[t].pc = "connect" /\ th'[t].req = th[t].req /\ th'[t].seen = th[t].seen /\ th'[t].missed = th[t].missed
        /\ th'[t].rest = th[t].rest
    BY <1>2, <2>1, Refitted
  <2>3. Serves(th'[t]) /\ Stays(entry', th[t], th'[t])
    BY <1>1, <1>2, <2>2, GoesOn DEF OpOf
  <2> QED  BY <2>3 DEF Moves
<1>5. CASE Finish(t, "ok") \/ Finish(t, "error")
  BY <1>1, <1>2, <1>5, IsAnswered DEF Moves
<1> HIDE DEF x
<1> QED  BY <1>3, <1>4, <1>5

\* An upload opens the last name of its path and stays with the file.
LEMMA WriteMoves ==
    ASSUME FilesInv, NEW t \in Thread, Serves(th[t]),
           WriteOpen(t) \/ WriteOwn(t) \/ WriteBody(t) \/ WriteSetLen(t)
    PROVE  Moves(t) /\ Serves(th'[t])
<1>1. th[t].pc \in {"locate", "own", "body", "setlen"} /\ th[t].pc \in Open
  BY DEF WriteOpen, WriteOwn, WriteBody, WriteSetLen, Located, At, Open
<1>2. ThreadsOK /\ DOMAIN th[t] = DOMAIN Idle /\ th[t].req \in Request /\ th[t].rest \in Seq(Names)
  BY <1>1, OnTheWay
<1>3. CASE WriteOpen(t)
  <2>1. th[t].pc = "locate" /\ Located(t) /\ Len(th[t].rest) = 1 /\ th[t].req.op = "write"
    BY <1>3 DEF WriteOpen, Located, At, OpOf
  <2>2. th[t].fd \in InsideDir /\ Name(t) \in Names
    BY <1>1, <2>1, OnTheWay, SMTT(30)
  <2> DEFINE x(f) == [th[t] EXCEPT !.pc = "own", !.file = f]
             d == th[t].fd
             n == Name(t)
  <2>3. \/ \E f \in OpenAt(d, n) : Set(t, x(f)) /\ entry' = entry
        \/ \E f \in Fresh(NewFile) : Set(t, x(f)) /\ entry' = [entry EXCEPT ![d][n] = f]
        \/ Finish(t, "error")
    BY <1>3 DEF WriteOpen, Fail
  <2>4. \A f \in OpenAt(d, n) : f = entry[d][n]
    BY <2>2, Opened DEF FilesInv
  <2>5. \A f : entry' = [entry EXCEPT ![d][n] = f] => entry'[d][n] = f
    BY <2>2, Kinds DEF FilesInv, HomeOK
  <2>6. \A f : /\ x(f).pc = "own" /\ x(f).req = th[t].req /\ x(f).seen = th[t].seen /\ x(f).missed = th[t].missed
               /\ x(f).file = f
    BY <1>2, Refitted
  <2> HIDE DEF x, d, n
  <2>7. ASSUME NEW f, Set(t, x(f)), f = entry'[d][n] PROVE Moves(t) /\ Serves(th'[t])
    <3>1. th'[t] = x(f)
      BY <2>7, SetTo
    <3>2. f = entry'[th[t].fd][Head(th[t].rest)]
      BY <2>7 DEF d, n, Name
    <3>3. Serves(th'[t]) /\ Descends(entry', th[t], th'[t])
      BY <1>2, <2>1, <2>6, <3>1, <3>2, GoesDown, SMTT(30)
    <3> QED  BY <3>3 DEF Moves
  <2>8. CASE Finish(t, "error")
    BY <1>1, <1>2, <2>8, IsAnswered DEF Moves
  <2> QED  BY <2>3, <2>4, <2>5, <2>7, <2>8, SMTT(30)
<1>4. CASE WriteOwn(t) \/ WriteBody(t)
  <2>1. PICK p \in {"body", "setlen"} :
           /\ Set(t, [th[t] EXCEPT !.pc = p])
           /\ (th[t].pc = "own" /\ p = "body") \/ (th[t].pc = "body" /\ p = "setlen")
    BY <1>4 DEF WriteOwn, WriteBody, At
  <2>2. th'[t] = [th[t] EXCEPT !.pc = p]
    BY <2>1, SetTo
  <2>3. /\ th'[t].pc = p /\ th'[t].req = th[t].req /\ th'[t].seen = th[t].seen /\ th'[t].missed = th[t].missed
        /\ th'[t].rest = th[t].rest /\ th'[t].file = th[t].file
    BY <1>2, <2>2, Refitted
  <2>4. Serves(th'[t]) /\ Stays(entry', th[t], th'[t])
    BY <1>1, <1>2, <2>1, <2>3, GoesOn
  <2> QED  BY <2>4 DEF Moves
<1>5. CASE WriteSetLen(t)
  <2>1. Finish(t, "ok") /\ th[t].pc = "setlen"
    BY <1>5 DEF WriteSetLen, At
  <2> QED  BY <1>1, <1>2, <2>1, IsAnswered DEF Moves
<1> QED  BY <1>3, <1>4, <1>5

\* A delete works below the directory it located.
LEMMA DeleteMoves ==
    ASSUME FilesInv, NEW t \in Thread, Serves(th[t]),
           \/ DeleteStat(t) \/ DeleteUnlink(t) \/ DeleteTree(t)
           \/ PurgeProbe(t) \/ PurgeDrop(t) \/ PurgeDescend(t) \/ PurgeAscend(t)
    PROVE  Moves(t) /\ Serves(th'[t])
<1>1. th[t].pc \in {"locate"} \cup Purging /\ th[t].pc \in Open
  BY ZenonT(30) DEF DeleteStat, DeleteUnlink, DeleteTree, PurgeProbe, PurgeDrop, PurgeDescend, PurgeAscend,
         Located, At, Open, Purging
<1>2. OpOf(t) \in {"delete", "rmdir"}
  <2>1. CASE DeleteStat(t)
    BY <2>1 DEF DeleteStat
  <2>2. CASE th[t].pc \in Purging
    BY <2>2 DEF Serves, OpOf
  <2> QED
    BY <2>1, <2>2 DEF DeleteUnlink, DeleteTree, PurgeProbe, PurgeDrop, PurgeDescend, PurgeAscend,
         At, Purging
<1>3. ThreadsOK /\ DOMAIN th[t] = DOMAIN Idle /\ th[t].req \in Request /\ th[t].rest \in Seq(Names)
  BY <1>1, OnTheWay
<1>4. ASSUME NEW y, Set(t, y), y.pc \in Purging, y.req = th[t].req, y.seen = th[t].seen,
             y.rest = th[t].rest, y.missed = th[t].missed
      PROVE  Moves(t) /\ Serves(th'[t])
  <2>1. th'[t] = y
    BY <1>4, SetTo
  <2>2. Serves(th'[t]) /\ Stays(entry', th[t], th'[t])
    BY <1>1, <1>2, <1>3, <1>4, <2>1, GoesOn DEF OpOf
  <2> QED  BY <2>2 DEF Moves
<1>5. ASSUME Finish(t, "ok") \/ Fail(t) PROVE Moves(t) /\ Serves(th'[t])
  <2>1. OpOf(t) \notin {"write", "list"}
    BY <1>2
  <2> QED  BY <1>1, <1>3, <1>5, <2>1, IsAnswered DEF Moves, Fail
<1>6. CASE DeleteStat(t)
  <2>1. Fail(t) \/ \E c \in Purging : Set(t, [th[t] EXCEPT !.pc = c])
    BY <1>6 DEF DeleteStat, Purging
  <2>2. ASSUME NEW c \in Purging, Set(t, [th[t] EXCEPT !.pc = c]) PROVE Moves(t) /\ Serves(th'[t])
    <3> DEFINE y == [th[t] EXCEPT !.pc = c]
    <3>1. y.pc \in Purging /\ y.req = th[t].req /\ y.seen = th[t].seen /\ y.missed = th[t].missed /\ y.rest = th[t].rest /\ Set(t, y)
      BY <1>3, <2>2, Refitted
    <3> HIDE DEF y
    <3> QED  BY <1>4, <3>1
  <2> QED  BY <1>5, <2>1, <2>2
<1>7. CASE DeleteUnlink(t)
  BY <1>5, <1>7 DEF DeleteUnlink
<1>8. ASSUME NEW parent, NEW n, NEW rest, Push(t, parent, n, rest) PROVE Moves(t) /\ Serves(th'[t])
  <2>1. Fail(t) \/ \E v : Set(t, [th[t] EXCEPT !.pc = "scan", !.stack = v])
    BY <1>8 DEF Push
  <2>2. ASSUME NEW v, Set(t, [th[t] EXCEPT !.pc = "scan", !.stack = v]) PROVE Moves(t) /\ Serves(th'[t])
    <3> DEFINE y == [th[t] EXCEPT !.pc = "scan", !.stack = v]
    <3>1. /\ y.pc \in Purging /\ y.req = th[t].req /\ y.seen = th[t].seen /\ y.missed = th[t].missed /\ y.rest = th[t].rest /\ Set(t, y)
      BY <1>3, <2>2, Refitted DEF Purging
    <3> HIDE DEF y
    <3> QED  BY <1>4, <3>1
  <2> QED  BY <1>5, <2>1, <2>2
<1>9. CASE DeleteTree(t) \/ PurgeDescend(t)
  BY <1>8, <1>9 DEF DeleteTree, PurgeDescend
<1>10. CASE PurgeProbe(t)
  <2> DEFINE goes(n) == [th[t] EXCEPT !.stack[1].todo = @ \ {n}, !.stack[1].subs = @ \cup {n}]
             drops(n) == [th[t] EXCEPT !.stack[1].todo = @ \ {n}, !.pc = "drop", !.probe = n]
  <2>1. PICK n : Set(t, goes(n)) \/ Set(t, drops(n))
    BY <1>10, ZenonT(30) DEF PurgeProbe
  <2>2. th[t].pc = "scan"
    BY <1>10 DEF PurgeProbe, At
  <2>3. /\ goes(n).pc = "scan" /\ goes(n).req = th[t].req /\ goes(n).seen = th[t].seen /\ goes(n).missed = th[t].missed
        /\ goes(n).rest = th[t].rest
    BY <1>3, <2>2, Fields
  <2>4. /\ drops(n).pc = "drop" /\ drops(n).req = th[t].req /\ drops(n).seen = th[t].seen /\ drops(n).missed = th[t].missed
        /\ drops(n).rest = th[t].rest
    BY <1>3, <2>2, Fields
  <2>5. {"scan", "drop"} \subseteq Purging
    BY DEF Purging
  <2> HIDE DEF goes, drops
  <2> QED  BY <1>4, <2>1, <2>3, <2>4, <2>5
<1>11. CASE PurgeDrop(t)
  <2> DEFINE y == [th[t] EXCEPT !.pc = "scan", !.probe = None]
  <2>1. Fail(t) \/ Set(t, y)
    BY <1>11 DEF PurgeDrop
  <2>2. y.pc \in Purging /\ y.req = th[t].req /\ y.seen = th[t].seen /\ y.missed = th[t].missed /\ y.rest = th[t].rest
    BY <1>3, Refitted DEF Purging
  <2> HIDE DEF y
  <2> QED  BY <1>4, <1>5, <2>1, <2>2
<1>12. CASE PurgeAscend(t)
  <2> DEFINE y == [th[t] EXCEPT !.stack = Tail(th[t].stack)]
  <2>1. Fail(t) \/ Finish(t, "ok") \/ Set(t, y)
    BY <1>12 DEF PurgeAscend
  <2>2. y.pc = th[t].pc /\ y.req = th[t].req /\ y.seen = th[t].seen /\ y.missed = th[t].missed /\ y.rest = th[t].rest
    BY <1>3, Refitted
  <2>3. th[t].pc \in Purging
    BY <1>12 DEF PurgeAscend, At, Purging
  <2> HIDE DEF y
  <2> QED  BY <1>4, <1>5, <2>1, <2>2, <2>3
<1> QED  BY <1>6, <1>7, <1>9, <1>10, <1>11, <1>12

\* What a step does to a thread.
LEMMA ServeMoves ==
    ASSUME FilesInv, NEW t \in Thread, Serves(th[t]), Serve(t)
    PROVE  /\ Moves(t) /\ Serves(th'[t])
           /\ \A u \in Thread : u # t => th'[u] = th[u]
           /\ tampers' = tampers
<1>1. Moves(t) /\ Serves(th'[t])
  <2>1. CASE ListEntries(t)
    BY <2>1, ListsPage, SMTT(30) DEF Moves
  <2> QED
    BY <2>1, BeginMoves, LocateMoves, OpenMoves, EntryMoves, RefusalMoves, LookMoves, ConnectMoves,
       WriteMoves, DeleteMoves
    DEF Serve
<1>2. \E r : Set(t, r)
  BY ZenonT(30) DEF Serve, Begin, LocateMkdir, LocateOpen, LocateGive, OpenFails, OnRoot, Read, Stat, ListOpen,
         ListEntry, ListEntries, MkdirLast, MkdirAdopt, MkdirHand, MkdirAt, ConnectVet, Connect, WriteOpen, WriteOwn, WriteBody, BodyBreaks, WriteSetLen,
         DeleteStat, DeleteUnlink, DeleteTree, PurgeProbe, PurgeDrop, PurgeDescend, PurgeAscend,
         Push, Fail, Finish
<1>3. tampers' = tampers
  BY DEF Serve, Begin, LocateMkdir, LocateOpen, LocateGive, OpenFails, OnRoot, Read, Stat, ListOpen,
         ListEntry, ListEntries, MkdirLast, MkdirAdopt, MkdirHand, ConnectVet, Connect,
         WriteOpen, WriteOwn, WriteBody, BodyBreaks, WriteSetLen,
         DeleteStat, DeleteUnlink, DeleteTree, PurgeProbe, PurgeDrop, PurgeDescend, PurgeAscend,
         histVars, keptVars
<1> QED  BY <1>1, <1>2, <1>3, SetTo

-----------------------------------------------------------------------------
(* The home *)

\* A request makes a file or a directory under a name that is not taken.
Makes ==
    \E d \in InsideDir, n \in Names, i \in Fresh(NewDir \cup NewFile) :
        /\ entry[d][n] = None /\ entry' = [entry EXCEPT ![d][n] = i]
        /\ owner' = [owner EXCEPT ![i] = "other"]

OwnersKept == \A i \in Inode : owner[i] # None => owner'[i] # None

\* What a step does to the home.
LEMMA ServeHome ==
    ASSUME FilesInv, NEW t \in Thread, Serves(th[t]), Serve(t)
    PROVE  /\ OwnersKept
           /\ \/ entry' = entry
              \/ Makes
              \/ Unlinks /\ owner' = owner /\ ~At(t, "idle") /\ OpOf(t) \in {"delete", "rmdir"}
<1>1. owner \in [Inode -> {"sandbox", "other", None}]
  BY DEF FilesInv, HomeOK
<1>2. ASSUME owner' = owner PROVE OwnersKept
  BY <1>2 DEF OwnersKept
<1>3. ASSUME NEW i, HandOver(i) PROVE OwnersKept
  BY <1>1, <1>3 DEF OwnersKept, HandOver, None
<1>4. ASSUME Makes PROVE OwnersKept
  BY <1>1, <1>4 DEF OwnersKept, Makes, None
<1>5. CASE \/ Begin(t) \/ LocateOpen(t) \/ OpenFails(t) \/ OnRoot(t) \/ Read(t) \/ Stat(t)
           \/ ListOpen(t) \/ ListEntry(t) \/ ListEntries(t) \/ MkdirAdopt(t)
           \/ ConnectVet(t) \/ Connect(t) \/ WriteBody(t) \/ BodyBreaks(t) \/ WriteSetLen(t)
           \/ DeleteStat(t) \/ DeleteTree(t) \/ PurgeProbe(t) \/ PurgeDescend(t)
  <2>1. entry' = entry /\ owner' = owner
    BY <1>5 DEF Begin, LocateOpen, OpenFails, OnRoot, Read, Stat, ListOpen, ListEntry, ListEntries,
                MkdirAdopt, ConnectVet, Connect, WriteBody,
                BodyBreaks, WriteSetLen, DeleteStat, DeleteTree, PurgeProbe, PurgeDescend, fsVars
  <2> QED  BY <1>2, <2>1, SMTT(30)
<1>6. CASE LocateGive(t) \/ MkdirHand(t) \/ WriteOwn(t)
  <2>1. entry' = entry /\ \E i : HandOver(i)
    BY <1>6 DEF LocateGive, MkdirHand, WriteOwn
  <2> QED  BY <1>3, <2>1
<1>7. CASE LocateMkdir(t) \/ MkdirLast(t)
  <2>1. th[t].pc = "locate" /\ th[t].pc \in Open /\ (Walking(t) \/ Located(t))
    BY <1>7 DEF LocateMkdir, MkdirLast, Walking, Located, At, Open
  <2>2. th[t].fd \in InsideDir /\ Name(t) \in Names
    BY <2>1, OnTheWay
  <2> DEFINE d == th[t].fd
             n == Name(t)
  <2>3. \/ entry' = entry /\ owner' = owner
        \/ /\ entry[d][n] = None /\ Fresh(NewDir) # {}
           /\ LET i == CHOOSE x \in Fresh(NewDir) : TRUE
              IN  entry' = [entry EXCEPT ![d][n] = i] /\ owner' = [owner EXCEPT ![i] = "other"]
    BY <1>7 DEF LocateMkdir, MkdirLast, MkdirAt, Name
  <2>4. Fresh(NewDir) \subseteq Fresh(NewDir \cup NewFile)
    BY DEF Fresh
  <2> HIDE DEF d, n
  <2>5. (entry' = entry /\ owner' = owner) \/ Makes
    BY <2>2, <2>3, <2>4, ZenonT(30) DEF Makes, d, n
  <2> QED  BY <1>2, <1>4, <2>5
<1>8. CASE WriteOpen(t)
  <2>1. th[t].pc \in Open /\ Located(t)
    BY <1>8 DEF WriteOpen, Located, At, Open
  <2>2. th[t].fd \in InsideDir /\ Name(t) \in Names
    BY <2>1, OnTheWay, SMTT(30)
  <2> DEFINE d == th[t].fd
             n == Name(t)
  <2>3. \/ entry' = entry /\ owner' = owner
        \/ \E i \in Fresh(NewFile) : /\ entry[d][n] = None /\ entry' = [entry EXCEPT ![d][n] = i]
                                     /\ owner' = [owner EXCEPT ![i] = "other"]
    BY <1>8 DEF WriteOpen, fsVars
  <2>4. Fresh(NewFile) \subseteq Fresh(NewDir \cup NewFile)
    BY DEF Fresh
  <2> HIDE DEF d, n
  <2>5. (entry' = entry /\ owner' = owner) \/ Makes
    BY <2>2, <2>3, <2>4 DEF Makes, d, n
  <2> QED  BY <1>2, <1>4, <2>5
<1>9. CASE DeleteUnlink(t) \/ PurgeDrop(t) \/ PurgeAscend(t)
  <2>1. /\ th[t].pc \in Purging /\ th[t].pc \in Open /\ th[t].pc \in Naming /\ owner' = owner
        /\ ~At(t, "idle")
    BY <1>9 DEF DeleteUnlink, PurgeDrop, PurgeAscend, At, Purging, Open, Naming
  <2>2. OpOf(t) \in {"delete", "rmdir"}
    BY <2>1 DEF Serves, OpOf
  <2>3. th[t].fd \in InsideDir /\ Name(t) \in Names
    BY <2>1, OnTheWay
  <2>4. ASSUME NEW d \in InsideDir, NEW n \in Names, UnlinkAt(d, n) PROVE Unlinks
    BY <2>4 DEF UnlinkAt, Unlinks
  <2>5. entry' = entry => Unlinks
    BY DEF Unlinks
  <2>6. Unlinks
    <3>1. CASE DeleteUnlink(t)
      BY <2>3, <2>4, <2>5, <3>1 DEF DeleteUnlink
    <3>2. CASE PurgeDrop(t)
      <4>1. th[t].pc = "drop"
        BY <3>2 DEF PurgeDrop, At
      <4>2. Top(t).dir \in InsideDir /\ th[t].probe \in Names
        BY <4>1, TopFrame
      <4> QED  BY <2>4, <2>5, <3>2, <4>2 DEF PurgeDrop
    <3>3. CASE PurgeAscend(t)
      <4>1. th[t].pc = "scan"
        BY <3>3 DEF PurgeAscend, At
      <4>2. /\ Top(t).name \in Names
            /\ Len(th[t].stack) # 1 => th[t].stack[2].dir \in InsideDir
        BY <4>1, TopFrame
      <4> DEFINE parent == IF Len(th[t].stack) = 1 THEN th[t].fd ELSE th[t].stack[2].dir
      <4>3. UnlinkAt(parent, Top(t).name) \/ entry' = entry
        BY <3>3 DEF PurgeAscend
      <4>4. parent \in InsideDir
        BY <2>3, <4>2
      <4> HIDE DEF parent
      <4> QED  BY <2>4, <2>5, <4>2, <4>3, <4>4
    <3> QED  BY <1>9, <3>1, <3>2, <3>3
  <2> QED  BY <1>2, <2>1, <2>2, <2>6
<1> QED  BY <1>5, <1>6, <1>7, <1>8, <1>9 DEF Serve

\* An inode requests made is in use once it has a name.
Claimed ==
    \A d \in InsideDir, n \in Names :
        entry[d][n] \in NewDir \cup NewFile => owner[entry[d][n]] # None

\* The directories of the home are functions from names to inodes.
LEMMA HomeWithin == FilesInv => Within(entry)
BY DEF FilesInv, HomeOK, Within, Store

\* A step of the server gives no inode a second name, reuses no inode and moves none that was there
\* at the start.
LEMMA HomeKept ==
    ASSUME FilesInv, NEW t \in Thread, Serves(th[t]), Serve(t),
           Original(entry), Single(entry), Claimed
    PROVE  /\ Original(entry') /\ Single(entry') /\ Claimed'
           /\ \A d \in InsideDir, n \in Names : entry'[d][n] \in Initial => entry[d][n] = entry'[d][n]
           /\ NoDeletes => \A d \in InsideDir, n \in Names :
                             entry[d][n] # None => entry'[d][n] = entry[d][n]
<1>1. entry \in [Dir -> [Names -> Inode \cup {None}]] /\ owner \in [Inode -> {"sandbox", "other", None}]
  BY DEF FilesInv, HomeOK
<1>2. OwnersKept
  BY ServeHome
<1>3. CASE entry' = entry
  <2>1. Claimed'
    BY <1>2, <1>3, Kinds DEF Claimed, OwnersKept
  <2> QED  BY <1>3, <2>1
<1>4. CASE Makes
  <2>1. PICK d \in InsideDir, n \in Names, i \in Fresh(NewDir \cup NewFile) :
           /\ entry[d][n] = None /\ entry' = [entry EXCEPT ![d][n] = i]
           /\ owner' = [owner EXCEPT ![i] = "other"]
    BY <1>4 DEF Makes
  <2>2. /\ i \in NewDir \cup NewFile /\ owner[i] = None /\ i # None /\ i # "home" /\ i \in Inode
        /\ i \notin Initial
    BY Kinds DEF Fresh, NewDir, NewFile, Initial, None, Inode, Dir, InsideDir, File
  <2>3. /\ entry'[d][n] = i
        /\ \A x \in InsideDir, m \in Names : ~(x = d /\ m = n) => entry'[x][m] = entry[x][m]
    BY <1>1, <2>1, Kinds
  <2>4. \A x \in InsideDir, m \in Names : entry[x][m] # i
    BY <2>2 DEF Claimed
  <2>5. Original(entry')
    BY <2>2, <2>3 DEF Original
  <2>6. Single(entry')
    <3> SUFFICES ASSUME NEW x \in InsideDir, NEW m \in Names
                 PROVE  /\ entry'[x][m] # "home"
                        /\ \A z \in InsideDir, k \in Names :
                             entry'[x][m] = entry'[z][k] /\ entry'[x][m] # None => x = z /\ m = k
      BY DEF Single
    <3>1. entry'[x][m] # "home"
      BY <2>2, <2>3 DEF Single
    <3>2. ASSUME NEW z \in InsideDir, NEW k \in Names, entry'[x][m] = entry'[z][k], entry'[x][m] # None
          PROVE  x = z /\ m = k
      <4>1. CASE x = d /\ m = n
        BY <2>3, <2>4, <3>2, <4>1
      <4>2. CASE ~(x = d /\ m = n)
        <5>1. ~(z = d /\ k = n)
          BY <2>3, <2>4, <3>2, <4>2
        <5>2. entry[x][m] = entry[z][k] /\ entry[x][m] # None
          BY <2>3, <3>2, <4>2, <5>1
        <5> QED  BY <5>2 DEF Single
      <4> QED  BY <4>1, <4>2
    <3> QED  BY <3>1, <3>2
  <2>7. Claimed'
    <3>1. owner'[i] = "other" /\ \A j \in Inode : j # i => owner'[j] = owner[j]
      BY <1>1, <2>1, <2>2
    <3> QED  BY <2>2, <2>3, <3>1, Kinds DEF Claimed, None
  <2> QED  BY <2>1, <2>2, <2>3, <2>5, <2>6, <2>7
<1>5. CASE Unlinks /\ owner' = owner /\ ~At(t, "idle") /\ OpOf(t) \in {"delete", "rmdir"}
  <2>1. \A d \in InsideDir, n \in Names : entry'[d][n] \in {entry[d][n], None}
    BY <1>1, <1>5, Kinds DEF Unlinks
  <2>2. ~NoDeletes
    BY <1>5 DEF NoDeletes
  <2>3. None \notin Initial /\ None \notin NewDir \cup NewFile /\ None # "home"
    BY Kinds DEF Initial, None, NewDir, NewFile
  <2>4. Original(entry') /\ Claimed'
    BY <1>5, <2>1, <2>3 DEF Original, Claimed
  <2>5. Single(entry')
    BY <2>1, <2>3 DEF Single
  <2> QED  BY <2>1, <2>2, <2>3, <2>4, <2>5
<1> QED  BY <1>3, <1>4, <1>5, ServeHome

-----------------------------------------------------------------------------
(* Threads stay on their trails *)

\* Where the path of a thread leads as far as the thread followed it.
Spot(e, x) == Trail(e, Path(x))[Depth(x)]

Follows(e, x) == x.pc \in Following => Holds(x) = Spot(e, x)
FollowsInitial(e, x) == x.pc \in Following /\ Spot(e, x) \in Initial => Holds(x) = Spot(e, x)

\* A thread on its path stands between its two ends; one that writes stands at the last name.
LEMMA HowDeep ==
    ASSUME NEW x, ThreadOK(x), Serves(x), x.pc \in Following
    PROVE  /\ Path(x) \in Seq(Names) /\ Len(Path(x)) \in Nat /\ Depth(x) \in 0 .. Len(Path(x))
           /\ Holds(x) \in Inode /\ Holds(x) # None
           /\ x.pc \in Writing => Holds(x) \in File /\ Depth(x) = Len(Path(x))
           /\ x.pc = "entries" => Depth(x) = Len(Path(x))
           /\ x.pc \in Walks \cup {"entries"} => Holds(x) \in InsideDir
<1>1. x.req \in Request /\ x.rest \in Seq(Names) /\ x.pc \in Open
  BY DEF ThreadOK, Following, Writing, Open, Walks
<1>2. Path(x) \in Seq(Names) /\ Len(Path(x)) \in Nat
  BY <1>1, PathNames
<1>3. x.pc \in Walks => Depth(x) = Len(Path(x)) - Len(x.rest) /\ Len(x.rest) <= Len(Path(x))
  BY DEF Depth, Serves
<1>4. x.pc \notin Walks => Depth(x) = Len(Path(x))
  BY DEF Depth
<1>5. Depth(x) \in 0 .. Len(Path(x))
  <2>1. Len(x.rest) \in Nat
    BY <1>1
  <2> QED  BY <1>2, <1>3, <1>4, <2>1
<1>6. x.pc \in Writing => Holds(x) \in File
  BY DEF Holds, ThreadOK, Writing
<1>7. x.pc \in Walks \cup {"entries"} => Holds(x) \in InsideDir
  BY DEF Holds, ThreadOK, Writing, Open, Walks
<1>8. x.pc \in Writing \/ x.pc \in Walks \cup {"entries"}
  BY DEF Following
<1>9. Holds(x) \in Inode /\ Holds(x) # None
  BY <1>6, <1>7, <1>8, Kinds
<1>10. (x.pc \in Writing \/ x.pc = "entries") => x.pc \notin Walks
  BY DEF Writing, Walks
<1> QED  BY <1>2, <1>4, <1>5, <1>6, <1>7, <1>9, <1>10

\* A request is kept until it was answered, and after.
LEMMA ReqKept ==
    ASSUME FilesInv, NEW t \in Thread, Serves(th[t]), Moves(t), th[t].pc # "idle"
    PROVE  th'[t].pc # "idle" /\ th'[t].req = th[t].req
<1>1. CASE ListEntries(t)
  BY <1>1, ListsPage
<1>2. CASE ~ListEntries(t)
  BY <1>2 DEF Moves, Begins, Stays, Descends, Ends, Open
<1> QED  BY <1>1, <1>2

\* Where a thread is after its step, if it was on its trail.
LEMMA FollowMoves ==
    ASSUME FilesInv, FilesInv', NEW t \in Thread, Serves(th[t]), Serves(th'[t]), Moves(t)
    PROVE  /\ Follows(entry', th[t]) => Follows(entry', th'[t])
           /\ Original(entry') /\ FollowsInitial(entry', th[t]) => FollowsInitial(entry', th'[t])
<1> DEFINE e == entry'
           x == th[t]
           y == th'[t]
<1>1. Within(e)
  BY HomeWithin DEF FilesInv, HomeOK, Within, Store
<1>2. ThreadOK(x) /\ ThreadOK(y)
  BY DEF FilesInv, ThreadsOK
<1>3. CASE y.pc = "locate" /\ y.req \in Request /\ Depth(y) = 0 /\ Holds(y) = "home"
  <2>1. Path(y) \in Seq(Names)
    BY <1>3, PathNames
  <2>2. Trail(e, Path(y))[0] = "home"
    BY <1>1, <2>1, TrailMet DEF Within
  <2>3. Holds(y) = Spot(e, y)
    BY <1>3, <2>2 DEF Spot
  <2> QED  BY <2>3 DEF Follows, FollowsInitial
<1>4. CASE Stays(e, x, y)
  <2>1. y.pc \in Following => x.pc \in Following /\ Holds(y) = Holds(x) /\ Spot(e, y) = Spot(e, x)
    BY <1>4 DEF Stays, Spot, Path
  <2> QED  BY <2>1 DEF Follows, FollowsInitial
<1>5. CASE Descends(e, x, y)
  <2>1. x.pc \in Following
    BY <1>5 DEF Descends, Following, Walks
  <2> DEFINE p == Path(x)
             k == Depth(x)
  <2>2. p \in Seq(Names) /\ Len(p) \in Nat /\ Holds(x) \in InsideDir
    BY <1>2, <1>5, <2>1, HowDeep DEF Descends, Walks
  <2>3. Path(y) = p /\ k \in 0 .. Len(p) - 1 /\ Depth(y) = k + 1 /\ Holds(y) = e[Holds(x)][p[k + 1]]
    BY <1>5 DEF Descends, Path
  <2>4. k + 1 \in 1 .. Len(p) /\ (k + 1) - 1 = k
    BY <2>2, <2>3
  <2>5. Trail(e, p)[k + 1] = Under(e, Trail(e, p)[k], p[k + 1])
    BY <1>1, <2>2, <2>4, TrailStep
  <2>6. Spot(e, x) = Trail(e, p)[k] /\ Spot(e, y) = Trail(e, p)[k + 1]
    BY <2>3 DEF Spot
  <2>7. Original(e) /\ Trail(e, p)[k + 1] \in Initial => Trail(e, p)[k] \in Initial
    BY <1>1, <2>2, <2>4, InitialParent
  <2>8. Holds(x) = Spot(e, x) => Holds(y) = Spot(e, y)
    BY <2>2, <2>3, <2>5, <2>6, Kinds DEF Under
  <2> HIDE DEF x, y, e, p, k
  <2>9. /\ Follows(e, x) => Follows(e, y)
        /\ Original(e) /\ FollowsInitial(e, x) => FollowsInitial(e, y)
    BY <2>1, <2>6, <2>7, <2>8 DEF Follows, FollowsInitial
  <2> QED  BY <2>9 DEF x, y, e
<1>6. CASE Ends(x, y)
  <2>1. y.pc \notin Following
    BY <1>6 DEF Ends, Following, Writing, Walks
  <2> QED  BY <2>1 DEF Follows, FollowsInitial
<1>7. CASE ListEntries(t)
  <2>1. /\ y.pc = "ok" \/ (y.pc = "locate" /\ Depth(y) = 0 /\ Holds(y) = "home")
    BY <1>7, ListsPage
  <2>2. y.pc # "idle" => y.req \in Request
    BY <1>2 DEF ThreadOK
  <2>3. CASE y.pc = "ok"
    BY <2>3 DEF Follows, FollowsInitial, Following, Writing, Walks
  <2> QED  BY <1>3, <2>1, <2>2, <2>3
<1>8. Begins(x, y) => y.pc = "locate" /\ y.req \in Request /\ Depth(y) = 0 /\ Holds(y) = "home"
  BY DEF Begins
<1> QED  BY <1>3, <1>4, <1>5, <1>6, <1>7, <1>8 DEF Moves

Quiet == Untampered /\ NoDeletes

AllServe == \A t \in Thread : Serves(th[t])

\* Until the sandbox renames, a thread whose path leads to an inode that was there from
\* the start holds that inode.
OnInitialTrail ==
    Untampered => /\ Original(entry) /\ Single(entry) /\ Claimed
                  /\ \A t \in Thread : FollowsInitial(entry, th[t])

\* If nothing was to be deleted either, every thread holds what its path leads to, and a
\* file that was written stays where it is.
OnTrail ==
    Quiet => \A t \in Thread :
        /\ Follows(entry, th[t])
        /\ At(t, "ok") /\ OpOf(t) = "write" => Lookup(entry, Path(th[t])) \in File

\* A step of the server keeps the requests that were made.
LEMMA AskedKept ==
    ASSUME FilesInv, AllServe, NEW t \in Thread, Serve(t)
    PROVE  /\ \A u \in Thread : ~At(u, "idle") => ~At(u, "idle")' /\ th'[u].req = th[u].req
           /\ Untampered' => Untampered
           /\ Quiet' => Quiet
<1>1. /\ Moves(t) /\ Serves(th'[t]) /\ (\A u \in Thread : u # t => th'[u] = th[u]) /\ tampers' = tampers
  BY ServeMoves DEF AllServe
<1>2. ASSUME NEW u \in Thread, ~At(u, "idle") PROVE th'[u].pc # "idle" /\ th'[u].req = th[u].req
  <2>1. CASE u = t
    BY <1>1, <1>2, <2>1, ReqKept DEF AllServe, At
  <2>2. CASE u # t
    BY <1>1, <1>2, <2>2 DEF At
  <2> QED  BY <2>1, <2>2
<1>3. Untampered' => Untampered
  BY <1>1 DEF Untampered
<1>4. NoDeletes' => NoDeletes
  BY <1>2 DEF NoDeletes, At, OpOf
<1> QED  BY <1>2, <1>3, <1>4 DEF Quiet, At

\* A thread that went along what was in the home at the start still is.
LEMMA InitialTrailStep ==
    ASSUME FilesInv, FilesInv', AllServe, OnInitialTrail, NEW t \in Thread, Serve(t)
    PROVE  AllServe' /\ OnInitialTrail'
<1>1. /\ Moves(t) /\ Serves(th'[t]) /\ (\A u \in Thread : u # t => th'[u] = th[u])
  BY ServeMoves DEF AllServe
<1>2. AllServe'
  BY <1>1 DEF AllServe
<1>3. ASSUME Untampered'
      PROVE  /\ Original(entry') /\ Single(entry') /\ Claimed'
             /\ \A u \in Thread : FollowsInitial(entry', th'[u])
  <2>1. Untampered
    BY <1>3, AskedKept
  <2>2. /\ Original(entry') /\ Single(entry') /\ Claimed'
        /\ \A d \in InsideDir, n \in Names : entry'[d][n] \in Initial => entry[d][n] = entry'[d][n]
    BY <2>1, HomeKept DEF OnInitialTrail, AllServe
  <2>3. Within(entry) /\ Within(entry')
    BY HomeWithin DEF FilesInv, HomeOK, Within, Store
  <2>4. ASSUME NEW u \in Thread PROVE FollowsInitial(entry', th[u])
    <3> DEFINE x == th[u]
    <3> SUFFICES ASSUME x.pc \in Following, Spot(entry', x) \in Initial PROVE Holds(x) = Spot(entry', x)
      BY DEF FollowsInitial
    <3>1. ThreadOK(x) /\ Serves(x) /\ FollowsInitial(entry, x)
      BY <2>1 DEF FilesInv, ThreadsOK, AllServe, OnInitialTrail
    <3>2. Path(x) \in Seq(Names) /\ Depth(x) \in 0 .. Len(Path(x))
      BY <3>1, HowDeep
    <3> HIDE DEF x
    <3>3. Spot(entry, x) = Spot(entry', x)
      BY <2>2, <2>3, <3>2, TrailInitial DEF Spot
    <3> QED  BY <3>1, <3>3 DEF FollowsInitial
  <2>5. FollowsInitial(entry', th'[t])
    BY <1>1, <2>2, <2>4, FollowMoves DEF AllServe
  <2> QED  BY <1>1, <2>2, <2>4, <2>5
<1> QED  BY <1>2, <1>3 DEF OnInitialTrail

\* As long as nothing is deleted or renamed, a path that leads somewhere leads there for ever.
LEMMA TrailStays ==
    ASSUME FilesInv, FilesInv', AllServe, OnInitialTrail, NEW t \in Thread, Serve(t), Quiet'
    PROVE  \A path \in Seq(Names) : \A k \in 0 .. Len(path) :
              Trail(entry, path)[k] # None => Trail(entry', path)[k] = Trail(entry, path)[k]
<1>1. Untampered /\ NoDeletes
  BY AskedKept DEF Quiet
<1>2. \A d \in InsideDir, n \in Names : entry[d][n] # None => entry'[d][n] = entry[d][n]
  BY <1>1, HomeKept DEF OnInitialTrail, AllServe
<1>3. Within(entry) /\ Within(entry')
  BY HomeWithin DEF FilesInv, HomeOK, Within, Store
<1> QED  BY <1>2, <1>3, TrailGrows

\* A thread stays on the trail of its own path, whatever the others create.
LEMMA OnTrailStep ==
    ASSUME FilesInv, FilesInv', AllServe, OnInitialTrail, OnTrail, NEW t \in Thread, Serve(t)
    PROVE  OnTrail'
<1> SUFFICES ASSUME Quiet', NEW u \in Thread
             PROVE  /\ Follows(entry', th'[u])
                    /\ th'[u].pc = "ok" /\ th'[u].req.op = "write" => Lookup(entry', Path(th'[u])) \in File
  BY DEF OnTrail, At, OpOf
<1>1. Quiet
  BY AskedKept
<1>2. /\ Moves(t) /\ Serves(th'[t]) /\ (\A w \in Thread : w # t => th'[w] = th[w])
  BY ServeMoves DEF AllServe
<1> DEFINE x == th[u]
<1>3. /\ ThreadOK(x) /\ Serves(x) /\ Follows(entry, x)
      /\ x.pc = "ok" /\ x.req.op = "write" => Lookup(entry, Path(x)) \in File
  BY <1>1 DEF FilesInv, ThreadsOK, AllServe, OnTrail, At, OpOf
<1> HIDE DEF x
<1>4. \A path \in Seq(Names) : \A k \in 0 .. Len(path) :
         Trail(entry, path)[k] # None => Trail(entry', path)[k] = Trail(entry, path)[k]
  BY TrailStays
<1>5. ASSUME x.pc \in Following PROVE Holds(x) = Spot(entry', x)
  <2>1. Path(x) \in Seq(Names) /\ Depth(x) \in 0 .. Len(Path(x)) /\ Holds(x) # None
    BY <1>3, <1>5, HowDeep
  <2>2. Holds(x) = Spot(entry, x)
    BY <1>3, <1>5 DEF Follows
  <2> QED  BY <1>4, <2>1, <2>2 DEF Spot
<1>6. ASSUME x.pc = "ok", x.req.op = "write" PROVE Lookup(entry', Path(x)) \in File
  <2>1. x.req \in Request
    BY <1>3, <1>6 DEF ThreadOK
  <2>2. Path(x) \in Seq(Names) /\ Len(Path(x)) \in 0 .. Len(Path(x))
    BY <2>1, PathNames
  <2>3. Lookup(entry, Path(x)) \in File /\ Lookup(entry, Path(x)) # None
    BY <1>3, <1>6, Kinds
  <2> QED  BY <1>4, <2>2, <2>3 DEF Lookup
<1>7. CASE u # t
  <2>1. th'[u] = x
    BY <1>2, <1>7 DEF x
  <2> QED  BY <1>5, <1>6, <2>1 DEF Follows
<1>8. CASE u = t
  <2>1. Follows(entry', th'[u])
    BY <1>2, <1>3, <1>5, <1>8, FollowMoves DEF Follows, x
  <2>2. ASSUME th'[u].pc = "ok", th'[u].req.op = "write" PROVE Lookup(entry', Path(th'[u])) \in File
    <3>1. ~ListEntries(t)
      <4> SUFFICES ASSUME ListEntries(t) PROVE FALSE
        OBVIOUS
      <4>1. x.pc = "entries" /\ th'[u].req = x.req
        BY <1>3, <1>8, ListsPage DEF x
      <4> QED  BY <1>3, <2>2, <4>1 DEF Serves
    <3>2. Ends(x, th'[u])
      BY <1>2, <1>8, <2>2, <3>1 DEF Moves, Begins, Stays, Descends, Open, x
    <3>3. x.pc = "setlen" /\ th'[u].req = x.req
      BY <2>2, <3>2 DEF Ends
    <3>4. x.pc \in Following /\ x.pc \in Writing
      BY <3>3 DEF Following, Writing
    <3>5. Holds(x) \in File /\ Depth(x) = Len(Path(x))
      BY <1>3, <3>4, HowDeep
    <3>6. Holds(x) = Lookup(entry', Path(x))
      BY <1>5, <3>4, <3>5 DEF Spot, Lookup
    <3>7. Path(th'[u]) = Path(x)
      BY <3>3 DEF Path
    <3> QED  BY <3>5, <3>6, <3>7
  <2> QED  BY <2>1, <2>2
<1> QED  BY <1>7, <1>8

-----------------------------------------------------------------------------
(* Ranges of an upload *)

Undisturbed(path) == \A t \in Thread : Writes(t, path) => Ranged(t)

\* The bytes of a range are in the file, and once the first is answered its size is right.
RangeIn(x, s) ==
    /\ x.req.part <= Len(s) /\ s[x.req.part] = x.req.part
    /\ x.pc = "ok" /\ x.req.part = 1 => Len(s) = Len(Uploaded)

\* If nothing was to be deleted, a range that was written stays in the file until another
\* request overwrites it as a whole.
RangesKept ==
    /\ data \in [File -> Seq(Int)]
    /\ Quiet => \A t \in Thread :
         th[t].pc \in {"setlen", "ok"} /\ th[t].req.op = "write" /\ Undisturbed(Path(th[t]))
         => RangeIn(th[t], data[Lookup(entry, Path(th[t]))])

\* The content that the ranges of an upload make up.
LEMMA TwoRanges ==
    /\ Part = {1, 2} /\ Uploaded \in Seq(Int) /\ Len(Uploaded) = 2
    /\ Uploaded[1] = 1 /\ Uploaded[2] = 2
<1>1. Part = {1, 2}
  BY DEF Part
<1>2. Uploaded = [p \in 1 .. 2 |-> p]
  BY DEF Uploaded, Part
<1> QED  BY <1>1, <1>2

\* What writing at an offset leaves.
LEMMA WrittenSeq ==
    ASSUME NEW s \in Seq(Int), NEW p \in Nat, p > 0, NEW v \in Int
    PROVE  /\ WriteAt(s, p, v) \in Seq(Int)
           /\ Len(WriteAt(s, p, v)) = IF Len(s) < p THEN p ELSE Len(s)
           /\ WriteAt(s, p, v)[p] = v
           /\ \A i \in 1 .. Len(s) : i # p => WriteAt(s, p, v)[i] = s[i]
<1> DEFINE n == IF Len(s) < p THEN p ELSE Len(s)
           g == [i \in 1 .. n |-> IF i = p THEN v ELSE IF i <= Len(s) THEN s[i] ELSE 0]
<1>1. Len(s) \in Nat /\ n \in Nat /\ p \in 1 .. n /\ \A i \in 1 .. Len(s) : i \in 1 .. n /\ s[i] \in Int
  OBVIOUS
<1>2. WriteAt(s, p, v) = g
  BY DEF WriteAt
<1> HIDE DEF n
<1>3. \A i \in 1 .. n : g[i] \in Int
  BY <1>1
<1>4. g \in Seq(Int) /\ Len(g) = n
  BY <1>1, <1>3
<1>5. g[p] = v /\ \A i \in 1 .. Len(s) : i # p => g[i] = s[i]
  BY <1>1
<1> HIDE DEF g
<1> QED  BY <1>2, <1>4, <1>5 DEF n

\* What set_len leaves.
LEMMA SizedSeq ==
    ASSUME NEW s \in Seq(Int), NEW n \in Nat
    PROVE  /\ SetLen(s, n) \in Seq(Int) /\ Len(SetLen(s, n)) = n
           /\ \A i \in 1 .. n : i <= Len(s) => SetLen(s, n)[i] = s[i]
<1> DEFINE g == [i \in 1 .. n |-> IF i <= Len(s) THEN s[i] ELSE 0]
<1>1. SetLen(s, n) = g
  BY DEF SetLen
<1>2. \A i \in 1 .. n : g[i] \in Int
  OBVIOUS
<1>3. g \in Seq(Int) /\ Len(g) = n
  BY <1>2
<1>4. \A i \in 1 .. n : i <= Len(s) => g[i] = s[i]
  OBVIOUS
<1> HIDE DEF g
<1> QED  BY <1>1, <1>3, <1>4

\* Writing another range, and cutting the file to the upload's size, leave a range in.
LEMMA RangeStays ==
    ASSUME NEW s \in Seq(Int), NEW p \in Part, NEW x, x.req.part \in Part, RangeIn(x, s)
    PROVE  RangeIn(x, WriteAt(s, p, p)) /\ RangeIn(x, SetLen(s, Len(Uploaded)))
<1> DEFINE q == x.req.part
           w == WriteAt(s, p, p)
           z == SetLen(s, Len(Uploaded))
<1>1. p \in Nat /\ p > 0 /\ p \in Int /\ q \in 1 .. 2 /\ p <= 2 /\ Len(Uploaded) = 2 /\ Len(s) \in Nat
  BY TwoRanges
<1>2. q <= Len(s) /\ s[q] = q /\ (x.pc = "ok" /\ q = 1 => Len(s) = 2)
  BY <1>1 DEF RangeIn
<1>3. /\ Len(w) = (IF Len(s) < p THEN p ELSE Len(s)) /\ w[p] = p
      /\ \A i \in 1 .. Len(s) : i # p => w[i] = s[i]
  BY <1>1, WrittenSeq, ZenonT(60)
<1>4. Len(z) = 2 /\ \A i \in 1 .. 2 : i <= Len(s) => z[i] = s[i]
  <2> DEFINE n == Len(Uploaded)
  <2>1. n \in Nat /\ n = 2 /\ z = SetLen(s, n)
    BY <1>1
  <2> HIDE DEF n
  <2>2. Len(SetLen(s, n)) = n /\ \A i \in 1 .. n : i <= Len(s) => SetLen(s, n)[i] = s[i]
    BY <2>1, SizedSeq
  <2> HIDE DEF z
  <2> QED  BY <2>1, <2>2
<1> HIDE DEF w, z, q
<1>5. q <= Len(w) /\ w[q] = q /\ (x.pc = "ok" /\ q = 1 => Len(w) = 2)
  <2>1. q \in 1 .. Len(s)
    BY <1>1, <1>2
  <2>2. w[q] = q
    BY <1>2, <1>3, <2>1
  <2> QED  BY <1>1, <1>2, <1>3, <2>2
<1>6. q <= Len(z) /\ z[q] = q /\ Len(z) = 2
  BY <1>1, <1>2, <1>4
<1> QED  BY <1>1, <1>5, <1>6 DEF RangeIn, q, w, z

\* What a step does to the files.
LEMMA ServeData ==
    ASSUME FilesInv, NEW t \in Thread, Serve(t)
    PROVE  \/ data' = data
           \/ \E f \in Fresh(NewFile) : data' = [data EXCEPT ![f] = <<>>]
           \/ /\ th'[t].pc = "own" /\ OpOf(t) = "write" /\ ~Ranged(t) /\ th[t].pc = "locate"
              /\ data' = [data EXCEPT ![th'[t].file] = <<>>]
           \/ WriteBody(t) \/ WriteSetLen(t)
<1>1. CASE WriteOpen(t)
  <2>1. th[t].pc = "locate" /\ OpOf(t) = "write" /\ th[t].pc \in Open
    BY <1>1 DEF WriteOpen, Located, At, Open
  <2> DEFINE x(f) == [th[t] EXCEPT !.pc = "own", !.file = f]
  <2>2. \/ \E f : /\ Set(t, x(f))
                  /\ data' = IF Truncates(t) THEN [data EXCEPT ![f] = <<>>] ELSE data
        \/ \E f \in Fresh(NewFile) : data' = [data EXCEPT ![f] = <<>>]
        \/ data' = data
    BY <1>1 DEF WriteOpen, fsVars
  <2>3. ASSUME NEW f, Set(t, x(f)) PROVE th'[t].pc = "own" /\ th'[t].file = f
    <3>1. th'[t] = x(f)
      BY <2>3, SetTo
    <3>2. DOMAIN th[t] = DOMAIN Idle
      BY <2>1, OnTheWay
    <3> QED  BY <3>1, <3>2, Refitted
  <2> HIDE DEF x
  <2> QED  BY <2>1, <2>2, <2>3 DEF Truncates
<1>2. CASE ~(WriteOpen(t) \/ WriteBody(t) \/ WriteSetLen(t))
  <2>1. data' = data
    BY <1>2 DEF Serve, Begin, LocateMkdir, LocateOpen, LocateGive, OpenFails, OnRoot, Read, Stat, ListOpen,
         ListEntry, ListEntries, MkdirLast, MkdirAdopt, MkdirHand, ConnectVet, Connect, WriteOwn, BodyBreaks,
         DeleteStat, DeleteUnlink, DeleteTree, PurgeProbe, PurgeDrop, PurgeDescend, PurgeAscend, fsVars
  <2> QED  BY <2>1, SMTT(30)
<1> QED  BY <1>1, <1>2

\* Files hold sequences of bytes.
LEMMA DataTyped ==
    ASSUME FilesInv, data \in [File -> Seq(Int)], NEW t \in Thread, Serve(t)
    PROVE  data' \in [File -> Seq(Int)]
<1>1. <<>> \in Seq(Int)
  OBVIOUS
<1>2. CASE WriteBody(t)
  <2> DEFINE p == th[t].req.part
             f == th[t].file
             q == IF p = 0 THEN 1 ELSE p
  <2>1. th[t].pc = "body" /\ data' = [data EXCEPT ![f] = WriteAt(data[f], q, p)]
    BY <1>2 DEF WriteBody, At
  <2>2. th[t].pc \in Open /\ th[t].file \in File
    BY <2>1 DEF Open, FilesInv, ThreadsOK, ThreadOK
  <2>3. th[t].req \in Request
    BY <2>2, OnTheWay
  <2>4. p \in Nat /\ q \in Nat /\ q > 0
    <3>1. p \in Part \cup {0}
      BY <2>3, FilesAssumption
    <3> HIDE DEF p
    <3> QED  BY <3>1 DEF Part
  <2>5. WriteAt(data[f], q, p) \in Seq(Int)
    BY <2>2, <2>4, WrittenSeq
  <2> QED  BY <2>1, <2>5
<1>3. CASE WriteSetLen(t)
  <2> DEFINE f == th[t].file
  <2>1. /\ th[t].pc = "setlen"
        /\ data' = data \/ data' = [data EXCEPT ![f] = SetLen(data[f], Len(Uploaded))]
    BY <1>3 DEF WriteSetLen, At
  <2>2. f \in File
    BY <2>1 DEF FilesInv, ThreadsOK, ThreadOK
  <2>3. SetLen(data[f], Len(Uploaded)) \in Seq(Int)
    BY <2>2, SizedSeq, TwoRanges, ZenonT(30)
  <2> QED  BY <2>1, <2>3
<1> QED  BY <1>1, <1>2, <1>3, ServeData

\* How a thread came to have written its range.
LEMMA WroteRange ==
    ASSUME FilesInv, NEW t \in Thread, Serves(th[t]), Serve(t),
           th'[t].pc \in {"setlen", "ok"}, th'[t].req.op = "write"
    PROVE  /\ th'[t].req = th[t].req
           /\ \/ th[t].pc = "body" /\ th'[t].pc = "setlen" /\ WriteBody(t)
              \/ th[t].pc = "setlen" /\ th'[t].pc = "ok" /\ WriteSetLen(t)
<1>1. Moves(t)
  BY ServeMoves
<1>2. ~ListEntries(t)
  <2> SUFFICES ASSUME ListEntries(t) PROVE FALSE
    OBVIOUS
  <2>1. th[t].pc = "entries" /\ th'[t].req = th[t].req
    BY ListsPage
  <2> QED  BY <2>1 DEF Serves
<1>3. /\ th'[t].req = th[t].req
      /\ (th[t].pc = "body" /\ th'[t].pc = "setlen") \/ (th[t].pc = "setlen" /\ th'[t].pc = "ok")
  BY <1>1, <1>2, SMTT(30) DEF Moves, Begins, Stays, Descends, Ends, Open
<1>4. th[t].pc \in {"body", "setlen"} => WriteBody(t) \/ BodyBreaks(t) \/ WriteSetLen(t)
  BY DEF Serve, Begin, LocateMkdir, LocateOpen, LocateGive, OpenFails, OnRoot, Read, Stat, ListOpen,
         ListEntry, ListEntries, MkdirLast, MkdirAdopt, MkdirHand, ConnectVet, Connect, WriteOpen, WriteOwn, RootNamed, Located, Walking, At,
         DeleteStat, DeleteUnlink, DeleteTree, PurgeProbe, PurgeDrop, PurgeDescend, PurgeAscend
<1>5. BodyBreaks(t) => th'[t].pc = "locate"
  <2> SUFFICES ASSUME BodyBreaks(t) PROVE th'[t].pc = "locate"
    OBVIOUS
  <2>1. th'[t] = Begun(th[t].req)
    BY SetTo DEF BodyBreaks
  <2> QED  BY <2>1 DEF Begun, Idle
<1>6. (WriteBody(t) => th[t].pc = "body") /\ (WriteSetLen(t) => th[t].pc = "setlen")
  BY DEF WriteBody, WriteSetLen, At
<1> QED  BY <1>3, <1>4, <1>5, <1>6

\* A file with a name is in use.
LEMMA NamedFile ==
    ASSUME FilesInv, Claimed, NEW path \in Seq(Names), Lookup(entry, path) \in File
    PROVE  Lookup(entry, path) \notin Fresh(NewFile)
<1> DEFINE n == Len(path)
           f == Trail(entry, path)
<1>1. Within(entry)
  BY HomeWithin
<1>2. n \in Nat /\ f[0] = "home"
  BY <1>1, TrailMet DEF Within
<1>3. f[n] \in File
  BY DEF Lookup
<1>4. n \in 1 .. n
  <2>1. "home" \notin File
    BY DEF File, NewFile
  <2>2. n # 0
    BY <1>2, <1>3, <2>1
  <2> HIDE DEF n, f
  <2> QED  BY <1>2, <2>2
<1>5. f[n] # None
  BY <1>3, Kinds
<1>6. f[n - 1] \in InsideDir /\ f[n] = entry[f[n - 1]][path[n]] /\ path[n] \in Names
  BY <1>1, <1>4, <1>5, TrailStep
<1> HIDE DEF n, f
<1>7. f[n] \in NewFile => owner[f[n]] # None
  BY <1>6 DEF Claimed
<1> QED  BY <1>7 DEF Fresh, Lookup, n, f

\* The file a thread writes to is the one its path leads to.
LEMMA WritesThere ==
    ASSUME FilesInv, AllServe, OnTrail, Quiet, NEW t \in Thread,
           th[t].pc \in Writing \/ (th[t].pc = "ok" /\ th[t].req.op = "write")
    PROVE  /\ Path(th[t]) \in Seq(Names) /\ Lookup(entry, Path(th[t])) \in File
           /\ th[t].pc \in Writing => th[t].file = Lookup(entry, Path(th[t]))
<1>1. ThreadOK(th[t]) /\ Serves(th[t]) /\ Follows(entry, th[t])
  BY DEF FilesInv, ThreadsOK, AllServe, OnTrail
<1>2. CASE th[t].pc \in Writing
  <2>1. th[t].pc \in Following
    BY <1>2 DEF Following
  <2>2. /\ Path(th[t]) \in Seq(Names) /\ Holds(th[t]) \in File /\ Depth(th[t]) = Len(Path(th[t]))
    BY <1>1, <1>2, <2>1, HowDeep
  <2>3. Holds(th[t]) = Lookup(entry, Path(th[t])) /\ Holds(th[t]) = th[t].file
    BY <1>1, <1>2, <2>1, <2>2 DEF Follows, Spot, Lookup, Holds
  <2> QED  BY <2>2, <2>3
<1>3. CASE th[t].pc = "ok" /\ th[t].req.op = "write"
  <2>1. th[t].req \in Request /\ th[t].pc \notin Writing
    BY <1>1, <1>3 DEF ThreadOK, Writing
  <2> QED  BY <1>3, <2>1, PathNames DEF OnTrail, At, OpOf
<1> QED  BY <1>2, <1>3

\* A range that was written stays written as long as only uploads of the same file reach it.
LEMMA RangesStep ==
    ASSUME FilesInv, FilesInv', AllServe, AllServe', OnInitialTrail, OnInitialTrail', OnTrail, OnTrail',
           RangesKept, NEW t \in Thread, Serve(t)
    PROVE  RangesKept'
<1>1. data \in [File -> Seq(Int)] /\ data' \in [File -> Seq(Int)]
  BY DataTyped DEF RangesKept
<1> SUFFICES ASSUME Quiet', NEW u \in Thread, th'[u].pc \in {"setlen", "ok"}, th'[u].req.op = "write",
                    Undisturbed(Path(th[u]))'
             PROVE  RangeIn(th'[u], data'[Lookup(entry', Path(th'[u]))])
  BY <1>1 DEF RangesKept
<1> DEFINE P == Path(th[u])
           f == Lookup(entry, P)
           part == th[u].req.part
<1>2. Quiet /\ \A w \in Thread : ~At(w, "idle") => ~At(w, "idle")' /\ th'[w].req = th[w].req
  BY AskedKept
<1>3. \A w \in Thread : w # t => th'[w] = th[w]
  BY ServeMoves DEF AllServe
<1>4. /\ th'[u].req = th[u].req
      /\ u # t => th'[u] = th[u] /\ th[u].pc \in {"setlen", "ok"}
      /\ u = t => \/ th[t].pc = "body" /\ th'[t].pc = "setlen" /\ WriteBody(t)
                  \/ th[t].pc = "setlen" /\ th'[t].pc = "ok" /\ WriteSetLen(t)
  BY <1>3, WroteRange DEF AllServe
<1>5. Path(th'[u]) = P
  BY <1>4 DEF Path
<1>6. th[u].pc \in Writing \/ (th[u].pc = "ok" /\ th[u].req.op = "write")
  BY <1>4 DEF Writing
<1>7. P \in Seq(Names) /\ f \in File /\ (th[u].pc \in Writing => th[u].file = f)
  BY <1>2, <1>6, WritesThere
<1>8. Lookup(entry', P) = f
  <2>1. Len(P) \in 0 .. Len(P)
    BY <1>7
  <2>2. f # None
    BY <1>7, Kinds
  <2> QED  BY <1>7, <2>1, <2>2, TrailStays DEF Lookup
<1>9. \A w \in Thread : th'[w].pc # "idle" /\ th'[w].req.op = "write" /\ Path(th'[w]) = P => th'[w].req.part # 0
  BY <1>5 DEF Undisturbed, Writes, Ranged, At, OpOf, Path
<1>10. \A w \in Thread : th[w].pc # "idle" /\ th[w].req.op = "write" /\ Path(th[w]) = P => th[w].req.part # 0
  BY <1>2, <1>9 DEF At, Path
<1>11. Undisturbed(P)
  BY <1>10 DEF Undisturbed, Writes, Ranged, At, OpOf, Path
<1>12. \A w \in Thread : th[w].pc # "idle" => th[w].req.part \in Part \cup {0}
  BY FilesAssumption DEF FilesInv, ThreadsOK, ThreadOK
<1>13. part \in Part
  BY <1>4, <1>6, <1>10, <1>12 DEF Writing
<1>14. th[u].pc \in {"setlen", "ok"} => RangeIn(th[u], data[f])
  BY <1>2, <1>4, <1>11 DEF RangesKept
<1> DEFINE s == data[f]
<1>15. s \in Seq(Int) /\ Len(s) \in Nat
  BY <1>1, <1>7
<1>16. CASE u = t
  <2>1. CASE th[t].pc = "body" /\ th'[t].pc = "setlen" /\ WriteBody(t)
    <3>1. part # 0 /\ part \in Nat /\ part > 0 /\ part \in Int
      BY <1>13, TwoRanges
    <3>2. th[t].file = f
      BY <1>7, <1>16, <2>1 DEF Writing
    <3>3. data' = [data EXCEPT ![f] = WriteAt(data[f], part, part)]
      BY <1>16, <2>1, <3>1, <3>2 DEF WriteBody
    <3>4. data'[f] = WriteAt(s, part, part)
      BY <1>1, <1>7, <3>3
    <3> HIDE DEF s, part
    <3>5. Len(WriteAt(s, part, part)) = (IF Len(s) < part THEN part ELSE Len(s))
          /\ WriteAt(s, part, part)[part] = part
      BY <1>15, <3>1, WrittenSeq
    <3>6. part <= Len(WriteAt(s, part, part))
      BY <1>15, <3>1, <3>5
    <3>7. RangeIn(th'[u], WriteAt(s, part, part))
      BY <1>4, <1>16, <2>1, <3>5, <3>6 DEF RangeIn, part
    <3> QED  BY <1>5, <1>8, <3>4, <3>7
  <2>2. CASE th[t].pc = "setlen" /\ th'[t].pc = "ok" /\ WriteSetLen(t)
    <3>1. th[t].file = f
      BY <1>7, <1>16, <2>2 DEF Writing
    <3>2. RangeIn(th[u], s)
      BY <1>14, <1>16, <2>2
    <3>3. data'[f] = IF part = 1 THEN SetLen(s, Len(Uploaded)) ELSE s
      BY <1>1, <1>7, <1>16, <2>2, <3>1 DEF WriteSetLen
    <3> HIDE DEF s, f
    <3>4. RangeIn(th[u], SetLen(s, Len(Uploaded)))
      BY <1>13, <1>15, <3>2, RangeStays
    <3>5. Len(SetLen(s, Len(Uploaded))) = Len(Uploaded)
      BY <1>15, SizedSeq, TwoRanges, ZenonT(30)
    <3>6. RangeIn(th'[u], data'[f])
      <4>1. CASE part = 1
        BY <1>4, <3>3, <3>4, <3>5, <4>1 DEF RangeIn
      <4>2. CASE part # 1
        BY <1>4, <3>2, <3>3, <4>2 DEF RangeIn
      <4> QED  BY <4>1, <4>2
    <3> QED  BY <1>5, <1>8, <3>6
  <2> QED  BY <1>4, <1>16, <2>1, <2>2
<1>17. CASE u # t
  <2>1. th'[u] = th[u] /\ RangeIn(th[u], s)
    BY <1>4, <1>14, <1>17
  <2> SUFFICES RangeIn(th[u], data'[f])
    BY <1>5, <1>8, <2>1
  <2>2. ASSUME data'[f] = data[f] PROVE RangeIn(th[u], data'[f])
    BY <2>1, <2>2
  <2>3. CASE data' = data
    BY <2>2, <2>3
  <2>4. ASSUME NEW g \in Fresh(NewFile), data' = [data EXCEPT ![g] = <<>>]
        PROVE  RangeIn(th[u], data'[f])
    <3>1. Claimed
      BY <1>2 DEF OnInitialTrail, Quiet
    <3>2. f \notin Fresh(NewFile)
      BY <1>7, <3>1, NamedFile
    <3>3. data'[f] = data[f]
      BY <1>1, <1>7, <2>4, <3>2
    <3> QED  BY <2>2, <3>3
  <2>5. ASSUME NEW w, WriteBody(t) \/ WriteSetLen(t), w = th[t].file, w = f
        PROVE  th[t].req.part \in Part
    <3>1. th[t].pc \in Writing /\ th[t].pc # "idle"
      BY <2>5 DEF WriteBody, WriteSetLen, At, Writing
    <3>2. th[t].req.op = "write"
      BY <3>1 DEF AllServe, Serves
    <3>3. Path(th[t]) \in Seq(Names) /\ Lookup(entry, Path(th[t])) = f
      BY <1>2, <2>5, <3>1, WritesThere
    <3>4. Within(entry) /\ Single(entry)
      BY <1>2, HomeWithin DEF OnInitialTrail, Quiet
    <3>5. f # None
      BY <1>7, Kinds
    <3>6. Path(th[t]) = P
      <4> HIDE DEF P
      <4> QED  BY <1>7, <3>3, <3>4, <3>5, TrailUnique
    <3> QED  BY <1>10, <1>12, <3>1, <3>2, <3>6
  <2>6. CASE WriteBody(t)
    <3> DEFINE p == th[t].req.part
    <3>1. data' = [data EXCEPT ![th[t].file] = WriteAt(data[th[t].file], IF p = 0 THEN 1 ELSE p, p)]
      BY <2>6 DEF WriteBody
    <3>2. CASE th[t].file = f
      <4>1. p \in Part /\ p # 0
        BY <2>5, <2>6, <3>2, TwoRanges
      <4>2. data'[f] = WriteAt(s, p, p)
        BY <1>1, <1>7, <3>1, <3>2, <4>1
      <4> HIDE DEF s, p, f
      <4>3. RangeIn(th[u], WriteAt(s, p, p))
        BY <1>13, <1>15, <2>1, <4>1, RangeStays
      <4> QED  BY <4>2, <4>3
    <3>3. CASE th[t].file # f
      <4>1. data'[f] = data[f]
        BY <1>1, <1>7, <3>1, <3>3
      <4> QED  BY <2>2, <4>1
    <3> QED  BY <3>2, <3>3
  <2>7. CASE WriteSetLen(t)
    <3>1. \/ data' = data
          \/ data' = [data EXCEPT ![th[t].file] = SetLen(data[th[t].file], Len(Uploaded))]
      BY <2>7 DEF WriteSetLen
    <3>2. CASE th[t].file = f /\ data' # data
      <4>1. th[t].req.part \in Part
        BY <2>5, <2>7, <3>2
      <4>2. data'[f] = SetLen(s, Len(Uploaded))
        BY <1>1, <1>7, <3>1, <3>2
      <4> HIDE DEF s, f
      <4>3. RangeIn(th[u], SetLen(s, Len(Uploaded)))
        BY <1>13, <1>15, <2>1, <4>1, RangeStays
      <4> QED  BY <4>2, <4>3
    <3>3. CASE th[t].file # f \/ data' = data
      <4>1. data'[f] = data[f]
        BY <1>1, <1>7, <3>1, <3>3
      <4> QED  BY <2>2, <4>1
    <3> QED  BY <3>2, <3>3
  <2>8. CASE /\ th'[t].pc = "own" /\ OpOf(t) = "write" /\ ~Ranged(t) /\ th[t].pc = "locate"
             /\ data' = [data EXCEPT ![th'[t].file] = <<>>]
    <3>1. th'[t].file # f
      <4> SUFFICES ASSUME th'[t].file = f PROVE FALSE
        OBVIOUS
      <4>1. th'[t].req = th[t].req /\ th'[t].req.op = "write" /\ th'[t].req.part = 0 /\ th'[t].pc # "idle"
        BY <1>2, <2>8 DEF At, OpOf, Ranged
      <4>2. ThreadOK(th'[t]) /\ Serves(th'[t]) /\ Follows(entry', th'[t])
        BY DEF FilesInv, ThreadsOK, AllServe, OnTrail
      <4>3. th'[t].pc \in Following /\ th'[t].pc \in Writing
        BY <2>8 DEF Following, Writing
      <4>4. Path(th'[t]) \in Seq(Names) /\ Depth(th'[t]) = Len(Path(th'[t]))
        BY <4>2, <4>3, HowDeep
      <4>5. f = Lookup(entry', Path(th'[t]))
        BY <4>2, <4>3, <4>4 DEF Follows, Spot, Lookup, Holds
      <4>6. Within(entry') /\ Single(entry')
        BY HomeWithin DEF OnInitialTrail, Quiet, FilesInv, HomeOK, Within, Store
      <4>7. f # None
        BY <1>7, Kinds
      <4>8. Path(th'[t]) = P
        <5> HIDE DEF P
        <5> QED  BY <1>7, <1>8, <4>4, <4>5, <4>6, <4>7, TrailUnique
      <4> QED  BY <1>9, <4>1, <4>8
    <3>2. data'[f] = data[f]
      BY <1>1, <1>7, <2>8, <3>1
    <3> QED  BY <2>2, <3>2
  <2> QED  BY <2>3, <2>4, <2>6, <2>7, <2>8, ServeData
<1> QED  BY <1>16, <1>17

-----------------------------------------------------------------------------
(* Listings *)

\* What was in a directory from the start and the listing passed is accounted for, and while
\* the directory is read it is still to be read, was read or was refused.
Complete(e, x) ==
    x.pc # "idle" /\ x.req.op = "list" =>
        LET d == Lookup(e, Path(x))
        IN  d \in InsideDir \cap Initial => \A n \in Names :
              e[d][n] # None /\ e[d][n] = InitEntry[d][n] =>
                 /\ Passed(x, n) => Covered(x, n)
                 /\ x.pc = "entries" => n \in x.scan \cup x.found \cup x.missed

PagesKept == Untampered => \A t \in Thread : Complete(entry, th[t])

\* The directories requests make start empty.
LEMMA InitialEntries ==
    ASSUME NEW d \in InsideDir, NEW n \in Names, InitEntry[d][n] # None
    PROVE  InitEntry[d][n] \in Initial /\ d \in Initial
<1>1. d \in {"home", "dir", "sub", "stash"} \cup NewDir /\ d \in Dir
  BY Kinds DEF InsideDir
<1>2. d \notin NewDir
  BY <1>1, FourNames DEF InitEntry, NewDir, None
<1>3. n \in {"a", "b", "c", "z"}
  BY FourNames
<1>4. d \in {"home", "dir", "sub", "stash"}
  BY <1>1, <1>2
<1>5. InitEntry[d][n] \in {"dir", "file", "stash", "sub", "sock", "linkdir", "linkfile", "linksock", "fifo", "alien", "blob"}
  BY <1>1, <1>3, <1>4 DEF InitEntry, None
<1>6. {"dir", "file", "stash", "sub", "sock", "linkdir", "linkfile", "linksock", "fifo", "alien", "blob"} \subseteq Initial
  BY DEF Initial, Inode, Dir, InsideDir, File, Socket, Link, NewDir, NewFile
<1> QED  BY <1>1, <1>2, <1>5, <1>6, Kinds DEF Initial

\* What a client has seen of a listing has passed over no name that was there all along.
LEMMA PagesStep ==
    ASSUME FilesInv, FilesInv', AllServe, OnInitialTrail, OnInitialTrail', PagesKept,
           NEW t \in Thread, Serve(t)
    PROVE  PagesKept'
<1> SUFFICES ASSUME Untampered', NEW u \in Thread, th'[u].pc # "idle", th'[u].req.op = "list",
                    NEW d, d = Lookup(entry', Path(th'[u])), d \in InsideDir \cap Initial,
                    NEW n \in Names, entry'[d][n] # None, entry'[d][n] = InitEntry[d][n]
             PROVE  /\ Passed(th'[u], n) => Covered(th'[u], n)
                    /\ th'[u].pc = "entries" => n \in th'[u].scan \cup th'[u].found \cup th'[u].missed
  BY DEF PagesKept, Complete
<1> DEFINE x == th[u]
           y == th'[u]
<1>1. Untampered /\ \A w \in Thread : ~At(w, "idle") => th'[w].req = th[w].req
  BY AskedKept
<1>2. /\ Moves(t) /\ (\A w \in Thread : w # t => th'[w] = th[w])
  BY ServeMoves DEF AllServe
<1>3. ThreadOK(x) /\ Serves(x) /\ FollowsInitial(entry, x) /\ Complete(entry, x)
  BY <1>1 DEF FilesInv, ThreadsOK, AllServe, OnInitialTrail, PagesKept
<1>14. CASE x.pc = "idle"
  <2>1. u = t
    BY <1>2, <1>14, SMTT(30)
  <2>2. ~ListEntries(t)
    BY <1>14, <2>1 DEF ListEntries, At
  <2>3. Begins(x, y)
    BY <1>2, <1>14, <2>1, <2>2 DEF Moves, Stays, Descends, Ends, Open
  <2>4. y.pc = "locate" /\ Len(y.seen) = 0
    BY <2>3 DEF Begins
  <2> HIDE DEF y
  <2>5. ~Passed(y, n)
    BY <2>4 DEF Passed
  <2> QED  BY <2>4, <2>5 DEF y
<1>4. SUFFICES ASSUME x.pc # "idle"
               PROVE  /\ Passed(y, n) => Covered(y, n)
                      /\ y.pc = "entries" => n \in y.scan \cup y.found \cup y.missed
  BY <1>14
<1>5. y.req = x.req /\ x.req.op = "list"
  BY <1>1, <1>4 DEF At
<1> DEFINE P == Path(x)
<1>6. P \in Seq(Names) /\ Len(P) \in 0 .. Len(P) /\ Path(y) = P
  <2>1. x.req \in Request
    BY <1>3, <1>4 DEF ThreadOK
  <2>2. P \in Seq(Names) /\ Len(P) \in Nat
    BY <2>1, PathNames
  <2> QED  BY <1>5, <2>2 DEF Path
<1>7. /\ Original(entry') /\ Within(entry) /\ Within(entry')
      /\ \A a \in InsideDir, m \in Names : entry'[a][m] \in Initial => entry[a][m] = entry'[a][m]
  <2>1. Within(entry) /\ Within(entry')
    BY HomeWithin DEF FilesInv, HomeOK, Within, Store
  <2>2. \A a \in InsideDir, m \in Names : entry'[a][m] \in Initial => entry[a][m] = entry'[a][m]
    BY <1>1, HomeKept DEF OnInitialTrail, AllServe
  <2> QED  BY <2>1, <2>2 DEF OnInitialTrail
<1>8. Lookup(entry, P) = d
  <2> HIDE DEF P
  <2>1. Trail(entry', P)[Len(P)] = d
    BY <1>6 DEF Lookup
  <2> QED  BY <1>6, <1>7, <2>1, TrailInitial DEF Lookup
<1>9. entry[d][n] = entry'[d][n]
  BY <1>7, InitialEntries
<1>10. /\ Passed(x, n) => Covered(x, n)
       /\ x.pc = "entries" => n \in x.scan \cup x.found \cup x.missed
  BY <1>3, <1>4, <1>5, <1>8, <1>9 DEF Complete
<1>15. ASSUME x.pc = "entries" PROVE x.fd = d
  <2>1. x.pc \in Following
    BY <1>15 DEF Following
  <2>2. Depth(x) = Len(P) /\ Holds(x) = x.fd
    BY <1>3, <1>15, <2>1, HowDeep DEF Holds, Writing
  <2> QED  BY <1>3, <1>8, <2>1, <2>2 DEF FollowsInitial, Spot, Lookup
<1>16. ASSUME y.seen = x.seen, y.pc # "ok", x.missed \subseteq y.missed
       PROVE  Passed(y, n) => Covered(y, n)
  <2> HIDE DEF x, y
  <2> QED  BY <1>10, <1>16 DEF Passed, Covered
<1>11. CASE u # t
  BY <1>2, <1>10, <1>11
<1>12. CASE u = t /\ ~ListEntries(t)
  <2>1. CASE Begins(x, y)
    BY <1>3, <1>4, <1>5, <2>1 DEF Begins, Serves, Writing
  <2>2. CASE Stays(entry', x, y)
    <3>1. y.seen = x.seen /\ y.pc # "ok" /\ x.missed \subseteq y.missed
      BY <2>2 DEF Stays, Open
    <3>2. ASSUME y.pc = "entries" PROVE n \in y.scan \cup y.found \cup y.missed
      <4>1. Scans(entry', x, y)
        BY <2>2, <3>2 DEF Stays
      <4>2. CASE y.scan = Names
        BY <4>2
      <4>3. CASE y.scan # Names
        <5>1. /\ x.pc = "entries"
              /\ \A m \in x.scan \cup x.found \cup x.missed :
                    entry'[x.fd][m] # None => m \in y.scan \cup y.found \cup y.missed
          BY <4>1, <4>3 DEF Scans
        <5>2. x.fd = d
          BY <1>15, <5>1
        <5> QED  BY <1>10, <5>1, <5>2
      <4> QED  BY <4>2, <4>3
    <3> QED  BY <1>16, <3>1, <3>2
  <2>3. CASE Descends(entry', x, y)
    <3>1. y.seen = x.seen /\ y.pc # "ok" /\ x.missed \subseteq y.missed /\ (y.pc = "entries" => y.scan = Names)
      BY <2>3 DEF Descends
    <3> QED  BY <1>16, <3>1
  <2>4. CASE Ends(x, y)
    <3>1. y.seen = x.seen /\ y.pc = "error" /\ x.missed \subseteq y.missed
      BY <1>3, <1>5, <2>4 DEF Ends, Serves, Writing
    <3> QED  BY <1>16, <3>1
  <2> QED  BY <1>2, <1>12, <2>1, <2>2, <2>3, <2>4 DEF Moves
<1>13. CASE u = t /\ ListEntries(t)
  <2>1. /\ x.pc = "entries" /\ x.scan = {} /\ y.missed = x.missed /\ y.pc # "entries"
        /\ \A k \in 1 .. Len(x.seen) : k \in 1 .. Len(y.seen) /\ y.seen[k] = x.seen[k]
        /\ n \in x.found /\ Beyond(t, n) /\ Passed(y, n) => Covered(y, n)
    BY <1>3, <1>13, ListsPage DEF Covered
  <2>2. n \in x.missed => Covered(y, n)
    BY <2>1 DEF Covered
  <2>3. CASE n \in x.found /\ Beyond(t, n)
    BY <2>1, <2>3
  <2>4. CASE ~Beyond(t, n)
    <3> DEFINE s == x.seen
    <3>1. s # <<>> /\ ~(Shown[n] > Shown[s[Len(s)]])
      BY <1>13, <2>4 DEF Beyond
    <3>2. s \in Seq(Names)
      BY <1>3 DEF Serves
    <3>3. Len(s) \in 1 .. Len(s) /\ Len(s) > 0
      BY <3>1, <3>2, EmptySeq
    <3>4. Shown[n] \in Int /\ Shown[s[Len(s)]] \in Int
      BY <3>2, <3>3, ShownIsNumber
    <3>5. Passed(x, n)
      BY <3>1, <3>3, <3>4 DEF Passed
    <3>6. n \in x.missed \/ \E k \in 1 .. Len(x.seen) : Shown[x.seen[k]] = Shown[n]
      BY <1>10, <3>5 DEF Covered
    <3>7. ASSUME NEW k \in 1 .. Len(x.seen), Shown[x.seen[k]] = Shown[n] PROVE Covered(y, n)
      <4>1. k \in 1 .. Len(y.seen) /\ y.seen[k] = x.seen[k]
        BY <2>1
      <4> QED  BY <3>7, <4>1 DEF Covered
    <3> QED  BY <2>1, <2>2, <3>6, <3>7
  <2> QED  BY <1>10, <2>1, <2>2, <2>3, <2>4
<1> QED  BY <1>11, <1>12, <1>13

-----------------------------------------------------------------------------
(* The invariant *)

TrailInv == FilesInv /\ AllServe /\ OnInitialTrail /\ OnTrail /\ RangesKept /\ PagesKept

\* Where an inode of the home is at the start.
Place == [i \in {"dir", "file", "stash", "sub", "sock", "linkdir", "linkfile", "linksock", "fifo", "alien", "blob"} |->
    CASE i = "dir" -> <<"home", "a">>      [] i = "file" -> <<"home", "b">>
      [] i = "stash" -> <<"home", "c">>    [] i = "sub" -> <<"dir", "a">>
      [] i = "sock" -> <<"dir", "b">>      [] i = "linkdir" -> <<"stash", "a">>
      [] i = "linkfile" -> <<"stash", "b">> [] i = "linksock" -> <<"stash", "c">>
      [] i = "fifo" -> <<"sub", "a">>      [] i = "alien" -> <<"sub", "b">>
      [] i = "blob" -> <<"dir", "z">>]

\* Every inode in the home has one name at the start.
LEMMA InitiallySingle == Original(InitEntry) /\ Single(InitEntry)
<1>1. Original(InitEntry)
  BY DEF Original
<1>2. ASSUME NEW d \in InsideDir, NEW n \in Names, InitEntry[d][n] # None
      PROVE  Place[InitEntry[d][n]] = <<d, n>> /\ InitEntry[d][n] # "home"
  <2>1. d \in {"home", "dir", "sub", "stash"} \cup NewDir /\ d \in Dir
    BY Kinds DEF InsideDir
  <2>2. d \in {"home", "dir", "sub", "stash"}
    BY <1>2, <2>1, FourNames DEF InitEntry, NewDir, None
  <2>3. n \in {"a", "b", "c", "z"}
    BY FourNames
  <2>4. CASE d = "home"
    BY <1>2, <2>1, <2>3, <2>4 DEF InitEntry, Place
  <2>5. CASE d = "dir"
    BY <1>2, <2>1, <2>3, <2>5 DEF InitEntry, Place
  <2>6. CASE d = "sub"
    BY <1>2, <2>1, <2>3, <2>6 DEF InitEntry, Place
  <2>7. CASE d = "stash"
    BY <1>2, <2>1, <2>3, <2>7 DEF InitEntry, Place
  <2> QED  BY <2>2, <2>4, <2>5, <2>6, <2>7
<1>3. ASSUME NEW d \in InsideDir, NEW n \in Names PROVE InitEntry[d][n] # "home"
  BY <1>2 DEF None
<1>4. ASSUME NEW d \in InsideDir, NEW n \in Names, NEW x \in InsideDir, NEW m \in Names,
             InitEntry[d][n] = InitEntry[x][m], InitEntry[d][n] # None
      PROVE  d = x /\ n = m
  <2>1. <<d, n>> = <<x, m>>
    BY <1>2, <1>4
  <2> QED  BY <2>1
<1> QED  BY <1>1, <1>3, <1>4 DEF Single

\* The invariant of the trails holds at the start.
LEMMA TrailInit == Init => TrailInv
<1> SUFFICES ASSUME Init PROVE TrailInv
  OBVIOUS
<1>1. FilesInv
  BY FilesInit
<1>2. /\ entry = InitEntry /\ (\A t \in Thread : th[t] = Idle)
      /\ data = [f \in File |-> IF f \in NewFile THEN <<>> ELSE <<0, 0, 0>>]
  BY DEF Init
<1>3. Idle.pc = "idle" /\ Idle.seen = <<>>
  BY DEF Idle
<1>4. AllServe
  <2>1. Serves(Idle)
    BY <1>3 DEF Serves, Writing, Purging, Walks, Ascending
  <2> QED  BY <1>2, <2>1 DEF AllServe
<1>5. OnInitialTrail
  <2>1. ASSUME NEW d \in InsideDir, NEW n \in Names PROVE entry[d][n] \notin NewDir \cup NewFile
    <3>1. CASE InitEntry[d][n] = None
      BY <1>2, <3>1 DEF None, NewDir, NewFile
    <3>2. CASE InitEntry[d][n] # None
      BY <1>2, <3>2, InitialEntries DEF Initial
    <3> QED  BY <3>1, <3>2
  <2>2. Claimed
    BY <2>1 DEF Claimed
  <2>3. \A t \in Thread : FollowsInitial(entry, th[t])
    BY <1>2, <1>3 DEF FollowsInitial, Following, Writing, Walks
  <2> QED  BY <1>2, <2>2, <2>3, InitiallySingle DEF OnInitialTrail
<1>6. OnTrail
  BY <1>2, <1>3 DEF OnTrail, Follows, Following, Writing, Walks, At
<1>7. RangesKept
  <2>1. data \in [File -> Seq(Int)]
    BY <1>2
  <2> QED  BY <1>2, <1>3, <2>1 DEF RangesKept
<1>8. PagesKept
  BY <1>2, <1>3 DEF PagesKept, Complete
<1> QED  BY <1>1, <1>4, <1>5, <1>6, <1>7, <1>8 DEF TrailInv

\* Every step keeps the invariant of the trails.
LEMMA TrailNext ==
    ASSUME TrailInv, [Next]_vars
    PROVE  TrailInv'
<1>1. FilesInv'
  BY FilesStep DEF TrailInv
<1>2. CASE UNCHANGED vars
  <2>1. AllServe' /\ OnInitialTrail' /\ OnTrail'
    BY <1>2 DEF vars, TrailInv, AllServe, OnInitialTrail, OnTrail, Quiet, Untampered, NoDeletes, Claimed, At, OpOf
  <2>2. RangesKept'
    BY <1>2 DEF vars, TrailInv, RangesKept, Quiet, Untampered, NoDeletes, Undisturbed, Writes, Ranged, At, OpOf
  <2>3. PagesKept'
    BY <1>2 DEF vars, TrailInv, PagesKept, Untampered
  <2> QED  BY <1>1, <2>1, <2>2, <2>3 DEF TrailInv
<1>3. CASE Tamper
  <2>1. tampers' = tampers + 1 /\ tampers \in Nat /\ UNCHANGED <<th, data>>
    BY <1>3 DEF Tamper, TrailInv, FilesInv, BeingHandedOver
  <2>2. ~Untampered'
    BY <2>1 DEF Untampered
  <2>3. AllServe' /\ data' \in [File -> Seq(Int)]
    BY <2>1 DEF TrailInv, AllServe, RangesKept
  <2> QED  BY <1>1, <2>2, <2>3 DEF TrailInv, OnInitialTrail, OnTrail, RangesKept, PagesKept, Quiet
<1>4. ASSUME NEW t \in Thread, Serve(t) PROVE TrailInv'
  <2>1. AllServe' /\ OnInitialTrail'
    BY <1>1, <1>4, InitialTrailStep DEF TrailInv
  <2>2. OnTrail'
    BY <1>1, <1>4, OnTrailStep DEF TrailInv
  <2>3. RangesKept'
    BY <1>1, <1>4, <2>1, <2>2, RangesStep DEF TrailInv
  <2>4. PagesKept'
    BY <1>1, <1>4, <2>1, PagesStep DEF TrailInv
  <2> QED  BY <1>1, <2>1, <2>2, <2>3, <2>4 DEF TrailInv
<1> QED  BY <1>2, <1>3, <1>4 DEF Next

\* The invariant the contents rest on: threads stay on the trails of their paths, what was
\* written stays in the file the path leads to, and what a listing passed is in it.
THEOREM TrailInvariant == Spec => []TrailInv
BY TrailInit, TrailNext, PTL DEF Spec

\* Ranges of an upload sent in parallel, repeated and broken off (handle_write, open_write):
\* once each was answered the file is what was uploaded, whatever other requests do, unless
\* one deletes or one overwrites the file as a whole.
THEOREM UploadsExact == Spec => []UploadExact
<1>1. TrailInv => UploadExact
  <2> SUFFICES ASSUME TrailInv, NEW path, Untampered, NoDeletes,
                      \A t \in Thread : Writes(t, path) => Ranged(t),
                      \A p \in Part : \E t \in Thread :
                         Writes(t, path) /\ At(t, "ok") /\ th[t].req.part = p
               PROVE  data[Lookup(entry, path)] = Uploaded
    BY DEF UploadExact
  <2> DEFINE f == Lookup(entry, path)
             s == data[f]
  <2>1. Quiet /\ Undisturbed(path) /\ 1 \in Part /\ 2 \in Part
    BY TwoRanges DEF Quiet, Undisturbed
  <2>2. ASSUME NEW p \in Part
        PROVE  /\ f \in File /\ p <= Len(s) /\ s[p] = p
               /\ p = 1 => Len(s) = Len(Uploaded)
    <3>1. PICK t \in Thread : Writes(t, path) /\ At(t, "ok") /\ th[t].req.part = p
      OBVIOUS
    <3>2. Path(th[t]) = path /\ th[t].pc = "ok" /\ th[t].req.op = "write"
      BY <3>1 DEF Writes, Path, At, OpOf
    <3>3. f \in File
      BY <2>1, <3>2 DEF TrailInv, OnTrail, At, OpOf
    <3>4. RangeIn(th[t], s)
      BY <2>1, <3>2 DEF TrailInv, RangesKept
    <3> QED  BY <3>1, <3>2, <3>3, <3>4 DEF RangeIn
  <2>3. s \in Seq(Int) /\ Len(s) = 2 /\ s[1] = 1 /\ s[2] = 2
    BY <2>1, <2>2, TwoRanges DEF TrailInv, RangesKept
  <2> HIDE DEF s
  <2>4. Len(s) = Len(Uploaded) /\ \A k \in 1 .. Len(s) : s[k] = Uploaded[k]
    BY <2>3, TwoRanges
  <2>5. s = Uploaded
    BY <2>3, <2>4, TwoRanges, SeqEqual
  <2> QED  BY <2>5 DEF s
<1> QED  BY <1>1, TrailInvariant, PTL

\* A directory listed in pages that others change meanwhile (list, handle_list): no entry comes
\* twice or out of order, and one that was there throughout is left out only if its own open was
\* refused or another entry with the same text was given.
THEOREM ListingsComplete == Spec => []ListedOnce
<1>1. TrailInv => ListedOnce
  <2> SUFFICES ASSUME TrailInv, NEW t \in Thread, OpOf(t) = "list"
               PROVE  LET seen == th[t].seen
                          d == Lookup(entry, Normalize(th[t].req.path))
                      IN  /\ \A j, k \in DOMAIN seen : j < k => seen[j] # seen[k] /\ Shown[seen[j]] <= Shown[seen[k]]
                          /\ (At(t, "ok") /\ Untampered /\ th[t].req.part > 0 /\ d \in Dir) =>
                              \A n \in Names : (entry[d][n] # None /\ entry[d][n] = InitEntry[d][n])
                                  => n \in th[t].missed \/ \E k \in DOMAIN seen : Shown[seen[k]] = Shown[n]
    BY DEF ListedOnce
  <2> DEFINE s == th[t].seen
             d == Lookup(entry, Path(th[t]))
  <2>1. s \in Seq(Names) /\ Ascending(s)
    BY DEF TrailInv, AllServe, Serves
  <2>3. ASSUME At(t, "ok"), Untampered, th[t].req.part > 0, d \in Dir, NEW n \in Names,
               entry[d][n] # None, entry[d][n] = InitEntry[d][n]
        PROVE  n \in th[t].missed \/ \E k \in 1 .. Len(s) : Shown[s[k]] = Shown[n]
    <3>1. th[t].pc = "ok" /\ th[t].req \in Request
      BY <2>3 DEF At, TrailInv, FilesInv, ThreadsOK, ThreadOK
    <3>2. Path(th[t]) \in Seq(Names) /\ Len(Path(th[t])) \in 0 .. Len(Path(th[t]))
      BY <3>1, PathNames
    <3>3. d \in InsideDir
      <4>1. Within(entry)
        BY HomeWithin DEF TrailInv
      <4> QED  BY <2>3, <3>2, <4>1, TrailInside DEF Within, Lookup
    <3>4. d \in Initial
      BY <2>3, <3>3, InitialEntries
    <3>5. Complete(entry, th[t]) /\ Passed(th[t], n)
      BY <2>3, <3>1 DEF TrailInv, PagesKept, Passed
    <3>6. Covered(th[t], n)
      BY <2>3, <3>1, <3>3, <3>4, <3>5 DEF Complete, OpOf
    <3> QED  BY <3>6 DEF Covered
  <2>4. DOMAIN s = 1 .. Len(s)
    BY <2>1
  <2>5. d = Lookup(entry, Normalize(th[t].req.path))
    BY DEF Path
  <2> HIDE DEF s, d
  <2>2. \A j, k \in DOMAIN s : j < k => s[j] # s[k] /\ Shown[s[j]] <= Shown[s[k]]
    BY <2>1, <2>4 DEF Ascending
  <2>6. (At(t, "ok") /\ Untampered /\ th[t].req.part > 0 /\ d \in Dir) =>
          \A n \in Names : (entry[d][n] # None /\ entry[d][n] = InitEntry[d][n])
              => n \in th[t].missed \/ \E k \in DOMAIN s : Shown[s[k]] = Shown[n]
    BY <2>3, <2>4
  <2> QED  BY <2>2, <2>5, <2>6 DEF s
<1> QED  BY <1>1, TrailInvariant, PTL

=============================================================================
