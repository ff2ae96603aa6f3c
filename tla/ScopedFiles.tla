----------------------------- MODULE ScopedFiles -----------------------------
(***************************************************************************)
(* Host-mode file requests (src/files.rs) and the lookup of a proxy socket *)
(* (src/proxy.rs) over src/fsutil.rs: threads of the server, which runs as *)
(* root, walk a path one openat at a time below a sandbox's home while the *)
(* sandbox renames what is in it, links to the outside included.           *)
(*                                                                         *)
(* An inode is a name of the sets below; a directory maps names to inodes. *)
(* A thread serves one request, system call by system call.                *)
(***************************************************************************)
EXTENDS Integers, Sequences, FiniteSets

CONSTANTS
    Thread,      \* server threads, one request each
    Request,     \* the requests clients may send
    Shown,       \* the rank among all texts of what to_string_lossy makes of a name
    Renamed,     \* bound: names the sandbox renames from and to
    MaxUpsets,   \* bound: renames by the sandbox and calls the kernel refuses, together
    MaxBreaks    \* bound: uploads that break off and are retried

None == "none"
Names == {"a", "b", "c", "z"}          \* "z" is not UTF-8: no request can name it
Part == 1 .. 2                        \* the ranges of a parallel upload
Uploaded == [p \in Part |-> p]        \* range p carries the byte p
NewDir == {"newdir1", "newdir2"}      \* bound: inodes left on the file system
NewFile == {"newfile"}
InsideDir == {"home", "dir", "sub", "stash"} \cup NewDir
Dir == InsideDir \cup {"outdir"}
File == {"file", "blob", "fifo", "outfile"} \cup NewFile
Socket == {"sock", "alien", "outsock"}
Link == {"linkdir", "linkfile", "linksock"}
Inode == Dir \cup File \cup Socket \cup Link
Outside == {"outdir", "outfile", "outsock"}
Target == [linkdir |-> "outdir", linkfile |-> "outfile", linksock |-> "outsock"]

ASSUME FilesAssumption ==
    /\ MaxUpsets \in Nat /\ MaxBreaks \in Nat
    /\ Shown \in [Names -> Nat] /\ Renamed \subseteq Names
    /\ Request \subseteq [op : {"read", "write", "stat", "list", "delete", "rmdir", "mkdir", "connect"},
                          path : Seq((Names \ {"z"}) \cup {"..", "."}), part : Part \cup {0}]

VARIABLES
    entry,     \* what each directory holds under each name
    owner,     \* who owns an inode, None for one not yet in use
    data,      \* content of a file
    th,        \* the server's threads
    touched,   \* history: inodes outside the home it read, changed, gave away or connected to
    connected, \* history: sockets it connected to
    tampers,   \* history: renames by the sandbox
    breaks,    \* history: uploads that broke off
    faults,    \* history: opens and chowns the kernel refused
    lost       \* history: inodes whose hand-over to the sandbox failed, and was not repeated

vars == <<entry, owner, data, th, touched, connected, tampers, breaks, faults, lost>>

Idle == [pc |-> "idle", req |-> None, rest |-> <<>>, fd |-> None, file |-> None,
         stack |-> <<>>, probe |-> None, seen |-> <<>>, scan |-> {}, found |-> {}, missed |-> {}]

InitEntry == [d \in Dir |->
    CASE d = "home"   -> [a |-> "dir", b |-> "file", c |-> "stash", z |-> None]
      [] d = "dir"    -> [a |-> "sub", b |-> "sock", c |-> None, z |-> "blob"]
      [] d = "stash"  -> [a |-> "linkdir", b |-> "linkfile", c |-> "linksock", z |-> None]
      [] d = "sub"    -> [a |-> "fifo", b |-> "alien", c |-> None, z |-> None]
      [] d = "outdir" -> [a |-> "outfile", b |-> "outsock", c |-> None, z |-> None]
      [] OTHER        -> [n \in Names |-> None]]

Init ==
    /\ entry = InitEntry
    /\ owner = [i \in Inode |-> CASE i \in NewDir \cup NewFile -> None
                                 [] i \in Outside \cup {"alien"} -> "other"
                                 [] OTHER -> "sandbox"]
    /\ data = [f \in File |-> IF f \in NewFile THEN <<>> ELSE <<0, 0, 0>>]
    /\ th = [t \in Thread |-> Idle]
    /\ touched = {} /\ connected = {} /\ tampers = 0 /\ breaks = 0
    /\ faults = 0 /\ lost = {}

failVars == <<faults, lost>>

\* A directory that was removed takes no new entries.
Alive(d) == d = "home" \/ \E x \in InsideDir, n \in Names : entry[x][n] = d
Fresh(S) == {i \in S : owner[i] = None}

-----------------------------------------------------------------------------
(* The sandbox *)

\* What lies below a directory, itself not counted unless there is a cycle.
Below(e, d) ==
    LET Reach[k \in 0 .. Cardinality(Dir)] ==
          IF k = 0 THEN {d} ELSE UNION {{e[x][n] : n \in Names} : x \in Reach[k - 1] \cap Dir}
    IN  UNION {Reach[k] : k \in 1 .. Cardinality(Dir)}

\* rename or RENAME_EXCHANGE of two names in its home.
Exchanged(d1, n1, d2, n2) ==
    [entry EXCEPT ![d1][n1] = entry[d2][n2], ![d2][n2] = entry[d1][n1]]

Tamper ==
    /\ tampers + faults < MaxUpsets
    /\ \E d1, d2 \in InsideDir, n1, n2 \in Renamed :
        LET moved == Exchanged(d1, n1, d2, n2)
        IN  /\ moved # entry
            /\ \A d \in {d1, d2} : Alive(d) /\ owner[d] = "sandbox"
            /\ \A d \in {d1, d2} : d \notin Below(moved, d)
            /\ entry' = moved
    /\ tampers' = tampers + 1
    /\ UNCHANGED <<owner, data, th, touched, connected, breaks, failVars>>

-----------------------------------------------------------------------------
(* System calls relative to a directory descriptor.  An open yields a set of *)
(* at most one inode; the empty set is an error.                             *)

\* Mutant: without O_NOFOLLOW.
OpenAt_Follow(d, n) ==
    LET i == entry[d][n] IN {IF i \in Link THEN Target[i] ELSE i} \ {None}

\* open_at: O_NOFOLLOW refuses a link.
OpenAt(d, n) == {entry[d][n]} \ (Link \cup {None})
OpenDirAt(d, n) == OpenAt(d, n) \cap Dir
\* open_path_at: a link is opened itself.
OpenPathAt(d, n) == {entry[d][n]} \ {None}

Set(t, r) == th' = [th EXCEPT ![t] = r]
Finish(t, answer) ==
    Set(t, [Idle EXCEPT !.pc = answer, !.req = th[t].req, !.seen = th[t].seen, !.missed = th[t].missed])
Fail(t) == Finish(t, "error")
Name(t) == Head(th[t].rest)
At(t, pc) == th[t].pc = pc
OpOf(t) == th[t].req.op
Creates(t) == OpOf(t) \in {"write", "mkdir"}
Touch(S) == touched' = touched \cup (S \cap Outside)

fsVars == <<entry, owner, data, touched>>
histVars == <<connected, tampers, breaks, faults, lost>>
keptVars == <<connected, tampers, breaks>>

\* mkdirat, then next: an existing name of any kind counts as success, a removed
\* directory or a full file system is an error.
MkdirAt(t, next) ==
    LET d == th[t].fd
        n == Head(th[t].rest)
    IN  \/ /\ entry[d][n] # None /\ Set(t, next)
           /\ UNCHANGED <<entry, owner, touched>>
        \/ /\ entry[d][n] = None /\ Alive(d) /\ Fresh(NewDir) # {}
           /\ LET i == CHOOSE x \in Fresh(NewDir) : TRUE IN
              /\ entry' = [entry EXCEPT ![d][n] = i]
              /\ owner' = [owner EXCEPT ![i] = "other"]
           /\ Touch({d}) /\ Set(t, next)
        \/ /\ entry[d][n] = None /\ (~Alive(d) \/ Fresh(NewDir) = {})
           /\ Fail(t) /\ UNCHANGED <<entry, owner, touched>>

\* A call the kernel refuses for a reason of its own.
Fault == tampers + faults < MaxUpsets /\ faults' = faults + 1

\* fchown, whose failure every caller ignores.
HandOver(i) ==
    \/ /\ owner' = [owner EXCEPT ![i] = "sandbox"] /\ lost' = lost \ {i} /\ Touch({i})
       /\ UNCHANGED faults
    \/ Fault /\ lost' = lost \cup {i} /\ UNCHANGED <<owner, touched>>

\* unlinkat; rmdir is AT_REMOVEDIR.
CanUnlink(d, n, rmdir) ==
    LET i == entry[d][n]
    IN  i # None /\ IF rmdir THEN i \in Dir /\ \A m \in Names : entry[i][m] = None ELSE i \notin Dir
UnlinkAt(d, n) == entry' = [entry EXCEPT ![d][n] = None] /\ Touch({d})

-----------------------------------------------------------------------------
(* locate *)

\* normalize_relative, component by component: `..' drops the last name, if any; `.'
\* and the root are skipped.
Component(done, c) ==
    CASE c \in Names -> Append(done, c)
      [] c = ".." /\ done # <<>> -> SubSeq(done, 1, Len(done) - 1)
      [] OTHER -> done
Normalize(path) ==
    LET Norm[k \in 0 .. Len(path)] ==
          IF k = 0 THEN <<>> ELSE Component(Norm[k - 1], path[k])
    IN  Norm[Len(path)]

\* require_path: ScopedRoot::open; locate starts at a duplicate of it.
Begun(r) == [Idle EXCEPT !.pc = "locate", !.req = r, !.rest = Normalize(r.path), !.fd = "home"]

Begin(t) ==
    /\ At(t, "idle")
    /\ \E r \in Request : Set(t, Begun(r))
    /\ UNCHANGED <<fsVars, histVars>>

Walking(t) == At(t, "locate") /\ Len(th[t].rest) > 1
Located(t) == At(t, "locate") /\ Len(th[t].rest) = 1
RootNamed(t) == At(t, "locate") /\ th[t].rest = <<>>

LocateMkdir(t) ==
    /\ Walking(t) /\ Creates(t)
    /\ MkdirAt(t, [th[t] EXCEPT !.pc = "descend"])
    /\ UNCHANGED <<data, histVars>>

LocateOpen(t) ==
    /\ At(t, "descend") \/ (Walking(t) /\ ~Creates(t))
    /\ LET next == IF Creates(t) THEN "give" ELSE "locate"
       IN  \/ \E d \in OpenDirAt(th[t].fd, Name(t)) :
                Set(t, [th[t] EXCEPT !.pc = next, !.fd = d, !.rest = Tail(@)])
           \/ OpenDirAt(th[t].fd, Name(t)) = {} /\ Fail(t)
    /\ UNCHANGED <<fsVars, histVars>>

\* Mutant: the new directory is left to root.
LocateGive_NoChown(t) ==
    /\ At(t, "give") /\ Set(t, [th[t] EXCEPT !.pc = "locate"])
    /\ UNCHANGED <<fsVars, histVars>>

LocateGive(t) ==
    /\ At(t, "give") /\ HandOver(th[t].fd)
    /\ Set(t, [th[t] EXCEPT !.pc = "locate"])
    /\ UNCHANGED <<entry, data, keptVars>>

\* The open before this point is refused (ScopedRoot::open, dup_dir, open_at, open_dir_at,
\* read_dir): the request fails, and what mkdirat just made stays as it is.
OpenFails(t) ==
    /\ th[t].pc \in {"locate", "descend", "adopt", "entries", "connect", "delete", "scan"}
    /\ Fault /\ Fail(t)
    /\ lost' = IF th[t].pc \in {"descend", "adopt"} THEN lost \cup {entry[th[t].fd][Name(t)]} ELSE lost
    /\ UNCHANGED <<fsVars, keptVars>>

Listing(t, d) == [th[t] EXCEPT !.pc = "entries", !.fd = d, !.scan = Names, !.found = {}]

\* The path names the home: it can be listed, stat-ed and "created" only.
OnRoot(t) ==
    /\ RootNamed(t)
    /\ CASE OpOf(t) = "list" -> Set(t, Listing(t, th[t].fd))
         [] OpOf(t) \in {"stat", "mkdir"} -> Finish(t, "ok")
         [] OTHER -> Fail(t)
    /\ IF OpOf(t) = "stat" THEN Touch({"home"}) ELSE UNCHANGED touched
    /\ UNCHANGED <<entry, owner, data, histVars>>

-----------------------------------------------------------------------------
(* read, stat, list, mkdir, connect *)

\* open_read and the transfer; only a regular file is read.
Read(t) ==
    /\ Located(t) /\ OpOf(t) = "read"
    /\ LET files == OpenAt(th[t].fd, Name(t)) \cap (File \ {"fifo"})
       IN  Touch(files) /\ Finish(t, IF files = {} THEN "error" ELSE "ok")
    /\ UNCHANGED <<entry, owner, data, histVars>>

Stat(t) ==
    /\ Located(t) /\ OpOf(t) = "stat"
    /\ LET found == OpenPathAt(th[t].fd, Name(t))
       IN  Touch(found) /\ Finish(t, IF found = {} THEN "error" ELSE "ok")
    /\ UNCHANGED <<entry, owner, data, histVars>>

\* The directory is opened, then read through its descriptor.
ListOpen(t) ==
    /\ Located(t) /\ OpOf(t) = "list"
    /\ \/ \E d \in OpenDirAt(th[t].fd, Name(t)) : Set(t, Listing(t, d))
       \/ OpenDirAt(th[t].fd, Name(t)) = {} /\ Fail(t)
    /\ UNCHANGED <<fsVars, histVars>>

\* read_dir in any order, open_path_at of each entry: one that is gone, or that is refused,
\* is skipped.
ListEntry(t) ==
    /\ At(t, "entries")
    /\ \E n \in th[t].scan :
        LET there == OpenPathAt(th[t].fd, n)
            visited == [th[t] EXCEPT !.scan = @ \ {n}]
        IN  \/ /\ Touch({th[t].fd} \cup there)
               /\ Set(t, IF there = {} THEN visited ELSE [visited EXCEPT !.found = @ \cup {n}])
               /\ UNCHANGED faults
            \/ /\ there # {} /\ Fault /\ Touch({th[t].fd})
               /\ Set(t, [visited EXCEPT !.missed = @ \cup {n}])
    /\ UNCHANGED <<entry, owner, data, keptVars, lost>>

\* sort_by the text: names with the same text stay as read_dir had them, in any order.
Sortings(S) ==
    {s \in [1 .. Cardinality(S) -> S] :
        /\ \A n \in S : \E k \in DOMAIN s : s[k] = n
        /\ \A j, k \in DOMAIN s : j < k => s[j] # s[k] /\ Shown[s[j]] <= Shown[s[k]]}

\* Mutant: the page starts with the text the last one ended with.
Beyond_OrEqual(t, n) == th[t].seen # <<>> => Shown[n] >= Shown[th[t].seen[Len(th[t].seen)]]

\* The client passes the `next' of a page, its last text, as `after' of the following one.
Beyond(t, n) == th[t].seen # <<>> => Shown[n] > Shown[th[t].seen[Len(th[t].seen)]]

\* handle_list with limit = part: sorted, cut at the limit, with a `next' if entries are
\* left out, unless the page is empty (limit = 0).  The client then asks for more.
ListEntries(t) ==
    /\ At(t, "entries") /\ th[t].scan = {}
    /\ \E named \in Sortings({n \in th[t].found : Beyond(t, n)}) :
        LET limit == th[t].req.part
            page == IF Len(named) > limit THEN SubSeq(named, 1, limit) ELSE named
            more == [Begun(th[t].req) EXCEPT !.seen = th[t].seen \o page, !.missed = th[t].missed]
        IN  Set(t, IF page = named \/ page = <<>>
                   THEN [more EXCEPT !.pc = "ok", !.rest = <<>>, !.fd = None] ELSE more)
    /\ UNCHANGED <<fsVars, histVars>>

MkdirLast(t) ==
    /\ Located(t) /\ OpOf(t) = "mkdir"
    /\ MkdirAt(t, [th[t] EXCEPT !.pc = "adopt"])
    /\ UNCHANGED <<data, histVars>>

MkdirAdopt(t) ==
    /\ At(t, "adopt")
    /\ \/ \E d \in OpenDirAt(th[t].fd, Name(t)) : Set(t, [th[t] EXCEPT !.pc = "hand", !.file = d])
       \/ OpenDirAt(th[t].fd, Name(t)) = {} /\ Fail(t)
    /\ UNCHANGED <<fsVars, histVars>>

MkdirHand(t) ==
    /\ At(t, "hand") /\ HandOver(th[t].file) /\ Finish(t, "ok")
    /\ UNCHANGED <<entry, data, keptVars>>

\* open_sandbox_socket: pin the inode, then look at what was pinned.
ConnectVet(t) ==
    /\ Located(t) /\ OpOf(t) = "connect"
    /\ LET pinned == {i \in OpenPathAt(th[t].fd, Name(t)) : i \in Socket /\ owner[i] = "sandbox"}
       IN  IF pinned = {} THEN Fail(t)
           ELSE \E i \in pinned : Set(t, [th[t] EXCEPT !.pc = "connect", !.file = i])
    /\ UNCHANGED <<fsVars, histVars>>

\* connect_backend through /proc/self/fd, then check_peer_uid.
Connect(t) ==
    /\ At(t, "connect")
    /\ Touch({th[t].file}) /\ connected' = connected \cup {th[t].file}
    /\ Finish(t, IF owner[th[t].file] = "sandbox" THEN "ok" ELSE "error")
    /\ UNCHANGED <<entry, owner, data, tampers, breaks, failVars>>

-----------------------------------------------------------------------------
(* write: part 0 is a plain overwrite, the others are ranges of one upload *)

Ranged(t) == th[t].req.part # 0

\* Mutant: a ranged write truncates as a plain one does.
Truncates_Always(t) == TRUE

\* open_write adds O_TRUNC when there is no offset.
Truncates(t) == ~Ranged(t)

WriteOpen(t) ==
    /\ Located(t) /\ OpOf(t) = "write"
    /\ LET d == th[t].fd
           n == Name(t)
           regular == OpenAt(d, n) \cap (File \ {"fifo"})
           opens(f) == Set(t, [th[t] EXCEPT !.pc = "own", !.file = f])
       IN  \/ \E f \in regular :
                /\ opens(f)
                /\ data' = IF Truncates(t) THEN [data EXCEPT ![f] = <<>>] ELSE data
                /\ IF Truncates(t) THEN Touch({f}) ELSE UNCHANGED touched
                /\ UNCHANGED <<entry, owner>>
           \/ \E f \in Fresh(NewFile) :     \* O_CREAT
                /\ entry[d][n] = None /\ Alive(d) /\ opens(f)
                /\ entry' = [entry EXCEPT ![d][n] = f]
                /\ owner' = [owner EXCEPT ![f] = "other"]
                /\ data' = [data EXCEPT ![f] = <<>>]
                /\ Touch({d})
           \/ /\ regular = {} /\ (entry[d][n] # None \/ ~Alive(d) \/ Fresh(NewFile) = {})
              /\ Fail(t) /\ UNCHANGED fsVars
    /\ UNCHANGED histVars

WriteOwn(t) ==
    /\ At(t, "own")
    /\ HandOver(th[t].file)
    /\ Set(t, [th[t] EXCEPT !.pc = "body"])
    /\ UNCHANGED <<entry, data, keptVars>>

\* s with v at position p, a hole before it reading as zeros.
WriteAt(s, p, v) ==
    [i \in 1 .. (IF Len(s) < p THEN p ELSE Len(s)) |->
        IF i = p THEN v ELSE IF i <= Len(s) THEN s[i] ELSE 0]

\* seek and stream_body.
WriteBody(t) ==
    /\ At(t, "body")
    /\ LET p == th[t].req.part IN
       data' = [data EXCEPT ![th[t].file] = WriteAt(@, IF p = 0 THEN 1 ELSE p, p)]
    /\ Touch({th[t].file})
    /\ Set(t, [th[t] EXCEPT !.pc = "setlen"])
    /\ UNCHANGED <<entry, owner, histVars>>

\* The client goes away before its bytes came; it sends the request again.
BodyBreaks(t) ==
    /\ At(t, "body") /\ breaks < MaxBreaks
    /\ breaks' = breaks + 1
    /\ Set(t, Begun(th[t].req))
    /\ UNCHANGED <<fsVars, connected, tampers, failVars>>

SetLen(s, n) == [i \in 1 .. n |-> IF i <= Len(s) THEN s[i] ELSE 0]

\* truncate_to, which the client states once, on its first range; then fchmod.
WriteSetLen(t) ==
    /\ At(t, "setlen")
    /\ data' = IF th[t].req.part = 1
               THEN [data EXCEPT ![th[t].file] = SetLen(@, Len(Uploaded))] ELSE data
    /\ Touch({th[t].file})
    /\ Finish(t, "ok")
    /\ UNCHANGED <<entry, owner, histVars>>

-----------------------------------------------------------------------------
(* delete, recursive on a directory: remove_dir_contents with one frame per  *)
(* open directory, what it listed and what of it are directories             *)

DeleteStat(t) ==
    /\ Located(t) /\ OpOf(t) \in {"delete", "rmdir"}
    /\ LET found == OpenPathAt(th[t].fd, Name(t))
           call == IF found \subseteq Dir THEN OpOf(t) ELSE "unlink"
       IN  IF found = {} THEN Fail(t) ELSE Set(t, [th[t] EXCEPT !.pc = call])
    /\ UNCHANGED <<fsVars, histVars>>

\* Not a directory, or not recursive: the call meets whatever has the name by now.
DeleteUnlink(t) ==
    /\ At(t, "unlink") \/ At(t, "rmdir")
    /\ IF CanUnlink(th[t].fd, Name(t), At(t, "rmdir"))
       THEN UnlinkAt(th[t].fd, Name(t)) /\ Finish(t, "ok")
       ELSE Fail(t) /\ UNCHANGED <<entry, touched>>
    /\ UNCHANGED <<owner, data, histVars>>

Top(t) == Head(th[t].stack)

\* open_dir_at below parent, and read_dir; rest are the frames under it.
Push(t, parent, n, rest) ==
    \/ \E d \in OpenDirAt(parent, n) :
        LET listed == {m \in Names : entry[d][m] # None}
        IN  Set(t, [th[t] EXCEPT !.pc = "scan",
                      !.stack = <<[dir |-> d, name |-> n, todo |-> listed, subs |-> {}]>> \o rest])
    \/ OpenDirAt(parent, n) = {} /\ Fail(t)

DeleteTree(t) ==
    /\ At(t, "delete") /\ Push(t, th[t].fd, Name(t), <<>>)
    /\ UNCHANGED <<fsVars, histVars>>

\* Is the entry a directory?  One that cannot be opened is taken not to be.
PurgeProbe(t) ==
    /\ At(t, "scan")
    /\ \E n \in Top(t).todo :
        Set(t, IF OpenPathAt(Top(t).dir, n) \cap Dir # {}
               THEN [th[t] EXCEPT !.stack[1].todo = @ \ {n}, !.stack[1].subs = @ \cup {n}]
               ELSE [th[t] EXCEPT !.stack[1].todo = @ \ {n}, !.pc = "drop", !.probe = n])
    /\ UNCHANGED <<fsVars, histVars>>

PurgeDrop(t) ==
    /\ At(t, "drop")
    /\ IF CanUnlink(Top(t).dir, th[t].probe, FALSE)
       THEN UnlinkAt(Top(t).dir, th[t].probe) /\ Set(t, [th[t] EXCEPT !.pc = "scan", !.probe = None])
       ELSE Fail(t) /\ UNCHANGED <<entry, touched>>
    /\ UNCHANGED <<owner, data, histVars>>

PurgeDescend(t) ==
    /\ At(t, "scan") /\ Top(t).todo = {}
    /\ \E n \in Top(t).subs :
        Push(t, Top(t).dir, n, <<[Top(t) EXCEPT !.subs = @ \ {n}]>> \o Tail(th[t].stack))
    /\ UNCHANGED <<fsVars, histVars>>

\* The directory was emptied: it is removed from the one that held it.
PurgeAscend(t) ==
    /\ At(t, "scan") /\ Top(t).todo = {} /\ Top(t).subs = {}
    /\ LET last == Len(th[t].stack) = 1
           parent == IF last THEN th[t].fd ELSE th[t].stack[2].dir
       IN  IF CanUnlink(parent, Top(t).name, TRUE)
           THEN /\ UnlinkAt(parent, Top(t).name)
                /\ IF last THEN Finish(t, "ok") ELSE Set(t, [th[t] EXCEPT !.stack = Tail(@)])
           ELSE Fail(t) /\ UNCHANGED <<entry, touched>>
    /\ UNCHANGED <<owner, data, histVars>>

-----------------------------------------------------------------------------

Serve(t) ==
    \/ Begin(t) \/ LocateMkdir(t) \/ LocateOpen(t) \/ LocateGive(t) \/ OnRoot(t) \/ OpenFails(t)
    \/ Read(t) \/ Stat(t) \/ ListOpen(t) \/ ListEntry(t) \/ ListEntries(t)
    \/ MkdirLast(t) \/ MkdirAdopt(t) \/ MkdirHand(t) \/ ConnectVet(t) \/ Connect(t)
    \/ WriteOpen(t) \/ WriteOwn(t) \/ WriteBody(t) \/ BodyBreaks(t) \/ WriteSetLen(t)
    \/ DeleteStat(t) \/ DeleteUnlink(t) \/ DeleteTree(t)
    \/ PurgeProbe(t) \/ PurgeDrop(t) \/ PurgeDescend(t) \/ PurgeAscend(t)

Next == Tamper \/ \E t \in Thread : Serve(t)

Spec == Init /\ [][Next]_vars

-----------------------------------------------------------------------------
(* Properties *)

\* Whatever the sandbox renames and links while the server walks, no privileged
\* operation (read, write, truncation, chown, listing, unlink, connect) reaches an
\* inode outside its home, and no connect a socket of another owner.
StaysInHome == touched = {} /\ connected \subseteq {"sock"}

Answered(t) == th[t].pc \in {"ok", "error"}
Untampered == tampers = 0

\* The inodes met on the way down a path from the home, and the last of them.
Trail(e, path) ==
    LET Met[k \in 0 .. Len(path)] ==
          IF k = 0 THEN "home"
          ELSE IF Met[k - 1] \in Dir THEN e[Met[k - 1]][path[k]] ELSE None
    IN  Met
Lookup(e, path) == Trail(e, path)[Len(path)]

\* What clients asked for so far, of this path and at all.
Writes(t, path) == ~At(t, "idle") /\ OpOf(t) = "write" /\ Normalize(th[t].req.path) = path
NoDeletes == \A t \in Thread : At(t, "idle") \/ OpOf(t) \notin {"delete", "rmdir"}

\* Ranges of one upload, sent in parallel, more than once, and again after they broke
\* off, with the final size stated on the first: once each was answered with success
\* the file is what was uploaded, with no tail of an older file and no range cut off by
\* the truncation (handle_write, open_write), unless somebody deletes or overwrites it.
UploadExact ==
    \A path \in {Normalize(r.path) : r \in Request} :
        (/\ Untampered /\ NoDeletes
         /\ \A t \in Thread : Writes(t, path) => Ranged(t)
         /\ \A p \in Part : \E t \in Thread :
               Writes(t, path) /\ At(t, "ok") /\ th[t].req.part = p)
        => data[Lookup(entry, path)] = Uploaded

\* A directory listed in pages that others change meanwhile: no entry comes twice or out of
\* order, and one that was there throughout is left out only if its own open was refused or
\* if an entry with the same text was given, which happens to names that to_string_lossy
\* makes equal and that a page's end parts (list, handle_list).
ListedOnce ==
    \A t \in Thread : (th[t].seen # <<>> \/ At(t, "ok")) /\ OpOf(t) = "list" =>
        LET seen == th[t].seen
            d == Lookup(entry, Normalize(th[t].req.path))
        IN  /\ \A j, k \in DOMAIN seen : j < k => seen[j] # seen[k] /\ Shown[seen[j]] <= Shown[seen[k]]
            /\ (At(t, "ok") /\ Untampered /\ th[t].req.part > 0 /\ d \in Dir) =>
                \A n \in Names : (entry[d][n] # None /\ entry[d][n] = InitEntry[d][n])
                    => n \in th[t].missed \/ \E k \in DOMAIN seen : Shown[seen[k]] = Shown[n]

\* Once no request is under way, all that requests created below the home belongs to
\* the sandbox, whichever requests raced or were repeated; the exceptions are what a refused
\* open kept from being handed over, or a refused chown, which the code ignores, unless a
\* later request made up for it (locate, open_write, mkdir_all).
CreatedHandedOver ==
    (Untampered /\ \A t \in Thread : Answered(t) \/ At(t, "idle")) =>
        \A d \in InsideDir, n \in Names :
            (Alive(d) /\ entry[d][n] \in NewDir \cup NewFile) =>
                owner[entry[d][n]] = "sandbox" \/ entry[d][n] \in lost

=============================================================================
