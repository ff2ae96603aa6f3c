---------------------------- MODULE HostRequests ----------------------------
(***************************************************************************)
(* The front door: what main (src/main.rs) refuses to start with, the      *)
(* connection limit, authorisation and routing of requests, the sandbox    *)
(* endpoints of src/sandboxes.rs, and the confinement (src/landlock.rs) a  *)
(* command is started under.                                               *)
(*                                                                         *)
(* A path is the sequence of its segments.  Sandbox ids are random and     *)
(* never come back; a sandbox is its own capability token.  Of create and  *)
(* delete this module has the registry and the slot counter, in the steps  *)
(* in which other threads see them; SandboxPool has their interior.        *)
(***************************************************************************)
EXTENDS Integers, Sequences, FiniteSets, FiniteSetsExt

CONSTANTS
    Conn,       \* connections the clients open at a time
    Sandbox,    \* bound: ids of the sandboxes that are created
    Config,     \* environment, flags and kernel the server may find
    Request,    \* requests the clients may send
    None

\* Ids are random: none of them is a word that stands for something else.
ASSUME NamesAssumption ==
    /\ IsFiniteSet(Conn)
    /\ None \notin Sandbox /\ {"host", "wrong", "root", "pool"} \cap (Sandbox \cup {None}) = {}

ASSUME RequestsAssumption ==
    /\ \A r \in Request : /\ r.cred \in Sandbox \cup {"host", "wrong", None}
                          /\ r.segs \in Seq(Range(r.segs)) /\ r.count \in Nat
    /\ \A f \in Config : f.capacity \in Nat /\ f.maxConns \in Nat /\ f.abi \in Int /\ f.minAbi \in Int

VARIABLES
    phase,     \* "boot", "serving" or "exited"
    conf,      \* what the server was started with
    live,      \* LIVE_CONNECTIONS
    reg,       \* the registered sandboxes, with the ruleset of each
    used,      \* ids handed out
    reserved,  \* SandboxRegistry.reserved
    conn,      \* the connections
    commands,  \* what each command started in a sandbox runs under
    brim       \* history: the host was full, and if it no longer is, then a create that
               \* was turned away has been taking back its count ever since

vars == <<phase, conf, live, reg, used, reserved, conn, commands, brim>>
slotVars == <<reg, used, reserved, brim>>

Closed == [pc |-> "closed", req |-> None, as |-> None, answer |-> 0,
           count |-> 0, created |-> 0, rejected |-> 0, todo |-> {}]

Init ==
    /\ phase = "boot" /\ conf \in Config
    /\ live = 0 /\ reg = <<>> /\ used = {} /\ reserved = 0 /\ commands = {} /\ brim = FALSE
    /\ conn = [c \in Conn |-> Closed]

-----------------------------------------------------------------------------
(* landlock.rs *)

Since == [refer |-> 2, truncate |-> 3, no_tcp_bind |-> 4, ioctl_dev |-> 5, scoped_abstract_unix |-> 6]

\* What /health and the start-up log promise for the kernel's ABI.
Features(abi) ==
    {f \in DOMAIN Since : abi >= Since[f]} \cup (IF abi >= 1 THEN {"fs"} ELSE {})

\* "make" stands for the rights to create and remove entries.
FS_BASE == {"execute", "write_file", "read_file", "read_dir", "make"}

HandledFs(abi) ==
    FS_BASE \cup (IF abi >= 2 THEN {"refer"} ELSE {})
            \cup (IF abi >= 3 THEN {"truncate"} ELSE {})
            \cup (IF abi >= 5 THEN {"ioctl_dev"} ELSE {})

SystemDirRules(abi) ==
    [system |-> {"execute", "read_file", "read_dir"} \cap HandledFs(abi),
     proc   |-> {"read_file", "read_dir"} \cap HandledFs(abi),
     node   |-> {"read_file", "write_file", "ioctl_dev"} \cap HandledFs(abi),
     devdir |-> {"read_file", "write_file", "read_dir", "ioctl_dev"} \cap HandledFs(abi)]

\* The kernel takes a rule of handled rights, on a file without those of directories.
Attaches(handled, place, access) ==
    /\ access # {} /\ access \subseteq handled
    /\ place = "node" => access \cap {"read_dir", "make", "refer"} = {}

\* build_ruleset: a system rule that does not attach is only a warning.  The home gets
\* every handled right; without that rule there is no ruleset (CreateIo, Unconfined).
BuildRuleset(abi) ==
    LET handled == HandledFs(abi)
        rules == SystemDirRules(abi)
    IN  [handled |-> handled, net |-> abi >= 4, scoped |-> abi >= 6,
         allowed |-> [q \in DOMAIN rules \cup {"home"} |->
                        CASE q = "home" -> handled
                          [] q # "home" /\ Attaches(handled, q, rules[q]) -> rules[q]
                          [] OTHER -> {}]]

\* The guarantees a process has after restrict_self.
Enforced(rs) ==
    (IF FS_BASE \subseteq rs.handled THEN {"fs"} ELSE {}) \cup (rs.handled \cap DOMAIN Since)
    \cup (IF rs.net THEN {"no_tcp_bind"} ELSE {})
    \cup (IF rs.scoped THEN {"scoped_abstract_unix"} ELSE {})

-----------------------------------------------------------------------------
(* Start-up and connections *)

Required == conf.token

\* The settings main exits with before it serves.
Refuses(f) ==
    \/ ~f.numbersParse \/ ~(f.token \/ f.allowNoAuth)
    \/ f.capacity = 0 \/ f.maxConns = 0
    \/ f.host /\ f.abi < f.minAbi /\ ~f.allowUnconfined

\* It also exits if the port is taken.
Boot ==
    /\ phase = "boot"
    /\ phase' \in IF Refuses(conf) THEN {"exited"} ELSE {"serving", "exited"}
    /\ UNCHANGED <<conf, live, conn, commands, slotVars>>

Set(c, r) == conn' = [conn EXCEPT ![c] = r]
At(c, pc) == conn[c].pc = pc
Answer(c, status) == Set(c, [conn[c] EXCEPT !.pc = "answered", !.answer = status])

\* ConnectionSlot::acquire; one thread accepts, so its fetch_add and undo are not seen.
SlotFree == live < conf.maxConns

\* The accept loop: a slot and a thread, or a 503 without one.
Accept(c) ==
    /\ phase = "serving" /\ At(c, "closed")
    /\ IF SlotFree
       THEN live' = live + 1 /\ Set(c, [Closed EXCEPT !.pc = "head"])
       ELSE UNCHANGED live /\ Set(c, [Closed EXCEPT !.pc = "refused", !.answer = 503])
    /\ UNCHANGED <<phase, conf, commands, slotVars>>

\* The connection ends, between requests or with an answer; its slot is dropped.
Close(c) ==
    /\ conn[c].pc \in {"head", "answered", "refused"}
    /\ live' = IF At(c, "refused") THEN live ELSE live - 1
    /\ Set(c, Closed)
    /\ UNCHANGED <<phase, conf, commands, slotVars>>

Send(c, r) ==
    /\ conn[c].pc \in {"head", "answered"}
    /\ Set(c, [Closed EXCEPT !.pc = "route", !.req = r])
    /\ UNCHANGED <<phase, conf, live, commands, slotVars>>

-----------------------------------------------------------------------------
(* Authorisation and routing *)

Accepts(cred) == Required => cred = "host"

IsScoped(s) == Len(s) >= 2 /\ s[1] = "v1" /\ s[2] = "sandboxes"
IsManagement(s) == IsScoped(s) /\ (Len(s) = 2 \/ (Len(s) = 4 /\ s[4] = "token"))

\* Mutant: the host token opens the routes of a sandbox as well.
Authorize_HostToo(cred, s) ==
    IF conf.host /\ IsScoped(s) /\ ~IsManagement(s)
    THEN s[3] \in DOMAIN reg /\ (cred = s[3] \/ cred = "host")
    ELSE Accepts(cred)

\* authorize: a sandbox's own token on its routes, the server's token elsewhere.
Authorize(cred, s) ==
    IF conf.host /\ IsScoped(s) /\ ~IsManagement(s)
    THEN s[3] \in DOMAIN reg /\ cred = s[3]
    ELSE Accepts(cred)

RouteModeAllowed(s) == conf.host <=> IsScoped(s)

\* What follows /v1 in dedicated mode and /v1/sandboxes/<id> in host mode; "pid" is any id.
Operation(m, s) ==
    \/ <<m, s>> \in {<<"POST", <<"exec">>>>, <<"POST", <<"processes">>>>, <<"GET", <<"processes">>>>,
                     <<"DELETE", <<"processes", "pid">>>>, <<"GET", <<"files", "read">>>>,
                     <<"PUT", <<"files", "write">>>>, <<"GET", <<"files", "list">>>>,
                     <<"GET", <<"files", "stat">>>>, <<"DELETE", <<"files", "delete">>>>,
                     <<"POST", <<"files", "mkdir">>>>}
    \/ Len(s) >= 1 /\ s[1] = "proxy"
Rest(s, n) == SubSeq(s, n + 1, Len(s))
\* The two that do not look the sandbox up.
ByIdOnly(m, s) == m \in {"GET", "DELETE"} /\ s[1] = "processes"

\* The path as it was sent, without the slashes that the segments lose.
IsHealth(r) == r.method = "GET" /\ r.segs = <<"health">> /\ ~r.slashes

\* /health: liveness for anyone, the rest for the server's credential.
Health(c) ==
    /\ At(c, "route") /\ IsHealth(conn[c].req)
    /\ Answer(c, 200)
    /\ UNCHANGED <<phase, conf, live, commands, slotVars>>

\* Mutant: whether there is such a route is decided before who asks.
Admit_GateFirst(c) ==
    /\ At(c, "route") /\ ~IsHealth(conn[c].req)
    /\ LET r == conn[c].req IN
       IF ~RouteModeAllowed(r.segs) THEN Answer(c, 404)
       ELSE IF ~Authorize(r.cred, r.segs) THEN Answer(c, 403)
       ELSE IF r.chunked THEN Answer(c, 411)
       ELSE Set(c, [conn[c] EXCEPT !.pc = "dispatch"])
    /\ UNCHANGED <<phase, conf, live, commands, slotVars>>

\* route up to its match: 403 first, then 411, then the mode's surface.
Admit(c) ==
    /\ At(c, "route") /\ ~IsHealth(conn[c].req)
    /\ LET r == conn[c].req IN
       IF ~Authorize(r.cred, r.segs) THEN Answer(c, 403)
       ELSE IF r.chunked THEN Answer(c, 411)
       ELSE IF ~RouteModeAllowed(r.segs) THEN Answer(c, 404)
       ELSE Set(c, [conn[c] EXCEPT !.pc = "dispatch"])
    /\ UNCHANGED <<phase, conf, live, commands, slotVars>>

Serve(c, as) == Set(c, [conn[c] EXCEPT !.pc = "serve", !.as = as])

\* The match of route.  The sandbox is looked up again; it may be gone by now.
Dispatch(c) ==
    /\ At(c, "dispatch")
    /\ LET m == conn[c].req.method
           s == conn[c].req.segs
       IN  CASE s[1] = "v1" /\ Operation(m, Rest(s, 1)) -> Serve(c, "root")
             [] IsScoped(s) /\ Len(s) = 2 /\ m \in {"POST", "GET", "DELETE"} -> Serve(c, "pool")
             [] IsManagement(s) /\ Len(s) = 4 /\ m = "GET" ->
                    IF s[3] \in DOMAIN reg THEN Serve(c, "pool") ELSE Answer(c, 404)
             [] IsScoped(s) /\ Len(s) = 3 /\ m = "DELETE" -> Serve(c, s[3])
             [] IsScoped(s) /\ Len(s) > 3 /\ Operation(m, Rest(s, 3)) ->
                    IF s[3] \in DOMAIN reg \/ ByIdOnly(m, Rest(s, 3)) THEN Serve(c, s[3]) ELSE Answer(c, 404)
             [] OTHER -> Answer(c, 404)
    /\ UNCHANGED <<phase, conf, live, commands, slotVars>>

-----------------------------------------------------------------------------
(* Handlers *)

IsCreate(c) == At(c, "serve") /\ conn[c].as = "pool" /\ conn[c].req.method = "POST"
IsDelete(c) == At(c, "serve") /\ conn[c].req.method = "DELETE" /\ IsScoped(conn[c].req.segs)
IsDeleteAll(c) == IsDelete(c) /\ conn[c].as = "pool"
IsDeleteOne(c) == IsDelete(c) /\ Len(conn[c].req.segs) = 3
\* A command: foreground or in the background, of a sandbox or of the job.
IsExec(c) == At(c, "serve") /\ conn[c].req.method = "POST" /\ conn[c].as # "pool"
             /\ conn[c].req.segs[Len(conn[c].req.segs)] \in {"exec", "processes"}

MaxBatch == 4096
\* remaining_capacity
Remaining == Min({Max({conf.capacity - reserved, 0}), MaxBatch})

\* handle_create up to its loop; a count that is absent or zero means one, and values
\* out of range are a 400.
CreateBegin(c) ==
    /\ IsCreate(c)
    /\ \/ Set(c, [conn[c] EXCEPT !.pc = "create", !.count = Min({Max({conn[c].req.count, 1}), Remaining})])
       \/ Answer(c, 400)
    /\ UNCHANGED <<phase, conf, live, commands, slotVars>>

AtAny(P) == {c \in Conn : conn[c].pc \in P}
\* Slots in use: registered, for a sandbox in the making, or of one being deleted.
Held == Cardinality(DOMAIN reg) + Cardinality(AtAny({"make", "free"}))
Track == brim' = (Held' >= conf.capacity \/ (brim /\ AtAny({"undo"})' # {}))

MoreToCreate(c) == At(c, "create") /\ conn[c].created < conn[c].count
Unconfined == [handled |-> {}, net |-> FALSE, scoped |-> FALSE, allowed |-> <<>>]

\* create counts itself in first, and is turned away if the host was full without it.
CreateReserve(c) ==
    /\ MoreToCreate(c)
    /\ reserved' = reserved + 1
    /\ Set(c, [conn[c] EXCEPT !.pc = IF reserved >= conf.capacity THEN "undo" ELSE "make"])
    /\ UNCHANGED <<phase, conf, live, reg, used, commands>> /\ Track

\* create returns Ok: with a ruleset, or without one where the operator accepted that.
CreateOk(c) ==
    /\ At(c, "make")
    /\ \E i \in Sandbox \ used :
        /\ i = CHOOSE x \in Sandbox \ used : TRUE
        /\ \E rs \in (IF conf.abi >= 1 THEN {BuildRuleset(conf.abi)} ELSE {})
                      \cup (IF conf.allowUnconfined THEN {Unconfined} ELSE {}) :
            reg' = [x \in DOMAIN reg \cup {i} |-> IF x = i THEN rs ELSE reg[x]]
        /\ used' = used \cup {i}
    /\ Set(c, [conn[c] EXCEPT !.pc = "create", !.created = @ + 1])
    /\ UNCHANGED <<phase, conf, live, reserved, commands>> /\ Track

\* Mutant: a create that is turned away stays counted in.
CreateFull_Kept(c) ==
    /\ conn[c].pc \in {"undo", "make"}
    /\ reserved' = IF At(c, "undo") THEN reserved ELSE reserved - 1
    /\ Set(c, [conn[c] EXCEPT !.pc = "answered", !.answer = 200,
                              !.rejected = conn[c].count - conn[c].created])
    /\ UNCHANGED <<phase, conf, live, reg, used, commands>> /\ Track

\* create returns Full, for lack of a slot or, with one, of a uid; the batch ends.
CreateFull(c) ==
    /\ conn[c].pc \in {"undo", "make"}
    /\ reserved' = reserved - 1
    /\ Set(c, [conn[c] EXCEPT !.pc = "answered", !.answer = 200,
                              !.rejected = conn[c].count - conn[c].created])
    /\ UNCHANGED <<phase, conf, live, reg, used, commands>> /\ Track

\* create returns Io: a 500 that lists none of the sandboxes already made.
CreateIo(c) ==
    /\ At(c, "make") /\ Answer(c, 500)
    /\ reserved' = reserved - 1
    /\ UNCHANGED <<phase, conf, live, reg, used, commands>> /\ Track

CreateDone(c) ==
    /\ At(c, "create") /\ conn[c].created = conn[c].count
    /\ Answer(c, 200)
    /\ UNCHANGED <<phase, conf, live, commands, slotVars>>

Without(i) == [x \in DOMAIN reg \ {i} |-> reg[x]]

\* delete takes the sandbox out of the registry; gone already is a 404.
DeleteOne(c) ==
    /\ IsDeleteOne(c)
    /\ IF conn[c].as \in DOMAIN reg
       THEN reg' = Without(conn[c].as) /\ Set(c, [conn[c] EXCEPT !.pc = "free"])
       ELSE UNCHANGED reg /\ Answer(c, 404)
    /\ UNCHANGED <<phase, conf, live, used, reserved, commands>> /\ Track

\* handle_delete_all: the ids are read once, then deleted one by one.
DeleteAllBegin(c) ==
    /\ IsDeleteAll(c)
    /\ Set(c, [conn[c] EXCEPT !.pc = "deleteall", !.todo = DOMAIN reg])
    /\ UNCHANGED <<phase, conf, live, commands, slotVars>>

DeleteAllStep(c) ==
    /\ At(c, "deleteall")
    /\ \E i \in conn[c].todo :
        /\ reg' = Without(i)
        /\ Set(c, [conn[c] EXCEPT !.todo = @ \ {i}, !.pc = IF i \in DOMAIN reg THEN "free" ELSE "deleteall"])
    /\ UNCHANGED <<phase, conf, live, used, reserved, commands>> /\ Track

\* delete gives the slot back, before the teardown of which SandboxPool has the steps.
DeleteFree(c) ==
    /\ At(c, "free")
    /\ reserved' = reserved - 1
    /\ Set(c, [conn[c] EXCEPT !.pc = IF conn[c].as = "pool" THEN "deleteall" ELSE "teardown"])
    /\ UNCHANGED <<phase, conf, live, reg, used, commands>> /\ Track

\* handle_delete and handle_delete_all; 500 when a teardown was incomplete.
DeleteEnd(c) ==
    /\ At(c, "teardown") \/ (At(c, "deleteall") /\ conn[c].todo = {})
    /\ \E status \in {200, 500} : Answer(c, status)
    /\ UNCHANGED <<phase, conf, live, commands, slotVars>>

\* Mutant: a child whose restrict_self failed runs all the same.
PreExec_Ignores(rs) == {Enforced(rs), {}}

\* pre_exec_isolation: the guarantees of the command that runs; without a ruleset there
\* is nothing to enforce, and a child that cannot be restricted does not run.
PreExec(rs) == {Enforced(rs)}

\* The child is started (it is refused if the sandbox is being deleted), or is not.
Exec(c) ==
    /\ IsExec(c)
    /\ \/ conn[c].as \in DOMAIN reg /\ \E g \in PreExec(reg[conn[c].as]) :
            commands' = commands \cup {[by |-> g, may |-> reg[conn[c].as].allowed]}
       \/ UNCHANGED commands
    /\ \E status \in {200, 400} : Answer(c, status)
    /\ UNCHANGED <<phase, conf, live, slotVars>>

\* The other handlers change nothing that is modelled here; their answers are not told apart.
Other(c) ==
    /\ At(c, "serve") /\ ~IsCreate(c) /\ ~IsDeleteOne(c) /\ ~IsDeleteAll(c) /\ ~IsExec(c)
    /\ Answer(c, 200)
    /\ UNCHANGED <<phase, conf, live, commands, slotVars>>

Next ==
    \/ Boot
    \/ \E c \in Conn :
        \/ Accept(c) \/ Close(c) \/ Health(c) \/ Admit(c) \/ Dispatch(c)
        \/ \E r \in Request : Send(c, r)
        \/ CreateBegin(c) \/ CreateReserve(c) \/ CreateOk(c) \/ CreateFull(c) \/ CreateIo(c)
        \/ CreateDone(c) \/ DeleteOne(c) \/ DeleteAllBegin(c) \/ DeleteAllStep(c)
        \/ DeleteFree(c) \/ DeleteEnd(c) \/ Exec(c) \/ Other(c)

Spec == Init /\ [][Next]_vars

-----------------------------------------------------------------------------
(* Properties *)

Handling == {"serve", "create", "make", "undo", "deleteall", "free", "teardown"}

\* What a handler acts on is what the credential covers: no handler runs with the
\* server's own privileges on a host, whatever token is shown; the pool is managed with
\* the server's token only, and a sandbox is addressed with its own token only.
ServedAuthorised ==
    \A c \in Conn : conn[c].pc \in Handling =>
        LET cred == conn[c].req.cred IN
        IF conn[c].as \in {"root", "pool"}
        THEN (conn[c].as = "pool" <=> conf.host) /\ Accepts(cred)
        ELSE conf.host /\ cred = conn[c].as

\* route: "Authentication first, so an unauthenticated caller learns nothing about which
\* routes this server serves": every path, method, id and framing gets the same answer.
UnauthLearnsNothing ==
    \A c \in Conn :
        (Required /\ At(c, "answered") /\ conn[c].req.cred \in {"wrong", None}
         /\ ~IsHealth(conn[c].req)) => conn[c].answer = 403

\* A command in a sandbox runs under exactly the guarantees /health advertises, at least
\* those of the required ABI, can use the device nodes, and makes and removes entries in
\* its home only; anything less takes the operator's --allow-unconfined.
RunsConfined ==
    \A cmd \in commands :
        \/ conf.allowUnconfined /\ cmd.by = {}
        \/ /\ cmd.by = Features(conf.abi)
           /\ conf.allowUnconfined \/ Features(conf.minAbi) \subseteq cmd.by
           /\ cmd.may["node"] # {}
           /\ \A q \in DOMAIN cmd.may : "make" \in cmd.may[q] <=> q = "home"

\* A create is turned away for lack of a slot only from a host that was really full,
\* although batches begin with a capacity read earlier, every one counts itself in before
\* it looks, and deletes run meanwhile: full at that moment, or full when the first of
\* the creates began that have been turned away and taking back their counts since.
TurnedAwayFromFull == \A c \in Conn : At(c, "undo") => brim

\* handle_create: "Asking for more than fits is not an error -- the response already
\* reports how many were rejected so the client packs the rest elsewhere."
AnswerAccountsForRequest ==
    \A c \in Conn : (At(c, "answered") /\ conn[c].as = "pool" /\ conn[c].req.method = "POST"
                     /\ conn[c].answer = 200)
        => conn[c].created + conn[c].rejected = Max({conn[c].req.count, 1})

=============================================================================
