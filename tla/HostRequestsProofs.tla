-------------------------- MODULE HostRequestsProofs --------------------------
(* Theorems about HostRequests: who is served what, what a command runs under *)
(* and when a create is turned away, for every set of connections, sandboxes, *)
(* requests and configurations.                                               *)
EXTENDS HostRequests, FiniteSetTheorems, TLAPS

\* A connection has a request.
Busy == {"route", "dispatch", "answered"} \cup Handling

Connection ==
    [pc : {"closed", "refused", "head"} \cup Busy,
     req : Request \cup {None}, as : Sandbox \cup {"root", "pool", None},
     answer : Nat, count : Int, created : Int, rejected : Int, todo : SUBSET Sandbox]

\* The rulesets a sandbox may have been given.
Rulesets ==
    (IF conf.abi >= 1 THEN {BuildRuleset(conf.abi)} ELSE {})
    \cup (IF conf.allowUnconfined THEN {Unconfined} ELSE {})

\* The registry holds sandboxes, each with such a ruleset.
RegistryOK ==
    /\ DOMAIN reg \subseteq Sandbox /\ IsFiniteSet(DOMAIN reg) /\ DOMAIN reg \subseteq used
    /\ reserved \in Int
    /\ \A i \in DOMAIN reg : reg[i] \in Rulesets

\* Type correctness.
RequestsTypeOK ==
    /\ phase \in {"boot", "serving", "exited"} /\ conf \in Config
    /\ RegistryOK
    /\ conn \in [Conn -> Connection]
    /\ \A c \in Conn : conn[c].pc \in Busy
                         => conn[c].req \in Request

\* Nothing is accepted before main agreed to serve with its settings.
ServesOnlyAccepted ==
    /\ phase = "serving" => ~Refuses(conf)
    /\ phase # "serving" => commands = {} /\ \A c \in Conn : conn[c] = Closed

\* A request is past authorisation: what its path needs, its credential is.
Admitted(r) ==
    /\ conf.host <=> IsScoped(r.segs)
    /\ IF conf.host /\ ~IsManagement(r.segs)
       THEN r.segs[3] \in Sandbox /\ r.cred = r.segs[3]
       ELSE Accepts(r.cred)

\* A handler acts on what the credential covers, as in ServedAuthorised.
Covered(r) ==
    IF r.as \in {"root", "pool"}
    THEN (r.as = "pool" <=> conf.host) /\ Accepts(r.req.cred)
    ELSE conf.host /\ r.req.cred = r.as

\* What is known of one connection.
ConnectionOK(r) ==
    /\ r.pc = "dispatch" => Admitted(r.req)
    /\ r.pc \in Handling => Covered(r)
    /\ Required /\ r.pc \in {"dispatch"} \cup Handling =>
         r.req.cred \notin {"wrong", None}
    /\ Required /\ r.pc = "answered" /\ r.req.cred \in {"wrong", None}
         /\ ~IsHealth(r.req) => r.answer = 403

\* The inductive invariant.
RequestsInv ==
    /\ RequestsTypeOK /\ ServesOnlyAccepted /\ RunsConfined
    /\ \A c \in Conn : ConnectionOK(conn[c])

-----------------------------------------------------------------------------
(* landlock.rs *)

\* A process under the ruleset built for an ABI has what that ABI advertises,
\* and can use the device nodes.
LEMMA RulesetEnforces ==
    ASSUME NEW abi \in Int, abi >= 1
    PROVE  /\ Enforced(BuildRuleset(abi)) = Features(abi)
           /\ BuildRuleset(abi).allowed["node"] # {}
           /\ \A q \in DOMAIN BuildRuleset(abi).allowed :
                "make" \in BuildRuleset(abi).allowed[q] <=> q = "home"
<1> DEFINE rs == BuildRuleset(abi)
           rules == SystemDirRules(abi)
<1>1. /\ rs.handled = HandledFs(abi) /\ rs.net = (abi >= 4) /\ rs.scoped = (abi >= 6)
      /\ rs.allowed = [q \in DOMAIN rules \cup {"home"} |->
                         CASE q = "home" -> HandledFs(abi)
                           [] q # "home" /\ Attaches(HandledFs(abi), q, rules[q]) -> rules[q]
                           [] OTHER -> {}]
  BY DEF BuildRuleset
<1>2. DOMAIN Since = {"refer", "truncate", "no_tcp_bind", "ioctl_dev", "scoped_abstract_unix"}
  BY DEF Since
<1>3. /\ Since["refer"] = 2 /\ Since["truncate"] = 3 /\ Since["no_tcp_bind"] = 4
      /\ Since["ioctl_dev"] = 5 /\ Since["scoped_abstract_unix"] = 6
  BY DEF Since
<1>4. Enforced(rs) = Features(abi)
  BY ZenonT(60), <1>1, <1>2, <1>3 DEF Enforced, Features, HandledFs, FS_BASE
<1>5. "node" \in DOMAIN rules
      /\ rules["node"] = {"read_file", "write_file", "ioctl_dev"} \cap HandledFs(abi)
  BY DEF SystemDirRules
<1>6. "read_file" \in rules["node"] /\ rules["node"] \subseteq HandledFs(abi)
      /\ rules["node"] \cap {"read_dir", "make", "refer"} = {}
  BY <1>5 DEF HandledFs, FS_BASE
<1>7. Attaches(HandledFs(abi), "node", rules["node"])
  BY <1>6 DEF Attaches
<1>8. rs.allowed["node"] # {}
  BY <1>1, <1>5, <1>6, <1>7
<1>9. \A q \in DOMAIN rules : "make" \notin rules[q]
  BY DEF SystemDirRules
<1>10. "make" \in HandledFs(abi)
  BY DEF HandledFs, FS_BASE
<1>11. \A q \in DOMAIN rs.allowed : "make" \in rs.allowed[q] <=> q = "home"
  <2> HIDE DEF rs, rules
  <2> QED
    BY <1>1, <1>9, <1>10
<1> QED
  BY <1>4, <1>8, <1>11

\* Without a ruleset nothing is enforced.
LEMMA UnconfinedEnforces == Enforced(Unconfined) = {}
BY DEF Enforced, Unconfined, FS_BASE

\* A newer ABI takes no guarantee away.
LEMMA FeaturesGrow ==
    ASSUME NEW a \in Int, NEW b \in Int, a <= b
    PROVE  Features(a) \subseteq Features(b)
<1>1. \A f \in DOMAIN Since : Since[f] \in Int
  BY DEF Since
<1> QED
  BY <1>1 DEF Features

-----------------------------------------------------------------------------
(* Steps of one connection *)

\* Of a step that changes one connection it is enough to look at the record it
\* writes, and at what it does to the registry and the commands.
LEMMA ConnectionStep ==
    ASSUME RequestsInv, NEW c \in Conn, NEW r \in Connection, Set(c, r), ConnectionOK(r),
           phase = "serving",
           r.pc \in Busy
              => r.req \in Request,
           UNCHANGED <<phase, conf>>, RegistryOK', RunsConfined'
    PROVE  RequestsInv'
<1>1. /\ conn' \in [Conn -> Connection] /\ conn'[c] = r
      /\ \A d \in Conn : d # c => conn'[d] = conn[d]
  BY DEF Set, RequestsInv, RequestsTypeOK
<1>2. RequestsTypeOK'
  BY <1>1 DEF RequestsInv, RequestsTypeOK
<1>3. ServesOnlyAccepted'
  BY DEF RequestsInv, ServesOnlyAccepted
<1>4. ASSUME NEW d \in Conn PROVE ConnectionOK(conn[d])'
  <2>1. ConnectionOK(conn'[d])
    BY <1>1 DEF RequestsInv
  <2> QED
    BY <2>1 DEF ConnectionOK, Admitted, Covered, Accepts, Required
<1> QED
  BY <1>2, <1>3, <1>4 DEF RequestsInv

LEMMA ReservedInt == RequestsInv => /\ reserved \in Int /\ reserved + 1 \in Int
                                    /\ reserved - 1 \in Int
BY DEF RequestsInv, RequestsTypeOK, RegistryOK

\* The registry and the commands stay as good as they were if they stay.
LEMMA ServerKept ==
    ASSUME RequestsInv, UNCHANGED conf
    PROVE  (UNCHANGED <<reg, used>> /\ reserved' \in Int => RegistryOK') /\ (UNCHANGED commands => RunsConfined')
BY DEF RequestsInv, RequestsTypeOK, RegistryOK, Rulesets, RunsConfined

\* A connection that is not closed is one of a server that serves.
LEMMA ConnectionFacts ==
    ASSUME RequestsInv, NEW c \in Conn
    PROVE  /\ conn[c] \in Connection /\ ConnectionOK(conn[c]) /\ conf \in Config
           /\ conn[c].pc \notin {"closed"} => phase = "serving"
           /\ conn[c].pc \in Busy
                => conn[c].req \in Request
BY DEF RequestsInv, RequestsTypeOK, ServesOnlyAccepted, Closed

\* A handler answers: with 403 unless the credential is one of this server's.
LEMMA AnswerStep ==
    ASSUME RequestsInv, NEW c \in Conn, NEW status \in Nat, Answer(c, status),
           conn[c].pc \in {"route", "dispatch"} \cup Handling,
           conn[c].pc # "route" \/ IsHealth(conn[c].req) \/ status = 403
              \/ (Required => conn[c].req.cred \notin {"wrong", None}),
           UNCHANGED <<phase, conf>>, RegistryOK', RunsConfined'
    PROVE  RequestsInv'
<1> DEFINE r == [conn[c] EXCEPT !.pc = "answered", !.answer = status]
<1>1. /\ conn[c] \in Connection /\ ConnectionOK(conn[c]) /\ phase = "serving"
      /\ conn[c].req \in Request
  BY ConnectionFacts DEF Busy, Handling
<1>2. /\ r \in Connection /\ r.pc = "answered" /\ r.answer = status /\ r.req = conn[c].req
  BY <1>1 DEF Connection, Busy
<1>3. Set(c, r)
  BY DEF Answer
<1> HIDE DEF r
<1>4. ConnectionOK(r)
  BY <1>1, <1>2 DEF ConnectionOK, Handling
<1> QED
  BY <1>1, <1>2, <1>3, <1>4, ConnectionStep

-----------------------------------------------------------------------------
(* Connections *)

LEMMA ClosedRecord == Closed \in Connection /\ Closed.pc = "closed"
BY DEF Closed, Connection

\* A connection opens, closes or sends its next request: its record starts anew.
LEMMA ClientSteps ==
    ASSUME RequestsInv, NEW c \in Conn,
           Accept(c) \/ Close(c) \/ \E q \in Request : Send(c, q)
    PROVE  RequestsInv'
<1>1. UNCHANGED <<phase, conf, reg, used, commands>> /\ reserved' \in Int
  BY ReservedInt DEF Accept, Close, Send, slotVars
<1>2. phase = "serving"
  BY ConnectionFacts DEF Accept, Close, Send
<1>3. RegistryOK' /\ RunsConfined'
  BY <1>1, ServerKept
<1>4. CASE Close(c)
  <2>1. Closed \in Connection /\ Closed.pc = "closed" /\ ConnectionOK(Closed) /\ Set(c, Closed)
    BY <1>4 DEF Close, Closed, Connection, ConnectionOK, Handling
  <2> QED
    BY <1>1, <1>2, <1>3, <2>1, ConnectionStep DEF Busy, Handling
<1>5. CASE Accept(c)
  <2> DEFINE h == [Closed EXCEPT !.pc = "head"]
             f == [Closed EXCEPT !.pc = "refused", !.answer = 503]
  <2>1. Set(c, h) \/ Set(c, f)
    BY <1>5 DEF Accept
  <2>2. h \in Connection /\ h.pc = "head" /\ ConnectionOK(h)
    BY DEF Closed, Connection, ConnectionOK, Handling
  <2>3. f \in Connection /\ f.pc = "refused" /\ ConnectionOK(f)
    <3>1. f \in Connection /\ f.pc = "refused"
      <4>1. ASSUME NEW n \in Nat
            PROVE  LET x == [Closed EXCEPT !.pc = "refused", !.answer = n]
                   IN  x \in Connection /\ x.pc = "refused"
        BY ClosedRecord DEF Connection
      <4>2. 503 \in Nat
        OBVIOUS
      <4> QED
        BY <4>1, <4>2
    <3> HIDE DEF f
    <3> QED
      BY <3>1 DEF ConnectionOK, Handling
  <2> HIDE DEF h, f
  <2> QED
    BY <1>1, <1>2, <1>3, <2>1, <2>2, <2>3, ConnectionStep DEF Busy, Handling
<1>6. ASSUME NEW q \in Request, Send(c, q) PROVE RequestsInv'
  <2> DEFINE r == [Closed EXCEPT !.pc = "route", !.req = q]
  <2>1. Set(c, r)
    BY <1>6 DEF Send
  <2>2. r \in Connection /\ r.pc = "route" /\ r.req = q
    BY ClosedRecord DEF Connection, Busy
  <2> HIDE DEF r
  <2>3. ConnectionOK(r)
    BY <2>2 DEF ConnectionOK, Handling
  <2> QED
    BY <1>1, <1>2, <1>3, <2>1, <2>2, <2>3, ConnectionStep
<1> QED
  BY <1>4, <1>5, <1>6

-----------------------------------------------------------------------------
(* Authorisation and routing *)

\* The step changes nothing but its connection.
LEMMA QuietServer ==
    ASSUME RequestsInv, UNCHANGED <<phase, conf, reg, used, commands>>, reserved' \in Int
    PROVE  RegistryOK' /\ RunsConfined'
BY ServerKept

\* A credential that authorises is one of this server's.
LEMMA AuthorisedCredential ==
    ASSUME RequestsInv, NEW q \in Request, Authorize(q.cred, q.segs)
    PROVE  Required => q.cred \notin {"wrong", None}
BY NamesAssumption
   DEF Authorize, Accepts, RequestsInv, RequestsTypeOK, RegistryOK

\* /health is answered to anyone; everything else is authorised first, then
\* checked against the mode's surface, and only then dispatched.
LEMMA RouteSteps ==
    ASSUME RequestsInv, NEW c \in Conn, Health(c) \/ Admit(c)
    PROVE  RequestsInv'
<1>1. UNCHANGED <<phase, conf, reg, used, commands>> /\ reserved' \in Int /\ conn[c].pc = "route"
  BY ReservedInt DEF Health, Admit, At, slotVars
<1>2. RegistryOK' /\ RunsConfined'
  BY <1>1, QuietServer
<1>3. /\ conn[c] \in Connection /\ ConnectionOK(conn[c]) /\ phase = "serving"
      /\ conn[c].req \in Request
  BY <1>1, ConnectionFacts DEF Busy, Handling
<1>4. CASE Health(c)
  BY <1>1, <1>2, <1>4, AnswerStep DEF Health
<1>5. CASE Admit(c) /\ ~Authorize(conn[c].req.cred, conn[c].req.segs)
  <2>1. Answer(c, 403)
    BY <1>5 DEF Admit
  <2> QED
    BY <1>1, <1>2, <2>1, AnswerStep
<1>6. CASE Admit(c) /\ Authorize(conn[c].req.cred, conn[c].req.segs)
  <2>1. Required => conn[c].req.cred \notin {"wrong", None}
    BY <1>3, <1>6, AuthorisedCredential
  <2>2. CASE Answer(c, 411) \/ Answer(c, 404)
    BY <1>1, <1>2, <2>1, <2>2, AnswerStep
  <2>3. CASE RouteModeAllowed(conn[c].req.segs) /\ Set(c, [conn[c] EXCEPT !.pc = "dispatch"])
    <3> DEFINE r == [conn[c] EXCEPT !.pc = "dispatch"]
    <3>1. r \in Connection /\ r.pc = "dispatch" /\ r.req = conn[c].req
      BY <1>3 DEF Connection, Busy
    <3>2. Admitted(conn[c].req)
      BY <1>3, <1>6, <2>3
         DEF Admitted, Authorize, RouteModeAllowed, IsManagement, RequestsInv, RequestsTypeOK,
             RegistryOK
    <3> HIDE DEF r
    <3>4. ConnectionOK(r)
      BY <2>1, <3>1, <3>2 DEF ConnectionOK, Handling
    <3> QED
      BY <1>1, <1>2, <1>3, <2>3, <3>1, <3>4, ConnectionStep DEF r
  <2> QED
    BY <1>6, <2>2, <2>3 DEF Admit
<1> QED
  BY <1>4, <1>5, <1>6

\* The paths of the server's own operations are not those of a sandbox.
LEMMA RootIsNotScoped ==
    ASSUME NEW S, NEW s \in Seq(S), NEW m, IsScoped(s)
    PROVE  ~Operation(m, Rest(s, 1))
<1> DEFINE q == Rest(s, 1)
<1>1. Len(s) \in Nat /\ Len(s) >= 2 /\ s[2] = "sandboxes"
  BY DEF IsScoped
<1>2. Len(q) >= 1 /\ q[1] = "sandboxes"
  BY <1>1 DEF Rest
<1> HIDE DEF q
<1> QED
  BY <1>2 DEF Operation, q

\* The management route of a sandbox is none of its operations.
LEMMA TokenIsManagement ==
    ASSUME NEW S, NEW s \in Seq(S), NEW m, IsManagement(s), Len(s) > 3
    PROVE  ~Operation(m, Rest(s, 3))
<1> DEFINE q == Rest(s, 3)
<1>1. Len(s) = 4 /\ s[4] = "token"
  BY DEF IsManagement
<1>2. Len(q) = 1 /\ q[1] = "token"
  BY <1>1 DEF Rest
<1> HIDE DEF q
<1> QED
  BY <1>2 DEF Operation, q

\* What is dispatched as the server, the pool or a sandbox is covered by the
\* credential that was admitted; a sandbox that is gone by now is a 404.
LEMMA DispatchStep ==
    ASSUME RequestsInv, NEW c \in Conn, Dispatch(c)
    PROVE  RequestsInv'
<1> DEFINE m == conn[c].req.method
           s == conn[c].req.segs
<1>1. UNCHANGED <<phase, conf, reg, used, commands>> /\ reserved' \in Int /\ conn[c].pc = "dispatch"
  BY ReservedInt DEF Dispatch, At, slotVars
<1>2. RegistryOK' /\ RunsConfined'
  BY <1>1, QuietServer
<1>3. /\ conn[c] \in Connection /\ ConnectionOK(conn[c]) /\ phase = "serving"
      /\ conn[c].req \in Request /\ Admitted(conn[c].req) /\ s \in Seq(Range(s))
  BY <1>1, ConnectionFacts, RequestsAssumption DEF ConnectionOK, Busy
<1>4. ASSUME NEW as \in Sandbox \cup {"root", "pool"}, Serve(c, as),
             IF as \in {"root", "pool"}
             THEN (as = "pool" <=> conf.host) /\ Accepts(conn[c].req.cred)
             ELSE conf.host /\ conn[c].req.cred = as
      PROVE  RequestsInv'
  <2> DEFINE r == [conn[c] EXCEPT !.pc = "serve", !.as = as]
  <2>1. /\ r \in Connection /\ r.pc = "serve" /\ r.as = as /\ r.req = conn[c].req
    BY <1>3 DEF Connection, Busy, Handling
  <2> HIDE DEF r
  <2>3. ConnectionOK(r)
    BY <1>1, <1>3, <1>4, <2>1 DEF ConnectionOK, Covered, Handling
  <2> QED
    BY <1>1, <1>2, <1>3, <1>4, <2>1, <2>3, ConnectionStep DEF Serve, r
<1>5. CASE Answer(c, 404)
  BY <1>1, <1>2, <1>5, AnswerStep
<1>6. CASE Operation(m, Rest(s, 1)) /\ Serve(c, "root")
  <2>1. ~conf.host /\ Accepts(conn[c].req.cred)
    BY <1>3, <1>6, RootIsNotScoped DEF Admitted
  <2> QED
    BY <1>4, <1>6, <2>1
<1>7. CASE IsManagement(s) /\ Serve(c, "pool")
  <2>1. conf.host /\ Accepts(conn[c].req.cred)
    BY <1>3, <1>7 DEF Admitted, IsManagement
  <2> QED
    BY <1>4, <1>7, <2>1
<1>8. CASE IsScoped(s) /\ ~IsManagement(s) /\ Serve(c, s[3])
  <2>1. conf.host /\ s[3] \in Sandbox /\ conn[c].req.cred = s[3]
    BY <1>3, <1>8 DEF Admitted
  <2>2. s[3] \notin {"root", "pool"}
    BY <2>1, NamesAssumption
  <2> QED
    BY <1>4, <1>8, <2>1, <2>2
<1>9. \/ Answer(c, 404)
      \/ Operation(m, Rest(s, 1)) /\ Serve(c, "root")
      \/ IsManagement(s) /\ Serve(c, "pool")
      \/ IsScoped(s) /\ Len(s) = 3 /\ Serve(c, s[3])
      \/ IsScoped(s) /\ Len(s) > 3 /\ Operation(m, Rest(s, 3)) /\ Serve(c, s[3])
  BY DEF Dispatch, IsManagement
<1>10. ASSUME IsScoped(s), Len(s) = 3 \/ (Len(s) > 3 /\ Operation(m, Rest(s, 3)))
       PROVE  ~IsManagement(s)
  <2>1. CASE Len(s) = 3
    BY <2>1 DEF IsManagement
  <2>2. CASE Len(s) > 3 /\ Operation(m, Rest(s, 3))
    BY <1>3, <2>2, TokenIsManagement
  <2> QED
    BY <1>10, <2>1, <2>2
<1> HIDE DEF m, s
<1> QED
  BY <1>5, <1>6, <1>7, <1>8, <1>9, <1>10

-----------------------------------------------------------------------------
(* Handlers *)

\* A handler goes on or ends: what it acts on stays what the credential covers.
LEMMA HandlerStep ==
    ASSUME RequestsInv, NEW c \in Conn, NEW r \in Connection, Set(c, r),
           conn[c].pc \in Handling, r.pc \in Handling \cup {"answered"},
           r.as = conn[c].as, r.req = conn[c].req,
           UNCHANGED <<phase, conf>>, RegistryOK', RunsConfined'
    PROVE  RequestsInv'
<1>1. /\ conn[c] \in Connection /\ ConnectionOK(conn[c]) /\ phase = "serving"
      /\ conn[c].req \in Request
  BY ConnectionFacts DEF Busy, Handling
<1>2. ConnectionOK(r)
  BY <1>1 DEF ConnectionOK, Covered, Handling
<1> QED
  BY <1>1, <1>2, ConnectionStep

\* The larger and the smaller of two numbers.
LEMMA OfTwo ==
    ASSUME NEW a \in Int, NEW b \in Int
    PROVE  Max({a, b}) \in Int /\ Min({a, b}) \in Int
<1>1. \E x \in {a, b} : \A y \in {a, b} : x >= y
  BY DEF Max
<1>2. \E x \in {a, b} : \A y \in {a, b} : x <= y
  BY DEF Min
<1>3. Max({a, b}) \in {a, b}
  BY <1>1 DEF Max
<1>4. Min({a, b}) \in {a, b}
  BY <1>2 DEF Min
<1> QED
  BY <1>3, <1>4

\* A batch begins, cut to some number of slots, or is refused.
LEMMA CreateBeginStep ==
    ASSUME RequestsInv, NEW c \in Conn, CreateBegin(c)
    PROVE  RequestsInv'
<1>1. UNCHANGED <<phase, conf, reg, used, commands>> /\ reserved' \in Int /\ conn[c].pc = "serve"
  BY ReservedInt DEF CreateBegin, IsCreate, At, slotVars
<1>2. RegistryOK' /\ RunsConfined'
  BY <1>1, QuietServer
<1>3. conn[c] \in Connection /\ conn[c].req \in Request /\ conf \in Config
  BY <1>1, ConnectionFacts DEF Busy, Handling
<1>4. CASE Answer(c, 400)
  BY <1>1, <1>2, <1>4, AnswerStep DEF Handling
<1>5. ASSUME NEW n \in Int, Set(c, [conn[c] EXCEPT !.pc = "create", !.count = n])
      PROVE  RequestsInv'
  <2> DEFINE r == [conn[c] EXCEPT !.pc = "create", !.count = n]
  <2>1. r \in Connection /\ r.pc = "create" /\ r.as = conn[c].as /\ r.req = conn[c].req
    BY <1>3 DEF Connection, Busy, Handling
  <2>2. Set(c, r)
    BY <1>5
  <2> HIDE DEF r
  <2> QED
    BY <1>1, <1>2, <2>1, <2>2, HandlerStep DEF Handling
<1>6. Min({Max({conn[c].req.count, 1}), Remaining}) \in Int
  <2>1. conf.capacity - reserved \in Int
    BY <1>3, RequestsAssumption DEF RequestsInv, RequestsTypeOK, RegistryOK
  <2>2. Remaining \in Int
    <3>1. Max({conf.capacity - reserved, 0}) \in Int
      BY <2>1, OfTwo
    <3>2. MaxBatch \in Int
      BY DEF MaxBatch
    <3> QED
      BY <3>1, <3>2, OfTwo DEF Remaining
  <2>3. Max({conn[c].req.count, 1}) \in Int
    <3>1. conn[c].req.count \in Nat
      BY <1>3, RequestsAssumption
    <3>2. conn[c].req.count \in Int /\ 1 \in Int
      BY <3>1
    <3> QED
      BY ONLY <3>2, OfTwo
  <2> QED
    BY <2>2, <2>3, OfTwo
<1> QED
  BY <1>4, <1>5, <1>6 DEF CreateBegin

\* create counts itself in, and goes on or turns back.
LEMMA CreateReserveStep ==
    ASSUME RequestsInv, NEW c \in Conn, CreateReserve(c)
    PROVE  RequestsInv'
<1>1. UNCHANGED <<phase, conf, reg, used, commands>> /\ reserved' \in Int /\ conn[c].pc = "create"
  BY ReservedInt DEF CreateReserve, MoreToCreate, At
<1>2. RegistryOK' /\ RunsConfined'
  BY <1>1, QuietServer
<1>3. conn[c] \in Connection
  BY ConnectionFacts
<1>4. PICK pc \in {"undo", "make"} : Set(c, [conn[c] EXCEPT !.pc = pc])
  BY DEF CreateReserve
<1> DEFINE r == [conn[c] EXCEPT !.pc = pc]
<1>5. r \in Connection /\ r.pc = pc /\ r.as = conn[c].as /\ r.req = conn[c].req
  BY <1>3 DEF Connection, Busy, Handling
<1>6. Set(c, r)
  BY <1>4
<1> HIDE DEF r
<1> QED
  BY <1>1, <1>2, <1>5, <1>6, HandlerStep DEF Handling

\* create returns Ok: the new sandbox has a ruleset the configuration allows.
LEMMA CreateOkStep ==
    ASSUME RequestsInv, NEW c \in Conn, CreateOk(c)
    PROVE  RequestsInv'
<1>1. /\ UNCHANGED <<phase, conf, commands>> /\ conn[c].pc = "make"
      /\ Set(c, [conn[c] EXCEPT !.pc = "create", !.created = @ + 1])
  BY DEF CreateOk, At
<1>2. PICK i \in Sandbox, rs \in Rulesets :
        /\ reg' = [x \in DOMAIN reg \cup {i} |-> IF x = i THEN rs ELSE reg[x]]
        /\ used' = used \cup {i} /\ reserved' \in Int
  BY ReservedInt DEF CreateOk, Rulesets
<1>3. RegistryOK'
  <2>1. DOMAIN reg \subseteq Sandbox /\ IsFiniteSet(DOMAIN reg) /\ DOMAIN reg \subseteq used
        /\ \A x \in DOMAIN reg : reg[x] \in Rulesets
    BY DEF RequestsInv, RequestsTypeOK, RegistryOK
  <2>2. IsFiniteSet(DOMAIN reg \cup {i})
    BY <2>1, FS_AddElement
  <2>3. DOMAIN reg' = DOMAIN reg \cup {i} /\ \A x \in DOMAIN reg' : reg'[x] \in Rulesets
    BY <1>2, <2>1
  <2>4. Rulesets' = Rulesets
    BY <1>1 DEF Rulesets
  <2> QED
    BY <1>2, <2>1, <2>2, <2>3, <2>4 DEF RegistryOK
<1>4. RunsConfined'
  BY <1>1, ServerKept
<1>5. conn[c] \in Connection
  BY ConnectionFacts
<1> DEFINE r == [conn[c] EXCEPT !.pc = "create", !.created = @ + 1]
<1>6. r \in Connection /\ r.pc = "create" /\ r.as = conn[c].as /\ r.req = conn[c].req
  <2>1. conn[c].created + 1 \in Int
    BY <1>5 DEF Connection
  <2> QED
    BY <1>5, <2>1 DEF Connection, Busy, Handling
<1>7. Set(c, r)
  BY <1>1
<1> HIDE DEF r
<1> QED
  BY <1>1, <1>3, <1>4, <1>6, <1>7, HandlerStep DEF Handling

\* A batch ends: complete, cut short with the rest counted, or with a 500.
LEMMA CreateEndSteps ==
    ASSUME RequestsInv, NEW c \in Conn, CreateFull(c) \/ CreateIo(c) \/ CreateDone(c)
    PROVE  RequestsInv'
<1>1. UNCHANGED <<phase, conf, reg, used, commands>> /\ reserved' \in Int
      /\ conn[c].pc \in {"create", "undo", "make"}
  BY ReservedInt DEF CreateFull, CreateIo, CreateDone, At, slotVars
<1>2. RegistryOK' /\ RunsConfined'
  BY <1>1, QuietServer
<1>3. conn[c] \in Connection
  BY ConnectionFacts
<1>4. CASE CreateIo(c) \/ CreateDone(c)
  BY <1>1, <1>2, <1>4, AnswerStep DEF CreateIo, CreateDone, Handling
<1>5. CASE CreateFull(c)
  <2> DEFINE n == conn[c].count - conn[c].created
             r == [conn[c] EXCEPT !.pc = "answered", !.answer = 200, !.rejected = n]
  <2>1. n \in Int
    BY <1>3 DEF Connection
  <2>2. Set(c, r)
    BY <1>5 DEF CreateFull
  <2> HIDE DEF n
  <2>3. r \in Connection /\ r.pc = "answered" /\ r.as = conn[c].as /\ r.req = conn[c].req
    BY ZenonT(60), <1>3, <2>1 DEF Connection, Busy
  <2> HIDE DEF r
  <2> QED
    BY <1>1, <1>2, <2>2, <2>3, HandlerStep DEF Handling
<1> QED
  BY <1>4, <1>5

\* Taking a sandbox out leaves the others as they are.
LEMMA WithoutOne ==
    ASSUME RequestsInv, NEW i, reg' = Without(i), UNCHANGED <<conf, used>>, reserved' \in Int
    PROVE  RegistryOK'
<1>1. DOMAIN reg \subseteq Sandbox /\ IsFiniteSet(DOMAIN reg) /\ DOMAIN reg \subseteq used
      /\ \A x \in DOMAIN reg : reg[x] \in Rulesets
  BY DEF RequestsInv, RequestsTypeOK, RegistryOK
<1>2. IsFiniteSet(DOMAIN reg \ {i})
  BY <1>1, FS_Subset
<1>3. DOMAIN reg' = DOMAIN reg \ {i} /\ \A x \in DOMAIN reg' : reg'[x] \in Rulesets
  BY <1>1 DEF Without
<1>4. Rulesets' = Rulesets
  BY DEF Rulesets
<1> QED
  BY <1>1, <1>2, <1>3, <1>4 DEF RegistryOK

LEMMA DeleteSteps ==
    ASSUME RequestsInv, NEW c \in Conn,
           \/ DeleteOne(c) \/ DeleteAllBegin(c) \/ DeleteAllStep(c)
           \/ DeleteFree(c) \/ DeleteEnd(c)
    PROVE  RequestsInv'
<1>1. /\ UNCHANGED <<phase, conf, used, commands>> /\ reserved' \in Int
      /\ conn[c].pc \in {"serve", "deleteall", "free", "teardown"}
  BY ReservedInt
     DEF DeleteOne, DeleteAllBegin, DeleteAllStep, DeleteFree, DeleteEnd, IsDeleteOne,
         IsDeleteAll, IsDelete, At, slotVars
<1>2. RunsConfined' /\ (UNCHANGED reg => RegistryOK')
  BY <1>1, ServerKept
<1>3. conn[c] \in Connection
  BY ConnectionFacts
<1>4. ASSUME NEW status \in {200, 404, 500}, Answer(c, status), RegistryOK'
      PROVE  RequestsInv'
  BY <1>1, <1>2, <1>4, AnswerStep DEF Handling
<1>5. ASSUME NEW T \in SUBSET Sandbox, NEW pc \in {"deleteall", "free", "teardown"},
             Set(c, [conn[c] EXCEPT !.pc = pc, !.todo = T]), RegistryOK'
      PROVE  RequestsInv'
  <2> DEFINE r == [conn[c] EXCEPT !.pc = pc, !.todo = T]
  <2>1. r \in Connection /\ r.pc = pc /\ r.as = conn[c].as /\ r.req = conn[c].req
    BY <1>3 DEF Connection, Busy, Handling
  <2>2. Set(c, r)
    BY <1>5
  <2> HIDE DEF r
  <2> QED
    BY <1>1, <1>2, <1>5, <2>1, <2>2, HandlerStep DEF Handling
<1>6. ASSUME NEW pc \in {"deleteall", "free", "teardown"},
             Set(c, [conn[c] EXCEPT !.pc = pc]), RegistryOK'
      PROVE  RequestsInv'
  <2>1. conn[c].todo \in SUBSET Sandbox
        /\ [conn[c] EXCEPT !.pc = pc] = [conn[c] EXCEPT !.pc = pc, !.todo = conn[c].todo]
    BY <1>3 DEF Connection
  <2> QED
    BY <1>5, <1>6, <2>1
<1>7. CASE DeleteOne(c)
  BY <1>1, <1>2, <1>4, <1>6, <1>7, WithoutOne DEF DeleteOne
<1>8. CASE DeleteAllBegin(c)
  <2>1. DOMAIN reg \in SUBSET Sandbox /\ UNCHANGED reg
    BY <1>8 DEF DeleteAllBegin, RequestsInv, RequestsTypeOK, RegistryOK, slotVars
  <2> QED
    BY <1>2, <1>5, <1>8, <2>1 DEF DeleteAllBegin
<1>9. CASE DeleteAllStep(c)
  <2>1. PICK i \in conn[c].todo, pc \in {"deleteall", "free"} :
          /\ reg' = Without(i)
          /\ Set(c, [conn[c] EXCEPT !.todo = @ \ {i}, !.pc = pc])
    BY <1>9 DEF DeleteAllStep
  <2>2. conn[c].todo \ {i} \in SUBSET Sandbox
    BY <1>3 DEF Connection
  <2>3. [conn[c] EXCEPT !.todo = @ \ {i}, !.pc = pc]
          = [conn[c] EXCEPT !.pc = pc, !.todo = conn[c].todo \ {i}]
    BY <1>3 DEF Connection
  <2> QED
    BY ZenonT(60), <1>1, <1>5, <2>1, <2>2, <2>3, WithoutOne
<1>10. CASE DeleteFree(c)
  <2>1. PICK pc \in {"deleteall", "teardown"} : Set(c, [conn[c] EXCEPT !.pc = pc])
    BY <1>10 DEF DeleteFree
  <2> QED
    BY <1>2, <1>6, <1>10, <2>1 DEF DeleteFree
<1>11. CASE DeleteEnd(c)
  BY <1>2, <1>4, <1>11 DEF DeleteEnd, slotVars
<1> QED
  BY <1>7, <1>8, <1>9, <1>10, <1>11

\* A command runs under its sandbox's ruleset, and the server would not have
\* started with a kernel that offers less than was required.
LEMMA ExecStep ==
    ASSUME RequestsInv, NEW c \in Conn, Exec(c)
    PROVE  RequestsInv'
<1>1. /\ UNCHANGED <<phase, conf, reg, used>> /\ reserved' \in Int /\ conn[c].pc = "serve"
      /\ \E status \in {200, 400} : Answer(c, status)
  BY ReservedInt DEF Exec, IsExec, At, slotVars
<1>2. RegistryOK' /\ (UNCHANGED commands => RunsConfined')
  BY <1>1, ServerKept
<1>3. /\ conn[c] \in Connection /\ ConnectionOK(conn[c]) /\ phase = "serving"
      /\ conf.abi \in Int /\ conf.minAbi \in Int
  BY <1>1, ConnectionFacts, RequestsAssumption
<1>4. ASSUME conn[c].as \in DOMAIN reg,
             NEW g \in PreExec(reg[conn[c].as]),
             commands' = commands \cup {[by |-> g, may |-> reg[conn[c].as].allowed]}
      PROVE  RunsConfined'
  <2> DEFINE rs == reg[conn[c].as]
             cmd == [by |-> g, may |-> rs.allowed]
  <2>1. rs \in Rulesets /\ conn[c].as \in Sandbox
    BY <1>4 DEF RequestsInv, RequestsTypeOK, RegistryOK
  <2>2. conf.host
    BY <1>1, <1>3, <2>1, NamesAssumption DEF ConnectionOK, Covered, Handling
  <2>3. conf.allowUnconfined \/ conf.minAbi <= conf.abi
    BY <1>3, <2>2 DEF RequestsInv, ServesOnlyAccepted, Refuses
  <2>4. g = Enforced(rs)
    BY <1>4 DEF PreExec
  <2>5. /\ cmd.by = g /\ cmd.may = rs.allowed
        /\ commands' = commands \cup {cmd}
    BY <1>4
  <2> HIDE DEF cmd
  <2>6. \/ conf.allowUnconfined /\ cmd.by = {}
        \/ /\ cmd.by = Features(conf.abi)
           /\ conf.allowUnconfined \/ Features(conf.minAbi) \subseteq cmd.by
           /\ cmd.may["node"] # {}
           /\ \A q \in DOMAIN cmd.may : "make" \in cmd.may[q] <=> q = "home"
    <3>1. CASE conf.allowUnconfined /\ rs = Unconfined
      BY <2>4, <2>5, <3>1, UnconfinedEnforces
    <3>2. CASE conf.abi >= 1 /\ rs = BuildRuleset(conf.abi)
      <4>1. conf.allowUnconfined \/ Features(conf.minAbi) \subseteq Features(conf.abi)
        BY <1>3, <2>3, FeaturesGrow
      <4> QED
        BY <1>3, <2>4, <2>5, <3>2, <4>1, RulesetEnforces
    <3> QED
      BY <2>1, <3>1, <3>2 DEF Rulesets
  <2> QED
    BY <1>1, <2>5, <2>6 DEF RequestsInv, RunsConfined
<1>5. RunsConfined'
  BY <1>2, <1>4 DEF Exec
<1> QED
  BY <1>1, <1>2, <1>5, AnswerStep DEF Handling

LEMMA OtherStep ==
    ASSUME RequestsInv, NEW c \in Conn, Other(c)
    PROVE  RequestsInv'
<1>1. /\ UNCHANGED <<phase, conf, reg, used, commands>> /\ reserved' \in Int /\ conn[c].pc = "serve" /\ Answer(c, 200)
  BY ReservedInt DEF Other, At, slotVars
<1> QED
  BY <1>1, QuietServer, AnswerStep DEF Handling

-----------------------------------------------------------------------------
\* Nothing is served yet.
LEMMA RequestsInit == Init => RequestsInv
<1> SUFFICES ASSUME Init PROVE RequestsInv
  OBVIOUS
<1>1. DOMAIN reg = {} /\ reserved = 0
  BY DEF Init
<1>2. RegistryOK
  BY <1>1, FS_EmptySet DEF RegistryOK
<1>3. Closed \in Connection /\ Closed.pc = "closed" /\ ConnectionOK(Closed)
  BY DEF Closed, Connection, ConnectionOK, Handling
<1>4. RequestsTypeOK
  BY <1>2, <1>3 DEF Init, RequestsTypeOK, Busy, Handling
<1> QED
  BY <1>3, <1>4 DEF Init, RequestsInv, ServesOnlyAccepted, RunsConfined

\* main starts to serve only with settings it accepts.
LEMMA BootStep ==
    ASSUME RequestsInv, Boot
    PROVE  RequestsInv'
<1>1. /\ UNCHANGED <<conf, reg, used, reserved, conn, commands>> /\ phase = "boot"
      /\ phase' \in {"serving", "exited"} /\ (phase' = "serving" => ~Refuses(conf))
  BY DEF Boot, slotVars
<1>2. RegistryOK' /\ RunsConfined'
  BY <1>1, ReservedInt, ServerKept
<1>3. RequestsTypeOK' /\ ServesOnlyAccepted'
  BY <1>1, <1>2 DEF RequestsInv, RequestsTypeOK, ServesOnlyAccepted, Refuses
<1>4. \A c \in Conn : ConnectionOK(conn[c])'
  BY <1>1 DEF RequestsInv, ConnectionOK, Admitted, Covered, Accepts, Required
<1> QED
  BY <1>2, <1>3, <1>4 DEF RequestsInv

\* The invariant, for every set of connections, sandboxes, requests and settings.
THEOREM RequestsInvariant == Spec => []RequestsInv
<1>1. ASSUME RequestsInv, [Next]_vars PROVE RequestsInv'
  <2>1. CASE UNCHANGED vars
    <3>1. RegistryOK' /\ RunsConfined'
      BY <1>1, <2>1, ReservedInt, ServerKept DEF vars
    <3>2. RequestsTypeOK' /\ ServesOnlyAccepted'
      BY <1>1, <2>1, <3>1 DEF vars, RequestsInv, RequestsTypeOK, ServesOnlyAccepted, Refuses
    <3>3. \A c \in Conn : ConnectionOK(conn[c])'
      BY <1>1, <2>1 DEF vars, RequestsInv, ConnectionOK, Admitted, Covered, Accepts, Required
    <3> QED
      BY <3>1, <3>2, <3>3 DEF RequestsInv
  <2> QED
    BY <1>1, <2>1, BootStep, ClientSteps, RouteSteps, DispatchStep, CreateBeginStep,
       CreateReserveStep, CreateOkStep, CreateEndSteps, DeleteSteps, ExecStep, OtherStep DEF Next
<1> QED
  BY <1>1, RequestsInit, PTL DEF Spec

\* No handler runs with the server's own privileges on a host; the pool is
\* managed with the server's token only, a sandbox with its own token only.
THEOREM HandlersAuthorised == Spec => []ServedAuthorised
<1>1. RequestsInv => ServedAuthorised
  BY DEF RequestsInv, ConnectionOK, Covered, ServedAuthorised
<1> QED
  BY <1>1, RequestsInvariant, PTL

\* A caller without a valid token gets the same answer for every path, method,
\* id and framing.
THEOREM UnauthenticatedLearnsNothing == Spec => []UnauthLearnsNothing
<1>1. RequestsInv => UnauthLearnsNothing
  BY DEF RequestsInv, ConnectionOK, UnauthLearnsNothing, At
<1> QED
  BY <1>1, RequestsInvariant, PTL

\* A command in a sandbox runs under exactly the guarantees /health advertises,
\* unless the operator allowed less, whatever the kernel's Landlock ABI.
THEOREM CommandsConfined == Spec => []RunsConfined
<1>1. RequestsInv => RunsConfined
  BY DEF RequestsInv
<1> QED
  BY <1>1, RequestsInvariant, PTL


-----------------------------------------------------------------------------
(* Slots *)

\* The counter is the slots in use and the creates that are being turned away, and
\* these follow a moment at which the host was full.
SlotsOK ==
    /\ reserved = Held + Cardinality(AtAny({"undo"}))
    /\ AtAny({"undo"}) # {} => brim

\* A connection that moves on enters or leaves the set of those at some step.
LEMMA AtAnyMoves ==
    ASSUME RequestsInv, NEW c \in Conn, NEW r, Set(c, r), NEW P
    PROVE  /\ AtAny(P)' = IF r.pc \in P THEN AtAny(P) \cup {c} ELSE AtAny(P) \ {c}
           /\ Cardinality(AtAny(P)) \in Nat
           /\ Cardinality(AtAny(P)') = Cardinality(AtAny(P)) + (IF r.pc \in P THEN 1 ELSE 0)
                                        - (IF conn[c].pc \in P THEN 1 ELSE 0)
<1>1. AtAny(P)' = {d \in Conn : conn'[d].pc \in P}
  BY DEF AtAny
<1>2. conn'[c] = r /\ \A d \in Conn : d # c => conn'[d] = conn[d]
  BY DEF Set, RequestsInv, RequestsTypeOK
<1>3. AtAny(P)' = IF r.pc \in P THEN AtAny(P) \cup {c} ELSE AtAny(P) \ {c}
  BY <1>1, <1>2 DEF AtAny
<1>4. IsFiniteSet(AtAny(P)) /\ Cardinality(AtAny(P)) \in Nat
  BY NamesAssumption, FS_Subset, FS_CardinalityType DEF AtAny
<1>5. c \in AtAny(P) <=> conn[c].pc \in P
  BY DEF AtAny
<1>6. Cardinality(AtAny(P) \cup {c}) = IF c \in AtAny(P) THEN Cardinality(AtAny(P))
                                       ELSE Cardinality(AtAny(P)) + 1
  BY <1>4, FS_AddElement
<1>7. Cardinality(AtAny(P) \ {c}) = IF c \in AtAny(P) THEN Cardinality(AtAny(P)) - 1
                                    ELSE Cardinality(AtAny(P))
  BY <1>4, FS_RemoveElement
<1> QED
  BY <1>3, <1>4, <1>5, <1>6, <1>7

\* The registered sandboxes are counted by a number.
LEMMA RegisteredCount == RequestsInv => Cardinality(DOMAIN reg) \in Nat /\ reserved \in Int
BY FS_CardinalityType DEF RequestsInv, RequestsTypeOK, RegistryOK

\* A step outside create and delete leaves the slots as they are.
LEMMA SlotsKept ==
    ASSUME RequestsInv, SlotsOK, NEW c \in Conn, NEW r, Set(c, r),
           conn[c].pc \notin {"make", "free", "undo"}, r.pc \notin {"make", "free", "undo"},
           UNCHANGED slotVars
    PROVE  SlotsOK'
<1>1. UNCHANGED <<reg, reserved, brim>>
  BY DEF slotVars
<1>2. AtAny({"make", "free"})' = AtAny({"make", "free"}) \ {c}
      /\ AtAny({"undo"})' = AtAny({"undo"}) \ {c}
  BY AtAnyMoves
<1>3. AtAny({"make", "free"})' = AtAny({"make", "free"}) /\ AtAny({"undo"})' = AtAny({"undo"})
  BY <1>2 DEF AtAny
<1> QED
  BY <1>1, <1>3 DEF SlotsOK, Held

\* A step of create or delete whose effect on the counter is its effect on the slots in
\* use and on the creates being turned away, and which turns one away from a full host.
LEMMA SlotsMove ==
    ASSUME RequestsInv, SlotsOK, NEW c \in Conn, NEW r, Set(c, r), Track,
           Cardinality(DOMAIN reg') \in Nat,
           reserved' - reserved
             = Cardinality(DOMAIN reg') - Cardinality(DOMAIN reg)
               + (IF r.pc \in {"make", "free", "undo"} THEN 1 ELSE 0)
               - (IF conn[c].pc \in {"make", "free", "undo"} THEN 1 ELSE 0),
           reserved' \in Int, UNCHANGED conf, conf.capacity \in Nat,
           r.pc = "undo" => /\ conn[c].pc = "create" /\ reserved >= conf.capacity
                            /\ reg' = reg
    PROVE  SlotsOK'
<1> DEFINE H == AtAny({"make", "free"})
           U == AtAny({"undo"})
<1>1. /\ Cardinality(H) \in Nat
      /\ Cardinality(H') = Cardinality(H) + (IF r.pc \in {"make", "free"} THEN 1 ELSE 0)
                             - (IF conn[c].pc \in {"make", "free"} THEN 1 ELSE 0)
  BY AtAnyMoves
<1>2. /\ Cardinality(U) \in Nat
      /\ Cardinality(U') = Cardinality(U) + (IF r.pc \in {"undo"} THEN 1 ELSE 0)
                             - (IF conn[c].pc \in {"undo"} THEN 1 ELSE 0)
      /\ U' = IF r.pc \in {"undo"} THEN U \cup {c} ELSE U \ {c}
  BY AtAnyMoves
<1>3. /\ Cardinality(DOMAIN reg) \in Nat /\ reserved \in Int
      /\ reserved = Cardinality(DOMAIN reg) + Cardinality(H) + Cardinality(U)
  BY RegisteredCount DEF SlotsOK, Held
<1>4. Held' = Cardinality(DOMAIN reg') + Cardinality(H')
  BY DEF Held
<1> HIDE DEF H, U
<1>5. reserved' = Held' + Cardinality(U')
  BY <1>1, <1>2, <1>3, <1>4
<1>6. ASSUME U' # {} PROVE brim'
  <2>1. CASE U # {}
    BY <1>6, <2>1 DEF SlotsOK, Track, U
  <2>2. CASE U = {}
    <3>1. r.pc = "undo" /\ Cardinality(U) = 0
      BY <1>2, <1>6, <2>2, FS_EmptySet
    <3>2. /\ conn[c].pc \notin {"make", "free"} /\ r.pc \notin {"make", "free"}
          /\ Cardinality(DOMAIN reg') = Cardinality(DOMAIN reg) /\ reserved >= conf.capacity
      BY <3>1
    <3>3. Cardinality(H') = Cardinality(H)
      BY <1>1, <3>2
    <3>4. Held' >= conf.capacity
      BY <1>1, <1>3, <1>4, <3>1, <3>2, <3>3
    <3> QED
      BY <3>4 DEF Track
  <2> QED
    BY <2>1, <2>2
<1> QED
  BY <1>5, <1>6 DEF SlotsOK, U

\* Where a connection is after a step.
MovesTo(c, pc) == \E r : Set(c, r) /\ r.pc = pc

LEMMA AnswerMoves ==
    ASSUME RequestsInv, NEW c \in Conn, NEW status, Answer(c, status)
    PROVE  MovesTo(c, "answered")
<1>1. [conn[c] EXCEPT !.pc = "answered", !.answer = status].pc = "answered"
  BY ConnectionFacts DEF Connection
<1> QED
  BY <1>1 DEF Answer, MovesTo

LEMMA PcMoves ==
    ASSUME RequestsInv, NEW c \in Conn, NEW pc, Set(c, [conn[c] EXCEPT !.pc = pc])
    PROVE  MovesTo(c, pc)
<1>1. [conn[c] EXCEPT !.pc = pc].pc = pc
  BY ConnectionFacts DEF Connection
<1> QED
  BY <1>1 DEF MovesTo

LEMMA TodoMoves ==
    ASSUME RequestsInv, NEW c \in Conn, NEW pc, NEW T,
           \/ Set(c, [conn[c] EXCEPT !.pc = pc, !.todo = T])
           \/ Set(c, [conn[c] EXCEPT !.todo = T, !.pc = pc])
    PROVE  MovesTo(c, pc)
<1>1. /\ [conn[c] EXCEPT !.pc = pc, !.todo = T].pc = pc
      /\ [conn[c] EXCEPT !.todo = T, !.pc = pc].pc = pc
  BY ConnectionFacts DEF Connection
<1> QED
  BY <1>1 DEF MovesTo

\* The steps that do not concern the slots.
LEMMA QuietSlots ==
    ASSUME RequestsInv, SlotsOK, NEW c \in Conn,
           \/ Accept(c) \/ Close(c) \/ (\E q \in Request : Send(c, q))
           \/ Health(c) \/ Admit(c) \/ Dispatch(c) \/ CreateBegin(c) \/ CreateDone(c)
           \/ DeleteAllBegin(c) \/ DeleteEnd(c) \/ Exec(c) \/ Other(c)
    PROVE  SlotsOK'
<1>1. UNCHANGED slotVars
  BY ZenonT(60) DEF Accept, Close, Send, Health, Admit, Dispatch, CreateBegin, CreateDone, DeleteAllBegin,
         DeleteEnd, Exec, Other
<1>2. conn[c].pc \notin {"make", "free", "undo"}
  BY ZenonT(60) DEF Accept, Close, Send, Health, Admit, Dispatch, CreateBegin, CreateDone, DeleteAllBegin,
         DeleteEnd, Exec, Other, At, IsCreate, IsDeleteAll, IsDelete, IsExec
<1>3. ASSUME NEW pc, MovesTo(c, pc), pc \notin {"make", "free", "undo"} PROVE SlotsOK'
  BY <1>1, <1>2, <1>3, SlotsKept DEF MovesTo
<1>4. ASSUME NEW status, Answer(c, status) PROVE SlotsOK'
  BY <1>3, <1>4, AnswerMoves
<1>5. CASE Accept(c) \/ Close(c) \/ \E q \in Request : Send(c, q)
  <2>1. /\ Closed.pc = "closed" /\ [Closed EXCEPT !.pc = "head"].pc = "head"
        /\ [Closed EXCEPT !.pc = "refused", !.answer = 503].pc = "refused"
    BY ClosedRecord DEF Closed
  <2>2. CASE Accept(c)
    <3>1. MovesTo(c, "head") \/ MovesTo(c, "refused")
      BY ZenonT(60), <2>1, <2>2 DEF Accept, MovesTo
    <3> QED
      BY <1>3, <3>1
  <2>3. CASE Close(c)
    BY <1>3, <2>1, <2>3 DEF Close, MovesTo
  <2>4. ASSUME NEW q, Send(c, q) PROVE SlotsOK'
    <3>1. [Closed EXCEPT !.pc = "route", !.req = q].pc = "route"
      BY DEF Closed
    <3>2. MovesTo(c, "route")
      BY <2>4, <3>1 DEF Send, MovesTo
    <3> QED
      BY <1>3, <3>2
  <2> QED
    BY <1>5, <2>2, <2>3, <2>4
<1>6. CASE Health(c) \/ Admit(c)
  <2>1. (\E status : Answer(c, status)) \/ Set(c, [conn[c] EXCEPT !.pc = "dispatch"])
    BY <1>6 DEF Health, Admit
  <2> QED
    BY <1>3, <1>4, <2>1, PcMoves
<1>7. CASE Dispatch(c)
  <2>1. (\E x : Serve(c, x)) \/ Answer(c, 404)
    <3> DEFINE m == conn[c].req.method
               s == conn[c].req.segs
    <3> QED
      BY <1>7, Zenon DEF Dispatch
  <2>2. ASSUME NEW x, Serve(c, x) PROVE SlotsOK'
    <3>1. [conn[c] EXCEPT !.pc = "serve", !.as = x].pc = "serve"
      BY ConnectionFacts DEF Connection
    <3>2. MovesTo(c, "serve")
      BY <2>2, <3>1 DEF Serve, MovesTo
    <3> QED
      BY <1>3, <3>2
  <2> QED
    BY <1>4, <2>1, <2>2
<1>8. CASE CreateBegin(c)
  <2>1. PICK n : Set(c, [conn[c] EXCEPT !.pc = "create", !.count = n]) \/ Answer(c, 400)
    BY <1>8 DEF CreateBegin
  <2>2. [conn[c] EXCEPT !.pc = "create", !.count = n].pc = "create"
    BY ConnectionFacts DEF Connection
  <2> QED
    BY <1>3, <1>4, <2>1, <2>2 DEF MovesTo
<1>9. CASE DeleteAllBegin(c)
  BY <1>3, <1>9, TodoMoves DEF DeleteAllBegin
<1>10. CASE CreateDone(c) \/ DeleteEnd(c) \/ Exec(c) \/ Other(c)
  BY <1>4, <1>10 DEF CreateDone, DeleteEnd, Exec, Other
<1> QED
  BY <1>5, <1>6, <1>7, <1>8, <1>9, <1>10

\* A create counts itself in, becomes a sandbox, or takes back its count.
LEMMA CreateSlots ==
    ASSUME RequestsInv, SlotsOK, NEW c \in Conn,
           CreateReserve(c) \/ CreateOk(c) \/ CreateFull(c) \/ CreateIo(c)
    PROVE  SlotsOK'
<1>1. /\ Cardinality(DOMAIN reg) \in Nat /\ IsFiniteSet(DOMAIN reg) /\ reserved \in Int
      /\ conf.capacity \in Nat
  BY RegisteredCount, RequestsAssumption DEF RequestsInv, RequestsTypeOK, RegistryOK
<1>2. UNCHANGED conf /\ Track
  BY DEF CreateReserve, CreateOk, CreateFull, CreateIo
<1>3. CASE CreateReserve(c)
  <2>1. PICK pc : /\ pc = IF reserved >= conf.capacity THEN "undo" ELSE "make"
                  /\ Set(c, [conn[c] EXCEPT !.pc = pc])
    BY <1>3 DEF CreateReserve
  <2>2. PICK r : Set(c, r) /\ r.pc = pc
    BY <2>1, PcMoves DEF MovesTo
  <2>3. conn[c].pc = "create" /\ reg' = reg /\ reserved' = reserved + 1
    BY <1>3 DEF CreateReserve, MoreToCreate, At
  <2>4. r.pc \in {"make", "undo"} /\ (r.pc = "undo" => reserved >= conf.capacity)
    BY <2>1, <2>2
  <2> QED
    BY <1>1, <1>2, <2>2, <2>3, <2>4, SlotsMove
<1>4. CASE CreateOk(c)
  <2>1. PICK i \in Sandbox \ used : DOMAIN reg' = DOMAIN reg \cup {i}
    BY <1>4 DEF CreateOk
  <2>2. i \notin DOMAIN reg
    BY <2>1 DEF RequestsInv, RequestsTypeOK, RegistryOK
  <2>3. Cardinality(DOMAIN reg') = Cardinality(DOMAIN reg) + 1
    BY <1>1, <2>1, <2>2, FS_AddElement
  <2>4. [conn[c] EXCEPT !.pc = "create", !.created = @ + 1].pc = "create"
    BY ConnectionFacts DEF Connection
  <2>5. conn[c].pc = "make" /\ reserved' = reserved
        /\ Set(c, [conn[c] EXCEPT !.pc = "create", !.created = @ + 1])
    BY <1>4 DEF CreateOk, At
  <2>6. PICK r : Set(c, r) /\ r.pc = "create"
    BY <2>4, <2>5
  <2> QED
    BY <1>1, <1>2, <2>3, <2>5, <2>6, SlotsMove
<1>5. CASE CreateFull(c) \/ CreateIo(c)
  <2>1. PICK r : Set(c, r) /\ r.pc = "answered"
    <3>1. PICK n : Set(c, [conn[c] EXCEPT !.pc = "answered", !.answer = 200, !.rejected = n])
                     \/ Answer(c, 500)
      BY <1>5 DEF CreateFull, CreateIo
    <3>2. [conn[c] EXCEPT !.pc = "answered", !.answer = 200, !.rejected = n].pc = "answered"
      BY ConnectionFacts DEF Connection
    <3> QED
      BY <3>1, <3>2, AnswerMoves DEF MovesTo
  <2>2. conn[c].pc \in {"undo", "make"} /\ reg' = reg /\ reserved' = reserved - 1
    BY <1>5 DEF CreateFull, CreateIo, At
  <2> QED
    BY <1>1, <1>2, <2>1, <2>2, SlotsMove
<1> QED
  BY <1>3, <1>4, <1>5

\* A delete takes a registered sandbox out, and then gives its slot back.
LEMMA DeleteSlots ==
    ASSUME RequestsInv, SlotsOK, NEW c \in Conn,
           DeleteOne(c) \/ DeleteAllStep(c) \/ DeleteFree(c)
    PROVE  SlotsOK'
<1>1. /\ Cardinality(DOMAIN reg) \in Nat /\ IsFiniteSet(DOMAIN reg) /\ reserved \in Int
      /\ conf.capacity \in Nat
  BY RegisteredCount, RequestsAssumption DEF RequestsInv, RequestsTypeOK, RegistryOK
<1>2. UNCHANGED conf /\ Track
  BY DEF DeleteOne, DeleteAllStep, DeleteFree
<1>3. ASSUME NEW i, NEW r, reg' = Without(i), Set(c, r), reserved' = reserved,
             r.pc = IF i \in DOMAIN reg THEN "free" ELSE "deleteall",
             conn[c].pc \in {"serve", "deleteall"}
      PROVE  SlotsOK'
  <2>1. DOMAIN reg' = DOMAIN reg \ {i}
    BY <1>3 DEF Without
  <2>2. /\ Cardinality(DOMAIN reg') \in Nat
        /\ Cardinality(DOMAIN reg')
             = IF i \in DOMAIN reg THEN Cardinality(DOMAIN reg) - 1 ELSE Cardinality(DOMAIN reg)
    BY <1>1, <2>1, FS_RemoveElement, FS_CardinalityType
  <2>3. CASE i \in DOMAIN reg
    BY <1>1, <1>2, <1>3, <2>2, <2>3, SlotsMove
  <2>4. CASE i \notin DOMAIN reg
    BY <1>1, <1>2, <1>3, <2>2, <2>4, SlotsMove
  <2> QED
    BY <2>3, <2>4
<1>4. CASE DeleteOne(c)
  <2>1. conn[c].pc = "serve" /\ reserved' = reserved
    BY <1>4 DEF DeleteOne, IsDeleteOne, IsDelete, At
  <2>2. CASE conn[c].as \in DOMAIN reg
    BY <1>3, <1>4, <2>1, <2>2, PcMoves DEF DeleteOne, MovesTo
  <2>3. CASE conn[c].as \notin DOMAIN reg
    <3>1. PICK r : Set(c, r) /\ r.pc = "answered"
      BY <1>4, <2>3, AnswerMoves DEF DeleteOne, MovesTo
    <3>2. reg' = reg
      BY <1>4, <2>3 DEF DeleteOne
    <3> QED
      BY <1>1, <1>2, <2>1, <3>1, <3>2, SlotsMove
  <2> QED
    BY <2>2, <2>3
<1>5. CASE DeleteAllStep(c)
  <2>1. PICK i \in conn[c].todo :
          /\ reg' = Without(i)
          /\ Set(c, [conn[c] EXCEPT !.todo = @ \ {i},
                                    !.pc = IF i \in DOMAIN reg THEN "free" ELSE "deleteall"])
    BY <1>5 DEF DeleteAllStep
  <2>2. conn[c].pc = "deleteall" /\ reserved' = reserved
    BY <1>5 DEF DeleteAllStep, At
  <2>3. PICK r : Set(c, r) /\ r.pc = IF i \in DOMAIN reg THEN "free" ELSE "deleteall"
    BY <2>1, TodoMoves DEF MovesTo
  <2> QED
    BY <1>3, <2>1, <2>2, <2>3
<1>6. CASE DeleteFree(c)
  <2>1. PICK r : Set(c, r) /\ r.pc \in {"deleteall", "teardown"}
    <3>1. PICK pc \in {"deleteall", "teardown"} : Set(c, [conn[c] EXCEPT !.pc = pc])
      BY <1>6 DEF DeleteFree
    <3> QED
      BY <3>1, PcMoves DEF MovesTo
  <2>2. conn[c].pc = "free" /\ reg' = reg /\ reserved' = reserved - 1
    BY <1>6 DEF DeleteFree, At
  <2> QED
    BY <1>1, <1>2, <2>1, <2>2, SlotsMove
<1> QED
  BY <1>4, <1>5, <1>6

\* The counter and the history, for any batches, deletes and capacity.
THEOREM SlotsInvariant == Spec => []SlotsOK
<1>1. Init => SlotsOK
  <2> SUFFICES ASSUME Init PROVE SlotsOK
    OBVIOUS
  <2>1. AtAny({"make", "free"}) = {} /\ AtAny({"undo"}) = {} /\ DOMAIN reg = {}
    BY DEF Init, AtAny, Closed
  <2> DEFINE a == Cardinality(DOMAIN reg)
             b == Cardinality(AtAny({"make", "free"}))
             n == Cardinality(AtAny({"undo"}))
  <2>2. a = 0 /\ b = 0 /\ n = 0 /\ reserved = 0
    BY <2>1, FS_EmptySet DEF Init
  <2>3. Held = a + b
    BY DEF Held
  <2>4. SlotsOK <=> reserved = Held + n
    BY <2>1 DEF SlotsOK
  <2> HIDE DEF a, b, n
  <2> QED
    BY <2>2, <2>3, <2>4
<1>2. RequestsInv /\ SlotsOK /\ [Next]_vars => SlotsOK'
  <2> SUFFICES ASSUME RequestsInv, SlotsOK, [Next]_vars PROVE SlotsOK'
    OBVIOUS
  <2>1. CASE UNCHANGED vars \/ Boot
    <3>1. UNCHANGED <<reg, reserved, brim, conn>>
      BY <2>1 DEF vars, Boot, slotVars
    <3> QED
      BY <3>1 DEF SlotsOK, Held, AtAny
  <2> QED
    BY <2>1, QuietSlots, CreateSlots, DeleteSlots DEF Next
<1> QED
  BY <1>1, <1>2, RequestsInvariant, PTL DEF Spec

\* Creates are turned away from full hosts only, however batches, creates that take back
\* their counts, and deletes interleave.
THEOREM TurnedAwayFromFullOnly == Spec => []TurnedAwayFromFull
<1>1. SlotsOK => TurnedAwayFromFull
  BY DEF SlotsOK, TurnedAwayFromFull, AtAny, At
<1> QED
  BY <1>1, SlotsInvariant, PTL
=============================================================================
