------------------------ MODULE HttpConnectionProofs ------------------------
(* Theorems about HttpConnection, for every number of requests, body size,  *)
(* limit and file size: the connection stays at message boundaries, every   *)
(* response is complete before the next request is read, and answers come   *)
(* in the order of the requests, until the body of a request with           *)
(* Transfer-Encoding is served as a request.                                *)
EXTENDS HttpConnection, SequenceTheorems, TLAPS

-----------------------------------------------------------------------------
(* The inductive invariant *)

Bodies == {BodyItem(b) : b \in BOOLEAN}
Items == {HeadItem(r) : r \in Requests} \cup Bodies \cup {BadItem, PartialItem}

\* What is remembered of a head.
Parsed == [n : Nat, te : BOOLEAN]

Labels == {"head", "route", "body", "answer", "send", "stream", "tunnel", "finish", "drain",
           "closed"}

\* Types.
ConnTypeOK ==
    /\ client \in {"open", "closed"}
    /\ sent \in Nat
    /\ owed \in Seq(Bodies)
    /\ wire \in Seq(Items)
    /\ pc \in Labels
    /\ req \in Requests
    /\ got \in Nat /\ consumed \in Nat /\ todo \in Int
    /\ resp \in [framing : {"none", "fixed", "chunked"}, left : Nat]
    /\ answers \in Seq(Nat) /\ heads \in Seq(Parsed)
    /\ broken \in BOOLEAN

\* The connection as the client has laid it out: what is on the wire, then what
\* it has still to send of the last body.
Layout == wire \o owed

\* A unit of a body that has a Content-Length.
Plain(x) == x.part = "body" /\ ~x.te

\* From position i on lie exactly n units of such a body, and then something else.
Framed(lay, i, n) ==
    /\ i + n <= Len(lay) + 1
    /\ \A j \in i .. (i + n - 1) : Plain(lay[j])
    /\ i + n <= Len(lay) => ~Plain(lay[i + n])

\* Every head is followed by the body it announces.
AllFramed(lay) ==
    \A i \in 1 .. Len(lay) : lay[i].part = "head" => Framed(lay, i + 1, lay[i].request.len)
HeadsFramed == AllFramed(Layout)

\* What the current request has still on the connection, as the thread knows it.
Pending ==
    IF pc = "head" THEN 0 ELSE IF pc = "drain" THEN todo ELSE req.len - got

\* The thread is still going to read from the connection, and can.
Reading ==
    pc \notin {"closed", "tunnel"} /\ (wire # <<>> \/ client = "open")

\* What the thread takes for the rest of the body is the rest of the body.
RestFramed == Reading /\ ~Strayed => Framed(Layout, 1, Pending)

\* got and consumed, which a read_body that failed leaves apart, agree whenever
\* they are going to be used.
CountsAgree ==
    /\ pc = "route" => got = 0 /\ consumed = 0
    /\ pc = "body" => /\ got <= req.len
                      /\ req.route \in {"json", "upload"}
                      /\ consumed = IF req.route = "json" THEN 0 ELSE got
    /\ pc \in {"answer", "send", "stream", "finish"} => got = consumed /\ got <= req.len
    /\ pc = "drain" => todo \in 0 .. req.len

\* How far the response has come.
ResponseStage ==
    /\ pc = "send" => resp.framing = "fixed"
    /\ pc = "stream" => resp.framing = "chunked"
    /\ pc = "finish" => \/ resp.framing = "fixed" /\ resp.left = 0
                        \/ resp.framing = "chunked"
    /\ pc = "drain" \/ (pc = "head" /\ heads # <<>>) => resp.framing # "none" /\ resp.left = 0

\* Requests are numbered as they were sent: position 0 of a wire w stands for
\* the request being served, n, and s is the number of the last one sent.
Marks(w, k) == w[k].part \in {"head", "bad"}
IsHead(w, i) == i = 0 \/ w[i].part = "head"
Number(w, n, i) == IF i = 0 THEN n ELSE w[i].request.n
Sequenced(w, n, s) ==
    \A i \in 0 .. Len(w) : IsHead(w, i) =>
        /\ (\A k \in (i + 1) .. Len(w) : ~Marks(w, k)) => s = Number(w, n, i)
        /\ \A j \in (i + 1) .. Len(w) :
             IsHead(w, j) /\ (\A k \in (i + 1) .. (j - 1) : ~Marks(w, k))
             => Number(w, n, j) = Number(w, n, i) + 1
InSequence == pc # "closed" /\ ~Strayed => Sequenced(wire, req.n, sent)

\* The answers so far, and whether the current request has had its own.
Answered(said, seen) == \A k \in DOMAIN said : k \in DOMAIN seen /\ said[k] = seen[k].n
AnswersSoFar ==
    /\ \/ Answered(answers, heads)
       \/ /\ pc = "closed" /\ answers # <<>> /\ answers[Len(answers)] = 0
          /\ \A k \in 1 .. (Len(answers) - 1) : k \in DOMAIN heads /\ answers[k] = heads[k].n
    /\ pc \in {"head", "send", "stream", "tunnel", "finish", "drain"} =>
         Len(answers) = Len(heads)
    /\ pc \in {"route", "body", "answer"} => Len(answers) + 1 = Len(heads)

\* The heads read are the client's requests, the last one is the current request.
HeadsCounted ==
    /\ req.n = IF heads = <<>> THEN 0 ELSE heads[Len(heads)].n
    /\ ~Strayed => \A k \in DOMAIN heads : heads[k].n = k

\* A request with Transfer-Encoding was read.
SomeTe == \E k \in DOMAIN heads : heads[k].te

\* Until then, a body without Content-Length comes after the head it belongs to.
TeHead(x) == x.part = "head" /\ x.request.te
TeBody(x) == x.part = "body" /\ x.te
Led(lay) ==
    \A i \in 1 .. Len(lay) : TeBody(lay[i]) => \E j \in 1 .. (i - 1) : TeHead(lay[j])
BodiesLed ==
    /\ Strayed => SomeTe
    /\ pc # "closed" => SomeTe \/ Led(Layout)

ConnInv ==
    /\ ConnTypeOK /\ HeadsFramed /\ RestFramed /\ CountsAgree
    /\ ResponseStage /\ InSequence /\ AnswersSoFar /\ HeadsCounted /\ BodiesLed

-----------------------------------------------------------------------------
(* Items and positions *)

\* What the items are made of.
LEMMA ItemFields ==
    /\ \A r \in Requests : /\ HeadItem(r) \in Items /\ HeadItem(r).part = "head"
                           /\ HeadItem(r).request = r
    /\ \A b \in BOOLEAN : /\ BodyItem(b) \in Items /\ BodyItem(b).part = "body"
                          /\ BodyItem(b).te = b
    /\ BadItem \in Items /\ BadItem.part = "bad"
    /\ PartialItem \in Items /\ PartialItem.part = "partial"
BY DEF Items, Bodies, HeadItem, BodyItem, BadItem, PartialItem

\* An item that is a head carries a request.
LEMMA HeadsCarryRequests ==
    ASSUME NEW x \in Items, x.part = "head"
    PROVE  x.request \in Requests
<1>1. PICK r \in Requests : x = HeadItem(r)
  BY ItemFields DEF Items, Bodies
<1> QED
  BY <1>1, ItemFields

\* A request has a length and a number.
LEMMA RequestFields ==
    ASSUME NEW r \in Requests
    PROVE  r.len \in Nat /\ r.n \in Nat /\ r.route \in Routes
           /\ r.te \in BOOLEAN /\ r.ka \in BOOLEAN
BY BoundsAssumption DEF Requests

\* The layout is a sequence of items that starts with what is on the wire.
LEMMA LayoutFacts ==
    ASSUME NEW w \in Seq(Items), NEW o \in Seq(Items)
    PROVE  /\ w \o o \in Seq(Items)
           /\ Len(w \o o) = Len(w) + Len(o)
           /\ \A i \in 1 .. Len(w) : (w \o o)[i] = w[i]
           /\ \A i \in (Len(w) + 1) .. (Len(w) + Len(o)) : (w \o o)[i] = o[i - Len(w)]
BY ConcatProperties

\* Reading takes the first item away; the others move up by one.
LEMMA ReadLayout ==
    ASSUME NEW w \in Seq(Items), NEW o \in Seq(Items), w # <<>>
    PROVE  /\ Len(w) > 0 /\ Head(w) = w[1] /\ Head(w) \in Items
           /\ Tail(w) \in Seq(Items) /\ Len(Tail(w)) = Len(w) - 1
           /\ \A i \in 1 .. (Len(w) - 1) : Tail(w)[i] = w[i + 1]
           /\ Len(Tail(w) \o o) = Len(w \o o) - 1
           /\ \A i \in 1 .. (Len(w \o o) - 1) : (Tail(w) \o o)[i] = (w \o o)[i + 1]
           /\ (w \o o)[1] = Head(w)
<1>1. /\ Len(w) \in Nat /\ Len(w) > 0 /\ Len(o) \in Nat
      /\ Head(w) = w[1] /\ Head(w) \in Items
      /\ Tail(w) \in Seq(Items) /\ Len(Tail(w)) = Len(w) - 1
      /\ \A i \in 1 .. (Len(w) - 1) : Tail(w)[i] = w[i + 1]
  BY EmptySeq, HeadTailProperties
<1>2. /\ Len(Tail(w) \o o) = Len(w) - 1 + Len(o)
      /\ \A i \in 1 .. (Len(w) - 1) : (Tail(w) \o o)[i] = w[i + 1]
      /\ \A i \in Len(w) .. (Len(w) - 1 + Len(o)) :
           (Tail(w) \o o)[i] = o[i - (Len(w) - 1)]
  BY <1>1, LayoutFacts
<1>3. /\ Len(w \o o) = Len(w) + Len(o)
      /\ \A i \in 1 .. Len(w) : (w \o o)[i] = w[i]
      /\ \A i \in (Len(w) + 1) .. (Len(w) + Len(o)) : (w \o o)[i] = o[i - Len(w)]
  BY LayoutFacts
<1>4. ASSUME NEW i \in 1 .. (Len(w \o o) - 1)
      PROVE  (Tail(w) \o o)[i] = (w \o o)[i + 1]
  <2>1. CASE i <= Len(w) - 1
    BY <1>1, <1>2, <1>3, <2>1
  <2>2. CASE i >= Len(w)
    <3>1. (Tail(w) \o o)[i] = o[i - (Len(w) - 1)]
      BY <1>1, <1>2, <1>3, <2>2
    <3>2. (w \o o)[i + 1] = o[(i + 1) - Len(w)]
      BY <1>1, <1>3, <2>2
    <3> QED
      BY <1>1, <3>1, <3>2
  <2> QED
    BY <1>1, <1>3, <2>1, <2>2
<1> QED
  BY <1>1, <1>2, <1>3, <1>4

\* What was framed stays framed, one position earlier.
LEMMA ReadFramed ==
    ASSUME NEW lay \in Seq(Items), NEW rest \in Seq(Items), Len(lay) > 0,
           Len(rest) = Len(lay) - 1,
           \A i \in 1 .. (Len(lay) - 1) : rest[i] = lay[i + 1],
           NEW i \in Nat \ {0}, NEW n \in Nat, Framed(lay, i + 1, n)
    PROVE  Framed(rest, i, n)
BY SMTT(30) DEF Framed

\* One unit of a framed body is read.
LEMMA ReadUnit ==
    ASSUME NEW lay \in Seq(Items), NEW rest \in Seq(Items), Len(lay) > 0,
           Len(rest) = Len(lay) - 1,
           \A i \in 1 .. (Len(lay) - 1) : rest[i] = lay[i + 1],
           NEW n \in Nat \ {0}, Framed(lay, 1, n)
    PROVE  Framed(rest, 1, n - 1)
<1>1. Framed(lay, 2, n - 1)
  BY DEF Framed
<1> QED
  BY <1>1, ReadFramed

\* Reading keeps every body after its head.
LEMMA ReadAllFramed ==
    ASSUME NEW lay \in Seq(Items), NEW rest \in Seq(Items), Len(lay) > 0,
           Len(rest) = Len(lay) - 1,
           \A i \in 1 .. (Len(lay) - 1) : rest[i] = lay[i + 1],
           AllFramed(lay)
    PROVE  AllFramed(rest)
<1> SUFFICES ASSUME NEW i \in 1 .. Len(rest), rest[i].part = "head"
             PROVE  Framed(rest, i + 1, rest[i].request.len)
  BY DEF AllFramed
<1>1. /\ i + 1 \in 1 .. Len(lay) /\ rest[i] = lay[i + 1]
      /\ rest[i] \in Items
  OBVIOUS
<1>2. Framed(lay, (i + 1) + 1, rest[i].request.len)
  BY <1>1 DEF AllFramed
<1>3. rest[i].request.len \in Nat
  BY <1>1, HeadsCarryRequests, RequestFields
<1> QED
  BY SMTT(30), <1>2, <1>3, ReadFramed

\* The client adds to the end; what was framed stays so, unless the addition
\* would lengthen a body.
LEMMA GrowFramed ==
    ASSUME NEW lay \in Seq(Items), NEW more \in Seq(Items), Len(lay) < Len(more),
           \A j \in 1 .. Len(lay) : more[j] = lay[j],
           ~Plain(more[Len(lay) + 1]),
           NEW i \in Nat \ {0}, NEW n \in Nat, Framed(lay, i, n)
    PROVE  Framed(more, i, n)
<1> DEFINE e == i + n
<1>1. e \in Nat /\ e <= Len(lay) + 1 /\ Len(lay) \in Nat /\ Len(more) \in Nat
  BY DEF Framed
<1>2. \A j \in i .. (e - 1) : Plain(more[j])
  BY <1>1 DEF Framed
<1>3. ~Plain(more[e])
  <2>1. CASE e <= Len(lay)
    BY <2>1 DEF Framed
  <2>2. CASE e = Len(lay) + 1
    BY <2>2
  <2> QED
    BY <1>1, <2>1, <2>2
<1> QED
  BY <1>1, <1>2, <1>3 DEF Framed

\* Bodies that follow their heads go on doing so when something is added.
LEMMA GrowAllFramed ==
    ASSUME NEW lay \in Seq(Items), NEW more \in Seq(Items), Len(lay) < Len(more),
           \A j \in 1 .. Len(lay) : more[j] = lay[j],
           ~Plain(more[Len(lay) + 1]),
           AllFramed(lay),
           \A i \in (Len(lay) + 1) .. Len(more) :
             more[i].part = "head" => Framed(more, i + 1, more[i].request.len)
    PROVE  AllFramed(more)
<1> SUFFICES ASSUME NEW i \in 1 .. Len(lay), more[i].part = "head"
             PROVE  Framed(more, i + 1, more[i].request.len)
  BY DEF AllFramed
<1>1. more[i] = lay[i] /\ lay[i] \in Items /\ i + 1 \in Nat \ {0}
  OBVIOUS
<1>2. Framed(lay, i + 1, more[i].request.len)
  BY <1>1 DEF AllFramed
<1>3. more[i].request.len \in Nat
  BY <1>1, HeadsCarryRequests, RequestFields
<1> QED
  BY <1>1, <1>2, <1>3, GrowFramed

\* The client starts a message and announces what is to follow.
LEMMA SendLayout ==
    ASSUME NEW w \in Seq(Items), NEW x \in Items, NEW o \in Seq(Items)
    PROVE  /\ w \o <<>> \in Seq(Items) /\ Len(w \o <<>>) = Len(w)
           /\ Append(w, x) \in Seq(Items) /\ Append(w, x) \o o \in Seq(Items)
           /\ Len(Append(w, x) \o o) = Len(w) + 1 + Len(o)
           /\ \A j \in 1 .. Len(w) : (Append(w, x) \o o)[j] = (w \o <<>>)[j]
           /\ (Append(w, x) \o o)[Len(w) + 1] = x
           /\ \A k \in 1 .. Len(o) : (Append(w, x) \o o)[Len(w) + 1 + k] = o[k]
<1> DEFINE v == Append(w, x)
<1>1. /\ v \in Seq(Items) /\ Len(v) = Len(w) + 1 /\ v[Len(w) + 1] = x
      /\ \A j \in 1 .. Len(w) : v[j] = w[j]
      /\ Len(w) \in Nat /\ Len(o) \in Nat
  BY AppendProperties
<1>2. w \o <<>> = w
  BY ConcatEmptySeq
<1> HIDE DEF v
<1>3. /\ v \o o \in Seq(Items) /\ Len(v \o o) = Len(w) + 1 + Len(o)
      /\ \A i \in 1 .. (Len(w) + 1) : (v \o o)[i] = v[i]
      /\ \A i \in (Len(w) + 2) .. (Len(w) + 1 + Len(o)) :
           (v \o o)[i] = o[i - (Len(w) + 1)]
  <2>1. /\ v \o o \in Seq(Items) /\ Len(v \o o) = Len(v) + Len(o)
        /\ \A i \in 1 .. Len(v) : (v \o o)[i] = v[i]
        /\ \A i \in (Len(v) + 1) .. (Len(v) + Len(o)) : (v \o o)[i] = o[i - Len(v)]
    BY <1>1, LayoutFacts
  <2> QED
    BY <1>1, <2>1
<1>4. ASSUME NEW k \in 1 .. Len(o) PROVE (v \o o)[Len(w) + 1 + k] = o[k]
  <2> DEFINE i == Len(w) + 1 + k
  <2>1. i \in (Len(w) + 2) .. (Len(w) + 1 + Len(o)) /\ i - (Len(w) + 1) = k
    BY <1>1
  <2> HIDE DEF i
  <2>2. (v \o o)[i] = o[k]
    BY <1>3, <2>1
  <2> QED
    BY <2>2 DEF i
<1> QED
  BY <1>1, <1>2, <1>3, <1>4 DEF v

\* Sending a unit of the body moves the border between sent and unsent.
LEMMA SendBodyLayout ==
    ASSUME NEW w \in Seq(Items), NEW o \in Seq(Items), o # <<>>
    PROVE  Append(w, Head(o)) \o Tail(o) = w \o o
<1> DEFINE v == Append(w, Head(o))
           p == Tail(o)
<1>1. /\ Len(o) \in Nat /\ Len(o) > 0 /\ Head(o) = o[1] /\ Head(o) \in Items
      /\ p \in Seq(Items) /\ Len(p) = Len(o) - 1
      /\ \A i \in 1 .. (Len(o) - 1) : p[i] = o[i + 1]
  BY EmptySeq, HeadTailProperties
<1>2. /\ v \in Seq(Items) /\ Len(v) = Len(w) + 1 /\ v[Len(w) + 1] = o[1]
      /\ \A j \in 1 .. Len(w) : v[j] = w[j]
      /\ Len(w) \in Nat
  BY <1>1, AppendProperties
<1> HIDE DEF v, p
<1>3. /\ v \o p \in Seq(Items) /\ Len(v \o p) = Len(w) + Len(o)
      /\ \A i \in 1 .. (Len(w) + 1) : (v \o p)[i] = v[i]
      /\ \A i \in (Len(w) + 2) .. (Len(w) + Len(o)) :
           (v \o p)[i] = p[i - (Len(w) + 1)]
  <2>1. /\ v \o p \in Seq(Items) /\ Len(v \o p) = Len(v) + Len(p)
        /\ \A i \in 1 .. Len(v) : (v \o p)[i] = v[i]
        /\ \A i \in (Len(v) + 1) .. (Len(v) + Len(p)) : (v \o p)[i] = p[i - Len(v)]
    BY <1>1, <1>2, LayoutFacts
  <2> QED
    BY SMTT(30), <1>1, <1>2, <2>1
<1>4. /\ w \o o \in Seq(Items) /\ Len(w \o o) = Len(w) + Len(o)
      /\ \A i \in 1 .. Len(w) : (w \o o)[i] = w[i]
      /\ \A i \in (Len(w) + 1) .. (Len(w) + Len(o)) : (w \o o)[i] = o[i - Len(w)]
  BY LayoutFacts
<1>5. ASSUME NEW i \in 1 .. (Len(w) + Len(o)) PROVE (v \o p)[i] = (w \o o)[i]
  <2>1. CASE i <= Len(w)
    BY <1>1, <1>2, <1>3, <1>4, <2>1
  <2>2. CASE i = Len(w) + 1
    BY <1>1, <1>2, <1>3, <1>4, <2>2
  <2>3. CASE i >= Len(w) + 2
    <3>1. (v \o p)[i] = p[i - (Len(w) + 1)] /\ (w \o o)[i] = o[i - Len(w)]
      BY <1>1, <1>2, <1>3, <1>4, <2>3
    <3> DEFINE k == i - (Len(w) + 1)
    <3>2. k \in 1 .. (Len(o) - 1) /\ k + 1 = i - Len(w)
      BY <1>1, <1>2, <2>3
    <3> HIDE DEF k
    <3>3. p[k] = o[k + 1]
      BY <1>1, <3>2
    <3> QED
      BY <3>1, <3>2, <3>3 DEF k
  <2> QED
    BY <1>1, <1>2, <2>1, <2>2, <2>3
<1>6. v \o p = w \o o
  BY <1>1, <1>2, <1>3, <1>4, <1>5, SeqEqual
<1> QED
  BY <1>6 DEF v, p

-----------------------------------------------------------------------------
(* Numbers *)

\* The next request has the next number, and takes position 0 when it is read.
LEMMA NumbersRead ==
    ASSUME NEW w \in Seq(Items), NEW n \in Nat, NEW s \in Nat, w # <<>>,
           Head(w).part = "head", Sequenced(w, n, s)
    PROVE  /\ Head(w).request.n = n + 1
           /\ Sequenced(Tail(w), Head(w).request.n, s)
<1> DEFINE t == Tail(w)
           m == Head(w).request.n
<1>1. /\ Len(w) \in Nat /\ Len(w) > 0 /\ Head(w) = w[1]
      /\ t \in Seq(Items) /\ Len(t) = Len(w) - 1
      /\ \A i \in 1 .. Len(t) : t[i] = w[i + 1]
  BY EmptySeq, HeadTailProperties
<1>2. m = n + 1
  <2>1. 0 \in 0 .. Len(w) /\ 1 \in (0 + 1) .. Len(w) /\ IsHead(w, 0) /\ IsHead(w, 1)
    BY <1>1 DEF IsHead
  <2>2. \A k \in (0 + 1) .. (1 - 1) : ~Marks(w, k)
    OBVIOUS
  <2>3. Number(w, n, 1) = Number(w, n, 0) + 1
    BY <2>1, <2>2 DEF Sequenced
  <2> QED
    BY <1>1, <2>3 DEF Number
<1> HIDE DEF t
<1>3. /\ \A i \in 0 .. Len(t) : /\ IsHead(t, i) => IsHead(w, i + 1)
                                /\ Number(t, m, i) = Number(w, n, i + 1)
      /\ \A k \in 1 .. Len(t) : Marks(t, k) = Marks(w, k + 1)
  BY <1>1 DEF IsHead, Number, Marks
<1> HIDE DEF m
<1>4. ASSUME NEW i \in 0 .. Len(t), IsHead(t, i), \A k \in (i + 1) .. Len(t) : ~Marks(t, k)
      PROVE  s = Number(t, m, i)
  <2>1. \A k \in (i + 2) .. Len(w) : ~Marks(w, k)
    <3> SUFFICES ASSUME NEW k \in (i + 2) .. Len(w) PROVE ~Marks(w, k)
      OBVIOUS
    <3>1. k - 1 \in (i + 1) .. Len(t) /\ (k - 1) + 1 = k /\ k - 1 \in 1 .. Len(t)
      BY <1>1
    <3> QED
      BY <1>3, <1>4, <3>1
  <2>2. i + 1 \in 0 .. Len(w) /\ (i + 1) + 1 = i + 2 /\ IsHead(w, i + 1)
    BY <1>1, <1>3, <1>4
  <2>3. s = Number(w, n, i + 1)
    BY <2>1, <2>2 DEF Sequenced
  <2> QED
    BY <1>3, <2>3
<1>5. ASSUME NEW i \in 0 .. Len(t), IsHead(t, i),
             NEW j \in (i + 1) .. Len(t), IsHead(t, j),
             \A k \in (i + 1) .. (j - 1) : ~Marks(t, k)
      PROVE  Number(t, m, j) = Number(t, m, i) + 1
  <2>1. \A k \in (i + 2) .. j : ~Marks(w, k)
    <3> SUFFICES ASSUME NEW k \in (i + 2) .. j PROVE ~Marks(w, k)
      OBVIOUS
    <3>1. k - 1 \in (i + 1) .. (j - 1) /\ (k - 1) + 1 = k /\ k - 1 \in 1 .. Len(t)
      BY <1>1
    <3> QED
      BY <1>3, <1>5, <3>1
  <2>2. /\ i + 1 \in 0 .. Len(w) /\ (i + 1) + 1 = i + 2 /\ (j + 1) - 1 = j
        /\ j + 1 \in (i + 2) .. Len(w) /\ j \in 0 .. Len(t)
    BY <1>1
  <2>3. IsHead(w, i + 1) /\ IsHead(w, j + 1)
    BY <1>3, <1>5, <2>2
  <2>4. Number(w, n, j + 1) = Number(w, n, i + 1) + 1
    BY <2>1, <2>2, <2>3 DEF Sequenced
  <2> QED
    BY <1>3, <2>2, <2>4
<1>6. Sequenced(t, m, s)
  BY <1>4, <1>5 DEF Sequenced
<1> QED
  BY <1>2, <1>6 DEF t, m

\* Reading a unit of a body changes no number.
LEMMA NumbersSkip ==
    ASSUME NEW w \in Seq(Items), NEW n \in Nat, NEW s \in Nat, w # <<>>,
           Head(w).part = "body", Sequenced(w, n, s)
    PROVE  Sequenced(Tail(w), n, s)
<1> DEFINE t == Tail(w)
           up(i) == IF i = 0 THEN 0 ELSE i + 1
<1>1. /\ Len(w) \in Nat /\ Len(w) > 0 /\ Head(w) = w[1]
      /\ t \in Seq(Items) /\ Len(t) = Len(w) - 1
      /\ \A i \in 1 .. Len(t) : t[i] = w[i + 1]
  BY EmptySeq, HeadTailProperties
<1> HIDE DEF t
<1>2. /\ \A i \in 0 .. Len(t) : /\ up(i) \in 0 .. Len(w)
                                /\ IsHead(t, i) => IsHead(w, up(i))
                                /\ Number(t, n, i) = Number(w, n, up(i))
      /\ \A k \in 1 .. Len(t) : Marks(t, k) = Marks(w, k + 1)
      /\ ~Marks(w, 1)
  BY <1>1 DEF IsHead, Number, Marks
<1>3. ASSUME NEW i \in 0 .. Len(t), NEW e \in 0 .. Len(t),
             \A k \in (i + 1) .. e : ~Marks(t, k)
      PROVE  \A k \in (up(i) + 1) .. (e + 1) : ~Marks(w, k)
  <2> SUFFICES ASSUME NEW k \in (up(i) + 1) .. (e + 1) PROVE ~Marks(w, k)
    OBVIOUS
  <2>1. CASE k = 1
    BY <1>2, <2>1
  <2>2. CASE k # 1
    <3>1. k - 1 \in (i + 1) .. e /\ (k - 1) + 1 = k /\ k - 1 \in 1 .. Len(t)
      BY <1>1, <2>2
    <3> QED
      BY <1>2, <1>3, <3>1
  <2> QED
    BY <2>1, <2>2
<1>4. ASSUME NEW i \in 0 .. Len(t), IsHead(t, i), \A k \in (i + 1) .. Len(t) : ~Marks(t, k)
      PROVE  s = Number(t, n, i)
  <2>1. \A k \in (up(i) + 1) .. Len(w) : ~Marks(w, k)
    <3>1. Len(t) \in 0 .. Len(t) /\ Len(t) + 1 = Len(w)
      BY <1>1
    <3> QED
      BY <1>3, <1>4, <3>1
  <2>2. up(i) \in 0 .. Len(w) /\ IsHead(w, up(i)) /\ Number(t, n, i) = Number(w, n, up(i))
    BY <1>2, <1>4
  <2> HIDE DEF up
  <2> QED
    BY <2>1, <2>2 DEF Sequenced
<1>5. ASSUME NEW i \in 0 .. Len(t), IsHead(t, i),
             NEW j \in (i + 1) .. Len(t), IsHead(t, j),
             \A k \in (i + 1) .. (j - 1) : ~Marks(t, k)
      PROVE  Number(t, n, j) = Number(t, n, i) + 1
  <2>1. /\ j - 1 \in 0 .. Len(t) /\ (j - 1) + 1 = j /\ j \in 0 .. Len(t)
        /\ up(j) = j + 1 /\ up(j) \in (up(i) + 1) .. Len(w) /\ up(j) - 1 = j
    BY <1>1
  <2>2. \A k \in (up(i) + 1) .. (up(j) - 1) : ~Marks(w, k)
    BY <1>3, <1>5, <2>1
  <2>3. /\ up(i) \in 0 .. Len(w) /\ IsHead(w, up(i)) /\ IsHead(w, up(j))
        /\ Number(t, n, i) = Number(w, n, up(i)) /\ Number(t, n, j) = Number(w, n, up(j))
    BY <1>2, <1>5, <2>1
  <2> HIDE DEF up
  <2> QED
    BY <2>1, <2>2, <2>3 DEF Sequenced
<1>6. Sequenced(t, n, s)
  BY <1>4, <1>5 DEF Sequenced
<1> QED
  BY <1>6 DEF t

\* What the client adds continues the numbering: a head with the next number, a
\* refused head in its place, or something that is no head.
LEMMA NumbersGrow ==
    ASSUME NEW w \in Seq(Items), NEW n \in Nat, NEW s \in Nat, NEW x \in Items,
           NEW s2 \in Nat, Sequenced(w, n, s),
           \/ x.part = "head" /\ x.request.n = s + 1 /\ s2 = s + 1
           \/ x.part = "bad"
           \/ x.part \in {"body", "partial"} /\ s2 = s
    PROVE  Sequenced(Append(w, x), n, s2)
<1> DEFINE v == Append(w, x)
           L == Len(w)
<1>1. /\ v \in Seq(Items) /\ Len(v) = L + 1 /\ v[L + 1] = x /\ L \in Nat
      /\ \A j \in 1 .. L : v[j] = w[j]
  BY AppendProperties
<1> HIDE DEF v, L
<1>2. /\ \A i \in 0 .. L : IsHead(v, i) = IsHead(w, i) /\ Number(v, n, i) = Number(w, n, i)
      /\ \A k \in 1 .. L : Marks(v, k) = Marks(w, k)
  BY <1>1 DEF IsHead, Number, Marks
<1>3. /\ IsHead(v, L + 1) = (x.part = "head")
      /\ Marks(v, L + 1) = (x.part \in {"head", "bad"})
      /\ Number(v, n, L + 1) = x.request.n
  BY <1>1 DEF IsHead, Marks, Number
<1>4. ASSUME NEW i \in 0 .. L, IsHead(w, i), \A k \in (i + 1) .. L : ~Marks(w, k)
      PROVE  s = Number(w, n, i)
  BY <1>4 DEF Sequenced, L
<1>5. ASSUME NEW i \in 0 .. L, IsHead(w, i), NEW j \in (i + 1) .. L, IsHead(w, j),
             \A k \in (i + 1) .. (j - 1) : ~Marks(w, k)
      PROVE  Number(w, n, j) = Number(w, n, i) + 1
  BY <1>5 DEF Sequenced, L
<1>6. ASSUME NEW i \in 0 .. (L + 1), IsHead(v, i),
             \A k \in (i + 1) .. (L + 1) : ~Marks(v, k)
      PROVE  s2 = Number(v, n, i)
  <2>1. CASE i = L + 1
    BY <1>3, <1>6, <2>1
  <2>2. CASE i # L + 1
    <3>1. i \in 0 .. L /\ L + 1 \in (i + 1) .. (L + 1)
      BY <1>1, <2>2
    <3>2. s2 = s
      BY <1>3, <1>6, <3>1
    <3>3. \A k \in (i + 1) .. L : ~Marks(w, k)
      BY <1>1, <1>2, <1>6, <3>1
    <3> QED
      BY <1>2, <1>4, <1>6, <3>1, <3>2, <3>3
  <2> QED
    BY <2>1, <2>2
<1>7. ASSUME NEW i \in 0 .. (L + 1), IsHead(v, i),
             NEW j \in (i + 1) .. (L + 1), IsHead(v, j),
             \A k \in (i + 1) .. (j - 1) : ~Marks(v, k)
      PROVE  Number(v, n, j) = Number(v, n, i) + 1
  <2>1. i \in 0 .. L /\ IsHead(w, i) /\ Number(v, n, i) = Number(w, n, i)
    BY <1>1, <1>2, <1>7
  <2>2. \A k \in (i + 1) .. (j - 1) : k \in 1 .. L /\ ~Marks(w, k)
    BY <1>1, <1>2, <1>7, <2>1
  <2>3. CASE j = L + 1
    <3>1. s = Number(w, n, i)
      BY <1>1, <1>4, <2>1, <2>2, <2>3
    <3> QED
      BY <1>3, <1>7, <2>1, <2>3, <3>1
  <2>4. CASE j # L + 1
    <3>1. j \in (i + 1) .. L /\ j \in 0 .. L
      BY <1>1, <2>1, <2>4
    <3> QED
      BY <1>2, <1>5, <1>7, <2>1, <2>2, <3>1
  <2> QED
    BY <2>3, <2>4
<1>8. Sequenced(v, n, s2)
  BY <1>1, <1>6, <1>7 DEF Sequenced
<1> QED
  BY <1>8 DEF v

-----------------------------------------------------------------------------
(* Steps of the client *)

\* A sequence of n times the same item.
LEMMA Repeated ==
    ASSUME NEW S, NEW x \in S, NEW n \in Nat
    PROVE  /\ [i \in 1 .. n |-> x] \in Seq(S) /\ Len([i \in 1 .. n |-> x]) = n
           /\ \A k \in 1 .. n : [i \in 1 .. n |-> x][k] = x
OBVIOUS

\* The body that a head announces.
LEMMA BodyAnnounced ==
    ASSUME NEW r \in Requests,
           NEW body, body = [i \in 1 .. (IF r.te THEN 2 ELSE r.len) |-> BodyItem(r.te)]
    PROVE  /\ body \in Seq(Bodies) /\ body \in Seq(Items)
           /\ Len(body) = IF r.te THEN 2 ELSE r.len
           /\ \A k \in 1 .. Len(body) : body[k] = BodyItem(r.te)
<1>1. r.len \in Nat /\ r.te \in BOOLEAN
  BY RequestFields
<1> DEFINE x == BodyItem(r.te)
           len == IF r.te THEN 2 ELSE r.len
<1>2. Bodies \subseteq Items /\ x \in Bodies /\ len \in Nat
  BY <1>1 DEF Items, Bodies
<1>3. body = [i \in 1 .. len |-> x]
  OBVIOUS
<1> HIDE DEF x, len
<1>4. /\ [i \in 1 .. len |-> x] \in Seq(Bodies) /\ Len([i \in 1 .. len |-> x]) = len
      /\ \A k \in 1 .. len : [i \in 1 .. len |-> x][k] = x
  BY ONLY <1>2, Repeated
<1>5. body \in Seq(Bodies) /\ Len(body) = len /\ \A k \in 1 .. len : body[k] = x
  BY ONLY <1>3, <1>4
<1>6. body \in Seq(Items)
  BY <1>2, <1>5, SeqMonotonic
<1> QED
  BY <1>5, <1>6 DEF x, len

\* What the client still owes are items.
LEMMA OwedItems ==
    ASSUME ConnTypeOK
    PROVE  owed \in Seq(Items) /\ wire \in Seq(Items) /\ Layout \in Seq(Items)
<1>1. Bodies \subseteq Items
  BY DEF Items
<1>2. owed \in Seq(Bodies) /\ wire \in Seq(Items)
  BY DEF ConnTypeOK
<1>3. owed \in Seq(Items)
  BY <1>1, <1>2, SeqMonotonic
<1> QED
  BY <1>2, <1>3, LayoutFacts DEF Layout

\* Steps of the client keep types.
LEMMA ClientTypes ==
    ASSUME ConnTypeOK, ClientStep
    PROVE  ConnTypeOK'
<1>1. UNCHANGED ServerVars
  BY DEF ClientStep, SendHead, SendBody, SendBadHead, ClientCloses
<1>2. client' \in {"open", "closed"} /\ sent' \in Nat
  <2>1. ASSUME NEW r \in Requests, SendHead(r) PROVE sent' \in Nat /\ client' = client
    BY <2>1, RequestFields DEF SendHead
  <2>2. SendBody \/ SendBadHead \/ ClientCloses =>
          sent' \in {sent, sent + 1} /\ client' \in {client, "closed"}
    BY DEF SendBody, SendBadHead, ClientCloses
  <2> QED
    BY <2>1, <2>2 DEF ClientStep, ConnTypeOK
<1>3. owed' \in Seq(Bodies) /\ wire' \in Seq(Items)
  <2>1. owed \in Seq(Bodies) /\ owed \in Seq(Items) /\ wire \in Seq(Items)
    BY OwedItems DEF ConnTypeOK
  <2>2. ASSUME NEW r \in Requests, SendHead(r)
        PROVE  owed' \in Seq(Bodies) /\ wire' \in Seq(Items)
    BY <2>1, <2>2, ItemFields, BodyAnnounced, AppendProperties DEF SendHead
  <2>3. CASE SendBody
    <3>1. Head(owed) \in Items /\ Tail(owed) \in Seq(Bodies)
      BY <2>1, <2>3, EmptySeq, HeadTailProperties DEF SendBody
    <3> QED
      BY <2>1, <2>3, <3>1, AppendProperties DEF SendBody
  <2>4. CASE SendBadHead \/ ClientCloses
    <3>1. /\ owed' = owed
          /\ \/ wire' = wire \/ wire' = Append(wire, BadItem)
             \/ wire' = Append(wire, PartialItem)
      BY <2>4 DEF SendBadHead, ClientCloses
    <3>2. Append(wire, BadItem) \in Seq(Items) /\ Append(wire, PartialItem) \in Seq(Items)
      BY <2>1, ItemFields, AppendProperties
    <3> QED
      BY <2>1, <3>1, <3>2
  <2> QED
    BY <2>2, <2>3, <2>4 DEF ClientStep
<1> QED
  BY <1>1, <1>2, <1>3 DEF ConnTypeOK, ServerVars

\* A head that cannot be parsed, or a piece of one, is no part of a body.
LEMMA OddItemFramed ==
    ASSUME NEW w \in Seq(Items), NEW x \in Items, x.part \in {"bad", "partial"},
           AllFramed(w \o <<>>)
    PROVE  /\ AllFramed(Append(w, x) \o <<>>)
           /\ \A n \in Nat : Framed(w \o <<>>, 1, n) => Framed(Append(w, x) \o <<>>, 1, n)
<1> DEFINE lay == w \o <<>>
           more == Append(w, x) \o <<>>
<1>1. <<>> \in Seq(Items) /\ Len(<<>>) = 0
  BY EmptySeq
<1>2. /\ lay \in Seq(Items) /\ Len(lay) \in Nat
      /\ more \in Seq(Items) /\ Len(more) = Len(lay) + 1
      /\ \A j \in 1 .. Len(lay) : more[j] = lay[j]
      /\ more[Len(lay) + 1] = x
  BY <1>1, SendLayout
<1> HIDE DEF lay, more
<1>3. ~Plain(x) /\ x.part # "head"
  BY DEF Plain
<1>4. AllFramed(lay)
  BY DEF lay
<1>5. AllFramed(more)
  BY <1>2, <1>3, <1>4, GrowAllFramed
<1>6. \A n \in Nat : Framed(lay, 1, n) => Framed(more, 1, n)
  BY <1>2, <1>3, GrowFramed
<1> QED
  BY <1>5, <1>6 DEF lay, more

\* A head comes with the body it announces.
LEMMA HeadFramed ==
    ASSUME NEW w \in Seq(Items), NEW r \in Requests, r.te => r.len = 0,
           NEW o \in Seq(Items), Len(o) = IF r.te THEN 2 ELSE r.len,
           \A k \in 1 .. Len(o) : o[k] = BodyItem(r.te),
           AllFramed(w \o <<>>)
    PROVE  /\ AllFramed(Append(w, HeadItem(r)) \o o)
           /\ \A n \in Nat : Framed(w \o <<>>, 1, n)
                => Framed(Append(w, HeadItem(r)) \o o, 1, n)
<1> DEFINE lay == w \o <<>>
           h == HeadItem(r)
           more == Append(w, h) \o o
           L == Len(w)
<1>1. h \in Items /\ h.part = "head" /\ h.request = r /\ ~Plain(h)
  BY ItemFields DEF Plain
<1>2. /\ lay \in Seq(Items) /\ Len(lay) = L /\ L \in Nat /\ Len(o) \in Nat
      /\ more \in Seq(Items) /\ Len(more) = L + 1 + Len(o)
      /\ \A j \in 1 .. L : more[j] = lay[j]
      /\ more[L + 1] = h
      /\ \A k \in 1 .. Len(o) : more[L + 1 + k] = o[k]
  <2>1. Len(w) \in Nat /\ Len(o) \in Nat
    OBVIOUS
  <2> HIDE DEF h
  <2>2. /\ w \o <<>> \in Seq(Items) /\ Len(w \o <<>>) = Len(w)
        /\ Append(w, h) \o o \in Seq(Items)
        /\ Len(Append(w, h) \o o) = Len(w) + 1 + Len(o)
        /\ \A j \in 1 .. Len(w) : (Append(w, h) \o o)[j] = (w \o <<>>)[j]
        /\ (Append(w, h) \o o)[Len(w) + 1] = h
        /\ \A k \in 1 .. Len(o) : (Append(w, h) \o o)[Len(w) + 1 + k] = o[k]
    BY ONLY <1>1, w \in Seq(Items), o \in Seq(Items), SendLayout
  <2> QED
    BY <2>1, <2>2
<1>3. /\ r.len \in Nat /\ r.te \in BOOLEAN
      /\ ~Plain(BodyItem(TRUE)) /\ Plain(BodyItem(FALSE))
      /\ BodyItem(TRUE).part # "head" /\ BodyItem(FALSE).part # "head"
  BY RequestFields, ItemFields DEF Plain
<1>4. AllFramed(lay)
  OBVIOUS
<1> HIDE DEF lay, more, h, L
<1> DEFINE u == BodyItem(r.te)
<1>5. /\ Len(o) = IF r.te THEN 2 ELSE r.len
      /\ r.te => r.len = 0 /\ ~Plain(u)
      /\ ~r.te => Plain(u)
      /\ u.part # "head"
      /\ \A j \in (L + 2) .. Len(more) : more[j] = u
  <2>1. /\ r.te => ~Plain(u)
        /\ ~r.te => Plain(u)
        /\ u.part # "head"
    BY <1>3
  <2>2. ASSUME NEW j \in (L + 2) .. Len(more)
        PROVE  more[j] = u
    <3> DEFINE k == j - (L + 1)
    <3>1. k \in 1 .. Len(o) /\ L + 1 + k = j
      BY <1>2
    <3> HIDE DEF k
    <3> QED
      BY <1>2, <3>1
  <2> QED
    BY <2>1, <2>2
<1> HIDE DEF u
<1>6. Framed(more, L + 2, r.len)
  <2>1. CASE r.te
    BY ONLY <1>2, <1>5, <2>1 DEF Framed
  <2>2. CASE ~r.te
    BY ONLY <1>2, <1>3, <1>5, <2>2 DEF Framed
  <2> QED
    BY <2>1, <2>2
<1>7. ASSUME NEW i \in (L + 1) .. Len(more), more[i].part = "head"
      PROVE  Framed(more, i + 1, more[i].request.len)
  <2>1. i = L + 1
    BY ONLY <1>2, <1>5, <1>7, i \in (L + 1) .. Len(more)
  <2>2. i + 1 = L + 2 /\ more[i].request.len = r.len
    BY <1>1, <1>2, <2>1
  <2> QED
    BY <1>6, <2>2
<1>8. L < Len(more)
  BY <1>2
<1>9. AllFramed(more)
  BY <1>1, <1>2, <1>4, <1>7, <1>8, GrowAllFramed
<1>10. ASSUME NEW n \in Nat, Framed(lay, 1, n) PROVE Framed(more, 1, n)
  <2>1. ~Plain(more[Len(lay) + 1]) /\ Len(lay) < Len(more)
    BY <1>1, <1>2, <1>8
  <2>2. \A j \in 1 .. Len(lay) : more[j] = lay[j]
    BY <1>2
  <2>3. lay \in Seq(Items) /\ more \in Seq(Items) /\ 1 \in Nat \ {0}
    BY <1>2
  <2> QED
    BY ONLY <1>10, <2>1, <2>2, <2>3, n \in Nat, GrowFramed
<1> QED
  BY <1>9, <1>10 DEF lay, more, h

\* Whatever the client sends, every head keeps its body, and the rest of the
\* current body stays where the thread looks for it.
LEMMA ClientFraming ==
    ASSUME ConnTypeOK, HeadsFramed, RestFramed, CountsAgree, ClientStep
    PROVE  HeadsFramed' /\ RestFramed'
<1>1. /\ owed \in Seq(Items) /\ wire \in Seq(Items)
      /\ pc' = pc /\ req' = req /\ got' = got /\ todo' = todo
      /\ (Strayed <=> Strayed')
  BY OwedItems DEF ClientStep, SendHead, SendBody, SendBadHead, ClientCloses, ServerVars, Strayed
<1>2. Pending' = Pending /\ (Reading => Pending \in Nat)
  <2>1. req.len \in Nat
    BY RequestFields DEF ConnTypeOK
  <2> QED
    BY <1>1, <2>1 DEF Pending, CountsAgree, ConnTypeOK, Labels, Reading
<1>3. Reading' => Reading
  BY <1>1 DEF Reading, ClientStep, SendHead, SendBody, SendBadHead, ClientCloses
<1>4. CASE Layout' = Layout
  BY <1>1, <1>2, <1>3, <1>4 DEF HeadsFramed, RestFramed
<1>5. ASSUME AllFramed(Layout'),
             \A n \in Nat : Framed(Layout, 1, n) => Framed(Layout', 1, n)
      PROVE  HeadsFramed' /\ RestFramed'
  BY <1>1, <1>2, <1>3, <1>5 DEF HeadsFramed, RestFramed
<1>6. ASSUME NEW x \in Items, x.part \in {"bad", "partial"},
             owed = <<>>, owed' = <<>>, wire' = Append(wire, x)
      PROVE  HeadsFramed' /\ RestFramed'
  BY <1>1, <1>5, <1>6, OddItemFramed DEF HeadsFramed, Layout
<1>7. CASE SendBadHead
  BY <1>6, <1>7, ItemFields DEF SendBadHead
<1>8. CASE ClientCloses
  BY <1>4, <1>6, <1>8, ItemFields DEF ClientCloses, Layout
<1>9. CASE SendBody
  BY <1>1, <1>4, <1>9, SendBodyLayout DEF SendBody, Layout
<1>10. ASSUME NEW r \in Requests, SendHead(r)
       PROVE  HeadsFramed' /\ RestFramed'
  <2>1. /\ owed = <<>> /\ wire' = Append(wire, HeadItem(r)) /\ owed' \in Seq(Items)
        /\ Len(owed') = IF r.te THEN 2 ELSE r.len
        /\ \A k \in 1 .. Len(owed') : owed'[k] = BodyItem(r.te)
        /\ r.te => r.len = 0
    BY <1>10, BodyAnnounced DEF SendHead
  <2> QED
    BY <1>1, <1>5, <2>1, HeadFramed DEF HeadsFramed, Layout
<1> QED
  BY <1>7, <1>8, <1>9, <1>10 DEF ClientStep

\* What the client sends is numbered in sequence, and concerns nothing else.
LEMMA ClientNumbers ==
    ASSUME ConnInv, ClientStep
    PROVE  /\ CountsAgree' /\ ResponseStage' /\ InSequence' /\ AnswersSoFar'
           /\ HeadsCounted'
<1>1. UNCHANGED ServerVars
  BY DEF ClientStep, SendHead, SendBody, SendBadHead, ClientCloses
<1>2. CountsAgree' /\ ResponseStage' /\ AnswersSoFar' /\ HeadsCounted'
  BY <1>1 DEF ConnInv, CountsAgree, ResponseStage, AnswersSoFar, Answered, HeadsCounted,
              Strayed, ServerVars
<1>3. InSequence'
  <2> SUFFICES ASSUME pc # "closed", ~Strayed PROVE Sequenced(wire', req.n, sent')
    BY <1>1 DEF InSequence, Strayed, ServerVars
  <2>1. /\ wire \in Seq(Items) /\ owed \in Seq(Items) /\ sent \in Nat /\ sent' \in Nat
        /\ req.n \in Nat /\ Sequenced(wire, req.n, sent)
    BY OwedItems, RequestFields, ClientTypes DEF ConnInv, ConnTypeOK, InSequence
  <2>2. ASSUME NEW r \in Requests, SendHead(r) PROVE Sequenced(wire', req.n, sent')
    <3> DEFINE x == HeadItem(r)
    <3>1. x \in Items /\ x.part = "head" /\ x.request.n = sent + 1
      BY <2>2, ItemFields DEF SendHead
    <3>2. wire' = Append(wire, x) /\ sent' = sent + 1
      BY <2>2 DEF SendHead
    <3> HIDE DEF x
    <3> QED
      BY <2>1, <3>1, <3>2, NumbersGrow
  <2>3. CASE SendBody
    <3> DEFINE x == Head(owed)
    <3>1. x \in Items /\ x.part = "body"
      <4>1. x \in Bodies
        BY <2>3, EmptySeq, HeadTailProperties DEF SendBody, ConnInv, ConnTypeOK
      <4> QED
        BY <4>1, ItemFields DEF Bodies
    <3>2. wire' = Append(wire, x) /\ sent' = sent
      BY <2>3 DEF SendBody
    <3> HIDE DEF x
    <3> QED
      BY <2>1, <3>1, <3>2, NumbersGrow
  <2>4. CASE SendBadHead
    BY <2>1, <2>4, ItemFields, NumbersGrow DEF SendBadHead
  <2>5. CASE ClientCloses
    <3>1. sent' = sent /\ (wire' = wire \/ wire' = Append(wire, PartialItem))
      BY <2>5 DEF ClientCloses
    <3>2. CASE wire' = wire
      BY <2>1, <3>1, <3>2
    <3>3. CASE wire' = Append(wire, PartialItem)
      BY <2>1, <3>1, <3>3, ItemFields, NumbersGrow
    <3> QED
      BY <3>1, <3>2, <3>3
  <2> QED
    BY <2>2, <2>3, <2>4, <2>5 DEF ClientStep
<1> QED
  BY <1>2, <1>3

-----------------------------------------------------------------------------
(* Steps of the thread *)

ThreadStep == ServerStep \/ StreamEnds \/ TunnelEnds

\* The steps that take an item off the wire, and the ones that do not.
Takes ==
    ReadHead \/ ReadStray \/ ReadBadHead \/ JsonChunk \/ UploadChunk \/ UploadFails \/ DrainChunk

\* What a step of the thread does to the wire.
LEMMA ThreadWire ==
    ASSUME ThreadStep
    PROVE  /\ client' = client /\ sent' = sent /\ owed' = owed
           /\ Takes => wire # <<>> /\ wire' = Tail(wire)
           /\ ~Takes => wire' = wire
BY DEF ThreadStep, ServerStep, Takes, ClientVars, ReadHead, ReadStray, TakeHead, ReadBadHead,
       HeadEof, HeadTimeout, AnswerFixed, BeginBody, JsonTooLarge, JsonChunk, UploadChunk, UploadFails, BodyFails,
       BodyDone, StartDownload, SendRaw, FileShrank, SendDone, StartStream, StreamEnds,
       Hijack, TunnelEnds, HandlerFails, WriteFails, Finish, DrainRefused, DrainChunk,
       DrainTimeout, DrainDone

\* Only reading a head changes what is remembered of the heads.
LEMMA ThreadHeads ==
    ASSUME ThreadStep, ~ReadHead, ~ReadStray
    PROVE  heads' = heads /\ (Strayed <=> Strayed') /\ (SomeTe <=> SomeTe')
<1>1. heads' = heads
  BY DEF ThreadStep, ServerStep, ReadBadHead, HeadEof, HeadTimeout, AnswerFixed, BeginBody,
       JsonTooLarge, JsonChunk, UploadChunk, UploadFails, BodyFails,
       BodyDone, StartDownload, SendRaw, FileShrank, SendDone, StartStream, StreamEnds,
       Hijack, TunnelEnds, HandlerFails, WriteFails, Finish, DrainRefused, DrainChunk,
       DrainTimeout, DrainDone, Close
<1> QED
  BY <1>1 DEF Strayed, SomeTe

\* Reading one adds it.
LEMMA HeadRead ==
    ASSUME ConnTypeOK, NEW r \in Requests, TakeHead(r)
    PROVE  /\ heads' \in Seq(Parsed) /\ Len(heads') = Len(heads) + 1 /\ heads' # <<>>
           /\ heads'[Len(heads')].n = r.n
           /\ \A k \in DOMAIN heads : k \in DOMAIN heads' /\ heads'[k] = heads[k]
           /\ \A k \in DOMAIN heads' : k \in DOMAIN heads \/ k = Len(heads) + 1
           /\ Strayed' <=> Strayed \/ r.n = 0
           /\ SomeTe' <=> SomeTe \/ r.te
<1> DEFINE x == [n |-> r.n, te |-> r.te]
           L == Len(heads)
<1>1. x \in Parsed /\ x.n = r.n /\ x.te = r.te /\ heads \in Seq(Parsed)
  BY RequestFields DEF Parsed, ConnTypeOK
<1>2. heads' = Append(heads, x)
  BY DEF TakeHead
<1> HIDE DEF x
<1>3. /\ heads' \in Seq(Parsed) /\ Len(heads') = L + 1 /\ heads'[L + 1] = x
      /\ \A k \in 1 .. L : heads'[k] = heads[k]
  BY <1>1, <1>2, AppendProperties
<1>4. L \in Nat /\ DOMAIN heads = 1 .. L /\ DOMAIN heads' = 1 .. (L + 1)
  BY <1>1, <1>3
<1> HIDE DEF L
<1>5. heads' # <<>>
  BY <1>3, <1>4, EmptySeq
<1>6. /\ \A k \in DOMAIN heads : k \in DOMAIN heads' /\ heads'[k] = heads[k]
      /\ \A k \in DOMAIN heads' : k \in DOMAIN heads \/ k = L + 1
      /\ L + 1 \in DOMAIN heads'
  BY <1>3, <1>4
<1>7. Strayed' <=> Strayed \/ r.n = 0
  BY <1>1, <1>3, <1>6 DEF Strayed
<1>8. SomeTe' <=> SomeTe \/ r.te
  BY <1>1, <1>3, <1>6 DEF SomeTe
<1> QED
  BY <1>1, <1>3, <1>5, <1>6, <1>7, <1>8 DEF L

\* The two ways to read one.
LEMMA ReadingAHead ==
    ASSUME ConnTypeOK, ReadHead \/ ReadStray
    PROVE  \E r \in Requests :
             /\ TakeHead(r) /\ pc = "head" /\ wire # <<>>
             /\ \/ Head(wire).part = "head" /\ r = Head(wire).request
                \/ r.n = 0 /\ OffBoundary
<1>1. CASE ReadHead
  <2>1. Head(wire).request \in Requests
    BY <1>1, HeadTailProperties, EmptySeq, HeadsCarryRequests DEF ReadHead, ConnTypeOK
  <2> QED
    BY <1>1, <2>1 DEF ReadHead
<1>2. CASE ReadStray
  BY <1>2 DEF ReadStray
<1> QED
  BY <1>1, <1>2

\* Steps that end the connection.
Ends ==
    \/ ReadBadHead \/ HeadEof \/ HeadTimeout \/ JsonTooLarge \/ UploadFails \/ BodyFails
    \/ FileShrank \/ TunnelEnds \/ HandlerFails \/ WriteFails \/ DrainRefused \/ DrainTimeout

\* They leave the rest of the thread's state as it was, but for a final answer
\* and the failed write.
LEMMA EndingStep ==
    ASSUME Ends
    PROVE  /\ pc' = "closed" /\ UNCHANGED <<req, got, consumed, todo, resp, heads>>
           /\ answers' = answers \/ (pc = "head" /\ answers' = Append(answers, 0))
           /\ broken' \in {broken, TRUE}
BY DEF Ends, Close, ReadBadHead, HeadEof, HeadTimeout, JsonTooLarge, UploadFails, BodyFails,
       FileShrank, TunnelEnds, HandlerFails, WriteFails, DrainRefused, DrainTimeout

\* Steps of the thread keep types.
LEMMA ThreadTypes ==
    ASSUME ConnTypeOK, CountsAgree, ThreadStep
    PROVE  ConnTypeOK'
<1>1. client' \in {"open", "closed"} /\ sent' \in Nat /\ owed' \in Seq(Bodies)
  BY ThreadWire DEF ConnTypeOK
<1>2. wire' \in Seq(Items)
  <2>1. wire' = wire \/ (wire # <<>> /\ wire' = Tail(wire))
    BY ThreadWire
  <2>2. wire \in Seq(Items)
    BY DEF ConnTypeOK
  <2> QED
    BY <2>1, <2>2, HeadTailProperties
<1>3. /\ req.len \in Nat /\ req.n \in Nat /\ got \in Nat /\ consumed \in Nat
      /\ todo \in Int /\ broken \in BOOLEAN
      /\ heads \in Seq(Parsed)
  BY RequestFields DEF ConnTypeOK
<1>4. CASE Ends
  <2>1. answers' \in Seq(Nat)
    <3>1. answers' = answers \/ answers' = Append(answers, 0)
      BY <1>4, EndingStep
    <3>2. answers \in Seq(Nat) /\ Append(answers, 0) \in Seq(Nat)
      BY AppendProperties DEF ConnTypeOK
    <3> QED
      BY <3>1, <3>2
  <2> QED
    BY <1>1, <1>2, <1>3, <1>4, <2>1, EndingStep DEF ConnTypeOK, Labels
<1>5. CASE ReadHead \/ ReadStray
  <2>1. PICK r \in Requests : TakeHead(r)
    BY <1>5, ReadingAHead
  <2>2. heads' \in Seq(Parsed)
    BY <2>1, HeadRead
  <2> QED
    BY <1>1, <1>2, <1>3, <2>1, <2>2 DEF TakeHead, ConnTypeOK, Labels
<1>6. CASE AnswerFixed \/ StartDownload \/ StartStream \/ Hijack
  <2>1. answers' \in Seq(Nat)
    <3>1. answers' = Append(answers, req.n)
      BY <1>6 DEF AnswerFixed, StartDownload, StartStream, Hijack
    <3> QED
      BY <1>3, <3>1, AppendProperties DEF ConnTypeOK
  <2>2. /\ resp' \in [framing : {"none", "fixed", "chunked"}, left : Nat]
        /\ pc' \in Labels
    BY <1>6 DEF AnswerFixed, StartDownload, StartStream, Hijack, FixedSent, ConnTypeOK, Labels
  <2>3. UNCHANGED <<req, got, consumed, todo, heads, broken>>
    BY <1>6 DEF AnswerFixed, StartDownload, StartStream, Hijack
  <2> QED
    BY <1>1, <1>2, <1>3, <2>1, <2>2, <2>3 DEF ConnTypeOK
<1>7. CASE BeginBody \/ JsonChunk \/ UploadChunk \/ BodyDone \/ SendDone \/ StreamEnds
  <2>1. got' \in Nat /\ consumed' \in Nat /\ pc' \in Labels
    BY SMTT(30), <1>3, <1>7 DEF BeginBody, JsonChunk, UploadChunk, BodyDone, SendDone, StreamEnds,
                      ConnTypeOK, Labels
  <2>2. UNCHANGED <<req, todo, resp, answers, heads, broken>>
    BY <1>7 DEF BeginBody, JsonChunk, UploadChunk, BodyDone, SendDone, StreamEnds
  <2> QED
    BY <1>1, <1>2, <1>3, <2>1, <2>2 DEF ConnTypeOK
<1>8. CASE SendRaw \/ Finish
  <2>1. resp' \in [framing : {"none", "fixed", "chunked"}, left : Nat]
    BY <1>8 DEF SendRaw, Finish, ConnTypeOK
  <2>2. todo' \in Int /\ pc' \in Labels /\ UNCHANGED <<req, got, consumed, answers, heads, broken>>
    BY <1>3, <1>8 DEF SendRaw, Finish, ConnTypeOK, Labels
  <2> QED
    BY <1>1, <1>2, <1>3, <2>1, <2>2 DEF ConnTypeOK
<1>9. CASE DrainChunk \/ DrainDone
  <2>1. /\ todo' \in Int /\ pc' \in Labels
        /\ UNCHANGED <<req, got, consumed, resp, answers, heads, broken>>
    BY <1>3, <1>9 DEF DrainChunk, DrainDone, ConnTypeOK, Labels
  <2> QED
    BY <1>1, <1>2, <1>3, <2>1 DEF ConnTypeOK
<1> QED
  BY <1>4, <1>5, <1>6, <1>7, <1>8, <1>9 DEF ThreadStep, ServerStep, Ends

\* The thread reads a body exactly as far as it goes.
LEMMA ThreadFraming ==
    ASSUME ConnTypeOK, HeadsFramed, RestFramed, CountsAgree, ThreadStep
    PROVE  HeadsFramed' /\ RestFramed'
<1>1. /\ owed \in Seq(Items) /\ wire \in Seq(Items) /\ Layout \in Seq(Items)
      /\ client' = client /\ owed' = owed
      /\ req.len \in Nat /\ got \in Nat
  BY OwedItems, ThreadWire, RequestFields DEF ConnTypeOK
<1>2. ASSUME wire # <<>>
      PROVE  /\ Layout[1] = Head(wire) /\ Len(Layout) \in Nat /\ Len(Layout) > 0
             /\ Head(wire) \in Items
  BY <1>1, <1>2, ReadLayout, LayoutFacts DEF Layout
<1> DEFINE rest == Tail(wire) \o owed
<1>3. ASSUME Takes
      PROVE  /\ Layout' = rest /\ rest \in Seq(Items)
             /\ wire # <<>>
             /\ Reading /\ ~Strayed => Framed(Layout, 1, Pending)
             /\ Len(rest) = Len(Layout) - 1
             /\ \A i \in 1 .. (Len(Layout) - 1) : rest[i] = Layout[i + 1]
  <2>1. wire # <<>> /\ wire' = Tail(wire)
    BY <1>3, ThreadWire
  <2>2. Tail(wire) \in Seq(Items)
    BY <1>1, <2>1, HeadTailProperties
  <2> QED
    BY <1>1, <2>1, <2>2, LayoutFacts, ReadLayout DEF Layout, RestFramed
<1>4. ~Takes => Layout' = Layout
  BY <1>1, ThreadWire DEF Layout
<1> HIDE DEF rest
<1>5. HeadsFramed'
  <2>1. CASE Takes
    <3>1. AllFramed(rest)
      BY <1>1, <1>2, <1>3, <2>1, ReadAllFramed DEF HeadsFramed
    <3> QED
      BY <1>3, <2>1, <3>1 DEF HeadsFramed
  <2>2. CASE ~Takes
    BY <1>4, <2>2 DEF HeadsFramed
  <2> QED
    BY <2>1, <2>2
<1>6. CASE Ends
  BY <1>5, <1>6, EndingStep DEF RestFramed, Reading
<1>7. CASE ReadHead \/ ReadStray
  <2> SUFFICES ASSUME ~Strayed' PROVE RestFramed'
    BY <1>5 DEF RestFramed
  <2>1. /\ Takes /\ wire # <<>> /\ Head(wire).part = "head" /\ req' = Head(wire).request
        /\ Pending' = req'.len - 0
    <3>1. PICK r \in Requests :
            /\ TakeHead(r) /\ wire # <<>>
            /\ r.n # 0 => Head(wire).part = "head" /\ r = Head(wire).request
      BY <1>7, ReadingAHead
    <3>2. r.n # 0
      BY <3>1, HeadRead
    <3> QED
      BY <1>7, <3>1, <3>2 DEF Takes, TakeHead, Pending
  <2>2. req'.len \in Nat /\ Pending' = req'.len
    BY <1>2, <2>1, HeadsCarryRequests, RequestFields
  <2>3. Framed(Layout, 1 + 1, req'.len)
    BY <1>1, <1>2, <2>1 DEF HeadsFramed, AllFramed
  <2>4. Framed(rest, 1, req'.len)
    <3> DEFINE n == req'.len
    <3>1. /\ n \in Nat /\ Framed(Layout, 1 + 1, n) /\ Len(Layout) > 0 /\ 1 \in Nat \ {0}
          /\ Len(rest) = Len(Layout) - 1 /\ rest \in Seq(Items) /\ Layout \in Seq(Items)
          /\ \A i \in 1 .. (Len(Layout) - 1) : rest[i] = Layout[i + 1]
      BY <1>1, <1>2, <1>3, <2>1, <2>2, <2>3
    <3> HIDE DEF n
    <3>2. Framed(rest, 1, n)
      BY ONLY <3>1, ReadFramed
    <3> QED
      BY <3>2 DEF n
  <2>5. Layout' = rest /\ Pending' = req'.len
    BY <1>3, <2>1, <2>2
  <2>6. Framed(Layout', 1, Pending')
    BY ONLY <2>4, <2>5
  <2> QED
    BY ONLY <2>6 DEF RestFramed
<1>8. CASE JsonChunk \/ UploadChunk \/ DrainChunk
  <2> SUFFICES ASSUME ~Strayed' PROVE RestFramed'
    BY <1>5 DEF RestFramed
  <2>0. ~Strayed
    <3>1. heads' = heads
      BY <1>8 DEF JsonChunk, UploadChunk, DrainChunk
    <3> QED
      BY <3>1 DEF Strayed
  <2>1. /\ Takes /\ Pending \in Nat \ {0} /\ Pending' = Pending - 1 /\ Reading
    <3>1. CASE JsonChunk \/ UploadChunk
      <4>1. /\ pc = "body" /\ got < req.len /\ wire # <<>> /\ got' = got + 1
            /\ pc' = pc /\ req' = req
        BY <3>1 DEF JsonChunk, UploadChunk, MoreBody
      <4> QED
        BY <1>1, <3>1, <4>1 DEF Takes, Pending, Reading
    <3>2. CASE DrainChunk
      <4>1. /\ pc = "drain" /\ todo \in Nat \ {0} /\ wire # <<>> /\ todo' = todo - 1 /\ pc' = pc
        BY <3>2 DEF DrainChunk, Draining
      <4> QED
        BY <3>2, <4>1 DEF Takes, Pending, Reading
    <3> QED
      BY <1>8, <3>1, <3>2
  <2>2. Framed(rest, 1, Pending - 1)
    <3> DEFINE n == Pending
    <3>1. /\ n \in Nat \ {0} /\ Framed(Layout, 1, n) /\ Len(Layout) > 0
          /\ Len(rest) = Len(Layout) - 1 /\ rest \in Seq(Items)
          /\ \A i \in 1 .. (Len(Layout) - 1) : rest[i] = Layout[i + 1]
      BY <1>2, <1>3, <2>0, <2>1
    <3> HIDE DEF n
    <3>2. Framed(rest, 1, n - 1)
      BY <1>1, <3>1, ReadUnit
    <3> QED
      BY <3>2 DEF n
  <2>3. Framed(Layout', 1, Pending')
    BY <1>3, <2>1, <2>2
  <2> QED
    BY <2>3 DEF RestFramed
<1>9. ASSUME ~Takes, Pending' = Pending, Reading' => Reading, heads' = heads
      PROVE  RestFramed'
  BY <1>4, <1>9 DEF RestFramed, Strayed
<1>10. CASE AnswerFixed \/ BeginBody \/ BodyDone \/ StartDownload \/ SendRaw \/ SendDone
            \/ StartStream \/ StreamEnds
  <2>1. ~Takes /\ Pending' = Pending /\ (Reading' => Reading) /\ heads' = heads
    BY <1>10 DEF Takes, ReadHead, ReadStray, ReadBadHead, JsonChunk, UploadChunk, UploadFails, DrainChunk,
        MoreBody, Draining, AnswerFixed, BeginBody, Reaches, BodyDone, StartDownload, SendRaw,
        SendDone, StartStream, StreamEnds, Pending, Reading, ClientVars
  <2> QED
    BY <1>5, <1>9, <2>1
<1>11. CASE Hijack
  BY <1>5, <1>11 DEF Hijack, RestFramed, Reading
<1>12. CASE Finish
  <2>1. ~Takes /\ Pending' = Pending /\ (Reading' => Reading) /\ heads' = heads
    BY <1>12 DEF Takes, ReadHead, ReadStray, ReadBadHead, JsonChunk, UploadChunk, UploadFails, DrainChunk,
        MoreBody, Draining, Finish, Pending, Reading, ClientVars, CountsAgree
  <2> QED
    BY <1>5, <1>9, <2>1
<1>13. CASE DrainDone
  <2>1. /\ ~Takes /\ (Reading' => Pending' = 0)
        /\ Reading' => Reading
        /\ Pending = todo
        /\ (Strayed <=> Strayed')
    BY <1>13 DEF Strayed, Takes, ReadHead, ReadStray, ReadBadHead, JsonChunk, UploadChunk, UploadFails, DrainChunk,
        MoreBody, Draining, DrainDone, Pending, Reading, ClientVars
  <2>2. CASE todo = 0
    BY <1>4, <1>5, <2>1, <2>2 DEF RestFramed
  <2>3. CASE Draining /\ AtEof
    <3>1. ASSUME Reading', ~Strayed' PROVE FALSE
      <4>1. wire = <<PartialItem>> /\ todo \in Nat /\ todo >= 1 /\ Framed(Layout, 1, todo)
        BY <1>1, <1>13, <2>1, <2>3, <3>1 DEF Draining, AtEof, Reading, DrainDone, RestFramed
      <4>2. Plain(Layout[1])
        BY <4>1 DEF Framed
      <4>3. Head(wire) = PartialItem /\ wire # <<>>
        BY <4>1
      <4> QED
        BY <1>2, <4>2, <4>3, ItemFields DEF Plain
    <3> QED
      BY <1>5, <3>1 DEF RestFramed
  <2> QED
    BY <1>13, <2>2, <2>3 DEF DrainDone
<1> QED
  BY <1>6, <1>7, <1>8, <1>10, <1>11, <1>12, <1>13 DEF ThreadStep, ServerStep, Ends

\* What the handlers count, and how far the response is.
LEMMA ThreadCounts ==
    ASSUME ConnTypeOK, CountsAgree, ResponseStage, ThreadStep
    PROVE  CountsAgree' /\ ResponseStage'
<1>1. /\ req.len \in Nat /\ got \in Nat /\ consumed \in Nat /\ todo \in Int
      /\ req.route \in Routes /\ resp.left \in Nat
      /\ resp \in [framing : {"none", "fixed", "chunked"}, left : Nat]
  BY RequestFields DEF ConnTypeOK
<1>2. CASE Ends
  BY <1>2, EndingStep DEF CountsAgree, ResponseStage
<1>3. CASE ReadHead \/ ReadStray
  BY <1>3 DEF ReadHead, ReadStray, TakeHead, CountsAgree, ResponseStage
<1>4. CASE AnswerFixed \/ StartDownload \/ StartStream \/ Hijack
  <2>1. CountsAgree'
    BY <1>1, <1>4 DEF AnswerFixed, StartDownload, StartStream, Hijack, Reaches, CountsAgree
  <2>2. ResponseStage'
    BY <1>1, <1>4 DEF AnswerFixed, StartDownload, StartStream, Hijack, FixedSent, ResponseStage
  <2> QED
    BY <2>1, <2>2
<1>5. CASE BeginBody \/ JsonChunk \/ UploadChunk \/ BodyDone
  <2>1. CountsAgree'
    BY <1>1, <1>5 DEF BeginBody, JsonChunk, UploadChunk, BodyDone, MoreBody, Reaches,
                      CountsAgree
  <2>2. ResponseStage'
    BY <1>5 DEF BeginBody, JsonChunk, UploadChunk, BodyDone, MoreBody, ResponseStage
  <2> QED
    BY <2>1, <2>2
<1>6. CASE SendRaw \/ SendDone \/ StreamEnds
  BY <1>1, <1>6 DEF SendRaw, SendDone, StreamEnds, CountsAgree, ResponseStage
<1>7. CASE Finish
  <2>1. CountsAgree'
    BY <1>1, <1>7 DEF Finish, CountsAgree
  <2>2. ResponseStage'
    BY <1>1, <1>7 DEF Finish, ResponseStage
  <2> QED
    BY <2>1, <2>2
<1>8. CASE DrainChunk \/ DrainDone
  BY <1>1, <1>8 DEF DrainChunk, DrainDone, Draining, CountsAgree, ResponseStage
<1> QED
  BY <1>2, <1>3, <1>4, <1>5, <1>6, <1>7, <1>8 DEF ThreadStep, ServerStep, Ends

\* One more answer.
LEMMA Appended ==
    ASSUME NEW out \in Seq(Nat), NEW x \in Nat
    PROVE  /\ Append(out, x) \in Seq(Nat) /\ Len(Append(out, x)) = Len(out) + 1
           /\ Append(out, x)[Len(out) + 1] = x
           /\ \A i \in 1 .. Len(out) : Append(out, x)[i] = out[i]
           /\ DOMAIN out = 1 .. Len(out) /\ Len(out) \in Nat
           /\ DOMAIN Append(out, x) = 1 .. (Len(out) + 1)
<1>1. DOMAIN out = 1 .. Len(out) /\ Len(out) \in Nat
  OBVIOUS
<1>2. /\ Append(out, x) \in Seq(Nat) /\ Len(Append(out, x)) = Len(out) + 1
      /\ Append(out, x)[Len(out) + 1] = x
      /\ \A i \in 1 .. Len(out) : Append(out, x)[i] = out[i]
  BY AppendProperties
<1> QED
  BY <1>1, <1>2

\* It is to the head that was read last ...
LEMMA OneMoreAnswer ==
    ASSUME NEW out \in Seq(Nat), NEW src \in Seq(Parsed), Len(src) = Len(out) + 1,
           NEW x \in Nat, x = src[Len(src)].n, Answered(out, src)
    PROVE  Len(Append(out, x)) = Len(src) /\ Answered(Append(out, x), src)
<1> DEFINE more == Append(out, x)
           L == Len(out)
<1>1. /\ Len(more) = L + 1 /\ more[L + 1] = x
      /\ \A i \in 1 .. L : more[i] = out[i]
      /\ DOMAIN out = 1 .. L /\ L \in Nat /\ DOMAIN more = 1 .. (L + 1)
  BY Appended
<1>2. DOMAIN src = 1 .. (L + 1) /\ x = src[L + 1].n
  OBVIOUS
<1>3. \A i \in 1 .. L : out[i] = src[i].n
  BY <1>1 DEF Answered
<1> HIDE DEF more, L
<1>4. Answered(more, src)
  BY ONLY <1>1, <1>2, <1>3 DEF Answered
<1> QED
  BY <1>1, <1>4 DEF more, L

\* ... or, finally, to none.
LEMMA FinalAnswer ==
    ASSUME NEW out \in Seq(Nat), NEW src, Answered(out, src),
           NEW more, more = Append(out, 0)
    PROVE  /\ more # <<>> /\ more[Len(more)] = 0
           /\ \A k \in 1 .. (Len(more) - 1) : k \in DOMAIN src /\ more[k] = src[k].n
<1>1. /\ more \in Seq(Nat) /\ Len(more) = Len(out) + 1 /\ more[Len(out) + 1] = 0
      /\ \A i \in 1 .. Len(out) : more[i] = out[i]
      /\ Len(out) \in Nat /\ DOMAIN out = 1 .. Len(out)
  BY Appended
<1>2. more # <<>> /\ more[Len(more)] = 0
  BY <1>1, EmptySeq
<1>3. \A k \in 1 .. (Len(more) - 1) : k \in DOMAIN src /\ more[k] = src[k].n
  BY <1>1 DEF Answered
<1> QED
  BY <1>2, <1>3

\* What a handler or drain_body takes for a unit of the body is one.
LEMMA BodyOnWire ==
    ASSUME ConnInv, JsonChunk \/ UploadChunk \/ DrainChunk, ~Strayed
    PROVE  Plain(Head(wire))
<1>1. req.len \in Nat /\ got \in Nat
  BY RequestFields DEF ConnInv, ConnTypeOK
<1>2. Pending \in Nat \ {0} /\ Reading /\ wire # <<>>
  BY <1>1 DEF JsonChunk, UploadChunk, DrainChunk, MoreBody, Draining, Pending, Reading
<1>3. Plain(Layout[1])
  BY <1>2 DEF ConnInv, RestFramed, Framed
<1>4. Layout[1] = Head(wire)
  BY <1>2, OwedItems, ReadLayout DEF ConnInv, Layout
<1> QED
  BY <1>3, <1>4

\* Requests are taken, and answered, in their order.
LEMMA ThreadOrder ==
    ASSUME ConnInv, ThreadStep
    PROVE  InSequence' /\ AnswersSoFar' /\ HeadsCounted'
<1>1. /\ wire \in Seq(Items) /\ sent \in Nat /\ req.n \in Nat /\ answers \in Seq(Nat)
      /\ client' = client /\ sent' = sent
      /\ req.len \in Nat /\ got \in Nat /\ heads \in Seq(Parsed)
  BY OwedItems, RequestFields, ThreadWire DEF ConnInv, ConnTypeOK
<1>2. /\ pc # "closed" /\ ~Strayed => Sequenced(wire, req.n, sent)
      /\ pc # "closed" => Answered(answers, heads)
      /\ pc \in {"head", "send", "stream", "tunnel", "finish", "drain"} =>
           Len(answers) = Len(heads)
      /\ pc \in {"route", "body", "answer"} => Len(answers) + 1 = Len(heads)
      /\ HeadsCounted
  BY DEF ConnInv, InSequence, AnswersSoFar
<1>3. CASE Ends
  <2>1. pc' = "closed" /\ pc # "closed" /\ UNCHANGED <<req, heads>>
    BY <1>3, EndingStep DEF Ends, ReadBadHead, HeadEof, HeadTimeout, JsonTooLarge, UploadFails,
        BodyFails, FileShrank, TunnelEnds, HandlerFails, WriteFails, DrainRefused,
        DrainTimeout, MoreBody, Reaches, Draining
  <2>2. InSequence' /\ HeadsCounted'
    BY <1>2, <2>1 DEF InSequence, HeadsCounted, Strayed
  <2>3. CASE answers' = answers
    BY <1>2, <2>1, <2>2, <2>3 DEF AnswersSoFar
  <2>4. CASE answers' = Append(answers, 0)
    <3>0. answers \in Seq(Nat) /\ Answered(answers, heads)
      BY <1>1, <1>2, <2>1
    <3>1. /\ answers' # <<>> /\ answers'[Len(answers')] = 0
          /\ \A k \in 1 .. (Len(answers') - 1) : k \in DOMAIN heads /\ answers'[k] = heads[k].n
      BY ONLY <2>4, <3>0, FinalAnswer
    <3> QED
      BY <2>1, <2>2, <3>1 DEF AnswersSoFar
  <2> QED
    BY <1>3, <2>3, <2>4, EndingStep
<1>4. CASE ReadHead \/ ReadStray
  <2>1. PICK r \in Requests :
          /\ TakeHead(r) /\ pc = "head" /\ wire # <<>>
          /\ r.n # 0 => Head(wire).part = "head" /\ r = Head(wire).request
    BY <1>4, ReadingAHead DEF ConnInv
  <2>2. /\ heads' \in Seq(Parsed) /\ Len(heads') = Len(heads) + 1 /\ heads' # <<>>
        /\ heads'[Len(heads')].n = r.n
        /\ \A k \in DOMAIN heads : k \in DOMAIN heads' /\ heads'[k] = heads[k]
        /\ \A k \in DOMAIN heads' : k \in DOMAIN heads \/ k = Len(heads) + 1
        /\ Strayed' <=> Strayed \/ r.n = 0
    BY <2>1, HeadRead DEF ConnInv
  <2>3. /\ req' = r /\ wire' = Tail(wire) /\ answers' = answers /\ pc' = "route"
    BY <2>1 DEF TakeHead
  <2>4. AnswersSoFar'
    <3>1. Answered(answers, heads')
      BY <1>2, <2>1, <2>2 DEF Answered
    <3>2. Len(answers) + 1 = Len(heads')
      BY <1>2, <2>1, <2>2
    <3> QED
      BY <2>3, <3>1, <3>2 DEF AnswersSoFar
  <2>5. ASSUME ~Strayed'
        PROVE  /\ r.n = req.n + 1 /\ Sequenced(Tail(wire), r.n, sent)
    BY <1>1, <1>2, <2>1, <2>2, <2>5, NumbersRead
  <2>6. InSequence'
    BY <1>1, <2>3, <2>5 DEF InSequence
  <2>7. ASSUME ~Strayed' PROVE \A k \in DOMAIN heads' : heads'[k].n = k
    <3>1. ~Strayed /\ r.n = req.n + 1
      BY <2>2, <2>5, <2>7
    <3>2. req.n = Len(heads) /\ \A k \in DOMAIN heads : heads[k].n = k
      <4>1. CASE heads = <<>>
        BY <1>2, <3>1, <4>1, EmptySeq DEF HeadsCounted
      <4>2. CASE heads # <<>>
        <5>1. Len(heads) \in DOMAIN heads
          BY <1>1, <4>2, EmptySeq
        <5> QED
          BY <1>2, <3>1, <4>2, <5>1 DEF HeadsCounted
      <4> QED
        BY <4>1, <4>2
    <3> QED
      BY <2>2, <3>1, <3>2
  <2>8. HeadsCounted'
    BY <2>2, <2>3, <2>7 DEF HeadsCounted
  <2> QED
    BY <2>4, <2>6, <2>8
<1>5. CASE AnswerFixed \/ StartDownload \/ StartStream \/ Hijack
  <2>1. /\ pc \in {"route", "answer"} /\ pc' \in {"finish", "send", "stream", "tunnel"}
        /\ answers' = Append(answers, req.n) /\ req' = req /\ wire' = wire /\ heads' = heads
    BY <1>5 DEF AnswerFixed, StartDownload, StartStream, Hijack, Reaches
  <2>2. req.n = heads[Len(heads)].n
    <3>1. heads # <<>>
      BY <1>1, <1>2, <2>1, EmptySeq
    <3> QED
      BY <1>2, <3>1 DEF HeadsCounted
  <2>3. Len(answers') = Len(heads) /\ Answered(answers', heads)
    BY <1>1, <1>2, <2>1, <2>2, OneMoreAnswer
  <2>4. InSequence' /\ HeadsCounted'
    BY <1>1, <1>2, <2>1 DEF InSequence, HeadsCounted, Strayed
  <2> QED
    BY <2>1, <2>3, <2>4 DEF AnswersSoFar
<1>6. CASE JsonChunk \/ UploadChunk \/ DrainChunk
  <2>1. /\ pc' = pc /\ req' = req /\ answers' = answers /\ pc \in {"body", "drain"}
        /\ wire # <<>> /\ wire' = Tail(wire) /\ heads' = heads
    BY <1>6 DEF JsonChunk, UploadChunk, DrainChunk, MoreBody, Draining
  <2>2. ASSUME ~Strayed PROVE Sequenced(Tail(wire), req.n, sent)
    <3>1. Head(wire).part = "body"
      BY <1>6, <2>2, BodyOnWire DEF Plain
    <3> QED
      BY <1>1, <1>2, <2>1, <2>2, <3>1, NumbersSkip
  <2>3. InSequence' /\ HeadsCounted'
    BY <1>1, <1>2, <2>1, <2>2 DEF InSequence, HeadsCounted, Strayed
  <2> QED
    BY <1>2, <2>1, <2>3 DEF AnswersSoFar
<1>7. CASE BeginBody \/ BodyDone \/ SendRaw \/ SendDone \/ StreamEnds \/ Finish \/ DrainDone
  <2>1. /\ req' = req /\ answers' = answers /\ wire' = wire /\ heads' = heads
        /\ \/ pc \in {"route", "body"} /\ pc' \in {"body", "answer"}
           \/ /\ pc \in {"send", "stream", "finish", "drain"}
              /\ pc' \in {"send", "finish", "drain", "head", "closed"}
    BY <1>7 DEF BeginBody, BodyDone, SendRaw, SendDone, StreamEnds, Finish, DrainDone, Reaches
  <2>2. InSequence' /\ HeadsCounted'
    BY <1>1, <1>2, <2>1 DEF InSequence, HeadsCounted, Strayed
  <2> QED
    BY <1>2, <2>1, <2>2 DEF AnswersSoFar
<1> QED
  BY <1>3, <1>4, <1>5, <1>6, <1>7 DEF ThreadStep, ServerStep, Ends

-----------------------------------------------------------------------------
(* Bodies without Content-Length *)

\* Reading anything but the head of such a request leaves them led.
LEMMA LedRead ==
    ASSUME NEW lay \in Seq(Items), NEW rest \in Seq(Items), Len(lay) > 0,
           Len(rest) = Len(lay) - 1,
           \A i \in 1 .. (Len(lay) - 1) : rest[i] = lay[i + 1],
           ~TeHead(lay[1]), Led(lay)
    PROVE  Led(rest)
<1> SUFFICES ASSUME NEW i \in 1 .. Len(rest), TeBody(rest[i])
             PROVE  \E j \in 1 .. (i - 1) : TeHead(rest[j])
  BY DEF Led
<1>1. i + 1 \in 1 .. Len(lay) /\ TeBody(lay[i + 1])
  OBVIOUS
<1>2. PICK j \in 1 .. ((i + 1) - 1) : TeHead(lay[j])
  BY <1>1 DEF Led
<1>3. j # 1
  BY <1>2
<1>4. j - 1 \in 1 .. (i - 1) /\ (j - 1) + 1 = j /\ j - 1 \in 1 .. (Len(lay) - 1)
  BY <1>3
<1> QED
  BY <1>2, <1>4

\* What the client adds is led, if it brings its own head.
LEMMA LedGrow ==
    ASSUME NEW lay \in Seq(Items), NEW more \in Seq(Items), Len(lay) < Len(more),
           \A j \in 1 .. Len(lay) : more[j] = lay[j],
           \A i \in (Len(lay) + 1) .. Len(more) :
             TeBody(more[i]) => i > Len(lay) + 1 /\ TeHead(more[Len(lay) + 1]),
           Led(lay)
    PROVE  Led(more)
<1> SUFFICES ASSUME NEW i \in 1 .. Len(more), TeBody(more[i])
             PROVE  \E j \in 1 .. (i - 1) : TeHead(more[j])
  BY DEF Led
<1>1. CASE i <= Len(lay)
  <2>1. PICK j \in 1 .. (i - 1) : TeHead(lay[j])
    BY <1>1 DEF Led
  <2> QED
    BY <1>1, <2>1
<1>2. CASE i > Len(lay)
  <2>1. Len(lay) + 1 \in 1 .. (i - 1) /\ TeHead(more[Len(lay) + 1])
    BY <1>2
  <2> QED
    BY <2>1
<1> QED
  BY <1>1, <1>2

\* Whatever the client sends, they stay led.
LEMMA ClientLed ==
    ASSUME ConnInv, ClientStep
    PROVE  BodiesLed'
<1>1. /\ owed \in Seq(Items) /\ wire \in Seq(Items) /\ pc' = pc /\ heads' = heads
      /\ BodiesLed
  BY OwedItems DEF ConnInv, ClientStep, SendHead, SendBody, SendBadHead, ClientCloses, ServerVars
<1>2. (Strayed <=> Strayed') /\ (SomeTe <=> SomeTe')
  BY <1>1 DEF Strayed, SomeTe
<1> SUFFICES ASSUME Led(Layout) PROVE Led(Layout')
  BY <1>1, <1>2 DEF BodiesLed
<1>3. ASSUME NEW x \in Items, x.part \in {"bad", "partial"},
             owed = <<>>, owed' = <<>>, wire' = Append(wire, x)
      PROVE  Led(Layout')
  <2> DEFINE more == Append(wire, x) \o <<>>
             lay == wire \o <<>>
  <2>1. <<>> \in Seq(Items) /\ Len(<<>>) = 0
    BY EmptySeq
  <2>2. /\ lay \in Seq(Items) /\ more \in Seq(Items) /\ Len(more) = Len(lay) + 1
        /\ Len(lay) \in Nat
        /\ \A j \in 1 .. Len(lay) : more[j] = lay[j]
        /\ more[Len(lay) + 1] = x
    BY <1>1, <2>1, SendLayout
  <2>3. ~TeBody(x) /\ Led(lay) /\ Layout' = more
    BY <1>3 DEF TeBody, Layout
  <2> HIDE DEF more, lay
  <2>4. Led(more)
    BY <2>2, <2>3, LedGrow
  <2> QED
    BY <2>3, <2>4
<1>4. CASE SendBadHead
  BY <1>3, <1>4, ItemFields DEF SendBadHead
<1>5. CASE ClientCloses
  BY <1>3, <1>5, ItemFields DEF ClientCloses, Layout
<1>6. CASE SendBody
  BY <1>1, <1>6, SendBodyLayout DEF SendBody, Layout
<1>7. ASSUME NEW r \in Requests, SendHead(r) PROVE Led(Layout')
  <2> DEFINE h == HeadItem(r)
             o == owed'
             more == Append(wire, h) \o o
             lay == wire \o <<>>
  <2>1. /\ owed = <<>> /\ wire' = Append(wire, h) /\ o \in Seq(Items)
        /\ \A k \in 1 .. Len(o) : o[k] = BodyItem(r.te)
    BY <1>7, BodyAnnounced DEF SendHead
  <2>2. h \in Items /\ h.part = "head" /\ h.request = r /\ r.te \in BOOLEAN
    BY ItemFields, RequestFields
  <2>3. /\ lay \in Seq(Items) /\ Len(lay) = Len(wire)
        /\ more \in Seq(Items) /\ Len(more) = Len(wire) + 1 + Len(o)
        /\ \A j \in 1 .. Len(wire) : more[j] = lay[j]
        /\ more[Len(wire) + 1] = h
        /\ \A k \in 1 .. Len(o) : more[Len(wire) + 1 + k] = o[k]
    <3> HIDE DEF h, o
    <3> QED
      BY <1>1, <2>1, <2>2, SendLayout
  <2>4. Led(lay) /\ Layout' = more
    BY <2>1 DEF Layout
  <2>5. TeBody(BodyItem(r.te)) => TeHead(h)
    BY <2>2, ItemFields DEF TeBody, TeHead
  <2>6. ~TeBody(h)
    BY <2>2 DEF TeBody
  <2> HIDE DEF more, lay, h, o
  <2>7. ASSUME NEW i \in (Len(lay) + 1) .. Len(more), TeBody(more[i])
        PROVE  i > Len(lay) + 1 /\ TeHead(more[Len(lay) + 1])
    <3> DEFINE k == i - (Len(wire) + 1)
    <3>1. i # Len(wire) + 1
      BY <2>3, <2>6, <2>7
    <3>2. k \in 1 .. Len(o) /\ Len(wire) + 1 + k = i
      BY <1>1, <2>1, <2>3, <3>1
    <3> HIDE DEF k
    <3>3. more[i] = BodyItem(r.te)
      BY <2>1, <2>3, <3>2
    <3> QED
      BY <1>1, <2>3, <2>5, <2>7, <3>1, <3>3
  <2>8. Len(lay) < Len(more)
    BY <1>1, <2>1, <2>3
  <2>9. Led(more)
    BY <2>3, <2>4, <2>7, <2>8, LedGrow
  <2> QED
    BY <2>4, <2>9
<1> QED
  BY <1>4, <1>5, <1>6, <1>7 DEF ClientStep

\* Only the body of a request with Transfer-Encoding is ever taken for a head, and
\* only once its own head was read.
LEMMA ThreadLed ==
    ASSUME ConnInv, ThreadStep
    PROVE  BodiesLed'
<1>1. /\ ConnTypeOK /\ BodiesLed /\ owed \in Seq(Items) /\ wire \in Seq(Items)
      /\ Layout \in Seq(Items) /\ owed' = owed /\ req.n \in Nat /\ sent \in Nat
  BY OwedItems, ThreadWire, RequestFields DEF ConnInv, ConnTypeOK
<1>2. ASSUME Takes, Led(Layout), ~TeHead(Head(wire)) PROVE Led(Layout')
  <2> DEFINE rest == Tail(wire) \o owed
  <2>1. wire # <<>> /\ wire' = Tail(wire)
    BY <1>2, ThreadWire
  <2>2. /\ rest \in Seq(Items) /\ Len(rest) = Len(Layout) - 1 /\ Len(Layout) > 0
        /\ \A i \in 1 .. (Len(Layout) - 1) : rest[i] = Layout[i + 1]
        /\ Layout[1] = Head(wire)
    <3>1. Tail(wire) \in Seq(Items)
      BY <1>1, <2>1, HeadTailProperties
    <3> QED
      BY <1>1, <2>1, <3>1, LayoutFacts, ReadLayout DEF Layout
  <2>3. Layout' = rest
    BY <1>1, <2>1 DEF Layout
  <2> HIDE DEF rest
  <2> QED
    BY <1>1, <1>2, <2>2, <2>3, LedRead
<1>3. ~Takes => Layout' = Layout
  BY <1>1, ThreadWire DEF Layout
<1>4. CASE Ends
  <2>1. pc' = "closed" /\ heads' = heads
    BY <1>4, EndingStep
  <2> QED
    BY <1>1, <2>1 DEF BodiesLed, Strayed, SomeTe
<1>5. CASE ReadHead \/ ReadStray
  <2>1. PICK r \in Requests :
          /\ TakeHead(r) /\ pc = "head" /\ wire # <<>>
          /\ \/ Head(wire).part = "head" /\ r = Head(wire).request
             \/ r.n = 0 /\ OffBoundary
    BY <1>1, <1>5, ReadingAHead
  <2>2. (Strayed' <=> Strayed \/ r.n = 0) /\ (SomeTe' <=> SomeTe \/ r.te)
    BY <1>1, <2>1, HeadRead
  <2>3. CASE SomeTe
    BY <2>2, <2>3 DEF BodiesLed
  <2>4. CASE ~SomeTe
    <3>1. ~Strayed /\ Led(Layout)
      BY <1>1, <2>1, <2>4 DEF BodiesLed
    <3>2. Layout[1] = Head(wire) /\ Len(Layout) \in Nat /\ Len(Layout) >= 1 /\ Head(wire) \in Items
      BY <1>1, <2>1, ReadLayout, LayoutFacts DEF Layout
    <3>3. Head(wire).part # "body"
      <4> SUFFICES ASSUME Head(wire).part = "body" PROVE FALSE
        OBVIOUS
      <4>1. Framed(Layout, 1, 0)
        BY <2>1, <3>1 DEF ConnInv, RestFramed, Reading, Pending
      <4>2. TeBody(Layout[1])
        BY <3>2, <4>1 DEF Framed, Plain, TeBody
      <4> QED
        BY <3>1, <3>2, <4>2 DEF Led
    <3>4. Head(wire).part = "head" /\ r = Head(wire).request
      BY <2>1, <3>1, <3>3 DEF OffBoundary
    <3>5. r.n = req.n + 1
      BY <1>1, <2>1, <3>1, <3>4, NumbersRead DEF ConnInv, InSequence
    <3>6. ~Strayed'
      BY <1>1, <2>2, <3>1, <3>5
    <3>7. SomeTe' \/ Led(Layout')
      BY <1>2, <1>5, <2>2, <3>1, <3>4 DEF TeHead, Takes
    <3> QED
      BY <3>6, <3>7 DEF BodiesLed
  <2> QED
    BY <2>3, <2>4
<1>6. CASE JsonChunk \/ UploadChunk \/ DrainChunk
  <2>1. heads' = heads /\ pc' = pc /\ pc # "closed" /\ Takes
    BY <1>6 DEF JsonChunk, UploadChunk, DrainChunk, MoreBody, Draining, Takes
  <2>2. ASSUME ~SomeTe PROVE Led(Layout')
    <3>1. ~Strayed /\ Led(Layout)
      BY <1>1, <2>1, <2>2 DEF BodiesLed
    <3>2. ~TeHead(Head(wire))
      BY <1>6, <3>1, BodyOnWire DEF Plain, TeHead
    <3> QED
      BY <1>2, <2>1, <3>1, <3>2
  <2> QED
    BY <1>1, <2>1, <2>2 DEF BodiesLed, Strayed, SomeTe
<1>7. CASE /\ ~Ends /\ ~ReadHead /\ ~ReadStray /\ ~JsonChunk /\ ~UploadChunk /\ ~DrainChunk
  <2>1. Layout' = Layout
    BY <1>3, <1>7 DEF Takes, Ends
  <2>2. (Strayed <=> Strayed') /\ (SomeTe <=> SomeTe')
    BY <1>7, ThreadHeads
  <2>3. pc # "closed"
    BY <1>7 DEF ThreadStep, ServerStep, Ends, AnswerFixed, BeginBody, BodyDone, StartDownload,
        SendRaw, SendDone, StartStream, StreamEnds, Hijack, Finish, DrainDone, Reaches
  <2> QED
    BY <1>1, <2>1, <2>2, <2>3 DEF BodiesLed
<1> QED
  BY <1>4, <1>5, <1>6, <1>7

-----------------------------------------------------------------------------
(* The theorems *)

\* The invariant holds initially.
LEMMA ConnInvInit == Init => ConnInv
<1> SUFFICES ASSUME Init PROVE ConnInv
  OBVIOUS
<1>1. ConnTypeOK
  <2>1. NoRequest \in Requests
    BY BoundsAssumption DEF NoRequest, Requests, Routes
  <2>2. /\ <<>> \in Seq(Bodies) /\ <<>> \in Seq(Items) /\ <<>> \in Seq(Nat)
        /\ <<>> \in Seq(Parsed)
    BY EmptySeq
  <2>3. [framing |-> "none", left |-> 0] \in [framing : {"none", "fixed", "chunked"}, left : Nat]
    OBVIOUS
  <2>4. /\ owed \in Seq(Bodies) /\ wire \in Seq(Items) /\ answers \in Seq(Nat)
        /\ heads \in Seq(Parsed)
    BY <2>2 DEF Init
  <2>5. /\ resp \in [framing : {"none", "fixed", "chunked"}, left : Nat]
        /\ req \in Requests /\ pc \in Labels /\ client \in {"open", "closed"}
    BY <2>1, <2>3 DEF Init, Labels
  <2>6. sent = 0 /\ got = 0 /\ consumed = 0 /\ todo = 0
    BY DEF Init
  <2>7. broken \in BOOLEAN
    BY DEF Init
  <2> QED
    BY ONLY <2>4, <2>5, <2>6, <2>7 DEF ConnTypeOK
<1>2. Layout = <<>>
  BY ConcatEmptySeq, EmptySeq DEF Init, Layout
<1>3. HeadsFramed /\ RestFramed
  <2>1. Pending = 0
    BY DEF Init, Pending
  <2> QED
    BY <1>2, <2>1, EmptySeq DEF HeadsFramed, RestFramed, AllFramed, Framed
<1>4. CountsAgree /\ ResponseStage
  BY DEF Init, CountsAgree, ResponseStage, NoRequest
<1>5. InSequence
  BY EmptySeq DEF Init, InSequence, Sequenced, IsHead, Number, NoRequest
<1>6. heads = <<>> /\ answers = <<>> /\ pc = "head" /\ req.n = 0 /\ DOMAIN heads = {}
      /\ DOMAIN answers = {}
  BY EmptySeq DEF Init, NoRequest
<1>7. AnswersSoFar /\ HeadsCounted
  BY <1>6 DEF AnswersSoFar, Answered, HeadsCounted
<1>8. BodiesLed
  BY <1>2, <1>6, EmptySeq DEF BodiesLed, Strayed, Led
<1> QED
  BY <1>1, <1>3, <1>4, <1>5, <1>7, <1>8 DEF ConnInv

\* Every step keeps it.
LEMMA ConnInvStep == ConnInv /\ [Next]_vars => ConnInv'
<1> SUFFICES ASSUME ConnInv, [Next]_vars PROVE ConnInv'
  OBVIOUS
<1>1. CASE ClientStep
  BY <1>1, ClientTypes, ClientFraming, ClientNumbers, ClientLed DEF ConnInv
<1>2. CASE ThreadStep
  BY <1>2, ThreadTypes, ThreadFraming, ThreadCounts, ThreadOrder, ThreadLed DEF ConnInv
<1>3. CASE UNCHANGED vars
  BY <1>3 DEF vars, ConnInv, ConnTypeOK, HeadsFramed, Layout, RestFramed, Reading, Pending,
              CountsAgree, ResponseStage, InSequence, AnswersSoFar, Answered, HeadsCounted,
              BodiesLed, Strayed, SomeTe
<1> QED
  BY <1>1, <1>2, <1>3 DEF Next, ThreadStep

\* The invariant always holds.
THEOREM ConnectionInvariant == Spec => []ConnInv
BY ConnInvInit, ConnInvStep, PTL DEF Spec

\* handle_connection goes back to read_request only at the start of a request:
\* whatever a handler read of the body, drain_body discards the rest or the
\* connection ends.  Until, that is, the body of a request with Transfer-Encoding
\* is served as a request.
THEOREM StaysAtMessageBoundaries == Spec => []AtMessageBoundary
<1>1. ConnInv => AtMessageBoundary
  <2> SUFFICES ASSUME ConnInv, pc = "head", wire # <<>>, Head(wire).part = "body",
                      ~Head(wire).te, ~Strayed
               PROVE  FALSE
    BY DEF AtMessageBoundary
  <2>1. owed \in Seq(Items) /\ wire \in Seq(Items)
    BY OwedItems DEF ConnInv
  <2>2. Layout[1] = Head(wire) /\ Len(Layout) \in Nat /\ Len(Layout) >= 1
    BY <2>1, ReadLayout, LayoutFacts DEF Layout
  <2>3. Framed(Layout, 1, 0)
    BY DEF ConnInv, RestFramed, Reading, Pending
  <2> QED
    BY <2>2, <2>3 DEF Framed, Plain
<1> QED
  BY <1>1, ConnectionInvariant, PTL

\* A response is complete by its own framing before the next request is read.
THEOREM ResponsesComplete == Spec => []ResponseComplete
<1>1. ConnInv => ResponseComplete
  BY DEF ConnInv, ResponseStage, ResponseComplete
<1> QED
  BY <1>1, ConnectionInvariant, PTL

\* The k-th response is for the k-th head read, which is the client's k-th request
\* unless part of the body of a request with Transfer-Encoding was served as one.
THEOREM RequestsAnsweredInOrder == Spec => []AnswersInOrder
<1>1. ConnInv => AnswersInOrder
  <2> SUFFICES ASSUME ConnInv PROVE AnswersInOrder
    OBVIOUS
  <2>1. answers \in Seq(Nat) /\ AnswersSoFar /\ HeadsCounted /\ BodiesLed
    BY DEF ConnInv, ConnTypeOK
  <2>2. \A k \in DOMAIN answers :
          \/ k \in DOMAIN heads /\ answers[k] = heads[k].n
          \/ answers[k] = 0 /\ k = Len(answers) /\ pc = "closed"
    <3>1. \A k \in DOMAIN answers : k \in 1 .. (Len(answers) - 1) \/ k = Len(answers)
      BY <2>1
    <3> QED
      BY <2>1, <3>1 DEF AnswersSoFar, Answered
  <2> QED
    BY <2>1, <2>2 DEF AnswersSoFar, HeadsCounted, BodiesLed, SomeTe, AnswersInOrder
<1> QED
  BY <1>1, ConnectionInvariant, PTL
=============================================================================
