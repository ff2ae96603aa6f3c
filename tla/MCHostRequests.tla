---------------------------- MODULE MCHostRequests ----------------------------
EXTENDS HostRequests, TLC

Base == [numbersParse |-> TRUE, token |-> TRUE, allowNoAuth |-> FALSE, host |-> TRUE, capacity |-> 2, maxConns |-> 2,
         abi |-> 6, minAbi |-> 6, allowUnconfined |-> FALSE]
\* The documented set-up and, one at a time, what may differ from it.
MCConfig ==
    {Base, [Base EXCEPT !.host = FALSE], [Base EXCEPT !.maxConns = 1],
     [Base EXCEPT !.token = FALSE], [Base EXCEPT !.token = FALSE, !.allowNoAuth = TRUE],
     [Base EXCEPT !.capacity = 0], [Base EXCEPT !.numbersParse = FALSE], [Base EXCEPT !.maxConns = 0]}
    \cup {[Base EXCEPT !.abi = a, !.minAbi = m] : a \in {-1, 1, 4, 5}, m \in {0, 4, 6}}
    \cup {[Base EXCEPT !.abi = a, !.allowUnconfined = TRUE] : a \in {-1, 6}}

R(m, s, cred, n) == [method |-> m, segs |-> s, cred |-> cred, count |-> n, chunked |-> FALSE, slashes |-> FALSE]
Box(i, rest) == <<"v1", "sandboxes", i>> \o rest
MCRequest ==
    LET i == CHOOSE x \in Sandbox : TRUE
        j == CHOOSE x \in Sandbox \ {i} : TRUE
        paths == {<<"POST", <<"v1", "exec">>>>, <<"GET", Box(i, <<"token">>)>>,
                  <<"POST", Box(i, <<"exec">>)>>, <<"GET", Box(i, <<"files", "read">>)>>}
    IN  {R(p[1], p[2], cred, 0) : p \in paths, cred \in {i, j, "host", None}}
        \cup {R("POST", <<"v1", "sandboxes">>, cred, n) : cred \in {"host", "wrong"}, n \in {0, 3}}
        \cup {R("DELETE", <<"v1", "sandboxes">>, "host", 0), R("DELETE", Box(i, <<>>), i, 0),
              R("GET", <<"health">>, None, 0), R("GET", <<"other">>, "host", 0),
              R("GET", Box(i, <<"processes">>), i, 0),
              [R("GET", <<"health">>, None, 0) EXCEPT !.slashes = TRUE],
              [R("POST", Box(i, <<"exec">>), i, 0) EXCEPT !.chunked = TRUE],
              [R("POST", Box(i, <<"exec">>), "wrong", 0) EXCEPT !.chunked = TRUE]}
Symmetry == Permutations(Conn)
=============================================================================
