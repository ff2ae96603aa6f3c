---------------------------- MODULE MCScopedFiles ----------------------------
EXTENDS ScopedFiles, TLC

\* Every operation on the home, on a name in it and on a name one level below.
Whole(op, paths) == {[op |-> op, path |-> p, part |-> 0] : p \in paths}
MCRequest ==
    Whole("read", {<<"a", "b">>}) \cup Whole("stat", {<<"..", ".", "b">>})
    \cup Whole("list", {<<"..">>}) \cup [op : {"list"}, path : {<<"a">>}, part : {2}] \cup Whole("connect", {<<"a", "b">>})
    \cup Whole("delete", {<<"a", "..">>, <<"a">>, <<"c", "a">>}) \cup Whole("rmdir", {<<"a">>})
    \cup Whole("mkdir", {<<"a", "c">>}) \cup Whole("write", {<<"a", "c">>})
    \cup [op : {"write"}, path : {<<"b">>, <<"a", "c">>}, part : Part]
\* Not UTF-8, "z" is shown as "b", which is U+FFFD itself.
MCShown == [a |-> 1, b |-> 2, c |-> 3, z |-> 2]
Symmetry == Permutations(Thread)
=============================================================================
