------------------------------ MODULE MCSpxEf ------------------------------
(* A small instance of SpxEf: two labels, two algorithms and one key file. *)
EXTENDS SpxEf

CONSTANTS p1, p2, l1, l2, k1

MCProcs    == {p1, p2}
MCLabels   == {l1, l2}
MCAlgs     == {"128s", "192s"}
MCKeyFiles == {k1}

Generate(label, alg, overwrite) ==
    [op |-> "generate", label |-> label, alg |-> alg, key |-> NONE,
     overwrite |-> overwrite]
Import(label, alg, overwrite) ==
    [op |-> "import", label |-> label, alg |-> alg, key |-> k1,
     overwrite |-> overwrite]
Write(label, app, key) ==
    [op |-> "write", label |-> label, app |-> app, key |-> key]
On(op, label) == [op |-> op, label |-> label]

SpxRequests ==
    {Generate(l1, "128s", FALSE), Generate(l1, "128s", TRUE),
     Import(l1, "192s", FALSE), Import(l1, "192s", TRUE),
     Import(l2, "192s", FALSE), On("sign", l1), On("export", l1),
     [op |-> "verify", label |-> l1, sig |-> k1], [op |-> "list"]}

(* object-write stores a file of another application, a key of ours, and   *)
(* under our application something that is no key.                         *)
MCRequests ==
    SpxRequests \cup
    {Write(l1, Other, NONE), Write(l1, "192s", k1), Write(l2, "128s", NONE),
     On("destroy", l1)}
=============================================================================
