------------------------------ MODULE MCSpxKms ------------------------------
(* A small instance of SpxKms: two keys, and commands on one of them that  *)
(* agree and disagree with the mode it is generated in.                    *)
EXTENDS SpxKms, TLC

CONSTANTS p1, p2, a1, a2, m1

MCProcs    == {p1, p2}
MCAliases  == {a1, a2}
MCMessages == {m1}

Generate(alias, domain, export) ==
    [op |-> "generate", alias |-> alias, domain |-> domain, export |-> export]
With(op, alias, domain) ==
    [op |-> op, alias |-> alias, domain |-> domain, message |-> m1]

MCSymmetry == Permutations(MCProcs)

MCRequests ==
    {Generate(a1, "Pure", FALSE), Generate(a2, "PreHashedSha256", FALSE),
     Generate(a1, NONE, FALSE),
     With("sign", a1, "Pure"), With("sign", a1, "PreHashedSha256"),
     With("sign", NONE, "Pure"), With("verify", a1, "Pure"),
     [op |-> "export", alias |-> a1],
     [op |-> "list"], [op |-> "import"]}
=============================================================================
