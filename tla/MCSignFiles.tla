---------------------------- MODULE MCSignFiles ----------------------------
(* A small instance of SignFiles: an image with room for two signatures, a *)
(* file with a hash, and one for signatures.                               *)
EXTENDS SignFiles

CONSTANTS p1, p2, img, digest, sigfile, a, b, z

MCProcs == {p1, p2}
MCFiles ==
    [f \in {img, digest, sigfile} |->
        CASE f = img     -> <<a, b, z, z, z, z, z, z, z, z>>
          [] f = digest  -> Reverse([i \in 1..HashLen |-> [hash |-> <<a, b>>, part |-> i]])
          [] f = sigfile -> <<>>]

W(word)    == [word |-> word, from |-> 0, to |-> 0]
S(m, n)    == [word |-> "slice", from |-> m, to |-> n]
R(m, n)    == [from |-> m, to |-> n]

Cmd(op, alg, format, domain, little, input, output, range) ==
    [op |-> op, alg |-> alg, key |-> alg, format |-> format, domain |-> domain,
     little |-> little, input |-> input, output |-> output, range |-> range]

InPlace(alg, format, little, range) ==
    Cmd("sign", alg, format, "Pure", little, img, sigfile, range)
Slh(op, domain) ==
    Cmd(op, "SLH-DSA", W("sha256-hash"), domain, FALSE, digest, sigfile, NONE)

MCRequests ==
    {InPlace("RSA", S(0, 2), TRUE, R(2, 6)), InPlace("EC", S(0, 2), TRUE, R(6, 10)),
     InPlace("ML-DSA", S(0, 6), FALSE, R(6, 10)), InPlace("EC", W("plain-text"), FALSE, R(2, 6)),
     InPlace("EC", S(0, 2), FALSE, R(8, 12)), InPlace("RSA", S(0, 2), FALSE, R(2, 5)),
     InPlace("RSA", S(8, 12), FALSE, R(2, 6)), InPlace("EC", S(2, 2), FALSE, R(2, 6)),
     InPlace("EC", W("unknown"), FALSE, R(2, 6)), InPlace("EC", W("short"), FALSE, R(2, 6)),
     Cmd("sign", "RSA", W("sha256-hash-reversed"), "Pure", FALSE, digest, NONE, NONE),
     Cmd("sign", "RSA", W("sha256-hash"), "Pure", FALSE, img, NONE, NONE),
     Cmd("sign", "RSA", W("raw"), "Pure", FALSE, img, NONE, NONE),
     Cmd("sign", "ML-DSA", W("plain-text"), "PreHashed", FALSE, img, NONE, NONE),
     Cmd("verify", "RSA", S(0, 2), "Pure", TRUE, img, NONE, R(2, 6)),
     Cmd("verify", "EC", S(0, 2), "Pure", TRUE, img, NONE, R(8, 12)),
     Slh("sign", "Pure"), Slh("sign", "PreHashed"),
     Slh("verify", "Pure"), Slh("verify", "PreHashed")}
=============================================================================
