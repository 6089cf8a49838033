----------------------------- MODULE MCKeyFiles -----------------------------
(* A small instance of KeyFiles: a pair of each kind that the conversions  *)
(* treat differently, and files from elsewhere for some of them.           *)
EXTENDS KeyFiles

CONSTANTS rsa, p256, ml44, ml87, slh128s, slh192s, shake128s, spx, f1

MCPairs == {rsa, p256, ml44, ml87, slh128s, slh192s, shake128s, spx}
MCPaths == {f1}

MCKind ==
    [k \in MCPairs |->
        CASE k = rsa       -> [ktype |-> "rsa", alg |-> "RSA"]
          [] k = p256      -> [ktype |-> "ec", alg |-> "P-256"]
          [] k = ml44      -> [ktype |-> "mldsa", alg |-> "ML-DSA-44"]
          [] k = ml87      -> [ktype |-> "mldsa", alg |-> "ML-DSA-87"]
          [] k = slh128s   -> [ktype |-> "slhdsa", alg |-> "SHA2-128s"]
          [] k = slh192s   -> [ktype |-> "slhdsa", alg |-> "SHA2-192s"]
          [] k = shake128s -> [ktype |-> "slhdsa", alg |-> "SHAKE-128s"]
          [] k = spx       -> [ktype |-> "spx", alg |-> "SHA2-128s"]]

Made(k, half, format) ==
    [file |-> Saved(HalfOf(k, half), format), key |-> HalfOf(k, half)]

MCForeign ==
    {[file |-> LegacyFile(spx), key |-> HalfOf(spx, "private")],
     [file |-> SpkiFile(spx), key |-> HalfOf(spx, "public")],
     Made(rsa, "private", [form |-> "pem", std |-> "pkcs1"]),
     Made(p256, "private", [form |-> "der", std |-> "pkcs8"])}
=============================================================================
