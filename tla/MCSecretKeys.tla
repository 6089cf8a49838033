---------------------------- MODULE MCSecretKeys ----------------------------
(* A small instance of SecretKeys: an AES and an RSA wrapping key, an old  *)
(* key that may be read, and commands on two labels.                       *)
EXTENDS SecretKeys

CONSTANTS p1, l1, l2, wa, wr, k1, k2, vw, vr, vo

MCProcs    == {p1}
MCLabels   == {l1, l2, wa, wr}
MCKeyFiles == {k1, k2, vw, vr, vo}

Old(class, type, label, sensitive, use, modulus, value) ==
    [a \in Attributes |->
        CASE a = "CLASS" -> class [] a = "KEY_TYPE" -> type
          [] a = "LABEL" -> label [] a = "SENSITIVE" -> sensitive
          [] a = "EXTRACTABLE" -> class # "SECRET_KEY" \/ use = ""
          [] a = "WRAP" -> use \in {"wrap", "both"}
          [] a = "UNWRAP" -> use \in {"unwrap", "both"}
          [] a = "MODULUS" -> modulus [] a = "VALUE" -> value]

MCOldObjects ==
    <<Old("SECRET_KEY", "AES", wa, TRUE, "both", NONE, vw),
      Old("PUBLIC_KEY", "RSA", wr, FALSE, "wrap", vr, NONE),
      Old("PRIVATE_KEY", "RSA", wr, TRUE, "unwrap", vr, vr),
      Old("SECRET_KEY", "AES", l2, FALSE, "", NONE, vo)>>

Plainly == [a \in {"SENSITIVE", "EXTRACTABLE"} |-> a = "EXTRACTABLE"]
Movable == Only("EXTRACTABLE", TRUE)
Forged  == Merged(Movable, Only("VALUE", k2))

Make(op, type, template) ==
    [op |-> op, type |-> type, label |-> l1, template |-> template,
     file |-> k1, by |-> wa, mechanism |-> "AesKeyWrap"]
Wrapping(type, label, by, mechanism) ==
    [op |-> "wrap", type |-> type, label |-> label, by |-> by,
     mechanism |-> mechanism]

MCRequests ==
    {Make("generate", "AES", Empty),
     Make("import", "AES", Forged), Make("unwrap", "GENERIC_SECRET", Plainly),
     [op |-> "export", type |-> "AES", label |-> l1],
     [op |-> "export", type |-> "AES", label |-> l2],
     [op |-> "read", label |-> l1], [op |-> "show", label |-> wr, redact |-> TRUE],
     Wrapping("AES", l1, wa, "AesKeyWrap"), Wrapping("AES", l2, wr, "RsaPkcs"),
     Wrapping("RSA", wr, wa, "AesKeyWrap")}
=============================================================================
