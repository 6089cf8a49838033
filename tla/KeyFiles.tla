------------------------------ MODULE KeyFiles ------------------------------
(***************************************************************************)
(* Keys on their way between a token and files: the encodings in which the *)
(* export commands save keys, what the import commands load from a file,   *)
(* and the conversions to and from attributes.                             *)
(*                                                                         *)
(* The bytes of a key are a sequence of parts, a private key a secret part *)
(* and the public part, so that lengths are counted in parts; a file is    *)
(* the format, the algorithm it names, and those parts.                    *)
(***************************************************************************)
EXTENDS Naturals, Sequences

CONSTANTS
    Pairs,    \* key pairs
    Kind,     \* the key type and algorithm of each pair
    Foreign,  \* files made by other tools, with the key each holds
    Paths,    \* names of files
    NONE,     \* no file, an attribute the token does not report
    MaxSteps  \* bound on the number of commands

Algorithms ==
    [rsa    |-> {"RSA"},
     ec     |-> {"P-256"},
     mldsa  |-> {"ML-DSA-44", "ML-DSA-65", "ML-DSA-87"},
     slhdsa |-> {"SHA2-128s", "SHA2-128f", "SHA2-192s", "SHA2-192f",
                 "SHA2-256s", "SHA2-256f", "SHAKE-128s", "SHAKE-128f",
                 "SHAKE-192s", "SHAKE-192f", "SHAKE-256s", "SHAKE-256f"},
     spx    |-> {"SHA2-128s", "SHAKE-128s"}]

KeyTypes == DOMAIN Algorithms
Halves   == {"public", "private"}

SecretPart(p) == [secret |-> TRUE, of |-> p]
PublicPart(p) == [secret |-> FALSE, of |-> p]
Part          == [secret : BOOLEAN, of : Pairs]

Key == [ktype : KeyTypes, alg : UNION {Algorithms[t] : t \in KeyTypes},
        half : Halves, value : Seq(Part)]

(* The two halves of a pair.                                               *)
HalfOf(p, half) ==
    [ktype |-> Kind[p].ktype, alg |-> Kind[p].alg, half |-> half,
     value |-> IF half = "private" THEN <<SecretPart(p), PublicPart(p)>>
                                   ELSE <<PublicPart(p)>>]

(* The hash SPKI object identifier HSMs give to a SPHINCS+ key.            *)
HashedSha2 == "SHA2-128s-with-SHA256"

(* "text" says whether the bytes are valid UTF-8.  PEM is; DER never is,   *)
(* for every object identifier of an algorithm contains a stray 16#86;     *)
(* a wrapped key may be by chance.                                         *)
File == [form : {"pem", "der", "wrapped"}, std : {"pkcs1", "pkcs8", "raw"},
         names : (UNION {Algorithms[t] : t \in KeyTypes}) \cup {HashedSha2},
         half : Halves, value : Seq(Part), text : BOOLEAN]

ASSUME KeyFilesAssumption ==
    /\ \A p \in Pairs : \E t \in KeyTypes : \E a \in Algorithms[t] :
          Kind[p] = [ktype |-> t, alg |-> a]
    /\ Foreign \subseteq [file : File, key : Key]
    /\ MaxSteps \in Nat /\ NONE \notin File

VARIABLES
    objects,  \* keys on the token, each as its attributes
    files,    \* content of each path
    holds,    \* history: the key a path is known to hold
    steps     \* commands so far

vars == <<objects, files, holds, steps>>
-----------------------------------------------------------------------------
(* KeyEncoding, as each save function takes it.                            *)
PemEncodings == {"Pem", "Pkcs8", "Pkcs8Pem"}
DerEncodings == {"Der", "Pkcs8Der"}
Encodings    == PemEncodings \cup DerEncodings \cup {"Pkcs1", "Pkcs1Pem", "Pkcs1Der"}

Format(form, std) == {[form |-> form, std |-> std]}

(* The format an encoding stands for; none when it is unsupported.         *)
Pkcs8Format(enc) ==
    IF enc \in PemEncodings THEN Format("pem", "pkcs8")
    ELSE IF enc \in DerEncodings THEN Format("der", "pkcs8") ELSE {}

RsaFormat(enc) ==
    IF enc \in {"Pkcs1", "Pkcs1Pem"} THEN Format("pem", "pkcs1")
    ELSE IF enc = "Pkcs1Der" THEN Format("der", "pkcs1") ELSE Pkcs8Format(enc)

EcdsaFormat(enc)         == Pkcs8Format(enc)
MldsaFormat(enc)         == IF enc = "Pkcs8" THEN {} ELSE Pkcs8Format(enc)
SlhDsaPrivateFormat(enc) == Pkcs8Format(enc)
SlhDsaPublicFormat(enc)  == IF enc \in {"Pem", "Der"} THEN Pkcs8Format(enc) ELSE {}

(* spx-export and spx-generate --export take no encoding.                  *)
SpxFormat(enc) == Format("pem", "raw")

Formats(ktype, half, enc) ==
    CASE ktype = "rsa" -> RsaFormat(enc)
      [] ktype = "ec" -> EcdsaFormat(enc)
      [] ktype = "mldsa" -> MldsaFormat(enc)
      [] ktype = "slhdsa" /\ half = "private" -> SlhDsaPrivateFormat(enc)
      [] ktype = "slhdsa" /\ half = "public" -> SlhDsaPublicFormat(enc)
      [] ktype = "spx" -> SpxFormat(enc)

(* What the save functions write.                                          *)
Saved(key, format) ==
    [form |-> format.form, std |-> format.std, names |-> key.alg,
     half |-> key.half, value |-> key.value, text |-> format.form = "pem"]

(* The formats of the files that other tools make of a key.                *)
Standard(ktype) ==
    CASE ktype = "rsa" -> [form : {"pem", "der"}, std : {"pkcs1", "pkcs8"}]
      [] ktype \in {"ec", "mldsa", "slhdsa"} -> [form : {"pem", "der"}, std : {"pkcs8"}]
      [] ktype = "spx" -> Format("pem", "raw")

(* A SPHINCS+ private key in its legacy form, with the public key in       *)
(* front, and a SPHINCS+ public key in the SPKI that an HSM hands out.     *)
LegacyFile(k) ==
    [form |-> "pem", std |-> "raw", names |-> Kind[k].alg, half |-> "private",
     value |-> <<PublicPart(k), SecretPart(k), PublicPart(k)>>, text |-> TRUE]
SpkiFile(k) ==
    [form |-> "pem", std |-> "pkcs8", names |-> HashedSha2, half |-> "public",
     value |-> <<PublicPart(k)>>, text |-> TRUE]

(* The files that hold a half of a pair.                                   *)
FilesOf(k, half) ==
    {Saved(HalfOf(k, half), format) : format \in Standard(Kind[k].ktype)}
    \cup (IF Kind[k].ktype = "spx" /\ half = "private" THEN {LegacyFile(k)} ELSE {})
    \cup (IF Kind[k] = [ktype |-> "spx", alg |-> "SHA2-128s"] /\ half = "public"
          THEN {SpkiFile(k)} ELSE {})

(* What other tools deliver is well formed.                                *)
ASSUME ForeignAssumption ==
    \A d \in Foreign : \E k \in Pairs, half \in Halves :
        d.key = HalfOf(k, half) /\ d.file \in FilesOf(k, half)
-----------------------------------------------------------------------------
(* The load functions.  Each takes a file to the set of keys it can be     *)
(* read as, at most one.                                                   *)

LoadedAs(ktype, alg, f) ==
    {[ktype |-> ktype, alg |-> alg, half |-> f.half, value |-> f.value]}

(* The library decoders compare the algorithm a structure names, and a     *)
(* private structure is not a public one.                                  *)
Decodes(f, ktype, half, std) ==
    f.form # "wrapped" /\ f.std = std /\ f.half = half
    /\ f.names \in Algorithms[ktype]

(* Slip: the second attempt at a DER file, PKCS#8, is left out.            *)
LoadRsaOnce(f, half) ==
    IF \/ Decodes(f, "rsa", half, "pkcs1")
       \/ f.form = "pem" /\ Decodes(f, "rsa", half, "pkcs8")
    THEN LoadedAs("rsa", f.names, f) ELSE {}

LoadRsa(f, half) ==
    IF Decodes(f, "rsa", half, "pkcs1") \/ Decodes(f, "rsa", half, "pkcs8")
    THEN LoadedAs("rsa", f.names, f) ELSE {}

LoadEcdsa(f, half) ==
    IF Decodes(f, "ec", half, "pkcs8") THEN LoadedAs("ec", f.names, f) ELSE {}

(* PEM of any label is unpacked to DER; the three sets are tried in turn.  *)
LoadMldsa(f, half) ==
    IF Decodes(f, "mldsa", half, "pkcs8") THEN LoadedAs("mldsa", f.names, f) ELSE {}

(* read_to_string comes first; then the twelve sets are tried in turn.     *)
LoadSlhDsa(f, half) ==
    IF f.text /\ Decodes(f, "slhdsa", half, "pkcs8")
    THEN LoadedAs("slhdsa", f.names, f) ELSE {}

(* How long the parts of a key of an algorithm are: its public key.        *)
PartSize(alg) ==
    CASE alg \in {"SHA2-128s", "SHA2-128f", "SHAKE-128s", "SHAKE-128f"} -> 32
      [] alg \in {"SHA2-192s", "SHA2-192f", "SHAKE-192s", "SHAKE-192f"} -> 48
      [] alg \in {"SHA2-256s", "SHA2-256f", "SHAKE-256s", "SHAKE-256f"} -> 64
      [] alg = "ML-DSA-44" -> 1312
      [] alg = "ML-DSA-65" -> 1952
      [] alg = "ML-DSA-87" -> 2592
      [] alg = "P-256" -> 65
      [] alg = "RSA" -> 256

(* The bytes are as long as a key of the algorithm and half is.            *)
Fits(value, alg, half) ==
    /\ Len(value) = IF half = "private" THEN 2 ELSE 1
    /\ \A i \in DOMAIN value : PartSize(Kind[value[i].of].alg) = PartSize(alg)

(* The legacy form of a SPHINCS+ private key has a copy of the public key  *)
(* in front.  Slip: the copy is cut off at the end.                        *)
TrimmedBehind(value) == IF Len(value) = 3 THEN SubSeq(value, 1, 2) ELSE value
Trimmed(value)       == IF Len(value) = 3 THEN SubSeq(value, 2, 3) ELSE value

LoadSpxPrivate(f) ==
    IF /\ f.form = "pem" /\ f.half = "private" /\ f.std = "raw"
       /\ f.names \in Algorithms["spx"]
       /\ Fits(Trimmed(f.value), f.names, "private")
    THEN LoadedAs("spx", f.names, [f EXCEPT !.value = Trimmed(@)]) ELSE {}

(* parse_asn1_public_key: only the hashed SHA2-128s, and only 32 bytes.    *)
(* Slip: the object identifier is not compared.                            *)
SpkiOfAnyKind(f) == f.std = "pkcs8" /\ Fits(f.value, "SHA2-128s", "public")
SpkiOfHsm(f) ==
    /\ f.std = "pkcs8" /\ f.names = HashedSha2
    /\ Fits(f.value, "SHA2-128s", "public")

LoadSpxPublic(f) ==
    IF f.form # "pem" \/ f.half # "public" THEN {}
    ELSE IF f.std = "raw"
         THEN IF f.names \in Algorithms["spx"] /\ Fits(f.value, f.names, "public")
              THEN LoadedAs("spx", f.names, f) ELSE {}
         ELSE IF SpkiOfHsm(f) THEN LoadedAs("spx", "SHA2-128s", f) ELSE {}

Loaded(f, ktype, half) ==
    IF f = NONE THEN {}
    ELSE CASE ktype = "rsa" -> LoadRsa(f, half)
           [] ktype = "ec" -> LoadEcdsa(f, half)
           [] ktype = "mldsa" -> LoadMldsa(f, half)
           [] ktype = "slhdsa" -> LoadSlhDsa(f, half)
           [] ktype = "spx" /\ half = "private" -> LoadSpxPrivate(f)
           [] ktype = "spx" /\ half = "public" -> LoadSpxPublic(f)
-----------------------------------------------------------------------------
(* The token keeps the attributes of a key: class and key type, the set or *)
(* curve, the value.  AttributeMap from a key and back.                    *)
Attributes(key) ==
    [class |-> key.half, ktype |-> key.ktype, alg |-> key.alg, value |-> key.value]

(* ML-DSA: without a parameter set that is known, the length tells.        *)
(* Slip: the set is left open.                                             *)
GuessedOpen(value, half) == {NONE}

Guessed(value, half) ==
    {alg \in Algorithms["mldsa"] : Fits(value, alg, half)}

(* Reading a key of a type and half back from what the token reports, at   *)
(* most one.  The modulus and the curve are always reported, the parameter *)
(* set may not be.                                                         *)
IsA(o, ktype, half) == o.class = half /\ o.ktype = ktype

KeysOf(o, algs) ==
    {[ktype |-> o.ktype, alg |-> alg, half |-> o.class, value |-> o.value] :
        alg \in {a \in algs : Fits(o.value, a, o.class)}}

RsaOf(o, half)   == IF IsA(o, "rsa", half) THEN KeysOf(o, {o.alg}) ELSE {}

EcdsaOf(o, half) ==
    IF IsA(o, "ec", half) /\ o.alg = "P-256" THEN KeysOf(o, {"P-256"}) ELSE {}

MldsaOf(o, half, reported) ==
    IF ~IsA(o, "mldsa", half) THEN {}
    ELSE IF reported = NONE THEN
        {[ktype |-> "mldsa", alg |-> a, half |-> half, value |-> o.value] :
            a \in Guessed(o.value, half)}
    ELSE KeysOf(o, {reported})

SlhDsaOf(o, half, reported) ==
    IF IsA(o, "slhdsa", half) /\ reported # NONE THEN KeysOf(o, {reported}) ELSE {}

FromAttributes(o, half, reported) ==
    RsaOf(o, half) \cup EcdsaOf(o, half)
        \cup MldsaOf(o, half, reported) \cup SlhDsaOf(o, half, reported)

(* The public half of a private key.                                       *)
PublicOf(key) == [key EXCEPT !.half = "public", !.value = SubSeq(@, 2, 2)]

(* The options of the imports, and the halves each makes, in order.        *)
ImportModes(ktype) ==
    CASE ktype \in {"rsa", "ec", "slhdsa"} -> {"public", "whole"}
      [] ktype = "mldsa" -> Halves
      [] ktype = "spx" -> {"private"}

Makes(ktype, mode) ==
    CASE mode # "whole" -> <<mode>>
      [] mode = "whole" /\ ktype = "slhdsa" -> <<"private", "public">>
      [] OTHER -> <<"public", "private">>

HalfRead(mode) == IF mode = "whole" THEN "private" ELSE mode

Half(key, half) == IF key.half = half THEN key ELSE PublicOf(key)
-----------------------------------------------------------------------------
Object == [class : Halves, ktype : KeyTypes,
           alg : UNION {Algorithms[t] : t \in KeyTypes}, value : Seq(Part)]

TypeOK ==
    /\ \A o \in objects : o \in Object
    /\ \A p \in Paths :
          /\ files[p] # NONE => files[p] \in File
          /\ holds[p] # NONE => holds[p] \in Key /\ files[p] # NONE
    /\ DOMAIN files = Paths /\ DOMAIN holds = Paths
    /\ steps \in 0..MaxSteps

Init ==
    /\ objects = {}
    /\ files = [p \in Paths |-> NONE]
    /\ holds = [p \in Paths |-> NONE]
    /\ steps = 0

Step == steps < MaxSteps /\ steps' = steps + 1

Put(p, f, key) ==
    /\ files' = [files EXCEPT ![p] = f]
    /\ holds' = [holds EXCEPT ![p] = key]

(* A key pair generated on the token; spx-generate keeps the private half. *)
Generate(k) ==
    /\ Step
    /\ objects' = objects \cup {Attributes(HalfOf(k, h)) :
                                   h \in IF Kind[k].ktype = "spx" THEN {"private"}
                                                                  ELSE Halves}
    /\ UNCHANGED <<files, holds>>

(* A file made by another tool.                                            *)
Deliver(p) ==
    /\ Step
    /\ \E d \in Foreign : Put(p, d.file, d.key)
    /\ UNCHANGED objects

(* An export: find the object, read its attributes, convert, write.  A     *)
(* private half of type spx is all there is of it, and its public half is  *)
(* taken from it.                                                          *)
Export(p) ==
    /\ Step
    /\ \E o \in objects : \E half \in Halves, enc \in Encodings,
          reported \in {o.alg, NONE} :
          \E key \in IF o.ktype = "spx"
                     THEN {Half([ktype |-> "spx", alg |-> o.alg, half |-> "private",
                                 value |-> o.value], half)}
                     ELSE FromAttributes(o, half, reported),
             format \in Formats(o.ktype, half, enc) :
             Put(p, Saved(key, format), key)
    /\ UNCHANGED objects

(* Writing a file starts with emptying it, and may end there.              *)
ExportCut(p) ==
    /\ Step
    /\ objects # {}
    /\ Put(p, NONE, NONE)
    /\ UNCHANGED objects

(* An import: load, convert, create the objects one after the other; a     *)
(* failure leaves the first alone.                                         *)
Import(p) ==
    /\ Step
    /\ \E ktype \in KeyTypes : \E mode \in ImportModes(ktype) :
          LET made == Makes(ktype, mode)
          IN  \E key \in Loaded(files[p], ktype, HalfRead(mode)), n \in DOMAIN made :
                 objects' = objects \cup {Attributes(Half(key, made[i])) : i \in 1..n}
    /\ UNCHANGED <<files, holds>>

(* --wrap and --unwrap: the token encrypts and decrypts, hsmtool writes    *)
(* and reads the bytes.  slh-dsa-import reads a string.                    *)
WrappedText(ktype) == IF ktype = "slhdsa" THEN {TRUE} ELSE BOOLEAN

Wrap(p) ==
    /\ Step
    /\ \E o \in objects, text \in BOOLEAN :
          /\ o.class = "private" /\ o.ktype # "spx"
          /\ Put(p, [form |-> "wrapped", std |-> "pkcs8", names |-> o.alg,
                     half |-> "private", value |-> o.value, text |-> text],
                 [ktype |-> o.ktype, alg |-> o.alg, half |-> "private",
                  value |-> o.value])
    /\ UNCHANGED objects

Unwrapped(f, ktype) ==
    IF f # NONE /\ f.form = "wrapped" /\ f.text \in WrappedText(ktype)
       /\ f.names \in Algorithms[ktype]
    THEN LoadedAs(ktype, f.names, f) ELSE {}

Unwrap(p) ==
    /\ Step
    /\ \E ktype \in KeyTypes \ {"spx"} : \E key \in Unwrapped(files[p], ktype) :
          objects' = objects \cup {Attributes(key)}
    /\ UNCHANGED <<files, holds>>

Next ==
    \/ \E k \in Pairs : Generate(k)
    \/ \E p \in Paths :
          \/ Deliver(p) \/ Export(p) \/ ExportCut(p) \/ Import(p)
          \/ Wrap(p) \/ Unwrap(p)

Spec == Init /\ [][Next]_vars
-----------------------------------------------------------------------------
(* Whatever way keys go between token and files, in whatever encoding and  *)
(* through whatever other tool, every object on the token is a half of a   *)
(* key pair: its bytes are those of its class, and its key type and        *)
(* algorithm are the pair's.                                               *)
ObjectsAreGenuine ==
    \A o \in objects : \E k \in Pairs : o = Attributes(HalfOf(k, o.class))

(* What an export wrote, in any supported encoding, and what other tools   *)
(* wrote in the forms that are said to be read, is read back as the key it *)
(* was made from, except an SLH-DSA key in a file that is not text.        *)
ReadsBack ==
    \A p \in Paths :
        holds[p] # NONE /\ (holds[p].ktype = "slhdsa" => files[p].text) =>
            holds[p] \in Loaded(files[p], holds[p].ktype, holds[p].half)
                         \cup Unwrapped(files[p], holds[p].ktype)

(* No command for one type or half of a key reads a file that holds        *)
(* another: a file is refused, or it is the key that it holds.             *)
MixedUpIsRefused ==
    \A p \in Paths, t \in KeyTypes, h \in Halves :
        holds[p] # NONE => Loaded(files[p], t, h) \subseteq {holds[p]}

(* A key that export saved can be imported again; slhdsa.rs says of a file *)
(* it does not load that it is an "Invalid Private Key PEM/DER".           *)
ExportIsImportable ==
    \A p \in Paths :
        holds[p] # NONE =>
            holds[p] \in Loaded(files[p], holds[p].ktype, holds[p].half)
                         \cup Unwrapped(files[p], holds[p].ktype)
=============================================================================
