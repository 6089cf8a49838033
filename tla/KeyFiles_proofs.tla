--------------------------- MODULE KeyFiles_proofs ---------------------------
(***************************************************************************)
(* Theorems about KeyFiles, for any number of key pairs of every kind and  *)
(* any number of files, and for histories of every length.                 *)
(***************************************************************************)
EXTENDS KeyFiles, SequenceTheorems, TLAPS

-----------------------------------------------------------------------------
(* Kinds of keys and their algorithms.                                     *)

LEMMA AlgorithmsAre ==
    /\ KeyTypes = {"rsa", "ec", "mldsa", "slhdsa", "spx"}
    /\ Algorithms["rsa"] = {"RSA"} /\ Algorithms["ec"] = {"P-256"}
    /\ Algorithms["mldsa"] = {"ML-DSA-44", "ML-DSA-65", "ML-DSA-87"}
    /\ Algorithms["slhdsa"] =
          {"SHA2-128s", "SHA2-128f", "SHA2-192s", "SHA2-192f",
           "SHA2-256s", "SHA2-256f", "SHAKE-128s", "SHAKE-128f",
           "SHAKE-192s", "SHAKE-192f", "SHAKE-256s", "SHAKE-256f"}
    /\ Algorithms["spx"] = {"SHA2-128s", "SHAKE-128s"}
  BY DEF KeyTypes, Algorithms

LEMMA KindIs ==
    ASSUME NEW k \in Pairs
    PROVE  /\ Kind[k].ktype \in KeyTypes /\ Kind[k].alg \in Algorithms[Kind[k].ktype]
           /\ Kind[k] = [ktype |-> Kind[k].ktype, alg |-> Kind[k].alg]
<1>1. PICK t \in KeyTypes : \E a \in Algorithms[t] : Kind[k] = [ktype |-> t, alg |-> a]
  BY KeyFilesAssumption
<1>2. PICK a \in Algorithms[t] : Kind[k] = [ktype |-> t, alg |-> a]
  BY <1>1
<1> QED
  BY <1>2

(* Only SPHINCS+ and SLH-DSA have names of algorithms in common.           *)
LEMMA OneType ==
    ASSUME NEW t \in KeyTypes \ {"spx"}, NEW u \in KeyTypes \ {"spx"},
           NEW a \in Algorithms[t], a \in Algorithms[u]
    PROVE  t = u
  BY AlgorithmsAre

(* Parameter sets of ML-DSA differ in length.                              *)
LEMMA LengthTells ==
    ASSUME NEW a \in Algorithms["mldsa"], NEW b \in Algorithms["mldsa"],
           PartSize(a) = PartSize(b)
    PROVE  a = b
<1>1. /\ PartSize("ML-DSA-44") = 1312 /\ PartSize("ML-DSA-65") = 1952
      /\ PartSize("ML-DSA-87") = 2592
  BY DEF PartSize
<1> QED
  BY <1>1, AlgorithmsAre

(* The values of the two halves.                                           *)
LEMMA HalfIs ==
    ASSUME NEW k, NEW h \in Halves
    PROVE  LET v == HalfOf(k, h).value
           IN  /\ h = "private" => v = <<SecretPart(k), PublicPart(k)>>
               /\ h = "public" => v = <<PublicPart(k)>>
               /\ HalfOf(k, h) = [ktype |-> Kind[k].ktype, alg |-> Kind[k].alg,
                                  half |-> h, value |-> v]
  BY DEF HalfOf, Halves

LEMMA HalfFits ==
    ASSUME NEW k, NEW h \in Halves, NEW a
    PROVE  /\ Len(HalfOf(k, h).value) = IF h = "private" THEN 2 ELSE 1
           /\ Fits(HalfOf(k, h).value, a, h) <=> PartSize(Kind[k].alg) = PartSize(a)
<1> DEFINE v == HalfOf(k, h).value
<1>1. CASE h = "private"
  <2>1. v = <<SecretPart(k), PublicPart(k)>>
    BY <1>1, HalfIs
  <2>2. Len(v) = 2 /\ DOMAIN v = {1, 2} /\ v[1].of = k /\ v[2].of = k
    BY <2>1 DEF SecretPart, PublicPart
  <2> HIDE DEF v
  <2>3. Fits(v, a, h) <=> PartSize(Kind[k].alg) = PartSize(a)
    BY <1>1, <2>2 DEF Fits
  <2> QED
    BY <1>1, <2>2, <2>3 DEF v
<1>2. CASE h = "public"
  <2>1. v = <<PublicPart(k)>>
    BY <1>2, HalfIs
  <2>2. Len(v) = 1 /\ DOMAIN v = {1} /\ v[1].of = k
    BY <2>1 DEF PublicPart
  <2> HIDE DEF v
  <2>3. Fits(v, a, h) <=> PartSize(Kind[k].alg) = PartSize(a)
    BY <1>2, <2>2 DEF Fits
  <2> QED
    BY <1>2, <2>2, <2>3 DEF v
<1> QED
  BY <1>1, <1>2 DEF Halves

(* What is left when the first part is cut off.                            *)
LEMMA SecondOfTwo ==
    ASSUME NEW x, NEW y
    PROVE  SubSeq(<<x, y>>, 2, 2) = <<y>>
<1> DEFINE s == <<x, y>>
           t == SubSeq(s, 2, 2)
           S == {x, y}
<1>1. \A i \in 2..2 : s[i] \in S
  OBVIOUS
<1>2. s[2] = y /\ 2 \in Int
  OBVIOUS
<1> HIDE DEF s, S
<1>3. /\ t \in Seq(S) /\ Len(t) = IF 2 <= 2 THEN 2 - 2 + 1 ELSE 0
      /\ \A i \in 1..(2 - 2 + 1) : t[i] = s[2 + i - 1]
  BY <1>1, <1>2, SubSeqProperties
<1>4. t \in Seq(S) /\ Len(t) = 1 /\ t[1] = y
  BY <1>2, <1>3
<1> HIDE DEF t
<1>5. t = <<y>>
  BY <1>4
<1> QED
  BY <1>5 DEF t, s

LEMMA LastOfThree ==
    ASSUME NEW x, NEW y, NEW z
    PROVE  SubSeq(<<x, y, z>>, 2, 3) = <<y, z>>
<1> DEFINE s == <<x, y, z>>
           t == SubSeq(s, 2, 3)
           S == {x, y, z}
<1>1. \A i \in 2..3 : s[i] \in S
  OBVIOUS
<1>2. s[2] = y /\ s[3] = z /\ 2 \in Int /\ 3 \in Int
  OBVIOUS
<1> HIDE DEF s, S
<1>3. /\ t \in Seq(S) /\ Len(t) = IF 2 <= 3 THEN 3 - 2 + 1 ELSE 0
      /\ \A i \in 1..(3 - 2 + 1) : t[i] = s[2 + i - 1]
  BY <1>1, <1>2, SubSeqProperties
<1>4. t \in Seq(S) /\ Len(t) = 2 /\ t[1] = y /\ t[2] = z
  BY <1>2, <1>3
<1> HIDE DEF t
<1>5. t = <<y, z>>
  BY <1>4
<1> QED
  BY <1>5 DEF t, s

LEMMA PublicOfHalf ==
    ASSUME NEW k
    PROVE  PublicOf(HalfOf(k, "private")) = HalfOf(k, "public")
<1> DEFINE key == HalfOf(k, "private")
           q == PublicOf(key)
           F == {"ktype", "alg", "half", "value"}
<1>1. SubSeq(<<SecretPart(k), PublicPart(k)>>, 2, 2) = <<PublicPart(k)>>
  BY SecondOfTwo
<1>2. key = [ktype |-> Kind[k].ktype, alg |-> Kind[k].alg, half |-> "private",
             value |-> <<SecretPart(k), PublicPart(k)>>]
  BY HalfIs DEF Halves
<1> HIDE DEF key
<1>3. q = [key EXCEPT !.half = "public", !.value = <<PublicPart(k)>>]
  BY <1>1, <1>2 DEF PublicOf
<1> HIDE DEF q
<1>4. /\ DOMAIN q = F /\ q.ktype = Kind[k].ktype /\ q.alg = Kind[k].alg
      /\ q.half = "public" /\ q.value = <<PublicPart(k)>>
  BY <1>2, <1>3
<1>5. q = [a \in F |-> q[a]]
  BY <1>3, <1>4
<1>6. HalfOf(k, "public") = [a \in F |-> q[a]]
  <2>1. HalfOf(k, "public") =
          [ktype |-> Kind[k].ktype, alg |-> Kind[k].alg, half |-> "public",
           value |-> <<PublicPart(k)>>]
    BY HalfIs DEF Halves
  <2> QED
    BY <1>4, <2>1
<1> QED
  BY <1>5, <1>6 DEF key, q
-----------------------------------------------------------------------------
(* What a file can be that holds a half of a pair.                         *)

WrappedFile(k, text) ==
    [form |-> "wrapped", std |-> "pkcs8", names |-> Kind[k].alg, half |-> "private",
     value |-> HalfOf(k, "private").value, text |-> text]

(* A file as export, wrap or another tool makes it of a key.               *)
Contains(f, k, h) ==
    \/ f \in FilesOf(k, h)
    \/ Kind[k].ktype # "spx" /\ h = "private" /\ \E text \in BOOLEAN : f = WrappedFile(k, text)

(* It is encoded in a standard format.                                     *)
Encoded(f, k, h) ==
    /\ f.form \in {"pem", "der"} /\ f.half = h /\ (f.form = "pem" => f.text = TRUE)
    /\ f.names = Kind[k].alg /\ f.value = HalfOf(k, h).value
    /\ Kind[k].ktype = "rsa" => f.std \in {"pkcs1", "pkcs8"}
    /\ Kind[k].ktype \in {"ec", "mldsa", "slhdsa"} => f.std = "pkcs8"
    /\ Kind[k].ktype = "spx" => f.std = "raw" /\ f.form = "pem"

LEMMA FormatIs ==
    ASSUME NEW t \in KeyTypes, NEW format \in Standard(t)
    PROVE  /\ format.form \in {"pem", "der"} /\ format.std \in {"pkcs1", "pkcs8", "raw"}
           /\ t = "rsa" => format.std \in {"pkcs1", "pkcs8"}
           /\ t \in {"ec", "mldsa", "slhdsa"} => format.std = "pkcs8"
           /\ t = "spx" => format.std = "raw" /\ format.form = "pem"
<1>1. CASE t = "rsa"
  BY <1>1 DEF Standard
<1>2. CASE t \in {"ec", "mldsa", "slhdsa"}
  BY <1>2 DEF Standard
<1>3. CASE t = "spx"
  BY <1>3 DEF Standard, Format
<1> QED
  BY <1>1, <1>2, <1>3, AlgorithmsAre

LEMMA SavedIsEncoded ==
    ASSUME NEW k \in Pairs, NEW h \in Halves, NEW format \in Standard(Kind[k].ktype)
    PROVE  Encoded(Saved(HalfOf(k, h), format), k, h)
<1>1. HalfOf(k, h).alg = Kind[k].alg /\ HalfOf(k, h).half = h
  BY DEF HalfOf
<1> QED
  BY <1>1, KindIs, FormatIs DEF Saved, Encoded

LEMMA ContentIs ==
    ASSUME NEW k \in Pairs, NEW h \in Halves, NEW f, Contains(f, k, h)
    PROVE  \/ Encoded(f, k, h)
           \/ /\ Kind[k].ktype # "spx" /\ h = "private"
              /\ \E text \in BOOLEAN : f = WrappedFile(k, text)
           \/ Kind[k].ktype = "spx" /\ h = "private" /\ f = LegacyFile(k)
           \/ /\ Kind[k] = [ktype |-> "spx", alg |-> "SHA2-128s"] /\ h = "public"
              /\ f = SpkiFile(k)
<1>1. CASE f \in FilesOf(k, h)
  BY <1>1, SavedIsEncoded DEF FilesOf
<1>2. CASE f \notin FilesOf(k, h)
  BY <1>2 DEF Contains
<1> QED
  BY <1>1, <1>2

(* A decoder of one type accepts only files of it, and reads what is there. *)
LEMMA DecodedRight ==
    ASSUME NEW k \in Pairs, NEW h \in Halves, NEW f, Contains(f, k, h),
           NEW t \in KeyTypes \ {"spx"}, NEW std \in {"pkcs1", "pkcs8"},
           NEW g, Decodes(f, t, g, std)
    PROVE  LoadedAs(t, f.names, f) = {HalfOf(k, h)}
<1>1. /\ f.form # "wrapped" /\ f.std = std /\ f.names \in Algorithms[t]
  BY DEF Decodes
<1>2. Encoded(f, k, h)
  <2>1. f # LegacyFile(k)
    BY <1>1 DEF LegacyFile
  <2>2. f # SpkiFile(k)
    BY <1>1, AlgorithmsAre DEF SpkiFile, HashedSha2
  <2>3. ~ \E text \in BOOLEAN : f = WrappedFile(k, text)
    BY <1>1 DEF WrappedFile
  <2> QED
    BY <2>1, <2>2, <2>3, ContentIs
<1>3. Kind[k].ktype \in KeyTypes \ {"spx"} /\ Kind[k].alg \in Algorithms[Kind[k].ktype]
  BY <1>1, <1>2, KindIs DEF Encoded
<1>4. t = Kind[k].ktype
  BY <1>1, <1>2, <1>3, OneType DEF Encoded
<1> QED
  BY <1>2, <1>4, HalfIs DEF Encoded, LoadedAs

LEMMA SpxPrivateRight ==
    ASSUME NEW k \in Pairs, NEW h \in Halves, NEW f, Contains(f, k, h)
    PROVE  /\ LoadSpxPrivate(f) \subseteq {HalfOf(k, h)}
           /\ Kind[k].ktype = "spx" /\ h = "private" => HalfOf(k, h) \in LoadSpxPrivate(f)
<1> DEFINE v == <<SecretPart(k), PublicPart(k)>>
<1>1. h = "private" => HalfOf(k, h) = [ktype |-> Kind[k].ktype, alg |-> Kind[k].alg,
                                       half |-> "private", value |-> v]
  BY HalfIs
<1>2. Fits(v, Kind[k].alg, "private")
  <2>1. "private" \in Halves
    BY DEF Halves
  <2>2. HalfOf(k, "private").value = v
    BY <2>1, HalfIs
  <2>3. Fits(HalfOf(k, "private").value, Kind[k].alg, "private")
    BY <2>1, HalfFits
  <2> QED
    BY <2>2, <2>3
<1>3. Trimmed(v) = v /\ Trimmed(<<PublicPart(k), SecretPart(k), PublicPart(k)>>) = v
  BY LastOfThree DEF Trimmed
<1>4. ASSUME f.std = "raw", f.half = "private", f.form = "pem"
      PROVE  /\ Kind[k].ktype = "spx" /\ h = "private" /\ f.names = Kind[k].alg
             /\ Trimmed(f.value) = v
  <2>1. CASE Encoded(f, k, h)
    <3>1. h = "private" /\ f.names = Kind[k].alg /\ f.value = v
      BY <1>1, <1>4, <2>1 DEF Encoded
    <3>2. Kind[k].ktype = "spx"
      BY <1>4, <2>1, KindIs, AlgorithmsAre DEF Encoded
    <3> QED
      BY <1>3, <3>1, <3>2
  <2>2. CASE Kind[k].ktype = "spx" /\ h = "private" /\ f = LegacyFile(k)
    <3>1. f.names = Kind[k].alg /\ f.value = <<PublicPart(k), SecretPart(k), PublicPart(k)>>
      BY <2>2 DEF LegacyFile
    <3> QED
      BY <1>3, <2>2, <3>1
  <2>3. f # SpkiFile(k) /\ ~ \E text \in BOOLEAN : f = WrappedFile(k, text)
    BY <1>4 DEF SpkiFile, WrappedFile
  <2> QED
    BY <2>1, <2>2, <2>3, ContentIs
<1>5. ASSUME f.std = "raw", f.half = "private", f.form = "pem"
      PROVE  LoadedAs("spx", f.names, [f EXCEPT !.value = Trimmed(@)]) = {HalfOf(k, h)}
  <2>1. [f EXCEPT !.value = Trimmed(@)].half = "private"
    BY <1>5
  <2>2. "value" \in DOMAIN f
    <3>1. CASE f \in FilesOf(k, h)
      BY <3>1 DEF FilesOf, Saved, LegacyFile, SpkiFile
    <3>2. CASE f \notin FilesOf(k, h)
      BY <3>2 DEF Contains, WrappedFile
    <3> QED
      BY <3>1, <3>2
  <2>3. [f EXCEPT !.value = Trimmed(@)].value = v
    BY <1>4, <1>5, <2>2
  <2> HIDE DEF v
  <2> QED
    BY <1>1, <1>4, <1>5, <2>1, <2>3 DEF LoadedAs
<1>6. LoadSpxPrivate(f) \subseteq {HalfOf(k, h)}
  BY <1>5 DEF LoadSpxPrivate
<1>7. ASSUME Kind[k].ktype = "spx", h = "private"
      PROVE  HalfOf(k, h) \in LoadSpxPrivate(f)
  <2>1. f.std = "raw" /\ f.half = "private" /\ f.form = "pem"
    <3>1. Encoded(f, k, h) \/ f = LegacyFile(k)
      BY <1>7, ContentIs
    <3> QED
      BY <1>7, <3>1 DEF Encoded, LegacyFile
  <2>2. f.names \in Algorithms["spx"]
    BY <1>4, <1>7, <2>1, KindIs
  <2>3. Fits(Trimmed(f.value), f.names, "private")
    BY <1>2, <1>4, <1>7, <2>1
  <2> QED
    BY <1>5, <2>1, <2>2, <2>3 DEF LoadSpxPrivate
<1> QED
  BY <1>6, <1>7

LEMMA SpxPublicRight ==
    ASSUME NEW k \in Pairs, NEW h \in Halves, NEW f, Contains(f, k, h)
    PROVE  /\ LoadSpxPublic(f) \subseteq {HalfOf(k, h)}
           /\ Kind[k].ktype = "spx" /\ h = "public" => HalfOf(k, h) \in LoadSpxPublic(f)
<1> DEFINE v == HalfOf(k, "public").value
<1>1. v = <<PublicPart(k)>> /\ Fits(v, Kind[k].alg, "public")
  <2>1. "public" \in Halves
    BY DEF Halves
  <2> QED
    BY <2>1, HalfFits, HalfIs
<1>2. h = "public" => HalfOf(k, h) = [ktype |-> Kind[k].ktype, alg |-> Kind[k].alg,
                                      half |-> "public", value |-> v]
  BY HalfIs
<1>3. ASSUME f.form = "pem", f.half = "public", f.std = "raw"
      PROVE  Encoded(f, k, h) /\ h = "public" /\ Kind[k].ktype = "spx"
  <2>1. f # LegacyFile(k) /\ f # SpkiFile(k) /\ ~ \E text \in BOOLEAN : f = WrappedFile(k, text)
    BY <1>3 DEF LegacyFile, SpkiFile, WrappedFile
  <2>2. Encoded(f, k, h)
    BY <2>1, ContentIs
  <2> QED
    BY <1>3, <2>2, KindIs, AlgorithmsAre DEF Encoded
<1>4. ASSUME f.form = "pem", f.half = "public", f.std # "raw", SpkiOfHsm(f)
      PROVE  /\ Kind[k] = [ktype |-> "spx", alg |-> "SHA2-128s"] /\ h = "public"
             /\ f = SpkiFile(k)
  <2>1. f.names = HashedSha2
    BY <1>4 DEF SpkiOfHsm
  <2>2. ~Encoded(f, k, h)
    <3>1. Kind[k].alg # HashedSha2
      BY KindIs, AlgorithmsAre DEF HashedSha2
    <3> QED
      BY <2>1, <3>1 DEF Encoded
  <2>3. ~ \E text \in BOOLEAN : f = WrappedFile(k, text)
    BY <1>4 DEF WrappedFile
  <2>4. f # LegacyFile(k)
    BY <1>4 DEF LegacyFile
  <2> QED
    BY <2>2, <2>3, <2>4, ContentIs
<1>5. ASSUME NEW key \in LoadSpxPublic(f)
      PROVE  key = HalfOf(k, h)
  <2>1. f.form = "pem" /\ f.half = "public"
    BY <1>5 DEF LoadSpxPublic
  <2>2. CASE f.std = "raw"
    <3>1. key \in LoadedAs("spx", f.names, f)
      BY <1>5, <2>1, <2>2 DEF LoadSpxPublic
    <3> HIDE DEF v
    <3> QED
      BY <1>2, <1>3, <2>1, <2>2, <3>1 DEF LoadedAs, Encoded, v
  <2>3. CASE f.std # "raw"
    <3>1. SpkiOfHsm(f) /\ key \in LoadedAs("spx", "SHA2-128s", f)
      BY <1>5, <2>1, <2>3 DEF LoadSpxPublic
    <3>2. f.value = <<PublicPart(k)>> /\ f.half = "public"
      BY <1>4, <2>1, <2>3, <3>1 DEF SpkiFile
    <3>3. key = [ktype |-> "spx", alg |-> "SHA2-128s", half |-> "public",
                 value |-> <<PublicPart(k)>>]
      BY <3>1, <3>2 DEF LoadedAs
    <3> QED
      BY <1>1, <1>2, <1>4, <2>1, <2>3, <3>1, <3>3
  <2> QED
    BY <2>2, <2>3
<1>6. ASSUME Kind[k].ktype = "spx", h = "public"
      PROVE  HalfOf(k, h) \in LoadSpxPublic(f)
  <2>1. CASE Encoded(f, k, h)
    <3>1. /\ f.form = "pem" /\ f.half = "public" /\ f.std = "raw"
          /\ f.names = Kind[k].alg /\ f.value = v
      BY <1>6, <2>1 DEF Encoded
    <3>2. f.names \in Algorithms["spx"]
      BY <1>6, <3>1, KindIs
    <3>3. LoadSpxPublic(f) = LoadedAs("spx", f.names, f)
      BY <1>1, <3>1, <3>2 DEF LoadSpxPublic
    <3> HIDE DEF v
    <3> QED
      BY <1>2, <1>6, <3>1, <3>3 DEF LoadedAs
  <2>2. CASE /\ Kind[k] = [ktype |-> "spx", alg |-> "SHA2-128s"] /\ h = "public"
             /\ f = SpkiFile(k)
    <3>1. /\ f.form = "pem" /\ f.half = "public" /\ f.std = "pkcs8"
          /\ f.names = HashedSha2 /\ f.value = v /\ Kind[k].alg = "SHA2-128s"
      BY <1>1, <2>2 DEF SpkiFile
    <3>2. SpkiOfHsm(f)
      BY <1>1, <3>1 DEF SpkiOfHsm
    <3>3. LoadSpxPublic(f) = LoadedAs("spx", "SHA2-128s", f)
      BY <3>1, <3>2 DEF LoadSpxPublic
    <3> HIDE DEF v
    <3> QED
      BY <1>2, <1>6, <3>1, <3>3 DEF LoadedAs
  <2> QED
    BY <1>6, <2>1, <2>2, ContentIs
<1> QED
  BY <1>5, <1>6

(* The load functions by type.                                             *)
LEMMA LoadedIs ==
    ASSUME NEW f, f # NONE, NEW h \in Halves
    PROVE  /\ Loaded(f, "rsa", h) = LoadRsa(f, h)
           /\ Loaded(f, "ec", h) = LoadEcdsa(f, h)
           /\ Loaded(f, "mldsa", h) = LoadMldsa(f, h)
           /\ Loaded(f, "slhdsa", h) = LoadSlhDsa(f, h)
           /\ Loaded(f, "spx", h) =
                 IF h = "private" THEN LoadSpxPrivate(f) ELSE LoadSpxPublic(f)
  BY DEF Loaded, Halves

(* Whatever it is taken for, a file is read as the key it contains or      *)
(* refused.                                                                *)
LEMMA LoadedRight ==
    ASSUME NEW k \in Pairs, NEW h \in Halves, NEW f, Contains(f, k, h),
           NEW t \in KeyTypes, NEW g \in Halves
    PROVE  Loaded(f, t, g) \subseteq {HalfOf(k, h)}
<1>1. CASE f = NONE
  BY <1>1 DEF Loaded
<1>2. CASE f # NONE
  <2>1. CASE t = "rsa"
    <3>1. LoadRsa(f, g) \subseteq {HalfOf(k, h)}
      BY DecodedRight, AlgorithmsAre DEF LoadRsa
    <3> QED
      BY <1>2, <2>1, <3>1, LoadedIs
  <2>2. CASE t = "ec"
    <3>1. LoadEcdsa(f, g) \subseteq {HalfOf(k, h)}
      BY DecodedRight, AlgorithmsAre DEF LoadEcdsa
    <3> QED
      BY <1>2, <2>2, <3>1, LoadedIs
  <2>3. CASE t = "mldsa"
    <3>1. LoadMldsa(f, g) \subseteq {HalfOf(k, h)}
      BY DecodedRight, AlgorithmsAre DEF LoadMldsa
    <3> QED
      BY <1>2, <2>3, <3>1, LoadedIs
  <2>4. CASE t = "slhdsa"
    <3>1. LoadSlhDsa(f, g) \subseteq {HalfOf(k, h)}
      BY DecodedRight, AlgorithmsAre DEF LoadSlhDsa
    <3> QED
      BY <1>2, <2>4, <3>1, LoadedIs
  <2>5. CASE t = "spx"
    BY <1>2, <2>5, LoadedIs, SpxPrivateRight, SpxPublicRight
  <2> QED
    BY <2>1, <2>2, <2>3, <2>4, <2>5, AlgorithmsAre
<1> QED
  BY <1>1, <1>2

LEMMA UnwrappedRight ==
    ASSUME NEW k \in Pairs, NEW h \in Halves, NEW f, Contains(f, k, h),
           NEW t \in KeyTypes \ {"spx"}
    PROVE  Unwrapped(f, t) \subseteq {HalfOf(k, h)}
<1> SUFFICES ASSUME NEW key \in Unwrapped(f, t)
             PROVE  key = HalfOf(k, h)
  OBVIOUS
<1>1. /\ f.form = "wrapped" /\ f.names \in Algorithms[t]
      /\ key \in LoadedAs(t, f.names, f)
  BY DEF Unwrapped
<1>2. /\ Kind[k].ktype # "spx" /\ h = "private"
      /\ \E text \in BOOLEAN : f = WrappedFile(k, text)
  <2>1. ~Encoded(f, k, h)
    BY <1>1 DEF Encoded
  <2>2. f # LegacyFile(k) /\ f # SpkiFile(k)
    BY <1>1 DEF LegacyFile, SpkiFile
  <2> QED
    BY <2>1, <2>2, ContentIs
<1>3. f.names = Kind[k].alg /\ f.half = h /\ f.value = HalfOf(k, h).value
  BY <1>2 DEF WrappedFile
<1>4. t = Kind[k].ktype
  BY <1>1, <1>2, <1>3, KindIs, OneType
<1> QED
  BY <1>1, <1>3, <1>4, HalfIs DEF LoadedAs

(* And taken for what it is, it is read.                                   *)
LEMMA ReadsWhatItHolds ==
    ASSUME NEW k \in Pairs, NEW h \in Halves, NEW f, Contains(f, k, h), f # NONE,
           Kind[k].ktype = "slhdsa" => f.text
    PROVE  HalfOf(k, h) \in Loaded(f, Kind[k].ktype, h) \cup Unwrapped(f, Kind[k].ktype)
<1> DEFINE t == Kind[k].ktype
<1>1. t \in KeyTypes /\ Kind[k].alg \in Algorithms[t]
  BY KindIs
<1>2. CASE t = "spx"
  BY <1>2, LoadedIs, SpxPrivateRight, SpxPublicRight DEF Halves
<1>3. CASE t # "spx" /\ Encoded(f, k, h)
  <2>1. \E std \in {"pkcs1", "pkcs8"} :
           Decodes(f, t, h, std) /\ (t # "rsa" => std = "pkcs8")
    BY <1>1, <1>3, AlgorithmsAre DEF Encoded, Decodes
  <2>2. HalfOf(k, h) \in LoadedAs(t, f.names, f)
    <3>1. PICK std \in {"pkcs1", "pkcs8"} : Decodes(f, t, h, std)
      BY <2>1
    <3> HIDE DEF t
    <3> QED
      BY <1>1, <1>3, <3>1, DecodedRight
  <2>3. Loaded(f, t, h) = LoadedAs(t, f.names, f)
    BY <1>1, <1>3, <2>1, LoadedIs, AlgorithmsAre
       DEF LoadRsa, LoadEcdsa, LoadMldsa, LoadSlhDsa
  <2> QED
    BY <2>2, <2>3
<1>4. CASE t # "spx" /\ h = "private" /\ \E text \in BOOLEAN : f = WrappedFile(k, text)
  <2>1. PICK text \in BOOLEAN : f = WrappedFile(k, text)
    BY <1>4
  <2>2. /\ f.form = "wrapped" /\ f.names = Kind[k].alg /\ f.half = h
        /\ f.value = HalfOf(k, h).value /\ f.text = text
    BY <1>4, <2>1 DEF WrappedFile
  <2>3. f.text \in WrappedText(t)
    BY <2>2 DEF WrappedText
  <2>4. Unwrapped(f, t) = LoadedAs(t, f.names, f)
    BY <1>1, <2>2, <2>3 DEF Unwrapped
  <2>5. HalfOf(k, h) \in LoadedAs(t, f.names, f)
    BY <1>4, <2>2, HalfIs DEF LoadedAs
  <2> QED
    BY <2>4, <2>5
<1>5. Kind[k] = [ktype |-> "spx", alg |-> "SHA2-128s"] => t = "spx"
  OBVIOUS
<1> QED
  BY <1>2, <1>3, <1>4, <1>5, ContentIs
-----------------------------------------------------------------------------
(* Keys from the attributes of objects.                                    *)

(* An object is a half of a pair; of SPHINCS+ keys the private half.       *)
Genuine(o) ==
    /\ o.class \in Halves /\ \E k \in Pairs : o = Attributes(HalfOf(k, o.class))
    /\ o.ktype = "spx" => o.class = "private"

LEMMA AttributesAre ==
    ASSUME NEW k, NEW h \in Halves
    PROVE  Attributes(HalfOf(k, h)) =
             [class |-> h, ktype |-> Kind[k].ktype, alg |-> Kind[k].alg,
              value |-> HalfOf(k, h).value]
  BY HalfIs DEF Attributes

LEMMA HalfIsGenuine ==
    ASSUME NEW k \in Pairs, NEW h \in Halves, Kind[k].ktype = "spx" => h = "private"
    PROVE  Genuine(Attributes(HalfOf(k, h)))
  BY AttributesAre DEF Genuine

(* Reading an object back gives the half it is, whether or not the token   *)
(* reports the parameter set.                                              *)
LEMMA FromGenuine ==
    ASSUME NEW k \in Pairs, NEW c \in Halves, NEW o, o = Attributes(HalfOf(k, c)),
           NEW half \in Halves, NEW reported \in {o.alg, NONE},
           NEW key \in FromAttributes(o, half, reported)
    PROVE  key = HalfOf(k, half)
<1>1. /\ o.class = c /\ o.ktype = Kind[k].ktype /\ o.alg = Kind[k].alg
      /\ o.value = HalfOf(k, c).value
  BY AttributesAre
<1>2. HalfOf(k, c) = [ktype |-> o.ktype, alg |-> o.alg, half |-> o.class, value |-> o.value]
  BY <1>1, HalfIs
<1>3. ASSUME NEW a, key \in KeysOf(o, {a})
      PROVE  key = [ktype |-> o.ktype, alg |-> a, half |-> o.class, value |-> o.value]
  BY <1>3 DEF KeysOf
<1>4. CASE key \in RsaOf(o, half)
  BY <1>2, <1>1, <1>3, <1>4 DEF RsaOf, IsA
<1>5. CASE key \in EcdsaOf(o, half)
  BY <1>2, <1>1, <1>3, <1>5 DEF EcdsaOf, IsA
<1>6. CASE key \in SlhDsaOf(o, half, reported)
  BY <1>2, <1>1, <1>3, <1>6 DEF SlhDsaOf, IsA
<1>7. CASE key \in MldsaOf(o, half, reported)
  <2>1. o.class = half /\ o.ktype = "mldsa"
    BY <1>7 DEF MldsaOf, IsA
  <2>2. CASE reported # NONE
    <3>1. key \in KeysOf(o, {o.alg})
      BY <1>7, <2>1, <2>2 DEF MldsaOf, IsA
    <3> QED
      BY <1>1, <1>2, <1>3, <2>1, <3>1
  <2>3. CASE reported = NONE
    <3>1. PICK a \in Guessed(o.value, half) :
             key = [ktype |-> "mldsa", alg |-> a, half |-> half, value |-> o.value]
      BY <1>7, <2>1, <2>3 DEF MldsaOf, IsA
    <3>2. a \in Algorithms["mldsa"] /\ Fits(o.value, a, half)
      BY DEF Guessed
    <3>3. PartSize(Kind[k].alg) = PartSize(a)
      BY <1>1, <2>1, <3>2, HalfFits
    <3>4. Kind[k].alg \in Algorithms["mldsa"]
      BY <1>1, <2>1, KindIs
    <3>5. a = Kind[k].alg
      BY <3>2, <3>3, <3>4, LengthTells
    <3> QED
      BY <1>1, <1>2, <2>1, <3>1, <3>5
  <2> QED
    BY <2>2, <2>3
<1> QED
  BY <1>4, <1>5, <1>6, <1>7 DEF FromAttributes

(* Every format that export writes is one of the standard ones.            *)
LEMMA FormatsAreStandard ==
    ASSUME NEW t \in KeyTypes, NEW half \in Halves, NEW enc
    PROVE  Formats(t, half, enc) \subseteq Standard(t)
<1> USE DEF Format
<1>1. Pkcs8Format(enc) \subseteq [form : {"pem", "der"}, std : {"pkcs8"}]
  BY DEF Pkcs8Format
<1>2. RsaFormat(enc) \subseteq [form : {"pem", "der"}, std : {"pkcs1", "pkcs8"}]
  BY <1>1 DEF RsaFormat
<1>3. CASE t = "rsa"
  BY <1>2, <1>3 DEF Formats, Standard
<1>4. CASE t = "ec"
  BY <1>1, <1>4 DEF Formats, Standard, EcdsaFormat
<1>5. CASE t = "mldsa"
  BY <1>1, <1>5 DEF Formats, Standard, MldsaFormat
<1>6. CASE t = "slhdsa"
  BY <1>1, <1>6 DEF Formats, Standard, SlhDsaPrivateFormat, SlhDsaPublicFormat, Halves
<1>7. CASE t = "spx"
  BY <1>7 DEF Formats, Standard, SpxFormat
<1> QED
  BY <1>3, <1>4, <1>5, <1>6, <1>7, AlgorithmsAre

(* An import makes the type and the half it was asked for.                 *)
LEMMA LoadedTypeAndHalf ==
    ASSUME NEW f, NEW t \in KeyTypes, NEW g \in Halves, NEW key \in Loaded(f, t, g)
    PROVE  key.ktype = t /\ key.half = g
<1>1. f # NONE
  BY DEF Loaded
<1>2. CASE t = "rsa"
  BY <1>1, <1>2, LoadedIs DEF LoadRsa, Decodes, LoadedAs
<1>3. CASE t = "ec"
  BY <1>1, <1>3, LoadedIs DEF LoadEcdsa, Decodes, LoadedAs
<1>4. CASE t = "mldsa"
  BY <1>1, <1>4, LoadedIs DEF LoadMldsa, Decodes, LoadedAs
<1>5. CASE t = "slhdsa"
  <2>1. key \in LoadSlhDsa(f, g)
    BY <1>1, <1>5, LoadedIs
  <2>2. Decodes(f, "slhdsa", g, "pkcs8") /\ key \in LoadedAs("slhdsa", f.names, f)
    BY <2>1 DEF LoadSlhDsa
  <2> QED
    BY <1>5, <2>2 DEF Decodes, LoadedAs
<1>6. CASE t = "spx" /\ g = "private"
  BY <1>1, <1>6, LoadedIs DEF LoadSpxPrivate, LoadedAs
<1>7. CASE t = "spx" /\ g = "public"
  BY <1>1, <1>7, LoadedIs DEF LoadSpxPublic, LoadedAs, Halves
<1> QED
  BY <1>2, <1>3, <1>4, <1>5, <1>6, <1>7, AlgorithmsAre DEF Halves

(* The halves that an import makes can be had from the half it reads.      *)
LEMMA MadeHalves ==
    ASSUME NEW t \in KeyTypes, NEW mode \in ImportModes(t), NEW i \in DOMAIN Makes(t, mode)
    PROVE  LET made == Makes(t, mode)[i]
           IN  /\ HalfRead(mode) \in Halves /\ made \in Halves
               /\ HalfRead(mode) = "public" => made = "public"
               /\ t = "spx" => made = "private"
<1>1. /\ mode \in {"public", "private", "whole"} /\ (t = "spx" => mode = "private")
  BY AlgorithmsAre DEF ImportModes, Halves
<1>2. CASE mode # "whole"
  <2>1. Makes(t, mode) = <<mode>> /\ HalfRead(mode) = mode
    BY <1>2 DEF Makes, HalfRead
  <2> QED
    BY <1>1, <1>2, <2>1 DEF Halves
<1>3. CASE mode = "whole"
  <2>1. Makes(t, mode) \in {<<"private", "public">>, <<"public", "private">>}
    BY <1>3 DEF Makes
  <2>2. HalfRead(mode) = "private"
    BY <1>3 DEF HalfRead
  <2> QED
    BY <1>1, <1>3, <2>1, <2>2 DEF Halves
<1> QED
  BY <1>2, <1>3
-----------------------------------------------------------------------------
(* The token holds halves of pairs and the files contain what they are     *)
(* known to hold.                                                          *)

FileInv(p) ==
    /\ files[p] # NONE => \E k \in Pairs, h \in Halves :
                            holds[p] = HalfOf(k, h) /\ Contains(files[p], k, h)
    /\ holds[p] # NONE => files[p] # NONE

KeyInv ==
    /\ \A o \in objects : Genuine(o)
    /\ DOMAIN files = Paths /\ DOMAIN holds = Paths
    /\ \A p \in Paths : FileInv(p)
    /\ steps \in 0..MaxSteps

LEMMA HalfIsKey ==
    ASSUME NEW k \in Pairs, NEW h \in Halves
    PROVE  HalfOf(k, h) \in Key /\ HalfOf(k, h).value \in Seq(Part)
<1>1. SecretPart(k) \in Part /\ PublicPart(k) \in Part
  BY DEF SecretPart, PublicPart, Part
<1>2. HalfOf(k, h).value \in Seq(Part)
  <2>1. HalfOf(k, h).value \in {<<SecretPart(k), PublicPart(k)>>, <<PublicPart(k)>>}
    BY HalfIs DEF Halves
  <2>2. <<SecretPart(k), PublicPart(k)>> \in Seq(Part) /\ <<PublicPart(k)>> \in Seq(Part)
    BY <1>1
  <2> QED
    BY <2>1, <2>2
<1>3. Kind[k].ktype \in KeyTypes /\ Kind[k].alg \in UNION {Algorithms[t] : t \in KeyTypes}
  BY KindIs
<1> QED
  BY <1>2, <1>3, HalfIs DEF Key

LEMMA ContainedIsFile ==
    ASSUME NEW k \in Pairs, NEW h \in Halves, NEW f, Contains(f, k, h)
    PROVE  f \in File
<1> DEFINE Names == (UNION {Algorithms[t] : t \in KeyTypes}) \cup {HashedSha2}
<1>1. Kind[k].alg \in Names /\ HashedSha2 \in Names
  BY KindIs
<1>2. /\ HalfOf(k, h).value \in Seq(Part) /\ HalfOf(k, "private").value \in Seq(Part)
      /\ <<PublicPart(k), SecretPart(k), PublicPart(k)>> \in Seq(Part)
      /\ <<PublicPart(k)>> \in Seq(Part)
  <2>1. SecretPart(k) \in Part /\ PublicPart(k) \in Part
    BY DEF SecretPart, PublicPart, Part
  <2> QED
    BY <2>1, HalfIsKey DEF Halves
<1> HIDE DEF Names
<1>3. LegacyFile(k) \in File
  BY <1>1, <1>2 DEF LegacyFile, File, Halves, Names
<1>4. SpkiFile(k) \in File
  BY <1>1, <1>2 DEF SpkiFile, File, Halves, Names
<1>5. \A text \in BOOLEAN : WrappedFile(k, text) \in File
  BY <1>1, <1>2 DEF WrappedFile, File, Halves, Names
<1>6. ASSUME NEW format \in Standard(Kind[k].ktype)
      PROVE  Saved(HalfOf(k, h), format) \in File
  <2>1. format.form \in {"pem", "der"} /\ format.std \in {"pkcs1", "pkcs8", "raw"}
    BY <1>6, KindIs, FormatIs
  <2>2. HalfOf(k, h).alg = Kind[k].alg /\ HalfOf(k, h).half = h
    BY DEF HalfOf
  <2>3. (format.form = "pem") \in BOOLEAN
    OBVIOUS
  <2> QED
    BY <1>1, <1>2, <2>1, <2>2, <2>3 DEF Saved, File, Names
<1> QED
  BY <1>3, <1>4, <1>5, <1>6 DEF Contains, FilesOf

LEMMA PutKeeps ==
    ASSUME KeyInv, Step, objects' = objects, NEW p \in Paths, NEW f, NEW key,
           Put(p, f, key),
           \/ f = NONE /\ key = NONE
           \/ \E k \in Pairs, h \in Halves : key = HalfOf(k, h) /\ Contains(f, k, h)
    PROVE  KeyInv'
<1>1. f = NONE \/ f # NONE
  OBVIOUS
<1>2. f # NONE => \E k \in Pairs, h \in Halves : key = HalfOf(k, h) /\ Contains(f, k, h)
  OBVIOUS
<1>3. key # NONE => f # NONE
  BY ContainedIsFile, KeyFilesAssumption
<1>4. ASSUME NEW q \in Paths
      PROVE  FileInv(q)'
  <2>1. CASE q = p
    <3>1. files'[q] = f /\ holds'[q] = key
      BY <2>1 DEF Put, KeyInv
    <3> QED
      BY <1>2, <1>3, <3>1 DEF FileInv
  <2>2. CASE q # p
    <3>1. files'[q] = files[q] /\ holds'[q] = holds[q]
      BY <2>2 DEF Put, KeyInv
    <3> QED
      BY <3>1 DEF FileInv, KeyInv
  <2> QED
    BY <2>1, <2>2
<1>5. DOMAIN files' = Paths /\ DOMAIN holds' = Paths
  BY DEF Put, KeyInv
<1>6. steps' \in 0..MaxSteps
  BY KeyFilesAssumption DEF Step, KeyInv
<1> QED
  BY <1>4, <1>5, <1>6 DEF KeyInv

LEMMA ObjectsKeep ==
    ASSUME KeyInv, Step, UNCHANGED <<files, holds>>, NEW new,
           \A o \in new : Genuine(o), objects' = objects \cup new
    PROVE  KeyInv'
<1>1. steps' \in 0..MaxSteps
  BY KeyFilesAssumption DEF Step, KeyInv
<1>2. \A o \in objects' : Genuine(o)
  BY DEF KeyInv
<1> QED
  BY <1>1, <1>2 DEF KeyInv, FileInv

LEMMA GenerateKeeps ==
    ASSUME KeyInv, NEW k \in Pairs, Generate(k)
    PROVE  KeyInv'
<1> DEFINE made == IF Kind[k].ktype = "spx" THEN {"private"} ELSE Halves
           new == {Attributes(HalfOf(k, h)) : h \in made}
<1>1. \A o \in new : Genuine(o)
  BY HalfIsGenuine DEF Halves
<1>2. Step /\ UNCHANGED <<files, holds>> /\ objects' = objects \cup new
  BY DEF Generate
<1> HIDE DEF new
<1> QED
  BY <1>1, <1>2, ObjectsKeep

LEMMA ExportKeeps ==
    ASSUME KeyInv, NEW p \in Paths, Export(p)
    PROVE  KeyInv'
<1>1. PICK o \in objects : \E half \in Halves, enc \in Encodings, reported \in {o.alg, NONE} :
          \E key \in IF o.ktype = "spx"
                     THEN {Half([ktype |-> "spx", alg |-> o.alg, half |-> "private",
                                 value |-> o.value], half)}
                     ELSE FromAttributes(o, half, reported),
             format \in Formats(o.ktype, half, enc) : Put(p, Saved(key, format), key)
  BY DEF Export
<1>2. PICK half \in Halves, enc \in Encodings, reported \in {o.alg, NONE} :
          \E key \in IF o.ktype = "spx"
                     THEN {Half([ktype |-> "spx", alg |-> o.alg, half |-> "private",
                                 value |-> o.value], half)}
                     ELSE FromAttributes(o, half, reported),
             format \in Formats(o.ktype, half, enc) : Put(p, Saved(key, format), key)
  BY <1>1
<1>3. PICK key \in IF o.ktype = "spx"
                   THEN {Half([ktype |-> "spx", alg |-> o.alg, half |-> "private",
                               value |-> o.value], half)}
                   ELSE FromAttributes(o, half, reported),
           format \in Formats(o.ktype, half, enc) : Put(p, Saved(key, format), key)
  BY <1>2
<1>4. Genuine(o)
  BY DEF KeyInv
<1>5. PICK k \in Pairs : o = Attributes(HalfOf(k, o.class))
  BY <1>4 DEF Genuine
<1>6. /\ o.class \in Halves /\ o.ktype = Kind[k].ktype /\ o.alg = Kind[k].alg
      /\ o.value = HalfOf(k, o.class).value
  BY <1>4, <1>5, AttributesAre DEF Genuine
<1>7. key = HalfOf(k, half)
  <2>1. CASE o.ktype # "spx"
    BY <1>3, <1>5, <1>6, <2>1, FromGenuine
  <2>2. CASE o.ktype = "spx"
    <3>1. o.class = "private"
      BY <1>4, <2>2 DEF Genuine
    <3>2. [ktype |-> "spx", alg |-> o.alg, half |-> "private", value |-> o.value]
            = HalfOf(k, "private")
      BY <1>6, <2>2, <3>1, HalfIs
    <3>3. key = Half(HalfOf(k, "private"), half)
      BY <1>3, <2>2, <3>2
    <3>4. HalfOf(k, "private").half = "private"
      BY DEF HalfOf
    <3> QED
      BY <3>3, <3>4, PublicOfHalf DEF Half, Halves
  <2> QED
    BY <2>1, <2>2
<1>8. format \in Standard(Kind[k].ktype)
  BY <1>3, <1>6, KindIs, FormatsAreStandard
<1>9. Contains(Saved(key, format), k, half)
  BY <1>7, <1>8 DEF Contains, FilesOf
<1>10. Step /\ objects' = objects
  BY DEF Export
<1> QED
  BY <1>3, <1>7, <1>9, <1>10, PutKeeps

LEMMA ImportKeeps ==
    ASSUME KeyInv, NEW p \in Paths, Import(p)
    PROVE  KeyInv'
<1>1. PICK t \in KeyTypes : \E mode \in ImportModes(t) :
          \E key \in Loaded(files[p], t, HalfRead(mode)), n \in DOMAIN Makes(t, mode) :
             objects' = objects \cup {Attributes(Half(key, Makes(t, mode)[i])) : i \in 1..n}
  BY DEF Import
<1>2. PICK mode \in ImportModes(t) :
          \E key \in Loaded(files[p], t, HalfRead(mode)), n \in DOMAIN Makes(t, mode) :
             objects' = objects \cup {Attributes(Half(key, Makes(t, mode)[i])) : i \in 1..n}
  BY <1>1
<1>3. PICK key \in Loaded(files[p], t, HalfRead(mode)), n \in DOMAIN Makes(t, mode) :
             objects' = objects \cup {Attributes(Half(key, Makes(t, mode)[i])) : i \in 1..n}
  BY <1>2
<1> DEFINE g == HalfRead(mode)
           new == {Attributes(Half(key, Makes(t, mode)[i])) : i \in 1..n}
<1>4. 1..n \subseteq DOMAIN Makes(t, mode)
  <2>1. Makes(t, mode) \in {<<mode>>, <<"private", "public">>, <<"public", "private">>}
    BY DEF Makes
  <2>2. DOMAIN Makes(t, mode) \in {1..1, 1..2}
    BY <2>1
  <2> QED
    BY <1>3, <2>2
<1>5. \A i \in 1..n : LET made == Makes(t, mode)[i]
                      IN  /\ g \in Halves /\ made \in Halves
                          /\ g = "public" => made = "public"
                          /\ t = "spx" => made = "private"
  BY <1>4, MadeHalves
<1>6. ASSUME NEW i \in 1..n
      PROVE  Genuine(Attributes(Half(key, Makes(t, mode)[i])))
  <2> DEFINE made == Makes(t, mode)[i]
  <2>1. g \in Halves /\ made \in Halves /\ (g = "public" => made = "public")
        /\ (t = "spx" => made = "private")
    BY <1>5
  <2>2. files[p] # NONE
    BY <1>3 DEF Loaded
  <2>3. PICK k \in Pairs, h \in Halves : Contains(files[p], k, h)
    BY <2>2 DEF KeyInv, FileInv
  <2>4. key = HalfOf(k, h)
    BY <1>3, <2>1, <2>3, LoadedRight
  <2>5. key.ktype = t /\ key.half = g
    BY <1>3, <2>1, LoadedTypeAndHalf
  <2>6. h = g /\ Kind[k].ktype = t
    BY <2>4, <2>5 DEF HalfOf
  <2>7. Half(key, made) = HalfOf(k, made)
    <3>1. CASE made = g
      BY <2>4, <2>5, <2>6, <3>1 DEF Half
    <3>2. CASE made # g
      BY <2>1, <2>4, <2>5, <2>6, <3>2, PublicOfHalf DEF Half, Halves
    <3> QED
      BY <3>1, <3>2
  <2> HIDE DEF made
  <2>8. Genuine(Attributes(HalfOf(k, made)))
    BY <2>1, <2>6, HalfIsGenuine
  <2> QED
    BY <2>7, <2>8 DEF made
<1>7. \A o \in new : Genuine(o)
  BY <1>6
<1>8. Step /\ UNCHANGED <<files, holds>> /\ objects' = objects \cup new
  BY <1>3 DEF Import
<1> HIDE DEF new
<1> QED
  BY <1>7, <1>8, ObjectsKeep

LEMMA WrapKeeps ==
    ASSUME KeyInv, NEW p \in Paths, Wrap(p)
    PROVE  KeyInv'
<1>1. PICK o \in objects, text \in BOOLEAN :
          /\ o.class = "private" /\ o.ktype # "spx"
          /\ Put(p, [form |-> "wrapped", std |-> "pkcs8", names |-> o.alg,
                     half |-> "private", value |-> o.value, text |-> text],
                 [ktype |-> o.ktype, alg |-> o.alg, half |-> "private",
                  value |-> o.value])
  BY DEF Wrap
<1>2. PICK k \in Pairs : o = Attributes(HalfOf(k, o.class))
  BY DEF KeyInv, Genuine
<1>3. "private" \in Halves
  BY DEF Halves
<1>4. /\ o.ktype = Kind[k].ktype /\ o.alg = Kind[k].alg
      /\ o.value = HalfOf(k, "private").value
  BY <1>1, <1>2, <1>3, AttributesAre
<1>5. HalfOf(k, "private") = [ktype |-> o.ktype, alg |-> o.alg, half |-> "private",
                              value |-> o.value]
  BY <1>3, <1>4, HalfIs
<1>6. Put(p, WrappedFile(k, text), HalfOf(k, "private"))
  BY <1>1, <1>4, <1>5 DEF WrappedFile
<1>7. Contains(WrappedFile(k, text), k, "private")
  BY <1>1, <1>4 DEF Contains
<1>8. Step /\ objects' = objects
  BY DEF Wrap
<1> QED
  BY <1>3, <1>6, <1>7, <1>8, PutKeeps

LEMMA UnwrapKeeps ==
    ASSUME KeyInv, NEW p \in Paths, Unwrap(p)
    PROVE  KeyInv'
<1>1. PICK t \in KeyTypes \ {"spx"} : \E key \in Unwrapped(files[p], t) :
          objects' = objects \cup {Attributes(key)}
  BY DEF Unwrap
<1> PICK key \in Unwrapped(files[p], t) : objects' = objects \cup {Attributes(key)}
  BY <1>1
<1>2. files[p] # NONE /\ key.ktype = t
  BY DEF Unwrapped, LoadedAs
<1>3. PICK k \in Pairs, h \in Halves : Contains(files[p], k, h)
  BY <1>2 DEF KeyInv, FileInv
<1>4. key = HalfOf(k, h)
  BY <1>3, UnwrappedRight
<1>5. Kind[k].ktype # "spx"
  BY <1>2, <1>4 DEF HalfOf
<1>6. \A o \in {Attributes(key)} : Genuine(o)
  BY <1>4, <1>5, HalfIsGenuine
<1>7. Step /\ UNCHANGED <<files, holds>>
  BY DEF Unwrap
<1> QED
  BY <1>1, <1>6, <1>7, ObjectsKeep

LEMMA DeliverKeeps ==
    ASSUME KeyInv, NEW p \in Paths, Deliver(p) \/ ExportCut(p)
    PROVE  KeyInv'
<1>1. CASE Deliver(p)
  <2>1. PICK d \in Foreign : Put(p, d.file, d.key)
    BY <1>1 DEF Deliver
  <2>2. PICK k \in Pairs, h \in Halves : d.key = HalfOf(k, h) /\ d.file \in FilesOf(k, h)
    BY ForeignAssumption
  <2>3. Step /\ objects' = objects
    BY <1>1 DEF Deliver
  <2> QED
    BY <2>1, <2>2, <2>3, PutKeeps DEF Contains
<1>2. CASE ExportCut(p)
  BY <1>2, PutKeeps DEF ExportCut
<1> QED
  BY <1>1, <1>2

-----------------------------------------------------------------------------
(* However keys come and go, the token holds halves of pairs, and the files *)
(* contain the keys they were made from.                                   *)
THEOREM KeysHeld == Spec => []KeyInv
<1>1. Init => KeyInv
  BY KeyFilesAssumption DEF Init, KeyInv, FileInv
<1>2. KeyInv /\ [Next]_vars => KeyInv'
  <2> SUFFICES ASSUME KeyInv, [Next]_vars
               PROVE  KeyInv'
    OBVIOUS
  <2>1. CASE UNCHANGED vars
    BY <2>1 DEF vars, KeyInv, FileInv
  <2>2. CASE Next
    BY <2>2, GenerateKeeps, DeliverKeeps, ExportKeeps, ImportKeeps, WrapKeeps, UnwrapKeeps
       DEF Next
  <2> QED
    BY <2>1, <2>2
<1> QED
  BY <1>1, <1>2, PTL DEF Spec

(* Objects, files and keys have their fields, and no name of an algorithm  *)
(* stands where it should not.                                             *)
THEOREM KeyFilesTypes == Spec => []TypeOK
<1>1. ASSUME KeyInv
      PROVE  TypeOK
  <2>1. ASSUME NEW o \in objects
        PROVE  o \in Object
    <3>1. PICK k \in Pairs : o = Attributes(HalfOf(k, o.class)) /\ o.class \in Halves
      BY <1>1 DEF KeyInv, Genuine
    <3>2. o = [class |-> o.class, ktype |-> Kind[k].ktype, alg |-> Kind[k].alg,
               value |-> HalfOf(k, o.class).value]
      BY <3>1, AttributesAre
    <3>3. /\ Kind[k].ktype \in KeyTypes /\ HalfOf(k, o.class).value \in Seq(Part)
          /\ Kind[k].alg \in UNION {Algorithms[t] : t \in KeyTypes}
      BY <3>1, KindIs, HalfIsKey
    <3>4. [class |-> o.class, ktype |-> Kind[k].ktype, alg |-> Kind[k].alg,
           value |-> HalfOf(k, o.class).value] \in Object
      BY <3>1, <3>3 DEF Object
    <3> QED
      BY <3>2, <3>4
  <2>2. ASSUME NEW p \in Paths
        PROVE  /\ files[p] # NONE => files[p] \in File
               /\ holds[p] # NONE => holds[p] \in Key /\ files[p] # NONE
    BY <1>1, ContainedIsFile, HalfIsKey DEF KeyInv, FileInv
  <2> QED
    BY <1>1, <2>1, <2>2 DEF KeyInv, TypeOK
<1> QED
  BY <1>1, KeysHeld, PTL

(* Generated, imported, unwrapped, out of its own exports or the files of  *)
(* other tools: every object is a half of a pair.                          *)
THEOREM GenuineObjects == Spec => []ObjectsAreGenuine
<1>1. KeyInv => ObjectsAreGenuine
  BY DEF KeyInv, Genuine, ObjectsAreGenuine
<1> QED
  BY <1>1, KeysHeld, PTL

(* The load functions and the save functions fit together.                 *)
THEOREM SavedIsReadBack == Spec => []ReadsBack
<1>1. ASSUME KeyInv
      PROVE  ReadsBack
  <2> SUFFICES ASSUME NEW p \in Paths, holds[p] # NONE,
                      holds[p].ktype = "slhdsa" => files[p].text
               PROVE  holds[p] \in Loaded(files[p], holds[p].ktype, holds[p].half)
                                   \cup Unwrapped(files[p], holds[p].ktype)
    BY DEF ReadsBack
  <2>1. files[p] # NONE
    BY <1>1 DEF KeyInv, FileInv
  <2>2. PICK k \in Pairs, h \in Halves :
           holds[p] = HalfOf(k, h) /\ Contains(files[p], k, h)
    BY <1>1, <2>1 DEF KeyInv, FileInv
  <2>3. holds[p].ktype = Kind[k].ktype /\ holds[p].half = h
    BY <2>2 DEF HalfOf
  <2>4. Kind[k].ktype = "slhdsa" => files[p].text
    BY <2>3
  <2> QED
    BY <2>1, <2>2, <2>3, <2>4, ReadsWhatItHolds
<1> QED
  BY <1>1, KeysHeld, PTL

(* A file of one type or half is not taken for another.                    *)
THEOREM NothingMixedUp == Spec => []MixedUpIsRefused
<1>1. ASSUME KeyInv
      PROVE  MixedUpIsRefused
  <2> SUFFICES ASSUME NEW p \in Paths, NEW t \in KeyTypes, NEW g \in Halves,
                      holds[p] # NONE
               PROVE  Loaded(files[p], t, g) \subseteq {holds[p]}
    BY DEF MixedUpIsRefused
  <2>1. PICK k \in Pairs, h \in Halves :
           holds[p] = HalfOf(k, h) /\ Contains(files[p], k, h)
    BY <1>1 DEF KeyInv, FileInv
  <2> QED
    BY <2>1, LoadedRight
<1> QED
  BY <1>1, KeysHeld, PTL
==============================================================================
