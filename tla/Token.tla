------------------------------- MODULE Token -------------------------------
(***************************************************************************)
(* The vocabulary of hsmtool: the objects a PKCS#11 token stores, the      *)
(* commands a user gives, and how a command names objects.                 *)
(*                                                                         *)
(* An object is known by the HSM call that made it (its serial) and by its *)
(* class, which stands for its handle: the two halves generate_key_pair    *)
(* returns share a serial.  Of its attributes only those commands search   *)
(* by are kept.                                                            *)
(***************************************************************************)
EXTENDS Naturals, Sequences

CONSTANTS
    Ids,         \* the values users give to --id
    Labels,      \* the values CKA_LABEL takes, the empty string included
    EmptyLabel,  \* "", stored when no --label is given
    NONE,        \* an absent option or attribute
    Commands     \* the commands the users of an instance give

AsymTypes   == {"rsa", "ec", "mldsa", "slhdsa"}
SecretTypes == {"aes", "kdf"}
KeyTypes    == AsymTypes \cup SecretTypes
KeyClasses  == {"public", "private", "secret"}
Classes     == KeyClasses \cup {"data"}

(* An id drawn at random is a number, one never drawn before.              *)
KeyObject == [serial : Nat, class : KeyClasses, ktype : KeyTypes,
              id : Ids \cup Nat, label : Labels]

DataObject == [serial : Nat, class : {"data"}, ktype : {NONE},
               id : Ids \cup {NONE}, label : Labels \cup {NONE}]

Object == KeyObject \cup DataObject

(***************************************************************************)
(* The commands.  "calls" is the sequence of HSM calls that make objects,  *)
(* each with the classes it makes; "form" is the class a command searches  *)
(* for or the halves of a key it makes.                                    *)
(***************************************************************************)
Shape(op, ktype, form, calls) ==
    [op |-> op, ktype |-> ktype, form |-> form, calls |-> calls]

(* generate_key_pair makes both halves in one call, generate_key a secret. *)
GeneratePair(ktype) ==
    {Shape("generate", ktype, "pair", <<{"public", "private"}>>)}
RsaGenerate    == GeneratePair("rsa")
EcdsaGenerate  == GeneratePair("ec")
MldsaGenerate  == GeneratePair("mldsa")
SlhDsaGenerate == GeneratePair("slhdsa")
AesGenerate    == {Shape("generate", "aes", "secret", <<{"secret"}>>)}
KdfGenerate    == {Shape("generate", "kdf", "secret", <<{"secret"}>>)}

(* One half alone: --public, --private, or a private key unwrapped.        *)
ImportHalf(ktype) ==
    {Shape("import", ktype, half, <<{half}>>) : half \in {"public", "private"}}

(* A whole key takes two create_object calls; RSA and ECDSA store the      *)
(* public half first and SLH-DSA the private half.                         *)
RsaImport    == ImportHalf("rsa")
    \cup {Shape("import", "rsa", "pair", <<{"public"}, {"private"}>>)}
EcdsaImport  == ImportHalf("ec")
    \cup {Shape("import", "ec", "pair", <<{"public"}, {"private"}>>)}
MldsaImport  == ImportHalf("mldsa")
SlhDsaImport == ImportHalf("slhdsa")
    \cup {Shape("import", "slhdsa", "pair", <<{"private"}, {"public"}>>)}
AesImport    == {Shape("import", "aes", "secret", <<{"secret"}>>)}
KdfImport    == {Shape("import", "kdf", "secret", <<{"secret"}>>)}

(* The templates give CKA_SIGN and CKA_DECRYPT to private keys, CKA_VERIFY *)
(* and CKA_ENCRYPT to public ones, so a search by usage is one by class.   *)
UseHalf(op, ktype, half) == {Shape(op, ktype, half, <<>>)}
RsaSign      == UseHalf("sign", "rsa", "private")
EcdsaSign    == UseHalf("sign", "ec", "private")
MldsaSign    == UseHalf("sign", "mldsa", "private")
SlhDsaSign   == UseHalf("sign", "slhdsa", "private")
RsaDecrypt   == UseHalf("decrypt", "rsa", "private")
RsaVerify    == UseHalf("verify", "rsa", "public")
EcdsaVerify  == UseHalf("verify", "ec", "public")
MldsaVerify  == UseHalf("verify", "mldsa", "public")
SlhDsaVerify == UseHalf("verify", "slhdsa", "public")
RsaEncrypt   == UseHalf("encrypt", "rsa", "public")

ExportHalf(ktype) ==
    UseHalf("export", ktype, "public") \cup UseHalf("export", ktype, "private")
RsaExport    == ExportHalf("rsa")
EcdsaExport  == ExportHalf("ec")
MldsaExport  == ExportHalf("mldsa")
SlhDsaExport == ExportHalf("slhdsa")

(* These look for any object of the name, whatever its class.              *)
AesExport     == {Shape("export", "aes", "any", <<>>)}
KdfExport     == {Shape("export", "kdf", "any", <<>>)}
ObjectRead    == {Shape("read", NONE, "any", <<>>)}
ObjectShow    == {Shape("show", NONE, "any", <<>>)}
ObjectDestroy == {Shape("destroy", NONE, "any", <<>>)}
ObjectWrite   == {Shape("write", NONE, "data", <<{"data"}>>)}

(* Commands that leave a key behind, act on the one object they select, or *)
(* act on every object they find.                                          *)
MakeShapes ==
    RsaGenerate \cup EcdsaGenerate \cup MldsaGenerate \cup SlhDsaGenerate
    \cup AesGenerate \cup KdfGenerate
    \cup RsaImport \cup EcdsaImport \cup MldsaImport \cup SlhDsaImport
    \cup AesImport \cup KdfImport

UseShapes ==
    RsaSign \cup EcdsaSign \cup MldsaSign \cup SlhDsaSign \cup RsaDecrypt
    \cup RsaVerify \cup EcdsaVerify \cup MldsaVerify \cup SlhDsaVerify
    \cup RsaEncrypt
    \cup RsaExport \cup EcdsaExport \cup MldsaExport \cup SlhDsaExport
    \cup AesExport \cup KdfExport \cup ObjectRead

LoopShapes == ObjectShow \cup ObjectDestroy

(* A command is given with an --id, a --label, both or neither.            *)
Named(shapes) ==
    {[op |-> s.op, ktype |-> s.ktype, form |-> s.form, calls |-> s.calls,
      id |-> i, label |-> l] :
        s \in shapes, i \in Ids \cup {NONE}, l \in Labels \cup {NONE}}

MakeCommand  == Named(MakeShapes)
UseCommand   == Named(UseShapes)
LoopCommand  == Named(LoopShapes)
WriteCommand == Named(ObjectWrite)

Command == MakeCommand \cup UseCommand \cup LoopCommand \cup WriteCommand

ASSUME TokenAssumption ==
    /\ EmptyLabel \in Labels
    /\ NONE \notin Ids \cup Labels
    /\ \A n \in Ids \cup {NONE} : n \notin Nat
    /\ Commands \subseteq Command

(* search_spec: without an id and a label there is nothing to search for.  *)
NoCriteria(c) == c.id = NONE /\ c.label = NONE

(* An object is found when every attribute of the search template is equal *)
(* to the object's: one option given as id and one as label are conjoined. *)
Matching(objs, c) ==
    {o \in objs : /\ c.id # NONE => o.id = c.id
                  /\ c.label # NONE => o.label = c.label}

(* Slip: the key type and the usage are left out of the search.            *)
SelectedByName(objs, c) == Matching(objs, c)

(* What find_one_object looks for: the name, and with it the key type and  *)
(* the class, or the usage that goes with the class.                       *)
Selected(objs, c) ==
    {o \in Matching(objs, c) :
        c.form # "any" => o.class = c.form /\ o.ktype = c.ktype}

(* The classes of a whole make command.                                    *)
Halves(form) == IF form = "pair" THEN {"public", "private"} ELSE {form}

(* Slips: no default for the label; the label is not stored at all.        *)
NewLabelAsGiven(c)   == c.label
NewLabelForgotten(c) == EmptyLabel

(* The label a key gets: unwrap_or_default.                                *)
NewLabel(c) == IF c.label = NONE THEN EmptyLabel ELSE c.label

KeysOf(objs) == {o \in objs : o.class \in KeyClasses}

(* One reply per command: its outcome, and on success the objects it made, *)
(* destroyed, showed or used.                                              *)
Outcomes == {"ok", "SessionRequired", "NoSearchCriteria", "ObjectExists",
             "ObjectNotFound", "TooManyObjects", "Error"}
Reply == [cmd : Commands, outcome : Outcomes, objs : SUBSET Object]
=============================================================================
