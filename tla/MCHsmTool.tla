----------------------------- MODULE MCHsmTool -----------------------------
(***************************************************************************)
(* Small instances of HsmTool: two processes, two ids and one label        *)
(* besides "", keys of several types under names that meet.                *)
(***************************************************************************)
EXTENDS HsmStore

CONSTANTS p1, p2, i1, i2, kEmpty, k1

MCProcs  == {p1, p2}
MCIds    == {i1, i2}
MCLabels == {kEmpty, k1}

(* The command of a shape under a name.                                    *)
Of(shapes, form, id, label) ==
    CHOOSE c \in Named(shapes) : c.form = form /\ c.id = id /\ c.label = label

GenRsa(id, label)  == Of(RsaGenerate, "pair", id, label)
GenAes(id, label)  == Of(AesGenerate, "secret", id, label)
ImpEc(id, label)   == Of(EcdsaImport, "pair", id, label)
ImpSlh(id, label)  == Of(SlhDsaImport, "pair", id, label)
SignRsa(id, label) == Of(RsaSign, "private", id, label)
SignEc(id, label)  == Of(EcdsaSign, "private", id, label)
Read(id, label)    == Of(ObjectRead, "any", id, label)
Destroy(id, label) == Of(ObjectDestroy, "any", id, label)
Show(id, label)    == Of(ObjectShow, "any", id, label)
Write(id, label)   == Of(ObjectWrite, "data", id, label)

(* Batches that make, use and destroy keys under one label; some name the  *)
(* id, the label or both, and one names nothing.                           *)
LockedScripts ==
    {<<GenRsa(NONE, k1), SignRsa(NONE, k1)>>,
     <<GenRsa(i1, NONE), SignEc(NONE, k1)>>,
     <<ImpEc(i1, k1)>>,
     <<ImpSlh(i1, k1), Show(i1, NONE)>>,
     <<Destroy(NONE, k1), GenAes(NONE, k1)>>,
     <<Write(NONE, k1), Read(NONE, k1)>>,
     <<SignRsa(NONE, NONE)>>}

(* Without the lock: a generate, an import in two calls and a destroy race *)
(* with each other and with the uses of the key.                           *)
RacingScripts ==
    {<<GenRsa(i1, k1), SignRsa(NONE, k1)>>,
     <<ImpSlh(NONE, k1), ImpEc(i1, NONE)>>,
     <<Destroy(NONE, k1)>>,
     <<Show(NONE, k1), Read(i1, NONE)>>}

(* One key after another under the same label and different ids.           *)
DocScripts == {<<GenRsa(i1, k1)>>, <<GenRsa(i2, k1), SignRsa(NONE, k1)>>}

CommandsOf(scripts) == UNION {{s[i] : i \in 1..Len(s)} : s \in scripts}

LockedCommands == CommandsOf(LockedScripts)
RacingCommands == CommandsOf(RacingScripts)
DocCommands    == CommandsOf(DocScripts)
=============================================================================
