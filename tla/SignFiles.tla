----------------------------- MODULE SignFiles -----------------------------
(***************************************************************************)
(* The sign and verify commands and the files they work on.  The input is  *)
(* read and prepared as the format says, the HSM signs, the signature is   *)
(* written to a file of its own and may be put into a range of the input   *)
(* file, which is read again for that and written anew.  A step is one     *)
(* file operation or one call of the HSM.                                  *)
(*                                                                         *)
(* A file is a sequence of cells.  A hash is HashLen cells and a signature *)
(* SigLen, so that their order and their length can be told.               *)
(***************************************************************************)
EXTENDS Naturals, Sequences, FiniteSets, SequencesExt

CONSTANTS
    Procs,     \* processes that run hsmtool
    Locking,   \* whether all of them pass --lockfile
    Image,     \* the file that is signed in place
    Files,     \* the other files: name to content at first
    Requests,  \* the commands the processes run
    NONE,      \* nothing
    HashLen,   \* cells of a SHA-256 hash
    SigLen,    \* cells of a signature
    Prefix,    \* the DigestInfo that stands before a hash
    MaxRuns    \* bound on the number of invocations

(* A format is a word, and for slice:m..n the cells m+1 to n.  The last    *)
(* two stand for an unknown word and for one shorter than "slice:".        *)
Words    == {"plain-text", "sha256-hash", "sha256-hash-reversed", "raw", "slice"}
BadWords == {"unknown", "short"}
Algs     == {"RSA", "EC", "ML-DSA", "SLH-DSA"}
Domains  == {"Pure", "PreHashed"}

IsSlice(format) == format.word = "slice"

(* A content is a sequence of any cells.                                   *)
IsList(content) == content \in Seq(Range(content))

(* How a command ends.                                                     *)
Outcomes == {"ok", "Error", "NotVerified", "Unsupported", "HashSizeError",
             "WriteError", "Panic"}

ASSUME SignFilesAssumption ==
    /\ Locking \in BOOLEAN /\ MaxRuns \in Nat
    /\ HashLen \in Nat \ {0} /\ SigLen \in Nat \ {0}
    /\ NONE \notin Procs \cup Outcomes /\ Image \in DOMAIN Files
    /\ \A f \in DOMAIN Files : IsList(Files[f])

(* What the options may be.  A signature file is another file than the     *)
(* image, and the image is the file that is signed in place.               *)
ASSUME RequestsAssumption ==
    \A c \in Requests :
        /\ c.op \in {"sign", "verify"} /\ c.alg \in Algs /\ c.domain \in Domains
        /\ c.little \in BOOLEAN /\ c.format.word \in Words \cup BadWords
        /\ IsSlice(c.format) => c.format.from \in Nat /\ c.format.to \in Nat
        /\ c.range # NONE => c.range.from \in Nat /\ c.range.to \in Nat
        /\ c.input \in DOMAIN Files
        /\ c.output # NONE => c.output \in DOMAIN Files \ {Image}
        /\ c.op = "sign" /\ c.range # NONE => c.input = Image
        /\ c.op = "verify" /\ c.range = NONE => c.output # NONE

VARIABLES
    files,   \* the content of each file
    holder,  \* who holds the lock file
    runs,    \* invocations started so far
    pc,      \* where each process is
    cmd,     \* the command it runs
    data,    \* the data prepared for the HSM
    result,  \* the signature made or read
    copy,    \* the image as read again
    reply,   \* the outcome of the command
    before,  \* history: the image when the command began
    made,    \* history: every signature, with the domain asked for
    claims   \* history: the commands that signed the image in place, of
             \* those whose range and data were not written to since

client == <<cmd, data, result, copy, reply, before>>
vars   == <<files, holder, runs, pc, client, made, claims>>

PCs == {"idle", "parse", "find", "read", "sign", "output", "again", "update",
        "written", "signature", "verify", "done"}

TypeOK ==
    /\ DOMAIN files = DOMAIN Files
    /\ files[Image] = <<>> \/ Len(files[Image]) = Len(Files[Image])
    /\ holder \in Procs \cup {NONE}
    /\ runs \in 0..MaxRuns
    /\ pc \in [Procs -> PCs]
    /\ cmd \in [Procs -> Requests \cup {NONE}]
    /\ \A p \in Procs : pc[p] \in {"output", "again"} => Len(result[p]) = SigLen
    /\ reply \in [Procs -> Outcomes \cup {NONE}]
    /\ claims \subseteq Requests

Init ==
    /\ files = Files /\ holder = NONE /\ runs = 0
    /\ pc = [p \in Procs |-> "idle"]
    /\ cmd = [p \in Procs |-> NONE]
    /\ data = [p \in Procs |-> <<>>]
    /\ result = [p \in Procs |-> <<>>]
    /\ copy = [p \in Procs |-> <<>>]
    /\ reply = [p \in Procs |-> NONE]
    /\ before = [p \in Procs |-> <<>>]
    /\ made = {} /\ claims = {}
-----------------------------------------------------------------------------
(* What the functions of SignData make of an input.                        *)
Hash(input) == [i \in 1..HashLen |-> [hash |-> input, part |-> i]]

(* As get and get_mut of a slice see it.                                   *)
InFile(range, content) == range.from <= range.to /\ range.to <= Len(content)

Sliced(range, content) == SubSeq(content, range.from + 1, range.to)

(* A slice beyond the input panics.                                        *)
Panics(format, input) == IsSlice(format) /\ ~InFile(format, input)

Text(format, input) == IF IsSlice(format) THEN Sliced(format, input) ELSE input

(* data_plain_text and data_raw: the digest, for RSA and ECDSA.            *)
Digest(format, input) ==
    IF IsSlice(format) \/ format.word = "plain-text" THEN Hash(Text(format, input))
    ELSE IF format.word = "sha256-hash-reversed" THEN Reverse(input) ELSE input

(* Slip: the hash of an input that is none is not refused.                 *)
HasHashSizeAlways(digest) == TRUE

HasHashSize(digest) == Len(digest) = HashLen

(* pkcs15sign: the rest of the padding is left to the HSM.                 *)
Padded(digest) == <<Prefix>> \o digest

(* mldsa_prepare and spx_prepare.                                          *)
InDomain(domain, format, input) ==
    IF IsSlice(format) \/ format.word = "plain-text"
    THEN IF domain = "Pure" THEN Text(format, input) ELSE Hash(Text(format, input))
    ELSE Digest(format, input)

Prepared(c, input) ==
    CASE c.alg = "RSA" -> IF c.format.word = "raw" THEN input
                          ELSE Padded(Digest(c.format, input))
      [] c.alg = "EC"  -> Digest(c.format, input)
      [] OTHER         -> InDomain(c.domain, c.format, input)

(* Slip: one mechanism for both domains.                                   *)
MechanismOfAlg(c) == c.alg

(* SignData::mechanism and slh_dsa_mechanism: SLH-DSA has one for each     *)
(* domain; for ML-DSA the domain only decides what is signed.              *)
Mechanism(c) == IF c.alg = "SLH-DSA" THEN c.domain ELSE c.alg

(* Which failure the preparation ends in, if any.                          *)
Refused(c, input) ==
    IF Panics(c.format, input) THEN "Panic"
    ELSE IF c.alg # "RSA" THEN NONE
    ELSE IF c.format.word = "raw" THEN "Unsupported"
    ELSE IF HasHashSize(Digest(c.format, input)) THEN NONE ELSE "HashSizeError"

(* What the HSM makes with a key.                                          *)
Signature(c, prepared) ==
    [i \in 1..SigLen |->
        [key |-> c.key, mechanism |-> Mechanism(c), data |-> prepared, part |-> i]]

(* Little-endian order: the whole of an RSA signature, and each half of an *)
(* ECDSA signature, is reversed.                                           *)
Reversed(c, sig) ==
    LET half == Len(sig) \div 2
    IN  CASE ~c.little                -> sig
          [] c.little /\ c.alg = "EC" -> Reverse(SubSeq(sig, 1, half))
                                         \o Reverse(SubSeq(sig, half + 1, Len(sig)))
          [] OTHER                    -> Reverse(sig)

(* Slip: the signature is put one cell too far.                            *)
PatchedBehind(content, range, sig) ==
    [i \in 1..Len(content) |->
        IF i - 1 \in range.from + 1 .. range.to - 1 THEN sig[i - range.from] ELSE content[i]]

(* Slip: what follows the range is lost.                                   *)
PatchedCut(content, range, sig) == SubSeq(content, 1, range.from) \o sig

Patched(content, range, sig) ==
    [i \in 1..Len(content) |->
        IF i \in range.from + 1 .. range.to THEN sig[i - range.from] ELSE content[i]]
-----------------------------------------------------------------------------
Goto(p, place) == pc' = [pc EXCEPT ![p] = place]

Answer(p, outcome) ==
    /\ reply' = [reply EXCEPT ![p] = outcome]
    /\ Goto(p, "done")

(* What a step leaves alone that writes no file.                           *)
Works == UNCHANGED <<files, holder, runs, cmd, before, made, claims>>

(* An invocation starts, with the lock file if all lock it.                *)
Start(p) ==
    /\ pc[p] = "idle" /\ runs < MaxRuns
    /\ Locking => holder = NONE
    /\ holder' = IF Locking THEN p ELSE NONE
    /\ runs' = runs + 1
    /\ \E c \in Requests : cmd' = [cmd EXCEPT ![p] = c]
    /\ before' = [before EXCEPT ![p] = files[Image]]
    /\ Goto(p, "parse")
    /\ UNCHANGED <<files, data, result, copy, reply, made, claims>>

(* SignData::from_str and parse_range.                                     *)
Parse(p) ==
    LET f == cmd[p].format
    IN  /\ pc[p] = "parse"
        /\ \/ f.word = "short" /\ Answer(p, "Panic")
           \/ f.word = "unknown" /\ Answer(p, "Unsupported")
           \/ IsSlice(f) /\ f.from >= f.to /\ Answer(p, "Unsupported")
           \/ /\ f.word \notin BadWords /\ (IsSlice(f) => f.from < f.to)
              /\ Goto(p, "find") /\ UNCHANGED reply
        /\ Works /\ UNCHANGED <<data, result, copy>>

(* It ends; or it is killed, and a file it is writing stays as it is.      *)
Finish(p) ==
    /\ pc[p] # "idle"
    /\ holder' = IF holder = p THEN NONE ELSE holder
    /\ claims' = IF pc[p] = "written" THEN {} ELSE claims
    /\ Goto(p, "idle")
    /\ cmd' = [cmd EXCEPT ![p] = NONE]
    /\ data' = [data EXCEPT ![p] = <<>>]
    /\ result' = [result EXCEPT ![p] = <<>>]
    /\ copy' = [copy EXCEPT ![p] = <<>>]
    /\ reply' = [reply EXCEPT ![p] = NONE]
    /\ before' = [before EXCEPT ![p] = <<>>]
    /\ UNCHANGED <<files, runs, made>>

(* The key is not found, a file cannot be opened, a call fails.            *)
Fails(p) ==
    /\ pc[p] \in {"find", "read", "sign", "output", "again", "signature"}
    /\ Answer(p, "Error")
    /\ Works /\ UNCHANGED <<data, result, copy>>

FindKey(p) ==
    /\ pc[p] = "find" /\ Goto(p, "read")
    /\ Works /\ UNCHANGED <<data, result, copy, reply>>

ReadInput(p) ==
    LET c == cmd[p]
        input == files[c.input]
    IN  /\ pc[p] = "read"
        /\ IF Refused(c, input) # NONE
           THEN Answer(p, Refused(c, input)) /\ UNCHANGED data
           ELSE /\ data' = [data EXCEPT ![p] = Prepared(c, input)]
                /\ Goto(p, IF c.op = "sign" THEN "sign" ELSE "signature")
                /\ UNCHANGED reply
        /\ Works /\ UNCHANGED <<result, copy>>
-----------------------------------------------------------------------------
(* sign.                                                                   *)
SignData(p) ==
    LET c == cmd[p]
        sig == Signature(c, data[p])
    IN  /\ pc[p] = "sign"
        /\ result' = [result EXCEPT ![p] = Reversed(c, sig)]
        /\ made' = made \cup {[sig |-> sig, domain |-> c.domain]}
        /\ Goto(p, IF c.output # NONE THEN "output"
                   ELSE IF c.range # NONE THEN "again" ELSE "done")
        /\ reply' = [reply EXCEPT ![p] =
                        IF c.output = NONE /\ c.range = NONE THEN "ok" ELSE @]
        /\ UNCHANGED <<files, holder, runs, cmd, data, copy, before, claims>>

WriteOutput(p) ==
    LET c == cmd[p]
    IN  /\ pc[p] = "output"
        /\ files' = [files EXCEPT ![c.output] = result[p]]
        /\ IF c.range # NONE THEN Goto(p, "again") /\ UNCHANGED reply
           ELSE Answer(p, "ok")
        /\ UNCHANGED <<holder, runs, cmd, data, result, copy, before, made, claims>>

(* Slip: the file is opened for writing, and so emptied, before the checks. *)
ReadAgainEmptying(p) ==
    LET c == cmd[p]
        input == files[c.input]
        fits == InFile(c.range, input) /\ c.range.to - c.range.from = Len(result[p])
    IN  /\ pc[p] = "again"
        /\ files' = [files EXCEPT ![c.input] = <<>>]
        /\ IF fits THEN copy' = [copy EXCEPT ![p] = Patched(input, c.range, result[p])]
                        /\ Goto(p, "update") /\ UNCHANGED reply
           ELSE Answer(p, "Error") /\ UNCHANGED copy
        /\ UNCHANGED <<holder, runs, cmd, data, result, before, made, claims>>

(* --update-in-place: the input is read again.  The range must lie in the  *)
(* file, and copy_from_slice panics unless it is as long as the signature. *)
ReadAgain(p) ==
    LET c == cmd[p]
        input == files[c.input]
    IN  /\ pc[p] = "again"
        /\ \/ ~InFile(c.range, input) /\ Answer(p, "Error") /\ UNCHANGED copy
           \/ /\ InFile(c.range, input) /\ c.range.to - c.range.from # Len(result[p])
              /\ Answer(p, "Panic") /\ UNCHANGED copy
           \/ /\ InFile(c.range, input) /\ c.range.to - c.range.from = Len(result[p])
              /\ copy' = [copy EXCEPT ![p] = Patched(input, c.range, result[p])]
              /\ Goto(p, "update") /\ UNCHANGED reply
        /\ Works /\ UNCHANGED <<data, result>>

(* fs::write empties the file and fills it again.                          *)
Truncate(p) ==
    /\ pc[p] = "update"
    /\ files' = [files EXCEPT ![cmd[p].input] = <<>>]
    /\ Goto(p, "written")
    /\ UNCHANGED <<holder, runs, client, made, claims>>

(* The disk is full: what was in the file is lost.                         *)
WriteFails(p) ==
    /\ pc[p] = "written"
    /\ claims' = {}
    /\ Answer(p, "WriteError")
    /\ UNCHANGED <<files, holder, runs, cmd, data, result, copy, before, made>>

Overlap(r, s) == r.from < s.to /\ s.from < r.to

(* What the data of a command covers: a slice, or the whole file.          *)
Covers(c, range) == ~IsSlice(c.format) \/ Overlap(c.format, range)

Fill(p) ==
    LET c == cmd[p]
    IN  /\ pc[p] = "written"
        /\ files' = [files EXCEPT ![c.input] = copy[p]]
        /\ claims' = {d \in claims : ~Overlap(d.range, c.range) /\ ~Covers(d, c.range)}
                     \cup IF Covers(c, c.range) THEN {} ELSE {c}
        /\ Answer(p, "ok")
        /\ UNCHANGED <<holder, runs, cmd, data, result, copy, before, made>>
-----------------------------------------------------------------------------
(* verify: the signature is a file, or a range of the input.               *)
ReadSignature(p) ==
    LET c == cmd[p]
    IN  /\ pc[p] = "signature"
        /\ IF c.range # NONE /\ ~InFile(c.range, files[c.input])
           THEN Answer(p, "Error") /\ UNCHANGED result
           ELSE /\ result' = [result EXCEPT ![p] =
                      Reversed(c, IF c.range # NONE THEN Sliced(c.range, files[c.input])
                                  ELSE files[c.output])]
                /\ Goto(p, "verify") /\ UNCHANGED reply
        /\ Works /\ UNCHANGED <<data, copy>>

(* A signature that does not verify is an error of the HSM's.              *)
VerifyData(p) ==
    /\ pc[p] = "verify"
    /\ Answer(p, IF result[p] = Signature(cmd[p], data[p]) THEN "ok" ELSE "NotVerified")
    /\ Works /\ UNCHANGED <<data, result, copy>>

Next ==
    \E p \in Procs :
        \/ Start(p) \/ Parse(p) \/ Finish(p) \/ Fails(p)
        \/ FindKey(p) \/ ReadInput(p)
        \/ SignData(p) \/ WriteOutput(p) \/ ReadAgain(p) \/ Truncate(p)
        \/ Fill(p) \/ WriteFails(p)
        \/ ReadSignature(p) \/ VerifyData(p)

Spec == Init /\ [][Next]_vars
-----------------------------------------------------------------------------
(* Properties of instances where every process locks.                      *)

(* The verify command with the options of a sign command.                  *)
WouldVerify(c, content) ==
    /\ Refused(c, content) = NONE /\ InFile(c.range, content)
    /\ Reversed(c, Sliced(c.range, content)) = Signature(c, Prepared(c, content))

(* An image that was signed in place verifies with the same options, and   *)
(* goes on to: later signatures in other ranges, by whatever process, take *)
(* nothing away from it.                                                   *)
SignedImageVerifies ==
    (\A p \in Procs : pc[p] # "written") =>
        \A c \in claims : WouldVerify(c, files[Image])

(* A sign that fails or panics leaves the image as it was, even when its   *)
(* signature went to the output file already, unless it fails while it     *)
(* writes the image itself.                                                *)
FailureLeavesImage ==
    \A p \in Procs :
        pc[p] = "done" /\ reply[p] \notin {"ok", "WriteError"} =>
            files[Image] = before[p]

(* Every signature made with an RSA key is over the DigestInfo of a hash,  *)
(* whatever file was given for it.                                         *)
RsaSignsHashes ==
    \A m \in made : m.sig[1].mechanism = "RSA" =>
        m.sig[1].data[1] = Prefix /\ Len(m.sig[1].data) = 1 + HashLen

(* An SLH-DSA signature verifies only in the domain it was made in, though *)
(* the data to sign may be the same in both.                               *)
DomainsApart ==
    \A p \in Procs :
        pc[p] = "done" /\ cmd[p].op = "verify" /\ reply[p] = "ok"
                /\ cmd[p].alg = "SLH-DSA" =>
            \A m \in made : m.sig = result[p] => m.domain = cmd[p].domain
=============================================================================
