------------------------------- MODULE SpxKms -------------------------------
(***************************************************************************)
(* SPHINCS+ keys in Cloud KMS.  A key of the key ring has versions; the    *)
(* spx commands ask for the list of them, choose one, and name it in the   *)
(* next request.  Between two requests of a command anybody may rotate a   *)
(* key or enable and disable its versions, and any answer may be lost.  A  *)
(* step is one request with its answer, or a change on the server.         *)
(***************************************************************************)
EXTENDS Naturals, Sequences, FiniteSets, FiniteSetsExt

CONSTANTS
    Procs,     \* processes that run hsmtool --spx-module=cloud-kms:...
    Aliases,   \* names of keys in the key ring
    Messages,  \* what is signed
    Requests,  \* the commands the processes run
    NONE,      \* nothing
    PageSize,  \* how many versions one answer of the server lists
    MaxRuns,     \* bound on the number of invocations
    MaxChanges,  \* bound on the changes other users make on the server
    MaxVersions  \* bound on the versions of a key

(* Two algorithms are SPHINCS+ modes; a key ring holds other keys too.     *)
Domains       == {"Pure", "PreHashedSha256"}
Supported     == {"PURE_ALGORITHM", "PREHASH_ALGORITHM"}
Algorithms    == Supported \cup {"OTHER"}
VersionStates == {"PENDING_GENERATION", "ENABLED", "DISABLED"}

(* A version of a key, a key, and what asymmetricSign returns.             *)
Version   == [algorithm : Algorithms, state : VersionStates]
Signature == [alias : Aliases, version : 1..MaxVersions,
              domain : Domains, message : Messages]

Command ==
    [op : {"generate"}, alias : Aliases, domain : Domains \cup {NONE},
     export : BOOLEAN]
    \cup
    [op : {"sign", "verify"}, alias : Aliases \cup {NONE}, domain : Domains,
     message : Messages]
    \cup
    [op : {"export"}, alias : Aliases]
    \cup
    [op : {"list", "import"}]

ASSUME SpxKmsAssumption ==
    /\ PageSize \in Nat \ {0} /\ MaxVersions \in Nat \ {0}
    /\ MaxRuns \in Nat /\ MaxChanges \in Nat
    /\ NONE \notin Aliases \cup Domains \cup Algorithms
    /\ Requests \subseteq Command

VARIABLES
    template,  \* server: the algorithm of a key's next version, or NONE
    versions,  \* server: the versions of each key, in the order made
    signed,    \* history: every signature made
    runs,      \* invocations started so far
    changes,   \* changes made by others so far
    pc,        \* where each process is
    cmd,       \* the command it runs
    sig,       \* the signature a verify reads from its file
    key,       \* the version get_key_version chose: alias and number
    todo,      \* aliases a list has still to look at
    listed,    \* aliases list_keys has been through
    seen,      \* the versions whose key the command used or shows
    reply,     \* the outcome of the command
    steady,    \* history: versions usable ever since the command began
    known      \* history: keys whose template was supported since then

server == <<template, versions, signed>>
client == <<cmd, sig, key, todo, listed, seen, reply>>
vars   == <<server, client, runs, changes, pc, steady, known>>

Chosen == [alias : Aliases, version : 1..MaxVersions]

Outcomes == {"ok", "false", "ObjectNotFound", "NoSearchCriteria",
             "Unsupported", "Error"}

PCs == {"idle", "start", "keys", "versions", "publicKey", "next",
        "asymmetricSign", "createKey", "done"}

TypeOK ==
    /\ template \in [Aliases -> Algorithms \cup {NONE}]
    /\ \A a \in Aliases :
          /\ Len(versions[a]) <= MaxVersions
          /\ \A i \in DOMAIN versions[a] : versions[a][i] \in Version
          /\ template[a] = NONE => versions[a] = <<>>
    /\ signed \subseteq Signature
    /\ runs \in 0..MaxRuns /\ changes \in 0..MaxChanges
    /\ pc \in [Procs -> PCs]
    /\ cmd \in [Procs -> Requests \cup {NONE}]
    /\ sig \in [Procs -> Signature \cup {NONE}]
    /\ key \in [Procs -> Chosen \cup {NONE}]
    /\ todo \in [Procs -> SUBSET Aliases]
    /\ listed \in [Procs -> SUBSET Aliases]
    /\ seen \in [Procs -> SUBSET Chosen]
    /\ reply \in [Procs -> Outcomes \cup {NONE}]
    /\ steady \in [Procs -> SUBSET Chosen]
    /\ known \in [Procs -> SUBSET Aliases]

Init ==
    /\ template = [a \in Aliases |-> NONE]
    /\ versions = [a \in Aliases |-> <<>>]
    /\ signed = {} /\ runs = 0 /\ changes = 0
    /\ pc = [p \in Procs |-> "idle"]
    /\ cmd = [p \in Procs |-> NONE]
    /\ sig = [p \in Procs |-> NONE]
    /\ key = [p \in Procs |-> NONE]
    /\ todo = [p \in Procs |-> {}]
    /\ listed = [p \in Procs |-> {}]
    /\ seen = [p \in Procs |-> {}]
    /\ reply = [p \in Procs |-> NONE]
    /\ steady = [p \in Procs |-> {}]
    /\ known = [p \in Procs |-> {}]
-----------------------------------------------------------------------------
(* Slip: the mode's own name is sent as the algorithm.                     *)
AlgorithmOfName(domain) == domain

AlgorithmOf(domain) ==
    IF domain = "Pure" THEN "PURE_ALGORITHM" ELSE "PREHASH_ALGORITHM"

(* kms_to_domain, of a supported algorithm.                                *)
DomainOf(algorithm) ==
    CHOOSE d \in Domains : AlgorithmOf(d) = algorithm

(* kms_to_algorithm succeeds on a version that is enabled.                 *)
Usable(v) == v.state = "ENABLED" /\ v.algorithm \in Supported

(* The usable versions on the first page of the list, the only one that is *)
(* asked for.                                                              *)
Candidates(alias) ==
    {i \in DOMAIN versions[alias] : i <= PageSize /\ Usable(versions[alias][i])}

(* Slip: the first of the list is taken.                                   *)
OldestOf(set) == Min(set)

(* filter(...).next_back()                                                 *)
NewestOf(set) == Max(set)

Goto(p, place) == pc' = [pc EXCEPT ![p] = place]

Answer(p, outcome) ==
    /\ reply' = [reply EXCEPT ![p] = outcome]
    /\ Goto(p, "done")

(* The history variables, kept along with every change on the server.      *)
UsableNow == {c \in Chosen : /\ c.version \in DOMAIN versions[c.alias]
                             /\ Usable(versions[c.alias][c.version])}
KnownNow  == {a \in Aliases : template[a] \in Supported}

Remember ==
    /\ steady' = [p \in Procs |-> steady[p] \cap UsableNow']
    /\ known' = [p \in Procs |-> known[p] \cap KnownNow']
-----------------------------------------------------------------------------
(* The server.  createCryptoKey makes a key with a first version.          *)
Created(alias, algorithm) ==
    /\ template[alias] = NONE
    /\ template' = [template EXCEPT ![alias] = algorithm]
    /\ versions' = [versions EXCEPT ![alias] =
                      <<[algorithm |-> algorithm, state |-> "PENDING_GENERATION"]>>]
    /\ UNCHANGED signed

(* Other users, from the console or elsewhere.                             *)
Change ==
    /\ changes < MaxChanges /\ changes' = changes + 1
    /\ UNCHANGED <<client, pc, runs>> /\ Remember

CreateOther(a) == Created(a, "OTHER") /\ Change

SetTemplate(a, algorithm) ==
    /\ template[a] \notin {NONE, algorithm}
    /\ template' = [template EXCEPT ![a] = algorithm]
    /\ UNCHANGED <<versions, signed>> /\ Change

Rotate(a) ==
    /\ template[a] # NONE /\ Len(versions[a]) < MaxVersions
    /\ versions' = [versions EXCEPT ![a] =
          Append(@, [algorithm |-> template[a], state |-> "PENDING_GENERATION"])]
    /\ UNCHANGED <<template, signed>> /\ Change

SetState(a, i, state) ==
    /\ versions[a][i].state = "ENABLED" <=> state = "DISABLED"
    /\ versions' = [versions EXCEPT ![a][i].state = state]
    /\ UNCHANGED <<template, signed>> /\ Change

(* A new version becomes enabled when its key has been generated.          *)
Generated(a, i) ==
    /\ versions[a][i].state = "PENDING_GENERATION"
    /\ versions' = [versions EXCEPT ![a][i].state = "ENABLED"]
    /\ UNCHANGED <<template, signed, client, pc, runs, changes>> /\ Remember

Server ==
    \E a \in Aliases :
        \/ CreateOther(a)
        \/ \E algorithm \in Supported : SetTemplate(a, algorithm)
        \/ Rotate(a)
        \/ \E i \in DOMAIN versions[a] :
              \/ \E state \in {"ENABLED", "DISABLED"} :
                    versions[a][i].state # "PENDING_GENERATION" /\ SetState(a, i, state)
              \/ Generated(a, i)
-----------------------------------------------------------------------------
(* What a step of a command leaves alone when it only reads.               *)
Reads == UNCHANGED <<server, runs, changes, cmd, sig, steady, known>>

(* An invocation: the command line is read, and the key ring's URL and the *)
(* access token are got.  A verify reads a signature from a file: one that *)
(* was made, or something else.                                            *)
Start(p) ==
    /\ pc[p] = "idle" /\ runs < MaxRuns
    /\ runs' = runs + 1
    /\ \E c \in Requests :
          /\ cmd' = [cmd EXCEPT ![p] = c]
          /\ \E s \in IF c.op = "verify" THEN signed \cup {NONE} ELSE {NONE} :
                sig' = [sig EXCEPT ![p] = s]
    /\ steady' = [steady EXCEPT ![p] = UsableNow]
    /\ known' = [known EXCEPT ![p] = KnownNow]
    /\ Goto(p, "start")
    /\ UNCHANGED <<server, changes, key, todo, listed, seen, reply>>

(* SpxKms::new needs gcloud, and a project, a location and a keyring.      *)
CannotConnect(p) ==
    /\ pc[p] = "start"
    /\ Answer(p, "Unsupported") \/ Answer(p, "Error")
    /\ Reads /\ UNCHANGED <<key, todo, listed, seen>>

(* It ends, or is killed.                                                  *)
Finish(p) ==
    /\ pc[p] # "idle"
    /\ Goto(p, "idle")
    /\ cmd' = [cmd EXCEPT ![p] = NONE]
    /\ sig' = [sig EXCEPT ![p] = NONE]
    /\ key' = [key EXCEPT ![p] = NONE]
    /\ todo' = [todo EXCEPT ![p] = {}]
    /\ listed' = [listed EXCEPT ![p] = {}]
    /\ seen' = [seen EXCEPT ![p] = {}]
    /\ reply' = [reply EXCEPT ![p] = NONE]
    /\ steady' = [steady EXCEPT ![p] = {}]
    /\ known' = [known EXCEPT ![p] = {}]
    /\ UNCHANGED <<server, runs, changes>>

(* What a command checks before its first request.  The hash of --id is    *)
(* ignored, and a key cannot be imported.                                  *)
Begin(p) ==
    LET c == cmd[p]
    IN  /\ pc[p] = "start"
        /\ \/ c.op = "import" /\ Answer(p, "Unsupported")
           \/ c.op = "list" /\ Goto(p, "keys") /\ UNCHANGED reply
           \/ /\ c.op = "generate"
              /\ IF c.export \/ c.domain = NONE
                 THEN Answer(p, "Unsupported")
                 ELSE Goto(p, "createKey") /\ UNCHANGED reply
           \/ /\ c.op \in {"sign", "verify", "export"}
              /\ IF c.alias = NONE
                 THEN Answer(p, "NoSearchCriteria")
                 ELSE Goto(p, "versions") /\ UNCHANGED reply
        /\ key' = [key EXCEPT ![p] =
              IF pc'[p] = "versions" THEN [alias |-> c.alias, version |-> 1] ELSE NONE]
        /\ Reads /\ UNCHANGED <<todo, listed, seen>>

(* The request that fails: nothing was done, or the answer was lost.       *)
Fails(p) ==
    /\ pc[p] \in {"keys", "versions", "publicKey", "asymmetricSign", "createKey"}
    /\ Answer(p, "Error")
    /\ Reads /\ UNCHANGED <<key, todo, listed, seen>>
-----------------------------------------------------------------------------
(* get_key_version.                                                        *)

(* Slip: the mode asked for is compared with that of the key's template.   *)
DomainOfTemplate(chosen) == DomainOf(template[chosen.alias])

(* The mode of the version chosen.                                         *)
DomainOfKey(chosen) ==
    DomainOf(versions[chosen.alias][chosen.version].algorithm)

(* Slip: a key without a version is left out of the list.                  *)
NoVersionSkipped(p) ==
    IF cmd[p].op = "list" THEN Goto(p, "next") /\ UNCHANGED reply
    ELSE Answer(p, "ObjectNotFound")

NoVersion(p) == Answer(p, "ObjectNotFound")

GetKeyVersion(p) ==
    LET a == key[p].alias
    IN  /\ pc[p] = "versions" /\ template[a] # NONE
        /\ \/ Candidates(a) = {} /\ NoVersion(p) /\ UNCHANGED <<key, listed>>
           \/ /\ Candidates(a) # {}
              /\ LET chosen == [alias |-> a, version |-> NewestOf(Candidates(a))]
                 IN  /\ key' = [key EXCEPT ![p] = chosen]
                     /\ \/ /\ cmd[p].op \in {"verify", "export"}
                           /\ Goto(p, "publicKey") /\ UNCHANGED <<reply, listed>>
                        \/ /\ cmd[p].op = "list" /\ a \notin listed[p]
                           /\ listed' = [listed EXCEPT ![p] = @ \cup {a}]
                           /\ Goto(p, "next") /\ UNCHANGED reply
                        \/ /\ cmd[p].op = "list" /\ a \in listed[p]
                           /\ Goto(p, "publicKey") /\ UNCHANGED <<reply, listed>>
                        \/ /\ cmd[p].op = "sign" /\ UNCHANGED listed
                           /\ IF cmd[p].domain = DomainOfKey(chosen)
                              THEN Goto(p, "asymmetricSign") /\ UNCHANGED reply
                              ELSE Answer(p, "Unsupported")
        /\ Reads /\ UNCHANGED <<todo, seen>>

(* get_public_key, and what get_key_info makes of the answer: an answer    *)
(* may hold no key material.  Verification is done here, with the mode     *)
(* asked for; a bad signature is a result and not an error.                *)

(* Slip: what the verification says is not looked at.                      *)
VerifiesAnyway(chosen, c, s) == TRUE

Verifies(chosen, c, s) ==
    /\ s # NONE
    /\ s = [alias |-> chosen.alias, version |-> chosen.version,
            domain |-> c.domain, message |-> c.message]

GetPublicKey(p) ==
    /\ pc[p] = "publicKey"
    /\ \/ Answer(p, "Unsupported") /\ UNCHANGED seen
       \/ /\ cmd[p].op = "verify" /\ cmd[p].domain # DomainOfKey(key[p])
          /\ Answer(p, "Unsupported") /\ UNCHANGED seen
       \/ /\ cmd[p].op = "verify" /\ cmd[p].domain = DomainOfKey(key[p])
          /\ seen' = [seen EXCEPT ![p] = {key[p]}]
          /\ Answer(p, IF Verifies(key[p], cmd[p], sig[p]) THEN "ok" ELSE "false")
       \/ /\ cmd[p].op = "export"
          /\ seen' = [seen EXCEPT ![p] = {key[p]}]
          /\ Answer(p, "ok")
       \/ /\ cmd[p].op = "list"
          /\ seen' = [seen EXCEPT ![p] = @ \cup {key[p]}]
          /\ Goto(p, "next") /\ UNCHANGED reply
    /\ Reads /\ UNCHANGED <<key, todo, listed>>

(* sign: the server signs with the version named, if it is enabled by now. *)
AsymmetricSign(p) ==
    /\ pc[p] = "asymmetricSign"
    /\ Usable(versions[key[p].alias][key[p].version])
    /\ signed' = signed \cup
          {[alias |-> key[p].alias, version |-> key[p].version,
            domain |-> DomainOf(versions[key[p].alias][key[p].version].algorithm),
            message |-> cmd[p].message]}
    /\ \/ Answer(p, "ok") /\ seen' = [seen EXCEPT ![p] = {key[p]}]
       \/ Answer(p, "Error") /\ UNCHANGED seen
    /\ UNCHANGED <<template, versions, runs, changes, cmd, sig, key, todo,
                   listed, steady, known>>

(* generate_key: the key is made, and the answer may be lost.              *)
CreateKey(p) ==
    /\ pc[p] = "createKey"
    /\ Created(cmd[p].alias, AlgorithmOf(cmd[p].domain))
    /\ Answer(p, "ok") \/ Answer(p, "Error")
    /\ Remember
    /\ UNCHANGED <<runs, changes, cmd, sig, key, todo, listed, seen>>

(* list_keys, the keys of the ring, then the version of each supported     *)
(* one; spx-list then asks get_key_info for each of them.  Only the first  *)
(* page of keys is asked for, too: the key ring here is within it.         *)
ListKeys(p) ==
    /\ pc[p] = "keys"
    /\ todo' = [todo EXCEPT ![p] = KnownNow]
    /\ Goto(p, "next")
    /\ Reads /\ UNCHANGED <<key, listed, seen, reply>>

ListNext(p) ==
    /\ pc[p] = "next"
    /\ \/ \E a \in todo[p] :
             /\ todo' = [todo EXCEPT ![p] = @ \ {a}]
             /\ key' = [key EXCEPT ![p] = [alias |-> a, version |-> 1]]
             /\ Goto(p, "versions") /\ UNCHANGED reply
       \/ /\ todo[p] = {}
          /\ \E a \in listed[p] \ {c.alias : c \in seen[p]} :
                /\ key' = [key EXCEPT ![p] = [alias |-> a, version |-> 1]]
                /\ Goto(p, "versions") /\ UNCHANGED <<reply, todo>>
       \/ /\ todo[p] = {} /\ listed[p] = {c.alias : c \in seen[p]}
          /\ Answer(p, "ok") /\ UNCHANGED <<key, todo>>
    /\ Reads /\ UNCHANGED <<listed, seen>>

Next ==
    \/ Server
    \/ \E p \in Procs :
          \/ Start(p) \/ CannotConnect(p) \/ Begin(p) \/ Fails(p) \/ Finish(p)
          \/ GetKeyVersion(p) \/ GetPublicKey(p) \/ AsymmetricSign(p)
          \/ CreateKey(p) \/ ListKeys(p) \/ ListNext(p)

Spec == Init /\ [][Next]_vars
-----------------------------------------------------------------------------
Uses(p) == pc[p] = "done" /\ reply[p] \in {"ok", "false"} /\ seen[p] # {}

(* Of the versions that were usable all through a command, none is newer   *)
(* than the one whose key it signs with, verifies with, exports or lists:  *)
(* a key that was rotated before the command began is not used by it.      *)
(* True of keys whose versions the server lists on one page.               *)
UsesNewest ==
    \A p \in Procs : Uses(p) =>
        \A c \in seen[p], d \in steady[p] :
            c.alias = d.alias /\ Len(versions[c.alias]) <= PageSize =>
                d.version <= c.version

(* A signature handed out is by a version of the key and in the mode asked *)
(* for, whatever the key's template has become since the key was chosen.   *)
SignsAsAsked ==
    \A p \in Procs : Uses(p) /\ cmd[p].op = "sign" =>
        \E s \in signed :
            /\ seen[p] = {[alias |-> s.alias, version |-> s.version]}
            /\ s.alias = cmd[p].alias /\ s.domain = cmd[p].domain
            /\ s.message = cmd[p].message

(* A signature is found good only if it was made with the key named, in    *)
(* the mode given and on that message; and it is found bad only if it was  *)
(* not, or if the key had a newer version or lost the one it was made      *)
(* with.                                                                   *)
VerdictIsRight ==
    \A p \in Procs : Uses(p) /\ cmd[p].op = "verify" =>
        LET genuine == /\ sig[p] # NONE /\ sig[p].alias = cmd[p].alias
                       /\ sig[p].domain = cmd[p].domain
                       /\ sig[p].message = cmd[p].message
        IN  IF reply[p] = "ok" THEN genuine /\ sig[p] \in signed
            ELSE genuine =>
                \/ \E c \in seen[p] : c.version > sig[p].version
                \/ sig[p].version > PageSize
                \/ [alias |-> sig[p].alias, version |-> sig[p].version]
                      \notin steady[p]

(* A list that succeeds leaves out no key whose template was supported     *)
(* since the command began, not even one that has no enabled version.      *)
(* True of key rings whose keys the server lists on one page.              *)
ListIsComplete ==
    \A p \in Procs :
        pc[p] = "done" /\ cmd[p].op = "list" /\ reply[p] = "ok" =>
            known[p] \subseteq {c.alias : c \in seen[p]}
=============================================================================
