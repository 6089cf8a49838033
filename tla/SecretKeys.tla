----------------------------- MODULE SecretKeys -----------------------------
(***************************************************************************)
(* How the value of a secret or private key can leave the token: exported  *)
(* in the clear, wrapped under another key, or shown with the attributes   *)
(* of an object.  AttributeMap::from_object puts an object together in     *)
(* three calls of the HSM, and the checks of export and wrap look at that  *)
(* picture; a wrapping key is found by one call and used by the next.      *)
(* Other programs may change either key in between, and HSMs differ in     *)
(* what they protect by themselves.  A step is one call of the HSM, with   *)
(* what the program does before the next.                                  *)
(***************************************************************************)
EXTENDS Naturals, FiniteSets

CONSTANTS
    Procs,      \* processes that run hsmtool
    Labels,     \* labels of objects
    KeyFiles,   \* keys in unwrapped files from elsewhere
    Requests,   \* the commands the processes run
    OldObjects, \* sequence of the attribute maps of the first objects
    NONE,       \* nothing
    Redacted,   \* the mark RedactedByHsm, in place of a value
    MaxRuns,    \* bound on the number of invocations
    MaxChanges  \* bound on the changes other programs make

(* The attributes that export, wrap and search look at.  An attribute map  *)
(* is a function on some of them.  VALUE is a secret key's CKA_VALUE or an *)
(* RSA key's private exponent; what an object does not have is NONE.       *)
Attributes == {"CLASS", "KEY_TYPE", "LABEL", "SENSITIVE", "EXTRACTABLE",
               "WRAP", "UNWRAP", "MODULUS", "VALUE"}
SecretTypes == {"AES", "GENERIC_SECRET"}
AesWraps    == {"AesKeyWrap", "AesKeyWrapPad"}
RsaWraps    == {"RsaPkcs", "RsaPkcsOaep"}

(* A generated value is a number, one never generated before.              *)
Values == KeyFiles \cup Nat

Ops == {"generate", "import", "unwrap", "export", "wrap", "show", "read"}

(* Commands that make a key.                                               *)
Making == {"generate", "import", "unwrap"}

ASSUME SecretKeysAssumption ==
    /\ MaxRuns \in Nat /\ MaxChanges \in Nat
    /\ NONE \notin Labels \cup KeyFiles /\ Redacted \notin KeyFiles
    /\ IsFiniteSet(DOMAIN OldObjects)
    /\ DOMAIN OldObjects = 1..Cardinality(DOMAIN OldObjects)
    /\ \A h \in DOMAIN OldObjects : DOMAIN OldObjects[h] = Attributes
    /\ \A c \in Requests :
          /\ c.op \in Ops
          /\ c.op \in Making /\ "SENSITIVE" \in DOMAIN c.template =>
                c.template["SENSITIVE"] \in BOOLEAN
          /\ c.op \in {"wrap", "unwrap"} => c.mechanism \in AesWraps \cup RsaWraps

(* A user's template has attributes of the ones modelled, and its value is *)
(* bytes from elsewhere; an HSM makes no secret key under another class.   *)
ASSUME TemplatesAssumption ==
    \A c \in {r \in Requests : r.op \in Making} :
        /\ DOMAIN c.template \subseteq Attributes
        /\ "CLASS" \in DOMAIN c.template => c.template["CLASS"] = "SECRET_KEY"
        /\ "VALUE" \in DOMAIN c.template => c.template["VALUE"] \in KeyFiles
        /\ c.op = "import" => c.file \in KeyFiles

(* A key on the token has a value, unless it is a public one, and an RSA   *)
(* key has a modulus.                                                      *)
HasItsParts(o, values) ==
    /\ o["VALUE"] \in values \cup {NONE}
    /\ o["CLASS"] \in {"SECRET_KEY", "PRIVATE_KEY"} => o["VALUE"] \in values
    /\ o["CLASS"] # "SECRET_KEY" /\ o["KEY_TYPE"] = "RSA" => o["MODULUS"] \in values

ASSUME OldObjectsAssumption ==
    \A h \in DOMAIN OldObjects : HasItsParts(OldObjects[h], KeyFiles)

VARIABLES
    hsm,      \* what this HSM does by itself
    objects,  \* the attribute maps of the objects on the token, by handle
    secrets,  \* values generated so far
    plain,    \* key values that are in files or on the screen
    blobs,    \* wrapped keys in files
    runs,     \* invocations started so far
    changes,  \* changes made by others so far
    pc,       \* where each process is
    cmd,      \* the command it runs
    handle,   \* the object it is looking at
    wrapper,  \* the key it has found to wrap or unwrap with
    marked,   \* whether the HSM marked its value as sensitive
    map,      \* what from_object has put together so far
    second,   \* whether Wrap::check_key is looking at it again
    out,      \* the value that the command let out, and how
    reply,    \* the outcome of the command
    was,      \* history: the objects when the command began
    named,    \* history: the keys that might wrap since then, with the
              \* labels they had while they might
    open      \* history: values that somebody asked to be readable

token  == <<objects, secrets, plain, blobs, open>>
client == <<cmd, handle, wrapper, marked, map, second, out, reply, was>>
vars   == <<hsm, token, client, named, runs, changes, pc>>

Handles == DOMAIN objects

TypeOK ==
    /\ hsm \in [marks : BOOLEAN, refuses : BOOLEAN, extractable : BOOLEAN]
    /\ Handles = 1..Cardinality(Handles)
    /\ \A h \in Handles : DOMAIN objects[h] = Attributes
    /\ \A h \in Handles : objects[h]["VALUE"] \in Values \cup {NONE}
    /\ secrets \in Nat
    /\ plain \subseteq Values
    /\ blobs \subseteq [by : Values, mechanism : AesWraps \cup RsaWraps,
                        value : Values]
    /\ runs \in 0..MaxRuns /\ changes \in 0..MaxChanges
    /\ pc \in [Procs -> {"idle", "start", "create", "info", "attributes",
                         "value", "check", "wrapper", "wrap", "done"}]
    /\ cmd \in [Procs -> Requests \cup {NONE}]
    /\ handle \in [Procs -> Handles \cup {0}]
    /\ wrapper \in [Procs -> Handles \cup {0}]
    /\ marked \in [Procs -> BOOLEAN] /\ second \in [Procs -> BOOLEAN]
    /\ \A p \in Procs : DOMAIN map[p] \subseteq Attributes
    /\ \A p \in Procs : DOMAIN was[p] \subseteq Handles
    /\ \A p \in Procs : \A n \in named[p] : n[1] \in Handles
    /\ out \in [Procs -> [value : Values, by : Handles \cup {0}] \cup {NONE}]
    /\ reply \in [Procs -> {"ok", "Exists", "NotFound", "TooMany", "KeyError",
                            "Error", NONE}]
    /\ open \subseteq Values

Empty == [a \in {} |-> NONE]

Init ==
    /\ hsm \in [marks : BOOLEAN, refuses : BOOLEAN, extractable : BOOLEAN]
    /\ objects = OldObjects
    /\ secrets = 0 /\ plain = {} /\ blobs = {} /\ runs = 0 /\ changes = 0
    /\ pc = [p \in Procs |-> "idle"]
    /\ cmd = [p \in Procs |-> NONE]
    /\ handle = [p \in Procs |-> 0] /\ wrapper = [p \in Procs |-> 0]
    /\ marked = [p \in Procs |-> FALSE]
    /\ map = [p \in Procs |-> Empty]
    /\ second = [p \in Procs |-> FALSE]
    /\ out = [p \in Procs |-> NONE]
    /\ reply = [p \in Procs |-> NONE]
    /\ was = [p \in Procs |-> Empty] /\ named = [p \in Procs |-> {}]
    /\ open = {OldObjects[h]["VALUE"] : h \in {i \in Handles : ~objects[i]["SENSITIVE"]}}
               \ {NONE}
-----------------------------------------------------------------------------
Has(m, a, v) == a \in DOMAIN m /\ m[a] = v

(* AttributeMap::merge: the other map wins.                                *)
Merged(m, other) ==
    [a \in DOMAIN m \cup DOMAIN other |->
        IF a \in DOMAIN other THEN other[a] ELSE m[a]]

Only(a, v) == [b \in {a} |-> v]

(* Slip: the template leaves the choice to the HSM.                        *)
KeyTemplateOpen(type) ==
    Merged(Only("CLASS", "SECRET_KEY"), Only("KEY_TYPE", type))

KeyTemplate(type) ==
    Merged(Merged(Only("CLASS", "SECRET_KEY"), Only("KEY_TYPE", type)),
           Only("SENSITIVE", TRUE))

(* What generate, import and unwrap_key pass to the HSM: the user's        *)
(* template may change what stands in ours, the label included.            *)
Template(c) ==
    Merged(Merged(KeyTemplate(c.type), Only("LABEL", c.label)), c.template)

(* Slip: the user's template comes last.                                   *)
ImportTemplateValueFirst(c) ==
    Merged(Only("VALUE", c.file), Template(c))

(* import puts the value on top of that.                                   *)
ImportTemplate(c) == Merged(Template(c), Only("VALUE", c.file))

(* What the HSM assumes of an attribute that is not given.                 *)
Default ==
    [a \in {"SENSITIVE", "EXTRACTABLE", "WRAP", "UNWRAP", "MODULUS"} |->
        IF a = "MODULUS" THEN NONE ELSE a = "EXTRACTABLE" /\ hsm.extractable]

(* An object is made of a template and of a value the HSM supplies.        *)
MakeObject(c, template, value) ==
    LET o == Merged(Merged(Default, Only("VALUE", value)), template)
    IN  /\ objects' = [h \in Handles \cup {Cardinality(Handles) + 1} |->
                          IF h \in Handles THEN objects[h] ELSE o]
        /\ open' = IF Has(c.template, "SENSITIVE", FALSE)
                   THEN open \cup {o["VALUE"]} ELSE open
-----------------------------------------------------------------------------
Goto(p, place) == pc' = [pc EXCEPT ![p] = place]

Answer(p, outcome) ==
    /\ reply' = [reply EXCEPT ![p] = outcome]
    /\ Goto(p, "done")

(* What a step leaves alone that changes nothing on the token.             *)
Looks == UNCHANGED <<hsm, token, named, runs, changes, cmd, wrapper, was>>

(* The keys that may wrap now, with their labels, and the record of them   *)
(* for the commands under way.                                             *)
MayWrap ==
    {<<h, objects[h]["LABEL"]>> : h \in {i \in Handles : objects[i]["WRAP"]}}

Remember ==
    named' = [p \in Procs |-> IF pc[p] = "idle" THEN {} ELSE named[p] \cup MayWrap']

Start(p) ==
    /\ pc[p] = "idle" /\ runs < MaxRuns
    /\ runs' = runs + 1
    /\ \E c \in Requests : cmd' = [cmd EXCEPT ![p] = c]
    /\ was' = [was EXCEPT ![p] = objects]
    /\ named' = [named EXCEPT ![p] = MayWrap]
    /\ Goto(p, "start")
    /\ UNCHANGED <<hsm, token, changes, handle, wrapper, marked, map, second,
                   out, reply>>

(* The command ends, or is killed.                                         *)
Finish(p) ==
    /\ pc[p] # "idle"
    /\ Goto(p, "idle")
    /\ cmd' = [cmd EXCEPT ![p] = NONE]
    /\ handle' = [handle EXCEPT ![p] = 0]
    /\ wrapper' = [wrapper EXCEPT ![p] = 0]
    /\ marked' = [marked EXCEPT ![p] = FALSE]
    /\ map' = [map EXCEPT ![p] = Empty]
    /\ second' = [second EXCEPT ![p] = FALSE]
    /\ out' = [out EXCEPT ![p] = NONE]
    /\ reply' = [reply EXCEPT ![p] = NONE]
    /\ was' = [was EXCEPT ![p] = Empty]
    /\ named' = [named EXCEPT ![p] = {}]
    /\ UNCHANGED <<hsm, token, runs, changes>>

(* Any call of the HSM may fail.                                           *)
Fails(p) ==
    /\ pc[p] \notin {"idle", "done"}
    /\ Answer(p, "Error")
    /\ Looks /\ UNCHANGED <<handle, marked, map, second, out>>

(* Another program hardens a key, which cannot be undone, or changes what  *)
(* it may be used for, or gives it another name.                           *)
Change(h) ==
    /\ changes < MaxChanges /\ changes' = changes + 1
    /\ \/ objects[h]["EXTRACTABLE"] /\ objects' = [objects EXCEPT ![h]["EXTRACTABLE"] = FALSE]
       \/ ~objects[h]["SENSITIVE"] /\ objects' = [objects EXCEPT ![h]["SENSITIVE"] = TRUE]
       \/ \E a \in {"WRAP", "UNWRAP"} :
             objects' = [objects EXCEPT ![h][a] = ~objects[h][a]]
       \/ \E l \in Labels \ {objects[h]["LABEL"]} :
             objects' = [objects EXCEPT ![h]["LABEL"] = l]
    /\ Remember
    /\ UNCHANGED <<hsm, secrets, plain, blobs, open, client, runs, pc>>
-----------------------------------------------------------------------------
(* generate, import and unwrap: the label must be free, and an object is   *)
(* made under the name the template gives it.                              *)
CheckFree(p) ==
    /\ pc[p] = "start" /\ cmd[p].op \in Making
    /\ IF \E h \in Handles : objects[h]["LABEL"] = cmd[p].label
       THEN Answer(p, "Exists")
       ELSE /\ Goto(p, IF cmd[p].op = "unwrap" THEN "wrapper" ELSE "create")
            /\ UNCHANGED reply
    /\ Looks /\ UNCHANGED <<handle, marked, map, second, out>>

(* The keys that wrapping_key and unwrapping_key look for.                 *)
WrapperClass(mechanism, use) ==
    IF mechanism \in AesWraps THEN "SECRET_KEY"
    ELSE IF use = "WRAP" THEN "PUBLIC_KEY" ELSE "PRIVATE_KEY"

(* What the two halves of a wrapping key have in common.                   *)
Material(o) == IF o["KEY_TYPE"] = "RSA" THEN o["MODULUS"] ELSE o["VALUE"]

(* Slip: a key may wrap that is not meant to.                              *)
WrappersOfAnyUse(label, mechanism, use) ==
    {h \in Handles :
        /\ objects[h]["LABEL"] = label
        /\ objects[h]["CLASS"] = WrapperClass(mechanism, use)
        /\ objects[h]["KEY_TYPE"] = IF mechanism \in AesWraps THEN "AES" ELSE "RSA"}

Wrappers(label, mechanism, use) ==
    {h \in Handles :
        /\ objects[h]["LABEL"] = label /\ objects[h][use]
        /\ objects[h]["CLASS"] = WrapperClass(mechanism, use)
        /\ objects[h]["KEY_TYPE"] = IF mechanism \in AesWraps THEN "AES" ELSE "RSA"}

(* wrapping_key and unwrapping_key: one call, whose handle the next uses.  *)
FindWrapper(p) ==
    LET c  == cmd[p]
        by == Wrappers(c.by, c.mechanism, IF c.op = "wrap" THEN "WRAP" ELSE "UNWRAP")
    IN  /\ pc[p] = "wrapper"
        /\ \/ by = {} /\ Answer(p, "NotFound") /\ UNCHANGED wrapper
           \/ Cardinality(by) > 1 /\ Answer(p, "TooMany") /\ UNCHANGED wrapper
           \/ \E h \in by :
                 /\ by = {h}
                 /\ wrapper' = [wrapper EXCEPT ![p] = h]
                 /\ Goto(p, IF c.op = "wrap" THEN "wrap" ELSE "create")
                 /\ UNCHANGED reply
        /\ UNCHANGED <<hsm, token, named, runs, changes, cmd, handle, marked,
                       map, second, out, was>>

(* generate_key, create_object or unwrap_key.                              *)
CreateKey(p) ==
    LET c == cmd[p]
    IN  /\ pc[p] = "create"
        /\ \/ /\ c.op = "generate"
              /\ MakeObject(c, Template(c), secrets) /\ secrets' = secrets + 1
           \/ /\ c.op = "import"
              /\ MakeObject(c, ImportTemplate(c), c.file) /\ UNCHANGED secrets
           \/ /\ c.op = "unwrap" /\ UNCHANGED secrets
              /\ hsm.refuses => objects[wrapper[p]]["UNWRAP"]
              /\ \E b \in blobs :
                    /\ b.by = Material(objects[wrapper[p]])
                    /\ b.mechanism = c.mechanism
                    /\ MakeObject(c, Template(c), b.value)
        /\ Remember
        /\ Answer(p, "ok")
        /\ handle' = [handle EXCEPT ![p] = Cardinality(Handles) + 1]
        /\ UNCHANGED <<hsm, plain, blobs, runs, changes, cmd, wrapper, marked,
                       map, second, out, was>>
-----------------------------------------------------------------------------
(* export, wrap, show and read: one object, which show may choose.  The    *)
(* secret key commands search by name alone, rsa-export by class and type. *)
Found(c) ==
    {h \in Handles :
        /\ objects[h]["LABEL"] = c.label
        /\ c.op = "wrap" /\ c.type = "RSA" =>
              objects[h]["CLASS"] = "PRIVATE_KEY" /\ objects[h]["KEY_TYPE"] = "RSA"}

FindObject(p) ==
    LET found == Found(cmd[p])
    IN  /\ pc[p] = "start" /\ cmd[p].op \notin Making
        /\ \/ found = {} /\ Answer(p, "NotFound") /\ UNCHANGED <<handle, second>>
           \/ /\ cmd[p].op # "show" /\ Cardinality(found) > 1
              /\ Answer(p, "TooMany") /\ UNCHANGED <<handle, second>>
           \/ \E h \in found :
                 /\ cmd[p].op = "show" \/ found = {h}
                 /\ handle' = [handle EXCEPT ![p] = h]
                 /\ second' = [second EXCEPT ![p] =
                       cmd[p].op = "wrap" /\ cmd[p].type = "RSA"]
                 /\ Goto(p, "info") /\ UNCHANGED reply
        /\ Looks /\ UNCHANGED <<marked, map, out>>

(* from_object, first call: get_attribute_info.                            *)
Protected(o) == o["SENSITIVE"] \/ ~o["EXTRACTABLE"]

GetInfo(p) ==
    /\ pc[p] = "info"
    /\ marked' = [marked EXCEPT ![p] = hsm.marks /\ Protected(objects[handle[p]])]
    /\ Goto(p, "attributes")
    /\ Looks /\ UNCHANGED <<handle, map, second, out, reply>>

(* Second call: everything but the value.                                  *)
GetAttributes(p) ==
    /\ pc[p] = "attributes"
    /\ map' = [map EXCEPT ![p] =
                  [a \in Attributes \ {"VALUE"} |-> objects[handle[p]][a]]]
    /\ Goto(p, "value")
    /\ Looks /\ UNCHANGED <<handle, marked, second, out, reply>>

(* Slip: whether the value may be read is left to the HSM.                 *)
LeftToHsm(m) == FALSE

(* The program does not ask for the value of a sensitive object.           *)
MustRedact(m) == m["SENSITIVE"]

(* Third call: the value, or a mark in its place, or nothing at all.       *)
GetValue(p) ==
    LET o      == objects[handle[p]]
        kept   == [a \in Attributes \ {"VALUE"} |-> map[p][a]]
        given  == o["VALUE"] # NONE /\ ~(hsm.refuses /\ Protected(o))
    IN  /\ pc[p] = "value"
        /\ map' = [map EXCEPT ![p] =
              IF MustRedact(map[p]) \/ marked[p]
              THEN Merged(kept, Only("VALUE", Redacted))
              ELSE IF given THEN Merged(kept, Only("VALUE", o["VALUE"])) ELSE kept]
        /\ Goto(p, "check")
        /\ Looks /\ UNCHANGED <<handle, marked, second, out, reply>>

LetOut(p, value, by) ==
    out' = [out EXCEPT ![p] = [value |-> value, by |-> by]]

(* Slip: a mark is taken for a value.                                      *)
ReadableMark(m) == "VALUE" \in DOMAIN m

(* A mark cannot be converted to bytes.                                    *)
Readable(m) == "VALUE" \in DOMAIN m /\ m["VALUE"] # Redacted

(* What object-show --redact takes out: the secret parts of an RSA key,    *)
(* and not CKA_VALUE, where other keys have theirs.                        *)
RedactedByTool(c, m) == c.op = "show" /\ c.redact /\ m["KEY_TYPE"] = "RSA"

(* object-show, of one of the objects it shows, and object-read.           *)
ShowValue(p) ==
    /\ pc[p] = "check" /\ cmd[p].op \in {"show", "read"}
    /\ IF Readable(map[p]) /\ ~RedactedByTool(cmd[p], map[p])
       THEN /\ plain' = plain \cup {map[p]["VALUE"]}
            /\ LetOut(p, map[p]["VALUE"], 0) /\ Answer(p, "ok")
       ELSE /\ Answer(p, IF cmd[p].op = "show" THEN "ok" ELSE "Error")
            /\ UNCHANGED <<plain, out>>
    /\ UNCHANGED <<hsm, objects, secrets, blobs, open, named, runs, changes,
                   cmd, handle, wrapper, marked, map, second, was>>

(* Slip: a key need not be extractable.                                    *)
MayLeaveAnyway(m) == TRUE

MayLeave(m) == m["EXTRACTABLE"]

(* Secret::check.                                                          *)
IsSecretKey(m, type) ==
    /\ Has(m, "CLASS", "SECRET_KEY") /\ Has(m, "KEY_TYPE", type)
    /\ MayLeave(m)

(* Secret::export.                                                         *)
ExportValue(p) ==
    /\ pc[p] = "check" /\ cmd[p].op = "export"
    /\ IF /\ IsSecretKey(map[p], cmd[p].type) /\ ~map[p]["SENSITIVE"]
          /\ Readable(map[p])
       THEN /\ plain' = plain \cup {map[p]["VALUE"]}
            /\ LetOut(p, map[p]["VALUE"], 0) /\ Answer(p, "ok")
       ELSE Answer(p, "KeyError") /\ UNCHANGED <<plain, out>>
    /\ UNCHANGED <<hsm, objects, secrets, blobs, open, named, runs, changes,
                   cmd, handle, wrapper, marked, map, second, was>>

(* Secret::wrap_key looks at the object and Wrap::check_key once more,     *)
(* with calls of its own; a private key is looked at by check_key alone.   *)
CheckWrap(p) ==
    LET c       == cmd[p]
        allowed == IF second[p]
                   THEN /\ MayLeave(map[p])
                        /\ c.mechanism \in RsaWraps =>
                              map[p]["KEY_TYPE"] \in SecretTypes
                   ELSE IsSecretKey(map[p], c.type)
    IN  /\ pc[p] = "check" /\ c.op = "wrap"
        /\ \/ ~allowed /\ Answer(p, "KeyError") /\ UNCHANGED second
           \/ allowed /\ second[p] /\ Goto(p, "wrapper") /\ UNCHANGED <<reply, second>>
           \/ /\ allowed /\ ~second[p]
              /\ second' = [second EXCEPT ![p] = TRUE]
              /\ Goto(p, "info") /\ UNCHANGED reply
        /\ Looks /\ UNCHANGED <<handle, marked, map, out>>

(* Wrap::wrap, its last call: the HSM wraps.  One that refuses looks at    *)
(* both keys as they are by then.                                          *)
WrapKey(p) ==
    LET o == objects[handle[p]]
        w == objects[wrapper[p]]
    IN  /\ pc[p] = "wrap"
        /\ hsm.refuses => o["EXTRACTABLE"] /\ w["WRAP"]
        /\ blobs' = blobs \cup
              {[by |-> Material(w), mechanism |-> cmd[p].mechanism,
                value |-> o["VALUE"]]}
        /\ LetOut(p, o["VALUE"], wrapper[p])
        /\ Answer(p, "ok")
        /\ UNCHANGED <<hsm, objects, secrets, plain, open, named, runs, changes,
                       cmd, handle, wrapper, marked, map, second, was>>

Next ==
    \/ \E p \in Procs :
          \/ Start(p) \/ Finish(p) \/ Fails(p)
          \/ CheckFree(p) \/ FindWrapper(p) \/ CreateKey(p)
          \/ FindObject(p) \/ GetInfo(p) \/ GetAttributes(p) \/ GetValue(p)
          \/ ShowValue(p) \/ ExportValue(p) \/ CheckWrap(p) \/ WrapKey(p)
    \/ \E h \in Handles : Change(h)

Spec == Init /\ [][Next]_vars
-----------------------------------------------------------------------------
LetsOut(p, ops) == out[p] # NONE /\ cmd[p].op \in ops

(* A value is written in the clear only if somebody asked for it with a    *)
(* template that says CKA_SENSITIVE false, when the key was generated,     *)
(* imported or unwrapped, or when an old key was made.  True of HSMs that  *)
(* protect nothing by themselves, too.                                     *)
NoUnaskedPlaintext == plain \subseteq open

(* The value of an object that was sensitive when a command began is not   *)
(* shown, read or exported by it, whatever the HSM would have given; nor   *)
(* is an unextractable key exported, or a part of an RSA key shown that    *)
(* --redact is to hide.                                                    *)
ShowsNoSecret ==
    \A p \in Procs :
        LetsOut(p, {"show", "read", "export"}) /\ handle[p] \in DOMAIN was[p] =>
            /\ ~was[p][handle[p]]["SENSITIVE"]
            /\ cmd[p].op = "export" => was[p][handle[p]]["EXTRACTABLE"]
            /\ cmd[p].op = "show" /\ cmd[p].redact =>
                  was[p][handle[p]]["KEY_TYPE"] # "RSA"

(* A value is wrapped only if its key was extractable when the command     *)
(* began and is of the type the command is for, and only under a key that, *)
(* at some time since then, bore the name given and might wrap, and that   *)
(* is of the kind the mechanism needs: a private key is never wrapped      *)
(* under an RSA key.  So it is although both keys may change between the   *)
(* looks at them, the search and the call that wraps.                      *)
WrapsWhatMayLeave ==
    \A p \in Procs : LetsOut(p, {"wrap"}) =>
        LET by == out[p].by
        IN  /\ handle[p] \in DOMAIN was[p] =>
                  LET o == was[p][handle[p]]
                  IN  o["EXTRACTABLE"] /\ o["KEY_TYPE"] = cmd[p].type
            /\ <<by, cmd[p].by>> \in named[p]
            /\ cmd[p].mechanism \in RsaWraps <=> objects[by]["KEY_TYPE"] = "RSA"
            /\ objects[by]["CLASS"] # "PRIVATE_KEY"

(* An imported key is the key in the file, whatever the template says.     *)
ImportsTheFile ==
    \A p \in Procs :
        pc[p] = "done" /\ reply[p] = "ok" /\ cmd[p].op = "import" =>
            objects[handle[p]]["VALUE"] = cmd[p].file
=============================================================================
