------------------------------- MODULE SpxEf -------------------------------
(***************************************************************************)
(* SPHINCS+ keys kept as elementary files: data objects of the token whose *)
(* application is "hsmtool-spx:<algorithm>".  The spx commands find a file *)
(* by its label; object-destroy removes such files like any other object,  *)
(* and object-write adds files of any application without a look.          *)
(* A step is one search of the token, with the attributes it reads, or one *)
(* change of it.                                                           *)
(***************************************************************************)
EXTENDS Naturals, FiniteSets

CONSTANTS
    Procs,     \* processes that run hsmtool --spx-module=pkcs11-ef
    Locking,   \* whether all of them pass --lockfile
    Labels,    \* labels of files
    Algs,      \* SPHINCS+ algorithms
    KeyFiles,  \* keys in PEM files that spx-import or object-write reads
    Requests,  \* the commands the processes run
    NONE,      \* no process; no key, as in a file that holds something else
    MaxRuns    \* bound on the number of invocations

(* A generated key is a number, one never generated before.                *)
Keys == KeyFiles \cup Nat

(* Any application but hsmtool-spx, or none.                               *)
Other == "other"

Command ==
    [op : {"generate"}, label : Labels, alg : Algs, key : {NONE},
     overwrite : BOOLEAN]
    \cup
    [op : {"import"}, label : Labels, alg : Algs, key : KeyFiles,
     overwrite : BOOLEAN]
    \cup
    [op : {"write"}, label : Labels, app : Algs \cup {Other},
     key : KeyFiles \cup {NONE}]
    \cup
    [op : {"sign", "export", "destroy"}, label : Labels]
    \cup
    [op : {"verify"}, label : Labels, sig : Keys]
    \cup
    [op : {"list"}]

ASSUME SpxEfAssumption ==
    /\ Locking \in BOOLEAN /\ MaxRuns \in Nat
    /\ NONE \notin Procs \cup KeyFiles /\ Other \notin Algs
    /\ Requests \subseteq Command

VARIABLES
    files,   \* the data objects on the token
    serial,  \* next unused handle and key
    holder,  \* who holds the lock file
    runs,    \* invocations started so far
    pc,      \* where each process is
    cmd,     \* the command it runs
    alias,   \* the label load_key looks for
    found,   \* the file load_key has found
    todo,    \* files still to be listed or destroyed
    seen,    \* what the command has found out: labels with their keys
    reply,   \* the outcome of the command
    latest,  \* history: the key last stored under a label that was not
             \* destroyed since, in whole or in part
    made     \* history: the files that generate and import have made

history == <<latest, made>>
vars    == <<files, serial, holder, runs, pc, cmd, alias, found, todo, seen,
             reply, history>>

File == [serial : Nat, label : Labels, app : Algs \cup {Other},
         key : Keys \cup {NONE}]

Outcomes == {"ok", "mismatch", "ObjectNotFound", "TooManyObjects",
             "ObjectExists", "UnknownApplication", "Error"}

PCs == {"idle", "start", "write", "saved", "find", "read", "load", "loop",
        "done"}

TypeOK ==
    /\ files \in SUBSET File
    /\ serial \in Nat
    /\ holder \in Procs \cup {NONE}
    /\ runs \in 0..MaxRuns
    /\ pc \in [Procs -> PCs]
    /\ cmd \in [Procs -> Requests \cup {NONE}]
    /\ alias \in [Procs -> Labels \cup {NONE}]
    /\ found \in [Procs -> SUBSET File]
    /\ todo \in [Procs -> SUBSET File]
    /\ seen \in [Procs -> SUBSET [label : Labels, key : Keys]]
    /\ reply \in [Procs -> Outcomes \cup {NONE}]
    /\ latest \in [Labels -> Keys \cup {NONE}]
    /\ made \in SUBSET File

Init ==
    /\ files = {} /\ serial = 0 /\ holder = NONE /\ runs = 0
    /\ pc = [p \in Procs |-> "idle"]
    /\ cmd = [p \in Procs |-> NONE]
    /\ alias = [p \in Procs |-> NONE]
    /\ found = [p \in Procs |-> {}]
    /\ todo = [p \in Procs |-> {}]
    /\ seen = [p \in Procs |-> {}]
    /\ reply = [p \in Procs |-> NONE]
    /\ latest = [l \in Labels |-> NONE] /\ made = {}
-----------------------------------------------------------------------------
(* ElementaryFile::find takes CKA_CLASS = CKO_DATA and the label; the      *)
(* search of ElementaryFile::read takes the application as well.           *)

(* Slip: only files that are SPHINCS+ keys count as name clashes.          *)
FilesOfAlg(label) == {f \in files : f.label = label /\ f.app \in Algs}
FilesOf(label)    == {f \in files : f.label = label}

(* Slip: the first of the objects found is taken.                          *)
AnyOf(set) == set

(* The one object a search may return: none for several or no objects.     *)
SoleOf(set) == {f \in set : set = {f}}

Several(set) == \E f, g \in set : f # g

Goto(p, place) == pc' = [pc EXCEPT ![p] = place]

Answer(p, outcome) ==
    /\ reply' = [reply EXCEPT ![p] = outcome]
    /\ Goto(p, "done")

(* An invocation starts, with the lock file if all lock it.                *)
Start(p) ==
    /\ pc[p] = "idle" /\ runs < MaxRuns
    /\ Locking => holder = NONE
    /\ holder' = IF Locking THEN p ELSE NONE
    /\ runs' = runs + 1
    /\ \E c \in Requests : cmd' = [cmd EXCEPT ![p] = c]
    /\ Goto(p, "start")
    /\ UNCHANGED <<files, serial, alias, found, todo, seen, reply, history>>

(* It ends, or is killed.                                                  *)
Finish(p) ==
    /\ pc[p] # "idle"
    /\ holder' = IF holder = p THEN NONE ELSE holder
    /\ Goto(p, "idle")
    /\ cmd' = [cmd EXCEPT ![p] = NONE]
    /\ alias' = [alias EXCEPT ![p] = NONE]
    /\ found' = [found EXCEPT ![p] = {}]
    /\ todo' = [todo EXCEPT ![p] = {}]
    /\ seen' = [seen EXCEPT ![p] = {}]
    /\ reply' = [reply EXCEPT ![p] = NONE]
    /\ UNCHANGED <<files, serial, runs, history>>
-----------------------------------------------------------------------------
(* generate_key and import_keypair.  With --overwrite one file of the same *)
(* label is let by; the branch that would delete it is empty.              *)

(* Slip: two files are let by.                                             *)
OverwritableTwo(set) == Cardinality(set) <= 2

Overwritable(set) == Cardinality(set) <= 1

SearchFree(p) ==
    LET ef == FilesOf(cmd[p].label)
    IN  /\ pc[p] = "start" /\ cmd[p].op \in {"generate", "import"}
        /\ IF cmd[p].overwrite
           THEN \/ Overwritable(ef) /\ Goto(p, "write") /\ UNCHANGED reply
                \/ ~Overwritable(ef) /\ Answer(p, "TooManyObjects")
           ELSE \/ ef = {} /\ Goto(p, "write") /\ UNCHANGED reply
                \/ ef # {} /\ Answer(p, "ObjectExists")
        /\ UNCHANGED <<files, serial, holder, runs, cmd, alias, found, todo,
                       seen, history>>

(* Slip: a generated key is not stored.                                    *)
NewKeyGiven(c) == c.key

NewKey(c) == IF c.op = "generate" THEN serial ELSE c.key

(* ElementaryFile::write: one create_object.                               *)
WriteKey(p) ==
    LET c == cmd[p]
        f == [serial |-> serial, label |-> c.label, app |-> c.alg,
              key |-> NewKey(c)]
    IN  /\ pc[p] = "write"
        /\ files' = files \cup {f} /\ made' = made \cup {f}
        /\ serial' = serial + 1
        /\ latest' = [latest EXCEPT ![c.label] = NewKey(c)]
        /\ seen' = [seen EXCEPT ![p] = {[label |-> c.label, key |-> NewKey(c)]}]
        /\ Goto(p, "saved")
        /\ UNCHANGED <<holder, runs, cmd, alias, found, todo, reply>>

(* The command returns, or saving the private key to a file (--export)     *)
(* fails with the key already on the token.                                *)
Saved(p) ==
    /\ pc[p] = "saved"
    /\ \/ Answer(p, "ok")
       \/ cmd[p].op = "generate" /\ Answer(p, "Error")
    /\ UNCHANGED <<files, serial, holder, runs, cmd, alias, found, todo, seen,
                   history>>
-----------------------------------------------------------------------------
(* load_key, called by sign, verify and export with the label given and by *)
(* list with the label of each file.                                       *)
BeginLoad(p) ==
    /\ pc[p] = "start" /\ cmd[p].op \in {"sign", "verify", "export"}
    /\ alias' = [alias EXCEPT ![p] = cmd[p].label]
    /\ Goto(p, "find")
    /\ UNCHANGED <<files, serial, holder, runs, cmd, found, todo, seen, reply,
                   history>>

(* Its first search: by label.                                             *)
FindFile(p) ==
    LET ef == FilesOf(alias[p])
    IN  /\ pc[p] = "find"
        /\ \/ ef = {} /\ Answer(p, "ObjectNotFound") /\ UNCHANGED found
           \/ Several(ef) /\ Answer(p, "TooManyObjects") /\ UNCHANGED found
           \/ \E f \in SoleOf(ef) :
                 /\ f.app \notin Algs
                 /\ Answer(p, "UnknownApplication") /\ UNCHANGED found
           \/ \E f \in SoleOf(ef) :
                 /\ f.app \in Algs
                 /\ found' = [found EXCEPT ![p] = {f}]
                 /\ Goto(p, "read") /\ UNCHANGED reply
        /\ UNCHANGED <<files, serial, holder, runs, cmd, alias, todo, seen,
                       history>>

(* Its second search, in read: by label and the application just found.    *)
FindAgain(p) ==
    /\ pc[p] = "read"
    /\ \E f \in found[p] :
          LET ef == {g \in FilesOf(alias[p]) : g.app = f.app}
          IN  \/ ef = {} /\ Answer(p, "ObjectNotFound") /\ UNCHANGED found
              \/ Several(ef) /\ Answer(p, "TooManyObjects") /\ UNCHANGED found
              \/ /\ SoleOf(ef) # {}
                 /\ \E g \in SoleOf(ef) : found' = [found EXCEPT ![p] = {g}]
                 /\ Goto(p, "load") /\ UNCHANGED reply
    /\ UNCHANGED <<files, serial, holder, runs, cmd, alias, todo, seen, history>>

(* Then the value of the object found is read, and the key is used; what   *)
(* is not the PEM of a key is an error.  A verification that fails is a    *)
(* result, not an error.                                                   *)
LoadKey(p) ==
    /\ pc[p] = "load" /\ found[p] \subseteq files
    /\ \A f \in found[p] : f.key # NONE
    /\ \E f \in found[p] :
          /\ seen' = [seen EXCEPT ![p] = @ \cup {[label |-> alias[p], key |-> f.key]}]
          /\ \/ cmd[p].op = "list" /\ Goto(p, "loop") /\ UNCHANGED reply
             \/ cmd[p].op \in {"sign", "export"} /\ Answer(p, "ok")
             \/ /\ cmd[p].op = "verify"
                /\ Answer(p, IF f.key = cmd[p].sig THEN "ok" ELSE "mismatch")
    /\ UNCHANGED <<files, serial, holder, runs, cmd, alias, found, todo, history>>
-----------------------------------------------------------------------------
(* spx-list: the files whose application is ours, then get_key_info on the *)
(* label of each.                                                          *)
ListFiles(p) ==
    /\ pc[p] = "start" /\ cmd[p].op = "list"
    /\ todo' = [todo EXCEPT ![p] = {f \in files : f.app \in Algs}]
    /\ Goto(p, "loop")
    /\ UNCHANGED <<files, serial, holder, runs, cmd, alias, found, seen, reply,
                   history>>

ListNext(p) ==
    /\ pc[p] = "loop" /\ cmd[p].op = "list"
    /\ \E f \in todo[p] :
          /\ alias' = [alias EXCEPT ![p] = f.label]
          /\ todo' = [todo EXCEPT ![p] = @ \ {f}]
    /\ Goto(p, "find")
    /\ UNCHANGED <<files, serial, holder, runs, cmd, found, seen, reply, history>>

(* object-destroy by label, one destroy_object at a time.                  *)
FindAll(p) ==
    /\ pc[p] = "start" /\ cmd[p].op = "destroy"
    /\ todo' = [todo EXCEPT ![p] = FilesOf(cmd[p].label)]
    /\ Goto(p, "loop")
    /\ UNCHANGED <<files, serial, holder, runs, cmd, alias, found, seen, reply,
                   history>>

DestroyNext(p) ==
    /\ pc[p] = "loop" /\ cmd[p].op = "destroy"
    /\ \E f \in todo[p] \cap files :
          /\ files' = files \ {f}
          /\ todo' = [todo EXCEPT ![p] = @ \ {f}]
          /\ latest' = [latest EXCEPT ![f.label] = NONE]
    /\ UNCHANGED <<serial, holder, runs, pc, cmd, alias, found, seen, reply,
                   made>>

EndLoop(p) ==
    /\ pc[p] = "loop" /\ todo[p] = {}
    /\ Answer(p, "ok")
    /\ UNCHANGED <<files, serial, holder, runs, cmd, alias, found, todo, seen,
                   history>>

(* object-write: a file of any content, under any label and --application, *)
(* ours included, whatever lies there.                                     *)
WriteFile(p) ==
    LET c == cmd[p]
    IN  /\ pc[p] = "start" /\ c.op = "write"
        /\ files' = files \cup {[serial |-> serial, label |-> c.label,
                                 app |-> c.app, key |-> c.key]}
        /\ serial' = serial + 1
        /\ latest' = IF c.app \in Algs /\ c.key # NONE
                     THEN [latest EXCEPT ![c.label] = c.key] ELSE latest
        /\ Answer(p, "ok")
        /\ UNCHANGED <<holder, runs, cmd, alias, found, todo, seen, made>>

(* Any HSM call or file operation may fail, a handle may be gone, and what *)
(* a file holds may be no key.                                             *)
Fails(p) ==
    /\ \/ pc[p] \in {"start", "write", "find", "read", "load"}
       \/ pc[p] = "loop" /\ todo[p] # {}
    /\ Answer(p, "Error")
    /\ UNCHANGED <<files, serial, holder, runs, cmd, alias, found, todo, seen,
                   history>>

Next ==
    \E p \in Procs :
        \/ Start(p) \/ Finish(p) \/ Fails(p)
        \/ SearchFree(p) \/ WriteKey(p) \/ Saved(p)
        \/ BeginLoad(p) \/ FindFile(p) \/ FindAgain(p) \/ LoadKey(p)
        \/ ListFiles(p) \/ ListNext(p) \/ FindAll(p) \/ DestroyNext(p)
        \/ EndLoop(p) \/ WriteFile(p)

Spec == Init /\ [][Next]_vars
-----------------------------------------------------------------------------
(* Properties of instances where every process locks.                      *)

Did(p, ops) == pc[p] = "done" /\ reply[p] = "ok" /\ cmd[p].op \in ops

UsedKey(p) ==
    /\ pc[p] = "done" /\ reply[p] \in {"ok", "mismatch"}
    /\ cmd[p].op \in {"sign", "export", "verify"}

KeysUnder(label) == {f \in files : f.label = label /\ f.app \in Algs}

(* A key that --overwrite was to replace, or beside which object-write has *)
(* put another, never signs again, is never exported and never decides a   *)
(* verification: while it lies beside its successor the label is           *)
(* ambiguous, and load_key refuses.                                        *)
UsesLatestKey ==
    \A p \in Procs :
        UsedKey(p) /\ latest[cmd[p].label] # NONE =>
            seen[p] = {[label |-> cmd[p].label, key |-> latest[cmd[p].label]]}

(* After a generate or import without --overwrite the label names the new  *)
(* key alone, so that the key can be loaded.                               *)
NewKeyIsLoadable ==
    \A p \in Procs :
        Did(p, {"generate", "import"}) /\ ~cmd[p].overwrite =>
            \E f \in files :
                /\ {g \in files : g.label = cmd[p].label} = {f}
                /\ seen[p] = {[label |-> f.label, key |-> f.key]}

(* However often --overwrite is used, and whatever object-write adds and   *)
(* object-destroy removes in between, a label has two keys at most that    *)
(* generate and import have put there.                                     *)
MadeUnder(label) == {f \in files \cap made : f.label = label}

AtMostTwoMade ==
    \A l \in Labels : Cardinality(MadeUnder(l)) <= 2

(* A list that succeeds is the whole of the keys on the token, each label  *)
(* with its own key.                                                       *)
ListIsExact ==
    \A p \in Procs : Did(p, {"list"}) =>
        seen[p] = {[label |-> f.label, key |-> f.key] :
                      f \in {g \in files : g.app \in Algs}}

(* The help of --overwrite: overwrite an existing key with the same label. *)
OverwriteReplaces ==
    \A p \in Procs :
        Did(p, {"generate", "import"}) /\ cmd[p].overwrite =>
            \E f \in files :
                /\ KeysUnder(cmd[p].label) = {f}
                /\ seen[p] = {[label |-> f.label, key |-> f.key]}
=============================================================================
