------------------------------ MODULE HsmTool ------------------------------
(***************************************************************************)
(* Invocations of the hsmtool program that share one PKCS#11 token.  Each  *)
(* process runs the binary again and again, with one command or with the   *)
(* list of commands of `exec`.  A step is one call to the HSM or one       *)
(* decision between two calls, so the steps of processes interleave as     *)
(* their HSM calls do.  Processes in Lockers pass --lockfile.              *)
(***************************************************************************)
EXTENDS Token

CONSTANTS
    Procs,    \* processes that run hsmtool
    Lockers,  \* those that pass --lockfile (all name the same file)
    Scripts,  \* the command lists an invocation may run
    MaxRuns   \* bound on the number of invocations

ASSUME HsmToolAssumption ==
    /\ Lockers \subseteq Procs
    /\ NONE \notin Procs
    /\ Scripts \subseteq Seq(Commands) \ {<<>>}
    /\ MaxRuns \in Nat

VARIABLES
    objects,  \* the objects on the token
    serial,   \* next unused serial and random id
    lock,     \* holder of the flock on the lock file
    runs,     \* invocations started so far
    pc,       \* where each process is
    script,   \* the commands of its invocation
    session,  \* whether it opened a session with the token
    status,   \* the replies to the commands run so far
    newid,    \* the id of the key being made
    rest,     \* the create calls still to issue
    todo,     \* found objects still to be acted on
    acted     \* objects the command has made, destroyed or shown

tokenVars == <<objects, serial>>
runVars   == <<lock, runs, script, session>>
workVars  == <<newid, rest, todo, acted>>
vars      == <<tokenVars, runVars, pc, status, workVars>>

PCs == {"idle", "lock", "connect", "dispatch", "create", "loop", "use", "exit"}

TypeOK ==
    /\ objects \in SUBSET Object
    /\ serial \in Nat
    /\ lock \in Procs \cup {NONE}
    /\ runs \in 0..MaxRuns
    /\ pc \in [Procs -> PCs]
    /\ script \in [Procs -> Scripts \cup {<<>>}]
    /\ session \in [Procs -> BOOLEAN]
    /\ status \in [Procs -> Seq(Reply)]
    /\ newid \in [Procs -> Ids \cup Nat \cup {NONE}]
    /\ rest \in [Procs -> Seq(SUBSET KeyClasses)]
    /\ todo \in [Procs -> SUBSET Object]
    /\ acted \in [Procs -> SUBSET Object]

Init ==
    /\ objects = {}
    /\ serial = 0
    /\ lock = NONE
    /\ runs = 0
    /\ pc = [p \in Procs |-> "idle"]
    /\ script = [p \in Procs |-> <<>>]
    /\ session = [p \in Procs |-> FALSE]
    /\ status = [p \in Procs |-> <<>>]
    /\ newid = [p \in Procs |-> NONE]
    /\ rest = [p \in Procs |-> <<>>]
    /\ todo = [p \in Procs |-> {}]
    /\ acted = [p \in Procs |-> {}]
-----------------------------------------------------------------------------
(* The command a process is at.                                            *)
HasCmd(p) == Len(status[p]) < Len(script[p])
Cmd(p)    == script[p][Len(status[p]) + 1]

Clear(p) ==
    /\ newid' = [newid EXCEPT ![p] = NONE]
    /\ rest' = [rest EXCEPT ![p] = <<>>]
    /\ todo' = [todo EXCEPT ![p] = {}]
    /\ acted' = [acted EXCEPT ![p] = {}]

(* Slip: exec goes on after an error.                                      *)
ReturnAnyway(p, outcome, objs) ==
    /\ status' = [status EXCEPT ![p] =
                    Append(@, [cmd |-> Cmd(p), outcome |-> outcome,
                               objs |-> objs])]
    /\ pc' = [pc EXCEPT ![p] = "dispatch"]
    /\ Clear(p)

(* A command returns.  `exec` goes on to the next command after an Ok and  *)
(* returns at once after an Err; a single command is a list of one.        *)
Return(p, outcome, objs) ==
    /\ status' = [status EXCEPT ![p] =
                    Append(@, [cmd |-> Cmd(p), outcome |-> outcome,
                               objs |-> objs])]
    /\ pc' = [pc EXCEPT ![p] = IF outcome = "ok" THEN "dispatch" ELSE "exit"]
    /\ Clear(p)

(* Slips: a waiter that dies removes the lock; the lock outlives a process.*)
ReleasedByAnyone(p) == NONE
NeverReleased(p)    == lock

(* The lock file is closed when its holder is gone.                        *)
Released(p) == IF lock = p THEN NONE ELSE lock

(* The process is gone.                                                    *)
Gone(p) ==
    /\ pc' = [pc EXCEPT ![p] = "idle"]
    /\ lock' = Released(p)
    /\ script' = [script EXCEPT ![p] = <<>>]
    /\ session' = [session EXCEPT ![p] = FALSE]
    /\ status' = [status EXCEPT ![p] = <<>>]
    /\ Clear(p)
    /\ UNCHANGED <<tokenVars, runs>>
-----------------------------------------------------------------------------
(* main, up to the command.                                                *)
Start(p) ==
    /\ pc[p] = "idle"
    /\ runs < MaxRuns
    /\ runs' = runs + 1
    /\ \E s \in Scripts : script' = [script EXCEPT ![p] = s]
    /\ pc' = [pc EXCEPT ![p] = IF p \in Lockers THEN "lock" ELSE "connect"]
    /\ UNCHANGED <<tokenVars, lock, session, status, workVars>>

(* Slip: the lock is a shared one.                                         *)
AcquireLockShared(p) ==
    /\ pc[p] = "lock"
    /\ lock' = p
    /\ pc' = [pc EXCEPT ![p] = "connect"]
    /\ UNCHANGED <<tokenVars, runs, script, session, status, workVars>>

(* flock(LOCK_EX) returns once nobody else holds the file.                 *)
AcquireLock(p) ==
    /\ pc[p] = "lock"
    /\ lock = NONE
    /\ lock' = p
    /\ pc' = [pc EXCEPT ![p] = "connect"]
    /\ UNCHANGED <<tokenVars, runs, script, session, status, workVars>>

(* With --profile or --token a session is opened; with neither, the        *)
(* command runs without one.  Sessions see the same objects: login, which  *)
(* a --token without --user leaves out, is not modelled.                   *)
Connect(p) ==
    /\ pc[p] = "connect"
    /\ \E s \in BOOLEAN : session' = [session EXCEPT ![p] = s]
    /\ pc' = [pc EXCEPT ![p] = "dispatch"]
    /\ UNCHANGED <<tokenVars, lock, runs, script, status, workVars>>

(* The module does not load, the token or the profile is unknown, or the   *)
(* login fails, or only --show-json is asked for.                          *)
Leave(p) ==
    /\ pc[p] = "connect"
    /\ Gone(p)
-----------------------------------------------------------------------------
(* The start of a command.                                                 *)
Refuse(p) ==
    /\ pc[p] = "dispatch" /\ HasCmd(p)
    /\ \/ ~session[p] /\ Return(p, "SessionRequired", {})
       \/ /\ session[p] /\ NoCriteria(Cmd(p))
          /\ Return(p, "NoSearchCriteria", {})
    /\ UNCHANGED <<tokenVars, runVars>>

Ready(p) == pc[p] = "dispatch" /\ HasCmd(p) /\ session[p] /\ ~NoCriteria(Cmd(p))

(* Slip: only private and secret keys are looked for.                      *)
TakenByPrivate(c) == \E o \in Matching(objects, c) : o.class # "public"

(* object_exists.                                                          *)
Taken(c) == Matching(objects, c) # {}

(* generate and import: no_object_exists finds nothing under the name, and *)
(* the key gets the id given or a random one.                              *)
NameIsFree(p) ==
    /\ Ready(p) /\ Cmd(p) \in MakeCommand
    /\ ~Taken(Cmd(p))
    /\ IF Cmd(p).id = NONE
       THEN /\ newid' = [newid EXCEPT ![p] = serial]
            /\ serial' = serial + 1
       ELSE /\ newid' = [newid EXCEPT ![p] = Cmd(p).id]
            /\ UNCHANGED serial
    /\ rest' = [rest EXCEPT ![p] = Cmd(p).calls]
    /\ pc' = [pc EXCEPT ![p] = "create"]
    /\ UNCHANGED <<objects, runVars, status, todo, acted>>

NameIsTaken(p) ==
    /\ Ready(p) /\ Cmd(p) \in MakeCommand
    /\ Taken(Cmd(p))
    /\ Return(p, "ObjectExists", {})
    /\ UNCHANGED <<tokenVars, runVars>>

(* Slip: every half gets a random id of its own.                           *)
CreatedOwnId(p) ==
    {[serial |-> serial, class |-> k, ktype |-> Cmd(p).ktype,
      id |-> serial, label |-> NewLabel(Cmd(p))] : k \in Head(rest[p])}

(* The objects the next create call of p makes.                            *)
Created(p) ==
    {[serial |-> serial, class |-> k, ktype |-> Cmd(p).ktype,
      id |-> newid[p], label |-> NewLabel(Cmd(p))] : k \in Head(rest[p])}

(* One create_object, generate_key, generate_key_pair or unwrap_key call.  *)
CreateObject(p) ==
    /\ pc[p] = "create"
    /\ objects' = objects \cup Created(p)
    /\ serial' = serial + 1
    /\ IF Tail(rest[p]) = <<>>
       THEN Return(p, "ok", acted[p] \cup Created(p))
       ELSE /\ rest' = [rest EXCEPT ![p] = Tail(@)]
            /\ acted' = [acted EXCEPT ![p] = @ \cup Created(p)]
            /\ UNCHANGED <<pc, status, newid, todo>>
    /\ UNCHANGED runVars

(* object-write: no check of the name, and an absent id or label is not    *)
(* stored.                                                                 *)
WriteObject(p) ==
    LET data == [serial |-> serial, class |-> "data", ktype |-> NONE,
                 id |-> Cmd(p).id, label |-> Cmd(p).label]
    IN  /\ Ready(p) /\ Cmd(p) \in WriteCommand
        /\ objects' = objects \cup {data}
        /\ serial' = serial + 1
        /\ Return(p, "ok", {data})
        /\ UNCHANGED runVars

(* object-destroy and object-show: find every match, then visit each.      *)
FindAll(p) ==
    /\ Ready(p) /\ Cmd(p) \in LoopCommand
    /\ todo' = [todo EXCEPT ![p] = Matching(objects, Cmd(p))]
    /\ pc' = [pc EXCEPT ![p] = "loop"]
    /\ UNCHANGED <<tokenVars, runVars, status, newid, rest, acted>>

(* One destroy_object, or the reads of from_object, on the next handle.    *)
VisitObject(p) ==
    /\ pc[p] = "loop"
    /\ \E o \in todo[p] \cap objects :
          /\ objects' = IF Cmd(p).op = "destroy" THEN objects \ {o} ELSE objects
          /\ todo' = [todo EXCEPT ![p] = @ \ {o}]
          /\ acted' = [acted EXCEPT ![p] = @ \cup {o}]
    /\ UNCHANGED <<serial, runVars, pc, status, newid, rest>>

(* Slip: the command returns after the first object.                       *)
EndLoopAfterOne(p) ==
    /\ pc[p] = "loop" /\ (todo[p] = {} \/ acted[p] # {})
    /\ Return(p, "ok", acted[p])
    /\ UNCHANGED <<tokenVars, runVars>>

EndLoop(p) ==
    /\ pc[p] = "loop" /\ todo[p] = {}
    /\ Return(p, "ok", acted[p])
    /\ UNCHANGED <<tokenVars, runVars>>

(* sign, verify, export, object-read: find_one_object ...                  *)
FindOne(p) ==
    LET found == Selected(objects, Cmd(p))
    IN  /\ Ready(p) /\ Cmd(p) \in UseCommand
        /\ \/ /\ found = {}
              /\ Return(p, "ObjectNotFound", {})
           \/ /\ \E o1, o2 \in found : o1 # o2
              /\ Return(p, "TooManyObjects", {})
           \/ /\ \E o \in found : found = {o}
              /\ todo' = [todo EXCEPT ![p] = found]
              /\ pc' = [pc EXCEPT ![p] = "use"]
              /\ UNCHANGED <<status, newid, rest, acted>>
        /\ UNCHANGED <<tokenVars, runVars>>

(* ... then the operation on the handle found.                             *)
UseObject(p) ==
    /\ pc[p] = "use"
    /\ todo[p] \subseteq objects
    /\ Return(p, "ok", todo[p])
    /\ UNCHANGED <<tokenVars, runVars>>

(* A handle whose object another process destroyed is invalid.             *)
HandleInvalid(p) ==
    /\ pc[p] \in {"loop", "use"}
    /\ todo[p] \ objects # {}
    /\ Return(p, "Error", {})
    /\ UNCHANGED <<tokenVars, runVars>>

(* Any HSM call may fail, and so may reading or writing the user's files   *)
(* before or after it.  The call had no effect.                            *)
CallFails(p) ==
    /\ \/ Ready(p)
       \/ pc[p] \in {"create", "use"}
       \/ pc[p] = "loop" /\ todo[p] # {}
    /\ Return(p, "Error", {})
    /\ UNCHANGED <<tokenVars, runVars>>

(* The call took effect on the HSM, but its answer is an error.            *)
AnswerLost(p) ==
    /\ \/ /\ pc[p] = "create"
          /\ objects' = objects \cup Created(p)
          /\ serial' = serial + 1
       \/ /\ pc[p] = "loop" /\ Cmd(p).op = "destroy"
          /\ \E o \in todo[p] \cap objects : objects' = objects \ {o}
          /\ UNCHANGED serial
    /\ Return(p, "Error", {})
    /\ UNCHANGED runVars
-----------------------------------------------------------------------------
(* print_result, and the end of the process.                               *)
Exit(p) ==
    /\ pc[p] = "exit" \/ (pc[p] = "dispatch" /\ ~HasCmd(p))
    /\ Gone(p)

(* The process is killed; what it did to the token stays.                  *)
Crash(p) ==
    /\ pc[p] # "idle"
    /\ Gone(p)

(* The steps inside a command.                                             *)
Inside(p) ==
    \/ Refuse(p) \/ NameIsFree(p) \/ NameIsTaken(p) \/ CreateObject(p)
    \/ WriteObject(p) \/ FindAll(p) \/ VisitObject(p) \/ EndLoop(p)
    \/ FindOne(p) \/ UseObject(p) \/ HandleInvalid(p) \/ CallFails(p)
    \/ AnswerLost(p)

(* The steps a process takes by itself once it has the lock.               *)
Step(p) == Connect(p) \/ Leave(p) \/ Inside(p) \/ Exit(p)

Next == \E p \in Procs : Start(p) \/ AcquireLock(p) \/ Step(p) \/ Crash(p)

Spec == Init /\ [][Next]_vars

(* A started process runs on, every HSM call returns, and flock wakes its  *)
(* waiters in turn.  Nothing forces a new invocation or a crash.           *)
Fairness == \A p \in Procs : WF_vars(Step(p)) /\ SF_vars(AcquireLock(p))

FairSpec == Spec /\ Fairness
-----------------------------------------------------------------------------
(* The invariants below that need the lock are stated for instances where  *)
(* every process passes --lockfile.                                        *)
AllLock == Lockers = Procs

Running(p) == pc[p] \notin {"idle", "lock"}

(* Two invocations that pass --lockfile never both run: a waiter that dies *)
(* does not release the holder's lock, and a holder keeps it to its end.   *)
MutualExclusion ==
    \A p, q \in Lockers : p # q => ~(Running(p) /\ Running(q))

SameName(o1, o2) == o1.id = o2.id /\ o1.label = o2.label

Halved(o1, o2) ==
    o1.ktype = o2.ktype /\ {o1.class, o2.class} = {"public", "private"}

(* What no_object_exists is for: two key objects with the same id and      *)
(* label are the two halves of one key, whatever invocations failed,       *)
(* crashed half way through an import or were run again.                   *)
NamesOneKey ==
    \A o1, o2 \in KeysOf(objects) :
        o1 # o2 /\ SameName(o1, o2) => Halved(o1, o2)

(* Between its search and its last HSM call, a command's handles are       *)
(* exactly the objects its search would find now: nothing it is about to   *)
(* use, show or destroy is gone, and no other object has come to match.    *)
FoundIsCurrent ==
    \A p \in Procs :
        /\ pc[p] = "use" => todo[p] = Selected(objects, Cmd(p))
        /\ pc[p] = "loop" /\ Cmd(p).op = "destroy" =>
              todo[p] = Matching(objects, Cmd(p)) /\ acted[p] \cap objects = {}
        /\ pc[p] = "loop" /\ Cmd(p).op = "show" =>
              todo[p] \cup acted[p] = Matching(objects, Cmd(p))

(* A batch that makes a key and next uses it under the same options finds  *)
(* exactly the key it made: never nothing, never several, never another.   *)
FreshKeyIsUsed ==
    \A p \in Procs : \A i \in 2..Len(status[p]) :
        LET made == status[p][i - 1]
            used == status[p][i]
        IN  /\ made.outcome = "ok" /\ made.cmd \in MakeCommand
            /\ used.cmd \in UseCommand
            /\ used.cmd.id = made.cmd.id /\ used.cmd.label = made.cmd.label
            /\ used.cmd.ktype = made.cmd.ktype
            /\ used.cmd.form \in Halves(made.cmd.form)
            => /\ used.outcome \notin {"ObjectNotFound", "TooManyObjects"}
               /\ used.outcome = "ok" => used.objs \subseteq made.objs

(* While a key is being made, the only key objects under its id and label  *)
(* are the ones this command made: the check still holds when the calls    *)
(* it guards are issued.                                                   *)
NameStaysFree ==
    \A p \in Procs : pc[p] = "create" =>
        {o \in KeysOf(objects) : /\ o.id = newid[p]
                                 /\ o.label = NewLabel(Cmd(p))} = acted[p]
-----------------------------------------------------------------------------
(* What holds with and without the lock.                                   *)

(* exec replies in the order of its list, goes on after each Ok, and after *)
(* an Err runs nothing more.                                               *)
BatchStopsAtError ==
    \A p \in Procs :
        /\ Len(status[p]) <= Len(script[p])
        /\ \A i \in 1..Len(status[p]) :
              /\ status[p][i].cmd = script[p][i]
              /\ status[p][i].outcome # "ok" =>
                    i = Len(status[p]) /\ pc[p] = "exit"

(* A generate or import that reports success has made every half asked     *)
(* for, each once, all of one type under the id and label it reports.      *)
SuccessIsWholeKey ==
    \A p \in Procs : \A i \in 1..Len(status[p]) :
        LET r == status[p][i] IN
        r.outcome = "ok" /\ r.cmd \in MakeCommand =>
            /\ {o.class : o \in r.objs} = Halves(r.cmd.form)
            /\ \A o1, o2 \in r.objs :
                  SameName(o1, o2) /\ (o1 # o2 => o1.class # o2.class)
            /\ \A o \in r.objs : /\ o.id \in {r.cmd.id} \cup Nat
                                 /\ o.label = NewLabel(r.cmd)
                                 /\ o.ktype = r.cmd.ktype

(* A successful sign, verify, export or read used one object of the name,  *)
(* class and key type its command gives, even when the token changed       *)
(* between the search and the use.                                         *)
UsesWhatItNames ==
    \A p \in Procs : \A i \in 1..Len(status[p]) :
        LET r == status[p][i] IN
        r.outcome = "ok" /\ r.cmd \in UseCommand =>
            \E o \in r.objs :
                /\ r.objs = {o}
                /\ r.cmd.id \in {NONE, o.id} /\ r.cmd.label \in {NONE, o.label}
                /\ r.cmd.form # "any" =>
                       o.class = r.cmd.form /\ o.ktype = r.cmd.ktype

(* The comment on no_object_exists: `Ok(())` if no objects specified by    *)
(* `id` or `label` exist.                                                  *)
NoneByIdOrLabel ==
    \A p \in Procs : pc[p] = "create" /\ acted[p] = {} =>
        \A o \in objects : /\ Cmd(p).id # NONE => o.id # Cmd(p).id
                           /\ Cmd(p).label # NONE => o.label # Cmd(p).label
-----------------------------------------------------------------------------
(* Every invocation ends, however the lock is contended and whatever       *)
(* processes crash or HSM calls fail; one that waits for the lock gets it. *)
InvocationEnds == \A p \in Procs : pc[p] # "idle" ~> pc[p] = "idle"
-----------------------------------------------------------------------------
(* The inductive invariants behind the theorems of HsmTool_proofs.         *)

(* A process between two HSM calls is inside a command; while it makes a   *)
(* key it has drawn the key's id and has a call left.                      *)
AtCommand ==
    \A p \in Procs :
        /\ pc[p] \in {"create", "loop", "use"} => HasCmd(p)
        /\ pc[p] = "create" =>
              Cmd(p) \in MakeCommand /\ newid[p] # NONE /\ rest[p] # <<>>

TypeInv == TypeOK /\ AtCommand

LockInv == \A p \in Lockers : Running(p) => lock = p

(* Serials and random ids are drawn in turn.                               *)
Fresh ==
    /\ \A o \in objects : o.serial < serial /\ (o.id \in Nat => o.id < serial)
    /\ \A p \in Procs :
          pc[p] = "create" /\ newid[p] \in Nat => newid[p] < serial

(* Nothing of the key is made and all calls are left, or the first of two  *)
(* calls has made its half and the other half is left.                     *)
HalfMade(p) ==
    \/ acted[p] = {} /\ rest[p] = Cmd(p).calls
    \/ \E k, l \in KeyClasses : \E o \in acted[p] :
          /\ Cmd(p).calls = <<{k}, {l}>>
          /\ rest[p] = <<{l}>>
          /\ acted[p] = {o} /\ o.class = k /\ o.ktype = Cmd(p).ktype

HalfWay == \A p \in Procs : pc[p] = "create" => HalfMade(p)

(* Only a key in the making and a loop under way keep a record of objects. *)
Cleared == \A p \in Procs : pc[p] \notin {"create", "loop"} => acted[p] = {}

NameInv == Cleared /\ Fresh /\ HalfWay /\ NameStaysFree /\ NamesOneKey

(* There are no replies before the first command.                          *)
Begun ==
    \A p \in Procs : pc[p] \in {"idle", "lock", "connect"} => status[p] = <<>>

(* A key in the making bears the name its command gives.                   *)
NameGiven(p) ==
    /\ IF Cmd(p).id = NONE THEN newid[p] \in Nat ELSE newid[p] = Cmd(p).id
    /\ \A o \in acted[p] : o.id = newid[p] /\ o.label = NewLabel(Cmd(p))

(* The handle in use is one object that the search of its command selects. *)
OneInHand(p) ==
    /\ Cmd(p) \in UseCommand
    /\ \E o \in todo[p] : todo[p] = {o} /\ Selected({o}, Cmd(p)) = {o}

InHand ==
    \A p \in Procs : /\ pc[p] = "create" => NameGiven(p)
                     /\ pc[p] = "loop" => Cmd(p) \in LoopCommand
                     /\ pc[p] = "use" => OneInHand(p)

WorkInv == Cleared /\ HalfWay /\ Begun /\ InHand

ReplyInv == BatchStopsAtError /\ SuccessIsWholeKey /\ UsesWhatItNames

(* All that a search by the name of a key finds is what its command has    *)
(* made of it, while it is made and until another command follows.         *)
OnlyOwnKey ==
    \A p \in Procs :
        /\ pc[p] = "create" => Matching(objects, Cmd(p)) = acted[p]
        /\ pc[p] \in {"dispatch", "use"} /\ status[p] # <<>> =>
              LET last == status[p][Len(status[p])]
              IN  last.outcome = "ok" /\ last.cmd \in MakeCommand =>
                     Matching(objects, last.cmd) = last.objs
=============================================================================
