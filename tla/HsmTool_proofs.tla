--------------------------- MODULE HsmTool_proofs ---------------------------
(***************************************************************************)
(* Theorems about HsmTool, for every set of processes, ids, labels and     *)
(* command lists: type correctness, mutual exclusion under --lockfile,     *)
(* that a name denotes one key when every invocation takes the lock, what  *)
(* a reply says, and which key a batch uses next.                          *)
(***************************************************************************)
EXTENDS HsmTool, TLAPS

(* What every shape of a make command is like: its calls make the halves   *)
(* its form names, at once or one after the other.                         *)
GoodShape(s) ==
    /\ s.op \in {"generate", "import"} /\ s.ktype \in KeyTypes
    /\ s.form \in {"pair", "secret", "public", "private"}
    /\ \/ s.calls = <<Halves(s.form)>>
       \/ \E k, l \in KeyClasses : /\ s.calls = <<{k}, {l}>>
                                   /\ {k, l} = {"public", "private"}
                                   /\ s.form = "pair"

(* Every generate and import shape is well formed: its calls make the      *)
(* halves it names, in one call or in two.                                 *)
LEMMA MakeShapesGood ==
    ASSUME NEW s \in MakeShapes
    PROVE  GoodShape(s)
<1> USE DEF GoodShape, Shape, Halves, KeyTypes, AsymTypes, SecretTypes, KeyClasses
<1>1. CASE s \in RsaGenerate \cup EcdsaGenerate \cup MldsaGenerate \cup SlhDsaGenerate
  BY <1>1 DEF RsaGenerate, EcdsaGenerate, MldsaGenerate, SlhDsaGenerate, GeneratePair
<1>2. CASE s \in AesGenerate \cup KdfGenerate \cup AesImport \cup KdfImport
  BY <1>2 DEF AesGenerate, KdfGenerate, AesImport, KdfImport
<1>3. ASSUME NEW t \in AsymTypes, s \in ImportHalf(t)
      PROVE  GoodShape(s)
  BY <1>3 DEF ImportHalf
<1>4. ASSUME NEW t \in AsymTypes,
             \/ s = Shape("import", t, "pair", <<{"public"}, {"private"}>>)
             \/ s = Shape("import", t, "pair", <<{"private"}, {"public"}>>)
      PROVE  GoodShape(s)
  BY <1>4
<1> HIDE DEF GoodShape
<1>5. CASE s \in RsaImport \cup EcdsaImport \cup MldsaImport \cup SlhDsaImport
  BY <1>3, <1>4, <1>5 DEF RsaImport, EcdsaImport, MldsaImport, SlhDsaImport
<1> QED BY <1>1, <1>2, <1>5 DEF MakeShapes

(* A command has the fields of its shape.                                  *)
LEMMA MakeFields ==
    ASSUME NEW c \in MakeCommand
    PROVE  /\ c.id \in Ids \cup {NONE}
           /\ c.label \in Labels \cup {NONE}
           /\ GoodShape(c)
           /\ c.ktype \in KeyTypes
           /\ c.op \in {"generate", "import"}
           /\ c.form \in {"pair", "secret", "public", "private"}
<1>1. PICK s \in MakeShapes, i \in Ids \cup {NONE}, l \in Labels \cup {NONE} :
          c = [op |-> s.op, ktype |-> s.ktype, form |-> s.form,
               calls |-> s.calls, id |-> i, label |-> l]
  BY DEF MakeCommand, Named
<1> QED BY <1>1, MakeShapesGood DEF GoodShape

(* The name of a command that makes no key is an id and a label, or lacks  *)
(* either.                                                                 *)
LEMMA OtherFields ==
    ASSUME NEW c \in UseCommand \cup LoopCommand \cup WriteCommand
    PROVE  /\ c.id \in Ids \cup {NONE}
           /\ c.label \in Labels \cup {NONE}
BY DEF UseCommand, LoopCommand, WriteCommand, Named

(* The calls of a make command are one, or two that make the two halves.   *)
LEMMA CallsShape ==
    ASSUME NEW c \in MakeCommand
    PROVE  \/ c.calls = <<Halves(c.form)>>
           \/ \E k, l \in KeyClasses : /\ c.calls = <<{k}, {l}>>
                                       /\ {k, l} = {"public", "private"}
                                       /\ c.form = "pair"
BY MakeFields DEF GoodShape

(* The halves of a make command are classes of keys, and there is one.     *)
LEMMA HalvesType ==
    ASSUME NEW c \in MakeCommand
    PROVE  /\ Halves(c.form) \in SUBSET KeyClasses
           /\ Halves(c.form) # {}
BY MakeFields DEF Halves, KeyClasses

(* The calls of a make command are a nonempty sequence of sets of classes. *)
LEMMA CallsType ==
    ASSUME NEW c \in MakeCommand
    PROVE  c.calls \in Seq(SUBSET KeyClasses) /\ c.calls # <<>>
<1>1. CASE c.calls = <<Halves(c.form)>>
  <2>1. Halves(c.form) \in SUBSET KeyClasses
    BY HalvesType
  <2> QED BY <1>1, <2>1
<1>2. ASSUME NEW k \in KeyClasses, NEW l \in KeyClasses,
             c.calls = <<{k}, {l}>>
      PROVE  c.calls \in Seq(SUBSET KeyClasses) /\ c.calls # <<>>
  <2>1. {k} \in SUBSET KeyClasses /\ {l} \in SUBSET KeyClasses
    OBVIOUS
  <2> QED BY <1>2, <2>1
<1> QED BY <1>1, <1>2, CallsShape

(* The label a new key gets is a label.                                    *)
LEMMA NewLabelType ==
    ASSUME NEW c, c.label \in Labels \cup {NONE}
    PROVE  NewLabel(c) \in Labels
BY TokenAssumption DEF NewLabel
-----------------------------------------------------------------------------
(* The command a process is at is one of the instance's commands.          *)
LEMMA CmdType ==
    ASSUME TypeOK, NEW p \in Procs, HasCmd(p)
    PROVE  Cmd(p) \in Commands /\ Cmd(p) \in Command
<1>1. script[p] \in Seq(Commands)
  <2>1. script[p] \in Scripts \cup {<<>>}
    BY DEF TypeOK
  <2>2. <<>> \in Seq(Commands)
    OBVIOUS
  <2> QED BY <2>1, <2>2, HsmToolAssumption
<1>2. Len(status[p]) + 1 \in 1..Len(script[p])
  BY <1>1 DEF TypeOK, HasCmd
<1> QED BY <1>1, <1>2, TokenAssumption DEF Cmd

(* Returning from a command and leaving the program keep the types.        *)
LEMMA ReturnType ==
    ASSUME TypeOK, NEW p \in Procs, HasCmd(p),
           NEW outcome \in Outcomes, NEW objs \in SUBSET Object,
           Return(p, outcome, objs)
    PROVE  /\ pc' \in [Procs -> PCs]
           /\ status' \in [Procs -> Seq(Reply)]
           /\ newid' \in [Procs -> Ids \cup Nat \cup {NONE}]
           /\ rest' \in [Procs -> Seq(SUBSET KeyClasses)]
           /\ todo' \in [Procs -> SUBSET Object]
           /\ acted' \in [Procs -> SUBSET Object]
           /\ pc'[p] \in {"dispatch", "exit"}
           /\ \A q \in Procs \ {p} : /\ pc'[q] = pc[q]
                                     /\ status'[q] = status[q]
                                     /\ newid'[q] = newid[q]
                                     /\ rest'[q] = rest[q]
                                     /\ todo'[q] = todo[q]
                                     /\ acted'[q] = acted[q]
<1> DEFINE r == [cmd |-> Cmd(p), outcome |-> outcome, objs |-> objs]
<1>1. r \in Reply
  BY CmdType DEF Reply
<1>2. status' = [status EXCEPT ![p] = Append(@, r)]
  BY DEF Return
<1>3. status' \in [Procs -> Seq(Reply)]
  BY <1>1, <1>2 DEF TypeOK
<1>4. /\ pc' = [pc EXCEPT ![p] = IF outcome = "ok" THEN "dispatch" ELSE "exit"]
      /\ newid' = [newid EXCEPT ![p] = NONE]
      /\ rest' = [rest EXCEPT ![p] = <<>>]
      /\ todo' = [todo EXCEPT ![p] = {}]
      /\ acted' = [acted EXCEPT ![p] = {}]
  BY DEF Return, Clear
<1> HIDE DEF r
<1> QED BY <1>2, <1>3, <1>4 DEF TypeOK, PCs

(* Processes other than p keep their place and their command.              *)
LEMMA OthersStay ==
    ASSUME AtCommand, NEW p \in Procs,
           pc'[p] \notin {"create", "loop", "use"},
           \A q \in Procs \ {p} : /\ pc'[q] = pc[q]
                                  /\ status'[q] = status[q]
                                  /\ newid'[q] = newid[q]
                                  /\ rest'[q] = rest[q]
                                  /\ script'[q] = script[q]
    PROVE  AtCommand'
BY DEF AtCommand, HasCmd, Cmd

(* A command that returns keeps the type invariant.                        *)
LEMMA ReturnInv ==
    ASSUME TypeInv, NEW p \in Procs, HasCmd(p),
           NEW outcome \in Outcomes, NEW objs \in SUBSET Object,
           Return(p, outcome, objs), UNCHANGED runVars,
           objects' \in SUBSET Object, serial' \in Nat
    PROVE  TypeInv'
<1>1. TypeOK'
  BY ReturnType DEF TypeInv, TypeOK, runVars
<1>2. AtCommand'
  BY ReturnType, OthersStay DEF TypeInv, runVars
<1> QED BY <1>1, <1>2 DEF TypeInv

(* A process that ends or is killed keeps the type invariant.              *)
LEMMA GoneInv ==
    ASSUME TypeInv, NEW p \in Procs, Gone(p)
    PROVE  TypeInv'
<1>1. TypeOK'
  BY DEF Gone, Clear, Released, TypeInv, TypeOK, PCs, tokenVars
<1>2. AtCommand'
  <2>1. pc'[p] = "idle"
    BY DEF Gone, TypeInv, TypeOK
  <2>2. ASSUME NEW q \in Procs \ {p}
        PROVE  /\ pc'[q] = pc[q] /\ status'[q] = status[q]
               /\ newid'[q] = newid[q] /\ rest'[q] = rest[q]
               /\ script'[q] = script[q]
    BY DEF Gone, Clear, TypeInv, TypeOK
  <2> QED BY <2>1, <2>2, OthersStay DEF TypeInv
<1> QED BY <1>1, <1>2 DEF TypeInv

(* A create call makes key objects.                                        *)
LEMMA CreatedType ==
    ASSUME TypeInv, NEW p \in Procs, pc[p] = "create"
    PROVE  /\ Created(p) \in SUBSET KeyObject
           /\ Head(rest[p]) \in SUBSET KeyClasses
           /\ Tail(rest[p]) \in Seq(SUBSET KeyClasses)
           /\ HasCmd(p)
<1>1. rest[p] \in Seq(SUBSET KeyClasses) /\ rest[p] # <<>>
  BY DEF TypeInv, TypeOK, AtCommand
<1>2. Head(rest[p]) \in SUBSET KeyClasses /\ Tail(rest[p]) \in Seq(SUBSET KeyClasses)
  BY <1>1
<1>3. HasCmd(p) /\ Cmd(p) \in MakeCommand /\ newid[p] \in Ids \cup Nat
  BY DEF TypeInv, TypeOK, AtCommand
<1>4. NewLabel(Cmd(p)) \in Labels /\ Cmd(p).ktype \in KeyTypes
  BY <1>3, MakeFields, NewLabelType
<1>5. serial \in Nat
  BY DEF TypeInv, TypeOK
<1> QED BY <1>2, <1>3, <1>4, <1>5 DEF Created, KeyObject
-----------------------------------------------------------------------------
(* Each action keeps the types.                                            *)
LEMMA MainType ==
    ASSUME TypeInv, NEW p \in Procs, Start(p) \/ AcquireLock(p) \/ Connect(p)
    PROVE  TypeInv'
<1>1. TypeOK'
  <2>1. CASE Start(p)
    BY <2>1, HsmToolAssumption
    DEF Start, TypeInv, TypeOK, PCs, tokenVars, workVars
  <2>2. CASE AcquireLock(p)
    BY <2>2 DEF AcquireLock, TypeInv, TypeOK, PCs, tokenVars, workVars
  <2>3. CASE Connect(p)
    BY <2>3 DEF Connect, TypeInv, TypeOK, PCs, tokenVars, workVars
  <2> QED BY <2>1, <2>2, <2>3
<1>2. /\ pc'[p] \notin {"create", "loop", "use"}
      /\ \A q \in Procs \ {p} : pc'[q] = pc[q] /\ script'[q] = script[q]
      /\ UNCHANGED <<status, newid, rest>>
  BY DEF Start, AcquireLock, Connect, TypeInv, TypeOK, tokenVars, workVars
<1>3. AtCommand'
  BY <1>2, OthersStay DEF TypeInv
<1> QED BY <1>1, <1>3 DEF TypeInv

(* A process that is ready has a command of its script before it.          *)
LEMMA ReadyCmd ==
    ASSUME TypeOK, NEW p \in Procs, Ready(p)
    PROVE  HasCmd(p) /\ Cmd(p) \in Command
BY CmdType DEF Ready

(* A successful check of the name keeps the type invariant.                *)
LEMMA NameIsFreeType ==
    ASSUME TypeInv, NEW p \in Procs, NameIsFree(p)
    PROVE  TypeInv'
<1>1. HasCmd(p) /\ Cmd(p) \in MakeCommand
  BY ReadyCmd DEF NameIsFree, TypeInv
<1>2. Cmd(p).calls \in Seq(SUBSET KeyClasses) /\ Cmd(p).calls # <<>>
  BY <1>1, CallsType
<1>3. /\ serial' \in Nat
      /\ \E x \in Ids \cup Nat : newid' = [newid EXCEPT ![p] = x]
  <2>1. CASE Cmd(p).id = NONE
    BY <2>1 DEF NameIsFree, TypeInv, TypeOK
  <2>2. CASE Cmd(p).id # NONE
    <3>1. Cmd(p).id \in Ids
      BY <1>1, <2>2, MakeFields
    <3> QED BY <2>2, <3>1 DEF NameIsFree, TypeInv, TypeOK
  <2> QED BY <2>1, <2>2
<1>4. newid' \in [Procs -> Ids \cup Nat \cup {NONE}] /\ newid'[p] # NONE
  BY <1>3, TokenAssumption DEF TypeInv, TypeOK
<1>5. TypeOK'
  BY <1>2, <1>3, <1>4 DEF NameIsFree, TypeInv, TypeOK, PCs, runVars
<1>6. AtCommand'
  <2>1. /\ pc'[p] = "create" /\ rest'[p] # <<>>
        /\ UNCHANGED <<script, status>>
        /\ \A q \in Procs \ {p} : /\ pc'[q] = pc[q] /\ newid'[q] = newid[q]
                                  /\ rest'[q] = rest[q]
    BY <1>2 DEF NameIsFree, TypeInv, TypeOK, runVars
  <2> QED BY <1>1, <1>4, <2>1 DEF TypeInv, AtCommand, HasCmd, Cmd
<1> QED BY <1>5, <1>6 DEF TypeInv

(* A create call keeps the type invariant.                                 *)
LEMMA CreateObjectType ==
    ASSUME TypeInv, NEW p \in Procs, CreateObject(p)
    PROVE  TypeInv'
<1>1. /\ Created(p) \in SUBSET Object /\ HasCmd(p)
      /\ acted[p] \in SUBSET Object /\ acted[p] \cup Created(p) \in SUBSET Object
  BY CreatedType DEF CreateObject, Object, TypeInv, TypeOK
<1>2. objects' \in SUBSET Object /\ serial' \in Nat /\ UNCHANGED runVars
  BY <1>1 DEF CreateObject, TypeInv, TypeOK
<1>3. CASE Tail(rest[p]) = <<>>
  <2>1. Return(p, "ok", acted[p] \cup Created(p))
    BY <1>3 DEF CreateObject
  <2> QED BY <1>1, <1>2, <2>1, ReturnInv DEF Outcomes
<1>4. CASE Tail(rest[p]) # <<>>
  <2>1. /\ rest' = [rest EXCEPT ![p] = Tail(@)]
        /\ acted' = [acted EXCEPT ![p] = @ \cup Created(p)]
        /\ UNCHANGED <<pc, status, newid, todo>>
    BY <1>4 DEF CreateObject
  <2>2. Tail(rest[p]) \in Seq(SUBSET KeyClasses)
    BY CreatedType DEF CreateObject
  <2>3. TypeOK'
    BY <1>1, <1>2, <2>1, <2>2 DEF TypeInv, TypeOK, runVars
  <2>4. AtCommand'
    BY <1>2, <1>4, <2>1 DEF TypeInv, TypeOK, AtCommand, HasCmd, Cmd, runVars
  <2> QED BY <2>3, <2>4 DEF TypeInv
<1> QED BY <1>3, <1>4

(* object-write keeps the type invariant.                                  *)
LEMMA WriteObjectType ==
    ASSUME TypeInv, NEW p \in Procs, WriteObject(p)
    PROVE  TypeInv'
<1> DEFINE data == [serial |-> serial, class |-> "data", ktype |-> NONE,
                    id |-> Cmd(p).id, label |-> Cmd(p).label]
<1>1. HasCmd(p) /\ Cmd(p) \in WriteCommand
  BY ReadyCmd DEF WriteObject, TypeInv
<1>2. data \in Object
  BY <1>1, OtherFields DEF TypeInv, TypeOK, Object, DataObject
<1>3. /\ objects' = objects \cup {data} /\ serial' = serial + 1
      /\ Return(p, "ok", {data}) /\ UNCHANGED runVars
  BY DEF WriteObject
<1> HIDE DEF data
<1>4. objects' \in SUBSET Object /\ serial' \in Nat /\ {data} \in SUBSET Object
  BY <1>2, <1>3 DEF TypeInv, TypeOK
<1> QED BY <1>1, <1>3, <1>4, ReturnInv DEF Outcomes

(* What a search finds are objects of the token.                           *)
LEMMA SearchType ==
    ASSUME NEW objs \in SUBSET Object, NEW c
    PROVE  /\ Matching(objs, c) \in SUBSET objs
           /\ Selected(objs, c) \in SUBSET objs
BY DEF Matching, Selected

(* The search of object-destroy and object-show keeps the type invariant.  *)
LEMMA FindAllType ==
    ASSUME TypeInv, NEW p \in Procs, FindAll(p)
    PROVE  TypeInv'
<1>1. HasCmd(p)
  BY ReadyCmd DEF FindAll, TypeInv
<1>2. Matching(objects, Cmd(p)) \in SUBSET Object
  BY SearchType DEF TypeInv, TypeOK
<1>3. TypeOK'
  BY <1>2 DEF FindAll, TypeInv, TypeOK, PCs, tokenVars, runVars
<1>4. AtCommand'
  BY <1>1 DEF FindAll, TypeInv, TypeOK, AtCommand, HasCmd, Cmd, runVars
<1> QED BY <1>3, <1>4 DEF TypeInv

(* Destroying or showing one object keeps the type invariant.              *)
LEMMA VisitObjectType ==
    ASSUME TypeInv, NEW p \in Procs, VisitObject(p)
    PROVE  TypeInv'
<1>1. PICK o \in todo[p] \cap objects :
          /\ objects' = IF Cmd(p).op = "destroy" THEN objects \ {o} ELSE objects
          /\ todo' = [todo EXCEPT ![p] = @ \ {o}]
          /\ acted' = [acted EXCEPT ![p] = @ \cup {o}]
  BY DEF VisitObject
<1>2. UNCHANGED <<serial, runVars, pc, status, newid, rest>>
  BY DEF VisitObject
<1>3. TypeOK'
  BY <1>1, <1>2 DEF TypeInv, TypeOK, runVars
<1>4. AtCommand'
  BY <1>2 DEF TypeInv, AtCommand, HasCmd, Cmd, runVars
<1> QED BY <1>3, <1>4 DEF TypeInv

(* The search for one object keeps the type invariant.                     *)
LEMMA FindOneType ==
    ASSUME TypeInv, NEW p \in Procs, FindOne(p)
    PROVE  TypeInv'
<1> DEFINE found == Selected(objects, Cmd(p))
<1>1. HasCmd(p) /\ UNCHANGED <<tokenVars, runVars>>
  BY ReadyCmd DEF FindOne, TypeInv
<1>2. objects' \in SUBSET Object /\ serial' \in Nat
  BY <1>1 DEF TypeInv, TypeOK, tokenVars
<1>3. CASE \E outcome \in {"ObjectNotFound", "TooManyObjects"} :
              Return(p, outcome, {})
  BY <1>1, <1>2, <1>3, ReturnInv DEF Outcomes
<1>4. CASE /\ todo' = [todo EXCEPT ![p] = found]
           /\ pc' = [pc EXCEPT ![p] = "use"]
           /\ UNCHANGED <<status, newid, rest, acted>>
  <2>1. found \in SUBSET Object
    BY SearchType DEF TypeInv, TypeOK
  <2>2. TypeOK'
    BY <1>1, <1>4, <2>1 DEF TypeInv, TypeOK, PCs, tokenVars, runVars
  <2>3. AtCommand'
    BY <1>1, <1>4 DEF TypeInv, TypeOK, AtCommand, HasCmd, Cmd, runVars
  <2> QED BY <2>2, <2>3 DEF TypeInv
<1> QED BY <1>3, <1>4 DEF FindOne

(* The actions that only return.                                           *)
LEMMA ReturnsType ==
    ASSUME TypeInv, NEW p \in Procs,
           \/ Refuse(p) \/ NameIsTaken(p) \/ EndLoop(p) \/ UseObject(p)
           \/ HandleInvalid(p) \/ CallFails(p) \/ AnswerLost(p)
    PROVE  TypeInv'
<1>1. HasCmd(p)
  BY ReadyCmd DEF Refuse, NameIsTaken, EndLoop, UseObject, HandleInvalid,
                  CallFails, AnswerLost, TypeInv, AtCommand
<1>2. objects' \in SUBSET Object /\ serial' \in Nat /\ UNCHANGED runVars
  <2>1. CASE AnswerLost(p)
    BY <2>1, CreatedType DEF AnswerLost, TypeInv, TypeOK, Object
  <2>2. CASE ~AnswerLost(p)
    BY <2>2 DEF Refuse, NameIsTaken, EndLoop, UseObject, HandleInvalid,
                CallFails, TypeInv, TypeOK, tokenVars
  <2> QED BY <2>1, <2>2
<1>3. \E outcome \in Outcomes, objs \in SUBSET Object : Return(p, outcome, objs)
  <2>1. {} \in SUBSET Object /\ todo[p] \in SUBSET Object /\ acted[p] \in SUBSET Object
    BY DEF TypeInv, TypeOK
  <2>2. CASE Refuse(p) \/ NameIsTaken(p) \/ HandleInvalid(p) \/ CallFails(p)
             \/ AnswerLost(p)
    BY <2>1, <2>2 DEF Refuse, NameIsTaken, HandleInvalid, CallFails,
                      AnswerLost, Outcomes
  <2>3. CASE EndLoop(p) \/ UseObject(p)
    BY <2>1, <2>3 DEF EndLoop, UseObject, Outcomes
  <2> QED BY <2>2, <2>3
<1> QED BY <1>1, <1>2, <1>3, ReturnInv
-----------------------------------------------------------------------------
(* The type invariant holds when no invocation has started.                *)
LEMMA TypeInit == Init => TypeInv
<1> SUFFICES ASSUME Init PROVE TypeInv
  OBVIOUS
<1>1. TypeOK
  BY HsmToolAssumption DEF Init, TypeOK, PCs
<1>2. AtCommand
  BY DEF Init, AtCommand
<1> QED BY <1>1, <1>2 DEF TypeInv

(* Every step keeps the type invariant.                                    *)
LEMMA TypeNext == TypeInv /\ [Next]_vars => TypeInv'
<1> SUFFICES ASSUME TypeInv, [Next]_vars PROVE TypeInv'
  OBVIOUS
<1>1. CASE UNCHANGED vars
  BY <1>1 DEF vars, tokenVars, runVars, workVars, TypeInv, TypeOK, AtCommand,
              HasCmd, Cmd
<1>2. ASSUME NEW p \in Procs, Start(p) \/ AcquireLock(p) \/ Step(p) \/ Crash(p)
      PROVE  TypeInv'
  <2>1. CASE Start(p) \/ AcquireLock(p) \/ Connect(p)
    BY <2>1, MainType
  <2>2. CASE Leave(p) \/ Exit(p) \/ Crash(p)
    BY <2>2, GoneInv DEF Leave, Exit, Crash
  <2>3. CASE NameIsFree(p) \/ CreateObject(p) \/ WriteObject(p)
    BY <2>3, NameIsFreeType, CreateObjectType, WriteObjectType
  <2>4. CASE FindAll(p) \/ VisitObject(p) \/ FindOne(p)
    BY <2>4, FindAllType, VisitObjectType, FindOneType
  <2>5. CASE \/ Refuse(p) \/ NameIsTaken(p) \/ EndLoop(p) \/ UseObject(p)
             \/ HandleInvalid(p) \/ CallFails(p) \/ AnswerLost(p)
    BY <2>5, ReturnsType
  <2> QED BY <1>2, <2>1, <2>2, <2>3, <2>4, <2>5 DEF Step, Inside
<1> QED BY <1>1, <1>2 DEF Next

(* Every variable keeps its type, and a process between two HSM calls is   *)
(* inside a command of its list with the data that command needs.          *)
THEOREM TypeCorrect == Spec => []TypeInv
<1> QED BY TypeInit, TypeNext, PTL DEF Spec

(* Every reachable state has its type, for every value of the constants.   *)
THEOREM TypesHold == Spec => []TypeOK
<1>1. TypeInv => TypeOK
  BY DEF TypeInv
<1> QED BY <1>1, TypeCorrect, PTL
-----------------------------------------------------------------------------
(* A step inside a command is taken by a running process, does not touch   *)
(* the lock or the invocation, and moves no other process.                 *)
LEMMA InsideFrame ==
    ASSUME TypeOK, NEW p \in Procs, Inside(p)
    PROVE  /\ pc[p] \in {"dispatch", "create", "loop", "use"}
           /\ UNCHANGED runVars
           /\ \A q \in Procs \ {p} :
                 /\ pc'[q] = pc[q] /\ status'[q] = status[q]
                 /\ newid'[q] = newid[q] /\ rest'[q] = rest[q]
                 /\ todo'[q] = todo[q] /\ acted'[q] = acted[q]
<1>1. /\ pc[p] \in {"dispatch", "create", "loop", "use"} /\ UNCHANGED runVars
  BY DEF Inside, Refuse, Ready, NameIsFree, NameIsTaken, CreateObject,
         WriteObject, FindAll, VisitObject, EndLoop, FindOne, UseObject,
         HandleInvalid, CallFails, AnswerLost
<1>2. ASSUME NEW q \in Procs \ {p}
      PROVE  /\ pc'[q] = pc[q] /\ status'[q] = status[q]
             /\ newid'[q] = newid[q] /\ rest'[q] = rest[q]
             /\ todo'[q] = todo[q] /\ acted'[q] = acted[q]
  <2>1. ASSUME NEW outcome, NEW objs, Return(p, outcome, objs)
        PROVE  /\ pc'[q] = pc[q] /\ status'[q] = status[q]
               /\ newid'[q] = newid[q] /\ rest'[q] = rest[q]
               /\ todo'[q] = todo[q] /\ acted'[q] = acted[q]
    BY <2>1 DEF Return, Clear, TypeOK
  <2>2. CASE \/ Refuse(p) \/ NameIsTaken(p) \/ WriteObject(p) \/ EndLoop(p)
             \/ UseObject(p) \/ HandleInvalid(p) \/ CallFails(p)
             \/ AnswerLost(p)
    BY <2>1, <2>2 DEF Refuse, NameIsTaken, WriteObject, EndLoop, UseObject,
                      HandleInvalid, CallFails, AnswerLost
  <2>3. CASE NameIsFree(p)
    BY <2>3 DEF NameIsFree, TypeOK
  <2>4. CASE CreateObject(p)
    BY <2>1, <2>4 DEF CreateObject, TypeOK
  <2>5. CASE FindAll(p) \/ VisitObject(p)
    BY <2>5 DEF FindAll, VisitObject, TypeOK
  <2>6. CASE FindOne(p)
    BY <2>1, <2>6 DEF FindOne, TypeOK
  <2> QED BY <2>2, <2>3, <2>4, <2>5, <2>6 DEF Inside
<1> QED BY <1>1, <1>2

(* Next, with the steps inside a command taken together.                   *)
LEMMA NextCases ==
    ASSUME Next
    PROVE  \E p \in Procs :
              \/ Start(p) \/ AcquireLock(p) \/ Connect(p) \/ Gone(p)
              \/ Inside(p)
BY DEF Next, Step, Leave, Exit, Crash

(* Every step keeps the lock with the process that runs under it.          *)
LEMMA LockNext == TypeOK /\ LockInv /\ [Next]_vars => LockInv'
<1> SUFFICES ASSUME TypeOK, LockInv, [Next]_vars PROVE LockInv'
  OBVIOUS
<1>1. CASE UNCHANGED vars
  BY <1>1 DEF vars, runVars, LockInv, Running
<1>2. CASE Next
  <2> PICK p \in Procs : \/ Start(p) \/ AcquireLock(p) \/ Connect(p)
                         \/ Gone(p) \/ Inside(p)
    BY <1>2, NextCases
  <2>1. CASE Start(p)
    BY <2>1 DEF Start, TypeOK, LockInv, Running
  <2>2. CASE AcquireLock(p)
    <3>1. \A q \in Lockers : ~Running(q)
      BY <2>2, HsmToolAssumption DEF AcquireLock, LockInv
    <3> QED BY <2>2, <3>1 DEF AcquireLock, TypeOK, LockInv, Running
  <2>3. CASE Connect(p)
    BY <2>3 DEF Connect, TypeOK, LockInv, Running
  <2>4. CASE Gone(p)
    BY <2>4 DEF Gone, Released, TypeOK, LockInv, Running
  <2>5. CASE Inside(p)
    BY <2>5, InsideFrame, HsmToolAssumption DEF LockInv, Running, runVars
  <2> QED BY <2>1, <2>2, <2>3, <2>4, <2>5
<1> QED BY <1>1, <1>2

(* flock keeps invocations that name the lock file apart, whether or not   *)
(* the others do: a process runs only as the holder of the lock.           *)
THEOREM LockHeld == Spec => []LockInv
<1>1. Init => LockInv
  BY HsmToolAssumption DEF Init, LockInv, Running
<1> QED BY <1>1, TypesHold, LockNext, PTL DEF Spec

(* Two invocations that pass --lockfile never both run, whatever processes *)
(* that do not pass it do, and whoever fails or is killed.                 *)
THEOREM Exclusion == Spec => []MutualExclusion
<1>1. LockInv => MutualExclusion
  BY HsmToolAssumption DEF LockInv, MutualExclusion
<1> QED BY <1>1, LockHeld, PTL
-----------------------------------------------------------------------------
(* With the lock taken by all, a process that runs runs alone.             *)
LEMMA Alone ==
    ASSUME AllLock, LockInv, NEW p \in Procs, Running(p)
    PROVE  \A q \in Procs \ {p} : ~Running(q)
BY DEF AllLock, LockInv

(* The name chosen after the check is borne by no key object.              *)
LEMMA ChosenNameIsFree ==
    ASSUME TypeInv, Fresh, NEW p \in Procs, NameIsFree(p)
    PROVE  /\ \A o \in KeysOf(objects) :
                 ~(o.id = newid'[p] /\ o.label = NewLabel(Cmd(p)))
           /\ newid'[p] \in Nat => newid'[p] < serial'
           /\ serial' \in Nat /\ serial <= serial'
<1> DEFINE c == Cmd(p)
<1>1. c \in MakeCommand /\ ~NoCriteria(c)
  BY DEF NameIsFree, Ready
<1>2. \A o \in objects : ~(/\ c.id # NONE => o.id = c.id
                           /\ c.label # NONE => o.label = c.label)
  BY DEF NameIsFree, Taken, Matching
<1>3. serial \in Nat /\ newid \in [Procs -> Ids \cup Nat \cup {NONE}]
  BY DEF TypeInv, TypeOK
<1>4. CASE c.id = NONE
  <2>1. newid'[p] = serial /\ serial' = serial + 1
    BY <1>3, <1>4 DEF NameIsFree
  <2>2. \A o \in objects : o.id # serial
    BY <1>3 DEF Fresh
  <2> QED BY <1>3, <2>1, <2>2 DEF KeysOf
<1>5. CASE c.id # NONE
  <2>1. newid'[p] = c.id /\ serial' = serial
    BY <1>3, <1>5 DEF NameIsFree
  <2>2. c.id \notin Nat
    BY <1>1, <1>5, MakeFields, TokenAssumption
  <2>3. \A o \in objects : ~(o.id = c.id /\ o.label = NewLabel(c))
    BY <1>2, <1>5 DEF NewLabel
  <2> QED BY <1>3, <2>1, <2>2, <2>3 DEF KeysOf
<1> QED BY <1>4, <1>5

(* A create call makes the one key its command names, or the half of it    *)
(* that is missing: names still denote one key.                            *)
LEMMA CreateKeepsNames ==
    ASSUME TypeInv, NameInv, NEW p \in Procs, pc[p] = "create",
           objects' = objects \cup Created(p), serial' = serial + 1
    PROVE  /\ NamesOneKey'
           /\ \A o \in objects' : /\ o.serial < serial'
                                  /\ o.id \in Nat => o.id < serial'
<1> DEFINE c == Cmd(p)
           C == Created(p)
<1>1. c \in MakeCommand /\ serial \in Nat /\ C \in SUBSET KeyObject
  BY CreatedType DEF TypeInv, TypeOK, AtCommand
<1>2. \A o \in C : /\ o.serial = serial /\ o.id = newid[p]
                   /\ o.label = NewLabel(c) /\ o.ktype = c.ktype
                   /\ o.class \in Head(rest[p])
  BY DEF Created
<1>3. \A o1, o2 \in C : o1.class = o2.class => o1 = o2
  BY DEF Created
<1>4. \/ acted[p] = {} /\ rest[p] = c.calls
      \/ \E k, l \in KeyClasses : \E o \in acted[p] :
            /\ c.calls = <<{k}, {l}>> /\ rest[p] = <<{l}>>
            /\ acted[p] = {o} /\ o.class = k /\ o.ktype = c.ktype
  BY DEF NameInv, HalfWay, HalfMade
<1>5. ASSUME NEW o1 \in C, NEW o2 \in C, o1 # o2
      PROVE  Halved(o1, o2)
  <2>1. o1.class # o2.class /\ o1.class \in Head(rest[p]) /\ o2.class \in Head(rest[p])
    BY <1>2, <1>3, <1>5
  <2>2. rest[p] = <<Halves(c.form)>>
    <3>1. CASE \E l : rest[p] = <<{l}>>
      BY <2>1, <3>1
    <3>2. CASE rest[p] = c.calls
      <4>1. ASSUME NEW k, NEW l, c.calls = <<{k}, {l}>>
            PROVE  FALSE
        BY <2>1, <3>2, <4>1
      <4> QED BY <1>1, <3>2, <4>1, CallsShape
    <3> QED BY <1>4, <3>1, <3>2
  <2>3. {o1.class, o2.class} = {"public", "private"}
    BY <2>1, <2>2 DEF Halves
  <2> QED BY <1>2, <2>3 DEF Halved
<1>6. ASSUME NEW o1 \in C, NEW o2 \in KeysOf(objects), SameName(o1, o2)
      PROVE  Halved(o1, o2) /\ Halved(o2, o1)
  <2>1. o2 \in acted[p]
    BY <1>2, <1>6 DEF SameName, NameInv, NameStaysFree
  <2>2. PICK k \in KeyClasses, l \in KeyClasses :
            /\ c.calls = <<{k}, {l}>> /\ rest[p] = <<{l}>>
            /\ o2.class = k /\ o2.ktype = c.ktype
    BY <1>4, <2>1
  <2>3. o1.class = l
    BY <1>2, <2>2
  <2>4. {k, l} = {"public", "private"}
    <3>1. c.calls # <<Halves(c.form)>>
      BY <2>2
    <3>2. PICK k1 \in KeyClasses, l1 \in KeyClasses :
              c.calls = <<{k1}, {l1}>> /\ {k1, l1} = {"public", "private"}
      BY <1>1, <3>1, CallsShape
    <3>3. {k1} = {k} /\ {l1} = {l}
      BY <2>2, <3>2
    <3> QED BY <3>2, <3>3
  <2> QED BY <1>2, <2>2, <2>3, <2>4 DEF Halved
<1>7. NamesOneKey'
  <2> SUFFICES ASSUME NEW o1 \in KeysOf(objects'), NEW o2 \in KeysOf(objects'),
                      o1 # o2, SameName(o1, o2)
               PROVE  Halved(o1, o2)
    BY DEF NamesOneKey
  <2>1. /\ o1 \in C \/ o1 \in KeysOf(objects)
        /\ o2 \in C \/ o2 \in KeysOf(objects)
    BY DEF KeysOf
  <2>2. CASE o1 \in KeysOf(objects) /\ o2 \in KeysOf(objects)
    BY <2>2 DEF NameInv, NamesOneKey
  <2> QED BY <1>5, <1>6, <2>1, <2>2 DEF SameName
<1>8. \A o \in objects' : /\ o.serial < serial'
                          /\ o.id \in Nat => o.id < serial'
  <2>1. \A o \in objects : /\ o.serial \in Nat /\ o.serial < serial
                           /\ o.id \in Nat => o.id < serial
    BY DEF NameInv, Fresh, TypeInv, TypeOK, Object, KeyObject, DataObject
  <2>2. newid[p] \in Nat => newid[p] < serial
    BY DEF NameInv, Fresh
  <2> QED BY <1>1, <1>2, <2>1, <2>2
<1> QED BY <1>7, <1>8

(* Leaving objects and serial alone, or taking objects away, keeps what is *)
(* known of names and serials.                                             *)
LEMMA FewerObjects ==
    ASSUME TypeInv, NameInv, objects' \subseteq objects, UNCHANGED serial
    PROVE  /\ NamesOneKey'
           /\ \A o \in objects' : /\ o.serial < serial'
                                  /\ o.id \in Nat => o.id < serial'
BY DEF NameInv, NamesOneKey, KeysOf, Fresh

(* When nobody is making a key after the step, the rest follows from the   *)
(* objects.                                                                *)
LEMMA NobodyCreates ==
    ASSUME NamesOneKey', Cleared',
           \A o \in objects' : /\ o.serial < serial'
                               /\ o.id \in Nat => o.id < serial',
           \A q \in Procs : pc'[q] # "create"
    PROVE  NameInv'
BY DEF NameInv, Fresh, HalfWay, NameStaysFree

(* Steps that touch neither the token nor a running command.               *)
LEMMA NameOutside ==
    ASSUME TypeInv, NameInv, NEW p \in Procs,
           Start(p) \/ AcquireLock(p) \/ Connect(p) \/ Gone(p)
    PROVE  NameInv'
<1>1. UNCHANGED tokenVars
  BY DEF Start, AcquireLock, Connect, Gone
<1>2. pc'[p] \notin {"create", "loop"} /\ acted'[p] = {}
  <2>1. CASE Gone(p)
    BY <2>1 DEF Gone, Clear, TypeInv, TypeOK
  <2>2. CASE Start(p) \/ AcquireLock(p) \/ Connect(p)
    BY <2>2 DEF Start, AcquireLock, Connect, workVars, TypeInv, TypeOK,
                NameInv, Cleared
  <2> QED BY <2>1, <2>2
<1>3. \A q \in Procs \ {p} :
         /\ pc'[q] = pc[q] /\ script'[q] = script[q] /\ status'[q] = status[q]
         /\ newid'[q] = newid[q] /\ rest'[q] = rest[q] /\ acted'[q] = acted[q]
  <2>1. CASE Gone(p)
    BY <2>1 DEF Gone, Clear, TypeInv, TypeOK
  <2>2. CASE Start(p) \/ AcquireLock(p) \/ Connect(p)
    BY <2>2 DEF Start, AcquireLock, Connect, workVars, TypeInv, TypeOK
  <2> QED BY <2>1, <2>2
<1>4. NamesOneKey'
  BY <1>1 DEF NameInv, NamesOneKey, tokenVars
<1>5. Cleared'
  BY <1>2, <1>3 DEF NameInv, Cleared
<1>6. Fresh'
  BY <1>1, <1>2, <1>3 DEF NameInv, Fresh, tokenVars
<1>7. HalfWay'
  <2>1. ASSUME NEW q \in Procs, pc'[q] = "create"
        PROVE  /\ pc[q] = "create" /\ Cmd(q)' = Cmd(q)
               /\ rest'[q] = rest[q] /\ acted'[q] = acted[q]
    BY <1>2, <1>3, <2>1 DEF Cmd
  <2>2. ASSUME NEW q \in Procs, HalfMade(q), Cmd(q)' = Cmd(q),
               rest'[q] = rest[q], acted'[q] = acted[q]
        PROVE  HalfMade(q)'
    BY <2>2 DEF HalfMade
  <2> QED BY <2>1, <2>2 DEF NameInv, HalfWay
<1>8. NameStaysFree'
  BY <1>1, <1>2, <1>3 DEF NameInv, NameStaysFree, Cmd, tokenVars
<1> QED BY <1>4, <1>5, <1>6, <1>7, <1>8 DEF NameInv

(* A step inside a command keeps NameInv: nobody else is inside one.       *)
LEMMA NameInside ==
    ASSUME AllLock, TypeInv, LockInv, NameInv, NEW p \in Procs, Inside(p)
    PROVE  NameInv'
<1>1. \A q \in Procs \ {p} : /\ ~Running(q) /\ pc'[q] = pc[q]
                             /\ pc'[q] \notin {"create", "loop"}
                             /\ acted'[q] = {}
  <2>1. Running(p)
    BY InsideFrame DEF TypeInv, Running
  <2>2. \A q \in Procs \ {p} : ~Running(q) /\ pc'[q] = pc[q] /\ acted'[q] = acted[q]
    BY <2>1, Alone, InsideFrame DEF TypeInv
  <2> QED BY <2>2 DEF Running, NameInv, Cleared
<1>2. ASSUME NEW outcome, NEW objs, Return(p, outcome, objs)
      PROVE  pc'[p] \in {"dispatch", "exit"} /\ acted'[p] = {}
  BY <1>2 DEF Return, Clear, TypeInv, TypeOK
<1>3. UNCHANGED runVars
  BY InsideFrame DEF TypeInv
<1>4. ASSUME pc'[p] \notin {"create", "loop"}, acted'[p] = {}
      PROVE  Cleared' /\ \A q \in Procs : pc'[q] # "create"
  BY <1>1, <1>4 DEF Cleared
<1>5. CASE NameIsFree(p)
  <2>1. /\ pc[p] = "dispatch" /\ pc'[p] = "create" /\ UNCHANGED <<objects, status, acted>>
        /\ rest'[p] = Cmd(p).calls /\ acted[p] = {}
    BY <1>5 DEF NameIsFree, Ready, TypeInv, TypeOK, NameInv, Cleared
  <2>2. Cmd(p)' = Cmd(p)
    BY <1>3, <2>1 DEF Cmd, runVars
  <2>3. NamesOneKey' /\ Cleared'
    BY <1>1, <2>1 DEF NameInv, NamesOneKey, Cleared
  <2>4. Fresh'
    <3>1. \A o \in objects : /\ o.serial \in Nat /\ o.serial < serial
                             /\ o.id \in Nat => o.id < serial
      BY DEF NameInv, Fresh, TypeInv, TypeOK, Object, KeyObject, DataObject
    <3>2. serial \in Nat /\ serial' \in Nat /\ serial <= serial'
      BY <1>5, ChosenNameIsFree DEF NameInv, TypeInv, TypeOK
    <3>3. \A q \in Procs : pc'[q] = "create" => q = p
      BY <1>1
    <3>4. newid'[p] \in Nat => newid'[p] < serial'
      BY <1>5, ChosenNameIsFree DEF NameInv
    <3>5. \A o \in objects' : o.serial < serial' /\ (o.id \in Nat => o.id < serial')
      BY <2>1, <3>1, <3>2
    <3> QED BY <3>3, <3>4, <3>5 DEF Fresh
  <2>5. HalfWay'
    BY <1>1, <2>1, <2>2 DEF HalfWay, HalfMade
  <2>6. NameStaysFree'
    BY <1>1, <1>5, <2>1, <2>2, ChosenNameIsFree DEF NameInv, NameStaysFree, KeysOf
  <2> QED BY <2>3, <2>4, <2>5, <2>6 DEF NameInv
<1>6. CASE CreateObject(p)
  <2>1. NamesOneKey' /\ \A o \in objects' : /\ o.serial < serial'
                                            /\ o.id \in Nat => o.id < serial'
    BY <1>6, CreateKeepsNames DEF CreateObject
  <2>2. CASE Tail(rest[p]) = <<>>
    <3>1. pc'[p] \in {"dispatch", "exit"} /\ acted'[p] = {}
      BY <1>2, <1>6, <2>2 DEF CreateObject
    <3> QED BY <1>4, <2>1, <3>1, NobodyCreates
  <2>3. CASE Tail(rest[p]) # <<>>
    <3>1. /\ pc[p] = "create" /\ UNCHANGED <<pc, status, newid>>
          /\ rest'[p] = Tail(rest[p]) /\ acted'[p] = acted[p] \cup Created(p)
          /\ objects' = objects \cup Created(p) /\ serial' = serial + 1
      BY <1>6, <2>3 DEF CreateObject, TypeInv, TypeOK
    <3>2. Cmd(p)' = Cmd(p) /\ Cmd(p) \in MakeCommand
      BY <1>3, <3>1 DEF Cmd, runVars, TypeInv, AtCommand
    <3>3. acted[p] = {} /\ rest[p] = Cmd(p).calls
      <4>1. ASSUME NEW l, rest[p] = <<{l}>> PROVE FALSE
        BY <2>3, <4>1
      <4> QED BY <3>1, <4>1 DEF NameInv, HalfWay, HalfMade
    <3>4. PICK k \in KeyClasses, l \in KeyClasses : Cmd(p).calls = <<{k}, {l}>>
      <4>1. ASSUME NEW k, rest[p] = <<k>> PROVE FALSE
        <5>1. Tail(<<k>>) = <<>>
          OBVIOUS
        <5> QED BY <2>3, <4>1, <5>1
      <4> QED BY <3>2, <3>3, <4>1, CallsShape
    <3>5. Head(rest[p]) = {k} /\ rest'[p] = <<{l}>>
      BY <3>1, <3>3, <3>4
    <3> DEFINE o == [serial |-> serial, class |-> k, ktype |-> Cmd(p).ktype,
                     id |-> newid[p], label |-> NewLabel(Cmd(p))]
    <3>6. Created(p) = {o} /\ o.class = k /\ o.ktype = Cmd(p).ktype
      BY <3>5 DEF Created
    <3>7. acted'[p] = {o} /\ acted[p] \cup Created(p) = {o}
      BY <3>1, <3>3, <3>6
    <3>8. o.id = newid[p] /\ o.label = NewLabel(Cmd(p))
      OBVIOUS
    <3> HIDE DEF o
    <3>9. HalfWay'
      BY <1>1, <3>2, <3>4, <3>5, <3>6, <3>7 DEF HalfWay, HalfMade
    <3>10. NameStaysFree'
      BY <1>1, <3>1, <3>2, <3>4, <3>6, <3>7, <3>8
      DEF NameInv, NameStaysFree, KeysOf
    <3>11. Cleared'
      BY <1>1, <3>1 DEF Cleared
    <3>12. Fresh'
      <4>1. newid'[p] \in Nat => newid'[p] < serial'
        BY <3>1 DEF NameInv, Fresh, TypeInv, TypeOK
      <4> QED BY <1>1, <2>1, <4>1 DEF Fresh
    <3> QED BY <2>1, <3>9, <3>10, <3>11, <3>12 DEF NameInv
  <2> QED BY <2>2, <2>3
<1>7. CASE WriteObject(p)
  <2>1. HasCmd(p) /\ Cmd(p) \in WriteCommand
    BY <1>7, ReadyCmd DEF WriteObject, TypeInv
  <2>2. Cmd(p).id \notin Nat
    BY <2>1, OtherFields, TokenAssumption
  <2>3. PICK d : /\ objects' = objects \cup {d} /\ serial' = serial + 1
                 /\ d.class = "data" /\ d.serial = serial /\ d.id = Cmd(p).id
    <3> DEFINE data == [serial |-> serial, class |-> "data", ktype |-> NONE,
                        id |-> Cmd(p).id, label |-> Cmd(p).label]
    <3>1. objects' = objects \cup {data} /\ serial' = serial + 1
      BY <1>7 DEF WriteObject
    <3>2. data.class = "data" /\ data.serial = serial /\ data.id = Cmd(p).id
      OBVIOUS
    <3> QED BY <3>1, <3>2
  <2>4. NamesOneKey'
    <3>1. KeysOf(objects') = KeysOf(objects)
      BY <2>3 DEF KeysOf, KeyClasses
    <3> QED BY <3>1 DEF NameInv, NamesOneKey
  <2>5. \A o \in objects' : o.serial < serial' /\ (o.id \in Nat => o.id < serial')
    <3>1. \A o \in objects : /\ o.serial \in Nat /\ o.serial < serial
                             /\ o.id \in Nat => o.id < serial
      BY DEF NameInv, Fresh, TypeInv, TypeOK, Object, KeyObject, DataObject
    <3>2. serial \in Nat
      BY DEF TypeInv, TypeOK
    <3> QED BY <2>2, <2>3, <3>1, <3>2
  <2>6. pc'[p] \in {"dispatch", "exit"} /\ acted'[p] = {}
    BY <1>2, <1>7 DEF WriteObject
  <2> QED BY <1>4, <2>4, <2>5, <2>6, NobodyCreates
<1>8. CASE FindAll(p) \/ VisitObject(p)
  <2>1. objects' \subseteq objects /\ UNCHANGED serial /\ pc'[p] = "loop"
    BY <1>8 DEF FindAll, VisitObject, tokenVars, TypeInv, TypeOK
  <2>2. Cleared' /\ \A q \in Procs : pc'[q] # "create"
    BY <1>1, <2>1 DEF Cleared
  <2> QED BY <2>1, <2>2, FewerObjects, NobodyCreates
<1>9. CASE FindOne(p)
  <2>1. UNCHANGED tokenVars
    BY <1>9 DEF FindOne
  <2>2. pc'[p] \notin {"create", "loop"} /\ acted'[p] = {}
    <3>1. CASE \E outcome : Return(p, outcome, {})
      BY <1>2, <3>1
    <3>2. CASE pc' = [pc EXCEPT ![p] = "use"] /\ UNCHANGED acted
      BY <1>9, <3>2 DEF FindOne, Ready, TypeInv, TypeOK, NameInv, Cleared
    <3> QED BY <1>9, <3>1, <3>2 DEF FindOne
  <2> QED BY <1>4, <2>1, <2>2, FewerObjects, NobodyCreates DEF tokenVars
<1>10. CASE \/ Refuse(p) \/ NameIsTaken(p) \/ EndLoop(p) \/ UseObject(p)
            \/ HandleInvalid(p) \/ CallFails(p) \/ AnswerLost(p)
  <2>1. pc'[p] \in {"dispatch", "exit"} /\ acted'[p] = {}
    BY <1>2, <1>10 DEF Refuse, NameIsTaken, EndLoop, UseObject, HandleInvalid,
                       CallFails, AnswerLost
  <2>2. NamesOneKey' /\ \A o \in objects' : /\ o.serial < serial'
                                            /\ o.id \in Nat => o.id < serial'
    <3>1. CASE objects' \subseteq objects /\ UNCHANGED serial
      BY <3>1, FewerObjects
    <3>2. CASE /\ pc[p] = "create" /\ objects' = objects \cup Created(p)
               /\ serial' = serial + 1
      BY <3>2, CreateKeepsNames
    <3> QED BY <1>10, <3>1, <3>2 DEF Refuse, NameIsTaken, EndLoop, UseObject,
              HandleInvalid, CallFails, AnswerLost, tokenVars
  <2> QED BY <1>4, <2>1, <2>2, NobodyCreates
<1> QED BY <1>5, <1>6, <1>7, <1>8, <1>9, <1>10 DEF Inside

(* Every step keeps NameInv.                                               *)
LEMMA NameNext ==
    ASSUME AllLock
    PROVE  TypeInv /\ LockInv /\ NameInv /\ [Next]_vars => NameInv'
<1> SUFFICES ASSUME TypeInv, LockInv, NameInv, [Next]_vars PROVE NameInv'
  OBVIOUS
<1>1. CASE UNCHANGED vars
  <2>1. /\ UNCHANGED <<objects, serial, pc, script, status, newid, rest, acted>>
        /\ \A q \in Procs : Cmd(q)' = Cmd(q)
    BY <1>1 DEF vars, tokenVars, runVars, workVars, Cmd
  <2>2. Cleared' /\ Fresh' /\ NamesOneKey'
    BY <2>1 DEF NameInv, Cleared, Fresh, NamesOneKey
  <2>3. HalfWay'
    BY <2>1 DEF NameInv, HalfWay, HalfMade
  <2>4. NameStaysFree'
    BY <2>1 DEF NameInv, NameStaysFree
  <2> QED BY <2>2, <2>3, <2>4 DEF NameInv
<1>2. CASE Next
  BY <1>2, NextCases, NameOutside, NameInside
<1> QED BY <1>1, <1>2

(* The inductive invariant behind the two theorems that follow it: if      *)
(* every invocation passes --lockfile, the token and the commands under    *)
(* way agree on what each name stands for.                                 *)
THEOREM NamesSafe == ASSUME AllLock PROVE Spec => []NameInv
<1>1. Init => NameInv
  BY DEF Init, NameInv, Cleared, Fresh, HalfWay, NameStaysFree, NamesOneKey, KeysOf
<1>2. TypeInv /\ LockInv /\ NameInv /\ [Next]_vars => NameInv'
  BY NameNext
<1> QED BY <1>1, <1>2, TypeCorrect, LockHeld, PTL DEF Spec

(* If every invocation passes --lockfile, what no_object_exists checked    *)
(* still holds at every later create call of generate and import: nobody   *)
(* else has made a key under the name since.                               *)
THEOREM NameHeldFree == ASSUME AllLock PROVE Spec => []NameStaysFree
<1>1. NameInv => NameStaysFree
  BY DEF NameInv
<1> QED BY <1>1, NamesSafe, PTL

(* If every invocation passes --lockfile, a name denotes one key at all    *)
(* times: two key objects with one id and one label are the public and the *)
(* private half of a key, through any crash, failed call or retry.         *)
THEOREM OneKeyPerName == ASSUME AllLock PROVE Spec => []NamesOneKey
<1>1. NameInv => NamesOneKey
  BY DEF NameInv
<1> QED BY <1>1, NamesSafe, PTL
-----------------------------------------------------------------------------
(* A step of nobody's search: who was searching keeps what it found, and   *)
(* the token is as it was.                                                 *)
LEMMA FoundKept ==
    ASSUME FoundIsCurrent, UNCHANGED objects,
           \A q \in Procs : pc'[q] \in {"loop", "use"} =>
              /\ pc'[q] = pc[q] /\ Cmd(q)' = Cmd(q)
              /\ todo'[q] = todo[q] /\ acted'[q] = acted[q]
    PROVE  FoundIsCurrent'
BY DEF FoundIsCurrent

(* A step inside a command keeps FoundIsCurrent: the process that takes it *)
(* holds the only handles there are.                                       *)
LEMMA FoundInside ==
    ASSUME AllLock, TypeInv, LockInv, NameInv, FoundIsCurrent,
           NEW p \in Procs, Inside(p)
    PROVE  FoundIsCurrent'
<1>1. \A q \in Procs \ {p} : pc'[q] \notin {"loop", "use"}
  <2>1. Running(p)
    BY InsideFrame DEF TypeInv, Running
  <2> QED BY <2>1, Alone, InsideFrame DEF TypeInv, Running
<1>2. UNCHANGED script
  BY InsideFrame DEF TypeInv, runVars
<1>3. ASSUME pc'[p] \notin {"loop", "use"} PROVE FoundIsCurrent'
  BY <1>1, <1>3 DEF FoundIsCurrent
<1>4. ASSUME NEW outcome, NEW objs, Return(p, outcome, objs)
      PROVE  FoundIsCurrent'
  BY <1>3, <1>4 DEF Return, TypeInv, TypeOK
<1>5. CASE FindAll(p)
  <2>1. /\ pc'[p] = "loop" /\ todo'[p] = Matching(objects, Cmd(p))
        /\ acted'[p] = {} /\ objects' = objects /\ Cmd(p)' = Cmd(p)
    BY <1>2, <1>5 DEF FindAll, Ready, tokenVars, Cmd, TypeInv, TypeOK, NameInv,
                      Cleared
  <2> QED BY <1>1, <2>1 DEF FoundIsCurrent
<1>6. CASE VisitObject(p)
  <2>1. PICK o \in todo[p] \cap objects :
            /\ objects' = IF Cmd(p).op = "destroy" THEN objects \ {o} ELSE objects
            /\ todo' = [todo EXCEPT ![p] = @ \ {o}]
            /\ acted' = [acted EXCEPT ![p] = @ \cup {o}]
    BY <1>6 DEF VisitObject
  <2>2. /\ pc[p] = "loop" /\ pc'[p] = "loop" /\ Cmd(p)' = Cmd(p)
        /\ todo'[p] = todo[p] \ {o} /\ acted'[p] = acted[p] \cup {o}
    BY <1>2, <1>6, <2>1 DEF VisitObject, Cmd, TypeInv, TypeOK
  <2>3. CASE Cmd(p).op = "destroy"
    <3>1. todo[p] = Matching(objects, Cmd(p)) /\ acted[p] \cap objects = {}
      BY <2>2, <2>3 DEF FoundIsCurrent
    <3>2. objects' = objects \ {o}
      BY <2>1, <2>3
    <3>3. todo'[p] = Matching(objects', Cmd(p)) /\ acted'[p] \cap objects' = {}
      BY <2>2, <3>1, <3>2 DEF Matching
    <3> QED BY <1>1, <2>2, <2>3, <3>3 DEF FoundIsCurrent
  <2>4. CASE Cmd(p).op # "destroy"
    <3>1. objects' = objects
      BY <2>1, <2>4
    <3>2. Cmd(p).op = "show" =>
              todo'[p] \cup acted'[p] = Matching(objects', Cmd(p))
      BY <2>1, <2>2, <3>1 DEF FoundIsCurrent
    <3> QED BY <1>1, <2>2, <2>4, <3>2 DEF FoundIsCurrent
  <2> QED BY <2>3, <2>4
<1>7. CASE FindOne(p)
  <2>1. CASE /\ todo' = [todo EXCEPT ![p] = Selected(objects, Cmd(p))]
             /\ pc' = [pc EXCEPT ![p] = "use"] /\ UNCHANGED status
    <3>1. /\ pc'[p] = "use" /\ todo'[p] = Selected(objects, Cmd(p))
          /\ objects' = objects /\ Cmd(p)' = Cmd(p)
      BY <1>2, <1>7, <2>1 DEF FindOne, tokenVars, Cmd, TypeInv, TypeOK
    <3> QED BY <1>1, <3>1 DEF FoundIsCurrent
  <2> QED BY <1>4, <1>7, <2>1 DEF FindOne
<1>8. CASE NameIsFree(p)
  BY <1>3, <1>8 DEF NameIsFree, TypeInv, TypeOK
<1>9. CASE CreateObject(p)
  <2>1. CASE UNCHANGED pc
    BY <1>3, <1>9, <2>1 DEF CreateObject
  <2> QED BY <1>4, <1>9, <2>1 DEF CreateObject
<1>10. CASE \/ Refuse(p) \/ NameIsTaken(p) \/ WriteObject(p) \/ EndLoop(p)
            \/ UseObject(p) \/ HandleInvalid(p) \/ CallFails(p)
            \/ AnswerLost(p)
  BY <1>4, <1>10 DEF Refuse, NameIsTaken, WriteObject, EndLoop, UseObject,
                     HandleInvalid, CallFails, AnswerLost
<1> QED BY <1>5, <1>6, <1>7, <1>8, <1>9, <1>10 DEF Inside

(* Every step keeps FoundIsCurrent.                                        *)
LEMMA FoundNext ==
    ASSUME AllLock
    PROVE  TypeInv /\ LockInv /\ NameInv /\ FoundIsCurrent /\ [Next]_vars
              => FoundIsCurrent'
<1> SUFFICES ASSUME TypeInv, LockInv, NameInv, FoundIsCurrent, [Next]_vars
             PROVE  FoundIsCurrent'
  OBVIOUS
<1>1. CASE UNCHANGED vars
  BY <1>1, FoundKept DEF vars, tokenVars, runVars, workVars, Cmd
<1>2. ASSUME NEW p \in Procs,
             Start(p) \/ AcquireLock(p) \/ Connect(p) \/ Gone(p)
      PROVE  FoundIsCurrent'
  <2>1. UNCHANGED objects /\ pc'[p] \notin {"loop", "use"}
    BY <1>2 DEF Start, AcquireLock, Connect, Gone, tokenVars, TypeInv, TypeOK
  <2>2. \A q \in Procs \ {p} :
            /\ pc'[q] = pc[q] /\ script'[q] = script[q]
            /\ status'[q] = status[q] /\ todo'[q] = todo[q]
            /\ acted'[q] = acted[q]
    <3>1. CASE Gone(p)
      BY <3>1 DEF Gone, Clear, TypeInv, TypeOK
    <3>2. CASE Start(p) \/ AcquireLock(p) \/ Connect(p)
      BY <3>2 DEF Start, AcquireLock, Connect, workVars, TypeInv, TypeOK
    <3> QED BY <1>2, <3>1, <3>2
  <2> QED BY <2>1, <2>2, FoundKept DEF Cmd
<1> QED BY <1>1, <1>2, NextCases, FoundInside

(* If every invocation passes --lockfile, the handles a command holds are  *)
(* the objects its search would find now, until it returns: a sign, export *)
(* or destroy never acts on a stale handle.                                *)
THEOREM NoStaleHandle == ASSUME AllLock PROVE Spec => []FoundIsCurrent
<1>1. Init => FoundIsCurrent
  BY DEF Init, FoundIsCurrent
<1>2. TypeInv /\ LockInv /\ NameInv /\ FoundIsCurrent /\ [Next]_vars
         => FoundIsCurrent'
  BY FoundNext
<1> QED BY <1>1, <1>2, TypeCorrect, LockHeld, NamesSafe, PTL DEF Spec
-----------------------------------------------------------------------------
(* The replies: what a batch has done when it reports success, with and    *)
(* without the lock, and that a key made under the lock is the key the     *)
(* next command of the batch uses.                                         *)

(* What SuccessIsWholeKey and UsesWhatItNames say of one reply.            *)
WholeKey(r) ==
    r.outcome = "ok" /\ r.cmd \in MakeCommand =>
        /\ {o.class : o \in r.objs} = Halves(r.cmd.form)
        /\ \A o1, o2 \in r.objs :
              SameName(o1, o2) /\ (o1 # o2 => o1.class # o2.class)
        /\ \A o \in r.objs : /\ o.id \in {r.cmd.id} \cup Nat
                             /\ o.label = NewLabel(r.cmd)
                             /\ o.ktype = r.cmd.ktype

OneUsed(r) ==
    r.outcome = "ok" /\ r.cmd \in UseCommand =>
        \E o \in r.objs :
            /\ r.objs = {o}
            /\ r.cmd.id \in {NONE, o.id} /\ r.cmd.label \in {NONE, o.label}
            /\ r.cmd.form # "any" =>
                   o.class = r.cmd.form /\ o.ktype = r.cmd.ktype

(* Only generate and import are commands that make a key, and the commands *)
(* that use one are none of the others.                                    *)
LEMMA CommandKinds ==
    /\ \A c \in MakeCommand : c.op \in {"generate", "import"}
    /\ \A c \in LoopCommand : c.op \in {"show", "destroy"}
    /\ \A c \in WriteCommand : c.op = "write"
    /\ \A c \in UseCommand : c.op \in {"sign", "decrypt", "verify", "encrypt",
                                       "export", "read"}
<1>1. \A c \in MakeCommand : c.op \in {"generate", "import"}
  BY MakeFields
<1>2. \A c \in LoopCommand : c.op \in {"show", "destroy"}
  BY DEF LoopCommand, Named, LoopShapes, ObjectShow, ObjectDestroy, Shape
<1>3. \A c \in WriteCommand : c.op = "write"
  BY DEF WriteCommand, Named, ObjectWrite, Shape
<1>4. \A s \in UseShapes : s.op \in {"sign", "decrypt", "verify", "encrypt",
                                     "export", "read"}
  BY DEF UseShapes, RsaSign, EcdsaSign, MldsaSign, SlhDsaSign, RsaDecrypt,
         RsaVerify, EcdsaVerify, MldsaVerify, SlhDsaVerify, RsaEncrypt,
         RsaExport, EcdsaExport, MldsaExport, SlhDsaExport, ExportHalf,
         AesExport, KdfExport, ObjectRead, UseHalf, Shape
<1>5. \A c \in UseCommand : c.op \in {"sign", "decrypt", "verify", "encrypt",
                                      "export", "read"}
  <2> SUFFICES ASSUME NEW c \in UseCommand
               PROVE  \E s \in UseShapes : c.op = s.op
    BY <1>4
  <2> QED BY DEF UseCommand, Named
<1> QED BY <1>1, <1>2, <1>3, <1>5

LEMMA KindsApart ==
    /\ MakeCommand \cap UseCommand = {}
    /\ MakeCommand \cap LoopCommand = {}
    /\ MakeCommand \cap WriteCommand = {}
    /\ UseCommand \cap LoopCommand = {}
    /\ UseCommand \cap WriteCommand = {}
BY CommandKinds

(* The last create call of a command completes the key.                    *)
LEMMA LastCallCompletes ==
    ASSUME TypeInv, HalfWay, InHand, NEW p \in Procs,
           pc[p] = "create", Tail(rest[p]) = <<>>
    PROVE  WholeKey([cmd |-> Cmd(p), outcome |-> "ok",
                     objs |-> acted[p] \cup Created(p)])
<1> DEFINE c == Cmd(p)
           new == acted[p] \cup Created(p)
<1>1. /\ c \in MakeCommand /\ newid[p] \in {c.id} \cup Nat
      /\ \A o \in acted[p] : o.id = newid[p] /\ o.label = NewLabel(c)
  BY DEF TypeInv, AtCommand, InHand, NameGiven
<1>2. /\ \A o \in Created(p) : /\ o.id = newid[p] /\ o.label = NewLabel(c)
                               /\ o.ktype = c.ktype
      /\ \A o1, o2 \in Created(p) : o1.class = o2.class => o1 = o2
      /\ {o.class : o \in Created(p)} = Head(rest[p])
  <2>1. \A o \in Created(p) : /\ o.id = newid[p] /\ o.label = NewLabel(c)
                              /\ o.ktype = c.ktype
                              /\ o.class \in Head(rest[p])
    BY DEF Created
  <2>2. \A o1, o2 \in Created(p) : o1.class = o2.class => o1 = o2
    BY DEF Created
  <2>3. ASSUME NEW k \in Head(rest[p]) PROVE \E o \in Created(p) : o.class = k
    <3> DEFINE o == [serial |-> serial, class |-> k, ktype |-> c.ktype,
                     id |-> newid[p], label |-> NewLabel(c)]
    <3>1. o \in Created(p) /\ o.class = k
      BY DEF Created
    <3> QED BY <3>1
  <2> QED BY <2>1, <2>2, <2>3
<1>3. CASE acted[p] = {} /\ rest[p] = c.calls
  <2>1. c.calls = <<Halves(c.form)>>
    <3>1. ASSUME NEW k, NEW l, c.calls = <<{k}, {l}>> PROVE FALSE
      <4>1. Tail(<<{k}, {l}>>) = <<{l}>>
        OBVIOUS
      <4> QED BY <1>3, <3>1, <4>1
    <3> QED BY <1>1, <3>1, CallsShape
  <2>2. new = Created(p) /\ Head(rest[p]) = Halves(c.form)
    BY <1>3, <2>1
  <2> HIDE DEF new
  <2> QED BY <1>1, <1>2, <2>2 DEF WholeKey, SameName, new
<1>4. ASSUME NEW k \in KeyClasses, NEW l \in KeyClasses, NEW o \in acted[p],
             c.calls = <<{k}, {l}>>, rest[p] = <<{l}>>,
             acted[p] = {o}, o.class = k, o.ktype = c.ktype
      PROVE  WholeKey([cmd |-> c, outcome |-> "ok", objs |-> new])
  <2>1. {k, l} = {"public", "private"} /\ c.form = "pair"
    <3>1. c.calls # <<Halves(c.form)>>
      BY <1>4
    <3>2. PICK k1 \in KeyClasses, l1 \in KeyClasses :
              /\ c.calls = <<{k1}, {l1}>> /\ {k1, l1} = {"public", "private"}
              /\ c.form = "pair"
      BY <1>1, <3>1, CallsShape
    <3>3. {k1} = {k} /\ {l1} = {l}
      BY <1>4, <3>2
    <3> QED BY <3>2, <3>3
  <2>2. Head(rest[p]) = {l} /\ Halves(c.form) = {k, l} /\ k # l
    BY <1>4, <2>1 DEF Halves
  <2>3. {n.class : n \in new} = {k, l}
    BY <1>2, <1>4, <2>2
  <2>4. \A o1, o2 \in new : SameName(o1, o2) /\ (o1 # o2 => o1.class # o2.class)
    BY <1>1, <1>2, <1>4, <2>2 DEF SameName
  <2>5. \A n \in new : /\ n.id \in {c.id} \cup Nat /\ n.label = NewLabel(c)
                       /\ n.ktype = c.ktype
    BY <1>1, <1>2, <1>4
  <2> HIDE DEF new
  <2> QED BY <2>2, <2>3, <2>4, <2>5 DEF WholeKey
<1> QED BY <1>3, <1>4 DEF HalfWay, HalfMade

(* What the outcome of a use tells of the token or of the handle it had.   *)
Searched(p, outcome, objs) ==
    Cmd(p) \in UseCommand =>
        /\ outcome = "ObjectNotFound" => Selected(objects, Cmd(p)) = {}
        /\ outcome = "TooManyObjects" =>
              \E o1, o2 \in Selected(objects, Cmd(p)) : o1 # o2
        /\ outcome = "ok" => pc[p] = "use" /\ objs = todo[p]

(* A command that returns under WorkInv gives an honest reply: it replied  *)
(* nothing, or one reply to the command it was at.                         *)
LEMMA InsideReplies ==
    ASSUME TypeInv, WorkInv, NEW p \in Procs, Inside(p)
    PROVE  /\ HasCmd(p)
           /\ \/ status'[p] = status[p] /\ pc'[p] \in {"create", "loop", "use"}
              \/ \E outcome \in Outcomes, objs \in SUBSET Object :
                    /\ Return(p, outcome, objs)
                    /\ WholeKey([cmd |-> Cmd(p), outcome |-> outcome, objs |-> objs])
                    /\ OneUsed([cmd |-> Cmd(p), outcome |-> outcome, objs |-> objs])
                    /\ Searched(p, outcome, objs)
<1> DEFINE Reply1(outcome, objs) ==
              [cmd |-> Cmd(p), outcome |-> outcome, objs |-> objs]
           Honest == \E outcome \in Outcomes, objs \in SUBSET Object :
                        /\ Return(p, outcome, objs)
                        /\ WholeKey(Reply1(outcome, objs))
                        /\ OneUsed(Reply1(outcome, objs))
                        /\ Searched(p, outcome, objs)
           Silent == status'[p] = status[p] /\ pc'[p] \in {"create", "loop", "use"}
<1>1. HasCmd(p)
  BY ReadyCmd DEF Inside, Refuse, NameIsFree, NameIsTaken, CreateObject,
                  WriteObject, FindAll, VisitObject, EndLoop, FindOne, UseObject,
                  HandleInvalid, CallFails, AnswerLost, Ready, TypeInv, AtCommand
<1>2. ASSUME NEW outcome \in Outcomes \ {"ok"}, Return(p, outcome, {}),
             Searched(p, outcome, {})
      PROVE  Honest
  BY <1>2 DEF WholeKey, OneUsed
<1>3. ASSUME NEW objs \in SUBSET Object, Return(p, "ok", objs),
             Cmd(p) \notin MakeCommand, Cmd(p) \notin UseCommand
      PROVE  Honest
  BY <1>3 DEF WholeKey, OneUsed, Searched, Outcomes
<1>4. CASE Refuse(p) \/ NameIsTaken(p) \/ HandleInvalid(p) \/ CallFails(p)
           \/ AnswerLost(p)
  <2>1. \E outcome \in Outcomes \ {"ok", "ObjectNotFound", "TooManyObjects"} :
            Return(p, outcome, {})
    BY <1>4 DEF Refuse, NameIsTaken, HandleInvalid, CallFails, AnswerLost, Outcomes
  <2> QED BY <1>1, <1>2, <2>1 DEF Searched
<1>5. CASE NameIsFree(p) \/ FindAll(p) \/ VisitObject(p)
  <2>1. Silent
    BY <1>5 DEF NameIsFree, FindAll, VisitObject, TypeInv, TypeOK
  <2> QED BY <1>1, <2>1
<1>6. CASE CreateObject(p)
  <2>1. CASE Tail(rest[p]) = <<>>
    <3>1. Return(p, "ok", acted[p] \cup Created(p)) /\ pc[p] = "create"
      BY <1>6, <2>1 DEF CreateObject
    <3>2. WholeKey(Reply1("ok", acted[p] \cup Created(p)))
      BY <2>1, <3>1, LastCallCompletes DEF WorkInv
    <3>3. OneUsed(Reply1("ok", acted[p] \cup Created(p)))
      BY <3>1, KindsApart DEF OneUsed, TypeInv, AtCommand
    <3>4. acted[p] \cup Created(p) \in SUBSET Object
      BY <3>1, CreatedType DEF Object, TypeInv, TypeOK
    <3> HIDE DEF Reply1
    <3>5. Searched(p, "ok", acted[p] \cup Created(p))
      BY <3>1, KindsApart DEF Searched, TypeInv, AtCommand
    <3>6. Honest
      BY <3>1, <3>2, <3>3, <3>4, <3>5 DEF Outcomes
    <3> QED BY <1>1, <3>6 DEF Reply1
  <2>2. CASE UNCHANGED <<pc, status>>
    BY <1>1, <1>6, <2>2 DEF CreateObject
  <2> QED BY <1>6, <2>1, <2>2 DEF CreateObject
<1>7. CASE WriteObject(p)
  <2> DEFINE data == [serial |-> serial, class |-> "data", ktype |-> NONE,
                      id |-> Cmd(p).id, label |-> Cmd(p).label]
  <2>1. Cmd(p) \in WriteCommand /\ Return(p, "ok", {data})
    BY <1>7 DEF WriteObject
  <2>2. data \in Object
    BY <2>1, OtherFields DEF TypeInv, TypeOK, Object, DataObject
  <2> HIDE DEF data
  <2> QED BY <1>1, <1>3, <2>1, <2>2, KindsApart
<1>8. CASE EndLoop(p)
  <2>1. Cmd(p) \in LoopCommand /\ Return(p, "ok", acted[p]) /\ acted[p] \in SUBSET Object
    BY <1>8 DEF EndLoop, WorkInv, InHand, TypeInv, TypeOK
  <2> QED BY <1>1, <1>3, <2>1, KindsApart
<1>9. CASE FindOne(p)
  <2>1. CASE \/ /\ Return(p, "ObjectNotFound", {})
                /\ Selected(objects, Cmd(p)) = {}
             \/ /\ Return(p, "TooManyObjects", {})
                /\ \E o1, o2 \in Selected(objects, Cmd(p)) : o1 # o2
    BY <1>1, <1>2, <2>1 DEF Outcomes, Searched
  <2>2. CASE pc' = [pc EXCEPT ![p] = "use"] /\ UNCHANGED status
    BY <1>1, <2>2 DEF TypeInv, TypeOK
  <2> QED BY <1>9, <2>1, <2>2 DEF FindOne
<1>10. CASE UseObject(p)
  <2>1. /\ Return(p, "ok", todo[p]) /\ Cmd(p) \in UseCommand
        /\ todo[p] \in SUBSET Object
    BY <1>10 DEF UseObject, WorkInv, InHand, OneInHand, TypeInv, TypeOK
  <2>2. WholeKey(Reply1("ok", todo[p]))
    BY <2>1, KindsApart DEF WholeKey
  <2>3. OneUsed(Reply1("ok", todo[p]))
    <3>1. PICK o \in todo[p] : todo[p] = {o} /\ Selected({o}, Cmd(p)) = {o}
      BY <1>10 DEF UseObject, WorkInv, InHand, OneInHand
    <3>2. /\ Cmd(p).id \in {NONE, o.id} /\ Cmd(p).label \in {NONE, o.label}
          /\ Cmd(p).form # "any" => o.class = Cmd(p).form /\ o.ktype = Cmd(p).ktype
      BY <3>1 DEF Selected, Matching
    <3> QED BY <3>1, <3>2 DEF OneUsed
  <2> HIDE DEF Reply1
  <2>4. Searched(p, "ok", todo[p])
    BY <1>10 DEF Searched, UseObject
  <2>5. Honest
    BY <2>1, <2>2, <2>3, <2>4 DEF Outcomes
  <2> QED BY <1>1, <2>5 DEF Reply1
<1> QED BY <1>4, <1>5, <1>6, <1>7, <1>8, <1>9, <1>10 DEF Inside
-----------------------------------------------------------------------------
(* The work of a process that a step leaves alone.                         *)
LEMMA WorkKept ==
    ASSUME NEW p \in Procs, Cmd(p)' = Cmd(p), newid'[p] = newid[p],
           rest'[p] = rest[p], todo'[p] = todo[p], acted'[p] = acted[p]
    PROVE  /\ HalfMade(p) => HalfMade(p)'
           /\ NameGiven(p) => NameGiven(p)'
           /\ OneInHand(p) => OneInHand(p)'
<1>1. HalfMade(p) => HalfMade(p)'
  BY DEF HalfMade
<1>2. NameGiven(p) => NameGiven(p)'
  BY DEF NameGiven
<1>3. OneInHand(p) => OneInHand(p)'
  BY DEF OneInHand
<1> QED BY <1>1, <1>2, <1>3

(* A step keeps WorkInv when it does so for the process that takes it.     *)
LEMMA WorkOfOne ==
    ASSUME WorkInv, NEW p \in Procs,
           pc'[p] \notin {"create", "loop"} => acted'[p] = {},
           pc'[p] \in {"idle", "lock", "connect"} => status'[p] = <<>>,
           pc'[p] = "create" => HalfMade(p)' /\ NameGiven(p)',
           pc'[p] = "loop" => Cmd(p)' \in LoopCommand,
           pc'[p] = "use" => OneInHand(p)',
           \A q \in Procs \ {p} :
              /\ pc'[q] = pc[q] /\ status'[q] = status[q] /\ Cmd(q)' = Cmd(q)
              /\ newid'[q] = newid[q] /\ rest'[q] = rest[q]
              /\ todo'[q] = todo[q] /\ acted'[q] = acted[q]
    PROVE  WorkInv'
<1>1. Cleared' /\ Begun'
  BY DEF WorkInv, Cleared, Begun
<1>2. HalfWay'
  BY WorkKept DEF WorkInv, HalfWay
<1>3. InHand'
  BY WorkKept DEF WorkInv, InHand
<1> QED BY <1>1, <1>2, <1>3 DEF WorkInv

(* A process starts, connects or ends holding nothing.                     *)
LEMMA WorkOutside ==
    ASSUME TypeInv, WorkInv, NEW p \in Procs,
           Start(p) \/ AcquireLock(p) \/ Connect(p) \/ Gone(p)
    PROVE  WorkInv'
<1>1. CASE Gone(p)
  <2>1. pc'[p] = "idle" /\ acted'[p] = {} /\ status'[p] = <<>>
    BY <1>1 DEF Gone, Clear, TypeInv, TypeOK
  <2>2. \A q \in Procs \ {p} :
           /\ pc'[q] = pc[q] /\ script'[q] = script[q] /\ status'[q] = status[q]
           /\ newid'[q] = newid[q] /\ rest'[q] = rest[q]
           /\ todo'[q] = todo[q] /\ acted'[q] = acted[q]
    BY <1>1 DEF Gone, Clear, TypeInv, TypeOK
  <2> QED BY <2>1, <2>2, WorkOfOne DEF Cmd
<1>2. CASE Start(p) \/ AcquireLock(p) \/ Connect(p)
  <2>1. /\ pc[p] \in {"idle", "lock", "connect"}
        /\ pc'[p] \in {"lock", "connect", "dispatch"}
        /\ UNCHANGED <<status, newid, rest, todo, acted>>
        /\ \A q \in Procs \ {p} : pc'[q] = pc[q] /\ script'[q] = script[q]
    BY <1>2 DEF Start, AcquireLock, Connect, workVars, TypeInv, TypeOK
  <2>2. acted[p] = {} /\ status[p] = <<>>
    BY <2>1 DEF WorkInv, Cleared, Begun
  <2> QED BY <2>1, <2>2, WorkOfOne DEF Cmd
<1> QED BY <1>1, <1>2

(* A step inside a command keeps WorkInv, whatever the other processes do  *)
(* to the token meanwhile.                                                 *)
LEMMA WorkInside ==
    ASSUME TypeInv, WorkInv, NEW p \in Procs, Inside(p)
    PROVE  WorkInv'
<1>1. /\ UNCHANGED script
      /\ \A q \in Procs \ {p} :
            /\ pc'[q] = pc[q] /\ status'[q] = status[q] /\ Cmd(q)' = Cmd(q)
            /\ newid'[q] = newid[q] /\ rest'[q] = rest[q]
            /\ todo'[q] = todo[q] /\ acted'[q] = acted[q]
  BY InsideFrame DEF TypeInv, runVars, Cmd
<1>2. ASSUME NEW outcome, NEW objs, Return(p, outcome, objs)
      PROVE  WorkInv'
  <2>1. pc'[p] \in {"dispatch", "exit"} /\ acted'[p] = {}
    BY <1>2 DEF Return, Clear, TypeInv, TypeOK
  <2> QED BY <1>1, <2>1, WorkOfOne
<1>3. ASSUME status'[p] = status[p]
      PROVE  Cmd(p)' = Cmd(p)
  BY <1>1, <1>3 DEF Cmd
<1>4. CASE NameIsFree(p)
  <2>1. /\ Cmd(p) \in MakeCommand /\ pc[p] = "dispatch" /\ pc'[p] = "create"
        /\ rest'[p] = Cmd(p).calls /\ UNCHANGED <<status, acted>>
        /\ IF Cmd(p).id = NONE THEN newid'[p] = serial ELSE newid'[p] = Cmd(p).id
    BY <1>4 DEF NameIsFree, Ready, TypeInv, TypeOK
  <2>2. acted'[p] = {} /\ serial \in Nat /\ Cmd(p)' = Cmd(p)
    BY <1>3, <2>1 DEF WorkInv, Cleared, TypeInv, TypeOK
  <2>3. HalfMade(p)' /\ NameGiven(p)'
    BY <2>1, <2>2 DEF HalfMade, NameGiven
  <2> QED BY <1>1, <2>1, <2>3, WorkOfOne
<1>5. CASE CreateObject(p)
  <2>1. CASE Tail(rest[p]) = <<>>
    BY <1>2, <1>5, <2>1 DEF CreateObject
  <2>2. CASE Tail(rest[p]) # <<>>
    <3>1. /\ pc[p] = "create" /\ UNCHANGED <<pc, status, newid>>
          /\ rest'[p] = Tail(rest[p]) /\ acted'[p] = acted[p] \cup Created(p)
      BY <1>5, <2>2 DEF CreateObject, TypeInv, TypeOK
    <3>2. Cmd(p)' = Cmd(p) /\ HalfMade(p) /\ NameGiven(p) /\ Cmd(p) \in MakeCommand
      BY <1>3, <3>1 DEF WorkInv, HalfWay, InHand, TypeInv, AtCommand
    <3>3. acted[p] = {} /\ rest[p] = Cmd(p).calls
      <4>1. ASSUME NEW l, rest[p] = <<{l}>> PROVE FALSE
        BY <2>2, <4>1
      <4> QED BY <3>2, <4>1 DEF HalfMade
    <3>4. PICK k \in KeyClasses, l \in KeyClasses : Cmd(p).calls = <<{k}, {l}>>
      <4>1. ASSUME NEW k, rest[p] = <<k>> PROVE FALSE
        <5>1. Tail(<<k>>) = <<>>
          OBVIOUS
        <5> QED BY <2>2, <4>1, <5>1
      <4> QED BY <3>2, <3>3, <4>1, CallsShape
    <3>5. Head(rest[p]) = {k} /\ rest'[p] = <<{l}>>
      BY <3>1, <3>3, <3>4
    <3> DEFINE o == [serial |-> serial, class |-> k, ktype |-> Cmd(p).ktype,
                     id |-> newid[p], label |-> NewLabel(Cmd(p))]
    <3>6. /\ acted'[p] = {o} /\ o.class = k /\ o.ktype = Cmd(p).ktype
          /\ o.id = newid[p] /\ o.label = NewLabel(Cmd(p))
      BY <3>1, <3>3, <3>5 DEF Created
    <3> HIDE DEF o
    <3>7. HalfMade(p)'
      BY <3>2, <3>4, <3>5, <3>6 DEF HalfMade
    <3>8. NameGiven(p)'
      BY <3>1, <3>2, <3>6 DEF NameGiven
    <3> QED BY <1>1, <3>1, <3>7, <3>8, WorkOfOne
  <2> QED BY <2>1, <2>2
<1>6. CASE FindAll(p)
  <2>1. Cmd(p) \in LoopCommand /\ pc'[p] = "loop" /\ UNCHANGED status
    BY <1>6 DEF FindAll, TypeInv, TypeOK
  <2> QED BY <1>1, <1>3, <2>1, WorkOfOne
<1>7. CASE VisitObject(p)
  <2>1. pc[p] = "loop" /\ UNCHANGED <<pc, status>>
    BY <1>7 DEF VisitObject
  <2>2. Cmd(p) \in LoopCommand
    BY <2>1 DEF WorkInv, InHand
  <2> QED BY <1>1, <1>3, <2>1, <2>2, WorkOfOne
<1>8. CASE FindOne(p)
  <2> DEFINE found == Selected(objects, Cmd(p))
  <2>1. ASSUME NEW o \in found, found = {o},
               todo' = [todo EXCEPT ![p] = found],
               pc' = [pc EXCEPT ![p] = "use"],
               UNCHANGED <<status, newid, rest, acted>>
        PROVE  WorkInv'
    <3>1. Cmd(p)' = Cmd(p) /\ Cmd(p) \in UseCommand /\ acted'[p] = {}
      BY <1>3, <1>8, <2>1 DEF FindOne, Ready, WorkInv, Cleared
    <3>2. todo'[p] = {o} /\ pc'[p] = "use"
      BY <2>1 DEF TypeInv, TypeOK
    <3>3. Selected({o}, Cmd(p)) = {o}
      BY <2>1 DEF Selected, Matching
    <3>4. OneInHand(p)'
      BY <3>1, <3>2, <3>3 DEF OneInHand
    <3> QED BY <1>1, <3>1, <3>2, <3>4, WorkOfOne
  <2> QED BY <1>2, <1>8, <2>1 DEF FindOne
<1>9. CASE \/ Refuse(p) \/ NameIsTaken(p) \/ WriteObject(p) \/ EndLoop(p)
           \/ UseObject(p) \/ HandleInvalid(p) \/ CallFails(p) \/ AnswerLost(p)
  BY <1>2, <1>9 DEF Refuse, NameIsTaken, WriteObject, EndLoop, UseObject,
                    HandleInvalid, CallFails, AnswerLost
<1> QED BY <1>4, <1>5, <1>6, <1>7, <1>8, <1>9 DEF Inside

(* What a process keeps between two HSM calls, with and without the lock.  *)
THEOREM WorkHeld == Spec => []WorkInv
<1>1. Init => WorkInv
  BY DEF Init, WorkInv, Cleared, HalfWay, Begun, InHand
<1>2. TypeInv /\ WorkInv /\ [Next]_vars => WorkInv'
  <2> SUFFICES ASSUME TypeInv, WorkInv, [Next]_vars PROVE WorkInv'
    OBVIOUS
  <2>1. CASE UNCHANGED vars
    <3>1. /\ UNCHANGED <<pc, script, status, newid, rest, todo, acted>>
          /\ \A q \in Procs : Cmd(q)' = Cmd(q)
      BY <2>1 DEF vars, runVars, workVars, Cmd
    <3> QED BY <3>1, WorkKept DEF WorkInv, Cleared, HalfWay, Begun, InHand
  <2>2. CASE Next
    BY <2>2, NextCases, WorkOutside, WorkInside
  <2> QED BY <2>1, <2>2
<1> QED BY <1>1, <1>2, TypeCorrect, PTL DEF Spec
-----------------------------------------------------------------------------
(* What ReplyInv says of one invocation: its replies, its list of commands *)
(* and where it is.                                                        *)
GoodBatch(replies, commands, at) ==
    /\ Len(replies) <= Len(commands)
    /\ \A i \in 1..Len(replies) :
          /\ replies[i].cmd = commands[i]
          /\ replies[i].outcome # "ok" => i = Len(replies) /\ at = "exit"
          /\ WholeKey(replies[i]) /\ OneUsed(replies[i])

LEMMA BatchByBatch ==
    ReplyInv <=> \A p \in Procs : GoodBatch(status[p], script[p], pc[p])
<1>1. SuccessIsWholeKey <=>
          \A p \in Procs : \A i \in 1..Len(status[p]) : WholeKey(status[p][i])
  BY DEF SuccessIsWholeKey, WholeKey
<1>2. UsesWhatItNames <=>
          \A p \in Procs : \A i \in 1..Len(status[p]) : OneUsed(status[p][i])
  BY DEF UsesWhatItNames, OneUsed
<1> QED BY <1>1, <1>2 DEF ReplyInv, BatchStopsAtError, GoodBatch

LEMMA BatchesAfter ==
    ASSUME \A p \in Procs : GoodBatch(status'[p], script'[p], pc'[p])
    PROVE  ReplyInv'
<1>1. (\A p \in Procs : GoodBatch(status[p], script[p], pc[p]))' => ReplyInv'
  BY BatchByBatch, PTL
<1>2. (\A p \in Procs : GoodBatch(status[p], script[p], pc[p]))'
  OBVIOUS
<1> QED BY <1>1, <1>2

(* An honest reply to the next command of the list extends a good batch.   *)
LEMMA OneMoreReply ==
    ASSUME NEW S, NEW replies \in Seq(S), NEW C, NEW commands \in Seq(C),
           NEW at, NEW after, NEW r \in S,
           GoodBatch(replies, commands, at), at # "exit",
           Len(replies) < Len(commands), r.cmd = commands[Len(replies) + 1],
           r.outcome # "ok" => after = "exit",
           WholeKey(r), OneUsed(r)
    PROVE  GoodBatch(Append(replies, r), commands, after)
<1> DEFINE new == Append(replies, r)
<1>1. /\ Len(new) = Len(replies) + 1 /\ Len(replies) \in Nat
      /\ Len(commands) \in Nat
      /\ \A i \in 1..Len(replies) : new[i] = replies[i]
      /\ new[Len(replies) + 1] = r
  OBVIOUS
<1> HIDE DEF new
<1>2. \A i \in 1..Len(new) : i \in 1..Len(replies) \/ i = Len(replies) + 1
  BY <1>1
<1>3. GoodBatch(new, commands, after)
  BY <1>1, <1>2 DEF GoodBatch
<1> QED BY <1>3 DEF new

(* Every step keeps ReplyInv.                                              *)
LEMMA ReplyNext ==
    TypeInv /\ WorkInv /\ ReplyInv /\ [Next]_vars => ReplyInv'
<1> SUFFICES ASSUME TypeInv, WorkInv, ReplyInv, [Next]_vars
             PROVE  \A q \in Procs : GoodBatch(status'[q], script'[q], pc'[q])
  BY BatchesAfter
<1>1. \A q \in Procs : GoodBatch(status[q], script[q], pc[q])
  BY BatchByBatch
<1>2. CASE UNCHANGED vars
  BY <1>1, <1>2 DEF vars, runVars
<1>3. \A q \in Procs : script[q] \in Seq(Commands) /\ script'[q] \in Seq(Commands)
  <2>1. TypeOK /\ TypeOK'
    BY TypeNext DEF TypeInv
  <2>2. Scripts \subseteq Seq(Commands) /\ <<>> \in Seq(Commands)
    BY HsmToolAssumption
  <2> QED BY <2>1, <2>2 DEF TypeOK
<1>4. ASSUME NEW p \in Procs,
             Start(p) \/ AcquireLock(p) \/ Connect(p) \/ Gone(p)
      PROVE  \A q \in Procs : GoodBatch(status'[q], script'[q], pc'[q])
  <2>1. status'[p] = <<>>
    <3>1. CASE Gone(p)
      BY <3>1 DEF Gone, TypeInv, TypeOK
    <3>2. CASE Start(p) \/ AcquireLock(p) \/ Connect(p)
      BY <3>2 DEF Start, AcquireLock, Connect, WorkInv, Begun
    <3> QED BY <1>4, <3>1, <3>2
  <2>2. \A q \in Procs \ {p} : /\ status'[q] = status[q]
                               /\ script'[q] = script[q] /\ pc'[q] = pc[q]
    <3>1. CASE Gone(p)
      BY <3>1 DEF Gone, TypeInv, TypeOK
    <3>2. CASE Start(p) \/ AcquireLock(p) \/ Connect(p)
      BY <3>2 DEF Start, AcquireLock, Connect, TypeInv, TypeOK
    <3> QED BY <1>4, <3>1, <3>2
  <2>3. GoodBatch(status'[p], script'[p], pc'[p])
    BY <1>3, <2>1 DEF GoodBatch
  <2> QED BY <1>1, <2>2, <2>3
<1>5. ASSUME NEW p \in Procs, Inside(p)
      PROVE  \A q \in Procs : GoodBatch(status'[q], script'[q], pc'[q])
  <2>1. /\ pc[p] \in {"dispatch", "create", "loop", "use"} /\ UNCHANGED script
        /\ \A q \in Procs \ {p} : pc'[q] = pc[q] /\ status'[q] = status[q]
    BY <1>5, InsideFrame DEF TypeInv, runVars
  <2>2. CASE status'[p] = status[p]
    <3>1. GoodBatch(status[p], script[p], pc'[p])
      BY <1>1, <2>1 DEF GoodBatch
    <3> QED BY <1>1, <2>1, <2>2, <3>1
  <2>3. ASSUME NEW outcome \in Outcomes, NEW objs \in SUBSET Object,
               Return(p, outcome, objs), HasCmd(p),
               WholeKey([cmd |-> Cmd(p), outcome |-> outcome, objs |-> objs]),
               OneUsed([cmd |-> Cmd(p), outcome |-> outcome, objs |-> objs])
        PROVE  GoodBatch(status'[p], script'[p], pc'[p])
    <3> DEFINE r == [cmd |-> Cmd(p), outcome |-> outcome, objs |-> objs]
    <3>1. r \in Reply /\ r.cmd = Cmd(p) /\ r.outcome = outcome
      BY <2>3, CmdType DEF Reply, TypeInv
    <3>2. status'[p] = Append(status[p], r) /\ status[p] \in Seq(Reply)
      BY <2>3 DEF Return, TypeInv, TypeOK
    <3>3. outcome # "ok" => pc'[p] = "exit"
      BY <2>3 DEF Return, TypeInv, TypeOK
    <3>4. WholeKey(r) /\ OneUsed(r)
      BY <2>3
    <3> HIDE DEF r
    <3>5. GoodBatch(Append(status[p], r), script[p], pc'[p])
      BY <1>1, <1>3, <2>1, <2>3, <3>1, <3>2, <3>3, <3>4, OneMoreReply
      DEF HasCmd, Cmd
    <3> QED BY <2>1, <3>2, <3>5
  <2>4. HasCmd(p) /\ \/ status'[p] = status[p]
                     \/ \E outcome \in Outcomes, objs \in SUBSET Object :
                           /\ Return(p, outcome, objs)
                           /\ WholeKey([cmd |-> Cmd(p), outcome |-> outcome, objs |-> objs])
                           /\ OneUsed([cmd |-> Cmd(p), outcome |-> outcome, objs |-> objs])
    BY <1>5, InsideReplies
  <2> QED BY <1>1, <2>1, <2>2, <2>3, <2>4
<1> QED BY <1>2, <1>4, <1>5, NextCases

(* With and without the lock, whatever other processes do to the token.    *)
THEOREM RepliesHonest == Spec => []ReplyInv
<1>1. Init => ReplyInv
  BY DEF Init, ReplyInv, BatchStopsAtError, SuccessIsWholeKey, UsesWhatItNames
<1> QED BY <1>1, TypeCorrect, WorkHeld, ReplyNext, PTL DEF Spec

(* exec replies to its commands in their order and runs none after one     *)
(* that failed.                                                            *)
THEOREM StopsAtError == Spec => []BatchStopsAtError
<1>1. ReplyInv => BatchStopsAtError
  BY DEF ReplyInv
<1> QED BY <1>1, RepliesHonest, PTL

(* A generate or import reports success only when it has made every half   *)
(* of its key, each once, under one id and the label it was given.         *)
THEOREM WholeKeyOnSuccess == Spec => []SuccessIsWholeKey
<1>1. ReplyInv => SuccessIsWholeKey
  BY DEF ReplyInv
<1> QED BY <1>1, RepliesHonest, PTL

(* A sign, verify, decrypt, encrypt, export or read that succeeds has used *)
(* one object, of the name, class and key type its command gives.          *)
THEOREM UsedAsNamed == Spec => []UsesWhatItNames
<1>1. ReplyInv => UsesWhatItNames
  BY DEF ReplyInv
<1> QED BY <1>1, RepliesHonest, PTL
-----------------------------------------------------------------------------
(* What FreshKeyIsUsed says of two replies in a row.                       *)
UsesFresh(made, used) ==
    /\ made.outcome = "ok" /\ made.cmd \in MakeCommand
    /\ used.cmd \in UseCommand
    /\ used.cmd.id = made.cmd.id /\ used.cmd.label = made.cmd.label
    /\ used.cmd.ktype = made.cmd.ktype
    /\ used.cmd.form \in Halves(made.cmd.form)
    => /\ used.outcome \notin {"ObjectNotFound", "TooManyObjects"}
       /\ used.outcome = "ok" => used.objs \subseteq made.objs

(* The command after a make searches a token on which the name finds just  *)
(* the key made.                                                           *)
LEMMA NextUsesFresh ==
    ASSUME TypeInv, WorkInv, ReplyInv, OnlyOwnKey, FoundIsCurrent,
           NEW p \in Procs, status[p] # <<>>,
           pc[p] \in {"dispatch", "create", "loop", "use"},
           NEW outcome, NEW objs, Searched(p, outcome, objs)
    PROVE  UsesFresh(status[p][Len(status[p])],
                     [cmd |-> Cmd(p), outcome |-> outcome, objs |-> objs])
<1> DEFINE made == status[p][Len(status[p])]
           c == Cmd(p)
<1> SUFFICES ASSUME made.outcome = "ok", made.cmd \in MakeCommand,
                    c \in UseCommand,
                    c.id = made.cmd.id, c.label = made.cmd.label,
                    c.ktype = made.cmd.ktype,
                    c.form \in Halves(made.cmd.form)
             PROVE  /\ outcome \notin {"ObjectNotFound", "TooManyObjects"}
                    /\ outcome = "ok" => objs \subseteq made.objs
  BY DEF UsesFresh
<1>1. pc[p] \in {"dispatch", "use"}
  BY KindsApart DEF TypeInv, AtCommand, WorkInv, InHand
<1>2. Matching(objects, made.cmd) = made.objs
  BY <1>1 DEF OnlyOwnKey
<1>3. Matching(objects, c) = made.objs
  BY <1>2 DEF Matching
<1>4. Len(status[p]) \in 1..Len(status[p]) /\ made \in Reply
  BY DEF TypeInv, TypeOK
<1>5. WholeKey(made)
  BY <1>4, BatchByBatch DEF GoodBatch
<1>6. /\ {o.class : o \in made.objs} = Halves(made.cmd.form)
      /\ \A o1, o2 \in made.objs : o1 # o2 => o1.class # o2.class
      /\ \A o \in made.objs : o.ktype = made.cmd.ktype
  BY <1>5 DEF WholeKey
<1>7. \A o \in Selected(objects, c) : o \in made.objs
  BY <1>3 DEF Selected
<1>8. \A o1, o2 \in Selected(objects, c) : o1 = o2
  <2>1. c.form # "any"
    <3>1. c.form \in KeyClasses
      BY HalvesType
    <3> QED BY <3>1 DEF KeyClasses
  <2>2. \A o \in Selected(objects, c) : o.class = c.form
    BY <2>1 DEF Selected
  <2> QED BY <1>6, <1>7, <2>2
<1> HIDE DEF made, c
<1>9. Selected(objects, c) # {}
  <2>1. PICK o \in made.objs : o.class = c.form
    BY <1>6
  <2>2. o \in Matching(objects, c) /\ o.ktype = c.ktype
    BY <1>3, <1>6, <2>1
  <2> QED BY <2>1, <2>2 DEF Selected
<1>10. outcome = "ok" => objs = Selected(objects, c)
  BY DEF Searched, FoundIsCurrent, c
<1> QED BY <1>7, <1>8, <1>9, <1>10 DEF Searched, c

FreshInv == FreshKeyIsUsed /\ OnlyOwnKey

LEMMA ReplyByReply ==
    FreshKeyIsUsed <=>
        \A p \in Procs : \A i \in 2..Len(status[p]) :
            UsesFresh(status[p][i - 1], status[p][i])
BY DEF FreshKeyIsUsed, UsesFresh

LEMMA UsesAfter ==
    ASSUME \A p \in Procs : \A i \in 2..Len(status'[p]) :
              UsesFresh(status'[p][i - 1], status'[p][i])
    PROVE  FreshKeyIsUsed'
<1>1. (\A p \in Procs : \A i \in 2..Len(status[p]) :
          UsesFresh(status[p][i - 1], status[p][i]))' => FreshKeyIsUsed'
  BY ReplyByReply, PTL
<1>2. (\A p \in Procs : \A i \in 2..Len(status[p]) :
          UsesFresh(status[p][i - 1], status[p][i]))'
  OBVIOUS
<1> QED BY <1>1, <1>2

(* The replies of an invocation and the next one it gives.                 *)
LEMMA OneMoreUse ==
    ASSUME NEW S, NEW replies \in Seq(S), NEW r \in S,
           \A i \in 2..Len(replies) : UsesFresh(replies[i - 1], replies[i]),
           replies # <<>> => UsesFresh(replies[Len(replies)], r)
    PROVE  \A i \in 2..Len(Append(replies, r)) :
              UsesFresh(Append(replies, r)[i - 1], Append(replies, r)[i])
<1> DEFINE new == Append(replies, r)
<1>1. /\ Len(new) = Len(replies) + 1 /\ Len(replies) \in Nat
      /\ \A i \in 1..Len(replies) : new[i] = replies[i]
      /\ new[Len(replies) + 1] = r
      /\ Len(replies) > 0 => replies # <<>>
  OBVIOUS
<1> HIDE DEF new
<1>2. ASSUME NEW i \in 2..Len(new) PROVE UsesFresh(new[i - 1], new[i])
  <2>1. CASE i = Len(replies) + 1
    <3>1. i - 1 = Len(replies) /\ Len(replies) > 0
      BY <1>1, <2>1
    <3> QED BY <1>1, <2>1, <3>1
  <2>2. CASE i # Len(replies) + 1
    <3>1. i \in 2..Len(replies) /\ i - 1 \in 1..Len(replies) /\ i \in 1..Len(replies)
      BY <1>1, <2>2
    <3> QED BY <1>1, <3>1
  <2> QED BY <2>1, <2>2
<1> QED BY <1>2 DEF new

(* Every object a create call makes is one its command's name finds.       *)
LEMMA CreatedMatches ==
    ASSUME TypeInv, WorkInv, NEW p \in Procs, pc[p] = "create",
           Matching(objects, Cmd(p)) = acted[p]
    PROVE  Matching(objects \cup Created(p), Cmd(p)) = acted[p] \cup Created(p)
<1>1. \A o \in Created(p) : o.id = newid[p] /\ o.label = NewLabel(Cmd(p))
  BY DEF Created
<1>2. Cmd(p).id # NONE => newid[p] = Cmd(p).id
  BY DEF WorkInv, InHand, NameGiven
<1>3. Cmd(p).label # NONE => NewLabel(Cmd(p)) = Cmd(p).label
  BY DEF NewLabel
<1> QED BY <1>1, <1>2, <1>3 DEF Matching

(* A step inside a command keeps OnlyOwnKey: nobody else changes the token.*)
LEMMA OwnKeyInside ==
    ASSUME AllLock, TypeInv, LockInv, WorkInv, OnlyOwnKey, NEW p \in Procs, Inside(p)
    PROVE  OnlyOwnKey'
<1>1. UNCHANGED script /\ \A q \in Procs \ {p} : pc'[q] \in {"idle", "lock"}
  <2>1. Running(p)
    BY InsideFrame DEF TypeInv, Running
  <2>2. \A q \in Procs \ {p} : pc'[q] = pc[q] /\ ~Running(q)
    BY <2>1, Alone, InsideFrame DEF TypeInv
  <2> QED BY <2>2, InsideFrame DEF Running, TypeInv, runVars
<1>2. ASSUME pc'[p] = "create" => Matching(objects', Cmd(p)') = acted'[p],
             pc'[p] \in {"dispatch", "use"} /\ status'[p] # <<>> =>
                LET last == status'[p][Len(status'[p])]
                IN  last.outcome = "ok" /\ last.cmd \in MakeCommand =>
                       Matching(objects', last.cmd) = last.objs
      PROVE  OnlyOwnKey'
  BY <1>1, <1>2 DEF OnlyOwnKey
<1>3. ASSUME NEW outcome, NEW objs, Return(p, outcome, objs),
             HasCmd(p), outcome \in Outcomes, objs \in SUBSET Object,
             outcome = "ok" /\ Cmd(p) \in MakeCommand =>
                Matching(objects', Cmd(p)) = objs
      PROVE  OnlyOwnKey'
  <2> DEFINE r == [cmd |-> Cmd(p), outcome |-> outcome, objs |-> objs]
  <2>1. r \in Reply /\ r.cmd = Cmd(p) /\ r.outcome = outcome /\ r.objs = objs
    BY <1>3, CmdType DEF Reply, TypeInv
  <2>2. /\ status'[p] = Append(status[p], r) /\ status[p] \in Seq(Reply)
        /\ pc'[p] \in {"dispatch", "exit"}
    BY <1>3 DEF Return, TypeInv, TypeOK
  <2> HIDE DEF r
  <2>3. status'[p][Len(status'[p])] = r
    BY <2>1, <2>2
  <2> QED BY <1>2, <1>3, <2>1, <2>2, <2>3
<1>4. ASSUME status'[p] = status[p] PROVE Cmd(p)' = Cmd(p)
  BY <1>1, <1>4 DEF Cmd
<1>5. CASE NameIsFree(p)
  <2>1. /\ pc[p] = "dispatch" /\ pc'[p] = "create" /\ UNCHANGED <<objects, status, acted>>
        /\ Matching(objects, Cmd(p)) = {}
    BY <1>5 DEF NameIsFree, Ready, Taken, TypeInv, TypeOK
  <2>2. acted[p] = {}
    BY <2>1 DEF WorkInv, Cleared
  <2> QED BY <1>2, <1>4, <2>1, <2>2
<1>6. CASE CreateObject(p)
  <2>1. /\ pc[p] = "create" /\ objects' = objects \cup Created(p)
        /\ Matching(objects', Cmd(p)) = acted[p] \cup Created(p)
    BY <1>6, CreatedMatches DEF CreateObject, OnlyOwnKey
  <2>2. CASE Tail(rest[p]) = <<>>
    <3>1. Return(p, "ok", acted[p] \cup Created(p))
      BY <1>6, <2>2 DEF CreateObject
    <3>2. HasCmd(p) /\ acted[p] \cup Created(p) \in SUBSET Object
      BY <2>1, CreatedType DEF Object, TypeInv, TypeOK
    <3> QED BY <1>3, <2>1, <3>1, <3>2 DEF Outcomes
  <2>3. CASE Tail(rest[p]) # <<>>
    <3>1. UNCHANGED <<pc, status>> /\ acted'[p] = acted[p] \cup Created(p)
      BY <1>6, <2>3 DEF CreateObject, TypeInv, TypeOK
    <3> QED BY <1>2, <1>4, <2>1, <3>1
  <2> QED BY <2>2, <2>3
<1>7. CASE FindAll(p) \/ VisitObject(p)
  <2>1. pc'[p] = "loop"
    BY <1>7 DEF FindAll, VisitObject, TypeInv, TypeOK
  <2> QED BY <1>2, <2>1
<1>8. CASE pc[p] = "dispatch" /\ pc'[p] = "use" /\ UNCHANGED <<objects, status>>
  BY <1>2, <1>8 DEF OnlyOwnKey
<1>9. CASE FindOne(p)
  <2>1. CASE \E outcome \in {"ObjectNotFound", "TooManyObjects"} : Return(p, outcome, {})
    BY <1>3, <1>9, <2>1, ReadyCmd DEF FindOne, Outcomes, TypeInv
  <2>2. CASE pc' = [pc EXCEPT ![p] = "use"] /\ UNCHANGED status
    BY <1>8, <1>9, <2>2 DEF FindOne, Ready, TypeInv, TypeOK, tokenVars
  <2> QED BY <1>9, <2>1, <2>2 DEF FindOne
<1>10. CASE Refuse(p) \/ NameIsTaken(p) \/ HandleInvalid(p) \/ CallFails(p)
            \/ AnswerLost(p)
  <2>1. HasCmd(p) /\ \E outcome \in Outcomes \ {"ok"} : Return(p, outcome, {})
    BY <1>10, ReadyCmd DEF Refuse, NameIsTaken, HandleInvalid, CallFails, AnswerLost,
                 Outcomes, TypeInv, AtCommand
  <2> QED BY <1>3, <2>1
<1>11. CASE WriteObject(p) \/ EndLoop(p) \/ UseObject(p)
  <2>1. HasCmd(p) /\ Cmd(p) \notin MakeCommand
    BY <1>11, ReadyCmd, KindsApart
    DEF WriteObject, EndLoop, UseObject, WorkInv, InHand, OneInHand, TypeInv,
        AtCommand
  <2>2. pc'[p] = "dispatch"
    BY <1>11 DEF WriteObject, EndLoop, UseObject, Return, TypeInv, TypeOK
  <2>3. \E outcome \in Outcomes, objs \in SUBSET Object : Return(p, outcome, objs)
    BY <2>2, InsideReplies
  <2> QED BY <1>3, <2>1, <2>3
<1> QED BY <1>5, <1>6, <1>7, <1>9, <1>10, <1>11 DEF Inside

(* Every step keeps FreshInv.                                              *)
LEMMA FreshNext ==
    ASSUME AllLock
    PROVE  TypeInv /\ LockInv /\ WorkInv /\ ReplyInv /\ FoundIsCurrent /\ FreshInv
              /\ [Next]_vars => FreshInv'
<1> SUFFICES ASSUME TypeInv, LockInv, WorkInv, ReplyInv, FoundIsCurrent,
                    FreshInv, [Next]_vars
             PROVE  FreshInv'
  OBVIOUS
<1>1. \A q \in Procs : \A i \in 2..Len(status[q]) :
          UsesFresh(status[q][i - 1], status[q][i])
  BY ReplyByReply DEF FreshInv
<1>2. ASSUME \A q \in Procs : \A i \in 2..Len(status'[q]) :
                UsesFresh(status'[q][i - 1], status'[q][i])
      PROVE  FreshKeyIsUsed'
  BY <1>2, UsesAfter
<1>3. CASE UNCHANGED vars
  <2>1. UNCHANGED <<objects, pc, status, acted>> /\ \A q \in Procs : Cmd(q)' = Cmd(q)
    BY <1>3 DEF vars, tokenVars, runVars, workVars, Cmd
  <2>2. FreshKeyIsUsed'
    BY <1>1, <1>2, <2>1
  <2>3. OnlyOwnKey'
    BY <2>1 DEF FreshInv, OnlyOwnKey
  <2> QED BY <2>2, <2>3 DEF FreshInv
<1>4. ASSUME NEW p \in Procs,
             Start(p) \/ AcquireLock(p) \/ Connect(p) \/ Gone(p)
      PROVE  FreshInv'
  <2>1. /\ UNCHANGED objects /\ status'[p] = <<>> /\ pc'[p] \notin {"create", "use"}
        /\ \A q \in Procs \ {p} :
              /\ pc'[q] = pc[q] /\ status'[q] = status[q] /\ Cmd(q)' = Cmd(q)
              /\ acted'[q] = acted[q]
    <3>1. CASE Gone(p)
      BY <3>1 DEF Gone, Clear, tokenVars, Cmd, TypeInv, TypeOK
    <3>2. CASE Start(p) \/ AcquireLock(p) \/ Connect(p)
      BY <3>2 DEF Start, AcquireLock, Connect, tokenVars, workVars, Cmd, TypeInv,
                  TypeOK, WorkInv, Begun
    <3> QED BY <1>4, <3>1, <3>2
  <2>2. \A q \in Procs : \A i \in 2..Len(status'[q]) :
            UsesFresh(status'[q][i - 1], status'[q][i])
    BY <1>1, <2>1
  <2>3. OnlyOwnKey'
    BY <2>1 DEF FreshInv, OnlyOwnKey
  <2> QED BY <1>2, <2>2, <2>3 DEF FreshInv
<1>5. ASSUME NEW p \in Procs, Inside(p)
      PROVE  FreshInv'
  <2>1. OnlyOwnKey'
    BY <1>5, OwnKeyInside DEF FreshInv
  <2>2. /\ pc[p] \in {"dispatch", "create", "loop", "use"}
        /\ \A q \in Procs \ {p} : status'[q] = status[q]
    BY <1>5, InsideFrame DEF TypeInv
  <2>3. \A i \in 2..Len(status'[p]) : UsesFresh(status'[p][i - 1], status'[p][i])
    <3>1. CASE status'[p] = status[p]
      BY <1>1, <3>1
    <3>2. ASSUME NEW outcome \in Outcomes, NEW objs \in SUBSET Object,
                 Return(p, outcome, objs), HasCmd(p), Searched(p, outcome, objs)
          PROVE  \A i \in 2..Len(status'[p]) :
                    UsesFresh(status'[p][i - 1], status'[p][i])
      <4> DEFINE r == [cmd |-> Cmd(p), outcome |-> outcome, objs |-> objs]
      <4>1. r \in Reply
        BY <3>2, CmdType DEF Reply, TypeInv
      <4>2. status'[p] = Append(status[p], r) /\ status[p] \in Seq(Reply)
        BY <3>2 DEF Return, TypeInv, TypeOK
      <4>3. status[p] # <<>> => UsesFresh(status[p][Len(status[p])], r)
        BY <2>2, <3>2, NextUsesFresh DEF FreshInv
      <4> HIDE DEF r
      <4> QED BY <1>1, <4>1, <4>2, <4>3, OneMoreUse
    <3> QED BY <1>5, <3>1, <3>2, InsideReplies
  <2> QED BY <1>1, <1>2, <2>1, <2>2, <2>3 DEF FreshInv
<1> QED BY <1>3, <1>4, <1>5, NextCases

(* Under the lock, nothing but the key just made answers to its name until *)
(* another command follows.                                                *)
THEOREM FreshHeld == ASSUME AllLock PROVE Spec => []FreshInv
<1>1. Init => FreshInv
  BY DEF Init, FreshInv, FreshKeyIsUsed, OnlyOwnKey
<1>2. TypeInv /\ LockInv /\ WorkInv /\ ReplyInv /\ FoundIsCurrent /\ FreshInv
         /\ [Next]_vars => FreshInv'
  BY FreshNext
<1> QED BY <1>1, <1>2, TypeCorrect, LockHeld, WorkHeld, RepliesHonest,
           NoStaleHandle, PTL DEF Spec

(* If every invocation passes --lockfile, a batch that makes a key and     *)
(* next uses it by its name finds that key and no other.                   *)
THEOREM FreshKeyFound == ASSUME AllLock PROVE Spec => []FreshKeyIsUsed
<1>1. FreshInv => FreshKeyIsUsed
  BY DEF FreshInv
<1> QED BY <1>1, FreshHeld, PTL
=============================================================================
