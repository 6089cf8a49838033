--------------------------- MODULE HsmStore_proofs ---------------------------
(***************************************************************************)
(* When every invocation takes the lock, hsmtool implements TokenStore:    *)
(* its commands take effect on the token one at a time, whole or, if they  *)
(* fail or are killed, in part.                                            *)
(***************************************************************************)
EXTENDS HsmStore, HsmTool_proofs

(* The abstract store speaks of the same commands and the same searches.   *)
LEMMA SameShapes ==
    /\ Store!MakeShapes = MakeShapes
    /\ Store!UseShapes = UseShapes
    /\ Store!LoopShapes = LoopShapes
    /\ Store!ObjectWrite = ObjectWrite
<1>1. Store!MakeShapes = MakeShapes
  BY DEF MakeShapes, Shape, GeneratePair, RsaGenerate, EcdsaGenerate,
         MldsaGenerate, SlhDsaGenerate, AesGenerate, KdfGenerate, ImportHalf,
         RsaImport, EcdsaImport, MldsaImport, SlhDsaImport, AesImport, KdfImport,
         Store!MakeShapes, Store!Shape, Store!GeneratePair, Store!RsaGenerate,
         Store!EcdsaGenerate, Store!MldsaGenerate, Store!SlhDsaGenerate,
         Store!AesGenerate, Store!KdfGenerate, Store!ImportHalf,
         Store!RsaImport, Store!EcdsaImport, Store!MldsaImport,
         Store!SlhDsaImport, Store!AesImport, Store!KdfImport
<1>2. Store!UseShapes = UseShapes
  BY DEF UseShapes, Shape, UseHalf, RsaSign, EcdsaSign, MldsaSign, SlhDsaSign,
         RsaDecrypt, RsaVerify, EcdsaVerify, MldsaVerify, SlhDsaVerify,
         RsaEncrypt, ExportHalf, RsaExport, EcdsaExport, MldsaExport,
         SlhDsaExport, AesExport, KdfExport, ObjectRead,
         Store!UseShapes, Store!Shape, Store!UseHalf, Store!RsaSign,
         Store!EcdsaSign, Store!MldsaSign, Store!SlhDsaSign,
         Store!RsaDecrypt, Store!RsaVerify, Store!EcdsaVerify,
         Store!MldsaVerify, Store!SlhDsaVerify, Store!RsaEncrypt,
         Store!ExportHalf, Store!RsaExport, Store!EcdsaExport,
         Store!MldsaExport, Store!SlhDsaExport, Store!AesExport,
         Store!KdfExport, Store!ObjectRead
<1>3. Store!LoopShapes = LoopShapes /\ Store!ObjectWrite = ObjectWrite
  BY DEF LoopShapes, ObjectShow, ObjectDestroy, ObjectWrite, Shape,
         Store!LoopShapes, Store!ObjectShow, Store!ObjectDestroy,
         Store!ObjectWrite, Store!Shape
<1> QED BY <1>1, <1>2, <1>3

LEMMA SameCommands ==
    /\ Store!MakeCommand = MakeCommand
    /\ Store!UseCommand = UseCommand
    /\ Store!LoopCommand = LoopCommand
    /\ Store!WriteCommand = WriteCommand
BY SameShapes DEF MakeCommand, UseCommand, LoopCommand, WriteCommand, Named,
   Store!MakeCommand, Store!UseCommand, Store!LoopCommand, Store!WriteCommand,
   Store!Named

LEMMA SameSearches ==
    ASSUME NEW objs, NEW c
    PROVE  /\ Store!Matching(objs, c) = Matching(objs, c)
           /\ Store!Selected(objs, c) = Selected(objs, c)
           /\ Store!KeysOf(objs) = KeysOf(objs)
           /\ Store!NewLabel(c) = NewLabel(c)
           /\ Store!NoCriteria(c) = NoCriteria(c)
BY DEF Matching, Selected, KeysOf, KeyClasses, NewLabel, NoCriteria,
       Store!Matching, Store!Selected, Store!KeysOf, Store!KeyClasses,
       Store!NewLabel, Store!NoCriteria
-----------------------------------------------------------------------------
(* What the proof knows of the state of hsmtool.                           *)
HsmInv ==
    /\ TypeInv /\ LockInv /\ NameInv /\ WorkInv /\ ReplyInv
    /\ OnlyOwnKey /\ FoundIsCurrent /\ ActedMatch

(* A loop visits what its search found, under the lock.                    *)
LEMMA VisitMatches ==
    ASSUME WorkInv, FoundIsCurrent, NEW p \in Procs, pc[p] = "loop"
    PROVE  /\ Cmd(p) \in LoopCommand /\ Cmd(p).op \in {"show", "destroy"}
           /\ \A o \in todo[p] : o \in Matching(objects, Cmd(p))
<1>1. Cmd(p) \in LoopCommand /\ Cmd(p).op \in {"show", "destroy"}
  BY CommandKinds DEF WorkInv, InHand
<1> QED BY <1>1 DEF FoundIsCurrent

(* Every step keeps ActedMatch.                                            *)
LEMMA ActedMatchNext ==
    TypeInv /\ WorkInv /\ FoundIsCurrent /\ ActedMatch /\ [Next]_vars
        => ActedMatch'
<1> SUFFICES ASSUME TypeInv, WorkInv, FoundIsCurrent, ActedMatch, [Next]_vars
             PROVE  ActedMatch'
  OBVIOUS
<1>1. ASSUME NEW p \in Procs,
             pc'[p] = "loop" => Matching(acted'[p], Cmd(p)') = acted'[p],
             \A q \in Procs \ {p} : /\ pc'[q] = pc[q] /\ acted'[q] = acted[q]
                                    /\ Cmd(q)' = Cmd(q)
      PROVE  ActedMatch'
  BY <1>1 DEF ActedMatch
<1>2. CASE UNCHANGED vars
  BY <1>2 DEF ActedMatch, vars, runVars, workVars, Cmd
<1>3. ASSUME NEW p \in Procs,
             Start(p) \/ AcquireLock(p) \/ Connect(p) \/ Gone(p)
      PROVE  ActedMatch'
  <2>1. CASE Gone(p)
    <3>1. /\ pc'[p] # "loop"
          /\ \A q \in Procs \ {p} :
                /\ pc'[q] = pc[q] /\ acted'[q] = acted[q] /\ Cmd(q)' = Cmd(q)
      BY <2>1 DEF Gone, Clear, Cmd, TypeInv, TypeOK
    <3> QED BY <1>1, <3>1
  <2>2. CASE Start(p) \/ AcquireLock(p) \/ Connect(p)
    <3>1. /\ pc'[p] # "loop"
          /\ \A q \in Procs \ {p} :
                /\ pc'[q] = pc[q] /\ acted'[q] = acted[q] /\ Cmd(q)' = Cmd(q)
      BY <2>2 DEF Start, AcquireLock, Connect, workVars, Cmd, TypeInv, TypeOK
    <3> QED BY <1>1, <3>1
  <2> QED BY <1>3, <2>1, <2>2
<1>4. ASSUME NEW p \in Procs, Inside(p)
      PROVE  ActedMatch'
  <2>1. /\ UNCHANGED script
        /\ \A q \in Procs \ {p} :
              /\ pc'[q] = pc[q] /\ acted'[q] = acted[q] /\ Cmd(q)' = Cmd(q)
    BY <1>4, InsideFrame DEF TypeInv, runVars, Cmd
  <2>2. CASE pc'[p] # "loop"
    BY <1>1, <2>1, <2>2
  <2>3. CASE FindAll(p)
    <3>1. acted'[p] = {}
      BY <2>3 DEF FindAll, Ready, WorkInv, Cleared
    <3> QED BY <1>1, <2>1, <3>1 DEF Matching
  <2>4. CASE VisitObject(p)
    <3>1. PICK o \in todo[p] : acted'[p] = acted[p] \cup {o}
      BY <2>4 DEF VisitObject, TypeInv, TypeOK
    <3>2. pc[p] = "loop" /\ Cmd(p)' = Cmd(p)
      BY <2>1, <2>4 DEF VisitObject, Cmd
    <3>3. o \in Matching(objects, Cmd(p)) /\ Matching(acted[p], Cmd(p)) = acted[p]
      BY <3>1, <3>2, VisitMatches DEF ActedMatch
    <3>4. Matching(acted[p] \cup {o}, Cmd(p)) = acted[p] \cup {o}
      BY <3>3 DEF Matching
    <3> QED BY <1>1, <2>1, <3>1, <3>2, <3>4
  <2>5. CASE NameIsFree(p) \/ CreateObject(p)
    BY <2>2, <2>5 DEF NameIsFree, CreateObject, Return, TypeInv, TypeOK
  <2>6. CASE \/ Refuse(p) \/ NameIsTaken(p) \/ WriteObject(p) \/ EndLoop(p)
             \/ FindOne(p) \/ UseObject(p) \/ HandleInvalid(p) \/ CallFails(p)
             \/ AnswerLost(p)
    BY <2>2, <2>6 DEF Refuse, NameIsTaken, WriteObject, EndLoop, FindOne,
                      UseObject, HandleInvalid, CallFails, AnswerLost, Return,
                      TypeInv, TypeOK
  <2> QED BY <1>4, <2>3, <2>4, <2>5, <2>6 DEF Inside
<1> QED BY <1>2, <1>3, <1>4, NextCases

(* All that the proof needs holds throughout.                              *)
THEOREM HsmInvHolds == ASSUME AllLock PROVE Spec => []HsmInv
<1>1. Init => ActedMatch
  BY DEF Init, ActedMatch
<1>2. FreshInv => OnlyOwnKey
  BY DEF FreshInv
<1>3. TypeInv /\ LockInv /\ NameInv /\ WorkInv /\ ReplyInv
         /\ OnlyOwnKey /\ FoundIsCurrent /\ ActedMatch => HsmInv
  BY DEF HsmInv
<1> QED BY <1>1, <1>2, <1>3, ActedMatchNext, TypeCorrect, LockHeld, NamesSafe,
           WorkHeld, RepliesHonest, FreshHeld, NoStaleHandle, PTL DEF Spec
-----------------------------------------------------------------------------
(* The store as it is when p alone may be inside a command.                *)
VisibleTo(p) ==
    IF pc[p] = "create" THEN objects \ acted[p]
    ELSE IF pc[p] = "loop" /\ Cmd(p).op = "destroy" THEN objects \cup acted[p]
    ELSE objects

Solo(p) == \A q \in Procs \ {p} : pc[q] \notin {"create", "loop"}

LEMMA VisibleAlone == \A p \in Procs : Solo(p) => Visible = VisibleTo(p)
<1> SUFFICES ASSUME NEW p \in Procs, Solo(p) PROVE Visible = VisibleTo(p)
  OBVIOUS
<1>1. Making = IF pc[p] = "create" THEN acted[p] ELSE {}
  BY DEF Making, Solo
<1>2. Destroying = IF pc[p] = "loop" /\ Cmd(p).op = "destroy" THEN acted[p] ELSE {}
  BY DEF Destroying, Solo
<1> QED BY <1>1, <1>2 DEF Visible, VisibleTo

LEMMA VisibleAfter == (\A p \in Procs : Solo(p) => Visible = VisibleTo(p))'
BY VisibleAlone, PTL

(* With the lock taken by all, a running process is alone.                 *)
LEMMA RunsSolo ==
    ASSUME AllLock, TypeInv, LockInv, NEW p \in Procs, Running(p)
    PROVE  Solo(p) /\ \A q \in Procs \ {p} : pc[q] \in {"idle", "lock"}
BY Alone DEF Solo, Running, TypeInv, TypeOK, PCs

LEMMA InsideSolo ==
    ASSUME AllLock, TypeInv, LockInv, NEW p \in Procs, Inside(p)
    PROVE  /\ Visible = VisibleTo(p)
           /\ Visible' = VisibleTo(p)'
<1>1. pc[p] \in {"dispatch", "create", "loop", "use"}
  BY InsideFrame DEF TypeInv
<1>2. \A q \in Procs \ {p} : pc'[q] = pc[q]
  BY InsideFrame DEF TypeInv
<1>3. Solo(p)
  BY <1>1, RunsSolo DEF Running
<1>4. Solo(p)'
  BY <1>2, <1>3 DEF Solo
<1> QED BY <1>3, <1>4, VisibleAlone, VisibleAfter

(* A command that returns answers in the abstract store.                   *)
LEMMA Answers ==
    ASSUME NEW p \in Procs, NEW outcome, NEW objs, Return(p, outcome, objs)
    PROVE  Store!Answer(p, Cmd(p), outcome, objs)
BY DEF Return, Store!Answer

(* A command of a batch that has gone well so far is a step of the store.  *)
LEMMA Performs ==
    ASSUME HsmInv, NEW p \in Procs, HasCmd(p), pc[p] # "exit",
           Store!Perform(p, Cmd(p))
    PROVE  Store!StoreNext
<1>1. Cmd(p) \in Commands
  BY CmdType DEF HsmInv, TypeInv
<1>2. Store!Open(p)
  BY DEF HsmInv, ReplyInv, BatchStopsAtError, Store!Open
<1> QED BY <1>1, <1>2 DEF Store!StoreNext

LEMMA Ends ==
    ASSUME NEW p \in Procs, NEW c \in Commands, Store!Partial(c),
           status' = [status EXCEPT ![p] = <<>>]
    PROVE  Store!StoreNext
BY DEF Store!StoreNext, Store!End
-----------------------------------------------------------------------------
(* What the create calls of p have made, with the next call or without it: *)
(* the first so many halves of one new key.                                *)
MadeBy(p, made, n) ==
    \/ made = acted[p] /\ acted[p] # {} /\ n = 1
    \/ made = acted[p] \cup Created(p) /\ n = IF acted[p] = {} THEN 1 ELSE 2

LEMMA MadeHalves ==
    ASSUME HsmInv, NEW p \in Procs, pc[p] = "create",
           NEW made, NEW n, MadeBy(p, made, n), Visible = objects \ acted[p]
    PROVE  /\ Store!NewHalves(Cmd(p), made, n)
           /\ n \in 1..Len(Cmd(p).calls)
           /\ made \cap Visible = {}
           /\ Store!Matching(Visible, Cmd(p)) = {}
           /\ Tail(rest[p]) = <<>> /\ made = acted[p] \cup Created(p) =>
                 n = Len(Cmd(p).calls)
<1> DEFINE c == Cmd(p)
<1>1. /\ c \in MakeCommand /\ newid[p] # NONE
      /\ c.id # NONE => newid[p] = c.id
      /\ \A o \in acted[p] : o.id = newid[p] /\ o.label = NewLabel(c)
      /\ HalfMade(p)
  BY DEF HsmInv, TypeInv, AtCommand, WorkInv, InHand, NameGiven, HalfWay
<1>2. /\ \A o \in Created(p) : /\ o.id = newid[p] /\ o.label = NewLabel(c)
                               /\ o.ktype = c.ktype /\ o.serial = serial
                               /\ o.class \in Head(rest[p])
      /\ \A o1, o2 \in Created(p) : o1.class = o2.class => o1 = o2
      /\ \A k \in Head(rest[p]) : \E o \in Created(p) : o.class = k
  <2>1. ASSUME NEW k \in Head(rest[p]) PROVE \E o \in Created(p) : o.class = k
    <3> DEFINE o == [serial |-> serial, class |-> k, ktype |-> c.ktype,
                     id |-> newid[p], label |-> NewLabel(c)]
    <3>1. o \in Created(p) /\ o.class = k
      BY DEF Created
    <3> QED BY <3>1
  <2> QED BY <2>1 DEF Created
<1>3. /\ \A o \in made : o.id = newid[p] /\ o.label = NewLabel(c)
      /\ made \subseteq acted[p] \cup Created(p)
  BY <1>1, <1>2 DEF MadeBy
<1>4. made \cap Visible = {}
  <2>1. \A o \in objects : o.serial # serial
    <3>1. \A o \in objects : o.serial \in Nat /\ o.serial < serial
      BY DEF HsmInv, NameInv, Fresh, TypeInv, TypeOK, Object, KeyObject, DataObject
    <3>2. serial \in Nat
      BY DEF HsmInv, TypeInv, TypeOK
    <3> QED BY <3>1, <3>2
  <2> QED BY <1>2, <1>3, <2>1
<1>5. Store!Matching(Visible, c) = {}
  <2>1. Matching(objects, c) = acted[p]
    BY DEF HsmInv, OnlyOwnKey
  <2>2. Matching(Visible, c) = {}
    BY <2>1 DEF Matching
  <2> QED BY <2>2, SameSearches
<1>6. ASSUME NEW k \in KeysOf(Visible)
      PROVE  k.id # newid[p] \/ k.label # NewLabel(c)
  BY <1>6 DEF KeysOf, HsmInv, NameInv, NameStaysFree
<1>7. ASSUME {o.class : o \in made} = UNION {c.calls[i] : i \in 1..n},
             \A o1, o2 \in made : o1 # o2 => o1.class # o2.class,
             \A o \in made : o.ktype = c.ktype
      PROVE  Store!NewHalves(c, made, n)
  BY <1>1, <1>3, <1>6, <1>7, SameSearches DEF Store!NewHalves, Store!FirstCalls
<1>8. CASE acted[p] = {} /\ rest[p] = c.calls
  <2>1. made = Created(p) /\ n = 1
    BY <1>8 DEF MadeBy
  <2>2. ASSUME NEW H, c.calls = <<H>>
        PROVE  Head(c.calls) = c.calls[1] /\ Len(c.calls) = 1
    BY <2>2
  <2>3. ASSUME NEW k, NEW l, c.calls = <<{k}, {l}>>
        PROVE  Head(c.calls) = c.calls[1] /\ Len(c.calls) = 2 /\ Tail(c.calls) # <<>>
    BY <2>3
  <2>4. UNION {c.calls[i] : i \in 1..n} = c.calls[1]
    <3>1. 1..n = {1}
      BY <2>1
    <3> QED BY <3>1
  <2>5. {o.class : o \in made} = c.calls[1]
    BY <1>1, <1>2, <1>8, <2>1, <2>2, <2>3, CallsShape
  <2>6. Store!NewHalves(c, made, n)
    BY <1>2, <1>7, <2>1, <2>4, <2>5
  <2>7. n \in 1..Len(c.calls) /\ (Tail(rest[p]) = <<>> => n = Len(c.calls))
    <3>1. \/ Len(c.calls) = 1
          \/ Len(c.calls) = 2 /\ Tail(c.calls) # <<>>
      BY <1>1, <2>2, <2>3, CallsShape
    <3>2. Len(c.calls) = 2 => Tail(rest[p]) # <<>>
      BY <1>8, <3>1
    <3>3. CASE Len(c.calls) = 1
      BY <2>1, <3>3
    <3>4. CASE Len(c.calls) = 2
      BY <2>1, <3>2, <3>4
    <3> QED BY <3>1, <3>3, <3>4
  <2> QED BY <1>4, <1>5, <2>6, <2>7
<1>9. ASSUME NEW k \in KeyClasses, NEW l \in KeyClasses, NEW o \in acted[p],
             c.calls = <<{k}, {l}>>, rest[p] = <<{l}>>,
             acted[p] = {o}, o.class = k, o.ktype = c.ktype
      PROVE  /\ Store!NewHalves(c, made, n)
             /\ n \in 1..Len(c.calls)
             /\ made = acted[p] \cup Created(p) => n = Len(c.calls)
  <2>1. k # l
    <3>1. c.calls # <<Halves(c.form)>>
      BY <1>9
    <3>2. PICK k1 \in KeyClasses, l1 \in KeyClasses :
              c.calls = <<{k1}, {l1}>> /\ {k1, l1} = {"public", "private"}
      BY <1>1, <3>1, CallsShape
    <3>3. {k1} = {k} /\ {l1} = {l}
      BY <1>9, <3>2
    <3> QED BY <3>2, <3>3
  <2>2. Len(c.calls) = 2 /\ c.calls[1] = {k} /\ c.calls[2] = {l} /\ Head(rest[p]) = {l}
    BY <1>9
  <2>3. /\ \A x \in Created(p) : x.class = l
        /\ \E x \in Created(p) : Created(p) = {x} /\ x.class = l
    BY <1>2, <2>2
  <2>4. CASE made = acted[p] /\ n = 1
    <3>1. 1..n = {1}
      BY <2>4
    <3>2. UNION {c.calls[i] : i \in 1..n} = {k}
      BY <2>2, <3>1
    <3>3. {x.class : x \in made} = {k}
      BY <1>9, <2>4
    <3>4. Store!NewHalves(c, made, n)
      BY <1>7, <1>9, <2>4, <3>2, <3>3
    <3>5. made # acted[p] \cup Created(p)
      BY <1>9, <2>1, <2>3, <2>4
    <3> QED BY <2>2, <2>4, <3>4, <3>5
  <2>5. CASE made = acted[p] \cup Created(p) /\ n = 2
    <3>1. 1..n = {1, 2}
      BY <2>5
    <3>2. UNION {c.calls[i] : i \in 1..n} = {k, l}
      BY <2>2, <3>1
    <3>3. {x.class : x \in made} = {k, l}
      BY <1>9, <2>3, <2>5
    <3>4. \A x, y \in made : x # y => x.class # y.class
      BY <1>9, <2>1, <2>3, <2>5
    <3>5. \A x \in made : x.ktype = c.ktype
      BY <1>2, <1>9, <2>5
    <3>6. Store!NewHalves(c, made, n)
      BY <1>7, <3>2, <3>3, <3>4, <3>5
    <3> QED BY <2>2, <2>5, <3>6
  <2> QED BY <1>9, <2>4, <2>5 DEF MadeBy
<1> QED BY <1>1, <1>4, <1>5, <1>8, <1>9 DEF HalfMade

(* A key left half made is a part of what its command does.                *)
LEMMA PartialKey ==
    ASSUME HsmInv, NEW p \in Procs, pc[p] = "create",
           Visible = objects \ acted[p],
           \/ Visible' = objects
           \/ Visible' = objects \cup Created(p)
    PROVE  Store!Partial(Cmd(p))
<1>1. acted[p] \subseteq objects /\ Cmd(p) \in MakeCommand
  BY DEF HsmInv, OnlyOwnKey, Matching, TypeInv, AtCommand
<1>2. CASE Visible' = Visible
  BY <1>2 DEF Store!Partial
<1>3. ASSUME NEW made, NEW n, MadeBy(p, made, n), Visible' = Visible \cup made
      PROVE  Store!Partial(Cmd(p))
  <2>1. /\ Store!NewHalves(Cmd(p), made, n) /\ n \in 1..Len(Cmd(p).calls)
        /\ made \cap Visible = {} /\ Store!Matching(Visible, Cmd(p)) = {}
    BY <1>3, MadeHalves
  <2>2. Visible' \ Visible = made /\ Visible \subseteq Visible'
    BY <1>3, <2>1
  <2>3. Store!NewHalves(Cmd(p), Visible' \ Visible, n)
    BY <2>1, <2>2
  <2> QED BY <1>1, <2>1, <2>2, <2>3, SameCommands DEF Store!Partial
<1>4. CASE Visible' = objects
  <2>1. CASE acted[p] = {}
    BY <1>2, <1>4, <2>1
  <2>2. CASE acted[p] # {}
    BY <1>1, <1>3, <1>4, <2>2 DEF MadeBy
  <2> QED BY <2>1, <2>2
<1>5. CASE Visible' = objects \cup Created(p)
  <2>1. Visible' = Visible \cup (acted[p] \cup Created(p))
    BY <1>1, <1>5
  <2>2. \E n : MadeBy(p, acted[p] \cup Created(p), n)
    BY DEF MadeBy
  <2> QED BY <1>3, <2>1, <2>2
<1> QED BY <1>4, <1>5

(* The last create call completes the key in the abstract store.           *)
LEMMA MakesKey ==
    ASSUME HsmInv, NEW p \in Procs, pc[p] = "create", Tail(rest[p]) = <<>>,
           Visible = objects \ acted[p],
           Visible' = objects \cup Created(p),
           Return(p, "ok", acted[p] \cup Created(p))
    PROVE  Store!Make(p, Cmd(p))
<1>1. acted[p] \subseteq objects /\ Cmd(p) \in MakeCommand
  BY DEF HsmInv, OnlyOwnKey, Matching, TypeInv, AtCommand
<1>2. PICK made, n : MadeBy(p, made, n) /\ made = acted[p] \cup Created(p)
  BY DEF MadeBy
<1>3. /\ Store!NewHalves(Cmd(p), made, n) /\ n = Len(Cmd(p).calls)
      /\ made \cap Visible = {} /\ Store!Matching(Visible, Cmd(p)) = {}
  <2>1. MadeBy(p, made, n) /\ made = acted[p] \cup Created(p)
    BY <1>2
  <2>2. /\ Store!NewHalves(Cmd(p), made, n)
        /\ made \cap Visible = {} /\ Store!Matching(Visible, Cmd(p)) = {}
    BY <2>1, MadeHalves
  <2>3. n = Len(Cmd(p).calls)
    BY <2>1, MadeHalves
  <2> QED BY <2>2, <2>3
<1>4. Visible' \ Visible = made /\ Visible \subseteq Visible'
  BY <1>1, <1>2, <1>3
<1>5. Store!NewHalves(Cmd(p), Visible' \ Visible, Len(Cmd(p).calls))
  BY <1>3, <1>4
<1>6. Store!Answer(p, Cmd(p), "ok", Visible' \ Visible)
  BY <1>2, <1>4, Answers
<1> QED BY <1>1, <1>3, <1>4, <1>5, <1>6, SameCommands DEF Store!Make

(* A destroy left half way is a part of what its command does.             *)
LEMMA PartialDestroy ==
    ASSUME HsmInv, NEW p \in Procs, pc[p] = "loop", Cmd(p).op = "destroy",
           Visible = objects \cup acted[p],
           \/ Visible' = objects
           \/ \E o \in todo[p] : Visible' = objects \ {o}
    PROVE  Store!Partial(Cmd(p))
<1>1. Cmd(p) \in LoopCommand
  BY VisitMatches DEF HsmInv
<1>2. Matching(acted[p], Cmd(p)) = acted[p]
  BY DEF HsmInv, ActedMatch
<1>3. Visible' \subseteq Visible
  OBVIOUS
<1>4. Visible \ Visible' \subseteq Matching(Visible, Cmd(p))
  <2>1. \A o \in todo[p] : o \in Matching(objects, Cmd(p))
    BY VisitMatches DEF HsmInv
  <2>2. \A o \in Visible \ Visible' : o \in acted[p] \/ o \in todo[p]
    OBVIOUS
  <2> QED BY <1>2, <2>1, <2>2 DEF Matching
<1>5. Visible \ Visible' \subseteq Store!Matching(Visible, Cmd(p))
  BY <1>4, SameSearches
<1> QED BY <1>1, <1>3, <1>5, SameCommands DEF Store!Partial
-----------------------------------------------------------------------------
(* Each step inside a command is a step of the store or changes nothing    *)
(* that is seen of it.  First the searches and the calls of a make.        *)
LEMMA MakeImplements ==
    ASSUME AllLock, HsmInv, NEW p \in Procs, Inside(p),
           NameIsFree(p) \/ NameIsTaken(p) \/ CreateObject(p)
    PROVE  Store!StoreNext \/ UNCHANGED <<Visible, status>>
<1>1. Visible = VisibleTo(p) /\ Visible' = VisibleTo(p)'
  BY InsideSolo DEF HsmInv
<1>2. CASE NameIsFree(p)
  <2>1. /\ pc[p] = "dispatch" /\ pc'[p] = "create" /\ acted'[p] = {}
        /\ UNCHANGED <<objects, status>>
    BY <1>2 DEF NameIsFree, Ready, HsmInv, TypeInv, TypeOK, WorkInv, Cleared
  <2> QED BY <1>1, <2>1 DEF VisibleTo
<1>3. CASE NameIsTaken(p)
  <2>1. /\ pc[p] = "dispatch" /\ HasCmd(p) /\ Cmd(p) \in MakeCommand
        /\ Matching(objects, Cmd(p)) # {} /\ UNCHANGED objects
        /\ Return(p, "ObjectExists", {})
    BY <1>3 DEF NameIsTaken, Ready, Taken, tokenVars
  <2>2. pc'[p] \in {"dispatch", "exit"}
    BY <2>1 DEF Return, HsmInv, TypeInv, TypeOK
  <2>3. Visible = objects /\ Visible' = objects
    BY <1>1, <2>1, <2>2 DEF VisibleTo
  <2>4. Store!Reject(p, Cmd(p))
    BY <2>1, <2>3, Answers, SameCommands, SameSearches DEF Store!Reject
  <2> QED BY <2>1, <2>4, Performs DEF Store!Perform
<1>4. CASE CreateObject(p)
  <2>1. /\ pc[p] = "create" /\ objects' = objects \cup Created(p) /\ HasCmd(p)
        /\ Visible = objects \ acted[p]
    BY <1>1, <1>4 DEF CreateObject, VisibleTo, HsmInv, TypeInv, AtCommand
  <2>2. CASE Tail(rest[p]) = <<>>
    <3>1. Return(p, "ok", acted[p] \cup Created(p))
      BY <1>4, <2>2 DEF CreateObject
    <3>2. pc'[p] = "dispatch"
      BY <3>1 DEF Return, HsmInv, TypeInv, TypeOK
    <3>3. Visible' = objects \cup Created(p)
      BY <1>1, <2>1, <3>2 DEF VisibleTo
    <3>4. Store!Make(p, Cmd(p))
      BY <2>1, <2>2, <3>1, <3>3, MakesKey
    <3> QED BY <2>1, <3>4, Performs DEF Store!Perform
  <2>3. CASE Tail(rest[p]) # <<>>
    <3>1. UNCHANGED <<pc, status>> /\ acted'[p] = acted[p] \cup Created(p)
      BY <1>4, <2>3 DEF CreateObject, HsmInv, TypeInv, TypeOK
    <3>2. Visible' = (objects \cup Created(p)) \ (acted[p] \cup Created(p))
      BY <1>1, <2>1, <3>1 DEF VisibleTo
    <3>3. Created(p) \cap objects = {}
      <4>1. \A o \in objects : o.serial \in Nat /\ o.serial < serial
        BY DEF HsmInv, NameInv, Fresh, TypeInv, TypeOK, Object, KeyObject,
               DataObject
      <4>2. \A o \in Created(p) : o.serial = serial
        BY DEF Created
      <4>3. serial \in Nat
        BY DEF HsmInv, TypeInv, TypeOK
      <4> QED BY <4>1, <4>2, <4>3
    <3> QED BY <2>1, <3>1, <3>2, <3>3
  <2> QED BY <2>2, <2>3
<1> QED BY <1>2, <1>3, <1>4

(* The commands that write, destroy, show or use objects.                  *)
LEMMA OthersImplement ==
    ASSUME AllLock, HsmInv, NEW p \in Procs, Inside(p),
           \/ WriteObject(p) \/ FindAll(p) \/ VisitObject(p) \/ EndLoop(p)
           \/ FindOne(p) \/ UseObject(p)
    PROVE  Store!StoreNext \/ UNCHANGED <<Visible, status>>
<1>1. Visible = VisibleTo(p) /\ Visible' = VisibleTo(p)'
  BY InsideSolo DEF HsmInv
<1>2. ASSUME NEW outcome, NEW objs, Return(p, outcome, objs),
             pc[p] \notin {"create", "loop"}
      PROVE  Visible = objects /\ Visible' = objects'
  <2>1. pc'[p] \in {"dispatch", "exit"}
    BY <1>2 DEF Return, HsmInv, TypeInv, TypeOK
  <2> QED BY <1>1, <1>2, <2>1 DEF VisibleTo
<1>3. CASE WriteObject(p)
  <2> DEFINE data == [serial |-> serial, class |-> "data", ktype |-> NONE,
                      id |-> Cmd(p).id, label |-> Cmd(p).label]
  <2>1. /\ pc[p] = "dispatch" /\ HasCmd(p) /\ Cmd(p) \in WriteCommand
        /\ objects' = objects \cup {data} /\ Return(p, "ok", {data})
    BY <1>3 DEF WriteObject, Ready
  <2>2. Visible = objects /\ Visible' = objects \cup {data}
    BY <1>2, <2>1
  <2>3. data \notin objects
    <3>1. \A o \in objects : o.serial \in Nat /\ o.serial < serial
      BY DEF HsmInv, NameInv, Fresh, TypeInv, TypeOK, Object, KeyObject,
             DataObject
    <3>2. serial \in Nat
      BY DEF HsmInv, TypeInv, TypeOK
    <3> QED BY <3>1, <3>2
  <2>4. data.class = "data" /\ data.id = Cmd(p).id /\ data.label = Cmd(p).label
    OBVIOUS
  <2> HIDE DEF data
  <2>5. Visible' \ Visible = {data} /\ Visible \subseteq Visible'
    BY <2>2, <2>3
  <2>6. Store!Write(p, Cmd(p))
    BY <2>1, <2>4, <2>5, Answers, SameCommands DEF Store!Write
  <2> QED BY <2>1, <2>6, Performs DEF Store!Perform
<1>4. CASE FindAll(p)
  <2>1. /\ pc[p] = "dispatch" /\ pc'[p] = "loop" /\ acted'[p] = {}
        /\ UNCHANGED <<objects, status>>
    BY <1>4 DEF FindAll, Ready, tokenVars, HsmInv, TypeInv, TypeOK, WorkInv, Cleared
  <2> QED BY <1>1, <2>1 DEF VisibleTo
<1>5. CASE VisitObject(p)
  <2>1. PICK o \in todo[p] \cap objects :
            /\ objects' = IF Cmd(p).op = "destroy" THEN objects \ {o} ELSE objects
            /\ acted'[p] = acted[p] \cup {o}
    BY <1>5 DEF VisitObject, HsmInv, TypeInv, TypeOK
  <2>2. pc[p] = "loop" /\ UNCHANGED <<pc, status>> /\ Cmd(p)' = Cmd(p)
    BY <1>5 DEF VisitObject, runVars, Cmd
  <2> QED BY <1>1, <2>1, <2>2 DEF VisibleTo
<1>6. CASE EndLoop(p)
  <2>1. /\ pc[p] = "loop" /\ todo[p] = {} /\ Return(p, "ok", acted[p])
        /\ UNCHANGED objects /\ HasCmd(p)
    BY <1>6 DEF EndLoop, tokenVars, HsmInv, TypeInv, AtCommand
  <2>2. Visible' = objects
    <3>1. pc'[p] \in {"dispatch", "exit"}
      BY <2>1 DEF Return, HsmInv, TypeInv, TypeOK
    <3> QED BY <1>1, <2>1, <3>1 DEF VisibleTo
  <2>3. Cmd(p) \in LoopCommand /\ Cmd(p).op \in {"show", "destroy"}
    BY <2>1, VisitMatches DEF HsmInv
  <2>4. CASE Cmd(p).op = "destroy"
    <3>1. /\ Matching(objects, Cmd(p)) = {} /\ acted[p] \cap objects = {}
          /\ Matching(acted[p], Cmd(p)) = acted[p]
      BY <2>1, <2>4 DEF HsmInv, FoundIsCurrent, ActedMatch
    <3>2. Visible = objects \cup acted[p]
      BY <1>1, <2>1, <2>4 DEF VisibleTo
    <3>3. Matching(Visible, Cmd(p)) = acted[p]
      BY <3>1, <3>2 DEF Matching
    <3>4. Visible' = Visible \ acted[p]
      BY <2>2, <3>1, <3>2
    <3>5. Store!Destroy(p, Cmd(p))
      BY <2>1, <2>3, <2>4, <3>3, <3>4, Answers, SameCommands, SameSearches
      DEF Store!Destroy
    <3> QED BY <2>1, <3>5, Performs DEF Store!Perform
  <2>5. CASE Cmd(p).op = "show"
    <3>1. Matching(objects, Cmd(p)) = acted[p] /\ Visible = objects
      BY <1>1, <2>1, <2>5 DEF HsmInv, FoundIsCurrent, VisibleTo
    <3>2. Store!Show(p, Cmd(p))
      BY <2>1, <2>2, <2>3, <2>5, <3>1, Answers, SameCommands, SameSearches
      DEF Store!Show
    <3> QED BY <2>1, <3>2, Performs DEF Store!Perform
  <2> QED BY <2>3, <2>4, <2>5
<1>7. CASE FindOne(p)
  <2> DEFINE found == Selected(objects, Cmd(p))
  <2>1. /\ pc[p] = "dispatch" /\ HasCmd(p) /\ Cmd(p) \in UseCommand
        /\ UNCHANGED objects
    BY <1>7 DEF FindOne, Ready, tokenVars
  <2>2. CASE pc' = [pc EXCEPT ![p] = "use"] /\ UNCHANGED status
    <3>1. pc'[p] = "use"
      BY <2>2 DEF HsmInv, TypeInv, TypeOK
    <3> QED BY <1>1, <2>1, <2>2, <3>1 DEF VisibleTo
  <2>3. CASE found = {} /\ Return(p, "ObjectNotFound", {})
    <3>1. Visible = objects /\ Visible' = objects
      BY <1>2, <2>1, <2>3
    <3>2. Store!Reject(p, Cmd(p))
      BY <2>1, <2>3, <3>1, Answers, SameCommands, SameSearches DEF Store!Reject
    <3> QED BY <2>1, <3>2, Performs DEF Store!Perform
  <2>4. CASE (\E o1, o2 \in found : o1 # o2) /\ Return(p, "TooManyObjects", {})
    <3>1. Visible = objects /\ Visible' = objects
      BY <1>2, <2>1, <2>4
    <3>2. Store!Reject(p, Cmd(p))
      BY <2>1, <2>4, <3>1, Answers, SameCommands, SameSearches DEF Store!Reject
    <3> QED BY <2>1, <3>2, Performs DEF Store!Perform
  <2> QED BY <1>7, <2>2, <2>3, <2>4 DEF FindOne
<1>8. CASE UseObject(p)
  <2>1. /\ pc[p] = "use" /\ Return(p, "ok", todo[p]) /\ UNCHANGED objects
        /\ HasCmd(p)
    BY <1>8 DEF UseObject, tokenVars, HsmInv, TypeInv, AtCommand
  <2>2. Visible = objects /\ Visible' = objects
    BY <1>2, <2>1
  <2>3. /\ Cmd(p) \in UseCommand /\ todo[p] = Selected(objects, Cmd(p))
        /\ \E o \in todo[p] : todo[p] = {o}
    BY <2>1 DEF HsmInv, FoundIsCurrent, WorkInv, InHand, OneInHand
  <2>4. \E o \in objects : Selected(objects, Cmd(p)) = {o}
    BY <2>3 DEF Selected, Matching
  <2>5. Store!Use(p, Cmd(p))
    BY <2>1, <2>2, <2>3, <2>4, Answers, SameCommands, SameSearches DEF Store!Use
  <2> QED BY <2>1, <2>5, Performs DEF Store!Perform
<1> QED BY <1>3, <1>4, <1>5, <1>6, <1>7, <1>8

(* The commands that are refused, fail or lose an answer.                  *)
LEMMA FailuresImplement ==
    ASSUME AllLock, HsmInv, NEW p \in Procs, Inside(p),
           Refuse(p) \/ HandleInvalid(p) \/ CallFails(p) \/ AnswerLost(p)
    PROVE  Store!StoreNext
<1>1. Visible = VisibleTo(p) /\ Visible' = VisibleTo(p)'
  BY InsideSolo DEF HsmInv
<1>2. ASSUME NEW outcome, NEW objs, Return(p, outcome, objs)
      PROVE  Visible' = objects'
  <2>1. pc'[p] \in {"dispatch", "exit"}
    BY <1>2 DEF Return, HsmInv, TypeInv, TypeOK
  <2> QED BY <1>1, <2>1 DEF VisibleTo
<1>3. ASSUME Return(p, "Error", {}), HasCmd(p), pc[p] # "exit",
             Store!Partial(Cmd(p))
      PROVE  Store!StoreNext
  BY <1>3, Answers, Performs DEF Store!Break, Store!Perform
<1>4. CASE Refuse(p)
  <2>1. /\ pc[p] = "dispatch" /\ HasCmd(p) /\ UNCHANGED objects
        /\ \/ Return(p, "SessionRequired", {})
           \/ NoCriteria(Cmd(p)) /\ Return(p, "NoSearchCriteria", {})
    BY <1>4 DEF Refuse, tokenVars
  <2>2. Visible = objects /\ Visible' = objects
    BY <1>1, <1>2, <2>1 DEF VisibleTo
  <2>3. Store!Reject(p, Cmd(p))
    BY <2>1, <2>2, Answers, SameSearches DEF Store!Reject
  <2> QED BY <2>1, <2>3, Performs DEF Store!Perform
<1>5. CASE HandleInvalid(p) \/ CallFails(p)
  <2>1. /\ Return(p, "Error", {}) /\ UNCHANGED objects /\ HasCmd(p)
        /\ pc[p] \in {"dispatch", "create", "loop", "use"}
    BY <1>5 DEF HandleInvalid, CallFails, Ready, tokenVars, HsmInv, TypeInv,
                AtCommand
  <2>2. Visible' = objects
    BY <1>2, <2>1
  <2>3. CASE pc[p] = "create"
    BY <1>1, <1>3, <2>1, <2>2, <2>3, PartialKey DEF VisibleTo
  <2>4. CASE pc[p] = "loop" /\ Cmd(p).op = "destroy"
    BY <1>1, <1>3, <2>1, <2>2, <2>4, PartialDestroy DEF VisibleTo
  <2>5. CASE pc[p] # "create" /\ ~(pc[p] = "loop" /\ Cmd(p).op = "destroy")
    <3>1. Visible' = Visible
      BY <1>1, <2>2, <2>5 DEF VisibleTo
    <3> QED BY <1>3, <2>1, <3>1 DEF Store!Partial
  <2> QED BY <2>3, <2>4, <2>5
<1>6. CASE AnswerLost(p)
  <2>1. Return(p, "Error", {}) /\ HasCmd(p) /\ pc[p] \in {"create", "loop"}
    BY <1>6 DEF AnswerLost, HsmInv, TypeInv, AtCommand
  <2>2. Visible' = objects'
    BY <1>2, <2>1
  <2>3. CASE pc[p] = "create"
    <3>1. Visible = objects \ acted[p] /\ Visible' = objects \cup Created(p)
      BY <1>1, <1>6, <2>2, <2>3 DEF AnswerLost, VisibleTo
    <3> QED BY <1>3, <2>1, <2>3, <3>1, PartialKey
  <2>4. CASE pc[p] = "loop"
    <3>1. /\ Cmd(p).op = "destroy" /\ Visible = objects \cup acted[p]
          /\ \E o \in todo[p] : Visible' = objects \ {o}
      BY <1>1, <1>6, <2>2, <2>4 DEF AnswerLost, VisibleTo
    <3> QED BY <1>3, <2>1, <2>4, <3>1, PartialDestroy
  <2> QED BY <2>1, <2>3, <2>4
<1> QED BY <1>4, <1>5, <1>6

LEMMA InsideImplements ==
    ASSUME AllLock, HsmInv, NEW p \in Procs, Inside(p)
    PROVE  Store!StoreNext \/ UNCHANGED <<Visible, status>>
BY MakeImplements, OthersImplement, FailuresImplement DEF Inside

(* A process that starts, gets the lock or connects changes nothing.       *)
LEMMA MainImplements ==
    ASSUME HsmInv, NEW p \in Procs, Start(p) \/ AcquireLock(p) \/ Connect(p)
    PROVE  UNCHANGED <<Visible, status>>
<1>1. /\ UNCHANGED <<objects, status, acted>>
      /\ pc[p] \notin {"create", "loop"} /\ pc'[p] \notin {"create", "loop"}
      /\ \A q \in Procs \ {p} : pc'[q] = pc[q] /\ Cmd(q)' = Cmd(q)
  BY DEF Start, AcquireLock, Connect, tokenVars, workVars, Cmd, HsmInv,
         TypeInv, TypeOK
<1>2. Making' = Making
  BY <1>1 DEF Making
<1>3. Destroying' = Destroying
  BY <1>1 DEF Destroying
<1> QED BY <1>1, <1>2, <1>3 DEF Visible

(* An invocation that ends or is killed leaves a part of the command it    *)
(* was in, if it was in one.                                               *)
LEMMA GoneImplements ==
    ASSUME AllLock, HsmInv, NEW p \in Procs, Gone(p)
    PROVE  Store!StoreNext \/ UNCHANGED <<Visible, status>>
<1>1. /\ UNCHANGED objects /\ pc'[p] = "idle"
      /\ status' = [status EXCEPT ![p] = <<>>] /\ status'[p] = <<>>
      /\ \A q \in Procs \ {p} : /\ pc'[q] = pc[q] /\ acted'[q] = acted[q]
                                /\ Cmd(q)' = Cmd(q)
  BY DEF Gone, Clear, tokenVars, Cmd, HsmInv, TypeInv, TypeOK
<1>2. CASE ~Running(p)
  <2>1. status[p] = <<>> /\ pc[p] \notin {"create", "loop"}
    BY <1>2 DEF Running, HsmInv, WorkInv, Begun
  <2>2. status' = status
    BY <1>1, <2>1 DEF HsmInv, TypeInv, TypeOK
  <2>3. Making' = Making
    BY <1>1, <2>1 DEF Making
  <2>4. Destroying' = Destroying
    BY <1>1, <2>1 DEF Destroying
  <2> QED BY <1>1, <2>2, <2>3, <2>4 DEF Visible
<1>3. CASE Running(p)
  <2>1. Solo(p)
    BY <1>3, RunsSolo DEF HsmInv
  <2>2. Visible = VisibleTo(p)
    BY <2>1, VisibleAlone
  <2>3. Visible' = objects
    <3>1. Solo(p)'
      BY <1>1, <2>1 DEF Solo
    <3>2. Visible' = VisibleTo(p)'
      BY <3>1, VisibleAfter
    <3> QED BY <1>1, <3>2 DEF VisibleTo
  <2>4. CASE pc[p] \in {"create", "loop"}
    <3>1. HasCmd(p) /\ Cmd(p) \in Commands
      BY <2>4, CmdType DEF HsmInv, TypeInv, AtCommand
    <3>2. CASE pc[p] = "create"
      BY <1>1, <2>2, <2>3, <3>1, <3>2, PartialKey, Ends DEF VisibleTo
    <3>3. CASE pc[p] = "loop" /\ Cmd(p).op = "destroy"
      BY <1>1, <2>2, <2>3, <3>1, <3>3, PartialDestroy, Ends DEF VisibleTo
    <3>4. CASE pc[p] = "loop" /\ Cmd(p).op # "destroy"
      <4>1. Visible' = Visible
        BY <2>2, <2>3, <3>4 DEF VisibleTo
      <4>2. Store!Partial(Cmd(p))
        BY <4>1 DEF Store!Partial
      <4> QED BY <1>1, <3>1, <4>2, Ends
    <3> QED BY <2>4, <3>2, <3>3, <3>4
  <2>5. CASE pc[p] \notin {"create", "loop"}
    <3>1. Visible' = Visible
      BY <2>2, <2>3, <2>5 DEF VisibleTo
    <3>2. CASE status[p] = <<>>
      <4>1. status' = status
        BY <1>1, <3>2 DEF HsmInv, TypeInv, TypeOK
      <4> QED BY <3>1, <4>1
    <3>3. CASE status[p] # <<>>
      <4>1. status[p][1] \in Reply
        BY <3>3 DEF HsmInv, TypeInv, TypeOK
      <4>2. status[p][1].cmd \in Commands
        BY <4>1 DEF Reply
      <4>3. Store!Partial(status[p][1].cmd)
        BY <3>1 DEF Store!Partial
      <4> QED BY <1>1, <4>2, <4>3, Ends
    <3> QED BY <3>2, <3>3
  <2> QED BY <2>4, <2>5
<1> QED BY <1>2, <1>3

(* Every step of hsmtool is a step of the abstract store or is not seen.   *)
LEMMA StepImplements ==
    ASSUME AllLock
    PROVE  HsmInv /\ [Next]_vars => [Store!StoreNext]_(Store!storeVars)
<1> SUFFICES ASSUME HsmInv, [Next]_vars
             PROVE  Store!StoreNext \/ UNCHANGED <<Visible, status>>
  BY DEF Store!storeVars
<1>1. CASE UNCHANGED vars
  BY <1>1 DEF vars, tokenVars, runVars, workVars, Visible, Making, Destroying,
              Cmd
<1>2. CASE Next
  BY <1>2, NextCases, MainImplements, GoneImplements, InsideImplements
<1> QED BY <1>1, <1>2

(* If every invocation passes --lockfile, hsmtool implements TokenStore:   *)
(* a command that reports success had its whole effect at one moment, with *)
(* no other command in between; one that failed or was killed had a part   *)
(* of it; and each error tells the truth about the store.                  *)
THEOREM Implementation == ASSUME AllLock PROVE Spec => ImplementsTokenStore
<1>1. Init => Store!StoreInit
  BY DEF Init, Store!StoreInit, Visible, Making, Destroying
<1>2. HsmInv /\ [Next]_vars => [Store!StoreNext]_(Store!storeVars)
  BY StepImplements
<1> QED BY <1>1, <1>2, HsmInvHolds, PTL DEF Spec, ImplementsTokenStore, Store!StoreSpec
=============================================================================
