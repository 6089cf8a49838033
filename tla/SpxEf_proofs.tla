---------------------------- MODULE SpxEf_proofs ----------------------------
(***************************************************************************)
(* Theorems about SpxEf, for every set of processes, labels, algorithms    *)
(* and requests: type correctness, and under the lock file that replaced   *)
(* keys are never used, that new keys can be loaded, that a list is the    *)
(* whole of the keys, and that generate and import make two keys of a      *)
(* label at most.                                                          *)
(***************************************************************************)
EXTENDS SpxEf, FiniteSetTheorems, TLAPS

(* What is known of a process by its place in the code.                    *)
Place(p) ==
    /\ pc[p] # "idle" => cmd[p] \in Requests
    /\ pc[p] \in {"write", "saved"} => cmd[p].op \in {"generate", "import"}
    /\ pc[p] \in {"find", "read", "load"} =>
          /\ alias[p] \in Labels
          /\ cmd[p].op \in {"sign", "verify", "export", "list"}
    /\ pc[p] \in {"read", "load"} => \A f \in found[p] : f.app \in Algs
    /\ pc[p] = "loop" => cmd[p].op \in {"list", "destroy"}

TypeInv == TypeOK /\ \A p \in Procs : Place(p)

(* Every request has the fields its command uses.                          *)
LEMMA Fields ==
    ASSUME NEW c \in Requests
    PROVE  /\ c.op # "list" => c.label \in Labels
           /\ c.op \in {"generate", "import"} => c.alg \in Algs
           /\ c.op = "write" => /\ c.app \in Algs \cup {Other}
                                /\ c.key \in KeyFiles \cup {NONE}
           /\ c.op = "import" => c.key \in KeyFiles
BY SpxEfAssumption DEF Command

(* A generated or imported key is a key.                                   *)
LEMMA NewKeyType ==
    ASSUME TypeOK, NEW c \in Requests, c.op \in {"generate", "import"}
    PROVE  NewKey(c) \in Keys
BY Fields DEF TypeOK, NewKey, Keys

(* The types hold at the start.                                            *)
LEMMA InitTypes == Init => TypeInv
<1> SUFFICES ASSUME Init
             PROVE  TypeInv
  OBVIOUS
<1>1. TypeOK
  BY SpxEfAssumption DEF Init, TypeOK, PCs
<1>2. \A p \in Procs : Place(p)
  BY DEF Init, Place
<1> QED BY <1>1, <1>2 DEF TypeInv

(* An answer is an outcome, and leaves the process at the end.             *)
LEMMA AnswerType ==
    ASSUME TypeOK, NEW p \in Procs, NEW o \in Outcomes, Answer(p, o)
    PROVE  /\ pc' \in [Procs -> PCs] /\ reply' \in [Procs -> Outcomes \cup {NONE}]
           /\ pc'[p] = "done" /\ \A q \in Procs \ {p} : pc'[q] = pc[q]
BY DEF TypeOK, Answer, Goto, PCs

(* Each step of a process keeps the types and what is known by place.      *)
LEMMA StepTypes ==
    ASSUME TypeInv, NEW p \in Procs,
           \/ Start(p) \/ Finish(p) \/ Fails(p)
           \/ SearchFree(p) \/ WriteKey(p) \/ Saved(p)
           \/ BeginLoad(p) \/ FindFile(p) \/ FindAgain(p) \/ LoadKey(p)
           \/ ListFiles(p) \/ ListNext(p) \/ FindAll(p) \/ DestroyNext(p)
           \/ EndLoop(p) \/ WriteFile(p)
    PROVE  TypeInv'
<1> USE DEF TypeInv, history
<1>t. TypeOK /\ Place(p)
  OBVIOUS
<1>1. CASE Start(p)
  BY <1>1, SpxEfAssumption DEF Start, TypeOK, Place, Goto, PCs
<1>2. CASE Finish(p)
  BY <1>2 DEF Finish, TypeOK, Place, Goto, PCs
<1>3. CASE Fails(p)
  BY <1>3, AnswerType DEF Fails, TypeOK, Place, Outcomes, PCs
<1>4. CASE SearchFree(p)
  BY <1>4 DEF SearchFree, TypeOK, Place, Answer, Goto, Outcomes, PCs
<1>5. CASE WriteKey(p)
  <2>1. cmd[p] \in Requests /\ cmd[p].op \in {"generate", "import"}
    BY <1>5 DEF WriteKey, Place
  <2>2. /\ NewKey(cmd[p]) \in Keys
        /\ cmd[p].label \in Labels /\ cmd[p].alg \in Algs
    BY <2>1, Fields, NewKeyType
  <2> DEFINE f == [serial |-> serial, label |-> cmd[p].label,
                   app |-> cmd[p].alg, key |-> NewKey(cmd[p])]
  <2>3. f \in File
    BY <2>2 DEF File, TypeOK
  <2>4. files' = files \cup {f} /\ made' = made \cup {f}
    BY <1>5 DEF WriteKey
  <2>5. files' \in SUBSET File /\ made' \in SUBSET File
    BY <2>3, <2>4 DEF TypeOK
  <2>6. /\ serial' \in Nat
        /\ latest' \in [Labels -> Keys \cup {NONE}]
        /\ seen' \in [Procs -> SUBSET [label : Labels, key : Keys]]
        /\ pc' = [pc EXCEPT ![p] = "saved"]
    BY <1>5, <2>2 DEF WriteKey, TypeOK, Goto
  <2> QED BY <1>5, <2>1, <2>5, <2>6 DEF WriteKey, TypeOK, Place, PCs
<1>6. CASE Saved(p)
  BY <1>6 DEF Saved, TypeOK, Place, Answer, Goto, Outcomes, PCs
<1>7. CASE BeginLoad(p)
  <2>1. cmd[p].label \in Labels
    BY <1>7, Fields DEF BeginLoad, Place
  <2> QED BY <1>7, <2>1 DEF BeginLoad, TypeOK, Place, Goto, PCs
<1>8. CASE FindFile(p)
  <2>1. \A f \in SoleOf(FilesOf(alias[p])) : f \in File
    BY DEF SoleOf, FilesOf, TypeOK
  <2> QED BY <1>8, <2>1 DEF FindFile, TypeOK, Place, Answer, Goto, Outcomes, PCs
<1>9. CASE FindAgain(p)
  <2>1. PICK f \in found[p] :
          LET ef == {g \in FilesOf(alias[p]) : g.app = f.app}
          IN  \/ ef = {} /\ Answer(p, "ObjectNotFound") /\ UNCHANGED found
              \/ Several(ef) /\ Answer(p, "TooManyObjects") /\ UNCHANGED found
              \/ /\ SoleOf(ef) # {}
                 /\ \E g \in SoleOf(ef) : found' = [found EXCEPT ![p] = {g}]
                 /\ Goto(p, "load") /\ UNCHANGED reply
    BY <1>9 DEF FindAgain
  <2> DEFINE ef == {g \in FilesOf(alias[p]) : g.app = f.app}
  <2>2. f.app \in Algs
    BY <1>9, <2>1 DEF FindAgain, Place
  <2>3. \A g \in SoleOf(ef) : g \in File /\ g.app \in Algs
    BY <2>2 DEF SoleOf, FilesOf, TypeOK
  <2> HIDE DEF ef
  <2>4. CASE \E g \in SoleOf(ef) : found' = [found EXCEPT ![p] = {g}] /\ Goto(p, "load") /\ UNCHANGED reply
    BY <1>9, <2>3, <2>4 DEF FindAgain, TypeOK, Place, Goto, PCs
  <2>5. CASE UNCHANGED found /\ (Answer(p, "ObjectNotFound") \/ Answer(p, "TooManyObjects"))
    BY <1>9, <2>5 DEF FindAgain, TypeOK, Place, Answer, Goto, Outcomes, PCs
  <2> QED BY <2>1, <2>4, <2>5 DEF ef
<1>10. CASE LoadKey(p)
  <2>1. PICK f \in found[p] :
          /\ seen' = [seen EXCEPT ![p] = @ \cup {[label |-> alias[p], key |-> f.key]}]
          /\ \/ cmd[p].op = "list" /\ Goto(p, "loop") /\ UNCHANGED reply
             \/ cmd[p].op \in {"sign", "export"} /\ Answer(p, "ok")
             \/ /\ cmd[p].op = "verify"
                /\ Answer(p, IF f.key = cmd[p].sig THEN "ok" ELSE "mismatch")
    BY <1>10 DEF LoadKey
  <2>2. f.key \in Keys /\ alias[p] \in Labels
    BY <1>10, <2>1 DEF LoadKey, TypeOK, Place, File
  <2>3. seen' \in [Procs -> SUBSET [label : Labels, key : Keys]]
    BY <2>1, <2>2 DEF TypeOK
  <2>4. CASE cmd[p].op = "list" /\ Goto(p, "loop") /\ UNCHANGED reply
    BY <1>10, <2>3, <2>4 DEF LoadKey, TypeOK, Place, Goto, PCs
  <2>5. CASE Answer(p, "ok") \/ Answer(p, "mismatch")
    BY <1>10, <2>3, <2>5 DEF LoadKey, TypeOK, Place, Answer, Goto, Outcomes, PCs
  <2> QED BY <2>1, <2>4, <2>5
<1>11. CASE ListFiles(p)
  BY <1>11 DEF ListFiles, TypeOK, Place, Goto, PCs
<1>12. CASE ListNext(p)
  <2>1. PICK f \in todo[p] : /\ alias' = [alias EXCEPT ![p] = f.label]
                             /\ todo' = [todo EXCEPT ![p] = @ \ {f}]
    BY <1>12 DEF ListNext
  <2>2. f.label \in Labels /\ todo[p] \ {f} \in SUBSET File
    BY DEF TypeOK, File
  <2> QED BY <1>12, <2>1, <2>2 DEF ListNext, TypeOK, Place, Goto, PCs
<1>13. CASE FindAll(p)
  <2>1. FilesOf(cmd[p].label) \in SUBSET File
    BY DEF FilesOf, TypeOK
  <2> QED BY <1>13, <2>1 DEF FindAll, TypeOK, Place, Goto, PCs
<1>14. CASE DestroyNext(p)
  <2>1. PICK f \in todo[p] \cap files :
          /\ files' = files \ {f}
          /\ todo' = [todo EXCEPT ![p] = @ \ {f}]
          /\ latest' = [latest EXCEPT ![f.label] = NONE]
    BY <1>14 DEF DestroyNext
  <2>2. /\ files' \in SUBSET File
        /\ todo' \in [Procs -> SUBSET File]
        /\ latest' \in [Labels -> Keys \cup {NONE}]
    BY <2>1 DEF TypeOK
  <2> QED BY <1>14, <2>2 DEF DestroyNext, TypeOK, Place
<1>15. CASE EndLoop(p)
  BY <1>15 DEF EndLoop, TypeOK, Place, Answer, Goto, Outcomes, PCs
<1>16. CASE WriteFile(p)
  <2> DEFINE c == cmd[p]
             f == [serial |-> serial, label |-> c.label, app |-> c.app,
                   key |-> c.key]
  <2>1. /\ c.label \in Labels /\ c.app \in Algs \cup {Other}
        /\ c.key \in Keys \cup {NONE}
    BY <1>16, Fields DEF WriteFile, Place, Keys
  <2>2. f \in File
    BY <2>1 DEF File, TypeOK
  <2>3. files' \in SUBSET File /\ serial' \in Nat
    BY <1>16, <2>2 DEF WriteFile, TypeOK
  <2>4. latest' \in [Labels -> Keys \cup {NONE}]
    BY <1>16, <2>1 DEF WriteFile, TypeOK
  <2> QED BY <1>16, <2>3, <2>4 DEF WriteFile, TypeOK, Place, Answer, Goto, Outcomes, PCs
<1> QED BY <1>1, <1>2, <1>3, <1>4, <1>5, <1>6, <1>7, <1>8, <1>9, <1>10,
           <1>11, <1>12, <1>13, <1>14, <1>15, <1>16

(* So does every step of the system.                                       *)
LEMMA NextTypes == TypeInv /\ [Next]_vars => TypeInv'
<1> SUFFICES ASSUME TypeInv, [Next]_vars PROVE TypeInv'
  OBVIOUS
<1>1. CASE UNCHANGED vars
  BY <1>1 DEF vars, history, TypeInv, TypeOK, Place
<1>2. CASE Next
  BY <1>2, StepTypes DEF Next
<1> QED BY <1>1, <1>2

(* Every reachable state has its type: in particular what a list shows or  *)
(* a load uses is a key, though a file of ours need not hold one.          *)
THEOREM SpxTypesHold == Spec => []TypeOK
<1>1. TypeInv => TypeOK
  BY DEF TypeInv
<1> QED BY InitTypes, NextTypes, <1>1, PTL DEF Spec
-----------------------------------------------------------------------------
(* With the lock file: the process that runs holds it, so it runs alone.   *)
Locked == \A p \in Procs : pc[p] # "idle" => holder = p

(* The keys of the token that a list should show.                          *)
Ours == {f \in files : f.app \in Algs}

Pair(f) == [label |-> f.label, key |-> f.key]

(* What generate and import know of their label.                           *)
Making(p) ==
    /\ pc[p] = "write" =>
          IF cmd[p].overwrite THEN Cardinality(FilesOf(cmd[p].label)) <= 1
                              ELSE FilesOf(cmd[p].label) = {}
    /\ pc[p] = "saved" /\ ~cmd[p].overwrite =>
          \E f \in files : FilesOf(cmd[p].label) = {f} /\ seen[p] = {Pair(f)}

(* What load_key has found is the only file of its label.                  *)
Loading(p) ==
    /\ pc[p] \in {"read", "load"} =>
          \E f \in files : found[p] = {f} /\ FilesOf(alias[p]) = {f}
    /\ pc[p] \in {"find", "read", "load"} /\ cmd[p].op # "list" =>
          seen[p] = {} /\ alias[p] = cmd[p].label

(* A list has seen all keys but those it still has to load.                *)
Listing(p) ==
    /\ pc[p] = "loop" /\ cmd[p].op = "list" =>
          todo[p] \subseteq Ours /\ seen[p] = {Pair(f) : f \in Ours \ todo[p]}
    /\ pc[p] \in {"find", "read", "load"} /\ cmd[p].op = "list" =>
          /\ todo[p] \subseteq Ours
          /\ \E f \in Ours \ todo[p] :
                /\ f.label = alias[p]
                /\ seen[p] = {Pair(g) : g \in (Ours \ todo[p]) \ {f}}

(* What a command that has returned may claim: the three properties.       *)
Claims(p) ==
    /\ UsedKey(p) /\ latest[cmd[p].label] # NONE =>
          seen[p] = {[label |-> cmd[p].label, key |-> latest[cmd[p].label]]}
    /\ Did(p, {"generate", "import"}) /\ ~cmd[p].overwrite =>
          \E f \in files : FilesOf(cmd[p].label) = {f} /\ seen[p] = {Pair(f)}
    /\ Did(p, {"list"}) => seen[p] = {Pair(f) : f \in Ours}

(* A process that has found out nothing yet, and the three kinds of        *)
(* command, at each place of the code.                                     *)
Progress(p) ==
    /\ pc[p] \in {"idle", "start", "write"} => seen[p] = {}
    /\ Making(p) /\ Loading(p) /\ Listing(p) /\ Claims(p)

(* The key last stored under a label is there until the label is           *)
(* destroyed.                                                              *)
LatestStored ==
    \A l \in Labels : latest[l] # NONE =>
        \E f \in KeysUnder(l) : f.key = latest[l]

(* The files made so far; serials are drawn in turn, so that object-write  *)
(* makes none of them again.                                               *)
MadeBefore == \A f \in made : f.serial < serial

StoreInv ==
    LatestStored /\ AtMostTwoMade /\ MadeBefore /\ IsFiniteSet(files)

KeyInv ==
    /\ Locked /\ StoreInv
    /\ \A p \in Procs : Progress(p)

(* One step of process p.                                                  *)
Step(p) ==
    \/ Start(p) \/ Finish(p) \/ Fails(p)
    \/ SearchFree(p) \/ WriteKey(p) \/ Saved(p)
    \/ BeginLoad(p) \/ FindFile(p) \/ FindAgain(p) \/ LoadKey(p)
    \/ ListFiles(p) \/ ListNext(p) \/ FindAll(p) \/ DestroyNext(p)
    \/ EndLoop(p) \/ WriteFile(p)

(* A process whose turn it is runs alone.                                  *)
LEMMA Alone ==
    ASSUME Locking, TypeOK, Locked, NEW p \in Procs, Step(p)
    PROVE  \A q \in Procs \ {p} : pc[q] = "idle"
<1>1. pc[p] # "idle" \/ holder = NONE
  BY DEF Step, Start, Finish, Fails, SearchFree, WriteKey, Saved, BeginLoad,
         FindFile, FindAgain, LoadKey, ListFiles, ListNext, FindAll,
         DestroyNext, EndLoop, WriteFile
<1> QED BY <1>1, SpxEfAssumption DEF Locked

(* Its step moves nobody else, and changes what nobody else has seen.      *)
LEMMA Frame ==
    ASSUME TypeOK, NEW p \in Procs, Step(p), NEW q \in Procs \ {p}
    PROVE  pc'[q] = pc[q] /\ seen'[q] = seen[q]
<1> USE DEF TypeOK, Goto, Answer
<1>1. CASE Start(p) \/ Finish(p) \/ Fails(p) \/ SearchFree(p)
  BY <1>1 DEF Start, Finish, Fails, SearchFree
<1>2. CASE WriteKey(p) \/ Saved(p) \/ BeginLoad(p)
  BY <1>2 DEF WriteKey, Saved, BeginLoad
<1>3. CASE FindFile(p) \/ FindAgain(p) \/ LoadKey(p)
  BY <1>3 DEF FindFile, FindAgain, LoadKey
<1>4. CASE \/ ListFiles(p) \/ ListNext(p) \/ FindAll(p) \/ DestroyNext(p)
           \/ EndLoop(p) \/ WriteFile(p)
  BY <1>4 DEF ListFiles, ListNext, FindAll, DestroyNext, EndLoop, WriteFile
<1> QED BY <1>1, <1>2, <1>3, <1>4 DEF Step

(* The process that runs still holds the lock after its step.              *)
LEMMA LockedStep ==
    ASSUME Locking, TypeOK, Locked, NEW p \in Procs, Step(p)
    PROVE  Locked'
<1>1. pc'[p] # "idle" => holder' = p
  <2>1. CASE Start(p)
    BY <2>1 DEF Start
  <2>2. CASE Finish(p)
    BY <2>2 DEF Finish, TypeOK, Goto
  <2>3. CASE ~Start(p) /\ ~Finish(p)
    <3>1. holder' = holder /\ pc[p] # "idle"
      BY <2>3 DEF Step, Fails, SearchFree, WriteKey, Saved, BeginLoad,
             FindFile, FindAgain, LoadKey, ListFiles, ListNext, FindAll,
             DestroyNext, EndLoop, WriteFile
    <3> QED BY <3>1 DEF Locked
  <2> QED BY <2>1, <2>2, <2>3
<1>2. \A q \in Procs \ {p} : pc'[q] = "idle"
  BY Alone, Frame
<1> QED BY <1>1, <1>2 DEF Locked

(* An idle process has nothing to keep true but that it has seen nothing.  *)
LEMMA IdleKept ==
    ASSUME NEW q \in Procs, Progress(q),
           pc[q] = "idle", pc'[q] = "idle", seen'[q] = seen[q]
    PROVE  Progress(q)'
BY DEF Progress, Making, Loading, Listing, Claims, UsedKey, Did

(* A step that leaves the token and what was stored as they are.           *)
LEMMA StoreKept ==
    ASSUME StoreInv, UNCHANGED <<files, serial, history>>
    PROVE  StoreInv'
BY DEF StoreInv, LatestStored, AtMostTwoMade, MadeBefore, KeysUnder, MadeUnder,
       history

(* Adding a file to the token.                                             *)
LEMMA AddFile ==
    ASSUME NEW f, NEW l, files' = files \cup {f}, IsFiniteSet(files)
    PROVE  /\ IsFiniteSet(files')
           /\ KeysUnder(l)' = KeysUnder(l) \cup
                 (IF f.label = l /\ f.app \in Algs THEN {f} ELSE {})
           /\ FilesOf(l)' = FilesOf(l) \cup (IF f.label = l THEN {f} ELSE {})
<1>1. IsFiniteSet(files')
  BY FS_AddElement
<1> QED BY <1>1 DEF KeysUnder, FilesOf

(* An element more.                                                        *)
LEMMA OneMore ==
    ASSUME NEW S, NEW x, IsFiniteSet(S), Cardinality(S) <= 1
    PROVE  Cardinality(S \cup {x}) <= 2
<1>1. Cardinality(S) \in Nat
  BY FS_CardinalityType
<1>2. \/ Cardinality(S \cup {x}) = Cardinality(S)
      \/ Cardinality(S \cup {x}) = Cardinality(S) + 1
  BY FS_AddElement
<1> QED BY <1>1, <1>2

(* The token keeps the last key of a label, and two of those made at most. *)
LEMMA StoreStep ==
    ASSUME TypeInv, KeyInv, NEW p \in Procs, Step(p)
    PROVE  StoreInv'
<1> USE DEF KeyInv, StoreInv
<1>1. CASE WriteKey(p)
  <2> DEFINE c == cmd[p]
  <2>1. c.label \in Labels /\ c.alg \in Algs
    BY <1>1, Fields DEF WriteKey, TypeInv, Place
  <2>2. PICK f : /\ f.label = c.label /\ f.app = c.alg /\ f.key = NewKey(c)
                 /\ f.serial = serial
                 /\ files' = files \cup {f} /\ made' = made \cup {f}
                 /\ latest' = [latest EXCEPT ![c.label] = f.key]
    <3> DEFINE g == [serial |-> serial, label |-> c.label, app |-> c.alg,
                     key |-> NewKey(c)]
    <3>1. /\ g.label = c.label /\ g.app = c.alg /\ g.key = NewKey(c)
          /\ g.serial = serial
          /\ files' = files \cup {g} /\ made' = made \cup {g}
          /\ latest' = [latest EXCEPT ![c.label] = g.key]
      BY <1>1 DEF WriteKey
    <3> HIDE DEF g
    <3> QED BY <3>1
  <2>3. IsFiniteSet(files')
    BY <2>2, AddFile
  <2>4. LatestStored'
    <3> SUFFICES ASSUME NEW l \in Labels, latest'[l] # NONE
                 PROVE  \E g \in KeysUnder(l)' : g.key = latest'[l]
      BY DEF LatestStored
    <3>1. CASE l = c.label
      <4>1. f \in KeysUnder(l)' /\ f.key = latest'[l]
        BY <2>1, <2>2, <3>1 DEF KeysUnder, TypeInv, TypeOK
      <4> QED BY <4>1
    <3>2. CASE l # c.label
      <4>1. latest[l] = latest'[l] /\ KeysUnder(l) \subseteq KeysUnder(l)'
        BY <2>1, <2>2, <3>2 DEF KeysUnder, TypeInv, TypeOK
      <4> QED BY <4>1 DEF LatestStored
    <3> QED BY <3>1, <3>2
  <2>5. ASSUME NEW l \in Labels
        PROVE  Cardinality(MadeUnder(l)') <= 2
    <3>1. CASE l = c.label
      <4>1. FilesOf(l) = {} \/ Cardinality(FilesOf(l)) <= 1
        BY <1>1, <3>1 DEF WriteKey, Progress, Making
      <4>2. IsFiniteSet(FilesOf(l))
        <5>1. FilesOf(l) \in SUBSET files
          BY DEF FilesOf
        <5> QED BY <5>1, FS_Subset
      <4>3. Cardinality(FilesOf(l)) <= 1
        BY <4>1, FS_EmptySet
      <4>4. IsFiniteSet(FilesOf(l) \cup {f}) /\ Cardinality(FilesOf(l) \cup {f}) <= 2
        BY <4>2, <4>3, OneMore, FS_AddElement
      <4>5. MadeUnder(l)' \in SUBSET (FilesOf(l) \cup {f})
        BY <2>2 DEF MadeUnder, FilesOf
      <4> QED BY <4>4, <4>5, FS_Subset, FS_CardinalityType
    <3>2. CASE l # c.label
      <4>1. MadeUnder(l)' = MadeUnder(l)
        BY <2>1, <2>2, <3>2 DEF MadeUnder
      <4> QED BY <4>1 DEF AtMostTwoMade
    <3> QED BY <3>1, <3>2
  <2>6. MadeBefore'
    <3>1. serial' = serial + 1 /\ serial \in Nat
      BY <1>1 DEF WriteKey, TypeInv, TypeOK
    <3>2. \A g \in made : g.serial \in Nat
      BY DEF TypeInv, TypeOK, File
    <3> QED BY <2>2, <3>1, <3>2 DEF MadeBefore
  <2> QED BY <2>3, <2>4, <2>5, <2>6 DEF AtMostTwoMade
<1>2. CASE DestroyNext(p)
  <2>1. PICK f \in todo[p] \cap files :
          /\ files' = files \ {f}
          /\ latest' = [latest EXCEPT ![f.label] = NONE]
          /\ UNCHANGED <<serial, made>>
    BY <1>2 DEF DestroyNext
  <2>2. IsFiniteSet(files')
    BY <2>1, FS_Subset
  <2>3. LatestStored'
    <3> SUFFICES ASSUME NEW l \in Labels, latest'[l] # NONE
                 PROVE  \E g \in KeysUnder(l)' : g.key = latest'[l]
      BY DEF LatestStored
    <3>1. l # f.label /\ latest'[l] = latest[l]
      BY <2>1 DEF TypeInv, TypeOK
    <3>2. KeysUnder(l)' = KeysUnder(l)
      BY <2>1, <3>1 DEF KeysUnder
    <3> QED BY <3>1, <3>2 DEF LatestStored
  <2>4. ASSUME NEW l \in Labels
        PROVE  Cardinality(MadeUnder(l)') <= 2
    <3>1. MadeUnder(l) \in SUBSET files /\ MadeUnder(l)' \in SUBSET MadeUnder(l)
      BY <2>1 DEF MadeUnder
    <3>2. IsFiniteSet(MadeUnder(l))
      BY <3>1, FS_Subset
    <3>3. Cardinality(MadeUnder(l)') <= Cardinality(MadeUnder(l))
      BY <3>1, <3>2, FS_Subset
    <3>4. /\ Cardinality(MadeUnder(l)') \in Nat /\ Cardinality(MadeUnder(l)) \in Nat
          /\ Cardinality(MadeUnder(l)) <= 2
      BY <3>1, <3>2, FS_Subset, FS_CardinalityType DEF AtMostTwoMade
    <3> QED BY <3>3, <3>4
  <2>5. MadeBefore'
    BY <2>1 DEF MadeBefore
  <2> QED BY <2>2, <2>3, <2>4, <2>5 DEF AtMostTwoMade
<1>3. CASE WriteFile(p)
  <2> DEFINE c == cmd[p]
  <2>1. PICK f : /\ files' = files \cup {f} /\ made' = made
                 /\ f.serial = serial /\ f.label = c.label
                 /\ f.app = c.app /\ f.key = c.key
    <3> DEFINE g == [serial |-> serial, label |-> c.label, app |-> c.app,
                     key |-> c.key]
    <3>1. /\ files' = files \cup {g} /\ made' = made
          /\ g.serial = serial /\ g.label = c.label
          /\ g.app = c.app /\ g.key = c.key
      BY <1>3 DEF WriteFile
    <3> HIDE DEF g
    <3> QED BY <3>1
  <2>2. IsFiniteSet(files')
    BY <2>1, FS_AddElement
  <2>3. serial' = serial + 1 /\ serial \in Nat
    BY <1>3 DEF WriteFile, TypeInv, TypeOK
  <2>4. \A g \in made : g.serial \in Nat /\ g.serial < serial
    BY DEF TypeInv, TypeOK, File, MadeBefore
  <2>5. \A l \in Labels : MadeUnder(l)' = MadeUnder(l)
    BY <2>1, <2>3, <2>4 DEF MadeUnder
  <2>6. MadeBefore'
    BY <2>1, <2>3, <2>4 DEF MadeBefore
  <2>7. LatestStored'
    <3> SUFFICES ASSUME NEW l \in Labels, latest'[l] # NONE
                 PROVE  \E g \in KeysUnder(l)' : g.key = latest'[l]
      BY DEF LatestStored
    <3>1. KeysUnder(l) \subseteq KeysUnder(l)'
      BY <2>1 DEF KeysUnder
    <3>2. CASE latest'[l] = latest[l]
      BY <3>1, <3>2 DEF LatestStored
    <3>3. CASE latest'[l] # latest[l]
      <4>1. l = c.label /\ c.app \in Algs /\ latest'[l] = c.key
        BY <1>3, <3>3 DEF WriteFile, TypeInv, TypeOK
      <4>2. f \in KeysUnder(l)' /\ f.key = latest'[l]
        BY <2>1, <4>1 DEF KeysUnder
      <4> QED BY <4>2
    <3> QED BY <3>2, <3>3
  <2> QED BY <2>2, <2>5, <2>6, <2>7 DEF AtMostTwoMade
<1>4. CASE ~WriteKey(p) /\ ~DestroyNext(p) /\ ~WriteFile(p)
  <2>1. UNCHANGED <<files, serial, history>>
    BY <1>4 DEF Step, Start, Finish, Fails, SearchFree, Saved, BeginLoad,
           FindFile, FindAgain, LoadKey, ListFiles, ListNext, FindAll, EndLoop
  <2> QED BY <2>1, StoreKept
<1> QED BY <1>1, <1>2, <1>3, <1>4

(* A command that starts, ends or gives up claims nothing.                 *)
LEMMA ProgressIdle ==
    ASSUME TypeInv, KeyInv, NEW p \in Procs,
           Start(p) \/ Finish(p) \/ Fails(p)
    PROVE  Progress(p)'
<1> USE DEF TypeInv, TypeOK, KeyInv, history
<1>1. CASE Start(p)
  <2>1. seen[p] = {} /\ pc'[p] = "start" /\ seen' = seen
    BY <1>1 DEF Start, Goto, Progress
  <2> QED BY <2>1 DEF Progress, Making, Loading, Listing, Claims, UsedKey, Did
<1>2. CASE Finish(p)
  <2>1. pc'[p] = "idle" /\ seen'[p] = {}
    BY <1>2 DEF Finish, Goto
  <2> QED BY <2>1 DEF Progress, Making, Loading, Listing, Claims, UsedKey, Did
<1>3. CASE Fails(p)
  <2>1. pc'[p] = "done" /\ reply'[p] = "Error"
    BY <1>3 DEF Fails, Answer, Goto
  <2> QED BY <2>1 DEF Progress, Making, Loading, Listing, Claims, UsedKey, Did
<1> QED BY <1>1, <1>2, <1>3

(* generate and import: the label they found free is theirs.               *)
LEMMA ProgressMaking ==
    ASSUME TypeInv, KeyInv, NEW p \in Procs,
           SearchFree(p) \/ WriteKey(p) \/ Saved(p)
    PROVE  Progress(p)'
<1> USE DEF TypeInv, TypeOK, KeyInv, history
<1>1. CASE SearchFree(p)
  <2>1. CASE pc'[p] = "write"
    <3>1. /\ seen'[p] = {}
          /\ IF cmd[p].overwrite THEN Cardinality(FilesOf(cmd[p].label)) <= 1
                                 ELSE FilesOf(cmd[p].label) = {}
      BY <1>1, <2>1 DEF SearchFree, Progress, Answer, Goto, Overwritable
    <3>2. cmd' = cmd /\ FilesOf(cmd[p].label)' = FilesOf(cmd[p].label)
      BY <1>1 DEF SearchFree, FilesOf
    <3> QED BY <2>1, <3>1, <3>2
            DEF Progress, Making, Loading, Listing, Claims, UsedKey, Did
  <2>2. CASE pc'[p] = "done" /\ reply'[p] \in {"TooManyObjects", "ObjectExists"}
    BY <2>2 DEF Progress, Making, Loading, Listing, Claims, UsedKey, Did
  <2> QED BY <1>1, <2>1, <2>2 DEF SearchFree, Answer, Goto
<1>2. CASE WriteKey(p)
  <2>1. pc'[p] = "saved" /\ cmd' = cmd
    BY <1>2 DEF WriteKey, Goto
  <2>2. ASSUME ~cmd[p].overwrite
        PROVE  \E f \in files' : FilesOf(cmd[p].label)' = {f} /\ seen'[p] = {Pair(f)}
    <3>1. FilesOf(cmd[p].label) = {}
      BY <1>2, <2>2 DEF WriteKey, Progress, Making
    <3>2. PICK f : /\ files' = files \cup {f} /\ f.label = cmd[p].label
                   /\ f.key = NewKey(cmd[p])
      <4> DEFINE g == [serial |-> serial, label |-> cmd[p].label,
                       app |-> cmd[p].alg, key |-> NewKey(cmd[p])]
      <4>1. /\ files' = files \cup {g} /\ g.label = cmd[p].label
            /\ g.key = NewKey(cmd[p])
        BY <1>2 DEF WriteKey
      <4> HIDE DEF g
      <4> QED BY <4>1
    <3>3. FilesOf(cmd[p].label)' = {f}
      BY <2>1, <3>1, <3>2 DEF FilesOf
    <3>4. seen'[p] = {Pair(f)}
      BY <1>2, <3>2 DEF WriteKey, Pair
    <3> QED BY <3>2, <3>3, <3>4
  <2> QED BY <2>1, <2>2 DEF Progress, Making, Loading, Listing, Claims, UsedKey, Did
<1>3. CASE Saved(p)
  <2>1. /\ pc'[p] = "done" /\ cmd[p].op \in {"generate", "import"}
        /\ UNCHANGED <<cmd, seen, files, latest>>
    BY <1>3 DEF Saved, Answer, Goto, Place
  <2>2. ~cmd[p].overwrite =>
          \E f \in files : FilesOf(cmd[p].label) = {f} /\ seen[p] = {Pair(f)}
    BY <1>3 DEF Saved, Progress, Making
  <2> QED BY <2>1, <2>2
          DEF Progress, Making, Loading, Listing, Claims, UsedKey, Did, FilesOf
<1> QED BY <1>1, <1>2, <1>3

(* load_key: the file found by label is the only one of its label, when it *)
(* is found again and when its value is read.                              *)
LEMMA ProgressLoading ==
    ASSUME TypeInv, KeyInv, NEW p \in Procs,
           BeginLoad(p) \/ FindFile(p) \/ FindAgain(p) \/ LoadKey(p)
    PROVE  Progress(p)'
<1> USE DEF TypeInv, TypeOK, KeyInv, history
<1>1. CASE BeginLoad(p)
  <2>1. /\ pc'[p] = "find" /\ cmd' = cmd /\ cmd[p].op # "list"
        /\ alias'[p] = cmd[p].label /\ seen'[p] = {}
    BY <1>1, Fields DEF BeginLoad, Goto, Progress, Place
  <2> QED BY <2>1 DEF Progress, Making, Loading, Listing, Claims, UsedKey, Did
<1>2. ASSUME FindFile(p) \/ FindAgain(p),
             pc'[p] = "done", reply'[p] \notin {"ok", "mismatch"}
      PROVE  Progress(p)'
  BY <1>2 DEF Progress, Making, Loading, Listing, Claims, UsedKey, Did
<1>3. ASSUME NEW f \in files, FilesOf(alias[p]) = {f},
             found' = [found EXCEPT ![p] = {f}],
             pc[p] \in {"find", "read"}, pc'[p] \in {"read", "load"},
             UNCHANGED <<files, cmd, alias, todo, seen>>
      PROVE  Progress(p)'
  <2>1. found'[p] = {f} /\ FilesOf(alias[p])' = {f} /\ Ours' = Ours
    BY <1>3 DEF FilesOf, Ours
  <2>2. Loading(p)'
    BY <1>3, <2>1 DEF Loading, Progress
  <2>3. Listing(p)'
    BY <1>3, <2>1 DEF Listing, Progress
  <2> QED BY <1>3, <2>2, <2>3 DEF Progress, Making, Claims, UsedKey, Did
<1>4. CASE FindFile(p)
  <2>1. CASE pc'[p] = "read"
    <3>1. PICK f \in SoleOf(FilesOf(alias[p])) : found' = [found EXCEPT ![p] = {f}]
      BY <1>4, <2>1 DEF FindFile, Answer, Goto
    <3>2. f \in files /\ FilesOf(alias[p]) = {f}
      BY <3>1 DEF SoleOf, FilesOf
    <3> QED BY <1>3, <1>4, <2>1, <3>1, <3>2 DEF FindFile
  <2>2. CASE pc'[p] # "read"
    BY <1>2, <1>4, <2>2 DEF FindFile, Answer, Goto
  <2> QED BY <2>1, <2>2
<1>5. CASE FindAgain(p)
  <2>1. PICK f \in files : found[p] = {f} /\ FilesOf(alias[p]) = {f}
    BY <1>5 DEF FindAgain, Progress, Loading
  <2>2. {g \in FilesOf(alias[p]) : g.app = f.app} = {f}
    BY <2>1
  <2>3. found' = [found EXCEPT ![p] = {f}] /\ pc'[p] = "load"
    BY <1>5, <2>1, <2>2 DEF FindAgain, Several, SoleOf, Goto
  <2> QED BY <1>3, <1>5, <2>1, <2>3 DEF FindAgain
<1>6. CASE LoadKey(p)
  <2>1. PICK f \in files : found[p] = {f} /\ FilesOf(alias[p]) = {f}
    BY <1>6 DEF LoadKey, Progress, Loading
  <2>2. f.label = alias[p] /\ f.app \in Algs
    BY <1>6, <2>1 DEF LoadKey, FilesOf, Place
  <2>3. /\ seen'[p] = seen[p] \cup {Pair(f)}
        /\ UNCHANGED <<files, cmd, alias, todo, latest>>
    BY <1>6, <2>1, <2>2 DEF LoadKey, Pair
  <2>4. CASE cmd[p].op = "list"
    <3>1. pc'[p] = "loop"
      BY <1>6, <2>1, <2>4 DEF LoadKey, Goto
    <3>2. PICK g \in Ours \ todo[p] :
             /\ g.label = alias[p]
             /\ seen[p] = {Pair(h) : h \in (Ours \ todo[p]) \ {g}}
      BY <1>6, <2>4 DEF LoadKey, Progress, Listing
    <3>3. g = f
      BY <2>1, <3>2 DEF FilesOf, Ours
    <3>4. seen'[p] = {Pair(h) : h \in Ours \ todo[p]}
      BY <2>3, <3>2, <3>3
    <3>5. Ours' = Ours /\ todo[p] \subseteq Ours
      BY <1>6, <2>3, <2>4 DEF Ours, LoadKey, Progress, Listing
    <3>6. Listing(p)'
      BY <2>3, <2>4, <3>1, <3>4, <3>5 DEF Listing
    <3> QED BY <3>1, <3>6 DEF Progress, Making, Loading, Claims, UsedKey, Did
  <2>5. CASE cmd[p].op # "list"
    <3>1. pc'[p] = "done" /\ cmd[p].op \in {"sign", "export", "verify"}
      BY <1>6, <2>1, <2>5 DEF LoadKey, Answer, Goto
    <3>2. seen'[p] = {Pair(f)} /\ alias[p] = cmd[p].label /\ cmd[p].label \in Labels
      BY <1>6, <2>3, <2>5, <3>1, Fields DEF LoadKey, Progress, Loading, Place
    <3>3. latest[cmd[p].label] # NONE => f.key = latest[cmd[p].label]
      BY <2>1, <3>2 DEF StoreInv, LatestStored, KeysUnder, FilesOf
    <3>4. Claims(p)'
      BY <2>2, <2>3, <3>1, <3>2, <3>3 DEF Claims, UsedKey, Did, Pair
    <3> QED BY <3>1, <3>4 DEF Progress, Making, Loading, Listing
  <2> QED BY <2>4, <2>5
<1> QED BY <1>1, <1>4, <1>5, <1>6

(* list, destroy and object-write.                                         *)
LEMMA ProgressListing ==
    ASSUME TypeInv, KeyInv, NEW p \in Procs,
           \/ ListFiles(p) \/ ListNext(p) \/ FindAll(p) \/ DestroyNext(p)
           \/ EndLoop(p) \/ WriteFile(p)
    PROVE  Progress(p)'
<1> USE DEF TypeInv, TypeOK, KeyInv, history
<1>1. CASE ListFiles(p)
  <2>1. /\ pc'[p] = "loop" /\ cmd[p].op = "list" /\ seen'[p] = {}
        /\ todo'[p] = Ours /\ Ours' = Ours /\ cmd' = cmd
    BY <1>1 DEF ListFiles, Goto, Progress, Ours
  <2>2. Listing(p)'
    BY <2>1 DEF Listing
  <2> QED BY <2>1, <2>2 DEF Progress, Making, Loading, Claims, UsedKey, Did
<1>2. CASE ListNext(p)
  <2>1. PICK f \in todo[p] : /\ alias' = [alias EXCEPT ![p] = f.label]
                             /\ todo' = [todo EXCEPT ![p] = @ \ {f}]
    BY <1>2 DEF ListNext
  <2>2. /\ todo[p] \subseteq Ours /\ seen[p] = {Pair(g) : g \in Ours \ todo[p]}
    BY <1>2 DEF ListNext, Progress, Listing
  <2>3. f.label \in Labels
    BY <2>1 DEF File
  <2>4. /\ pc'[p] = "find" /\ cmd[p].op = "list" /\ cmd' = cmd /\ Ours' = Ours
        /\ seen' = seen /\ alias'[p] = f.label /\ todo'[p] = todo[p] \ {f}
    BY <1>2, <2>1, <2>3 DEF ListNext, Goto, Ours
  <2>5. f \in Ours \ todo'[p] /\ (Ours \ todo'[p]) \ {f} = Ours \ todo[p]
    BY <2>1, <2>2, <2>4
  <2>6. Listing(p)'
    BY <2>2, <2>4, <2>5 DEF Listing
  <2> QED BY <2>4, <2>6 DEF Progress, Making, Loading, Claims, UsedKey, Did
<1>3. CASE FindAll(p)
  <2>1. pc'[p] = "loop" /\ cmd[p].op = "destroy" /\ cmd' = cmd
    BY <1>3 DEF FindAll, Goto
  <2> QED BY <2>1 DEF Progress, Making, Loading, Listing, Claims, UsedKey, Did
<1>4. CASE DestroyNext(p)
  <2>1. pc'[p] = "loop" /\ cmd[p].op = "destroy" /\ cmd' = cmd
    BY <1>4 DEF DestroyNext
  <2> QED BY <2>1 DEF Progress, Making, Loading, Listing, Claims, UsedKey, Did
<1>5. CASE EndLoop(p)
  <2>1. /\ pc[p] = "loop" /\ pc'[p] = "done" /\ cmd[p].op \in {"list", "destroy"}
        /\ UNCHANGED <<cmd, files, todo, seen, latest>> /\ todo[p] = {}
    BY <1>5 DEF EndLoop, Answer, Goto, Place
  <2>2. cmd[p].op = "list" => seen[p] = {Pair(f) : f \in Ours}
    BY <2>1 DEF Progress, Listing
  <2>3. Claims(p)'
    BY <2>1, <2>2 DEF Claims, UsedKey, Did, Ours
  <2> QED BY <2>1, <2>3 DEF Progress, Making, Loading, Listing
<1>6. CASE WriteFile(p)
  <2>1. pc'[p] = "done" /\ cmd[p].op = "write" /\ cmd' = cmd
    BY <1>6 DEF WriteFile, Answer, Goto
  <2> QED BY <2>1 DEF Progress, Making, Loading, Listing, Claims, UsedKey, Did
<1> QED BY <1>1, <1>2, <1>3, <1>4, <1>5, <1>6

(* Under the lock every step keeps the invariant.                          *)
LEMMA KeyNext ==
    ASSUME Locking, TypeInv, KeyInv, [Next]_vars
    PROVE  KeyInv'
<1>1. CASE UNCHANGED vars
  <2>1. /\ Locked' /\ StoreInv'
    BY <1>1, StoreKept DEF vars, history, KeyInv, Locked
  <2>2. ASSUME NEW p \in Procs PROVE Progress(p)'
    <3>1. Progress(p)
      BY DEF KeyInv
    <3> QED BY <1>1, <3>1 DEF vars, history, Progress, Making, Loading, Listing, Claims,
               UsedKey, Did, FilesOf, Ours
  <2> QED BY <2>1, <2>2 DEF KeyInv
<1>2. ASSUME NEW p \in Procs, Step(p)
      PROVE  KeyInv'
  <2>1. Locked' /\ StoreInv'
    BY <1>2, LockedStep, StoreStep DEF TypeInv, KeyInv
  <2>2. Progress(p)'
    BY <1>2, ProgressIdle, ProgressMaking, ProgressLoading, ProgressListing DEF Step
  <2>3. ASSUME NEW q \in Procs \ {p} PROVE Progress(q)'
    BY <1>2, Alone, Frame, IdleKept DEF TypeInv, KeyInv
  <2> QED BY <2>1, <2>2, <2>3 DEF KeyInv
<1> QED BY <1>1, <1>2 DEF Next, Step

(* The inductive invariant behind the four theorems that follow: if every  *)
(* invocation passes --lockfile, each command knows how its label stands.  *)
THEOREM SpxKeysSafe == ASSUME Locking PROVE Spec => []KeyInv
<1>1. Init => KeyInv
  <2>1. Init => StoreInv
    <3>1. Init => files = {} /\ made = {} /\ \A l \in Labels : MadeUnder(l) = {}
      BY DEF Init, MadeUnder
    <3>2. Init => LatestStored
      BY DEF Init, LatestStored
    <3> QED BY <3>1, <3>2, FS_EmptySet DEF StoreInv, AtMostTwoMade, MadeBefore
  <2>2. Init => Locked
    BY DEF Init, Locked
  <2>3. Init => \A p \in Procs : Progress(p)
    BY DEF Init, Progress, Making, Loading, Listing, Claims, UsedKey, Did
  <2> QED BY <2>1, <2>2, <2>3 DEF KeyInv
<1>2. TypeInv /\ KeyInv /\ [Next]_vars => KeyInv'
  BY KeyNext
<1> QED BY <1>1, <1>2, InitTypes, NextTypes, PTL DEF Spec

(* If every invocation passes --lockfile, no sign, export or verification  *)
(* uses a key that --overwrite was to replace.                             *)
THEOREM LatestKeyUsed == ASSUME Locking PROVE Spec => []UsesLatestKey
<1>1. KeyInv => UsesLatestKey
  BY DEF KeyInv, Progress, Claims, UsesLatestKey
<1> QED BY <1>1, SpxKeysSafe, PTL

(* If every invocation passes --lockfile, a key made without --overwrite   *)
(* is the only one of its label when generate or import has returned.      *)
THEOREM NewKeyLoads == ASSUME Locking PROVE Spec => []NewKeyIsLoadable
<1>1. KeyInv => NewKeyIsLoadable
  BY DEF KeyInv, Progress, Claims, NewKeyIsLoadable, FilesOf, Pair
<1> QED BY <1>1, SpxKeysSafe, PTL

(* If every invocation passes --lockfile, generate and import leave two of *)
(* their keys under a label at most, whatever object-write adds.           *)
THEOREM TwoMadeAtMost == ASSUME Locking PROVE Spec => []AtMostTwoMade
<1>1. KeyInv => AtMostTwoMade
  BY DEF KeyInv, StoreInv
<1> QED BY <1>1, SpxKeysSafe, PTL

(* If every invocation passes --lockfile, a list that succeeds shows every *)
(* key on the token, each under its own label.                             *)
THEOREM ListShowsAll == ASSUME Locking PROVE Spec => []ListIsExact
<1>1. KeyInv => ListIsExact
  BY DEF KeyInv, Progress, Claims, ListIsExact, Ours, Pair
<1> QED BY <1>1, SpxKeysSafe, PTL
=============================================================================
