---------------------------- MODULE SpxKms_proofs ----------------------------
(***************************************************************************)
(* Theorems about SpxKms, for every set of processes, keys and requests,   *)
(* every size of a page and number of changes made by others: type         *)
(* correctness, that a command uses the newest version, signs as it was    *)
(* asked and gives the right verdict, and that a list is complete.         *)
(***************************************************************************)
EXTENDS SpxKms, WellFoundedInduction, TLAPS

(* What is known of a process by its place in the code: what its command   *)
(* is, and that the version it has chosen exists and has a mode.           *)
Place(p) ==
    /\ pc[p] # "idle" => cmd[p] \in Requests
    /\ pc[p] \in {"keys", "next"} => cmd[p].op = "list"
    /\ pc[p] = "versions" => cmd[p].op \in {"sign", "verify", "export", "list"}
    /\ pc[p] = "publicKey" => cmd[p].op \in {"verify", "export", "list"}
    /\ pc[p] = "asymmetricSign" => cmd[p].op = "sign"
    /\ pc[p] = "createKey" => cmd[p].op = "generate" /\ cmd[p].domain # NONE
    /\ pc[p] \in {"versions", "publicKey", "asymmetricSign"} => key[p] \in Chosen
    /\ pc[p] \in {"publicKey", "asymmetricSign"} =>
          /\ key[p].version \in DOMAIN versions[key[p].alias]
          /\ versions[key[p].alias][key[p].version].algorithm \in Supported

TypeInv ==
    /\ TypeOK
    /\ versions \in [Aliases -> Seq(Version)]
    /\ \A p \in Procs : Place(p)
-----------------------------------------------------------------------------
(* None of the versions usable since the command began is newer than c, if *)
(* the server lists it on the first page.                                  *)
Newest(p, c) ==
    \A d \in steady[p] :
        d.alias = c.alias /\ d.version <= PageSize => d.version <= c.version

(* A process that has asked for no key yet.                                *)
Nothing(p) == todo[p] = {} /\ listed[p] = {} /\ seen[p] = {}

(* sign, verify and export.                                                *)
Using(p) ==
    /\ pc[p] \in {"versions", "publicKey", "asymmetricSign"} /\ cmd[p].op # "list" =>
          key[p].alias = cmd[p].alias /\ seen[p] = {}
    /\ pc[p] \in {"publicKey", "asymmetricSign"} => Newest(p, key[p])
    /\ pc[p] = "asymmetricSign" => cmd[p].domain = DomainOfKey(key[p])

(* list: the keys known since it began are still to do, being looked at or *)
(* listed; a key that is shown has been listed before.                     *)
Listing(p) ==
    /\ pc[p] = "next" => known[p] \subseteq todo[p] \cup listed[p]
    /\ pc[p] \in {"versions", "publicKey"} /\ cmd[p].op = "list" =>
          known[p] \subseteq todo[p] \cup listed[p] \cup {key[p].alias}
    /\ pc[p] = "publicKey" /\ cmd[p].op = "list" => key[p].alias \in listed[p]

Genuine(p) ==
    /\ sig[p] # NONE /\ sig[p].alias = cmd[p].alias
    /\ sig[p].domain = cmd[p].domain /\ sig[p].message = cmd[p].message

(* What a command that has returned may claim: the properties.             *)
Claims(p) ==
    /\ Uses(p) /\ cmd[p].op = "sign" =>
          \E s \in signed :
              /\ seen[p] = {[alias |-> s.alias, version |-> s.version]}
              /\ s.alias = cmd[p].alias /\ s.domain = cmd[p].domain
              /\ s.message = cmd[p].message
    /\ Uses(p) /\ cmd[p].op = "verify" =>
          IF reply[p] = "ok" THEN Genuine(p) /\ sig[p] \in signed
          ELSE Genuine(p) =>
                  \/ \E c \in seen[p] : c.version > sig[p].version
                  \/ sig[p].version > PageSize
                  \/ [alias |-> sig[p].alias, version |-> sig[p].version]
                        \notin steady[p]
    /\ pc[p] = "done" /\ cmd[p].op = "list" /\ reply[p] = "ok" =>
          known[p] \subseteq {c.alias : c \in seen[p]}

Progress(p) ==
    /\ pc[p] \in {"idle", "start", "keys", "createKey"} => Nothing(p)
    /\ sig[p] \in signed \cup {NONE}
    /\ steady[p] \subseteq UsableNow /\ known[p] \subseteq KnownNow
    /\ \A c \in seen[p] : Newest(p, c)
    /\ Using(p) /\ Listing(p) /\ Claims(p)

KmsInv == \A p \in Procs : Progress(p)
-----------------------------------------------------------------------------
(* A set of natural numbers has a least element.                           *)
LEMMA LeastOf ==
    ASSUME NEW D, D \subseteq Nat, D # {}
    PROVE  \E d \in D : \A e \in D : d <= e
<1> DEFINE Less == OpToRel(<, Nat)
<1>1. IsWellFoundedOn(Less, Nat)
  BY NatLessThanWellFounded, Zenon
<1>2. \A d, e \in Nat : e < d => <<e, d>> \in Less
  BY DEF OpToRel
<1> HIDE DEF Less
<1>3. \E d \in D : \A e \in D : <<e, d>> \notin Less
  BY <1>1, WFMin
<1>4. PICK d \in D : \A e \in D : <<e, d>> \notin Less
  BY <1>3
<1>5. \A e \in D : ~(e < d)
  BY <1>2, <1>4
<1> QED BY <1>5

(* Max is what its name says on a set that has an upper bound.             *)
LEMMA MaxOf ==
    ASSUME NEW n \in Nat, NEW S, S \subseteq 1..n, S # {}
    PROVE  Max(S) \in S /\ \A i \in S : i <= Max(S)
<1> DEFINE D == {n - i : i \in S}
<1>1. \A i \in S : i \in 1..n
  OBVIOUS
<1>2. D \subseteq Nat /\ D # {}
  <2>1. \A i \in S : n - i \in Nat
    BY <1>1
  <2>2. \A i \in S : n - i \in D
    OBVIOUS
  <2>3. D \subseteq Nat
    BY <2>1
  <2> HIDE DEF D
  <2> QED BY <2>2, <2>3
<1>3. \E d \in D : \A e \in D : d <= e
  <2> HIDE DEF D
  <2> QED BY <1>2, LeastOf
<1>4. PICK m \in S : \A e \in D : n - m <= e
  BY <1>3
<1>5. \A i \in S : n - m <= n - i
  BY <1>4
<1>6. \A i \in S : m >= i
  BY <1>1, <1>5
<1> QED BY <1>1, <1>6 DEF Max

(* Every request has the fields its command uses.                          *)
LEMMA Fields ==
    ASSUME NEW c \in Requests
    PROVE  /\ c.op \in {"generate", "sign", "verify", "export", "list", "import"}
           /\ c.op = "generate" =>
                 c.alias \in Aliases /\ c.domain \in Domains \cup {NONE}
           /\ c.op \in {"sign", "verify"} =>
                 /\ c.alias \in Aliases \cup {NONE} /\ c.domain \in Domains
                 /\ c.message \in Messages
           /\ c.op = "export" => c.alias \in Aliases
BY SpxKmsAssumption DEF Command

(* The mode of a supported algorithm.                                      *)
LEMMA DomainType ==
    ASSUME NEW algorithm \in Supported
    PROVE  DomainOf(algorithm) \in Domains
<1>1. \E d \in Domains : AlgorithmOf(d) = algorithm
  BY DEF Supported, Domains, AlgorithmOf
<1> QED BY <1>1 DEF DomainOf

(* The version get_key_version chooses is one of the usable ones on the    *)
(* first page, and none of them is newer.                                  *)
LEMMA NewestCandidate ==
    ASSUME TypeInv, NEW a \in Aliases, Candidates(a) # {}
    PROVE  LET v == NewestOf(Candidates(a))
           IN  /\ v \in DOMAIN versions[a] /\ v \in 1..MaxVersions
               /\ versions[a][v].algorithm \in Supported
               /\ \A i \in DOMAIN versions[a] :
                     i <= PageSize /\ Usable(versions[a][i]) => i <= v
<1>1. /\ Len(versions[a]) \in Nat /\ Len(versions[a]) <= MaxVersions
      /\ DOMAIN versions[a] = 1..Len(versions[a])
  BY DEF TypeInv, TypeOK
<1>2. Candidates(a) \subseteq 1..Len(versions[a])
  BY <1>1 DEF Candidates
<1> DEFINE C == Candidates(a)
<1>3. Max(C) \in C /\ \A i \in C : i <= Max(C)
  <2> HIDE DEF C
  <2> QED BY <1>1, <1>2, MaxOf DEF C
<1>4. Max(C) \in 1..MaxVersions
  BY <1>1, <1>2, <1>3, SpxKmsAssumption
<1> QED BY <1>1, <1>3, <1>4 DEF NewestOf, Candidates, Usable
-----------------------------------------------------------------------------
(* What the server keeps: the types, and its versions, whose algorithms do *)
(* not change.                                                             *)
ServerType ==
    /\ template \in [Aliases -> Algorithms \cup {NONE}]
    /\ versions \in [Aliases -> Seq(Version)]
    /\ \A a \in Aliases : /\ Len(versions[a]) <= MaxVersions
                          /\ template[a] = NONE => versions[a] = <<>>

Grown ==
    \A a \in Aliases : \A i \in DOMAIN versions[a] :
        /\ i \in DOMAIN versions'[a]
        /\ versions'[a][i].algorithm = versions[a][i].algorithm

(* A key is created.                                                       *)
LEMMA CreatedGrows ==
    ASSUME TypeInv, NEW a \in Aliases, NEW algorithm \in Algorithms,
           Created(a, algorithm)
    PROVE  ServerType' /\ Grown
<1> DEFINE v == [algorithm |-> algorithm, state |-> "PENDING_GENERATION"]
<1>1. v \in Version
  BY DEF Version, VersionStates
<1>2. versions' = [versions EXCEPT ![a] = <<v>>] /\ versions[a] = <<>>
  BY DEF Created, TypeInv, TypeOK
<1> HIDE DEF v
<1>3. <<v>> \in Seq(Version) /\ Len(<<v>>) <= MaxVersions
  BY <1>1, SpxKmsAssumption
<1>4. NONE \notin Algorithms
  BY SpxKmsAssumption
<1> QED BY <1>2, <1>3, <1>4 DEF Created, TypeInv, TypeOK, ServerType, Grown

(* A version is added.                                                     *)
LEMMA RotateGrows ==
    ASSUME TypeInv, NEW a \in Aliases, Rotate(a)
    PROVE  ServerType' /\ Grown
<1> DEFINE v == [algorithm |-> template[a], state |-> "PENDING_GENERATION"]
<1>1. v \in Version
  BY DEF Version, VersionStates, Rotate, TypeInv, TypeOK
<1>2. versions' = [versions EXCEPT ![a] = Append(versions[a], v)]
  BY DEF Rotate
<1> HIDE DEF v
<1>3. /\ Append(versions[a], v) \in Seq(Version)
      /\ Len(Append(versions[a], v)) = Len(versions[a]) + 1
      /\ \A i \in DOMAIN versions[a] : /\ i \in DOMAIN Append(versions[a], v)
                                       /\ Append(versions[a], v)[i] = versions[a][i]
  BY <1>1 DEF TypeInv
<1>4. Len(versions[a]) + 1 <= MaxVersions
  BY SpxKmsAssumption DEF Rotate, TypeInv
<1> QED BY <1>2, <1>3, <1>4 DEF Rotate, TypeInv, TypeOK, ServerType, Grown

(* A version becomes enabled or disabled.                                  *)
LEMMA StateGrows ==
    ASSUME TypeInv, NEW a \in Aliases, NEW i \in DOMAIN versions[a],
           NEW state \in VersionStates, UNCHANGED template,
           versions' = [versions EXCEPT ![a][i].state = state]
    PROVE  ServerType' /\ Grown
<1> DEFINE v == [versions[a][i] EXCEPT !.state = state]
           s == [versions[a] EXCEPT ![i] = v]
<1>1. versions[a][i] \in Version
  BY DEF TypeInv, TypeOK
<1>2. v \in Version /\ v.algorithm = versions[a][i].algorithm
  BY <1>1 DEF Version
<1>3. versions' = [versions EXCEPT ![a] = s]
  OBVIOUS
<1> HIDE DEF v
<1>4. s \in Seq(Version) /\ Len(s) = Len(versions[a]) /\ DOMAIN s = DOMAIN versions[a]
  BY <1>2 DEF TypeInv
<1>5. \A j \in DOMAIN versions[a] : s[j].algorithm = versions[a][j].algorithm
  BY <1>2
<1>6. template[a] # NONE
  BY DEF TypeInv, TypeOK
<1> HIDE DEF s
<1> QED BY <1>3, <1>4, <1>5, <1>6 DEF TypeInv, TypeOK, ServerType, Grown

(* What others do on the server, and what generate does.                   *)
LEMMA ServerGrows ==
    ASSUME TypeInv, Server \/ \E p \in Procs : CreateKey(p)
    PROVE  ServerType' /\ Grown /\ signed' = signed /\ Remember
<1>1. ASSUME NEW p \in Procs, CreateKey(p)
      PROVE  ServerType' /\ Grown /\ signed' = signed /\ Remember
  <2>1. cmd[p] \in Requests /\ cmd[p].op = "generate" /\ cmd[p].domain # NONE
    BY <1>1 DEF CreateKey, TypeInv, Place
  <2>2. cmd[p].alias \in Aliases /\ AlgorithmOf(cmd[p].domain) \in Algorithms
    BY <2>1, Fields DEF AlgorithmOf, Algorithms, Supported
  <2> QED BY <1>1, <2>2, CreatedGrows DEF CreateKey, Created
<1>2. ASSUME NEW a \in Aliases, CreateOther(a)
      PROVE  ServerType' /\ Grown /\ signed' = signed /\ Remember
  BY <1>2, CreatedGrows DEF CreateOther, Created, Change, Algorithms
<1>3. ASSUME NEW a \in Aliases, NEW algorithm \in Supported,
             SetTemplate(a, algorithm)
      PROVE  ServerType' /\ Grown /\ signed' = signed /\ Remember
  <2>1. NONE \notin Algorithms
    BY SpxKmsAssumption
  <2> QED BY <1>3, <2>1 DEF SetTemplate, Change, TypeInv, TypeOK, ServerType,
             Grown, Algorithms
<1>4. ASSUME NEW a \in Aliases, Rotate(a)
      PROVE  ServerType' /\ Grown /\ signed' = signed /\ Remember
  BY <1>4, RotateGrows DEF Rotate, Change
<1>5. ASSUME NEW a \in Aliases, NEW i \in DOMAIN versions[a],
             \/ Generated(a, i)
             \/ \E state \in {"ENABLED", "DISABLED"} : SetState(a, i, state)
      PROVE  ServerType' /\ Grown /\ signed' = signed /\ Remember
  <2>1. PICK state \in VersionStates :
           versions' = [versions EXCEPT ![a][i].state = state]
    BY <1>5 DEF Generated, SetState, VersionStates
  <2>2. UNCHANGED <<template, signed>> /\ Remember
    BY <1>5 DEF Generated, SetState, Change
  <2> QED BY <2>1, <2>2, StateGrows
<1> QED BY <1>1, <1>2, <1>3, <1>4, <1>5 DEF Server

(* The histories keep their types, and only lose members.                  *)
LEMMA Forgets ==
    ASSUME TypeOK, Remember
    PROVE  /\ steady' \in [Procs -> SUBSET Chosen]
           /\ known' \in [Procs -> SUBSET Aliases]
           /\ \A p \in Procs :
                 /\ steady'[p] \subseteq steady[p] \cap UsableNow'
                 /\ known'[p] \subseteq known[p] \cap KnownNow'
BY DEF TypeOK, Remember

(* A process whose own state is as it was is where it was.                 *)
LEMMA PlaceKept ==
    ASSUME Grown, TypeInv, NEW q \in Procs,
           pc'[q] = pc[q], cmd'[q] = cmd[q], key'[q] = key[q]
    PROVE  Place(q)'
BY DEF Place, TypeInv, Grown, Chosen

(* The parts of the type invariant that only processes change.             *)
ClientType ==
    /\ signed \subseteq Signature
    /\ runs \in 0..MaxRuns /\ changes \in 0..MaxChanges
    /\ pc \in [Procs -> PCs]
    /\ cmd \in [Procs -> Requests \cup {NONE}]
    /\ sig \in [Procs -> Signature \cup {NONE}]
    /\ key \in [Procs -> Chosen \cup {NONE}]
    /\ todo \in [Procs -> SUBSET Aliases]
    /\ listed \in [Procs -> SUBSET Aliases]
    /\ seen \in [Procs -> SUBSET Chosen]
    /\ reply \in [Procs -> Outcomes \cup {NONE}]
    /\ steady \in [Procs -> SUBSET Chosen]
    /\ known \in [Procs -> SUBSET Aliases]

LEMMA TypeParts ==
    /\ TypeInv <=> ServerType /\ ClientType /\ \A p \in Procs : Place(p)
    /\ TypeInv' <=> ServerType' /\ ClientType' /\ \A p \in Procs : Place(p)'
BY DEF TypeInv, TypeOK, ServerType, ClientType

(* The types hold at the start.                                            *)
LEMMA InitTypes == Init => TypeInv
<1> SUFFICES ASSUME Init PROVE TypeInv
  OBVIOUS
<1>1. ServerType
  BY SpxKmsAssumption DEF Init, ServerType
<1>2. ClientType
  BY SpxKmsAssumption DEF Init, ClientType, PCs
<1>3. \A p \in Procs : Place(p)
  BY DEF Init, Place
<1> QED BY <1>1, <1>2, <1>3, TypeParts

(* Others leave the processes alone.                                       *)
LEMMA ServerLeaves ==
    ASSUME TypeInv, Server
    PROVE  UNCHANGED <<client, pc, runs>> /\ changes' \in 0..MaxChanges
<1>1. \/ Change
      \/ UNCHANGED <<client, pc, runs, changes>>
  <2>1. CASE \E a \in Aliases : \/ CreateOther(a) \/ Rotate(a)
                                \/ \E algorithm \in Supported : SetTemplate(a, algorithm)
    BY <2>1 DEF CreateOther, SetTemplate, Rotate
  <2>2. CASE \E a \in Aliases : \E i \in DOMAIN versions[a] :
                \/ \E state \in {"ENABLED", "DISABLED"} : SetState(a, i, state)
                \/ Generated(a, i)
    BY <2>2 DEF SetState, Generated
  <2> QED BY <2>1, <2>2 DEF Server
<1> QED BY <1>1, SpxKmsAssumption DEF Change, TypeInv, TypeOK

(* Nothing but the server's own state changes in a step of its own.        *)
LEMMA ServerTypes == ASSUME TypeInv, Server PROVE TypeInv'
<1>1. ServerType' /\ Grown /\ signed' = signed /\ Remember
  BY ServerGrows
<1>2. UNCHANGED <<client, pc, runs>> /\ changes' \in 0..MaxChanges
  BY ServerLeaves
<1>3. ClientType'
  BY <1>1, <1>2, Forgets, TypeParts DEF ClientType, client, TypeInv
<1>4. \A q \in Procs : Place(q)'
  BY <1>1, <1>2, PlaceKept DEF client
<1> QED BY <1>1, <1>3, <1>4, TypeParts

(* One step of process p.                                                  *)
Step(p) ==
    \/ Start(p) \/ CannotConnect(p) \/ Begin(p) \/ Fails(p) \/ Finish(p)
    \/ GetKeyVersion(p) \/ GetPublicKey(p) \/ AsymmetricSign(p)
    \/ CreateKey(p) \/ ListKeys(p) \/ ListNext(p)

(* A step of p moves nobody else and changes nothing of theirs.            *)
LEMMA Frame ==
    ASSUME TypeOK, NEW p \in Procs, Step(p), NEW q \in Procs \ {p}
    PROVE  /\ pc'[q] = pc[q] /\ cmd'[q] = cmd[q] /\ sig'[q] = sig[q]
           /\ key'[q] = key[q] /\ todo'[q] = todo[q] /\ listed'[q] = listed[q]
           /\ seen'[q] = seen[q] /\ reply'[q] = reply[q]
<1> USE DEF TypeOK, Goto, Answer, Reads
<1>1. CASE Start(p) \/ CannotConnect(p) \/ Fails(p) \/ Finish(p)
  BY <1>1 DEF Start, CannotConnect, Fails, Finish
<1>2. CASE Begin(p)
  BY <1>2 DEF Begin
<1>3. CASE GetKeyVersion(p)
  BY <1>3 DEF GetKeyVersion, NoVersion
<1>4. CASE GetPublicKey(p) \/ AsymmetricSign(p)
  BY <1>4 DEF GetPublicKey, AsymmetricSign
<1>5. CASE CreateKey(p) \/ ListKeys(p) \/ ListNext(p)
  BY <1>5 DEF CreateKey, ListKeys, ListNext
<1> QED BY <1>1, <1>2, <1>3, <1>4, <1>5 DEF Step

(* Going on, or giving an answer.                                          *)
Moves(p, places) ==
    \/ \E o \in Outcomes : Answer(p, o)
    \/ \E place \in places : Goto(p, place) /\ UNCHANGED reply

LEMMA MovesType ==
    ASSUME TypeOK, NEW p \in Procs, NEW places \in SUBSET PCs, Moves(p, places)
    PROVE  /\ pc' \in [Procs -> PCs] /\ pc'[p] \in places \cup {"done"}
           /\ reply' \in [Procs -> Outcomes \cup {NONE}]
<1>1. ASSUME NEW o \in Outcomes, Answer(p, o)
      PROVE  /\ pc' \in [Procs -> PCs] /\ pc'[p] = "done"
             /\ reply' \in [Procs -> Outcomes \cup {NONE}]
  BY <1>1 DEF Answer, Goto, PCs, TypeOK
<1>2. ASSUME NEW place \in places, Goto(p, place), UNCHANGED reply
      PROVE  /\ pc' \in [Procs -> PCs] /\ pc'[p] \in places
             /\ reply' \in [Procs -> Outcomes \cup {NONE}]
  BY <1>2 DEF Goto, TypeOK
<1> QED BY <1>1, <1>2 DEF Moves

(* A version is chosen: it is one, and its algorithm is supported.         *)
LEMMA ChosenType ==
    ASSUME TypeInv, NEW a \in Aliases, Candidates(a) # {},
           NEW c, c = [alias |-> a, version |-> NewestOf(Candidates(a))]
    PROVE  /\ c \in Chosen /\ c.version \in DOMAIN versions[c.alias]
           /\ versions[c.alias][c.version].algorithm \in Supported
BY NewestCandidate DEF Chosen

(* What a step of a process does to the types of its own state.            *)
LEMMA StepClientTypes ==
    ASSUME TypeInv, NEW p \in Procs, Step(p)
    PROVE  ClientType' /\ Place(p)'
<1> USE DEF TypeInv, TypeOK, ClientType
<1>1. CASE Start(p)
  <2>1. /\ steady' \in [Procs -> SUBSET Chosen] /\ known' \in [Procs -> SUBSET Aliases]
        /\ runs' \in 0..MaxRuns
    BY <1>1, SpxKmsAssumption DEF Start, UsableNow, KnownNow
  <2>2. cmd' \in [Procs -> Requests \cup {NONE}] /\ cmd'[p] \in Requests
    BY <1>1 DEF Start
  <2>3. sig' \in [Procs -> Signature \cup {NONE}]
    <3>1. PICK s \in signed \cup {NONE} : sig' = [sig EXCEPT ![p] = s]
      BY <1>1 DEF Start
    <3> QED BY <3>1
  <2>4. pc' \in [Procs -> PCs] /\ pc'[p] = "start"
    BY <1>1 DEF Start, Goto, PCs
  <2> QED BY <1>1, <2>1, <2>2, <2>3, <2>4 DEF Start, server, Place
<1>2. CASE CannotConnect(p) \/ Fails(p)
  <2>1. UNCHANGED <<signed, runs, changes, cmd, sig, key, todo, listed, seen,
                    steady, known>>
    BY <1>2 DEF CannotConnect, Fails, Reads, server
  <2>2. /\ pc' \in [Procs -> PCs] /\ pc'[p] = "done" /\ pc[p] # "idle"
        /\ reply' \in [Procs -> Outcomes \cup {NONE}]
    BY <1>2 DEF CannotConnect, Fails, Answer, Goto, PCs, Outcomes
  <2> QED BY <2>1, <2>2 DEF Place
<1>3. CASE Begin(p)
  <2> DEFINE c == cmd[p]
  <2>1. c \in Requests /\ pc[p] = "start"
    BY <1>3 DEF Begin, Place
  <2>2. UNCHANGED <<signed, runs, changes, cmd, sig, todo, listed, seen,
                    steady, known>>
    BY <1>3 DEF Begin, Reads, server
  <2>3. /\ pc' \in [Procs -> PCs]
        /\ reply' \in [Procs -> Outcomes \cup {NONE}]
    BY <1>3 DEF Begin, Answer, Goto, PCs, Outcomes
  <2>4. /\ pc'[p] \in {"done", "keys", "createKey", "versions"}
        /\ pc'[p] = "keys" => c.op = "list"
        /\ pc'[p] = "createKey" => c.op = "generate" /\ c.domain # NONE
        /\ pc'[p] = "versions" => /\ c.op \in {"sign", "verify", "export"}
                                  /\ c.alias # NONE
    BY <1>3 DEF Begin, Answer, Goto
  <2>5. pc'[p] = "versions" => [alias |-> c.alias, version |-> 1] \in Chosen
    BY <2>1, <2>4, Fields, SpxKmsAssumption DEF Chosen
  <2>6. /\ key' \in [Procs -> Chosen \cup {NONE}]
        /\ pc'[p] = "versions" => key'[p] \in Chosen
    BY <1>3, <2>5 DEF Begin
  <2> QED BY <2>1, <2>2, <2>3, <2>4, <2>6 DEF Place
<1>4. CASE Finish(p)
  BY <1>4 DEF Finish, Goto, server, Place, PCs
<1>5. CASE GetKeyVersion(p)
  <2> DEFINE a == key[p].alias
             chosen == [alias |-> a, version |-> NewestOf(Candidates(a))]
  <2>1. /\ cmd[p] \in Requests /\ a \in Aliases /\ pc[p] = "versions"
        /\ cmd[p].op \in {"sign", "verify", "export", "list"}
    BY <1>5 DEF GetKeyVersion, Place, Chosen
  <2>2. UNCHANGED <<versions, signed, runs, changes, cmd, sig, todo, seen,
                    steady, known>>
    BY <1>5 DEF GetKeyVersion, Reads, server
  <2>3. /\ pc' \in [Procs -> PCs]
        /\ reply' \in [Procs -> Outcomes \cup {NONE}]
        /\ listed' \in [Procs -> SUBSET Aliases]
    <3>1. Moves(p, {"publicKey", "next", "asymmetricSign"})
      BY <1>5 DEF GetKeyVersion, NoVersion, Moves, Outcomes
    <3>2. \/ UNCHANGED listed
          \/ listed' = [listed EXCEPT ![p] = @ \cup {a}]
      BY <1>5 DEF GetKeyVersion
    <3>3. listed' \in [Procs -> SUBSET Aliases]
      <4>1. a \in Aliases
        BY <2>1
      <4> HIDE DEF a
      <4>2. listed[p] \cup {a} \in SUBSET Aliases
        BY <4>1
      <4> QED BY <3>2, <4>2
    <3> QED BY <3>1, <3>3, MovesType DEF PCs
  <2>4. CASE Candidates(a) = {}
    BY <1>5, <2>1, <2>2, <2>3, <2>4 DEF GetKeyVersion, NoVersion, Answer, Goto, Place
  <2>5. CASE Candidates(a) # {}
    <3>1. PICK c : c = chosen
      OBVIOUS
    <3>2. /\ c \in Chosen /\ c.version \in DOMAIN versions[c.alias]
          /\ versions[c.alias][c.version].algorithm \in Supported
      BY <2>1, <2>5, <3>1, ChosenType
    <3>3. key' = [key EXCEPT ![p] = c]
      BY <1>5, <2>5, <3>1 DEF GetKeyVersion
    <3>4. /\ pc'[p] \in {"done", "publicKey", "next", "asymmetricSign"}
          /\ pc'[p] = "publicKey" => cmd[p].op \in {"verify", "export", "list"}
          /\ pc'[p] = "next" => cmd[p].op = "list"
          /\ pc'[p] = "asymmetricSign" => cmd[p].op = "sign"
      BY <1>5, <2>5 DEF GetKeyVersion, Answer, Goto
    <3> QED BY <2>1, <2>2, <2>3, <3>2, <3>3, <3>4 DEF Place
  <2> QED BY <2>4, <2>5
<1>6. CASE GetPublicKey(p)
  <2>1. key[p] \in Chosen /\ pc[p] = "publicKey" /\ cmd[p] \in Requests
    BY <1>6 DEF GetPublicKey, Place
  <2>2. UNCHANGED <<signed, runs, changes, cmd, sig, key, todo, listed,
                    steady, known>>
    BY <1>6 DEF GetPublicKey, Reads, server
  <2>3. /\ pc' \in [Procs -> PCs] /\ pc'[p] \in {"done", "next"}
        /\ pc'[p] = "next" => cmd[p].op = "list"
        /\ reply' \in [Procs -> Outcomes \cup {NONE}]
        /\ seen' \in [Procs -> SUBSET Chosen]
    <3>1. Moves(p, {"next"})
      BY <1>6 DEF GetPublicKey, Moves, Outcomes
    <3>2. \/ UNCHANGED seen \/ seen' = [seen EXCEPT ![p] = {key[p]}]
          \/ seen' = [seen EXCEPT ![p] = @ \cup {key[p]}]
      BY <1>6 DEF GetPublicKey
    <3>3. seen' \in [Procs -> SUBSET Chosen]
      BY <2>1, <3>2
    <3>4. pc'[p] = "next" => cmd[p].op = "list"
      BY <1>6 DEF GetPublicKey, Answer, Goto
    <3> QED BY <3>1, <3>3, <3>4, MovesType DEF PCs
  <2> QED BY <2>1, <2>2, <2>3 DEF Place
<1>7. CASE AsymmetricSign(p)
  <2>1. /\ key[p] \in Chosen /\ cmd[p] \in Requests /\ cmd[p].op = "sign"
        /\ versions[key[p].alias][key[p].version].algorithm \in Supported
    BY <1>7 DEF AsymmetricSign, Place
  <2>2. signed' \in SUBSET Signature
    BY <1>7, <2>1, Fields, DomainType DEF AsymmetricSign, Signature, Chosen
  <2>3. UNCHANGED <<runs, changes, cmd, sig, key, todo, listed, steady, known>>
    BY <1>7 DEF AsymmetricSign
  <2>4. /\ pc' \in [Procs -> PCs] /\ pc'[p] = "done"
        /\ reply' \in [Procs -> Outcomes \cup {NONE}]
        /\ seen' \in [Procs -> SUBSET Chosen]
    <3>1. Moves(p, {})
      BY <1>7 DEF AsymmetricSign, Moves, Outcomes
    <3>2. UNCHANGED seen \/ seen' = [seen EXCEPT ![p] = {key[p]}]
      BY <1>7 DEF AsymmetricSign
    <3>3. seen' \in [Procs -> SUBSET Chosen]
      <4>1. {key[p]} \in SUBSET Chosen
        BY <2>1
      <4> QED BY <3>2, <4>1
    <3> QED BY <3>1, <3>3, MovesType DEF PCs
  <2> QED BY <2>1, <2>2, <2>3, <2>4 DEF Place
<1>8. CASE CreateKey(p)
  <2>1. UNCHANGED <<signed, runs, changes, cmd, sig, key, todo, listed, seen>>
    BY <1>8 DEF CreateKey, Created
  <2>2. /\ pc' \in [Procs -> PCs] /\ pc'[p] = "done" /\ cmd[p] \in Requests
        /\ reply' \in [Procs -> Outcomes \cup {NONE}]
    BY <1>8 DEF CreateKey, Answer, Goto, PCs, Outcomes, Place
  <2>3. steady' \in [Procs -> SUBSET Chosen] /\ known' \in [Procs -> SUBSET Aliases]
    BY <1>8, Forgets DEF CreateKey
  <2> QED BY <2>1, <2>2, <2>3 DEF Place
<1>9. CASE ListKeys(p)
  <2>1. /\ todo' \in [Procs -> SUBSET Aliases] /\ pc' \in [Procs -> PCs]
        /\ pc'[p] = "next" /\ cmd[p] \in Requests /\ cmd[p].op = "list"
    BY <1>9 DEF ListKeys, KnownNow, Goto, PCs, Place
  <2>2. UNCHANGED <<signed, runs, changes, cmd, sig, key, listed, seen, reply,
                    steady, known>>
    BY <1>9 DEF ListKeys, Reads, server
  <2> QED BY <2>1, <2>2 DEF Place
<1>10. CASE ListNext(p)
  <2>1. UNCHANGED <<signed, runs, changes, cmd, sig, listed, seen, steady, known>>
    BY <1>10 DEF ListNext, Reads, server
  <2>2. cmd[p] \in Requests /\ cmd[p].op = "list"
    BY <1>10 DEF ListNext, Place
  <2>3. \A a \in Aliases : [alias |-> a, version |-> 1] \in Chosen
    BY SpxKmsAssumption DEF Chosen
  <2>4. /\ pc' \in [Procs -> PCs] /\ pc'[p] \in {"versions", "done"}
        /\ todo' \in [Procs -> SUBSET Aliases]
        /\ key' \in [Procs -> Chosen \cup {NONE}]
        /\ pc'[p] = "versions" => key'[p] \in Chosen
        /\ reply' \in [Procs -> Outcomes \cup {NONE}]
    <3>1. Moves(p, {"versions"})
      BY <1>10 DEF ListNext, Moves, Outcomes
    <3>2. \/ UNCHANGED key /\ pc'[p] = "done"
          \/ \E a \in Aliases : key' = [key EXCEPT ![p] = [alias |-> a, version |-> 1]]
      <4>1. todo[p] \subseteq Aliases /\ listed[p] \subseteq Aliases
        OBVIOUS
      <4> QED BY <1>10, <4>1 DEF ListNext, Answer, Goto
    <3>3. /\ key' \in [Procs -> Chosen \cup {NONE}]
          /\ pc'[p] = "versions" => key'[p] \in Chosen
      BY <2>3, <3>2
    <3>4. todo' \in [Procs -> SUBSET Aliases]
      <4>1. UNCHANGED todo \/ \E a : todo' = [todo EXCEPT ![p] = @ \ {a}]
        BY <1>10 DEF ListNext
      <4> QED BY <4>1
    <3> QED BY <3>1, <3>3, <3>4, MovesType DEF PCs
  <2> QED BY <2>1, <2>2, <2>4 DEF Place
<1> QED BY <1>1, <1>2, <1>3, <1>4, <1>5, <1>6, <1>7, <1>8, <1>9, <1>10 DEF Step

(* What a step of a process does to the server: it creates a key, or       *)
(* leaves the keys alone; a signature, once made, stays made.              *)
LEMMA StepServer ==
    ASSUME TypeInv, NEW p \in Procs, Step(p)
    PROVE  ServerType' /\ Grown /\ signed \subseteq signed'
<1>1. CASE CreateKey(p)
  BY <1>1, ServerGrows
<1>2. CASE ~CreateKey(p)
  <2>1. UNCHANGED <<template, versions>> /\ signed \subseteq signed'
    BY <1>2 DEF Step, Start, CannotConnect, Begin, Fails, Finish, GetKeyVersion,
       GetPublicKey, AsymmetricSign, ListKeys, ListNext, Reads, server
  <2> QED BY <2>1, TypeParts DEF ServerType, Grown
<1> QED BY <1>1, <1>2

(* Every step keeps the types.                                             *)
LEMMA NextTypes == TypeInv /\ [Next]_vars => TypeInv'
<1> SUFFICES ASSUME TypeInv, [Next]_vars PROVE TypeInv'
  OBVIOUS
<1>1. CASE UNCHANGED vars
  BY <1>1 DEF vars, server, client, TypeInv, TypeOK, Place
<1>2. CASE Server
  BY <1>2, ServerTypes
<1>3. ASSUME NEW p \in Procs, Step(p) PROVE TypeInv'
  <2>1. ServerType' /\ Grown /\ ClientType' /\ Place(p)'
    BY <1>3, StepServer, StepClientTypes
  <2>2. ASSUME NEW q \in Procs \ {p} PROVE Place(q)'
    BY <1>3, <2>1, Frame, PlaceKept DEF TypeInv
  <2> QED BY <2>1, <2>2, TypeParts
<1> QED BY <1>1, <1>2, <1>3 DEF Next, Step

(* Every reachable state has its type: in particular a version that a      *)
(* command has chosen exists, whatever the other users do on the server.   *)
THEOREM KmsTypesHold == Spec => []TypeOK
<1>1. TypeInv => TypeOK
  BY DEF TypeInv
<1> QED BY InitTypes, NextTypes, <1>1, PTL DEF Spec
-----------------------------------------------------------------------------
(* A process whose own state is as it was keeps what it knows and claims:  *)
(* signatures only get more, and the histories only forget.                *)
LEMMA ProgressKept ==
    ASSUME TypeInv, Grown, NEW q \in Procs, Progress(q),
           pc'[q] = pc[q], cmd'[q] = cmd[q], sig'[q] = sig[q], key'[q] = key[q],
           todo'[q] = todo[q], listed'[q] = listed[q], seen'[q] = seen[q],
           reply'[q] = reply[q], signed \subseteq signed',
           steady'[q] \subseteq steady[q] \cap UsableNow',
           known'[q] \subseteq known[q] \cap KnownNow'
    PROVE  Progress(q)'
<1>1. (pc[q] \in {"idle", "start", "keys", "createKey"} => Nothing(q))'
  BY DEF Progress, Nothing
<1>2. ASSUME NEW c, Newest(q, c) PROVE Newest(q, c)'
  BY <1>2 DEF Newest
<1>3. \A c \in seen'[q] : Newest(q, c)'
  BY <1>2 DEF Progress
<1>4. Using(q)'
  <2>1. pc[q] \in {"publicKey", "asymmetricSign"} => Newest(q, key[q])'
    BY DEF Progress, Using, Newest
  <2>2. pc[q] = "asymmetricSign" => DomainOfKey(key[q])' = DomainOfKey(key[q])
    BY DEF TypeInv, Place, DomainOfKey, Grown, Chosen
  <2> QED BY <2>1, <2>2 DEF Progress, Using, Newest, DomainOfKey
<1>5. Listing(q)'
  BY DEF Progress, Listing
<1>6. Claims(q)'
  <2>1. Claims(q)
    BY DEF Progress
  <2>2. Uses(q)' = Uses(q) /\ Genuine(q)' = Genuine(q)
    BY DEF Uses, Genuine
  <2> QED BY <2>1, <2>2 DEF Claims
<1> QED BY <1>1, <1>3, <1>4, <1>5, <1>6 DEF Progress

(* What a process remembers of the server when it only reads there.        *)
LEMMA ReadsKept ==
    ASSUME NEW p \in Procs, Progress(p), Reads
    PROVE  /\ sig'[p] \in signed' \cup {NONE}
           /\ steady'[p] \subseteq UsableNow' /\ known'[p] \subseteq KnownNow'
BY DEF Progress, Reads, server, UsableNow, KnownNow

(* A command that starts, ends or fails before it has used a key.          *)
LEMMA ProgressBegin ==
    ASSUME TypeInv, NEW p \in Procs, Progress(p),
           \/ Start(p) \/ CannotConnect(p) \/ Begin(p) \/ Fails(p) \/ Finish(p)
    PROVE  Progress(p)'
<1> USE DEF TypeInv, TypeOK
<1>1. CASE Start(p)
  <2>1. /\ pc'[p] = "start" /\ Nothing(p)'
        /\ steady'[p] = UsableNow' /\ known'[p] = KnownNow'
    BY <1>1 DEF Start, Goto, Progress, Nothing, server, UsableNow, KnownNow
  <2>2. sig'[p] \in signed' \cup {NONE}
    BY <1>1 DEF Start, server
  <2> QED BY <2>1, <2>2 DEF Progress, Nothing, Using, Listing, Claims, Uses
<1>2. CASE Finish(p)
  BY <1>2 DEF Finish, Goto, Progress, Nothing, Using, Listing, Claims, Uses
<1>3. CASE CannotConnect(p) \/ Fails(p)
  <2>1. /\ pc'[p] = "done" /\ reply'[p] \in {"Unsupported", "Error"} /\ Reads
        /\ UNCHANGED <<key, todo, listed, seen>>
    BY <1>3 DEF CannotConnect, Fails, Answer, Goto
  <2>2. \A c \in seen'[p] : Newest(p, c)'
    BY <2>1 DEF Progress, Newest, Reads
  <2> QED BY <2>1, <2>2, ReadsKept DEF Progress, Using, Listing, Claims, Uses
<1>4. CASE Begin(p)
  <2>1. /\ Nothing(p)' /\ Reads /\ cmd' = cmd /\ pc[p] = "start"
        /\ UNCHANGED <<todo, listed, seen>>
    BY <1>4 DEF Begin, Progress, Nothing, Reads
  <2>2. /\ pc'[p] \in {"done", "keys", "createKey", "versions"}
        /\ pc'[p] = "done" => reply'[p] = "Unsupported" \/ reply'[p] = "NoSearchCriteria"
        /\ pc'[p] = "versions" => cmd[p].op # "list"
    BY <1>4 DEF Begin, Answer, Goto
  <2>3. pc'[p] = "versions" => key'[p].alias = cmd[p].alias
    BY <1>4 DEF Begin
  <2> QED BY <2>1, <2>2, <2>3, ReadsKept
          DEF Progress, Nothing, Using, Listing, Claims, Uses
<1> QED BY <1>1, <1>2, <1>3, <1>4

(* get_key_version: no version that was usable since the command began is  *)
(* newer than the one chosen.                                              *)
LEMMA ProgressVersion ==
    ASSUME TypeInv, NEW p \in Procs, Progress(p), GetKeyVersion(p)
    PROVE  Progress(p)'
<1> USE DEF TypeInv, TypeOK
<1> DEFINE a == key[p].alias
<1>1. /\ key[p] \in Chosen /\ a \in Aliases /\ pc[p] = "versions"
      /\ cmd[p].op \in {"sign", "verify", "export", "list"}
  BY DEF GetKeyVersion, Place, Chosen
<1>2. Reads /\ UNCHANGED <<todo, seen>>
  BY DEF GetKeyVersion
<1>3. \A c \in seen'[p] : Newest(p, c)'
  BY <1>2 DEF Progress, Newest, Reads
<1>4. CASE Candidates(a) = {}
  <2>1. pc'[p] = "done" /\ reply'[p] = "ObjectNotFound"
    BY <1>1, <1>4 DEF GetKeyVersion, NoVersion, Answer, Goto
  <2> QED BY <1>2, <1>3, <2>1, ReadsKept DEF Progress, Using, Listing, Claims, Uses
<1>5. CASE Candidates(a) # {}
  <2>1. PICK c : c = [alias |-> a, version |-> NewestOf(Candidates(a))]
    OBVIOUS
  <2>2. /\ key' = [key EXCEPT ![p] = c] /\ key'[p] = c /\ c.alias = a
    BY <1>1, <1>5, <2>1 DEF GetKeyVersion
  <2>3. Newest(p, c)'
    <3>1. \A i \in DOMAIN versions[a] :
             i <= PageSize /\ Usable(versions[a][i]) => i <= c.version
      BY <1>1, <1>5, <2>1, NewestCandidate
    <3>2. \A d \in steady[p] : d.alias = a => /\ d.version \in DOMAIN versions[a]
                                              /\ Usable(versions[a][d.version])
      BY DEF Progress, UsableNow
    <3>3. steady' = steady
      BY <1>2 DEF Reads
    <3> QED BY <2>2, <3>1, <3>2, <3>3 DEF Newest
  <2>4. CASE cmd[p].op = "list"
    <3>1. known[p] \subseteq todo[p] \cup listed[p] \cup {a}
      BY <1>1, <2>4 DEF Progress, Listing
    <3>2. \/ pc'[p] = "next" /\ listed'[p] = listed[p] \cup {a}
          \/ pc'[p] = "publicKey" /\ a \in listed[p] /\ listed' = listed
      BY <1>1, <1>5, <2>4 DEF GetKeyVersion, Goto
    <3>3. UNCHANGED <<cmd, known, todo>>
      BY <1>2 DEF Reads
    <3>4. Listing(p)'
      BY <2>2, <2>4, <3>1, <3>2, <3>3 DEF Listing
    <3> QED BY <1>2, <1>3, <2>2, <2>3, <2>4, <3>2, <3>3, <3>4, ReadsKept
            DEF Progress, Using, Claims, Uses
  <2>5. CASE cmd[p].op \in {"verify", "export"}
    <3>1. pc'[p] = "publicKey" /\ cmd' = cmd
      BY <1>1, <1>2, <1>5, <2>5 DEF GetKeyVersion, Goto, Reads
    <3> QED BY <1>1, <1>2, <1>3, <2>2, <2>3, <2>5, <3>1, ReadsKept
            DEF Progress, Using, Listing, Claims, Uses
  <2>6. CASE cmd[p].op = "sign"
    <3>1. /\ cmd' = cmd /\ versions' = versions
          /\ \/ pc'[p] = "asymmetricSign" /\ cmd[p].domain = DomainOfKey(c)
             \/ pc'[p] = "done" /\ reply'[p] = "Unsupported"
      BY <1>1, <1>2, <1>5, <2>1, <2>6 DEF GetKeyVersion, Goto, Answer, Reads, server
    <3>2. pc'[p] = "asymmetricSign" => cmd'[p].domain = DomainOfKey(key[p])'
      BY <2>2, <3>1 DEF DomainOfKey
    <3> QED BY <1>1, <1>2, <1>3, <2>2, <2>3, <2>6, <3>1, <3>2, ReadsKept
            DEF Progress, Using, Listing, Claims, Uses
  <2> QED BY <1>1, <2>4, <2>5, <2>6
<1> QED BY <1>4, <1>5

(* list: what is known is still to do or listed, until all is shown.       *)
LEMMA ProgressList ==
    ASSUME TypeInv, NEW p \in Procs, Progress(p), ListKeys(p) \/ ListNext(p)
    PROVE  Progress(p)'
<1> USE DEF TypeInv, TypeOK
<1>1. /\ Reads /\ UNCHANGED <<listed, seen>> /\ cmd' = cmd /\ known' = known
      /\ cmd[p].op = "list"
  BY DEF ListKeys, ListNext, Reads, Place
<1>2. \A c \in seen'[p] : Newest(p, c)'
  BY <1>1 DEF Progress, Newest, Reads
<1>3. CASE ListKeys(p)
  <2>1. /\ pc'[p] = "next" /\ todo'[p] = KnownNow
    BY <1>3 DEF ListKeys, Goto, KnownNow
  <2>2. known'[p] \subseteq todo'[p]
    BY <1>1, <2>1 DEF Progress
  <2> QED BY <1>1, <1>2, <2>1, <2>2, ReadsKept
          DEF Progress, Using, Listing, Claims, Uses
<1>4. CASE ListNext(p)
  <2>1. pc[p] = "next" /\ known[p] \subseteq todo[p] \cup listed[p]
    BY <1>4 DEF ListNext, Progress, Listing
  <2>2. \/ /\ pc'[p] = "versions"
           /\ known[p] \subseteq todo'[p] \cup listed[p] \cup {key'[p].alias}
        \/ /\ pc'[p] = "done" /\ todo[p] = {}
           /\ listed[p] = {c.alias : c \in seen[p]}
    <3>1. ASSUME NEW a \in todo[p], todo' = [todo EXCEPT ![p] = @ \ {a}],
                 key' = [key EXCEPT ![p] = [alias |-> a, version |-> 1]]
          PROVE  known[p] \subseteq todo'[p] \cup listed[p] \cup {key'[p].alias}
      BY <2>1, <3>1
    <3>2. ASSUME UNCHANGED todo
          PROVE  known[p] \subseteq todo'[p] \cup listed[p] \cup {key'[p].alias}
      BY <2>1, <3>2
    <3> QED BY <1>4, <3>1, <3>2 DEF ListNext, Answer, Goto
  <2>3. Listing(p)'
    BY <1>1, <2>2 DEF Listing
  <2>4. Claims(p)'
    BY <1>1, <2>1, <2>2 DEF Claims, Uses
  <2> QED BY <1>1, <1>2, <2>2, <2>3, <2>4, ReadsKept DEF Progress, Using
<1> QED BY <1>3, <1>4

(* verify, export and list use the public key of the version chosen.       *)
LEMMA ProgressPublicKey ==
    ASSUME TypeInv, NEW p \in Procs, Progress(p), GetPublicKey(p)
    PROVE  Progress(p)'
<1> USE DEF TypeInv, TypeOK
<1>1. /\ Reads /\ UNCHANGED <<key, todo, listed>> /\ cmd' = cmd /\ sig' = sig
      /\ known' = known /\ steady' = steady /\ signed' = signed
      /\ key[p] \in Chosen /\ cmd[p] \in Requests /\ pc[p] = "publicKey"
  BY DEF GetPublicKey, Reads, Place, server
<1>2. Newest(p, key[p])
  BY <1>1 DEF Progress, Using
<1>3. seen'[p] \subseteq seen[p] \cup {key[p]}
  BY DEF GetPublicKey
<1>4. \A c \in seen'[p] : Newest(p, c)'
  <2>1. \A c \in seen'[p] : Newest(p, c)
    BY <1>2, <1>3 DEF Progress
  <2> QED BY <1>1, <2>1 DEF Newest
<1>5. CASE cmd[p].op = "list"
  <2>1. \/ pc'[p] = "next"
        \/ pc'[p] = "done" /\ reply'[p] = "Unsupported"
    BY <1>5 DEF GetPublicKey, Answer, Goto
  <2>2. known[p] \subseteq todo[p] \cup listed[p]
    BY <1>1, <1>5 DEF Progress, Listing
  <2>3. Listing(p)'
    BY <1>1, <2>1, <2>2 DEF Listing
  <2> QED BY <1>1, <1>4, <1>5, <2>1, <2>3, ReadsKept DEF Progress, Using, Claims, Uses
<1>6. CASE cmd[p].op = "export"
  <2>1. pc'[p] = "done"
    BY <1>6 DEF GetPublicKey, Answer, Goto
  <2> QED BY <1>1, <1>4, <1>6, <2>1, ReadsKept DEF Progress, Using, Listing, Claims, Uses
<1>7. CASE cmd[p].op = "verify"
  <2>1. pc'[p] = "done"
    BY <1>7 DEF GetPublicKey, Answer, Goto
  <2>2. key[p].alias = cmd[p].alias
    BY <1>1, <1>7 DEF Progress, Using
  <2>3. CASE reply'[p] = "Unsupported"
    BY <1>1, <1>4, <1>7, <2>1, <2>3, ReadsKept DEF Progress, Using, Listing, Claims, Uses
  <2>4. CASE reply'[p] # "Unsupported"
    <3>1. /\ seen'[p] = {key[p]}
          /\ reply'[p] = IF Verifies(key[p], cmd[p], sig[p]) THEN "ok" ELSE "false"
      BY <1>7, <2>4 DEF GetPublicKey, Answer
    <3>2. CASE Verifies(key[p], cmd[p], sig[p])
      <4>1. Genuine(p)' /\ sig'[p] \in signed' /\ reply'[p] = "ok"
        BY <1>1, <2>2, <3>1, <3>2 DEF Verifies, Genuine, Progress
      <4>2. Claims(p)'
        BY <1>1, <1>7, <4>1 DEF Claims
      <4> QED BY <1>1, <1>4, <2>1, <4>2, ReadsKept DEF Progress, Using, Listing
    <3>3. CASE ~Verifies(key[p], cmd[p], sig[p])
      <4>1. ASSUME Genuine(p)
            PROVE  \/ key[p].version > sig[p].version
                   \/ sig[p].version > PageSize
                   \/ [alias |-> sig[p].alias, version |-> sig[p].version]
                         \notin steady[p]
        <5>1. sig[p] \in Signature /\ sig[p] # NONE
          BY <4>1 DEF Genuine
        <5>2. sig[p].version # key[p].version
          BY <2>2, <3>3, <4>1, <5>1 DEF Verifies, Genuine, Signature
        <5>3. /\ sig[p].version \in Nat /\ key[p].version \in Nat
              /\ sig[p].alias = key[p].alias
          BY <1>1, <2>2, <4>1, <5>1, SpxKmsAssumption DEF Signature, Chosen, Genuine
        <5> DEFINE d == [alias |-> sig[p].alias, version |-> sig[p].version]
        <5>4. d \in steady[p] /\ sig[p].version <= PageSize =>
                 sig[p].version <= key[p].version
          BY <1>2, <5>3 DEF Newest
        <5> QED BY <5>2, <5>3, <5>4, SpxKmsAssumption
      <4>2. Genuine(p)' = Genuine(p) /\ reply'[p] = "false"
        BY <1>1, <3>1, <3>3 DEF Genuine
      <4>3. Claims(p)'
        BY <1>1, <1>7, <3>1, <4>1, <4>2 DEF Claims
      <4> QED BY <1>1, <1>4, <2>1, <4>3, ReadsKept DEF Progress, Using, Listing
    <3> QED BY <3>2, <3>3
  <2> QED BY <2>3, <2>4
<1> QED BY <1>1, <1>5, <1>6, <1>7 DEF Place

(* sign and generate: the mode of the version is that checked before, and  *)
(* the answer may be lost with the signature made.                         *)
LEMMA ProgressServed ==
    ASSUME TypeInv, NEW p \in Procs, Progress(p), AsymmetricSign(p) \/ CreateKey(p)
    PROVE  Progress(p)'
<1> USE DEF TypeInv, TypeOK
<1>1. CASE AsymmetricSign(p)
  <2>1. /\ UNCHANGED <<template, versions, steady, known>> /\ cmd' = cmd /\ sig' = sig
        /\ key[p] \in Chosen /\ cmd[p].op = "sign" /\ pc'[p] = "done"
    BY <1>1 DEF AsymmetricSign, Place, Answer, Goto
  <2>2. /\ seen[p] = {} /\ key[p].alias = cmd[p].alias
        /\ Newest(p, key[p]) /\ cmd[p].domain = DomainOfKey(key[p])
    BY <1>1, <2>1 DEF AsymmetricSign, Progress, Using
  <2>3. PICK s : /\ signed' = signed \cup {s}
                 /\ s.alias = key[p].alias /\ s.version = key[p].version
                 /\ s.domain = cmd[p].domain /\ s.message = cmd[p].message
    <3> DEFINE t == [alias |-> key[p].alias, version |-> key[p].version,
                     domain |-> DomainOf(versions[key[p].alias][key[p].version].algorithm),
                     message |-> cmd[p].message]
    <3>1. /\ signed' = signed \cup {t}
          /\ t.alias = key[p].alias /\ t.version = key[p].version
          /\ t.domain = cmd[p].domain /\ t.message = cmd[p].message
      BY <1>1, <2>2 DEF AsymmetricSign, DomainOfKey
    <3> HIDE DEF t
    <3> QED BY <3>1
  <2>4. \/ reply'[p] = "ok" /\ seen'[p] = {key[p]}
        \/ reply'[p] = "Error" /\ seen'[p] = {}
    BY <1>1, <2>2 DEF AsymmetricSign, Answer
  <2>5. key[p] = [alias |-> s.alias, version |-> s.version]
    BY <2>1, <2>3 DEF Chosen
  <2>6. Claims(p)'
    BY <2>1, <2>2, <2>3, <2>4, <2>5 DEF Claims, Uses
  <2>7. \A c \in seen'[p] : Newest(p, c)'
    BY <2>1, <2>2, <2>4 DEF Newest
  <2>8. /\ sig'[p] \in signed' \cup {NONE}
        /\ steady'[p] \subseteq UsableNow' /\ known'[p] \subseteq KnownNow'
    BY <2>1, <2>3 DEF Progress, UsableNow, KnownNow
  <2> QED BY <2>1, <2>6, <2>7, <2>8 DEF Progress, Using, Listing
<1>2. CASE CreateKey(p)
  <2>1. /\ pc'[p] = "done" /\ cmd' = cmd /\ sig' = sig /\ seen' = seen
        /\ pc[p] = "createKey" /\ cmd[p].op = "generate" /\ signed' = signed
    BY <1>2 DEF CreateKey, Place, Answer, Goto, Created
  <2>2. seen'[p] = {}
    BY <2>1 DEF Progress, Nothing
  <2>3. steady'[p] \subseteq UsableNow' /\ known'[p] \subseteq KnownNow'
    BY <1>2, Forgets DEF CreateKey
  <2> QED BY <2>1, <2>2, <2>3 DEF Progress, Using, Listing, Claims, Uses
<1> QED BY <1>1, <1>2

(* Who else's histories a step of p may change: CreateKey makes all forget.*)
LEMMA OthersForget ==
    ASSUME TypeInv, NEW p \in Procs, Step(p), NEW q \in Procs \ {p}, Progress(q)
    PROVE  /\ steady'[q] \subseteq steady[q] \cap UsableNow'
           /\ known'[q] \subseteq known[q] \cap KnownNow'
<1>1. CASE CreateKey(p)
  BY <1>1, Forgets DEF CreateKey, TypeInv
<1>2. CASE ~CreateKey(p)
  <2>1. UNCHANGED <<template, versions>>
    BY <1>2 DEF Step, Start, CannotConnect, Begin, Fails, Finish, GetKeyVersion,
       GetPublicKey, AsymmetricSign, ListKeys, ListNext, Reads, server
  <2>2. steady'[q] = steady[q] /\ known'[q] = known[q]
    <3> USE DEF TypeInv, TypeOK
    <3>1. CASE Start(p) \/ Finish(p)
      BY <3>1 DEF Start, Finish
    <3>2. CASE ~Start(p) /\ ~Finish(p)
      BY <1>2, <3>2 DEF Step, CannotConnect, Begin, Fails, GetKeyVersion,
         GetPublicKey, AsymmetricSign, ListKeys, ListNext, Reads
    <3> QED BY <3>1, <3>2
  <2> QED BY <2>1, <2>2 DEF Progress, UsableNow, KnownNow
<1> QED BY <1>1, <1>2

(* Every step keeps the invariant.                                         *)
LEMMA KmsNext == TypeInv /\ KmsInv /\ [Next]_vars => KmsInv'
<1> SUFFICES ASSUME TypeInv, KmsInv, [Next]_vars, NEW q \in Procs
             PROVE  Progress(q)'
  BY DEF KmsInv
<1>0. Progress(q)
  BY DEF KmsInv
<1>1. CASE UNCHANGED vars
  BY <1>0, <1>1 DEF vars, server, client, Progress, Nothing, Newest, Using,
     Listing, Claims, Uses, Genuine, UsableNow, KnownNow, DomainOfKey
<1>2. CASE Server
  <2>1. ServerType' /\ Grown /\ signed' = signed /\ Remember
    BY <1>2, ServerGrows
  <2>2. UNCHANGED <<client, pc, runs>>
    BY <1>2, ServerLeaves
  <2>3. /\ steady'[q] \subseteq steady[q] \cap UsableNow'
        /\ known'[q] \subseteq known[q] \cap KnownNow'
    BY <2>1, Forgets DEF TypeInv
  <2> QED BY <1>0, <2>1, <2>2, <2>3, ProgressKept DEF client
<1>3. ASSUME NEW p \in Procs, Step(p) PROVE Progress(q)'
  <2>1. CASE p = q
    BY <1>0, <1>3, <2>1, ProgressBegin, ProgressVersion, ProgressList,
       ProgressPublicKey, ProgressServed DEF Step
  <2>2. CASE p # q
    <3>1. Grown /\ signed \subseteq signed'
      BY <1>3, StepServer
    <3>2. /\ pc'[q] = pc[q] /\ cmd'[q] = cmd[q] /\ sig'[q] = sig[q]
          /\ key'[q] = key[q] /\ todo'[q] = todo[q] /\ listed'[q] = listed[q]
          /\ seen'[q] = seen[q] /\ reply'[q] = reply[q]
      BY <1>3, <2>2, Frame DEF TypeInv
    <3>3. /\ steady'[q] \subseteq steady[q] \cap UsableNow'
          /\ known'[q] \subseteq known[q] \cap KnownNow'
      BY <1>0, <1>3, <2>2, OthersForget
    <3> QED BY <1>0, <3>1, <3>2, <3>3, ProgressKept
  <2> QED BY <2>1, <2>2
<1> QED BY <1>1, <1>2, <1>3 DEF Next, Step

(* The inductive invariant behind the four theorems that follow: what each *)
(* command has chosen, asked for and still has to do, and what the server  *)
(* has been since it began.                                                *)
THEOREM KmsSafe == Spec => []KmsInv
<1>1. Init => KmsInv
  BY DEF Init, KmsInv, Progress, Nothing, Newest, Using, Listing, Claims, Uses
<1> QED BY <1>1, InitTypes, NextTypes, KmsNext, PTL DEF Spec

(* No command uses a version when a newer one was usable ever since the    *)
(* command began, for keys whose versions fit on one page of the answer.   *)
THEOREM NewestUsed == Spec => []UsesNewest
<1>1. TypeInv /\ KmsInv => UsesNewest
  <2> SUFFICES ASSUME TypeInv, KmsInv, NEW p \in Procs, NEW c \in seen[p],
                      NEW d \in steady[p], c.alias = d.alias,
                      Len(versions[c.alias]) <= PageSize
               PROVE  d.version <= c.version
    BY DEF UsesNewest
  <2>1. Newest(p, c) /\ d \in Chosen /\ d.version \in DOMAIN versions[d.alias]
    BY DEF KmsInv, Progress, UsableNow
  <2>2. /\ d.alias \in Aliases /\ DOMAIN versions[d.alias] = 1..Len(versions[d.alias])
        /\ Len(versions[d.alias]) \in Nat
    BY <2>1 DEF Chosen, TypeInv
  <2>3. d.version <= PageSize
    BY <2>1, <2>2, SpxKmsAssumption
  <2> QED BY <2>1, <2>3 DEF Newest
<1> QED BY <1>1, InitTypes, NextTypes, KmsSafe, PTL DEF Spec

(* A signature that sign hands out is by the key named, in the mode given, *)
(* on the message given, whatever was rotated or reconfigured meanwhile.   *)
THEOREM SignedAsAsked == Spec => []SignsAsAsked
<1>1. KmsInv => SignsAsAsked
  BY DEF KmsInv, Progress, Claims, SignsAsAsked
<1> QED BY <1>1, KmsSafe, PTL

(* verify accepts genuine signatures only, and rejects one only with a     *)
(* reason that the key ring gave since the command began.                  *)
THEOREM VerdictHolds == Spec => []VerdictIsRight
<1>1. KmsInv => VerdictIsRight
  BY DEF KmsInv, Progress, Claims, VerdictIsRight, Genuine
<1> QED BY <1>1, KmsSafe, PTL

(* A list that succeeds shows every key whose template was supported since *)
(* the command began.                                                      *)
THEOREM ListHasAll == Spec => []ListIsComplete
<1>1. KmsInv => ListIsComplete
  BY DEF KmsInv, Progress, Claims, ListIsComplete
<1> QED BY <1>1, KmsSafe, PTL
=============================================================================
