-------------------------- MODULE SecretKeys_proofs --------------------------
(***************************************************************************)
(* Theorems about SecretKeys, for every set of processes, requests and old *)
(* objects: what leaves the token may leave it, and what is imported is    *)
(* what the file holds.  The instance TLC checks has one process; here any *)
(* number of them and of other programs take part.                         *)
(***************************************************************************)
EXTENDS SecretKeys, FiniteSetTheorems, TLAPS

(* The token: handles are numbers, objects have all attributes, and the    *)
(* value of an object that is not sensitive is open.                       *)
TokenInv ==
    /\ IsFiniteSet(Handles) /\ Handles = 1..Cardinality(Handles)
    /\ \A h \in Handles :
          /\ Attributes \subseteq DOMAIN objects[h]
          /\ ~objects[h]["SENSITIVE"] => objects[h]["VALUE"] \in open \cup {NONE}
    /\ plain \subseteq open

(* All that may happen to an object: it is hardened, renamed or put to     *)
(* another use.                                                            *)
Changed(before, after) ==
    /\ Attributes \subseteq DOMAIN after
    /\ \A a \in {"CLASS", "KEY_TYPE", "MODULUS", "VALUE"} : after[a] = before[a]
    /\ before["SENSITIVE"] => after["SENSITIVE"]
    /\ after["EXTRACTABLE"] => before["EXTRACTABLE"]

(* The command looks at an object, or has done so and is about to wrap it. *)
Looking(p) ==
    \/ pc[p] \in {"info", "attributes", "value", "check", "wrap"}
    \/ pc[p] = "wrapper" /\ cmd[p].op = "wrap"

Place(p) ==
    /\ pc[p] # "idle" => cmd[p] \in Requests
    /\ pc[p] = "create" => cmd[p].op \in Making
    /\ pc[p] = "wrapper" => cmd[p].op \in {"wrap", "unwrap"}
    /\ Looking(p) => handle[p] \in Handles /\ cmd[p].op \notin Making
    /\ pc[p] = "wrap" => cmd[p].op = "wrap"
    /\ pc[p] # "done" => out[p] = NONE

(* The objects of when the command began are there, changed perhaps.       *)
History(p) ==
    \A h \in DOMAIN was[p] :
        h \in Handles /\ Changed(was[p][h], objects[h])

(* What the picture of the object says is what it was at the second call,  *)
(* no softer than it was when the command began.                           *)
Picture(p) ==
    LET o == objects[handle[p]]
        m == map[p]
    IN  pc[p] \in {"value", "check"} =>
            /\ Attributes \ {"VALUE"} \subseteq DOMAIN m
            /\ m["CLASS"] = o["CLASS"] /\ m["KEY_TYPE"] = o["KEY_TYPE"]
            /\ ~m["SENSITIVE"] => o["VALUE"] \in open \cup {NONE}
            /\ handle[p] \in DOMAIN was[p] =>
                  /\ was[p][handle[p]]["SENSITIVE"] => m["SENSITIVE"]
                  /\ m["EXTRACTABLE"] => was[p][handle[p]]["EXTRACTABLE"]

(* A value in it is one that was asked for in the clear.                   *)
Value(p) ==
    pc[p] = "check" /\ Readable(map[p]) =>
        ~map[p]["SENSITIVE"] /\ map[p]["VALUE"] \in open

(* The keys that may wrap now are known as such to every command.          *)
Names(p) ==
    /\ pc[p] # "idle" => MayWrap \subseteq named[p]
    /\ \A n \in named[p] : n[1] \in Handles

(* What an object that wraps is, whatever it is called by now.             *)
CanWrap(o, mechanism) ==
    /\ o["CLASS"] = WrapperClass(mechanism, "WRAP")
    /\ o["KEY_TYPE"] = IF mechanism \in AesWraps THEN "AES" ELSE "RSA"

(* A key to be wrapped is of the type asked for when it is looked at       *)
(* again, and has been extractable when the search for the wrapping key    *)
(* begins; that key, once found, was one that might wrap.                  *)
Wrapping(p) ==
    /\ Looking(p) /\ cmd[p].op = "wrap" /\ second[p] =>
          objects[handle[p]]["KEY_TYPE"] = cmd[p].type
    /\ pc[p] \in {"wrapper", "wrap"} /\ cmd[p].op = "wrap" =>
          /\ second[p]
          /\ handle[p] \in DOMAIN was[p] => was[p][handle[p]]["EXTRACTABLE"]
    /\ pc[p] = "wrap" =>
          /\ wrapper[p] \in Handles
          /\ <<wrapper[p], cmd[p].by>> \in named[p]
          /\ CanWrap(objects[wrapper[p]], cmd[p].mechanism)

(* What a command that has returned may claim: the properties.             *)
Claims(p) ==
    /\ LetsOut(p, {"show", "read", "export"}) /\ handle[p] \in DOMAIN was[p] =>
          /\ ~was[p][handle[p]]["SENSITIVE"]
          /\ cmd[p].op = "export" => was[p][handle[p]]["EXTRACTABLE"]
          /\ cmd[p].op = "show" /\ cmd[p].redact =>
                was[p][handle[p]]["KEY_TYPE"] # "RSA"
    /\ LetsOut(p, {"wrap"}) =>
          /\ out[p].by \in Handles
          /\ <<out[p].by, cmd[p].by>> \in named[p]
          /\ cmd[p].mechanism \in RsaWraps
                <=> objects[out[p].by]["KEY_TYPE"] = "RSA"
          /\ objects[out[p].by]["CLASS"] # "PRIVATE_KEY"
          /\ handle[p] \in DOMAIN was[p] =>
                LET o == was[p][handle[p]]
                IN  o["EXTRACTABLE"] /\ o["KEY_TYPE"] = cmd[p].type
    /\ pc[p] = "done" /\ reply[p] = "ok" /\ cmd[p].op = "import" =>
          /\ handle[p] \in Handles
          /\ objects[handle[p]]["VALUE"] = cmd[p].file

Progress(p) ==
    /\ Place(p) /\ History(p) /\ Picture(p) /\ Value(p) /\ Wrapping(p)
    /\ Claims(p)

Shape ==
    /\ DOMAIN pc = Procs /\ DOMAIN cmd = Procs /\ DOMAIN handle = Procs
    /\ DOMAIN marked = Procs /\ DOMAIN map = Procs /\ DOMAIN second = Procs
    /\ DOMAIN out = Procs /\ DOMAIN reply = Procs /\ DOMAIN was = Procs
    /\ DOMAIN wrapper = Procs /\ DOMAIN named = Procs

SecretInv ==
    Shape /\ TokenInv /\ \A p \in Procs : Progress(p) /\ Names(p)
-----------------------------------------------------------------------------
(* What every step keeps of the token: objects stay, with their values,   *)
(* and what was asked for in the clear stays open.                         *)
Grown ==
    /\ \A h \in Handles : h \in Handles' /\ Changed(objects[h], objects'[h])
    /\ open \subseteq open'

LEMMA GrownRefl ==
    ASSUME TokenInv, UNCHANGED objects, open \subseteq open'
    PROVE  Grown
BY DEF TokenInv, Grown, Changed, Handles

LEMMA ChangedTrans ==
    ASSUME NEW o1, NEW o2, NEW o3, Changed(o1, o2), Changed(o2, o3)
    PROVE  Changed(o1, o3)
BY DEF Changed

(* What makes a key has the attributes that template and HSM give it.      *)
LEMMA TemplateHas ==
    ASSUME NEW c
    PROVE  /\ {"CLASS", "KEY_TYPE", "SENSITIVE", "LABEL"} \subseteq DOMAIN Template(c)
           /\ DOMAIN c.template \subseteq DOMAIN Template(c)
           /\ \A a \in DOMAIN c.template : Template(c)[a] = c.template[a]
           /\ "SENSITIVE" \notin DOMAIN c.template => Template(c)["SENSITIVE"] = TRUE
BY DEF Template, KeyTemplate, Merged, Only

LEMMA ImportTemplateHas ==
    ASSUME NEW c
    PROVE  /\ DOMAIN ImportTemplate(c) = DOMAIN Template(c) \cup {"VALUE"}
           /\ ImportTemplate(c)["VALUE"] = c.file
           /\ \A a \in DOMAIN Template(c) \ {"VALUE"} :
                 ImportTemplate(c)[a] = Template(c)[a]
BY DEF ImportTemplate, Merged, Only

(* An object is made under the next handle; it is open if it was asked for *)
(* with CKA_SENSITIVE false, and sensitive otherwise.                      *)
LEMMA MakeGrows ==
    ASSUME TokenInv, NEW c \in Requests, c.op \in Making, NEW value,
           NEW template,
           template = Template(c) \/ template = ImportTemplate(c),
           MakeObject(c, template, value), UNCHANGED plain
    PROVE  /\ TokenInv' /\ Grown
           /\ Cardinality(Handles) + 1 \in Handles'
           /\ "VALUE" \in DOMAIN template =>
                 objects'[Cardinality(Handles) + 1]["VALUE"] = template["VALUE"]
<1> DEFINE n == Cardinality(Handles)
           o == Merged(Merged(Default, Only("VALUE", value)), template)
<1>1. n \in Nat /\ Handles = 1..n /\ IsFiniteSet(Handles)
  BY FS_CardinalityType DEF TokenInv
<1>2. /\ objects' = [h \in Handles \cup {n + 1} |-> IF h \in Handles THEN objects[h] ELSE o]
      /\ open' = IF Has(c.template, "SENSITIVE", FALSE)
                 THEN open \cup {o["VALUE"]} ELSE open
  BY DEF MakeObject
<1>3. /\ {"CLASS", "KEY_TYPE", "SENSITIVE", "LABEL"} \subseteq DOMAIN template
      /\ "SENSITIVE" \in DOMAIN c.template => template["SENSITIVE"] = c.template["SENSITIVE"]
      /\ "SENSITIVE" \notin DOMAIN c.template => template["SENSITIVE"] = TRUE
  <2>1. CASE template = Template(c)
    BY <2>1, TemplateHas
  <2>2. CASE template = ImportTemplate(c)
    <3>1. /\ DOMAIN template = DOMAIN Template(c) \cup {"VALUE"}
          /\ \A a \in DOMAIN Template(c) \ {"VALUE"} : template[a] = Template(c)[a]
      BY <2>2, ImportTemplateHas
    <3>2. template["SENSITIVE"] = Template(c)["SENSITIVE"]
      BY <3>1, TemplateHas
    <3> QED BY <3>1, <3>2, TemplateHas
  <2> QED BY <2>1, <2>2
<1>4. /\ DOMAIN o = {"SENSITIVE", "EXTRACTABLE", "WRAP", "UNWRAP", "MODULUS", "VALUE"}
                       \cup DOMAIN template
      /\ \A a \in DOMAIN template : o[a] = template[a]
  BY DEF Merged, Default, Only
<1>5. Attributes \subseteq DOMAIN o
  BY <1>3, <1>4 DEF Attributes
<1>6. o["SENSITIVE"] = template["SENSITIVE"]
  BY <1>3, <1>4
<1>7. o["SENSITIVE"] \/ o["VALUE"] \in open'
  <2>1. CASE "SENSITIVE" \notin DOMAIN c.template
    BY <1>3, <1>6, <2>1
  <2>2. CASE "SENSITIVE" \in DOMAIN c.template
    <3>1. c.template["SENSITIVE"] \in BOOLEAN
      BY <2>2, SecretKeysAssumption
    <3>2. CASE c.template["SENSITIVE"] = FALSE
      BY <1>2, <2>2, <3>2 DEF Has
    <3>3. CASE c.template["SENSITIVE"] = TRUE
      BY <1>3, <1>6, <2>2, <3>3
    <3> QED BY <3>1, <3>2, <3>3
  <2> QED BY <2>1, <2>2
<1> HIDE DEF o
<1>8. Handles' = 1..(n + 1) /\ Handles' = Handles \cup {n + 1} /\ n + 1 \notin Handles
  BY <1>1, <1>2 DEF Handles
<1>9. IsFiniteSet(Handles') /\ Cardinality(Handles') = n + 1
  <2>1. /\ IsFiniteSet(Handles \cup {n + 1})
        /\ Cardinality(Handles \cup {n + 1}) =
              IF n + 1 \in Handles THEN Cardinality(Handles) ELSE Cardinality(Handles) + 1
    BY <1>1, FS_AddElement
  <2>2. Cardinality(Handles \cup {n + 1}) = n + 1
    BY <1>8, <2>1
  <2> HIDE DEF n
  <2> QED BY <1>8, <2>1, <2>2
<1>10. /\ \A h \in Handles : objects'[h] = objects[h]
       /\ objects'[n + 1] = o /\ open \subseteq open'
  BY <1>2, <1>8
<1>11. ASSUME NEW h \in Handles'
       PROVE  /\ Attributes \subseteq DOMAIN objects'[h]
              /\ ~objects'[h]["SENSITIVE"] => objects'[h]["VALUE"] \in open' \cup {NONE}
  <2>1. CASE h \in Handles
    BY <1>10, <2>1 DEF TokenInv
  <2>2. CASE h = n + 1
    BY <1>5, <1>7, <1>10, <2>2
  <2> QED BY <1>8, <2>1, <2>2
<1>12. TokenInv'
  BY <1>8, <1>9, <1>10, <1>11 DEF TokenInv
<1>13. Grown
  BY <1>8, <1>10 DEF Grown, Changed, TokenInv
<1> QED BY <1>4, <1>8, <1>10, <1>12, <1>13

(* What Change does to an object.                                          *)
LEMMA ChangeOne ==
    ASSUME NEW h \in Handles, Change(h)
    PROVE  \E a \in {"SENSITIVE", "EXTRACTABLE", "WRAP", "UNWRAP", "LABEL"} :
           \E b :
              /\ objects' = [objects EXCEPT ![h][a] = b]
              /\ a = "SENSITIVE" => b = TRUE
              /\ a = "EXTRACTABLE" => b = FALSE
<1>1. CASE objects' = [objects EXCEPT ![h]["EXTRACTABLE"] = FALSE]
  BY <1>1
<1>2. CASE objects' = [objects EXCEPT ![h]["SENSITIVE"] = TRUE]
  BY <1>2
<1>3. ASSUME NEW a \in {"WRAP", "UNWRAP"},
             objects' = [objects EXCEPT ![h][a] = ~objects[h][a]]
      PROVE  \E b : objects' = [objects EXCEPT ![h][a] = b]
  BY <1>3
<1>4. ASSUME NEW l, objects' = [objects EXCEPT ![h]["LABEL"] = l]
      PROVE  \E b : objects' = [objects EXCEPT ![h]["LABEL"] = b]
  BY <1>4
<1> QED BY <1>1, <1>2, <1>3, <1>4 DEF Change

(* An object that is changed keeps what the invariants need.               *)
LEMMA ChangeGrows ==
    ASSUME TokenInv, NEW h \in Handles, Change(h)
    PROVE  TokenInv' /\ Grown
<1>1. PICK a \in {"SENSITIVE", "EXTRACTABLE", "WRAP", "UNWRAP", "LABEL"} :
      \E b :
         /\ objects' = [objects EXCEPT ![h][a] = b]
         /\ a = "SENSITIVE" => b = TRUE
         /\ a = "EXTRACTABLE" => b = FALSE
  BY ChangeOne
<1>2. PICK b :
         /\ objects' = [objects EXCEPT ![h][a] = b]
         /\ a = "SENSITIVE" => b = TRUE
         /\ a = "EXTRACTABLE" => b = FALSE
  BY <1>1
<1>3. UNCHANGED <<open, plain>> /\ Handles' = Handles
  BY <1>2 DEF Change, Handles
<1> DEFINE o == [objects[h] EXCEPT ![a] = b]
<1>4. objects'[h] = o /\ \A g \in Handles \ {h} : objects'[g] = objects[g]
  BY <1>2 DEF Handles
<1>5. /\ Attributes \subseteq DOMAIN o /\ o[a] = b
      /\ \A x \in Attributes \ {a} : o[x] = objects[h][x]
  BY DEF TokenInv, Attributes
<1> HIDE DEF o
<1>6. Changed(objects[h], o)
  BY <1>2, <1>5 DEF Changed, Attributes
<1>7. \A g \in Handles : Changed(objects[g], objects'[g])
  BY <1>4, <1>6 DEF Changed, TokenInv, Attributes
<1>8. o["SENSITIVE"] \/ o["VALUE"] \in open \cup {NONE}
  BY <1>6 DEF Changed, TokenInv
<1>9. TokenInv'
  BY <1>3, <1>4, <1>5, <1>8 DEF TokenInv
<1> QED BY <1>3, <1>7, <1>9 DEF Grown

(* A process whose own state is as it was keeps what it knows and claims.  *)
LEMMA ProgressKept ==
    ASSUME Grown, TokenInv, NEW q \in Procs, Progress(q),
           pc'[q] = pc[q], cmd'[q] = cmd[q], handle'[q] = handle[q],
           map'[q] = map[q], second'[q] = second[q], out'[q] = out[q],
           reply'[q] = reply[q], was'[q] = was[q], wrapper'[q] = wrapper[q],
           pc[q] # "idle" => named[q] \subseteq named'[q]
    PROVE  Progress(q)'
<1>1. \A h \in Handles : /\ h \in Handles' /\ Changed(objects[h], objects'[h])
  BY DEF Grown
<1>2. \A h \in Handles : \A a \in {"CLASS", "KEY_TYPE", "VALUE"} :
         objects'[h][a] = objects[h][a]
  BY <1>1 DEF Changed
<1>3. Place(q)' /\ Looking(q)' = Looking(q)
  BY <1>1 DEF Progress, Place, Looking
<1>4. History(q)'
  <2> SUFFICES ASSUME NEW h \in DOMAIN was[q]
               PROVE  h \in Handles' /\ Changed(was[q][h], objects'[h])
    BY DEF History
  <2>1. h \in Handles /\ Changed(was[q][h], objects[h])
    BY DEF Progress, History
  <2> QED BY <1>1, <2>1, ChangedTrans
<1>5. Picture(q)'
  <2> SUFFICES ASSUME pc[q] \in {"value", "check"}
               PROVE  Picture(q)'
    BY DEF Picture
  <2>1. handle[q] \in Handles
    BY DEF Progress, Place, Looking
  <2>2. open \subseteq open'
    BY DEF Grown
  <2> QED BY <1>2, <2>1, <2>2 DEF Progress, Picture
<1>6. Value(q)'
  BY DEF Progress, Value, Grown, Readable
<1>7. Wrapping(q)'
  <2>1. Wrapping(q) /\ Place(q)
    BY DEF Progress
  <2>2. Looking(q) => objects'[handle[q]]["KEY_TYPE"] = objects[handle[q]]["KEY_TYPE"]
    BY <1>2, <2>1 DEF Place
  <2>3. pc[q] = "wrap" =>
           /\ wrapper[q] \in Handles'
           /\ <<wrapper[q], cmd[q].by>> \in named'[q]
           /\ CanWrap(objects'[wrapper[q]], cmd[q].mechanism)
    BY <1>1, <1>2, <2>1 DEF Wrapping, CanWrap
  <2> QED BY <1>3, <2>1, <2>2, <2>3 DEF Wrapping, CanWrap
<1>8. Claims(q)'
  <2>1. Claims(q)
    BY DEF Progress
  <2>2. \A ops : LetsOut(q, ops)' = LetsOut(q, ops)
    BY DEF LetsOut
  <2>3. out[q] # NONE => pc[q] = "done"
    BY DEF Progress, Place
  <2>4. LetsOut(q, {"wrap"}) => <<out[q].by, cmd[q].by>> \in named'[q]
    BY <2>1, <2>3 DEF Claims, LetsOut
  <2> QED BY <1>1, <1>2, <2>1, <2>2, <2>4 DEF Claims
<1> QED BY <1>3, <1>4, <1>5, <1>6, <1>7, <1>8 DEF Progress

(* One step of process p.                                                  *)
Step(p) ==
    \/ Start(p) \/ Finish(p) \/ Fails(p)
    \/ CheckFree(p) \/ FindWrapper(p) \/ CreateKey(p)
    \/ FindObject(p) \/ GetInfo(p) \/ GetAttributes(p) \/ GetValue(p)
    \/ ShowValue(p) \/ ExportValue(p) \/ CheckWrap(p) \/ WrapKey(p)

(* A step of p changes nothing of what others know.                        *)
LEMMA Frame ==
    ASSUME Shape, NEW p \in Procs, Step(p)
    PROVE  /\ Shape'
           /\ \A q \in Procs \ {p} :
                 /\ pc'[q] = pc[q] /\ cmd'[q] = cmd[q] /\ handle'[q] = handle[q]
                 /\ map'[q] = map[q] /\ second'[q] = second[q]
                 /\ out'[q] = out[q] /\ reply'[q] = reply[q] /\ was'[q] = was[q]
                 /\ wrapper'[q] = wrapper[q]
<1> USE DEF Shape, Goto, Answer, Looks, LetOut
<1>1. CASE Start(p)
  BY <1>1 DEF Start
<1>2. CASE Finish(p) \/ Fails(p)
  BY <1>2 DEF Finish, Fails
<1>3. CASE CheckFree(p) \/ CreateKey(p)
  BY <1>3 DEF CheckFree, CreateKey, Remember
<1>4. CASE FindObject(p) \/ FindWrapper(p)
  BY <1>4 DEF FindObject, FindWrapper
<1>5. CASE GetInfo(p) \/ GetAttributes(p) \/ GetValue(p)
  BY <1>5 DEF GetInfo, GetAttributes, GetValue
<1>6. CASE ShowValue(p) \/ ExportValue(p)
  BY <1>6 DEF ShowValue, ExportValue
<1>7. CASE CheckWrap(p) \/ WrapKey(p)
  BY <1>7 DEF CheckWrap, WrapKey
<1> QED BY <1>1, <1>2, <1>3, <1>4, <1>5, <1>6, <1>7 DEF Step

(* What a step of p does to the token.                                     *)
LEMMA StepToken ==
    ASSUME TokenInv, NEW p \in Procs, Progress(p), Step(p)
    PROVE  TokenInv' /\ Grown
<1>1. CASE CreateKey(p)
  <2>1. PICK c \in Requests : c = cmd[p]
    BY <1>1 DEF CreateKey, Progress, Place
  <2>2. c.op \in Making /\ UNCHANGED plain
    BY <1>1, <2>1 DEF CreateKey, Progress, Place
  <2>3. \E template \in {Template(c), ImportTemplate(c)} :
           \E value : MakeObject(c, template, value)
    BY <1>1, <2>1 DEF CreateKey
  <2> QED BY <2>2, <2>3, MakeGrows
<1>2. CASE ShowValue(p) \/ ExportValue(p)
  <2>1. UNCHANGED <<objects, open>>
    BY <1>2 DEF ShowValue, ExportValue
  <2>2. \/ plain' = plain
        \/ plain' = plain \cup {map[p]["VALUE"]} /\ Readable(map[p])
    <3>1. CASE ShowValue(p)
      BY <3>1 DEF ShowValue, Answer, LetOut
    <3>2. CASE ExportValue(p)
      BY <3>2 DEF ExportValue, Answer, LetOut
    <3> QED BY <1>2, <3>1, <3>2
  <2>3. Readable(map[p]) => map[p]["VALUE"] \in open
    BY <1>2 DEF ShowValue, ExportValue, Progress, Value
  <2>4. TokenInv'
    BY <2>1, <2>2, <2>3 DEF TokenInv, Handles
  <2> QED BY <2>1, <2>4, GrownRefl
<1>3. CASE ~CreateKey(p) /\ ~ShowValue(p) /\ ~ExportValue(p)
  <2>1. UNCHANGED <<objects, open, plain>>
    BY <1>3 DEF Step, Start, Finish, Fails, CheckFree, FindWrapper, FindObject,
       GetInfo, GetAttributes, GetValue, CheckWrap, WrapKey, Looks, token
  <2>2. TokenInv'
    BY <2>1 DEF TokenInv, Handles
  <2> QED BY <2>1, <2>2, GrownRefl
<1> QED BY <1>1, <1>2, <1>3

(* No step of p makes a command forget a key that might wrap.              *)
LEMMA NamesKept ==
    ASSUME Shape, Grown, NEW p \in Procs, Step(p), NEW q \in Procs, Names(q)
    PROVE  /\ Names(q)'
           /\ q # p /\ pc[q] # "idle" => named[q] \subseteq named'[q]
<1> USE DEF Shape
<1>1. Handles \subseteq Handles'
  BY DEF Grown
<1>2. CASE CreateKey(p)
  <2>1. /\ named'[q] = IF pc[q] = "idle" THEN {} ELSE named[q] \cup MayWrap'
        /\ pc[p] = "create" /\ pc' = [pc EXCEPT ![p] = "done"]
    BY <1>2 DEF CreateKey, Remember, Answer, Goto
  <2>2. pc'[q] # "idle" => pc[q] # "idle"
    BY <2>1
  <2>3. \A n \in MayWrap' : n[1] \in Handles'
    BY DEF MayWrap
  <2> QED BY <1>1, <2>1, <2>2, <2>3 DEF Names
<1>3. CASE Start(p)
  <2>1. /\ named' = [named EXCEPT ![p] = MayWrap] /\ UNCHANGED objects
        /\ pc' = [pc EXCEPT ![p] = "start"]
    BY <1>3 DEF Start, Goto, token
  <2>2. MayWrap' = MayWrap /\ Handles' = Handles
    BY <2>1 DEF MayWrap, Handles
  <2>3. \A n \in MayWrap : n[1] \in Handles
    BY DEF MayWrap
  <2> QED BY <2>1, <2>2, <2>3 DEF Names
<1>4. CASE Finish(p)
  <2>1. /\ named' = [named EXCEPT ![p] = {}] /\ UNCHANGED objects
        /\ pc' = [pc EXCEPT ![p] = "idle"]
    BY <1>4 DEF Finish, Goto, token
  <2>2. MayWrap' = MayWrap /\ Handles' = Handles
    BY <2>1 DEF MayWrap, Handles
  <2> QED BY <2>1, <2>2 DEF Names
<1>5. CASE ~CreateKey(p) /\ ~Start(p) /\ ~Finish(p)
  <2>1. /\ UNCHANGED <<objects, named>>
        /\ pc[p] # "idle" /\ \E place : pc' = [pc EXCEPT ![p] = place]
    BY <1>5 DEF Step, Fails, CheckFree, FindWrapper, FindObject, GetInfo,
       GetAttributes, GetValue, ShowValue, ExportValue, CheckWrap, WrapKey,
       Looks, token, Answer, Goto
  <2>2. MayWrap' = MayWrap /\ Handles' = Handles
    BY <2>1 DEF MayWrap, Handles
  <2>3. pc'[q] # "idle" => pc[q] # "idle"
    BY <2>1
  <2> QED BY <2>1, <2>2, <2>3 DEF Names
<1> QED BY <1>2, <1>3, <1>4, <1>5

(* A command starts, ends or gives up.                                     *)
LEMMA ProgressBegin ==
    ASSUME Shape, TokenInv, NEW p \in Procs, Progress(p),
           Start(p) \/ Finish(p) \/ Fails(p)
    PROVE  Progress(p)'
<1> USE DEF Shape
<1>1. CASE Start(p)
  <2>1. pc'[p] = "start" /\ cmd'[p] \in Requests /\ was'[p] = objects
        /\ out' = out /\ UNCHANGED <<objects, open>>
    BY <1>1 DEF Start, Goto, token
  <2>2. History(p)'
    BY <2>1 DEF History, Handles, Changed, TokenInv
  <2>3. out'[p] = NONE
    BY <1>1, <2>1 DEF Start, Progress, Place
  <2> QED BY <2>1, <2>2, <2>3 DEF Progress, Place, Looking, Picture, Value,
          Wrapping, Claims, LetsOut
<1>2. CASE Finish(p)
  <2>1. /\ pc'[p] = "idle" /\ out'[p] = NONE /\ DOMAIN was'[p] = {}
    BY <1>2 DEF Finish, Goto, Empty
  <2> QED BY <2>1 DEF Progress, Place, Looking, History, Picture, Value,
          Wrapping, Claims, LetsOut
<1>3. CASE Fails(p)
  <2>1. /\ pc'[p] = "done" /\ reply'[p] = "Error" /\ pc[p] # "idle"
        /\ pc[p] # "done"
        /\ UNCHANGED <<cmd, out, was, objects, open>>
    BY <1>3 DEF Fails, Answer, Goto, Looks, token
  <2>2. out[p] = NONE /\ History(p)'
    BY <2>1 DEF Progress, Place, History, Handles
  <2> QED BY <2>1, <2>2 DEF Progress, Place, Looking, Picture, Value,
          Wrapping, Claims, LetsOut
<1> QED BY <1>1, <1>2, <1>3

(* generate, import and unwrap.                                            *)
LEMMA ProgressMaking ==
    ASSUME Shape, TokenInv, NEW p \in Procs, Progress(p),
           CheckFree(p) \/ CreateKey(p)
    PROVE  Progress(p)'
<1> USE DEF Shape
<1>1. CASE CheckFree(p)
  <2>1. /\ pc'[p] \in {"create", "wrapper", "done"} /\ pc[p] = "start"
        /\ pc'[p] = "done" => reply'[p] = "Exists"
        /\ pc'[p] = "wrapper" => cmd[p].op = "unwrap"
        /\ cmd[p].op \in Making
        /\ UNCHANGED <<cmd, out, was, objects, open>>
    BY <1>1 DEF CheckFree, Answer, Goto, Looks, token
  <2>2. out[p] = NONE /\ History(p)' /\ cmd[p] \in Requests
    BY <2>1 DEF Progress, Place, History, Handles
  <2> QED BY <2>1, <2>2 DEF Progress, Place, Looking, Picture, Value,
          Wrapping, Claims, LetsOut
<1>2. CASE CreateKey(p)
  <2>1. PICK c \in Requests : c = cmd[p]
    BY <1>2 DEF CreateKey, Progress, Place
  <2>2. /\ pc'[p] = "done" /\ reply'[p] = "ok" /\ pc[p] = "create"
        /\ c.op \in Making /\ UNCHANGED <<cmd, out, was, plain>>
        /\ handle'[p] = Cardinality(Handles) + 1
    BY <1>2, <2>1 DEF CreateKey, Answer, Goto, Progress, Place
  <2>3. out'[p] = NONE
    BY <2>2 DEF Progress, Place
  <2>4. Grown
    BY <1>2, StepToken DEF Step
  <2>5. History(p)'
    <3> SUFFICES ASSUME NEW h \in DOMAIN was[p]
                 PROVE  h \in Handles' /\ Changed(was[p][h], objects'[h])
      BY <2>2 DEF History
    <3>1. h \in Handles /\ Changed(was[p][h], objects[h])
      BY DEF Progress, History
    <3> QED BY <2>4, <3>1, ChangedTrans DEF Grown
  <2>6. c.op = "import" =>
           /\ handle'[p] \in Handles'
           /\ objects'[handle'[p]]["VALUE"] = c.file
    <3> SUFFICES ASSUME c.op = "import"
                 PROVE  /\ handle'[p] \in Handles'
                        /\ objects'[handle'[p]]["VALUE"] = c.file
      OBVIOUS
    <3>1. MakeObject(c, ImportTemplate(c), c.file)
      BY <1>2, <2>1 DEF CreateKey
    <3>2. "VALUE" \in DOMAIN ImportTemplate(c) /\ ImportTemplate(c)["VALUE"] = c.file
      BY ImportTemplateHas
    <3> QED BY <2>2, <3>1, <3>2, MakeGrows DEF Making
  <2> QED BY <2>1, <2>2, <2>3, <2>5, <2>6 DEF Progress, Place, Looking, Picture,
          Value, Wrapping, Claims, LetsOut
<1> QED BY <1>1, <1>2

(* Steps that look at an object: the token is as it was.                   *)
LEMMA LooksKeep ==
    ASSUME NEW p \in Procs, Progress(p), pc[p] # "idle", pc[p] # "done",
           UNCHANGED <<objects, cmd, was>>
    PROVE  /\ History(p)' /\ cmd'[p] \in Requests /\ out[p] = NONE
           /\ Handles' = Handles
BY DEF Progress, Place, History, Handles

(* The object is found, and the first call made.                           *)
LEMMA ProgressFind ==
    ASSUME Shape, TokenInv, NEW p \in Procs, Progress(p),
           FindObject(p) \/ GetInfo(p)
    PROVE  Progress(p)'
<1> USE DEF Shape
<1>1. CASE FindObject(p)
  <2>1. /\ pc[p] = "start" /\ UNCHANGED <<objects, open, cmd, was, out>>
        /\ cmd[p].op \notin Making
    BY <1>1 DEF FindObject, Looks, token
  <2>2. CASE pc'[p] = "done"
    <3>1. reply'[p] # "ok"
      BY <1>1, <2>2 DEF FindObject, Answer, Goto
    <3> QED BY <2>1, <2>2, <3>1, LooksKeep DEF Progress, Place, Looking, Picture,
            Value, Wrapping, Claims, LetsOut
  <2>3. CASE pc'[p] # "done"
    <3>1. PICK h \in Found(cmd[p]) :
             /\ handle'[p] = h /\ pc'[p] = "info"
             /\ second'[p] = (cmd[p].op = "wrap" /\ cmd[p].type = "RSA")
      BY <1>1, <2>3 DEF FindObject, Answer, Goto
    <3>2. h \in Handles
      BY <3>1 DEF Found
    <3>3. cmd[p].op = "wrap" /\ second'[p] => objects[h]["KEY_TYPE"] = cmd[p].type
      BY <3>1 DEF Found
    <3> QED BY <2>1, <3>1, <3>2, <3>3, LooksKeep DEF Progress, Place, Looking,
            Picture, Value, Wrapping, Claims, LetsOut
  <2> QED BY <2>2, <2>3
<1>2. CASE GetInfo(p)
  <2>1. /\ pc[p] = "info" /\ pc'[p] = "attributes"
        /\ UNCHANGED <<objects, open, cmd, was, out, handle, second>>
    BY <1>2 DEF GetInfo, Goto, Looks, token
  <2> QED BY <2>1, LooksKeep DEF Progress, Place, Looking, Picture, Value,
          Wrapping, Claims, LetsOut
<1> QED BY <1>1, <1>2

(* The second call: the picture is what the object is now, so no softer    *)
(* than it was when the command began.                                     *)
LEMMA ProgressAttributes ==
    ASSUME Shape, TokenInv, NEW p \in Procs, Progress(p), GetAttributes(p)
    PROVE  Progress(p)'
<1> USE DEF Shape
<1> DEFINE h == handle[p]
<1>1. /\ pc[p] = "attributes" /\ pc'[p] = "value"
      /\ UNCHANGED <<objects, open, cmd, was, out, handle, second>>
      /\ map'[p] = [a \in Attributes \ {"VALUE"} |-> objects[h][a]]
  BY DEF GetAttributes, Goto, Looks, token
<1>2. h \in Handles /\ cmd[p].op \notin Making
  BY <1>1 DEF Progress, Place, Looking
<1>3. /\ DOMAIN map'[p] = Attributes \ {"VALUE"}
      /\ \A a \in Attributes \ {"VALUE"} : map'[p][a] = objects[h][a]
  BY <1>1
<1>4. h \in DOMAIN was[p] => Changed(was[p][h], objects[h])
  BY DEF Progress, History
<1>5. ~objects[h]["SENSITIVE"] => objects[h]["VALUE"] \in open \cup {NONE}
  BY <1>2 DEF TokenInv
<1>6. Picture(p)'
  BY <1>1, <1>3, <1>4, <1>5 DEF Picture, Changed, Attributes
<1> QED BY <1>1, <1>2, <1>6, LooksKeep DEF Progress, Place, Looking, Value,
        Wrapping, Claims, LetsOut

(* The third call: a value that comes is that of an object that was not    *)
(* sensitive at the second one.                                            *)
LEMMA ProgressValue ==
    ASSUME Shape, TokenInv, NEW p \in Procs, Progress(p), GetValue(p)
    PROVE  Progress(p)'
<1> USE DEF Shape
<1> DEFINE h    == handle[p]
           o    == objects[h]
           kept == [a \in Attributes \ {"VALUE"} |-> map[p][a]]
<1>1. /\ pc[p] = "value" /\ pc'[p] = "check"
      /\ UNCHANGED <<objects, open, cmd, was, out, handle, second>>
  BY DEF GetValue, Goto, Looks, token
<1>2. h \in Handles /\ cmd[p].op \notin Making /\ Picture(p)
  BY <1>1 DEF Progress, Place, Looking
<1>3. \/ map'[p] = Merged(kept, Only("VALUE", Redacted))
      \/ /\ ~map[p]["SENSITIVE"] /\ o["VALUE"] # NONE
         /\ map'[p] = Merged(kept, Only("VALUE", o["VALUE"]))
      \/ map'[p] = kept
  BY DEF GetValue, MustRedact
<1>4. ASSUME NEW v
      PROVE  LET m == Merged(kept, Only("VALUE", v))
             IN  /\ DOMAIN m = Attributes /\ m["VALUE"] = v
                 /\ \A a \in Attributes \ {"VALUE"} : m[a] = map[p][a]
  BY DEF Merged, Only, Attributes
<1>5. /\ Attributes \ {"VALUE"} \subseteq DOMAIN map'[p]
      /\ \A a \in Attributes \ {"VALUE"} : map'[p][a] = map[p][a]
  BY <1>3, <1>4
<1>6. Readable(map[p])' => ~map[p]["SENSITIVE"] /\ map'[p]["VALUE"] = o["VALUE"]
                           /\ o["VALUE"] # NONE
  <2>1. CASE map'[p] = Merged(kept, Only("VALUE", Redacted))
    BY <1>4, <2>1 DEF Readable
  <2>2. CASE ~map[p]["SENSITIVE"] /\ o["VALUE"] # NONE
             /\ map'[p] = Merged(kept, Only("VALUE", o["VALUE"]))
    BY <1>4, <2>2
  <2>3. CASE map'[p] = kept
    BY <2>3 DEF Readable
  <2> QED BY <1>3, <2>1, <2>2, <2>3
<1>7. Value(p)'
  BY <1>1, <1>2, <1>5, <1>6 DEF Value, Picture, Attributes
<1>8. Picture(p)'
  BY <1>1, <1>2, <1>5 DEF Picture, Attributes
<1> QED BY <1>1, <1>2, <1>7, <1>8, LooksKeep DEF Progress, Place, Looking,
        Wrapping, Claims, LetsOut

(* show, read and export: what the picture says was true, or harsher, when *)
(* the command began.                                                      *)
LEMMA ProgressShow ==
    ASSUME Shape, TokenInv, NEW p \in Procs, Progress(p),
           ShowValue(p) \/ ExportValue(p)
    PROVE  Progress(p)'
<1> USE DEF Shape
<1> DEFINE h == handle[p]
<1>1. /\ pc[p] = "check" /\ pc'[p] = "done"
      /\ UNCHANGED <<objects, open, cmd, was, handle>>
      /\ cmd[p].op \in {"show", "read", "export"}
  BY DEF ShowValue, ExportValue, Answer, Goto
<1>2. History(p)' /\ cmd'[p] \in Requests /\ out[p] = NONE
  BY <1>1, LooksKeep
<1>3. ASSUME out'[p] # NONE, h \in DOMAIN was[p]
      PROVE  /\ ~was[p][h]["SENSITIVE"]
             /\ cmd[p].op = "export" => was[p][h]["EXTRACTABLE"]
             /\ cmd[p].op = "show" /\ cmd[p].redact => was[p][h]["KEY_TYPE"] # "RSA"
  <2>1. /\ Readable(map[p])
        /\ cmd[p].op = "export" => map[p]["EXTRACTABLE"]
        /\ cmd[p].op = "show" /\ cmd[p].redact => map[p]["KEY_TYPE"] # "RSA"
    <3>1. CASE ShowValue(p)
      BY <1>2, <1>3, <3>1 DEF ShowValue, RedactedByTool
    <3>2. CASE ExportValue(p)
      BY <1>2, <1>3, <3>2 DEF ExportValue, IsSecretKey, MayLeave
    <3> QED BY <3>1, <3>2
  <2>2. ~map[p]["SENSITIVE"]
    BY <1>1, <2>1 DEF Progress, Value
  <2>3. Picture(p) /\ Changed(was[p][h], objects[h])
    BY <1>3 DEF Progress, History
  <2>4. objects[h]["KEY_TYPE"] = was[p][h]["KEY_TYPE"]
    BY <2>3 DEF Changed, Attributes
  <2> QED BY <1>1, <1>3, <2>1, <2>2, <2>3, <2>4 DEF Picture
<1>4. Claims(p)'
  BY <1>1, <1>3 DEF Claims, LetsOut
<1> QED BY <1>1, <1>2, <1>4 DEF Progress, Place, Looking, Picture, Value,
        Wrapping

(* The looks at a key before it is wrapped.                                *)
LEMMA ProgressCheckWrap ==
    ASSUME Shape, TokenInv, NEW p \in Procs, Progress(p), CheckWrap(p)
    PROVE  Progress(p)'
<1> USE DEF Shape
<1> DEFINE h == handle[p]
<1>1. /\ pc[p] = "check" /\ cmd[p].op = "wrap"
      /\ UNCHANGED <<objects, open, cmd, was, out, handle, map>>
  BY DEF CheckWrap, Looks, token
<1>2. /\ History(p)' /\ cmd'[p] \in Requests /\ out[p] = NONE
      /\ h \in Handles /\ Handles' = Handles /\ cmd[p].op \notin Making
  BY <1>1, LooksKeep DEF Progress, Place, Looking
<1>3. Picture(p) /\ Wrapping(p)
  BY DEF Progress
<1>4. CASE pc'[p] = "done"
  <2>1. reply'[p] # "ok"
    BY <1>1, <1>4 DEF CheckWrap, Answer, Goto
  <2> QED BY <1>1, <1>2, <1>4, <2>1 DEF Progress, Place, Looking, Picture, Value,
          Wrapping, Claims, LetsOut
<1>5. CASE pc'[p] = "wrapper" /\ second[p] /\ MayLeave(map[p]) /\ second' = second
  <2>1. h \in DOMAIN was[p] => was[p][h]["EXTRACTABLE"]
    BY <1>1, <1>3, <1>5 DEF Picture, MayLeave
  <2>2. objects[h]["KEY_TYPE"] = cmd[p].type
    BY <1>1, <1>3, <1>5 DEF Wrapping, Looking
  <2> QED BY <1>1, <1>2, <1>5, <2>1, <2>2 DEF Progress, Place, Looking, Picture,
          Value, Wrapping, Claims, LetsOut
<1>6. CASE pc'[p] = "info" /\ IsSecretKey(map[p], cmd[p].type)
  <2>1. objects[h]["KEY_TYPE"] = cmd[p].type
    BY <1>1, <1>3, <1>6 DEF Picture, IsSecretKey, Has
  <2> QED BY <1>1, <1>2, <1>6, <2>1 DEF Progress, Place, Looking, Picture,
          Value, Wrapping, Claims, LetsOut
<1> QED BY <1>4, <1>5, <1>6 DEF CheckWrap, Answer, Goto

(* A key that a mechanism wraps with is of its kind and no private key.    *)
LEMMA KindIs ==
    ASSUME NEW c \in Requests, c.op = "wrap", NEW o, CanWrap(o, c.mechanism)
    PROVE  /\ c.mechanism \in RsaWraps <=> o["KEY_TYPE"] = "RSA"
           /\ o["CLASS"] # "PRIVATE_KEY"
<1>1. c.mechanism \in RsaWraps <=> c.mechanism \notin AesWraps
  BY SecretKeysAssumption DEF AesWraps, RsaWraps
<1> QED BY <1>1 DEF CanWrap, WrapperClass

(* The search for the wrapping key: the one it finds may wrap just now.    *)
LEMMA ProgressFindWrapper ==
    ASSUME Shape, TokenInv, NEW p \in Procs, Progress(p), Names(p),
           FindWrapper(p)
    PROVE  Progress(p)'
<1> USE DEF Shape
<1> DEFINE c == cmd[p]
<1>1. /\ pc[p] = "wrapper" /\ c \in Requests /\ c.op \in {"wrap", "unwrap"}
      /\ UNCHANGED <<objects, open, cmd, was, out, handle, second, named>>
  BY DEF FindWrapper, token, Progress, Place
<1>2. /\ History(p)' /\ out[p] = NONE /\ Handles' = Handles
  BY <1>1, LooksKeep
<1>3. Place(p) /\ Wrapping(p)
  BY DEF Progress
<1>4. CASE pc'[p] = "done" /\ reply'[p] # "ok"
  BY <1>1, <1>2, <1>4 DEF Progress, Place, Looking, Picture, Value, Wrapping,
     Claims, LetsOut
<1>5. CASE pc'[p] = "create" /\ c.op = "unwrap"
  BY <1>1, <1>2, <1>5 DEF Progress, Place, Looking, Picture, Value, Wrapping,
     Claims, LetsOut, Making
<1>6. ASSUME NEW h \in Wrappers(c.by, c.mechanism, "WRAP"), c.op = "wrap",
             wrapper'[p] = h, pc'[p] = "wrap"
      PROVE  Progress(p)'
  <2>1. h \in Handles /\ <<h, c.by>> \in MayWrap
    BY DEF Wrappers, MayWrap
  <2>2. <<h, c.by>> \in named[p]
    BY <1>1, <2>1 DEF Names
  <2>3. CanWrap(objects[h], c.mechanism)
    BY DEF Wrappers, CanWrap
  <2>4. Wrapping(p)'
    <3>1. /\ second[p] /\ objects[handle[p]]["KEY_TYPE"] = c.type
          /\ handle[p] \in DOMAIN was[p] => was[p][handle[p]]["EXTRACTABLE"]
      BY <1>1, <1>3, <1>6 DEF Wrapping, Looking
    <3> QED BY <1>1, <1>2, <1>6, <2>1, <2>2, <2>3, <3>1 DEF Wrapping, CanWrap
  <2>5. handle[p] \in Handles /\ c.op \notin Making
    BY <1>1, <1>3, <1>6 DEF Place, Looking
  <2> QED BY <1>1, <1>2, <1>6, <2>4, <2>5 DEF Progress, Place, Looking, Picture,
          Value, Claims, LetsOut
<1>7. \/ pc'[p] = "done" /\ reply'[p] # "ok"
      \/ \E h \in Wrappers(c.by, c.mechanism,
                           IF c.op = "wrap" THEN "WRAP" ELSE "UNWRAP") :
            /\ wrapper'[p] = h
            /\ pc'[p] = IF c.op = "wrap" THEN "wrap" ELSE "create"
  BY <1>1 DEF FindWrapper, Answer, Goto
<1> QED BY <1>1, <1>4, <1>5, <1>6, <1>7

(* The call that wraps, whatever has changed since the search.             *)
LEMMA ProgressWrap ==
    ASSUME Shape, TokenInv, NEW p \in Procs, Progress(p), WrapKey(p)
    PROVE  Progress(p)'
<1> USE DEF Shape
<1> DEFINE h == handle[p]
           w == wrapper[p]
<1>1. /\ pc[p] = "wrap" /\ pc'[p] = "done" /\ out'[p].by = w
      /\ UNCHANGED <<objects, open, cmd, was, handle, named>>
  BY DEF WrapKey, LetOut, Answer, Goto
<1>2. /\ History(p)' /\ Handles' = Handles
      /\ cmd[p].op = "wrap" /\ cmd[p] \in Requests
  BY <1>1, LooksKeep DEF Progress, Place
<1>3. Wrapping(p)
  BY DEF Progress
<1>4. ASSUME h \in DOMAIN was[p]
      PROVE  was[p][h]["EXTRACTABLE"] /\ was[p][h]["KEY_TYPE"] = cmd[p].type
  <2>1. Changed(was[p][h], objects[h])
    BY <1>4 DEF Progress, History
  <2>2. objects[h]["KEY_TYPE"] = was[p][h]["KEY_TYPE"]
    BY <2>1 DEF Changed
  <2> QED BY <1>1, <1>2, <1>3, <1>4, <2>2 DEF Wrapping, Looking
<1>5. /\ w \in Handles /\ <<w, cmd[p].by>> \in named[p]
      /\ cmd[p].mechanism \in RsaWraps <=> objects[w]["KEY_TYPE"] = "RSA"
      /\ objects[w]["CLASS"] # "PRIVATE_KEY"
  BY <1>1, <1>2, <1>3, KindIs DEF Wrapping
<1>6. Claims(p)'
  BY <1>1, <1>2, <1>4, <1>5 DEF Claims, LetsOut
<1> QED BY <1>1, <1>2, <1>6 DEF Progress, Place, Looking, Picture, Value, Wrapping
-----------------------------------------------------------------------------
(* Every step keeps the invariant: a process that steps by the lemmas      *)
(* above, the others because objects stay and keep their values.             *)
LEMMA StepKeeps ==
    ASSUME SecretInv, NEW p \in Procs, Step(p)
    PROVE  SecretInv'
<1>1. Shape /\ TokenInv /\ \A q \in Procs : Progress(q) /\ Names(q)
  BY DEF SecretInv
<1>2. TokenInv' /\ Grown
  BY <1>1, StepToken
<1>3. /\ Shape'
      /\ \A q \in Procs \ {p} :
            /\ pc'[q] = pc[q] /\ cmd'[q] = cmd[q] /\ handle'[q] = handle[q]
            /\ map'[q] = map[q] /\ second'[q] = second[q]
            /\ out'[q] = out[q] /\ reply'[q] = reply[q] /\ was'[q] = was[q]
            /\ wrapper'[q] = wrapper[q]
  BY <1>1, Frame
<1>4. Progress(p)'
  BY <1>1, ProgressBegin, ProgressMaking, ProgressFind, ProgressAttributes,
     ProgressValue, ProgressShow, ProgressCheckWrap, ProgressFindWrapper,
     ProgressWrap DEF Step
<1>5. \A q \in Procs :
         /\ Names(q)'
         /\ q # p /\ pc[q] # "idle" => named[q] \subseteq named'[q]
  BY <1>1, <1>2, NamesKept
<1>6. ASSUME NEW q \in Procs \ {p}
      PROVE  Progress(q)'
  BY <1>1, <1>2, <1>3, <1>5, ProgressKept
<1> QED BY <1>2, <1>3, <1>4, <1>5, <1>6 DEF SecretInv

LEMMA ChangeKeeps ==
    ASSUME SecretInv, NEW h \in Handles, Change(h)
    PROVE  SecretInv'
<1>1. Shape /\ TokenInv /\ \A q \in Procs : Progress(q) /\ Names(q)
  BY DEF SecretInv
<1>2. TokenInv' /\ Grown
  BY <1>1, ChangeGrows
<1>3. UNCHANGED <<pc, cmd, handle, wrapper, marked, map, second, out, reply, was>>
  BY DEF Change, client
<1>4. named' = [q \in Procs |-> IF pc[q] = "idle" THEN {} ELSE named[q] \cup MayWrap']
  BY DEF Change, Remember
<1>5. ASSUME NEW q \in Procs
      PROVE  Names(q)' /\ (pc[q] # "idle" => named[q] \subseteq named'[q])
  <2>1. \A n \in MayWrap' : n[1] \in Handles'
    BY DEF MayWrap
  <2> QED BY <1>1, <1>2, <1>3, <1>4, <2>1 DEF Names, Grown
<1>6. ASSUME NEW q \in Procs
      PROVE  Progress(q)'
  BY <1>1, <1>2, <1>3, <1>5, ProgressKept
<1> QED BY <1>1, <1>2, <1>3, <1>4, <1>5, <1>6 DEF SecretInv, Shape

LEMMA SecretNext ==
    ASSUME SecretInv, [Next]_vars
    PROVE  SecretInv'
<1>1. CASE UNCHANGED vars
  <2>1. UNCHANGED <<objects, plain, open, pc, cmd, handle, wrapper, marked, map,
                    second, out, reply, was, named>>
    BY <1>1 DEF vars, token, client
  <2>2. Shape' /\ TokenInv' /\ TokenInv
    BY <2>1 DEF SecretInv, Shape, TokenInv, Handles
  <2>3. Grown
    BY <2>1, <2>2, GrownRefl
  <2>4. ASSUME NEW q \in Procs
        PROVE  Progress(q)' /\ Names(q)'
    <3>1. Progress(q)'
      BY <2>1, <2>2, <2>3, ProgressKept DEF SecretInv
    <3>2. MayWrap' = MayWrap /\ Handles' = Handles
      BY <2>1 DEF MayWrap, Handles
    <3> QED BY <2>1, <3>1, <3>2 DEF SecretInv, Names
  <2> QED BY <2>2, <2>4 DEF SecretInv
<1>2. ASSUME NEW p \in Procs, Step(p)
      PROVE  SecretInv'
  BY <1>2, StepKeeps
<1>3. ASSUME NEW h \in Handles, Change(h)
      PROVE  SecretInv'
  BY <1>3, ChangeKeeps
<1> QED BY <1>1, <1>2, <1>3 DEF Next, Step

LEMMA SecretInit ==
    ASSUME Init
    PROVE  SecretInv
<1>1. objects = OldObjects /\ plain = {}
      /\ \A p \in Procs : pc[p] = "idle" /\ out[p] = NONE /\ DOMAIN was[p] = {}
  BY DEF Init, Empty
<1>2. Shape
  BY DEF Init, Shape
<1>3. /\ IsFiniteSet(Handles) /\ Handles = 1..Cardinality(Handles)
      /\ \A h \in Handles : DOMAIN objects[h] = Attributes
  BY <1>1, SecretKeysAssumption DEF Handles
<1>4. \A h \in Handles : ~objects[h]["SENSITIVE"] =>
         objects[h]["VALUE"] \in open \cup {NONE}
  BY <1>1 DEF Init
<1>5. TokenInv
  BY <1>1, <1>3, <1>4 DEF TokenInv
<1>6. \A p \in Procs : Progress(p)
  BY <1>1 DEF Progress, Place, Looking, History, Picture, Value, Wrapping,
     Claims, LetsOut
<1>7. \A p \in Procs : Names(p)
  BY <1>1 DEF Init, Names
<1> QED BY <1>2, <1>5, <1>6, <1>7 DEF SecretInv

(* The invariant the properties below are read off.                        *)
THEOREM SecretsSafe == Spec => []SecretInv
<1>1. Init => SecretInv
  BY SecretInit
<1>2. SecretInv /\ [Next]_vars => SecretInv'
  BY SecretNext
<1> QED BY <1>1, <1>2, PTL DEF Spec

(* What is written in the clear was asked for in the clear: export, show   *)
(* and read look at CKA_SENSITIVE themselves, whatever the HSM would give. *)
THEOREM PlainlyAsked == Spec => []NoUnaskedPlaintext
<1>1. SecretInv => NoUnaskedPlaintext
  BY DEF SecretInv, TokenInv, NoUnaskedPlaintext
<1> QED BY <1>1, SecretsSafe, PTL

(* No command lets out the value of an object that was sensitive when the  *)
(* command began, in spite of others changing the object meanwhile.        *)
THEOREM ShowsNoSecretEver == Spec => []ShowsNoSecret
<1>1. SecretInv => ShowsNoSecret
  BY DEF SecretInv, Progress, Claims, ShowsNoSecret
<1> QED BY <1>1, SecretsSafe, PTL

(* What is wrapped was extractable and of the type asked for when the      *)
(* command began.  The wrapping key is of the mechanism's kind, and had    *)
(* the name given and might wrap at some time while the command ran:       *)
(* others may rename or forbid it after the search, and the call that      *)
(* wraps is another one.                                                   *)
THEOREM WrapsAllowed == Spec => []WrapsWhatMayLeave
<1>1. SecretInv => WrapsWhatMayLeave
  BY DEF SecretInv, Progress, Claims, WrapsWhatMayLeave
<1> QED BY <1>1, SecretsSafe, PTL

(* An import that succeeds has stored the key of the file, whatever the    *)
(* template of the command line says of the value.                         *)
THEOREM ImportsFile == Spec => []ImportsTheFile
<1>1. SecretInv => ImportsTheFile
  BY DEF SecretInv, Progress, Claims, ImportsTheFile
<1> QED BY <1>1, SecretsSafe, PTL
-----------------------------------------------------------------------------
(* Types.  TypeOK is not inductive: that what is wrapped is a value needs  *)
(* the object to be a key of a class that has one.                         *)
TokenTypes ==
    /\ \A h \in Handles :
          DOMAIN objects[h] = Attributes /\ HasItsParts(objects[h], Values)
    /\ secrets \in Nat
    /\ plain \subseteq Values /\ open \subseteq Values
    /\ blobs \subseteq [by : Values, mechanism : AesWraps \cup RsaWraps,
                        value : Values]

ProcessTypes(p) ==
    /\ pc[p] \in {"idle", "start", "create", "info", "attributes",
                  "value", "check", "wrapper", "wrap", "done"}
    /\ cmd[p] \in Requests \cup {NONE}
    /\ handle[p] \in Handles \cup {0} /\ wrapper[p] \in Handles \cup {0}
    /\ marked[p] \in BOOLEAN /\ second[p] \in BOOLEAN
    /\ DOMAIN map[p] \subseteq Attributes
    /\ out[p] \in [value : Values, by : Handles \cup {0}] \cup {NONE}
    /\ reply[p] \in {"ok", "Exists", "NotFound", "TooMany", "KeyError",
                     "Error", NONE}

(* The value in a picture, and the object that is about to be wrapped.     *)
HasValue(p) ==
    /\ pc[p] = "check" /\ Readable(map[p]) => map[p]["VALUE"] \in Values
    /\ Looking(p) /\ cmd[p].op = "wrap" /\ second[p] =>
          objects[handle[p]]["CLASS"] \in {"SECRET_KEY", "PRIVATE_KEY"}

SystemTypes ==
    /\ hsm \in [marks : BOOLEAN, refuses : BOOLEAN, extractable : BOOLEAN]
    /\ runs \in 0..MaxRuns /\ changes \in 0..MaxChanges

(* The state of the processes is by process.                               *)
ByProcess(f) == f = [p \in Procs |-> f[p]]

Functions ==
    /\ ByProcess(pc) /\ ByProcess(cmd) /\ ByProcess(handle)
    /\ ByProcess(marked) /\ ByProcess(second) /\ ByProcess(out)
    /\ ByProcess(reply) /\ ByProcess(wrapper)

TypeInv ==
    /\ Functions /\ SecretInv /\ SystemTypes /\ TokenTypes
    /\ \A p \in Procs : ProcessTypes(p) /\ HasValue(p)
-----------------------------------------------------------------------------
(* What a template and a value make is an object with a value.             *)
LEMMA MadeIsKey ==
    ASSUME NEW c \in Requests, c.op \in Making, NEW value \in Values,
           NEW template,
           \/ template = Template(c)
           \/ c.op = "import" /\ template = ImportTemplate(c)
    PROVE  LET o == Merged(Merged(Default, Only("VALUE", value)), template)
           IN  /\ DOMAIN o = Attributes /\ HasItsParts(o, Values)
               /\ o["VALUE"] \in Values
<1> DEFINE o == Merged(Merged(Default, Only("VALUE", value)), template)
<1>1. /\ DOMAIN c.template \subseteq Attributes
      /\ "CLASS" \in DOMAIN c.template => c.template["CLASS"] = "SECRET_KEY"
      /\ "VALUE" \in DOMAIN c.template => c.template["VALUE"] \in KeyFiles
      /\ c.op = "import" => c.file \in KeyFiles
  BY TemplatesAssumption
<1>2. /\ DOMAIN Template(c) = {"CLASS", "KEY_TYPE", "SENSITIVE", "LABEL"} \cup DOMAIN c.template
      /\ Template(c)["CLASS"] =
            IF "CLASS" \in DOMAIN c.template THEN c.template["CLASS"] ELSE "SECRET_KEY"
      /\ \A a \in DOMAIN c.template : Template(c)[a] = c.template[a]
  BY DEF Template, KeyTemplate, Merged, Only
<1>3. /\ {"CLASS", "KEY_TYPE", "SENSITIVE", "LABEL"} \subseteq DOMAIN template
      /\ DOMAIN template \subseteq Attributes
      /\ template["CLASS"] = "SECRET_KEY"
      /\ "VALUE" \in DOMAIN template => template["VALUE"] \in KeyFiles
  <2>1. CASE template = Template(c)
    BY <1>1, <1>2, <2>1 DEF Attributes
  <2>2. CASE c.op = "import" /\ template = ImportTemplate(c)
    BY <1>1, <1>2, <2>2, ImportTemplateHas DEF Attributes
  <2> QED BY <2>1, <2>2
<1>4. /\ DOMAIN o = {"SENSITIVE", "EXTRACTABLE", "WRAP", "UNWRAP", "MODULUS", "VALUE"}
                       \cup DOMAIN template
      /\ \A a \in DOMAIN template : o[a] = template[a]
      /\ "VALUE" \notin DOMAIN template => o["VALUE"] = value
  BY DEF Merged, Default, Only
<1> HIDE DEF o
<1>5. DOMAIN o = Attributes
  BY <1>3, <1>4 DEF Attributes
<1>6. o["VALUE"] \in Values /\ o["CLASS"] = "SECRET_KEY"
  BY <1>3, <1>4 DEF Values
<1>7. HasItsParts(o, Values)
  BY <1>6 DEF HasItsParts
<1> QED BY <1>5, <1>6, <1>7 DEF o

(* Making an object keeps the types of the token.                          *)
LEMMA MakeTypes ==
    ASSUME TokenInv, TokenTypes, NEW c \in Requests, c.op \in Making,
           NEW value \in Values, NEW template,
           \/ template = Template(c)
           \/ c.op = "import" /\ template = ImportTemplate(c),
           MakeObject(c, template, value)
    PROVE  /\ \A h \in Handles' :
                 DOMAIN objects'[h] = Attributes /\ HasItsParts(objects'[h], Values)
           /\ open' \subseteq Values
<1> DEFINE n == Cardinality(Handles)
           o == Merged(Merged(Default, Only("VALUE", value)), template)
<1>1. /\ objects' = [h \in Handles \cup {n + 1} |-> IF h \in Handles THEN objects[h] ELSE o]
      /\ open' = IF Has(c.template, "SENSITIVE", FALSE)
                 THEN open \cup {o["VALUE"]} ELSE open
  BY DEF MakeObject
<1>2. DOMAIN o = Attributes /\ HasItsParts(o, Values) /\ o["VALUE"] \in Values
  BY MadeIsKey
<1> HIDE DEF o, n
<1>3. Handles' = Handles \cup {n + 1}
  BY <1>1 DEF Handles
<1>4. \A h \in Handles' : objects'[h] = IF h \in Handles THEN objects[h] ELSE o
  BY <1>1, <1>3
<1> QED BY <1>1, <1>2, <1>4 DEF TokenTypes

(* What a wrapping key is known by is a value.                             *)
LEMMA MaterialIsValue ==
    ASSUME TokenTypes, NEW h \in Handles, NEW mechanism,
           CanWrap(objects[h], mechanism)
    PROVE  Material(objects[h]) \in Values
<1>1. HasItsParts(objects[h], Values)
  BY DEF TokenTypes
<1>2. \/ objects[h]["CLASS"] = "SECRET_KEY" /\ objects[h]["KEY_TYPE"] = "AES"
      \/ objects[h]["CLASS"] = "PUBLIC_KEY" /\ objects[h]["KEY_TYPE"] = "RSA"
  BY DEF CanWrap, WrapperClass
<1> QED BY <1>1, <1>2 DEF HasItsParts, Material

(* What a step of p does to the token keeps its types.                     *)
LEMMA TokenTypesKept ==
    ASSUME TokenInv, TokenTypes, NEW p \in Procs, Progress(p), HasValue(p),
           Step(p)
    PROVE  TokenTypes'
<1>1. CASE CreateKey(p)
  <2>1. PICK c \in Requests : c = cmd[p] /\ c.op \in Making
    BY <1>1 DEF CreateKey, Progress, Place
  <2>2. UNCHANGED <<plain, blobs>>
    BY <1>1 DEF CreateKey
  <2>3. \A b \in blobs : b.value \in Values
    BY DEF TokenTypes
  <2>4. secrets \in Values /\ secrets' \in Nat
    BY <1>1 DEF TokenTypes, Values, CreateKey
  <2>5. c.op = "import" => c.file \in Values
    BY <2>1, TemplatesAssumption DEF Values
  <2>6. \E value \in Values : \E template :
           /\ \/ template = Template(c)
              \/ c.op = "import" /\ template = ImportTemplate(c)
           /\ MakeObject(c, template, value)
    <3>1. CASE c.op = "generate" /\ MakeObject(c, Template(c), secrets)
      BY <2>4, <3>1
    <3>2. CASE c.op = "import" /\ MakeObject(c, ImportTemplate(c), c.file)
      BY <2>5, <3>2
    <3>3. CASE \E b \in blobs : MakeObject(c, Template(c), b.value)
      BY <2>3, <3>3
    <3> QED BY <1>1, <2>1, <3>1, <3>2, <3>3 DEF CreateKey
  <2>7. /\ \A h \in Handles' :
              DOMAIN objects'[h] = Attributes /\ HasItsParts(objects'[h], Values)
        /\ open' \subseteq Values
    BY <2>1, <2>6, MakeTypes
  <2> QED BY <2>2, <2>4, <2>7 DEF TokenTypes
<1>2. CASE ShowValue(p) \/ ExportValue(p)
  <2>1. UNCHANGED <<objects, secrets, open, blobs>> /\ pc[p] = "check"
    BY <1>2 DEF ShowValue, ExportValue
  <2>2. \/ plain' = plain
        \/ plain' = plain \cup {map[p]["VALUE"]} /\ Readable(map[p])
    <3>1. CASE ShowValue(p)
      BY <3>1 DEF ShowValue
    <3>2. CASE ExportValue(p)
      BY <3>2 DEF ExportValue
    <3> QED BY <1>2, <3>1, <3>2
  <2>3. plain' \subseteq Values
    BY <2>1, <2>2 DEF HasValue, TokenTypes
  <2> QED BY <2>1, <2>3 DEF TokenTypes, Handles
<1>3. CASE WrapKey(p)
  <2> DEFINE c == cmd[p]
             v == objects[handle[p]]["VALUE"]
  <2>1. UNCHANGED <<objects, secrets, open, plain>> /\ pc[p] = "wrap"
    BY <1>3 DEF WrapKey
  <2>2. /\ c \in Requests /\ c.op = "wrap" /\ handle[p] \in Handles
        /\ c.mechanism \in AesWraps \cup RsaWraps /\ second[p]
    BY <2>1, SecretKeysAssumption DEF Progress, Place, Looking, Wrapping
  <2>3. v \in Values
    BY <2>1, <2>2 DEF HasValue, Looking, TokenTypes, HasItsParts
  <2>4. blobs' = blobs \cup {[by |-> Material(objects[wrapper[p]]),
                              mechanism |-> c.mechanism, value |-> v]}
    BY <1>3 DEF WrapKey
  <2>5. Material(objects[wrapper[p]]) \in Values
    BY <2>1, MaterialIsValue DEF Progress, Wrapping
  <2>6. blobs' \subseteq [by : Values, mechanism : AesWraps \cup RsaWraps,
                          value : Values]
    BY <2>2, <2>3, <2>4, <2>5 DEF TokenTypes
  <2> QED BY <2>1, <2>6 DEF TokenTypes, Handles
<1>4. CASE ~CreateKey(p) /\ ~ShowValue(p) /\ ~ExportValue(p) /\ ~WrapKey(p)
  <2>1. UNCHANGED token
    BY <1>4 DEF Step, Start, Finish, Fails, CheckFree, FindWrapper, FindObject,
       GetInfo, GetAttributes, GetValue, CheckWrap, Looks
  <2> QED BY <2>1 DEF token, TokenTypes, Handles
<1> QED BY <1>1, <1>2, <1>3, <1>4

(* An object that is changed keeps its attributes and its parts.           *)
LEMMA ChangeTypes ==
    ASSUME TokenInv, TokenTypes, NEW h \in Handles, Change(h)
    PROVE  TokenTypes'
<1>1. PICK a \in {"SENSITIVE", "EXTRACTABLE", "WRAP", "UNWRAP", "LABEL"} :
      \E b : objects' = [objects EXCEPT ![h][a] = b]
  BY ChangeOne
<1>2. PICK b : objects' = [objects EXCEPT ![h][a] = b]
  BY <1>1
<1>3. UNCHANGED <<secrets, plain, blobs, open>>
  BY DEF Change
<1> DEFINE o == [objects[h] EXCEPT ![a] = b]
<1>4. /\ Handles' = Handles /\ objects'[h] = o
      /\ \A g \in Handles \ {h} : objects'[g] = objects[g]
  BY <1>2 DEF Handles
<1>5. /\ DOMAIN o = DOMAIN objects[h]
      /\ \A x \in {"CLASS", "KEY_TYPE", "MODULUS", "VALUE"} : o[x] = objects[h][x]
  BY DEF TokenTypes, Attributes
<1> HIDE DEF o
<1>6. DOMAIN o = Attributes /\ HasItsParts(o, Values)
  BY <1>5 DEF TokenTypes, HasItsParts
<1> QED BY <1>3, <1>4, <1>6 DEF TokenTypes
-----------------------------------------------------------------------------
(* Handles and classes last, so a process that does not step keeps its     *)
(* types.                                                                  *)
LEMMA TypesStay ==
    ASSUME Grown, NEW q \in Procs, Progress(q), ProcessTypes(q), HasValue(q),
           pc'[q] = pc[q], cmd'[q] = cmd[q], handle'[q] = handle[q],
           marked'[q] = marked[q], map'[q] = map[q], second'[q] = second[q],
           out'[q] = out[q], reply'[q] = reply[q], wrapper'[q] = wrapper[q]
    PROVE  ProcessTypes(q)' /\ HasValue(q)'
<1>1. Handles \subseteq Handles'
  BY DEF Grown
<1>2. ProcessTypes(q)'
  BY <1>1 DEF ProcessTypes
<1>3. Looking(q) => objects'[handle[q]]["CLASS"] = objects[handle[q]]["CLASS"]
  BY DEF Progress, Place, Grown, Changed
<1>4. Looking(q)' = Looking(q)
  BY DEF Looking
<1> QED BY <1>2, <1>3, <1>4 DEF HasValue, Readable

(* What a step of p leaves alone of the marks of others, and the rest of   *)
(* the system.                                                             *)
LEMMA FrameTypes ==
    ASSUME Shape, SystemTypes, NEW p \in Procs, Step(p)
    PROVE  /\ SystemTypes'
           /\ \A q \in Procs \ {p} : marked'[q] = marked[q]
<1> USE DEF Shape, Looks
<1>1. CASE Start(p)
  BY <1>1, SecretKeysAssumption DEF Start, SystemTypes
<1>2. CASE Finish(p) \/ Fails(p)
  BY <1>2 DEF Finish, Fails, SystemTypes
<1>3. CASE CheckFree(p) \/ FindWrapper(p) \/ CreateKey(p) \/ FindObject(p)
  BY <1>3 DEF CheckFree, FindWrapper, CreateKey, FindObject, SystemTypes
<1>4. CASE GetInfo(p) \/ GetAttributes(p) \/ GetValue(p)
  BY <1>4 DEF GetInfo, GetAttributes, GetValue, SystemTypes
<1>5. CASE ShowValue(p) \/ ExportValue(p) \/ CheckWrap(p) \/ WrapKey(p)
  BY <1>5 DEF ShowValue, ExportValue, CheckWrap, WrapKey, SystemTypes
<1> QED BY <1>1, <1>2, <1>3, <1>4, <1>5 DEF Step

(* The steps of p that look at nothing but names.                          *)
LEMMA StepTypesName ==
    ASSUME Shape, TokenInv, TokenInv', Grown, NEW p \in Procs, Progress(p),
           ProcessTypes(p), HasValue(p),
           \/ Start(p) \/ Finish(p) \/ Fails(p)
           \/ CheckFree(p) \/ FindWrapper(p) \/ CreateKey(p)
    PROVE  ProcessTypes(p)' /\ HasValue(p)'
<1> USE DEF Shape, Goto, Answer, Looks, Looking
<1>1. Handles \subseteq Handles'
  BY DEF Grown
<1>2. CASE Start(p)
  BY <1>1, <1>2 DEF Start, ProcessTypes, HasValue
<1>3. CASE Finish(p)
  BY <1>1, <1>3 DEF Finish, ProcessTypes, HasValue, Empty
<1>4. CASE Fails(p)
  BY <1>1, <1>4 DEF Fails, ProcessTypes, HasValue
<1>5. CASE CheckFree(p)
  BY <1>1, <1>5 DEF CheckFree, ProcessTypes, HasValue
<1>6. CASE CreateKey(p)
  <2>1. /\ pc'[p] = "done" /\ reply'[p] = "ok"
        /\ handle'[p] = Cardinality(Handles) + 1
        /\ UNCHANGED <<cmd, wrapper, marked, map, second, out>>
    BY <1>6 DEF CreateKey
  <2>2. Cardinality(Handles) + 1 \in Handles'
    <3>1. PICK c \in Requests : c = cmd[p] /\ c.op \in Making
      BY <1>6 DEF CreateKey, Progress, Place
    <3>2. \E template \in {Template(c), ImportTemplate(c)} :
             \E value : MakeObject(c, template, value)
      BY <1>6, <3>1 DEF CreateKey
    <3>3. UNCHANGED plain
      BY <1>6 DEF CreateKey
    <3> QED BY <3>1, <3>2, <3>3, MakeGrows
  <2> QED BY <1>1, <2>1, <2>2 DEF ProcessTypes, HasValue
<1>7. CASE FindWrapper(p)
  <2>1. /\ pc[p] = "wrapper" /\ pc'[p] \in {"done", "wrap", "create"}
        /\ pc'[p] = "wrap" => cmd[p].op = "wrap"
        /\ reply'[p] \in {"NotFound", "TooMany", reply[p]}
        /\ wrapper'[p] \in Handles \cup {wrapper[p]}
        /\ UNCHANGED <<objects, cmd, handle, marked, map, second, out>>
    BY <1>7 DEF FindWrapper, Wrappers, token
  <2> QED BY <1>1, <2>1 DEF ProcessTypes, HasValue
<1> QED BY <1>2, <1>3, <1>4, <1>5, <1>6, <1>7

(* The search and the three calls of from_object.                          *)
LEMMA StepTypesLook ==
    ASSUME Shape, TokenTypes, NEW p \in Procs, Progress(p),
           ProcessTypes(p), HasValue(p),
           FindObject(p) \/ GetInfo(p) \/ GetAttributes(p) \/ GetValue(p)
    PROVE  ProcessTypes(p)' /\ HasValue(p)'
<1> USE DEF Shape, Looks, Looking
<1>1. UNCHANGED <<objects, wrapper>> /\ Handles' = Handles
  BY DEF FindObject, GetInfo, GetAttributes, GetValue, token, Handles
<1>2. CASE FindObject(p)
  <2>1. UNCHANGED <<cmd, marked, map, out>>
    BY <1>2 DEF FindObject
  <2>2. CASE pc'[p] = "done" /\ UNCHANGED <<handle, second>>
             /\ reply'[p] \in {"NotFound", "TooMany"}
    BY <1>1, <2>1, <2>2 DEF ProcessTypes, HasValue
  <2>3. CASE \E h \in Found(cmd[p]) :
                /\ handle'[p] = h /\ pc'[p] = "info" /\ reply' = reply
                /\ second'[p] = (cmd[p].op = "wrap" /\ cmd[p].type = "RSA")
    <3>1. PICK h \in Found(cmd[p]) :
             /\ handle'[p] = h /\ pc'[p] = "info" /\ reply' = reply
             /\ second'[p] = (cmd[p].op = "wrap" /\ cmd[p].type = "RSA")
      BY <2>3
    <3>2. h \in Handles /\ (second'[p] => objects[h]["CLASS"] = "PRIVATE_KEY")
      BY <3>1 DEF Found
    <3> QED BY <1>1, <2>1, <3>1, <3>2 DEF ProcessTypes, HasValue
  <2> QED BY <1>2, <2>2, <2>3 DEF FindObject, Answer, Goto
<1>3. CASE GetInfo(p)
  <2>1. /\ pc[p] = "info" /\ pc'[p] = "attributes"
        /\ UNCHANGED <<cmd, handle, map, second, out, reply>>
    BY <1>3 DEF GetInfo, Goto
  <2>2. marked'[p] \in BOOLEAN
    BY <1>3 DEF GetInfo
  <2> QED BY <1>1, <2>1, <2>2 DEF ProcessTypes, HasValue
<1>4. CASE GetAttributes(p)
  <2>1. /\ pc[p] = "attributes" /\ pc'[p] = "value"
        /\ DOMAIN map'[p] \subseteq Attributes
        /\ UNCHANGED <<cmd, handle, marked, second, out, reply>>
    BY <1>4 DEF GetAttributes, Goto
  <2> QED BY <1>1, <2>1 DEF ProcessTypes, HasValue
<1>5. CASE GetValue(p)
  <2> DEFINE o    == objects[handle[p]]
             kept == [a \in Attributes \ {"VALUE"} |-> map[p][a]]
  <2>1. /\ pc[p] = "value" /\ pc'[p] = "check"
        /\ UNCHANGED <<cmd, handle, marked, second, out, reply>>
    BY <1>5 DEF GetValue, Goto
  <2>2. o["VALUE"] \in Values \cup {NONE}
    BY <2>1 DEF Progress, Place, TokenTypes, HasItsParts
  <2>3. \/ map'[p] = Merged(kept, Only("VALUE", Redacted))
        \/ o["VALUE"] # NONE /\ map'[p] = Merged(kept, Only("VALUE", o["VALUE"]))
        \/ map'[p] = kept
    BY <1>5 DEF GetValue
  <2>4. ASSUME NEW v
        PROVE  LET m == Merged(kept, Only("VALUE", v))
               IN  DOMAIN m = Attributes /\ m["VALUE"] = v
    BY DEF Merged, Only, Attributes
  <2>5. DOMAIN map'[p] \subseteq Attributes
    BY <2>3, <2>4
  <2>6. Readable(map[p])' => map'[p]["VALUE"] \in Values
    BY <2>2, <2>3, <2>4 DEF Readable
  <2> QED BY <1>1, <2>1, <2>5, <2>6 DEF ProcessTypes, HasValue
<1> QED BY <1>2, <1>3, <1>4, <1>5

(* What a command lets out.                                                *)
LEMMA StepTypesOut ==
    ASSUME Shape, TokenTypes, NEW p \in Procs, Progress(p),
           ProcessTypes(p), HasValue(p),
           ShowValue(p) \/ ExportValue(p) \/ CheckWrap(p) \/ WrapKey(p)
    PROVE  ProcessTypes(p)' /\ HasValue(p)'
<1> USE DEF Shape, Looks, Looking
<1>1. UNCHANGED <<objects, cmd, handle, wrapper, marked, map>> /\ Handles' = Handles
  BY DEF ShowValue, ExportValue, CheckWrap, WrapKey, token, Handles
<1>2. CASE ShowValue(p) \/ ExportValue(p)
  <2>1. /\ pc[p] = "check" /\ pc'[p] = "done" /\ UNCHANGED second
        /\ reply'[p] \in {"ok", "Error", "KeyError"}
    BY <1>2 DEF ShowValue, ExportValue, Answer, Goto
  <2>2. \/ out' = out
        \/ Readable(map[p]) /\ out'[p] = [value |-> map[p]["VALUE"], by |-> 0]
    <3>1. CASE ShowValue(p)
      BY <3>1 DEF ShowValue, LetOut
    <3>2. CASE ExportValue(p)
      BY <3>2 DEF ExportValue, LetOut
    <3> QED BY <1>2, <3>1, <3>2
  <2>3. out'[p] \in [value : Values, by : Handles \cup {0}] \cup {NONE}
    BY <2>1, <2>2 DEF HasValue, ProcessTypes
  <2> QED BY <1>1, <2>1, <2>3 DEF ProcessTypes, HasValue
<1>3. CASE CheckWrap(p)
  <2>1. pc[p] = "check" /\ cmd[p].op = "wrap" /\ UNCHANGED out
    BY <1>3 DEF CheckWrap
  <2>2. CASE pc'[p] = "done" /\ reply'[p] = "KeyError" /\ UNCHANGED second
    BY <1>1, <2>1, <2>2 DEF ProcessTypes, HasValue
  <2>3. CASE pc'[p] = "wrapper" /\ UNCHANGED <<reply, second>>
    BY <1>1, <2>1, <2>3 DEF ProcessTypes, HasValue
  <2>4. CASE pc'[p] = "info" /\ reply' = reply /\ second'[p] = TRUE
             /\ IsSecretKey(map[p], cmd[p].type)
    <3>1. objects[handle[p]]["CLASS"] = "SECRET_KEY"
      BY <2>1, <2>4 DEF Progress, Picture, IsSecretKey, Has
    <3> QED BY <1>1, <2>1, <2>4, <3>1 DEF ProcessTypes, HasValue
  <2> QED BY <1>3, <2>2, <2>3, <2>4 DEF CheckWrap, Answer, Goto
<1>4. CASE WrapKey(p)
  <2> DEFINE c == cmd[p]
             v == objects[handle[p]]["VALUE"]
  <2>1. /\ pc[p] = "wrap" /\ pc'[p] = "done" /\ UNCHANGED second
        /\ reply'[p] = "ok"
    BY <1>4 DEF WrapKey, Answer, Goto
  <2>2. v \in Values /\ wrapper[p] \in Handles
    BY <2>1 DEF Progress, Place, Wrapping, HasValue, TokenTypes, HasItsParts
  <2>3. out'[p] = [value |-> v, by |-> wrapper[p]]
    BY <1>4 DEF WrapKey, LetOut
  <2> QED BY <1>1, <2>1, <2>2, <2>3 DEF ProcessTypes, HasValue
<1> QED BY <1>2, <1>3, <1>4

LEMMA FunctionsKept ==
    ASSUME Functions, NEW p \in Procs, Step(p)
    PROVE  Functions'
<1> USE DEF Functions, ByProcess, Looks, Goto, Answer, LetOut
<1>1. CASE Start(p)
  BY <1>1 DEF Start
<1>2. CASE Finish(p)
  BY <1>2 DEF Finish
<1>3. CASE Fails(p) \/ CheckFree(p)
  BY <1>3 DEF Fails, CheckFree
<1>4. CASE CreateKey(p)
  BY <1>4 DEF CreateKey
<1>5. CASE FindObject(p) \/ FindWrapper(p)
  BY <1>5 DEF FindObject, FindWrapper
<1>6. CASE GetInfo(p) \/ GetAttributes(p) \/ GetValue(p)
  BY <1>6 DEF GetInfo, GetAttributes, GetValue
<1>7. CASE ShowValue(p) \/ ExportValue(p)
  BY <1>7 DEF ShowValue, ExportValue
<1>8. CASE CheckWrap(p) \/ WrapKey(p)
  BY <1>8 DEF CheckWrap, WrapKey
<1> QED BY <1>1, <1>2, <1>3, <1>4, <1>5, <1>6, <1>7, <1>8 DEF Step

LEMMA TypeStep ==
    ASSUME TypeInv, NEW p \in Procs, Step(p)
    PROVE  TypeInv'
<1>1. /\ Shape /\ TokenInv /\ SystemTypes /\ TokenTypes
      /\ \A q \in Procs : Progress(q) /\ ProcessTypes(q) /\ HasValue(q)
  BY DEF TypeInv, SecretInv
<1>2. SecretInv' /\ TokenInv' /\ Grown
  BY <1>1, StepKeeps, StepToken DEF TypeInv
<1>3. TokenTypes'
  BY <1>1, TokenTypesKept
<1>4. SystemTypes' /\ \A q \in Procs \ {p} : marked'[q] = marked[q]
  BY <1>1, FrameTypes
<1>5. ProcessTypes(p)' /\ HasValue(p)'
  BY <1>1, <1>2, StepTypesName, StepTypesLook, StepTypesOut DEF Step
<1>6. ASSUME NEW q \in Procs \ {p}
      PROVE  ProcessTypes(q)' /\ HasValue(q)'
  BY <1>1, <1>2, <1>4, Frame, TypesStay
<1>7. Functions'
  BY FunctionsKept DEF TypeInv
<1> QED BY <1>2, <1>3, <1>4, <1>5, <1>6, <1>7 DEF TypeInv

LEMMA TypeChange ==
    ASSUME TypeInv, NEW h \in Handles, Change(h)
    PROVE  TypeInv'
<1>1. /\ TokenInv /\ SystemTypes /\ TokenTypes
      /\ \A q \in Procs : Progress(q) /\ ProcessTypes(q) /\ HasValue(q)
  BY DEF TypeInv, SecretInv
<1>2. SecretInv' /\ Grown /\ TokenTypes'
  BY <1>1, ChangeKeeps, ChangeGrows, ChangeTypes DEF TypeInv
<1>3. SystemTypes'
  BY <1>1, SecretKeysAssumption DEF Change, SystemTypes
<1>4. ASSUME NEW q \in Procs
      PROVE  ProcessTypes(q)' /\ HasValue(q)'
  <2>1. UNCHANGED <<pc, cmd, handle, wrapper, marked, map, second, out, reply>>
    BY DEF Change, client
  <2> QED BY <1>1, <1>2, <2>1, TypesStay
<1>5. Functions'
  BY DEF TypeInv, Functions, ByProcess, Change, client
<1> QED BY <1>2, <1>3, <1>4, <1>5 DEF TypeInv

LEMMA TypeNext ==
    ASSUME TypeInv, [Next]_vars
    PROVE  TypeInv'
<1>1. CASE UNCHANGED vars
  <2>1. SecretInv'
    BY <1>1, SecretNext DEF TypeInv
  <2>2. SystemTypes' /\ TokenTypes'
    BY <1>1 DEF TypeInv, SystemTypes, TokenTypes, Handles, vars, token
  <2>3. \A p \in Procs : ProcessTypes(p)' /\ HasValue(p)'
    BY <1>1 DEF TypeInv, ProcessTypes, HasValue, Looking, Readable, Handles,
       vars, token, client
  <2>4. Functions'
    BY <1>1 DEF TypeInv, Functions, ByProcess, vars, client
  <2> QED BY <2>1, <2>2, <2>3, <2>4 DEF TypeInv
<1>2. CASE \E p \in Procs : Step(p)
  BY <1>2, TypeStep
<1>3. CASE \E h \in Handles : Change(h)
  BY <1>3, TypeChange
<1> QED BY <1>1, <1>2, <1>3 DEF Next, Step

LEMMA TypeInit ==
    ASSUME Init
    PROVE  TypeInv
<1>1. objects = OldObjects /\ plain = {} /\ blobs = {} /\ secrets = 0
  BY DEF Init
<1>2. \A h \in Handles : DOMAIN objects[h] = Attributes
                         /\ HasItsParts(objects[h], Values)
  <2> SUFFICES ASSUME NEW h \in Handles
               PROVE  DOMAIN objects[h] = Attributes /\ HasItsParts(objects[h], Values)
    OBVIOUS
  <2>1. DOMAIN objects[h] = Attributes /\ HasItsParts(objects[h], KeyFiles)
    BY <1>1, SecretKeysAssumption, OldObjectsAssumption DEF Handles
  <2> QED BY <2>1 DEF HasItsParts, Values
<1>3. open \subseteq Values
  BY <1>1, <1>2 DEF Init, HasItsParts, Handles
<1>4. TokenTypes
  BY <1>1, <1>2, <1>3 DEF TokenTypes
<1>5. SystemTypes
  BY SecretKeysAssumption DEF Init, SystemTypes
<1>6. \A p \in Procs : ProcessTypes(p) /\ HasValue(p)
  BY DEF Init, ProcessTypes, HasValue, Looking, Empty
<1>7. Functions
  BY DEF Init, Functions, ByProcess
<1> QED BY <1>4, <1>5, <1>6, <1>7, SecretInit DEF TypeInv

(* Objects, wrapped keys and values that are let out keep their types,     *)
(* however often keys are wrapped, unwrapped and changed.                  *)
THEOREM TypesAlways == Spec => []TypeInv
<1>1. Init => TypeInv
  BY TypeInit
<1>2. TypeInv /\ [Next]_vars => TypeInv'
  BY TypeNext
<1> QED BY <1>1, <1>2, PTL DEF Spec

(* Every state has its type; no mark and no missing value is ever wrapped  *)
(* or written as if it were one.                                           *)
THEOREM SecretTypesHold == Spec => []TypeOK
<1>1. TypeInv => TypeOK
  <2> SUFFICES ASSUME TypeInv PROVE TypeOK
    OBVIOUS
  <2>1. Handles = 1..Cardinality(Handles)
    BY DEF TypeInv, SecretInv, TokenInv
  <2>2. \A p \in Procs : DOMAIN was[p] \subseteq Handles
    BY DEF TypeInv, SecretInv, Progress, History
  <2>3. \A h \in Handles : DOMAIN objects[h] = Attributes
                           /\ objects[h]["VALUE"] \in Values \cup {NONE}
    BY DEF TypeInv, TokenTypes, HasItsParts
  <2>4. /\ pc \in [Procs -> {"idle", "start", "create", "info", "attributes",
                             "value", "check", "wrapper", "wrap", "done"}]
        /\ cmd \in [Procs -> Requests \cup {NONE}]
        /\ handle \in [Procs -> Handles \cup {0}]
        /\ wrapper \in [Procs -> Handles \cup {0}]
        /\ marked \in [Procs -> BOOLEAN] /\ second \in [Procs -> BOOLEAN]
        /\ out \in [Procs -> [value : Values, by : Handles \cup {0}] \cup {NONE}]
        /\ reply \in [Procs -> {"ok", "Exists", "NotFound", "TooMany",
                                "KeyError", "Error", NONE}]
    BY DEF TypeInv, Functions, ByProcess, ProcessTypes
  <2>5. \A p \in Procs : DOMAIN map[p] \subseteq Attributes
    BY DEF TypeInv, ProcessTypes
  <2>6. \A p \in Procs : \A n \in named[p] : n[1] \in Handles
    BY DEF TypeInv, SecretInv, Names
  <2> QED BY <2>1, <2>2, <2>3, <2>4, <2>5, <2>6 DEF TypeOK, TypeInv, TokenTypes,
          SystemTypes
<1> QED BY <1>1, TypesAlways, PTL
=============================================================================
