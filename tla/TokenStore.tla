----------------------------- MODULE TokenStore -----------------------------
(***************************************************************************)
(* What a user of hsmtool relies on: a store of objects on which commands  *)
(* take effect one at a time.  A command that reports success had its      *)
(* whole effect and reports what it did to the store as it was at that     *)
(* moment.  A command that fails or is killed had no effect, or a part of  *)
(* it: some of the create calls of a new key, or some of the destroys.     *)
(***************************************************************************)
EXTENDS Token

CONSTANT Procs

VARIABLES
    store,  \* the objects on the token
    log     \* per process, the replies of the invocation under way

storeVars == <<store, log>>

StoreInit ==
    /\ store = {}
    /\ log = [p \in Procs |-> <<>>]

Answer(p, c, outcome, objs) ==
    log' = [log EXCEPT ![p] =
              Append(@, [cmd |-> c, outcome |-> outcome, objs |-> objs])]

(* The classes the first n create calls of a command make.                 *)
FirstCalls(c, n) == UNION {c.calls[i] : i \in 1..n}

(* New objects make up those halves of one key that the command c names,   *)
(* and no key had that id and label before.                                *)
NewHalves(c, new, n) ==
    /\ {o.class : o \in new} = FirstCalls(c, n)
    /\ \A o1, o2 \in new : o1.id = o2.id /\ (o1 # o2 => o1.class # o2.class)
    /\ \A o \in new :
          /\ c.id # NONE => o.id = c.id
          /\ o.ktype = c.ktype /\ o.label = NewLabel(c)
          /\ \A k \in KeysOf(store) : k.id # o.id \/ k.label # o.label

Make(p, c) ==
    LET new == store' \ store
    IN  /\ c \in MakeCommand
        /\ Matching(store, c) = {}
        /\ store \subseteq store'
        /\ NewHalves(c, new, Len(c.calls))
        /\ Answer(p, c, "ok", new)

Write(p, c) ==
    LET new == store' \ store
    IN  /\ c \in WriteCommand
        /\ store \subseteq store'
        /\ \E o \in new : /\ new = {o} /\ o.class = "data"
                          /\ o.id = c.id /\ o.label = c.label
        /\ Answer(p, c, "ok", new)

Destroy(p, c) ==
    /\ c \in LoopCommand /\ c.op = "destroy"
    /\ store' = store \ Matching(store, c)
    /\ Answer(p, c, "ok", Matching(store, c))

Show(p, c) ==
    /\ c \in LoopCommand /\ c.op = "show"
    /\ UNCHANGED store
    /\ Answer(p, c, "ok", Matching(store, c))

Use(p, c) ==
    /\ c \in UseCommand
    /\ \E o \in store : Selected(store, c) = {o}
    /\ UNCHANGED store
    /\ Answer(p, c, "ok", Selected(store, c))

(* Each error says what is true of the store or of the invocation.         *)
Reject(p, c) ==
    /\ \/ Answer(p, c, "SessionRequired", {})
       \/ NoCriteria(c) /\ Answer(p, c, "NoSearchCriteria", {})
       \/ /\ c \in MakeCommand /\ Matching(store, c) # {}
          /\ Answer(p, c, "ObjectExists", {})
       \/ /\ c \in UseCommand /\ Selected(store, c) = {}
          /\ Answer(p, c, "ObjectNotFound", {})
       \/ /\ c \in UseCommand
          /\ \E o1, o2 \in Selected(store, c) : o1 # o2
          /\ Answer(p, c, "TooManyObjects", {})
    /\ UNCHANGED store

(* The part of its effect that an interrupted command leaves.              *)
Partial(c) ==
    \/ UNCHANGED store
    \/ /\ c \in MakeCommand /\ Matching(store, c) = {}
       /\ store \subseteq store'
       /\ \E n \in 1..Len(c.calls) : NewHalves(c, store' \ store, n)
    \/ /\ c \in LoopCommand /\ c.op = "destroy"
       /\ store' \subseteq store
       /\ store \ store' \subseteq Matching(store, c)

Break(p, c) == Partial(c) /\ Answer(p, c, "Error", {})

(* The invocation ends or is killed.                                       *)
End(p, c) == Partial(c) /\ log' = [log EXCEPT ![p] = <<>>]

(* No command runs after one that failed.                                  *)
Open(p) == \A i \in 1..Len(log[p]) : log[p][i].outcome = "ok"

Perform(p, c) ==
    \/ Make(p, c) \/ Write(p, c) \/ Destroy(p, c) \/ Show(p, c) \/ Use(p, c)
    \/ Reject(p, c) \/ Break(p, c)

StoreNext ==
    \E p \in Procs, c \in Commands : (Open(p) /\ Perform(p, c)) \/ End(p, c)

StoreSpec == StoreInit /\ [][StoreNext]_storeVars
=============================================================================
