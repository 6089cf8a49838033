------------------------------ MODULE HsmStore ------------------------------
(***************************************************************************)
(* Why hsmtool under --lockfile is the store of TokenStore.  The store a   *)
(* user sees is the token without the halves of a key still being made,    *)
(* and with the objects that a destroy under way has already removed.      *)
(***************************************************************************)
EXTENDS HsmTool

Making == UNION {acted[p] : p \in {q \in Procs : pc[q] = "create"}}

Destroying ==
    UNION {acted[p] : p \in {q \in Procs :
                pc[q] = "loop" /\ Cmd(q).op = "destroy"}}

Visible == (objects \ Making) \cup Destroying

Store == INSTANCE TokenStore WITH store <- Visible, log <- status

(* Under the lock every command is one step of the abstract store, or an   *)
(* interrupted one is a part of it: nobody sees the state between the HSM  *)
(* calls of a command.                                                     *)
ImplementsTokenStore == Store!StoreSpec
-----------------------------------------------------------------------------
(* The inductive invariant behind the theorem of HsmStore_proofs: a loop   *)
(* acts on objects that its command's search finds.                        *)
ActedMatch ==
    \A p \in Procs :
        pc[p] = "loop" => Matching(acted[p], Cmd(p)) = acted[p]
=============================================================================
