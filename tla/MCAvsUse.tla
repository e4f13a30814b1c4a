------------------------------ MODULE MCAvsUse ------------------------------
(***************************************************************************)
(* One index in two kinds of use by two threads: written, or opened and    *)
(* closed over and over.  The kind is chosen in the beginning and says     *)
(* which operations the threads begin.                                     *)
(***************************************************************************)
EXTENDS MCAvsIndex

VARIABLE use       \* the kind of use

usevars == <<use, vars>>

-----------------------------------------------------------------------------
(* The operations of both kinds of use.                                     *)
BothOps == [t \in Threads |-> IndexingOps[t] \cup LifecycleRunOps[t]]

UseInit == Init /\ use \in {"indexing", "lifecycle"}

(* One that is written is opened once, without a licence.                   *)
UseNext ==
    \/ /\ use = "indexing" /\ Next
       /\ UNCHANGED use /\ opens' <= 1 /\ license' = 0
       /\ \A t \in Threads : call'[t].op \in {"none"} \cup IndexingOps[t]
    \/ /\ use = "lifecycle" /\ Next
       /\ UNCHANGED use
       /\ \A t \in Threads : call'[t].op \in {"none", "reopen"} \cup LifecycleRunOps[t]

UseSpec == UseInit /\ [][UseNext]_usevars
=============================================================================
