----------------------------- MODULE MCAvsIndex -----------------------------
(* Small instances of AvsIndex: which operations each thread calls. *)
EXTENDS AvsIndex, TLC

CONSTANTS t1, t2, t3

Symmetry == Permutations(Threads)
QuerySymmetry == Permutations(Queries)

(* A writer beside a reader of the location and of search results. *)
IndexingOps ==
    [t \in Threads |-> LocationOps \cup
                       { "end_doc", "open", "get_location" }]

(* Three threads search and count; one of them also opens the index. *)
SearchOps ==
    [t \in Threads |-> IF t = t1 THEN { "open", "search", "count" }
                       ELSE { "search", "count", "buildmode" }]

(* Opening, closing and destruction by two threads, one of which also calls *)
(* all the operations that only make a library call, the other a few.      *)
LifecycleRunOps ==
    [t \in Threads |-> { "open", "close", "destroy", "buildmode" } \cup
                       IF t = t1 THEN PlainOps ELSE { "make_stable", "timer" }]

(* One thread opens and writes, the other one searches and closes.         *)
LivenessOps ==
    [t \in Threads |-> IF t = t1
        THEN { "open", "start_doc", "add_field_words", "end_doc", "make_stable" }
        ELSE { "close", "search", "add_words", "destroy" }]
=============================================================================
