--------------------------- MODULE SearchService ---------------------------
(***************************************************************************)
(* What the search operation of AVS.Index promises to its callers, without *)
(* locks, library or shared object: a caller that asks gets one object     *)
(* with the answer to its own question, or an error.                       *)
(***************************************************************************)
CONSTANTS Callers, Questions, Nothing

VARIABLES waiting,   \* the question each caller waits to have answered
          answers    \* the objects callers hold: what was asked, what the
                     \* result is about, and the library's result handle

vars == << waiting, answers >>

Init == waiting = [c \in Callers |-> Nothing] /\ answers = {}

Ask(c, q) ==
    /\ waiting[c] = Nothing
    /\ waiting' = [waiting EXCEPT ![c] = q]
    /\ UNCHANGED answers

(* The object shares its handle with no other one. *)
Answer(c) ==
    /\ waiting[c] # Nothing
    /\ waiting' = [waiting EXCEPT ![c] = Nothing]
    /\ \E a \in answers' :
          /\ answers' = answers \cup {a}
          /\ a.asked = waiting[c] /\ a.about = waiting[c]
          /\ \A b \in answers : b.handle # a.handle

Refuse(c) ==
    /\ waiting[c] # Nothing
    /\ waiting' = [waiting EXCEPT ![c] = Nothing]
    /\ UNCHANGED answers

Discard(a) == answers' = answers \ {a} /\ UNCHANGED waiting

Next ==
    \/ \E c \in Callers :
          (\E q \in Questions : Ask(c, q)) \/ Answer(c) \/ Refuse(c)
    \/ \E a \in answers : Discard(a)

Spec == Init /\ [][Next]_vars
=============================================================================
