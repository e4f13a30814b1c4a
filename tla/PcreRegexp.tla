----------------------------- MODULE PcreRegexp -----------------------------
(***************************************************************************)
(* The class PCRE.Regexp (PCRE/pcre.c): create frees the expression of the *)
(* object before it looks at its arguments, compiles the new one and may   *)
(* study it; match and split run it; the pattern is kept by reference.     *)
(***************************************************************************)
EXTENDS Integers, FiniteSets

CONSTANTS
    Regexps,      \* objects of the class
    Patterns,     \* patterns that compile
    MaxCompiled,  \* bound: expressions compiled
    MaxLosses       \* bound: buffers and expressions counted as lost

VARIABLES
    regexps,      \* PCRE_Regexp of each object, and whether create is past
    compiled,     \* expressions the library has compiled and not freed
    studied,      \* results of studies not freed
    patternrefs,  \* references to a pattern by the objects
    relost,       \* expressions and offset vectors nobody has any more
    reanswer,     \* what the last call was asked, and what it answered
    recount       \* expressions compiled so far

revars == <<regexps, compiled, studied, patternrefs, relost, reanswer, recount>>

None == "none"
init_regexp == [alive |-> TRUE, pattern |-> None, regexp |-> FALSE, extra |-> FALSE, last |-> None]
Quiet == [call |-> None, pattern |-> None, options |-> "none", answer |-> None]
Init ==
    /\ regexps = [o \in Regexps |-> init_regexp]
    /\ compiled = 0 /\ studied = 0 /\ recount = 0
    /\ patternrefs = [p \in Patterns |-> 0]
    /\ relost = [expressions |-> 0, vectors |-> 0] /\ reanswer = Quiet

TypeOK ==
    /\ \A o \in Regexps : regexps[o].pattern \in Patterns \cup {None}
    /\ compiled \in 0 .. MaxCompiled /\ studied \in 0 .. MaxCompiled
    /\ patternrefs \in [Patterns -> 0 .. Cardinality(Regexps)]
    /\ relost.expressions \in 0 .. MaxLosses /\ relost.vectors \in 0 .. MaxLosses

-----------------------------------------------------------------------------
(* The letters of an option string: of an option, of S or N for the study,  *)
(* or none known. The letter is answered negated, so that one from the      *)
(* upper half of the character set, negative itself, is taken for options.  *)
Letters == {"option", "S", "N", "unknown", "upper half"}
parse_options(letter) ==
    CASE letter = "unknown" -> "error"
      [] letter = "upper half" -> "stray bits"
      [] OTHER -> "valid"
Studies(letter) == letter # "N"

(* The object is empty after this; so it stays when create raises later.    *)
Counts(p) == IF p = None THEN patternrefs ELSE [patternrefs EXCEPT ![p] = @ - 1]
AsInt(b) == IF b THEN 1 ELSE 0
Freed(o) == [init_regexp EXCEPT !.alive = regexps[o].alive]
free_regexp(o) ==
    /\ regexps[o].alive /\ reanswer' = Quiet /\ UNCHANGED <<relost, recount>>
    /\ compiled' = compiled - AsInt(regexps[o].regexp)
    /\ studied' = studied - AsInt(regexps[o].extra)
    /\ patternrefs' = Counts(regexps[o].pattern)
    /\ regexps' = [regexps EXCEPT ![o] = [Freed(o) EXCEPT !.alive = FALSE]]

(* The options are parsed, the pattern is compiled, then studied: what a    *)
(* study that fails was to study is lost.                                   *)
f_pcre_create(o, p, letter) ==
    LET old == regexps[o]
        failed == [Freed(o) EXCEPT !.last = "failed"]
        n == compiled - AsInt(old.regexp)
        s == studied - AsInt(old.extra)
    IN /\ old.alive /\ recount < MaxCompiled /\ relost.expressions < MaxLosses
       /\ recount' = recount + 1 /\ reanswer' = Quiet
       /\ \/ /\ parse_options(letter) = "error" \/ p = None \/ parse_options(letter) = "stray bits"
             /\ regexps' = [regexps EXCEPT ![o] = failed]
             /\ compiled' = n /\ studied' = s /\ patternrefs' = Counts(old.pattern)
             /\ UNCHANGED relost
          \/ /\ parse_options(letter) # "error" /\ p # None
             /\ Studies(letter) /\ regexps' = [regexps EXCEPT ![o] = failed]
             /\ compiled' = n + 1 /\ studied' = s /\ patternrefs' = Counts(old.pattern)
             /\ relost' = [relost EXCEPT !.expressions = @ + 1]
          \/ \E gains \in BOOLEAN :
             /\ parse_options(letter) # "error" /\ p # None
             /\ gains => Studies(letter)
             /\ regexps' = [regexps EXCEPT ![o] =
                    [@ EXCEPT !.pattern = p, !.regexp = TRUE, !.extra = gains, !.last = p]]
             /\ compiled' = n + 1 /\ studied' = s + AsInt(gains)
             /\ patternrefs' = [Counts(old.pattern) EXCEPT ![p] = @ + 1]
             /\ UNCHANGED relost

-----------------------------------------------------------------------------
(* What the library answers to an execution; stray bits are refused.        *)
pcre_exec(options) ==
    IF options = "stray bits" THEN {"match", "no match", "error"} ELSE {"match", "no match", "no memory"}
IsError(answer) == answer \in {"error", "no memory"}
Answers(what, o, letter, answer) ==
    reanswer' = [call |-> what, pattern |-> regexps[o].pattern, options |-> parse_options(letter),
                 answer |-> answer]

(* Of the options S and N nothing is made here.                             *)
Refuses(o, letter) == ~regexps[o].regexp \/ parse_options(letter) = "error"
f_pcre_match(o, letter) ==
    /\ regexps[o].alive
    /\ UNCHANGED <<regexps, compiled, studied, patternrefs, relost, recount>>
    /\ IF Refuses(o, letter) THEN Answers("match", o, letter, "raised")
       ELSE \E answer \in pcre_exec(parse_options(letter)) :
                Answers("match", o, letter, IF IsError(answer) THEN "raised" ELSE answer)

(* The vector of offsets is made before the execution and freed after the   *)
(* answer was put together; an error raises in between.                     *)
KeepsVector(answer) == IsError(answer)
f_pcre_split(o, letter) ==
    /\ regexps[o].alive /\ relost.vectors < MaxLosses
    /\ UNCHANGED <<regexps, compiled, studied, patternrefs, recount>>
    /\ IF Refuses(o, letter) THEN Answers("split", o, letter, "raised") /\ UNCHANGED relost
       ELSE \E answer \in pcre_exec(parse_options(letter)) :
                /\ relost' = [relost EXCEPT !.vectors = @ + AsInt(KeepsVector(answer))]
                /\ Answers("split", o, letter,
                           IF IsError(answer) THEN "raised" ELSE answer)

Next ==
    \E o \in Regexps :
        \/ free_regexp(o)
        \/ \E letter \in Letters :
               \/ \E p \in Patterns \cup {None} : f_pcre_create(o, p, letter)
               \/ f_pcre_match(o, letter) \/ f_pcre_split(o, letter)

Spec == Init /\ [][Next]_revars

-----------------------------------------------------------------------------
(* pcre.c:86: an object runs the pattern of its last create, and none when  *)
(* that create raised, although it had one before.                          *)
LastPatternOrNone ==
    \A o \in Regexps :
        /\ regexps[o].regexp => regexps[o].pattern = regexps[o].last
        /\ regexps[o].last = "failed" => ~regexps[o].regexp

(* pcre.c:137: expressions and studies belong to one object, or were lost   *)
(* when a study failed; an object holds a reference to its pattern.         *)
CompiledAreOwned ==
    /\ compiled = Cardinality({o \in Regexps : regexps[o].regexp}) + relost.expressions
    /\ studied = Cardinality({o \in Regexps : regexps[o].extra})
    /\ \A p \in Patterns :
           patternrefs[p] = Cardinality({o \in Regexps : regexps[o].pattern = p})
=============================================================================
