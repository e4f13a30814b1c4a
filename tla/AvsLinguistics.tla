--------------------------- MODULE AvsLinguistics ---------------------------
(***************************************************************************)
(* The classes of AVS.Linguistics (AVS/phrase.c, spell.c, stem.c and       *)
(* thesaurus.c) and the converter (convert.c).  An object has a handle of  *)
(* the library from create to destroy, which Pike calls when the object    *)
(* dies and a script may call as well; a question is asked again with a    *)
(* larger buffer until the library has returned all the words it found.    *)
(***************************************************************************)
EXTENDS Integers, Sequences, FiniteSets, FiniteSetsExt, SequencesExt

CONSTANTS
    WordSizes,    \* sizes of words, their end included; 64 bytes are one
    MaxWords,     \* bound: words the library finds
    StemLimit,    \* size of the buffer Stem does not go to
    MaxDoublings, \* bound: times a buffer is doubled, enough for all words
    MaxHandles    \* bound: handles opened

VARIABLES
    lingobjs,     \* the handle of each object, and what was asked of it
    linghandles,  \* handles the library has open
    lingopened,   \* handles opened so far
    linganswer,   \* what the last question found and what it returned
    converter,    \* is the converter initialised
    lingfaults

lingvars == <<lingobjs, linghandles, lingopened, linganswer, converter, lingfaults>>

Quiet == [kind |-> "none", found |-> << >>, words |-> << >>, err |-> FALSE]
(* One object of each class.                                                *)
LingKinds == {"Phrase", "Spell", "Stem", "Thesaurus"}
NewLing == [alive |-> FALSE, handle |-> "garbage", failed |-> FALSE, destroyed |-> 0]
Init ==
    /\ lingobjs = [k \in LingKinds |-> NewLing]
    /\ linghandles = 0 /\ lingopened = 0 /\ linganswer = Quiet
    /\ converter = FALSE /\ lingfaults = {}

Handles == {"garbage", "null", "open", "closed"}
TypeOK ==
    /\ \A k \in LingKinds : lingobjs[k].handle \in Handles /\ lingobjs[k].destroyed \in 0 .. 2
    /\ linghandles \in 0 .. MaxHandles /\ lingopened \in 0 .. MaxHandles
    /\ linganswer.words \in BoundedSeq(WordSizes, MaxWords)

Works(k) == lingfaults = {} /\ lingobjs[k].alive
Fault(f) == lingfaults' = {f}

-----------------------------------------------------------------------------
(* Phrase and Thesaurus clear the handle before the library sets it; in the *)
(* other classes a create that fails leaves what the memory held.  An       *)
(* object whose create raised is destroyed by Pike.                         *)
ClearsHandle(k) == k \in {"Phrase", "Thesaurus"}
init_handle(k) ==
    /\ lingfaults = {} /\ ~lingobjs[k].alive /\ lingopened < MaxHandles
    /\ \E ok \in BOOLEAN :
        /\ lingobjs' = [lingobjs EXCEPT ![k] =
               [NewLing EXCEPT !.alive = TRUE, !.failed = ~ok,
                               !.handle = IF ok THEN "open"
                                          ELSE IF ClearsHandle(k) THEN "null" ELSE @]]
        /\ linghandles' = IF ok THEN linghandles + 1 ELSE linghandles
        /\ lingopened' = IF ok THEN lingopened + 1 ELSE lingopened
    /\ linganswer' = Quiet /\ UNCHANGED <<converter, lingfaults>>
phrase_create == init_handle("Phrase")
spell_create == init_handle("Spell")
stem_create == init_handle("Stem")
thesaurus_create == init_handle("Thesaurus")

(* destroy, by a script and again when the object dies: the handle is       *)
(* closed but stays set; Phrase and Thesaurus look whether there is one.    *)
close_handle(k, dies) ==
    /\ Works(k) /\ (lingobjs[k].failed => dies) /\ lingobjs[k].destroyed < 2
    /\ lingobjs' = [lingobjs EXCEPT ![k].alive = ~dies, ![k].destroyed = @ + 1,
                        ![k].handle = IF @ = "open" THEN "closed" ELSE @]
    /\ IF lingobjs[k].handle = "open"
       THEN linghandles' = linghandles - 1 /\ UNCHANGED lingfaults
       ELSE /\ UNCHANGED linghandles
            /\ IF lingobjs[k].handle = "null"
               THEN UNCHANGED lingfaults
               ELSE Fault([what |-> "close", kind |-> k, handle |-> lingobjs[k].handle])
    /\ linganswer' = Quiet /\ UNCHANGED <<lingopened, converter>>
phrase_destroy == \E dies \in BOOLEAN : close_handle("Phrase", dies)
spell_destroy == \E dies \in BOOLEAN : close_handle("Spell", dies)
stem_destroy == \E dies \in BOOLEAN : close_handle("Stem", dies)
thesaurus_destroy == \E dies \in BOOLEAN : close_handle("Thesaurus", dies)

-----------------------------------------------------------------------------
(* The library fills a buffer with the words that fit.                      *)
Space(words) == FoldSeq(LAMBDA w, n : w + n, 0, words)
Returned(words, size) ==
    SubSeq(words, 1, Max({n \in 0 .. Len(words) : Space(SubSeq(words, 1, n)) <= size}))

(* The first buffer; it is doubled until found = returned, in Stem only as  *)
(* long as it is smaller than the limit.                                    *)
FirstSize(k) == IF k = "Phrase" THEN 4 ELSE 2
Sizes(k) == {FirstSize(k) * (2 ^ i) : i \in 0 .. MaxDoublings}
Enough(k, words, size) ==
    \/ Len(Returned(words, size)) = Len(words)
    \/ k = "Stem" /\ 2 * size >= StemLimit
LastSize(k, words) == Min({s \in Sizes(k) : Enough(k, words, s)})

get_words(k) ==
    /\ Works(k) /\ ~lingobjs[k].failed
    /\ UNCHANGED <<lingobjs, linghandles, lingopened, converter>>
    /\ IF lingobjs[k].handle # "open"
       THEN /\ Fault([what |-> "get", kind |-> k, handle |-> lingobjs[k].handle])
            /\ linganswer' = Quiet
       ELSE /\ UNCHANGED lingfaults
            /\ \/ linganswer' = [Quiet EXCEPT !.kind = k, !.err = TRUE]
               \/ \E words \in BoundedSeq(WordSizes, MaxWords) :
                      linganswer' = [kind |-> k, found |-> words, err |-> FALSE,
                                     words |-> Returned(words, LastSize(k, words))]
phrase_get == get_words("Phrase")
f_get_misspellings == get_words("Spell")
f_get_corrections == get_words("Spell")
stem_get == get_words("Stem")
thesaurus_get == get_words("Thesaurus")

(* The converter is one for all; a conversion answers with a file or an     *)
(* error, and always with an error as long as it is not initialised.        *)
convert_init ==
    /\ lingfaults = {} /\ linganswer' = Quiet /\ converter' \in BOOLEAN
    /\ UNCHANGED <<lingobjs, linghandles, lingopened, lingfaults>>
convert(format) ==
    /\ lingfaults = {} /\ UNCHANGED <<lingobjs, linghandles, lingopened, converter, lingfaults>>
    /\ \E ok \in BOOLEAN : linganswer' = [Quiet EXCEPT !.kind = format, !.err = ~(ok /\ converter)]
f_file2html == convert("html")
f_file2text == convert("text")

Next ==
    \/ phrase_create \/ spell_create \/ stem_create \/ thesaurus_create
    \/ phrase_destroy \/ spell_destroy \/ stem_destroy \/ thesaurus_destroy
    \/ phrase_get \/ f_get_misspellings \/ f_get_corrections \/ stem_get \/ thesaurus_get
    \/ convert_init \/ f_file2html \/ f_file2text

Spec == Init /\ [][Next]_lingvars

-----------------------------------------------------------------------------
(* stem.c:99, phrase.c:101: a question is answered with every word that was *)
(* found, in order; only Stem gives up, with words that fill half of its    *)
(* largest buffer but for the next word.                                    *)
EveryWordReturned ==
    LET a == linganswer
        next == Len(a.words) + 1
    IN IsPrefix(a.words, a.found)
       /\ (a.words # a.found =>
               a.kind = "Stem" /\ 2 * Space(SubSeq(a.found, 1, next)) > StemLimit)

(* phrase.c:49: the library has as many handles open as objects have, and a *)
(* handle that is none, or was closed, is used only after a script          *)
(* destroyed the object itself or when create failed in Spell or Stem.      *)
HandlesOfObjects ==
    /\ linghandles = Cardinality({k \in LingKinds : lingobjs[k].handle = "open"})
    /\ \A f \in lingfaults :
           IF f.handle = "garbage"
           THEN lingobjs[f.kind].failed /\ f.kind \in {"Spell", "Stem"}
           ELSE lingobjs[f.kind].destroyed > IF f.what = "close" THEN 1 ELSE 0
=============================================================================
