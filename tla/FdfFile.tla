------------------------------ MODULE FdfFile ------------------------------
(***************************************************************************)
(* _FDF.File objects (src/_FDF/fdf_main.c) and the documents the FDF       *)
(* library keeps for them.  No function releases the interpreter lock: each*)
(* call is one step.  A document is the number of the FDFCreate or FDFOpen *)
(* that made it; the library is external and may refuse any call.          *)
(***************************************************************************)
EXTENDS Integers, FiniteSets, Sequences

CONSTANTS
    Files,      \* the _FDF.File objects
    MaxDocs     \* bound: documents ever created

None == 0
Docs == 1..MaxDocs

VARIABLES
    theFDF,     \* the document a file object refers to
    docs,       \* what the library holds of each document
    changed,    \* documents changed since they were last saved
    lost,       \* documents whose object was re-created or freed
    answer      \* what the last call returned

vars == <<theFDF, docs, changed, lost, answer>>

Answer(kind) == [kind |-> kind, fields |-> {}, m |-> {}]

Init ==
    /\ theFDF = [o \in Files |-> None]
    /\ docs = [d \in Docs |-> "unused"]
    /\ changed = {}
    /\ lost = {}
    /\ answer = Answer("void")

TypeOK ==
    /\ theFDF \in [Files -> Docs \cup {None}]
    /\ docs \in [Docs -> {"unused", "open", "closed", "embedded"}]
    /\ changed \subseteq Docs /\ lost \subseteq Docs

Held == { theFDF[o] : o \in Files } \ {None}
Unused == { d \in Docs : docs[d] = "unused" }

-----------------------------------------------------------------------------
(* create: the pointer is overwritten whether there was a document or not,  *)
(* and set to NULL when the library fails.                                  *)
Create(o) ==
    /\ lost' = lost \cup ({theFDF[o]} \ {None})
    /\ \/ \E d \in Unused :
            /\ \A e \in Unused : d <= e
            /\ docs' = [docs EXCEPT ![d] = "open"]
            /\ theFDF' = [theFDF EXCEPT ![o] = d]
            /\ answer' = Answer("void")
       \/ /\ theFDF' = [theFDF EXCEPT ![o] = None]
          /\ answer' = Answer("raised")
          /\ UNCHANGED docs
    /\ UNCHANGED changed

(* The object is freed: its storage goes, its document stays open.          *)
Exit(o) ==
    /\ theFDF[o] # None
    /\ lost' = lost \cup {theFDF[o]}
    /\ theFDF' = [theFDF EXCEPT ![o] = None]
    /\ UNCHANGED <<docs, changed, answer>>

(* Every other function returns FDFErcBadParameter when nothing is open.    *)
CannotContinue(o) ==
    /\ theFDF[o] = None
    /\ answer' = Answer("BadParameter")
    /\ UNCHANGED <<theFDF, docs, changed, lost>>

Close(o) ==
    /\ theFDF[o] # None
    /\ docs' = [docs EXCEPT ![theFDF[o]] = "closed"]
    /\ theFDF' = [theFDF EXCEPT ![o] = None]
    /\ answer' = Answer("void")
    /\ UNCHANGED <<changed, lost>>

(* The embedded file loses its document before the call and gets it back    *)
(* when the library refuses, which it does for a file embedded in itself:   *)
(* the container is then NULL.                                              *)
GiveBackNever(d, ret) == None
GiveBackAlways(d, ret) == d
GiveBack(d, ret) == IF ret = "OK" THEN None ELSE d
EmbedAndClose(o, that) ==
    /\ theFDF[o] # None
    /\ \/ /\ theFDF[that] = None
          /\ answer' = Answer("raised")
          /\ UNCHANGED <<theFDF, docs, changed>>
       \/ /\ theFDF[that] # None
          /\ \E ret \in {"OK", "code"} :
               /\ o = that => ret = "code"
               /\ theFDF' = [theFDF EXCEPT
                                ![that] = GiveBack(theFDF[that], ret)]
               /\ docs' = IF ret = "OK"
                          THEN [docs EXCEPT ![theFDF[that]] = "embedded"]
                          ELSE docs
               /\ changed' = IF ret = "OK" THEN changed \cup {theFDF[o]}
                                           ELSE changed
               /\ answer' = Answer(ret)
    /\ UNCHANGED lost

-----------------------------------------------------------------------------
(* A function that changes the document: the library does it or says why    *)
(* not.                                                                     *)
Change(o) ==
    /\ theFDF[o] # None
    /\ \/ /\ answer' = Answer("OK")
          /\ changed' = changed \cup {theFDF[o]}
       \/ /\ answer' = Answer("code")
          /\ UNCHANGED changed
    /\ UNCHANGED <<theFDF, docs, lost>>

(* The same with an action trigger or a selector that is tested before.     *)
RaiseOn(o, known) ==
    /\ theFDF[o] # None /\ ~known
    /\ answer' = Answer("raised")
    /\ UNCHANGED <<theFDF, docs, changed, lost>>
Checked(o) == \E known \in BOOLEAN : (known /\ Change(o)) \/ RaiseOn(o, known)

RemoveItem(o) == Change(o)
SetOnImportJavaScript(o) == Change(o)
AddDocJavaScript(o) == Change(o)
SetEncoding(o) == Change(o)
SetFDFVersion(o) == Change(o)
SetFile(o) == Change(o)
SetFlags(o) == Checked(o)
SetGoToAction(o) == Checked(o)
SetHideAction(o) == Checked(o)
SetIF(o) == Checked(o)
SetImportDataAction(o) == Checked(o)
SetJavaScriptAction(o) == Checked(o)
SetNamedAction(o) == Checked(o)
SetOpt(o) == Change(o)
SetResetByNameAction(o) == Checked(o)
SetResetFormAction(o) == Checked(o)
SetStatus(o) == Change(o)
SetSubmitByNameAction(o) == Checked(o)
SetTargetFrame(o) == Change(o)
SetURIAction(o) == Checked(o)
SetValue(o) == Change(o)
SetValues(o) == Change(o)

(* The functions behind the names of the class; three of the names are      *)
(* registered for the function of another one, so SetFileEx, SetGoToRAction *)
(* and SetSubmitFormAction are those of SetFile, SetGoToAction and          *)
(* SetResetFormAction.                                                      *)
Generate(o) ==
    \/ RemoveItem(o) \/ SetOnImportJavaScript(o) \/ AddDocJavaScript(o)
    \/ SetEncoding(o) \/ SetFDFVersion(o) \/ SetFile(o) \/ SetFlags(o)
    \/ SetGoToAction(o) \/ SetHideAction(o) \/ SetIF(o)
    \/ SetImportDataAction(o) \/ SetJavaScriptAction(o) \/ SetNamedAction(o)
    \/ SetOpt(o) \/ SetResetByNameAction(o) \/ SetResetFormAction(o)
    \/ SetStatus(o) \/ SetSubmitByNameAction(o) \/ SetTargetFrame(o)
    \/ SetURIAction(o) \/ SetValue(o) \/ SetValues(o)

Save(o) ==
    /\ theFDF[o] # None
    /\ \/ answer' = Answer("OK") /\ changed' = changed \ {theFDF[o]}
       \/ answer' = Answer("code") /\ UNCHANGED changed
    /\ UNCHANGED <<theFDF, docs, lost>>

-----------------------------------------------------------------------------
(* Functions that only read.  The string getters ask for the size first and *)
(* then for the text; both may fail.                                        *)
Read(o, results) ==
    /\ theFDF[o] # None
    /\ \E kind \in results : answer' = Answer(kind)
    /\ UNCHANGED <<theFDF, docs, changed, lost>>

GetFDFVersion(o) == Read(o, {"string"})
ExtractAppendSaves(o) == Read(o, {"BadParameter", "OK", "code"})
ExtractAttachment(o) == Read(o, {"raised", "code", "mapping"})
GetAP(o) == Read(o, {"OK", "code"})
GetEncoding(o) == Read(o, {"code", "string"})
GetFile(o) == Read(o, {"code", "string"})
GetFlags(o) == Read(o, {"BadParameter", "code", "NoFlags", "multiset"})
GetNthValue(o) == Read(o, {"code", "string"})
GetOpt(o) == Read(o, {"code", "InternalError", "mapping"})
GetStatus(o) == Read(o, {"code", "string"})
GetValue(o) == Read(o, {"code", "string"})
NextFieldName(o) == Read(o, {"code", "OK", "string"})

Get(o) ==
    \/ GetFDFVersion(o) \/ ExtractAppendSaves(o) \/ ExtractAttachment(o)
    \/ GetAP(o)
    \/ GetEncoding(o) \/ GetFile(o) \/ GetFlags(o) \/ GetNthValue(o)
    \/ GetOpt(o) \/ GetStatus(o) \/ GetValue(o) \/ NextFieldName(o)

(* EnumValues doubles its buffers, from 1 to 8 kilobytes, until the longest *)
(* field fits.  The library calls back for each field before the one that   *)
(* does not fit, so a mapping may be filled more than once.                 *)
BufSizes == {1, 2, 4, 8}
Seen(lengths, size) ==
    { i \in DOMAIN lengths : \A j \in 1..i : lengths[j] <= size }
Tried(lengths) ==
    { s \in BufSizes : \A r \in BufSizes :
        r < s => Seen(lengths, r) # DOMAIN lengths }
Filled(lengths) == UNION { Seen(lengths, s) : s \in Tried(lengths) }
EnumeratedEarly(lengths) == Filled(lengths)
Enumerated(lengths) ==
    IF \E s \in Tried(lengths) : Seen(lengths, s) = DOMAIN lengths
    THEN Filled(lengths) ELSE {}

EnumValues(o) ==
    /\ theFDF[o] # None
    /\ \E lengths \in {<<>>} \cup [1..2 -> {1, 3, 8, 9}] :
         answer' = [kind |-> "values", fields |-> DOMAIN lengths,
                    m |-> Enumerated(lengths)]
    /\ UNCHANGED <<theFDF, docs, changed, lost>>

-----------------------------------------------------------------------------
Next ==
    \E o \in Files :
        \/ Create(o) \/ Exit(o) \/ CannotContinue(o) \/ Close(o)
        \/ \E that \in Files : EmbedAndClose(o, that)
        \/ Generate(o) \/ Save(o) \/ Get(o) \/ EnumValues(o)

Spec == Init /\ [][Next]_vars

-----------------------------------------------------------------------------
(* A file object never refers to a document the library has closed or       *)
(* embedded, and no two objects refer to the same one: EmbedAndClose moves  *)
(* a document out of its object before it knows whether the library takes   *)
(* it.                                                                      *)
FileOwnsDocument ==
    /\ \A d \in Held : docs[d] = "open"
    /\ \A o, p \in Files : theFDF[o] = theFDF[p] /\ theFDF[o] # None => o = p

(* An open document stays in reach of some object unless its object was     *)
(* created again or freed: a refused embedding loses nothing.               *)
OpenDocumentsInReach ==
    \A d \in Docs : docs[d] = "open" => d \in Held \cup lost

(* EnumValues never hands out some of the fields.                           *)
EnumIsAllOrNothing == answer.m \in {{}, answer.fields}
=============================================================================
