---------------------------- MODULE PdfDocument -----------------------------
(***************************************************************************)
(* The class pdf (PDF/pdf.c): an object draws into one document of PDFlib. *)
(* A document opened without a file name is handed to writeproc in pieces  *)
(* as the library fills its buffer, and generate answers what has come so  *)
(* far.  The library reports misuse by an exception that ends the process, *)
(* so the calls are made in the order it asks for.                         *)
(***************************************************************************)
EXTENDS Integers, Sequences

CONSTANTS
    PdfObjs,     \* objects of the class
    MaxPdfs,     \* bound: documents made
    MaxPieces,   \* bound: pieces the library writes of one document
    PdfFonts     \* names of fonts

VARIABLES
    pdfobjs,     \* struct PDF_storage of every object
    pdfdocs,     \* the documents of the library, in the order they were made
    pdfanswer,   \* what the last call answered
    pdfpast      \* objects on which create was called again

pdfvars == <<pdfobjs, pdfdocs, pdfanswer, pdfpast>>

NoPdf == [alive |-> FALSE, pdf |-> 0, filename |-> FALSE, storage |-> <<>>, size |-> 0]
init_pdf == [NoPdf EXCEPT !.alive = TRUE]
Init ==
    /\ pdfobjs = [o \in PdfObjs |-> init_pdf] /\ pdfdocs = <<>>
    /\ pdfanswer = [kind |-> "void"] /\ pdfpast = {}

Document(where) ==
    [to |-> where, scope |-> "object", written |-> 0, fonts |-> <<>>]
Pieces == [doc : 1 .. MaxPdfs, piece : 1 .. MaxPieces]
TypeOK ==
    /\ \A o \in PdfObjs : /\ pdfobjs[o].pdf \in 0 .. Len(pdfdocs)
                          /\ pdfobjs[o].size \in 0 .. Len(pdfobjs[o].storage)
                          /\ pdfobjs[o].storage \in Seq(Pieces)
    /\ \A d \in DOMAIN pdfdocs : /\ pdfdocs[d].to \in {"file", "memory", "none"}
                                 /\ pdfdocs[d].scope \in {"object", "document", "page"}
                                 /\ pdfdocs[d].written \in 0 .. MaxPieces
    /\ pdfpast \subseteq PdfObjs

THIS(o) == pdfdocs[pdfobjs[o].pdf]
Open(o, scopes) == pdfobjs[o].alive /\ pdfobjs[o].pdf # 0 /\ THIS(o).scope \in scopes
Void == pdfanswer' = [kind |-> "void"]

-----------------------------------------------------------------------------
(* create makes a document even when the object has one, which nobody       *)
(* deletes, and forgets nothing that was stored.                            *)
f_pdf_create(o) ==
    \E where \in {"memory", "file", "none"} :    \* none: the file cannot be opened
        /\ pdfobjs[o].alive /\ Len(pdfdocs) < MaxPdfs
        /\ pdfdocs' = Append(pdfdocs, IF where = "none" THEN Document(where)
                                      ELSE [Document(where) EXCEPT !.scope = "document"])
        /\ pdfobjs' = [pdfobjs EXCEPT ![o].pdf = Len(pdfdocs) + 1,
                                      ![o].filename = where # "memory"]
        /\ pdfpast' = IF pdfobjs[o].pdf # 0 THEN pdfpast \cup {o} ELSE pdfpast
        /\ pdfanswer' = [kind |-> IF where = "none" THEN "error" ELSE "void"]

(* What follows size in the storage is overwritten.                         *)
writeprocKeepsSize(p, data) ==
    [p EXCEPT !.storage = SubSeq(p.storage, 1, p.size) \o data]
writeproc(p, data) ==
    [p EXCEPT !.storage = SubSeq(p.storage, 1, p.size) \o data, !.size = p.size + Len(data)]

(* The library moves to another scope and may write what it has gathered.   *)
PdfLib(o, scope, writes) ==
    LET d == pdfobjs[o].pdf
        done == pdfdocs[d].written
        data == [i \in 1 .. writes |-> [doc |-> d, piece |-> done + i]]
    IN /\ done + writes <= MaxPieces
       /\ pdfdocs' = [pdfdocs EXCEPT ![d].scope = scope, ![d].written = done + writes]
       /\ pdfobjs' = IF pdfdocs[d].to = "memory"
                     THEN [pdfobjs EXCEPT ![o] = writeproc(pdfobjs[o], data)] ELSE pdfobjs
       /\ UNCHANGED pdfpast

f_begin_page(o) == Open(o, {"document"}) /\ PdfLib(o, "page", 0) /\ Void
f_end_page(o) == Open(o, {"page"}) /\ (\E n \in 0 .. 2 : PdfLib(o, "document", n)) /\ Void
f_close(o) == Open(o, {"document"}) /\ (\E n \in 1 .. 2 : PdfLib(o, "object", n)) /\ Void

(* Text, graphics, parameters and bookmarks go to the library as they are;  *)
(* show_boxed is registered with show and set_value with get_value, so the  *)
(* first refuses its arguments and the second sets nothing.                 *)
f_show(o) == Open(o, {"page"}) /\ PdfLib(o, "page", 0) /\ Void
f_stroke(o) == Open(o, {"page"}) /\ PdfLib(o, "page", 0) /\ Void
f_get_parameter(o) ==
    /\ Open(o, {"page", "document"})
    /\ pdfanswer' = [kind |-> "parameter"] /\ UNCHANGED <<pdfobjs, pdfdocs, pdfpast>>
f_show_boxed(o) ==
    Open(o, {"page"}) /\ pdfanswer' = [kind |-> "error"] /\ UNCHANGED <<pdfobjs, pdfdocs, pdfpast>>
f_set_value(o) ==
    /\ Open(o, {"page", "document"})
    /\ pdfanswer' = [kind |-> "number"] /\ UNCHANGED <<pdfobjs, pdfdocs, pdfpast>>

f_findfont(o) ==
    \E f \in PdfFonts :
        LET d == pdfobjs[o].pdf  have == THIS(o).fonts
        IN /\ Open(o, {"page", "document"}) /\ f \notin {have[i] : i \in DOMAIN have}
           /\ pdfdocs' = [pdfdocs EXCEPT ![d].fonts = Append(have, f)]
           /\ pdfanswer' = [kind |-> "font"] /\ UNCHANGED <<pdfobjs, pdfpast>>

(* Arguments are popped after the string was pushed: with one argument it   *)
(* is the string that goes.                                                 *)
f_generate(o) ==
    \E args \in 0 .. 1 :
        /\ pdfobjs[o].alive
        /\ pdfanswer' = IF pdfobjs[o].filename \/ pdfobjs[o].storage = <<>>
                        THEN [kind |-> "error"]
                        ELSE IF args = 1 THEN [kind |-> "argument"]
                        ELSE [kind |-> "document", of |-> o,
                              text |-> SubSeq(pdfobjs[o].storage, 1, pdfobjs[o].size)]
        /\ UNCHANGED <<pdfobjs, pdfdocs, pdfpast>>

(* The file name and the storage are freed, the document is not.            *)
free_pdf(o) ==
    /\ pdfobjs[o].alive
    /\ pdfobjs' = [pdfobjs EXCEPT ![o] = NoPdf] /\ Void /\ UNCHANGED <<pdfdocs, pdfpast>>

Next ==
    \E o \in PdfObjs :
        \/ f_pdf_create(o) \/ f_begin_page(o) \/ f_end_page(o) \/ f_close(o)
        \/ f_show(o) \/ f_stroke(o) \/ f_get_parameter(o) \/ f_show_boxed(o) \/ f_set_value(o) \/ f_findfont(o)
        \/ f_generate(o) \/ free_pdf(o)

Spec == Init /\ [][Next]_pdfvars

-----------------------------------------------------------------------------
(* pdf.c:98: a generated document is all the library has written of the     *)
(* document of the object so far, in order, unless the object was created   *)
(* a second time: then it starts with what the first one left.              *)
GeneratedIsWhole ==
    pdfanswer.kind = "document" =>
        LET o == pdfanswer.of
            whole == [i \in 1 .. THIS(o).written |-> [doc |-> pdfobjs[o].pdf, piece |-> i]]
        IN o \notin pdfpast => pdfanswer.text = whole
=============================================================================
