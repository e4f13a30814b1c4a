-------------------------------- MODULE Xslt --------------------------------
(***************************************************************************)
(* XSLT: Parser and Stylesheet objects over libxslt (src/_XSLT/xslt.c).    *)
(* The library reports errors to two handlers that belong to the process,  *)
(* each with the object it is to report to.  A call lets other threads run *)
(* at its start, in the error handlers and in the include callbacks.       *)
(***************************************************************************)
EXTENDS Integers, FiniteSets

CONSTANTS
    Threads,       \* threads of the interpreter
    Parsers, Stylesheets,
    MaxErrors,     \* bound: errors the library reports in one call
    MaxInclude,    \* bound: bytes of an included file
    ChunkSize,     \* bytes the library asks an include callback for
    Null

VARIABLES
    xslt,          \* xslt_storage of each object
    xmlGenericError, xsltGenericError,   \* the object of each handler
    xcall,         \* the call of each thread
    losterrors,          \* errors nobody was told of: was another call under way,
                   \* and was it an included document's?
    xsltfaults

xsltvars == <<xslt, xmlGenericError, xsltGenericError, xcall, losterrors, xsltfaults>>

Xobjects == Parsers \cup Stylesheets
NoCall == [fn |-> "none", obj |-> Null, pc |-> "none", raised |-> 0,
           reports |-> Null, crossed |-> FALSE]
init_xslt_storage ==
    [alive |-> TRUE, xml |-> FALSE, err |-> FALSE, stylesheet |-> FALSE,
     callbacks |-> FALSE, file |-> -1, iPosition |-> 0]

Init ==
    /\ xslt = [x \in Xobjects |-> init_xslt_storage]
    /\ xmlGenericError = Null /\ xsltGenericError = Null
    /\ xcall = [t \in Threads |-> NoCall]
    /\ losterrors = {}
    /\ xsltfaults = {}

TypeOK ==
    /\ xslt \in [Xobjects ->
          [alive : BOOLEAN, xml : BOOLEAN, err : BOOLEAN, stylesheet : BOOLEAN,
           callbacks : BOOLEAN, file : -1..MaxInclude, iPosition : 0..MaxInclude]]
    /\ {xmlGenericError, xsltGenericError} \subseteq Xobjects \cup {Null}
    /\ \A t \in Threads : xcall[t].raised \in 0..MaxErrors

Runs(t) == xcall[t] = NoCall /\ xsltfaults = {}
InCall(t, fn, pc) == xcall[t].fn = fn /\ xcall[t].pc = pc /\ xsltfaults = {}
Others(t) == {u \in Threads \ {t} : xcall[u].fn # "none"}
Enters(t, fn, x) ==
    xcall' = [u \in Threads |->
                 IF u = t THEN [NoCall EXCEPT !.fn = fn, !.obj = x, !.pc = "starts",
                                              !.crossed = Others(t) # {}]
                 ELSE [xcall[u] EXCEPT !.crossed = xcall[u].fn # "none"]]
(* Short functions of one thread change objects under the calls of others.  *)
Touches(t) ==
    xcall' = [u \in Threads |->
                 [xcall[u] EXCEPT !.crossed = @ \/ (u # t /\ xcall[u].fn # "none")]]
Fault(what, t) ==
    /\ xsltfaults' = {[what |-> what, crossed |-> xcall[t].crossed]}
    /\ UNCHANGED <<xslt, xmlGenericError, xsltGenericError, xcall, losterrors>>

-----------------------------------------------------------------------------
set_xml_data(t, p) ==
    /\ Runs(t) /\ xslt[p].alive
    /\ xslt' = [xslt EXCEPT ![p].xml = TRUE]
    /\ Touches(t)
    /\ UNCHANGED <<xmlGenericError, xsltGenericError, losterrors, xsltfaults>>
set_include_callbacks(t, s) ==
    /\ Runs(t) /\ xslt[s].alive
    /\ xslt' = [xslt EXCEPT ![s].callbacks = TRUE]
    /\ Touches(t)
    /\ UNCHANGED <<xmlGenericError, xsltGenericError, losterrors, xsltfaults>>
(* create of a stylesheet, which may be called again, forgets an error.     *)
create_stylesheet(t, s) ==
    /\ Runs(t) /\ xslt[s].alive
    /\ xslt' = [xslt EXCEPT ![s].err = FALSE]
    /\ Touches(t)
    /\ UNCHANGED <<xmlGenericError, xsltGenericError, losterrors, xsltfaults>>
(* destruct leaves the handlers as they are.                                *)
free_xslt_storage(t, x) ==
    /\ Runs(t) /\ xslt[x].alive
    /\ xslt' = [xslt EXCEPT ![x] = [init_xslt_storage EXCEPT !.alive = FALSE]]
    /\ Touches(t)
    /\ UNCHANGED <<xmlGenericError, xsltGenericError, losterrors, xsltfaults>>
Keeps(t, x) == Runs(t) /\ xslt[x].alive /\ UNCHANGED xsltvars
set_variables(t, p) == Keeps(t, p)
get_version(t, p) == Keeps(t, p)
set_language(t, s) == Keeps(t, s)
get_method(t, s) == Keeps(t, s)

-----------------------------------------------------------------------------
(* An error is reported to the object the handler names at that moment; the *)
(* handler lets other threads run, then writes the object's err_str.        *)
Raise(t, ctx, included) ==
    /\ xcall[t].raised < MaxErrors /\ xcall[t].reports = Null
    /\ IF ctx = Null
       THEN /\ losterrors' = losterrors \cup {[crossed |-> xcall[t].crossed, included |-> included]}
            /\ xcall' = [xcall EXCEPT ![t].raised = @ + 1]
       ELSE /\ xcall' = [xcall EXCEPT ![t].raised = @ + 1, ![t].reports = ctx]
            /\ losterrors' = IF ctx = xcall[t].obj THEN losterrors
                       ELSE losterrors \cup {[crossed |-> xcall[t].crossed,
                                        included |-> included]}
    /\ UNCHANGED <<xslt, xmlGenericError, xsltGenericError, xsltfaults>>
xml_error(t) ==
    /\ \/ InCall(t, "run", "parses") \/ InCall(t, "set_content", "parses")
       \/ InCall(t, "set_content", "applies")
    /\ Raise(t, xmlGenericError, xcall[t].pc = "applies")
xsl_error(t) ==
    /\ InCall(t, "run", "applies") \/ InCall(t, "set_content", "applies")
    /\ Raise(t, xsltGenericError, FALSE)
errorWritten(t) ==
    /\ xcall[t].reports # Null /\ xsltfaults = {}
    /\ IF ~xslt[xcall[t].reports].alive THEN Fault("dangling", t)
       ELSE /\ xslt' = [xslt EXCEPT ![xcall[t].reports].err = TRUE]
            /\ xcall' = [xcall EXCEPT ![t].reports = Null]
            /\ UNCHANGED <<xmlGenericError, xsltGenericError, losterrors, xsltfaults>>
Goes(t, pc) == xcall' = [xcall EXCEPT ![t].pc = pc]
Leaves(t) == xcall' = [xcall EXCEPT ![t] = NoCall]
Quiet(t) == xcall[t].reports = Null

(* run asks for the XML, lets others run, and uses it.                      *)
HasObject(p) == xslt[p].alive
HasXml(p) == xslt[p].xml
run(t, p) ==
    /\ Runs(t) /\ xslt[p].alive /\ HasXml(p)
    /\ Enters(t, "run", p)
    /\ xslt' = [xslt EXCEPT ![p].err = FALSE]
    /\ UNCHANGED <<xmlGenericError, xsltGenericError, losterrors, xsltfaults>>
runParses(t) ==
    /\ InCall(t, "run", "starts")
    /\ IF ~xslt[xcall[t].obj].xml THEN Fault("null", t)
       ELSE /\ xmlGenericError' = xcall[t].obj
            /\ Goes(t, "parses")
            /\ UNCHANGED <<xslt, xsltGenericError, losterrors, xsltfaults>>
(* Text that is not XML: the handler keeps the object.                      *)
runUnparsable(t) ==
    /\ InCall(t, "run", "parses") /\ Quiet(t)
    /\ Leaves(t)
    /\ UNCHANGED <<xslt, xmlGenericError, xsltGenericError, losterrors, xsltfaults>>
HandlerKept(t) == xsltGenericError
HandlerSet(t) == xcall[t].obj
runApplies(t) ==
    /\ InCall(t, "run", "parses") /\ Quiet(t)
    /\ xmlGenericError' = Null
    /\ xsltGenericError' = HandlerSet(t)
    /\ Goes(t, "applies")
    /\ UNCHANGED <<xslt, losterrors, xsltfaults>>
(* An error throws; a result drops the XML.  The handler keeps the object.  *)
runEnds(t) ==
    /\ InCall(t, "run", "applies") /\ Quiet(t)
    /\ LET p == xcall[t].obj IN
       IF ~xslt[p].alive THEN Fault("dangling", t)
       ELSE /\ xslt' = IF xslt[p].err THEN xslt ELSE [xslt EXCEPT ![p].xml = FALSE]
            /\ Leaves(t)
            /\ UNCHANGED <<xmlGenericError, xsltGenericError, losterrors, xsltfaults>>

set_content(t, s) ==
    /\ Runs(t) /\ xslt[s].alive /\ xslt[s].callbacks /\ ~xslt[s].stylesheet
    /\ Enters(t, "set_content", s)
    /\ UNCHANGED <<xslt, xmlGenericError, xsltGenericError, losterrors, xsltfaults>>
contentParses(t) ==
    /\ InCall(t, "set_content", "starts")
    /\ xmlGenericError' = xcall[t].obj
    /\ Goes(t, "parses")
    /\ UNCHANGED <<xslt, xsltGenericError, losterrors, xsltfaults>>
(* Errors, those of an earlier call too, throw; the handler keeps the object.*)
contentApplies(t) ==
    /\ InCall(t, "set_content", "parses") /\ Quiet(t)
    /\ IF xslt[xcall[t].obj].err
       THEN Leaves(t) /\ UNCHANGED <<xmlGenericError, xsltGenericError>>
       ELSE /\ xmlGenericError' = Null
            /\ xsltGenericError' = xcall[t].obj
            /\ Goes(t, "applies")
    /\ UNCHANGED <<xslt, losterrors, xsltfaults>>
contentEnds(t) ==
    /\ InCall(t, "set_content", "applies") /\ Quiet(t)
    /\ LET s == xcall[t].obj IN
       IF ~xslt[s].alive THEN Fault("dangling", t)
       ELSE /\ xslt' = [xslt EXCEPT ![s].stylesheet = ~xslt[s].err, ![s].file = -1]
            /\ xsltGenericError' = IF xslt[s].err THEN xsltGenericError ELSE Null
            /\ Leaves(t)
            /\ UNCHANGED <<xmlGenericError, losterrors, xsltfaults>>

-----------------------------------------------------------------------------
(* Included documents are read through callbacks of the stylesheet: one     *)
(* file and one position, whatever is open.                                 *)
Includes(t) == InCall(t, "set_content", "applies") /\ Quiet(t) /\ xslt[xcall[t].obj].alive
_include_open(t) ==
    /\ Includes(t)
    /\ \E bytes \in 1..MaxInclude :
          xslt' = [xslt EXCEPT ![xcall[t].obj].file = bytes,
                               ![xcall[t].obj].iPosition = 0]
    /\ UNCHANGED <<xmlGenericError, xsltGenericError, xcall, losterrors, xsltfaults>>
(* The position moves unless the rest fits into what was asked for.         *)
f_include_read(t) ==
    /\ Includes(t)
    /\ LET s == xcall[t].obj IN
       /\ xslt[s].file > ChunkSize + xslt[s].iPosition
       /\ xslt' = [xslt EXCEPT ![s].iPosition = @ + ChunkSize]
    /\ UNCHANGED <<xmlGenericError, xsltGenericError, xcall, losterrors, xsltfaults>>
_include_close(t) == Includes(t) /\ xslt[xcall[t].obj].file # -1 /\ UNCHANGED xsltvars

Next ==
    \E t \in Threads :
       \/ \E p \in Parsers :
             set_xml_data(t, p) \/ set_variables(t, p) \/ get_version(t, p) \/ run(t, p)
       \/ \E s \in Stylesheets :
             \/ create_stylesheet(t, s) \/ set_include_callbacks(t, s)
             \/ set_language(t, s) \/ get_method(t, s) \/ set_content(t, s)
       \/ \E x \in Xobjects : free_xslt_storage(t, x)
       \/ xml_error(t) \/ xsl_error(t) \/ errorWritten(t)
       \/ runParses(t) \/ runUnparsable(t) \/ runApplies(t) \/ runEnds(t)
       \/ contentParses(t) \/ contentApplies(t) \/ contentEnds(t)
       \/ _include_open(t) \/ f_include_read(t) \/ _include_close(t)

Spec == Init /\ [][Next]_xsltvars

-----------------------------------------------------------------------------
(* With one call at a time no handler reports to an object that is gone and *)
(* no call uses XML that is gone: the handlers that outlive a call that     *)
(* threw are set again before the library can use them.                     *)
OneCallIsSafe == \A f \in xsltfaults : f.crossed

(* With one call at a time the object whose call it is hears of every error *)
(* of the library, but for the XML errors of included documents.            *)
ErrorsReachTheirObject == \A l \in losterrors : l.crossed \/ l.included
=============================================================================
