------------------------------- MODULE XmlSax -------------------------------
(***************************************************************************)
(* _XML.SAX and _XML.HTML: one parser object, its table of callbacks and   *)
(* the parses it runs (src/_XML/xml_sax.c).  libxml2 is external: it calls *)
(* the handlers of a parse in the order of the document.  A callback is    *)
(* script code: it may parse again with the same object, create it again,  *)
(* or throw, which jumps out of the library.                               *)
(***************************************************************************)
EXTENDS Integers, Sequences, SequencesExt

CONSTANTS
    Table,        \* the callback names, in the order of callback_api
    MethodSets,   \* the sets of methods callbacks objects have
    MaxCreates,   \* bound: calls of create
    MaxParses,    \* bound: calls of parse
    MaxDepth,     \* bound: depth of elements
    Unset

VARIABLES
    parser,       \* sax_storage: for each name the callbacks object (a number)
                  \* its offset is for; that object; the handlers of the
                  \* library structure; the context of the last callback
    parsing,      \* the parses under way, the innermost last
    contexts,     \* how many contexts were made, and the freed ones
    botched,      \* create failed in an object that was in use
    saxfaults

saxvars == <<parser, parsing, contexts, botched, saxfaults>>

Names == ToSet(Table)
RequiredToStart == {"startDocument", "endDocument", "startElement"}
Required == {"startDocument", "endDocument", "startElement", "endElement"}

Init ==
    /\ parser = [offset |-> [n \in Names |-> Unset], callbacks |-> 0, made |-> 0,
                 sax |-> {}, ctxt |-> 0, method |-> "none"]
    /\ parsing = <<>>
    /\ contexts = [made |-> 0, freed |-> {}]
    /\ botched = FALSE
    /\ saxfaults = {}

Top == parsing[Len(parsing)]
SetTop(f) == [parsing EXCEPT ![Len(parsing)] = f]
InScript == IF parsing = <<>> THEN TRUE ELSE Top.incallback
InLibrary == parsing # <<>> /\ ~Top.incallback

TypeOK ==
    /\ \A n \in Names : parser.offset[n] \in (1..MaxCreates) \cup {Unset}
    /\ parser.callbacks \in 0..MaxCreates /\ parser.ctxt \in 0..MaxParses
    /\ \A i \in DOMAIN parsing : parsing[i].depth \in 0..MaxDepth
    /\ contexts.freed \subseteq 1..contexts.made

-----------------------------------------------------------------------------
(* is_callback_ok walks the table up to the first required method that is   *)
(* missing; the names before it get the new offset, or none.                *)
Walked(methods) ==
    LET missing == {i \in DOMAIN Table :
                      Table[i] \in Required /\ Table[i] \notin methods} IN
    {Table[i] : i \in {j \in DOMAIN Table : \A m \in missing : j < m}}
OffsetStale(n, methods, new, old) == IF n \in methods THEN new ELSE old
OffsetOf(n, methods, new, old) == IF n \in methods THEN new ELSE Unset

(* create.  CB_API_SIZE is larger than the table, so the walk reads past its*)
(* end: it goes well, or the object is refused after the whole table.       *)
create(methods, method) ==
    /\ InScript /\ parser.made < MaxCreates
    /\ LET new == parser.made + 1
           walked == Walked(methods)
           whole == walked = Names IN
       \E ok \in IF whole THEN BOOLEAN ELSE {FALSE} :
          /\ parser' = [parser EXCEPT
                !.made = new,
                !.offset = [n \in Names |->
                    IF n \in walked THEN OffsetOf(n, methods, new, @[n])
                    ELSE @[n]],
                !.sax = walked \cap methods,
                !.callbacks = IF ok THEN new ELSE @,
                !.method = IF ok THEN method ELSE @]
          /\ botched' = (botched \/ ~ok)
    /\ UNCHANGED <<parsing, contexts, saxfaults>>

(* The input string is copied after the arguments were popped.              *)
createWithLastReference ==
    /\ InScript
    /\ saxfaults' = saxfaults \cup {"input"}
    /\ UNCHANGED <<parser, parsing, contexts, botched>>

Usable == parser.callbacks # 0 /\ InScript

(* A push parser is not implemented: an error.                              *)
parse ==
    /\ Usable /\ parser.method # "push" /\ contexts.made < MaxParses
    /\ contexts' = [contexts EXCEPT !.made = @ + 1]
    /\ parsing' =
         Append(IF parsing = <<>> THEN <<>> ELSE SetTop([Top EXCEPT !.nested = TRUE]),
                [ctxt |-> contexts.made + 1, sax |-> parser.sax,
                 phase |-> "start", depth |-> 0, seen |-> 0,
                 incallback |-> FALSE, nested |-> FALSE])
    /\ UNCHANGED <<parser, botched, saxfaults>>
parse_html == parse

(* The context is the one of the last callback, of whatever parse.          *)
LineNumber ==
    /\ Usable
    /\ IF parser.ctxt \in contexts.freed THEN saxfaults' = saxfaults \cup {"ctxt"}
       ELSE UNCHANGED saxfaults
    /\ UNCHANGED <<parser, parsing, contexts, botched>>
getLineNumber == LineNumber
getColumnNumber == LineNumber

-----------------------------------------------------------------------------
SetAlways(old, new) == new
Heard(name) == name \in Top.sax /\ parser.offset[name] # Unset
Deliver(name, frame) ==
    /\ InLibrary
    /\ IF ~Heard(name)
       THEN parsing' = SetTop(frame) /\ UNCHANGED <<parser, saxfaults>>
       ELSE /\ parsing' = SetTop([frame EXCEPT !.incallback = TRUE,
                                               !.nested = FALSE])
            /\ parser' = [parser EXCEPT !.ctxt = SetAlways(@, Top.ctxt)]
            /\ saxfaults' = IF parser.offset[name] = parser.callbacks THEN saxfaults
                         ELSE saxfaults \cup {"offset"}
    /\ UNCHANGED <<contexts, botched>>

startDocument ==
    /\ InLibrary /\ Top.phase = "start"
    /\ Deliver("startDocument", [Top EXCEPT !.phase = "body"])
endDocument ==
    /\ InLibrary /\ Top.phase = "body" /\ Top.depth = 0
    /\ Deliver("endDocument", [Top EXCEPT !.phase = "end"])
startElement ==
    /\ InLibrary /\ Top.phase = "body" /\ Top.depth < MaxDepth
    /\ Deliver("startElement",
               [Top EXCEPT !.depth = @ + 1,
                           !.seen = IF Heard("startElement") THEN @ + 1 ELSE @])
endElement ==
    /\ InLibrary /\ Top.phase = "body" /\ Top.depth > 0
    /\ Deliver("endElement",
               [Top EXCEPT !.depth = @ - 1,
                           !.seen = IF Heard("endElement") THEN @ - 1 ELSE @])

Within(name) == InLibrary /\ Top.phase = "body" /\ Deliver(name, Top)
internalSubset == Within("internalSubset")
isStandalone == Within("isStandalone")
hasInternalSubset == Within("hasInternalSubset")
hasExternalSubset == Within("hasExternalSubset")
entityDecl == Within("entityDecl")
notationDecl == Within("notationDecl")
elementDecl == Within("elementDecl")
unparsedEntityDecl == Within("unparsedEntityDecl")
reference == Within("reference")
characters == Within("characters")
ignorableWhitespace == Within("ignorableWhitespace")
processingInstruction == Within("processingInstruction")
comment == Within("comment")
warning == Within("warning")
error == Within("error")
fatalError == Within("fatalError")
cdataBlock == Within("cdataBlock")
externalSubset == Within("externalSubset")

(* The handlers of entities answer NULL without a callback.                 *)
getEntity == InLibrary /\ UNCHANGED saxvars
getParameterEntity ==
    /\ InLibrary
    /\ parser' = IF Heard("getParameterEntity")
                 THEN [parser EXCEPT !.ctxt = Top.ctxt] ELSE parser
    /\ UNCHANGED <<parsing, contexts, botched, saxfaults>>

(* The list of an enumerated attribute is walked with one pointer and tested*)
(* with another one.                                                        *)
attributeDecl(enumerated) ==
    IF InLibrary /\ enumerated /\ Heard("attributeDecl")
    THEN /\ Top.phase = "body" /\ saxfaults' = saxfaults \cup {"enumeration"}
         /\ UNCHANGED <<parser, parsing, contexts, botched>>
    ELSE Within("attributeDecl")

(* The library is done and frees the context.                               *)
Finish ==
    /\ InLibrary /\ Top.phase = "end"
    /\ contexts' = [contexts EXCEPT !.freed = @ \cup {Top.ctxt}]
    /\ parsing' = Front(parsing)
    /\ UNCHANGED <<parser, botched, saxfaults>>

Return ==      \* the callback returns
    /\ parsing # <<>> /\ Top.incallback
    /\ parsing' = SetTop([Top EXCEPT !.incallback = FALSE])
    /\ UNCHANGED <<parser, contexts, botched, saxfaults>>
Throw ==       \* ... or throws: the context of the parse is never freed
    /\ parsing # <<>> /\ Top.incallback
    /\ parsing' = Front(parsing)
    /\ UNCHANGED <<parser, contexts, botched, saxfaults>>

Declared ==
    \/ internalSubset \/ isStandalone \/ hasInternalSubset \/ hasExternalSubset
    \/ entityDecl \/ notationDecl \/ elementDecl \/ unparsedEntityDecl
    \/ externalSubset \/ getEntity \/ getParameterEntity
    \/ \E enumerated \in BOOLEAN : attributeDecl(enumerated)
Content ==
    \/ startDocument \/ endDocument \/ startElement \/ endElement \/ reference
    \/ characters \/ ignorableWhitespace \/ processingInstruction \/ comment
    \/ warning \/ error \/ fatalError \/ cdataBlock

(* Nothing is said about what follows a call that went wrong.               *)
Next ==
    /\ saxfaults = {}
    /\ \/ \E methods \in MethodSets, method \in {"memory", "push"} :
             create(methods, method)
       \/ createWithLastReference
       \/ parse \/ parse_html \/ getLineNumber \/ getColumnNumber
       \/ Declared \/ Content \/ Finish \/ Return \/ Throw

Spec == Init /\ [][Next]_saxvars

-----------------------------------------------------------------------------
(* The offsets called are offsets into the callbacks object in use, as long *)
(* as no create failed in an object that is used further: it changes the    *)
(* offsets of the names it got to and not the object.                       *)
OffsetsFitCallbacks ==
    ~botched => \A n \in Names : parser.offset[n] \in {Unset, parser.callbacks}

(* A callback that asks for the line is answered from the parse that called *)
(* it, unless it has parsed with the same object meanwhile: the context of  *)
(* the inner parse then stays behind, freed.                                *)
CallbackReadsItsParse ==
    (parsing # <<>> /\ Top.incallback /\ ~Top.nested)
        => parser.ctxt = Top.ctxt /\ parser.ctxt \notin contexts.freed

(* The callbacks see every element closed that they saw opened, whatever    *)
(* object create was called with meanwhile.                                 *)
ElementsSeenInPairs ==
    ~botched => \A i \in DOMAIN parsing : parsing[i].seen = parsing[i].depth
=============================================================================
