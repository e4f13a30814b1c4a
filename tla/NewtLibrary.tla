---------------------------- MODULE NewtLibrary -----------------------------
(***************************************************************************)
(* The glue to the newt library (src/_Newt): its components with their     *)
(* dictionary, and its one screen.                                         *)
(***************************************************************************)
EXTENDS Integers, FiniteSets, Sequences, SequencesExt

(***************************************************************************)
(* _Newt: Pike objects that stand for components of the newt library, and  *)
(* the dictionary that leads from a component back to its object           *)
(* (src/_Newt/functions.c, component_base.c, dictionary.c).                *)
(*                                                                         *)
(* The dictionary is keyed by the address of the component and never       *)
(* forgets one.  The library is external: it may give a freed address out  *)
(* again.  Nothing releases the interpreter lock, so a call is one step.   *)
(***************************************************************************)
CONSTANTS
    Comps,      \* objects derived from ComponentBase
    Classes,    \* the classes in use, among them "Form"
    Addrs,      \* addresses of components
    DictSize,   \* INIT_DICT_SIZE
    MaxMade,    \* bound: components put into the dictionary
    MaxRuns,    \* bound: results of runForm, formRun and formGetCurrent
    Null

VARIABLES
    data,       \* NEWT_DATA of each object
    library,    \* for each component in existence, the form it is in or Null
    dict,       \* the dictionary: address -> object
    dsize,      \* its number of insertions and of key pairs
    handed,     \* how often an object was pushed without a reference to it
    past,       \* the dictionary was emptied; addresses met again
    newtfaults      \* calls that went wrong: "lookup", "freed", "null"

vars == <<data, library, dict, dsize, handed, past, newtfaults>>

Blank == [id |-> "none", component |-> Null, created |-> FALSE, held |-> TRUE]
Live == DOMAIN library

FormsInit ==
    /\ data = [o \in Comps |-> Blank]
    /\ library = <<>>
    /\ dict = <<>>
    /\ dsize = [used |-> 0, pairs |-> DictSize]
    /\ handed = [o \in Comps |-> 0]
    /\ past = [emptied |-> FALSE, reused |-> {}]
    /\ newtfaults = {}

FormsTypeOK ==
    /\ \A o \in Comps : data[o].component \in Addrs \cup {Null}
    /\ Live \subseteq Addrs /\ DOMAIN dict \subseteq Addrs
    /\ \A a \in Live : library[a] \in Addrs \cup {Null}
    /\ dsize.used \in 0..MaxMade /\ past.reused \subseteq Addrs

(* The references to an object: the script's, and one per entry.            *)
RefsOfScript(o) == (IF data[o].held THEN 1 ELSE 0)
Refs(o) == (IF data[o].held THEN 1 ELSE 0)
           + Cardinality({a \in DOMAIN dict : dict[a] = o}) - handed[o]
Freed(o) == Refs(o) <= 0
Usable(o) == data[o].held /\ ~Freed(o)

-----------------------------------------------------------------------------
DictPut(d, a, o) ==
    IF a \in DOMAIN d THEN d
    ELSE [b \in DOMAIN d \cup {a} |-> IF b = a THEN o ELSE d[b]]
DictInsert(o, a) ==
    LET full == dsize.used # 0 /\ dsize.used >= dsize.pairs
        rest == IF full THEN <<>> ELSE dict IN
    /\ dict' = DictPut(rest, a, o)
    /\ \E pairs \in IF full THEN {0, 2 * dsize.pairs} ELSE {dsize.pairs} :
         dsize' = [used |-> IF a \in DOMAIN rest THEN dsize.used
                            ELSE dsize.used + 1, pairs |-> pairs]
    /\ past' = [emptied |-> past.emptied \/ full,
                reused |-> past.reused \cup ({a} \cap DOMAIN dict)]

(* ComponentBase.create, called once by the constructors of the classes.    *)
CreateBase(o, class) ==
    /\ Usable(o) /\ data[o].id = "none"
    /\ data' = [data EXCEPT ![o].id = class, ![o].component = Null,
                            ![o].created = FALSE]
    /\ UNCHANGED <<library, dict, dsize, handed, past, newtfaults>>

(* A constructor called from an object of its class; from any other one it  *)
(* is an error.                                                             *)
Refused == UNCHANGED vars
Construct(o, ids) ==
    /\ Usable(o)
    /\ IF data[o].id \notin ids THEN Refused
       ELSE \E a \in Addrs \ Live :
              /\ dsize.used < MaxMade
              /\ library' = [b \in Live \cup {a} |->
                               IF b = a THEN Null ELSE library[b]]
              /\ data' = [data EXCEPT ![o].component = a, ![o].created = TRUE]
              /\ DictInsert(o, a)
              /\ UNCHANGED <<handed, newtfaults>>

button(o) == Construct(o, {"Button"})
compactButton(o) == Construct(o, {"Button"})
checkbox(o) == Construct(o, {"CheckBox"})
radiobutton(o) == Construct(o, {"RadioButton", "RadioBar"})
label(o) == Construct(o, {"Label"})
verticalScrollbar(o) == Construct(o, {"VScrollBar"})
listbox(o) == Construct(o, {"ListBox"})
checkboxTree(o) == Construct(o, {"CheckBoxTree"})
checkboxTreeMulti(o) == Construct(o, {"CheckBoxTree"})
textboxReflowed(o) == Construct(o, {"TextBoxReflowed"})
textbox(o) == Construct(o, {"TextBox"})
form(o) == Construct(o, {"Form"})
entry(o) == Construct(o, {"Entry"})
scale(o) == Construct(o, {"Scale"})
createGrid(o) == Construct(o, {"Grid"})

New(o) ==
    \/ button(o) \/ compactButton(o) \/ checkbox(o) \/ radiobutton(o)
    \/ label(o) \/ verticalScrollbar(o) \/ listbox(o) \/ checkboxTree(o)
    \/ checkboxTreeMulti(o) \/ textboxReflowed(o) \/ textbox(o) \/ form(o)
    \/ entry(o) \/ scale(o) \/ createGrid(o)

(* func_prolog for anything but a constructor.                              *)
Prolog(o, class) ==
    data[o].id = class /\ data[o].component # Null /\ data[o].created

-----------------------------------------------------------------------------
formAddComponent(o, child) ==
    /\ Usable(o) /\ Usable(child)
    /\ IF ~Prolog(o, "Form") \/ data[child].component = Null THEN Refused
       ELSE /\ library' = [a \in Live |-> IF a = data[child].component
                                          THEN data[o].component ELSE library[a]]
            /\ newtfaults' = IF {data[o].component, data[child].component} \subseteq Live
                         THEN newtfaults ELSE newtfaults \cup {"freed"}
            /\ UNCHANGED <<data, dict, dsize, handed, past>>

(* dict_lookup and push_object: the object is pushed as if the dictionary   *)
(* gave its reference away.                                                 *)
Lookup(a) ==
    IF a \in DOMAIN dict
    THEN /\ handed' = [handed EXCEPT ![dict[a]] = @ + 1]
         /\ UNCHANGED newtfaults
    ELSE /\ newtfaults' = newtfaults \cup {"lookup"}
         /\ UNCHANGED handed

(* The form ends with one of its components.                                *)
formRun(o) ==
    /\ Usable(o) /\ \A p \in Comps : handed[p] < MaxRuns
    /\ IF ~Prolog(o, "Form") THEN Refused
       ELSE /\ \E a \in Live : library[a] = data[o].component /\ Lookup(a)
            /\ UNCHANGED <<data, library, dict, dsize, past>>
runForm(o) == formRun(o)
formGetCurrent(o) == formRun(o)

(* dict_foreach_cb, for every object the dictionary knows of.               *)
DetachNot(d) == d
Detach(d) == [d EXCEPT !.component = Null]
DetachAll ==
    data' = [p \in Comps |-> IF \E a \in DOMAIN dict : dict[a] = p
                             THEN Detach(data[p]) ELSE data[p]]

formDestroy(o) ==
    /\ Usable(o)
    /\ IF ~Prolog(o, "Form") THEN Refused
       ELSE LET f == data[o].component IN
            /\ library' = [a \in {b \in Live \ {f} : library[b] # f} |-> library[a]]
            /\ DetachAll
            /\ UNCHANGED <<dict, dsize, handed, past, newtfaults>>

gridDestroy(o) ==
    /\ Usable(o)
    /\ IF ~Prolog(o, "Grid") THEN Refused
       ELSE /\ library' = [a \in Live \ {data[o].component} |-> library[a]]
            /\ DetachAll
            /\ UNCHANGED <<dict, dsize, handed, past, newtfaults>>

-----------------------------------------------------------------------------
(* The script drops its reference.                                          *)
Drop(o) ==
    /\ Usable(o)
    /\ data' = [data EXCEPT ![o].held = FALSE]
    /\ UNCHANGED <<library, dict, dsize, handed, past, newtfaults>>

(* Any other function hands the component to the library.                   *)
Handed(components) ==
    /\ newtfaults' = IF components \subseteq Live THEN newtfaults
                 ELSE newtfaults \cup {"freed"}
    /\ UNCHANGED <<data, library, dict, dsize, handed, past>>
Method(o, class) ==
    /\ Usable(o)
    /\ IF Prolog(o, class) THEN Handed({data[o].component}) ELSE Refused
TextMethod(o) ==    \* an object of either text box class
    \/ Method(o, "TextBox") \/ Method(o, "TextBoxReflowed")

checkboxGetValue(o) == Method(o, "CheckBox")
checkboxSetValue(o) == Method(o, "CheckBox")
labelSetText(o) == Method(o, "Label")
scrollbarSet(o) == Method(o, "VScrollBar")
listboxGetCurrent(o) == Method(o, "ListBox")
listboxSetCurrent(o) == Method(o, "ListBox")
listboxSetCurrentByKey(o) == Method(o, "ListBox")
listboxSetEntry(o) == Method(o, "ListBox")
listboxSetWidth(o) == Method(o, "ListBox")
listboxSetData(o) == Method(o, "ListBox")
listboxAppendEntry(o) == Method(o, "ListBox")
listboxInsertEntry(o) == Method(o, "ListBox")
listboxDeleteEntry(o) == Method(o, "ListBox")
listboxClear(o) == Method(o, "ListBox")
listboxGetEntry(o) == Method(o, "ListBox")
listboxGetSelection(o) == Method(o, "ListBox")
listboxClearSelection(o) == Method(o, "ListBox")
listboxSelectItem(o) == Method(o, "ListBox")
checkboxTreeGetSelection(o) == Method(o, "CheckBoxTree")
checkboxTreeGetCurrent(o) == Method(o, "CheckBoxTree")
checkboxTreeGetMultiSelection(o) == Method(o, "CheckBoxTree")
checkboxTreeAddArray(o) == Method(o, "CheckBoxTree")
checkboxTreeFindItem(o) == Method(o, "CheckBoxTree")
checkboxTreeSetEntry(o) == Method(o, "CheckBoxTree")
checkboxTreeGetEntryValue(o) == Method(o, "CheckBoxTree")
checkboxTreeSetEntryValue(o) == Method(o, "CheckBoxTree")
textboxSetText(o) == TextMethod(o)
textboxSetHeight(o) == TextMethod(o)
textboxGetNumLines(o) == TextMethod(o)
formSetTimer(o) == Method(o, "Form")
formSetSize(o) == Method(o, "Form")
formSetBackground(o) == Method(o, "Form")
formSetHeight(o) == Method(o, "Form")
formSetWidth(o) == Method(o, "Form")
drawForm(o) == Method(o, "Form")
formAddHotKey(o) == Method(o, "Form")
entrySet(o) == Method(o, "Entry")
entrySetFilter(o) == Method(o, "Entry")
entryGetValue(o) == Method(o, "Entry")
entrySetFlags(o) == Method(o, "Entry")
scaleSet(o) == Method(o, "Scale")
gridPlace(o) == Method(o, "Grid")

(* The second component is tested for NULL only, and here nothing is tested.*)
formSetCurrent(o, child) ==
    /\ Usable(o) /\ Usable(child)
    /\ IF ~Prolog(o, "Form") \/ data[child].component = Null THEN Refused
       ELSE Handed({data[o].component, data[child].component})
gridSetField(o, child) ==
    /\ Usable(o) /\ Usable(child)
    /\ IF Prolog(o, "Grid") THEN Handed({data[o].component}) ELSE Refused
componentTakesFocus(o) ==
    /\ Usable(o)
    /\ IF data[o].id = "none" THEN Refused
       ELSE IF data[o].component # Null THEN Handed({data[o].component})
       ELSE /\ newtfaults' = newtfaults \cup {"null"}
            /\ UNCHANGED <<data, library, dict, dsize, handed, past>>

Call(o) ==
    \/ checkboxGetValue(o) \/ checkboxSetValue(o) \/ labelSetText(o)
    \/ scrollbarSet(o) \/ listboxGetCurrent(o) \/ listboxSetCurrent(o)
    \/ listboxSetCurrentByKey(o) \/ listboxSetEntry(o) \/ listboxSetWidth(o)
    \/ listboxSetData(o) \/ listboxAppendEntry(o) \/ listboxInsertEntry(o)
    \/ listboxDeleteEntry(o) \/ listboxClear(o) \/ listboxGetEntry(o)
    \/ listboxGetSelection(o) \/ listboxClearSelection(o)
    \/ listboxSelectItem(o) \/ checkboxTreeGetSelection(o)
    \/ checkboxTreeGetCurrent(o) \/ checkboxTreeGetMultiSelection(o)
    \/ checkboxTreeAddArray(o) \/ checkboxTreeFindItem(o)
    \/ checkboxTreeSetEntry(o) \/ checkboxTreeGetEntryValue(o)
    \/ checkboxTreeSetEntryValue(o) \/ textboxSetText(o)
    \/ textboxSetHeight(o) \/ textboxGetNumLines(o) \/ formSetTimer(o)
    \/ formSetSize(o) \/ formSetBackground(o) \/ formSetHeight(o)
    \/ formSetWidth(o) \/ drawForm(o) \/ formAddHotKey(o) \/ entrySet(o)
    \/ entrySetFilter(o) \/ entryGetValue(o) \/ entrySetFlags(o)
    \/ scaleSet(o) \/ gridPlace(o)

-----------------------------------------------------------------------------
(* Nothing is said about what follows a call that went wrong.               *)
FormsNext ==
    newtfaults = {} /\ \E o \in Comps :
        \/ \E class \in Classes : CreateBase(o, class)
        \/ New(o)
        \/ \E child \in Comps :
              \/ formAddComponent(o, child) \/ formSetCurrent(o, child)
              \/ gridSetField(o, child)
        \/ formRun(o) \/ runForm(o) \/ formGetCurrent(o)
        \/ formDestroy(o) \/ gridDestroy(o)
        \/ Call(o) \/ componentTakesFocus(o) \/ Drop(o)

FormsSpec == FormsInit /\ [][FormsNext]_vars

-----------------------------------------------------------------------------
(* A component whose object is in use is found under that object, as long as*)
(* the dictionary was never full and the address is used for the first time:*)
(* dict_insert empties a full dictionary and keeps the old object of an     *)
(* address.                                                                 *)
LookupFindsOwner ==
    \A o \in Comps : LET a == data[o].component IN
        (a # Null /\ ~past.emptied /\ a \notin past.reused)
            => a \in DOMAIN dict /\ dict[a] = o

(* Under the same conditions no call hands a component to the library that  *)
(* was freed with the form or grid it was in: destroying one makes every    *)
(* object the dictionary knows forget its component.                        *)
FreedNeverHandedOver ==
    "freed" \in newtfaults => past.emptied \/ past.reused # {}

(* A form that ends with one of its components finds the object of it, which*)
(* is dereferenced without a test, unless the dictionary was full before.   *)
RunFindsObject == "lookup" \in newtfaults => past.emptied

(* The dictionary never leads to a freed object, unless a form has returned *)
(* that object: its reference is then given away.                           *)
DictionaryKeepsObjects ==
    \A a \in DOMAIN dict : Freed(dict[a]) => handed[dict[a]] > 0

-----------------------------------------------------------------------------
(***************************************************************************)
(* The class Screen of Newt.pmod and the functions of _Newt below it       *)
(* (_Newt/functions.c): the one terminal of the library, its windows, help *)
(* lines and colours; and the filters of an Entry.  The functions check    *)
(* their arguments, never the state of the library.                        *)
(***************************************************************************)
CONSTANTS
    Screens,       \* objects of the class Screen
    MAX_WINDOWS,   \* windows the library can have
    MaxWindowIds,  \* bound: windows ever opened
    Parts,         \* what has a colour
    Filters        \* filters of the entry

VARIABLES
    screens,       \* of each Screen: "none", "made", or "ended" with the terminal
    terminal,      \* [inited, suspended]
    windows,       \* the windows of the library
    ownwindows,    \* the windows the script believes to be open
    helplines,
    palette,       \* foreground and background of the parts
    wanted,        \* the foregrounds the script named in its last call
    filters,       \* Entry: the filters, and whether the library calls it
    screenpast,    \* windows opened so far, and whether one was refused
    screenfaults

screenvars == <<screens, terminal, windows, ownwindows, helplines, palette, wanted,
                filters, screenpast, screenfaults>>

Default == [fg |-> "default", bg |-> "default"]
ScreenInit ==
    /\ screens = [s \in Screens |-> "none"]
    /\ terminal = [inited |-> FALSE, suspended |-> FALSE]
    /\ windows = <<>> /\ ownwindows = <<>> /\ helplines = 0
    /\ palette = [p \in Parts |-> Default] /\ wanted = {}
    /\ filters = [list |-> <<>>, engaged |-> FALSE, called |-> FALSE]
    /\ screenpast = [opened |-> 0, refused |-> FALSE] /\ screenfaults = {}

ScreenTypeOK ==
    /\ screens \in [Screens -> {"none", "made", "ended"}]
    /\ windows \in Seq(1..MaxWindowIds) /\ Len(windows) <= MAX_WINDOWS
    /\ helplines \in 0..1 /\ wanted \subseteq Parts
    /\ palette \in [Parts -> [fg : {"default", "asked"}, bg : {"default", "asked"}]]
    /\ screenpast \in [opened : 0..MaxWindowIds, refused : BOOLEAN]

Rest == UNCHANGED <<windows, ownwindows, helplines, palette, wanted, filters, screenpast>>
Works == screenfaults = {}
(* A call through a Screen: without a terminal the library fails.           *)
Reaches(s) ==
    /\ Works /\ screens[s] # "none"
    /\ screenfaults' = IF terminal.inited THEN {} ELSE {<<"not started", screens[s]>>}
    /\ UNCHANGED screens

-----------------------------------------------------------------------------
StartsOnce(t) == IF \E s \in Screens : screens[s] # "none" THEN t ELSE [t EXCEPT !.inited = TRUE]
newtInit(t) == [t EXCEPT !.inited = TRUE]
create(s) ==
    /\ Works /\ screens[s] = "none"
    /\ screens' = [screens EXCEPT ![s] = "made"]
    /\ terminal' = newtInit(terminal)
    /\ UNCHANGED screenfaults /\ Rest
(* finished: the terminal ends for all Screens.                             *)
f_finished(s) ==
    /\ Works /\ screens[s] # "none" /\ terminal.inited
    /\ terminal' = [inited |-> FALSE, suspended |-> FALSE]
    /\ screens' = [o \in Screens |-> IF screens[o] = "made" THEN "ended" ELSE screens[o]]
    /\ windows' = <<>> /\ ownwindows' = <<>> /\ helplines' = 0
    /\ UNCHANGED <<palette, wanted, filters, screenpast, screenfaults>>
f_suspend(s) ==
    /\ Reaches(s) /\ terminal' = [terminal EXCEPT !.suspended = TRUE] /\ Rest
f_resume(s) ==
    /\ Reaches(s) /\ terminal' = [terminal EXCEPT !.suspended = FALSE] /\ Rest
(* cls, resize, waitForKey, clearKeyBuffer and delay; text, bell, cursor;   *)
(* the size of the screen.  They matter only without a terminal.            *)
Unstarted(s) == Reaches(s) /\ ~terminal.inited /\ UNCHANGED terminal /\ Rest
f_waitForKey(s) == Unstarted(s)
f_drawRootText(s) == Unstarted(s)
f_getScreenSize(s) == Unstarted(s)

(* A window the library has no room for is not opened, and nobody is told.  *)
NewWindow == screenpast.opened + 1
f_openWindow(s) ==
    /\ Reaches(s) /\ NewWindow <= MaxWindowIds
    /\ ownwindows' = Append(ownwindows, NewWindow)
    /\ windows' = IF Len(windows) < MAX_WINDOWS THEN Append(windows, NewWindow) ELSE windows
    /\ screenpast' = [opened |-> NewWindow,
                      refused |-> screenpast.refused \/ Len(windows) = MAX_WINDOWS]
    /\ UNCHANGED <<terminal, helplines, palette, wanted, filters>>
PopsFirst(ws) == Tail(ws)
Pops(ws) == Front(ws)
f_popWindow(s) ==
    /\ Reaches(s) /\ ownwindows # <<>>
    /\ ownwindows' = Front(ownwindows)
    /\ windows' = IF windows = <<>> THEN <<>> ELSE Pops(windows)
    /\ UNCHANGED <<terminal, helplines, palette, wanted, filters, screenpast>>
f_pushHelpLine(s) ==
    /\ Reaches(s) /\ helplines' = 1
    /\ UNCHANGED <<terminal, windows, ownwindows, palette, wanted, filters, screenpast>>
f_popHelpLine(s) ==
    /\ Reaches(s) /\ helplines' = 0
    /\ UNCHANGED <<terminal, windows, ownwindows, palette, wanted, filters, screenpast>>

-----------------------------------------------------------------------------
(* setColors: every part gets a colour, the default one where the script    *)
(* names none; and the default background in any case.                      *)
get_color(named, p) == IF p \in named THEN "asked" ELSE "none"
KeepsColour(p, fg) == [palette[p] EXCEPT !.fg = IF fg = "none" THEN @ ELSE fg]
SET_COLOR(p, fg) == [fg |-> IF fg = "none" THEN Default.fg ELSE fg, bg |-> Default.bg]
f_setColors(s) ==
    /\ Reaches(s)
    /\ \E named \in SUBSET Parts :
          /\ palette' = [p \in Parts |-> SET_COLOR(p, get_color(named, p))]
          /\ wanted' = named
    /\ UNCHANGED <<terminal, windows, ownwindows, helplines, filters, screenpast>>

(* Entry.setFilter, removeFilter.  The library gets the wrapper once.  A    *)
(* filter is taken away only when there is none.                            *)
CalledBefore(called) == called
Called(called) == TRUE
setFilter(f) ==
    /\ Works /\ Len(filters.list) < 2
    /\ filters' = [list |-> Append(filters.list, f), engaged |-> TRUE,
                   called |-> IF filters.engaged THEN filters.called ELSE Called(filters.called)]
    /\ UNCHANGED <<screens, terminal, windows, ownwindows, helplines, palette, wanted,
                   screenpast, screenfaults>>
removeFilter(f) ==
    /\ Works
    /\ filters' = IF filters.list = <<>> THEN [filters EXCEPT !.engaged = FALSE] ELSE filters
    /\ UNCHANGED <<screens, terminal, windows, ownwindows, helplines, palette, wanted,
                   screenpast, screenfaults>>

ScreenNext ==
    \/ \E s \in Screens :
          \/ create(s) \/ f_finished(s) \/ f_suspend(s) \/ f_resume(s)
          \/ f_waitForKey(s) \/ f_drawRootText(s) \/ f_getScreenSize(s)
          \/ f_openWindow(s) \/ f_popWindow(s) \/ f_pushHelpLine(s) \/ f_popHelpLine(s)
          \/ f_setColors(s)
    \/ \E f \in Filters : setFilter(f) \/ removeFilter(f)

ScreenSpec == ScreenInit /\ [][ScreenNext]_screenvars

-----------------------------------------------------------------------------
(* functions.c: the library is used without a terminal only through a       *)
(* Screen that was made before the terminal was finished.                   *)
NewScreensWork == <<"not started", "made">> \notin screenfaults

(* functions.c: the windows of the library are those the script believes to *)
(* be open, unless the library refused one.                                 *)
WindowsAreThoseOpened == screenpast.refused \/ windows = ownwindows

(* functions.c: after setColors the foregrounds are those it was given, and *)
(* the default where it was given none; an earlier call leaves no trace.    *)
ForegroundsAreAsked ==
    \A p \in Parts : palette[p].fg = IF p \in wanted THEN "asked" ELSE "default"

(* Newt.pmod: an Entry that has filters is called for each key.             *)
FiltersAreCalled == filters.list # <<>> => filters.called
=============================================================================
