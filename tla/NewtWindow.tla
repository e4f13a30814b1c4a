----------------------------- MODULE NewtWindow -----------------------------
(***************************************************************************)
(* The older module Newt (Newt/newt.c): the terminal, windows, menus and   *)
(* forms.  A Form keeps a list of its components; runform hands out the    *)
(* values of its entries and destroys the form, not the object.            *)
(***************************************************************************)
EXTENDS Integers, Sequences, SequencesExt

CONSTANTS
    FormObjs,       \* objects of the class Form
    MaxComponents,  \* bound: components of a form
    MaxWindows      \* bound: windows open

VARIABLES
    newt_inited,    \* the flag of the module
    started,        \* the library has the terminal
    stacked,        \* windows of the library, and those the script opened
    formobjs,       \* struct formobj
    menu,           \* what a menu has yet to do
    runform,        \* the form that runs, where, what was collected
    newtpast,       \* what has happened
    windowfaults

newtvars == <<newt_inited, started, stacked, formobjs, menu, runform, newtpast,
              windowfaults>>

NoForm == [obj |-> "none", list |-> <<>>, freed |-> FALSE]
Init ==
    /\ newt_inited = FALSE /\ started = FALSE
    /\ stacked = [library |-> 0, script |-> 0]
    /\ formobjs = [f \in FormObjs |-> NoForm]
    /\ menu = "none"
    /\ runform = [pc |-> "idle", form |-> CHOOSE f \in FormObjs : TRUE, at |-> 0, exit |-> 0,
                  pairs |-> <<>>]
    /\ newtpast = {} /\ windowfaults = {}

Elems == {"label", "button", "entry"}
TypeOK ==
    /\ newt_inited \in BOOLEAN /\ started \in BOOLEAN
    /\ stacked \in [library : 0..(MaxWindows + 1), script : 0..MaxWindows]
    /\ \A f \in FormObjs : /\ formobjs[f].obj \in {"none", "alive", "destroyed"}
                           /\ formobjs[f].list \in Seq(Elems)
    /\ menu \in {"none", "open", "done"}
    /\ runform.pc \in {"idle", "running", "collecting", "answered", "exited"}
    /\ runform.form \in FormObjs
    /\ newtpast \subseteq {"finished", "ran"}

Idle == runform.pc = "idle" /\ menu = "none" /\ windowfaults = {}
Fault(what) ==
    /\ windowfaults' = {what}
    /\ UNCHANGED <<newt_inited, started, stacked, formobjs, menu, runform, newtpast>>

-----------------------------------------------------------------------------
f_init ==
    /\ Idle
    /\ newt_inited' = TRUE /\ started' = TRUE
    /\ UNCHANGED <<stacked, formobjs, menu, runform, newtpast, windowfaults>>
StaysInited == TRUE
ClearsInited == FALSE
f_finished ==
    /\ Idle /\ newt_inited
    /\ IF ~started THEN Fault("finished twice")
       ELSE /\ started' = FALSE /\ newt_inited' = ClearsInited
            /\ stacked' = [library |-> 0, script |-> 0]
            /\ newtpast' = newtpast \cup {"finished"}
            /\ UNCHANGED <<formobjs, menu, runform, windowfaults>>
(* The functions that check the flag: cls, refresh, texts, help lines, the  *)
(* size of the screen, messages, keys and the bell.                         *)
Checked == Idle /\ newt_inited
Calls == Checked /\ ~started /\ Fault("not started")
f_cls == Calls
f_draw_root_text == Calls
f_winmessage == Calls
f_push_help == Calls

f_open_window ==
    /\ Checked /\ started /\ stacked.script < MaxWindows
    /\ stacked' = [library |-> stacked.library + 1, script |-> stacked.script + 1]
    /\ UNCHANGED <<newt_inited, started, formobjs, menu, runform, newtpast, windowfaults>>
f_pop_window ==
    /\ Checked /\ started /\ stacked.script > 0
    /\ stacked' = [library |-> stacked.library - 1, script |-> stacked.script - 1]
    /\ UNCHANGED <<newt_inited, started, formobjs, menu, runform, newtpast, windowfaults>>

(* winmenu and menu: a form and a window of their own.  menu does not look  *)
(* at the flag.                                                             *)
f_menu ==
    /\ Idle
    /\ IF ~started THEN Fault("not started")
       ELSE /\ menu' = "open" /\ stacked' = [stacked EXCEPT !.library = @ + 1]
            /\ UNCHANGED <<newt_inited, started, formobjs, runform, newtpast, windowfaults>>
StaysOpen(n) == n
PopsWindow(n) == n - 1
f_winmenu ==
    /\ menu = "open"
    /\ menu' = "none" /\ stacked' = [stacked EXCEPT !.library = PopsWindow(@)]
    /\ UNCHANGED <<newt_inited, started, formobjs, runform, newtpast, windowfaults>>

-----------------------------------------------------------------------------
f_init_form(f) ==
    /\ Checked /\ started /\ formobjs[f].obj = "none"
    /\ formobjs' = [formobjs EXCEPT ![f].obj = "alive"]
    /\ UNCHANGED <<newt_inited, started, stacked, menu, runform, newtpast, windowfaults>>
store_component(list, e) == Append(list, e)
(* Label, Button, CompactButton, Entry: nobody looks whether the form was   *)
(* run; the list of a form that was is freed memory.                        *)
Adds(f, e) ==
    /\ Idle /\ formobjs[f].obj # "none" /\ Len(formobjs[f].list) < MaxComponents
    /\ IF ~started THEN Fault("not started")
       ELSE IF formobjs[f].freed THEN Fault("list freed")
       ELSE IF formobjs[f].obj = "destroyed" THEN Fault("form destroyed")
       ELSE /\ formobjs' = [formobjs EXCEPT ![f].list = store_component(@, e)]
            /\ UNCHANGED <<newt_inited, started, stacked, menu, runform, newtpast, windowfaults>>
f_label(f) == Adds(f, "label")
f_button(f) == Adds(f, "button")
f_entry(f) == Adds(f, "entry")

(* runform: the user leaves the form with one of its components, or with a  *)
(* key; then the list is walked, and freed on the way.                      *)
f_runform(f) ==
    /\ Idle /\ formobjs[f].obj # "none"
    /\ IF ~started THEN Fault("not started")
       ELSE IF formobjs[f].obj = "destroyed" THEN Fault("form destroyed")
       ELSE /\ runform' = [pc |-> "running", form |-> f, at |-> 0, exit |-> 0, pairs |-> <<>>]
            /\ UNCHANGED <<newt_inited, started, stacked, formobjs, menu, newtpast, windowfaults>>
The == formobjs[runform.form]
KeptForValues(f) == f
newtRunForm ==
    /\ runform.pc = "running"
    /\ formobjs' = [formobjs EXCEPT ![runform.form] = KeptForValues(@)]
    /\ \E e \in 0..Len(The.list) :
          runform' = [runform EXCEPT !.pc = "collecting", !.at = 1, !.exit = e]
    /\ UNCHANGED <<newt_inited, started, stacked, menu, newtpast, windowfaults>>
ExitOrValue(i) ==
    IF i = runform.exit THEN <<<<"exit", i>>>>
    ELSE IF The.list[i] = "entry" THEN <<<<"value", i>>>> ELSE <<>>
Pairs(i) == (IF i = runform.exit THEN <<<<"exit", i>>>> ELSE <<>>)
            \o (IF The.list[i] = "entry" THEN <<<<"value", i>>>> ELSE <<>>)
Collect ==
    /\ runform.pc = "collecting" /\ runform.at <= Len(The.list)
    /\ IF The.obj # "alive" THEN Fault("value of destroyed form")
       ELSE /\ runform' = [runform EXCEPT !.at = @ + 1, !.pairs = @ \o Pairs(runform.at)]
            /\ formobjs' = [formobjs EXCEPT ![runform.form].freed = TRUE]
            /\ UNCHANGED <<newt_inited, started, stacked, menu, newtpast, windowfaults>>
Destroys ==
    /\ runform.pc = "collecting" /\ runform.at > Len(The.list)
    /\ formobjs' = [formobjs EXCEPT ![runform.form].obj = "destroyed"]
    /\ runform' = [runform EXCEPT !.pc = "answered"]
    /\ newtpast' = newtpast \cup {"ran"}
    /\ UNCHANGED <<newt_inited, started, stacked, menu, windowfaults>>
Returns ==
    /\ runform.pc = "answered"
    /\ runform' = [runform EXCEPT !.pc = "idle", !.at = 0, !.exit = 0, !.pairs = <<>>]
    /\ UNCHANGED <<newt_inited, started, stacked, formobjs, menu, newtpast, windowfaults>>

pike_module_exit ==
    /\ Idle
    /\ started' = (started /\ ~newt_inited)
    /\ newt_inited' = FALSE
    /\ runform' = [runform EXCEPT !.pc = "exited"]
    /\ UNCHANGED <<stacked, formobjs, menu, newtpast, windowfaults>>

Next ==
    \/ f_init \/ f_finished \/ f_cls \/ f_draw_root_text \/ f_winmessage \/ f_push_help
    \/ f_open_window \/ f_pop_window \/ f_menu \/ f_winmenu
    \/ \E f \in FormObjs :
          f_init_form(f) \/ f_label(f) \/ f_button(f) \/ f_entry(f) \/ f_runform(f)
    \/ newtRunForm \/ Collect \/ Destroys \/ Returns \/ pike_module_exit

Spec == Init /\ [][Next]_newtvars

-----------------------------------------------------------------------------
(* newt.c: the flag says whether the library has the terminal; so at the    *)
(* end of the program the terminal is given back.                           *)
FlagIsTrue == newt_inited = started
(* newt.c: a form that is destroyed or freed is used only after runform, of *)
(* the same object.                                                         *)
FormsDieByRunning ==
    windowfaults \cap {"form destroyed", "list freed", "value of destroyed form"} # {} =>
       "ran" \in newtpast
(* newt.c: menus take their window away again.                              *)
MenusLeaveNoWindow == menu = "none" => stacked.library = stacked.script
(* newt.c: runform answers the value of each entry once, and the component  *)
(* the user left with.                                                      *)
AnswerIsComplete ==
    runform.pc = "answered" =>
       /\ \A i \in DOMAIN The.list : The.list[i] = "entry" =>
             \E k \in DOMAIN runform.pairs : runform.pairs[k] = <<"value", i>>
       /\ runform.exit # 0 => \E k \in DOMAIN runform.pairs : runform.pairs[k][1] = "exit"
=============================================================================
