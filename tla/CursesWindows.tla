--------------------------- MODULE CursesWindows ----------------------------
(***************************************************************************)
(* The module Curses (Curses/curses.c, window.c, screen.c): init starts a  *)
(* terminal and makes the root window, an object around stdscr; scripts    *)
(* make more windows, and may make objects of the class Screen, which all  *)
(* stand for the terminal of the module.  Deleting a terminal frees its    *)
(* windows.  A step that uses what is freed is the last.                   *)
(***************************************************************************)
EXTENDS Integers, FiniteSets

CONSTANTS
    WindowObjs,    \* objects of the class Window that scripts make
    ScreenObjs,    \* objects of the class Screen that scripts make
    MaxWindowsMade \* bound: windows created

VARIABLES
    curses_inited,
    stdterm,       \* the terminal of the module, 0 for none
    freedterms,    \* terminals that were deleted
    windowobjs,    \* struct window: the terminal of the window, 0 for none
    rootwin,       \* the same for the root window
    screenobjs,    \* struct screen
    libwindows,    \* windows the library has, made so far, no object has
    cursmode,      \* is the terminal in curses mode
    curspast,      \* what has happened
    cursfaults

cursesvars == <<curses_inited, stdterm, freedterms, windowobjs, rootwin, screenobjs,
                libwindows, cursmode, curspast, cursfaults>>

NoWindow == [obj |-> "none", term |-> 0]
Init ==
    /\ curses_inited = FALSE /\ stdterm = 0 /\ freedterms = {}
    /\ windowobjs = [w \in WindowObjs |-> NoWindow] /\ rootwin = NoWindow
    /\ screenobjs = [s \in ScreenObjs |-> NoWindow]
    /\ libwindows = [now |-> 0, made |-> 0, lost |-> 0]
    /\ cursmode = "shell" /\ curspast = {} /\ cursfaults = {}

Struct == [obj : {"none", "alive", "gone"}, term : 0 .. 1]
TypeOK ==
    /\ curses_inited \in BOOLEAN /\ stdterm \in 0 .. 1
    /\ freedterms \subseteq {1}
    /\ windowobjs \in [WindowObjs -> Struct] /\ screenobjs \in [ScreenObjs -> Struct]
    /\ rootwin \in Struct /\ libwindows \in [{"now", "made", "lost"} -> Nat]
    /\ cursmode \in {"shell", "curses", "exited"}
    /\ curspast \subseteq {"second init", "screen gone"}

Works == cursfaults = {} /\ cursmode # "exited"
Fault(what) ==
    /\ cursfaults' = {what}
    /\ UNCHANGED <<curses_inited, stdterm, freedterms, windowobjs, rootwin, screenobjs,
                   libwindows, cursmode>>

-----------------------------------------------------------------------------
(* init deletes the Screen of the module, and then, with the same pointer,  *)
(* the terminal.                                                            *)
f_init ==
    /\ Works
    /\ IF stdterm # 0
       THEN Fault("terminal deleted twice") /\ curspast' = curspast \cup {"second init"}
       ELSE /\ stdterm' = 1 /\ curses_inited' = TRUE /\ cursmode' = "curses"
            /\ rootwin' = [obj |-> "alive", term |-> 1]
            /\ UNCHANGED <<freedterms, windowobjs, screenobjs, libwindows, curspast,
                           cursfaults>>
NewtermFails == Works /\ stdterm = 0 /\ UNCHANGED cursesvars

f_root == Works /\ curses_inited /\ UNCHANGED cursesvars
f_endwin ==
    /\ Works /\ curses_inited
    /\ cursmode' = "shell"
    /\ UNCHANGED <<curses_inited, stdterm, freedterms, windowobjs, rootwin, screenobjs,
                   libwindows, curspast, cursfaults>>
(* Functions of the terminal, which need init only for some: doupdate shows *)
(* what was drawn, in curses mode again.                                    *)
VOID_INT_FN ==
    /\ Works /\ curses_inited
    /\ IF stdterm \in freedterms THEN Fault("terminal freed") /\ UNCHANGED curspast
       ELSE /\ cursmode' = "curses"
            /\ UNCHANGED <<curses_inited, stdterm, freedterms, windowobjs, rootwin,
                           screenobjs, libwindows, curspast, cursfaults>>

-----------------------------------------------------------------------------
(* create with a place and a size; a second create forgets the first window.*)
f_window_create(w) ==
    /\ Works /\ curses_inited /\ libwindows.made < MaxWindowsMade
    /\ windowobjs[w].obj # "gone"
    /\ IF stdterm \in freedterms THEN Fault("terminal freed") /\ UNCHANGED curspast
       ELSE /\ windowobjs' = [windowobjs EXCEPT ![w] = [obj |-> "alive", term |-> stdterm]]
            /\ libwindows' = [now |-> libwindows.now + 1, made |-> libwindows.made + 1,
                              lost |-> libwindows.lost
                                       + (IF windowobjs[w].obj = "alive" THEN 1 ELSE 0)]
            /\ UNCHANGED <<curses_inited, stdterm, freedterms, rootwin, screenobjs, cursmode,
                           curspast, cursfaults>>
(* Positions, options, text, attributes, lines: all go to the window of the *)
(* object.  refresh puts the terminal into curses mode.                     *)
Uses(o) ==
    /\ Works /\ o.obj = "alive"
    /\ IF o.term \in freedterms THEN Fault("window freed") /\ UNCHANGED curspast
       ELSE UNCHANGED cursesvars
getyx(o) == Uses(o)
INT_INT_FN(o) == Uses(o)
addstr(o) == Uses(o)
attrset(o) == Uses(o)
border(o) == Uses(o)
W_VOID_INT_FN(o) == curses_inited /\ Uses(o)
refresh(o) ==
    /\ Works /\ curses_inited /\ o.obj = "alive" /\ o.term \notin freedterms
    /\ cursmode' = "curses"
    /\ UNCHANGED <<curses_inited, stdterm, freedterms, windowobjs, rootwin, screenobjs,
                   libwindows, curspast, cursfaults>>

DeletesStdscr(win) == TRUE
Deletes(win) == win # "stdscr"
ForgetsWindow(n) == n
delwin(n) == n - 1
exit_window_struct(w) ==
    /\ Works /\ windowobjs[w].obj = "alive"
    /\ IF windowobjs[w].term \in freedterms
       THEN Fault("window deleted twice") /\ UNCHANGED curspast
       ELSE /\ windowobjs' = [windowobjs EXCEPT ![w].obj = "gone"]
            /\ libwindows' = [libwindows EXCEPT !.now = delwin(@)]
            /\ UNCHANGED <<curses_inited, stdterm, freedterms, rootwin, screenobjs, cursmode,
                           curspast, cursfaults>>
(* The root window goes when the script destructs what root answers.        *)
exit_root ==
    /\ Works /\ rootwin.obj = "alive"
    /\ rootwin' = [rootwin EXCEPT !.obj = "gone"]
    /\ freedterms' = IF Deletes("stdscr") THEN freedterms \cup {rootwin.term} ELSE freedterms
    /\ UNCHANGED <<curses_inited, stdterm, windowobjs, screenobjs, libwindows, cursmode,
                   curspast, cursfaults>>

-----------------------------------------------------------------------------
init_screen_struct(s) ==
    /\ Works /\ screenobjs[s].obj = "none"
    /\ screenobjs' = [screenobjs EXCEPT ![s] = [obj |-> "alive", term |-> stdterm]]
    /\ UNCHANGED <<curses_inited, stdterm, freedterms, windowobjs, rootwin, libwindows,
                   cursmode, curspast, cursfaults>>
exit_screen_struct(s) ==
    /\ Works /\ screenobjs[s].obj = "alive"
    /\ IF screenobjs[s].term \in freedterms
       THEN Fault("terminal deleted twice") /\ UNCHANGED curspast
       ELSE /\ screenobjs' = [screenobjs EXCEPT ![s].obj = "gone"]
            /\ cursmode' = "shell"
            /\ freedterms' = IF screenobjs[s].term = 0 THEN freedterms
                             ELSE freedterms \cup {screenobjs[s].term}
            /\ curspast' = IF screenobjs[s].term = 0 THEN curspast
                           ELSE curspast \cup {"screen gone"}
            /\ UNCHANGED <<curses_inited, stdterm, windowobjs, rootwin, libwindows, cursfaults>>

pike_module_exit ==
    /\ Works
    /\ IF stdterm # 0 /\ stdterm \in freedterms
       THEN Fault("terminal deleted twice") /\ UNCHANGED curspast
       ELSE /\ cursmode' = "exited"
            /\ UNCHANGED <<curses_inited, stdterm, freedterms, windowobjs, rootwin, screenobjs,
                           libwindows, curspast, cursfaults>>

AllWindows == {rootwin} \cup {windowobjs[w] : w \in WindowObjs}
Next ==
    \/ f_init \/ NewtermFails \/ f_root \/ f_endwin \/ VOID_INT_FN
    \/ \E w \in WindowObjs : f_window_create(w) \/ exit_window_struct(w)
    \/ \E o \in AllWindows :
          \/ getyx(o) \/ INT_INT_FN(o) \/ addstr(o) \/ attrset(o) \/ border(o)
          \/ W_VOID_INT_FN(o) \/ refresh(o)
    \/ exit_root
    \/ \E s \in ScreenObjs : init_screen_struct(s) \/ exit_screen_struct(s)
    \/ pike_module_exit

Spec == Init /\ [][Next]_cursesvars

-----------------------------------------------------------------------------
(* curses.c: a terminal or a window is freed under its objects, or twice,   *)
(* only by a second init or by a Screen of the script.                      *)
OneTerminalIsSafe == cursfaults # {} => curspast # {}
(* window.c: the windows of the library are those of the objects, but for   *)
(* the ones a second create forgot.                                         *)
WindowsAccounted ==
    libwindows.now =
       Cardinality({w \in WindowObjs : windowobjs[w].obj = "alive"}) + libwindows.lost
=============================================================================
