---------------------------- MODULE PikeMaildir -----------------------------
(***************************************************************************)
(* The class Maildir written in Pike (Maildir.pmod/module.pmod).  Several  *)
(* programs have the folder open.  A message is delivered to tmp/, linked  *)
(* to new/, renamed there to tell its size and flags, and listed from      *)
(* cur/; each step is a call of the system, and a rename of a file that is *)
(* gone fails without anybody looking.                                     *)
(***************************************************************************)
EXTENDS Integers, FiniteSets

CONSTANTS
    PikeClients,  \* programs that have the folder open
    PikeMails,    \* messages that are delivered
    MaxPikeCalls  \* bound: calls of a client that change or read the folder

VARIABLES
    piketmp,      \* messages with a file in tmp/
    pikemails,    \* where a message has its file: its directory and its name
    pikeclients,  \* what each client is doing
    pikeknown,    \* the ids each client was told by its last list
    pikehistory   \* delivered, purged, and what crossed

pikevars == <<piketmp, pikemails, pikeclients, pikeknown, pikehistory>>

(* A name is bare as it was created, or has a size and the flags.           *)
Bare == [sized |-> FALSE, flags |-> {}]
Sized(flags) == [sized |-> TRUE, flags |-> flags]
Nowhere == [dir |-> "none", name |-> Bare]
Idle == [pc |-> "idle", msg |-> {}, name |-> Bare, todo |-> {}, call |-> "none"]
Init ==
    /\ piketmp = {} /\ pikemails = [m \in PikeMails |-> Nowhere]
    /\ pikeclients = [c \in PikeClients |-> Idle]
    /\ pikeknown = [c \in PikeClients |-> {}]
    /\ pikehistory = [delivered |-> {}, purged |-> {}, moved |-> {}, crossed |-> {},
                      short |-> {}, flagged |-> [m \in PikeMails |-> "none"], calls |-> 0]

Names == {Bare} \cup {Sized(f) : f \in SUBSET {"T"}}
Places == {"idle", "written", "linked", "renamed", "new_to_cur", "scan", "filter",
           "flags", "mv", "read", "rm"}
TypeOK ==
    /\ piketmp \subseteq PikeMails
    /\ \A m \in PikeMails :
           pikemails[m].dir \in {"none", "new", "cur"} /\ pikemails[m].name \in Names
    /\ \A c \in PikeClients :
           pikeclients[c].pc \in Places /\ pikeclients[c].msg \subseteq PikeMails
    /\ pikeknown \in [PikeClients -> SUBSET PikeMails]

Goes(c, to) == pikeclients' = [pikeclients EXCEPT ![c] = to]
Done(c) == Goes(c, Idle)
At(c, place) == pikeclients[c].pc = place
Its(c) == CHOOSE m \in PikeMails : m \in pikeclients[c].msg
Calls(c) ==
    /\ At(c, "idle") /\ pikehistory.calls < MaxPikeCalls
    /\ pikehistory' = [pikehistory EXCEPT !.calls = @ + 1]
Same == UNCHANGED <<piketmp, pikemails, pikeknown>>

-----------------------------------------------------------------------------
(* deliver: a name that is new in tmp/; what could not be written whole     *)
(* stays there, since the file is removed by a name without its directory.  *)
Fresh(m) == pikemails[m] = Nowhere /\ m \notin piketmp /\ m \notin pikehistory.delivered
deliver(c, m) ==
    /\ At(c, "idle") /\ Fresh(m) /\ piketmp' = piketmp \cup {m}
    /\ UNCHANGED <<pikemails, pikeknown>>
    /\ \/ Goes(c, [Idle EXCEPT !.pc = "written", !.msg = {m}]) /\ UNCHANGED pikehistory
       \/ Done(c) /\ pikehistory' = [pikehistory EXCEPT !.short = @ \cup {m}]
deliver_link(c) ==
    /\ At(c, "written")
    /\ \/ /\ pikemails' = [pikemails EXCEPT ![Its(c)] = [dir |-> "new", name |-> Bare]]
          /\ Goes(c, [pikeclients[c] EXCEPT !.pc = "linked"])
          /\ UNCHANGED <<piketmp, pikeknown, pikehistory>>
       \/ /\ piketmp' = piketmp \ {Its(c)} /\ Done(c)
          /\ UNCHANGED <<pikemails, pikeknown, pikehistory>>
deliver_mv(c) ==
    /\ At(c, "linked") /\ Goes(c, [pikeclients[c] EXCEPT !.pc = "renamed"])
    /\ pikemails' = IF pikemails[Its(c)].dir = "new"
                    THEN [pikemails EXCEPT ![Its(c)].name = Sized({})] ELSE pikemails
    /\ UNCHANGED <<piketmp, pikeknown, pikehistory>>
deliver_rm(c) ==
    /\ At(c, "renamed") /\ Done(c) /\ piketmp' = piketmp \ {Its(c)}
    /\ pikehistory' = [pikehistory EXCEPT !.delivered = @ \cup {Its(c)}]
    /\ UNCHANGED <<pikemails, pikeknown>>

-----------------------------------------------------------------------------
(* list: the names in new/ are read, each file is moved to cur/, then the   *)
(* names in cur/ are read.                                                  *)
In(dir) == {m \in PikeMails : pikemails[m].dir = dir}
Named(m) == [msg |-> m, name |-> pikemails[m].name]
list(c) ==
    /\ Calls(c) /\ Same
    /\ Goes(c, [Idle EXCEPT !.pc = "new_to_cur", !.todo = {Named(m) : m \in In("new")}])
new_to_cur(c) ==
    /\ At(c, "new_to_cur")
    /\ \E e \in pikeclients[c].todo :
        /\ Goes(c, [pikeclients[c] EXCEPT !.todo = @ \ {e}])
        /\ UNCHANGED <<piketmp, pikeknown>>
        /\ IF pikemails[e.msg] = [dir |-> "new", name |-> e.name]
           THEN /\ pikemails' = [pikemails EXCEPT ![e.msg].dir = "cur"]
                /\ pikehistory' = [pikehistory EXCEPT !.moved =
                       IF e.name = Bare THEN @ \cup {e.msg} ELSE @]
           ELSE UNCHANGED <<pikemails, pikehistory>>

(* Without flags the ids are the answer; with flags the file of each id is  *)
(* looked for again: one that is gone, or has a bare name, raises.          *)
list_cur(c) ==
    /\ At(c, "new_to_cur") /\ pikeclients[c].todo = {}
    /\ UNCHANGED <<piketmp, pikemails, pikehistory>>
    /\ \/ Done(c) /\ pikeknown' = [pikeknown EXCEPT ![c] = In("cur")]
       \/ /\ Goes(c, [Idle EXCEPT !.pc = "filter", !.todo = In("cur")])
          /\ pikeknown' = [pikeknown EXCEPT ![c] = {}]
get_filename(m) == IF pikemails[m].dir = "cur" THEN {pikemails[m].name} ELSE {}
get_flags(m) == {n.flags : n \in {k \in get_filename(m) : k.sized}}
list_filter(c) ==
    /\ At(c, "filter") /\ UNCHANGED <<piketmp, pikemails, pikehistory>>
    /\ \/ pikeclients[c].todo = {} /\ Done(c) /\ UNCHANGED pikeknown
       \/ \E m \in pikeclients[c].todo :
             IF get_flags(m) = {} THEN Done(c) /\ UNCHANGED pikeknown
             ELSE /\ Goes(c, [pikeclients[c] EXCEPT !.todo = @ \ {m}])
                  /\ pikeknown' = IF {} \in get_flags(m)
                                  THEN [pikeknown EXCEPT ![c] = @ \cup {m}] ELSE pikeknown

-----------------------------------------------------------------------------
(* set_flags: the file is looked for, looked for again for its flags, and   *)
(* renamed by the first name.  What another client renamed meanwhile is not *)
(* renamed, and the answer is SUCCESS.                                      *)
set_flags(c, m, op) ==
    /\ Calls(c) /\ m \in pikeknown[c] /\ get_filename(m) # {} /\ Same
    /\ Goes(c, [pc |-> "flags", msg |-> {m}, name |-> CHOOSE n \in get_filename(m) : TRUE,
                todo |-> {}, call |-> op])
del_message(c, m) == set_flags(c, m, "+T")
undel_message(c, m) == set_flags(c, m, "-T")
set_flags_read(c) ==
    /\ At(c, "flags") /\ Same /\ UNCHANGED pikehistory
    /\ IF get_flags(Its(c)) = {} THEN Done(c)
       ELSE LET current == CHOOSE f \in get_flags(Its(c)) : TRUE
                wanted == IF pikeclients[c].call = "+T" THEN current \cup {"T"} ELSE current \ {"T"}
            IN Goes(c, [pikeclients[c] EXCEPT !.pc = "mv", !.todo = wanted])
StillNamed(c) == pikemails[Its(c)] = [dir |-> "cur", name |-> pikeclients[c].name]
set_flags_mv(c) ==
    /\ At(c, "mv") /\ Done(c) /\ UNCHANGED <<piketmp, pikeknown>>
    /\ IF StillNamed(c)
       THEN /\ pikemails' = [pikemails EXCEPT ![Its(c)].name = Sized(pikeclients[c].todo)]
            /\ pikehistory' = [pikehistory EXCEPT !.flagged[Its(c)] = pikeclients[c].call]
       ELSE /\ UNCHANGED pikemails
            /\ pikehistory' = [pikehistory EXCEPT !.crossed = @ \cup {Its(c)}]

(* get_message, get_headers and get_message_size: the file may be renamed   *)
(* between the look for its name and the use of it, which raises.           *)
get_message(c, m) ==
    /\ Calls(c) /\ m \in pikeknown[c] /\ get_filename(m) # {} /\ Same
    /\ Goes(c, [Idle EXCEPT !.pc = "read", !.msg = {m},
                            !.name = CHOOSE n \in get_filename(m) : TRUE])
get_message_open(c) ==
    /\ At(c, "read") /\ Done(c) /\ Same /\ UNCHANGED pikehistory

(* purge_trashed removes, by their names, the files whose flags say T.      *)
purge_trashed(c) ==
    /\ Calls(c) /\ Same
    /\ Goes(c, [Idle EXCEPT !.pc = "rm",
                    !.todo = {Named(m) : m \in {k \in In("cur") : "T" \in pikemails[k].name.flags}}])
Removes(e) == pikemails[e.msg] = [dir |-> "cur", name |-> e.name]
purge_rm(c) ==
    /\ At(c, "rm") /\ UNCHANGED <<piketmp, pikeknown>>
    /\ \/ pikeclients[c].todo = {} /\ Done(c) /\ UNCHANGED <<pikemails, pikehistory>>
       \/ \E e \in pikeclients[c].todo :
             /\ Goes(c, [pikeclients[c] EXCEPT !.todo = @ \ {e}])
             /\ IF Removes(e)
                THEN /\ pikemails' = [pikemails EXCEPT ![e.msg] = Nowhere]
                     /\ pikehistory' = [pikehistory EXCEPT !.purged = @ \cup {e.msg}]
                ELSE UNCHANGED <<pikemails, pikehistory>>

Next ==
    \E c \in PikeClients :
        \/ deliver_link(c) \/ deliver_mv(c) \/ deliver_rm(c)
        \/ list(c) \/ new_to_cur(c) \/ list_cur(c) \/ list_filter(c)
        \/ set_flags_read(c) \/ set_flags_mv(c) \/ get_message_open(c)
        \/ purge_trashed(c) \/ purge_rm(c)
        \/ \E m \in PikeMails :
               deliver(c, m) \/ del_message(c, m) \/ undel_message(c, m) \/ get_message(c, m)

Spec == Init /\ [][Next]_pikevars

-----------------------------------------------------------------------------
(* module.pmod:262: a message whose delivery succeeded is in new/ or cur/   *)
(* until a purge removes it, and a purge removes it only while the last     *)
(* change of its flags that took effect was del_message.                    *)
DeliveredStays ==
    /\ \A m \in pikehistory.delivered : pikemails[m] # Nowhere \/ m \in pikehistory.purged
    /\ \A m \in pikehistory.purged : pikehistory.flagged[m] = "+T"

(* module.pmod:299: a message has a name without size, which the other      *)
(* methods cannot read, only when it was listed during its delivery.        *)
SizedUnlessCrossed ==
    \A m \in pikehistory.delivered :
        pikemails[m] # Nowhere /\ pikemails[m].name = Bare => m \in pikehistory.moved

(* module.pmod:169: the flags in a name are those of the last change that   *)
(* took effect; a change that did not, although it answered SUCCESS, had    *)
(* another client rename or remove the file between its two looks.          *)
FlagsAreOfTheLastChange ==
    \A m \in PikeMails :
        pikemails[m].name.sized =>
            (pikehistory.flagged[m] = "+T" <=> "T" \in pikemails[m].name.flags)

(* module.pmod:284: tmp/ keeps a file that no delivery is at work on only   *)
(* when it could not be written whole.                                      *)
TmpIsOfDeliveries ==
    \A m \in piketmp :
        \/ m \in pikehistory.short
        \/ \E c \in PikeClients : m \in pikeclients[c].msg
=============================================================================
