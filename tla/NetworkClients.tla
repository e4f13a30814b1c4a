--------------------------- MODULE NetworkClients ---------------------------
(***************************************************************************)
(* Two classes that talk to the network, each with a specification.        *)
(*                                                                         *)
(* MultiCastUDP (mcast/mcast.c) is a UDP object of Pike that joins and     *)
(* leaves groups at the interface that was set last.  The descriptor and   *)
(* the errno are those of the inherited object.                            *)
(*                                                                         *)
(* Esmtp (_esmtp/esmtp_main.c) has a table of sessions of libesmtp, which  *)
(* a script knows by their number.  The table is grown by bytes although   *)
(* it holds pointers, and destroy_session keeps the answer of the library  *)
(* in the variable that was the number.                                    *)
(***************************************************************************)
EXTENDS Integers, Sequences, FiniteSets

CONSTANTS
    McObjs,          \* objects of MultiCastUDP
    Groups,          \* addresses of groups
    Interfaces,      \* addresses of interfaces
    DefaultIf,       \* the one the system takes for INADDR_ANY
    MaxBinds,        \* bound: sockets an object binds
    EsmtpObjs,       \* objects of Esmtp
    PointerSize,     \* bytes of a pointer
    MaxMadeSessions  \* bound: sessions made by an object

VARIABLES
    mcobjs,       \* if_addr, fd and my_errno of each object
    memberships,  \* of each object, the groups its socket is in, and where
    mcanswer,     \* the last call: of which object, what, and did it raise
    esmtps,       \* ESMTP_STORAGE of each object; made and asked: history
    smtpsessions, \* sessions the library has, of each object
    esmtpfaults

-----------------------------------------------------------------------------
(* Multicast.                                                               *)

mcvars == <<mcobjs, memberships, mcanswer>>

Any == "INADDR_ANY"
init_mcast == [if_addr |-> Any, fd |-> -1, my_errno |-> "none", binds |-> 0]
Quiet == [call |-> "none", group |-> "none", obj |-> "none", raised |-> FALSE]
McastInit ==
    /\ mcobjs = [o \in McObjs |-> init_mcast]
    /\ memberships = [o \in McObjs |-> {}] /\ mcanswer = Quiet

McastTypeOK ==
    /\ \A o \in McObjs :
           /\ mcobjs[o].if_addr \in Interfaces \cup {Any} /\ mcobjs[o].fd \in {-1, 0}
           /\ mcobjs[o].my_errno \in {"none", "EBADF", "EADDRINUSE", "EADDRNOTAVAIL"}
           /\ memberships[o] \subseteq Groups \X Interfaces
    /\ mcanswer.raised \in BOOLEAN

Says(o, what, g, raises) ==
    mcanswer' = [call |-> what, group |-> g, obj |-> o, raised |-> raises]

-----------------------------------------------------------------------------
(* The inherited bind and close: a socket that is closed leaves its groups. *)
bind(o) ==
    /\ mcobjs[o].binds < MaxBinds /\ mcanswer' = Quiet
    /\ mcobjs' = [mcobjs EXCEPT ![o].fd = 0, ![o].binds = @ + 1]
    /\ memberships' = [memberships EXCEPT ![o] = {}]
close(o) ==
    /\ mcobjs' = [mcobjs EXCEPT ![o].fd = -1] /\ mcanswer' = Quiet
    /\ memberships' = [memberships EXCEPT ![o] = {}]

(* An option that the system refuses sets my_errno and raises.              *)
Real(if_addr) == IF if_addr = Any THEN DefaultIf ELSE if_addr
setsockopt_fails(o, what, g, errno) ==
    /\ mcobjs' = [mcobjs EXCEPT ![o].my_errno = errno]
    /\ Says(o, what, g, TRUE) /\ UNCHANGED memberships

(* An argument that is no address raises, as a socket that is not bound.    *)
Raises(o, what, g) == Says(o, what, g, TRUE) /\ UNCHANGED <<mcobjs, memberships>>
NoSocket(o) == mcobjs[o].fd < 0
mcast_join(o, g) ==
    LET at == <<g, Real(mcobjs[o].if_addr)>>
    IN IF NoSocket(o) \/ g \notin Groups THEN Raises(o, "join", g)
       ELSE IF at \in memberships[o] THEN setsockopt_fails(o, "join", g, "EADDRINUSE")
       ELSE /\ memberships' = [memberships EXCEPT ![o] = @ \cup {at}]
            /\ Says(o, "join", g, FALSE) /\ UNCHANGED mcobjs
mcast_leave(o, g) ==
    LET at == <<g, Real(mcobjs[o].if_addr)>>
    IN IF NoSocket(o) \/ g \notin Groups THEN Raises(o, "leave", g)
       ELSE IF at \notin memberships[o] THEN setsockopt_fails(o, "leave", g, "EADDRNOTAVAIL")
       ELSE /\ memberships' = [memberships EXCEPT ![o] = @ \ {at}]
            /\ Says(o, "leave", g, FALSE) /\ UNCHANGED mcobjs

(* The other options do not look whether there is a socket: the system does.*)
set_option(o, what) ==
    IF NoSocket(o) THEN setsockopt_fails(o, what, "none", "EBADF")
    ELSE Says(o, what, "none", FALSE) /\ UNCHANGED <<mcobjs, memberships>>
mcast_setTTL(o) == set_option(o, "setTTL")
mcast_loopback(o) == set_option(o, "setLoopback")

(* The interface is remembered; groups joined before stay where they are.   *)
ChangesIf(o, ifaddr) == [mcobjs EXCEPT ![o].if_addr = ifaddr]
mcast_setif(o, ifaddr) ==
    IF ifaddr \notin Interfaces THEN Raises(o, "setInterface", "none")
    ELSE /\ mcobjs' = ChangesIf(o, ifaddr)
         /\ Says(o, "setInterface", "none", FALSE) /\ UNCHANGED memberships

McastNext ==
    \E o \in McObjs :
        \/ bind(o) \/ close(o) \/ mcast_setTTL(o) \/ mcast_loopback(o)
        \/ \E g \in Groups \cup {"none"} : mcast_join(o, g) \/ mcast_leave(o, g)
        \/ \E ifaddr \in Interfaces \cup {"none"} : mcast_setif(o, ifaddr)

McastSpec == McastInit /\ [][McastNext]_mcvars

-----------------------------------------------------------------------------
(* mcast.c:58: a socket is in the groups that were joined, at the interface *)
(* of the time, and not left with the same interface set: leave succeeds    *)
(* only when the group is then gone, join only when it is there, and an     *)
(* object without a socket is in no group.                                  *)
MembershipFollowsCalls ==
    /\ \A o \in McObjs : NoSocket(o) => memberships[o] = {}
    /\ LET a == mcanswer
       IN a.call \in {"join", "leave"} /\ ~a.raised =>
              (<<a.group, Real(mcobjs[a.obj].if_addr)>> \in memberships[a.obj] <=> a.call = "join")

(* mcast.c:96: when a leave raises for a group the socket is in, it is in   *)
(* it at another interface than the one set now.                            *)
LeaveFailsElsewhere ==
    LET a == mcanswer
    IN a.call = "leave" /\ a.raised =>
           \A m \in memberships[a.obj] : m[1] = a.group => m[2] # Real(mcobjs[a.obj].if_addr)

-----------------------------------------------------------------------------
(* Sessions of mail.                                                        *)

esmtpvars == <<esmtps, smtpsessions, esmtpfaults>>

(* An object that was initialised has no table, which has no size.          *)
init_esmtp ==
    [alive |-> TRUE, table |-> FALSE, slot |-> "unset", nsessions |-> 0, sessionsize |-> 0,
     made |-> 0, asked |-> {}]
EsmtpInit ==
    /\ esmtps = [o \in EsmtpObjs |-> init_esmtp]
    /\ smtpsessions = [o \in EsmtpObjs |-> 0] /\ esmtpfaults = {}

EsmtpTypeOK ==
    /\ \A o \in EsmtpObjs :
           /\ esmtps[o].slot \in {"unset", "null", "session"}
           /\ esmtps[o].nsessions \in 0 .. MaxMadeSessions
           /\ esmtps[o].made \in 0 .. MaxMadeSessions
    /\ smtpsessions \in [EsmtpObjs -> 0 .. MaxMadeSessions]

Works(o) == esmtpfaults = {} /\ esmtps[o].alive
Fault(o, what) == esmtpfaults' = {<<o, what>>}

-----------------------------------------------------------------------------
(* The size of the table counts slots when it is made and bytes from then   *)
(* on: slot n of the table lies in it if it is the first of a new table.    *)
BytesOfTable(o) == IF esmtps[o].table THEN 2 * esmtps[o].sessionsize ELSE PointerSize
Fits(o) == PointerSize * (esmtps[o].nsessions + 1) <= BytesOfTable(o)
f_smtp_create_session(o) ==
    /\ Works(o) /\ esmtps[o].made < MaxMadeSessions
    /\ IF ~Fits(o)
       THEN Fault(o, "past the table") /\ UNCHANGED smtpsessions
            /\ esmtps' = [esmtps EXCEPT ![o].made = @ + 1]
       ELSE /\ UNCHANGED esmtpfaults
            /\ \E ok \in BOOLEAN :
                /\ esmtps' = [esmtps EXCEPT ![o] =
                       [@ EXCEPT !.table = TRUE, !.made = @ + 1,
                           !.slot = IF ok THEN "session" ELSE "null",
                           !.nsessions = IF ok THEN @ + 1 ELSE @,
                           !.sessionsize = IF esmtps[o].table THEN 2 * @ ELSE 1]]
                /\ smtpsessions' = [smtpsessions EXCEPT ![o] = IF ok THEN @ + 1 ELSE @]

(* A number that is too large is refused, as one below zero is; the library *)
(* says whether it destroyed the session, and the entry cleared is the one  *)
(* before the answer.                                                       *)
Refused(o, sidx) == sidx < 0 \/ sidx > esmtps[o].nsessions
f_smtp_destroy_session(o) ==
    \E sidx \in -1 .. 2, done \in BOOLEAN :
        /\ Works(o)
        /\ esmtps' = [esmtps EXCEPT ![o] =
               IF Refused(o, sidx) \/ sidx = 0 THEN [@ EXCEPT !.asked = @ \cup {sidx}]
               ELSE [@ EXCEPT !.nsessions = @ - 1, !.asked = @ \cup {sidx},
                              !.slot = IF done THEN "null" ELSE @]]
        /\ IF Refused(o, sidx) THEN UNCHANGED <<smtpsessions, esmtpfaults>>
           ELSE IF sidx = 0 THEN Fault(o, "before the table") /\ UNCHANGED smtpsessions
           ELSE IF done
                THEN /\ smtpsessions' = [smtpsessions EXCEPT ![o] = @ - 1]
                     /\ UNCHANGED esmtpfaults
                ELSE Fault(o, "answer as number") /\ UNCHANGED smtpsessions

(* The object dies: the first nsessions entries are destroyed.              *)
Ends(o) == 1 .. esmtps[o].nsessions
exit_esmtp(o) ==
    /\ Works(o) /\ UNCHANGED esmtpfaults
    /\ esmtps' = [esmtps EXCEPT ![o] =
           [@ EXCEPT !.alive = FALSE, !.table = FALSE, !.nsessions = 0, !.sessionsize = 0]]
    /\ smtpsessions' = [smtpsessions EXCEPT ![o] = @ - Cardinality(Ends(o))]

EsmtpNext ==
    \E o \in EsmtpObjs :
        f_smtp_create_session(o) \/ f_smtp_destroy_session(o) \/ exit_esmtp(o)

EsmtpSpec == EsmtpInit /\ [][EsmtpNext]_esmtpvars

-----------------------------------------------------------------------------
(* esmtp_main.c:153: an object that makes one session, and never destroys   *)
(* number 0, touches no memory but its table, unless the library could not  *)
(* destroy the session.                                                     *)
OneSessionIsSafe ==
    \A f \in esmtpfaults :
        \/ esmtps[f[1]].made > 1
        \/ 0 \in esmtps[f[1]].asked
        \/ f[2] = "answer as number"

(* esmtp_main.c:226: the sessions of the library are those the tables count,*)
(* and none is left when the object is dead.                                *)
SessionsOfTables ==
    esmtpfaults = {} => \A o \in EsmtpObjs : smtpsessions[o] = esmtps[o].nsessions
=============================================================================
