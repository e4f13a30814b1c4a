------------------------------ MODULE Lookups -------------------------------
(***************************************************************************)
(* Two wrappers of libraries that answer from a database they load:        *)
(* libmagic and GeoIP.  They share nothing.                                *)
(***************************************************************************)
EXTENDS Integers, FiniteSets

(***************************************************************************)
(* The class Magic (Magic/magic_main.c): an object holds a cookie of       *)
(* libmagic, and every query is about the files loaded into it.            *)
(***************************************************************************)
CONSTANTS
    MagicObjs,   \* objects of the class
    MaxCookies   \* bound: cookies the library gives out

VARIABLES
    magicobjs,   \* MAGIC_STORAGE: the cookie of every object, 0 for NULL
    cookies,     \* what the library knows of the cookies it gave out
    magicanswer, \* what the last call answered
    magicfaults

magicvars == <<magicobjs, cookies, magicanswer, magicfaults>>

(* create and open are the same function.                                   *)
init_magic == [alive |-> TRUE, cookie |-> 0]
MagicInit ==
    /\ magicobjs = [o \in MagicObjs |-> init_magic]
    /\ cookies = <<>> /\ magicanswer = "nothing" /\ magicfaults = {}

Cookies == [open : BOOLEAN, loaded : BOOLEAN]
MagicTypeOK ==
    /\ magicobjs \in [MagicObjs -> [alive : BOOLEAN, cookie : 0 .. MaxCookies]]
    /\ \A c \in DOMAIN cookies : cookies[c] \in Cookies /\ c \in 1 .. MaxCookies
    /\ magicanswer \in {"nothing", "error", "raised", "unloaded", "text", "number"}

THIS(o) == magicobjs[o].cookie
MagicWorks(o) == magicfaults = {} /\ magicobjs[o].alive

(* magic_close in the library, of the cookies of a set.                     *)
magic_close(closed) ==
    /\ cookies' = [c \in DOMAIN cookies |->
                       IF c \in closed THEN [cookies[c] EXCEPT !.open = FALSE] ELSE cookies[c]]
    /\ magicfaults' = {"cookie closed twice" : c \in {d \in closed : ~cookies[d].open}}

-----------------------------------------------------------------------------
(* An open cookie is closed first, if the caller does not forbid it.        *)
ClosesNone(o) == {}
Closes(o) == {THIS(o)} \ {0}
f_magic_open(o) ==
    \E forceclose \in BOOLEAN, ok \in BOOLEAN :
        /\ MagicWorks(o)
        /\ IF THIS(o) # 0 /\ ~forceclose
           THEN magicanswer' = "raised" /\ UNCHANGED <<magicobjs, cookies, magicfaults>>
           ELSE LET rest == [c \in DOMAIN cookies |->
                                 IF c \in Closes(o) THEN [cookies[c] EXCEPT !.open = FALSE]
                                 ELSE cookies[c]]
                    new == Cardinality(DOMAIN cookies) + 1
                IN /\ new <= MaxCookies
                   /\ cookies' = IF ok THEN [c \in 1 .. new |->
                                     IF c = new THEN [open |-> TRUE, loaded |-> FALSE]
                                     ELSE rest[c]] ELSE rest
                   /\ magicobjs' = [magicobjs EXCEPT ![o].cookie = IF ok THEN new ELSE 0]
                   /\ magicanswer' = IF ok THEN "nothing" ELSE "raised"
                   /\ magicfaults' = {"cookie closed twice" :
                                          c \in {d \in Closes(o) : ~cookies[d].open}}

(* The pointer is cleared with the cookie.                                  *)
ClearedNever(p) == p
Cleared(p) == [p EXCEPT !.cookie = 0]
f_magic_close(o) ==
    /\ MagicWorks(o) /\ magic_close(Closes(o))
    /\ magicobjs' = [magicobjs EXCEPT ![o] = Cleared(magicobjs[o])]
    /\ magicanswer' = "nothing"

exit_magic(o) ==
    /\ MagicWorks(o) /\ magic_close(Closes(o))
    /\ magicobjs' = [magicobjs EXCEPT ![o] = [alive |-> FALSE, cookie |-> 0]]
    /\ magicanswer' = "nothing"

(* What every query starts with.                                            *)
HasCookie(o) == THIS(o) # 0
Asks(o, closed, answers) ==
    /\ MagicWorks(o) /\ UNCHANGED magicobjs
    /\ IF HasCookie(o)
       THEN /\ magicfaults' = {"query of a closed cookie" :
                                   c \in {d \in {THIS(o)} : ~cookies[d].open}}
            /\ magicanswer' \in answers /\ UNCHANGED cookies
       ELSE magicanswer' = closed /\ UNCHANGED <<cookies, magicfaults>>

(* error pushes nothing at all when the object has no cookie.               *)
f_magic_error(o) == Asks(o, "nothing", {"text", "number"})
f_magic_errno(o) == Asks(o, "error", {"number"})
Loaded(o) == THIS(o) # 0 /\ cookies[THIS(o)].loaded
f_magic_file(o) == Asks(o, "error", IF Loaded(o) THEN {"text", "error"} ELSE {"unloaded"})
f_magic_buffer(o) == Asks(o, "error", IF Loaded(o) THEN {"text", "error"} ELSE {"unloaded"})
f_magic_setflags(o) == Asks(o, "error", {"number"})
f_magic_check(o) == Asks(o, "error", {"number", "error"})
f_magic_compile(o) == Asks(o, "error", {"number", "error"})
f_magic_load(o) ==
    \/ /\ MagicWorks(o) /\ HasCookie(o) /\ cookies[THIS(o)].open
       /\ cookies' = [cookies EXCEPT ![THIS(o)].loaded = TRUE]
       /\ magicanswer' = "number" /\ UNCHANGED <<magicobjs, magicfaults>>
    \/ Asks(o, "error", {"error"})

MagicNext ==
    \E o \in MagicObjs :
        \/ f_magic_open(o) \/ f_magic_close(o) \/ exit_magic(o)
        \/ f_magic_error(o) \/ f_magic_errno(o) \/ f_magic_file(o) \/ f_magic_buffer(o)
        \/ f_magic_setflags(o) \/ f_magic_check(o) \/ f_magic_compile(o) \/ f_magic_load(o)

MagicSpec == MagicInit /\ [][MagicNext]_magicvars

-----------------------------------------------------------------------------
(* magic_main.c:148: the cookies open in the library are those objects      *)
(* hold, one each: none is lost when an object is opened again, closed or   *)
(* destructed, and none is closed while an object still asks it.            *)
CookiesAccounted ==
    /\ {c \in DOMAIN cookies : cookies[c].open} = {THIS(o) : o \in MagicObjs} \ {0}
    /\ \A o, p \in MagicObjs : THIS(o) = THIS(p) /\ o # p => THIS(o) = 0

(* magic_main.c:171: no cookie is used or closed after it was closed.       *)
CookiesUsedOpen == magicfaults = {}

-----------------------------------------------------------------------------
(***************************************************************************)
(* The class Lookup (GeoIP/geoip_main.c): an object opens the database     *)
(* once and asks it about addresses and about host names, which the        *)
(* library resolves.  An argument is a string of the script; popping it    *)
(* from the stack frees it unless somebody else has it.                    *)
(***************************************************************************)
CONSTANTS
    GeoObjs,      \* objects of the class
    Countries,    \* the countries of the database
    MaxDatabases  \* bound: databases opened

VARIABLES
    geoobjs,      \* geoip_storage: is the object alive, has it a database
    databases,    \* databases the library has open
    opened,       \* databases opened so far
    geoanswer,    \* what the last call was asked and answered
    geofaults

geovars == <<geoobjs, databases, opened, geoanswer, geofaults>>

init_geoip == [alive |-> TRUE, gi |-> FALSE]
Quiet == [asked |-> "nothing", of |-> {}, answer |-> {}]
GeoInit ==
    /\ geoobjs = [o \in GeoObjs |-> init_geoip]
    /\ databases = 0 /\ opened = 0
    /\ geoanswer = Quiet /\ geofaults = {}

(* An argument: an address or a host, of a country or of none; a host does  *)
(* not read as an address.                                                  *)
Args == [kind : {"addr", "name"}, country : SUBSET Countries, shared : BOOLEAN]
OneCountry == {a \in Args : Cardinality(a.country) <= 1}

GeoTypeOK ==
    /\ geoobjs \in [GeoObjs -> [alive : BOOLEAN, gi : BOOLEAN]]
    /\ databases \in 0 .. MaxDatabases /\ opened \in 0 .. MaxDatabases
    /\ geoanswer.of \subseteq Countries /\ geoanswer.answer \subseteq Countries \cup {"error"}

GeoWorks(o) == geofaults = {} /\ geoobjs[o].alive

-----------------------------------------------------------------------------
(* create is refused when the object has a database; the library may fail.  *)
MayCreateAgain(o) == TRUE
MayCreate(o) == ~geoobjs[o].gi
f_geoip_create(o) ==
    \E ok \in BOOLEAN :
        /\ GeoWorks(o) /\ opened < MaxDatabases
        /\ geoanswer' = Quiet /\ UNCHANGED geofaults
        /\ IF MayCreate(o) /\ ok
           THEN /\ geoobjs' = [geoobjs EXCEPT ![o].gi = TRUE]
                /\ databases' = databases + 1 /\ opened' = opened + 1
           ELSE UNCHANGED <<geoobjs, databases, opened>>

exit_geoip(o) ==
    /\ GeoWorks(o) /\ geoobjs' = [geoobjs EXCEPT ![o] = [alive |-> FALSE, gi |-> FALSE]]
    /\ databases' = IF geoobjs[o].gi THEN databases - 1 ELSE databases
    /\ geoanswer' = Quiet /\ UNCHANGED <<opened, geofaults>>

(* Functions of the library: of what a host or an address is the country.   *)
GeoIP_by_addr(a) == IF a.kind = "addr" THEN a.country ELSE {}
GeoIP_by_name(a) == a.country
Found(kind, a) == IF kind = "addr" THEN GeoIP_by_addr(a) ELSE GeoIP_by_name(a)

Refused(o, what, a) ==
    /\ ~geoobjs[o].gi
    /\ geoanswer' = [asked |-> what, of |-> a.country, answer |-> {"error"}]
    /\ UNCHANGED <<geoobjs, databases, opened, geofaults>>
Answered(what, a, answer) ==
    /\ geoanswer' = [asked |-> what, of |-> a.country, answer |-> answer]
    /\ UNCHANGED <<geoobjs, databases, opened, geofaults>>

ByNameOnly == {"CODE_BY_NAME"}
ByName == {"CODE_BY_NAME", "CODE3_BY_NAME", "NAME_BY_NAME"}
do_lookup(which, a) == IF which \in ByName THEN GeoIP_by_name(a) ELSE GeoIP_by_addr(a)

(* What the six string lookups do; an argument is of the kind its name says.*)
Looks(o, which, kind) ==
    \E a \in OneCountry :
        /\ GeoWorks(o) /\ a.kind = kind
        /\ Refused(o, which, a) \/ (geoobjs[o].gi /\ Answered(which, a, do_lookup(which, a)))
f_geoip_codebyaddr(o) == Looks(o, "CODE_BY_ADDR", "addr")
f_geoip_codebyname(o) == Looks(o, "CODE_BY_NAME", "name")
f_geoip_code3byaddr(o) == Looks(o, "CODE3_BY_ADDR", "addr")
f_geoip_code3byname(o) == Looks(o, "CODE3_BY_NAME", "name")
f_geoip_namebyaddr(o) == Looks(o, "NAME_BY_ADDR", "addr")
f_geoip_namebyname(o) == Looks(o, "NAME_BY_NAME", "name")

Ids(o, which, kind) ==
    \E a \in OneCountry :
        /\ GeoWorks(o) /\ a.kind = kind
        /\ Refused(o, which, a) \/ (geoobjs[o].gi /\ Answered(which, a, Found(kind, a)))
f_geoip_idbyaddr(o) == Ids(o, "ID_BY_ADDR", "addr")
f_geoip_idbyname(o) == Ids(o, "ID_BY_NAME", "name")

(* Both regions are asked by address, after the argument was popped; the    *)
(* record the library makes is deleted before the function returns.         *)
do_region(o, what, a) ==
    /\ UNCHANGED <<geoobjs, databases, opened>>
    /\ IF ~a.shared
       THEN /\ geofaults' = {"freed argument"}
            /\ geoanswer' = [Quiet EXCEPT !.asked = what]
       ELSE /\ geoanswer' = [asked |-> what, of |-> a.country, answer |-> GeoIP_by_addr(a)]
            /\ UNCHANGED geofaults
Region(o, what, kind) ==
    \E a \in OneCountry :
        /\ GeoWorks(o) /\ a.kind = kind
        /\ Refused(o, what, a) \/ (geoobjs[o].gi /\ do_region(o, what, a))
f_geoip_regionbyaddr(o) == Region(o, "REGION_BY_ADDR", "addr")
f_geoip_regionbyname(o) == Region(o, "REGION_BY_NAME", "name")

GeoNext ==
    \E o \in GeoObjs :
        \/ f_geoip_create(o) \/ exit_geoip(o)
        \/ f_geoip_codebyaddr(o) \/ f_geoip_codebyname(o) \/ f_geoip_code3byaddr(o)
        \/ f_geoip_code3byname(o) \/ f_geoip_namebyaddr(o) \/ f_geoip_namebyname(o)
        \/ f_geoip_idbyaddr(o) \/ f_geoip_idbyname(o)
        \/ f_geoip_regionbyaddr(o) \/ f_geoip_regionbyname(o)

GeoSpec == GeoInit /\ [][GeoNext]_geovars

-----------------------------------------------------------------------------
(* geoip_main.c:147: an answer is about the country of what was asked; only *)
(* the region of a host is looked for as if its name were an address.       *)
AnswersAreOfTheArgument ==
    geoanswer.asked # "nothing" /\ geoanswer.answer # {"error"} /\ geofaults = {} =>
        \/ geoanswer.answer = geoanswer.of
        \/ geoanswer.asked = "REGION_BY_NAME" /\ geoanswer.answer = {}

(* geoip_main.c:122: the library has as many databases open as objects      *)
(* have.                                                                    *)
DatabasesAccounted ==
    databases = Cardinality({o \in GeoObjs : geoobjs[o].gi})
=============================================================================
