-------------------------------- MODULE GpgMe --------------------------------
(***************************************************************************)
(* gpgme: objects around a context of the GPGME library                    *)
(* (src/gpgme/gpgme_main.c).  A call is followed through the calls of the  *)
(* library it makes, each of which may fail; `owned` is what it has to give*)
(* back, `height` the interpreter stack above what it found there.         *)
(***************************************************************************)
EXTENDS Integers, Sequences, FiniteSets

CONSTANTS
    GpgObjects,    \* gpgme objects
    MaxKeys,       \* bound: keys a listing yields
    MaxArgs        \* bound: arguments of list_keys

VARIABLES
    gpg,           \* GPGME_STRUCT of each object: "none", "ok" or "bad"
                   \* (ev_ok), or "gone"
    programrefs,   \* references to gpgme_program
    gcall,         \* the call under way
    leaked,        \* what calls that are over did not give back
    broken,        \* "thrown", "listing", "nouserid": calls that broke off
    gpgfaults

gpgvars == <<gpg, programrefs, gcall, leaked, broken, gpgfaults>>

NoCall == [fn |-> "none", pc |-> 0, owned |-> {}, height |-> 0, args |-> 0]

(* The module keeps the program in gpgme_program and in a constant.         *)
Init ==
    /\ gpg = [g \in GpgObjects |-> "none"]
    /\ programrefs = 2
    /\ gcall = NoCall
    /\ leaked = {}
    /\ broken = {}
    /\ gpgfaults = {}

TypeOK ==
    /\ gpg \in [GpgObjects -> {"none", "ok", "bad", "gone"}]
    /\ gcall.pc \in 0..7 /\ gcall.height \in (0 - MaxArgs - 1)..(MaxKeys + 1)
    /\ broken \subseteq {"thrown", "listing", "nouserid"}

Idle == gcall = NoCall /\ gpgfaults = {}
Engine(g) == gpg[g] = "ok"      \* CHECK_OK

(* create: no context, an error; a protocol or an engine that is not there, *)
(* an object that refuses to work.                                          *)
create(g) ==
    /\ Idle /\ gpg[g] = "none"
    /\ IF programrefs = 0
       THEN gpgfaults' = {"program"} /\ UNCHANGED <<gpg, programrefs>>
       ELSE /\ \E state \in {"ok", "bad"} : gpg' = [gpg EXCEPT ![g] = state]
            /\ programrefs' = programrefs + 1
            /\ UNCHANGED gpgfaults
    /\ UNCHANGED <<gcall, leaked, broken>>

(* With an argument its value is taken for the place to store it.           *)
createWithProtocol(g) ==
    /\ Idle /\ gpg[g] = "none" /\ gpgfaults' = {"argument"}
    /\ UNCHANGED <<gpg, programrefs, gcall, leaked, broken>>

(* The object gives its own reference to the program up and a second one.   *)
RefsGivenUpThrice == 3
RefsGivenUp == 2
exit_gpgme(g) ==
    /\ Idle /\ gpg[g] \in {"ok", "bad"}
    /\ gpg' = [gpg EXCEPT ![g] = "gone"]
    /\ programrefs' = IF programrefs > RefsGivenUp THEN programrefs - RefsGivenUp
                      ELSE 0
    /\ UNCHANGED <<gcall, leaked, broken, gpgfaults>>

set_protocol(g) ==
    /\ Idle /\ Engine(g)
    /\ \E state \in {"ok", "bad"} : gpg' = [gpg EXCEPT ![g] = state]
    /\ UNCHANGED <<programrefs, gcall, leaked, broken, gpgfaults>>

(* Flags of the context, read and written.                                  *)
Setting(g) == Idle /\ gpg[g] \in {"ok", "bad"} /\ UNCHANGED gpgvars
get_engine_info(g) == Setting(g)
strerror(g) == Setting(g)
set_armor(g) == Setting(g)
get_armor(g) == Setting(g)
set_textmode(g) == Setting(g)
get_textmode(g) == Setting(g)
set_include_certs(g) == Setting(g)
get_include_certs(g) == Setting(g)
set_keylist_mode(g) == Setting(g)
get_keylist_mode(g) == Setting(g)
verify(g) == Setting(g)

-----------------------------------------------------------------------------
(* The library calls of a function, in order: what one that succeeds hands  *)
(* over, and what is released when it fails.  The last step releases all.   *)
Call(takes, releases) == [takes |-> takes, releases |-> releases]
Export ==
    << Call({"recipients"}, {}), Call({}, {"recipients"}),
       Call({"keydata"}, {"recipients"}),
       Call({}, {"recipients", "keydata"}), Call({}, {"recipients", "keydata"}),
       Call({"buf"}, {"recipients", "keydata"}),
       Call({}, {"recipients", "keydata", "buf"}) >>
Import == << Call({"keydata"}, {}), Call({}, {"keydata"}) >>
(* The first two calls are checked together.                                *)
Decrypt ==
    << Call({"cipher", "plain"}, {}), Call({}, {"cipher", "plain"}),
       Call({}, {"cipher", "plain"}), Call({"buf"}, {"cipher", "plain"}),
       Call({}, {"cipher", "plain", "buf"}) >>
(* Keys are not released by anyone.                                         *)
Delete == << Call({}, {}), Call({"key"}, {}), Call({}, {}) >>

StepsOf ==
    [export |-> Export, import |-> Import, decrypt |-> Decrypt, delete |-> Delete]

Begin(g, fn) ==
    /\ Idle /\ Engine(g)
    /\ gcall' = [NoCall EXCEPT !.fn = fn, !.pc = 1]
    /\ UNCHANGED <<gpg, programrefs, leaked, broken, gpgfaults>>
export(g) == Begin(g, "export")
import(g) == Begin(g, "import")
decrypt(g) == Begin(g, "decrypt")
delete(g) == Begin(g, "delete")

InCall == gcall.fn \in DOMAIN StepsOf
Step == StepsOf[gcall.fn][gcall.pc]
Over(left) ==
    /\ gcall' = NoCall
    /\ leaked' = leaked \cup left

Succeed ==
    /\ InCall
    /\ IF gcall.pc = Len(StepsOf[gcall.fn]) THEN Over(gcall.owned \cap {"key"})
       ELSE /\ gcall' = [gcall EXCEPT !.pc = @ + 1,
                                      !.owned = @ \cup Step.takes]
            /\ UNCHANGED leaked
    /\ UNCHANGED <<gpg, programrefs, broken, gpgfaults>>
Fail ==
    /\ InCall /\ ~(gcall.fn = "export" /\ gcall.pc = 2)
    /\ Over(gcall.owned \ Step.releases)
    /\ UNCHANGED <<gpg, programrefs, broken, gpgfaults>>
(* A recipient that is not valid is an error of the script.                 *)
Throw ==
    /\ gcall.fn = "export" /\ gcall.pc = 2
    /\ Over(gcall.owned)
    /\ broken' = broken \cup {"thrown"}
    /\ UNCHANGED <<gpg, programrefs, gpgfaults>>

-----------------------------------------------------------------------------
(* list_keys does not ask for the engine; its arguments are popped first.   *)
list_keys(g, args) ==
    /\ Idle /\ gpg[g] \in {"ok", "bad"}
    /\ gcall' = [NoCall EXCEPT !.fn = "list_keys", !.args = args]
    /\ UNCHANGED <<gpg, programrefs, leaked, broken, gpgfaults>>
Listing == gcall.fn = "list_keys" /\ gpgfaults = {}

(* push_gpgme_key: one mapping; of a key without user ids the mapping takes *)
(* one element more than was pushed.  A key without XML pushes nothing.     *)
push_gpgme_key(pushed) ==
    /\ Listing /\ gcall.pc < MaxKeys
    /\ gcall' = [gcall EXCEPT !.pc = @ + 1, !.height = @ + pushed,
                              !.owned = {"key"}]
    /\ broken' = IF pushed = 0 THEN broken \cup {"nouserid"} ELSE broken
    /\ gpgfaults' = IF pushed = 0 /\ gcall.height = 0 THEN {"stack"} ELSE gpgfaults
    /\ UNCHANGED <<gpg, programrefs, leaked>>
keyWithoutXml ==
    /\ Listing /\ gcall.pc < MaxKeys
    /\ gcall' = [gcall EXCEPT !.pc = @ + 1, !.owned = {"key"}]
    /\ UNCHANGED <<gpg, programrefs, leaked, broken, gpgfaults>>

Done(height) ==     \* the stack the call leaves to its caller
    /\ Over(gcall.owned)
    /\ gpgfaults' = IF height < 0 THEN {"stack"} ELSE gpgfaults
PoppedTwice(height) == height - gcall.args
Popped(height) == height
ListingEnds ==      \* one array of the keys, or 0
    /\ Listing /\ Done(Popped(gcall.height))
    /\ UNCHANGED <<gpg, programrefs, broken>>
ListingFails ==     \* the arguments are popped a second time
    /\ Listing
    /\ broken' = broken \cup {"listing"}
    /\ Done(gcall.height - gcall.args)
    /\ UNCHANGED <<gpg, programrefs>>

Settings(g) ==
    \/ get_engine_info(g) \/ strerror(g) \/ set_armor(g) \/ get_armor(g)
    \/ set_textmode(g) \/ get_textmode(g) \/ set_include_certs(g)
    \/ get_include_certs(g) \/ set_keylist_mode(g) \/ get_keylist_mode(g)
    \/ verify(g)

Next ==
    \/ \E g \in GpgObjects :
          \/ create(g) \/ createWithProtocol(g) \/ exit_gpgme(g)
          \/ set_protocol(g) \/ Settings(g)
          \/ export(g) \/ import(g) \/ decrypt(g) \/ delete(g)
          \/ \E args \in 0..MaxArgs : list_keys(g, args)
    \/ Succeed \/ Fail \/ Throw
    \/ (\E pushed \in {0, 1} : push_gpgme_key(pushed)) \/ keyWithoutXml
    \/ ListingEnds \/ ListingFails

Spec == Init /\ [][Next]_gpgvars

-----------------------------------------------------------------------------
(* Whatever library call fails, a call gives back what the library handed it*)
(* over: recipients, data and buffers.  Only the keys are never released,   *)
(* and an invalid recipient leaves the list of recipients behind.           *)
EveryPathReleases ==
    leaked \subseteq {"key"} \cup (IF "thrown" \in broken THEN {"recipients"} ELSE {})

(* No call leaves the interpreter stack below where it found it, unless a   *)
(* listing of keys failed half way or met a key without user ids.           *)
StackOfCallerUntouched == "stack" \in gpgfaults => broken \cap {"listing", "nouserid"} # {}

(* The program is there until two objects were destroyed: the module itself *)
(* has two references to it, and each object takes one of them along.       *)
ProgramOutlivesObjects ==
    programrefs = 0 => Cardinality({g \in GpgObjects : gpg[g] = "gone"}) >= 2
=============================================================================
