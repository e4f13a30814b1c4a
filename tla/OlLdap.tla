------------------------------- MODULE OlLdap -------------------------------
(***************************************************************************)
(* OpenLDAP.Client and OpenLDAP.Client.Result: one client, the results of  *)
(* its searches and the strings a script passes                            *)
(* (src/OpenLDAP/ol_ldap.c, ol_result.c).  The LDAP library and the server *)
(* are external.  No call releases the interpreter lock: a call is a step. *)
(***************************************************************************)
EXTENDS Integers

CONSTANTS
    Results,      \* Result objects
    Strings,      \* DNs and filters: strings of the script
    MaxEntries,   \* bound: entries in the answer to a search
    Null

VARIABLES
    client,       \* OLSTORAGE, and `cached`: the library keeps a cache
    result,       \* OLRSTORAGE of each result, Blank when there is none
    walked,       \* entries each result was moved past since its first one
    kept,         \* strings the script keeps a reference to
    directory,    \* the attribute modified has the value in question
    request,      \* the modification last asked for, and the one sent
    olpast,       \* "disabled": disable_cache was called with a cache;
                  \* "unbound": unbind closed the connection
    ldapfaults        \* what went wrong

olvars == <<client, result, walked, kept, directory, request, olpast, ldapfaults>>

Blank == [conn |-> FALSE, msg |-> 0, cur |-> Null]
Ops == {"add", "delete", "replace"}

Init ==
    /\ client = [conn |-> "none", bound |-> FALSE, caching |-> FALSE,
                 cached |-> FALSE, basedn |-> "empty_str"]
    /\ result = [r \in Results |-> Blank]
    /\ walked = [r \in Results |-> 0]
    /\ kept = Strings
    /\ directory = FALSE
    /\ request = [asked |-> "none", sent |-> "none"]
    /\ olpast = {}
    /\ ldapfaults = {}

TypeOK ==
    /\ client.conn \in {"none", "open", "closed"}
    /\ client.basedn \in Strings \cup {"empty_str"}
    /\ \A r \in Results : /\ result[r].msg \in 0..MaxEntries
                          /\ result[r].cur \in (1..MaxEntries) \cup {Null}
    /\ olpast \subseteq {"disabled", "unbound"}

Fault(f) == ldapfaults' = ldapfaults \cup {f}
Nothing == UNCHANGED <<client, result, walked, kept, directory, request, olpast>>
Same == Nothing /\ UNCHANGED ldapfaults
Goes(ok, f) == IF ok THEN Same ELSE Nothing /\ Fault(f)

-----------------------------------------------------------------------------
(* A bad URL, or no memory: an error, and the object keeps no connection.   *)
create ==
    /\ client.conn = "none"
    /\ client' \in {client, [client EXCEPT !.conn = "open"]}
    /\ UNCHANGED <<result, walked, kept, directory, request, olpast, ldapfaults>>

(* The handle is tested for NULL, not for having been closed.               *)
bind ==
    /\ client.conn # "none"
    /\ IF client.conn = "closed" THEN Nothing /\ Fault("bind")
       ELSE /\ \E ok \in BOOLEAN : client' = [client EXCEPT !.bound = ok]
            /\ UNCHANGED <<result, walked, kept, directory, request, olpast,
                           ldapfaults>>

(* ldap_unbind_s closes the connection and frees the handle, which is kept. *)
ClosedOnly(c) == [c EXCEPT !.conn = "closed", !.cached = FALSE]
Unbound(c) ==
    [c EXCEPT !.conn = "closed", !.bound = FALSE, !.cached = FALSE]
unbind ==
    IF ~client.bound THEN Same
    ELSE /\ client' = Unbound(client)
         /\ olpast' = olpast \cup {"unbound"}
         /\ UNCHANGED <<result, walked, kept, directory, request, ldapfaults>>

(* What every operation of a bound client may do with its connection.       *)
Connected(Op) ==
    /\ client.bound
    /\ IF client.conn = "closed" THEN Nothing /\ Fault("client") ELSE Op

SetOnEveryAnswer(ok) == TRUE
SetOnSuccess(ok) == ok
enable_cache ==
    IF client.caching THEN client.bound /\ Same
    ELSE Connected(
         /\ \E ok \in BOOLEAN :
               client' = [client EXCEPT !.caching = SetOnSuccess(ok),
                                       !.cached = ok]
         /\ UNCHANGED <<result, walked, kept, directory, request, olpast, ldapfaults>>)

(* The flag stays set.                                                      *)
disable_cache ==
    IF ~client.caching THEN client.bound /\ Same
    ELSE Connected(
         /\ client' = [client EXCEPT !.cached = FALSE]
         /\ olpast' = olpast \cup {"disabled"}
         /\ UNCHANGED <<result, walked, kept, directory, request, ldapfaults>>)
destroy_cache ==
    IF ~client.caching THEN client.bound /\ Same
    ELSE Connected(
         /\ client' = [client EXCEPT !.cached = FALSE]
         /\ olpast' = olpast \cup {"disabled"}
         /\ UNCHANGED <<result, walked, kept, directory, request, ldapfaults>>)
flush_cache == IF client.caching THEN Connected(Same) ELSE client.bound /\ Same
uncache_entry == flush_cache
set_cache_options == Connected(Same)

-----------------------------------------------------------------------------
(* The argument is popped before it is read: it must be a string the script *)
(* keeps.                                                                   *)
dn2ufn(s) == Goes(s \in kept, "string")
(* The parts are counted from a number that was never set.                  *)
explode_dn(s) ==
    \E start \in {0, 1} : Goes(s \in kept /\ start = 0, "string")

(* The new base is stored and its reference popped; the old one is returned *)
(* as if this object had held a reference to it.                            *)
set_base_dn(s) ==
    /\ client' = [client EXCEPT !.basedn = s]
    /\ UNCHANGED <<result, walked, kept, directory, request, olpast, ldapfaults>>

Forget(s) ==    \* the script gives its reference to a string up
    /\ kept' = kept \ {s}
    /\ UNCHANGED <<client, result, walked, directory, request, olpast, ldapfaults>>

(* Result.create: the first entry and the number of entries.                *)
Found(r, n) ==
    /\ result' = [result EXCEPT ![r] = [conn |-> TRUE, msg |-> n,
                                        cur |-> IF n = 0 THEN Null ELSE 1]]
    /\ walked' = [walked EXCEPT ![r] = 0]

search(r, ownbase) ==
    /\ ~result[r].conn
    /\ Connected(
         IF ~ownbase /\ client.basedn \in Strings \ kept
         THEN Nothing /\ Fault("string")
         ELSE \/ Same                    \* the search failed: an error
              \/ /\ \E n \in 0..MaxEntries : Found(r, n)
                 /\ UNCHANGED <<client, kept, directory, request, olpast,
                                ldapfaults>>)

(* mod_op: a name is compared together with its terminating zero byte, so it*)
(* is never equal, and the operation stays 0, which is LDAP_MOD_ADD.        *)
ModOp(op, byname) == IF byname THEN "add" ELSE op

modify(op, byname) == Connected(
    /\ request' = [asked |-> op, sent |-> ModOp(op, byname)]
    /\ directory' = (ModOp(op, byname) # "delete")
    /\ UNCHANGED <<client, result, walked, kept, olpast, ldapfaults>>)
add == Connected(
    /\ ~directory /\ directory' = TRUE
    /\ UNCHANGED <<client, result, walked, kept, request, olpast, ldapfaults>>)
delete == Connected(
    /\ directory /\ directory' = FALSE
    /\ UNCHANGED <<client, result, walked, kept, request, olpast, ldapfaults>>)

-----------------------------------------------------------------------------
(* The reads of a result ask nobody whether the connection is still there;  *)
(* `fetch` ignores its index and reads the entry the cursor is at.          *)
Read(r, Op) ==
    /\ result[r].conn
    /\ IF client.conn = "closed" THEN Nothing /\ Fault("result") ELSE Op
num_entries(r) == result[r].conn /\ Same
get_dn(r) == IF result[r].cur = Null THEN Same ELSE Read(r, Same)
fetch(r) == Read(r, Goes(result[r].cur # Null, "null"))
fetch_all(r) == Read(r, Same)

(* first and next look for the client in the calling object, which must be  *)
(* one: called from another object they read a NULL storage.                *)
first(r) ==
    /\ result[r].conn /\ client.bound
    /\ Read(r, /\ result' = [result EXCEPT ![r].cur =
                               IF result[r].msg = 0 THEN Null ELSE 1]
               /\ walked' = [walked EXCEPT ![r] = 0]
               /\ UNCHANGED <<client, kept, directory, request, olpast, ldapfaults>>)
NextEntryWraps(cur, n) == IF cur = n THEN 1 ELSE cur + 1
NextEntry(cur, n) == IF cur = n THEN Null ELSE cur + 1
next(r) ==
    /\ result[r].conn /\ client.bound
    /\ Read(r, IF result[r].cur = Null THEN Nothing /\ Fault("null")
               ELSE /\ result' = [result EXCEPT ![r].cur =
                                    NextEntry(@, result[r].msg)]
                    /\ walked' = [walked EXCEPT ![r] = @ + 1]
                    /\ UNCHANGED <<client, kept, directory, request, olpast,
                                   ldapfaults>>)
foreign(r) == result[r].conn /\ Nothing /\ Fault("caller")

(* exit_result frees the message and the entry the cursor is at: the first  *)
(* entry is the message.                                                    *)
exit_result(r) ==
    /\ result[r].conn
    /\ result' = [result EXCEPT ![r] = Blank]
    /\ walked' = [walked EXCEPT ![r] = 0]
    /\ ldapfaults' = IF result[r].cur = 1 THEN ldapfaults \cup {"twice"} ELSE ldapfaults
    /\ UNCHANGED <<client, kept, directory, request, olpast>>

OnResult(r) ==
    \/ (\E ownbase \in BOOLEAN : search(r, ownbase))
    \/ num_entries(r) \/ get_dn(r) \/ fetch(r) \/ fetch_all(r)
    \/ first(r) \/ next(r) \/ foreign(r) \/ exit_result(r)
OnCache ==
    \/ enable_cache \/ disable_cache \/ destroy_cache \/ flush_cache
    \/ uncache_entry \/ set_cache_options

(* Nothing is said about what follows a call that went wrong.               *)
Next ==
    /\ ldapfaults = {}
    /\ \/ create \/ bind \/ unbind \/ add \/ delete \/ OnCache
       \/ \E op \in Ops, byname \in BOOLEAN : modify(op, byname)
       \/ \E s \in Strings : \/ dn2ufn(s) \/ explode_dn(s)
                             \/ set_base_dn(s) \/ Forget(s)
       \/ \E r \in Results : OnResult(r)

Spec == Init /\ [][Next]_olvars

-----------------------------------------------------------------------------
(* A client never works on a connection that unbind has closed: only bind,  *)
(* which does not ask, and the results of earlier searches do.              *)
ClientAsksBeforeUse ==
    /\ "client" \notin ldapfaults
    /\ {"bind", "result"} \cap ldapfaults # {} => "unbound" \in olpast

(* The flag says that the library keeps a cache, and enable_cache enables   *)
(* one, until a cache was switched off or the connection closed: from then  *)
(* on the flag stays set and enable_cache does nothing.                     *)
CachingMeansCache == olpast = {} => client.caching = client.cached

(* Moving through a result visits each entry it counts: as long as next was *)
(* called fewer times than there are entries, the cursor is at the entry    *)
(* with that number and fetch is given an entry.                            *)
WalkVisitsEveryEntry ==
    \A r \in Results : result[r].conn =>
        IF walked[r] < result[r].msg THEN result[r].cur = walked[r] + 1
        ELSE result[r].cur = Null

(* The comment before f_ldap_modify (ol_ldap.c:1044): an operation may be   *)
(* given by its name.                                                       *)
ModifyDoesWhatWasAsked == request.sent = request.asked
=============================================================================
