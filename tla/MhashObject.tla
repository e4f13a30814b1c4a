----------------------------- MODULE MhashObject -----------------------------
(***************************************************************************)
(* Mhash.Hash and Mhash.HMAC: one object of either class, and the global   *)
(* functions (src/Mhash/mhash.c, hmac.c, global.c).                        *)
(*                                                                         *)
(* A hash is computed by a context of the library, which digest turns into *)
(* a result.  What is hashed is a sequence of pieces of data.              *)
(***************************************************************************)
EXTENDS Integers, Sequences

CONSTANTS
    HashTypes,     \* types the library knows
    HmacTypes,     \* those it has an HMAC block size for
    HashKeys,      \* keys: strings of the script
    MaxFed,        \* bound: pieces of data fed to one context
    Null

VARIABLES
    mhash,         \* mhash_storage, and the class of the object
    fed,           \* what the script has fed to be digested next
    hashes,        \* the digest last returned, with what had been fed
    mhfaults

mhashvars == <<mhash, fed, hashes, mhfaults>>

(* A context or result: made for a plain hash or an HMAC, of which type,    *)
(* with which key, over which data.                                         *)
NoContext == [lib |-> "none", type |-> Null, key |-> Null, data |-> <<>>]
Context(lib, type, key) == [lib |-> lib, type |-> type, key |-> key, data |-> <<>>]

init_hash_storage ==
    [class |-> "none", type |-> Null, hash |-> NoContext, hmac |-> NoContext,
     res |-> NoContext, pw |-> Null]
Init ==
    /\ mhash = init_hash_storage
    /\ fed = <<>>
    /\ hashes = <<>>
    /\ mhfaults = {}

AnyType == HashTypes \cup {"bad"}
Contexts ==
    [lib : {"none", "hash", "hmac"}, type : HashTypes \cup {Null},
     key : HashKeys \cup {Null}, data : Seq({1})]

TypeOK ==
    /\ mhash \in [class : {"none", "Hash", "HMAC"}, type : AnyType \cup {Null},
                  hash : Contexts, hmac : Contexts, res : Contexts,
                  pw : HashKeys \cup {Null}]
    /\ fed \in Seq({1}) /\ Len(fed) <= MaxFed

NewObject ==
    /\ mhash.class = "none"
    /\ \E class \in {"Hash", "HMAC"} : mhash' = [mhash EXCEPT !.class = class]
    /\ UNCHANGED <<fed, hashes, mhfaults>>
Object(class) == mhash.class = class /\ mhfaults = {}
mhash_failed(what) == mhfaults' = {what} /\ UNCHANGED <<mhash, fed, hashes>>
Raises == UNCHANGED mhashvars

(* Every context and the result are given up.                               *)
KeepsResult(m) == [m EXCEPT !.hash = NoContext, !.hmac = NoContext]
free_hash(m) == [m EXCEPT !.hash = NoContext, !.hmac = NoContext, !.res = NoContext]
mhash_init(type) == IF type \in HashTypes THEN Context("hash", type, Null) ELSE NoContext

-----------------------------------------------------------------------------
(* Mhash.Hash                                                               *)
f_hash_create ==
    /\ Object("Hash")
    /\ IF mhash.type # Null \/ mhash.hash # NoContext \/ mhash.res # NoContext
       THEN UNCHANGED mhash
       ELSE \/ \E type \in AnyType :
                  mhash' = [mhash EXCEPT !.type = type, !.hash = mhash_init(type)]
            \/ UNCHANGED mhash
    /\ UNCHANGED <<fed, hashes, mhfaults>>

(* Without a context, also after a digest, a new one is started.  A feed of *)
(* something else than a string starts it too, then raises.                 *)
Restarted == IF mhash.type = Null THEN mhash
             ELSE [free_hash(mhash) EXCEPT !.hash = mhash_init(mhash.type)]
Fed(m, slot) == [m EXCEPT ![slot].data = Append(@, 1)]
f_hash_feed ==
    /\ Object("Hash")
    /\ LET m == IF mhash.hash = NoContext THEN Restarted ELSE mhash IN
       \/ mhash' = m /\ fed' = m.hash.data
       \/ /\ m.hash # NoContext /\ Len(m.hash.data) < MaxFed
          /\ mhash' = Fed(m, "hash")
          /\ fed' = IF mhash.hash = NoContext THEN <<1>> ELSE Append(fed, 1)
    /\ UNCHANGED <<hashes, mhfaults>>

(* A digest can be asked for again until the next feed.  It has the length  *)
(* that the type of the object says.                                        *)
DigestKeepsContext(slot) ==
    IF mhash.res = NoContext /\ mhash[slot] # NoContext
    THEN [mhash EXCEPT !.res = mhash[slot]] ELSE mhash
get_digest(slot) ==
    IF mhash.res = NoContext /\ mhash[slot] # NoContext
    THEN [mhash EXCEPT !.res = mhash[slot], ![slot] = NoContext]
    ELSE mhash
Digests(slot) ==
    /\ mhash' = get_digest(slot)
    /\ hashes' = IF mhash'.res = NoContext THEN hashes
                 ELSE <<[res |-> mhash'.res, asked |-> fed, type |-> mhash.type]>>
    /\ UNCHANGED <<fed, mhfaults>>
f_hash_digest == Object("Hash") /\ Digests("hash")

f_hash_query_name == mhash.class # "none" /\ mhfaults = {} /\ Raises

f_hash_reset ==
    /\ Object("Hash")
    /\ mhash' = [free_hash(mhash) EXCEPT !.hash = mhash_init(mhash.type)]
    /\ fed' = <<>> /\ UNCHANGED <<hashes, mhfaults>>

(* The number of a type is taken as it is; -1 stands for none.              *)
f_hash_set_type ==
    /\ Object("Hash")
    /\ \E type \in AnyType \cup {Null} :
          mhash' = [free_hash(mhash) EXCEPT !.type = type, !.hash = mhash_init(type)]
    /\ fed' = <<>> /\ UNCHANGED <<hashes, mhfaults>>

-----------------------------------------------------------------------------
(* Mhash.HMAC: a context needs a type and a key.                            *)
HmacState(m) == CASE m.hmac # NoContext -> "live"
                  [] m.hmac = NoContext /\ m.type = Null -> "type"
                  [] m.hmac = NoContext /\ m.type # Null /\ m.pw = Null -> "pass"
                  [] m.hmac = NoContext /\ m.type # Null /\ m.pw # Null
                        /\ m.res # NoContext -> "done"
                  [] OTHER -> IF m.type \in HashTypes THEN "ok" ELSE "fail"
init_hmac(m) ==
    IF HmacState(m) = "ok" THEN [m EXCEPT !.hmac = Context("hmac", m.type, m.pw)] ELSE m

(* With a type, create starts a plain hash.                                 *)
f_hmac_create ==
    /\ Object("HMAC")
    /\ IF mhash.type # Null \/ mhash.hmac # NoContext \/ mhash.res # NoContext
       THEN UNCHANGED mhash
       ELSE \/ \E type \in AnyType :
                  mhash' = [mhash EXCEPT !.type = type, !.hmac = mhash_init(type)]
            \/ UNCHANGED mhash
    /\ UNCHANGED <<fed, hashes, mhfaults>>

(* The key is stored also when the call then raises for a live context.     *)
f_hmac_set_key ==
    /\ Object("HMAC")
    /\ \E key \in HashKeys : mhash' = init_hmac([mhash EXCEPT !.pw = key])
    /\ fed' = IF mhash'.hmac.data = <<>> /\ mhash.res = NoContext THEN <<>> ELSE fed
    /\ UNCHANGED <<hashes, mhfaults>>

(* After a digest a new context is started; whether that worked is not      *)
(* looked at.                                                               *)
f_hmac_feed ==
    /\ Object("HMAC")
    /\ LET m == IF HmacState(mhash) = "done" THEN init_hmac(free_hash(mhash))
                ELSE init_hmac(mhash) IN
       IF HmacState(mhash) \in {"type", "pass", "fail"} THEN Raises
       ELSE IF m.hmac = NoContext THEN mhash_failed("null")
       ELSE /\ \/ mhash' = m /\ fed' = m.hmac.data
               \/ /\ Len(m.hmac.data) < MaxFed
                  /\ mhash' = Fed(m, "hmac")
                  /\ fed' = IF mhash.hmac = NoContext THEN <<1>> ELSE Append(fed, 1)
            /\ UNCHANGED <<hashes, mhfaults>>

f_hmac_digest == Object("HMAC") /\ Digests("hmac")

f_hmac_reset ==
    /\ Object("HMAC")
    /\ mhash' = init_hmac(free_hash(mhash))
    /\ fed' = <<>> /\ UNCHANGED <<hashes, mhfaults>>

(* Only types that can be used for an HMAC are taken.                       *)
f_hmac_set_type ==
    /\ Object("HMAC")
    /\ \E type \in HmacTypes :
          mhash' = init_hmac(free_hash([mhash EXCEPT !.type = type]))
    /\ fed' = <<>> /\ UNCHANGED <<hashes, mhfaults>>

free_hash_storage ==
    /\ mhash.class # "none" /\ mhfaults = {}
    /\ mhash' = init_hash_storage /\ fed' = <<>> /\ UNCHANGED <<hashes, mhfaults>>

-----------------------------------------------------------------------------
(* The global functions have nothing to do with the object.  They test the  *)
(* number of arguments and their type with `and', so that one argument of   *)
(* any type is taken for a string.                                          *)
TakenForString(args, string) == args = 1 \/ string
WithString ==
    /\ mhfaults = {}
    /\ \E args \in 0..2, string \in BOOLEAN :
          IF TakenForString(args, string) /\ ~string THEN mhash_failed("notstring")
          ELSE Raises
f_hash_of_string == WithString
f_to_hex == WithString
f_query_name == mhfaults = {} /\ Raises

Next ==
    \/ NewObject \/ f_hash_create \/ f_hash_feed \/ f_hash_digest \/ f_hash_query_name
    \/ f_hash_reset \/ f_hash_set_type
    \/ f_hmac_create \/ f_hmac_set_key \/ f_hmac_feed \/ f_hmac_digest \/ f_hmac_reset
    \/ f_hmac_set_type \/ free_hash_storage
    \/ f_hash_of_string \/ f_to_hex \/ f_query_name

Spec == Init /\ [][Next]_mhashvars

-----------------------------------------------------------------------------
(* A digest is of the data fed since the object was last reset, given a     *)
(* type or asked for its digest, whatever calls were made in between.       *)
DigestIsOfWhatWasFed == \A i \in DOMAIN hashes : hashes[i].res.data = hashes[i].asked

(* A result is as long as the current type of the object says: digest, that *)
(* asks the type for the length, reads no byte behind it.                   *)
ResultFitsType == mhash.res # NoContext => mhash.res.type = mhash.type

(* hmac.c:73 says of the type given to create that it can also be set with  *)
(* set_type: either way the digest of an HMAC object is keyed.              *)
HmacsAreKeyed ==
    mhash.class = "HMAC" /\ mhash.res # NoContext => mhash.res.key # Null

(* Nothing is fed to a context that does not exist, although feed does not  *)
(* look whether the one it started anew was made.                           *)
FedContextsExist == "null" \notin mhfaults
=============================================================================
