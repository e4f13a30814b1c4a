------------------------------ MODULE OpenSsl ------------------------------
(***************************************************************************)
(* openssl: SSL_CTX and SSL objects over the OpenSSL library               *)
(* (src/OpenSSL/openssl.c).  Calls that may wait for the peer release the  *)
(* interpreter lock; the library takes locks of its own through callbacks. *)
(***************************************************************************)
EXTENDS Integers, FiniteSets

CONSTANTS
    Threads,       \* threads of the interpreter
    Ssls,          \* SSL objects
    CryptoLocks,   \* openssl_locks
    MaxSessions,   \* bound: sessions made by SSL_new
    Null

VARIABLES
    ctx,           \* the SSL_CTX object: "none" or "made"
    ssl,           \* SSL_OBJ of each object, 0 for NULL
    sessions,      \* sessions made, and those freed
    destructed,    \* SSL objects a script destructed
    interpreter,   \* holder of the interpreter lock
    openssl_locks, \* holder of each lock
    scall,         \* what each thread does
    sslfaults

opensslvars ==
    <<ctx, ssl, sessions, destructed, interpreter, openssl_locks, scall, sslfaults>>

(* at: "out" of the interpreter, "in" a script, in the "library", "back"    *)
(* from it and waiting for the interpreter.                                 *)
Out == [at |-> "out", fn |-> "none", session |-> 0, ssl |-> Null, lock |-> Null]

Init ==
    /\ ctx = "none"
    /\ ssl = [o \in Ssls |-> 0]
    /\ sessions = [made |-> 0, freed |-> {}]
    /\ destructed = {}
    /\ interpreter = Null
    /\ openssl_locks = [l \in CryptoLocks |-> Null]
    /\ scall = [t \in Threads |-> Out]
    /\ sslfaults = {}

TypeOK ==
    /\ ctx \in {"none", "made"}
    /\ ssl \in [Ssls -> 0..MaxSessions]
    /\ sessions \in [made : 0..MaxSessions, freed : SUBSET (1..MaxSessions)]
    /\ destructed \subseteq Ssls
    /\ interpreter \in Threads \cup {Null}
    /\ openssl_locks \in [CryptoLocks -> Threads \cup {Null}]

Objects == <<ctx, ssl, sessions, destructed>>
At(t, where) == scall[t].at = where /\ sslfaults = {}
Move(t, where) == scall' = [scall EXCEPT ![t] = [Out EXCEPT !.at = where]]

(* The interpreter lock passes between threads at any instruction.          *)
TakesInterpreter(t) ==
    /\ At(t, "out") \/ At(t, "back")
    /\ interpreter = Null /\ interpreter' = t
    /\ Move(t, "in")
    /\ UNCHANGED <<Objects, openssl_locks, sslfaults>>
LeavesInterpreter(t) ==
    /\ At(t, "in") /\ interpreter' = Null
    /\ Move(t, "out")
    /\ UNCHANGED <<Objects, openssl_locks, sslfaults>>

Enters(t, fn, o, session) ==
    scall' = [scall EXCEPT ![t] = [Out EXCEPT !.at = "library", !.fn = fn, !.ssl = o,
                                              !.session = session]]

-----------------------------------------------------------------------------
(* Functions that keep the interpreter lock.  Every one but new passes the  *)
(* context on without asking whether there is one.                          *)
SSL_CTX_new(t) ==
    /\ At(t, "in") /\ ctx' = "made" /\ Enters(t, "short", Null, 0)
    /\ UNCHANGED <<ssl, sessions, destructed, interpreter, openssl_locks, sslfaults>>
WithContext(t) ==
    /\ At(t, "in")
    /\ IF ctx = "none" THEN sslfaults' = {"null"} /\ UNCHANGED scall
       ELSE Enters(t, "short", Null, 0) /\ UNCHANGED sslfaults
    /\ UNCHANGED <<Objects, interpreter, openssl_locks>>
use_PrivateKey_file(t) == WithContext(t)
use_certificate_file(t) == WithContext(t)
check_private_key(t) == WithContext(t)
load_verify_locations(t) == WithContext(t)
set_verify(t) == WithContext(t)
set_verify_depth(t) == WithContext(t)
werror(t) ==
    /\ At(t, "in") /\ Enters(t, "short", Null, 0)
    /\ UNCHANGED <<Objects, interpreter, openssl_locks, sslfaults>>

Usable(t, o) == At(t, "in") /\ o \notin destructed

(* new on an object that has a session forgets the old one.                 *)
FreesOld(session) == IF session = 0 THEN {} ELSE {session}
KeepsOld(session) == {}
SSL_new(t, o) ==
    /\ Usable(t, o) /\ sessions.made < MaxSessions
    /\ IF ctx = "none" THEN ssl' = [ssl EXCEPT ![o] = 0] /\ UNCHANGED sessions
       ELSE /\ sessions' = [made |-> sessions.made + 1,
                            freed |-> sessions.freed \cup KeepsOld(ssl[o])]
            /\ ssl' = [ssl EXCEPT ![o] = sessions.made + 1]
    /\ Enters(t, "short", o, 0)
    /\ UNCHANGED <<ctx, destructed, interpreter, openssl_locks, sslfaults>>
WithSession(t, o) ==
    /\ Usable(t, o)
    /\ IF ssl[o] = 0 THEN sslfaults' = {"null"} /\ UNCHANGED scall
       ELSE Enters(t, "short", o, ssl[o]) /\ UNCHANGED sslfaults
    /\ UNCHANGED <<Objects, interpreter, openssl_locks>>
clear(t, o) == WithSession(t, o)
set_fd(t, o) == WithSession(t, o)
get_verify_result(t, o) == WithSession(t, o)

(* destruct: the session is freed, whoever is in a call on it.              *)
program_exit(t, o) ==
    /\ Usable(t, o)
    /\ destructed' = destructed \cup {o}
    /\ sessions' = [sessions EXCEPT !.freed = @ \cup FreesOld(ssl[o])]
    /\ ssl' = [ssl EXCEPT ![o] = 0]
    /\ Enters(t, "short", o, 0)
    /\ UNCHANGED <<ctx, interpreter, openssl_locks, sslfaults>>

(* Functions that may wait: the session is read, then the lock released.    *)
Blocking(t, o) ==
    /\ Usable(t, o)
    /\ IF ssl[o] = 0 THEN sslfaults' = {"null"} /\ UNCHANGED <<scall, interpreter>>
       ELSE /\ Enters(t, "blocking", o, ssl[o])
            /\ interpreter' = Null
            /\ UNCHANGED sslfaults
    /\ UNCHANGED <<Objects, openssl_locks>>
accept(t, o) == Blocking(t, o)
connect(t, o) == Blocking(t, o)
read(t, o) == Blocking(t, o)
write(t, o) == Blocking(t, o)
shutdown(t, o) == Blocking(t, o)

-----------------------------------------------------------------------------
(* Inside the library: one lock at a time, by its callback.                 *)
UnlocksNothing(t) == openssl_locks
Unlocks(t) == [l \in CryptoLocks |-> IF openssl_locks[l] = t THEN Null
                                     ELSE openssl_locks[l]]
locking_callback(t) ==
    /\ At(t, "library")
    /\ \/ /\ scall[t].lock = Null
          /\ \E l \in CryptoLocks :
                /\ openssl_locks[l] = Null
                /\ openssl_locks' = [openssl_locks EXCEPT ![l] = t]
                /\ scall' = [scall EXCEPT ![t].lock = l]
       \/ /\ scall[t].lock # Null
          /\ openssl_locks' = Unlocks(t)
          /\ scall' = [scall EXCEPT ![t].lock = Null]
    /\ UNCHANGED <<Objects, interpreter, sslfaults>>

Returns(t) ==
    /\ At(t, "library") /\ scall[t].lock = Null
    /\ IF scall[t].session \in sessions.freed
       THEN /\ sslfaults' = {"freed"}
            /\ UNCHANGED scall
       ELSE /\ Move(t, IF scall[t].fn = "short" THEN "in" ELSE "back")
            /\ UNCHANGED sslfaults
    /\ UNCHANGED <<Objects, interpreter, openssl_locks>>

Next ==
    \E t \in Threads :
       \/ TakesInterpreter(t) \/ LeavesInterpreter(t)
       \/ SSL_CTX_new(t) \/ use_PrivateKey_file(t) \/ use_certificate_file(t)
       \/ check_private_key(t) \/ load_verify_locations(t) \/ set_verify(t)
       \/ set_verify_depth(t) \/ werror(t)
       \/ \E o \in Ssls :
             \/ SSL_new(t, o) \/ clear(t, o) \/ set_fd(t, o) \/ get_verify_result(t, o)
             \/ accept(t, o) \/ connect(t, o) \/ read(t, o) \/ write(t, o)
             \/ shutdown(t, o) \/ program_exit(t, o)
       \/ locking_callback(t) \/ Returns(t)

Spec == Init /\ [][Next]_opensslvars

-----------------------------------------------------------------------------
(* A session is freed under a call only when its object was destructed: a   *)
(* second new on the object leaves the session of a waiting call alone.     *)
FreedOnlyByDestruct ==
    "freed" \in sslfaults =>
        \E t \in Threads : scall[t].at = "library" /\ scall[t].ssl \in destructed

(* No thread can wait for the interpreter, or run a script, while it holds  *)
(* a lock of the library that a thread in the library may be waiting for.   *)
LibraryLocksComeBack ==
    \A l \in CryptoLocks :
       openssl_locks[l] # Null => scall[openssl_locks[l]].at = "library"
=============================================================================
