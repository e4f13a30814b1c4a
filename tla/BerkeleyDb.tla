----------------------------- MODULE BerkeleyDb -----------------------------
(***************************************************************************)
(* BerkeleyDB.db: one database handle used by several threads              *)
(* (src/_BerkeleyDB/bdb_db.c).  put, get, del and sync call the library    *)
(* without the interpreter lock; the library makes each of them atomic.    *)
(***************************************************************************)
EXTENDS Integers, FiniteSets

CONSTANTS
    Threads,       \* threads of the interpreter
    DbKeys, DbValues,
    Null

VARIABLES
    bdb,           \* BDB_Storage: state, and what its handle is
    store,         \* the database
    dbcall,        \* the call each thread has in the library
    untrue,        \* answers that do not say what the call did
    dbfaults

bdbvars == <<bdb, store, dbcall, untrue, dbfaults>>

(* `did': what the library did, or "waits"                                  *)
NoCall == [fn |-> "none", key |-> Null, value |-> Null, did |-> "waits"]

init_bdb_struct == [state |-> 0, db |-> "none"]
Init ==
    /\ bdb = init_bdb_struct
    /\ store = [k \in DbKeys |-> Null]
    /\ dbcall = [t \in Threads |-> NoCall]
    /\ untrue = {}
    /\ dbfaults = {}

TypeOK ==
    /\ bdb \in [state : {0, 1, -1}, db : {"none", "made", "open", "spent", "closed"}]
    /\ store \in [DbKeys -> DbValues \cup {Null}]
    /\ dbcall \in [Threads -> [fn : {"none", "put", "get", "del", "sync"},
                               key : DbKeys \cup {Null},
                               value : DbValues \cup {Null},
                               did : {"waits", "changed", "kept", "found", "missing",
                                      "failed"}]]

Idle(t) == dbcall[t] = NoCall /\ dbfaults = {} /\ bdb.state # -1
CHECKBDB(t) == Idle(t) /\ bdb.state = 1

f_bdb_create(t) ==
    /\ Idle(t) /\ bdb.db = "none"
    /\ \/ bdb' = [state |-> 1, db |-> "made"]
       \/ UNCHANGED bdb
    /\ UNCHANGED <<store, dbcall, untrue, dbfaults>>

(* open keeps the interpreter lock.  A handle whose open failed may not be  *)
(* used any more, but it stays the object's handle and its state stays 1.   *)
OpenFailedCloses(db) == [bdb EXCEPT !.db = "closed"]
OpenFailed(db) == [bdb EXCEPT !.db = db]
f_bdb_open(t) ==
    /\ CHECKBDB(t)
    /\ \/ bdb.db = "made" /\ bdb' = [bdb EXCEPT !.db = "open"]
       \/ bdb.db \in {"made", "spent"} /\ bdb' = OpenFailed("spent")
       \/ bdb.db = "open" /\ bdb' = OpenFailed("open")
    /\ UNCHANGED <<store, dbcall, untrue, dbfaults>>

Calls(t, fn, key, value) ==
    /\ CHECKBDB(t)
    /\ dbcall' = [dbcall EXCEPT ![t] = [NoCall EXCEPT !.fn = fn, !.key = key,
                                                      !.value = value]]
    /\ UNCHANGED <<bdb, store, untrue, dbfaults>>
f_bdb_put(t) == \E k \in DbKeys, v \in DbValues : Calls(t, "put", k, v)
f_bdb_get(t) == \E k \in DbKeys : Calls(t, "get", k, Null)
f_bdb_del(t) == \E k \in DbKeys : Calls(t, "del", k, Null)
f_bdb_sync(t) == Calls(t, "sync", Null, Null)

-----------------------------------------------------------------------------
(* The library does the call at one moment, on a handle that is open; a put *)
(* with DB_NOOVERWRITE keeps what the key has.                              *)
Does(t, did, value) ==
    /\ dbcall' = [dbcall EXCEPT ![t].did = did]
    /\ store' = IF did = "changed" THEN [store EXCEPT ![dbcall[t].key] = value]
                ELSE store
library(t) ==
    /\ dbcall[t].fn # "none" /\ dbcall[t].did = "waits" /\ dbfaults = {}
    /\ LET c == dbcall[t] IN
       IF bdb.db = "closed"
       THEN dbfaults' = {"closed"} /\ UNCHANGED <<store, dbcall>>
       ELSE /\ \/ Does(t, "failed", Null)
               \/ /\ bdb.db = "open"
                  /\ \/ c.fn = "put" /\ Does(t, "changed", c.value)
                     \/ c.fn = "put" /\ store[c.key] # Null /\ Does(t, "kept", Null)
                     \/ c.fn = "del" /\ Does(t, IF store[c.key] = Null THEN "missing"
                                                ELSE "changed", Null)
                     \/ c.fn = "get" /\ Does(t, IF store[c.key] = Null THEN "missing"
                                                ELSE "found", Null)
                     \/ c.fn = "sync" /\ Does(t, "found", Null)
                     \/ c.fn = "sync" /\ Does(t, "kept", Null)     \* DB_INCOMPLETE
            /\ UNCHANGED dbfaults
    /\ UNCHANGED <<bdb, untrue>>

(* What each code becomes: 1, 0, or an error of the script.                 *)
AnswersKeyexist(did) == CASE did \in {"changed", "found", "kept"} -> 1
                          [] did = "missing" -> 0
                          [] OTHER -> 2
Answer(did) == CASE did \in {"changed", "found"} -> 1
                 [] did \in {"kept", "missing"} -> 0
                 [] OTHER -> 2
Returns(t) ==
    /\ dbcall[t].did # "waits" /\ dbfaults = {}
    /\ untrue' = IF (Answer(dbcall[t].did) = 1) # (dbcall[t].did \in {"changed", "found"})
                 THEN untrue \cup {dbcall[t].fn} ELSE untrue
    /\ dbcall' = [dbcall EXCEPT ![t] = NoCall]
    /\ UNCHANGED <<bdb, store, dbfaults>>

(* destruct() by a script closes the handle under any call.                 *)
free_bdb_struct(t) ==
    /\ Idle(t)
    /\ bdb' = [state |-> -1, db |-> IF bdb.db = "none" THEN "none" ELSE "closed"]
    /\ UNCHANGED <<store, dbcall, untrue, dbfaults>>

Next ==
    \E t \in Threads :
       \/ f_bdb_create(t) \/ f_bdb_open(t) \/ f_bdb_put(t) \/ f_bdb_get(t)
       \/ f_bdb_del(t) \/ f_bdb_sync(t) \/ library(t) \/ Returns(t)
       \/ free_bdb_struct(t)

Spec == Init /\ [][Next]_bdbvars

-----------------------------------------------------------------------------
(* The handle is closed under a call only by destructing the object; an     *)
(* open that fails beside a call keeps the handle, spent as it is.          *)
ClosedOnlyByDestruct == "closed" \in dbfaults => bdb.state = -1

(* An answer of 1 to put or del means that this very call changed the       *)
(* database, and 0 that it did not.                                         *)
AnswersAreTrue == untrue = {}
=============================================================================
