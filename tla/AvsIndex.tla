------------------------------ MODULE AvsIndex ------------------------------
(***************************************************************************)
(* One AVS.Index object (src/AVS/index.c) used by several interpreter      *)
(* threads, with the AVS.Search and AVS.Count objects it hands out.        *)
(*                                                                         *)
(* Two locks are involved.  The interpreter lock (gil) is held by the one  *)
(* thread that runs interpreter code; THREADS_ALLOW drops it and           *)
(* THREADS_DISALLOW takes it again.  Every index has a mutex (mtx) that is *)
(* held around the calls into the search library, without the interpreter  *)
(* lock.  A call therefore moves through                                   *)
(*   idle -> lock -> lib -> unlock -> resume -> finish -> idle             *)
(* where code before "lock" and code at "finish" runs under the            *)
(* interpreter lock and "lib" under the mutex only.  What one thread does  *)
(* under the interpreter lock up to THREADS_ALLOW is one action.           *)
(*                                                                         *)
(* The library itself is not part of the repository: its handles, the      *)
(* locations words occupy and the result sets are modelled as far as the   *)
(* glue relies on them.                                                    *)
(***************************************************************************)
EXTENDS Naturals, Sequences

CONSTANTS
    Threads,      \* interpreter threads
    NoThread,     \* a lock is free
    Queries,      \* what may be searched for or counted
    NoQuery,
    Ops,          \* Ops[t]: the operations thread t calls
    Failures,     \* operations whose library call may fail on an open index
    WordCounts,   \* how many words one add_words call may carry
    LicenseArgs,  \* whether open is given a licence string
    MaxOpens,     \* bound: calls of open
    MaxLocation,  \* bound: locations handed to the library
    MaxResults    \* bound: result handles issued before new searches stop

PlainOps ==
    { "delete_docid", "set_parse_flags", "add_field", "set_doc_date",
      "set_doc_data", "get_max_location", "get_total_docs", "buildmode_ex",
      "querymode", "compact", "compaction_needed", "get_index_mode",
      "get_index_version", "make_stable", "timer", "version", "licenseinfo" }
WordOps      == { "add_words", "add_literal", "add_date" }
LocationOps  == WordOps \cup { "start_doc", "add_field_words" }
LifecycleOps == { "open", "reopen", "close", "destroy" }
ResultOps    == { "search", "count" }
OpNames      == PlainOps \cup LocationOps \cup LifecycleOps \cup ResultOps
                    \cup { "end_doc", "get_location", "buildmode", "none" }

ASSUME ThreadsAssumption == NoThread \notin Threads
ASSUME OpsAssumption     == Ops \in [Threads -> SUBSET OpNames]
ASSUME QueriesAssumption == NoQuery \notin Queries
ASSUME BoundsAssumption  ==
    /\ WordCounts \subseteq Nat \ {0}
    /\ LicenseArgs \subseteq BOOLEAN
    /\ MaxOpens \in Nat /\ MaxLocation \in Nat /\ MaxResults \in Nat

VARIABLES
    pc,        \* where each thread is inside a call
    call,      \* the locals of each thread's call
    gil,       \* holder of the interpreter lock
    mtx,       \* holder of the index mutex
    alive,     \* the index object has not been destroyed
    init, handle, location, tmpSearch, tmpCount, license,  \* private_index_data
    searches, counts,        \* AVS.Search and AVS.Count objects handed out
    opens,                   \* number of open calls so far
    opened, docOpen, occupied, top, issued, live,          \* the library
    overlap, clash, misfield, closeFailed, searchFailed    \* history

index   == << init, handle, location, tmpSearch, tmpCount, license >>
library == << opened, docOpen, occupied, top, issued, live >>
history == << clash, misfield, closeFailed, searchFailed >>
objects == << searches, counts >>
vars    == << pc, call, gil, mtx, alive, index, objects, opens, library,
              overlap, history >>

(* The locals of a call: query or prefix (q), number of words (n), the     *)
(* location read before the lock (start) and for the addition (loc), the   *)
(* library's verdict (ok) and the licence pointer given to avs_open (lic). *)
Calls == [ op : OpNames, q : Queries \cup {NoQuery}, n : Nat, start : Nat,
           loc : Nat, ok : BOOLEAN, lic : Nat ]

NoCall == [ op |-> "none", q |-> NoQuery, n |-> 0, start |-> 0, loc |-> 0,
            ok |-> TRUE, lic |-> 0 ]

Places == { "idle", "lock", "yield", "lib", "field", "unlock", "clone",
            "resume", "finish", "get_location", "buildmode" }

(* Places between mt_lock and mt_unlock, and places under the GIL. *)
Locked == { "yield", "lib", "field", "unlock", "clone" }
Holding == { "finish", "get_location", "buildmode" }

(* A result handle is its position in issued; 0 is the null handle. *)
Results == [ kind : ResultOps, q : Queries ]
Objects == [ asked : Queries, handle : Nat ]

TypeOK ==
    /\ pc \in [Threads -> Places]
    /\ call \in [Threads -> Calls]
    /\ gil \in Threads \cup {NoThread} /\ mtx \in Threads \cup {NoThread}
    /\ alive \in BOOLEAN /\ init \in BOOLEAN
    /\ handle \in Nat /\ location \in Nat
    /\ tmpSearch \in Nat /\ tmpCount \in Nat /\ license \in Nat
    /\ searches \subseteq Objects /\ counts \subseteq Objects
    /\ opens \in Nat /\ opened \subseteq Nat /\ docOpen \in BOOLEAN
    /\ occupied \subseteq Nat /\ top \in Nat
    /\ issued \in Seq(Results) /\ live \subseteq Nat
    /\ overlap \subseteq { "writers", "lifecycle" }
    /\ clash \in BOOLEAN /\ misfield \in BOOLEAN
    /\ closeFailed \subseteq Nat /\ searchFailed \in BOOLEAN

(* clone: init_index_priv_data zeroes the storage and creates the mutex,   *)
(* create() without a path leaves the index closed.                        *)
Init ==
    /\ pc = [t \in Threads |-> "idle"]
    /\ call = [t \in Threads |-> NoCall]
    /\ gil = NoThread /\ mtx = NoThread
    /\ alive = TRUE /\ init = FALSE
    /\ handle = 0 /\ location = 0 /\ tmpSearch = 0 /\ tmpCount = 0
    /\ license = 0
    /\ searches = {} /\ counts = {}
    /\ opens = 0 /\ opened = {} /\ docOpen = FALSE
    /\ occupied = {} /\ top = 0 /\ issued = << >> /\ live = {}
    /\ overlap = {} /\ clash = FALSE /\ misfield = FALSE
    /\ closeFailed = {} /\ searchFailed = FALSE

Goto(t, place) == pc' = [pc EXCEPT ![t] = place]
Busy(t, ops)   == pc[t] # "idle" /\ call[t].op \in ops

Overlaps(t, o) ==
    { k \in { "writers", "lifecycle" } :
        LET ops == IF k = "writers" THEN LocationOps ELSE LifecycleOps
        IN  o \in ops /\ \E u \in Threads \ {t} : Busy(u, ops) }

(* The interpreter runs thread t from the start of an operation, with the  *)
(* locals c, to the THREADS_ALLOW of AVS_LOCK.                             *)
Begin(t, name, c) ==
    /\ alive /\ name \in Ops[t]
    /\ pc[t] = "idle" /\ gil = NoThread
    /\ Goto(t, "lock")
    /\ call' = [call EXCEPT ![t] = c]
    /\ overlap' = overlap \cup Overlaps(t, c.op)
    /\ UNCHANGED << gil, mtx, alive, objects, library, history >>

Plain(t, o) ==
    Begin(t, o, [NoCall EXCEPT !.op = o]) /\ UNCHANGED << index, opens >>

DeleteDocid(t)       == Plain(t, "delete_docid")
SetParseFlags(t)     == Plain(t, "set_parse_flags")
AddField(t)          == Plain(t, "add_field")
SetDocDate(t)        == Plain(t, "set_doc_date")
SetDocData(t)        == Plain(t, "set_doc_data")
GetMaxLocation(t)    == Plain(t, "get_max_location")
GetTotalDocs(t)      == Plain(t, "get_total_docs")
BuildmodeTiers(t)    == Plain(t, "buildmode_ex")
Querymode(t)         == Plain(t, "querymode")
Compact(t)           == Plain(t, "compact")
CompactionNeeded(t)  == Plain(t, "compaction_needed")
GetIndexMode(t)      == Plain(t, "get_index_mode")
GetIndexVersion(t)   == Plain(t, "get_index_version")
MakeStable(t)        == Plain(t, "make_stable")
Timer(t)             == Plain(t, "timer")
Version(t)           == Plain(t, "version")
LicenseInfo(t)       == Plain(t, "licenseinfo")
EndDoc(t)            == Plain(t, "end_doc")
StartDoc(t)          == Plain(t, "start_doc")

AddText(t, o, n) ==
    /\ location + n <= MaxLocation
    /\ Begin(t, o, [NoCall EXCEPT !.op = o, !.n = n])
    /\ UNCHANGED << index, opens >>

AddWords(t)   == \E n \in WordCounts : AddText(t, "add_words", n)
AddLiteral(t) == AddText(t, "add_literal", 1)
AddDate(t)    == AddText(t, "add_date", 1)

(* start is read before the lock is taken. *)
AddFieldWords(t) ==
    \E n \in WordCounts :
        /\ location + n <= MaxLocation
        /\ Begin(t, "add_field_words",
                 [NoCall EXCEPT !.op = "add_field_words", !.n = n,
                                !.start = location])
        /\ UNCHANGED << index, opens >>

(* A licence string is copied into the object before the index that is     *)
(* still open is closed; the number of the call names the copy.            *)
Open(t) ==
    /\ opens < MaxOpens
    /\ opens' = opens + 1
    /\ \E licensed \in LicenseArgs :
        /\ license' = IF licensed THEN opens + 1 ELSE license
        /\ Begin(t, "open",
                 [NoCall EXCEPT !.op  = IF init THEN "reopen" ELSE "open",
                                !.n   = opens + 1,
                                !.lic = IF licensed THEN opens + 1 ELSE 0])
    /\ UNCHANGED << init, handle, location, tmpSearch, tmpCount >>

Close(t) ==
    \/ /\ init
       /\ Begin(t, "close", [NoCall EXCEPT !.op = "close"])
       /\ UNCHANGED << index, opens >>
    \/ /\ ~init /\ alive /\ "close" \in Ops[t]
       /\ pc[t] = "idle" /\ gil = NoThread
       /\ license' = 0
       /\ UNCHANGED << pc, call, gil, mtx, alive, init, handle, location,
                       tmpSearch, tmpCount, objects, opens, library, overlap,
                       history >>

(* A search of an unknown type carries n = 0. *)
Search(t) ==
    \E q \in Queries, n \in {0, 1} :
        /\ Len(issued) < MaxResults
        /\ Begin(t, "search", [NoCall EXCEPT !.op = "search", !.q = q, !.n = n])
        /\ UNCHANGED << index, opens >>

Count(t) ==
    \E q \in Queries :
        /\ Len(issued) < MaxResults
        /\ Begin(t, "count", [NoCall EXCEPT !.op = "count", !.q = q])
        /\ UNCHANGED << index, opens >>

(* The two operations that take no mutex keep the interpreter lock. *)
HoldGil(t, o) ==
    /\ alive /\ o \in Ops[t]
    /\ pc[t] = "idle" /\ gil = NoThread
    /\ gil' = t /\ Goto(t, o)
    /\ call' = [call EXCEPT ![t] = [NoCall EXCEPT !.op = o]]
    /\ UNCHANGED << mtx, alive, index, objects, opens, library, overlap,
                    history >>

GetLocation(t) == HoldGil(t, "get_location")
Buildmode(t)   == HoldGil(t, "buildmode")

(* The last reference goes away: no other call is in progress, and none    *)
(* can start.  An open index is closed first.                              *)
Destroy(t) ==
    /\ \A u \in Threads : pc[u] = "idle"
    /\ alive /\ "destroy" \in Ops[t] /\ gil = NoThread
    /\ alive' = FALSE
    /\ IF init
       THEN /\ Goto(t, "lock")
            /\ call' = [call EXCEPT ![t] = [NoCall EXCEPT !.op = "destroy"]]
            /\ UNCHANGED license
       ELSE license' = 0 /\ UNCHANGED << pc, call >>
    /\ UNCHANGED << gil, mtx, init, handle, location, tmpSearch, tmpCount, objects,
                    opens, library, overlap, history >>

(* A new index object: fresh storage, a fresh mutex. *)
Create ==
    /\ ~alive /\ \A t \in Threads : pc[t] = "idle"
    /\ alive' = TRUE /\ mtx' = NoThread
    /\ init' = FALSE /\ handle' = 0 /\ location' = 0
    /\ tmpSearch' = 0 /\ tmpCount' = 0 /\ license' = 0
    /\ UNCHANGED << pc, call, gil, objects, opens, library, overlap, history >>

----------------------------------------------------------------------------
(* The locks. *)

(* Mutation: the mutex is not waited for. *)
MtLockUnguarded(t) ==
    /\ pc[t] = "lock"
    /\ mtx' = t
    /\ Goto(t, IF call[t].op = "search" THEN "yield" ELSE "lib")
    /\ UNCHANGED << call, gil, alive, index, objects, opens, library, overlap,
                    history >>

MtLock(t) ==
    /\ pc[t] = "lock" /\ mtx = NoThread
    /\ mtx' = t
    /\ Goto(t, IF call[t].op = "search" THEN "yield" ELSE "lib")
    /\ UNCHANGED << call, gil, alive, index, objects, opens, library, overlap,
                    history >>

(* search takes and drops the interpreter lock once more under the mutex. *)
SearchYield(t) ==
    /\ pc[t] = "yield" /\ gil = NoThread
    /\ Goto(t, "lib")
    /\ UNCHANGED << call, gil, mtx, alive, index, objects, opens, library,
                    overlap, history >>

MtUnlock(t) ==
    /\ pc[t] = "unlock"
    /\ mtx' = NoThread /\ Goto(t, "resume")
    /\ UNCHANGED << call, gil, alive, index, objects, opens, library, overlap,
                    history >>

(* The additions of the word operations read location here. *)
ThreadsDisallow(t) ==
    /\ pc[t] = "resume" /\ gil = NoThread
    /\ gil' = t /\ Goto(t, "finish")
    /\ call' = [call EXCEPT ![t].loc = location]
    /\ UNCHANGED << mtx, alive, index, objects, opens, library, overlap,
                    history >>

----------------------------------------------------------------------------
(* The library calls, under the mutex. *)

(* A call on a handle that is not open is rejected. *)
Outcomes(t, usable) ==
    IF ~usable THEN {FALSE}
    ELSE IF call[t].op \in Failures THEN BOOLEAN ELSE {TRUE}

InLibrary(t, ops) ==
    /\ pc[t] = "lib" /\ call[t].op \in ops
    /\ UNCHANGED << gil, mtx, alive, init, tmpSearch, license, objects, opens,
                    overlap >>

Verdict(t, ok) == call' = [call EXCEPT ![t].ok = ok]

(* Mutation: an error is raised before the mutex is released. *)
PlainLibRaisesLocked(t) ==
    \E ok \in Outcomes(t, handle \in opened) :
        /\ InLibrary(t, PlainOps)
        /\ Verdict(t, ok) /\ Goto(t, IF ok THEN "unlock" ELSE "resume")
        /\ UNCHANGED << handle, location, tmpCount, library, history >>

PlainLib(t) ==
    \E ok \in Outcomes(t, handle \in opened) :
        /\ InLibrary(t, PlainOps)
        /\ Verdict(t, ok) /\ Goto(t, "unlock")
        /\ UNCHANGED << handle, location, tmpCount, library, history >>

StartDocLib(t) ==
    \E ok \in Outcomes(t, handle \in opened) :
        /\ InLibrary(t, {"start_doc"})
        /\ Verdict(t, ok) /\ Goto(t, "unlock")
        /\ location' = IF ok THEN top + 1 ELSE location
        /\ docOpen' = (docOpen \/ ok)
        /\ UNCHANGED << handle, tmpCount, opened, occupied, top, issued, live,
                        history >>

EndDocLib(t) ==
    \E ok \in Outcomes(t, handle \in opened) :
        /\ InLibrary(t, {"end_doc"})
        /\ Verdict(t, ok) /\ Goto(t, "unlock")
        /\ docOpen' = (docOpen /\ ~ok)
        /\ UNCHANGED << handle, location, tmpCount, opened, occupied, top,
                        issued, live, history >>

(* avs_addword(handle, words, location, &n) puts n words from first on. *)
Span(first, n) == first .. (first + n - 1)

Place(first, n) ==
    /\ occupied' = occupied \cup Span(first, n)
    /\ top' = IF first + n - 1 > top THEN first + n - 1 ELSE top
    /\ clash' = (clash \/ Span(first, n) \cap occupied # {})

AddTextLib(t) ==
    \E ok \in Outcomes(t, handle \in opened /\ docOpen) :
        /\ InLibrary(t, WordOps)
        /\ Verdict(t, ok) /\ Goto(t, "unlock")
        /\ IF ok THEN Place(location, call[t].n)
                 ELSE UNCHANGED << occupied, top, clash >>
        /\ UNCHANGED << handle, location, tmpCount, opened, docOpen, issued,
                        live, misfield, closeFailed, searchFailed >>

AddFieldWordsLib(t) ==
    \E ok \in Outcomes(t, handle \in opened /\ docOpen) :
        /\ InLibrary(t, {"add_field_words"})
        /\ call' = [call EXCEPT ![t].ok = ok, ![t].loc = location]
        /\ Goto(t, IF ok THEN "field" ELSE "unlock")
        /\ IF ok THEN Place(location, call[t].n)
                 ELSE UNCHANGED << occupied, top, clash >>
        /\ UNCHANGED << handle, location, tmpCount, opened, docOpen, issued,
                        live, misfield, closeFailed, searchFailed >>

(* Mutation: the end of the field is one location short. *)
MarkFieldShort(t) ==
    \E ok \in Outcomes(t, TRUE) :
        /\ pc[t] = "field"
        /\ location' = call[t].loc + call[t].n - 1
        /\ LET field == call[t].start .. (location' - 1)
           IN  misfield' = (misfield \/
                   (ok /\ field # Span(call[t].loc, call[t].n)))
        /\ Verdict(t, ok) /\ Goto(t, "unlock")
        /\ UNCHANGED << gil, mtx, alive, init, handle, tmpSearch, tmpCount,
                        license, objects, opens, library, overlap, clash,
                        closeFailed, searchFailed >>

(* Still under the mutex: advance location and mark the field from the     *)
(* start read before the lock to the new end.                              *)
MarkField(t) ==
    \E ok \in Outcomes(t, TRUE) :
        /\ pc[t] = "field"
        /\ location' = call[t].loc + call[t].n
        /\ LET field == call[t].start .. (location' - 1)
           IN  misfield' = (misfield \/
                   (ok /\ field # Span(call[t].loc, call[t].n)))
        /\ Verdict(t, ok) /\ Goto(t, "unlock")
        /\ UNCHANGED << gil, mtx, alive, init, handle, tmpSearch, tmpCount,
                        license, objects, opens, library, overlap, clash,
                        closeFailed, searchFailed >>

CloseLib(t) ==
    \E ok \in Outcomes(t, handle \in opened) :
        /\ InLibrary(t, { "close", "reopen", "destroy" })
        /\ Verdict(t, ok) /\ Goto(t, "unlock")
        /\ opened' = IF ok THEN opened \ {handle} ELSE opened
        /\ docOpen' = (docOpen /\ ~ok)
        /\ closeFailed' = IF ok THEN closeFailed ELSE closeFailed \cup {handle}
        /\ UNCHANGED << handle, location, tmpCount, occupied, top, issued,
                        live, clash, misfield, searchFailed >>

(* A handle just opened has no document open. *)
OpenLib(t) ==
    \E ok \in Outcomes(t, TRUE) :
        /\ InLibrary(t, {"open"})
        /\ Verdict(t, ok) /\ Goto(t, "unlock")
        /\ opened' = IF ok THEN opened \cup {call[t].n} ELSE opened
        /\ handle' = IF ok THEN call[t].n ELSE handle
        /\ docOpen' = (docOpen /\ ~ok)
        /\ UNCHANGED << location, tmpCount, occupied, top, issued, live,
                        history >>

(* A new result handle of the library. *)
Issue(kind, q) ==
    /\ issued' = Append(issued, [kind |-> kind, q |-> q])
    /\ live' = live \cup {Len(issued) + 1}

CountLib(t) ==
    \E ok \in Outcomes(t, handle \in opened) :
        /\ InLibrary(t, {"count"})
        /\ Verdict(t, ok) /\ Goto(t, "unlock")
        /\ IF ok THEN Issue("count", call[t].q) /\ tmpCount' = Len(issued) + 1
                 ELSE UNCHANGED << issued, live, tmpCount >>
        /\ UNCHANGED << handle, location, opened, docOpen, occupied, top,
                        history >>

(* Mutation: the mutex is released as soon as the search is done. *)
SearchLibUnlocksEarly(t) ==
    \E ok \in Outcomes(t, handle \in opened) :
        /\ pc[t] = "lib" /\ call[t].op = "search"
        /\ Verdict(t, ok \/ call[t].n = 0) /\ Goto(t, "clone")
        /\ mtx' = NoThread
        /\ IF ok /\ call[t].n # 0
           THEN Issue("search", call[t].q) /\ tmpSearch' = Len(issued) + 1
           ELSE UNCHANGED << issued, live, tmpSearch >>
        /\ UNCHANGED << gil, alive, init, handle, location, tmpCount,
                        license, objects, opens, opened, docOpen, occupied,
                        top, overlap, history >>

(* A search of an unknown type calls nothing and counts as AVS_OK. *)
SearchLib(t) ==
    \E ok \in Outcomes(t, handle \in opened) :
        /\ pc[t] = "lib" /\ call[t].op = "search"
        /\ Verdict(t, ok \/ call[t].n = 0) /\ Goto(t, "clone")
        /\ IF ok /\ call[t].n # 0
           THEN Issue("search", call[t].q) /\ tmpSearch' = Len(issued) + 1
           ELSE UNCHANGED << issued, live, tmpSearch >>
        /\ UNCHANGED << gil, mtx, alive, init, handle, location, tmpCount,
                        license, objects, opens, opened, docOpen, occupied,
                        top, overlap, history >>

----------------------------------------------------------------------------
(* The rest of each operation, under the interpreter lock. *)

Return(t) == Goto(t, "idle") /\ call' = [call EXCEPT ![t] = NoCall]

(* Mutation: an unknown type raises without unlocking. *)
SearchFinishKeepsMutex(t) ==
    /\ pc[t] = "clone" /\ gil = NoThread
    /\ Return(t)
    /\ IF call[t].n = 0 \/ ~call[t].ok
       THEN /\ searchFailed' = (searchFailed \/ ~call[t].ok)
            /\ UNCHANGED << mtx, searches >>
       ELSE /\ mtx' = NoThread
            /\ searches' = searches \cup
                   { [asked |-> call[t].q, handle |-> tmpSearch] }
            /\ UNCHANGED searchFailed
    /\ UNCHANGED << gil, alive, index, counts, opens, library, overlap, clash,
                    misfield, closeFailed >>

(* Mutation: the type is not looked at, only the verdict. *)
SearchFinishAnyType(t) ==
    /\ pc[t] = "clone" /\ gil = NoThread
    /\ Return(t)
    /\ IF ~call[t].ok
       THEN searchFailed' = TRUE /\ UNCHANGED << mtx, searches >>
       ELSE /\ mtx' = NoThread
            /\ searches' = searches \cup
                   { [asked |-> call[t].q, handle |-> tmpSearch] }
            /\ UNCHANGED searchFailed
    /\ UNCHANGED << gil, alive, index, counts, opens, library, overlap, clash,
                    misfield, closeFailed >>

(* With both locks: an unknown type unlocks and raises, a library error    *)
(* raises with the mutex held, and a result is copied into a new Search    *)
(* object before the mutex is released.                                    *)
SearchFinish(t) ==
    /\ pc[t] = "clone" /\ gil = NoThread
    /\ Return(t)
    /\ IF call[t].n = 0
       THEN mtx' = NoThread /\ UNCHANGED << searches, searchFailed >>
       ELSE IF ~call[t].ok
       THEN searchFailed' = TRUE /\ UNCHANGED << mtx, searches >>
       ELSE /\ mtx' = NoThread
            /\ searches' = searches \cup
                   { [asked |-> call[t].q, handle |-> tmpSearch] }
            /\ UNCHANGED searchFailed
    /\ UNCHANGED << gil, alive, index, counts, opens, library, overlap, clash,
                    misfield, closeFailed >>

Finishing(t, ops) ==
    /\ pc[t] = "finish" /\ call[t].op \in ops
    /\ gil' = NoThread
    /\ UNCHANGED << mtx, alive, handle, tmpSearch, tmpCount, searches, opens,
                    library, overlap, history >>

PlainFinish(t) ==
    /\ Finishing(t, PlainOps \cup { "start_doc", "end_doc", "add_field_words" })
    /\ Return(t)
    /\ UNCHANGED << init, location, license, counts >>

(* Mutation: only the first word of a call advances location. *)
AddTextFinishByOne(t) ==
    /\ Finishing(t, WordOps)
    /\ Return(t)
    /\ location' = IF call[t].ok THEN call[t].loc + 1 ELSE location
    /\ UNCHANGED << init, license, counts >>

(* Mutation: location moves the wrong way. *)
AddTextFinishBackwards(t) ==
    /\ Finishing(t, WordOps)
    /\ Return(t)
    /\ location' = IF call[t].ok THEN call[t].loc - call[t].n ELSE location
    /\ UNCHANGED << init, license, counts >>

AddTextFinish(t) ==
    /\ Finishing(t, WordOps)
    /\ Return(t)
    /\ location' = IF call[t].ok THEN call[t].loc + call[t].n ELSE location
    /\ UNCHANGED << init, license, counts >>

(* Mutation: init stays set after the handle was closed. *)
CloseFinishKeepsInit(t) ==
    /\ Finishing(t, {"close"})
    /\ Return(t)
    /\ license' = IF call[t].ok THEN 0 ELSE license
    /\ UNCHANGED << init, location, counts >>

(* A failed avs_close raises before init and the licence are cleared. *)
CloseFinish(t) ==
    /\ Finishing(t, {"close"})
    /\ Return(t)
    /\ init' = (init /\ ~call[t].ok)
    /\ license' = IF call[t].ok THEN 0 ELSE license
    /\ UNCHANGED << location, counts >>

(* destroy() may raise; the exit callback runs all the same. *)
DestroyFinish(t) ==
    /\ Finishing(t, {"destroy"})
    /\ Return(t)
    /\ init' = (init /\ ~call[t].ok)
    /\ license' = 0
    /\ UNCHANGED << location, counts >>

(* open() has closed the index that was open and goes on to avs_open. *)
ReopenFinish(t) ==
    /\ Finishing(t, {"reopen"})
    /\ IF call[t].ok
       THEN /\ init' = FALSE /\ license' = 0
            /\ call' = [call EXCEPT ![t].op = "open"] /\ Goto(t, "lock")
       ELSE Return(t) /\ UNCHANGED << init, license >>
    /\ UNCHANGED << location, counts >>

OpenFinish(t) ==
    /\ Finishing(t, {"open"})
    /\ Return(t)
    /\ init' = (init \/ call[t].ok)
    /\ UNCHANGED << location, license, counts >>

(* The Count object copies tmp_count after the mutex was released. *)
CountFinish(t) ==
    /\ Finishing(t, {"count"})
    /\ Return(t)
    /\ counts' = IF call[t].ok
                 THEN counts \cup { [asked |-> call[t].q, handle |-> tmpCount] }
                 ELSE counts
    /\ UNCHANGED << init, location, license >>

ReleaseGil(t) ==
    /\ pc[t] \in { "get_location", "buildmode" }
    /\ gil' = NoThread /\ Return(t)
    /\ UNCHANGED << mtx, alive, index, objects, opens, library, overlap,
                    history >>

(* An unreferenced result object closes its handle; no lock is needed      *)
(* since no call on the object can be in progress.                         *)
DropSearch ==
    \E s \in searches :
        /\ gil = NoThread
        /\ searches' = searches \ {s} /\ live' = live \ {s.handle}
        /\ UNCHANGED << pc, call, gil, mtx, alive, index, counts, opens, opened,
                        docOpen, occupied, top, issued, overlap, history >>

DropCount ==
    \E c \in counts :
        /\ gil = NoThread
        /\ counts' = counts \ {c} /\ live' = live \ {c.handle}
        /\ UNCHANGED << pc, call, gil, mtx, alive, index, searches, opens,
                        opened, docOpen, occupied, top, issued, overlap,
                        history >>

----------------------------------------------------------------------------
Call(t) ==
    \/ DeleteDocid(t) \/ SetParseFlags(t) \/ AddField(t) \/ SetDocDate(t)
    \/ SetDocData(t) \/ GetMaxLocation(t) \/ GetTotalDocs(t)
    \/ BuildmodeTiers(t) \/ Querymode(t) \/ Compact(t) \/ CompactionNeeded(t)
    \/ GetIndexMode(t) \/ GetIndexVersion(t) \/ MakeStable(t) \/ Timer(t)
    \/ Version(t) \/ LicenseInfo(t) \/ EndDoc(t) \/ StartDoc(t) \/ AddWords(t)
    \/ AddLiteral(t) \/ AddDate(t) \/ AddFieldWords(t) \/ Open(t) \/ Close(t)
    \/ Search(t) \/ Count(t) \/ GetLocation(t) \/ Buildmode(t) \/ Destroy(t)

Lib(t) ==
    \/ PlainLib(t) \/ StartDocLib(t) \/ EndDocLib(t) \/ AddTextLib(t)
    \/ AddFieldWordsLib(t) \/ MarkField(t) \/ CloseLib(t) \/ OpenLib(t)
    \/ CountLib(t) \/ SearchLib(t)

Finish(t) ==
    \/ SearchFinish(t) \/ PlainFinish(t) \/ AddTextFinish(t) \/ CloseFinish(t)
    \/ DestroyFinish(t) \/ ReopenFinish(t) \/ OpenFinish(t) \/ CountFinish(t)
    \/ ReleaseGil(t)

(* A step of a call that has begun. *)
Step(t) ==
    \/ MtLock(t) \/ SearchYield(t) \/ MtUnlock(t) \/ ThreadsDisallow(t)
    \/ Lib(t) \/ Finish(t)

Next ==
    \/ \E t \in Threads : Call(t) \/ Step(t)
    \/ DropSearch \/ DropCount \/ Create

Spec == Init /\ [][Next]_vars

(* The scheduler runs some thread that can run; no thread has to call. *)
Fairness == WF_vars(\E t \in Threads : Step(t))
FairSpec == Spec /\ Fairness

----------------------------------------------------------------------------
InCall(t) == pc[t] = "lib" \/ pc[t] = "field" \/ pc[t] = "buildmode"

(* Two threads are never inside the library with the same index at the     *)
(* same time, with one exception: buildmode() without an argument calls it *)
(* without taking the mutex (f_buildmode, AVS_LOCK).                       *)
HandleExclusive ==
    \A t, u \in Threads :
        t # u /\ InCall(t) /\ InCall(u) => "buildmode" \in { pc[t], pc[u] }

(* A thread keeps the index mutex only while it is between mt_lock and     *)
(* mt_unlock, unless a search has failed in the library: f_avs_search then *)
(* raises without unlocking.                                               *)
MutexReleased ==
    \A t \in Threads : mtx = t => pc[t] \in Locked \/ searchFailed

(* Whatever other threads do with the index meanwhile, the Search object a *)
(* caller gets holds the result of its own query, open, and no other       *)
(* Search object shares it (tmp_search is copied under the mutex).         *)
SearchResultIsOwn ==
    \A s \in searches :
        /\ s.handle \in live
        /\ issued[s.handle] = [kind |-> "search", q |-> s.asked]
        /\ \A r \in searches : r.handle = s.handle => r = s

(* A caller waits while it is inside search(), and the result an object    *)
(* holds is about the query the library was given.                         *)
Waiting == [t \in Threads |-> IF Busy(t, {"search"}) THEN call[t].q ELSE NoQuery]

About(h) == IF h \in 1 .. Len(issued) THEN issued[h].q ELSE NoQuery

Answers == { [asked |-> s.asked, about |-> About(s.handle),
              handle |-> s.handle] : s \in searches }

Service == INSTANCE SearchService
               WITH Callers <- Threads, Questions <- Queries,
                    Nothing <- NoQuery, waiting <- Waiting, answers <- Answers

(* For its callers search() is one indivisible answer to their own query,  *)
(* or an error, although f_avs_search drops and takes two locks and hands  *)
(* its result over through the shared object.                              *)
SearchIsService == Service!Spec

(* Unless two threads were adding to the index at once, no word is put at  *)
(* a location that another word has (location, avs_addword).               *)
WordsDisjoint == "writers" \notin overlap => ~clash

(* Unless two threads were adding to the index at once, the field marked   *)
(* by add_field_words is where its own words went.                         *)
FieldsExact == "writers" \notin overlap => ~misfield

(* Unless two open, close or destroy calls were in progress at once, every *)
(* handle the library has open is the one the index holds or one whose     *)
(* avs_close failed, and an index that believes it is open is.             *)
HandlesAccounted ==
    "lifecycle" \notin overlap =>
        /\ opened \subseteq {handle} \cup closeFailed
        /\ init /\ (\A t \in Threads : ~Busy(t, LifecycleOps))
              => handle \in opened

(* When every thread is inside a call, one of them comes back, unless a    *)
(* failed search has left the mutex locked for good.                       *)
SomeCallReturns ==
    (\A t \in Threads : pc[t] # "idle")
        ~> (\E t \in Threads : pc[t] = "idle") \/ searchFailed

(* index.c:938: count "enumerates all the words beginning with a specified *)
(* prefix", so the object returned is about the prefix asked for.          *)
CountIsOfPrefix ==
    \A c \in counts : issued[c.handle].q = c.asked

(* index.c:99: open "needs to keep a local copy of the license string":    *)
(* the copy it passes to avs_open has not been freed.                      *)
LicenseCopyKept ==
    \A t \in Threads :
        pc[t] = "lib" /\ call[t].op = "open" /\ call[t].lic # 0
            => call[t].lic = license
=============================================================================
