-------------------------- MODULE AvsIndex_proofs --------------------------
(***************************************************************************)
(* Proofs about an AVS index shared by threads: its locking, the results   *)
(* it hands out, its handle and the locations of its words, for any number *)
(* of threads, any assignment of operations to them and any bounds.        *)
(***************************************************************************)
EXTENDS AvsIndex, SequenceTheorems, TLAPS

(* A thread inside search or count carries the query it was asked; only    *)
(* search copies its result under the mutex, and only add_field_words      *)
(* marks a field; the two calls that keep the interpreter lock stay where  *)
(* they are.                                                               *)
QueryCarried ==
    \A t \in Threads :
        /\ pc[t] # "idle" /\ call[t].op \in ResultOps => call[t].q \in Queries
        /\ pc[t] = "clone" => call[t].op = "search"
        /\ pc[t] = "field" => call[t].op = "add_field_words"
        /\ pc[t] \in { "get_location", "buildmode" } => call[t].op = pc[t]

(* The locals a call begins with: search and count are given a query, an   *)
(* open index is closed first by open and close, open is numbered, and     *)
(* add_field_words has read location.                                      *)
Fresh(c) ==
    /\ c.op \in ResultOps => c.q \in Queries
    /\ c.op \in LifecycleOps =>
          c.op \in (IF init THEN { "reopen", "close" } ELSE { "open" })
    /\ c.op \in { "open", "reopen" } => c.n # 0
    /\ c.op = "add_field_words" => c.start = location

(* How any call but get_location, buildmode and destroy begins, unless it  *)
(* is a close of an index that is not open.                                *)
Begins(t) ==
    \E name \in OpNames, c \in Calls :
        /\ Begin(t, name, c) /\ Fresh(c)
        /\ opens' \in Nat /\ license' \in Nat
        /\ UNCHANGED << init, handle, location, tmpSearch, tmpCount >>

(* The locals a call begins with are well formed. *)
LEMMA FreshLocals ==
    ASSUME NEW o \in OpNames, NEW n \in Nat, NEW c,
           \/ c = [NoCall EXCEPT !.op = o]
           \/ c = [NoCall EXCEPT !.op = o, !.n = n]
    PROVE  c \in Calls /\ c.op = o
<1>1. CASE c = [NoCall EXCEPT !.op = o]
  BY <1>1 DEF NoCall, Calls
<1>2. CASE c = [NoCall EXCEPT !.op = o, !.n = n]
  BY <1>2 DEF NoCall, Calls
<1> QED BY <1>1, <1>2

(* No call at all is a well-formed call. *)
LEMMA NoCallIsCall == NoCall \in Calls
BY DEF NoCall, Calls, OpNames

(* The operations without data begin with fresh locals. *)
LEMMA PlainBegins ==
    ASSUME TypeOK, NEW t \in Threads, NEW o \in OpNames, o \notin ResultOps,
           o \notin LifecycleOps \/ (o = "close" /\ init),
           o # "add_field_words", Plain(t, o)
    PROVE  Begins(t)
<1> DEFINE c == [NoCall EXCEPT !.op = o]
<1>1. c \in Calls /\ c.op = o
  BY FreshLocals
<1>2. /\ Begin(t, o, c) /\ opens' \in Nat /\ license' \in Nat
      /\ UNCHANGED << init, handle, location, tmpSearch, tmpCount >>
  BY DEF Plain, index, TypeOK
<1> HIDE DEF c
<1>3. Fresh(c)
  BY <1>1 DEF Fresh, LifecycleOps
<1> QED BY <1>1, <1>2, <1>3 DEF Begins

(* The word operations begin a call with their number of words. *)
LEMMA AddTextBegins ==
    ASSUME TypeOK, NEW t \in Threads, NEW o \in WordOps, NEW n \in Nat,
           AddText(t, o, n)
    PROVE  Begins(t)
<1> DEFINE c == [NoCall EXCEPT !.op = o, !.n = n]
<1>0. /\ o \in OpNames /\ o \notin ResultOps /\ o \notin LifecycleOps
      /\ o \notin { "open", "reopen", "add_field_words" }
  BY DEF WordOps, OpNames, LocationOps, ResultOps, LifecycleOps
<1>1. c \in Calls /\ c.op = o
  BY <1>0, FreshLocals
<1>2. /\ Begin(t, o, c) /\ opens' \in Nat /\ license' \in Nat
      /\ UNCHANGED << init, handle, location, tmpSearch, tmpCount >>
  BY DEF AddText, index, TypeOK
<1> HIDE DEF c
<1>3. Fresh(c)
  BY <1>0, <1>1 DEF Fresh
<1> QED BY <1>0, <1>1, <1>2, <1>3 DEF Begins

(* add_field_words begins with the location read before the lock. *)
LEMMA AddFieldWordsBegins ==
    ASSUME TypeOK, NEW t \in Threads, AddFieldWords(t)
    PROVE  Begins(t)
<1> DEFINE o == "add_field_words"
           c(n) == [NoCall EXCEPT !.op = o, !.n = n, !.start = location]
<1>1. PICK n \in WordCounts : /\ Begin(t, o, c(n))
                              /\ UNCHANGED << index, opens >>
  BY DEF AddFieldWords
<1>2. o \in OpNames /\ o \notin ResultOps /\ o \notin LifecycleOps
      /\ o \notin { "open", "reopen" }
  BY DEF OpNames, LocationOps, ResultOps, LifecycleOps
<1>3. n \in Nat /\ location \in Nat
  BY BoundsAssumption DEF TypeOK
<1>4. c(n) \in Calls /\ c(n).op = o /\ c(n).start = location
  <2> HIDE DEF o
  <2> QED BY <1>2, <1>3 DEF NoCall, Calls
<1>5. /\ opens' \in Nat /\ license' \in Nat
      /\ UNCHANGED << init, handle, location, tmpSearch, tmpCount >>
  BY <1>1 DEF index, TypeOK
<1>6. Fresh(c(n))
  <2> HIDE DEF c, o
  <2> QED BY <1>2, <1>4 DEF Fresh
<1> HIDE DEF c, o
<1> QED BY <1>1, <1>2, <1>4, <1>5, <1>6 DEF Begins

(* open begins as an open or a reopen. *)
LEMMA OpenBegins ==
    ASSUME TypeOK, NEW t \in Threads, Open(t)
    PROVE  Begins(t)
<1> DEFINE o == IF init THEN "reopen" ELSE "open"
           c(l) == [NoCall EXCEPT !.op  = o, !.n = opens + 1,
                                  !.lic = IF l THEN opens + 1 ELSE 0]
<1>1. PICK l \in LicenseArgs : /\ license' = IF l THEN opens + 1 ELSE license
                               /\ Begin(t, "open", c(l))
  BY DEF Open
<1>2. "open" \in OpNames /\ o \in OpNames /\ o \notin ResultOps
  BY DEF OpNames, LifecycleOps, ResultOps
<1>3. opens + 1 \in Nat /\ opens + 1 # 0 /\ (IF l THEN opens + 1 ELSE 0) \in Nat
  BY DEF TypeOK
<1>4. c(l) \in Calls /\ c(l).op = o /\ c(l).n # 0
  <2> HIDE DEF o
  <2> QED BY <1>2, <1>3 DEF NoCall, Calls
<1>5. /\ opens' \in Nat /\ license' \in Nat
      /\ UNCHANGED << init, handle, location, tmpSearch, tmpCount >>
  BY <1>1, <1>3 DEF Open, TypeOK
<1>6. Fresh(c(l))
  <2>1. o \in (IF init THEN { "reopen", "close" } ELSE { "open" })
        /\ o # "add_field_words"
    OBVIOUS
  <2> HIDE DEF c, o
  <2> QED BY <1>2, <1>4, <2>1 DEF Fresh
<1> HIDE DEF c, o
<1> QED BY <1>1, <1>2, <1>4, <1>5, <1>6 DEF Begins

(* The locals of search and count only have to carry a query. *)
LEMMA QueryIsFresh ==
    ASSUME NEW c \in Calls, c.op \in ResultOps, c.q \in Queries
    PROVE  Fresh(c)
BY DEF Fresh, ResultOps, LifecycleOps

(* search and count begin with a query. *)
LEMMA ResultBegins ==
    ASSUME TypeOK, NEW t \in Threads, Search(t) \/ Count(t)
    PROVE  Begins(t)
<1>1. "search" \in OpNames /\ "count" \in OpNames
      /\ "search" \in ResultOps /\ "count" \in ResultOps
  BY DEF OpNames, ResultOps
<1>2. CASE Search(t)
  <2> DEFINE c(q, n) == [NoCall EXCEPT !.op = "search", !.q = q, !.n = n]
  <2>1. PICK q \in Queries, n \in {0, 1} : /\ Begin(t, "search", c(q, n))
                                           /\ UNCHANGED << index, opens >>
    BY <1>2 DEF Search
  <2>2. c(q, n) \in Calls /\ c(q, n).op = "search" /\ c(q, n).q \in Queries
    <3>1. n \in Nat
      BY <2>1
    <3>2. c(q, n).op = "search" /\ c(q, n).q = q
      BY DEF NoCall
    <3>3. c(q, n) \in Calls
      BY <1>1, <3>1 DEF NoCall, Calls
    <3> QED BY <3>2, <3>3
  <2>3. /\ opens' \in Nat /\ license' \in Nat
        /\ UNCHANGED << init, handle, location, tmpSearch, tmpCount >>
    BY <2>1 DEF index, TypeOK
  <2> HIDE DEF c
  <2>4. Fresh(c(q, n))
    BY <1>1, <2>2, QueryIsFresh
  <2> QED BY <1>1, <2>1, <2>2, <2>3, <2>4 DEF Begins
<1>3. CASE Count(t)
  <2> DEFINE c(q) == [NoCall EXCEPT !.op = "count", !.q = q]
  <2>1. PICK q \in Queries : /\ Begin(t, "count", c(q))
                             /\ UNCHANGED << index, opens >>
    BY <1>3 DEF Count
  <2>2. c(q) \in Calls /\ c(q).op = "count" /\ c(q).q \in Queries
    BY <1>1 DEF NoCall, Calls
  <2>3. /\ opens' \in Nat /\ license' \in Nat
        /\ UNCHANGED << init, handle, location, tmpSearch, tmpCount >>
    BY <2>1 DEF index, TypeOK
  <2> HIDE DEF c
  <2>4. Fresh(c(q))
    BY <1>1, <2>2, QueryIsFresh
  <2> QED BY <1>1, <2>1, <2>2, <2>3, <2>4 DEF Begins
<1> QED BY <1>2, <1>3

(* Every operation of Call(t) begins in one of five ways. *)
LEMMA CallShapes ==
    ASSUME TypeOK, NEW t \in Threads, Call(t)
    PROVE  Begins(t) \/ Close(t) \/ GetLocation(t) \/ Buildmode(t) \/ Destroy(t)
<1>1. CASE AddWords(t) \/ AddLiteral(t) \/ AddDate(t)
  <2>1. { "add_words", "add_literal", "add_date" } \subseteq WordOps
    BY DEF WordOps
  <2> QED BY <1>1, <2>1, BoundsAssumption, AddTextBegins
          DEF AddWords, AddLiteral, AddDate
<1>2. CASE StartDoc(t) \/ EndDoc(t)
  <2>1. /\ { "start_doc", "end_doc" } \subseteq OpNames
        /\ { "start_doc", "end_doc" } \cap ResultOps = {}
        /\ { "start_doc", "end_doc" } \cap LifecycleOps = {}
    BY DEF OpNames, LocationOps, ResultOps, LifecycleOps
  <2> QED BY <1>2, <2>1, PlainBegins DEF StartDoc, EndDoc
<1>3. CASE \E o \in PlainOps : Plain(t, o)
  <2>1. /\ PlainOps \subseteq OpNames /\ PlainOps \cap ResultOps = {}
        /\ PlainOps \cap LifecycleOps = {} /\ "add_field_words" \notin PlainOps
    BY DEF PlainOps, OpNames, ResultOps, LifecycleOps
  <2> QED BY <1>3, <2>1, PlainBegins
<1>4. \/ Close(t) \/ GetLocation(t) \/ Buildmode(t) \/ Destroy(t)
      \/ AddFieldWords(t) \/ Open(t) \/ Search(t) \/ Count(t)
      \/ AddWords(t) \/ AddLiteral(t) \/ AddDate(t)
      \/ StartDoc(t) \/ EndDoc(t)
      \/ \E o \in PlainOps : Plain(t, o)
  BY DEF Call, PlainOps, DeleteDocid, SetParseFlags, AddField, SetDocDate,
         SetDocData, GetMaxLocation, GetTotalDocs, BuildmodeTiers, Querymode,
         Compact, CompactionNeeded, GetIndexMode, GetIndexVersion, MakeStable,
         Timer, Version, LicenseInfo
<1> QED BY <1>1, <1>2, <1>3, <1>4, AddFieldWordsBegins, OpenBegins, ResultBegins

----------------------------------------------------------------------------
(* What a step of thread t does to the places and locals: the thread moves *)
(* on, keeps what it was called with, and keeps its operation unless open  *)
(* goes on after closing the old index.                                    *)
Moves(t) ==
    \E p \in Places, d \in Calls :
        /\ pc[t] # "idle"
        /\ pc' = [pc EXCEPT ![t] = p]
        /\ call' = [call EXCEPT ![t] = d]
        /\ p # "idle" =>
              /\ d.q = call[t].q /\ d.n = call[t].n /\ d.start = call[t].start
              /\ d.op = call[t].op \/ (call[t].op = "reopen" /\ d.op = "open")
        /\ p = "clone" => d.op = "search"
        /\ p = "field" => d.op = "add_field_words"
        /\ p \notin { "get_location", "buildmode" }

(* The verdict of the library leaves the other locals alone. *)
LEMMA VerdictKeeps ==
    ASSUME NEW c \in Calls, NEW b \in BOOLEAN
    PROVE  /\ [c EXCEPT !.ok = b] \in Calls
           /\ [c EXCEPT !.ok = b].op = c.op /\ [c EXCEPT !.ok = b].q = c.q
           /\ [c EXCEPT !.ok = b].n = c.n /\ [c EXCEPT !.ok = b].ok = b
           /\ [c EXCEPT !.ok = b].start = c.start
           /\ [c EXCEPT !.ok = b].loc = c.loc
BY DEF Calls

(* A library call succeeds or fails. *)
LEMMA OutcomesBoolean ==
    ASSUME NEW t, NEW b \in BOOLEAN PROVE Outcomes(t, b) \subseteq BOOLEAN
BY DEF Outcomes

(* The library calls move the thread on. *)
LEMMA LibMoves ==
    ASSUME TypeOK, NEW t \in Threads, Lib(t)
    PROVE  Moves(t)
<1>1. call[t] \in Calls
  BY DEF TypeOK
<1>2. ASSUME NEW ok \in BOOLEAN, NEW p \in Places, pc[t] # "idle",
             p = "clone" => call[t].op = "search",
             p \notin { "field", "get_location", "buildmode" },
             Verdict(t, ok), Goto(t, p)
      PROVE  Moves(t)
  <2>1. call' = [call EXCEPT ![t] = [call[t] EXCEPT !.ok = ok]]
    BY <1>2 DEF Verdict
  <2>2. PICK d \in Calls : /\ d = [call[t] EXCEPT !.ok = ok]
                           /\ d.op = call[t].op /\ d.q = call[t].q
                           /\ d.n = call[t].n /\ d.start = call[t].start
    BY <1>1, VerdictKeeps
  <2> QED BY <1>2, <2>1, <2>2 DEF Moves, Goto
<1>3. "unlock" \in Places /\ "clone" \in Places /\ "field" \in Places
  BY DEF Places
<1>4. CASE PlainLib(t) \/ StartDocLib(t) \/ EndDocLib(t) \/ AddTextLib(t)
           \/ CloseLib(t) \/ OpenLib(t) \/ CountLib(t)
  <2>1. PICK ok \in BOOLEAN : Verdict(t, ok) /\ Goto(t, "unlock") /\ pc[t] = "lib"
    <3>1. CASE PlainLib(t)
      BY <3>1 DEF PlainLib, InLibrary, Outcomes
    <3>2. CASE StartDocLib(t)
      BY <3>2 DEF StartDocLib, InLibrary, Outcomes
    <3>3. CASE EndDocLib(t)
      BY <3>3 DEF EndDocLib, InLibrary, Outcomes
    <3>4. CASE AddTextLib(t)
      BY <3>4 DEF AddTextLib, InLibrary, Outcomes
    <3>5. CASE CloseLib(t)
      BY <3>5 DEF CloseLib, InLibrary, Outcomes
    <3>6. CASE OpenLib(t)
      BY <3>6 DEF OpenLib, InLibrary, Outcomes
    <3>7. CASE CountLib(t)
      BY <3>7 DEF CountLib, InLibrary, Outcomes
    <3> QED BY <1>4, <3>1, <3>2, <3>3, <3>4, <3>5, <3>6, <3>7
  <2> QED BY <1>2, <1>3, <2>1
<1>5. CASE MarkField(t)
  <2>1. PICK ok \in BOOLEAN : Verdict(t, ok) /\ Goto(t, "unlock") /\ pc[t] = "field"
    BY <1>5, OutcomesBoolean DEF MarkField
  <2> QED BY <1>2, <1>3, <2>1
<1>6. CASE SearchLib(t)
  <2>1. PICK ok \in BOOLEAN : Verdict(t, ok) /\ Goto(t, "clone")
                          /\ pc[t] = "lib" /\ call[t].op = "search"
    <3>1. PICK ok \in Outcomes(t, handle \in opened) :
             /\ Verdict(t, ok \/ call[t].n = 0) /\ Goto(t, "clone")
             /\ pc[t] = "lib" /\ call[t].op = "search"
      BY <1>6 DEF SearchLib
    <3> QED BY <3>1, OutcomesBoolean
  <2> QED BY <1>2, <1>3, <2>1
<1>7. CASE AddFieldWordsLib(t)
  <2>1. PICK ok \in BOOLEAN :
           /\ pc[t] = "lib" /\ call[t].op = "add_field_words"
           /\ call' = [call EXCEPT ![t].ok = ok, ![t].loc = location]
           /\ Goto(t, IF ok THEN "field" ELSE "unlock")
    BY <1>7, OutcomesBoolean DEF AddFieldWordsLib, InLibrary
  <2> DEFINE d == [[call[t] EXCEPT !.ok = ok] EXCEPT !.loc = location]
  <2>2. /\ d \in Calls /\ d.op = call[t].op /\ d.q = call[t].q
        /\ d.n = call[t].n /\ d.start = call[t].start
    BY <1>1 DEF TypeOK, Calls
  <2>3. call' = [call EXCEPT ![t] = d]
    BY <2>1 DEF TypeOK
  <2> HIDE DEF d
  <2>4. CASE ok
    <3>1. pc' = [pc EXCEPT ![t] = "field"]
      BY <2>1, <2>4 DEF Goto
    <3>2. pc[t] # "idle" /\ d.op = "add_field_words"
      BY <2>1, <2>2
    <3> QED BY <1>3, <2>2, <2>3, <3>1, <3>2 DEF Moves
  <2>5. CASE ~ok
    <3>1. pc' = [pc EXCEPT ![t] = "unlock"]
      BY <2>1, <2>5 DEF Goto
    <3>2. pc[t] # "idle"
      BY <2>1
    <3> QED BY <1>3, <2>2, <2>3, <3>1, <3>2 DEF Moves
  <2> QED BY <2>4, <2>5
<1> QED BY <1>4, <1>5, <1>6, <1>7 DEF Lib

(* So does every other step of a call. *)
LEMMA StepMoves ==
    ASSUME TypeOK, NEW t \in Threads, Step(t)
    PROVE  Moves(t)
<1>1. call[t] \in Calls /\ call \in [Threads -> Calls]
  BY DEF TypeOK
<1>2. NoCall \in Calls
  BY NoCallIsCall
<1>3. { "lock", "yield", "lib", "resume", "finish", "idle" } \subseteq Places
  BY DEF Places
<1>4. CASE MtLock(t) \/ SearchYield(t) \/ MtUnlock(t)
  <2>1. /\ call' = [call EXCEPT ![t] = call[t]] /\ pc[t] # "idle"
        /\ \E p \in { "yield", "lib", "resume" } : pc' = [pc EXCEPT ![t] = p]
    BY <1>1, <1>4 DEF MtLock, SearchYield, MtUnlock, Goto
  <2> QED BY <1>1, <1>3, <2>1 DEF Moves
<1>5. CASE ThreadsDisallow(t)
  <2> DEFINE d == [call[t] EXCEPT !.loc = location]
  <2>1. /\ d \in Calls /\ d.op = call[t].op /\ d.q = call[t].q
        /\ d.n = call[t].n /\ d.start = call[t].start
    BY <1>1 DEF TypeOK, Calls
  <2>2. /\ call' = [call EXCEPT ![t] = d]
        /\ pc[t] # "idle" /\ pc' = [pc EXCEPT ![t] = "finish"]
    BY <1>5 DEF ThreadsDisallow, Goto
  <2> HIDE DEF d
  <2> QED BY <1>3, <2>1, <2>2 DEF Moves
<1>6. CASE Return(t) /\ pc[t] # "idle"
  BY <1>2, <1>3, <1>6 DEF Return, Moves, Goto
<1>7. CASE ReopenFinish(t) /\ ~Return(t)
  <2> DEFINE d == [call[t] EXCEPT !.op = "open"]
  <2>1. /\ d \in Calls /\ d.op = "open" /\ d.q = call[t].q
        /\ d.n = call[t].n /\ d.start = call[t].start
    BY <1>1 DEF Calls, OpNames, LifecycleOps
  <2>2. /\ call' = [call EXCEPT ![t] = d] /\ call[t].op = "reopen"
        /\ pc[t] # "idle" /\ pc' = [pc EXCEPT ![t] = "lock"]
    BY <1>7 DEF ReopenFinish, Finishing, Goto
  <2> HIDE DEF d
  <2> QED BY <1>3, <2>1, <2>2 DEF Moves
<1>8. ASSUME Finish(t)
      PROVE  (Return(t) /\ pc[t] # "idle") \/ (ReopenFinish(t) /\ ~Return(t))
  BY <1>8
     DEF Finish, SearchFinish, PlainFinish, AddTextFinish, CloseFinish,
         DestroyFinish, ReopenFinish, OpenFinish, CountFinish, ReleaseGil,
         Finishing
<1> QED BY <1>4, <1>5, <1>6, <1>7, <1>8, LibMoves DEF Step

----------------------------------------------------------------------------
(* Type correctness, apart from the places and locals. *)
RestOK ==
    /\ gil \in Threads \cup {NoThread} /\ mtx \in Threads \cup {NoThread}
    /\ alive \in BOOLEAN /\ init \in BOOLEAN
    /\ handle \in Nat /\ location \in Nat
    /\ tmpSearch \in Nat /\ tmpCount \in Nat /\ license \in Nat
    /\ searches \subseteq Objects /\ counts \subseteq Objects
    /\ opens \in Nat /\ opened \subseteq Nat /\ docOpen \in BOOLEAN
    /\ occupied \subseteq Nat /\ top \in Nat
    /\ issued \in Seq(Results) /\ live \subseteq Nat
    /\ overlap \subseteq { "writers", "lifecycle" }
    /\ clash \in BOOLEAN /\ misfield \in BOOLEAN
    /\ closeFailed \subseteq Nat /\ searchFailed \in BOOLEAN

(* Every step keeps the places and locals well formed. *)
LEMMA MovesTyped ==
    ASSUME TypeOK, QueryCarried, NEW t \in Threads,
           Begins(t) \/ HoldGil(t, "get_location") \/ HoldGil(t, "buildmode")
             \/ Destroy(t) \/ Moves(t) \/ UNCHANGED << pc, call >>
    PROVE  /\ pc' \in [Threads -> Places] /\ call' \in [Threads -> Calls]
           /\ QueryCarried'
<1>1. { "lock", "get_location", "buildmode" } \subseteq Places
  BY DEF Places
<1>2. CASE Begins(t)
  <2>1. PICK c \in Calls : /\ c.op \in ResultOps => c.q \in Queries
                           /\ pc' = [pc EXCEPT ![t] = "lock"]
                           /\ call' = [call EXCEPT ![t] = c]
    BY <1>2 DEF Begins, Begin, Goto, Fresh
  <2> QED BY <1>1, <2>1 DEF TypeOK, QueryCarried
<1>3. ASSUME NEW o \in OpNames, NEW p \in Places, o \notin ResultOps,
             p \notin { "clone", "field" },
             p \in { "get_location", "buildmode" } => o = p,
             pc' = [pc EXCEPT ![t] = p],
             call' = [call EXCEPT ![t] = [NoCall EXCEPT !.op = o]]
      PROVE  /\ pc' \in [Threads -> Places] /\ call' \in [Threads -> Calls]
             /\ QueryCarried'
  <2>1. /\ [NoCall EXCEPT !.op = o] \in Calls
        /\ [NoCall EXCEPT !.op = o].op = o
    BY <1>3 DEF NoCall, Calls
  <2> QED BY <1>3, <2>1 DEF TypeOK, QueryCarried
<1>4. CASE HoldGil(t, "get_location") \/ HoldGil(t, "buildmode")
  <2>1. /\ { "get_location", "buildmode" } \subseteq OpNames
        /\ { "get_location", "buildmode" } \cap ResultOps = {}
    BY DEF OpNames, ResultOps
  <2> QED BY <1>1, <1>3, <1>4, <2>1 DEF HoldGil, Goto
<1>5. CASE Destroy(t)
  <2>1. "destroy" \in OpNames /\ "destroy" \notin ResultOps
    BY DEF OpNames, LifecycleOps, ResultOps
  <2>2. CASE init
    BY <1>1, <1>3, <1>5, <2>1, <2>2 DEF Destroy, Goto
  <2>3. CASE ~init
    BY <1>5, <2>3 DEF Destroy, TypeOK, QueryCarried
  <2> QED BY <2>2, <2>3
<1>6. CASE Moves(t)
  <2>1. PICK p \in Places, d \in Calls :
           /\ pc[t] # "idle"
           /\ pc' = [pc EXCEPT ![t] = p] /\ call' = [call EXCEPT ![t] = d]
           /\ p # "idle" =>
                 /\ d.q = call[t].q
                 /\ d.op = call[t].op \/ (call[t].op = "reopen" /\ d.op = "open")
           /\ p = "clone" => d.op = "search"
           /\ p = "field" => d.op = "add_field_words"
           /\ p \notin { "get_location", "buildmode" }
    BY <1>6 DEF Moves
  <2>2. "open" \notin ResultOps
    BY DEF ResultOps
  <2> QED BY <2>1, <2>2 DEF TypeOK, QueryCarried
<1>7. CASE UNCHANGED << pc, call >>
  BY <1>7 DEF TypeOK, QueryCarried
<1> QED BY <1>2, <1>4, <1>5, <1>6, <1>7 DEF HoldGil

(* The calls into the library leave the rest well formed, *)
LEMMA LibTyped ==
    ASSUME TypeOK, QueryCarried, NEW t \in Threads, Lib(t)
    PROVE  RestOK'
<1>1. /\ call[t] \in Calls /\ call[t].n \in Nat /\ call[t].loc \in Nat
      /\ RestOK
  BY DEF TypeOK, Calls, RestOK
<1>2. \A first, n \in Nat : Span(first, n) \subseteq Nat /\ first + n - 1 \in Int
  BY DEF Span
<1>3. ASSUME NEW first \in Nat, Place(first, call[t].n)
      PROVE  occupied' \subseteq Nat /\ top' \in Nat /\ clash' \in BOOLEAN
  <2>1. occupied' \subseteq Nat /\ clash' \in BOOLEAN
    BY <1>1, <1>2, <1>3 DEF Place, RestOK
  <2>2. top' = IF first + call[t].n - 1 > top THEN first + call[t].n - 1 ELSE top
    BY <1>3 DEF Place
  <2>3. top' \in Nat
    BY <1>1, <2>2 DEF RestOK
  <2> QED BY <2>1, <2>3
<1>4. ASSUME NEW kind \in ResultOps, call[t].q \in Queries,
             Issue(kind, call[t].q)
      PROVE  /\ issued' \in Seq(Results) /\ live' \subseteq Nat
             /\ Len(issued) + 1 \in Nat
  <2>1. [kind |-> kind, q |-> call[t].q] \in Results
    BY <1>4 DEF Results
  <2>2. issued \in Seq(Results) /\ Len(issued) + 1 \in Nat
    BY <1>1, LenProperties DEF RestOK
  <2> QED BY <1>1, <1>4, <2>1, <2>2, AppendProperties DEF Issue, RestOK
<1>5. pc[t] = "lib" /\ call[t].op \in ResultOps => call[t].q \in Queries
  BY DEF QueryCarried
<1>6. CASE PlainLib(t)
  BY <1>1, <1>6 DEF PlainLib, InLibrary, RestOK, objects, library, history, Outcomes
<1>7. CASE StartDocLib(t)
  BY <1>1, <1>7 DEF StartDocLib, InLibrary, RestOK, objects, library, history, Outcomes
<1>8. CASE EndDocLib(t)
  BY <1>1, <1>8 DEF EndDocLib, InLibrary, RestOK, objects, library, history, Outcomes
<1>9. CASE CloseLib(t)
  BY <1>1, <1>9 DEF CloseLib, InLibrary, RestOK, objects, library, history, Outcomes
<1>10. CASE OpenLib(t)
  BY <1>1, <1>10 DEF OpenLib, InLibrary, RestOK, objects, library, history, Outcomes
<1>11. CASE AddTextLib(t)
  <2>1. occupied' \subseteq Nat /\ top' \in Nat /\ clash' \in BOOLEAN
    BY <1>1, <1>3, <1>11 DEF AddTextLib, RestOK
  <2> QED BY <1>1, <1>11, <2>1 DEF AddTextLib, InLibrary, RestOK, objects
<1>12. CASE AddFieldWordsLib(t)
  <2>1. occupied' \subseteq Nat /\ top' \in Nat /\ clash' \in BOOLEAN
    BY <1>1, <1>3, <1>12 DEF AddFieldWordsLib, RestOK
  <2> QED BY <1>1, <1>12, <2>1 DEF AddFieldWordsLib, InLibrary, RestOK, objects
<1>13. CASE MarkField(t)
  <2>1. location' \in Nat /\ misfield' \in BOOLEAN
    BY <1>1, <1>13 DEF MarkField, RestOK
  <2> QED BY <1>1, <1>13, <2>1 DEF MarkField, RestOK, objects, library
<1>14. CASE CountLib(t)
  <2>1. "count" \in ResultOps /\ call[t].q \in Queries
    BY <1>5, <1>14 DEF CountLib, InLibrary, ResultOps
  <2>2. issued' \in Seq(Results) /\ live' \subseteq Nat /\ tmpCount' \in Nat
    BY <1>1, <1>4, <1>14, <2>1 DEF CountLib, RestOK
  <2> QED BY <1>1, <1>14, <2>2 DEF CountLib, InLibrary, RestOK, objects, history
<1>15. CASE SearchLib(t)
  <2>1. "search" \in ResultOps /\ call[t].q \in Queries
    BY <1>5, <1>15 DEF SearchLib, InLibrary, ResultOps
  <2>2. issued' \in Seq(Results) /\ live' \subseteq Nat /\ tmpSearch' \in Nat
    BY <1>1, <1>4, <1>15, <2>1 DEF SearchLib, RestOK
  <2> QED BY <1>1, <1>15, <2>2 DEF SearchLib, InLibrary, RestOK, objects, history
<1> QED BY <1>6, <1>7, <1>8, <1>9, <1>10, <1>11, <1>12, <1>13, <1>14, <1>15 DEF Lib

(* and so do the other steps of a call. *)
LEMMA StepTyped ==
    ASSUME TypeOK, QueryCarried, NEW t \in Threads, Step(t)
    PROVE  RestOK'
<1>1. /\ call[t] \in Calls /\ call[t].n \in Nat /\ call[t].loc \in Nat
      /\ call[t].ok \in BOOLEAN /\ RestOK
  BY DEF TypeOK, Calls, RestOK
<1>2. CASE MtLock(t) \/ SearchYield(t) \/ MtUnlock(t) \/ ThreadsDisallow(t)
  BY <1>1, <1>2 DEF MtLock, SearchYield, MtUnlock, ThreadsDisallow, RestOK,
                    index, objects, library, history
<1>3. CASE SearchFinish(t)
  <2>1. call[t].q \in Queries
    BY <1>3 DEF SearchFinish, QueryCarried, ResultOps
  <2>2. [asked |-> call[t].q, handle |-> tmpSearch] \in Objects
    BY <1>1, <2>1 DEF Objects, RestOK
  <2>3. /\ mtx' \in Threads \cup {NoThread} /\ searches' \subseteq Objects
        /\ searchFailed' \in BOOLEAN
    BY <1>1, <1>3, <2>2 DEF SearchFinish, RestOK
  <2> QED BY <1>1, <1>3, <2>3 DEF SearchFinish, RestOK, index, library
<1>4. CASE CountFinish(t)
  <2>1. call[t].q \in Queries
    BY <1>4 DEF CountFinish, Finishing, QueryCarried, ResultOps
  <2>2. [asked |-> call[t].q, handle |-> tmpCount] \in Objects
    BY <1>1, <2>1 DEF Objects, RestOK
  <2> QED BY <1>1, <1>4, <2>2 DEF CountFinish, Finishing, RestOK, library, history
<1>5. CASE PlainFinish(t) \/ CloseFinish(t) \/ DestroyFinish(t) \/ OpenFinish(t)
           \/ ReopenFinish(t)
  <2>1. CASE PlainFinish(t)
    BY <1>1, <2>1 DEF PlainFinish, Finishing, RestOK, library, history
  <2>2. CASE CloseFinish(t)
    BY <1>1, <2>2 DEF CloseFinish, Finishing, RestOK, library, history
  <2>3. CASE DestroyFinish(t)
    BY <1>1, <2>3 DEF DestroyFinish, Finishing, RestOK, library, history
  <2>4. CASE OpenFinish(t)
    BY <1>1, <2>4 DEF OpenFinish, Finishing, RestOK, library, history
  <2>5. CASE ReopenFinish(t)
    <3>1. CASE call[t].ok
      <4>1. init' = FALSE /\ license' = 0
        BY <2>5, <3>1 DEF ReopenFinish
      <4>2. init' \in BOOLEAN /\ license' \in Nat
        BY <4>1
      <4> QED BY <1>1, <2>5, <4>2
              DEF ReopenFinish, Finishing, RestOK, library, history
    <3>2. CASE ~call[t].ok
      BY <1>1, <2>5, <3>2 DEF ReopenFinish, Finishing, RestOK, library, history
    <3> QED BY <3>1, <3>2
  <2> QED BY <1>5, <2>1, <2>2, <2>3, <2>4, <2>5
<1>6. CASE AddTextFinish(t)
  BY <1>1, <1>6 DEF AddTextFinish, Finishing, RestOK, library, history
<1>7. CASE ReleaseGil(t)
  BY <1>1, <1>7 DEF ReleaseGil, RestOK, index, objects, library, history
<1> QED BY <1>2, <1>3, <1>4, <1>5, <1>6, <1>7, LibTyped DEF Step, Finish

(* Every step keeps the types. *)
LEMMA TypeStep ==
    TypeOK /\ QueryCarried /\ [Next]_vars => TypeOK' /\ QueryCarried'
<1> SUFFICES ASSUME TypeOK, QueryCarried, [Next]_vars
             PROVE  TypeOK' /\ QueryCarried'
  OBVIOUS
<1>1. RestOK
  BY DEF TypeOK, RestOK
<1>2. ASSUME pc' \in [Threads -> Places], call' \in [Threads -> Calls], RestOK'
      PROVE  TypeOK'
  BY <1>2 DEF TypeOK, RestOK
<1>3. ASSUME NEW t \in Threads, Step(t)
      PROVE  TypeOK' /\ QueryCarried'
  BY <1>2, <1>3, StepMoves, StepTyped, MovesTyped
<1>4. ASSUME NEW t \in Threads, Call(t)
      PROVE  TypeOK' /\ QueryCarried'
  <2>1. ASSUME NEW name, NEW c, Begin(t, name, c), opens' \in Nat,
               license' \in Nat,
               UNCHANGED << init, handle, location, tmpSearch, tmpCount >>
        PROVE  RestOK'
    BY <1>1, <2>1 DEF Begin, Overlaps, RestOK, objects, library, history
  <2>2. CASE Begins(t)
    <3>1. RestOK'
      BY <2>1, <2>2 DEF Begins
    <3> QED BY <1>2, <2>2, <3>1, MovesTyped
  <2>3. CASE Close(t)
    <3>1. CASE init
      <4>1. Plain(t, "close") /\ "close" \in OpNames /\ "close" \notin ResultOps
        BY <2>3, <3>1 DEF Close, Plain, OpNames, LifecycleOps, ResultOps
      <4> QED BY <2>2, <3>1, <4>1, PlainBegins
    <3>2. CASE ~init
      <4>1. UNCHANGED << pc, call >> /\ RestOK'
        BY <1>1, <2>3, <3>2 DEF Close, RestOK, objects, library, history
      <4> QED BY <1>2, <4>1, MovesTyped
    <3> QED BY <3>1, <3>2
  <2>4. CASE GetLocation(t) \/ Buildmode(t)
    <3>1. RestOK'
      BY <1>1, <2>4 DEF GetLocation, Buildmode, HoldGil, RestOK, index, objects,
                        library, history
    <3> QED BY <1>2, <2>4, <3>1, MovesTyped DEF GetLocation, Buildmode
  <2>5. CASE Destroy(t)
    <3>1. RestOK'
      <4>1. alive' \in BOOLEAN /\ license' \in Nat
        <5>1. CASE init
          BY <1>1, <2>5, <5>1 DEF Destroy, RestOK
        <5>2. CASE ~init
          <6>1. license' = 0 /\ alive' = FALSE
            BY <2>5, <5>2 DEF Destroy
          <6> QED BY <6>1
        <5> QED BY <5>1, <5>2
      <4> QED BY <1>1, <2>5, <4>1 DEF Destroy, RestOK, objects, library, history
    <3> QED BY <1>2, <2>5, <3>1, MovesTyped
  <2> QED BY <1>4, <2>2, <2>3, <2>4, <2>5, CallShapes
<1>5. CASE DropSearch \/ DropCount \/ Create \/ UNCHANGED vars
  <2>1. UNCHANGED << pc, call >>
    BY <1>5 DEF DropSearch, DropCount, Create, vars
  <2>2. RestOK'
    <3>1. CASE DropSearch
      BY <1>1, <3>1 DEF DropSearch, RestOK, index, history
    <3>2. CASE DropCount
      BY <1>1, <3>2 DEF DropCount, RestOK, index, history
    <3>3. CASE Create
      BY <1>1, <3>3 DEF Create, RestOK, objects, library, history
    <3>4. CASE UNCHANGED vars
      BY <1>1, <3>4 DEF vars, RestOK, index, objects, library, history
    <3> QED BY <1>5, <3>1, <3>2, <3>3, <3>4
  <2>3. TypeOK'
    BY <1>2, <2>1, <2>2 DEF TypeOK
  <2> QED BY <2>1, <2>3 DEF QueryCarried
<1> QED BY <1>3, <1>4, <1>5 DEF Next

(* The first state is well typed. *)
LEMMA TypeInit == Init => TypeOK /\ QueryCarried
<1> SUFFICES ASSUME Init PROVE TypeOK /\ QueryCarried
  OBVIOUS
<1>1. NoCall \in Calls /\ NoCall.op \notin ResultOps /\ "idle" \in Places
  BY NoCallIsCall DEF NoCall, ResultOps, Places
<1>2. QueryCarried
  BY <1>1 DEF Init, QueryCarried
<1>3. pc \in [Threads -> Places] /\ call \in [Threads -> Calls]
  BY <1>1 DEF Init
<1>4. issued \in Seq(Results)
  BY EmptySeq DEF Init
<1>5. /\ gil \in Threads \cup {NoThread} /\ mtx \in Threads \cup {NoThread}
      /\ alive \in BOOLEAN /\ init \in BOOLEAN
      /\ handle \in Nat /\ location \in Nat
      /\ tmpSearch \in Nat /\ tmpCount \in Nat /\ license \in Nat
      /\ searches \subseteq Objects /\ counts \subseteq Objects
      /\ opens \in Nat /\ opened \subseteq Nat /\ docOpen \in BOOLEAN
      /\ occupied \subseteq Nat /\ top \in Nat /\ live \subseteq Nat
  BY DEF Init
<1>6. /\ overlap \subseteq { "writers", "lifecycle" }
      /\ clash \in BOOLEAN /\ misfield \in BOOLEAN
      /\ closeFailed \subseteq Nat /\ searchFailed \in BOOLEAN
  BY DEF Init
<1> QED BY <1>2, <1>3, <1>4, <1>5, <1>6 DEF TypeOK

(* Every variable keeps its type, for any threads, operations and bounds.  *)
THEOREM TypeCorrect == Spec => []TypeOK
<1>1. (TypeOK /\ QueryCarried) /\ [Next]_vars => (TypeOK /\ QueryCarried)'
  BY TypeStep
<1> QED BY <1>1, TypeInit, PTL DEF Spec

----------------------------------------------------------------------------
(* Between mt_lock and mt_unlock a thread holds the mutex. *)
LockInv == \A t \in Threads : pc[t] \in Locked => mtx = t

(* What a step of thread t may do to the mutex: nothing, take it when it   *)
(* is free, release it, or keep it for ever when a search has failed.      *)
LockShape(t) ==
    \E p \in Places :
        /\ pc' = [pc EXCEPT ![t] = p]
        /\ \/ /\ pc[t] \in Locked <=> p \in Locked
              /\ UNCHANGED << mtx, searchFailed >>
           \/ /\ pc[t] \notin Locked /\ p \in Locked
              /\ mtx = NoThread /\ mtx' = t /\ UNCHANGED searchFailed
           \/ /\ pc[t] \in Locked /\ p \notin Locked
              /\ mtx' = NoThread /\ UNCHANGED searchFailed
           \/ /\ pc[t] \in Locked /\ p \notin Locked
              /\ UNCHANGED mtx /\ searchFailed' = TRUE

(* Beginning a call leaves the mutex alone. *)
LEMMA CallLockShape ==
    ASSUME TypeOK, NEW t \in Threads, Call(t)
    PROVE  LockShape(t)
<1>1. /\ { "lock", "get_location", "buildmode" } \subseteq Places
      /\ { "idle", "lock", "get_location", "buildmode" } \cap Locked = {}
  BY DEF Places, Locked
<1>2. pc = [pc EXCEPT ![t] = pc[t]] /\ pc[t] \in Places
  BY DEF TypeOK
<1>3. CASE Begins(t)
  BY <1>1, <1>3 DEF Begins, Begin, Goto, LockShape, history
<1>4. CASE Close(t)
  <2>1. CASE init
    BY <1>1, <1>4, <2>1 DEF Close, Begin, Goto, LockShape, history
  <2>2. CASE ~init
    BY <1>2, <1>4, <2>2 DEF Close, LockShape, history
  <2> QED BY <2>1, <2>2
<1>5. CASE GetLocation(t) \/ Buildmode(t)
  BY <1>1, <1>5 DEF GetLocation, Buildmode, HoldGil, Goto, LockShape, history
<1>6. CASE Destroy(t)
  <2>1. CASE init
    BY <1>1, <1>6, <2>1 DEF Destroy, Goto, LockShape, history
  <2>2. CASE ~init
    BY <1>2, <1>6, <2>2 DEF Destroy, LockShape, history
  <2> QED BY <2>1, <2>2
<1> QED BY <1>3, <1>4, <1>5, <1>6, CallShapes

(* Every step of a call has one of the four effects on the mutex. *)
LEMMA StepLockShape ==
    ASSUME TypeOK, QueryCarried, NEW t \in Threads, Step(t)
    PROVE  LockShape(t)
<1>1. /\ { "idle", "lock", "yield", "lib", "field", "unlock", "clone",
           "resume", "finish" } \subseteq Places
      /\ { "idle", "lock", "resume", "finish", "get_location", "buildmode" }
           \cap Locked = {}
      /\ { "yield", "lib", "field", "unlock", "clone" } \subseteq Locked
  BY DEF Places, Locked
<1>2. CASE MtLock(t)
  BY <1>1, <1>2 DEF MtLock, Goto, LockShape, history
<1>3. CASE SearchYield(t)
  BY <1>1, <1>3 DEF SearchYield, Goto, LockShape, history
<1>4. CASE MtUnlock(t)
  BY <1>1, <1>4 DEF MtUnlock, Goto, LockShape, history
<1>5. CASE ThreadsDisallow(t)
  BY <1>1, <1>5 DEF ThreadsDisallow, Goto, LockShape, history
<1>6. CASE Lib(t)
  <2>1. /\ pc[t] \in { "lib", "field" } /\ UNCHANGED << mtx, searchFailed >>
        /\ \E p \in { "unlock", "field", "clone" } : Goto(t, p)
    <3>1. CASE PlainLib(t)
      BY <3>1 DEF PlainLib, InLibrary, history
    <3>2. CASE StartDocLib(t)
      BY <3>2 DEF StartDocLib, InLibrary, history
    <3>3. CASE EndDocLib(t)
      BY <3>3 DEF EndDocLib, InLibrary, history
    <3>4. CASE AddTextLib(t)
      BY <3>4 DEF AddTextLib, InLibrary
    <3>5. CASE AddFieldWordsLib(t)
      BY <3>5 DEF AddFieldWordsLib, InLibrary
    <3>6. CASE MarkField(t)
      BY <3>6 DEF MarkField
    <3>7. CASE CloseLib(t)
      BY <3>7 DEF CloseLib, InLibrary
    <3>8. CASE OpenLib(t)
      BY <3>8 DEF OpenLib, InLibrary, history
    <3>9. CASE CountLib(t)
      BY <3>9 DEF CountLib, InLibrary, history
    <3>10. CASE SearchLib(t)
      BY <3>10 DEF SearchLib, history
    <3> QED BY <1>6, <3>1, <3>2, <3>3, <3>4, <3>5, <3>6, <3>7, <3>8, <3>9,
               <3>10 DEF Lib
  <2> QED BY <1>1, <2>1 DEF Goto, LockShape
<1>7. CASE SearchFinish(t)
  <2>1. /\ pc[t] = "clone" /\ pc' = [pc EXCEPT ![t] = "idle"]
        /\ \/ mtx' = NoThread /\ UNCHANGED searchFailed
           \/ UNCHANGED mtx /\ searchFailed' = TRUE
    BY <1>7 DEF SearchFinish, Return, Goto
  <2> QED BY <1>1, <2>1 DEF LockShape
<1>8. CASE ReleaseGil(t)
  BY <1>1, <1>8 DEF ReleaseGil, Return, Goto, LockShape, history
<1>9. CASE PlainFinish(t) \/ AddTextFinish(t) \/ CloseFinish(t)
           \/ DestroyFinish(t) \/ ReopenFinish(t) \/ OpenFinish(t)
           \/ CountFinish(t)
  <2>1. /\ pc[t] = "finish" /\ UNCHANGED << mtx, searchFailed >>
        /\ Goto(t, "idle") \/ Goto(t, "lock")
    BY <1>9 DEF PlainFinish, AddTextFinish, CloseFinish, DestroyFinish,
                ReopenFinish, OpenFinish, CountFinish, Finishing, Return, history
  <2> QED BY <1>1, <2>1 DEF Goto, LockShape
<1> QED BY <1>2, <1>3, <1>4, <1>5, <1>6, <1>7, <1>8, <1>9 DEF Step, Finish

(* The mutex is held exactly where the code says. *)
LEMMA LockStep ==
    TypeOK /\ QueryCarried /\ LockInv /\ MutexReleased /\ [Next]_vars
        => LockInv' /\ MutexReleased'
<1> SUFFICES ASSUME TypeOK, QueryCarried, LockInv, MutexReleased, [Next]_vars
             PROVE  LockInv' /\ MutexReleased'
  OBVIOUS
<1>1. ASSUME NEW t \in Threads, LockShape(t)
      PROVE  LockInv' /\ MutexReleased'
  <2>1. PICK p \in Places :
           /\ pc' = [pc EXCEPT ![t] = p]
           /\ \/ /\ pc[t] \in Locked <=> p \in Locked
                 /\ UNCHANGED << mtx, searchFailed >>
              \/ /\ pc[t] \notin Locked /\ p \in Locked
                 /\ mtx = NoThread /\ mtx' = t /\ UNCHANGED searchFailed
              \/ /\ pc[t] \in Locked /\ p \notin Locked
                 /\ mtx' = NoThread /\ UNCHANGED searchFailed
              \/ /\ pc[t] \in Locked /\ p \notin Locked
                 /\ UNCHANGED mtx /\ searchFailed' = TRUE
    BY <1>1 DEF LockShape
  <2>2. pc'[t] = p /\ \A u \in Threads \ {t} : pc'[u] = pc[u]
    BY <2>1 DEF TypeOK
  <2>3. LockInv'
    BY <2>1, <2>2, ThreadsAssumption DEF LockInv
  <2>4. MutexReleased'
    BY <2>1, <2>2, ThreadsAssumption DEF LockInv, MutexReleased
  <2> QED BY <2>3, <2>4
<1>2. CASE DropSearch \/ DropCount \/ UNCHANGED vars
  <2>1. UNCHANGED << pc, mtx, searchFailed >>
    BY <1>2 DEF DropSearch, DropCount, vars, history
  <2> QED BY <2>1 DEF LockInv, MutexReleased
<1>3. CASE Create
  <2>1. /\ \A t \in Threads : pc[t] \notin Locked
        /\ UNCHANGED pc /\ mtx' = NoThread
    BY <1>3 DEF Create, Locked
  <2> QED BY <2>1, ThreadsAssumption DEF LockInv, MutexReleased
<1> QED BY <1>1, <1>2, <1>3, CallLockShape, StepLockShape DEF Next

(* At first the mutex is free and nobody is inside. *)
LEMMA LockInit == Init => LockInv /\ MutexReleased
BY ThreadsAssumption DEF Init, LockInv, MutexReleased, Locked

(* No two threads are inside the library with one index at a time, apart   *)
(* from buildmode() without an argument.                                   *)
THEOREM CallsExclusive == Spec => []HandleExclusive
<1> DEFINE Inv == TypeOK /\ QueryCarried /\ LockInv /\ MutexReleased
<1>1. Init => Inv
  BY TypeInit, LockInit
<1>2. Inv /\ [Next]_vars => Inv'
  BY TypeStep, LockStep
<1>3. Inv => HandleExclusive
  BY DEF LockInv, HandleExclusive, InCall, Locked
<1> QED BY <1>1, <1>2, <1>3, PTL DEF Spec

(* The mutex is free whenever no call is between mt_lock and mt_unlock,    *)
(* until a search fails in the library.                                    *)
THEOREM MutexComesBack == Spec => []MutexReleased
<1> DEFINE Inv == TypeOK /\ QueryCarried /\ LockInv /\ MutexReleased
<1>1. Init => Inv
  BY TypeInit, LockInit
<1>2. Inv /\ [Next]_vars => Inv'
  BY TypeStep, LockStep
<1> QED BY <1>1, <1>2, PTL DEF Spec

----------------------------------------------------------------------------
(* Result handles.  What a search leaves in tmp_search stays its own until *)
(* the Search object has taken it, because nothing else runs under the     *)
(* mutex; tmp_count is only known to name some count.                      *)
Issued(h, kind) == h \in 1 .. Len(issued) /\ issued[h].kind = kind

HeldSearch ==
    \A t \in Threads :
        pc[t] = "clone" /\ call[t].ok /\ call[t].n # 0 =>
            /\ Issued(tmpSearch, "search") /\ issued[tmpSearch].q = call[t].q
            /\ tmpSearch \in live
            /\ \A s \in searches : s.handle # tmpSearch

AfterLib == { "unlock", "resume", "finish" }

HeldCount ==
    \A t \in Threads :
        pc[t] \in AfterLib /\ call[t].op = "count" /\ call[t].ok =>
            Issued(tmpCount, "count")

SearchesOwn ==
    \A s \in searches :
        /\ Issued(s.handle, "search") /\ issued[s.handle].q = s.asked
        /\ s.handle \in live
        /\ \A r \in searches : r.handle = s.handle => r = s

CountsOwn == \A c \in counts : Issued(c.handle, "count")

ResultInv == HeldSearch /\ HeldCount /\ SearchesOwn /\ CountsOwn

(* Most steps touch no result, and bring no thread to where it would hold  *)
(* one.                                                                    *)
Quiet ==
    /\ UNCHANGED << tmpSearch, tmpCount, searches, counts, issued, live >>
    /\ \A u \in Threads :
          /\ pc'[u] = "clone" => pc[u] = "clone" /\ call'[u] = call[u]
          /\ pc'[u] \in AfterLib /\ call'[u].op = "count" =>
                /\ pc[u] \in AfterLib /\ call[u].op = "count"
                /\ call'[u].ok => call[u].ok

(* A quiet step keeps what is known of the results. *)
LEMMA QuietStep == ASSUME ResultInv, Quiet PROVE ResultInv'
<1>1. UNCHANGED << tmpSearch, tmpCount, searches, counts, issued, live >>
  BY DEF Quiet
<1>2. \A h, kind : Issued(h, kind)' = Issued(h, kind)
  BY <1>1 DEF Issued
<1>3. HeldSearch'
  BY <1>1 DEF Quiet, ResultInv, HeldSearch, Issued
<1>4. HeldCount'
  BY <1>1 DEF Quiet, ResultInv, HeldCount, Issued
<1>5. SearchesOwn' /\ CountsOwn'
  BY <1>1 DEF ResultInv, SearchesOwn, CountsOwn, Issued
<1> QED BY <1>3, <1>4, <1>5 DEF ResultInv

(* A call that begins is quiet, *)
LEMMA CallQuiet ==
    ASSUME TypeOK, NEW t \in Threads, Call(t)
    PROVE  Quiet
<1>1. ASSUME NEW p, p \notin AfterLib \cup {"clone"},
             pc' = [pc EXCEPT ![t] = p],
             \A u \in Threads \ {t} : call'[u] = call[u],
             UNCHANGED << tmpSearch, tmpCount, searches, counts, issued, live >>
      PROVE  Quiet
  BY <1>1 DEF Quiet, TypeOK
<1>2. { "lock", "get_location", "buildmode" } \cap (AfterLib \cup {"clone"}) = {}
  BY DEF AfterLib
<1>3. ASSUME UNCHANGED << pc, call, tmpSearch, tmpCount, searches, counts,
                          issued, live >>
      PROVE  Quiet
  BY <1>3 DEF Quiet
<1>4. CASE Begins(t)
  <2>1. /\ pc' = [pc EXCEPT ![t] = "lock"]
        /\ \A u \in Threads \ {t} : call'[u] = call[u]
        /\ UNCHANGED << tmpSearch, tmpCount, searches, counts, issued, live >>
    BY <1>4 DEF Begins, Begin, Goto, objects, library, TypeOK
  <2> QED BY <1>1, <1>2, <2>1
<1>5. CASE Close(t)
  <2>1. CASE init
    <3>1. /\ pc' = [pc EXCEPT ![t] = "lock"]
          /\ \A u \in Threads \ {t} : call'[u] = call[u]
          /\ UNCHANGED << tmpSearch, tmpCount, searches, counts, issued, live >>
      BY <1>5, <2>1 DEF Close, Begin, Goto, index, objects, library, TypeOK
    <3> QED BY <1>1, <1>2, <3>1
  <2>2. CASE ~init
    BY <1>3, <1>5, <2>2 DEF Close, objects, library
  <2> QED BY <2>1, <2>2
<1>6. CASE GetLocation(t) \/ Buildmode(t)
  <2>1. /\ \E p \in { "get_location", "buildmode" } : pc' = [pc EXCEPT ![t] = p]
        /\ \A u \in Threads \ {t} : call'[u] = call[u]
        /\ UNCHANGED << tmpSearch, tmpCount, searches, counts, issued, live >>
    BY <1>6 DEF GetLocation, Buildmode, HoldGil, Goto, index, objects, library,
                TypeOK
  <2> QED BY <1>1, <1>2, <2>1
<1>7. CASE Destroy(t)
  <2>1. CASE init
    <3>1. /\ pc' = [pc EXCEPT ![t] = "lock"]
          /\ \A u \in Threads \ {t} : call'[u] = call[u]
          /\ UNCHANGED << tmpSearch, tmpCount, searches, counts, issued, live >>
      BY <1>7, <2>1 DEF Destroy, Goto, objects, library, TypeOK
    <3> QED BY <1>1, <1>2, <3>1
  <2>2. CASE ~init
    BY <1>3, <1>7, <2>2 DEF Destroy, objects, library
  <2> QED BY <2>1, <2>2
<1> QED BY <1>4, <1>5, <1>6, <1>7, CallShapes

(* and so is a step of one, unless it is a library call or an end of       *)
(* search or count.                                                        *)
LEMMA StepQuiet ==
    ASSUME TypeOK, QueryCarried, NEW t \in Threads, Step(t)
    PROVE  \/ Quiet \/ SearchLib(t) \/ CountLib(t)
           \/ SearchFinish(t) \/ CountFinish(t)
<1>1. call \in [Threads -> Calls] /\ pc \in [Threads -> Places]
  BY DEF TypeOK
<1>2. CASE MtLock(t) \/ SearchYield(t)
  <2>1. /\ \E p \in { "yield", "lib" } : pc' = [pc EXCEPT ![t] = p]
        /\ UNCHANGED << call, tmpSearch, tmpCount, searches, counts, issued,
                        live >>
    BY <1>2 DEF MtLock, SearchYield, Goto, index, objects, library
  <2> QED BY <1>1, <2>1 DEF Quiet, AfterLib
<1>3. CASE MtUnlock(t)
  <2>1. /\ pc[t] = "unlock" /\ pc' = [pc EXCEPT ![t] = "resume"]
        /\ UNCHANGED << call, tmpSearch, tmpCount, searches, counts, issued,
                        live >>
    BY <1>3 DEF MtUnlock, Goto, index, objects, library
  <2> QED BY <1>1, <2>1 DEF Quiet, AfterLib
<1>4. CASE ThreadsDisallow(t)
  <2> DEFINE d == [call[t] EXCEPT !.loc = location]
  <2>1. /\ pc[t] = "resume" /\ pc' = [pc EXCEPT ![t] = "finish"]
        /\ call' = [call EXCEPT ![t] = d]
        /\ UNCHANGED << tmpSearch, tmpCount, searches, counts, issued, live >>
    BY <1>4 DEF ThreadsDisallow, Goto, index, objects, library
  <2>2. d.op = call[t].op /\ d.ok = call[t].ok
    BY <1>1 DEF Calls
  <2> HIDE DEF d
  <2> QED BY <1>1, <2>1, <2>2 DEF Quiet, AfterLib
<1>5. ASSUME Lib(t), ~SearchLib(t), ~CountLib(t)
      PROVE  Quiet
  <2>1. /\ pc[t] \in { "lib", "field" }
        /\ \E p \in { "unlock", "field" } : pc' = [pc EXCEPT ![t] = p]
        /\ call[t].op # "count"
        /\ \A u \in Threads \ {t} : call'[u] = call[u]
        /\ UNCHANGED << tmpSearch, tmpCount, searches, counts, issued, live >>
    <3>1. CASE PlainLib(t)
      BY <1>1, <3>1 DEF PlainLib, InLibrary, Verdict, Goto, objects, library,
                        PlainOps
    <3>2. CASE StartDocLib(t)
      BY <1>1, <3>2 DEF StartDocLib, InLibrary, Verdict, Goto, objects
    <3>3. CASE EndDocLib(t)
      BY <1>1, <3>3 DEF EndDocLib, InLibrary, Verdict, Goto, objects
    <3>4. CASE AddTextLib(t)
      BY <1>1, <3>4 DEF AddTextLib, InLibrary, Verdict, Goto, objects, WordOps
    <3>5. CASE AddFieldWordsLib(t)
      BY <1>1, <3>5 DEF AddFieldWordsLib, InLibrary, Goto, objects
    <3>6. CASE MarkField(t)
      BY <1>1, <3>6 DEF MarkField, Verdict, Goto, objects, library, QueryCarried
    <3>7. CASE CloseLib(t)
      BY <1>1, <3>7 DEF CloseLib, InLibrary, Verdict, Goto, objects
    <3>8. CASE OpenLib(t)
      BY <1>1, <3>8 DEF OpenLib, InLibrary, Verdict, Goto, objects
    <3> QED BY <1>5, <3>1, <3>2, <3>3, <3>4, <3>5, <3>6, <3>7, <3>8 DEF Lib
  <2>2. call'[t].op # "count"
    <3>1. PICK p \in Places, d \in Calls :
             /\ pc' = [pc EXCEPT ![t] = p] /\ call' = [call EXCEPT ![t] = d]
             /\ p # "idle" =>
                   d.op = call[t].op \/ (call[t].op = "reopen" /\ d.op = "open")
      BY <1>5, LibMoves DEF Moves
    <3>2. pc'[t] = p /\ call'[t] = d /\ pc'[t] # "idle"
      BY <1>1, <2>1, <3>1
    <3> QED BY <2>1, <3>1, <3>2
  <2> QED BY <1>1, <2>1, <2>2 DEF Quiet, AfterLib
<1>6. ASSUME Finish(t), ~SearchFinish(t), ~CountFinish(t)
      PROVE  Quiet
  <2>1. /\ \E p \in { "idle", "lock" } : pc' = [pc EXCEPT ![t] = p]
        /\ \A u \in Threads \ {t} : call'[u] = call[u]
        /\ UNCHANGED << tmpSearch, tmpCount, searches, counts, issued, live >>
    <3>1. CASE PlainFinish(t)
      BY <1>1, <3>1 DEF PlainFinish, Finishing, Return, Goto, library
    <3>2. CASE AddTextFinish(t)
      BY <1>1, <3>2 DEF AddTextFinish, Finishing, Return, Goto, library
    <3>3. CASE CloseFinish(t)
      BY <1>1, <3>3 DEF CloseFinish, Finishing, Return, Goto, library
    <3>4. CASE DestroyFinish(t)
      BY <1>1, <3>4 DEF DestroyFinish, Finishing, Return, Goto, library
    <3>5. CASE ReopenFinish(t)
      BY <1>1, <3>5 DEF ReopenFinish, Finishing, Return, Goto, library
    <3>6. CASE OpenFinish(t)
      BY <1>1, <3>6 DEF OpenFinish, Finishing, Return, Goto, library
    <3>7. CASE ReleaseGil(t)
      BY <1>1, <3>7 DEF ReleaseGil, Return, Goto, index, objects, library
    <3> QED BY <1>6, <3>1, <3>2, <3>3, <3>4, <3>5, <3>6, <3>7 DEF Finish
  <2> QED BY <1>1, <2>1 DEF Quiet, AfterLib
<1> QED BY <1>2, <1>3, <1>4, <1>5, <1>6 DEF Step, Finish, Lib

(* A new handle is none of those issued before. *)
LEMMA IssueFresh ==
    ASSUME TypeOK, NEW kind \in ResultOps, NEW q \in Queries, Issue(kind, q)
    PROVE  /\ Len(issued)' = Len(issued) + 1 /\ Len(issued) \in Nat
           /\ issued'[Len(issued) + 1] = [kind |-> kind, q |-> q]
           /\ \A h \in 1 .. Len(issued) : issued'[h] = issued[h]
           /\ live' = live \cup {Len(issued) + 1}
<1>1. [kind |-> kind, q |-> q] \in Results /\ issued \in Seq(Results)
  BY DEF Results, TypeOK
<1> QED BY <1>1, AppendProperties, LenProperties DEF Issue

(* A search leaves its own result in tmp_search, *)
LEMMA SearchLibResult ==
    ASSUME TypeOK, QueryCarried, LockInv, ResultInv, NEW t \in Threads,
           SearchLib(t)
    PROVE  ResultInv'
<1>1. /\ pc[t] = "lib" /\ call[t].op = "search" /\ call[t] \in Calls
      /\ call[t].q \in Queries /\ "search" \in ResultOps
  BY DEF SearchLib, QueryCarried, TypeOK, ResultOps
<1>2. \A u \in Threads \ {t} : pc[u] \notin Locked
  BY <1>1 DEF LockInv, Locked
<1>3. PICK ok \in BOOLEAN :
         /\ call' = [call EXCEPT ![t] = [call[t] EXCEPT !.ok = ok \/ call[t].n = 0]]
         /\ pc' = [pc EXCEPT ![t] = "clone"]
         /\ IF ok /\ call[t].n # 0
            THEN Issue("search", call[t].q) /\ tmpSearch' = Len(issued) + 1
            ELSE UNCHANGED << issued, live, tmpSearch >>
         /\ UNCHANGED << tmpCount, searches, counts >>
  BY OutcomesBoolean DEF SearchLib, Verdict, Goto, objects
<1>4. /\ \A u \in Threads \ {t} : pc'[u] = pc[u] /\ call'[u] = call[u]
      /\ pc'[t] = "clone" /\ call'[t].q = call[t].q /\ call'[t].n = call[t].n
      /\ call'[t].ok = (ok \/ call[t].n = 0)
  BY <1>1, <1>3, VerdictKeeps DEF TypeOK
<1>5. HeldSearch' /\ HeldCount' /\ SearchesOwn' /\ CountsOwn'
  <2>1. CASE ok /\ call[t].n # 0
    <3>1. Issue("search", call[t].q) /\ tmpSearch' = Len(issued) + 1
      BY <1>3, <2>1
    <3>2. /\ Len(issued)' = Len(issued) + 1 /\ Len(issued) \in Nat
          /\ issued'[Len(issued) + 1] = [kind |-> "search", q |-> call[t].q]
          /\ \A h \in 1 .. Len(issued) : issued'[h] = issued[h]
          /\ live' = live \cup {Len(issued) + 1}
      BY <1>1, <3>1, IssueFresh
    <3>3. \A h, kind : Issued(h, kind) =>
             Issued(h, kind)' /\ issued'[h] = issued[h] /\ h # tmpSearch'
      BY <3>1, <3>2 DEF Issued
    <3>4. HeldSearch'
      <4>1. /\ Issued(tmpSearch, "search")' /\ tmpSearch' \in live'
            /\ issued'[tmpSearch'].q = call[t].q
        BY <3>1, <3>2 DEF Issued
      <4>2. \A s \in searches' : s.handle # tmpSearch'
        BY <1>3, <3>3 DEF ResultInv, SearchesOwn
      <4> QED BY <1>2, <1>4, <4>1, <4>2 DEF HeldSearch, Locked
    <3>5. HeldCount'
      BY <1>3, <1>4, <3>3 DEF ResultInv, HeldCount, AfterLib
    <3>6. SearchesOwn'
      BY <1>3, <3>2, <3>3 DEF ResultInv, SearchesOwn
    <3>7. CountsOwn'
      BY <1>3, <3>3 DEF ResultInv, CountsOwn
    <3> QED BY <3>4, <3>5, <3>6, <3>7
  <2>2. CASE ~(ok /\ call[t].n # 0)
    <3>1. UNCHANGED << issued, live, tmpSearch >>
      BY <1>3, <2>2
    <3>2. HeldSearch'
      BY <1>2, <1>4, <2>2 DEF HeldSearch, Locked
    <3>3. HeldCount'
      BY <1>3, <1>4, <3>1 DEF ResultInv, HeldCount, AfterLib, Issued
    <3>4. SearchesOwn' /\ CountsOwn'
      BY <1>3, <3>1 DEF ResultInv, SearchesOwn, CountsOwn, Issued
    <3> QED BY <3>2, <3>3, <3>4
  <2> QED BY <2>1, <2>2
<1> QED BY <1>5 DEF ResultInv

(* a count leaves some count in tmp_count, *)
LEMMA CountLibResult ==
    ASSUME TypeOK, QueryCarried, LockInv, ResultInv, NEW t \in Threads,
           CountLib(t)
    PROVE  ResultInv'
<1>1. /\ pc[t] = "lib" /\ call[t].op = "count" /\ call[t] \in Calls
      /\ call[t].q \in Queries /\ "count" \in ResultOps
  BY DEF CountLib, InLibrary, QueryCarried, TypeOK, ResultOps
<1>2. \A u \in Threads \ {t} : pc[u] \notin Locked
  BY <1>1 DEF LockInv, Locked
<1>3. PICK ok \in BOOLEAN :
         /\ call' = [call EXCEPT ![t] = [call[t] EXCEPT !.ok = ok]]
         /\ pc' = [pc EXCEPT ![t] = "unlock"]
         /\ IF ok THEN Issue("count", call[t].q) /\ tmpCount' = Len(issued) + 1
                  ELSE UNCHANGED << issued, live, tmpCount >>
         /\ UNCHANGED << tmpSearch, searches, counts >>
  BY DEF CountLib, InLibrary, Verdict, Goto, objects, Outcomes
<1>4. /\ \A u \in Threads \ {t} : pc'[u] = pc[u] /\ call'[u] = call[u]
      /\ pc'[t] = "unlock" /\ call'[t].ok = ok
  BY <1>1, <1>3, VerdictKeeps DEF TypeOK
<1>5. HeldSearch'
  BY <1>2, <1>4 DEF HeldSearch, Locked
<1>6. CASE ok
  <2>1. Issue("count", call[t].q) /\ tmpCount' = Len(issued) + 1
    BY <1>3, <1>6
  <2>2. /\ Len(issued)' = Len(issued) + 1 /\ Len(issued) \in Nat
        /\ issued'[Len(issued) + 1] = [kind |-> "count", q |-> call[t].q]
        /\ \A h \in 1 .. Len(issued) : issued'[h] = issued[h]
        /\ live' = live \cup {Len(issued) + 1}
    BY <1>1, <2>1, IssueFresh
  <2>3. \A h, kind : Issued(h, kind) => Issued(h, kind)' /\ issued'[h] = issued[h]
    BY <2>2 DEF Issued
  <2>4. HeldCount'
    BY <2>1, <2>2 DEF HeldCount, Issued
  <2>5. SearchesOwn' /\ CountsOwn'
    BY <1>3, <2>2, <2>3 DEF ResultInv, SearchesOwn, CountsOwn
  <2> QED BY <1>5, <2>4, <2>5 DEF ResultInv
<1>7. CASE ~ok
  <2>1. UNCHANGED << issued, live, tmpCount >>
    BY <1>3, <1>7
  <2>2. HeldCount'
    BY <1>4, <1>7, <2>1 DEF ResultInv, HeldCount, Issued
  <2>3. SearchesOwn' /\ CountsOwn'
    BY <1>3, <2>1 DEF ResultInv, SearchesOwn, CountsOwn, Issued
  <2> QED BY <1>5, <2>2, <2>3 DEF ResultInv
<1> QED BY <1>6, <1>7

(* and the result objects take what is there. *)
LEMMA FinishResult ==
    ASSUME TypeOK, QueryCarried, LockInv, ResultInv, NEW t \in Threads,
           SearchFinish(t) \/ CountFinish(t)
    PROVE  ResultInv'
<1>1. pc \in [Threads -> Places] /\ call \in [Threads -> Calls]
  BY DEF TypeOK
<1>2. /\ pc' = [pc EXCEPT ![t] = "idle"]
      /\ \A u \in Threads \ {t} : pc'[u] = pc[u] /\ call'[u] = call[u]
      /\ UNCHANGED << tmpSearch, tmpCount, issued, live >>
  BY <1>1 DEF SearchFinish, CountFinish, Finishing, Return, Goto, index, library
<1>3. pc'[t] = "idle"
  BY <1>1, <1>2
<1>4. HeldCount'
  BY <1>2, <1>3 DEF ResultInv, HeldCount, AfterLib, Issued
<1>5. CASE SearchFinish(t)
  <2>1. pc[t] = "clone" /\ UNCHANGED counts
    BY <1>5 DEF SearchFinish
  <2>2. \A u \in Threads \ {t} : pc[u] \notin Locked
    BY <2>1 DEF LockInv, Locked
  <2>3. HeldSearch'
    BY <1>2, <1>3, <2>2 DEF HeldSearch, Locked
  <2>4. CountsOwn'
    BY <1>2, <2>1 DEF ResultInv, CountsOwn, Issued
  <2>5. CASE call[t].n # 0 /\ call[t].ok
    <3> DEFINE s == [asked |-> call[t].q, handle |-> tmpSearch]
    <3>1. searches' = searches \cup {s}
      BY <1>5, <2>5 DEF SearchFinish
    <3>2. s.asked = call[t].q /\ s.handle = tmpSearch
      OBVIOUS
    <3> HIDE DEF s
    <3>3. /\ Issued(tmpSearch, "search") /\ issued[tmpSearch].q = call[t].q
          /\ tmpSearch \in live /\ \A r \in searches : r.handle # tmpSearch
      BY <2>1, <2>5 DEF ResultInv, HeldSearch
    <3>4. SearchesOwn'
      BY <1>2, <3>1, <3>2, <3>3 DEF ResultInv, SearchesOwn, Issued
    <3> QED BY <1>4, <2>3, <2>4, <3>4 DEF ResultInv
  <2>6. CASE ~(call[t].n # 0 /\ call[t].ok)
    <3>1. UNCHANGED searches
      BY <1>5, <2>6 DEF SearchFinish
    <3>2. SearchesOwn'
      BY <1>2, <3>1 DEF ResultInv, SearchesOwn, Issued
    <3> QED BY <1>4, <2>3, <2>4, <3>2 DEF ResultInv
  <2> QED BY <2>5, <2>6
<1>6. CASE CountFinish(t)
  <2>1. /\ pc[t] = "finish" /\ call[t].op = "count" /\ UNCHANGED searches
        /\ counts' = IF call[t].ok
                     THEN counts \cup { [asked |-> call[t].q, handle |-> tmpCount] }
                     ELSE counts
    BY <1>6 DEF CountFinish, Finishing
  <2>2. HeldSearch'
    BY <1>2, <1>3, <2>1 DEF ResultInv, HeldSearch, Issued
  <2>3. SearchesOwn'
    BY <1>2, <2>1 DEF ResultInv, SearchesOwn, Issued
  <2>4. CountsOwn'
    <3>1. call[t].ok => Issued(tmpCount, "count")
      BY <2>1 DEF ResultInv, HeldCount, AfterLib
    <3> QED BY <1>2, <2>1, <3>1 DEF ResultInv, CountsOwn, Issued
  <2> QED BY <1>4, <2>2, <2>3, <2>4 DEF ResultInv
<1> QED BY <1>5, <1>6

(* Dropping a result object closes its own handle only. *)
LEMMA DropResult ==
    ASSUME ResultInv, DropSearch \/ DropCount
    PROVE  ResultInv'
<1>1. UNCHANGED << pc, call, tmpSearch, tmpCount, issued >>
  BY DEF DropSearch, DropCount, index
<1>2. HeldCount'
  BY <1>1 DEF ResultInv, HeldCount, Issued
<1>3. CASE DropSearch
  <2>1. PICK s \in searches : /\ searches' = searches \ {s}
                              /\ live' = live \ {s.handle} /\ UNCHANGED counts
    BY <1>3 DEF DropSearch
  <2>2. HeldSearch'
    BY <1>1, <2>1 DEF ResultInv, HeldSearch, Issued
  <2>3. SearchesOwn'
    BY <1>1, <2>1 DEF ResultInv, SearchesOwn, Issued
  <2>4. CountsOwn'
    BY <1>1, <2>1 DEF ResultInv, CountsOwn, Issued
  <2> QED BY <1>2, <2>2, <2>3, <2>4 DEF ResultInv
<1>4. CASE DropCount
  <2>1. PICK c \in counts : /\ counts' = counts \ {c}
                            /\ live' = live \ {c.handle} /\ UNCHANGED searches
    BY <1>4 DEF DropCount
  <2>2. issued[c.handle].kind = "count"
    BY DEF ResultInv, CountsOwn, Issued
  <2>3. HeldSearch'
    BY <1>1, <2>1, <2>2 DEF ResultInv, HeldSearch, Issued
  <2>4. SearchesOwn'
    BY <1>1, <2>1, <2>2 DEF ResultInv, SearchesOwn, Issued
  <2>5. CountsOwn'
    BY <1>1, <2>1 DEF ResultInv, CountsOwn, Issued
  <2> QED BY <1>2, <2>3, <2>4, <2>5 DEF ResultInv
<1> QED BY <1>3, <1>4

(* Every step keeps what is known of the results. *)
LEMMA ResultStep ==
    TypeOK /\ QueryCarried /\ LockInv /\ ResultInv /\ [Next]_vars => ResultInv'
<1> SUFFICES ASSUME TypeOK, QueryCarried, LockInv, ResultInv, [Next]_vars
             PROVE  ResultInv'
  OBVIOUS
<1>1. ASSUME NEW t \in Threads, Call(t) \/ Step(t)
      PROVE  ResultInv'
  BY <1>1, CallQuiet, StepQuiet, QuietStep, SearchLibResult, CountLibResult,
     FinishResult
<1>2. CASE Create
  <2>1. /\ \A t \in Threads : pc'[t] = "idle"
        /\ UNCHANGED << searches, counts, issued, live >>
    BY <1>2 DEF Create, objects, library
  <2>2. HeldSearch' /\ HeldCount'
    BY <2>1 DEF HeldSearch, HeldCount, AfterLib
  <2>3. SearchesOwn' /\ CountsOwn'
    BY <2>1 DEF ResultInv, SearchesOwn, CountsOwn, Issued
  <2> QED BY <2>2, <2>3 DEF ResultInv
<1>3. CASE UNCHANGED vars
  <2>1. Quiet
    BY <1>3 DEF vars, index, objects, library, Quiet
  <2> QED BY <2>1, QuietStep
<1> QED BY <1>1, <1>2, <1>3, DropResult DEF Next

(* At first there are no results. *)
LEMMA ResultInit == Init => ResultInv
BY DEF Init, ResultInv, HeldSearch, HeldCount, SearchesOwn, CountsOwn, AfterLib

(* A Search object holds the result of its own query, open, and shares it  *)
(* with no other, whatever the other threads do with the index.            *)
THEOREM SearchResultsAreOwn == Spec => []SearchResultIsOwn
<1> DEFINE Inv == /\ TypeOK /\ QueryCarried /\ LockInv /\ MutexReleased
                  /\ ResultInv
<1>1. Init => Inv
  BY TypeInit, LockInit, ResultInit
<1>2. Inv /\ [Next]_vars => Inv'
  BY TypeStep, LockStep, ResultStep
<1>3. Inv => SearchResultIsOwn
  <2> SUFFICES ASSUME Inv, NEW s \in searches
               PROVE  /\ s.handle \in live
                      /\ issued[s.handle] = [kind |-> "search", q |-> s.asked]
                      /\ \A r \in searches : r.handle = s.handle => r = s
    BY DEF SearchResultIsOwn
  <2>1. /\ s.handle \in 1 .. Len(issued) /\ issued[s.handle].kind = "search"
        /\ issued[s.handle].q = s.asked /\ s.handle \in live
        /\ \A r \in searches : r.handle = s.handle => r = s
    BY DEF ResultInv, SearchesOwn, Issued
  <2>2. issued[s.handle] \in Results
    BY <2>1, ElementOfSeq DEF TypeOK
  <2> QED BY <2>1, <2>2 DEF Results
<1> QED BY <1>1, <1>2, <1>3, PTL DEF Spec
----------------------------------------------------------------------------
(* Refinement: the searches of an index are a SearchService. *)

(* A caller that stays in its call goes on waiting; one that leaves it     *)
(* waits no longer.                                                        *)
LEMMA WaitingMoves ==
    ASSUME TypeOK, QueryCarried, NEW t \in Threads, Moves(t)
    PROVE  \/ Waiting' = Waiting
           \/ /\ Waiting[t] # NoQuery /\ pc'[t] = "idle"
              /\ Waiting' = [Waiting EXCEPT ![t] = NoQuery]
<1>1. pc \in [Threads -> Places] /\ call \in [Threads -> Calls]
  BY DEF TypeOK
<1>2. PICK p \in Places, d \in Calls :
        /\ pc[t] # "idle"
        /\ pc' = [pc EXCEPT ![t] = p] /\ call' = [call EXCEPT ![t] = d]
        /\ p # "idle" =>
              /\ d.q = call[t].q
              /\ d.op = call[t].op \/ (call[t].op = "reopen" /\ d.op = "open")
  BY DEF Moves
<1>3. pc'[t] = p /\ call'[t] = d
      /\ \A u \in Threads \ {t} : pc'[u] = pc[u] /\ call'[u] = call[u]
  BY <1>1, <1>2
<1>4. \A u \in Threads \ {t} : Waiting'[u] = Waiting[u]
  BY <1>3 DEF Waiting, Busy
<1>5. CASE p # "idle"
  <2>1. Waiting'[t] = Waiting[t]
    BY <1>2, <1>3, <1>5 DEF Waiting, Busy
  <2> QED BY <1>4, <2>1 DEF Waiting
<1>6. CASE p = "idle"
  <2>1. Waiting'[t] = NoQuery
    BY <1>3, <1>6 DEF Waiting, Busy
  <2>2. Waiting' = [Waiting EXCEPT ![t] = NoQuery]
    BY <1>4, <2>1 DEF Waiting
  <2>3. CASE Waiting[t] = NoQuery
    <3>1. Waiting' = Waiting
      BY <1>4, <2>1, <2>3 DEF Waiting
    <3> QED BY <3>1
  <2> QED BY <1>3, <1>6, <2>2, <2>3
<1> QED BY <1>5, <1>6

(* A call that begins asks, if it is a search. *)
LEMMA CallAsks ==
    ASSUME TypeOK, NEW t \in Threads, Call(t)
    PROVE  \/ Waiting' = Waiting
           \/ \E q \in Queries : /\ Waiting[t] = NoQuery
                                /\ Waiting' = [Waiting EXCEPT ![t] = q]
<1>1. pc \in [Threads -> Places] /\ call \in [Threads -> Calls]
  BY DEF TypeOK
<1>2. ASSUME NEW p \in Places, NEW d \in Calls, pc[t] = "idle",
             pc' = [pc EXCEPT ![t] = p], call' = [call EXCEPT ![t] = d],
             d.op = "search" => d.q \in Queries
      PROVE  \/ Waiting' = Waiting
             \/ \E q \in Queries : /\ Waiting[t] = NoQuery
                                  /\ Waiting' = [Waiting EXCEPT ![t] = q]
  <2>1. pc'[t] = p /\ call'[t] = d /\ Waiting[t] = NoQuery
        /\ \A u \in Threads \ {t} : pc'[u] = pc[u] /\ call'[u] = call[u]
    BY <1>1, <1>2 DEF Waiting, Busy
  <2>2. \A u \in Threads \ {t} : Waiting'[u] = Waiting[u]
    BY <2>1 DEF Waiting, Busy
  <2>3. Waiting'[t] = NoQuery \/ (Waiting'[t] = d.q /\ d.q \in Queries)
    BY <1>2, <2>1 DEF Waiting, Busy
  <2>4. Waiting' = [Waiting EXCEPT ![t] = Waiting'[t]]
    BY <2>2 DEF Waiting
  <2>5. CASE Waiting'[t] = NoQuery
    <3>1. Waiting' = Waiting
      BY <2>1, <2>2, <2>5 DEF Waiting
    <3> QED BY <3>1
  <2> QED BY <2>1, <2>3, <2>4, <2>5
<1>3. { "lock", "get_location", "buildmode" } \subseteq Places
  BY DEF Places
<1>4. CASE Begins(t)
  <2>1. PICK c \in Calls : /\ pc[t] = "idle" /\ pc' = [pc EXCEPT ![t] = "lock"]
                           /\ call' = [call EXCEPT ![t] = c]
                           /\ c.op \in ResultOps => c.q \in Queries
    BY <1>4 DEF Begins, Begin, Goto, Fresh
  <2> QED BY <1>2, <1>3, <2>1 DEF ResultOps
<1>5. ASSUME NEW o, o \in { "get_location", "buildmode", "close", "destroy" },
             NEW p \in { "lock", "get_location", "buildmode" },
             pc[t] = "idle", pc' = [pc EXCEPT ![t] = p],
             call' = [call EXCEPT ![t] = [NoCall EXCEPT !.op = o]]
      PROVE  \/ Waiting' = Waiting
             \/ \E q \in Queries : /\ Waiting[t] = NoQuery
                                  /\ Waiting' = [Waiting EXCEPT ![t] = q]
  <2> DEFINE d == [NoCall EXCEPT !.op = o]
  <2>1. o \in OpNames
    BY <1>5 DEF OpNames, LifecycleOps
  <2>2. d \in Calls /\ d.op = o
    BY <2>1 DEF NoCall, Calls
  <2>3. call' = [call EXCEPT ![t] = d]
    BY <1>5
  <2> HIDE DEF d
  <2>4. d.op # "search"
    BY <1>5, <2>2
  <2> QED BY <1>2, <1>3, <1>5, <2>2, <2>3, <2>4
<1>6. CASE UNCHANGED << pc, call >>
  BY <1>6 DEF Waiting, Busy
<1>7. CASE Close(t)
  BY <1>5, <1>6, <1>7 DEF Close, Begin, Goto
<1>8. CASE GetLocation(t) \/ Buildmode(t)
  BY <1>5, <1>8 DEF GetLocation, Buildmode, HoldGil, Goto
<1>9. CASE Destroy(t)
  BY <1>5, <1>6, <1>9 DEF Destroy, Goto
<1> QED BY <1>4, <1>7, <1>8, <1>9, CallShapes

(* What an object is about does not change when results are issued. *)
LEMMA AnswersStay ==
    ASSUME ResultInv, searches' = searches,
           \A h \in 1 .. Len(issued) : /\ h \in 1 .. Len(issued')
                                      /\ issued'[h] = issued[h]
    PROVE  Answers' = Answers
<1>1. \A s \in searches : About(s.handle)' = About(s.handle)
  BY DEF ResultInv, SearchesOwn, Issued, About
<1> QED BY <1>1 DEF Answers

(* Only the end of a search or the end of an object changes the answers. *)
LEMMA AnswersKept ==
    ASSUME TypeOK, QueryCarried, ResultInv, NEW t \in Threads,
           Call(t) \/ Step(t)
    PROVE  Answers' = Answers \/ SearchFinish(t)
<1>1. CASE Quiet
  BY <1>1, AnswersStay DEF Quiet
<1>2. CASE SearchLib(t)
  <2>1. searches' = searches /\ call[t].q \in Queries
    BY <1>2 DEF SearchLib, objects, QueryCarried, ResultOps
  <2>2. issued' = issued \/ Issue("search", call[t].q)
    BY <1>2 DEF SearchLib
  <2>3. \A h \in 1 .. Len(issued) : /\ h \in 1 .. Len(issued')
                                   /\ issued'[h] = issued[h]
    <3>1. CASE issued' = issued
      BY <3>1
    <3>2. CASE Issue("search", call[t].q)
      <4>1. /\ Len(issued)' = Len(issued) + 1 /\ Len(issued) \in Nat
            /\ \A h \in 1 .. Len(issued) : issued'[h] = issued[h]
        BY <2>1, <3>2, IssueFresh DEF ResultOps
      <4> QED BY <4>1
    <3> QED BY <2>2, <3>1, <3>2
  <2> QED BY <2>1, <2>3, AnswersStay
<1>3. CASE CountLib(t)
  <2>1. searches' = searches /\ call[t].q \in Queries
    BY <1>3 DEF CountLib, InLibrary, objects, QueryCarried, ResultOps
  <2>2. issued' = issued \/ Issue("count", call[t].q)
    BY <1>3 DEF CountLib
  <2>3. \A h \in 1 .. Len(issued) : /\ h \in 1 .. Len(issued')
                                   /\ issued'[h] = issued[h]
    <3>1. CASE issued' = issued
      BY <3>1
    <3>2. CASE Issue("count", call[t].q)
      <4>1. /\ Len(issued)' = Len(issued) + 1 /\ Len(issued) \in Nat
            /\ \A h \in 1 .. Len(issued) : issued'[h] = issued[h]
        BY <2>1, <3>2, IssueFresh DEF ResultOps
      <4> QED BY <4>1
    <3> QED BY <2>2, <3>1, <3>2
  <2> QED BY <2>1, <2>3, AnswersStay
<1>4. CASE CountFinish(t)
  BY <1>4, AnswersStay DEF CountFinish, Finishing, library
<1> QED BY <1>1, <1>2, <1>3, <1>4, CallQuiet, StepQuiet

(* The end of a search answers or refuses. *)
LEMMA SearchFinishAnswers ==
    ASSUME TypeOK, QueryCarried, ResultInv, NEW t \in Threads, SearchFinish(t)
    PROVE  Service!Answer(t) \/ Service!Refuse(t)
<1>1. pc \in [Threads -> Places] /\ call \in [Threads -> Calls]
  BY DEF TypeOK
<1>2. /\ pc[t] = "clone" /\ call[t].op = "search" /\ call[t].q \in Queries
      /\ issued' = issued /\ pc' = [pc EXCEPT ![t] = "idle"]
  BY DEF SearchFinish, Return, Goto, library, QueryCarried, ResultOps
<1>3. Waiting[t] = call[t].q /\ Waiting[t] # NoQuery
  BY <1>2, QueriesAssumption DEF Waiting, Busy
<1>4. pc'[t] = "idle"
  BY <1>1, <1>2
<1>5. Waiting' = [Waiting EXCEPT ![t] = NoQuery]
  <2>1. Waiting'[t] = NoQuery
    BY <1>4 DEF Waiting, Busy
  <2>2. Waiting' = Waiting \/ Waiting' = [Waiting EXCEPT ![t] = NoQuery]
    BY StepMoves, WaitingMoves DEF Step, Finish
  <2> QED BY <1>3, <2>1, <2>2
<1>6. CASE call[t].n # 0 /\ call[t].ok
  <2> DEFINE s == [asked |-> call[t].q, handle |-> tmpSearch]
             a == [asked |-> call[t].q, about |-> About(tmpSearch),
                   handle |-> tmpSearch]
  <2>1. searches' = searches \cup {s}
    BY <1>6 DEF SearchFinish
  <2>2. /\ Issued(tmpSearch, "search") /\ issued[tmpSearch].q = call[t].q
        /\ \A r \in searches : r.handle # tmpSearch
    BY <1>2, <1>6 DEF ResultInv, HeldSearch
  <2>3. About(tmpSearch) = call[t].q
    BY <2>2 DEF Issued, About
  <2>4. \A h : About(h)' = About(h)
    BY <1>2 DEF About
  <2>5. Answers' = Answers \cup {a}
    <3>1. Answers' = { [asked |-> r.asked, about |-> About(r.handle),
                        handle |-> r.handle] : r \in searches' }
      BY <2>4 DEF Answers
    <3>2. /\ s.asked = call[t].q /\ s.handle = tmpSearch
      OBVIOUS
    <3> HIDE DEF s
    <3> QED BY <2>1, <3>1, <3>2 DEF Answers
  <2>6. \A b \in Answers : b.handle # a.handle
    BY <2>2 DEF Answers
  <2>7. a.asked = Waiting[t] /\ a.about = Waiting[t]
    BY <1>3, <2>3
  <2> HIDE DEF a
  <2> QED BY <1>3, <1>5, <2>5, <2>6, <2>7 DEF Service!Answer
<1>7. CASE ~(call[t].n # 0 /\ call[t].ok)
  <2>1. searches' = searches
    BY <1>7 DEF SearchFinish
  <2>2. Answers' = Answers
    BY <1>2, <2>1, AnswersStay
  <2> QED BY <1>3, <1>5, <2>2 DEF Service!Refuse
<1> QED BY <1>6, <1>7

(* Every step of the index is a step of the service or none. *)
LEMMA ServiceStep ==
    TypeOK /\ QueryCarried /\ ResultInv /\ [Next]_vars
        => [Service!Next]_(Service!vars)
<1> SUFFICES ASSUME TypeOK, QueryCarried, ResultInv, [Next]_vars
             PROVE  Service!Next \/ (Waiting' = Waiting /\ Answers' = Answers)
  BY DEF Service!vars
<1>1. ASSUME NEW t \in Threads, Call(t)
      PROVE  Service!Next \/ (Waiting' = Waiting /\ Answers' = Answers)
  <2>1. Answers' = Answers
    BY <1>1, CallQuiet, AnswersStay DEF Quiet
  <2>2. CASE Waiting' = Waiting
    BY <2>1, <2>2
  <2>3. ASSUME NEW q \in Queries, Waiting[t] = NoQuery,
               Waiting' = [Waiting EXCEPT ![t] = q]
        PROVE  Service!Next
    BY <2>1, <2>3 DEF Service!Next, Service!Ask
  <2> QED BY <1>1, <2>2, <2>3, CallAsks
<1>2. ASSUME NEW t \in Threads, Step(t)
      PROVE  Service!Next \/ (Waiting' = Waiting /\ Answers' = Answers)
  <2>1. CASE SearchFinish(t)
    BY <2>1, SearchFinishAnswers DEF Service!Next
  <2>2. CASE ~SearchFinish(t)
    <3>1. Answers' = Answers
      BY <1>2, <2>2, AnswersKept
    <3>2. CASE Waiting' = Waiting
      BY <3>1, <3>2
    <3>3. CASE /\ Waiting[t] # NoQuery
               /\ Waiting' = [Waiting EXCEPT ![t] = NoQuery]
      BY <3>1, <3>3 DEF Service!Next, Service!Refuse
    <3> QED BY <1>2, <3>2, <3>3, StepMoves, WaitingMoves
  <2> QED BY <2>1, <2>2
<1>3. CASE DropSearch
  <2>1. PICK s \in searches : searches' = searches \ {s}
    BY <1>3 DEF DropSearch
  <2>2. UNCHANGED << pc, call, issued >>
    BY <1>3 DEF DropSearch
  <2> DEFINE a == [asked |-> s.asked, about |-> About(s.handle),
                   handle |-> s.handle]
  <2>3. a \in Answers
    BY DEF Answers
  <2>4. \A h : About(h)' = About(h)
    BY <2>2 DEF About
  <2>5. \A r \in searches : r # s => r.handle # a.handle
    BY DEF ResultInv, SearchesOwn
  <2>6. Answers' = Answers \ {a}
    BY <2>1, <2>4, <2>5 DEF Answers
  <2>7. Waiting' = Waiting
    BY <2>2 DEF Waiting, Busy
  <2> HIDE DEF a
  <2> QED BY <2>3, <2>6, <2>7 DEF Service!Next, Service!Discard
<1>4. CASE DropCount \/ Create \/ UNCHANGED vars
  <2>1. UNCHANGED << pc, call, searches, issued >>
    BY <1>4 DEF DropCount, Create, vars, objects, library
  <2> QED BY <2>1 DEF Waiting, Busy, Answers, About
<1> QED BY <1>1, <1>2, <1>3, <1>4 DEF Next

(* The searches of an index, with all their locking, implement the service *)
(* in which a caller gets one answer to its own question.                  *)
THEOREM SearchImplementsService == Spec => SearchIsService
<1> DEFINE Inv == /\ TypeOK /\ QueryCarried /\ LockInv /\ MutexReleased
                  /\ ResultInv
<1>1. Init => Inv
  BY TypeInit, LockInit, ResultInit
<1>2. Inv /\ [Next]_vars => Inv'
  BY TypeStep, LockStep, ResultStep
<1>3. Init => Service!Init
  BY DEF Init, Service!Init, Waiting, Busy, Answers
<1>4. Inv /\ [Next]_vars => [Service!Next]_(Service!vars)
  BY ServiceStep
<1> QED BY <1>1, <1>2, <1>3, <1>4, PTL DEF Spec, SearchIsService, Service!Spec

----------------------------------------------------------------------------
(* Handles.  While no two calls open, close or destroy the index at once,  *)
(* the one that does (if any) is before or after its library call, and     *)
(* what the index believes of its handle is known at each place.           *)
InLifecycle(t) == Busy(t, LifecycleOps)

(* Between such calls: an index that believes it is open holds an open     *)
(* handle, and otherwise every open handle is one that could not be closed.*)
Settled ==
    /\ init => handle \in opened
    /\ ~init \/ ~alive => opened \subseteq closeFailed

(* During one: open starts from a closed index; the others, from an open   *)
(* one.                                                                    *)
Opening(t) ==
    /\ ~init
    /\ IF pc[t] \in AfterLib /\ call[t].ok THEN handle \in opened
       ELSE opened \subseteq closeFailed

Closing(t) ==
    /\ init
    /\ IF pc[t] \in AfterLib
       THEN IF call[t].ok THEN opened \subseteq closeFailed
            ELSE handle \in opened /\ handle \in closeFailed
       ELSE handle \in opened

Underway(t) == IF call[t].op = "open" THEN Opening(t) ELSE Closing(t)

HandleInv ==
    "lifecycle" \notin overlap =>
        /\ opened \subseteq {handle} \cup closeFailed
        /\ \A t, u \in Threads : InLifecycle(t) /\ InLifecycle(u) => t = u
        /\ (\A t \in Threads : ~InLifecycle(t)) => Settled
        /\ \A t \in Threads : InLifecycle(t) => Underway(t)

(* Once the index is being destroyed no other call is in progress. *)
LastCall == ~alive => \A t \in Threads : pc[t] # "idle" => call[t].op = "destroy"

(* Most steps neither touch the handle nor begin, move or end such a call. *)
Steady ==
    /\ UNCHANGED << init, handle, opened, closeFailed, alive >>
    /\ overlap \subseteq overlap'
    /\ \A u \in Threads :
          /\ InLifecycle(u)' <=> InLifecycle(u)
          /\ InLifecycle(u) =>
                /\ call'[u].op = call[u].op
                /\ pc'[u] \in AfterLib <=> pc[u] \in AfterLib
                /\ pc[u] \in AfterLib => (call'[u].ok <=> call[u].ok)

(* They keep what is known of the handle. *)
LEMMA SteadyStep == ASSUME HandleInv, Steady PROVE HandleInv'
<1> SUFFICES ASSUME "lifecycle" \notin overlap'
             PROVE  /\ opened' \subseteq {handle'} \cup closeFailed'
                    /\ \A t, u \in Threads :
                          InLifecycle(t)' /\ InLifecycle(u)' => t = u
                    /\ (\A t \in Threads : ~InLifecycle(t)') => Settled'
                    /\ \A t \in Threads : InLifecycle(t)' => Underway(t)'
  BY DEF HandleInv
<1>1. /\ UNCHANGED << init, handle, opened, closeFailed, alive >>
      /\ "lifecycle" \notin overlap
      /\ \A u \in Threads : InLifecycle(u)' <=> InLifecycle(u)
  BY DEF Steady
<1>2. Settled' = Settled
  BY <1>1 DEF Settled
<1>3. ASSUME NEW t \in Threads, InLifecycle(t)
      PROVE  Underway(t)'
  <2>1. Underway(t)
    BY <1>1, <1>3 DEF HandleInv
  <2>2. /\ call'[t].op = call[t].op
        /\ pc'[t] \in AfterLib <=> pc[t] \in AfterLib
        /\ pc[t] \in AfterLib => (call'[t].ok <=> call[t].ok)
    BY <1>3 DEF Steady
  <2> QED BY <1>1, <2>1, <2>2 DEF Underway, Opening, Closing
<1> QED BY <1>1, <1>2, <1>3 DEF HandleInv

(* The only call of this kind in progress keeps it by its own step. *)
LEMMA LoneStep ==
    ASSUME TypeOK, NEW t \in Threads, NEW p \in Places, NEW d \in Calls,
           pc' = [pc EXCEPT ![t] = p], call' = [call EXCEPT ![t] = d],
           \A u \in Threads \ {t} : ~InLifecycle(u),
           opened' \subseteq {handle'} \cup closeFailed',
           p = "idle" => Settled',
           p # "idle" => d.op \in LifecycleOps /\ Underway(t)'
    PROVE  HandleInv'
<1>1. /\ pc'[t] = p /\ call'[t] = d
      /\ \A u \in Threads \ {t} : pc'[u] = pc[u] /\ call'[u] = call[u]
  BY DEF TypeOK
<1>2. \A u \in Threads \ {t} : ~InLifecycle(u)'
  BY <1>1 DEF InLifecycle, Busy
<1>3. InLifecycle(t)' <=> p # "idle"
  BY <1>1 DEF InLifecycle, Busy
<1> QED BY <1>2, <1>3 DEF HandleInv

(* No step of a call creates or destroys the index, or forgets that two    *)
(* calls have overlapped.                                                  *)
LEMMA StepKeepsAlive ==
    ASSUME NEW t \in Threads, Step(t)
    PROVE  UNCHANGED << alive, overlap >>
<1>1. CASE MtLock(t) \/ SearchYield(t) \/ MtUnlock(t) \/ ThreadsDisallow(t)
  BY <1>1 DEF MtLock, SearchYield, MtUnlock, ThreadsDisallow
<1>2. CASE Lib(t)
  BY <1>2 DEF Lib, PlainLib, StartDocLib, EndDocLib, AddTextLib,
              AddFieldWordsLib, MarkField, CloseLib, OpenLib, CountLib,
              SearchLib, InLibrary
<1>3. CASE Finish(t)
  BY <1>3 DEF Finish, SearchFinish, PlainFinish, AddTextFinish, CloseFinish,
              DestroyFinish, ReopenFinish, OpenFinish, CountFinish, ReleaseGil,
              Finishing
<1> QED BY <1>1, <1>2, <1>3 DEF Step

(* Nothing begins on an index that is being destroyed. *)
LEMMA LastCallStep ==
    TypeOK /\ QueryCarried /\ LastCall /\ [Next]_vars => LastCall'
<1> SUFFICES ASSUME TypeOK, QueryCarried, LastCall, [Next]_vars
             PROVE  LastCall'
  OBVIOUS
<1>1. ASSUME NEW t \in Threads, Step(t)
      PROVE  LastCall'
  <2>1. PICK p \in Places, d \in Calls :
           /\ pc[t] # "idle"
           /\ pc' = [pc EXCEPT ![t] = p] /\ call' = [call EXCEPT ![t] = d]
           /\ p # "idle" =>
                 d.op = call[t].op \/ (call[t].op = "reopen" /\ d.op = "open")
    BY <1>1, StepMoves DEF Moves
  <2>2. /\ pc'[t] = p /\ call'[t] = d
        /\ \A u \in Threads \ {t} : pc'[u] = pc[u] /\ call'[u] = call[u]
    BY <2>1 DEF TypeOK
  <2>3. alive' = alive
    BY <1>1, StepKeepsAlive
  <2> QED BY <2>1, <2>2, <2>3 DEF LastCall
<1>2. ASSUME NEW t \in Threads, Call(t)
      PROVE  LastCall'
  <2>1. CASE Begins(t)
    BY <2>1 DEF Begins, Begin, LastCall
  <2>2. CASE Close(t)
    BY <2>2 DEF Close, Begin, LastCall
  <2>3. CASE GetLocation(t) \/ Buildmode(t)
    BY <2>3 DEF GetLocation, Buildmode, HoldGil, LastCall
  <2>4. CASE Destroy(t)
    <3> DEFINE d == [NoCall EXCEPT !.op = "destroy"]
    <3>1. \A u \in Threads : pc[u] = "idle"
      BY <2>4 DEF Destroy
    <3>2. CASE init
      <4>1. pc' = [pc EXCEPT ![t] = "lock"] /\ call' = [call EXCEPT ![t] = d]
        BY <2>4, <3>2 DEF Destroy, Goto
      <4>2. d.op = "destroy"
        BY DEF NoCall
      <4> HIDE DEF d
      <4>3. \A u \in Threads : pc'[u] # "idle" => call'[u].op = "destroy"
        BY <3>1, <4>1, <4>2 DEF TypeOK
      <4> QED BY <4>3 DEF LastCall
    <3>3. CASE ~init
      BY <2>4, <3>1, <3>3 DEF Destroy, LastCall
    <3> QED BY <3>2, <3>3
  <2> QED BY <1>2, <2>1, <2>2, <2>3, <2>4, CallShapes
<1>3. CASE DropSearch \/ DropCount \/ Create \/ UNCHANGED vars
  BY <1>3 DEF DropSearch, DropCount, Create, vars, LastCall
<1> QED BY <1>1, <1>2, <1>3 DEF Next

(* A call of another kind begins steadily. *)
LEMMA BeginsSteady ==
    ASSUME TypeOK, NEW t \in Threads, NEW p \in Places, NEW d \in Calls,
           pc[t] = "idle", d.op \notin LifecycleOps,
           pc' = [pc EXCEPT ![t] = p], call' = [call EXCEPT ![t] = d],
           overlap \subseteq overlap',
           UNCHANGED << init, handle, opened, closeFailed, alive >>
    PROVE  Steady
<1>1. /\ pc'[t] = p /\ call'[t] = d
      /\ \A u \in Threads \ {t} : pc'[u] = pc[u] /\ call'[u] = call[u]
  BY DEF TypeOK
<1>2. ~InLifecycle(t) /\ ~InLifecycle(t)'
  BY <1>1 DEF InLifecycle, Busy
<1> QED BY <1>1, <1>2 DEF Steady, InLifecycle, Busy

(* Whatever begins, the handle is accounted for. *)
LEMMA CallHandles ==
    ASSUME TypeOK, HandleInv, NEW t \in Threads, Call(t)
    PROVE  HandleInv'
<1>1. "lock" \in Places /\ "get_location" \in Places /\ "buildmode" \in Places
      /\ "lock" \notin AfterLib /\ "lock" # "idle"
  BY DEF Places, AfterLib
<1>2. CASE Begins(t)
  <2>1. PICK name \in OpNames, c \in Calls :
           /\ Begin(t, name, c) /\ Fresh(c) /\ UNCHANGED << init, handle >>
    BY <1>2 DEF Begins
  <2>2. /\ pc[t] = "idle"
        /\ pc' = [pc EXCEPT ![t] = "lock"] /\ call' = [call EXCEPT ![t] = c]
        /\ overlap' = overlap \cup Overlaps(t, c.op)
        /\ UNCHANGED << init, handle, opened, closeFailed, alive >>
    BY <2>1 DEF Begin, Goto, library, history
  <2>3. CASE c.op \notin LifecycleOps
    BY <1>1, <2>2, <2>3, BeginsSteady, SteadyStep
  <2>4. CASE c.op \in LifecycleOps
    <3>1. CASE "lifecycle" \in overlap'
      BY <3>1 DEF HandleInv
    <3>2. CASE "lifecycle" \notin overlap'
      <4>1. "lifecycle" \notin overlap /\ "lifecycle" \notin Overlaps(t, c.op)
        BY <2>2, <3>2
      <4>2. \A u \in Threads : ~InLifecycle(u)
        <5>1. \A u \in Threads \ {t} : ~Busy(u, LifecycleOps)
          BY <2>4, <4>1 DEF Overlaps
        <5> QED BY <2>2, <5>1 DEF InLifecycle, Busy
      <4>3. Settled /\ opened \subseteq {handle} \cup closeFailed
        BY <4>1, <4>2 DEF HandleInv
      <4>4. call'[t].op = c.op /\ pc'[t] = "lock"
        BY <2>2 DEF TypeOK
      <4>5. c.op = "open" <=> ~init
        BY <2>1, <2>4 DEF Fresh
      <4>6. Underway(t)'
        BY <1>1, <2>2, <4>3, <4>4, <4>5
           DEF Underway, Opening, Closing, Settled
      <4> QED BY <1>1, <2>2, <2>4, <4>2, <4>3, <4>6, LoneStep
    <3> QED BY <3>1, <3>2
  <2> QED BY <2>3, <2>4
<1>3. CASE Close(t) /\ ~init
  <2>1. /\ UNCHANGED << pc, call, overlap >>
        /\ UNCHANGED << init, handle, opened, closeFailed, alive >>
    BY <1>3 DEF Close, library, history
  <2>2. Steady
    BY <2>1 DEF Steady, InLifecycle, Busy
  <2> QED BY <2>2, SteadyStep
<1>4. CASE Close(t) /\ init
  <2>1. Plain(t, "close") /\ "close" \in OpNames /\ "close" \notin ResultOps
    BY <1>4 DEF Close, Plain, OpNames, LifecycleOps, ResultOps
  <2> QED BY <1>2, <1>4, <2>1, PlainBegins
<1>5. ASSUME NEW o \in { "get_location", "buildmode" }, HoldGil(t, o)
      PROVE  HandleInv'
  <2> DEFINE d == [NoCall EXCEPT !.op = o]
  <2>1. d \in Calls /\ d.op = o
    <3>1. o \in OpNames /\ 0 \in Nat
      BY DEF OpNames
    <3> QED BY <3>1, FreshLocals
  <2>2. /\ pc[t] = "idle" /\ pc' = [pc EXCEPT ![t] = o]
        /\ call' = [call EXCEPT ![t] = d]
        /\ UNCHANGED << init, handle, opened, closeFailed, alive, overlap >>
    BY <1>5 DEF HoldGil, Goto, index, library, history
  <2>3. o \in Places /\ o \notin LifecycleOps
    BY <1>1 DEF LifecycleOps
  <2> HIDE DEF d
  <2>4. Steady
    BY <2>1, <2>2, <2>3, BeginsSteady
  <2> QED BY <2>4, SteadyStep
<1>6. CASE Destroy(t)
  <2>1. /\ \A u \in Threads : pc[u] = "idle" /\ ~InLifecycle(u)
        /\ alive /\ alive' = FALSE
        /\ UNCHANGED << init, handle, opened, closeFailed, overlap >>
    BY <1>6 DEF Destroy, InLifecycle, Busy, library, history
  <2>2. CASE init
    <3> DEFINE d == [NoCall EXCEPT !.op = "destroy"]
    <3>1. d \in Calls /\ d.op = "destroy" /\ "destroy" \in LifecycleOps
      <4>1. "destroy" \in OpNames /\ 0 \in Nat
        BY DEF OpNames, LifecycleOps
      <4> QED BY <4>1, FreshLocals DEF LifecycleOps
    <3>2. pc' = [pc EXCEPT ![t] = "lock"] /\ call' = [call EXCEPT ![t] = d]
      BY <1>6, <2>2 DEF Destroy, Goto
    <3> HIDE DEF d
    <3>3. pc'[t] = "lock" /\ call'[t].op = "destroy"
      BY <3>1, <3>2 DEF TypeOK
    <3>4. CASE "lifecycle" \notin overlap
      <4>1. Settled /\ opened \subseteq {handle} \cup closeFailed
        BY <2>1, <3>4 DEF HandleInv
      <4>2. Underway(t)'
        BY <1>1, <2>1, <2>2, <3>3, <4>1 DEF Underway, Closing, Settled
      <4> QED BY <1>1, <2>1, <3>1, <3>2, <4>1, <4>2, LoneStep
    <3>5. CASE "lifecycle" \in overlap
      BY <2>1, <3>5 DEF HandleInv
    <3> QED BY <3>4, <3>5
  <2>3. CASE ~init
    <3>1. UNCHANGED << pc, call >>
      BY <1>6, <2>3 DEF Destroy
    <3>2. \A u \in Threads : ~InLifecycle(u)'
      BY <2>1, <3>1 DEF InLifecycle, Busy
    <3>3. "lifecycle" \notin overlap =>
             Settled' /\ opened \subseteq {handle} \cup closeFailed
      BY <2>1, <2>3 DEF HandleInv, Settled
    <3> QED BY <2>1, <3>2, <3>3 DEF HandleInv
  <2> QED BY <2>2, <2>3
<1> QED BY <1>2, <1>3, <1>4, <1>5, <1>6, CallShapes DEF GetLocation, Buildmode

(* A step of a call that only moves on is steady. *)
LEMMA MovesSteady ==
    ASSUME TypeOK, NEW t \in Threads, NEW p \in Places, NEW d \in Calls,
           pc[t] # "idle",
           pc' = [pc EXCEPT ![t] = p], call' = [call EXCEPT ![t] = d],
           \/ /\ p # "idle" /\ d.op = call[t].op
              /\ p \in AfterLib <=> pc[t] \in AfterLib
              /\ d.ok = call[t].ok
           \/ call[t].op \notin LifecycleOps
                /\ (p = "idle" \/ d.op \notin LifecycleOps),
           UNCHANGED << init, handle, opened, closeFailed, alive, overlap >>
    PROVE  Steady
<1>1. /\ pc'[t] = p /\ call'[t] = d
      /\ \A u \in Threads \ {t} : pc'[u] = pc[u] /\ call'[u] = call[u]
  BY DEF TypeOK
<1>2. \A u \in Threads \ {t} :
          /\ InLifecycle(u)' <=> InLifecycle(u)
          /\ InLifecycle(u) =>
                /\ call'[u].op = call[u].op
                /\ pc'[u] \in AfterLib <=> pc[u] \in AfterLib
                /\ pc[u] \in AfterLib => (call'[u].ok <=> call[u].ok)
  BY <1>1 DEF InLifecycle, Busy
<1>3. /\ InLifecycle(t)' <=> InLifecycle(t)
      /\ InLifecycle(t) =>
            /\ call'[t].op = call[t].op
            /\ pc'[t] \in AfterLib <=> pc[t] \in AfterLib
            /\ pc[t] \in AfterLib => (call'[t].ok <=> call[t].ok)
  BY <1>1 DEF InLifecycle, Busy
<1> QED BY <1>2, <1>3 DEF Steady

(* So are all steps of calls except those of open, close and destroy in    *)
(* the library and at their ends.                                          *)
LEMMA StepSteady ==
    ASSUME TypeOK, QueryCarried, NEW t \in Threads, Step(t)
    PROVE  \/ Steady \/ CloseLib(t) \/ OpenLib(t)
           \/ CloseFinish(t) \/ DestroyFinish(t) \/ ReopenFinish(t)
           \/ OpenFinish(t)
<1>1. /\ call \in [Threads -> Calls] /\ call[t] \in Calls
      /\ pc \in [Threads -> Places]
  BY DEF TypeOK
<1>2. UNCHANGED << alive, overlap >>
  BY StepKeepsAlive
<1>3. { "yield", "lib", "resume", "finish" } \subseteq Places
  BY DEF Places
<1>4. CASE MtLock(t) \/ SearchYield(t) \/ MtUnlock(t)
  <2>1. \E p \in Places :
          /\ pc[t] # "idle" /\ p # "idle" /\ pc' = [pc EXCEPT ![t] = p]
          /\ p \in AfterLib <=> pc[t] \in AfterLib
    BY <1>3, <1>4 DEF MtLock, SearchYield, MtUnlock, Goto, AfterLib
  <2>2. /\ call' = [call EXCEPT ![t] = call[t]]
        /\ UNCHANGED << init, handle, opened, closeFailed >>
    BY <1>1, <1>4 DEF MtLock, SearchYield, MtUnlock, index, library, history
  <2> QED BY <1>1, <1>2, <2>1, <2>2, MovesSteady
<1>5. CASE ThreadsDisallow(t)
  <2> DEFINE d == [call[t] EXCEPT !.loc = location]
  <2>1. d \in Calls /\ d.op = call[t].op /\ d.ok = call[t].ok
    BY <1>1 DEF TypeOK, Calls
  <2>2. /\ pc[t] = "resume" /\ pc' = [pc EXCEPT ![t] = "finish"]
        /\ call' = [call EXCEPT ![t] = d]
        /\ UNCHANGED << init, handle, opened, closeFailed >>
    BY <1>5 DEF ThreadsDisallow, Goto, index, library, history
  <2>3. "resume" \in AfterLib /\ "finish" \in AfterLib
    BY DEF AfterLib
  <2> HIDE DEF d
  <2> QED BY <1>2, <1>3, <2>1, <2>2, <2>3, MovesSteady
<1>6. ASSUME call[t].op \notin LifecycleOps,
             UNCHANGED << init, handle, opened, closeFailed >>
      PROVE  Steady
  <2>1. PICK p \in Places, d \in Calls :
           /\ pc[t] # "idle"
           /\ pc' = [pc EXCEPT ![t] = p] /\ call' = [call EXCEPT ![t] = d]
           /\ p # "idle" =>
                 d.op = call[t].op \/ (call[t].op = "reopen" /\ d.op = "open")
    BY StepMoves DEF Moves
  <2>2. p = "idle" \/ d.op \notin LifecycleOps
    BY <1>6, <2>1 DEF LifecycleOps
  <2> QED BY <1>2, <1>6, <2>1, <2>2, MovesSteady
<1>7. /\ PlainOps \cap LifecycleOps = {} /\ WordOps \cap LifecycleOps = {}
      /\ { "start_doc", "end_doc", "add_field_words", "count", "search",
           "get_location", "buildmode" } \cap LifecycleOps = {}
  BY DEF PlainOps, WordOps, LifecycleOps
<1>8. ASSUME Lib(t), ~CloseLib(t), ~OpenLib(t)
      PROVE  /\ call[t].op \notin LifecycleOps
             /\ UNCHANGED << init, handle, opened, closeFailed >>
  <2>1. CASE PlainLib(t)
    BY <1>7, <2>1 DEF PlainLib, InLibrary, library, history
  <2>2. CASE StartDocLib(t)
    BY <1>7, <2>2 DEF StartDocLib, InLibrary, history
  <2>3. CASE EndDocLib(t)
    BY <1>7, <2>3 DEF EndDocLib, InLibrary, history
  <2>4. CASE AddTextLib(t)
    BY <1>7, <2>4 DEF AddTextLib, InLibrary
  <2>5. CASE AddFieldWordsLib(t)
    BY <1>7, <2>5 DEF AddFieldWordsLib, InLibrary
  <2>6. CASE MarkField(t)
    BY <1>7, <2>6 DEF MarkField, QueryCarried, library
  <2>7. CASE CountLib(t)
    BY <1>7, <2>7 DEF CountLib, InLibrary, history
  <2>8. CASE SearchLib(t)
    BY <1>7, <2>8 DEF SearchLib, history
  <2> QED BY <1>8, <2>1, <2>2, <2>3, <2>4, <2>5, <2>6, <2>7, <2>8 DEF Lib
<1>9. ASSUME Finish(t), ~CloseFinish(t), ~DestroyFinish(t), ~ReopenFinish(t),
             ~OpenFinish(t)
      PROVE  /\ call[t].op \notin LifecycleOps
             /\ UNCHANGED << init, handle, opened, closeFailed >>
  <2>1. CASE SearchFinish(t)
    BY <1>7, <2>1 DEF SearchFinish, QueryCarried, index, library
  <2>2. CASE PlainFinish(t)
    BY <1>7, <2>2 DEF PlainFinish, Finishing, library, history
  <2>3. CASE AddTextFinish(t)
    BY <1>7, <2>3 DEF AddTextFinish, Finishing, library, history
  <2>4. CASE CountFinish(t)
    BY <1>7, <2>4 DEF CountFinish, Finishing, library, history
  <2>5. CASE ReleaseGil(t)
    BY <1>7, <2>5 DEF ReleaseGil, QueryCarried, index, library, history
  <2> QED BY <1>9, <2>1, <2>2, <2>3, <2>4, <2>5 DEF Finish
<1> QED BY <1>4, <1>5, <1>6, <1>8, <1>9 DEF Step

(* The library calls of open, close and destroy, *)
LEMMA LifecycleLib ==
    ASSUME TypeOK, HandleInv, NEW t \in Threads, CloseLib(t) \/ OpenLib(t)
    PROVE  HandleInv'
<1>1. PICK ok \in BOOLEAN :
         /\ pc[t] = "lib"
         /\ call' = [call EXCEPT ![t] = [call[t] EXCEPT !.ok = ok]]
         /\ pc' = [pc EXCEPT ![t] = "unlock"]
         /\ UNCHANGED << init, alive, overlap >>
         /\ \/ /\ call[t].op \in { "close", "reopen", "destroy" }
               /\ opened' = IF ok THEN opened \ {handle} ELSE opened
               /\ closeFailed' = IF ok THEN closeFailed
                                 ELSE closeFailed \cup {handle}
               /\ UNCHANGED handle
            \/ /\ call[t].op = "open"
               /\ opened' = IF ok THEN opened \cup {call[t].n} ELSE opened
               /\ handle' = IF ok THEN call[t].n ELSE handle
               /\ UNCHANGED closeFailed
  <2>1. CASE CloseLib(t)
    BY <2>1 DEF CloseLib, InLibrary, Verdict, Goto, Outcomes
  <2>2. CASE OpenLib(t)
    BY <2>2, OutcomesBoolean DEF OpenLib, InLibrary, Verdict, Goto, history
  <2> QED BY <2>1, <2>2
<1> DEFINE d == [call[t] EXCEPT !.ok = ok]
<1>2. d \in Calls /\ d.op = call[t].op /\ d.ok = ok
  <2>1. call[t] \in Calls
    BY DEF TypeOK
  <2> QED BY <2>1, VerdictKeeps
<1>3. "unlock" \in Places /\ "unlock" \in AfterLib /\ "lib" \notin AfterLib
  BY DEF Places, AfterLib
<1>4. call' = [call EXCEPT ![t] = d]
  BY <1>1
<1> HIDE DEF d
<1>5. /\ pc' = [pc EXCEPT ![t] = "unlock"]
      /\ pc'[t] = "unlock" /\ call'[t] = d
  BY <1>1, <1>4 DEF TypeOK
<1>6. CASE "lifecycle" \in overlap
  BY <1>1, <1>6 DEF HandleInv
<1>7. CASE "lifecycle" \notin overlap
  <2>1. InLifecycle(t) /\ call[t].op \in LifecycleOps
    BY <1>1 DEF InLifecycle, Busy, LifecycleOps
  <2>2. /\ \A u \in Threads \ {t} : ~InLifecycle(u)
        /\ Underway(t) /\ opened \subseteq {handle} \cup closeFailed
    BY <1>7, <2>1 DEF HandleInv
  <2>3. CASE call[t].op = "open"
    <3>1. ~init /\ opened \subseteq closeFailed
      BY <1>1, <1>3, <2>2, <2>3 DEF Underway, Opening
    <3>2. /\ opened' = IF ok THEN opened \cup {call[t].n} ELSE opened
          /\ handle' = IF ok THEN call[t].n ELSE handle
          /\ UNCHANGED closeFailed
      BY <1>1, <2>3
    <3>3. opened' \subseteq {handle'} \cup closeFailed'
      BY <3>1, <3>2
    <3>4. ~init' /\ IF ok THEN handle' \in opened'
                     ELSE opened' \subseteq closeFailed'
      BY <1>1, <3>1, <3>2
    <3>5. call'[t].op = "open" /\ call'[t].ok = ok /\ pc'[t] \in AfterLib
      BY <1>2, <1>3, <1>5, <2>3
    <3>6. Underway(t)'
      <4>1. CASE ok
        BY <3>4, <3>5, <4>1 DEF Underway, Opening
      <4>2. CASE ~ok
        BY <3>4, <3>5, <4>2 DEF Underway, Opening
      <4> QED BY <4>1, <4>2
    <3> QED BY <1>2, <1>3, <1>4, <1>5, <2>1, <2>2, <3>3, <3>6, LoneStep
  <2>4. CASE call[t].op # "open"
    <3>1. init /\ handle \in opened
      BY <1>1, <1>3, <2>2, <2>4 DEF Underway, Closing
    <3>2. /\ opened' = IF ok THEN opened \ {handle} ELSE opened
          /\ closeFailed' = IF ok THEN closeFailed ELSE closeFailed \cup {handle}
          /\ UNCHANGED handle
      BY <1>1, <2>4
    <3>3. opened' \subseteq {handle'} \cup closeFailed'
      BY <2>2, <3>2
    <3>4. init' /\ IF ok THEN opened' \subseteq closeFailed'
                    ELSE handle' \in opened' /\ handle' \in closeFailed'
      BY <1>1, <2>2, <3>1, <3>2
    <3>5. call'[t].op # "open" /\ call'[t].ok = ok /\ pc'[t] \in AfterLib
      BY <1>2, <1>3, <1>5, <2>4
    <3>6. Underway(t)'
      <4>1. CASE ok
        BY <3>4, <3>5, <4>1 DEF Underway, Closing
      <4>2. CASE ~ok
        BY <3>4, <3>5, <4>2 DEF Underway, Closing
      <4> QED BY <4>1, <4>2
    <3> QED BY <1>2, <1>3, <1>4, <1>5, <2>1, <2>2, <3>3, <3>6, LoneStep
  <2> QED BY <2>3, <2>4
<1> QED BY <1>6, <1>7

(* and what the operations do with the library's verdict. *)
LEMMA LifecycleFinish ==
    ASSUME TypeOK, HandleInv, LastCall, NEW t \in Threads,
           CloseFinish(t) \/ DestroyFinish(t) \/ ReopenFinish(t) \/ OpenFinish(t)
    PROVE  HandleInv'
<1>1. /\ pc[t] = "finish" /\ call[t] \in Calls
      /\ UNCHANGED << alive, overlap, handle, opened, closeFailed >>
      /\ call[t].op \in { "close", "destroy", "reopen", "open" }
  BY DEF CloseFinish, DestroyFinish, ReopenFinish, OpenFinish, Finishing,
         library, history, TypeOK
<1>2. /\ "finish" \in AfterLib /\ "lock" \notin AfterLib
      /\ "idle" \in Places /\ "lock" \in Places /\ NoCall \in Calls
  BY NoCallIsCall DEF Places, AfterLib
<1>3. CASE "lifecycle" \in overlap
  BY <1>1, <1>3 DEF HandleInv
<1>4. CASE "lifecycle" \notin overlap
  <2>1. InLifecycle(t)
    BY <1>1 DEF InLifecycle, Busy, LifecycleOps
  <2>2. /\ \A u \in Threads \ {t} : ~InLifecycle(u)
        /\ Underway(t) /\ opened \subseteq {handle} \cup closeFailed
    BY <1>4, <2>1 DEF HandleInv
  <2>3. ASSUME Return(t), Settled'
        PROVE  HandleInv'
    <3>1. pc' = [pc EXCEPT ![t] = "idle"] /\ call' = [call EXCEPT ![t] = NoCall]
      BY <2>3 DEF Return, Goto
    <3> QED BY <1>1, <1>2, <2>2, <2>3, <3>1, LoneStep
  <2>4. CASE OpenFinish(t)
    <3>1. Return(t) /\ init' = (init \/ call[t].ok) /\ call[t].op = "open"
      BY <2>4 DEF OpenFinish, Finishing
    <3>2. alive
      BY <1>1, <3>1 DEF LastCall
    <3>3. ~init /\ IF call[t].ok THEN handle \in opened
                   ELSE opened \subseteq closeFailed
      BY <1>1, <1>2, <2>2, <3>1 DEF Underway, Opening
    <3>4. Settled'
      BY <1>1, <3>1, <3>2, <3>3 DEF Settled
    <3> QED BY <2>3, <3>1, <3>4
  <2>5. ASSUME call[t].op # "open"
        PROVE  init /\ IF call[t].ok THEN opened \subseteq closeFailed
                       ELSE handle \in opened /\ opened \subseteq closeFailed
    BY <1>1, <1>2, <2>2, <2>5 DEF Underway, Closing
  <2>6. CASE CloseFinish(t) \/ DestroyFinish(t)
    <3>1. Return(t) /\ init' = (init /\ ~call[t].ok) /\ call[t].op # "open"
      BY <2>6 DEF CloseFinish, DestroyFinish, Finishing
    <3>2. Settled'
      BY <1>1, <2>5, <3>1 DEF Settled
    <3> QED BY <2>3, <3>1, <3>2
  <2>7. CASE ReopenFinish(t)
    <3>1. call[t].op = "reopen"
      BY <2>7 DEF ReopenFinish, Finishing
    <3>2. CASE ~call[t].ok
      <4>1. Return(t) /\ init' = init
        BY <2>7, <3>2 DEF ReopenFinish
      <4>2. Settled'
        BY <1>1, <2>5, <3>1, <3>2, <4>1 DEF Settled
      <4> QED BY <2>3, <4>1, <4>2
    <3>3. CASE call[t].ok
      <4> DEFINE d == [call[t] EXCEPT !.op = "open"]
      <4>1. /\ init' = FALSE /\ call' = [call EXCEPT ![t] = d]
            /\ pc' = [pc EXCEPT ![t] = "lock"]
        BY <2>7, <3>3 DEF ReopenFinish, Goto
      <4>2. d \in Calls /\ d.op = "open" /\ "open" \in LifecycleOps
        BY <1>1 DEF Calls, OpNames, LifecycleOps
      <4> HIDE DEF d
      <4>3. pc'[t] = "lock" /\ call'[t] = d
        BY <4>1 DEF TypeOK
      <4>4. opened \subseteq closeFailed
        BY <2>5, <3>1, <3>3
      <4>5. Underway(t)'
        BY <1>1, <1>2, <4>1, <4>2, <4>3, <4>4 DEF Underway, Opening
      <4> QED BY <1>1, <1>2, <2>2, <4>1, <4>2, <4>5, LoneStep
    <3> QED BY <3>2, <3>3
  <2> QED BY <2>4, <2>6, <2>7
<1> QED BY <1>3, <1>4

(* Every step keeps the handle accounted for. *)
LEMMA HandleStep ==
    TypeOK /\ QueryCarried /\ LastCall /\ HandleInv /\ [Next]_vars => HandleInv'
<1> SUFFICES ASSUME TypeOK, QueryCarried, LastCall, HandleInv, [Next]_vars
             PROVE  HandleInv'
  OBVIOUS
<1>1. ASSUME NEW t \in Threads, Call(t) \/ Step(t)
      PROVE  HandleInv'
  BY <1>1, CallHandles, StepSteady, SteadyStep, LifecycleLib, LifecycleFinish
<1>2. CASE Create
  <2>1. /\ ~alive /\ alive' = TRUE /\ init' = FALSE /\ handle' = 0
        /\ \A u \in Threads : ~InLifecycle(u) /\ ~InLifecycle(u)'
        /\ UNCHANGED << opened, closeFailed, overlap >>
    BY <1>2 DEF Create, library, history, InLifecycle, Busy
  <2>2. "lifecycle" \notin overlap => opened \subseteq closeFailed
    BY <2>1 DEF HandleInv, Settled
  <2> QED BY <2>1, <2>2 DEF HandleInv, Settled
<1>3. CASE DropSearch \/ DropCount \/ UNCHANGED vars
  <2>1. UNCHANGED << pc, call, overlap, init, handle, opened, closeFailed, alive >>
    BY <1>3 DEF DropSearch, DropCount, vars, index, library, history
  <2>2. Steady
    BY <2>1 DEF Steady, InLifecycle, Busy
  <2> QED BY <2>2, SteadyStep
<1> QED BY <1>1, <1>2, <1>3 DEF Next

(* At first the index is closed and no handle is open. *)
LEMMA HandleInit == Init => LastCall /\ HandleInv
BY DEF Init, LastCall, HandleInv, InLifecycle, Busy, Settled

(* Unless two open, close or destroy calls were in progress at once, no    *)
(* open handle is forgotten except one whose avs_close failed, and an      *)
(* index that believes it is open is.                                      *)
THEOREM HandlesAreAccounted == Spec => []HandlesAccounted
<1> DEFINE Inv == TypeOK /\ QueryCarried /\ LastCall /\ HandleInv
<1>1. Init => Inv
  BY TypeInit, HandleInit
<1>2. Inv /\ [Next]_vars => Inv'
  BY TypeStep, LastCallStep, HandleStep
<1>3. Inv => HandlesAccounted
  BY DEF HandleInv, HandlesAccounted, InLifecycle, Settled
<1> QED BY <1>1, <1>2, <1>3, PTL DEF Spec

----------------------------------------------------------------------------
(* Locations.  While no two calls add to the index at once, the words of a *)
(* document that is open lie below location, unless the call in progress   *)
(* has placed its words and not yet moved location past them.              *)
Writing(t) == Busy(t, LocationOps)

(* Words the call of thread t has placed, and where they end. *)
Placed(t) ==
    \/ pc[t] = "field"
    \/ pc[t] \in AfterLib /\ call[t].op \in WordOps /\ call[t].ok

PlacedEnd(t) ==
    call[t].n + IF pc[t] \in { "field", "finish" } THEN call[t].loc
                ELSE location

Below(m) == \A x \in occupied : x < m

Appending == docOpen /\ handle \in opened

WriterInv ==
    "writers" \notin overlap =>
        /\ ~clash /\ ~misfield
        /\ \A t, u \in Threads : Writing(t) /\ Writing(u) => t = u
        /\ (\A t \in Threads : ~Placed(t)) => (Appending => Below(location))
        /\ \A t \in Threads : Placed(t) => Below(PlacedEnd(t))
        /\ \A t \in Threads :
              pc[t] \notin {"idle"} \cup AfterLib /\ call[t].op = "add_field_words"
                  => call[t].start = location
        /\ \A t \in Threads : pc[t] = "field" => call[t].loc = location

(* The library knows its last location, and every handle has a number. *)
LibraryInv ==
    /\ 0 \notin opened /\ \A x \in occupied : x <= top
    /\ \A t \in Threads :
          pc[t] # "idle" /\ call[t].op \in { "open", "reopen" } => call[t].n # 0

(* Most steps neither place words nor move location, and open no document. *)
Passive ==
    /\ UNCHANGED << location, occupied, top, clash, misfield >>
    /\ overlap \subseteq overlap'
    /\ Appending' => Appending
    /\ \A u \in Threads :
          /\ Writing(u)' => Writing(u)
          /\ Placed(u)' <=> Placed(u)
          /\ Writing(u)' =>
                /\ call'[u].op = call[u].op /\ call'[u].start = call[u].start
                /\ pc'[u] \in AfterLib <=> pc[u] \in AfterLib
          /\ Placed(u)' =>
                /\ call'[u].n = call[u].n /\ call'[u].loc = call[u].loc
                /\ pc'[u] = "field" <=> pc[u] = "field"
                /\ pc'[u] = "finish" <=> pc[u] = "finish"
          /\ pc'[u] = "field" =>
                pc[u] = "field" /\ call'[u].loc = call[u].loc

(* They keep what is known of the locations. *)
LEMMA PassiveStep == ASSUME WriterInv, Passive PROVE WriterInv'
<1> SUFFICES ASSUME "writers" \notin overlap'
             PROVE  WriterInv'
  BY DEF WriterInv
<1>1. /\ UNCHANGED << location, occupied, top, clash, misfield >>
      /\ "writers" \notin overlap
  BY DEF Passive
<1>2. \A m : Below(m)' = Below(m)
  BY <1>1 DEF Below
<1>3. ~clash' /\ ~misfield'
  BY <1>1 DEF WriterInv
<1>4. \A t, u \in Threads : Writing(t)' /\ Writing(u)' => t = u
  BY <1>1 DEF WriterInv, Passive
<1>5. (\A t \in Threads : ~Placed(t)') => (Appending' => Below(location)')
  BY <1>1, <1>2 DEF WriterInv, Passive
<1>6. ASSUME NEW t \in Threads, Placed(t)' PROVE Below(PlacedEnd(t))'
  <2>1. Placed(t) /\ PlacedEnd(t)' = PlacedEnd(t)
    BY <1>1, <1>6 DEF Passive, PlacedEnd
  <2>2. Below(PlacedEnd(t))
    BY <1>1, <2>1 DEF WriterInv
  <2> QED BY <1>1, <2>1, <2>2 DEF Below
<1>7. ASSUME NEW t \in Threads, pc'[t] \notin {"idle"} \cup AfterLib,
             call'[t].op = "add_field_words"
      PROVE  call'[t].start = location'
  <2>1. Writing(t)'
    BY <1>7 DEF Writing, Busy, LocationOps
  <2>2. Writing(t) /\ call'[t].op = call[t].op /\ call'[t].start = call[t].start
        /\ pc[t] \notin AfterLib
    BY <1>7, <2>1 DEF Passive
  <2>3. pc[t] # "idle"
    BY <2>2 DEF Writing, Busy
  <2> QED BY <1>1, <1>7, <2>2, <2>3 DEF WriterInv
<1>8. \A t \in Threads : pc'[t] = "field" => call'[t].loc = location'
  BY <1>1 DEF WriterInv, Passive
<1> QED BY <1>3, <1>4, <1>5, <1>6, <1>7, <1>8 DEF WriterInv

(* What is left to show when only the thread that adds to the index moves. *)
LEMMA LoneWriter ==
    ASSUME TypeOK, QueryCarried, NEW t \in Threads, NEW p \in Places,
           NEW d \in Calls, pc' = [pc EXCEPT ![t] = p],
           call' = [call EXCEPT ![t] = d],
           \A u \in Threads \ {t} : ~Writing(u),
           ~clash', ~misfield',
           ~Placed(t)' => (Appending' => Below(location)'),
           Placed(t)' => Below(PlacedEnd(t))',
           p \notin {"idle"} \cup AfterLib /\ d.op = "add_field_words"
               => d.start = location',
           p = "field" => d.loc = location'
    PROVE  WriterInv'
<1>1. /\ pc'[t] = p /\ call'[t] = d
      /\ \A u \in Threads \ {t} : pc'[u] = pc[u] /\ call'[u] = call[u]
  BY DEF TypeOK
<1>2. \A u \in Threads \ {t} : ~Writing(u)' /\ ~Placed(u)'
  <2> SUFFICES ASSUME NEW u \in Threads \ {t}
               PROVE  ~Writing(u)' /\ ~Placed(u)'
    OBVIOUS
  <2>1. ~Writing(u)'
    BY <1>1 DEF Writing, Busy
  <2>2. pc[u] = "idle" \/ call[u].op \notin LocationOps
    BY DEF Writing, Busy
  <2>3. pc[u] # "field"
    BY <2>2 DEF QueryCarried, LocationOps
  <2>4. ~(pc[u] \in AfterLib /\ call[u].op \in WordOps)
    BY <2>2 DEF LocationOps, AfterLib
  <2> QED BY <1>1, <2>1, <2>3, <2>4 DEF Placed
<1>3. \A u \in Threads \ {t} :
         pc'[u] \notin {"idle"} \cup AfterLib => call'[u].op # "add_field_words"
  BY <1>2 DEF Writing, Busy, LocationOps
<1>4. \A u \in Threads \ {t} : pc'[u] # "field"
  BY <1>2 DEF Placed
<1>5. \A u, v \in Threads : Writing(u)' /\ Writing(v)' => u = v
  BY <1>2
<1>6. (\A u \in Threads : ~Placed(u)') => (Appending' => Below(location)')
  BY <1>2
<1>7. \A u \in Threads : Placed(u)' => Below(PlacedEnd(u))'
  BY <1>2
<1>8. \A u \in Threads :
         pc'[u] \notin {"idle"} \cup AfterLib /\ call'[u].op = "add_field_words"
             => call'[u].start = location'
  BY <1>1, <1>3
<1>9. \A u \in Threads : pc'[u] = "field" => call'[u].loc = location'
  BY <1>1, <1>4
<1> QED BY <1>5, <1>6, <1>7, <1>8, <1>9 DEF WriterInv

(* A thread that has placed nothing may move on, finish or begin. *)
LEMMA MovesPassive ==
    ASSUME TypeOK, NEW t \in Threads, NEW p \in Places, NEW d \in Calls,
           pc' = [pc EXCEPT ![t] = p], call' = [call EXCEPT ![t] = d],
           ~Placed(t), p # "field",
           \/ p = "idle" \/ d.op \notin LocationOps
           \/ /\ pc[t] # "idle" /\ d.op \notin WordOps
              /\ d.op = call[t].op /\ d.start = call[t].start
              /\ p \in AfterLib <=> pc[t] \in AfterLib,
           UNCHANGED << location, occupied, top, clash, misfield >>,
           overlap \subseteq overlap', Appending' => Appending
    PROVE  Passive
<1>1. /\ pc'[t] = p /\ call'[t] = d
      /\ \A u \in Threads \ {t} : pc'[u] = pc[u] /\ call'[u] = call[u]
  BY DEF TypeOK
<1>2. \A u \in Threads \ {t} : /\ Writing(u)' <=> Writing(u)
                               /\ Placed(u)' <=> Placed(u)
  BY <1>1 DEF Writing, Busy, Placed
<1>3. ~Placed(t)'
  BY <1>1 DEF Placed, AfterLib, LocationOps
<1>4. /\ Writing(t)' => Writing(t)
      /\ Writing(t)' =>
            /\ call'[t].op = call[t].op /\ call'[t].start = call[t].start
            /\ pc'[t] \in AfterLib <=> pc[t] \in AfterLib
  BY <1>1 DEF Writing, Busy
<1> QED BY <1>1, <1>2, <1>3, <1>4 DEF Passive

(* So may one at any place but these, if its locals stay as they are. *)
LEMMA WaitsPassive ==
    ASSUME TypeOK, NEW t \in Threads, NEW p \in Places,
           pc' = [pc EXCEPT ![t] = p], UNCHANGED call,
           { p, pc[t] } \cap { "idle", "field", "finish" } = {},
           p \in AfterLib <=> pc[t] \in AfterLib,
           UNCHANGED << location, occupied, top, clash, misfield, overlap,
                        docOpen, handle, opened >>
    PROVE  Passive
<1>1. /\ pc'[t] = p
      /\ \A u \in Threads \ {t} : pc'[u] = pc[u]
  BY DEF TypeOK
<1>2. \A u \in Threads : /\ Writing(u)' <=> Writing(u)
                         /\ Placed(u)' <=> Placed(u)
                         /\ pc'[u] \in AfterLib <=> pc[u] \in AfterLib
                         /\ pc'[u] = "field" <=> pc[u] = "field"
                         /\ pc'[u] = "finish" <=> pc[u] = "finish"
  BY <1>1 DEF Writing, Busy, Placed
<1>3. Appending' = Appending
  BY DEF Appending
<1> QED BY <1>2, <1>3 DEF Passive

(* When a call begins no words are placed. *)
LEMMA CallLocations ==
    ASSUME TypeOK, QueryCarried, WriterInv, NEW t \in Threads, Call(t)
    PROVE  WriterInv'
<1>1. /\ { "lock", "get_location", "buildmode" } \subseteq Places
      /\ { "lock", "get_location", "buildmode", "idle" }
            \cap (AfterLib \cup { "field" }) = {}
  BY DEF Places, AfterLib
<1>2. CASE Begins(t)
  <2>1. PICK name \in OpNames, c \in Calls :
           /\ Begin(t, name, c) /\ Fresh(c) /\ UNCHANGED << handle, location >>
    BY <1>2 DEF Begins
  <2>2. /\ pc[t] = "idle"
        /\ pc' = [pc EXCEPT ![t] = "lock"] /\ call' = [call EXCEPT ![t] = c]
        /\ overlap' = overlap \cup Overlaps(t, c.op)
        /\ UNCHANGED << location, occupied, top, clash, misfield, docOpen,
                        handle, opened >>
    BY <2>1 DEF Begin, Goto, library, history
  <2>3. ~Placed(t) /\ Appending' = Appending
    BY <1>1, <2>2 DEF Placed, Appending
  <2>4. CASE c.op \notin LocationOps
    <3>1. Passive
      BY <1>1, <2>2, <2>3, <2>4, MovesPassive
    <3> QED BY <3>1, PassiveStep
  <2>5. CASE c.op \in LocationOps
    <3>1. CASE "writers" \in overlap'
      BY <3>1 DEF WriterInv
    <3>2. CASE "writers" \notin overlap'
      <4>1. "writers" \notin overlap /\ "writers" \notin Overlaps(t, c.op)
        BY <2>2, <3>2
      <4>2. \A u \in Threads : ~Writing(u)
        <5>1. \A u \in Threads \ {t} : ~Busy(u, LocationOps)
          BY <2>5, <4>1 DEF Overlaps
        <5> QED BY <2>2, <5>1 DEF Writing, Busy
      <4>3. \A u \in Threads : ~Placed(u)
        <5> SUFFICES ASSUME NEW u \in Threads, Placed(u) PROVE FALSE
          OBVIOUS
        <5>1. pc[u] # "idle" /\ call[u].op \in LocationOps
          BY DEF Placed, QueryCarried, LocationOps, AfterLib
        <5> QED BY <4>2, <5>1 DEF Writing, Busy
      <4>4. ~clash /\ ~misfield /\ (Appending => Below(location))
        BY <4>1, <4>3 DEF WriterInv
      <4>5. ~Placed(t)' /\ Below(location)' = Below(location)
        BY <1>1, <2>2 DEF Placed, Below, TypeOK
      <4>6. c.op = "add_field_words" => c.start = location'
        BY <2>1 DEF Fresh
      <4>7. ~clash' /\ ~misfield' /\ (Appending' => Below(location)')
        BY <2>2, <2>3, <4>4, <4>5
      <4>8. "lock" \in Places /\ "lock" # "field"
        BY <1>1
      <4> QED BY <2>2, <4>2, <4>5, <4>6, <4>7, <4>8, LoneWriter
    <3> QED BY <3>1, <3>2
  <2> QED BY <2>4, <2>5
<1>3. CASE Close(t) /\ init
  <2>1. Plain(t, "close") /\ "close" \in OpNames /\ "close" \notin ResultOps
    BY <1>3 DEF Close, Plain, OpNames, LifecycleOps, ResultOps
  <2> QED BY <1>2, <1>3, <2>1, PlainBegins
<1>4. ASSUME UNCHANGED << pc, call, location, occupied, top, clash, misfield,
                          overlap, docOpen, handle, opened >>
      PROVE  WriterInv'
  <2>1. Passive
    BY <1>4 DEF Passive, Writing, Busy, Placed, Appending
  <2> QED BY <2>1, PassiveStep
<1>5. CASE Close(t) /\ ~init
  BY <1>4, <1>5 DEF Close, library, history
<1>6. ASSUME NEW o \in { "get_location", "buildmode", "destroy" },
             NEW p \in { "get_location", "buildmode", "lock" },
             pc[t] = "idle", pc' = [pc EXCEPT ![t] = p],
             call' = [call EXCEPT ![t] = [NoCall EXCEPT !.op = o]],
             UNCHANGED << location, occupied, top, clash, misfield, overlap,
                          docOpen, handle, opened >>
      PROVE  WriterInv'
  <2> DEFINE d == [NoCall EXCEPT !.op = o]
  <2>1. d \in Calls /\ d.op = o
    <3>1. o \in OpNames /\ 0 \in Nat
      BY DEF OpNames, LifecycleOps
    <3> QED BY <3>1, FreshLocals
  <2>2. call' = [call EXCEPT ![t] = d] /\ o \notin LocationOps
    BY <1>6 DEF LocationOps, WordOps
  <2>3. ~Placed(t) /\ Appending' = Appending /\ p \in Places /\ p # "field"
    BY <1>1, <1>6 DEF Placed, Appending
  <2> HIDE DEF d
  <2>4. Passive
    BY <1>6, <2>1, <2>2, <2>3, MovesPassive
  <2> QED BY <2>4, PassiveStep
<1>7. CASE GetLocation(t) \/ Buildmode(t)
  BY <1>6, <1>7 DEF GetLocation, Buildmode, HoldGil, Goto, index, library, history
<1>8. CASE Destroy(t)
  <2>1. CASE init
    BY <1>6, <1>8, <2>1 DEF Destroy, Goto, library, history
  <2>2. CASE ~init
    BY <1>4, <1>8, <2>2 DEF Destroy, library, history
  <2> QED BY <2>1, <2>2
<1> QED BY <1>2, <1>3, <1>5, <1>7, <1>8, CallShapes

(* A step that adds nothing to the index is passive. *)
LEMMA StepPassive ==
    ASSUME TypeOK, QueryCarried, NEW t \in Threads, Step(t)
    PROVE  \/ Passive \/ StartDocLib(t) \/ AddTextLib(t) \/ AddFieldWordsLib(t)
           \/ MarkField(t) \/ AddTextFinish(t)
           \/ (ThreadsDisallow(t) /\ call[t].op \in WordOps)
<1>1. /\ call \in [Threads -> Calls] /\ call[t] \in Calls
      /\ pc \in [Threads -> Places]
  BY DEF TypeOK
<1>2. UNCHANGED << alive, overlap >>
  BY StepKeepsAlive
<1>3. { "yield", "lib", "resume", "finish" } \subseteq Places
  BY DEF Places
<1>4. CASE MtLock(t) \/ SearchYield(t) \/ MtUnlock(t)
  <2>1. \E p \in { "yield", "lib", "resume" } :
          /\ pc' = [pc EXCEPT ![t] = p]
          /\ { p, pc[t] } \cap { "idle", "field", "finish" } = {}
          /\ p \in AfterLib <=> pc[t] \in AfterLib
    BY <1>4 DEF MtLock, SearchYield, MtUnlock, Goto, AfterLib
  <2>2. UNCHANGED << call, location, occupied, top, clash, misfield, docOpen,
                     handle, opened >>
    BY <1>4 DEF MtLock, SearchYield, MtUnlock, index, library, history
  <2> QED BY <1>2, <1>3, <2>1, <2>2, WaitsPassive
<1>5. CASE ThreadsDisallow(t) /\ call[t].op \notin WordOps
  <2> DEFINE d == [call[t] EXCEPT !.loc = location]
  <2>1. d \in Calls /\ d.op = call[t].op /\ d.start = call[t].start
    BY <1>1 DEF TypeOK, Calls
  <2>2. /\ pc[t] = "resume" /\ pc' = [pc EXCEPT ![t] = "finish"]
        /\ call' = [call EXCEPT ![t] = d]
        /\ UNCHANGED << location, occupied, top, clash, misfield, docOpen,
                        handle, opened >>
    BY <1>5 DEF ThreadsDisallow, Goto, index, library, history
  <2>3. /\ "resume" \in AfterLib /\ "finish" \in AfterLib
        /\ ~Placed(t) /\ Appending' = Appending
    BY <1>5, <2>2 DEF AfterLib, Placed, Appending
  <2> HIDE DEF d
  <2> QED BY <1>2, <1>3, <1>5, <2>1, <2>2, <2>3, MovesPassive
<1>6. ASSUME pc[t] # "field", call[t].op \notin WordOps,
             pc'[t] = "idle" \/ call[t].op \notin LocationOps,
             pc'[t] # "field",
             UNCHANGED << location, occupied, top, clash, misfield >>,
             Appending' => Appending
      PROVE  Passive
  <2>1. PICK p \in Places, d \in Calls :
           /\ pc' = [pc EXCEPT ![t] = p] /\ call' = [call EXCEPT ![t] = d]
           /\ p # "idle" =>
                 d.op = call[t].op \/ (call[t].op = "reopen" /\ d.op = "open")
    BY StepMoves DEF Moves
  <2>2. pc'[t] = p
    BY <1>1, <2>1
  <2>3. p = "idle" \/ d.op \notin LocationOps
    BY <1>6, <2>1, <2>2 DEF LocationOps, WordOps
  <2>4. ~Placed(t) /\ p # "field"
    BY <1>6, <2>2 DEF Placed
  <2> QED BY <1>2, <1>6, <2>1, <2>3, <2>4, MovesPassive
<1>7. /\ WordOps \subseteq LocationOps /\ PlainOps \cap LocationOps = {}
      /\ { "close", "reopen", "destroy", "open", "end_doc", "count", "search",
           "get_location", "buildmode" } \cap LocationOps = {}
      /\ { "start_doc", "end_doc", "add_field_words" } \cap WordOps = {}
  BY DEF PlainOps, WordOps, LocationOps
<1>8. ASSUME Lib(t), ~StartDocLib(t), ~AddTextLib(t), ~AddFieldWordsLib(t),
             ~MarkField(t)
      PROVE  Passive
  <2>1. CASE PlainLib(t) \/ CountLib(t) \/ SearchLib(t)
    <3>1. /\ pc[t] = "lib" /\ call[t].op \notin LocationOps
          /\ pc'[t] \in { "unlock", "clone" }
          /\ UNCHANGED << location, occupied, top, clash, misfield, docOpen,
                          handle, opened >>
      <4>1. CASE PlainLib(t)
        BY <1>1, <1>7, <4>1 DEF PlainLib, InLibrary, Goto, library, history
      <4>2. CASE CountLib(t)
        BY <1>1, <1>7, <4>2 DEF CountLib, InLibrary, Goto, history
      <4>3. CASE SearchLib(t)
        BY <1>1, <1>7, <4>3 DEF SearchLib, Goto, history
      <4> QED BY <2>1, <4>1, <4>2, <4>3
    <3> QED BY <1>6, <1>7, <3>1 DEF Appending
  <2>2. CASE EndDocLib(t) \/ CloseLib(t) \/ OpenLib(t)
    <3>1. /\ pc[t] = "lib" /\ call[t].op \notin LocationOps
          /\ pc'[t] = "unlock"
          /\ UNCHANGED << location, occupied, top, clash, misfield >>
          /\ Appending' => Appending
      <4>1. CASE EndDocLib(t)
        BY <1>1, <1>7, <4>1 DEF EndDocLib, InLibrary, Goto, history, Appending
      <4>2. CASE CloseLib(t)
        BY <1>1, <1>7, <4>2 DEF CloseLib, InLibrary, Goto, Appending
      <4>3. CASE OpenLib(t)
        BY <1>1, <1>7, <4>3 DEF OpenLib, InLibrary, Goto, history, Appending
      <4> QED BY <2>2, <4>1, <4>2, <4>3
    <3> QED BY <1>6, <1>7, <3>1
  <2> QED BY <1>8, <2>1, <2>2 DEF Lib
<1>9. ASSUME Finish(t), ~AddTextFinish(t)
      PROVE  Passive
  <2>1. /\ pc[t] # "field" /\ call[t].op \notin WordOps
        /\ pc'[t] # "field"
        /\ pc'[t] = "idle" \/ call[t].op \notin LocationOps
        /\ UNCHANGED << location, occupied, top, clash, misfield, docOpen,
                        handle, opened >>
    <3>1. CASE SearchFinish(t)
      BY <1>1, <1>7, <3>1
         DEF SearchFinish, Return, Goto, QueryCarried, index, library
    <3>2. CASE PlainFinish(t)
      BY <1>1, <1>7, <3>2 DEF PlainFinish, Finishing, Return, Goto, library, history
    <3>3. CASE CloseFinish(t)
      BY <1>1, <1>7, <3>3 DEF CloseFinish, Finishing, Return, Goto, library, history
    <3>4. CASE DestroyFinish(t)
      BY <1>1, <1>7, <3>4 DEF DestroyFinish, Finishing, Return, Goto, library, history
    <3>5. CASE ReopenFinish(t)
      BY <1>1, <1>7, <3>5 DEF ReopenFinish, Finishing, Return, Goto, library, history
    <3>6. CASE OpenFinish(t)
      BY <1>1, <1>7, <3>6 DEF OpenFinish, Finishing, Return, Goto, library, history
    <3>7. CASE CountFinish(t)
      BY <1>1, <1>7, <3>7 DEF CountFinish, Finishing, Return, Goto, library, history
    <3>8. CASE ReleaseGil(t)
      BY <1>1, <1>7, <3>8
         DEF ReleaseGil, Return, Goto, QueryCarried, index, library, history
    <3> QED BY <1>9, <3>1, <3>2, <3>3, <3>4, <3>5, <3>6, <3>7, <3>8 DEF Finish
  <2> QED BY <1>6, <2>1 DEF Appending
<1> QED BY <1>4, <1>5, <1>8, <1>9 DEF Step

(* Only the one call that adds to the index can have placed words. *)
LEMMA WriterAlone ==
    ASSUME QueryCarried, WriterInv, "writers" \notin overlap,
           NEW t \in Threads, Writing(t)
    PROVE  /\ \A u \in Threads \ {t} : ~Writing(u)
           /\ ~clash /\ ~misfield
           /\ ~Placed(t) => (Appending => Below(location))
           /\ Placed(t) => Below(PlacedEnd(t))
<1>1. \A u \in Threads \ {t} : ~Writing(u)
  BY DEF WriterInv
<1>2. ASSUME NEW u \in Threads, Placed(u) PROVE Writing(u)
  <2>1. pc[u] # "idle" /\ call[u].op \in LocationOps
    BY <1>2 DEF Placed, QueryCarried, LocationOps, AfterLib
  <2> QED BY <2>1 DEF Writing, Busy
<1>3. \A u \in Threads \ {t} : ~Placed(u)
  BY <1>1, <1>2
<1> QED BY <1>1, <1>3 DEF WriterInv

(* Placing words at location puts them where nothing is, below the end. *)
LEMMA PlaceBelow ==
    ASSUME TypeOK, Below(location), ~clash, NEW n \in Nat, Place(location, n)
    PROVE  ~clash' /\ \A x \in occupied' : x < location + n
<1>1. location \in Nat /\ occupied \subseteq Nat
  BY DEF TypeOK
<1>2. Span(location, n) \cap occupied = {}
  BY <1>1 DEF Span, Below
<1>3. \A x \in occupied \cup Span(location, n) : x < location + n
  BY <1>1 DEF Span, Below
<1> QED BY <1>2, <1>3 DEF Place

(* start_doc moves location past everything in the index. *)
LEMMA StartDocLocations ==
    ASSUME TypeOK, QueryCarried, LibraryInv, WriterInv, NEW t \in Threads,
           StartDocLib(t)
    PROVE  WriterInv'
<1>1. call[t] \in Calls /\ top \in Nat /\ occupied \subseteq Nat
  BY DEF TypeOK
<1>2. PICK ok \in BOOLEAN :
         /\ pc[t] = "lib" /\ call[t].op = "start_doc"
         /\ call' = [call EXCEPT ![t] = [call[t] EXCEPT !.ok = ok]]
         /\ pc' = [pc EXCEPT ![t] = "unlock"]
         /\ location' = IF ok THEN top + 1 ELSE location
         /\ docOpen' = (docOpen \/ ok)
         /\ UNCHANGED << handle, opened, occupied, clash, misfield, overlap >>
  BY DEF StartDocLib, InLibrary, Verdict, Goto, history, Outcomes
<1> DEFINE d == [call[t] EXCEPT !.ok = ok]
<1>3. d \in Calls /\ d.op = "start_doc"
  BY <1>1, <1>2, VerdictKeeps
<1>4. call' = [call EXCEPT ![t] = d]
  BY <1>2
<1> HIDE DEF d
<1>5. CASE "writers" \in overlap
  BY <1>2, <1>5 DEF WriterInv
<1>6. CASE "writers" \notin overlap
  <2>1. Writing(t) /\ ~Placed(t)
    BY <1>2 DEF Writing, Busy, LocationOps, Placed, AfterLib
  <2>2. /\ \A u \in Threads \ {t} : ~Writing(u)
        /\ ~clash /\ ~misfield /\ (Appending => Below(location))
    BY <1>6, <2>1, WriterAlone
  <2>3. Appending' => Below(location)'
    <3>1. CASE ok
      <4>1. \A x \in occupied : x < top + 1
        BY <1>1 DEF LibraryInv
      <4> QED BY <1>2, <3>1, <4>1 DEF Below
    <3>2. CASE ~ok
      BY <1>2, <2>2, <3>2 DEF Below, Appending
    <3> QED BY <3>1, <3>2
  <2>4. ~Placed(t)'
    <3>1. pc'[t] = "unlock" /\ call'[t] = d
      BY <1>2, <1>4 DEF TypeOK
    <3> QED BY <1>3, <3>1 DEF Placed, WordOps
  <2>5. "unlock" \in Places /\ "unlock" \in AfterLib /\ "unlock" # "field"
    BY DEF Places, AfterLib
  <2>6. pc' = [pc EXCEPT ![t] = "unlock"] /\ ~clash' /\ ~misfield'
    BY <1>2, <2>2
  <2> QED BY <1>3, <1>4, <2>2, <2>3, <2>4, <2>5, <2>6, LoneWriter
<1> QED BY <1>5, <1>6

(* The word operations place their words from location on, *)
LEMMA AddTextLocations ==
    ASSUME TypeOK, QueryCarried, WriterInv, NEW t \in Threads, AddTextLib(t)
    PROVE  WriterInv'
<1>1. call[t] \in Calls /\ call[t].n \in Nat /\ location \in Nat
  BY DEF TypeOK, Calls
<1>2. PICK ok \in BOOLEAN :
         /\ pc[t] = "lib" /\ call[t].op \in WordOps
         /\ call' = [call EXCEPT ![t] = [call[t] EXCEPT !.ok = ok]]
         /\ pc' = [pc EXCEPT ![t] = "unlock"]
         /\ ok => Appending /\ Place(location, call[t].n)
         /\ ~ok => UNCHANGED << occupied, clash >>
         /\ UNCHANGED << location, docOpen, handle, opened, misfield, overlap >>
  BY DEF AddTextLib, InLibrary, Verdict, Goto, Outcomes, Appending
<1> DEFINE d == [call[t] EXCEPT !.ok = ok]
<1>3. d \in Calls /\ d.op = call[t].op /\ d.n = call[t].n /\ d.ok = ok
  BY <1>1, VerdictKeeps
<1>4. call' = [call EXCEPT ![t] = d]
  BY <1>2
<1> HIDE DEF d
<1>5. CASE "writers" \in overlap
  BY <1>2, <1>5 DEF WriterInv
<1>6. CASE "writers" \notin overlap
  <2>1. Writing(t) /\ ~Placed(t)
    <3>1. "lib" \notin AfterLib /\ WordOps \subseteq LocationOps
      BY DEF AfterLib, LocationOps
    <3> QED BY <1>2, <3>1 DEF Writing, Busy, Placed
  <2>2. /\ \A u \in Threads \ {t} : ~Writing(u)
        /\ ~clash /\ ~misfield /\ (Appending => Below(location))
    BY <1>6, <2>1, WriterAlone
  <2>3. pc'[t] = "unlock" /\ call'[t] = d
    BY <1>2, <1>4 DEF TypeOK
  <2>4. "unlock" \in Places /\ "unlock" \in AfterLib /\ "unlock" # "field"
    BY DEF Places, AfterLib
  <2>5. Placed(t)' <=> ok
    BY <1>2, <1>3, <2>3, <2>4 DEF Placed
  <2>6. PlacedEnd(t)' = location + call[t].n
    BY <1>1, <1>2, <1>3, <2>3 DEF PlacedEnd
  <2>7. CASE ok
    <3>1. ~clash' /\ \A x \in occupied' : x < location + call[t].n
      BY <1>1, <1>2, <2>2, <2>7, PlaceBelow
    <3>2. Below(PlacedEnd(t))'
      BY <2>6, <3>1 DEF Below
    <3>3. pc' = [pc EXCEPT ![t] = "unlock"] /\ ~misfield'
      BY <1>2, <2>2
    <3> QED BY <1>3, <1>4, <2>2, <2>4, <2>5, <2>7, <3>1, <3>2, <3>3, LoneWriter
  <2>8. CASE ~ok
    <3>1. Appending' => Below(location)'
      BY <1>2, <2>2, <2>8 DEF Appending, Below
    <3>2. pc' = [pc EXCEPT ![t] = "unlock"] /\ ~clash' /\ ~misfield'
      BY <1>2, <2>2, <2>8
    <3> QED BY <1>3, <1>4, <2>2, <2>4, <2>5, <2>8, <3>1, <3>2, LoneWriter
  <2> QED BY <2>7, <2>8
<1> QED BY <1>5, <1>6

(* and so does add_field_words, which then marks a field. *)
LEMMA AddFieldWordsLocations ==
    ASSUME TypeOK, QueryCarried, WriterInv, NEW t \in Threads,
           AddFieldWordsLib(t)
    PROVE  WriterInv'
<1>1. call[t] \in Calls /\ call[t].n \in Nat /\ location \in Nat
  BY DEF TypeOK, Calls
<1>2. PICK ok \in BOOLEAN :
         /\ pc[t] = "lib" /\ call[t].op = "add_field_words"
         /\ call' = [call EXCEPT ![t].ok = ok, ![t].loc = location]
         /\ pc' = [pc EXCEPT ![t] = IF ok THEN "field" ELSE "unlock"]
         /\ ok => Appending /\ Place(location, call[t].n)
         /\ ~ok => UNCHANGED << occupied, clash >>
         /\ UNCHANGED << location, docOpen, handle, opened, misfield, overlap >>
  BY DEF AddFieldWordsLib, InLibrary, Goto, Outcomes, Appending
<1> DEFINE d == [[call[t] EXCEPT !.ok = ok] EXCEPT !.loc = location]
           p == IF ok THEN "field" ELSE "unlock"
<1>3. /\ d \in Calls /\ d.op = call[t].op /\ d.n = call[t].n
      /\ d.loc = location /\ d.start = call[t].start
  BY <1>1 DEF Calls
<1>4. call' = [call EXCEPT ![t] = d]
  BY <1>2 DEF TypeOK
<1>5. pc' = [pc EXCEPT ![t] = p] /\ p \in Places
  BY <1>2 DEF Places
<1>6. /\ ok => p = "field"
      /\ ~ok => p = "unlock"
  OBVIOUS
<1> HIDE DEF d, p
<1>7. CASE "writers" \in overlap
  BY <1>2, <1>7 DEF WriterInv
<1>8. CASE "writers" \notin overlap
  <2>1. Writing(t) /\ ~Placed(t)
    BY <1>2 DEF Writing, Busy, LocationOps, WordOps, Placed, AfterLib
  <2>2. /\ \A u \in Threads \ {t} : ~Writing(u)
        /\ ~clash /\ ~misfield /\ (Appending => Below(location))
    BY <1>8, <2>1, WriterAlone
  <2>3. pc'[t] = p /\ call'[t] = d
    BY <1>4, <1>5 DEF TypeOK
  <2>4. d.start = location' /\ d.loc = location'
    <3>1. call[t].start = location
      <4>1. pc[t] \notin {"idle"} \cup AfterLib
        BY <1>2 DEF AfterLib
      <4> QED BY <1>2, <1>8, <4>1 DEF WriterInv
    <3> QED BY <1>2, <1>3, <3>1
  <2>5. CASE ok
    <3>1. ~clash' /\ \A x \in occupied' : x < location + call[t].n
      BY <1>1, <1>2, <2>2, <2>5, PlaceBelow
    <3>2. PlacedEnd(t)' = location + call[t].n
      BY <1>1, <1>3, <1>6, <2>3, <2>5 DEF PlacedEnd
    <3>3. Below(PlacedEnd(t))'
      BY <3>1, <3>2 DEF Below
    <3>4. Placed(t)' /\ ~misfield'
      BY <1>2, <1>6, <2>2, <2>3, <2>5 DEF Placed
    <3> QED BY <1>3, <1>4, <1>5, <2>2, <2>4, <3>1, <3>3, <3>4, LoneWriter
  <2>6. CASE ~ok
    <3>1. Appending' => Below(location)'
      BY <1>2, <2>2, <2>6 DEF Appending, Below
    <3>2. ~Placed(t)' /\ p # "field" /\ p \in AfterLib
      BY <1>2, <1>3, <1>6, <2>3, <2>6 DEF Placed, WordOps, AfterLib
    <3>3. ~clash' /\ ~misfield'
      BY <1>2, <2>2, <2>6
    <3> QED BY <1>3, <1>4, <1>5, <2>2, <3>1, <3>2, <3>3, LoneWriter
  <2> QED BY <2>5, <2>6
<1> QED BY <1>7, <1>8

(* The field is marked where the words went, and location moves past them. *)
LEMMA MarkFieldLocations ==
    ASSUME TypeOK, QueryCarried, WriterInv, NEW t \in Threads, MarkField(t)
    PROVE  WriterInv'
<1>1. /\ call[t] \in Calls /\ call[t].n \in Nat /\ call[t].loc \in Nat
      /\ call[t].start \in Nat /\ location \in Nat
  BY DEF TypeOK, Calls
<1>2. PICK ok \in BOOLEAN :
         /\ pc[t] = "field"
         /\ location' = call[t].loc + call[t].n
         /\ misfield' = (misfield \/
                (ok /\ call[t].start .. (location' - 1)
                          # Span(call[t].loc, call[t].n)))
         /\ call' = [call EXCEPT ![t] = [call[t] EXCEPT !.ok = ok]]
         /\ pc' = [pc EXCEPT ![t] = "unlock"]
         /\ UNCHANGED << occupied, clash, overlap >>
  BY OutcomesBoolean DEF MarkField, Verdict, Goto, library
<1> DEFINE d == [call[t] EXCEPT !.ok = ok]
<1>3. d \in Calls /\ d.op = call[t].op
  BY <1>1, VerdictKeeps
<1>4. call' = [call EXCEPT ![t] = d] /\ call[t].op = "add_field_words"
  BY <1>2 DEF QueryCarried
<1> HIDE DEF d
<1>5. CASE "writers" \in overlap
  BY <1>2, <1>5 DEF WriterInv
<1>6. CASE "writers" \notin overlap
  <2>1. Writing(t) /\ Placed(t)
    BY <1>2, <1>4 DEF Writing, Busy, LocationOps, Placed
  <2>2. /\ \A u \in Threads \ {t} : ~Writing(u)
        /\ ~clash /\ ~misfield /\ Below(PlacedEnd(t))
    BY <1>6, <2>1, WriterAlone
  <2>3. Below(location)'
    <3>1. PlacedEnd(t) = location'
      BY <1>1, <1>2 DEF PlacedEnd
    <3> QED BY <1>2, <2>2, <3>1 DEF Below
  <2>4. ~misfield'
    <3>1. pc[t] \notin {"idle"} \cup AfterLib
      BY <1>2 DEF AfterLib
    <3>2. call[t].start = location /\ call[t].loc = location
      BY <1>2, <1>4, <1>6, <3>1 DEF WriterInv
    <3>3. call[t].start .. (location' - 1) = Span(call[t].loc, call[t].n)
      BY <1>1, <1>2, <3>2 DEF Span
    <3> QED BY <1>2, <2>2, <3>3
  <2>5. "unlock" \in Places /\ "unlock" \in AfterLib /\ "unlock" # "field"
    BY DEF Places, AfterLib
  <2>6. ~Placed(t)'
    <3>1. pc'[t] = "unlock" /\ call'[t] = d
      BY <1>2, <1>4 DEF TypeOK
    <3> QED BY <1>3, <1>4, <3>1 DEF Placed, WordOps
  <2>7. pc' = [pc EXCEPT ![t] = "unlock"] /\ ~clash'
    BY <1>2, <2>2
  <2> QED BY <1>3, <1>4, <2>2, <2>3, <2>4, <2>5, <2>6, <2>7, LoneWriter
<1> QED BY <1>5, <1>6

(* The location the addition starts from is the one the words were put at, *)
LEMMA DisallowLocations ==
    ASSUME TypeOK, QueryCarried, WriterInv, NEW t \in Threads,
           ThreadsDisallow(t), call[t].op \in WordOps
    PROVE  WriterInv'
<1>1. call[t] \in Calls /\ call[t].n \in Nat /\ location \in Nat
  BY DEF TypeOK, Calls
<1> DEFINE d == [call[t] EXCEPT !.loc = location]
<1>2. /\ pc[t] = "resume" /\ pc' = [pc EXCEPT ![t] = "finish"]
      /\ call' = [call EXCEPT ![t] = d]
      /\ UNCHANGED << location, occupied, docOpen, handle, opened, clash,
                      misfield, overlap >>
  BY DEF ThreadsDisallow, Goto, index, library, history
<1>3. /\ d \in Calls /\ d.op = call[t].op /\ d.n = call[t].n
      /\ d.ok = call[t].ok /\ d.loc = location
  BY <1>1 DEF Calls
<1> HIDE DEF d
<1>4. CASE "writers" \in overlap
  BY <1>2, <1>4 DEF WriterInv
<1>5. CASE "writers" \notin overlap
  <2>1. /\ "finish" \in Places /\ "finish" \in AfterLib /\ "finish" # "field"
        /\ "resume" \in AfterLib /\ WordOps \subseteq LocationOps
    BY DEF Places, AfterLib, LocationOps
  <2>2. Writing(t) /\ (Placed(t) <=> call[t].ok)
    BY <1>2, <2>1 DEF Writing, Busy, Placed
  <2>3. /\ \A u \in Threads \ {t} : ~Writing(u)
        /\ ~clash /\ ~misfield
        /\ ~Placed(t) => (Appending => Below(location))
        /\ Placed(t) => Below(PlacedEnd(t))
    BY <1>5, <2>2, WriterAlone
  <2>4. pc'[t] = "finish" /\ call'[t] = d
    BY <1>2 DEF TypeOK
  <2>5. Placed(t)' <=> Placed(t)
    BY <1>3, <2>1, <2>2, <2>4 DEF Placed
  <2>6. PlacedEnd(t)' = PlacedEnd(t)
    BY <1>1, <1>2, <1>3, <2>4 DEF PlacedEnd
  <2>7. Placed(t)' => Below(PlacedEnd(t))'
    BY <1>2, <2>3, <2>5, <2>6 DEF Below
  <2>8. ~Placed(t)' => (Appending' => Below(location)')
    BY <1>2, <2>3, <2>5 DEF Below, Appending
  <2>9. pc' = [pc EXCEPT ![t] = "finish"] /\ ~clash' /\ ~misfield'
    BY <1>2, <2>3
  <2>10. call' = [call EXCEPT ![t] = d]
    BY <1>2
  <2> QED BY <1>3, <2>1, <2>3, <2>7, <2>8, <2>9, <2>10, LoneWriter
<1> QED BY <1>4, <1>5

(* and the addition moves it past them. *)
LEMMA AddTextFinishLocations ==
    ASSUME TypeOK, QueryCarried, WriterInv, NEW t \in Threads,
           AddTextFinish(t)
    PROVE  WriterInv'
<1>1. call[t] \in Calls /\ call[t].n \in Nat /\ call[t].loc \in Nat
  BY DEF TypeOK, Calls
<1>2. /\ pc[t] = "finish" /\ call[t].op \in WordOps
      /\ pc' = [pc EXCEPT ![t] = "idle"]
      /\ call' = [call EXCEPT ![t] = NoCall]
      /\ location' = IF call[t].ok THEN call[t].loc + call[t].n ELSE location
      /\ UNCHANGED << occupied, docOpen, handle, opened, clash, misfield,
                      overlap >>
  BY DEF AddTextFinish, Finishing, Return, Goto, library, history
<1>3. CASE "writers" \in overlap
  BY <1>2, <1>3 DEF WriterInv
<1>4. CASE "writers" \notin overlap
  <2>1. /\ "idle" \in Places /\ "idle" \notin AfterLib \cup {"field"}
        /\ "finish" \in AfterLib /\ WordOps \subseteq LocationOps
        /\ NoCall \in Calls
    BY NoCallIsCall DEF Places, AfterLib, LocationOps
  <2>2. Writing(t) /\ (Placed(t) <=> call[t].ok)
    BY <1>2, <2>1 DEF Writing, Busy, Placed
  <2>3. /\ \A u \in Threads \ {t} : ~Writing(u)
        /\ ~clash /\ ~misfield
        /\ ~Placed(t) => (Appending => Below(location))
        /\ Placed(t) => Below(PlacedEnd(t))
    BY <1>4, <2>2, WriterAlone
  <2>4. Appending' => Below(location)'
    <3>1. CASE call[t].ok
      <4>1. location' = PlacedEnd(t)
        BY <1>1, <1>2, <3>1 DEF PlacedEnd
      <4> QED BY <1>2, <2>2, <2>3, <3>1, <4>1 DEF Below
    <3>2. CASE ~call[t].ok
      BY <1>2, <2>2, <2>3, <3>2 DEF Below, Appending
    <3> QED BY <3>1, <3>2
  <2>5. ~Placed(t)'
    BY <1>2, <2>1 DEF Placed, TypeOK
  <2>6. /\ pc' = [pc EXCEPT ![t] = "idle"] /\ ~clash' /\ ~misfield'
        /\ call' = [call EXCEPT ![t] = NoCall]
    BY <1>2, <2>3
  <2> QED BY <2>1, <2>3, <2>4, <2>5, <2>6, LoneWriter
<1> QED BY <1>3, <1>4

(* The library's own bookkeeping holds from step to step. *)
LEMMA LibraryStep ==
    TypeOK /\ QueryCarried /\ LibraryInv /\ [Next]_vars => LibraryInv'
<1> SUFFICES ASSUME TypeOK, QueryCarried, LibraryInv, [Next]_vars
             PROVE  LibraryInv'
  OBVIOUS
<1>1. ASSUME NEW t \in Threads, NEW p \in Places, NEW d \in Calls,
             pc' = [pc EXCEPT ![t] = p], call' = [call EXCEPT ![t] = d],
             p # "idle" /\ d.op \in { "open", "reopen" } => d.n # 0
      PROVE  \A u \in Threads :
                pc'[u] # "idle" /\ call'[u].op \in { "open", "reopen" }
                    => call'[u].n # 0
  <2>1. /\ pc'[t] = p /\ call'[t] = d
        /\ \A u \in Threads \ {t} : pc'[u] = pc[u] /\ call'[u] = call[u]
    BY <1>1 DEF TypeOK
  <2> QED BY <1>1, <2>1 DEF LibraryInv
<1>2. ASSUME NEW t \in Threads, Step(t)
      PROVE  LibraryInv'
  <2>1. \A u \in Threads :
           pc'[u] # "idle" /\ call'[u].op \in { "open", "reopen" }
               => call'[u].n # 0
    <3>1. PICK p \in Places, d \in Calls :
             /\ pc[t] # "idle"
             /\ pc' = [pc EXCEPT ![t] = p] /\ call' = [call EXCEPT ![t] = d]
             /\ p # "idle" =>
                   /\ d.n = call[t].n
                   /\ d.op = call[t].op \/ (call[t].op = "reopen" /\ d.op = "open")
      BY <1>2, StepMoves DEF Moves
    <3>2. p # "idle" /\ d.op \in { "open", "reopen" } => d.n # 0
      BY <3>1 DEF LibraryInv
    <3> QED BY <1>1, <3>1, <3>2
  <2>2. /\ call[t].n \in Nat /\ location \in Nat /\ top \in Nat
        /\ occupied \subseteq Nat
    BY DEF TypeOK, Calls
  <2>3. CASE Place(location, call[t].n) /\ UNCHANGED opened
    <3>1. occupied' = occupied \cup Span(location, call[t].n)
      BY <2>3 DEF Place
    <3>2. top' = IF location + call[t].n - 1 > top THEN location + call[t].n - 1
                 ELSE top
      BY <2>3 DEF Place
    <3>3. \A x \in Span(location, call[t].n) :
             x \in Nat /\ x <= location + call[t].n - 1
      BY <2>2 DEF Span
    <3>4. \A x \in occupied' : x <= top'
      BY <2>2, <3>1, <3>2, <3>3 DEF LibraryInv
    <3> QED BY <2>1, <2>3, <3>4 DEF LibraryInv
  <2>4. CASE UNCHANGED << occupied, top >> /\ 0 \notin opened'
    BY <2>1, <2>4 DEF LibraryInv
  <2>5. ASSUME Lib(t)
        PROVE  \/ Place(location, call[t].n) /\ UNCHANGED opened
               \/ UNCHANGED << occupied, top >> /\ 0 \notin opened'
    <3>1. 0 \notin opened
      BY DEF LibraryInv
    <3>2. CASE PlainLib(t)
      BY <3>1, <3>2 DEF PlainLib, library
    <3>3. CASE StartDocLib(t)
      BY <3>1, <3>3 DEF StartDocLib
    <3>4. CASE EndDocLib(t)
      BY <3>1, <3>4 DEF EndDocLib
    <3>5. CASE AddTextLib(t)
      BY <3>1, <3>5 DEF AddTextLib
    <3>6. CASE AddFieldWordsLib(t)
      BY <3>1, <3>6 DEF AddFieldWordsLib
    <3>7. CASE MarkField(t)
      BY <3>1, <3>7 DEF MarkField, library
    <3>8. CASE CloseLib(t)
      BY <3>1, <3>8 DEF CloseLib
    <3>9. CASE OpenLib(t)
      <4>1. call[t].n # 0
        BY <3>9 DEF OpenLib, InLibrary, LibraryInv
      <4> QED BY <3>1, <3>9, <4>1 DEF OpenLib
    <3>10. CASE CountLib(t)
      BY <3>1, <3>10 DEF CountLib
    <3>11. CASE SearchLib(t)
      BY <3>1, <3>11 DEF SearchLib
    <3> QED BY <2>5, <3>2, <3>3, <3>4, <3>5, <3>6, <3>7, <3>8, <3>9, <3>10,
               <3>11 DEF Lib
  <2>6. ASSUME ~Lib(t)
        PROVE  UNCHANGED << occupied, top, opened >>
    <3>1. CASE MtLock(t) \/ SearchYield(t) \/ MtUnlock(t) \/ ThreadsDisallow(t)
      BY <3>1 DEF MtLock, SearchYield, MtUnlock, ThreadsDisallow, library
    <3>2. CASE Finish(t)
      BY <3>2 DEF Finish, SearchFinish, PlainFinish, AddTextFinish, CloseFinish,
                  DestroyFinish, ReopenFinish, OpenFinish, CountFinish,
                  ReleaseGil, Finishing, library
    <3> QED BY <1>2, <2>6, <3>1, <3>2 DEF Step
  <2>7. 0 \notin opened
    BY DEF LibraryInv
  <2> QED BY <2>3, <2>4, <2>5, <2>6, <2>7
<1>3. ASSUME NEW t \in Threads, Call(t)
      PROVE  LibraryInv'
  <2>1. "lock" \in Places /\ "get_location" \in Places /\ "buildmode" \in Places
    BY DEF Places
  <2>2. ASSUME NEW p \in Places, NEW d \in Calls,
               pc' = [pc EXCEPT ![t] = p], call' = [call EXCEPT ![t] = d],
               d.op \in { "open", "reopen" } => d.n # 0, UNCHANGED library
        PROVE  LibraryInv'
    BY <1>1, <2>2 DEF LibraryInv, library
  <2>3. ASSUME UNCHANGED << pc, call, library >>
        PROVE  LibraryInv'
    BY <2>3 DEF LibraryInv, library
  <2>4. CASE Begins(t)
    <3>1. PICK name \in OpNames, c \in Calls : Begin(t, name, c) /\ Fresh(c)
      BY <2>4 DEF Begins
    <3>2. /\ pc' = [pc EXCEPT ![t] = "lock"] /\ call' = [call EXCEPT ![t] = c]
          /\ UNCHANGED library
      BY <3>1 DEF Begin, Goto
    <3>3. c.op \in { "open", "reopen" } => c.n # 0
      BY <3>1 DEF Fresh
    <3> QED BY <2>1, <2>2, <3>2, <3>3
  <2>5. ASSUME NEW o \in { "get_location", "buildmode", "close", "destroy" },
               NEW p \in { "get_location", "buildmode", "lock" },
               pc' = [pc EXCEPT ![t] = p],
               call' = [call EXCEPT ![t] = [NoCall EXCEPT !.op = o]],
               UNCHANGED library
        PROVE  LibraryInv'
    <3> DEFINE d == [NoCall EXCEPT !.op = o]
    <3>1. d \in Calls /\ d.op = o
      <4>1. o \in OpNames /\ 0 \in Nat
        BY DEF OpNames, LifecycleOps
      <4> QED BY <4>1, FreshLocals
    <3>2. call' = [call EXCEPT ![t] = d]
      BY <2>5
    <3> HIDE DEF d
    <3> QED BY <2>1, <2>2, <2>5, <3>1, <3>2
  <2>6. CASE Close(t)
    <3>1. CASE init
      BY <2>5, <2>6, <3>1 DEF Close, Begin, Goto
    <3>2. CASE ~init
      BY <2>3, <2>6, <3>2 DEF Close
    <3> QED BY <3>1, <3>2
  <2>7. CASE GetLocation(t) \/ Buildmode(t)
    BY <2>5, <2>7 DEF GetLocation, Buildmode, HoldGil, Goto
  <2>8. CASE Destroy(t)
    <3>1. CASE init
      BY <2>5, <2>8, <3>1 DEF Destroy, Goto
    <3>2. CASE ~init
      BY <2>3, <2>8, <3>2 DEF Destroy
    <3> QED BY <3>1, <3>2
  <2> QED BY <1>3, <2>4, <2>6, <2>7, <2>8, CallShapes
<1>4. CASE DropSearch \/ DropCount \/ Create \/ UNCHANGED vars
  <2>1. UNCHANGED << pc, call, opened, occupied, top >>
    BY <1>4 DEF DropSearch, DropCount, Create, vars, library
  <2> QED BY <2>1 DEF LibraryInv
<1> QED BY <1>2, <1>3, <1>4 DEF Next

(* Every step keeps the words below location. *)
LEMMA WriterStep ==
    TypeOK /\ QueryCarried /\ LibraryInv /\ WriterInv /\ [Next]_vars => WriterInv'
<1> SUFFICES ASSUME TypeOK, QueryCarried, LibraryInv, WriterInv, [Next]_vars
             PROVE  WriterInv'
  OBVIOUS
<1>1. ASSUME NEW t \in Threads, Call(t) \/ Step(t)
      PROVE  WriterInv'
  BY <1>1, CallLocations, StepPassive, PassiveStep, StartDocLocations,
     AddTextLocations, AddFieldWordsLocations, MarkFieldLocations,
     DisallowLocations, AddTextFinishLocations
<1>2. CASE Create
  <2>1. /\ \A t \in Threads : pc'[t] = "idle" /\ pc[t] = "idle"
        /\ handle' = 0 /\ UNCHANGED << clash, misfield, overlap, opened >>
    BY <1>2 DEF Create, library, history
  <2>2. ~Appending'
    BY <2>1 DEF Appending, LibraryInv
  <2>3. \A t \in Threads : ~Writing(t)' /\ ~Placed(t)'
    BY <2>1 DEF Writing, Busy, Placed, AfterLib
  <2> QED BY <2>1, <2>2, <2>3 DEF WriterInv
<1>3. CASE DropSearch \/ DropCount \/ UNCHANGED vars
  <2>1. UNCHANGED << pc, call, location, occupied, top, clash, misfield,
                     overlap, docOpen, handle, opened >>
    BY <1>3 DEF DropSearch, DropCount, vars, index, library, history
  <2>2. Passive
    BY <2>1 DEF Passive, Writing, Busy, Placed, Appending
  <2> QED BY <2>2, PassiveStep
<1> QED BY <1>1, <1>2, <1>3 DEF Next

(* At first the index is empty. *)
LEMMA WriterInit == Init => LibraryInv /\ WriterInv
BY DEF Init, LibraryInv, WriterInv, Writing, Busy, Placed, Below, AfterLib,
       Appending

(* Unless two threads were adding to the index at once, no word was put at *)
(* a location that another word has.                                       *)
THEOREM WordsAreDisjoint == Spec => []WordsDisjoint
<1> DEFINE Inv == TypeOK /\ QueryCarried /\ LibraryInv /\ WriterInv
<1>1. Init => Inv
  BY TypeInit, WriterInit
<1>2. Inv /\ [Next]_vars => Inv'
  BY TypeStep, LibraryStep, WriterStep
<1>3. Inv => WordsDisjoint
  BY DEF WriterInv, WordsDisjoint
<1> QED BY <1>1, <1>2, <1>3, PTL DEF Spec

(* Unless two threads were adding to the index at once, add_field_words    *)
(* has marked as the field exactly where its own words went.               *)
THEOREM FieldsAreExact == Spec => []FieldsExact
<1> DEFINE Inv == TypeOK /\ QueryCarried /\ LibraryInv /\ WriterInv
<1>1. Init => Inv
  BY TypeInit, WriterInit
<1>2. Inv /\ [Next]_vars => Inv'
  BY TypeStep, LibraryStep, WriterStep
<1>3. Inv => FieldsExact
  BY DEF WriterInv, FieldsExact
<1> QED BY <1>1, <1>2, <1>3, PTL DEF Spec
=============================================================================
