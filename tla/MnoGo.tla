-------------------------------- MODULE MnoGo --------------------------------
(***************************************************************************)
(* mnogo: a Query object over an agent of the mnoGoSearch library, and     *)
(* Result objects with a cursor (src/mnoGo/mnogo.c).  A search runs        *)
(* without the interpreter lock.                                           *)
(***************************************************************************)
EXTENDS Integers, Sequences, FiniteSets

CONSTANTS
    Threads,       \* threads of the interpreter
    MaxAgents,     \* bound: agents allocated by create
    MaxRows        \* bound: rows of a result

VARIABLES
    agent,         \* AGENT: the agent in use, 0 for NULL; agents allocated
                   \* and freed; has the object been destructed?
    page,          \* page_size and page_number of each agent
    ispell,        \* of the dictionary: where it is, loaded, sorted
    limits,        \* is there a search limit in the configuration?
    search,        \* the search each thread has in the library
    found,         \* the result object: rows, current_row, and what fetch_row
                   \* returned since the script last chose a row itself
    mnofaults

mnogovars == <<agent, page, ispell, limits, search, found, mnofaults>>

NoResult == [rows |-> -1, current |-> 0, fetched |-> <<>>]
Init ==
    /\ agent = [cur |-> 0, made |-> 0, freed |-> {}, gone |-> FALSE]
    /\ page = [size |-> 20, number |-> 0]
    /\ ispell = [mode |-> "files", loaded |-> FALSE]
    /\ limits = FALSE
    /\ search = [t \in Threads |-> [fn |-> "none", agent |-> 0]]
    /\ found = NoResult
    /\ mnofaults = {}

TypeOK ==
    /\ agent \in [cur : 0..MaxAgents, made : 0..MaxAgents,
                  freed : SUBSET (1..MaxAgents), gone : BOOLEAN]
    /\ page \in [size : {1, 20}, number : {0, 1}]
    /\ ispell \in [mode : {"files", "db", "server"}, loaded : BOOLEAN]
    /\ limits \in BOOLEAN
    /\ search \in [Threads -> [fn : {"none", "query", "big_query"}, agent : 0..MaxAgents]]
    /\ found \in [rows : -1..MaxRows, current : 0..MaxRows,
                  fetched : Seq(0..MaxRows)]

Runs(t) == search[t].fn = "none" /\ mnofaults = {} /\ ~agent.gone

(* A second create allocates an environment and an agent of its own and     *)
(* forgets the ones before.  An argument that is no string leaves an        *)
(* environment behind.                                                      *)
FreesBefore == agent.freed \cup ({agent.cur} \ {0})
FreesNone == agent.freed
create(t) ==
    /\ Runs(t) /\ agent.made < MaxAgents
    /\ agent' = [agent EXCEPT !.cur = agent.made + 1, !.made = @ + 1,
                              !.freed = FreesNone]
    /\ page' = [size |-> 20, number |-> 0]
    /\ ispell' = [mode |-> "files", loaded |-> FALSE]
    /\ limits' = FALSE
    /\ UNCHANGED <<search, found, mnofaults>>

(* Nothing asks whether create was called.                                  *)
Agent(t) == Runs(t) /\ agent.cur # 0
NoAgent(t) ==
    /\ Runs(t) /\ agent.cur = 0 /\ mnofaults' = {"null"}
    /\ UNCHANGED <<agent, page, ispell, limits, search, found>>

(* Values out of range become the default; other parameters are switches.   *)
PageSizeZero(given) == IF given < 0 THEN 20 ELSE given
PageSize(given) == IF given < 1 THEN 20 ELSE given
PageNumber(given) == IF given < 0 THEN 0 ELSE given
set_param(t) ==
    /\ Agent(t)
    /\ \E given \in {-1, 0, 1} :
          \/ page' = [page EXCEPT !.size = PageSize(given)]
          \/ page' = [page EXCEPT !.number = PageNumber(given)]
          \/ UNCHANGED page
    /\ UNCHANGED <<agent, ispell, limits, search, found, mnofaults>>

(* The mode is set before the load, and stays when the load fails.          *)
load_ispell_data(t) ==
    /\ Agent(t)
    /\ \E mode \in {"files", "db", "server"}, loaded \in BOOLEAN :
          ispell' = [mode |-> mode, loaded |-> ispell.loaded \/ loaded]
    /\ UNCHANGED <<agent, page, limits, search, found, mnofaults>>
free_ispell_data(t) ==
    /\ Agent(t) /\ ispell' = [ispell EXCEPT !.loaded = FALSE]
    /\ UNCHANGED <<agent, page, limits, search, found, mnofaults>>
add_search_limit(t) ==
    /\ Agent(t) /\ limits' = TRUE
    /\ UNCHANGED <<agent, page, ispell, search, found, mnofaults>>
clear_search_limits(t) ==
    /\ Agent(t) /\ limits' = FALSE
    /\ UNCHANGED <<agent, page, ispell, search, found, mnofaults>>

(* Questions to the agent; the lists of categories end with a record of id 0.*)
Asks(t) == Agent(t) /\ UNCHANGED mnogovars
errno(t) == Asks(t)
error(t) == Asks(t)
cat_list(t) == Asks(t)
cat_path(t) == Asks(t)
doc_count(t) == Asks(t)
api_version(t) == Runs(t) /\ UNCHANGED mnogovars

-----------------------------------------------------------------------------
(* The agent is read, then the interpreter released for the search.         *)
Searches(t, fn) ==
    /\ Agent(t)
    /\ search' = [search EXCEPT ![t] = [fn |-> fn, agent |-> agent.cur]]
    /\ UNCHANGED <<agent, page, ispell, limits, found, mnofaults>>
query(t) == Searches(t, "query")
big_query(t) == Searches(t, "big_query")

(* A search that is over: nothing, an array, or an object with the result.  *)
UdmFind(t) ==
    /\ search[t].fn # "none" /\ mnofaults = {}
    /\ IF search[t].agent \in agent.freed
       THEN mnofaults' = {"freed"} /\ UNCHANGED <<search, found>>
       ELSE /\ \/ \E rows \in 0..MaxRows :
                     /\ search[t].fn = "big_query"
                     /\ found' = [NoResult EXCEPT !.rows = rows]
               \/ UNCHANGED found
            /\ search' = [search EXCEPT ![t].fn = "none", ![t].agent = 0]
            /\ UNCHANGED mnofaults
    /\ UNCHANGED <<agent, page, ispell, limits>>

free_mnogo_storage(t) ==
    /\ Runs(t)
    /\ agent' = [agent EXCEPT !.gone = TRUE, !.cur = 0, !.freed = FreesBefore]
    /\ UNCHANGED <<page, ispell, limits, search, found, mnofaults>>

-----------------------------------------------------------------------------
(* fetch_row: the row asked for or the current one, if there is one.        *)
CursorStays(row) == row
CursorAfter(row) == row + 1
fetch_row(t) ==
    /\ Runs(t) /\ found.rows # -1
    /\ found.current < found.rows
    /\ found' = [found EXCEPT !.current = CursorAfter(found.current),
                              !.fetched = IF Len(@) <= MaxRows
                                          THEN Append(@, found.current) ELSE @]
    /\ UNCHANGED <<agent, page, ispell, limits, search, mnofaults>>
fetch_row_given(t) ==
    /\ Runs(t) /\ found.rows # -1
    /\ \E row \in 0..MaxRows :
          found' = IF row < found.rows
                   THEN [found EXCEPT !.current = CursorAfter(row),
                                      !.fetched = <<row>>]
                   ELSE found
    /\ UNCHANGED <<agent, page, ispell, limits, search, mnofaults>>
fetch_rows(t) == Runs(t) /\ found.rows # -1 /\ UNCHANGED mnogovars
AsksResult(t) == Runs(t) /\ found.rows # -1 /\ UNCHANGED mnogovars
num_rows(t) == AsksResult(t)
total_found(t) == AsksResult(t)
wordinfo(t) == AsksResult(t)
search_time(t) == AsksResult(t)
first_doc(t) == AsksResult(t)
last_doc(t) == AsksResult(t)
(* An object a script makes itself has no result.                           *)
ResultMadeByHand(t) ==
    /\ Runs(t) /\ mnofaults' = {"null"}
    /\ UNCHANGED <<agent, page, ispell, limits, search, found>>
free_mnogo_result_storage(t) ==
    /\ Runs(t) /\ found.rows # -1 /\ found' = NoResult
    /\ UNCHANGED <<agent, page, ispell, limits, search, mnofaults>>

Next ==
    \E t \in Threads :
       \/ create(t) \/ NoAgent(t) \/ set_param(t) \/ load_ispell_data(t)
       \/ free_ispell_data(t) \/ add_search_limit(t) \/ clear_search_limits(t)
       \/ errno(t) \/ error(t) \/ cat_list(t) \/ cat_path(t) \/ doc_count(t)
       \/ api_version(t) \/ query(t) \/ big_query(t) \/ UdmFind(t)
       \/ free_mnogo_storage(t) \/ fetch_row(t) \/ fetch_row_given(t) \/ fetch_rows(t)
       \/ num_rows(t) \/ total_found(t) \/ wordinfo(t) \/ search_time(t)
       \/ first_doc(t) \/ last_doc(t) \/ ResultMadeByHand(t)
       \/ free_mnogo_result_storage(t)

Spec == Init /\ [][Next]_mnogovars

-----------------------------------------------------------------------------
(* The agent of a running search is freed only by destructing the object:   *)
(* a create beside the search leaves the agent of the search alone.         *)
AgentOutlivesSearch == "freed" \in mnofaults => agent.gone

(* Rows fetched one after another are consecutive rows of the result, none  *)
(* twice and none left out, from the first one or from the row asked for.   *)
RowsComeInOrder ==
    \A i \in DOMAIN found.fetched :
       /\ found.fetched[i] < found.rows
       /\ i > 1 => found.fetched[i] = found.fetched[i - 1] + 1
=============================================================================
