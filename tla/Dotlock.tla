------------------------------- MODULE Dotlock -------------------------------
(***************************************************************************)
(* The lock file beside an mbox folder, where the mail directory can be    *)
(* written by all (src/dotlock.c; dotlock_file in src/mx.c).  A process    *)
(* links a file of its own to the name every process uses, and has the     *)
(* lock when the link counts.  Nobody sleeps between attempts, and the     *)
(* question whether to remove a lock is always answered yes.               *)
(***************************************************************************)
EXTENDS Integers

CONSTANTS Clients, Null

VARIABLES
    lockfile,    \* the process the lock file belongs to; "stale" after a crash
    locker,      \* what each process is doing
    tmplocks,    \* processes whose own file exists
    broken_locks \* whether a lock was removed by force

dotlockvars == <<lockfile, locker, tmplocks, broken_locks>>

MAXLOCKATTEMPT == 5
HardFew == MAXLOCKATTEMPT
HARDMAXATTEMPTS == 10

Idling == [pc |-> "idle", retry |-> FALSE, force |-> FALSE, count |-> 0, hard |-> 0]
Init ==
    /\ lockfile = Null /\ tmplocks = {} /\ broken_locks = FALSE
    /\ locker = [c \in Clients |-> Idling]

TypeOK ==
    /\ lockfile \in Clients \cup {Null, "stale"} /\ tmplocks \subseteq Clients
    /\ locker \in [Clients -> [pc : {"idle", "tries", "forces", "holds", "dead"},
                               retry : BOOLEAN, force : BOOLEAN,
                               count : 0 .. MAXLOCKATTEMPT + 1, hard : 0 .. HARDMAXATTEMPTS]]

(* dotlock_invoke: first without DL_FL_FORCE, then with it and no retries.  *)
dotlock_invoke(c, retry, force) ==
    /\ locker' = [locker EXCEPT ![c] = [Idling EXCEPT !.pc = "tries", !.retry = retry,
                                                      !.force = force]]
    /\ tmplocks' = tmplocks \cup {c}
dotlock_file(c) ==
    /\ locker[c].pc = "idle"
    /\ \E retry \in BOOLEAN : dotlock_invoke(c, retry, FALSE)
    /\ UNCHANGED <<lockfile, broken_locks>>

(* dotlock_lock: one turn of its loop.                                      *)
Retry(c) == IF locker[c].retry THEN MAXLOCKATTEMPT ELSE 0
Linked(c) ==
    /\ locker[c].pc = "tries" /\ locker[c].hard < HARDMAXATTEMPTS
    /\ lockfile = Null /\ lockfile' = c
    /\ locker' = [locker EXCEPT ![c] = [Idling EXCEPT !.pc = "holds"]]
    /\ tmplocks' = tmplocks \ {c}
    /\ UNCHANGED broken_locks
Refused(c) ==
    /\ locker[c].pc = "tries" /\ locker[c].hard < HARDMAXATTEMPTS
    /\ lockfile # Null
    /\ IF locker[c].count < Retry(c)
       THEN /\ locker' = [locker EXCEPT ![c].count = @ + 1, ![c].hard = @ + 1]
            /\ UNCHANGED tmplocks
       ELSE IF locker[c].force
       THEN /\ locker' = [locker EXCEPT ![c].pc = "forces", ![c].hard = @ + 1]
            /\ UNCHANGED tmplocks
       ELSE IF locker[c].retry
       THEN dotlock_invoke(c, FALSE, TRUE)
       ELSE /\ locker' = [locker EXCEPT ![c] = Idling]
            /\ tmplocks' = tmplocks \ {c}
    /\ UNCHANGED <<lockfile, broken_locks>>
(* The lock that is removed need not be the one that was seen.              *)
Forces(c) ==
    /\ locker[c].pc = "forces"
    /\ lockfile' = Null /\ broken_locks' = TRUE
    /\ locker' = [locker EXCEPT ![c].pc = "tries", ![c].count = 0]
    /\ UNCHANGED tmplocks
(* After the last turn the lock is taken for granted.                       *)
Exhausted(c) ==
    /\ locker[c].pc = "tries" /\ locker[c].hard >= HARDMAXATTEMPTS
    /\ locker' = [locker EXCEPT ![c] = [Idling EXCEPT !.pc = "holds"]]
    /\ tmplocks' = tmplocks \ {c}
    /\ UNCHANGED <<lockfile, broken_locks>>

(* dotlock_unlock removes the lock file, whose ever it is.                  *)
dotlock_unlock(c) ==
    /\ locker[c].pc = "holds"
    /\ lockfile' = Null
    /\ locker' = [locker EXCEPT ![c] = Idling]
    /\ UNCHANGED <<tmplocks, broken_locks>>

(* A crash leaves the lock file, and the process's own one.                 *)
Dies(c) ==
    /\ locker[c].pc \in {"tries", "forces", "holds"}
    /\ \A d \in Clients : locker[d].pc # "dead"
    /\ lockfile' = IF lockfile = c THEN "stale" ELSE lockfile
    /\ locker' = [locker EXCEPT ![c] = [Idling EXCEPT !.pc = "dead"]]
    /\ UNCHANGED <<tmplocks, broken_locks>>

Next ==
    \E c \in Clients :
       \/ dotlock_file(c) \/ Linked(c) \/ Refused(c) \/ Forces(c) \/ Exhausted(c)
       \/ dotlock_unlock(c) \/ Dies(c)

Spec == Init /\ [][Next]_dotlockvars

-----------------------------------------------------------------------------
(* Two processes take the mailbox for theirs only after a lock was removed  *)
(* by force: running out of attempts alone does not do it.                  *)
HoldersExcluded ==
    (\E c, d \in Clients : c # d /\ locker[c].pc = "holds" /\ locker[d].pc = "holds")
       => broken_locks
=============================================================================
