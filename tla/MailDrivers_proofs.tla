-------------------------- MODULE MailDrivers_proofs --------------------------
(***************************************************************************)
(* Proofs about the parts of libmutt and of the Pike library that have     *)
(* mailboxes in files: the dot lock, the making of folders, the MH driver, *)
(* the class Maildir and the maildir driver.  Each is an instance of its   *)
(* module, for any values of the constants; MCMailboxes, which puts the    *)
(* parts side by side, extends this module.                                *)
(***************************************************************************)
EXTENDS Integers, Sequences, TLAPS

CONSTANTS
    Null, Clients, DefaultMagics, MhClients, MaxNumber, MaxMhEdits,
    PikeClients, PikeMails, MaxPikeCalls,
    Magic, Messages, Stocked, HeaderDeleted, UsedFlags, MaxEdits, MaxOpened

VARIABLES
    lockfile, locker, tmplocks, broken_locks,
    folderpath, DefaultMagic, appender,
    initialised, mhfiles, commas, sequences, mhclient, delivery, mhedits,
    mhhistory,
    piketmp, pikemails, pikeclients, pikeknown, pikehistory,
    files, delivered, pc, ctx, path, listing, at, seek, edits, openings,
    present, moved, missed

Locks == INSTANCE Dotlock
Folders == INSTANCE MxFolder
Mh == INSTANCE MhFolder
Script == INSTANCE PikeMaildir
Shared == INSTANCE Maildir

ASSUME FolderAssumption == Shared!ConstantsOK

-----------------------------------------------------------------------------
(* The dot lock.                                                            *)


(* As long as no lock was removed by force the lock file belongs to the    *)
(* one that holds the lock, and the attempts of a process stay as many as  *)
(* its retries: too few for it to take the lock for granted.               *)
LockOwned ==
    \A c \in Clients :
       /\ locker[c].pc = "holds" => lockfile = c
       /\ locker[c].pc = "tries" =>
             locker[c].hard = locker[c].count /\ locker[c].hard <= Locks!MAXLOCKATTEMPT

LockInv == Locks!TypeOK /\ broken_locks \in BOOLEAN /\ (broken_locks \/ LockOwned)

(* What a process may be doing. *)
LockPcs == {"idle", "tries", "forces", "holds", "dead"}
LockCounts == 0 .. Locks!MAXLOCKATTEMPT + 1
LockHards == 0 .. Locks!HARDMAXATTEMPTS
Locker == [pc : LockPcs, retry : BOOLEAN, force : BOOLEAN, count : LockCounts, hard : LockHards]

(* The three ways an attempt goes on: it is repeated, it is about to remove *)
(* the lock, or it starts again after removing it.                         *)
LEMMA LockAttempts ==
    ASSUME NEW s \in Locker
    PROVE  /\ s.count < 5 /\ s.hard < 10 =>
                /\ [s EXCEPT !.count = @ + 1, !.hard = @ + 1] \in Locker
                /\ [s EXCEPT !.count = @ + 1, !.hard = @ + 1].pc = s.pc
                /\ [s EXCEPT !.count = @ + 1, !.hard = @ + 1].count = s.count + 1
                /\ [s EXCEPT !.count = @ + 1, !.hard = @ + 1].hard = s.hard + 1
           /\ s.hard < 10 =>
                /\ [s EXCEPT !.pc = "forces", !.hard = @ + 1] \in Locker
                /\ [s EXCEPT !.pc = "forces", !.hard = @ + 1].pc = "forces"
           /\ [s EXCEPT !.pc = "tries", !.count = 0] \in Locker
<1>1. s.count \in LockCounts /\ s.hard \in LockHards
  BY DEF Locker
<1>2. /\ s.count < 5 => s.count + 1 \in LockCounts
      /\ s.hard < 10 => s.hard + 1 \in LockHards
      /\ 0 \in LockCounts /\ "forces" \in LockPcs /\ "tries" \in LockPcs
  BY <1>1 DEF LockCounts, LockHards, LockPcs, Locks!MAXLOCKATTEMPT, Locks!HARDMAXATTEMPTS
<1>3. ASSUME NEW n \in LockCounts, NEW m \in LockHards
      PROVE  LET r == [s EXCEPT !.count = n, !.hard = m]
             IN  r \in Locker /\ r.pc = s.pc /\ r.count = n /\ r.hard = m
  BY DEF Locker
<1>4. ASSUME NEW p \in LockPcs, NEW m \in LockHards
      PROVE  LET r == [s EXCEPT !.pc = p, !.hard = m]
             IN  r \in Locker /\ r.pc = p
  BY DEF Locker
<1>5. ASSUME NEW p \in LockPcs, NEW n \in LockCounts
      PROVE  [s EXCEPT !.pc = p, !.count = n] \in Locker
  BY DEF Locker
<1> DEFINE again == [s EXCEPT !.count = @ + 1, !.hard = @ + 1]
           forcing == [s EXCEPT !.pc = "forces", !.hard = @ + 1]
<1>6. ASSUME s.count < 5, s.hard < 10
      PROVE  /\ again \in Locker /\ again.pc = s.pc
             /\ again.count = s.count + 1 /\ again.hard = s.hard + 1
  BY <1>2, <1>3, <1>6
<1>7. ASSUME s.hard < 10
      PROVE  forcing \in Locker /\ forcing.pc = "forces"
  BY <1>2, <1>4, <1>7
<1> QED BY <1>2, <1>5, <1>6, <1>7

(* A step that gives process c a new state and leaves the others theirs    *)
(* keeps the invariant, if c owns the lock it takes and takes it from      *)
(* nobody.                                                                 *)
LEMMA LockMoves ==
    ASSUME LockInv, NEW c \in Clients, NEW r \in Locker,
           locker' = [locker EXCEPT ![c] = r],
           lockfile' \in Clients \cup {Null, "stale"}, tmplocks' \subseteq Clients,
           broken_locks' \in BOOLEAN, broken_locks => broken_locks',
           r.pc = "holds" /\ ~broken_locks' => lockfile' = c,
           r.pc = "tries" /\ ~broken_locks' => r.hard = r.count /\ r.hard <= 5,
           \A d \in Clients : d # c /\ lockfile = d /\ ~broken_locks'
                                 => lockfile' = d
    PROVE  LockInv'
<1>1. locker \in [Clients -> Locker]
  BY DEF LockInv, Locks!TypeOK, Locker, LockPcs, LockCounts, LockHards
<1>2. /\ locker' \in [Clients -> Locker] /\ locker'[c] = r
      /\ \A d \in Clients : d # c => locker'[d] = locker[d]
  BY <1>1
<1>3. Locks!TypeOK'
  BY <1>2 DEF Locks!TypeOK, Locker, LockPcs, LockCounts, LockHards
<1>4. ASSUME ~broken_locks' PROVE LockOwned'
  <2>1. LockOwned
    BY <1>4 DEF LockInv
  <2>2. ASSUME NEW d \in Clients
        PROVE  /\ locker'[d].pc = "holds" => lockfile' = d
               /\ locker'[d].pc = "tries" =>
                     /\ locker'[d].hard = locker'[d].count
                     /\ locker'[d].hard <= 5
    <3>1. CASE d = c
      BY <1>2, <1>4, <3>1
    <3>2. CASE d # c
      BY <1>2, <1>4, <2>1, <3>2 DEF LockOwned, Locks!MAXLOCKATTEMPT
    <3> QED BY <3>1, <3>2
  <2> QED BY <2>2 DEF LockOwned, Locks!MAXLOCKATTEMPT
<1> QED BY <1>3, <1>4 DEF LockInv

(* Nobody holds the lock at first. *)
LEMMA LockInit == Locks!Init => LockInv
<1> SUFFICES ASSUME Locks!Init PROVE LockInv
  OBVIOUS
<1>1. Locks!Idling \in Locker /\ Locks!Idling.pc = "idle"
  BY DEF Locks!Idling, Locker, LockPcs, LockCounts, LockHards, Locks!MAXLOCKATTEMPT,
       Locks!HARDMAXATTEMPTS
<1>2. locker \in [Clients -> Locker] /\ \A c \in Clients : locker[c].pc = "idle"
  BY <1>1 DEF Locks!Init
<1> QED BY <1>2
  DEF Locks!Init, LockInv, Locks!TypeOK, Locker, LockPcs, LockCounts, LockHards, LockOwned

(* Every step keeps the invariant: taking the lock for granted needs more  *)
(* attempts than anybody makes unless a lock is removed first.             *)
LEMMA LockStep ==
    ASSUME Null \notin Clients
    PROVE  LockInv /\ [Locks!Next]_(Locks!dotlockvars) => LockInv'
<1> SUFFICES ASSUME LockInv, [Locks!Next]_(Locks!dotlockvars) PROVE LockInv'
  OBVIOUS
<1>1. /\ locker \in [Clients -> Locker] /\ broken_locks \in BOOLEAN
      /\ lockfile \in Clients \cup {Null, "stale"} /\ tmplocks \subseteq Clients
  BY DEF LockInv, Locks!TypeOK, Locker, LockPcs, LockCounts, LockHards
<1>2. ASSUME NEW p \in {"idle", "holds", "dead"}, NEW r,
             r = Locks!Idling \/ r = [Locks!Idling EXCEPT !.pc = p]
      PROVE  r \in Locker /\ r.pc \in {"idle", p}
  <2>1. \E q \in {"idle", p} :
           r = [pc |-> q, retry |-> FALSE, force |-> FALSE, count |-> 0, hard |-> 0]
    BY <1>2 DEF Locks!Idling
  <2> QED BY <2>1
    DEF Locker, LockPcs, LockCounts, LockHards, Locks!MAXLOCKATTEMPT, Locks!HARDMAXATTEMPTS
<1>3. ASSUME NEW retry \in BOOLEAN, NEW force \in BOOLEAN, NEW r,
             r = [Locks!Idling EXCEPT !.pc = "tries", !.retry = retry, !.force = force]
      PROVE  r \in Locker /\ r.pc = "tries" /\ r.hard = 0 /\ r.count = 0
  <2>1. r = [pc |-> "tries", retry |-> retry, force |-> force,
             count |-> 0, hard |-> 0]
    BY <1>3 DEF Locks!Idling
  <2> QED BY <2>1
    DEF Locker, LockPcs, LockCounts, LockHards, Locks!MAXLOCKATTEMPT, Locks!HARDMAXATTEMPTS
<1>4. ASSUME NEW c \in Clients, NEW retry \in BOOLEAN, NEW force \in BOOLEAN,
             Locks!dotlock_invoke(c, retry, force), UNCHANGED <<lockfile, broken_locks>>
      PROVE  LockInv'
  <2> DEFINE r == [Locks!Idling EXCEPT !.pc = "tries", !.retry = retry, !.force = force]
  <2>1. r \in Locker /\ r.pc = "tries" /\ r.hard = 0 /\ r.count = 0
    BY <1>3
  <2>2. locker' = [locker EXCEPT ![c] = r] /\ tmplocks' = tmplocks \cup {c}
    BY <1>4 DEF Locks!dotlock_invoke
  <2> HIDE DEF r
  <2>3. lockfile' = lockfile /\ broken_locks' = broken_locks /\ tmplocks' \subseteq Clients
    BY <1>1, <1>4, <2>2
  <2>4. r.hard <= 5
    BY <2>1
  <2> QED BY <1>1, <2>1, <2>2, <2>3, <2>4, LockMoves
<1>5. ASSUME NEW c \in Clients, Locks!dotlock_file(c)
      PROVE  LockInv'
  BY <1>4, <1>5 DEF Locks!dotlock_file
<1>6. ASSUME NEW c \in Clients, Locks!Linked(c)
      PROVE  LockInv'
  <2> DEFINE r == [Locks!Idling EXCEPT !.pc = "holds"]
  <2>1. /\ locker' = [locker EXCEPT ![c] = r] /\ lockfile = Null /\ lockfile' = c
        /\ tmplocks' = tmplocks \ {c} /\ broken_locks' = broken_locks
    BY <1>6 DEF Locks!Linked
  <2>2. r \in Locker /\ r.pc # "tries"
    BY <1>2
  <2> HIDE DEF r
  <2> QED BY <1>1, <2>1, <2>2, LockMoves
<1>7. ASSUME NEW c \in Clients, Locks!Refused(c)
      PROVE  LockInv'
  <2> DEFINE s == locker[c]
  <2>1. /\ s \in Locker /\ s.pc = "tries" /\ s.hard < 10
        /\ s.count \in 0 .. 6 /\ s.hard \in 0 .. 10
        /\ lockfile' = lockfile /\ broken_locks' = broken_locks
    BY <1>1, <1>7
    DEF Locks!Refused, Locker, LockPcs, LockCounts, LockHards, Locks!MAXLOCKATTEMPT,
         Locks!HARDMAXATTEMPTS
  <2>2. ~broken_locks => s.hard = s.count /\ s.hard <= 5
    BY <2>1 DEF LockInv, LockOwned, Locks!MAXLOCKATTEMPT
  <2>3. CASE s.count < Locks!Retry(c)
    <3> DEFINE r == [s EXCEPT !.count = @ + 1, !.hard = @ + 1]
    <3>1. s.count < 5
      BY <2>1, <2>3 DEF Locks!Retry, Locks!MAXLOCKATTEMPT
    <3>2. locker' = [locker EXCEPT ![c] = r] /\ tmplocks' = tmplocks
      <4>1. /\ locker' = [locker EXCEPT ![c].count = @ + 1, ![c].hard = @ + 1]
            /\ tmplocks' = tmplocks
        BY <1>7, <2>3 DEF Locks!Refused
      <4> QED BY <1>1, <4>1 DEF Locker
    <3>3. r \in Locker /\ r.pc = "tries" /\ r.count = s.count + 1 /\ r.hard = s.hard + 1
      BY <2>1, <3>1, LockAttempts
    <3> HIDE DEF r, s
    <3>4. ~broken_locks => r.hard = r.count /\ r.hard <= 5
      BY <2>1, <2>2, <3>1, <3>3
    <3> QED BY <1>1, <2>1, <3>2, <3>3, <3>4, LockMoves
  <2>4. CASE ~(s.count < Locks!Retry(c)) /\ s.force
    <3> DEFINE r == [s EXCEPT !.pc = "forces", !.hard = @ + 1]
    <3>1. locker' = [locker EXCEPT ![c] = r] /\ tmplocks' = tmplocks
      <4>1. /\ locker' = [locker EXCEPT ![c].pc = "forces", ![c].hard = @ + 1]
            /\ tmplocks' = tmplocks
        BY <1>7, <2>4 DEF Locks!Refused
      <4> QED BY <1>1, <4>1 DEF Locker
    <3>2. r \in Locker /\ r.pc = "forces"
      BY <2>1, LockAttempts
    <3> HIDE DEF r, s
    <3> QED BY <1>1, <2>1, <3>1, <3>2, LockMoves
  <2>5. CASE ~(s.count < Locks!Retry(c)) /\ ~s.force /\ s.retry
    <3>1. Locks!dotlock_invoke(c, FALSE, TRUE)
      BY <1>7, <2>5 DEF Locks!Refused
    <3> QED BY <1>4, <2>1, <3>1
  <2>6. CASE ~(s.count < Locks!Retry(c)) /\ ~s.force /\ ~s.retry
    <3>1. locker' = [locker EXCEPT ![c] = Locks!Idling] /\ tmplocks' = tmplocks \ {c}
      BY <1>7, <2>6 DEF Locks!Refused
    <3>2. Locks!Idling \in Locker /\ Locks!Idling.pc = "idle"
      BY <1>2
    <3> QED BY <1>1, <2>1, <3>1, <3>2, LockMoves
  <2> QED BY <2>3, <2>4, <2>5, <2>6
<1>8. ASSUME NEW c \in Clients, Locks!Forces(c)
      PROVE  LockInv'
  <2> DEFINE s == locker[c]
             r == [s EXCEPT !.pc = "tries", !.count = 0]
  <2>1. s \in Locker
    BY <1>1
  <2>2. locker' = [locker EXCEPT ![c] = r] /\ tmplocks' = tmplocks
        /\ lockfile' = Null /\ broken_locks'
    <3>1. /\ locker' = [locker EXCEPT ![c].pc = "tries", ![c].count = 0]
          /\ tmplocks' = tmplocks /\ lockfile' = Null /\ broken_locks'
      BY <1>8 DEF Locks!Forces
    <3> QED BY <1>1, <3>1 DEF Locker
  <2>3. r \in Locker
    BY <2>1, LockAttempts
  <2> HIDE DEF r, s
  <2>4. broken_locks' \in BOOLEAN
    BY <1>8 DEF Locks!Forces
  <2> QED BY <1>1, <2>2, <2>3, <2>4, LockMoves
<1>9. ASSUME NEW c \in Clients, Locks!Exhausted(c)
      PROVE  LockInv'
  <2> DEFINE r == [Locks!Idling EXCEPT !.pc = "holds"]
  <2>1. /\ locker' = [locker EXCEPT ![c] = r] /\ lockfile' = lockfile
        /\ tmplocks' = tmplocks \ {c} /\ broken_locks' = broken_locks
    BY <1>9 DEF Locks!Exhausted
  <2>2. r \in Locker /\ r.pc # "tries"
    BY <1>2
  <2>3. broken_locks
    <3>1. locker[c].pc = "tries" /\ locker[c].hard >= 10
      BY <1>9 DEF Locks!Exhausted, Locks!HARDMAXATTEMPTS
    <3>2. locker[c].hard \in Int
      BY <1>1 DEF Locker, LockHards, Locks!HARDMAXATTEMPTS
    <3> QED BY <3>1, <3>2 DEF LockInv, LockOwned, Locks!MAXLOCKATTEMPT
  <2> HIDE DEF r
  <2> QED BY <1>1, <2>1, <2>2, <2>3, LockMoves
<1>10. ASSUME NEW c \in Clients, Locks!dotlock_unlock(c)
       PROVE  LockInv'
  <2>1. /\ locker' = [locker EXCEPT ![c] = Locks!Idling] /\ lockfile' = Null
        /\ tmplocks' = tmplocks /\ broken_locks' = broken_locks
        /\ locker[c].pc = "holds"
    BY <1>10 DEF Locks!dotlock_unlock
  <2>2. Locks!Idling \in Locker /\ Locks!Idling.pc = "idle"
    BY <1>2
  <2>3. ~broken_locks => lockfile = c
    BY <2>1 DEF LockInv, LockOwned
  <2> QED BY <1>1, <2>1, <2>2, <2>3, LockMoves
<1>11. ASSUME NEW c \in Clients, Locks!Dies(c)
       PROVE  LockInv'
  <2> DEFINE r == [Locks!Idling EXCEPT !.pc = "dead"]
  <2>1. /\ locker' = [locker EXCEPT ![c] = r]
        /\ lockfile' = IF lockfile = c THEN "stale" ELSE lockfile
        /\ tmplocks' = tmplocks /\ broken_locks' = broken_locks
    BY <1>11 DEF Locks!Dies
  <2>2. r \in Locker /\ r.pc \notin {"tries", "holds"}
    BY <1>2
  <2> HIDE DEF r
  <2> QED BY <1>1, <2>1, <2>2, LockMoves
<1>12. CASE UNCHANGED Locks!dotlockvars
  BY <1>12 DEF Locks!dotlockvars, LockInv, Locks!TypeOK, LockOwned
<1> QED BY <1>5, <1>6, <1>7, <1>8, <1>9, <1>10, <1>11, <1>12 DEF Locks!Next

(* The processes that think they hold the lock are one at most, until a    *)
(* lock has been removed by force: the attempts never run out before.      *)
THEOREM LocksExclude ==
    ASSUME Null \notin Clients
    PROVE  Locks!Spec => []Locks!HoldersExcluded
<1>1. Locks!Init => LockInv
  BY LockInit
<1>2. LockInv /\ [Locks!Next]_(Locks!dotlockvars) => LockInv'
  BY LockStep
<1>3. LockInv => Locks!HoldersExcluded
  BY DEF LockInv, LockOwned, Locks!HoldersExcluded
<1> QED BY <1>1, <1>2, <1>3, PTL DEF Locks!Spec

-----------------------------------------------------------------------------
(* Making a folder.                                                         *)

(* The inductive invariant: what has been made of a folder at each step of  *)
(* making it, and that the kind that was looked up is the one there is.     *)
MadeInOrder ==
    /\ Folders!At("mkdir") => appender.magic \in {"mh", "maildir"} /\ appender.made = {}
    /\ Folders!At("cur") => /\ appender.magic = "maildir" /\ folderpath = Folders!Directory({})
                            /\ appender.made = {"."}
    /\ Folders!At("new") => /\ appender.magic = "maildir" /\ folderpath = Folders!Directory({"cur"})
                            /\ appender.made = {".", "cur"}
    /\ Folders!At("tmp") => /\ appender.magic = "maildir"
                            /\ folderpath = Folders!Directory({"cur", "new"})
                            /\ appender.made = {".", "cur", "new"}
    /\ Folders!At("sequences") => /\ appender.magic = "mh" /\ folderpath = Folders!Directory({})
                                  /\ appender.made = {"."}
    /\ Folders!At("undo") => /\ folderpath = Folders!Directory(folderpath.names)
                             /\ folderpath.names \subseteq appender.made
    /\ appender.pc \in {"idle", "file"} => appender.made = {}
FileIsOfItsKind == Folders!At("file") =>
    /\ appender.magic \in {"mbox", "mmdf"}
    /\ \/ folderpath = Folders!Nothing /\ DefaultMagic = appender.magic
       \/ Folders!mx_get_magic(folderpath) = appender.magic
FolderRecords ==
    /\ folderpath = [kind |-> folderpath.kind, names |-> folderpath.names]
    /\ folderpath.kind # "directory" => folderpath.names = {}
    /\ appender = [pc |-> appender.pc, magic |-> appender.magic, made |-> appender.made]
FolderInv ==
    /\ Folders!TypeOK /\ FolderRecords
    /\ MadeInOrder /\ FileIsOfItsKind
    /\ Folders!OpenedIsRecognised /\ Folders!FailureLeavesNothing
(* mx_set_magic takes the names of the four kinds only.                     *)
KnownMagics == DefaultMagics \subseteq Folders!Magics

(* A folder is empty before its first part is made.                         *)
LEMMA FolderInvInit == ASSUME KnownMagics, Folders!Init PROVE FolderInv
<1>1. Folders!TypeOK
  BY DEF KnownMagics, Folders!Init, Folders!TypeOK, Folders!Nothing, Folders!Directory,
       Folders!File, Folders!FileKinds, Folders!Idle,
         Folders!MaildirNames, Folders!MhMarks
<1>2. FolderRecords
  BY DEF Folders!Init, FolderRecords, Folders!Nothing, Folders!Directory, Folders!File,
       Folders!FileKinds, Folders!Idle
<1>3. MadeInOrder /\ FileIsOfItsKind /\ Folders!OpenedIsRecognised /\ Folders!FailureLeavesNothing
  BY DEF Folders!Init, Folders!Idle, Folders!At, MadeInOrder, FileIsOfItsKind,
       Folders!OpenedIsRecognised,
         Folders!FailureLeavesNothing
<1> QED BY <1>1, <1>2, <1>3 DEF FolderInv

(* Each step of making a folder follows the one before it, and an undo      *)
(* removes whatever had been made by then.                                  *)
LEMMA FolderInvStep ==
    ASSUME KnownMagics, FolderInv, [Folders!Next]_(Folders!mxvars) PROVE FolderInv'
<1> USE DEF Folders!At
<1> DEFINE Parts == MadeInOrder /\ FileIsOfItsKind /\ Folders!OpenedIsRecognised
                    /\ Folders!FailureLeavesNothing
<1>0. Folders!TypeOK /\ FolderRecords /\ Parts
  BY DEF FolderInv
<1>1. CASE Folders!mx_open_mailbox_append
  <2>1. UNCHANGED <<folderpath, DefaultMagic>> /\ appender.pc = "idle" /\ appender.made = {}
    BY <1>0, <1>1 DEF Folders!mx_open_mailbox_append, MadeInOrder
  <2>2. CASE folderpath.kind = "nothing" /\ DefaultMagic \in {"mh", "maildir"}
    <3>1. appender' = [pc |-> "mkdir", magic |-> DefaultMagic, made |-> {}]
      BY <1>0, <1>1, <2>1, <2>2 DEF Folders!mx_open_mailbox_append, FolderRecords
    <3> QED
      BY <1>0, <2>1, <2>2, <3>1
      DEF FolderInv, Folders!TypeOK, FolderRecords, MadeInOrder, FileIsOfItsKind,
          Folders!OpenedIsRecognised, Folders!FailureLeavesNothing
  <2>3. CASE folderpath.kind = "nothing" /\ DefaultMagic \notin {"mh", "maildir"}
    <3>1. DefaultMagic \in {"mbox", "mmdf"}
      BY <1>0, <2>3 DEF Folders!TypeOK, Folders!Magics
    <3>2. appender' = [pc |-> "file", magic |-> DefaultMagic, made |-> {}]
      BY <1>0, <1>1, <2>1, <2>3, <3>1
      DEF Folders!mx_open_mailbox_append, Folders!Opens, FolderRecords
    <3>3. folderpath = Folders!Nothing
      BY <1>0, <2>3 DEF FolderRecords, Folders!Nothing
    <3> QED
      BY <1>0, <2>1, <3>1, <3>2, <3>3
      DEF FolderInv, Folders!TypeOK, FolderRecords, MadeInOrder, FileIsOfItsKind,
          Folders!OpenedIsRecognised, Folders!FailureLeavesNothing
  <2>4. CASE /\ folderpath.kind # "nothing"
             /\ Folders!mx_get_magic(folderpath) \in {Folders!Unknown, "error"}
    <3>1. appender' = [pc |-> "failed", magic |-> appender.magic, made |-> {}]
      BY <1>0, <1>1, <2>1, <2>4
      DEF Folders!mx_open_mailbox_append, Folders!Fails, FolderRecords
    <3> QED
      BY <1>0, <2>1, <3>1
      DEF FolderInv, Folders!TypeOK, FolderRecords, MadeInOrder, FileIsOfItsKind,
          Folders!OpenedIsRecognised, Folders!FailureLeavesNothing
  <2>5. CASE /\ folderpath.kind # "nothing"
             /\ Folders!mx_get_magic(folderpath) \notin {Folders!Unknown, "error"}
    <3> DEFINE magic == Folders!mx_get_magic(folderpath)
    <3>1. magic = Folders!mx_get_magic(folderpath)'
      BY <2>1 DEF Folders!mx_get_magic, Folders!EmptyIs
    <3> HIDE DEF magic
    <3>2. CASE magic \in {"mbox", "mmdf"}
      <4>1. appender' = [pc |-> "file", magic |-> magic, made |-> {}]
        BY <1>0, <1>1, <2>1, <2>5, <3>2
        DEF Folders!mx_open_mailbox_append, Folders!Opens, FolderRecords, magic
      <4> QED
        BY <1>0, <2>1, <3>1, <3>2, <4>1
        DEF FolderInv, Folders!TypeOK, FolderRecords, MadeInOrder, FileIsOfItsKind,
            Folders!OpenedIsRecognised, Folders!FailureLeavesNothing
    <3>3. CASE magic \notin {"mbox", "mmdf"}
      <4>1. appender' = [pc |-> "open", magic |-> magic, made |-> {}]
        BY <1>0, <1>1, <2>1, <2>5, <3>3
        DEF Folders!mx_open_mailbox_append, Folders!Opens, FolderRecords, magic
      <4> QED
        BY <1>0, <2>1, <3>1, <4>1
        DEF FolderInv, Folders!TypeOK, FolderRecords, MadeInOrder, FileIsOfItsKind,
            Folders!OpenedIsRecognised, Folders!FailureLeavesNothing
    <3> QED BY <3>2, <3>3
  <2> QED BY <2>2, <2>3, <2>4, <2>5
<1>2. CASE Folders!MakeFolder
  <2>1. CASE folderpath = Folders!Nothing /\ folderpath' = Folders!Directory({})
             /\ appender.magic = "maildir"
             /\ appender' = [pc |-> "cur", magic |-> "maildir", made |-> {"."}]
             /\ UNCHANGED DefaultMagic
    BY <1>0, <2>1
    DEF FolderInv, Folders!TypeOK, FolderRecords, MadeInOrder, FileIsOfItsKind,
         Folders!Directory,
        Folders!OpenedIsRecognised, Folders!FailureLeavesNothing
  <2>2. CASE folderpath = Folders!Nothing /\ folderpath' = Folders!Directory({})
             /\ appender' = [pc |-> "sequences", magic |-> "mh", made |-> {"."}]
             /\ UNCHANGED DefaultMagic
    BY <1>0, <2>2
    DEF FolderInv, Folders!TypeOK, FolderRecords, MadeInOrder, FileIsOfItsKind,
         Folders!Directory,
        Folders!OpenedIsRecognised, Folders!FailureLeavesNothing
  <2>3. CASE appender' = [pc |-> "failed", magic |-> appender.magic, made |-> {}]
             /\ UNCHANGED <<folderpath, DefaultMagic>>
    BY <1>0, <2>3
    DEF FolderInv, Folders!TypeOK, FolderRecords, MadeInOrder, FileIsOfItsKind,
        Folders!OpenedIsRecognised, Folders!FailureLeavesNothing
  <2>4. appender.made = {} /\ appender.magic \in {"mh", "maildir"}
    BY <1>0, <1>2 DEF Folders!MakeFolder, MadeInOrder
  <2> QED BY <1>0, <1>2, <2>1, <2>2, <2>3, <2>4
    DEF Folders!MakeFolder, FolderRecords, Folders!Fails
<1>3. CASE Folders!MakeCur
  <2>1. folderpath = Folders!Directory({}) /\ appender.magic = "maildir" /\ appender.made = {"."}
    BY <1>0, <1>3 DEF Folders!MakeCur, MadeInOrder
  <2>2. CASE Folders!Makes("cur", "new")
    <3>1. folderpath' = Folders!Directory({"cur"}) /\ DefaultMagic' = DefaultMagic
      BY <2>1, <2>2 DEF Folders!Makes, Folders!Directory
    <3>2. appender' = [pc |-> "new", magic |-> "maildir", made |-> {".", "cur"}]
      BY <1>0, <2>1, <2>2 DEF Folders!Makes, FolderRecords
    <3> QED
      BY <1>0, <3>1, <3>2
      DEF FolderInv, Folders!TypeOK, FolderRecords, MadeInOrder, FileIsOfItsKind,
           Folders!Directory,
          Folders!OpenedIsRecognised, Folders!FailureLeavesNothing, Folders!MaildirNames
  <2>3. CASE Folders!Undoes
    <3>1. appender' = [pc |-> "undo", magic |-> "maildir", made |-> {"."}]
      BY <1>0, <2>1, <2>3 DEF Folders!Undoes, Folders!Goes, FolderRecords
    <3> QED
      BY <1>0, <2>1, <2>3, <3>1
      DEF FolderInv, Folders!TypeOK, FolderRecords, MadeInOrder, FileIsOfItsKind,
           Folders!Directory,
          Folders!OpenedIsRecognised, Folders!FailureLeavesNothing, Folders!Undoes
  <2> QED BY <1>3, <2>2, <2>3 DEF Folders!MakeCur
<1>4. CASE Folders!MakeNew
  <2>1. /\ folderpath = Folders!Directory({"cur"}) /\ appender.magic = "maildir"
        /\ appender.made = {".", "cur"}
    BY <1>0, <1>4 DEF Folders!MakeNew, MadeInOrder
  <2>2. CASE Folders!Makes("new", "tmp")
    <3>1. folderpath' = Folders!Directory({"cur", "new"}) /\ DefaultMagic' = DefaultMagic
      BY <2>1, <2>2 DEF Folders!Makes, Folders!Directory
    <3>2. appender' = [pc |-> "tmp", magic |-> "maildir", made |-> {".", "cur", "new"}]
      BY <1>0, <2>1, <2>2 DEF Folders!Makes, FolderRecords
    <3> QED
      BY <1>0, <3>1, <3>2
      DEF FolderInv, Folders!TypeOK, FolderRecords, MadeInOrder, FileIsOfItsKind,
           Folders!Directory,
          Folders!OpenedIsRecognised, Folders!FailureLeavesNothing, Folders!MaildirNames
  <2>3. CASE Folders!Undoes
    <3>1. appender' = [pc |-> "undo", magic |-> "maildir", made |-> {".", "cur"}]
      BY <1>0, <2>1, <2>3 DEF Folders!Undoes, Folders!Goes, FolderRecords
    <3> QED
      BY <1>0, <2>1, <2>3, <3>1
      DEF FolderInv, Folders!TypeOK, FolderRecords, MadeInOrder, FileIsOfItsKind,
           Folders!Directory,
          Folders!OpenedIsRecognised, Folders!FailureLeavesNothing, Folders!Undoes
  <2> QED BY <1>4, <2>2, <2>3 DEF Folders!MakeNew
<1>5. CASE Folders!MakeTmp
  <2>1. /\ folderpath = Folders!Directory({"cur", "new"}) /\ appender.magic = "maildir"
        /\ appender.made = {".", "cur", "new"}
    BY <1>0, <1>5 DEF Folders!MakeTmp, MadeInOrder
  <2>2. CASE Folders!Makes("tmp", "open")
    <3>1. folderpath' = Folders!Directory({"cur", "new", "tmp"}) /\ DefaultMagic' = DefaultMagic
      BY <2>1, <2>2 DEF Folders!Makes, Folders!Directory
    <3>2. appender' = [pc |-> "open", magic |-> "maildir",
                       made |-> {".", "cur", "new", "tmp"}]
      BY <1>0, <2>1, <2>2 DEF Folders!Makes, FolderRecords
    <3>3. Folders!mx_get_magic(folderpath)' = "maildir"
      BY <3>1 DEF Folders!mx_get_magic, Folders!Directory
    <3> QED
      BY <1>0, <3>1, <3>2, <3>3
      DEF FolderInv, Folders!TypeOK, FolderRecords, MadeInOrder, FileIsOfItsKind,
           Folders!Directory,
          Folders!OpenedIsRecognised, Folders!FailureLeavesNothing, Folders!MaildirNames
  <2>3. CASE Folders!Undoes
    <3>1. appender' = [pc |-> "undo", magic |-> "maildir", made |-> {".", "cur", "new"}]
      BY <1>0, <2>1, <2>3 DEF Folders!Undoes, Folders!Goes, FolderRecords
    <3> QED
      BY <1>0, <2>1, <2>3, <3>1
      DEF FolderInv, Folders!TypeOK, FolderRecords, MadeInOrder, FileIsOfItsKind,
           Folders!Directory,
          Folders!OpenedIsRecognised, Folders!FailureLeavesNothing, Folders!Undoes
  <2> QED BY <1>5, <2>2, <2>3 DEF Folders!MakeTmp
<1>6. CASE Folders!MakeSequences
  <2>1. folderpath = Folders!Directory({}) /\ appender.magic = "mh" /\ appender.made = {"."}
    BY <1>0, <1>6 DEF Folders!MakeSequences, MadeInOrder
  <2>2. CASE Folders!Makes(".mh_sequences", "open")
    <3>1. folderpath' = Folders!Directory({".mh_sequences"}) /\ DefaultMagic' = DefaultMagic
      BY <2>1, <2>2 DEF Folders!Makes, Folders!Directory
    <3>2. appender' = [pc |-> "open", magic |-> "mh", made |-> {".", ".mh_sequences"}]
      BY <1>0, <2>1, <2>2 DEF Folders!Makes, FolderRecords
    <3>3. Folders!mx_get_magic(folderpath)' = "mh"
      BY <3>1 DEF Folders!mx_get_magic, Folders!Directory, Folders!MhMarks
    <3> QED
      BY <1>0, <3>1, <3>2, <3>3
      DEF FolderInv, Folders!TypeOK, FolderRecords, MadeInOrder, FileIsOfItsKind,
           Folders!Directory,
          Folders!OpenedIsRecognised, Folders!FailureLeavesNothing, Folders!MhMarks
  <2>3. CASE Folders!Undoes
    <3>1. appender' = [pc |-> "undo", magic |-> "mh", made |-> {"."}]
      BY <1>0, <2>1, <2>3 DEF Folders!Undoes, Folders!Goes, FolderRecords
    <3> QED
      BY <1>0, <2>1, <2>3, <3>1
      DEF FolderInv, Folders!TypeOK, FolderRecords, MadeInOrder, FileIsOfItsKind,
           Folders!Directory,
          Folders!OpenedIsRecognised, Folders!FailureLeavesNothing, Folders!Undoes
  <2> QED BY <1>6, <2>2, <2>3 DEF Folders!MakeSequences
<1>7. CASE Folders!Undo
  <2>1. folderpath.names \ Folders!Removes = {}
    BY <1>0, <1>7 DEF Folders!Undo, MadeInOrder, Folders!Removes
  <2>2. folderpath' = Folders!Nothing /\ DefaultMagic' = DefaultMagic
    BY <1>7, <2>1 DEF Folders!Undo
  <2>3. appender' = [pc |-> "failed", magic |-> appender.magic, made |-> appender.made]
    BY <1>0, <1>7 DEF Folders!Undo, Folders!Fails, FolderRecords
  <2> QED
    BY <1>0, <2>2, <2>3
    DEF FolderInv, Folders!TypeOK, FolderRecords, MadeInOrder, FileIsOfItsKind,
         Folders!Nothing,
        Folders!OpenedIsRecognised, Folders!FailureLeavesNothing
<1>8. CASE Folders!OpenFile
  <2>1. /\ appender.pc = "file" /\ appender.made = {} /\ DefaultMagic' = DefaultMagic
        /\ appender.magic \in {"mbox", "mmdf"}
        /\ \/ folderpath = Folders!Nothing /\ DefaultMagic = appender.magic
           \/ Folders!mx_get_magic(folderpath) = appender.magic
    BY <1>0, <1>8 DEF Folders!OpenFile, MadeInOrder, FileIsOfItsKind
  <2>2. \/ appender' = [pc |-> "open", magic |-> appender.magic, made |-> {}]
           /\ folderpath' = IF folderpath = Folders!Nothing THEN Folders!File("empty") ELSE folderpath
        \/ appender' = [pc |-> "failed", magic |-> appender.magic, made |-> {}]
    BY <1>0, <1>8, <2>1 DEF Folders!OpenFile, Folders!Goes, Folders!Fails, FolderRecords
  <2>3. Folders!TypeOK' /\ FolderRecords'
    <3>1. folderpath' = folderpath \/ folderpath' = Folders!File("empty")
      BY <1>8 DEF Folders!OpenFile
    <3> QED BY <1>0, <2>1, <2>2, <3>1
      DEF Folders!TypeOK, FolderRecords, Folders!File, Folders!FileKinds
  <2>4. CASE appender' = [pc |-> "failed", magic |-> appender.magic, made |-> {}]
    BY <2>3, <2>4
    DEF FolderInv, MadeInOrder, FileIsOfItsKind, Folders!OpenedIsRecognised,
         Folders!FailureLeavesNothing
  <2>5. CASE appender' = [pc |-> "open", magic |-> appender.magic, made |-> {}]
             /\ folderpath' = IF folderpath = Folders!Nothing THEN Folders!File("empty") ELSE folderpath
    <3>1. Folders!mx_get_magic(folderpath)' = appender.magic
      <4>1. CASE folderpath = Folders!Nothing
        <5>1. Folders!mx_get_magic(folderpath) = "error"
          BY <4>1 DEF Folders!mx_get_magic, Folders!Nothing
        <5>2. DefaultMagic = appender.magic
          BY <2>1, <5>1
        <5>3. folderpath' = Folders!File("empty")
          BY <2>5, <4>1
        <5> QED BY <2>1, <5>2, <5>3 DEF Folders!mx_get_magic, Folders!EmptyIs, Folders!File
      <4>2. CASE folderpath # Folders!Nothing
        <5>1. folderpath' = folderpath /\ Folders!mx_get_magic(folderpath) = appender.magic
          BY <2>1, <2>5, <4>2
        <5> QED BY <2>1, <5>1 DEF Folders!mx_get_magic, Folders!EmptyIs
      <4> QED BY <4>1, <4>2
    <3> QED
      BY <2>3, <2>5, <3>1
      DEF FolderInv, MadeInOrder, FileIsOfItsKind, Folders!OpenedIsRecognised,
           Folders!FailureLeavesNothing
  <2> QED BY <2>2, <2>4, <2>5
<1>9. CASE Folders!Elsewhere
  <2>1. appender.pc = "idle" /\ UNCHANGED <<DefaultMagic, appender>>
    BY <1>9 DEF Folders!Elsewhere
  <2>2. folderpath' \in {Folders!Nothing, Folders!Directory({}), Folders!File("empty"), Folders!File("From")}
    BY <1>9 DEF Folders!Elsewhere
  <2>3. Folders!TypeOK' /\ FolderRecords'
    BY <1>0, <2>1, <2>2
    DEF Folders!TypeOK, FolderRecords, Folders!Nothing, Folders!Directory, Folders!File,
         Folders!FileKinds
  <2> QED
    BY <1>0, <2>1, <2>3
    DEF FolderInv, MadeInOrder, FileIsOfItsKind, Folders!OpenedIsRecognised,
         Folders!FailureLeavesNothing
<1>10. CASE Folders!mx_fastclose_mailbox
  BY <1>0, <1>10
  DEF Folders!mx_fastclose_mailbox, Folders!Idle, FolderInv, Folders!TypeOK, FolderRecords,
       MadeInOrder,
      FileIsOfItsKind, Folders!OpenedIsRecognised, Folders!FailureLeavesNothing
<1>11. CASE \E magic \in DefaultMagics : Folders!mx_set_magic(magic)
  BY <1>0, <1>11
  DEF KnownMagics, Folders!mx_set_magic, FolderInv, Folders!TypeOK, FolderRecords,
       MadeInOrder,
      FileIsOfItsKind, Folders!OpenedIsRecognised, Folders!FailureLeavesNothing
<1>12. CASE UNCHANGED Folders!mxvars
  BY <1>0, <1>12
  DEF Folders!mxvars, FolderInv, Folders!TypeOK, FolderRecords, MadeInOrder,
       FileIsOfItsKind,
      Folders!OpenedIsRecognised, Folders!FailureLeavesNothing, Folders!mx_get_magic,
      Folders!EmptyIs
<1> QED
  BY <1>1, <1>2, <1>3, <1>4, <1>5, <1>6, <1>7, <1>8, <1>9, <1>10, <1>11, <1>12
  DEF Folders!Next

(* mx.c: whatever is at the path and wherever the making of a folder fails, *)
(* what was opened for appending is read as the kind it was opened as, and  *)
(* nothing is left of a folder that could not be made completely.           *)
THEOREM FoldersMadeAreWhole ==
    ASSUME KnownMagics
    PROVE Folders!Spec => [](Folders!TypeOK /\ Folders!OpenedIsRecognised /\ Folders!FailureLeavesNothing)
<1>1. FolderInv => Folders!TypeOK /\ Folders!OpenedIsRecognised /\ Folders!FailureLeavesNothing
  BY DEF FolderInv
<1> QED BY <1>1, FolderInvInit, FolderInvStep, PTL DEF Folders!Spec

-----------------------------------------------------------------------------
(* MH folders.                                                              *)


ASSUME NumberAssumption == MaxNumber \in Nat \ {0}

MhHeader == [id : Nat, read : BOOLEAN, deleted : BOOLEAN, changed : BOOLEAN]
MhHeaders == [Mh!Numbers -> MhHeader]
MhPlaces == {"shut", "open", "writes", "unlinked"}
MhClient == [pc : MhPlaces, hdrs : MhHeaders, due : BOOLEAN, new : SUBSET Mh!Numbers]
MhDelivery == [pc : {"idle", "numbered", "read", "unlinked"}, n : Nat, old : SUBSET Mh!Numbers]
MhEvents == {"crossed", "unknown", "crash", "comma lost", "wrong delete"}
MhHistory == [ids : Nat, readonce : SUBSET Nat, events : SUBSET MhEvents]
MhTypes ==
    /\ initialised \in BOOLEAN
    /\ mhfiles \in [Mh!Numbers -> Nat]
    /\ commas \subseteq Mh!Numbers
    /\ sequences \in [there : BOOLEAN, unseen : SUBSET Mh!Numbers]
    /\ mhclient \in [MhClients -> MhClient]
    /\ delivery \in MhDelivery /\ (delivery.pc # "idle" => delivery.n \in Mh!Numbers)
    /\ mhhistory \in MhHistory

(* A header has the id of a message there is or was; the file of one that   *)
(* is being deleted is not under its number any more.                       *)
IdsOf(c) ==
    \A n \in Mh!Numbers : LET h == mhclient[c].hdrs[n] IN
       /\ h.id <= mhhistory.ids
       /\ h.deleted => h.id # 0
       /\ h.deleted /\ mhclient[c].pc \in {"writes", "unlinked"}
            => mhfiles[n] # h.id \/ mhfiles[n] = 0
IdsAreGivenOnce ==
    /\ \A n \in Mh!Numbers : mhfiles[n] <= mhhistory.ids
    /\ \A c \in MhClients : IdsOf(c)
(* As long as no deleted file was removed, a number a client knows belongs  *)
(* to its message or to no other.                                           *)
NumberStays(c, n) ==
    mhclient[c].hdrs[n].id # 0 =>
       \/ mhfiles[n] = mhclient[c].hdrs[n].id
       \/ mhfiles[n] = 0 /\ n \in commas
NumbersStay ==
    "comma lost" \notin mhhistory.events =>
      /\ "wrong delete" \notin mhhistory.events
      /\ \A c \in MhClients, n \in Mh!Numbers : NumberStays(c, n)

(* Who removed .mh_sequences puts it back.                                  *)
Unlinked(c) == mhclient[c].pc = "unlinked"
SequencesInHand ==
    /\ \A c, d \in MhClients : Unlinked(c) /\ Unlinked(d) => c = d
    /\ \A c \in MhClients : Unlinked(c) => delivery.pc # "unlinked" /\ ~sequences.there
    /\ delivery.pc = "unlinked" => ~sequences.there
    /\ \/ sequences.there \/ delivery.pc = "unlinked"
       \/ \E c \in MhClients : Unlinked(c)
(* What of the folder nobody has read is in a set of numbers, or is being   *)
(* added to it.                                                             *)
Adding(n) == delivery.pc \in {"numbered", "read"} /\ delivery.n = n
HasUnseen(s) ==
    \A n \in Mh!Numbers : mhfiles[n] # 0 /\ mhfiles[n] \notin mhhistory.readonce =>
       n \in s \/ Adding(n)
(* A header that says read is of a message that was read; the set a client  *)
(* is to write is what it has not read.                                     *)
ReadOnes(c) ==
    initialised =>
      /\ \A n \in Mh!Numbers : LET h == mhclient[c].hdrs[n] IN
            h.id # 0 /\ h.read => h.id \in mhhistory.readonce
      /\ mhclient[c].pc = "writes" => mhclient[c].new = Mh!Unseen(c)
UnseenFound ==
    /\ sequences.there => HasUnseen(sequences.unseen)
    /\ \A c \in MhClients : Unlinked(c) => HasUnseen(mhclient[c].new)
    /\ delivery.pc = "unlinked" => HasUnseen(delivery.old \cup {delivery.n})
UnseenIsKept == UnseenFound /\ \A c \in MhClients : ReadOnes(c)
MhInv ==
    /\ MhTypes /\ IdsAreGivenOnce /\ NumbersStay
    /\ Mh!Quiet => SequencesInHand /\ UnseenIsKept

LEMMA MhStarts == Mh!Init => MhInv
<1> SUFFICES ASSUME Mh!Init PROVE MhInv
  OBVIOUS
<1> USE NumberAssumption DEF Mh!Init, Mh!NoHeader, Mh!Shut, Mh!Resting, Mh!Numbers
<1>1. MhTypes
  BY DEF MhTypes, MhHeader, MhHeaders, MhPlaces, MhClient, MhDelivery, MhHistory, MhEvents
<1>2. IdsAreGivenOnce
  BY DEF IdsAreGivenOnce, IdsOf
<1>3. NumbersStay
  BY DEF NumbersStay, NumberStays
<1>4. SequencesInHand
  BY DEF SequencesInHand, Unlinked
<1>5. UnseenIsKept
  BY DEF UnseenIsKept, UnseenFound, HasUnseen, Unlinked, ReadOnes, Mh!Unseen
<1> QED BY <1>1, <1>2, <1>3, <1>4, <1>5 DEF MhInv

(* The marks that a folder is due for a look change nothing else.           *)
LEMMA DueEffect ==
    ASSUME MhTypes, NEW due \in [MhClients -> BOOLEAN]
    PROVE  /\ Mh!Due(due) \in [MhClients -> MhClient]
           /\ \A c \in MhClients : /\ Mh!Due(due)[c].pc = mhclient[c].pc
                                   /\ Mh!Due(due)[c].hdrs = mhclient[c].hdrs
                                   /\ Mh!Due(due)[c].new = mhclient[c].new
<1>1. \A c \in MhClients : mhclient[c] \in MhClient
  BY DEF MhTypes
<1>2. \A c \in MhClients : [mhclient[c] EXCEPT !.due = due[c]] \in MhClient
  BY <1>1 DEF MhClient
<1> QED BY <1>1, <1>2 DEF Mh!Due, MhClient

(* What has happened stays; a folder that is quiet was.                     *)
LEMMA EventsEffect ==
    ASSUME MhTypes, NEW events, mhhistory' = Mh!Happened(events),
           events \subseteq MhEvents
    PROVE  /\ mhhistory' \in MhHistory
           /\ mhhistory'.ids = mhhistory.ids /\ mhhistory'.readonce = mhhistory.readonce
           /\ mhhistory'.events = mhhistory.events \cup events
           /\ Mh!Quiet' => Mh!Quiet /\ events \cap {"crossed", "unknown", "crash"} = {}
BY DEF MhTypes, MhHistory, Mh!Happened, Mh!Quiet, MhEvents

LEMMA HeaderIsHeader ==
    ASSUME MhTypes, NEW n \in Mh!Numbers
    PROVE  /\ Mh!NoHeader \in MhHeader /\ Mh!maildir_parse_message(n) \in MhHeader
           /\ Mh!maildir_parse_message(n).id = mhfiles[n]
BY DEF MhTypes, Mh!NoHeader, MhHeader, Mh!maildir_parse_message

(* What a client is doing, has read, and is to write.                       *)
SameClient(c) ==
    /\ mhclient'[c].pc = mhclient[c].pc
    /\ mhclient'[c].hdrs = mhclient[c].hdrs
    /\ mhclient'[c].new = mhclient[c].new
SameHistory ==
    /\ mhhistory'.ids = mhhistory.ids /\ mhhistory'.readonce = mhhistory.readonce
SameFolder ==
    UNCHANGED <<initialised, mhfiles, commas, sequences, delivery>>

LEMMA OthersKeep ==
    ASSUME NEW c, SameClient(c), UNCHANGED initialised, mhhistory'.ids = mhhistory.ids,
           mhhistory.readonce \subseteq mhhistory'.readonce,
           \A n \in Mh!Numbers : mhfiles'[n] \in {mhfiles[n], 0}
    PROVE  (ReadOnes(c) => ReadOnes(c)') /\ (IdsOf(c) => IdsOf(c)')
<1>1. Mh!Unseen(c)' = Mh!Unseen(c)
  BY DEF Mh!Unseen, SameClient
<1>2. ReadOnes(c) => ReadOnes(c)'
  BY <1>1 DEF ReadOnes, SameClient
<1>3. IdsOf(c) => IdsOf(c)'
  BY DEF IdsOf, SameClient
<1> QED BY <1>2, <1>3

(* A client that reads the folder, or reads it again, has no unread message *)
(* for read.                                                                *)
LEMMA ReadingKeeps ==
    ASSUME MhInv, NEW c \in MhClients, NEW headers \in MhHeaders,
           mhclient[c].pc = "open" \/ mhclient[c].pc = "shut",
           mhclient' \in [MhClients -> MhClient],
           mhclient'[c].pc = "open", mhclient'[c].hdrs = headers,
           \A d \in MhClients \ {c} : SameClient(d),
           \A n \in Mh!Numbers :
              \/ headers[n] = Mh!NoHeader
              \/ /\ n \in Mh!Files /\ headers[n].id = mhfiles[n]
                 /\ \/ headers[n].read = Mh!maildir_parse_message(n).read
                    \/ headers[n].read = mhclient[c].hdrs[n].read /\ Mh!Found(c, n),
           SameFolder, mhhistory' = Mh!Happened(IF Mh!Crossing THEN {"crossed"} ELSE {})
    PROVE  MhInv'
<1> USE DEF SameFolder
<1>0. MhTypes /\ IdsAreGivenOnce /\ NumbersStay
  BY DEF MhInv
<1>1. /\ mhhistory' \in MhHistory /\ SameHistory
      /\ mhhistory'.events \subseteq mhhistory.events \cup {"crossed"}
      /\ mhhistory.events \subseteq mhhistory'.events
      /\ Mh!Quiet' => Mh!Quiet /\ ~Mh!Crossing
  BY <1>0, EventsEffect DEF MhEvents, SameHistory
<1>2. MhTypes'
  BY <1>0, <1>1 DEF MhTypes
<1>3. headers \in [Mh!Numbers -> MhHeader] /\ mhfiles \in [Mh!Numbers -> Nat]
  BY <1>0 DEF MhHeaders, MhTypes
<1>4. IdsAreGivenOnce'
  <2>1. \A n \in Mh!Numbers : mhfiles[n] <= mhhistory.ids /\ mhfiles[n] \in Nat
    BY <1>0, <1>3 DEF IdsAreGivenOnce
  <2>2. \A d \in MhClients \ {c} : IdsOf(d)'
    BY <1>0, <1>1 DEF IdsAreGivenOnce, IdsOf, SameClient, SameHistory
  <2>3. mhhistory.ids \in Nat
    BY <1>0 DEF MhTypes, MhHistory
  <2>4. \A n \in Mh!Numbers : headers[n].id <= mhhistory.ids /\ (headers[n].deleted => headers[n].id # 0)
    BY <2>1, <2>3 DEF Mh!NoHeader, Mh!Files
  <2>5. IdsOf(c)'
    BY <2>4, <1>1 DEF IdsOf, SameHistory
  <2> QED BY <2>1, <2>2, <2>5, <1>1 DEF IdsAreGivenOnce, SameHistory
<1>5. NumbersStay'
  <2>1. \A d \in MhClients \ {c}, n \in Mh!Numbers : NumberStays(d, n)' <=> NumberStays(d, n)
    BY DEF NumberStays, SameClient
  <2>2. \A n \in Mh!Numbers : NumberStays(c, n)'
    BY DEF NumberStays, Mh!NoHeader
  <2> QED BY <1>0, <1>1, <2>1, <2>2 DEF NumbersStay
<1>6. ASSUME Mh!Quiet' PROVE SequencesInHand' /\ UnseenIsKept'
  <2>0. SequencesInHand /\ UnseenIsKept /\ ~Mh!Crossing
    BY <1>1, <1>6 DEF MhInv
  <2>1. SequencesInHand'
    BY <2>0 DEF SequencesInHand, Unlinked, SameClient
  <2>2. \A s : HasUnseen(s)' <=> HasUnseen(s)
    BY <1>1 DEF HasUnseen, Adding, SameHistory
  <2>3. \A d \in MhClients \ {c} : ReadOnes(d)'
    BY <2>0, <1>1
    DEF UnseenIsKept, UnseenFound, ReadOnes, SameClient, SameHistory, Mh!Unseen
  <2>4. ReadOnes(c)'
    <3>1. SUFFICES ASSUME initialised, NEW n \in Mh!Numbers, headers[n].id # 0, headers[n].read
                   PROVE  headers[n].id \in mhhistory.readonce
      BY <1>1 DEF ReadOnes, SameHistory
    <3>2. n \in Mh!Files /\ headers[n].id = mhfiles[n]
      BY <3>1 DEF Mh!NoHeader
    <3>3. CASE headers[n].read = Mh!maildir_parse_message(n).read
      BY <3>1, <3>2, <3>3, <2>0
         DEF Mh!maildir_parse_message, Mh!mh_read_sequences, Mh!Crossing, UnseenIsKept,
              UnseenFound, HasUnseen,
             Adding, Mh!Files
    <3>4. CASE headers[n].read = mhclient[c].hdrs[n].read /\ Mh!Found(c, n)
      BY <3>1, <3>2, <3>4, <2>0 DEF UnseenIsKept, UnseenFound, ReadOnes, Mh!Found
    <3>5. headers[n] # Mh!NoHeader
      BY <3>1 DEF Mh!NoHeader
    <3> QED BY <3>3, <3>4, <3>5
  <2>5. /\ \A d \in MhClients \ {c} : Unlinked(d)' => HasUnseen(mhclient[d].new) /\ SameClient(d)
        /\ ~Unlinked(c)'
    BY <2>0 DEF UnseenIsKept, UnseenFound, Unlinked, SameClient
  <2> QED BY <2>0, <2>1, <2>2, <2>3, <2>4, <2>5 DEF UnseenIsKept, UnseenFound, SameClient
<1> QED BY <1>1, <1>2, <1>4, <1>5, <1>6 DEF MhInv

LEMMA OpenFolderKeeps ==
    ASSUME MhInv, NEW c \in MhClients, Mh!OpenFolder(c) PROVE MhInv'
<1>0. MhTypes
  BY DEF MhInv
<1>1. \A n \in Mh!Numbers : /\ Mh!mh_read_dir[n] \in MhHeader
                            /\ Mh!mh_read_dir[n] = IF n \in Mh!Files THEN Mh!maildir_parse_message(n)
                                                ELSE Mh!NoHeader
  BY <1>0, HeaderIsHeader DEF Mh!mh_read_dir
<1>2. Mh!mh_read_dir \in MhHeaders
  BY <1>1 DEF MhHeaders, Mh!mh_read_dir
<1>3. /\ mhclient' \in [MhClients -> MhClient]
      /\ mhclient'[c].pc = "open" /\ mhclient'[c].hdrs = Mh!mh_read_dir
      /\ \A d \in MhClients \ {c} : SameClient(d)
  <2>1. mhclient' = [mhclient EXCEPT ![c] =
                       [mhclient[c] EXCEPT !.pc = "open", !.due = FALSE, !.hdrs = Mh!mh_read_dir]]
    BY <1>0 DEF MhTypes, Mh!OpenFolder
  <2>2. mhclient[c] \in MhClient /\ mhclient \in [MhClients -> MhClient]
    BY <1>0 DEF MhTypes
  <2> QED BY <2>1, <2>2, <1>2 DEF MhClient, MhPlaces, SameClient
<1>4. \A n \in Mh!Numbers : n \in Mh!Files => Mh!mh_read_dir[n].id = mhfiles[n]
  BY <1>0, <1>1, HeaderIsHeader
<1> QED BY <1>1, <1>2, <1>3, <1>4, ReadingKeeps DEF Mh!OpenFolder, SameFolder

LEMMA CheckKeeps ==
    ASSUME MhInv, NEW c \in MhClients, Mh!mh_check_mailbox(c) PROVE MhInv'
<1>0. MhTypes
  BY DEF MhInv
<1>1. mhclient[c] \in MhClient /\ mhclient[c].hdrs \in [Mh!Numbers -> MhHeader]
  BY <1>0 DEF MhTypes, MhClient, MhHeaders
<1>2. \A n \in Mh!Numbers :
        /\ Mh!Merged(c)[n] \in MhHeader
        /\ n \notin Mh!Files => Mh!Merged(c)[n] = Mh!NoHeader
        /\ n \in Mh!Files => Mh!Merged(c)[n].id = mhfiles[n]
        /\ n \in Mh!Files =>
              \/ Mh!Merged(c)[n].read = Mh!maildir_parse_message(n).read
              \/ Mh!Merged(c)[n].read = mhclient[c].hdrs[n].read /\ Mh!Found(c, n)
  <2>1. TAKE n \in Mh!Numbers
  <2>2. Mh!NoHeader \in MhHeader /\ Mh!maildir_parse_message(n) \in MhHeader
        /\ mhclient[c].hdrs[n] \in MhHeader /\ Mh!maildir_parse_message(n).id = mhfiles[n]
    BY <1>0, <1>1, HeaderIsHeader DEF Mh!maildir_parse_message
  <2> QED BY <2>2 DEF Mh!Merged, MhHeader, Mh!Found
<1>3. Mh!Merged(c) \in MhHeaders
  BY <1>2 DEF MhHeaders, Mh!Merged
<1>4. /\ mhclient' \in [MhClients -> MhClient]
      /\ mhclient'[c].pc = "open" /\ mhclient'[c].hdrs = Mh!Merged(c)
      /\ \A d \in MhClients \ {c} : SameClient(d)
  BY <1>0, <1>3 DEF MhTypes, MhClient, Mh!mh_check_mailbox, SameClient
<1> QED BY <1>2, <1>3, <1>4, ReadingKeeps DEF Mh!mh_check_mailbox, SameFolder


(* As long as the files and the headers stay, so does what is known of      *)
(* their numbers.                                                           *)
InSync(c) == mhclient[c].pc \in {"writes", "unlinked"}
Wronged == "wrong delete" \in mhhistory.events
LEMMA NumbersKeep ==
    ASSUME MhTypes, IdsAreGivenOnce, NumbersStay,
           UNCHANGED <<mhfiles, commas>>, mhhistory'.ids = mhhistory.ids,
           Wronged' => Wronged, mhhistory.events \subseteq mhhistory'.events,
           \A c \in MhClients, n \in Mh!Numbers :
              \/ mhclient'[c].hdrs[n].id = 0 /\ ~mhclient'[c].hdrs[n].deleted
              \/ /\ mhclient'[c].hdrs[n].id = mhclient[c].hdrs[n].id
                 /\ mhclient'[c].hdrs[n].deleted => mhclient[c].hdrs[n].deleted
                 /\ InSync(c)' => InSync(c)
    PROVE  IdsAreGivenOnce' /\ NumbersStay'
<1>1. mhhistory.ids \in Nat
  BY DEF MhTypes, MhHistory
<1>2. ASSUME NEW c \in MhClients, NEW n \in Mh!Numbers
      PROVE  LET h == mhclient'[c].hdrs[n] IN
             /\ h.id <= mhhistory.ids
             /\ h.deleted => h.id # 0
             /\ h.deleted /\ InSync(c)' => mhfiles[n] # h.id \/ mhfiles[n] = 0
  <2>1. CASE mhclient'[c].hdrs[n].id = 0 /\ ~mhclient'[c].hdrs[n].deleted
    BY <1>1, <2>1
  <2>2. CASE /\ mhclient'[c].hdrs[n].id = mhclient[c].hdrs[n].id
             /\ mhclient'[c].hdrs[n].deleted => mhclient[c].hdrs[n].deleted
             /\ InSync(c)' => InSync(c)
    <3>1. LET h == mhclient[c].hdrs[n] IN
             /\ h.id <= mhhistory.ids
             /\ h.deleted => h.id # 0
             /\ h.deleted /\ InSync(c) => mhfiles[n] # h.id \/ mhfiles[n] = 0
      BY DEF IdsAreGivenOnce, IdsOf, InSync
    <3> QED BY <3>1, <2>2
  <2> QED BY <2>1, <2>2
<1>3. IdsAreGivenOnce'
  BY <1>2 DEF IdsAreGivenOnce, IdsOf, InSync
<1>4. \A c \in MhClients, n \in Mh!Numbers : NumberStays(c, n) => NumberStays(c, n)'
  BY DEF NumberStays
<1> QED BY <1>3, <1>4 DEF NumbersStay, Wronged

LEMMA MakesSequencesKeeps ==
    ASSUME MhInv, NEW c \in MhClients, Mh!MakesSequences(c) PROVE MhInv'
<1>0. MhTypes /\ IdsAreGivenOnce /\ NumbersStay
  BY DEF MhInv
<1>1. PICK due \in [MhClients -> BOOLEAN] : mhclient' = Mh!Due(due)
  BY DEF Mh!MakesSequences
<1>2. /\ mhhistory' \in MhHistory /\ mhhistory'.ids = mhhistory.ids
      /\ mhhistory'.events = mhhistory.events \cup {"crossed"} /\ ~Mh!Quiet'
  BY <1>0, EventsEffect DEF MhEvents, Mh!MakesSequences
<1>3. mhclient' \in [MhClients -> MhClient] /\ \A d \in MhClients : SameClient(d)
  BY <1>0, <1>1, DueEffect DEF SameClient
<1>4. MhTypes'
  BY <1>0, <1>2, <1>3 DEF MhTypes, Mh!MakesSequences
<1>5. IdsAreGivenOnce' /\ NumbersStay'
  BY <1>0, <1>2, <1>3, NumbersKeep DEF Mh!MakesSequences, SameClient, InSync, Wronged
<1> QED BY <1>2, <1>4, <1>5 DEF MhInv

LEMMA SetsFlagKeeps ==
    ASSUME MhInv, NEW c \in MhClients, NEW n0 \in Mh!Numbers, Mh!SetsFlag(c, n0) PROVE MhInv'
<1> USE DEF Mh!SetsFlag
<1>0. MhTypes /\ IdsAreGivenOnce /\ NumbersStay
  BY DEF MhInv
<1>1. /\ mhclient[c] \in MhClient /\ mhclient[c].hdrs \in [Mh!Numbers -> MhHeader]
      /\ mhclient[c].hdrs[n0] \in MhHeader
  BY <1>0 DEF MhTypes, MhClient, MhHeaders
<1>2. PICK h \in MhHeader :
        /\ mhclient' = [mhclient EXCEPT ![c] = [mhclient[c] EXCEPT !.hdrs =
                           [mhclient[c].hdrs EXCEPT ![n0] = h]]]
        /\ h.id = mhclient[c].hdrs[n0].id
        /\ \/ h.deleted = mhclient[c].hdrs[n0].deleted
              /\ mhhistory' = [mhhistory EXCEPT !.readonce = @ \cup {h.id}]
           \/ h.read = mhclient[c].hdrs[n0].read /\ mhhistory' = mhhistory
  <2>1. CASE /\ mhclient' = [mhclient EXCEPT ![c].hdrs[n0] =
                                          [@ EXCEPT !.read = TRUE, !.changed = TRUE]]
             /\ mhhistory' = [mhhistory EXCEPT !.readonce = @ \cup {mhclient[c].hdrs[n0].id}]
    <3> DEFINE h == [mhclient[c].hdrs[n0] EXCEPT !.read = TRUE, !.changed = TRUE]
    <3>1. /\ h \in MhHeader /\ h.id = mhclient[c].hdrs[n0].id
          /\ h.deleted = mhclient[c].hdrs[n0].deleted
      BY <1>1 DEF MhHeader
    <3>2. mhclient' = [mhclient EXCEPT ![c] = [mhclient[c] EXCEPT !.hdrs =
                           [mhclient[c].hdrs EXCEPT ![n0] = h]]]
      BY <1>0, <1>1, <2>1 DEF MhTypes, MhClient, MhHeader
    <3> QED BY <3>1, <3>2, <2>1
  <2>2. CASE /\ mhclient' = [mhclient EXCEPT ![c].hdrs[n0].deleted = TRUE]
             /\ UNCHANGED mhhistory
    <3> DEFINE h == [mhclient[c].hdrs[n0] EXCEPT !.deleted = TRUE]
    <3>1. /\ h \in MhHeader /\ h.id = mhclient[c].hdrs[n0].id
          /\ h.read = mhclient[c].hdrs[n0].read
      BY <1>1 DEF MhHeader
    <3>2. mhclient' = [mhclient EXCEPT ![c] = [mhclient[c] EXCEPT !.hdrs =
                           [mhclient[c].hdrs EXCEPT ![n0] = h]]]
      BY <1>0, <1>1, <2>2 DEF MhTypes, MhClient, MhHeader
    <3> QED BY <3>1, <3>2, <2>2
  <2> QED BY <2>1, <2>2
<1>3. /\ mhclient' \in [MhClients -> MhClient]
      /\ \A d \in MhClients \ {c} : SameClient(d)
      /\ mhclient'[c].pc = "open"
      /\ \A n \in Mh!Numbers \ {n0} : mhclient'[c].hdrs[n] = mhclient[c].hdrs[n]
      /\ mhclient'[c].hdrs[n0] = h
  BY <1>0, <1>1, <1>2 DEF MhTypes, MhClient, MhHeaders, SameClient
<1>4. /\ mhhistory' \in MhHistory /\ mhhistory'.ids = mhhistory.ids
      /\ mhhistory'.events = mhhistory.events
      /\ mhhistory.readonce \subseteq mhhistory'.readonce
      /\ h.read # mhclient[c].hdrs[n0].read => h.id \in mhhistory'.readonce
  <2>1. h.id \in Nat /\ mhhistory \in MhHistory
    BY <1>0 DEF MhTypes, MhHeader
  <2>2. CASE /\ h.deleted = mhclient[c].hdrs[n0].deleted
             /\ mhhistory' = [mhhistory EXCEPT !.readonce = @ \cup {h.id}]
    BY <2>1, <2>2 DEF MhHistory
  <2>3. CASE h.read = mhclient[c].hdrs[n0].read /\ mhhistory' = mhhistory
    BY <2>1, <2>3
  <2> QED BY <1>2, <2>2, <2>3
<1>5. MhTypes'
  BY <1>0, <1>3, <1>4 DEF MhTypes
<1>6. IdsAreGivenOnce'
  <2>1. h.id # 0 /\ h.id <= mhhistory.ids
    BY <1>0, <1>2 DEF IdsAreGivenOnce, IdsOf
  <2>2. IdsOf(c)'
    BY <1>0, <1>3, <1>4, <2>1 DEF IdsAreGivenOnce, IdsOf
  <2>3. \A d \in MhClients \ {c} : IdsOf(d)'
    BY <1>0, <1>3, <1>4 DEF IdsAreGivenOnce, IdsOf, SameClient
  <2> QED BY <1>0, <1>4, <2>2, <2>3 DEF IdsAreGivenOnce
<1>7. NumbersStay'
  <2>1. \A d \in MhClients, n \in Mh!Numbers : mhclient'[d].hdrs[n].id = mhclient[d].hdrs[n].id
    BY <1>2, <1>3 DEF SameClient
  <2>2. \A d \in MhClients, n \in Mh!Numbers : NumberStays(d, n)' <=> NumberStays(d, n)
    BY <2>1 DEF NumberStays
  <2> QED BY <1>0, <1>4, <2>2 DEF NumbersStay
<1>8. ASSUME Mh!Quiet' PROVE SequencesInHand' /\ UnseenIsKept'
  <2>0. SequencesInHand /\ UnseenIsKept
    BY <1>4, <1>8 DEF MhInv, Mh!Quiet
  <2>1. SequencesInHand'
    BY <2>0, <1>3 DEF SequencesInHand, Unlinked, SameClient
  <2>2. \A s : HasUnseen(s) => HasUnseen(s)'
    BY <1>4 DEF HasUnseen, Adding
  <2>3. \A d \in MhClients \ {c} : ReadOnes(d)'
    BY <2>0, <1>3, <1>4 DEF UnseenIsKept, UnseenFound, ReadOnes, SameClient, Mh!Unseen
  <2>4. ReadOnes(c)'
    BY <2>0, <1>2, <1>3, <1>4 DEF UnseenIsKept, UnseenFound, ReadOnes
  <2>5. /\ \A d \in MhClients \ {c} : Unlinked(d)' => HasUnseen(mhclient[d].new) /\ SameClient(d)
        /\ ~Unlinked(c)'
    BY <2>0, <1>3 DEF UnseenIsKept, UnseenFound, Unlinked, SameClient
  <2> QED BY <2>0, <2>1, <2>2, <2>3, <2>4, <2>5 DEF UnseenIsKept, UnseenFound, SameClient
<1> QED BY <1>5, <1>6, <1>7, <1>8 DEF MhInv


(* What is renamed away is a message that was marked, and its number is     *)
(* kept.                                                                    *)
LEMMA SyncKeeps ==
    ASSUME MhInv, NEW c \in MhClients, Mh!mh_sync_mailbox(c) PROVE MhInv'
<1>0. MhTypes /\ IdsAreGivenOnce /\ NumbersStay
  BY DEF MhInv
<1> DEFINE Lost == (IF Mh!Marked(c) \subseteq Mh!Files THEN {} ELSE {"comma lost"})
                   \cup {"wrong delete" : n \in {x \in Mh!Renames(c) : ~Mh!Found(c, x)}}
<1>1. /\ mhhistory' \in MhHistory /\ SameHistory
      /\ mhhistory'.events = mhhistory.events \cup Lost
      /\ Mh!Quiet' => Mh!Quiet
  <2>1. Lost \subseteq MhEvents
    BY DEF MhEvents
  <2>2. mhhistory' = Mh!Happened(Lost)
    BY DEF Mh!mh_sync_mailbox
  <2> HIDE DEF Lost
  <2> QED BY <1>0, <2>1, <2>2, EventsEffect DEF MhEvents, SameHistory
<1>2. PICK due \in [MhClients -> BOOLEAN] :
        mhclient' = [Mh!Due(due) EXCEPT ![c].pc = "writes", ![c].new = Mh!NewSequences(c)]
  BY DEF Mh!mh_sync_mailbox
<1>3. /\ Mh!Due(due) \in [MhClients -> MhClient]
      /\ \A d \in MhClients : /\ Mh!Due(due)[d].pc = mhclient[d].pc
                              /\ Mh!Due(due)[d].hdrs = mhclient[d].hdrs
                              /\ Mh!Due(due)[d].new = mhclient[d].new
  BY <1>0, DueEffect
<1>4. Mh!NewSequences(c) \subseteq Mh!Numbers
  BY <1>0 DEF Mh!NewSequences, Mh!mhs_write_one_sequence, Mh!Unseen, MhTypes
<1>5. /\ mhclient' \in [MhClients -> MhClient]
      /\ \A d \in MhClients \ {c} : SameClient(d)
      /\ mhclient'[c].pc = "writes" /\ mhclient'[c].hdrs = mhclient[c].hdrs
      /\ mhclient'[c].new = Mh!NewSequences(c) /\ mhclient[c].pc = "open"
  <2> DEFINE r == [Mh!Due(due)[c] EXCEPT !.pc = "writes", !.new = Mh!NewSequences(c)]
  <2>1. mhclient' = [Mh!Due(due) EXCEPT ![c] = r]
    BY <1>2, <1>3
  <2>2. r \in MhClient /\ r.pc = "writes" /\ r.hdrs = mhclient[c].hdrs /\ r.new = Mh!NewSequences(c)
    BY <1>3, <1>4 DEF MhClient, MhPlaces
  <2> HIDE DEF r
  <2> QED BY <2>1, <2>2, <1>3 DEF SameClient, Mh!mh_sync_mailbox
<1>6. /\ mhfiles' \in [Mh!Numbers -> Nat] /\ commas' \subseteq Mh!Numbers
      /\ \A n \in Mh!Numbers : mhfiles'[n] = IF n \in Mh!Marked(c) THEN 0 ELSE mhfiles[n]
      /\ \A n \in Mh!Marked(c) : n \in Mh!Numbers /\ mhclient[c].hdrs[n].deleted
      /\ \A n \in Mh!Numbers : mhclient[c].hdrs[n].deleted => n \in Mh!Marked(c)
  BY <1>0 DEF MhTypes, Mh!mh_sync_mailbox, Mh!Marked, Mh!Renames
<1>7. MhTypes'
  BY <1>0, <1>1, <1>5, <1>6 DEF MhTypes, Mh!mh_sync_mailbox
<1>8. IdsAreGivenOnce'
  <2>1. mhhistory.ids \in Nat
    BY <1>0 DEF MhTypes, MhHistory
  <2>2. \A n \in Mh!Numbers : mhfiles'[n] <= mhhistory.ids
    BY <1>0, <1>6, <2>1 DEF IdsAreGivenOnce
  <2>3. IdsOf(c)'
    BY <1>0, <1>1, <1>5, <1>6 DEF IdsAreGivenOnce, IdsOf, SameHistory
  <2>4. \A d \in MhClients \ {c} : IdsOf(d)'
    BY <1>0, <1>1, <1>5, <1>6, OthersKeep
    DEF IdsAreGivenOnce, SameHistory, Mh!mh_sync_mailbox
  <2> QED BY <1>1, <2>2, <2>3, <2>4 DEF IdsAreGivenOnce, SameHistory
<1>9. NumbersStay'
  <2>1. SUFFICES ASSUME ~("comma lost" \in mhhistory'.events) PROVE NumbersStay'
    BY DEF NumbersStay
  <2>2. /\ Mh!Marked(c) \subseteq Mh!Files /\ ~("comma lost" \in mhhistory.events)
        /\ \A d \in MhClients, n \in Mh!Numbers : NumberStays(d, n)
        /\ ~("wrong delete" \in mhhistory.events)
    BY <1>0, <1>1, <2>1 DEF NumbersStay
  <2>3. \A n \in Mh!Renames(c) : Mh!Found(c, n)
    <3>1. TAKE n \in Mh!Renames(c)
    <3>2. n \in Mh!Numbers /\ mhfiles[n] # 0 /\ mhclient[c].hdrs[n].deleted
      BY DEF Mh!Renames, Mh!Marked, Mh!Files
    <3>3. mhclient[c].hdrs[n].id # 0
      BY <1>0, <3>2 DEF IdsAreGivenOnce, IdsOf
    <3> QED BY <2>2, <3>2, <3>3 DEF NumberStays, Mh!Found
  <2>4. ~("wrong delete" \in mhhistory'.events)
    BY <1>1, <2>2, <2>3
  <2>5. \A d \in MhClients, n \in Mh!Numbers : NumberStays(d, n)'
    <3>1. TAKE d \in MhClients, n \in Mh!Numbers
    <3>2. mhclient'[d].hdrs[n].id = mhclient[d].hdrs[n].id
      BY <1>5 DEF SameClient
    <3>3. CASE n \in Mh!Marked(c)
      BY <1>6, <2>2, <3>3 DEF NumberStays, Mh!mh_sync_mailbox, Mh!Renames
    <3>4. CASE n \notin Mh!Marked(c)
      BY <1>6, <2>2, <3>2, <3>4 DEF NumberStays, Mh!mh_sync_mailbox
    <3> QED BY <3>3, <3>4
  <2> QED BY <2>4, <2>5 DEF NumbersStay
<1>10. ASSUME Mh!Quiet' PROVE SequencesInHand' /\ UnseenIsKept'
  <2>0. SequencesInHand /\ UnseenIsKept
    BY <1>1, <1>10 DEF MhInv
  <2>1. UNCHANGED <<initialised, sequences, delivery>>
    BY DEF Mh!mh_sync_mailbox
  <2>2. ~Unlinked(c)' /\ ~Unlinked(c) /\ \A d \in MhClients \ {c} : Unlinked(d)' <=> Unlinked(d)
    BY <1>5 DEF Unlinked, SameClient
  <2>3. SequencesInHand'
    BY <2>0, <2>1, <2>2 DEF SequencesInHand
  <2>4. \A s : HasUnseen(s) => HasUnseen(s)'
    BY <1>1, <1>6, <2>1 DEF HasUnseen, Adding, SameHistory
  <2>5. \A d \in MhClients \ {c} : ReadOnes(d)'
    BY <2>0, <2>1, <1>5, <1>6, <1>1, OthersKeep DEF UnseenIsKept, UnseenFound, SameHistory
  <2>6. ReadOnes(c)'
    BY <2>0, <2>1, <1>5, <1>1
       DEF UnseenIsKept, UnseenFound, ReadOnes, Mh!Unseen, SameHistory, Mh!NewSequences,
            Mh!mhs_write_one_sequence
  <2>7. \A d \in MhClients : Unlinked(d)' => HasUnseen(mhclient[d].new) /\ SameClient(d)
    BY <2>0, <2>2, <1>5 DEF UnseenIsKept, UnseenFound
  <2> QED BY <2>0, <2>1, <2>3, <2>4, <2>5, <2>6, <2>7
    DEF UnseenIsKept, UnseenFound, SameClient
<1> QED BY <1>7, <1>8, <1>9, <1>10 DEF MhInv

(* The set that takes the place of the removed one has what nobody read.    *)
LEMMA UpdateSequencesKeeps ==
    ASSUME MhInv, NEW c \in MhClients, Mh!mh_update_sequences(c) PROVE MhInv'
<1>0. MhTypes /\ IdsAreGivenOnce /\ NumbersStay
  BY DEF MhInv
<1> DEFINE Seen == {"unknown" : n \in {x \in Mh!Files : initialised /\ ~Mh!Found(c, x)}}
                   \cup {"crossed" : x \in {y \in {sequences} :
                          ~y.there \/ (~initialised /\ y.unseen # mhclient[c].new)}}
<1>1. /\ mhhistory' \in MhHistory /\ SameHistory
      /\ mhhistory'.events = mhhistory.events \cup Seen
      /\ Mh!Quiet' => Mh!Quiet /\ Seen \cap {"crossed", "unknown", "crash"} = {}
  <2>1. Seen \subseteq MhEvents
    BY DEF MhEvents
  <2>2. mhhistory' = Mh!Happened(Seen)
    BY DEF Mh!mh_update_sequences
  <2> HIDE DEF Seen
  <2> QED BY <1>0, <2>1, <2>2, EventsEffect DEF MhEvents, SameHistory
<1>2. /\ mhclient' \in [MhClients -> MhClient]
      /\ \A d \in MhClients \ {c} : SameClient(d)
      /\ mhclient'[c].pc = "unlinked" /\ mhclient'[c].hdrs = mhclient[c].hdrs
      /\ mhclient'[c].new = mhclient[c].new /\ mhclient[c].pc = "writes"
  BY <1>0 DEF MhTypes, MhClient, MhPlaces, Mh!mh_update_sequences, SameClient
<1>3. MhTypes'
  BY <1>0, <1>1, <1>2 DEF MhTypes, Mh!mh_update_sequences
<1>4. IdsAreGivenOnce' /\ NumbersStay'
  <2>1. Wronged' => Wronged
    BY <1>1 DEF Wronged
  <2>2. \A d \in MhClients : mhclient'[d].hdrs = mhclient[d].hdrs /\ (InSync(d)' => InSync(d))
    BY <1>2 DEF SameClient, InSync
  <2> QED BY <1>0, <1>1, <2>1, <2>2, NumbersKeep DEF Mh!mh_update_sequences, SameHistory
<1>5. ASSUME Mh!Quiet' PROVE SequencesInHand' /\ UnseenIsKept'
  <2>0. SequencesInHand /\ UnseenIsKept
    BY <1>1, <1>5 DEF MhInv
  <2>1. /\ UNCHANGED <<initialised, mhfiles, delivery>> /\ ~sequences'.there
    BY DEF Mh!mh_update_sequences
  <2>2. /\ \A x \in Mh!Files : initialised => Mh!Found(c, x)
        /\ sequences.there /\ (initialised \/ sequences.unseen = mhclient[c].new)
    BY <1>1, <1>5
  <2>3. /\ Unlinked(c)' /\ delivery.pc # "unlinked"
        /\ \A d \in MhClients \ {c} : ~Unlinked(d) /\ ~Unlinked(d)'
    BY <1>2, <2>0, <2>2 DEF SequencesInHand, Unlinked, SameClient
  <2>4. SequencesInHand'
    BY <2>1, <2>3 DEF SequencesInHand
  <2>5. \A s : HasUnseen(s)' <=> HasUnseen(s)
    BY <1>1, <2>1 DEF HasUnseen, Adding, SameHistory
  <2>6. HasUnseen(mhclient[c].new)
    <3>1. CASE ~initialised
      BY <3>1, <2>0, <2>2 DEF UnseenIsKept, UnseenFound
    <3>2. CASE initialised
      <4>1. mhclient[c].new = Mh!Unseen(c) /\ ReadOnes(c) /\ IdsOf(c)
        BY <3>2, <2>0, <1>0, <1>2 DEF UnseenIsKept, UnseenFound, ReadOnes, IdsAreGivenOnce
      <4>2. ASSUME NEW n \in Mh!Numbers, mhfiles[n] # 0, mhfiles[n] \notin mhhistory.readonce
            PROVE  n \in Mh!Unseen(c)
        <5>1. mhclient[c].hdrs[n].id = mhfiles[n]
          BY <2>2, <3>2, <4>2 DEF Mh!Files, Mh!Found
        <5>2. ~mhclient[c].hdrs[n].read
          BY <3>2, <4>1, <4>2, <5>1 DEF ReadOnes
        <5>3. ~mhclient[c].hdrs[n].deleted
          BY <4>1, <4>2, <5>1, <1>2 DEF IdsOf
        <5> QED BY <4>2, <5>1, <5>2, <5>3 DEF Mh!Unseen
      <4> QED BY <4>1, <4>2 DEF HasUnseen
    <3> QED BY <3>1, <3>2
  <2>7. \A d \in MhClients \ {c} : ReadOnes(d)'
    BY <2>0, <2>1, <1>2, <1>1
    DEF UnseenIsKept, UnseenFound, ReadOnes, SameClient, Mh!Unseen, SameHistory
  <2>8. ReadOnes(c)'
    BY <2>0, <2>1, <1>2, <1>1 DEF UnseenIsKept, UnseenFound, ReadOnes, SameHistory
  <2> QED BY <2>1, <2>3, <2>4, <2>5, <2>6, <2>7, <2>8, <1>2 DEF UnseenIsKept, UnseenFound
<1> QED BY <1>3, <1>4, <1>5 DEF MhInv


(* The new set comes into its place, or is given up where there is one.     *)
LEMMA SequencesWrittenKeeps ==
    ASSUME MhInv, NEW c \in MhClients, Mh!SequencesWritten(c) PROVE MhInv'
<1>0. MhTypes /\ IdsAreGivenOnce /\ NumbersStay
  BY DEF MhInv
<1>1. /\ mhhistory' \in MhHistory /\ SameHistory
      /\ mhhistory'.events \subseteq mhhistory.events \cup {"crossed"}
      /\ mhhistory.events \subseteq mhhistory'.events
      /\ Mh!Quiet' => Mh!Quiet /\ ~sequences.there
  BY <1>0, EventsEffect DEF MhEvents, Mh!SequencesWritten, SameHistory
<1>2. PICK due \in [MhClients -> BOOLEAN] :
        mhclient' = [Mh!Due(due) EXCEPT ![c].pc = "open", ![c].new = {},
                                     ![c].due = FALSE, ![c].hdrs = Mh!Kept(c)]
  BY DEF Mh!SequencesWritten
<1>3. /\ Mh!Due(due) \in [MhClients -> MhClient]
      /\ \A d \in MhClients : /\ Mh!Due(due)[d].pc = mhclient[d].pc
                              /\ Mh!Due(due)[d].hdrs = mhclient[d].hdrs
                              /\ Mh!Due(due)[d].new = mhclient[d].new
  BY <1>0, DueEffect
<1>4. \A n \in Mh!Numbers :
        /\ Mh!Kept(c)[n] \in MhHeader
        /\ \/ Mh!Kept(c)[n].id = 0 /\ ~Mh!Kept(c)[n].deleted
           \/ /\ Mh!Kept(c)[n].id = mhclient[c].hdrs[n].id
              /\ Mh!Kept(c)[n].read = mhclient[c].hdrs[n].read
              /\ Mh!Kept(c)[n].deleted = mhclient[c].hdrs[n].deleted
  <2>1. TAKE n \in Mh!Numbers
  <2>2. mhclient[c].hdrs[n] \in MhHeader
    BY <1>0 DEF MhTypes, MhClient, MhHeaders
  <2> QED BY <2>2 DEF Mh!Kept, Mh!NoHeader, MhHeader
<1>5. Mh!Kept(c) \in MhHeaders
  BY <1>4 DEF Mh!Kept, MhHeaders
<1>6. /\ mhclient' \in [MhClients -> MhClient]
      /\ \A d \in MhClients \ {c} : SameClient(d)
      /\ mhclient'[c].pc = "open" /\ mhclient'[c].hdrs = Mh!Kept(c)
      /\ mhclient[c].pc = "unlinked"
  <2> DEFINE r == [Mh!Due(due)[c] EXCEPT !.pc = "open", !.new = {}, !.due = FALSE, !.hdrs = Mh!Kept(c)]
  <2>1. mhclient' = [Mh!Due(due) EXCEPT ![c] = r]
    BY <1>2, <1>3
  <2>2. r \in MhClient /\ r.pc = "open" /\ r.hdrs = Mh!Kept(c)
    BY <1>3, <1>5 DEF MhClient, MhPlaces
  <2> HIDE DEF r
  <2> QED BY <2>1, <2>2, <1>3 DEF SameClient, Mh!SequencesWritten
<1>7. MhTypes'
  <2>1. sequences' \in [there : BOOLEAN, unseen : SUBSET Mh!Numbers]
    BY <1>0 DEF MhTypes, MhClient, Mh!SequencesWritten, Mh!safe_rename
  <2> QED BY <1>0, <1>1, <1>6, <2>1 DEF MhTypes, Mh!SequencesWritten
<1>8. IdsAreGivenOnce' /\ NumbersStay'
  <2>1. Wronged' => Wronged
    BY <1>1 DEF Wronged
  <2>2. \A d \in MhClients \ {c} : mhclient'[d].hdrs = mhclient[d].hdrs /\ (InSync(d)' => InSync(d))
    BY <1>6 DEF SameClient, InSync
  <2>3. ~InSync(c)'
    BY <1>6 DEF InSync
  <2> QED BY <1>0, <1>1, <1>4, <1>6, <2>1, <2>2, <2>3, NumbersKeep
    DEF Mh!SequencesWritten, SameHistory
<1>9. ASSUME Mh!Quiet' PROVE SequencesInHand' /\ UnseenIsKept'
  <2>0. SequencesInHand /\ UnseenIsKept /\ ~sequences.there
    BY <1>1, <1>9 DEF MhInv
  <2>1. /\ UNCHANGED <<initialised, mhfiles, delivery>>
        /\ sequences' = [there |-> TRUE, unseen |-> mhclient[c].new]
    BY <2>0 DEF Mh!SequencesWritten, Mh!safe_rename
  <2>2. /\ Unlinked(c) /\ ~Unlinked(c)' /\ delivery.pc # "unlinked"
        /\ \A d \in MhClients \ {c} : ~Unlinked(d) /\ ~Unlinked(d)'
    BY <1>6, <2>0 DEF SequencesInHand, Unlinked, SameClient
  <2>3. SequencesInHand'
    BY <2>1, <2>2 DEF SequencesInHand
  <2>4. \A s : HasUnseen(s)' <=> HasUnseen(s)
    BY <1>1, <2>1 DEF HasUnseen, Adding, SameHistory
  <2>5. HasUnseen(mhclient[c].new)
    BY <2>0, <2>2 DEF UnseenIsKept, UnseenFound
  <2>6. mhfiles \in [Mh!Numbers -> Nat]
    BY <1>0 DEF MhTypes
  <2>7. \A d \in MhClients \ {c} : ReadOnes(d)'
    BY <2>0, <2>1, <2>6, <1>6, <1>1, OthersKeep DEF UnseenIsKept, UnseenFound, SameHistory
  <2>8. ReadOnes(c)'
    BY <2>0, <2>1, <1>6, <1>4, <1>1 DEF UnseenIsKept, UnseenFound, ReadOnes, SameHistory
  <2> QED BY <2>1, <2>2, <2>3, <2>4, <2>5, <2>7, <2>8 DEF UnseenIsKept, UnseenFound
<1> QED BY <1>7, <1>8, <1>9 DEF MhInv

(* A client that is gone has read nothing and does not write.               *)
LEMMA GoneKeeps ==
    ASSUME MhInv, NEW c \in MhClients, mhclient' = [mhclient EXCEPT ![c] = Mh!Shut],
           SameFolder, mhhistory' \in MhHistory, SameHistory, Wronged' => Wronged,
           mhhistory.events \subseteq mhhistory'.events,
           Mh!Quiet' => Mh!Quiet /\ mhclient[c].pc = "open"
    PROVE  MhInv'
<1>0. MhTypes /\ IdsAreGivenOnce /\ NumbersStay
  BY DEF MhInv
<1>1. /\ Mh!Shut \in MhClient /\ Mh!Shut.pc = "shut"
      /\ \A n \in Mh!Numbers : Mh!Shut.hdrs[n] = Mh!NoHeader
  BY DEF Mh!Shut, MhClient, MhHeaders, MhHeader, Mh!NoHeader, MhPlaces
<1>2. /\ mhclient' \in [MhClients -> MhClient] /\ mhclient'[c] = Mh!Shut
      /\ \A d \in MhClients \ {c} : SameClient(d)
  BY <1>0, <1>1 DEF MhTypes, SameClient
<1>3. MhTypes'
  BY <1>0, <1>2 DEF MhTypes, SameFolder
<1>4. IdsAreGivenOnce' /\ NumbersStay'
  <2>1. \A d \in MhClients \ {c} : mhclient'[d].hdrs = mhclient[d].hdrs /\ (InSync(d)' => InSync(d))
    BY <1>2 DEF SameClient, InSync
  <2>2. \A n \in Mh!Numbers : mhclient'[c].hdrs[n].id = 0 /\ ~mhclient'[c].hdrs[n].deleted
    BY <1>1, <1>2 DEF Mh!NoHeader
  <2> QED BY <1>0, <2>1, <2>2, NumbersKeep DEF SameFolder, SameHistory
<1>5. ASSUME Mh!Quiet' PROVE SequencesInHand' /\ UnseenIsKept'
  <2>0. SequencesInHand /\ UnseenIsKept /\ ~Unlinked(c)
    BY <1>5 DEF MhInv, Unlinked
  <2>1. ~Unlinked(c)' /\ \A d \in MhClients \ {c} : Unlinked(d)' <=> Unlinked(d)
    BY <1>1, <1>2 DEF Unlinked, SameClient
  <2>2. SequencesInHand'
    BY <2>0, <2>1 DEF SequencesInHand, SameFolder
  <2>3. \A s : HasUnseen(s)' <=> HasUnseen(s)
    BY DEF HasUnseen, Adding, SameHistory, SameFolder
  <2>4. mhfiles \in [Mh!Numbers -> Nat]
    BY <1>0 DEF MhTypes
  <2>5. \A d \in MhClients \ {c} : ReadOnes(d)'
    BY <2>0, <2>4, <1>2, OthersKeep DEF UnseenIsKept, UnseenFound, SameHistory, SameFolder
  <2>6. ReadOnes(c)'
    BY <1>1, <1>2 DEF ReadOnes, Mh!NoHeader
  <2>7. \A d \in MhClients : Unlinked(d)' => HasUnseen(mhclient[d].new) /\ SameClient(d)
    BY <2>0, <2>1, <1>2 DEF UnseenIsKept, UnseenFound
  <2> QED BY <2>0, <2>2, <2>3, <2>5, <2>6, <2>7
    DEF UnseenIsKept, UnseenFound, SameFolder, SameClient
<1> QED BY <1>3, <1>4, <1>5 DEF MhInv

LEMMA CloseFolderKeeps ==
    ASSUME MhInv, NEW c \in MhClients, Mh!CloseFolder(c) PROVE MhInv'
<1>1. mhhistory' \in MhHistory /\ mhhistory' = mhhistory
  BY DEF MhInv, MhTypes, Mh!CloseFolder
<1>2. SameHistory /\ (Wronged' => Wronged) /\ (Mh!Quiet' => Mh!Quiet)
  BY <1>1 DEF SameHistory, Wronged, Mh!Quiet
<1> QED BY <1>1, <1>2, GoneKeeps DEF Mh!CloseFolder, SameFolder

LEMMA CrashesKeeps ==
    ASSUME MhInv, NEW c \in MhClients, Mh!Crashes(c) PROVE MhInv'
<1>1. /\ mhhistory' \in MhHistory /\ SameHistory
      /\ mhhistory'.events = mhhistory.events \cup {"crash"} /\ ~Mh!Quiet'
  BY EventsEffect DEF MhEvents, MhInv, Mh!Crashes, SameHistory
<1>2. Wronged' => Wronged
  BY <1>1 DEF Wronged
<1> QED BY <1>1, <1>2, GoneKeeps DEF Mh!Crashes, SameFolder


(* A new message gets an id of its own and a number nobody knows.           *)
LEMMA CommitKeeps ==
    ASSUME MhInv, NEW n0 \in Mh!Numbers, Mh!_mh_commit_message(n0) PROVE MhInv'
<1>0. MhTypes /\ IdsAreGivenOnce /\ NumbersStay
  BY DEF MhInv
<1>1. PICK due \in [MhClients -> BOOLEAN] : mhclient' = Mh!Due(due)
  BY DEF Mh!_mh_commit_message
<1>2. mhclient' \in [MhClients -> MhClient] /\ \A d \in MhClients : SameClient(d)
  BY <1>0, <1>1, DueEffect DEF SameClient
<1>3. /\ mhhistory.ids \in Nat /\ mhhistory' \in MhHistory
      /\ mhhistory'.ids = mhhistory.ids + 1 /\ mhhistory'.readonce = mhhistory.readonce
      /\ mhhistory'.events = mhhistory.events
  <2>1. mhhistory \in MhHistory /\ mhhistory' = [mhhistory EXCEPT !.ids = @ + 1]
    BY <1>0 DEF MhTypes, Mh!_mh_commit_message
  <2> QED BY <2>1 DEF MhHistory
<1>4. /\ mhfiles' \in [Mh!Numbers -> Nat] /\ mhfiles'[n0] = mhhistory.ids + 1
      /\ \A n \in Mh!Numbers \ {n0} : mhfiles'[n] = mhfiles[n]
  BY <1>0, <1>3 DEF MhTypes, Mh!_mh_commit_message
<1>5. n0 \notin Mh!Files /\ n0 \notin commas
  <2>1. n0 \in Int /\ ~(n0 < n0)
    BY NumberAssumption DEF Mh!Numbers
  <2> QED BY <2>1 DEF Mh!_mh_commit_message, Mh!FreeNumber, Mh!Highest
<1>6. MhTypes'
  <2>1. n0 \in Nat
    BY NumberAssumption DEF Mh!Numbers
  <2>2. delivery' \in MhDelivery /\ delivery'.n = n0
    BY <2>1 DEF MhDelivery, Mh!Resting, Mh!_mh_commit_message
  <2> QED BY <1>0, <1>2, <1>3, <1>4, <2>2 DEF MhTypes, Mh!_mh_commit_message
<1>7. ASSUME NEW d \in MhClients PROVE IdsOf(d)'
  <2>1. ASSUME NEW n \in Mh!Numbers
        PROVE  LET h == mhclient[d].hdrs[n] IN
               /\ h.id <= mhhistory.ids + 1 /\ mhhistory.ids + 1 # h.id
               /\ h.deleted => h.id # 0
               /\ h.deleted /\ InSync(d) => mhfiles[n] # h.id \/ mhfiles[n] = 0
    <3>1. mhclient[d].hdrs[n].id \in Nat
      BY <1>0 DEF MhTypes, MhClient, MhHeaders, MhHeader
    <3>2. LET h == mhclient[d].hdrs[n] IN
               /\ h.id <= mhhistory.ids
               /\ h.deleted => h.id # 0
               /\ h.deleted /\ InSync(d) => mhfiles[n] # h.id \/ mhfiles[n] = 0
      BY <1>0 DEF IdsAreGivenOnce, IdsOf, InSync
    <3>3. mhclient[d].hdrs[n].id <= mhhistory.ids + 1 /\ mhhistory.ids + 1 # mhclient[d].hdrs[n].id
      BY <1>3, <3>1, <3>2
    <3> QED BY <3>2, <3>3
  <2> QED BY <1>2, <1>3, <1>4, <2>1 DEF IdsOf, SameClient, InSync
<1>8. IdsAreGivenOnce'
  <2>1. \A n \in Mh!Numbers : mhfiles[n] <= mhhistory.ids /\ mhfiles[n] \in Nat
    BY <1>0 DEF IdsAreGivenOnce, MhTypes
  <2>2. \A n \in Mh!Numbers : mhfiles'[n] <= mhhistory'.ids
    BY <1>3, <1>4, <2>1
  <2> QED BY <1>7, <2>2 DEF IdsAreGivenOnce
<1>9. NumbersStay'
  <2>1. \A d \in MhClients, n \in Mh!Numbers : NumberStays(d, n) => NumberStays(d, n)'
    BY <1>2, <1>4, <1>5 DEF NumberStays, SameClient, Mh!Files, Mh!_mh_commit_message
  <2> QED BY <1>0, <1>3, <2>1 DEF NumbersStay
<1>10. ASSUME Mh!Quiet' PROVE SequencesInHand' /\ UnseenIsKept'
  <2>0. SequencesInHand /\ UnseenIsKept
    BY <1>3, <1>10 DEF MhInv, Mh!Quiet
  <2>1. /\ UNCHANGED <<initialised, sequences>> /\ delivery.pc = "idle"
        /\ delivery'.pc = "numbered" /\ delivery'.n = n0
    BY DEF Mh!_mh_commit_message, Mh!Resting
  <2>2. \A d \in MhClients : (Unlinked(d)' <=> Unlinked(d)) /\ mhclient'[d].new = mhclient[d].new
    BY <1>2 DEF Unlinked, SameClient
  <2>3. SequencesInHand'
    BY <2>0, <2>1, <2>2 DEF SequencesInHand
  <2>4. \A s : HasUnseen(s) => HasUnseen(s)'
    BY <1>3, <1>4, <2>1 DEF HasUnseen, Adding
  <2>5. \A d \in MhClients : ReadOnes(d)'
    <3>1. TAKE d \in MhClients
    <3>2. Mh!Unseen(d)' = Mh!Unseen(d)
      BY <1>2 DEF Mh!Unseen, SameClient
    <3> QED BY <2>0, <2>1, <3>2, <1>2, <1>3
      DEF UnseenIsKept, UnseenFound, ReadOnes, SameClient
  <2> QED BY <2>0, <2>1, <2>2, <2>3, <2>4, <2>5 DEF UnseenIsKept, UnseenFound
<1> QED BY <1>6, <1>8, <1>9, <1>10 DEF MhInv

(* A step of the delivery that touches no message.                          *)
NumberInHand ==
    delivery'.pc # "idle" => delivery'.n = delivery.n /\ delivery.pc # "idle"
LEMMA DeliveryKeeps ==
    ASSUME MhInv, UNCHANGED <<initialised, mhfiles, commas>>,
           mhclient' \in [MhClients -> MhClient], \A d \in MhClients : SameClient(d),
           sequences' \in [there : BOOLEAN, unseen : SUBSET Mh!Numbers],
           delivery' \in MhDelivery, mhhistory' \in MhHistory, SameHistory,
           Wronged' => Wronged, mhhistory.events \subseteq mhhistory'.events,
           NumberInHand,
           Mh!Quiet' => Mh!Quiet /\ SequencesInHand' /\ UnseenFound'
    PROVE  MhInv'
<1>0. MhTypes /\ IdsAreGivenOnce /\ NumbersStay
  BY DEF MhInv
<1>1. MhTypes'
  BY <1>0 DEF MhTypes, NumberInHand
<1>2. IdsAreGivenOnce' /\ NumbersStay'
  BY <1>0, NumbersKeep DEF SameClient, InSync, SameHistory
<1>3. ASSUME Mh!Quiet' PROVE UnseenIsKept'
  <2>1. mhfiles \in [Mh!Numbers -> Nat] /\ \A d \in MhClients : ReadOnes(d)
    BY <1>0, <1>3 DEF MhTypes, MhInv, UnseenIsKept, UnseenFound
  <2>2. \A d \in MhClients : ReadOnes(d)'
    BY <2>1, OthersKeep DEF SameHistory
  <2> QED BY <1>3, <2>2 DEF UnseenIsKept
<1> QED BY <1>1, <1>2, <1>3 DEF MhInv

LEMMA ReadSequencesKeeps ==
    ASSUME MhInv, Mh!ReadSequences PROVE MhInv'
<1> USE DEF Mh!ReadSequences
<1>0. MhTypes
  BY DEF MhInv
<1>1. /\ mhhistory' \in MhHistory /\ SameHistory
      /\ mhhistory'.events \subseteq mhhistory.events \cup {"crossed"}
      /\ mhhistory.events \subseteq mhhistory'.events
      /\ Mh!Quiet' => Mh!Quiet /\ sequences.there
  BY <1>0, EventsEffect DEF MhEvents, SameHistory
<1>2. Wronged' => Wronged
  BY <1>1 DEF Wronged
<1>3. /\ delivery' \in MhDelivery /\ delivery'.pc = "read" /\ delivery'.n = delivery.n
  BY <1>0 DEF MhTypes, MhDelivery
<1>4. mhclient' \in [MhClients -> MhClient] /\ \A d \in MhClients : SameClient(d)
  BY <1>0 DEF MhTypes, SameClient
<1>5. ASSUME Mh!Quiet' PROVE Mh!Quiet /\ SequencesInHand' /\ UnseenFound'
  <2>1. SequencesInHand /\ UnseenIsKept /\ Mh!Quiet
    BY <1>1, <1>5 DEF MhInv
  <2>2. SequencesInHand'
    BY <2>1, <1>3 DEF SequencesInHand, Unlinked
  <2>3. \A s : HasUnseen(s) => HasUnseen(s)'
    BY <1>1, <1>3 DEF HasUnseen, Adding, SameHistory
  <2>4. UnseenFound'
    BY <2>1, <2>3, <1>3 DEF UnseenIsKept, UnseenFound, Unlinked
  <2> QED BY <2>1, <2>2, <2>4
<1> QED BY <1>0, <1>1, <1>2, <1>3, <1>4, <1>5, DeliveryKeeps DEF MhTypes, NumberInHand

LEMMA UnlinkSequencesKeeps ==
    ASSUME MhInv, Mh!UnlinkSequences PROVE MhInv'
<1> USE DEF Mh!UnlinkSequences
<1>0. MhTypes
  BY DEF MhInv
<1>1. /\ mhhistory' \in MhHistory /\ SameHistory
      /\ mhhistory'.events \subseteq mhhistory.events \cup {"crossed"}
      /\ mhhistory.events \subseteq mhhistory'.events
      /\ Mh!Quiet' => Mh!Quiet /\ sequences = [there |-> TRUE, unseen |-> delivery.old]
  BY <1>0, EventsEffect DEF MhEvents, SameHistory
<1>2. Wronged' => Wronged
  BY <1>1 DEF Wronged
<1>3. /\ delivery' \in MhDelivery /\ delivery'.pc = "unlinked" /\ delivery'.n = delivery.n
      /\ delivery'.old = delivery.old
  BY <1>0 DEF MhTypes, MhDelivery
<1>4. mhclient' \in [MhClients -> MhClient] /\ \A d \in MhClients : SameClient(d)
  BY <1>0 DEF MhTypes, SameClient
<1>5. ASSUME Mh!Quiet' PROVE Mh!Quiet /\ SequencesInHand' /\ UnseenFound'
  <2>1. /\ SequencesInHand /\ UnseenIsKept /\ Mh!Quiet
        /\ sequences.there /\ sequences.unseen = delivery.old
    BY <1>1, <1>5 DEF MhInv
  <2>2. SequencesInHand' /\ \A d \in MhClients : ~Unlinked(d)
    BY <2>1, <1>3 DEF SequencesInHand, Unlinked
  <2>3. HasUnseen(delivery.old)
    BY <2>1 DEF UnseenIsKept, UnseenFound
  <2>4. HasUnseen(delivery.old \cup {delivery.n})'
    BY <2>3, <1>1, <1>3 DEF HasUnseen, Adding, SameHistory
  <2>5. UnseenFound'
    BY <2>2, <2>4 DEF UnseenFound, Unlinked
  <2> QED BY <2>1, <2>2, <2>5
<1>6. sequences' \in [there : BOOLEAN, unseen : SUBSET Mh!Numbers] /\ ~sequences'.there
  OBVIOUS
<1> QED BY <1>1, <1>2, <1>3, <1>4, <1>5, <1>6, DeliveryKeeps DEF NumberInHand

LEMMA AddOneKeeps ==
    ASSUME MhInv, Mh!mh_sequences_add_one PROVE MhInv'
<1> USE DEF Mh!mh_sequences_add_one
<1>0. MhTypes
  BY DEF MhInv
<1>1. /\ mhhistory' \in MhHistory /\ SameHistory
      /\ mhhistory'.events \subseteq mhhistory.events \cup {"crossed"}
      /\ mhhistory.events \subseteq mhhistory'.events
      /\ Mh!Quiet' => Mh!Quiet /\ ~sequences.there
  BY <1>0, EventsEffect DEF MhEvents, SameHistory
<1>2. Wronged' => Wronged
  BY <1>1 DEF Wronged
<1>3. /\ delivery' \in MhDelivery /\ delivery'.pc = "idle"
  BY <1>0 DEF MhTypes, MhDelivery, Mh!Resting
<1>4. mhclient' \in [MhClients -> MhClient] /\ \A d \in MhClients : SameClient(d)
  BY <1>0, DueEffect DEF SameClient
<1>5. ASSUME Mh!Quiet' PROVE Mh!Quiet /\ SequencesInHand' /\ UnseenFound'
  <2>1. /\ SequencesInHand /\ UnseenIsKept /\ Mh!Quiet /\ ~sequences.there
    BY <1>1, <1>5 DEF MhInv
  <2>2. sequences' = [there |-> TRUE, unseen |-> delivery.old \cup {delivery.n}]
    BY <2>1 DEF Mh!safe_rename, Mh!Added
  <2>3. SequencesInHand' /\ \A d \in MhClients : ~Unlinked(d)
    BY <2>1, <2>2, <1>3, <1>4 DEF SequencesInHand, Unlinked, SameClient
  <2>4. HasUnseen(delivery.old \cup {delivery.n})
    BY <2>1 DEF UnseenIsKept, UnseenFound
  <2>5. HasUnseen(sequences.unseen)'
    BY <2>2, <2>4, <1>1 DEF HasUnseen, Adding, SameHistory
  <2>6. UnseenFound'
    BY <2>3, <2>5, <1>3, <1>4 DEF UnseenFound, Unlinked, SameClient
  <2> QED BY <2>1, <2>3, <2>6
<1>6. sequences' \in [there : BOOLEAN, unseen : SUBSET Mh!Numbers]
  <2>1. delivery.old \cup {delivery.n} \in SUBSET Mh!Numbers
    BY <1>0 DEF MhTypes, MhDelivery
  <2> QED BY <1>0, <2>1 DEF MhTypes, MhDelivery, Mh!safe_rename, Mh!Added
<1>7. UNCHANGED <<initialised, mhfiles, commas>>
  OBVIOUS
<1>8. NumberInHand
  BY <1>3 DEF NumberInHand
<1> HIDE DEF Mh!mh_sequences_add_one
<1> QED BY <1>1, <1>2, <1>3, <1>4, <1>5, <1>6, <1>7, <1>8, DeliveryKeeps

LEMMA MhStep == MhInv /\ [Mh!Next]_(Mh!mhvars) => MhInv'
<1> SUFFICES ASSUME MhInv, [Mh!Next]_(Mh!mhvars) PROVE MhInv'
  OBVIOUS
<1>1. CASE UNCHANGED Mh!mhvars
  <2>1. UNCHANGED <<initialised, mhfiles, commas, sequences, mhclient, delivery, mhhistory>>
    BY <1>1 DEF Mh!mhvars
  <2>2. MhTypes' /\ Mh!Quiet' = Mh!Quiet
    BY <2>1 DEF MhInv, MhTypes, Mh!Quiet
  <2>3. IdsAreGivenOnce' /\ NumbersStay'
    BY <2>1 DEF MhInv, IdsAreGivenOnce, IdsOf, NumbersStay, NumberStays
  <2>4. SequencesInHand => SequencesInHand'
    BY <2>1 DEF SequencesInHand, Unlinked
  <2>5. UnseenFound => UnseenFound'
    BY <2>1 DEF UnseenFound, HasUnseen, Adding, Unlinked
  <2>6. ASSUME NEW c \in MhClients, ReadOnes(c) PROVE ReadOnes(c)'
    BY <2>1, <2>6 DEF ReadOnes, Mh!Unseen
  <2>7. UnseenIsKept => UnseenIsKept'
    BY <2>5, <2>6 DEF UnseenIsKept
  <2> QED BY <2>2, <2>3, <2>4, <2>7 DEF MhInv
<1>2. ASSUME NEW c \in MhClients,
             \/ Mh!OpenFolder(c) \/ Mh!MakesSequences(c) \/ Mh!mh_check_mailbox(c)
             \/ Mh!mh_sync_mailbox(c)
             \/ Mh!mh_update_sequences(c) \/ Mh!SequencesWritten(c) \/ Mh!CloseFolder(c) \/ Mh!Crashes(c)
             \/ \E n \in Mh!Numbers : Mh!SetsFlag(c, n)
      PROVE  MhInv'
  BY <1>2, OpenFolderKeeps, MakesSequencesKeeps, CheckKeeps, SyncKeeps,
       UpdateSequencesKeeps,
     SequencesWrittenKeeps, CloseFolderKeeps, CrashesKeeps, SetsFlagKeeps
<1>3. CASE \E n \in Mh!Numbers : Mh!_mh_commit_message(n)
  BY <1>3, CommitKeeps
<1>4. CASE Mh!ReadSequences \/ Mh!UnlinkSequences \/ Mh!mh_sequences_add_one
  BY <1>4, ReadSequencesKeeps, UnlinkSequencesKeeps, AddOneKeeps
<1> QED BY <1>1, <1>2, <1>3, <1>4 DEF Mh!Next

(* MH folders: what nobody read stays unseen, and only what was marked is   *)
(* deleted, for any clients and numbers.                                    *)
THEOREM MhFolderHolds == Mh!Spec => [](Mh!UnseenStaysUnseen /\ Mh!DeletesWhatWasMarked)
<1>1. MhInv => Mh!UnseenStaysUnseen /\ Mh!DeletesWhatWasMarked
  <2> SUFFICES ASSUME MhInv PROVE Mh!UnseenStaysUnseen /\ Mh!DeletesWhatWasMarked
    OBVIOUS
  <2>1. Mh!DeletesWhatWasMarked
    BY DEF MhInv, NumbersStay, Mh!DeletesWhatWasMarked
  <2>2. ASSUME Mh!Quiet, Mh!Settled PROVE \A n \in Mh!Files : mhfiles[n] \notin mhhistory.readonce => n \in sequences.unseen
    <3>1. SequencesInHand /\ UnseenIsKept
      BY <2>2 DEF MhInv
    <3>2. sequences.there /\ delivery.pc = "idle"
      BY <2>2, <3>1 DEF SequencesInHand, Unlinked, Mh!Settled
    <3> QED BY <3>1, <3>2 DEF UnseenIsKept, UnseenFound, HasUnseen, Adding, Mh!Files
  <2> QED BY <2>1, <2>2 DEF Mh!UnseenStaysUnseen
<1> QED BY <1>1, MhStarts, MhStep, PTL DEF Mh!Spec

-----------------------------------------------------------------------------
(* The class Maildir.                                                       *)


(* What a client may have listed, and what its record may hold.             *)
PikeEntry == [msg : PikeMails, name : Script!Names]
PikeClient == [pc : Script!Places, msg : SUBSET PikeMails, name : Script!Names,
           todo : SUBSET (PikeEntry \cup PikeMails \cup {"T"}), call : {"none", "+T", "-T"}]
PikeHistory == [delivered : SUBSET PikeMails, purged : SUBSET PikeMails,
            moved : SUBSET PikeMails, crossed : SUBSET PikeMails,
            short : SUBSET PikeMails, flagged : [PikeMails -> {"none", "+T", "-T"}],
            calls : Int]
PikeTypes ==
    /\ piketmp \subseteq PikeMails
    /\ pikemails \in [PikeMails -> [dir : {"none", "new", "cur"}, name : Script!Names]]
    /\ pikeclients \in [PikeClients -> PikeClient]
    /\ pikeknown \in [PikeClients -> SUBSET PikeMails]
    /\ pikehistory \in PikeHistory

Delivering(c, m) ==
    pikeclients[c].pc \in {"written", "linked", "renamed"} /\ m \in pikeclients[c].msg
(* A client at work on a message is at work on one, and what it has listed  *)
(* is of the kind its next step looks for.                                  *)
OnOne(r) ==
    /\ r.pc \in {"written", "linked", "renamed", "flags", "mv", "read"}
         => \E m \in PikeMails : r.msg = {m}
    /\ r.pc \in {"new_to_cur", "rm"} => r.todo \subseteq PikeEntry
    /\ r.pc = "filter" => r.todo \subseteq PikeMails
    /\ r.pc \in {"flags", "mv"} => r.call \in {"+T", "-T"}
    /\ r.pc = "mv" => r.todo \subseteq {"T"} /\ ("T" \in r.todo <=> r.call = "+T")
    /\ r.pc = "rm" => \A e \in r.todo : "T" \in e.name.flags
WorkIsOnOne == \A c \in PikeClients : OnOne(pikeclients[c])
(* A message is delivered by one client, which keeps its file in tmp/.      *)
DeliveriesApart ==
    /\ \A c, d \in PikeClients, m \in PikeMails :
          Delivering(c, m) /\ Delivering(d, m) => c = d
    /\ \A c \in PikeClients, m \in PikeMails : Delivering(c, m) =>
          m \in piketmp /\ m \notin pikehistory.delivered
    /\ \A m \in piketmp : m \in pikehistory.short \/ \E c \in PikeClients : Delivering(c, m)
(* Where the file of a message is, by what has happened to the message.     *)
FileFollows(m) ==
        /\ \A c \in PikeClients : Delivering(c, m) =>
             IF pikeclients[c].pc = "written"
             THEN /\ pikemails[m] = Script!Nowhere /\ m \notin pikehistory.purged
                  /\ pikehistory.flagged[m] = "none"
             ELSE pikemails[m].dir # "none" \/ m \in pikehistory.purged
        /\ pikemails[m].dir = "none" => pikemails[m] = Script!Nowhere
        /\ pikemails[m].dir = "new" =>
             /\ pikemails[m].name.flags = {} /\ pikehistory.flagged[m] = "none"
             /\ pikemails[m].name = Script!Bare =>
                  \E c \in PikeClients : Delivering(c, m) /\ pikeclients[c].pc = "linked"
        /\ pikemails[m].dir = "cur" /\ pikemails[m].name = Script!Bare => m \in pikehistory.moved
        /\ ~pikemails[m].name.sized /\ pikehistory.flagged[m] # "none" => m \in pikehistory.purged
        /\ pikemails[m].name.sized =>
             (pikehistory.flagged[m] = "+T" <=> "T" \in pikemails[m].name.flags)
        /\ m \in pikehistory.purged =>
             /\ pikemails[m] = Script!Nowhere /\ pikehistory.flagged[m] = "+T"
             /\ m \in piketmp \cup pikehistory.delivered
        /\ m \in pikehistory.delivered =>
             pikemails[m].dir # "none" \/ m \in pikehistory.purged
        /\ pikemails[m].dir # "none" => m \in piketmp \cup pikehistory.delivered
FilesFollowHistory == \A m \in PikeMails : FileFollows(m)

PikeInv == PikeTypes /\ WorkIsOnOne /\ DeliveriesApart /\ FilesFollowHistory


LEMMA PikeStarts == Script!Init => PikeInv
<1> SUFFICES ASSUME Script!Init PROVE PikeInv
  OBVIOUS
<1> USE DEF Script!Init, Script!Nowhere, Script!Idle, Script!Bare, Script!Names
<1>1. PikeTypes
  BY DEF PikeTypes, PikeClient, PikeHistory, Script!Places
<1>2. WorkIsOnOne
  BY DEF WorkIsOnOne, OnOne
<1>3. DeliveriesApart
  BY DEF DeliveriesApart, Delivering
<1>4. FilesFollowHistory
  BY DEF FilesFollowHistory, FileFollows, Delivering
<1> QED BY <1>1, <1>2, <1>3, <1>4 DEF PikeInv

(* What a step of one client does to the clients.                           *)
LEMMA GoesEffect ==
    ASSUME PikeTypes, WorkIsOnOne, NEW c \in PikeClients, NEW r \in PikeClient, OnOne(r), Script!Goes(c, r)
    PROVE  /\ pikeclients' \in [PikeClients -> PikeClient]
           /\ pikeclients'[c] = r
           /\ \A d \in PikeClients \ {c} : pikeclients'[d] = pikeclients[d]
           /\ WorkIsOnOne'
<1>1. /\ pikeclients' \in [PikeClients -> PikeClient] /\ pikeclients'[c] = r
      /\ \A d \in PikeClients \ {c} : pikeclients'[d] = pikeclients[d]
  BY DEF PikeTypes, Script!Goes
<1>2. \A d \in PikeClients : OnOne(pikeclients'[d])
  BY <1>1 DEF WorkIsOnOne
<1> QED BY <1>1, <1>2 DEF WorkIsOnOne

LEMMA ItsMessage ==
    ASSUME PikeTypes, WorkIsOnOne, NEW c \in PikeClients,
           pikeclients[c].pc \in {"written", "linked", "renamed", "flags", "mv", "read"}
    PROVE  Script!Its(c) \in PikeMails /\ pikeclients[c].msg = {Script!Its(c)}
<1>1. PICK m \in PikeMails : pikeclients[c].msg = {m}
  BY DEF WorkIsOnOne, OnOne
<1> QED BY <1>1 DEF Script!Its

LEMMA IdleIsClient == Script!Idle \in PikeClient /\ Script!Bare \in Script!Names /\ OnOne(Script!Idle)
BY DEF Script!Idle, PikeClient, Script!Bare, Script!Names, Script!Places, OnOne

(* A client that is at no delivery before a step nor behind it, and changes *)
(* no file, leaves the deliveries and the files as they were.               *)
Apart(p) == p \notin {"written", "linked", "renamed"}
SameFiles ==
    /\ UNCHANGED <<piketmp, pikemails>> /\ pikehistory' \in PikeHistory
    /\ pikehistory'.delivered = pikehistory.delivered
    /\ pikehistory'.purged = pikehistory.purged
    /\ pikehistory'.moved = pikehistory.moved
    /\ pikehistory'.short = pikehistory.short
    /\ pikehistory'.flagged = pikehistory.flagged
LEMMA SameDeliveries ==
    ASSUME PikeTypes, NEW c \in PikeClients, Apart(pikeclients[c].pc), Apart(pikeclients'[c].pc),
           \A d \in PikeClients \ {c} : pikeclients'[d] = pikeclients[d]
    PROVE  \A d \in PikeClients : \A m :
              /\ Delivering(d, m)' <=> Delivering(d, m)
              /\ Delivering(d, m) => pikeclients'[d].pc = pikeclients[d].pc
BY DEF Delivering, Apart
LEMMA QuietStep ==
    ASSUME PikeInv, NEW c \in PikeClients, NEW r \in PikeClient, OnOne(r), Script!Goes(c, r),
           Apart(pikeclients[c].pc), Apart(r.pc), SameFiles,
           pikeknown' \in [PikeClients -> SUBSET PikeMails]
    PROVE  PikeInv'
<1>0. PikeTypes /\ WorkIsOnOne /\ DeliveriesApart /\ FilesFollowHistory
  BY DEF PikeInv
<1>1. /\ pikeclients' \in [PikeClients -> PikeClient] /\ pikeclients'[c] = r
      /\ \A d \in PikeClients \ {c} : pikeclients'[d] = pikeclients[d]
      /\ WorkIsOnOne'
  BY <1>0, GoesEffect
<1>2. PikeTypes'
  BY <1>0, <1>1 DEF PikeTypes, SameFiles
<1>3. \A d \in PikeClients : \A m :
      /\ Delivering(d, m)' <=> Delivering(d, m)
      /\ Delivering(d, m) => pikeclients'[d].pc = pikeclients[d].pc
  BY <1>0, <1>1, SameDeliveries
<1>4. DeliveriesApart'
  BY <1>0, <1>3 DEF DeliveriesApart, SameFiles
<1>5. FilesFollowHistory'
  BY <1>0, <1>3 DEF FilesFollowHistory, FileFollows, SameFiles, Script!Nowhere
<1> QED BY <1>1, <1>2, <1>4, <1>5 DEF PikeInv

LEMMA ListKept ==
    ASSUME PikeInv, NEW c \in PikeClients, Script!list(c)
    PROVE  PikeInv'
<1>0. PikeTypes /\ WorkIsOnOne /\ DeliveriesApart /\ FilesFollowHistory
  BY DEF PikeInv
<1> DEFINE r == [Script!Idle EXCEPT !.pc = "new_to_cur", !.todo = {Script!Named(m) : m \in Script!In("new")}]
<1>1. \A m \in PikeMails : Script!Named(m) \in PikeEntry
  BY <1>0 DEF PikeTypes, Script!Named, PikeEntry
<1>2. r.todo \subseteq PikeEntry
  BY <1>1 DEF Script!In, Script!Idle
<1>3. r \in PikeClient /\ OnOne(r) /\ Apart(r.pc)
  BY <1>2, IdleIsClient DEF PikeClient, OnOne, Script!Idle, Script!Places, Apart
<1>4. Script!Goes(c, r) /\ Apart(pikeclients[c].pc)
  BY DEF Script!list, Script!Calls, Script!At, Apart
<1>5. SameFiles /\ pikeknown' \in [PikeClients -> SUBSET PikeMails]
  BY <1>0 DEF Script!list, Script!Calls, Script!Same, SameFiles, PikeTypes, PikeHistory
<1> QED BY <1>3, <1>4, <1>5, QuietStep
LEMMA ListCurKept ==
    ASSUME PikeInv, NEW c \in PikeClients, Script!list_cur(c)
    PROVE  PikeInv'
<1>0. PikeTypes /\ WorkIsOnOne /\ DeliveriesApart /\ FilesFollowHistory
  BY DEF PikeInv
<1> DEFINE r == [Script!Idle EXCEPT !.pc = "filter", !.todo = Script!In("cur")]
<1>1. Script!In("cur") \in SUBSET PikeMails
  BY DEF Script!In
<1>2. r \in PikeClient /\ OnOne(r) /\ Apart(r.pc)
  BY <1>1, IdleIsClient DEF PikeClient, OnOne, Script!Idle, Script!Places, Apart
<1>3. Script!Idle \in PikeClient /\ OnOne(Script!Idle) /\ Apart(Script!Idle.pc)
  BY IdleIsClient DEF Script!Idle, Apart
<1>4. (Script!Goes(c, r) \/ Script!Goes(c, Script!Idle)) /\ Apart(pikeclients[c].pc)
  BY DEF Script!list_cur, Script!At, Apart, Script!Done
<1>5. SameFiles /\ pikeknown' \in [PikeClients -> SUBSET PikeMails]
  BY <1>0, <1>1 DEF Script!list_cur, SameFiles, PikeTypes
<1> HIDE DEF r
<1> QED BY <1>2, <1>3, <1>4, <1>5, QuietStep
LEMMA FilterKept ==
    ASSUME PikeInv, NEW c \in PikeClients, Script!list_filter(c)
    PROVE  PikeInv'
<1>0. PikeTypes /\ WorkIsOnOne /\ DeliveriesApart /\ FilesFollowHistory
  BY DEF PikeInv
<1>1. Apart(pikeclients[c].pc) /\ pikeclients[c].pc = "filter"
  BY DEF Script!list_filter, Script!At, Apart
<1>5. pikeclients[c].todo \subseteq PikeMails
  BY <1>0, <1>1 DEF WorkIsOnOne, OnOne
<1>2. SameFiles /\ pikeknown' \in [PikeClients -> SUBSET PikeMails]
  <2>1. ASSUME NEW m \in PikeMails
        PROVE  [pikeknown EXCEPT ![c] = @ \cup {m}] \in [PikeClients -> SUBSET PikeMails]
    BY <1>0 DEF PikeTypes
  <2>2. pikeknown' = pikeknown
        \/ \E m \in PikeMails : pikeknown' = [pikeknown EXCEPT ![c] = @ \cup {m}]
    BY <1>5 DEF Script!list_filter
  <2>3. pikeknown' \in [PikeClients -> SUBSET PikeMails]
    BY <1>0, <2>1, <2>2 DEF PikeTypes
  <2> QED BY <1>0, <2>3 DEF Script!list_filter, SameFiles, PikeTypes
<1>3. ASSUME NEW m \in PikeMails
      PROVE  LET r == [pikeclients[c] EXCEPT !.todo = @ \ {m}]
             IN r \in PikeClient /\ OnOne(r) /\ Apart(r.pc)
  BY <1>0, <1>1 DEF PikeTypes, WorkIsOnOne, PikeClient, OnOne, Apart
<1>4. Script!Idle \in PikeClient /\ OnOne(Script!Idle) /\ Apart(Script!Idle.pc)
  BY IdleIsClient DEF Script!Idle, Apart
<1>6. CASE Script!Goes(c, Script!Idle)
  BY <1>1, <1>2, <1>4, <1>6, QuietStep
<1>7. CASE ~Script!Goes(c, Script!Idle)
  <2>1. PICK m \in PikeMails : Script!Goes(c, [pikeclients[c] EXCEPT !.todo = @ \ {m}])
    BY <1>5, <1>7 DEF Script!list_filter, Script!Done
  <2> QED BY <1>1, <1>2, <1>3, <2>1, QuietStep
<1> QED BY <1>6, <1>7
LEMMA SetFlagsKept ==
    ASSUME PikeInv, NEW c \in PikeClients, NEW m \in PikeMails, NEW op \in {"+T", "-T"}, Script!set_flags(c, m, op)
    PROVE  PikeInv'
<1>0. PikeTypes /\ WorkIsOnOne /\ DeliveriesApart /\ FilesFollowHistory
  BY DEF PikeInv
<1> DEFINE n == CHOOSE k \in Script!get_filename(m) : TRUE
<1> DEFINE r == [pc |-> "flags", msg |-> {m}, name |-> n, todo |-> {}, call |-> op]
<1>1. n \in Script!Names
  BY <1>0 DEF Script!set_flags, Script!get_filename, PikeTypes
<1>2. r \in PikeClient /\ OnOne(r) /\ Apart(r.pc)
  BY <1>1 DEF PikeClient, OnOne, Script!Places, Apart
<1>3. Script!Goes(c, r) /\ Apart(pikeclients[c].pc)
  BY DEF Script!set_flags, Script!Calls, Script!At, Apart
<1>4. SameFiles /\ pikeknown' \in [PikeClients -> SUBSET PikeMails]
  BY <1>0 DEF Script!set_flags, Script!Calls, Script!Same, SameFiles, PikeTypes, PikeHistory
<1> QED BY <1>2, <1>3, <1>4, QuietStep
LEMMA SetReadKept ==
    ASSUME PikeInv, NEW c \in PikeClients, Script!set_flags_read(c)
    PROVE  PikeInv'
<1>0. PikeTypes /\ WorkIsOnOne /\ DeliveriesApart /\ FilesFollowHistory
  BY DEF PikeInv
<1>1. Apart(pikeclients[c].pc) /\ pikeclients[c].pc = "flags"
  BY DEF Script!set_flags_read, Script!At, Apart
<1>2. SameFiles /\ pikeknown' \in [PikeClients -> SUBSET PikeMails]
  BY <1>0 DEF Script!set_flags_read, Script!Same, SameFiles, PikeTypes
<1>3. Script!Idle \in PikeClient /\ OnOne(Script!Idle) /\ Apart(Script!Idle.pc)
  BY IdleIsClient DEF Script!Idle, Apart
<1>4. Script!Its(c) \in PikeMails
  BY <1>0, <1>1, ItsMessage
<1>5. CASE Script!Goes(c, Script!Idle)
  BY <1>1, <1>2, <1>3, <1>5, QuietStep
<1>6. CASE ~Script!Goes(c, Script!Idle)
  <2> DEFINE current == CHOOSE f \in Script!get_flags(Script!Its(c)) : TRUE
             wanted == IF pikeclients[c].call = "+T" THEN current \cup {"T"} ELSE current \ {"T"}
             r == [pikeclients[c] EXCEPT !.pc = "mv", !.todo = wanted]
  <2>1. Script!get_flags(Script!Its(c)) # {} /\ Script!Goes(c, r)
    BY <1>6 DEF Script!set_flags_read, Script!Done
  <2>2. Script!get_flags(Script!Its(c)) \subseteq SUBSET {"T"}
    <3>1. \A n \in Script!Names : n.flags \in SUBSET {"T"}
      <4> SUFFICES ASSUME NEW n \in Script!Names PROVE n.flags \in SUBSET {"T"}
        OBVIOUS
      <4>1. n = Script!Bare \/ \E f \in SUBSET {"T"} : n = Script!Sized(f)
        BY DEF Script!Names
      <4>2. ASSUME NEW f \in SUBSET {"T"}, n = Script!Sized(f) PROVE n.flags \in SUBSET {"T"}
        BY <4>2 DEF Script!Sized
      <4>3. CASE n = Script!Bare
        BY <4>3 DEF Script!Bare
      <4> QED BY <4>1, <4>2, <4>3
    <3>2. Script!get_filename(Script!Its(c)) \subseteq Script!Names
      BY <1>0, <1>4 DEF Script!get_filename, PikeTypes
    <3> QED BY <3>1, <3>2 DEF Script!get_flags
  <2>3. current \in SUBSET {"T"}
    BY <2>1, <2>2
  <2>4. pikeclients[c] \in PikeClient /\ OnOne(pikeclients[c])
    BY <1>0 DEF PikeTypes, WorkIsOnOne
  <2>5. wanted \subseteq {"T"} /\ ("T" \in wanted <=> pikeclients[c].call = "+T")
    BY <2>3
  <2> HIDE DEF wanted
  <2>6. r \in PikeClient
    BY <2>4, <2>5 DEF PikeClient, Script!Places
  <2>7. OnOne(r) /\ Apart(r.pc)
    BY <2>4, <2>5, <1>1 DEF OnOne, Apart, PikeClient
  <2> QED BY <1>1, <1>2, <2>1, <2>6, <2>7, QuietStep
<1> QED BY <1>5, <1>6
LEMMA GetKept ==
    ASSUME PikeInv, NEW c \in PikeClients, NEW m \in PikeMails, Script!get_message(c, m)
    PROVE  PikeInv'
<1>0. PikeTypes /\ WorkIsOnOne /\ DeliveriesApart /\ FilesFollowHistory
  BY DEF PikeInv
<1> DEFINE n == CHOOSE k \in Script!get_filename(m) : TRUE
<1> DEFINE r == [Script!Idle EXCEPT !.pc = "read", !.msg = {m}, !.name = n]
<1>1. n \in Script!Names
  BY <1>0 DEF Script!get_message, Script!get_filename, PikeTypes
<1>2. r \in PikeClient /\ OnOne(r) /\ Apart(r.pc)
  BY <1>1, IdleIsClient DEF PikeClient, OnOne, Script!Places, Apart, Script!Idle
<1>3. Script!Goes(c, r) /\ Apart(pikeclients[c].pc)
  BY DEF Script!get_message, Script!Calls, Script!At, Apart
<1>4. SameFiles /\ pikeknown' \in [PikeClients -> SUBSET PikeMails]
  BY <1>0
  DEF Script!get_message, Script!Calls, Script!Same, SameFiles, PikeTypes, PikeHistory
<1> QED BY <1>2, <1>3, <1>4, QuietStep
LEMMA GetOpenKept ==
    ASSUME PikeInv, NEW c \in PikeClients, Script!get_message_open(c)
    PROVE  PikeInv'
<1>0. PikeTypes /\ WorkIsOnOne /\ DeliveriesApart /\ FilesFollowHistory
  BY DEF PikeInv
<1>1. Script!Goes(c, Script!Idle) /\ Apart(pikeclients[c].pc)
  BY DEF Script!get_message_open, Script!Done, Script!At, Apart
<1>2. SameFiles /\ pikeknown' \in [PikeClients -> SUBSET PikeMails]
  BY <1>0 DEF Script!get_message_open, Script!Same, SameFiles, PikeTypes
<1>3. Script!Idle \in PikeClient /\ OnOne(Script!Idle) /\ Apart(Script!Idle.pc)
  BY IdleIsClient DEF Script!Idle, Apart
<1> QED BY <1>1, <1>2, <1>3, QuietStep
LEMMA PurgeKept ==
    ASSUME PikeInv, NEW c \in PikeClients, Script!purge_trashed(c)
    PROVE  PikeInv'
<1>0. PikeTypes /\ WorkIsOnOne /\ DeliveriesApart /\ FilesFollowHistory
  BY DEF PikeInv
<1> DEFINE trashed == {k \in Script!In("cur") : "T" \in pikemails[k].name.flags}
           r == [Script!Idle EXCEPT !.pc = "rm", !.todo = {Script!Named(m) : m \in trashed}]
<1>1. \A m \in trashed : Script!Named(m) \in PikeEntry /\ "T" \in Script!Named(m).name.flags
  BY <1>0 DEF PikeTypes, Script!Named, PikeEntry, Script!In
<1> HIDE DEF trashed
<1>2. r.todo \subseteq PikeEntry /\ \A e \in r.todo : "T" \in e.name.flags
  BY <1>1 DEF Script!Idle
<1>3. r \in PikeClient /\ OnOne(r) /\ Apart(r.pc)
  BY <1>2, IdleIsClient DEF PikeClient, OnOne, Script!Idle, Script!Places, Apart
<1>4. Script!Goes(c, r) /\ Apart(pikeclients[c].pc)
  BY DEF Script!purge_trashed, Script!Calls, Script!At, Apart, trashed
<1>5. SameFiles /\ pikeknown' \in [PikeClients -> SUBSET PikeMails]
  BY <1>0
  DEF Script!purge_trashed, Script!Calls, Script!Same, SameFiles, PikeTypes, PikeHistory
<1> QED BY <1>3, <1>4, <1>5, QuietStep
LEMMA NewToCurKept ==
    ASSUME PikeInv, NEW c \in PikeClients, Script!new_to_cur(c)
    PROVE  PikeInv'
<1>0. PikeTypes /\ WorkIsOnOne /\ DeliveriesApart /\ FilesFollowHistory
  BY DEF PikeInv
<1>1. PICK e \in pikeclients[c].todo :
        /\ Script!Goes(c, [pikeclients[c] EXCEPT !.todo = @ \ {e}])
        /\ UNCHANGED <<piketmp, pikeknown>>
        /\ IF pikemails[e.msg] = [dir |-> "new", name |-> e.name]
           THEN /\ pikemails' = [pikemails EXCEPT ![e.msg].dir = "cur"]
                /\ pikehistory' = [pikehistory EXCEPT !.moved =
                       IF e.name = Script!Bare THEN @ \cup {e.msg} ELSE @]
           ELSE UNCHANGED <<pikemails, pikehistory>>
  BY DEF Script!new_to_cur
<1> DEFINE r == [pikeclients[c] EXCEPT !.todo = @ \ {e}]
<1>2. pikeclients[c].pc = "new_to_cur" /\ e \in PikeEntry
  BY <1>0 DEF Script!new_to_cur, Script!At, WorkIsOnOne, OnOne
<1>r. /\ r \in PikeClient /\ OnOne(r) /\ Apart(r.pc) /\ Apart(pikeclients[c].pc)
      /\ Script!Goes(c, r)
  BY <1>0, <1>1, <1>2 DEF PikeTypes, WorkIsOnOne, PikeClient, OnOne, Apart
<1>q. CASE pikemails[e.msg] # [dir |-> "new", name |-> e.name]
  BY <1>r, <1>q, <1>0, <1>1, QuietStep DEF SameFiles, PikeTypes
<1>n. CASE pikemails[e.msg] = [dir |-> "new", name |-> e.name]
  <2> DEFINE m0 == e.msg
  <2>1. m0 \in PikeMails
    BY <1>2 DEF PikeEntry
  <2> HIDE DEF r
<2>e. /\ pikeclients' \in [PikeClients -> PikeClient] /\ pikeclients'[c] = r
      /\ \A d \in PikeClients \ {c} : pikeclients'[d] = pikeclients[d]
      /\ WorkIsOnOne'
  BY <1>0, <1>r, GoesEffect
<2>d. \A d \in PikeClients : \A m :
      /\ Delivering(d, m)' <=> Delivering(d, m)
      /\ Delivering(d, m) => pikeclients'[d].pc = pikeclients[d].pc
  BY <1>0, <2>e, <1>r, SameDeliveries
  <2>2. /\ pikemails'[m0] = [dir |-> "cur", name |-> pikemails[m0].name]
        /\ \A m \in PikeMails \ {m0} : pikemails'[m] = pikemails[m]
        /\ pikemails' \in [PikeMails -> [dir : {"none", "new", "cur"}, name : Script!Names]]
    BY <1>0, <1>1, <1>n, <2>1 DEF PikeTypes
  <2>3. /\ pikehistory' \in PikeHistory /\ UNCHANGED <<piketmp, pikeknown>>
        /\ pikehistory'.delivered = pikehistory.delivered
        /\ pikehistory'.purged = pikehistory.purged
        /\ pikehistory'.short = pikehistory.short
        /\ pikehistory'.flagged = pikehistory.flagged
        /\ pikehistory.moved \subseteq pikehistory'.moved
        /\ pikemails[m0].name = Script!Bare => m0 \in pikehistory'.moved
    BY <1>0, <1>1, <1>n, <2>1 DEF PikeTypes, PikeHistory
  <2>4. PikeTypes'
    BY <1>0, <2>e, <2>2, <2>3 DEF PikeTypes
  <2>5. DeliveriesApart'
    BY <1>0, <2>d, <2>3 DEF DeliveriesApart
  <2>6. pikemails[m0].dir = "new"
    BY <1>n
  <2>7. FilesFollowHistory'
    <3> SUFFICES ASSUME NEW m \in PikeMails PROVE FileFollows(m)'
      BY DEF FilesFollowHistory
    <3>1. FileFollows(m)
      BY <1>0 DEF FilesFollowHistory
    <3>2. CASE m # m0
      BY <3>1, <3>2, <2>2, <2>3, <2>d DEF FileFollows, Script!Nowhere
    <3>3. CASE m = m0
      BY <3>1, <3>3, <2>1, <2>2, <2>3, <2>6, <2>d DEF FileFollows, Script!Nowhere
    <3> QED BY <3>2, <3>3
  <2> QED BY <2>e, <2>4, <2>5, <2>7 DEF PikeInv
<1> QED BY <1>q, <1>n

LEMMA SetMvKept ==
    ASSUME PikeInv, NEW c \in PikeClients, Script!set_flags_mv(c)
    PROVE  PikeInv'
<1>0. PikeTypes /\ WorkIsOnOne /\ DeliveriesApart /\ FilesFollowHistory
  BY DEF PikeInv
<1> DEFINE r == Script!Idle
           m0 == Script!Its(c)
           wanted == pikeclients[c].todo
           op == pikeclients[c].call
<1>r. r \in PikeClient /\ OnOne(r) /\ Apart(r.pc) /\ Apart(pikeclients[c].pc) /\ Script!Goes(c, r)
  BY IdleIsClient DEF Script!set_flags_mv, Script!At, Script!Done, Apart, Script!Idle
<1>1. m0 \in PikeMails
  BY <1>0, ItsMessage DEF Script!set_flags_mv, Script!At
<1>2. wanted \subseteq {"T"} /\ op \in {"+T", "-T"} /\ ("T" \in wanted <=> op = "+T")
  BY <1>0 DEF Script!set_flags_mv, Script!At, WorkIsOnOne, OnOne
<1>q. CASE ~Script!StillNamed(c)
  <2>1. pikehistory' = [pikehistory EXCEPT !.crossed = @ \cup {m0}]
    BY <1>q DEF Script!set_flags_mv
  <2>2. SameFiles
    BY <1>0, <1>1, <1>q, <2>1 DEF Script!set_flags_mv, SameFiles, PikeTypes, PikeHistory
  <2>3. pikeknown' \in [PikeClients -> SUBSET PikeMails]
    BY <1>0 DEF Script!set_flags_mv, PikeTypes
  <2> QED BY <1>r, <2>2, <2>3, QuietStep
<1>n. CASE Script!StillNamed(c)
  <2>6. pikemails[m0].dir = "cur"
    BY <1>n DEF Script!StillNamed
  <2> HIDE DEF r, m0, wanted, op
<2>e. /\ pikeclients' \in [PikeClients -> PikeClient] /\ pikeclients'[c] = r
      /\ \A d \in PikeClients \ {c} : pikeclients'[d] = pikeclients[d]
      /\ WorkIsOnOne'
  BY <1>0, <1>r, GoesEffect
<2>d. \A d \in PikeClients : \A m :
      /\ Delivering(d, m)' <=> Delivering(d, m)
      /\ Delivering(d, m) => pikeclients'[d].pc = pikeclients[d].pc
  BY <1>0, <2>e, <1>r, SameDeliveries
  <2>2. /\ pikemails'[m0] = [dir |-> "cur", name |-> Script!Sized(wanted)]
        /\ \A m \in PikeMails \ {m0} : pikemails'[m] = pikemails[m]
        /\ pikemails' \in [PikeMails -> [dir : {"none", "new", "cur"}, name : Script!Names]]
    <3>1. Script!Sized(wanted) \in Script!Names
      BY <1>2 DEF Script!Names
    <3>2. pikemails' = [pikemails EXCEPT ![m0].name = Script!Sized(wanted)]
      BY <1>n DEF Script!set_flags_mv, m0, wanted
    <3> QED BY <1>0, <1>1, <2>6, <3>1, <3>2 DEF PikeTypes
  <2>3. /\ pikehistory' \in PikeHistory /\ UNCHANGED <<piketmp, pikeknown>>
        /\ pikehistory'.delivered = pikehistory.delivered
        /\ pikehistory'.purged = pikehistory.purged
        /\ pikehistory'.short = pikehistory.short
        /\ pikehistory'.moved = pikehistory.moved
        /\ pikehistory'.flagged[m0] = op
        /\ \A m \in PikeMails \ {m0} : pikehistory'.flagged[m] = pikehistory.flagged[m]
    <3>1. pikehistory' = [pikehistory EXCEPT !.flagged[m0] = op]
      BY <1>n DEF Script!set_flags_mv, m0, op
    <3>2. UNCHANGED <<piketmp, pikeknown>>
      BY DEF Script!set_flags_mv
    <3> QED BY <1>0, <1>1, <1>2, <3>1, <3>2 DEF PikeTypes, PikeHistory
  <2>4. PikeTypes'
    BY <1>0, <2>e, <2>2, <2>3 DEF PikeTypes
  <2>5. DeliveriesApart'
    BY <1>0, <2>d, <2>3 DEF DeliveriesApart
  <2>7. FilesFollowHistory'
    <3> SUFFICES ASSUME NEW m \in PikeMails PROVE FileFollows(m)'
      BY DEF FilesFollowHistory
    <3>1. FileFollows(m)
      BY <1>0 DEF FilesFollowHistory
    <3>2. CASE m # m0
      BY <3>1, <3>2, <2>2, <2>3, <2>d DEF FileFollows, Script!Nowhere
    <3>3. CASE m = m0
      BY <3>1, <3>3, <1>1, <1>2, <2>2, <2>3, <2>6, <2>d
      DEF FileFollows, Script!Nowhere, Script!Sized, Script!Bare
    <3> QED BY <3>2, <3>3
  <2> QED BY <2>e, <2>4, <2>5, <2>7 DEF PikeInv
<1> QED BY <1>q, <1>n

LEMMA PurgeRmKept ==
    ASSUME PikeInv, NEW c \in PikeClients, Script!purge_rm(c)
    PROVE  PikeInv'
<1>0. PikeTypes /\ WorkIsOnOne /\ DeliveriesApart /\ FilesFollowHistory
  BY DEF PikeInv
<1>2. pikeclients[c].pc = "rm" /\ \A e \in pikeclients[c].todo : e \in PikeEntry /\ "T" \in e.name.flags
  BY <1>0 DEF Script!purge_rm, Script!At, WorkIsOnOne, OnOne
<1>i. CASE Script!Goes(c, Script!Idle) /\ UNCHANGED <<piketmp, pikeknown, pikemails, pikehistory>>
  BY <1>0, <1>2, <1>i, IdleIsClient, QuietStep DEF Apart, Script!Idle, SameFiles, PikeTypes
<1>k. CASE ~(Script!Goes(c, Script!Idle) /\ UNCHANGED <<piketmp, pikeknown, pikemails, pikehistory>>)
  <2>p. PICK e \in pikeclients[c].todo :
          /\ Script!Goes(c, [pikeclients[c] EXCEPT !.todo = @ \ {e}])
          /\ UNCHANGED <<piketmp, pikeknown>>
          /\ IF Script!Removes(e)
             THEN /\ pikemails' = [pikemails EXCEPT ![e.msg] = Script!Nowhere]
                  /\ pikehistory' = [pikehistory EXCEPT !.purged = @ \cup {e.msg}]
             ELSE UNCHANGED <<pikemails, pikehistory>>
    BY <1>k DEF Script!purge_rm, Script!Done
  <2> DEFINE r == [pikeclients[c] EXCEPT !.todo = @ \ {e}]
             m0 == e.msg
  <2>r. /\ r \in PikeClient /\ OnOne(r) /\ Apart(r.pc) /\ Apart(pikeclients[c].pc)
        /\ Script!Goes(c, r)
    BY <1>0, <2>p, <1>2 DEF PikeTypes, WorkIsOnOne, PikeClient, OnOne, Apart
  <2>q. CASE ~Script!Removes(e)
    BY <2>r, <2>q, <1>0, <2>p, QuietStep DEF SameFiles, PikeTypes
  <2>n. CASE Script!Removes(e)
    <3>1. m0 \in PikeMails
      BY <1>2 DEF PikeEntry
    <3>6. pikemails[m0].dir = "cur" /\ "T" \in pikemails[m0].name.flags
      BY <2>n, <1>2 DEF Script!Removes
    <3>7. pikemails[m0].name.sized
      BY <1>0, <3>1, <3>6 DEF PikeTypes, Script!Names, Script!Bare, Script!Sized
    <3> HIDE DEF r
    <3>e. /\ pikeclients' \in [PikeClients -> PikeClient] /\ pikeclients'[c] = r
          /\ \A d \in PikeClients \ {c} : pikeclients'[d] = pikeclients[d]
          /\ WorkIsOnOne'
      BY <1>0, <2>r, GoesEffect
    <3>d. \A d \in PikeClients : \A m :
          /\ Delivering(d, m)' <=> Delivering(d, m)
          /\ Delivering(d, m) => pikeclients'[d].pc = pikeclients[d].pc
      BY <1>0, <3>e, <2>r, SameDeliveries
    <3>2. /\ pikemails'[m0] = Script!Nowhere
          /\ \A m \in PikeMails \ {m0} : pikemails'[m] = pikemails[m]
          /\ pikemails' \in [PikeMails -> [dir : {"none", "new", "cur"}, name : Script!Names]]
      <4>1. Script!Nowhere \in [dir : {"none", "new", "cur"}, name : Script!Names]
        BY IdleIsClient DEF Script!Nowhere
      <4> QED BY <1>0, <2>p, <2>n, <3>1, <4>1 DEF PikeTypes
    <3>3. /\ pikehistory' \in PikeHistory /\ UNCHANGED <<piketmp, pikeknown>>
          /\ pikehistory'.delivered = pikehistory.delivered
          /\ pikehistory'.purged = pikehistory.purged \cup {m0}
          /\ pikehistory'.short = pikehistory.short
          /\ pikehistory'.moved = pikehistory.moved
          /\ pikehistory'.flagged = pikehistory.flagged
      BY <1>0, <2>p, <2>n, <3>1 DEF PikeTypes, PikeHistory
    <3>4. PikeTypes'
      BY <1>0, <3>e, <3>2, <3>3 DEF PikeTypes
    <3>5. DeliveriesApart'
      BY <1>0, <3>d, <3>3 DEF DeliveriesApart
    <3>8. FilesFollowHistory'
      <4> SUFFICES ASSUME NEW m \in PikeMails PROVE FileFollows(m)'
        BY DEF FilesFollowHistory
      <4>1. FileFollows(m)
        BY <1>0 DEF FilesFollowHistory
      <4>2. CASE m # m0
        BY <4>1, <4>2, <3>2, <3>3, <3>d DEF FileFollows, Script!Nowhere
      <4>3. CASE m = m0
        BY <4>1, <4>3, <3>1, <3>2, <3>3, <3>6, <3>7, <3>d
        DEF FileFollows, Script!Nowhere, Script!Sized, Script!Bare
      <4> QED BY <4>2, <4>3
    <3> QED BY <3>e, <3>4, <3>5, <3>8 DEF PikeInv
  <2> QED BY <2>q, <2>n
<1> QED BY <1>i, <1>k

(* A client goes on with the delivery of m, or begins or ends it.           *)
LEMMA DeliveriesOf ==
    ASSUME PikeTypes, DeliveriesApart, NEW c \in PikeClients, NEW m0 \in PikeMails,
           \A d \in PikeClients \ {c} : pikeclients'[d] = pikeclients[d],
           ~Apart(pikeclients[c].pc) => pikeclients[c].msg = {m0},
           ~Apart(pikeclients'[c].pc) => pikeclients'[c].msg = {m0}
    PROVE  /\ \A d \in PikeClients \ {c}, m \in PikeMails :
                 /\ Delivering(d, m)' <=> Delivering(d, m)
                 /\ pikeclients'[d].pc = pikeclients[d].pc
           /\ \A m \in PikeMails : Delivering(c, m) <=> m = m0 /\ ~Apart(pikeclients[c].pc)
           /\ \A m \in PikeMails : Delivering(c, m)' <=> m = m0 /\ ~Apart(pikeclients'[c].pc)
BY DEF Delivering, Apart

LEMMA DeliverKept ==
    ASSUME PikeInv, NEW c \in PikeClients, NEW m0 \in PikeMails, Script!deliver(c, m0)
    PROVE  PikeInv'
<1>0. PikeTypes /\ WorkIsOnOne /\ DeliveriesApart /\ FilesFollowHistory
  BY DEF PikeInv
<1> DEFINE w == [Script!Idle EXCEPT !.pc = "written", !.msg = {m0}]
<1>1. /\ pikeclients[c].pc = "idle" /\ Script!Fresh(m0) /\ piketmp' = piketmp \cup {m0}
      /\ UNCHANGED <<pikemails, pikeknown>>
      /\ \/ Script!Goes(c, w) /\ pikehistory' = pikehistory
         \/ Script!Goes(c, Script!Idle) /\ pikehistory' = [pikehistory EXCEPT !.short = @ \cup {m0}]
  BY DEF Script!deliver, Script!At, Script!Done
<1>2. w \in PikeClient /\ OnOne(w) /\ w.pc = "written" /\ w.msg = {m0}
  BY IdleIsClient DEF PikeClient, OnOne, Script!Places, Script!Idle
<1>3. Script!Idle \in PikeClient /\ OnOne(Script!Idle) /\ Script!Idle.pc = "idle"
  BY IdleIsClient DEF Script!Idle
<1> HIDE DEF w
<1>4. PICK r \in PikeClient : /\ OnOne(r) /\ Script!Goes(c, r)
                          /\ \/ r.pc = "written" /\ r.msg = {m0} /\ pikehistory' = pikehistory
                             \/ r.pc = "idle" /\ pikehistory' = [pikehistory EXCEPT !.short = @ \cup {m0}]
  BY <1>1, <1>2, <1>3
<1>e. /\ pikeclients' \in [PikeClients -> PikeClient] /\ pikeclients'[c] = r
      /\ \A d \in PikeClients \ {c} : pikeclients'[d] = pikeclients[d]
      /\ WorkIsOnOne'
  BY <1>0, <1>4, GoesEffect
<1>5. /\ pikehistory' \in PikeHistory
      /\ pikehistory'.delivered = pikehistory.delivered
      /\ pikehistory'.purged = pikehistory.purged
      /\ pikehistory'.moved = pikehistory.moved
      /\ pikehistory'.flagged = pikehistory.flagged
      /\ pikehistory.short \subseteq pikehistory'.short
      /\ r.pc = "idle" => m0 \in pikehistory'.short
  BY <1>0, <1>4 DEF PikeTypes, PikeHistory
<1>6. /\ \A d \in PikeClients \ {c}, m \in PikeMails :
            /\ Delivering(d, m)' <=> Delivering(d, m)
            /\ pikeclients'[d].pc = pikeclients[d].pc
      /\ \A m \in PikeMails : ~Delivering(c, m)
      /\ \A m \in PikeMails : Delivering(c, m)' <=> m = m0 /\ r.pc = "written"
  BY <1>1, <1>4, <1>e DEF Delivering
<1>7. PikeTypes'
  BY <1>0, <1>1, <1>e, <1>5 DEF PikeTypes
<1>8. DeliveriesApart'
  <2>1. \A d \in PikeClients : ~Delivering(d, m0)
    BY <1>0, <1>1 DEF DeliveriesApart, Script!Fresh
  <2>2. \A d, x \in PikeClients, m \in PikeMails :
           Delivering(d, m)' /\ Delivering(x, m)' => d = x
    BY <1>0, <1>6, <2>1 DEF DeliveriesApart
  <2>3. \A d \in PikeClients, m \in PikeMails : Delivering(d, m)' =>
           m \in piketmp' /\ m \notin pikehistory'.delivered
    BY <1>0, <1>1, <1>5, <1>6 DEF DeliveriesApart, Script!Fresh
  <2>4. \A m \in piketmp' : m \in pikehistory'.short \/ \E d \in PikeClients : Delivering(d, m)'
    BY <1>0, <1>1, <1>4, <1>5, <1>6 DEF DeliveriesApart, PikeTypes
  <2> QED BY <2>2, <2>3, <2>4 DEF DeliveriesApart
<1>9. FilesFollowHistory'
  <2> SUFFICES ASSUME NEW m \in PikeMails PROVE FileFollows(m)'
    BY DEF FilesFollowHistory
  <2>1. FileFollows(m)
    BY <1>0 DEF FilesFollowHistory
  <2>2. CASE m # m0
    BY <2>1, <2>2, <1>1, <1>5, <1>6 DEF FileFollows, Script!Nowhere
  <2>3. CASE m = m0
    BY <2>1, <2>3, <1>0, <1>1, <1>4, <1>e, <1>5, <1>6
       DEF FileFollows, Script!Nowhere, Script!Bare, Script!Fresh, DeliveriesApart,
            PikeTypes, PikeHistory
  <2> QED BY <2>2, <2>3
<1> QED BY <1>e, <1>7, <1>8, <1>9 DEF PikeInv

LEMMA LinkKept ==
    ASSUME PikeInv, NEW c \in PikeClients, Script!deliver_link(c)
    PROVE  PikeInv'
<1>0. PikeTypes /\ WorkIsOnOne /\ DeliveriesApart /\ FilesFollowHistory
  BY DEF PikeInv
<1> DEFINE w == [pikeclients[c] EXCEPT !.pc = "linked"]
<1>m. PICK m0 \in PikeMails :
        m0 = Script!Its(c) /\ pikeclients[c].msg = {m0} /\ pikeclients[c].pc = "written"
  BY <1>0, ItsMessage DEF Script!deliver_link, Script!At
<1>1. /\ UNCHANGED <<pikeknown, pikehistory>>
      /\ \/ /\ pikemails' = [pikemails EXCEPT ![m0] = [dir |-> "new", name |-> Script!Bare]]
            /\ Script!Goes(c, w) /\ piketmp' = piketmp
         \/ piketmp' = piketmp \ {m0} /\ Script!Goes(c, Script!Idle) /\ pikemails' = pikemails
  BY <1>m DEF Script!deliver_link, Script!Done
<1>2. w \in PikeClient /\ OnOne(w) /\ w.pc = "linked" /\ w.msg = {m0}
  BY <1>0, <1>m DEF PikeClient, OnOne, Script!Places, PikeTypes
<1>3. Script!Idle \in PikeClient /\ OnOne(Script!Idle) /\ Script!Idle.pc = "idle"
  BY IdleIsClient DEF Script!Idle
<1> HIDE DEF w
<1>4. PICK r \in PikeClient :
        /\ OnOne(r) /\ Script!Goes(c, r)
        /\ \/ /\ pikemails' = [pikemails EXCEPT ![m0] = [dir |-> "new", name |-> Script!Bare]]
              /\ r.pc = "linked" /\ r.msg = {m0} /\ piketmp' = piketmp
           \/ piketmp' = piketmp \ {m0} /\ r.pc = "idle" /\ pikemails' = pikemails
  BY <1>1, <1>2, <1>3
<1>e. /\ pikeclients' \in [PikeClients -> PikeClient] /\ pikeclients'[c] = r
      /\ \A d \in PikeClients \ {c} : pikeclients'[d] = pikeclients[d]
      /\ WorkIsOnOne'
  BY <1>0, <1>4, GoesEffect
<1>5. /\ pikemails' \in [PikeMails -> [dir : {"none", "new", "cur"}, name : Script!Names]]
      /\ \A m \in PikeMails \ {m0} : pikemails'[m] = pikemails[m]
      /\ pikemails'[m0] = IF r.pc = "linked" THEN [dir |-> "new", name |-> Script!Bare] ELSE pikemails[m0]
  BY <1>0, <1>4, <1>m, IdleIsClient DEF PikeTypes
<1>6. /\ \A d \in PikeClients \ {c}, m \in PikeMails :
            /\ Delivering(d, m)' <=> Delivering(d, m)
            /\ pikeclients'[d].pc = pikeclients[d].pc
      /\ \A m \in PikeMails : Delivering(c, m) <=> m = m0
      /\ \A m \in PikeMails : Delivering(c, m)' <=> m = m0 /\ r.pc = "linked"
  BY <1>m, <1>4, <1>e DEF Delivering
<1>7. PikeTypes'
  BY <1>0, <1>1, <1>4, <1>e, <1>5 DEF PikeTypes
<1>8. DeliveriesApart'
  <2>1. \A d \in PikeClients \ {c} : ~Delivering(d, m0)
    BY <1>0, <1>6, <1>m DEF DeliveriesApart
  <2>2. \A d, x \in PikeClients, m \in PikeMails :
           Delivering(d, m)' /\ Delivering(x, m)' => d = x
    BY <1>0, <1>6, <2>1 DEF DeliveriesApart
  <2>3. \A d \in PikeClients, m \in PikeMails : Delivering(d, m)' =>
           m \in piketmp' /\ m \notin pikehistory'.delivered
    BY <1>0, <1>1, <1>4, <1>6, <2>1 DEF DeliveriesApart
  <2>4. \A m \in piketmp' : m \in pikehistory'.short \/ \E d \in PikeClients : Delivering(d, m)'
    BY <1>0, <1>1, <1>4, <1>6, <1>m DEF DeliveriesApart, PikeTypes
  <2> QED BY <2>2, <2>3, <2>4 DEF DeliveriesApart
<1>9. FilesFollowHistory'
  <2> SUFFICES ASSUME NEW m \in PikeMails PROVE FileFollows(m)'
    BY DEF FilesFollowHistory
  <2>1. FileFollows(m)
    BY <1>0 DEF FilesFollowHistory
  <2>2. CASE m # m0
    BY <2>1, <2>2, <1>1, <1>4, <1>5, <1>6 DEF FileFollows, Script!Nowhere
  <2>3. CASE m = m0
    <3>1. /\ \A d \in PikeClients : Delivering(d, m0) <=> d = c
          /\ m0 \in piketmp /\ m0 \notin pikehistory.delivered
      BY <1>0, <1>6, <1>m DEF DeliveriesApart
    <3>2. /\ pikemails[m0] = Script!Nowhere /\ m0 \notin pikehistory.purged
          /\ pikehistory.flagged[m0] = "none"
      BY <2>1, <2>3, <3>1, <1>m DEF FileFollows
    <3>3. pikeclients'[c] = r /\ \A d \in PikeClients : Delivering(d, m0)' <=> d = c /\ r.pc = "linked"
      BY <3>1, <1>6, <1>m, <1>e
    <3>4. CASE r.pc = "linked"
      BY <3>1, <3>2, <3>3, <3>4, <2>3, <1>1, <1>4, <1>5
      DEF FileFollows, Script!Nowhere, Script!Bare
    <3>5. CASE r.pc # "linked"
      BY <3>1, <3>2, <3>3, <3>5, <2>3, <1>1, <1>4, <1>5
      DEF FileFollows, Script!Nowhere, Script!Bare
    <3> QED BY <3>4, <3>5
  <2> QED BY <2>2, <2>3
<1> QED BY <1>e, <1>7, <1>8, <1>9 DEF PikeInv

LEMMA MvKept ==
    ASSUME PikeInv, NEW c \in PikeClients, Script!deliver_mv(c)
    PROVE  PikeInv'
<1>0. PikeTypes /\ WorkIsOnOne /\ DeliveriesApart /\ FilesFollowHistory
  BY DEF PikeInv
<1> DEFINE r == [pikeclients[c] EXCEPT !.pc = "renamed"]
<1>m. PICK m0 \in PikeMails :
        m0 = Script!Its(c) /\ pikeclients[c].msg = {m0} /\ pikeclients[c].pc = "linked"
  BY <1>0, ItsMessage DEF Script!deliver_mv, Script!At
<1>1. /\ UNCHANGED <<piketmp, pikeknown, pikehistory>> /\ Script!Goes(c, r)
      /\ pikemails' = IF pikemails[m0].dir = "new"
                      THEN [pikemails EXCEPT ![m0].name = Script!Sized({})] ELSE pikemails
  BY <1>m DEF Script!deliver_mv
<1>2. r \in PikeClient /\ OnOne(r) /\ r.pc = "renamed" /\ r.msg = {m0}
  BY <1>0, <1>m DEF PikeClient, OnOne, Script!Places, PikeTypes
<1> HIDE DEF r
<1>e. /\ pikeclients' \in [PikeClients -> PikeClient] /\ pikeclients'[c] = r
      /\ \A d \in PikeClients \ {c} : pikeclients'[d] = pikeclients[d]
      /\ WorkIsOnOne'
  BY <1>0, <1>1, <1>2, GoesEffect
<1>5. /\ pikemails' \in [PikeMails -> [dir : {"none", "new", "cur"}, name : Script!Names]]
      /\ \A m \in PikeMails \ {m0} : pikemails'[m] = pikemails[m]
      /\ pikemails'[m0] = IF pikemails[m0].dir = "new" THEN [dir |-> "new", name |-> Script!Sized({})]
                          ELSE pikemails[m0]
  <2>1. Script!Sized({}) \in Script!Names
    BY DEF Script!Names
  <2> QED BY <1>0, <1>1, <2>1 DEF PikeTypes
<1>6. /\ \A d \in PikeClients \ {c}, m \in PikeMails :
            /\ Delivering(d, m)' <=> Delivering(d, m)
            /\ pikeclients'[d].pc = pikeclients[d].pc
      /\ \A m \in PikeMails : Delivering(c, m) <=> m = m0
      /\ \A m \in PikeMails : Delivering(c, m)' <=> m = m0 /\ r.pc # "idle"
  BY <1>m, <1>2, <1>e DEF Delivering
<1>7. PikeTypes'
  BY <1>0, <1>1, <1>e, <1>5 DEF PikeTypes
<1>8. DeliveriesApart'
  <2>1. \A d \in PikeClients \ {c} : ~Delivering(d, m0)
    BY <1>0, <1>6, <1>m DEF DeliveriesApart
  <2>2. \A d, x \in PikeClients, m \in PikeMails :
           Delivering(d, m)' /\ Delivering(x, m)' => d = x
    BY <1>0, <1>6, <2>1 DEF DeliveriesApart
  <2>3. \A d \in PikeClients, m \in PikeMails : Delivering(d, m)' =>
           m \in piketmp' /\ m \notin pikehistory'.delivered
    BY <1>0, <1>1, <1>2, <1>5, <1>6, <2>1 DEF DeliveriesApart
  <2>4. \A m \in piketmp' : m \in pikehistory'.short \/ \E d \in PikeClients : Delivering(d, m)'
    BY <1>0, <1>1, <1>2, <1>5, <1>6, <1>m DEF DeliveriesApart, PikeTypes
  <2> QED BY <2>2, <2>3, <2>4 DEF DeliveriesApart
<1>9. FilesFollowHistory'
  <2> SUFFICES ASSUME NEW m \in PikeMails PROVE FileFollows(m)'
    BY DEF FilesFollowHistory
  <2>1. FileFollows(m)
    BY <1>0 DEF FilesFollowHistory
  <2>2. CASE m # m0
    BY <2>1, <2>2, <1>1, <1>5, <1>6 DEF FileFollows, Script!Nowhere
  <2>3. CASE m = m0
    <3>1. /\ \A d \in PikeClients : Delivering(d, m0) <=> d = c
          /\ m0 \in piketmp /\ m0 \notin pikehistory.delivered
      BY <1>0, <1>6, <1>m DEF DeliveriesApart
    <3>2. pikemails[m0].dir # "none" \/ m0 \in pikehistory.purged
      BY <2>1, <2>3, <3>1, <1>m DEF FileFollows
    <3>3. pikeclients'[c] = r /\ \A d \in PikeClients : Delivering(d, m0)' <=> d = c /\ r.pc # "idle"
      BY <3>1, <1>6, <1>m, <1>e
    <3> QED
      BY <2>1, <3>1, <3>2, <3>3, <2>3, <1>1, <1>2, <1>m, <1>5
      DEF FileFollows, Script!Nowhere, Script!Bare, Script!Sized
  <2> QED BY <2>2, <2>3
<1> QED BY <1>e, <1>7, <1>8, <1>9 DEF PikeInv

LEMMA RmKept ==
    ASSUME PikeInv, NEW c \in PikeClients, Script!deliver_rm(c)
    PROVE  PikeInv'
<1>0. PikeTypes /\ WorkIsOnOne /\ DeliveriesApart /\ FilesFollowHistory
  BY DEF PikeInv
<1> DEFINE r == Script!Idle
<1>m. PICK m0 \in PikeMails :
        m0 = Script!Its(c) /\ pikeclients[c].msg = {m0} /\ pikeclients[c].pc = "renamed"
  BY <1>0, ItsMessage DEF Script!deliver_rm, Script!At
<1>1. /\ UNCHANGED <<pikemails, pikeknown>> /\ Script!Goes(c, r) /\ piketmp' = piketmp \ {m0}
      /\ pikehistory' = [pikehistory EXCEPT !.delivered = @ \cup {m0}]
  BY <1>m DEF Script!deliver_rm, Script!Done
<1>2. r \in PikeClient /\ OnOne(r) /\ r.pc = "idle"
  BY IdleIsClient DEF Script!Idle
<1> HIDE DEF r
<1>e. /\ pikeclients' \in [PikeClients -> PikeClient] /\ pikeclients'[c] = r
      /\ \A d \in PikeClients \ {c} : pikeclients'[d] = pikeclients[d]
      /\ WorkIsOnOne'
  BY <1>0, <1>1, <1>2, GoesEffect
<1>5. /\ pikehistory' \in PikeHistory
      /\ pikehistory'.delivered = pikehistory.delivered \cup {m0}
      /\ pikehistory'.purged = pikehistory.purged
      /\ pikehistory'.moved = pikehistory.moved
      /\ pikehistory'.short = pikehistory.short
      /\ pikehistory'.flagged = pikehistory.flagged
  BY <1>0, <1>1 DEF PikeTypes, PikeHistory
<1>6. /\ \A d \in PikeClients \ {c}, m \in PikeMails :
            /\ Delivering(d, m)' <=> Delivering(d, m)
            /\ pikeclients'[d].pc = pikeclients[d].pc
      /\ \A m \in PikeMails : Delivering(c, m) <=> m = m0
      /\ \A m \in PikeMails : Delivering(c, m)' <=> m = m0 /\ r.pc # "idle"
  BY <1>m, <1>2, <1>e DEF Delivering
<1>7. PikeTypes'
  BY <1>0, <1>1, <1>e, <1>5 DEF PikeTypes
<1>8. DeliveriesApart'
  <2>1. \A d \in PikeClients \ {c} : ~Delivering(d, m0)
    BY <1>0, <1>6, <1>m DEF DeliveriesApart
  <2>2. \A d, x \in PikeClients, m \in PikeMails :
           Delivering(d, m)' /\ Delivering(x, m)' => d = x
    BY <1>0, <1>6, <2>1 DEF DeliveriesApart
  <2>3. \A d \in PikeClients, m \in PikeMails : Delivering(d, m)' =>
           m \in piketmp' /\ m \notin pikehistory'.delivered
    BY <1>0, <1>1, <1>2, <1>5, <1>6, <2>1 DEF DeliveriesApart
  <2>4. \A m \in piketmp' : m \in pikehistory'.short \/ \E d \in PikeClients : Delivering(d, m)'
    BY <1>0, <1>1, <1>2, <1>5, <1>6, <1>m DEF DeliveriesApart, PikeTypes
  <2> QED BY <2>2, <2>3, <2>4 DEF DeliveriesApart
<1>9. FilesFollowHistory'
  <2> SUFFICES ASSUME NEW m \in PikeMails PROVE FileFollows(m)'
    BY DEF FilesFollowHistory
  <2>1. FileFollows(m)
    BY <1>0 DEF FilesFollowHistory
  <2>2. CASE m # m0
    BY <2>1, <2>2, <1>1, <1>5, <1>6 DEF FileFollows, Script!Nowhere
  <2>3. CASE m = m0
    <3>1. /\ \A d \in PikeClients : Delivering(d, m0) <=> d = c
          /\ m0 \in piketmp /\ m0 \notin pikehistory.delivered
      BY <1>0, <1>6, <1>m DEF DeliveriesApart
    <3>2. pikemails[m0].dir # "none" \/ m0 \in pikehistory.purged
      BY <2>1, <2>3, <3>1, <1>m DEF FileFollows
    <3>3. pikeclients'[c] = r /\ \A d \in PikeClients : Delivering(d, m0)' <=> d = c /\ r.pc # "idle"
      BY <3>1, <1>6, <1>m, <1>e
    <3> QED
      BY <2>1, <3>1, <3>2, <3>3, <2>3, <1>1, <1>2, <1>m, <1>5
      DEF FileFollows, Script!Nowhere, Script!Bare, Script!Sized
  <2> QED BY <2>2, <2>3
<1> QED BY <1>e, <1>7, <1>8, <1>9 DEF PikeInv

LEMMA PikeInvKept == PikeInv /\ [Script!Next]_(Script!pikevars) => PikeInv'
<1> SUFFICES ASSUME PikeInv, [Script!Next]_(Script!pikevars) PROVE PikeInv'
  OBVIOUS
<1>1. CASE UNCHANGED Script!pikevars
  BY <1>1 DEF Script!pikevars, PikeInv, PikeTypes, WorkIsOnOne, DeliveriesApart, Delivering,
              FilesFollowHistory, FileFollows
<1>2. ASSUME NEW c \in PikeClients, NEW m \in PikeMails, Script!del_message(c, m) \/ Script!undel_message(c, m)
      PROVE  PikeInv'
  BY <1>2, SetFlagsKept DEF Script!del_message, Script!undel_message
<1>3. CASE Script!Next
  BY <1>2, <1>3, LinkKept, MvKept, RmKept, ListKept, NewToCurKept, ListCurKept, FilterKept,
     SetReadKept, SetMvKept, GetOpenKept, PurgeKept, PurgeRmKept, DeliverKept, GetKept
     DEF Script!Next
<1> QED BY <1>1, <1>3

LEMMA PikeInvShows ==
    PikeInv => Script!DeliveredStays /\ Script!TmpIsOfDeliveries /\ Script!SizedUnlessCrossed /\ Script!FlagsAreOfTheLastChange
               /\ Script!TypeOK
<1> SUFFICES ASSUME PikeInv
             PROVE  Script!DeliveredStays /\ Script!TmpIsOfDeliveries /\ Script!SizedUnlessCrossed
                    /\ Script!FlagsAreOfTheLastChange /\ Script!TypeOK
  OBVIOUS
<1>0. PikeTypes /\ WorkIsOnOne /\ DeliveriesApart /\ FilesFollowHistory
  BY DEF PikeInv
<1>1. Script!DeliveredStays
  BY <1>0
  DEF Script!DeliveredStays, FilesFollowHistory, FileFollows, PikeTypes, PikeHistory,
       Script!Nowhere
<1>2. Script!TmpIsOfDeliveries
  BY <1>0 DEF Script!TmpIsOfDeliveries, DeliveriesApart, Delivering
<1>3. Script!SizedUnlessCrossed
  <2> SUFFICES ASSUME NEW m \in pikehistory.delivered, pikemails[m] # Script!Nowhere, pikemails[m].name = Script!Bare
               PROVE  m \in pikehistory.moved
    BY DEF Script!SizedUnlessCrossed
  <2>1. m \in PikeMails /\ FileFollows(m)
    BY <1>0 DEF PikeTypes, PikeHistory, FilesFollowHistory
  <2>2. pikemails[m].dir = "cur"
    <3>1. pikemails[m].dir \in {"none", "new", "cur"}
      BY <1>0, <2>1 DEF PikeTypes
    <3>2. pikemails[m].dir # "new"
      BY <1>0, <2>1 DEF FileFollows, DeliveriesApart
    <3> QED BY <2>1, <3>1, <3>2 DEF FileFollows
  <2> QED BY <2>1, <2>2 DEF FileFollows
<1>4. Script!FlagsAreOfTheLastChange
  BY <1>0 DEF Script!FlagsAreOfTheLastChange, FilesFollowHistory, FileFollows
<1>5. Script!TypeOK
  BY <1>0 DEF Script!TypeOK, PikeTypes, PikeClient
<1> QED BY <1>1, <1>2, <1>3, <1>4, <1>5

(* The Pike class: what is delivered stays until it is purged, tmp/ holds   *)
(* what is being delivered or was written short, names say sizes unless two *)
(* clients crossed, and flags are those of the last change (Maildir.pmod).  *)
THEOREM PikeFolderHolds ==
    Script!Spec => [](Script!DeliveredStays /\ Script!TmpIsOfDeliveries /\ Script!SizedUnlessCrossed
               /\ Script!FlagsAreOfTheLastChange /\ Script!TypeOK)
<1> QED BY PikeStarts, PikeInvKept, PikeInvShows, PTL DEF Script!Spec

-----------------------------------------------------------------------------
(* A maildir several mailboxes have open.                                   *)

(* The files of the folder: one for each message, and only of messages that *)
(* were delivered.                                                          *)
OneFileEach == \A f, g \in files : f.msg = g.msg => f = g
FilesDelivered == files \subseteq Shared!Names /\ \A f \in files : f.msg \in delivered

Places == {"none", "new", "cur", "open", "find", "sync", "closed", "leaked", "dead"}
MaildirTypes ==
    /\ pc \in [Clients -> Places] /\ path \in [Clients -> Seq(Shared!Names)]
    /\ listing \in [Clients -> SUBSET Shared!Names]
    /\ seek \in [Clients -> [msg : Messages \cup {"none"}, dirs : SUBSET {"new", "cur"},
                             found : SUBSET Shared!Names, stirred : BOOLEAN]]
    /\ present \in [Clients -> SUBSET Messages] /\ moved \in [Clients -> SUBSET Messages]

(* How often a mailbox lists a message.                                     *)
Listed(c, m) ==
    \E k \in DOMAIN path[c] : \A j \in DOMAIN path[c] : path[c][j].msg = m <=> j = k
Unlisted(c, m) == \A j \in DOMAIN path[c] : path[c][j].msg # m

(* Where a scan has come to with a message nobody moves: its file is still  *)
(* to be parsed, or was, or is in the directory that is read next.          *)
InScan(c, m, f) ==
    /\ f.msg = m /\ \A g \in listing[c] : g.msg = m => g = f
    /\ f \in listing[c] => Unlisted(c, m)
    /\ f \notin listing[c] /\ (pc[c] = "cur" \/ f.dir = "new") => Listed(c, m)
    /\ pc[c] = "new" /\ f.dir = "cur" => f \notin listing[c] /\ Unlisted(c, m)
Scanned(c, m) ==
    /\ pc[c] \in {"new", "cur"} => \E f \in files : InScan(c, m, f)
    /\ pc[c] \in {"open", "find"} => Listed(c, m)
Tracked(c) ==
    /\ pc[c] # "none" => \A m \in present[c] \ moved[c] : Scanned(c, m)
    /\ pc[c] = "none" => path[c] = <<>>

(* What a search may still find: the file is in a directory not yet read,   *)
(* or is the one that was read.                                             *)
KnownMessages(c) ==
    /\ \A j \in DOMAIN path[c] : path[c][j].msg \in delivered
    /\ \A f \in listing[c] : f.msg \in delivered
InSearch(c, f) == f.dir \in seek[c].dirs \/ f \in seek[c].found
Searched(c) == pc[c] = "find" =>
    /\ seek[c].msg \in delivered
    /\ \A f \in seek[c].found : \A g \in seek[c].found : f = g
    /\ ~seek[c].stirred => \A f \in files : f.msg = seek[c].msg => InSearch(c, f)

MaildirInv ==
    /\ MaildirTypes /\ OneFileEach /\ FilesDelivered /\ missed = FALSE
    /\ \A c \in Clients : Tracked(c) /\ KnownMessages(c) /\ Searched(c)

LEMMA MaildirStarts == Shared!Init => MaildirInv
<1> SUFFICES ASSUME Shared!Init PROVE MaildirInv
  OBVIOUS
<1> USE DEF Shared!Init
<1>1. MaildirTypes
  <2>1. Shared!NoSeek \in [msg : Messages \cup {"none"}, dirs : SUBSET {"new", "cur"},
                          found : SUBSET Shared!Names, stirred : BOOLEAN]
    BY DEF Shared!NoSeek
  <2>2. <<>> \in Seq(Shared!Names)
    OBVIOUS
  <2>3. path \in [Clients -> Seq(Shared!Names)]
    BY <2>2
  <2>4. pc \in [Clients -> Places]
    BY DEF Places
  <2> QED BY <2>1, <2>3, <2>4 DEF MaildirTypes
<1>2. OneFileEach /\ FilesDelivered
  BY FolderAssumption DEF OneFileEach, FilesDelivered, Shared!ConstantsOK
<1>3. ASSUME NEW c \in Clients PROVE Tracked(c) /\ KnownMessages(c) /\ Searched(c)
  BY <1>3 DEF Tracked, KnownMessages, Searched
<1> QED BY <1>1, <1>2, <1>3 DEF MaildirInv

(* A step of another process, or of the same one, that leaves files, the    *)
(* scan and the search of a mailbox alone.                                  *)
Untouched(c) ==
    /\ pc'[c] = pc[c] /\ path'[c] = path[c] /\ listing'[c] = listing[c]
    /\ seek'[c] = seek[c] /\ present'[c] = present[c]
LEMMA MailboxUntouched ==
    ASSUME NEW c \in Clients, Untouched(c), files' = files, delivered \subseteq delivered',
           moved[c] \subseteq moved'[c], Tracked(c), KnownMessages(c), Searched(c)
    PROVE  Tracked(c)' /\ KnownMessages(c)' /\ Searched(c)'
<1>1. ASSUME NEW m, Scanned(c, m) PROVE Scanned(c, m)'
  <2>1. ASSUME NEW f, InScan(c, m, f) PROVE InScan(c, m, f)'
    BY <2>1 DEF InScan, Untouched, Listed, Unlisted
  <2>2. Listed(c, m) => Listed(c, m)'
    BY DEF Listed, Untouched
  <2> QED BY <1>1, <2>1, <2>2 DEF Scanned, Untouched
<1>2. Tracked(c)'
  BY <1>1 DEF Tracked, Untouched
<1>3. KnownMessages(c)'
  BY DEF KnownMessages, Untouched
<1>4. Searched(c)'
  BY DEF Searched, Untouched, InSearch
<1> QED BY <1>2, <1>3, <1>4

(* What the steps leave alone, but for the mailbox of the one that makes    *)
(* them.                                                                    *)
OnlyTouches(c) == \A d \in Clients \ {c} : Untouched(d)
LEMMA OthersKept ==
    ASSUME MaildirInv, NEW c \in Clients, OnlyTouches(c), files' = files,
           delivered \subseteq delivered', moved' = moved, missed' = missed,
           MaildirTypes', Tracked(c)' /\ KnownMessages(c)' /\ Searched(c)'
    PROVE  MaildirInv'
<1>1. ASSUME NEW d \in Clients, d # c PROVE Tracked(d)' /\ KnownMessages(d)' /\ Searched(d)'
  BY <1>1, MailboxUntouched DEF MaildirInv, OnlyTouches
<1>2. OneFileEach' /\ FilesDelivered' /\ missed' = FALSE
  BY DEF MaildirInv, OneFileEach, FilesDelivered
<1> QED BY <1>1, <1>2 DEF MaildirInv

(* Steps that change neither files nor lists nor searches.                  *)
LEMMA AllKept ==
    ASSUME MaildirInv, UNCHANGED <<files, delivered, pc, path, listing, seek, present, moved,
                                   missed>>
    PROVE  MaildirInv'
<1>1. ASSUME NEW d \in Clients PROVE Tracked(d)' /\ KnownMessages(d)' /\ Searched(d)'
  BY <1>1, MailboxUntouched DEF MaildirInv, Untouched
<1>2. OneFileEach' /\ FilesDelivered' /\ missed' = FALSE /\ MaildirTypes'
  BY DEF MaildirInv, OneFileEach, FilesDelivered, MaildirTypes
<1> QED BY <1>1, <1>2 DEF MaildirInv

(* A mailbox that goes where nothing is claimed of scans and searches.      *)
LEMMA MailboxRests ==
    ASSUME MaildirInv, NEW c \in Clients, NEW p \in {"open", "sync", "closed", "dead", "leaked"},
           pc' = [pc EXCEPT ![c] = p], p = "open" => pc[c] = "open",
           UNCHANGED <<files, delivered, path, listing, seek, present, moved, missed>>
    PROVE  MaildirInv'
<1>1. MaildirTypes'
  BY DEF MaildirTypes, MaildirInv, Places
<1>2. OnlyTouches(c)
  BY DEF OnlyTouches, Untouched, MaildirInv, MaildirTypes
<1>3. pc'[c] = p
  BY DEF MaildirInv, MaildirTypes
<1>4. Tracked(c)'
  <2>1. p # "open" => \A m \in present[c] \ moved[c] : Scanned(c, m)'
    BY <1>3 DEF Scanned
  <2>2. CASE p # "open"
    BY <1>3, <2>1, <2>2 DEF Tracked
  <2>3. CASE p = "open"
    <3>1. Untouched(c)
      BY <1>3, <2>3 DEF Untouched
    <3> QED BY <3>1, MailboxUntouched DEF MaildirInv
  <2> QED BY <2>2, <2>3
<1>5. KnownMessages(c)' /\ Searched(c)'
  BY <1>3 DEF MaildirInv, KnownMessages, Searched
<1> QED BY <1>1, <1>2, <1>4, <1>5, OthersKept

(* A delivery: the message was not in any list and nobody looks for it.     *)
LEMMA DeliverKeeps ==
    ASSUME MaildirInv, NEW m \in Messages, Shared!Deliver(m) PROVE MaildirInv'
<1> DEFINE f == [msg |-> m, dir |-> "new", flags |-> {}]
<1>1. /\ m \notin delivered /\ files' = files \cup {f} /\ delivered' = delivered \cup {m}
      /\ UNCHANGED <<pc, path, listing, seek, present, moved, missed>>
  BY DEF Shared!Deliver, Shared!mailbox
<1>2. f \in Shared!Names /\ f.msg = m
  BY DEF Shared!Names
<1> HIDE DEF f
<1>3. OneFileEach' /\ FilesDelivered' /\ MaildirTypes' /\ missed' = FALSE
  <2>1. OneFileEach'
    BY <1>1, <1>2 DEF MaildirInv, OneFileEach, FilesDelivered
  <2>2. FilesDelivered'
    BY <1>1, <1>2 DEF MaildirInv, FilesDelivered
  <2> QED BY <1>1, <2>1, <2>2 DEF MaildirInv, MaildirTypes
<1>4. ASSUME NEW c \in Clients PROVE Tracked(c)' /\ KnownMessages(c)' /\ Searched(c)'
  <2> USE <1>1
  <2>1. ASSUME NEW n, Scanned(c, n) PROVE Scanned(c, n)'
    <3>1. ASSUME NEW g, InScan(c, n, g) PROVE InScan(c, n, g)'
      BY <3>1 DEF InScan, Listed, Unlisted
    <3>2. Listed(c, n) => Listed(c, n)'
      BY DEF Listed
    <3> QED BY <2>1, <3>1, <3>2 DEF Scanned
  <2>2. Tracked(c)'
    BY <2>1 DEF Tracked, MaildirInv
  <2>3. KnownMessages(c)'
    BY DEF KnownMessages, MaildirInv
  <2>4. Searched(c)'
    <3>1. pc[c] = "find" => seek[c].msg # m
      BY DEF Searched, MaildirInv
    <3> QED BY <1>2, <3>1 DEF Searched, MaildirInv, InSearch
  <2> QED BY <2>2, <2>3, <2>4
<1> QED BY <1>3, <1>4 DEF MaildirInv

(* new/ is read when a mailbox is opened.                                   *)
LEMMA OpenKeeps ==
    ASSUME MaildirInv, NEW c \in Clients, Shared!Open(c) PROVE MaildirInv'
<1> USE DEF Shared!Open, Shared!Goto, Shared!mailbox
<1>1. MaildirTypes'
  <2>1. Shared!In("new") \subseteq Shared!Names /\ {f.msg : f \in files} \subseteq Messages
    BY DEF MaildirInv, FilesDelivered, Shared!In, Shared!Names
  <2> QED BY <2>1 DEF MaildirInv, MaildirTypes, Places
<1>2. OnlyTouches(c)
  BY DEF OnlyTouches, Untouched, MaildirInv, MaildirTypes
<1>3. /\ pc'[c] = "new" /\ listing'[c] = Shared!In("new") /\ path'[c] = <<>>
      /\ present'[c] = {f.msg : f \in files}
  BY DEF MaildirInv, MaildirTypes, Tracked
<1>4. ASSUME NEW f \in files PROVE InScan(c, f.msg, f)'
  BY <1>3 DEF InScan, Shared!In, Unlisted, MaildirInv, OneFileEach
<1>5. ASSUME NEW m \in present'[c] PROVE Scanned(c, m)'
  <2>1. PICK f \in files : m = f.msg
    BY <1>3
  <2> QED BY <1>3, <1>4, <2>1 DEF Scanned
<1>6. Tracked(c)'
  BY <1>3, <1>5 DEF Tracked
<1>7. KnownMessages(c)' /\ Searched(c)'
  BY <1>3 DEF KnownMessages, Searched, Shared!In, MaildirInv, FilesDelivered
<1> QED BY <1>1, <1>2, <1>6, <1>7, OthersKept

(* A list that grows at its end holds the other messages as it did.         *)
Grows(c, f) == path'[c] = path[c] \/ path'[c] = Append(path[c], f)
LEMMA AppendedElsewhere ==
    ASSUME NEW c \in Clients, path[c] \in Seq(Shared!Names), NEW f, Grows(c, f),
           NEW m, f.msg # m
    PROVE  (Listed(c, m) => Listed(c, m)') /\ (Unlisted(c, m) => Unlisted(c, m)')
<1>1. CASE path'[c] = path[c]
  BY <1>1 DEF Listed, Unlisted
<1>2. CASE path'[c] = Append(path[c], f)
  <2>1. /\ DOMAIN path[c] = 1 .. Len(path[c]) /\ DOMAIN path'[c] = 1 .. Len(path[c]) + 1
        /\ Len(path[c]) \in Nat
        /\ \A j \in 1 .. Len(path[c]) : path'[c][j] = path[c][j]
        /\ path'[c][Len(path[c]) + 1] = f
    BY <1>2
  <2>2. ASSUME NEW k \in DOMAIN path[c], \A j \in DOMAIN path[c] : path[c][j].msg = m <=> j = k
        PROVE  k \in DOMAIN path'[c]
                 /\ \A j \in DOMAIN path'[c] : path'[c][j].msg = m <=> j = k
    <3>1. ASSUME NEW j \in DOMAIN path'[c] PROVE path'[c][j].msg = m <=> j = k
      <4>1. CASE j = Len(path[c]) + 1
        BY <2>1, <4>1
      <4>2. CASE j # Len(path[c]) + 1
        BY <2>1, <2>2, <4>2
      <4> QED BY <4>1, <4>2
    <3> QED BY <2>1, <3>1
  <2>3. ASSUME \A j \in DOMAIN path[c] : path[c][j].msg # m, NEW j \in DOMAIN path'[c]
        PROVE  path'[c][j].msg # m
    BY <2>1, <2>3
  <2> QED BY <2>2, <2>3 DEF Listed, Unlisted
<1> QED BY <1>1, <1>2 DEF Grows

(* An entry is parsed: its message comes to the end of the list, unless the *)
(* file has gone.                                                           *)
LEMMA ParseEntryKeeps ==
    ASSUME MaildirInv, NEW c \in Clients, Shared!ParseEntry(c) PROVE MaildirInv'
<1>1. PICK f \in listing[c] :
         /\ listing' = [listing EXCEPT ![c] = @ \ {f}]
         /\ path' = IF f \in files THEN [path EXCEPT ![c] = Append(@, f)] ELSE path
         /\ UNCHANGED <<files, delivered, pc, seek, present, moved, missed>>
  BY DEF Shared!ParseEntry
<1> USE <1>1
<1>2. MaildirTypes' /\ f \in Shared!Names
  BY DEF MaildirInv, MaildirTypes
<1>3. OnlyTouches(c)
  BY DEF OnlyTouches, Untouched, MaildirInv, MaildirTypes
<1>4. /\ listing'[c] = listing[c] \ {f} /\ path[c] \in Seq(Shared!Names)
      /\ path'[c] = IF f \in files THEN Append(path[c], f) ELSE path[c]
      /\ f.msg \in delivered
  BY DEF MaildirInv, MaildirTypes, KnownMessages
<1>6. f \in files /\ Unlisted(c, f.msg) => Listed(c, f.msg)'
  <2> SUFFICES ASSUME f \in files, Unlisted(c, f.msg) PROVE Listed(c, f.msg)'
    OBVIOUS
  <2>1. path'[c] = Append(path[c], f) /\ DOMAIN path'[c] = 1 .. Len(path[c]) + 1
        /\ path'[c][Len(path[c]) + 1] = f /\ \A j \in DOMAIN path[c] : path'[c][j] = path[c][j]
    BY <1>4
  <2>2. \A j \in DOMAIN path'[c] : path'[c][j].msg = f.msg <=> j = Len(path[c]) + 1
    BY <1>4, <2>1 DEF Unlisted
  <2>3. Len(path[c]) + 1 \in DOMAIN path'[c]
    BY <1>4, <2>1
  <2> QED BY <2>2, <2>3 DEF Listed
<1>7. pc[c] \in {"new", "cur"} /\ f.msg \in Messages
  BY <1>2 DEF Shared!ParseEntry, Shared!Names
<1>8. ASSUME NEW m \in present[c] \ moved[c] PROVE Scanned(c, m)'
  <2>1. PICK g \in files : InScan(c, m, g)
    BY <1>7 DEF MaildirInv, Tracked, Scanned
  <2>2. CASE f.msg # m
    <3>1. g \in listing[c] <=> g \in listing'[c]
      BY <1>4, <2>1, <2>2 DEF InScan
    <3>2. \A h \in listing'[c] : h.msg = m => h = g
      BY <1>4, <2>1 DEF InScan
    <3>3. pc' = pc
      OBVIOUS
    <3>5. (Listed(c, m) => Listed(c, m)') /\ (Unlisted(c, m) => Unlisted(c, m)')
      <4>1. Grows(c, f) /\ path[c] \in Seq(Shared!Names)
        BY <1>4 DEF Grows
      <4> HIDE <1>1
      <4> QED BY <2>2, <4>1, AppendedElsewhere
    <3>4. InScan(c, m, g)'
      <4> HIDE <1>1
      <4> QED BY <2>1, <3>1, <3>2, <3>3, <3>5 DEF InScan
    <3> QED BY <1>7, <2>1, <3>4 DEF Scanned
  <2>3. CASE f.msg = m
    <3>1. f = g
      BY <2>1, <2>3 DEF InScan
    <3>2. Listed(c, m)'
      BY <1>6, <2>1, <2>3, <3>1 DEF InScan
    <3>3. ~(pc[c] = "new" /\ g.dir = "cur")
      BY <2>1, <3>1 DEF InScan
    <3>4. g \notin listing'[c] /\ \A h \in listing'[c] : h \in listing[c]
      BY <1>4, <3>1
    <3>5. g.msg = m /\ \A h \in listing'[c] : h.msg = m => h = g
      BY <2>1, <3>4 DEF InScan
    <3>6. InScan(c, m, g)'
      BY <3>2, <3>3, <3>4, <3>5 DEF InScan
    <3> QED BY <1>7, <2>1, <3>6 DEF Scanned
  <2> QED BY <2>2, <2>3
<1>9. Tracked(c)'
  BY <1>7, <1>8 DEF Tracked
<1>10. KnownMessages(c)'
  BY <1>4 DEF KnownMessages, MaildirInv
<1>11. Searched(c)'
  BY DEF Searched, MaildirInv, InSearch
<1> QED BY <1>2, <1>3, <1>9, <1>10, <1>11, OthersKept

(* cur/ is read when new/ has been parsed.                                  *)
LEMMA ScanCurKeeps ==
    ASSUME MaildirInv, NEW c \in Clients, Shared!ScanCur(c) PROVE MaildirInv'
<1> USE DEF Shared!ScanCur, Shared!Goto, Shared!mailbox
<1>1. MaildirTypes'
  <2>1. Shared!In("cur") \subseteq Shared!Names
    BY DEF MaildirInv, FilesDelivered, Shared!In
  <2> QED BY <2>1 DEF MaildirInv, MaildirTypes, Places
<1>2. OnlyTouches(c)
  BY DEF OnlyTouches, Untouched, MaildirInv, MaildirTypes
<1>3. /\ pc[c] = "new" /\ listing[c] = {} /\ pc'[c] = "cur"
      /\ listing'[c] = Shared!In("cur")
  BY DEF MaildirInv, MaildirTypes
<1>4. ASSUME NEW m \in present[c] \ moved[c] PROVE Scanned(c, m)'
  <2>1. PICK g \in files : InScan(c, m, g)
    BY <1>3 DEF MaildirInv, Tracked, Scanned
  <2>2. g.msg = m /\ g.dir \in {"new", "cur"}
    BY <2>1 DEF InScan, MaildirInv, FilesDelivered, Shared!Names
  <2>3. \A h \in Shared!In("cur") : h.msg = m => h = g
    BY <2>2 DEF Shared!In, MaildirInv, OneFileEach
  <2>4. CASE g.dir = "new"
    <3>1. Listed(c, m)'
      BY <1>3, <2>1, <2>4 DEF InScan, Listed
    <3>2. g \notin Shared!In("cur")
      BY <2>4 DEF Shared!In
    <3>3. InScan(c, m, g)'
      BY <1>3, <2>2, <2>3, <3>1, <3>2 DEF InScan
    <3> QED BY <1>3, <3>3 DEF Scanned
  <2>5. CASE g.dir = "cur"
    <3>1. Unlisted(c, m)'
      BY <1>3, <2>1, <2>5 DEF InScan, Unlisted
    <3>2. g \in Shared!In("cur")
      BY <2>5 DEF Shared!In
    <3>3. InScan(c, m, g)'
      BY <1>3, <2>2, <2>3, <3>1, <3>2 DEF InScan
    <3> QED BY <1>3, <3>3 DEF Scanned
  <2> QED BY <2>2, <2>4, <2>5
<1>5. Tracked(c)'
  BY <1>3, <1>4 DEF Tracked
<1>6. KnownMessages(c)' /\ Searched(c)'
  BY <1>3 DEF KnownMessages, Searched, Shared!In, MaildirInv, FilesDelivered
<1> QED BY <1>1, <1>2, <1>5, <1>6, OthersKept

(* The scan is over.                                                        *)
LEMMA OpenedKeeps ==
    ASSUME MaildirInv, NEW c \in Clients, Shared!Opened(c) PROVE MaildirInv'
<1> USE DEF Shared!Opened, Shared!Goto, Shared!mailbox
<1>1. MaildirTypes'
  BY DEF MaildirInv, MaildirTypes, Places
<1>2. OnlyTouches(c)
  BY DEF OnlyTouches, Untouched, MaildirInv, MaildirTypes
<1>3. pc[c] = "cur" /\ listing[c] = {} /\ pc'[c] = "open"
  BY DEF MaildirInv, MaildirTypes
<1>4. ASSUME NEW m \in present[c] \ moved[c] PROVE Scanned(c, m)'
  <2>1. PICK g \in files : InScan(c, m, g)
    BY <1>3 DEF MaildirInv, Tracked, Scanned
  <2>2. Listed(c, m)'
    BY <1>3, <2>1 DEF InScan, Listed
  <2> QED BY <1>3, <2>2 DEF Scanned
<1>5. Tracked(c)'
  BY <1>3, <1>4 DEF Tracked
<1>6. KnownMessages(c)' /\ Searched(c)'
  BY <1>3 DEF KnownMessages, Searched, MaildirInv
<1> QED BY <1>1, <1>2, <1>5, <1>6, OthersKept

(* A message is opened, or a search for it begins.                          *)
LEMMA OpenMessageKeeps ==
    ASSUME MaildirInv, NEW c \in Clients, Shared!OpenMessage(c) PROVE MaildirInv'
<1>1. PICK k \in DOMAIN path[c] :
         IF path[c][k] \in files THEN UNCHANGED <<pc, seek>>
         ELSE /\ pc' = [pc EXCEPT ![c] = "find"]
              /\ seek' = [seek EXCEPT ![c] = [Shared!NoSeek EXCEPT !.msg = path[c][k].msg,
                                                                  !.dirs = {"new", "cur"}]]
  BY DEF Shared!OpenMessage, Shared!Goto
<1>2. UNCHANGED <<files, delivered, path, listing, present, moved, missed>>
  BY DEF Shared!OpenMessage
<1>3. CASE path[c][k] \in files
  BY <1>1, <1>2, <1>3, AllKept
<1>4. CASE path[c][k] \notin files
  <2> DEFINE s == [Shared!NoSeek EXCEPT !.msg = path[c][k].msg, !.dirs = {"new", "cur"}]
  <2>1. pc' = [pc EXCEPT ![c] = "find"] /\ seek' = [seek EXCEPT ![c] = s]
    BY <1>1, <1>4
  <2>2. s.msg = path[c][k].msg /\ s.dirs = {"new", "cur"} /\ s.found = {}
    BY DEF Shared!NoSeek
  <2>3. path[c][k] \in Shared!Names
    BY DEF MaildirInv, MaildirTypes
  <2>4. s \in [msg : Messages \cup {"none"}, dirs : SUBSET {"new", "cur"},
               found : SUBSET Shared!Names, stirred : BOOLEAN]
    BY <2>3 DEF Shared!NoSeek, Shared!Names
  <2> HIDE DEF s
  <2>5. MaildirTypes'
    BY <1>2, <2>1, <2>4 DEF MaildirInv, MaildirTypes, Places
  <2>6. OnlyTouches(c)
    BY <1>2, <2>1 DEF OnlyTouches, Untouched, MaildirInv, MaildirTypes
  <2>7. pc[c] = "open" /\ pc'[c] = "find" /\ seek'[c] = s
    BY <2>1 DEF Shared!OpenMessage, MaildirInv, MaildirTypes
  <2>8. Tracked(c)'
    BY <1>2, <2>7 DEF MaildirInv, Tracked, Scanned, Listed
  <2>9. KnownMessages(c)'
    BY <1>2 DEF MaildirInv, KnownMessages
  <2>10. Searched(c)'
    <3>1. \A f \in files : f.dir \in {"new", "cur"}
      BY DEF MaildirInv, FilesDelivered, Shared!Names
    <3>2. path[c][k].msg \in delivered
      BY DEF MaildirInv, KnownMessages
    <3> QED BY <1>2, <2>2, <2>7, <3>1, <3>2 DEF Searched, InSearch
  <2> QED BY <1>2, <2>5, <2>6, <2>8, <2>9, <2>10, OthersKept
<1> QED BY <1>3, <1>4

(* A search reads one of its directories: what it finds there is one file.  *)
LEMMA FindInKeeps ==
    ASSUME MaildirInv, NEW c \in Clients, Shared!FindIn(c) PROVE MaildirInv'
<1>1. PICK d \in seek[c].dirs :
         seek' = [seek EXCEPT ![c].dirs = @ \ {d},
                              ![c].found = {f \in Shared!In(d) : f.msg = seek[c].msg}]
  BY DEF Shared!FindIn
<1>2. UNCHANGED <<files, delivered, pc, path, listing, present, moved, missed>>
  BY DEF Shared!FindIn, Shared!mailbox
<1> DEFINE s == [seek[c] EXCEPT !.dirs = @ \ {d},
                                !.found = {f \in Shared!In(d) : f.msg = seek[c].msg}]
<1>3. seek' = [seek EXCEPT ![c] = s]
  BY <1>1 DEF MaildirInv, MaildirTypes
<1>4. /\ s.msg = seek[c].msg /\ s.dirs = seek[c].dirs \ {d} /\ s.stirred = seek[c].stirred
      /\ s.found = {f \in Shared!In(d) : f.msg = seek[c].msg}
  BY DEF MaildirInv, MaildirTypes
<1>5. s \in [msg : Messages \cup {"none"}, dirs : SUBSET {"new", "cur"},
             found : SUBSET Shared!Names, stirred : BOOLEAN]
  BY DEF MaildirInv, MaildirTypes, FilesDelivered, Shared!In
<1> HIDE DEF s
<1>6. MaildirTypes'
  BY <1>2, <1>3, <1>5 DEF MaildirInv, MaildirTypes
<1>7. OnlyTouches(c)
  BY <1>2, <1>3 DEF OnlyTouches, Untouched, MaildirInv, MaildirTypes
<1>8. seek'[c] = s /\ seek[c].found = {}
  BY <1>3 DEF MaildirInv, MaildirTypes, Shared!FindIn
<1>9. Tracked(c)'
  BY <1>2 DEF MaildirInv, Tracked, Scanned, InScan, Listed, Unlisted
<1>10. KnownMessages(c)'
  BY <1>2 DEF MaildirInv, KnownMessages
<1>11. Searched(c)'
  <2>1. ASSUME pc[c] = "find", NEW f \in s.found, NEW g \in s.found PROVE f = g
    BY <1>4 DEF Shared!In, MaildirInv, OneFileEach
  <2>2. ASSUME pc[c] = "find", ~s.stirred, NEW f \in files, f.msg = s.msg
        PROVE  f.dir \in s.dirs \/ f \in s.found
    <3>1. f.dir \in seek[c].dirs
      BY <1>4, <1>8, <2>2 DEF MaildirInv, Searched, InSearch
    <3>2. f.dir = d => f \in s.found
      BY <1>4, <2>2 DEF Shared!In
    <3> QED BY <1>4, <3>1, <3>2
  <2> QED BY <1>2, <1>4, <1>8, <2>1, <2>2 DEF MaildirInv, Searched, InSearch
<1> QED BY <1>2, <1>6, <1>7, <1>9, <1>10, <1>11, OthersKept

(* What was found is opened, or has gone again.                             *)
LEMMA OpenFoundKeeps ==
    ASSUME MaildirInv, NEW c \in Clients, Shared!OpenFound(c) PROVE MaildirInv'
<1>1. PICK f \in seek[c].found :
         IF f \in files
         THEN pc' = [pc EXCEPT ![c] = "open"] /\ seek' = [seek EXCEPT ![c] = Shared!NoSeek]
         ELSE seek' = [seek EXCEPT ![c].found = {}] /\ UNCHANGED pc
  BY DEF Shared!OpenFound, Shared!Goto
<1>2. UNCHANGED <<files, delivered, path, listing, present, moved, missed>> /\ pc[c] = "find"
  BY DEF Shared!OpenFound, Shared!mailbox
<1> DEFINE s == IF f \in files THEN Shared!NoSeek ELSE [seek[c] EXCEPT !.found = {}]
<1>3. seek' = [seek EXCEPT ![c] = s]
  BY <1>1 DEF MaildirInv, MaildirTypes
<1>4. f \notin files => /\ s.msg = seek[c].msg /\ s.dirs = seek[c].dirs /\ s.found = {}
                       /\ s.stirred = seek[c].stirred
  BY DEF MaildirInv, MaildirTypes
<1>5. s \in [msg : Messages \cup {"none"}, dirs : SUBSET {"new", "cur"},
             found : SUBSET Shared!Names, stirred : BOOLEAN]
  BY DEF MaildirInv, MaildirTypes, Shared!NoSeek
<1> HIDE DEF s
<1>6. MaildirTypes'
  BY <1>1, <1>2, <1>3, <1>5 DEF MaildirInv, MaildirTypes, Places
<1>7. OnlyTouches(c)
  BY <1>1, <1>2, <1>3 DEF OnlyTouches, Untouched, MaildirInv, MaildirTypes
<1>8. seek'[c] = s /\ pc'[c] = IF f \in files THEN "open" ELSE "find"
  BY <1>1, <1>2, <1>3 DEF MaildirInv, MaildirTypes
<1>9. Tracked(c)'
  BY <1>2, <1>8 DEF MaildirInv, Tracked, Scanned, Listed
<1>10. KnownMessages(c)'
  BY <1>2 DEF MaildirInv, KnownMessages
<1>11. Searched(c)'
  BY <1>2, <1>4, <1>8 DEF MaildirInv, Searched, InSearch
<1> QED BY <1>2, <1>6, <1>7, <1>9, <1>10, <1>11, OthersKept

(* A search gives up when no file is left to be found: unless others moved  *)
(* the message, there is none.                                              *)
LEMMA GiveUpKeeps ==
    ASSUME MaildirInv, NEW c \in Clients, Shared!GiveUp(c) PROVE MaildirInv'
<1>1. /\ pc[c] = "find" /\ seek[c].found = {} /\ seek[c].dirs = {}
      /\ pc' = [pc EXCEPT ![c] = "open"] /\ seek' = [seek EXCEPT ![c] = Shared!NoSeek]
      /\ missed' = (missed \/ (~seek[c].stirred /\ \E f \in files : f.msg = seek[c].msg))
      /\ UNCHANGED <<files, delivered, path, listing, present, moved>>
  BY DEF Shared!GiveUp, Shared!Goto, Shared!mailbox
<1>2. missed' = missed
  BY <1>1 DEF MaildirInv, Searched, InSearch
<1>3. Shared!NoSeek \in [msg : Messages \cup {"none"}, dirs : SUBSET {"new", "cur"},
                        found : SUBSET Shared!Names, stirred : BOOLEAN]
  BY DEF Shared!NoSeek
<1>4. MaildirTypes'
  BY <1>1, <1>3 DEF MaildirInv, MaildirTypes, Places
<1>5. OnlyTouches(c)
  BY <1>1 DEF OnlyTouches, Untouched, MaildirInv, MaildirTypes
<1>6. pc'[c] = "open"
  BY <1>1 DEF MaildirInv, MaildirTypes
<1>7. Tracked(c)'
  BY <1>1, <1>6 DEF MaildirInv, Tracked, Scanned, Listed
<1>8. KnownMessages(c)' /\ Searched(c)'
  BY <1>1, <1>6 DEF MaildirInv, KnownMessages, Searched
<1> QED BY <1>1, <1>2, <1>4, <1>5, <1>7, <1>8, OthersKept

(* A closing mailbox renames or removes a file: the others have a note of   *)
(* it.                                                                      *)
Changes(c, f) ==
    /\ pc[c] = "sync" /\ f \in files /\ Shared!Stir(c, f.msg)
    /\ path' \in [Clients -> Seq(Shared!Names)]
    /\ \A d \in Clients \ {c} : path'[d] = path[d]
    /\ \A j \in DOMAIN path'[c] : path'[c][j].msg \in delivered
    /\ UNCHANGED <<delivered, pc, listing, present, missed>>
Becomes(f, G) ==
    /\ files' = (files \ {f}) \cup G /\ G \subseteq Shared!Names
    /\ \A g \in G : g.msg = f.msg /\ \A h \in G : g = h
LEMMA FilesChanged ==
    ASSUME MaildirInv, NEW c \in Clients, NEW f, Changes(c, f), NEW G, Becomes(f, G)
    PROVE  MaildirInv'
<1> USE DEF Changes, Becomes
<1> DEFINE m == f.msg
<1>1. f \in Shared!Names /\ m \in Messages /\ m \in delivered
  BY DEF MaildirInv, FilesDelivered, Shared!Names
<1>2. /\ moved' = [d \in Clients |-> IF d = c \/ pc[d] = "none" THEN moved[d]
                                     ELSE moved[d] \cup {m}]
      /\ seek' = [d \in Clients |-> IF d # c /\ seek[d].msg = m
                                    THEN [seek[d] EXCEPT !.stirred = TRUE] ELSE seek[d]]
  BY DEF Shared!Stir
<1>3. ASSUME NEW d \in Clients
      PROVE  /\ seek'[d].msg = seek[d].msg /\ seek'[d].dirs = seek[d].dirs
             /\ seek'[d].found = seek[d].found /\ seek'[d] \in
                    [msg : Messages \cup {"none"}, dirs : SUBSET {"new", "cur"},
                     found : SUBSET Shared!Names, stirred : BOOLEAN]
             /\ ~seek'[d].stirred => ~seek[d].stirred /\ (d = c \/ seek[d].msg # m)
  <2>1. PICK s : s = seek[d]
    OBVIOUS
  <2>2. s \in [msg : Messages \cup {"none"}, dirs : SUBSET {"new", "cur"},
               found : SUBSET Shared!Names, stirred : BOOLEAN]
    BY <2>1 DEF MaildirInv, MaildirTypes
  <2>3. /\ [s EXCEPT !.stirred = TRUE].msg = s.msg /\ [s EXCEPT !.stirred = TRUE].dirs = s.dirs
        /\ [s EXCEPT !.stirred = TRUE].found = s.found /\ [s EXCEPT !.stirred = TRUE].stirred
        /\ [s EXCEPT !.stirred = TRUE] \in
             [msg : Messages \cup {"none"}, dirs : SUBSET {"new", "cur"},
              found : SUBSET Shared!Names, stirred : BOOLEAN]
    BY <2>2
  <2>4. seek'[d] = IF d # c /\ s.msg = m THEN [s EXCEPT !.stirred = TRUE] ELSE s
    BY <1>2, <2>1
  <2>5. CASE d # c /\ s.msg = m
    BY <2>1, <2>3, <2>4, <2>5
  <2>6. CASE ~(d # c /\ s.msg = m)
    BY <2>1, <2>2, <2>4, <2>6
  <2> QED BY <2>5, <2>6
<1>4. MaildirTypes'
  <2>1. seek' \in [Clients -> [msg : Messages \cup {"none"}, dirs : SUBSET {"new", "cur"},
                              found : SUBSET Shared!Names, stirred : BOOLEAN]]
    BY <1>2, <1>3
  <2>2. moved' \in [Clients -> SUBSET Messages]
    BY <1>1, <1>2 DEF MaildirInv, MaildirTypes
  <2> QED BY <2>1, <2>2 DEF MaildirInv, MaildirTypes
<1>5. OneFileEach'
  <2>1. ASSUME NEW g \in files', NEW h \in files', g.msg = h.msg PROVE g = h
    <3>1. \A x \in files : x # f => x.msg # f.msg
      BY DEF MaildirInv, OneFileEach
    <3> QED BY <2>1, <3>1 DEF MaildirInv, OneFileEach
  <2> QED BY <2>1 DEF OneFileEach
<1>6. FilesDelivered'
  BY <1>1 DEF MaildirInv, FilesDelivered
<1>7. ASSUME NEW d \in Clients PROVE Tracked(d)'
  <2>1. CASE d = c
    BY <1>7, <2>1 DEF Tracked, Scanned
  <2>2. CASE d # c /\ pc[d] = "none"
    BY <1>7, <2>2 DEF Tracked, MaildirInv
  <2>3. CASE d # c /\ pc[d] # "none"
    <3>1. /\ m \in moved'[d] /\ moved[d] \subseteq moved'[d]
          /\ path'[d] = path[d] /\ listing' = listing /\ pc' = pc
      BY <1>2, <2>3
    <3>2. ASSUME NEW n \in present[d] \ moved'[d] PROVE Scanned(d, n)'
      <4>1. n # m /\ Scanned(d, n)
        BY <2>3, <3>1, <3>2 DEF MaildirInv, Tracked
      <4>2. ASSUME NEW g \in files, InScan(d, n, g) PROVE g \in files' /\ InScan(d, n, g)'
        <5>1. g # f
          BY <4>1, <4>2 DEF InScan
        <5>2. Listed(d, n)' = Listed(d, n) /\ Unlisted(d, n)' = Unlisted(d, n)
          BY <3>1 DEF Listed, Unlisted
        <5> QED BY <3>1, <4>2, <5>1, <5>2 DEF InScan
      <4>3. Listed(d, n) => Listed(d, n)'
        BY <3>1 DEF Listed
      <4> QED BY <3>1, <4>1, <4>2, <4>3 DEF Scanned
    <3> QED BY <2>3, <3>2 DEF Tracked
  <2> QED BY <2>1, <2>2, <2>3
<1>8. ASSUME NEW d \in Clients PROVE KnownMessages(d)'
  BY <1>8 DEF MaildirInv, KnownMessages
<1>9. ASSUME NEW d \in Clients PROVE Searched(d)'
  <2>1. CASE d = c
    BY <2>1 DEF Searched
  <2>2. CASE d # c
    <3> SUFFICES ASSUME pc[d] = "find"
                 PROVE  /\ seek'[d].msg \in delivered
                        /\ \A g \in seek'[d].found : \A h \in seek'[d].found : g = h
                        /\ ~seek'[d].stirred =>
                               \A g \in files' : g.msg = seek'[d].msg => InSearch(d, g)'
      BY DEF Searched
    <3>1. Searched(d)
      BY DEF MaildirInv
    <3>2. ASSUME ~seek'[d].stirred, NEW g \in files', g.msg = seek'[d].msg PROVE InSearch(d, g)'
      <4>1. seek[d].msg # m /\ ~seek[d].stirred /\ g.msg = seek[d].msg
        BY <1>3, <2>2, <3>2
      <4>2. g \in files
        BY <4>1
      <4> QED BY <1>3, <3>1, <4>1, <4>2 DEF Searched, InSearch
    <3> QED BY <1>3, <3>1, <3>2 DEF Searched
  <2> QED BY <2>1, <2>2
<1> QED BY <1>4, <1>5, <1>6, <1>7, <1>8, <1>9 DEF MaildirInv

LEMMA PurgeMessageKeeps ==
    ASSUME MaildirInv, NEW c \in Clients, Shared!PurgeMessage(c) PROVE MaildirInv'
<1>1. PICK f : f = path[c][at[c]]
  OBVIOUS
<1>2. /\ pc[c] = "sync" /\ UNCHANGED <<delivered, pc, path, listing, present, missed>>
      /\ IF f \in files THEN files' = files \ {f} /\ Shared!Stir(c, f.msg)
         ELSE UNCHANGED <<files, moved, seek>>
  BY <1>1 DEF Shared!PurgeMessage, Shared!Syncing
<1>3. CASE f \notin files
  BY <1>2, <1>3, AllKept
<1>4. CASE f \in files
  <2>1. files' = (files \ {f}) \cup {}
    BY <1>2, <1>4
  <2>2. path' \in [Clients -> Seq(Shared!Names)] /\ \A d \in Clients \ {c} : path'[d] = path[d]
    BY <1>2 DEF MaildirInv, MaildirTypes
  <2>3. \A j \in DOMAIN path'[c] : path'[c][j].msg \in delivered
    BY <1>2 DEF MaildirInv, KnownMessages
  <2>4. PICK G : G = {}
    OBVIOUS
  <2>5. G \in SUBSET Shared!Names /\ files' = (files \ {f}) \cup G
    BY <2>1, <2>4
  <2>6. Becomes(f, G)
    BY <2>4, <2>5 DEF Becomes
  <2>7. Changes(c, f)
    BY <1>2, <1>4, <2>2, <2>3 DEF Changes
  <2> QED BY <2>6, <2>7, FilesChanged
<1> QED BY <1>3, <1>4

LEMMA RenameMessageKeeps ==
    ASSUME MaildirInv, NEW c \in Clients, Shared!RenameMessage(c) PROVE MaildirInv'
<1>1. PICK k, f, g : /\ k = at[c] /\ f = path[c][k]
                     /\ g = Shared!NameOf(f.msg, ctx[c].hdrs[k])
  OBVIOUS
<1>2. /\ pc[c] = "sync" /\ k \in DOMAIN path[c]
      /\ UNCHANGED <<delivered, listing, present, missed>>
      /\ IF f \in files
         THEN /\ files' = (files \ {f}) \cup {g} /\ Shared!Stir(c, f.msg)
              /\ path' = [path EXCEPT ![c][k] = g] /\ UNCHANGED pc
         ELSE pc' = [pc EXCEPT ![c] = "leaked"] /\ UNCHANGED <<files, path, moved, seek>>
  BY <1>1 DEF Shared!RenameMessage, Shared!Syncing, Shared!Goto
<1>3. CASE f \notin files
  BY <1>2, <1>3, MailboxRests
<1>4. CASE f \in files
  <2>1. f \in Shared!Names /\ f.msg \in Messages /\ f.msg \in delivered
    BY <1>4 DEF MaildirInv, FilesDelivered, Shared!Names
  <2>2. g \in Shared!Names /\ g.msg = f.msg
    BY <1>1, <2>1 DEF Shared!NameOf, Shared!FlagsOf, Shared!Names
  <2>3. path[c] \in Seq(Shared!Names)
    BY DEF MaildirInv, MaildirTypes
  <2>4. path' = [path EXCEPT ![c] = [path[c] EXCEPT ![k] = g]]
    BY <1>2, <1>4
  <2>5. [path[c] EXCEPT ![k] = g] \in Seq(Shared!Names)
    BY <1>2, <2>2, <2>3
  <2>6. path' \in [Clients -> Seq(Shared!Names)] /\ \A d \in Clients \ {c} : path'[d] = path[d]
    BY <2>4, <2>5 DEF MaildirInv, MaildirTypes
  <2>7. \A j \in DOMAIN path'[c] : path'[c][j].msg \in delivered
    BY <1>2, <2>1, <2>2, <2>4 DEF MaildirInv, MaildirTypes, KnownMessages
  <2>8. PICK G : G = {g}
    OBVIOUS
  <2>9. G \in SUBSET Shared!Names /\ files' = (files \ {f}) \cup G
    BY <1>2, <1>4, <2>2, <2>8
  <2>10. Becomes(f, G)
    BY <2>2, <2>8, <2>9 DEF Becomes
  <2>11. Changes(c, f)
    BY <1>2, <1>4, <2>6, <2>7 DEF Changes
  <2> QED BY <2>10, <2>11, FilesChanged
<1> QED BY <1>3, <1>4

LEMMA CloseKeeps ==
    ASSUME MaildirInv, NEW c \in Clients, Shared!Close(c) PROVE MaildirInv'
<1>1. UNCHANGED <<files, delivered, path, listing, seek, present, moved, missed>>
  BY DEF Shared!Close, Shared!mailbox
<1>2. PICK p \in {"closed", "sync"} : pc' = [pc EXCEPT ![c] = p]
  BY DEF Shared!Close, Shared!Goto
<1> QED BY <1>1, <1>2, MailboxRests

LEMMA MaildirKept == MaildirInv /\ [Shared!Next]_(Shared!vars) => MaildirInv'
<1> SUFFICES ASSUME MaildirInv, [Shared!Next]_(Shared!vars) PROVE MaildirInv'
  OBVIOUS
<1>1. ASSUME NEW m \in Messages, Shared!Deliver(m) PROVE MaildirInv'
  BY <1>1, DeliverKeeps
<1>2. ASSUME NEW c \in Clients, Shared!Step(c) PROVE MaildirInv'
  <2>1. CASE Shared!Open(c)
    BY <2>1, OpenKeeps
  <2>2. CASE Shared!ParseEntry(c)
    BY <2>2, ParseEntryKeeps
  <2>3. CASE Shared!ScanCur(c)
    BY <2>3, ScanCurKeeps
  <2>4. CASE Shared!Opened(c)
    BY <2>4, OpenedKeeps
  <2>5. CASE Shared!SetMessageFlag(c) \/ Shared!ResetMessageFlag(c)
    BY <2>5, AllKept DEF Shared!SetMessageFlag, Shared!ResetMessageFlag, Shared!Edit
  <2>6. CASE Shared!OpenMessage(c)
    BY <2>6, OpenMessageKeeps
  <2>7. CASE Shared!FindIn(c)
    BY <2>7, FindInKeeps
  <2>8. CASE Shared!OpenFound(c)
    BY <2>8, OpenFoundKeeps
  <2>9. CASE Shared!GiveUp(c)
    BY <2>9, GiveUpKeeps
  <2>10. CASE Shared!Close(c)
    BY <2>10, CloseKeeps
  <2>11. CASE Shared!PurgeMessage(c)
    BY <2>11, PurgeMessageKeeps
  <2>12. CASE Shared!KeepMessage(c)
    BY <2>12, AllKept DEF Shared!KeepMessage, Shared!Syncing
  <2>13. CASE Shared!RenameMessage(c)
    BY <2>13, RenameMessageKeeps
  <2>14. CASE Shared!Closed(c)
    BY <2>14, MailboxRests DEF Shared!Closed, Shared!Goto, Shared!mailbox
  <2>15. CASE Shared!Die(c)
    BY <2>15, MailboxRests DEF Shared!Die, Shared!Goto, Shared!mailbox
  <2> QED
    BY <1>2, <2>1, <2>2, <2>3, <2>4, <2>5, <2>6, <2>7, <2>8, <2>9, <2>10, <2>11, <2>12,
       <2>13, <2>14, <2>15 DEF Shared!Step
<1>3. CASE UNCHANGED Shared!vars
  BY <1>3, AllKept DEF Shared!vars, Shared!mailbox
<1> QED BY <1>1, <1>2, <1>3 DEF Shared!Next

(* Any number of mailboxes on one maildir, and mail delivered while they    *)
(* read it: one that is open lists once each message nobody has moved since *)
(* its scan began, and a search finds the message it is for unless it was   *)
(* moved during the search (mh.c).                                          *)
THEOREM MaildirFolderHolds == Shared!Spec => [](Shared!ListedOnce /\ Shared!MovedMessageFound)
<1>1. MaildirInv => Shared!ListedOnce /\ Shared!MovedMessageFound
  BY DEF MaildirInv, Tracked, Scanned, Listed, Shared!ListedOnce, Shared!MovedMessageFound
<1> QED BY <1>1, MaildirStarts, MaildirKept, PTL DEF Shared!Spec

-----------------------------------------------------------------------------
(* Closing a maildir.  First what the counter of deleted messages is worth: *)
(* n counts the members of S.                                               *)
Counts(f, S, n) ==
    /\ \A i \in 1..n : f[i] \in S /\ \A j \in 1..n : f[i] = f[j] => i = j
    /\ \A x \in S : \E i \in 1..n : f[i] = x
Counted(S, n) == n \in Nat /\ \E f : Counts(f, S, n)

LEMMA CountedNone == Counted({}, 0) /\ \A S : Counted(S, 0) => S = {}
<1>1. PICK f : f = <<>>
  OBVIOUS
<1>2. Counts(f, {}, 0)
  BY DEF Counts
<1> QED BY <1>2 DEF Counted, Counts

LEMMA CountedMore ==
    ASSUME NEW S, NEW n, Counted(S, n), NEW x, x \notin S PROVE Counted(S \cup {x}, n + 1)
<1>1. PICK f : Counts(f, S, n)
  BY DEF Counted
<1>2. n \in Nat
  BY DEF Counted
<1>3. PICK g : g = [i \in 1 .. n + 1 |-> IF i = n + 1 THEN x ELSE f[i]]
  OBVIOUS
<1>4. g[n + 1] = x /\ \A i \in 1..n : g[i] = f[i]
  BY <1>2, <1>3
<1>5. ASSUME NEW i \in 1 .. n + 1, NEW j \in 1 .. n + 1, g[i] = g[j] PROVE i = j
  BY <1>1, <1>2, <1>4, <1>5 DEF Counts
<1>6. ASSUME NEW i \in 1 .. n + 1 PROVE g[i] \in S \cup {x}
  BY <1>1, <1>2, <1>4 DEF Counts
<1>7. ASSUME NEW y \in S \cup {x} PROVE \E i \in 1 .. n + 1 : g[i] = y
  <2>1. CASE y = x
    BY <1>2, <1>4, <2>1
  <2>2. CASE y \in S
    <3>1. PICK i \in 1..n : f[i] = y
      BY <1>1, <2>2 DEF Counts
    <3> QED BY <1>2, <1>4, <3>1
  <2> QED BY <2>1, <2>2
<1>8. Counts(g, S \cup {x}, n + 1)
  BY <1>5, <1>6, <1>7 DEF Counts
<1> QED BY <1>2, <1>8 DEF Counted

LEMMA CountedLess ==
    ASSUME NEW S, NEW n, Counted(S, n), NEW x \in S PROVE Counted(S \ {x}, n - 1)
<1>1. PICK f : Counts(f, S, n)
  BY DEF Counted
<1>2. PICK k \in 1..n : f[k] = x
  BY <1>1 DEF Counts
<1>3. n \in Nat /\ n - 1 \in Nat
  BY <1>2 DEF Counted
<1>4. PICK g : g = [i \in 1 .. n - 1 |-> IF i = k THEN f[n] ELSE f[i]]
  OBVIOUS
<1>5. \A i \in 1 .. n - 1 : g[i] = IF i = k THEN f[n] ELSE f[i]
  BY <1>4
<1>6. ASSUME NEW i \in 1 .. n - 1, NEW j \in 1 .. n - 1, g[i] = g[j] PROVE i = j
  <2>1. i \in 1..n /\ j \in 1..n /\ n \in 1..n /\ i # n /\ j # n
    BY <1>3
  <2>2. \A a, b \in 1..n : f[a] = f[b] => a = b
    BY <1>1 DEF Counts
  <2> QED BY <1>5, <1>6, <2>1, <2>2
<1>7. ASSUME NEW i \in 1 .. n - 1 PROVE g[i] \in S \ {x}
  <2>1. i \in 1..n /\ n \in 1..n /\ i # n
    BY <1>3
  <2>2. \A a \in 1..n : f[a] \in S /\ (f[a] = x => a = k)
    BY <1>1, <1>2 DEF Counts
  <2> QED BY <1>5, <2>1, <2>2
<1>8. ASSUME NEW y \in S \ {x} PROVE \E i \in 1 .. n - 1 : g[i] = y
  <2>1. PICK i \in 1..n : f[i] = y
    BY <1>1 DEF Counts
  <2>2. i # k
    BY <1>2, <2>1
  <2>3. CASE i = n
    <3>1. k \in 1 .. n - 1 /\ g[k] = f[n]
      BY <1>3, <1>5, <2>2, <2>3
    <3> QED BY <2>1, <2>3, <3>1
  <2>4. CASE i # n
    <3>1. i \in 1 .. n - 1 /\ g[i] = f[i]
      BY <1>3, <1>5, <2>2, <2>4
    <3> QED BY <2>1, <3>1
  <2> QED BY <2>3, <2>4
<1>9. Counts(g, S \ {x}, n - 1)
  BY <1>6, <1>7, <1>8 DEF Counts
<1> QED BY <1>3, <1>9 DEF Counted

-----------------------------------------------------------------------------
(* What a change of a flag does to a context: one header changes, and what  *)
(* a close will look at knows of it.                                        *)
IsContext(x, K) ==
    /\ x = [hdrs |-> x.hdrs, new |-> x.new, unread |-> x.unread, flagged |-> x.flagged,
            deleted |-> x.deleted, tagged |-> x.tagged, changed |-> x.changed,
            readonly |-> x.readonly]
    /\ x.hdrs \in [K -> Shared!Header] /\ x.changed \in {0, 1}
SameFlags(g, h) == g.read = h.read /\ g.replied = h.replied /\ g.flagged = h.flagged
HeaderEdited(g, h) ==
    /\ g.trash = h.trash /\ (h.changed => g.changed) /\ (~g.changed => SameFlags(g, h))
DeletionSeen(x, y, g, h) ==
    \/ g.deleted = h.deleted /\ y.deleted = x.deleted
    \/ ~h.deleted /\ g.deleted /\ y.deleted = x.deleted + 1
    \/ h.deleted /\ ~g.deleted /\ y.deleted = x.deleted - 1 /\ (h.trash => y.changed = 1)
ContextEdited(x, y, i, g, h) ==
    /\ y.hdrs = [x.hdrs EXCEPT ![i] = g] /\ g \in Shared!Header
    /\ IsContext(y, DOMAIN x.hdrs)
    /\ y.changed \in {0, 1} /\ (x.changed = 1 => y.changed = 1)
    /\ (g.changed => h.changed \/ y.changed = 1)
    /\ HeaderEdited(g, h) /\ DeletionSeen(x, y, g, h)
Edited(x, y, i) == \E g : ContextEdited(x, y, i, g, x.hdrs[i])

LEMMA NotEdited ==
    ASSUME NEW K, NEW x, IsContext(x, K), NEW i \in K PROVE Edited(x, x, i)
<1>1. x.hdrs[i] \in Shared!Header /\ x.hdrs = [x.hdrs EXCEPT ![i] = x.hdrs[i]]
      /\ x.changed \in {0, 1} /\ DOMAIN x.hdrs = K
  BY DEF IsContext
<1>2. ContextEdited(x, x, i, x.hdrs[i], x.hdrs[i])
  BY <1>1 DEF ContextEdited, HeaderEdited, SameFlags, DeletionSeen
<1> QED BY <1>2 DEF Edited

LEMMA FlagsEdit ==
    ASSUME NEW K, NEW x, IsContext(x, K), NEW i \in K
    PROVE  /\ Edited(x, Shared!MarkDeleted(x, i), i) /\ Edited(x, Shared!Undelete(x, i), i)
           /\ Edited(x, Shared!MarkNew(x, i), i) /\ Edited(x, Shared!MarkRead(x, i), i)
           /\ Edited(x, Shared!MarkUnread(x, i), i) /\ Edited(x, Shared!MarkOld(x, i), i)
           /\ Edited(x, Shared!UnmarkOld(x, i), i) /\ Edited(x, Shared!MarkReplied(x, i), i)
           /\ Edited(x, Shared!UnmarkReplied(x, i), i) /\ Edited(x, Shared!MarkFlagged(x, i), i)
           /\ Edited(x, Shared!UnmarkFlagged(x, i), i) /\ Edited(x, Shared!MarkTagged(x, i), i)
           /\ Edited(x, Shared!UnmarkTagged(x, i), i)
<1>1. PICK h : h = x.hdrs[i]
  OBVIOUS
<1>2. h \in Shared!Header /\ x.changed \in {0, 1} /\ DOMAIN x.hdrs = K /\ Edited(x, x, i) /\ Magic = "maildir"
  BY <1>1, NotEdited, FolderAssumption DEF IsContext, Shared!ConstantsOK
<1>3. ASSUME NEW g \in Shared!Header PROVE [x.hdrs EXCEPT ![i] = g] \in [K -> Shared!Header]
  BY DEF IsContext
<1>4. Edited(x, Shared!MarkDeleted(x, i), i)
  <2>1. CASE h.deleted
    BY <1>1, <1>2, <2>1 DEF Shared!MarkDeleted
  <2>2. CASE ~h.deleted
    <3>1. PICK g : g = [h EXCEPT !.deleted = TRUE]
      OBVIOUS
    <3>2. PICK y : y = Shared!MarkDeleted(x, i)
      OBVIOUS
    <3>3. g \in Shared!Header /\ HeaderEdited(g, h) /\ g.deleted /\ g.changed = h.changed
      BY <1>2, <3>1 DEF HeaderEdited, SameFlags, Shared!Header
    <3>4. [h EXCEPT !.deleted = TRUE, !.changed = @ \/ Magic = "imap"] = g
      BY <1>2, <3>1 DEF Shared!Header
    <3>5. y = [x EXCEPT !.hdrs = [@ EXCEPT ![i] = g], !.deleted = @ + 1, !.changed = @]
      BY <1>1, <1>2, <2>2, <3>2, <3>4 DEF Shared!MarkDeleted
    <3>6. y.hdrs = [x.hdrs EXCEPT ![i] = g] /\ y.deleted = x.deleted + 1 /\ y.changed = x.changed
      BY <3>5 DEF IsContext
    <3>7. IsContext(y, K)
      <4>1. [x.hdrs EXCEPT ![i] = g] \in [K -> Shared!Header]
        BY <1>3, <3>3
      <4> QED BY <1>2, <3>5, <4>1 DEF IsContext
    <3>8. ContextEdited(x, y, i, g, h)
      BY <1>2, <2>2, <3>3, <3>6, <3>7 DEF ContextEdited, DeletionSeen
    <3> QED BY <1>1, <3>2, <3>8 DEF Edited
  <2> QED BY <2>1, <2>2
<1>5. Edited(x, Shared!Undelete(x, i), i)
  <2>1. CASE ~h.deleted
    BY <1>1, <1>2, <2>1 DEF Shared!Undelete
  <2>2. CASE ~(~h.deleted)
    <3>1. PICK g : g = [h EXCEPT !.deleted = FALSE]
      OBVIOUS
    <3>2. PICK y : y = Shared!Undelete(x, i)
      OBVIOUS
    <3>3. g \in Shared!Header /\ HeaderEdited(g, h) /\ ~g.deleted /\ g.changed = h.changed
      BY <1>2, <3>1 DEF HeaderEdited, SameFlags, Shared!Header
    <3>4. [h EXCEPT !.deleted = FALSE, !.changed = @ \/ Magic = "imap"] = g
      BY <1>2, <3>1 DEF Shared!Header
    <3>5. y = [x EXCEPT !.hdrs = [@ EXCEPT ![i] = g], !.deleted = @ - 1,
            !.changed = IF Magic = "imap" \/ (Magic = "maildir" /\ h.trash) THEN 1 ELSE @]
      BY <1>1, <1>2, <2>2, <3>2, <3>4 DEF Shared!Undelete
    <3>6. y.hdrs = [x.hdrs EXCEPT ![i] = g] /\ y.deleted = x.deleted - 1 /\ y.changed = IF h.trash THEN 1 ELSE x.changed
      BY <1>2, <3>5 DEF IsContext
    <3>7. IsContext(y, K)
      <4>1. [x.hdrs EXCEPT ![i] = g] \in [K -> Shared!Header]
        BY <1>3, <3>3
      <4> QED BY <1>2, <3>5, <4>1 DEF IsContext
    <3>8. ContextEdited(x, y, i, g, h)
      BY <1>2, <2>2, <3>3, <3>6, <3>7 DEF ContextEdited, DeletionSeen
    <3> QED BY <1>1, <3>2, <3>8 DEF Edited
  <2> QED BY <2>1, <2>2
<1>6. Edited(x, Shared!MarkNew(x, i), i)
  <2>1. CASE ~h.read /\ ~h.old
    BY <1>1, <1>2, <2>1 DEF Shared!MarkNew
  <2>2. CASE ~(~h.read /\ ~h.old)
    <3>1. PICK g : g = [h EXCEPT !.old = FALSE, !.read = FALSE, !.changed = TRUE]
      OBVIOUS
    <3>2. PICK y : y = Shared!MarkNew(x, i)
      OBVIOUS
    <3>3. g \in Shared!Header /\ HeaderEdited(g, h) /\ g.deleted = h.deleted /\ g.changed
      BY <1>2, <3>1 DEF HeaderEdited, SameFlags, Shared!Header
    <3>5. y = [x EXCEPT !.hdrs = [@ EXCEPT ![i] = g], !.new = @ + 1,
            !.unread = @ + Shared!Bit(h.read), !.changed = 1]
      BY <1>1, <1>2, <2>2, <3>2, <3>1 DEF Shared!MarkNew
    <3>6. y.hdrs = [x.hdrs EXCEPT ![i] = g] /\ y.deleted = x.deleted /\ y.changed = 1
      BY <1>2, <3>5 DEF IsContext
    <3>7. IsContext(y, K)
      <4>1. [x.hdrs EXCEPT ![i] = g] \in [K -> Shared!Header]
        BY <1>3, <3>3
      <4> QED BY <1>2, <3>5, <4>1 DEF IsContext
    <3>8. ContextEdited(x, y, i, g, h)
      BY <1>2, <2>2, <3>3, <3>6, <3>7 DEF ContextEdited, DeletionSeen
    <3> QED BY <1>1, <3>2, <3>8 DEF Edited
  <2> QED BY <2>1, <2>2
<1>7. Edited(x, Shared!MarkRead(x, i), i)
  <2>1. CASE h.read
    BY <1>1, <1>2, <2>1 DEF Shared!MarkRead
  <2>2. CASE ~(h.read)
    <3>1. PICK g : g = [h EXCEPT !.read = TRUE, !.changed = TRUE]
      OBVIOUS
    <3>2. PICK y : y = Shared!MarkRead(x, i)
      OBVIOUS
    <3>3. g \in Shared!Header /\ HeaderEdited(g, h) /\ g.deleted = h.deleted /\ g.changed
      BY <1>2, <3>1 DEF HeaderEdited, SameFlags, Shared!Header
    <3>5. y = [x EXCEPT !.hdrs = [@ EXCEPT ![i] = g], !.new = @ - Shared!Bit(~h.old),
            !.unread = @ - 1, !.changed = 1]
      BY <1>1, <1>2, <2>2, <3>2, <3>1 DEF Shared!MarkRead
    <3>6. y.hdrs = [x.hdrs EXCEPT ![i] = g] /\ y.deleted = x.deleted /\ y.changed = 1
      BY <1>2, <3>5 DEF IsContext
    <3>7. IsContext(y, K)
      <4>1. [x.hdrs EXCEPT ![i] = g] \in [K -> Shared!Header]
        BY <1>3, <3>3
      <4> QED BY <1>2, <3>5, <4>1 DEF IsContext
    <3>8. ContextEdited(x, y, i, g, h)
      BY <1>2, <2>2, <3>3, <3>6, <3>7 DEF ContextEdited, DeletionSeen
    <3> QED BY <1>1, <3>2, <3>8 DEF Edited
  <2> QED BY <2>1, <2>2
<1>8. Edited(x, Shared!MarkUnread(x, i), i)
  <2>1. CASE ~h.read
    BY <1>1, <1>2, <2>1 DEF Shared!MarkUnread
  <2>2. CASE ~(~h.read)
    <3>1. PICK g : g = [h EXCEPT !.read = FALSE, !.changed = TRUE]
      OBVIOUS
    <3>2. PICK y : y = Shared!MarkUnread(x, i)
      OBVIOUS
    <3>3. g \in Shared!Header /\ HeaderEdited(g, h) /\ g.deleted = h.deleted /\ g.changed
      BY <1>2, <3>1 DEF HeaderEdited, SameFlags, Shared!Header
    <3>5. y = [x EXCEPT !.hdrs = [@ EXCEPT ![i] = g], !.new = @ + Shared!Bit(~h.old),
            !.unread = @ + 1, !.changed = 1]
      BY <1>1, <1>2, <2>2, <3>2, <3>1 DEF Shared!MarkUnread
    <3>6. y.hdrs = [x.hdrs EXCEPT ![i] = g] /\ y.deleted = x.deleted /\ y.changed = 1
      BY <1>2, <3>5 DEF IsContext
    <3>7. IsContext(y, K)
      <4>1. [x.hdrs EXCEPT ![i] = g] \in [K -> Shared!Header]
        BY <1>3, <3>3
      <4> QED BY <1>2, <3>5, <4>1 DEF IsContext
    <3>8. ContextEdited(x, y, i, g, h)
      BY <1>2, <2>2, <3>3, <3>6, <3>7 DEF ContextEdited, DeletionSeen
    <3> QED BY <1>1, <3>2, <3>8 DEF Edited
  <2> QED BY <2>1, <2>2
<1>9. Edited(x, Shared!MarkOld(x, i), i)
  <2>1. CASE h.old
    BY <1>1, <1>2, <2>1 DEF Shared!MarkOld
  <2>2. CASE ~(h.old)
    <3>1. PICK g : g = [h EXCEPT !.old = TRUE, !.changed = TRUE]
      OBVIOUS
    <3>2. PICK y : y = Shared!MarkOld(x, i)
      OBVIOUS
    <3>3. g \in Shared!Header /\ HeaderEdited(g, h) /\ g.deleted = h.deleted /\ g.changed
      BY <1>2, <3>1 DEF HeaderEdited, SameFlags, Shared!Header
    <3>5. y = [x EXCEPT !.hdrs = [@ EXCEPT ![i] = g], !.new = @ - Shared!Bit(~h.read),
            !.changed = 1]
      BY <1>1, <1>2, <2>2, <3>2, <3>1 DEF Shared!MarkOld
    <3>6. y.hdrs = [x.hdrs EXCEPT ![i] = g] /\ y.deleted = x.deleted /\ y.changed = 1
      BY <1>2, <3>5 DEF IsContext
    <3>7. IsContext(y, K)
      <4>1. [x.hdrs EXCEPT ![i] = g] \in [K -> Shared!Header]
        BY <1>3, <3>3
      <4> QED BY <1>2, <3>5, <4>1 DEF IsContext
    <3>8. ContextEdited(x, y, i, g, h)
      BY <1>2, <2>2, <3>3, <3>6, <3>7 DEF ContextEdited, DeletionSeen
    <3> QED BY <1>1, <3>2, <3>8 DEF Edited
  <2> QED BY <2>1, <2>2
<1>10. Edited(x, Shared!UnmarkOld(x, i), i)
  <2>1. CASE ~h.old
    BY <1>1, <1>2, <2>1 DEF Shared!UnmarkOld
  <2>2. CASE ~(~h.old)
    <3>1. PICK g : g = [h EXCEPT !.old = FALSE, !.changed = TRUE]
      OBVIOUS
    <3>2. PICK y : y = Shared!UnmarkOld(x, i)
      OBVIOUS
    <3>3. g \in Shared!Header /\ HeaderEdited(g, h) /\ g.deleted = h.deleted /\ g.changed
      BY <1>2, <3>1 DEF HeaderEdited, SameFlags, Shared!Header
    <3>5. y = [x EXCEPT !.hdrs = [@ EXCEPT ![i] = g], !.new = @ + Shared!Bit(~h.read),
            !.changed = 1]
      BY <1>1, <1>2, <2>2, <3>2, <3>1 DEF Shared!UnmarkOld
    <3>6. y.hdrs = [x.hdrs EXCEPT ![i] = g] /\ y.deleted = x.deleted /\ y.changed = 1
      BY <1>2, <3>5 DEF IsContext
    <3>7. IsContext(y, K)
      <4>1. [x.hdrs EXCEPT ![i] = g] \in [K -> Shared!Header]
        BY <1>3, <3>3
      <4> QED BY <1>2, <3>5, <4>1 DEF IsContext
    <3>8. ContextEdited(x, y, i, g, h)
      BY <1>2, <2>2, <3>3, <3>6, <3>7 DEF ContextEdited, DeletionSeen
    <3> QED BY <1>1, <3>2, <3>8 DEF Edited
  <2> QED BY <2>1, <2>2
<1>11. Edited(x, Shared!MarkReplied(x, i), i)
  <2>1. CASE h.replied
    BY <1>1, <1>2, <2>1 DEF Shared!MarkReplied
  <2>2. CASE ~(h.replied)
    <3>1. PICK g : g = [h EXCEPT !.replied = TRUE, !.read = TRUE, !.changed = TRUE]
      OBVIOUS
    <3>2. PICK y : y = Shared!MarkReplied(x, i)
      OBVIOUS
    <3>3. g \in Shared!Header /\ HeaderEdited(g, h) /\ g.deleted = h.deleted /\ g.changed
      BY <1>2, <3>1 DEF HeaderEdited, SameFlags, Shared!Header
    <3>5. y = [x EXCEPT !.hdrs = [@ EXCEPT ![i] = g], !.unread = @ - Shared!Bit(~h.read),
            !.new = @ - Shared!Bit(~h.read /\ ~h.old), !.changed = 1]
      BY <1>1, <1>2, <2>2, <3>2, <3>1 DEF Shared!MarkReplied
    <3>6. y.hdrs = [x.hdrs EXCEPT ![i] = g] /\ y.deleted = x.deleted /\ y.changed = 1
      BY <1>2, <3>5 DEF IsContext
    <3>7. IsContext(y, K)
      <4>1. [x.hdrs EXCEPT ![i] = g] \in [K -> Shared!Header]
        BY <1>3, <3>3
      <4> QED BY <1>2, <3>5, <4>1 DEF IsContext
    <3>8. ContextEdited(x, y, i, g, h)
      BY <1>2, <2>2, <3>3, <3>6, <3>7 DEF ContextEdited, DeletionSeen
    <3> QED BY <1>1, <3>2, <3>8 DEF Edited
  <2> QED BY <2>1, <2>2
<1>12. Edited(x, Shared!UnmarkReplied(x, i), i)
  <2>1. CASE ~h.replied
    BY <1>1, <1>2, <2>1 DEF Shared!UnmarkReplied
  <2>2. CASE ~(~h.replied)
    <3>1. PICK g : g = [h EXCEPT !.replied = FALSE, !.changed = TRUE]
      OBVIOUS
    <3>2. PICK y : y = Shared!UnmarkReplied(x, i)
      OBVIOUS
    <3>3. g \in Shared!Header /\ HeaderEdited(g, h) /\ g.deleted = h.deleted /\ g.changed
      BY <1>2, <3>1 DEF HeaderEdited, SameFlags, Shared!Header
    <3>5. y = [x EXCEPT !.hdrs = [@ EXCEPT ![i] = g], !.changed = 1]
      BY <1>1, <1>2, <2>2, <3>2, <3>1 DEF Shared!UnmarkReplied
    <3>6. y.hdrs = [x.hdrs EXCEPT ![i] = g] /\ y.deleted = x.deleted /\ y.changed = 1
      BY <1>2, <3>5 DEF IsContext
    <3>7. IsContext(y, K)
      <4>1. [x.hdrs EXCEPT ![i] = g] \in [K -> Shared!Header]
        BY <1>3, <3>3
      <4> QED BY <1>2, <3>5, <4>1 DEF IsContext
    <3>8. ContextEdited(x, y, i, g, h)
      BY <1>2, <2>2, <3>3, <3>6, <3>7 DEF ContextEdited, DeletionSeen
    <3> QED BY <1>1, <3>2, <3>8 DEF Edited
  <2> QED BY <2>1, <2>2
<1>13. Edited(x, Shared!MarkFlagged(x, i), i)
  <2>1. CASE h.flagged
    BY <1>1, <1>2, <2>1 DEF Shared!MarkFlagged
  <2>2. CASE ~(h.flagged)
    <3>1. PICK g : g = [h EXCEPT !.flagged = TRUE, !.changed = TRUE]
      OBVIOUS
    <3>2. PICK y : y = Shared!MarkFlagged(x, i)
      OBVIOUS
    <3>3. g \in Shared!Header /\ HeaderEdited(g, h) /\ g.deleted = h.deleted /\ g.changed
      BY <1>2, <3>1 DEF HeaderEdited, SameFlags, Shared!Header
    <3>5. y = [x EXCEPT !.hdrs = [@ EXCEPT ![i] = g], !.flagged = @ + 1,
            !.changed = 1]
      BY <1>1, <1>2, <2>2, <3>2, <3>1 DEF Shared!MarkFlagged
    <3>6. y.hdrs = [x.hdrs EXCEPT ![i] = g] /\ y.deleted = x.deleted /\ y.changed = 1
      BY <1>2, <3>5 DEF IsContext
    <3>7. IsContext(y, K)
      <4>1. [x.hdrs EXCEPT ![i] = g] \in [K -> Shared!Header]
        BY <1>3, <3>3
      <4> QED BY <1>2, <3>5, <4>1 DEF IsContext
    <3>8. ContextEdited(x, y, i, g, h)
      BY <1>2, <2>2, <3>3, <3>6, <3>7 DEF ContextEdited, DeletionSeen
    <3> QED BY <1>1, <3>2, <3>8 DEF Edited
  <2> QED BY <2>1, <2>2
<1>14. Edited(x, Shared!UnmarkFlagged(x, i), i)
  <2>1. CASE ~h.flagged
    BY <1>1, <1>2, <2>1 DEF Shared!UnmarkFlagged
  <2>2. CASE ~(~h.flagged)
    <3>1. PICK g : g = [h EXCEPT !.flagged = FALSE, !.changed = TRUE]
      OBVIOUS
    <3>2. PICK y : y = Shared!UnmarkFlagged(x, i)
      OBVIOUS
    <3>3. g \in Shared!Header /\ HeaderEdited(g, h) /\ g.deleted = h.deleted /\ g.changed
      BY <1>2, <3>1 DEF HeaderEdited, SameFlags, Shared!Header
    <3>5. y = [x EXCEPT !.hdrs = [@ EXCEPT ![i] = g], !.flagged = @ - 1,
            !.changed = 1]
      BY <1>1, <1>2, <2>2, <3>2, <3>1 DEF Shared!UnmarkFlagged
    <3>6. y.hdrs = [x.hdrs EXCEPT ![i] = g] /\ y.deleted = x.deleted /\ y.changed = 1
      BY <1>2, <3>5 DEF IsContext
    <3>7. IsContext(y, K)
      <4>1. [x.hdrs EXCEPT ![i] = g] \in [K -> Shared!Header]
        BY <1>3, <3>3
      <4> QED BY <1>2, <3>5, <4>1 DEF IsContext
    <3>8. ContextEdited(x, y, i, g, h)
      BY <1>2, <2>2, <3>3, <3>6, <3>7 DEF ContextEdited, DeletionSeen
    <3> QED BY <1>1, <3>2, <3>8 DEF Edited
  <2> QED BY <2>1, <2>2
<1>15. Edited(x, Shared!MarkTagged(x, i), i)
  <2>1. CASE h.tagged
    BY <1>1, <1>2, <2>1 DEF Shared!MarkTagged
  <2>2. CASE ~(h.tagged)
    <3>1. PICK g : g = [h EXCEPT !.tagged = TRUE]
      OBVIOUS
    <3>2. PICK y : y = Shared!MarkTagged(x, i)
      OBVIOUS
    <3>3. g \in Shared!Header /\ HeaderEdited(g, h) /\ g.deleted = h.deleted /\ g.changed = h.changed
      BY <1>2, <3>1 DEF HeaderEdited, SameFlags, Shared!Header
    <3>5. y = [x EXCEPT !.hdrs = [@ EXCEPT ![i] = g], !.tagged = @ + 1]
      BY <1>1, <1>2, <2>2, <3>2, <3>1 DEF Shared!MarkTagged
    <3>6. y.hdrs = [x.hdrs EXCEPT ![i] = g] /\ y.deleted = x.deleted /\ y.changed = x.changed
      BY <1>2, <3>5 DEF IsContext
    <3>7. IsContext(y, K)
      <4>1. [x.hdrs EXCEPT ![i] = g] \in [K -> Shared!Header]
        BY <1>3, <3>3
      <4> QED BY <1>2, <3>5, <4>1 DEF IsContext
    <3>8. ContextEdited(x, y, i, g, h)
      BY <1>2, <2>2, <3>3, <3>6, <3>7 DEF ContextEdited, DeletionSeen
    <3> QED BY <1>1, <3>2, <3>8 DEF Edited
  <2> QED BY <2>1, <2>2
<1>16. Edited(x, Shared!UnmarkTagged(x, i), i)
  <2>1. CASE ~h.tagged
    BY <1>1, <1>2, <2>1 DEF Shared!UnmarkTagged
  <2>2. CASE ~(~h.tagged)
    <3>1. PICK g : g = [h EXCEPT !.tagged = FALSE]
      OBVIOUS
    <3>2. PICK y : y = Shared!UnmarkTagged(x, i)
      OBVIOUS
    <3>3. g \in Shared!Header /\ HeaderEdited(g, h) /\ g.deleted = h.deleted /\ g.changed = h.changed
      BY <1>2, <3>1 DEF HeaderEdited, SameFlags, Shared!Header
    <3>5. y = [x EXCEPT !.hdrs = [@ EXCEPT ![i] = g], !.tagged = @ - 1]
      BY <1>1, <1>2, <2>2, <3>2, <3>1 DEF Shared!UnmarkTagged
    <3>6. y.hdrs = [x.hdrs EXCEPT ![i] = g] /\ y.deleted = x.deleted /\ y.changed = x.changed
      BY <1>2, <3>5 DEF IsContext
    <3>7. IsContext(y, K)
      <4>1. [x.hdrs EXCEPT ![i] = g] \in [K -> Shared!Header]
        BY <1>3, <3>3
      <4> QED BY <1>2, <3>5, <4>1 DEF IsContext
    <3>8. ContextEdited(x, y, i, g, h)
      BY <1>2, <2>2, <3>3, <3>6, <3>7 DEF ContextEdited, DeletionSeen
    <3> QED BY <1>1, <3>2, <3>8 DEF Edited
  <2> QED BY <2>1, <2>2
<1> QED BY <1>4, <1>5, <1>6, <1>7, <1>8, <1>9, <1>10, <1>11, <1>12, <1>13, <1>14, <1>15, <1>16

LEMMA ChangesEdit ==
    ASSUME NEW K, NEW x, IsContext(x, K), NEW i \in K, NEW flag \in Shared!Flags
    PROVE  Edited(x, Shared!SetFlag(x, i, flag), i) /\ Edited(x, Shared!ResetFlag(x, i, flag), i)
<1>1. Edited(x, x, i)
  BY NotEdited
<1>2. CASE flag = "M_DELETE"
  BY <1>1, <1>2, FlagsEdit DEF Shared!SetFlag, Shared!ResetFlag
<1>3. CASE flag = "M_NEW"
  BY <1>1, <1>3, FlagsEdit DEF Shared!SetFlag, Shared!ResetFlag
<1>4. CASE flag = "M_OLD"
  BY <1>1, <1>4, FlagsEdit DEF Shared!SetFlag, Shared!ResetFlag
<1>5. CASE flag = "M_READ"
  BY <1>1, <1>5, FlagsEdit DEF Shared!SetFlag, Shared!ResetFlag
<1>6. CASE flag = "M_REPLIED"
  BY <1>1, <1>6, FlagsEdit DEF Shared!SetFlag, Shared!ResetFlag
<1>7. CASE flag = "M_FLAG"
  BY <1>1, <1>7, FlagsEdit DEF Shared!SetFlag, Shared!ResetFlag
<1>8. CASE flag = "M_TAG"
  BY <1>1, <1>8, FlagsEdit DEF Shared!SetFlag, Shared!ResetFlag
<1> QED BY <1>2, <1>3, <1>4, <1>5, <1>6, <1>7, <1>8 DEF Shared!Flags

(* The context fits the list of file names: a header that is not changed    *)
(* says what its name says, the mark of the mailbox tells of the changed    *)
(* and undeleted ones and its counter of the deleted ones.                  *)
HeaderFits(h, f, changed) ==
    /\ ~h.changed => /\ h.read = ("S" \in f.flags) /\ h.replied = ("R" \in f.flags)
                     /\ h.flagged = ("F" \in f.flags)
    /\ h.trash = ("T" \in f.flags)
    /\ h.changed => changed = 1
    /\ h.trash /\ ~h.deleted => changed = 1
Fits(x, p) ==
    /\ IsContext(x, DOMAIN p) /\ Counted(Shared!DeletedOnes(x.hdrs), x.deleted)
    /\ \A k \in DOMAIN p : HeaderFits(x.hdrs[k], p[k], x.changed)

LEMMA EditsFit ==
    ASSUME NEW p, NEW x, Fits(x, p), NEW i \in DOMAIN p, NEW y, Edited(x, y, i) PROVE Fits(y, p)
<1>1. PICK h : h = x.hdrs[i]
  OBVIOUS
<1>2. PICK g : ContextEdited(x, y, i, g, h)
  BY <1>1 DEF Edited
<1>3. IsContext(x, DOMAIN p) /\ DOMAIN x.hdrs = DOMAIN p /\ IsContext(y, DOMAIN p)
  BY <1>2 DEF Fits, IsContext, ContextEdited
<1>4. /\ y.hdrs[i] = g /\ \A k \in DOMAIN p : k # i => y.hdrs[k] = x.hdrs[k]
      /\ DOMAIN y.hdrs = DOMAIN p
  BY <1>2, <1>3 DEF ContextEdited
<1>5. Counted(Shared!DeletedOnes(y.hdrs), y.deleted)
  <2>1. PICK S, n : S = Shared!DeletedOnes(x.hdrs) /\ n = x.deleted
    OBVIOUS
  <2>2. Counted(S, n) /\ n \in Nat
    BY <2>1 DEF Fits, Counted
  <2>3. CASE g.deleted = h.deleted /\ y.deleted = x.deleted
    <3>1. Shared!DeletedOnes(y.hdrs) = S
      BY <1>1, <1>3, <1>4, <2>1, <2>3 DEF Shared!DeletedOnes
    <3> QED BY <2>1, <2>2, <2>3, <3>1
  <2>4. CASE ~h.deleted /\ g.deleted /\ y.deleted = x.deleted + 1
    <3>1. Shared!DeletedOnes(y.hdrs) = S \cup {i} /\ i \notin S
      BY <1>1, <1>3, <1>4, <2>1, <2>4 DEF Shared!DeletedOnes
    <3> QED BY <2>1, <2>2, <2>4, <3>1, CountedMore
  <2>5. CASE h.deleted /\ ~g.deleted /\ y.deleted = x.deleted - 1
    <3>1. Shared!DeletedOnes(y.hdrs) = S \ {i} /\ i \in S
      BY <1>1, <1>3, <1>4, <2>1, <2>5 DEF Shared!DeletedOnes
    <3> QED BY <2>1, <2>2, <2>5, <3>1, CountedLess
  <2> QED BY <1>2, <2>3, <2>4, <2>5 DEF ContextEdited, DeletionSeen
<1>6. HeaderFits(g, p[i], y.changed)
  <2>1. /\ HeaderFits(h, p[i], x.changed) /\ HeaderEdited(g, h) /\ DeletionSeen(x, y, g, h)
        /\ (x.changed = 1 => y.changed = 1) /\ (g.changed => h.changed \/ y.changed = 1)
    BY <1>1, <1>2 DEF Fits, ContextEdited
  <2>2. g.changed => y.changed = 1
    BY <2>1 DEF HeaderFits
  <2>3. g.trash /\ ~g.deleted => y.changed = 1
    <3>1. h.trash = g.trash
      BY <2>1 DEF HeaderEdited
    <3>2. h.trash /\ ~h.deleted => y.changed = 1
      BY <2>1 DEF HeaderFits
    <3>3. CASE g.deleted = h.deleted
      BY <3>1, <3>2, <3>3
    <3>4. CASE ~h.deleted /\ g.deleted
      BY <3>4
    <3>5. CASE h.trash => y.changed = 1
      BY <3>1, <3>5
    <3> QED BY <2>1, <3>3, <3>4, <3>5 DEF DeletionSeen
  <2>4. ~g.changed => /\ g.read = ("S" \in p[i].flags) /\ g.replied = ("R" \in p[i].flags)
                      /\ g.flagged = ("F" \in p[i].flags)
    BY <2>1 DEF HeaderFits, HeaderEdited, SameFlags
  <2>5. g.trash = ("T" \in p[i].flags)
    BY <2>1 DEF HeaderFits, HeaderEdited
  <2> QED BY <2>2, <2>3, <2>4, <2>5 DEF HeaderFits
<1>7. ASSUME NEW k \in DOMAIN p, k # i PROVE HeaderFits(y.hdrs[k], p[k], y.changed)
  BY <1>2, <1>4, <1>7 DEF Fits, HeaderFits, ContextEdited
<1> QED BY <1>3, <1>4, <1>5, <1>6, <1>7 DEF Fits

(* A message that is appended with the flags of its name fits.              *)
LEMMA AddedFits ==
    ASSUME NEW p \in Seq(Shared!Names), NEW x, Fits(x, p), NEW f \in Shared!Names
    PROVE  Fits(Shared!AddHeader(x, Len(p) + 1, Shared!ParsedHeader(f)), Append(p, f))
<1>1. PICK h, q, k : /\ h = Shared!ParsedHeader(f) /\ q = Append(p, f) /\ k = Len(p) + 1
  OBVIOUS
<1>2. PICK y : y = Shared!AddHeader(x, k, h)
  OBVIOUS
<1>3. /\ h \in Shared!Header /\ h.read = ("S" \in f.flags) /\ h.replied = ("R" \in f.flags)
      /\ h.flagged = ("F" \in f.flags) /\ h.trash = ("T" \in f.flags)
      /\ ("T" \in f.flags => h.deleted) /\ ~h.changed
  <2>9. /\ ("S" \in f.flags) \in BOOLEAN /\ ("R" \in f.flags) \in BOOLEAN
        /\ ("F" \in f.flags) \in BOOLEAN /\ ("T" \in f.flags) \in BOOLEAN
    OBVIOUS
  <2>1. PICK r \in BOOLEAN : r = ("S" \in f.flags)
    BY <2>9
  <2>6. PICK s \in BOOLEAN : s = ("R" \in f.flags)
    BY <2>9
  <2>7. PICK a \in BOOLEAN : a = ("F" \in f.flags)
    BY <2>9
  <2>8. PICK d \in BOOLEAN : d = ("T" \in f.flags)
    BY <2>9
  <2>2. PICK e \in BOOLEAN : e = ("T" \in f.flags \/ f.msg \in HeaderDeleted)
    OBVIOUS
  <2>3. h = [Shared!BlankHeader EXCEPT !.read = r, !.replied = s, !.flagged = a, !.trash = d,
                                       !.deleted = e]
    BY <1>1, <2>1, <2>2, <2>6, <2>7, <2>8 DEF Shared!ParsedHeader
  <2>4. /\ h \in Shared!Header /\ h.read = r /\ h.replied = s /\ h.flagged = a /\ h.trash = d
        /\ h.deleted = e /\ ~h.changed
    BY <2>3 DEF Shared!BlankHeader, Shared!Header
  <2>5. "T" \in f.flags => e
    BY <2>2
  <2> QED BY <2>1, <2>4, <2>5, <2>6, <2>7, <2>8
<1>4. /\ DOMAIN p = 1 .. Len(p) /\ DOMAIN q = DOMAIN p \cup {k} /\ k \notin DOMAIN p
      /\ q[k] = f /\ \A j \in DOMAIN p : q[j] = p[j]
  BY <1>1
<1>5. IsContext(x, DOMAIN p) /\ DOMAIN x.hdrs = DOMAIN p
  BY DEF Fits, IsContext
<1> DEFINE H == [j \in DOMAIN x.hdrs \cup {k} |-> IF j = k THEN h ELSE x.hdrs[j]]
<1>6. y.hdrs = H /\ y.changed = x.changed /\ y.deleted = x.deleted + Shared!Bit(h.deleted)
  BY <1>2, <1>3, <1>5 DEF Shared!AddHeader, IsContext
<1>7. H \in [DOMAIN q -> Shared!Header] /\ H[k] = h /\ \A j \in DOMAIN p : H[j] = x.hdrs[j]
  BY <1>3, <1>4, <1>5 DEF IsContext
<1>8. IsContext(y, DOMAIN q)
  <2> HIDE DEF H
  <2>1. y = [x EXCEPT !.hdrs = H, !.changed = IF h.changed THEN 1 ELSE @,
                      !.flagged = @ + Shared!Bit(h.flagged),
                      !.deleted = @ + Shared!Bit(h.deleted),
                      !.unread = @ + Shared!Bit(~h.read),
                      !.new = @ + Shared!Bit(~h.read /\ ~h.old)]
    BY <1>2 DEF Shared!AddHeader, H
  <2>2. x.changed \in {0, 1}
    BY <1>5 DEF IsContext
  <2> QED BY <1>5, <1>6, <1>7, <2>1, <2>2 DEF IsContext
<1>9. Counted(Shared!DeletedOnes(y.hdrs), y.deleted)
  <2>1. PICK S, n : S = Shared!DeletedOnes(x.hdrs) /\ n = x.deleted
    OBVIOUS
  <2>2. Counted(S, n) /\ n \in Nat /\ k \notin S
    BY <1>4, <1>5, <2>1 DEF Fits, Counted, Shared!DeletedOnes
  <2>3. Shared!DeletedOnes(y.hdrs) = IF h.deleted THEN S \cup {k} ELSE S
    BY <1>5, <1>6, <1>7, <2>1 DEF Shared!DeletedOnes
  <2>4. y.deleted = IF h.deleted THEN n + 1 ELSE n
    BY <1>6, <2>1, <2>2 DEF Shared!Bit
  <2> QED BY <2>2, <2>3, <2>4, CountedMore
<1>10. ASSUME NEW j \in DOMAIN q PROVE HeaderFits(y.hdrs[j], q[j], y.changed)
  <2>1. CASE j = k
    BY <1>3, <1>4, <1>6, <1>7, <2>1 DEF HeaderFits
  <2>2. CASE j \in DOMAIN p
    BY <1>4, <1>6, <1>7, <2>2 DEF Fits, HeaderFits
  <2> QED BY <1>4, <2>1, <2>2
<1> QED BY <1>1, <1>2, <1>8, <1>9, <1>10 DEF Fits

-----------------------------------------------------------------------------
(* What each mailbox that is open knows of the folder.                      *)

(* A message listed has its file, or the sync has been there.               *)
Holds(c, k) ==
    IF pc[c] = "sync" /\ k < at[c] THEN Shared!Saved(c, k, files) ELSE path[c][k] \in files
ListHolds(c) == \A k \in DOMAIN path[c] : path[c][k].msg \notin moved[c] => Holds(c, k)
(* None is listed twice, unless others move it between the two scans.       *)
Once(c) ==
    \A j, k \in DOMAIN path[c] :
        path[c][j].msg = path[c][k].msg /\ path[c][k].msg \notin moved[c] => j = k
(* What the scans find that was not there when they began was moved.        *)
Foreseen(c) ==
    /\ pc[c] \in {"new", "cur"} => \A f \in listing[c] : f.msg \in present[c] \cup moved[c]
    /\ pc[c] = "new" => \A f \in files : f.dir = "cur" => f.msg \in present[c] \cup moved[c]
Active(c) == pc[c] \in {"new", "cur", "open", "find", "sync"}
Ready(c) ==
    /\ pc[c] = "none" => ctx[c] = Shared!EmptyContext
    /\ Active(c) => Fits(ctx[c], path[c]) /\ ListHolds(c) /\ Once(c) /\ Foreseen(c)
    /\ pc[c] = "sync" => at[c] # 0

Contexts == ctx = [c \in Clients |-> ctx[c]] /\ at \in [Clients -> Nat]
CloseInv == MaildirInv /\ Contexts /\ \A c \in Clients : Ready(c)

LEMMA CloseStarts == Shared!Init => CloseInv
<1> SUFFICES ASSUME Shared!Init PROVE CloseInv
  OBVIOUS
<1>1. ctx = [c \in Clients |-> Shared!EmptyContext] /\ at = [c \in Clients |-> 0]
      /\ pc = [c \in Clients |-> "none"]
  BY DEF Shared!Init
<1>2. Contexts
  BY <1>1 DEF Contexts
<1>3. ASSUME NEW c \in Clients PROVE Ready(c)
  BY <1>1 DEF Ready, Active
<1> QED BY <1>2, <1>3, MaildirStarts DEF CloseInv

(* A step that leaves a mailbox alone, and in the folder the files of all   *)
(* messages it has not noted as moved.                                      *)
LeftAlone(c) ==
    /\ pc'[c] = pc[c] /\ path'[c] = path[c] /\ listing'[c] = listing[c]
    /\ present'[c] = present[c] /\ ctx'[c] = ctx[c] /\ at'[c] = at[c]
    /\ moved[c] \subseteq moved'[c]
FilesAlone(c) ==
    /\ \A f : f.msg \notin moved'[c] /\ f.msg \in delivered => (f \in files' <=> f \in files)
    /\ \A f \in files' : f.dir = "cur" /\ f \notin files => f.msg \in moved'[c]
SavedIn(h, m, F) ==
    IF h.deleted THEN \A f \in F : f.msg # m
    ELSE \E f \in F : f.msg = m /\ f.flags = Shared!FlagsOf(h)
LEMMA SavedElsewhere ==
    ASSUME NEW F, NEW G, NEW m, \A f : f.msg = m => (f \in F <=> f \in G), NEW h,
           SavedIn(h, m, F)
    PROVE  SavedIn(h, m, G)
BY DEF SavedIn
LEMMA HoldsElsewhere ==
    ASSUME NEW c \in Clients, NEW k, Holds(c, k), path'[c][k] = path[c][k],
           ctx'[c].hdrs[k] = ctx[c].hdrs[k], pc'[c] = pc[c],
           pc[c] = "sync" => (k < at[c] <=> k < at'[c]),
           \A f : f.msg = path[c][k].msg => (f \in files' <=> f \in files)
    PROVE  Holds(c, k)'
<1>1. PICK f, h, F, G : /\ f = path[c][k] /\ h = ctx[c].hdrs[k] /\ F = files /\ G = files'
  OBVIOUS
<1>2. Shared!Saved(c, k, files) = SavedIn(h, f.msg, F)
  BY <1>1 DEF Shared!Saved, SavedIn
<1>3. Shared!Saved(c, k, files)' = SavedIn(h, f.msg, G)
  BY <1>1 DEF Shared!Saved, SavedIn
<1>4. SavedIn(h, f.msg, F) => SavedIn(h, f.msg, G)
  BY <1>1, SavedElsewhere
<1>5. f \in F => f \in G
  BY <1>1
<1> QED BY <1>1, <1>2, <1>3, <1>4, <1>5 DEF Holds

LEMMA ReadyUntouched ==
    ASSUME NEW c \in Clients, Ready(c), KnownMessages(c), LeftAlone(c), FilesAlone(c)
    PROVE  Ready(c)'
<1> USE DEF LeftAlone
<1>1. SUFFICES ASSUME Active(c)
               PROVE  Fits(ctx[c], path[c])' /\ ListHolds(c)' /\ Once(c)' /\ Foreseen(c)'
  BY DEF Ready, Active
<1>2. Fits(ctx[c], path[c])'
  BY <1>1 DEF Ready
<1>3. ListHolds(c)'
  <2>1. ASSUME NEW k \in DOMAIN path[c], path[c][k].msg \notin moved'[c] PROVE Holds(c, k)'
    <3>1. path[c][k].msg \in delivered /\ Holds(c, k)
      BY <1>1, <2>1 DEF KnownMessages, Ready, ListHolds
    <3>2. \A g : g.msg = path[c][k].msg => (g \in files' <=> g \in files)
      BY <2>1, <3>1 DEF FilesAlone
    <3> QED BY <3>1, <3>2, HoldsElsewhere
  <2> QED BY <2>1 DEF ListHolds
<1>4. Once(c)'
  BY <1>1 DEF Ready, Once
<1>5. Foreseen(c)'
  BY <1>1 DEF Ready, Foreseen, FilesAlone
<1> QED BY <1>2, <1>3, <1>4, <1>5

(* What is left to show of a step of a mailbox that does not change files.  *)
OthersAlone(c) == \A d \in Clients \ {c} : LeftAlone(d)
LEMMA OthersReady ==
    ASSUME CloseInv, MaildirInv', NEW c \in Clients, OthersAlone(c), files' = files,
           Contexts', Ready(c)'
    PROVE  CloseInv'
<1>1. ASSUME NEW d \in Clients, d # c PROVE Ready(d)'
  <2>1. FilesAlone(d)
    BY DEF FilesAlone
  <2> QED BY <1>1, <2>1, ReadyUntouched DEF CloseInv, MaildirInv, OthersAlone
<1> QED BY <1>1 DEF CloseInv

(* Steps that change nothing it depends on, but for where the mailbox is.   *)
Stays(p, q) ==
    \/ q \notin {"none", "new", "cur", "open", "find", "sync"}
    \/ p \in {"open", "find"} /\ q \in {"open", "find"}
    \/ p = "cur" /\ q = "open"
LEMMA MovesReady ==
    ASSUME CloseInv, MaildirInv', NEW c \in Clients, NEW q,
           pc' = pc \/ (pc' = [pc EXCEPT ![c] = q] /\ Stays(pc[c], q)),
           UNCHANGED <<files, delivered, ctx, path, listing, at, present, moved>>
    PROVE  CloseInv'
<1>1. pc \in [Clients -> Places]
  BY DEF CloseInv, MaildirInv, MaildirTypes
<1>2. OthersAlone(c)
  BY <1>1 DEF OthersAlone, LeftAlone
<1>3. Contexts'
  BY DEF CloseInv, Contexts
<1>4. Ready(c)'
  <2>1. Ready(c)
    BY DEF CloseInv
  <2>2. CASE pc' = pc
    <3>1. (\A k : Holds(c, k)' = Holds(c, k)) /\ Once(c)' = Once(c) /\ Foreseen(c)' = Foreseen(c)
      BY <2>2 DEF Holds, Once, Foreseen, Shared!Saved
    <3> QED BY <2>1, <2>2, <3>1 DEF Ready, ListHolds, Active
  <2>3. CASE pc' = [pc EXCEPT ![c] = q] /\ Stays(pc[c], q)
    <3>1. pc'[c] = q
      BY <1>1, <2>3
    <3>2. CASE q \notin {"none", "new", "cur", "open", "find", "sync"}
      BY <3>1, <3>2 DEF Ready, Active
    <3>3. CASE pc[c] \in {"open", "find", "cur"} /\ q \in {"open", "find"}
      <4>1. \A k : Holds(c, k) => Holds(c, k)'
        BY <3>1, <3>3 DEF Holds
      <4>2. Once(c)' = Once(c) /\ Foreseen(c)'
        BY <3>1, <3>3 DEF Once, Foreseen
      <4> QED BY <2>1, <3>1, <3>3, <4>1, <4>2 DEF Ready, ListHolds, Active
    <3> QED BY <2>3, <3>2, <3>3 DEF Stays
  <2> QED BY <2>2, <2>3
<1> QED BY <1>2, <1>3, <1>4, OthersReady

LEMMA OpenReady ==
    ASSUME CloseInv, MaildirInv', NEW c \in Clients, Shared!Open(c) PROVE CloseInv'
<1> USE DEF Shared!Open, Shared!Goto, Shared!mailbox
<1>1. /\ pc \in [Clients -> Places] /\ listing \in [Clients -> SUBSET Shared!Names]
      /\ present \in [Clients -> SUBSET Messages]
  BY DEF CloseInv, MaildirInv, MaildirTypes
<1>2. OthersAlone(c)
  BY <1>1 DEF OthersAlone, LeftAlone
<1>3. Contexts'
  BY DEF CloseInv, Contexts
<1>4. /\ pc'[c] = "new" /\ listing'[c] = Shared!In("new") /\ present'[c] = {f.msg : f \in files}
      /\ ctx'[c] = Shared!EmptyContext /\ path'[c] = <<>>
  BY <1>1 DEF CloseInv, Ready, MaildirInv, Tracked
<1>5. Fits(ctx[c], path[c])'
  <2>1. Shared!DeletedOnes(Shared!EmptyContext.hdrs) = {} /\ Shared!EmptyContext.deleted = 0
    BY DEF Shared!DeletedOnes, Shared!EmptyContext
  <2>2. DOMAIN path'[c] = {} /\ IsContext(Shared!EmptyContext, {})
    BY <1>4 DEF IsContext, Shared!EmptyContext
  <2>3. Counted(Shared!DeletedOnes(Shared!EmptyContext.hdrs), Shared!EmptyContext.deleted)
    BY <2>1, CountedNone
  <2> QED BY <1>4, <2>2, <2>3 DEF Fits
<1>6. ListHolds(c)' /\ Once(c)' /\ Foreseen(c)'
  BY <1>4 DEF ListHolds, Once, Foreseen, Shared!In
<1>7. Ready(c)'
  BY <1>4, <1>5, <1>6 DEF Ready
<1> QED BY <1>2, <1>3, <1>7, OthersReady

LEMMA ParseEntryReady ==
    ASSUME CloseInv, MaildirInv', NEW c \in Clients, Shared!ParseEntry(c) PROVE CloseInv'
<1>1. PICK f \in listing[c] :
         /\ listing' = [listing EXCEPT ![c] = @ \ {f}]
         /\ IF f \in files
            THEN /\ ctx' = [ctx EXCEPT ![c] = Shared!AddHeader(@, Len(path[c]) + 1,
                                                               Shared!ParsedHeader(f))]
                 /\ path' = [path EXCEPT ![c] = Append(@, f)]
            ELSE UNCHANGED <<ctx, path>>
         /\ UNCHANGED <<files, delivered, pc, at, seek, present, moved, missed>>
  BY DEF Shared!ParseEntry
<1>2. /\ path \in [Clients -> Seq(Shared!Names)] /\ listing \in [Clients -> SUBSET Shared!Names]
      /\ f \in Shared!Names /\ pc[c] \in {"new", "cur"} /\ f.msg \in Messages
  <2>1. pc[c] \in {"new", "cur"}
    BY DEF Shared!ParseEntry
  <2>2. path \in [Clients -> Seq(Shared!Names)] /\ listing \in [Clients -> SUBSET Shared!Names]
    BY DEF CloseInv, MaildirInv, MaildirTypes
  <2>3. f \in Shared!Names
    BY <1>1, <2>2
  <2>4. f.msg \in Messages
    BY <2>3 DEF Shared!Names
  <2> QED BY <2>1, <2>2, <2>3, <2>4
<1>3. OthersAlone(c)
  BY <1>1, <1>2 DEF OthersAlone, LeftAlone, CloseInv, Contexts
<1>4. Contexts'
  BY <1>1 DEF CloseInv, Contexts
<1>5. Fits(ctx[c], path[c]) /\ ListHolds(c) /\ Once(c) /\ Foreseen(c)
  BY <1>2 DEF CloseInv, Ready, Active
<1>6. Foreseen(c)'
  BY <1>1, <1>2, <1>5 DEF Foreseen
<1>7. Fits(ctx[c], path[c])' /\ ListHolds(c)' /\ Once(c)'
  <2>1. CASE f \notin files
    BY <1>1, <1>2, <1>5, <2>1 DEF ListHolds, Once, Holds
  <2>2. CASE f \in files
    <3>1. /\ ctx'[c] = Shared!AddHeader(ctx[c], Len(path[c]) + 1, Shared!ParsedHeader(f))
          /\ path'[c] = Append(path[c], f)
      BY <1>1, <1>2, <2>2 DEF CloseInv, Contexts
    <3>2. PICK p, x : p = path[c] /\ x = ctx[c]
      OBVIOUS
    <3>3. Fits(Shared!AddHeader(x, Len(p) + 1, Shared!ParsedHeader(f)), Append(p, f))
      BY <1>2, <1>5, <3>2, AddedFits
    <3>4. Fits(ctx[c], path[c])'
      BY <3>1, <3>2, <3>3
    <3>5. /\ DOMAIN path'[c] = DOMAIN path[c] \cup {Len(path[c]) + 1}
          /\ path'[c][Len(path[c]) + 1] = f
          /\ \A k \in DOMAIN path[c] : path'[c][k] = path[c][k]
      BY <1>2, <3>1
    <3>6. f.msg \notin moved[c] => Unlisted(c, f.msg)
      <4>1. f.msg \notin moved[c] => f.msg \in present[c] \ moved[c]
        BY <1>2, <1>5 DEF Foreseen
      <4>2. f.msg \notin moved[c] => Scanned(c, f.msg)
        BY <1>2, <4>1 DEF CloseInv, MaildirInv, Tracked
      <4> QED BY <1>2, <4>2 DEF Scanned, InScan
    <3>7. ListHolds(c)'
      BY <1>1, <1>2, <1>5, <2>2, <3>5 DEF ListHolds, Holds
    <3>8. Once(c)'
      BY <1>1, <1>5, <3>5, <3>6 DEF Once, Unlisted
    <3> QED BY <3>4, <3>7, <3>8
  <2> QED BY <2>1, <2>2
<1>8. Ready(c)'
  BY <1>1, <1>2, <1>6, <1>7 DEF Ready
<1> QED BY <1>1, <1>3, <1>4, <1>8, OthersReady

LEMMA ScanCurReady ==
    ASSUME CloseInv, MaildirInv', NEW c \in Clients, Shared!ScanCur(c) PROVE CloseInv'
<1> USE DEF Shared!ScanCur, Shared!Goto, Shared!mailbox
<1>1. pc \in [Clients -> Places] /\ listing \in [Clients -> SUBSET Shared!Names]
  BY DEF CloseInv, MaildirInv, MaildirTypes
<1>2. OthersAlone(c)
  BY <1>1 DEF OthersAlone, LeftAlone
<1>3. Contexts'
  BY DEF CloseInv, Contexts
<1>4. pc[c] = "new" /\ pc'[c] = "cur" /\ listing'[c] = Shared!In("cur")
  BY <1>1
<1>5. Fits(ctx[c], path[c]) /\ ListHolds(c) /\ Once(c) /\ Foreseen(c)
  BY <1>4 DEF CloseInv, Ready, Active
<1>6. Fits(ctx[c], path[c])' /\ ListHolds(c)' /\ Once(c)' /\ Foreseen(c)'
  BY <1>4, <1>5 DEF ListHolds, Holds, Once, Foreseen, Shared!In
<1>7. Ready(c)'
  BY <1>4, <1>6 DEF Ready
<1> QED BY <1>2, <1>3, <1>7, OthersReady

(* A flag of a listed message is set or cleared.                            *)
LEMMA EditReady ==
    ASSUME CloseInv, MaildirInv', NEW c \in Clients, NEW k \in DOMAIN path[c], NEW y,
           Edited(ctx[c], y, k), Shared!Edit(c, k, y)
    PROVE  CloseInv'
<1>1. /\ pc[c] = "open" /\ ctx' = [ctx EXCEPT ![c] = y]
      /\ UNCHANGED <<files, delivered, pc, path, listing, at, seek, present, moved>>
  BY DEF Shared!Edit
<1>2. OthersAlone(c)
  BY <1>1 DEF OthersAlone, LeftAlone, CloseInv, Contexts
<1>3. Contexts'
  BY <1>1 DEF CloseInv, Contexts
<1>4. Fits(ctx[c], path[c]) /\ ListHolds(c) /\ Once(c) /\ Foreseen(c)
  BY <1>1 DEF CloseInv, Ready, Active
<1>5. PICK p, x : p = path[c] /\ x = ctx[c]
  OBVIOUS
<1>6. Fits(y, p)
  BY <1>4, <1>5, EditsFit
<1>7. ctx'[c] = y /\ path'[c] = p
  BY <1>1, <1>5 DEF CloseInv, Contexts
<1>8. Fits(ctx[c], path[c])'
  BY <1>6, <1>7
<1>9. ListHolds(c)' /\ Once(c)' /\ Foreseen(c)'
  BY <1>1, <1>4 DEF ListHolds, Holds, Once, Foreseen
<1>10. Ready(c)'
  BY <1>1, <1>8, <1>9 DEF Ready
<1> QED BY <1>1, <1>2, <1>3, <1>10, OthersReady

LEMMA FlagsReady ==
    ASSUME CloseInv, MaildirInv', NEW c \in Clients,
           Shared!SetMessageFlag(c) \/ Shared!ResetMessageFlag(c)
    PROVE  CloseInv'
<1>1. PICK k \in DOMAIN path[c], flag \in UsedFlags :
         \/ Shared!Edit(c, k, Shared!SetFlag(ctx[c], k, flag))
         \/ Shared!Edit(c, k, Shared!ResetFlag(ctx[c], k, flag))
  BY DEF Shared!SetMessageFlag, Shared!ResetMessageFlag
<1>2. PICK x, K : x = ctx[c] /\ K = DOMAIN path[c]
  OBVIOUS
<1>3. flag \in Shared!Flags /\ pc[c] = "open"
  BY <1>1, FolderAssumption DEF Shared!ConstantsOK, Shared!Edit
<1>4. IsContext(x, K)
  BY <1>2, <1>3 DEF CloseInv, Ready, Active, Fits
<1>5. Edited(x, Shared!SetFlag(x, k, flag), k) /\ Edited(x, Shared!ResetFlag(x, k, flag), k)
  BY <1>2, <1>3, <1>4, ChangesEdit
<1>6. PICK y, z : y = Shared!SetFlag(x, k, flag) /\ z = Shared!ResetFlag(x, k, flag)
  OBVIOUS
<1>7. Edited(ctx[c], y, k) /\ Edited(ctx[c], z, k)
  BY <1>2, <1>5, <1>6
<1>8. Shared!Edit(c, k, y) \/ Shared!Edit(c, k, z)
  BY <1>1, <1>2, <1>6
<1> QED BY <1>7, <1>8, EditReady

(* A header of a name that needs no rename.                                 *)
LEMMA FlagsAgree ==
    ASSUME NEW h, NEW f \in Shared!Names, NEW n, HeaderFits(h, f, n), ~h.changed, ~h.deleted,
           ~h.trash
    PROVE  f.flags = Shared!FlagsOf(h)
<1>1. f.flags \subseteq {"F", "R", "S", "T"}
  BY DEF Shared!Names
<1>2. /\ h.read = ("S" \in f.flags) /\ h.replied = ("R" \in f.flags)
      /\ h.flagged = ("F" \in f.flags) /\ "T" \notin f.flags
  BY DEF HeaderFits
<1> QED BY <1>1, <1>2 DEF Shared!FlagsOf

(* A renamed message no longer has trash set, and its name does not say so. *)
Renamed(x, p, k, h, t, g, y, q) ==
    /\ h = x.hdrs[k] /\ ~h.deleted /\ t = [h EXCEPT !.trash = FALSE]
    /\ g.flags = Shared!FlagsOf(h) /\ q = [p EXCEPT ![k] = g]
    /\ y = [x EXCEPT !.hdrs = [@ EXCEPT ![k] = t]]
LEMMA RenamedFits ==
    ASSUME NEW p \in Seq(Shared!Names), NEW x, Fits(x, p), NEW k \in DOMAIN p,
           NEW h, NEW t, NEW g, NEW y, NEW q, Renamed(x, p, k, h, t, g, y, q)
    PROVE  Fits(y, q)
<1> USE DEF Renamed
<1>1. IsContext(x, DOMAIN p) /\ h \in Shared!Header /\ DOMAIN q = DOMAIN p
  BY DEF Fits, IsContext
<1>2. t \in Shared!Header /\ ~t.trash /\ ~t.deleted /\ SameFlags(t, h) /\ t.changed = h.changed
  BY <1>1 DEF Shared!Header, SameFlags
<1>3. y.hdrs = [x.hdrs EXCEPT ![k] = t] /\ y.changed = x.changed /\ y.deleted = x.deleted
  BY <1>1 DEF IsContext
<1>4. [x.hdrs EXCEPT ![k] = t] \in [DOMAIN p -> Shared!Header]
  BY <1>1, <1>2 DEF IsContext
<1>5. IsContext(y, DOMAIN q)
  BY <1>1, <1>4 DEF IsContext
<1>6. Shared!DeletedOnes(y.hdrs) = Shared!DeletedOnes(x.hdrs)
  BY <1>1, <1>2, <1>3 DEF Shared!DeletedOnes, IsContext
<1>7. HeaderFits(t, g, x.changed)
  <2>1. HeaderFits(h, p[k], x.changed)
    BY DEF Fits
  <2>2. /\ h.read \in BOOLEAN /\ h.replied \in BOOLEAN /\ h.flagged \in BOOLEAN
        /\ t.trash = FALSE /\ h.deleted = FALSE
    BY <1>1, <1>2 DEF Shared!Header
  <2>3. /\ h.read = ("S" \in g.flags) /\ h.replied = ("R" \in g.flags)
        /\ h.flagged = ("F" \in g.flags) /\ "T" \notin g.flags
    BY <2>2 DEF Shared!FlagsOf
  <2>4. /\ t.read = ("S" \in g.flags) /\ t.replied = ("R" \in g.flags)
        /\ t.flagged = ("F" \in g.flags) /\ t.trash = ("T" \in g.flags)
    <3>1. ("T" \in g.flags) = FALSE
      BY <2>3
    <3>2. t.read = h.read /\ t.replied = h.replied /\ t.flagged = h.flagged /\ t.trash = FALSE
      BY <1>2, <2>2 DEF SameFlags
    <3> HIDE DEF Renamed
    <3> QED BY <2>3, <3>1, <3>2
  <2>5. (t.changed => x.changed = 1) /\ ~t.trash
    BY <1>2, <2>1 DEF HeaderFits
  <2> HIDE DEF Renamed
  <2> QED BY <2>4, <2>5 DEF HeaderFits
<1>8. ASSUME NEW j \in DOMAIN q PROVE HeaderFits(y.hdrs[j], q[j], y.changed)
  <2>1. CASE j = k
    BY <1>1, <1>3, <1>7, <2>1 DEF IsContext
  <2>2. CASE j # k
    BY <1>1, <1>3, <2>2 DEF Fits, IsContext
  <2> QED BY <2>1, <2>2
<1> QED BY <1>3, <1>5, <1>6, <1>8 DEF Fits

(* A sync comes to a message: the others keep what they know, or have a     *)
(* note of the message.                                                     *)
LEMMA OthersNoted ==
    ASSUME CloseInv, NEW c \in Clients, NEW f, Changes(c, f), NEW G, Becomes(f, G),
           NEW d \in Clients, d # c, ctx'[d] = ctx[d], at'[d] = at[d]
    PROVE  Ready(d)'
<1>1. /\ moved' = [e \in Clients |-> IF e = c \/ pc[e] = "none" THEN moved[e]
                                     ELSE moved[e] \cup {f.msg}]
      /\ seek' = [e \in Clients |-> IF e # c /\ seek[e].msg = f.msg
                                    THEN [seek[e] EXCEPT !.stirred = TRUE] ELSE seek[e]]
  BY DEF Changes, Shared!Stir
<1>2. CASE pc[d] = "none"
  BY <1>2 DEF Changes, CloseInv, Ready, Active
<1>3. CASE pc[d] # "none"
  <2>1. f.msg \in moved'[d] /\ moved[d] \subseteq moved'[d]
    BY <1>1, <1>3
  <2>2. FilesAlone(d)
    BY <2>1 DEF Becomes, FilesAlone
  <2>3. /\ pc'[d] = pc[d] /\ path'[d] = path[d] /\ listing'[d] = listing[d]
        /\ present'[d] = present[d]
    BY DEF Changes
  <2>4. Ready(d) /\ KnownMessages(d)
    BY DEF CloseInv, MaildirInv
  <2> QED BY <2>1, <2>2, <2>3, <2>4, ReadyUntouched DEF LeftAlone
<1> QED BY <1>2, <1>3

(* ... and its own mailbox has one message more saved.                      *)
SavesAt(c, k) ==
    /\ pc[c] = "sync" /\ at[c] = k /\ k \in DOMAIN path[c]
    /\ pc'[c] = "sync" /\ at'[c] = k + 1 /\ moved'[c] = moved[c]
    /\ DOMAIN path'[c] = DOMAIN path[c] /\ path'[c][k].msg = path[c][k].msg
    /\ \A j \in DOMAIN path[c] \ {k} :
          path'[c][j] = path[c][j] /\ ctx'[c].hdrs[j] = ctx[c].hdrs[j]
    /\ \A f : f.msg # path[c][k].msg => (f \in files' <=> f \in files)
    /\ path[c][k].msg \notin moved[c] => Shared!Saved(c, k, files)'
    /\ Fits(ctx[c], path[c])'
LEMMA SyncedReady ==
    ASSUME CloseInv, NEW c \in Clients, NEW k, SavesAt(c, k) PROVE Ready(c)'
<1> USE DEF SavesAt
<1>1. Ready(c) /\ ListHolds(c) /\ Once(c)
  BY DEF CloseInv, Ready, Active
<1>2. DOMAIN path[c] \subseteq Nat /\ k \in Nat
  BY DEF CloseInv, MaildirInv, MaildirTypes
<1>3. Once(c)'
  <2>1. \A j \in DOMAIN path[c] : path'[c][j].msg = path[c][j].msg
    OBVIOUS
  <2> QED BY <1>1, <2>1 DEF Once
<1>4. Foreseen(c)'
  BY DEF Foreseen
<1>5. ListHolds(c)'
  <2>1. ASSUME NEW j \in DOMAIN path[c], path'[c][j].msg \notin moved[c] PROVE Holds(c, j)'
    <3>1. CASE j = k
      BY <1>2, <2>1, <3>1 DEF Holds
    <3>2. CASE j # k
      <4>1. path[c][j].msg # path[c][k].msg /\ Holds(c, j)
        BY <1>1, <2>1, <3>2 DEF Once, ListHolds
      <4>2. j < at[c] <=> j < at'[c]
        BY <1>2, <3>2
      <4>3. \A f : f.msg = path[c][j].msg => (f \in files' <=> f \in files)
        BY <4>1
      <4>4. path'[c][j] = path[c][j] /\ ctx'[c].hdrs[j] = ctx[c].hdrs[j] /\ pc'[c] = pc[c]
        BY <3>2
      <4> HIDE DEF SavesAt
      <4> QED BY <4>1, <4>2, <4>3, <4>4, HoldsElsewhere
    <3> QED BY <3>1, <3>2
  <2> QED BY <2>1 DEF ListHolds
<1>6. at'[c] # 0
  BY <1>2
<1> QED BY <1>3, <1>4, <1>5, <1>6 DEF Ready

LEMMA KeepMessageReady ==
    ASSUME CloseInv, MaildirInv', NEW c \in Clients, Shared!KeepMessage(c) PROVE CloseInv'
<1>1. PICK k, f, h : k = at[c] /\ f = path[c][k] /\ h = ctx[c].hdrs[k]
  OBVIOUS
<1>2. /\ pc[c] = "sync" /\ k \in DOMAIN path[c] /\ ~h.deleted
      /\ ~Shared!NeedsRename(h) \/ f = Shared!NameOf(f.msg, h)
      /\ at' = [at EXCEPT ![c] = @ + 1]
      /\ UNCHANGED <<files, delivered, pc, ctx, path, listing, seek, present, moved>>
  BY <1>1 DEF Shared!KeepMessage, Shared!Syncing
<1>3. OthersAlone(c)
  BY <1>2 DEF OthersAlone, LeftAlone, CloseInv, Contexts
<1>4. Contexts' /\ at'[c] = k + 1
  BY <1>1, <1>2 DEF CloseInv, Contexts
<1>5. Fits(ctx[c], path[c]) /\ ListHolds(c) /\ HeaderFits(h, f, ctx[c].changed)
  BY <1>1, <1>2 DEF CloseInv, Ready, Active, Fits
<1>6. f \in Shared!Names /\ k \in Nat
  BY <1>1, <1>2 DEF CloseInv, MaildirInv, MaildirTypes
<1>7. f.flags = Shared!FlagsOf(h)
  <2>1. CASE f = Shared!NameOf(f.msg, h)
    BY <2>1 DEF Shared!NameOf
  <2>2. CASE ~Shared!NeedsRename(h)
    BY <1>2, <1>5, <1>6, <2>2, FlagsAgree DEF Shared!NeedsRename
  <2> QED BY <1>2, <2>1, <2>2
<1>8. f.msg \notin moved[c] => f \in files
  BY <1>1, <1>2, <1>5, <1>6 DEF ListHolds, Holds
<1>9. f.msg \notin moved[c] => Shared!Saved(c, k, files)'
  BY <1>1, <1>2, <1>7, <1>8 DEF Shared!Saved
<1>10. SavesAt(c, k)
  BY <1>1, <1>2, <1>4, <1>5, <1>9 DEF SavesAt
<1>11. Ready(c)'
  BY <1>10, SyncedReady
<1> QED BY <1>2, <1>3, <1>4, <1>11, OthersReady

LEMMA PurgeMessageReady ==
    ASSUME CloseInv, MaildirInv', NEW c \in Clients, Shared!PurgeMessage(c) PROVE CloseInv'
<1>1. PICK k, f, h : k = at[c] /\ f = path[c][k] /\ h = ctx[c].hdrs[k]
  OBVIOUS
<1>2. /\ pc[c] = "sync" /\ k \in DOMAIN path[c] /\ h.deleted
      /\ IF f \in files THEN files' = files \ {f} /\ Shared!Stir(c, f.msg)
         ELSE UNCHANGED <<files, moved, seek>>
      /\ at' = [at EXCEPT ![c] = @ + 1]
      /\ UNCHANGED <<delivered, pc, ctx, path, listing, present, missed>>
  BY <1>1 DEF Shared!PurgeMessage, Shared!Syncing
<1>3. Contexts' /\ at'[c] = k + 1
  BY <1>1, <1>2 DEF CloseInv, Contexts
<1>4. Fits(ctx[c], path[c]) /\ ListHolds(c)
  BY <1>2 DEF CloseInv, Ready, Active
<1>5. f \in Shared!Names /\ k \in Nat /\ path \in [Clients -> Seq(Shared!Names)]
  BY <1>1, <1>2 DEF CloseInv, MaildirInv, MaildirTypes
<1>6. f.msg \notin moved[c] => f \in files
  BY <1>1, <1>2, <1>4, <1>5 DEF ListHolds, Holds
<1>7. f \in files => \A g \in files' : g.msg # f.msg
  BY <1>2 DEF CloseInv, MaildirInv, OneFileEach
<1>8. f.msg \notin moved[c] => Shared!Saved(c, k, files)'
  BY <1>1, <1>2, <1>6, <1>7 DEF Shared!Saved
<1>9. moved'[c] = moved[c] /\ \A g : g.msg # f.msg => (g \in files' <=> g \in files)
  BY <1>2 DEF Shared!Stir
<1>10. SavesAt(c, k)
  BY <1>1, <1>2, <1>3, <1>4, <1>8, <1>9 DEF SavesAt
<1>11. Ready(c)'
  BY <1>10, SyncedReady
<1>12. CASE f \notin files
  <2>1. OthersAlone(c)
    BY <1>2, <1>12 DEF OthersAlone, LeftAlone, CloseInv, Contexts
  <2> QED BY <1>2, <1>3, <1>11, <1>12, <2>1, OthersReady
<1>13. CASE f \in files
  <2>1. PICK G : G = {}
    OBVIOUS
  <2>2. Becomes(f, G)
    BY <1>2, <1>13, <2>1 DEF Becomes
  <2>3. Changes(c, f)
    BY <1>2, <1>5, <1>13 DEF Changes, CloseInv, MaildirInv, KnownMessages
  <2>4. ASSUME NEW d \in Clients, d # c PROVE ctx'[d] = ctx[d] /\ at'[d] = at[d]
    BY <1>2, <2>4 DEF CloseInv, Contexts
  <2>5. ASSUME NEW d \in Clients, d # c PROVE Ready(d)'
    BY <2>2, <2>3, <2>4, <2>5, OthersNoted
  <2> QED BY <1>3, <1>11, <2>5 DEF CloseInv
<1> QED BY <1>12, <1>13

LEMMA RenameMessageReady ==
    ASSUME CloseInv, MaildirInv', NEW c \in Clients, Shared!RenameMessage(c) PROVE CloseInv'
<1>1. PICK k, f, h, g : /\ k = at[c] /\ f = path[c][k] /\ h = ctx[c].hdrs[k]
                        /\ g = Shared!NameOf(f.msg, h)
  OBVIOUS
<1>2. /\ pc[c] = "sync" /\ k \in DOMAIN path[c] /\ ~h.deleted /\ Shared!NeedsRename(h)
      /\ ctx' = [ctx EXCEPT ![c].hdrs[k].trash = FALSE]
      /\ UNCHANGED <<delivered, listing, present, missed>>
  BY <1>1 DEF Shared!RenameMessage, Shared!Syncing
<1>3. CASE f \notin files
  <2>1. pc' = [pc EXCEPT ![c] = "leaked"] /\ UNCHANGED <<files, path, at, moved, seek>>
    BY <1>1, <1>3 DEF Shared!RenameMessage, Shared!Goto
  <2>2. OthersAlone(c)
    BY <1>2, <2>1 DEF OthersAlone, LeftAlone, CloseInv, Contexts
  <2>3. Contexts'
    BY <1>2, <2>1 DEF CloseInv, Contexts
  <2>4. pc'[c] = "leaked"
    BY <2>1 DEF CloseInv, MaildirInv, MaildirTypes
  <2>5. Ready(c)'
    BY <2>4 DEF Ready, Active
  <2> QED BY <2>1, <2>2, <2>3, <2>5, OthersReady
<1>4. CASE f \in files
  <2>1. /\ files' = (files \ {f}) \cup {g} /\ Shared!Stir(c, f.msg)
        /\ path' = [path EXCEPT ![c][k] = g] /\ at' = [at EXCEPT ![c] = @ + 1] /\ pc' = pc
    BY <1>1, <1>4 DEF Shared!RenameMessage
  <2>2. Fits(ctx[c], path[c]) /\ IsContext(ctx[c], DOMAIN path[c])
    BY <1>2 DEF CloseInv, Ready, Active, Fits
  <2>3. /\ f \in Shared!Names /\ k \in Nat /\ path \in [Clients -> Seq(Shared!Names)]
        /\ path[c] \in Seq(Shared!Names)
    BY <1>1, <1>2 DEF CloseInv, MaildirInv, MaildirTypes
  <2>4. g \in Shared!Names /\ g.msg = f.msg /\ g.flags = Shared!FlagsOf(h)
    BY <1>1, <2>3 DEF Shared!NameOf, Shared!FlagsOf, Shared!Names
  <2>5. PICK t : t = [h EXCEPT !.trash = FALSE]
    OBVIOUS
  <2>6. PICK x, p : x = ctx[c] /\ p = path[c]
    OBVIOUS
  <2>7. h \in Shared!Header /\ x.hdrs[k] = h
    BY <1>1, <1>2, <2>2, <2>6 DEF IsContext
  <2>8. PICK y, q : y = [x EXCEPT !.hdrs = [@ EXCEPT ![k] = t]] /\ q = [p EXCEPT ![k] = g]
    OBVIOUS
  <2>9. ctx'[c] = y /\ ctx' = [ctx EXCEPT ![c] = y]
    BY <1>1, <1>2, <2>5, <2>6, <2>7, <2>8 DEF CloseInv, Contexts
  <2>10. path'[c] = q /\ path' = [path EXCEPT ![c] = q] /\ q \in Seq(Shared!Names)
    BY <1>2, <2>1, <2>3, <2>4, <2>6, <2>8
  <2>11. Fits(y, q)
    <3>1. Renamed(x, p, k, h, t, g, y, q)
      BY <1>2, <2>4, <2>5, <2>7, <2>8 DEF Renamed
    <3> QED BY <1>2, <2>2, <2>3, <2>6, <3>1, RenamedFits
  <2>12. Contexts' /\ at'[c] = k + 1
    BY <1>1, <2>1, <2>9 DEF CloseInv, Contexts
  <2>13. /\ DOMAIN path'[c] = DOMAIN path[c] /\ path'[c][k] = g
         /\ \A j \in DOMAIN path[c] \ {k} : path'[c][j] = path[c][j]
    BY <1>2, <2>3, <2>6, <2>8, <2>10
  <2>14. /\ ctx'[c].hdrs[k] = t
         /\ \A j \in DOMAIN path[c] \ {k} : ctx'[c].hdrs[j] = ctx[c].hdrs[j]
    BY <1>2, <2>2, <2>6, <2>8, <2>9 DEF IsContext
  <2>15. t.deleted = h.deleted /\ Shared!FlagsOf(t) = Shared!FlagsOf(h)
    BY <2>5, <2>7 DEF Shared!Header, Shared!FlagsOf
  <2>16. Shared!Saved(c, k, files)'
    BY <1>2, <2>1, <2>4, <2>13, <2>14, <2>15 DEF Shared!Saved
  <2>17. moved'[c] = moved[c] /\ \A e : e.msg # f.msg => (e \in files' <=> e \in files)
    BY <2>1, <2>4 DEF Shared!Stir
  <2>18. SavesAt(c, k)
    BY <1>1, <1>2, <2>1, <2>4, <2>9, <2>10, <2>11, <2>12, <2>13, <2>14, <2>16, <2>17 DEF SavesAt
  <2>19. Ready(c)'
    BY <2>18, SyncedReady
  <2>20. PICK G : G = {g}
    OBVIOUS
  <2>21. Becomes(f, G)
    BY <2>1, <2>4, <2>20 DEF Becomes
  <2>22. Changes(c, f)
    <3>1. path' \in [Clients -> Seq(Shared!Names)] /\ \A d \in Clients \ {c} : path'[d] = path[d]
      BY <2>3, <2>10
    <3>2. \A j \in DOMAIN path'[c] : path'[c][j].msg \in delivered
      BY <1>1, <1>2, <2>4, <2>13 DEF CloseInv, MaildirInv, KnownMessages
    <3> QED BY <1>2, <1>4, <2>1, <3>1, <3>2 DEF Changes
  <2>23. ASSUME NEW d \in Clients, d # c PROVE Ready(d)'
    <3>1. ctx'[d] = ctx[d] /\ at'[d] = at[d]
      BY <2>1, <2>9, <2>23 DEF CloseInv, Contexts
    <3> QED BY <2>21, <2>22, <2>23, <3>1, OthersNoted
  <2> QED BY <2>12, <2>19, <2>23 DEF CloseInv
<1> QED BY <1>3, <1>4

(* A close goes to the sync unless nothing was changed.                     *)
LEMMA CloseReady ==
    ASSUME CloseInv, MaildirInv', NEW c \in Clients, Shared!Close(c) PROVE CloseInv'
<1> USE DEF Shared!Close, Shared!Goto, Shared!mailbox
<1>1. pc \in [Clients -> Places]
  BY DEF CloseInv, MaildirInv, MaildirTypes
<1>2. OthersAlone(c)
  BY <1>1 DEF OthersAlone, LeftAlone, CloseInv, Contexts
<1>3. Contexts'
  BY DEF CloseInv, Contexts
<1>4. Fits(ctx[c], path[c]) /\ ListHolds(c) /\ Once(c)
  BY DEF CloseInv, Ready, Active
<1>5. ASSUME pc'[c] = "closed" PROVE Ready(c)'
  BY <1>5 DEF Ready, Active
<1>6. ASSUME pc'[c] = "sync", at'[c] = 1 PROVE Ready(c)'
  <2>1. \A k \in DOMAIN path[c] : ~(k < 1)
    BY DEF CloseInv, MaildirInv, MaildirTypes
  <2>2. ListHolds(c)'
    BY <1>4, <1>6, <2>1 DEF ListHolds, Holds
  <2>3. Once(c)' /\ Foreseen(c)'
    BY <1>4, <1>6 DEF Once, Foreseen
  <2> QED BY <1>4, <1>6, <2>2, <2>3 DEF Ready
<1>7. Ready(c)'
  BY <1>1, <1>5, <1>6 DEF CloseInv, Contexts
<1> QED BY <1>2, <1>3, <1>7, OthersReady

LEMMA DeliverReady ==
    ASSUME CloseInv, MaildirInv', NEW m \in Messages, Shared!Deliver(m) PROVE CloseInv'
<1> DEFINE f == [msg |-> m, dir |-> "new", flags |-> {}]
<1>1. /\ m \notin delivered /\ files' = files \cup {f} /\ f.msg = m /\ f.dir = "new"
      /\ UNCHANGED <<pc, ctx, path, listing, at, seek, present, moved>>
  BY DEF Shared!Deliver, Shared!mailbox
<1> HIDE DEF f
<1>2. ASSUME NEW c \in Clients PROVE Ready(c)'
  <2>1. LeftAlone(c)
    BY <1>1 DEF LeftAlone
  <2>2. FilesAlone(c)
    BY <1>1 DEF FilesAlone
  <2> QED BY <2>1, <2>2, ReadyUntouched DEF CloseInv, MaildirInv
<1> QED BY <1>1, <1>2 DEF CloseInv, Contexts

LEMMA AllReady ==
    ASSUME CloseInv, MaildirInv', UNCHANGED <<files, delivered, pc, ctx, path, listing, at,
                                              present, moved>>
    PROVE  CloseInv'
<1>1. ASSUME NEW c \in Clients PROVE Ready(c)'
  <2>1. LeftAlone(c) /\ FilesAlone(c)
    BY DEF LeftAlone, FilesAlone
  <2> QED BY <2>1, ReadyUntouched DEF CloseInv, MaildirInv
<1> QED BY <1>1 DEF CloseInv, Contexts

LEMMA CloseKept == CloseInv /\ [Shared!Next]_(Shared!vars) => CloseInv'
<1> SUFFICES ASSUME CloseInv, [Shared!Next]_(Shared!vars) PROVE CloseInv'
  OBVIOUS
<1>0. MaildirInv' /\ pc \in [Clients -> Places]
  BY MaildirKept DEF CloseInv, MaildirInv, MaildirTypes
<1>1. ASSUME NEW m \in Messages, Shared!Deliver(m) PROVE CloseInv'
  BY <1>0, <1>1, DeliverReady
<1>2. ASSUME NEW c \in Clients, Shared!Step(c) PROVE CloseInv'
  <2>1. CASE Shared!Open(c)
    BY <1>0, <2>1, OpenReady
  <2>2. CASE Shared!ParseEntry(c)
    BY <1>0, <2>2, ParseEntryReady
  <2>3. CASE Shared!ScanCur(c)
    BY <1>0, <2>3, ScanCurReady
  <2>4. ASSUME Shared!Opened(c) PROVE CloseInv'
    <3>1. pc' = [pc EXCEPT ![c] = "open"] /\ Stays(pc[c], "open")
      BY <2>4 DEF Shared!Opened, Shared!Goto, Stays
    <3> QED BY <1>0, <2>4, <3>1, MovesReady DEF Shared!Opened, Shared!mailbox
  <2>5. CASE Shared!SetMessageFlag(c) \/ Shared!ResetMessageFlag(c)
    BY <1>0, <2>5, FlagsReady
  <2>6. ASSUME Shared!OpenMessage(c) PROVE CloseInv'
    <3>1. pc' = pc \/ (pc' = [pc EXCEPT ![c] = "find"] /\ Stays(pc[c], "find"))
      BY <2>6 DEF Shared!OpenMessage, Shared!Goto, Stays
    <3> QED BY <1>0, <2>6, <3>1, MovesReady DEF Shared!OpenMessage
  <2>7. CASE Shared!FindIn(c)
    BY <1>0, <2>7, MovesReady DEF Shared!FindIn, Shared!mailbox
  <2>8. ASSUME Shared!OpenFound(c) PROVE CloseInv'
    <3>1. pc' = pc \/ (pc' = [pc EXCEPT ![c] = "open"] /\ Stays(pc[c], "open"))
      BY <2>8 DEF Shared!OpenFound, Shared!Goto, Stays
    <3> QED BY <1>0, <2>8, <3>1, MovesReady DEF Shared!OpenFound, Shared!mailbox
  <2>9. ASSUME Shared!GiveUp(c) PROVE CloseInv'
    <3>1. pc' = [pc EXCEPT ![c] = "open"] /\ Stays(pc[c], "open")
      BY <2>9 DEF Shared!GiveUp, Shared!Goto, Stays
    <3> QED BY <1>0, <2>9, <3>1, MovesReady DEF Shared!GiveUp, Shared!mailbox
  <2>10. CASE Shared!Close(c)
    BY <1>0, <2>10, CloseReady
  <2>11. CASE Shared!PurgeMessage(c)
    BY <1>0, <2>11, PurgeMessageReady
  <2>12. CASE Shared!KeepMessage(c)
    BY <1>0, <2>12, KeepMessageReady
  <2>13. CASE Shared!RenameMessage(c)
    BY <1>0, <2>13, RenameMessageReady
  <2>14. ASSUME Shared!Closed(c) PROVE CloseInv'
    <3>1. pc' = [pc EXCEPT ![c] = "closed"] /\ Stays(pc[c], "closed")
      BY <2>14 DEF Shared!Closed, Shared!Goto, Stays
    <3> QED BY <1>0, <2>14, <3>1, MovesReady DEF Shared!Closed, Shared!mailbox
  <2>15. ASSUME Shared!Die(c) PROVE CloseInv'
    <3>1. pc' = [pc EXCEPT ![c] = "dead"] /\ Stays(pc[c], "dead")
      BY <2>15 DEF Shared!Die, Shared!Goto, Stays
    <3> QED BY <1>0, <2>15, <3>1, MovesReady DEF Shared!Die, Shared!mailbox
  <2> QED
    BY <1>2, <2>1, <2>2, <2>3, <2>4, <2>5, <2>6, <2>7, <2>8, <2>9, <2>10, <2>11, <2>12,
       <2>13, <2>14, <2>15 DEF Shared!Step
<1>3. CASE UNCHANGED Shared!vars
  BY <1>0, <1>3, AllReady DEF Shared!vars, Shared!mailbox
<1> QED BY <1>1, <1>2, <1>3 DEF Shared!Next

(* A step that closes a mailbox, at once or at the end of its sync, is one  *)
(* after which each message holds.                                          *)
ClosesClean(c) ==
    pc[c] # "closed" /\ pc'[c] = "closed" =>
        \A k \in DOMAIN path[c] : path[c][k].msg \notin moved[c] => Shared!Saved(c, k, files')
LEMMA ClosesAreClean ==
    ASSUME CloseInv, [Shared!Next]_(Shared!vars), NEW c \in Clients PROVE ClosesClean(c)
<1> SUFFICES ASSUME pc[c] # "closed", pc'[c] = "closed", NEW k \in DOMAIN path[c],
                    path[c][k].msg \notin moved[c]
             PROVE  Shared!Saved(c, k, files')
  BY DEF ClosesClean
<1>1. Shared!Close(c) \/ Shared!Closed(c)
  <2>1. ASSUME NEW d \in Clients, Shared!Step(d), ~Shared!Close(d), ~Shared!Closed(d)
        PROVE  \E p \in Places \ {"closed"} : pc' = [pc EXCEPT ![d] = p] \/ pc' = pc
    <3>1. CASE \/ Shared!ParseEntry(d) \/ Shared!SetMessageFlag(d) \/ Shared!ResetMessageFlag(d)
              \/ Shared!FindIn(d) \/ Shared!PurgeMessage(d) \/ Shared!KeepMessage(d)
      <4>1. pc' = pc
        BY <3>1 DEF Shared!ParseEntry, Shared!SetMessageFlag, Shared!ResetMessageFlag,
                    Shared!Edit, Shared!FindIn, Shared!PurgeMessage, Shared!KeepMessage
      <4> QED BY <4>1 DEF Places
    <3>2. CASE Shared!Open(d) \/ Shared!ScanCur(d) \/ Shared!Opened(d) \/ Shared!GiveUp(d)
              \/ Shared!Die(d)
      BY <3>2 DEF Shared!Open, Shared!ScanCur, Shared!Opened, Shared!GiveUp, Shared!Die,
                  Shared!Goto, Places
    <3>3. CASE Shared!OpenMessage(d)
      <4>1. pc' = pc \/ pc' = [pc EXCEPT ![d] = "find"]
        BY <3>3 DEF Shared!OpenMessage, Shared!Goto
      <4> QED BY <4>1 DEF Places
    <3>4. CASE Shared!OpenFound(d)
      <4>1. pc' = pc \/ pc' = [pc EXCEPT ![d] = "open"]
        BY <3>4 DEF Shared!OpenFound, Shared!Goto
      <4> QED BY <4>1 DEF Places
    <3>5. CASE Shared!RenameMessage(d)
      <4>1. pc' = pc \/ pc' = [pc EXCEPT ![d] = "leaked"]
        BY <3>5 DEF Shared!RenameMessage, Shared!Goto
      <4> QED BY <4>1 DEF Places
    <3> QED BY <2>1, <3>1, <3>2, <3>3, <3>4, <3>5 DEF Shared!Step
  <2>2. pc' # pc /\ pc \in [Clients -> Places]
    BY DEF CloseInv, MaildirInv, MaildirTypes
  <2>3. PICK d \in Clients : Shared!Step(d)
    BY <2>2 DEF Shared!Next, Shared!Deliver, Shared!vars
  <2>4. Shared!Close(d) \/ Shared!Closed(d)
    <3> SUFFICES ASSUME ~Shared!Close(d), ~Shared!Closed(d) PROVE FALSE
      OBVIOUS
    <3>1. PICK p \in Places \ {"closed"} : pc' = [pc EXCEPT ![d] = p] \/ pc' = pc
      BY <2>1, <2>3
    <3> QED BY <2>2, <3>1
  <2>5. d = c
    BY <2>2, <2>4 DEF Shared!Close, Shared!Closed, Shared!Goto
  <2> QED BY <2>4, <2>5
<1>2. files' = files /\ Fits(ctx[c], path[c]) /\ ListHolds(c) /\ path[c] \in Seq(Shared!Names)
      /\ at[c] \in Nat
  BY <1>1 DEF Shared!Close, Shared!Closed, CloseInv, Contexts, Ready, Active, MaildirInv,
              MaildirTypes
<1>3. Holds(c, k)
  BY <1>2 DEF ListHolds
<1>4. CASE Shared!Closed(c)
  <2>1. pc[c] = "sync" /\ k < at[c]
    BY <1>2, <1>4 DEF Shared!Closed, CloseInv, Ready
  <2> QED BY <1>2, <1>3, <2>1 DEF Holds
<1>5. CASE Shared!Close(c)
  <2>1. pc[c] = "open" /\ ctx[c].changed = 0 /\ ctx[c].deleted = 0
    BY <1>5 DEF Shared!Close, Shared!Goto, CloseInv, MaildirInv, MaildirTypes
  <2>2. PICK h, f, n : h = ctx[c].hdrs[k] /\ f = path[c][k] /\ n = ctx[c].changed
    OBVIOUS
  <2>3. DOMAIN ctx[c].hdrs = DOMAIN path[c] /\ Shared!DeletedOnes(ctx[c].hdrs) = {}
    <3>1. PICK S : S = Shared!DeletedOnes(ctx[c].hdrs)
      OBVIOUS
    <3>2. Counted(S, 0)
      BY <1>2, <2>1, <3>1 DEF Fits
    <3> QED BY <1>2, <3>1, <3>2, CountedNone DEF Fits, IsContext
  <2>4. ~h.deleted /\ HeaderFits(h, f, n) /\ n = 0 /\ f \in Shared!Names
    BY <1>2, <2>1, <2>2, <2>3 DEF Fits, Shared!DeletedOnes
  <2>5. ~h.changed /\ ~h.trash
    BY <2>4 DEF HeaderFits
  <2>6. f.flags = Shared!FlagsOf(h)
    BY <2>4, <2>5, FlagsAgree
  <2>7. f \in files'
    BY <1>2, <1>3, <2>1, <2>2 DEF Holds
  <2> QED BY <2>2, <2>4, <2>6, <2>7 DEF Shared!Saved
<1> QED BY <1>1, <1>4, <1>5

(* Whatever the mailboxes and the delivery do in between: a mailbox that is *)
(* closed without an error leaves every message that no other process moved *)
(* as its program wanted it, also when the marks of changes let it go       *)
(* without a sync (mx.c, mh.c, src/mailstore_main.c).                       *)
THEOREM CleanCloses == Shared!Spec => Shared!CleanCloseSaves
<1>1. CloseInv /\ [Shared!Next]_(Shared!vars) =>
         [\A c \in Clients :
            pc[c] # "closed" /\ pc'[c] = "closed" =>
                \A k \in DOMAIN path[c] :
                    path[c][k].msg \notin moved[c] => Shared!Saved(c, k, files')]_(Shared!vars)
  BY ClosesAreClean DEF ClosesClean
<1> QED BY <1>1, CloseStarts, CloseKept, PTL DEF Shared!Spec, Shared!CleanCloseSaves
=============================================================================
