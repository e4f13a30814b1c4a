---------------------------- MODULE MCMailboxes -----------------------------
(***************************************************************************)
(* The parts of libmutt that read, lock and write mailboxes, and the class *)
(* Mailbox that uses them.  Each has its state to itself, so they are put  *)
(* side by side: one of them is in use in a behaviour, by as many          *)
(* processes as its bounds say.                                            *)
(***************************************************************************)
EXTENDS TLC, MailDrivers_proofs, Imap_proofs

CONSTANTS
    MaxMail, MaxMboxEdits, BoxObjs, MsgObjs, MaxContexts, MaxFds, MaxOpens,
    MaxHeaders, Blocks, MaxBlocks, DateYears, DateMonths, DateDays,
    DateHours, DateZones, Winter, Summer, Change, Fields, MaxFields,
    MaxCopies, m1, m2

VARIABLES
    running,       \* the component in use
    mbox, arrived, flocked, reader, asked, savedmail, crashed, fooled,
    mailboxes, contexts, messages, fdtable, opens, pikefiles, ReplyRegexp,
    mailhistory, mailfaults,
    mimefile, prefixed, behind, bodies, agenda, mimepc, lastpart, misled,
    token, written, tm, zone, header, datepc,
    pieces, place, envelope, hdrflags, copied, headerpc, before, copies

spool_vars ==
    <<mbox, arrived, flocked, reader, asked, savedmail, crashed, fooled>>
locks_vars ==
    <<lockfile, locker, tmplocks, broken_locks>>
imap_vars ==
    <<folder, flags, nextuid, others, told, session, idata, box, misdone>>
connections_vars ==
    <<Connections, conn, imapdata, mailbox, opening, lostfds, connpast>>
objects_vars ==
    <<mailboxes, contexts, messages, fdtable, opens, pikefiles, ReplyRegexp,
      mailhistory, mailfaults>>
folders_vars ==
    <<folderpath, DefaultMagic, appender>>
mh_vars ==
    <<initialised, mhfiles, commas, sequences, mhclient, delivery, mhedits,
      mhhistory>>
mime_vars ==
    <<mimefile, prefixed, behind, bodies, agenda, mimepc, lastpart, misled>>
dates_vars ==
    <<token, written, tm, zone, header, datepc>>
headers_vars ==
    <<pieces, place, envelope, hdrflags, copied, headerpc, before, copies>>
shared_vars ==
    <<files, delivered, pc, ctx, path, listing, at, seek, edits, openings,
      present, moved, missed>>
script_vars ==
    <<piketmp, pikemails, pikeclients, pikeknown, pikehistory>>

-----------------------------------------------------------------------------
(* What mailboxes are opened with: the kinds of server, a user or none.     *)
SomeUris ==
    {[scheme |-> "imap", user |-> "joe", pass |-> "right"],
     [scheme |-> "pine", user |-> "ann", pass |-> "wrong"],
     [scheme |-> "imaps", user |-> "joe", pass |-> "wrong"],
     [scheme |-> "bad", user |-> "none", pass |-> "none"],
     [scheme |-> "imap", user |-> "", pass |-> "none"]}

(* Headers of a multipart, an enclosed message and a part, with boundaries  *)
(* "a" and "b", the ends of both, and a line of text.                       *)
MimeBlocks ==
    {<<"a", "multi", "blank">>, <<"a", "message", "blank">>, <<"multi", "blank">>,
     <<"b", "blank">>, <<"a", "blank">>, <<"a.">>, <<"b.">>, <<"field">>}

(* One hour east, three and a half west of Greenwich.                       *)
SomeZones ==
    {[east |-> TRUE, hours |-> 1, minutes |-> 0], [east |-> FALSE, hours |-> 3, minutes |-> 30]}

(* A message that was read and trashed elsewhere; another one is delivered  *)
(* at some point.                                                           *)
HalfFolder == {[msg |-> m1, dir |-> "cur", flags |-> {"S", "T"}]}

Spool == INSTANCE Mbox_proofs
Objects == INSTANCE Mailstore
Mime == INSTANCE MimeParse
Lines == INSTANCE MailFields

(* One component is in use; the others stay as they were loaded.            *)
Init ==
    /\ running \in {"spool", "locks", "imap", "connections", "objects",
                      "folders", "mh", "mime", "dates", "headers", "shared",
                      "script"}
    /\ Spool!Init /\ Locks!Init /\ Imap!Init /\ Conns!Init /\ Objects!Init
    /\ Folders!Init /\ Mh!Init /\ Mime!Init /\ Lines!DateInit
    /\ Lines!HeaderInit /\ Shared!Init /\ Script!Init
    /\ running # "folders" => folderpath = Folders!Nothing /\ DefaultMagic = "mbox"
    /\ running # "mh" => initialised

SpoolRuns ==
    /\ running = "spool" /\ Spool!Next
    /\ UNCHANGED <<running, locks_vars, imap_vars, connections_vars,
                   objects_vars, folders_vars, mh_vars, mime_vars,
                   dates_vars, headers_vars, shared_vars, script_vars>>
LocksRuns ==
    /\ running = "locks" /\ Locks!Next
    /\ UNCHANGED <<running, spool_vars, imap_vars, connections_vars,
                   objects_vars, folders_vars, mh_vars, mime_vars,
                   dates_vars, headers_vars, shared_vars, script_vars>>
ImapRuns ==
    /\ running = "imap" /\ Imap!Next
    /\ UNCHANGED <<running, spool_vars, locks_vars, connections_vars,
                   objects_vars, folders_vars, mh_vars, mime_vars,
                   dates_vars, headers_vars, shared_vars, script_vars>>
ConnectionsRuns ==
    /\ running = "connections" /\ Conns!Next
    /\ UNCHANGED <<running, spool_vars, locks_vars, imap_vars, objects_vars,
                   folders_vars, mh_vars, mime_vars, dates_vars,
                   headers_vars, shared_vars, script_vars>>
ObjectsRuns ==
    /\ running = "objects" /\ Objects!Next
    /\ UNCHANGED <<running, spool_vars, locks_vars, imap_vars,
                   connections_vars, folders_vars, mh_vars, mime_vars,
                   dates_vars, headers_vars, shared_vars, script_vars>>
FoldersRuns ==
    /\ running = "folders" /\ Folders!Next
    /\ UNCHANGED <<running, spool_vars, locks_vars, imap_vars,
                   connections_vars, objects_vars, mh_vars, mime_vars,
                   dates_vars, headers_vars, shared_vars, script_vars>>
MhRuns ==
    /\ running = "mh" /\ Mh!Next
    /\ UNCHANGED <<running, spool_vars, locks_vars, imap_vars,
                   connections_vars, objects_vars, folders_vars, mime_vars,
                   dates_vars, headers_vars, shared_vars, script_vars>>
MimeRuns ==
    /\ running = "mime" /\ Mime!Next
    /\ UNCHANGED <<running, spool_vars, locks_vars, imap_vars,
                   connections_vars, objects_vars, folders_vars, mh_vars,
                   dates_vars, headers_vars, shared_vars, script_vars>>
DatesRuns ==
    /\ running = "dates" /\ Lines!DateNext
    /\ UNCHANGED <<running, spool_vars, locks_vars, imap_vars,
                   connections_vars, objects_vars, folders_vars, mh_vars,
                   mime_vars, headers_vars, shared_vars, script_vars>>
HeadersRuns ==
    /\ running = "headers" /\ Lines!HeaderNext
    /\ UNCHANGED <<running, spool_vars, locks_vars, imap_vars,
                   connections_vars, objects_vars, folders_vars, mh_vars,
                   mime_vars, dates_vars, shared_vars, script_vars>>
SharedRuns ==
    /\ running = "shared" /\ Shared!Next
    /\ UNCHANGED <<running, spool_vars, locks_vars, imap_vars,
                   connections_vars, objects_vars, folders_vars, mh_vars,
                   mime_vars, dates_vars, headers_vars, script_vars>>
ScriptRuns ==
    /\ running = "script" /\ Script!Next
    /\ UNCHANGED <<running, spool_vars, locks_vars, imap_vars,
                   connections_vars, objects_vars, folders_vars, mh_vars,
                   mime_vars, dates_vars, headers_vars, shared_vars>>

Next ==
    \/ SpoolRuns \/ LocksRuns \/ ImapRuns \/ ConnectionsRuns \/ ObjectsRuns
    \/ FoldersRuns \/ MhRuns \/ MimeRuns \/ DatesRuns \/ HeadersRuns
    \/ SharedRuns \/ ScriptRuns

allvars == <<running, spool_vars, locks_vars, imap_vars, connections_vars,
             objects_vars, folders_vars, mh_vars, mime_vars, dates_vars,
             headers_vars, shared_vars, script_vars>>

Spec == Init /\ [][Next]_allvars

(* Processes are interchangeable.                                           *)
Symmetry == Permutations(Clients)

-----------------------------------------------------------------------------
(* The state of the component in use is well formed.                        *)
TypeOK ==
    /\ running = "spool" => Spool!TypeOK
    /\ running = "locks" => Locks!TypeOK
    /\ running = "imap" => Imap!TypeOK
    /\ running = "connections" => Conns!TypeOK
    /\ running = "objects" => Objects!TypeOK
    /\ running = "folders" => Folders!TypeOK
    /\ running = "mh" => Mh!TypeOK
    /\ running = "mime" => Mime!TypeOK
    /\ running = "dates" => Lines!DateTypeOK
    /\ running = "headers" => Lines!HeaderTypeOK
    /\ running = "shared" => Shared!TypeOK
    /\ running = "script" => Script!TypeOK

(* A message nobody wanted to delete is in the mailbox, in a temporary      *)
(* file being copied, or in one that a crash or a full disk left, whatever  *)
(* happens between the processes (mbox.c); unless a mailbox took another    *)
(* file of the same length or beginning for the one it had read. What the   *)
(* Pike class Maildir delivered stays until it is purged, and only what     *)
(* was deleted is.                                                          *)
NoMailLost ==
    /\ running = "spool" => Spool!NoMailLost
    /\ running = "script" =>
          /\ Script!DeliveredStays
          /\ Script!TmpIsOfDeliveries

(* A mailbox that is read anew keeps what the script set on every message   *)
(* that is still there, wherever it has moved (reopen_mailbox).             *)
EditsSurviveReopen == Spool!EditsSurviveReopen

(* What a close that comes to its end leaves in the file is the messages    *)
(* it knew, less the deleted ones, with the flags it had                    *)
(* (mbox_sync_mailbox).                                                     *)
CommitIsExact == Spool!CommitIsExact

(* Two processes take a mailbox for theirs only after a lock was removed    *)
(* by force (dotlock.c).                                                    *)
HoldersExcluded == running = "locks" => Locks!HoldersExcluded

(* In whatever order news, commands and other clients come, the number of   *)
(* a header is the one its message has in the session, flags the script     *)
(* set are not undone by the server's, and the STORE of a close marks the   *)
(* deleted messages and no other (cmd_parse_expunge, imap_make_msg_set).    *)
SessionMatchesServer == running = "imap" =>
    /\ Imap!IndexMatchesServer
    /\ Imap!OwnFlagsSurviveServer
    /\ Imap!MarksAreExact

(* Every open mailbox has a connection of its own, logged in as its user;   *)
(* no descriptor is lost but by an opening that was refused on the way,     *)
(* and an account is stuck only when its connection was lost with a folder  *)
(* selected (imap_conn_find, imap_open_connection).                         *)
ConnectionsAreTheirs == running = "connections" =>
    /\ Conns!OneBoxPerConnection
    /\ Conns!BoxesAreOfTheirUser
    /\ Conns!SocketsAccounted
    /\ Conns!StuckOnlyByCommand

(* Mailboxes used one after the other have their expressions compiled       *)
(* again, a number out of date never reaches behind the last message, and   *)
(* an open stream keeps its descriptor (mailstore_main.c).                  *)
ObjectsKeepWhatTheyHold == running = "objects" =>
    /\ Objects!ExpressionsServeOne
    /\ Objects!StaleNumbersAreRefused
    /\ Objects!StreamsKeepDescriptors

(* A folder made or opened for appending is one that reading it later       *)
(* takes for the same kind, and one that cannot be made leaves nothing      *)
(* (mx.c).                                                                  *)
FoldersAreWhole == running = "folders" =>
    /\ Folders!OpenedIsRecognised
    /\ Folders!FailureLeavesNothing

(* A message nobody read stays unseen and only a message that was marked    *)
(* is deleted, whatever number it or another one had, unless writers of     *)
(* .mh_sequences crossed or one died (mh.c). In a maildir of the Pike       *)
(* class the flags of a name are those of the last change that took         *)
(* effect.                                                                  *)
MarksOutliveNumbers ==
    /\ running = "mh" => Mh!UnseenStaysUnseen /\ Mh!DeletesWhatWasMarked
    /\ running = "script" => Script!FlagsAreOfTheLastChange

(* A part ends at its boundary, inside its parent and before the next one,  *)
(* and no boundary is passed over (mutt_parse_multipart).                   *)
PartsNest == running = "mime" =>
    /\ Mime!PartsEndAtBoundaries
    /\ Mime!PartsWithinParents
    /\ Mime!SiblingsDisjoint
    /\ Mime!NoPartMissed

(* A valid date is the moment the calendar says, a date from before 1970    *)
(* is replaced, and a separator gives the moment it was written (date.c).   *)
DatesAreExact == running = "dates" =>
    /\ Lines!DatesAreExact
    /\ Lines!NothingBefore1970
    /\ Lines!SeparatorIsExact

(* A message that was copied and is read again has the flags and the        *)
(* fields it had, in the order they were (copy.c, parse.c).                 *)
HeadersComeBack == running = "headers" =>
    /\ Lines!StatusComesBack
    /\ Lines!FieldsSurviveCopy

(* A message of a maildir that others leave alone is listed once, and one   *)
(* that was moved is found, although new/ and cur/ are not read at the      *)
(* same time (maildir_open_find_message); in the Pike class one keeps a     *)
(* name that cannot be read only when it was listed during its delivery.    *)
EveryMessageFound ==
    /\ running = "shared" => Shared!ListedOnce /\ Shared!MovedMessageFound
    /\ running = "script" => Script!SizedUnlessCrossed

(* A close of a maildir that succeeds has left every message no other       *)
(* process moved as the program wanted it (mh_sync_mailbox).                *)
CleanCloseSaves == Shared!CleanCloseSaves

-----------------------------------------------------------------------------
(* What is proved of a component by itself holds here, for any values of    *)
(* the constants: each behaviour of the composition is one of the           *)
(* component, which is in use or stays as it was loaded.                    *)

(* The lock file is used, or left alone, in every step.                     *)
LEMMA LocksLive == Spec => Locks!Spec
<1>1. Init => Locks!Init
  BY DEF Init
<1>2. [Next]_allvars => [Locks!Next]_(Locks!dotlockvars)
  <2>1. LocksRuns => Locks!Next
    BY DEF LocksRuns
  <2>2. SpoolRuns => UNCHANGED locks_vars
    BY DEF SpoolRuns
  <2>3. ImapRuns => UNCHANGED locks_vars
    BY DEF ImapRuns
  <2>4. ConnectionsRuns => UNCHANGED locks_vars
    BY DEF ConnectionsRuns
  <2>5. ObjectsRuns => UNCHANGED locks_vars
    BY DEF ObjectsRuns
  <2>6. FoldersRuns => UNCHANGED locks_vars
    BY DEF FoldersRuns
  <2>7. MhRuns => UNCHANGED locks_vars
    BY DEF MhRuns
  <2>8. MimeRuns => UNCHANGED locks_vars
    BY DEF MimeRuns
  <2>9. DatesRuns => UNCHANGED locks_vars
    BY DEF DatesRuns
  <2>10. HeadersRuns => UNCHANGED locks_vars
    BY DEF HeadersRuns
  <2>11. SharedRuns => UNCHANGED locks_vars
    BY DEF SharedRuns
  <2>12. ScriptRuns => UNCHANGED locks_vars
    BY DEF ScriptRuns
  <2>13. UNCHANGED allvars => UNCHANGED locks_vars
    BY DEF allvars
  <2>14. UNCHANGED locks_vars <=> UNCHANGED Locks!dotlockvars
    BY DEF locks_vars, Locks!dotlockvars
  <2> QED
    BY <2>1, <2>2, <2>3, <2>4, <2>5, <2>6,
       <2>7, <2>8, <2>9, <2>10, <2>11, <2>12, <2>13, <2>14 DEF Next
<1> QED BY <1>1, <1>2, PTL DEF Spec, Locks!Spec

(* Any number of processes: two of them hold the lock of a mailbox at once  *)
(* only after one was broken by force (dotlock.c).                          *)
THEOREM LockHoldersExcluded ==
    ASSUME Null \notin Clients PROVE Spec => []HoldersExcluded
<1>1. Locks!Spec => []Locks!HoldersExcluded
  BY LocksExclude
<1> QED BY <1>1, LocksLive, PTL DEF HoldersExcluded

(* The connections are used, or left alone, in every step.                  *)
LEMMA ConnectionsLive == Spec => Conns!Spec
<1>1. Init => Conns!Init
  BY DEF Init
<1>2. [Next]_allvars => [Conns!Next]_(Conns!connvars)
  <2>1. ConnectionsRuns => Conns!Next
    BY DEF ConnectionsRuns
  <2>2. SpoolRuns => UNCHANGED connections_vars
    BY DEF SpoolRuns
  <2>3. LocksRuns => UNCHANGED connections_vars
    BY DEF LocksRuns
  <2>4. ImapRuns => UNCHANGED connections_vars
    BY DEF ImapRuns
  <2>5. ObjectsRuns => UNCHANGED connections_vars
    BY DEF ObjectsRuns
  <2>6. FoldersRuns => UNCHANGED connections_vars
    BY DEF FoldersRuns
  <2>7. MhRuns => UNCHANGED connections_vars
    BY DEF MhRuns
  <2>8. MimeRuns => UNCHANGED connections_vars
    BY DEF MimeRuns
  <2>9. DatesRuns => UNCHANGED connections_vars
    BY DEF DatesRuns
  <2>10. HeadersRuns => UNCHANGED connections_vars
    BY DEF HeadersRuns
  <2>11. SharedRuns => UNCHANGED connections_vars
    BY DEF SharedRuns
  <2>12. ScriptRuns => UNCHANGED connections_vars
    BY DEF ScriptRuns
  <2>13. UNCHANGED allvars => UNCHANGED connections_vars
    BY DEF allvars
  <2>14. UNCHANGED connections_vars <=> UNCHANGED Conns!connvars
    BY DEF connections_vars, Conns!connvars
  <2> QED
    BY <2>1, <2>2, <2>3, <2>4, <2>5, <2>6,
       <2>7, <2>8, <2>9, <2>10, <2>11, <2>12, <2>13, <2>14 DEF Next
<1> QED BY <1>1, <1>2, PTL DEF Spec, Conns!Spec

(* Any mailboxes, URIs and bound on connections: each open mailbox has a    *)
(* connection of its own logged in as its user, and no socket is lost that  *)
(* is not accounted for (imap_conn_find, imap_open_connection).             *)
THEOREM ImapConnectionsAreTheirs == Spec => []ConnectionsAreTheirs
<1>1. Conns!Spec => [](/\ Conns!OneBoxPerConnection /\ Conns!BoxesAreOfTheirUser
                       /\ Conns!SocketsAccounted /\ Conns!StuckOnlyByCommand)
  BY ConnectionsHold
<1> QED BY <1>1, ConnectionsLive, PTL DEF ConnectionsAreTheirs

(* The session is used, or left alone, in every step.                       *)
LEMMA ImapLive == Spec => Imap!Spec
<1>1. Init => Imap!Init
  BY DEF Init
<1>2. [Next]_allvars => [Imap!Next]_(Imap!imapvars)
  <2>1. ImapRuns => Imap!Next
    BY DEF ImapRuns
  <2>2. SpoolRuns => UNCHANGED imap_vars
    BY DEF SpoolRuns
  <2>3. LocksRuns => UNCHANGED imap_vars
    BY DEF LocksRuns
  <2>4. ConnectionsRuns => UNCHANGED imap_vars
    BY DEF ConnectionsRuns
  <2>5. ObjectsRuns => UNCHANGED imap_vars
    BY DEF ObjectsRuns
  <2>6. FoldersRuns => UNCHANGED imap_vars
    BY DEF FoldersRuns
  <2>7. MhRuns => UNCHANGED imap_vars
    BY DEF MhRuns
  <2>8. MimeRuns => UNCHANGED imap_vars
    BY DEF MimeRuns
  <2>9. DatesRuns => UNCHANGED imap_vars
    BY DEF DatesRuns
  <2>10. HeadersRuns => UNCHANGED imap_vars
    BY DEF HeadersRuns
  <2>11. SharedRuns => UNCHANGED imap_vars
    BY DEF SharedRuns
  <2>12. ScriptRuns => UNCHANGED imap_vars
    BY DEF ScriptRuns
  <2>13. UNCHANGED allvars => UNCHANGED imap_vars
    BY DEF allvars
  <2>14. UNCHANGED imap_vars <=> UNCHANGED Imap!imapvars
    BY DEF imap_vars, Imap!imapvars
  <2> QED
    BY <2>1, <2>2, <2>3, <2>4, <2>5, <2>6,
       <2>7, <2>8, <2>9, <2>10, <2>11, <2>12, <2>13, <2>14 DEF Next
<1> QED BY <1>1, <1>2, PTL DEF Spec, Imap!Spec

(* Any number of messages, mailboxes and changes of other clients: in       *)
(* whatever order news and commands come, a header has the number of its    *)
(* message, the script's own flags stay, and a close marks the messages     *)
(* the script deleted and no other (cmd_parse_expunge, imap_make_msg_set).  *)
THEOREM SessionsMatch == ASSUME Imap!Bounds PROVE Spec => []SessionMatchesServer
<1>1. Imap!Spec => [](/\ Imap!TypeOK /\ Imap!IndexMatchesServer
                      /\ Imap!OwnFlagsSurviveServer /\ Imap!MarksAreExact)
  BY SessionHolds
<1> QED BY <1>1, ImapLive, PTL DEF SessionMatchesServer

(* The folder is used, or left alone, in every step.                        *)
LEMMA FoldersLive == Spec => Folders!Spec
<1>1. Init => Folders!Init
  BY DEF Init
<1>2. [Next]_allvars => [Folders!Next]_(Folders!mxvars)
  <2>1. FoldersRuns => Folders!Next
    BY DEF FoldersRuns
  <2>2. SpoolRuns => UNCHANGED folders_vars
    BY DEF SpoolRuns
  <2>3. LocksRuns => UNCHANGED folders_vars
    BY DEF LocksRuns
  <2>4. ImapRuns => UNCHANGED folders_vars
    BY DEF ImapRuns
  <2>5. ConnectionsRuns => UNCHANGED folders_vars
    BY DEF ConnectionsRuns
  <2>6. ObjectsRuns => UNCHANGED folders_vars
    BY DEF ObjectsRuns
  <2>7. MhRuns => UNCHANGED folders_vars
    BY DEF MhRuns
  <2>8. MimeRuns => UNCHANGED folders_vars
    BY DEF MimeRuns
  <2>9. DatesRuns => UNCHANGED folders_vars
    BY DEF DatesRuns
  <2>10. HeadersRuns => UNCHANGED folders_vars
    BY DEF HeadersRuns
  <2>11. SharedRuns => UNCHANGED folders_vars
    BY DEF SharedRuns
  <2>12. ScriptRuns => UNCHANGED folders_vars
    BY DEF ScriptRuns
  <2>13. UNCHANGED allvars => UNCHANGED folders_vars
    BY DEF allvars
  <2>14. UNCHANGED folders_vars <=> UNCHANGED Folders!mxvars
    BY DEF folders_vars, Folders!mxvars
  <2> QED
    BY <2>1, <2>2, <2>3, <2>4, <2>5, <2>6,
       <2>7, <2>8, <2>9, <2>10, <2>11, <2>12, <2>13, <2>14 DEF Next
<1> QED BY <1>1, <1>2, PTL DEF Spec, Folders!Spec

(* Whatever kinds the program sets and others leave at the path, a folder   *)
(* that is appended to is one that reading it takes for the same kind, and  *)
(* a failure leaves nothing (mx.c).                                         *)
THEOREM MadeFoldersAreWhole ==
    ASSUME KnownMagics PROVE Spec => []FoldersAreWhole
<1>1. Folders!Spec =>
        [](Folders!TypeOK /\ Folders!OpenedIsRecognised /\ Folders!FailureLeavesNothing)
  BY FoldersMadeAreWhole
<1> QED BY <1>1, FoldersLive, PTL DEF FoldersAreWhole

(* The objects are used, or left alone, in every step.                      *)
LEMMA ObjectsLive == Spec => Objects!Spec
<1>1. Init => Objects!Init
  BY DEF Init
<1>2. [Next]_allvars => [Objects!Next]_(Objects!mailstorevars)
  <2>1. ObjectsRuns => Objects!Next
    BY DEF ObjectsRuns
  <2>2. SpoolRuns => UNCHANGED objects_vars
    BY DEF SpoolRuns
  <2>3. LocksRuns => UNCHANGED objects_vars
    BY DEF LocksRuns
  <2>4. ImapRuns => UNCHANGED objects_vars
    BY DEF ImapRuns
  <2>5. ConnectionsRuns => UNCHANGED objects_vars
    BY DEF ConnectionsRuns
  <2>6. FoldersRuns => UNCHANGED objects_vars
    BY DEF FoldersRuns
  <2>7. MhRuns => UNCHANGED objects_vars
    BY DEF MhRuns
  <2>8. MimeRuns => UNCHANGED objects_vars
    BY DEF MimeRuns
  <2>9. DatesRuns => UNCHANGED objects_vars
    BY DEF DatesRuns
  <2>10. HeadersRuns => UNCHANGED objects_vars
    BY DEF HeadersRuns
  <2>11. SharedRuns => UNCHANGED objects_vars
    BY DEF SharedRuns
  <2>12. ScriptRuns => UNCHANGED objects_vars
    BY DEF ScriptRuns
  <2>13. UNCHANGED allvars => UNCHANGED objects_vars
    BY DEF allvars
  <2>14. UNCHANGED objects_vars <=> UNCHANGED Objects!mailstorevars
    BY DEF objects_vars, Objects!mailstorevars
  <2> QED
    BY <2>1, <2>2, <2>3, <2>4, <2>5, <2>6,
       <2>7, <2>8, <2>9, <2>10, <2>11, <2>12, <2>13, <2>14 DEF Next
<1> QED BY <1>1, <1>2, PTL DEF Spec, Objects!Spec

(* Any number of objects, mailboxes, messages and descriptors: what the     *)
(* objects hold stays theirs (mailstore_main.c).                            *)
THEOREM ObjectsKeepTheirs ==
    ASSUME Objects!Bounds PROVE Spec => []ObjectsKeepWhatTheyHold
<1>1. Objects!Spec =>
        [](Objects!ExpressionsServeOne /\ Objects!StaleNumbersAreRefused
           /\ Objects!StreamsKeepDescriptors)
  BY Objects!StoreHolds
<1> QED BY <1>1, ObjectsLive, PTL DEF ObjectsKeepWhatTheyHold

(* The MH folder is used, or left alone, in every step.                     *)
LEMMA MhLive == Spec => Mh!Spec
<1>1. Init => Mh!Init
  BY DEF Init
<1>2. [Next]_allvars => [Mh!Next]_(Mh!mhvars)
  <2>1. MhRuns => Mh!Next
    BY DEF MhRuns
  <2>2. SpoolRuns => UNCHANGED mh_vars
    BY DEF SpoolRuns
  <2>3. LocksRuns => UNCHANGED mh_vars
    BY DEF LocksRuns
  <2>4. ImapRuns => UNCHANGED mh_vars
    BY DEF ImapRuns
  <2>5. ConnectionsRuns => UNCHANGED mh_vars
    BY DEF ConnectionsRuns
  <2>6. ObjectsRuns => UNCHANGED mh_vars
    BY DEF ObjectsRuns
  <2>7. FoldersRuns => UNCHANGED mh_vars
    BY DEF FoldersRuns
  <2>8. MimeRuns => UNCHANGED mh_vars
    BY DEF MimeRuns
  <2>9. DatesRuns => UNCHANGED mh_vars
    BY DEF DatesRuns
  <2>10. HeadersRuns => UNCHANGED mh_vars
    BY DEF HeadersRuns
  <2>11. SharedRuns => UNCHANGED mh_vars
    BY DEF SharedRuns
  <2>12. ScriptRuns => UNCHANGED mh_vars
    BY DEF ScriptRuns
  <2>13. UNCHANGED allvars => UNCHANGED mh_vars
    BY DEF allvars
  <2>14. UNCHANGED mh_vars <=> UNCHANGED Mh!mhvars
    BY DEF mh_vars, Mh!mhvars
  <2> QED
    BY <2>1, <2>2, <2>3, <2>4, <2>5, <2>6,
       <2>7, <2>8, <2>9, <2>10, <2>11, <2>12, <2>13, <2>14 DEF Next
<1> QED BY <1>1, <1>2, PTL DEF Spec, Mh!Spec

(* The maildir of the Pike class is used, or left alone, in every step.     *)
LEMMA ScriptLive == Spec => Script!Spec
<1>1. Init => Script!Init
  BY DEF Init
<1>2. [Next]_allvars => [Script!Next]_(Script!pikevars)
  <2>1. ScriptRuns => Script!Next
    BY DEF ScriptRuns
  <2>2. SpoolRuns => UNCHANGED script_vars
    BY DEF SpoolRuns
  <2>3. LocksRuns => UNCHANGED script_vars
    BY DEF LocksRuns
  <2>4. ImapRuns => UNCHANGED script_vars
    BY DEF ImapRuns
  <2>5. ConnectionsRuns => UNCHANGED script_vars
    BY DEF ConnectionsRuns
  <2>6. ObjectsRuns => UNCHANGED script_vars
    BY DEF ObjectsRuns
  <2>7. FoldersRuns => UNCHANGED script_vars
    BY DEF FoldersRuns
  <2>8. MhRuns => UNCHANGED script_vars
    BY DEF MhRuns
  <2>9. MimeRuns => UNCHANGED script_vars
    BY DEF MimeRuns
  <2>10. DatesRuns => UNCHANGED script_vars
    BY DEF DatesRuns
  <2>11. HeadersRuns => UNCHANGED script_vars
    BY DEF HeadersRuns
  <2>12. SharedRuns => UNCHANGED script_vars
    BY DEF SharedRuns
  <2>13. UNCHANGED allvars => UNCHANGED script_vars
    BY DEF allvars
  <2>14. UNCHANGED script_vars <=> UNCHANGED Script!pikevars
    BY DEF script_vars, Script!pikevars
  <2> QED
    BY <2>1, <2>2, <2>3, <2>4, <2>5, <2>6,
       <2>7, <2>8, <2>9, <2>10, <2>11, <2>12, <2>13, <2>14 DEF Next
<1> QED BY <1>1, <1>2, PTL DEF Spec, Script!Spec

(* Any number of programs and messages: a message of an MH folder nobody    *)
(* read stays unseen and only a marked one is deleted, while writers of     *)
(* .mh_sequences neither cross nor die (mh.c); a name in a maildir of the   *)
(* Pike class has the flags of the last change that took effect             *)
(* (Maildir.pmod).                                                          *)
THEOREM MarksOutlive == Spec => []MarksOutliveNumbers
<1>1. Mh!Spec => [](Mh!UnseenStaysUnseen /\ Mh!DeletesWhatWasMarked)
  BY MhFolderHolds
<1>2. Script!Spec =>
        [](Script!DeliveredStays /\ Script!TmpIsOfDeliveries /\ Script!SizedUnlessCrossed
             /\ Script!FlagsAreOfTheLastChange /\ Script!TypeOK)
  BY PikeFolderHolds
<1> QED BY <1>1, <1>2, MhLive, ScriptLive, PTL DEF MarksOutliveNumbers

(* The maildir is used, or left alone, in every step.                       *)
LEMMA SharedLive == Spec => Shared!Spec
<1>1. Init => Shared!Init
  BY DEF Init
<1>2. [Next]_allvars => [Shared!Next]_(Shared!vars)
  <2>1. SharedRuns => Shared!Next
    BY DEF SharedRuns
  <2>2. SpoolRuns => UNCHANGED shared_vars
    BY DEF SpoolRuns
  <2>3. LocksRuns => UNCHANGED shared_vars
    BY DEF LocksRuns
  <2>4. ImapRuns => UNCHANGED shared_vars
    BY DEF ImapRuns
  <2>5. ConnectionsRuns => UNCHANGED shared_vars
    BY DEF ConnectionsRuns
  <2>6. ObjectsRuns => UNCHANGED shared_vars
    BY DEF ObjectsRuns
  <2>7. FoldersRuns => UNCHANGED shared_vars
    BY DEF FoldersRuns
  <2>8. MimeRuns => UNCHANGED shared_vars
    BY DEF MimeRuns
  <2>9. DatesRuns => UNCHANGED shared_vars
    BY DEF DatesRuns
  <2>10. HeadersRuns => UNCHANGED shared_vars
    BY DEF HeadersRuns
  <2>11. MhRuns => UNCHANGED shared_vars
    BY DEF MhRuns
  <2>12. ScriptRuns => UNCHANGED shared_vars
    BY DEF ScriptRuns
  <2>13. UNCHANGED allvars => UNCHANGED shared_vars
    BY DEF allvars
  <2>14. UNCHANGED shared_vars <=> UNCHANGED Shared!vars
    BY DEF shared_vars, Shared!vars, Shared!mailbox
  <2> QED
    BY <2>1, <2>2, <2>3, <2>4, <2>5, <2>6,
       <2>7, <2>8, <2>9, <2>10, <2>11, <2>12, <2>13, <2>14 DEF Next
<1> QED BY <1>1, <1>2, PTL DEF Spec, Shared!Spec

(* Any number of mailboxes on a maildir, and of programs on one of the Pike *)
(* class: a message others leave alone is listed once, one that was moved   *)
(* is found, and a name is one that can be read unless the message was      *)
(* listed during its delivery (mh.c, Maildir.pmod).                         *)
THEOREM EveryMessageIsFound == Spec => []EveryMessageFound
<1>1. Shared!Spec => [](Shared!ListedOnce /\ Shared!MovedMessageFound)
  BY MaildirFolderHolds
<1>2. Script!Spec =>
        [](Script!DeliveredStays /\ Script!TmpIsOfDeliveries /\ Script!SizedUnlessCrossed
             /\ Script!FlagsAreOfTheLastChange /\ Script!TypeOK)
  BY PikeFolderHolds
<1> QED BY <1>1, <1>2, SharedLive, ScriptLive, PTL DEF EveryMessageFound

(* Any number of mailboxes on a maildir: one that is closed without an      *)
(* error has left every message no other process moved as its program       *)
(* wanted it (mx.c, mh.c).                                                  *)
THEOREM ClosesSave == Spec => CleanCloseSaves
<1>1. Shared!Spec => Shared!CleanCloseSaves
  BY CleanCloses
<1> QED BY <1>1, SharedLive DEF CleanCloseSaves

(* The mbox is used, or left alone, in every step.                          *)
LEMMA SpoolLive == Spec => Spool!Spec
<1>1. Init => Spool!Init
  BY DEF Init
<1>2. [Next]_allvars => [Spool!Next]_(Spool!mboxvars)
  <2>1. SpoolRuns => Spool!Next
    BY DEF SpoolRuns
  <2>2. SharedRuns => UNCHANGED spool_vars
    BY DEF SharedRuns
  <2>3. LocksRuns => UNCHANGED spool_vars
    BY DEF LocksRuns
  <2>4. ImapRuns => UNCHANGED spool_vars
    BY DEF ImapRuns
  <2>5. ConnectionsRuns => UNCHANGED spool_vars
    BY DEF ConnectionsRuns
  <2>6. ObjectsRuns => UNCHANGED spool_vars
    BY DEF ObjectsRuns
  <2>7. FoldersRuns => UNCHANGED spool_vars
    BY DEF FoldersRuns
  <2>8. MimeRuns => UNCHANGED spool_vars
    BY DEF MimeRuns
  <2>9. DatesRuns => UNCHANGED spool_vars
    BY DEF DatesRuns
  <2>10. HeadersRuns => UNCHANGED spool_vars
    BY DEF HeadersRuns
  <2>11. MhRuns => UNCHANGED spool_vars
    BY DEF MhRuns
  <2>12. ScriptRuns => UNCHANGED spool_vars
    BY DEF ScriptRuns
  <2>13. UNCHANGED allvars => UNCHANGED spool_vars
    BY DEF allvars
  <2>14. UNCHANGED spool_vars <=> UNCHANGED Spool!mboxvars
    BY DEF spool_vars, Spool!mboxvars
  <2> QED
    BY <2>1, <2>2, <2>3, <2>4, <2>5, <2>6,
       <2>7, <2>8, <2>9, <2>10, <2>11, <2>12, <2>13, <2>14 DEF Next
<1> QED BY <1>1, <1>2, PTL DEF Spec, Spool!Spec

(* Any number of processes on an mbox, and of programs on a maildir of the  *)
(* Pike class: a message nobody wanted to delete is in the mailbox, in a    *)
(* temporary file being copied, or in one that was left, unless a mailbox   *)
(* took another file for the one it had read; what the Pike class           *)
(* delivered stays until it is purged (mbox.c, Maildir.pmod).               *)
THEOREM MailIsKept == ASSUME Spool!NullIsNone PROVE Spec => []NoMailLost
<1>1. Spool!Spec => []Spool!NoMailLost
  BY Spool!MboxLosesNoMail
<1>2. Script!Spec =>
        [](Script!DeliveredStays /\ Script!TmpIsOfDeliveries /\ Script!SizedUnlessCrossed
             /\ Script!FlagsAreOfTheLastChange /\ Script!TypeOK)
  BY PikeFolderHolds
<1> QED BY <1>1, <1>2, SpoolLive, ScriptLive, PTL DEF NoMailLost
=============================================================================
