------------------------------ MODULE MhFolder ------------------------------
(***************************************************************************)
(* The MH driver (libmutt/src/mh.c): a file per message, named by its      *)
(* number, and .mh_sequences, which says what is unseen.  Clients of the   *)
(* library and a delivering process share the folder without a lock.  The  *)
(* names of the sequences, and the wish to look for changes, are set by    *)
(* mutt_init, which the Pike glue never calls.  One sequence stands for    *)
(* the three.                                                              *)
(***************************************************************************)
EXTENDS Integers, FiniteSets

CONSTANTS
    MhClients,    \* processes that have the folder open
    MaxNumber,    \* bound: message numbers
    MaxMhEdits    \* bound: flags set in the life of the folder

VARIABLES
    initialised,  \* mutt_init was called
    mhfiles,      \* id of the message under each number, 0 for none
    commas,       \* numbers whose deleted file, ",n", is there
    sequences,    \* [there, unseen]: .mh_sequences
    mhclient,     \* what each client is doing, and its headers
    delivery,     \* the delivering process
    mhedits,
    mhhistory     \* what has happened to the folder

mhvars == <<initialised, mhfiles, commas, sequences, mhclient, delivery, mhedits,
            mhhistory>>

Numbers == 1..MaxNumber
NoHeader == [id |-> 0, read |-> FALSE, deleted |-> FALSE, changed |-> FALSE]
Shut == [pc |-> "shut", hdrs |-> [n \in Numbers |-> NoHeader], due |-> FALSE, new |-> {}]
Resting == [pc |-> "idle", n |-> 0, old |-> {}]
Init ==
    /\ initialised \in BOOLEAN
    /\ mhfiles = [n \in Numbers |-> IF n = 1 THEN 1 ELSE 0]
    /\ commas = {}
    /\ sequences = [there |-> TRUE, unseen |-> {1}]
    /\ mhclient = [c \in MhClients |-> Shut]
    /\ delivery = Resting
    /\ mhedits = 0
    /\ mhhistory = [ids |-> 1, readonce |-> {}, events |-> {}]

TypeOK ==
    /\ mhfiles \in [Numbers -> 0..MaxNumber] /\ commas \subseteq Numbers
    /\ sequences \in [there : BOOLEAN, unseen : SUBSET Numbers]
    /\ \A c \in MhClients : /\ mhclient[c].pc \in {"shut", "open", "writes", "unlinked"}
                            /\ mhclient[c].new \subseteq Numbers
    /\ delivery.pc \in {"idle", "numbered", "read", "unlinked"}
    /\ mhedits \in 0..MaxMhEdits

Files == {n \in Numbers : mhfiles[n] # 0}
Happened(events) == [mhhistory EXCEPT !.events = @ \cup events]
(* A change of the folder is noticed by its time, unless it is made in the  *)
(* second of the last look.                                                 *)
Noticed(by, due) ==
    due \in [MhClients -> BOOLEAN]
    /\ \A d \in MhClients : /\ mhclient[d].due => due[d]
                            /\ due[d] => initialised /\ mhclient[d].pc # "shut"
    /\ (by \in MhClients => due[by] = mhclient[by].due)
Due(due) == [c \in MhClients |-> [mhclient[c] EXCEPT !.due = due[c]]]

-----------------------------------------------------------------------------
(* Reading the folder: a message is read unless its number is in the        *)
(* sequence.                                                                *)
mh_read_sequences == IF initialised /\ sequences.there THEN sequences.unseen ELSE {}
maildir_parse_message(n) ==
    [id |-> mhfiles[n], read |-> n \notin mh_read_sequences, deleted |-> FALSE,
     changed |-> FALSE]
Crossing == delivery.pc # "idle" \/ ~sequences.there
mh_read_dir == [n \in Numbers |-> IF n \in Files THEN maildir_parse_message(n) ELSE NoHeader]
OpenFolder(c) ==
    /\ mhclient[c].pc = "shut"
    /\ mhclient' = [mhclient EXCEPT ![c].pc = "open", ![c].due = FALSE,
                                    ![c].hdrs = mh_read_dir]
    /\ mhhistory' = Happened(IF Crossing THEN {"crossed"} ELSE {})
    /\ UNCHANGED <<initialised, mhfiles, commas, sequences, delivery, mhedits>>

(* The program sets or resets a flag of a message.                          *)
SetsFlag(c, n) ==
    /\ mhclient[c].pc = "open" /\ mhclient[c].hdrs[n].id # 0 /\ mhedits < MaxMhEdits
    /\ mhedits' = mhedits + 1
    /\ \/ /\ mhclient' = [mhclient EXCEPT ![c].hdrs[n] =
                               [@ EXCEPT !.read = TRUE, !.changed = TRUE]]
          /\ mhhistory' = [mhhistory EXCEPT !.readonce = @ \cup {mhclient[c].hdrs[n].id}]
       \/ /\ mhclient' = [mhclient EXCEPT ![c].hdrs[n].deleted = TRUE]
          /\ UNCHANGED mhhistory
    /\ UNCHANGED <<initialised, mhfiles, commas, sequences, delivery>>

(* mh_check_mailbox: a changed folder is read again.  A message is known by *)
(* its number, with a header that is the same; a change not yet written     *)
(* stays.                                                                   *)
Found(c, n) == mhfiles[n] # 0 /\ mhclient[c].hdrs[n].id = mhfiles[n]
Merged(c) ==
    [n \in Numbers |->
        IF n \notin Files THEN NoHeader
        ELSE IF ~Found(c, n) THEN maildir_parse_message(n)
        ELSE IF mhclient[c].hdrs[n].changed THEN mhclient[c].hdrs[n]
        ELSE [maildir_parse_message(n) EXCEPT !.deleted = mhclient[c].hdrs[n].deleted]]
(* Where .mh_sequences is missing, an empty one is made before the times    *)
(* are compared.                                                            *)
SequencesMissing == initialised /\ ~sequences.there
MakesSequences(c) ==
    /\ mhclient[c].pc = "open" /\ SequencesMissing
    /\ sequences' = [there |-> TRUE, unseen |-> {}]
    /\ mhhistory' = Happened({"crossed"})
    /\ \E due \in [MhClients -> BOOLEAN] : Noticed("check", due) /\ mhclient' = Due(due)
    /\ UNCHANGED <<initialised, mhfiles, commas, delivery, mhedits>>
Changed(c) == initialised /\ mhclient[c].due
mh_check_mailbox(c) ==
    /\ mhclient[c].pc = "open" /\ Changed(c) /\ ~SequencesMissing
    /\ mhclient' = [mhclient EXCEPT ![c].due = FALSE, ![c].hdrs = Merged(c)]
    /\ mhhistory' = Happened(IF Crossing THEN {"crossed"} ELSE {})
    /\ UNCHANGED <<initialised, mhfiles, commas, sequences, delivery, mhedits>>

(* mh_sync_mailbox, when nothing has changed: the files of deleted messages *)
(* are renamed.  A deleted file of the same number is removed before.  Then *)
(* the unseen messages of the context, as ranges, take the place of the     *)
(* sequence; a sequence without a name is copied.                           *)
Marked(c) == {n \in Numbers : mhclient[c].hdrs[n].deleted}
Renames(c) == Marked(c) \cap Files
Unseen(c) == {n \in Numbers : LET h == mhclient[c].hdrs[n] IN
                              h.id # 0 /\ ~h.deleted /\ ~h.read}
LastRunLost(s) == {n \in s : \E m \in n..MaxNumber : m \notin s}
mhs_write_one_sequence(s) == s
NewSequences(c) ==
    IF initialised THEN mhs_write_one_sequence(Unseen(c)) ELSE sequences.unseen
mh_sync_mailbox(c) ==
    /\ mhclient[c].pc = "open" /\ ~Changed(c) /\ ~SequencesMissing
    /\ \E n \in Numbers : mhclient[c].hdrs[n].deleted \/ mhclient[c].hdrs[n].changed
    /\ mhfiles' = [n \in Numbers |-> IF n \in Marked(c) THEN 0 ELSE mhfiles[n]]
    /\ commas' = (commas \ Marked(c)) \cup Renames(c)
    /\ mhhistory' = Happened(
          (IF Marked(c) \subseteq Files THEN {} ELSE {"comma lost"})
          \cup {"wrong delete" : n \in {x \in Renames(c) : ~Found(c, x)}})
    /\ \E due \in [MhClients -> BOOLEAN] :
          /\ IF Renames(c) = {} THEN \A d \in MhClients : due[d] = mhclient[d].due
                                ELSE Noticed(c, due)
          /\ mhclient' = [Due(due) EXCEPT ![c].pc = "writes", ![c].new = NewSequences(c)]
    /\ UNCHANGED <<initialised, sequences, delivery, mhedits>>

(* mh_update_sequences: the old file is removed, then the new one is linked *)
(* in; if there is one again the new one is given up.                       *)
mh_update_sequences(c) ==
    /\ mhclient[c].pc = "writes"
    /\ mhclient' = [mhclient EXCEPT ![c].pc = "unlinked"]
    /\ mhhistory' = Happened(
          {"unknown" : n \in {x \in Files : initialised /\ ~Found(c, x)}}
          \cup {"crossed" : x \in {y \in {sequences} :
                 ~y.there \/ (~initialised /\ y.unseen # mhclient[c].new)}})
    /\ sequences' = [there |-> FALSE, unseen |-> {}]
    /\ UNCHANGED <<initialised, mhfiles, commas, delivery, mhedits>>
safe_rename(new) ==
    IF sequences.there THEN sequences ELSE [there |-> TRUE, unseen |-> new]
Kept(c) ==
    [n \in Numbers |-> IF mhclient[c].hdrs[n].deleted THEN NoHeader
                       ELSE [mhclient[c].hdrs[n] EXCEPT !.changed = FALSE]]
SequencesWritten(c) ==
    /\ mhclient[c].pc = "unlinked"
    /\ sequences' = safe_rename(mhclient[c].new)
    /\ mhhistory' = Happened(IF sequences.there THEN {"crossed"} ELSE {})
    /\ \E due \in [MhClients -> BOOLEAN] :
          /\ Noticed(c, due)
          /\ mhclient' = [Due(due) EXCEPT ![c].pc = "open", ![c].new = {},
                                          ![c].due = FALSE, ![c].hdrs = Kept(c)]
    /\ UNCHANGED <<initialised, mhfiles, commas, delivery, mhedits>>

CloseFolder(c) ==
    /\ mhclient[c].pc = "open"
    /\ \A n \in Numbers : ~mhclient[c].hdrs[n].deleted /\ ~mhclient[c].hdrs[n].changed
    /\ mhclient' = [mhclient EXCEPT ![c] = Shut]
    /\ UNCHANGED <<initialised, mhfiles, commas, sequences, delivery, mhedits, mhhistory>>
(* A process ends in the middle.                                            *)
Crashes(c) ==
    /\ mhclient[c].pc \in {"writes", "unlinked"}
    /\ mhclient' = [mhclient EXCEPT ![c] = Shut]
    /\ mhhistory' = Happened({"crash"})
    /\ UNCHANGED <<initialised, mhfiles, commas, sequences, delivery, mhedits>>

-----------------------------------------------------------------------------
(* _mh_commit_message: the number behind the highest, that of a deleted     *)
(* file included; a number that is taken meanwhile is passed over.          *)
HighestFile == Files
Highest == Files \cup commas
FreeNumber(n) ==
    /\ n \in Numbers \ Files
    /\ \A m \in Highest : m < n
    /\ \A m \in 1..(n - 1) : m \in Files \/ \E h \in Highest : m <= h
_mh_commit_message(n) ==
    /\ delivery.pc = "idle" /\ mhhistory.ids < MaxNumber /\ FreeNumber(n)
    /\ mhfiles' = [mhfiles EXCEPT ![n] = mhhistory.ids + 1]
    /\ mhhistory' = [mhhistory EXCEPT !.ids = @ + 1]
    /\ delivery' = [Resting EXCEPT !.pc = "numbered", !.n = n]
    /\ \E due \in [MhClients -> BOOLEAN] : Noticed("delivery", due) /\ mhclient' = Due(due)
    /\ UNCHANGED <<initialised, commas, sequences, mhedits>>

(* mh_sequences_add_one: the file is copied with the number added.          *)
ReadSequences ==
    /\ delivery.pc = "numbered"
    /\ delivery' = [delivery EXCEPT !.pc = "read", !.old =
                       IF sequences.there THEN sequences.unseen ELSE {}]
    /\ mhhistory' = Happened(IF sequences.there THEN {} ELSE {"crossed"})
    /\ UNCHANGED <<initialised, mhfiles, commas, sequences, mhclient, mhedits>>
UnlinkSequences ==
    /\ delivery.pc = "read"
    /\ delivery' = [delivery EXCEPT !.pc = "unlinked"]
    /\ mhhistory' = Happened(IF sequences = [there |-> TRUE, unseen |-> delivery.old]
                             THEN {} ELSE {"crossed"})
    /\ sequences' = [there |-> FALSE, unseen |-> {}]
    /\ UNCHANGED <<initialised, mhfiles, commas, mhclient, mhedits>>
AddedAlone(old, n) == {n}
Added(old, n) == old \cup {n}
mh_sequences_add_one ==
    /\ delivery.pc = "unlinked"
    /\ sequences' = safe_rename(Added(delivery.old, delivery.n))
    /\ mhhistory' = Happened(IF sequences.there THEN {"crossed"} ELSE {})
    /\ delivery' = Resting
    /\ \E due \in [MhClients -> BOOLEAN] : Noticed("delivery", due) /\ mhclient' = Due(due)
    /\ UNCHANGED <<initialised, mhfiles, commas, mhedits>>

Next ==
    \/ \E c \in MhClients :
          \/ OpenFolder(c) \/ MakesSequences(c) \/ mh_check_mailbox(c)
          \/ mh_sync_mailbox(c)
          \/ mh_update_sequences(c) \/ SequencesWritten(c) \/ CloseFolder(c) \/ Crashes(c)
          \/ \E n \in Numbers : SetsFlag(c, n)
    \/ \E n \in Numbers : _mh_commit_message(n)
    \/ ReadSequences \/ UnlinkSequences \/ mh_sequences_add_one

Spec == Init /\ [][Next]_mhvars

-----------------------------------------------------------------------------
(* mh.c: a message nobody read stays unseen, once it was delivered, unless  *)
(* writers of .mh_sequences crossed, a client wrote it that did not know    *)
(* all messages, or a client died writing it.                               *)
Quiet == mhhistory.events \cap {"crossed", "unknown", "crash"} = {}
Settled == delivery.pc = "idle" /\ \A c \in MhClients : mhclient[c].pc \in {"shut", "open"}
UnseenStaysUnseen ==
    Quiet /\ Settled =>
       \A n \in Files : mhfiles[n] \notin mhhistory.readonce => n \in sequences.unseen

(* mh.c: only a message that was marked is deleted, not one that got its    *)
(* number later, unless the file that kept the number was removed.          *)
DeletesWhatWasMarked ==
    "wrong delete" \in mhhistory.events => "comma lost" \in mhhistory.events
=============================================================================
