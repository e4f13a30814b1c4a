------------------------------ MODULE Maildir ------------------------------
(***************************************************************************)
(* A maildir folder and the Mailstore.Mailbox objects of several processes *)
(* that have it open (src/mailstore_main.c, src/mh.c, src/mx.c), with mail *)
(* being delivered into it.                                                *)
(*                                                                         *)
(* There is no lock on a maildir: a message is one file whose name holds   *)
(* its flags, and each system call that reads or changes the directory is  *)
(* one step here.  A mailbox reads new/, then cur/, keeps every file name  *)
(* it has seen, and when it is closed renames or unlinks the files of the  *)
(* messages that were changed.  Nothing sets OPTCHECKNEW, so               *)
(* mh_check_mailbox returns 0 at once: what other processes do to the      *)
(* folder after the scan is never seen.  Nothing sets OPTMAILDIRTRASH or   *)
(* OPTMARKOLD either, and no message has attachments to delete.            *)
(***************************************************************************)
EXTENDS MailFlags, Sequences

CONSTANTS
    Clients,       \* Mailbox objects, each in a process of its own
    Messages,      \* messages, named by the unique part of the file name
    Stocked,       \* the files that are there in the beginning
    HeaderDeleted, \* messages with an X-Status line that says deleted
    UsedFlags,     \* the flags the programs change
    MaxEdits,      \* bound: flag changes per mailbox
    MaxOpened      \* bound: messages opened per mailbox

Names == [ msg : Messages, dir : { "new", "cur" },
           flags : SUBSET { "F", "R", "S", "T" } ]

(* What an instance must give the constants; MCMailboxes assumes it.        *)
ConstantsOK ==
    /\ Magic = "maildir"
    /\ Stocked \subseteq Names
    /\ \A f, g \in Stocked : f.msg = g.msg => f = g
    /\ HeaderDeleted \subseteq Messages
    /\ UsedFlags \subseteq Flags /\ MaxEdits \in Nat /\ MaxOpened \in Nat

VARIABLES
    files,      \* the files of the folder
    delivered,  \* messages there have ever been
    pc,         \* what each mailbox is doing
    ctx,        \* its CONTEXT; headers are numbered in the order read
    path,       \* the file name kept in each header
    listing,    \* names a directory scan still has to parse
    at,         \* the message a sync has come to
    seek,       \* the search for a message that was moved
    edits, openings,    \* flag changes and messages opened so far
    present, moved,     \* history: messages there when the scan began, and
                        \* messages others renamed or removed since
    missed              \* history: a message was there all the time but
                        \* could not be opened

mailbox == << ctx, path, edits, openings >>
vars == << files, delivered, pc, mailbox, listing, at, seek, present, moved,
           missed >>

NoSeek == [ msg |-> "none", dirs |-> {}, found |-> {}, stirred |-> FALSE ]

TypeOK ==
    /\ files \subseteq Names /\ delivered \subseteq Messages
    /\ \A c \in Clients :
          /\ pc[c] \in { "none", "new", "cur", "open", "find", "sync",
                         "closed", "leaked", "dead" }
          /\ ctx[c] \in ContextOver(DOMAIN path[c])
          /\ path[c] \in [DOMAIN path[c] -> Names]
          /\ listing[c] \subseteq Names
          /\ at[c] \in 0 .. Len(path[c]) + 1
          /\ seek[c].found \subseteq Names
          /\ present[c] \subseteq Messages /\ moved[c] \subseteq Messages
    /\ missed \in BOOLEAN

Init ==
    /\ files = Stocked /\ delivered = { f.msg : f \in Stocked }
    /\ pc = [c \in Clients |-> "none"]
    /\ ctx = [c \in Clients |-> EmptyContext]
    /\ path = [c \in Clients |-> << >>]
    /\ listing = [c \in Clients |-> {}]
    /\ at = [c \in Clients |-> 0]
    /\ seek = [c \in Clients |-> NoSeek]
    /\ edits = [c \in Clients |-> 0] /\ openings = [c \in Clients |-> 0]
    /\ present = [c \in Clients |-> {}] /\ moved = [c \in Clients |-> {}]
    /\ missed = FALSE

Goto(c, place) == pc' = [pc EXCEPT ![c] = place]

(* The delivery agent links a message into new/. *)
Deliver(m) ==
    /\ m \notin delivered
    /\ files' = files \cup { [msg |-> m, dir |-> "new", flags |-> {}] }
    /\ delivered' = delivered \cup {m}
    /\ UNCHANGED << pc, mailbox, listing, at, seek, present, moved, missed >>

----------------------------------------------------------------------------
(* Opening: mx_open_mailbox, maildir_read_dir. *)

In(dir) == { f \in files : f.dir = dir }

Open(c) ==
    /\ pc[c] = "none" /\ Goto(c, "new")
    /\ listing' = [listing EXCEPT ![c] = In("new")]
    /\ present' = [present EXCEPT ![c] = { f.msg : f \in files }]
    /\ UNCHANGED << files, delivered, mailbox, at, seek, moved, missed >>

(* maildir_parse_message and maildir_parse_flags; old stays clear without  *)
(* OPTMARKOLD.  The header of the message is parsed first, and of the bits *)
(* its Status lines set all but deleted are cleared again.                 *)
ParsedHeader(f) ==
    [BlankHeader EXCEPT
        !.read = "S" \in f.flags, !.replied = "R" \in f.flags,
        !.flagged = "F" \in f.flags, !.trash = "T" \in f.flags,
        !.deleted = "T" \in f.flags \/ f.msg \in HeaderDeleted]

(* A name of the listing is parsed into a header of the context, unless    *)
(* the file has gone in the meantime: fopen fails and the entry is passed  *)
(* over.  The context is private until create() returns, so that headers   *)
(* are added here one by one.                                              *)
ParseEntry(c) ==
    pc[c] \in { "new", "cur" } /\ \E f \in listing[c] :
        /\ listing' = [listing EXCEPT ![c] = @ \ {f}]
        /\ IF f \in files
           THEN /\ ctx' = [ctx EXCEPT ![c] = AddHeader(@, Len(path[c]) + 1, ParsedHeader(f))]
                /\ path' = [path EXCEPT ![c] = Append(@, f)]
           ELSE UNCHANGED << ctx, path >>
        /\ UNCHANGED << files, delivered, pc, at, seek, edits, openings,
                        present, moved, missed >>

(* Mutation: files that say trashed are passed over. *)
ScanCurSkipsTrash(c) ==
    /\ pc[c] = "new" /\ listing[c] = {}
    /\ Goto(c, "cur")
    /\ listing' = [listing EXCEPT
                     ![c] = { f \in In("cur") : "T" \notin f.flags }]
    /\ UNCHANGED << files, delivered, mailbox, at, seek, present, moved,
                    missed >>

ScanCur(c) ==
    /\ pc[c] = "new" /\ listing[c] = {}
    /\ Goto(c, "cur")
    /\ listing' = [listing EXCEPT ![c] = In("cur")]
    /\ UNCHANGED << files, delivered, mailbox, at, seek, present, moved,
                    missed >>

Opened(c) ==
    /\ pc[c] = "cur" /\ listing[c] = {}
    /\ Goto(c, "open")
    /\ UNCHANGED << files, delivered, mailbox, listing, at, seek, present,
                    moved, missed >>

----------------------------------------------------------------------------
(* Flags: f_set_flag, f_reset_flag. *)

Edit(c, k, flagged) ==
    /\ pc[c] = "open" /\ edits[c] < MaxEdits
    /\ ctx' = [ctx EXCEPT ![c] = flagged]
    /\ edits' = [edits EXCEPT ![c] = @ + 1]
    /\ UNCHANGED << files, delivered, pc, path, openings, listing, at, seek,
                    present, moved, missed >>

SetMessageFlag(c) ==
    \E k \in DOMAIN path[c], flag \in UsedFlags :
        Edit(c, k, SetFlag(ctx[c], k, flag))

ResetMessageFlag(c) ==
    \E k \in DOMAIN path[c], flag \in UsedFlags :
        Edit(c, k, ResetFlag(ctx[c], k, flag))

----------------------------------------------------------------------------
(* Reading a message: mx_open_message, maildir_open_find_message. *)

(* The file is opened under the name kept, or else looked for. *)
OpenMessage(c) ==
    /\ pc[c] = "open" /\ openings[c] < MaxOpened
    /\ openings' = [openings EXCEPT ![c] = @ + 1]
    /\ \E k \in DOMAIN path[c] :
          IF path[c][k] \in files
          THEN UNCHANGED << pc, seek >>
          ELSE /\ Goto(c, "find")
               /\ seek' = [seek EXCEPT ![c] =
                             [NoSeek EXCEPT !.msg = path[c][k].msg,
                                            !.dirs = { "new", "cur" }]]
    /\ UNCHANGED << files, delivered, ctx, path, edits, listing, at, present,
                    moved, missed >>

(* readdir for a name with the same unique part.  Which of the two         *)
(* directories comes first depends on where earlier searches had luck.     *)
FindIn(c) ==
    /\ pc[c] = "find" /\ seek[c].found = {}
    /\ \E d \in seek[c].dirs :
          seek' = [seek EXCEPT
                     ![c].dirs = @ \ {d},
                     ![c].found = { f \in In(d) : f.msg = seek[c].msg }]
    /\ UNCHANGED << files, delivered, pc, mailbox, listing, at, present, moved,
                    missed >>

(* fopen of what readdir found; when that has gone too the other directory *)
(* is tried.                                                               *)
OpenFound(c) ==
    /\ pc[c] = "find"
    /\ \E f \in seek[c].found :
          IF f \in files
          THEN Goto(c, "open") /\ seek' = [seek EXCEPT ![c] = NoSeek]
          ELSE seek' = [seek EXCEPT ![c].found = {}] /\ UNCHANGED pc
    /\ UNCHANGED << files, delivered, mailbox, listing, at, present, moved,
                    missed >>

(* mx_open_message returns NULL and f_msg_create raises an error. *)
GiveUp(c) ==
    /\ pc[c] = "find" /\ seek[c].found = {}
    /\ seek[c].dirs = {}
    /\ Goto(c, "open") /\ seek' = [seek EXCEPT ![c] = NoSeek]
    /\ missed' = (missed \/ (~seek[c].stirred /\
                             \E f \in files : f.msg = seek[c].msg))
    /\ UNCHANGED << files, delivered, mailbox, listing, at, present, moved >>

----------------------------------------------------------------------------
(* Closing: exit_mailstore, mx_close_mailbox, mh_sync_mailbox. *)

(* An unchanged mailbox is freed without a sync. *)
Close(c) ==
    /\ pc[c] = "open"
    /\ IF ctx[c].changed = 0 /\ ctx[c].deleted = 0
       THEN Goto(c, "closed") /\ UNCHANGED at
       ELSE Goto(c, "sync") /\ at' = [at EXCEPT ![c] = 1]
    /\ UNCHANGED << files, delivered, mailbox, listing, seek, present, moved,
                    missed >>

(* Message m has been renamed or removed by client c: a note for the       *)
(* history of the others.                                                  *)
Stir(c, m) ==
    /\ moved' = [d \in Clients |-> IF d = c \/ pc[d] = "none" THEN moved[d]
                                   ELSE moved[d] \cup {m}]
    /\ seek' = [d \in Clients |-> IF d # c /\ seek[d].msg = m
                                  THEN [seek[d] EXCEPT !.stirred = TRUE]
                                  ELSE seek[d]]

(* maildir_flags and the directory chosen by maildir_sync_message. *)
FlagsOf(h) ==
    { flag \in { "F", "R", "S", "T" } :
        \/ flag = "F" /\ h.flagged
        \/ flag = "R" /\ h.replied
        \/ flag = "S" /\ h.read
        \/ flag = "T" /\ h.deleted }

NameOf(m, h) == [ msg |-> m, dir |-> IF h.read \/ h.old THEN "cur" ELSE "new",
                  flags |-> FlagsOf(h) ]

NeedsRename(h) == h.changed \/ (h.trash /\ ~h.deleted)

Syncing(c) ==
    /\ pc[c] = "sync" /\ at[c] \in DOMAIN path[c]
    /\ UNCHANGED << delivered, listing, edits, openings, present, missed >>

(* Mutation: the message after a purged one is passed over. *)
PurgeMessageTwice(c) ==
    /\ Syncing(c)
    /\ ctx[c].hdrs[at[c]].deleted
    /\ LET f == path[c][at[c]]
       IN  IF f \in files THEN files' = files \ {f} /\ Stir(c, f.msg)
           ELSE UNCHANGED << files, moved, seek >>
    /\ at' = [at EXCEPT ![c] = @ + 2]
    /\ UNCHANGED << pc, ctx, path >>

(* unlink; that the file has another name by now goes unnoticed. *)
PurgeMessage(c) ==
    /\ Syncing(c)
    /\ ctx[c].hdrs[at[c]].deleted
    /\ LET f == path[c][at[c]]
       IN  IF f \in files THEN files' = files \ {f} /\ Stir(c, f.msg)
           ELSE UNCHANGED << files, moved, seek >>
    /\ at' = [at EXCEPT ![c] = @ + 1]
    /\ UNCHANGED << pc, ctx, path >>

(* Mutation: only changed messages are looked at. *)
KeepMessageTrashed(c) ==
    /\ Syncing(c)
    /\ LET h == ctx[c].hdrs[at[c]]
       IN  ~h.deleted /\ (~h.changed \/
                          path[c][at[c]] = NameOf(path[c][at[c]].msg, h))
    /\ at' = [at EXCEPT ![c] = @ + 1]
    /\ UNCHANGED << files, pc, ctx, path, moved, seek >>

(* Nothing to write for a message, or nothing that changes its name. *)
KeepMessage(c) ==
    /\ Syncing(c)
    /\ LET h == ctx[c].hdrs[at[c]]
       IN  ~h.deleted /\ (~NeedsRename(h) \/
                          path[c][at[c]] = NameOf(path[c][at[c]].msg, h))
    /\ at' = [at EXCEPT ![c] = @ + 1]
    /\ UNCHANGED << files, pc, ctx, path, moved, seek >>

(* rename from the name kept to the new one.  When the file is not there   *)
(* under that name the sync ends with -1; exit_mailstore does not look at  *)
(* it, so the mailbox is gone and its context never freed.                 *)
RenameMessage(c) ==
    /\ Syncing(c)
    /\ LET k == at[c]
           h == ctx[c].hdrs[k]
           f == path[c][k]
           g == NameOf(f.msg, h)
       IN  /\ ~h.deleted /\ NeedsRename(h) /\ f # g
           /\ ctx' = [ctx EXCEPT ![c].hdrs[k].trash = FALSE]
           /\ IF f \in files
              THEN /\ files' = (files \ {f}) \cup {g} /\ Stir(c, f.msg)
                   /\ path' = [path EXCEPT ![c][k] = g]
                   /\ at' = [at EXCEPT ![c] = @ + 1]
                   /\ UNCHANGED pc
              ELSE /\ Goto(c, "leaked")
                   /\ UNCHANGED << files, path, at, moved, seek >>

Closed(c) ==
    /\ pc[c] = "sync" /\ at[c] \notin DOMAIN path[c]
    /\ Goto(c, "closed")
    /\ UNCHANGED << files, delivered, mailbox, listing, at, seek, present,
                    moved, missed >>

(* The process dies, or opendir fails and create() raises an error. *)
Die(c) ==
    /\ pc[c] \in { "new", "cur", "open", "find", "sync" }
    /\ Goto(c, "dead")
    /\ UNCHANGED << files, delivered, mailbox, listing, at, seek, present,
                    moved, missed >>

----------------------------------------------------------------------------
Step(c) ==
    \/ Open(c) \/ ParseEntry(c) \/ ScanCur(c) \/ Opened(c)
    \/ SetMessageFlag(c) \/ ResetMessageFlag(c)
    \/ OpenMessage(c) \/ FindIn(c) \/ OpenFound(c) \/ GiveUp(c)
    \/ Close(c) \/ PurgeMessage(c) \/ KeepMessage(c) \/ RenameMessage(c)
    \/ Closed(c) \/ Die(c)

Next == (\E m \in Messages : Deliver(m)) \/ (\E c \in Clients : Step(c))

Spec == Init /\ [][Next]_vars

----------------------------------------------------------------------------
(* A mailbox that is open lists a message exactly once if it was in the    *)
(* folder when the scan began and no other process has moved it since,     *)
(* although new/ and cur/ are not read at the same time.                   *)
ListedOnce ==
    \A c \in Clients : \A m \in present[c] \ moved[c] :
        pc[c] = "open" =>
            \E k \in DOMAIN path[c] :
                \A j \in DOMAIN path[c] : path[c][j].msg = m <=> j = k

(* What a mailbox object that is gone wanted of message m: no file if it   *)
(* is deleted, else a file with the flags of its header.                   *)
Saved(c, k, folder) ==
    LET h == ctx[c].hdrs[k]
        m == path[c][k].msg
    IN  IF h.deleted THEN \A f \in folder : f.msg # m
        ELSE \E f \in folder : f.msg = m /\ f.flags = FlagsOf(h)

(* A close that succeeds, with or without a sync, has left every message   *)
(* no other process moved as the program wanted it: the changed and        *)
(* deleted marks never hide a change (mx_close_mailbox, mh_sync_mailbox).  *)
CleanCloseSaves ==
    [][ \A c \in Clients :
          pc[c] # "closed" /\ pc'[c] = "closed" =>
              \A k \in DOMAIN path[c] :
                  path[c][k].msg \notin moved[c] => Saved(c, k, files') ]_vars

(* A message that is in the folder and is left alone while it is looked    *)
(* for is found, wherever it was moved before (maildir_open_find_message). *)
MovedMessageFound == ~missed

(* mx.c:798: mx_close_mailbox is to "save changes and close mailbox", so   *)
(* once an object is gone the folder is as it wanted, as far as the        *)
(* messages nobody else touched are concerned.                             *)
CloseSavesChanges ==
    \A c \in Clients :
        pc[c] \in { "closed", "leaked" } =>
            \A k \in DOMAIN path[c] :
                path[c][k].msg \in { f.msg : f \in files } \ moved[c] =>
                    Saved(c, k, files)

(* mh.c:576: "maildir stores its flags in the filename, so ignore the      *)
(* flags in the header of the message": what a scan has read is deleted    *)
(* only if its file name says so.                                          *)
FlagsFromName ==
    \A c \in Clients : pc[c] \in { "new", "cur" } =>
        \A k \in DOMAIN path[c] :
            ctx[c].hdrs[k].deleted = ("T" \in path[c][k].flags)
=============================================================================
