-------------------------------- MODULE Mbox --------------------------------
(***************************************************************************)
(* An mbox folder and the Mailstore.Mailbox objects of several processes   *)
(* that have it open (src/mailstore_main.c, src/mbox.c, src/mx.c), with    *)
(* mail being delivered into it and other mail programs rewriting it.      *)
(*                                                                         *)
(* All messages are in one file.  The file is a sequence of units: the     *)
(* text of a message, which starts with its "From " line, and the Status   *)
(* line that says a message was read; a unit is as long as any other, so   *)
(* that positions and sizes are counted in units.  The processes lock with *)
(* flock(), which a crash gives back.  A script only reaches               *)
(* mbox_sync_mailbox by closing a mailbox: changed messages and all behind *)
(* them are written to a temporary file, and copied over the old ones unit *)
(* by unit.                                                                *)
(***************************************************************************)
EXTENDS Integers, FiniteSets, SequencesExt

CONSTANTS
    Clients,      \* Mailbox objects, each in a process of its own
    MaxMail,      \* bound: messages there ever are
    MaxMboxEdits, \* bound: flags set per mailbox
    Null

NullIsNone == Null \notin Clients \cup [msg : Nat, part : {"text", "status"}]

VARIABLES
    mbox,         \* the file: its units, or <<Null>> when there is none
    arrived,      \* how many messages there have been
    flocked,      \* the process with the exclusive lock
    reader,       \* what each mailbox is doing, and its CONTEXT
    asked,        \* messages a script or another program wanted to delete
    savedmail,    \* messages in files a crash or a failed write left behind
    crashed,      \* whether a process died
    fooled        \* ways mbox_check_mailbox took another file for its own

mboxvars == <<mbox, arrived, flocked, reader, asked, savedmail, crashed, fooled>>

Text(m) == [msg |-> m, part |-> "text"]
StatusLine(m) == [msg |-> m, part |-> "status"]
NoFile == <<Null>>
Exists == mbox # NoFile
Mail(units) == {units[i].msg : i \in DOMAIN units}
Texts(units) == {units[i].msg : i \in {k \in DOMAIN units : units[k].part = "text"}}
InMailbox == IF Exists THEN Texts(mbox) ELSE {}

NotOpen == [pc |-> "none", hdrs |-> <<>>, read |-> <<>>, readonly |-> FALSE,
            temp |-> <<>>, first |-> 0, written |-> 0, edits |-> 0]

Init ==
    /\ mbox = <<Text(1), Text(2)>> /\ arrived = 2
    /\ flocked = Null
    /\ reader = [c \in Clients |-> NotOpen]
    /\ asked = {} /\ savedmail = {} /\ crashed = FALSE /\ fooled = {}

TypeOK ==
    /\ Exists => mbox \in Seq([msg : 1 .. MaxMail, part : {"text", "status"}])
    /\ arrived \in 0 .. MaxMail /\ flocked \in Clients \cup {Null}
    /\ \A c \in Clients :
         /\ reader[c].pc \in {"none", "open", "copies", "empties", "broken", "over"}
         /\ reader[c].readonly \in BOOLEAN
         /\ \A h \in Range(reader[c].hdrs) :
              h \in [msg : 1 .. MaxMail, offset : Nat, length : Nat, read : BOOLEAN,
                     deleted : BOOLEAN, changed : BOOLEAN]
    /\ asked \cup savedmail \subseteq 1 .. MaxMail

-----------------------------------------------------------------------------
(* The headers found in the units behind position `from'.  A message ends   *)
(* where the next text starts; a Status line counts when it follows its own *)
(* text, and is more body anywhere else.                                    *)
HeaderAt(units, i) ==
    LET next == {k \in i + 1 .. Len(units) + 1 :
                   k \in DOMAIN units => units[k].part = "text"}
    IN [msg |-> units[i].msg, offset |-> i, length |-> Min(next) - i,
        read |-> i < Len(units) /\ units[i + 1] = StatusLine(units[i].msg),
        deleted |-> FALSE, changed |-> FALSE]
mbox_parse_mailbox(units, from) ==
    LET hdrs[loc \in from .. Len(units)] ==
          IF loc = from THEN <<>>
          ELSE hdrs[loc - 1] \o
                 (IF units[loc].part = "text" THEN <<HeaderAt(units, loc)>> ELSE <<>>)
    IN hdrs[Len(units)]

(* mutt_reopen_mailbox: every new header looks for its old one, from its    *)
(* own place on and then before it; an old header is used once.             *)
BehindOnly(h, i, old, left) == {j \in left : j >= i /\ old[j].msg = h.msg}
Candidates(h, i, old, left) == {j \in left : old[j].msg = h.msg}
FindHeader(h, i, old, left) ==
    LET same == Candidates(h, i, old, left)
        behind == {j \in same : j >= i}
    IN IF behind # {} THEN Min(behind) ELSE IF same # {} THEN Min(same) ELSE 0
mbox_strict_match(new, old) ==
    LET match[i \in 0 .. Len(new)] ==
          IF i = 0 THEN <<>>
          ELSE LET used == match[i - 1] IN
               Append(used, FindHeader(new[i], i, old, DOMAIN old \ Range(used)))
    IN match[Len(new)]
mutt_reopen_mailbox(r) ==
    LET new == mbox_parse_mailbox(mbox, 0)
        found == mbox_strict_match(new, r.hdrs)
        Carried(h, o) ==
            [h EXCEPT !.read = IF o.changed THEN o.read ELSE @,
                      !.changed = o.changed /\ o.read # h.read, !.deleted = o.deleted]
    IN [r EXCEPT !.read = mbox,
                 !.hdrs = IF r.readonly THEN new
                          ELSE [i \in DOMAIN new |->
                                  IF found[i] = 0 THEN new[i]
                                  ELSE Carried(new[i], r.hdrs[found[i]])]]

-----------------------------------------------------------------------------
Free(c) == flocked \in {Null, c}
Steady == fooled = {}

(* mx_open_mailbox.  A reader that does not get the lock reads on without,  *)
(* and may not write.  An empty file is an mbox too.                        *)
f_create(c) ==
    /\ Steady /\ reader[c].pc = "none" /\ Exists
    /\ mbox # <<>> => mbox[1].part = "text"
    /\ reader' = [reader EXCEPT ![c] = [NotOpen EXCEPT
            !.pc = "open", !.hdrs = mbox_parse_mailbox(mbox, 0), !.read = mbox,
            !.readonly = ~Free(c)]]
    /\ UNCHANGED <<mbox, arrived, flocked, asked, savedmail, crashed, fooled>>

(* mutt_set_flag; a read-only mailbox keeps its flags.                      *)
f_set_flag(c) ==
    /\ Steady /\ reader[c].pc = "open" /\ reader[c].edits < MaxMboxEdits
    /\ ~reader[c].readonly
    /\ \E i \in DOMAIN reader[c].hdrs :
         LET h == reader[c].hdrs[i] IN
         \/ /\ ~h.deleted
            /\ reader' = [reader EXCEPT ![c].hdrs[i].deleted = TRUE, ![c].edits = @ + 1]
            /\ asked' = asked \cup {h.msg}
         \/ /\ reader' = [reader EXCEPT
                  ![c].hdrs[i] = [h EXCEPT !.read = ~@, !.changed = TRUE],
                  ![c].edits = @ + 1]
            /\ UNCHANGED asked
    /\ UNCHANGED <<mbox, arrived, flocked, savedmail, crashed, fooled>>

(* mbox_check_mailbox: what becomes of the CONTEXT, the answer, and whether *)
(* the file was not what it was taken for.  A file of the same length is    *)
(* the same file; a longer one with a "From " line where the old one ended  *)
(* has mail appended; any other is read anew.                               *)
SameLength(r) == Exists /\ Len(mbox) = Len(r.read)
Appended(r) == Exists /\ Len(mbox) > Len(r.read) /\ mbox[Len(r.read) + 1].part = "text"
mbox_check_mailbox(r) ==
    CASE ~Exists -> [ctx |-> [r EXCEPT !.pc = "broken"], rc |-> "corrupt", fool |-> {}]
      [] SameLength(r) ->
           [ctx |-> r, rc |-> "same",
            fool |-> IF mbox = r.read THEN {} ELSE {"same length"}]
      [] Appended(r) ->
           [ctx |-> [r EXCEPT !.read = mbox,
                              !.hdrs = @ \o mbox_parse_mailbox(mbox, Len(r.read))],
            rc |-> "new mail",
            fool |-> IF SubSeq(mbox, 1, Len(r.read)) = r.read THEN {} ELSE {"appended"}]
      [] OTHER -> [ctx |-> mutt_reopen_mailbox(r), rc |-> "reopened", fool |-> {}]

(* Without the lock nothing but the length is looked at.                    *)
f_check_mailbox(c) ==
    /\ Steady /\ reader[c].pc = "open"
    /\ Exists /\ Len(mbox) > Len(reader[c].read) => Free(c)
    /\ LET done == mbox_check_mailbox(reader[c]) IN
       /\ reader' = [reader EXCEPT ![c] = done.ctx]
       /\ fooled' = fooled \cup done.fool
    /\ UNCHANGED <<mbox, arrived, flocked, asked, savedmail, crashed>>

-----------------------------------------------------------------------------
(* mx_close_mailbox when there is nothing to write.                         *)
Changed(r) == \E h \in Range(r.hdrs) : h.changed \/ h.deleted
CloseQuietly(c) ==
    /\ Steady
    /\ \/ reader[c].pc = "broken"
       \/ reader[c].pc = "open" /\ ~Changed(reader[c])
    /\ reader' = [reader EXCEPT ![c] = [NotOpen EXCEPT !.pc = "over"]]
    /\ UNCHANGED <<mbox, arrived, flocked, asked, savedmail, crashed, fooled>>

(* mbox_sync_mailbox up to the temporary file.  Whatever it cannot do, what *)
(* the script set is dropped: nobody looks at the result of the close.      *)
Unsaved(c) == reader' = [reader EXCEPT ![c] = [NotOpen EXCEPT !.pc = "over"]]
mutt_copy_message(h) ==
    LET end == h.offset + h.length - 1
        lines == {k \in h.offset + 1 .. end :
                    \A j \in h.offset + 1 .. k : mbox[j] = StatusLine(h.msg)}
        body == SubSeq(mbox, h.offset + Cardinality(lines) + 1, end)
    IN <<Text(h.msg)>> \o (IF h.read THEN <<StatusLine(h.msg)>> ELSE <<>>) \o body
TempFile(r, first) ==
    LET temp[i \in first - 1 .. Len(r.hdrs)] ==
          IF i < first THEN <<>>
          ELSE temp[i - 1] \o
                 (IF r.hdrs[i].deleted THEN <<>> ELSE mutt_copy_message(r.hdrs[i]))
    IN temp[Len(r.hdrs)]
SyncUnchecked(r) == [ctx |-> r, rc |-> "same", fool |-> {}]
SyncChecks(r) == mbox_check_mailbox(r)
SyncStarts(c) ==
    /\ Steady /\ reader[c].pc = "open" /\ Changed(reader[c])
    /\ LET r == reader[c]
           check == SyncChecks(r)
           first == Min({i \in DOMAIN r.hdrs : r.hdrs[i].changed \/ r.hdrs[i].deleted})
       IN \/ Unsaved(c) /\ UNCHANGED <<flocked, fooled>>
          \/ /\ Exists /\ Free(c) /\ check.rc = "same"
             /\ fooled' = fooled \cup check.fool
             /\ flocked' = c
             /\ reader' = [reader EXCEPT ![c] = [@ EXCEPT
                    !.pc = "copies", !.first = r.hdrs[first].offset, !.written = 0,
                    !.temp = IF check.fool = {} THEN TempFile(r, first) ELSE <<>>]]
    /\ UNCHANGED <<mbox, arrived, asked, savedmail, crashed>>

(* mutt_copy_stream: one unit over the old one, or behind the last.         *)
CopyUnit(c) ==
    /\ Steady /\ reader[c].pc = "copies"
    /\ reader[c].written < Len(reader[c].temp)
    /\ LET at == reader[c].first + reader[c].written
           unit == reader[c].temp[reader[c].written + 1]
       IN mbox' = IF at <= Len(mbox) THEN [mbox EXCEPT ![at] = unit]
                  ELSE Append(mbox, unit)
    /\ reader' = [reader EXCEPT ![c].written = @ + 1]
    /\ UNCHANGED <<arrived, flocked, asked, savedmail, crashed, fooled>>

(* The disk may be full: what was written stays, and the temporary file is  *)
(* kept under another name.                                                 *)
WriteFails(c) ==
    /\ Steady /\ reader[c].pc = "copies"
    /\ savedmail' = savedmail \cup Mail(reader[c].temp)
    /\ flocked' = Null
    /\ Unsaved(c)
    /\ UNCHANGED <<mbox, arrived, asked, crashed, fooled>>

(* All is written: the file is cut, the lock and the temporary file go.     *)
Uncut(end) == mbox
Cut(end) == SubSeq(mbox, 1, end)
SyncEnds(c) ==
    /\ Steady /\ reader[c].pc = "copies" /\ reader[c].written = Len(reader[c].temp)
    /\ mbox' = Cut(reader[c].first + reader[c].written - 1)
    /\ flocked' = Null
    /\ reader' = [reader EXCEPT ![c] = [NotOpen EXCEPT
            !.pc = IF \A h \in Range(reader[c].hdrs) : h.deleted THEN "empties"
                   ELSE "over"]]
    /\ UNCHANGED <<arrived, asked, savedmail, crashed, fooled>>

(* When no message is left the file is removed, if it is still empty.       *)
AnySize == TRUE
StillEmpty == mbox = <<>>
mx_unlink_empty(c) ==
    /\ Steady /\ reader[c].pc = "empties"
    /\ Unsaved(c)
    /\ IF Exists /\ Free(c) /\ StillEmpty THEN mbox' = NoFile ELSE UNCHANGED mbox
    /\ UNCHANGED <<arrived, flocked, asked, savedmail, crashed, fooled>>

(* A process dies while it writes: the system gives its lock back.          *)
Crash(c) ==
    /\ Steady /\ ~crashed /\ reader[c].pc = "copies"
    /\ crashed' = TRUE
    /\ savedmail' = savedmail \cup Mail(reader[c].temp)
    /\ flocked' = Null
    /\ Unsaved(c)
    /\ UNCHANGED <<mbox, arrived, asked, fooled>>

-----------------------------------------------------------------------------
(* Mail is delivered under the lock, into a new file if there is none.      *)
Deliver ==
    /\ Steady /\ flocked = Null /\ arrived < MaxMail
    /\ mbox' = (IF Exists THEN mbox ELSE <<>>) \o <<Text(arrived + 1)>>
    /\ arrived' = arrived + 1
    /\ UNCHANGED <<flocked, reader, asked, savedmail, crashed, fooled>>

(* Another mail program, under the lock: it deletes the first message, or   *)
(* puts the last one in front.                                              *)
OtherProgram ==
    /\ Steady /\ flocked = Null /\ Exists
    /\ LET hdrs == mbox_parse_mailbox(mbox, 0)
           Units(h) == SubSeq(mbox, h.offset, h.offset + h.length - 1)
       IN /\ Len(hdrs) > 1
          /\ \/ /\ mbox' = SubSeq(mbox, hdrs[2].offset, Len(mbox))
                /\ asked' = asked \cup {hdrs[1].msg}
             \/ /\ mbox' = Units(hdrs[Len(hdrs)])
                           \o SubSeq(mbox, 1, hdrs[Len(hdrs)].offset - 1)
                /\ UNCHANGED asked
    /\ UNCHANGED <<arrived, flocked, reader, savedmail, crashed, fooled>>

Next ==
    \/ Deliver \/ OtherProgram
    \/ \E c \in Clients :
         \/ f_create(c) \/ f_set_flag(c) \/ f_check_mailbox(c)
         \/ CloseQuietly(c) \/ SyncStarts(c) \/ CopyUnit(c) \/ WriteFails(c)
         \/ SyncEnds(c) \/ mx_unlink_empty(c) \/ Crash(c)

Spec == Init /\ [][Next]_mboxvars

-----------------------------------------------------------------------------
(* Whatever happens between the processes, a message nobody wanted to       *)
(* delete is in the mailbox, in a temporary file being copied, or in a file *)
(* that a crash or a full disk left; unless a mailbox took another file for *)
(* the one it had read.                                                     *)
NoMailLost ==
    fooled = {} =>
      1 .. arrived \subseteq
        asked \cup InMailbox \cup savedmail
        \cup UNION {Mail(reader[c].temp) : c \in Clients}

(* A mailbox that is read anew keeps what the script set on every message   *)
(* that is still there, wherever it has moved.                              *)
Reread(c) ==
    /\ reader[c].pc = "open" /\ reader'[c].pc = "open" /\ fooled' = {}
    /\ ~reader[c].readonly /\ reader'[c].read # reader[c].read
Copies(m, units) == Cardinality({i \in DOMAIN units : units[i] = Text(m)})
EditsSurviveReopen ==
    [][\A c \in Clients : Reread(c) =>
         \A h \in Range(reader[c].hdrs), g \in Range(reader'[c].hdrs) :
            /\ h.msg = g.msg
            /\ Copies(h.msg, reader[c].read) = 1 /\ Copies(h.msg, mbox) = 1
            => /\ g.deleted = h.deleted
               /\ h.changed => g.read = h.read]_mboxvars

(* What a close that comes to its end leaves is the messages it knew, less  *)
(* the deleted ones, with the flags it had.                                 *)
Expected(r) ==
    LET kept == SelectSeq(r.hdrs, LAMBDA h : ~h.deleted)
    IN [i \in DOMAIN kept |-> <<kept[i].msg, kept[i].read>>]
CommitIsExact ==
    [][\A c \in Clients : SyncEnds(c) =>
         LET now == mbox_parse_mailbox(mbox', 0)
         IN [i \in DOMAIN now |-> <<now[i].msg, now[i].read>>] = Expected(reader[c])
       ]_mboxvars

(* A mailbox file of the length it had is the file it was, "touched, but    *)
(* still the same length".  (src/mbox.c, mbox_check_mailbox)                *)
TouchedIsUnchanged == "same length" \notin fooled
=============================================================================
