----------------------------- MODULE MailFlags -----------------------------
(***************************************************************************)
(* The message flags and message counters of an open mailbox: HEADER and   *)
(* CONTEXT of libmutt, _mutt_set_flag (src/flags.c), mx_update_context and *)
(* mx_update_tables (src/mx.c).  Every mailbox driver changes them through *)
(* these functions only, so the drivers' modules extend this one.          *)
(*                                                                         *)
(* A HEADER is known by a key, which stands for the pointer; where the     *)
(* array ctx->hdrs puts it is left to the drivers' modules.  The operators *)
(* take a context and return the context the C function leaves behind.     *)
(* Left out: colours, threads, sizes, virtual numbers, and the cached      *)
(* search result h->searched, which no function reachable from the Pike    *)
(* class sets.                                                             *)
(***************************************************************************)
EXTENDS Integers, FiniteSets

CONSTANT Magic    \* which driver serves the mailbox

ASSUME MagicAssumption == Magic \in { "mbox", "mh", "maildir", "imap" }

(* The flags mailstore_main.c exports to Pike. *)
Flags == { "M_READ", "M_REPLIED", "M_OLD", "M_FLAG", "M_DELETE", "M_TAG",
           "M_NEW" }

Header == [ read : BOOLEAN, old : BOOLEAN, replied : BOOLEAN,
            flagged : BOOLEAN, deleted : BOOLEAN, tagged : BOOLEAN,
            trash : BOOLEAN, changed : BOOLEAN ]

(* What mutt_new_header returns: everything is zero. *)
BlankHeader == [ read |-> FALSE, old |-> FALSE, replied |-> FALSE,
                 flagged |-> FALSE, deleted |-> FALSE, tagged |-> FALSE,
                 trash |-> FALSE, changed |-> FALSE ]

(* A context over the header keys in keys.  ctx->changed is a field of one  *)
(* bit.                                                                    *)
ContextOver(keys) ==
    [ hdrs : [keys -> Header], new : Int, unread : Int, flagged : Int,
      deleted : Int, tagged : Int, changed : {0, 1}, readonly : BOOLEAN ]

(* memset in mx_open_mailbox *)
EmptyContext == [ hdrs |-> [i \in {} |-> BlankHeader], new |-> 0, unread |-> 0,
                  flagged |-> 0, deleted |-> 0, tagged |-> 0, changed |-> 0,
                  readonly |-> FALSE ]

Bit(b) == IF b THEN 1 ELSE 0

----------------------------------------------------------------------------
(* _mutt_set_flag, one operator per flag and direction. *)

(* Only IMAP treats a deletion as a change of the message. *)
MarkDeleted(c, i) ==
    LET h == c.hdrs[i] IN
    IF h.deleted THEN c
    ELSE [c EXCEPT
            !.hdrs[i] = [h EXCEPT !.deleted = TRUE,
                                  !.changed = @ \/ Magic = "imap"],
            !.deleted = @ + 1,
            !.changed = IF Magic = "imap" THEN 1 ELSE @]

(* Undeleting a message whose file name says trashed changes the folder,   *)
(* not the message.                                                        *)
Undelete(c, i) ==
    LET h == c.hdrs[i] IN
    IF ~h.deleted THEN c
    ELSE [c EXCEPT
            !.hdrs[i] = [h EXCEPT !.deleted = FALSE,
                                  !.changed = @ \/ Magic = "imap"],
            !.deleted = @ - 1,
            !.changed = IF Magic = "imap" \/ (Magic = "maildir" /\ h.trash)
                        THEN 1 ELSE @]

MarkNew(c, i) ==
    LET h == c.hdrs[i] IN
    IF ~h.read /\ ~h.old THEN c
    ELSE [c EXCEPT
            !.hdrs[i] = [h EXCEPT !.old = FALSE, !.read = FALSE,
                                  !.changed = TRUE],
            !.new = @ + 1, !.unread = @ + Bit(h.read), !.changed = 1]

(* Mutation: an old message stops being new once more when it is read. *)
MarkReadForgetsOld(c, i) ==
    LET h == c.hdrs[i] IN
    IF h.read THEN c
    ELSE [c EXCEPT
            !.hdrs[i] = [h EXCEPT !.read = TRUE, !.changed = TRUE],
            !.new = @ - 1, !.unread = @ - 1, !.changed = 1]

(* Resetting M_NEW does what setting M_READ does. *)
MarkRead(c, i) ==
    LET h == c.hdrs[i] IN
    IF h.read THEN c
    ELSE [c EXCEPT
            !.hdrs[i] = [h EXCEPT !.read = TRUE, !.changed = TRUE],
            !.new = @ - Bit(~h.old), !.unread = @ - 1, !.changed = 1]

MarkUnread(c, i) ==
    LET h == c.hdrs[i] IN
    IF ~h.read THEN c
    ELSE [c EXCEPT
            !.hdrs[i] = [h EXCEPT !.read = FALSE, !.changed = TRUE],
            !.new = @ + Bit(~h.old), !.unread = @ + 1, !.changed = 1]

MarkOld(c, i) ==
    LET h == c.hdrs[i] IN
    IF h.old THEN c
    ELSE [c EXCEPT
            !.hdrs[i] = [h EXCEPT !.old = TRUE, !.changed = TRUE],
            !.new = @ - Bit(~h.read), !.changed = 1]

(* Mutation: changed is counted up. *)
UnmarkOldCounts(c, i) ==
    LET h == c.hdrs[i] IN
    IF ~h.old THEN c
    ELSE [c EXCEPT
            !.hdrs[i] = [h EXCEPT !.old = FALSE, !.changed = TRUE],
            !.new = @ + Bit(~h.read), !.changed = @ + 1]

UnmarkOld(c, i) ==
    LET h == c.hdrs[i] IN
    IF ~h.old THEN c
    ELSE [c EXCEPT
            !.hdrs[i] = [h EXCEPT !.old = FALSE, !.changed = TRUE],
            !.new = @ + Bit(~h.read), !.changed = 1]

(* An answered message counts as read. *)
MarkReplied(c, i) ==
    LET h == c.hdrs[i] IN
    IF h.replied THEN c
    ELSE [c EXCEPT
            !.hdrs[i] = [h EXCEPT !.replied = TRUE, !.read = TRUE,
                                  !.changed = TRUE],
            !.unread = @ - Bit(~h.read),
            !.new = @ - Bit(~h.read /\ ~h.old), !.changed = 1]

UnmarkReplied(c, i) ==
    LET h == c.hdrs[i] IN
    IF ~h.replied THEN c
    ELSE [c EXCEPT
            !.hdrs[i] = [h EXCEPT !.replied = FALSE, !.changed = TRUE],
            !.changed = 1]

MarkFlagged(c, i) ==
    LET h == c.hdrs[i] IN
    IF h.flagged THEN c
    ELSE [c EXCEPT
            !.hdrs[i] = [h EXCEPT !.flagged = TRUE, !.changed = TRUE],
            !.flagged = @ + 1, !.changed = 1]

(* Mutation: the folder is not marked as changed. *)
UnmarkFlaggedQuietly(c, i) ==
    LET h == c.hdrs[i] IN
    IF ~h.flagged THEN c
    ELSE [c EXCEPT
            !.hdrs[i] = [h EXCEPT !.flagged = FALSE, !.changed = TRUE],
            !.flagged = @ - 1]

UnmarkFlagged(c, i) ==
    LET h == c.hdrs[i] IN
    IF ~h.flagged THEN c
    ELSE [c EXCEPT
            !.hdrs[i] = [h EXCEPT !.flagged = FALSE, !.changed = TRUE],
            !.flagged = @ - 1, !.changed = 1]

(* Tags live in memory only: nothing becomes changed. *)
MarkTagged(c, i) ==
    LET h == c.hdrs[i] IN
    IF h.tagged THEN c
    ELSE [c EXCEPT !.hdrs[i] = [h EXCEPT !.tagged = TRUE], !.tagged = @ + 1]

UnmarkTagged(c, i) ==
    LET h == c.hdrs[i] IN
    IF ~h.tagged THEN c
    ELSE [c EXCEPT !.hdrs[i] = [h EXCEPT !.tagged = FALSE], !.tagged = @ - 1]

(* mutt_set_flag(ctx, h, flag, 1); a read-only context lets only the tag   *)
(* through.                                                                *)
SetFlag(c, i, flag) ==
    IF c.readonly /\ flag # "M_TAG" THEN c
    ELSE CASE flag = "M_DELETE"  -> MarkDeleted(c, i)
           [] flag = "M_NEW"     -> MarkNew(c, i)
           [] flag = "M_OLD"     -> MarkOld(c, i)
           [] flag = "M_READ"    -> MarkRead(c, i)
           [] flag = "M_REPLIED" -> MarkReplied(c, i)
           [] flag = "M_FLAG"    -> MarkFlagged(c, i)
           [] flag = "M_TAG"     -> MarkTagged(c, i)

(* mutt_set_flag(ctx, h, flag, 0) *)
ResetFlag(c, i, flag) ==
    IF c.readonly /\ flag # "M_TAG" THEN c
    ELSE CASE flag = "M_DELETE"  -> Undelete(c, i)
           [] flag = "M_NEW"     -> MarkRead(c, i)
           [] flag = "M_OLD"     -> UnmarkOld(c, i)
           [] flag = "M_READ"    -> MarkUnread(c, i)
           [] flag = "M_REPLIED" -> UnmarkReplied(c, i)
           [] flag = "M_FLAG"    -> UnmarkFlagged(c, i)
           [] flag = "M_TAG"     -> UnmarkTagged(c, i)

----------------------------------------------------------------------------
(* A driver appends header h under key i and mx_update_context counts it.  *)
(* A header fresh from a driver is never tagged, and tags are not counted. *)
AddHeader(c, i, h) ==
    [c EXCEPT
        !.hdrs = [j \in DOMAIN c.hdrs \cup {i} |->
                      IF j = i THEN h ELSE c.hdrs[j]],
        !.changed = IF h.changed THEN 1 ELSE @,
        !.flagged = @ + Bit(h.flagged),
        !.deleted = @ + Bit(h.deleted),
        !.unread = @ + Bit(~h.read),
        !.new = @ + Bit(~h.read /\ ~h.old)]

(* The headers the counters are about. *)
NewOnes(hdrs)     == { i \in DOMAIN hdrs : ~hdrs[i].read /\ ~hdrs[i].old }
UnreadOnes(hdrs)  == { i \in DOMAIN hdrs : ~hdrs[i].read }
FlaggedOnes(hdrs) == { i \in DOMAIN hdrs : hdrs[i].flagged }
DeletedOnes(hdrs) == { i \in DOMAIN hdrs : hdrs[i].deleted }
TaggedOnes(hdrs)  == { i \in DOMAIN hdrs : hdrs[i].tagged }
ChangedOnes(hdrs) == { i \in DOMAIN hdrs : hdrs[i].changed }


(* mx_update_tables(ctx, 0): the headers still active stay, all counters   *)
(* are taken anew.  ctx->changed++ for each changed header wraps around in *)
(* its one bit.                                                            *)
DropInactive(c, active) ==
    LET hdrs == [i \in DOMAIN c.hdrs \cap active |-> c.hdrs[i]]
    IN  [c EXCEPT !.hdrs = hdrs,
                  !.new     = Cardinality(NewOnes(hdrs)),
                  !.unread  = Cardinality(UnreadOnes(hdrs)),
                  !.flagged = Cardinality(FlaggedOnes(hdrs)),
                  !.deleted = Cardinality(DeletedOnes(hdrs)),
                  !.tagged  = Cardinality(TaggedOnes(hdrs)),
                  !.changed = Cardinality(ChangedOnes(hdrs)) % 2]

(* mx_update_tables(ctx, 1): the deleted headers go, the others are no     *)
(* longer changed; deleted is not counted.                                 *)
Commit(c) ==
    LET hdrs == [i \in DOMAIN c.hdrs \ DeletedOnes(c.hdrs) |->
                     [c.hdrs[i] EXCEPT !.changed = FALSE]]
    IN  [c EXCEPT !.hdrs = hdrs,
                  !.new     = Cardinality(NewOnes(hdrs)),
                  !.unread  = Cardinality(UnreadOnes(hdrs)),
                  !.flagged = Cardinality(FlaggedOnes(hdrs)),
                  !.deleted = 0,
                  !.tagged  = Cardinality(TaggedOnes(hdrs)),
                  !.changed = 0]

(* The flags an IMAP server reports for a message. *)
ServerFlags == [ read : BOOLEAN, old : BOOLEAN, replied : BOOLEAN,
                 flagged : BOOLEAN, deleted : BOOLEAN ]

Assign(c, i, flag, bf) ==
    IF bf THEN SetFlag(c, i, flag) ELSE ResetFlag(c, i, flag)

(* The six mutt_set_flag calls of imap_set_flags, in their order, on a     *)
(* context made writable for them.                                         *)
Import(c, i, f) ==
    LET c1 == Assign(c,  i, "M_NEW", ~(f.read \/ f.old))
        c2 == Assign(c1, i, "M_OLD", f.old)
        c3 == Assign(c2, i, "M_READ", f.read)
        c4 == Assign(c3, i, "M_DELETE", f.deleted)
        c5 == Assign(c4, i, "M_FLAG", f.flagged)
    IN  Assign(c5, i, "M_REPLIED", f.replied)

(* Mutation: a read-only context keeps the mark of the temporary writes. *)
ImapSetFlagsMarks(c, i, f) ==
    LET d == Import([c EXCEPT !.readonly = FALSE], i, f)
    IN  [d EXCEPT !.hdrs[i] = [d.hdrs[i] EXCEPT !.changed = FALSE],
                  !.readonly = c.readonly]

(* imap_set_flags: the message counts as unchanged afterwards, and         *)
(* ctx->changed &= ~readonly clears the mark of a read-only context only.  *)
ImapSetFlags(c, i, f) ==
    LET d == Import([c EXCEPT !.readonly = FALSE], i, f)
    IN  [d EXCEPT !.hdrs[i] = [d.hdrs[i] EXCEPT !.changed = FALSE],
                  !.changed = IF c.readonly THEN 0 ELSE @,
                  !.readonly = c.readonly]

(* imap_update_header_info: when the body of a message has been fetched    *)
(* its header is parsed once more, and what its own Status and X-Status    *)
(* lines say is written over the flags.  Only read goes through            *)
(* mutt_set_flag; parse.c sets the other bits and counts nothing.          *)
StatusWords == { "read", "replied", "flagged", "deleted" }

Reread(c, i, said) ==
    LET h == c.hdrs[i]
        d == [c EXCEPT !.hdrs[i] =
                  [h EXCEPT !.replied = @ \/ "replied" \in said,
                            !.flagged = @ \/ "flagged" \in said,
                            !.deleted = @ \/ "deleted" \in said]]
    IN  IF "read" \in said THEN ResetFlag(d, i, "M_NEW") ELSE d

----------------------------------------------------------------------------
(* What stat() reports is the truth: every counter is the number of        *)
(* messages it stands for.                                                 *)
Exact(c) ==
    /\ c.new     = Cardinality(NewOnes(c.hdrs))
    /\ c.unread  = Cardinality(UnreadOnes(c.hdrs))
    /\ c.flagged = Cardinality(FlaggedOnes(c.hdrs))
    /\ c.deleted = Cardinality(DeletedOnes(c.hdrs))
    /\ c.tagged  = Cardinality(TaggedOnes(c.hdrs))

(* mx_close_mailbox looks for changes only when changed or deleted is not  *)
(* zero, so a changed message must show there.                             *)
Noticed(c) == ChangedOnes(c.hdrs) # {} => c.changed # 0
=============================================================================
