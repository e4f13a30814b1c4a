---------------------------- MODULE MailContext ----------------------------
(***************************************************************************)
(* The life of one open CONTEXT: new messages are read into it, the Pike   *)
(* program sets and resets flags (f_set_flag, f_reset_flag), an IMAP       *)
(* server expunges messages, and mx_sync_mailbox writes the changes out.   *)
(***************************************************************************)
EXTENDS MailFlags

CONSTANTS Keys,        \* header pointers
          HeaderSays   \* what Status and X-Status lines of messages may say

ASSUME KeysAssumption     == IsFiniteSet(Keys)
ASSUME HeaderAssumption   == HeaderSays \subseteq StatusWords

VARIABLES ctx,
          allowed      \* IMAP_REOPEN_ALLOW is set in idata->reopen

vars == << ctx, allowed >>

TypeOK == /\ \E keys \in SUBSET Keys : ctx \in ContextOver(keys)
          /\ allowed \in BOOLEAN

(* A mailbox is opened for writing or, by its caller or its server, read-  *)
(* only.                                                                   *)
Init == /\ \E r \in BOOLEAN : ctx = [EmptyContext EXCEPT !.readonly = r]
        /\ allowed = FALSE

(* What a driver may read for a message: the flags it was stored with.     *)
(* Only a maildir file name says trashed, and such a message is deleted;   *)
(* an X-Status line can say deleted too (parse.c).  It takes the driver as *)
(* a parameter because TLC evaluates a constant once for all instances.    *)
Stored(magic) == { h \in Header : /\ ~h.tagged /\ ~h.changed
                                  /\ h.trash => h.deleted /\ magic = "maildir" }

NewMessage(i, h) ==
    /\ i \notin DOMAIN ctx.hdrs
    /\ ctx' = AddHeader(ctx, i, h) /\ UNCHANGED allowed

SetMessageFlag(i, flag) ==
    /\ i \in DOMAIN ctx.hdrs
    /\ ctx' = SetFlag(ctx, i, flag) /\ UNCHANGED allowed

ResetMessageFlag(i, flag) ==
    /\ i \in DOMAIN ctx.hdrs
    /\ ctx' = ResetFlag(ctx, i, flag) /\ UNCHANGED allowed

(* cmd_parse_fetch: an IMAP server reports new flags.  They are imported   *)
(* at once unless the message is changed here as well.                     *)
Fetch(i, f) ==
    /\ Magic = "imap" /\ i \in DOMAIN ctx.hdrs
    /\ ~ctx.hdrs[i].changed
    /\ ctx' = ImapSetFlags(ctx, i, f)
    /\ UNCHANGED allowed

(* imap_fetch_message, when the body is not in the cache: the server may   *)
(* report flags along with it, then the header is parsed again.            *)
ReadBody(i, said) ==
    /\ Magic = "imap" /\ i \in DOMAIN ctx.hdrs
    /\ \/ ctx' = Reread(ctx, i, said)
       \/ /\ ~ctx.hdrs[i].changed
          /\ \E f \in ServerFlags :
                ctx' = Reread(ImapSetFlags(ctx, i, f), i, said)
    /\ UNCHANGED allowed

(* imap_expunge_mailbox: the server has removed messages, or none when the *)
(* expunge was set pending by a flag conflict (cmd_parse_fetch).  It is    *)
(* left pending until some sync has allowed it (imap_cmd_finish).          *)
Expunge(gone) ==
    /\ Magic = "imap" /\ allowed
    /\ gone \subseteq DOMAIN ctx.hdrs
    /\ ctx' = DropInactive(ctx, DOMAIN ctx.hdrs \ gone) /\ UNCHANGED allowed

(* mx_sync_mailbox goes to the driver only if there is something to write. *)
Syncing ==
    /\ ~ctx.readonly
    /\ ctx.changed # 0 \/ ctx.deleted # 0
    /\ allowed' = (allowed \/ Magic = "imap")

(* Mutation: the file names that said trashed are forgotten. *)
SyncKeepsTrash ==
    Syncing /\ ctx' = Commit(ctx)

(* mx_sync_mailbox without a failure: a maildir file that says trashed and *)
(* is kept has been renamed (maildir_sync_message).                        *)
Sync ==
    /\ Syncing
    /\ ctx' = Commit([ctx EXCEPT !.hdrs = [i \in DOMAIN ctx.hdrs |->
                  [ctx.hdrs[i] EXCEPT !.trash = @ /\ ctx.hdrs[i].deleted]]])

(* imap_sync_mailbox fails: news was reported first, or a STORE or the     *)
(* EXPUNGE was refused.  The messages in done count as saved by then, and  *)
(* so does the mailbox if only deleted messages are left over.             *)
SyncFailed(done) ==
    /\ Magic = "imap" /\ Syncing
    /\ done \subseteq ChangedOnes(ctx.hdrs)
    /\ \E mark \in { ctx.changed, 0 } :
          /\ mark = ctx.changed
                \/ ChangedOnes(ctx.hdrs) \ DeletedOnes(ctx.hdrs) \subseteq done
          /\ ctx' = [ctx EXCEPT
                !.hdrs = [i \in DOMAIN ctx.hdrs |->
                    [ctx.hdrs[i] EXCEPT !.changed = @ /\ i \notin done]],
                !.changed = mark]

Next ==
    \/ \E i \in Keys :
          \/ \E h \in Stored(Magic) : NewMessage(i, h)
          \/ \E flag \in Flags :
                SetMessageFlag(i, flag) \/ ResetMessageFlag(i, flag)
    \/ \E i \in Keys, f \in ServerFlags : Fetch(i, f)
    \/ \E i \in Keys, said \in SUBSET HeaderSays : ReadBody(i, said)
    \/ \E gone \in SUBSET Keys : Expunge(gone)
    \/ Sync
    \/ \E done \in SUBSET Keys : SyncFailed(done)

Spec == Init /\ [][Next]_vars

----------------------------------------------------------------------------
(* The counters stat() reports count the messages they name, whatever      *)
(* sequence of flag changes, arrivals, expunges, server updates and syncs  *)
(* came before (_mutt_set_flag, mx_update_context, mx_update_tables,       *)
(* imap_set_flags), as long as no IMAP message says in its own header that *)
(* it is flagged or deleted: see DeletedIsHowMany.                         *)
CountersExact == Exact(ctx)

(* With a driver that never renumbers an open mailbox, closing never skips *)
(* the sync while a message is changed (_mutt_set_flag; the test in        *)
(* mx_close_mailbox).                                                      *)
ChangesNoticed == Noticed(ctx)

(* ... nor while a maildir file still says trashed for a message that was  *)
(* undeleted, which is not a change of the message itself.                 *)
UndeletesNoticed ==
    (\E i \in DOMAIN ctx.hdrs : ctx.hdrs[i].trash /\ ~ctx.hdrs[i].deleted)
        => ctx.changed # 0

(* A read-only context stays read-only and never has anything to write,    *)
(* although imap_set_flags makes it writable to import what the server     *)
(* reports.                                                                *)
ReadonlyStaysClean ==
    [][/\ ctx'.readonly = ctx.readonly
       /\ ctx.readonly => ctx'.changed = 0 /\ ChangedOnes(ctx'.hdrs) = {}]_vars

(* mutt.h:755: CONTEXT.deleted is "how many deleted messages" there are.   *)
DeletedIsHowMany == ctx.deleted = Cardinality(DeletedOnes(ctx.hdrs))
=============================================================================
