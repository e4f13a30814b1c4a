------------------------------- MODULE MCMail -------------------------------
(***************************************************************************)
(* Two mailboxes: one in a maildir, whose context is that of MailContext,  *)
(* and one on an IMAP server with a context of its own.  One of them is in *)
(* use in a behaviour.                                                     *)
(***************************************************************************)
EXTENDS MailContext, TLC, FiniteSetTheorems, TLAPS

CONSTANT ServerSays    \* Status words in headers of the server's messages

VARIABLES
    inuse,             \* which mailbox
    serverctx, serverallowed

servervars == <<serverctx, serverallowed>>

Server ==
    INSTANCE MailContext_proofs
        WITH Magic <- "imap", HeaderSays <- ServerSays,
             ctx <- serverctx, allowed <- serverallowed

(* The mailbox that is not in use was opened for writing.                   *)
MailInit ==
    /\ Init /\ Server!Init
    /\ inuse \in {"maildir", "imap"}
    /\ inuse = "maildir" => ~serverctx.readonly
    /\ inuse = "imap" => ~ctx.readonly

MailNext ==
    \/ inuse = "maildir" /\ Next /\ UNCHANGED <<inuse, servervars>>
    \/ inuse = "imap" /\ Server!Next /\ UNCHANGED <<inuse, ctx, allowed>>

MailSpec == MailInit /\ [][MailNext]_<<inuse, vars, servervars>>

Symmetry == Permutations(Keys)

-----------------------------------------------------------------------------
(* The counters of the server's mailbox are exact through arrivals,         *)
(* expunges, flag updates and failed syncs, as long as no header says       *)
(* flagged or deleted, and changed fits its one bit throughout.             *)
ServerCountersExact == Server!TypeOK /\ Server!CountersExact

(* A read-only mailbox takes the server's flags but never has anything to   *)
(* write.                                                                   *)
ServerReadonlyStaysClean == Server!ReadonlyStaysClean

-----------------------------------------------------------------------------
(* What is proved of a mailbox holds of the one on the server too, whose    *)
(* header_cb takes the status words of a header (imap_add_flags): none of   *)
(* those the class passes on says flagged or deleted.                       *)
QuietServer ==
    /\ ServerSays \subseteq StatusWords
    /\ "flagged" \notin ServerSays /\ "deleted" \notin ServerSays

(* The assumptions of the mailbox on the server.                            *)
LEMMA ServerAssumed ==
    ASSUME QuietServer
    PROVE /\ "imap" \in {"mbox", "mh", "maildir", "imap"}
          /\ Server!IsFiniteSet(Keys)
          /\ ServerSays \subseteq Server!StatusWords
          /\ Server!HeadersQuiet
<1>1. Server!IsFiniteSet(Keys)
  BY Zenon, KeysAssumption DEF IsFiniteSet, Server!IsFiniteSet
<1> QED
  BY <1>1 DEF QuietServer, Server!StatusWords, StatusWords, Server!HeadersQuiet

(* The server's mailbox lives as a mailbox does, in use or not.             *)
LEMMA ServerLives == MailSpec => Server!Spec
<1>1. MailInit => Server!Init
  BY DEF MailInit
<1>2. [MailNext]_<<inuse, vars, servervars>> => [Server!Next]_(Server!vars)
  BY DEF MailNext, vars, servervars, Server!vars
<1> QED BY <1>1, <1>2, PTL DEF MailSpec, Server!Spec

(* For any set of messages, the counters of the server's mailbox are exact  *)
(* after every command and answer.                                          *)
THEOREM ServerCountersAreExact ==
    ASSUME QuietServer PROVE MailSpec => []ServerCountersExact
<1>1. Server!Spec => []Server!CountersExact
  BY ServerAssumed, Server!CountersAreExact
<1>2. Server!Spec => []Server!TypeOK
  BY ServerAssumed, Server!TypeCorrect
<1> QED BY <1>1, <1>2, ServerLives, PTL DEF ServerCountersExact

(* For any set of messages, a read-only mailbox of a server has nothing to  *)
(* write after any step.                                                    *)
THEOREM ServerReadonlyContextStaysClean ==
    ASSUME QuietServer PROVE MailSpec => ServerReadonlyStaysClean
<1>1. Server!Spec => Server!ReadonlyStaysClean
  BY ServerAssumed, Server!ReadonlyContextStaysClean
<1> QED BY <1>1, ServerLives, PTL DEF ServerReadonlyStaysClean
=============================================================================
