---------------------------- MODULE ImapSession ----------------------------
(***************************************************************************)
(* A Mailstore.Mailbox on an IMAP server that other clients use too        *)
(* (imap/imap.c, imap/command.c, imap/message.c, mx_close_mailbox).        *)
(*                                                                         *)
(* The server tells a session what others did in untagged responses, which *)
(* it may hold back but keeps in order, and which the client reads with    *)
(* the answer to its next command.  Messages are known by sequence numbers *)
(* there: every header keeps its own, 0 once the message was expunged (the *)
(* code counts from 0, and has -1).  Only a close allows the client to     *)
(* change what it shows, and only for the next mailbox on the connection,  *)
(* as a mailbox that is closing shows nothing new.                         *)
(*                                                                         *)
(* A FETCH of headers is one step, and STORE brings no news.               *)
(***************************************************************************)
EXTENDS Integers, FiniteSets, SequencesExt

CONSTANTS
    MaxUid,        \* bound: messages there ever are
    MaxBoxEdits,   \* bound: flags set per mailbox
    MaxOthers,     \* bound: what other clients do
    MaxBoxes       \* bound: mailboxes opened on the connection

VARIABLES
    folder,        \* the server's messages, by UID
    flags,         \* their flags
    nextuid, others,
    told,          \* responses the server has ready for the session
    session,       \* the UIDs behind the sequence numbers of the session
    idata,         \* IMAP_DATA
    box,           \* the mailbox and its CONTEXT
    misdone        \* what an IMAP client must not do

imapvars == <<folder, flags, nextuid, others, told, session, idata, box, misdone>>

(* The folder starts with three messages.                                   *)
Bounds == MaxUid \in Nat /\ 3 <= MaxUid /\ MaxBoxes \in Nat

Plain == [read |-> FALSE, deleted |-> FALSE]
Told(kind, n, uid) == [kind |-> kind, n |-> n, uid |-> uid]

NoBox == [pc |-> "none", hdrs |-> <<>>, edits |-> 0]
imap_new_idata == [selected |-> FALSE, allow |-> FALSE, expunge |-> FALSE,
                   newmail |-> FALSE, newMailCount |-> 0, check |-> "none", boxes |-> 0]
Init ==
    /\ folder = <<1, 2, 3>> /\ nextuid = 4 /\ others = 0
    /\ flags = [u \in 1 .. MaxUid |-> Plain]
    /\ told = <<>> /\ session = <<>> /\ idata = imap_new_idata /\ box = NoBox
    /\ misdone = {}

TypeOK ==
    /\ folder \in Seq(1 .. MaxUid) /\ session \in Seq(1 .. MaxUid)
    /\ flags \in [1 .. MaxUid -> [read : BOOLEAN, deleted : BOOLEAN]]
    /\ idata \in [selected : BOOLEAN, allow : BOOLEAN, expunge : BOOLEAN,
                  newmail : BOOLEAN, newMailCount : Nat, boxes : 0 .. MaxBoxes,
                  check : {"none", "new mail", "expunge", "flags"}]
    /\ box.pc \in {"none", "open", "marks", "stores", "closes", "broken", "over"}

-----------------------------------------------------------------------------
(* The server and its other clients.                                        *)
Queue(item) == told' = IF idata.selected THEN Append(told, item) ELSE told
MessageArrives ==
    /\ nextuid <= MaxUid
    /\ folder' = Append(folder, nextuid) /\ nextuid' = nextuid + 1
    /\ Queue(Told("EXISTS", Len(folder) + 1, nextuid))
    /\ UNCHANGED <<flags, others, session, idata, box, misdone>>
OtherExpunges ==
    /\ others < MaxOthers /\ others' = others + 1
    /\ \E i \in DOMAIN folder :
         folder' = RemoveAt(folder, i) /\ Queue(Told("EXPUNGE", i, folder[i]))
    /\ UNCHANGED <<flags, nextuid, session, idata, box, misdone>>
OtherStores ==
    /\ others < MaxOthers /\ others' = others + 1
    /\ \E i \in DOMAIN folder :
         /\ flags' = [flags EXCEPT ![folder[i]].read = ~@]
         /\ Queue(Told("FETCH", i, folder[i]))
    /\ UNCHANGED <<folder, nextuid, session, idata, box, misdone>>

-----------------------------------------------------------------------------
(* Handling a response.  S has the session, idata, the headers, and whether *)
(* something impossible came.                                               *)
HeaderOf(uid, n) ==
    [uid |-> uid, index |-> n, read |-> flags[uid].read, deleted |-> flags[uid].deleted,
     changed |-> FALSE, want |-> <<>>]
imap_read_headers(hdrs, view, from, to) ==
    hdrs \o [k \in 1 .. to - from |-> HeaderOf(view[from + k], from + k)]

HandleExists(S, item) ==
    LET known == Len(S.hdrs)
        d == S.idata
        fewer == ~d.expunge /\ item.n < known
    IN [S EXCEPT !.session = Append(@, item.uid), !.fatal = @ \/ fewer,
                 !.idata = IF item.n = known \/ fewer THEN d
                           ELSE [d EXCEPT !.newmail = @ \/ ~d.expunge,
                                          !.newMailCount = item.n]]

IndexKept(h, n) == IF h.index = n THEN [h EXCEPT !.index = 0] ELSE h
cmd_parse_expunge(h, n) ==
    CASE h.index = n -> [h EXCEPT !.index = 0]
      [] h.index > n -> [h EXCEPT !.index = @ - 1]
      [] OTHER -> h
HandleExpunge(S, item) ==
    [S EXCEPT !.session = RemoveAt(@, item.n),
              !.hdrs = [i \in DOMAIN @ |-> cmd_parse_expunge(@[i], item.n)],
              !.idata.expunge = TRUE]

(* imap_set_flags, unless the script's own changes would be lost.           *)
TakenAlways(h) == TRUE
Taken(h) == ~h.changed
imap_set_flags(h, uid) ==
    IF Taken(h) THEN [h EXCEPT !.read = flags[uid].read, !.deleted = flags[uid].deleted,
                               !.changed = FALSE]
    ELSE h
cmd_parse_fetch(S, item) ==
    LET hit == {i \in DOMAIN S.hdrs : S.hdrs[i].index = item.n} IN
    IF hit = {} THEN S
    ELSE LET i == CHOOSE i \in hit : TRUE IN
         [S EXCEPT !.hdrs[i] = imap_set_flags(@, item.uid),
                   !.idata = IF Taken(S.hdrs[i]) THEN [@ EXCEPT !.check = "flags"]
                             ELSE [@ EXCEPT !.expunge = TRUE]]
cmd_handle_untagged(S, item) ==
    IF S.fatal THEN S
    ELSE CASE item.kind = "EXISTS" -> HandleExists(S, item)
           [] item.kind = "EXPUNGE" -> HandleExpunge(S, item)
           [] OTHER -> cmd_parse_fetch(S, item)

(* The command is done: new headers are read, or expunged ones go, if this  *)
(* is allowed.  Both at once leaves the new mail for another time.          *)
Picked(s, places) ==
    LET upto[n \in 0 .. Len(s)] ==
          IF n = 0 THEN <<>>
          ELSE IF n \in places THEN Append(upto[n - 1], s[n]) ELSE upto[n - 1]
    IN upto[Len(s)]
imap_expunge_mailbox(hdrs) == Picked(hdrs, {i \in DOMAIN hdrs : hdrs[i].index # 0})
imap_cmd_finish(S) ==
    LET d == S.idata IN
    IF S.fatal \/ ~d.allow THEN S
    ELSE IF ~d.expunge /\ d.newmail /\ d.newMailCount > Len(S.hdrs)
    THEN [S EXCEPT !.hdrs = imap_read_headers(@, S.session, Len(@), d.newMailCount),
                   !.idata = [@ EXCEPT !.check = "new mail", !.newmail = FALSE,
                                       !.newMailCount = 0]]
    ELSE IF d.expunge
    THEN [S EXCEPT !.hdrs = imap_expunge_mailbox(@),
                   !.idata = [@ EXCEPT !.check = "expunge", !.expunge = FALSE,
                                       !.newmail = FALSE]]
    ELSE S

(* A NOOP brings some of what the server has ready.                         *)
Noop(k) ==
    LET S[n \in 0 .. k] ==
          IF n = 0 THEN [session |-> session, idata |-> idata, hdrs |-> box.hdrs,
                         fatal |-> FALSE]
          ELSE cmd_handle_untagged(S[n - 1], told[n])
    IN S[k]

-----------------------------------------------------------------------------
(* imap_open_mailbox: SELECT tells how many there are, FETCH the rest.      *)
f_create ==
    /\ box.pc = "none" /\ ~idata.selected /\ idata.boxes < MaxBoxes
    /\ session' = folder /\ told' = <<>>
    /\ idata' = [idata EXCEPT !.selected = TRUE, !.newMailCount = 0, !.newmail = FALSE,
                              !.check = "none", !.boxes = @ + 1]
    /\ box' = [NoBox EXCEPT !.pc = "open",
                            !.hdrs = imap_read_headers(<<>>, folder, 0, Len(folder))]
    /\ UNCHANGED <<folder, flags, nextuid, others, misdone>>

f_set_flag ==
    /\ box.pc = "open" /\ box.edits < MaxBoxEdits
    /\ \E i \in DOMAIN box.hdrs, del \in BOOLEAN :
         LET h == box.hdrs[i]
             g == IF del THEN [h EXCEPT !.deleted = TRUE] ELSE [h EXCEPT !.read = ~@]
         IN /\ g # h
            /\ box' = [box EXCEPT !.edits = @ + 1,
                   !.hdrs[i] = [g EXCEPT !.changed = TRUE,
                                         !.want = <<g.read, g.deleted>>]]
    /\ UNCHANGED <<folder, flags, nextuid, others, told, session, idata, misdone>>

(* imap_check_mailbox asks the server once a second.                        *)
f_check_mailbox ==
    /\ box.pc = "open"
    /\ \E k \in 0 .. Len(told) :
         LET S == imap_cmd_finish(Noop(k)) IN
         /\ told' = SubSeq(told, k + 1, Len(told))
         /\ session' = S.session /\ idata' = [S.idata EXCEPT !.check = "none"]
         /\ box' = [box EXCEPT !.hdrs = S.hdrs, !.pc = IF S.fatal THEN "broken" ELSE @]
         /\ misdone' = IF S.fatal THEN misdone \cup {"out of sync"} ELSE misdone
    /\ UNCHANGED <<folder, flags, nextuid, others>>

-----------------------------------------------------------------------------
(* mx_close_mailbox.  What imap_sync_mailbox cannot do is dropped with the  *)
(* CONTEXT, and the connection stays selected.                              *)
ChangedOnes == {i \in DOMAIN box.hdrs : box.hdrs[i].changed}
SyncStarts ==
    /\ box.pc = "open" /\ ChangedOnes # {}
    /\ \E k \in 0 .. Len(told) :
         LET S == Noop(k) IN
         /\ told' = SubSeq(told, k + 1, Len(told))
         /\ session' = S.session
         /\ idata' = [S.idata EXCEPT !.check = "none", !.allow = TRUE]
         /\ box' = [box EXCEPT !.hdrs = S.hdrs,
                               !.pc = IF S.fatal \/ S.idata.check # "none" THEN "over"
                                      ELSE "marks"]
         /\ misdone' = IF S.fatal THEN misdone \cup {"out of sync"} ELSE misdone
    /\ UNCHANGED <<folder, flags, nextuid, others>>

(* imap_make_msg_set: ranges of UIDs, from the first header that matches to *)
(* the last before one that does not, the headers sorted by their numbers.  *)
Before(hdrs, i, j) == \/ hdrs[i].index < hdrs[j].index
                      \/ hdrs[i].index = hdrs[j].index /\ i < j
Foremost(hdrs, left) == CHOOSE i \in left : \A j \in left \ {i} : Before(hdrs, i, j)
Sorted(hdrs) ==
    LET first[n \in 0 .. Len(hdrs)] ==
          IF n = 0 THEN <<>>
          ELSE Append(first[n - 1],
                      Foremost(hdrs, DOMAIN hdrs \ Range(first[n - 1])))
    IN [n \in DOMAIN hdrs |-> hdrs[first[Len(hdrs)][n]]]
Matches(h) == h.deleted /\ h.changed
Between(a, b) == {u \in 1 .. MaxUid : (a <= u /\ u <= b) \/ (b <= u /\ u <= a)}
EndsBehind(hdrs, n) == hdrs[n].uid
EndsBefore(hdrs, n) == hdrs[n - 1].uid
MsgSetTurn(acc, hdrs, n) ==
    IF Matches(hdrs[n])
    THEN [start |-> IF acc.start = 0 THEN hdrs[n].uid ELSE acc.start,
          uids |-> acc.uids \cup
                   (IF acc.start = 0 THEN {hdrs[n].uid}
                    ELSE IF n = Len(hdrs) THEN Between(acc.start, hdrs[n].uid)
                    ELSE {})]
    ELSE [start |-> 0,
          uids |-> IF acc.start # 0 /\ EndsBefore(hdrs, n) > acc.start
                   THEN acc.uids \cup Between(acc.start, EndsBefore(hdrs, n))
                   ELSE acc.uids]
imap_make_msg_set(hdrs) ==
    LET acc[n \in 0 .. Len(hdrs)] ==
          IF n = 0 THEN [start |-> 0, uids |-> {}]
          ELSE MsgSetTurn(acc[n - 1], hdrs, n)
    IN acc[Len(hdrs)].uids
Wanted == {box.hdrs[i].uid : i \in {i \in ChangedOnes : box.hdrs[i].deleted}}
StoreDeleted ==
    /\ box.pc = "marks"
    /\ LET marked == imap_make_msg_set(Sorted(box.hdrs)) \cap Range(folder)
           expunged == \E h \in Range(box.hdrs) : h.index = 0 /\ Matches(h)
       IN /\ flags' = [u \in 1 .. MaxUid |->
                         IF u \in marked THEN [flags[u] EXCEPT !.deleted = TRUE]
                         ELSE flags[u]]
          /\ misdone' = misdone
               \cup (IF marked \subseteq Wanted THEN {}
                     ELSE IF expunged THEN {"stranger after expunge"} ELSE {"stranger"})
               \cup (IF Wanted \cap Range(folder) \subseteq marked THEN {}
                     ELSE IF expunged THEN {"lost after expunge"} ELSE {"lost"})
    /\ box' = [box EXCEPT !.pc = "stores",
                          !.hdrs = [i \in DOMAIN @ |->
                             IF @[i].deleted THEN [@[i] EXCEPT !.changed = FALSE]
                             ELSE @[i]]]
    /\ UNCHANGED <<folder, nextuid, others, told, session, idata>>

(* A STORE for every other changed message; the question whether to go on   *)
(* after an error is answered yes.                                          *)
StoreFlags ==
    /\ box.pc = "stores" /\ ChangedOnes # {}
    /\ LET i == Min(ChangedOnes)
           h == box.hdrs[i]
       IN /\ flags' \in {flags, [flags EXCEPT ![h.uid] = [read |-> h.read,
                                                           deleted |-> h.deleted]]}
          /\ box' = [box EXCEPT !.hdrs[i].changed = FALSE, !.hdrs[i].want = <<>>]
    /\ UNCHANGED <<folder, nextuid, others, told, session, idata, misdone>>

(* imap_close_mailbox: CLOSE expunges all deleted messages, whoever deleted *)
(* them.                                                                    *)
imap_close_mailbox ==
    /\ \/ box.pc = "stores" /\ ChangedOnes = {}
       \/ box.pc = "open" /\ ChangedOnes = {} /\ \A h \in Range(box.hdrs) : ~h.deleted
    /\ folder' = Picked(folder, {n \in DOMAIN folder : ~flags[folder[n]].deleted})
    /\ told' = <<>> /\ session' = <<>> /\ box' = NoBox
    /\ idata' = [idata EXCEPT !.selected = FALSE, !.expunge = FALSE, !.newmail = FALSE]
    /\ UNCHANGED <<flags, nextuid, others, misdone>>

(* The STORE of the deleted ones is refused: the close gives up.            *)
StoreFails ==
    /\ box.pc = "marks"
    /\ box' = [NoBox EXCEPT !.pc = "over"]
    /\ UNCHANGED <<folder, flags, nextuid, others, told, session, idata, misdone>>

Next ==
    \/ MessageArrives \/ OtherExpunges \/ OtherStores
    \/ f_create \/ f_set_flag \/ f_check_mailbox \/ SyncStarts
    \/ StoreDeleted \/ StoreFlags \/ StoreFails \/ imap_close_mailbox

Spec == Init /\ [][Next]_imapvars

-----------------------------------------------------------------------------
(* In whatever order news and commands come, the number a header has is the *)
(* one its message has in the session, and no EXISTS is taken for an error  *)
(* of the server.                                                           *)
IndexMatchesServer ==
    /\ "out of sync" \notin misdone
    /\ box.pc \in {"open", "marks", "stores"} =>
         \A h \in Range(box.hdrs) :
            h.index # 0 => h.index \in DOMAIN session /\ session[h.index] = h.uid

(* What a script set on a message is not changed by what the server says    *)
(* of the message meanwhile.                                                *)
OwnFlagsSurviveServer ==
    box.pc = "open" =>
      \A h \in Range(box.hdrs) : h.want # <<>> => h.want = <<h.read, h.deleted>>

(* The STORE of a close marks the messages the script deleted and no other, *)
(* whatever UIDs lie between; unless a deleted one was expunged before.     *)
MarksAreExact == misdone \cap {"stranger", "lost"} = {}

(* "don't include pending expunged messages": ranges made with the numbers  *)
(* of expunged messages do not delete a message nobody deleted.             *)
(* (imap/imap.c:850)                                                        *)
ExpungedLeftOut == "stranger after expunge" \notin misdone
=============================================================================
