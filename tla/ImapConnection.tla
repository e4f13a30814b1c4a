--------------------------- MODULE ImapConnection ---------------------------
(***************************************************************************)
(* The connections of the IMAP client (mutt_socket.c, account.c, url.c,    *)
(* imap/auth*.c, imap/imap.c, imap/command.c): mailboxes of one process    *)
(* look for a connection of their account that has no mailbox selected,    *)
(* and log in on a new one if there is none.  Connections stay, for later  *)
(* mailboxes, when their mailbox is closed, and the server or the network  *)
(* may end them at each command.  The library is built without SSL.        *)
(***************************************************************************)
EXTENDS Integers, Sequences

CONSTANTS
    Boxes,       \* objects of the class Mailbox
    Uris,        \* [scheme, user, pass]: what the objects are created with
    MaxConns     \* bound: connections, and IMAP_DATA, there ever are

VARIABLES
    Connections, \* the list of connections: their numbers, the newest first
    conn,        \* CONNECTION, by number
    imapdata,    \* IMAP_DATA, by number
    mailbox,     \* the objects
    opening,     \* the call of imap_open_mailbox
    lostfds,     \* descriptors no connection has any more
    connpast     \* what has happened

connvars == <<Connections, conn, imapdata, mailbox, opening, lostfds, connpast>>

Ids == 1 .. MaxConns
socket_new_conn == [user |-> "none", pass |-> "none", fd |-> FALSE, unread |-> 0, data |-> 0,
                    who |-> "nobody"]
imap_new_idata == [conn |-> 0, state |-> "DISCONNECTED", status |-> "none", ctx |-> {}]
Nothing == [pc |-> "idle", box |-> {}, conn |-> 0, data |-> 0, caps |-> {}]
Init ==
    /\ Connections = {}
    /\ conn = <<>> /\ imapdata = <<>>
    /\ mailbox = [b \in Boxes |-> [pc |-> "none", user |-> "none", data |-> 0]]
    /\ opening = Nothing /\ lostfds = 0 /\ connpast = {}

Capabilities == {"AUTH_ANON", "ACRAM_MD5", "LOGINDISABLED"}
TypeOK ==
    /\ Connections \subseteq Ids
    /\ \A c \in DOMAIN conn : conn[c].fd \in BOOLEAN /\ conn[c].unread \in 0 .. 1
    /\ \A d \in DOMAIN imapdata :
         /\ imapdata[d].state \in {"DISCONNECTED", "CONNECTED", "AUTHENTICATED", "SELECTED"}
         /\ imapdata[d].status \in {"none", "BYE", "FATAL"}
    /\ \A b \in Boxes : mailbox[b].pc \in {"none", "opening", "open", "lost", "over"}
    /\ opening.pc \in {"idle", "connect", "greeting", "capabilities", "authenticate", "select"}
    /\ opening.caps \subseteq Capabilities /\ lostfds \in Nat
    /\ connpast \subseteq {"refused", "old line", "lost in select", "lost in close"}

-----------------------------------------------------------------------------
(* imap_parse_path: two ways to write an address; SSL is not there, which   *)
(* mutt_conn_find finds out unless a connection is already open.            *)
Parses(uri) == uri.scheme \in {"imap", "imaps", "pine"}
mutt_account_fromurl(uri) == [user |-> uri.user, pass |-> uri.pass]
HostsMatch(a, b) == TRUE
(* A user that is not given is nobody's: there is no name to fall back to.  *)
mutt_account_match(a, b) == a.user = b.user

NotSelected(c) == conn[c].data = 0 \/ imapdata[conn[c].data].state # "SELECTED"
Matching(a) == {c \in Connections : mutt_account_match(a, conn[c])}
First(cs) == CHOOSE c \in cs : \A d \in cs : d <= c
mutt_conn_find(a) ==
    LET free == {c \in Matching(a) : NotSelected(c)}
    IN  IF free = {} THEN Len(conn) + 1 ELSE First(free)
(* The credentials are those of the first connection of the account.        *)
Creds(a) == IF Matching(a) = {} THEN a
            ELSE [user |-> conn[First(Matching(a))].user, pass |-> conn[First(Matching(a))].pass]

f_create(b, uri) ==
    LET a == mutt_account_fromurl(uri)
        c == mutt_conn_find(a)
        new == c > Len(conn)
        d == IF new \/ conn[c].data = 0 THEN Len(imapdata) + 1 ELSE conn[c].data
        known == [(IF new THEN socket_new_conn ELSE conn[c]) EXCEPT
                    !.user = Creds(a).user, !.pass = Creds(a).pass, !.data = d]
    IN
    /\ opening.pc = "idle" /\ mailbox[b].pc = "none"
    /\ c <= MaxConns /\ d <= MaxConns
    /\ IF ~Parses(uri) \/ (uri.scheme = "imaps" /\ new)
       THEN /\ mailbox' = [mailbox EXCEPT ![b].pc = "over"]
            /\ UNCHANGED <<Connections, conn, imapdata, opening>>
       ELSE IF d <= Len(imapdata) /\ imapdata[d].status = "FATAL"
       THEN /\ mailbox' = [mailbox EXCEPT ![b].pc = "over"]
            /\ imapdata' = [imapdata EXCEPT ![d].state = "AUTHENTICATED"]
            /\ UNCHANGED <<Connections, conn, opening>>
       ELSE /\ Connections' = Connections \cup {c}
            /\ conn' = [i \in 1 .. (IF new THEN c ELSE Len(conn)) |->
                          IF i = c THEN known ELSE conn[i]]
            /\ imapdata' = IF d <= Len(imapdata) THEN imapdata
                           ELSE Append(imapdata, [imap_new_idata EXCEPT !.conn = c])
            /\ mailbox' = [mailbox EXCEPT ![b] = [pc |-> "opening", user |-> a.user, data |-> d]]
            /\ opening' = [Nothing EXCEPT !.box = {b}, !.conn = c, !.data = d,
                             !.pc = IF d <= Len(imapdata) THEN "select" ELSE "connect"]
    /\ UNCHANGED <<lostfds, connpast>>

-----------------------------------------------------------------------------
(* mutt_socket_close: what was read and not used stays in the buffer.       *)
mutt_socket_close(k, left) == [k EXCEPT !.fd = FALSE, !.unread = left]

(* An opening fails: the data and the connection are freed, the socket is   *)
(* not closed if it was open.                                               *)
mutt_socket_free(c) == Connections \ {c}
Bail(fd) ==
    /\ Connections' = mutt_socket_free(opening.conn)
    /\ conn' = [conn EXCEPT ![opening.conn] = [@ EXCEPT !.fd = FALSE, !.data = 0]]
    /\ imapdata' = [imapdata EXCEPT ![opening.data] = [imap_new_idata EXCEPT !.conn = 0]]
    /\ lostfds' = lostfds + (IF fd THEN 1 ELSE 0)
    /\ mailbox' = [mailbox EXCEPT ![CHOOSE b \in opening.box : TRUE].pc = "over"]
    /\ opening' = Nothing
Proceeds(pc, state) ==
    /\ opening' = [opening EXCEPT !.pc = pc]
    /\ imapdata' = [imapdata EXCEPT ![opening.data].state = state]
    /\ UNCHANGED <<Connections, mailbox, lostfds>>

Unreachable ==
    /\ opening.pc = "connect"
    /\ Bail(conn[opening.conn].fd) /\ UNCHANGED connpast
raw_socket_open ==
    /\ opening.pc = "connect"
    /\ lostfds' = lostfds + (IF conn[opening.conn].fd THEN 1 ELSE 0)
    /\ conn' = [conn EXCEPT ![opening.conn].fd = TRUE]
    /\ opening' = [opening EXCEPT !.pc = "greeting"]
    /\ UNCHANGED <<Connections, imapdata, mailbox, connpast>>
Greeting ==
    /\ opening.pc = "greeting"
    /\ LET old == conn[opening.conn].unread
           line == [conn[opening.conn] EXCEPT !.unread = 0] IN
       /\ connpast' = connpast \cup (IF old > 0 THEN {"old line"} ELSE {})
       /\ \/ /\ conn' = [conn EXCEPT ![opening.conn] = line]
             /\ Proceeds("capabilities", "CONNECTED")
          \/ /\ old = 0
             /\ conn' = [conn EXCEPT ![opening.conn] = [line EXCEPT !.who = "preauth"]]
             /\ Proceeds("select", "AUTHENTICATED")
BadGreeting ==
    /\ opening.pc = "greeting"
    /\ Bail(TRUE)
    /\ connpast' = connpast \cup {"refused"}
                   \cup (IF conn[opening.conn].unread > 0 THEN {"old line"} ELSE {})
(* A BYE or the end of the stream closes the socket, then Bail.             *)
ServerGone ==
    /\ opening.pc \in {"greeting", "capabilities", "authenticate"}
    /\ Bail(FALSE) /\ UNCHANGED connpast

imap_check_capabilities ==
    /\ opening.pc = "capabilities"
    /\ UNCHANGED <<Connections, conn, mailbox, lostfds, connpast, imapdata>>
    /\ \E caps \in SUBSET Capabilities :
         opening' = [opening EXCEPT !.pc = "authenticate", !.caps = caps]
Ancient ==
    /\ opening.pc = "capabilities"
    /\ Bail(TRUE) /\ connpast' = connpast \cup {"refused"}

(* The authenticators in their order; one that fails is the last.           *)
imap_auth_anon ==
    IF "AUTH_ANON" \notin opening.caps THEN "UNAVAIL"
    ELSE IF conn[opening.conn].user = "none" THEN "FAILURE"
    ELSE IF conn[opening.conn].user = "" THEN "anonymous" ELSE "UNAVAIL"
WithPassword(method) ==
    IF conn[opening.conn].user = "none" \/ conn[opening.conn].pass = "none" THEN "FAILURE"
    ELSE method
imap_auth_cram_md5 ==
    IF "ACRAM_MD5" \notin opening.caps THEN "UNAVAIL" ELSE WithPassword("cram-md5")
imap_auth_login ==
    IF "LOGINDISABLED" \in opening.caps THEN "UNAVAIL" ELSE WithPassword("login")
imap_authenticators == <<imap_auth_anon, imap_auth_cram_md5, imap_auth_login>>
imap_authenticate ==
    LET tried == SelectSeq(imap_authenticators, LAMBDA r : r # "UNAVAIL")
    IN  IF tried = <<>> THEN "FAILURE" ELSE Head(tried)
Accepts(k, method) == method = "anonymous" \/ k.pass = "right"
Authenticated ==
    LET k == conn[opening.conn]
        method == imap_authenticate IN
    /\ opening.pc = "authenticate" /\ method # "FAILURE" /\ Accepts(k, method)
    /\ conn' = [conn EXCEPT ![opening.conn].who =
                  IF method = "anonymous" THEN "anonymous" ELSE k.user]
    /\ Proceeds("select", "AUTHENTICATED")
    /\ UNCHANGED connpast
NotAuthenticated ==
    LET method == imap_authenticate IN
    /\ opening.pc = "authenticate"
    /\ method = "FAILURE" \/ ~Accepts(conn[opening.conn], method)
    /\ Bail(TRUE) /\ connpast' = connpast \cup {"refused"}

-----------------------------------------------------------------------------
(* Where a command of the connection's mailbox ends: answered, with the     *)
(* server's BYE, or because the connection failed.                          *)
LeavesSocket(k, left) == [k EXCEPT !.unread = left]
ByeCloses(k, left) == mutt_socket_close(k, left)
(* The BYE closes the mailbox first, with a CLOSE that reads all there is,  *)
(* or cannot be sent.                                                       *)
cmd_handle_untagged(d) ==
    \E left \in 0 .. 1 :
       /\ conn' = [conn EXCEPT ![imapdata[d].conn] =
                     [ByeCloses(@, left) EXCEPT !.data = 0]]
       /\ imapdata' = [imapdata EXCEPT ![d] = [@ EXCEPT !.status = "BYE", !.ctx = {},
                                                          !.state = "DISCONNECTED"]]
cmd_handle_fatal(d, state) ==
    /\ conn' = [conn EXCEPT ![imapdata[d].conn] = mutt_socket_close(@, 0)]
    /\ imapdata' = [imapdata EXCEPT ![d] = [@ EXCEPT !.status = "FATAL", !.state = state]]

The == CHOOSE b \in opening.box : TRUE
imap_open_mailbox ==
    /\ opening.pc = "select"
    /\ imapdata' = [imapdata EXCEPT ![opening.data] =
                      [@ EXCEPT !.state = "SELECTED", !.status = "none", !.ctx = {The}]]
    /\ mailbox' = [mailbox EXCEPT ![The].pc = "open"]
    /\ opening' = Nothing
    /\ UNCHANGED <<Connections, conn, lostfds, connpast>>
OpenFails ==
    /\ opening.pc = "select"
    /\ mailbox' = [mailbox EXCEPT ![The].pc = "over"]
    /\ opening' = Nothing
    /\ \/ /\ imapdata' = [imapdata EXCEPT ![opening.data] =
                            [@ EXCEPT !.state = "AUTHENTICATED", !.status = "none", !.ctx = {}]]
          /\ UNCHANGED <<conn, connpast>>
       \/ cmd_handle_untagged(opening.data) /\ UNCHANGED connpast
       \/ /\ cmd_handle_fatal(opening.data, "AUTHENTICATED")
          /\ connpast' = connpast \cup {"lost in select"}
    /\ UNCHANGED <<Connections, lostfds>>

(* A command of an open mailbox: check_mailbox sends one.                   *)
f_check_mailbox(b) ==
    LET d == mailbox[b].data IN
    /\ opening.pc = "idle" /\ mailbox[b].pc = "open" /\ imapdata[d].status = "none"
    /\ \/ /\ cmd_handle_untagged(d)
          /\ mailbox' = [mailbox EXCEPT ![b].pc = "lost"]
       \/ cmd_handle_fatal(d, "SELECTED") /\ UNCHANGED mailbox
    /\ UNCHANGED <<Connections, opening, lostfds, connpast>>

EverySelected(b) == TRUE
StillUsable(b) == imapdata[mailbox[b].data].status # "FATAL"
imap_close_mailbox(b) ==
    LET d == mailbox[b].data IN
    /\ opening.pc = "idle" /\ mailbox[b].pc = "open" /\ StillUsable(b)
    /\ mailbox' = [mailbox EXCEPT ![b].pc = "over"]
    /\ \/ /\ imapdata[d].status = "none"
          /\ imapdata' = [imapdata EXCEPT ![d].state = "AUTHENTICATED", ![d].ctx = {}]
          /\ UNCHANGED <<conn, connpast>>
       \/ imapdata[d].status = "none" /\ cmd_handle_untagged(d) /\ UNCHANGED connpast
       \/ /\ cmd_handle_fatal(d, "AUTHENTICATED")
          /\ connpast' = connpast \cup (IF imapdata[d].status = "none" THEN {"lost in close"}
                                                                        ELSE {})
    /\ UNCHANGED <<Connections, opening, lostfds>>
mx_fastclose_mailbox(b) ==
    /\ opening.pc = "idle"
    /\ mailbox[b].pc = "lost" \/ (mailbox[b].pc = "open" /\ ~StillUsable(b))
    /\ mailbox' = [mailbox EXCEPT ![b].pc = "over"]
    /\ UNCHANGED <<Connections, conn, imapdata, opening, lostfds, connpast>>

Next ==
    \/ \E b \in Boxes, uri \in Uris : f_create(b, uri)
    \/ Unreachable \/ raw_socket_open \/ Greeting \/ BadGreeting \/ ServerGone
    \/ imap_check_capabilities \/ Ancient \/ Authenticated \/ NotAuthenticated
    \/ imap_open_mailbox \/ OpenFails
    \/ \E b \in Boxes : f_check_mailbox(b) \/ imap_close_mailbox(b) \/ mx_fastclose_mailbox(b)

Spec == Init /\ [][Next]_connvars

-----------------------------------------------------------------------------
Open(b) == mailbox[b].pc = "open"
(* imap.c: every open mailbox has a connection of its own, on which its     *)
(* folder is the one selected.                                              *)
OneBoxPerConnection ==
    /\ \A b \in Boxes : Open(b) => imapdata[mailbox[b].data].ctx = {b}
    /\ \A b, c \in Boxes : Open(b) /\ Open(c) /\ b # c =>
         imapdata[mailbox[b].data].conn # imapdata[mailbox[c].data].conn
(* account.c, imap.c: the connection of an open mailbox is logged in as the *)
(* user the script named, unless the server asks nobody.                    *)
BoxesAreOfTheirUser ==
    \A b \in Boxes : Open(b) =>
       conn[imapdata[mailbox[b].data].conn].who \in {mailbox[b].user, "preauth", "anonymous"}
(* mutt_socket.c, imap.c: a descriptor is lost only when an opening was     *)
(* refused on the way.                                                      *)
SocketsAccounted == lostfds > 0 => "refused" \in connpast
(* imap.c, command.c: an account cannot be opened any more only after its   *)
(* connection was lost while a folder was selected or closed.               *)
StuckOnlyByCommand ==
    (\E c \in DOMAIN conn : conn[c].data # 0 /\ imapdata[conn[c].data].status = "FATAL"
                            /\ imapdata[conn[c].data].state = "AUTHENTICATED") =>
       connpast \cap {"lost in select", "lost in close"} # {}
(* command.c, "needed to be able to reuse this connection later": what a    *)
(* connection reads after it was opened again comes from its new server.    *)
ReusedStartFresh == "old line" \notin connpast
=============================================================================
