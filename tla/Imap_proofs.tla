----------------------------- MODULE Imap_proofs -----------------------------
(***************************************************************************)
(* Proofs about the IMAP client: its connections, and a mailbox on a       *)
(* server that others use too.  Both are instances of their modules, for   *)
(* any values of the constants; MCMailboxes, which puts the parts of       *)
(* libmutt side by side, extends this module.                              *)
(***************************************************************************)
EXTENDS Integers, Sequences, FiniteSetTheorems, WellFoundedInduction, NaturalsInduction, TLAPS

CONSTANTS
    Boxes, Uris, MaxConns,
    MaxUid, MaxBoxEdits, MaxOthers, MaxBoxes

VARIABLES
    Connections, conn, imapdata, mailbox, opening, lostfds, connpast,
    folder, flags, nextuid, others, told, session, idata, box, misdone

Conns == INSTANCE ImapConnection
Imap == INSTANCE ImapSession

-----------------------------------------------------------------------------
(* The connections: any number of mailboxes, addresses and connections,     *)
(* whenever the server or the network ends one of them.                     *)

(* What the records of the client hold. *)
Names == {uri.user : uri \in Uris} \cup {"none"}
Passes == {uri.pass : uri \in Uris} \cup {"none"}
Users == Names \cup {"nobody", "preauth", "anonymous"}
States == {"DISCONNECTED", "CONNECTED", "AUTHENTICATED", "SELECTED"}
Statuses == {"none", "BYE", "FATAL"}
BoxPcs == {"none", "opening", "open", "lost", "over"}
Logins == {"connect", "greeting", "capabilities", "authenticate"}
OpenPcs == Logins \cup {"idle", "select"}
Bits == 0 .. 1
BoxSets == SUBSET Boxes
CapSets == SUBSET Conns!Capabilities

Connection == [user : Names, pass : Passes, fd : BOOLEAN, unread : Bits, data : Nat, who : Users]
Data == [conn : Nat, state : States, status : Statuses, ctx : BoxSets]
Box == [pc : BoxPcs, user : Names, data : Nat]
Opening == [pc : OpenPcs, box : BoxSets, conn : Nat, data : Nat, caps : CapSets]

(* A connection and its data know each other, and without data it is       *)
(* closed.  A connection nobody is logging in on is logged in.             *)
Linked(c) ==
    /\ conn[c].data # 0 => /\ conn[c].data \in 1 .. Len(imapdata)
                           /\ imapdata[conn[c].data].conn = c
    /\ conn[c].data = 0 => ~conn[c].fd
LoggedIn(c) ==
    conn[c].data # 0 /\ ~(opening.pc \in Logins /\ opening.conn = c) =>
       conn[c].who \in {conn[c].user, "preauth", "anonymous"}

(* A connection that failed outside a selected folder was lost in one of   *)
(* two commands.                                                           *)
Explained(d) ==
    imapdata[d].status = "FATAL" /\ imapdata[d].state # "SELECTED" =>
       connpast \cap {"lost in select", "lost in close"} # {}

(* An open mailbox is the one its data and its connection are for.         *)
Served(b) ==
    mailbox[b].pc = "open" =>
       /\ mailbox[b].data \in 1 .. Len(imapdata)
       /\ imapdata[mailbox[b].data].state = "SELECTED"
       /\ imapdata[mailbox[b].data].ctx = {b}
       /\ imapdata[mailbox[b].data].status # "BYE"
       /\ imapdata[mailbox[b].data].conn \in 1 .. Len(conn)
       /\ conn[imapdata[mailbox[b].data].conn].data = mailbox[b].data
       /\ conn[imapdata[mailbox[b].data].conn].user = mailbox[b].user

(* The mailbox being opened has a connection for its user, on which no     *)
(* folder is selected.                                                     *)
OpeningFor(b) ==
    /\ opening.box = {b}
    /\ mailbox[b].pc = "opening" /\ mailbox[b].user = conn[opening.conn].user
Underway ==
    opening.pc # "idle" =>
       /\ opening.conn \in 1 .. Len(conn) /\ opening.data \in 1 .. Len(imapdata)
       /\ conn[opening.conn].data = opening.data
       /\ imapdata[opening.data].state # "SELECTED"
       /\ imapdata[opening.data].status # "FATAL"
       /\ opening.pc = "connect" => ~conn[opening.conn].fd
       /\ \E b \in Boxes : OpeningFor(b) /\ mailbox[b].data = opening.data

ConnTyped ==
    /\ conn \in Seq(Connection) /\ imapdata \in Seq(Data)
    /\ mailbox \in [Boxes -> Box] /\ opening \in Opening
    /\ Connections \subseteq 1 .. Len(conn) /\ lostfds \in Nat

ConnInv ==
    /\ ConnTyped
    /\ \A c \in 1 .. Len(conn) : Linked(c) /\ LoggedIn(c)
    /\ \A d \in 1 .. Len(imapdata) : Explained(d)
    /\ \A b \in Boxes : Served(b)
    /\ Underway
    /\ Conns!SocketsAccounted

-----------------------------------------------------------------------------
(* A set of connections that is not empty has a newest one.                *)
LEMMA NewestFirst ==
    ASSUME NEW n \in Nat, NEW cs, cs \subseteq 1 .. n, cs # {}
    PROVE  Conns!First(cs) \in cs
<1> DEFINE ages == {n - c : c \in cs}
<1>1. ages \subseteq Nat /\ ages # {}
  <2>1. \A c \in cs : n - c \in Nat
    OBVIOUS
  <2> QED BY <2>1
<1>2. \E x \in ages : \A y \in ages : ~(<<y, x>> \in OpToRel(<, Nat))
  BY <1>1, WFMin, NatLessThanWellFounded
<1>3. PICK x \in ages : \A y \in ages : ~(<<y, x>> \in OpToRel(<, Nat))
  BY <1>2
<1>4. \A y \in ages : ~(y < x)
  BY <1>1, <1>3 DEF OpToRel
<1>5. PICK c \in cs : x = n - c
  OBVIOUS
<1>6. ASSUME NEW d \in cs PROVE d <= c
  <2>1. ~(n - d < n - c)
    BY <1>4, <1>5
  <2>2. d \in 1 .. n /\ c \in 1 .. n
    OBVIOUS
  <2> HIDE DEF ages
  <2> QED BY <2>1, <2>2
<1> HIDE DEF ages
<1> QED BY <1>6 DEF Conns!First

(* How a step leaves one connection, the data of one, or one mailbox.       *)
ConnAt(c, k) == conn' = [conn EXCEPT ![c] = k]
DataAt(d, r) == imapdata' = [imapdata EXCEPT ![d] = r]
BoxAt(b, m) == mailbox' = [mailbox EXCEPT ![b] = m]

(* One connection, or one item of data, is changed.                        *)
LEMMA Changed ==
    ASSUME NEW S, NEW s \in Seq(S), NEW i \in 1 .. Len(s), NEW x \in S,
           NEW t, t = [s EXCEPT ![i] = x]
    PROVE  /\ t \in Seq(S) /\ Len(t) = Len(s)
           /\ t[i] = x /\ \A j \in 1 .. Len(s) : j # i => t[j] = s[j]
  OBVIOUS

LEMMA Added ==
    ASSUME NEW S, NEW s \in Seq(S), NEW x \in S, NEW t, t = Append(s, x)
    PROVE  /\ t \in Seq(S) /\ Len(t) = Len(s) + 1
           /\ t[Len(s) + 1] = x /\ \A j \in 1 .. Len(s) : t[j] = s[j]
  OBVIOUS

LEMMA AtBox ==
    ASSUME NEW b \in Boxes, NEW f \in [Boxes -> Box], NEW x \in Box,
           NEW g, g = [f EXCEPT ![b] = x]
    PROVE  g \in [Boxes -> Box] /\ g[b] = x /\ \A y \in Boxes : y # b => g[y] = f[y]
  OBVIOUS

(* What goes on while a mailbox is being opened does not concern the open  *)
(* ones.                                                                   *)
LEMMA Opener ==
    ASSUME ConnInv, opening.pc # "idle"
    PROVE  /\ opening.conn \in 1 .. Len(conn) /\ conn[opening.conn] \in Connection
           /\ opening.data \in 1 .. Len(imapdata) /\ imapdata[opening.data] \in Data
           /\ conn[opening.conn].data = opening.data
           /\ imapdata[opening.data].conn = opening.conn
           /\ Conns!The \in Boxes /\ OpeningFor(Conns!The) /\ mailbox[Conns!The].data = opening.data
           /\ \A b \in Boxes : mailbox[b].pc = "open" =>
                 /\ b # Conns!The /\ mailbox[b].data # opening.data
                 /\ imapdata[mailbox[b].data].conn # opening.conn
<1>1. PICK b \in Boxes : OpeningFor(b) /\ mailbox[b].data = opening.data
  BY DEF ConnInv, Underway
<1>2. Conns!The = b
  BY <1>1 DEF Conns!The, OpeningFor
<1>3. /\ opening.conn \in 1 .. Len(conn) /\ conn[opening.conn].data = opening.data
      /\ opening.data \in 1 .. Len(imapdata) /\ imapdata[opening.data].state # "SELECTED"
  BY DEF ConnInv, Underway
<1>4. conn[opening.conn] \in Connection /\ imapdata[opening.data] \in Data
  BY <1>3 DEF ConnInv, ConnTyped
<1>5. imapdata[opening.data].conn = opening.conn
  BY <1>3 DEF ConnInv, Linked
<1>6. ASSUME NEW x \in Boxes, mailbox[x].pc = "open"
      PROVE  /\ x # b /\ mailbox[x].data # opening.data
             /\ imapdata[mailbox[x].data].conn # opening.conn
  BY <1>1, <1>3, <1>6 DEF ConnInv, Served, OpeningFor
<1> QED BY <1>1, <1>2, <1>3, <1>4, <1>5, <1>6

(* Nor do two open ones concern each other.                                *)
LEMMA BoxesApart ==
    ASSUME ConnInv, NEW b \in Boxes, NEW x \in Boxes, b # x,
           mailbox[b].pc = "open", mailbox[x].pc = "open"
    PROVE  /\ mailbox[b].data # mailbox[x].data
           /\ imapdata[mailbox[b].data].conn # imapdata[mailbox[x].data].conn
<1>1. Served(b) /\ Served(x)
  BY DEF ConnInv
<1>2. imapdata[mailbox[b].data].ctx = {b} /\ imapdata[mailbox[x].data].ctx = {x}
  BY <1>1 DEF Served
<1>3. mailbox[b].data # mailbox[x].data
  BY <1>2
<1>4. /\ conn[imapdata[mailbox[b].data].conn].data = mailbox[b].data
      /\ conn[imapdata[mailbox[x].data].conn].data = mailbox[x].data
  BY <1>1 DEF Served
<1> QED BY <1>3, <1>4

(* The first state satisfies the invariant.                                *)
LEMMA ConnInit == Conns!Init => ConnInv
<1> SUFFICES ASSUME Conns!Init PROVE ConnInv
  OBVIOUS
<1>1. /\ conn = <<>> /\ imapdata = <<>> /\ Connections = {} /\ lostfds = 0
      /\ mailbox = [b \in Boxes |-> [pc |-> "none", user |-> "none", data |-> 0]]
      /\ opening = [pc |-> "idle", box |-> {}, conn |-> 0, data |-> 0, caps |-> {}]
  BY DEF Conns!Init, Conns!Nothing
<1>2. [pc |-> "none", user |-> "none", data |-> 0] \in Box
  BY DEF Box, BoxPcs, Names
<1>3. [pc |-> "idle", box |-> {}, conn |-> 0, data |-> 0, caps |-> {}] \in Opening
  BY DEF Opening, OpenPcs, BoxSets, CapSets
<1>4. ConnTyped
  BY <1>1, <1>2, <1>3 DEF ConnTyped
<1>5. Len(conn) = 0 /\ Len(imapdata) = 0
  BY <1>1
<1> QED BY <1>1, <1>4, <1>5 DEF ConnInv, Served, Underway, Conns!SocketsAccounted

(* An opening that fails lets go of its connection and its data.           *)
LEMMA BailKeeps ==
    ASSUME ConnInv, opening.pc \in Logins, NEW fd \in BOOLEAN, Conns!Bail(fd),
           connpast \subseteq connpast', fd => "refused" \in connpast'
    PROVE  ConnInv'
<1> DEFINE c == opening.conn
           d == opening.data
           k == [conn[c] EXCEPT !.fd = FALSE, !.data = 0]
           r == [Conns!imap_new_idata EXCEPT !.conn = 0]
           m == [mailbox[Conns!The] EXCEPT !.pc = "over"]
<1>1. opening.pc # "idle"
  BY DEF Logins
<1>2. /\ c \in 1 .. Len(conn) /\ conn[c] \in Connection
      /\ d \in 1 .. Len(imapdata) /\ conn[c].data = d /\ imapdata[d].conn = c
      /\ Conns!The \in Boxes
  BY <1>1, Opener
<1>3. \A b \in Boxes : mailbox[b].pc = "open" =>
         b # Conns!The /\ mailbox[b].data # d /\ imapdata[mailbox[b].data].conn # c
  BY <1>1, Opener
<1>4. /\ k \in Connection /\ k.data = 0 /\ ~k.fd /\ k.user = conn[c].user
  BY <1>2 DEF Connection
<1>5. r \in Data /\ r.status = "none"
  BY DEF Data, Conns!imap_new_idata, States, Statuses, BoxSets
<1>6. m \in Box /\ m.pc = "over"
  BY <1>2 DEF Box, BoxPcs, ConnInv, ConnTyped
<1>7. /\ conn' = [conn EXCEPT ![c] = k] /\ imapdata' = [imapdata EXCEPT ![d] = r]
      /\ mailbox' = [mailbox EXCEPT ![Conns!The] = m] /\ opening' = Conns!Nothing
      /\ Connections' = Connections \ {c}
      /\ lostfds' = lostfds + (IF fd THEN 1 ELSE 0)
  BY DEF Conns!Bail, Conns!mutt_socket_free, Conns!The
<1> HIDE DEF c, d, k, r, m
<1>8. ConnTyped
  BY DEF ConnInv
<1>9. /\ conn' \in Seq(Connection) /\ Len(conn') = Len(conn) /\ conn'[c] = k
      /\ \A x \in 1 .. Len(conn) : x # c => conn'[x] = conn[x]
  BY <1>2, <1>4, <1>7, <1>8, Changed DEF ConnTyped
<1>10. /\ imapdata' \in Seq(Data) /\ Len(imapdata') = Len(imapdata) /\ imapdata'[d] = r
       /\ \A x \in 1 .. Len(imapdata) : x # d => imapdata'[x] = imapdata[x]
  BY <1>2, <1>5, <1>7, <1>8, Changed DEF ConnTyped
<1>11. /\ mailbox' \in [Boxes -> Box] /\ mailbox'[Conns!The] = m
       /\ \A x \in Boxes : x # Conns!The => mailbox'[x] = mailbox[x]
  BY <1>2, <1>6, <1>7, <1>8, AtBox DEF ConnTyped
<1>12. opening' \in Opening /\ opening'.pc = "idle"
  BY <1>7 DEF Conns!Nothing, Opening, OpenPcs, BoxSets, CapSets
<1>13. ConnTyped'
  <2>1. lostfds' \in Nat
    BY <1>7, <1>8 DEF ConnTyped
  <2>2. Connections' \subseteq 1 .. Len(conn')
    BY <1>7, <1>8, <1>9 DEF ConnTyped
  <2> QED BY <1>9, <1>10, <1>11, <1>12, <2>1, <2>2 DEF ConnTyped
<1>14. ASSUME NEW x \in 1 .. Len(conn') PROVE Linked(x)' /\ LoggedIn(x)'
  <2>1. Linked(x) /\ (x # c => LoggedIn(x))
    BY <1>9 DEF ConnInv
  <2>2. CASE x = c
    BY <1>4, <1>9, <2>2 DEF Linked, LoggedIn
  <2>3. CASE x # c
    <3>1. conn'[x] = conn[x]
      BY <1>9, <2>3
    <3>2. conn[x].data # d
      BY <1>2, <2>1, <2>3 DEF Linked
    <3>3. Linked(x)'
      BY <1>10, <2>1, <3>1, <3>2 DEF Linked
    <3> QED BY <2>1, <2>3, <3>1, <3>3 DEF LoggedIn, c
  <2> QED BY <2>2, <2>3
<1>15. ASSUME NEW x \in 1 .. Len(imapdata') PROVE Explained(x)'
  <2>1. Explained(x)
    BY <1>10 DEF ConnInv
  <2> QED BY <1>5, <1>10, <2>1 DEF Explained
<1>16. ASSUME NEW b \in Boxes PROVE Served(b)'
  <2>1. Served(b)
    BY DEF ConnInv
  <2> SUFFICES ASSUME mailbox'[b].pc = "open" PROVE Served(b)'
    BY DEF Served
  <2>2. b # Conns!The /\ mailbox'[b] = mailbox[b]
    BY <1>6, <1>11
  <2>3. mailbox[b].data # d /\ imapdata[mailbox[b].data].conn # c
    BY <1>3, <2>2
  <2> QED BY <1>9, <1>10, <2>1, <2>2, <2>3 DEF Served
<1>17. Underway'
  BY <1>12 DEF Underway
<1>18. Conns!SocketsAccounted'
  <2>1. CASE fd
    BY <2>1 DEF Conns!SocketsAccounted
  <2>2. CASE ~fd
    BY <1>7, <1>8, <2>2 DEF Conns!SocketsAccounted, ConnInv, ConnTyped
  <2> QED BY <2>1, <2>2
<1> QED BY <1>13, <1>14, <1>15, <1>16, <1>17, <1>18 DEF ConnInv

(* An opening that goes on.                                                *)
LEMMA Advance ==
    ASSUME ConnInv, opening.pc # "idle",
           NEW k \in Connection, NEW r \in Data,
           ConnAt(opening.conn, k), DataAt(opening.data, r),
           k.data = opening.data, k.user = conn[opening.conn].user,
           r.conn = opening.conn, r.state # "SELECTED", r.status # "FATAL",
           UNCHANGED <<Connections, mailbox>>,
           opening' \in Opening, opening'.pc \notin {"idle", "connect"},
           opening'.box = opening.box, opening'.conn = opening.conn,
           opening'.data = opening.data,
           opening'.pc \notin Logins => k.who \in {k.user, "preauth", "anonymous"},
           lostfds' = lostfds, connpast \subseteq connpast'
    PROVE  ConnInv'
<1> DEFINE c == opening.conn
           d == opening.data
<1>2. /\ c \in 1 .. Len(conn) /\ conn[c] \in Connection
      /\ d \in 1 .. Len(imapdata) /\ conn[c].data = d /\ imapdata[d].conn = c
      /\ Conns!The \in Boxes /\ OpeningFor(Conns!The) /\ mailbox[Conns!The].data = d
  BY Opener
<1>3. \A b \in Boxes : mailbox[b].pc = "open" =>
         mailbox[b].data # d /\ imapdata[mailbox[b].data].conn # c
  BY Opener
<1>7. /\ ConnAt(c, k) /\ DataAt(d, r)
      /\ k.data = d /\ k.user = conn[c].user /\ r.conn = c
      /\ opening'.conn = c /\ opening'.data = d
  OBVIOUS
<1> HIDE DEF c, d
<1>8. ConnTyped
  BY DEF ConnInv
<1>9. /\ conn' \in Seq(Connection) /\ Len(conn') = Len(conn) /\ conn'[c] = k
      /\ \A x \in 1 .. Len(conn) : x # c => conn'[x] = conn[x]
  BY <1>2, <1>7, <1>8, Changed DEF ConnTyped, ConnAt
<1>10. /\ imapdata' \in Seq(Data) /\ Len(imapdata') = Len(imapdata) /\ imapdata'[d] = r
       /\ \A x \in 1 .. Len(imapdata) : x # d => imapdata'[x] = imapdata[x]
  BY <1>2, <1>7, <1>8, Changed DEF ConnTyped, DataAt
<1>12. 0 \notin 1 .. Len(imapdata)
  OBVIOUS
<1>13. ConnTyped'
  BY <1>8, <1>9, <1>10 DEF ConnTyped
<1>14. ASSUME NEW x \in 1 .. Len(conn') PROVE Linked(x)' /\ LoggedIn(x)'
  <2>1. Linked(x) /\ (x # c => LoggedIn(x))
    BY <1>9 DEF ConnInv
  <2>2. CASE x = c
    <3>1. Linked(x)'
      BY <1>2, <1>7, <1>9, <1>10, <2>2, <1>12 DEF Linked
    <3> QED BY <1>7, <1>9, <2>2, <3>1 DEF LoggedIn
  <2>3. CASE x # c
    <3>1. conn'[x] = conn[x]
      BY <1>9, <2>3
    <3>2. conn[x].data # d
      BY <1>2, <2>1, <2>3, <1>12 DEF Linked
    <3>3. Linked(x)'
      BY <1>10, <2>1, <3>1, <3>2 DEF Linked
    <3> QED BY <2>1, <2>3, <3>1, <3>3 DEF LoggedIn, c
  <2> QED BY <2>2, <2>3
<1>15. ASSUME NEW x \in 1 .. Len(imapdata') PROVE Explained(x)'
  <2>1. Explained(x)
    BY <1>10 DEF ConnInv
  <2> QED BY <1>10, <2>1 DEF Explained
<1>16. ASSUME NEW b \in Boxes PROVE Served(b)'
  <2>1. Served(b)
    BY DEF ConnInv
  <2> SUFFICES ASSUME mailbox[b].pc = "open" PROVE Served(b)'
    BY DEF Served
  <2>3. mailbox[b].data # d /\ imapdata[mailbox[b].data].conn # c
    BY <1>3
  <2> QED BY <1>9, <1>10, <2>1, <2>3 DEF Served
<1>17. Underway'
  <2>1. PICK b \in Boxes : b = Conns!The
    BY <1>2
  <2>2. OpeningFor(b)'
    BY <1>2, <1>7, <1>9, <2>1 DEF OpeningFor
  <2> QED BY <1>2, <1>7, <1>9, <1>10, <2>1, <2>2 DEF Underway
<1>18. Conns!SocketsAccounted'
  BY DEF Conns!SocketsAccounted, ConnInv
<1> QED BY <1>13, <1>14, <1>15, <1>16, <1>17, <1>18 DEF ConnInv

(* A command of mailbox b on its connection: what may be left of the       *)
(* connection c, of its data d and of the mailbox.                         *)
Outcome(b, c, d, k, r, m) ==
    /\ k \in Connection /\ r \in Data /\ m \in Box
    /\ k.data \in {0, d} /\ (k.data = 0 => ~k.fd)
    /\ k.user = conn[c].user /\ k.who = conn[c].who
    /\ r.conn = c
    /\ r.status = "FATAL" /\ r.state # "SELECTED" =>
          connpast' \cap {"lost in select", "lost in close"} # {}
    /\ m.pc = "open" =>
          /\ r.state = "SELECTED" /\ r.ctx = {b} /\ r.status # "BYE"
          /\ k.data = d /\ m.data = d /\ m.user = k.user

(* c and d belong to b and to no other mailbox that is open.               *)
Owns(b, c, d) ==
    /\ c \in 1 .. Len(conn) /\ d \in 1 .. Len(imapdata)
    /\ conn[c].data = d /\ imapdata[d].conn = c
    /\ \A x \in Boxes : mailbox[x].pc = "open" /\ x # b =>
          mailbox[x].data # d /\ imapdata[mailbox[x].data].conn # c

LEMMA CommandKeeps ==
    ASSUME ConnInv, opening.pc \notin Logins,
           NEW b \in Boxes, NEW c, NEW d, Owns(b, c, d),
           NEW k, NEW r, NEW m, Outcome(b, c, d, k, r, m),
           ConnAt(c, k), DataAt(d, r), BoxAt(b, m), UNCHANGED Connections,
           opening' \in Opening, opening'.pc = "idle",
           lostfds' = lostfds, connpast \subseteq connpast'
    PROVE  ConnInv'
<1>1. /\ c \in 1 .. Len(conn) /\ d \in 1 .. Len(imapdata)
      /\ conn[c].data = d /\ imapdata[d].conn = c
  BY DEF Owns
<1>2. k \in Connection /\ r \in Data /\ m \in Box
  BY DEF Outcome
<1>3. ConnTyped
  BY DEF ConnInv
<1>4. /\ conn' \in Seq(Connection) /\ Len(conn') = Len(conn) /\ conn'[c] = k
      /\ \A x \in 1 .. Len(conn) : x # c => conn'[x] = conn[x]
  BY <1>1, <1>2, <1>3, Changed DEF ConnTyped, ConnAt
<1>5. /\ imapdata' \in Seq(Data) /\ Len(imapdata') = Len(imapdata) /\ imapdata'[d] = r
      /\ \A x \in 1 .. Len(imapdata) : x # d => imapdata'[x] = imapdata[x]
  BY <1>1, <1>2, <1>3, Changed DEF ConnTyped, DataAt
<1>6. /\ mailbox' \in [Boxes -> Box] /\ mailbox'[b] = m
      /\ \A x \in Boxes : x # b => mailbox'[x] = mailbox[x]
  BY <1>2, <1>3, AtBox DEF ConnTyped, BoxAt
<1>7. 0 \notin 1 .. Len(imapdata)
  BY <1>3 DEF ConnTyped
<1>8. ConnTyped'
  BY <1>3, <1>4, <1>5, <1>6 DEF ConnTyped
<1>9. ASSUME NEW x \in 1 .. Len(conn') PROVE Linked(x)' /\ LoggedIn(x)'
  <2>1. Linked(x) /\ LoggedIn(x)
    BY <1>4 DEF ConnInv
  <2>2. CASE x = c
    <3>1. /\ k.data \in {0, d} /\ (k.data = 0 => ~k.fd) /\ r.conn = c
          /\ k.user = conn[c].user /\ k.who = conn[c].who
      BY DEF Outcome
    <3>2. Linked(x)'
      BY <1>1, <1>4, <1>5, <2>2, <3>1 DEF Linked
    <3> QED BY <1>1, <1>4, <1>7, <2>1, <2>2, <3>1, <3>2 DEF LoggedIn
  <2>3. CASE x # c
    <3>1. conn'[x] = conn[x]
      BY <1>4, <2>3
    <3>2. conn[x].data # d
      BY <1>1, <1>7, <2>1, <2>3 DEF Linked
    <3>3. Linked(x)'
      BY <1>5, <2>1, <3>1, <3>2 DEF Linked
    <3> QED BY <2>1, <2>3, <3>1, <3>3 DEF LoggedIn
  <2> QED BY <2>2, <2>3
<1>10. ASSUME NEW x \in 1 .. Len(imapdata') PROVE Explained(x)'
  <2>1. Explained(x)
    BY <1>5 DEF ConnInv
  <2>2. r.status = "FATAL" /\ r.state # "SELECTED" =>
           connpast' \cap {"lost in select", "lost in close"} # {}
    BY DEF Outcome
  <2> QED BY <1>5, <2>1, <2>2 DEF Explained
<1>11. ASSUME NEW x \in Boxes PROVE Served(x)'
  <2>1. Served(x)
    BY DEF ConnInv
  <2>2. CASE x = b
    <3>1. m.pc = "open" =>
             /\ r.state = "SELECTED" /\ r.ctx = {b} /\ r.status # "BYE"
             /\ k.data = d /\ m.data = d /\ m.user = k.user /\ r.conn = c
      BY DEF Outcome
    <3> QED BY <1>1, <1>4, <1>5, <1>6, <2>2, <3>1 DEF Served
  <2>3. CASE x # b
    <3> SUFFICES ASSUME mailbox'[x].pc = "open" PROVE Served(x)'
      BY DEF Served
    <3>1. mailbox'[x] = mailbox[x]
      BY <1>6, <2>3
    <3>2. mailbox[x].data # d /\ imapdata[mailbox[x].data].conn # c
      BY <2>3, <3>1 DEF Owns
    <3> QED BY <1>4, <1>5, <2>1, <3>1, <3>2 DEF Served
  <2> QED BY <2>2, <2>3
<1>12. Underway'
  BY DEF Underway
<1>13. Conns!SocketsAccounted'
  BY DEF Conns!SocketsAccounted, ConnInv
<1> QED BY <1>8, <1>9, <1>10, <1>11, <1>12, <1>13 DEF ConnInv

-----------------------------------------------------------------------------
(* What is found for an account is a connection of its user, on which no   *)
(* folder is selected, or a new one; its user is the account's.            *)
LEMMA Found ==
    ASSUME ConnInv, NEW a, a.user \in Names, a.pass \in Passes,
           NEW c, c = Conns!mutt_conn_find(a)
    PROVE  /\ \/ c = Len(conn) + 1
              \/ c \in 1 .. Len(conn) /\ conn[c].user = a.user /\ Conns!NotSelected(c)
           /\ Conns!Creds(a).user = a.user /\ Conns!Creds(a).pass \in Passes
<1>1. Connections \subseteq 1 .. Len(conn) /\ Len(conn) \in Nat /\ conn \in Seq(Connection)
  BY DEF ConnInv, ConnTyped
<1>2. /\ Conns!Matching(a) \subseteq 1 .. Len(conn)
      /\ \A x \in Conns!Matching(a) : conn[x].user = a.user /\ conn[x].pass \in Passes
  <2>1. \A x \in 1 .. Len(conn) : conn[x] \in Connection
    BY <1>1
  <2>2. \A x \in 1 .. Len(conn) : conn[x].pass \in Passes
    BY <2>1 DEF Connection
  <2> QED BY <1>1, <2>2 DEF Conns!Matching, Conns!mutt_account_match
<1> DEFINE free == {x \in Conns!Matching(a) : Conns!NotSelected(x)}
<1>3. c = IF free = {} THEN Len(conn) + 1 ELSE Conns!First(free)
  BY DEF Conns!mutt_conn_find
<1>4. free # {} => Conns!First(free) \in free
  BY <1>1, <1>2, NewestFirst
<1>5. Conns!Matching(a) # {} => Conns!First(Conns!Matching(a)) \in Conns!Matching(a)
  BY <1>1, <1>2, NewestFirst
<1>6. \/ c = Len(conn) + 1
      \/ c \in 1 .. Len(conn) /\ conn[c].user = a.user /\ Conns!NotSelected(c)
  <2>1. CASE free = {}
    BY <1>3, <2>1
  <2>2. CASE free # {}
    <3>1. c \in free
      BY <1>3, <1>4, <2>2
    <3> QED BY <1>2, <3>1
  <2> QED BY <2>1, <2>2
<1>7. Conns!Creds(a).user = a.user /\ Conns!Creds(a).pass \in Passes
  BY <1>2, <1>5 DEF Conns!Creds
<1> QED BY <1>6, <1>7

(* An open mailbox has none of the connections that may be found.          *)
LEMMA NotFound ==
    ASSUME ConnInv, NEW c \in 1 .. Len(conn), Conns!NotSelected(c),
           NEW b \in Boxes, mailbox[b].pc = "open"
    PROVE  /\ imapdata[mailbox[b].data].conn # c
           /\ conn[c].data # mailbox[b].data
<1>1. /\ Served(b) /\ Linked(c) /\ mailbox[b].data # 0
  BY DEF ConnInv, Served, ConnTyped
<1>2. /\ imapdata[mailbox[b].data].state = "SELECTED"
      /\ conn[imapdata[mailbox[b].data].conn].data = mailbox[b].data
  BY <1>1 DEF Served
<1>3. conn[c].data # mailbox[b].data
  BY <1>1, <1>2 DEF Conns!NotSelected
<1> QED BY <1>2, <1>3

(* The account found for a mailbox: b is opened on connection c with data  *)
(* d, one or both of which may be new.                                     *)
Starts(b, c, d, known) ==
    /\ opening.pc = "idle" /\ mailbox[b].pc = "none"
    /\ c \in 1 .. Len(conn') /\ d \in 1 .. Len(imapdata')
    /\ 1 .. Len(conn') = 1 .. Len(conn) \cup {c}
    /\ 1 .. Len(imapdata') = 1 .. Len(imapdata) \cup {d}
    /\ conn' \in Seq(Connection) /\ imapdata' \in Seq(Data)
    /\ conn'[c] = known /\ known.data = d
    /\ \A x \in 1 .. Len(conn) : x # c => conn'[x] = conn[x]
    /\ \A y \in 1 .. Len(imapdata) : imapdata'[y] = imapdata[y]
    /\ c \in 1 .. Len(conn) => Conns!NotSelected(c)
    /\ imapdata'[d].conn = c
    /\ imapdata'[d].state # "SELECTED" /\ imapdata'[d].status # "FATAL"
    /\ opening' \in Opening /\ opening'.pc \in {"connect", "select"}
    /\ opening'.box = {b} /\ opening'.conn = c /\ opening'.data = d
    /\ opening'.pc = "connect" => ~known.fd
    /\ opening'.pc = "select" => known.who \in {known.user, "preauth", "anonymous"}
    /\ mailbox' \in [Boxes -> Box]
    /\ mailbox'[b].pc = "opening" /\ mailbox'[b].data = d /\ mailbox'[b].user = known.user
    /\ \A x \in Boxes : x # b => mailbox'[x] = mailbox[x]
    /\ Connections' = Connections \cup {c}
    /\ lostfds' = lostfds /\ connpast' = connpast

LEMMA StartKeeps ==
    ASSUME ConnInv, NEW b \in Boxes, NEW c, NEW d, NEW known, Starts(b, c, d, known)
    PROVE  ConnInv'
<1>1. ConnTyped
  BY DEF ConnInv
<1>2. ConnTyped'
  BY <1>1 DEF ConnTyped, Starts
<1>3. /\ c \in 1 .. Len(conn') /\ d \in 1 .. Len(imapdata')
      /\ 1 .. Len(conn') = 1 .. Len(conn) \cup {c}
      /\ 1 .. Len(imapdata') = 1 .. Len(imapdata) \cup {d}
      /\ conn'[c] = known /\ known.data = d /\ imapdata'[d].conn = c
      /\ \A x \in 1 .. Len(conn) : x # c => conn'[x] = conn[x]
      /\ \A y \in 1 .. Len(imapdata) : imapdata'[y] = imapdata[y]
      /\ opening'.conn = c /\ opening.pc = "idle"
      /\ connpast' = connpast
  BY DEF Starts
<1>4. ASSUME NEW x \in 1 .. Len(conn') PROVE Linked(x)' /\ LoggedIn(x)'
  <2>1. CASE x = c
    <3>1. d # 0
      BY <1>2, <1>3 DEF ConnTyped
    <3>2. /\ opening'.pc \in {"connect", "select"}
          /\ opening'.pc = "select" => known.who \in {known.user, "preauth", "anonymous"}
      BY DEF Starts
    <3> QED BY <1>3, <2>1, <3>1, <3>2 DEF Linked, LoggedIn, Logins
  <2>2. CASE x # c
    <3>1. x \in 1 .. Len(conn) /\ conn'[x] = conn[x]
      BY <1>3, <2>2
    <3>2. Linked(x) /\ LoggedIn(x)
      BY <3>1 DEF ConnInv
    <3>3. Linked(x)'
      BY <1>3, <3>1, <3>2 DEF Linked
    <3> QED BY <1>3, <2>2, <3>1, <3>2, <3>3 DEF LoggedIn, Logins
  <2> QED BY <2>1, <2>2
<1>5. ASSUME NEW x \in 1 .. Len(imapdata') PROVE Explained(x)'
  <2>1. CASE x \in 1 .. Len(imapdata)
    <3>1. Explained(x)
      BY <2>1 DEF ConnInv
    <3> QED BY <1>3, <2>1, <3>1 DEF Explained
  <2>2. CASE x = d
    BY <2>2 DEF Explained, Starts
  <2> QED BY <1>3, <2>1, <2>2
<1>6. ASSUME NEW x \in Boxes PROVE Served(x)'
  <2> SUFFICES ASSUME mailbox'[x].pc = "open" PROVE Served(x)'
    BY DEF Served
  <2>1. mailbox'[x] = mailbox[x]
    <3>1. mailbox'[b].pc = "opening"
      BY DEF Starts
    <3> QED BY <3>1 DEF Starts
  <2>2. Served(x)
    BY DEF ConnInv
  <2>3. imapdata[mailbox[x].data].conn # c
    <3>1. imapdata[mailbox[x].data].conn \in 1 .. Len(conn)
      BY <2>1, <2>2 DEF Served
    <3>2. c \in 1 .. Len(conn) => Conns!NotSelected(c)
      BY DEF Starts
    <3> QED BY <2>1, <3>1, <3>2, NotFound
  <2> QED BY <1>3, <2>1, <2>2, <2>3 DEF Served
<1>7. Underway'
  <2>1. OpeningFor(b)' /\ mailbox'[b].data = d
    BY DEF OpeningFor, Starts
  <2> QED BY <2>1 DEF Underway, Starts
<1>8. Conns!SocketsAccounted'
  BY DEF Conns!SocketsAccounted, ConnInv, Starts
<1> QED BY <1>2, <1>4, <1>5, <1>6, <1>7, <1>8 DEF ConnInv

(* A mailbox that is not open, or is forgotten, ends.                      *)
LEMMA BoxEnds ==
    ASSUME ConnInv, NEW b \in Boxes, NEW m \in Box, m.pc \notin {"open", "opening"},
           opening.pc = "idle", BoxAt(b, m),
           UNCHANGED <<Connections, conn, imapdata, opening, lostfds, connpast>>
    PROVE  ConnInv'
<1>1. ConnTyped
  BY DEF ConnInv
<1>2. /\ mailbox' \in [Boxes -> Box] /\ mailbox'[b] = m
      /\ \A x \in Boxes : x # b => mailbox'[x] = mailbox[x]
  BY <1>1, AtBox DEF ConnTyped, BoxAt
<1>3. ConnTyped'
  BY <1>1, <1>2 DEF ConnTyped
<1>4. \A c \in 1 .. Len(conn') : Linked(c)' /\ LoggedIn(c)'
  BY DEF ConnInv, Linked, LoggedIn
<1>5. \A d \in 1 .. Len(imapdata') : Explained(d)'
  BY DEF ConnInv, Explained
<1>6. ASSUME NEW x \in Boxes PROVE Served(x)'
  <2>1. Served(x)
    BY DEF ConnInv
  <2> QED BY <1>2, <2>1 DEF Served
<1>7. Underway'
  BY DEF Underway
<1>8. Conns!SocketsAccounted'
  BY DEF ConnInv, Conns!SocketsAccounted
<1> QED BY <1>3, <1>4, <1>5, <1>6, <1>7, <1>8 DEF ConnInv

(* A mailbox is created: its address is no good, or its connection was     *)
(* lost, or it is opened.                                                  *)
LEMMA CreateKeeps ==
    ASSUME ConnInv, NEW b \in Boxes, NEW uri \in Uris, Conns!f_create(b, uri)
    PROVE  ConnInv'
<1> DEFINE a == Conns!mutt_account_fromurl(uri)
           c == Conns!mutt_conn_find(a)
           new == c > Len(conn)
           d == IF new \/ conn[c].data = 0 THEN Len(imapdata) + 1 ELSE conn[c].data
           known == [(IF new THEN Conns!socket_new_conn ELSE conn[c]) EXCEPT
                       !.user = Conns!Creds(a).user, !.pass = Conns!Creds(a).pass, !.data = d]
           m == [mailbox[b] EXCEPT !.pc = "over"]
           r == [imapdata[d] EXCEPT !.state = "AUTHENTICATED"]
           started == [pc |-> "opening", user |-> a.user, data |-> d]
           o == [Conns!Nothing EXCEPT !.box = {b}, !.conn = c, !.data = d,
                   !.pc = IF d <= Len(imapdata) THEN "select" ELSE "connect"]
           i == [Conns!imap_new_idata EXCEPT !.conn = c]
           bad == ~Conns!Parses(uri) \/ (uri.scheme = "imaps" /\ new)
           fatal == d <= Len(imapdata) /\ imapdata[d].status = "FATAL"
<1>1. /\ ConnTyped /\ conn \in Seq(Connection) /\ imapdata \in Seq(Data)
      /\ mailbox \in [Boxes -> Box] /\ Len(conn) \in Nat /\ Len(imapdata) \in Nat
      /\ mailbox[b] \in Box /\ \A x \in 1 .. Len(conn) : conn[x] \in Connection
  BY DEF ConnInv, ConnTyped
<1>2. a.user \in Names /\ a.pass \in Passes
  BY DEF Conns!mutt_account_fromurl, Names, Passes
<1>3. opening.pc = "idle" /\ mailbox[b].pc = "none"
  BY DEF Conns!f_create
<1>4. /\ \/ c = Len(conn) + 1
         \/ c \in 1 .. Len(conn) /\ conn[c].user = a.user /\ Conns!NotSelected(c)
      /\ Conns!Creds(a).user = a.user /\ Conns!Creds(a).pass \in Passes
  BY <1>2, Found
<1>5. /\ c \in 1 .. Len(conn) <=> ~new
      /\ c \in Nat /\ (new => c = Len(conn) + 1)
      /\ \/ d = Len(imapdata) + 1 /\ (new \/ conn[c].data = 0)
         \/ ~new /\ d = conn[c].data /\ d \in 1 .. Len(imapdata) /\ imapdata[d].conn = c
  <2>1. c \in 1 .. Len(conn) => Linked(c)
    BY DEF ConnInv
  <2>2. c \in 1 .. Len(conn) <=> ~new
    BY <1>1, <1>4
  <2> QED BY <1>1, <1>4, <2>1, <2>2 DEF Linked
<1>6. known \in Connection /\ known.data = d /\ known.user = a.user
  <2> DEFINE base == IF new THEN Conns!socket_new_conn ELSE conn[c]
  <2>1. base \in Connection
    <3>1. Conns!socket_new_conn \in Connection
      BY DEF Connection, Conns!socket_new_conn, Bits, Users, Names, Passes
    <3> QED BY <1>1, <1>5, <3>1
  <2>2. known = [base EXCEPT !.user = Conns!Creds(a).user, !.pass = Conns!Creds(a).pass, !.data = d]
    OBVIOUS
  <2>3. Conns!Creds(a).user \in Names /\ Conns!Creds(a).pass \in Passes /\ d \in Nat
    BY <1>1, <1>2, <1>4, <1>5
  <2> HIDE DEF base, known, d, a
  <2> QED BY <1>4, <2>1, <2>2, <2>3 DEF Connection
<1>7. /\ d = Len(imapdata) + 1 => ~known.fd
      /\ d # Len(imapdata) + 1 => known.who \in {known.user, "preauth", "anonymous"}
  <2>1. CASE new
    <3>1. ~known.fd
      BY <2>1 DEF Conns!socket_new_conn
    <3> QED BY <1>5, <2>1, <3>1
  <2>2. CASE ~new
    <3>1. Linked(c) /\ LoggedIn(c) /\ conn[c] \in Connection /\ conn[c].user = a.user
      BY <1>1, <1>4, <1>5, <2>2 DEF ConnInv
    <3>2. known.fd = conn[c].fd /\ known.who = conn[c].who
      BY <2>2, <3>1 DEF Connection
    <3>3. conn[c].data = 0 => ~known.fd
      BY <3>1, <3>2 DEF Linked
    <3>4. conn[c].data # 0 => known.who \in {known.user, "preauth", "anonymous"}
      BY <1>3, <1>6, <3>1, <3>2 DEF LoggedIn, Logins
    <3> HIDE DEF known
    <3> QED BY <1>1, <1>5, <2>2, <3>3, <3>4
  <2> QED BY <2>1, <2>2
<1>8. /\ m \in Box /\ m.pc = "over" /\ started \in Box
      /\ started.pc = "opening" /\ started.data = d /\ started.user = a.user
  BY <1>1, <1>2, <1>5 DEF Box, BoxPcs
<1>9. /\ o \in Opening /\ o.box = {b} /\ o.conn = c /\ o.data = d
      /\ o.pc = IF d <= Len(imapdata) THEN "select" ELSE "connect"
  <2>1. {b} \in BoxSets /\ {} \in CapSets /\ c \in Nat /\ d \in Nat
        /\ Conns!Nothing.caps = {}
    BY <1>1, <1>5 DEF BoxSets, CapSets, Conns!Nothing
  <2>2. "select" \in OpenPcs /\ "connect" \in OpenPcs
    BY DEF OpenPcs, Logins
  <2> HIDE DEF c, d
  <2> QED BY <2>1, <2>2 DEF Opening, Conns!Nothing
<1>10. /\ i \in Data /\ i.conn = c /\ i.state # "SELECTED" /\ i.status # "FATAL"
  BY <1>5 DEF Data, Conns!imap_new_idata, States, Statuses, BoxSets
<1>11. lostfds' = lostfds /\ connpast' = connpast
  BY DEF Conns!f_create
<1>12. CASE bad
  <2>1. /\ BoxAt(b, m) /\ Connections' = Connections
        /\ conn' = conn /\ imapdata' = imapdata /\ opening' = opening
    BY <1>12 DEF Conns!f_create, BoxAt
  <2> HIDE DEF a, c, new, d, known, m, r, started, o, i, bad, fatal
  <2> QED BY <1>3, <1>8, <1>11, <2>1, BoxEnds
<1>13. CASE ~bad /\ fatal
  <2>1. /\ BoxAt(b, m) /\ DataAt(d, r)
        /\ Connections' = Connections /\ conn' = conn /\ opening' = opening
    BY <1>13 DEF Conns!f_create, BoxAt, DataAt
  <2>2. d \in 1 .. Len(imapdata) /\ imapdata[d].status = "FATAL"
    BY <1>1, <1>5, <1>13
  <2>3. ~new /\ d = conn[c].data /\ imapdata[d].conn = c /\ c \in 1 .. Len(conn)
    BY <1>1, <1>5, <2>2
  <2>4. Conns!NotSelected(c) /\ imapdata[d] \in Data /\ conn[c] \in Connection
    BY <1>1, <1>4, <2>2, <2>3
  <2>5. /\ r \in Data /\ r.conn = c /\ imapdata[d].state # "SELECTED" /\ d # 0
    BY <2>2, <2>3, <2>4 DEF Data, States, Conns!NotSelected
  <2>6. ConnAt(c, conn[c])
    BY <1>1, <2>1, <2>3 DEF ConnAt
  <2>7. connpast \cap {"lost in select", "lost in close"} # {}
    BY <2>2, <2>5 DEF ConnInv, Explained
  <2>8. opening \in Opening
    BY <1>1 DEF ConnTyped
  <2> HIDE DEF a, c, new, d, known, m, r, started, o, i, bad, fatal
  <2>9. Owns(b, c, d)
    BY <2>2, <2>3, <2>4, NotFound DEF Owns
  <2>10. Outcome(b, c, d, conn[c], r, m)
    BY <1>8, <1>11, <2>3, <2>4, <2>5, <2>7 DEF Outcome
  <2> QED BY <1>3, <1>11, <2>1, <2>6, <2>8, <2>9, <2>10, CommandKeeps DEF Logins
<1>14. CASE ~bad /\ ~fatal
  <2>1. /\ Connections' = Connections \cup {c}
        /\ conn' = [x \in 1 .. (IF new THEN c ELSE Len(conn)) |->
                       IF x = c THEN known ELSE conn[x]]
        /\ imapdata' = IF d <= Len(imapdata) THEN imapdata ELSE Append(imapdata, i)
        /\ BoxAt(b, started) /\ opening' = o
    BY <1>14 DEF Conns!f_create, BoxAt
  <2> HIDE DEF a, known, m, r, started, o, i, bad
  <2>2. /\ conn' \in Seq(Connection) /\ conn'[c] = known /\ c \in 1 .. Len(conn')
        /\ 1 .. Len(conn') = 1 .. Len(conn) \cup {c}
        /\ \A x \in 1 .. Len(conn) : x # c => conn'[x] = conn[x]
    <3>1. CASE new
      BY <1>1, <1>5, <1>6, <2>1, <3>1
    <3>2. CASE ~new
      BY <1>1, <1>5, <1>6, <2>1, <3>2
    <3> QED BY <3>1, <3>2
  <2>3. /\ imapdata' \in Seq(Data) /\ d \in 1 .. Len(imapdata')
        /\ 1 .. Len(imapdata') = 1 .. Len(imapdata) \cup {d}
        /\ \A y \in 1 .. Len(imapdata) : imapdata'[y] = imapdata[y]
        /\ imapdata'[d].conn = c
        /\ imapdata'[d].status # "FATAL"
        /\ imapdata'[d].state # "SELECTED"
    <3>1. CASE d = Len(imapdata) + 1
      <4>1. imapdata' = Append(imapdata, i)
        BY <1>1, <2>1, <3>1
      <4>2. /\ imapdata' \in Seq(Data) /\ Len(imapdata') = Len(imapdata) + 1
            /\ imapdata'[d] = i /\ \A y \in 1 .. Len(imapdata) : imapdata'[y] = imapdata[y]
        BY <1>1, <1>10, <3>1, <4>1, Added
      <4> HIDE DEF d
      <4> QED BY <1>1, <1>10, <3>1, <4>2
    <3>2. CASE d # Len(imapdata) + 1
      <4>1. ~new /\ d = conn[c].data /\ d \in 1 .. Len(imapdata) /\ imapdata[d].conn = c
        BY <1>5, <3>2
      <4>2. imapdata' = imapdata /\ imapdata[d].status # "FATAL" /\ d # 0
        BY <1>1, <1>14, <2>1, <4>1
      <4>3. imapdata[d].state # "SELECTED"
        BY <1>4, <1>5, <4>1, <4>2 DEF Conns!NotSelected
      <4> HIDE DEF d
      <4> QED BY <1>1, <4>1, <4>2, <4>3
    <3> QED BY <3>1, <3>2
  <2>4. /\ mailbox' \in [Boxes -> Box] /\ mailbox'[b] = started
        /\ \A x \in Boxes : x # b => mailbox'[x] = mailbox[x]
    BY <1>1, <1>8, <2>1, AtBox DEF BoxAt
  <2>5. /\ o.pc \in {"connect", "select"} /\ (o.pc = "connect" => ~known.fd)
        /\ o.pc = "select" => known.who \in {known.user, "preauth", "anonymous"}
    BY <1>1, <1>5, <1>7, <1>9
  <2>6. c \in 1 .. Len(conn) => Conns!NotSelected(c)
    BY <1>1, <1>4
  <2> HIDE DEF c, new, d, fatal
  <2>7. opening' = o /\ Connections' = Connections \cup {c}
    BY <2>1
  <2>8. o \in Opening /\ o.box = {b} /\ o.conn = c /\ o.data = d
    BY <1>9
  <2>9. lostfds' = lostfds /\ connpast' = connpast
    BY <1>11
  <2>10. Starts(b, c, d, known)
    BY <1>3, <1>6, <1>8, <2>2, <2>3, <2>4, <2>5, <2>6, <2>7, <2>8, <2>9 DEF Starts
  <2> QED BY <2>10, StartKeeps
<1> QED BY <1>12, <1>13, <1>14

-----------------------------------------------------------------------------
(* The records a step leaves.                                              *)
LEMMA Closed ==
    ASSUME NEW k \in Connection, NEW n \in Bits
    PROVE  /\ Conns!mutt_socket_close(k, n) \in Connection
           /\ ~Conns!mutt_socket_close(k, n).fd /\ Conns!mutt_socket_close(k, n).data = k.data
           /\ Conns!mutt_socket_close(k, n).user = k.user /\ Conns!mutt_socket_close(k, n).who = k.who
           /\ [Conns!ByeCloses(k, n) EXCEPT !.data = 0] \in Connection
           /\ ~[Conns!ByeCloses(k, n) EXCEPT !.data = 0].fd
           /\ [Conns!ByeCloses(k, n) EXCEPT !.data = 0].data = 0
           /\ [Conns!ByeCloses(k, n) EXCEPT !.data = 0].user = k.user
           /\ [Conns!ByeCloses(k, n) EXCEPT !.data = 0].who = k.who
  BY DEF Connection, Conns!mutt_socket_close, Conns!ByeCloses

LEMMA DataWith ==
    ASSUME NEW r \in Data, NEW st \in States, NEW su \in Statuses, NEW cs \in BoxSets
    PROVE  LET q == [r EXCEPT !.status = su, !.ctx = cs, !.state = st]
           IN  /\ q \in Data /\ q.conn = r.conn
               /\ q.state = st /\ q.status = su /\ q.ctx = cs
  BY DEF Data

LEMMA BoxWith ==
    ASSUME NEW m \in Box, NEW pc \in BoxPcs
    PROVE  LET q == [m EXCEPT !.pc = pc]
           IN  q \in Box /\ q.pc = pc /\ q.user = m.user /\ q.data = m.data
  BY DEF Box

(* An opening that reached the selection, and an open mailbox, have their  *)
(* connection to themselves.                                               *)
LEMMA SelectOwns ==
    ASSUME ConnInv, opening.pc = "select"
    PROVE  /\ Owns(Conns!The, opening.conn, opening.data) /\ Conns!The \in Boxes
           /\ mailbox[Conns!The].user = conn[opening.conn].user
           /\ mailbox[Conns!The].data = opening.data
  BY Opener DEF Owns, OpeningFor

LEMMA OpenOwns ==
    ASSUME ConnInv, NEW b \in Boxes, mailbox[b].pc = "open"
    PROVE  Owns(b, imapdata[mailbox[b].data].conn, mailbox[b].data)
<1>1. Served(b)
  BY DEF ConnInv
<1> QED BY <1>1, BoxesApart DEF Served, Owns

(* The connection is ended by the server: b is not open any more.          *)
LEMMA ByeKeeps ==
    ASSUME ConnInv, opening.pc \notin Logins,
           NEW b \in Boxes, NEW c, NEW d, Owns(b, c, d), Conns!cmd_handle_untagged(d),
           NEW pc \in {"lost", "over"}, mailbox' = [mailbox EXCEPT ![b].pc = pc],
           UNCHANGED <<Connections, lostfds, connpast>>,
           opening' \in Opening, opening'.pc = "idle"
    PROVE  ConnInv'
<1>1. PICK n \in 0 .. 1 :
         /\ conn' = [conn EXCEPT ![imapdata[d].conn] = [Conns!ByeCloses(@, n) EXCEPT !.data = 0]]
         /\ imapdata' = [imapdata EXCEPT ![d] = [@ EXCEPT !.status = "BYE", !.ctx = {},
                                                              !.state = "DISCONNECTED"]]
  BY DEF Conns!cmd_handle_untagged
<1> DEFINE k == [Conns!ByeCloses(conn[c], n) EXCEPT !.data = 0]
           r == [imapdata[d] EXCEPT !.status = "BYE", !.ctx = {}, !.state = "DISCONNECTED"]
           m == [mailbox[b] EXCEPT !.pc = pc]
<1>2. /\ c \in 1 .. Len(conn) /\ conn[c] \in Connection /\ imapdata[d].conn = c
      /\ d \in 1 .. Len(imapdata) /\ imapdata[d] \in Data /\ mailbox[b] \in Box
  BY DEF Owns, ConnInv, ConnTyped
<1>3. ConnAt(c, k) /\ DataAt(d, r) /\ BoxAt(b, m)
  BY <1>1, <1>2 DEF ConnAt, DataAt, BoxAt
<1>4. /\ k \in Connection /\ ~k.fd /\ k.data = 0
      /\ k.user = conn[c].user /\ k.who = conn[c].who
  BY <1>2, Closed DEF Bits
<1>5. r \in Data /\ r.conn = c /\ r.status = "BYE"
  <2>1. "BYE" \in Statuses /\ "DISCONNECTED" \in States /\ {} \in BoxSets
    BY DEF Statuses, States, BoxSets
  <2>2. \A q \in Data : LET w == [q EXCEPT !.status = "BYE", !.ctx = {}, !.state = "DISCONNECTED"]
                        IN  w \in Data /\ w.conn = q.conn /\ w.status = "BYE"
    BY <2>1 DEF Data
  <2> QED BY <1>2, <2>2
<1>6. m \in Box /\ m.pc # "open"
  BY <1>2, BoxWith DEF BoxPcs
<1> HIDE DEF k, r, m
<1>7. Outcome(b, c, d, k, r, m)
  BY <1>4, <1>5, <1>6 DEF Outcome
<1> QED BY <1>3, <1>7, CommandKeeps

(* The connection fails: b stays as it is, or ends.                        *)
StaysOrEnds(b, d, st) ==
    \/ /\ st = "SELECTED" /\ mailbox' = mailbox
       /\ mailbox[b].pc = "open" /\ mailbox[b].data = d
    \/ /\ connpast' \cap {"lost in select", "lost in close"} # {}
       /\ mailbox' = [mailbox EXCEPT ![b].pc = "over"]

LEMMA FatalKeeps ==
    ASSUME ConnInv, opening.pc \notin Logins,
           NEW b \in Boxes, NEW c, NEW d, Owns(b, c, d),
           NEW st \in {"AUTHENTICATED", "SELECTED"}, Conns!cmd_handle_fatal(d, st),
           StaysOrEnds(b, d, st),
           UNCHANGED <<Connections, lostfds>>, connpast \subseteq connpast',
           opening' \in Opening, opening'.pc = "idle"
    PROVE  ConnInv'
<1> DEFINE k == Conns!mutt_socket_close(conn[c], 0)
           r == [imapdata[d] EXCEPT !.status = "FATAL", !.state = st]
           m == [mailbox[b] EXCEPT !.pc = "over"]
<1>1. /\ c \in 1 .. Len(conn) /\ conn[c] \in Connection /\ imapdata[d].conn = c
      /\ d \in 1 .. Len(imapdata) /\ imapdata[d] \in Data /\ mailbox[b] \in Box
      /\ conn[c].data = d /\ mailbox \in [Boxes -> Box]
  BY DEF Owns, ConnInv, ConnTyped
<1>2. ConnAt(c, k) /\ DataAt(d, r)
  BY <1>1 DEF ConnAt, DataAt, Conns!cmd_handle_fatal
<1>3. /\ k \in Connection /\ ~k.fd /\ k.data = d
      /\ k.user = conn[c].user /\ k.who = conn[c].who
  <2>1. 0 \in Bits
    BY DEF Bits
  <2> QED BY <1>1, <2>1, Closed
<1>4. /\ r \in Data /\ r.conn = c /\ r.status = "FATAL" /\ r.state = st
      /\ r.ctx = imapdata[d].ctx
  BY <1>1 DEF Data, States, Statuses
<1>5. m \in Box /\ m.pc # "open"
  BY <1>1, BoxWith DEF BoxPcs
<1> HIDE DEF k, r, m
<1>6. CASE /\ st = "SELECTED" /\ mailbox' = mailbox
           /\ mailbox[b].pc = "open" /\ mailbox[b].data = d
  <2>1. BoxAt(b, mailbox[b])
    BY <1>1, <1>6 DEF BoxAt
  <2>2. imapdata[d].ctx = {b} /\ conn[c].user = mailbox[b].user
    BY <1>1, <1>6 DEF ConnInv, Served
  <2>3. Outcome(b, c, d, k, r, mailbox[b])
    BY <1>1, <1>3, <1>4, <1>6, <2>2 DEF Outcome
  <2> QED BY <1>2, <2>1, <2>3, CommandKeeps
<1>7. CASE /\ connpast' \cap {"lost in select", "lost in close"} # {}
           /\ mailbox' = [mailbox EXCEPT ![b].pc = "over"]
  <2>1. BoxAt(b, m)
    BY <1>1, <1>7 DEF BoxAt, m
  <2>2. connpast' \cap {"lost in select", "lost in close"} # {}
    BY <1>7
  <2>3. Outcome(b, c, d, k, r, m)
    BY <1>3, <1>4, <1>5, <2>2 DEF Outcome
  <2> QED BY <1>2, <2>1, <2>3, CommandKeeps
<1> QED BY <1>6, <1>7 DEF StaysOrEnds

(* A folder is left: its connection goes on.                               *)
LEMMA AnsweredKeeps ==
    ASSUME ConnInv, opening.pc \notin Logins,
           NEW b \in Boxes, NEW c, NEW d, Owns(b, c, d),
           NEW r \in Data, DataAt(d, r), r.conn = c, r.status = "none",
           mailbox' = [mailbox EXCEPT ![b].pc = "over"],
           UNCHANGED <<Connections, conn, lostfds, connpast>>,
           opening' \in Opening, opening'.pc = "idle"
    PROVE  ConnInv'
<1> DEFINE m == [mailbox[b] EXCEPT !.pc = "over"]
<1>1. /\ c \in 1 .. Len(conn) /\ conn[c] \in Connection /\ conn \in Seq(Connection)
      /\ mailbox[b] \in Box /\ conn[c].data = d
  BY DEF Owns, ConnInv, ConnTyped
<1>2. ConnAt(c, conn[c]) /\ BoxAt(b, m)
  BY <1>1 DEF ConnAt, BoxAt
<1>3. m \in Box /\ m.pc = "over"
  BY <1>1, BoxWith DEF BoxPcs
<1>4. d # 0
  BY DEF Owns, ConnInv, ConnTyped
<1> HIDE DEF m
<1>5. Outcome(b, c, d, conn[c], r, m)
  BY <1>1, <1>3, <1>4 DEF Outcome
<1> QED BY <1>2, <1>5, CommandKeeps

-----------------------------------------------------------------------------
(* The steps of an opening: it gets a descriptor,                          *)
LEMMA Proceeding ==
    ASSUME ConnInv, opening.pc \in Logins,
           NEW k \in Connection, ConnAt(opening.conn, k),
           k.data = opening.data, k.user = conn[opening.conn].user,
           NEW pc \in OpenPcs, pc \notin {"idle", "connect"},
           pc \notin Logins => k.who \in {k.user, "preauth", "anonymous"},
           NEW st \in States, st # "SELECTED",
           opening' = [opening EXCEPT !.pc = pc],
           imapdata' = [imapdata EXCEPT ![opening.data].state = st],
           UNCHANGED <<Connections, mailbox, lostfds>>, connpast \subseteq connpast'
    PROVE  ConnInv'
<1> DEFINE d == opening.data
           r == [imapdata[d] EXCEPT !.state = st]
<1>1. /\ opening.pc # "idle" /\ opening \in Opening
      /\ d \in 1 .. Len(imapdata) /\ imapdata[d] \in Data /\ imapdata[d].conn = opening.conn
      /\ imapdata[d].status # "FATAL"
  BY Opener DEF ConnInv, Underway, ConnTyped, Logins
<1>2. r \in Data /\ r.conn = opening.conn /\ r.state # "SELECTED" /\ r.status # "FATAL"
  BY <1>1 DEF Data
<1>3. DataAt(d, r)
  BY <1>1 DEF DataAt
<1>4. /\ opening' \in Opening /\ opening'.pc = pc /\ opening'.box = opening.box
      /\ opening'.conn = opening.conn /\ opening'.data = d
  BY <1>1 DEF Opening
<1> HIDE DEF r
<1> QED BY <1>1, <1>2, <1>3, <1>4, Advance

LEMMA ConnectKeeps ==
    ASSUME ConnInv, Conns!raw_socket_open
    PROVE  ConnInv'
<1> DEFINE c == opening.conn
           d == opening.data
           k == [conn[c] EXCEPT !.fd = TRUE]
<1>1. /\ opening.pc = "connect" /\ conn' = [conn EXCEPT ![c].fd = TRUE]
      /\ opening' = [opening EXCEPT !.pc = "greeting"] /\ imapdata' = imapdata
      /\ lostfds' = lostfds + (IF conn[c].fd THEN 1 ELSE 0)
      /\ UNCHANGED <<Connections, mailbox, connpast>>
  BY DEF Conns!raw_socket_open
<1>2. /\ c \in 1 .. Len(conn) /\ conn[c] \in Connection /\ conn[c].data = d
      /\ d \in 1 .. Len(imapdata) /\ imapdata[d] \in Data /\ imapdata[d].state # "SELECTED"
      /\ ~conn[c].fd /\ lostfds \in Nat /\ imapdata \in Seq(Data)
  BY <1>1, Opener DEF ConnInv, Underway, ConnTyped
<1>3. k \in Connection /\ k.data = d /\ k.user = conn[c].user
  BY <1>2 DEF Connection
<1>4. lostfds' = lostfds
  BY <1>1, <1>2
<1>5. ConnAt(c, k)
  BY <1>1, <1>2 DEF ConnAt
<1>6. imapdata' = [imapdata EXCEPT ![d].state = imapdata[d].state]
  BY <1>1, <1>2 DEF Data
<1>7. "greeting" \in OpenPcs /\ "greeting" \in Logins /\ "connect" \in Logins
  BY DEF OpenPcs, Logins
<1>8. imapdata[d].state \in States
  BY <1>2 DEF Data
<1> HIDE DEF k
<1> QED BY <1>1, <1>2, <1>3, <1>4, <1>5, <1>6, <1>7, <1>8, Proceeding

(* is greeted, and may be logged in by that,                               *)
LEMMA GreetingKeeps ==
    ASSUME ConnInv, Conns!Greeting
    PROVE  ConnInv'
<1> DEFINE c == opening.conn
           d == opening.data
           line == [conn[c] EXCEPT !.unread = 0]
           known == [line EXCEPT !.who = "preauth"]
<1>1. /\ opening.pc = "greeting" /\ connpast \subseteq connpast'
      /\ \/ conn' = [conn EXCEPT ![c] = line] /\ Conns!Proceeds("capabilities", "CONNECTED")
         \/ conn' = [conn EXCEPT ![c] = known] /\ Conns!Proceeds("select", "AUTHENTICATED")
  BY DEF Conns!Greeting
<1>2. conn[c] \in Connection /\ conn[c].data = d
  BY <1>1, Opener
<1>3. /\ line \in Connection /\ line.data = d /\ line.user = conn[c].user
      /\ known \in Connection /\ known.data = d /\ known.user = conn[c].user
      /\ known.who = "preauth"
  <2>1. 0 \in Bits /\ "preauth" \in Users
    BY DEF Bits, Users
  <2>2. line \in Connection /\ line.data = d /\ line.user = conn[c].user
    BY <1>2, <2>1 DEF Connection
  <2> HIDE DEF line
  <2> QED BY <2>1, <2>2 DEF Connection
<1>4. /\ {"capabilities", "select"} \subseteq OpenPcs /\ "capabilities" \in Logins
      /\ {"CONNECTED", "AUTHENTICATED"} \subseteq States /\ "greeting" \in Logins
  BY DEF OpenPcs, Logins, States
<1> HIDE DEF line, known
<1>5. CASE conn' = [conn EXCEPT ![c] = line] /\ Conns!Proceeds("capabilities", "CONNECTED")
  <2>1. ConnAt(c, line)
    BY <1>5 DEF ConnAt
  <2>2. /\ opening' = [opening EXCEPT !.pc = "capabilities"]
        /\ imapdata' = [imapdata EXCEPT ![d].state = "CONNECTED"]
        /\ UNCHANGED <<Connections, mailbox, lostfds>>
    BY <1>5 DEF Conns!Proceeds
  <2>3. opening.pc \in Logins /\ connpast \subseteq connpast'
    BY <1>1, <1>4
  <2> QED BY <1>3, <1>4, <2>1, <2>2, <2>3, Proceeding
<1>6. CASE conn' = [conn EXCEPT ![c] = known] /\ Conns!Proceeds("select", "AUTHENTICATED")
  <2>1. ConnAt(c, known)
    BY <1>6 DEF ConnAt
  <2>2. /\ opening' = [opening EXCEPT !.pc = "select"]
        /\ imapdata' = [imapdata EXCEPT ![d].state = "AUTHENTICATED"]
        /\ UNCHANGED <<Connections, mailbox, lostfds>>
    BY <1>6 DEF Conns!Proceeds
  <2>3. opening.pc \in Logins /\ connpast \subseteq connpast'
    BY <1>1, <1>4
  <2> QED BY <1>3, <1>4, <2>1, <2>2, <2>3, Proceeding
<1> QED BY <1>1, <1>5, <1>6

(* learns what the server can,                                             *)
LEMMA CapabilitiesKeep ==
    ASSUME ConnInv, Conns!imap_check_capabilities
    PROVE  ConnInv'
<1> DEFINE c == opening.conn
           d == opening.data
<1>1. /\ opening.pc = "capabilities" /\ conn' = conn /\ imapdata' = imapdata
      /\ UNCHANGED <<Connections, mailbox, lostfds, connpast>>
  BY DEF Conns!imap_check_capabilities
<1>2. PICK caps \in SUBSET Conns!Capabilities :
         opening' = [opening EXCEPT !.pc = "authenticate", !.caps = caps]
  BY DEF Conns!imap_check_capabilities
<1>3. /\ c \in 1 .. Len(conn) /\ conn[c] \in Connection /\ conn[c].data = d
      /\ d \in 1 .. Len(imapdata) /\ imapdata[d] \in Data /\ imapdata[d].conn = c
      /\ imapdata[d].state # "SELECTED" /\ imapdata[d].status # "FATAL"
      /\ conn \in Seq(Connection) /\ imapdata \in Seq(Data) /\ opening \in Opening
  BY <1>1, Opener DEF ConnInv, Underway, ConnTyped
<1>4. "authenticate" \in OpenPcs /\ "authenticate" \in Logins /\ caps \in CapSets
  BY DEF OpenPcs, Logins, CapSets
<1>5. /\ opening' \in Opening /\ opening'.pc = "authenticate" /\ opening'.box = opening.box
      /\ opening'.conn = c /\ opening'.data = d
  BY <1>2, <1>3, <1>4 DEF Opening
<1>6. ConnAt(c, conn[c]) /\ DataAt(d, imapdata[d])
  BY <1>1, <1>3 DEF ConnAt, DataAt
<1> QED BY <1>1, <1>3, <1>4, <1>5, <1>6, Advance

(* and is logged in.                                                       *)
LEMMA AuthenticatedKeeps ==
    ASSUME ConnInv, Conns!Authenticated
    PROVE  ConnInv'
<1> DEFINE c == opening.conn
           d == opening.data
           name == IF Conns!imap_authenticate = "anonymous" THEN "anonymous" ELSE conn[c].user
           k == [conn[c] EXCEPT !.who = name]
<1>1. /\ opening.pc = "authenticate" /\ conn' = [conn EXCEPT ![c].who = name]
      /\ Conns!Proceeds("select", "AUTHENTICATED") /\ connpast' = connpast
  BY DEF Conns!Authenticated
<1>2. c \in 1 .. Len(conn) /\ conn[c] \in Connection /\ conn[c].data = d
  BY <1>1, Opener
<1>3. name \in Users /\ name \in {conn[c].user, "anonymous"}
  BY <1>2 DEF Connection, Users
<1> HIDE DEF name
<1>4. k \in Connection /\ k.data = d /\ k.user = conn[c].user /\ k.who = name
  BY <1>2, <1>3 DEF Connection
<1>5. ConnAt(c, k)
  BY <1>1, <1>2 DEF ConnAt
<1>6. /\ opening' = [opening EXCEPT !.pc = "select"]
      /\ imapdata' = [imapdata EXCEPT ![d].state = "AUTHENTICATED"]
      /\ UNCHANGED <<Connections, mailbox, lostfds>>
  BY <1>1 DEF Conns!Proceeds
<1>7. "select" \in OpenPcs /\ "AUTHENTICATED" \in States /\ "authenticate" \in Logins
  BY DEF OpenPcs, Logins, States
<1>8. k.who \in {k.user, "preauth", "anonymous"}
  BY <1>3, <1>4
<1> HIDE DEF k
<1> QED BY <1>1, <1>4, <1>5, <1>6, <1>7, <1>8, Proceeding

-----------------------------------------------------------------------------
(* Nothing is being opened.                                                *)
LEMMA NothingIsIdle == Conns!Nothing \in Opening /\ Conns!Nothing.pc = "idle"
  BY DEF Conns!Nothing, Opening, OpenPcs, BoxSets, CapSets

(* The commands of a mailbox: its folder is selected or not,               *)
LEMMA SelectKeeps ==
    ASSUME ConnInv, Conns!imap_open_mailbox
    PROVE  ConnInv'
<1> DEFINE d == opening.data
           r == [imapdata[d] EXCEPT !.state = "SELECTED", !.status = "none", !.ctx = {Conns!The}]
<1>1. /\ opening.pc = "select" /\ DataAt(d, r)
      /\ mailbox' = [mailbox EXCEPT ![Conns!The].pc = "open"] /\ opening' = Conns!Nothing
      /\ UNCHANGED <<Connections, conn, lostfds, connpast>>
  BY DEF Conns!imap_open_mailbox, DataAt
<1>2. /\ Owns(Conns!The, opening.conn, d) /\ Conns!The \in Boxes
      /\ mailbox[Conns!The].user = conn[opening.conn].user /\ mailbox[Conns!The].data = d
  BY <1>1, SelectOwns
<1>3. imapdata[d] \in Data /\ imapdata[d].conn = opening.conn
  BY <1>2 DEF Owns, ConnInv, ConnTyped
<1>4. {Conns!The} \in BoxSets /\ "SELECTED" \in States /\ "none" \in Statuses
  BY <1>2 DEF BoxSets, States, Statuses
<1>5. /\ r \in Data /\ r.conn = opening.conn /\ r.status = "none"
      /\ r.state = "SELECTED" /\ r.ctx = {Conns!The}
  BY <1>3, <1>4 DEF Data
<1>6. opening' \in Opening /\ opening'.pc = "idle"
  BY <1>1, NothingIsIdle
<1> HIDE DEF r
<1>7. opening.pc \notin Logins
  BY <1>1 DEF Logins
<1> DEFINE c == opening.conn
           m == [mailbox[Conns!The] EXCEPT !.pc = "open"]
<1>8. /\ conn[c] \in Connection /\ conn[c].data = d /\ d # 0 /\ c \in 1 .. Len(conn)
      /\ mailbox[Conns!The] \in Box /\ conn \in Seq(Connection)
  BY <1>2 DEF Owns, ConnInv, ConnTyped
<1>9. ConnAt(c, conn[c]) /\ BoxAt(Conns!The, m)
  BY <1>1, <1>8 DEF ConnAt, BoxAt
<1>10. /\ m \in Box /\ m.user = conn[c].user /\ m.data = d
  BY <1>2, <1>8 DEF Box, BoxPcs
<1> HIDE DEF d, m
<1>11. Outcome(Conns!The, c, d, conn[c], r, m)
  BY <1>5, <1>8, <1>10 DEF Outcome
<1> HIDE DEF c
<1> QED BY <1>1, <1>2, <1>6, <1>7, <1>9, <1>11, CommandKeeps DEF c

LEMMA OpenFailsKeeps ==
    ASSUME ConnInv, Conns!OpenFails
    PROVE  ConnInv'
<1> DEFINE d == opening.data
           r == [imapdata[d] EXCEPT !.state = "AUTHENTICATED", !.status = "none", !.ctx = {}]
<1>1. /\ opening.pc = "select"
      /\ mailbox' = [mailbox EXCEPT ![Conns!The].pc = "over"] /\ opening' = Conns!Nothing
      /\ UNCHANGED <<Connections, lostfds>>
      /\ \/ DataAt(d, r) /\ UNCHANGED <<conn, connpast>>
         \/ Conns!cmd_handle_untagged(d) /\ UNCHANGED connpast
         \/ /\ Conns!cmd_handle_fatal(d, "AUTHENTICATED")
            /\ connpast' = connpast \cup {"lost in select"}
  BY DEF Conns!OpenFails, DataAt
<1>2. Owns(Conns!The, opening.conn, d) /\ Conns!The \in Boxes
  BY <1>1, SelectOwns
<1>3. opening' \in Opening /\ opening'.pc = "idle"
  BY <1>1, NothingIsIdle
<1>4. CASE DataAt(d, r) /\ UNCHANGED <<conn, connpast>>
  <2>1. imapdata[d] \in Data /\ imapdata[d].conn = opening.conn
    BY <1>2 DEF Owns, ConnInv, ConnTyped
  <2>2. {} \in BoxSets /\ "AUTHENTICATED" \in States /\ "none" \in Statuses
    BY DEF BoxSets, States, Statuses
  <2>3. r \in Data /\ r.conn = opening.conn /\ r.status = "none"
    BY <2>1, <2>2 DEF Data
  <2> HIDE DEF r
  <2> QED BY <1>1, <1>2, <1>3, <1>4, <2>3, AnsweredKeeps DEF Logins
<1>5. CASE Conns!cmd_handle_untagged(d) /\ UNCHANGED connpast
  BY <1>1, <1>2, <1>3, <1>5, ByeKeeps DEF Logins
<1>6. CASE /\ Conns!cmd_handle_fatal(d, "AUTHENTICATED")
           /\ connpast' = connpast \cup {"lost in select"}
  <2>1. StaysOrEnds(Conns!The, d, "AUTHENTICATED") /\ connpast \subseteq connpast'
    BY <1>1, <1>6 DEF StaysOrEnds
  <2> QED BY <1>1, <1>2, <1>3, <1>6, <2>1, FatalKeeps DEF Logins
<1> QED BY <1>1, <1>4, <1>5, <1>6

(* it is checked,                                                          *)
LEMMA ConnCheckKeeps ==
    ASSUME ConnInv, NEW b \in Boxes, Conns!f_check_mailbox(b)
    PROVE  ConnInv'
<1> DEFINE d == mailbox[b].data
<1>1. /\ opening.pc = "idle" /\ mailbox[b].pc = "open"
      /\ UNCHANGED <<Connections, opening, lostfds, connpast>>
  BY DEF Conns!f_check_mailbox
<1>2. Owns(b, imapdata[d].conn, d) /\ opening \in Opening
  BY <1>1, OpenOwns DEF ConnInv, ConnTyped
<1>3. CASE Conns!cmd_handle_untagged(d) /\ mailbox' = [mailbox EXCEPT ![b].pc = "lost"]
  BY <1>1, <1>2, <1>3, ByeKeeps DEF Logins
<1>4. CASE Conns!cmd_handle_fatal(d, "SELECTED") /\ mailbox' = mailbox
  <2>1. StaysOrEnds(b, d, "SELECTED")
    BY <1>1, <1>4 DEF StaysOrEnds
  <2> QED BY <1>1, <1>2, <1>4, <2>1, FatalKeeps DEF Logins
<1> QED BY <1>3, <1>4 DEF Conns!f_check_mailbox

(* and closed.                                                             *)
LEMMA ConnCloseKeeps ==
    ASSUME ConnInv, NEW b \in Boxes, Conns!imap_close_mailbox(b)
    PROVE  ConnInv'
<1> DEFINE d == mailbox[b].data
           r == [imapdata[d] EXCEPT !.state = "AUTHENTICATED", !.ctx = {}]
<1>1. /\ opening.pc = "idle" /\ mailbox[b].pc = "open" /\ imapdata[d].status # "FATAL"
      /\ mailbox' = [mailbox EXCEPT ![b].pc = "over"]
      /\ UNCHANGED <<Connections, opening, lostfds>>
  BY DEF Conns!imap_close_mailbox, Conns!StillUsable
<1>2. Owns(b, imapdata[d].conn, d) /\ opening \in Opening
  BY <1>1, OpenOwns DEF ConnInv, ConnTyped
<1>3. imapdata[d] \in Data /\ imapdata[d].status = "none"
  <2>1. imapdata[d] \in Data /\ imapdata[d].status # "BYE"
    BY <1>1, <1>2 DEF Owns, ConnInv, ConnTyped, Served
  <2> QED BY <1>1, <2>1 DEF Data, Statuses
<1>4. CASE /\ imapdata' = [imapdata EXCEPT ![d].state = "AUTHENTICATED", ![d].ctx = {}]
           /\ UNCHANGED <<conn, connpast>>
  <2>1. DataAt(d, r) /\ d \in 1 .. Len(imapdata)
    BY <1>2, <1>4 DEF DataAt, Owns, ConnInv, ConnTyped
  <2>2. {} \in BoxSets /\ "AUTHENTICATED" \in States
    BY DEF BoxSets, States
  <2>3. r \in Data /\ r.conn = imapdata[d].conn /\ r.status = "none"
    BY <1>3, <2>2 DEF Data
  <2> HIDE DEF r
  <2> QED BY <1>1, <1>2, <1>4, <2>1, <2>3, AnsweredKeeps DEF Logins
<1>5. CASE Conns!cmd_handle_untagged(d) /\ UNCHANGED connpast
  BY <1>1, <1>2, <1>5, ByeKeeps DEF Logins
<1>6. CASE /\ Conns!cmd_handle_fatal(d, "AUTHENTICATED")
           /\ connpast' = connpast \cup (IF imapdata[d].status = "none"
                                        THEN {"lost in close"} ELSE {})
  <2>1. connpast' = connpast \cup {"lost in close"}
    BY <1>3, <1>6
  <2>2. StaysOrEnds(b, d, "AUTHENTICATED") /\ connpast \subseteq connpast'
    BY <1>1, <2>1 DEF StaysOrEnds
  <2> QED BY <1>1, <1>2, <1>6, <2>2, FatalKeeps DEF Logins
<1> QED BY <1>4, <1>5, <1>6 DEF Conns!imap_close_mailbox

LEMMA FastcloseKeeps ==
    ASSUME ConnInv, NEW b \in Boxes, Conns!mx_fastclose_mailbox(b)
    PROVE  ConnInv'
<1> DEFINE m == [mailbox[b] EXCEPT !.pc = "over"]
<1>1. /\ opening.pc = "idle" /\ BoxAt(b, m)
      /\ UNCHANGED <<Connections, conn, imapdata, opening, lostfds, connpast>>
      /\ mailbox[b] \in Box
  BY DEF Conns!mx_fastclose_mailbox, BoxAt, ConnInv, ConnTyped
<1>2. m \in Box /\ m.pc = "over"
  BY <1>1, BoxWith DEF BoxPcs
<1> HIDE DEF m
<1> QED BY <1>1, <1>2, BoxEnds

(* Every step keeps the invariant.                                         *)
LEMMA ConnStep == ConnInv /\ [Conns!Next]_(Conns!connvars) => ConnInv'
<1> SUFFICES ASSUME ConnInv, [Conns!Next]_(Conns!connvars) PROVE ConnInv'
  OBVIOUS
<1>1. ASSUME NEW b \in Boxes, NEW uri \in Uris, Conns!f_create(b, uri) PROVE ConnInv'
  BY <1>1, CreateKeeps
<1>2. CASE Conns!Unreachable
  <2>1. opening.pc = "connect" /\ Conns!Bail(conn[opening.conn].fd) /\ connpast' = connpast
    BY <1>2 DEF Conns!Unreachable
  <2>2. opening.pc \in Logins /\ opening.pc # "idle"
    BY <2>1 DEF Logins
  <2>3. conn[opening.conn].fd = FALSE
    BY <2>1, <2>2, Opener DEF ConnInv, Underway, Connection
  <2> QED BY <2>1, <2>2, <2>3, BailKeeps
<1>3. CASE Conns!raw_socket_open
  BY <1>3, ConnectKeeps
<1>4. CASE Conns!Greeting
  BY <1>4, GreetingKeeps
<1>5. CASE Conns!BadGreeting
  BY <1>5, BailKeeps DEF Conns!BadGreeting, Logins
<1>6. CASE Conns!ServerGone
  BY <1>6, BailKeeps DEF Conns!ServerGone, Logins
<1>7. CASE Conns!imap_check_capabilities
  BY <1>7, CapabilitiesKeep
<1>8. CASE Conns!Ancient
  BY <1>8, BailKeeps DEF Conns!Ancient, Logins
<1>9. CASE Conns!Authenticated
  BY <1>9, AuthenticatedKeeps
<1>10. CASE Conns!NotAuthenticated
  BY <1>10, BailKeeps DEF Conns!NotAuthenticated, Logins
<1>11. CASE Conns!imap_open_mailbox
  BY <1>11, SelectKeeps
<1>12. CASE Conns!OpenFails
  BY <1>12, OpenFailsKeeps
<1>13. ASSUME NEW b \in Boxes,
              Conns!f_check_mailbox(b) \/ Conns!imap_close_mailbox(b) \/ Conns!mx_fastclose_mailbox(b)
       PROVE  ConnInv'
  BY <1>13, ConnCheckKeeps, ConnCloseKeeps, FastcloseKeeps
<1>14. CASE UNCHANGED Conns!connvars
  <2>1. /\ Connections' = Connections /\ conn' = conn /\ imapdata' = imapdata
        /\ mailbox' = mailbox /\ opening' = opening /\ lostfds' = lostfds
        /\ connpast' = connpast
    BY <1>14 DEF Conns!connvars
  <2> QED BY <2>1 DEF ConnInv, ConnTyped, Linked, LoggedIn, Explained, Served, Underway,
                      OpeningFor, Conns!SocketsAccounted
<1> QED BY <1>1, <1>2, <1>3, <1>4, <1>5, <1>6, <1>7, <1>8, <1>9, <1>10, <1>11, <1>12,
           <1>13, <1>14 DEF Conns!Next

(* What the invariant says of open mailboxes, of descriptors and of        *)
(* accounts that cannot be opened any more.                                *)
LEMMA ConnMeans ==
    ConnInv => /\ Conns!OneBoxPerConnection /\ Conns!BoxesAreOfTheirUser
               /\ Conns!SocketsAccounted /\ Conns!StuckOnlyByCommand
<1> SUFFICES ASSUME ConnInv
             PROVE  /\ Conns!OneBoxPerConnection /\ Conns!BoxesAreOfTheirUser
                    /\ Conns!SocketsAccounted /\ Conns!StuckOnlyByCommand
  OBVIOUS
<1>1. Conns!OneBoxPerConnection
  BY BoxesApart DEF ConnInv, Served, Conns!OneBoxPerConnection, Conns!Open
<1>2. Conns!BoxesAreOfTheirUser
  <2> SUFFICES ASSUME NEW b \in Boxes, mailbox[b].pc = "open"
               PROVE  conn[imapdata[mailbox[b].data].conn].who
                         \in {mailbox[b].user, "preauth", "anonymous"}
    BY DEF Conns!BoxesAreOfTheirUser, Conns!Open
  <2> DEFINE c == imapdata[mailbox[b].data].conn
  <2>1. /\ c \in 1 .. Len(conn) /\ conn[c].data = mailbox[b].data
        /\ conn[c].user = mailbox[b].user /\ mailbox[b].data # 0
    BY DEF ConnInv, Served, ConnTyped
  <2>2. ~(opening.pc \in Logins /\ opening.conn = c)
    BY Opener DEF Logins
  <2> HIDE DEF c
  <2>3. LoggedIn(c)
    BY <2>1 DEF ConnInv
  <2>4. conn[c].who \in {mailbox[b].user, "preauth", "anonymous"}
    BY <2>1, <2>2, <2>3 DEF LoggedIn
  <2> QED BY <2>4 DEF c
<1>3. Conns!StuckOnlyByCommand
  <2> SUFFICES ASSUME NEW c \in DOMAIN conn, conn[c].data # 0,
                      imapdata[conn[c].data].status = "FATAL",
                      imapdata[conn[c].data].state = "AUTHENTICATED"
               PROVE  connpast \cap {"lost in select", "lost in close"} # {}
    BY DEF Conns!StuckOnlyByCommand
  <2>1. c \in 1 .. Len(conn)
    BY DEF ConnInv, ConnTyped
  <2>2. conn[c].data \in 1 .. Len(imapdata)
    BY <2>1 DEF ConnInv, Linked
  <2> QED BY <2>2 DEF ConnInv, Explained
<1> QED BY <1>1, <1>2, <1>3 DEF ConnInv

(* Every open mailbox has a connection of its own, logged in as its user   *)
(* (imap_conn_find); descriptors are lost by refused openings only, and an *)
(* account is stuck only after a connection was lost with a folder         *)
(* selected (imap_open_connection, cmd_handle_fatal).                      *)
THEOREM ConnectionsHold ==
    Conns!Spec => [](/\ Conns!OneBoxPerConnection /\ Conns!BoxesAreOfTheirUser
                     /\ Conns!SocketsAccounted /\ Conns!StuckOnlyByCommand)
<1> QED BY ConnInit, ConnStep, ConnMeans, PTL DEF Conns!Spec

-----------------------------------------------------------------------------
(* The session of a mailbox: any number of messages, mailboxes and changes  *)
(* others make.                                                             *)

(* A set of integers from some number on has a least member.                *)
LEMMA LeastOf ==
    ASSUME NEW lo \in Int, NEW S, S # {}, \A x \in S : x \in Int /\ lo <= x
    PROVE  Imap!Min(S) \in S /\ \A y \in S : Imap!Min(S) <= y
<1> DEFINE ages == {x - lo : x \in S}
<1>1. ages \subseteq Nat /\ ages # {}
  <2>1. \A x \in S : x - lo \in Nat
    OBVIOUS
  <2> QED BY <2>1
<1>2. \E x \in ages : \A y \in ages : ~(<<y, x>> \in OpToRel(<, Nat))
  BY <1>1, WFMin, NatLessThanWellFounded
<1>3. PICK a \in ages : \A y \in ages : ~(<<y, a>> \in OpToRel(<, Nat))
  BY <1>2
<1>4. \A y \in ages : ~(y < a)
  BY <1>1, <1>3 DEF OpToRel
<1>5. PICK x \in S : a = x - lo
  OBVIOUS
<1>6. ASSUME NEW y \in S PROVE x <= y
  <2>1. ~(y - lo < x - lo)
    BY <1>4, <1>5
  <2> QED BY <2>1
<1>7. \E z \in S : \A y \in S : z <= y
  BY <1>6
<1> QED BY <1>7 DEF Imap!Min

(* What holds before a loop and is kept by each turn holds at its end.      *)
LEMMA Along ==
    ASSUME NEW lo \in Int, NEW hi \in Int, NEW G,
           lo \in G, \A n \in lo + 1 .. hi : n - 1 \in G => n \in G
    PROVE  \A n \in lo .. hi : n \in G
<1> SUFFICES ASSUME NEW n \in lo .. hi, n \notin G PROVE FALSE
  OBVIOUS
<1> DEFINE B == {k \in lo .. hi : k \notin G}
<1>1. PICK m \in B : \A y \in B : m <= y
  <2>1. B # {} /\ \A x \in B : x \in Int /\ lo <= x
    OBVIOUS
  <2> HIDE DEF B
  <2> QED BY <2>1, LeastOf
<1>2. m \in lo + 1 .. hi /\ m - 1 \in lo .. hi
  OBVIOUS
<1>3. m - 1 \notin B
  BY <1>1, <1>2
<1> QED BY <1>2, <1>3

(* A loop whose turns lead from one set to the next stays in them, and can  *)
(* be run.                                                                  *)
Runs(f, lo, hi, a, turn, V) ==
    /\ f[lo] = a
    /\ \A n \in lo + 1 .. hi : f[n - 1] \in V[n - 1] => f[n] = turn[<<n, f[n - 1]>>]
LEMMA TurnsEnd ==
    ASSUME NEW lo \in Int, NEW hi \in Int, lo <= hi, NEW V, NEW a \in V[lo], NEW turn,
           \A n \in lo + 1 .. hi : \A x \in V[n - 1] : turn[<<n, x>>] \in V[n],
           NEW f, Runs(f, lo, hi, a, turn, V)
    PROVE  \A n \in lo .. hi : f[n] \in V[n]
<1> DEFINE G == {n \in lo .. hi : f[n] \in V[n]}
<1>1. lo \in G
  <2>1. lo \in lo .. hi
    OBVIOUS
  <2> QED BY <2>1 DEF Runs
<1>2. ASSUME NEW n \in lo + 1 .. hi, n - 1 \in G PROVE n \in G
  <2>1. f[n] = turn[<<n, f[n - 1]>>]
    BY <1>2 DEF Runs
  <2> QED BY <1>2, <2>1
<1>3. \A n \in lo .. hi : n \in G
  <2> HIDE DEF G
  <2> QED BY <1>1, <1>2, Along
<1> QED BY <1>3

LEMMA TurnsRun ==
    ASSUME NEW lo \in Int, NEW hi \in Int, lo <= hi, NEW V, NEW a \in V[lo], NEW turn,
           \A n \in lo + 1 .. hi : \A x \in V[n - 1] : turn[<<n, x>>] \in V[n]
    PROVE  \E f : /\ f = [n \in lo .. hi |-> f[n]] /\ Runs(f, lo, hi, a, turn, V)
                  /\ \A n \in lo .. hi : f[n] \in V[n]
<1> DEFINE G == {n \in lo .. hi : \E f : /\ f = [k \in lo .. n |-> f[k]]
                                       /\ Runs(f, lo, n, a, turn, V) /\ f[n] \in V[n]}
<1>1. lo \in G
  <2>1. PICK f : f = [k \in lo .. lo |-> a]
    OBVIOUS
  <2>2. f = [k \in lo .. lo |-> f[k]] /\ Runs(f, lo, lo, a, turn, V) /\ f[lo] \in V[lo]
    BY <2>1 DEF Runs
  <2> QED BY <2>2
<1>2. ASSUME NEW n \in lo + 1 .. hi, n - 1 \in G PROVE n \in G
  <2>1. PICK f : f = [k \in lo .. n - 1 |-> f[k]] /\ Runs(f, lo, n - 1, a, turn, V)
                   /\ f[n - 1] \in V[n - 1]
    BY <1>2
  <2>2. PICK t : t = turn[<<n, f[n - 1]>>]
    OBVIOUS
  <2>3. t \in V[n]
    BY <2>1, <2>2
  <2>4. PICK g : g = [k \in lo .. n |-> IF k = n THEN t ELSE f[k]]
    OBVIOUS
  <2>5. n \in lo .. n /\ g[n] = t /\ g[lo] = a
    BY <2>1, <2>4 DEF Runs
  <2>6. ASSUME NEW k \in lo + 1 .. n, g[k - 1] \in V[k - 1]
        PROVE  g[k] = turn[<<k, g[k - 1]>>]
    <3>0. g[k - 1] = f[k - 1]
      BY <2>4
    <3>1. CASE k = n
      BY <2>2, <2>5, <3>0, <3>1
    <3>2. CASE k # n
      <4>1. k \in lo + 1 .. n - 1 /\ g[k] = f[k]
        BY <2>4, <3>2
      <4> QED BY <2>1, <2>6, <3>0, <4>1 DEF Runs
    <3> QED BY <3>1, <3>2
  <2>7. Runs(g, lo, n, a, turn, V)
    BY <2>5, <2>6 DEF Runs
  <2>8. g = [k \in lo .. n |-> g[k]]
    BY <2>4
  <2>9. \E h : h = [k \in lo .. n |-> h[k]] /\ Runs(h, lo, n, a, turn, V) /\ h[n] \in V[n]
    BY <2>3, <2>5, <2>7, <2>8
  <2> QED BY <2>9
<1>3. hi \in G
  <2>1. hi \in lo .. hi /\ \A n \in lo + 1 .. hi : n - 1 \in G => n \in G
    BY <1>2
  <2> HIDE DEF G
  <2> QED BY <1>1, <2>1, Along
<1>4. PICK f : f = [k \in lo .. hi |-> f[k]] /\ Runs(f, lo, hi, a, turn, V)
  BY <1>3
<1>5. \A n \in lo .. hi : f[n] \in V[n]
  BY <1>4, TurnsEnd
<1> QED BY <1>4, <1>5

-----------------------------------------------------------------------------
(* What is picked is in the order it was, and nothing of it is missing.     *)
PickedUpto(out, m, s, places, n) ==
    /\ \A j \in DOMAIN out : m[j] \in places /\ out[j] = s[m[j]]
    /\ \A j, k \in DOMAIN out : j < k => m[j] < m[k]
    /\ \A i \in 1 .. n : i \in places => \E j \in DOMAIN out : m[j] = i
PickedOf(out, s, places, n) ==
    \E m \in [DOMAIN out -> 1 .. n] : PickedUpto(out, m, s, places, n)
LEMMA PicksOne ==
    ASSUME NEW T, NEW s \in Seq(T), NEW places, NEW n \in 1 .. Len(s),
           NEW out \in Seq(T), PickedOf(out, s, places, n - 1), NEW more,
           more = IF n \in places THEN Append(out, s[n]) ELSE out
    PROVE  more \in Seq(T) /\ PickedOf(more, s, places, n)
<1> PICK m \in [DOMAIN out -> 1 .. n - 1] : PickedUpto(out, m, s, places, n - 1)
  BY DEF PickedOf
<1>1. CASE n \in places
  <2>1. s[n] \in T
    OBVIOUS
  <2>2. /\ more \in Seq(T) /\ DOMAIN more = 1 .. Len(out) + 1 /\ DOMAIN out = 1 .. Len(out)
        /\ more[Len(out) + 1] = s[n] /\ \A j \in DOMAIN out : more[j] = out[j]
    BY <1>1, <2>1
  <2>3. PICK k : k = [j \in DOMAIN more |-> IF j \in DOMAIN out THEN m[j] ELSE n]
    OBVIOUS
  <2>4. PICK len \in Nat : len = Len(out)
    OBVIOUS
  <2>5. /\ k \in [DOMAIN more -> 1 .. n] /\ k[len + 1] = n
        /\ \A j \in DOMAIN out : k[j] = m[j] /\ m[j] \in 1 .. n - 1
    BY <2>2, <2>3, <2>4
  <2>6. \A j \in DOMAIN more : j \in DOMAIN out \/ j = len + 1
    BY <2>2, <2>4
  <2>7. \A j \in DOMAIN more : k[j] \in places /\ more[j] = s[k[j]]
    BY <1>1, <2>2, <2>4, <2>5, <2>6 DEF PickedUpto
  <2>8. ASSUME NEW i \in DOMAIN more, NEW j \in DOMAIN more, i < j PROVE k[i] < k[j]
    <3>1. i \in DOMAIN out
      BY <2>2, <2>4, <2>6, <2>8
    <3>2. CASE j \in DOMAIN out
      BY <2>5, <2>8, <3>1, <3>2 DEF PickedUpto
    <3>3. CASE j = len + 1
      BY <2>5, <3>1, <3>3
    <3> QED BY <2>6, <3>2, <3>3
  <2>9. ASSUME NEW i \in 1 .. n, i \in places PROVE \E j \in DOMAIN more : k[j] = i
    <3>1. CASE i = n
      <4>1. len + 1 \in DOMAIN more
        BY <2>2, <2>4
      <4> QED BY <2>5, <3>1, <4>1
    <3>2. CASE i # n
      <4>1. i \in 1 .. n - 1
        BY <3>2
      <4>2. PICK j \in DOMAIN out : m[j] = i
        BY <2>9, <4>1 DEF PickedUpto
      <4>3. j \in DOMAIN more
        BY <2>2
      <4> QED BY <2>5, <4>2, <4>3
    <3> QED BY <3>1, <3>2
  <2>10. PickedUpto(more, k, s, places, n)
    BY <2>7, <2>8, <2>9 DEF PickedUpto
  <2> QED BY <2>2, <2>5, <2>10 DEF PickedOf
<1>2. CASE n \notin places
  <2>1. more = out
    BY <1>2
  <2>2. m \in [DOMAIN more -> 1 .. n]
    BY <2>1
  <2>3. PickedUpto(more, m, s, places, n)
    BY <1>2, <2>1 DEF PickedUpto
  <2> QED BY <2>1, <2>2, <2>3 DEF PickedOf
<1> QED BY <1>1, <1>2

LEMMA PickedIs ==
    ASSUME NEW T, NEW s \in Seq(T), NEW places
    PROVE  /\ Imap!Picked(s, places) \in Seq(T)
           /\ PickedOf(Imap!Picked(s, places), s, places, Len(s))
<1> DEFINE Turn(n, out) == IF n \in places THEN Append(out, s[n]) ELSE out
           Loop(f) == f = [n \in 0 .. Len(s) |->
                             IF n = 0 THEN <<>>
                             ELSE IF n \in places THEN Append(f[n - 1], s[n]) ELSE f[n - 1]]
           Good(n) == {out \in Seq(T) : PickedOf(out, s, places, n)}
<1>1. PICK turn : turn = [x \in (1 .. Len(s)) \X Seq(T) |-> Turn(x[1], x[2])]
  OBVIOUS
<1>2. PICK V : V = [n \in 0 .. Len(s) |-> Good(n)]
  OBVIOUS
<1>3. \A n \in 1 .. Len(s) : \A out \in Seq(T) : turn[<<n, out>>] = Turn(n, out)
  <2> HIDE DEF Turn
  <2> QED BY <1>1
<1>4. <<>> \in V[0]
  <2>1. PickedOf(<<>>, s, places, 0)
    <3>1. PICK m : m = [j \in DOMAIN <<>> |-> j]
      OBVIOUS
    <3>2. m \in [DOMAIN <<>> -> 1 .. 0] /\ PickedUpto(<<>>, m, s, places, 0)
      BY <3>1 DEF PickedUpto
    <3> QED BY <3>2 DEF PickedOf
  <2>2. 0 \in 0 .. Len(s) /\ <<>> \in Seq(T)
    OBVIOUS
  <2> QED BY <1>2, <2>1, <2>2
<1>5. ASSUME NEW n \in 0 + 1 .. Len(s), NEW out \in V[n - 1] PROVE turn[<<n, out>>] \in V[n]
  <2>1. n \in 1 .. Len(s) /\ n - 1 \in 0 .. Len(s) /\ n \in 0 .. Len(s)
    OBVIOUS
  <2>2. out \in Seq(T) /\ out \in Good(n - 1)
    BY <1>2, <2>1
  <2>3. PickedOf(out, s, places, n - 1)
    BY <2>2
  <2>4. PICK more : more = Turn(n, out)
    OBVIOUS
  <2>5. more \in Seq(T) /\ PickedOf(more, s, places, n)
    <3>1. more = IF n \in places THEN Append(out, s[n]) ELSE out
      BY <2>4
    <3> HIDE DEF Good, Turn
    <3> QED BY <2>1, <2>2, <2>3, <3>1, PicksOne
  <2>6. more \in Good(n)
    BY <2>5
  <2> HIDE DEF Good, Turn
  <2> QED BY <1>2, <1>3, <2>1, <2>2, <2>4, <2>6
<1>6. ASSUME NEW f, Loop(f) PROVE f[Len(s)] \in Good(Len(s))
  <2>1. \A n \in 0 .. Len(s) : f[n] = IF n = 0 THEN <<>> ELSE Turn(n, f[n - 1])
    BY <1>6
  <2>2. Runs(f, 0, Len(s), <<>>, turn, V)
    <3>1. f[0] = <<>>
      <4>1. 0 \in 0 .. Len(s)
        OBVIOUS
      <4> HIDE DEF Turn
      <4> QED BY <2>1, <4>1
    <3>2. ASSUME NEW n \in 0 + 1 .. Len(s), f[n - 1] \in V[n - 1]
          PROVE  f[n] = turn[<<n, f[n - 1]>>]
      <4>1. n \in 1 .. Len(s) /\ n - 1 \in 0 .. Len(s) /\ n \in 0 .. Len(s) /\ n # 0
        OBVIOUS
      <4>2. f[n - 1] \in Seq(T)
        BY <1>2, <3>2, <4>1
      <4> HIDE DEF Turn
      <4> QED BY <1>3, <2>1, <4>1, <4>2
    <3> QED BY <3>1, <3>2 DEF Runs
  <2>3. \A n \in 0 .. Len(s) : f[n] \in V[n]
    <3>1. 0 \in Int /\ Len(s) \in Int /\ 0 <= Len(s)
      OBVIOUS
    <3> HIDE DEF Good, Turn, Loop
    <3> QED BY <1>4, <1>5, <2>2, <3>1, TurnsEnd
  <2>4. Len(s) \in 0 .. Len(s)
    OBVIOUS
  <2> HIDE DEF Good
  <2> QED BY <1>2, <2>3, <2>4
<1>7. \E f : Loop(f)
  <2>1. PICK f : /\ f = [n \in 0 .. Len(s) |-> f[n]] /\ Runs(f, 0, Len(s), <<>>, turn, V)
                 /\ \A n \in 0 .. Len(s) : f[n] \in V[n]
    <3>1. 0 \in Int /\ Len(s) \in Int /\ 0 <= Len(s)
      OBVIOUS
    <3> HIDE DEF Good, Turn, Loop
    <3> QED BY <1>4, <1>5, <3>1, TurnsRun
  <2>2. ASSUME NEW n \in 0 .. Len(s) PROVE f[n] = IF n = 0 THEN <<>> ELSE Turn(n, f[n - 1])
    <3>1. CASE n = 0
      BY <2>1, <3>1 DEF Runs
    <3>2. CASE n # 0
      <4>1. n \in 1 .. Len(s) /\ n - 1 \in 0 .. Len(s) /\ n \in 0 + 1 .. Len(s)
        BY <3>2
      <4>2. f[n - 1] \in V[n - 1] /\ f[n - 1] \in Seq(T)
        BY <1>2, <2>1, <4>1
      <4> HIDE DEF Turn, Good
      <4> QED BY <1>3, <2>1, <3>2, <4>1, <4>2 DEF Runs
    <3> QED BY <3>1, <3>2
  <2> QED BY <2>1, <2>2
<1>8. PICK f : f = CHOOSE g : Loop(g)
  OBVIOUS
<1>9. Loop(f)
  BY <1>7, <1>8
<1>10. Imap!Picked(s, places) = f[Len(s)]
  BY <1>8 DEF Imap!Picked
<1>11. f[Len(s)] \in Good(Len(s))
  <2> HIDE DEF Loop, Good
  <2> QED BY <1>6, <1>9
<1> QED BY <1>10, <1>11

-----------------------------------------------------------------------------
(* What the records hold.                                                   *)
Uids == 1 .. MaxUid
Marks == [read : BOOLEAN, deleted : BOOLEAN]
Wants == {<<>>} \cup (BOOLEAN \X BOOLEAN)
ImapHeader == [uid : Uids, index : Nat, read : BOOLEAN, deleted : BOOLEAN,
               changed : BOOLEAN, want : Wants]
ImapData == [selected : BOOLEAN, allow : BOOLEAN, expunge : BOOLEAN, newmail : BOOLEAN,
             newMailCount : Nat, boxes : 0 .. MaxBoxes,
             check : {"none", "new mail", "expunge", "flags"}]
ImapBox == [pc : {"none", "open", "marks", "stores", "broken", "over"},
            hdrs : Seq(ImapHeader), edits : Nat]
Item == [kind : {"EXISTS", "EXPUNGE", "FETCH"}, n : Nat, uid : Uids]
SessionState == [session : Seq(Uids), idata : ImapData, hdrs : Seq(ImapHeader),
                 fatal : BOOLEAN]

(* UIDs are in ascending order, and a new one is above all there ever were. *)
Ascends(s) == \A i, j \in DOMAIN s : i < j => s[i] < s[j]
Below(s, top) == \A i \in DOMAIN s : s[i] < top
NoneBetween(f, s) == \A i \in DOMAIN f : (\E j \in DOMAIN s : s[j] = f[i]) \/ Below(s, f[i])

LEMMA RemoveAtIs ==
    ASSUME NEW T, NEW s \in Seq(T), NEW i \in 1 .. Len(s)
    PROVE  /\ Imap!RemoveAt(s, i) \in Seq(T) /\ Len(Imap!RemoveAt(s, i)) = Len(s) - 1
           /\ DOMAIN Imap!RemoveAt(s, i) = 1 .. Len(s) - 1
           /\ \A k \in 1 .. Len(s) - 1 :
                Imap!RemoveAt(s, i)[k] = IF k < i THEN s[k] ELSE s[k + 1]
<1>1. PICK len \in Nat : len = Len(s)
  OBVIOUS
<1>2. PICK a : a = SubSeq(s, 1, i - 1)
  OBVIOUS
<1>3. PICK b : b = SubSeq(s, i + 1, len)
  OBVIOUS
<1>4. a \in Seq(T) /\ Len(a) = i - 1 /\ \A k \in 1 .. i - 1 : a[k] = s[k]
  BY <1>1, <1>2
<1>5. b \in Seq(T) /\ Len(b) = len - i /\ \A k \in 1 .. len - i : b[k] = s[k + i]
  BY <1>1, <1>3
<1>6. Imap!RemoveAt(s, i) = a \o b
  BY <1>1, <1>2, <1>3 DEF Imap!RemoveAt
<1>7. a \o b \in Seq(T) /\ Len(a \o b) = len - 1 /\ DOMAIN (a \o b) = 1 .. len - 1
  BY <1>1, <1>4, <1>5
<1>8. ASSUME NEW k \in 1 .. len - 1
      PROVE  (a \o b)[k] = IF k < i THEN s[k] ELSE s[k + 1]
  <2>1. CASE k < i
    <3>1. k \in 1 .. Len(a) /\ (a \o b)[k] = a[k]
      BY <1>4, <1>5, <2>1
    <3> QED BY <1>4, <2>1, <3>1
  <2>2. CASE ~(k < i)
    <3>1. k - (i - 1) \in 1 .. len - i
      BY <1>1, <2>2
    <3>2. (a \o b)[k] = b[k - (i - 1)]
      BY <1>1, <1>4, <1>5, <2>2
    <3>3. b[k - (i - 1)] = s[k - (i - 1) + i]
      BY <1>5, <3>1
    <3>4. k - (i - 1) + i = k + 1
      OBVIOUS
    <3> QED BY <2>2, <3>2, <3>3, <3>4
  <2> QED BY <2>1, <2>2
<1> QED BY <1>1, <1>6, <1>7, <1>8

LEMMA RemoveKeepsOrder ==
    ASSUME NEW s \in Seq(Uids), NEW i \in 1 .. Len(s), Ascends(s), MaxUid \in Nat
    PROVE  /\ Ascends(Imap!RemoveAt(s, i))
           /\ \A k \in DOMAIN Imap!RemoveAt(s, i) : \E j \in DOMAIN s : Imap!RemoveAt(s, i)[k] = s[j]
<1>1. PICK r : r = Imap!RemoveAt(s, i)
  OBVIOUS
<1>2. PICK len \in Nat : len = Len(s) /\ DOMAIN s = 1 .. len
  OBVIOUS
<1>3. /\ DOMAIN r = 1 .. len - 1
      /\ \A k \in 1 .. len - 1 : r[k] = IF k < i THEN s[k] ELSE s[k + 1]
  BY <1>1, <1>2, RemoveAtIs
<1>4. Ascends(r)
  <2> SUFFICES ASSUME NEW j \in 1 .. len - 1, NEW k \in 1 .. len - 1, j < k
               PROVE  r[j] < r[k]
    BY <1>3 DEF Ascends
  <2>1. j \in DOMAIN s /\ j + 1 \in DOMAIN s /\ k \in DOMAIN s /\ k + 1 \in DOMAIN s
    BY <1>2
  <2>2. /\ s[j] < s[k] /\ s[j] < s[k + 1] /\ s[j + 1] < s[k + 1]
    BY <2>1 DEF Ascends
  <2> QED BY <1>3, <2>2
<1>5. ASSUME NEW k \in DOMAIN r PROVE \E j \in DOMAIN s : r[k] = s[j]
  <2>1. k \in 1 .. len - 1 /\ k \in DOMAIN s /\ k + 1 \in DOMAIN s
    BY <1>2, <1>3
  <2> QED BY <1>3, <2>1
<1> QED BY <1>1, <1>4, <1>5

LEMMA AppendKeepsOrder ==
    ASSUME MaxUid \in Nat, NEW s \in Seq(Uids), Ascends(s), NEW u \in Uids, Below(s, u)
    PROVE  /\ Append(s, u) \in Seq(Uids) /\ Ascends(Append(s, u))
           /\ Len(Append(s, u)) = Len(s) + 1 /\ DOMAIN Append(s, u) = 1 .. Len(s) + 1
           /\ \A k \in DOMAIN s : Append(s, u)[k] = s[k]
           /\ Append(s, u)[Len(s) + 1] = u
<1>1. PICK r : r = Append(s, u)
  OBVIOUS
<1>2. PICK len \in Nat : len = Len(s) /\ DOMAIN s = 1 .. len
  OBVIOUS
<1>3. /\ r \in Seq(Uids) /\ Len(r) = len + 1 /\ DOMAIN r = 1 .. len + 1
      /\ r[len + 1] = u /\ \A k \in 1 .. len : r[k] = s[k]
  BY <1>1, <1>2
<1>4. ASSUME NEW i \in DOMAIN r, NEW j \in DOMAIN r, i < j PROVE r[i] < r[j]
  <2>1. i \in 1 .. len /\ i \in DOMAIN s /\ r[i] = s[i]
    BY <1>2, <1>3, <1>4
  <2>2. CASE j \in 1 .. len
    <3>1. j \in DOMAIN s /\ r[j] = s[j]
      BY <1>2, <1>3, <2>2
    <3> QED BY <1>4, <2>1, <3>1 DEF Ascends
  <2>3. CASE j = len + 1
    BY <1>3, <2>1, <2>3 DEF Below
  <2> QED BY <1>3, <2>2, <2>3
<1> QED BY <1>1, <1>2, <1>3, <1>4 DEF Ascends

LEMMA PickedKeepsOrder ==
    ASSUME MaxUid \in Nat, NEW s \in Seq(Uids), Ascends(s), NEW places
    PROVE  /\ Imap!Picked(s, places) \in Seq(Uids) /\ Ascends(Imap!Picked(s, places))
           /\ \A k \in DOMAIN Imap!Picked(s, places) :
                \E j \in DOMAIN s : Imap!Picked(s, places)[k] = s[j]
<1>1. PICK r : r = Imap!Picked(s, places)
  OBVIOUS
<1>2. r \in Seq(Uids) /\ PickedOf(r, s, places, Len(s))
  BY <1>1, PickedIs
<1>3. PICK m \in [DOMAIN r -> 1 .. Len(s)] : PickedUpto(r, m, s, places, Len(s))
  BY <1>2 DEF PickedOf
<1>4. \A k \in DOMAIN r : m[k] \in DOMAIN s /\ r[k] = s[m[k]]
  BY <1>3 DEF PickedUpto
<1>5. ASSUME NEW i \in DOMAIN r, NEW j \in DOMAIN r, i < j PROVE r[i] < r[j]
  <2>1. m[i] < m[j]
    BY <1>3, <1>5 DEF PickedUpto
  <2> QED BY <1>4, <2>1 DEF Ascends
<1> QED BY <1>1, <1>2, <1>4, <1>5 DEF Ascends

-----------------------------------------------------------------------------
(* Between what the session knows and what the server has lie the responses *)
(* it has ready: each leads from one view of the folder to the next.        *)
Tells(item, a, b) ==
    CASE item.kind = "EXISTS" ->
           item.n = Len(a) + 1 /\ b = Append(a, item.uid) /\ Below(a, item.uid)
      [] item.kind = "EXPUNGE" -> item.n \in 1 .. Len(a) /\ b = Imap!RemoveAt(a, item.n)
      [] OTHER -> b = a
Leads(v, t, s, f, top) ==
    /\ v[0] = s /\ v[Len(t)] = f
    /\ \A n \in 0 .. Len(t) : Ascends(v[n]) /\ Below(v[n], top) /\ NoneBetween(f, v[n])
    /\ \A n \in 1 .. Len(t) : Tells(t[n], v[n - 1], v[n])
Chain(t, s, f, top) == \E v \in [0 .. Len(t) -> Seq(Uids)] : Leads(v, t, s, f, top)

LEMMA ServerTells ==
    ASSUME MaxUid \in Nat, NEW t \in Seq(Item), NEW s \in Seq(Uids), NEW f \in Seq(Uids),
           NEW top \in Nat, Chain(t, s, f, top), NEW item \in Item, NEW g \in Seq(Uids),
           NEW next \in Nat, top <= next, Tells(item, f, g), Ascends(g), Below(g, next),
           \A i \in DOMAIN g : (\E j \in DOMAIN f : f[j] = g[i]) \/ top <= g[i]
    PROVE  Append(t, item) \in Seq(Item) /\ Chain(Append(t, item), s, g, next)
<1>1. PICK v \in [0 .. Len(t) -> Seq(Uids)] : Leads(v, t, s, f, top)
  BY DEF Chain
<1>2. PICK len \in Nat : len = Len(t)
  OBVIOUS
<1>3. PICK u : u = Append(t, item)
  OBVIOUS
<1>4. /\ u \in Seq(Item) /\ Len(u) = len + 1 /\ u[len + 1] = item
      /\ \A n \in 1 .. len : u[n] = t[n]
  BY <1>2, <1>3
<1>5. PICK w : w = [n \in 0 .. len + 1 |-> IF n = len + 1 THEN g ELSE v[n]]
  OBVIOUS
<1>6. /\ w \in [0 .. len + 1 -> Seq(Uids)] /\ w[len + 1] = g
      /\ \A n \in 0 .. len : w[n] = v[n] /\ w[n] \in Seq(Uids)
  <2>1. ASSUME NEW n \in 0 .. len PROVE v[n] \in Seq(Uids) /\ w[n] = v[n]
    <3>1. n \in 0 .. len + 1 /\ n # len + 1
      OBVIOUS
    <3> QED BY <1>2, <1>5, <3>1
  <2>2. len + 1 \in 0 .. len + 1 /\ \A n \in 0 .. len + 1 : n = len + 1 \/ n \in 0 .. len
    OBVIOUS
  <2>3. w[len + 1] = g
    BY <1>5, <2>2
  <2>4. \A n \in 0 .. len + 1 : w[n] \in Seq(Uids)
    BY <2>1, <2>2, <2>3
  <2>5. w = [n \in 0 .. len + 1 |-> w[n]]
    BY <1>5
  <2> QED BY <2>1, <2>3, <2>4, <2>5
<1>7. v[0] = s /\ v[len] = f
  BY <1>1, <1>2 DEF Leads
<1>8. ASSUME NEW n \in 0 .. len + 1
      PROVE  Ascends(w[n]) /\ Below(w[n], next) /\ NoneBetween(g, w[n])
  <2>1. CASE n = len + 1
    <3>1. NoneBetween(g, g)
      BY DEF NoneBetween
    <3> QED BY <1>6, <2>1, <3>1
  <2>2. CASE n # len + 1
    <3>1. n \in 0 .. len
      BY <2>2
    <3>2. PICK a \in Seq(Uids) : a = w[n] /\ a = v[n]
      BY <1>6, <3>1
    <3>3. Ascends(a) /\ Below(a, top) /\ NoneBetween(f, a)
      BY <1>1, <1>2, <3>1, <3>2 DEF Leads
    <3>4. \A i \in DOMAIN a : a[i] \in Nat
      BY DEF Uids
    <3>5. Below(a, next)
      BY <3>3, <3>4 DEF Below
    <3>6. ASSUME NEW i \in DOMAIN g PROVE (\E j \in DOMAIN a : a[j] = g[i]) \/ Below(a, g[i])
      <4>1. CASE \E j \in DOMAIN f : f[j] = g[i]
        BY <3>3, <4>1 DEF NoneBetween
      <4>2. CASE top <= g[i]
        <5>1. g[i] \in Nat
          BY DEF Uids
        <5> QED BY <3>3, <3>4, <4>2, <5>1 DEF Below
      <4> QED BY <4>1, <4>2
    <3> QED BY <3>2, <3>3, <3>5, <3>6 DEF NoneBetween
  <2> QED BY <2>1, <2>2
<1>9. ASSUME NEW n \in 1 .. len + 1 PROVE Tells(u[n], w[n - 1], w[n])
  <2>1. CASE n = len + 1
    <3>1. len \in 0 .. len /\ n - 1 = len
      BY <2>1
    <3> QED BY <1>4, <1>6, <1>7, <2>1, <3>1
  <2>2. CASE n # len + 1
    <3>1. n \in 1 .. len /\ n \in 0 .. len /\ n - 1 \in 0 .. len
      BY <2>2
    <3>2. Tells(t[n], v[n - 1], v[n])
      BY <1>1, <1>2, <3>1 DEF Leads
    <3> QED BY <1>4, <1>6, <3>1, <3>2
  <2> QED BY <2>1, <2>2
<1>10. 0 \in 0 .. len
  OBVIOUS
<1>11. Leads(w, u, s, g, next)
  BY <1>4, <1>6, <1>7, <1>8, <1>9, <1>10 DEF Leads
<1> QED BY <1>3, <1>4, <1>6, <1>11 DEF Chain

LEMMA ClientReads ==
    ASSUME MaxUid \in Nat, NEW t \in Seq(Item), NEW s \in Seq(Uids), NEW f \in Seq(Uids),
           NEW top \in Nat, NEW v \in [0 .. Len(t) -> Seq(Uids)], Leads(v, t, s, f, top),
           NEW k \in 0 .. Len(t)
    PROVE  /\ SubSeq(t, k + 1, Len(t)) \in Seq(Item)
           /\ Chain(SubSeq(t, k + 1, Len(t)), v[k], f, top)
<1>2. PICK len \in Nat : len = Len(t)
  OBVIOUS
<1>3. PICK u : u = SubSeq(t, k + 1, len)
  OBVIOUS
<1>4. u \in Seq(Item) /\ Len(u) = len - k /\ \A n \in 1 .. len - k : u[n] = t[n + k]
  BY <1>2, <1>3
<1>5. PICK w : w = [n \in 0 .. len - k |-> v[n + k]]
  OBVIOUS
<1>6. ASSUME NEW n \in 0 .. len - k PROVE n + k \in 0 .. len /\ w[n] = v[n + k] /\ w[n] \in Seq(Uids)
  <2>1. n + k \in 0 .. len
    BY <1>2
  <2> QED BY <1>2, <1>5, <2>1
<1>7. w \in [0 .. len - k -> Seq(Uids)]
  BY <1>5, <1>6
<1>8. w[0] = v[k] /\ w[len - k] = f
  <2>1. 0 \in 0 .. len - k /\ len - k \in 0 .. len - k /\ 0 + k = k /\ len - k + k = len
    BY <1>2
  <2>2. v[len] = f
    BY <1>2 DEF Leads
  <2> QED BY <1>6, <2>1, <2>2
<1>9. \A n \in 0 .. len - k : Ascends(w[n]) /\ Below(w[n], top) /\ NoneBetween(f, w[n])
  BY <1>2, <1>6 DEF Leads
<1>10. ASSUME NEW n \in 1 .. len - k PROVE Tells(u[n], w[n - 1], w[n])
  <2>1. n \in 0 .. len - k /\ n - 1 \in 0 .. len - k /\ n + k \in 1 .. len
        /\ n - 1 + k = n + k - 1
    BY <1>2
  <2>2. Tells(t[n + k], v[n + k - 1], v[n + k])
    BY <1>2, <2>1 DEF Leads
  <2>3. w[n - 1] = v[n + k - 1] /\ w[n] = v[n + k]
    BY <1>6, <2>1
  <2> QED BY <1>4, <2>2, <2>3
<1>11. Leads(w, u, v[k], f, top)
  BY <1>4, <1>8, <1>9, <1>10 DEF Leads
<1> QED BY <1>2, <1>3, <1>4, <1>7, <1>11 DEF Chain

-----------------------------------------------------------------------------
(* The headers and the sequence numbers of the session.  They ascend in the *)
(* order of the headers, without gaps; while no message was expunged every  *)
(* header has its place as its number.                                      *)
HeadersMatch(hdrs, s) ==
    \A i \in DOMAIN hdrs : hdrs[i].index # 0 =>
       hdrs[i].index <= Len(s) /\ s[hdrs[i].index] = hdrs[i].uid
NumbersAscend(hdrs) ==
    \A i, j \in DOMAIN hdrs :
       i < j /\ hdrs[i].index # 0 /\ hdrs[j].index # 0 => hdrs[i].index < hdrs[j].index
NoGaps(hdrs) ==
    \A i \in DOMAIN hdrs : hdrs[i].index > 1 =>
       \E j \in DOMAIN hdrs : j < i /\ hdrs[j].index = hdrs[i].index - 1
Numbered(hdrs) == \A i \in DOMAIN hdrs : hdrs[i].index = i
EditsKept(hdrs) ==
    \A i \in DOMAIN hdrs : hdrs[i].want # <<>> =>
       hdrs[i].changed /\ hdrs[i].want = <<hdrs[i].read, hdrs[i].deleted>>
InStep(d, hdrs, s) ==
    /\ HeadersMatch(hdrs, s) /\ NumbersAscend(hdrs) /\ NoGaps(hdrs)
    /\ ~d.expunge => Numbered(hdrs) /\ (d.newmail => d.newMailCount <= Len(s))

(* Numbers and UIDs are all that counts for that.                           *)
SameNumbers(g, h) ==
    /\ DOMAIN g = DOMAIN h
    /\ \A i \in DOMAIN g : g[i].index = h[i].index /\ g[i].uid = h[i].uid
LEMMA NumbersKept ==
    ASSUME NEW g, NEW h, SameNumbers(g, h), NEW s
    PROVE  /\ HeadersMatch(h, s) => HeadersMatch(g, s)
           /\ NumbersAscend(h) => NumbersAscend(g)
           /\ NoGaps(h) => NoGaps(g)
           /\ Numbered(h) => Numbered(g)
<1>1. HeadersMatch(h, s) => HeadersMatch(g, s)
  BY DEF SameNumbers, HeadersMatch
<1>2. NumbersAscend(h) => NumbersAscend(g)
  BY DEF SameNumbers, NumbersAscend
<1>3. NoGaps(h) => NoGaps(g)
  BY DEF SameNumbers, NoGaps
<1>4. Numbered(h) => Numbered(g)
  BY DEF SameNumbers, Numbered
<1> QED BY <1>1, <1>2, <1>3, <1>4

LEMMA HeaderTyped ==
    ASSUME NEW hdrs \in Seq(ImapHeader), NEW i \in DOMAIN hdrs
    PROVE  /\ hdrs[i] \in ImapHeader /\ hdrs[i].index \in Nat /\ hdrs[i].uid \in Uids
           /\ hdrs[i].read \in BOOLEAN /\ hdrs[i].deleted \in BOOLEAN
           /\ hdrs[i].changed \in BOOLEAN /\ hdrs[i].want \in Wants
<1>1. hdrs[i] \in ImapHeader
  OBVIOUS
<1> QED BY <1>1 DEF ImapHeader

(* A message expunged: its header has no number, and those behind it count  *)
(* one less.                                                                *)
LEMMA ExpungeKeeps ==
    ASSUME MaxUid \in Nat, NEW hdrs \in Seq(ImapHeader), NEW s \in Seq(Uids),
           NEW n \in 1 .. Len(s), HeadersMatch(hdrs, s), NumbersAscend(hdrs), NoGaps(hdrs),
           NEW g, g = [i \in DOMAIN hdrs |-> Imap!cmd_parse_expunge(hdrs[i], n)]
    PROVE  /\ g \in Seq(ImapHeader)
           /\ HeadersMatch(g, Imap!RemoveAt(s, n)) /\ NumbersAscend(g) /\ NoGaps(g)
           /\ EditsKept(hdrs) => EditsKept(g)
<1>1. ASSUME NEW i \in DOMAIN hdrs
      PROVE  /\ g[i] \in ImapHeader /\ hdrs[i].index \in Nat /\ g[i].uid = hdrs[i].uid
             /\ g[i].index = IF hdrs[i].index = n THEN 0
                             ELSE IF hdrs[i].index > n THEN hdrs[i].index - 1
                             ELSE hdrs[i].index
             /\ g[i].read = hdrs[i].read /\ g[i].deleted = hdrs[i].deleted
             /\ g[i].changed = hdrs[i].changed /\ g[i].want = hdrs[i].want
  <2>1. PICK h \in ImapHeader : h = hdrs[i]
    OBVIOUS
  <2>2. h.index \in Nat
    BY DEF ImapHeader
  <2>3. PICK k \in Nat : k = IF h.index = n THEN 0 ELSE IF h.index > n THEN h.index - 1
                             ELSE h.index
    BY <2>2
  <2>4. g[i] = [h EXCEPT !.index = k]
    <3>1. g[i] = Imap!cmd_parse_expunge(h, n)
      BY <2>1
    <3>2. h = [h EXCEPT !.index = h.index]
      BY DEF ImapHeader
    <3>3. CASE h.index = n
      BY <2>3, <3>1, <3>3 DEF Imap!cmd_parse_expunge
    <3>4. CASE h.index > n
      <4>1. h.index # n /\ k = h.index - 1
        BY <2>2, <2>3, <3>4
      <4> QED BY <3>1, <3>4, <4>1 DEF Imap!cmd_parse_expunge
    <3>5. CASE h.index < n
      <4>1. h.index # n /\ ~(h.index > n) /\ k = h.index
        BY <2>2, <2>3, <3>5
      <4>2. g[i] = h
        BY <3>1, <4>1 DEF Imap!cmd_parse_expunge
      <4> QED BY <3>2, <4>1, <4>2
    <3> QED BY <2>2, <3>3, <3>4, <3>5
  <2>5. \A x \in ImapHeader :
          LET y == [x EXCEPT !.index = k]
          IN  /\ y \in ImapHeader /\ y.index = k /\ y.uid = x.uid /\ y.read = x.read
              /\ y.deleted = x.deleted /\ y.changed = x.changed /\ y.want = x.want
    BY DEF ImapHeader
  <2> QED BY <2>1, <2>2, <2>3, <2>4, <2>5
<1>2. DOMAIN g = DOMAIN hdrs /\ g \in Seq(ImapHeader)
  <2>1. PICK len \in Nat : len = Len(hdrs)
    OBVIOUS
  <2>2. g \in [1 .. len -> ImapHeader]
    BY <1>1, <2>1
  <2>3. g \in Seq(ImapHeader)
    BY <2>2
  <2> QED BY <2>3
<1>3. PICK r : r = Imap!RemoveAt(s, n)
  OBVIOUS
<1>4. PICK len \in Nat : len = Len(s)
  OBVIOUS
<1>5. Len(r) = len - 1 /\ \A k \in 1 .. len - 1 : r[k] = IF k < n THEN s[k] ELSE s[k + 1]
  BY <1>3, <1>4, RemoveAtIs
<1>6. HeadersMatch(g, r)
  <2> SUFFICES ASSUME NEW i \in DOMAIN hdrs, g[i].index # 0
               PROVE  g[i].index <= Len(r) /\ r[g[i].index] = g[i].uid
    BY <1>2 DEF HeadersMatch
  <2>1. PICK k \in Nat : k = hdrs[i].index
    BY <1>1
  <2>2. k # 0 => k <= len /\ s[k] = hdrs[i].uid
    BY <1>4, <2>1 DEF HeadersMatch
  <2>3. CASE k < n
    <3>1. g[i].index = k /\ k \in 1 .. len - 1
      BY <1>1, <1>4, <2>1, <2>2, <2>3
    <3> QED BY <1>1, <1>5, <2>2, <2>3, <3>1
  <2>4. CASE k > n
    <3>1. g[i].index = k - 1 /\ k - 1 \in 1 .. len - 1 /\ ~(k - 1 < n) /\ k - 1 + 1 = k
      BY <1>1, <1>4, <2>1, <2>2, <2>4
    <3>2. r[k - 1] = s[k]
      BY <1>5, <3>1
    <3> QED BY <1>1, <1>5, <2>2, <2>4, <3>1, <3>2
  <2>5. k # n
    BY <1>1, <2>1
  <2> QED BY <2>3, <2>4, <2>5
<1>7. NumbersAscend(g)
  <2> SUFFICES ASSUME NEW i \in DOMAIN hdrs, NEW j \in DOMAIN hdrs, i < j,
                      g[i].index # 0, g[j].index # 0
               PROVE  g[i].index < g[j].index
    BY <1>2 DEF NumbersAscend
  <2>1. PICK a \in Nat : a = hdrs[i].index
    BY <1>1
  <2>2. PICK b \in Nat : b = hdrs[j].index
    BY <1>1
  <2>3. a # n /\ b # n /\ (a > n => g[i].index = a - 1) /\ (a < n => g[i].index = a)
        /\ (b > n => g[j].index = b - 1) /\ (b < n => g[j].index = b)
    BY <1>1, <2>1, <2>2
  <2>4. a # 0 /\ b # 0
    BY <2>3
  <2>5. a < b
    BY <2>1, <2>2, <2>4 DEF NumbersAscend
  <2> QED BY <2>3, <2>5
<1>8. NoGaps(g)
  <2> SUFFICES ASSUME NEW i \in DOMAIN hdrs, g[i].index > 1
               PROVE  \E j \in DOMAIN hdrs : j < i /\ g[j].index = g[i].index - 1
    BY <1>2 DEF NoGaps
  <2>1. PICK a \in Nat : a = hdrs[i].index
    BY <1>1
  <2>2. (a < n => g[i].index = a) /\ (a > n => g[i].index = a - 1) /\ a # n /\ a > 1
    BY <1>1, <2>1
  <2>3. PICK j \in DOMAIN hdrs : j < i /\ hdrs[j].index = a - 1
    BY <2>1, <2>2 DEF NoGaps
  <2>4. CASE a - 1 # n
    <3>1. PICK b \in Nat : b = a - 1
      BY <2>2
    <3>2. g[j].index = IF b > n THEN b - 1 ELSE b
      BY <1>1, <2>3, <2>4, <3>1
    <3>3. g[j].index = g[i].index - 1
      BY <2>2, <2>4, <3>1, <3>2
    <3> QED BY <2>3, <3>3
  <2>5. CASE a - 1 = n
    <3>1. hdrs[j].index > 1 /\ g[i].index = n /\ hdrs[j].index = n
      BY <2>2, <2>3, <2>5
    <3>2. PICK k \in DOMAIN hdrs : k < j /\ hdrs[k].index = n - 1
      BY <3>1 DEF NoGaps
    <3>3. g[k].index = n - 1
      BY <1>1, <3>2
    <3>4. k < i
      BY <2>3, <3>2
    <3> QED BY <3>1, <3>2, <3>3, <3>4
  <2> QED BY <2>4, <2>5
<1>9. EditsKept(hdrs) => EditsKept(g)
  BY <1>1, <1>2 DEF EditsKept
<1> QED BY <1>2, <1>3, <1>6, <1>7, <1>8, <1>9

(* An untagged response leaves headers and session in step.                 *)
Synced(S) == S \in SessionState /\ ~S.fatal /\ InStep(S.idata, S.hdrs, S.session)
StaysSelected(S, R) == /\ R.idata.selected = S.idata.selected
                       /\ EditsKept(S.hdrs) => EditsKept(R.hdrs)

LEMMA StateTyped ==
    ASSUME NEW S \in SessionState
    PROVE  /\ S.session \in Seq(Uids) /\ S.idata \in ImapData /\ S.hdrs \in Seq(ImapHeader)
           /\ S.fatal \in BOOLEAN /\ S.idata.newMailCount \in Nat
           /\ S.idata.expunge \in BOOLEAN /\ S.idata.newmail \in BOOLEAN
           /\ S.idata.allow \in BOOLEAN
BY DEF SessionState, ImapData

LEMMA ExistsKeeps ==
    ASSUME MaxUid \in Nat, NEW S, Synced(S), NEW item \in Item,
           Ascends(S.session), item.n = Len(S.session) + 1, Below(S.session, item.uid)
    PROVE  /\ Synced(Imap!HandleExists(S, item)) /\ StaysSelected(S, Imap!HandleExists(S, item))
           /\ Imap!HandleExists(S, item).session = Append(S.session, item.uid)
<1>1. PICK s \in Seq(Uids) : s = S.session
  BY StateTyped DEF Synced
<1>2. PICK hdrs \in Seq(ImapHeader) : hdrs = S.hdrs
  BY StateTyped DEF Synced
<1>3. PICK d \in ImapData : d = S.idata
  BY StateTyped DEF Synced
<1>4. PICK len \in Nat : len = Len(s)
  OBVIOUS
<1>5. PICK known \in Nat : known = Len(hdrs)
  OBVIOUS
<1>6. item.n = len + 1 /\ item.uid \in Uids
  BY <1>1, <1>4 DEF Item
<1>7. PICK r : r = Append(s, item.uid)
  OBVIOUS
<1>8. r \in Seq(Uids) /\ Len(r) = len + 1 /\ \A k \in 1 .. len : r[k] = s[k]
  BY <1>4, <1>6, <1>7
<1>9. HeadersMatch(hdrs, s) /\ NumbersAscend(hdrs) /\ NoGaps(hdrs)
      /\ (~d.expunge => Numbered(hdrs) /\ (d.newmail => d.newMailCount <= Len(s)))
  BY <1>1, <1>2, <1>3 DEF Synced, InStep
<1>10. ASSUME Numbered(hdrs) PROVE known <= len
  <2>1. CASE known = 0
    BY <2>1
  <2>2. CASE known # 0
    <3>1. known \in DOMAIN hdrs
      BY <1>5, <2>2
    <3>2. hdrs[known].index = known
      BY <1>10, <3>1 DEF Numbered
    <3> QED BY <1>4, <1>9, <2>2, <3>1, <3>2 DEF HeadersMatch
  <2> QED BY <2>1, <2>2
<1>11. HeadersMatch(hdrs, r)
  <2> SUFFICES ASSUME NEW i \in DOMAIN hdrs, hdrs[i].index # 0
               PROVE  hdrs[i].index <= Len(r) /\ r[hdrs[i].index] = hdrs[i].uid
    BY DEF HeadersMatch
  <2>1. PICK k \in Nat : k = hdrs[i].index
    BY HeaderTyped
  <2>2. k <= len /\ s[k] = hdrs[i].uid
    BY <1>4, <1>9, <2>1 DEF HeadersMatch
  <2>3. k \in 1 .. len
    BY <2>1, <2>2
  <2> QED BY <1>8, <2>1, <2>2, <2>3
<1>12. PICK skip \in BOOLEAN : skip = (len + 1 = known \/ (~d.expunge /\ len + 1 < known))
  OBVIOUS
<1>13. ~(~d.expunge /\ len + 1 < known)
  BY <1>9, <1>10
<1>14. PICK e : e = IF skip THEN d
                    ELSE [d EXCEPT !.newmail = d.newmail \/ ~d.expunge, !.newMailCount = len + 1]
  OBVIOUS
<1>15. d.newmail \in BOOLEAN /\ d.expunge \in BOOLEAN /\ d.newMailCount \in Nat
  BY DEF ImapData
<1>16. /\ e \in ImapData /\ e.expunge = d.expunge /\ e.selected = d.selected
       /\ ~d.expunge => (e.newmail => e.newMailCount <= len + 1)
  <2>1. PICK b \in BOOLEAN : b = (d.newmail \/ ~d.expunge)
    OBVIOUS
  <2>2. PICK n \in Nat : n = len + 1
    OBVIOUS
  <2>3. \A x \in ImapData :
          LET y == [x EXCEPT !.newmail = b, !.newMailCount = n]
          IN  y \in ImapData /\ y.expunge = x.expunge /\ y.selected = x.selected
              /\ y.newmail = b /\ y.newMailCount = n
    BY DEF ImapData
  <2>4. CASE skip
    BY <1>4, <1>9, <1>14, <1>15, <2>4
  <2>5. CASE ~skip
    <3>1. e = [d EXCEPT !.newmail = b, !.newMailCount = n]
      BY <1>14, <2>1, <2>2, <2>5
    <3>2. e \in ImapData /\ e.expunge = d.expunge /\ e.selected = d.selected
          /\ e.newMailCount = n
      BY <2>3, <3>1
    <3>3. n <= len + 1
      BY <2>2
    <3> QED BY <3>2, <3>3
  <2> QED BY <2>4, <2>5
<1>17. PICK R : R = [S EXCEPT !.session = r, !.fatal = FALSE, !.idata = e]
  OBVIOUS
<1>18. Imap!HandleExists(S, item) = R
  <2>1. S.fatal = FALSE
    BY StateTyped DEF Synced
  <2>2. (S.fatal \/ (~S.idata.expunge /\ item.n < Len(S.hdrs))) = FALSE
    BY <1>2, <1>3, <1>5, <1>6, <1>13, <2>1
  <2>3. (IF item.n = Len(S.hdrs) \/ (~S.idata.expunge /\ item.n < Len(S.hdrs)) THEN S.idata
         ELSE [S.idata EXCEPT !.newmail = S.idata.newmail \/ ~S.idata.expunge,
                              !.newMailCount = item.n]) = e
    BY <1>2, <1>3, <1>5, <1>6, <1>12, <1>14
  <2>4. Imap!HandleExists(S, item) =
          [S EXCEPT !.session = Append(S.session, item.uid),
                    !.fatal = S.fatal \/ (~S.idata.expunge /\ item.n < Len(S.hdrs)),
                    !.idata = IF item.n = Len(S.hdrs) \/ (~S.idata.expunge /\ item.n < Len(S.hdrs))
                              THEN S.idata
                              ELSE [S.idata EXCEPT !.newmail = S.idata.newmail \/ ~S.idata.expunge,
                                                   !.newMailCount = item.n]]
    BY DEF Imap!HandleExists
  <2> QED BY <1>1, <1>7, <1>17, <2>2, <2>3, <2>4
<1>19. R \in SessionState /\ R.session = r /\ R.fatal = FALSE /\ R.idata = e /\ R.hdrs = hdrs
  <2>1. \A x \in SessionState :
          LET y == [x EXCEPT !.session = r, !.fatal = FALSE, !.idata = e]
          IN  y \in SessionState /\ y.session = r /\ y.fatal = FALSE /\ y.idata = e
              /\ y.hdrs = x.hdrs
    BY <1>8, <1>16 DEF SessionState
  <2> QED BY <1>2, <1>17, <2>1 DEF Synced
<1>20. InStep(e, hdrs, r)
  BY <1>8, <1>9, <1>11, <1>16 DEF InStep
<1>21. Synced(R) /\ StaysSelected(S, R)
  BY <1>2, <1>3, <1>16, <1>19, <1>20 DEF Synced, StaysSelected
<1> QED BY <1>1, <1>7, <1>18, <1>19, <1>21

LEMMA ExpungeHandled ==
    ASSUME MaxUid \in Nat, NEW S, Synced(S), NEW item \in Item, item.n \in 1 .. Len(S.session)
    PROVE  /\ Synced(Imap!HandleExpunge(S, item)) /\ StaysSelected(S, Imap!HandleExpunge(S, item))
           /\ Imap!HandleExpunge(S, item).session = Imap!RemoveAt(S.session, item.n)
<1>1. PICK s \in Seq(Uids) : s = S.session
  BY StateTyped DEF Synced
<1>2. PICK hdrs \in Seq(ImapHeader) : hdrs = S.hdrs
  BY StateTyped DEF Synced
<1>3. PICK d \in ImapData : d = S.idata
  BY StateTyped DEF Synced
<1>4. PICK n \in 1 .. Len(s) : n = item.n
  BY <1>1
<1>5. PICK g : g = [i \in DOMAIN hdrs |-> Imap!cmd_parse_expunge(hdrs[i], n)]
  OBVIOUS
<1>6. HeadersMatch(hdrs, s) /\ NumbersAscend(hdrs) /\ NoGaps(hdrs)
  BY <1>1, <1>2, <1>3 DEF Synced, InStep
<1>7. /\ g \in Seq(ImapHeader) /\ HeadersMatch(g, Imap!RemoveAt(s, n)) /\ NumbersAscend(g)
      /\ NoGaps(g) /\ (EditsKept(hdrs) => EditsKept(g))
  BY <1>5, <1>6, ExpungeKeeps
<1>8. PICK r \in Seq(Uids) : r = Imap!RemoveAt(s, n)
  BY RemoveAtIs
<1>9. PICK e : e = [d EXCEPT !.expunge = TRUE]
  OBVIOUS
<1>10. e \in ImapData /\ e.expunge = TRUE /\ e.selected = d.selected
  <2>1. \A x \in ImapData : LET y == [x EXCEPT !.expunge = TRUE]
                            IN  y \in ImapData /\ y.expunge = TRUE /\ y.selected = x.selected
    BY DEF ImapData
  <2> QED BY <1>9, <2>1
<1>11. PICK R : R = [S EXCEPT !.session = r, !.hdrs = g, !.idata = e]
  OBVIOUS
<1>12. Imap!HandleExpunge(S, item) = R
  <2>1. Imap!HandleExpunge(S, item) =
          [S EXCEPT !.session = Imap!RemoveAt(S.session, item.n),
                    !.hdrs = [i \in DOMAIN S.hdrs |-> Imap!cmd_parse_expunge(S.hdrs[i], item.n)],
                    !.idata = [S.idata EXCEPT !.expunge = TRUE]]
    BY DEF Imap!HandleExpunge, Synced, SessionState
  <2> QED BY <1>1, <1>2, <1>3, <1>4, <1>5, <1>8, <1>9, <1>11, <2>1
<1>13. R \in SessionState /\ R.session = r /\ R.fatal = S.fatal /\ R.idata = e /\ R.hdrs = g
  <2>1. \A x \in SessionState :
          LET y == [x EXCEPT !.session = r, !.hdrs = g, !.idata = e]
          IN  y \in SessionState /\ y.session = r /\ y.fatal = x.fatal /\ y.idata = e
              /\ y.hdrs = g
    BY <1>7, <1>10 DEF SessionState
  <2> QED BY <1>11, <2>1 DEF Synced
<1>14. InStep(e, g, r)
  BY <1>7, <1>8, <1>10 DEF InStep
<1>15. Synced(R) /\ StaysSelected(S, R)
  BY <1>2, <1>3, <1>7, <1>10, <1>13, <1>14 DEF Synced, StaysSelected
<1> QED BY <1>1, <1>4, <1>8, <1>12, <1>13, <1>15

LEMMA FetchHandled ==
    ASSUME MaxUid \in Nat, flags \in [Uids -> Marks], NEW S, Synced(S), NEW item \in Item
    PROVE  /\ Synced(Imap!cmd_parse_fetch(S, item)) /\ StaysSelected(S, Imap!cmd_parse_fetch(S, item))
           /\ Imap!cmd_parse_fetch(S, item).session = S.session
<1>1. PICK s \in Seq(Uids) : s = S.session
  BY StateTyped DEF Synced
<1>2. PICK hdrs \in Seq(ImapHeader) : hdrs = S.hdrs
  BY StateTyped DEF Synced
<1>3. PICK d \in ImapData : d = S.idata
  BY StateTyped DEF Synced
<1>4. PICK hit : hit = {i \in DOMAIN hdrs : hdrs[i].index = item.n}
  OBVIOUS
<1>5. CASE hit = {}
  <2>1. Imap!cmd_parse_fetch(S, item) = S
    BY <1>2, <1>4, <1>5 DEF Imap!cmd_parse_fetch
  <2> QED BY <2>1 DEF StaysSelected
<1>6. CASE hit # {}
  <2>1. PICK i : i = CHOOSE j \in hit : TRUE
    OBVIOUS
  <2>2. i \in hit /\ i \in DOMAIN hdrs
    BY <1>4, <1>6, <2>1
  <2>3. PICK h \in ImapHeader : h = hdrs[i]
    BY <2>2
  <2>4. PICK q : q = Imap!imap_set_flags(h, item.uid)
    OBVIOUS
  <2>5. PICK m \in Marks : m = flags[item.uid]
    BY DEF Item
  <2>6. h.changed \in BOOLEAN /\ m.read \in BOOLEAN /\ m.deleted \in BOOLEAN
    BY DEF ImapHeader, Marks
  <2>7. /\ q \in ImapHeader /\ q.index = h.index /\ q.uid = h.uid /\ q.want = h.want
        /\ h.changed => q = h
    <3>1. CASE h.changed
      BY <2>4, <3>1 DEF Imap!imap_set_flags, Imap!Taken
    <3>2. CASE ~h.changed
      <4>1. q = [h EXCEPT !.read = m.read, !.deleted = m.deleted, !.changed = FALSE]
        BY <2>4, <2>5, <3>2 DEF Imap!imap_set_flags, Imap!Taken
      <4>2. PICK a \in BOOLEAN : a = m.read
        BY <2>6
      <4>3. PICK b \in BOOLEAN : b = m.deleted
        BY <2>6
      <4>4. \A x \in ImapHeader :
              LET y == [x EXCEPT !.read = a, !.deleted = b, !.changed = FALSE]
              IN  y \in ImapHeader /\ y.index = x.index /\ y.uid = x.uid /\ y.want = x.want
        BY DEF ImapHeader
      <4> QED BY <3>2, <4>1, <4>2, <4>3, <4>4
    <3> QED BY <3>1, <3>2
  <2>8. PICK g : g = [hdrs EXCEPT ![i] = q]
    OBVIOUS
  <2>9. PICK e : e = IF Imap!Taken(h) THEN [d EXCEPT !.check = "flags"] ELSE [d EXCEPT !.expunge = TRUE]
    OBVIOUS
  <2>10. PICK R : R = [S EXCEPT !.hdrs = g, !.idata = e]
    OBVIOUS
  <2>11. Imap!cmd_parse_fetch(S, item) = R
    <3>1. Imap!cmd_parse_fetch(S, item) =
            [S EXCEPT !.hdrs = [S.hdrs EXCEPT ![i] = Imap!imap_set_flags(S.hdrs[i], item.uid)],
                      !.idata = IF Imap!Taken(S.hdrs[i]) THEN [S.idata EXCEPT !.check = "flags"]
                                ELSE [S.idata EXCEPT !.expunge = TRUE]]
      BY <1>2, <1>4, <1>6, <2>1 DEF Imap!cmd_parse_fetch, Synced, SessionState
    <3> QED BY <1>2, <1>3, <2>3, <2>4, <2>8, <2>9, <2>10, <3>1
  <2>12. /\ g \in Seq(ImapHeader) /\ DOMAIN g = DOMAIN hdrs /\ g[i] = q
         /\ \A j \in DOMAIN hdrs : j # i => g[j] = hdrs[j]
    BY <2>2, <2>7, <2>8
  <2>13. SameNumbers(g, hdrs)
    BY <2>3, <2>7, <2>12 DEF SameNumbers
  <2>14. EditsKept(hdrs) => EditsKept(g)
    <3> SUFFICES ASSUME EditsKept(hdrs), NEW j \in DOMAIN hdrs, g[j].want # <<>>
                 PROVE  g[j].changed /\ g[j].want = <<g[j].read, g[j].deleted>>
      BY <2>12 DEF EditsKept
    <3>1. CASE j # i
      BY <2>12, <3>1 DEF EditsKept
    <3>2. CASE j = i
      <4>1. h.want # <<>>
        BY <2>7, <2>12, <3>2
      <4>2. h.changed /\ h.want = <<h.read, h.deleted>>
        BY <2>2, <2>3, <4>1 DEF EditsKept
      <4> QED BY <2>7, <2>12, <3>2, <4>2
    <3> QED BY <3>1, <3>2
  <2>15. /\ e \in ImapData /\ e.selected = d.selected
         /\ ~e.expunge => ~d.expunge /\ e.newmail = d.newmail /\ e.newMailCount = d.newMailCount
    <3>1. \A x \in ImapData :
            LET y == [x EXCEPT !.check = "flags"]
                z == [x EXCEPT !.expunge = TRUE]
            IN  /\ y \in ImapData /\ y.selected = x.selected /\ y.expunge = x.expunge
                /\ y.newmail = x.newmail /\ y.newMailCount = x.newMailCount
                /\ z \in ImapData /\ z.selected = x.selected /\ z.expunge
      BY DEF ImapData
    <3> QED BY <2>9, <3>1
  <2>16. R \in SessionState /\ R.session = s /\ R.fatal = S.fatal /\ R.idata = e /\ R.hdrs = g
    <3>1. \A x \in SessionState :
            LET y == [x EXCEPT !.hdrs = g, !.idata = e]
            IN  y \in SessionState /\ y.session = x.session /\ y.fatal = x.fatal
                /\ y.idata = e /\ y.hdrs = g
      BY <2>12, <2>15 DEF SessionState
    <3> QED BY <1>1, <2>10, <3>1 DEF Synced
  <2>17. InStep(d, hdrs, s)
    BY <1>1, <1>2, <1>3 DEF Synced
  <2>18. InStep(e, g, s)
    <3>1. HeadersMatch(hdrs, s) /\ NumbersAscend(hdrs) /\ NoGaps(hdrs)
          /\ (~d.expunge => Numbered(hdrs) /\ (d.newmail => d.newMailCount <= Len(s)))
      BY <2>17 DEF InStep
    <3>2. HeadersMatch(g, s) /\ NumbersAscend(g) /\ NoGaps(g) /\ (Numbered(hdrs) => Numbered(g))
      BY <2>13, <3>1, NumbersKept
    <3> QED BY <2>15, <3>1, <3>2 DEF InStep
  <2>19. Synced(R) /\ StaysSelected(S, R)
    BY <1>2, <1>3, <2>14, <2>15, <2>16, <2>18 DEF Synced, StaysSelected
  <2> QED BY <1>1, <2>11, <2>16, <2>19
<1> QED BY <1>5, <1>6

LEMMA ResponseHandled ==
    ASSUME MaxUid \in Nat, flags \in [Uids -> Marks], NEW S, Synced(S), NEW item \in Item,
           Ascends(S.session), NEW b, Tells(item, S.session, b)
    PROVE  /\ Synced(Imap!cmd_handle_untagged(S, item))
           /\ StaysSelected(S, Imap!cmd_handle_untagged(S, item))
           /\ Imap!cmd_handle_untagged(S, item).session = b
<1>1. ~S.fatal
  BY DEF Synced
<1>2. CASE item.kind = "EXISTS"
  <2>1. Imap!cmd_handle_untagged(S, item) = Imap!HandleExists(S, item)
    BY <1>1, <1>2 DEF Imap!cmd_handle_untagged
  <2>2. item.n = Len(S.session) + 1 /\ b = Append(S.session, item.uid) /\ Below(S.session, item.uid)
    BY <1>2 DEF Tells
  <2> QED BY <2>1, <2>2, ExistsKeeps
<1>3. CASE item.kind = "EXPUNGE"
  <2>1. Imap!cmd_handle_untagged(S, item) = Imap!HandleExpunge(S, item)
    BY <1>1, <1>3 DEF Imap!cmd_handle_untagged
  <2>2. item.n \in 1 .. Len(S.session) /\ b = Imap!RemoveAt(S.session, item.n)
    BY <1>3 DEF Tells
  <2> QED BY <2>1, <2>2, ExpungeHandled
<1>4. CASE item.kind = "FETCH"
  <2>1. Imap!cmd_handle_untagged(S, item) = Imap!cmd_parse_fetch(S, item)
    BY <1>1, <1>4 DEF Imap!cmd_handle_untagged
  <2>2. b = S.session
    BY <1>4 DEF Tells
  <2> QED BY <2>1, <2>2, FetchHandled
<1>5. item.kind \in {"EXISTS", "EXPUNGE", "FETCH"}
  BY DEF Item
<1> QED BY <1>2, <1>3, <1>4, <1>5

(* A NOOP handles some of the responses, one after the other.               *)
Now == [session |-> session, idata |-> idata, hdrs |-> box.hdrs, fatal |-> FALSE]
LEMMA NoopHolds ==
    ASSUME MaxUid \in Nat, flags \in [Uids -> Marks], told \in Seq(Item), NEW f, NEW top,
           NEW v \in [0 .. Len(told) -> Seq(Uids)], Leads(v, told, session, f, top),
           Synced(Now), EditsKept(box.hdrs), NEW k \in 0 .. Len(told)
    PROVE  /\ Synced(Imap!Noop(k)) /\ Imap!Noop(k).session = v[k]
           /\ Imap!Noop(k).idata.selected = idata.selected /\ EditsKept(Imap!Noop(k).hdrs)
<1> DEFINE Good(S, n) == /\ Synced(S) /\ S.session = v[n]
                         /\ S.idata.selected = idata.selected /\ EditsKept(S.hdrs)
           Loop(g) == g = [n \in 0 .. k |->
                             IF n = 0 THEN [session |-> session, idata |-> idata,
                                            hdrs |-> box.hdrs, fatal |-> FALSE]
                             ELSE Imap!cmd_handle_untagged(g[n - 1], told[n])]
<1>1. PICK turn : turn = [x \in (1 .. k) \X SessionState |-> Imap!cmd_handle_untagged(x[2], told[x[1]])]
  OBVIOUS
<1>2. PICK V : V = [n \in 0 .. k |-> {S \in SessionState : Good(S, n)}]
  OBVIOUS
<1>3. \A n \in 1 .. k : \A S \in SessionState : turn[<<n, S>>] = Imap!cmd_handle_untagged(S, told[n])
  BY <1>1
<1>4. PICK a : a = Now
  OBVIOUS
<1>5. a \in V[0]
  <2>1. Now.session = session /\ Now.idata = idata /\ Now.hdrs = box.hdrs
    BY DEF Now
  <2>2. 0 \in 0 .. k /\ v[0] = session
    BY DEF Leads
  <2>3. a \in SessionState /\ Good(a, 0)
    BY <1>4, <2>1, <2>2 DEF Synced
  <2> HIDE DEF Good
  <2> QED BY <1>2, <2>2, <2>3
<1>6. ASSUME NEW n \in 0 + 1 .. k, NEW S \in V[n - 1] PROVE turn[<<n, S>>] \in V[n]
  <2>1. /\ n \in 1 .. k /\ n - 1 \in 0 .. k /\ n \in 0 .. k /\ n \in 1 .. Len(told)
        /\ n - 1 \in 0 .. Len(told) /\ n \in 0 .. Len(told)
    OBVIOUS
  <2>2. S \in SessionState /\ Good(S, n - 1)
    BY <1>2, <2>1
  <2>3. PICK b \in Seq(Uids) : b = v[n]
    BY <2>1
  <2>4. told[n] \in Item /\ Tells(told[n], S.session, b) /\ Ascends(S.session)
    BY <2>1, <2>2, <2>3 DEF Leads
  <2>5. PICK R : R = Imap!cmd_handle_untagged(S, told[n])
    OBVIOUS
  <2>6. Synced(R) /\ StaysSelected(S, R) /\ R.session = b
    BY <2>2, <2>4, <2>5, ResponseHandled
  <2>7. R \in SessionState /\ Good(R, n)
    <3>1. R \in SessionState
      BY <2>6 DEF Synced
    <3>2. S.idata.selected = idata.selected /\ EditsKept(S.hdrs)
      BY <2>2
    <3>3. R.idata.selected = idata.selected /\ EditsKept(R.hdrs)
      BY <2>6, <3>2 DEF StaysSelected
    <3> QED BY <2>3, <2>6, <3>1, <3>3
  <2> HIDE DEF Good
  <2> QED BY <1>2, <1>3, <2>1, <2>2, <2>5, <2>7
<1>7. 0 \in Int /\ k \in Int /\ 0 <= k
  OBVIOUS
<1>8. ASSUME NEW g, Loop(g) PROVE g[k] \in V[k]
  <2>1. \A n \in 0 .. k : g[n] = IF n = 0 THEN a ELSE Imap!cmd_handle_untagged(g[n - 1], told[n])
    BY <1>4, <1>8 DEF Now
  <2>2. g[0] = a
    <3>1. 0 \in 0 .. k
      OBVIOUS
    <3> QED BY <2>1, <3>1
  <2>3. ASSUME NEW n \in 0 + 1 .. k, g[n - 1] \in V[n - 1] PROVE g[n] = turn[<<n, g[n - 1]>>]
    <3>1. n \in 1 .. k /\ n - 1 \in 0 .. k /\ n \in 0 .. k /\ n # 0
      OBVIOUS
    <3>2. g[n - 1] \in SessionState
      BY <1>2, <2>3, <3>1
    <3> QED BY <1>3, <2>1, <3>1, <3>2
  <2>4. Runs(g, 0, k, a, turn, V)
    BY <2>2, <2>3 DEF Runs
  <2>5. \A n \in 0 .. k : g[n] \in V[n]
    <3> HIDE DEF Good, Loop
    <3> QED BY <1>5, <1>6, <1>7, <2>4, TurnsEnd
  <2>6. k \in 0 .. k
    OBVIOUS
  <2> QED BY <2>5, <2>6
<1>9. \E g : Loop(g)
  <2>1. PICK g : /\ g = [n \in 0 .. k |-> g[n]] /\ Runs(g, 0, k, a, turn, V)
                 /\ \A n \in 0 .. k : g[n] \in V[n]
    <3> HIDE DEF Good, Loop
    <3> QED BY <1>5, <1>6, <1>7, TurnsRun
  <2>2. ASSUME NEW n \in 0 .. k
        PROVE  g[n] = IF n = 0 THEN a ELSE Imap!cmd_handle_untagged(g[n - 1], told[n])
    <3>1. CASE n = 0
      BY <2>1, <3>1 DEF Runs
    <3>2. CASE n # 0
      <4>1. n \in 1 .. k /\ n - 1 \in 0 .. k /\ n \in 0 + 1 .. k
        BY <3>2
      <4>2. g[n - 1] \in V[n - 1] /\ g[n - 1] \in SessionState
        BY <1>2, <2>1, <4>1
      <4> QED BY <1>3, <2>1, <3>2, <4>1, <4>2 DEF Runs
    <3> QED BY <3>1, <3>2
  <2>3. Loop(g)
    BY <1>4, <2>1, <2>2 DEF Now
  <2> QED BY <2>3
<1>10. PICK g : g = CHOOSE h : Loop(h)
  OBVIOUS
<1>11. Loop(g)
  BY <1>9, <1>10
<1>12. Imap!Noop(k) = g[k]
  BY <1>10 DEF Imap!Noop
<1>13. Good(g[k], k)
  <2>1. g[k] \in V[k] /\ k \in 0 .. k
    <3> HIDE DEF Loop
    <3> QED BY <1>8, <1>11
  <2> HIDE DEF Good, Loop
  <2> QED BY <1>2, <2>1
<1> QED BY <1>12, <1>13

-----------------------------------------------------------------------------
(* New headers get the numbers behind the ones there are.                   *)
LEMMA NumberedIsOrdered ==
    ASSUME NEW hdrs \in Seq(ImapHeader), Numbered(hdrs)
    PROVE  NumbersAscend(hdrs) /\ NoGaps(hdrs)
<1>1. NumbersAscend(hdrs)
  BY DEF Numbered, NumbersAscend
<1>2. ASSUME NEW i \in DOMAIN hdrs, hdrs[i].index > 1
      PROVE  \E j \in DOMAIN hdrs : j < i /\ hdrs[j].index = hdrs[i].index - 1
  <2>1. hdrs[i].index = i /\ i - 1 \in DOMAIN hdrs
    BY <1>2 DEF Numbered
  <2>2. hdrs[i - 1].index = i - 1
    BY <2>1 DEF Numbered
  <2> QED BY <2>1, <2>2
<1> QED BY <1>1, <1>2 DEF NoGaps

LEMMA HeadersRead ==
    ASSUME MaxUid \in Nat, flags \in [Uids -> Marks], NEW hdrs \in Seq(ImapHeader),
           NEW s \in Seq(Uids), NEW to \in Nat, Len(hdrs) <= to, to <= Len(s),
           Numbered(hdrs), HeadersMatch(hdrs, s), NEW r,
           r = Imap!imap_read_headers(hdrs, s, Len(hdrs), to)
    PROVE  /\ r \in Seq(ImapHeader) /\ Numbered(r) /\ HeadersMatch(r, s)
           /\ EditsKept(hdrs) => EditsKept(r)
<1>1. PICK from \in Nat : from = Len(hdrs)
  OBVIOUS
<1>2. PICK q : q = [k \in 1 .. to - from |-> Imap!HeaderOf(s[from + k], from + k)]
  OBVIOUS
<1>3. ASSUME NEW k \in 1 .. to - from
      PROVE  /\ q[k] \in ImapHeader /\ q[k].index = from + k /\ q[k].uid = s[from + k]
             /\ q[k].want = <<>> /\ from + k \in 1 .. Len(s)
  <2>1. PICK n \in Nat : n = from + k
    BY <1>1
  <2>2. n \in 1 .. Len(s)
    BY <1>1, <2>1
  <2>3. PICK u \in Uids : u = s[n]
    BY <2>2
  <2>4. PICK m \in Marks : m = flags[u]
    OBVIOUS
  <2>5. q[k] = [uid |-> u, index |-> n, read |-> m.read, deleted |-> m.deleted,
                changed |-> FALSE, want |-> <<>>]
    BY <1>2, <2>1, <2>3, <2>4 DEF Imap!HeaderOf
  <2>6. m.read \in BOOLEAN /\ m.deleted \in BOOLEAN /\ <<>> \in Wants
    BY DEF Marks, Wants
  <2> QED BY <2>1, <2>2, <2>3, <2>5, <2>6 DEF ImapHeader
<1>4. q \in Seq(ImapHeader) /\ Len(q) = to - from
  <2>1. to - from \in Nat
    BY <1>1
  <2>2. q \in [1 .. to - from -> ImapHeader]
    BY <1>2, <1>3
  <2> QED BY <2>1, <2>2
<1>5. r = hdrs \o q
  BY <1>1, <1>2 DEF Imap!imap_read_headers
<1>6. r \in Seq(ImapHeader) /\ Len(r) = to
  BY <1>1, <1>4, <1>5
<1>7. ASSUME NEW i \in DOMAIN r
      PROVE  \/ i \in DOMAIN hdrs /\ r[i] = hdrs[i]
             \/ i - from \in 1 .. to - from /\ r[i] = q[i - from]
  <2>1. i \in 1 .. to
    BY <1>6
  <2> QED BY <1>1, <1>4, <1>5, <2>1
<1>8. Numbered(r)
  <2> SUFFICES ASSUME NEW i \in DOMAIN r PROVE r[i].index = i
    BY DEF Numbered
  <2>1. CASE i \in DOMAIN hdrs /\ r[i] = hdrs[i]
    BY <2>1 DEF Numbered
  <2>2. CASE i - from \in 1 .. to - from /\ r[i] = q[i - from]
    <3>1. i \in Int /\ from + (i - from) = i
      BY <1>1, <1>6
    <3> QED BY <1>3, <2>2, <3>1
  <2> QED BY <1>7, <2>1, <2>2
<1>9. HeadersMatch(r, s)
  <2> SUFFICES ASSUME NEW i \in DOMAIN r, r[i].index # 0
               PROVE  r[i].index <= Len(s) /\ s[r[i].index] = r[i].uid
    BY DEF HeadersMatch
  <2>1. CASE i \in DOMAIN hdrs /\ r[i] = hdrs[i]
    BY <2>1 DEF HeadersMatch
  <2>2. CASE i - from \in 1 .. to - from /\ r[i] = q[i - from]
    <3>1. PICK k \in 1 .. to - from : k = i - from
      BY <2>2
    <3>2. r[i].index = from + k /\ r[i].uid = s[from + k] /\ from + k \in 1 .. Len(s)
      BY <1>3, <2>2, <3>1
    <3> QED BY <3>2
  <2> QED BY <1>7, <2>1, <2>2
<1>10. EditsKept(hdrs) => EditsKept(r)
  <2> SUFFICES ASSUME EditsKept(hdrs), NEW i \in DOMAIN r, r[i].want # <<>>
               PROVE  r[i].changed /\ r[i].want = <<r[i].read, r[i].deleted>>
    BY DEF EditsKept
  <2>1. CASE i \in DOMAIN hdrs /\ r[i] = hdrs[i]
    BY <2>1 DEF EditsKept
  <2>2. CASE i - from \in 1 .. to - from /\ r[i] = q[i - from]
    BY <1>3, <2>2
  <2> QED BY <1>7, <2>1, <2>2
<1> QED BY <1>6, <1>8, <1>9, <1>10

(* Without the expunged ones the headers that are left are numbered by      *)
(* their places.                                                            *)
LEMMA MailboxExpunged ==
    ASSUME MaxUid \in Nat, NEW hdrs \in Seq(ImapHeader), NEW s \in Seq(Uids),
           HeadersMatch(hdrs, s), NumbersAscend(hdrs), NoGaps(hdrs), NEW r,
           r = Imap!imap_expunge_mailbox(hdrs)
    PROVE  /\ r \in Seq(ImapHeader) /\ Numbered(r) /\ HeadersMatch(r, s)
           /\ EditsKept(hdrs) => EditsKept(r)
<1>1. PICK places : places = {i \in DOMAIN hdrs : hdrs[i].index # 0}
  OBVIOUS
<1>2. r = Imap!Picked(hdrs, places)
  BY <1>1 DEF Imap!imap_expunge_mailbox
<1>3. r \in Seq(ImapHeader) /\ PickedOf(r, hdrs, places, Len(hdrs))
  BY <1>2, PickedIs
<1>4. PICK m \in [DOMAIN r -> 1 .. Len(hdrs)] : PickedUpto(r, m, hdrs, places, Len(hdrs))
  BY <1>3 DEF PickedOf
<1>5. \A j \in DOMAIN r : m[j] \in DOMAIN hdrs /\ r[j] = hdrs[m[j]] /\ r[j].index # 0
  BY <1>1, <1>4 DEF PickedUpto
<1>6. \A j, k \in DOMAIN r : j < k => m[j] < m[k]
  BY <1>4 DEF PickedUpto
<1>7. \A i \in DOMAIN hdrs : hdrs[i].index # 0 => \E j \in DOMAIN r : m[j] = i
  BY <1>1, <1>4 DEF PickedUpto
<1>8. PICK len \in Nat : len = Len(r) /\ DOMAIN r = 1 .. len
  BY <1>3
<1> DEFINE G == {n \in 0 .. len : \A j \in 1 .. n : r[j].index = j}
<1>9. 0 \in G
  OBVIOUS
<1>10. ASSUME NEW n \in 1 .. len, n - 1 \in G PROVE n \in G
  <2>1. n \in DOMAIN r /\ \A j \in 1 .. n - 1 : r[j].index = j
    BY <1>8, <1>10
  <2>2. PICK x \in Nat : x = r[n].index
    BY <1>3, <2>1, HeaderTyped
  <2>3. x # 0 /\ m[n] \in DOMAIN hdrs /\ hdrs[m[n]].index = x
    BY <1>5, <2>1, <2>2
  <2>4. x >= n
    <3>1. CASE n = 1
      BY <2>3, <3>1
    <3>2. CASE n # 1
      <4>1. n - 1 \in DOMAIN r /\ n - 1 \in 1 .. n - 1
        BY <1>8, <3>2
      <4>2. m[n - 1] < m[n] /\ r[n - 1].index = n - 1
        BY <1>6, <2>1, <4>1
      <4>3. m[n - 1] \in DOMAIN hdrs /\ hdrs[m[n - 1]].index = n - 1 /\ n - 1 # 0
        BY <1>5, <3>2, <4>1, <4>2
      <4>4. n - 1 < x
        BY <2>3, <4>2, <4>3 DEF NumbersAscend
      <4> QED BY <4>4
    <3> QED BY <3>1, <3>2
  <2>5. ASSUME x > n PROVE FALSE
    <3>1. x > 1
      BY <2>5
    <3>2. PICK i \in DOMAIN hdrs : i < m[n] /\ hdrs[i].index = x - 1
      BY <2>3, <3>1 DEF NoGaps
    <3>3. x - 1 # 0
      BY <3>1
    <3>4. PICK j \in DOMAIN r : m[j] = i
      BY <1>7, <3>2, <3>3
    <3>5. ~(n < j) /\ j # n
      BY <1>6, <2>1, <3>2, <3>4
    <3>6. j \in 1 .. n - 1
      BY <1>8, <3>5
    <3>7. r[j].index = j /\ r[j].index = x - 1
      BY <1>5, <2>1, <3>2, <3>4, <3>6
    <3> QED BY <2>5, <3>6, <3>7
  <2>6. r[n].index = n
    BY <2>2, <2>4, <2>5
  <2>7. \A j \in 1 .. n : j \in 1 .. n - 1 \/ j = n
    OBVIOUS
  <2> QED BY <2>1, <2>6, <2>7
<1>11. Numbered(r)
  <2>1. \A n \in 0 .. len : n \in G
    <3>1. ASSUME NEW n \in 0 + 1 .. len, n - 1 \in G PROVE n \in G
      <4>1. n \in 1 .. len
        OBVIOUS
      <4> HIDE DEF G
      <4> QED BY <1>10, <3>1, <4>1
    <3>2. 0 \in Int /\ len \in Int
      OBVIOUS
    <3> HIDE DEF G
    <3> QED BY <1>9, <3>1, <3>2, Along
  <2>2. len \in 0 .. len
    OBVIOUS
  <2> QED BY <1>8, <2>1, <2>2 DEF Numbered
<1>12. HeadersMatch(r, s)
  BY <1>5 DEF HeadersMatch
<1>13. EditsKept(hdrs) => EditsKept(r)
  BY <1>5 DEF EditsKept
<1> QED BY <1>3, <1>11, <1>12, <1>13

(* The end of a command keeps headers and session in step.                  *)
LEMMA FinishHolds ==
    ASSUME MaxUid \in Nat, flags \in [Uids -> Marks], NEW S, Synced(S)
    PROVE  /\ Synced(Imap!imap_cmd_finish(S)) /\ StaysSelected(S, Imap!imap_cmd_finish(S))
           /\ Imap!imap_cmd_finish(S).session = S.session
<1>1. PICK s \in Seq(Uids) : s = S.session
  BY StateTyped DEF Synced
<1>2. PICK hdrs \in Seq(ImapHeader) : hdrs = S.hdrs
  BY StateTyped DEF Synced
<1>3. PICK d \in ImapData : d = S.idata
  BY StateTyped DEF Synced
<1>4. HeadersMatch(hdrs, s) /\ NumbersAscend(hdrs) /\ NoGaps(hdrs)
      /\ (~d.expunge => Numbered(hdrs) /\ (d.newmail => d.newMailCount <= Len(s)))
  BY <1>1, <1>2, <1>3 DEF Synced, InStep
<1>6. ASSUME NEW e \in ImapData, NEW g \in Seq(ImapHeader), e.selected = d.selected,
             Numbered(g), HeadersMatch(g, s), EditsKept(hdrs) => EditsKept(g), ~e.newmail,
             NEW R, R = [S EXCEPT !.hdrs = g, !.idata = e]
      PROVE  Synced(R) /\ StaysSelected(S, R) /\ R.session = S.session
  <2>0. S \in SessionState /\ R = [S EXCEPT !.hdrs = g, !.idata = e]
    BY <1>6 DEF Synced
  <2>1. R \in SessionState /\ R.session = s /\ R.fatal = S.fatal /\ R.idata = e /\ R.hdrs = g
    <3>1. \A x \in SessionState :
            LET y == [x EXCEPT !.hdrs = g, !.idata = e]
            IN  y \in SessionState /\ y.session = x.session /\ y.fatal = x.fatal
                /\ y.idata = e /\ y.hdrs = g
      BY DEF SessionState
    <3> QED BY <1>1, <2>0, <3>1
  <2>2. InStep(e, g, s)
    <3>1. NumbersAscend(g) /\ NoGaps(g)
      BY <1>6, NumberedIsOrdered
    <3> QED BY <1>6, <3>1 DEF InStep
  <2> QED BY <1>1, <1>2, <1>3, <1>6, <2>1, <2>2 DEF Synced, StaysSelected
<1>7. CASE S.fatal \/ ~d.allow
  <2>1. Imap!imap_cmd_finish(S) = S
    BY <1>3, <1>7 DEF Imap!imap_cmd_finish
  <2> QED BY <2>1 DEF StaysSelected
<1>8. CASE ~(S.fatal \/ ~d.allow) /\ ~d.expunge /\ d.newmail /\ d.newMailCount > Len(hdrs)
  <2>1. PICK to \in Nat : to = d.newMailCount
    BY DEF ImapData
  <2>2. PICK g : g = Imap!imap_read_headers(hdrs, s, Len(hdrs), to)
    OBVIOUS
  <2>3. Len(hdrs) <= to /\ to <= Len(s) /\ Numbered(hdrs)
    BY <1>4, <1>8, <2>1
  <2>4. g \in Seq(ImapHeader) /\ Numbered(g) /\ HeadersMatch(g, s)
        /\ (EditsKept(hdrs) => EditsKept(g))
    BY <1>4, <2>2, <2>3, HeadersRead
  <2>5. PICK e : e = [d EXCEPT !.check = "new mail", !.newmail = FALSE, !.newMailCount = 0]
    OBVIOUS
  <2>6. e \in ImapData /\ e.selected = d.selected /\ ~e.newmail
    <3>1. \A x \in ImapData :
            LET y == [x EXCEPT !.check = "new mail", !.newmail = FALSE, !.newMailCount = 0]
            IN  y \in ImapData /\ y.selected = x.selected /\ y.newmail = FALSE
      BY DEF ImapData
    <3> QED BY <2>5, <3>1
  <2>7. Imap!imap_cmd_finish(S) = [S EXCEPT !.hdrs = g, !.idata = e]
    BY <1>1, <1>2, <1>3, <1>8, <2>1, <2>2, <2>5 DEF Imap!imap_cmd_finish
  <2> QED BY <1>6, <2>4, <2>6, <2>7
<1>9. CASE /\ ~(S.fatal \/ ~d.allow) /\ d.expunge
           /\ ~(~d.expunge /\ d.newmail /\ d.newMailCount > Len(hdrs))
  <2>1. PICK g : g = Imap!imap_expunge_mailbox(hdrs)
    OBVIOUS
  <2>2. g \in Seq(ImapHeader) /\ Numbered(g) /\ HeadersMatch(g, s)
        /\ (EditsKept(hdrs) => EditsKept(g))
    BY <1>4, <2>1, MailboxExpunged
  <2>3. PICK e : e = [d EXCEPT !.check = "expunge", !.expunge = FALSE, !.newmail = FALSE]
    OBVIOUS
  <2>4. e \in ImapData /\ e.selected = d.selected /\ ~e.newmail
    <3>1. \A x \in ImapData :
            LET y == [x EXCEPT !.check = "expunge", !.expunge = FALSE, !.newmail = FALSE]
            IN  y \in ImapData /\ y.selected = x.selected /\ y.newmail = FALSE
      BY DEF ImapData
    <3> QED BY <2>3, <3>1
  <2>5. Imap!imap_cmd_finish(S) = [S EXCEPT !.hdrs = g, !.idata = e]
    BY <1>2, <1>3, <1>9, <2>1, <2>3 DEF Imap!imap_cmd_finish
  <2> QED BY <1>6, <2>2, <2>4, <2>5
<1>10. CASE /\ ~(S.fatal \/ ~d.allow) /\ ~d.expunge
            /\ ~(~d.expunge /\ d.newmail /\ d.newMailCount > Len(hdrs))
  <2>1. Imap!imap_cmd_finish(S) = S
    BY <1>2, <1>3, <1>10 DEF Imap!imap_cmd_finish
  <2> QED BY <2>1 DEF StaysSelected
<1> QED BY <1>7, <1>8, <1>9, <1>10

-----------------------------------------------------------------------------
(* The headers sorted by their numbers.                                     *)
LEMMA ForemostIs ==
    ASSUME NEW hdrs \in Seq(ImapHeader), NEW left \in SUBSET DOMAIN hdrs, left # {}
    PROVE  /\ Imap!Foremost(hdrs, left) \in left
           /\ \A j \in left \ {Imap!Foremost(hdrs, left)} : Imap!Before(hdrs, Imap!Foremost(hdrs, left), j)
<1>1. PICK numbers : numbers = {hdrs[i].index : i \in left}
  OBVIOUS
<1>2. \A i \in left : hdrs[i].index \in Nat /\ i \in Nat
  BY HeaderTyped
<1>3. PICK low : low = Imap!Min(numbers)
  OBVIOUS
<1>4. low \in numbers /\ \A y \in numbers : low <= y
  <2>1. 0 \in Int /\ numbers # {} /\ \A x \in numbers : x \in Int /\ 0 <= x
    BY <1>1, <1>2
  <2> QED BY <1>3, <2>1, LeastOf
<1>5. PICK lows : lows = {i \in left : hdrs[i].index = low}
  OBVIOUS
<1>6. PICK f : f = Imap!Min(lows)
  OBVIOUS
<1>7. f \in lows /\ \A y \in lows : f <= y
  <2>1. 0 \in Int /\ lows # {} /\ \A x \in lows : x \in Int /\ 0 <= x
    BY <1>1, <1>2, <1>4, <1>5
  <2> QED BY <1>6, <2>1, LeastOf
<1>8. f \in left /\ hdrs[f].index = low
  BY <1>5, <1>7
<1>9. ASSUME NEW j \in left \ {f} PROVE Imap!Before(hdrs, f, j)
  <2>1. hdrs[j].index \in numbers /\ hdrs[j].index \in Nat /\ low \in Nat /\ j \in Nat /\ f \in Nat
    BY <1>1, <1>2, <1>8
  <2>2. low <= hdrs[j].index
    BY <1>4, <2>1
  <2>3. CASE hdrs[j].index = low
    <3>1. j \in lows
      BY <1>5, <2>3
    <3>2. f <= j /\ f # j
      BY <1>7, <3>1
    <3> QED BY <1>8, <2>1, <2>3, <3>2 DEF Imap!Before
  <2>4. CASE hdrs[j].index # low
    BY <1>8, <2>1, <2>2, <2>4 DEF Imap!Before
  <2> QED BY <2>3, <2>4
<1>10. \E i \in left : \A j \in left \ {i} : Imap!Before(hdrs, i, j)
  BY <1>8, <1>9
<1> QED BY <1>10 DEF Imap!Foremost

SortedUpto(a, n, hdrs) ==
    /\ Len(a) = n /\ IsFiniteSet(Imap!Range(a)) /\ Cardinality(Imap!Range(a)) = n
    /\ \A j, k \in 1 .. n : j < k => Imap!Before(hdrs, a[j], a[k])
    /\ \A j \in 1 .. n : \A i \in DOMAIN hdrs \ Imap!Range(a) : Imap!Before(hdrs, a[j], i)
LEMMA SortsOne ==
    ASSUME NEW hdrs \in Seq(ImapHeader), NEW n \in 1 .. Len(hdrs),
           NEW a \in Seq(DOMAIN hdrs), SortedUpto(a, n - 1, hdrs), NEW b,
           b = Append(a, Imap!Foremost(hdrs, DOMAIN hdrs \ Imap!Range(a)))
    PROVE  b \in Seq(DOMAIN hdrs) /\ SortedUpto(b, n, hdrs)
<1>1. PICK len \in Nat : len = Len(hdrs)
  OBVIOUS
<1>2. PICK left : left = DOMAIN hdrs \ Imap!Range(a)
  OBVIOUS
<1>3. Len(a) = n - 1 /\ IsFiniteSet(Imap!Range(a)) /\ Cardinality(Imap!Range(a)) = n - 1
  BY DEF SortedUpto
<1>4. left # {}
  <2> SUFFICES ASSUME left = {} PROVE FALSE
    OBVIOUS
  <2>1. \A j \in DOMAIN a : a[j] \in DOMAIN hdrs
    OBVIOUS
  <2>2. Imap!Range(a) = 1 .. len
    BY <1>1, <1>2, <2>1 DEF Imap!Range
  <2>3. Cardinality(1 .. len) = len
    BY FS_Interval
  <2> QED BY <1>1, <1>3, <2>2, <2>3
<1>5. PICK x : x = Imap!Foremost(hdrs, left)
  OBVIOUS
<1>6. x \in left /\ \A j \in left \ {x} : Imap!Before(hdrs, x, j)
  <2>1. left \in SUBSET DOMAIN hdrs
    BY <1>2
  <2> QED BY <1>4, <1>5, <2>1, ForemostIs
<1>7. b = Append(a, x) /\ x \in DOMAIN hdrs /\ x \notin Imap!Range(a)
  BY <1>2, <1>5, <1>6
<1>8. /\ b \in Seq(DOMAIN hdrs) /\ Len(b) = n /\ b[n] = x /\ DOMAIN b = 1 .. n
      /\ DOMAIN a = 1 .. n - 1 /\ \A j \in 1 .. n - 1 : b[j] = a[j]
  BY <1>3, <1>7
<1>9. Imap!Range(b) = Imap!Range(a) \cup {x}
  <2>1. ASSUME NEW y \in Imap!Range(b) PROVE y \in Imap!Range(a) \cup {x}
    <3>1. PICK j \in 1 .. n : y = b[j]
      BY <1>8, <2>1 DEF Imap!Range
    <3>2. CASE j = n
      BY <1>8, <3>1, <3>2
    <3>3. CASE j # n
      <4>1. j \in 1 .. n - 1
        BY <3>3
      <4> QED BY <1>8, <3>1, <4>1 DEF Imap!Range
    <3> QED BY <3>2, <3>3
  <2>2. ASSUME NEW y \in Imap!Range(a) PROVE y \in Imap!Range(b)
    <3>1. PICK j \in 1 .. n - 1 : y = a[j]
      BY <1>8, <2>2 DEF Imap!Range
    <3>2. j \in DOMAIN b
      BY <1>8
    <3> QED BY <1>8, <3>1, <3>2 DEF Imap!Range
  <2>3. n \in DOMAIN b
    BY <1>8
  <2>4. x \in Imap!Range(b)
    BY <1>8, <2>3 DEF Imap!Range
  <2> QED BY <2>1, <2>2, <2>4
<1>10. IsFiniteSet(Imap!Range(b)) /\ Cardinality(Imap!Range(b)) = n
  <2>1. IsFiniteSet(Imap!Range(a) \cup {x}) /\ Cardinality(Imap!Range(a) \cup {x}) = n - 1 + 1
    BY <1>3, <1>7, FS_AddElement
  <2>2. n - 1 + 1 = n
    OBVIOUS
  <2>3. Cardinality(Imap!Range(a) \cup {x}) = n
    BY <2>1, <2>2
  <2> QED BY <1>9, <2>1, <2>3, Zenon
<1>11. ASSUME NEW j \in 1 .. n, NEW k \in 1 .. n, j < k PROVE Imap!Before(hdrs, b[j], b[k])
  <2>1. j \in 1 .. n - 1 /\ b[j] = a[j]
    BY <1>8, <1>11
  <2>2. CASE k = n
    <3>1. x \in DOMAIN hdrs \ Imap!Range(a)
      BY <1>7
    <3> QED BY <1>8, <2>1, <2>2, <3>1 DEF SortedUpto
  <2>3. CASE k # n
    <3>1. k \in 1 .. n - 1 /\ b[k] = a[k]
      BY <1>8, <2>3
    <3> QED BY <1>11, <2>1, <3>1 DEF SortedUpto
  <2> QED BY <2>2, <2>3
<1>12. ASSUME NEW j \in 1 .. n, NEW i \in DOMAIN hdrs \ Imap!Range(b) PROVE Imap!Before(hdrs, b[j], i)
  <2>1. i \in DOMAIN hdrs \ Imap!Range(a) /\ i # x
    BY <1>9
  <2>2. CASE j = n
    <3>1. i \in left \ {x}
      BY <1>2, <2>1
    <3> QED BY <1>6, <1>8, <2>2, <3>1
  <2>3. CASE j # n
    <3>1. j \in 1 .. n - 1 /\ b[j] = a[j]
      BY <1>8, <2>3
    <3> QED BY <2>1, <3>1 DEF SortedUpto
  <2> QED BY <2>2, <2>3
<1> QED BY <1>8, <1>10, <1>11, <1>12 DEF SortedUpto

SortedBy(p, hdrs) ==
    /\ Imap!Sorted(hdrs) = [n \in DOMAIN hdrs |-> hdrs[p[n]]]
    /\ \A m, n \in DOMAIN hdrs : m < n => Imap!Before(hdrs, p[m], p[n])
    /\ \A i \in DOMAIN hdrs : \E n \in DOMAIN hdrs : p[n] = i
LEMMA SortedIs ==
    ASSUME NEW hdrs \in Seq(ImapHeader)
    PROVE  \E p \in [DOMAIN hdrs -> DOMAIN hdrs] : SortedBy(p, hdrs)
<1> DEFINE Next1(a) == Append(a, Imap!Foremost(hdrs, DOMAIN hdrs \ Imap!Range(a)))
           Good(n) == {a \in Seq(DOMAIN hdrs) : SortedUpto(a, n, hdrs)}
           Loop(f) == f = [n \in 0 .. Len(hdrs) |->
                             IF n = 0 THEN <<>>
                             ELSE Append(f[n - 1],
                                         Imap!Foremost(hdrs, DOMAIN hdrs \ Imap!Range(f[n - 1])))]
<1>0. PICK len \in Nat : len = Len(hdrs) /\ DOMAIN hdrs = 1 .. len
  OBVIOUS
<1>1. PICK turn : turn = [x \in (1 .. len) \X Seq(DOMAIN hdrs) |-> Next1(x[2])]
  OBVIOUS
<1>2. PICK V : V = [n \in 0 .. len |-> Good(n)]
  OBVIOUS
<1>3. \A n \in 1 .. len : \A a \in Seq(DOMAIN hdrs) : turn[<<n, a>>] = Next1(a)
  <2> HIDE DEF Next1
  <2> QED BY <1>1
<1>4. <<>> \in V[0]
  <2>1. Imap!Range(<<>>) = {} /\ IsFiniteSet({}) /\ Cardinality({}) = 0
    BY FS_EmptySet DEF Imap!Range
  <2>2. SortedUpto(<<>>, 0, hdrs) /\ <<>> \in Seq(DOMAIN hdrs)
    <3>1. Len(<<>>) = 0 /\ 1 .. 0 = {} /\ <<>> \in Seq(DOMAIN hdrs)
      OBVIOUS
    <3>2. /\ \A j, k \in 1 .. 0 : j < k => Imap!Before(hdrs, <<>>[j], <<>>[k])
          /\ \A j \in 1 .. 0 : \A i \in DOMAIN hdrs \ Imap!Range(<<>>) : Imap!Before(hdrs, <<>>[j], i)
      BY <3>1, Zenon
    <3>3. IsFiniteSet(Imap!Range(<<>>)) /\ Cardinality(Imap!Range(<<>>)) = 0
      BY <2>1, Zenon
    <3> QED BY <3>1, <3>2, <3>3 DEF SortedUpto
  <2>3. 0 \in 0 .. len
    OBVIOUS
  <2> QED BY <1>2, <2>2, <2>3
<1>5. ASSUME NEW n \in 0 + 1 .. len, NEW a \in V[n - 1] PROVE turn[<<n, a>>] \in V[n]
  <2>1. n \in 1 .. len /\ n - 1 \in 0 .. len /\ n \in 0 .. len
    OBVIOUS
  <2>2. a \in Seq(DOMAIN hdrs) /\ SortedUpto(a, n - 1, hdrs)
    BY <1>2, <2>1
  <2>3. PICK b : b = Append(a, Imap!Foremost(hdrs, DOMAIN hdrs \ Imap!Range(a)))
    OBVIOUS
  <2>4. b \in Seq(DOMAIN hdrs) /\ SortedUpto(b, n, hdrs)
    <3> HIDE DEF Good, Next1
    <3> QED BY <1>0, <2>1, <2>2, <2>3, SortsOne
  <2>5. b \in Good(n) /\ b = Next1(a)
    BY <2>3, <2>4
  <2> HIDE DEF Good, Next1
  <2> QED BY <1>2, <1>3, <2>1, <2>2, <2>5
<1>6. 0 \in Int /\ len \in Int /\ 0 <= len
  OBVIOUS
<1>7. ASSUME NEW f, Loop(f) PROVE f[len] \in V[len]
  <2>1. \A n \in 0 .. len : f[n] = IF n = 0 THEN <<>> ELSE Next1(f[n - 1])
    BY <1>0, <1>7
  <2>2. f[0] = <<>>
    <3>1. 0 \in 0 .. len
      OBVIOUS
    <3> HIDE DEF Next1
    <3> QED BY <2>1, <3>1
  <2>3. ASSUME NEW n \in 0 + 1 .. len, f[n - 1] \in V[n - 1] PROVE f[n] = turn[<<n, f[n - 1]>>]
    <3>1. n \in 1 .. len /\ n - 1 \in 0 .. len /\ n \in 0 .. len /\ n # 0
      OBVIOUS
    <3>2. f[n - 1] \in Seq(DOMAIN hdrs)
      BY <1>2, <2>3, <3>1
    <3> HIDE DEF Next1
    <3> QED BY <1>3, <2>1, <3>1, <3>2
  <2>4. Runs(f, 0, len, <<>>, turn, V)
    <3> HIDE DEF Good, Next1, Loop
    <3> QED BY <2>2, <2>3 DEF Runs
  <2>5. \A n \in 0 .. len : f[n] \in V[n]
    <3> HIDE DEF Good, Next1, Loop
    <3> QED BY <1>4, <1>5, <1>6, <2>4, TurnsEnd
  <2>6. len \in 0 .. len
    OBVIOUS
  <2> HIDE DEF Good, Next1, Loop
  <2> QED BY <2>5, <2>6
<1>8. \E f : Loop(f)
  <2>1. PICK f : /\ f = [n \in 0 .. len |-> f[n]] /\ Runs(f, 0, len, <<>>, turn, V)
                 /\ \A n \in 0 .. len : f[n] \in V[n]
    <3> HIDE DEF Good, Next1, Loop
    <3> QED BY <1>4, <1>5, <1>6, TurnsRun
  <2>2. ASSUME NEW n \in 0 .. len PROVE f[n] = IF n = 0 THEN <<>> ELSE Next1(f[n - 1])
    <3>1. CASE n = 0
      BY <2>1, <3>1 DEF Runs
    <3>2. CASE n # 0
      <4>1. n \in 1 .. len /\ n - 1 \in 0 .. len /\ n \in 0 + 1 .. len
        BY <3>2
      <4>2. f[n - 1] \in V[n - 1] /\ f[n - 1] \in Seq(DOMAIN hdrs)
        BY <1>2, <2>1, <4>1
      <4> HIDE DEF Good, Next1
      <4> QED BY <1>3, <2>1, <3>2, <4>1, <4>2 DEF Runs
    <3> QED BY <3>1, <3>2
  <2>3. Loop(f)
    BY <1>0, <2>1, <2>2
  <2> QED BY <2>3
<1>9. PICK f : f = CHOOSE g : Loop(g)
  OBVIOUS
<1>10. Loop(f)
  BY <1>8, <1>9
<1>11. PICK p : p = f[len]
  OBVIOUS
<1>12. p \in Seq(DOMAIN hdrs) /\ SortedUpto(p, len, hdrs)
  <2>1. p \in V[len] /\ len \in 0 .. len
    <3> HIDE DEF Loop
    <3> QED BY <1>7, <1>10, <1>11
  <2> QED BY <1>2, <2>1
<1>13. Imap!Sorted(hdrs) = [n \in DOMAIN hdrs |-> hdrs[p[n]]]
  BY <1>0, <1>9, <1>11 DEF Imap!Sorted
<1> HIDE DEF Loop, Good, Next1
<1>14. Len(p) = len /\ DOMAIN p = 1 .. len /\ IsFiniteSet(Imap!Range(p)) /\ Cardinality(Imap!Range(p)) = len
  BY <1>12 DEF SortedUpto
<1>15. p \in [DOMAIN hdrs -> DOMAIN hdrs]
  BY <1>0, <1>12, <1>14
<1>16. Imap!Range(p) = DOMAIN hdrs
  <2>1. Imap!Range(p) \in SUBSET (1 .. len)
    BY <1>0, <1>15 DEF Imap!Range
  <2>2. IsFiniteSet(1 .. len) /\ Cardinality(1 .. len) = len
    BY FS_Interval
  <2> QED BY <1>0, <1>14, <2>1, <2>2, FS_Subset
<1>17. \A i \in DOMAIN hdrs : \E n \in DOMAIN hdrs : p[n] = i
  BY <1>0, <1>14, <1>16 DEF Imap!Range
<1>18. \A m, n \in DOMAIN hdrs : m < n => Imap!Before(hdrs, p[m], p[n])
  BY <1>0, <1>12 DEF SortedUpto
<1> QED BY <1>13, <1>15, <1>17, <1>18 DEF SortedBy

-----------------------------------------------------------------------------
(* The set of a STORE.  Headers that match come with ascending UIDs, and    *)
(* what the folder has between two of them belongs to headers between them. *)
UidsBetween(hs, f) ==
    /\ \A m, n \in DOMAIN hs : m < n /\ Imap!Matches(hs[m]) /\ Imap!Matches(hs[n]) => hs[m].uid < hs[n].uid
    /\ \A m, n \in DOMAIN hs : \A i \in DOMAIN f :
         m <= n /\ Imap!Matches(hs[m]) /\ Imap!Matches(hs[n]) /\ hs[m].uid <= f[i] /\ f[i] <= hs[n].uid
           => \E k \in m .. n : hs[k].uid = f[i]
OfMatches(uids, hs, f) ==
    \A i \in DOMAIN f : f[i] \in uids => \E k \in DOMAIN hs : Imap!Matches(hs[k]) /\ hs[k].uid = f[i]
Covered(uids, hs, n) == \A k \in 1 .. n : Imap!Matches(hs[k]) => hs[k].uid \in uids
InRun(acc, hs, p, n) ==
    /\ hs[p].uid = acc.start /\ acc.start \in acc.uids
    /\ \A k \in p .. n : Imap!Matches(hs[k])
SetUpto(acc, n, hs, f) ==
    /\ acc.start = 0 => Covered(acc.uids, hs, n)
    /\ acc.start # 0 => \E p \in 1 .. n : InRun(acc, hs, p, n) /\ Covered(acc.uids, hs, p)
    /\ n = Len(hs) => Covered(acc.uids, hs, n)
    /\ OfMatches(acc.uids, hs, f)
OfRun(hs, p, n) == p <= n /\ \A k \in p .. n : Imap!Matches(hs[k])
Ranged(hs, f, uids, p, n, more) ==
    /\ OfRun(hs, p, n) /\ OfMatches(uids, hs, f) /\ Covered(uids, hs, p)
    /\ more = uids \cup Imap!Between(hs[p].uid, hs[n].uid)
SetAcc == [start : Nat, uids : SUBSET Uids]

LEMMA BetweenIs ==
    ASSUME MaxUid \in Nat, NEW a \in Uids, NEW b \in Uids, a <= b, NEW u \in Uids
    PROVE  u \in Imap!Between(a, b) <=> a <= u /\ u <= b
<1>1. \A c \in Nat, d \in Nat, x \in Nat : c <= d /\ d <= x /\ x <= c => c <= x /\ x <= d
  OBVIOUS
<1>2. a \in Nat /\ b \in Nat /\ u \in Nat /\ u \in 1 .. MaxUid
  BY DEF Uids
<1>3. u \in Imap!Between(a, b) <=> (a <= u /\ u <= b) \/ (b <= u /\ u <= a)
  BY <1>2 DEF Imap!Between
<1> QED BY <1>1, <1>2, <1>3

(* A range adds the headers of its run and no other message of the folder.  *)
LEMMA RangeIs ==
    ASSUME MaxUid \in Nat, NEW hs \in Seq(ImapHeader), NEW f \in Seq(Uids), UidsBetween(hs, f),
           NEW p \in DOMAIN hs, NEW n \in DOMAIN hs, NEW uids \in SUBSET Uids,
           NEW more, Ranged(hs, f, uids, p, n, more)
    PROVE  more \in SUBSET Uids /\ OfMatches(more, hs, f) /\ Covered(more, hs, n)
<1>0. /\ p <= n /\ \A k \in p .. n : Imap!Matches(hs[k])
      /\ OfMatches(uids, hs, f) /\ Covered(uids, hs, p)
      /\ more = uids \cup Imap!Between(hs[p].uid, hs[n].uid)
  BY DEF Ranged, OfRun
<1>1. \A k \in DOMAIN hs : hs[k].uid \in Uids /\ hs[k].uid \in Nat
  BY HeaderTyped DEF Uids
<1>2. PICK len \in Nat : len = Len(hs) /\ DOMAIN hs = 1 .. len
  OBVIOUS
<1>3. ASSUME NEW k \in p .. n PROVE hs[p].uid <= hs[k].uid /\ hs[k].uid <= hs[n].uid
  <2>1. k \in DOMAIN hs /\ k \in p .. n /\ p \in p .. n /\ n \in p .. n
    BY <1>0, <1>2
  <2>2. p < k => hs[p].uid < hs[k].uid
    BY <1>0, <2>1 DEF UidsBetween
  <2>3. k < n => hs[k].uid < hs[n].uid
    BY <1>0, <2>1 DEF UidsBetween
  <2>4. (p < k \/ p = k) /\ (k < n \/ k = n)
    BY <1>0, <1>2
  <2> QED BY <1>1, <2>1, <2>2, <2>3, <2>4
<1>4. hs[p].uid <= hs[n].uid
  <2>1. n \in p .. n
    BY <1>0, <1>2
  <2> QED BY <1>3, <2>1
<1>5. \A u \in Uids : u \in Imap!Between(hs[p].uid, hs[n].uid) <=> hs[p].uid <= u /\ u <= hs[n].uid
  BY <1>1, <1>4, BetweenIs
<1>6. more \in SUBSET Uids
  BY <1>0 DEF Imap!Between, Uids
<1>7. ASSUME NEW i \in DOMAIN f, f[i] \in more
      PROVE  \E k \in DOMAIN hs : Imap!Matches(hs[k]) /\ hs[k].uid = f[i]
  <2>1. CASE f[i] \in uids
    BY <1>0, <1>7, <2>1 DEF OfMatches
  <2>2. CASE f[i] \in Imap!Between(hs[p].uid, hs[n].uid)
    <3>1. f[i] \in Uids
      OBVIOUS
    <3>2. hs[p].uid <= f[i] /\ f[i] <= hs[n].uid
      BY <1>5, <2>2, <3>1
    <3>3. p \in p .. n /\ n \in p .. n
      BY <1>0, <1>2
    <3>4. PICK k \in p .. n : hs[k].uid = f[i]
      BY <1>0, <3>2, <3>3 DEF UidsBetween
    <3>5. k \in DOMAIN hs /\ Imap!Matches(hs[k])
      BY <1>0, <1>2
    <3> QED BY <3>4, <3>5
  <2> QED BY <1>0, <1>7, <2>1, <2>2
<1>8. ASSUME NEW k \in 1 .. n, Imap!Matches(hs[k]) PROVE hs[k].uid \in more
  <2>1. CASE k \in 1 .. p
    BY <1>0, <1>8, <2>1 DEF Covered
  <2>2. CASE k \in p .. n
    <3>1. k \in DOMAIN hs /\ hs[k].uid \in Uids
      BY <1>1, <1>2
    <3> QED BY <1>0, <1>3, <1>5, <2>2, <3>1
  <2>3. k \in 1 .. p \/ k \in p .. n
    BY <1>0, <1>2
  <2> QED BY <2>1, <2>2, <2>3
<1> QED BY <1>6, <1>7, <1>8 DEF OfMatches, Covered

LEMMA SetTurn ==
    ASSUME MaxUid \in Nat, NEW hs \in Seq(ImapHeader), NEW f \in Seq(Uids), UidsBetween(hs, f),
           NEW n \in 1 .. Len(hs), NEW acc \in SetAcc, SetUpto(acc, n - 1, hs, f),
           NEW next, next = Imap!MsgSetTurn(acc, hs, n)
    PROVE  next \in SetAcc /\ SetUpto(next, n, hs, f)
<1>1. PICK len \in Nat : len = Len(hs) /\ DOMAIN hs = 1 .. len
  OBVIOUS
<1>2. PICK uids \in SUBSET Uids : uids = acc.uids
  BY DEF SetAcc
<1>3. PICK start \in Nat : start = acc.start
  BY DEF SetAcc
<1>4. \A k \in DOMAIN hs : hs[k].uid \in Uids /\ hs[k].uid \in Nat /\ hs[k].uid # 0
  BY HeaderTyped DEF Uids
<1>5. n \in DOMAIN hs /\ hs[n].uid \in Uids /\ hs[n].uid \in Nat /\ hs[n].uid # 0
  BY <1>1, <1>4
<1>6. OfMatches(uids, hs, f)
  BY <1>2 DEF SetUpto
<1>7. CASE Imap!Matches(hs[n]) /\ start = 0
  <2>1. PICK more : more = uids \cup {hs[n].uid}
    OBVIOUS
  <2>2. next = [start |-> hs[n].uid, uids |-> more]
    BY <1>2, <1>3, <1>7, <2>1 DEF Imap!MsgSetTurn
  <2>3. next \in SetAcc /\ next.start = hs[n].uid /\ next.uids = more /\ next.start # 0
    BY <1>5, <2>1, <2>2 DEF SetAcc
  <2>4. Covered(uids, hs, n - 1)
    BY <1>2, <1>3, <1>7 DEF SetUpto
  <2>5. \A k \in 1 .. n : k \in 1 .. n - 1 \/ k = n
    OBVIOUS
  <2>6. Covered(more, hs, n)
    BY <2>1, <2>4, <2>5 DEF Covered
  <2>7. OfMatches(more, hs, f)
    BY <1>5, <1>6, <1>7, <2>1 DEF OfMatches
  <2>8. \A k \in n .. n : k = n
    OBVIOUS
  <2>9. InRun(next, hs, n, n)
    BY <1>7, <2>1, <2>3, <2>8 DEF InRun
  <2>10. n \in 1 .. n
    OBVIOUS
  <2> QED BY <2>3, <2>6, <2>7, <2>9, <2>10 DEF SetUpto
<1>8. ASSUME start # 0
      PROVE  \E p \in 1 .. n - 1 : /\ hs[p].uid = start /\ start \in uids
                                   /\ \A k \in p .. n - 1 : Imap!Matches(hs[k])
                                   /\ Covered(uids, hs, p)
  BY <1>2, <1>3, <1>8 DEF SetUpto, InRun
<1>9. CASE Imap!Matches(hs[n]) /\ start # 0
  <2>1. PICK p \in 1 .. n - 1 : /\ hs[p].uid = start /\ start \in uids
                                /\ \A k \in p .. n - 1 : Imap!Matches(hs[k])
                                /\ Covered(uids, hs, p)
    BY <1>8, <1>9
  <2>2. p \in DOMAIN hs /\ p <= n /\ p \in 1 .. n
    BY <1>1
  <2>3. ASSUME NEW k \in p .. n PROVE Imap!Matches(hs[k])
    <3>1. k \in p .. n - 1 \/ k = n
      OBVIOUS
    <3> QED BY <1>9, <2>1, <3>1
  <2>4. PICK more : more = uids \cup (IF n = Len(hs) THEN Imap!Between(start, hs[n].uid) ELSE {})
    OBVIOUS
  <2>5. next = [start |-> start, uids |-> more]
    BY <1>2, <1>3, <1>9, <2>4 DEF Imap!MsgSetTurn
  <2>6. CASE n = Len(hs)
    <3>1. more = uids \cup Imap!Between(hs[p].uid, hs[n].uid)
      BY <2>1, <2>4, <2>6
    <3>2. more \in SUBSET Uids /\ OfMatches(more, hs, f) /\ Covered(more, hs, n)
      <4>1. Ranged(hs, f, uids, p, n, more)
        BY <1>6, <2>1, <2>2, <2>3, <3>1 DEF Ranged, OfRun
      <4> QED BY <1>5, <2>2, <4>1, RangeIs
    <3>3. Covered(more, hs, p) /\ start \in more
      BY <2>1, <3>1 DEF Covered
    <3>4. next \in SetAcc /\ next.start = start /\ next.uids = more
      BY <2>5, <3>2 DEF SetAcc
    <3>5. InRun(next, hs, p, n)
      BY <2>1, <2>3, <3>3, <3>4 DEF InRun
    <3> QED BY <1>9, <2>2, <3>2, <3>3, <3>4, <3>5 DEF SetUpto
  <2>7. CASE n # Len(hs)
    <3>1. more = uids
      BY <2>4, <2>7
    <3>2. next \in SetAcc /\ next.start = start /\ next.uids = uids
      BY <2>5, <3>1 DEF SetAcc
    <3>3. InRun(next, hs, p, n)
      BY <2>1, <2>3, <3>2 DEF InRun
    <3> QED BY <1>6, <1>9, <2>1, <2>2, <2>7, <3>2, <3>3 DEF SetUpto
  <2> QED BY <2>6, <2>7
<1>10. CASE ~Imap!Matches(hs[n])
  <2>1. PICK more : more = IF start # 0 /\ hs[n - 1].uid > start
                           THEN uids \cup Imap!Between(start, hs[n - 1].uid) ELSE uids
    OBVIOUS
  <2>2. next = [start |-> 0, uids |-> more]
    BY <1>2, <1>3, <1>10, <2>1 DEF Imap!MsgSetTurn, Imap!EndsBefore
  <2>3. more \in SUBSET Uids /\ OfMatches(more, hs, f) /\ Covered(more, hs, n - 1)
    <3>1. CASE start = 0
      <4>1. more = uids
        BY <2>1, <3>1
      <4>2. Covered(uids, hs, n - 1)
        BY <1>2, <1>3, <3>1 DEF SetUpto
      <4> QED BY <1>6, <4>1, <4>2
    <3>2. CASE start # 0
      <4>1. PICK p \in 1 .. n - 1 : /\ hs[p].uid = start /\ start \in uids
                                    /\ \A k \in p .. n - 1 : Imap!Matches(hs[k])
                                    /\ Covered(uids, hs, p)
        BY <1>8, <3>2
      <4>2. p \in DOMAIN hs /\ n - 1 \in DOMAIN hs /\ p <= n - 1 /\ n - 1 \in p .. n - 1
            /\ p \in p .. n - 1
        BY <1>1
      <4>3. PICK q \in DOMAIN hs : q = n - 1
        BY <4>2
      <4>4. CASE hs[q].uid > start
        <5>1. more = uids \cup Imap!Between(hs[p].uid, hs[q].uid)
          BY <2>1, <3>2, <4>1, <4>3, <4>4
        <5>2. more \in SUBSET Uids /\ OfMatches(more, hs, f) /\ Covered(more, hs, q)
          <6>1. Ranged(hs, f, uids, p, q, more)
            BY <1>6, <4>1, <4>2, <4>3, <5>1 DEF Ranged, OfRun
          <6> QED BY <4>2, <4>3, <6>1, RangeIs
        <5> QED BY <4>3, <5>2
      <4>5. CASE ~(hs[q].uid > start)
        <5>1. more = uids
          BY <2>1, <4>3, <4>5
        <5>2. p < q => hs[p].uid < hs[q].uid
          BY <4>1, <4>2, <4>3 DEF UidsBetween
        <5>3. p = n - 1
          BY <1>4, <4>1, <4>2, <4>3, <4>5, <5>2
        <5> QED BY <1>6, <4>1, <5>1, <5>3
      <4> QED BY <4>4, <4>5
    <3> QED BY <3>1, <3>2
  <2>4. \A k \in 1 .. n : k \in 1 .. n - 1 \/ k = n
    OBVIOUS
  <2>5. Covered(more, hs, n)
    BY <1>10, <2>3, <2>4 DEF Covered
  <2>6. next \in SetAcc /\ next.start = 0 /\ next.uids = more
    BY <2>2, <2>3 DEF SetAcc
  <2> QED BY <2>3, <2>5, <2>6 DEF SetUpto
<1> QED BY <1>7, <1>9, <1>10

LEMMA MsgSetIs ==
    ASSUME MaxUid \in Nat, NEW hs \in Seq(ImapHeader), NEW f \in Seq(Uids), UidsBetween(hs, f)
    PROVE  /\ OfMatches(Imap!imap_make_msg_set(hs), hs, f)
           /\ Covered(Imap!imap_make_msg_set(hs), hs, Len(hs))
<1> DEFINE Good(n) == {acc \in SetAcc : SetUpto(acc, n, hs, f)}
           Loop(g) == g = [n \in 0 .. Len(hs) |->
                             IF n = 0 THEN [start |-> 0, uids |-> {}]
                             ELSE Imap!MsgSetTurn(g[n - 1], hs, n)]
<1>0. PICK len \in Nat : len = Len(hs)
  OBVIOUS
<1>1. PICK turn : turn = [x \in (1 .. len) \X SetAcc |-> Imap!MsgSetTurn(x[2], hs, x[1])]
  OBVIOUS
<1>2. PICK V : V = [n \in 0 .. len |-> Good(n)]
  OBVIOUS
<1>3. \A n \in 1 .. len : \A acc \in SetAcc : turn[<<n, acc>>] = Imap!MsgSetTurn(acc, hs, n)
  BY <1>1
<1>4. PICK a : a = [start |-> 0, uids |-> {}]
  OBVIOUS
<1>5. a \in V[0]
  <2>1. a \in SetAcc /\ a.start = 0 /\ a.uids = {}
    BY <1>4 DEF SetAcc
  <2>2. 1 .. 0 = {} /\ 0 \in 0 .. len
    OBVIOUS
  <2>3. Covered({}, hs, 0) /\ OfMatches({}, hs, f)
    BY <2>2 DEF Covered, OfMatches
  <2>4. SetUpto(a, 0, hs, f)
    BY <2>1, <2>3 DEF SetUpto
  <2> QED BY <1>2, <2>1, <2>2, <2>4
<1>6. ASSUME NEW n \in 0 + 1 .. len, NEW acc \in V[n - 1] PROVE turn[<<n, acc>>] \in V[n]
  <2>1. n \in 1 .. len /\ n - 1 \in 0 .. len /\ n \in 0 .. len
    OBVIOUS
  <2>2. acc \in SetAcc /\ SetUpto(acc, n - 1, hs, f)
    BY <1>2, <2>1
  <2>3. PICK b : b = Imap!MsgSetTurn(acc, hs, n)
    OBVIOUS
  <2>4. b \in SetAcc /\ SetUpto(b, n, hs, f)
    <3> HIDE DEF Good
    <3> QED BY <1>0, <2>1, <2>2, <2>3, SetTurn
  <2>5. b \in Good(n)
    BY <2>4
  <2> HIDE DEF Good
  <2> QED BY <1>2, <1>3, <2>1, <2>2, <2>3, <2>5
<1>7. 0 \in Int /\ len \in Int /\ 0 <= len
  OBVIOUS
<1>8. ASSUME NEW g, Loop(g) PROVE g[len] \in V[len]
  <2>1. \A n \in 0 .. len : g[n] = IF n = 0 THEN a ELSE Imap!MsgSetTurn(g[n - 1], hs, n)
    BY <1>0, <1>4, <1>8
  <2>2. g[0] = a
    <3>1. 0 \in 0 .. len
      OBVIOUS
    <3> QED BY <2>1, <3>1
  <2>3. ASSUME NEW n \in 0 + 1 .. len, g[n - 1] \in V[n - 1] PROVE g[n] = turn[<<n, g[n - 1]>>]
    <3>1. n \in 1 .. len /\ n - 1 \in 0 .. len /\ n \in 0 .. len /\ n # 0
      OBVIOUS
    <3>2. g[n - 1] \in SetAcc
      BY <1>2, <2>3, <3>1
    <3> QED BY <1>3, <2>1, <3>1, <3>2
  <2>4. Runs(g, 0, len, a, turn, V)
    <3> HIDE DEF Good, Loop
    <3> QED BY <2>2, <2>3 DEF Runs
  <2>5. \A n \in 0 .. len : g[n] \in V[n]
    <3> HIDE DEF Good, Loop
    <3> QED BY <1>5, <1>6, <1>7, <2>4, TurnsEnd
  <2>6. len \in 0 .. len
    OBVIOUS
  <2> HIDE DEF Good, Loop
  <2> QED BY <2>5, <2>6
<1>9. \E g : Loop(g)
  <2>1. PICK g : /\ g = [n \in 0 .. len |-> g[n]] /\ Runs(g, 0, len, a, turn, V)
                 /\ \A n \in 0 .. len : g[n] \in V[n]
    <3> HIDE DEF Good, Loop
    <3> QED BY <1>5, <1>6, <1>7, TurnsRun
  <2>2. ASSUME NEW n \in 0 .. len PROVE g[n] = IF n = 0 THEN a ELSE Imap!MsgSetTurn(g[n - 1], hs, n)
    <3>1. CASE n = 0
      BY <2>1, <3>1 DEF Runs
    <3>2. CASE n # 0
      <4>1. n \in 1 .. len /\ n - 1 \in 0 .. len /\ n \in 0 + 1 .. len
        BY <3>2
      <4>2. g[n - 1] \in V[n - 1] /\ g[n - 1] \in SetAcc
        BY <1>2, <2>1, <4>1
      <4> HIDE DEF Good
      <4> QED BY <1>3, <2>1, <3>2, <4>1, <4>2 DEF Runs
    <3> QED BY <3>1, <3>2
  <2>3. Loop(g)
    BY <1>0, <1>4, <2>1, <2>2
  <2> QED BY <2>3
<1>10. PICK g : g = CHOOSE h : Loop(h)
  OBVIOUS
<1>11. Loop(g)
  BY <1>9, <1>10
<1>12. Imap!imap_make_msg_set(hs) = g[len].uids
  BY <1>0, <1>10 DEF Imap!imap_make_msg_set
<1>13. SetUpto(g[len], len, hs, f)
  <2>1. g[len] \in V[len] /\ len \in 0 .. len
    <3> HIDE DEF Loop, Good
    <3> QED BY <1>8, <1>11
  <2> QED BY <1>2, <2>1
<1> QED BY <1>0, <1>12, <1>13 DEF SetUpto

(* Every number below one of a header belongs to a header.                  *)
LEMMA NumbersReached ==
    ASSUME NEW hdrs \in Seq(ImapHeader), NoGaps(hdrs), NEW i \in DOMAIN hdrs,
           NEW q \in 1 .. hdrs[i].index
    PROVE  \E k \in DOMAIN hdrs : hdrs[k].index = q
<1>1. PICK top \in Nat : top = hdrs[i].index
  BY HeaderTyped
<1>2. PICK G : G = {d \in Int : \E k \in DOMAIN hdrs : hdrs[k].index = top - d}
  OBVIOUS
<1>3. 0 \in G
  BY <1>1, <1>2
<1>4. ASSUME NEW d \in 0 + 1 .. top - 1, d - 1 \in G PROVE d \in G
  <2>1. PICK k \in DOMAIN hdrs : hdrs[k].index = top - (d - 1)
    BY <1>2, <1>4
  <2>2. top - (d - 1) > 1 /\ top - (d - 1) - 1 = top - d
    BY <1>1
  <2>3. PICK j \in DOMAIN hdrs : hdrs[j].index = top - d
    BY <2>1, <2>2 DEF NoGaps
  <2> QED BY <1>2, <2>3
<1>5. \A d \in 0 .. top - 1 : d \in G
  <2>1. PICK last \in Int : last = top - 1
    OBVIOUS
  <2>2. \A d \in 0 + 1 .. last : d - 1 \in G => d \in G
    BY <1>4, <2>1
  <2>3. \A d \in 0 .. last : d \in G
    <3>1. 0 \in Int /\ last \in Int
      OBVIOUS
    <3> QED BY <1>3, <2>2, <3>1, Along
  <2> QED BY <2>1, <2>3
<1>6. top - q \in 0 .. top - 1 /\ top - (top - q) = q
  BY <1>1
<1> QED BY <1>2, <1>5, <1>6

(* What a close finds: the headers' numbers agree with the session, and no  *)
(* expunged message is among those to be marked.                            *)
ReadyToMark(hdrs, s, f) ==
    /\ HeadersMatch(hdrs, s) /\ NumbersAscend(hdrs) /\ NoGaps(hdrs)
    /\ Ascends(s) /\ NoneBetween(f, s)
    /\ \A i \in DOMAIN hdrs : Imap!Matches(hdrs[i]) => hdrs[i].index # 0
NumberOf(hdrs, s, i) ==
    /\ hdrs[i].index \in DOMAIN s /\ hdrs[i].index \in Nat /\ hdrs[i].index # 0
    /\ s[hdrs[i].index] = hdrs[i].uid

LEMMA OrderedIs ==
    ASSUME MaxUid \in Nat, NEW hdrs \in Seq(ImapHeader), NEW s \in Seq(Uids),
           NEW f \in Seq(Uids), ReadyToMark(hdrs, s, f), NEW hs, hs = Imap!Sorted(hdrs)
    PROVE  /\ hs \in Seq(ImapHeader) /\ UidsBetween(hs, f)
           /\ \A i \in DOMAIN hdrs : \E n \in DOMAIN hs : hs[n] = hdrs[i]
           /\ \A n \in DOMAIN hs : \E i \in DOMAIN hdrs : hs[n] = hdrs[i]
<1>1. PICK p \in [DOMAIN hdrs -> DOMAIN hdrs] : SortedBy(p, hdrs)
  BY SortedIs
<1>2. PICK len \in Nat : len = Len(hdrs) /\ DOMAIN hdrs = 1 .. len
  OBVIOUS
<1>3. hs = [n \in 1 .. len |-> hdrs[p[n]]]
  BY <1>1, <1>2 DEF SortedBy
<1>4. hs \in Seq(ImapHeader) /\ DOMAIN hs = 1 .. len
  <2>1. \A n \in 1 .. len : hdrs[p[n]] \in ImapHeader
    BY <1>1, <1>2
  <2> QED BY <1>3, <2>1
<1>5. \A n \in 1 .. len : p[n] \in DOMAIN hdrs /\ hs[n] = hdrs[p[n]]
  BY <1>1, <1>2, <1>3
<1>6. \A i \in DOMAIN hdrs : \E n \in 1 .. len : p[n] = i
  BY <1>1, <1>2 DEF SortedBy
<1>7. PICK size \in Nat : size = Len(s) /\ DOMAIN s = 1 .. size
  OBVIOUS
<1>8. \A j \in DOMAIN s : s[j] \in Uids /\ s[j] \in Nat
  BY DEF Uids
<1>9. ASSUME NEW i \in DOMAIN hdrs, hdrs[i].index # 0 PROVE NumberOf(hdrs, s, i)
  BY <1>7, <1>9, HeaderTyped DEF ReadyToMark, HeadersMatch, NumberOf
<1>10. ASSUME NEW n \in 1 .. len, Imap!Matches(hs[n]) PROVE NumberOf(hdrs, s, p[n])
  BY <1>5, <1>9, <1>10 DEF ReadyToMark
<1>11. ASSUME NEW m \in 1 .. len, NEW n \in 1 .. len, m < n,
              NumberOf(hdrs, s, p[m]), NumberOf(hdrs, s, p[n])
       PROVE  hdrs[p[m]].index < hdrs[p[n]].index
  <2>1. Imap!Before(hdrs, p[m], p[n])
    BY <1>1, <1>2, <1>11 DEF SortedBy
  <2>2. PICK a \in DOMAIN hdrs, b \in DOMAIN hdrs : a = p[m] /\ b = p[n]
    BY <1>5
  <2>3. a < b => hdrs[a].index < hdrs[b].index
    BY <1>11, <2>2 DEF ReadyToMark, NumbersAscend, NumberOf
  <2> QED BY <2>1, <2>2, <2>3 DEF Imap!Before
<1>12. ASSUME NEW m \in 1 .. len, NEW n \in 1 .. len, m < n, Imap!Matches(hs[m]), Imap!Matches(hs[n])
       PROVE  hs[m].uid < hs[n].uid
  <2>1. NumberOf(hdrs, s, p[m]) /\ NumberOf(hdrs, s, p[n])
    BY <1>10, <1>12
  <2>2. hdrs[p[m]].index < hdrs[p[n]].index
    BY <1>11, <1>12, <2>1
  <2> QED BY <1>5, <2>1, <2>2 DEF ReadyToMark, Ascends, NumberOf
<1>13. ASSUME NEW m \in 1 .. len, NEW n \in 1 .. len, NEW i \in DOMAIN f, m <= n,
              Imap!Matches(hs[m]), Imap!Matches(hs[n]), hs[m].uid <= f[i], f[i] <= hs[n].uid
       PROVE  \E k \in m .. n : hs[k].uid = f[i]
  <2>1. NumberOf(hdrs, s, p[m]) /\ NumberOf(hdrs, s, p[n])
    BY <1>10, <1>13
  <2>2. PICK a \in DOMAIN s, b \in DOMAIN s : a = hdrs[p[m]].index /\ b = hdrs[p[n]].index
    BY <2>1 DEF NumberOf
  <2>3. s[a] = hs[m].uid /\ s[b] = hs[n].uid
    BY <1>5, <2>1, <2>2 DEF NumberOf
  <2>4. PICK u \in Uids : u = f[i] /\ u \in Nat /\ s[a] <= u /\ u <= s[b]
    BY <1>13, <2>3 DEF Uids
  <2>5. ~Below(s, u)
    BY <1>8, <2>2, <2>4 DEF Below
  <2>6. PICK j \in DOMAIN s : s[j] = u
    BY <2>4, <2>5 DEF ReadyToMark, NoneBetween
  <2>7. a <= j /\ j <= b
    <3>1. (j < a => s[j] < s[a]) /\ (b < j => s[b] < s[j])
      BY DEF ReadyToMark, Ascends
    <3>2. s[j] <= s[b] /\ s[a] <= s[j] /\ s[j] \in Nat /\ s[a] \in Nat /\ s[b] \in Nat
      BY <1>8, <2>4, <2>6
    <3>3. a \in Nat /\ b \in Nat /\ j \in Nat
      BY <1>7
    <3> QED BY <3>1, <3>2, <3>3
  <2>8. j \in 1 .. hdrs[p[n]].index /\ p[n] \in DOMAIN hdrs
    BY <1>5, <1>7, <2>2, <2>7
  <2>9. PICK c \in DOMAIN hdrs : hdrs[c].index = j
    BY <2>8, NumbersReached DEF ReadyToMark
  <2>10. NumberOf(hdrs, s, c)
    BY <1>7, <1>9, <2>9
  <2>11. PICK k \in 1 .. len : p[k] = c
    BY <1>6
  <2>12. NumberOf(hdrs, s, p[k]) /\ hdrs[p[k]].index = j
    BY <2>9, <2>10, <2>11
  <2>13. k < m => j < a
    BY <1>11, <2>1, <2>2, <2>12
  <2>14. n < k => b < j
    BY <1>11, <2>1, <2>2, <2>12
  <2>15. a \in Nat /\ b \in Nat /\ j \in Nat
    BY <1>7
  <2>16. k \in m .. n
    BY <1>2, <2>7, <2>13, <2>14, <2>15
  <2>17. hs[k].uid = f[i]
    BY <1>5, <2>4, <2>6, <2>11, <2>12 DEF NumberOf
  <2> QED BY <2>16, <2>17
<1>14. UidsBetween(hs, f)
  <2>1. DOMAIN hs = 1 .. len
    BY <1>4
  <2>2. \A m, n \in DOMAIN hs :
          m < n /\ Imap!Matches(hs[m]) /\ Imap!Matches(hs[n]) => hs[m].uid < hs[n].uid
    BY <1>12, <2>1
  <2>3. \A m, n \in DOMAIN hs : \A i \in DOMAIN f :
          m <= n /\ Imap!Matches(hs[m]) /\ Imap!Matches(hs[n]) /\ hs[m].uid <= f[i] /\ f[i] <= hs[n].uid
            => \E k \in m .. n : hs[k].uid = f[i]
    <3> SUFFICES ASSUME NEW m \in DOMAIN hs, NEW n \in DOMAIN hs, NEW i \in DOMAIN f, m <= n,
                        Imap!Matches(hs[m]), Imap!Matches(hs[n]), hs[m].uid <= f[i], f[i] <= hs[n].uid
                 PROVE  \E k \in m .. n : hs[k].uid = f[i]
      OBVIOUS
    <3>1. m \in 1 .. len /\ n \in 1 .. len
      BY <2>1
    <3> QED BY <1>13, <3>1
  <2> QED BY <2>2, <2>3 DEF UidsBetween
<1>15. ASSUME NEW i \in DOMAIN hdrs PROVE \E n \in DOMAIN hs : hs[n] = hdrs[i]
  <2>1. PICK n \in 1 .. len : p[n] = i
    BY <1>6
  <2>2. hs[n] = hdrs[i] /\ n \in DOMAIN hs
    BY <1>4, <1>5, <2>1
  <2> QED BY <2>2
<1>16. \A n \in DOMAIN hs : \E i \in DOMAIN hdrs : hs[n] = hdrs[i]
  BY <1>4, <1>5
<1> QED BY <1>4, <1>14, <1>15, <1>16

(* The STORE marks what the headers want marked, of what the folder has.    *)
LEMMA MarksWanted ==
    ASSUME MaxUid \in Nat, NEW hdrs \in Seq(ImapHeader), NEW s \in Seq(Uids),
           NEW f \in Seq(Uids), ReadyToMark(hdrs, s, f), NEW i \in DOMAIN f
    PROVE  f[i] \in Imap!imap_make_msg_set(Imap!Sorted(hdrs))
             <=> \E k \in DOMAIN hdrs : Imap!Matches(hdrs[k]) /\ hdrs[k].uid = f[i]
<1>1. PICK hs : hs = Imap!Sorted(hdrs)
  OBVIOUS
<1>2. /\ hs \in Seq(ImapHeader) /\ UidsBetween(hs, f)
      /\ \A k \in DOMAIN hdrs : \E n \in DOMAIN hs : hs[n] = hdrs[k]
      /\ \A n \in DOMAIN hs : \E k \in DOMAIN hdrs : hs[n] = hdrs[k]
  BY <1>1, OrderedIs
<1>3. /\ OfMatches(Imap!imap_make_msg_set(hs), hs, f)
      /\ Covered(Imap!imap_make_msg_set(hs), hs, Len(hs))
  BY <1>2, MsgSetIs
<1>4. DOMAIN hs = 1 .. Len(hs)
  BY <1>2
<1>5. ASSUME f[i] \in Imap!imap_make_msg_set(hs)
      PROVE  \E k \in DOMAIN hdrs : Imap!Matches(hdrs[k]) /\ hdrs[k].uid = f[i]
  <2>1. PICK n \in DOMAIN hs : Imap!Matches(hs[n]) /\ hs[n].uid = f[i]
    BY <1>3, <1>5 DEF OfMatches
  <2> QED BY <1>2, <2>1
<1>6. ASSUME NEW k \in DOMAIN hdrs, Imap!Matches(hdrs[k]), hdrs[k].uid = f[i]
      PROVE  f[i] \in Imap!imap_make_msg_set(hs)
  <2>1. PICK n \in DOMAIN hs : hs[n] = hdrs[k]
    BY <1>2
  <2> QED BY <1>3, <1>4, <1>6, <2>1 DEF Covered
<1> QED BY <1>1, <1>5, <1>6

-----------------------------------------------------------------------------
(* The inductive invariant.  What the server has ready leads, response by   *)
(* response, from the messages of the session to those of the folder, the   *)
(* UIDs ascend all along, and no message of the folder was skipped: one the *)
(* session does not know has a UID above all it knows.                      *)
Shown == {"open", "marks", "stores"}
SessionTyped == /\ folder \in Seq(Uids) /\ session \in Seq(Uids) /\ told \in Seq(Item)
                /\ flags \in [Uids -> Marks] /\ nextuid \in Nat \ {0}
                /\ idata \in ImapData /\ box \in ImapBox
FolderInOrder == Ascends(folder) /\ Below(folder, nextuid)
NewsInOrder == idata.selected => Chain(told, session, folder, nextuid)
BoxInStep == box.pc \in Shown => idata.selected /\ InStep(idata, box.hdrs, session)
EditsStay == box.pc = "open" => EditsKept(box.hdrs)
NothingWrong == misdone \cap {"out of sync", "lost", "stranger"} = {} /\ box.pc # "broken"
IInv == SessionTyped /\ FolderInOrder /\ NewsInOrder /\ BoxInStep /\ EditsStay /\ NothingWrong

LEMMA DataTyped ==
    ASSUME NEW d \in ImapData
    PROVE  /\ d.selected \in BOOLEAN /\ d.expunge \in BOOLEAN /\ d.newmail \in BOOLEAN
           /\ d.newMailCount \in Nat /\ d.boxes \in 0 .. MaxBoxes
BY DEF ImapData
LEMMA BoxTyped ==
    ASSUME NEW b \in ImapBox
    PROVE  /\ b.hdrs \in Seq(ImapHeader) /\ b.edits \in Nat
           /\ b.pc \in {"none", "open", "marks", "stores", "broken", "over"}
BY DEF ImapBox
LEMMA NoBoxTyped == Imap!NoBox \in ImapBox /\ Imap!NoBox.pc = "none" /\ Imap!NoBox.hdrs = <<>>
<1>1. <<>> \in Seq(ImapHeader)
  OBVIOUS
<1> QED BY <1>1 DEF Imap!NoBox, ImapBox

(* A folder nothing was said about yet.                                     *)
LEMMA NothingTold ==
    ASSUME MaxUid \in Nat, NEW f \in Seq(Uids), NEW top, Ascends(f), Below(f, top)
    PROVE  Chain(<<>>, f, f, top)
<1>1. PICK v \in [0 .. 0 -> Seq(Uids)] : v = [n \in 0 .. 0 |-> f]
  OBVIOUS
<1>2. Len(<<>>) = 0 /\ \A n \in 0 .. 0 : n = 0
  OBVIOUS
<1>3. 0 \in 0 .. 0 /\ 1 .. 0 = {}
  OBVIOUS
<1>4. v[0] = f
  BY <1>1, <1>3
<1>5. NoneBetween(f, f)
  BY DEF NoneBetween
<1>6. Leads(v, <<>>, f, f, top)
  BY <1>2, <1>3, <1>4, <1>5 DEF Leads
<1> QED BY <1>2, <1>6 DEF Chain

LEMMA InitHolds ==
    ASSUME Imap!Bounds, Imap!Init
    PROVE  IInv
<1>1. MaxUid \in Nat /\ 3 <= MaxUid /\ MaxBoxes \in Nat /\ 1 \in Uids /\ 2 \in Uids /\ 3 \in Uids
  BY DEF Imap!Bounds, Uids
<1>2. folder = <<1, 2, 3>> /\ folder \in Seq(Uids) /\ nextuid = 4
  BY <1>1 DEF Imap!Init
<1>3. DOMAIN folder = 1 .. 3 /\ \A i \in 1 .. 3 : folder[i] = i
  BY <1>2
<1>4. FolderInOrder
  BY <1>2, <1>3 DEF FolderInOrder, Ascends, Below
<1>5. idata \in ImapData /\ idata.selected = FALSE
  <2>1. 0 \in 0 .. MaxBoxes
    BY <1>1
  <2> QED BY <2>1 DEF Imap!Init, Imap!imap_new_idata, ImapData
<1>6. box \in ImapBox /\ box.pc = "none"
  BY NoBoxTyped DEF Imap!Init
<1>7. flags \in [Uids -> Marks]
  BY DEF Imap!Init, Imap!Plain, Marks, Uids
<1>8. SessionTyped
  BY <1>2, <1>5, <1>6, <1>7 DEF SessionTyped, Imap!Init
<1>9. NothingWrong
  BY <1>6 DEF Imap!Init, NothingWrong
<1> QED BY <1>4, <1>5, <1>6, <1>8, <1>9 DEF IInv, NewsInOrder, BoxInStep, EditsStay, Shown

(* What the server does reaches the session as one more response.           *)
LEMMA Queued ==
    ASSUME MaxUid \in Nat, IInv, NEW item \in Item, NEW g \in Seq(Uids),
           NEW next \in Nat \ {0}, nextuid <= next, Tells(item, folder, g),
           Ascends(g), Below(g, next),
           \A i \in DOMAIN g : (\E j \in DOMAIN folder : folder[j] = g[i]) \/ nextuid <= g[i],
           folder' = g, nextuid' = next, Imap!Queue(item), flags' \in [Uids -> Marks],
           UNCHANGED <<session, idata, box, misdone>>
    PROVE  IInv'
<1>1. PICK t, f, s, top : t = told /\ f = folder /\ s = session /\ top = nextuid
  OBVIOUS
<1>2. t \in Seq(Item) /\ f \in Seq(Uids) /\ s \in Seq(Uids) /\ top \in Nat
  BY <1>1 DEF IInv, SessionTyped
<1>3. CASE idata.selected
  <2>1. PICK u : u = Append(t, item)
    OBVIOUS
  <2>2. told' = u
    BY <1>1, <1>3, <2>1 DEF Imap!Queue
  <2>3. Chain(t, s, f, top)
    BY <1>1, <1>3 DEF IInv, NewsInOrder
  <2>4. u \in Seq(Item) /\ Chain(u, s, g, next)
    BY <1>1, <1>2, <2>1, <2>3, ServerTells
  <2>5. SessionTyped'
    BY <2>2, <2>4 DEF IInv, SessionTyped
  <2>6. NewsInOrder'
    BY <1>1, <2>2, <2>4 DEF NewsInOrder
  <2>7. FolderInOrder' /\ BoxInStep' /\ EditsStay' /\ NothingWrong'
    BY DEF IInv, FolderInOrder, BoxInStep, EditsStay, NothingWrong
  <2> QED BY <2>5, <2>6, <2>7 DEF IInv
<1>4. CASE ~idata.selected
  <2>1. told' = told
    BY <1>4 DEF Imap!Queue
  <2>2. SessionTyped'
    BY <2>1 DEF IInv, SessionTyped
  <2>3. NewsInOrder'
    BY <1>4 DEF NewsInOrder
  <2>4. FolderInOrder' /\ BoxInStep' /\ EditsStay' /\ NothingWrong'
    BY DEF IInv, FolderInOrder, BoxInStep, EditsStay, NothingWrong
  <2> QED BY <2>2, <2>3, <2>4 DEF IInv
<1> QED BY <1>3, <1>4

LEMMA MailArrives ==
    ASSUME Imap!Bounds, IInv, Imap!MessageArrives
    PROVE  IInv'
<1>1. PICK f \in Seq(Uids), top \in Nat \ {0} : f = folder /\ top = nextuid
  BY DEF IInv, SessionTyped
<1>2. MaxUid \in Nat /\ top \in Uids /\ top + 1 \in Nat \ {0} /\ top <= top + 1
  BY <1>1 DEF Imap!Bounds, Imap!MessageArrives, Uids
<1>3. Ascends(f) /\ Below(f, top)
  BY <1>1 DEF IInv, FolderInOrder
<1>4. PICK g : g = Append(f, top)
  OBVIOUS
<1>5. /\ g \in Seq(Uids) /\ Ascends(g) /\ Len(g) = Len(f) + 1 /\ DOMAIN g = 1 .. Len(f) + 1
      /\ \A k \in DOMAIN f : g[k] = f[k]
      /\ g[Len(f) + 1] = top
  BY <1>2, <1>3, <1>4, AppendKeepsOrder
<1>6. \A k \in 1 .. Len(f) + 1 : k \in DOMAIN f \/ k = Len(f) + 1
  OBVIOUS
<1>7. \A i \in DOMAIN g : (\E j \in DOMAIN f : f[j] = g[i]) \/ top <= g[i]
  BY <1>5, <1>6
<1>8. \A j \in DOMAIN f : f[j] \in Nat
  BY <1>2 DEF Uids
<1>9. Below(g, top + 1)
  BY <1>3, <1>5, <1>6, <1>8 DEF Below
<1>10. PICK item : item = Imap!Told("EXISTS", Len(f) + 1, top)
  OBVIOUS
<1>11. item \in Item /\ item.kind = "EXISTS" /\ item.n = Len(f) + 1 /\ item.uid = top
  BY <1>2, <1>10 DEF Imap!Told, Item
<1>12. Tells(item, f, g)
  BY <1>3, <1>4, <1>11 DEF Tells
<1>13. /\ folder' = g /\ nextuid' = top + 1 /\ Imap!Queue(item) /\ flags' \in [Uids -> Marks]
       /\ UNCHANGED <<session, idata, box, misdone>>
  BY <1>1, <1>4, <1>10 DEF Imap!MessageArrives, IInv, SessionTyped
<1> QED BY <1>1, <1>2, <1>5, <1>7, <1>9, <1>11, <1>12, <1>13, Queued

LEMMA OthersExpunge ==
    ASSUME Imap!Bounds, IInv, Imap!OtherExpunges
    PROVE  IInv'
<1>1. PICK f \in Seq(Uids), top \in Nat \ {0} : f = folder /\ top = nextuid
  BY DEF IInv, SessionTyped
<1>2. MaxUid \in Nat /\ top <= top
  BY DEF Imap!Bounds
<1>3. Ascends(f) /\ Below(f, top)
  BY <1>1 DEF IInv, FolderInOrder
<1>4. PICK i \in DOMAIN f : folder' = Imap!RemoveAt(f, i) /\ Imap!Queue(Imap!Told("EXPUNGE", i, f[i]))
  BY <1>1 DEF Imap!OtherExpunges
<1>5. i \in 1 .. Len(f) /\ i \in Nat /\ f[i] \in Uids
  OBVIOUS
<1>6. PICK g : g = Imap!RemoveAt(f, i)
  OBVIOUS
<1>7. /\ g \in Seq(Uids) /\ Ascends(g)
      /\ \A k \in DOMAIN g : \E j \in DOMAIN f : g[k] = f[j]
  BY <1>2, <1>3, <1>5, <1>6, RemoveAtIs, RemoveKeepsOrder
<1>8. Below(g, top)
  BY <1>3, <1>7 DEF Below
<1>9. \A k \in DOMAIN g : (\E j \in DOMAIN f : f[j] = g[k]) \/ top <= g[k]
  BY <1>7
<1>10. PICK item : item = Imap!Told("EXPUNGE", i, f[i])
  OBVIOUS
<1>11. item \in Item /\ item.kind = "EXPUNGE" /\ item.n = i
  BY <1>5, <1>10 DEF Imap!Told, Item
<1>12. Tells(item, f, g)
  BY <1>5, <1>6, <1>11 DEF Tells
<1>13. /\ folder' = g /\ nextuid' = top /\ Imap!Queue(item) /\ flags' \in [Uids -> Marks]
       /\ UNCHANGED <<session, idata, box, misdone>>
  BY <1>1, <1>4, <1>6, <1>10 DEF Imap!OtherExpunges, IInv, SessionTyped
<1> QED BY <1>1, <1>2, <1>7, <1>8, <1>9, <1>11, <1>12, <1>13, Queued

LEMMA OthersStore ==
    ASSUME Imap!Bounds, IInv, Imap!OtherStores
    PROVE  IInv'
<1>1. PICK f \in Seq(Uids), top \in Nat \ {0} : f = folder /\ top = nextuid
  BY DEF IInv, SessionTyped
<1>2. MaxUid \in Nat /\ top <= top
  BY DEF Imap!Bounds
<1>3. Ascends(f) /\ Below(f, top)
  BY <1>1 DEF IInv, FolderInOrder
<1>4. PICK i \in DOMAIN f : /\ flags' = [flags EXCEPT ![f[i]].read = ~@]
                            /\ Imap!Queue(Imap!Told("FETCH", i, f[i]))
  BY <1>1 DEF Imap!OtherStores
<1>5. i \in Nat /\ f[i] \in Uids
  OBVIOUS
<1>6. PICK item : item = Imap!Told("FETCH", i, f[i])
  OBVIOUS
<1>7. item \in Item /\ item.kind = "FETCH"
  BY <1>5, <1>6 DEF Imap!Told, Item
<1>8. Tells(item, f, f)
  BY <1>7 DEF Tells
<1>9. flags' \in [Uids -> Marks]
  <2>1. PICK fl \in [Uids -> Marks] : fl = flags
    BY DEF IInv, SessionTyped
  <2>2. \A m \in Marks : [m EXCEPT !.read = ~@] \in Marks
    BY DEF Marks
  <2>3. flags' = [fl EXCEPT ![f[i]] = [fl[f[i]] EXCEPT !.read = ~@]]
    BY <1>4, <2>1
  <2>4. fl[f[i]] \in Marks
    BY <1>5
  <2> QED BY <1>5, <2>2, <2>3, <2>4
<1>10. /\ folder' = f /\ nextuid' = top /\ Imap!Queue(item)
       /\ UNCHANGED <<session, idata, box, misdone>>
  BY <1>1, <1>4, <1>6 DEF Imap!OtherStores
<1>11. \A k \in DOMAIN f : (\E j \in DOMAIN f : f[j] = f[k]) \/ top <= f[k]
  OBVIOUS
<1> QED BY <1>1, <1>2, <1>3, <1>7, <1>8, <1>9, <1>10, <1>11, Queued

(* What a NOOP leaves: the session further along, the headers in step.      *)
LEMMA NewsRead ==
    ASSUME Imap!Bounds, IInv, box.pc = "open", NEW k \in 0 .. Len(told)
    PROVE  /\ Synced(Imap!Noop(k)) /\ Imap!Noop(k).idata.selected /\ EditsKept(Imap!Noop(k).hdrs)
           /\ SubSeq(told, k + 1, Len(told)) \in Seq(Item)
           /\ Chain(SubSeq(told, k + 1, Len(told)), Imap!Noop(k).session, folder, nextuid)
<1>1. PICK t, f, s, top : t = told /\ f = folder /\ s = session /\ top = nextuid
  OBVIOUS
<1>2. t \in Seq(Item) /\ f \in Seq(Uids) /\ s \in Seq(Uids) /\ top \in Nat
  BY <1>1 DEF IInv, SessionTyped
<1>3. MaxUid \in Nat /\ flags \in [Uids -> Marks] /\ told \in Seq(Item)
  BY DEF Imap!Bounds, IInv, SessionTyped
<1>4. idata.selected /\ InStep(idata, box.hdrs, session) /\ EditsKept(box.hdrs)
  BY DEF IInv, BoxInStep, EditsStay, Shown
<1>5. PICK v \in [0 .. Len(t) -> Seq(Uids)] : Leads(v, t, s, f, top)
  BY <1>1, <1>4 DEF IInv, NewsInOrder, Chain
<1>6. Synced(Now)
  <2>1. box.hdrs \in Seq(ImapHeader) /\ idata \in ImapData /\ session \in Seq(Uids)
    BY BoxTyped DEF IInv, SessionTyped
  <2> QED BY <1>4, <2>1 DEF Synced, Now, SessionState
<1>7. /\ Synced(Imap!Noop(k)) /\ Imap!Noop(k).session = v[k]
      /\ Imap!Noop(k).idata.selected = idata.selected /\ EditsKept(Imap!Noop(k).hdrs)
  BY <1>1, <1>3, <1>4, <1>5, <1>6, NoopHolds
<1>8. PICK n \in 0 .. Len(t) : n = k
  BY <1>1
<1>9. /\ SubSeq(t, n + 1, Len(t)) \in Seq(Item)
      /\ Chain(SubSeq(t, n + 1, Len(t)), v[n], f, top)
  BY <1>2, <1>3, <1>5, ClientReads
<1> QED BY <1>1, <1>4, <1>7, <1>8, <1>9

(* Then the mailbox goes on with what was read.                             *)
LEMMA GoesOn ==
    ASSUME IInv, NEW S, Synced(S), S.idata.selected, EditsKept(S.hdrs), NEW more \in Seq(Item),
           Chain(more, S.session, folder, nextuid), NEW d \in ImapData, d.selected,
           d.expunge = S.idata.expunge, d.newmail = S.idata.newmail,
           d.newMailCount = S.idata.newMailCount, NEW pc \in {"open", "marks", "over"},
           told' = more, session' = S.session, idata' = d,
           box' = [box EXCEPT !.hdrs = S.hdrs, !.pc = pc], misdone' = misdone,
           UNCHANGED <<folder, flags, nextuid>>
    PROVE  IInv'
<1>1. PICK s, hdrs, f, top : s = S.session /\ hdrs = S.hdrs /\ f = folder /\ top = nextuid
  OBVIOUS
<1>2. s \in Seq(Uids) /\ hdrs \in Seq(ImapHeader)
  BY <1>1, StateTyped DEF Synced
<1>3. InStep(d, hdrs, s)
  BY <1>1 DEF Synced, InStep
<1>4. box' \in ImapBox /\ box'.pc = pc /\ box'.hdrs = hdrs
  BY <1>1, <1>2 DEF IInv, SessionTyped, ImapBox
<1>5. SessionTyped'
  BY <1>1, <1>2, <1>4 DEF IInv, SessionTyped
<1>6. Chain(more, s, f, top)
  BY <1>1
<1>7. NewsInOrder'
  BY <1>1, <1>6 DEF NewsInOrder
<1>8. BoxInStep'
  BY <1>1, <1>3, <1>4 DEF BoxInStep
<1>9. EditsKept(hdrs)
  BY <1>1
<1>10. EditsStay'
  BY <1>4, <1>9 DEF EditsStay
<1>11. FolderInOrder' /\ NothingWrong'
  BY <1>4 DEF IInv, FolderInOrder, NothingWrong
<1> QED BY <1>5, <1>7, <1>8, <1>10, <1>11 DEF IInv

LEMMA DataKept ==
    ASSUME NEW d \in ImapData, NEW e,
           e = [d EXCEPT !.check = "none"] \/ e = [d EXCEPT !.check = "none", !.allow = TRUE]
    PROVE  /\ e \in ImapData /\ e.selected = d.selected /\ e.expunge = d.expunge
           /\ e.newmail = d.newmail /\ e.newMailCount = d.newMailCount
BY DEF ImapData

LEMMA CheckHolds ==
    ASSUME Imap!Bounds, IInv, Imap!f_check_mailbox
    PROVE  IInv'
<1>1. box.pc = "open" /\ MaxUid \in Nat /\ flags \in [Uids -> Marks]
  BY DEF Imap!f_check_mailbox, Imap!Bounds, IInv, SessionTyped
<1>2. PICK k \in 0 .. Len(told) :
         LET S == Imap!imap_cmd_finish(Imap!Noop(k)) IN
         /\ told' = SubSeq(told, k + 1, Len(told))
         /\ session' = S.session /\ idata' = [S.idata EXCEPT !.check = "none"]
         /\ box' = [box EXCEPT !.hdrs = S.hdrs, !.pc = IF S.fatal THEN "broken" ELSE @]
         /\ misdone' = IF S.fatal THEN misdone \cup {"out of sync"} ELSE misdone
  BY DEF Imap!f_check_mailbox
<1>3. PICK R : R = Imap!Noop(k)
  OBVIOUS
<1>4. PICK S : S = Imap!imap_cmd_finish(R)
  OBVIOUS
<1>5. PICK more : more = SubSeq(told, k + 1, Len(told))
  OBVIOUS
<1>6. /\ Synced(R) /\ R.idata.selected /\ EditsKept(R.hdrs)
      /\ more \in Seq(Item) /\ Chain(more, R.session, folder, nextuid)
  BY <1>1, <1>3, <1>5, NewsRead
<1>7. Synced(S) /\ StaysSelected(R, S) /\ S.session = R.session
  BY <1>1, <1>4, <1>6, FinishHolds
<1>8. ~S.fatal /\ S.idata.selected /\ EditsKept(S.hdrs) /\ S.idata \in ImapData
  <2>1. S.idata \in ImapData
    BY <1>7, StateTyped DEF Synced
  <2>2. ~S.fatal
    BY <1>7 DEF Synced
  <2>3. S.idata.selected /\ EditsKept(S.hdrs)
    BY <1>6, <1>7 DEF StaysSelected
  <2> QED BY <2>1, <2>2, <2>3
<1>9. PICK d : d = [S.idata EXCEPT !.check = "none"]
  OBVIOUS
<1>10. /\ d \in ImapData /\ d.selected = S.idata.selected /\ d.expunge = S.idata.expunge
       /\ d.newmail = S.idata.newmail /\ d.newMailCount = S.idata.newMailCount
  BY <1>8, <1>9, DataKept
<1>11. told' = more /\ session' = S.session /\ idata' = d /\ misdone' = misdone
  BY <1>2, <1>3, <1>4, <1>5, <1>8, <1>9
<1>12. box' = [box EXCEPT !.hdrs = S.hdrs, !.pc = "open"]
  <2>1. box' = [box EXCEPT !.hdrs = S.hdrs, !.pc = box.pc]
    BY <1>2, <1>3, <1>4, <1>8
  <2> QED BY <1>1, <2>1
<1>13. Chain(more, S.session, folder, nextuid)
  BY <1>6, <1>7
<1>14. UNCHANGED <<folder, flags, nextuid>>
  BY DEF Imap!f_check_mailbox
<1> QED BY <1>6, <1>7, <1>8, <1>10, <1>11, <1>12, <1>13, <1>14, GoesOn

LEMMA SyncHolds ==
    ASSUME Imap!Bounds, IInv, Imap!SyncStarts
    PROVE  IInv'
<1>1. box.pc = "open"
  BY DEF Imap!SyncStarts
<1>2. PICK k \in 0 .. Len(told) :
         LET S == Imap!Noop(k) IN
         /\ told' = SubSeq(told, k + 1, Len(told))
         /\ session' = S.session
         /\ idata' = [S.idata EXCEPT !.check = "none", !.allow = TRUE]
         /\ box' = [box EXCEPT !.hdrs = S.hdrs,
                               !.pc = IF S.fatal \/ S.idata.check # "none" THEN "over"
                                      ELSE "marks"]
         /\ misdone' = IF S.fatal THEN misdone \cup {"out of sync"} ELSE misdone
  BY DEF Imap!SyncStarts
<1>3. PICK S : S = Imap!Noop(k)
  OBVIOUS
<1>4. PICK more : more = SubSeq(told, k + 1, Len(told))
  OBVIOUS
<1>5. /\ Synced(S) /\ S.idata.selected /\ EditsKept(S.hdrs)
      /\ more \in Seq(Item) /\ Chain(more, S.session, folder, nextuid)
  BY <1>1, <1>3, <1>4, NewsRead
<1>6. ~S.fatal /\ S.idata \in ImapData
  BY <1>5, StateTyped DEF Synced
<1>7. PICK d : d = [S.idata EXCEPT !.check = "none", !.allow = TRUE]
  OBVIOUS
<1>8. /\ d \in ImapData /\ d.selected = S.idata.selected /\ d.expunge = S.idata.expunge
      /\ d.newmail = S.idata.newmail /\ d.newMailCount = S.idata.newMailCount
  BY <1>6, <1>7, DataKept
<1>9. PICK pc \in {"open", "marks", "over"} :
          pc = IF S.fatal \/ S.idata.check # "none" THEN "over" ELSE "marks"
  OBVIOUS
<1>10. told' = more /\ session' = S.session /\ idata' = d /\ misdone' = misdone
  BY <1>2, <1>3, <1>4, <1>6, <1>7
<1>11. box' = [box EXCEPT !.hdrs = S.hdrs, !.pc = pc]
  BY <1>2, <1>3, <1>9
<1>12. UNCHANGED <<folder, flags, nextuid>>
  BY DEF Imap!SyncStarts
<1> QED BY <1>5, <1>8, <1>9, <1>10, <1>11, <1>12, GoesOn

LEMMA CreateHolds ==
    ASSUME Imap!Bounds, IInv, Imap!f_create
    PROVE  IInv'
<1>1. PICK f, top : f = folder /\ top = nextuid
  OBVIOUS
<1>2. MaxUid \in Nat /\ flags \in [Uids -> Marks] /\ f \in Seq(Uids)
  BY <1>1 DEF Imap!Bounds, IInv, SessionTyped
<1>3. PICK r : r = Imap!imap_read_headers(<<>>, f, 0, Len(f))
  OBVIOUS
<1>4. r \in Seq(ImapHeader) /\ Numbered(r) /\ HeadersMatch(r, f) /\ EditsKept(r)
  <2>1. PICK none : none = <<>>
    OBVIOUS
  <2>2. /\ none \in Seq(ImapHeader) /\ Len(none) = 0 /\ Numbered(none)
        /\ HeadersMatch(none, f) /\ EditsKept(none)
    BY <2>1 DEF Numbered, HeadersMatch, EditsKept
  <2>3. PICK to \in Nat : to = Len(f) /\ 0 <= to /\ to <= Len(f)
    BY <1>2
  <2>4. r = Imap!imap_read_headers(none, f, Len(none), to)
    BY <1>3, <2>1, <2>2, <2>3
  <2> QED BY <1>2, <2>2, <2>3, <2>4, HeadersRead
<1>5. NumbersAscend(r) /\ NoGaps(r)
  BY <1>4, NumberedIsOrdered
<1>6. PICK d \in ImapData : d = idata
  BY DEF IInv, SessionTyped
<1>7. /\ idata' \in ImapData /\ idata'.selected /\ idata'.newmail = FALSE
  <2>1. PICK more \in 0 .. MaxBoxes : more = d.boxes + 1
    <3>1. d.boxes \in 0 .. MaxBoxes /\ d.boxes < MaxBoxes /\ MaxBoxes \in Nat
      BY <1>6, DataTyped DEF Imap!f_create, Imap!Bounds
    <3> QED BY <3>1
  <2>2. idata' = [d EXCEPT !.selected = TRUE, !.newMailCount = 0, !.newmail = FALSE,
                           !.check = "none", !.boxes = more]
    BY <1>6, <2>1 DEF Imap!f_create
  <2> QED BY <2>1, <2>2 DEF ImapData
<1>8. PICK e \in ImapData : e = idata' /\ e.selected /\ e.newmail = FALSE
  BY <1>7
<1>9. InStep(e, r, f)
  BY <1>4, <1>5, <1>8 DEF InStep
<1>10. box' \in ImapBox /\ box'.pc = "open" /\ box'.hdrs = r
  BY <1>1, <1>3, <1>4, NoBoxTyped DEF Imap!f_create, ImapBox
<1>11. told' = <<>> /\ session' = f /\ <<>> \in Seq(Item)
  BY <1>1 DEF Imap!f_create
<1>12. SessionTyped'
  BY <1>2, <1>7, <1>10, <1>11 DEF IInv, SessionTyped, Imap!f_create
<1>13. Chain(<<>>, f, f, top)
  BY <1>1, <1>2, NothingTold DEF IInv, FolderInOrder
<1>14. folder' = f /\ nextuid' = top
  BY <1>1 DEF Imap!f_create
<1>15. NewsInOrder'
  BY <1>11, <1>13, <1>14 DEF NewsInOrder
<1>16. BoxInStep'
  BY <1>8, <1>9, <1>10, <1>11 DEF BoxInStep
<1>17. EditsStay'
  BY <1>4, <1>10 DEF EditsStay
<1>18. FolderInOrder' /\ NothingWrong'
  BY <1>10 DEF IInv, FolderInOrder, NothingWrong, Imap!f_create
<1> QED BY <1>12, <1>15, <1>16, <1>17, <1>18 DEF IInv

(* Headers whose flags alone change stay in step.                           *)
LEMMA BoxChanged ==
    ASSUME IInv, box.pc \in Shown, NEW g \in Seq(ImapHeader), SameNumbers(g, box.hdrs),
           box' \in ImapBox, box'.hdrs = g, box'.pc \in Shown,
           box'.pc = "open" => EditsKept(g), flags' \in [Uids -> Marks],
           misdone' \cap {"out of sync", "lost", "stranger"} = {},
           UNCHANGED <<folder, nextuid, told, session, idata>>
    PROVE  IInv'
<1>1. PICK h, s, d : h = box.hdrs /\ s = session /\ d = idata
  OBVIOUS
<1>2. InStep(d, h, s) /\ d.selected
  BY <1>1 DEF IInv, BoxInStep
<1>3. InStep(d, g, s)
  <2>1. SameNumbers(g, h)
    BY <1>1
  <2> QED BY <1>2, <2>1, NumbersKept DEF InStep
<1>4. SessionTyped'
  BY DEF IInv, SessionTyped
<1>5. NewsInOrder' /\ FolderInOrder'
  BY DEF IInv, NewsInOrder, FolderInOrder
<1>6. BoxInStep'
  BY <1>1, <1>2, <1>3 DEF BoxInStep
<1>7. EditsStay' /\ NothingWrong'
  BY DEF EditsStay, NothingWrong, Shown
<1> QED BY <1>4, <1>5, <1>6, <1>7 DEF IInv

LEMMA SetFlagHolds ==
    ASSUME Imap!Bounds, IInv, Imap!f_set_flag
    PROVE  IInv'
<1>1. PICK b \in ImapBox : b = box /\ b.pc = "open"
  BY DEF Imap!f_set_flag, IInv, SessionTyped
<1>2. PICK hdrs \in Seq(ImapHeader) : hdrs = b.hdrs
  BY BoxTyped
<1>3. PICK i \in DOMAIN hdrs, del \in BOOLEAN :
         LET h == hdrs[i]
             g == IF del THEN [h EXCEPT !.deleted = TRUE] ELSE [h EXCEPT !.read = ~@]
         IN box' = [box EXCEPT !.edits = @ + 1,
                   !.hdrs[i] = [g EXCEPT !.changed = TRUE,
                                         !.want = <<g.read, g.deleted>>]]
  BY <1>1, <1>2 DEF Imap!f_set_flag
<1>4. PICK h \in ImapHeader : h = hdrs[i]
  BY HeaderTyped
<1>5. PICK g \in ImapHeader : /\ g = IF del THEN [h EXCEPT !.deleted = TRUE]
                                     ELSE [h EXCEPT !.read = ~@]
                              /\ g.index = h.index /\ g.uid = h.uid
  <2>1. \A y \in ImapHeader : LET z == [y EXCEPT !.deleted = TRUE]
                            IN z \in ImapHeader /\ z.index = y.index /\ z.uid = y.uid
    BY DEF ImapHeader
  <2>2. \A y \in ImapHeader : LET z == [y EXCEPT !.read = ~@]
                            IN z \in ImapHeader /\ z.index = y.index /\ z.uid = y.uid
    BY DEF ImapHeader
  <2>3. CASE del
    BY <2>1, <2>3
  <2>4. CASE ~del
    BY <2>2, <2>4
  <2> QED BY <2>3, <2>4
<1>6. PICK want \in Wants : want = <<g.read, g.deleted>>
  BY DEF Wants, ImapHeader
<1>7. PICK e \in ImapHeader :
          /\ e = [g EXCEPT !.changed = TRUE, !.want = want] /\ e.changed /\ e.want = want
          /\ e.index = h.index /\ e.uid = h.uid /\ e.read = g.read /\ e.deleted = g.deleted
  <2>1. \A y \in ImapHeader :
           LET z == [y EXCEPT !.changed = TRUE, !.want = want]
           IN /\ z \in ImapHeader /\ z.changed /\ z.want = want
              /\ z.index = y.index /\ z.uid = y.uid /\ z.read = y.read /\ z.deleted = y.deleted
    BY DEF ImapHeader
  <2>2. PICK e : e = [g EXCEPT !.changed = TRUE, !.want = want]
    OBVIOUS
  <2>3. /\ e \in ImapHeader /\ e.changed /\ e.want = want
        /\ e.index = g.index /\ e.uid = g.uid /\ e.read = g.read /\ e.deleted = g.deleted
    BY <2>1, <2>2
  <2> QED BY <1>5, <2>2, <2>3
<1>8. PICK new : new = [hdrs EXCEPT ![i] = e]
  OBVIOUS
<1>9. new \in Seq(ImapHeader) /\ DOMAIN new = DOMAIN hdrs /\ new[i] = e
      /\ \A j \in DOMAIN hdrs : j # i => new[j] = hdrs[j]
  BY <1>8
<1>10. PICK edits \in Nat : edits = b.edits + 1
  BY BoxTyped
<1>11. box' = [b EXCEPT !.edits = edits, !.hdrs = new]
  BY <1>1, <1>2, <1>3, <1>4, <1>5, <1>6, <1>7, <1>8, <1>10
<1>12. box' \in ImapBox /\ box'.hdrs = new /\ box'.pc = "open"
  BY <1>1, <1>9, <1>11 DEF ImapBox
<1>13. SameNumbers(new, hdrs)
  BY <1>4, <1>7, <1>9 DEF SameNumbers
<1>14. EditsKept(hdrs)
  BY <1>1, <1>2 DEF IInv, EditsStay
<1>15. EditsKept(new)
  <2>1. e.changed /\ e.want = <<e.read, e.deleted>>
    BY <1>6, <1>7
  <2>2. ASSUME NEW j \in DOMAIN new, new[j].want # <<>>
        PROVE  new[j].changed /\ new[j].want = <<new[j].read, new[j].deleted>>
    <3>1. CASE j = i
      BY <1>9, <2>1, <3>1
    <3>2. CASE j # i
      <4>1. new[j] = hdrs[j] /\ j \in DOMAIN hdrs
        BY <1>9, <3>2
      <4> QED BY <1>14, <2>2, <4>1 DEF EditsKept
    <3> QED BY <3>1, <3>2
  <2> QED BY <2>2 DEF EditsKept
<1>16. flags' \in [Uids -> Marks] /\ misdone' \cap {"out of sync", "lost", "stranger"} = {}
       /\ UNCHANGED <<folder, nextuid, told, session, idata>>
  BY DEF Imap!f_set_flag, IInv, SessionTyped, NothingWrong
<1> QED BY <1>1, <1>2, <1>9, <1>12, <1>13, <1>15, <1>16, BoxChanged DEF Shown

(* The STORE of the deleted messages: either one of them was expunged, or   *)
(* exactly those the script deleted are marked.                             *)
LEMMA DeletedStored ==
    ASSUME Imap!Bounds, IInv, Imap!StoreDeleted
    PROVE  IInv'
<1>1. PICK b \in ImapBox : b = box /\ b.pc = "marks"
  BY DEF Imap!StoreDeleted, IInv, SessionTyped
<1>2. PICK hdrs \in Seq(ImapHeader) : hdrs = b.hdrs
  BY BoxTyped
<1>3. PICK f \in Seq(Uids), s \in Seq(Uids), top \in Nat : f = folder /\ s = session /\ top = nextuid
  BY DEF IInv, SessionTyped
<1>4. MaxUid \in Nat
  BY DEF Imap!Bounds
<1>5. /\ HeadersMatch(hdrs, s) /\ NumbersAscend(hdrs) /\ NoGaps(hdrs)
      /\ Ascends(s) /\ NoneBetween(f, s)
  <2>1. idata.selected /\ HeadersMatch(hdrs, s) /\ NumbersAscend(hdrs) /\ NoGaps(hdrs)
    BY <1>1, <1>2, <1>3 DEF IInv, BoxInStep, Shown, InStep
  <2>2. PICK t \in Seq(Item) : t = told
    BY DEF IInv, SessionTyped
  <2>3. Chain(t, s, f, top)
    BY <1>3, <2>1, <2>2 DEF IInv, NewsInOrder
  <2>4. 0 \in 0 .. Len(t)
    OBVIOUS
  <2>5. Ascends(s) /\ NoneBetween(f, s)
    BY <2>3, <2>4 DEF Chain, Leads
  <2> QED BY <2>1, <2>5
<1>6. PICK marked : marked = Imap!imap_make_msg_set(Imap!Sorted(hdrs)) \cap Imap!Range(f)
  OBVIOUS
<1>7. PICK expunged : expunged = (\E h \in Imap!Range(hdrs) : h.index = 0 /\ Imap!Matches(h))
  OBVIOUS
<1>8. /\ flags' = [u \in 1 .. MaxUid |->
                         IF u \in marked THEN [flags[u] EXCEPT !.deleted = TRUE]
                         ELSE flags[u]]
      /\ misdone' = misdone
               \cup (IF marked \subseteq Imap!Wanted THEN {}
                     ELSE IF expunged THEN {"stranger after expunge"} ELSE {"stranger"})
               \cup (IF Imap!Wanted \cap Imap!Range(f) \subseteq marked THEN {}
                     ELSE IF expunged THEN {"lost after expunge"} ELSE {"lost"})
  BY <1>1, <1>2, <1>3, <1>6, <1>7 DEF Imap!StoreDeleted
<1>9. \A u : u \in Imap!Wanted <=> \E k \in DOMAIN hdrs : Imap!Matches(hdrs[k]) /\ hdrs[k].uid = u
  BY <1>1, <1>2 DEF Imap!Wanted, Imap!ChangedOnes, Imap!Matches
<1>10. ASSUME ~expunged
       PROVE  marked \subseteq Imap!Wanted /\ Imap!Wanted \cap Imap!Range(f) \subseteq marked
  <2>1. \A i \in DOMAIN hdrs : Imap!Matches(hdrs[i]) => hdrs[i].index # 0
    BY <1>7, <1>10 DEF Imap!Range
  <2>2. ReadyToMark(hdrs, s, f)
    BY <1>5, <2>1 DEF ReadyToMark
  <2>3. \A i \in DOMAIN f : f[i] \in Imap!imap_make_msg_set(Imap!Sorted(hdrs)) <=> f[i] \in Imap!Wanted
    BY <1>4, <1>9, <2>2, MarksWanted
  <2> QED BY <1>6, <2>3 DEF Imap!Range
<1>11. misdone' \cap {"out of sync", "lost", "stranger"} = {}
  <2>1. misdone \cap {"out of sync", "lost", "stranger"} = {}
    BY DEF IInv, NothingWrong
  <2>2. CASE expunged
    BY <1>8, <2>1, <2>2
  <2>3. CASE ~expunged
    BY <1>8, <1>10, <2>1, <2>3
  <2> QED BY <2>2, <2>3
<1>12. flags' \in [Uids -> Marks]
  <2>1. \A m \in Marks : [m EXCEPT !.deleted = TRUE] \in Marks
    BY DEF Marks
  <2>2. PICK fl \in [Uids -> Marks] : fl = flags
    BY DEF IInv, SessionTyped
  <2>3. flags' = [u \in Uids |-> IF u \in marked THEN [fl[u] EXCEPT !.deleted = TRUE]
                                 ELSE fl[u]]
    BY <1>8, <2>2 DEF Uids
  <2>4. \A u \in Uids : fl[u] \in Marks /\ [fl[u] EXCEPT !.deleted = TRUE] \in Marks
    BY <2>1
  <2> QED BY <2>3, <2>4
<1>13. PICK new : new = [i \in DOMAIN hdrs |-> IF hdrs[i].deleted
                                               THEN [hdrs[i] EXCEPT !.changed = FALSE]
                                               ELSE hdrs[i]]
  OBVIOUS
<1>14. ASSUME NEW i \in DOMAIN hdrs
       PROVE  new[i] \in ImapHeader /\ new[i].index = hdrs[i].index /\ new[i].uid = hdrs[i].uid
  <2>1. \A y \in ImapHeader : LET z == [y EXCEPT !.changed = FALSE]
                              IN z \in ImapHeader /\ z.index = y.index /\ z.uid = y.uid
    BY DEF ImapHeader
  <2>2. hdrs[i] \in ImapHeader
    BY HeaderTyped
  <2> QED BY <1>13, <2>1, <2>2
<1>15. new \in Seq(ImapHeader) /\ DOMAIN new = DOMAIN hdrs
  <2>1. DOMAIN hdrs = 1 .. Len(hdrs) /\ Len(hdrs) \in Nat
    OBVIOUS
  <2> QED BY <1>13, <1>14, <2>1
<1>16. SameNumbers(new, hdrs)
  BY <1>14, <1>15 DEF SameNumbers
<1>17. box' = [b EXCEPT !.pc = "stores", !.hdrs = new]
  BY <1>1, <1>2, <1>13 DEF Imap!StoreDeleted
<1>18. box' \in ImapBox /\ box'.hdrs = new /\ box'.pc = "stores"
  BY <1>15, <1>17 DEF ImapBox
<1>19. UNCHANGED <<folder, nextuid, told, session, idata>>
  BY DEF Imap!StoreDeleted
<1> QED BY <1>1, <1>2, <1>11, <1>12, <1>15, <1>16, <1>18, <1>19, BoxChanged DEF Shown

LEMMA FlagsStored ==
    ASSUME Imap!Bounds, IInv, Imap!StoreFlags
    PROVE  IInv'
<1>1. PICK b \in ImapBox : b = box /\ b.pc = "stores"
  BY DEF Imap!StoreFlags, IInv, SessionTyped
<1>2. PICK hdrs \in Seq(ImapHeader) : hdrs = b.hdrs
  BY BoxTyped
<1>3. PICK i : i = Imap!Min(Imap!ChangedOnes)
  OBVIOUS
<1>4. i \in DOMAIN hdrs
  <2>1. Imap!ChangedOnes # {} /\ Imap!ChangedOnes \subseteq DOMAIN hdrs
    BY <1>1, <1>2 DEF Imap!StoreFlags, Imap!ChangedOnes
  <2>2. \A x \in DOMAIN hdrs : x \in Int /\ 1 <= x
    OBVIOUS
  <2>3. 1 \in Int
    OBVIOUS
  <2>4. i \in Imap!ChangedOnes
    BY <1>3, <2>1, <2>2, <2>3, LeastOf
  <2> QED BY <2>1, <2>4
<1>5. PICK h \in ImapHeader : h = hdrs[i]
  BY <1>4, HeaderTyped
<1>6. /\ flags' \in {flags, [flags EXCEPT ![h.uid] = [read |-> h.read,
                                                      deleted |-> h.deleted]]}
      /\ box' = [box EXCEPT !.hdrs[i].changed = FALSE, !.hdrs[i].want = <<>>]
  BY <1>1, <1>2, <1>3, <1>5 DEF Imap!StoreFlags
<1>7. flags' \in [Uids -> Marks]
  <2>1. PICK fl \in [Uids -> Marks] : fl = flags
    BY DEF IInv, SessionTyped
  <2>2. PICK m \in Marks : m = [read |-> h.read, deleted |-> h.deleted]
    BY DEF Marks, ImapHeader
  <2>3. flags' = fl \/ flags' = [fl EXCEPT ![h.uid] = m]
    BY <1>6, <2>1, <2>2
  <2> QED BY <2>3
<1>8. PICK e : e = [h EXCEPT !.changed = FALSE, !.want = <<>>]
  OBVIOUS
<1>9. e \in ImapHeader /\ e.index = h.index /\ e.uid = h.uid
  <2>1. \A y \in ImapHeader : LET z == [y EXCEPT !.changed = FALSE, !.want = <<>>]
                              IN z \in ImapHeader /\ z.index = y.index /\ z.uid = y.uid
    BY DEF ImapHeader, Wants
  <2> QED BY <1>8, <2>1
<1>10. PICK new : new = [hdrs EXCEPT ![i] = e]
  OBVIOUS
<1>11. new \in Seq(ImapHeader) /\ SameNumbers(new, hdrs)
  <2>1. /\ new \in Seq(ImapHeader) /\ DOMAIN new = DOMAIN hdrs /\ new[i] = e
        /\ \A j \in DOMAIN hdrs : j # i => new[j] = hdrs[j]
    BY <1>4, <1>9, <1>10
  <2> QED BY <1>5, <1>9, <2>1 DEF SameNumbers
<1>12. box' = [b EXCEPT !.hdrs = new]
  BY <1>1, <1>2, <1>4, <1>5, <1>6, <1>8, <1>10 DEF ImapBox
<1>13. box' \in ImapBox /\ box'.hdrs = new /\ box'.pc = "stores"
  BY <1>1, <1>11, <1>12 DEF ImapBox
<1>14. misdone' \cap {"out of sync", "lost", "stranger"} = {}
       /\ UNCHANGED <<folder, nextuid, told, session, idata>>
  BY DEF Imap!StoreFlags, IInv, NothingWrong
<1> QED BY <1>1, <1>2, <1>7, <1>11, <1>13, <1>14, BoxChanged DEF Shown

LEMMA StoreRefused ==
    ASSUME Imap!Bounds, IInv, Imap!StoreFails
    PROVE  IInv'
<1>1. box' \in ImapBox /\ box'.pc = "over"
  BY NoBoxTyped DEF Imap!StoreFails, ImapBox
<1>2. SessionTyped'
  BY <1>1 DEF Imap!StoreFails, IInv, SessionTyped
<1>3. FolderInOrder' /\ NewsInOrder'
  BY DEF Imap!StoreFails, IInv, FolderInOrder, NewsInOrder
<1> QED BY <1>1, <1>2, <1>3
        DEF Imap!StoreFails, IInv, BoxInStep, EditsStay, NothingWrong, Shown

LEMMA CloseHolds ==
    ASSUME Imap!Bounds, IInv, Imap!imap_close_mailbox
    PROVE  IInv'
<1>1. PICK f \in Seq(Uids), top \in Nat : f = folder /\ top = nextuid
  BY DEF IInv, SessionTyped
<1>2. MaxUid \in Nat /\ Ascends(f) /\ Below(f, top)
  BY <1>1 DEF Imap!Bounds, IInv, FolderInOrder
<1>3. PICK places : folder' = Imap!Picked(f, places)
  BY <1>1 DEF Imap!imap_close_mailbox
<1>4. PICK g : g = Imap!Picked(f, places)
  OBVIOUS
<1>5. /\ g \in Seq(Uids) /\ Ascends(g)
      /\ \A k \in DOMAIN g : \E j \in DOMAIN f : g[k] = f[j]
  BY <1>2, <1>4, PickedKeepsOrder
<1>6. Below(g, top)
  BY <1>2, <1>5 DEF Below
<1>7. PICK d \in ImapData : d = idata
  BY DEF IInv, SessionTyped
<1>8. idata' \in ImapData /\ idata'.selected = FALSE
  BY <1>7 DEF Imap!imap_close_mailbox, ImapData
<1>9. box' \in ImapBox /\ box'.pc = "none"
  BY NoBoxTyped DEF Imap!imap_close_mailbox
<1>10. <<>> \in Seq(Uids) /\ <<>> \in Seq(Item)
  OBVIOUS
<1>11. SessionTyped'
  BY <1>3, <1>4, <1>5, <1>8, <1>9, <1>10 DEF IInv, SessionTyped, Imap!imap_close_mailbox
<1>12. FolderInOrder'
  <2>1. folder' = g /\ nextuid' = top
    BY <1>1, <1>3, <1>4 DEF Imap!imap_close_mailbox
  <2> QED BY <1>5, <1>6, <2>1 DEF FolderInOrder
<1> QED BY <1>8, <1>9, <1>11, <1>12
        DEF IInv, NewsInOrder, BoxInStep, EditsStay, NothingWrong, Shown, Imap!imap_close_mailbox

LEMMA StutterHolds ==
    ASSUME IInv, UNCHANGED Imap!imapvars
    PROVE  IInv'
<1>1. UNCHANGED <<folder, flags, nextuid, told, session, idata, box, misdone>>
  BY DEF Imap!imapvars
<1> QED BY <1>1 DEF IInv, SessionTyped, FolderInOrder, NewsInOrder, BoxInStep, EditsStay, NothingWrong

LEMMA StepHolds ==
    ASSUME Imap!Bounds, IInv, [Imap!Next]_(Imap!imapvars)
    PROVE  IInv'
<1>1. CASE Imap!MessageArrives
  BY <1>1, MailArrives
<1>2. CASE Imap!OtherExpunges
  BY <1>2, OthersExpunge
<1>3. CASE Imap!OtherStores
  BY <1>3, OthersStore
<1>4. CASE Imap!f_create
  BY <1>4, CreateHolds
<1>5. CASE Imap!f_set_flag
  BY <1>5, SetFlagHolds
<1>6. CASE Imap!f_check_mailbox
  BY <1>6, CheckHolds
<1>7. CASE Imap!SyncStarts
  BY <1>7, SyncHolds
<1>8. CASE Imap!StoreDeleted
  BY <1>8, DeletedStored
<1>9. CASE Imap!StoreFlags
  BY <1>9, FlagsStored
<1>10. CASE Imap!StoreFails
  BY <1>10, StoreRefused
<1>11. CASE Imap!imap_close_mailbox
  BY <1>11, CloseHolds
<1>12. CASE UNCHANGED Imap!imapvars
  BY <1>12, StutterHolds
<1> QED BY <1>1, <1>2, <1>3, <1>4, <1>5, <1>6, <1>7, <1>8, <1>9, <1>10, <1>11, <1>12 DEF Imap!Next

(* What the invariant says of what a script and a server see.               *)
LEMMA SessionIs ==
    ASSUME Imap!Bounds, IInv
    PROVE  /\ Imap!TypeOK /\ Imap!IndexMatchesServer
           /\ Imap!OwnFlagsSurviveServer /\ Imap!MarksAreExact
<1>1. PICK b \in ImapBox : b = box
  BY DEF IInv, SessionTyped
<1>2. PICK hdrs \in Seq(ImapHeader) : hdrs = b.hdrs
  BY BoxTyped
<1>3. PICK s \in Seq(Uids) : s = session
  BY DEF IInv, SessionTyped
<1>4. Imap!TypeOK
  BY <1>1, BoxTyped DEF IInv, SessionTyped, Imap!TypeOK, Uids, Marks, ImapData
<1>5. "out of sync" \notin misdone /\ Imap!MarksAreExact
  BY DEF IInv, NothingWrong, Imap!MarksAreExact
<1>6. ASSUME b.pc \in Shown, NEW i \in DOMAIN hdrs, hdrs[i].index # 0
      PROVE  hdrs[i].index \in DOMAIN s /\ s[hdrs[i].index] = hdrs[i].uid
  <2>1. HeadersMatch(hdrs, s)
    BY <1>1, <1>2, <1>3, <1>6 DEF IInv, BoxInStep, InStep
  <2>2. PICK n \in Nat : n = hdrs[i].index
    BY HeaderTyped
  <2>3. n # 0 /\ n <= Len(s) /\ s[n] = hdrs[i].uid
    BY <1>6, <2>1, <2>2 DEF HeadersMatch
  <2> QED BY <2>2, <2>3
<1>7. Imap!IndexMatchesServer
  BY <1>1, <1>2, <1>3, <1>5, <1>6 DEF Imap!IndexMatchesServer, Shown, Imap!Range
<1>8. Imap!OwnFlagsSurviveServer
  <2>1. b.pc = "open" => EditsKept(hdrs)
    BY <1>1, <1>2 DEF IInv, EditsStay
  <2> QED BY <1>1, <1>2, <2>1 DEF Imap!OwnFlagsSurviveServer, EditsKept, Imap!Range
<1> QED BY <1>4, <1>5, <1>7, <1>8

(* Whatever a session is told and in whatever order, a header keeps the     *)
(* number its message has there, the script's own changes stay, and a close *)
(* marks exactly the messages the script deleted.                           *)
THEOREM SessionHolds ==
    ASSUME Imap!Bounds
    PROVE  Imap!Spec => [](/\ Imap!TypeOK /\ Imap!IndexMatchesServer
                           /\ Imap!OwnFlagsSurviveServer /\ Imap!MarksAreExact)
<1>1. Imap!Init => IInv
  BY InitHolds
<1>2. IInv /\ [Imap!Next]_(Imap!imapvars) => IInv'
  BY StepHolds
<1>3. IInv => /\ Imap!TypeOK /\ Imap!IndexMatchesServer
              /\ Imap!OwnFlagsSurviveServer /\ Imap!MarksAreExact
  BY SessionIs
<1> QED BY <1>1, <1>2, <1>3, PTL DEF Imap!Spec
==============================================================================
