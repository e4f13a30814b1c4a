----------------------------- MODULE Mailstore -----------------------------
(***************************************************************************)
(* The objects Mailstore.Mailbox and Mailbox.Message: contexts, streams    *)
(* and the expressions all mailboxes share (mailstore_main.c; the opening  *)
(* and closing of mailboxes and messages in libmutt/src/mx.c).  An mbox    *)
(* has one stream that all its messages read; a maildir has one for each   *)
(* open message.  getFD makes a Pike file of a stream's descriptor.        *)
(***************************************************************************)
EXTENDS Integers, FiniteSets, WellFoundedInduction, NaturalsInduction, TLAPS

CONSTANTS
    BoxObjs, MsgObjs,   \* Mailbox objects, Message objects
    MaxContexts,        \* bound: mailboxes ever opened
    MaxFds,             \* descriptors of the process
    MaxOpens,           \* bound: streams ever opened
    MaxHeaders          \* bound: messages of a mailbox

VARIABLES
    mailboxes,    \* MAILSTORE_STORAGE: the context, 0 for none
    contexts,     \* the contexts made
    messages,     \* MESSAGE_STORAGE
    fdtable,      \* what each descriptor is open on: 0, or a number
    opens,        \* number of the file opened last
    pikefiles,    \* files getFD made: descriptor and what it was open on
    ReplyRegexp,  \* whether the shared expression is compiled
    mailhistory,  \* what the script did so far
    mailfaults

mailstorevars == <<mailboxes, contexts, messages, fdtable, opens, pikefiles,
                   ReplyRegexp, mailhistory, mailfaults>>

NoStream == [fd |-> 0, file |-> 0]
init_mailstore == [alive |-> FALSE, ctx |-> 0]
init_message_storage == [alive |-> FALSE, ctx |-> 0, msgno |-> 0, fp |-> NoStream]
NoContext == [state |-> "unused", magic |-> "mbox", msgcount |-> 0, fp |-> NoStream]
Init ==
    /\ mailboxes = [b \in BoxObjs |-> init_mailstore]
    /\ contexts = [c \in 1..MaxContexts |-> NoContext]
    /\ messages = [m \in MsgObjs |-> init_message_storage]
    /\ fdtable = [f \in 1..MaxFds |-> 0]
    /\ opens = 0
    /\ pikefiles = {}
    /\ ReplyRegexp = FALSE
    /\ mailhistory = {}
    /\ mailfaults = {}

Stream == [fd : 0..MaxFds, file : 0..MaxOpens]
Mailboxes == [alive : BOOLEAN, ctx : 0..MaxContexts]
Contexts == [state : {"unused", "open", "freed"}, magic : {"mbox", "maildir"},
             msgcount : 0..MaxHeaders, fp : Stream]
MailMessages == [alive : BOOLEAN, ctx : 0..MaxContexts, msgno : 0..MaxHeaders, fp : Stream]
TypeOK ==
    /\ mailboxes \in [BoxObjs -> Mailboxes]
    /\ contexts \in [1..MaxContexts -> Contexts]
    /\ messages \in [MsgObjs -> MailMessages]
    /\ fdtable \in [1..MaxFds -> 0..MaxOpens] /\ pikefiles \subseteq Stream
    /\ mailhistory \subseteq {"overlapped", "took descriptor"}

-----------------------------------------------------------------------------
Raises == UNCHANGED mailstorevars
Fault(what) ==
    /\ mailfaults' = {what}
    /\ UNCHANGED <<mailboxes, contexts, messages, fdtable, opens, pikefiles,
                   ReplyRegexp, mailhistory>>

(* The kernel gives the lowest descriptor that is free.                     *)
FreeFds == {f \in DOMAIN fdtable : fdtable[f] = 0}
fopen(fp) ==
    /\ FreeFds # {} /\ opens < MaxOpens
    /\ fp = [fd |-> CHOOSE f \in FreeFds : \A g \in FreeFds : f <= g, file |-> opens + 1]
    /\ opens' = opens + 1
    /\ fdtable' = [fdtable EXCEPT ![fp.fd] = fp.file]
Others(fp) == fp.fd # 0 /\ fdtable[fp.fd] \notin {0, fp.file}
Closed(fp) == IF fp.fd = 0 THEN fdtable ELSE [fdtable EXCEPT ![fp.fd] = 0]

Open(b) == mailboxes[b].alive /\ mailfaults = {}
Unused == {c \in 1..MaxContexts : contexts[c].state = "unused"}

(* The expression is compiled when there is none.  An mbox is opened before *)
(* its messages are read.                                                   *)
CompilesOnce == Cardinality(Unused) = MaxContexts
Compiles == ~ReplyRegexp
NewContext(c, magic, n, fp) ==
    contexts' = [contexts EXCEPT ![c] = [state |-> "open", magic |-> magic,
                                         msgcount |-> n, fp |-> fp]]
mx_open_mailbox(c) ==
    \E n \in 0..MaxHeaders :
       \/ \E fp \in Stream : fopen(fp) /\ NewContext(c, "mbox", n, fp)
       \/ NewContext(c, "maildir", n, NoStream) /\ UNCHANGED <<fdtable, opens>>
f_create(b) ==
    /\ mailfaults = {} /\ ~mailboxes[b].alive /\ Unused # {}
    /\ LET c == CHOOSE x \in Unused : \A y \in Unused : x <= y
           compiled == ReplyRegexp \/ Compiles IN
       IF ~compiled THEN Fault("expression")
       ELSE /\ mx_open_mailbox(c)
            /\ mailboxes' = [mailboxes EXCEPT ![b] = [alive |-> TRUE, ctx |-> c]]
            /\ ReplyRegexp' = compiled
            /\ UNCHANGED <<messages, pikefiles, mailhistory, mailfaults>>

(* The end of an object frees the expressions of all, whether its mailbox   *)
(* could be opened or not.                                                  *)
Frees(b) ==
    /\ ReplyRegexp' = FALSE
    /\ mailhistory' = mailhistory \cup
          IF \E o \in BoxObjs \ {b} : mailboxes[o].alive THEN {"overlapped"} ELSE {}
CreateFails(b) ==
    /\ mailfaults = {} /\ ~mailboxes[b].alive
    /\ Frees(b)
    /\ UNCHANGED <<mailboxes, contexts, messages, fdtable, opens, pikefiles, mailfaults>>

(* A message refers to its mailbox: only destruct ends a mailbox before its *)
(* messages.                                                                *)
exit_mailstore(b) ==
    /\ Open(b)
    /\ LET c == mailboxes[b].ctx IN
       IF Others(contexts[c].fp) THEN Fault("descriptor")
       ELSE /\ fdtable' = Closed(contexts[c].fp)
            /\ contexts' = [contexts EXCEPT ![c].state = "freed"]
            /\ mailboxes' = [mailboxes EXCEPT ![b] = init_mailstore]
            /\ Frees(b)
            /\ UNCHANGED <<messages, opens, pikefiles, mailfaults>>

-----------------------------------------------------------------------------
(* check_mailbox: new messages are read with the expression; a mailbox that *)
(* was changed elsewhere is read anew and may have become shorter.          *)
f_check_mailbox(b) ==
    /\ Open(b)
    /\ LET c == mailboxes[b].ctx IN
       IF Others(contexts[c].fp) THEN Fault("descriptor")
       ELSE IF contexts[c].msgcount < MaxHeaders /\ ~ReplyRegexp THEN Fault("expression")
       ELSE /\ \E n \in 0..MaxHeaders : contexts' = [contexts EXCEPT ![c].msgcount = n]
            /\ UNCHANGED <<mailboxes, messages, fdtable, opens, pikefiles, ReplyRegexp,
                           mailhistory, mailfaults>>

(* get_header refuses an index that is not that of a message.               *)
LastTooFar(c, idx) == idx >= 0 /\ idx <= contexts[c].msgcount
InRange(c, idx) == idx >= 0 /\ idx < contexts[c].msgcount
push_headers(c, idx) == IF idx < contexts[c].msgcount THEN Raises ELSE Fault("header")
f_get_header(b) ==
    /\ Open(b)
    /\ \E idx \in -1..MaxHeaders :
          IF InRange(mailboxes[b].ctx, idx) THEN push_headers(mailboxes[b].ctx, idx)
          ELSE Raises
(* set_flag and reset_flag do not look.                                     *)
f_set_flag(b) ==
    /\ Open(b)
    /\ \E idx \in -1..MaxHeaders :
          IF idx \in 0..contexts[mailboxes[b].ctx].msgcount - 1 THEN Raises
          ELSE Fault("index")

(* A message is opened and read; the number is not looked at here either.   *)
f_msg_create(m, b) ==
    /\ Open(b) /\ ~messages[m].alive
    /\ LET c == mailboxes[b].ctx
           Made(n, fp) == messages' = [messages EXCEPT ![m] =
                             [alive |-> TRUE, ctx |-> c, msgno |-> n, fp |-> fp]] IN
       \E n \in 0..MaxHeaders :
          IF n >= contexts[c].msgcount THEN Fault("index")
          ELSE IF Others(contexts[c].fp) THEN Fault("descriptor")
          ELSE /\ IF contexts[c].magic = "mbox"
                  THEN Made(n, contexts[c].fp) /\ UNCHANGED <<fdtable, opens>>
                  ELSE \E fp \in Stream : fopen(fp) /\ Made(n, fp)
               /\ UNCHANGED <<mailboxes, contexts, pikefiles, ReplyRegexp,
                              mailhistory, mailfaults>>

InUse(m) == messages[m].alive /\ mailfaults = {}
Gone(m) == contexts[messages[m].ctx].state = "freed"
SharesStream(m) == contexts[messages[m].ctx].magic = "mbox"
f_msg_getfd(m) ==
    /\ InUse(m)
    /\ IF Gone(m) /\ SharesStream(m) THEN Fault("context")
       ELSE /\ pikefiles' = pikefiles \cup {messages[m].fp}
            /\ UNCHANGED <<mailboxes, contexts, messages, fdtable, opens, ReplyRegexp,
                           mailhistory, mailfaults>>
f_msg_get_header(m) ==
    /\ InUse(m)
    /\ IF Gone(m) THEN Fault("context")
       ELSE IF InRange(messages[m].ctx, messages[m].msgno)
       THEN push_headers(messages[m].ctx, messages[m].msgno) ELSE Raises

(* The end of a message closes a stream that is the message's own.          *)
ClosesAlways(m) == TRUE
ClosesStream(m) == ~SharesStream(m)
mx_close_message(m) ==
    fdtable' = IF ClosesStream(m) THEN Closed(messages[m].fp) ELSE fdtable
exit_message_storage(m) ==
    /\ InUse(m)
    /\ IF ~SharesStream(m) /\ Others(messages[m].fp) THEN Fault("descriptor")
       ELSE /\ mx_close_message(m)
            /\ messages' = [messages EXCEPT ![m] = init_message_storage]
            /\ UNCHANGED <<mailboxes, contexts, opens, pikefiles, ReplyRegexp,
                           mailhistory, mailfaults>>

(* The script, or the collector, closes a file getFD made.                  *)
PikeFileCloses(fp) ==
    /\ mailfaults = {} /\ fp \in pikefiles
    /\ pikefiles' = pikefiles \ {fp}
    /\ fdtable' = Closed(fp)
    /\ mailhistory' = mailhistory \cup {"took descriptor"}
    /\ UNCHANGED <<mailboxes, contexts, messages, opens, ReplyRegexp, mailfaults>>

Next ==
    \/ \E b \in BoxObjs :
          \/ f_create(b) \/ CreateFails(b) \/ exit_mailstore(b) \/ f_check_mailbox(b)
          \/ f_get_header(b) \/ f_set_flag(b)
          \/ \E m \in MsgObjs : f_msg_create(m, b)
    \/ \E m \in MsgObjs : f_msg_getfd(m) \/ f_msg_get_header(m) \/ exit_message_storage(m)
    \/ \E fp \in pikefiles : PikeFileCloses(fp)

Spec == Init /\ [][Next]_mailstorevars

-----------------------------------------------------------------------------
(* mailstore_main.c: mail is read without the shared expression only after  *)
(* a mailbox was closed, or could not be opened, beside another: mailboxes  *)
(* used one after the other compile it again.                               *)
ExpressionsServeOne == "expression" \in mailfaults => "overlapped" \in mailhistory

(* mailstore_main.c: a header is never read behind the last message,        *)
(* although the number of a Message object may be out of date.              *)
StaleNumbersAreRefused == "header" \notin mailfaults

(* mx.c, mailstore_main.c: whatever messages are opened and closed, an open *)
(* stream keeps its descriptor, as long as no file of getFD was closed.     *)
StreamsKeepDescriptors ==
    "took descriptor" \notin mailhistory =>
       /\ \A b \in BoxObjs : mailboxes[b].alive =>
             LET fp == contexts[mailboxes[b].ctx].fp IN
             fp.fd # 0 => fdtable[fp.fd] = fp.file
       /\ \A m \in MsgObjs : messages[m].alive /\ ~SharesStream(m) =>
             fdtable[messages[m].fp.fd] = messages[m].fp.file

-----------------------------------------------------------------------------
(* The inductive invariant.  Objects that are alive have contexts, each     *)
(* Mailbox one of its own; a Mailbox finds the expression compiled unless   *)
(* another one ended beside it.                                             *)
ContextsAreOwned ==
    /\ \A b \in BoxObjs : mailboxes[b].alive =>
          /\ mailboxes[b].ctx \in 1..MaxContexts
          /\ contexts[mailboxes[b].ctx].state = "open"
          /\ \A o \in BoxObjs \ {b} :
                mailboxes[o].alive => mailboxes[o].ctx # mailboxes[b].ctx
    /\ \A m \in MsgObjs : messages[m].alive =>
          /\ messages[m].ctx \in 1..MaxContexts
          /\ contexts[messages[m].ctx].state # "unused"
ExpressionIsThere == \A b \in BoxObjs :
    mailboxes[b].alive => ReplyRegexp \/ "overlapped" \in mailhistory

(* The streams objects have of their own, by owner: that of the mbox, and   *)
(* that of each message of a maildir.                                       *)
BoxStreams ==
    {b \in BoxObjs : mailboxes[b].alive /\ contexts[mailboxes[b].ctx].fp.fd # 0}
MsgStreams == {m \in MsgObjs : messages[m].alive /\ ~SharesStream(m)}
Owners == ({"box"} \X BoxStreams) \cup ({"msg"} \X MsgStreams)
StreamOf(o) == IF o[1] = "box" THEN contexts[mailboxes[o[2]].ctx].fp ELSE messages[o[2]].fp
Streams == [o \in Owners |-> StreamOf(o)]

(* A stream has a descriptor that is open on its file, and no two streams   *)
(* are of one file.                                                         *)
Kept(streams, table, last) ==
    /\ \A o \in DOMAIN streams :
          /\ streams[o].fd \in 1..MaxFds /\ streams[o].file \in 1..last
          /\ table[streams[o].fd] = streams[o].file
    /\ \A o, p \in DOMAIN streams : o # p => streams[o].file # streams[p].file
StreamsAreKept == "took descriptor" \notin mailhistory => Kept(Streams, fdtable, opens)

StoreInv ==
    /\ TypeOK /\ opens \in Nat
    /\ ContextsAreOwned /\ ExpressionIsThere /\ StreamsAreKept
    /\ ExpressionsServeOne /\ StaleNumbersAreRefused

-----------------------------------------------------------------------------
(* All of them are numbers.                                                 *)
Bounds ==
    MaxContexts \in Nat /\ MaxFds \in Nat /\ MaxOpens \in Nat /\ MaxHeaders \in Nat

(* The lowest of some numbers is one of them.                               *)
LEMMA LowestIsThere ==
    ASSUME NEW ns, ns \subseteq Nat, ns # {}
    PROVE (CHOOSE n \in ns : \A k \in ns : n <= k) \in ns
<1>1. IsWellFoundedOn(OpToRel(<, Nat), Nat)
  BY NatLessThanWellFounded
<1>2. \E n \in ns : \A k \in ns : ~(<<k, n>> \in OpToRel(<, Nat))
  BY <1>1, WFMin, Zenon
<1>3. PICK n \in ns : \A k \in ns : ~(<<k, n>> \in OpToRel(<, Nat))
  BY <1>2
<1>4. \A k \in ns : ~(k < n)
  BY <1>3 DEF OpToRel
<1>5. \A k \in ns : n <= k
  BY <1>4
<1> QED BY <1>5

(* Streams that are not opened or closed keep what they had.                *)
LEMMA KeptFewer ==
    ASSUME NEW streams, NEW less, NEW table, NEW last, Kept(streams, table, last),
           DOMAIN less \subseteq DOMAIN streams,
           \A o \in DOMAIN less : less[o] = streams[o]
    PROVE Kept(less, table, last)
BY DEF Kept

(* A new stream is on a descriptor that was free, and of a new file.        *)
LEMMA KeptOpened ==
    ASSUME NEW streams, NEW more, NEW table \in [1..MaxFds -> 0..MaxOpens], NEW last \in Nat,
           Kept(streams, table, last), NEW new, NEW f \in 1..MaxFds, table[f] = 0,
           DOMAIN more \subseteq DOMAIN streams \cup {new},
           \A o \in DOMAIN more \ {new} : more[o] = streams[o],
           more[new].fd = f, more[new].file = last + 1
    PROVE Kept(more, [table EXCEPT ![f] = last + 1], last + 1)
<1> DEFINE table2 == [table EXCEPT ![f] = last + 1]
<1>1. \A o \in DOMAIN more \ {new} :
         /\ more[o].fd \in 1..MaxFds /\ more[o].file \in 1..last
         /\ table[more[o].fd] = more[o].file
  BY DEF Kept
<1>2. table2[f] = last + 1
  OBVIOUS
<1>3. \A o \in DOMAIN more \ {new} :
         more[o].fd # f /\ table2[more[o].fd] = more[o].file
  BY <1>1
<1>4. \A o, p \in DOMAIN more \ {new} : o # p => more[o].file # more[p].file
  BY DEF Kept
<1>5. \A o \in DOMAIN more \ {new} : more[o].file # more[new].file
  BY <1>1
<1> HIDE DEF table2
<1>6. \A o, p \in DOMAIN more : o # p => more[o].file # more[p].file
  BY <1>4, <1>5
<1>7. \A o \in DOMAIN more :
         /\ more[o].fd \in 1..MaxFds /\ more[o].file \in 1..last + 1
         /\ table2[more[o].fd] = more[o].file
  <2> SUFFICES ASSUME NEW o \in DOMAIN more
               PROVE /\ more[o].fd \in 1..MaxFds /\ more[o].file \in 1..last + 1
                     /\ table2[more[o].fd] = more[o].file
    OBVIOUS
  <2>1. CASE o = new
    BY <1>2, <2>1
  <2>2. CASE o # new
    BY <1>1, <1>3, <2>2
  <2> QED BY <2>1, <2>2
<1> QED BY <1>6, <1>7 DEF Kept, table2

(* Closing a stream takes no other one's descriptor.                        *)
LEMMA KeptClosed ==
    ASSUME NEW streams, NEW less, NEW table \in [1..MaxFds -> 0..MaxOpens], NEW last \in Nat,
           Kept(streams, table, last), NEW o \in DOMAIN streams,
           DOMAIN less \subseteq DOMAIN streams \ {o},
           \A p \in DOMAIN less : less[p] = streams[p]
    PROVE Kept(less, [table EXCEPT ![streams[o].fd] = 0], last)
<1> DEFINE f == streams[o].fd
<1>1. f \in 1..MaxFds /\ table[f] = streams[o].file
  BY DEF Kept
<1>2. \A p \in DOMAIN less :
         /\ less[p].fd \in 1..MaxFds /\ less[p].file \in 1..last
         /\ table[less[p].fd] = less[p].file /\ less[p].file # streams[o].file
  BY DEF Kept
<1>3. \A p \in DOMAIN less : less[p].fd # f
  BY <1>1, <1>2
<1>4. \A p, q \in DOMAIN less : p # q => less[p].file # less[q].file
  BY DEF Kept
<1> QED BY <1>1, <1>2, <1>3, <1>4 DEF Kept

(* Streams of all owners but one follow them through a step.                *)
OthersFollow(one) ==
    /\ \A b \in BoxStreams' : <<"box", b>> # one =>
          /\ b \in BoxStreams
          /\ contexts'[mailboxes'[b].ctx].fp = contexts[mailboxes[b].ctx].fp
    /\ \A m \in MsgStreams' : <<"msg", m>> # one =>
          m \in MsgStreams /\ messages'[m].fp = messages[m].fp
LEMMA StreamsFollow ==
    ASSUME NEW one, OthersFollow(one)
    PROVE \A o \in DOMAIN Streams' \ {one} :
             o \in DOMAIN Streams /\ Streams'[o] = Streams[o]
<1> SUFFICES ASSUME NEW o \in Owners', o # one
             PROVE o \in Owners /\ StreamOf(o)' = StreamOf(o)
  BY DEF Streams
<1>1. CASE o \in {"box"} \X BoxStreams'
  <2>1. PICK b \in BoxStreams' : o = <<"box", b>>
    BY <1>1
  <2>2. b \in BoxStreams
        /\ contexts'[mailboxes'[b].ctx].fp = contexts[mailboxes[b].ctx].fp
    BY <2>1 DEF OthersFollow
  <2> QED BY <2>1, <2>2 DEF Owners, StreamOf
<1>2. CASE o \in {"msg"} \X MsgStreams'
  <2>1. PICK m \in MsgStreams' : o = <<"msg", m>>
    BY <1>2
  <2>2. m \in MsgStreams /\ messages'[m].fp = messages[m].fp
    BY <2>1 DEF OthersFollow
  <2> QED BY <2>1, <2>2 DEF Owners, StreamOf
<1> QED BY <1>1, <1>2 DEF Owners

(* A call that only reads, and one that fails.                              *)
LEMMA OthersKeep ==
    ASSUME StoreInv,
           UNCHANGED <<mailboxes, contexts, messages, fdtable, opens, pikefiles,
                       ReplyRegexp, mailhistory>>,
           "header" \notin mailfaults',
           "expression" \in mailfaults' => "overlapped" \in mailhistory
    PROVE StoreInv'
<1>1. TypeOK' /\ (opens \in Nat)'
  BY DEF StoreInv, TypeOK
<1>2. ContextsAreOwned'
  BY DEF StoreInv, ContextsAreOwned
<1>3. ExpressionIsThere'
  BY DEF StoreInv, ExpressionIsThere
<1>4. BoxStreams' = BoxStreams /\ MsgStreams' = MsgStreams
  BY DEF BoxStreams, MsgStreams, SharesStream
<1>5. Streams' = Streams
  BY <1>4 DEF Streams, Owners, StreamOf
<1>6. StreamsAreKept'
  BY <1>5 DEF StoreInv, StreamsAreKept
<1> QED
  BY <1>1, <1>2, <1>3, <1>6 DEF StoreInv, ExpressionsServeOne, StaleNumbersAreRefused

LEMMA ReadsKeep == ASSUME StoreInv, UNCHANGED mailstorevars PROVE StoreInv'
BY OthersKeep DEF mailstorevars, StoreInv, StaleNumbersAreRefused, ExpressionsServeOne

LEMMA FaultKeeps ==
    ASSUME StoreInv, NEW what, Fault(what), what # "header",
           what = "expression" => "overlapped" \in mailhistory
    PROVE StoreInv'
BY OthersKeep DEF Fault

(* The number fopen gives is that of a descriptor nobody has.               *)
LEMMA FopenIsFree ==
    ASSUME Bounds, StoreInv, NEW fp, fopen(fp)
    PROVE /\ fp.fd \in 1..MaxFds /\ fdtable[fp.fd] = 0 /\ fp.file = opens + 1
          /\ opens' = opens + 1 /\ fdtable' = [fdtable EXCEPT ![fp.fd] = opens + 1]
<1>1. FreeFds \subseteq Nat /\ FreeFds # {}
  <2>1. DOMAIN fdtable = 1..MaxFds
    BY DEF StoreInv, TypeOK
  <2> QED BY <2>1 DEF FreeFds, fopen, Bounds
<1> DEFINE f == CHOOSE f \in FreeFds : \A g \in FreeFds : f <= g
<1>2. f \in FreeFds
  BY <1>1, LowestIsThere
<1>3. f \in 1..MaxFds /\ fdtable[f] = 0
  BY <1>2 DEF FreeFds, StoreInv, TypeOK
<1>4. fp = [fd |-> f, file |-> opens + 1] /\ opens' = opens + 1
      /\ fdtable' = [fdtable EXCEPT ![fp.fd] = fp.file]
  BY Zenon DEF fopen
<1> HIDE DEF f
<1> QED BY <1>3, <1>4

(* A mailbox is opened: its context was not in use, and the expression is   *)
(* compiled.                                                                *)
LEMMA CreateKeeps ==
    ASSUME Bounds, StoreInv, NEW b \in BoxObjs, f_create(b) PROVE StoreInv'
<1> DEFINE lowest == CHOOSE x \in Unused : \A y \in Unused : x <= y
<1>1. PICK c \in 1..MaxContexts : contexts[c].state = "unused" /\ c = lowest
  <2>1. Unused \subseteq Nat /\ Unused # {}
    BY DEF Unused, f_create, Bounds
  <2>2. lowest \in Unused
    BY <2>1, LowestIsThere
  <2> HIDE DEF lowest
  <2> QED BY <2>2 DEF Unused
<1>2. ReplyRegexp \/ Compiles
  BY DEF Compiles
<1>3. /\ ~mailboxes[b].alive /\ mx_open_mailbox(c)
      /\ mailboxes' = [mailboxes EXCEPT ![b] = [alive |-> TRUE, ctx |-> c]]
      /\ ReplyRegexp' /\ UNCHANGED <<messages, pikefiles, mailhistory, mailfaults>>
  BY <1>1, <1>2, Zenon DEF f_create
<1> HIDE DEF lowest
<1>4. PICK magic \in {"mbox", "maildir"}, n \in 0..MaxHeaders, fp \in Stream :
         /\ NewContext(c, magic, n, fp)
         /\ \/ magic = "mbox" /\ fopen(fp)
            \/ magic = "maildir" /\ fp = NoStream /\ UNCHANGED <<fdtable, opens>>
  <2>1. PICK n \in 0..MaxHeaders :
           \/ \E fp \in Stream : fopen(fp) /\ NewContext(c, "mbox", n, fp)
           \/ NewContext(c, "maildir", n, NoStream) /\ UNCHANGED <<fdtable, opens>>
    BY <1>3 DEF mx_open_mailbox
  <2>2. NoStream \in Stream
    BY DEF NoStream, Stream, Bounds
  <2> QED BY <2>1, <2>2
<1>5. contexts' = [contexts EXCEPT ![c] = [state |-> "open", magic |-> magic,
                                           msgcount |-> n, fp |-> fp]]
  BY <1>4 DEF NewContext
<1>6. contexts'[c].state = "open" /\ contexts'[c].fp = fp
  BY <1>1, <1>5 DEF StoreInv, TypeOK
<1>7. \A d \in 1..MaxContexts \ {c} : contexts'[d] = contexts[d]
  BY <1>5 DEF StoreInv, TypeOK
<1>8. mailboxes'[b].alive /\ mailboxes'[b].ctx = c
  BY <1>3 DEF StoreInv, TypeOK
<1>9. \A o \in BoxObjs \ {b} : mailboxes'[o] = mailboxes[o]
  BY <1>3 DEF StoreInv, TypeOK
<1>10. \A o \in BoxObjs \ {b} : mailboxes[o].alive =>
          mailboxes[o].ctx \in 1..MaxContexts \ {c}
  BY <1>1 DEF StoreInv, ContextsAreOwned
<1>11. \A m \in MsgObjs : messages[m].alive => messages[m].ctx \in 1..MaxContexts \ {c}
  BY <1>1 DEF StoreInv, ContextsAreOwned
<1>12. TypeOK' /\ (opens \in Nat)'
  <2>1. mailboxes' \in [BoxObjs -> Mailboxes]
    <3>1. [alive |-> TRUE, ctx |-> c] \in Mailboxes
      BY <1>1 DEF Mailboxes, Bounds
    <3> QED BY <1>3, <3>1 DEF StoreInv, TypeOK
  <2>2. contexts' \in [1..MaxContexts -> Contexts]
    <3>1. [state |-> "open", magic |-> magic, msgcount |-> n, fp |-> fp] \in Contexts
      BY DEF Contexts
    <3> QED BY <1>5, <3>1 DEF StoreInv, TypeOK
  <2>3. fdtable' \in [1..MaxFds -> 0..MaxOpens] /\ opens' \in Nat
    <3>1. CASE fopen(fp)
      <4>1. opens < MaxOpens
        BY <3>1 DEF fopen
      <4>2. opens + 1 \in 0..MaxOpens /\ opens + 1 \in Nat
        BY <4>1 DEF StoreInv, Bounds
      <4> QED BY <3>1, <4>2, FopenIsFree DEF StoreInv, TypeOK
    <3>2. CASE UNCHANGED <<fdtable, opens>>
      BY <3>2 DEF StoreInv, TypeOK
    <3> QED BY <1>4, <3>1, <3>2
  <2> QED BY <1>3, <2>1, <2>2, <2>3 DEF StoreInv, TypeOK
<1>13. ContextsAreOwned'
  BY <1>1, <1>3, <1>6, <1>7, <1>8, <1>9, <1>10, <1>11 DEF StoreInv, ContextsAreOwned
<1>14. ExpressionIsThere'
  BY <1>3 DEF ExpressionIsThere
<1>15. StreamsAreKept'
  <2>0. SUFFICES ASSUME "took descriptor" \notin mailhistory
                 PROVE Kept(Streams', fdtable', opens')
    BY <1>3 DEF StreamsAreKept
  <2>1. Kept(Streams, fdtable, opens)
    BY <2>0 DEF StoreInv, StreamsAreKept
  <2>2. \A o \in BoxStreams' \ {b} :
           o \in BoxStreams /\ contexts'[mailboxes'[o].ctx].fp = contexts[mailboxes[o].ctx].fp
    BY <1>7, <1>9, <1>10 DEF BoxStreams
  <2>3. \A m \in MsgStreams' \ {} : m \in MsgStreams /\ messages'[m].fp = messages[m].fp
    BY <1>3, <1>7, <1>11 DEF MsgStreams, SharesStream
  <2> DEFINE new == <<"box", b>>
  <2>4. \A o \in DOMAIN Streams' \ {new} : o \in DOMAIN Streams /\ Streams'[o] = Streams[o]
    <3>1. OthersFollow(new)
      BY <2>2, <2>3 DEF OthersFollow
    <3> HIDE DEF new
    <3> QED BY <3>1, StreamsFollow
  <2>5. CASE fopen(fp)
    <3>1. fp.fd # 0 /\ Streams'[new].fd = fp.fd /\ Streams'[new].file = opens + 1
      <4>1. fp.fd \in 1..MaxFds /\ fp.file = opens + 1
        BY <2>5, FopenIsFree
      <4>2. b \in BoxStreams'
        BY <1>6, <1>8, <4>1 DEF BoxStreams
      <4>3. StreamOf(new)' = fp /\ new \in Owners'
        BY <1>6, <1>8, <4>2 DEF StreamOf, Owners
      <4> QED BY <4>1, <4>3 DEF Streams
    <3>2. fdtable \in [1..MaxFds -> 0..MaxOpens] /\ opens \in Nat
      BY DEF StoreInv, TypeOK
    <3>3. /\ fp.fd \in 1..MaxFds /\ fdtable[fp.fd] = 0 /\ opens' = opens + 1
          /\ fdtable' = [fdtable EXCEPT ![fp.fd] = opens + 1]
      BY <2>5, FopenIsFree
    <3> HIDE DEF new
    <3>4. /\ DOMAIN Streams' \subseteq DOMAIN Streams \cup {new}
          /\ \A o \in DOMAIN Streams' \ {new} : Streams'[o] = Streams[o]
      BY <2>4
    <3>5. Kept(Streams', [fdtable EXCEPT ![fp.fd] = opens + 1], opens + 1)
      BY <2>1, <3>1, <3>2, <3>3, <3>4, KeptOpened
    <3> QED BY <3>3, <3>5
  <2>6. CASE fp = NoStream /\ UNCHANGED <<fdtable, opens>>
    <3>1. b \notin BoxStreams'
      BY <1>6, <1>8, <2>6 DEF BoxStreams, NoStream
    <3>2. new \notin DOMAIN Streams'
      BY <3>1 DEF Streams, Owners
    <3> HIDE DEF new
    <3> QED BY <2>1, <2>4, <2>6, <3>2, KeptFewer
  <2> QED BY <1>4, <2>5, <2>6
<1>16. ExpressionsServeOne' /\ StaleNumbersAreRefused'
  BY <1>3 DEF StoreInv, ExpressionsServeOne, StaleNumbersAreRefused
<1> QED BY <1>12, <1>13, <1>14, <1>15, <1>16 DEF StoreInv

(* The end of a mailbox beside another one is remembered.                   *)
LEMMA FreesRemembers ==
    ASSUME StoreInv, NEW b \in BoxObjs, Frees(b)
    PROVE /\ mailhistory \subseteq mailhistory'
          /\ mailhistory' \subseteq {"overlapped", "took descriptor"}
          /\ "took descriptor" \notin mailhistory' => "took descriptor" \notin mailhistory
          /\ \A o \in BoxObjs \ {b} : mailboxes[o].alive => "overlapped" \in mailhistory'
BY DEF StoreInv, TypeOK, Frees

LEMMA CreateFailsKeeps ==
    ASSUME StoreInv, NEW b \in BoxObjs, CreateFails(b) PROVE StoreInv'
<1>1. /\ ~mailboxes[b].alive /\ Frees(b)
      /\ UNCHANGED <<mailboxes, contexts, messages, fdtable, opens, pikefiles, mailfaults>>
  BY DEF CreateFails
<1>2. TypeOK' /\ (opens \in Nat)'
  BY <1>1, FreesRemembers DEF StoreInv, TypeOK
<1>3. ContextsAreOwned'
  BY <1>1 DEF StoreInv, ContextsAreOwned
<1>4. ExpressionIsThere'
  BY <1>1, FreesRemembers DEF ExpressionIsThere
<1>5. BoxStreams' = BoxStreams /\ MsgStreams' = MsgStreams
  BY <1>1 DEF BoxStreams, MsgStreams, SharesStream
<1>6. Streams' = Streams
  BY <1>1, <1>5 DEF Streams, Owners, StreamOf
<1>7. StreamsAreKept'
  BY <1>1, <1>6, FreesRemembers DEF StoreInv, StreamsAreKept
<1>8. ExpressionsServeOne' /\ StaleNumbersAreRefused'
  BY <1>1, FreesRemembers DEF StoreInv, ExpressionsServeOne, StaleNumbersAreRefused
<1> QED BY <1>2, <1>3, <1>4, <1>7, <1>8 DEF StoreInv

(* A stream that ends was its owner's alone, as long as files stay open.    *)
FilesStay == "took descriptor" \notin mailhistory
LEMMA OwnerCloses ==
    ASSUME Bounds, StoreInv, NEW one \in Owners, OthersFollow(one), one \notin Owners',
           fdtable' = Closed(StreamOf(one)), opens' = opens,
           FilesStay
    PROVE Kept(Streams', fdtable', opens')
<1>1. Kept(Streams, fdtable, opens)
  BY DEF StoreInv, StreamsAreKept, FilesStay
<1>2. fdtable \in [1..MaxFds -> 0..MaxOpens] /\ opens \in Nat
  BY DEF StoreInv, TypeOK
<1>3. one \in DOMAIN Streams /\ Streams[one] = StreamOf(one)
  BY DEF Streams
<1>4. Streams[one].fd # 0
  BY <1>1, <1>3 DEF Kept, Bounds
<1>5. fdtable' = [fdtable EXCEPT ![Streams[one].fd] = 0]
  BY <1>3, <1>4 DEF Closed
<1>6. \A o \in DOMAIN Streams' \ {one} : o \in DOMAIN Streams /\ Streams'[o] = Streams[o]
  BY StreamsFollow
<1>7. one \notin DOMAIN Streams'
  BY DEF Streams
<1>8. /\ DOMAIN Streams' \subseteq DOMAIN Streams \ {one}
      /\ \A o \in DOMAIN Streams' : Streams'[o] = Streams[o]
  BY <1>6, <1>7
<1>9. Kept(Streams', [fdtable EXCEPT ![Streams[one].fd] = 0], opens)
  BY <1>1, <1>2, <1>3, <1>8, KeptClosed
<1> QED BY <1>5, <1>9

(* Nobody closes a stream that none of its own.                             *)
LEMMA NobodyCloses ==
    ASSUME StoreInv, NEW one, OthersFollow(one), one \notin Owners',
           fdtable' = fdtable, opens' = opens,
           FilesStay
    PROVE Kept(Streams', fdtable', opens')
<1>1. Kept(Streams, fdtable, opens)
  BY DEF StoreInv, StreamsAreKept, FilesStay
<1>2. \A o \in DOMAIN Streams' \ {one} : o \in DOMAIN Streams /\ Streams'[o] = Streams[o]
  BY StreamsFollow
<1>3. one \notin DOMAIN Streams'
  BY DEF Streams
<1>4. /\ DOMAIN Streams' \subseteq DOMAIN Streams
      /\ \A o \in DOMAIN Streams' : Streams'[o] = Streams[o]
  BY <1>2, <1>3
<1> QED BY <1>1, <1>4, KeptFewer

(* A closed descriptor, or none, leaves a table of descriptors.             *)
LEMMA ClosedIsTable ==
    ASSUME TypeOK, Bounds, NEW fp PROVE Closed(fp) \in [1..MaxFds -> 0..MaxOpens]
<1>1. 0 \in 0..MaxOpens
  BY DEF Bounds
<1> QED BY <1>1 DEF TypeOK, Closed

(* A mailbox ends: its stream and its context go with it.                   *)
LEMMA ExitKeeps ==
    ASSUME Bounds, StoreInv, NEW b \in BoxObjs, exit_mailstore(b) PROVE StoreInv'
<1>1. PICK c \in 1..MaxContexts : c = mailboxes[b].ctx
  BY DEF exit_mailstore, Open, StoreInv, ContextsAreOwned
<1>2. CASE Fault("descriptor")
  BY <1>2, FaultKeeps
<1>3. CASE ~Fault("descriptor")
  <2>1. /\ mailboxes[b].alive /\ Frees(b) /\ UNCHANGED <<messages, opens, pikefiles, mailfaults>>
        /\ fdtable' = Closed(contexts[c].fp)
        /\ contexts' = [contexts EXCEPT ![c].state = "freed"]
        /\ mailboxes' = [mailboxes EXCEPT ![b] = init_mailstore]
    BY <1>1, <1>3 DEF exit_mailstore, Open
  <2>2. \A d \in 1..MaxContexts \ {c} : contexts'[d] = contexts[d]
    BY <2>1 DEF StoreInv, TypeOK
  <2>3. /\ contexts'[c].state = "freed" /\ contexts'[c].fp = contexts[c].fp
        /\ contexts'[c].magic = contexts[c].magic
    BY <2>1 DEF StoreInv, TypeOK, Contexts
  <2>4. ~mailboxes'[b].alive /\ \A o \in BoxObjs \ {b} : mailboxes'[o] = mailboxes[o]
    BY <2>1 DEF StoreInv, TypeOK, init_mailstore
  <2>5. \A o \in BoxObjs \ {b} : mailboxes[o].alive =>
           mailboxes[o].ctx \in 1..MaxContexts \ {c}
    BY <1>1, <2>1 DEF StoreInv, ContextsAreOwned
  <2>6. \A m \in MsgObjs : messages[m].alive => messages[m].ctx \in 1..MaxContexts
    BY DEF StoreInv, ContextsAreOwned
  <2>7. TypeOK' /\ (opens \in Nat)'
    <3>1. mailboxes' \in [BoxObjs -> Mailboxes]
      <4>1. init_mailstore \in Mailboxes
        BY DEF init_mailstore, Mailboxes, Bounds
      <4> QED BY <2>1, <4>1 DEF StoreInv, TypeOK
    <3>2. contexts' \in [1..MaxContexts -> Contexts]
      <4>1. [contexts[c] EXCEPT !.state = "freed"] \in Contexts
        BY DEF StoreInv, TypeOK, Contexts
      <4> QED BY <2>1, <4>1 DEF StoreInv, TypeOK
    <3>3. fdtable' \in [1..MaxFds -> 0..MaxOpens]
      BY <2>1, ClosedIsTable DEF StoreInv
    <3> QED BY <2>1, <3>1, <3>2, <3>3, FreesRemembers DEF StoreInv, TypeOK
  <2>8. ContextsAreOwned'
    BY <2>1, <2>2, <2>3, <2>4, <2>5, <2>6 DEF StoreInv, ContextsAreOwned
  <2>9. ExpressionIsThere'
    BY <2>1, <2>4, FreesRemembers DEF ExpressionIsThere
  <2>10. StreamsAreKept'
    <3>0. SUFFICES ASSUME "took descriptor" \notin mailhistory'
                   PROVE Kept(Streams', fdtable', opens')
      BY DEF StreamsAreKept
    <3>1. "took descriptor" \notin mailhistory
      BY <2>1, <3>0, FreesRemembers
    <3> DEFINE one == <<"box", b>>
    <3>2. b \notin BoxStreams'
      BY <2>4 DEF BoxStreams
    <3>3. one \notin Owners'
      BY <3>2 DEF Owners
    <3>4. \A o \in BoxStreams' : o # b =>
             /\ o \in BoxStreams
             /\ contexts'[mailboxes'[o].ctx].fp = contexts[mailboxes[o].ctx].fp
      BY <2>2, <2>4, <2>5 DEF BoxStreams
    <3>5. \A m \in MsgStreams' : m \in MsgStreams /\ messages'[m].fp = messages[m].fp
      BY <2>1, <2>2, <2>3, <2>6 DEF MsgStreams, SharesStream
    <3>6. OthersFollow(one)
      BY <3>2, <3>4, <3>5 DEF OthersFollow
    <3>7. CASE contexts[c].fp.fd = 0
      <4>1. fdtable' = fdtable
        BY <2>1, <3>7 DEF Closed
      <4> HIDE DEF one
      <4> QED BY <2>1, <3>1, <3>3, <3>6, <4>1, NobodyCloses DEF FilesStay
    <3>8. CASE contexts[c].fp.fd # 0
      <4>1. b \in BoxStreams
        BY <1>1, <2>1, <3>8 DEF BoxStreams
      <4>2. one \in Owners /\ StreamOf(one) = contexts[c].fp
        BY <1>1, <4>1 DEF Owners, StreamOf
      <4> HIDE DEF one
      <4> QED BY <2>1, <3>1, <3>3, <3>6, <4>2, OwnerCloses DEF FilesStay
    <3> QED BY <3>7, <3>8
  <2>11. ExpressionsServeOne' /\ StaleNumbersAreRefused'
    BY <2>1, FreesRemembers DEF StoreInv, ExpressionsServeOne, StaleNumbersAreRefused
  <2> QED BY <2>7, <2>8, <2>9, <2>10, <2>11 DEF StoreInv
<1> QED BY <1>2, <1>3

(* A mailbox that is looked at has another number of messages, perhaps.     *)
LEMMA CheckKeeps ==
    ASSUME Bounds, StoreInv, NEW b \in BoxObjs, f_check_mailbox(b) PROVE StoreInv'
<1>1. PICK c \in 1..MaxContexts : c = mailboxes[b].ctx
  BY DEF f_check_mailbox, Open, StoreInv, ContextsAreOwned
<1>2. CASE Fault("descriptor")
  BY <1>2, FaultKeeps
<1>3. CASE ~ReplyRegexp /\ Fault("expression")
  <2>1. "overlapped" \in mailhistory
    BY <1>3 DEF f_check_mailbox, Open, StoreInv, ExpressionIsThere
  <2> QED BY <1>3, <2>1, FaultKeeps
<1>4. CASE /\ \E n \in 0..MaxHeaders : contexts' = [contexts EXCEPT ![c].msgcount = n]
           /\ UNCHANGED <<mailboxes, messages, fdtable, opens, pikefiles, ReplyRegexp,
                          mailhistory, mailfaults>>
  <2>1. PICK n \in 0..MaxHeaders : contexts' = [contexts EXCEPT ![c].msgcount = n]
    BY <1>4
  <2>2. \A d \in 1..MaxContexts :
           /\ contexts'[d].state = contexts[d].state /\ contexts'[d].fp = contexts[d].fp
           /\ contexts'[d].magic = contexts[d].magic
    BY <2>1 DEF StoreInv, TypeOK, Contexts
  <2>3. [contexts[c] EXCEPT !.msgcount = n] \in Contexts
    BY DEF StoreInv, TypeOK, Contexts
  <2>4. TypeOK' /\ (opens \in Nat)'
    BY <1>4, <2>1, <2>3 DEF StoreInv, TypeOK
  <2>5. \A o \in BoxObjs : mailboxes[o].alive => mailboxes[o].ctx \in 1..MaxContexts
    BY DEF StoreInv, ContextsAreOwned
  <2>6. \A m \in MsgObjs : messages[m].alive => messages[m].ctx \in 1..MaxContexts
    BY DEF StoreInv, ContextsAreOwned
  <2>7. ContextsAreOwned'
    BY <1>4, <2>2, <2>5, <2>6 DEF StoreInv, ContextsAreOwned
  <2>8. ExpressionIsThere'
    BY <1>4 DEF StoreInv, ExpressionIsThere
  <2>9. StreamsAreKept'
    <3>0. SUFFICES ASSUME "took descriptor" \notin mailhistory
                   PROVE Kept(Streams', fdtable', opens')
      BY <1>4 DEF StreamsAreKept
    <3> DEFINE nobody == <<"none", 0>>
    <3>1. nobody \notin Owners'
      BY DEF Owners
    <3>2. \A o \in BoxStreams' :
             /\ o \in BoxStreams
             /\ contexts'[mailboxes'[o].ctx].fp = contexts[mailboxes[o].ctx].fp
      BY <1>4, <2>2, <2>5 DEF BoxStreams
    <3>3. \A m \in MsgStreams' : m \in MsgStreams /\ messages'[m].fp = messages[m].fp
      BY <1>4, <2>2, <2>6 DEF MsgStreams, SharesStream
    <3>4. OthersFollow(nobody)
      BY <3>2, <3>3 DEF OthersFollow
    <3> HIDE DEF nobody
    <3> QED BY <1>4, <3>0, <3>1, <3>4, NobodyCloses DEF FilesStay
  <2>10. ExpressionsServeOne' /\ StaleNumbersAreRefused'
    BY <1>4 DEF StoreInv, ExpressionsServeOne, StaleNumbersAreRefused
  <2> QED BY <2>4, <2>7, <2>8, <2>9, <2>10 DEF StoreInv
<1> QED BY <1>1, <1>2, <1>3, <1>4, Zenon DEF f_check_mailbox

(* Calls that look for a header find one, or fail without reading it.       *)
LEMMA HeadersKeep ==
    ASSUME StoreInv, NEW b \in BoxObjs, f_get_header(b) \/ f_set_flag(b) PROVE StoreInv'
<1>1. CASE Raises
  BY <1>1, ReadsKeep DEF Raises
<1>2. CASE Fault("index")
  BY <1>2, FaultKeeps
<1>3. f_get_header(b) => Raises
  BY DEF f_get_header, push_headers, InRange
<1>4. f_set_flag(b) => Raises \/ Fault("index")
  BY Zenon DEF f_set_flag
<1> QED BY <1>1, <1>2, <1>3, <1>4

LEMMA MessageHeadersKeep ==
    ASSUME StoreInv, NEW m \in MsgObjs, f_msg_get_header(m) PROVE StoreInv'
<1>1. CASE Raises
  BY <1>1, ReadsKeep DEF Raises
<1>2. CASE Fault("context")
  BY <1>2, FaultKeeps
<1>3. Raises \/ Fault("context")
  BY DEF f_msg_get_header, push_headers, InRange
<1> QED BY <1>1, <1>2, <1>3

(* getFD gives the stream away, and changes nothing yet.                    *)
LEMMA GetFdKeeps ==
    ASSUME StoreInv, NEW m \in MsgObjs, f_msg_getfd(m) PROVE StoreInv'
<1>1. CASE Fault("context")
  BY <1>1, FaultKeeps
<1>2. CASE /\ pikefiles' = pikefiles \cup {messages[m].fp}
           /\ UNCHANGED <<mailboxes, contexts, messages, fdtable, opens, ReplyRegexp,
                          mailhistory, mailfaults>>
  <2>1. messages[m].fp \in Stream
    BY DEF StoreInv, TypeOK, MailMessages
  <2>2. TypeOK' /\ (opens \in Nat)'
    BY <1>2, <2>1 DEF StoreInv, TypeOK
  <2>3. BoxStreams' = BoxStreams /\ MsgStreams' = MsgStreams
    BY <1>2 DEF BoxStreams, MsgStreams, SharesStream
  <2>4. Streams' = Streams
    BY <1>2, <2>3 DEF Streams, Owners, StreamOf
  <2>5. StreamsAreKept'
    BY <1>2, <2>4 DEF StoreInv, StreamsAreKept
  <2>6. ContextsAreOwned' /\ ExpressionIsThere'
    BY <1>2 DEF StoreInv, ContextsAreOwned, ExpressionIsThere
  <2> QED
    BY <1>2, <2>2, <2>5, <2>6 DEF StoreInv, ExpressionsServeOne, StaleNumbersAreRefused
<1> QED BY <1>1, <1>2, Zenon DEF f_msg_getfd

(* A script that closes such a file takes the descriptor, from then on.     *)
LEMMA TakesKeep ==
    ASSUME Bounds, StoreInv, NEW fp \in pikefiles, PikeFileCloses(fp) PROVE StoreInv'
<1>1. /\ pikefiles' = pikefiles \ {fp} /\ fdtable' = Closed(fp)
      /\ mailhistory' = mailhistory \cup {"took descriptor"}
      /\ UNCHANGED <<mailboxes, contexts, messages, opens, ReplyRegexp, mailfaults>>
  BY DEF PikeFileCloses
<1>2. TypeOK' /\ (opens \in Nat)'
  BY <1>1, ClosedIsTable DEF StoreInv, TypeOK
<1>3. ContextsAreOwned' /\ ExpressionIsThere'
  BY <1>1 DEF StoreInv, ContextsAreOwned, ExpressionIsThere
<1>4. StreamsAreKept'
  BY <1>1 DEF StreamsAreKept
<1> QED
  BY <1>1, <1>2, <1>3, <1>4 DEF StoreInv, ExpressionsServeOne, StaleNumbersAreRefused

(* A message is opened: that of an mbox reads the mailbox's stream, that of *)
(* a maildir has a new one.                                                 *)
LEMMA MsgCreateKeeps ==
    ASSUME Bounds, StoreInv, NEW m \in MsgObjs, NEW b \in BoxObjs, f_msg_create(m, b)
    PROVE StoreInv'
<1>1. PICK c \in 1..MaxContexts : c = mailboxes[b].ctx
  BY DEF f_msg_create, Open, StoreInv, ContextsAreOwned
<1>2. CASE Fault("index") \/ Fault("descriptor")
  BY <1>2, FaultKeeps
<1>3. CASE ~(Fault("index") \/ Fault("descriptor"))
  <2>1. PICK n \in 0..MaxHeaders, fp \in Stream :
           /\ \/ contexts[c].magic = "mbox" /\ fp = contexts[c].fp
                 /\ UNCHANGED <<fdtable, opens>>
              \/ contexts[c].magic # "mbox" /\ fopen(fp)
           /\ messages' = [messages EXCEPT ![m] =
                             [alive |-> TRUE, ctx |-> c, msgno |-> n, fp |-> fp]]
           /\ UNCHANGED <<mailboxes, contexts, pikefiles, ReplyRegexp,
                          mailhistory, mailfaults>>
    <3>1. contexts[c].fp \in Stream
      BY DEF StoreInv, TypeOK, Contexts
    <3> QED BY <1>1, <1>3, <3>1, Zenon DEF f_msg_create
  <2>2. mailboxes[b].alive /\ ~messages[m].alive /\ contexts[c].state = "open"
    BY <1>1 DEF f_msg_create, Open, StoreInv, ContextsAreOwned
  <2>4. messages'[m] = [alive |-> TRUE, ctx |-> c, msgno |-> n, fp |-> fp]
    BY <2>1 DEF StoreInv, TypeOK
  <2>5. \A k \in MsgObjs \ {m} : messages'[k] = messages[k]
    BY <2>1 DEF StoreInv, TypeOK
  <2>6. TypeOK' /\ (opens \in Nat)'
    <3>1. messages' \in [MsgObjs -> MailMessages]
      <4>1. [alive |-> TRUE, ctx |-> c, msgno |-> n, fp |-> fp] \in MailMessages
        BY DEF MailMessages, Bounds
      <4> QED BY <2>1, <4>1 DEF StoreInv, TypeOK
    <3>2. fdtable' \in [1..MaxFds -> 0..MaxOpens] /\ opens' \in Nat
      <4>1. CASE fopen(fp)
        <5>1. opens < MaxOpens
          BY <4>1 DEF fopen
        <5>2. opens + 1 \in 0..MaxOpens /\ opens + 1 \in Nat
          BY <5>1 DEF StoreInv, Bounds
        <5> QED BY <4>1, <5>2, FopenIsFree DEF StoreInv, TypeOK
      <4>2. CASE UNCHANGED <<fdtable, opens>>
        BY <4>2 DEF StoreInv, TypeOK
      <4> QED BY <2>1, <4>1, <4>2
    <3> QED BY <2>1, <3>1, <3>2 DEF StoreInv, TypeOK
  <2>7. ContextsAreOwned'
    BY <2>1, <2>2, <2>4, <2>5 DEF StoreInv, ContextsAreOwned
  <2>8. ExpressionIsThere'
    BY <2>1 DEF StoreInv, ExpressionIsThere
  <2>9. StreamsAreKept'
    <3>0. SUFFICES ASSUME "took descriptor" \notin mailhistory
                   PROVE Kept(Streams', fdtable', opens')
      BY <2>1 DEF StreamsAreKept
    <3>1. Kept(Streams, fdtable, opens)
      BY <3>0 DEF StoreInv, StreamsAreKept
    <3> DEFINE one == <<"msg", m>>
    <3>2. \A o \in BoxStreams' :
             /\ o \in BoxStreams
             /\ contexts'[mailboxes'[o].ctx].fp = contexts[mailboxes[o].ctx].fp
      BY <2>1 DEF BoxStreams
    <3>3. \A k \in MsgStreams' : k # m => k \in MsgStreams /\ messages'[k].fp = messages[k].fp
      BY <2>1, <2>5 DEF MsgStreams, SharesStream
    <3>4. OthersFollow(one)
      BY <3>2, <3>3 DEF OthersFollow
    <3>5. messages'[m].alive /\ messages'[m].ctx = c /\ messages'[m].fp = fp
      BY <2>4
    <3>6. contexts'[c].magic = contexts[c].magic
      BY <2>1
    <3>7. CASE contexts[c].magic = "mbox" /\ UNCHANGED <<fdtable, opens>>
      <4>1. m \notin MsgStreams'
        BY <3>5, <3>6, <3>7 DEF MsgStreams, SharesStream
      <4>2. one \notin Owners'
        BY <4>1 DEF Owners
      <4> HIDE DEF one
      <4> QED BY <3>0, <3>4, <3>7, <4>2, NobodyCloses DEF FilesStay
    <3>8. CASE contexts[c].magic # "mbox" /\ fopen(fp)
      <4>1. m \in MsgStreams'
        BY <3>5, <3>6, <3>8 DEF MsgStreams, SharesStream
      <4>2. one \in Owners' /\ StreamOf(one)' = fp
        BY <3>5, <4>1 DEF Owners, StreamOf
      <4>3. /\ fp.fd \in 1..MaxFds /\ fdtable[fp.fd] = 0 /\ fp.file = opens + 1
            /\ opens' = opens + 1 /\ fdtable' = [fdtable EXCEPT ![fp.fd] = opens + 1]
        BY <3>8, FopenIsFree
      <4>4. Streams'[one] = fp
        BY <4>2 DEF Streams
      <4> HIDE DEF one
      <4>5. /\ DOMAIN Streams' \subseteq DOMAIN Streams \cup {one}
            /\ \A o \in DOMAIN Streams' \ {one} : Streams'[o] = Streams[o]
        BY <3>4, StreamsFollow
      <4>6. Streams'[one].fd = fp.fd /\ Streams'[one].file = opens + 1
        BY <4>3, <4>4
      <4>7. fdtable \in [1..MaxFds -> 0..MaxOpens] /\ opens \in Nat
        BY DEF StoreInv, TypeOK
      <4>8. Kept(Streams', [fdtable EXCEPT ![fp.fd] = opens + 1], opens + 1)
        BY <3>1, <4>3, <4>5, <4>6, <4>7, KeptOpened
      <4> QED BY <4>3, <4>8
    <3> QED BY <2>1, <3>7, <3>8
  <2>10. ExpressionsServeOne' /\ StaleNumbersAreRefused'
    BY <2>1 DEF StoreInv, ExpressionsServeOne, StaleNumbersAreRefused
  <2> QED BY <2>6, <2>7, <2>8, <2>9, <2>10 DEF StoreInv
<1> QED BY <1>2, <1>3

(* A message ends: a stream of its own is closed, the mailbox's is not.     *)
LEMMA MsgExitKeeps ==
    ASSUME Bounds, StoreInv, NEW m \in MsgObjs, exit_message_storage(m) PROVE StoreInv'
<1>1. CASE Fault("descriptor")
  BY <1>1, FaultKeeps
<1>2. CASE ~Fault("descriptor")
  <2>1. /\ messages[m].alive /\ mx_close_message(m)
        /\ messages' = [messages EXCEPT ![m] = init_message_storage]
        /\ UNCHANGED <<mailboxes, contexts, opens, pikefiles, ReplyRegexp,
                       mailhistory, mailfaults>>
    BY <1>2 DEF exit_message_storage, InUse
  <2>2. ~messages'[m].alive /\ \A k \in MsgObjs \ {m} : messages'[k] = messages[k]
    BY <2>1 DEF StoreInv, TypeOK, init_message_storage
  <2>3. TypeOK' /\ (opens \in Nat)'
    <3>1. init_message_storage \in MailMessages
      BY DEF init_message_storage, MailMessages, Stream, NoStream, Bounds
    <3>2. fdtable' \in [1..MaxFds -> 0..MaxOpens]
      BY <2>1, ClosedIsTable DEF mx_close_message, StoreInv, TypeOK
    <3> QED BY <2>1, <3>1, <3>2 DEF StoreInv, TypeOK
  <2>4. ContextsAreOwned'
    BY <2>1, <2>2 DEF StoreInv, ContextsAreOwned
  <2>5. ExpressionIsThere'
    BY <2>1 DEF StoreInv, ExpressionIsThere
  <2>6. StreamsAreKept'
    <3>0. SUFFICES ASSUME "took descriptor" \notin mailhistory
                   PROVE Kept(Streams', fdtable', opens')
      BY <2>1 DEF StreamsAreKept
    <3> DEFINE one == <<"msg", m>>
    <3>1. m \notin MsgStreams'
      BY <2>2 DEF MsgStreams
    <3>2. one \notin Owners'
      BY <3>1 DEF Owners
    <3>3. \A o \in BoxStreams' :
             /\ o \in BoxStreams
             /\ contexts'[mailboxes'[o].ctx].fp = contexts[mailboxes[o].ctx].fp
      BY <2>1 DEF BoxStreams
    <3>4. \A k \in MsgStreams' : k # m => k \in MsgStreams /\ messages'[k].fp = messages[k].fp
      BY <2>1, <2>2 DEF MsgStreams, SharesStream
    <3>5. OthersFollow(one)
      BY <3>3, <3>4 DEF OthersFollow
    <3>6. CASE SharesStream(m)
      <4>1. fdtable' = fdtable
        BY <2>1, <3>6 DEF mx_close_message, ClosesStream
      <4> HIDE DEF one
      <4> QED BY <2>1, <3>0, <3>2, <3>5, <4>1, NobodyCloses DEF FilesStay
    <3>7. CASE ~SharesStream(m)
      <4>1. m \in MsgStreams
        BY <2>1, <3>7 DEF MsgStreams
      <4>2. one \in Owners /\ StreamOf(one) = messages[m].fp
        BY <4>1 DEF Owners, StreamOf
      <4>3. fdtable' = Closed(StreamOf(one))
        BY <2>1, <3>7, <4>2 DEF mx_close_message, ClosesStream
      <4> HIDE DEF one
      <4> QED BY <2>1, <3>0, <3>2, <3>5, <4>2, <4>3, OwnerCloses DEF FilesStay
    <3> QED BY <3>6, <3>7
  <2>7. ExpressionsServeOne' /\ StaleNumbersAreRefused'
    BY <2>1 DEF StoreInv, ExpressionsServeOne, StaleNumbersAreRefused
  <2> QED BY <2>3, <2>4, <2>5, <2>6, <2>7 DEF StoreInv
<1> QED BY <1>1, <1>2

-----------------------------------------------------------------------------
LEMMA StoreInit == ASSUME Bounds, Init PROVE StoreInv
<1>1. NoStream \in Stream
  BY DEF NoStream, Stream, Bounds
<1>2. init_mailstore \in Mailboxes /\ init_message_storage \in MailMessages
  BY <1>1 DEF init_mailstore, init_message_storage, Mailboxes, MailMessages, Bounds
<1>3. NoContext \in Contexts
  BY <1>1 DEF NoContext, Contexts, Bounds
<1>4. TypeOK /\ opens \in Nat
  BY <1>2, <1>3 DEF Init, TypeOK, Bounds
<1>5. ContextsAreOwned /\ ExpressionIsThere
  BY DEF Init, ContextsAreOwned, ExpressionIsThere, init_mailstore, init_message_storage
<1>6. BoxStreams = {} /\ MsgStreams = {}
  BY DEF Init, BoxStreams, MsgStreams, init_mailstore, init_message_storage
<1>7. DOMAIN Streams = {}
  BY <1>6 DEF Streams, Owners
<1>8. StreamsAreKept
  BY <1>7 DEF StreamsAreKept, Kept
<1> QED
  BY <1>4, <1>5, <1>8 DEF StoreInv, Init, ExpressionsServeOne, StaleNumbersAreRefused

LEMMA StoreStep == ASSUME Bounds, StoreInv, [Next]_mailstorevars PROVE StoreInv'
<1>1. CASE UNCHANGED mailstorevars
  BY <1>1, ReadsKeep
<1>2. CASE \E b \in BoxObjs :
              \/ f_create(b) \/ CreateFails(b) \/ exit_mailstore(b) \/ f_check_mailbox(b)
              \/ f_get_header(b) \/ f_set_flag(b)
              \/ \E m \in MsgObjs : f_msg_create(m, b)
  BY <1>2, CreateKeeps, CreateFailsKeeps, ExitKeeps, CheckKeeps, HeadersKeep, MsgCreateKeeps
<1>3. CASE \E m \in MsgObjs :
              f_msg_getfd(m) \/ f_msg_get_header(m) \/ exit_message_storage(m)
  BY <1>3, GetFdKeeps, MessageHeadersKeep, MsgExitKeeps
<1>4. CASE \E fp \in pikefiles : PikeFileCloses(fp)
  BY <1>4, TakesKeep
<1> QED BY <1>1, <1>2, <1>3, <1>4, Zenon DEF Next

(* What is kept for the owners is what the objects find.                    *)
LEMMA StoreMeans ==
    ASSUME StoreInv
    PROVE ExpressionsServeOne /\ StaleNumbersAreRefused /\ StreamsKeepDescriptors
<1>1. ASSUME "took descriptor" \notin mailhistory
      PROVE \A o \in Owners : fdtable[StreamOf(o).fd] = StreamOf(o).file
  BY <1>1 DEF StoreInv, StreamsAreKept, Streams, Kept
<1>2. \A b \in BoxStreams : <<"box", b>> \in Owners
                            /\ StreamOf(<<"box", b>>) = contexts[mailboxes[b].ctx].fp
  BY DEF Owners, StreamOf
<1>3. \A m \in MsgStreams : <<"msg", m>> \in Owners
                            /\ StreamOf(<<"msg", m>>) = messages[m].fp
  BY DEF Owners, StreamOf
<1>4. ASSUME "took descriptor" \notin mailhistory
      PROVE /\ \A b \in BoxStreams : fdtable[contexts[mailboxes[b].ctx].fp.fd]
                                     = contexts[mailboxes[b].ctx].fp.file
            /\ \A m \in MsgStreams : fdtable[messages[m].fp.fd] = messages[m].fp.file
  BY <1>1, <1>2, <1>3, <1>4
<1>5. StreamsKeepDescriptors
  BY <1>4 DEF StreamsKeepDescriptors, BoxStreams, MsgStreams
<1> QED BY <1>5 DEF StoreInv

(* mailstore_main.c, mx.c: for any objects and any descriptors, mailboxes   *)
(* used one after the other have the expression compiled, no header is read *)
(* behind the last message, and an open stream keeps its descriptor.        *)
THEOREM StoreHolds ==
    ASSUME Bounds
    PROVE Spec => [](ExpressionsServeOne /\ StaleNumbersAreRefused /\ StreamsKeepDescriptors)
<1> QED BY StoreInit, StoreStep, StoreMeans, PTL DEF Spec
=============================================================================
