----------------------------- MODULE Mbox_proofs -----------------------------
(***************************************************************************)
(* Proofs about the mbox driver, for any number of processes, messages and *)
(* flags set: no message is lost that nobody wanted to delete.             *)
(***************************************************************************)
EXTENDS Mbox, FiniteSetTheorems, WellFoundedInduction, TLAPS

-----------------------------------------------------------------------------
(* Loops over a file or over headers.                                       *)

(* A set of integers from some number on has a least member.                *)
LEMMA LeastOf ==
    ASSUME NEW lo \in Int, NEW S, S # {}, \A x \in S : x \in Int /\ lo <= x
    PROVE  Min(S) \in S /\ \A y \in S : Min(S) <= y
<1> DEFINE ages == {x - lo : x \in S}
<1>1. ages \subseteq Nat /\ ages # {}
  <2>1. \A x \in S : x - lo \in Nat
    OBVIOUS
  <2> QED BY <2>1
<1>2. \E x \in ages : \A y \in ages : ~(<<y, x>> \in OpToRel(<, Nat))
  BY <1>1, WFMin, NatLessThanWellFounded
<1>3. PICK a \in ages : \A y \in ages : ~(<<y, a>> \in OpToRel(<, Nat))
  BY <1>2
<1>4. \A y \in ages : ~(y < a)
  BY <1>1, <1>3 DEF OpToRel
<1>5. PICK x \in S : a = x - lo
  OBVIOUS
<1>6. ASSUME NEW y \in S PROVE x <= y
  <2>1. ~(y - lo < x - lo)
    BY <1>4, <1>5
  <2> QED BY <2>1
<1>7. \E z \in S : \A y \in S : z <= y
  BY <1>6
<1> QED BY <1>7 DEF Min

(* What holds before a loop and is kept by each turn holds at its end.      *)
LEMMA Along ==
    ASSUME NEW lo \in Int, NEW hi \in Int, NEW G,
           lo \in G, \A n \in lo + 1 .. hi : n - 1 \in G => n \in G
    PROVE  \A n \in lo .. hi : n \in G
<1> SUFFICES ASSUME NEW n \in lo .. hi, n \notin G PROVE FALSE
  OBVIOUS
<1> DEFINE B == {k \in lo .. hi : k \notin G}
<1>1. PICK m \in B : \A y \in B : m <= y
  <2>1. B # {} /\ \A x \in B : x \in Int /\ lo <= x
    OBVIOUS
  <2> HIDE DEF B
  <2> QED BY <2>1, LeastOf
<1>2. m \in lo + 1 .. hi /\ m - 1 \in lo .. hi
  OBVIOUS
<1>3. m - 1 \notin B
  BY <1>1, <1>2
<1> QED BY <1>2, <1>3

(* A loop with a step for each of its turns can be run.                     *)
RunsLoop(f, lo, hi, a, turn) ==
    \A n \in lo .. hi : f[n] = IF n = lo THEN a ELSE turn[<<n, f[n - 1]>>]
LEMMA LoopRuns ==
    ASSUME NEW lo \in Int, NEW hi \in Int, lo <= hi, NEW T, NEW a \in T,
           NEW turn \in [(lo + 1 .. hi) \X T -> T]
    PROVE  \E f \in [lo .. hi -> T] : RunsLoop(f, lo, hi, a, turn)
<1> DEFINE Run(f, n) == \A k \in lo .. n : f[k] = IF k = lo THEN a ELSE turn[<<k, f[k - 1]>>]
           G == {n \in lo .. hi : \E f \in [lo .. n -> T] : Run(f, n)}
<1>1. lo \in G
  <2>1. PICK f : f = [k \in lo .. lo |-> a]
    OBVIOUS
  <2>2. f \in [lo .. lo -> T] /\ Run(f, lo)
    BY <2>1
  <2> QED BY <2>2
<1>2. ASSUME NEW n \in lo + 1 .. hi, n - 1 \in G PROVE n \in G
  <2>1. PICK f \in [lo .. n - 1 -> T] : Run(f, n - 1)
    BY <1>2
  <2>2. n - 1 \in lo .. n - 1 /\ f[n - 1] \in T
    OBVIOUS
  <2>3. PICK t \in T : t = turn[<<n, f[n - 1]>>]
    BY <2>2
  <2>4. PICK g : g = [k \in lo .. n |-> IF k = n THEN t ELSE f[k]]
    OBVIOUS
  <2>5. g \in [lo .. n -> T]
    BY <2>4
  <2>6. ASSUME NEW k \in lo .. n
        PROVE  g[k] = IF k = lo THEN a ELSE turn[<<k, g[k - 1]>>]
    <3>1. CASE k = n
      <4>1. g[k - 1] = f[n - 1] /\ k # lo
        BY <2>4, <3>1
      <4> QED BY <4>1, <2>3, <2>4, <3>1
    <3>2. CASE k # n
      <4>1. k \in lo .. n - 1 /\ g[k] = f[k]
        BY <2>4, <3>2
      <4>2. f[k] = IF k = lo THEN a ELSE turn[<<k, f[k - 1]>>]
        BY <2>1, <4>1
      <4>3. k # lo => g[k - 1] = f[k - 1]
        BY <2>4, <3>2
      <4> QED BY <4>1, <4>2, <4>3
    <3> QED BY <3>1, <3>2
  <2>7. Run(g, n)
    BY <2>4, <2>6
  <2>8. \E h \in [lo .. n -> T] : Run(h, n)
    BY <2>5, <2>7
  <2>9. n \in lo .. hi
    OBVIOUS
  <2> HIDE DEF Run
  <2> QED BY <2>8, <2>9
<1>3. hi \in G
  <2> HIDE DEF G
  <2> QED BY <1>1, <1>2, Along
<1> QED BY <1>3 DEF RunsLoop

-----------------------------------------------------------------------------
MboxUnit == [msg : Nat, part : {"text", "status"}]
MboxHeader == [msg : Nat, offset : Nat, length : Nat, read : BOOLEAN, deleted : BOOLEAN,
               changed : BOOLEAN]
(* Headers of the messages that start behind one place and up to another,   *)
(* in the order of the file: each is of a text, and each text has one.      *)
OfText(h, units, from, to) ==
    /\ from < h.offset /\ h.offset <= to /\ 1 <= h.length
    /\ h.offset + h.length <= Len(units) + 1
    /\ units[h.offset].part = "text" /\ units[h.offset].msg = h.msg
InOrder(hdrs) == \A j, k \in DOMAIN hdrs : j < k => hdrs[j].offset < hdrs[k].offset
TextListed(hdrs, units, p) ==
    units[p].part = "text" => \E j \in DOMAIN hdrs : hdrs[j].offset = p
HeadersList(hdrs, units, from, to) ==
    /\ hdrs \in Seq(MboxHeader) /\ InOrder(hdrs)
    /\ \A j \in DOMAIN hdrs : OfText(hdrs[j], units, from, to)
    /\ \A p \in from + 1 .. to : TextListed(hdrs, units, p)
Fresh(hdrs) == \A j \in DOMAIN hdrs : ~hdrs[j].deleted /\ ~hdrs[j].changed

(* A header read at a text is of that text.                                 *)
LEMMA HeaderRead ==
    ASSUME NEW units \in Seq(MboxUnit), NEW i \in 1 .. Len(units)
    PROVE  /\ HeaderAt(units, i) \in MboxHeader
           /\ HeaderAt(units, i).offset = i
           /\ HeaderAt(units, i).msg = units[i].msg
           /\ ~HeaderAt(units, i).deleted /\ ~HeaderAt(units, i).changed
           /\ 1 <= HeaderAt(units, i).length
           /\ i + HeaderAt(units, i).length <= Len(units) + 1
<1> DEFINE next == {k \in i + 1 .. Len(units) + 1 :
                      k \in DOMAIN units => units[k].part = "text"}
<1>1. Len(units) + 1 \in next
  OBVIOUS
<1>2. \A k \in next : k \in Int /\ i + 1 <= k /\ k <= Len(units) + 1
  OBVIOUS
<1>3. PICK m : m = Min(next)
  OBVIOUS
<1>4. m \in next
  <2> HIDE DEF next
  <2> QED BY <1>1, <1>2, <1>3, LeastOf
<1>5. m \in Int /\ i + 1 <= m /\ m <= Len(units) + 1
  BY <1>2, <1>4
<1>6. PICK b \in BOOLEAN : b = (i < Len(units) /\ units[i + 1] = StatusLine(units[i].msg))
  OBVIOUS
<1>7. HeaderAt(units, i) =
        [msg |-> units[i].msg, offset |-> i, length |-> m - i, read |-> b,
         deleted |-> FALSE, changed |-> FALSE]
  BY <1>3, <1>6 DEF HeaderAt
<1>8. units[i].msg \in Nat
  <2>1. units[i] \in MboxUnit
    OBVIOUS
  <2> QED BY <2>1 DEF MboxUnit
<1> HIDE DEF next
<1> QED BY <1>5, <1>7, <1>8 DEF MboxHeader

(* The loop lists one unit more.                                            *)
LEMMA ListsOneMore ==
    ASSUME NEW units \in Seq(MboxUnit), NEW from \in 0 .. Len(units),
           NEW n \in from + 1 .. Len(units), NEW hdrs,
           HeadersList(hdrs, units, from, n - 1), Fresh(hdrs),
           NEW more, more = hdrs \o (IF units[n].part = "text"
                                     THEN <<HeaderAt(units, n)>> ELSE <<>>)
    PROVE  HeadersList(more, units, from, n) /\ Fresh(more)
<1> DEFINE h == HeaderAt(units, n)
<1>1. n \in 1 .. Len(units)
  OBVIOUS
<1>2. /\ h \in MboxHeader /\ h.offset = n /\ h.msg = units[n].msg
      /\ ~h.deleted /\ ~h.changed
      /\ 1 <= h.length /\ n + h.length <= Len(units) + 1
  BY <1>1, HeaderRead
<1> HIDE DEF h
<1>3. /\ hdrs \in Seq(MboxHeader) /\ InOrder(hdrs)
      /\ \A j \in DOMAIN hdrs : OfText(hdrs[j], units, from, n - 1)
      /\ \A p \in from + 1 .. n - 1 : TextListed(hdrs, units, p)
  BY DEF HeadersList
<1>0. ASSUME NEW j \in DOMAIN hdrs
      PROVE  /\ hdrs[j].offset \in Nat /\ hdrs[j].length \in Nat
             /\ hdrs[j].offset < n /\ OfText(hdrs[j], units, from, n)
  <2>1. hdrs[j] \in MboxHeader
    BY <1>3
  <2>2. hdrs[j].offset \in Nat /\ hdrs[j].length \in Nat
    BY <2>1 DEF MboxHeader
  <2>3. OfText(hdrs[j], units, from, n - 1)
    BY <1>3
  <2> QED BY <2>2, <2>3 DEF OfText
<1>4. CASE units[n].part = "text"
  <2>1. more = Append(hdrs, h)
    BY <1>2, <1>3, <1>4 DEF h
  <2>2. /\ more \in Seq(MboxHeader) /\ DOMAIN more = 1 .. Len(hdrs) + 1
        /\ more[Len(hdrs) + 1] = h /\ DOMAIN hdrs = 1 .. Len(hdrs)
        /\ \A j \in DOMAIN hdrs : more[j] = hdrs[j]
    BY <1>2, <1>3, <2>1
  <2>3. \A j \in DOMAIN hdrs : hdrs[j].offset < n
    BY <1>0
  <2>4. InOrder(more)
    BY <1>2, <1>3, <2>2, <2>3 DEF InOrder
  <2>5. OfText(h, units, from, n)
    BY <1>2, <1>4 DEF OfText, MboxHeader
  <2>6. \A j \in DOMAIN hdrs : OfText(hdrs[j], units, from, n)
    BY <1>0
  <2>7. \A j \in DOMAIN more : OfText(more[j], units, from, n)
    BY <2>2, <2>5, <2>6
  <2>8. \A p \in from + 1 .. n : TextListed(more, units, p)
    <3> SUFFICES ASSUME NEW p \in from + 1 .. n, units[p].part = "text"
                 PROVE  \E j \in DOMAIN more : more[j].offset = p
      BY DEF TextListed
    <3>1. CASE p = n
      <4>1. Len(hdrs) + 1 \in DOMAIN more
        BY <1>3, <2>2
      <4> QED BY <1>2, <2>2, <3>1, <4>1
    <3>2. CASE p # n
      <4>1. p \in from + 1 .. n - 1
        BY <3>2
      <4>2. PICK j \in DOMAIN hdrs : hdrs[j].offset = p
        BY <1>3, <4>1 DEF TextListed
      <4>3. j \in DOMAIN more /\ more[j] = hdrs[j]
        BY <1>3, <2>2
      <4> QED BY <4>2, <4>3
    <3> QED BY <3>1, <3>2
  <2>9. Fresh(more)
    BY <1>2, <2>2 DEF Fresh
  <2> QED BY <2>2, <2>4, <2>7, <2>8, <2>9 DEF HeadersList
<1>5. CASE units[n].part # "text"
  <2>1. more = hdrs
    BY <1>3, <1>5
  <2>2. \A j \in DOMAIN hdrs : OfText(hdrs[j], units, from, n)
    BY <1>0
  <2>3. \A p \in from + 1 .. n : TextListed(more, units, p)
    BY <1>3, <1>5, <2>1 DEF TextListed
  <2> QED BY <1>3, <2>1, <2>2, <2>3 DEF HeadersList
<1> QED BY <1>4, <1>5

(* mbox_parse_mailbox: the headers of all texts behind a place.             *)
LEMMA Parsed ==
    ASSUME NEW units \in Seq(MboxUnit), NEW from \in 0 .. Len(units)
    PROVE  /\ HeadersList(mbox_parse_mailbox(units, from), units, from, Len(units))
           /\ Fresh(mbox_parse_mailbox(units, from))
<1> DEFINE More(n) == IF units[n].part = "text" THEN <<HeaderAt(units, n)>> ELSE <<>>
           Loop(f) == f = [loc \in from .. Len(units) |->
                             IF loc = from THEN <<>>
                             ELSE f[loc - 1] \o
                                    (IF units[loc].part = "text"
                                     THEN <<HeaderAt(units, loc)>> ELSE <<>>)]
           turn == [x \in (from + 1 .. Len(units)) \X Seq(MboxHeader) |-> x[2] \o More(x[1])]
<1>1. \E f : Loop(f)
  <2>1. \A n \in from + 1 .. Len(units) : More(n) \in Seq(MboxHeader)
    <3> SUFFICES ASSUME NEW n \in from + 1 .. Len(units) PROVE More(n) \in Seq(MboxHeader)
      OBVIOUS
    <3>1. HeaderAt(units, n) \in MboxHeader
      BY HeaderRead
    <3> QED BY <3>1
  <2>2. turn \in [(from + 1 .. Len(units)) \X Seq(MboxHeader) -> Seq(MboxHeader)]
    <3> HIDE DEF More
    <3> QED BY <2>1
  <2>3. PICK f \in [from .. Len(units) -> Seq(MboxHeader)] :
          RunsLoop(f, from, Len(units), <<>>, turn)
    <3>1. /\ <<>> \in Seq(MboxHeader) /\ from \in Int /\ Len(units) \in Int
          /\ from <= Len(units)
      OBVIOUS
    <3> HIDE DEF turn
    <3> QED BY <2>2, <3>1, LoopRuns
  <2>5. ASSUME NEW n \in from + 1 .. Len(units)
        PROVE  turn[<<n, f[n - 1]>>] = f[n - 1] \o More(n)
    <3>1. f[n - 1] \in Seq(MboxHeader)
      OBVIOUS
    <3> HIDE DEF More
    <3> QED BY <3>1
  <2>6. ASSUME NEW n \in from .. Len(units)
        PROVE  f[n] = IF n = from THEN <<>> ELSE f[n - 1] \o More(n)
    <3>1. n # from => n \in from + 1 .. Len(units)
      OBVIOUS
    <3>2. f[n] = IF n = from THEN <<>> ELSE turn[<<n, f[n - 1]>>]
      BY <2>3 DEF RunsLoop
    <3> HIDE DEF turn, More
    <3> QED BY <2>5, <3>1, <3>2
  <2>7. f = [n \in from .. Len(units) |-> IF n = from THEN <<>> ELSE f[n - 1] \o More(n)]
    <3> HIDE DEF turn, More
    <3> QED BY <2>6
  <2> QED BY <2>7
<1>2. PICK f : f = CHOOSE g : Loop(g)
  OBVIOUS
<1>3. Loop(f)
  BY <1>1, <1>2
<1>4. mbox_parse_mailbox(units, from) = f[Len(units)]
  BY <1>2 DEF mbox_parse_mailbox
<1> DEFINE G == {n \in from .. Len(units) : HeadersList(f[n], units, from, n) /\ Fresh(f[n])}
<1>5. from \in G
  <2>1. from \in from .. Len(units)
    OBVIOUS
  <2>2. f[from] = <<>>
    <3> HIDE DEF More
    <3> QED BY <1>3, <2>1
  <2>3. HeadersList(<<>>, units, from, from) /\ Fresh(<<>>)
    BY DEF HeadersList, Fresh, InOrder
  <2> QED BY <2>1, <2>2, <2>3
<1>6. ASSUME NEW n \in from + 1 .. Len(units), n - 1 \in G PROVE n \in G
  <2>1. f[n] = f[n - 1] \o More(n)
    <3>1. n \in from .. Len(units) /\ n # from
      OBVIOUS
    <3>2. f = [k \in from .. Len(units) |-> IF k = from THEN <<>> ELSE f[k - 1] \o More(k)]
      BY <1>3
    <3> HIDE DEF More, Loop
    <3> QED BY <3>1, <3>2
  <2>2. HeadersList(f[n], units, from, n) /\ Fresh(f[n])
    BY <1>6, <2>1, ListsOneMore
  <2> QED BY <2>2
<1>7. Len(units) \in G
  <2>1. from \in Int /\ Len(units) \in Int /\ Len(units) \in from .. Len(units)
    OBVIOUS
  <2>2. \A n \in from + 1 .. Len(units) : n - 1 \in G => n \in G
    BY <1>6
  <2> HIDE DEF G
  <2> QED BY <1>5, <2>1, <2>2, Along
<1> QED BY <1>4, <1>7

(* Texts of a file that is put together, and of a part of a file.           *)
LEMMA TextsMember ==
    ASSUME NEW units, NEW m
    PROVE  m \in Texts(units) <=>
             \E k \in DOMAIN units : units[k].part = "text" /\ units[k].msg = m
BY DEF Texts

LEMMA TextsJoin ==
    ASSUME NEW s \in Seq(MboxUnit), NEW t \in Seq(MboxUnit)
    PROVE  Texts(s) \subseteq Texts(s \o t)
           /\ Texts(t) \subseteq Texts(s \o t)
<1> DEFINE u == s \o t
<1>1. /\ DOMAIN s = 1 .. Len(s) /\ DOMAIN t = 1 .. Len(t)
      /\ \A k \in 1 .. Len(s) : k \in DOMAIN u /\ u[k] = s[k]
      /\ \A k \in 1 .. Len(t) : Len(s) + k \in DOMAIN u /\ u[Len(s) + k] = t[k]
  OBVIOUS
<1> HIDE DEF u
<1>2. ASSUME NEW m \in Texts(s) PROVE m \in Texts(u)
  <2>1. PICK k \in DOMAIN s : s[k].part = "text" /\ s[k].msg = m
    BY <1>2, TextsMember
  <2> QED BY <1>1, <2>1, TextsMember
<1>3. ASSUME NEW m \in Texts(t) PROVE m \in Texts(u)
  <2>1. PICK k \in DOMAIN t : t[k].part = "text" /\ t[k].msg = m
    BY <1>3, TextsMember
  <2> QED BY <1>1, <2>1, TextsMember
<1> QED BY <1>2, <1>3 DEF u

(* A copy of a message has its text.                                        *)
LEMMA CopyHasText ==
    ASSUME mbox \in Seq(MboxUnit), NEW h \in MboxHeader, 1 <= h.offset, 1 <= h.length,
           h.offset + h.length <= Len(mbox) + 1
    PROVE  /\ mutt_copy_message(h) \in Seq(MboxUnit)
           /\ h.msg \in Texts(mutt_copy_message(h))
<1> DEFINE end == h.offset + h.length - 1
           lines == {k \in h.offset + 1 .. end :
                       \A j \in h.offset + 1 .. k : mbox[j] = StatusLine(h.msg)}
           body == SubSeq(mbox, h.offset + Cardinality(lines) + 1, end)
           status == IF h.read THEN <<StatusLine(h.msg)>> ELSE <<>>
           start == <<Text(h.msg)>>
<1>1. h.offset \in Nat /\ h.length \in Nat /\ h.msg \in Nat
  BY DEF MboxHeader
<1>2. Cardinality(lines) \in Nat
  <2>1. IsFiniteSet(h.offset + 1 .. end)
    <3>1. h.offset + 1 \in Int /\ end \in Int
      BY <1>1
    <3> HIDE DEF end
    <3> QED BY <3>1, FS_Interval
  <2>2. lines \subseteq h.offset + 1 .. end
    OBVIOUS
  <2>3. IsFiniteSet(lines)
    BY <2>1, <2>2, FS_Subset
  <2> QED BY <2>3, FS_CardinalityType
<1>0. Cardinality(lines) = Cardinality(lines)
  BY DEF Cardinality, Cardinality
<1>3. body \in Seq(MboxUnit)
  <2>1. PICK n \in Nat : n = Cardinality(lines)
    BY <1>0, <1>2
  <2>2. \A i \in h.offset + n + 1 .. end : i \in 1 .. Len(mbox)
    BY <1>1
  <2> HIDE DEF lines
  <2> QED BY <1>1, <2>1, <2>2
<1>4. StatusLine(h.msg) \in MboxUnit /\ Text(h.msg) \in MboxUnit
  BY <1>1 DEF MboxUnit, StatusLine, Text
<1>5. status \in Seq(MboxUnit) /\ start \in Seq(MboxUnit)
  BY <1>4
<1>6. mutt_copy_message(h) = start \o status \o body
  BY DEF mutt_copy_message
<1>7. h.msg \in Texts(start)
  <2>1. 1 \in DOMAIN start /\ start[1].part = "text" /\ start[1].msg = h.msg
    BY DEF Text
  <2> HIDE DEF start
  <2> QED BY <2>1, TextsMember
<1> HIDE DEF start, status, body
<1>8. start \o status \in Seq(MboxUnit) /\ start \o status \o body \in Seq(MboxUnit)
  BY <1>3, <1>5
<1>9. h.msg \in Texts(start \o status)
  BY <1>5, <1>7, TextsJoin
<1>10. h.msg \in Texts((start \o status) \o body)
  BY <1>3, <1>8, <1>9, TextsJoin
<1> QED BY <1>6, <1>8, <1>10

(* The temporary file has a text for every message that is not deleted.     *)
HasCopies(hdrs, lo, hi, units) ==
    /\ units \in Seq(MboxUnit)
    /\ \A k \in lo .. hi : ~hdrs[k].deleted => hdrs[k].msg \in Texts(units)
LEMMA TempHasTexts ==
    ASSUME mbox \in Seq(MboxUnit), NEW r, r.hdrs \in Seq(MboxHeader),
           \A k \in DOMAIN r.hdrs : OfText(r.hdrs[k], mbox, 0, Len(mbox)),
           NEW first \in DOMAIN r.hdrs
    PROVE  HasCopies(r.hdrs, first, Len(r.hdrs), TempFile(r, first))
<1>9. PICK lo : lo = first - 1
  OBVIOUS
<1> DEFINE Copy(k) == IF r.hdrs[k].deleted THEN <<>> ELSE mutt_copy_message(r.hdrs[k])
           last == Len(r.hdrs)
           Loop(f) == f = [i \in first - 1 .. Len(r.hdrs) |->
                             IF i < first THEN <<>>
                             ELSE f[i - 1] \o
                                    (IF r.hdrs[i].deleted THEN <<>>
                                     ELSE mutt_copy_message(r.hdrs[i]))]
           turn == [x \in (lo + 1 .. last) \X Seq(MboxUnit) |-> x[2] \o Copy(x[1])]
<1>0. first \in 1 .. last /\ last \in Nat /\ last \in Int /\ lo \in Int /\ lo <= last /\ lo = first - 1
      /\ DOMAIN r.hdrs = 1 .. last
  BY <1>9
<1>1. ASSUME NEW k \in first .. last
      PROVE  /\ Copy(k) \in Seq(MboxUnit)
             /\ ~r.hdrs[k].deleted => r.hdrs[k].msg \in Texts(Copy(k))
  <2>1. k \in DOMAIN r.hdrs /\ r.hdrs[k] \in MboxHeader
    BY <1>0
  <2>2. OfText(r.hdrs[k], mbox, 0, Len(mbox)) /\ r.hdrs[k].offset \in Nat
    BY <2>1 DEF MboxHeader
  <2>3. /\ mutt_copy_message(r.hdrs[k]) \in Seq(MboxUnit)
        /\ r.hdrs[k].msg \in Texts(mutt_copy_message(r.hdrs[k]))
    BY <2>1, <2>2, CopyHasText DEF OfText
  <2> QED BY <2>3
<1> HIDE DEF Copy
<1>2. \E f : Loop(f)
  <2>1. turn \in [(lo + 1 .. last) \X Seq(MboxUnit) -> Seq(MboxUnit)]
    BY <1>0, <1>1
  <2>2. PICK f \in [lo .. last -> Seq(MboxUnit)] : RunsLoop(f, lo, last, <<>>, turn)
    <3>1. <<>> \in Seq(MboxUnit)
      OBVIOUS
    <3> HIDE DEF turn, last
    <3> QED BY <1>0, <2>1, <3>1, LoopRuns
  <2>3. ASSUME NEW n \in lo .. last
        PROVE  f[n] = IF n < first THEN <<>> ELSE f[n - 1] \o Copy(n)
    <3>1. f[n] = IF n = lo THEN <<>> ELSE turn[<<n, f[n - 1]>>]
      BY <2>2 DEF RunsLoop
    <3>2. n # lo => turn[<<n, f[n - 1]>>] = f[n - 1] \o Copy(n)
      <4>1. SUFFICES ASSUME n # lo PROVE turn[<<n, f[n - 1]>>] = f[n - 1] \o Copy(n)
        OBVIOUS
      <4>2. n \in lo + 1 .. last /\ n - 1 \in lo .. last
        BY <1>0, <4>1
      <4>3. f[n - 1] \in Seq(MboxUnit)
        BY <4>2
      <4> QED BY <4>2, <4>3
    <3>3. n < first <=> n = lo
      BY <1>0
    <3> HIDE DEF turn
    <3> QED BY <3>1, <3>2, <3>3
  <2>4. f = [n \in lo .. last |-> IF n < first THEN <<>> ELSE f[n - 1] \o Copy(n)]
    <3> HIDE DEF turn
    <3> QED BY <2>3
  <2> QED BY <1>0, <2>4 DEF Copy
<1>3. PICK f : f = CHOOSE g : Loop(g)
  OBVIOUS
<1>4. Loop(f)
  BY <1>2, <1>3
<1>5. TempFile(r, first) = f[last]
  BY <1>3 DEF TempFile
<1> DEFINE G == {n \in lo .. last : HasCopies(r.hdrs, first, n, f[n])}
<1>6. lo \in G
  <2>1. lo \in lo .. last /\ f[lo] = <<>>
    BY <1>0, <1>4
  <2>2. HasCopies(r.hdrs, first, lo, <<>>)
    BY <1>0 DEF HasCopies
  <2> QED BY <2>1, <2>2
<1>7. ASSUME NEW n \in lo + 1 .. last, n - 1 \in G PROVE n \in G
  <2>1. n \in lo .. last /\ ~(n < first) /\ n \in first .. last
    BY <1>0
  <2>2. f = [i \in lo .. last |-> IF i < first THEN <<>> ELSE f[i - 1] \o Copy(i)]
    BY <1>0, <1>4 DEF Copy
  <2>3. f[n] = f[n - 1] \o Copy(n)
    <3> HIDE DEF Loop
    <3> QED BY <2>1, <2>2
  <2>4. PICK s, t : s = f[n - 1] /\ t = Copy(n)
    OBVIOUS
  <2>5. /\ s \in Seq(MboxUnit) /\ t \in Seq(MboxUnit) /\ f[n] = s \o t
        /\ \A k \in first .. n - 1 : ~r.hdrs[k].deleted => r.hdrs[k].msg \in Texts(s)
        /\ ~r.hdrs[n].deleted => r.hdrs[n].msg \in Texts(t)
    BY <1>1, <1>7, <2>1, <2>3, <2>4 DEF HasCopies
  <2>6. s \o t \in Seq(MboxUnit) /\ Texts(s) \subseteq Texts(s \o t)
        /\ Texts(t) \subseteq Texts(s \o t)
    BY <2>5, TextsJoin
  <2>7. ASSUME NEW k \in first .. n, ~r.hdrs[k].deleted
        PROVE  r.hdrs[k].msg \in Texts(s \o t)
    <3>1. k = n \/ k \in first .. n - 1
      BY <1>0
    <3> QED BY <2>5, <2>6, <2>7, <3>1
  <2>8. HasCopies(r.hdrs, first, n, f[n])
    BY <2>5, <2>6, <2>7 DEF HasCopies
  <2> QED BY <2>1, <2>8
<1>8. last \in G
  <2>1. last \in lo .. last
    BY <1>0
  <2>2. \A n \in lo + 1 .. last : n - 1 \in G => n \in G
    BY <1>7
  <2> HIDE DEF G, last
  <2> QED BY <1>0, <1>6, <2>1, <2>2, Along
<1> QED BY <1>5, <1>8

-----------------------------------------------------------------------------
(* Matching the headers of a file that is read anew.                        *)
LEMMA FoundHeader ==
    ASSUME NEW h, NEW i \in Int, NEW old \in Seq(MboxHeader), NEW left, left \subseteq DOMAIN old
    PROVE  \/ /\ FindHeader(h, i, old, left) = 0
              /\ \A j \in left : old[j].msg # h.msg
           \/ /\ FindHeader(h, i, old, left) \in left
              /\ old[FindHeader(h, i, old, left)].msg = h.msg
<1> DEFINE same == {j \in left : old[j].msg = h.msg}
           behind == {j \in same : j >= i}
<1>1. \A j \in same : j \in Int /\ 1 <= j
  OBVIOUS
<1>2. FindHeader(h, i, old, left) =
        IF behind # {} THEN Min(behind) ELSE IF same # {} THEN Min(same) ELSE 0
  BY DEF FindHeader, Candidates
<1>3. behind # {} => Min(behind) \in behind
  <2>1. \A j \in behind : j \in Int /\ 1 <= j
    BY <1>1
  <2> HIDE DEF behind
  <2> QED BY <2>1, LeastOf
<1>4. same # {} => Min(same) \in same
  <2> HIDE DEF same, behind
  <2> QED BY <1>1, LeastOf
<1> QED BY <1>2, <1>3, <1>4

(* A header is matched with an old one of the same message; it is left      *)
(* alone only when all of those are taken.                                  *)
MatchedAt(match, new, old, i) ==
    \/ /\ match[i] = 0
       /\ \A j \in DOMAIN old : old[j].msg = new[i].msg => \E k \in 1 .. i - 1 : match[k] = j
    \/ match[i] \in DOMAIN old /\ old[match[i]].msg = new[i].msg
Matched(match, new, old, n) ==
    match \in Seq(Nat) /\ Len(match) = n /\ \A i \in 1 .. n : MatchedAt(match, new, old, i)

LEMMA MatchedOneMore ==
    ASSUME NEW new, NEW old \in Seq(MboxHeader), NEW n \in Nat \ {0}, NEW used,
           Matched(used, new, old, n - 1), NEW more,
           more = Append(used, FindHeader(new[n], n, old, DOMAIN old \ Range(used)))
    PROVE  Matched(more, new, old, n)
<1> DEFINE left == DOMAIN old \ Range(used)
           j == FindHeader(new[n], n, old, left)
<1>1. used \in Seq(Nat) /\ Len(used) = n - 1 /\ DOMAIN used = 1 .. n - 1
      /\ \A i \in 1 .. n - 1 : MatchedAt(used, new, old, i)
  BY DEF Matched
<1>2. \/ j = 0 /\ \A k \in left : old[k].msg # new[n].msg
      \/ j \in left /\ old[j].msg = new[n].msg
  <2>1. left \subseteq DOMAIN old /\ n \in Int
    OBVIOUS
  <2> HIDE DEF left
  <2> QED BY <2>1, FoundHeader
<1> HIDE DEF j
<1>3. j \in Nat
  BY <1>2
<1>4. /\ more \in Seq(Nat) /\ Len(more) = n /\ more[n] = j
      /\ \A i \in 1 .. n - 1 : more[i] = used[i]
  BY <1>1, <1>3 DEF j
<1>5. ASSUME NEW i \in 1 .. n - 1 PROVE MatchedAt(more, new, old, i)
  <2>1. MatchedAt(used, new, old, i) /\ more[i] = used[i]
    BY <1>1, <1>4
  <2>2. \A k \in 1 .. i - 1 : more[k] = used[k]
    BY <1>4
  <2> QED BY <2>1, <2>2 DEF MatchedAt
<1>6. MatchedAt(more, new, old, n)
  <2>1. CASE j \in left /\ old[j].msg = new[n].msg
    BY <1>4, <2>1 DEF MatchedAt
  <2>2. CASE j = 0 /\ \A k \in left : old[k].msg # new[n].msg
    <3>1. ASSUME NEW k \in DOMAIN old, old[k].msg = new[n].msg
          PROVE  \E i \in 1 .. n - 1 : more[i] = k
      <4>1. k \in Range(used)
        BY <2>2, <3>1
      <4>2. PICK i \in DOMAIN used : used[i] = k
        BY <4>1 DEF Range
      <4> QED BY <1>1, <1>4, <4>2
    <3> QED BY <1>4, <2>2, <3>1 DEF MatchedAt
  <2> QED BY <1>2, <2>1, <2>2
<1>7. \A i \in 1 .. n : MatchedAt(more, new, old, i)
  <2>1. \A i \in 1 .. n : i = n \/ i \in 1 .. n - 1
    OBVIOUS
  <2> QED BY <1>5, <1>6, <2>1
<1> QED BY <1>4, <1>7 DEF Matched

LEMMA AllMatched ==
    ASSUME NEW new \in Seq(MboxHeader), NEW old \in Seq(MboxHeader)
    PROVE  Matched(mbox_strict_match(new, old), new, old, Len(new))
<1> DEFINE Find(i, used) == FindHeader(new[i], i, old, DOMAIN old \ Range(used))
           Loop(f) == f = [i \in 0 .. Len(new) |->
                             IF i = 0 THEN <<>>
                             ELSE Append(f[i - 1],
                                    FindHeader(new[i], i, old,
                                                     DOMAIN old \ Range(f[i - 1])))]
           turn == [x \in (0 + 1 .. Len(new)) \X Seq(Nat) |-> Append(x[2], Find(x[1], x[2]))]
<1>1. ASSUME NEW i \in Int, NEW used \in Seq(Nat) PROVE Find(i, used) \in Nat
  <2>1. DOMAIN old \ Range(used) \subseteq DOMAIN old
    OBVIOUS
  <2>2. PICK left : left = DOMAIN old \ Range(used)
    OBVIOUS
  <2>3. FindHeader(new[i], i, old, left) = 0 \/ FindHeader(new[i], i, old, left) \in left
    BY <2>1, <2>2, FoundHeader
  <2>4. left \subseteq Nat
    BY <2>2
  <2> QED BY <2>2, <2>3, <2>4
<1> HIDE DEF Find
<1>2. \E f : Loop(f)
  <2>1. turn \in [(0 + 1 .. Len(new)) \X Seq(Nat) -> Seq(Nat)]
    BY <1>1
  <2>2. PICK f \in [0 .. Len(new) -> Seq(Nat)] : RunsLoop(f, 0, Len(new), <<>>, turn)
    <3>1. <<>> \in Seq(Nat) /\ 0 \in Int /\ Len(new) \in Int /\ 0 <= Len(new)
      OBVIOUS
    <3> HIDE DEF turn
    <3> QED BY <2>1, <3>1, LoopRuns
  <2>3. ASSUME NEW n \in 0 .. Len(new)
        PROVE  f[n] = IF n = 0 THEN <<>> ELSE Append(f[n - 1], Find(n, f[n - 1]))
    <3>1. f[n] = IF n = 0 THEN <<>> ELSE turn[<<n, f[n - 1]>>]
      BY <2>2 DEF RunsLoop
    <3>2. ASSUME n # 0 PROVE turn[<<n, f[n - 1]>>] = Append(f[n - 1], Find(n, f[n - 1]))
      <4>1. n \in 0 + 1 .. Len(new) /\ f[n - 1] \in Seq(Nat)
        BY <3>2
      <4> QED BY <4>1
    <3> HIDE DEF turn
    <3> QED BY <3>1, <3>2
  <2>4. f = [n \in 0 .. Len(new) |-> IF n = 0 THEN <<>> ELSE Append(f[n - 1], Find(n, f[n - 1]))]
    <3> HIDE DEF turn
    <3> QED BY <2>3
  <2> QED BY <2>4 DEF Find
<1>3. PICK f : f = CHOOSE g : Loop(g)
  OBVIOUS
<1>4. Loop(f)
  BY <1>2, <1>3
<1>5. mbox_strict_match(new, old) = f[Len(new)]
  BY <1>3 DEF mbox_strict_match
<1> DEFINE G == {n \in 0 .. Len(new) : Matched(f[n], new, old, n)}
<1>6. 0 \in G
  <2>1. f[0] = <<>>
    BY <1>4
  <2>2. Matched(<<>>, new, old, 0)
    BY DEF Matched
  <2> QED BY <2>1, <2>2
<1>7. ASSUME NEW n \in 0 + 1 .. Len(new), n - 1 \in G PROVE n \in G
  <2>1. n \in 0 .. Len(new) /\ n # 0 /\ n \in Nat \ {0}
    OBVIOUS
  <2>2. f = [i \in 0 .. Len(new) |-> IF i = 0 THEN <<>> ELSE Append(f[i - 1], Find(i, f[i - 1]))]
    BY <1>4 DEF Find
  <2>3. f[n] = Append(f[n - 1], Find(n, f[n - 1]))
    <3> HIDE DEF Loop
    <3> QED BY <2>1, <2>2
  <2>4. Matched(f[n], new, old, n)
    BY <1>7, <2>1, <2>3, MatchedOneMore DEF Find
  <2> QED BY <2>1, <2>4
<1>8. Len(new) \in G
  <2>1. 0 \in Int /\ Len(new) \in Int /\ Len(new) \in 0 .. Len(new)
    OBVIOUS
  <2>2. \A n \in 0 + 1 .. Len(new) : n - 1 \in G => n \in G
    BY <1>7
  <2> HIDE DEF G
  <2> QED BY <1>6, <2>1, <2>2, Along
<1> QED BY <1>5, <1>8

-----------------------------------------------------------------------------
(* An mbox and the mailboxes that read and rewrite it.                      *)

MboxPlaces == {"none", "open", "copies", "empties", "broken", "over"}
MboxReader == [pc : MboxPlaces, hdrs : Seq(MboxHeader), read : Seq(MboxUnit),
               readonly : BOOLEAN, temp : Seq(MboxUnit), first : Nat, written : Nat,
               edits : Nat]
SpoolTypes ==
    /\ NullIsNone
    /\ mbox = NoFile \/ mbox \in Seq(MboxUnit)
    /\ arrived \in Nat /\ flocked \in Clients \cup {Null}
    /\ reader \in [Clients -> MboxReader]
(* A mailbox has a header for each text of the file it read, and marks only *)
(* what somebody wanted to delete.                                          *)
Knows(r, wanted) ==
    /\ HeadersList(r.hdrs, r.read, 0, Len(r.read))
    /\ \A j \in DOMAIN r.hdrs : r.hdrs[j].deleted => r.hdrs[j].msg \in wanted
(* While a mailbox is written back, the file has what was written so far,   *)
(* and every message is in front of it or in the temporary file.            *)
Writing(r, units) ==
    /\ units \in Seq(MboxUnit) /\ 1 <= r.first /\ r.first + r.written <= Len(units) + 1
    /\ r.written <= Len(r.temp)
    /\ \A j \in 1 .. r.written : units[r.first + j - 1] = r.temp[j]
TextBefore(units, p, m) ==
    \E k \in DOMAIN units : k < p /\ units[k].part = "text" /\ units[k].msg = m
MailKept(r, units, n, gone) ==
    \A m \in 1 .. n :
       m \in gone \/ m \in Texts(r.temp) \/ TextBefore(units, r.first, m)

ReadersKnow == \A c \in Clients : reader[c].pc = "open" => Knows(reader[c], asked)
WritersKeep == \A c \in Clients : reader[c].pc = "copies" =>
    flocked = c /\ Writing(reader[c], mbox) /\ MailKept(reader[c], mbox, arrived, asked \cup savedmail)
NobodyCopies == \A c \in Clients : reader[c].pc # "copies"
MailIsThere == \A m \in 1 .. arrived : m \in asked \cup savedmail \cup InMailbox
SpoolHolds ==
    SpoolTypes /\ ReadersKnow /\ WritersKeep /\ (NobodyCopies => MailIsThere)
SpoolInv == fooled = {} => SpoolHolds

LEMMA NoFileIsNoSequence == ASSUME NullIsNone PROVE NoFile \notin Seq(MboxUnit)
<1>1. NoFile = <<Null>> /\ Null \notin MboxUnit
  BY DEF NullIsNone, NoFile, MboxUnit
<1> QED BY <1>1

LEMMA SpoolFile == SpoolTypes => (mbox # NoFile <=> mbox \in Seq(MboxUnit))
<1>1. NullIsNone => NoFile \notin Seq(MboxUnit)
  BY NoFileIsNoSequence
<1> QED BY <1>1 DEF SpoolTypes

LEMMA NullIsNobody == SpoolHolds => \A c \in Clients : c # Null
<1> QED BY DEF SpoolHolds, SpoolTypes, NullIsNone

LEMMA NotOpenTyped ==
    ASSUME NEW p \in MboxPlaces
    PROVE  /\ [NotOpen EXCEPT !.pc = p] \in MboxReader
           /\ [NotOpen EXCEPT !.pc = p].pc = p
<1>1. <<>> \in Seq(MboxHeader) /\ <<>> \in Seq(MboxUnit) /\ "none" \in MboxPlaces
  BY DEF MboxPlaces
<1>2. NotOpen \in MboxReader
  BY <1>1 DEF MboxReader, NotOpen
<1>3. \A x \in MboxReader : [x EXCEPT !.pc = p] \in MboxReader /\ [x EXCEPT !.pc = p].pc = p
  BY DEF MboxReader
<1> QED BY <1>2, <1>3

(* A mailbox that neither copies nor comes to copy leaves all mail alone.   *)
LEMMA ReaderMoves ==
    ASSUME SpoolHolds, NEW c \in Clients, NEW r \in MboxReader,
           reader' = [reader EXCEPT ![c] = r], reader[c].pc # "copies", r.pc # "copies",
           UNCHANGED <<mbox, arrived, flocked, savedmail>>, asked \subseteq asked',
           r.pc = "open" => Knows(r, asked')
    PROVE  SpoolHolds'
<1>0. /\ reader \in [Clients -> MboxReader] /\ reader' \in [Clients -> MboxReader]
      /\ reader'[c] = r /\ \A d \in Clients : d # c => reader'[d] = reader[d]
  BY DEF SpoolHolds, SpoolTypes
<1>1. SpoolTypes'
  BY <1>0 DEF SpoolHolds, SpoolTypes
<1>2. ReadersKnow'
  <2> SUFFICES ASSUME NEW d \in Clients, reader'[d].pc = "open" PROVE Knows(reader'[d], asked')
    BY DEF ReadersKnow
  <2>1. CASE d = c
    BY <1>0, <2>1
  <2>2. CASE d # c
    <3>1. Knows(reader[d], asked) /\ reader'[d] = reader[d]
      BY <1>0, <2>2 DEF SpoolHolds, ReadersKnow
    <3> QED BY <3>1 DEF Knows
  <2> QED BY <2>1, <2>2
<1>3. WritersKeep'
  <2> SUFFICES ASSUME NEW d \in Clients, reader'[d].pc = "copies"
               PROVE  /\ flocked' = d /\ Writing(reader'[d], mbox')
                      /\ MailKept(reader'[d], mbox', arrived', asked' \cup savedmail')
    BY DEF WritersKeep
  <2>1. d # c /\ reader'[d] = reader[d]
    BY <1>0
  <2>2. /\ flocked = d /\ Writing(reader[d], mbox)
        /\ MailKept(reader[d], mbox, arrived, asked \cup savedmail)
    BY <2>1 DEF SpoolHolds, WritersKeep
  <2> QED BY <2>1, <2>2 DEF MailKept
<1>4. NobodyCopies' => MailIsThere'
  <2>1. NobodyCopies' => NobodyCopies
    BY <1>0 DEF NobodyCopies
  <2>2. MailIsThere => MailIsThere'
    BY DEF MailIsThere, InMailbox, Exists
  <2> QED BY <2>1, <2>2 DEF SpoolHolds
<1> QED BY <1>1, <1>2, <1>3, <1>4 DEF SpoolHolds

-----------------------------------------------------------------------------
(* Lists of headers.                                                        *)
LEMMA ListMember ==
    ASSUME NEW hdrs, NEW units, NEW from \in Nat, NEW to, HeadersList(hdrs, units, from, to),
           NEW j \in DOMAIN hdrs
    PROVE  /\ hdrs[j] \in MboxHeader /\ hdrs[j].msg \in Nat /\ hdrs[j].offset \in Nat
           /\ hdrs[j].length \in Nat /\ OfText(hdrs[j], units, from, to)
           /\ 1 <= hdrs[j].offset
<1>1. hdrs[j] \in MboxHeader
  BY DEF HeadersList
<1>2. OfText(hdrs[j], units, from, to)
  BY DEF HeadersList
<1> QED BY <1>1, <1>2 DEF MboxHeader, OfText

(* The flags of headers say nothing of where the messages are.              *)
SameMessages(g, h) ==
    /\ DOMAIN g = DOMAIN h
    /\ \A j \in DOMAIN h : /\ g[j].msg = h[j].msg /\ g[j].offset = h[j].offset
                           /\ g[j].length = h[j].length
LEMMA FlagsOnly ==
    ASSUME NEW g \in Seq(MboxHeader), NEW h, SameMessages(g, h), NEW units, NEW from, NEW to,
           HeadersList(h, units, from, to)
    PROVE  HeadersList(g, units, from, to)
<1>1. InOrder(g)
  BY DEF HeadersList, InOrder, SameMessages
<1>2. \A j \in DOMAIN g : OfText(g[j], units, from, to)
  BY DEF HeadersList, OfText, SameMessages
<1>3. \A p \in from + 1 .. to : TextListed(g, units, p)
  BY DEF HeadersList, TextListed, SameMessages
<1> QED BY <1>1, <1>2, <1>3 DEF HeadersList

(* What was read before is still the front of a file that mail was appended *)
(* to.                                                                      *)
LEMMA ListStays ==
    ASSUME NEW units \in Seq(MboxUnit), NEW n \in 0 .. Len(units), NEW old, NEW hdrs,
           old = SubSeq(units, 1, n), HeadersList(hdrs, old, 0, n)
    PROVE  HeadersList(hdrs, units, 0, n)
<1>1. Len(old) = n /\ \A k \in 1 .. n : old[k] = units[k]
  OBVIOUS
<1>2. ASSUME NEW j \in DOMAIN hdrs PROVE OfText(hdrs[j], units, 0, n)
  <2>1. /\ hdrs[j].offset \in Nat /\ hdrs[j].length \in Nat /\ OfText(hdrs[j], old, 0, n)
    BY ListMember
  <2> QED BY <1>1, <2>1 DEF OfText
<1>3. \A p \in 0 + 1 .. n : TextListed(hdrs, units, p)
  BY <1>1 DEF HeadersList, TextListed
<1> QED BY <1>2, <1>3 DEF HeadersList

LEMMA ListsJoin ==
    ASSUME NEW units \in Seq(MboxUnit), NEW n \in 0 .. Len(units), NEW g, NEW h,
           HeadersList(g, units, 0, n), HeadersList(h, units, n, Len(units))
    PROVE  HeadersList(g \o h, units, 0, Len(units))
<1> DEFINE all == g \o h
<1>1. /\ g \in Seq(MboxHeader) /\ h \in Seq(MboxHeader) /\ DOMAIN g = 1 .. Len(g)
      /\ DOMAIN h = 1 .. Len(h) /\ Len(g) \in Nat /\ Len(h) \in Nat
  BY DEF HeadersList
<1>2. /\ all \in Seq(MboxHeader) /\ DOMAIN all = 1 .. Len(g) + Len(h)
      /\ \A j \in 1 .. Len(g) : all[j] = g[j]
      /\ \A j \in 1 .. Len(h) : all[Len(g) + j] = h[j]
  BY <1>1
<1> HIDE DEF all
<1>3. ASSUME NEW j \in 1 .. Len(g)
      PROVE  all[j].offset \in Nat /\ all[j].offset <= n /\ OfText(all[j], units, 0, Len(units))
  <2>1. g[j].offset \in Nat /\ OfText(g[j], units, 0, n)
    BY <1>1, ListMember
  <2> QED BY <1>2, <2>1 DEF OfText
<1>4. ASSUME NEW j \in 1 .. Len(h)
      PROVE  /\ h[j].offset \in Nat /\ n < h[j].offset
             /\ OfText(h[j], units, 0, Len(units))
  <2>0. n \in Nat /\ j \in DOMAIN h
    BY <1>1
  <2>1. h[j].offset \in Nat /\ OfText(h[j], units, n, Len(units))
    BY <2>0, ListMember
  <2> QED BY <2>1 DEF OfText
<1>5. ASSUME NEW j \in DOMAIN all, j \notin 1 .. Len(g)
      PROVE  j - Len(g) \in 1 .. Len(h) /\ all[j] = h[j - Len(g)]
  <2>1. j - Len(g) \in 1 .. Len(h) /\ j = Len(g) + (j - Len(g))
    BY <1>1, <1>2, <1>5
  <2> QED BY <1>2, <2>1
<1>6. \A j \in DOMAIN all : OfText(all[j], units, 0, Len(units))
  BY <1>3, <1>4, <1>5
<1>7. InOrder(all)
  <2> SUFFICES ASSUME NEW j \in DOMAIN all, NEW k \in DOMAIN all, j < k
               PROVE  all[j].offset < all[k].offset
    BY DEF InOrder
  <2>0. InOrder(g) /\ InOrder(h)
    BY DEF HeadersList
  <2>1. CASE k \in 1 .. Len(g)
    <3>1. j \in 1 .. Len(g)
      BY <1>2, <2>1
    <3> QED BY <1>1, <1>2, <2>0, <2>1, <3>1 DEF InOrder
  <2>2. CASE k \notin 1 .. Len(g) /\ j \in 1 .. Len(g)
    BY <1>3, <1>4, <1>5, <2>2
  <2>3. CASE k \notin 1 .. Len(g) /\ j \notin 1 .. Len(g)
    <3>1. PICK x, y : x = j - Len(g) /\ y = k - Len(g)
      OBVIOUS
    <3>2. x \in DOMAIN h /\ y \in DOMAIN h /\ all[j] = h[x] /\ all[k] = h[y]
      BY <1>1, <1>5, <2>3, <3>1
    <3>3. x < y
      BY <1>1, <1>2, <3>1
    <3> QED BY <2>0, <3>2, <3>3 DEF InOrder
  <2> QED BY <2>1, <2>2, <2>3
<1>8. ASSUME NEW p \in 0 + 1 .. Len(units) PROVE TextListed(all, units, p)
  <2>1. CASE p <= n
    <3>1. TextListed(g, units, p)
      BY <2>1 DEF HeadersList
    <3> QED BY <1>1, <1>2, <3>1 DEF TextListed
  <2>2. CASE n < p
    <3>1. TextListed(h, units, p)
      BY <2>2 DEF HeadersList
    <3>2. \A j \in 1 .. Len(h) : Len(g) + j \in DOMAIN all
      BY <1>1, <1>2
    <3> QED BY <1>1, <1>2, <3>1, <3>2 DEF TextListed
  <2> QED BY <2>1, <2>2
<1> QED BY <1>2, <1>6, <1>7, <1>8 DEF HeadersList, all

-----------------------------------------------------------------------------
(* Opening a mailbox, flags, and looking for news.                          *)

LEMMA CreateKeeps ==
    ASSUME SpoolHolds, NEW c \in Clients, f_create(c) PROVE SpoolHolds'
<1>1. mbox \in Seq(MboxUnit) /\ reader[c].pc = "none"
  BY SpoolFile DEF f_create, Exists, SpoolHolds
<1>2. PICK hdrs : hdrs = mbox_parse_mailbox(mbox, 0)
  OBVIOUS
<1>3. HeadersList(hdrs, mbox, 0, Len(mbox)) /\ Fresh(hdrs)
  <2>1. 0 \in 0 .. Len(mbox)
    BY <1>1
  <2> QED BY <1>1, <1>2, <2>1, Parsed
<1>4. PICK b \in BOOLEAN : b = ~Free(c)
  OBVIOUS
<1>5. PICK r : r = [NotOpen EXCEPT !.pc = "open", !.hdrs = hdrs, !.read = mbox, !.readonly = b]
  OBVIOUS
<1>6. reader' = [reader EXCEPT ![c] = r]
  BY <1>2, <1>4, <1>5 DEF f_create
<1>7. r \in MboxReader /\ r.pc = "open" /\ r.hdrs = hdrs /\ r.read = mbox
  <2>1. hdrs \in Seq(MboxHeader) /\ <<>> \in Seq(MboxUnit)
    BY <1>3 DEF HeadersList
  <2>2. NotOpen \in MboxReader
    BY <2>1 DEF MboxReader, MboxPlaces, NotOpen
  <2>3. \A x \in MboxReader :
          LET y == [x EXCEPT !.pc = "open", !.hdrs = hdrs, !.read = mbox, !.readonly = b]
          IN y \in MboxReader /\ y.pc = "open" /\ y.hdrs = hdrs /\ y.read = mbox
    BY <1>1, <2>1 DEF MboxReader, MboxPlaces
  <2> QED BY <1>5, <2>2, <2>3
<1>8. Knows(r, asked')
  BY <1>3, <1>7 DEF Knows, Fresh
<1>9. UNCHANGED <<mbox, arrived, flocked, savedmail, asked>>
  BY DEF f_create
<1> QED BY <1>1, <1>6, <1>7, <1>8, <1>9, ReaderMoves

LEMMA SetFlagKeeps ==
    ASSUME SpoolHolds, NEW c \in Clients, f_set_flag(c) PROVE SpoolHolds'
<1>0. PICK i \in DOMAIN reader[c].hdrs :
        \E g : \/ /\ reader' = [reader EXCEPT ![c].hdrs[i].deleted = TRUE, ![c].edits = @ + 1]
                 /\ asked' = asked \cup {reader[c].hdrs[i].msg}
                 /\ g = [reader[c].hdrs[i] EXCEPT !.deleted = TRUE]
              \/ /\ reader' = [reader EXCEPT ![c].hdrs[i] = g, ![c].edits = @ + 1]
                 /\ asked' = asked
                 /\ g = [reader[c].hdrs[i] EXCEPT !.read = ~@, !.changed = TRUE]
  BY DEF f_set_flag
<1>1. PICK g :
        \/ /\ reader' = [reader EXCEPT ![c].hdrs[i].deleted = TRUE, ![c].edits = @ + 1]
           /\ asked' = asked \cup {reader[c].hdrs[i].msg}
           /\ g = [reader[c].hdrs[i] EXCEPT !.deleted = TRUE]
        \/ /\ reader' = [reader EXCEPT ![c].hdrs[i] = g, ![c].edits = @ + 1]
           /\ asked' = asked
           /\ g = [reader[c].hdrs[i] EXCEPT !.read = ~@, !.changed = TRUE]
  BY <1>0
<1>2. reader \in [Clients -> MboxReader] /\ reader[c] \in MboxReader /\ reader[c].pc = "open"
  BY DEF SpoolHolds, SpoolTypes, f_set_flag
<1>3. Knows(reader[c], asked)
  BY <1>2 DEF SpoolHolds, ReadersKnow
<1>4. PICK r0, hdrs, h : r0 = reader[c] /\ hdrs = r0.hdrs /\ h = hdrs[i]
  OBVIOUS
<1>5. hdrs \in Seq(MboxHeader) /\ h \in MboxHeader /\ i \in DOMAIN hdrs
  BY <1>2, <1>4 DEF MboxReader
<1>6. /\ g \in MboxHeader /\ g.msg = h.msg /\ g.offset = h.offset /\ g.length = h.length
      /\ asked \subseteq asked' /\ (g.deleted => g.msg \in asked')
  <2>0. h.deleted => h.msg \in asked
    BY <1>3, <1>4, <1>5 DEF Knows
  <2>1. CASE asked' = asked \cup {h.msg} /\ g = [h EXCEPT !.deleted = TRUE]
    BY <1>5, <2>1 DEF MboxHeader
  <2>2. CASE asked' = asked /\ g = [h EXCEPT !.read = ~@, !.changed = TRUE]
    BY <1>5, <2>0, <2>2 DEF MboxHeader
  <2> QED BY <1>1, <1>4, <2>1, <2>2
<1>7. PICK new : new = [hdrs EXCEPT ![i] = g]
  OBVIOUS
<1>8. new \in Seq(MboxHeader) /\ SameMessages(new, hdrs)
      /\ \A j \in DOMAIN hdrs : new[j] = IF j = i THEN g ELSE hdrs[j]
  <2>1. /\ DOMAIN new = DOMAIN hdrs /\ DOMAIN hdrs = 1 .. Len(hdrs)
        /\ \A j \in DOMAIN hdrs : new[j] = IF j = i THEN g ELSE hdrs[j]
    BY <1>5, <1>7
  <2>2. \A j \in DOMAIN hdrs : new[j] \in MboxHeader
    BY <1>5, <1>6, <2>1
  <2>3. new = [j \in 1 .. Len(hdrs) |-> new[j]]
    BY <1>7, <2>1
  <2>4. new \in Seq(MboxHeader)
    BY <1>5, <2>1, <2>2, <2>3
  <2>5. SameMessages(new, hdrs)
    BY <1>4, <1>5, <1>6, <2>1 DEF SameMessages
  <2> QED BY <2>1, <2>4, <2>5
<1>9. PICK r, n : r = [r0 EXCEPT !.hdrs = new, !.edits = n] /\ n = r0.edits + 1
  OBVIOUS
<1>14. r0 = [pc |-> r0.pc, hdrs |-> r0.hdrs, read |-> r0.read, readonly |-> r0.readonly,
             temp |-> r0.temp, first |-> r0.first, written |-> r0.written, edits |-> r0.edits]
  BY <1>2, <1>4 DEF MboxReader
<1>10. reader' = [reader EXCEPT ![c] = r]
  <2>1. CASE /\ reader' = [reader EXCEPT ![c].hdrs[i].deleted = TRUE, ![c].edits = @ + 1]
             /\ g = [h EXCEPT !.deleted = TRUE]
    <3>1. reader' = [reader EXCEPT ![c].hdrs[i] = g, ![c].edits = @ + 1]
      BY <1>4, <2>1
    <3>2. reader' = [reader EXCEPT ![c] = [r0 EXCEPT !.hdrs = [hdrs EXCEPT ![i] = g],
                                                    !.edits = @ + 1]]
      BY <1>2, <1>4, <3>1
    <3> QED BY <1>7, <1>9, <3>2
  <2>2. CASE reader' = [reader EXCEPT ![c].hdrs[i] = g, ![c].edits = @ + 1]
    <3>1. reader' = [reader EXCEPT ![c].hdrs[i] = g, ![c].edits = @ + 1]
      BY <1>4, <2>2
    <3>2. reader' = [reader EXCEPT ![c] = [r0 EXCEPT !.hdrs = [hdrs EXCEPT ![i] = g],
                                                    !.edits = @ + 1]]
      BY <1>2, <1>4, <3>1
    <3> QED BY <1>7, <1>9, <3>2
  <2> QED BY <1>1, <1>4, <2>1, <2>2
<1>11. r \in MboxReader /\ r.pc = "open" /\ r.hdrs = new /\ r.read = r0.read
  <2>1. new \in Seq(MboxHeader) /\ r0 \in MboxReader /\ r0.pc = "open"
    BY <1>2, <1>4, <1>8
  <2>2. n \in Nat
    BY <1>9, <2>1 DEF MboxReader
  <2>3. \A x \in MboxReader : LET y == [x EXCEPT !.hdrs = new, !.edits = n]
          IN y \in MboxReader /\ y.pc = x.pc /\ y.hdrs = new /\ y.read = x.read
    BY <2>1, <2>2 DEF MboxReader
  <2> QED BY <1>9, <2>1, <2>3
<1>12. Knows(r, asked')
  <2>1. HeadersList(new, r0.read, 0, Len(r0.read))
    BY <1>3, <1>4, <1>8, FlagsOnly DEF Knows
  <2>2. \A j \in DOMAIN new : new[j].deleted => new[j].msg \in asked'
    BY <1>3, <1>4, <1>6, <1>8 DEF Knows, SameMessages
  <2> QED BY <1>11, <2>1, <2>2 DEF Knows
<1>13. UNCHANGED <<mbox, arrived, flocked, savedmail>>
  BY DEF f_set_flag
<1> QED BY <1>2, <1>6, <1>10, <1>11, <1>12, <1>13, ReaderMoves

(* mutt_reopen_mailbox: the headers are those of the file, and one that is  *)
(* marked has its mark from a header of the same message.                   *)
LEMMA ReopenKnows ==
    ASSUME mbox \in Seq(MboxUnit), NEW r \in MboxReader, NEW wanted, Knows(r, wanted)
    PROVE  /\ mutt_reopen_mailbox(r) \in MboxReader
           /\ mutt_reopen_mailbox(r).pc = r.pc
           /\ Knows(mutt_reopen_mailbox(r), wanted)
<1>1. PICK new, old, match :
        /\ new = mbox_parse_mailbox(mbox, 0) /\ old = r.hdrs
        /\ match = mbox_strict_match(new, old)
  OBVIOUS
<1>2. HeadersList(new, mbox, 0, Len(mbox)) /\ Fresh(new)
  <2>1. 0 \in 0 .. Len(mbox)
    OBVIOUS
  <2> QED BY <1>1, <2>1, Parsed
<1>3. new \in Seq(MboxHeader) /\ old \in Seq(MboxHeader)
  BY <1>1, <1>2 DEF HeadersList, MboxReader
<1>4. Matched(match, new, old, Len(new))
  BY <1>1, <1>3, AllMatched
<1> DEFINE Carried(h, o) ==
      [h EXCEPT !.read = IF o.changed THEN o.read ELSE @,
                !.changed = o.changed /\ o.read # h.read, !.deleted = o.deleted]
<1>5. PICK hdrs : hdrs = IF r.readonly THEN new
                         ELSE [i \in DOMAIN new |->
                                 IF match[i] = 0 THEN new[i] ELSE Carried(new[i], old[match[i]])]
  OBVIOUS
<1>6. mutt_reopen_mailbox(r) = [r EXCEPT !.read = mbox, !.hdrs = hdrs]
  BY <1>1, <1>5 DEF mutt_reopen_mailbox
<1>7. ASSUME NEW h \in MboxHeader, NEW o \in MboxHeader
      PROVE  /\ Carried(h, o) \in MboxHeader
             /\ Carried(h, o).msg = h.msg /\ Carried(h, o).offset = h.offset
             /\ Carried(h, o).length = h.length /\ Carried(h, o).deleted = o.deleted
  BY DEF MboxHeader
<1>8. ASSUME NEW i \in DOMAIN new
      PROVE  /\ hdrs[i] \in MboxHeader /\ hdrs[i].msg = new[i].msg
             /\ hdrs[i].offset = new[i].offset /\ hdrs[i].length = new[i].length
             /\ hdrs[i].deleted => hdrs[i].msg \in wanted
  <2>1. new[i] \in MboxHeader /\ ~new[i].deleted /\ i \in 1 .. Len(new)
    BY <1>2, <1>3 DEF Fresh
  <2>2. CASE hdrs[i] = new[i]
    BY <2>1, <2>2
  <2>3. CASE hdrs[i] = Carried(new[i], old[match[i]]) /\ match[i] # 0
    <3>1. MatchedAt(match, new, old, i)
      BY <1>4, <2>1 DEF Matched
    <3>2. match[i] \in DOMAIN old /\ old[match[i]].msg = new[i].msg
      BY <2>3, <3>1 DEF MatchedAt
    <3>3. old[match[i]] \in MboxHeader
      BY <1>3, <3>2
    <3>4. old[match[i]].deleted => old[match[i]].msg \in wanted
      BY <1>1, <3>2 DEF Knows
    <3> HIDE DEF Carried
    <3> QED BY <1>7, <2>1, <2>3, <3>2, <3>3, <3>4
  <2>4. hdrs[i] = new[i] \/ (hdrs[i] = Carried(new[i], old[match[i]]) /\ match[i] # 0)
    <3> HIDE DEF Carried
    <3> QED BY <1>5
  <2> HIDE DEF Carried
  <2> QED BY <2>2, <2>3, <2>4
<1> HIDE DEF Carried
<1>9. DOMAIN hdrs = DOMAIN new /\ hdrs \in Seq(MboxHeader)
  <2>1. CASE r.readonly
    BY <1>3, <1>5, <2>1
  <2>2. CASE ~r.readonly
    <3>1. hdrs = [i \in 1 .. Len(new) |-> hdrs[i]] /\ DOMAIN hdrs = DOMAIN new
      BY <1>3, <1>5, <2>2
    <3>2. \A i \in 1 .. Len(new) : hdrs[i] \in MboxHeader
      BY <1>3, <1>8
    <3> QED BY <1>3, <3>1, <3>2
  <2> QED BY <2>1, <2>2
<1>10. HeadersList(hdrs, mbox, 0, Len(mbox))
  <2>1. SameMessages(hdrs, new)
    BY <1>8, <1>9 DEF SameMessages
  <2> QED BY <1>2, <1>9, <2>1, FlagsOnly
<1>11. \A x \in MboxReader :
         LET y == [x EXCEPT !.read = mbox, !.hdrs = hdrs]
         IN y \in MboxReader /\ y.pc = x.pc /\ y.read = mbox /\ y.hdrs = hdrs
  BY <1>9 DEF MboxReader
<1>12. \A j \in DOMAIN hdrs : hdrs[j].deleted => hdrs[j].msg \in wanted
  BY <1>8, <1>9
<1> QED BY <1>6, <1>10, <1>11, <1>12 DEF Knows

(* mbox_check_mailbox, unless it takes another file for its own.            *)
LEMMA CheckKnows ==
    ASSUME SpoolTypes, NEW r \in MboxReader, NEW wanted, Knows(r, wanted), r.pc = "open",
           mbox_check_mailbox(r).fool = {}
    PROVE  /\ mbox_check_mailbox(r).ctx \in MboxReader
           /\ mbox_check_mailbox(r).ctx.pc \in {"open", "broken"}
           /\ mbox_check_mailbox(r).ctx.pc = "open" =>
                Knows(mbox_check_mailbox(r).ctx, wanted)
           /\ mbox_check_mailbox(r).rc = "same" => mbox = r.read
<1>3. PICK done : done = mbox_check_mailbox(r)
  OBVIOUS
<1> SUFFICES /\ done.ctx \in MboxReader /\ done.ctx.pc \in {"open", "broken"}
             /\ done.ctx.pc = "open" => Knows(done.ctx, wanted)
             /\ done.rc = "same" => mbox = r.read
  BY <1>3
<1>4. done.fool = {}
  BY <1>3
<1>0. r.hdrs \in Seq(MboxHeader) /\ r.read \in Seq(MboxUnit)
      /\ HeadersList(r.hdrs, r.read, 0, Len(r.read))
  BY DEF MboxReader, Knows
<1>1. CASE ~Exists
  <2>1. done =
          [ctx |-> [r EXCEPT !.pc = "broken"], rc |-> "corrupt", fool |-> {}]
    BY <1>1, <1>3, Zenon DEF mbox_check_mailbox, SameLength, Appended
  <2>2. [r EXCEPT !.pc = "broken"] \in MboxReader /\ [r EXCEPT !.pc = "broken"].pc = "broken"
    BY DEF MboxReader, MboxPlaces
  <2>3. done.ctx.pc = "broken" /\ done.ctx \in MboxReader /\ done.rc = "corrupt"
    BY <2>1, <2>2
  <2> QED BY <2>3
<1>2. CASE Exists
  <2>1. mbox \in Seq(MboxUnit)
    BY <1>2, SpoolFile DEF Exists
  <2>2. CASE SameLength(r)
    <3>1. done =
            [ctx |-> r, rc |-> "same", fool |-> IF mbox = r.read THEN {} ELSE {"same length"}]
        <4>1. mbox_check_mailbox(r) =
              [ctx |-> r, rc |-> "same", fool |-> IF mbox = r.read THEN {} ELSE {"same length"}]
        <5>1. ~Appended(r)
          BY <1>0, <2>1, <2>2 DEF SameLength, Appended
        <5> QED BY <1>2, <2>2, <5>1, Zenon DEF mbox_check_mailbox
      <4> QED BY <1>3, <4>1
    <3>2. (IF mbox = r.read THEN {} ELSE {"same length"}) = {}
      BY <1>4, <3>1
    <3>3. mbox = r.read /\ done.ctx = r
      BY <3>1, <3>2
    <3> QED BY <3>3
  <2>3. CASE ~SameLength(r) /\ Appended(r)
    <3>1. PICK more : more = mbox_parse_mailbox(mbox, Len(r.read))
      OBVIOUS
    <3>2. PICK y : y = [r EXCEPT !.read = mbox, !.hdrs = @ \o more]
      OBVIOUS
    <3>3. done =
            [ctx |-> y, rc |-> "new mail",
             fool |-> IF SubSeq(mbox, 1, Len(r.read)) = r.read THEN {} ELSE {"appended"}]
      BY <1>2, <1>3, <2>3, <3>1, <3>2 DEF mbox_check_mailbox
    <3>4. SubSeq(mbox, 1, Len(r.read)) = r.read
      <4>1. PICK old : old = SubSeq(mbox, 1, Len(r.read))
        OBVIOUS
      <4>2. (IF old = r.read THEN {} ELSE {"appended"}) = {}
        BY <1>4, <3>3, <4>1
      <4> QED BY <4>1, <4>2
    <3>5. Len(r.read) \in 0 .. Len(mbox)
      BY <1>0, <2>1, <2>3 DEF Appended
    <3>6. HeadersList(more, mbox, Len(r.read), Len(mbox)) /\ Fresh(more)
      BY <2>1, <3>1, <3>5, Parsed
    <3>7. HeadersList(r.hdrs, mbox, 0, Len(r.read))
      BY <1>0, <2>1, <3>4, <3>5, ListStays
    <3>8. HeadersList(r.hdrs \o more, mbox, 0, Len(mbox))
      BY <2>1, <3>5, <3>6, <3>7, ListsJoin
    <3>9. more \in Seq(MboxHeader) /\ r.hdrs \o more \in Seq(MboxHeader)
      BY <3>6, <3>8 DEF HeadersList
    <3>10. y \in MboxReader /\ y.pc = "open" /\ y.read = mbox /\ y.hdrs = r.hdrs \o more
      BY <2>1, <3>2, <3>9 DEF MboxReader
    <3>11. ASSUME NEW j \in DOMAIN (r.hdrs \o more), (r.hdrs \o more)[j].deleted
           PROVE  (r.hdrs \o more)[j].msg \in wanted
      <4>1. CASE j \in DOMAIN r.hdrs
        <5>1. (r.hdrs \o more)[j] = r.hdrs[j]
          BY <1>0, <3>9, <4>1
        <5> QED BY <3>11, <4>1, <5>1 DEF Knows
      <4>2. CASE j \notin DOMAIN r.hdrs
        <5>1. j - Len(r.hdrs) \in DOMAIN more /\ (r.hdrs \o more)[j] = more[j - Len(r.hdrs)]
          BY <1>0, <3>9, <4>2
        <5> QED BY <3>6, <3>11, <5>1 DEF Fresh
      <4> QED BY <4>1, <4>2
    <3>12. Knows(y, wanted)
      BY <3>8, <3>10, <3>11 DEF Knows
    <3> QED BY <3>3, <3>10, <3>12
  <2>4. CASE ~SameLength(r) /\ ~Appended(r)
    <3>1. done =
            [ctx |-> mutt_reopen_mailbox(r), rc |-> "reopened", fool |-> {}]
      BY <1>2, <1>3, <2>4 DEF mbox_check_mailbox
    <3> QED BY <2>1, <3>1, ReopenKnows
  <2> QED BY <2>2, <2>3, <2>4
<1> QED BY <1>1, <1>2

LEMMA CheckMailboxKeeps ==
    ASSUME SpoolHolds, NEW c \in Clients, f_check_mailbox(c), fooled' = {}
    PROVE  SpoolHolds'
<1>1. PICK r, done : r = reader[c] /\ done = mbox_check_mailbox(r)
  OBVIOUS
<1>2. r \in MboxReader /\ r.pc = "open" /\ Knows(r, asked) /\ SpoolTypes
  BY <1>1 DEF SpoolHolds, SpoolTypes, ReadersKnow, f_check_mailbox
<1>3. reader' = [reader EXCEPT ![c] = done.ctx] /\ done.fool = {}
  BY <1>1 DEF f_check_mailbox
<1>4. /\ done.ctx \in MboxReader /\ done.ctx.pc \in {"open", "broken"}
      /\ done.ctx.pc = "open" => Knows(done.ctx, asked)
  BY <1>1, <1>2, <1>3, CheckKnows
<1>5. UNCHANGED <<mbox, arrived, flocked, savedmail, asked>>
  BY DEF f_check_mailbox
<1> QED BY <1>1, <1>2, <1>3, <1>4, <1>5, ReaderMoves

(* Closing without a sync, and a sync that gives up before it writes.       *)
LEMMA CloseQuietlyKeeps ==
    ASSUME SpoolHolds, NEW c \in Clients,
           \/ CloseQuietly(c)
           \/ /\ reader[c].pc = "open" /\ Unsaved(c)
              /\ UNCHANGED <<mbox, arrived, flocked, savedmail, asked>>
    PROVE  SpoolHolds'
<1>1. PICK r : r = [NotOpen EXCEPT !.pc = "over"]
  OBVIOUS
<1>2. r \in MboxReader /\ r.pc = "over"
  BY <1>1, NotOpenTyped DEF MboxPlaces
<1>3. /\ reader' = [reader EXCEPT ![c] = r] /\ reader[c].pc # "copies"
      /\ UNCHANGED <<mbox, arrived, flocked, savedmail, asked>>
  BY <1>1 DEF CloseQuietly, Unsaved
<1> QED BY <1>2, <1>3, ReaderMoves

-----------------------------------------------------------------------------
(* Writing a mailbox back.                                                  *)

LEMMA OnlyHolder ==
    ASSUME SpoolHolds, NEW c \in Clients \cup {Null}, flocked \in {Null, c}
    PROVE  \A d \in Clients : d # c => reader[d].pc # "copies"
<1>1. \A d \in Clients : d # Null
  BY NullIsNobody
<1> QED BY <1>1 DEF SpoolHolds, WritersKeep

LEMMA LoneMove ==
    ASSUME SpoolHolds, NEW c \in Clients, NEW r \in MboxReader,
           \A d \in Clients : d # c => reader[d].pc # "copies",
           reader' = [reader EXCEPT ![c] = r], r.pc # "open",
           mbox' = NoFile \/ mbox' \in Seq(MboxUnit),
           flocked' \in Clients \cup {Null}, UNCHANGED <<arrived, asked>>,
           r.pc = "copies" => /\ flocked' = c /\ Writing(r, mbox')
                              /\ MailKept(r, mbox', arrived, asked \cup savedmail'),
           r.pc # "copies" => MailIsThere'
    PROVE  SpoolHolds'
<1>0. /\ reader \in [Clients -> MboxReader] /\ reader' \in [Clients -> MboxReader]
      /\ reader'[c] = r /\ \A d \in Clients : d # c => reader'[d] = reader[d]
  BY DEF SpoolHolds, SpoolTypes
<1>1. SpoolTypes'
  BY <1>0 DEF SpoolHolds, SpoolTypes
<1>2. ReadersKnow'
  BY <1>0 DEF SpoolHolds, ReadersKnow
<1>3. WritersKeep'
  BY <1>0 DEF WritersKeep
<1>4. NobodyCopies' => MailIsThere'
  BY <1>0 DEF NobodyCopies
<1> QED BY <1>1, <1>2, <1>3, <1>4 DEF SpoolHolds

LEMMA SyncStartsKeeps ==
    ASSUME SpoolHolds, NEW c \in Clients, SyncStarts(c), fooled' = {}
    PROVE  SpoolHolds'
<1>1. CASE Unsaved(c) /\ UNCHANGED flocked
  <2>1. reader[c].pc = "open" /\ UNCHANGED <<mbox, arrived, flocked, savedmail, asked>>
    BY <1>1 DEF SyncStarts
  <2> QED BY <1>1, <2>1, CloseQuietlyKeeps
<1>2. CASE ~(Unsaved(c) /\ UNCHANGED flocked)
  <2>1. PICK r, hdrs, check, first :
          /\ r = reader[c] /\ hdrs = r.hdrs /\ check = mbox_check_mailbox(r)
          /\ first = Min({i \in DOMAIN r.hdrs : r.hdrs[i].changed \/ r.hdrs[i].deleted})
    OBVIOUS
  <2>2. r \in MboxReader /\ r.pc = "open" /\ Knows(r, asked) /\ SpoolTypes /\ hdrs \in Seq(MboxHeader)
    BY <2>1 DEF SpoolHolds, SpoolTypes, ReadersKnow, SyncStarts, MboxReader
  <2>3. /\ Exists /\ Free(c) /\ check.rc = "same" /\ check.fool = {}
        /\ flocked' = c
        /\ reader' = [reader EXCEPT ![c] = [@ EXCEPT
             !.pc = "copies", !.first = hdrs[first].offset, !.written = 0,
             !.temp = IF check.fool = {} THEN TempFile(r, first) ELSE <<>>]]
    BY <1>2, <2>1 DEF SyncStarts, SyncChecks
  <2>4. mbox = r.read /\ mbox \in Seq(MboxUnit)
    BY <2>1, <2>2, <2>3, CheckKnows DEF MboxReader
  <2>5. first \in DOMAIN hdrs
    <3>1. PICK S : S = {i \in DOMAIN hdrs : hdrs[i].changed \/ hdrs[i].deleted}
      OBVIOUS
    <3>2. S # {} /\ \A i \in S : i \in Int /\ 1 <= i
      <4>1. Changed(r)
        BY <2>1 DEF SyncStarts
      <4>2. \E i \in DOMAIN hdrs : hdrs[i].changed \/ hdrs[i].deleted
        BY <2>1, <4>1 DEF Changed, Range
      <4> QED BY <2>2, <3>1, <4>2
    <3>3. first = Min(S)
      BY <2>1, <3>1
    <3>4. first \in S
      BY <3>2, <3>3, LeastOf
    <3> QED BY <3>1, <3>4
  <2>6. HeadersList(hdrs, mbox, 0, Len(mbox))
    BY <2>1, <2>2, <2>4 DEF Knows
  <2>7. PICK temp, offset : temp = TempFile(r, first) /\ offset = hdrs[first].offset
    OBVIOUS
  <2>8. HasCopies(hdrs, first, Len(hdrs), temp)
    <3>1. \A k \in DOMAIN r.hdrs : OfText(r.hdrs[k], mbox, 0, Len(mbox))
      BY <2>1, <2>6 DEF HeadersList
    <3> QED BY <2>1, <2>2, <2>4, <2>5, <2>7, <3>1, TempHasTexts
  <2>9. offset \in Nat /\ 1 <= offset /\ offset <= Len(mbox)
    <3>1. 0 \in Nat
      OBVIOUS
    <3>2. hdrs[first].offset \in Nat /\ OfText(hdrs[first], mbox, 0, Len(mbox))
          /\ 1 <= hdrs[first].offset
      BY <2>5, <2>6, <3>1, ListMember
    <3> QED BY <2>7, <3>2 DEF OfText
  <2>10. PICK x : x = [r EXCEPT !.pc = "copies", !.first = offset, !.written = 0, !.temp = temp]
    OBVIOUS
  <2>11. reader' = [reader EXCEPT ![c] = x]
    BY <2>1, <2>3, <2>7, <2>10
  <2>12. /\ x \in MboxReader /\ x.pc = "copies" /\ x.first = offset /\ x.written = 0
         /\ x.temp = temp
    <3>1. temp \in Seq(MboxUnit)
      BY <2>8 DEF HasCopies
    <3>2. \A z \in MboxReader :
            LET y == [z EXCEPT !.pc = "copies", !.first = offset, !.written = 0, !.temp = temp]
            IN /\ y \in MboxReader /\ y.pc = "copies" /\ y.first = offset /\ y.written = 0
               /\ y.temp = temp
      BY <2>9, <3>1 DEF MboxReader, MboxPlaces
    <3> QED BY <2>2, <2>10, <3>2
  <2>13. \A d \in Clients : d # c => reader[d].pc # "copies"
    BY <2>3, OnlyHolder DEF Free
  <2>14. Writing(x, mbox)
    BY <2>4, <2>8, <2>9, <2>12 DEF Writing, HasCopies
  <2>15. MailKept(x, mbox, arrived, asked \cup savedmail)
    <3> SUFFICES ASSUME NEW m \in 1 .. arrived, m \notin asked \cup savedmail
                 PROVE  m \in Texts(temp) \/ TextBefore(mbox, offset, m)
      BY <2>12 DEF MailKept
    <3>1. NobodyCopies
      BY <2>1, <2>2, <2>13 DEF NobodyCopies
    <3>2. m \in Texts(mbox)
      BY <3>1, <2>3 DEF SpoolHolds, MailIsThere, InMailbox
    <3>3. PICK p \in DOMAIN mbox : mbox[p].part = "text" /\ mbox[p].msg = m
      BY <3>2, TextsMember
    <3>4. CASE p < offset
      BY <3>3, <3>4 DEF TextBefore
    <3>5. CASE ~(p < offset)
      <4>1. p \in 0 + 1 .. Len(mbox)
        BY <2>4
      <4>2. PICK j \in DOMAIN hdrs : hdrs[j].offset = p
        BY <2>6, <3>3, <4>1 DEF HeadersList, TextListed
      <4>3. OfText(hdrs[j], mbox, 0, Len(mbox))
        BY <2>6 DEF HeadersList
      <4>4. hdrs[j].msg = m
        BY <3>3, <4>2, <4>3 DEF OfText
      <4>5. ~(j < first)
        BY <2>5, <2>6, <2>7, <2>9, <3>5, <4>2 DEF HeadersList, InOrder
      <4>6. j \in first .. Len(hdrs)
        BY <2>2, <2>5, <4>5
      <4>7. ~hdrs[j].deleted
        BY <2>1, <2>2, <4>4 DEF Knows
      <4> QED BY <2>8, <4>4, <4>6, <4>7 DEF HasCopies
    <3> QED BY <3>4, <3>5
  <2>16. UNCHANGED <<mbox, arrived, asked, savedmail>>
    BY DEF SyncStarts
  <2> QED BY <2>3, <2>4, <2>11, <2>12, <2>13, <2>14, <2>15, <2>16, LoneMove
<1> QED BY <1>1, <1>2

(* What is known of a mailbox that is being written.                        *)
LEMMA Written ==
    ASSUME SpoolHolds, NEW c \in Clients, reader[c].pc = "copies"
    PROVE  /\ reader[c] \in MboxReader /\ flocked = c /\ Writing(reader[c], mbox)
           /\ MailKept(reader[c], mbox, arrived, asked \cup savedmail)
           /\ \A d \in Clients : d # c => reader[d].pc # "copies"
<1>1. /\ reader[c] \in MboxReader /\ flocked = c /\ Writing(reader[c], mbox)
      /\ MailKept(reader[c], mbox, arrived, asked \cup savedmail)
  BY DEF SpoolHolds, SpoolTypes, WritersKeep
<1> QED BY <1>1, OnlyHolder

LEMMA CopyUnitKeeps ==
    ASSUME SpoolHolds, NEW c \in Clients, CopyUnit(c) PROVE SpoolHolds'
<1>0. reader[c].pc = "copies" /\ UNCHANGED <<arrived, flocked, asked, savedmail>>
  BY DEF CopyUnit
<1>1. PICK r, n, temp, p : /\ r = reader[c] /\ n = r.written /\ temp = r.temp
                           /\ p = r.first + n
  OBVIOUS
<1>2. /\ r \in MboxReader /\ flocked = c /\ Writing(r, mbox)
      /\ MailKept(r, mbox, arrived, asked \cup savedmail)
      /\ \A d \in Clients : d # c => reader[d].pc # "copies"
  BY <1>0, <1>1, Written
<1>3. /\ mbox \in Seq(MboxUnit) /\ temp \in Seq(MboxUnit) /\ n \in Nat /\ r.first \in Nat
      /\ 1 <= r.first /\ p <= Len(mbox) + 1 /\ n < Len(temp) /\ p \in Nat /\ r.first <= p
  BY <1>1, <1>2 DEF Writing, MboxReader, CopyUnit
<1>4. PICK u : u = temp[n + 1]
  OBVIOUS
<1>5. u \in MboxUnit
  BY <1>3, <1>4
<1>6. mbox' = IF p <= Len(mbox) THEN [mbox EXCEPT ![p] = u] ELSE Append(mbox, u)
  BY <1>1, <1>4 DEF CopyUnit
<1>7. /\ mbox' \in Seq(MboxUnit) /\ mbox'[p] = u /\ p <= Len(mbox')
      /\ \A k \in DOMAIN mbox : k < p => k \in DOMAIN mbox' /\ mbox'[k] = mbox[k]
  <2>1. CASE p <= Len(mbox)
    <3>1. mbox' = [mbox EXCEPT ![p] = u] /\ p \in 1 .. Len(mbox)
      BY <1>3, <1>6, <2>1
    <3>2. mbox' = [k \in 1 .. Len(mbox) |-> mbox'[k]]
          /\ \A k \in 1 .. Len(mbox) : mbox'[k] = IF k = p THEN u ELSE mbox[k]
      <4>1. DOMAIN mbox = 1 .. Len(mbox) /\ mbox = [k \in 1 .. Len(mbox) |-> mbox[k]]
        BY <1>3
      <4>2. PICK now : now = [mbox EXCEPT ![p] = u]
        OBVIOUS
      <4>3. /\ now = [k \in 1 .. Len(mbox) |-> now[k]]
            /\ \A k \in 1 .. Len(mbox) : now[k] = IF k = p THEN u ELSE mbox[k]
        BY <3>1, <4>1, <4>2
      <4> QED BY <3>1, <4>2, <4>3
    <3>3. \A k \in 1 .. Len(mbox) : mbox'[k] \in MboxUnit
      BY <1>3, <1>5, <3>2
    <3>4. mbox' \in Seq(MboxUnit) /\ Len(mbox') = Len(mbox)
      BY <1>3, <3>2, <3>3
    <3> QED BY <1>3, <3>1, <3>2, <3>4
  <2>2. CASE ~(p <= Len(mbox))
    <3>1. mbox' = Append(mbox, u) /\ p = Len(mbox) + 1
      BY <1>3, <1>6, <2>2
    <3> QED BY <1>3, <1>5, <3>1
  <2> QED BY <2>1, <2>2
<1>8. PICK x : x = [r EXCEPT !.written = n + 1]
  OBVIOUS
<1>9. reader' = [reader EXCEPT ![c] = x]
  <2>1. reader' = [reader EXCEPT ![c].written = n + 1]
    BY <1>1 DEF CopyUnit
  <2> QED BY <1>1, <1>8, <2>1
<1>10. /\ x \in MboxReader /\ x.pc = "copies" /\ x.first = r.first /\ x.temp = temp
       /\ x.written = n + 1
  <2>1. PICK k \in Nat : k = n + 1
    BY <1>3
  <2>2. \A z \in MboxReader :
          LET y == [z EXCEPT !.written = k]
          IN /\ y \in MboxReader /\ y.pc = z.pc /\ y.first = z.first /\ y.temp = z.temp
             /\ y.written = k
    BY DEF MboxReader
  <2> QED BY <1>0, <1>1, <1>2, <1>8, <2>1, <2>2
<1>11. Writing(x, mbox')
  <2>1. ASSUME NEW j \in 1 .. n + 1 PROVE mbox'[r.first + j - 1] = temp[j]
    <3>1. CASE j = n + 1
      <4>1. r.first + j - 1 = p
        BY <1>1, <1>3, <3>1
      <4> QED BY <1>4, <1>7, <3>1, <4>1
    <3>2. CASE j # n + 1
      <4>1. j \in 1 .. n
        BY <1>3, <3>2
      <4>2. mbox[r.first + j - 1] = temp[j]
        BY <1>1, <1>2, <4>1 DEF Writing
      <4>3. r.first + j - 1 \in DOMAIN mbox /\ r.first + j - 1 < p
        BY <1>1, <1>3, <4>1
      <4> QED BY <1>7, <4>2, <4>3
    <3> QED BY <3>1, <3>2
  <2>2. r.first + (n + 1) <= Len(mbox') + 1
    <3>1. PICK k \in Nat : k = Len(mbox')
      BY <1>7
    <3>2. p <= k
      BY <1>7, <3>1
    <3>3. r.first + (n + 1) = p + 1
      BY <1>1, <1>3
    <3> QED BY <1>3, <3>1, <3>2, <3>3
  <2> QED BY <1>3, <1>7, <1>10, <2>1, <2>2 DEF Writing
<1>12. MailKept(x, mbox', arrived, asked \cup savedmail)
  <2>1. ASSUME NEW m, TextBefore(mbox, r.first, m) PROVE TextBefore(mbox', r.first, m)
    <3>1. PICK k \in DOMAIN mbox : k < r.first /\ mbox[k].part = "text" /\ mbox[k].msg = m
      BY <2>1 DEF TextBefore
    <3>2. k < p
      BY <1>3, <3>1
    <3> QED BY <1>7, <3>1, <3>2 DEF TextBefore
  <2> QED BY <1>1, <1>2, <1>10, <2>1 DEF MailKept
<1> QED BY <1>0, <1>2, <1>7, <1>9, <1>10, <1>11, <1>12, LoneMove

(* A text in front of a place in the file is in the mailbox.                *)
LEMMA BeforeIsIn ==
    ASSUME NEW units, NEW p, NEW m, TextBefore(units, p, m) PROVE m \in Texts(units)
BY TextsMember DEF TextBefore

LEMMA StopsKeeps ==
    ASSUME SpoolHolds, NEW c \in Clients, WriteFails(c) \/ Crash(c)
    PROVE  SpoolHolds'
<1>1. /\ reader[c].pc = "copies" /\ UNCHANGED <<mbox, arrived, asked>> /\ flocked' = Null
      /\ savedmail' = savedmail \cup Mail(reader[c].temp)
      /\ reader' = [reader EXCEPT ![c] = [NotOpen EXCEPT !.pc = "over"]]
  BY DEF WriteFails, Crash, Unsaved
<1>2. PICK r, x : r = reader[c] /\ x = [NotOpen EXCEPT !.pc = "over"]
  OBVIOUS
<1>3. /\ r \in MboxReader /\ flocked = c /\ Writing(r, mbox)
      /\ MailKept(r, mbox, arrived, asked \cup savedmail)
      /\ \A d \in Clients : d # c => reader[d].pc # "copies"
  BY <1>1, <1>2, Written
<1>4. x \in MboxReader /\ x.pc = "over"
  BY <1>2, NotOpenTyped DEF MboxPlaces
<1>5. mbox \in Seq(MboxUnit) /\ Exists
  BY <1>3, SpoolFile DEF Writing, SpoolHolds, Exists
<1>6. MailIsThere'
  <2> SUFFICES ASSUME NEW m \in 1 .. arrived
               PROVE  m \in asked \cup savedmail' \cup InMailbox
    BY <1>1 DEF MailIsThere, InMailbox, Exists
  <2>1. m \in asked \cup savedmail \/ m \in Texts(r.temp) \/ TextBefore(mbox, r.first, m)
    BY <1>3 DEF MailKept
  <2>2. m \in Texts(r.temp) => m \in savedmail'
    BY <1>1, <1>2 DEF Texts, Mail
  <2>3. TextBefore(mbox, r.first, m) => m \in InMailbox
    BY <1>5, BeforeIsIn DEF InMailbox
  <2> QED BY <1>1, <2>1, <2>2, <2>3
<1> QED BY <1>1, <1>2, <1>3, <1>4, <1>5, <1>6, LoneMove

LEMMA SyncEndsKeeps ==
    ASSUME SpoolHolds, NEW c \in Clients, SyncEnds(c) PROVE SpoolHolds'
<1>1. PICK r, p : r = reader[c] /\ p \in MboxPlaces /\ p \in {"empties", "over"}
             /\ reader' = [reader EXCEPT ![c] = [NotOpen EXCEPT !.pc = p]]
  <2>1. \E b \in BOOLEAN : reader' = [reader EXCEPT ![c] = [NotOpen EXCEPT
            !.pc = IF b THEN "empties" ELSE "over"]]
    BY DEF SyncEnds
  <2> QED BY <2>1 DEF MboxPlaces
<1>2. /\ r.pc = "copies" /\ UNCHANGED <<arrived, asked, savedmail>> /\ flocked' = Null
      /\ mbox' = SubSeq(mbox, 1, r.first + r.written - 1) /\ r.written = Len(r.temp)
  BY <1>1 DEF SyncEnds, Cut
<1>3. /\ r \in MboxReader /\ flocked = c /\ Writing(r, mbox)
      /\ MailKept(r, mbox, arrived, asked \cup savedmail)
      /\ \A d \in Clients : d # c => reader[d].pc # "copies"
  BY <1>1, <1>2, Written
<1>4. /\ mbox \in Seq(MboxUnit) /\ r.temp \in Seq(MboxUnit) /\ r.written \in Nat
      /\ r.first \in Nat /\ 1 <= r.first /\ r.first + r.written <= Len(mbox) + 1
      /\ \A j \in 1 .. r.written : mbox[r.first + j - 1] = r.temp[j]
  BY <1>3 DEF Writing, MboxReader
<1>5. PICK end \in Nat : end = r.first + r.written - 1 /\ end <= Len(mbox)
  BY <1>4
<1>6. /\ mbox' \in Seq(MboxUnit) /\ DOMAIN mbox' = 1 .. end
      /\ \A k \in 1 .. end : mbox'[k] = mbox[k]
  BY <1>2, <1>4, <1>5
<1>7. PICK x : x = [NotOpen EXCEPT !.pc = p]
  OBVIOUS
<1>8. x \in MboxReader /\ x.pc = p
  BY <1>1, <1>7, NotOpenTyped
<1>9. MailIsThere'
  <2> SUFFICES ASSUME NEW m \in 1 .. arrived, m \notin asked \cup savedmail
               PROVE  m \in Texts(mbox')
    <3>1. mbox' # NoFile
      <4>1. NoFile \notin Seq(MboxUnit)
        BY NoFileIsNoSequence DEF SpoolHolds, SpoolTypes
      <4> QED BY <1>6, <4>1
    <3> QED BY <1>2, <3>1 DEF MailIsThere, InMailbox, Exists
  <2>1. m \in Texts(r.temp) \/ TextBefore(mbox, r.first, m)
    BY <1>3 DEF MailKept
  <2>2. CASE TextBefore(mbox, r.first, m)
    <3>1. PICK k \in DOMAIN mbox : k < r.first /\ mbox[k].part = "text" /\ mbox[k].msg = m
      BY <2>2 DEF TextBefore
    <3>2. k \in 1 .. end
      BY <1>4, <1>5, <3>1
    <3>3. k \in DOMAIN mbox' /\ mbox'[k].part = "text" /\ mbox'[k].msg = m
      BY <1>6, <3>1, <3>2
    <3>4. \E i \in DOMAIN mbox' : mbox'[i].part = "text" /\ mbox'[i].msg = m
      BY <3>3
    <3> QED BY <3>4 DEF Texts
  <2>3. CASE m \in Texts(r.temp)
    <3>1. PICK j \in DOMAIN r.temp : r.temp[j].part = "text" /\ r.temp[j].msg = m
      BY <2>3, TextsMember
    <3>2. j \in 1 .. r.written
      BY <1>2, <1>4
    <3>3. r.first + j - 1 \in 1 .. end
      <4>1. PICK f \in Nat, w \in Nat : f = r.first /\ w = r.written
        BY <1>4
      <4>2. 1 <= f /\ end = f + w - 1 /\ j \in 1 .. w
        BY <1>4, <1>5, <3>2, <4>1
      <4>3. f + j - 1 \in 1 .. end
        BY <4>2
      <4> QED BY <4>1, <4>3
    <3>4. /\ r.first + j - 1 \in DOMAIN mbox' /\ mbox'[r.first + j - 1].part = "text"
          /\ mbox'[r.first + j - 1].msg = m
      BY <1>4, <1>6, <3>1, <3>2, <3>3
    <3>5. \E i \in DOMAIN mbox' : mbox'[i].part = "text" /\ mbox'[i].msg = m
      BY <3>4
    <3> QED BY <3>5 DEF Texts
  <2> QED BY <2>1, <2>2, <2>3
<1> QED BY <1>1, <1>2, <1>3, <1>6, <1>7, <1>8, <1>9, LoneMove

(* A file is removed when nothing is in it.                                 *)
LEMMA UnlinkKeeps ==
    ASSUME SpoolHolds, NEW c \in Clients, mx_unlink_empty(c) PROVE SpoolHolds'
<1>1. /\ reader[c].pc = "empties" /\ UNCHANGED <<arrived, flocked, asked, savedmail>>
      /\ reader' = [reader EXCEPT ![c] = [NotOpen EXCEPT !.pc = "over"]]
      /\ \/ UNCHANGED mbox
         \/ Exists /\ Free(c) /\ mbox = <<>> /\ mbox' = NoFile
  BY DEF mx_unlink_empty, Unsaved, StillEmpty
<1>2. PICK x : x = [NotOpen EXCEPT !.pc = "over"]
  OBVIOUS
<1>3. x \in MboxReader /\ x.pc = "over"
  BY <1>2, NotOpenTyped DEF MboxPlaces
<1>4. CASE UNCHANGED mbox
  BY <1>1, <1>2, <1>3, <1>4, ReaderMoves
<1>5. CASE Exists /\ Free(c) /\ mbox = <<>> /\ mbox' = NoFile
  <2>1. \A d \in Clients : d # c => reader[d].pc # "copies"
    BY <1>5, OnlyHolder DEF Free
  <2>2. MailIsThere
    BY <1>1, <2>1 DEF SpoolHolds, NobodyCopies
  <2>3. InMailbox = {}
    BY <1>5 DEF InMailbox, Texts
  <2>4. MailIsThere'
    BY <1>1, <2>2, <2>3 DEF MailIsThere
  <2>5. flocked' \in Clients \cup {Null}
    BY <1>1 DEF SpoolHolds, SpoolTypes
  <2> QED BY <1>1, <1>2, <1>3, <1>5, <2>1, <2>4, <2>5, LoneMove
<1> QED BY <1>1, <1>4, <1>5

-----------------------------------------------------------------------------
(* What others do to the file while nobody has the lock.                    *)

LEMMA FileMoves ==
    ASSUME SpoolHolds, flocked = Null, UNCHANGED <<reader, flocked, savedmail>>,
           mbox' \in Seq(MboxUnit), arrived' \in Nat, asked \subseteq asked',
           \A m \in 1 .. arrived' : m \in asked' \cup savedmail \cup Texts(mbox')
    PROVE  SpoolHolds'
<1>1. SpoolTypes'
  BY DEF SpoolHolds, SpoolTypes
<1>2. ReadersKnow'
  BY DEF SpoolHolds, ReadersKnow, Knows
<1>3. NobodyCopies'
  <2>1. Null \in Clients \cup {Null} /\ \A c \in Clients : c # Null
    BY NullIsNobody
  <2> QED BY <2>1, OnlyHolder DEF NobodyCopies
<1>4. WritersKeep'
  BY <1>3 DEF WritersKeep, NobodyCopies
<1>5. MailIsThere'
  <2>1. Exists'
    <3>1. NoFile \notin Seq(MboxUnit)
      BY NoFileIsNoSequence DEF SpoolHolds, SpoolTypes
    <3> QED BY <3>1 DEF Exists
  <2> QED BY <2>1 DEF MailIsThere, InMailbox
<1> QED BY <1>1, <1>2, <1>4, <1>5 DEF SpoolHolds

(* With the lock free all mail is in the file, if there is one.             *)
LEMMA FreeFile ==
    ASSUME SpoolHolds, flocked = Null
    PROVE  \A m \in 1 .. arrived : m \in asked \cup savedmail \/ m \in InMailbox
<1>1. Null \in Clients \cup {Null} /\ \A c \in Clients : c # Null
  BY NullIsNobody
<1>2. NobodyCopies
  BY <1>1, OnlyHolder DEF NobodyCopies
<1> QED BY <1>2 DEF SpoolHolds, MailIsThere

LEMMA DeliverKeeps == ASSUME SpoolHolds, Deliver PROVE SpoolHolds'
<1>1. /\ flocked = Null /\ UNCHANGED <<reader, flocked, savedmail, asked>>
      /\ arrived' = arrived + 1 /\ arrived \in Nat
  BY DEF Deliver, SpoolHolds, SpoolTypes
<1>2. PICK old, new : /\ old = (IF Exists THEN mbox ELSE <<>>)
                      /\ new = <<Text(arrived + 1)>>
  OBVIOUS
<1>3. mbox' = old \o new
  BY <1>2 DEF Deliver
<1>4. old \in Seq(MboxUnit) /\ new \in Seq(MboxUnit)
  <2>1. Text(arrived + 1) \in MboxUnit
    BY <1>1 DEF Text, MboxUnit
  <2>2. Exists => mbox \in Seq(MboxUnit)
    BY SpoolFile DEF SpoolHolds, Exists
  <2> QED BY <1>2, <2>1, <2>2
<1>5. /\ mbox' \in Seq(MboxUnit) /\ Texts(old) \subseteq Texts(mbox')
      /\ Texts(new) \subseteq Texts(mbox')
  BY <1>3, <1>4, TextsJoin
<1>6. arrived + 1 \in Texts(new)
  BY <1>2 DEF Texts, Text
<1>7. \A m \in 1 .. arrived : m \in asked \cup savedmail \/ m \in Texts(old)
  <2>1. InMailbox \subseteq Texts(old)
    BY <1>2 DEF InMailbox
  <2> QED BY <1>1, <2>1, FreeFile
<1>8. \A m \in 1 .. arrived' : m \in asked' \cup savedmail \cup Texts(mbox')
  <2>1. \A m \in 1 .. arrived + 1 : m \in 1 .. arrived \/ m = arrived + 1
    BY <1>1
  <2> QED BY <1>1, <1>5, <1>6, <1>7, <2>1
<1> QED BY <1>1, <1>5, <1>8, FileMoves

LEMMA OtherProgramKeeps == ASSUME SpoolHolds, OtherProgram PROVE SpoolHolds'
<1>1. /\ flocked = Null /\ UNCHANGED <<reader, flocked, savedmail, arrived>> /\ arrived \in Nat
      /\ mbox \in Seq(MboxUnit) /\ Exists
  BY SpoolFile DEF OtherProgram, SpoolHolds, SpoolTypes, Exists
<1>2. PICK hdrs : hdrs = mbox_parse_mailbox(mbox, 0)
  OBVIOUS
<1>3. HeadersList(hdrs, mbox, 0, Len(mbox))
  <2>1. 0 \in 0 .. Len(mbox)
    BY <1>1
  <2> QED BY <1>1, <1>2, <2>1, Parsed
<1>4. hdrs \in Seq(MboxHeader) /\ Len(hdrs) > 1 /\ DOMAIN hdrs = 1 .. Len(hdrs)
  BY <1>2, <1>3 DEF HeadersList, OtherProgram
<1>5. PICK n \in Nat : n = Len(hdrs) /\ n > 1
  <2>1. Len(hdrs) \in Nat
    BY <1>4
  <2> QED BY <1>4, <2>1
<1>6. PICK first, second, last : first = hdrs[1] /\ second = hdrs[2] /\ last = hdrs[n]
  OBVIOUS
<1>7. /\ \A j \in DOMAIN hdrs : hdrs[j].offset \in Nat /\ OfText(hdrs[j], mbox, 0, Len(mbox))
                                /\ hdrs[j].length \in Nat
      /\ 1 \in DOMAIN hdrs /\ 2 \in DOMAIN hdrs /\ n \in DOMAIN hdrs
  <2>1. 0 \in Nat
    OBVIOUS
  <2> QED BY <1>3, <1>4, <1>5, <2>1, ListMember
<1>8. \A m \in 1 .. arrived : m \in asked \cup savedmail \/ m \in Texts(mbox)
  BY <1>1, FreeFile DEF InMailbox
(* The header of a text is found by its place.                              *)
<1>9. ASSUME NEW m \in Texts(mbox)
      PROVE  \E j \in DOMAIN hdrs : hdrs[j].msg = m /\ mbox[hdrs[j].offset].msg = m
                 /\ mbox[hdrs[j].offset].part = "text" /\ hdrs[j].offset \in DOMAIN mbox
  <2>1. PICK p \in DOMAIN mbox : mbox[p].part = "text" /\ mbox[p].msg = m
    BY <1>9, TextsMember
  <2>2. p \in 0 + 1 .. Len(mbox)
    BY <1>1
  <2>3. PICK j \in DOMAIN hdrs : hdrs[j].offset = p
    BY <1>3, <2>1, <2>2 DEF HeadersList, TextListed
  <2>4. OfText(hdrs[j], mbox, 0, Len(mbox))
    BY <1>7
  <2> QED BY <2>1, <2>3, <2>4 DEF OfText
<1>10. CASE /\ mbox' = SubSeq(mbox, second.offset, Len(mbox))
            /\ asked' = asked \cup {first.msg}
  <2>1. second.offset \in Nat /\ 1 <= second.offset /\ second.offset <= Len(mbox)
    BY <1>6, <1>7 DEF OfText
  <2>2. PICK k \in Nat : k = second.offset /\ 1 <= k /\ k <= Len(mbox)
    BY <2>1
  <2>3. /\ mbox' \in Seq(MboxUnit) /\ DOMAIN mbox' = 1 .. Len(mbox) - k + 1
        /\ \A i \in 1 .. Len(mbox) - k + 1 : mbox'[i] = mbox[k + i - 1]
    BY <1>1, <1>10, <2>2
  <2>4. ASSUME NEW m \in Texts(mbox), m # first.msg PROVE m \in Texts(mbox')
    <3>1. PICK j \in DOMAIN hdrs : /\ hdrs[j].msg = m /\ mbox[hdrs[j].offset].msg = m
                 /\ mbox[hdrs[j].offset].part = "text" /\ hdrs[j].offset \in DOMAIN mbox
      BY <1>9
    <3>2. j # 1 /\ (j = 2 \/ 2 < j)
      BY <1>4, <1>6, <2>4, <3>1
    <3>3. PICK p \in Nat : p = hdrs[j].offset /\ k <= p /\ p <= Len(mbox)
      BY <1>1, <1>3, <1>6, <1>7, <2>2, <3>1, <3>2 DEF HeadersList, InOrder
    <3>4. p - k + 1 \in 1 .. Len(mbox) - k + 1 /\ k + (p - k + 1) - 1 = p
      BY <2>2, <3>3
    <3>5. p - k + 1 \in DOMAIN mbox' /\ mbox'[p - k + 1] = mbox[p]
      BY <2>3, <3>4
    <3>6. \E i \in DOMAIN mbox' : mbox'[i].part = "text" /\ mbox'[i].msg = m
      BY <3>1, <3>3, <3>5
    <3> QED BY <3>6 DEF Texts
  <2>5. \A m \in 1 .. arrived' : m \in asked' \cup savedmail \cup Texts(mbox')
    BY <1>1, <1>8, <1>10, <2>4
  <2> QED BY <1>1, <1>10, <2>3, <2>5, FileMoves
<1>11. CASE /\ mbox' = SubSeq(mbox, last.offset, last.offset + last.length - 1)
                         \o SubSeq(mbox, 1, last.offset - 1)
            /\ UNCHANGED asked
  <2>1. /\ last.offset \in Nat /\ last.length \in Nat /\ 1 <= last.offset /\ 1 <= last.length
        /\ last.offset + last.length <= Len(mbox) + 1
    BY <1>6, <1>7 DEF OfText
  <2>2. PICK k \in Nat, e \in Nat : /\ k = last.offset /\ e = k + last.length - 1
                                    /\ 1 <= k /\ k <= e /\ e <= Len(mbox)
    BY <1>1, <2>1
  <2>3. PICK s, t : s = SubSeq(mbox, k, e) /\ t = SubSeq(mbox, 1, k - 1)
    OBVIOUS
  <2>4. /\ s \in Seq(MboxUnit) /\ 1 \in DOMAIN s /\ s[1] = mbox[k]
        /\ t \in Seq(MboxUnit) /\ DOMAIN t = 1 .. k - 1
        /\ \A i \in 1 .. k - 1 : t[i] = mbox[i]
    <3>1. PICK u \in Seq(MboxUnit), len \in Nat : u = mbox /\ len = Len(u)
      BY <1>1
    <3>2. k \in 1 .. len /\ e \in 1 .. len /\ k <= e
      BY <2>2, <3>1
    <3>3. SubSeq(u, k, e) \in Seq(MboxUnit) /\ Len(SubSeq(u, k, e)) = e - k + 1
          /\ SubSeq(u, k, e)[1] = u[k]
      BY <3>1, <3>2
    <3>4. SubSeq(u, 1, k - 1) \in Seq(MboxUnit) /\ Len(SubSeq(u, 1, k - 1)) = k - 1
      BY <3>1, <3>2
    <3>5. \A i \in 1 .. k - 1 : SubSeq(u, 1, k - 1)[i] = u[i]
      BY <3>1, <3>2
    <3>6. 1 \in DOMAIN SubSeq(u, k, e) /\ DOMAIN SubSeq(u, 1, k - 1) = 1 .. k - 1
      BY <3>2, <3>3, <3>4
    <3> QED BY <2>3, <3>1, <3>3, <3>4, <3>5, <3>6
  <2>5. /\ mbox' \in Seq(MboxUnit) /\ Texts(s) \subseteq Texts(mbox')
        /\ Texts(t) \subseteq Texts(mbox')
    <3>1. s = SubSeq(mbox, last.offset, last.offset + last.length - 1)
          /\ t = SubSeq(mbox, 1, last.offset - 1)
      BY <2>2, <2>3
    <3>2. mbox' = s \o t
      BY <1>11, <3>1
    <3>3. s \o t \in Seq(MboxUnit)
      BY <2>4
    <3> QED BY <2>4, <3>2, <3>3, TextsJoin
  <2>6. ASSUME NEW m \in Texts(mbox) PROVE m \in Texts(s) \/ m \in Texts(t)
    <3>1. PICK j \in DOMAIN hdrs : /\ hdrs[j].msg = m /\ mbox[hdrs[j].offset].msg = m
                 /\ mbox[hdrs[j].offset].part = "text" /\ hdrs[j].offset \in DOMAIN mbox
      BY <1>9
    <3>2. CASE j = n
      <4>1. s[1].part = "text" /\ s[1].msg = m
        BY <1>6, <2>2, <2>4, <3>1, <3>2
      <4> QED BY <2>4, <4>1, TextsMember
    <3>3. CASE j # n
      <4>1. j < n
        BY <1>4, <1>5, <3>3
      <4>2. hdrs[j].offset < k
        BY <1>3, <1>6, <1>7, <2>2, <4>1 DEF HeadersList, InOrder
      <4>3. PICK p \in 1 .. k - 1 : p = hdrs[j].offset
        BY <1>1, <1>7, <2>2, <3>1, <4>2
      <4>4. p \in DOMAIN t /\ t[p].part = "text" /\ t[p].msg = m
        BY <2>4, <3>1, <4>3
      <4> QED BY <4>4, TextsMember
    <3> QED BY <3>2, <3>3
  <2>7. \A m \in 1 .. arrived' : m \in asked' \cup savedmail \cup Texts(mbox')
    BY <1>1, <1>8, <1>11, <2>5, <2>6
  <2> QED BY <1>1, <1>11, <2>5, <2>7, FileMoves
<1>12. \/ /\ mbox' = SubSeq(mbox, second.offset, Len(mbox))
          /\ asked' = asked \cup {first.msg}
       \/ /\ mbox' = SubSeq(mbox, last.offset, last.offset + last.length - 1)
                       \o SubSeq(mbox, 1, last.offset - 1)
          /\ UNCHANGED asked
  BY <1>2, <1>5, <1>6 DEF OtherProgram
<1> QED BY <1>10, <1>11, <1>12

-----------------------------------------------------------------------------
LEMMA SpoolStarts == ASSUME NullIsNone PROVE Init => SpoolInv
<1> SUFFICES ASSUME Init PROVE SpoolHolds
  BY DEF SpoolInv
<1> USE DEF Init
<1>1. mbox \in Seq(MboxUnit)
  <2>1. Text(1) \in MboxUnit /\ Text(2) \in MboxUnit
    BY DEF Text, MboxUnit
  <2> QED BY <2>1
<1>2. NotOpen \in MboxReader /\ NotOpen.pc = "none"
  <2>1. <<>> \in Seq(MboxHeader) /\ <<>> \in Seq(MboxUnit)
    OBVIOUS
  <2> QED BY <2>1 DEF MboxReader, MboxPlaces, NotOpen
<1>3. SpoolTypes
  BY <1>1, <1>2 DEF SpoolTypes
<1>4. ReadersKnow /\ WritersKeep
  BY <1>2 DEF ReadersKnow, WritersKeep
<1>5. MailIsThere
  <2>1. Exists
    BY <1>1, <1>3, SpoolFile DEF Exists
  <2>2. 1 \in Texts(mbox) /\ 2 \in Texts(mbox)
    BY DEF Texts, Text
  <2> QED BY <2>1, <2>2 DEF MailIsThere, InMailbox
<1> QED BY <1>3, <1>4, <1>5 DEF SpoolHolds

LEMMA SpoolStep == SpoolInv /\ [Next]_mboxvars => SpoolInv'
<1> SUFFICES ASSUME SpoolInv, [Next]_mboxvars, fooled' = {} PROVE SpoolHolds'
  BY DEF SpoolInv
<1>1. CASE UNCHANGED mboxvars
  <2>1. UNCHANGED <<mbox, arrived, flocked, reader, asked, savedmail, fooled>>
    BY <1>1 DEF mboxvars
  <2>2. SpoolHolds
    BY <2>1 DEF SpoolInv
  <2>3. SpoolTypes' /\ ReadersKnow' /\ WritersKeep'
    BY <2>1, <2>2 DEF SpoolHolds, SpoolTypes, ReadersKnow, WritersKeep
  <2>4. (NobodyCopies => MailIsThere)'
    BY <2>1, <2>2 DEF SpoolHolds, NobodyCopies, MailIsThere, InMailbox, Exists
  <2> QED BY <2>3, <2>4 DEF SpoolHolds
<1>2. CASE Deliver \/ OtherProgram
  <2>1. SpoolHolds
    BY <1>2 DEF SpoolInv, Deliver, OtherProgram, Steady
  <2> QED BY <1>2, <2>1, DeliverKeeps, OtherProgramKeeps
<1>3. ASSUME NEW c \in Clients,
             \/ f_create(c) \/ f_set_flag(c) \/ f_check_mailbox(c)
             \/ CloseQuietly(c) \/ SyncStarts(c) \/ CopyUnit(c)
             \/ WriteFails(c) \/ SyncEnds(c) \/ mx_unlink_empty(c)
             \/ Crash(c)
      PROVE  SpoolHolds'
  <2>1. SpoolHolds
    BY <1>3 DEF SpoolInv, f_create, f_set_flag, f_check_mailbox,
                CloseQuietly, SyncStarts, CopyUnit, WriteFails,
                SyncEnds, mx_unlink_empty, Crash, Steady
  <2> QED BY <1>3, <2>1, CreateKeeps, SetFlagKeeps, CheckMailboxKeeps, CloseQuietlyKeeps,
             SyncStartsKeeps, CopyUnitKeeps, StopsKeeps, SyncEndsKeeps, UnlinkKeeps
<1> QED BY <1>1, <1>2, <1>3 DEF Next

LEMMA SpoolShows == SpoolInv => NoMailLost
<1> SUFFICES ASSUME SpoolHolds, NEW m \in 1 .. arrived
             PROVE  m \in asked \cup InMailbox \cup savedmail
                          \cup UNION {Mail(reader[c].temp) : c \in Clients}
  BY DEF SpoolInv, NoMailLost
<1>1. CASE NobodyCopies
  BY <1>1 DEF SpoolHolds, MailIsThere
<1>2. CASE ~NobodyCopies
  <2>1. PICK c \in Clients : reader[c].pc = "copies"
    BY <1>2 DEF NobodyCopies
  <2>2. Writing(reader[c], mbox) /\ MailKept(reader[c], mbox, arrived, asked \cup savedmail)
    BY <2>1, Written
  <2>3. \/ m \in asked \cup savedmail \/ m \in Texts(reader[c].temp)
        \/ TextBefore(mbox, reader[c].first, m)
    BY <2>2 DEF MailKept
  <2>4. m \in Texts(reader[c].temp) => m \in Mail(reader[c].temp)
    BY DEF Texts, Mail
  <2>5. TextBefore(mbox, reader[c].first, m) => m \in InMailbox
    BY <2>2, SpoolFile, BeforeIsIn DEF Writing, SpoolHolds, Exists, InMailbox
  <2> QED BY <2>3, <2>4, <2>5
<1> QED BY <1>1, <1>2

(* Whatever mailboxes, deliveries, other programs, full disks and crashes   *)
(* do to an mbox, a message nobody wanted to delete is in it, in the        *)
(* temporary file of one that writes it back, or in a file that was left    *)
(* behind; unless a mailbox took another file for the one it had read       *)
(* (mbox.c).                                                                *)
THEOREM MboxLosesNoMail == ASSUME NullIsNone PROVE Spec => []NoMailLost
<1> QED BY SpoolStarts, SpoolStep, SpoolShows, PTL DEF Spec
=============================================================================
