----------------------------- MODULE MailFields -----------------------------
(***************************************************************************)
(* What libmutt reads from the lines of a message: its header fields and   *)
(* its dates.                                                              *)
(***************************************************************************)
EXTENDS Integers, Sequences, FiniteSets, SequencesExt

(***************************************************************************)
(* The header of a message: read into the HEADER and its ENVELOPE          *)
(* (libmutt/src/parse.c), and written again when the message is copied into *)
(* an mbox or another folder (copy.c).  The header is a sequence of what    *)
(* fgets returns: a field, or a piece of one that is longer than the        *)
(* buffer.                                                                  *)
(***************************************************************************)
CONSTANTS
    Fields,       \* fields of the messages
    MaxFields,    \* bound: fields of a message
    MaxCopies     \* bound: times a message is copied

VARIABLES
    pieces,       \* the header of the message, as it is read
    place,        \* pieces read
    envelope,     \* ENVELOPE
    hdrflags,     \* read, old, replied, flagged
    copied,       \* what was written of the copy
    headerpc,
    before,       \* the message as it was before the copy
    copies

headervars == <<pieces, place, envelope, hdrflags, copied, headerpc, before, copies>>

Flags == {"read", "old", "replied", "flagged"}
NoEnvelope == [to |-> <<>>, reply_to |-> <<>>, subject |-> 0, message_id |-> 0]
HeaderInit ==
    /\ pieces = <<>> /\ place = 0 /\ envelope = NoEnvelope /\ hdrflags = {}
    /\ copied = <<>> /\ headerpc = "none" /\ copies = 0
    /\ before = [pieces |-> <<>>, envelope |-> NoEnvelope, hdrflags |-> {}, status |-> TRUE]

HeaderTypeOK ==
    /\ headerpc \in {"none", "reading", "read", "copying"} /\ copies \in 0..MaxCopies
    /\ place \in 0..Len(pieces) /\ hdrflags \subseteq Flags
    /\ \A i \in DOMAIN pieces : pieces[i].field \in Fields \cup {"status", "xstatus", "lines"}

Piece == pieces[place + 1]
AtEnd == place = Len(pieces)
(* A field, or one that needs two pieces: the second looks like a status.   *)
Pieces(field, value) ==
    IF field = "long"
    THEN <<[field |-> "long", value |-> value, whole |-> FALSE, set |-> {}],
           [field |-> "status", value |-> value, whole |-> TRUE, set |-> {"read"}]>>
    ELSE <<[field |-> field, value |-> value, whole |-> TRUE,
            set |-> CASE field = "status" -> {"read", "old"}
                      [] field = "xstatus" -> {"flagged"} [] OTHER -> {}]>>
StartsAlways(i, ps) == TRUE
StartsField(i, ps) == i = 1 \/ ps[i - 1].whole

Arrives ==
    /\ headerpc = "none"
    /\ \E n \in 1..MaxFields : \E fields \in [1..n -> Fields] :
          pieces' = FlattenSeq([i \in 1..n |-> Pieces(fields[i], i)])
    /\ headerpc' = "reading"
    /\ UNCHANGED <<place, envelope, hdrflags, copied, before, copies>>

-----------------------------------------------------------------------------
(* read_rfc822_line joins the pieces of a field.                            *)
read_rfc822_line ==
    IF Piece.whole THEN place + 1
    ELSE CHOOSE i \in (place + 1)..Len(pieces) :
            pieces[i].whole /\ \A j \in (place + 1)..(i - 1) : ~pieces[j].whole
(* mutt_parse_rfc822_line: some fields are taken once, some the last time,  *)
(* addresses are collected.                                                 *)
mutt_parse_rfc822_line(e, p) ==
    CASE p.field = "to" -> [e EXCEPT !.to = Append(@, p.value)]
      [] p.field = "reply-to" -> [e EXCEPT !.reply_to = Append(@, p.value)]
      [] p.field = "mail-reply-to" -> [e EXCEPT !.reply_to = <<p.value>>]
      [] p.field \in {"subject", "long"} /\ e.subject = 0 -> [e EXCEPT !.subject = p.value]
      [] p.field = "message-id" -> [e EXCEPT !.message_id = p.value]
      [] OTHER -> e
(* "O" counts only under OPTMARKOLD, which the glue does not set.           *)
FlagsOf(p) == IF p.field \in {"status", "xstatus"} THEN p.set \ {"old"} ELSE {}
mutt_read_rfc822_header ==
    /\ headerpc = "reading"
    /\ IF AtEnd THEN headerpc' = "read" /\ UNCHANGED <<place, envelope, hdrflags>>
       ELSE /\ place' = read_rfc822_line
            /\ envelope' = mutt_parse_rfc822_line(envelope, Piece)
            /\ hdrflags' = hdrflags \cup FlagsOf(Piece)
            /\ UNCHANGED headerpc
    /\ UNCHANGED <<pieces, copied, before, copies>>

(* The program sets and resets flags.                                       *)
mutt_set_flag(f) ==
    /\ headerpc = "read" /\ copies < MaxCopies
    /\ hdrflags' = IF f \in hdrflags THEN hdrflags \ {f} ELSE hdrflags \cup {f}
    /\ UNCHANGED <<pieces, place, envelope, copied, headerpc, before, copies>>

-----------------------------------------------------------------------------
(* mutt_append_message, or the sync of an mbox: CH_UPDATE writes the status *)
(* anew; a maildir has it in the name of the file.                          *)
mutt_copy_message(updates) ==
    /\ headerpc = "read" /\ copies < MaxCopies
    /\ before' = [pieces |-> pieces, envelope |-> envelope, hdrflags |-> hdrflags,
                  status |-> updates]
    /\ headerpc' = "copying" /\ copied' = <<>> /\ place' = 0 /\ copies' = copies + 1
    /\ UNCHANGED <<pieces, envelope, hdrflags>>

(* mutt_copy_hdr: old status and length fields are left out.  A piece that  *)
(* begins no field goes where its field went.                               *)
LeftOut(p) == p.field \in {"status", "xstatus", "length", "lines"}
Ignored(i) ==
    LET start == CHOOSE s \in 1..i : /\ StartsField(s, pieces)
                                     /\ \A t \in (s + 1)..i : ~StartsField(t, pieces)
    IN LeftOut(pieces[start])
mutt_copy_hdr ==
    /\ headerpc = "copying" /\ ~AtEnd
    /\ copied' = IF Ignored(place + 1) THEN copied ELSE Append(copied, Piece)
    /\ place' = place + 1
    /\ UNCHANGED <<pieces, envelope, hdrflags, headerpc, before, copies>>

Written(field, set) ==
    IF set = {} THEN <<>> ELSE <<[field |-> field, value |-> 0, whole |-> TRUE, set |-> set]>>
OldFirst(flags) == IF "old" \in flags THEN {"old"} ELSE {"read"} \cap flags
StatusOf(flags) == IF "read" \in flags THEN {"read", "old"} ELSE {"old"} \cap flags
StatusFields ==
    IF before.status THEN Written("status", StatusOf(hdrflags))
                          \o Written("xstatus", hdrflags \cap {"replied", "flagged"})
    ELSE <<>>
LengthField == <<[field |-> "length", value |-> 0, whole |-> TRUE, set |-> {}]>>
(* mutt_copy_header; then the copy is read.                                 *)
mutt_copy_header ==
    /\ headerpc = "copying" /\ AtEnd
    /\ pieces' = copied \o StatusFields \o LengthField
    /\ place' = 0 /\ envelope' = NoEnvelope /\ hdrflags' = {} /\ copied' = <<>>
    /\ headerpc' = "reading"
    /\ UNCHANGED <<before, copies>>

HeaderNext ==
    \/ Arrives \/ mutt_read_rfc822_header \/ mutt_copy_hdr \/ mutt_copy_header
    \/ \E f \in Flags : mutt_set_flag(f)
    \/ \E updates \in BOOLEAN : mutt_copy_message(updates)

HeaderSpec == HeaderInit /\ [][HeaderNext]_headervars

-----------------------------------------------------------------------------
(* copy.c, parse.c: the flags of a message survive the copy, all but "old". *)
StatusComesBack ==
    headerpc = "reading" /\ copies > 0 /\ AtEnd /\ before.status =>
       hdrflags = before.hdrflags \ {"old"}

(* copy.c: the other fields survive, in their order, and mean the same.     *)
FieldsSurviveCopy ==
    headerpc = "reading" /\ copies > 0 /\ AtEnd => envelope = before.envelope

(* parse.c: a Mail-Reply-To overrides the Reply-To.                         *)
MailReplyToOverrides ==
    headerpc = "read" =>
       \A i \in DOMAIN pieces : pieces[i].field = "mail-reply-to" =>
          Len(envelope.reply_to) = 1

-----------------------------------------------------------------------------
(***************************************************************************)
(* The times of a message: the Date: field (parse.c) and the separator     *)
(* line of an mbox (from.c, mbox.c), made into seconds since 1970 (date.c).*)
(* The unit here is the minute.  The separator is in local time, which     *)
(* changes its offset at one moment.                                       *)
(***************************************************************************)
CONSTANTS
    DateYears,     \* years that are written, two digits or four
    DateMonths, DateDays, DateHours,
    DateZones,     \* [east, hours, minutes]: what is written for the zone
    Winter, Summer, Change   \* local offsets, in minutes, and when they change

VARIABLES
    token,         \* words of the date that were taken
    written,       \* the date in the message, and how many words of it there are
    tm,            \* struct tm
    zone,          \* offset the date names
    header,        \* HEADER: date_sent and received
    datepc

datevars == <<token, written, tm, zone, header, datepc>>

NoDate == [year |-> 1970, mon |-> 0, mday |-> 1, hour |-> 0]
DateInit ==
    /\ token = 0 /\ written = [words |-> 0, date |-> NoDate, zone |-> 0]
    /\ tm = [year |-> 0, mon |-> 0, mday |-> 0, hour |-> 0]
    /\ zone = 0
    /\ header = [date_sent |-> 0, received |-> 0]
    /\ datepc = "none"

DateTypeOK ==
    /\ token \in 0..5 /\ datepc \in {"none", "separator", "words", "end", "read"}
    /\ tm.year \in Int /\ zone \in Int
    /\ DOMAIN header = {"date_sent", "received"}

Zones == {(IF z.east THEN z.hours * 60 + z.minutes ELSE -(z.hours * 60 + z.minutes)) :
          z \in DateZones}
Dates == [year : DateYears, mon : DateMonths, mday : DateDays, hour : DateHours]

-----------------------------------------------------------------------------
(* mutt_mktime: tm_year counts from 1900.                                   *)
AccumDaysPerMonth == <<0, 31, 59, 90, 120, 151, 181, 212, 243, 273, 304, 334>>
Quotient(a, b) == IF a >= 0 THEN a \div b ELSE -((-a) \div b)
LeapFromJanuary(t) == t.year % 4 # 0
NoLeapDay(t) == t.year % 4 # 0 \/ t.mon < 2
mutt_mktime(t) ==
    LET yday == AccumDaysPerMonth[(t.mon % 12) + 1] + t.mday - (IF NoLeapDay(t) THEN 1 ELSE 0)
    IN ((yday + (t.year - 70) * 365 + Quotient(t.year - 69, 4)) * 24 + t.hour) * 60
(* Two digits, or four.                                                     *)
YearOfDate(y) == IF y < 50 THEN y + 100 ELSE IF y >= 1900 THEN y - 1900 ELSE y

(* mutt_local_tz: the offset at a moment.                                   *)
compute_tz(t) == IF t < Change THEN Winter ELSE Summer

-----------------------------------------------------------------------------
(* The message begins with its separator: the moment it was received in     *)
(* local time.  The parser makes it a moment as if it were not local.       *)
Separators == {Change + d : d \in {-600, -1, 0, 30, 600}}
AsWritten(wall) == wall
ToReceived(wall) == wall - compute_tz(wall)
is_from ==
    /\ datepc = "none"
    /\ \E moment \in Separators :
          header' = [header EXCEPT !.received = ToReceived(moment + compute_tz(moment))]
    /\ datepc' = "separator"
    /\ UNCHANGED <<token, written, tm, zone>>
DateLine ==
    /\ datepc = "separator"
    /\ \E d \in Dates, z \in Zones, n \in 0..5 :
          written' = [words |-> n, date |-> d, zone |-> z]
    /\ datepc' = "words"
    /\ UNCHANGED <<token, tm, zone, header>>

(* mutt_parse_date, word by word; without a time of day there is no date.   *)
Invalid == header' = [header EXCEPT !.date_sent = -1] /\ datepc' = "end"
           /\ UNCHANGED <<token, tm, zone>>
Takes(t, z) == tm' = t /\ zone' = z /\ token' = token + 1 /\ UNCHANGED <<header, datepc>>
OffsetNamed(z) == z
Word ==
    CASE token = 0 -> IF written.date.mday > 31 THEN Invalid
                      ELSE Takes([tm EXCEPT !.mday = written.date.mday], zone)
      [] token = 1 -> IF written.date.mon \notin 0..11 THEN Invalid
                      ELSE Takes([tm EXCEPT !.mon = written.date.mon], zone)
      [] token = 2 -> Takes([tm EXCEPT !.year = YearOfDate(written.date.year)], zone)
      [] token = 3 -> Takes([tm EXCEPT !.hour = written.date.hour], zone)
      [] token = 4 -> Takes(tm, OffsetNamed(written.zone))
ToSent(t, z) == mutt_mktime(t) - z
mutt_parse_date ==
    /\ datepc = "words"
    /\ IF token < written.words THEN Word
       ELSE IF token < 4 THEN Invalid
       ELSE /\ header' = [header EXCEPT !.date_sent = ToSent(tm, zone)]
            /\ datepc' = "end" /\ UNCHANGED <<token, tm, zone>>
    /\ UNCHANGED written
NeverFallsBack(h) == h
FallsBack(h) == IF h.date_sent <= 0 THEN [h EXCEPT !.date_sent = h.received] ELSE h
read_date_field ==
    /\ datepc = "end"
    /\ header' = FallsBack(header)
    /\ datepc' = "read"
    /\ UNCHANGED <<token, written, tm, zone>>

DateNext == is_from \/ DateLine \/ mutt_parse_date \/ read_date_field

DateSpec == DateInit /\ [][DateNext]_datevars

-----------------------------------------------------------------------------
(* The calendar.                                                            *)
Leap(y) == y % 4 = 0 /\ (y % 100 # 0 \/ y % 400 = 0)
DaysIn(y, m) == IF m = 1 /\ Leap(y) THEN 29
                ELSE <<31, 28, 31, 30, 31, 30, 31, 31, 30, 31, 30, 31>>[m + 1]
Calendar(d) ==
    LET leaps == Cardinality({y \in 1970..(d.year - 1) : Leap(y)})
        earlier == AccumDaysPerMonth[d.mon + 1] + (IF d.mon > 1 /\ Leap(d.year) THEN 1 ELSE 0)
    IN (((d.year - 1970) * 365 + leaps + earlier + d.mday - 1) * 24 + d.hour) * 60
Valid(d) == d.year \in 1970..2099 /\ d.mday <= DaysIn(d.year, d.mon)

(* date.c, parse.c: a valid date between 1970 and 2099 is the moment the    *)
(* calendar says, in the zone it names.                                     *)
DatesAreExact ==
    datepc = "read" /\ written.words >= 4 /\ Valid(written.date) =>
       LET offset == IF written.words = 5 THEN written.zone ELSE 0
           moment == Calendar(written.date) - offset
       IN header.date_sent = IF moment > 0 THEN moment ELSE header.received

(* parse.c: a date that was cut off, or lies before 1970, is replaced by    *)
(* the time of the separator: no message is from before 1970.               *)
NothingBefore1970 == datepc = "read" => header.date_sent > 0

(* mbox.c, date.c: the separator gives the moment it was written, unless it *)
(* was written within the offset of the change of the local time.           *)
SeparatorIsExact ==
    datepc # "none" /\ header.received \notin (Change - 120)..(Change + 120) =>
       header.received \in Separators
=============================================================================
