----------------------------- MODULE MimeParse -----------------------------
(***************************************************************************)
(* Finding the parts of a message (libmutt/src/parse.c), as Message.create *)
(* of the glue does.  Every line of the file is two characters, its        *)
(* newline included, so that a position is twice a number of lines.  A     *)
(* multipart inside has the boundary "b", which may begin with the "a" of  *)
(* the multipart outside.                                                  *)
(***************************************************************************)
EXTENDS Integers, Sequences, SequencesExt

CONSTANTS
    Blocks,       \* sequences of lines messages are made of
    MaxBlocks     \* bound: blocks of a message

VARIABLES
    mimefile,     \* the kinds of the lines
    prefixed,     \* the boundary "b" begins with "a"
    behind,       \* lines read
    bodies,       \* the BODYs made
    agenda,       \* parts mutt_parse_part is still to look behind
    mimepc,       \* where the parser is
    lastpart,     \* mutt_parse_multipart: the last part so far, 0 for none
    misled        \* a line began like a boundary and was none

mimevars == <<mimefile, prefixed, behind, bodies, agenda, mimepc, lastpart, misled>>

Kinds == {"text", "multi", "message"}
NoBody == [parent |-> 0, hdr |-> 0, offset |-> 0, length |-> 0, type |-> "text",
           bound |-> "a", digest |-> FALSE]
Init ==
    /\ mimefile = <<>> /\ prefixed = FALSE /\ behind = 0 /\ bodies = <<>> /\ agenda = <<>>
    /\ mimepc = "none" /\ lastpart = 0 /\ misled = FALSE

TypeOK ==
    /\ mimepc \in {"none", "part", "multi", "header", "message", "done"}
    /\ behind \in 0..Len(mimefile) /\ lastpart \in 0..Len(bodies)
    /\ \A b \in DOMAIN bodies : /\ bodies[b].parent \in 0..(b - 1) /\ bodies[b].type \in Kinds
                                /\ bodies[b].offset \in Nat /\ bodies[b].length \in Nat
    /\ \A i \in DOMAIN agenda : agenda[i] \in DOMAIN bodies

ftell == 2 * behind
Eof == behind = Len(mimefile)
Line == mimefile[behind + 1]
End(b) == bodies[b].offset + bodies[b].length
NonNegative(n) == IF n < 0 THEN 0 ELSE n

(* Message.create: the content of a header is looked at.                    *)
f_msg_create ==
    /\ mimepc = "none"
    /\ \E n \in 1..MaxBlocks, pre, digest \in BOOLEAN, type \in {"multi", "message"} :
       \E blocks \in [1..n -> Blocks] :
          /\ mimefile' = FlattenSeq(blocks)
          /\ prefixed' = pre
          /\ bodies' = <<[NoBody EXCEPT !.length = 2 * Len(mimefile'), !.type = type,
                                        !.digest = digest /\ type = "multi"]>>
    /\ agenda' = <<1>> /\ mimepc' = "part"
    /\ UNCHANGED <<behind, lastpart, misled>>

mutt_parse_part ==
    /\ mimepc = "part"
    /\ IF agenda = <<>> THEN mimepc' = "done" /\ UNCHANGED <<behind, bodies, agenda>>
       ELSE LET b == Head(agenda) IN
            CASE bodies[b].type = "multi" ->
                    /\ behind' = bodies[b].offset \div 2 /\ mimepc' = "multi"
                    /\ UNCHANGED <<bodies, agenda>>
              [] bodies[b].type = "message" ->
                    /\ behind' = bodies[b].offset \div 2 /\ mimepc' = "message"
                    /\ bodies' = Append(bodies, [NoBody EXCEPT !.parent = b,
                                                   !.hdr = bodies[b].offset])
                    /\ UNCHANGED agenda
              [] OTHER -> agenda' = Tail(agenda) /\ UNCHANGED <<behind, bodies, mimepc>>
    /\ lastpart' = 0
    /\ UNCHANGED <<mimefile, prefixed, misled>>

-----------------------------------------------------------------------------
(* Content-Type: of a header line.                                          *)
mutt_parse_content_type(body, line) ==
    CASE line = "multi" -> [body EXCEPT !.type = "multi", !.bound = "b", !.digest = FALSE]
      [] line = "message" -> [body EXCEPT !.type = "message", !.digest = FALSE]
      [] OTHER -> body
HasColon(line) == line \in {"multi", "message", "field"}
NewBody == Len(bodies)

(* mutt_read_rfc822_header: up to a blank line, or before a line that is no *)
(* field.  The body gets what the message has behind it.                    *)
HeaderEnds == Eof \/ ~HasColon(Line)
WholeLength(parent, offset) == bodies[parent].length
mutt_parse_messageRFC822(parent, offset) ==
    NonNegative(bodies[parent].length - (offset - bodies[parent].offset))
mutt_read_rfc822_header ==
    /\ mimepc = "message"
    /\ IF ~HeaderEnds
       THEN /\ behind' = behind + 1
            /\ bodies' = [bodies EXCEPT ![NewBody] = mutt_parse_content_type(@, Line)]
            /\ UNCHANGED <<agenda, mimepc>>
       ELSE /\ behind' = IF ~Eof /\ Line = "blank" THEN behind + 1 ELSE behind
            /\ bodies' = [bodies EXCEPT ![NewBody].offset = 2 * behind',
                  ![NewBody].length = mutt_parse_messageRFC822(Head(agenda), 2 * behind')]
            /\ agenda' = <<NewBody>> \o Tail(agenda)
            /\ mimepc' = "part"
    /\ UNCHANGED <<mimefile, prefixed, lastpart, misled>>

-----------------------------------------------------------------------------
(* mutt_parse_multipart.  A line that begins with the boundary ends the     *)
(* part before it, whether a boundary or not.                               *)
Beginning(line, bound) ==
    line \in {bound, bound \o "."} \/ (prefixed /\ bound = "a" /\ line \in {"b", "b."})
ClosesAny(line, bound) == line \in {"a.", "b."}
Closes(line, bound) == line = bound \o "."
CutAtLine(b) == NonNegative(2 * (behind + 1) - bodies[b].offset - 1)
Cut(b) == NonNegative(ftell - bodies[b].offset - 1)

(* The loop ended: the last part without an end reaches to the end of the   *)
(* whole; without parts the whole is text.                                  *)
PartsOf(bs, m) == {p \in DOMAIN bs : bs[p].parent = m}
LastLength(bs, m, final) ==
    IF lastpart # 0 /\ bs[lastpart].length = 0 /\ ~final
    THEN [bs EXCEPT ![lastpart].length = End(m) - bs[lastpart].offset] ELSE bs
Demoted(bs, m) == IF PartsOf(bs, m) = {} THEN [bs EXCEPT ![m].type = "text"] ELSE bs
MultipartEnds(bs, final) ==
    LET m == Head(agenda) IN
    /\ bodies' = Demoted(LastLength(bs, m, final), m)
    /\ agenda' = SetToSortSeq(PartsOf(bs, m), <) \o Tail(agenda)
    /\ mimepc' = "part"

mutt_parse_multipart ==
    /\ mimepc = "multi"
    /\ LET m == Head(agenda)
           bound == bodies[m].bound
           ended == IF lastpart = 0 THEN bodies
                    ELSE [bodies EXCEPT ![lastpart].length = Cut(lastpart)]
       IN IF ftell >= End(m) \/ Eof
          THEN MultipartEnds(bodies, FALSE) /\ UNCHANGED <<behind, misled>>
          ELSE /\ behind' = behind + 1
               /\ misled' = (misled \/ (/\ Beginning(Line, bound) /\ Line # bound
                                        /\ Line # bound \o "."))
               /\ CASE ~Beginning(Line, bound) -> UNCHANGED <<bodies, agenda, mimepc>>
                    [] Closes(Line, bound) -> MultipartEnds(ended, TRUE)
                    [] Line = bound ->
                          /\ bodies' = Append(ended, [NoBody EXCEPT !.parent = m,
                                !.hdr = 2 * (behind + 1),
                                !.type = IF bodies[m].digest THEN "message" ELSE "text"])
                          /\ mimepc' = "header" /\ UNCHANGED agenda
                    [] OTHER -> bodies' = ended /\ UNCHANGED <<agenda, mimepc>>
    /\ UNCHANGED <<mimefile, prefixed, lastpart>>

(* mutt_read_mime_header: up to a blank line, or past a line that is no     *)
(* field.  A part that begins behind the end is not one.                    *)
FirstIsLast(new) ==
    IF lastpart = 0 THEN new ELSE lastpart
Latest(new) == new
mutt_read_mime_header ==
    /\ mimepc = "header"
    /\ behind' = IF Eof THEN behind ELSE behind + 1
    /\ IF ~HeaderEnds
       THEN /\ bodies' = [bodies EXCEPT ![NewBody] = mutt_parse_content_type(@, Line)]
            /\ UNCHANGED <<agenda, mimepc, lastpart>>
       ELSE IF 2 * behind' > End(Head(agenda))
       THEN MultipartEnds(Front(bodies), FALSE) /\ UNCHANGED lastpart
       ELSE /\ bodies' = [bodies EXCEPT ![NewBody].offset = 2 * behind']
            /\ lastpart' = Latest(NewBody)
            /\ mimepc' = "multi" /\ UNCHANGED agenda
    /\ UNCHANGED <<mimefile, prefixed, misled>>

Next ==
    \/ f_msg_create \/ mutt_parse_part \/ mutt_read_rfc822_header
    \/ mutt_parse_multipart \/ mutt_read_mime_header

Spec == Init /\ [][Next]_mimevars

-----------------------------------------------------------------------------
Parsed == mimepc \in {"part", "done"}
InMultipart(p) == bodies[p].parent # 0 /\ bodies[bodies[p].parent].type = "multi"
BoundaryAt(k, bound) == k + 1 \in DOMAIN mimefile /\ mimefile[k + 1] \in {bound, bound \o "."}

(* parse.c: a part of a multipart ends before a line of its boundary, or    *)
(* with the multipart, unless some line only began like the boundary.       *)
PartsEndAtBoundaries ==
    Parsed /\ ~misled =>
       \A p \in DOMAIN bodies : InMultipart(p) =>
          \/ End(p) = End(bodies[p].parent)
          \/ \E k \in 0..Len(mimefile) :
                /\ BoundaryAt(k, bodies[bodies[p].parent].bound)
                /\ (End(p) = 2 * k - 1 \/ bodies[p].length = 0)

(* parse.c: what a part holds lies inside what its parent holds, although   *)
(* headers are read without looking at the end.                             *)
PartsWithinParents ==
    Parsed => \A p \in DOMAIN bodies :
       bodies[p].parent # 0 /\ bodies[p].length > 0 =>
          /\ bodies[bodies[p].parent].offset <= bodies[p].offset
          /\ End(p) <= End(bodies[p].parent)

(* parse.c: the parts of a multipart do not overlap.                        *)
SiblingsDisjoint ==
    Parsed => \A p, q \in DOMAIN bodies :
       p < q /\ InMultipart(p) /\ bodies[p].parent = bodies[q].parent =>
          End(p) <= bodies[q].hdr

(* parse.c: every boundary line before the closing one begins a part of the *)
(* outer multipart, unless the header before it took it.                    *)
NoPartMissed ==
    mimepc = "done" /\ bodies[1].type = "multi" =>
       \A k \in DOMAIN mimefile :
          mimefile[k] = "a" /\ (\A j \in 1..k : mimefile[j] # "a.") =>
             \/ \E p \in PartsOf(bodies, 1) :
                   bodies[p].hdr = 2 * k \/ 2 * k \in bodies[p].hdr..bodies[p].offset
             \/ \A j \in (k + 1)..Len(mimefile) : HasColon(mimefile[j])
=============================================================================
