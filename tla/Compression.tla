---------------------------- MODULE Compression -----------------------------
(***************************************************************************)
(* Two wrappers of compression libraries: streams of bzip2 and files of    *)
(* gzip.  They share nothing.                                              *)
(***************************************************************************)
EXTENDS Integers, Sequences

(***************************************************************************)
(* bzip2.deflate and bzip2.inflate (src/bzip2/bz2main.c): both guess the   *)
(* size of the result and double the guess until the library is content.   *)
(* Sizes are unsigned ints, of Width bits here.                            *)
(***************************************************************************)
CONSTANTS
    Width,         \* bits of an unsigned int
    Slack,         \* what the first guess adds, 40 in the source
    MaxResult      \* bound: size of a result

VARIABLES
    bzip,          \* BZSTRUCT of the object, and its class
    bzcall,        \* the call under way: what the result takes, the buffer
    bzlost,        \* buffers never freed, and calls that raised
    bzresult       \* the last result: its size, and what it should be

bzvars == <<bzip, bzcall, bzlost, bzresult>>

Unsigned(n) == n % 2^Width
Idle == [fn |-> "none", needs |-> 0, dlen |-> 0, before |-> 0]

init_deflate == [class |-> "none", blkSize |-> 0]
BzipInit ==
    /\ bzip = init_deflate
    /\ bzcall = Idle
    /\ bzlost = [buffers |-> 0, raised |-> 0]
    /\ bzresult = [size |-> 0, needs |-> 0]

MaxLost == 2
BzipTypeOK ==
    /\ bzip \in [class : {"none", "deflate", "inflate"}, blkSize : -1..10]
    /\ bzcall \in [fn : {"none", "deflate", "inflate"}, needs : 0..MaxResult,
                   dlen : 0..2^Width - 1, before : 0..2^Width - 1]

BzipFree == bzcall.fn = "none" /\ bzlost.raised < MaxLost
NewObject ==
    /\ BzipFree /\ bzip.class = "none"
    /\ \E class \in {"deflate", "inflate"} : bzip' = [init_deflate EXCEPT !.class = class]
    /\ UNCHANGED <<bzcall, bzlost, bzresult>>

(* Any number is a block size: the test asks for one below 0 and above 9.   *)
f_deflate_create ==
    /\ BzipFree /\ bzip.class = "deflate"
    /\ \E size \in {-1, 0, 1, 9, 10} : bzip' = [bzip EXCEPT !.blkSize = size]
    /\ UNCHANGED <<bzcall, bzlost, bzresult>>
f_inflate_create ==
    /\ BzipFree /\ bzip.class = "inflate"
    /\ \E given \in {0, 1} : bzip' = [bzip EXCEPT !.blkSize = given]
    /\ UNCHANGED <<bzcall, bzlost, bzresult>>

(* The first buffer; a string is shorter than half of an unsigned int says. *)
MaxLength == 2^(Width - 1) - 2
Allocates(fn, needs, dlen) ==
    /\ bzcall' = [fn |-> fn, needs |-> needs, dlen |-> dlen, before |-> 0]
    /\ UNCHANGED <<bzip, bzlost, bzresult>>
f_inflate_inflate ==
    /\ BzipFree /\ bzip.class = "inflate"
    /\ \E len \in 1..MaxLength, needs \in 1..MaxResult :
          Allocates("inflate", needs, Unsigned(2 * (len + 1)))
f_deflate_deflate ==
    /\ BzipFree /\ bzip.class = "deflate"
    /\ \E len \in 1..MaxLength, needs \in 1..MaxResult :
          Allocates("deflate", needs, Unsigned(len + 1 + (len + 1) \div 3 + Slack))

-----------------------------------------------------------------------------
(* What the library answers.                                                *)
Calls == bzcall.fn # "none"
Accepts == bzcall.fn = "deflate" => bzip.blkSize \in 1..9

(* BZ_OUTBUFF_FULL: the buffer is freed and one of twice the size taken.    *)
FullAgainAsBefore(c) == [c EXCEPT !.before = c.dlen]
FullAgain(c) == [c EXCEPT !.before = c.dlen, !.dlen = Unsigned(2 * c.dlen)]
NotFreedWhenFull == 1
FreedWhenFull == 0
BZ_OUTBUFF_FULL ==
    /\ Calls /\ Accepts /\ bzcall.needs > bzcall.dlen
    /\ bzcall.dlen # bzcall.before        \* a buffer that cannot grow: for ever
    /\ bzcall' = FullAgain(bzcall)
    /\ bzlost' = [bzlost EXCEPT !.buffers = IF @ < MaxLost THEN @ + FreedWhenFull ELSE @]
    /\ UNCHANGED <<bzip, bzresult>>
(* dlen was given to the library by reference: it is the result's size now. *)
BufferSize(c) == c.dlen
ResultSize(c) == c.needs
BZ_OK ==
    /\ Calls /\ Accepts /\ bzcall.needs <= bzcall.dlen
    /\ bzresult' = [size |-> ResultSize(bzcall), needs |-> bzcall.needs]
    /\ bzcall' = Idle
    /\ UNCHANGED <<bzip, bzlost>>
(* Every other answer raises, with the buffer still allocated.              *)
BZ_ERROR ==
    /\ Calls
    /\ bzlost' = [buffers |-> IF bzlost.buffers < MaxLost THEN bzlost.buffers + 1
                              ELSE MaxLost,
                  raised |-> bzlost.raised + 1]
    /\ bzcall' = Idle
    /\ UNCHANGED <<bzip, bzresult>>

f_deflate_file == BzipFree /\ bzip.class = "deflate" /\ UNCHANGED bzvars
exit_deflate ==
    /\ BzipFree /\ bzip' = init_deflate /\ UNCHANGED <<bzcall, bzlost, bzresult>>

BzipNext ==
    \/ NewObject \/ f_deflate_create \/ f_inflate_create
    \/ f_inflate_inflate \/ f_deflate_deflate \/ f_deflate_file
    \/ BZ_OUTBUFF_FULL \/ BZ_OK \/ BZ_ERROR \/ exit_deflate

BzipSpec == BzipInit /\ [][BzipNext]_bzvars

-----------------------------------------------------------------------------
(* The loop of deflate and inflate ends: every buffer is larger than the    *)
(* one before, as long as the result takes at most half of what an unsigned *)
(* int can say (2 GB).                                                      *)
RetriesGrow ==
    Calls /\ bzcall.needs <= 2^(Width - 1) => bzcall.dlen > bzcall.before

(* The string returned is the result, not the buffer it came in.            *)
ResultIsWhole == bzresult.size = bzresult.needs

(* Buffers are lost only to calls that raise, one to each.                  *)
OnlyErrorsLoseBuffers == bzlost.buffers <= bzlost.raised

-----------------------------------------------------------------------------
(***************************************************************************)
(* Gzip.gzip: a gzip file is uncompressed to a file or into a string       *)
(* (src/Gzip/gzip_main.c).  A file is a sequence of chunks; a file name is *)
(* a string of the script, or Null for a standard stream.                  *)
(***************************************************************************)
CONSTANTS
    GzNames,       \* names: strings of the script
    MaxChunks,     \* bound: chunks of a file
    Null

VARIABLES
    gzip,          \* GZSTRUCT: from and to, pointers to strings
    gznames,       \* strings that exist
    gzcall,        \* the call under way
    written,       \* what it wrote to its output or buffer
    gzkept,        \* what the last call did not release
    gzfaults

gzvars == <<gzip, gznames, gzcall, written, gzkept, gzfaults>>

(* `read': chunks read so far; `in', `out': is the input, the output open?  *)
NoCall == [fn |-> "none", from |-> Null, to |-> Null, read |-> 0,
           in |-> FALSE, out |-> FALSE, stored |-> FALSE]
init_gzip == [from |-> Null, to |-> Null]
GzipInit ==
    /\ gzip = init_gzip
    /\ gznames = GzNames
    /\ gzcall = NoCall
    /\ written = <<>>
    /\ gzkept = {}
    /\ gzfaults = {}

GzipTypeOK ==
    /\ gzip \in [from : GzNames \cup {Null}, to : GzNames \cup {Null}]
    /\ gznames \subseteq GzNames
    /\ gzcall.fn \in {"none", "returned", "uncompress", "getdata"} /\ gzcall.read \in 0..MaxChunks
    /\ written \in Seq(1..MaxChunks)

GzipFree == gzcall.fn \in {"none", "returned"} /\ gzfaults = {}

(* The names are kept without a reference to their strings: once the script *)
(* has dropped one, the pointer leads into freed memory.                    *)
f_gzip_create ==
    /\ GzipFree
    /\ \E from, to \in gznames \cup {Null} :
          /\ to # Null => from # Null
          /\ gzip' = [from |-> from, to |-> to]
    /\ UNCHANGED <<gznames, gzcall, written, gzkept, gzfaults>>
DropName ==
    /\ GzipFree
    /\ \E s \in gznames : gznames' = gznames \ {s}
    /\ UNCHANGED <<gzip, gzcall, written, gzkept, gzfaults>>

Begins(fn, from, to, stored) ==
    /\ gzcall' = [NoCall EXCEPT !.fn = fn, !.from = from, !.to = to, !.stored = stored]
    /\ written' = <<>>
    /\ UNCHANGED <<gzip, gznames, gzkept, gzfaults>>
f_gzip_uncompress ==
    /\ GzipFree
    /\ \/ Begins("uncompress", gzip.from, gzip.to, TRUE)
       \/ \E from, to \in gznames \cup {Null} :
             (to # Null => from # Null) /\ Begins("uncompress", from, to, FALSE)
f_gzip_getdata ==
    /\ GzipFree
    /\ \/ Begins("getdata", gzip.from, Null, TRUE)
       \/ \E from \in gznames \cup {Null} : Begins("getdata", from, Null, FALSE)

-----------------------------------------------------------------------------
InCall(fn) == gzcall.fn = fn /\ gzfaults = {}
Fault(what) == gzfaults' = {what} /\ UNCHANGED <<gzip, gznames, gzcall, written, gzkept>>
Ends(kept) ==
    /\ gzcall' = NoCall
    /\ gzkept' = kept
    /\ UNCHANGED <<gzip, gznames, written, gzfaults>>
(* The files the call holds open.                                           *)
Handles == (IF gzcall.in THEN {"in"} ELSE {}) \cup (IF gzcall.out THEN {"out"} ELSE {})
(* The handle of standard input is never closed.                            *)
Standard == IF gzcall.from = Null THEN {"stdin"} ELSE {}

open_gz ==
    /\ InCall("uncompress") \/ InCall("getdata")
    /\ ~gzcall.in
    /\ IF gzcall.from \notin gznames \cup {Null} THEN Fault("freed")
       ELSE \/ /\ gzcall' = [gzcall EXCEPT !.in = TRUE]
               /\ UNCHANGED <<gzip, gznames, written, gzkept, gzfaults>>
            \/ Ends({})
(* The output is created, truncated and written from its start.             *)
open_output ==
    /\ InCall("uncompress") /\ gzcall.in /\ ~gzcall.out /\ gzcall.read = 0
    /\ IF gzcall.to \notin gznames \cup {Null} THEN Fault("freed")
       ELSE \/ /\ gzcall' = [gzcall EXCEPT !.out = TRUE]
               /\ UNCHANGED <<gzip, gznames, written, gzkept, gzfaults>>
            \/ gzcall.to # Null /\ Ends(Handles)

Reading == gzcall.in /\ gzfaults = {} /\ (gzcall.fn = "uncompress" => gzcall.out)
(* A chunk is read and written.  A short write or none closes both files.   *)
ShortIsWritten(n) == n >= 0
AllWritten(n) == n = 1
read_gz_chunk ==
    /\ Reading /\ gzcall.read < MaxChunks
    /\ \E wlen \in {-1, 0, 1} :
          /\ gzcall.fn = "getdata" => wlen = 1
          /\ IF AllWritten(wlen)
             THEN /\ gzcall' = [gzcall EXCEPT !.read = @ + 1]
                  /\ written' = IF wlen = 1 THEN Append(written, gzcall.read + 1)
                                ELSE written
                  /\ UNCHANGED <<gzip, gznames, gzkept, gzfaults>>
             ELSE Ends(Standard)
(* After a failed read the error is asked of the handle just closed; what   *)
(* getdata has read stays allocated.                                        *)
ReadFails ==
    /\ Reading
    /\ IF gzcall.from # Null THEN Fault("closed")
       ELSE Ends(Standard \cup IF gzcall.fn = "getdata" /\ gzcall.read > 0
                               THEN {"buffer"} ELSE {})

(* At the end both files are closed, unless they are standard streams.      *)
ForgetsInput == {"in"}
ClosesBoth == {}
Finishes ==
    /\ Reading
    /\ gzcall' = [NoCall EXCEPT !.fn = "returned", !.read = gzcall.read]
    /\ gzkept' = Standard \cup ClosesBoth
    /\ UNCHANGED <<gzip, gznames, written, gzfaults>>
CloseFails ==
    /\ Reading
    /\ \/ gzcall.from # Null
          /\ Ends(IF gzcall.to # Null THEN {"out"}
                  ELSE IF gzcall.fn = "getdata" /\ gzcall.read > 0 THEN {"buffer"} ELSE {})
       \/ gzcall.to # Null /\ Ends(Standard)

GzipNext ==
    \/ f_gzip_create \/ DropName \/ f_gzip_uncompress \/ f_gzip_getdata
    \/ open_gz \/ open_output \/ read_gz_chunk \/ ReadFails \/ Finishes \/ CloseFails

GzipSpec == GzipInit /\ [][GzipNext]_gzvars

-----------------------------------------------------------------------------
(* A call that returns has written every chunk it read, in order: a write   *)
(* that fails or falls short is never passed over.                          *)
OutputIsWhole ==
    gzcall.fn = "returned" => written = [i \in 1..gzcall.read |-> i]

(* A call that returns leaves no file open but standard input; calls that   *)
(* raise may.                                                               *)
ReturnsReleaseFiles == gzcall.fn = "returned" => gzkept \subseteq {"stdin"}
=============================================================================
