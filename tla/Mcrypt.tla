------------------------------- MODULE Mcrypt -------------------------------
(***************************************************************************)
(* Crypto.mcrypt: one cipher object used by several threads                *)
(* (src/mcrypt/mcrypt.c).  encrypt and decrypt run the cipher without the  *)
(* interpreter lock, so between their two halves other threads may call    *)
(* any function of the object, or destruct it.                             *)
(***************************************************************************)
EXTENDS Integers, FiniteSets

CONSTANTS
    Threads,       \* threads of the interpreter
    IVs,           \* first blocks, random or given
    Null

VARIABLES
    crypt,         \* mcrypt_data
    stream,        \* the library's descriptor: its first block, and whether
                   \* a result told it
    mcall,         \* the unlocked call of each thread
    failed,        \* a cipher call that started a stream reported an error
    undisclosed,   \* how results came to be whose first block nobody was told
    mcfaults

mcryptvars == <<crypt, stream, mcall, failed, undisclosed, mcfaults>>

Functions == {"encrypt", "decrypt", "set_key", "destruct"}
(* `gone': the block buffer was freed; `crossed': what other threads called *)
NoCall == [fn |-> "none", first |-> FALSE, gone |-> FALSE, crossed |-> {}]

(* A buffer is known by the thread whose call allocated it.                 *)
init_mcrypt_data ==
    [td |-> "none", algo |-> FALSE, key |-> FALSE, iv |-> Null, hasiv |-> FALSE,
     inited |-> FALSE, runmode |-> "none", buffer |-> Null]

Init ==
    /\ crypt = init_mcrypt_data
    /\ stream = [iv |-> Null, told |-> FALSE]
    /\ mcall = [t \in Threads |-> NoCall]
    /\ failed = FALSE
    /\ undisclosed = {}
    /\ mcfaults = {}

TypeOK ==
    /\ crypt \in [td : {"none", "open", "destructed"}, algo : BOOLEAN,
                  key : BOOLEAN, iv : IVs \cup {Null}, hasiv : BOOLEAN,
                  inited : BOOLEAN, runmode : {"none", "encrypt", "decrypt"},
                  buffer : Threads \cup {Null}]
    /\ stream \in [iv : IVs \cup {Null}, told : BOOLEAN]
    /\ mcall \in [Threads -> [fn : {"none", "encrypt", "decrypt"}, first : BOOLEAN,
                              gone : BOOLEAN, crossed : SUBSET Functions]]

Runs(t) == mcall[t].fn = "none" /\ mcfaults = {} /\ crypt.td # "destructed"
Fault(what, crossed) ==
    /\ mcfaults' = {[what |-> what, crossed |-> crossed]}
    /\ UNCHANGED <<crypt, stream, mcall, failed, undisclosed>>

(* What thread t does is noted in the calls other threads have under way.   *)
Crossing(fn, freed) ==
    [u \in Threads |->
        IF mcall[u].fn = "none" THEN mcall[u]
        ELSE [mcall[u] EXCEPT !.crossed = @ \cup {fn}, !.gone = @ \/ u \in freed]]
UnderWay(t) == {mcall[u].fn : u \in Threads \ {t}} \ {"none"}

(* A failed create leaves the algorithm set, and create cannot be repeated. *)
create(t) ==
    /\ Runs(t) /\ ~crypt.algo
    /\ \E td \in {"none", "open"}, hasiv \in BOOLEAN :
          crypt' = [crypt EXCEPT !.td = td, !.algo = TRUE, !.hasiv = hasiv]
    /\ UNCHANGED <<stream, mcall, failed, undisclosed, mcfaults>>

(* The key is dropped before the first block is looked at; one that is too  *)
(* short is an error and leaves no key.                                     *)
KeyLoses == [crypt EXCEPT !.inited = FALSE, !.key = FALSE, !.iv = Null]
KeyDropped ==
    [crypt EXCEPT !.inited = FALSE, !.key = FALSE, !.iv = Null,
                  !.runmode = IF crypt.inited THEN "none" ELSE @]
set_key(t) ==
    /\ Runs(t)
    /\ IF crypt.td = "none" THEN Fault("null", {})
       ELSE /\ \/ \E iv \in IVs : crypt' = [KeyDropped EXCEPT !.key = TRUE, !.iv = iv]
               \/ crypt' = KeyDropped
            /\ mcall' = Crossing("set_key", {})
            /\ UNCHANGED <<stream, failed, undisclosed, mcfaults>>

-----------------------------------------------------------------------------
(* generic_init: the library starts a stream from the object's first block. *)
generic_init(c) == [c EXCEPT !.inited = TRUE]
Started(c) == [iv |-> c.iv, told |-> ~c.hasiv]

Begin(t, fn, first, freed) ==
    mcall' = [Crossing(fn, freed) EXCEPT
                 ![t] = [fn |-> fn, first |-> first, gone |-> FALSE,
                         crossed |-> UnderWay(t)]]

(* Data of the wrong length is refused after the stream was started.        *)
encryptRefused(t) ==
    /\ Runs(t)
    /\ IF crypt.key /\ ~crypt.inited
       THEN crypt' = generic_init(crypt) /\ stream' = Started(crypt)
       ELSE UNCHANGED <<crypt, stream>>
    /\ mcall' = Crossing("encrypt", {})
    /\ UNCHANGED <<failed, undisclosed, mcfaults>>

(* encrypt makes a buffer of its own; the one of the call before is never   *)
(* freed.  The first result of a stream tells its first block.              *)
BufferShared == IF crypt.buffer = Null THEN {} ELSE {crypt.buffer}
BufferOfItsOwn == {}
encryptBegins(t) ==
    /\ Runs(t) /\ (crypt.inited \/ crypt.key)
    /\ crypt.runmode # "decrypt"
    /\ LET ready == IF crypt.inited THEN crypt ELSE generic_init(crypt) IN
       /\ crypt' = [ready EXCEPT !.runmode = "encrypt", !.buffer = t]
       /\ stream' = IF crypt.inited THEN stream ELSE Started(crypt)
       /\ Begin(t, "encrypt", crypt.runmode = "none" /\ crypt.hasiv, BufferOfItsOwn)
    /\ UNCHANGED <<failed, undisclosed, mcfaults>>

Returned(t) == [mcall EXCEPT ![t] = NoCall]
Encrypting(t) == mcall[t].fn = "encrypt" /\ mcfaults = {}

encryptEnds(t) ==
    /\ Encrypting(t)
    /\ LET c == mcall[t]
           told == stream.told \/ (c.first /\ crypt.iv = stream.iv) IN
       IF c.gone \/ (c.first /\ crypt.td = "destructed")
       THEN Fault("freed", c.crossed)
       ELSE /\ stream' = [stream EXCEPT !.told = told]
            /\ undisclosed' = IF told THEN undisclosed
                              ELSE undisclosed \cup
                                   {[crossed |-> c.crossed # {}, failed |-> failed]}
            /\ mcall' = Returned(t)
            /\ UNCHANGED <<crypt, failed, mcfaults>>
(* The error keeps the run mode: later results do not tell the first block. *)
encryptFails(t) ==
    /\ Encrypting(t)
    /\ failed' = (failed \/ mcall[t].first)
    /\ mcall' = Returned(t)
    /\ UNCHANGED <<crypt, stream, undisclosed, mcfaults>>

(* decrypt: the first block of the data starts a stream; what was encrypted *)
(* under way goes on in it.  realloc gives the object's buffer away.        *)
decryptBegins(t) ==
    /\ Runs(t)
    /\ IF crypt.td = "none" THEN Fault("null", {})
       ELSE LET fresh == crypt.runmode # "decrypt" IN
            /\ fresh => crypt.key
            /\ \E iv \in IF fresh /\ crypt.hasiv THEN IVs ELSE {crypt.iv} :
                  LET given == [crypt EXCEPT !.iv = iv] IN
                  /\ crypt' = [given EXCEPT !.inited = TRUE, !.runmode = "decrypt",
                                            !.buffer = t]
                  /\ stream' = IF fresh THEN [iv |-> iv, told |-> TRUE] ELSE stream
            /\ Begin(t, "decrypt", FALSE, BufferShared)
            /\ UNCHANGED <<failed, undisclosed, mcfaults>>
(* Without a key the first block is stored and the stream stopped.  Data of *)
(* a first block only frees the buffer and is an error.                     *)
decryptRefused(t) ==
    /\ Runs(t) /\ crypt.td = "open" /\ crypt.runmode # "decrypt" /\ crypt.hasiv
    /\ \E iv \in IVs :
          IF crypt.key
          THEN /\ crypt' = [crypt EXCEPT !.iv = iv, !.inited = TRUE,
                                         !.runmode = "decrypt", !.buffer = Null]
               /\ stream' = [iv |-> iv, told |-> TRUE]
          ELSE /\ crypt' = [crypt EXCEPT !.iv = iv, !.inited = FALSE,
                               !.runmode = IF crypt.inited THEN "none" ELSE @]
               /\ UNCHANGED stream
    /\ mcall' = Crossing("decrypt", IF crypt.key THEN BufferShared ELSE {})
    /\ UNCHANGED <<failed, undisclosed, mcfaults>>
decryptEnds(t) ==
    /\ mcall[t].fn = "decrypt" /\ mcfaults = {}
    /\ IF mcall[t].gone
       THEN Fault("freed", mcall[t].crossed)
       ELSE mcall' = Returned(t) /\ UNCHANGED <<crypt, stream, failed, undisclosed, mcfaults>>

-----------------------------------------------------------------------------
(* Questions to the library, answered from the descriptor.                  *)
Asks(t) ==
    /\ Runs(t)
    /\ IF crypt.td = "none" THEN Fault("null", {}) ELSE UNCHANGED mcryptvars
mode(t) == Asks(t)
algorithm(t) == Asks(t)
block_size(t) == Asks(t)
key_size(t) == Asks(t)
key_sizes(t) == Asks(t)
list_algorithms(t) == Runs(t) /\ UNCHANGED mcryptvars

(* destruct() by a script frees descriptor and buffer under any call.       *)
exit_mcrypt_data(t) ==
    /\ Runs(t)
    /\ crypt' = [init_mcrypt_data EXCEPT !.td = "destructed"]
    /\ mcall' = Crossing("destruct", BufferShared)
    /\ UNCHANGED <<stream, failed, undisclosed, mcfaults>>

Next ==
    \E t \in Threads :
       \/ create(t) \/ set_key(t) \/ exit_mcrypt_data(t)
       \/ encryptRefused(t) \/ encryptBegins(t) \/ encryptEnds(t) \/ encryptFails(t)
       \/ decryptBegins(t) \/ decryptRefused(t) \/ decryptEnds(t)
       \/ mode(t) \/ algorithm(t) \/ block_size(t) \/ key_size(t) \/ key_sizes(t)
       \/ list_algorithms(t)

Spec == Init /\ [][Next]_mcryptvars

-----------------------------------------------------------------------------
(* A call finds its block buffer freed only if a decrypt or a destruct of   *)
(* another thread crossed it: any number of encrypts may overlap.           *)
EncryptsShareNoBuffer ==
    \A f \in mcfaults : f.what = "freed" => f.crossed \cap {"decrypt", "destruct"} # {}

(* Whoever holds the key can decrypt what encrypt returns: the first block  *)
(* of its stream was told by this result or an earlier one, unless calls    *)
(* overlapped or the call that was to tell it failed in the library.        *)
StreamTellsItsFirstBlock == \A u \in undisclosed : u.crossed \/ u.failed
=============================================================================
