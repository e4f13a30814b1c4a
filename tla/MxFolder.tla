------------------------------ MODULE MxFolder ------------------------------
(***************************************************************************)
(* Which driver a path is for, and how a mailbox that is appended to is    *)
(* made when it does not exist (mx_get_magic, mx_open_mailbox_append and   *)
(* mx_open_mailbox in libmutt/src/mx.c).  The file system may refuse any   *)
(* step; the path is looked at by others between the steps.                *)
(***************************************************************************)
EXTENDS Integers, FiniteSets

CONSTANT DefaultMagics   \* values the program may have set with mx_set_magic

VARIABLES
    folderpath,     \* what is at the path: kind, and the names in a directory
    DefaultMagic,   \* the kind of a mailbox to be made
    appender        \* mx_open_mailbox(path, M_APPEND): where it is, its context

mxvars == <<folderpath, DefaultMagic, appender>>

Magics == {"mbox", "mmdf", "mh", "maildir"}
MhMarks == {".mh_sequences", ".xmhcache", ".mew_cache", ".mew-cache", ".overview"}
MaildirNames == {"cur", "new", "tmp"}
Nothing == [kind |-> "nothing", names |-> {}]
Directory(names) == [kind |-> "directory", names |-> names]
File(kind) == [kind |-> kind, names |-> {}]
FileKinds == {"empty", "From", "MMDF_SEP", "text"}
Idle == [pc |-> "idle", magic |-> "none", made |-> {}]
Init ==
    /\ folderpath \in {Nothing, Directory({}), Directory({".overview"}),
                       Directory(MaildirNames), Directory(MaildirNames \cup {".xmhcache"})}
                      \cup {File(k) : k \in FileKinds}
    /\ DefaultMagic \in DefaultMagics
    /\ appender = Idle

TypeOK ==
    /\ folderpath.kind \in {"nothing", "directory"} \cup FileKinds
    /\ folderpath.names \subseteq MaildirNames \cup MhMarks
    /\ DefaultMagic \in Magics
    /\ appender.pc \in {"idle", "mkdir", "cur", "new", "tmp", "sequences", "file",
                        "undo", "open", "failed"}

-----------------------------------------------------------------------------
(* mx_get_magic: a directory with cur is a maildir, one with a mark is MH;  *)
(* an empty file is what is made by default, or an mbox; another file is    *)
(* known by its first line.                                                 *)
Unknown == "unknown"
EmptyIsMbox == "mbox"
EmptyIs == IF DefaultMagic \in {"mbox", "mmdf"} THEN DefaultMagic ELSE "mbox"
mx_get_magic(p) ==
    IF p.kind = "nothing" THEN "error"
    ELSE IF p.kind = "directory"
    THEN IF "cur" \in p.names THEN "maildir"
         ELSE IF p.names \cap MhMarks # {} THEN "mh" ELSE Unknown
    ELSE IF p.kind = "empty" THEN EmptyIs
    ELSE IF p.kind = "From" THEN "mbox"
    ELSE IF p.kind = "MMDF_SEP" THEN "mmdf" ELSE Unknown

At(pc) == appender.pc = pc
Goes(pc) == appender' = [appender EXCEPT !.pc = pc]
Fails == appender' = [appender EXCEPT !.pc = "failed"]

(* mx_open_mailbox_append: an existing mailbox is opened by its kind, a     *)
(* missing one is made with the default kind.                               *)
Opens(magic) == appender' = [appender EXCEPT
    !.magic = magic, !.pc = IF magic \in {"mbox", "mmdf"} THEN "file" ELSE "open"]
mx_open_mailbox_append ==
    /\ At("idle") /\ UNCHANGED <<folderpath, DefaultMagic>>
    /\ LET magic == mx_get_magic(folderpath) IN
       IF folderpath.kind = "nothing"
       THEN IF DefaultMagic \in {"mh", "maildir"}
            THEN appender' = [appender EXCEPT !.magic = DefaultMagic, !.pc = "mkdir"]
            ELSE Opens(DefaultMagic)
       ELSE IF magic \in {Unknown, "error"} THEN Fails ELSE Opens(magic)

Makes(name, next) ==
    /\ folderpath' = Directory(folderpath.names \cup {name})
    /\ appender' = [appender EXCEPT !.made = @ \cup {name}, !.pc = next]
    /\ UNCHANGED DefaultMagic
Undoes == Goes("undo") /\ UNCHANGED <<folderpath, DefaultMagic>>
MakeFolder ==
    /\ At("mkdir")
    /\ \/ /\ folderpath = Nothing /\ folderpath' = Directory({})
          /\ appender' = [appender EXCEPT !.made = {"."}, !.pc =
                 IF appender.magic = "maildir" THEN "cur" ELSE "sequences"]
          /\ UNCHANGED DefaultMagic
       \/ Fails /\ UNCHANGED <<folderpath, DefaultMagic>>
MakeCur == At("cur") /\ (Makes("cur", "new") \/ Undoes)
MakeNew == At("new") /\ (Makes("new", "tmp") \/ Undoes)
MakeTmp == At("tmp") /\ (Makes("tmp", "open") \/ Undoes)
MakeSequences == At("sequences") /\ (Makes(".mh_sequences", "open") \/ Undoes)

(* What was made is removed, the parts before the folder.                   *)
RemovesLast == {"."} \cup (appender.made \cap {"cur"})
Removes == appender.made
Undo ==
    /\ At("undo")
    /\ LET left == folderpath.names \ Removes IN
       folderpath' = IF left = {} THEN Nothing ELSE Directory(left)
    /\ Fails /\ UNCHANGED DefaultMagic

(* An mbox is opened and locked; a missing one is made by opening it.       *)
OpenFile ==
    /\ At("file")
    /\ \/ /\ folderpath' = IF folderpath = Nothing THEN File("empty") ELSE folderpath
          /\ Goes("open") \/ Fails
       \/ Fails /\ UNCHANGED folderpath
    /\ UNCHANGED DefaultMagic

(* mx_set_magic: a name that is not known changes nothing.                  *)
mx_set_magic(magic) ==
    /\ At("idle") /\ DefaultMagic' = magic /\ UNCHANGED <<folderpath, appender>>

(* Another process makes, changes or removes the mailbox before this one    *)
(* has looked; the appender begins anew when it is done.                    *)
Elsewhere ==
    /\ At("idle")
    /\ folderpath' \in {Nothing, Directory({}), File("empty"), File("From")}
    /\ UNCHANGED <<DefaultMagic, appender>>
mx_fastclose_mailbox ==
    /\ appender.pc \in {"open", "failed"}
    /\ appender' = Idle /\ UNCHANGED <<folderpath, DefaultMagic>>

Next ==
    \/ mx_open_mailbox_append \/ MakeFolder \/ MakeCur \/ MakeNew \/ MakeTmp
    \/ MakeSequences \/ Undo \/ OpenFile \/ Elsewhere \/ mx_fastclose_mailbox
    \/ \E magic \in DefaultMagics : mx_set_magic(magic)

Spec == Init /\ [][Next]_mxvars

-----------------------------------------------------------------------------
(* mx.c: a mailbox that was made, or opened, for appending is one that      *)
(* reading it later takes for the same kind.                                *)
OpenedIsRecognised == At("open") => mx_get_magic(folderpath) = appender.magic

(* mx.c: when a folder cannot be made completely, nothing of it is left.    *)
FailureLeavesNothing ==
    At("failed") /\ appender.made # {} => folderpath = Nothing
=============================================================================
