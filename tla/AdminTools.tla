----------------------------- MODULE AdminTools -----------------------------
(***************************************************************************)
(* The classes of the module AdminTools, which share nothing: directories, *)
(* the shadow password file, quotas, the system and PAM.  Each has its own *)
(* state, specification and properties.                                    *)
(***************************************************************************)
EXTENDS Integers, FiniteSets, Sequences, SequencesExt

(***************************************************************************)
(* AdminTools.Directory: directory streams of the C library                *)
(* (src/AdminTools/at_directory.c).  An entry is its place in a directory; *)
(* the entry last read lies in a buffer of its stream.                     *)
(***************************************************************************)
CONSTANTS
    DirObjects,    \* Directory objects
    MaxStreams,    \* bound: streams ever opened
    MaxDirEntries     \* bound: entries of a directory

VARIABLES
    dirobj,        \* dir_struct of each object
    streams,       \* streams made, closed, forgotten by create; their places
    nameuses,      \* references to the strings of the entry's fields
    dirfaults

dirvars == <<dirobj, streams, nameuses, dirfaults>>

(* `dir': the stream, 0 for NULL; `dent': where the last entry was read, or *)
(* 0 for NULL, and which entry it is.                                       *)
init_directory == [alive |-> FALSE, dir |-> 0, dent |-> 0, entry |-> 0]
DirectoryInit ==
    /\ dirobj = [d \in DirObjects |-> init_directory]
    /\ streams = [made |-> 0, closed |-> {}, forgotten |-> {},
                  at |-> [s \in 1..MaxStreams |-> 0]]
    /\ nameuses = 1
    /\ dirfaults = {}

DirectoryTypeOK ==
    /\ dirobj \in [DirObjects -> [alive : BOOLEAN, dir : 0..MaxStreams,
                                  dent : 0..MaxStreams, entry : 0..MaxDirEntries]]
    /\ streams \in [made : 0..MaxStreams, closed : SUBSET (1..MaxStreams),
                    forgotten : SUBSET (1..MaxStreams),
                    at : [1..MaxStreams -> 0..MaxDirEntries]]

Method(d) == dirobj[d].alive /\ dirfaults = {}
DirectoryFault(what, d) ==
    /\ dirfaults' = {[what |-> what, obj |-> d]}
    /\ UNCHANGED <<dirobj, streams, nameuses>>
Raises == UNCHANGED dirvars
Open(s) == s \in 1..streams.made \ streams.closed

DirectoryOpened == [streams EXCEPT !.made = @ + 1]
Forgets(d) == {dirobj[d].dir} \ {0}
(* create, with or without a directory; a second create forgets the first   *)
(* stream.                                                                  *)
f_dir_create(d) ==
    /\ dirfaults = {}
    /\ \/ /\ streams.made < MaxStreams
          /\ streams' = [DirectoryOpened EXCEPT !.forgotten = @ \cup Forgets(d)]
          /\ dirobj' = [dirobj EXCEPT ![d].alive = TRUE, ![d].dir = streams.made + 1]
       \/ /\ dirobj' = [dirobj EXCEPT ![d].alive = TRUE, ![d].dir = 0]
          /\ streams' = [streams EXCEPT !.forgotten = @ \cup Forgets(d)]
    /\ UNCHANGED <<nameuses, dirfaults>>

(* A stream may be opened only while the object has none; close leaves the  *)
(* pointer as it is, so an object is opened once after its create.          *)
MayAlwaysOpen(d) == TRUE
MayOpen(d) == dirobj[d].dir = 0
f_opendir(d) ==
    /\ Method(d)
    /\ IF ~MayOpen(d) THEN Raises
       ELSE /\ \/ /\ streams.made < MaxStreams
                  /\ streams' = DirectoryOpened
                  /\ dirobj' = [dirobj EXCEPT ![d].dir = streams.made + 1]
               \/ dirobj' = [dirobj EXCEPT ![d].dir = 0] /\ UNCHANGED streams
            /\ UNCHANGED <<nameuses, dirfaults>>

f_closedir(d) ==
    /\ Method(d)
    /\ IF dirobj[d].dir = 0 THEN Raises
       ELSE IF ~Open(dirobj[d].dir) THEN DirectoryFault("closed", d)
       ELSE /\ streams' = [streams EXCEPT !.closed = @ \cup {dirobj[d].dir}]
            /\ UNCHANGED <<dirobj, nameuses, dirfaults>>

-----------------------------------------------------------------------------
(* Reading moves the stream; at its end the entry is NULL.                  *)
do_readdir(d) ==
    LET s == dirobj[d].dir
        more == streams.at[s] < MaxDirEntries IN
    /\ dirobj' = [dirobj EXCEPT ![d].dent = IF more THEN s ELSE 0,
                                ![d].entry = IF more THEN streams.at[s] + 1 ELSE 0]
    /\ streams' = [streams EXCEPT !.at[s] = IF more THEN @ + 1 ELSE @]
    /\ UNCHANGED <<nameuses, dirfaults>>
f_readdir(d) ==
    /\ Method(d)
    /\ IF dirobj[d].dir = 0 THEN Raises
       ELSE IF ~Open(dirobj[d].dir) THEN DirectoryFault("closed", d)
       ELSE do_readdir(d)

Moves(d, place) ==
    /\ streams' = [streams EXCEPT !.at[dirobj[d].dir] = place]
    /\ UNCHANGED <<dirobj, nameuses, dirfaults>>
f_rewinddir(d) ==
    /\ Method(d)
    /\ IF dirobj[d].dir = 0 THEN Raises
       ELSE IF ~Open(dirobj[d].dir) THEN DirectoryFault("closed", d) ELSE Moves(d, 0)
f_seekdir(d) ==
    /\ Method(d)
    /\ IF dirobj[d].dir = 0 THEN Raises
       ELSE IF ~Open(dirobj[d].dir) THEN DirectoryFault("closed", d)
       ELSE \E place \in 0..MaxDirEntries : Moves(d, place)
f_telldir(d) ==
    /\ Method(d)
    /\ IF dirobj[d].dir # 0 /\ ~Open(dirobj[d].dir) THEN DirectoryFault("closed", d) ELSE Raises

(* A field of the current entry; without one an entry is read first, and    *)
(* not looked at if there was none.  The names of the fields are compared   *)
(* by address.                                                              *)
Unread(d) == FALSE
ReadFirst(d) == dirobj[d].dent = 0
f_dir_index(d) ==
    /\ Method(d)
    /\ IF dirobj[d].dir = 0 THEN Raises
       ELSE IF nameuses = 0 THEN DirectoryFault("names", d)
       ELSE IF ReadFirst(d)
       THEN IF ~Open(dirobj[d].dir) THEN DirectoryFault("closed", d)
            ELSE IF streams.at[dirobj[d].dir] = MaxDirEntries THEN DirectoryFault("end", d)
            ELSE do_readdir(d)
       ELSE IF dirobj[d].dent = 0 THEN DirectoryFault("unread", d)
       ELSE IF ~Open(dirobj[d].dent) THEN DirectoryFault("closed", d)
       ELSE Raises

(* Destruction closes the stream, also one the script closed, and gives up  *)
(* a reference to the names that the program took once for all objects.     *)
exit_directory(d) ==
    /\ Method(d)
    /\ IF dirobj[d].dir # 0 /\ ~Open(dirobj[d].dir) THEN DirectoryFault("closed", d)
       ELSE IF nameuses = 0 THEN DirectoryFault("names", d)
       ELSE /\ streams' = IF dirobj[d].dir = 0 THEN streams
                          ELSE [streams EXCEPT !.closed = @ \cup {dirobj[d].dir}]
            /\ dirobj' = [dirobj EXCEPT ![d] = init_directory]
            /\ nameuses' = nameuses - 1
            /\ UNCHANGED <<dirfaults>>

DirectoryNext ==
    \E d \in DirObjects :
       \/ f_dir_create(d) \/ f_opendir(d) \/ f_closedir(d) \/ f_readdir(d)
       \/ f_rewinddir(d) \/ f_seekdir(d) \/ f_telldir(d) \/ f_dir_index(d)
       \/ exit_directory(d)

DirectorySpec == DirectoryInit /\ [][DirectoryNext]_dirvars

-----------------------------------------------------------------------------
(* The fields are never asked of an entry that was not read, unless the     *)
(* directory has ended.                                                     *)
FieldsAreOfAnEntry == \A f \in dirfaults : f.what # "unread"

(* at_directory.c: a stream that is open belongs to an object, but for      *)
(* those that a second create forgot; open and destruction lose none.       *)
OpenStreamsAreOwned ==
    \A s \in 1..streams.made \ (streams.closed \cup streams.forgotten) :
       \E d \in DirObjects : dirobj[d].alive /\ dirobj[d].dir = s

-----------------------------------------------------------------------------
(***************************************************************************)
(* AdminTools.Shadow: iteration of the shadow password file                *)
(* (src/AdminTools/at_shadow.c).  The C library keeps one place in the     *)
(* file for the process; every object keeps a flag of its own.             *)
(***************************************************************************)
CONSTANTS
    ShadowObjects,   \* Shadow objects
    MaxSpents        \* bound: entries of the file

VARIABLES
    shadowobj,       \* db_opened of each object
    spent,           \* entries of the file that the library has read
    spentuse,        \* what each object was told since it opened the file
    allspents        \* entries getallspents told last

shadowvars == <<shadowobj, spent, spentuse, allspents>>

(* `last': the entry an object was told last since it opened the file;      *)
(* `alone': no other object moved the place since then.                     *)
init_shadow == [db_opened |-> FALSE]
Unmoved == [last |-> 0, alone |-> TRUE, inorder |-> TRUE]
ShadowInit ==
    /\ shadowobj = [o \in ShadowObjects |-> init_shadow]
    /\ spent = 0
    /\ spentuse = [o \in ShadowObjects |-> Unmoved]
    /\ allspents = MaxSpents

End == MaxSpents + 1
ShadowTypeOK ==
    /\ shadowobj \in [ShadowObjects -> [db_opened : BOOLEAN]]
    /\ spent \in 0..MaxSpents
    /\ spentuse \in [ShadowObjects -> [last : 0..End, alone : BOOLEAN, inorder : BOOLEAN]]
    /\ allspents \in 0..MaxSpents

(* A move of the place by o: the others are not alone with it.              *)
Moved(o, use) == [x \in ShadowObjects |-> IF x = o THEN use
                                          ELSE [spentuse[x] EXCEPT !.alone = FALSE]]
ShadowOpened(o) == [shadowobj EXCEPT ![o].db_opened = TRUE]

(* setspent does nothing for an object that has the file open.              *)
f_setspent(o) ==
    /\ ~shadowobj[o].db_opened
    /\ shadowobj' = ShadowOpened(o)
    /\ spent' = 0
    /\ spentuse' = Moved(o, Unmoved)
    /\ UNCHANGED allspents
f_endspent(o) ==
    /\ shadowobj[o].db_opened
    /\ shadowobj' = [shadowobj EXCEPT ![o].db_opened = FALSE]
    /\ spent' = 0
    /\ spentuse' = Moved(o, Unmoved)
    /\ UNCHANGED allspents

(* The next entry, or 0 behind the last; the file is opened at need.        *)
OpensAlways(o) == TRUE
OpensFirst(o) == ~shadowobj[o].db_opened
Behind(place) == IF place < End THEN place + 1 ELSE End
f_getspent(o) ==
    LET place == IF OpensFirst(o) THEN 0 ELSE spent
        use == IF shadowobj[o].db_opened THEN spentuse[o] ELSE Unmoved IN
    /\ shadowobj' = ShadowOpened(o)
    /\ spent' = IF place < MaxSpents THEN place + 1 ELSE place
    /\ spentuse' = Moved(o, [use EXCEPT !.last = Behind(place),
                                       !.inorder = Behind(place) = Behind(use.last)])
    /\ UNCHANGED allspents

(* One entry by name does not move the place.                               *)
f_getspnam(o) == UNCHANGED shadowvars

(* All entries: the file is closed if this object has it open, opened and   *)
(* read to its end; it stays open.                                          *)
NoEnd(o) == FALSE
EndsFirst(o) == shadowobj[o].db_opened
f_getallspents(o) ==
    LET place == IF EndsFirst(o) \/ ~shadowobj[o].db_opened THEN 0 ELSE spent IN
    /\ allspents' = MaxSpents - place
    /\ shadowobj' = ShadowOpened(o)
    /\ spent' = MaxSpents
    /\ spentuse' = Moved(o, [Unmoved EXCEPT !.last = End])

(* Destruction leaves the file as it is; a new object starts afresh.        *)
exit_shadow(o) ==
    /\ shadowobj' = [shadowobj EXCEPT ![o] = init_shadow]
    /\ spentuse' = [spentuse EXCEPT ![o] = Unmoved]
    /\ UNCHANGED <<spent, allspents>>

ShadowNext ==
    \E o \in ShadowObjects :
       \/ f_setspent(o) \/ f_endspent(o) \/ f_getspent(o) \/ f_getspnam(o)
       \/ f_getallspents(o) \/ exit_shadow(o)

ShadowSpec == ShadowInit /\ [][ShadowNext]_shadowvars

-----------------------------------------------------------------------------
(* at_shadow.c: an object whose iteration no other object crossed is told   *)
(* the entries in their order, each once, and then that there are no more.  *)
EntriesComeInOrder ==
    \A o \in ShadowObjects :
       spentuse[o].alone => spentuse[o].inorder

(* at_shadow.c: getallspents tells all entries, wherever this or another    *)
(* object left the place.                                                   *)
AllSpentsAreAll == allspents = MaxSpents

-----------------------------------------------------------------------------
(***************************************************************************)
(* AdminTools.Quota: turning quotas on and off and asking for them         *)
(* (src/AdminTools/at_quota.c).  A device is a sequence of name parts, so  *)
(* that one name may begin another; the table of mounts is one sequence.   *)
(***************************************************************************)
CONSTANTS
    Mounts,       \* tables of mounts there may be: sequences of Mount
    Devices       \* names a script asks for

VARIABLES
    mounts,       \* /etc/mtab: sequence of [fsname, type, opts]
    quotas,       \* kinds of quota on, for each device, and their file
    quotaanswer,  \* of the last call: what came of it and what was asked
    quotastack    \* values of the caller and of the call on the stack

quotavars == <<mounts, quotas, quotaanswer, quotastack>>

Kinds == {"user", "group"}
Off == <<>>
Names == UNION {{t[i].fsname : i \in DOMAIN t} : t \in Mounts}
QuotaFiles == {Off} \cup ({"own", "default"} \X Names)
NoAnswer == [call |-> "none", dev |-> <<>>, which |-> {}, raised |-> FALSE]
QuotaInit ==
    /\ mounts = <<>>
    /\ quotas = [d \in Devices |-> [k \in Kinds |-> Off]]
    /\ quotaanswer = NoAnswer
    /\ quotastack = <<"caller">>

QuotaTypeOK ==
    /\ mounts \in Mounts \cup {<<>>}
    /\ quotas \in [Devices -> [Kinds -> QuotaFiles]]
    /\ quotaanswer \in [call : {"none", "on", "off", "get"}, dev : Devices \cup {<<>>},
                   which : SUBSET Kinds, raised : BOOLEAN]

-----------------------------------------------------------------------------
(* The check of the type of the file system is negated for ext2 only, and   *)
(* the others after it refuse: ext2 alone passes.                           *)
CORRECT_FSTYPE(m) == m.type = "ext2"
(* A kind has quota if its option is set, or for the user the plain one;    *)
(* the option may name the file.                                            *)
Options(kind) == IF kind = "user" THEN {"user", "quota"} ELSE {"group"}
hasquota(m, kind) ==
    CORRECT_FSTYPE(m) /\ \E o \in Options(kind) : o \in DOMAIN m.opts
NamesFile(m, kind) ==
    LET o == IF kind \in DOMAIN m.opts THEN kind ELSE "quota" IN m.opts[o]
qfullname(m, kind) ==
    <<IF NamesFile(m, kind) THEN "own" ELSE "default", m.fsname>>

(* The first mount whose name begins the name asked for.                    *)
MatchesAsked(m, dev) == IsPrefix(dev, m.fsname)
Matches(m, dev) == IsPrefix(m.fsname, dev)
Mounted(dev) == {i \in DOMAIN mounts : Matches(mounts[i], dev)}
is_mounted(dev) == mounts[CHOOSE i \in Mounted(dev) : \A j \in Mounted(dev) : i <= j]

(* A call that raises leaves its arguments to be popped by the interpreter. *)
Called(call, dev, which, raised) ==
    quotaanswer' = [call |-> call, dev |-> dev, which |-> which, raised |-> raised]

(* The kernel is asked for the user's kind first; it may refuse.            *)
quotactl(cmd, dev, kind, ok) ==
    IF ~ok THEN quotas[dev][kind]
    ELSE IF cmd = "off" THEN Off ELSE qfullname(is_mounted(dev), kind)
UserUnsupported(dev, which) == "user" \in which /\ ~hasquota(is_mounted(dev), "user")
GroupForgotten(dev, which) == FALSE
GroupUnsupported(dev, which) == "group" \in which /\ ~hasquota(is_mounted(dev), "group")
Asked(dev, which) == {k \in which : hasquota(is_mounted(dev), k)}
(* A kind that is not supported is passed over and raises an error when the *)
(* other is done; one the kernel refuses raises at once.                    *)
quota_onoff(cmd, dev, which) ==
    /\ quotastack = <<"caller">> /\ UNCHANGED <<mounts, quotastack>>
    /\ IF Mounted(dev) = {} THEN Called(cmd, dev, which, TRUE) /\ UNCHANGED quotas
       ELSE \E granted \in SUBSET Asked(dev, which) :
          LET refused == Asked(dev, which) \ granted
              done == IF "user" \in refused THEN {} ELSE granted IN
          /\ quotas' = [quotas EXCEPT ![dev] =
                          [k \in Kinds |-> quotactl(cmd, dev, k, k \in done)]]
          /\ Called(cmd, dev, which, refused # {} \/ UserUnsupported(dev, which)
                                     \/ GroupUnsupported(dev, which))
f_quotaon(dev, which) == quota_onoff("on", dev, which)
f_quotaoff(dev, which) == quota_onoff("off", dev, which)

(* get pushes a value for each kind, 0 for one that was not asked for or    *)
(* that the kernel has none of, and makes an array of the two on top.       *)
push_dqblk(kind) == <<kind>>
NotAskedForgotten == <<>>
NotAsked == <<"0">>
Values(kind, which, has) ==
    IF kind \notin which THEN NotAsked ELSE IF has THEN push_dqblk(kind) ELSE <<"0">>
Popped(stack, n) == SubSeq(stack, 1, Len(stack) - n)
f_getquota(dev, which) ==
    /\ quotastack = <<"caller">> /\ UNCHANGED <<mounts, quotas>>
    /\ IF Mounted(dev) = {} THEN Called("get", dev, which, TRUE) /\ quotastack' = <<"caller">>
       ELSE \E has \in SUBSET Kinds, refused \in BOOLEAN :
          LET pushed == <<"caller", "dev">> \o Values("user", which, "user" \in has)
                        \o Values("group", which, "group" \in has)
              array == SubSeq(pushed, Len(pushed) - 1, Len(pushed)) IN
          /\ Called("get", dev, which, refused)
          /\ quotastack' = IF refused THEN <<"caller">>
                           ELSE Append(Popped(Popped(pushed, 2), 1), array)

(* Someone else mounts and unmounts.                                        *)
Remount == mounts' \in Mounts \ {mounts} /\ UNCHANGED <<quotas, quotaanswer, quotastack>>
(* The caller takes the answer of get.                                      *)
Takes ==
    /\ quotastack # <<"caller">> /\ quotastack' = <<"caller">>
    /\ UNCHANGED <<mounts, quotas, quotaanswer>>

QuotaNext ==
    \/ \E dev \in Devices, which \in SUBSET Kinds \ {{}} :
          f_quotaon(dev, which) \/ f_quotaoff(dev, which) \/ f_getquota(dev, which)
    \/ Remount \/ Takes

QuotaSpec == QuotaInit /\ [][QuotaNext]_quotavars

-----------------------------------------------------------------------------
(* at_quota.c: when on or off returns without an error, the quotas of all   *)
(* kinds asked for are on, or off.                                          *)
NoErrorMeansAll ==
    quotaanswer.call \in {"on", "off"} /\ ~quotaanswer.raised =>
       \A k \in quotaanswer.which :
          (quotas[quotaanswer.dev][k] = Off) = (quotaanswer.call = "off")

(* at_quota.c: the quota file of a device is one of its own mount, or of a  *)
(* mount whose name begins the name of the device.                          *)
FilesAreOfTheirDevice ==
    \A d \in Devices, k \in Kinds :
       quotas[d][k] # <<>> => IsPrefix(quotas[d][k][2], d)

(* at_quota.c: get leaves one value on the stack, the pair of the user's    *)
(* quota and the group's, and the stack of its caller below it.             *)
GetAnswersAPair ==
    \/ quotastack = <<"caller">>
    \/ /\ Len(quotastack) = 2 /\ quotastack[1] = "caller"
       /\ Len(quotastack[2]) = 2
       /\ quotastack[2][1] \in {"user", "0"} /\ quotastack[2][2] \in {"group", "0"}

-----------------------------------------------------------------------------
(***************************************************************************)
(* The class System of AdminTools (at_system.c): links, and temporary      *)
(* files, which come as an object with the name and the descriptor of a    *)
(* file that is new.  The object has no destructor, and name() hands out   *)
(* the only reference to the name it holds.                                *)
(***************************************************************************)
CONSTANTS
    FileNames,    \* names of files and directories
    MaxTemps      \* bound: temporary files made

VARIABLES
    names,        \* what is at each name: an inode, another name, or nothing
    sizes,        \* of each inode, is it empty; a new file is written to at once
    temps,        \* MKSTEMP_STORAGE of each temporary file, and its name's references
    sysanswer,    \* the last call and what it returned
    sysfaults

sysvars == <<names, sizes, temps, sysanswer, sysfaults>>

Nothing == [kind |-> "nothing", at |-> "nowhere"]
File(i) == [kind |-> "file", at |-> i]
Directory == [kind |-> "directory", at |-> "nowhere"]
Symlink(n) == [kind |-> "symlink", at |-> n]
Inodes == 0 .. MaxTemps
NoTemp == [made |-> FALSE, fname |-> "none", fd |-> 0, refs |-> 0, asked |-> 0, held |-> 0]
Temps == 1 .. MaxTemps

(* One file has a name, the other names are free.                           *)
SystemInit ==
    /\ names = [n \in FileNames |-> IF n = CHOOSE m \in FileNames : TRUE THEN File(0) ELSE Nothing]
    /\ sizes = [i \in Inodes |-> "data"]
    /\ temps = [t \in Temps |-> NoTemp]
    /\ sysanswer = [call |-> "none", ret |-> 0] /\ sysfaults = {}

SystemTypeOK ==
    /\ \A n \in FileNames : names[n] \in {Nothing, Directory} \/ names[n].at \in Inodes \cup FileNames
    /\ sizes \in [Inodes -> {"data", "empty"}]
    /\ \A t \in Temps : temps[t].refs \in 0 .. 1 /\ temps[t].held \in 0 .. 2
    /\ sysanswer.ret \in {0, -1}

Works == sysfaults = {}
Says(what, ret) == sysanswer' = [call |-> what, ret |-> ret]
SystemFault(t) == sysfaults' = {t}

-----------------------------------------------------------------------------
(* A hard link needs a file to link, a symbolic one only a free name; a     *)
(* directory is not linked and not unlinked.                                *)
MayLink(from, to, symbolic) ==
    /\ names[to] = Nothing
    /\ ~symbolic => names[from] \notin {Nothing, Directory}
f_ln(from, to, symbolic) ==
    /\ Works /\ UNCHANGED <<sizes, temps, sysfaults>>
    /\ IF MayLink(from, to, symbolic)
       THEN /\ names' = [names EXCEPT ![to] = IF symbolic THEN Symlink(from) ELSE names[from]]
            /\ Says("ln", 0)
       ELSE Says("ln", -1) /\ UNCHANGED names
f_unlink(n) ==
    /\ Works
    /\ names' = IF names[n] = Directory THEN names ELSE [names EXCEPT ![n] = Nothing]
    /\ Says("unlink", IF names[n] \in {Nothing, Directory} THEN -1 ELSE 0)
    /\ UNCHANGED <<sizes, temps, sysfaults>>

(* mkstemp finds a name that nothing has; the copy of the template is freed *)
(* but when it raises.  The object takes a reference to the name.           *)
f_temp_create(t, n) ==
    temps' = [temps EXCEPT ![t] = [NoTemp EXCEPT !.made = TRUE, !.fname = n, !.fd = t, !.refs = 1]]
Unused(n) == names[n] = Nothing
f_mkstemp(t) ==
    /\ Works /\ ~temps[t].made /\ (t > 1 => temps[t - 1].made)
    /\ UNCHANGED sysfaults
    /\ \/ \E n \in FileNames :
              /\ Unused(n) /\ names' = [names EXCEPT ![n] = File(t)]
              /\ f_temp_create(t, n)
              /\ Says("mkstemp", 0) /\ UNCHANGED sizes
       \/ Says("mkstemp", -1) /\ UNCHANGED <<names, sizes, temps>>
f_mkdtemp ==
    /\ Works /\ UNCHANGED <<sizes, temps, sysfaults>>
    /\ \E n \in FileNames :
           /\ Unused(n) /\ names' = [names EXCEPT ![n] = Directory] /\ Says("mkdtemp", 0)

-----------------------------------------------------------------------------
(* The string is pushed without a reference of its own: with the value the  *)
(* script drops, the object's reference goes.                               *)
f_temp_name(t) ==
    /\ Works /\ temps[t].made /\ temps[t].asked < 2
    /\ Says("name", 0) /\ UNCHANGED <<names, sizes>>
    /\ temps' = [temps EXCEPT ![t].asked = @ + 1, ![t].held = @ + 1]
    /\ IF temps[t].refs = 0 THEN SystemFault(t) ELSE UNCHANGED sysfaults
Drop(t) ==
    /\ Works /\ temps[t].held > 0 /\ Says("none", 0) /\ UNCHANGED <<names, sizes>>
    /\ IF temps[t].refs = 0
       THEN SystemFault(t) /\ UNCHANGED temps
       ELSE /\ UNCHANGED sysfaults
            /\ temps' = [temps EXCEPT ![t].held = @ - 1, ![t].refs = @ - 1]
f_temp_fd(t) ==
    /\ Works /\ temps[t].made /\ Says("fd", 0) /\ UNCHANGED <<names, sizes, temps, sysfaults>>

(* The file is truncated by its descriptor, whatever its name is now.       *)
f_temp_truncate(t) ==
    /\ Works /\ temps[t].made /\ Says("truncate", 0)
    /\ sizes' = [sizes EXCEPT ![temps[t].fd] = "empty"]
    /\ UNCHANGED <<names, temps, sysfaults>>

SystemNext ==
    \/ \E from, to \in FileNames, symbolic \in BOOLEAN : f_ln(from, to, symbolic)
    \/ \E n \in FileNames : f_unlink(n)
    \/ f_mkdtemp
    \/ \E t \in Temps :
           f_mkstemp(t) \/ f_temp_name(t) \/ Drop(t) \/ f_temp_fd(t) \/ f_temp_truncate(t)

SystemSpec == SystemInit /\ [][SystemNext]_sysvars

-----------------------------------------------------------------------------
(* at_system.c:169: truncating a temporary file empties the file mkstemp    *)
(* made, never another one, whatever was linked and unlinked since.         *)
TruncatesItsOwn ==
    \A i \in Inodes : sizes[i] = "empty" => \E t \in Temps : temps[t].made /\ temps[t].fd = i

(* at_system.c:160: the name is freed under the object only when it was     *)
(* asked for more than once.                                                *)
OneNameIsSafe == \A t \in sysfaults : temps[t].asked > 1

-----------------------------------------------------------------------------
(***************************************************************************)
(* The class PAM of AdminTools (at_pam.c).  chpass starts a conversation,  *)
(* authenticates with the old password and should go on to change it; its  *)
(* switch over the result has a default that returns, so that nothing      *)
(* after it is reached.  Its arguments are popped before they are used.    *)
(***************************************************************************)
CONSTANT MaxStarts     \* bound: conversations started

VARIABLES
    pamhandles,   \* conversations started and not ended
    pamstarts,    \* conversations started so far
    pamanswer,    \* what the last chpass was, what it responded and answered
    pamfaults

pamvars == <<pamhandles, pamstarts, pamanswer, pamfaults>>

Quiet == [prompt |-> "none", shared |-> TRUE, known |-> TRUE, resp |-> << >>, answer |-> 0]
PamInit == pamhandles = 0 /\ pamstarts = 0 /\ pamanswer = Quiet /\ pamfaults = {}

Prompts == {"Password:", "current", "New", "other"}
PamTypeOK ==
    /\ pamhandles \in 0 .. MaxStarts /\ pamstarts \in 0 .. MaxStarts
    /\ pamanswer.prompt \in Prompts \cup {"none"} /\ pamanswer.answer \in -4 .. 0
    /\ \A i \in DOMAIN pamanswer.resp : pamanswer.resp[i] \in {"oldpass", "newpass", "NULL"}

-----------------------------------------------------------------------------
(* The responses to the messages of the modules; only the first message is  *)
(* looked at, and a prompt for the new password is taken for two.           *)
Wanted(prompt) ==
    CASE prompt \in {"Password:", "current"} -> <<"oldpass">>
      [] prompt = "New" -> <<"newpass", "newpass">>
      [] OTHER -> << >>
chpass_conv_func(prompt, num_msg) ==
    [i \in 1 .. num_msg |-> IF i <= Len(Wanted(prompt)) THEN Wanted(prompt)[i] ELSE "NULL"]
Writes(prompt, num_msg) == Len(Wanted(prompt)) > num_msg

(* What pam_authenticate answered does not matter unless it is one thing.   *)
Answer(known) == IF known THEN -4 ELSE -3
f_chpass(shared) ==
    /\ pamfaults = {} /\ pamstarts < MaxStarts
    /\ \/ /\ shared /\ pamanswer' = [Quiet EXCEPT !.answer = -2]
          /\ UNCHANGED <<pamhandles, pamstarts, pamfaults>>
       \/ \E prompt \in Prompts, num_msg \in 1 .. 2, known \in BOOLEAN :
          /\ pamhandles' = pamhandles + 1 /\ pamstarts' = pamstarts + 1
          /\ pamanswer' = [prompt |-> prompt, shared |-> shared, known |-> known,
                           resp |-> chpass_conv_func(prompt, num_msg), answer |-> Answer(known)]
          /\ pamfaults' = IF ~shared THEN {"freed argument"}
                          ELSE IF Writes(prompt, num_msg) THEN {"past the responses"}
                          ELSE {}

(* start stores its second argument where the class has no program yet.     *)
f_pam_start ==
    /\ pamfaults = {} /\ pamfaults' = {"no place for the program"}
    /\ pamanswer' = Quiet /\ UNCHANGED <<pamhandles, pamstarts>>

PamNext == f_pam_start \/ \E shared \in BOOLEAN : f_chpass(shared)

PamSpec == PamInit /\ [][PamNext]_pamvars

-----------------------------------------------------------------------------
(* at_pam.c:113: as long as its arguments are held by somebody else, a      *)
(* conversation answers a prompt with the password it asks for, and the one *)
(* fault it has is a prompt for a new password that comes alone.            *)
PromptsGetTheirPassword ==
    /\ pamanswer.shared =>
           \A i \in DOMAIN pamanswer.resp :
               pamanswer.resp[i] # "NULL" =>
                   (pamanswer.resp[i] = "newpass" <=> pamanswer.prompt = "New")
    /\ "past the responses" \in pamfaults => pamanswer.prompt = "New" /\ Len(pamanswer.resp) = 1

(* at_pam.c:159: a conversation that was started is never ended, and chpass *)
(* tells a user that is unknown from every other outcome, nothing else.     *)
ConversationsStayOpen ==
    /\ pamhandles = pamstarts
    /\ pamanswer.answer = -3 <=> pamanswer.prompt # "none" /\ ~pamanswer.known
=============================================================================
