------------------------------ MODULE FileTree ------------------------------
(***************************************************************************)
(* The users' directory trees: the rows of table `file` with their father, *)
(* the working directory each user's row keeps as a path, and the father   *)
(* id each session keeps from its last getpwd.  mkdir, rm, mv, cd, pwd,    *)
(* upload and login run in the sessions of the thread pool; each is a      *)
(* series of SQL statements with no transaction around it, and here a      *)
(* statement is a step: resolving a path takes one step per component.     *)
(*                                                                         *)
(*   server/src/command.c    makedir, rm, rmDirFunc, rmFileFunc, mv,       *)
(*                           getpwd, changeDir, getFileId, getNextFileId   *)
(*   server/src/UserFunc.c   CmdAnalyse                                    *)
(*                                                                         *)
(* A path is its components and whether it starts with '/'.  What rm does  *)
(* to the counts of the contents is in FileStore; here the record of a     *)
(* content is there or, if RecordsGone, may be gone when rm looks for it.  *)
(***************************************************************************)
EXTENDS Integers, FiniteSets, SequencesExt

CONSTANTS
    Sessions,       \* the workers that serve a user
    Users,
    UserOf(_),      \* the user a session serves
    Home(_),        \* the name of a user's home directory: the user's name
    Names,          \* entry names
    Dotted,         \* the names with a '.' in them
    Null,           \* no father id: nobody is logged in
    InitRows,       \* the table at the start: a sequence of rows
    Commands(_),    \* what the client of a session may ask for: [cmd, src, dst]
    RecordsGone,    \* whether others may have dropped the record of a content in use
    MaxCmds,        \* bound: commands in a behaviour
    MaxLogins       \* bound: logins in a behaviour

Paths == {p \in [abs : BOOLEAN, parts : Seq(Names \cup {".", ".."})] : p.parts # <<>>}

ASSUME NamesAssumption ==
    /\ Names \cap {".", ".."} = {} /\ Dotted \subseteq Names
    /\ \A u \in Users : Home(u) \in Names
    /\ Null \notin Int
    /\ RecordsGone \in BOOLEAN
ASSUME CommandsAssumption ==
    \A s \in Sessions :
        /\ UserOf(s) \in Users
        /\ \A c \in Commands(s) :
              /\ c.cmd \in {"mkdir", "rm", "mv", "cd", "pwd", "upload"}
              /\ c.src \in Paths /\ c.dst \in Paths
ASSUME RowsAssumption ==
    /\ InitRows \in Seq([father : Nat, name : Names, type : {"d", "f"}, user : Users])
    /\ \A i \in DOMAIN InitRows :
          \/ InitRows[i].father = 0
          \/ /\ InitRows[i].father \in DOMAIN InitRows
             /\ InitRows[InitRows[i].father].user = InitRows[i].user

VARIABLES
    rows,       \* table file: [id -> [father, name, type, user]]
    nextId,     \* the id of the next insertion
    pwd,        \* user.pwd: the components of each user's working directory
    father,     \* CmdAnalyse's father_id, Null while the session has no user
    todo,       \* the steps left of each session's command, in order
    reg,        \* the locals of each session's command
    reply,      \* the last answer of each session, with what it was about
    cmds, logins,
    lost        \* history: the ids of files that rm left because of RecordsGone

session == <<todo, reg, reply>>
counters == <<cmds, logins, lost>>
vars == <<rows, nextId, pwd, father, session, counters>>

\* cur and path: where getFileId is and what is left to walk; id and dir: what the
\* walks have found; work: the ids rm has still to visit, one set per directory.
NoReg == [cmd |-> "none", src |-> <<>>, dst |-> <<>>, moves |-> FALSE,
          cur |-> 0, path |-> <<>>, id |-> 0, dir |-> 0, work |-> <<>>]
NoReply == [cmd |-> "none", id |-> 0, answer |-> "none"]

Init ==
    /\ rows = [i \in DOMAIN InitRows |-> InitRows[i]]
    /\ nextId = Len(InitRows) + 1
    /\ pwd = [u \in Users |-> <<Home(u)>>]
    /\ father = [s \in Sessions |-> Null]
    /\ todo = [s \in Sessions |-> <<>>]
    /\ reg = [s \in Sessions |-> NoReg]
    /\ reply = [s \in Sessions |-> NoReply]
    /\ cmds = 0 /\ logins = 0 /\ lost = {}

-----------------------------------------------------------------------------
(***************************************************************************)
(* Paths and the tree.                                                     *)
(***************************************************************************)
\* getPath: a relative path is appended to the working directory.
FullPath(u, p) == IF p.abs THEN p.parts ELSE pwd[u] \o p.parts

\* The path without the last component; of a single one, "." even after a '/'.
ParentPath(u, p) ==
    IF Len(p.parts) = 1 THEN pwd[u] \o <<".">>
    ELSE FullPath(u, [p EXCEPT !.parts = Front(@)])

\* The path without "." and "..": text, the tree is not asked.
Normal(p) ==
    LET norm[n \in 0..Len(p)] ==
            IF n = 0 THEN <<>>
            ELSE LET before == norm[n - 1]
                 IN  CASE p[n] = "."  -> before
                       [] p[n] = ".." -> IF before = <<>> THEN <<>> ELSE Front(before)
                       [] OTHER       -> Append(before, p[n])
    IN  norm[Len(p)]

\* getFileTypeFromId
TypeOf(i) == IF i \in DOMAIN rows THEN rows[i].type ELSE "none"

\* Faulty: the entries of the other users are not filtered out.
NextFileIdOfAnyUser(u, i, n) ==
    IF n = "." THEN {i}
    ELSE IF n = ".." THEN {IF i \in DOMAIN rows THEN rows[i].father ELSE -1}
    ELSE LET found == {k \in DOMAIN rows : rows[k].father = i /\ rows[k].name = n}
         IN  IF found = {} THEN {-1} ELSE found

\* getNextFileId: the ids a select may give for component n below id i; the father
\* of an id is not looked up among the user's own rows.
NextFileId(u, i, n) ==
    IF n = "." THEN {i}
    ELSE IF n = ".." THEN {IF i \in DOMAIN rows THEN rows[i].father ELSE -1}
    ELSE LET found == {k \in DOMAIN rows : /\ rows[k].father = i /\ rows[k].name = n
                                           /\ rows[k].user = u}
         IN  IF found = {} THEN {-1} ELSE found

-----------------------------------------------------------------------------
(***************************************************************************)
(* How a session moves through its command.                                *)
(***************************************************************************)
Idle(s) == todo[s] = <<>>
Quiet   == \A s \in Sessions : Idle(s)

\* The next step is op, and no path is being walked.
At(s, op) == todo[s] # <<>> /\ Head(todo[s]) = op /\ reg[s].path = <<>>

Answer(s, i, a) ==
    /\ todo' = [todo EXCEPT ![s] = <<>>]
    /\ reg' = [reg EXCEPT ![s] = NoReg]
    /\ reply' = [reply EXCEPT ![s] = [cmd |-> reg[s].cmd, id |-> i, answer |-> a]]

Finish(s, a) == Answer(s, reg[s].id, a)

GoOn(s, rest, r) ==
    /\ todo' = [todo EXCEPT ![s] = rest]
    /\ reg' = [reg EXCEPT ![s] = r]
    /\ UNCHANGED reply

Then(s, r) == GoOn(s, Tail(todo[s]), r)

\* Start to walk path p with the locals r.
Walk(r, p) == [r EXCEPT !.cur = 0, !.path = p]

Begin(s, r, steps) ==
    /\ todo' = [todo EXCEPT ![s] = steps]
    /\ reg' = [reg EXCEPT ![s] = r]
    /\ reply' = [reply EXCEPT ![s] = NoReply]

\* getFileId goes on after a component that was not found: -1 is an id like the others,
\* the father of whatever mkdir put below a missing directory.
GetNextFileId(s) ==
    /\ reg[s].path # <<>>
    /\ \E i \in NextFileId(UserOf(s), reg[s].cur, Head(reg[s].path)) :
          GoOn(s, todo[s], [reg[s] EXCEPT !.cur = i, !.path = Tail(@)])
    /\ UNCHANGED <<rows, nextId, pwd, father, counters>>

\* A client logs in: the user's working directory is the home directory again.
Login(s) ==
    /\ Idle(s) /\ father[s] = Null
    /\ logins < MaxLogins /\ logins' = logins + 1
    /\ pwd' = [pwd EXCEPT ![UserOf(s)] = <<Home(UserOf(s))>>]
    /\ Begin(s, [NoReg EXCEPT !.cmd = "login"], <<"getpwd", "enter">>)
    /\ UNCHANGED <<rows, nextId, father, cmds, lost>>

\* The client leaves.
Leave(s) ==
    /\ Idle(s) /\ father[s] # Null
    /\ father' = [father EXCEPT ![s] = Null]
    /\ reply' = [reply EXCEPT ![s] = NoReply]
    /\ UNCHANGED <<rows, nextId, pwd, todo, reg, counters>>

\* A command arrives.  The relative paths in it are completed from user.pwd.
Command(s, c) ==
    LET u == UserOf(s)
        r == [NoReg EXCEPT !.cmd = c.cmd]
        src == FullPath(u, c.src)
        dst == FullPath(u, c.dst)
    IN  CASE c.cmd = "mkdir" ->
                Begin(s, Walk([r EXCEPT !.src = c.src.parts], ParentPath(u, c.src)),
                      <<"names", "insert">>)
          [] c.cmd = "rm" -> Begin(s, Walk(r, src), <<"found", "remove">>)
          [] c.cmd = "mv" ->
                Begin(s, Walk([r EXCEPT !.src = src, !.dst = dst,
                                        !.moves = \/ c.dst.abs \/ Len(c.dst.parts) > 1
                                                  \/ c.dst.parts[1] \notin Names \ Dotted], src),
                      <<"source", "target">>)
          [] c.cmd = "cd" ->
                Begin(s, Walk([r EXCEPT !.dst = Normal(src)], Normal(src)),
                      <<"isdir", "samepwd", "setpwd", "getpwd", "cache">>)
          [] c.cmd = "pwd" -> Begin(s, r, <<"getpwd", "cache">>)
          [] c.cmd = "upload" -> Begin(s, [r EXCEPT !.src = c.src.parts], <<"present", "store">>)

CmdAnalyse(s) ==
    /\ Idle(s) /\ father[s] # Null
    /\ cmds < MaxCmds /\ cmds' = cmds + 1
    /\ \E c \in Commands(s) : Command(s, c)
    /\ UNCHANGED <<rows, nextId, pwd, father, logins, lost>>

-----------------------------------------------------------------------------
(***************************************************************************)
(* makedir                                                                 *)
(***************************************************************************)
\* Faulty: the names in the directory are not looked at.
CheckNamesNever(s) ==
    /\ At(s, "names")
    /\ Then(s, reg[s])
    /\ UNCHANGED <<rows, nextId, pwd, father, counters>>

\* The names below the father, of all users; the father may be -1.
CheckNames(s) ==
    /\ At(s, "names")
    /\ LET taken == \E i \in DOMAIN rows :
                       rows[i].father = reg[s].cur /\ rows[i].name = Last(reg[s].src)
       IN  \/ taken /\ Finish(s, "fail")
           \/ ~taken /\ Then(s, reg[s])
    /\ UNCHANGED <<rows, nextId, pwd, father, counters>>

\* Faulty: the new id is used again.
InsertSameId(f, n, t, u) ==
    /\ rows' = [i \in DOMAIN rows \cup {nextId} |->
                   IF i = nextId THEN [father |-> f, name |-> n, type |-> t, user |-> u]
                   ELSE rows[i]]
    /\ UNCHANGED nextId

Insert(f, n, t, u) ==
    /\ rows' = [i \in DOMAIN rows \cup {nextId} |->
                   IF i = nextId THEN [father |-> f, name |-> n, type |-> t, user |-> u]
                   ELSE rows[i]]
    /\ nextId' = nextId + 1

InsertDir(s) ==
    /\ At(s, "insert")
    /\ Insert(reg[s].cur, Last(reg[s].src), "d", UserOf(s))
    /\ Answer(s, nextId, "ok")
    /\ UNCHANGED <<pwd, father, counters>>

-----------------------------------------------------------------------------
(***************************************************************************)
(* rm, rmDirFunc: a directory's row is deleted before its children are     *)
(* listed, and the children are visited depth first.                       *)
(***************************************************************************)
RmFound(s) ==
    /\ At(s, "found")
    /\ \/ reg[s].cur = -1 /\ Finish(s, "fail")
       \/ /\ reg[s].cur # -1
          /\ Then(s, [reg[s] EXCEPT !.id = reg[s].cur, !.work = <<{reg[s].cur}>>])
    /\ UNCHANGED <<rows, nextId, pwd, father, counters>>

\* The type of the next id decides; an id without a row is passed over.
RmType(s) ==
    /\ At(s, "remove")
    /\ LET work == reg[s].work
       IN  \/ work = <<>> /\ Finish(s, "ok")
           \/ /\ work # <<>>
              /\ \E i \in Head(work) :
                    LET rest == IF Head(work) = {i} THEN Tail(work)
                                ELSE <<Head(work) \ {i}>> \o Tail(work)
                        steps == CASE TypeOf(i) = "d"    -> <<"delete", "list", "remove">>
                                   [] TypeOf(i) = "f"    -> <<"delete", "remove">>
                                   [] TypeOf(i) = "none" -> <<"remove">>
                    IN  GoOn(s, steps, [reg[s] EXCEPT !.dir = i, !.work = rest])
    /\ UNCHANGED <<rows, nextId, pwd, father, counters>>

\* rmFileFunc: the row is deleted, unless the id is a file's and its content has no record
\* any more; then the row stays, and rm goes on as if it were gone.
RmDelete(s) ==
    /\ At(s, "delete")
    /\ \/ rows' = [i \in DOMAIN rows \ {reg[s].dir} |-> rows[i]] /\ UNCHANGED lost
       \/ /\ RecordsGone /\ TypeOf(reg[s].dir) = "f"
          /\ lost' = lost \cup {reg[s].dir}
          /\ UNCHANGED rows
    /\ Then(s, reg[s])
    /\ UNCHANGED <<nextId, pwd, father, cmds, logins>>

\* Faulty: only the files below the directory are removed.
ListFiles(s) ==
    /\ At(s, "list")
    /\ LET children == {i \in DOMAIN rows : /\ rows[i].father = reg[s].dir
                                            /\ rows[i].user = UserOf(s) /\ rows[i].type = "f"}
       IN  Then(s, [reg[s] EXCEPT !.work = (IF children = {} THEN <<>> ELSE <<children>>) \o @])
    /\ UNCHANGED <<rows, nextId, pwd, father, counters>>

RmList(s) ==
    /\ At(s, "list")
    /\ LET children == {i \in DOMAIN rows : /\ rows[i].father = reg[s].dir
                                            /\ rows[i].user = UserOf(s)}
       IN  Then(s, [reg[s] EXCEPT !.work = (IF children = {} THEN <<>> ELSE <<children>>) \o @])
    /\ UNCHANGED <<rows, nextId, pwd, father, counters>>

-----------------------------------------------------------------------------
(***************************************************************************)
(* mv                                                                      *)
(***************************************************************************)
MvSource(s) ==
    /\ At(s, "source")
    /\ Then(s, Walk([reg[s] EXCEPT !.id = reg[s].cur], reg[s].dst))
    /\ UNCHANGED <<rows, nextId, pwd, father, counters>>

\* No source, a file in the way, or the root on either side: an error.  Into a
\* directory the source keeps its name; otherwise it is renamed.
MvTarget(s) ==
    /\ At(s, "target")
    /\ LET r == reg[s]
           type == TypeOf(r.cur)
           src == Normal(r.src)
           dst == Normal(r.dst)
           bad == r.id = -1 \/ type = "f" \/ src = <<>> \/ dst = <<>>
       IN  \/ bad /\ Finish(s, "fail")
           \/ /\ ~bad /\ type = "d"
              /\ GoOn(s, <<"samename", "move">>,
                      Walk([r EXCEPT !.dir = r.cur], Append(dst, Last(src))))
           \/ /\ ~bad /\ type = "none"
              /\ GoOn(s, <<"rename">>, Walk(r, Front(dst)))
    /\ UNCHANGED <<rows, nextId, pwd, father, counters>>

MvSameName(s) ==
    /\ At(s, "samename")
    /\ \/ TypeOf(reg[s].cur) # "none" /\ Finish(s, "fail")
       \/ TypeOf(reg[s].cur) = "none" /\ Then(s, reg[s])
    /\ UNCHANGED <<rows, nextId, pwd, father, counters>>

\* update file set ... where id = reg.id: an update that changes no row is an error.
Update(s, row) ==
    IF reg[s].id \in DOMAIN rows /\ rows[reg[s].id] # row
    THEN rows' = [rows EXCEPT ![reg[s].id] = row] /\ Finish(s, "ok")
    ELSE UNCHANGED rows /\ Finish(s, "fail")

MvMove(s) ==
    /\ At(s, "move")
    /\ Update(s, [rows[reg[s].id] EXCEPT !.father = reg[s].dir])
    /\ UNCHANGED <<nextId, pwd, father, counters>>

\* The father changes only if the destination as typed has a '.' or a '/'.
MvRename(s) ==
    /\ At(s, "rename")
    /\ Update(s, [rows[reg[s].id] EXCEPT !.name = Last(Normal(reg[s].dst)),
                                         !.father = IF reg[s].moves THEN reg[s].cur ELSE @])
    /\ UNCHANGED <<nextId, pwd, father, counters>>

-----------------------------------------------------------------------------
(***************************************************************************)
(* cd, pwd and the father id a session keeps.                              *)
(***************************************************************************)
CdIsDir(s) ==
    /\ At(s, "isdir")
    /\ \/ TypeOf(reg[s].cur) # "d" /\ Finish(s, "fail")
       \/ TypeOf(reg[s].cur) = "d" /\ Then(s, reg[s])
    /\ UNCHANGED <<rows, nextId, pwd, father, counters>>

CdSamePwd(s) ==
    /\ At(s, "samepwd")
    /\ GoOn(s, IF pwd[UserOf(s)] = reg[s].dst THEN <<"getpwd", "cache">> ELSE Tail(todo[s]),
            reg[s])
    /\ UNCHANGED <<rows, nextId, pwd, father, counters>>

\* Another session of the user may have been faster: the update changes nothing.
CdSetPwd(s) ==
    /\ At(s, "setpwd")
    /\ \/ /\ pwd[UserOf(s)] = reg[s].dst
          /\ Finish(s, "fail")
          /\ UNCHANGED pwd
       \/ /\ pwd[UserOf(s)] # reg[s].dst
          /\ pwd' = [pwd EXCEPT ![UserOf(s)] = reg[s].dst]
          /\ Then(s, reg[s])
    /\ UNCHANGED <<rows, nextId, father, counters>>

GetPwd(s) ==
    /\ At(s, "getpwd")
    /\ Then(s, Walk(reg[s], pwd[UserOf(s)]))
    /\ UNCHANGED <<rows, nextId, pwd, father, counters>>

\* Faulty: the session goes on with the father id of its login.
CacheNothing(s) ==
    /\ At(s, "cache")
    /\ Finish(s, "ok")
    /\ UNCHANGED <<rows, nextId, pwd, father, counters>>

\* After cd, and for pwd: the id of the working directory, if there is one.
Cache(s) ==
    /\ At(s, "cache")
    /\ \/ reg[s].cur = -1 /\ UNCHANGED father
       \/ reg[s].cur # -1 /\ father' = [father EXCEPT ![s] = reg[s].cur]
    /\ Finish(s, IF reg[s].cmd = "pwd" /\ reg[s].cur = -1 THEN "fail" ELSE "ok")
    /\ UNCHANGED <<rows, nextId, pwd, counters>>

\* After login: whatever id it is.
Enter(s) ==
    /\ At(s, "enter")
    /\ father' = [father EXCEPT ![s] = reg[s].cur]
    /\ Finish(s, "ok")
    /\ UNCHANGED <<rows, nextId, pwd, counters>>

-----------------------------------------------------------------------------
(***************************************************************************)
(* upload: the entry goes below the father id of the session.  An entry of *)
(* the same name stops it if the real file is whole; an upload that goes   *)
(* on with a known content inserts no row (FileStore), and changes nothing *)
(* here.                                                                   *)
(***************************************************************************)
Present(s) ==
    /\ At(s, "present")
    /\ \/ /\ \E i \in DOMAIN rows : /\ rows[i].father = father[s] /\ rows[i].user = UserOf(s)
                                    /\ rows[i].name = Last(reg[s].src)
          /\ Finish(s, "existing")
       \/ Then(s, reg[s])
    /\ UNCHANGED <<rows, nextId, pwd, father, counters>>

Store(s) ==
    /\ At(s, "store")
    /\ Insert(father[s], Last(reg[s].src), "f", UserOf(s))
    /\ Answer(s, nextId, "ok")
    /\ UNCHANGED <<pwd, father, counters>>

-----------------------------------------------------------------------------
Step(s) ==
    \/ Login(s) \/ Leave(s) \/ CmdAnalyse(s) \/ GetNextFileId(s)
    \/ CheckNames(s) \/ InsertDir(s)
    \/ RmFound(s) \/ RmType(s) \/ RmDelete(s) \/ RmList(s)
    \/ MvSource(s) \/ MvTarget(s) \/ MvSameName(s) \/ MvMove(s) \/ MvRename(s)
    \/ CdIsDir(s) \/ CdSamePwd(s) \/ CdSetPwd(s) \/ GetPwd(s) \/ Cache(s) \/ Enter(s)
    \/ Present(s) \/ Store(s)

Next == \E s \in Sessions : Step(s)

Spec == Init /\ [][Next]_vars

-----------------------------------------------------------------------------
(***************************************************************************)
(* Properties.                                                             *)
(***************************************************************************)
\* With those of cp (CopyDir).
Ops == {"getpwd", "enter", "names", "insert", "found", "remove", "delete", "list", "source",
        "target", "samename", "move", "rename", "isdir", "samepwd", "setpwd", "cache",
        "present", "store", "cpsource", "cptarget", "cpsame", "replace", "cpfather", "dirrow",
        "filerow", "newest", "children", "child", "overwrite"}
Cmds == {"none", "login", "mkdir", "rm", "mv", "cd", "pwd", "upload", "cp"}
Ids  == -1..(nextId - 1)

\* Every variable holds a value of its type, and no id is used that no row ever had.
TypeOK ==
    /\ nextId \in Nat \ {0} /\ DOMAIN rows \subseteq 1..(nextId - 1)
    /\ \A i \in DOMAIN rows :
          rows[i] \in [father : Ids, name : Names, type : {"d", "f"}, user : Users]
    /\ pwd \in [Users -> Seq(Names)]
    /\ father \in [Sessions -> Ids \cup {Null}] /\ lost \subseteq Ids
    /\ todo \in [Sessions -> Seq(Ops)]
    /\ \A s \in Sessions :
          reg[s] \in [cmd : Cmds, src : Seq(Names \cup {".", ".."}),
                     dst : Seq(Names \cup {".", ".."}), moves : BOOLEAN, cur : Ids,
                     path : Seq(Names \cup {".", ".."}), id : Ids, dir : Ids,
                     work : Seq(SUBSET Ids)]
    /\ reply \in [Sessions -> [cmd : Cmds, id : Ids,
                               answer : {"none", "ok", "existing", "fail"}]]

RowsOf(u)    == {<<i, rows[i]>> : i \in {k \in DOMAIN rows : rows[k].user = u}}
SessionOf(u) == [s \in {t \in Sessions : UserOf(t) = u} |-> <<todo[s], reg[s], reply[s]>>]

\* A user's rows change only in a step of a session of that user, although paths may
\* lead through ".." to the root all users share, and ids are not checked again.
Isolation == [][\A u \in Users : RowsOf(u)' # RowsOf(u) => SessionOf(u)' # SessionOf(u)]_vars

\* The ids from which the fathers lead to the root.
Below ==
    LET below[n \in Nat] ==
            IF n = 0 THEN {i \in DOMAIN rows : rows[i].father = 0}
            ELSE LET above == below[n - 1]
                 IN  above \cup {i \in DOMAIN rows : rows[i].father \in above}
    IN  below[Cardinality(DOMAIN rows)]

\* Between commands every entry hangs below the root: what mkdir and mv report done
\* can be reached, and rm of a directory leaves nothing of it behind but the files whose
\* contents had no record any more when it came to them (rmFileFunc then returns early).
Rooted == Quiet => DOMAIN rows \ Below \subseteq lost

Uploaded(n) == \E c \in UNION {Commands(s) : s \in Sessions} : c.cmd = "upload" /\ c.src.parts = <<n>>

\* mkdir and mv refuse a name that is taken: no two entries of a user share directory
\* and name (an upload may bring a second content under one name).
SiblingsUnique ==
    \A i, j \in DOMAIN rows :
        /\ rows[i].father = rows[j].father /\ rows[i].name = rows[j].name
        /\ rows[i].user = rows[j].user /\ ~Uploaded(rows[i].name)
        => i = j

\* The ids a path may resolve to.
FileId(u, p) ==
    LET ids[n \in 0..Len(p)] ==
            IF n = 0 THEN {0} ELSE UNION {NextFileId(u, i, p[n]) : i \in ids[n - 1]}
    IN  ids[Len(p)]

\* Where an idle session uploads is the directory that pwd shows and that the relative
\* paths of its other commands start from.
CwdCached ==
    \A s \in Sessions :
        Idle(s) /\ father[s] # Null => father[s] \in FileId(UserOf(s), pwd[UserOf(s)])
=============================================================================
