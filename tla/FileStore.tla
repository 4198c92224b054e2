----------------------------- MODULE FileStore ------------------------------
(***************************************************************************)
(* Where the disk keeps files: the virtual files of the users (table       *)
(* `file`), the number of virtual files that share a real one (table       *)
(* `file_real`), and the real files, named by md5, under ./file/.  The     *)
(* commands that change them, upload, rm of a file and cp of a file, run   *)
(* in the sessions of the thread pool, each on its own database connection *)
(* with no transaction: an SQL statement, a look at a real file, or a      *)
(* write to it is one step here, and the sessions' steps interleave.       *)
(*                                                                         *)
(*   server/src/transFile.c        user_upload, get_file_size              *)
(*   server/src/command.c          cp, rm, rmFileFunc                      *)
(*   server/src/mysql_operation.c  the statements cp is made of            *)
(*                                                                         *)
(* A command is the sequence of its steps, in program order.  Path         *)
(* resolution is abstracted to names: a name is an entry of one user's     *)
(* tree.  A real file is cut in chunks; chunk i of md5 m is the number i.  *)
(* file_size is not kept: two rows with the same md5 have the same size.   *)
(***************************************************************************)
EXTENDS Integers, Sequences, FiniteSets

CONSTANTS
    Sessions,       \* the workers that serve a logged-in user
    Names,          \* directory entries, of all users
    NamesOf(_),     \* the names in the tree of a session's user
    Md5s,           \* contents
    Size(_),        \* the chunks of a content
    Null,           \* no name, content or id
    Preloaded,      \* names stored at the start: a set of <<name, md5>>
    Uploads,        \* uploads the clients may ask for: <<name, md5>>
    Removes,        \* names the clients may remove
    Copies,         \* <<source, destination, kind>>, kind "file" or "dir"
    MaxCmds,        \* bound: commands in a behaviour
    MaxLosses,      \* bound: connections lost during an upload
    MaxExits        \* bound: exits of the server between two steps

ASSUME NullAssumption == Null \notin Names \cup Md5s \cup Nat
ASSUME WorkloadAssumption ==
    /\ Preloaded \subseteq Names \X Md5s /\ IsFiniteSet(Preloaded)
    /\ Uploads \subseteq Names \X Md5s
    /\ Removes \subseteq Names /\ Copies \subseteq Names \X Names \X {"file", "dir"}
    /\ \A p, q \in Preloaded : p[1] = q[1] => p = q
    /\ \A m \in Md5s : Size(m) \in Nat

VARIABLES
    file,       \* table file: [id -> [name, md5]]; ids are auto-incremented
    nextId,     \* the id of the next insertion
    real,       \* table file_real: for each md5 the file_count of its rows
    store,      \* ./file/<md5>: its chunks; <<>> also when there is no file
    todo,       \* the steps left of each session's command, in order
    reg,        \* the locals of each session's command
    reply,      \* the last answer of each session, with its command
    cmds, losses, exits,    \* counters for the bounds
    faults,     \* history: answers of zero rows that were dereferenced
    tainted     \* history: md5s a command in progress had in hand at an exit

tables == <<file, nextId, real>>
session == <<todo, reg, reply>>
counters == <<cmds, losses, exits, faults, tainted>>
vars == <<tables, store, session, counters>>

NoReg == [cmd |-> "none", name |-> Null, md5 |-> Null, src |-> 0, dst |-> 0,
          ret |-> FALSE, size |-> 0, pos |-> 0, got |-> 0]
NoReply == [cmd |-> "none", name |-> Null, md5 |-> Null, id |-> 0, answer |-> "none"]

RowsOf(n) == {i \in DOMAIN file : file[i].name = n}
Refs(m)   == {i \in DOMAIN file : file[i].md5 = m}
Whole(m)  == [i \in 1..Size(m) |-> i]

\* The tables and the directory before the first session: every preloaded name
\* has its row, its reference count and its whole real file.
Init ==
    /\ \E f \in [1..Cardinality(Preloaded) -> [name : Names, md5 : Md5s]] :
          /\ {<<f[i].name, f[i].md5>> : i \in DOMAIN f} = Preloaded
          /\ file = f
    /\ nextId = Cardinality(Preloaded) + 1
    /\ real = [m \in Md5s |-> LET n == Cardinality({p \in Preloaded : p[2] = m})
                              IN  IF n = 0 THEN <<>> ELSE <<n>>]
    /\ store = [m \in Md5s |-> IF \E p \in Preloaded : p[2] = m THEN Whole(m) ELSE <<>>]
    /\ todo = [s \in Sessions |-> <<>>]
    /\ reg = [s \in Sessions |-> NoReg]
    /\ reply = [s \in Sessions |-> NoReply]
    /\ cmds = 0 /\ losses = 0 /\ exits = 0 /\ faults = 0 /\ tainted = {}

-----------------------------------------------------------------------------
(***************************************************************************)
(* How a session moves through its command.                                *)
(***************************************************************************)
Idle(s)   == todo[s] = <<>>
At(s, op) == todo[s] # <<>> /\ Head(todo[s]) = op
Quiet     == \A s \in Sessions : Idle(s)

Answer(r, a) == [cmd |-> r.cmd, name |-> r.name, md5 |-> r.md5, id |-> r.dst, answer |-> a]

\* The handler returns: the client gets its answer and the locals are gone.
Finish(s, r, a) ==
    /\ todo' = [todo EXCEPT ![s] = <<>>]
    /\ reg' = [reg EXCEPT ![s] = NoReg]
    /\ reply' = [reply EXCEPT ![s] = Answer(r, a)]

\* Go on with the steps in rest and the locals r; no step left means success.
GoOn(s, rest, r) ==
    IF rest = <<>> THEN Finish(s, r, "ok")
    ELSE /\ todo' = [todo EXCEPT ![s] = rest]
         /\ reg' = [reg EXCEPT ![s] = r]
         /\ UNCHANGED reply

Begin(s, r, steps) ==
    /\ Idle(s)
    /\ cmds < MaxCmds
    /\ cmds' = cmds + 1
    /\ todo' = [todo EXCEPT ![s] = steps]
    /\ reg' = [reg EXCEPT ![s] = r]
    /\ reply' = [reply EXCEPT ![s] = NoReply]
    /\ UNCHANGED <<tables, store, losses, exits, faults, tainted>>

\* What a command in progress had in hand.
InHand(s) == ({reg[s].md5} \cup {file[i].md5 : i \in {reg[s].src, reg[s].dst} \cap DOMAIN file})
             \ {Null}

\* The server process ends, every session with it; it is started again later
\* with the tables and the real files as they are.
AllSessionsEnd ==
    /\ todo' = [s \in Sessions |-> <<>>]
    /\ reg' = [s \in Sessions |-> NoReg]
    /\ reply' = [s \in Sessions |-> NoReply]
    /\ tainted' = tainted \cup UNION {InHand(s) : s \in {t \in Sessions : ~Idle(t)}}

\* The answer of a select without rows is dereferenced: SIGSEGV, whose handler
\* exits the process.
Fault == AllSessionsEnd /\ faults' = faults + 1

\* The process exits between two steps for another reason.
Exit ==
    /\ exits < MaxExits
    /\ ~Quiet
    /\ exits' = exits + 1
    /\ AllSessionsEnd
    /\ UNCHANGED <<tables, store, cmds, losses, faults>>

-----------------------------------------------------------------------------
(***************************************************************************)
(* The commands.                                                           *)
(***************************************************************************)
BeginUpload(s) ==
    \E u \in Uploads :
        /\ u[1] \in NamesOf(s)
        /\ Begin(s, [NoReg EXCEPT !.cmd = "upload", !.name = u[1], !.md5 = u[2]],
                 <<"check", "offset", "lookup">>)

BeginRm(s) ==
    \E n \in Removes \cap NamesOf(s) :
        Begin(s, [NoReg EXCEPT !.cmd = "rm", !.name = n], <<"resolve">>)

BeginCp(s) ==
    \E c \in Copies :
        /\ {c[1], c[2]} \subseteq NamesOf(s)
        /\ Begin(s, [NoReg EXCEPT !.cmd = IF c[3] = "file" THEN "cp" ELSE "cpdir",
                                  !.name = c[1], !.src = c[2]],
                 <<"resolve">>)

\* The path is resolved: an id that carries the name, if there is one.
ResolveRm(s) ==
    /\ At(s, "resolve") /\ reg[s].cmd = "rm"
    /\ \/ /\ RowsOf(reg[s].name) = {}
          /\ Finish(s, reg[s], "fail")
       \/ \E i \in RowsOf(reg[s].name) :
             GoOn(s, <<"loaddst", "dec", "read", "delrow">>, [reg[s] EXCEPT !.dst = i])
    /\ UNCHANGED <<tables, store, counters>>

\* Faulty: the new entry of an existing content is not counted.
CpStepsUncounted(cmd, exists) ==
    IF ~exists THEN <<"loadsrc", "insert">>
    ELSE IF cmd = "cp" THEN <<"loaddst", "dec", "read", "loadsrc", "update", "inc">>
    ELSE <<"loadsrc", "inc", "loaddst", "dec", "read", "loadsrc", "update">>

\* cp resolves both paths and branches on the destination: a file to replace, no
\* entry yet, or, below a destination directory, an entry of the source's name,
\* which is replaced in another order.
CpSteps(cmd, exists) ==
    IF ~exists THEN <<"loadsrc", "insert", "inc">>
    ELSE IF cmd = "cp" THEN <<"loaddst", "dec", "read", "loadsrc", "update", "inc">>
    ELSE <<"loadsrc", "inc", "loaddst", "dec", "read", "loadsrc", "update">>

ResolveCp(s) ==
    /\ At(s, "resolve") /\ reg[s].cmd \in {"cp", "cpdir"}
    /\ LET dest == reg[s].src
       IN  \/ /\ RowsOf(reg[s].name) = {}
              /\ Finish(s, reg[s], "fail")
           \/ \E i \in RowsOf(reg[s].name) :
                \/ /\ RowsOf(dest) = {}
                   /\ GoOn(s, CpSteps(reg[s].cmd, FALSE),
                           [reg[s] EXCEPT !.name = dest, !.src = i])
                \/ \E j \in RowsOf(dest) :
                      GoOn(s, CpSteps(reg[s].cmd, TRUE),
                           [reg[s] EXCEPT !.name = dest, !.src = i, !.dst = j])
    /\ UNCHANGED <<tables, store, counters>>

-----------------------------------------------------------------------------
(***************************************************************************)
(* The SQL statements rm and cp share.                                     *)
(***************************************************************************)
\* A row the command needs is gone: rm returns, and reports success; cp uses the
\* answer anyway.
Missing(s) ==
    \/ reg[s].cmd = "rm" /\ Finish(s, reg[s], "ok") /\ UNCHANGED <<faults, tainted>>
    \/ reg[s].cmd # "rm" /\ Fault

\* select file_md5 from file where id = ...
Load(s, op, id) ==
    /\ At(s, op)
    /\ \/ /\ id \in DOMAIN file
          /\ GoOn(s, Tail(todo[s]), [reg[s] EXCEPT !.md5 = file[id].md5])
          /\ UNCHANGED <<faults, tainted>>
       \/ id \notin DOMAIN file /\ Missing(s)
    /\ UNCHANGED <<tables, store, cmds, losses, exits>>

LoadSource(s)      == Load(s, "loadsrc", reg[s].src)
LoadDestination(s) == Load(s, "loaddst", reg[s].dst)

\* update file_real set file_count = file_count + d where md5 = ...
AddCount(s, op, d) ==
    /\ At(s, op)
    /\ real' = [real EXCEPT ![reg[s].md5] = [i \in DOMAIN @ |-> @[i] + d]]
    /\ GoOn(s, Tail(todo[s]), reg[s])
    /\ UNCHANGED <<file, nextId, store, counters>>

IncCount(s) == AddCount(s, "inc", 1)
DecCount(s) == AddCount(s, "dec", -1)

\* Faulty: the record goes with the last reference but one.
ReadCountTooEarly(s) ==
    /\ At(s, "read")
    /\ LET rows == real[reg[s].md5]
       IN  \/ rows = <<>> /\ Missing(s)
           \/ /\ rows # <<>>
              /\ GoOn(s, (IF rows[1] <= 1 THEN <<"drop">> ELSE <<>>) \o Tail(todo[s]), reg[s])
              /\ UNCHANGED <<faults, tainted>>
    /\ UNCHANGED <<tables, store, cmds, losses, exits>>

\* select file_count from file_real where md5 = ..., and delete the row if it is 0.
ReadCount(s) ==
    /\ At(s, "read")
    /\ LET rows == real[reg[s].md5]
       IN  \/ rows = <<>> /\ Missing(s)
           \/ /\ rows # <<>>
              /\ GoOn(s, (IF rows[1] = 0 THEN <<"drop">> ELSE <<>>) \o Tail(todo[s]), reg[s])
              /\ UNCHANGED <<faults, tainted>>
    /\ UNCHANGED <<tables, store, cmds, losses, exits>>

\* delete from file_real where md5 = ...
DropReal(s) ==
    /\ At(s, "drop")
    /\ real' = [real EXCEPT ![reg[s].md5] = <<>>]
    /\ GoOn(s, Tail(todo[s]), reg[s])
    /\ UNCHANGED <<file, nextId, store, counters>>

\* Faulty: the id of the new row is not used up.
InsertRowSameId(s) ==
    /\ At(s, "insert")
    /\ file' = [i \in DOMAIN file \cup {nextId} |->
                   IF i = nextId THEN [name |-> reg[s].name, md5 |-> reg[s].md5] ELSE file[i]]
    /\ GoOn(s, Tail(todo[s]), [reg[s] EXCEPT !.dst = nextId])
    /\ UNCHANGED <<nextId, real, store, counters>>

\* insert into file (...) values (...)
InsertRow(s) ==
    /\ At(s, "insert")
    /\ file' = [i \in DOMAIN file \cup {nextId} |->
                   IF i = nextId THEN [name |-> reg[s].name, md5 |-> reg[s].md5] ELSE file[i]]
    /\ nextId' = nextId + 1
    /\ GoOn(s, Tail(todo[s]), [reg[s] EXCEPT !.dst = nextId])
    /\ UNCHANGED <<real, store, counters>>

\* update file set file_md5 = ... where id = ...; nothing if the row is gone.
UpdateRow(s) ==
    /\ At(s, "update")
    /\ file' = [i \in DOMAIN file |->
                   IF i = reg[s].dst THEN [file[i] EXCEPT !.md5 = reg[s].md5] ELSE file[i]]
    /\ GoOn(s, Tail(todo[s]), reg[s])
    /\ UNCHANGED <<nextId, real, store, counters>>

\* Faulty: the row stays while other rows share its content.
DeleteRowIfLast(s) ==
    /\ At(s, "delrow")
    /\ file' = [i \in {k \in DOMAIN file : real[reg[s].md5] = <<>> => k # reg[s].dst} |-> file[i]]
    /\ GoOn(s, Tail(todo[s]), reg[s])
    /\ UNCHANGED <<nextId, real, store, counters>>

\* delete from file where id = ...
DeleteRow(s) ==
    /\ At(s, "delrow")
    /\ file' = [i \in DOMAIN file \ {reg[s].dst} |-> file[i]]
    /\ GoOn(s, Tail(todo[s]), reg[s])
    /\ UNCHANGED <<nextId, real, store, counters>>

-----------------------------------------------------------------------------
(***************************************************************************)
(* user_upload.                                                            *)
(***************************************************************************)
\* An entry of that name exists: look at the size of the real file.
CheckName(s) ==
    /\ At(s, "check")
    /\ GoOn(s, (IF RowsOf(reg[s].name) = {} THEN <<>> ELSE <<"stat">>) \o Tail(todo[s]), reg[s])
    /\ UNCHANGED <<tables, store, counters>>

\* Faulty: an entry of that name is enough.
StatNothing(s) ==
    /\ At(s, "stat")
    /\ Finish(s, reg[s], "existing")
    /\ UNCHANGED <<tables, store, counters>>

\* The real file of the md5 is whole: nothing to upload.
StatExisting(s) ==
    /\ At(s, "stat")
    /\ \/ Len(store[reg[s].md5]) = Size(reg[s].md5) /\ Finish(s, reg[s], "existing")
       \/ Len(store[reg[s].md5]) # Size(reg[s].md5) /\ GoOn(s, Tail(todo[s]), reg[s])
    /\ UNCHANGED <<tables, store, counters>>

\* get_file_size: the length of the real file, created if need be, goes to the
\* client, who will send what comes after it.
SendOffset(s) ==
    /\ At(s, "offset")
    /\ GoOn(s, Tail(todo[s]), [reg[s] EXCEPT !.size = Len(store[reg[s].md5])])
    /\ UNCHANGED <<tables, store, counters>>

\* select * from file_real where md5 = ...; its answer and the size decide what
\* is inserted: an instant upload, a new file, or the rest of a known file.
UploadSteps(known, complete) ==
    IF known /\ complete THEN <<"insert", "inc">>
    ELSE IF ~known THEN <<"insert", "new", "seek", "recv">>
    ELSE <<"seek", "recv">>

LookupReal(s) ==
    /\ At(s, "lookup")
    /\ LET known == real[reg[s].md5] # <<>>
       IN  GoOn(s, UploadSteps(known, reg[s].size = Size(reg[s].md5)),
                [reg[s] EXCEPT !.ret = known])
    /\ UNCHANGED <<tables, store, counters>>

\* Faulty: the new content gets no record.
InsertRealNothing(s) ==
    /\ At(s, "new")
    /\ GoOn(s, Tail(todo[s]), reg[s])
    /\ UNCHANGED <<tables, store, counters>>

\* insert into file_real (md5, file_count) values (..., 1); nothing in the
\* repository makes md5 a key.
InsertReal(s) ==
    /\ At(s, "new")
    /\ real' = [real EXCEPT ![reg[s].md5] = Append(@, 1)]
    /\ GoOn(s, Tail(todo[s]), reg[s])
    /\ UNCHANGED <<file, nextId, store, counters>>

\* Faulty: the rest of the content is written from the start of the file.
SeekStart(s) ==
    /\ At(s, "seek")
    /\ GoOn(s, Tail(todo[s]), [reg[s] EXCEPT !.pos = 0])
    /\ UNCHANGED <<tables, store, counters>>

\* lseek(filefd, 0, SEEK_END)
SeekEnd(s) ==
    /\ At(s, "seek")
    /\ GoOn(s, Tail(todo[s]), [reg[s] EXCEPT !.pos = Len(store[reg[s].md5])])
    /\ UNCHANGED <<tables, store, counters>>

\* The bytes at position p of a file become those of chunk c.
WriteAt(content, p, c) ==
    IF p = Len(content) THEN Append(content, c) ELSE [content EXCEPT ![p + 1] = c]

\* One turn of the recv/write loop, or its end.
Receive(s) ==
    /\ At(s, "recv")
    /\ LET r == reg[s]
       IN  \/ /\ r.got < Size(r.md5) - r.size
              /\ store' = [store EXCEPT ![r.md5] = WriteAt(@, r.pos, r.size + r.got + 1)]
              /\ GoOn(s, todo[s], [r EXCEPT !.pos = @ + 1, !.got = @ + 1])
           \/ /\ r.got >= Size(r.md5) - r.size
              /\ GoOn(s, Tail(todo[s]), r)
              /\ UNCHANGED store
    /\ UNCHANGED <<tables, counters>>

\* The client is gone: recv returns 0 and the session ends.
Lose(s) ==
    /\ At(s, "recv")
    /\ reg[s].got < Size(reg[s].md5) - reg[s].size
    /\ losses < MaxLosses
    /\ losses' = losses + 1
    /\ Finish(s, reg[s], "gone")
    /\ UNCHANGED <<tables, store, cmds, exits, faults, tainted>>

-----------------------------------------------------------------------------
Step(s) ==
    \/ BeginUpload(s) \/ BeginRm(s) \/ BeginCp(s)
    \/ ResolveRm(s) \/ ResolveCp(s)
    \/ LoadSource(s) \/ LoadDestination(s) \/ IncCount(s) \/ DecCount(s)
    \/ ReadCount(s) \/ DropReal(s) \/ InsertRow(s) \/ UpdateRow(s) \/ DeleteRow(s)
    \/ CheckName(s) \/ StatExisting(s) \/ SendOffset(s) \/ LookupReal(s)
    \/ InsertReal(s) \/ SeekEnd(s) \/ Receive(s) \/ Lose(s)

Next == Exit \/ \E s \in Sessions : Step(s)

Spec == Init /\ [][Next]_vars

-----------------------------------------------------------------------------
(***************************************************************************)
(* Properties.                                                             *)
(***************************************************************************)
Ops == {"check", "stat", "offset", "lookup", "insert", "new", "seek", "recv", "resolve",
        "loadsrc", "loaddst", "dec", "inc", "read", "drop", "update", "delrow"}
Cmds == {"none", "upload", "rm", "cp", "cpdir"}

\* Every variable holds a value of its type; ids come from the auto-increment.
TypeOK ==
    /\ nextId \in Nat /\ DOMAIN file \subseteq 1..(nextId - 1)
    /\ \A i \in DOMAIN file : file[i] \in [name : Names, md5 : Md5s]
    /\ \A m \in Md5s : real[m] \in Seq(Int) /\ store[m] \in Seq(1..Size(m))
    /\ \A s \in Sessions : todo[s] \in Seq(Ops)
    /\ reg \in [Sessions -> [cmd : Cmds, name : Names \cup {Null}, md5 : Md5s \cup {Null},
                             src : Names \cup Nat, dst : Nat, ret : BOOLEAN,
                             size : Nat, pos : Nat, got : Nat]]
    /\ reply \in [Sessions -> [cmd : Cmds, name : Names \cup {Null}, md5 : Md5s \cup {Null},
                               id : Nat, answer : {"none", "ok", "existing", "fail", "gone"}]]

\* Between commands file_count is the number of rows that share a real file, in one
\* record, which exists only while a row needs it: not after an exit has cut a
\* command that had the md5 in hand.
RefCountExact ==
    Quiet => \A m \in Md5s \ tainted :
                real[m] = IF Refs(m) = {} THEN <<>> ELSE <<Cardinality(Refs(m))>>

\* What a real file holds is always the beginning of its content, however often
\* an upload was cut, resumed by another command, or started again after an rm.
StoredPrefix ==
    \A m \in Md5s : Len(store[m]) <= Size(m) /\ \A i \in 1..Len(store[m]) : store[m][i] = i

\* rm reports success only if the entry it resolved is gone.
RmRemoves ==
    \A s \in Sessions :
        reply[s].cmd = "rm" /\ reply[s].answer = "ok" /\ reply[s].md5 \notin tainted
            => reply[s].id \notin DOMAIN file

\* No command meets a missing row unless the server exited inside another one.
NoFault == exits = 0 => faults = 0

\* An upload that is answered with success, or with "existing", leaves the whole
\* content in the real file, however many tries and exits it took.
UploadStored ==
    \A s \in Sessions :
        reply[s].cmd = "upload" /\ reply[s].answer \in {"ok", "existing"} =>
            store[reply[s].md5] = Whole(reply[s].md5)
=============================================================================
