# Verification of the private cloud disk

This directory holds TLA+ models of the server in `server/src`, the TLC runs that check
them on small instances, and proofs, checked by TLAPS, of what holds for every instance.
`PROJECT.json` maps every definition to the lines it models and lists the runs, hazards,
findings and theorems. All paths below are relative to the repository.

## The system

The server is one process. Its main thread accepts connections (epoll) and puts each in a
task queue; `PTHREAD_NUM` (10) worker threads take them out, and a worker serves its client
until the client leaves. A session logs a user in and then carries out one command after
another. Nothing but the queue is shared in memory: sessions meet in the MySQL tables `user`,
`file` and `file_real` and in the real files under `./file/`, each session on a database
connection of its own, without transactions.

| Component | Source | State | Operations |
|---|---|---|---|
| Main loop | `main.c` | listening socket, exit pipe | accept and queue; exit signal, broadcast, join |
| Task queue | `TaskQueue.c` | `queue_len`, `pHead`, `pTail`, `pNext`, mutex, condition | `InsertTaskQueue`, `GetTaskNode` |
| Workers | `ThreadPool.c` | `pTask`, `get_success` | wait, take, `UserFunc`, free, look at `exit_flag` |
| Session | `UserFunc.c` | user id, `father_id`, signal handlers of the process | login, command dispatch |
| File tree | `command.c` | `file` rows (father, name, type, user), `user.pwd` | `makedir`, `rm`, `mv`, `changeDir`, `getpwd`, `getls`, `tree` |
| File store | `transFile.c`, `command.c`, `mysql_operation.c` | `file.file_md5`, `file_real.file_count`, `./file/<md5>` | `user_upload`, `user_download`, `rmFileFunc`, `cp` |
| Directory copy | `mysql_operation.c` | `file` rows | `digui` |
| Accounts | `UserFunc.c`, `client/src/userlogin.c` | `user` rows | `LoginOrSignin`, `RePassWd` |
| Protocol | `UserFunc.c`, `client/src/command.c` | one TCP stream per session | command, check, answer, transfer, acknowledgement |
| MD5 | `client/src/md5.c` | block buffer | `MD5Update`, `MD5Final` |

What is hard about it: threads that meet at a mutex and a condition variable (lost wakeups,
stale flags, reused addresses); commands of several SQL statements that interleave with
those of other sessions or are cut by the end of the process; counts that stand for
references; a father id kept in a session while the tree changes; a working directory that
all sessions of a user share; uploads that are cut and resumed.

What makes each component correct:

- **Pool**: every accepted connection is served by exactly one worker, in order; no worker
  sleeps on a queued task; a task node is never used after `free`; a shutdown ends.
- **Store**: `file_count` is the number of entries with the content; the record exists while
  an entry needs it; a real file is always a beginning of its content; success of `upload`
  and `rm` means what it says.
- **Tree**: entries stay reachable from the root, names in a directory are unique, a user's
  entries are changed in that user's sessions only, and the kept father id is the working directory.
- **Accounts**: one row per username, one home directory per account; a login is accepted for
  the right password and for nothing else, whatever changes meanwhile. (Passwords are what
  `crypt` tells apart: it looks at eight characters.)
- **Protocol**: client and server agree on what the next bytes are; every command is answered;
  transfers that are cut line up when they go on.
- **Directory copy**: the copy has the shape of the source and lands where it belongs.
- **MD5**: what is hashed is exactly the padded file, whatever its size.

## Modules

| Module | Models | Role |
|---|---|---|
| `Dispatch` | what the pool promises | abstract specification |
| `ThreadPool` | `main.c`, `TaskQueue.c`, `ThreadPool.c` | detailed; `ImplementsDispatch` is the refinement |
| `ThreadPoolProofs` | | the theorems about `ThreadPool` |
| `FileStore` | uploads, `rm` and `cp` of files | contents and counts |
| `FileStoreProofs` | | the theorems about types, uploads and real files |
| `RefCountProofs` | | the theorems about the reference counts, on those of `FileStoreProofs` |
| `FileTree` | `mkdir`, `rm -r`, `mv`, `cd`, `pwd`, login, upload | directories and working directories |
| `CopyDir` | `cp`, `digui`, `detectsame` | extends `FileTree` by copies of directories |
| `FileTreeProofs` | | the theorems about `FileTree` |
| `CopyDirProofs` | | the theorems about `CopyDir`, on those of `FileTreeProofs` |
| `Account` | `LoginOrSignin`, `RePassWd` | accounts and home directories |
| `AccountProofs` | | the theorems about `Account` |
| `Protocol` | `client.c`, the client's `command.c` and `userlogin.c`, `UserFunc.c`, `transFile.c` | a client and its session on one stream |
| `ProtocolProofs` | | the theorems about `Protocol` |
| `Md5Stream` | `md5.c` without the transformation | the bytes that are hashed |
| `Md5StreamProofs` | | the theorems about `Md5Stream` |
| `MCThreadPool`, `MCFileStore`, `MCFileTree`, `MCAccount`, `MCProtocol`, `MCMd5Stream` | | instances for TLC |

The modules share the sessions but not their state: `Protocol` has the messages of all commands
and lets each of them succeed or fail; what they then do to the tables is in `Account`, `FileTree`,
`CopyDir` and `FileStore`. `CopyDir` and `FileTree` are one specification (`CopyNext` has the
steps of both), because a copy reads and writes the rows that the other commands change.

Definitions named "Faulty" in their comment are used by no specification: each is a plausible
mistake in one operation, and with it in place TLC finds the property broken.

### ThreadPool

State and code correspond one to one: `mutex` is the owner of `queue_mutex`; `queue_len`,
`pHead`, `pTail` and `exit_flag` are the fields of `task_queue_t`; `pNext` and `user_cfd` are
those of every task node; `pTask` and `get_success` are the workers' locals. `heap` is the
set of addresses `calloc` has returned and nobody has freed, so an address can be
reused while something still points at it. `mpc` and `wpc` say where main and the workers are:
one action for each lock, unlock, wait, broadcast, body of a critical section, and read of
`exit_flag` outside the mutex. `fifo` and `conns` are history. A session is two actions,
its begin (`UserFunc` installs its signal handlers) and its end. `SpuriousWake` is what
POSIX allows `pthread_cond_wait`. `SignalExit` ends the process at any moment once a
session has installed `sig_func`, and `AcceptError` is the failing `accept`.

`Dispatch` has the connections accepted, those that wait and the one each worker serves. The
mapping counts a connection as accepted when it is in the list, and reads the served ones
from the workers' task nodes.

### FileStore

A command is the sequence of its steps in program order (`todo`), with its locals in
`reg`; a step is an SQL statement, a look at a real file or a write to it, so commands
interleave and are cut where those of the code do. The `file` table has a name and an md5 per
row, `real` the records of each md5 in `file_real` (a sequence: nothing in the repository makes
md5 a key), and `store` the chunks of `./file/<md5>`. `cp` has three shapes
(`CpSteps`): onto a file, to a new name, and into a directory with an entry of that name,
where the order of the two counts is the other way round. A select without rows gives `cp` a
null pointer: `Fault`, the end of the process. `Exit` ends it for any other reason, between any
two steps; both leave tables and real files. `tainted` is history: the contents a cut command
had in hand, of which the code promises nothing, since nothing repairs them.
Abstracted: paths (a name is one entry of one user), sizes (`file_size` follows
from the md5), bytes (a content is `Size` chunks), and the answers to the client but for
the last one.

### FileTree

The same scheme for the directories. `rows` is table `file` (father, name, type, user);
`pwd` is the column `user.pwd`, one per user; `father` is `CmdAnalyse`'s local `father_id`, one
per session. `getFileId` walks one component per step (`GetNextFileId`), and goes on
from -1 after a component that does not exist, as the code does; `NextFileId` is
a set because a select may find several rows. `rm` keeps the ids still to visit, one set for
each directory it is in, and deletes a directory's row before it lists the children. `mv`
normalises the two paths as text (`Normal`) and then moves or renames. `cd` normalises, walks,
compares, updates `user.pwd`, and then reads it again to refresh `father`. A command reads
`user.pwd` once when it starts (the code reads it once per relative path). Two things
are left out: an upload that inserts no row, and what `rm` does to counts (both
are in `FileStore`). One effect of the counts on the tree is here: `rmFileFunc` returns before the
`delete` when it finds no record for a file's content (`command.c:611-615`), so the row stays
(`RmDelete`, second alternative). That takes somebody else who dropped the record of a content that is
still referenced: two sessions that remove the last two references at once, of two users or,
by overlapping `rm -r`, of one. `RecordsGone` says whether it may happen, and then it may for any file;
`lost` is history: the ids of the files left so. For one session alone it cannot: the counts are
exact (`StoreSolo`, `CountsExact`), so `RecordsGone` is `FALSE` in `TreeTidy`. Paths with more `..` than components before them are not given to the
model: the code indexes an array below 0 there.

### CopyDir

`cp` resolves both paths, and the types of what it finds decide: into a directory (`CpSame`), to
a new name (`CpFather`), or a refusal. `detectsame` looks at the rows of all users. A copy that
is there already goes through `rmDirFunc` first, with the steps of `rm`. A file into a directory that has
its name walks to that entry (`CpOverwrite`) and gives it the content; if a directory has the name, or another
user's entry, there is no content to count down: a null pointer. `digui` is recursive: `frames`
is the stack of its calls, each with the id of the new directory and the children still to copy.
Per directory it inserts a row (`DirRow`), asks for the largest id (`Newest`), and lists the children
(`Children`); per child it looks at the type and goes down or inserts a file (`Child`, `FileRow`). A row
that is gone when it is looked at again is a null pointer: `Crash`, the end of the process. `made` is
history: the source and its shape when the copy started. A file onto a file changes contents only
and is in `FileStore`; here it may fail for want of a record (`RecordsGone`). The reference counts of the files in a copied directory are in neither.

### Account

One action per SQL statement of `LoginOrSignin` and `RePassWd`; between two of them another
session may take any step, the client may go (`Leave`, where the session reads), or the
process may end (`Exit`). A text in the table is what `crypt` makes of a password and a salt,
different for different arguments (the `crypt` of 13-character texts looks at the first eight characters of a
password only: two passwords that begin alike are one here); a salt is what `crypt` uses of it, and any salt may come again, since
`GetRandomStr` starts from the time in seconds. `Received` is what `recv` leaves in
`new_password`. History: `word` is the password a row's text was made of, `seen[s]` the rows the
username had during the login of `s`, and `cut` the accounts whose registration an exit
interrupted. The id of a registration is looked up by name and text (`GetId`); if a login has
changed the password before, the null row ends the process.

### Protocol

`cl` and `sv` are the two programs, each at a place named after the message it reads next;
`toServer` and `toClient` are the two directions of the connection. A message carries the purpose it was sent
for. In the code it does not: that is why a reader that meets another purpose stops,
and `ClientInStep` and `SessionInStep` say that it does not happen. A content is a
sequence of numbered chunks, so a chunk that is lost, doubled or misplaced shows. `Type` is a line
the user types, with the right number of words, too many, or none; `Outgoing` is what the client sends
for it. The two sides of a transfer keep the counters of the code (`need`, `got`, `pos`) and
move up to `Buf` chunks a turn. An upload of a content that is not whole makes an entry or, if the content has
a record, none (`ServeUpload`; the records are in `FileStore`, and may be another session's work). `Leave` ends the client anywhere, `Eof` is the session's notice of it, and
`Connect` the next run of the client, with the files as they were left. `Grow` is another session's upload of
a content that this one downloads. `Atoi` has the width of an `int`. A message that is shorter than a segment
arrives whole (the code's `recv` calls without `MSG_WAITALL` rely on that); file data does not.

### Md5Stream

`ctx` is `MD5_CTX` with the bytes transformed so far in place of the state: `MD5Update`
cuts its input into blocks through the buffer, `Add` counts bits in two words with the carry by hand,
`MD5Final` pads. `Padded` is the definition of RFC 1321, written without a buffer. Block and
word sizes are constants; a word is encoded in one byte instead of four.

## Runs

Passing runs; the number of states is TLC's count of distinct states.

| Run | Instance | Shows |
|---|---|---|
| `PoolSafety` | 3 workers, 3 nodes, 4 connections, symmetry; 156 000 states | types, `QueueWellFormed`, `ExclusiveOwnership`, `NoLostWakeup`, `ImplementsDispatch` |
| `PoolLiveness` | 2 workers, 3 connections, fair | `EveryTaskTaken`, `ShutdownFromIdle` |
| `StoreSolo` | 1 session, 3 names, 2 contents, 5 commands, 2 lost connections, 1 exit; 500 000 states | `RefCountExact`, `StoredPrefix`, `RmRemoves`, `UploadStored`, `NoFault` |
| `StorePinned` | 2 users, 4 commands, contents with a lasting reference; 230 000 states | the counts commute: `RefCountExact`, `RmRemoves`, `NoFault` |
| `TreeTidy` | 1 session, 4 commands, 2 logins, one file onto another; 186 000 states | `Rooted`, `SiblingsUnique`, `CwdCached`, `CopyShape` |
| `TreeUsers` | 2 sessions of one user and 1 of another, 3 commands, two files in the removed directory, any of which may have lost its record; 765 000 states | `Isolation`, `FathersOwn`, and `Rooted` under interleaved `rm -r`, `rm -r`, `mv` and another user's `cp` |
| `Conversation` | 2 connections, 3 files of up to 3 chunks, 13 lines a user may type; 94 000 states, fair | `ClientInStep`, `SessionInStep`, `NothingUnread`, `TransfersLineUp`, `UploadKept`; `Answered`, `SessionEnds` |
| `Accounts` | 2 sessions, 2 names, 2 passwords, 2 salts, 5 operations; 439 000 states | `UniqueNames`, `HomeForEach`, `LoginRight` |
| `Md5` | every size from 0 to 150, blocks of 4, words of 16, pieces of 11; 2 500 states | `NothingLost`, `DigestOfFile` |

Each run also checks the type invariant of its module where it has one in its cfg.

Why these bounds are enough to be interesting. In `PoolSafety` four connections exceed both
workers and nodes, so a node is freed and allocated again while others are queued, and a queue
runs empty and is filled again. In `PoolLiveness` a connection waits for a busy pool. In `StoreSolo`
five commands allow an upload to be cut, removed, resumed, copied and removed again, with the
exit at any statement. In `StorePinned` two commands of each user overlap in
every way. The tree has three levels, so that a removal has to recurse and a move takes a
subtree with it; with two commands more than a copy needs, the copy is removed, replaced, or its source
changed afterwards. In `Conversation` a transfer takes two turns of each loop, so it is cut before, between
and after them, and the second connection resumes it. In `Accounts` five operations are a
registration, a login that two changes of password race, and a second account. In `Md5` the piece is
neither a multiple of the block nor shorter than it, so pieces end everywhere in a block; 150 bytes have
300 bits, more than the 256 that two words of 16 count. `MaxSize`, `MaxOps`, `MaxCmds`, `MaxLosses`, `MaxExits`, `MaxLogins` and `MaxConns` are
the only bounds; all of them are arbitrary in the theorems.

Violation runs: a statement of a comment or of `src/README.md` that the code does not keep, in
the smallest instance that shows it.

| Run | Property | What happens |
|---|---|---|
| `PoolShutdown` | `ShutdownCompletes` | a worker reads `exit_flag` just before it is set, sleeps after the broadcast, and main joins it for ever |
| `CopyRace` | `FathersOwn` | two users copy a directory each; `max(id)` is the other one's row, and the copied child lands in the other tree |
| `StrayNumber` | `NothingUnread` | `download` without a name: the client confirms a download it never asked for, and the session reads the number as a command |

The workloads and constants of the passing runs are chosen: the properties do not hold of the code for
every one. Besides what the violation runs show, these are left out, each because TLC
refutes the property with it:

- `FathersOwn`: an insertion of another user, or a removal by another session of the same user, while a
  directory is copied.
- `RefCountExact`: `cp f f` of a content with one reference, which deletes the record and then counts
  up nothing (`command.c:145` before 156); two sessions of one user that remove the same entry (two
  decrements, one deletion).
- `RmRemoves`: the last two references removed at once by two users; one finds no count any more,
  leaves its row and reports success (`command.c:611-615`). What this does to the tree is not left out:
  `TreeUsers` lets it happen to any file, and `Rooted` allows for the files in `lost`.
- `StoredPrefix`: two first uploads of one content (both write all of it).
- An entry for every upload that is answered with success: a cut upload resumed under another name, or after
  a copy of the partial content, inserts none (`transFile.c:179`). `UploadStored` is about the content only.
- `Rooted`: `mv c c`; `mkdir d/e` without `d` (the row's father is -1); and two sessions that both
  move `d` to the new name `e` (the second one puts `e` into itself). So only one session
  moves in `TreeUsers`. Files whose content has lost its record when `rm -r` comes to them stay below a
  directory that is gone; `Rooted` excepts them by name (`lost`), and nothing else. And an end of the
  process in the middle of an `rm -r`, which has deleted the directory and not what is in it: no run and no
  theorem about `Rooted` has one.
- `SiblingsUnique`: two sessions of one user that make one directory at once; `mv c/f e`, which looks
  for `e` in the working directory and renames inside `c` (`TreeTidy` moves to absolute
  targets); and a copy of a directory next to an uploaded file of the copy's name.
- `CwdCached`: `rm` of the working directory, and a second session of the user, whose login
  or `cd` moves the working directory of the first.
- Copies: `cp c/d c`, which removes its own source and then crashes, and `cp c c`, which copies what it
  has just made for ever. `cp` from or to `/` crashes.
- `UniqueNames`: two clients that register one name at one time (`NamesAssumption` excludes them).
- `LoginRight`: `recv` that fails while a password is awaited (`Resets`), which stores an empty one.
- `Answered`: no connection to the database (`DbFails`: the session returns and leaves the socket
  open), and a disk that is full (`Room`: `user_upload` returns -1 and no answer is sent).
- `NothingUnread`: a file that grows while it is downloaded (`GrowsWhileSent`: more is sent than was announced).
- `SessionInStep`: sizes beyond an `int` (`Half`); a local file longer than the server's by two,
  whose difference is the code for "no such file".
- `DigestOfFile`: a `read` that returns less than there is (`ShortReads`: the loop takes it for the end).

Deadlock is not checked: a behaviour ends when the commands of the workload are used up, the
process has ended, in the pool main waits in a join (`ShutdownCompletes` asks about that), or a
conversation waits for the user, who may never type again.

## Fairness

The pool and the protocol have liveness properties. In `ThreadPool`, `Fairness` is weak for every step of main and of each
worker, since the kernel runs every runnable thread, and strong for the steps that take the
mutex, since a thread that asks again and again for a mutex that is released again and again
gets it (Linux does not promise that of each single race, only starvation is excluded).
`UserFuncEnds` is one of the workers' steps: a client leaves some day. Without
that assumption ten clients that stay occupy the pool, and an eleventh waits for ever. Nothing is
assumed of signals, accepts, and spurious wakeups: they may never happen.

In `Protocol`, `FairSpec` is weak fairness for the client's program and for the session's: each goes on
while it has a message to read or data to send, and the kernel delivers what was sent. The user owes
nothing, neither a command nor a login nor the end of the client. `Answered` therefore speaks of the
time between a line typed and the next prompt, and `SessionEnds` of a client that has gone.

## Proofs

`ThreadPoolProofs` proves, for any finite or infinite sets `Workers` and `Nodes` and any
`MaxConns`, from the named assumptions of `ThreadPool` (the main thread is no worker, the null
pointer is no thread and no address):

- `Inductive`: `Spec => []IInv`, and from it `TypeCorrect`, `ListCorrect`, `SingleOwner` and
  `NoSleeperLeft`, the invariants `PoolSafety` checks;
- `DispatchImplemented`: `Spec => ImplementsDispatch`.

The three safety invariants are not inductive by themselves. That a worker may take the head of
the list needs that whoever is inside a critical section owns the mutex (`Locking`); that a
node to be inserted is not in the list, that it ends in a null pointer and that a freed node is
nobody else's needs to know in which places main and the workers hold a task (`Locals`); and that
two nodes never carry the same connection needs that numbers are handed out in order
(`Numbering`). `IInv` is the conjunction. The proof has a lemma for each
conjunct, with a step for each action that can disturb it, and two lemmas about what
`InsertTaskQueue` and `GetTaskNode` do to the list (`InsertEffect`, `TakeEffect`). For the
refinement, inserting is `Arrive`, a successful `GetTaskNode` is `Hand`, the end of a session is
`Finish`, and every other action leaves the mapped variables alone.

`FileTreeProofs` proves `UsersApart`, `Spec => Isolation`, for any sessions, users, initial trees
whose rows have fathers of their own user, and any commands with any paths: no interleaving of commands changes a row
of a user in a step of another user's session. It rests on `IdsStayApart`: every id a session holds, as
a position on a path, as a result, as the father id kept for uploads or as an id that `rm` has yet to
visit, is in `OwnIds`, the ids whose row, if there is one, is the user's and which no row
will get later. That is what makes the stale ids of interleaved commands harmless for the
other users: an id that is gone never comes back, because `nextId` only grows, and a father id is always
one of the row's own user, so that following `..` from an own row cannot enter another
user's tree, only pass the root, below which the select filters by user (`NextOwn`). The
step lemmas say that a write keeps this of the rows (`WriteKeepsRows`), and that the kept father ids
(`FathersKept`) and the locals (`SessionKept`) stay clean. `WritesOwn` then gives the action
property. The assumptions are those `FileTree` names.

`AccountProofs` proves, for any sessions, names, passwords, salts and any number of operations, from
`NamesAssumption` (no two clients register one name at one time) and `BoundsAssumption`:

- `Inductive`, `Spec => []IInv`, and from it `TypeCorrect`, `NamesUnique` and `HomeOwned`. Unique
  names are not inductive: the insertion comes a round trip after the look. `Registering` says that a
  registration that waits for its password still has the name for itself, which only
  another registration of the name could change, and that the name stays one of its client's until the
  home directory is inserted; that is also why no two registrations mix up their ids, though
  passwords and salts may be equal. `Locals` ties the id to the name.
- `LoginsRight`, `Resets = FALSE /\ Spec => []LoginRight`, from `IInv` and three facts of its own
  (`LInv`): a login that is underway has seen every row its username has now, and the salt it sent
  came from one it has seen (`Watched`); a row's text is that of its password and salt together
  (`Paired`), because `RePassWd` writes both in one statement. A refusal of the right password would then
  need a row with that password and another salt, so a second row in `seen`. One lemma covers the
  steps that leave the table alone (`LoginQuiet`), one those that write it (`LoginWatch`).

`FileTreeProofs` also proves `TypeCorrect`, for commands that name what they make (`Named`; `makedir`
does not look, and `mkdir ..` makes a row of that name). The part with substance is the path that
`cd` stores in `user.pwd`: `Normal` is a recursive function, and `NormalNames`, that it leaves no "." and
no "..", needs an induction over the path. The library's induction theorem cannot be
used (it takes an operator), so `UpTo` derives the induction for a set of numbers from the
well-foundedness of `<`, `NormExists` gives the function that `Normal` chooses, and `AfterNames` is the step.
`Left` says which steps may be left of a command with given locals: a rename only with a target
that has a last component, an upload only with a father.

`SiblingNamesUnique`, `Spec => []SiblingsUnique` for `Tidy` commands: one session to a user (`Serial`), no
".." in what `mv` takes, and the names that uploads may bring twice are not those that `cd`
and targets of `mv` go through. The look for the name and the write are different statements, so the
invariant `UInv` says for every rest of a command what is known at that point (`Knows`): that the name is
free where `mkdir` stands, that the id `mv` holds is what its source path leads to, that the
directory it moves to is the one its target names, and that no entry of the moved name is there. These
facts are about paths, so they need what a walk gives: `FileId` (a recursive function) is characterised by
`FileIdRoot` and `FileIdMore`, `Normal` likewise, and induction over a path goes through `SeqUpTo`, the
sequences counterpart of `UpTo` below. That names are unique (`Apart`) is itself needed for it: only
then does a path lead to one id. Other users' steps change none of it (`SameRows`).

`FatherIdIsPwd`, `Settled /\ Spec => []CwdCached` for `Steady` commands: `Tidy`, and `rm` and `mv` name no entry by a
name that a `cd` or a home directory has (`Visited`); `Settled` asks that the home directories, and those into
which an absolute `mkdir` or `mv` puts an entry, are there in the first state. The invariant `WInv` is
`UInv` with: the working directory, and whatever a command will set it to, has a firm way
(`FirmTo`: rows of the user one below the other, with visited names, from the root), which ends in a
directory (`Firm`); every step that is
left of a command spares the rows on such ways (`Errand`: what `rm` has still to visit is loose, the entry `mv`
renames has another name); and the father id is where the firm way of `user.pwd` ends, unless
`getpwd` is about to look it up (`Fathered`). One more fact is needed, and was found as a
counterexample of TLC to an earlier form: no entry hangs below the id -1 that `getFileId` gives
for a missing directory (`NoOrphans`), or `cd` would resolve through it.

`EntriesHangBelowRoot`, from `Settled`, `Rooted` and `Placed(u)` for every user, for commands that are `Steady`
and `Forward`. It says two things: always `Rooted`, where every row in `lost` that is still there is a
file's; and if no content in use loses its record (`~RecordsGone`), every entry hangs below the root between
commands, without exception. `Forward`: `mv` moves nothing into itself, that is, the name it moves does not occur in the destination, or both
paths are absolute and the one is no beginning of the other; the code compares neither.
`Rooted` is about chains of fathers of any length, and only about the time between commands, while `rm` deletes a
directory first and finds its entries afterwards. The invariant `RInv` says the same locally and of
every state. `Grounded`: no set of entries has all its fathers in itself, so there is no ring. `Hung`: an entry lies in the
root or a directory of its user (`Placed`), or some `rm` has its father still to visit, to list or to
delete (`Due`), or it is in `lost`. A lost row leaves nothing else hanging, because
it is a file's and stays one (`LostFiles`), and entries lie in directories. `Aimed`: an upload about to insert has a father id, and what `mv` holds is its source, with a
destination not below it (`Aside`, `FromSource`); that the directory they, or `mkdir`, write into
is still there follows from `WInv`, as firm ways end in directories. That `mv` makes no ring is two lemmas: with names
unique, one path leads to an entry (`OnePath`); and were there a ring, the entry that moves would lie on
the path to the place it moves to (`Climb`). `Below` is a recursive function, whose levels
`BelowIs` gives; `RootedGrounded` and `GroundedRooted` lead from `Rooted` to the local form and back, the latter by
counting: every level before the last has an entry that no earlier one has, and there are finitely many.

`CopyDirProofs` proves `CopiesStayInTree` (`FathersOwn`) and `CopiesIsolated` (`Isolation`) of `CopySpec`
under `SoleCopier`: one session copies directories, meanwhile sessions of other users
insert nothing, and other sessions of its own user remove nothing. These conditions are where the
property ends: a second copier is the run `CopyRace`; a `mkdir` of another user between the insertion and
`select max(id)` makes the same mistake; and a removal by the user's other session can take the
row just inserted away, and the largest id is then somebody else's. The invariant `CInv` is
`IInv` of `FileTreeProofs` with `FramesClean` (what `digui` has on its stack are ids of its user),
`Others` (what the other sessions are about to do), and `CopyPlace`: until `max(id)` is asked,
the largest id is that of a row of the copier's user. `CopiesTyped` is `TypeOK` of `CopySpec`, which the
run `TreeTidy` checks, under `SoleCopier`, `Named` and the same about what is copied (`CopiesNamed`): the invariant is
`TInv` of `FileTreeProofs` with `CopyTyped` (the ids on the stack of `digui` are ids some row had,
and the next thing it makes has a name), one lemma per step of `cp` and of `digui`.

`ProtocolProofs` proves, for any files, sizes, commands, buffer and number of connections, from
`Regular`, `TypeCorrect`, `ClientReadsItsAnswers`, `SessionReadsItsRequests`, `NothingIsUnread`,
`TransfersAreResumed` and `UploadsAreKept`. The inductive invariant `IInv` says for every pair of places of
client and session exactly which messages are on the way in both directions (`Conversation`), with
the counters of a transfer that is underway: what is announced, what has been sent, what is in the stream and what
has arrived add up. There is one lemma per step of the client and of the session. `Regular` is what
the code needs: no file grows while it is sent (`GrowsWhileSent`; otherwise `NothingUnread` fails),
sizes fit into an `int` (`Half`), the disk holds what is uploaded (`Room`), a download names a file (otherwise
`StrayNumber`), and the client's file is not longer than the server's; without one of the
second, third and fifth, TLC refutes `SessionInStep`.

`Md5StreamProofs` proves `TypeCorrect`, `EveryByteIsGiven` (`NothingLost`) and, if only the last `read` is short
(`~ShortReads`), `DigestIsOfFile`, for any size of file, block, piece and word that `SizesAssumption` allows. The invariant
`IInv` states how the two words of the count, the index into the buffer and the blocks given to the
transformation follow from the position in the file (`ReadGiven`), and what is given once the padding
is (`DigestOfRead`). Most of the proof is about quotients and remainders by the block and word size,
which the prover does not do by itself.

`FileStoreProofs` names the places of every command, the sequences of steps that may be left of it, and
proves where each step leads. `Typed` is that invariant (`TInv`: types, and the locals that each place
needs), and `TypeCorrect` follows. `PrefixStored` and `UploadsStored` hold if no two sessions upload
one content (`Sole`; otherwise both write all of it). `SInv` adds to the two properties what an upload knows
while it writes (`Uploading`): nobody else writes the real file, so the offset it was given
is still its length.

`RefCountProofs` proves `CountsExact`, `RemovesRow` and `NeverFaults` for sessions that work apart (`Apart`): each
has a tree of its own, a content that two of them may have also belongs to an entry that nobody removes,
and no file is copied onto itself. TLC refutes `RefCountExact` or `RmRemoves` without any one of
the three. `RefCountExact` speaks of the time between commands; the invariant has to speak of all the
others. While a command runs the count differs from the number of rows by what it has still to do:
a row may be there and not counted yet or not any more (`Pending`), and a row that is about to take over
another content is counted for it in advance (`Copying`). `N(m)` is the number of rows with that correction, and
`Counts` says the record of `m` holds `N(m)` in every state, and stays at 0 only while a command is about
to read or drop it. `Claim` keeps what a command has read of a count true until it acts on it, `Gone` the
removal that was reported. `RInv` comes first: the rows a session works on are its own, and the pinned
entries stay. Contents that an exit or a fault left half done (`tainted`) are not spoken of. `NoFault` holds
until the first exit.

The conditions of these theorems are met by the runs: `Named`, `CopiesNamed` and `SoleCopier` hold of the commands of `TreeTidy`
and `TreeUsers`, `Tidy`, `Steady`, `Forward`, `Settled`, `Rooted` and `Placed` of the commands and the first tree of `TreeTidy`
(whatever `RecordsGone` is), `Apart`
and `Sole` of `StoreSolo` and `StorePinned`, `Regular` of `Conversation`.

Only model-checked:

- the liveness properties `EveryTaskTaken`, `ShutdownFromIdle`, `Answered` and `SessionEnds`: TLAPS does not prove
  liveness under fairness;
- `SiblingsUnique`, `CwdCached` and `Rooted` with `cp` in the workload (the theorems are about `Spec`, the run
  checks `CopySpec`), `Rooted` with two sessions of one user (`TreeUsers`), and `CopyShape`, which says what a finished `cp` has made of a whole tree.

## Not modelled

Logging, time stamps, the client's prompts and output, the splitting of the typed line, socket set-up, and
configuration files have no state the properties are about. MySQL itself is external: a statement is
atomic and auto-committed, ids are auto-incremented, and neither `file_real.md5` nor `user.username` is
a unique key, as nothing in the repository declares one. Fixed buffers (20 path components of 19
characters, 200 children in `rmDirFunc`, 16 in `digui`, the listing buffer) are not modelled: the models
stay within them. `sendfile`, for big files, is modelled by the loop for small ones; that it may send
less than it was asked for is not. A message is not split: where the code reads a command, a password or
a length without `MSG_WAITALL`, a part of it would be taken for the whole. `MD5Transform` is left
out. The reference counts of the files that `digui` copies are left out, and so is what a
reader makes of bytes that were meant for something else.

## Plan

1. `SiblingsUnique`, `CwdCached` and `Rooted` for `CopySpec`: what `cp` knows of a name between the look and the
   write.
2. The counts of `digui` in `CopyDir`, against `FileStore`.
3. `PathNames`: `myStrTok`, the parent path and `Normal` against a reference definition.
