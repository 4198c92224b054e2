--------------------------- MODULE RefCountProofs ---------------------------
(***************************************************************************)
(* The reference counts of FileStore are exact, if the sessions work in    *)
(* trees of their own and what they share keeps a reference.  FileStore-   *)
(* Proofs has the types, the places of a command, and where each of its    *)
(* steps leads.                                                            *)
(*                                                                         *)
(* While a command runs, the count in file_real is not the number of rows: *)
(* the row it works on may not be counted yet or not any more, or counted  *)
(* twice.  The places of all sessions say by how much the two differ.      *)
(***************************************************************************)
EXTENDS FileStoreProofs

-----------------------------------------------------------------------------
(***************************************************************************)
(* The places, by what is known there.                                     *)
(***************************************************************************)
\* The count of the row dst is not in the record: not yet, or not any more.
Behind == {Inc, UpNew, RmRead, RmDrop, RmRow, CpRead, CpDrop, CpSource, CpUpdate, DirRead,
           DirDrop, DirReload, DirUpdate}
\* The row src is counted in the record once for dst as well.
Ahead == {DirLoad, DirDec, DirRead, DirDrop, DirReload, DirUpdate}
\* The record is about to be read or dropped.
Reading == {RmRead, RmDrop, CpRead, CpDrop, DirRead, DirDrop}
Dropping == {RmDrop, CpDrop, DirDrop}
\* The command has the row dst.
HasDst == {RmLoad, RmDec, RmRead, RmDrop, RmRow, CpLoad, CpDec, CpRead, CpDrop, CpSource,
           CpUpdate, DirSource, DirInc, DirLoad, DirDec, DirRead, DirDrop, DirReload, DirUpdate,
           Inc, UpNew}
\* The md5 in hand is that of the row dst, or of the row src.
OfDst == {RmDec, RmRead, RmDrop, RmRow, CpDec, CpRead, CpDrop, CpSource, DirDec, DirRead,
          DirDrop, DirReload, Inc, UpNew}
OfSrc == {NewInsert, Inc, CpUpdate, DirUpdate, DirInc, DirLoad}

\* The places that are not in a set (those that are need no lemma).
LEMMA Table ==
    /\ {<<>>, Resolve, UpCheck, UpStat, UpOffset, UpLookup, UpInsert, UpSeek, UpRecv,
        RmLoad, RmDec, NewLoad, NewInsert, CpLoad, CpDec, DirSource, DirInc, DirLoad,
        DirDec} \cap Behind = {}
    /\ {<<>>, Resolve, UpCheck, UpStat, UpOffset, UpLookup, UpInsert, UpNew, UpSeek, UpRecv,
        RmLoad, RmDec, RmRead, RmDrop, RmRow, NewLoad, NewInsert, Inc, CpLoad, CpDec,
        CpRead, CpDrop, CpSource, CpUpdate, DirSource, DirInc} \cap Ahead = {}
    /\ {<<>>, Resolve, UpCheck, UpStat, UpOffset, UpLookup, UpInsert, UpNew, UpSeek, UpRecv,
        RmLoad, RmDec, RmRow, NewLoad, NewInsert, Inc, CpLoad, CpDec, CpSource, CpUpdate,
        DirSource, DirInc, DirLoad, DirDec, DirReload, DirUpdate} \cap Reading = {}
    /\ {<<>>, Resolve, UpCheck, UpStat, UpOffset, UpLookup, UpInsert, UpNew, UpSeek, UpRecv,
        RmLoad, RmDec, RmRead, RmRow, NewLoad, NewInsert, Inc, CpLoad, CpDec, CpRead,
        CpSource, CpUpdate, DirSource, DirInc, DirLoad, DirDec, DirRead, DirReload,
        DirUpdate} \cap Dropping = {}
    /\ {<<>>, Resolve, UpCheck, UpStat, UpOffset, UpLookup, UpInsert, UpSeek, UpRecv,
        NewLoad, NewInsert} \cap HasDst = {}
    /\ {<<>>, Resolve, UpCheck, UpStat, UpOffset, UpLookup, UpInsert, UpSeek, UpRecv,
        RmLoad, NewLoad, NewInsert, CpLoad, CpUpdate, DirSource, DirInc, DirLoad, DirUpdate}
        \cap OfDst = {}
    /\ {<<>>, Resolve, UpCheck, UpStat, UpOffset, UpLookup, UpInsert, UpNew, UpSeek, UpRecv,
        RmLoad, RmDec, RmRead, RmDrop, RmRow, NewLoad, CpLoad, CpDec, CpRead, CpDrop,
        CpSource, DirSource, DirDec, DirRead, DirDrop, DirReload} \cap OfSrc = {}
    /\ <<>> # Resolve /\ <<>> # Inc
BY DEF Behind, Ahead, Reading, Dropping, HasDst, OfDst, OfSrc, Resolve, UpCheck, UpStat,
       UpOffset, UpLookup, UpInsert, UpNew, UpSeek, UpRecv, RmLoad, RmDec, RmRead, RmDrop,
       RmRow, NewLoad, NewInsert, Inc, CpLoad, CpDec, CpRead, CpDrop, CpSource, CpUpdate,
       DirSource, DirInc, DirLoad, DirDec, DirRead, DirDrop, DirReload, DirUpdate

LEMMA AheadIsCopy ==
    Ahead \cap (UploadTodos \cup RmTodos \cup CpTodos) = {}
BY Table DEF UploadTodos, RmTodos, NewTodos, CpTodos

LEMMA OfDstHas == OfDst \subseteq HasDst
BY DEF OfDst, HasDst

LEMMA ReadingOfDst == Reading \subseteq OfDst /\ Dropping \subseteq OfDst /\ UpNew \in OfDst
BY DEF Reading, Dropping, OfDst

LEMMA UploadOnly ==
    ASSUME NEW t \in {UpInsert, UpNew}
    PROVE  t \notin RmTodos /\ t \notin CpTodos /\ t \notin CpDirTodos
<1>1. Head(t) = "new" \/ (Head(t) = "insert" /\ t # NewInsert)
  BY UploadOps
<1>2. QED BY <1>1, InRm, InCp, InCpDir

-----------------------------------------------------------------------------
(***************************************************************************)
(* The sessions apart.                                                     *)
(***************************************************************************)
\* The contents that rows in the tree of a session's user can have.
Contents(s) == {u[2] : u \in {v \in Uploads \cup Preloaded : v[1] \in NamesOf(s)}}

\* The names rm and cp may take a content away from, and the contents of the others.
Overwritten == Removes \cup {c[2] : c \in Copies}
Pinned == {p[2] : p \in {q \in Preloaded : q[1] \notin Overwritten}}

\* Every session has a tree of its own, a content that two of them can have is pinned,
\* and no file is copied onto itself.
Apart ==
    /\ \A s, t \in Sessions : s # t =>
          NamesOf(s) \cap NamesOf(t) = {} /\ Contents(s) \cap Contents(t) \subseteq Pinned
    /\ \A c \in Copies : c[3] = "file" => c[1] # c[2]

-----------------------------------------------------------------------------
(***************************************************************************)
(* What a session knows of its rows.                                       *)
(***************************************************************************)
Mine(s, i) == i \in DOMAIN file /\ file[i].name \in NamesOf(s)

\* The operands of a command that has not resolved them.
Asked(s, r) ==
    \/ r.cmd = "rm" /\ r.name \in Removes
    \/ /\ r.cmd \in {"cp", "cpdir"} /\ r.src \in NamesOf(s) \cap Overwritten
       /\ r.cmd = "cp" => r.name # r.src

Rows(s, t, r) ==
    t # <<>> =>
        /\ r.name \in NamesOf(s)
        /\ r.cmd = "upload" => r.md5 \in Contents(s)
        /\ r.cmd # "upload" => IF t = Resolve THEN Asked(s, r) ELSE r.name \in Overwritten
        /\ t \in HasDst => Mine(s, r.dst) /\ file[r.dst].name = r.name
        /\ t \in OfDst => r.md5 = file[r.dst].md5
        /\ r.cmd \in {"cp", "cpdir"} /\ t # Resolve =>
              /\ Mine(s, r.src)
              /\ t \in OfSrc => r.md5 = file[r.src].md5
              /\ t = Inc \/ (r.cmd = "cp" /\ t \in HasDst) => r.src # r.dst

Pending == {reg[s].dst : s \in {t \in Sessions : todo[t] \in Behind}}
Copying == {reg[s].src : s \in {t \in Sessions : todo[t] \in Ahead}}

\* Every row has a content of its user, and what is pinned has a row that is counted.
RowsOwn ==
    \A i \in DOMAIN file, s \in Sessions :
        file[i].name \in NamesOf(s) => file[i].md5 \in Contents(s)
PinnedKept ==
    \A p \in Preloaded : p[1] \notin Overwritten =>
        \E i \in DOMAIN file \ Pending : file[i].name = p[1] /\ file[i].md5 = p[2]

RInv == RowsOwn /\ PinnedKept /\ \A s \in Sessions : Rows(s, todo[s], reg[s])

-----------------------------------------------------------------------------
(***************************************************************************)
(* What the counts are.                                                    *)
(***************************************************************************)
Count(R, P, C) == Cardinality(R \ P) + Cardinality(R \cap C)
N(m) == Count(Refs(m), Pending, Copying)

Record(n, here) == IF n > 0 \/ here THEN <<n>> ELSE <<>>

ReadBy(s, m) == todo[s] \in Reading /\ reg[s].md5 = m

Counts ==
    \A m \in Md5s \ tainted : real[m] = Record(N(m), \E s \in Sessions : ReadBy(s, m))

\* What a command has seen of a count still holds where it acts on it.
Claim(t, r) ==
    t # <<>> /\ r.md5 \in Md5s \ tainted =>
        /\ t \in Dropping \cup {UpInsert, UpNew} => N(r.md5) = 0
        /\ r.cmd = "upload" /\ t \in {NewInsert, Inc} => N(r.md5) > 0

Gone ==
    \A s \in Sessions :
        reply[s].cmd = "rm" /\ reply[s].answer = "ok" /\ reply[s].md5 \notin tainted
            => reply[s].id \notin DOMAIN file /\ reply[s].id < nextId

CInv ==
    /\ Counts /\ Gone
    /\ \A s \in Sessions : Claim(todo[s], reg[s])
    /\ exits = 0 => faults = 0 /\ tainted = {}

-----------------------------------------------------------------------------
(***************************************************************************)
(* A step of session s leaves the rows of the others as they are.          *)
(***************************************************************************)
Moves(s, t, r) == todo' = [todo EXCEPT ![s] = t] /\ reg' = [reg EXCEPT ![s] = r]

LEMMA Moved ==
    ASSUME TInv, NEW s \in Sessions, NEW t, NEW r, Moves(s, t, r)
    PROVE  /\ todo'[s] = t /\ reg'[s] = r
           /\ \A x \in Sessions : x # s => todo'[x] = todo[x] /\ reg'[x] = reg[x]
BY DEF TInv, SessionsTyped, Moves

\* What is pending and copied, of session s and of the others.
PendingBut(s) == {reg[x].dst : x \in {y \in Sessions \ {s} : todo[y] \in Behind}}
CopyingBut(s) == {reg[x].src : x \in {y \in Sessions \ {s} : todo[y] \in Ahead}}

LEMMA Others ==
    ASSUME TInv, NEW s \in Sessions, NEW t, NEW r, Moves(s, t, r)
    PROVE  /\ Pending = PendingBut(s) \cup IF todo[s] \in Behind THEN {reg[s].dst} ELSE {}
           /\ Pending' = PendingBut(s) \cup IF t \in Behind THEN {r.dst} ELSE {}
           /\ Copying = CopyingBut(s) \cup IF todo[s] \in Ahead THEN {reg[s].src} ELSE {}
           /\ Copying' = CopyingBut(s) \cup IF t \in Ahead THEN {r.src} ELSE {}
<1>1. /\ todo'[s] = t /\ reg'[s] = r
      /\ \A x \in Sessions : x # s => todo'[x] = todo[x] /\ reg'[x] = reg[x]
  BY Moved
<1>2. Pending = PendingBut(s) \cup IF todo[s] \in Behind THEN {reg[s].dst} ELSE {}
  BY DEF Pending, PendingBut
<1>3. Copying = CopyingBut(s) \cup IF todo[s] \in Ahead THEN {reg[s].src} ELSE {}
  BY DEF Copying, CopyingBut
<1>4. Pending' = PendingBut(s) \cup IF t \in Behind THEN {r.dst} ELSE {}
  BY <1>1 DEF Pending, PendingBut
<1>5. Copying' = CopyingBut(s) \cup IF t \in Ahead THEN {r.src} ELSE {}
  BY <1>1 DEF Copying, CopyingBut
<1>6. QED BY <1>2, <1>3, <1>4, <1>5

\* The rows of the others are in no tree of s.
LEMMA Theirs ==
    ASSUME Apart, RInv, TInv, NEW s \in Sessions, NEW i \in PendingBut(s) \cup CopyingBut(s)
    PROVE  i \in DOMAIN file /\ file[i].name \notin NamesOf(s)
<1>1. ASSUME NEW x \in Sessions \ {s}, Mine(x, i)
      PROVE  i \in DOMAIN file /\ file[i].name \notin NamesOf(s)
  BY <1>1 DEF Mine, Apart
<1>2. ASSUME NEW x \in Sessions \ {s}, todo[x] \in Behind, i = reg[x].dst
      PROVE  Mine(x, i)
  <2>1. todo[x] \in HasDst /\ todo[x] # <<>> BY <1>2, Table DEF Behind, HasDst
  <2>2. QED BY <1>2, <2>1 DEF RInv, Rows
<1>3. ASSUME NEW x \in Sessions \ {s}, todo[x] \in Ahead, i = reg[x].src
      PROVE  Mine(x, i)
  <2>1. todo[x] # <<>> /\ todo[x] # Resolve /\ Place(todo[x], reg[x])
    BY <1>3, Table DEF TInv, Places
  <2>2. reg[x].cmd = "cpdir"
    <3>1. todo[x] \notin UploadTodos /\ todo[x] \notin RmTodos /\ todo[x] \notin CpTodos
      BY <1>3, AheadIsCopy
    <3>2. QED BY <2>1, <3>1 DEF Place
  <2>3. QED BY <1>3, <2>1, <2>2 DEF RInv, Rows
<1>4. QED BY <1>1, <1>2, <1>3 DEF PendingBut, CopyingBut

LEMMA Kept ==
    ASSUME Apart, TInv, RInv, NEW s \in Sessions, NEW t, NEW r, Moves(s, t, r),
           \A i \in DOMAIN file : file[i].name \notin NamesOf(s) \cap Overwritten
               => i \in DOMAIN file' /\ file'[i] = file[i],
           \A i \in DOMAIN file' :
               \/ i \in DOMAIN file /\ file'[i] = file[i]
               \/ file'[i].name \in NamesOf(s) /\ file'[i].md5 \in Contents(s),
           Rows(s, t, r)',
           t \in Behind => \/ r.dst \notin DOMAIN file
                           \/ file[r.dst].name \in Overwritten
                           \/ todo[s] \in Behind /\ reg[s].dst = r.dst
    PROVE  RInv'
<1>1. /\ todo'[s] = t /\ reg'[s] = r
      /\ \A x \in Sessions : x # s => todo'[x] = todo[x] /\ reg'[x] = reg[x]
  BY Moved
<1>2. RowsOwn'
  <2>1. ASSUME NEW i \in DOMAIN file', NEW x \in Sessions, file'[i].name \in NamesOf(x)
        PROVE  file'[i].md5 \in Contents(x)
    <3>1. CASE i \in DOMAIN file /\ file'[i] = file[i] BY <2>1, <3>1 DEF RInv, RowsOwn
    <3>2. CASE file'[i].name \in NamesOf(s) /\ file'[i].md5 \in Contents(s)
      BY <2>1, <3>2 DEF Apart
    <3>3. QED BY <3>1, <3>2
  <2>2. QED BY <2>1 DEF RowsOwn, Contents
<1>3. PinnedKept'
  <2>1. ASSUME NEW p \in Preloaded, p[1] \notin Overwritten
        PROVE  \E i \in DOMAIN file' \ Pending' : file'[i].name = p[1] /\ file'[i].md5 = p[2]
    <3>1. PICK i \in DOMAIN file \ Pending : file[i].name = p[1] /\ file[i].md5 = p[2]
      BY <2>1 DEF RInv, PinnedKept
    <3>2. i \in DOMAIN file' /\ file'[i] = file[i] BY <2>1, <3>1
    <3>3. i \notin Pending' BY <2>1, <3>1, Others
    <3>4. QED BY <3>1, <3>2, <3>3
  <2>2. QED BY <2>1 DEF PinnedKept, Overwritten
<1>4. ASSUME NEW x \in Sessions PROVE Rows(x, todo[x], reg[x])'
  <2>1. CASE x = s BY <1>1, <2>1 DEF Rows, Mine, Asked
  <2>2. CASE x # s
    <3>1. ASSUME NEW i, Mine(x, i) PROVE i \in DOMAIN file' /\ file'[i] = file[i]
      BY <2>2, <3>1 DEF Mine, Apart
    <3>2. Rows(x, todo[x], reg[x]) BY DEF RInv
    <3>3. todo'[x] = todo[x] /\ reg'[x] = reg[x] BY <1>1, <2>2
    <3>4. QED BY <3>1, <3>2, <3>3, OfDstHas DEF Rows, Mine, Asked, Contents, Overwritten
  <2>3. QED BY <2>1, <2>2
<1>5. QED BY <1>2, <1>3, <1>4 DEF RInv

\* The rows are what they were.
LEMMA KeptStill ==
    ASSUME Apart, TInv, RInv, NEW s \in Sessions, NEW t, NEW r, Moves(s, t, r), UNCHANGED file,
           Rows(s, t, r), r.cmd = "upload" => t \notin Behind
    PROVE  RInv'
<1>1. Rows(s, t, r)' BY DEF Rows, Mine, Asked, Contents, Overwritten
<1>2. ASSUME t \in Behind PROVE file[r.dst].name \in Overwritten
  <2>1. t \in HasDst /\ t # <<>> /\ t # Resolve BY <1>2, Table DEF Behind, HasDst
  <2>2. QED BY <1>2, <2>1 DEF Rows
<1>3. QED BY <1>1, <1>2, Kept

LEMMA KeptEnd ==
    ASSUME Apart, RInv, todo' = [s \in Sessions |-> <<>>], UNCHANGED file
    PROVE  RInv'
<1>1. Pending' = {} BY Table DEF Pending
<1>2. RowsOwn' BY DEF RInv, RowsOwn, Contents
<1>3. PinnedKept' BY <1>1 DEF RInv, PinnedKept, Overwritten
<1>4. \A s \in Sessions : Rows(s, todo[s], reg[s])' BY DEF Rows
<1>5. QED BY <1>2, <1>3, <1>4 DEF RInv

-----------------------------------------------------------------------------
(***************************************************************************)
(* The rows, step by step.                                                 *)
(***************************************************************************)
LEMMA KeptFinish ==
    ASSUME Apart, TInv, RInv, NEW s \in Sessions, NEW a, Finish(s, reg[s], a), UNCHANGED file
    PROVE  RInv'
<1>1. Moves(s, <<>>, NoReg) BY DEF Finish, Moves
<1>2. Rows(s, <<>>, NoReg) BY DEF Rows
<1>3. QED BY <1>1, <1>2, Table, KeptStill

\* On to a place where no more is known, with the same operands.
LEMMA KeptGoes ==
    ASSUME Apart, TInv, RInv, NEW s \in Sessions, NEW t, NEW r, Goes(s, t, r), UNCHANGED file,
           r.cmd = reg[s].cmd /\ r.name = reg[s].name /\ r.md5 = reg[s].md5,
           r.src = reg[s].src /\ r.dst = reg[s].dst,
           todo[s] # <<>> /\ todo[s] # Resolve /\ t # Resolve /\ t # Inc,
           t \in HasDst => todo[s] \in HasDst, t \in OfDst => todo[s] \in OfDst,
           t \in OfSrc => todo[s] \in OfSrc,
           r.cmd = "upload" => t \notin Behind
    PROVE  RInv'
<1>1. Moves(s, t, r) BY DEF Goes, Moves
<1>2. Rows(s, t, r) BY DEF RInv, Rows
<1>3. QED BY <1>1, <1>2, KeptStill

LEMMA RowsBegin ==
    ASSUME Apart, TInv, RInv, NEW s \in Sessions, BeginUpload(s) \/ BeginRm(s) \/ BeginCp(s)
    PROVE  RInv'
<1>1. ASSUME NEW t, NEW r, Starts(s, t, r) PROVE Moves(s, t, r) /\ UNCHANGED file
  BY <1>1 DEF Starts, Moves, tables
<1>2. CASE BeginUpload(s)
  <2>1. PICK u \in Uploads :
            /\ u[1] \in NamesOf(s)
            /\ Starts(s, UpCheck, [NoReg EXCEPT !.cmd = "upload", !.name = u[1], !.md5 = u[2]])
    BY <1>2, BeginUploadFlow
  <2> DEFINE r == [NoReg EXCEPT !.cmd = "upload", !.name = u[1], !.md5 = u[2]]
  <2>2. r.cmd = "upload" /\ r.name = u[1] /\ r.md5 = u[2] BY DEF NoReg
  <2>3. u[2] \in Contents(s) BY <2>1 DEF Contents
  <2> HIDE DEF r
  <2>4. Rows(s, UpCheck, r) BY <2>1, <2>2, <2>3, Table DEF Rows
  <2>5. QED BY <1>1, <2>1, <2>4, Table, KeptStill DEF r
<1>3. CASE BeginRm(s)
  <2>1. PICK n \in Removes \cap NamesOf(s) :
            Starts(s, Resolve, [NoReg EXCEPT !.cmd = "rm", !.name = n])
    BY <1>3, BeginRmFlow
  <2> DEFINE r == [NoReg EXCEPT !.cmd = "rm", !.name = n]
  <2>2. r.cmd = "rm" /\ r.name = n BY DEF NoReg
  <2> HIDE DEF r
  <2>3. Rows(s, Resolve, r) BY <2>1, <2>2, Table DEF Rows, Asked
  <2>4. QED BY <1>1, <2>1, <2>3, Table, KeptStill DEF r
<1>4. CASE BeginCp(s)
  <2>1. PICK c \in Copies :
            /\ {c[1], c[2]} \subseteq NamesOf(s)
            /\ Starts(s, Resolve, [NoReg EXCEPT !.cmd = IF c[3] = "file" THEN "cp" ELSE "cpdir",
                                                !.name = c[1], !.src = c[2]])
    BY <1>4, BeginCpFlow
  <2> DEFINE r == [NoReg EXCEPT !.cmd = IF c[3] = "file" THEN "cp" ELSE "cpdir",
                                !.name = c[1], !.src = c[2]]
  <2>2. /\ r.cmd = IF c[3] = "file" THEN "cp" ELSE "cpdir"
        /\ r.name = c[1] /\ r.src = c[2]
    BY DEF NoReg
  <2>3. c[2] \in Overwritten BY DEF Overwritten
  <2>4. c[3] = "file" => c[1] # c[2] BY DEF Apart
  <2> HIDE DEF r
  <2>5. Rows(s, Resolve, r) BY <2>1, <2>2, <2>3, <2>4, Table DEF Rows, Asked
  <2>6. QED BY <1>1, <2>1, <2>5, Table, KeptStill DEF r
<1>5. QED BY <1>2, <1>3, <1>4

LEMMA RowsResolve ==
    ASSUME Apart, TInv, RInv, NEW s \in Sessions, ResolveRm(s) \/ ResolveCp(s)
    PROVE  RInv'
<1>1. reg[s] \in Regs BY DEF TInv, SessionsTyped
<1>2. UNCHANGED file BY ResolveRmFlow, ResolveCpFlow DEF tables
<1>3. Rows(s, todo[s], reg[s]) BY DEF RInv
<1>4. todo[s] = Resolve /\ reg[s].name \in NamesOf(s) /\ Asked(s, reg[s])
  <2>1. todo[s] = Resolve /\ reg[s].cmd # "upload" BY ResolveRmFlow, ResolveCpFlow
  <2>2. QED BY <1>3, <2>1, Table DEF Rows
<1>5. CASE \E a : Finish(s, reg[s], a) BY <1>2, <1>5, KeptFinish
<1>6. CASE ResolveRm(s)
  <2>1. ASSUME NEW i \in RowsOf(reg[s].name), Goes(s, RmLoad, [reg[s] EXCEPT !.dst = i])
        PROVE  RInv'
    <3> DEFINE r == [reg[s] EXCEPT !.dst = i]
    <3>1. r.cmd = "rm" /\ r.name = reg[s].name /\ r.dst = i
      BY <1>1, <1>6, ResolveRmFlow DEF Regs
    <3>2. i \in DOMAIN file /\ file[i].name = reg[s].name BY DEF RowsOf
    <3>3. reg[s].name \in Overwritten BY <1>4, <3>1 DEF Asked, Overwritten
    <3> HIDE DEF r
    <3>4. Rows(s, RmLoad, r) BY <1>4, <3>1, <3>2, <3>3, RmOps, Table DEF Rows, Mine
    <3>5. Moves(s, RmLoad, r) BY <2>1 DEF Goes, Moves, r
    <3>6. QED BY <1>2, <3>1, <3>4, <3>5, KeptStill
  <2>2. QED BY <1>5, <1>6, <2>1, ResolveRmFlow
<1>7. CASE ResolveCp(s)
  <2>1. /\ reg[s].cmd \in {"cp", "cpdir"} /\ reg[s].src \in NamesOf(s) \cap Overwritten
        /\ reg[s].cmd = "cp" => reg[s].name # reg[s].src
    BY <1>4, <1>7, ResolveCpFlow DEF Asked
  <2>2. ASSUME NEW i \in RowsOf(reg[s].name),
               Goes(s, NewLoad, [reg[s] EXCEPT !.name = reg[s].src, !.src = i])
        PROVE  RInv'
    <3> DEFINE r == [reg[s] EXCEPT !.name = reg[s].src, !.src = i]
    <3>1. r.cmd = reg[s].cmd /\ r.name = reg[s].src /\ r.src = i BY <1>1 DEF Regs
    <3>2. i \in DOMAIN file /\ file[i].name = reg[s].name BY DEF RowsOf
    <3> HIDE DEF r
    <3>3. Rows(s, NewLoad, r)
      BY <1>4, <2>1, <3>1, <3>2, NewOps, Table DEF Rows, Mine
    <3>4. Moves(s, NewLoad, r) BY <2>2 DEF Goes, Moves, r
    <3>5. QED BY <1>2, <3>3, <3>4, Table, KeptStill
  <2>3. ASSUME NEW i \in RowsOf(reg[s].name), NEW j \in RowsOf(reg[s].src),
               NEW t, t = IF reg[s].cmd = "cp" THEN CpLoad ELSE DirSource,
               Goes(s, t, [reg[s] EXCEPT !.name = reg[s].src, !.src = i, !.dst = j])
        PROVE  RInv'
    <3> DEFINE r == [reg[s] EXCEPT !.name = reg[s].src, !.src = i, !.dst = j]
    <3>1. r.cmd = reg[s].cmd /\ r.name = reg[s].src /\ r.src = i /\ r.dst = j
      BY <1>1 DEF Regs
    <3>2. /\ i \in DOMAIN file /\ file[i].name = reg[s].name
          /\ j \in DOMAIN file /\ file[j].name = reg[s].src
      BY DEF RowsOf
    <3> HIDE DEF r
    <3>3. reg[s].cmd = "cp" => i # j BY <2>1, <3>2
    <3>4. t \notin OfDst \cup OfSrc \cup {Resolve, Inc} /\ t \notin Behind
      BY SMTT(30), <2>3, Table, CpOps, CpDirOps, NewOps
    <3>5. Rows(s, t, r)
      BY <1>4, <2>1, <3>1, <3>2, <3>3, <3>4 DEF Rows, Mine
    <3>6. Moves(s, t, r) BY <2>3 DEF Goes, Moves, r
    <3>7. QED BY <1>2, <3>4, <3>5, <3>6, KeptStill
  <2>4. QED BY <1>5, <1>7, <2>2, <2>3, ResolveCpFlow
<1>8. QED BY <1>6, <1>7

\* The rows a command works on are there when it asks for them.
LEMMA RowsThere ==
    ASSUME Apart, TInv, RInv, NEW s \in Sessions
    PROVE  /\ LoadSource(s) => reg[s].src \in DOMAIN file
           /\ LoadDestination(s) => reg[s].dst \in DOMAIN file
<1>1. Rows(s, todo[s], reg[s]) BY DEF RInv
<1>2. ASSUME LoadSource(s) PROVE reg[s].src \in DOMAIN file
  <2>1. CASE todo[s] \in {NewLoad, CpSource, DirSource, DirReload}
             /\ reg[s].cmd \in {"cp", "cpdir"}
    <3>1. todo[s] # <<>> /\ todo[s] # Resolve BY SMTT(30), <2>1, NewOps, CpOps, CpDirOps
    <3>2. QED BY <1>1, <2>1, <3>1 DEF Rows, Mine
  <2>2. CASE Fault /\ reg[s].src \notin DOMAIN file /\ todo[s] # <<>>
    <3>1. Place(todo[s], reg[s]) /\ Head(todo[s]) = "loadsrc"
      BY <1>2 DEF TInv, Places, LoadSource, Load, At
    <3>2. reg[s].cmd \in {"cp", "cpdir"} /\ todo[s] # Resolve
      BY <2>2, <3>1, InUpload, InRm, NewOps DEF Place
    <3>3. QED BY <1>1, <2>2, <3>2 DEF Rows, Mine
  <2>3. QED BY <1>2, <2>1, <2>2, SourceFlow
<1>3. ASSUME LoadDestination(s) PROVE reg[s].dst \in DOMAIN file
  <2>1. todo[s] \in {RmLoad, CpLoad, DirLoad} BY <1>3, DestinationFlow
  <2>2. todo[s] # <<>> /\ todo[s] \in HasDst BY <2>1, RmOps, CpOps, CpDirOps DEF HasDst
  <2>3. QED BY <1>1, <2>2 DEF Rows, Mine
<1>4. QED BY <1>2, <1>3

LEMMA RowsLoad ==
    ASSUME Apart, TInv, RInv, NEW s \in Sessions, LoadSource(s) \/ LoadDestination(s)
    PROVE  RInv'
<1>1. reg[s] \in Regs /\ Rows(s, todo[s], reg[s]) BY DEF TInv, SessionsTyped, RInv
<1>2. UNCHANGED file BY SourceFlow, DestinationFlow DEF tables
<1>3. CASE LoadSource(s)
  <2> DEFINE r == [reg[s] EXCEPT !.md5 = file[reg[s].src].md5]
  <2>1. /\ r.cmd = reg[s].cmd /\ r.name = reg[s].name /\ r.src = reg[s].src /\ r.dst = reg[s].dst
        /\ r.md5 = file[reg[s].src].md5
    BY <1>1 DEF Regs
  <2>2. reg[s].src \in DOMAIN file BY <1>3, RowsThere
  <2> HIDE DEF r
  <2>3. /\ reg[s].cmd \in {"cp", "cpdir"}
        /\ \/ todo[s] = NewLoad /\ Goes(s, NewInsert, r)
           \/ todo[s] = CpSource /\ Goes(s, CpUpdate, r)
           \/ todo[s] = DirSource /\ Goes(s, DirInc, r)
           \/ todo[s] = DirReload /\ Goes(s, DirUpdate, r)
    BY <1>3, <2>2, SourceFlow DEF r
  <2>4. ASSUME NEW t, Goes(s, t, r), todo[s] # <<>>, todo[s] # Resolve,
               t \in HasDst => todo[s] \in HasDst, t \notin OfDst, t # Resolve, t # Inc
        PROVE  RInv'
    <3>1. Rows(s, t, r) BY <1>1, <2>1, <2>3, <2>4 DEF Rows
    <3>2. Moves(s, t, r) BY <2>4 DEF Goes, Moves
    <3>3. QED BY <1>2, <2>1, <2>3, <3>1, <3>2, KeptStill
  <2>5. /\ {CpSource, DirSource, DirReload} \subseteq HasDst
        /\ {NewInsert, CpUpdate, DirInc, DirUpdate, NewLoad, CpSource, DirSource, DirReload}
               \cap {Resolve, <<>>} = {}
        /\ {NewInsert, CpUpdate, DirInc, DirUpdate} \cap {Inc} = {}
    BY NewOps, CpOps, CpDirOps DEF HasDst
  <2>6. QED BY <2>3, <2>4, <2>5, Table
<1>4. CASE LoadDestination(s)
  <2> DEFINE r == [reg[s] EXCEPT !.md5 = file[reg[s].dst].md5]
  <2>1. /\ r.cmd = reg[s].cmd /\ r.name = reg[s].name /\ r.src = reg[s].src /\ r.dst = reg[s].dst
        /\ r.md5 = file[reg[s].dst].md5
    BY <1>1 DEF Regs
  <2>2. reg[s].dst \in DOMAIN file BY <1>4, RowsThere
  <2> HIDE DEF r
  <2>3. /\ reg[s].cmd \in {"rm", "cp", "cpdir"}
        /\ \/ todo[s] = RmLoad /\ Goes(s, RmDec, r)
           \/ todo[s] = CpLoad /\ Goes(s, CpDec, r)
           \/ todo[s] = DirLoad /\ Goes(s, DirDec, r)
    BY <1>4, <2>2, DestinationFlow DEF r
  <2>4. ASSUME NEW t, Goes(s, t, r), todo[s] # <<>>, todo[s] # Resolve, todo[s] \in HasDst,
               t \notin OfSrc, t # Resolve, t # Inc
        PROVE  RInv'
    <3>1. Rows(s, t, r) BY <1>1, <2>1, <2>3, <2>4 DEF Rows
    <3>2. Moves(s, t, r) BY <2>4 DEF Goes, Moves
    <3>3. QED BY <1>2, <2>1, <2>3, <3>1, <3>2, KeptStill
  <2>5. /\ {RmLoad, CpLoad, DirLoad} \subseteq HasDst
        /\ {RmLoad, CpLoad, DirLoad, RmDec, CpDec, DirDec} \cap {Resolve, <<>>, Inc} = {}
    BY RmOps, NewOps, CpOps, CpDirOps DEF HasDst
  <2>6. QED BY <2>3, <2>4, <2>5, Table
<1>5. QED BY <1>3, <1>4

LEMMA RowsCount ==
    ASSUME Apart, TInv, RInv, NEW s \in Sessions,
           IncCount(s) \/ DecCount(s) \/ ReadCount(s) \/ DropReal(s) \/ InsertReal(s)
    PROVE  RInv'
<1>1. UNCHANGED file BY IncFlow, DecFlow, ReadFlow, DropFlow, InsertRealFlow DEF tables
<1>2. CASE \E a : Finish(s, reg[s], a) BY <1>1, <1>2, KeptFinish
<1>3. CASE Fault BY <1>1, <1>3, KeptEnd DEF Fault, AllSessionsEnd
<1>4. ASSUME NEW t, NEW u, Goes(s, t, reg[s]), todo[s] = u, u # <<>>, u # Resolve, t # Resolve, t # Inc,
             u \in HasDst, t \in OfDst => u \in OfDst, t \in OfSrc => u \in OfSrc,
             reg[s].cmd = "upload" => t \notin Behind
      PROVE  RInv'
  BY <1>1, <1>4, KeptGoes
<1>5. /\ {UpNew, DirInc, RmDec, CpDec, DirDec, RmRead, CpRead, DirRead, RmDrop, CpDrop, DirDrop}
            \subseteq HasDst
      /\ {RmDec, CpDec, DirDec, RmRead, CpRead, DirRead, RmDrop, CpDrop, DirDrop} \subseteq OfDst
      /\ DirInc \in OfSrc
      /\ {UpNew, UpSeek, DirInc, RmDec, CpDec, DirDec, RmRead, CpRead, DirRead, RmDrop, CpDrop,
          DirDrop, DirLoad, RmRow, CpSource, DirReload} \cap {<<>>, Resolve, Inc} = {}
  BY UploadOps, RmOps, NewOps, CpOps, CpDirOps DEF HasDst, OfDst, OfSrc
<1>6. CASE IncCount(s)
  <2>1. CASE reg[s].cmd = "cpdir" /\ todo[s] = DirInc /\ Goes(s, DirLoad, reg[s])
    <3>1. DirLoad \notin OfDst BY Table
    <3>2. QED BY <1>4, <1>5, <2>1, <3>1
  <2>2. QED BY <1>2, <1>6, <2>1, IncFlow
<1>7. CASE DecCount(s)
  <2>1. {RmRead, CpRead, DirRead} \cap OfSrc = {} BY Table
  <2>2. QED BY <1>4, <1>5, <1>7, <2>1, DecFlow
<1>8. ASSUME NEW u \in {RmRead, CpRead, DirRead, RmDrop, CpDrop, DirDrop},
             NEW t \in {RmDrop, CpDrop, DirDrop, RmRow, CpSource, DirReload},
             todo[s] = u, Goes(s, t, reg[s]), reg[s].cmd # "upload"
      PROVE  RInv'
  <2>1. t \notin OfSrc BY Table
  <2>2. QED BY <1>4, <1>5, <1>8, <2>1
<1>9. CASE ReadCount(s)
  <2>1. CASE \/ /\ reg[s].cmd = "rm" /\ todo[s] = RmRead
                /\ Goes(s, RmDrop, reg[s]) \/ Goes(s, RmRow, reg[s])
             \/ /\ reg[s].cmd = "cp" /\ todo[s] = CpRead
                /\ Goes(s, CpDrop, reg[s]) \/ Goes(s, CpSource, reg[s])
             \/ /\ reg[s].cmd = "cpdir" /\ todo[s] = DirRead
                /\ Goes(s, DirDrop, reg[s]) \/ Goes(s, DirReload, reg[s])
    BY <1>8, <2>1
  <2>2. QED BY <1>2, <1>3, <1>9, <2>1, ReadFlow
<1>10. CASE DropReal(s) BY <1>8, <1>10, DropFlow
<1>11. CASE InsertReal(s)
  <2>1. UpSeek \notin OfDst \cup OfSrc /\ UpSeek \notin Behind BY Table
  <2>2. QED BY <1>4, <1>5, <1>11, <2>1, InsertRealFlow
<1>12. QED BY <1>6, <1>7, <1>9, <1>10, <1>11

LEMMA RowsUpload ==
    ASSUME Apart, TInv, RInv, NEW s \in Sessions,
           \/ CheckName(s) \/ StatExisting(s) \/ SendOffset(s) \/ LookupReal(s) \/ SeekEnd(s)
           \/ Receive(s) \/ Lose(s)
    PROVE  RInv'
<1>1. UNCHANGED file
  BY CheckFlow, StatFlow, OffsetFlow, LookupFlow, SeekFlow, ReceiveFlow, LoseFlow DEF tables
<1>2. reg[s] \in Regs /\ Rows(s, todo[s], reg[s]) BY DEF TInv, SessionsTyped, RInv
<1>3. CASE \E a : Finish(s, reg[s], a) BY <1>1, <1>3, KeptFinish
<1>4. reg[s].cmd = "upload" /\ todo[s] # <<>> /\ todo[s] # Resolve
  BY ZenonT(60), CheckFlow, StatFlow, OffsetFlow, LookupFlow, SeekFlow, ReceiveFlow, LoseFlow, UploadOps, RmOps
<1>5. ASSUME NEW t \in {UpStat, UpOffset, UpLookup, NewInsert, UpInsert, UpSeek, UpRecv}, NEW r,
             Goes(s, t, r), r.cmd = reg[s].cmd, r.name = reg[s].name, r.md5 = reg[s].md5
      PROVE  RInv'
  <2>1. t \notin HasDst /\ t \notin OfDst /\ t \notin Behind BY Table
  <2>2. Rows(s, t, r) BY <1>2, <1>4, <1>5, <2>1 DEF Rows
  <2>3. Moves(s, t, r) BY <1>5 DEF Goes, Moves
  <2>4. QED BY <1>1, <2>1, <2>2, <2>3, KeptStill
<1>6. CASE CheckName(s) BY <1>5, <1>6, CheckFlow
<1>7. CASE StatExisting(s) BY <1>3, <1>5, <1>7, StatFlow
<1>8. CASE SendOffset(s)
  <2> DEFINE r == [reg[s] EXCEPT !.size = Len(store[reg[s].md5])]
  <2>1. r.cmd = reg[s].cmd /\ r.name = reg[s].name /\ r.md5 = reg[s].md5 BY <1>2 DEF Regs
  <2>2. Goes(s, UpLookup, r) BY <1>8, OffsetFlow
  <2> HIDE DEF r
  <2>3. QED BY <1>5, <2>1, <2>2
<1>9. CASE LookupReal(s)
  <2> DEFINE b == (real[reg[s].md5] # <<>>)
             r == [reg[s] EXCEPT !.ret = b]
  <2>1. r.cmd = reg[s].cmd /\ r.name = reg[s].name /\ r.md5 = reg[s].md5 BY <1>2 DEF Regs
  <2>2. Goes(s, NewInsert, r) \/ Goes(s, UpInsert, r) \/ Goes(s, UpSeek, r)
    BY <1>9, LookupFlow
  <2> HIDE DEF r
  <2>3. QED BY <1>5, <2>1, <2>2
<1>10. CASE SeekEnd(s)
  <2> DEFINE r == [reg[s] EXCEPT !.pos = Len(store[reg[s].md5])]
  <2>1. r.cmd = reg[s].cmd /\ r.name = reg[s].name /\ r.md5 = reg[s].md5 BY <1>2 DEF Regs
  <2>2. Goes(s, UpRecv, r) BY <1>10, SeekFlow
  <2> HIDE DEF r
  <2>3. QED BY <1>5, <2>1, <2>2
<1>11. CASE Receive(s)
  <2> DEFINE r == [reg[s] EXCEPT !.pos = @ + 1, !.got = @ + 1]
  <2>1. r.cmd = reg[s].cmd /\ r.name = reg[s].name /\ r.md5 = reg[s].md5 BY <1>2 DEF Regs
  <2>2. Goes(s, UpRecv, r) \/ Finish(s, reg[s], "ok") BY <1>11, ReceiveFlow
  <2> HIDE DEF r
  <2>3. QED BY <1>3, <1>5, <2>1, <2>2
<1>12. CASE Lose(s) BY <1>3, <1>12, LoseFlow
<1>13. QED BY <1>6, <1>7, <1>8, <1>9, <1>10, <1>11, <1>12

\* The md5 of a row that is inserted or changed is one of its user's.
LEMMA OfUser ==
    ASSUME RInv, NEW s \in Sessions, todo[s] # <<>>, todo[s] # Resolve,
           \/ reg[s].cmd = "upload"
           \/ reg[s].cmd \in {"cp", "cpdir"} /\ todo[s] \in OfSrc
           \/ todo[s] \in OfDst
    PROVE  reg[s].md5 \in Contents(s)
<1>1. Rows(s, todo[s], reg[s]) BY DEF RInv
<1>2. ASSUME NEW i, Mine(s, i), reg[s].md5 = file[i].md5 PROVE reg[s].md5 \in Contents(s)
  BY <1>2 DEF RInv, RowsOwn, Mine
<1>3. QED BY <1>1, <1>2, OfDstHas DEF Rows

LEMMA RowsInsert ==
    ASSUME Apart, TInv, RInv, NEW s \in Sessions, InsertRow(s)
    PROVE  RInv'
<1>1. reg[s] \in Regs /\ Rows(s, todo[s], reg[s]) BY DEF TInv, SessionsTyped, RInv
<1>2. PICK k, q, r, row :
          /\ k = nextId /\ q = reg[s] /\ r = [reg[s] EXCEPT !.dst = nextId]
          /\ row = [name |-> reg[s].name, md5 |-> reg[s].md5]
  OBVIOUS
<1>3. /\ r.cmd = q.cmd /\ r.name = q.name /\ r.md5 = q.md5 /\ r.src = q.src /\ r.dst = k
      /\ row.name = q.name /\ row.md5 = q.md5
  BY <1>1, <1>2 DEF Regs
<1>4. k \notin DOMAIN file BY <1>2 DEF TInv, TablesTyped
<1>5. /\ file' = [i \in DOMAIN file \cup {k} |-> IF i = k THEN row ELSE file[i]]
      /\ \/ q.cmd \in {"upload", "cp", "cpdir"} /\ todo[s] = NewInsert /\ Goes(s, Inc, r)
         \/ q.cmd = "upload" /\ todo[s] = UpInsert /\ Goes(s, UpNew, r)
  BY <1>2, InsertFlow
<1>6. todo[s] # <<>> /\ todo[s] # Resolve /\ NewInsert \in OfSrc
  BY <1>5, UploadOps, NewOps DEF OfSrc
<1>7. /\ q.name \in NamesOf(s) /\ q.md5 \in Contents(s)
      /\ q.cmd # "upload" => q.name \in Overwritten
  BY <1>1, <1>2, <1>5, <1>6, OfUser DEF Rows
<1>8. /\ DOMAIN file' = DOMAIN file \cup {k} /\ file'[k] = row
      /\ \A i \in DOMAIN file : file'[i] = file[i]
  BY <1>4, <1>5
<1>9. PICK t \in {Inc, UpNew} :
          /\ Goes(s, t, r)
          /\ t = Inc => todo[s] = NewInsert
          /\ t = UpNew => todo[s] = UpInsert /\ q.cmd = "upload"
  <2>1. Inc # UpNew BY UploadOps
  <2>2. QED BY <1>5, <2>1
<1>10. Rows(s, t, r)'
  <2>1. t # Resolve /\ t # <<>> BY UploadOps, RmOps
  <2>2. ASSUME q.cmd \in {"cp", "cpdir"}
        PROVE  Mine(s, q.src) /\ q.md5 = file[q.src].md5
    <3>1. todo[s] \in OfSrc BY <1>6, <1>9, <2>2
    <3>2. QED BY <1>1, <1>2, <1>6, <2>2, <3>1 DEF Rows
  <2>3. ASSUME q.cmd \in {"cp", "cpdir"}
        PROVE  Mine(s, q.src)' /\ q.md5 = file'[q.src].md5 /\ q.src # k
    BY <1>4, <1>8, <2>2, <2>3 DEF Mine
  <2>4. Mine(s, k)' /\ file'[k].name = q.name /\ file'[k].md5 = q.md5
    BY <1>3, <1>7, <1>8 DEF Mine
  <2>5. /\ r.name \in NamesOf(s) /\ r.md5 \in Contents(s)
        /\ r.cmd # "upload" => r.name \in Overwritten
        /\ Mine(s, r.dst)' /\ file'[r.dst].name = r.name /\ file'[r.dst].md5 = r.md5
        /\ r.cmd \in {"cp", "cpdir"} =>
              Mine(s, r.src)' /\ r.md5 = file'[r.src].md5 /\ r.src # r.dst
    BY <1>3, <1>7, <2>3, <2>4
  <2>6. QED BY <2>1, <2>5 DEF Rows, Contents, Overwritten
<1>11. Moves(s, t, r) BY <1>9 DEF Goes, Moves
<1>12. QED BY <1>3, <1>4, <1>7, <1>8, <1>10, <1>11, Kept

LEMMA RowsUpdate ==
    ASSUME Apart, TInv, RInv, NEW s \in Sessions, UpdateRow(s)
    PROVE  RInv'
<1>1. Rows(s, todo[s], reg[s]) BY DEF RInv
<1>2. PICK q, d : q = reg[s] /\ d = q.dst OBVIOUS
<1>3. /\ q.md5 \in Md5s
      /\ file' = [i \in DOMAIN file |-> IF i = d THEN [file[i] EXCEPT !.md5 = q.md5] ELSE file[i]]
      /\ \/ q.cmd = "cp" /\ todo[s] = CpUpdate /\ Goes(s, Inc, q)
         \/ q.cmd = "cpdir" /\ todo[s] = DirUpdate /\ Finish(s, q, "ok")
  BY <1>2, UpdateFlow
<1>4. /\ todo[s] # <<>> /\ todo[s] # Resolve /\ todo[s] \in HasDst /\ todo[s] \in OfSrc
      /\ todo[s] \in Behind
  BY <1>3, CpOps, CpDirOps, RmOps DEF HasDst, OfSrc, Behind
<1>5. /\ Mine(s, d) /\ file[d].name = q.name /\ q.name \in NamesOf(s)
      /\ Mine(s, q.src) /\ q.md5 = file[q.src].md5
      /\ q.name \in Overwritten
      /\ q.cmd = "cp" => q.src # d
  BY <1>1, <1>2, <1>3, <1>4 DEF Rows
<1>6. q.md5 \in Contents(s) BY <1>2, <1>3, <1>4, OfUser
<1>7. file[d] \in [name : Names, md5 : Md5s] BY <1>5 DEF TInv, TablesTyped, Mine
<1>8. /\ DOMAIN file' = DOMAIN file /\ \A i \in DOMAIN file : i # d => file'[i] = file[i]
      /\ file'[d].name = file[d].name /\ file'[d].md5 = q.md5
  <2>1. d \in DOMAIN file BY <1>5 DEF Mine
  <2>2. DOMAIN file' = DOMAIN file /\ file'[d] = [file[d] EXCEPT !.md5 = q.md5]
        /\ \A i \in DOMAIN file : i # d => file'[i] = file[i]
    BY <1>3, <2>1
  <2>3. QED BY <1>7, <2>2
<1>9. PICK t, r : /\ Moves(s, t, r)
                  /\ \/ t = <<>>
                     \/ t = Inc /\ r = q /\ q.cmd = "cp"
  BY <1>3 DEF Goes, Finish, Moves
<1>10. Rows(s, t, r)'
  <2>1. CASE t = <<>> BY <2>1 DEF Rows
  <2>2. CASE t = Inc /\ r = q /\ q.cmd = "cp"
    <3>1. Mine(s, d)' /\ Mine(s, q.src)' /\ file'[q.src].md5 = q.md5
      BY <1>5, <1>8 DEF Mine
    <3>2. Inc # Resolve /\ Inc # <<>> BY NewOps
    <3>3. QED BY <1>2, <1>5, <1>6, <1>8, <2>2, <3>1, <3>2 DEF Rows, Contents, Overwritten
  <2>3. QED BY <1>9, <2>1, <2>2
<1>11. t \in Behind => r.dst = d /\ d = reg[s].dst /\ todo[s] \in Behind
  BY <1>2, <1>4, <1>9, Table
<1>12. QED BY <1>5, <1>6, <1>8, <1>9, <1>10, <1>11, Kept

LEMMA RowsDelete ==
    ASSUME Apart, TInv, RInv, NEW s \in Sessions, DeleteRow(s)
    PROVE  RInv'
<1> DEFINE d == reg[s].dst
<1>1. Rows(s, todo[s], reg[s]) BY DEF RInv
<1>2. /\ reg[s].cmd = "rm" /\ todo[s] = RmRow /\ Finish(s, reg[s], "ok")
      /\ file' = [i \in DOMAIN file \ {d} |-> file[i]]
  BY DeleteFlow
<1>3. todo[s] # <<>> /\ todo[s] # Resolve /\ todo[s] \in HasDst BY <1>2, RmOps DEF HasDst
<1>4. Mine(s, d) /\ file[d].name \in Overwritten BY <1>1, <1>2, <1>3 DEF Rows
<1>5. /\ DOMAIN file' = DOMAIN file \ {d}
      /\ \A i \in DOMAIN file : i # d => file'[i] = file[i]
  BY <1>2
<1>6. Moves(s, <<>>, NoReg) BY <1>2 DEF Finish, Moves
<1>7. Rows(s, <<>>, NoReg)' BY DEF Rows
<1> HIDE DEF d
<1>8. \A i \in DOMAIN file' : i \in DOMAIN file /\ file'[i] = file[i] BY <1>5
<1>9. \A i \in DOMAIN file : file[i].name \notin NamesOf(s) \cap Overwritten
          => i \in DOMAIN file' /\ file'[i] = file[i]
  BY <1>4, <1>5 DEF Mine
<1>10. QED BY <1>6, <1>7, <1>8, <1>9, Table, Kept

LEMMA RowsInit ==
    ASSUME Init
    PROVE  RInv
<1>1. PICK f \in [1..Cardinality(Preloaded) -> [name : Names, md5 : Md5s]] :
          file = f /\ {<<f[i].name, f[i].md5>> : i \in DOMAIN f} = Preloaded
  BY DEF Init
<1>2. Pending = {} BY Table DEF Init, Pending
<1>3. ASSUME NEW i \in DOMAIN file, NEW x \in Sessions, file[i].name \in NamesOf(x)
      PROVE  file[i].md5 \in Contents(x)
  <2>1. <<file[i].name, file[i].md5>> \in Preloaded BY <1>1
  <2>2. QED BY <1>3, <2>1 DEF Contents
<1>4. ASSUME NEW p \in Preloaded
      PROVE  \E i \in DOMAIN file : file[i].name = p[1] /\ file[i].md5 = p[2]
  <2>1. PICK i \in DOMAIN f : p = <<f[i].name, f[i].md5>> BY <1>1
  <2>2. QED BY <1>1, <2>1
<1>5. RowsOwn BY <1>3 DEF RowsOwn
<1>6. PinnedKept BY <1>2, <1>4 DEF PinnedKept
<1>7. \A s \in Sessions : Rows(s, todo[s], reg[s]) BY DEF Init, Rows
<1>8. QED BY <1>5, <1>6, <1>7 DEF RInv

LEMMA RowsNext ==
    ASSUME Apart, TInv, RInv, [Next]_vars
    PROVE  RInv'
<1>1. CASE UNCHANGED vars
  <2>1. UNCHANGED <<file, todo, reg>> BY <1>1 DEF vars, tables, session
  <2>2. Pending' = Pending BY <2>1 DEF Pending
  <2>3. RowsOwn' BY <2>1 DEF RInv, RowsOwn, Contents
  <2>4. PinnedKept' BY <2>1, <2>2 DEF RInv, PinnedKept, Overwritten
  <2>5. \A s \in Sessions : Rows(s, todo[s], reg[s])'
    BY <2>1 DEF RInv, Rows, Mine, Asked, Contents, Overwritten
  <2>6. QED BY <2>3, <2>4, <2>5 DEF RInv
<1>2. CASE Exit BY <1>2, KeptEnd DEF Exit, AllSessionsEnd, tables
<1>3. ASSUME NEW s \in Sessions, Step(s)
      PROVE  RInv'
  BY <1>3, RowsBegin, RowsResolve, RowsLoad, RowsCount, RowsInsert, RowsUpdate, RowsDelete,
     RowsUpload DEF Step
<1>4. QED BY <1>1, <1>2, <1>3 DEF Next

\* Every session keeps the rows it works on, whatever the others do at the same time.
LEMMA RowsKept ==
    ASSUME Apart
    PROVE  Spec => []RInv
<1>1. Init => RInv BY RowsInit
<1>2. TInv /\ RInv /\ [Next]_vars => RInv' BY RowsNext
<1>3. QED BY <1>1, <1>2, Typed, PTL DEF Spec

-----------------------------------------------------------------------------
(***************************************************************************)
(* The number that the record of a content should have.                    *)
(***************************************************************************)
LEMMA CountType ==
    ASSUME NEW R, NEW P, NEW C, IsFiniteSet(R)
    PROVE  Count(R, P, C) \in Nat
<1>1. Cardinality(R \ P) \in Nat BY FS_Difference, FS_CardinalityType
<1>2. Cardinality(R \cap C) \in Nat BY FS_Intersection, FS_CardinalityType
<1>3. QED BY <1>1, <1>2 DEF Count

\* A row that is pending counts one less, and a row that is copied counts one more.
LEMMA CountPending ==
    ASSUME NEW R, NEW P, NEW C, NEW d, IsFiniteSet(R), d \in R, d \notin P
    PROVE  Count(R, P, C) = Count(R, P \cup {d}, C) + 1
<1>1. IsFiniteSet(R \ P) /\ IsFiniteSet(R \ (P \cup {d})) /\ IsFiniteSet(R \cap C)
  BY FS_Difference, FS_Intersection
<1>2. R \ P = (R \ (P \cup {d})) \cup {d} /\ d \notin R \ (P \cup {d}) OBVIOUS
<1>3. Cardinality(R \ P) = Cardinality(R \ (P \cup {d})) + 1 BY <1>1, <1>2, FS_AddElement
<1>4. Cardinality(R \ (P \cup {d})) \in Nat /\ Cardinality(R \cap C) \in Nat
  BY <1>1, FS_CardinalityType
<1>5. QED BY <1>3, <1>4 DEF Count

LEMMA CountCopying ==
    ASSUME NEW R, NEW P, NEW C, NEW d, IsFiniteSet(R), d \in R, d \notin C
    PROVE  Count(R, P, C \cup {d}) = Count(R, P, C) + 1
<1>1. IsFiniteSet(R \ P) /\ IsFiniteSet(R \cap C) BY FS_Difference, FS_Intersection
<1>2. R \cap (C \cup {d}) = (R \cap C) \cup {d} /\ d \notin R \cap C OBVIOUS
<1>3. Cardinality(R \cap (C \cup {d})) = Cardinality(R \cap C) + 1 BY <1>1, <1>2, FS_AddElement
<1>4. Cardinality(R \ P) \in Nat /\ Cardinality(R \cap C) \in Nat BY <1>1, FS_CardinalityType
<1>5. QED BY <1>3, <1>4 DEF Count

\* What matters of P and C is what they have of R.
LEMMA CountSame ==
    ASSUME NEW R, NEW P, NEW C, NEW R2, NEW P2, NEW C2,
           R \ P = R2 \ P2, R \cap C = R2 \cap C2
    PROVE  Count(R, P, C) = Count(R2, P2, C2)
BY DEF Count

LEMMA CountPositive ==
    ASSUME NEW R, NEW P, NEW C, IsFiniteSet(R), NEW i \in R, i \notin P
    PROVE  Count(R, P, C) > 0
<1>1. IsFiniteSet(R \ P) /\ Cardinality(R \cap C) \in Nat
  BY FS_Difference, FS_Intersection, FS_CardinalityType
<1>2. Cardinality(R \ P) \in Nat /\ Cardinality(R \ P) # 0
  BY <1>1, FS_EmptySet, FS_CardinalityType
<1>3. QED BY <1>1, <1>2 DEF Count

\* The numbers before and after a step.
LEMMA Numbers ==
    ASSUME TInv, NEW m
    PROVE  IsFiniteSet(Refs(m)) /\ N(m) \in Nat
<1>1. IsFiniteSet(1..(nextId - 1)) BY FS_Interval DEF TInv, TablesTyped
<1>2. Refs(m) \subseteq 1..(nextId - 1) BY DEF TInv, TablesTyped, Refs
<1>3. IsFiniteSet(Refs(m)) BY <1>1, <1>2, FS_Subset
<1>4. QED BY <1>3, CountType DEF N

LEMMA NumbersThen ==
    ASSUME TInv', NEW m
    PROVE  IsFiniteSet(Refs(m)') /\ N(m)' \in Nat
<1>1. IsFiniteSet(1..(nextId' - 1)) BY FS_Interval DEF TInv, TablesTyped
<1>2. Refs(m)' \subseteq 1..(nextId' - 1) BY DEF TInv, TablesTyped, Refs
<1>3. IsFiniteSet(Refs(m)') BY <1>1, <1>2, FS_Subset
<1>4. QED BY <1>3, CountType DEF N

\* A content that is pinned is counted, before and after a step.
LEMMA PinnedCounted ==
    ASSUME TInv, PinnedKept, NEW m \in Pinned
    PROVE  N(m) > 0
<1>1. PICK p \in Preloaded : p[1] \notin Overwritten /\ m = p[2] BY DEF Pinned
<1>2. PICK i \in DOMAIN file \ Pending : file[i].md5 = m BY <1>1 DEF PinnedKept
<1>3. i \in Refs(m) BY <1>2 DEF Refs
<1>4. QED BY <1>2, <1>3, Numbers, CountPositive DEF N

LEMMA PinnedCountedThen ==
    ASSUME TInv', PinnedKept', NEW m \in Pinned
    PROVE  N(m)' > 0
<1>1. PICK p \in Preloaded : p[1] \notin Overwritten /\ m = p[2] BY DEF Pinned
<1>2. PICK i \in DOMAIN file' \ Pending' : file'[i].md5 = m
  BY <1>1 DEF PinnedKept, Overwritten
<1>3. i \in Refs(m)' BY <1>2 DEF Refs
<1>4. QED BY <1>2, <1>3, NumbersThen, CountPositive DEF N

-----------------------------------------------------------------------------
(***************************************************************************)
(* A step of session s changes the numbers of its own contents only.       *)
(***************************************************************************)
\* What a command reads, has dropped or is about to insert is a content of its user.
LEMMA InHandOfUser ==
    ASSUME TInv, RInv, NEW x \in Sessions, todo[x] # <<>>,
           \/ todo[x] \in Reading \cup Dropping \cup {UpInsert, UpNew}
           \/ reg[x].cmd = "upload"
    PROVE  reg[x].md5 \in Contents(x)
<1>1. Place(todo[x], reg[x]) BY DEF TInv, Places
<1>2. CASE todo[x] \in Reading \cup Dropping
  <2>1. todo[x] # Resolve /\ todo[x] \in OfDst BY <1>2, Table, ReadingOfDst
  <2>2. QED BY <2>1, OfUser
<1>3. CASE todo[x] \in {UpInsert, UpNew}
  <2>1. todo[x] # Resolve BY <1>3, UploadOps, RmOps
  <2>2. reg[x].cmd = "upload" BY <1>1, <1>3, UploadOnly DEF Place
  <2>3. QED BY <2>1, <2>2, OfUser
<1>4. CASE reg[x].cmd = "upload"
  <2>1. todo[x] # Resolve BY <1>1, <1>4, UploadOps, RmOps DEF Place, UploadTodos
  <2>2. QED BY <1>4, <2>1, OfUser
<1>5. QED BY <1>2, <1>3, <1>4

LEMMA SharedIsPinned ==
    ASSUME Apart, TInv, RInv, NEW s \in Sessions, NEW x \in Sessions, x # s, todo[x] # <<>>,
           \/ todo[x] \in Reading \cup Dropping \cup {UpInsert, UpNew}
           \/ reg[x].cmd = "upload",
           reg[x].md5 \in Contents(s)
    PROVE  reg[x].md5 \in Pinned
BY InHandOfUser DEF Apart

\* The record of a content of its user, as session s sees it.
LEMMA OwnRecord ==
    ASSUME Apart, TInv, RInv, CInv, NEW s \in Sessions, NEW m \in Contents(s),
           m \in Md5s \ tainted
    PROVE  real[m] = Record(N(m), ReadBy(s, m))
<1>1. real[m] = Record(N(m), \E x \in Sessions : ReadBy(x, m)) BY DEF CInv, Counts
<1>2. ASSUME NEW x \in Sessions, x # s, ReadBy(x, m) PROVE N(m) > 0
  <2>1. todo[x] # <<>> BY <1>2, Table DEF ReadBy
  <2>2. m \in Pinned BY <1>2, <2>1, SharedIsPinned DEF ReadBy
  <2>3. QED BY <2>2, PinnedCounted DEF RInv
<1>3. QED BY <1>1, <1>2 DEF Record

LEMMA StepCounts ==
    ASSUME Apart, TInv, RInv, CInv, TInv', RInv',
           NEW s \in Sessions, NEW t, NEW r, Moves(s, t, r),
           UNCHANGED <<exits, faults, tainted>>, Gone',
           NEW M, M \subseteq Contents(s),
           todo[s] \in Reading => reg[s].md5 \in M, t \in Reading => r.md5 \in M,
           \A m \in Md5s : m \notin M => N(m)' = N(m) /\ real'[m] = real[m],
           \A m \in Md5s \ tainted :
               m \in M => real'[m] = Record(N(m)', t \in Reading /\ r.md5 = m),
           Claim(t, r)'
    PROVE  CInv'
<1>1. /\ todo'[s] = t /\ reg'[s] = r
      /\ \A x \in Sessions : x # s => todo'[x] = todo[x] /\ reg'[x] = reg[x]
  BY Moved
<1>2. ASSUME NEW m \in Pinned PROVE N(m) > 0 /\ N(m)' > 0
  BY PinnedCounted, PinnedCountedThen DEF RInv
<1>3. ASSUME NEW m \in Md5s \ tainted
      PROVE  real'[m] = Record(N(m)', \E x \in Sessions : ReadBy(x, m)')
  <2>1. ReadBy(s, m)' <=> t \in Reading /\ r.md5 = m BY <1>1 DEF ReadBy
  <2>2. \A x \in Sessions : x # s => (ReadBy(x, m)' <=> ReadBy(x, m)) BY <1>1 DEF ReadBy
  <2>3. CASE m \notin M
    <3>1. ~ReadBy(s, m)' /\ ~ReadBy(s, m) BY <2>1, <2>3 DEF ReadBy
    <3>2. (\E x \in Sessions : ReadBy(x, m)') <=> \E x \in Sessions : ReadBy(x, m)
      BY <2>2, <3>1
    <3>3. real[m] = Record(N(m), \E x \in Sessions : ReadBy(x, m)) BY DEF CInv, Counts
    <3>4. N(m)' = N(m) /\ real'[m] = real[m] BY <2>3
    <3>5. QED BY <3>2, <3>3, <3>4 DEF Record
  <2>4. CASE m \in M
    <3>1. ASSUME NEW x \in Sessions, x # s, ReadBy(x, m) PROVE N(m)' > 0
      <4>1. todo[x] # <<>> BY <3>1, Table DEF ReadBy
      <4>2. m \in Pinned BY <2>4, <3>1, <4>1, SharedIsPinned DEF ReadBy
      <4>3. QED BY <1>2, <4>2
    <3>2. real'[m] = Record(N(m)', t \in Reading /\ r.md5 = m) BY <2>4
    <3>3. QED BY <2>1, <2>2, <3>1, <3>2 DEF Record
  <2>5. QED BY <2>3, <2>4
<1>4. Counts' BY <1>3 DEF Counts
<1>5. ASSUME NEW x \in Sessions PROVE Claim(todo[x], reg[x])'
  <2>1. CASE x = s BY <1>1, <2>1 DEF Claim
  <2>2. CASE x # s
    <3>1. Claim(todo[x], reg[x]) BY DEF CInv
    <3>2. todo'[x] = todo[x] /\ reg'[x] = reg[x] BY <1>1, <2>2
    <3>3. CASE reg[x].md5 \notin M BY <3>1, <3>2, <3>3 DEF Claim
    <3>4. CASE reg[x].md5 \in M
      <4>1. ASSUME todo[x] # <<>>,
                   \/ todo[x] \in Dropping \cup {UpInsert, UpNew}
                   \/ reg[x].cmd = "upload"
            PROVE  N(reg[x].md5) > 0 /\ N(reg[x].md5)' > 0
        <5>1. PICK m : m = reg[x].md5 OBVIOUS
        <5>2. m \in Pinned BY <2>2, <3>4, <4>1, <5>1, SharedIsPinned
        <5>3. N(m) > 0 /\ N(m)' > 0 BY <1>2, <5>2
        <5>4. QED BY <3>2, <5>1, <5>3
      <4>2. QED BY <3>1, <3>2, <4>1 DEF Claim
    <3>5. QED BY <3>3, <3>4
  <2>3. QED BY <2>1, <2>2
<1>6. QED BY <1>4, <1>5 DEF CInv

\* The answers: an id that is gone does not come back.
LEMMA GoneStays ==
    ASSUME CInv, TInv, NEW s \in Sessions, UNCHANGED tainted,
           UNCHANGED reply \/ reply' = [reply EXCEPT ![s] = NoReply],
           DOMAIN file' \subseteq DOMAIN file \cup {nextId}, nextId' \in {nextId, nextId + 1}
    PROVE  Gone'
<1>1. ASSUME NEW x \in Sessions, reply'[x].cmd = "rm", reply'[x].answer = "ok",
             reply'[x].md5 \notin tainted
      PROVE  reply'[x].id \notin DOMAIN file' /\ reply'[x].id < nextId'
  <2>1. reply'[x] = reply[x] BY <1>1 DEF TInv, SessionsTyped, NoReply
  <2>2. reply[x].id \notin DOMAIN file /\ reply[x].id < nextId BY <1>1, <2>1 DEF CInv, Gone
  <2>3. nextId \in Nat /\ reply[x].id \in Nat
    BY DEF TInv, TablesTyped, SessionsTyped, Replies
  <2>4. QED BY <2>1, <2>2, <2>3
<1>2. QED BY <1>1 DEF Gone

LEMMA GoneFinish ==
    ASSUME CInv, TInv, NEW s \in Sessions, NEW a, Finish(s, reg[s], a), UNCHANGED <<nextId, tainted>>,
           DOMAIN file' \subseteq DOMAIN file,
           reg[s].cmd = "rm" /\ a = "ok" /\ reg[s].md5 \notin tainted
               => reg[s].dst \notin DOMAIN file' /\ reg[s].dst < nextId
    PROVE  Gone'
<1>1. ASSUME NEW x \in Sessions, reply'[x].cmd = "rm", reply'[x].answer = "ok",
             reply'[x].md5 \notin tainted
      PROVE  reply'[x].id \notin DOMAIN file' /\ reply'[x].id < nextId'
  <2>1. CASE x = s BY <1>1, <2>1 DEF TInv, SessionsTyped, Finish, Answer
  <2>2. CASE x # s
    <3>1. reply'[x] = reply[x] BY <2>2 DEF TInv, SessionsTyped, Finish
    <3>2. QED BY <1>1, <3>1 DEF CInv, Gone
  <2>3. QED BY <2>1, <2>2
<1>2. QED BY <1>1 DEF Gone

-----------------------------------------------------------------------------
(***************************************************************************)
(* The counts, step by step: first the steps that change none.             *)
(***************************************************************************)
\* Session s stays as far behind, and as far ahead, as it was.
Level(s, t, r) ==
    /\ t \in Behind <=> todo[s] \in Behind
    /\ t \in Behind => r.dst = reg[s].dst
    /\ t \in Ahead <=> todo[s] \in Ahead
    /\ t \in Ahead => r.src = reg[s].src

LEMMA NumbersStay ==
    ASSUME TInv, NEW s \in Sessions, NEW t, NEW r, Moves(s, t, r), UNCHANGED file, Level(s, t, r)
    PROVE  \A m : N(m)' = N(m)
<1>1. Pending' = Pending /\ Copying' = Copying BY Others DEF Level
<1>2. ASSUME NEW m PROVE Refs(m)' = Refs(m) BY DEF Refs
<1>3. ASSUME NEW m PROVE N(m)' = N(m) BY <1>1, <1>2 DEF N
<1>4. QED BY <1>3

LEMMA SameNumbers ==
    ASSUME Apart, TInv, RInv, CInv, TInv', RInv',
           NEW s \in Sessions, NEW t, NEW r, Moves(s, t, r),
           UNCHANGED <<real, exits, faults, tainted>>, Gone', \A m : N(m)' = N(m),
           todo[s] \notin Reading, t \notin Reading, Claim(t, r)'
    PROVE  CInv'
<1>1. PICK M : M = {} OBVIOUS
<1>2. M \subseteq Contents(s) BY <1>1
<1>3. \A m \in Md5s : m \notin M => N(m)' = N(m) /\ real'[m] = real[m] OBVIOUS
<1>4. \A m \in Md5s \ tainted :
         m \in M => real'[m] = Record(N(m)', t \in Reading /\ r.md5 = m)
  BY <1>1
<1>5. QED BY <1>2, <1>3, <1>4, StepCounts

LEMMA QuietStep ==
    ASSUME Apart, TInv, RInv, CInv, TInv', RInv',
           NEW s \in Sessions, NEW t, NEW r, Moves(s, t, r),
           UNCHANGED <<file, real, exits, faults, tainted>>, Gone', Level(s, t, r),
           todo[s] \notin Reading, t \notin Reading, Claim(t, r)
    PROVE  CInv'
<1>1. \A m : N(m)' = N(m) BY NumbersStay
<1>2. Claim(t, r)' BY <1>1 DEF Claim
<1>3. QED BY <1>1, <1>2, SameNumbers

\* At most places nothing is claimed.
Plain(t, r) ==
    /\ t \notin Reading /\ t \notin Dropping /\ t # UpInsert /\ t # UpNew
    /\ r.cmd = "upload" => t # NewInsert /\ t # Inc

LEMMA QuietGoes ==
    ASSUME Apart, TInv, RInv, CInv, TInv', RInv',
           NEW s \in Sessions, NEW t, NEW r, Goes(s, t, r),
           UNCHANGED <<tables, exits, faults, tainted>>, Level(s, t, r),
           todo[s] \notin Reading, Plain(t, r)
    PROVE  CInv'
<1>1. Moves(s, t, r) BY DEF Goes, Moves
<1>2. Claim(t, r) BY DEF Claim, Plain
<1>3. Gone' BY GoneStays DEF Goes, tables
<1>4. QED BY <1>1, <1>2, <1>3, QuietStep DEF Plain, tables

LEMMA QuietFinish ==
    ASSUME Apart, TInv, RInv, CInv, TInv', RInv',
           NEW s \in Sessions, NEW a, Finish(s, reg[s], a),
           UNCHANGED <<tables, exits, faults, tainted>>, reg[s].cmd # "rm" \/ a # "ok",
           todo[s] \notin Reading, todo[s] \notin Behind, todo[s] \notin Ahead
    PROVE  CInv'
<1>1. Moves(s, <<>>, NoReg) BY DEF Finish, Moves
<1>2. Claim(<<>>, NoReg) BY DEF Claim
<1>3. Level(s, <<>>, NoReg) BY Table DEF Level
<1>4. Gone' BY GoneFinish DEF tables
<1>5. QED BY <1>1, <1>2, <1>3, <1>4, Table, QuietStep DEF tables

LEMMA CountsBegin ==
    ASSUME Apart, TInv, RInv, CInv, TInv', RInv', NEW s \in Sessions,
           BeginUpload(s) \/ BeginRm(s) \/ BeginCp(s)
    PROVE  CInv'
<1>1. PICK t, r : t \in {UpCheck, Resolve} /\ Starts(s, t, r)
  <2>1. CASE BeginUpload(s)
    <3>1. \E r : Starts(s, UpCheck, r) BY <2>1, BeginUploadFlow
    <3>2. QED BY <3>1
  <2>2. CASE BeginRm(s) \/ BeginCp(s)
    <3>1. \E r : Starts(s, Resolve, r) BY <2>2, BeginRmFlow, BeginCpFlow
    <3>2. QED BY <3>1
  <2>3. QED BY <2>1, <2>2
<1>2. Moves(s, t, r) /\ UNCHANGED <<file, nextId, real, exits, faults, tainted>>
  BY <1>1 DEF Starts, Moves, tables
<1>3. Level(s, t, r) /\ todo[s] \notin Reading /\ t \notin Reading
  BY <1>1, Table DEF Starts, Level
<1>4. Claim(t, r)
  <2>1. t \notin {UpInsert, UpNew, NewInsert, Inc}
    <3>1. Head(t) \in {"check", "resolve"} BY <1>1, UploadOps, RmOps
    <3>2. QED BY <3>1, UploadOps
  <2>2. t \notin Dropping BY <1>1, Table
  <2>3. QED BY <2>1, <2>2 DEF Claim
<1>5. Gone' BY <1>1, <1>2, GoneStays DEF Starts
<1>6. QED BY <1>2, <1>3, <1>4, <1>5, QuietStep

LEMMA CountsResolve ==
    ASSUME Apart, TInv, RInv, CInv, TInv', RInv', NEW s \in Sessions,
           ResolveRm(s) \/ ResolveCp(s)
    PROVE  CInv'
<1>1. /\ todo[s] = Resolve /\ UNCHANGED <<tables, exits, faults, tainted>>
      /\ \/ Finish(s, reg[s], "fail")
         \/ \E t \in {RmLoad, NewLoad, CpLoad, DirSource} : \E r : Goes(s, t, r)
  BY ResolveRmFlow, ResolveCpFlow DEF counters
<1>2. ASSUME NEW t \in {RmLoad, NewLoad, CpLoad, DirSource}, NEW r
      PROVE  Level(s, t, r) /\ Plain(t, r)
  <2>1. t \notin {UpInsert, UpNew, NewInsert, Inc}
    <3>1. Head(t) \in {"loaddst", "loadsrc"} BY RmOps, NewOps, CpOps, CpDirOps
    <3>2. QED BY <3>1, UploadOps
  <2>2. QED BY <1>1, <2>1, Table DEF Level, Plain
<1>3. CASE Finish(s, reg[s], "fail") BY <1>1, <1>3, Table, QuietFinish
<1>4. ASSUME NEW t \in {RmLoad, NewLoad, CpLoad, DirSource}, NEW r, Goes(s, t, r)
      PROVE  CInv'
  BY <1>1, <1>2, <1>4, Table, QuietGoes
<1>5. QED BY <1>1, <1>3, <1>4

\* No row is missing, so a load leads on.
LEMMA CountsLoad ==
    ASSUME Apart, TInv, RInv, CInv, TInv', RInv', NEW s \in Sessions,
           LoadSource(s) \/ LoadDestination(s)
    PROVE  CInv'
<1>1. reg[s] \in Regs BY DEF TInv, SessionsTyped
<1>2. ASSUME NEW t, NEW r, Goes(s, t, r), UNCHANGED <<tables, exits, faults, tainted>>,
             r.cmd \in {"rm", "cp", "cpdir"}, r.src = reg[s].src, r.dst = reg[s].dst,
             t \in Behind <=> todo[s] \in Behind, t \in Ahead <=> todo[s] \in Ahead,
             todo[s] \notin Reading, t \notin Reading, t \notin Dropping,
             t \notin {UpInsert, UpNew}
      PROVE  CInv'
  BY <1>2, QuietGoes DEF Level, Plain
<1>3. {NewInsert, CpUpdate, DirInc, DirUpdate, RmDec, CpDec, DirDec} \cap {UpInsert, UpNew} = {}
  <2>1. NewInsert # UpInsert BY DEF NewInsert, UpInsert
  <2>2. \A t \in {CpUpdate, DirInc, DirUpdate, RmDec, CpDec, DirDec} :
           Head(t) \in {"update", "inc", "dec"}
    BY SMTT(30), RmOps, CpOps, CpDirOps
  <2>3. NewInsert # UpNew BY UploadOps
  <2>4. QED BY <2>1, <2>2, <2>3, UploadOps
<1>4. /\ {CpSource, CpUpdate, DirReload, DirUpdate} \subseteq Behind
      /\ {DirReload, DirUpdate, DirLoad, DirDec} \subseteq Ahead
  BY DEF Behind, Ahead
<1>5. CASE LoadSource(s)
  <2> DEFINE r == [reg[s] EXCEPT !.md5 = file[reg[s].src].md5]
  <2>1. r.cmd = reg[s].cmd /\ r.src = reg[s].src /\ r.dst = reg[s].dst BY <1>1 DEF Regs
  <2>2. reg[s].src \in DOMAIN file BY <1>5, RowsThere
  <2> HIDE DEF r
  <2>3. /\ reg[s].cmd \in {"cp", "cpdir"} /\ UNCHANGED <<tables, exits, faults, tainted>>
        /\ \/ todo[s] = NewLoad /\ Goes(s, NewInsert, r)
           \/ todo[s] = CpSource /\ Goes(s, CpUpdate, r)
           \/ todo[s] = DirSource /\ Goes(s, DirInc, r)
           \/ todo[s] = DirReload /\ Goes(s, DirUpdate, r)
    BY <1>5, <2>2, SourceFlow DEF r
  <2>4. CASE todo[s] = NewLoad /\ Goes(s, NewInsert, r)
    BY <1>2, <1>3, <2>1, <2>3, <2>4, Table
  <2>5. CASE todo[s] = CpSource /\ Goes(s, CpUpdate, r)
    BY <1>2, <1>3, <1>4, <2>1, <2>3, <2>5, Table
  <2>6. CASE todo[s] = DirSource /\ Goes(s, DirInc, r)
    BY <1>2, <1>3, <2>1, <2>3, <2>6, Table
  <2>7. CASE todo[s] = DirReload /\ Goes(s, DirUpdate, r)
    BY <1>2, <1>3, <1>4, <2>1, <2>3, <2>7, Table
  <2>8. QED BY <2>3, <2>4, <2>5, <2>6, <2>7
<1>6. CASE LoadDestination(s)
  <2> DEFINE r == [reg[s] EXCEPT !.md5 = file[reg[s].dst].md5]
  <2>1. r.cmd = reg[s].cmd /\ r.src = reg[s].src /\ r.dst = reg[s].dst BY <1>1 DEF Regs
  <2>2. reg[s].dst \in DOMAIN file BY <1>6, RowsThere
  <2> HIDE DEF r
  <2>3. /\ reg[s].cmd \in {"rm", "cp", "cpdir"} /\ UNCHANGED <<tables, exits, faults, tainted>>
        /\ \/ todo[s] = RmLoad /\ Goes(s, RmDec, r)
           \/ todo[s] = CpLoad /\ Goes(s, CpDec, r)
           \/ todo[s] = DirLoad /\ Goes(s, DirDec, r)
    BY <1>6, <2>2, DestinationFlow DEF r
  <2>4. CASE todo[s] = RmLoad /\ Goes(s, RmDec, r)
    BY <1>2, <1>3, <2>1, <2>3, <2>4, Table
  <2>5. CASE todo[s] = CpLoad /\ Goes(s, CpDec, r)
    BY <1>2, <1>3, <2>1, <2>3, <2>5, Table
  <2>6. CASE todo[s] = DirLoad /\ Goes(s, DirDec, r)
    BY <1>2, <1>3, <1>4, <2>1, <2>3, <2>6, Table
  <2>7. QED BY <2>3, <2>4, <2>5, <2>6
<1>7. QED BY <1>5, <1>6

\* What an upload finds in file_real is what the number of its content says.
LEMMA CountsUpload ==
    ASSUME Apart, TInv, RInv, CInv, TInv', RInv', NEW s \in Sessions,
           \/ CheckName(s) \/ StatExisting(s) \/ SendOffset(s) \/ SeekEnd(s)
           \/ Receive(s) \/ Lose(s)
    PROVE  CInv'
<1>1. /\ UNCHANGED <<tables, exits, faults, tainted>> /\ reg[s].cmd = "upload"
      /\ todo[s] \in {UpCheck, UpStat, UpOffset, UpSeek, UpRecv}
      /\ \/ \E a : Finish(s, reg[s], a)
         \/ \E t \in {UpStat, UpOffset, UpLookup, UpRecv} : \E r : Goes(s, t, r)
  BY CheckFlow, StatFlow, OffsetFlow, SeekFlow, ReceiveFlow, LoseFlow DEF counters
<1>2. ASSUME NEW t \in {UpStat, UpOffset, UpLookup, UpRecv}, NEW r
      PROVE  Level(s, t, r) /\ Plain(t, r)
  <2>1. t \notin {UpInsert, UpNew, NewInsert, Inc}
    <3>1. Head(t) \in {"stat", "offset", "lookup", "recv"} BY UploadOps
    <3>2. QED BY <3>1, UploadOps
  <2>2. QED BY <1>1, <2>1, Table DEF Level, Plain
<1>3. ASSUME NEW a, Finish(s, reg[s], a) PROVE CInv' BY <1>1, <1>3, Table, QuietFinish
<1>4. ASSUME NEW t \in {UpStat, UpOffset, UpLookup, UpRecv}, NEW r, Goes(s, t, r)
      PROVE  CInv'
  BY <1>1, <1>2, <1>4, Table, QuietGoes
<1>5. QED BY <1>1, <1>3, <1>4

LEMMA CountsLookup ==
    ASSUME Apart, TInv, RInv, CInv, TInv', RInv', NEW s \in Sessions, LookupReal(s)
    PROVE  CInv'
<1>1. reg[s] \in Regs BY DEF TInv, SessionsTyped
<1> DEFINE m == reg[s].md5
           b == (real[m] # <<>>)
           r == [reg[s] EXCEPT !.ret = b]
<1>2. r.cmd = reg[s].cmd /\ r.md5 = m BY <1>1 DEF Regs
<1>3. PICK t : /\ reg[s].cmd = "upload" /\ todo[s] = UpLookup /\ m \in Md5s
               /\ UNCHANGED <<tables, exits, faults, tainted>> /\ Goes(s, t, r)
               /\ \/ t = NewInsert /\ b
                  \/ t = UpInsert /\ ~b
                  \/ t = UpSeek
  BY LookupFlow DEF counters
<1>4. ASSUME m \notin tainted PROVE b <=> N(m) > 0
  <2>1. todo[s] # Resolve /\ todo[s] # <<>> BY <1>3, UploadOps, RmOps
  <2>2. m \in Contents(s) BY <1>3, <2>1, OfUser
  <2>3. ~ReadBy(s, m) BY <1>3, Table DEF ReadBy
  <2>4. real[m] = Record(N(m), ReadBy(s, m)) BY <1>3, <1>4, <2>2, OwnRecord
  <2>5. QED BY <2>3, <2>4 DEF Record
<1> HIDE DEF r, b
<1>5. Claim(t, r)
  <2>1. N(m) \in Nat BY Numbers
  <2>2. t \notin Dropping /\ t # UpNew /\ UpSeek # UpInsert /\ UpSeek # NewInsert /\ UpSeek # Inc
    BY <1>3, Table, UploadOps
  <2>3. NewInsert # UpInsert BY UploadOps, UploadOnly, CpOps DEF NewInsert, UpInsert
  <2>4. UpInsert # Inc BY UploadOps
  <2>5. QED BY <1>2, <1>3, <1>4, <2>1, <2>2, <2>3, <2>4 DEF Claim
<1>6. Level(s, t, r) /\ t \notin Reading BY <1>3, Table DEF Level
<1>7. Moves(s, t, r) BY <1>3 DEF Goes, Moves
<1>8. Gone' BY <1>3, GoneStays DEF Goes, tables
<1>9. QED BY <1>3, <1>5, <1>6, <1>7, <1>8, Table, QuietStep DEF tables

-----------------------------------------------------------------------------
(***************************************************************************)
(* The steps that change a count.                                          *)
(***************************************************************************)
\* Only the rows of m become pending or copied, or cease to be: no other number changes.
LEMMA OtherNumbers ==
    ASSUME UNCHANGED file, NEW m,
           \A i : (i \in Pending <=> i \in Pending') \/ i \in Refs(m),
           \A i : (i \in Copying <=> i \in Copying') \/ i \in Refs(m)
    PROVE  \A n : n # m => N(n)' = N(n)
<1>1. ASSUME NEW n, n # m PROVE N(n)' = N(n)
  <2>1. Refs(n)' = Refs(n) /\ Refs(n) \cap Refs(m) = {} BY <1>1 DEF Refs
  <2>2. Refs(n) \ Pending = Refs(n)' \ Pending' BY <2>1
  <2>3. Refs(n) \cap Copying = Refs(n)' \cap Copying' BY <2>1
  <2>4. QED BY <2>2, <2>3, CountSame DEF N
<1>2. QED BY <1>1

\* The rows session s works on are no other session's.
LEMMA Own ==
    ASSUME Apart, TInv, RInv, NEW s \in Sessions, NEW i, Mine(s, i)
    PROVE  i \notin PendingBut(s) /\ i \notin CopyingBut(s)
BY Theirs DEF Mine

LEMMA OwnDst ==
    ASSUME RInv, NEW s \in Sessions, todo[s] # <<>>, todo[s] # Resolve, todo[s] \in OfDst
    PROVE  /\ Mine(s, reg[s].dst) /\ reg[s].dst \in Refs(reg[s].md5)
           /\ reg[s].md5 \in Contents(s)
<1>1. Mine(s, reg[s].dst) /\ reg[s].md5 = file[reg[s].dst].md5 BY OfDstHas DEF RInv, Rows
<1>2. QED BY <1>1, OfUser DEF Mine, Refs

LEMMA OwnSrc ==
    ASSUME RInv, NEW s \in Sessions, todo[s] # <<>>, todo[s] # Resolve, todo[s] \in OfSrc,
           reg[s].cmd \in {"cp", "cpdir"}
    PROVE  /\ Mine(s, reg[s].src) /\ reg[s].src \in Refs(reg[s].md5)
           /\ reg[s].md5 \in Contents(s)
           /\ todo[s] = Inc => reg[s].src # reg[s].dst
<1>1. /\ Mine(s, reg[s].src) /\ reg[s].md5 = file[reg[s].src].md5
      /\ todo[s] = Inc => reg[s].src # reg[s].dst
  BY DEF RInv, Rows
<1>2. QED BY <1>1, OfUser DEF Mine, Refs

\* The row dst of a content ceases to be pending, or becomes so.
LEMMA NumberUp ==
    ASSUME Apart, TInv, RInv, NEW s \in Sessions, NEW t, NEW r, Moves(s, t, r), UNCHANGED file,
           NEW m, m = reg[s].md5,
           todo[s] # <<>>, todo[s] # Resolve, todo[s] \in OfDst, todo[s] \in Behind,
           t \notin Behind, t \notin Ahead, todo[s] \notin Ahead
    PROVE  N(m)' = N(m) + 1 /\ \A n : n # m => N(n)' = N(n)
<1>1. PICK d, R : d = reg[s].dst /\ R = Refs(m) OBVIOUS
<1>2. Mine(s, d) /\ d \in R BY <1>1, OwnDst
<1>3. d \notin PendingBut(s) BY <1>2, Own
<1>4. Pending = PendingBut(s) \cup {d} /\ Pending' = PendingBut(s) /\ Copying' = Copying
  BY ZenonT(60), <1>1, Others
<1>5. Refs(m)' = R BY <1>1 DEF Refs
<1>6. N(m)' = Count(R, PendingBut(s), Copying) /\ N(m) = Count(R, PendingBut(s) \cup {d}, Copying)
  BY <1>1, <1>4, <1>5 DEF N
<1>7. IsFiniteSet(R) BY <1>1, Numbers
<1>8. N(m)' = N(m) + 1 BY <1>2, <1>3, <1>6, <1>7, CountPending
<1>9. \A n : n # m => N(n)' = N(n) BY <1>1, <1>2, <1>4, OtherNumbers
<1>10. QED BY <1>8, <1>9

LEMMA NumberDown ==
    ASSUME Apart, TInv, RInv, NEW s \in Sessions, NEW t, NEW r, Moves(s, t, r), UNCHANGED file,
           NEW m, m = reg[s].md5, r = reg[s],
           todo[s] # <<>>, todo[s] # Resolve, todo[s] \in OfDst, todo[s] \notin Behind,
           t \in Behind, t \in Ahead <=> todo[s] \in Ahead
    PROVE  N(m) = N(m)' + 1 /\ \A n : n # m => N(n)' = N(n)
<1>1. PICK d, R : d = reg[s].dst /\ R = Refs(m) OBVIOUS
<1>2. Mine(s, d) /\ d \in R BY <1>1, OwnDst
<1>3. d \notin PendingBut(s) BY <1>2, Own
<1>4. Pending = PendingBut(s) /\ Pending' = PendingBut(s) \cup {d} /\ Copying' = Copying
  <2>1. r.dst = d /\ r.src = reg[s].src BY <1>1
  <2>2. Pending = PendingBut(s) /\ Pending' = PendingBut(s) \cup {r.dst}
    <3>1. Pending = PendingBut(s) \cup IF todo[s] \in Behind THEN {reg[s].dst} ELSE {} BY Others
    <3>2. Pending' = PendingBut(s) \cup IF t \in Behind THEN {r.dst} ELSE {} BY Others
    <3>3. QED BY <3>1, <3>2
  <2>3. Copying' = Copying
    <3>1. Copying = CopyingBut(s) \cup IF todo[s] \in Ahead THEN {reg[s].src} ELSE {} BY Others
    <3>2. Copying' = CopyingBut(s) \cup IF t \in Ahead THEN {r.src} ELSE {} BY Others
    <3>3. QED BY <2>1, <3>1, <3>2
  <2>4. QED BY <2>1, <2>2, <2>3
<1>5. Refs(m)' = R BY <1>1 DEF Refs
<1>6. N(m)' = Count(R, PendingBut(s) \cup {d}, Copying) /\ N(m) = Count(R, PendingBut(s), Copying)
  BY <1>1, <1>4, <1>5 DEF N
<1>7. IsFiniteSet(R) BY <1>1, Numbers
<1>8. N(m) = N(m)' + 1 BY <1>2, <1>3, <1>6, <1>7, CountPending
<1>9. \A n : n # m => N(n)' = N(n) BY <1>1, <1>2, <1>4, OtherNumbers
<1>10. QED BY <1>8, <1>9

\* The record of m takes the number of m, and the others stay.
LEMMA RecordStep ==
    ASSUME Apart, TInv, RInv, CInv, TInv', RInv',
           NEW s \in Sessions, NEW t, NEW r, Moves(s, t, r),
           UNCHANGED <<exits, faults, tainted>>, Gone', NEW m \in Contents(s), m = reg[s].md5,
           t \in Reading => r.md5 = m,
           \A n : n # m => N(n)' = N(n), \A n \in Md5s : n # m => real'[n] = real[n],
           m \in Md5s \ tainted => real'[m] = Record(N(m)', t \in Reading),
           Claim(t, r)'
    PROVE  CInv'
<1>1. PICK M : M = {m} OBVIOUS
<1>2. M \subseteq Contents(s) BY <1>1
<1>3. /\ todo[s] \in Reading => reg[s].md5 \in M
      /\ t \in Reading => r.md5 \in M
  BY <1>1
<1>4. \A n \in Md5s : n \notin M => N(n)' = N(n) /\ real'[n] = real[n] BY <1>1
<1>5. ASSUME NEW n \in Md5s \ tainted, n \in M
      PROVE  real'[n] = Record(N(n)', t \in Reading /\ r.md5 = n)
  <2>1. n = m BY <1>1, <1>5
  <2>2. real'[m] = Record(N(m)', t \in Reading) BY <1>5, <2>1
  <2>3. QED BY <2>1, <2>2 DEF Record
<1>6. QED BY <1>2, <1>3, <1>4, <1>5, StepCounts

\* A record that is there, shifted.
LEMMA ShiftedRecord ==
    ASSUME NEW n \in Nat, n > 0, NEW d \in Int, NEW q, q = Record(n, FALSE), NEW here
    PROVE  /\ n + d > 0 \/ here => Plus(q, d) = Record(n + d, here)
<1>1. q = <<n>> /\ q \in Seq(Int) BY DEF Record
<1>2. \A k \in Int : q = <<k>> => Plus(q, d) = <<k + d>> BY <1>1, Shifted
<1>3. n \in Int OBVIOUS
<1>4. Plus(q, d) = <<n + d>> BY <1>1, <1>2, <1>3
<1>5. QED BY <1>4 DEF Record

LEMMA CountsInc ==
    ASSUME Apart, TInv, RInv, CInv, TInv', RInv', NEW s \in Sessions, IncCount(s)
    PROVE  CInv'
<1>1. PICK m, q : m = q.md5 /\ q = reg[s] OBVIOUS
<1>2. /\ m \in Md5s /\ real' = [real EXCEPT ![m] = Plus(real[m], 1)]
      /\ UNCHANGED <<file, nextId, exits, faults, tainted>>
      /\ \/ q.cmd \in {"upload", "cp", "cpdir"} /\ todo[s] = Inc /\ Finish(s, q, "ok")
         \/ q.cmd = "cpdir" /\ todo[s] = DirInc /\ Goes(s, DirLoad, q)
  BY <1>1, IncFlow DEF counters
<1>3. real \in [Md5s -> Seq(Int)] BY DEF TInv, TablesTyped
<1>4. real'[m] = Plus(real[m], 1) /\ \A n \in Md5s : n # m => real'[n] = real[n]
  BY <1>2, <1>3
<1>5. /\ todo[s] # <<>> /\ todo[s] # Resolve /\ todo[s] \notin Reading /\ m \in Contents(s)
      /\ q.cmd \in {"cp", "cpdir"} => Mine(s, q.src) /\ q.src \in Refs(m)
      /\ todo[s] = Inc => /\ Mine(s, q.dst) /\ q.dst \in Refs(m)
                          /\ q.cmd \in {"cp", "cpdir"} => q.src # q.dst
  <2>1. Inc \in OfDst /\ Inc \in OfSrc /\ DirInc \in OfSrc BY DEF OfDst, OfSrc
  <2>2. todo[s] # <<>> /\ todo[s] # Resolve /\ todo[s] \notin Reading
    <3>1. Inc # <<>> /\ Inc # Resolve BY UploadOps, RmOps
    <3>2. DirInc # <<>> /\ DirInc # Resolve BY CpDirOps, RmOps
    <3>3. QED BY <1>2, <3>1, <3>2, Table
  <2>3. QED BY <1>1, <1>2, <2>1, <2>2, OwnDst, OwnSrc, OfUser
<1>6. Pending = PendingBut(s) \cup IF todo[s] = Inc THEN {q.dst} ELSE {}
  <2>1. Inc \in Behind BY DEF Behind
  <2>2. PICK t, r : Moves(s, t, r) BY <1>2 DEF Moves, Finish, Goes
  <2>3. QED BY <1>1, <1>2, <2>1, <2>2, Table, Others
<1>7. N(m) \in Nat /\ N(m)' \in Nat BY Numbers, NumbersThen
<1>8. ASSUME m \notin tainted PROVE N(m) > 0 /\ real[m] = Record(N(m), FALSE)
  <2>1. ~ReadBy(s, m) BY <1>5 DEF ReadBy
  <2>2. real[m] = Record(N(m), ReadBy(s, m)) BY <1>2, <1>5, <1>8, OwnRecord
  <2>3. CASE q.cmd = "upload"
    <3>1. todo[s] = Inc BY <1>2, <2>3
    <3>2. QED BY <1>1, <1>2, <1>5, <1>8, <2>1, <2>2, <2>3, <3>1 DEF CInv, Claim, Record
  <2>4. CASE q.cmd \in {"cp", "cpdir"}
    <3>1. q.src \notin PendingBut(s) BY <1>5, <2>4, Own
    <3>2. q.src \notin Pending BY <1>5, <1>6, <2>4, <3>1
    <3>3. N(m) > 0 BY <1>5, <2>4, <3>2, Numbers, CountPositive DEF N
    <3>4. QED BY <2>1, <2>2, <3>3 DEF Record
  <2>5. QED BY <1>2, <2>3, <2>4
<1>9. ASSUME NEW t, NEW r, Moves(s, t, r), t \notin Reading, Claim(t, r)', Gone',
             N(m)' = N(m) + 1, \A n : n # m => N(n)' = N(n)
      PROVE  CInv'
  <2>1. ASSUME m \in Md5s \ tainted PROVE real'[m] = Record(N(m)', t \in Reading)
    <3>1. PICK k : k = N(m) OBVIOUS
    <3>2. k \in Nat /\ k > 0 /\ real[m] = Record(k, FALSE) BY <1>7, <1>8, <2>1, <3>1
    <3>3. Plus(real[m], 1) = Record(k + 1, t \in Reading)
      <4>1. k + 1 > 0 /\ 1 \in Int BY <3>2
      <4>2. QED BY <3>2, <4>1, ShiftedRecord
    <3>4. QED BY <1>4, <1>9, <3>1, <3>3
  <2>2. QED BY <1>1, <1>2, <1>4, <1>5, <1>9, <2>1, RecordStep
<1>10. CASE todo[s] = Inc /\ Finish(s, q, "ok")
  <2>1. Moves(s, <<>>, NoReg) BY <1>10 DEF Finish, Moves
  <2>2. Inc \in OfDst /\ Inc \in Behind BY DEF OfDst, Behind
  <2>3. N(m)' = N(m) + 1 /\ \A n : n # m => N(n)' = N(n)
    BY <1>1, <1>2, <1>5, <1>10, <2>1, <2>2, Table, NumberUp
  <2>4. Gone'
    <3>1. q.cmd # "rm"
      <4>1. Place(todo[s], reg[s]) BY DEF TInv, Places
      <4>2. QED BY <1>1, <1>2
    <3>2. QED BY <1>1, <1>2, <1>10, <3>1, GoneFinish
  <2>5. Claim(<<>>, NoReg)' BY DEF Claim
  <2>6. QED BY <1>9, <2>1, <2>3, <2>4, <2>5, Table
<1>11. CASE todo[s] = DirInc /\ Goes(s, DirLoad, q) /\ q.cmd = "cpdir"
  <2>1. Moves(s, DirLoad, q) BY <1>11 DEF Goes, Moves
  <2>2. PICK d, R : d = q.src /\ R = Refs(m) OBVIOUS
  <2>3. DirLoad \in Ahead BY DEF Ahead
  <2>4. Pending' = Pending /\ Copying = CopyingBut(s) /\ Copying' = CopyingBut(s) \cup {d}
    BY ZenonT(60), <1>11, <2>1, <2>2, <2>3, Table, Others
  <2>5. d \notin CopyingBut(s) /\ d \in R BY <1>5, <1>11, <2>2, Own
  <2>6. Refs(m)' = R BY <1>2, <2>2 DEF Refs
  <2>7. N(m) = Count(R, Pending, CopyingBut(s)) /\ N(m)' = Count(R, Pending, CopyingBut(s) \cup {d})
    BY <2>2, <2>4, <2>6 DEF N
  <2>8. IsFiniteSet(R) BY <2>2, Numbers
  <2>9. N(m)' = N(m) + 1 BY <2>5, <2>7, <2>8, CountCopying
  <2>10. \A n : n # m => N(n)' = N(n) BY <1>2, <2>2, <2>4, <2>5, OtherNumbers
  <2>11. Gone' BY <1>2, <1>11, GoneStays DEF Goes
  <2>12. Claim(DirLoad, q)'
    <3>1. DirLoad \notin Dropping BY Table
    <3>2. DirLoad \notin {UpInsert, UpNew} BY CpDirOps, UploadOps
    <3>3. QED BY <1>11, <3>1, <3>2 DEF Claim
  <2>13. QED BY <1>9, <2>1, <2>9, <2>10, <2>11, <2>12, Table
<1>12. QED BY <1>2, <1>10, <1>11

LEMMA CountsDec ==
    ASSUME Apart, TInv, RInv, CInv, TInv', RInv', NEW s \in Sessions, DecCount(s)
    PROVE  CInv'
<1>1. PICK m, q : m = q.md5 /\ q = reg[s] OBVIOUS
<1>2. /\ m \in Md5s /\ real' = [real EXCEPT ![m] = Plus(real[m], -1)]
      /\ UNCHANGED <<file, nextId, exits, faults, tainted>>
      /\ \/ q.cmd = "rm" /\ todo[s] = RmDec /\ Goes(s, RmRead, q)
         \/ q.cmd = "cp" /\ todo[s] = CpDec /\ Goes(s, CpRead, q)
         \/ q.cmd = "cpdir" /\ todo[s] = DirDec /\ Goes(s, DirRead, q)
  BY <1>1, DecFlow DEF counters
<1>3. real \in [Md5s -> Seq(Int)] BY DEF TInv, TablesTyped
<1>4. real'[m] = Plus(real[m], -1) /\ \A n \in Md5s : n # m => real'[n] = real[n]
  BY <1>2, <1>3
<1>5. PICK t : /\ Goes(s, t, q) /\ t \in Behind /\ t \in Reading /\ (t \in Ahead <=> todo[s] \in Ahead)
               /\ t \notin Dropping /\ t \notin {UpInsert, UpNew} /\ q.cmd # "upload"
  <2>1. /\ {RmRead, CpRead, DirRead} \subseteq Behind /\ {RmRead, CpRead, DirRead} \subseteq Reading
        /\ DirDec \in Ahead /\ DirRead \in Ahead
    BY DEF Behind, Reading, Ahead
  <2>2. {RmRead, CpRead, DirRead} \cap {UpInsert, UpNew} = {}
    BY RmOps, CpOps, CpDirOps, UploadOps
  <2>3. CASE q.cmd = "rm" /\ todo[s] = RmDec /\ Goes(s, RmRead, q) BY <2>1, <2>2, <2>3, Table
  <2>4. CASE q.cmd = "cp" /\ todo[s] = CpDec /\ Goes(s, CpRead, q) BY <2>1, <2>2, <2>4, Table
  <2>5. CASE q.cmd = "cpdir" /\ todo[s] = DirDec /\ Goes(s, DirRead, q) BY <2>1, <2>2, <2>5, Table
  <2>6. QED BY <1>2, <2>3, <2>4, <2>5
<1>6. /\ todo[s] # <<>> /\ todo[s] # Resolve /\ todo[s] \notin Reading /\ todo[s] \notin Behind
      /\ todo[s] \in OfDst
  <2>1. {RmDec, CpDec, DirDec} \subseteq OfDst BY DEF OfDst
  <2>2. RmDec # <<>> /\ RmDec # Resolve BY RmOps
  <2>3. CpDec # <<>> /\ CpDec # Resolve BY CpOps, RmOps
  <2>4. DirDec # <<>> /\ DirDec # Resolve BY CpDirOps, RmOps
  <2>5. {RmDec, CpDec, DirDec} \cap (Reading \cup Behind) = {} BY Table
  <2>6. QED BY <1>2, <2>1, <2>2, <2>3, <2>4, <2>5
<1>7. m \in Contents(s) BY <1>1, <1>6, OwnDst
<1>8. Moves(s, t, q) BY <1>5 DEF Goes, Moves
<1>9. N(m) = N(m)' + 1 /\ \A n : n # m => N(n)' = N(n)
  BY <1>1, <1>2, <1>5, <1>6, <1>8, NumberDown
<1>10. Gone' BY <1>2, <1>5, GoneStays DEF Goes
<1>11. Claim(t, q)' BY <1>5 DEF Claim
<1>12. ASSUME m \in Md5s \ tainted PROVE real'[m] = Record(N(m)', t \in Reading)
  <2>1. ~ReadBy(s, m) BY <1>6 DEF ReadBy
  <2>2. real[m] = Record(N(m), ReadBy(s, m)) BY <1>7, <1>12, OwnRecord
  <2>3. PICK k, b : k = N(m) /\ b = N(m)' OBVIOUS
  <2>4. k \in Nat /\ b \in Nat /\ k = b + 1 BY <1>9, <2>3, Numbers, NumbersThen
  <2>5. real[m] = Record(k, FALSE) BY <2>1, <2>2, <2>3 DEF Record
  <2>6. k > 0 /\ k + (-1) = b BY <2>4
  <2>7. Plus(real[m], -1) = Record(k + (-1), t \in Reading)
    <3>1. -1 \in Int OBVIOUS
    <3>2. QED BY ZenonT(60), <1>5, <2>4, <2>5, <2>6, <3>1, ShiftedRecord
  <2>8. QED BY <1>4, <2>3, <2>6, <2>7
<1>13. QED BY <1>1, <1>2, <1>4, <1>7, <1>8, <1>9, <1>10, <1>11, <1>12, RecordStep

\* The count is there, and it is the number; it is 0 when the row was the last.
LEMMA CountsRead ==
    ASSUME Apart, TInv, RInv, CInv, TInv', RInv', NEW s \in Sessions, ReadCount(s), ~Fault
    PROVE  CInv'
<1>1. PICK m, q : m = q.md5 /\ q = reg[s] OBVIOUS
<1>2. /\ m \in Md5s /\ UNCHANGED <<tables, exits, faults, tainted>>
      /\ \/ real[m] = <<>> /\ q.cmd = "rm" /\ todo[s] = RmRead /\ Finish(s, q, "ok")
         \/ /\ real[m] # <<>> /\ real[m][1] = 0
            /\ \/ q.cmd = "rm" /\ todo[s] = RmRead /\ Goes(s, RmDrop, q)
               \/ q.cmd = "cp" /\ todo[s] = CpRead /\ Goes(s, CpDrop, q)
               \/ q.cmd = "cpdir" /\ todo[s] = DirRead /\ Goes(s, DirDrop, q)
         \/ /\ real[m] # <<>> /\ real[m][1] # 0
            /\ \/ q.cmd = "rm" /\ todo[s] = RmRead /\ Goes(s, RmRow, q)
               \/ q.cmd = "cp" /\ todo[s] = CpRead /\ Goes(s, CpSource, q)
               \/ q.cmd = "cpdir" /\ todo[s] = DirRead /\ Goes(s, DirReload, q)
  BY <1>1, ReadFlow
<1>3. /\ todo[s] # <<>> /\ todo[s] # Resolve
      /\ todo[s] \in Reading /\ todo[s] \in Behind /\ todo[s] \in OfDst
  <2>1. /\ RmRead # <<>> /\ RmRead # Resolve /\ CpRead # <<>> /\ CpRead # Resolve
        /\ DirRead # <<>> /\ DirRead # Resolve
    BY RmOps, CpOps, CpDirOps
  <2>2. {RmRead, CpRead, DirRead} \subseteq Reading \cap Behind \cap OfDst
    BY DEF Reading, Behind, OfDst
  <2>3. QED BY <1>2, <2>1, <2>2
<1>4. m \in Contents(s) BY <1>1, <1>3, OwnDst
<1>5. N(m) \in Nat BY Numbers
<1>6. m \notin tainted => real[m] = <<N(m)>>
  <2>1. ReadBy(s, m) BY <1>1, <1>3 DEF ReadBy
  <2>2. m \notin tainted => real[m] = Record(N(m), ReadBy(s, m)) BY <1>2, <1>4, OwnRecord
  <2>3. QED BY <2>1, <2>2 DEF Record
<1>7. CASE real[m] = <<>> /\ q.cmd = "rm" /\ todo[s] = RmRead /\ Finish(s, q, "ok")
  <2>1. m \in tainted
    <3>1. <<N(m)>> # <<>> OBVIOUS
    <3>2. QED BY <1>2, <1>6, <1>7, <3>1
  <2>2. Moves(s, <<>>, NoReg) BY <1>7 DEF Finish, Moves
  <2>3. \A n : n # m => N(n)' = N(n)
    BY <1>1, <1>2, <1>3, <1>7, <2>2, Table, NumberUp DEF tables
  <2>4. Gone' BY <1>1, <1>2, <1>7, <2>1, GoneFinish DEF tables
  <2>5. Claim(<<>>, NoReg)' BY DEF Claim
  <2>6. QED BY <1>1, <1>2, <1>4, <2>1, <2>2, <2>3, <2>4, <2>5, Table, RecordStep DEF tables
<1>8. ASSUME NEW t, Goes(s, t, q), q.cmd # "upload", t \in Behind, t \in Ahead <=> todo[s] \in Ahead,
             t \notin {UpInsert, UpNew},
             \/ t \in Dropping /\ t \in Reading /\ real[m][1] = 0
             \/ t \notin Dropping /\ t \notin Reading /\ real[m][1] # 0
      PROVE  CInv'
  <2>1. Moves(s, t, q) BY <1>8 DEF Goes, Moves
  <2>2. Level(s, t, q) BY <1>1, <1>3, <1>8 DEF Level
  <2>3. \A n : N(n)' = N(n) BY <1>2, <2>1, <2>2, NumbersStay DEF tables
  <2>4. m \notin tainted => real[m][1] = N(m) /\ real[m] = <<N(m)>> BY <1>6
  <2>5. m \in Md5s \ tainted => real'[m] = Record(N(m)', t \in Reading)
    <3>1. real' = real BY <1>2 DEF tables
    <3>2. CASE t \in Reading BY <2>3, <2>4, <3>1, <3>2 DEF Record
    <3>3. CASE t \notin Reading /\ real[m][1] # 0 BY <1>5, <2>3, <2>4, <3>1, <3>3 DEF Record
    <3>4. QED BY <1>8, <3>2, <3>3
  <2>6. Gone' BY <1>2, <1>8, GoneStays DEF Goes, tables
  <2>7. Claim(t, q)' BY <1>1, <1>2, <1>8, <2>3, <2>4 DEF Claim
  <2>8. QED BY <1>1, <1>2, <1>4, <2>1, <2>3, <2>5, <2>6, <2>7, RecordStep DEF tables
<1>9. /\ {RmDrop, RmRow, CpDrop, CpSource, DirDrop, DirReload} \subseteq Behind
      /\ {DirRead, DirDrop, DirReload} \subseteq Ahead
      /\ {RmDrop, CpDrop, DirDrop} \subseteq Dropping \cap Reading
  BY DEF Behind, Ahead, Dropping, Reading
<1>10. {RmDrop, RmRow, CpDrop, CpSource, DirDrop, DirReload} \cap {UpInsert, UpNew} = {}
  BY RmOps, CpOps, CpDirOps, UploadOps
<1>11. ASSUME q.cmd = "rm", todo[s] = RmRead,
              \/ Goes(s, RmDrop, q) /\ real[m][1] = 0
              \/ Goes(s, RmRow, q) /\ real[m][1] # 0
       PROVE  CInv'
  <2>1. CASE Goes(s, RmDrop, q) /\ real[m][1] = 0 BY <1>8, <1>9, <1>10, <1>11, <2>1, Table
  <2>2. CASE Goes(s, RmRow, q) /\ real[m][1] # 0 BY <1>8, <1>9, <1>10, <1>11, <2>2, Table
  <2>3. QED BY <1>11, <2>1, <2>2
<1>12. ASSUME q.cmd = "cp", todo[s] = CpRead,
              \/ Goes(s, CpDrop, q) /\ real[m][1] = 0
              \/ Goes(s, CpSource, q) /\ real[m][1] # 0
       PROVE  CInv'
  <2>1. CASE Goes(s, CpDrop, q) /\ real[m][1] = 0 BY <1>8, <1>9, <1>10, <1>12, <2>1, Table
  <2>2. CASE Goes(s, CpSource, q) /\ real[m][1] # 0 BY <1>8, <1>9, <1>10, <1>12, <2>2, Table
  <2>3. QED BY <1>12, <2>1, <2>2
<1>13. ASSUME q.cmd = "cpdir", todo[s] = DirRead,
              \/ Goes(s, DirDrop, q) /\ real[m][1] = 0
              \/ Goes(s, DirReload, q) /\ real[m][1] # 0
       PROVE  CInv'
  <2>1. CASE Goes(s, DirDrop, q) /\ real[m][1] = 0 BY <1>8, <1>9, <1>10, <1>13, <2>1, Table
  <2>2. CASE Goes(s, DirReload, q) /\ real[m][1] # 0 BY <1>8, <1>9, <1>10, <1>13, <2>2, Table
  <2>3. QED BY <1>13, <2>1, <2>2
<1>14. QED BY <1>2, <1>7, <1>11, <1>12, <1>13

LEMMA CountsDrop ==
    ASSUME Apart, TInv, RInv, CInv, TInv', RInv', NEW s \in Sessions, DropReal(s)
    PROVE  CInv'
<1>1. PICK m, q : m = q.md5 /\ q = reg[s] OBVIOUS
<1>2. /\ m \in Md5s /\ real' = [real EXCEPT ![m] = <<>>]
      /\ UNCHANGED <<file, nextId, exits, faults, tainted>>
      /\ \/ q.cmd = "rm" /\ todo[s] = RmDrop /\ Goes(s, RmRow, q)
         \/ q.cmd = "cp" /\ todo[s] = CpDrop /\ Goes(s, CpSource, q)
         \/ q.cmd = "cpdir" /\ todo[s] = DirDrop /\ Goes(s, DirReload, q)
  BY <1>1, DropFlow DEF counters
<1>3. real \in [Md5s -> Seq(Int)] BY DEF TInv, TablesTyped
<1>4. real'[m] = <<>> /\ \A n \in Md5s : n # m => real'[n] = real[n] BY <1>2, <1>3
<1>5. /\ todo[s] # <<>> /\ todo[s] # Resolve
      /\ todo[s] \in Dropping /\ todo[s] \in Behind /\ todo[s] \in OfDst
  <2>1. /\ RmDrop # <<>> /\ RmDrop # Resolve /\ CpDrop # <<>> /\ CpDrop # Resolve
        /\ DirDrop # <<>> /\ DirDrop # Resolve
    BY RmOps, CpOps, CpDirOps
  <2>2. {RmDrop, CpDrop, DirDrop} \subseteq Dropping \cap Behind \cap OfDst
    BY DEF Dropping, Behind, OfDst
  <2>3. QED BY <1>2, <2>1, <2>2
<1>6. PICK t : /\ Goes(s, t, q) /\ q.cmd # "upload" /\ t \in Behind /\ (t \in Ahead <=> todo[s] \in Ahead)
               /\ t \notin Dropping /\ t \notin Reading /\ t \notin {UpInsert, UpNew}
  <2>1. {RmRow, CpSource, DirReload} \subseteq Behind /\ DirDrop \in Ahead /\ DirReload \in Ahead
    BY DEF Behind, Ahead
  <2>2. {RmRow, CpSource, DirReload} \cap {UpInsert, UpNew} = {}
    BY RmOps, CpOps, CpDirOps, UploadOps
  <2>3. CASE q.cmd = "rm" /\ todo[s] = RmDrop /\ Goes(s, RmRow, q) BY <2>1, <2>2, <2>3, Table
  <2>4. CASE q.cmd = "cp" /\ todo[s] = CpDrop /\ Goes(s, CpSource, q) BY <2>1, <2>2, <2>4, Table
  <2>5. CASE q.cmd = "cpdir" /\ todo[s] = DirDrop /\ Goes(s, DirReload, q)
    BY <2>1, <2>2, <2>5, Table
  <2>6. QED BY <1>2, <2>3, <2>4, <2>5
<1>7. m \in Contents(s) BY <1>1, <1>5, OwnDst
<1>8. Moves(s, t, q) BY <1>6 DEF Goes, Moves
<1>9. Level(s, t, q) BY <1>1, <1>5, <1>6 DEF Level
<1>10. \A n : N(n)' = N(n) BY <1>2, <1>8, <1>9, NumbersStay
<1>11. m \in Md5s \ tainted => real'[m] = Record(N(m)', t \in Reading)
  <2>1. m \in Md5s \ tainted => N(m) = 0 BY <1>1, <1>5 DEF CInv, Claim
  <2>2. QED BY <1>4, <1>6, <1>10, <2>1 DEF Record
<1>12. Gone' BY <1>2, <1>6, GoneStays DEF Goes
<1>13. Claim(t, q)' BY <1>6 DEF Claim
<1>14. QED BY <1>1, <1>2, <1>4, <1>6, <1>7, <1>8, <1>10, <1>11, <1>12, <1>13, RecordStep

LEMMA CountsInsertReal ==
    ASSUME Apart, TInv, RInv, CInv, TInv', RInv', NEW s \in Sessions, InsertReal(s)
    PROVE  CInv'
<1>1. PICK m, q : m = q.md5 /\ q = reg[s] OBVIOUS
<1>2. /\ m \in Md5s /\ q.cmd = "upload" /\ todo[s] = UpNew
      /\ real' = [real EXCEPT ![m] = Append(@, 1)]
      /\ UNCHANGED <<file, nextId, exits, faults, tainted>> /\ Goes(s, UpSeek, q)
  BY <1>1, InsertRealFlow DEF counters
<1>3. real \in [Md5s -> Seq(Int)] BY DEF TInv, TablesTyped
<1>4. real'[m] = Append(real[m], 1) /\ \A n \in Md5s : n # m => real'[n] = real[n]
  BY <1>2, <1>3
<1>5. todo[s] # <<>> /\ todo[s] # Resolve /\ todo[s] \in Behind /\ todo[s] \in OfDst
      /\ todo[s] \notin Reading /\ todo[s] \notin Ahead
  <2>1. UpNew # <<>> /\ UpNew # Resolve BY UploadOps, RmOps
  <2>2. UpNew \in Behind /\ UpNew \in OfDst BY DEF Behind, OfDst
  <2>3. QED BY <1>2, <2>1, <2>2, Table
<1>6. m \in Contents(s) BY <1>1, <1>5, OwnDst
<1>7. Moves(s, UpSeek, q) BY <1>2 DEF Goes, Moves
<1>8. N(m)' = N(m) + 1 /\ \A n : n # m => N(n)' = N(n)
  BY <1>1, <1>2, <1>5, <1>7, Table, NumberUp
<1>9. ASSUME m \in Md5s \ tainted PROVE real'[m] = Record(N(m)', UpSeek \in Reading)
  <2>1. N(m) = 0 BY <1>1, <1>2, <1>5, <1>9 DEF CInv, Claim
  <2>2. ~ReadBy(s, m) BY <1>5 DEF ReadBy
  <2>3. real[m] = Record(N(m), ReadBy(s, m)) BY <1>6, <1>9, OwnRecord
  <2>4. real[m] = <<>> BY <2>1, <2>2, <2>3 DEF Record
  <2>5. real'[m] = <<1>> BY <1>4, <2>4
  <2>6. N(m)' = 1 BY <1>8, <2>1
  <2>7. QED BY <2>5, <2>6 DEF Record
<1>10. Gone' BY <1>2, GoneStays DEF Goes
<1>11. Claim(UpSeek, q)'
  <2>1. UpSeek \notin Dropping BY Table
  <2>2. UpSeek \notin {UpInsert, UpNew, NewInsert, Inc} BY UploadOps
  <2>3. QED BY <2>1, <2>2 DEF Claim
<1>12. QED BY <1>1, <1>2, <1>4, <1>6, <1>7, <1>8, <1>9, <1>10, <1>11, Table, RecordStep

-----------------------------------------------------------------------------
(***************************************************************************)
(* The steps that change a row: it is pending, so no number changes.       *)
(***************************************************************************)
LEMMA SameNumber ==
    ASSUME NEW m, Refs(m)' \ Pending' = Refs(m) \ Pending,
           Refs(m)' \cap Copying' = Refs(m) \cap Copying
    PROVE  N(m)' = N(m)
BY CountSame DEF N

LEMMA CountsInsert ==
    ASSUME Apart, TInv, RInv, CInv, TInv', RInv', NEW s \in Sessions, InsertRow(s)
    PROVE  CInv'
<1>1. PICK k, q, r, row :
          /\ k = nextId /\ q = reg[s] /\ r = [reg[s] EXCEPT !.dst = nextId]
          /\ row = [name |-> reg[s].name, md5 |-> reg[s].md5]
  OBVIOUS
<1>2. r.cmd = q.cmd /\ r.md5 = q.md5 /\ r.dst = k
  BY <1>1 DEF Regs, TInv, SessionsTyped
<1>3. k \notin DOMAIN file BY <1>1 DEF TInv, TablesTyped
<1>4. PICK t : /\ file' = [i \in DOMAIN file \cup {k} |-> IF i = k THEN row ELSE file[i]]
               /\ nextId' = k + 1 /\ UNCHANGED <<real, exits, faults, tainted>> /\ Goes(s, t, r)
               /\ \/ t = Inc /\ todo[s] = NewInsert
                  \/ t = UpNew /\ todo[s] = UpInsert
  BY <1>1, InsertFlow DEF counters
<1>5. Moves(s, t, r) BY <1>4 DEF Goes, Moves
<1>6. t \in Behind /\ t \notin Ahead /\ todo[s] \notin Behind /\ todo[s] \notin Ahead
  <2>1. Inc \in Behind /\ UpNew \in Behind BY DEF Behind
  <2>2. QED BY <1>4, <2>1, Table
<1>7. Pending = PendingBut(s) /\ Pending' = PendingBut(s) \cup {k}
      /\ Copying = CopyingBut(s) /\ Copying' = CopyingBut(s)
  BY <1>2, <1>5, <1>6, Others
<1>8. k \notin CopyingBut(s) BY <1>3, Theirs
<1>9. ASSUME NEW m PROVE N(m)' = N(m)
  <2>1. Refs(m)' = Refs(m) \cup {i \in {k} : row.md5 = m} BY <1>3, <1>4 DEF Refs
  <2>2. k \notin Refs(m) BY <1>3 DEF Refs
  <2>3. Refs(m)' \ Pending' = Refs(m) \ Pending BY <1>7, <2>1, <2>2
  <2>4. Refs(m)' \cap Copying' = Refs(m) \cap Copying BY <1>7, <1>8, <2>1
  <2>5. QED BY <2>3, <2>4, SameNumber
<1>10. Claim(t, r)'
  <2>1. Claim(todo[s], q) BY <1>1 DEF CInv
  <2>2. NewInsert # <<>> /\ UpInsert # <<>> /\ Inc # UpNew /\ Inc # UpInsert BY UploadOps
  <2>3. t \notin Dropping BY <1>4, Table
  <2>4. CASE t = Inc /\ todo[s] = NewInsert
    BY <1>2, <1>4, <1>9, <2>1, <2>2, <2>3, <2>4 DEF Claim
  <2>5. CASE t = UpNew /\ todo[s] = UpInsert
    <3>1. UpNew # NewInsert BY UploadOps
    <3>2. QED BY <1>2, <1>4, <1>9, <2>1, <2>2, <2>3, <2>5, <3>1 DEF Claim
  <2>6. QED BY <1>4, <2>4, <2>5
<1>11. Gone' BY <1>1, <1>4, GoneStays DEF Goes
<1>12. todo[s] \notin Reading /\ t \notin Reading BY <1>4, Table
<1>13. QED BY <1>4, <1>5, <1>9, <1>10, <1>11, <1>12, SameNumbers

LEMMA CountsUpdate ==
    ASSUME Apart, TInv, RInv, CInv, TInv', RInv', NEW s \in Sessions, UpdateRow(s)
    PROVE  CInv'
<1>1. PICK q, d, a : q = reg[s] /\ d = q.dst /\ a = q.src OBVIOUS
<1>2. /\ file' = [i \in DOMAIN file |-> IF i = d THEN [file[i] EXCEPT !.md5 = q.md5] ELSE file[i]]
      /\ UNCHANGED <<nextId, real, exits, faults, tainted>>
      /\ \/ q.cmd = "cp" /\ todo[s] = CpUpdate /\ Goes(s, Inc, q)
         \/ q.cmd = "cpdir" /\ todo[s] = DirUpdate /\ Finish(s, q, "ok")
  BY <1>1, UpdateFlow DEF counters
<1>3. /\ todo[s] # <<>> /\ todo[s] # Resolve /\ todo[s] \in HasDst /\ todo[s] \in OfSrc
      /\ todo[s] \in Behind
  BY <1>2, CpOps, CpDirOps, RmOps DEF HasDst, OfSrc, Behind
<1>4. Mine(s, d) /\ Mine(s, a) /\ a \in Refs(q.md5)
  <2>1. Rows(s, todo[s], reg[s]) BY DEF RInv
  <2>2. QED BY <1>1, <1>2, <1>3, <2>1, OwnSrc DEF Rows
<1>5. {a, d} \cap PendingBut(s) = {} /\ {a, d} \cap CopyingBut(s) = {} BY <1>4, Own
<1>6. /\ DOMAIN file' = DOMAIN file /\ file'[d].md5 = q.md5
      /\ \A i \in DOMAIN file : i # d => file'[i] = file[i]
  <2>1. d \in DOMAIN file /\ file[d] \in [name : Names, md5 : Md5s]
    BY <1>4 DEF Mine, TInv, TablesTyped
  <2>2. QED BY <1>2, <2>1
<1>7. ASSUME NEW m PROVE Refs(m)' \ {d} = Refs(m) \ {d} BY <1>6 DEF Refs
<1>8. todo[s] \notin Reading BY <1>2, Table
<1>9. CASE q.cmd = "cp" /\ todo[s] = CpUpdate /\ Goes(s, Inc, q)
  <2>1. Moves(s, Inc, q) BY <1>9 DEF Goes, Moves
  <2>2. Inc \in Behind BY DEF Behind
  <2>3. Pending = PendingBut(s) \cup {d} /\ Pending' = PendingBut(s) \cup {d}
        /\ Copying = CopyingBut(s) /\ Copying' = CopyingBut(s)
    <3>1. Inc \notin Ahead /\ todo[s] \notin Ahead BY <1>9, Table
    <3>2. reg[s].dst = d /\ q.dst = d BY <1>1
    <3>3. Pending = PendingBut(s) \cup {d} BY <1>3, <2>1, <3>2, Others
    <3>4. Pending' = PendingBut(s) \cup {d} BY <2>1, <2>2, <3>2, Others
    <3>5. Copying = CopyingBut(s) /\ Copying' = CopyingBut(s) BY <2>1, <3>1, Others
    <3>6. QED BY <3>3, <3>4, <3>5
  <2>4. ASSUME NEW m PROVE N(m)' = N(m)
    <3>1. Refs(m)' \ Pending' = Refs(m) \ Pending BY <1>7, <2>3
    <3>2. Refs(m)' \cap Copying' = Refs(m) \cap Copying BY <1>5, <1>7, <2>3
    <3>3. QED BY <3>1, <3>2, SameNumber
  <2>5. Claim(Inc, q)'
    <3>1. Inc \notin Dropping BY Table
    <3>2. Inc \notin {UpInsert, UpNew} BY UploadOps
    <3>3. QED BY <1>9, <3>1, <3>2 DEF Claim
  <2>6. Gone' BY <1>2, <1>6, <1>9, GoneStays DEF Goes
  <2>7. QED BY <1>2, <1>8, <2>1, <2>4, <2>5, <2>6, Table, SameNumbers
<1>10. CASE q.cmd = "cpdir" /\ todo[s] = DirUpdate /\ Finish(s, q, "ok")
  <2>1. Moves(s, <<>>, NoReg) BY <1>10 DEF Finish, Moves
  <2>2. DirUpdate \in Ahead BY DEF Ahead
  <2>3. Pending = PendingBut(s) \cup {d} /\ Pending' = PendingBut(s)
        /\ Copying = CopyingBut(s) \cup {a} /\ Copying' = CopyingBut(s)
    <3>1. <<>> \notin Ahead /\ <<>> \notin Behind BY Table
    <3>2. reg[s].dst = d /\ reg[s].src = a /\ todo[s] \in Ahead BY <1>1, <1>10, <2>2
    <3>3. Pending = PendingBut(s) \cup {d} /\ Copying = CopyingBut(s) \cup {a}
      BY <1>3, <2>1, <3>2, Others
    <3>4. Pending' = PendingBut(s) /\ Copying' = CopyingBut(s) BY <2>1, <3>1, Others
    <3>5. QED BY <3>3, <3>4
  <2>4. d \in DOMAIN file BY <1>4 DEF Mine
  <2>5. ASSUME NEW m PROVE N(m)' = N(m)
    <3>1. CASE m # q.md5
      <4>1. d \notin Refs(m)' BY <1>6, <3>1 DEF Refs
      <4>2. a \notin Refs(m) BY <1>4, <3>1 DEF Refs
      <4>3. Refs(m)' \ Pending' = Refs(m) \ Pending BY <1>7, <2>3, <4>1
      <4>4. Refs(m)' \cap Copying' = Refs(m) \cap Copying BY <1>5, <1>7, <2>3, <4>2
      <4>5. QED BY <4>3, <4>4, SameNumber
    <3>2. CASE m = q.md5
      <4>1. PICK R, S, P, C : /\ R = Refs(m) /\ S = Refs(m)'
                              /\ P = PendingBut(s) /\ C = CopyingBut(s)
        OBVIOUS
      <4>2. d \in S /\ a \in R BY <1>4, <1>6, <2>4, <3>2, <4>1 DEF Refs
      <4>3. IsFiniteSet(R) /\ IsFiniteSet(S) BY <4>1, Numbers, NumbersThen
      <4>4. N(m) = Count(R, P \cup {d}, C \cup {a}) /\ N(m)' = Count(S, P, C)
        BY <2>3, <4>1 DEF N
      <4>5. Count(R, P \cup {d}, C \cup {a}) = Count(R, P \cup {d}, C) + 1
        BY <1>5, <4>1, <4>2, <4>3, CountCopying
      <4>6. Count(S, P, C) = Count(S, P \cup {d}, C) + 1
        BY <1>5, <4>1, <4>2, <4>3, CountPending
      <4>7. S \ {d} = R \ {d} BY <1>7, <4>1
      <4>8. Count(R, P \cup {d}, C) = Count(S, P \cup {d}, C)
        <5>1. R \ (P \cup {d}) = S \ (P \cup {d}) BY <4>7
        <5>2. R \cap C = S \cap C BY <1>5, <4>1, <4>7
        <5>3. QED BY <5>1, <5>2, CountSame
      <4>9. QED BY <4>4, <4>5, <4>6, <4>8
    <3>3. QED BY <3>1, <3>2
  <2>6. Claim(<<>>, NoReg)' BY DEF Claim
  <2>7. Gone' BY <1>1, <1>2, <1>6, <1>10, GoneFinish
  <2>8. QED BY <1>2, <1>8, <2>1, <2>5, <2>6, <2>7, Table, SameNumbers
<1>11. QED BY <1>2, <1>9, <1>10

LEMMA CountsDelete ==
    ASSUME Apart, TInv, RInv, CInv, TInv', RInv', NEW s \in Sessions, DeleteRow(s)
    PROVE  CInv'
<1>1. PICK q, d : q = reg[s] /\ d = q.dst OBVIOUS
<1>2. /\ q.cmd = "rm" /\ todo[s] = RmRow /\ file' = [i \in DOMAIN file \ {d} |-> file[i]]
      /\ UNCHANGED <<nextId, real, exits, faults, tainted>> /\ Finish(s, q, "ok")
  BY <1>1, DeleteFlow DEF counters
<1>3. todo[s] # <<>> /\ todo[s] # Resolve /\ todo[s] \in OfDst /\ todo[s] \in Behind
  BY <1>2, RmOps DEF OfDst, Behind
<1>4. Mine(s, d) BY <1>1, <1>3, OwnDst
<1>5. d \notin CopyingBut(s) BY <1>4, Own
<1>6. Moves(s, <<>>, NoReg) BY <1>2 DEF Finish, Moves
<1>7. Pending = PendingBut(s) \cup {d} /\ Pending' = PendingBut(s)
      /\ Copying = CopyingBut(s) /\ Copying' = CopyingBut(s)
  <2>1. <<>> \notin Ahead /\ <<>> \notin Behind /\ todo[s] \notin Ahead BY <1>2, Table
  <2>2. reg[s].dst = d BY <1>1
  <2>3. Pending = PendingBut(s) \cup {d} BY <1>3, <1>6, <2>2, Others
  <2>4. Pending' = PendingBut(s) /\ Copying = CopyingBut(s) /\ Copying' = CopyingBut(s)
    BY <1>6, <2>1, Others
  <2>5. QED BY <2>3, <2>4
<1>8. ASSUME NEW m PROVE N(m)' = N(m)
  <2>1. Refs(m)' = Refs(m) \ {d} BY <1>2 DEF Refs
  <2>2. Refs(m)' \ Pending' = Refs(m) \ Pending BY <1>7, <2>1
  <2>3. Refs(m)' \cap Copying' = Refs(m) \cap Copying BY <1>5, <1>7, <2>1
  <2>4. QED BY <2>2, <2>3, SameNumber
<1>9. Claim(<<>>, NoReg)' BY DEF Claim
<1>10. Gone'
  <2>1. DOMAIN file' = DOMAIN file \ {d} BY <1>2
  <2>2. d \in 1..(nextId - 1) /\ nextId \in Nat BY <1>4 DEF Mine, TInv, TablesTyped
  <2>3. d < nextId BY <2>2
  <2>4. QED BY <1>1, <1>2, <2>1, <2>3, GoneFinish
<1>11. QED BY <1>2, <1>6, <1>8, <1>9, <1>10, Table, SameNumbers

-----------------------------------------------------------------------------
(***************************************************************************)
(* The server exits, and the tables stay as they are.                      *)
(***************************************************************************)
\* What is pending or copied, what is read: all of it was in hand.
LEMMA InHandOfAll ==
    ASSUME TInv, RInv, NEW x \in Sessions, todo[x] # <<>>
    PROVE  /\ todo[x] \in Behind => \A m \in Md5s : reg[x].dst \in Refs(m) => m \in InHand(x)
           /\ todo[x] \in Ahead => \A m \in Md5s : reg[x].src \in Refs(m) => m \in InHand(x)
           /\ \A m \in Md5s : ReadBy(x, m) => m \in InHand(x)
<1>1. ASSUME NEW m \in Md5s PROVE m # Null BY NullAssumption
<1>2. QED BY <1>1 DEF Refs, InHand, ReadBy

LEMMA CountsEnd ==
    ASSUME Apart, TInv, RInv, CInv, AllSessionsEnd, UNCHANGED tables, exits' \in Nat,
           exits' = 0 => faults' = 0 /\ tainted' = {}
    PROVE  CInv'
<1>1. /\ todo' = [s \in Sessions |-> <<>>] /\ reply' = [s \in Sessions |-> NoReply]
      /\ UNCHANGED <<file, real>>
      /\ tainted \subseteq tainted'
      /\ \A s \in Sessions : todo[s] # <<>> => InHand(s) \subseteq tainted'
  BY DEF AllSessionsEnd, Idle, tables
<1>2. Pending' = {} /\ Copying' = {} BY <1>1, Table DEF Pending, Copying
<1>3. ASSUME NEW m \in Md5s, m \notin tainted'
      PROVE  real'[m] = Record(N(m)', \E s \in Sessions : ReadBy(s, m)')
  <2>1. Refs(m) \cap Pending = {}
    <3>1. ASSUME NEW s \in Sessions, todo[s] \in Behind PROVE reg[s].dst \notin Refs(m)
      <4>1. todo[s] # <<>> BY <3>1, Table
      <4>2. QED BY <1>1, <1>3, <3>1, <4>1, InHandOfAll
    <3>2. QED BY <3>1 DEF Pending
  <2>2. Refs(m) \cap Copying = {}
    <3>1. ASSUME NEW s \in Sessions, todo[s] \in Ahead PROVE reg[s].src \notin Refs(m)
      <4>1. todo[s] # <<>> BY <3>1, Table
      <4>2. QED BY <1>1, <1>3, <3>1, <4>1, InHandOfAll
    <3>2. QED BY <3>1 DEF Copying
  <2>3. Refs(m)' = Refs(m) BY <1>1 DEF Refs
  <2>4. N(m)' = N(m)
    <3>1. Refs(m)' \ Pending' = Refs(m) \ Pending BY <1>2, <2>1, <2>3
    <3>2. Refs(m)' \cap Copying' = Refs(m) \cap Copying BY <1>2, <2>2, <2>3
    <3>3. QED BY <3>1, <3>2, SameNumber
  <2>5. ASSUME NEW s \in Sessions PROVE ~ReadBy(s, m)
    <3>1. todo[s] = <<>> => todo[s] \notin Reading BY Table
    <3>2. QED BY <1>1, <1>3, <3>1, InHandOfAll DEF ReadBy
  <2>6. ASSUME NEW s \in Sessions PROVE ~ReadBy(s, m)' BY <1>1, Table DEF ReadBy
  <2>7. real[m] = Record(N(m), \E s \in Sessions : ReadBy(s, m))
    BY <1>1, <1>3 DEF CInv, Counts
  <2>8. QED BY <1>1, <2>4, <2>5, <2>6, <2>7 DEF Record
<1>4. Counts' BY <1>3 DEF Counts
<1>5. Gone' BY <1>1 DEF Gone, NoReply
<1>6. \A s \in Sessions : Claim(todo[s], reg[s])' BY <1>1 DEF Claim
<1>7. QED BY <1>4, <1>5, <1>6 DEF CInv

\* A count is missing only where an exit has cut a command that had it in hand.
LEMMA FaultAfterExit ==
    ASSUME Apart, TInv, RInv, CInv, NEW s \in Sessions, ReadCount(s), Fault
    PROVE  exits # 0 /\ UNCHANGED <<tables, exits>>
<1>1. PICK m, q : m = q.md5 /\ q = reg[s] OBVIOUS
<1>2. todo[s] # <<>> /\ m \in Md5s /\ UNCHANGED <<tables, exits>>
  <2>1. todo[s] # <<>> BY DEF ReadCount, At
  <2>2. QED BY <1>1, <2>1, ReadFlow
<1>3. todo'[s] = <<>> BY DEF Fault, AllSessionsEnd
<1>4. real[m] = <<>> /\ todo[s] \in {CpRead, DirRead}
  <2>1. ASSUME NEW t, Goes(s, t, q) PROVE t = <<>>
    BY <1>3, <2>1 DEF TInv, SessionsTyped, Goes
  <2>2. {RmDrop, RmRow, CpDrop, CpSource, DirDrop, DirReload} \cap {<<>>} = {}
    BY RmOps, CpOps, CpDirOps
  <2>3. ~Finish(s, q, "ok")
    <3>1. ASSUME Finish(s, q, "ok") PROVE FALSE
      <4>1. reply'[s].answer = "ok" BY <3>1 DEF TInv, SessionsTyped, Finish, Answer
      <4>2. reply'[s] = NoReply BY DEF Fault, AllSessionsEnd
      <4>3. QED BY <4>1, <4>2 DEF NoReply
    <3>2. QED BY <3>1
  <2>4. QED BY <1>1, <2>1, <2>2, <2>3, ReadFlow
<1>5. /\ todo[s] # Resolve /\ todo[s] \in Reading /\ todo[s] \in OfDst
  BY <1>4, CpOps, CpDirOps, RmOps DEF Reading, OfDst
<1>6. m \in Contents(s) BY <1>1, <1>2, <1>5, OwnDst
<1>7. m \in tainted
  <2>1. ReadBy(s, m) BY <1>1, <1>5 DEF ReadBy
  <2>2. m \notin tainted => real[m] = Record(N(m), ReadBy(s, m)) BY <1>2, <1>6, OwnRecord
  <2>3. <<N(m)>> # <<>> OBVIOUS
  <2>4. QED BY <1>4, <2>1, <2>2, <2>3 DEF Record
<1>8. QED BY <1>2, <1>7 DEF CInv

-----------------------------------------------------------------------------
(***************************************************************************)
(* The counts are exact.                                                   *)
(***************************************************************************)
LEMMA PreloadedRows ==
    ASSUME Init, NEW m
    PROVE  Cardinality(Refs(m)) = Cardinality({p \in Preloaded : p[2] = m})
<1>1. PICK f \in [1..Cardinality(Preloaded) -> [name : Names, md5 : Md5s]] :
          {<<f[i].name, f[i].md5>> : i \in DOMAIN f} = Preloaded /\ file = f
  BY DEF Init
<1> DEFINE D == 1..Cardinality(Preloaded)
           g == [i \in D |-> <<f[i].name, f[i].md5>>]
           T == {p \in Preloaded : p[2] = m}
           h == [i \in Refs(m) |-> <<f[i].name, f[i].md5>>]
<1>2. Cardinality(Preloaded) \in Nat BY WorkloadAssumption, FS_CardinalityType
<1>3. IsFiniteSet(D) /\ Cardinality(D) = Cardinality(Preloaded) BY <1>2, FS_Interval
<1>4. g \in Surjection(D, Preloaded) BY <1>1 DEF Surjection
<1>5. g \in Injection(D, Preloaded) BY <1>3, <1>4, FS_SurjSameCardinalityImpliesInj
<1>6. \A i, j \in D : <<f[i].name, f[i].md5>> = <<f[j].name, f[j].md5>> => i = j
  BY <1>5 DEF Injection, IsInjective
<1>7. Refs(m) = {i \in D : f[i].md5 = m} BY <1>1 DEF Refs
<1>8. h \in [Refs(m) -> T] BY <1>1, <1>7
<1>9. h \in Injection(Refs(m), T) BY <1>6, <1>7, <1>8 DEF Injection, IsInjective
<1>10. h \in Surjection(Refs(m), T)
  <2>1. ASSUME NEW p \in T PROVE \E i \in Refs(m) : h[i] = p
    <3>1. PICK i \in D : p = <<f[i].name, f[i].md5>> BY <1>1
    <3>2. i \in Refs(m) BY <1>7, <3>1
    <3>3. QED BY <3>1, <3>2
  <2>2. QED BY <1>8, <2>1 DEF Surjection
<1>11. ExistsBijection(Refs(m), T) BY <1>9, <1>10 DEF ExistsBijection, Bijection
<1>12. IsFiniteSet(Refs(m)) BY <1>3, <1>7, FS_Subset
<1>13. QED BY <1>11, <1>12, FS_Bijection

LEMMA CountsInit ==
    ASSUME Init
    PROVE  CInv
<1>1. Pending = {} /\ Copying = {} BY Table DEF Init, Pending, Copying
<1>2. ASSUME NEW m \in Md5s
      PROVE  real[m] = Record(N(m), \E s \in Sessions : ReadBy(s, m))
  <2>1. IsFiniteSet(Refs(m)) BY TypedInit, Numbers
  <2>2. Refs(m) \ Pending = Refs(m) /\ Refs(m) \cap Copying = {} BY <1>1
  <2>3. N(m) = Cardinality(Refs(m)) /\ N(m) \in Nat
    <3>1. Cardinality(Refs(m)) \in Nat /\ Cardinality({}) = 0
      BY <2>1, FS_CardinalityType, FS_EmptySet
    <3>2. N(m) = Cardinality(Refs(m)) + Cardinality({}) BY <2>2 DEF N, Count
    <3>3. QED BY <3>1, <3>2
  <2>4. PICK n : n = Cardinality({p \in Preloaded : p[2] = m}) OBVIOUS
  <2>5. n = N(m) BY <2>3, <2>4, PreloadedRows
  <2>6. real[m] = IF n = 0 THEN <<>> ELSE <<n>> BY <2>4 DEF Init
  <2>7. ASSUME NEW s \in Sessions PROVE ~ReadBy(s, m) BY Table DEF Init, ReadBy
  <2>8. QED BY <2>3, <2>5, <2>6, <2>7 DEF Record
<1>3. Counts BY <1>2 DEF Counts
<1>4. Gone BY DEF Init, Gone, NoReply
<1>5. \A s \in Sessions : Claim(todo[s], reg[s]) BY DEF Init, Claim
<1>6. QED BY <1>3, <1>4, <1>5 DEF Init, CInv

LEMMA CountsNext ==
    ASSUME Apart, TInv, RInv, CInv, TInv', RInv', [Next]_vars
    PROVE  CInv'
<1>1. CASE UNCHANGED vars
  <2>1. UNCHANGED <<file, nextId, real, todo, reg, reply, exits, faults, tainted>>
    BY <1>1 DEF vars, tables, session, counters
  <2>2. Pending' = Pending /\ Copying' = Copying BY <2>1 DEF Pending, Copying
  <2>3. ASSUME NEW m PROVE N(m)' = N(m) BY <2>1, <2>2 DEF N, Refs
  <2>4. Counts' BY <2>1, <2>3 DEF CInv, Counts, ReadBy
  <2>5. Gone' BY <2>1 DEF CInv, Gone
  <2>6. \A s \in Sessions : Claim(todo[s], reg[s])' BY <2>1, <2>3 DEF CInv, Claim
  <2>7. QED BY <2>1, <2>4, <2>5, <2>6 DEF CInv
<1>2. CASE Exit
  <2>1. exits \in Nat BY DEF TInv
  <2>2. exits' = exits + 1 /\ AllSessionsEnd /\ UNCHANGED tables BY <1>2 DEF Exit
  <2>3. exits' \in Nat /\ exits' # 0 BY <2>1, <2>2
  <2>4. QED BY <2>2, <2>3, CountsEnd
<1>3. ASSUME NEW s \in Sessions, ReadCount(s), Fault PROVE CInv'
  <2>1. exits # 0 /\ UNCHANGED <<tables, exits>> BY <1>3, FaultAfterExit
  <2>2. AllSessionsEnd BY <1>3 DEF Fault
  <2>3. exits' \in Nat BY <2>1 DEF TInv
  <2>4. QED BY <2>1, <2>2, <2>3, CountsEnd
<1>4. ASSUME NEW s \in Sessions, Step(s) PROVE CInv'
  <2>1. CASE BeginUpload(s) \/ BeginRm(s) \/ BeginCp(s) BY <2>1, CountsBegin
  <2>2. CASE ResolveRm(s) \/ ResolveCp(s) BY <2>2, CountsResolve
  <2>3. CASE LoadSource(s) \/ LoadDestination(s) BY <2>3, CountsLoad
  <2>4. CASE IncCount(s) \/ DecCount(s) BY <2>4, CountsInc, CountsDec
  <2>5. CASE ReadCount(s) BY <1>3, <2>5, CountsRead
  <2>6. CASE DropReal(s) \/ InsertReal(s) BY <2>6, CountsDrop, CountsInsertReal
  <2>7. CASE InsertRow(s) \/ UpdateRow(s) \/ DeleteRow(s)
    BY <2>7, CountsInsert, CountsUpdate, CountsDelete
  <2>8. CASE \/ CheckName(s) \/ StatExisting(s) \/ SendOffset(s) \/ SeekEnd(s)
             \/ Receive(s) \/ Lose(s)
    BY <2>8, CountsUpload
  <2>9. CASE LookupReal(s) BY <2>9, CountsLookup
  <2>10. QED BY <1>4, <2>1, <2>2, <2>3, <2>4, <2>5, <2>6, <2>7, <2>8, <2>9 DEF Step
<1>5. QED BY <1>1, <1>2, <1>4 DEF Next

LEMMA CountsKept ==
    ASSUME Apart
    PROVE  Spec => []CInv
<1>1. Init => CInv BY CountsInit
<1>2. TInv /\ RInv /\ CInv /\ TInv' /\ RInv' /\ [Next]_vars => CInv' BY CountsNext
<1>3. QED BY <1>1, <1>2, Typed, RowsKept, PTL DEF Spec

\* Between the commands of sessions that work apart, the count of a real file is the
\* number of its rows, whatever order the statements of the commands came in.
THEOREM CountsExact ==
    ASSUME Apart
    PROVE  Spec => []RefCountExact
<1>1. ASSUME TInv, CInv PROVE RefCountExact
  <2>1. ASSUME Quiet, NEW m \in Md5s \ tainted
        PROVE  real[m] = IF Refs(m) = {} THEN <<>> ELSE <<Cardinality(Refs(m))>>
    <3>1. \A s \in Sessions : todo[s] = <<>> BY <2>1 DEF Quiet, Idle
    <3>2. Pending = {} /\ Copying = {} BY <3>1, Table DEF Pending, Copying
    <3>3. IsFiniteSet(Refs(m)) BY <1>1, Numbers
    <3>4. N(m) = Cardinality(Refs(m)) + Cardinality({})
      <4>1. Refs(m) \ Pending = Refs(m) /\ Refs(m) \cap Copying = {} BY <3>2
      <4>2. QED BY <4>1 DEF N, Count
    <3>5. /\ Cardinality(Refs(m)) \in Nat /\ Cardinality({}) = 0
          /\ Cardinality(Refs(m)) = 0 <=> Refs(m) = {}
      BY <3>3, FS_CardinalityType, FS_EmptySet
    <3>6. \A s \in Sessions : ~ReadBy(s, m) BY <3>1, Table DEF ReadBy
    <3>7. real[m] = Record(N(m), \E s \in Sessions : ReadBy(s, m)) BY <1>1 DEF CInv, Counts
    <3>8. QED BY <3>4, <3>5, <3>6, <3>7 DEF Record
  <2>2. QED BY <2>1 DEF RefCountExact
<1>2. QED BY <1>1, Typed, CountsKept, PTL

\* An rm that reports success has removed its row, and no other row takes the id.
THEOREM RemovesRow ==
    ASSUME Apart
    PROVE  Spec => []RmRemoves
<1>1. CInv => RmRemoves BY DEF CInv, Gone, RmRemoves
<1>2. QED BY <1>1, CountsKept, PTL

\* No command of theirs uses an answer without rows, unless an exit cut another one.
THEOREM NeverFaults ==
    ASSUME Apart
    PROVE  Spec => []NoFault
<1>1. CInv => NoFault BY DEF CInv, NoFault
<1>2. QED BY <1>1, CountsKept, PTL

=============================================================================
