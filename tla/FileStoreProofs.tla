-------------------------- MODULE FileStoreProofs --------------------------
(***************************************************************************)
(* Proofs about FileStore, for any sessions, names, contents, sizes and    *)
(* workloads:                                                              *)
(*   - the types, and the places a command goes through;                   *)
(*   - what the real files hold, if no two sessions upload one content.    *)
(* The reference counts are in RefCountProofs.                             *)
(***************************************************************************)
EXTENDS FileStore, FiniteSetTheorems, SequenceTheorems, TLAPS

-----------------------------------------------------------------------------
(***************************************************************************)
(* The places of a command: the steps that are left of it.                 *)
(***************************************************************************)
Resolve   == <<"resolve">>

UpCheck   == <<"check", "offset", "lookup">>
UpStat    == <<"stat", "offset", "lookup">>
UpOffset  == <<"offset", "lookup">>
UpLookup  == <<"lookup">>
UpInsert  == <<"insert", "new", "seek", "recv">>
UpNew     == <<"new", "seek", "recv">>
UpSeek    == <<"seek", "recv">>
UpRecv    == <<"recv">>

RmLoad    == <<"loaddst", "dec", "read", "delrow">>
RmDec     == <<"dec", "read", "delrow">>
RmRead    == <<"read", "delrow">>
RmDrop    == <<"drop", "delrow">>
RmRow     == <<"delrow">>

\* cp to a name that has no entry yet, or an upload of a known content
NewLoad   == <<"loadsrc", "insert", "inc">>
NewInsert == <<"insert", "inc">>
Inc       == <<"inc">>

\* cp onto a file
CpLoad    == <<"loaddst", "dec", "read", "loadsrc", "update", "inc">>
CpDec     == <<"dec", "read", "loadsrc", "update", "inc">>
CpRead    == <<"read", "loadsrc", "update", "inc">>
CpDrop    == <<"drop", "loadsrc", "update", "inc">>
CpSource  == <<"loadsrc", "update", "inc">>
CpUpdate  == <<"update", "inc">>

\* cp onto an entry below a directory
DirSource == <<"loadsrc", "inc", "loaddst", "dec", "read", "loadsrc", "update">>
DirInc    == <<"inc", "loaddst", "dec", "read", "loadsrc", "update">>
DirLoad   == <<"loaddst", "dec", "read", "loadsrc", "update">>
DirDec    == <<"dec", "read", "loadsrc", "update">>
DirRead   == <<"read", "loadsrc", "update">>
DirDrop   == <<"drop", "loadsrc", "update">>
DirReload == <<"loadsrc", "update">>
DirUpdate == <<"update">>

UploadTodos == {UpCheck, UpStat, UpOffset, UpLookup, UpInsert, UpNew, UpSeek, UpRecv, NewInsert,
                Inc}
RmTodos == {Resolve, RmLoad, RmDec, RmRead, RmDrop, RmRow}
NewTodos == {Resolve, NewLoad, NewInsert, Inc}
CpTodos == NewTodos \cup {CpLoad, CpDec, CpRead, CpDrop, CpSource, CpUpdate}
CpDirTodos == NewTodos \cup {DirSource, DirInc, DirLoad, DirDec, DirRead, DirDrop, DirReload,
                             DirUpdate}

Regs == [cmd : Cmds, name : Names \cup {Null}, md5 : Md5s \cup {Null}, src : Names \cup Nat,
         dst : Nat, ret : BOOLEAN, size : Nat, pos : Nat, got : Nat]
Replies == [cmd : Cmds, name : Names \cup {Null}, md5 : Md5s \cup {Null}, id : Nat,
            answer : {"none", "ok", "existing", "fail", "gone"}]

\* The steps t may be left of a command with the locals r; what uses the md5 has it.
Place(t, r) ==
    t # <<>> =>
        /\ \/ r.cmd = "upload" /\ t \in UploadTodos /\ r.md5 \in Md5s
           \/ r.cmd = "rm" /\ t \in RmTodos
           \/ r.cmd = "cp" /\ t \in CpTodos
           \/ r.cmd = "cpdir" /\ t \in CpDirTodos
        /\ r.name \in Names
        /\ Head(t) \in {"resolve", "loadsrc", "loaddst"} \/ r.md5 \in Md5s
        /\ t = Resolve /\ r.cmd # "rm" => r.src \in Names

TablesTyped ==
    /\ nextId \in Nat \ {0} /\ DOMAIN file \subseteq 1..(nextId - 1)
    /\ \A i \in DOMAIN file : file[i] \in [name : Names, md5 : Md5s]
    /\ real \in [Md5s -> Seq(Int)]

StoreTyped == store = [m \in Md5s |-> store[m]] /\ \A m \in Md5s : store[m] \in Seq(1..Size(m))

SessionsTyped ==
    /\ todo \in [Sessions -> Seq(Ops)]
    /\ reg \in [Sessions -> Regs]
    /\ reply \in [Sessions -> Replies]

Places == \A s \in Sessions : Place(todo[s], reg[s])

TInv == TablesTyped /\ StoreTyped /\ SessionsTyped /\ Places /\ exits \in Nat

\* Session s goes on with the steps t and the locals r.
Goes(s, t, r) ==
    /\ todo' = [todo EXCEPT ![s] = t]
    /\ reg' = [reg EXCEPT ![s] = r]
    /\ UNCHANGED reply

-----------------------------------------------------------------------------
(***************************************************************************)
(* The next step of a place, and the place after it.                       *)
(***************************************************************************)
LEMMA UploadOps ==
    /\ Head(UpCheck) = "check" /\ Tail(UpCheck) = UpOffset /\ UpCheck # <<>>
    /\ Head(UpStat) = "stat" /\ Tail(UpStat) = UpOffset /\ UpStat # <<>>
    /\ Head(UpOffset) = "offset" /\ Tail(UpOffset) = UpLookup /\ UpOffset # <<>>
    /\ Head(UpLookup) = "lookup" /\ Tail(UpLookup) = <<>> /\ UpLookup # <<>>
    /\ Head(UpInsert) = "insert" /\ Tail(UpInsert) = UpNew /\ UpInsert # <<>>
    /\ Head(UpNew) = "new" /\ Tail(UpNew) = UpSeek /\ UpNew # <<>>
    /\ Head(UpSeek) = "seek" /\ Tail(UpSeek) = UpRecv /\ UpSeek # <<>>
    /\ Head(UpRecv) = "recv" /\ Tail(UpRecv) = <<>> /\ UpRecv # <<>>
    /\ Head(NewInsert) = "insert" /\ Tail(NewInsert) = Inc /\ NewInsert # <<>>
    /\ Head(Inc) = "inc" /\ Tail(Inc) = <<>> /\ Inc # <<>>
BY DEF UpCheck, UpStat, UpOffset, UpLookup, UpInsert, UpNew, UpSeek, UpRecv, NewInsert, Inc

LEMMA RmOps ==
    /\ Head(Resolve) = "resolve" /\ Tail(Resolve) = <<>> /\ Resolve # <<>>
    /\ Head(RmLoad) = "loaddst" /\ Tail(RmLoad) = RmDec /\ RmLoad # <<>>
    /\ Head(RmDec) = "dec" /\ Tail(RmDec) = RmRead /\ RmDec # <<>>
    /\ Head(RmRead) = "read" /\ Tail(RmRead) = RmRow /\ RmRead # <<>>
    /\ Head(RmDrop) = "drop" /\ Tail(RmDrop) = RmRow /\ RmDrop # <<>>
    /\ Head(RmRow) = "delrow" /\ Tail(RmRow) = <<>> /\ RmRow # <<>>
BY DEF Resolve, RmLoad, RmDec, RmRead, RmDrop, RmRow

LEMMA NewOps ==
    /\ Head(Resolve) = "resolve" /\ Tail(Resolve) = <<>> /\ Resolve # <<>>
    /\ Head(NewLoad) = "loadsrc" /\ Tail(NewLoad) = NewInsert /\ NewLoad # <<>>
    /\ Head(NewInsert) = "insert" /\ Tail(NewInsert) = Inc /\ NewInsert # <<>>
    /\ Head(Inc) = "inc" /\ Tail(Inc) = <<>> /\ Inc # <<>>
BY DEF Resolve, NewLoad, NewInsert, Inc

LEMMA CpOps ==
    /\ Head(CpLoad) = "loaddst" /\ Tail(CpLoad) = CpDec /\ CpLoad # <<>>
    /\ Head(CpDec) = "dec" /\ Tail(CpDec) = CpRead /\ CpDec # <<>>
    /\ Head(CpRead) = "read" /\ Tail(CpRead) = CpSource /\ CpRead # <<>>
    /\ Head(CpDrop) = "drop" /\ Tail(CpDrop) = CpSource /\ CpDrop # <<>>
    /\ Head(CpSource) = "loadsrc" /\ Tail(CpSource) = CpUpdate /\ CpSource # <<>>
    /\ Head(CpUpdate) = "update" /\ Tail(CpUpdate) = Inc /\ CpUpdate # <<>>
BY DEF CpLoad, CpDec, CpRead, CpDrop, CpSource, CpUpdate, Inc

LEMMA CpDirOps ==
    /\ Head(DirSource) = "loadsrc" /\ Tail(DirSource) = DirInc /\ DirSource # <<>>
    /\ Head(DirInc) = "inc" /\ Tail(DirInc) = DirLoad /\ DirInc # <<>>
    /\ Head(DirLoad) = "loaddst" /\ Tail(DirLoad) = DirDec /\ DirLoad # <<>>
    /\ Head(DirDec) = "dec" /\ Tail(DirDec) = DirRead /\ DirDec # <<>>
    /\ Head(DirRead) = "read" /\ Tail(DirRead) = DirReload /\ DirRead # <<>>
    /\ Head(DirDrop) = "drop" /\ Tail(DirDrop) = DirReload /\ DirDrop # <<>>
    /\ Head(DirReload) = "loadsrc" /\ Tail(DirReload) = DirUpdate /\ DirReload # <<>>
    /\ Head(DirUpdate) = "update" /\ Tail(DirUpdate) = <<>> /\ DirUpdate # <<>>
BY DEF DirSource, DirInc, DirLoad, DirDec, DirRead, DirDrop, DirReload, DirUpdate

LEMMA PlacesTyped ==
    /\ <<>> \in Seq(Ops)
    /\ UploadTodos \subseteq Seq(Ops) /\ RmTodos \subseteq Seq(Ops)
    /\ CpTodos \subseteq Seq(Ops) /\ CpDirTodos \subseteq Seq(Ops)
<1>1. Resolve \in Seq(Ops) BY DEF Resolve, Ops
<1>2. UpCheck \in Seq(Ops) BY DEF UpCheck, Ops
<1>3. UpStat \in Seq(Ops) BY DEF UpStat, Ops
<1>4. UpOffset \in Seq(Ops) BY DEF UpOffset, Ops
<1>5. UpLookup \in Seq(Ops) BY DEF UpLookup, Ops
<1>6. UpInsert \in Seq(Ops) BY DEF UpInsert, Ops
<1>7. UpNew \in Seq(Ops) BY DEF UpNew, Ops
<1>8. UpSeek \in Seq(Ops) BY DEF UpSeek, Ops
<1>9. UpRecv \in Seq(Ops) BY DEF UpRecv, Ops
<1>10. RmLoad \in Seq(Ops) BY DEF RmLoad, Ops
<1>11. RmDec \in Seq(Ops) BY DEF RmDec, Ops
<1>12. RmRead \in Seq(Ops) BY DEF RmRead, Ops
<1>13. RmDrop \in Seq(Ops) BY DEF RmDrop, Ops
<1>14. RmRow \in Seq(Ops) BY DEF RmRow, Ops
<1>15. NewLoad \in Seq(Ops) BY DEF NewLoad, Ops
<1>16. NewInsert \in Seq(Ops) BY DEF NewInsert, Ops
<1>17. Inc \in Seq(Ops) BY DEF Inc, Ops
<1>18. CpLoad \in Seq(Ops) BY DEF CpLoad, Ops
<1>19. CpDec \in Seq(Ops) BY DEF CpDec, Ops
<1>20. CpRead \in Seq(Ops) BY DEF CpRead, Ops
<1>21. CpDrop \in Seq(Ops) BY DEF CpDrop, Ops
<1>22. CpSource \in Seq(Ops) BY DEF CpSource, Ops
<1>23. CpUpdate \in Seq(Ops) BY DEF CpUpdate, Ops
<1>24. DirSource \in Seq(Ops) BY DEF DirSource, Ops
<1>25. DirInc \in Seq(Ops) BY DEF DirInc, Ops
<1>26. DirLoad \in Seq(Ops) BY DEF DirLoad, Ops
<1>27. DirDec \in Seq(Ops) BY DEF DirDec, Ops
<1>28. DirRead \in Seq(Ops) BY DEF DirRead, Ops
<1>29. DirDrop \in Seq(Ops) BY DEF DirDrop, Ops
<1>30. DirReload \in Seq(Ops) BY DEF DirReload, Ops
<1>31. DirUpdate \in Seq(Ops) BY DEF DirUpdate, Ops
<1> QED
  BY <1>1, <1>2, <1>3, <1>4, <1>5, <1>6, <1>7, <1>8, <1>9, <1>10, <1>11, <1>12, <1>13, <1>14,
     <1>15, <1>16, <1>17, <1>18, <1>19, <1>20, <1>21, <1>22, <1>23, <1>24, <1>25, <1>26, <1>27,
     <1>28, <1>29, <1>30, <1>31, EmptySeq
  DEF UploadTodos, RmTodos, NewTodos, CpTodos, CpDirTodos

\* The places with a given next step.
LEMMA InUpload ==
    ASSUME NEW t \in UploadTodos
    PROVE  /\ Head(t) \in {"check", "stat", "offset", "lookup", "insert", "new", "seek", "recv",
                           "inc"}
           /\ Head(t) = "check" => t = UpCheck
           /\ Head(t) = "stat" => t = UpStat
           /\ Head(t) = "offset" => t = UpOffset
           /\ Head(t) = "lookup" => t = UpLookup
           /\ Head(t) = "insert" => t = UpInsert \/ t = NewInsert
           /\ Head(t) = "new" => t = UpNew
           /\ Head(t) = "seek" => t = UpSeek
           /\ Head(t) = "recv" => t = UpRecv
           /\ Head(t) = "inc" => t = Inc
BY UploadOps DEF UploadTodos

LEMMA InRm ==
    ASSUME NEW t \in RmTodos
    PROVE  /\ Head(t) \in {"resolve", "loaddst", "dec", "read", "drop", "delrow"}
           /\ Head(t) = "resolve" => t = Resolve
           /\ Head(t) = "loaddst" => t = RmLoad
           /\ Head(t) = "dec" => t = RmDec
           /\ Head(t) = "read" => t = RmRead
           /\ Head(t) = "drop" => t = RmDrop
           /\ Head(t) = "delrow" => t = RmRow
BY RmOps DEF RmTodos

LEMMA InCp ==
    ASSUME NEW t \in CpTodos
    PROVE  /\ Head(t) \in {"resolve", "loadsrc", "insert", "inc", "loaddst", "dec", "read",
                           "drop", "update"}
           /\ Head(t) = "resolve" => t = Resolve
           /\ Head(t) = "loadsrc" => t = NewLoad \/ t = CpSource
           /\ Head(t) = "insert" => t = NewInsert
           /\ Head(t) = "inc" => t = Inc
           /\ Head(t) = "loaddst" => t = CpLoad
           /\ Head(t) = "dec" => t = CpDec
           /\ Head(t) = "read" => t = CpRead
           /\ Head(t) = "drop" => t = CpDrop
           /\ Head(t) = "update" => t = CpUpdate
BY NewOps, CpOps DEF NewTodos, CpTodos

LEMMA InCpDir ==
    ASSUME NEW t \in CpDirTodos
    PROVE  /\ Head(t) \in {"resolve", "loadsrc", "insert", "inc", "loaddst", "dec", "read",
                           "drop", "update"}
           /\ Head(t) = "resolve" => t = Resolve
           /\ Head(t) = "loadsrc" => t = NewLoad \/ t = DirSource \/ t = DirReload
           /\ Head(t) = "insert" => t = NewInsert
           /\ Head(t) = "inc" => t = Inc \/ t = DirInc
           /\ Head(t) = "loaddst" => t = DirLoad
           /\ Head(t) = "dec" => t = DirDec
           /\ Head(t) = "read" => t = DirRead
           /\ Head(t) = "drop" => t = DirDrop
           /\ Head(t) = "update" => t = DirUpdate
BY SMTT(30), NewOps, CpDirOps DEF NewTodos, CpDirTodos

\* A step put in front.
LEMMA HeadInFront ==
    ASSUME NEW S, NEW x \in S, NEW t \in Seq(S), NEW u \in Seq(S), u # <<>>, Head(u) = x, Tail(u) = t
    PROVE  <<x>> \o t = u
<1>1. Len(u) \in Nat /\ Len(u) > 0 /\ Len(t) = Len(u) - 1 /\ \A i \in 1..Len(t) : t[i] = u[i + 1]
  <2>1. Len(u) \in Nat /\ Len(u) > 0 BY EmptySeq, LenProperties
  <2>2. /\ Len(Tail(u)) = Len(u) - 1
        /\ \A i \in 1..Len(Tail(u)) : Tail(u)[i] = u[i + 1]
    BY HeadTailProperties
  <2>3. QED BY <2>1, <2>2
<1>2. <<x>> \in Seq(S) /\ Len(<<x>>) = 1 /\ <<x>>[1] = x OBVIOUS
<1> DEFINE w == <<x>> \o t
<1>3. /\ w \in Seq(S) /\ Len(w) = Len(u)
      /\ \A i \in 1..Len(u) : w[i] = IF i <= 1 THEN <<x>>[i] ELSE t[i - 1]
  BY <1>1, <1>2, ConcatProperties
<1>4. u[1] = x BY <1>1
<1> HIDE DEF w
<1>5. \A i \in 1..Len(u) : w[i] = u[i] BY <1>1, <1>2, <1>3, <1>4
<1>6. w = u BY <1>3, <1>5, SeqEqual
<1>7. QED BY <1>6 DEF w

LEMMA InFront ==
    /\ <<"stat">> \o UpOffset = UpStat /\ <<"drop">> \o RmRow = RmDrop
    /\ <<"drop">> \o CpSource = CpDrop /\ <<"drop">> \o DirReload = DirDrop
    /\ <<>> \o UpOffset = UpOffset /\ <<>> \o RmRow = RmRow
    /\ <<>> \o CpSource = CpSource /\ <<>> \o DirReload = DirReload
<1>1. /\ {UpStat, UpOffset, RmDrop, RmRow, CpDrop, CpSource, DirDrop, DirReload} \subseteq Seq(Ops)
      /\ "stat" \in Ops /\ "drop" \in Ops
  BY PlacesTyped DEF UploadTodos, RmTodos, CpTodos, CpDirTodos, Ops
<1>2. <<"stat">> \o UpOffset = UpStat BY <1>1, UploadOps, HeadInFront
<1>3. <<"drop">> \o RmRow = RmDrop BY <1>1, RmOps, HeadInFront
<1>4. <<"drop">> \o CpSource = CpDrop BY <1>1, CpOps, HeadInFront
<1>5. <<"drop">> \o DirReload = DirDrop BY <1>1, CpDirOps, HeadInFront
<1>6. QED BY <1>1, <1>2, <1>3, <1>4, <1>5, ConcatEmptySeq

-----------------------------------------------------------------------------
(***************************************************************************)
(* Where a step may be taken, and where it leads.                          *)
(***************************************************************************)
LEMMA ResolveRmFlow ==
    ASSUME TInv, NEW s \in Sessions, ResolveRm(s)
    PROVE  /\ reg[s].cmd = "rm" /\ todo[s] = Resolve /\ UNCHANGED <<tables, store, counters>>
           /\ \/ Finish(s, reg[s], "fail")
              \/ \E i \in RowsOf(reg[s].name) : Goes(s, RmLoad, [reg[s] EXCEPT !.dst = i])
<1>1. /\ todo[s] # <<>> /\ Head(todo[s]) = "resolve" /\ Place(todo[s], reg[s])
      /\ reg[s].cmd = "rm" /\ UNCHANGED <<tables, store, counters>>
      /\ \/ Finish(s, reg[s], "fail")
         \/ \E i \in RowsOf(reg[s].name) :
               GoOn(s, <<"loaddst", "dec", "read", "delrow">>, [reg[s] EXCEPT !.dst = i])
  BY DEF ResolveRm, At, TInv, Places
<1>2. todo[s] = Resolve BY <1>1, InRm DEF Place
<1>3. ASSUME NEW i, GoOn(s, <<"loaddst", "dec", "read", "delrow">>, [reg[s] EXCEPT !.dst = i])
      PROVE  Goes(s, RmLoad, [reg[s] EXCEPT !.dst = i])
  BY <1>3 DEF GoOn, Goes, RmLoad
<1>4. QED BY <1>1, <1>2, <1>3

LEMMA ResolveCpFlow ==
    ASSUME TInv, NEW s \in Sessions, ResolveCp(s)
    PROVE  /\ reg[s].cmd \in {"cp", "cpdir"} /\ todo[s] = Resolve /\ reg[s].src \in Names
           /\ UNCHANGED <<tables, store, counters>>
           /\ \/ Finish(s, reg[s], "fail")
              \/ \E i \in RowsOf(reg[s].name) :
                    \/ Goes(s, NewLoad, [reg[s] EXCEPT !.name = reg[s].src, !.src = i])
                    \/ \E j \in RowsOf(reg[s].src) :
                          Goes(s, IF reg[s].cmd = "cp" THEN CpLoad ELSE DirSource,
                               [reg[s] EXCEPT !.name = reg[s].src, !.src = i, !.dst = j])
<1>1. /\ todo[s] # <<>> /\ Head(todo[s]) = "resolve" /\ Place(todo[s], reg[s])
      /\ reg[s].cmd \in {"cp", "cpdir"} /\ UNCHANGED <<tables, store, counters>>
      /\ \/ Finish(s, reg[s], "fail")
         \/ \E i \in RowsOf(reg[s].name) :
               \/ GoOn(s, CpSteps(reg[s].cmd, FALSE), [reg[s] EXCEPT !.name = reg[s].src, !.src = i])
               \/ \E j \in RowsOf(reg[s].src) :
                     GoOn(s, CpSteps(reg[s].cmd, TRUE),
                          [reg[s] EXCEPT !.name = reg[s].src, !.src = i, !.dst = j])
  BY DEF ResolveCp, At, TInv, Places
<1>2. todo[s] = Resolve BY <1>1, InCp, InCpDir DEF Place
<1>3. reg[s].src \in Names BY <1>1, <1>2 DEF Place
<1>4. /\ CpSteps(reg[s].cmd, FALSE) = NewLoad
      /\ CpSteps(reg[s].cmd, TRUE) = IF reg[s].cmd = "cp" THEN CpLoad ELSE DirSource
  BY DEF CpSteps, NewLoad, CpLoad, DirSource
<1>5. CpSteps(reg[s].cmd, FALSE) # <<>> /\ CpSteps(reg[s].cmd, TRUE) # <<>>
  BY <1>4, NewOps, CpOps, CpDirOps
<1>6. ASSUME NEW t, NEW r, t # <<>>, GoOn(s, t, r)
      PROVE  Goes(s, t, r)
  BY <1>6 DEF GoOn, Goes
<1>7. \/ Finish(s, reg[s], "fail")
      \/ \E i \in RowsOf(reg[s].name) :
            \/ Goes(s, CpSteps(reg[s].cmd, FALSE), [reg[s] EXCEPT !.name = reg[s].src, !.src = i])
            \/ \E j \in RowsOf(reg[s].src) :
                  Goes(s, CpSteps(reg[s].cmd, TRUE),
                       [reg[s] EXCEPT !.name = reg[s].src, !.src = i, !.dst = j])
  BY <1>1, <1>5, <1>6
<1>8. QED BY <1>1, <1>2, <1>3, <1>4, <1>7

LEMMA SourceFlow ==
    ASSUME TInv, NEW s \in Sessions, LoadSource(s)
    PROVE  LET r == [reg[s] EXCEPT !.md5 = file[reg[s].src].md5]
           IN  /\ UNCHANGED <<tables, store, cmds, losses, exits>>
               /\ \/ /\ reg[s].src \in DOMAIN file /\ UNCHANGED <<faults, tainted>>
                     /\ \/ /\ reg[s].cmd \in {"cp", "cpdir"} /\ todo[s] = NewLoad
                           /\ Goes(s, NewInsert, r)
                        \/ reg[s].cmd = "cp" /\ todo[s] = CpSource /\ Goes(s, CpUpdate, r)
                        \/ reg[s].cmd = "cpdir" /\ todo[s] = DirSource /\ Goes(s, DirInc, r)
                        \/ reg[s].cmd = "cpdir" /\ todo[s] = DirReload /\ Goes(s, DirUpdate, r)
                  \/ reg[s].src \notin DOMAIN file /\ todo[s] # <<>> /\ Fault
<1> DEFINE r == [reg[s] EXCEPT !.md5 = file[reg[s].src].md5]
<1>1. /\ todo[s] # <<>> /\ Head(todo[s]) = "loadsrc" /\ Place(todo[s], reg[s])
      /\ UNCHANGED <<tables, store, cmds, losses, exits>>
      /\ \/ reg[s].src \in DOMAIN file /\ GoOn(s, Tail(todo[s]), r) /\ UNCHANGED <<faults, tainted>>
         \/ reg[s].src \notin DOMAIN file /\ Missing(s)
  BY DEF LoadSource, Load, At, TInv, Places
<1>2. \/ reg[s].cmd \in {"cp", "cpdir"} /\ todo[s] = NewLoad
      \/ reg[s].cmd = "cp" /\ todo[s] = CpSource
      \/ reg[s].cmd = "cpdir" /\ todo[s] = DirSource
      \/ reg[s].cmd = "cpdir" /\ todo[s] = DirReload
  BY <1>1, InUpload, InRm, InCp, InCpDir DEF Place
<1>3. CASE reg[s].src \notin DOMAIN file BY <1>1, <1>2, <1>3 DEF Missing
<1>4. CASE reg[s].src \in DOMAIN file
  <2>1. Goes(s, Tail(todo[s]), r) BY <1>1, <1>2, <1>4, NewOps, CpOps, CpDirOps DEF GoOn, Goes
  <2>2. QED BY <1>1, <1>2, <1>4, <2>1, NewOps, CpOps, CpDirOps
<1>5. QED BY <1>3, <1>4

LEMMA DestinationFlow ==
    ASSUME TInv, NEW s \in Sessions, LoadDestination(s)
    PROVE  LET r == [reg[s] EXCEPT !.md5 = file[reg[s].dst].md5]
           IN  /\ UNCHANGED <<tables, store, cmds, losses, exits>>
               /\ \/ /\ reg[s].dst \in DOMAIN file /\ UNCHANGED <<faults, tainted>>
                     /\ \/ reg[s].cmd = "rm" /\ todo[s] = RmLoad /\ Goes(s, RmDec, r)
                        \/ reg[s].cmd = "cp" /\ todo[s] = CpLoad /\ Goes(s, CpDec, r)
                        \/ reg[s].cmd = "cpdir" /\ todo[s] = DirLoad /\ Goes(s, DirDec, r)
                  \/ /\ reg[s].dst \notin DOMAIN file /\ reg[s].cmd = "rm" /\ todo[s] = RmLoad
                     /\ Finish(s, reg[s], "ok") /\ UNCHANGED <<faults, tainted>>
                  \/ /\ reg[s].dst \notin DOMAIN file /\ reg[s].cmd # "rm"
                     /\ todo[s] \in {CpLoad, DirLoad} /\ Fault
<1> DEFINE r == [reg[s] EXCEPT !.md5 = file[reg[s].dst].md5]
<1>1. /\ todo[s] # <<>> /\ Head(todo[s]) = "loaddst" /\ Place(todo[s], reg[s])
      /\ UNCHANGED <<tables, store, cmds, losses, exits>>
      /\ \/ reg[s].dst \in DOMAIN file /\ GoOn(s, Tail(todo[s]), r) /\ UNCHANGED <<faults, tainted>>
         \/ reg[s].dst \notin DOMAIN file /\ Missing(s)
  BY DEF LoadDestination, Load, At, TInv, Places
<1>2. \/ reg[s].cmd = "rm" /\ todo[s] = RmLoad
      \/ reg[s].cmd = "cp" /\ todo[s] = CpLoad
      \/ reg[s].cmd = "cpdir" /\ todo[s] = DirLoad
  BY <1>1, InUpload, InRm, InCp, InCpDir DEF Place
<1>3. CASE reg[s].dst \notin DOMAIN file BY <1>1, <1>2, <1>3 DEF Missing
<1>4. CASE reg[s].dst \in DOMAIN file
  <2>1. Goes(s, Tail(todo[s]), r) BY <1>1, <1>2, <1>4, RmOps, CpOps, CpDirOps DEF GoOn, Goes
  <2>2. QED BY <1>1, <1>2, <1>4, <2>1, RmOps, CpOps, CpDirOps
<1>5. QED BY <1>3, <1>4

\* A count added to every record of a content.
Plus(q, d) == [i \in DOMAIN q |-> q[i] + d]

LEMMA IncFlow ==
    ASSUME TInv, NEW s \in Sessions, IncCount(s)
    PROVE  /\ reg[s].md5 \in Md5s
           /\ real' = [real EXCEPT ![reg[s].md5] = Plus(real[reg[s].md5], 1)]
           /\ UNCHANGED <<file, nextId, store, counters>>
           /\ \/ /\ reg[s].cmd \in {"upload", "cp", "cpdir"} /\ todo[s] = Inc
                 /\ Finish(s, reg[s], "ok")
              \/ reg[s].cmd = "cpdir" /\ todo[s] = DirInc /\ Goes(s, DirLoad, reg[s])
<1>1. /\ todo[s] # <<>> /\ Head(todo[s]) = "inc" /\ Place(todo[s], reg[s])
      /\ GoOn(s, Tail(todo[s]), reg[s])
      /\ real' = [real EXCEPT ![reg[s].md5] = Plus(real[reg[s].md5], 1)]
      /\ UNCHANGED <<file, nextId, store, counters>>
  BY DEF IncCount, AddCount, At, TInv, Places, Plus
<1>2. reg[s].md5 \in Md5s BY <1>1 DEF Place
<1>3. \/ reg[s].cmd \in {"upload", "cp", "cpdir"} /\ todo[s] = Inc
      \/ reg[s].cmd = "cpdir" /\ todo[s] = DirInc
  BY <1>1, InUpload, InRm, InCp, InCpDir DEF Place
<1>4. CASE todo[s] = Inc
  <2>1. Finish(s, reg[s], "ok") BY <1>1, <1>4, NewOps DEF GoOn
  <2>2. reg[s].cmd \in {"upload", "cp", "cpdir"} BY <1>3
  <2>3. QED BY <1>1, <1>2, <1>4, <2>1, <2>2
<1>5. CASE reg[s].cmd = "cpdir" /\ todo[s] = DirInc
  <2>1. Goes(s, Tail(todo[s]), reg[s]) BY <1>1, <1>5, CpDirOps DEF GoOn, Goes
  <2>2. QED BY <1>1, <1>2, <1>5, <2>1, CpDirOps
<1>6. QED BY <1>3, <1>4, <1>5

LEMMA DecFlow ==
    ASSUME TInv, NEW s \in Sessions, DecCount(s)
    PROVE  /\ reg[s].md5 \in Md5s
           /\ real' = [real EXCEPT ![reg[s].md5] = Plus(real[reg[s].md5], -1)]
           /\ UNCHANGED <<file, nextId, store, counters>>
           /\ \/ reg[s].cmd = "rm" /\ todo[s] = RmDec /\ Goes(s, RmRead, reg[s])
              \/ reg[s].cmd = "cp" /\ todo[s] = CpDec /\ Goes(s, CpRead, reg[s])
              \/ reg[s].cmd = "cpdir" /\ todo[s] = DirDec /\ Goes(s, DirRead, reg[s])
<1>1. /\ todo[s] # <<>> /\ Head(todo[s]) = "dec" /\ Place(todo[s], reg[s])
      /\ GoOn(s, Tail(todo[s]), reg[s])
      /\ real' = [real EXCEPT ![reg[s].md5] = Plus(real[reg[s].md5], -1)]
      /\ UNCHANGED <<file, nextId, store, counters>>
  BY DEF DecCount, AddCount, At, TInv, Places, Plus
<1>2. reg[s].md5 \in Md5s BY <1>1 DEF Place
<1>3. \/ reg[s].cmd = "rm" /\ todo[s] = RmDec
      \/ reg[s].cmd = "cp" /\ todo[s] = CpDec
      \/ reg[s].cmd = "cpdir" /\ todo[s] = DirDec
  BY <1>1, InUpload, InRm, InCp, InCpDir DEF Place
<1>4. Goes(s, Tail(todo[s]), reg[s])
  BY <1>1, <1>3, RmOps, CpOps, CpDirOps DEF GoOn, Goes
<1>5. QED BY <1>1, <1>2, <1>3, <1>4, RmOps, CpOps, CpDirOps

LEMMA ReadFlow ==
    ASSUME TInv, NEW s \in Sessions, ReadCount(s)
    PROVE  LET rows == real[reg[s].md5]
           IN  /\ reg[s].md5 \in Md5s /\ UNCHANGED <<tables, store, cmds, losses, exits>>
               /\ \/ /\ rows = <<>> /\ reg[s].cmd = "rm" /\ todo[s] = RmRead
                     /\ Finish(s, reg[s], "ok") /\ UNCHANGED <<faults, tainted>>
                  \/ rows = <<>> /\ reg[s].cmd # "rm" /\ todo[s] \in {CpRead, DirRead} /\ Fault
                  \/ /\ rows # <<>> /\ rows[1] = 0 /\ UNCHANGED <<faults, tainted>>
                     /\ \/ reg[s].cmd = "rm" /\ todo[s] = RmRead /\ Goes(s, RmDrop, reg[s])
                        \/ reg[s].cmd = "cp" /\ todo[s] = CpRead /\ Goes(s, CpDrop, reg[s])
                        \/ reg[s].cmd = "cpdir" /\ todo[s] = DirRead /\ Goes(s, DirDrop, reg[s])
                  \/ /\ rows # <<>> /\ rows[1] # 0 /\ UNCHANGED <<faults, tainted>>
                     /\ \/ reg[s].cmd = "rm" /\ todo[s] = RmRead /\ Goes(s, RmRow, reg[s])
                        \/ reg[s].cmd = "cp" /\ todo[s] = CpRead /\ Goes(s, CpSource, reg[s])
                        \/ reg[s].cmd = "cpdir" /\ todo[s] = DirRead /\ Goes(s, DirReload, reg[s])
<1> DEFINE rows == real[reg[s].md5]
           rest == (IF rows[1] = 0 THEN <<"drop">> ELSE <<>>) \o Tail(todo[s])
<1>1. /\ todo[s] # <<>> /\ Head(todo[s]) = "read" /\ Place(todo[s], reg[s])
      /\ UNCHANGED <<tables, store, cmds, losses, exits>>
      /\ \/ rows = <<>> /\ Missing(s)
         \/ rows # <<>> /\ GoOn(s, rest, reg[s]) /\ UNCHANGED <<faults, tainted>>
  BY DEF ReadCount, At, TInv, Places
<1>2. reg[s].md5 \in Md5s BY <1>1 DEF Place
<1>3. \/ reg[s].cmd = "rm" /\ todo[s] = RmRead
      \/ reg[s].cmd = "cp" /\ todo[s] = CpRead
      \/ reg[s].cmd = "cpdir" /\ todo[s] = DirRead
  BY <1>1, InUpload, InRm, InCp, InCpDir DEF Place
<1>4. CASE rows = <<>> BY <1>1, <1>2, <1>3, <1>4 DEF Missing
<1>5. CASE rows # <<>>
  <2>1. /\ todo[s] = RmRead => rest = IF rows[1] = 0 THEN RmDrop ELSE RmRow
        /\ todo[s] = CpRead => rest = IF rows[1] = 0 THEN CpDrop ELSE CpSource
        /\ todo[s] = DirRead => rest = IF rows[1] = 0 THEN DirDrop ELSE DirReload
    BY ZenonT(60), RmOps, CpOps, CpDirOps, InFront
  <2> HIDE DEF rest
  <2>2. rest # <<>> BY <1>3, <2>1, RmOps, CpOps, CpDirOps
  <2>3. Goes(s, rest, reg[s]) /\ UNCHANGED <<faults, tainted>> BY <1>1, <1>5, <2>2 DEF GoOn, Goes
  <2> HIDE DEF rows
  <2>4. QED BY <1>1, <1>2, <1>3, <1>5, <2>1, <2>3 DEF rows
<1>6. QED BY <1>4, <1>5

LEMMA DropFlow ==
    ASSUME TInv, NEW s \in Sessions, DropReal(s)
    PROVE  /\ reg[s].md5 \in Md5s
           /\ real' = [real EXCEPT ![reg[s].md5] = <<>>]
           /\ UNCHANGED <<file, nextId, store, counters>>
           /\ \/ reg[s].cmd = "rm" /\ todo[s] = RmDrop /\ Goes(s, RmRow, reg[s])
              \/ reg[s].cmd = "cp" /\ todo[s] = CpDrop /\ Goes(s, CpSource, reg[s])
              \/ reg[s].cmd = "cpdir" /\ todo[s] = DirDrop /\ Goes(s, DirReload, reg[s])
<1>1. /\ todo[s] # <<>> /\ Head(todo[s]) = "drop" /\ Place(todo[s], reg[s])
      /\ GoOn(s, Tail(todo[s]), reg[s])
      /\ real' = [real EXCEPT ![reg[s].md5] = <<>>]
      /\ UNCHANGED <<file, nextId, store, counters>>
  BY DEF DropReal, At, TInv, Places
<1>2. reg[s].md5 \in Md5s BY <1>1 DEF Place
<1>3. \/ reg[s].cmd = "rm" /\ todo[s] = RmDrop
      \/ reg[s].cmd = "cp" /\ todo[s] = CpDrop
      \/ reg[s].cmd = "cpdir" /\ todo[s] = DirDrop
  BY <1>1, InUpload, InRm, InCp, InCpDir DEF Place
<1>4. Goes(s, Tail(todo[s]), reg[s])
  BY ZenonT(60), <1>1, <1>3, RmOps, CpOps, CpDirOps DEF GoOn, Goes
<1>5. QED BY <1>1, <1>2, <1>3, <1>4, RmOps, CpOps, CpDirOps

LEMMA InsertFlow ==
    ASSUME TInv, NEW s \in Sessions, InsertRow(s)
    PROVE  LET r == [reg[s] EXCEPT !.dst = nextId]
           IN  /\ reg[s].md5 \in Md5s /\ reg[s].name \in Names
               /\ file' = [i \in DOMAIN file \cup {nextId} |->
                              IF i = nextId THEN [name |-> reg[s].name, md5 |-> reg[s].md5]
                              ELSE file[i]]
               /\ nextId' = nextId + 1
               /\ UNCHANGED <<real, store, counters>>
               /\ \/ /\ reg[s].cmd \in {"upload", "cp", "cpdir"} /\ todo[s] = NewInsert
                     /\ Goes(s, Inc, r)
                  \/ reg[s].cmd = "upload" /\ todo[s] = UpInsert /\ Goes(s, UpNew, r)
<1> DEFINE r == [reg[s] EXCEPT !.dst = nextId]
           new == [i \in DOMAIN file \cup {nextId} |->
                      IF i = nextId THEN [name |-> reg[s].name, md5 |-> reg[s].md5] ELSE file[i]]
<1>1. /\ todo[s] # <<>> /\ Head(todo[s]) = "insert" /\ Place(todo[s], reg[s])
      /\ GoOn(s, Tail(todo[s]), r)
      /\ file' = new /\ nextId' = nextId + 1
      /\ UNCHANGED <<real, store, counters>>
  BY DEF InsertRow, At, TInv, Places
<1> HIDE DEF new
<1>2. reg[s].md5 \in Md5s /\ reg[s].name \in Names BY <1>1 DEF Place
<1>3. \/ reg[s].cmd \in {"upload", "cp", "cpdir"} /\ todo[s] = NewInsert
      \/ reg[s].cmd = "upload" /\ todo[s] = UpInsert
  BY <1>1, InUpload, InRm, InCp, InCpDir DEF Place
<1>4. Goes(s, Tail(todo[s]), r)
  BY <1>1, <1>3, UploadOps, NewOps DEF GoOn, Goes
<1>5. QED BY <1>1, <1>2, <1>3, <1>4, UploadOps, NewOps DEF new

LEMMA UpdateFlow ==
    ASSUME TInv, NEW s \in Sessions, UpdateRow(s)
    PROVE  /\ reg[s].md5 \in Md5s
           /\ file' = [i \in DOMAIN file |->
                          IF i = reg[s].dst THEN [file[i] EXCEPT !.md5 = reg[s].md5] ELSE file[i]]
           /\ UNCHANGED <<nextId, real, store, counters>>
           /\ \/ reg[s].cmd = "cp" /\ todo[s] = CpUpdate /\ Goes(s, Inc, reg[s])
              \/ reg[s].cmd = "cpdir" /\ todo[s] = DirUpdate /\ Finish(s, reg[s], "ok")
<1> DEFINE new == [i \in DOMAIN file |->
                      IF i = reg[s].dst THEN [file[i] EXCEPT !.md5 = reg[s].md5] ELSE file[i]]
<1>1. /\ todo[s] # <<>> /\ Head(todo[s]) = "update" /\ Place(todo[s], reg[s])
      /\ GoOn(s, Tail(todo[s]), reg[s])
      /\ file' = new /\ UNCHANGED <<nextId, real, store, counters>>
  BY DEF UpdateRow, At, TInv, Places
<1> HIDE DEF new
<1>2. reg[s].md5 \in Md5s BY <1>1 DEF Place
<1>3. \/ reg[s].cmd = "cp" /\ todo[s] = CpUpdate
      \/ reg[s].cmd = "cpdir" /\ todo[s] = DirUpdate
  BY <1>1, InUpload, InRm, InCp, InCpDir DEF Place
<1>4. CASE reg[s].cmd = "cp" /\ todo[s] = CpUpdate
  <2>1. Goes(s, Tail(todo[s]), reg[s]) BY <1>1, <1>4, CpOps, NewOps DEF GoOn, Goes
  <2>2. QED BY <1>1, <1>2, <1>4, <2>1, CpOps DEF new
<1>5. CASE reg[s].cmd = "cpdir" /\ todo[s] = DirUpdate
  <2>1. Finish(s, reg[s], "ok") BY <1>1, <1>5, CpDirOps DEF GoOn
  <2>2. QED BY <1>1, <1>2, <1>5, <2>1 DEF new
<1>6. QED BY <1>3, <1>4, <1>5

LEMMA DeleteFlow ==
    ASSUME TInv, NEW s \in Sessions, DeleteRow(s)
    PROVE  /\ reg[s].md5 \in Md5s /\ reg[s].cmd = "rm" /\ todo[s] = RmRow
           /\ file' = [i \in DOMAIN file \ {reg[s].dst} |-> file[i]]
           /\ UNCHANGED <<nextId, real, store, counters>>
           /\ Finish(s, reg[s], "ok")
<1>1. /\ todo[s] # <<>> /\ Head(todo[s]) = "delrow" /\ Place(todo[s], reg[s])
      /\ GoOn(s, Tail(todo[s]), reg[s])
      /\ file' = [i \in DOMAIN file \ {reg[s].dst} |-> file[i]]
      /\ UNCHANGED <<nextId, real, store, counters>>
  BY DEF DeleteRow, At, TInv, Places
<1>2. reg[s].md5 \in Md5s BY <1>1 DEF Place
<1>3. reg[s].cmd = "rm" /\ todo[s] = RmRow
  BY <1>1, InUpload, InRm, InCp, InCpDir DEF Place
<1>4. Finish(s, reg[s], "ok") BY <1>1, <1>3, RmOps DEF GoOn
<1>5. QED BY <1>1, <1>2, <1>3, <1>4

LEMMA CheckFlow ==
    ASSUME TInv, NEW s \in Sessions, CheckName(s)
    PROVE  /\ reg[s].cmd = "upload" /\ todo[s] = UpCheck /\ UNCHANGED <<tables, store, counters>>
           /\ Goes(s, UpStat, reg[s]) \/ Goes(s, UpOffset, reg[s])
<1> DEFINE rest == (IF RowsOf(reg[s].name) = {} THEN <<>> ELSE <<"stat">>) \o Tail(todo[s])
<1>1. /\ todo[s] # <<>> /\ Head(todo[s]) = "check" /\ Place(todo[s], reg[s])
      /\ GoOn(s, rest, reg[s]) /\ UNCHANGED <<tables, store, counters>>
  BY DEF CheckName, At, TInv, Places
<1>2. reg[s].cmd = "upload" /\ todo[s] = UpCheck
  BY <1>1, InUpload, InRm, InCp, InCpDir DEF Place
<1>3. rest = UpOffset \/ rest = UpStat BY <1>2, UploadOps, InFront
<1> HIDE DEF rest
<1>4. Goes(s, rest, reg[s]) BY <1>1, <1>3, UploadOps DEF GoOn, Goes
<1>5. QED BY <1>1, <1>2, <1>3, <1>4

LEMMA StatFlow ==
    ASSUME TInv, NEW s \in Sessions, StatExisting(s)
    PROVE  /\ reg[s].cmd = "upload" /\ todo[s] = UpStat /\ reg[s].md5 \in Md5s
           /\ UNCHANGED <<tables, store, counters>>
           /\ \/ Len(store[reg[s].md5]) = Size(reg[s].md5) /\ Finish(s, reg[s], "existing")
              \/ Goes(s, UpOffset, reg[s])
<1>1. /\ todo[s] # <<>> /\ Head(todo[s]) = "stat" /\ Place(todo[s], reg[s])
      /\ \/ Len(store[reg[s].md5]) = Size(reg[s].md5) /\ Finish(s, reg[s], "existing")
         \/ GoOn(s, Tail(todo[s]), reg[s])
      /\ UNCHANGED <<tables, store, counters>>
  BY DEF StatExisting, At, TInv, Places
<1>2. reg[s].cmd = "upload" /\ todo[s] = UpStat /\ reg[s].md5 \in Md5s
  BY <1>1, InUpload, InRm, InCp, InCpDir DEF Place
<1>3. GoOn(s, Tail(todo[s]), reg[s]) => Goes(s, UpOffset, reg[s])
  BY <1>2, UploadOps DEF GoOn, Goes
<1>4. QED BY <1>1, <1>2, <1>3

LEMMA OffsetFlow ==
    ASSUME TInv, NEW s \in Sessions, SendOffset(s)
    PROVE  /\ reg[s].cmd = "upload" /\ todo[s] = UpOffset /\ reg[s].md5 \in Md5s
           /\ UNCHANGED <<tables, store, counters>>
           /\ Goes(s, UpLookup, [reg[s] EXCEPT !.size = Len(store[reg[s].md5])])
<1> DEFINE r == [reg[s] EXCEPT !.size = Len(store[reg[s].md5])]
<1>1. /\ todo[s] # <<>> /\ Head(todo[s]) = "offset" /\ Place(todo[s], reg[s])
      /\ GoOn(s, Tail(todo[s]), r) /\ UNCHANGED <<tables, store, counters>>
  BY DEF SendOffset, At, TInv, Places
<1>2. reg[s].cmd = "upload" /\ todo[s] = UpOffset /\ reg[s].md5 \in Md5s
  BY <1>1, InUpload, InRm, InCp, InCpDir DEF Place
<1> HIDE DEF r
<1>3. Goes(s, UpLookup, r) BY <1>1, <1>2, UploadOps DEF GoOn, Goes
<1>4. QED BY <1>1, <1>2, <1>3 DEF r

LEMMA LookupFlow ==
    ASSUME TInv, NEW s \in Sessions, LookupReal(s)
    PROVE  LET r == [reg[s] EXCEPT !.ret = (real[reg[s].md5] # <<>>)]
           IN  /\ reg[s].cmd = "upload" /\ todo[s] = UpLookup /\ reg[s].md5 \in Md5s
               /\ UNCHANGED <<tables, store, counters>>
               /\ \/ /\ real[reg[s].md5] # <<>> /\ reg[s].size = Size(reg[s].md5)
                     /\ Goes(s, NewInsert, r)
                  \/ real[reg[s].md5] = <<>> /\ Goes(s, UpInsert, r)
                  \/ real[reg[s].md5] # <<>> /\ Goes(s, UpSeek, r)
<1> DEFINE known == real[reg[s].md5] # <<>>
           r == [reg[s] EXCEPT !.ret = known]
           rest == UploadSteps(known, reg[s].size = Size(reg[s].md5))
<1>1. /\ todo[s] # <<>> /\ Head(todo[s]) = "lookup" /\ Place(todo[s], reg[s])
      /\ GoOn(s, rest, r) /\ UNCHANGED <<tables, store, counters>>
  BY DEF LookupReal, At, TInv, Places
<1>2. reg[s].cmd = "upload" /\ todo[s] = UpLookup /\ reg[s].md5 \in Md5s
  BY <1>1, InUpload, InRm, InCp, InCpDir DEF Place
<1>3. \/ known /\ reg[s].size = Size(reg[s].md5) /\ rest = NewInsert
      \/ ~known /\ rest = UpInsert
      \/ known /\ rest = UpSeek
  BY DEF UploadSteps, NewInsert, UpInsert, UpSeek
<1> HIDE DEF rest, r
<1>4. Goes(s, rest, r) BY <1>1, <1>3, UploadOps DEF GoOn, Goes
<1>5. QED BY <1>1, <1>2, <1>3, <1>4 DEF r

LEMMA InsertRealFlow ==
    ASSUME TInv, NEW s \in Sessions, InsertReal(s)
    PROVE  /\ reg[s].cmd = "upload" /\ todo[s] = UpNew /\ reg[s].md5 \in Md5s
           /\ real' = [real EXCEPT ![reg[s].md5] = Append(@, 1)]
           /\ UNCHANGED <<file, nextId, store, counters>>
           /\ Goes(s, UpSeek, reg[s])
<1>1. /\ todo[s] # <<>> /\ Head(todo[s]) = "new" /\ Place(todo[s], reg[s])
      /\ GoOn(s, Tail(todo[s]), reg[s])
      /\ real' = [real EXCEPT ![reg[s].md5] = Append(@, 1)]
      /\ UNCHANGED <<file, nextId, store, counters>>
  BY DEF InsertReal, At, TInv, Places
<1>2. reg[s].cmd = "upload" /\ todo[s] = UpNew /\ reg[s].md5 \in Md5s
  BY <1>1, InUpload, InRm, InCp, InCpDir DEF Place
<1>3. Goes(s, UpSeek, reg[s]) BY <1>1, <1>2, UploadOps DEF GoOn, Goes
<1>4. QED BY <1>1, <1>2, <1>3

LEMMA SeekFlow ==
    ASSUME TInv, NEW s \in Sessions, SeekEnd(s)
    PROVE  /\ reg[s].cmd = "upload" /\ todo[s] = UpSeek /\ reg[s].md5 \in Md5s
           /\ UNCHANGED <<tables, store, counters>>
           /\ Goes(s, UpRecv, [reg[s] EXCEPT !.pos = Len(store[reg[s].md5])])
<1> DEFINE r == [reg[s] EXCEPT !.pos = Len(store[reg[s].md5])]
<1>1. /\ todo[s] # <<>> /\ Head(todo[s]) = "seek" /\ Place(todo[s], reg[s])
      /\ GoOn(s, Tail(todo[s]), r) /\ UNCHANGED <<tables, store, counters>>
  BY DEF SeekEnd, At, TInv, Places
<1>2. reg[s].cmd = "upload" /\ todo[s] = UpSeek /\ reg[s].md5 \in Md5s
  BY <1>1, InUpload, InRm, InCp, InCpDir DEF Place
<1> HIDE DEF r
<1>3. Goes(s, UpRecv, r) BY <1>1, <1>2, UploadOps DEF GoOn, Goes
<1>4. QED BY <1>1, <1>2, <1>3 DEF r

LEMMA ReceiveFlow ==
    ASSUME TInv, NEW s \in Sessions, Receive(s)
    PROVE  LET r == reg[s]
           IN  /\ r.cmd = "upload" /\ todo[s] = UpRecv /\ r.md5 \in Md5s
               /\ UNCHANGED <<tables, counters>>
               /\ \/ /\ r.got < Size(r.md5) - r.size
                     /\ store' = [store EXCEPT ![r.md5] = WriteAt(@, r.pos, r.size + r.got + 1)]
                     /\ Goes(s, UpRecv, [r EXCEPT !.pos = @ + 1, !.got = @ + 1])
                  \/ /\ r.got >= Size(r.md5) - r.size /\ UNCHANGED store
                     /\ Finish(s, r, "ok")
<1> DEFINE r == reg[s]
           w == [store EXCEPT ![r.md5] = WriteAt(@, r.pos, r.size + r.got + 1)]
           q == [r EXCEPT !.pos = @ + 1, !.got = @ + 1]
<1>1. /\ todo[s] # <<>> /\ Head(todo[s]) = "recv" /\ Place(todo[s], reg[s])
      /\ UNCHANGED <<tables, counters>>
      /\ \/ r.got < Size(r.md5) - r.size /\ store' = w /\ GoOn(s, todo[s], q)
         \/ r.got >= Size(r.md5) - r.size /\ GoOn(s, Tail(todo[s]), r) /\ UNCHANGED store
  BY DEF Receive, At, TInv, Places
<1>2. reg[s].cmd = "upload" /\ todo[s] = UpRecv /\ reg[s].md5 \in Md5s
  BY <1>1, InUpload, InRm, InCp, InCpDir DEF Place
<1> HIDE DEF w, q
<1>3. GoOn(s, todo[s], q) => Goes(s, UpRecv, q) BY <1>1, <1>2 DEF GoOn, Goes
<1>4. GoOn(s, Tail(todo[s]), r) => Finish(s, r, "ok") BY <1>2, UploadOps DEF GoOn
<1>5. QED BY <1>1, <1>2, <1>3, <1>4 DEF w, q

LEMMA LoseFlow ==
    ASSUME TInv, NEW s \in Sessions, Lose(s)
    PROVE  /\ reg[s].cmd = "upload" /\ todo[s] = UpRecv /\ reg[s].md5 \in Md5s
           /\ Finish(s, reg[s], "gone")
           /\ UNCHANGED <<tables, store, cmds, exits, faults, tainted>>
<1>1. /\ todo[s] # <<>> /\ Head(todo[s]) = "recv" /\ Place(todo[s], reg[s])
      /\ Finish(s, reg[s], "gone")
      /\ UNCHANGED <<tables, store, cmds, exits, faults, tainted>>
  BY DEF Lose, At, TInv, Places
<1>2. reg[s].cmd = "upload" /\ todo[s] = UpRecv /\ reg[s].md5 \in Md5s
  BY <1>1, InUpload, InRm, InCp, InCpDir DEF Place
<1>3. QED BY <1>1, <1>2

\* A command begins.
Starts(s, t, r) ==
    /\ todo[s] = <<>>
    /\ todo' = [todo EXCEPT ![s] = t]
    /\ reg' = [reg EXCEPT ![s] = r]
    /\ reply' = [reply EXCEPT ![s] = NoReply]
    /\ UNCHANGED <<tables, store, losses, exits, faults, tainted>>

LEMMA BeginUploadFlow ==
    ASSUME NEW s \in Sessions, BeginUpload(s)
    PROVE  \E u \in Uploads :
              /\ u[1] \in NamesOf(s)
              /\ Starts(s, UpCheck, [NoReg EXCEPT !.cmd = "upload", !.name = u[1], !.md5 = u[2]])
BY DEF BeginUpload, Begin, Starts, Idle, UpCheck

LEMMA BeginRmFlow ==
    ASSUME NEW s \in Sessions, BeginRm(s)
    PROVE  \E n \in Removes \cap NamesOf(s) :
              Starts(s, Resolve, [NoReg EXCEPT !.cmd = "rm", !.name = n])
BY DEF BeginRm, Begin, Starts, Idle, Resolve

LEMMA BeginCpFlow ==
    ASSUME NEW s \in Sessions, BeginCp(s)
    PROVE  \E c \in Copies :
              /\ {c[1], c[2]} \subseteq NamesOf(s)
              /\ Starts(s, Resolve, [NoReg EXCEPT !.cmd = IF c[3] = "file" THEN "cp" ELSE "cpdir",
                                                  !.name = c[1], !.src = c[2]])
BY DEF BeginCp, Begin, Starts, Idle, Resolve

-----------------------------------------------------------------------------
(***************************************************************************)
(* The types.                                                              *)
(***************************************************************************)
LEMMA GoesTyped ==
    ASSUME TInv, NEW s \in Sessions, NEW t \in Seq(Ops), NEW r \in Regs,
           Place(t, r), Goes(s, t, r)
    PROVE  SessionsTyped' /\ Places'
<1>1. SessionsTyped' BY DEF TInv, SessionsTyped, Goes
<1>2. ASSUME NEW x \in Sessions PROVE Place(todo'[x], reg'[x])
  <2>1. CASE x = s BY <2>1 DEF TInv, SessionsTyped, Goes
  <2>2. CASE x # s BY <2>2 DEF TInv, SessionsTyped, Places, Goes
  <2>3. QED BY <2>1, <2>2
<1>3. Places' BY <1>2 DEF Places, Place
<1>4. QED BY <1>1, <1>3

LEMMA NoRegTyped == NoReg \in Regs /\ NoReply \in Replies
BY DEF NoReg, NoReply, Regs, Replies, Cmds

LEMMA FinishTyped ==
    ASSUME TInv, NEW s \in Sessions, NEW a \in {"ok", "existing", "fail", "gone"},
           Finish(s, reg[s], a)
    PROVE  SessionsTyped' /\ Places'
<1>1. Answer(reg[s], a) \in Replies BY DEF TInv, SessionsTyped, Answer, Regs, Replies
<1>2. SessionsTyped' BY <1>1, NoRegTyped, EmptySeq DEF TInv, SessionsTyped, Finish
<1>3. ASSUME NEW x \in Sessions PROVE Place(todo'[x], reg'[x])
  <2>1. CASE x = s BY <2>1 DEF TInv, SessionsTyped, Finish, Place
  <2>2. CASE x # s BY <2>2 DEF TInv, SessionsTyped, Places, Finish
  <2>3. QED BY <2>1, <2>2
<1>4. Places' BY <1>3 DEF Places, Place
<1>5. QED BY <1>2, <1>4

LEMMA EndTyped ==
    ASSUME AllSessionsEnd
    PROVE  SessionsTyped' /\ Places'
BY NoRegTyped, EmptySeq DEF AllSessionsEnd, SessionsTyped, Places, Place

LEMMA StartsTyped ==
    ASSUME TInv, NEW s \in Sessions, NEW t \in Seq(Ops), NEW r \in Regs,
           Place(t, r), Starts(s, t, r)
    PROVE  TInv'
<1>1. SessionsTyped' BY NoRegTyped DEF TInv, SessionsTyped, Starts
<1>2. ASSUME NEW x \in Sessions PROVE Place(todo'[x], reg'[x])
  <2>1. CASE x = s BY <2>1 DEF TInv, SessionsTyped, Starts
  <2>2. CASE x # s BY <2>2 DEF TInv, SessionsTyped, Places, Starts
  <2>3. QED BY <2>1, <2>2
<1>3. Places' BY <1>2 DEF Places, Place
<1>4. TablesTyped' /\ StoreTyped' /\ exits' \in Nat
  BY DEF TInv, Starts, tables, TablesTyped, StoreTyped
<1>5. QED BY <1>1, <1>3, <1>4 DEF TInv

LEMMA Shifted ==
    ASSUME NEW q \in Seq(Int), NEW d \in Int
    PROVE  /\ Plus(q, d) \in Seq(Int)
           /\ q = <<>> => Plus(q, d) = <<>>
           /\ \A n \in Int : q = <<n>> => Plus(q, d) = <<n + d>>
<1> DEFINE w == Plus(q, d)
<1>1. Len(q) \in Nat /\ DOMAIN q = 1..Len(q) /\ \A i \in 1..Len(q) : q[i] \in Int
  BY LenProperties
<1>2. w = [i \in 1..Len(q) |-> q[i] + d] BY <1>1 DEF Plus
<1> HIDE DEF w
<1>3. w \in Seq(Int) /\ Len(w) = Len(q) /\ \A i \in 1..Len(q) : w[i] = q[i] + d
  BY <1>1, <1>2, IsASeq
<1>4. q = <<>> => w = <<>> BY <1>3, EmptySeq
<1>5. ASSUME NEW n \in Int, q = <<n>> PROVE w = <<n + d>>
  <2>1. Len(q) = 1 /\ q[1] = n BY <1>5
  <2>2. <<n + d>> \in Seq(Int) /\ Len(<<n + d>>) = 1 /\ <<n + d>>[1] = n + d OBVIOUS
  <2> DEFINE v == <<n + d>>
  <2> HIDE DEF v
  <2>3. v \in Seq(Int) /\ Len(v) = 1 /\ v[1] = n + d BY <2>2 DEF v
  <2>4. Len(w) = Len(v) /\ \A i \in 1..Len(w) : w[i] = v[i] BY <1>3, <2>1, <2>3
  <2>5. w = v BY <1>3, <2>3, <2>4, SeqEqual
  <2>6. QED BY <2>5 DEF v
<1>6. QED BY <1>3, <1>4, <1>5 DEF w

LEMMA WriteTyped ==
    ASSUME NEW S, NEW q \in Seq(S), NEW p \in Nat, NEW c \in S
    PROVE  WriteAt(q, p, c) \in Seq(S)
<1>1. CASE p = Len(q) BY <1>1, AppendProperties DEF WriteAt
<1>2. CASE p # Len(q)
  <2>1. Len(q) \in Nat /\ DOMAIN q = 1..Len(q) /\ \A i \in 1..Len(q) : q[i] \in S
    BY LenProperties, ElementOfSeq
  <2>2. WriteAt(q, p, c) = [i \in 1..Len(q) |-> IF i = p + 1 THEN c ELSE q[i]]
    BY <1>2, <2>1 DEF WriteAt
  <2>3. [i \in 1..Len(q) |-> IF i = p + 1 THEN c ELSE q[i]] \in Seq(S) BY <2>1, IsASeq
  <2>4. QED BY <2>2, <2>3
<1>3. QED BY <1>1, <1>2

\* The records of a content are all that changes.
LEMMA RealTyped ==
    ASSUME TInv, NEW m \in Md5s, NEW q \in Seq(Int), real' = [real EXCEPT ![m] = q],
           UNCHANGED <<file, nextId, store, exits>>, SessionsTyped', Places'
    PROVE  TInv'
<1>1. real' \in [Md5s -> Seq(Int)] BY DEF TInv, TablesTyped
<1>2. TablesTyped' BY <1>1 DEF TInv, TablesTyped
<1>3. QED BY <1>2 DEF TInv, StoreTyped

LEMMA TypedInit ==
    ASSUME Init
    PROVE  TInv
<1>1. PICK f \in [1..Cardinality(Preloaded) -> [name : Names, md5 : Md5s]] : file = f
  BY DEF Init
<1>2. IsFiniteSet(Preloaded) BY WorkloadAssumption
<1>3. Cardinality(Preloaded) \in Nat BY <1>2, FS_CardinalityType
<1>4. ASSUME NEW m \in Md5s
      PROVE  real[m] \in Seq(Int)
  <2> DEFINE c == Cardinality({p \in Preloaded : p[2] = m})
  <2>1. c \in Nat BY <1>2, FS_Subset, FS_CardinalityType
  <2>2. real[m] = IF c = 0 THEN <<>> ELSE <<c>> BY DEF Init
  <2> HIDE DEF c
  <2>3. QED BY <2>1, <2>2
<1>5. DOMAIN real = Md5s /\ real = [m \in Md5s |-> real[m]] BY DEF Init
<1>6. TablesTyped BY <1>1, <1>3, <1>4, <1>5 DEF Init, TablesTyped
<1>7. ASSUME NEW m \in Md5s PROVE Whole(m) \in Seq(1..Size(m))
  BY <1>7, WorkloadAssumption, IsASeq DEF Whole
<1>8. StoreTyped BY <1>7, EmptySeq DEF Init, StoreTyped
<1>9. SessionsTyped /\ Places BY NoRegTyped, EmptySeq DEF Init, SessionsTyped, Places, Place
<1>10. QED BY <1>6, <1>8, <1>9 DEF Init, TInv

\* A step of a command keeps the types.
LEMMA TypedBegin ==
    ASSUME TInv, NEW s \in Sessions, BeginUpload(s) \/ BeginRm(s) \/ BeginCp(s)
    PROVE  TInv'
<1>1. UpCheck \in Seq(Ops) /\ Resolve \in Seq(Ops)
  BY PlacesTyped DEF UploadTodos, RmTodos
<1>2. CASE BeginUpload(s)
  <2>1. PICK u \in Uploads :
            Starts(s, UpCheck, [NoReg EXCEPT !.cmd = "upload", !.name = u[1], !.md5 = u[2]])
    BY <1>2, BeginUploadFlow
  <2> DEFINE r == [NoReg EXCEPT !.cmd = "upload", !.name = u[1], !.md5 = u[2]]
  <2>2. u[1] \in Names /\ u[2] \in Md5s BY WorkloadAssumption
  <2>3. r \in Regs BY <2>2, NoRegTyped DEF NoReg, Regs, Cmds
  <2>4. r.cmd = "upload" /\ r.md5 \in Md5s /\ r.name \in Names BY <2>2 DEF NoReg
  <2> HIDE DEF r
  <2>5. Place(UpCheck, r) BY <2>4, UploadOps, RmOps DEF Place, UploadTodos
  <2>6. QED BY <1>1, <2>1, <2>3, <2>5, StartsTyped DEF r
<1>3. CASE BeginRm(s)
  <2>1. PICK n \in Removes : Starts(s, Resolve, [NoReg EXCEPT !.cmd = "rm", !.name = n])
    BY <1>3, BeginRmFlow
  <2> DEFINE r == [NoReg EXCEPT !.cmd = "rm", !.name = n]
  <2>2. n \in Names BY WorkloadAssumption
  <2>3. r \in Regs BY <2>2, NoRegTyped DEF NoReg, Regs, Cmds
  <2>4. r.cmd = "rm" /\ r.name \in Names BY <2>2 DEF NoReg
  <2> HIDE DEF r
  <2>5. Place(Resolve, r) BY <2>4, RmOps DEF Place, RmTodos
  <2>6. QED BY <1>1, <2>1, <2>3, <2>5, StartsTyped DEF r
<1>4. CASE BeginCp(s)
  <2>1. PICK c \in Copies :
            Starts(s, Resolve, [NoReg EXCEPT !.cmd = IF c[3] = "file" THEN "cp" ELSE "cpdir",
                                             !.name = c[1], !.src = c[2]])
    BY <1>4, BeginCpFlow
  <2> DEFINE r == [NoReg EXCEPT !.cmd = IF c[3] = "file" THEN "cp" ELSE "cpdir",
                                !.name = c[1], !.src = c[2]]
  <2>2. c[1] \in Names /\ c[2] \in Names BY WorkloadAssumption
  <2>3. r \in Regs BY <2>2, NoRegTyped DEF NoReg, Regs, Cmds
  <2>4. r.cmd \in {"cp", "cpdir"} /\ r.name \in Names /\ r.src \in Names BY <2>2 DEF NoReg
  <2> HIDE DEF r
  <2>5. Place(Resolve, r) BY <2>4, RmOps DEF Place, NewTodos, CpTodos, CpDirTodos
  <2>6. QED BY <1>1, <2>1, <2>3, <2>5, StartsTyped DEF r
<1>5. QED BY <1>2, <1>3, <1>4

LEMMA TypedResolve ==
    ASSUME TInv, NEW s \in Sessions, ResolveRm(s) \/ ResolveCp(s)
    PROVE  TInv'
<1>1. UNCHANGED <<tables, store, counters>> BY ResolveRmFlow, ResolveCpFlow
<1>2. SUFFICES SessionsTyped' /\ Places'
  BY <1>1 DEF TInv, TablesTyped, StoreTyped, tables, counters
<1>3. /\ RmLoad \in Seq(Ops) /\ NewLoad \in Seq(Ops) /\ CpLoad \in Seq(Ops)
      /\ DirSource \in Seq(Ops)
  BY PlacesTyped DEF RmTodos, NewTodos, CpTodos, CpDirTodos
<1>4. reg[s] \in Regs /\ reg[s].name \in Names
  <2>1. todo[s] # <<>> BY ResolveRmFlow, ResolveCpFlow, RmOps
  <2>2. QED BY <2>1 DEF TInv, SessionsTyped, Places, Place
<1>5. ASSUME NEW n, NEW i \in RowsOf(n) PROVE i \in Nat
  BY DEF RowsOf, TInv, TablesTyped
<1>6. CASE ResolveRm(s)
  <2>1. CASE Finish(s, reg[s], "fail") BY <2>1, FinishTyped
  <2>2. ASSUME NEW i \in RowsOf(reg[s].name), Goes(s, RmLoad, [reg[s] EXCEPT !.dst = i])
        PROVE  SessionsTyped' /\ Places'
    <3> DEFINE r == [reg[s] EXCEPT !.dst = i]
    <3>1. r \in Regs /\ r.cmd = "rm" /\ r.name \in Names
      BY <1>4, <1>5, <1>6, ResolveRmFlow DEF Regs
    <3> HIDE DEF r
    <3>2. Place(RmLoad, r) BY <3>1, RmOps DEF Place, RmTodos
    <3>3. QED BY <1>3, <2>2, <3>1, <3>2, GoesTyped DEF r
  <2>3. QED BY <1>6, <2>1, <2>2, ResolveRmFlow
<1>7. CASE ResolveCp(s)
  <2>1. CASE Finish(s, reg[s], "fail") BY <2>1, FinishTyped
  <2>2. reg[s].src \in Names /\ reg[s].cmd \in {"cp", "cpdir"} BY <1>7, ResolveCpFlow
  <2>3. ASSUME NEW i \in RowsOf(reg[s].name),
               Goes(s, NewLoad, [reg[s] EXCEPT !.name = reg[s].src, !.src = i])
        PROVE  SessionsTyped' /\ Places'
    <3> DEFINE r == [reg[s] EXCEPT !.name = reg[s].src, !.src = i]
    <3>1. r \in Regs /\ r.cmd \in {"cp", "cpdir"} /\ r.name \in Names
      BY <1>4, <1>5, <2>2 DEF Regs
    <3> HIDE DEF r
    <3>2. Place(NewLoad, r) BY <3>1, NewOps DEF Place, NewTodos, CpTodos, CpDirTodos
    <3>3. QED BY <1>3, <2>3, <3>1, <3>2, GoesTyped DEF r
  <2>4. ASSUME NEW i \in RowsOf(reg[s].name), NEW j \in RowsOf(reg[s].src),
               Goes(s, IF reg[s].cmd = "cp" THEN CpLoad ELSE DirSource,
                    [reg[s] EXCEPT !.name = reg[s].src, !.src = i, !.dst = j])
        PROVE  SessionsTyped' /\ Places'
    <3> DEFINE r == [reg[s] EXCEPT !.name = reg[s].src, !.src = i, !.dst = j]
    <3>1. r \in Regs /\ r.cmd = reg[s].cmd /\ r.name \in Names
      BY <1>4, <1>5, <2>2 DEF Regs
    <3> HIDE DEF r
    <3>2. r.cmd = "cp" => Place(CpLoad, r)
      BY <3>1, NewOps, CpOps DEF Place, CpTodos
    <3>3. r.cmd = "cpdir" => Place(DirSource, r)
      BY <3>1, NewOps, CpDirOps DEF Place, CpDirTodos
    <3>4. CASE r.cmd = "cp" BY <1>3, <2>4, <3>1, <3>2, <3>4, GoesTyped DEF r
    <3>5. CASE r.cmd = "cpdir"
      <4>1. Goes(s, DirSource, r) BY <2>4, <3>1, <3>5 DEF r
      <4>2. QED BY <1>3, <3>1, <3>3, <3>5, <4>1, GoesTyped
    <3>6. QED BY <2>2, <3>1, <3>4, <3>5
  <2>5. QED BY <1>7, <2>1, <2>3, <2>4, ResolveCpFlow
<1>8. QED BY <1>6, <1>7

LEMMA TypedLoad ==
    ASSUME TInv, NEW s \in Sessions, LoadSource(s) \/ LoadDestination(s)
    PROVE  TInv'
<1>1. UNCHANGED <<tables, store, exits>> BY SourceFlow, DestinationFlow
<1>2. SUFFICES SessionsTyped' /\ Places'
  BY <1>1 DEF TInv, TablesTyped, StoreTyped, tables
<1>3. CASE Fault BY <1>3, EndTyped DEF Fault
<1>4. CASE Finish(s, reg[s], "ok") BY <1>4, FinishTyped
<1>5. reg[s] \in Regs BY DEF TInv, SessionsTyped
<1>6. reg[s].name \in Names
  <2>1. todo[s] # <<>> BY SourceFlow, DestinationFlow, RmOps, NewOps, CpOps, CpDirOps
  <2>2. QED BY <2>1 DEF TInv, Places, Place
<1>7. ASSUME NEW i \in DOMAIN file
      PROVE  LET r == [reg[s] EXCEPT !.md5 = file[i].md5]
             IN  r \in Regs /\ r.md5 \in Md5s /\ r.cmd = reg[s].cmd /\ r.name \in Names
  <2>1. file[i].md5 \in Md5s BY DEF TInv, TablesTyped
  <2>2. QED BY <1>5, <1>6, <2>1 DEF Regs
<1>8. ASSUME NEW i \in DOMAIN file, NEW t,
             Goes(s, t, [reg[s] EXCEPT !.md5 = file[i].md5]),
             \/ reg[s].cmd = "rm" /\ t \in RmTodos
             \/ reg[s].cmd = "cp" /\ t \in CpTodos
             \/ reg[s].cmd = "cpdir" /\ t \in CpDirTodos,
             t # Resolve
      PROVE  SessionsTyped' /\ Places'
  <2> DEFINE r == [reg[s] EXCEPT !.md5 = file[i].md5]
  <2>1. r \in Regs /\ r.md5 \in Md5s /\ r.cmd = reg[s].cmd /\ r.name \in Names
    BY <1>7
  <2> HIDE DEF r
  <2>2. Place(t, r) BY <1>8, <2>1 DEF Place
  <2>3. t \in Seq(Ops) BY <1>8, PlacesTyped
  <2>4. QED BY <1>8, <2>1, <2>2, <2>3, GoesTyped DEF r
<1>9. /\ RmDec \in RmTodos /\ NewInsert \in CpTodos \cap CpDirTodos
      /\ CpDec \in CpTodos /\ CpUpdate \in CpTodos
      /\ DirInc \in CpDirTodos /\ DirDec \in CpDirTodos /\ DirUpdate \in CpDirTodos
      /\ {RmDec, NewInsert, CpDec, CpUpdate, DirInc, DirDec, DirUpdate} \cap {Resolve} = {}
  BY RmOps, NewOps, CpOps, CpDirOps DEF RmTodos, NewTodos, CpTodos, CpDirTodos
<1>10. CASE LoadSource(s)
  <2>1. CASE reg[s].src \in DOMAIN file BY <1>8, <1>9, <1>10, <2>1, SourceFlow
  <2>2. CASE reg[s].src \notin DOMAIN file BY <1>3, <1>10, <2>2, SourceFlow
  <2>3. QED BY <2>1, <2>2
<1>11. CASE LoadDestination(s)
  <2>1. CASE reg[s].dst \in DOMAIN file BY <1>8, <1>9, <1>11, <2>1, DestinationFlow
  <2>2. CASE reg[s].dst \notin DOMAIN file BY <1>3, <1>4, <1>11, <2>2, DestinationFlow
  <2>3. QED BY <2>1, <2>2
<1>12. QED BY <1>10, <1>11

\* A step that leaves the command, the name and the md5 as they are.
LEMMA StepTyped ==
    ASSUME TInv, NEW s \in Sessions, NEW t, NEW r \in Regs, Goes(s, t, r),
           todo[s] # <<>>, reg[s].md5 \in Md5s, t # Resolve,
           r.cmd = reg[s].cmd /\ r.name = reg[s].name /\ r.md5 = reg[s].md5,
           \/ reg[s].cmd = "upload" /\ t \in UploadTodos
           \/ reg[s].cmd = "rm" /\ t \in RmTodos
           \/ reg[s].cmd = "cp" /\ t \in CpTodos
           \/ reg[s].cmd = "cpdir" /\ t \in CpDirTodos
    PROVE  SessionsTyped' /\ Places'
<1>1. reg[s].name \in Names BY DEF TInv, Places, Place
<1>2. Place(t, r) BY <1>1 DEF Place
<1>3. t \in Seq(Ops) BY PlacesTyped
<1>4. QED BY <1>2, <1>3, GoesTyped

LEMMA TypedCount ==
    ASSUME TInv, NEW s \in Sessions,
           IncCount(s) \/ DecCount(s) \/ ReadCount(s) \/ DropReal(s)
    PROVE  TInv'
<1>1. /\ {RmRead, RmDrop, RmRow} \subseteq RmTodos
      /\ {CpRead, CpDrop, CpSource} \subseteq CpTodos
      /\ {DirLoad, DirRead, DirDrop, DirReload} \subseteq CpDirTodos
      /\ Resolve \notin {RmRead, RmDrop, RmRow, CpRead, CpDrop, CpSource, DirLoad, DirRead,
                         DirDrop, DirReload}
  BY RmOps, NewOps, CpOps, CpDirOps DEF RmTodos, CpTodos, CpDirTodos
<1>2. <<>> \notin {Inc, DirInc, RmDec, CpDec, DirDec, RmRead, CpRead, DirRead, RmDrop, CpDrop,
                   DirDrop}
  BY RmOps, NewOps, CpOps, CpDirOps
<1>3. reg[s] \in Regs BY DEF TInv, SessionsTyped
<1>4. ASSUME NEW m \in Md5s PROVE real[m] \in Seq(Int)
  BY DEF TInv, TablesTyped
<1>5. CASE IncCount(s)
  <2>1. SessionsTyped' /\ Places'
    <3>1. CASE Finish(s, reg[s], "ok") BY <3>1, FinishTyped
    <3>2. CASE reg[s].cmd = "cpdir" /\ todo[s] = DirInc /\ Goes(s, DirLoad, reg[s])
      BY <1>1, <1>2, <1>3, <1>5, <3>2, IncFlow, StepTyped
    <3>3. QED BY <1>5, <3>1, <3>2, IncFlow
  <2> DEFINE m == reg[s].md5
             q == Plus(real[m], 1)
  <2>2. m \in Md5s /\ q \in Seq(Int)
    <3>1. m \in Md5s BY <1>5, IncFlow
    <3>2. real[m] \in Seq(Int) BY <1>4, <3>1
    <3> HIDE DEF m
    <3>3. \A d \in Int : Plus(real[m], d) \in Seq(Int) BY <3>2, Shifted
    <3>4. QED BY <3>1, <3>3
  <2>3. real' = [real EXCEPT ![m] = q] /\ UNCHANGED <<file, nextId, store, exits>>
    BY <1>5, IncFlow DEF counters
  <2> HIDE DEF m, q
  <2>4. QED BY <2>1, <2>2, <2>3, RealTyped
<1>6. CASE DecCount(s)
  <2>1. SessionsTyped' /\ Places'
    BY <1>1, <1>2, <1>3, <1>6, DecFlow, StepTyped
  <2> DEFINE m == reg[s].md5
             q == Plus(real[m], -1)
  <2>2. m \in Md5s /\ q \in Seq(Int)
    <3>1. m \in Md5s BY <1>6, DecFlow
    <3>2. real[m] \in Seq(Int) BY <1>4, <3>1
    <3> HIDE DEF m
    <3>3. \A d \in Int : Plus(real[m], d) \in Seq(Int) BY <3>2, Shifted
    <3>4. QED BY <3>1, <3>3
  <2>3. real' = [real EXCEPT ![m] = q] /\ UNCHANGED <<file, nextId, store, exits>>
    BY <1>6, DecFlow DEF counters
  <2> HIDE DEF m, q
  <2>4. QED BY <2>1, <2>2, <2>3, RealTyped
<1>7. CASE ReadCount(s)
  <2>1. SessionsTyped' /\ Places'
    <3>1. CASE Finish(s, reg[s], "ok") BY <3>1, FinishTyped
    <3>2. CASE Fault BY <3>2, EndTyped DEF Fault
    <3>3. CASE \/ /\ reg[s].cmd = "rm" /\ todo[s] = RmRead
                  /\ Goes(s, RmDrop, reg[s]) \/ Goes(s, RmRow, reg[s])
               \/ /\ reg[s].cmd = "cp" /\ todo[s] = CpRead
                  /\ Goes(s, CpDrop, reg[s]) \/ Goes(s, CpSource, reg[s])
               \/ /\ reg[s].cmd = "cpdir" /\ todo[s] = DirRead
                  /\ Goes(s, DirDrop, reg[s]) \/ Goes(s, DirReload, reg[s])
      <4>1. reg[s].md5 \in Md5s BY <1>7, ReadFlow
      <4>2. QED BY <1>1, <1>2, <1>3, <3>3, <4>1, StepTyped
    <3>4. QED BY <1>7, <3>1, <3>2, <3>3, ReadFlow
  <2>2. UNCHANGED <<tables, store, exits>> BY <1>7, ReadFlow
  <2>3. QED BY <2>1, <2>2 DEF TInv, TablesTyped, StoreTyped, tables
<1>8. CASE DropReal(s)
  <2>1. SessionsTyped' /\ Places'
    BY <1>1, <1>2, <1>3, <1>8, DropFlow, StepTyped
  <2>2. reg[s].md5 \in Md5s /\ <<>> \in Seq(Int) BY <1>8, DropFlow, EmptySeq
  <2>3. real' = [real EXCEPT ![reg[s].md5] = <<>>] /\ UNCHANGED <<file, nextId, store, exits>>
    BY <1>8, DropFlow DEF counters
  <2>4. QED BY <2>1, <2>2, <2>3, RealTyped
<1>9. QED BY <1>5, <1>6, <1>7, <1>8

LEMMA TypedRow ==
    ASSUME TInv, NEW s \in Sessions, InsertRow(s) \/ UpdateRow(s) \/ DeleteRow(s)
    PROVE  TInv'
<1>1. /\ Inc \in UploadTodos \cap CpTodos \cap CpDirTodos /\ UpNew \in UploadTodos
      /\ Resolve \notin {Inc, UpNew}
      /\ <<>> \notin {NewInsert, UpInsert, CpUpdate}
  BY UploadOps, RmOps, NewOps, CpOps DEF UploadTodos, NewTodos, CpTodos, CpDirTodos
<1>2. reg[s] \in Regs /\ reg[s].md5 \in Md5s
  BY InsertFlow, UpdateFlow, DeleteFlow DEF TInv, SessionsTyped
<1>3. /\ nextId \in Nat \ {0} /\ DOMAIN file \subseteq 1..(nextId - 1)
      /\ \A i \in DOMAIN file : file[i] \in [name : Names, md5 : Md5s]
  BY DEF TInv, TablesTyped
<1>4. UNCHANGED <<real, store, exits>> BY InsertFlow, UpdateFlow, DeleteFlow DEF counters
<1>5. SUFFICES /\ SessionsTyped' /\ Places'
               /\ nextId' \in Nat \ {0} /\ DOMAIN file' \subseteq 1..(nextId' - 1)
               /\ \A i \in DOMAIN file' : file'[i] \in [name : Names, md5 : Md5s]
  BY <1>4 DEF TInv, TablesTyped, StoreTyped
<1>6. CASE InsertRow(s)
  <2> DEFINE r == [reg[s] EXCEPT !.dst = nextId]
  <2>1. /\ r \in Regs /\ r.cmd = reg[s].cmd /\ r.name = reg[s].name /\ r.md5 = reg[s].md5
    BY <1>2, <1>3 DEF Regs
  <2>2. /\ reg[s].name \in Names
        /\ file' = [i \in DOMAIN file \cup {nextId} |->
                       IF i = nextId THEN [name |-> reg[s].name, md5 |-> reg[s].md5] ELSE file[i]]
        /\ nextId' = nextId + 1
        /\ \/ /\ reg[s].cmd \in {"upload", "cp", "cpdir"} /\ todo[s] = NewInsert
              /\ Goes(s, Inc, r)
           \/ reg[s].cmd = "upload" /\ todo[s] = UpInsert /\ Goes(s, UpNew, r)
    BY <1>6, InsertFlow
  <2> HIDE DEF r
  <2>3. SessionsTyped' /\ Places' BY <1>1, <1>2, <2>1, <2>2, StepTyped
  <2>4. QED BY <1>2, <1>3, <2>2, <2>3
<1>7. CASE UpdateRow(s)
  <2>1. SessionsTyped' /\ Places' BY <1>1, <1>2, <1>7, UpdateFlow, StepTyped, FinishTyped
  <2>2. /\ file' = [i \in DOMAIN file |->
                       IF i = reg[s].dst THEN [file[i] EXCEPT !.md5 = reg[s].md5] ELSE file[i]]
        /\ nextId' = nextId
    BY <1>7, UpdateFlow
  <2>3. QED BY <1>2, <1>3, <2>1, <2>2
<1>8. CASE DeleteRow(s)
  <2>1. SessionsTyped' /\ Places' BY <1>8, DeleteFlow, FinishTyped
  <2>2. /\ file' = [i \in DOMAIN file \ {reg[s].dst} |-> file[i]] /\ nextId' = nextId
    BY <1>8, DeleteFlow
  <2>3. QED BY <1>3, <2>1, <2>2
<1>9. QED BY <1>6, <1>7, <1>8

LEMMA TypedUpload ==
    ASSUME TInv, NEW s \in Sessions,
           CheckName(s) \/ StatExisting(s) \/ SendOffset(s) \/ LookupReal(s)
    PROVE  TInv'
<1>1. /\ {UpStat, UpOffset, UpLookup, NewInsert, UpInsert, UpSeek} \subseteq UploadTodos
      /\ Resolve \notin {UpStat, UpOffset, UpLookup, NewInsert, UpInsert, UpSeek}
      /\ <<>> \notin {UpCheck, UpStat, UpOffset, UpLookup}
  BY UploadOps, RmOps DEF UploadTodos
<1>2. UNCHANGED <<tables, store, exits>>
  BY CheckFlow, StatFlow, OffsetFlow, LookupFlow DEF counters
<1>3. reg[s].cmd = "upload" /\ todo[s] \in {UpCheck, UpStat, UpOffset, UpLookup}
  BY CheckFlow, StatFlow, OffsetFlow, LookupFlow
<1>4. reg[s] \in Regs /\ reg[s].md5 \in Md5s
  BY <1>1, <1>3 DEF TInv, SessionsTyped, Places, Place
<1>5. SUFFICES SessionsTyped' /\ Places'
  BY <1>2 DEF TInv, TablesTyped, StoreTyped, tables
<1>6. CASE CheckName(s) BY <1>1, <1>3, <1>4, <1>6, CheckFlow, StepTyped
<1>7. CASE StatExisting(s) BY <1>1, <1>3, <1>4, <1>7, StatFlow, StepTyped, FinishTyped
<1>8. CASE SendOffset(s)
  <2> DEFINE n == Len(store[reg[s].md5])
             r == [reg[s] EXCEPT !.size = n]
  <2>1. n \in Nat BY <1>4, LenProperties DEF TInv, StoreTyped
  <2> HIDE DEF n
  <2>2. r \in Regs /\ r.cmd = reg[s].cmd /\ r.name = reg[s].name /\ r.md5 = reg[s].md5
    BY <1>4, <2>1 DEF Regs
  <2>3. Goes(s, UpLookup, r) BY <1>8, OffsetFlow DEF n
  <2> HIDE DEF r
  <2>4. QED BY <1>1, <1>3, <1>4, <2>2, <2>3, StepTyped
<1>9. CASE LookupReal(s)
  <2> DEFINE b == (real[reg[s].md5] # <<>>)
             r == [reg[s] EXCEPT !.ret = b]
  <2>1. b \in BOOLEAN OBVIOUS
  <2>2. Goes(s, NewInsert, r) \/ Goes(s, UpInsert, r) \/ Goes(s, UpSeek, r)
    BY <1>9, LookupFlow
  <2> HIDE DEF b
  <2>3. r \in Regs /\ r.cmd = reg[s].cmd /\ r.name = reg[s].name /\ r.md5 = reg[s].md5
    BY <1>4, <2>1 DEF Regs
  <2> HIDE DEF r
  <2>4. QED BY <1>1, <1>3, <1>4, <2>2, <2>3, StepTyped
<1>10. QED BY <1>6, <1>7, <1>8, <1>9

LEMMA TypedTransfer ==
    ASSUME TInv, NEW s \in Sessions,
           InsertReal(s) \/ SeekEnd(s) \/ Receive(s) \/ Lose(s)
    PROVE  TInv'
<1>1. /\ {UpSeek, UpRecv} \subseteq UploadTodos /\ Resolve \notin {UpSeek, UpRecv}
      /\ <<>> \notin {UpNew, UpSeek, UpRecv}
  BY UploadOps, RmOps DEF UploadTodos
<1>2. reg[s].cmd = "upload" /\ todo[s] \in {UpNew, UpSeek, UpRecv} /\ reg[s].md5 \in Md5s
  BY InsertRealFlow, SeekFlow, ReceiveFlow, LoseFlow
<1>3. reg[s] \in Regs BY DEF TInv, SessionsTyped
<1>4. CASE InsertReal(s)
  <2>1. SessionsTyped' /\ Places' BY <1>1, <1>2, <1>3, <1>4, InsertRealFlow, StepTyped
  <2> DEFINE m == reg[s].md5
             q == Append(real[m], 1)
  <2>2. real[m] \in Seq(Int) BY <1>2 DEF TInv, TablesTyped
  <2>3. q \in Seq(Int) BY <2>2, AppendProperties
  <2>4. real' = [real EXCEPT ![m] = q] /\ UNCHANGED <<file, nextId, store, exits>>
    BY <1>4, InsertRealFlow DEF counters
  <2> HIDE DEF q
  <2>5. QED BY <1>2, <2>1, <2>3, <2>4, RealTyped
<1>5. CASE SeekEnd(s)
  <2> DEFINE n == Len(store[reg[s].md5])
             r == [reg[s] EXCEPT !.pos = n]
  <2>1. n \in Nat BY <1>2, LenProperties DEF TInv, StoreTyped
  <2> HIDE DEF n
  <2>2. r \in Regs /\ r.cmd = reg[s].cmd /\ r.name = reg[s].name /\ r.md5 = reg[s].md5
    BY <1>3, <2>1 DEF Regs
  <2>3. Goes(s, UpRecv, r) BY <1>5, SeekFlow DEF n
  <2> HIDE DEF r
  <2>4. SessionsTyped' /\ Places' BY <1>1, <1>2, <2>2, <2>3, StepTyped
  <2>5. UNCHANGED <<tables, store, exits>> BY <1>5, SeekFlow DEF counters
  <2>6. QED BY <2>4, <2>5 DEF TInv, TablesTyped, StoreTyped, tables
<1>6. CASE Receive(s)
  <2>1. UNCHANGED <<tables, exits>> BY <1>6, ReceiveFlow DEF counters
  <2>2. CASE UNCHANGED store /\ Finish(s, reg[s], "ok")
    <3>1. SessionsTyped' /\ Places' BY <2>2, FinishTyped
    <3>2. QED BY <2>1, <2>2, <3>1 DEF TInv, TablesTyped, StoreTyped, tables
  <2>3. ASSUME reg[s].got < Size(reg[s].md5) - reg[s].size,
               store' = [store EXCEPT ![reg[s].md5] =
                            WriteAt(@, reg[s].pos, reg[s].size + reg[s].got + 1)],
               Goes(s, UpRecv, [reg[s] EXCEPT !.pos = @ + 1, !.got = @ + 1])
        PROVE  TInv'
    <3> DEFINE r == [reg[s] EXCEPT !.pos = @ + 1, !.got = @ + 1]
               m == reg[s].md5
               c == reg[s].size + reg[s].got + 1
               w == WriteAt(store[m], reg[s].pos, c)
    <3>1. r \in Regs /\ r.cmd = reg[s].cmd /\ r.name = reg[s].name /\ r.md5 = reg[s].md5
      <4>1. reg[s].pos + 1 \in Nat /\ reg[s].got + 1 \in Nat BY <1>3 DEF Regs
      <4>2. \A a, b \in Nat : [reg[s] EXCEPT !.pos = a, !.got = b] \in Regs
        BY <1>3 DEF Regs
      <4>3. r \in Regs BY <4>1, <4>2
      <4>4. QED BY <1>3, <4>3 DEF Regs
    <3> HIDE DEF r
    <3>2. SessionsTyped' /\ Places' BY <1>1, <1>2, <2>3, <3>1, StepTyped DEF r
    <3>3. c \in 1..Size(m)
      <4>1. Size(m) \in Nat BY <1>2, WorkloadAssumption
      <4>2. reg[s].got \in Nat /\ reg[s].size \in Nat BY <1>3 DEF Regs
      <4>3. QED BY <2>3, <4>1, <4>2
    <3>4. store[m] \in Seq(1..Size(m)) /\ reg[s].pos \in Nat
      BY <1>2, <1>3 DEF TInv, StoreTyped, Regs
    <3>5. w \in Seq(1..Size(m))
      <4> HIDE DEF c, m
      <4>1. QED BY <3>3, <3>4, WriteTyped
    <3>6. store' = [store EXCEPT ![m] = w] BY <2>3
    <3> HIDE DEF w, c
    <3>7. StoreTyped' BY <1>2, <3>5, <3>6 DEF TInv, StoreTyped
    <3>8. QED BY <2>1, <3>2, <3>7 DEF TInv, TablesTyped, tables
  <2>4. QED BY <1>6, <2>2, <2>3, ReceiveFlow
<1>7. CASE Lose(s)
  <2>1. SessionsTyped' /\ Places' BY <1>7, LoseFlow, FinishTyped
  <2>2. UNCHANGED <<tables, store, exits>> BY <1>7, LoseFlow
  <2>3. QED BY <2>1, <2>2 DEF TInv, TablesTyped, StoreTyped, tables
<1>8. QED BY <1>4, <1>5, <1>6, <1>7

LEMMA TypedNext ==
    ASSUME TInv, [Next]_vars
    PROVE  TInv'
<1>1. CASE UNCHANGED vars
  BY <1>1 DEF TInv, TablesTyped, StoreTyped, SessionsTyped, Places, Place, vars, tables, session,
              counters
<1>2. CASE Exit
  <2>1. SessionsTyped' /\ Places' BY <1>2, EndTyped DEF Exit
  <2>2. exits' \in Nat /\ UNCHANGED <<tables, store>> BY <1>2 DEF Exit, TInv
  <2>3. QED BY <2>1, <2>2 DEF TInv, TablesTyped, StoreTyped, tables
<1>3. ASSUME NEW s \in Sessions, Step(s)
      PROVE  TInv'
  BY <1>3, TypedBegin, TypedResolve, TypedLoad, TypedCount, TypedRow, TypedUpload,
     TypedTransfer DEF Step
<1>4. QED BY <1>1, <1>2, <1>3 DEF Next

\* The places and types are kept by every step, whatever the sessions do.
THEOREM Typed == Spec => []TInv
BY TypedInit, TypedNext, PTL DEF Spec

\* The types: every id comes from the auto-increment, a count and a chunk are what they
\* should be, and a command is a sequence of its steps.
THEOREM TypeCorrect == Spec => []TypeOK
<1>1. ASSUME TInv PROVE TypeOK
  BY <1>1 DEF TInv, TablesTyped, StoreTyped, SessionsTyped, Regs, Replies, TypeOK
<1>2. QED BY <1>1, Typed, PTL

-----------------------------------------------------------------------------
(***************************************************************************)
(* The real files, if a content is uploaded in one session at a time.      *)
(***************************************************************************)
\* No two sessions may be asked to upload the same content.
Sole == \A s, t \in Sessions : s # t =>
            \A u, v \in Uploads : u[1] \in NamesOf(s) /\ v[1] \in NamesOf(t) => u[2] # v[2]

\* The beginning of a content.
Prefix(m) == Len(store[m]) <= Size(m) /\ \A i \in 1..Len(store[m]) : store[m][i] = i

\* Once an upload has looked at the length of the real file, it accounts for every
\* chunk there is, and writes after the last one.
Uploading(s, t, r) ==
    t # <<>> /\ r.cmd = "upload" =>
        /\ <<r.name, r.md5>> \in Uploads /\ r.name \in NamesOf(s)
        /\ t \in {UpCheck, UpStat, UpOffset} \/ r.size + r.got = Len(store[r.md5])
        /\ t = UpRecv => r.pos = Len(store[r.md5])
        /\ t \in {NewInsert, Inc} => r.size = Size(r.md5)
        /\ t = UpRecv \/ r.got = 0

SInv == StoredPrefix /\ UploadStored /\ \A s \in Sessions : Uploading(s, todo[s], reg[s])

LEMMA LongIsWhole ==
    ASSUME TInv, StoredPrefix, NEW m \in Md5s, Len(store[m]) >= Size(m)
    PROVE  store[m] = Whole(m)
<1> DEFINE q == store[m]
<1>1. q \in Seq(1..Size(m)) BY DEF TInv, StoreTyped
<1>2. Len(q) \in Nat /\ Size(m) \in Nat BY <1>1, LenProperties, WorkloadAssumption
<1>3. Len(q) = Size(m) /\ \A i \in 1..Len(q) : q[i] = i BY <1>2 DEF StoredPrefix
<1>4. Whole(m) \in Seq(1..Size(m)) /\ Len(Whole(m)) = Size(m)
      /\ \A i \in 1..Size(m) : Whole(m)[i] = i
  BY <1>2, IsASeq DEF Whole
<1> HIDE DEF q
<1>5. q = Whole(m) BY <1>1, <1>3, <1>4, SeqEqual
<1>6. QED BY <1>5 DEF q

\* The steps that leave the real files alone.
LEMMA StoreGoes ==
    ASSUME SInv, TInv, NEW s \in Sessions, NEW t, NEW r, Goes(s, t, r), Uploading(s, t, r),
           UNCHANGED store
    PROVE  SInv'
<1>1. ASSUME NEW x \in Sessions PROVE Uploading(x, todo[x], reg[x])'
  <2>1. CASE x = s BY <2>1 DEF TInv, SessionsTyped, Goes, Uploading
  <2>2. CASE x # s BY <2>2 DEF TInv, SessionsTyped, SInv, Goes, Uploading
  <2>3. QED BY <2>1, <2>2
<1>2. StoredPrefix' BY DEF SInv, StoredPrefix
<1>3. UploadStored' BY DEF SInv, UploadStored, Goes
<1>4. QED BY <1>1, <1>2, <1>3 DEF SInv

LEMMA StoreFinish ==
    ASSUME SInv, TInv, NEW s \in Sessions, NEW a, Finish(s, reg[s], a),
           reg[s].cmd = "upload" /\ a \in {"ok", "existing"}
               => store[reg[s].md5] = Whole(reg[s].md5),
           UNCHANGED store
    PROVE  SInv'
<1>1. ASSUME NEW x \in Sessions PROVE Uploading(x, todo[x], reg[x])'
  <2>1. CASE x = s BY <2>1 DEF TInv, SessionsTyped, Finish, Uploading
  <2>2. CASE x # s BY <2>2 DEF TInv, SessionsTyped, SInv, Finish, Uploading
  <2>3. QED BY <2>1, <2>2
<1>2. StoredPrefix' BY DEF SInv, StoredPrefix
<1>3. ASSUME NEW x \in Sessions, reply'[x].cmd = "upload",
             reply'[x].answer \in {"ok", "existing"}
      PROVE  store'[reply'[x].md5] = Whole(reply'[x].md5)
  <2>1. CASE x = s BY <1>3, <2>1 DEF TInv, SessionsTyped, Finish, Answer
  <2>2. CASE x # s BY <1>3, <2>2 DEF TInv, SessionsTyped, SInv, UploadStored, Finish
  <2>3. QED BY <2>1, <2>2
<1>4. UploadStored' BY <1>3 DEF UploadStored, Whole
<1>5. QED BY <1>1, <1>2, <1>4 DEF SInv

LEMMA StoreEnd ==
    ASSUME SInv, AllSessionsEnd, UNCHANGED store
    PROVE  SInv'
<1>1. ASSUME NEW x \in Sessions PROVE Uploading(x, todo[x], reg[x])'
  BY DEF AllSessionsEnd, Uploading
<1>2. StoredPrefix' BY DEF SInv, StoredPrefix
<1>3. UploadStored' BY DEF AllSessionsEnd, NoReply, UploadStored
<1>4. QED BY <1>1, <1>2, <1>3 DEF SInv

LEMMA StoreStarts ==
    ASSUME SInv, TInv, NEW s \in Sessions, NEW t, NEW r, Starts(s, t, r), Uploading(s, t, r)
    PROVE  SInv'
<1>1. ASSUME NEW x \in Sessions PROVE Uploading(x, todo[x], reg[x])'
  <2>1. CASE x = s BY <2>1 DEF TInv, SessionsTyped, Starts, Uploading
  <2>2. CASE x # s BY <2>2 DEF TInv, SessionsTyped, SInv, Starts, Uploading
  <2>3. QED BY <2>1, <2>2
<1>2. StoredPrefix' BY DEF SInv, StoredPrefix, Starts
<1>3. UploadStored'
  <2>1. ASSUME NEW x \in Sessions, reply'[x].cmd = "upload",
               reply'[x].answer \in {"ok", "existing"}
        PROVE  store'[reply'[x].md5] = Whole(reply'[x].md5)
    <3>1. CASE x = s BY <2>1, <3>1 DEF TInv, SessionsTyped, Starts, NoReply
    <3>2. CASE x # s BY <2>1, <3>2 DEF TInv, SessionsTyped, SInv, UploadStored, Starts
    <3>3. QED BY <3>1, <3>2
  <2>2. QED BY <2>1 DEF UploadStored, Whole
<1>4. QED BY <1>1, <1>2, <1>3 DEF SInv

\* The places of an upload, told apart.
LEMMA UploadPlaces ==
    /\ {UpLookup, UpInsert, UpNew, UpSeek, UpRecv, NewInsert, Inc} \cap {UpCheck, UpStat, UpOffset}
           = {}
    /\ UpRecv \notin {UpCheck, UpStat, UpOffset, UpLookup, UpInsert, UpNew, UpSeek, NewInsert, Inc}
    /\ {UpCheck, UpStat, UpOffset, UpLookup, UpInsert, UpNew, UpSeek, UpRecv} \cap {NewInsert, Inc}
           = {}
    /\ <<>> \notin UploadTodos
<1>1. UpInsert # NewInsert BY UploadOps, NewOps
<1>2. QED BY SMTT(30), <1>1, UploadOps, NewOps DEF UploadTodos

LEMMA StoreBegin ==
    ASSUME SInv, TInv, NEW s \in Sessions, BeginUpload(s) \/ BeginRm(s) \/ BeginCp(s)
    PROVE  SInv'
<1>1. CASE BeginUpload(s)
  <2>1. PICK u \in Uploads :
            /\ u[1] \in NamesOf(s)
            /\ Starts(s, UpCheck, [NoReg EXCEPT !.cmd = "upload", !.name = u[1], !.md5 = u[2]])
    BY <1>1, BeginUploadFlow
  <2> DEFINE r == [NoReg EXCEPT !.cmd = "upload", !.name = u[1], !.md5 = u[2]]
  <2>2. u = <<u[1], u[2]>> BY WorkloadAssumption
  <2>3. r.name = u[1] /\ r.md5 = u[2] /\ r.got = 0 BY DEF NoReg
  <2> HIDE DEF r
  <2>4. Uploading(s, UpCheck, r) BY <2>1, <2>2, <2>3, UploadPlaces DEF Uploading
  <2>5. QED BY <2>1, <2>4, StoreStarts DEF r
<1>2. CASE BeginRm(s)
  <2>1. PICK n : Starts(s, Resolve, [NoReg EXCEPT !.cmd = "rm", !.name = n])
    BY <1>2, BeginRmFlow
  <2>2. Uploading(s, Resolve, [NoReg EXCEPT !.cmd = "rm", !.name = n]) BY DEF Uploading, NoReg
  <2>3. QED BY <2>1, <2>2, StoreStarts
<1>3. CASE BeginCp(s)
  <2>1. PICK c : Starts(s, Resolve, [NoReg EXCEPT !.cmd = IF c[3] = "file" THEN "cp" ELSE "cpdir",
                                                  !.name = c[1], !.src = c[2]])
    BY <1>3, BeginCpFlow
  <2>2. Uploading(s, Resolve, [NoReg EXCEPT !.cmd = IF c[3] = "file" THEN "cp" ELSE "cpdir",
                                            !.name = c[1], !.src = c[2]])
    BY DEF Uploading, NoReg
  <2>3. QED BY <2>1, <2>2, StoreStarts
<1>4. QED BY <1>1, <1>2, <1>3

\* rm and cp go on: the real files and the uploads are as they were.
LEMMA StoreOther ==
    ASSUME SInv, TInv, NEW s \in Sessions, UNCHANGED store, reg[s].cmd # "upload",
           \/ \E t, r : r.cmd = reg[s].cmd /\ Goes(s, t, r)
           \/ \E a : Finish(s, reg[s], a)
           \/ Fault
    PROVE  SInv'
<1>1. ASSUME NEW t, NEW r, r.cmd = reg[s].cmd, Goes(s, t, r) PROVE SInv'
  <2>1. Uploading(s, t, r) BY <1>1 DEF Uploading
  <2>2. QED BY <1>1, <2>1, StoreGoes
<1>2. ASSUME NEW a, Finish(s, reg[s], a) PROVE SInv'
  BY <1>2, StoreFinish
<1>3. CASE Fault BY <1>3, StoreEnd DEF Fault
<1>4. QED BY <1>1, <1>2, <1>3

LEMMA StoreRmCp ==
    ASSUME SInv, TInv, NEW s \in Sessions,
           \/ ResolveRm(s) \/ ResolveCp(s) \/ LoadSource(s) \/ LoadDestination(s)
           \/ DecCount(s) \/ ReadCount(s) \/ DropReal(s) \/ UpdateRow(s) \/ DeleteRow(s)
    PROVE  SInv'
<1>1. reg[s] \in Regs BY DEF TInv, SessionsTyped
<1>2. CASE ResolveRm(s)
  <2>1. ASSUME NEW i PROVE [reg[s] EXCEPT !.dst = i].cmd = reg[s].cmd BY <1>1 DEF Regs
  <2>2. reg[s].cmd # "upload" /\ UNCHANGED store BY <1>2, ResolveRmFlow
  <2>3. CASE Finish(s, reg[s], "fail") BY <2>2, <2>3, StoreOther
  <2>4. ASSUME NEW i, Goes(s, RmLoad, [reg[s] EXCEPT !.dst = i]) PROVE SInv'
    BY <2>1, <2>2, <2>4, StoreOther
  <2>5. QED BY <1>2, <2>3, <2>4, ResolveRmFlow
<1>3. CASE ResolveCp(s)
  <2>1. ASSUME NEW n, NEW i, NEW j
        PROVE  /\ [reg[s] EXCEPT !.name = n, !.src = i].cmd = reg[s].cmd
               /\ [reg[s] EXCEPT !.name = n, !.src = i, !.dst = j].cmd = reg[s].cmd
    BY <1>1 DEF Regs
  <2>2. reg[s].cmd # "upload" /\ UNCHANGED store BY <1>3, ResolveCpFlow
  <2>3. CASE Finish(s, reg[s], "fail") BY <2>2, <2>3, StoreOther
  <2>4. ASSUME NEW i, Goes(s, NewLoad, [reg[s] EXCEPT !.name = reg[s].src, !.src = i])
        PROVE  SInv'
    BY <2>1, <2>2, <2>4, StoreOther
  <2>5. ASSUME NEW t, NEW i, NEW j,
               Goes(s, t, [reg[s] EXCEPT !.name = reg[s].src, !.src = i, !.dst = j])
        PROVE  SInv'
    <3> DEFINE r == [reg[s] EXCEPT !.name = reg[s].src, !.src = i, !.dst = j]
    <3>1. r.cmd = reg[s].cmd BY <2>1
    <3> HIDE DEF r
    <3>2. Goes(s, t, r) BY <2>5 DEF r
    <3>3. QED BY <2>2, <3>1, <3>2, StoreOther
  <2>6. QED BY <1>3, <2>3, <2>4, <2>5, ResolveCpFlow
<1>4. ASSUME NEW m PROVE [reg[s] EXCEPT !.md5 = m].cmd = reg[s].cmd BY <1>1 DEF Regs
<1>5. CASE LoadSource(s)
  <2>1. UNCHANGED store BY <1>5, SourceFlow
  <2>2. CASE Fault BY <2>1, <2>2, StoreEnd DEF Fault
  <2>3. CASE reg[s].src \in DOMAIN file
    <3> DEFINE r == [reg[s] EXCEPT !.md5 = file[reg[s].src].md5]
    <3>1. r.cmd = reg[s].cmd BY <1>4
    <3> HIDE DEF r
    <3>2. reg[s].cmd # "upload" /\ \E t : Goes(s, t, r) BY <1>5, <2>3, SourceFlow DEF r
    <3>3. QED BY <2>1, <3>1, <3>2, StoreOther
  <2>4. QED BY <1>5, <2>2, <2>3, SourceFlow
<1>6. CASE LoadDestination(s)
  <2>1. UNCHANGED store BY <1>6, DestinationFlow
  <2>2. CASE Fault BY <2>1, <2>2, StoreEnd DEF Fault
  <2>3. CASE reg[s].dst \in DOMAIN file
    <3> DEFINE r == [reg[s] EXCEPT !.md5 = file[reg[s].dst].md5]
    <3>1. r.cmd = reg[s].cmd BY <1>4
    <3> HIDE DEF r
    <3>2. reg[s].cmd # "upload" /\ \E t : Goes(s, t, r) BY <1>6, <2>3, DestinationFlow DEF r
    <3>3. QED BY <2>1, <3>1, <3>2, StoreOther
  <2>4. CASE reg[s].cmd = "rm" /\ Finish(s, reg[s], "ok") BY <2>1, <2>4, StoreOther
  <2>5. QED BY <1>6, <2>2, <2>3, <2>4, DestinationFlow
<1>7. CASE DecCount(s) BY <1>7, DecFlow, StoreOther
<1>8. CASE ReadCount(s)
  <2>1. UNCHANGED store /\ (reg[s].cmd # "upload" \/ Fault) BY <1>8, ReadFlow
  <2>2. \/ \E t : Goes(s, t, reg[s])
        \/ Finish(s, reg[s], "ok")
        \/ Fault
    BY <1>8, ReadFlow
  <2>3. CASE Fault BY <2>1, <2>3, StoreEnd DEF Fault
  <2>4. QED BY <2>1, <2>2, <2>3, StoreOther
<1>9. CASE DropReal(s) BY <1>9, DropFlow, StoreOther
<1>10. CASE UpdateRow(s) BY <1>10, UpdateFlow, StoreOther
<1>11. CASE DeleteRow(s) BY <1>11, DeleteFlow, StoreOther
<1>12. QED BY <1>2, <1>3, <1>5, <1>6, <1>7, <1>8, <1>9, <1>10, <1>11

\* The steps of an upload that only look.
LEMMA StoreLook ==
    ASSUME SInv, TInv, NEW s \in Sessions,
           CheckName(s) \/ StatExisting(s) \/ SendOffset(s) \/ LookupReal(s)
    PROVE  SInv'
<1>1. /\ reg[s].cmd = "upload" /\ todo[s] \in {UpCheck, UpStat, UpOffset, UpLookup}
      /\ reg[s].md5 \in Md5s /\ UNCHANGED store
  <2>1. reg[s].cmd = "upload" /\ todo[s] \in {UpCheck, UpStat, UpOffset, UpLookup}
        /\ UNCHANGED store
    BY CheckFlow, StatFlow, OffsetFlow, LookupFlow
  <2>2. todo[s] # <<>> BY <2>1, UploadOps
  <2>3. QED BY <2>1, <2>2, InRm, InCp, InCpDir DEF TInv, Places, Place
<1>2. reg[s] \in Regs /\ Uploading(s, todo[s], reg[s]) /\ todo[s] # <<>>
  BY <1>1, UploadOps DEF TInv, SessionsTyped, SInv
<1>3. CASE CheckName(s)
  <2>1. Uploading(s, UpStat, reg[s]) /\ Uploading(s, UpOffset, reg[s])
    BY <1>1, <1>2, UploadPlaces DEF Uploading
  <2>2. QED BY <1>1, <1>3, <2>1, CheckFlow, StoreGoes
<1>4. CASE StatExisting(s)
  <2>1. Uploading(s, UpOffset, reg[s]) BY <1>1, <1>2, UploadPlaces DEF Uploading
  <2>2. CASE Goes(s, UpOffset, reg[s]) BY <1>1, <2>1, <2>2, StoreGoes
  <2>3. CASE Len(store[reg[s].md5]) = Size(reg[s].md5) /\ Finish(s, reg[s], "existing")
    <3>1. Size(reg[s].md5) \in Nat BY <1>1, WorkloadAssumption
    <3>2. store[reg[s].md5] = Whole(reg[s].md5) BY <1>1, <2>3, <3>1, LongIsWhole DEF SInv
    <3>3. QED BY <1>1, <2>3, <3>2, StoreFinish
  <2>4. QED BY <1>4, <2>2, <2>3, StatFlow
<1>5. CASE SendOffset(s)
  <2> DEFINE n == Len(store[reg[s].md5])
             r == [reg[s] EXCEPT !.size = n]
  <2>1. n \in Nat BY <1>1, LenProperties DEF TInv, StoreTyped
  <2>2. /\ r.cmd = "upload" /\ r.name = reg[s].name /\ r.md5 = reg[s].md5 /\ r.got = reg[s].got
        /\ r.size = n
    BY <1>1, <1>2 DEF Regs
  <2>3. Goes(s, UpLookup, r) BY <1>5, OffsetFlow
  <2>4. reg[s].got = 0 BY <1>1, <1>2, <1>5, OffsetFlow, UploadPlaces DEF Uploading
  <2> HIDE DEF r
  <2>5. r.size + r.got = Len(store[r.md5]) BY <2>1, <2>2, <2>4
  <2>6. Uploading(s, UpLookup, r) BY <1>1, <1>2, <2>2, <2>4, <2>5, UploadPlaces DEF Uploading
  <2>7. QED BY <1>1, <2>3, <2>6, StoreGoes
<1>6. CASE LookupReal(s)
  <2> DEFINE b == (real[reg[s].md5] # <<>>)
             r == [reg[s] EXCEPT !.ret = b]
  <2>1. \/ reg[s].size = Size(reg[s].md5) /\ Goes(s, NewInsert, r)
        \/ Goes(s, UpInsert, r)
        \/ Goes(s, UpSeek, r)
    BY <1>6, LookupFlow
  <2> HIDE DEF b
  <2>2. /\ r.cmd = "upload" /\ r.name = reg[s].name /\ r.md5 = reg[s].md5 /\ r.got = reg[s].got
        /\ r.size = reg[s].size
    BY <1>1, <1>2 DEF Regs
  <2>3. todo[s] = UpLookup BY <1>6, LookupFlow
  <2> HIDE DEF r
  <2>4. /\ Uploading(s, UpInsert, r) /\ Uploading(s, UpSeek, r)
        /\ reg[s].size = Size(reg[s].md5) => Uploading(s, NewInsert, r)
    BY <1>1, <1>2, <2>2, <2>3, UploadPlaces DEF Uploading
  <2>5. QED BY <1>1, <2>1, <2>4, StoreGoes
<1>7. QED BY <1>3, <1>4, <1>5, <1>6

\* The steps of an upload on the tables, and its seek.
LEMMA StoreRecord ==
    ASSUME SInv, TInv, NEW s \in Sessions,
           InsertRow(s) \/ InsertReal(s) \/ IncCount(s) \/ SeekEnd(s)
    PROVE  SInv'
<1>1. UNCHANGED store BY InsertFlow, InsertRealFlow, IncFlow, SeekFlow
<1>2. reg[s] \in Regs /\ Uploading(s, todo[s], reg[s]) BY DEF TInv, SessionsTyped, SInv
<1>3. CASE InsertRow(s)
  <2> DEFINE r == [reg[s] EXCEPT !.dst = nextId]
  <2>1. /\ r.cmd = reg[s].cmd /\ r.name = reg[s].name /\ r.md5 = reg[s].md5
        /\ r.got = reg[s].got /\ r.size = reg[s].size
    BY <1>2 DEF Regs
  <2>2. \/ todo[s] = NewInsert /\ Goes(s, Inc, r)
        \/ reg[s].cmd = "upload" /\ todo[s] = UpInsert /\ Goes(s, UpNew, r)
    BY <1>3, InsertFlow
  <2> HIDE DEF r
  <2>3. CASE todo[s] = NewInsert /\ Goes(s, Inc, r)
    <3>1. Uploading(s, Inc, r) BY <1>2, <2>1, <2>3, UploadPlaces, NewOps DEF Uploading
    <3>2. QED BY <1>1, <2>3, <3>1, StoreGoes
  <2>4. CASE todo[s] = UpInsert /\ Goes(s, UpNew, r)
    <3>1. Uploading(s, UpNew, r) BY <1>2, <2>1, <2>4, UploadPlaces, UploadOps DEF Uploading
    <3>2. QED BY <1>1, <2>4, <3>1, StoreGoes
  <2>5. QED BY <2>2, <2>3, <2>4
<1>4. CASE InsertReal(s)
  <2>1. todo[s] = UpNew /\ Goes(s, UpSeek, reg[s]) BY <1>4, InsertRealFlow
  <2>2. Uploading(s, UpSeek, reg[s]) BY <1>2, <2>1, UploadPlaces, UploadOps DEF Uploading
  <2>3. QED BY <1>1, <2>1, <2>2, StoreGoes
<1>5. CASE IncCount(s)
  <2>1. CASE reg[s].cmd = "cpdir" /\ Goes(s, DirLoad, reg[s])
    <3>1. reg[s].cmd # "upload" BY <2>1
    <3>2. QED BY <1>1, <2>1, <3>1, StoreOther
  <2>2. CASE todo[s] = Inc /\ Finish(s, reg[s], "ok")
    <3>1. reg[s].cmd = "upload" => store[reg[s].md5] = Whole(reg[s].md5)
      <4>1. SUFFICES ASSUME reg[s].cmd = "upload"
                     PROVE  store[reg[s].md5] = Whole(reg[s].md5)
        OBVIOUS
      <4>2. /\ reg[s].size + reg[s].got = Len(store[reg[s].md5])
            /\ reg[s].size = Size(reg[s].md5) /\ reg[s].got = 0
        BY <1>2, <2>2, <4>1, UploadPlaces, UploadOps DEF Uploading
      <4>3. reg[s].md5 \in Md5s /\ Size(reg[s].md5) \in Nat
        BY <1>5, IncFlow, WorkloadAssumption
      <4>4. Len(store[reg[s].md5]) >= Size(reg[s].md5) BY <4>2, <4>3
      <4>5. QED BY <4>3, <4>4, LongIsWhole DEF SInv
    <3>2. QED BY <1>1, <2>2, <3>1, StoreFinish
  <2>3. QED BY <1>5, <2>1, <2>2, IncFlow
<1>6. CASE SeekEnd(s)
  <2> DEFINE n == Len(store[reg[s].md5])
             r == [reg[s] EXCEPT !.pos = n]
  <2>1. /\ r.cmd = reg[s].cmd /\ r.name = reg[s].name /\ r.md5 = reg[s].md5
        /\ r.got = reg[s].got /\ r.size = reg[s].size /\ r.pos = n
    BY <1>2 DEF Regs
  <2>2. todo[s] = UpSeek /\ Goes(s, UpRecv, r) BY <1>6, SeekFlow
  <2> HIDE DEF r
  <2>3. Uploading(s, UpRecv, r)
    BY <1>2, <2>1, <2>2, UploadPlaces, UploadOps DEF Uploading
  <2>4. QED BY <1>1, <2>2, <2>3, StoreGoes
<1>7. QED BY <1>3, <1>4, <1>5, <1>6

LEMMA StoreReceive ==
    ASSUME Sole, SInv, TInv, NEW s \in Sessions, Receive(s) \/ Lose(s)
    PROVE  SInv'
<1>1. reg[s] \in Regs /\ Uploading(s, todo[s], reg[s]) BY DEF TInv, SessionsTyped, SInv
<1>2. reg[s].cmd = "upload" /\ todo[s] = UpRecv /\ reg[s].md5 \in Md5s
  BY ReceiveFlow, LoseFlow
<1> DEFINE m == reg[s].md5
           r == [reg[s] EXCEPT !.pos = @ + 1, !.got = @ + 1]
<1>3. /\ reg[s].size + reg[s].got = Len(store[m]) /\ reg[s].pos = Len(store[m])
      /\ <<reg[s].name, m>> \in Uploads /\ reg[s].name \in NamesOf(s)
  BY <1>1, <1>2, UploadPlaces, UploadOps DEF Uploading
<1>4. Size(m) \in Nat /\ reg[s].size \in Nat /\ reg[s].got \in Nat
  BY <1>1, <1>2, WorkloadAssumption DEF Regs
<1>5. CASE Finish(s, reg[s], "gone") /\ UNCHANGED store BY <1>5, StoreFinish
<1>6. CASE reg[s].got >= Size(m) - reg[s].size /\ UNCHANGED store /\ Finish(s, reg[s], "ok")
  <2>1. Len(store[m]) >= Size(m) BY <1>3, <1>4, <1>6
  <2>2. store[m] = Whole(m) BY <1>2, <2>1, LongIsWhole DEF SInv
  <2>3. QED BY <1>6, <2>2, StoreFinish
<1>7. ASSUME reg[s].got < Size(m) - reg[s].size,
             store' = [store EXCEPT ![m] = WriteAt(@, reg[s].pos, reg[s].size + reg[s].got + 1)],
             Goes(s, UpRecv, r)
      PROVE  SInv'
  <2> DEFINE q == store[m]
             n == Len(store[m])
  <2>1. q \in Seq(1..Size(m)) /\ n \in Nat BY <1>2, LenProperties DEF TInv, StoreTyped
  <2>2. n < Size(m) BY <1>3, <1>4, <1>7
  <2>3. store' = [store EXCEPT ![m] = Append(q, n + 1)]
    <3>1. WriteAt(q, reg[s].pos, reg[s].size + reg[s].got + 1) = Append(q, n + 1)
      BY <1>3 DEF WriteAt
    <3>2. QED BY <1>7, <3>1
  <2>4. store'[m] = Append(q, n + 1) /\ \A x \in Md5s : x # m => store'[x] = store[x]
    BY <1>2, <2>3 DEF TInv, StoreTyped
  <2>5. n + 1 \in 1..Size(m) BY <1>4, <2>1, <2>2
  <2>6. /\ Len(Append(q, n + 1)) = n + 1
        /\ \A i \in 1..(n + 1) : Append(q, n + 1)[i] = IF i = n + 1 THEN n + 1 ELSE q[i]
    BY <2>1, <2>5, AppendProperties
  <2>7. StoredPrefix'
    <3>1. Len(store'[m]) <= Size(m) /\ \A i \in 1..Len(store'[m]) : store'[m][i] = i
      BY <1>2, <2>1, <2>4, <2>5, <2>6 DEF SInv, StoredPrefix
    <3>2. QED BY <2>4, <3>1 DEF SInv, StoredPrefix
  <2>8. UploadStored'
    <3>1. ASSUME NEW x \in Sessions, reply[x].cmd = "upload",
                 reply[x].answer \in {"ok", "existing"}
          PROVE  store'[reply[x].md5] = Whole(reply[x].md5)
      <4>1. store[reply[x].md5] = Whole(reply[x].md5) BY <3>1 DEF SInv, UploadStored
      <4>2. reply[x].md5 # m
        <5>1. Len(Whole(m)) = Size(m) BY <1>4, IsASeq DEF Whole
        <5>2. QED BY <1>4, <2>1, <2>2, <4>1, <5>1
      <4>3. QED BY <2>3, <4>1, <4>2 DEF TInv, StoreTyped
    <3>2. reply' = reply BY <1>7 DEF Goes
    <3>3. QED BY <3>1, <3>2 DEF UploadStored, Whole
  <2>9. ASSUME NEW x \in Sessions PROVE Uploading(x, todo[x], reg[x])'
    <3>1. CASE x = s
      <4>1. /\ r.cmd = "upload" /\ r.name = reg[s].name /\ r.md5 = m /\ r.size = reg[s].size
            /\ r.got = reg[s].got + 1 /\ r.pos = reg[s].pos + 1
        BY <1>1, <1>2 DEF Regs
      <4>2. todo'[s] = UpRecv /\ reg'[s] = r BY <1>7 DEF TInv, SessionsTyped, Goes
      <4>3. Len(store'[m]) = n + 1 BY <2>4, <2>6
      <4> HIDE DEF r
      <4>4. r.size + r.got = n + 1 /\ r.pos = n + 1
        <5>1. reg[s].size + reg[s].got = n /\ reg[s].pos = n /\ n \in Nat BY <1>3, <2>1
        <5> HIDE DEF n
        <5>2. QED BY <1>4, <4>1, <5>1
      <4> HIDE DEF n
      <4>5. QED BY <1>3, <3>1, <4>1, <4>2, <4>3, <4>4, UploadPlaces DEF Uploading
    <3>2. CASE x # s
      <4>1. todo'[x] = todo[x] /\ reg'[x] = reg[x]
        BY <1>7, <3>2 DEF TInv, SessionsTyped, Goes
      <4>2. Uploading(x, todo[x], reg[x]) BY DEF SInv
      <4>3. ASSUME todo[x] # <<>>, reg[x].cmd = "upload" PROVE store'[reg[x].md5] = store[reg[x].md5]
        <5>1. <<reg[x].name, reg[x].md5>> \in Uploads /\ reg[x].name \in NamesOf(x)
          BY <4>2, <4>3 DEF Uploading
        <5>2. reg[x].md5 # m BY <1>3, <3>2, <5>1 DEF Sole
        <5>3. QED BY <2>3, <5>2 DEF TInv, StoreTyped
      <4>4. QED BY <4>1, <4>2, <4>3 DEF Uploading
    <3>3. QED BY <3>1, <3>2
  <2>10. QED BY <2>7, <2>8, <2>9 DEF SInv
<1>8. QED BY <1>5, <1>6, <1>7, ReceiveFlow, LoseFlow

LEMMA StoreInit ==
    ASSUME Init
    PROVE  SInv
<1>1. ASSUME NEW m \in Md5s PROVE Prefix(m)
  <2>1. Size(m) \in Nat BY WorkloadAssumption
  <2>2. Len(Whole(m)) = Size(m) /\ \A i \in 1..Size(m) : Whole(m)[i] = i
    BY <2>1, IsASeq DEF Whole
  <2>3. store[m] = Whole(m) \/ store[m] = <<>> BY DEF Init
  <2>4. QED BY <2>1, <2>2, <2>3, EmptySeq DEF Prefix
<1>2. StoredPrefix BY <1>1 DEF StoredPrefix, Prefix
<1>3. UploadStored BY DEF Init, NoReply, UploadStored
<1>4. \A s \in Sessions : Uploading(s, todo[s], reg[s]) BY DEF Init, Uploading
<1>5. QED BY <1>2, <1>3, <1>4 DEF SInv

LEMMA StoreNext ==
    ASSUME Sole, TInv, SInv, [Next]_vars
    PROVE  SInv'
<1>1. CASE UNCHANGED vars
  <2>1. \A s \in Sessions : Uploading(s, todo[s], reg[s])'
    BY <1>1 DEF SInv, Uploading, vars, session
  <2>2. StoredPrefix' /\ UploadStored'
    BY <1>1 DEF SInv, StoredPrefix, UploadStored, Whole, vars, session
  <2>3. QED BY <2>1, <2>2 DEF SInv
<1>2. CASE Exit BY <1>2, StoreEnd DEF Exit
<1>3. ASSUME NEW s \in Sessions, Step(s)
      PROVE  SInv'
  BY <1>3, StoreBegin, StoreRmCp, StoreLook, StoreRecord, StoreReceive DEF Step
<1>4. QED BY <1>1, <1>2, <1>3 DEF Next

\* What a real file holds is always the beginning of its content, however often an upload
\* was cut or the server exited: an upload writes only what comes after it.
THEOREM PrefixStored ==
    ASSUME Sole
    PROVE  Spec => []StoredPrefix
<1>1. Init => SInv BY StoreInit
<1>2. TInv /\ SInv /\ [Next]_vars => SInv' BY StoreNext
<1>3. SInv => StoredPrefix BY DEF SInv
<1>4. QED BY <1>1, <1>2, <1>3, Typed, PTL DEF Spec

\* An upload answered with success has stored the whole content, whatever the other
\* sessions upload, remove and copy.
THEOREM UploadsStored ==
    ASSUME Sole
    PROVE  Spec => []UploadStored
<1>1. Init => SInv BY StoreInit
<1>2. TInv /\ SInv /\ [Next]_vars => SInv' BY StoreNext
<1>3. SInv => UploadStored BY DEF SInv
<1>4. QED BY <1>1, <1>2, <1>3, Typed, PTL DEF Spec

=============================================================================
