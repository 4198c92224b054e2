--------------------------- MODULE ProtocolProofs ---------------------------
(***************************************************************************)
(* Proofs about Protocol, for any files, commands, buffer and number of    *)
(* connections: where the client is in its program, where the session is   *)
(* in its own, and what is on the way in both directions always belong     *)
(* together.                                                               *)
(***************************************************************************)
EXTENDS Protocol, SequenceTheorems, TLAPS

\* What the code needs for the two sides to agree.  Without any one of these TLC finds them
\* apart: a file may not grow while it is sent, a size must fit into an int, the disk must
\* hold what is uploaded, a download must name a file, and the client's file may not be the
\* longer one (by two, the size that is left is -2, which stands for no such file).
Regular ==
    /\ ~GrowsWhileSent
    /\ \A f \in Files : Size(f) < Half
    /\ \A c \in Commands :
          /\ c.cmd = "upload" => Size(c.file) <= Room
          /\ c.cmd = "download" => c.words # "none" /\ Local(c.file) <= Stored(c.file)

Places  == ClientPlaces \cup {"menu", "prompt", "send"}
Clients == [pc : Places \cup {"gone"}, cmd : Commands \cup {NoCmd}, need : Int, pos : Int,
            out : {"none", "whole", "wrong", "stored"}]
Servers == [pc : ServerPlaces \cup {"send", "closed", "abandoned"}, file : Files \cup {"none"},
            need : Int, got : Nat, pos : Nat]

Typed == cl \in Clients /\ sv \in Servers /\ entries \subseteq Files /\ conns \in 1..MaxConns

\* Both sides have beginnings of the contents only.
Beginnings(files) ==
    /\ files = [f \in Files |-> Beginning(Len(files[f]))]
    /\ \A f \in Files : Len(files[f]) \in 0..Size(f)

\* What is downloaded is no longer on the client than on the server.
Behind == \A c \in Commands : c.cmd = "download" => Len(local[c.file]) <= Len(store[c.file])

\* The data of the chunks after a up to b, on the way.
Run(a, b) == [i \in 1..(b - a) |-> Msg("data", a + i)]

Here  == Len(local[File])
There == Len(store[File])

DoneMsg == Msg("done", 0)
Request == Msg("command", [cmd |-> cl.cmd.cmd, file |-> File, words |-> cl.cmd.words, size |-> Here])

\* What is on the way to the server, where the session is, what is on the way back.
On(up, place, down) == toServer = up /\ sv.pc = place /\ toClient = down

\* The session is ready for what comes, or has still to take note that a download is done.
Waits(up, after) ==
    \/ On(up, "command", <<>>)
    \/ On(after, "done", <<>>)
    \/ On(after, "send", <<>>) /\ sv.got >= sv.need

\* The client is in its login or changes its password.
LoginPhase(p) ==
    \/ p = "menu" /\ (On(<<>>, "account", <<>>) \/ On(<<>>, "abandoned", <<>>))
    \/ p = "flag" /\ \/ On(<<Msg("account", 0)>>, "account", <<>>)
                     \/ On(<<Msg("account", 0)>>, "abandoned", <<>>)
                     \/ On(<<>>, "account", <<Msg("flag", -1)>>)
                     \/ On(<<>>, "crypt", <<Msg("flag", 0), Msg("salt", 0)>>)
    \/ p = "salt" /\ On(<<>>, "crypt", <<Msg("salt", 0)>>)
    \/ p = "id" /\ \/ On(<<Msg("crypt", 0)>>, "crypt", <<>>)
                   \/ On(<<>>, "account", <<Msg("id", -1)>>)
                   \/ On(<<>>, "command", <<Msg("id", 1), Msg("len", 1), Msg("text", 0)>>)
    \/ p = "len" /\ \/ On(<<>>, "command", <<Msg("len", 0)>>)
                    \/ On(<<>>, "command", <<Msg("len", 1), Msg("text", 0)>>)
    \/ p = "text" /\ On(<<>>, "command", <<Msg("text", 0)>>)
    \/ p = "newsalt" /\ On(<<>>, "newcrypt", <<Msg("newsalt", 0)>>)
    \/ p = "newpass" /\ \/ On(<<Msg("newcrypt", 0)>>, "newcrypt", <<>>)
                        \/ On(<<>>, "account", <<Msg("newpass", 0)>>)

\* The client asks for a command, and gets an answer that starts no transfer.
CommandPhase(p) ==
    \/ p = "prompt" /\ Waits(<<>>, <<DoneMsg>>)
    \/ p = "ack" /\ cl.cmd \in Commands /\ Sends(cl.cmd) /\ Waits(<<Request>>, <<DoneMsg, Request>>)
          /\ (cl.cmd.cmd = "upload" => Here = Size(File))
    \/ p = "ack" /\ \E a \in {"ARGS_NUM_ERROR", "ERROR_CMD"} : On(<<>>, "command", <<Ack(a)>>)
    \/ p = "ack" /\ cl.cmd.cmd = "exit" /\ On(<<>>, "closed", <<Ack("NO_ERROR")>>)
    \/ p = "ack" /\ cl.cmd.cmd = "rp" /\ On(<<>>, "newcrypt", <<Ack("NO_ERROR"), Msg("newsalt", 0)>>)
    \/ p = "ack" /\ cl.cmd.cmd \in Simple \cup Listing \cup {"cd"} /\
          \/ On(<<>>, "command", <<Ack("NO_ERROR"), Result("RUN_ERROR")>>)
          \/ cl.cmd.cmd \in Simple /\ On(<<>>, "command", <<Ack("NO_ERROR"), Result("NO_ERROR")>>)
          \/ cl.cmd.cmd \notin Simple /\
               \/ On(<<>>, "command", <<Ack("NO_ERROR"), Result("NO_ERROR"), Msg("len", 0)>>)
               \/ On(<<>>, "command", <<Ack("NO_ERROR"), Result("NO_ERROR"), Msg("len", 1),
                                        Msg("text", 0)>>)
    \/ p = "result" /\ cl.cmd.cmd \in Simple \cup Listing \cup {"cd"} /\
          \/ On(<<>>, "command", <<Result("RUN_ERROR")>>)
          \/ cl.cmd.cmd \in Simple /\ On(<<>>, "command", <<Result("NO_ERROR")>>)
          \/ cl.cmd.cmd \notin Simple /\
               \/ On(<<>>, "command", <<Result("NO_ERROR"), Msg("len", 0)>>)
               \/ On(<<>>, "command", <<Result("NO_ERROR"), Msg("len", 1), Msg("text", 0)>>)

\* The session sends the chunks from where the client's file ends up to total.
Sending(pre, total) ==
    /\ toServer = <<>> /\ toClient = pre \o Run(Here, sv.pos)
    /\ Here <= sv.pos /\ sv.pos <= total /\ total <= There
    /\ \/ /\ sv.pc = "send" /\ sv.file = File
          /\ sv.need - sv.got = total - sv.pos /\ total = There
       \/ sv.pc = "done" /\ sv.pos = total

DownloadPhase(p) ==
    /\ cl.cmd \in Commands /\ cl.cmd.cmd = "download"
    /\ \/ p = "ack" /\ On(<<>>, "command", <<Ack("NO_ERROR"), Msg("size", -2)>>)
       \/ p = "size" /\ On(<<>>, "command", <<Msg("size", -2)>>)
       \/ p = "ack" /\ \E n \in Nat : Sending(<<Ack("NO_ERROR"), Msg("size", n)>>, Here + n)
       \/ p = "size" /\ \E n \in Nat : Sending(<<Msg("size", n)>>, Here + n)
       \/ p = "data" /\ Sending(<<>>, cl.need)

\* The client sends the chunks from where the real file ends.
Receiving(up, down) ==
    \/ /\ On(up, "data", down) /\ sv.file = File
       /\ sv.need - sv.got = Size(File) - There
    \/ On(<<>>, "command", down \o <<Msg("stored", 0)>>) /\ There = Size(File)

UploadPhase(p) ==
    /\ cl.cmd \in Commands /\ cl.cmd.cmd = "upload" /\ Here = Size(File)
    /\ \/ p = "ack" /\ On(<<>>, "command", <<Ack("NO_ERROR"), Msg("offset", -4)>>)
       \/ p = "offset" /\ On(<<>>, "command", <<Msg("offset", -4)>>)
       \/ p = "ack" /\ Receiving(<<>>, <<Ack("NO_ERROR"), Msg("offset", There)>>)
       \/ p = "offset" /\ Receiving(<<>>, <<Msg("offset", There)>>)
       \/ p \in {"send", "stored"} /\ There <= cl.pos /\ cl.pos <= Size(File)
             /\ (p = "stored" => cl.pos = Size(File))
             /\ Receiving(Run(There, cl.pos), <<>>)

Phase(p) == LoginPhase(p) \/ CommandPhase(p) \/ DownloadPhase(p) \/ UploadPhase(p)

\* The session has noticed that the client has gone.
Ended ==
    /\ cl.pc = "gone" /\ sv.pc = "closed" /\ toServer = <<>>
    /\ \A i \in DOMAIN toClient : toClient[i].kind \in ClientPlaces

\* Where the client is, or was when it went.
Conversation == Ended \/ \E p \in Places : cl.pc \in {p, "gone"} /\ Phase(p)

\* A finished upload is whole on both sides, until the next command.
Finished ==
    cl.out = "stored" =>
        \/ cl.pc = "gone"
        \/ cl.pc = "prompt" /\ cl.cmd \in Commands /\ Here = Size(File) /\ There = Size(File)

IInv ==
    /\ Typed /\ Beginnings(local) /\ Beginnings(store) /\ Behind
    /\ Conversation /\ Finished

-----------------------------------------------------------------------------
(***************************************************************************)
(* Streams of file data.                                                   *)
(***************************************************************************)
DataMsgs == {Msg("data", i) : i \in Int}

LEMMA RunIsSeq ==
    ASSUME NEW a \in Int, NEW b \in Int, a <= b
    PROVE  /\ Run(a, b) \in Seq(DataMsgs) /\ Len(Run(a, b)) = b - a
           /\ \A i \in 1..(b - a) : Run(a, b)[i] = Msg("data", a + i)
           /\ a = b => Run(a, b) = <<>>
<1>1. b - a \in Nat /\ \A i \in 1..(b - a) : Msg("data", a + i) \in DataMsgs BY DEF DataMsgs
<1>2. QED BY <1>1 DEF Run

LEMMA RunJoin ==
    ASSUME NEW a \in Int, NEW b \in Int, NEW c \in Int, a <= b, b <= c
    PROVE  Run(a, b) \o Run(b, c) = Run(a, c)
<1> DEFINE s == Run(a, b)  t == Run(b, c)  u == Run(a, c)
<1>1. /\ s \in Seq(DataMsgs) /\ Len(s) = b - a
      /\ t \in Seq(DataMsgs) /\ Len(t) = c - b
      /\ u \in Seq(DataMsgs) /\ Len(u) = c - a
  BY RunIsSeq
<1>2. s \o t \in Seq(DataMsgs) /\ Len(s \o t) = c - a
  <2>1. s \o t \in Seq(DataMsgs) /\ Len(s \o t) = Len(s) + Len(t) BY <1>1, ConcatProperties
  <2>2. QED BY <1>1, <2>1
<1>3. ASSUME NEW i \in 1..(c - a)
      PROVE  (s \o t)[i] = u[i]
  <2>1. (s \o t)[i] = IF i <= b - a THEN s[i] ELSE t[i - (b - a)]
    <3>1. i \in 1..(Len(s) + Len(t)) BY <1>1
    <3>2. (s \o t)[i] = IF i <= Len(s) THEN s[i] ELSE t[i - Len(s)]
      BY <1>1, <3>1, ConcatProperties
    <3>3. QED BY <1>1, <3>2
  <2>2. u[i] = Msg("data", a + i)
    <3>1. a <= c OBVIOUS
    <3>2. QED BY <3>1, RunIsSeq
  <2>3. CASE i <= b - a
    <3>1. i \in 1..(b - a) BY <2>3
    <3>2. s[i] = Msg("data", a + i) BY <3>1, RunIsSeq
    <3>3. QED BY <2>1, <2>2, <2>3, <3>2
  <2>4. CASE ~(i <= b - a)
    <3>1. i - (b - a) \in 1..(c - b) BY <2>4
    <3>2. t[i - (b - a)] = Msg("data", b + (i - (b - a))) BY <3>1, RunIsSeq
    <3>3. b + (i - (b - a)) = a + i OBVIOUS
    <3>4. QED BY <2>1, <2>2, <2>4, <3>2, <3>3
  <2>5. QED BY <2>3, <2>4
<1>4. QED BY <1>1, <1>2, <1>3, SeqEqual

\* Reading n messages of a run.
LEMMA RunRead ==
    ASSUME NEW a \in Int, NEW b \in Int, NEW n \in Nat, n <= b - a
    PROVE  /\ SubSeq(Run(a, b), n + 1, Len(Run(a, b))) = Run(a + n, b)
           /\ Chunks(SubSeq(Run(a, b), 1, n)) = [i \in 1..n |-> a + i]
<1> DEFINE s == Run(a, b)
<1>1. s \in Seq(DataMsgs) /\ Len(s) = b - a BY RunIsSeq
<1>2. ASSUME NEW i \in 1..(b - a)
      PROVE  s[i] = Msg("data", a + i) /\ s[i] \in DataMsgs
  <2>1. s[i] = Msg("data", a + i)
    <3>1. a <= b OBVIOUS
    <3>2. QED BY <3>1, RunIsSeq
  <2>2. a + i \in Int OBVIOUS
  <2>3. QED BY <2>1, <2>2 DEF DataMsgs
<1>3. SubSeq(s, n + 1, Len(s)) = Run(a + n, b)
  <2> DEFINE t == SubSeq(s, n + 1, b - a)  u == Run(a + n, b)
  <2>1. /\ t \in Seq(DataMsgs) /\ Len(t) = b - a - n
        /\ \A i \in 1..(b - a - n) : t[i] = s[n + 1 + i - 1]
    <3>1. /\ t \in Seq(DataMsgs) /\ Len(t) = IF n + 1 <= b - a THEN b - a - (n + 1) + 1 ELSE 0
          /\ \A i \in 1..(b - a - (n + 1) + 1) : t[i] = s[n + 1 + i - 1]
      BY <1>2, SubSeqProperties
    <3>2. QED BY <3>1
  <2>2. /\ u \in Seq(DataMsgs) /\ Len(u) = b - a - n
        /\ \A i \in 1..(b - a - n) : u[i] = Msg("data", a + n + i)
    <3>1. a + n \in Int /\ a + n <= b /\ b - (a + n) = b - a - n OBVIOUS
    <3>2. QED BY <3>1, RunIsSeq
  <2>3. ASSUME NEW i \in 1..(b - a - n)
        PROVE  t[i] = u[i]
    <3>1. n + 1 + i - 1 \in 1..(b - a) /\ a + (n + 1 + i - 1) = a + n + i OBVIOUS
    <3>2. QED BY <1>2, <2>1, <2>2, <3>1
  <2>4. QED BY <1>1, <2>1, <2>2, <2>3, SeqEqual
<1>4. Chunks(SubSeq(s, 1, n)) = [i \in 1..n |-> a + i]
  <2> DEFINE t == SubSeq(s, 1, n)
  <2>1. t \in Seq(DataMsgs) /\ Len(t) = n /\ \A i \in 1..n : t[i] = s[i]
    <3>1. /\ t \in Seq(DataMsgs) /\ Len(t) = IF 1 <= n THEN n - 1 + 1 ELSE 0
          /\ \A i \in 1..(n - 1 + 1) : t[i] = s[1 + i - 1]
      BY <1>2, SubSeqProperties
    <3>2. QED BY <3>1
  <2>2. DOMAIN t = 1..n BY <2>1, LenProperties
  <2>3. ASSUME NEW i \in 1..n
        PROVE  t[i].val = a + i
    <3>1. i \in 1..(b - a) OBVIOUS
    <3>2. t[i] = Msg("data", a + i) BY <1>2, <2>1, <3>1
    <3>3. QED BY <3>2 DEF Msg
  <2>4. QED BY <2>2, <2>3 DEF Chunks
<1>5. QED BY <1>3, <1>4

LEMMA TwoMessages ==
    ASSUME NEW x, NEW y
    PROVE  <<x>> \o <<y>> = <<x, y>> /\ Append(<<x>>, y) = <<x, y>>
<1> DEFINE S == {x, y}
<1>1. <<x>> \in Seq(S) /\ <<y>> \in Seq(S) /\ <<x, y>> \in Seq(S) OBVIOUS
<1>2. <<x>> \o <<y>> = <<x, y>>
  <2>1. /\ <<x>> \o <<y>> \in Seq(S) /\ Len(<<x>> \o <<y>>) = 2
        /\ (<<x>> \o <<y>>)[1] = x /\ (<<x>> \o <<y>>)[2] = y
    BY <1>1
  <2>2. \A i \in 1..2 : (<<x>> \o <<y>>)[i] = <<x, y>>[i] BY <2>1
  <2>3. Len(<<x, y>>) = 2 OBVIOUS
  <2>4. QED BY <1>1, <2>1, <2>2, <2>3, SeqEqual
<1>3. QED BY <1>1, <1>2, AppendIsConcat

\* Reading the first of two messages before a stream, and the only one.
LEMMA Prefixed ==
    ASSUME NEW S, NEW s \in Seq(S), NEW x, NEW y
    PROVE  /\ <<x>> \o s # <<>> /\ Head(<<x>> \o s) = x /\ Tail(<<x>> \o s) = <<>> \o s
           /\ <<x, y>> \o s # <<>> /\ Head(<<x, y>> \o s) = x /\ Tail(<<x, y>> \o s) = <<y>> \o s
           /\ <<>> \o s = s
OBVIOUS

LEMMA BeginningIsSeq ==
    ASSUME NEW n \in Nat
    PROVE  /\ Beginning(n) \in Seq(Nat) /\ Len(Beginning(n)) = n
           /\ \A i \in 1..n : Beginning(n)[i] = i
BY DEF Beginning

\* What has been read goes on where the file ends.
LEMMA BeginningGrows ==
    ASSUME NEW a \in Nat, NEW n \in Nat
    PROVE  Beginning(a) \o [i \in 1..n |-> a + i] = Beginning(a + n)
<1> DEFINE s == Beginning(a)  t == [i \in 1..n |-> a + i]  u == Beginning(a + n)
<1>1. s \in Seq(Nat) /\ Len(s) = a /\ u \in Seq(Nat) /\ Len(u) = a + n BY BeginningIsSeq
<1>2. t \in Seq(Nat) /\ Len(t) = n
  <2>1. \A i \in 1..n : a + i \in Nat OBVIOUS
  <2>2. QED BY <2>1
<1>3. s \o t \in Seq(Nat) /\ Len(s \o t) = a + n BY <1>1, <1>2, ConcatProperties
<1>4. ASSUME NEW i \in 1..(a + n)
      PROVE  (s \o t)[i] = u[i]
  <2>1. (s \o t)[i] = IF i <= a THEN s[i] ELSE t[i - a] BY <1>1, <1>2, ConcatProperties
  <2>2. u[i] = i BY BeginningIsSeq
  <2>3. CASE i <= a
    <3>1. i \in 1..a BY <2>3
    <3>2. s[i] = i BY <3>1, BeginningIsSeq
    <3>3. QED BY <2>1, <2>2, <2>3, <3>2
  <2>4. CASE ~(i <= a)
    <3>1. i - a \in 1..n BY <2>4
    <3>2. t[i - a] = a + (i - a) BY <3>1
    <3>3. a + (i - a) = i OBVIOUS
    <3>4. QED BY <2>1, <2>2, <2>4, <3>2, <3>3
  <2>5. QED BY <2>3, <2>4
<1>5. QED BY <1>1, <1>3, <1>4, SeqEqual

\* The chunks after a up to b of a file, as they are sent.
LEMMA DataIsRun ==
    ASSUME NEW l \in Nat, NEW a \in Nat, NEW b \in Nat, a <= b, b <= l
    PROVE  Data(SubSeq(Beginning(l), a + 1, b)) = Run(a, b)
<1> DEFINE s == Beginning(l)  t == SubSeq(s, a + 1, b)
<1>1. ASSUME NEW i \in 1..l
      PROVE  s[i] = i /\ s[i] \in Nat
  <2>1. s[i] = i BY BeginningIsSeq
  <2>2. QED BY <2>1
<1>2. t \in Seq(Nat) /\ Len(t) = b - a /\ \A i \in 1..(b - a) : t[i] = a + i
  <2>1. /\ t \in Seq(Nat) /\ Len(t) = IF a + 1 <= b THEN b - (a + 1) + 1 ELSE 0
        /\ \A i \in 1..(b - (a + 1) + 1) : t[i] = s[a + 1 + i - 1]
    BY <1>1, SubSeqProperties
  <2>2. QED BY <1>1, <2>1
<1>3. DOMAIN t = 1..(b - a) BY <1>2, LenProperties
<1>4. QED BY <1>2, <1>3 DEF Data, Run

-----------------------------------------------------------------------------
(***************************************************************************)
(* The client.                                                             *)
(***************************************************************************)
LEMMA ClientPhase ==
    ASSUME Conversation, cl.pc \in Places
    PROVE  Phase(cl.pc)
<1>1. "gone" \notin Places BY DEF Places, ClientPlaces
<1>2. QED BY <1>1 DEF Conversation, Ended

LEMMA FileSizes ==
    ASSUME Beginnings(local), Beginnings(store), cl.cmd \in Commands
    PROVE  /\ File \in Files /\ Size(File) \in Nat
           /\ Here \in Nat /\ Here <= Size(File) /\ local[File] = Beginning(Here)
           /\ There \in Nat /\ There <= Size(File) /\ store[File] = Beginning(There)
<1>1. File \in Files BY CommandsAssumption DEF File
<1>2. Size(File) \in Nat BY <1>1, FilesAssumption
<1>3. ASSUME NEW files, Beginnings(files)
      PROVE  /\ Len(files[File]) \in Nat /\ Len(files[File]) <= Size(File)
             /\ files[File] = Beginning(Len(files[File]))
  BY <1>1, <1>2, <1>3 DEF Beginnings
<1>4. QED BY <1>1, <1>2, <1>3 DEF Here, There

LEMMA ClientReading ==
    ASSUME cl \in Clients, NEW k, NEW next, NEW out, ClientReads(k, next, out)
    PROVE  /\ cl'.pc = next /\ sv' = sv
           /\ toServer' = toServer \o out /\ toClient' = Tail(toClient)
BY DEF Clients, ClientReads, server

\* The login and the change of password.
LEMMA LoginSteps ==
    ASSUME cl \in Clients, Phase(cl.pc),
           \/ UserLogin \/ RecvFlag \/ RecvSalt \/ RecvId \/ RecvLen \/ RecvText
           \/ RecvNewSalt \/ RecvNewPasswd
    PROVE  Phase(cl.pc)'
<1> USE DEF Phase, On, Msg, LoginPhase, CommandPhase, DownloadPhase, UploadPhase
<1>1. CASE UserLogin
  <2>1. cl.pc = "menu" BY <1>1 DEF UserLogin
  <2>2. PICK place \in {"account", "abandoned"} : On(<<>>, place, <<>>) BY <2>1
  <2>3. QED BY <1>1, <2>2 DEF UserLogin, Clients, server
<1>2. CASE RecvFlag
  <2>1. cl.pc = "flag" /\ Arrived(toClient, "flag") BY <1>2 DEF RecvFlag, ClientReads
  <2>2. \/ On(<<>>, "account", <<Msg("flag", -1)>>)
        \/ On(<<>>, "crypt", <<Msg("flag", 0), Msg("salt", 0)>>)
    BY <2>1 DEF Arrived
  <2>3. CASE On(<<>>, "account", <<Msg("flag", -1)>>)
    <3>1. Asked = -1 BY <2>3 DEF Asked
    <3>2. QED BY <1>2, <2>3, <3>1, ClientReading DEF RecvFlag
  <2>4. CASE On(<<>>, "crypt", <<Msg("flag", 0), Msg("salt", 0)>>)
    <3>1. Asked = 0 BY <2>4 DEF Asked
    <3>2. QED BY <1>2, <2>4, <3>1, ClientReading DEF RecvFlag
  <2>5. QED BY <2>2, <2>3, <2>4
<1>3. CASE RecvSalt
  <2>1. cl.pc = "salt" BY <1>3 DEF RecvSalt, ClientReads
  <2>2. QED BY <1>3, <2>1, ClientReading DEF RecvSalt
<1>4. CASE RecvId
  <2>1. cl.pc = "id" /\ Arrived(toClient, "id") BY <1>4 DEF RecvId, ClientReads
  <2>2. \/ On(<<>>, "account", <<Msg("id", -1)>>)
        \/ On(<<>>, "command", <<Msg("id", 1), Msg("len", 1), Msg("text", 0)>>)
    BY <2>1 DEF Arrived
  <2>3. CASE On(<<>>, "account", <<Msg("id", -1)>>)
    <3>1. Asked = -1 BY <2>3 DEF Asked
    <3>2. QED BY <1>4, <2>3, <3>1, ClientReading DEF RecvId
  <2>4. CASE On(<<>>, "command", <<Msg("id", 1), Msg("len", 1), Msg("text", 0)>>)
    <3>1. Asked = 1 BY <2>4 DEF Asked
    <3>2. QED BY <1>4, <2>4, <3>1, ClientReading DEF RecvId
  <2>5. QED BY <2>2, <2>3, <2>4
<1>5. CASE RecvLen
  <2>1. cl.pc = "len" BY <1>5 DEF RecvLen, ClientReads
  <2>2. \/ On(<<>>, "command", <<Msg("len", 0)>>)
        \/ On(<<>>, "command", <<Msg("len", 1), Msg("text", 0)>>)
    BY <2>1
  <2>3. CASE On(<<>>, "command", <<Msg("len", 0)>>)
    <3>1. Asked = 0 BY <2>3 DEF Asked
    <3>2. cl'.pc = "prompt" /\ On(<<>>, "command", <<>>)'
      BY <1>5, <2>3, <3>1, ClientReading DEF RecvLen
    <3>3. QED BY <3>2 DEF Waits
  <2>4. CASE On(<<>>, "command", <<Msg("len", 1), Msg("text", 0)>>)
    <3>1. Asked = 1 BY <2>4 DEF Asked
    <3>2. QED BY <1>5, <2>4, <3>1, ClientReading DEF RecvLen
  <2>5. QED BY <2>2, <2>3, <2>4
<1>6. CASE RecvText
  <2>1. cl.pc = "text" BY <1>6 DEF RecvText, ClientReads
  <2>2. On(<<>>, "command", <<Msg("text", 0)>>) BY <2>1
  <2>3. cl'.pc = "prompt" /\ On(<<>>, "command", <<>>)'
    BY <1>6, <2>2, ClientReading DEF RecvText
  <2>4. QED BY <2>3 DEF Waits
<1>7. CASE RecvNewSalt
  <2>1. cl.pc = "newsalt" BY <1>7 DEF RecvNewSalt, ClientReads
  <2>2. QED BY <1>7, <2>1, ClientReading DEF RecvNewSalt
<1>8. CASE RecvNewPasswd
  <2>1. cl.pc = "newpass" /\ Arrived(toClient, "newpass")
    BY <1>8 DEF RecvNewPasswd, ClientReads
  <2>2. On(<<>>, "account", <<Msg("newpass", 0)>>) BY <2>1 DEF Arrived
  <2>3. QED BY <1>8, <2>2, ClientReading DEF RecvNewPasswd
<1>9. QED BY <1>1, <1>2, <1>3, <1>4, <1>5, <1>6, <1>7, <1>8

\* The line the user types, with what it asks for.
LEMMA TypeStep ==
    ASSUME Regular, cl \in Clients, Phase(cl.pc), NEW c \in Commands, Type(c)
    PROVE  Phase(cl.pc)'
<1>1. cl.pc = "prompt" /\ Waits(<<>>, <<DoneMsg>>)
  BY DEF Type, Phase, LoginPhase, CommandPhase, DownloadPhase, UploadPhase
<1>2. /\ cl' = [cl EXCEPT !.pc = IF Sends(c) THEN "ack" ELSE "prompt", !.cmd = c, !.out = "none"]
      /\ toServer' = toServer \o Outgoing(c)
      /\ UNCHANGED <<toClient, local, sv>>
  BY DEF Type, server
<1>3. c.cmd = "download" => c.words # "none" BY DEF Regular
<1>4. CASE Sends(c)
  <2>1. cl'.pc = "ack" /\ cl'.cmd = c BY <1>2, <1>4 DEF Clients
  <2>2. Outgoing(c) = <<Request'>>
    BY <1>2, <1>3, <1>4, <2>1 DEF Outgoing, Sends, Request, File, Here
  <2>3. Waits(<<Request>>, <<DoneMsg, Request>>)'
    <3>1. toServer = <<>> => toServer' = <<Request'>> BY <1>2, <2>2
    <3>2. toServer = <<DoneMsg>> => toServer' = <<DoneMsg, Request'>>
      BY <1>2, <2>2, TwoMessages
    <3>3. QED BY <1>1, <1>2, <3>1, <3>2 DEF Waits, On, DoneMsg
  <2>4. c.cmd = "upload" => Here' = Size(File)'
    <3>1. ASSUME c.cmd = "upload" PROVE local[c.file] = Beginning(Size(c.file))
      BY <3>1 DEF Type, Whole
    <3>2. Size(c.file) \in Nat BY CommandsAssumption, FilesAssumption
    <3>3. Len(Beginning(Size(c.file))) = Size(c.file) BY <3>2, BeginningIsSeq
    <3>4. QED BY <1>2, <2>1, <3>1, <3>3 DEF Here, File
  <2>5. QED BY <2>1, <1>4, <2>3, <2>4 DEF Phase, CommandPhase, Sends
<1>5. CASE ~Sends(c)
  <2>1. cl'.pc = "prompt" BY <1>2, <1>5 DEF Clients
  <2>2. Outgoing(c) = <<>> BY <1>3, <1>5 DEF Outgoing, Sends
  <2>3. toServer' = toServer
    <3>1. toServer = <<>> \/ toServer = <<DoneMsg>> BY <1>1 DEF Waits, On
    <3>2. QED BY <1>2, <2>2, <3>1
  <2>4. Waits(<<>>, <<DoneMsg>>)' BY <1>1, <1>2, <2>3 DEF Waits, On, DoneMsg
  <2>5. QED BY <2>1, <2>4 DEF Phase, CommandPhase
<1>6. QED BY <1>4, <1>5

\* The acknowledgement of a command.
LEMMA AckStep ==
    ASSUME cl \in Clients, sv \in Servers, Beginnings(local), Beginnings(store), Phase(cl.pc), RecvAck
    PROVE  Phase(cl.pc)' \/ Ended'
<1>1. cl.pc = "ack" /\ Arrived(toClient, "ack") BY DEF RecvAck, ClientReads
<1>2. /\ cl'.pc = IF Asked = "NO_ERROR" THEN AfterAck(cl.cmd.cmd) ELSE "prompt"
      /\ UNCHANGED <<sv, toServer, local, store, entries>> /\ toClient' = Tail(toClient)
      /\ cl' = [cl EXCEPT !.pc = cl'.pc] /\ cl'.cmd = cl.cmd /\ cl'.pos = cl.pos
  <2>1. toServer' = toServer
    <3>1. toServer' = toServer \o <<>> /\ toServer = <<>>
      BY <1>1, ClientReading
         DEF RecvAck, Phase, LoginPhase, CommandPhase, DownloadPhase, UploadPhase, Waits, On,
             Arrived, Sending, Receiving
    <3>2. QED BY <3>1
  <2>2. QED BY <2>1 DEF RecvAck, ClientReads, Clients, server
<1>3. CASE CommandPhase("ack")
  <2> USE DEF On, Ack, Msg, Result
  <2>1. CASE \E a \in {"ARGS_NUM_ERROR", "ERROR_CMD"} : On(<<>>, "command", <<Ack(a)>>)
    <3>1. Asked # "NO_ERROR" /\ toClient' = <<>> BY <1>2, <2>1 DEF Asked
    <3>2. cl'.pc = "prompt" /\ On(<<>>, "command", <<>>)' BY <1>2, <2>1, <3>1
    <3>3. QED BY <3>2 DEF Phase, CommandPhase, Waits
  <2>2. CASE cl.cmd.cmd = "exit" /\ On(<<>>, "closed", <<Ack("NO_ERROR")>>)
    <3>1. cl'.pc = "gone" BY <1>2, <2>2 DEF Asked, AfterAck
    <3>2. sv'.pc = "closed" /\ toServer' = <<>> /\ toClient' = <<>> BY <1>2, <2>2
    <3>3. QED BY <3>1, <3>2 DEF Ended
  <2>3. CASE cl.cmd.cmd = "rp" /\ On(<<>>, "newcrypt", <<Ack("NO_ERROR"), Msg("newsalt", 0)>>)
    <3>1. cl'.pc = "newsalt" BY <1>2, <2>3 DEF Asked, AfterAck
    <3>2. On(<<>>, "newcrypt", <<Msg("newsalt", 0)>>)' BY <1>2, <2>3
    <3>3. QED BY <3>1, <3>2 DEF Phase, LoginPhase
  <2>4. CASE /\ cl.cmd.cmd \in Simple \cup Listing \cup {"cd"}
             /\ ~\E a \in {"ARGS_NUM_ERROR", "ERROR_CMD"} : On(<<>>, "command", <<Ack(a)>>)
    <3> HIDE DEF Ack, Result, Msg
    <3>0. cl.cmd.cmd \notin {"exit", "rp"} /\ ~Waits(<<Request>>, <<DoneMsg, Request>>)
      BY <1>1, <2>4 DEF Waits, Arrived, Simple, Listing
    <3>1. \/ On(<<>>, "command", <<Ack("NO_ERROR"), Result("RUN_ERROR")>>)
          \/ /\ cl.cmd.cmd \in Simple
             /\ On(<<>>, "command", <<Ack("NO_ERROR"), Result("NO_ERROR")>>)
          \/ /\ cl.cmd.cmd \notin Simple
             /\ \/ On(<<>>, "command", <<Ack("NO_ERROR"), Result("NO_ERROR"), Msg("len", 0)>>)
                \/ On(<<>>, "command", <<Ack("NO_ERROR"), Result("NO_ERROR"), Msg("len", 1),
                                         Msg("text", 0)>>)
      BY <1>3, <2>4, <3>0 DEF CommandPhase
    <3>2. Asked = "NO_ERROR" BY <3>1 DEF Asked, Ack, Msg
    <3>3. cl'.pc = "result" BY <1>2, <2>4, <3>2 DEF AfterAck, Simple, Listing
    <3>4. \/ On(<<>>, "command", <<Result("RUN_ERROR")>>)'
          \/ /\ cl.cmd.cmd \in Simple
             /\ On(<<>>, "command", <<Result("NO_ERROR")>>)'
          \/ /\ cl.cmd.cmd \notin Simple
             /\ \/ On(<<>>, "command", <<Result("NO_ERROR"), Msg("len", 0)>>)'
                \/ On(<<>>, "command", <<Result("NO_ERROR"), Msg("len", 1), Msg("text", 0)>>)'
      <4> DEFINE no == Ack("NO_ERROR")  good == Result("NO_ERROR")  bad == Result("RUN_ERROR")
                 l0 == Msg("len", 0)  l1 == Msg("len", 1)  t == Msg("text", 0)
      <4> HIDE DEF no, good, bad, l0, l1, t
      <4>1. /\ Tail(<<no, bad>>) = <<bad>> /\ Tail(<<no, good>>) = <<good>>
            /\ Tail(<<no, good, l0>>) = <<good, l0>>
            /\ Tail(<<no, good, l1, t>>) = <<good, l1, t>>
        OBVIOUS
      <4>2. bad' = bad /\ good' = good /\ l0' = l0 /\ l1' = l1 /\ t' = t
        BY DEF bad, good, l0, l1, t
      <4>3. toServer' = <<>> /\ sv'.pc = "command" BY <1>2, <3>1
      <4>4. \/ toClient' = <<bad>>
            \/ cl.cmd.cmd \in Simple /\ toClient' = <<good>>
            \/ cl.cmd.cmd \notin Simple /\ toClient' \in {<<good, l0>>, <<good, l1, t>>}
        BY <1>2, <3>1, <4>1 DEF no, good, bad, l0, l1, t
      <4>5. QED BY <4>2, <4>3, <4>4 DEF good, bad, l0, l1, t
    <3>5. CommandPhase("result")' BY <1>2, <2>4, <3>4 DEF CommandPhase
    <3>6. QED BY <3>3, <3>5 DEF Phase
  <2>5. QED BY <1>1, <1>3, <2>1, <2>2, <2>3, <2>4 DEF CommandPhase, Waits, Arrived
<1>4. CASE DownloadPhase("ack")
  <2>1. cl.cmd \in Commands /\ cl.cmd.cmd = "download" BY <1>4 DEF DownloadPhase
  <2>2. CASE On(<<>>, "command", <<Ack("NO_ERROR"), Msg("size", -2)>>)
    <3>1. Asked = "NO_ERROR" BY <2>2 DEF On, Asked, Ack, Msg
    <3>2. cl'.pc = "size" BY <1>2, <2>1, <3>1 DEF AfterAck
    <3>3. On(<<>>, "command", <<Msg("size", -2)>>)' BY <1>2, <2>2 DEF On, Msg
    <3>4. QED BY <1>2, <2>1, <3>2, <3>3 DEF Phase, DownloadPhase
  <2>3. CASE \E n \in Nat : Sending(<<Ack("NO_ERROR"), Msg("size", n)>>, Here + n)
    <3>1. PICK n \in Nat : Sending(<<Ack("NO_ERROR"), Msg("size", n)>>, Here + n) BY <2>3
    <3> DEFINE data == Run(Here, sv.pos)
    <3>2. toClient = <<Ack("NO_ERROR"), Msg("size", n)>> \o data BY <3>1 DEF Sending
    <3>3. data \in Seq(DataMsgs)
      <4>1. Here \in Int /\ sv.pos \in Int BY <2>1, FileSizes DEF Servers
      <4>2. QED BY <4>1, <3>1, RunIsSeq DEF Sending
    <3>4. Head(toClient) = Ack("NO_ERROR") /\ Tail(toClient) = <<Msg("size", n)>> \o data
      BY <3>2, <3>3, Prefixed
    <3>5. cl'.pc = "size" BY <1>2, <2>1, <3>4 DEF Asked, Ack, Msg, AfterAck
    <3>6. Sending(<<Msg("size", n)>>, Here + n)'
      BY <1>2, <3>1, <3>4 DEF Sending, Here, There, File
    <3>7. QED BY <1>2, <2>1, <3>5, <3>6 DEF Phase, DownloadPhase
  <2>4. QED BY <1>4, <2>2, <2>3 DEF DownloadPhase
<1>5. CASE UploadPhase("ack")
  <2>1. cl.cmd \in Commands /\ cl.cmd.cmd = "upload" /\ Here = Size(File)
    BY <1>5 DEF UploadPhase
  <2>2. CASE On(<<>>, "command", <<Ack("NO_ERROR"), Msg("offset", -4)>>)
    <3>1. Asked = "NO_ERROR" BY <2>2 DEF On, Asked, Ack, Msg
    <3>2. cl'.pc = "offset" BY <1>2, <2>1, <3>1 DEF AfterAck
    <3>3. On(<<>>, "command", <<Msg("offset", -4)>>)' BY <1>2, <2>2 DEF On, Msg
    <3>4. QED BY <1>2, <2>1, <3>2, <3>3 DEF Phase, UploadPhase, Here, File
  <2>3. CASE Receiving(<<>>, <<Ack("NO_ERROR"), Msg("offset", There)>>)
    <3>1. \E s \in {<<>>, <<Msg("stored", 0)>>} :
             toClient = <<Ack("NO_ERROR"), Msg("offset", There)>> \o s
      BY <2>3 DEF Receiving, On
    <3>2. Asked = "NO_ERROR" BY <3>1 DEF Asked, Ack, Msg
    <3>3. cl'.pc = "offset" BY <1>2, <2>1, <3>2 DEF AfterAck
    <3>4. Receiving(<<>>, <<Msg("offset", There)>>)'
      <4>1. CASE sv.pc = "data" 
        <5>1. toClient = <<Ack("NO_ERROR"), Msg("offset", There)>> 
          BY <2>3, <4>1 DEF Receiving, On
        <5>2. toClient' = <<Msg("offset", There)>> BY <1>2, <5>1
        <5>3. QED BY <1>2, <2>3, <4>1, <5>2 DEF Receiving, On, File, There
      <4>2. CASE sv.pc # "data" 
        <5>1. toClient = <<Ack("NO_ERROR"), Msg("offset", There)>> \o <<Msg("stored", 0)>>
          BY <2>3, <4>2 DEF Receiving, On
        <5>2. toClient' = <<Msg("offset", There)>> \o <<Msg("stored", 0)>>
          BY <1>2, <5>1
        <5>3. QED BY <1>2, <2>3, <4>2, <5>2 DEF Receiving, On, File, There
      <4>3. QED BY <4>1, <4>2
    <3>5. QED BY <1>2, <2>1, <3>3, <3>4 DEF Phase, UploadPhase, Here, There, File
  <2>4. QED BY <1>5, <2>2, <2>3 DEF UploadPhase
<1>6. QED BY <1>1, <1>3, <1>4, <1>5 DEF Phase, LoginPhase

\* The result of a command that is run.
LEMMA ResultStep ==
    ASSUME cl \in Clients, Phase(cl.pc), RecvResult
    PROVE  Phase(cl.pc)'
<1>1. cl.pc = "result" /\ Arrived(toClient, "result") BY DEF RecvResult, ClientReads
<1>2. CommandPhase("result") BY <1>1 DEF Phase, LoginPhase, DownloadPhase, UploadPhase
<1>3. /\ cl'.pc = IF Asked = "NO_ERROR" /\ cl.cmd.cmd \in Listing \cup {"cd"}
                  THEN "len" ELSE "prompt"
      /\ sv' = sv /\ toServer' = toServer \o <<>> /\ toClient' = Tail(toClient)
  BY DEF RecvResult, ClientReads, Clients, server
<1>4. toServer = <<>> /\ toServer' = <<>> /\ sv'.pc = "command"
  BY <1>2, <1>3 DEF CommandPhase, On
<1>5. CASE toClient = <<Result("RUN_ERROR")>>
  <2>1. Asked # "NO_ERROR" /\ toClient' = <<>> BY <1>3, <1>5 DEF Asked, Result, Msg
  <2>2. cl'.pc = "prompt" BY <1>3, <2>1
  <2>3. QED BY <1>4, <2>1, <2>2 DEF Phase, CommandPhase, Waits, On
<1>6. CASE cl.cmd.cmd \in Simple /\ toClient = <<Result("NO_ERROR")>>
  <2>1. cl'.pc = "prompt" BY <1>3, <1>6 DEF Simple, Listing
  <2>2. toClient' = <<>> BY <1>3, <1>6
  <2>3. QED BY <1>4, <2>1, <2>2 DEF Phase, CommandPhase, Waits, On
<1>7. CASE /\ cl.cmd.cmd \in Listing \cup {"cd"}
           /\ toClient = <<Result("NO_ERROR"), Msg("len", 0)>>
  <2>1. Asked = "NO_ERROR" BY <1>7 DEF Asked, Result, Msg
  <2>2. cl'.pc = "len" /\ toClient' = <<Msg("len", 0)>> BY <1>3, <1>7, <2>1
  <2>3. QED BY <1>4, <2>2 DEF Phase, LoginPhase, On, Msg
<1>8. CASE /\ cl.cmd.cmd \in Listing \cup {"cd"}
           /\ toClient = <<Result("NO_ERROR"), Msg("len", 1), Msg("text", 0)>>
  <2>1. Asked = "NO_ERROR" BY <1>8 DEF Asked, Result, Msg
  <2>2. cl'.pc = "len" /\ toClient' = <<Msg("len", 1), Msg("text", 0)>> BY <1>3, <1>8, <2>1
  <2>3. QED BY <1>4, <2>2 DEF Phase, LoginPhase, On, Msg
<1>9. QED BY <1>2, <1>5, <1>6, <1>7, <1>8 DEF CommandPhase, On

-----------------------------------------------------------------------------
(***************************************************************************)
(* The client: transfers.                                                  *)
(***************************************************************************)
\* What is under way of a download.
LEMMA SendingData ==
    ASSUME sv \in Servers, Beginnings(local), Beginnings(store), cl.cmd \in Commands,
           NEW pre, NEW total, Sending(pre, total)
    PROVE  /\ Run(Here, sv.pos) \in Seq(DataMsgs) /\ Len(Run(Here, sv.pos)) = sv.pos - Here
           /\ sv.pos \in Nat /\ sv.need \in Int /\ sv.got \in Nat
<1>1. Here \in Nat BY FileSizes
<1>2. sv.pos \in Nat /\ sv.need \in Int /\ sv.got \in Nat BY DEF Servers
<1>3. Here <= sv.pos BY DEF Sending
<1>4. Here \in Int /\ sv.pos \in Int BY <1>1, <1>2
<1>5. QED BY <1>2, <1>3, <1>4, RunIsSeq

LEMMA SizeStep ==
    ASSUME cl \in Clients, sv \in Servers, Beginnings(local), Beginnings(store),
           Phase(cl.pc), RecvSize
    PROVE  Phase(cl.pc)' /\ Asked \in Int /\ File \in Files
<1>1. cl.pc = "size" /\ Arrived(toClient, "size") BY DEF RecvSize
<1>2. DownloadPhase("size") BY <1>1 DEF Phase, LoginPhase, CommandPhase, UploadPhase
<1>3. cl.cmd \in Commands /\ cl.cmd.cmd = "download" BY <1>2 DEF DownloadPhase
<1>4. /\ cl'.pc = IF Asked = -2 THEN "prompt" ELSE "data"
      /\ cl'.need = Asked + Here /\ cl'.cmd = cl.cmd
      /\ toClient' = Tail(toClient)
      /\ UNCHANGED <<toServer, local, store, sv>>
  BY DEF RecvSize, Clients, server, Here
<1>5. File \in Files BY <1>3, FileSizes
<1>6. CASE On(<<>>, "command", <<Msg("size", -2)>>)
  <2>1. Asked = -2 BY <1>6 DEF On, Asked, Msg
  <2>2. cl'.pc = "prompt" /\ On(<<>>, "command", <<>>)' BY <1>4, <1>6, <2>1 DEF On
  <2>3. QED BY <1>5, <2>1, <2>2 DEF Phase, CommandPhase, Waits
<1>7. CASE \E n \in Nat : Sending(<<Msg("size", n)>>, Here + n)
  <2>1. PICK n \in Nat : Sending(<<Msg("size", n)>>, Here + n) BY <1>7
  <2>2. Run(Here, sv.pos) \in Seq(DataMsgs) BY <1>3, <2>1, SendingData
  <2>3. toClient = <<Msg("size", n)>> \o Run(Here, sv.pos) BY <2>1 DEF Sending
  <2>4. Head(toClient) = Msg("size", n) /\ Tail(toClient) = <<>> \o Run(Here, sv.pos)
    BY <2>2, <2>3, Prefixed
  <2>5. Asked = n BY <2>4 DEF Asked, Msg
  <2>6. cl'.pc = "data" /\ cl'.need = Here + n
    <3>1. n # -2 OBVIOUS
    <3>2. Here \in Nat BY <1>3, FileSizes
    <3>3. QED BY <1>4, <2>5, <3>1, <3>2
  <2>7. Sending(<<>>, cl.need)' BY <1>4, <2>1, <2>4, <2>6 DEF Sending, Here, There, File
  <2>8. QED BY <1>3, <1>4, <1>5, <2>5, <2>6, <2>7 DEF Phase, DownloadPhase
<1>8. QED BY <1>2, <1>6, <1>7 DEF DownloadPhase

\* A read of file data: what has arrived goes on where the client's file ends.
LEMMA DataStep ==
    ASSUME cl \in Clients, sv \in Servers, Beginnings(local), Beginnings(store), Behind,
           Phase(cl.pc), RecvData
    PROVE  Phase(cl.pc)' /\ Beginnings(local)' /\ Behind' /\ Here' <= There
<1>1. cl.pc = "data" BY DEF RecvData
<1>2. cl.cmd \in Commands /\ cl.cmd.cmd = "download" /\ Sending(<<>>, cl.need)
  BY <1>1 DEF Phase, LoginPhase, CommandPhase, UploadPhase, DownloadPhase
<1>3. PICK n \in 1..Buf :
          /\ DataArrived(toClient, n)
          /\ local' = [local EXCEPT ![File] = @ \o Chunks(SubSeq(toClient, 1, n))]
          /\ toClient' = SubSeq(toClient, n + 1, Len(toClient))
  BY DEF RecvData
<1>4. UNCHANGED <<cl, toServer, sv, store>> BY DEF RecvData, server
<1>5. /\ File \in Files /\ Size(File) \in Nat /\ Here \in Nat /\ There \in Nat
      /\ local[File] = Beginning(Here) /\ There <= Size(File)
  BY <1>2, FileSizes
<1>6. toClient = Run(Here, sv.pos) /\ Len(toClient) = sv.pos - Here /\ sv.pos \in Nat
  <2>1. Run(Here, sv.pos) \in Seq(DataMsgs) /\ Len(Run(Here, sv.pos)) = sv.pos - Here
        /\ sv.pos \in Nat
    BY <1>2, SendingData
  <2>2. toClient = <<>> \o Run(Here, sv.pos) BY <1>2 DEF Sending
  <2>3. <<>> \o Run(Here, sv.pos) = Run(Here, sv.pos) BY <2>1, Prefixed
  <2>4. QED BY <2>1, <2>2, <2>3
<1>7. n \in Nat /\ n <= sv.pos - Here
  <2>1. n \in 1..Min(Buf, Len(toClient)) BY <1>3 DEF DataArrived
  <2>2. QED BY <2>1, <1>6, BoundsAssumption DEF Min
<1>8. /\ toClient' = Run(Here + n, sv.pos)
      /\ Chunks(SubSeq(toClient, 1, n)) = [i \in 1..n |-> Here + i]
  <2>1. Here \in Int /\ sv.pos \in Int BY <1>5, <1>6
  <2>2. toClient = Run(Here, sv.pos) BY <1>6
  <2>3. toClient' = SubSeq(toClient, n + 1, Len(toClient)) BY <1>3
  <2>4. QED BY <1>7, <2>1, <2>2, <2>3, RunRead
<1>9. local' = [local EXCEPT ![File] = Beginning(Here + n)]
  BY <1>3, <1>5, <1>7, <1>8, BeginningGrows
<1>10. Here' = Here + n /\ There' = There /\ File' = File
  <2>1. File \in DOMAIN local BY <1>5 DEF Beginnings
  <2>2. local'[File] = Beginning(Here + n) BY <1>9, <2>1
  <2>3. Len(Beginning(Here + n)) = Here + n BY <1>5, <1>7, BeginningIsSeq
  <2>4. QED BY <1>4, <2>2, <2>3 DEF Here, There, File
<1>11. Here + n <= sv.pos /\ sv.pos <= There BY <1>2, <1>5, <1>6, <1>7 DEF Sending
<1>12. Sending(<<>>, cl.need)'
  <2>1. Run(Here + n, sv.pos) = <<>> \o Run(Here + n, sv.pos)
    <3>1. Here + n \in Int /\ sv.pos \in Int BY <1>5, <1>6, <1>7
    <3>2. Run(Here + n, sv.pos) \in Seq(DataMsgs) BY <1>11, <3>1, RunIsSeq
    <3>3. QED BY <3>2, Prefixed
  <2>2. QED BY <1>2, <1>4, <1>8, <1>10, <1>11, <2>1 DEF Sending
<1>13. Phase(cl.pc)' BY <1>1, <1>2, <1>4, <1>12 DEF Phase, DownloadPhase
<1>14. Beginnings(local)'
  <2>1. local = [f \in Files |-> Beginning(Len(local[f]))]
        /\ \A f \in Files : Len(local[f]) \in 0..Size(f)
    BY DEF Beginnings
  <2>2. \A f \in Files : local'[f] = IF f = File THEN Beginning(Here + n) ELSE local[f]
    BY <1>9, <2>1
  <2>3. Len(local'[File]) = Here + n BY <1>10 DEF Here, File
  <2>4. ASSUME NEW f \in Files
        PROVE  local'[f] = Beginning(Len(local'[f])) /\ Len(local'[f]) \in 0..Size(f)
    <3>1. CASE f = File
      <4>1. Here + n \in 0..Size(File) BY <1>5, <1>6, <1>7, <1>11
      <4>2. local'[f] = Beginning(Here + n) /\ Len(local'[f]) = Here + n
        BY <2>2, <2>3, <3>1
      <4>3. QED BY <3>1, <4>1, <4>2
    <3>2. CASE f # File
      <4>1. local'[f] = local[f] BY <2>2, <3>2
      <4>2. QED BY <2>1, <4>1
    <3>3. QED BY <3>1, <3>2
  <2>5. local' = [f \in Files |-> local'[f]]
    <3>1. DOMAIN local = Files BY <2>1
    <3>2. QED BY <1>9, <3>1
  <2>6. QED BY <2>4, <2>5 DEF Beginnings
<1>15. Behind'
  <2>1. ASSUME NEW c \in Commands, c.cmd = "download"
        PROVE  Len(local'[c.file]) <= Len(store[c.file])
    <3>1. CASE c.file = File
      <4>1. Len(local'[File]) = Here + n BY <1>10 DEF Here, File
      <4>2. QED BY <1>5, <1>6, <1>7, <1>11, <3>1, <4>1 DEF There
    <3>2. CASE c.file # File
      <4>1. local'[c.file] = local[c.file] BY <1>9, <3>2
      <4>2. QED BY <2>1, <4>1 DEF Behind
    <3>3. QED BY <3>1, <3>2
  <2>2. QED BY <1>4, <2>1 DEF Behind
<1>16. QED BY <1>5, <1>6, <1>7, <1>10, <1>11, <1>13, <1>14, <1>15

\* All has come: the session has sent all, or has still to notice that it has.
LEMMA DownloadDoneStep ==
    ASSUME cl \in Clients, sv \in Servers, Beginnings(local), Beginnings(store),
           Phase(cl.pc), DownloadDone
    PROVE  Phase(cl.pc)'
<1>1. cl.pc = "data" /\ Here >= cl.need BY DEF DownloadDone, Here
<1>2. cl.cmd \in Commands /\ Sending(<<>>, cl.need)
  BY <1>1 DEF Phase, LoginPhase, CommandPhase, UploadPhase, DownloadPhase
<1>3. cl'.pc = "prompt" /\ toServer' = Append(toServer, DoneMsg)
      /\ UNCHANGED <<toClient, sv>>
  BY DEF DownloadDone, Clients, DoneMsg, server
<1>4. /\ Here \in Nat /\ cl.need \in Int /\ sv.pos \in Nat /\ sv.need \in Int /\ sv.got \in Nat
      /\ Run(Here, sv.pos) \in Seq(DataMsgs)
  BY <1>2, FileSizes, SendingData DEF Clients
<1>5. Here = sv.pos /\ sv.pos = cl.need BY <1>1, <1>2, <1>4 DEF Sending
<1>6. toClient = <<>>
  <2>1. Run(Here, sv.pos) = <<>>
    <3>1. Here \in Int /\ sv.pos \in Int /\ Here <= sv.pos BY <1>4, <1>5
    <3>2. QED BY <1>5, <3>1, RunIsSeq
  <2>2. QED BY <1>2, <2>1 DEF Sending
<1>7. toServer' = <<DoneMsg>> BY <1>2, <1>3 DEF Sending
<1>8. sv.pc = "done" \/ (sv.pc = "send" /\ sv.got >= sv.need)
  <2>1. sv.pc = "send" => sv.need - sv.got = cl.need - sv.pos BY <1>2 DEF Sending
  <2>2. sv.pc \in {"send", "done"} BY <1>2 DEF Sending
  <2>3. QED BY <1>4, <1>5, <2>1, <2>2
<1>9. Waits(<<>>, <<DoneMsg>>)' BY <1>3, <1>6, <1>7, <1>8 DEF Waits, On, DoneMsg
<1>10. QED BY <1>3, <1>9 DEF Phase, CommandPhase

LEMMA OffsetStep ==
    ASSUME cl \in Clients, sv \in Servers, Beginnings(local), Beginnings(store),
           Phase(cl.pc), RecvOffset
    PROVE  Phase(cl.pc)' /\ Asked \in Int
<1>1. cl.pc = "offset" BY DEF RecvOffset
<1>2. UploadPhase("offset") BY <1>1 DEF Phase, LoginPhase, CommandPhase, DownloadPhase
<1>3. cl.cmd \in Commands /\ cl.cmd.cmd = "upload" /\ Here = Size(File)
  BY <1>2 DEF UploadPhase
<1>4. /\ cl'.pc = IF Asked = -4 THEN "prompt" ELSE "send"
      /\ cl'.pos = Asked /\ cl'.cmd = cl.cmd
      /\ toClient' = Tail(toClient)
      /\ UNCHANGED <<toServer, local, store, sv>>
  BY DEF RecvOffset, Clients, server
<1>5. /\ Size(File) \in Nat /\ There \in Nat /\ There <= Size(File)
      /\ File' = File /\ Here' = Here /\ There' = There
  BY <1>3, <1>4, FileSizes DEF File, Here, There
<1>6. CASE On(<<>>, "command", <<Msg("offset", -4)>>)
  <2>1. Asked = -4 BY <1>6 DEF On, Asked, Msg
  <2>2. cl'.pc = "prompt" /\ On(<<>>, "command", <<>>)' BY <1>4, <1>6, <2>1 DEF On
  <2>3. QED BY <2>1, <2>2 DEF Phase, CommandPhase, Waits
<1>7. CASE Receiving(<<>>, <<Msg("offset", There)>>)
  <2>1. \/ /\ toServer = <<>> /\ sv.pc = "data" /\ toClient = <<Msg("offset", There)>>
           /\ sv.file = File /\ sv.need - sv.got = Size(File) - There
        \/ /\ toServer = <<>> /\ sv.pc = "command" /\ There = Size(File)
           /\ toClient = <<Msg("offset", There)>> \o <<Msg("stored", 0)>>
    BY <1>7 DEF Receiving, On
  <2>2. Asked = There BY <2>1 DEF Asked, Msg
  <2>3. cl'.pc = "send" /\ cl'.pos = There
    <3>1. There # -4 BY <1>5
    <3>2. QED BY <1>4, <2>2, <3>1
  <2>4. Run(There, There) = <<>>
    <3>1. There \in Int /\ There <= There BY <1>5
    <3>2. QED BY <3>1, RunIsSeq
  <2>5. Receiving(<<>>, <<>>)'
    <3>1. CASE sv.pc = "data"
      <4>1. toClient' = <<>>
        <5>1. toClient = <<Msg("offset", There)>> BY <2>1, <3>1
        <5>2. QED BY <1>4, <5>1
      <4>2. QED BY <1>4, <1>5, <2>1, <3>1, <4>1 DEF Receiving, On
    <3>2. CASE sv.pc = "command"
      <4>1. toClient' = <<Msg("stored", 0)>>
        <5> DEFINE s == <<Msg("stored", 0)>>
        <5>1. toClient = <<Msg("offset", There)>> \o s BY <2>1, <3>2
        <5>2. s \in Seq({Msg("stored", 0)}) /\ <<>> \o s = s OBVIOUS
        <5>3. Tail(<<Msg("offset", There)>> \o s) = <<>> \o s BY <5>2, Prefixed
        <5>4. QED BY <1>4, <5>1, <5>2, <5>3
      <4>2. <<>> \o <<Msg("stored", 0)>> = <<Msg("stored", 0)>> OBVIOUS
      <4>3. toClient' = (<<>> \o <<Msg("stored", 0)>>)' BY <4>1, <4>2 DEF Msg
      <4>4. QED BY <1>4, <1>5, <2>1, <3>2, <4>3 DEF Receiving, On
    <3>3. QED BY <2>1, <3>1, <3>2
  <2>6. Receiving(Run(There, cl.pos), <<>>)'
    <3>1. Run(There, cl.pos)' = <<>>
      <4>1. Run(There, cl.pos)' = Run(There', cl'.pos) BY DEF Run, Msg
      <4>2. QED BY <1>5, <2>3, <2>4, <4>1
    <3>2. QED BY <2>5, <3>1 DEF Receiving, On
  <2>7. There' <= cl'.pos /\ cl'.pos <= Size(File)' BY <1>5, <2>3
  <2>8. UploadPhase("send")' BY <1>3, <1>4, <1>5, <2>6, <2>7 DEF UploadPhase
  <2>9. QED BY <1>5, <2>2, <2>3, <2>8 DEF Phase
<1>8. QED BY <1>2, <1>6, <1>7 DEF UploadPhase

LEMMA SendDataStep ==
    ASSUME cl \in Clients, sv \in Servers, Beginnings(local), Beginnings(store),
           Phase(cl.pc), SendData
    PROVE  Phase(cl.pc)' /\ cl'.pos \in Int
<1>1. cl.pc = "send" /\ cl.pos < Here BY DEF SendData, Here
<1>2. /\ cl.cmd \in Commands /\ cl.cmd.cmd = "upload" /\ Here = Size(File)
      /\ There <= cl.pos /\ Receiving(Run(There, cl.pos), <<>>)
  BY <1>1 DEF Phase, LoginPhase, CommandPhase, DownloadPhase, UploadPhase
<1>3. /\ Size(File) \in Nat /\ There \in Nat /\ cl.pos \in Int /\ Buf \in Nat \ {0}
      /\ local[File] = Beginning(Here)
  BY <1>2, FileSizes, BoundsAssumption DEF Clients
<1> DEFINE upto == Min(cl.pos + Buf, Here)
<1>4. upto \in Nat /\ cl.pos \in Nat /\ cl.pos <= upto /\ upto <= Here
  BY <1>1, <1>2, <1>3 DEF Min
<1>5. /\ cl'.pc = "send" /\ cl'.cmd = cl.cmd /\ cl'.pos = upto
      /\ toServer' = toServer \o Data(SubSeq(local[File], cl.pos + 1, upto))
      /\ UNCHANGED <<toClient, local, store, sv>>
  BY <1>1 DEF SendData, Clients, server, Here
<1>6. File' = File /\ Here' = Here /\ There' = There BY <1>5 DEF File, Here, There
<1>7. /\ toServer = Run(There, cl.pos) /\ sv.pc = "data" /\ toClient = <<>>
      /\ sv.file = File /\ sv.need - sv.got = Size(File) - There
  <2>1. There # Size(File) BY <1>1, <1>2, <1>3
  <2>2. QED BY <1>2, <2>1 DEF Receiving, On
<1>8. toServer' = Run(There, upto)
  <2>1. Data(SubSeq(Beginning(Here), cl.pos + 1, upto)) = Run(cl.pos, upto)
    <3>1. Here \in Nat BY <1>2, <1>3
    <3>2. QED BY <1>4, <3>1, DataIsRun
  <2>2. Run(There, cl.pos) \o Run(cl.pos, upto) = Run(There, upto)
    <3>1. There \in Int /\ cl.pos \in Int /\ upto \in Int BY <1>3, <1>4
    <3>2. QED BY <1>2, <1>4, <3>1, RunJoin
  <2>3. QED BY <1>3, <1>5, <1>7, <2>1, <2>2
<1>9. Receiving(Run(There, cl.pos), <<>>)'
  <2>1. Run(There, cl.pos)' = Run(There', cl'.pos) BY DEF Run, Msg
  <2>2. toServer' = Run(There, cl.pos)' BY <1>5, <1>6, <1>8, <2>1
  <2>3. QED BY <1>5, <1>6, <1>7, <2>2 DEF Receiving, On
<1>10. There' <= cl'.pos /\ cl'.pos <= Size(File)'
  <2>1. There <= upto /\ upto <= Size(File) BY <1>2, <1>3, <1>4
  <2>2. QED BY <1>5, <1>6, <2>1
<1>11. UploadPhase("send")' BY <1>2, <1>5, <1>6, <1>9, <1>10 DEF UploadPhase
<1>12. QED BY <1>4, <1>5, <1>11 DEF Phase

LEMMA AllSentStep ==
    ASSUME cl \in Clients, Beginnings(local), Beginnings(store), Phase(cl.pc), AllSent
    PROVE  Phase(cl.pc)'
<1>1. cl.pc = "send" /\ cl.pos >= Here BY DEF AllSent, Here
<1>2. /\ cl.cmd \in Commands /\ cl.cmd.cmd = "upload" /\ Here = Size(File)
      /\ There <= cl.pos /\ cl.pos <= Size(File) /\ Receiving(Run(There, cl.pos), <<>>)
  BY <1>1 DEF Phase, LoginPhase, CommandPhase, DownloadPhase, UploadPhase
<1>3. cl.pos = Size(File)
  <2>1. cl.pos \in Int /\ Size(File) \in Nat BY <1>2, FileSizes DEF Clients
  <2>2. QED BY <1>1, <1>2, <2>1
<1>4. /\ cl'.pc = "stored" /\ cl'.cmd = cl.cmd /\ cl'.pos = cl.pos
      /\ UNCHANGED <<toServer, toClient, local, store, sv>>
  BY DEF AllSent, Clients, server
<1>5. UploadPhase("stored")'
  BY <1>2, <1>3, <1>4 DEF UploadPhase, Receiving, On, Run, Msg, Here, There, File
<1>6. QED BY <1>4, <1>5 DEF Phase

LEMMA StoredStep ==
    ASSUME cl \in Clients, Beginnings(local), Beginnings(store), Phase(cl.pc), RecvStored
    PROVE  Phase(cl.pc)' /\ Finished'
<1>1. cl.pc = "stored" /\ Arrived(toClient, "stored") BY DEF RecvStored
<1>2. /\ cl.cmd \in Commands /\ cl.cmd.cmd = "upload" /\ Here = Size(File)
      /\ Receiving(Run(There, cl.pos), <<>>)
  BY <1>1 DEF Phase, LoginPhase, CommandPhase, DownloadPhase, UploadPhase
<1>3. /\ cl'.pc = "prompt" /\ cl'.cmd = cl.cmd
      /\ toClient' = Tail(toClient) /\ UNCHANGED <<toServer, local, store, sv>>
  BY DEF RecvStored, Clients, server
<1>4. On(<<>>, "command", <<>> \o <<Msg("stored", 0)>>) /\ There = Size(File)
  BY <1>1, <1>2 DEF Receiving, On, Arrived
<1>5. toClient' = <<>>
  <2>1. <<>> \o <<Msg("stored", 0)>> = <<Msg("stored", 0)>> OBVIOUS
  <2>2. QED BY <1>3, <1>4, <2>1 DEF On
<1>6. Phase(cl.pc)' BY <1>3, <1>4, <1>5 DEF Phase, CommandPhase, Waits, On
<1>7. Finished' BY <1>2, <1>3, <1>4 DEF Finished, Here, There, File
<1>8. QED BY <1>6, <1>7

\* Files of the two sides that a step leaves alone stay as they are.
LEMMA FilesStay ==
    ASSUME Beginnings(local), Beginnings(store), Behind, UNCHANGED <<local, store>>
    PROVE  Beginnings(local)' /\ Beginnings(store)' /\ Behind'
BY DEF Beginnings, Behind

ClientMoves == ClientStep \/ UserLogin \/ \E c \in Commands : Type(c)

\* Every step of the client that stays connected.
LEMMA ClientTyped ==
    ASSUME IInv, ClientMoves
    PROVE  /\ Typed'
           /\ cl.pc \in Places /\ Phase(cl.pc)
           /\ UNCHANGED <<sv, store, entries, conns>>
           /\ ~RecvData => UNCHANGED local
           /\ ~RecvStored => Finished'
<1> USE DEF Typed
<1>1. cl \in Clients /\ sv \in Servers BY DEF IInv
<1>2. cl.pc \in Places
  BY DEF ClientMoves, ClientStep, RecvFlag, RecvSalt, RecvId, RecvLen, RecvText, RecvAck,
         RecvResult, RecvNewSalt, RecvNewPasswd, RecvSize, RecvData, DownloadDone, RecvOffset,
         SendData, AllSent, RecvStored, ClientReads, UserLogin, Type, Places, ClientPlaces
<1>3. Phase(cl.pc) BY <1>2, ClientPhase DEF IInv
<1>4. cl.out = "stored" => cl.pc = "prompt"
  <2>1. "gone" \notin Places BY DEF Places, ClientPlaces
  <2>2. QED BY <1>2, <2>1 DEF IInv, Finished
<1>5. UNCHANGED <<sv, store, entries, conns>>
  BY DEF ClientMoves, ClientStep, RecvFlag, RecvSalt, RecvId, RecvLen, RecvText, RecvAck,
         RecvResult, RecvNewSalt, RecvNewPasswd, RecvSize, RecvData, DownloadDone, RecvOffset,
         SendData, AllSent, RecvStored, ClientReads, UserLogin, Type, server
<1>6. ~RecvData => UNCHANGED local
  BY DEF ClientMoves, ClientStep, RecvFlag, RecvSalt, RecvId, RecvLen, RecvText, RecvAck,
         RecvResult, RecvNewSalt, RecvNewPasswd, RecvSize, DownloadDone, RecvOffset,
         SendData, AllSent, RecvStored, ClientReads, UserLogin, Type
<1>7. ASSUME NEW place \in Places \cup {"gone"}, cl' = [cl EXCEPT !.pc = place],
             cl.pc # "prompt"
      PROVE  cl' \in Clients /\ Finished'
  <2>1. cl' \in Clients BY <1>1, <1>7 DEF Clients
  <2>2. cl'.out = cl.out BY <1>1, <1>7 DEF Clients
  <2>3. QED BY <1>4, <1>7, <2>1, <2>2 DEF Finished
<1>8. cl' \in Clients /\ (~RecvStored => Finished')
  <2> USE DEF Places, ClientPlaces
  <2>1. ASSUME NEW k \in ClientPlaces, NEW next \in Places \cup {"gone"}, NEW out, ClientReads(k, next, out)
        PROVE  cl' \in Clients /\ Finished'
    BY <1>7, <2>1 DEF ClientReads
  <2>2. CASE RecvFlag BY <2>1, <2>2 DEF RecvFlag
  <2>3. CASE RecvSalt BY <2>1, <2>3 DEF RecvSalt
  <2>4. CASE RecvId BY <2>1, <2>4 DEF RecvId
  <2>5. CASE RecvLen BY <2>1, <2>5 DEF RecvLen
  <2>6. CASE RecvText BY <2>1, <2>6 DEF RecvText
  <2>7. CASE RecvAck
    <3>1. AfterAck(cl.cmd.cmd) \in Places \cup {"gone"} BY DEF AfterAck
    <3>2. QED BY <2>1, <2>7, <3>1 DEF RecvAck
  <2>8. CASE RecvResult BY <2>1, <2>8 DEF RecvResult
  <2>9. CASE RecvNewSalt BY <2>1, <2>9 DEF RecvNewSalt
  <2>10. CASE RecvNewPasswd BY <2>1, <2>10 DEF RecvNewPasswd
  <2>11. CASE RecvSize
    <3>1. Asked \in Int /\ File \in Files BY <1>1, <1>3, <2>11, SizeStep DEF IInv
    <3>2. Len(local[File]) \in Int BY <3>1 DEF IInv, Beginnings
    <3>3. cl' \in Clients
      <4>1. PICK place \in Places, need \in Int : cl' = [cl EXCEPT !.pc = place, !.need = need]
        <5>1. Asked + Len(local[File]) \in Int BY <3>1, <3>2
        <5>2. "prompt" \in Places /\ "data" \in Places OBVIOUS
        <5>3. QED BY <2>11, <5>1, <5>2 DEF RecvSize
      <4>2. QED BY <1>1, <4>1 DEF Clients
    <3>4. cl'.out = cl.out /\ cl.pc = "size" BY <1>1, <2>11 DEF RecvSize, Clients
    <3>5. QED BY <1>4, <3>3, <3>4 DEF Finished
  <2>12. CASE RecvData
    <3>1. cl' = cl /\ cl.pc = "data" BY <2>12 DEF RecvData
    <3>2. QED BY <1>1, <1>4, <3>1 DEF Finished
  <2>13. CASE DownloadDone
    <3>1. cl' \in Clients /\ cl'.out \in {"whole", "wrong"}
      BY <1>1, <2>13 DEF DownloadDone, Clients
    <3>2. QED BY <3>1 DEF Finished
  <2>14. CASE RecvOffset
    <3>1. Asked \in Int BY <1>1, <1>3, <2>14, OffsetStep DEF IInv
    <3>2. cl' \in Clients BY <1>1, <2>14, <3>1 DEF RecvOffset, Clients
    <3>3. cl'.out = cl.out /\ cl.pc = "offset" BY <1>1, <2>14 DEF RecvOffset, Clients
    <3>4. QED BY <1>4, <3>2, <3>3 DEF Finished
  <2>15. CASE SendData
    <3>1. cl'.pos \in Int BY <1>1, <1>3, <2>15, SendDataStep DEF IInv
    <3>2. cl' = [cl EXCEPT !.pos = cl'.pos] /\ cl.pc = "send"
      BY <1>1, <2>15 DEF SendData, Clients
    <3>3. cl' \in Clients /\ cl'.out = cl.out BY <1>1, <3>1, <3>2 DEF Clients
    <3>4. QED BY <1>4, <3>2, <3>3 DEF Finished
  <2>16. CASE AllSent BY <1>7, <2>16 DEF AllSent
  <2>17. CASE RecvStored BY <1>1, <2>17 DEF RecvStored, Clients
  <2>18. CASE UserLogin BY <1>7, <2>18 DEF UserLogin
  <2>19. CASE \E c \in Commands : Type(c)
    <3>1. PICK c \in Commands : Type(c) BY <2>19
    <3>2. cl' \in Clients /\ cl'.out = "none" BY <1>1, <3>1 DEF Type, Clients
    <3>3. QED BY <3>2 DEF Finished
  <2>20. QED
    BY <2>2, <2>3, <2>4, <2>5, <2>6, <2>7, <2>8, <2>9, <2>10, <2>11, <2>12, <2>13, <2>14,
       <2>15, <2>16, <2>17, <2>18, <2>19 DEF ClientMoves, ClientStep
<1>9. Typed' BY <1>5, <1>8 DEF IInv
<1>10. QED BY <1>2, <1>3, <1>5, <1>6, <1>8, <1>9

LEMMA ClientKeeps ==
    ASSUME Regular, IInv, ClientMoves
    PROVE  IInv'
<1>1. /\ cl \in Clients /\ sv \in Servers /\ Beginnings(local) /\ Beginnings(store) /\ Behind
  BY DEF IInv, Typed
<1>2. /\ Typed' /\ cl.pc \in Places /\ Phase(cl.pc)
      /\ UNCHANGED <<sv, store>>
      /\ ~RecvData => UNCHANGED local
      /\ ~RecvStored => Finished'
  BY ClientTyped
<1>3. Finished' BY <1>1, <1>2, StoredStep
<1>4. Beginnings(local)' /\ Beginnings(store)' /\ Behind'
  <2>1. CASE RecvData
    <3>1. Beginnings(local)' /\ Behind' BY <1>1, <1>2, <2>1, DataStep
    <3>2. QED BY <1>1, <1>2, <3>1 DEF Beginnings
  <2>2. CASE ~RecvData BY <1>1, <1>2, <2>2, FilesStay
  <2>3. QED BY <2>1, <2>2
<1>5. Phase(cl.pc)' \/ Ended'
  <2>1. CASE \E c \in Commands : Type(c) BY <1>1, <1>2, <2>1, TypeStep
  <2>2. CASE \/ UserLogin \/ RecvFlag \/ RecvSalt \/ RecvId \/ RecvLen \/ RecvText
             \/ RecvNewSalt \/ RecvNewPasswd
    BY <1>1, <1>2, <2>2, LoginSteps
  <2>3. CASE RecvAck BY <1>1, <1>2, <2>3, AckStep
  <2>4. CASE RecvResult BY <1>1, <1>2, <2>4, ResultStep
  <2>5. CASE RecvSize BY <1>1, <1>2, <2>5, SizeStep
  <2>6. CASE RecvData BY <1>1, <1>2, <2>6, DataStep
  <2>7. CASE DownloadDone BY <1>1, <1>2, <2>7, DownloadDoneStep
  <2>8. CASE RecvOffset BY <1>1, <1>2, <2>8, OffsetStep
  <2>9. CASE SendData BY <1>1, <1>2, <2>9, SendDataStep
  <2>10. CASE AllSent BY <1>1, <1>2, <2>10, AllSentStep
  <2>11. CASE RecvStored BY <1>1, <1>2, <2>11, StoredStep
  <2>12. QED
    BY <2>1, <2>2, <2>3, <2>4, <2>5, <2>6, <2>7, <2>8, <2>9, <2>10, <2>11
       DEF ClientMoves, ClientStep
<1>6. Conversation'
  <2>1. CASE Ended' BY <2>1 DEF Conversation
  <2>2. CASE Phase(cl.pc)' /\ cl'.pc \in Places BY <2>2 DEF Conversation
  <2>3. ~(Phase(cl.pc)' /\ cl'.pc = "gone")
    BY DEF Phase, LoginPhase, CommandPhase, DownloadPhase, UploadPhase
  <2>4. cl'.pc \in Places \cup {"gone"} BY <1>2 DEF Typed, Clients
  <2>5. QED BY <1>5, <2>1, <2>2, <2>3, <2>4
<1>7. QED BY <1>2, <1>3, <1>4, <1>6 DEF IInv

\* The client goes: what was under way stays as it is.
LEMMA LeaveKeeps ==
    ASSUME IInv, Leave
    PROVE  IInv'
<1>1. /\ cl \in Clients /\ cl.pc # "gone" /\ cl' = [cl EXCEPT !.pc = "gone"]
      /\ UNCHANGED <<sv, toServer, toClient, local, store, entries, conns>>
  BY DEF IInv, Typed, Leave, server
<1>2. /\ cl' \in Clients /\ cl'.pc = "gone" /\ cl'.cmd = cl.cmd
      /\ cl'.need = cl.need /\ cl'.pos = cl.pos
  BY <1>1 DEF Clients
<1>3. Typed' BY <1>1, <1>2 DEF IInv, Typed
<1>4. Beginnings(local)' /\ Beginnings(store)' /\ Behind' BY <1>1, FilesStay DEF IInv
<1>5. Finished' BY <1>2 DEF Finished
<1>6. Conversation'
  <2>1. cl.pc \in Places BY <1>1 DEF Clients
  <2>2. Phase(cl.pc) BY <2>1, ClientPhase DEF IInv
  <2>3. PICK p \in Places : p = cl.pc BY <2>1
  <2>4. Phase(p) BY <2>2, <2>3
  <2>5. LoginPhase(p) => LoginPhase(p)' BY <1>1, <1>2 DEF LoginPhase, On, Msg
  <2>6. CommandPhase(p) => CommandPhase(p)'
    BY <1>1, <1>2 DEF CommandPhase, Waits, On, Msg, Ack, Result, DoneMsg, Request, Here, File
  <2>7. DownloadPhase(p) => DownloadPhase(p)'
    BY <1>1, <1>2 DEF DownloadPhase, Sending, On, Msg, Ack, Run, Here, There, File
  <2>8. UploadPhase(p) => UploadPhase(p)'
    BY <1>1, <1>2 DEF UploadPhase, Receiving, On, Msg, Ack, Run, Here, There, File
  <2>9. Phase(p)' BY <2>4, <2>5, <2>6, <2>7, <2>8 DEF Phase
  <2>10. QED BY <1>2, <2>9 DEF Conversation
<1>7. QED BY <1>3, <1>4, <1>5, <1>6 DEF IInv

-----------------------------------------------------------------------------
(***************************************************************************)
(* The session: login and commands.                                        *)
(***************************************************************************)
LEMMA ThreeMessages ==
    ASSUME NEW x, NEW y, NEW z
    PROVE  <<x>> \o <<y, z>> = <<x, y, z>> /\ <<x, y>> \o <<z>> = <<x, y, z>>
<1> DEFINE S == {x, y, z}  l == <<x>> \o <<y, z>>  m == <<x, y>> \o <<z>>
<1>1. /\ <<x>> \in Seq(S) /\ <<y, z>> \in Seq(S) /\ <<x, y>> \in Seq(S) /\ <<z>> \in Seq(S)
      /\ <<x, y, z>> \in Seq(S)
  OBVIOUS
<1>2. /\ l \in Seq(S) /\ Len(l) = 3 /\ l[1] = x /\ l[2] = y /\ l[3] = z
      /\ m \in Seq(S) /\ Len(m) = 3 /\ m[1] = x /\ m[2] = y /\ m[3] = z
  BY <1>1
<1>3. /\ \A i \in 1..3 : l[i] = <<x, y, z>>[i] /\ m[i] = <<x, y, z>>[i]
      /\ Len(<<x, y, z>>) = 3
  BY <1>2
<1>4. QED BY <1>1, <1>2, <1>3, SeqEqual

LEMMA FourMessages ==
    ASSUME NEW x, NEW y, NEW z, NEW w
    PROVE  <<x, y>> \o <<z, w>> = <<x, y, z, w>>
<1> DEFINE S == {x, y, z, w}  l == <<x, y>> \o <<z, w>>
<1>1. <<x, y>> \in Seq(S) /\ <<z, w>> \in Seq(S) /\ <<x, y, z, w>> \in Seq(S) OBVIOUS
<1>2. /\ l \in Seq(S) /\ Len(l) = 4 /\ l[1] = x /\ l[2] = y /\ l[3] = z /\ l[4] = w
  BY <1>1
<1>3. \A i \in 1..4 : l[i] = <<x, y, z, w>>[i] BY <1>2
<1>4. Len(<<x, y, z, w>>) = 4 OBVIOUS
<1>5. QED BY <1>1, <1>2, <1>3, <1>4, SeqEqual

LEMMA ServerLogin ==
    ASSUME sv \in Servers, NEW p \in Places, Phase(p), LoginOrSignin \/ RecvCrypt \/ RePassWd
    PROVE  Phase(p)' /\ \E place \in {"account", "crypt", "command"} : sv' = [sv EXCEPT !.pc = place]
<1>1. CASE LoginOrSignin
  <2>1. sv.pc = "account" /\ Arrived(toServer, "account")
    BY <1>1 DEF LoginOrSignin, ServerReads
  <2>2. p = "flag" /\ toServer = <<Msg("account", 0)>> /\ toClient = <<>>
    BY <2>1
       DEF Phase, LoginPhase, CommandPhase, DownloadPhase, UploadPhase, Waits, On, Sending,
           Receiving, Arrived
  <2>3. PICK place \in {"account", "crypt"} :
           /\ sv' = [sv EXCEPT !.pc = place] /\ toServer' = <<>>
           /\ toClient' = IF place = "account" THEN <<Msg("flag", -1)>>
                                               ELSE <<Msg("flag", 0), Msg("salt", 0)>>
    BY <1>1, <2>2 DEF LoginOrSignin, ServerReads
  <2>4. sv'.pc = place BY <2>3 DEF Servers
  <2>5. LoginPhase("flag")' BY <2>3, <2>4 DEF LoginPhase, On, Msg
  <2>6. QED BY <2>2, <2>3, <2>5 DEF Phase
<1>2. CASE RecvCrypt
  <2>1. sv.pc = "crypt" /\ Arrived(toServer, "crypt") BY <1>2 DEF RecvCrypt, ServerReads
  <2>2. p = "id" /\ toServer = <<Msg("crypt", 0)>> /\ toClient = <<>>
    BY <2>1
       DEF Phase, LoginPhase, CommandPhase, DownloadPhase, UploadPhase, Waits, On, Sending,
           Receiving, Arrived
  <2>3. <<Msg("id", 1)>> \o Text(1) = <<Msg("id", 1), Msg("len", 1), Msg("text", 0)>>
    <3>1. Text(1) = <<Msg("len", 1), Msg("text", 0)>> BY DEF Text
    <3>2. QED BY <3>1, ThreeMessages
  <2>4. PICK place \in {"account", "command"} :
           /\ sv' = [sv EXCEPT !.pc = place] /\ toServer' = <<>>
           /\ toClient' = <<>> \o IF place = "account" THEN <<Msg("id", -1)>>
                                                      ELSE <<Msg("id", 1)>> \o Text(1)
    BY <1>2, <2>2 DEF RecvCrypt, ServerReads
  <2>5. toClient' = IF place = "account" THEN <<Msg("id", -1)>>
                                         ELSE <<Msg("id", 1), Msg("len", 1), Msg("text", 0)>>
    <3>1. CASE place = "account" BY <2>4, <3>1
    <3>2. CASE place = "command"
      <4> DEFINE out == <<Msg("id", 1), Msg("len", 1), Msg("text", 0)>>
      <4>1. toClient' = <<>> \o out BY <2>3, <2>4, <3>2
      <4>2. <<>> \o out = out OBVIOUS
      <4>3. QED BY <3>2, <4>1, <4>2
    <3>3. QED BY <3>1, <3>2
  <2>6. sv'.pc = place BY <2>4 DEF Servers
  <2>7. LoginPhase("id")' BY <2>4, <2>5, <2>6 DEF LoginPhase, On, Msg
  <2>8. QED BY <2>2, <2>4, <2>7 DEF Phase
<1>3. CASE RePassWd
  <2>1. sv.pc = "newcrypt" /\ Arrived(toServer, "newcrypt") BY <1>3 DEF RePassWd, ServerReads
  <2>2. p = "newpass" /\ toServer = <<Msg("newcrypt", 0)>> /\ toClient = <<>>
    BY <2>1
       DEF Phase, LoginPhase, CommandPhase, DownloadPhase, UploadPhase, Waits, On, Sending,
           Receiving, Arrived
  <2>3. /\ sv' = [sv EXCEPT !.pc = "account"] /\ toServer' = <<>>
        /\ toClient' = <<Msg("newpass", 0)>>
    BY <1>3, <2>2 DEF RePassWd, ServerReads
  <2>4. sv'.pc = "account" BY <2>3 DEF Servers
  <2>5. LoginPhase("newpass")' BY <2>3, <2>4 DEF LoginPhase, On, Msg
  <2>6. QED BY <2>2, <2>3, <2>5 DEF Phase
<1>4. QED BY <1>1, <1>2, <1>3

\* A command arrives at a session that is ready for it.
LEMMA CommandArrives ==
    ASSUME NEW p \in Places, Phase(p), sv.pc = "command", Arrived(toServer, "command")
    PROVE  /\ p = "ack" /\ toServer = <<Request>> /\ toClient = <<>>
           /\ cl.cmd \in Commands /\ Sends(cl.cmd)
           /\ cl.cmd.cmd = "upload" => Here = Size(File)
           /\ Given = [cmd |-> cl.cmd.cmd, file |-> File, words |-> cl.cmd.words, size |-> Here]
           /\ Given.cmd = cl.cmd.cmd /\ Given.file = File /\ Given.words = cl.cmd.words
           /\ Given.size = Here
<1>1. /\ p = "ack" /\ toServer = <<Request>> /\ toClient = <<>>
      /\ cl.cmd \in Commands /\ Sends(cl.cmd)
      /\ cl.cmd.cmd = "upload" => Here = Size(File)
  BY DEF Phase, LoginPhase, CommandPhase, DownloadPhase, UploadPhase, Waits, On, Sending,
         Receiving, Arrived
<1>2. Given = Request.val BY <1>1 DEF Given
<1>3. Given = [cmd |-> cl.cmd.cmd, file |-> File, words |-> cl.cmd.words, size |-> Here]
  BY <1>2 DEF Request, Msg
<1>4. QED BY <1>1, <1>3

\* The answer to a command that starts no transfer.
LEMMA Answers ==
    ASSUME sv \in Servers, NEW p \in Places, Phase(p), NEW place, NEW out,
           ServerReads("command", place, out)
    PROVE  /\ sv' = [sv EXCEPT !.pc = place] /\ sv'.pc = place
           /\ toServer' = <<>> /\ toClient' = <<>> \o out
           /\ cl' = cl /\ p = "ack" /\ Given.cmd = cl.cmd.cmd
<1>1. sv.pc = "command" /\ Arrived(toServer, "command") BY DEF ServerReads
<1>2. toServer = <<Request>> /\ toClient = <<>> /\ p = "ack" /\ Given.cmd = cl.cmd.cmd
  BY <1>1, CommandArrives
<1>3. QED BY <1>2 DEF ServerReads, Servers, client

Plain == RefuseWords \/ ServeSimple \/ ServeListing \/ ServeCd \/ ServeExit \/ ServeRp \/ ServeOther

LEMMA ServerCommands ==
    ASSUME sv \in Servers, NEW p \in Places, Phase(p), Plain
    PROVE  Phase(p)' /\ \E place \in {"command", "closed", "newcrypt"} : sv' = [sv EXCEPT !.pc = place]
<1> USE DEF Serves
<1>1. ASSUME NEW a \in {"ARGS_NUM_ERROR", "ERROR_CMD"}, ServerReads("command", "command", <<Ack(a)>>)
      PROVE  Phase(p)' /\ sv' = [sv EXCEPT !.pc = "command"]
  <2>1. /\ sv' = [sv EXCEPT !.pc = "command"] /\ sv'.pc = "command"
        /\ toServer' = <<>> /\ toClient' = <<>> \o <<Ack(a)>> /\ p = "ack"
    BY <1>1, Answers
  <2>2. toClient' = <<Ack(a)>> BY <2>1
  <2>3. QED BY <2>1, <2>2 DEF Phase, CommandPhase, On, Ack, Msg
<1>2. CASE ServeSimple
  <2>1. PICK r \in {"NO_ERROR", "RUN_ERROR"} :
           Serves(Simple, "command", <<Ack("NO_ERROR"), Result(r)>>)
    BY <1>2 DEF ServeSimple
  <2>2. /\ sv' = [sv EXCEPT !.pc = "command"] /\ sv'.pc = "command" /\ cl.cmd.cmd \in Simple
        /\ toServer' = <<>> /\ toClient' = <<>> \o <<Ack("NO_ERROR"), Result(r)>> /\ p = "ack"
        /\ cl' = cl
    BY <2>1, Answers
  <2>3. toClient' = <<Ack("NO_ERROR"), Result(r)>> BY <2>2
  <2>4. CommandPhase("ack")' BY <2>2, <2>3 DEF CommandPhase, On, Ack, Result, Msg
  <2>5. QED BY <2>2, <2>4 DEF Phase
<1>3. ASSUME Serves(Listing \cup {"cd"}, "command", <<Ack("NO_ERROR"), Result("RUN_ERROR")>>)
      PROVE  Phase(p)' /\ sv' = [sv EXCEPT !.pc = "command"]
  <2>1. /\ sv' = [sv EXCEPT !.pc = "command"] /\ sv'.pc = "command"
        /\ cl.cmd.cmd \in Listing \cup {"cd"} /\ cl' = cl /\ p = "ack"
        /\ toServer' = <<>> /\ toClient' = <<>> \o <<Ack("NO_ERROR"), Result("RUN_ERROR")>>
    BY <1>3, Answers
  <2>2. toClient' = <<Ack("NO_ERROR"), Result("RUN_ERROR")>> BY <2>1
  <2>3. CommandPhase("ack")' BY <2>1, <2>2 DEF CommandPhase, On, Ack, Result, Msg
  <2>4. QED BY <2>1, <2>3 DEF Phase
<1>4. ASSUME NEW n \in {0, 1},
             Serves(Listing \cup {"cd"}, "command", <<Ack("NO_ERROR"), Result("NO_ERROR")>> \o Text(n))
      PROVE  Phase(p)' /\ sv' = [sv EXCEPT !.pc = "command"]
  <2> DEFINE no == Ack("NO_ERROR")  good == Result("NO_ERROR")
             l == Msg("len", n)  t == Msg("text", 0)
  <2>1. /\ sv' = [sv EXCEPT !.pc = "command"] /\ sv'.pc = "command"
        /\ cl.cmd.cmd \in Listing \cup {"cd"} /\ cl' = cl /\ p = "ack"
        /\ toServer' = <<>> /\ toClient' = <<>> \o (<<no, good>> \o Text(n))
    BY <1>4, Answers
  <2>2. toClient' = IF n = 0 THEN <<no, good, l>> ELSE <<no, good, l, t>>
    <3>1. CASE n = 0
      <4>1. <<no, good>> \o Text(n) = <<no, good, l>> BY <3>1, ThreeMessages DEF Text
      <4>2. <<>> \o <<no, good, l>> = <<no, good, l>> OBVIOUS
      <4>3. QED BY <2>1, <3>1, <4>1, <4>2
    <3>2. CASE n = 1
      <4>1. <<no, good>> \o Text(n) = <<no, good, l, t>> BY <3>2, FourMessages DEF Text
      <4>2. <<>> \o <<no, good, l, t>> = <<no, good, l, t>> OBVIOUS
      <4>3. QED BY <2>1, <3>2, <4>1, <4>2
    <3>3. QED BY <3>1, <3>2
  <2>3. cl.cmd.cmd \notin Simple BY <2>1 DEF Simple, Listing
  <2>4. CASE n = 0
    <3>1. On(<<>>, "command", <<no, good, Msg("len", 0)>>)'
      BY <2>1, <2>2, <2>4 DEF On, Ack, Result, Msg
    <3>2. QED BY <2>1, <2>3, <3>1 DEF Phase, CommandPhase
  <2>5. CASE n = 1
    <3>1. On(<<>>, "command", <<no, good, Msg("len", 1), Msg("text", 0)>>)'
      <4>1. toClient' = <<no, good, Msg("len", 1), Msg("text", 0)>> BY <2>2, <2>5
      <4>2. QED BY <2>1, <4>1 DEF On, Ack, Result, Msg
    <3>2. QED BY <2>1, <2>3, <3>1 DEF Phase, CommandPhase
  <2>6. QED BY <2>1, <2>4, <2>5
<1>5. CASE ServeListing
  <2>1. CASE Serves(Listing, "command", <<Ack("NO_ERROR"), Result("RUN_ERROR")>>)
    BY <1>3, <2>1
  <2>2. CASE \E n \in {0, 1} :
                Serves(Listing, "command", <<Ack("NO_ERROR"), Result("NO_ERROR")>> \o Text(n))
    BY <1>4, <2>2
  <2>3. QED BY <1>5, <2>1, <2>2 DEF ServeListing
<1>6. CASE ServeCd
  <2>1. CASE Serves({"cd"}, "command", <<Ack("NO_ERROR"), Result("RUN_ERROR")>>)
    BY <1>3, <2>1
  <2>2. CASE Serves({"cd"}, "command", <<Ack("NO_ERROR"), Result("NO_ERROR")>> \o Text(1))
    BY <1>4, <2>2
  <2>3. QED BY <1>6, <2>1, <2>2 DEF ServeCd
<1>7. CASE ServeExit
  <2>1. /\ sv' = [sv EXCEPT !.pc = "closed"] /\ sv'.pc = "closed"
        /\ cl.cmd.cmd = "exit" /\ cl' = cl /\ p = "ack"
        /\ toServer' = <<>> /\ toClient' = <<>> \o <<Ack("NO_ERROR")>>
    BY <1>7, Answers DEF ServeExit
  <2>2. toClient' = <<Ack("NO_ERROR")>> BY <2>1
  <2>3. CommandPhase("ack")' BY <2>1, <2>2 DEF CommandPhase, On, Ack, Msg
  <2>4. QED BY <2>1, <2>3 DEF Phase
<1>8. CASE ServeRp
  <2>1. /\ sv' = [sv EXCEPT !.pc = "newcrypt"] /\ sv'.pc = "newcrypt"
        /\ cl.cmd.cmd = "rp" /\ cl' = cl /\ p = "ack"
        /\ toServer' = <<>> /\ toClient' = <<>> \o <<Ack("NO_ERROR"), Msg("newsalt", 0)>>
    BY <1>8, Answers DEF ServeRp
  <2>2. toClient' = <<Ack("NO_ERROR"), Msg("newsalt", 0)>> BY <2>1
  <2>3. CommandPhase("ack")' BY <2>1, <2>2 DEF CommandPhase, On, Ack, Msg
  <2>4. QED BY <2>1, <2>3 DEF Phase
<1>9. CASE RefuseWords BY <1>1, <1>9 DEF RefuseWords
<1>10. CASE ServeOther BY <1>1, <1>10 DEF ServeOther
<1>11. QED BY <1>2, <1>5, <1>6, <1>7, <1>8, <1>9, <1>10 DEF Plain

-----------------------------------------------------------------------------
(***************************************************************************)
(* The session: transfers.                                                 *)
(***************************************************************************)
\* What the lemmas below assume: the session serves a client that is, or was, at p.
Serving(p) ==
    /\ Typed /\ Beginnings(local) /\ Beginnings(store) /\ Behind /\ Finished
    /\ p \in Places /\ cl.pc \in {p, "gone"} /\ Phase(p)

\* The size the client sends is an int.
LEMMA AtoiSmall ==
    ASSUME NEW n \in Nat, n < Half
    PROVE  Atoi(n) = n
<1>1. Half \in Nat \ {0} BY BoundsAssumption
<1>2. (n + Half) % (2 * Half) = n + Half
  <2>1. n + Half \in Nat /\ n + Half < 2 * Half BY <1>1
  <2>2. QED BY <1>1, <2>1
<1>3. QED BY <1>1, <1>2 DEF Atoi

\* A transfer that starts.
LEMMA TransferStarts ==
    ASSUME Regular, NEW p, Serving(p), NEW cmd \in {"download", "upload"}, Transfer(cmd)
    PROVE  /\ p = "ack" /\ sv.pc = "command" /\ toServer' = <<>> /\ toClient = <<>>
           /\ cl.cmd \in Commands /\ cl.cmd.cmd = cmd
           /\ cmd = "upload" => Here = Size(File)
           /\ Given.file = File /\ Atoi(Given.size) = Here
           /\ UNCHANGED <<cl, local, store, conns>>
<1>1. /\ p = "ack" /\ sv.pc = "command" /\ toServer = <<Request>> /\ toClient = <<>>
      /\ cl.cmd \in Commands /\ cl.cmd.cmd = cmd
      /\ cl.cmd.cmd = "upload" => Here = Size(File)
      /\ Given.file = File /\ Given.size = Here
  BY CommandArrives DEF Transfer, Serving
<1>2. Here \in Nat /\ Here < Half
  <2>1. /\ File \in Files /\ Size(File) \in Nat /\ Here \in Nat /\ Here <= Size(File)
    BY <1>1, FileSizes DEF Serving
  <2>2. Size(File) < Half /\ Half \in Nat BY <2>1, BoundsAssumption DEF Regular
  <2>3. QED BY <2>1, <2>2
<1>3. Atoi(Here) = Here BY <1>2, AtoiSmall
<1>4. QED BY <1>1, <1>3 DEF Transfer, client

LEMMA DownloadStarts ==
    ASSUME Regular, NEW p, Serving(p), ServeDownload
    PROVE  Phase(p)' /\ sv' \in Servers
<1>1. /\ p = "ack" /\ sv.pc = "command" /\ toServer' = <<>> /\ toClient = <<>>
      /\ cl.cmd \in Commands /\ cl.cmd.cmd = "download"
      /\ Given.file = File /\ Atoi(Given.size) = Here
      /\ UNCHANGED <<cl, local, store, conns>>
  BY TransferStarts DEF ServeDownload
<1>2. File' = File /\ Here' = Here /\ There' = There BY <1>1 DEF File, Here, There
<1>3. Here \in Nat /\ There \in Nat /\ Here <= There /\ File \in Files
  <2>1. Here \in Nat /\ There \in Nat /\ File \in Files BY <1>1, FileSizes DEF Serving
  <2>2. QED BY <1>1, <2>1 DEF Serving, Behind, Here, There, File
<1> DEFINE left == There - Here
<1>4. \/ toClient' = toClient \o <<Ack("NO_ERROR"), Msg("size", -2)>> /\ sv' = sv
      \/ /\ toClient' = toClient \o <<Ack("NO_ERROR"), Msg("size", left)>>
         /\ sv' = [pc |-> "send", file |-> File, need |-> left, got |-> 0, pos |-> Here]
  BY <1>1 DEF ServeDownload, There
<1>5. CASE toClient' = toClient \o <<Ack("NO_ERROR"), Msg("size", -2)>> /\ sv' = sv
  <2>1. toClient' = <<Ack("NO_ERROR"), Msg("size", -2)>> BY <1>1, <1>5
  <2>2. On(<<>>, "command", <<Ack("NO_ERROR"), Msg("size", -2)>>)'
    BY <1>1, <1>5, <2>1 DEF On, Ack, Msg
  <2>3. DownloadPhase("ack")' BY <1>1, <2>2 DEF DownloadPhase
  <2>4. QED BY <1>1, <1>5, <2>3 DEF Phase, Serving, Typed
<1>6. CASE /\ toClient' = toClient \o <<Ack("NO_ERROR"), Msg("size", left)>>
           /\ sv' = [pc |-> "send", file |-> File, need |-> left, got |-> 0, pos |-> Here]
  <2> DEFINE pre == <<Ack("NO_ERROR"), Msg("size", left)>>
  <2>1. left \in Nat BY <1>3
  <2>2. sv' \in Servers BY <1>3, <1>6, <2>1 DEF Servers
  <2>3. sv'.pc = "send" /\ sv'.file = File /\ sv'.need = left /\ sv'.got = 0 /\ sv'.pos = Here
    BY <1>6
  <2>4. toClient' = pre \o Run(Here, Here)
    <3>1. toClient' = pre BY <1>1, <1>6
    <3>2. Run(Here, Here) = <<>>
      <4>1. Here \in Int /\ Here <= Here BY <1>3
      <4>2. QED BY <4>1, RunIsSeq
    <3>3. pre \o <<>> = pre OBVIOUS
    <3>4. QED BY <3>1, <3>2, <3>3
  <2>5. Run(Here', sv'.pos) = Run(Here, Here) BY <1>2, <2>3
  <2>6. Here' <= sv'.pos /\ sv'.pos <= Here' + left /\ Here' + left <= There'
        /\ sv'.need - sv'.got = (Here' + left) - sv'.pos /\ Here' + left = There'
    BY <1>2, <1>3, <2>3
  <2>7. ASSUME NEW n \in Nat, n = left
        PROVE  Sending(<<Ack("NO_ERROR"), Msg("size", n)>>, Here + n)'
    <3>1. toClient' = <<Ack("NO_ERROR"), Msg("size", n)>> \o Run(Here, sv.pos)'
      BY <2>4, <2>5, <2>7 DEF Run, Msg
    <3>2. QED BY <1>1, <1>2, <2>3, <2>6, <2>7, <3>1 DEF Sending, Ack, Msg
  <2>8. \E n \in Nat : Sending(<<Ack("NO_ERROR"), Msg("size", n)>>, Here + n)'
    BY <2>1, <2>7
  <2>9. DownloadPhase("ack")' BY <1>1, <2>8 DEF DownloadPhase
  <2>10. QED BY <1>1, <2>2, <2>9 DEF Phase
<1>7. QED BY <1>4, <1>5, <1>6

\* The loop of user_download, while a download is under way.
LEMMA SendingGoesOn ==
    ASSUME NEW p, Serving(p), cl.cmd \in Commands, NEW S, NEW pre \in Seq(S), NEW total,
           Sending(pre, total), SendFile
    PROVE  /\ toServer' = <<>> /\ sv' \in Servers /\ sv'.pc = "send" /\ sv'.file = File
           /\ toClient' = pre \o Run(Here, sv'.pos)
           /\ sv.pos <= sv'.pos /\ Here <= sv'.pos /\ sv'.pos <= total
           /\ sv'.need - sv'.got = total - sv'.pos
<1>1. /\ toServer = <<>> /\ toClient = pre \o Run(Here, sv.pos)
      /\ Here <= sv.pos /\ sv.pos <= total /\ total = There
      /\ sv.pc = "send" /\ sv.file = File /\ sv.need - sv.got = total - sv.pos
  BY DEF Sending, SendFile
<1>2. /\ sv \in Servers /\ sv.pos \in Nat /\ sv.need \in Int /\ sv.got \in Nat
      /\ Here \in Nat /\ There \in Nat /\ store[File] = Beginning(There) /\ Buf \in Nat \ {0}
  BY FileSizes, BoundsAssumption DEF Serving, Typed, Servers
<1> DEFINE upto == Min(sv.pos + Buf, There)
<1>3. upto \in Nat /\ sv.pos <= upto /\ upto <= There BY <1>1, <1>2 DEF Min
<1>4. /\ toClient' = toClient \o Data(SubSeq(Beginning(There), sv.pos + 1, upto))
      /\ sv' = [sv EXCEPT !.pos = upto, !.got = sv.got + upto - sv.pos]
      /\ toServer' = toServer
  BY <1>1, <1>2 DEF SendFile, There
<1>5. sv.got + upto - sv.pos \in Nat BY <1>2, <1>3
<1>6. /\ sv' \in Servers /\ sv'.pc = "send" /\ sv'.file = File /\ sv'.need = sv.need
      /\ sv'.pos = upto /\ sv'.got = sv.got + upto - sv.pos
  BY <1>1, <1>2, <1>3, <1>4, <1>5 DEF Servers
<1>7. toClient' = pre \o Run(Here, upto)
  <2> DEFINE s == Run(Here, sv.pos)  t == Run(sv.pos, upto)
             U == DataMsgs \cup S
  <2>1. Here \in Int /\ sv.pos \in Int /\ upto \in Int BY <1>2, <1>3
  <2>2. Data(SubSeq(Beginning(There), sv.pos + 1, upto)) = t BY <1>2, <1>3, DataIsRun
  <2>3. s \o t = Run(Here, upto) BY <1>1, <1>3, <2>1, RunJoin
  <2>4. s \in Seq(DataMsgs) /\ t \in Seq(DataMsgs) BY <1>1, <1>3, <2>1, RunIsSeq
  <2>5. pre \in Seq(U) /\ s \in Seq(U) /\ t \in Seq(U) BY <2>4
  <2>6. (pre \o s) \o t = pre \o (s \o t) BY <2>5, ConcatAssociative
  <2>7. QED BY <1>1, <1>4, <2>2, <2>3, <2>6
<1>8. sv'.need - sv'.got = total - sv'.pos BY SMTT(30), <1>1, <1>2, <1>3, <1>6
<1>9. sv.pos <= sv'.pos /\ Here <= sv'.pos /\ sv'.pos <= total
  <2>1. Here <= upto BY <1>1, <1>2, <1>3
  <2>2. sv.pos <= upto /\ upto <= total BY <1>1, <1>3
  <2>3. sv'.pos = upto BY <1>6
  <2> HIDE DEF upto
  <2>4. QED BY <2>1, <2>2, <2>3
<1>10. toClient' = pre \o Run(Here, sv'.pos) BY <1>6, <1>7
<1>11. QED BY <1>1, <1>4, <1>6, <1>8, <1>9, <1>10

LEMMA SendStep ==
    ASSUME Regular, NEW p, Serving(p), SendFile
    PROVE  Phase(p)' /\ sv' \in Servers
<1>1. sv.pc = "send" /\ sv.got < sv.need /\ UNCHANGED <<cl, local, store>>
  BY DEF SendFile, client
<1>2. ~(sv.got >= sv.need) BY <1>1 DEF Serving, Typed, Servers
<1>3. DownloadPhase(p)
  BY <1>1, <1>2
     DEF Serving, Phase, LoginPhase, CommandPhase, UploadPhase, Waits, On, Receiving
<1>4. cl.cmd \in Commands /\ cl.cmd.cmd = "download" BY <1>3 DEF DownloadPhase
<1>5. File' = File /\ Here' = Here /\ There' = There BY <1>1 DEF File, Here, There
<1>6. ASSUME NEW S, NEW pre \in Seq(S), NEW total, Sending(pre, total)
      PROVE  /\ sv' \in Servers /\ toServer' = <<>> /\ sv'.pc = "send" /\ sv'.file = File'
             /\ toClient' = pre \o Run(Here', sv'.pos)
             /\ Here' <= sv'.pos /\ sv'.pos <= total /\ total = There' /\ total <= There'
             /\ sv'.need - sv'.got = total - sv'.pos
  <2>1. total = There /\ There \in Nat BY <1>1, <1>4, <1>6, FileSizes DEF Sending, Serving
  <2>2. QED BY <1>4, <1>5, <1>6, <2>1, SendingGoesOn
<1>7. CASE p = "ack" /\ \E n \in Nat : Sending(<<Ack("NO_ERROR"), Msg("size", n)>>, Here + n)
  <2>1. PICK n \in Nat : Sending(<<Ack("NO_ERROR"), Msg("size", n)>>, Here + n) BY <1>7
  <2> DEFINE pre == <<Ack("NO_ERROR"), Msg("size", n)>>
  <2>2. pre \in Seq({Ack("NO_ERROR"), Msg("size", n)}) OBVIOUS
  <2>3. Sending(pre, Here + n)' /\ sv' \in Servers
    BY <1>5, <1>6, <2>1, <2>2 DEF Sending, Ack, Msg, Run
  <2>4. DownloadPhase("ack")' BY <1>1, <1>4, <2>3 DEF DownloadPhase
  <2>5. QED BY <1>7, <2>3, <2>4 DEF Phase
<1>8. CASE p = "size" /\ \E n \in Nat : Sending(<<Msg("size", n)>>, Here + n)
  <2>1. PICK n \in Nat : Sending(<<Msg("size", n)>>, Here + n) BY <1>8
  <2> DEFINE pre == <<Msg("size", n)>>
  <2>2. pre \in Seq({Msg("size", n)}) OBVIOUS
  <2>3. Sending(pre, Here + n)' /\ sv' \in Servers
    BY <1>5, <1>6, <2>1, <2>2 DEF Sending, Ack, Msg, Run
  <2>4. DownloadPhase("size")' BY <1>1, <1>4, <2>3 DEF DownloadPhase
  <2>5. QED BY <1>8, <2>3, <2>4 DEF Phase
<1>9. CASE p = "data" /\ Sending(<<>>, cl.need)
  <2>1. <<>> \in Seq({0}) OBVIOUS
  <2>2. Sending(<<>>, cl.need)' /\ sv' \in Servers
    BY <1>1, <1>5, <1>6, <1>9, <2>1 DEF Sending, Msg, Run
  <2>3. DownloadPhase("data")' BY <1>1, <1>4, <2>2 DEF DownloadPhase
  <2>4. QED BY <1>9, <2>2, <2>3 DEF Phase
<1>10. QED BY <1>1, <1>3, <1>7, <1>8, <1>9 DEF DownloadPhase, On

LEMMA FileSentStep ==
    ASSUME NEW p, Serving(p), FileSent
    PROVE  Phase(p)' /\ sv' \in Servers
<1>1. /\ sv.pc = "send" /\ sv.got >= sv.need
      /\ sv' = [sv EXCEPT !.pc = "done"]
      /\ UNCHANGED <<cl, local, store, toServer, toClient>>
  BY DEF FileSent, client
<1>2. /\ sv \in Servers /\ sv' \in Servers /\ sv'.pc = "done" /\ sv'.pos = sv.pos
  BY <1>1 DEF Serving, Typed, Servers, ServerPlaces
<1>3. /\ File' = File /\ Here' = Here /\ There' = There
      /\ Request' = Request /\ DoneMsg' = DoneMsg
  BY <1>1 DEF File, Here, There, Request, DoneMsg, Msg
<1>4. ASSUME NEW up, NEW after, Waits(up, after)
      PROVE  toServer' = after /\ toClient' = <<>>
  BY <1>1, <1>4 DEF Waits, On
<1>5. CASE CommandPhase(p)
  <2>1. CASE p = "prompt"
    <3>1. Waits(<<>>, <<DoneMsg>>) BY <1>5, <2>1 DEF CommandPhase
    <3>2. On(<<DoneMsg>>, "done", <<>>)' BY <1>2, <1>3, <1>4, <3>1 DEF On
    <3>3. QED BY <1>2, <2>1, <3>2 DEF Phase, CommandPhase, Waits
  <2>2. CASE p = "ack"
    <3>1. /\ cl.cmd \in Commands /\ Sends(cl.cmd) /\ Waits(<<Request>>, <<DoneMsg, Request>>)
          /\ cl.cmd.cmd = "upload" => Here = Size(File)
      BY <1>1, <1>5, <2>2 DEF CommandPhase, On
    <3>2. On(<<DoneMsg, Request>>, "done", <<>>)' BY <1>2, <1>3, <1>4, <3>1 DEF On
    <3>3. Waits(<<Request>>, <<DoneMsg, Request>>)' BY <3>2 DEF Waits
    <3>4. QED BY <1>1, <1>2, <1>3, <2>2, <3>1, <3>3 DEF Phase, CommandPhase
  <2>3. QED BY <1>1, <1>5, <2>1, <2>2 DEF CommandPhase, On
<1>6. CASE DownloadPhase(p)
  <2>1. cl.cmd \in Commands /\ cl.cmd.cmd = "download" BY <1>6 DEF DownloadPhase
  <2>2. There \in Nat /\ Here \in Nat BY <2>1, FileSizes DEF Serving
  <2>3. ASSUME NEW pre, NEW total, Sending(pre, total)
        PROVE  /\ toServer' = <<>> /\ toClient' = pre \o Run(Here', sv'.pos)
               /\ Here' <= sv'.pos /\ sv'.pos = total /\ sv'.pos <= total /\ total <= There'
    <3>1. total = There /\ sv.pos <= total /\ sv.need - sv.got = total - sv.pos
      BY <1>1, <2>3 DEF Sending
    <3>2. sv.pos \in Nat /\ sv.need \in Int /\ sv.got \in Nat BY <1>2 DEF Servers
    <3>3. sv.pos = total BY <1>1, <2>2, <3>1, <3>2
    <3>4. QED BY <1>1, <1>2, <1>3, <2>3, <3>3 DEF Sending
  <2>4. CASE p = "ack" /\ \E n \in Nat : Sending(<<Ack("NO_ERROR"), Msg("size", n)>>, Here + n)
    <3>1. PICK n \in Nat : Sending(<<Ack("NO_ERROR"), Msg("size", n)>>, Here + n) BY <2>4
    <3>2. Sending(<<Ack("NO_ERROR"), Msg("size", n)>>, Here + n)'
      BY <1>2, <1>3, <2>3, <3>1 DEF Sending, Ack, Msg, Run
    <3>3. QED BY <1>1, <1>2, <2>1, <2>4, <3>2 DEF Phase, DownloadPhase
  <2>5. CASE p = "size" /\ \E n \in Nat : Sending(<<Msg("size", n)>>, Here + n)
    <3>1. PICK n \in Nat : Sending(<<Msg("size", n)>>, Here + n) BY <2>5
    <3>2. Sending(<<Msg("size", n)>>, Here + n)'
      BY <1>2, <1>3, <2>3, <3>1 DEF Sending, Msg, Run
    <3>3. QED BY <1>1, <1>2, <2>1, <2>5, <3>2 DEF Phase, DownloadPhase
  <2>6. CASE p = "data" /\ Sending(<<>>, cl.need)
    <3>1. Sending(<<>>, cl.need)' BY <1>1, <1>2, <2>3, <2>6 DEF Sending, Msg, Run
    <3>2. QED BY <1>1, <1>2, <2>1, <2>6, <3>1 DEF Phase, DownloadPhase
  <2>7. QED BY <1>1, <1>6, <2>4, <2>5, <2>6 DEF DownloadPhase, On
<1>7. ~LoginPhase(p) /\ ~UploadPhase(p)
  BY <1>1 DEF LoginPhase, UploadPhase, Receiving, On
<1>8. QED BY <1>5, <1>6, <1>7 DEF Serving, Phase

\* The number the client sends is read before its next command.
LEMMA DoneStep ==
    ASSUME NEW p, Serving(p), RecvDone
    PROVE  Phase(p)' /\ sv' \in Servers
<1>1. sv.pc = "done" /\ Arrived(toServer, "done") BY DEF RecvDone, ServerReads
<1>2. /\ sv' = [sv EXCEPT !.pc = "command"]
      /\ toServer' = Tail(toServer) /\ toClient' = toClient \o <<>>
      /\ UNCHANGED <<cl, local>>
  BY DEF RecvDone, ServerReads, client
<1>3. sv' \in Servers /\ sv'.pc = "command"
  BY <1>2 DEF Serving, Typed, Servers, ServerPlaces
<1>4. CommandPhase(p)
  BY <1>1
     DEF Serving, Phase, LoginPhase, DownloadPhase, UploadPhase, On, Sending, Receiving, Arrived
<1>5. CASE p = "prompt"
  <2>1. toServer = <<DoneMsg>> /\ toClient = <<>>
    BY <1>1, <1>4, <1>5 DEF CommandPhase, Waits, On
  <2>2. toServer' = <<>> /\ toClient' = <<>> BY <1>2, <2>1
  <2>3. On(<<>>, "command", <<>>)' BY <1>3, <2>2 DEF On
  <2>4. QED BY <1>3, <1>5, <2>3 DEF Phase, CommandPhase, Waits
<1>6. CASE p = "ack"
  <2>1. /\ toServer = <<DoneMsg, Request>> /\ toClient = <<>>
        /\ cl.cmd \in Commands /\ Sends(cl.cmd)
        /\ cl.cmd.cmd = "upload" => Here = Size(File)
    BY <1>1, <1>4, <1>6 DEF CommandPhase, Waits, On
  <2>2. toServer' = <<Request>> /\ toClient' = <<>> BY <1>2, <2>1
  <2>3. Request' = Request /\ Here' = Here /\ File' = File
    BY <1>2 DEF Request, Msg, Here, File
  <2>4. On(<<Request>>, "command", <<>>)' BY <1>3, <2>2, <2>3 DEF On
  <2>5. Waits(<<Request>>, <<DoneMsg, Request>>)' BY <2>4 DEF Waits
  <2>6. QED BY <1>2, <1>3, <1>6, <2>1, <2>3, <2>5 DEF Phase, CommandPhase
<1>7. QED BY <1>1, <1>4, <1>5, <1>6 DEF CommandPhase, On

LEMMA UploadStarts ==
    ASSUME Regular, NEW p, Serving(p), ServeUpload
    PROVE  Phase(p)' /\ sv' \in Servers /\ entries' \subseteq Files
<1>1. /\ p = "ack" /\ sv.pc = "command" /\ toServer' = <<>> /\ toClient = <<>>
      /\ cl.cmd \in Commands /\ cl.cmd.cmd = "upload" /\ Here = Size(File)
      /\ Given.file = File /\ Atoi(Given.size) = Here
      /\ UNCHANGED <<cl, local, store, conns>>
  BY TransferStarts DEF ServeUpload
<1>2. File' = File /\ Here' = Here /\ There' = There BY <1>1 DEF File, Here, There
<1>3. Here \in Nat /\ There \in Nat /\ File \in Files BY <1>1, FileSizes DEF Serving
<1>4. \/ /\ toClient' = toClient \o <<Ack("NO_ERROR"), Msg("offset", -4)>>
         /\ sv' = sv /\ entries' = entries
      \/ /\ toClient' = toClient \o <<Ack("NO_ERROR"), Msg("offset", There)>>
         /\ entries' \subseteq entries \cup {File}
         /\ sv' = [pc |-> "data", file |-> File, need |-> Here - There, got |-> 0, pos |-> There]
  BY <1>1 DEF ServeUpload, There
<1>5. CASE /\ toClient' = toClient \o <<Ack("NO_ERROR"), Msg("offset", -4)>>
           /\ sv' = sv /\ entries' = entries
  <2>1. toClient' = <<Ack("NO_ERROR"), Msg("offset", -4)>> BY <1>1, <1>5
  <2>2. On(<<>>, "command", <<Ack("NO_ERROR"), Msg("offset", -4)>>)'
    BY <1>1, <1>5, <2>1 DEF On, Ack, Msg
  <2>3. UploadPhase("ack")' BY <1>1, <1>2, <2>2 DEF UploadPhase
  <2>4. QED BY <1>1, <1>5, <2>3 DEF Phase, Serving, Typed
<1>6. CASE /\ toClient' = toClient \o <<Ack("NO_ERROR"), Msg("offset", There)>>
           /\ entries' \subseteq entries \cup {File}
           /\ sv' = [pc |-> "data", file |-> File, need |-> Here - There, got |-> 0, pos |-> There]
  <2>1. sv' \in Servers BY <1>3, <1>6 DEF Servers, ServerPlaces
  <2>2. sv'.pc = "data" /\ sv'.file = File /\ sv'.need = Here - There /\ sv'.got = 0 BY <1>6
  <2>3. toClient' = <<Ack("NO_ERROR"), Msg("offset", There)>> BY <1>1, <1>6
  <2>4. sv'.need - sv'.got = Size(File) - There BY <1>1, <1>3, <2>2
  <2>5. Receiving(<<>>, <<Ack("NO_ERROR"), Msg("offset", There)>>)'
    BY <1>1, <1>2, <2>2, <2>3, <2>4 DEF Receiving, On, Ack, Msg
  <2>6. UploadPhase("ack")' BY <1>1, <1>2, <2>5 DEF UploadPhase
  <2>7. QED BY <1>1, <1>3, <1>6, <2>1, <2>6 DEF Phase, Serving, Typed
<1>7. QED BY <1>4, <1>5, <1>6

\* The loop of user_upload: what has arrived goes on where the real file ends, and
\* there is room for it.
LEMMA ReceiveStep ==
    ASSUME Regular, NEW p, Serving(p), RecvFile
    PROVE  Phase(p)' /\ sv' \in Servers /\ Beginnings(store)' /\ Behind' /\ Finished'
<1>1. sv.pc = "data" /\ sv.got < sv.need /\ UNCHANGED <<cl, local, toClient>>
  BY DEF RecvFile, client
<1>2. PICK n \in 1..Buf :
          /\ DataArrived(toServer, n)
          /\ toServer' = SubSeq(toServer, n + 1, Len(toServer))
          /\ IF Len(store[sv.file]) + n <= Room
             THEN /\ store' = [store EXCEPT ![sv.file] = @ \o Chunks(SubSeq(toServer, 1, n))]
                  /\ sv' = [sv EXCEPT !.got = @ + n]
             ELSE sv' = [sv EXCEPT !.pc = "command"] /\ UNCHANGED store
  BY DEF RecvFile
<1>3. UploadPhase(p)
  BY <1>1 DEF Serving, Phase, LoginPhase, CommandPhase, DownloadPhase, Waits, On, Sending
<1>4. cl.cmd \in Commands /\ cl.cmd.cmd = "upload" /\ Here = Size(File)
  BY <1>3 DEF UploadPhase
<1>5. n \in 1..Len(toServer)
  <2>1. n \in 1..Min(Buf, Len(toServer)) BY <1>2 DEF DataArrived
  <2>2. toServer \in Seq(DataMsgs)
    <3>1. There \in Int /\ cl.pos \in Int /\ <<>> \in Seq(DataMsgs)
      BY <1>4, FileSizes DEF Serving, Typed, Clients
    <3>2. toServer = <<>> \/ (toServer = Run(There, cl.pos) /\ There <= cl.pos)
      BY <1>1, <1>3 DEF UploadPhase, Receiving, On
    <3>3. QED BY <3>1, <3>2, RunIsSeq
  <2>3. Len(toServer) \in Nat /\ Buf \in Nat BY <2>2, BoundsAssumption
  <2>4. QED BY <2>1, <2>3 DEF Min
<1>6. /\ p \in {"send", "stored"} /\ There <= cl.pos /\ cl.pos <= Size(File)
      /\ p = "stored" => cl.pos = Size(File)
      /\ toServer = Run(There, cl.pos) /\ toClient = <<>>
      /\ sv.file = File /\ sv.need - sv.got = Size(File) - There
  <2>1. toServer # <<>> BY <1>5
  <2>2. QED BY <1>1, <1>3, <2>1 DEF UploadPhase, Receiving, On
<1>7. /\ sv \in Servers /\ sv.need \in Int /\ sv.got \in Nat /\ cl.pos \in Int
      /\ File \in Files /\ Size(File) \in Nat /\ There \in Nat
      /\ store[File] = Beginning(There)
  BY <1>4, FileSizes DEF Serving, Typed, Servers, Clients
<1>8. n \in Nat /\ n <= cl.pos - There /\ n >= 1
  <2>1. There \in Int /\ cl.pos \in Int BY <1>7
  <2>2. Len(Run(There, cl.pos)) = cl.pos - There BY <1>6, <2>1, RunIsSeq
  <2>3. QED BY <1>5, <1>6, <1>7, <2>2
<1>9. There + n <= cl.pos /\ There + n <= Size(File) BY <1>6, <1>7, <1>8
<1>10. There + n <= Room
  <2>1. Size(File) <= Room BY <1>4 DEF Regular, File
  <2>2. Room \in Nat BY BoundsAssumption
  <2>3. QED BY <1>7, <1>8, <1>9, <2>1, <2>2
<1>11. /\ toServer' = Run(There + n, cl.pos)
       /\ Chunks(SubSeq(toServer, 1, n)) = [i \in 1..n |-> There + i]
  <2>1. There \in Int /\ cl.pos \in Int BY <1>7
  <2>2. QED BY <1>2, <1>6, <1>8, <2>1, RunRead
<1>12. /\ store' = [store EXCEPT ![File] = Beginning(There + n)]
       /\ sv' = [sv EXCEPT !.got = @ + n]
  <2>1. Len(store[sv.file]) + n <= Room BY <1>6, <1>10 DEF There
  <2>2. Beginning(There) \o [i \in 1..n |-> There + i] = Beginning(There + n)
    BY <1>7, <1>8, BeginningGrows
  <2>3. QED BY <1>2, <1>6, <1>7, <1>11, <2>1, <2>2
<1>13. Here' = Here /\ There' = There + n /\ File' = File
  <2>1. File \in DOMAIN store BY <1>7 DEF Serving, Beginnings
  <2>2. store'[File] = Beginning(There + n) BY <1>12, <2>1
  <2>3. Len(Beginning(There + n)) = There + n BY <1>7, <1>8, BeginningIsSeq
  <2>4. QED BY <1>1, <2>2, <2>3 DEF Here, There, File
<1>14. /\ sv' \in Servers /\ sv'.pc = "data" /\ sv'.file = File /\ sv'.need = sv.need
       /\ sv'.got = sv.got + n
  BY SMTT(30), <1>1, <1>6, <1>7, <1>8, <1>12 DEF Servers
<1>15. Phase(p)'
  <2>1. sv'.need - sv'.got = Size(File) - (There + n) BY <1>6, <1>7, <1>8, <1>14
  <2>2. Receiving(Run(There, cl.pos), <<>>)'
    BY <1>1, <1>6, <1>11, <1>13, <1>14, <2>1 DEF Receiving, On, Run, Msg
  <2>3. UploadPhase(p)' BY <1>1, <1>4, <1>6, <1>9, <1>13, <2>2 DEF UploadPhase
  <2>4. QED BY <2>3 DEF Phase
<1>16. Beginnings(store)'
  <2>1. store = [f \in Files |-> Beginning(Len(store[f]))]
        /\ \A f \in Files : Len(store[f]) \in 0..Size(f)
    BY DEF Serving, Beginnings
  <2>2. \A f \in Files : store'[f] = IF f = File THEN Beginning(There + n) ELSE store[f]
    BY <1>12, <2>1
  <2>3. Len(store'[File]) = There + n BY <1>13 DEF There, File
  <2>4. ASSUME NEW f \in Files
        PROVE  store'[f] = Beginning(Len(store'[f])) /\ Len(store'[f]) \in 0..Size(f)
    <3>1. CASE f = File
      <4>1. There + n \in 0..Size(File) BY <1>7, <1>8, <1>9
      <4>2. store'[f] = Beginning(There + n) /\ Len(store'[f]) = There + n
        BY <2>2, <2>3, <3>1
      <4>3. QED BY <3>1, <4>1, <4>2
    <3>2. CASE f # File
      <4>1. store'[f] = store[f] BY <2>2, <3>2
      <4>2. QED BY <2>1, <4>1
    <3>3. QED BY <3>1, <3>2
  <2>5. store' = [f \in Files |-> store'[f]]
    <3>1. DOMAIN store = Files BY <2>1
    <3>2. QED BY <1>12, <3>1
  <2>6. QED BY <2>4, <2>5 DEF Beginnings
<1>17. Behind'
  <2>1. ASSUME NEW c \in Commands, c.cmd = "download"
        PROVE  Len(local[c.file]) <= Len(store'[c.file])
    <3>1. Len(local[c.file]) <= Len(store[c.file]) BY <2>1 DEF Serving, Behind
    <3>2. CASE c.file = File
      <4>1. Len(store'[File]) = There + n BY <1>13 DEF There, File
      <4>2. Len(local[File]) = Here /\ Len(store[File]) = There BY DEF Here, There
      <4>3. QED BY <1>4, <1>7, <1>8, <3>1, <3>2, <4>1, <4>2
    <3>3. CASE c.file # File
      <4>1. store'[c.file] = store[c.file] BY <1>12, <3>3
      <4>2. QED BY <3>1, <4>1
    <3>4. QED BY <3>2, <3>3
  <2>2. QED BY <1>1, <2>1 DEF Behind
<1>18. Finished'
  <2>1. cl.pc # "prompt" BY <1>6 DEF Serving
  <2>2. QED BY <1>1, <2>1 DEF Serving, Finished
<1>19. QED BY <1>14, <1>15, <1>16, <1>17, <1>18

LEMMA FileStoredStep ==
    ASSUME NEW p, Serving(p), FileStored
    PROVE  Phase(p)' /\ sv' \in Servers
<1>1. /\ sv.pc = "data" /\ sv.got >= sv.need /\ sv' = [sv EXCEPT !.pc = "command"]
      /\ toClient' = Append(toClient, Msg("stored", 0))
      /\ UNCHANGED <<cl, local, store, toServer>>
  BY DEF FileStored, client
<1>2. /\ sv' \in Servers /\ sv'.pc = "command" /\ sv.need \in Int /\ sv.got \in Nat
      /\ cl \in Clients
  BY <1>1 DEF Serving, Typed, Servers, ServerPlaces
<1>3. UploadPhase(p)
  BY <1>1 DEF Serving, Phase, LoginPhase, CommandPhase, DownloadPhase, Waits, On, Sending
<1>4. cl.cmd \in Commands /\ cl.cmd.cmd = "upload" /\ Here = Size(File)
  BY <1>3 DEF UploadPhase
<1>5. /\ Size(File) \in Nat /\ There \in Nat /\ There <= Size(File) /\ cl.pos \in Int
      /\ File' = File /\ Here' = Here /\ There' = There
  BY <1>1, <1>2, <1>4, FileSizes DEF Serving, Clients, File, Here, There
<1>6. ASSUME NEW up, NEW down, Receiving(up, down)
      PROVE  toServer = up /\ toClient = down /\ There = Size(File)
  <2>1. /\ toServer = up /\ toClient = down /\ sv.need - sv.got = Size(File) - There
    BY <1>1, <1>6 DEF Receiving, On
  <2>2. QED BY <1>1, <1>2, <1>5, <2>1
<1>7. CASE p = "ack" /\ Receiving(<<>>, <<Ack("NO_ERROR"), Msg("offset", There)>>)
  <2> DEFINE down == <<Ack("NO_ERROR"), Msg("offset", There)>>  s == Msg("stored", 0)
  <2>1. toServer = <<>> /\ toClient = down /\ There = Size(File) BY <1>6, <1>7
  <2>2. Append(down, s) = down \o <<s>> OBVIOUS
  <2>3. toClient' = down \o <<s>> BY <1>1, <2>1, <2>2
  <2>4. Receiving(<<>>, <<Ack("NO_ERROR"), Msg("offset", There)>>)'
    BY <1>1, <1>2, <1>5, <2>1, <2>3 DEF Receiving, On, Ack, Msg
  <2>5. UploadPhase("ack")' BY <1>1, <1>4, <1>5, <2>4 DEF UploadPhase
  <2>6. QED BY <1>2, <1>7, <2>5 DEF Phase
<1>8. CASE p = "offset" /\ Receiving(<<>>, <<Msg("offset", There)>>)
  <2> DEFINE down == <<Msg("offset", There)>>  s == Msg("stored", 0)
  <2>1. toServer = <<>> /\ toClient = down /\ There = Size(File) BY <1>6, <1>8
  <2>2. Append(down, s) = down \o <<s>> OBVIOUS
  <2>3. toClient' = down \o <<s>> BY <1>1, <2>1, <2>2
  <2>4. Receiving(<<>>, <<Msg("offset", There)>>)'
    BY <1>1, <1>2, <1>5, <2>1, <2>3 DEF Receiving, On, Ack, Msg
  <2>5. UploadPhase("offset")' BY <1>1, <1>4, <1>5, <2>4 DEF UploadPhase
  <2>6. QED BY <1>2, <1>8, <2>5 DEF Phase
<1>9. CASE /\ p \in {"send", "stored"} /\ There <= cl.pos /\ cl.pos <= Size(File)
           /\ p = "stored" => cl.pos = Size(File)
           /\ Receiving(Run(There, cl.pos), <<>>)
  <2>1. toServer = Run(There, cl.pos) /\ toClient = <<>> /\ There = Size(File) BY <1>6, <1>9
  <2>2. toServer = <<>>
    <3>1. There = cl.pos /\ There \in Int BY <1>5, <1>9, <2>1
    <3>2. QED BY <1>9, <2>1, <3>1, RunIsSeq
  <2>3. toClient' = <<>> \o <<Msg("stored", 0)>> /\ toServer' = <<>> BY <1>1, <2>1, <2>2
  <2>4. Receiving(Run(There, cl.pos), <<>>)'
    BY <1>1, <1>2, <1>5, <2>1, <2>3 DEF Receiving, On, Msg
  <2>5. UploadPhase(p)' BY <1>1, <1>4, <1>5, <1>9, <2>4 DEF UploadPhase
  <2>6. QED BY <1>2, <2>5 DEF Phase
<1>10. QED BY <1>1, <1>3, <1>7, <1>8, <1>9 DEF UploadPhase, On

-----------------------------------------------------------------------------
(***************************************************************************)
(* Ends and beginnings of connections, and other sessions.                 *)
(***************************************************************************)
LEMMA KindsOf ==
    ASSUME NEW S, NEW s \in Seq(S), NEW K, \A m \in S : m.kind \in K
    PROVE  \A i \in DOMAIN s : s[i].kind \in K
<1>1. ASSUME NEW i \in DOMAIN s PROVE s[i] \in S
  <2>1. DOMAIN s = 1..Len(s) BY LenProperties
  <2>2. QED BY <2>1, ElementOfSeq
<1>2. QED BY <1>1

\* Every message on the way is one its reader has a place for.
LEMMA Kinds ==
    ASSUME NEW p, Serving(p)
    PROVE  /\ \A i \in DOMAIN toServer : toServer[i].kind \in ServerPlaces
           /\ \A i \in DOMAIN toClient : toClient[i].kind \in ClientPlaces
<1> DEFINE Up(s)   == \A i \in DOMAIN s : s[i].kind \in ServerPlaces
           Down(s) == \A i \in DOMAIN s : s[i].kind \in ClientPlaces
<1>1. ASSUME NEW a \in ServerPlaces, NEW b \in ServerPlaces, NEW x, NEW y
      PROVE  Up(<<>>) /\ Up(<<Msg(a, x)>>) /\ Up(<<Msg(a, x), Msg(b, y)>>)
  BY DEF Msg
<1>2. /\ {"account", "crypt", "command", "done", "newcrypt"} \subseteq ServerPlaces
      /\ {"flag", "salt", "id", "len", "text", "ack", "result", "size", "offset", "stored",
          "newsalt", "newpass"} \subseteq ClientPlaces
      /\ \A m \in DataMsgs : m.kind \in ServerPlaces /\ m.kind \in ClientPlaces
  BY DEF ServerPlaces, ClientPlaces, DataMsgs, Msg
<1> HIDE DEF Up, Down
<1>3. CASE LoginPhase(p)
  <2>1. Up(toServer)
    <3>1. toServer \in {<<>>, <<Msg("account", 0)>>, <<Msg("crypt", 0)>>, <<Msg("newcrypt", 0)>>}
      BY <1>3 DEF LoginPhase, On
    <3>2. /\ Up(<<>>) /\ Up(<<Msg("account", 0)>>) /\ Up(<<Msg("crypt", 0)>>)
          /\ Up(<<Msg("newcrypt", 0)>>)
      BY <1>1, <1>2
    <3>3. QED BY <3>1, <3>2
  <2>2. Down(toClient)
    <3>1. toClient \in {<<>>, <<Msg("flag", -1)>>, <<Msg("flag", 0), Msg("salt", 0)>>,
                        <<Msg("salt", 0)>>, <<Msg("id", -1)>>,
                        <<Msg("id", 1), Msg("len", 1), Msg("text", 0)>>, <<Msg("len", 0)>>,
                        <<Msg("len", 1), Msg("text", 0)>>, <<Msg("text", 0)>>,
                        <<Msg("newsalt", 0)>>, <<Msg("newpass", 0)>>}
      BY <1>3 DEF LoginPhase, On
    <3>2. /\ Down(<<>>) /\ Down(<<Msg("flag", -1)>>) /\ Down(<<Msg("flag", 0), Msg("salt", 0)>>)
          /\ Down(<<Msg("salt", 0)>>) /\ Down(<<Msg("id", -1)>>)
          /\ Down(<<Msg("id", 1), Msg("len", 1), Msg("text", 0)>>) /\ Down(<<Msg("len", 0)>>)
          /\ Down(<<Msg("len", 1), Msg("text", 0)>>) /\ Down(<<Msg("text", 0)>>)
          /\ Down(<<Msg("newsalt", 0)>>) /\ Down(<<Msg("newpass", 0)>>)
      BY <1>2 DEF Down, Msg
    <3>3. QED BY <3>1, <3>2
  <2>3. QED BY <2>1, <2>2 DEF Up, Down
<1>4. CASE CommandPhase(p)
  <2>1. Up(toServer)
    <3>1. toServer \in {<<>>, <<DoneMsg>>, <<Request>>, <<DoneMsg, Request>>}
      BY <1>4 DEF CommandPhase, Waits, On
    <3>2. QED BY <1>1, <1>2, <3>1 DEF DoneMsg, Request
  <2>2. Down(toClient)
    <3> DEFINE no == Msg("ack", "NO_ERROR")  good == Msg("result", "NO_ERROR")
               bad == Msg("result", "RUN_ERROR")  l0 == Msg("len", 0)  l1 == Msg("len", 1)
               t == Msg("text", 0)  ns == Msg("newsalt", 0)
    <3>1. \/ \E a : toClient = <<Msg("ack", a)>>
          \/ toClient \in {<<>>, <<no, ns>>, <<bad>>, <<good>>, <<good, l0>>, <<good, l1, t>>}
          \/ toClient \in {<<no, bad>>, <<no, good>>, <<no, good, l0>>, <<no, good, l1, t>>}
      BY <1>4 DEF CommandPhase, Waits, On, Ack, Result
    <3>2. /\ \A a : Down(<<Msg("ack", a)>>)
          /\ Down(<<>>) /\ Down(<<no, ns>>) /\ Down(<<bad>>) /\ Down(<<good>>)
          /\ Down(<<good, l0>>) /\ Down(<<good, l1, t>>)
          /\ Down(<<no, bad>>) /\ Down(<<no, good>>) /\ Down(<<no, good, l0>>)
          /\ Down(<<no, good, l1, t>>)
      BY <1>2 DEF Down, Msg
    <3> HIDE DEF no, good, bad, l0, l1, t, ns
    <3>3. QED BY <3>1, <3>2
  <2>3. QED BY <2>1, <2>2 DEF Up, Down
<1>5. CASE DownloadPhase(p)
  <2>1. toServer = <<>> BY <1>5 DEF DownloadPhase, Sending, On
  <2>2. ASSUME NEW n, NEW pre \in {<<Msg("ack", "NO_ERROR"), Msg("size", n)>>, <<Msg("size", n)>>, <<>>},
               NEW total, Sending(pre, total)
        PROVE  Down(toClient)
    <3> DEFINE S == {Msg("ack", "NO_ERROR"), Msg("size", n)} \cup DataMsgs
    <3>1. pre \in Seq(S)
      <4> DEFINE a == Msg("ack", "NO_ERROR")  b == Msg("size", n)
      <4>1. a \in S /\ b \in S OBVIOUS
      <4> HIDE DEF S, a, b
      <4>2. <<a, b>> \in Seq(S) /\ <<b>> \in Seq(S) /\ <<>> \in Seq(S) BY <4>1
      <4>3. QED BY <2>2, <4>2 DEF a, b
    <3>2. cl.cmd \in Commands BY <1>5 DEF DownloadPhase
    <3>3. Run(Here, sv.pos) \in Seq(S)
      <4>1. Run(Here, sv.pos) \in Seq(DataMsgs) BY <2>2, <3>2, SendingData DEF Serving, Typed
      <4>2. QED BY <4>1
    <3>4. toClient \in Seq(S)
      <4> HIDE DEF S
      <4>1. toClient = pre \o Run(Here, sv.pos) BY <2>2 DEF Sending
      <4>2. QED BY <3>1, <3>3, <4>1, ConcatProperties
    <3>5. \A m \in S : m.kind \in ClientPlaces BY <1>2 DEF Msg
    <3> HIDE DEF S
    <3>6. QED BY <3>4, <3>5, KindsOf DEF Down
  <2>3. /\ Down(<<Msg("ack", "NO_ERROR"), Msg("size", -2)>>)
        /\ Down(<<Msg("size", -2)>>)
    BY <1>2 DEF Down, Msg
  <2>4. Down(toClient)
    <3>1. CASE \E n : \/ Sending(<<Msg("ack", "NO_ERROR"), Msg("size", n)>>, Here + n)
                      \/ Sending(<<Msg("size", n)>>, Here + n)
      <4>1. PICK n : \/ Sending(<<Msg("ack", "NO_ERROR"), Msg("size", n)>>, Here + n)
                     \/ Sending(<<Msg("size", n)>>, Here + n)
        BY <3>1
      <4>2. CASE Sending(<<Msg("ack", "NO_ERROR"), Msg("size", n)>>, Here + n) BY <2>2, <4>2
      <4>3. CASE Sending(<<Msg("size", n)>>, Here + n) BY <2>2, <4>3
      <4>4. QED BY <4>1, <4>2, <4>3
    <3>2. CASE Sending(<<>>, cl.need) BY <2>2, <3>2
    <3>3. CASE toClient \in {<<Msg("ack", "NO_ERROR"), Msg("size", -2)>>, <<Msg("size", -2)>>}
      BY <2>3, <3>3
    <3>4. QED BY <1>5, <3>1, <3>2, <3>3 DEF DownloadPhase, On, Ack
  <2>5. QED BY <1>1, <1>2, <2>1, <2>4 DEF Up, Down
<1>6. CASE UploadPhase(p)
  <2>1. cl.cmd \in Commands BY <1>6 DEF UploadPhase
  <2>2. toServer = <<>> \/ (There <= cl.pos /\ toServer = Run(There, cl.pos))
    BY <1>6 DEF UploadPhase, Receiving, On
  <2>3. Up(toServer)
    <3>1. CASE toServer = <<>> BY <1>1, <1>2, <3>1
    <3>2. CASE There <= cl.pos /\ toServer = Run(There, cl.pos)
      <4>1. There \in Int /\ cl.pos \in Int BY <2>1, FileSizes DEF Serving, Typed, Clients
      <4>2. toServer \in Seq(DataMsgs) BY <3>2, <4>1, RunIsSeq
      <4>3. QED BY <1>2, <4>2, KindsOf DEF Up
    <3>3. QED BY <2>2, <3>1, <3>2
  <2>4. \E x : \E pre \in {<<Msg("ack", "NO_ERROR"), Msg("offset", x)>>, <<Msg("offset", x)>>, <<>>} :
           toClient = pre \/ toClient = pre \o <<Msg("stored", 0)>>
    BY <1>6 DEF UploadPhase, Receiving, On, Ack
  <2>5. Down(toClient)
    <3>1. PICK x : \E pre \in {<<Msg("ack", "NO_ERROR"), Msg("offset", x)>>, <<Msg("offset", x)>>, <<>>} :
             toClient = pre \/ toClient = pre \o <<Msg("stored", 0)>>
      BY <2>4
    <3>2. PICK pre \in {<<Msg("ack", "NO_ERROR"), Msg("offset", x)>>, <<Msg("offset", x)>>, <<>>} :
             toClient = pre \/ toClient = pre \o <<Msg("stored", 0)>>
      BY <3>1
    <3> DEFINE S == {Msg("ack", "NO_ERROR"), Msg("offset", x), Msg("stored", 0)}
    <3>3. pre \in Seq(S) /\ <<Msg("stored", 0)>> \in Seq(S)
      <4> DEFINE a == Msg("ack", "NO_ERROR")  b == Msg("offset", x)  c == Msg("stored", 0)
      <4>1. a \in S /\ b \in S /\ c \in S OBVIOUS
      <4> HIDE DEF S, a, b, c
      <4>2. <<a, b>> \in Seq(S) /\ <<b>> \in Seq(S) /\ <<>> \in Seq(S) /\ <<c>> \in Seq(S)
        BY <4>1
      <4>3. QED BY <3>2, <4>2 DEF a, b, c
    <3>4. \A m \in S : m.kind \in ClientPlaces BY <1>2 DEF Msg
    <3> HIDE DEF S
    <3>5. toClient \in Seq(S) BY <3>2, <3>3, ConcatProperties
    <3>6. QED BY <3>4, <3>5, KindsOf DEF Down
  <2>6. QED BY <2>3, <2>5 DEF Up, Down
<1>7. QED BY <1>3, <1>4, <1>5, <1>6 DEF Serving, Phase

\* Another session that makes a real file longer comes between no two messages.
LEMMA GrowStep ==
    ASSUME Regular, NEW p, Serving(p), NEW f \in Files, Grow(f)
    PROVE  Phase(p)'
<1>1. /\ Len(store[f]) < Size(f)
      /\ sv.file = f => sv.pc \notin {"data", "send"}
      /\ store' = [store EXCEPT ![f] = Append(@, Len(@) + 1)]
      /\ UNCHANGED <<cl, sv, toServer, toClient, local>>
  BY DEF Grow, Regular
<1>2. File' = File /\ Here' = Here /\ Request' = Request /\ DoneMsg' = DoneMsg
  BY <1>1 DEF File, Here, Request, DoneMsg, Msg
<1>3. LoginPhase(p) => LoginPhase(p)' BY <1>1 DEF LoginPhase, On, Msg
<1>4. CommandPhase(p) => CommandPhase(p)'
  BY <1>1, <1>2 DEF CommandPhase, Waits, On, Msg, Ack, Result
<1>5. cl.cmd \in Commands => /\ File \in Files /\ There \in Nat /\ There' \in Nat
                             /\ There <= There' /\ Size(File) \in Nat
                             /\ f # File => There' = There
  <2>1. SUFFICES ASSUME cl.cmd \in Commands
                 PROVE  /\ File \in Files /\ There \in Nat /\ There' \in Nat
                        /\ There <= There' /\ Size(File) \in Nat
                        /\ f # File => There' = There
    OBVIOUS
  <2>2. /\ File \in Files /\ There \in Nat /\ store[File] = Beginning(There)
        /\ Size(File) \in Nat
    BY <2>1, FileSizes DEF Serving
  <2>3. File \in DOMAIN store BY <2>2 DEF Serving, Beginnings
  <2>4. CASE f # File
    <3>1. There' = There BY <1>1, <1>2, <2>4 DEF There
    <3>2. QED BY <2>2, <2>4, <3>1
  <2>5. CASE f = File
    <3>1. store'[File] = Append(Beginning(There), There + 1)
      BY <1>1, <2>2, <2>3, <2>5 DEF There
    <3>2. Beginning(There) \in Seq(Nat) /\ Len(Beginning(There)) = There
      BY <2>2, BeginningIsSeq
    <3>3. Len(store'[File]) = There + 1 BY <3>1, <3>2, <2>2
    <3>4. There' = There + 1 BY <1>2, <3>3 DEF There
    <3>5. QED BY <2>2, <2>5, <3>4
  <2>6. QED BY <2>4, <2>5
<1>6. ASSUME DownloadPhase(p) PROVE DownloadPhase(p)'
  <2>1. cl.cmd \in Commands BY <1>6 DEF DownloadPhase
  <2>2. ASSUME NEW pre, NEW total, Sending(pre, total)
        PROVE  total <= There' /\ (sv.pc = "send" => total = There')
    <3>1. sv.pos \in Nat BY DEF Serving, Typed, Servers
    <3>2. CASE sv.pc = "send"
      <4>1. f # File BY <1>1, <2>2, <3>2 DEF Sending
      <4>2. QED BY <1>5, <2>1, <2>2, <3>2, <4>1 DEF Sending
    <3>3. CASE sv.pc # "send"
      <4>1. sv.pos = total /\ total <= There BY <2>2, <3>3 DEF Sending
      <4>2. QED BY <1>5, <2>1, <3>1, <3>3, <4>1
    <3>4. QED BY <3>2, <3>3
  <2>3. CASE p = "ack" /\ \E n \in Nat : Sending(<<Ack("NO_ERROR"), Msg("size", n)>>, Here + n)
    <3>1. PICK n \in Nat : Sending(<<Ack("NO_ERROR"), Msg("size", n)>>, Here + n) BY <2>3
    <3>2. Sending(<<Ack("NO_ERROR"), Msg("size", n)>>, Here + n)'
      BY <1>1, <1>2, <2>2, <3>1 DEF Sending, Ack, Msg, Run
    <3>3. QED BY <1>1, <2>1, <1>6, <2>3, <3>2 DEF DownloadPhase
  <2>4. CASE p = "size" /\ \E n \in Nat : Sending(<<Msg("size", n)>>, Here + n)
    <3>1. PICK n \in Nat : Sending(<<Msg("size", n)>>, Here + n) BY <2>4
    <3>2. Sending(<<Msg("size", n)>>, Here + n)'
      BY <1>1, <1>2, <2>2, <3>1 DEF Sending, Msg, Run
    <3>3. QED BY <1>1, <2>1, <1>6, <2>4, <3>2 DEF DownloadPhase
  <2>5. CASE p = "data" /\ Sending(<<>>, cl.need)
    <3>1. Sending(<<>>, cl.need)' BY <1>1, <1>2, <2>2, <2>5 DEF Sending, Msg, Run
    <3>2. QED BY <1>1, <2>1, <1>6, <2>5, <3>1 DEF DownloadPhase
  <2>6. CASE \/ p = "ack" /\ On(<<>>, "command", <<Ack("NO_ERROR"), Msg("size", -2)>>)
             \/ p = "size" /\ On(<<>>, "command", <<Msg("size", -2)>>)
    BY <1>1, <1>6, <2>6 DEF DownloadPhase, On, Ack, Msg
  <2>7. QED BY <1>6, <2>3, <2>4, <2>5, <2>6 DEF DownloadPhase
<1>7. ASSUME UploadPhase(p) PROVE UploadPhase(p)'
  <2>1. cl.cmd \in Commands /\ cl.cmd.cmd = "upload" /\ Here = Size(File)
    BY <1>7 DEF UploadPhase
  <2>2. ASSUME NEW up, NEW down, Receiving(up, down)
        PROVE  There' = There
    <3>1. CASE sv.pc = "data"
      <4>1. sv.file = File BY <2>2, <3>1 DEF Receiving, On
      <4>2. f # File BY <1>1, <3>1, <4>1
      <4>3. QED BY <1>5, <2>1, <4>2
    <3>2. CASE sv.pc # "data"
      <4>1. There = Size(File) BY <2>2, <3>2 DEF Receiving, On
      <4>2. f # File BY <1>1, <1>5, <2>1, <4>1 DEF There
      <4>3. QED BY <1>5, <2>1, <4>2
    <3>3. QED BY <3>1, <3>2
  <2>3. CASE There' = There
    BY <1>1, <1>2, <1>7, <2>3 DEF UploadPhase, Receiving, On, Ack, Msg, Run
  <2>4. CASE There' # There
    BY <1>1, <1>2, <1>7, <2>2, <2>4 DEF UploadPhase, On, Ack, Msg
  <2>5. QED BY <2>3, <2>4
<1>8. QED BY <1>3, <1>4, <1>6, <1>7 DEF Serving, Phase

\* The files after such a step.
LEMMA GrowFiles ==
    ASSUME IInv, NEW f \in Files, Grow(f)
    PROVE  Beginnings(store)' /\ Behind' /\ Finished'
<1>1. /\ Len(store[f]) < Size(f)
      /\ store' = [store EXCEPT ![f] = Append(@, Len(@) + 1)]
      /\ UNCHANGED <<cl, local>>
  BY DEF Grow
<1>2. /\ store = [g \in Files |-> Beginning(Len(store[g]))]
      /\ \A g \in Files : Len(store[g]) \in 0..Size(g)
  BY DEF IInv, Beginnings
<1> DEFINE n == Len(store[f])
<1>3. n \in Nat /\ n + 1 \in Nat /\ Size(f) \in Nat /\ n + 1 <= Size(f)
  BY <1>1, <1>2, FilesAssumption
<1>4. store'[f] = Beginning(n + 1)
  <2>1. store'[f] = Append(Beginning(n), n + 1) BY <1>1, <1>2
  <2>2. Append(Beginning(n), n + 1) = Beginning(n) \o <<n + 1>>
    <3> HIDE DEF n
    <3>1. Beginning(n) \in Seq(Nat) /\ n + 1 \in Nat BY <1>3, BeginningIsSeq
    <3>2. QED BY <3>1, AppendIsConcat
  <2>3. <<n + 1>> = [i \in 1..1 |-> n + i] BY <1>3
  <2>4. Beginning(n) \o [i \in 1..1 |-> n + i] = Beginning(n + 1)
    BY <1>3, BeginningGrows
  <2>5. QED BY <2>1, <2>2, <2>3, <2>4
<1>5. Len(store'[f]) = n + 1 BY <1>3, <1>4, BeginningIsSeq
<1>6. \A g \in Files : g # f => store'[g] = store[g] BY <1>1, <1>2
<1>7. \A g \in Files : Len(store'[g]) \in Nat /\ Len(store[g]) <= Len(store'[g])
  <2>1. ASSUME NEW g \in Files
        PROVE  Len(store'[g]) \in Nat /\ Len(store[g]) <= Len(store'[g])
    <3>1. Len(store[g]) \in Nat BY <1>2, FilesAssumption
    <3>2. QED BY <1>3, <1>5, <1>6, <3>1
  <2>2. QED BY <2>1
<1>8. Beginnings(store)'
  <2>1. ASSUME NEW g \in Files
        PROVE  store'[g] = Beginning(Len(store'[g])) /\ Len(store'[g]) \in 0..Size(g)
    <3>1. CASE g = f
      <4>1. n + 1 \in 0..Size(f) BY <1>3
      <4>2. QED BY <1>4, <1>5, <3>1, <4>1
    <3>2. CASE g # f
      <4>1. store'[g] = store[g] BY <1>6, <3>2
      <4>2. QED BY <1>2, <4>1
    <3>3. QED BY <3>1, <3>2
  <2>2. store' = [g \in Files |-> store'[g]]
    <3>1. DOMAIN store = Files BY <1>2
    <3>2. QED BY <1>1, <3>1
  <2>3. QED BY <2>1, <2>2 DEF Beginnings
<1>9. Behind'
  <2>1. ASSUME NEW c \in Commands, c.cmd = "download"
        PROVE  Len(local[c.file]) <= Len(store'[c.file])
    <3>1. c.file \in Files BY CommandsAssumption
    <3>2. Len(local[c.file]) \in Nat /\ Len(store[c.file]) \in Nat
      BY <1>2, <3>1, FilesAssumption DEF IInv, Beginnings
    <3>3. Len(local[c.file]) <= Len(store[c.file]) BY <2>1 DEF IInv, Behind
    <3>4. Len(store'[c.file]) \in Nat /\ Len(store[c.file]) <= Len(store'[c.file])
      BY <1>7, <3>1
    <3>5. QED BY <3>2, <3>3, <3>4
  <2>2. QED BY <1>1, <2>1 DEF Behind
<1>10. Finished'
  <2>1. CASE cl.out = "stored" /\ cl.pc = "prompt"
    <3>1. cl.cmd \in Commands /\ Here = Size(File) /\ There = Size(File)
      BY <2>1 DEF IInv, Finished
    <3>2. File \in Files BY <3>1, CommandsAssumption DEF File
    <3>3. f # File BY <1>1, <3>1, <3>2, FilesAssumption DEF There
    <3>4. store'[File] = store[File] BY <1>6, <3>2, <3>3
    <3>5. QED BY <1>1, <2>1, <3>1, <3>4 DEF Finished, Here, There, File
  <2>2. CASE ~(cl.out = "stored" /\ cl.pc = "prompt")
    BY <1>1, <2>2 DEF IInv, Finished
  <2>3. QED BY <2>1, <2>2
<1>11. QED BY <1>8, <1>9, <1>10

LEMMA ServingSome ==
    ASSUME IInv, ~Ended
    PROVE  \E p : Serving(p)
BY DEF IInv, Conversation, Serving

LEMMA Started ==
    ASSUME Regular, cl = NewClient, sv \in NewSessions, toServer = <<>>, toClient = <<>>
    PROVE  cl \in Clients /\ sv \in Servers /\ Conversation /\ Finished
<1>1. cl \in Clients BY DEF NewClient, Clients, Places
<1>2. sv \in Servers /\ sv.pc \in {"account", "abandoned"} BY DEF NewSessions, Servers, ServerPlaces
<1>3. cl.pc = "menu" /\ cl.out = "none" BY DEF NewClient
<1>4. LoginPhase("menu") BY <1>2 DEF LoginPhase, On
<1>5. "menu" \in Places BY DEF Places
<1>6. Conversation BY <1>3, <1>4, <1>5 DEF Conversation, Phase
<1>7. QED BY <1>1, <1>2, <1>3, <1>6 DEF Finished

LEMMA InitHolds ==
    ASSUME Regular, Init
    PROVE  IInv
<1>1. cl \in Clients /\ sv \in Servers /\ Conversation /\ Finished BY Started DEF Init
<1>2. entries \subseteq Files /\ conns \in 1..MaxConns
  BY FilesAssumption, BoundsAssumption DEF Init
<1>3. ASSUME NEW f \in Files
      PROVE  /\ Size(f) \in Nat
             /\ local[f] = Beginning(Local(f)) /\ Len(local[f]) = Local(f) /\ Local(f) \in 0..Size(f)
             /\ store[f] = Beginning(Stored(f)) /\ Len(store[f]) = Stored(f)
             /\ Stored(f) \in 0..Size(f)
  <2>1. {Size(f), Local(f), Stored(f)} \subseteq Nat /\ Local(f) <= Size(f) /\ Stored(f) <= Size(f)
    BY FilesAssumption
  <2>2. local[f] = Beginning(Local(f)) /\ store[f] = Beginning(Stored(f)) BY DEF Init
  <2>3. Len(Beginning(Local(f))) = Local(f) /\ Len(Beginning(Stored(f))) = Stored(f)
    BY <2>1, BeginningIsSeq
  <2>4. QED BY <2>1, <2>2, <2>3
<1>4. Beginnings(local) /\ Beginnings(store) BY <1>3 DEF Init, Beginnings
<1>5. Behind BY <1>3, CommandsAssumption DEF Regular, Behind
<1>6. QED BY <1>1, <1>2, <1>4, <1>5 DEF IInv, Typed

LEMMA ServerKeeps ==
    ASSUME Regular, IInv, ServerStep
    PROVE  IInv'
<1>1. sv.pc # "closed" /\ UNCHANGED <<cl, local, conns>>
  BY DEF ServerStep, LoginOrSignin, RecvCrypt, RePassWd, RefuseWords, ServeSimple, ServeListing,
         ServeCd, ServeExit, ServeRp, ServeOther, Serves, ServerReads, ServeDownload, SendFile,
         FileSent, RecvDone, ServeUpload, RecvFile, FileStored, Transfer, Eof, client
<1>2. PICK p : Serving(p) BY <1>1, ServingSome DEF Ended
<1>3. sv \in Servers /\ cl \in Clients /\ p \in Places /\ cl.pc \in {p, "gone"} /\ Phase(p)
  BY <1>2 DEF Serving, Typed
<1>4. ASSUME NEW place \in ServerPlaces \cup {"closed"}, sv' = [sv EXCEPT !.pc = place]
      PROVE  sv' \in Servers
  BY <1>3, <1>4 DEF Servers
<1>5. CASE Eof
  <2>1. cl.pc = "gone" /\ sv' = [sv EXCEPT !.pc = "closed"] /\ toServer' = <<>>
        /\ UNCHANGED <<toClient, store, entries>>
    BY <1>5 DEF Eof
  <2>2. sv' \in Servers /\ sv'.pc = "closed" BY <1>3, <1>4, <2>1 DEF Servers
  <2>3. \A i \in DOMAIN toClient : toClient[i].kind \in ClientPlaces BY <1>2, Kinds
  <2>4. Conversation' BY <1>1, <2>1, <2>2, <2>3 DEF Conversation, Ended
  <2>5. Finished' BY <1>1, <2>1 DEF Finished
  <2>6. Beginnings(local)' /\ Beginnings(store)' /\ Behind' BY <1>1, <2>1, FilesStay DEF IInv
  <2>7. QED BY <1>1, <2>1, <2>2, <2>4, <2>5, <2>6 DEF IInv, Typed
<1>6. ASSUME Phase(p)', sv' \in Servers, UNCHANGED <<store, entries>>
      PROVE  IInv'
  <2>1. Conversation' BY <1>1, <1>3, <1>6 DEF Conversation
  <2>2. Finished' BY <1>1, <1>6 DEF IInv, Finished, Here, There, File
  <2>3. Beginnings(local)' /\ Beginnings(store)' /\ Behind' BY <1>1, <1>6, FilesStay DEF IInv
  <2>4. QED BY <1>1, <1>6, <2>1, <2>2, <2>3 DEF IInv, Typed
<1>7. CASE LoginOrSignin \/ RecvCrypt \/ RePassWd
  <2>1. Phase(p)' /\ \E place \in {"account", "crypt", "command"} : sv' = [sv EXCEPT !.pc = place]
    BY <1>3, <1>7, ServerLogin
  <2>2. sv' \in Servers BY <1>4, <2>1 DEF ServerPlaces
  <2>3. UNCHANGED <<store, entries>>
    BY <1>7 DEF LoginOrSignin, RecvCrypt, RePassWd, ServerReads
  <2>4. QED BY <1>6, <2>1, <2>2, <2>3
<1>8. CASE Plain
  <2>1. Phase(p)' /\ \E place \in {"command", "closed", "newcrypt"} : sv' = [sv EXCEPT !.pc = place]
    BY <1>3, <1>8, ServerCommands
  <2>2. sv' \in Servers BY <1>4, <2>1 DEF ServerPlaces
  <2>3. UNCHANGED <<store, entries>>
    BY <1>8 DEF Plain, RefuseWords, ServeSimple, ServeListing, ServeCd, ServeExit, ServeRp,
                ServeOther, Serves, ServerReads
  <2>4. QED BY <1>6, <2>1, <2>2, <2>3
<1>9. CASE ServeDownload
  <2>1. Phase(p)' /\ sv' \in Servers BY <1>2, <1>9, DownloadStarts
  <2>2. UNCHANGED <<store, entries>> BY <1>9 DEF ServeDownload, Transfer
  <2>3. QED BY <1>6, <2>1, <2>2
<1>10. CASE SendFile
  <2>1. Phase(p)' /\ sv' \in Servers BY <1>2, <1>10, SendStep
  <2>2. UNCHANGED <<store, entries>> BY <1>10 DEF SendFile
  <2>3. QED BY <1>6, <2>1, <2>2
<1>11. CASE FileSent
  <2>1. Phase(p)' /\ sv' \in Servers BY <1>2, <1>11, FileSentStep
  <2>2. UNCHANGED <<store, entries>> BY <1>11 DEF FileSent
  <2>3. QED BY <1>6, <2>1, <2>2
<1>12. CASE RecvDone
  <2>1. Phase(p)' /\ sv' \in Servers BY <1>2, <1>12, DoneStep
  <2>2. UNCHANGED <<store, entries>> BY <1>12 DEF RecvDone, ServerReads
  <2>3. QED BY <1>6, <2>1, <2>2
<1>13. CASE ServeUpload
  <2>1. Phase(p)' /\ sv' \in Servers /\ entries' \subseteq Files BY <1>2, <1>13, UploadStarts
  <2>2. UNCHANGED store BY <1>13 DEF ServeUpload, Transfer
  <2>3. Conversation' BY <1>1, <1>3, <2>1 DEF Conversation
  <2>4. Finished' BY <1>1, <2>2 DEF IInv, Finished, Here, There, File
  <2>5. Beginnings(local)' /\ Beginnings(store)' /\ Behind' BY <1>1, <2>2, FilesStay DEF IInv
  <2>6. QED BY <1>1, <2>1, <2>3, <2>4, <2>5 DEF IInv, Typed
<1>14. CASE RecvFile
  <2>1. Phase(p)' /\ sv' \in Servers /\ Beginnings(store)' /\ Behind' /\ Finished'
    BY <1>2, <1>14, ReceiveStep
  <2>2. UNCHANGED entries BY <1>14 DEF RecvFile
  <2>3. Conversation' BY <1>1, <1>3, <2>1 DEF Conversation
  <2>4. Beginnings(local)' BY <1>1 DEF IInv, Beginnings
  <2>5. QED BY <1>1, <2>1, <2>2, <2>3, <2>4 DEF IInv, Typed
<1>15. CASE FileStored
  <2>1. Phase(p)' /\ sv' \in Servers BY <1>2, <1>15, FileStoredStep
  <2>2. UNCHANGED <<store, entries>> BY <1>15 DEF FileStored
  <2>3. QED BY <1>6, <2>1, <2>2
<1>16. QED
  BY <1>5, <1>7, <1>8, <1>9, <1>10, <1>11, <1>12, <1>13, <1>14, <1>15 DEF ServerStep, Plain

LEMMA ConnectKeeps ==
    ASSUME Regular, IInv, Connect
    PROVE  IInv'
<1>1. cl' = NewClient /\ sv' \in NewSessions /\ toServer' = <<>> /\ toClient' = <<>>
      /\ conns < MaxConns /\ conns' = conns + 1 /\ UNCHANGED <<local, store, entries>>
  BY DEF Connect
<1>2. cl' \in Clients BY <1>1 DEF NewClient, Clients, Places
<1>3. sv' \in Servers /\ sv'.pc \in {"account", "abandoned"}
  BY <1>1 DEF NewSessions, Servers, ServerPlaces
<1>4. cl'.pc = "menu" /\ cl'.out = "none" BY <1>1 DEF NewClient
<1>5. LoginPhase("menu")' BY <1>1, <1>3 DEF LoginPhase, On
<1>6. "menu" \in Places BY DEF Places
<1>7. Conversation' BY <1>4, <1>5, <1>6 DEF Conversation, Phase
<1>8. Finished' BY <1>4 DEF Finished
<1>9. conns' \in 1..MaxConns BY <1>1, BoundsAssumption DEF IInv, Typed
<1>10. Beginnings(local)' /\ Beginnings(store)' /\ Behind' BY <1>1, FilesStay DEF IInv
<1>11. QED BY <1>1, <1>2, <1>3, <1>7, <1>8, <1>9, <1>10 DEF IInv, Typed

LEMMA GrowKeeps ==
    ASSUME Regular, IInv, NEW f \in Files, Grow(f)
    PROVE  IInv'
<1>1. UNCHANGED <<cl, sv, toServer, toClient, local, entries, conns>> BY DEF Grow
<1>2. Beginnings(store)' /\ Behind' /\ Finished' BY GrowFiles
<1>3. Beginnings(local)' BY <1>1 DEF IInv, Beginnings
<1>4. Conversation'
  <2>1. CASE Ended BY <1>1, <2>1 DEF Conversation, Ended
  <2>2. CASE ~Ended
    <3>1. PICK p : Serving(p) BY <2>2, ServingSome
    <3>2. Phase(p)' BY <3>1, GrowStep
    <3>3. QED BY <1>1, <3>1, <3>2 DEF Conversation, Serving
  <2>3. QED BY <2>1, <2>2
<1>5. QED BY <1>1, <1>2, <1>3, <1>4 DEF IInv, Typed

-----------------------------------------------------------------------------
(***************************************************************************)
(* Theorems.                                                               *)
(***************************************************************************)
\* In every reachable state the places of the two sides, the messages between them and the
\* files agree as IInv says.
THEOREM Inductive ==
    ASSUME Regular
    PROVE  Spec => []IInv
<1>1. Init => IInv BY InitHolds
<1>2. IInv /\ [Next]_vars => IInv'
  <2>1. SUFFICES ASSUME IInv, [Next]_vars PROVE IInv' OBVIOUS
  <2>2. CASE ClientStep BY <2>1, <2>2, ClientKeeps DEF ClientMoves
  <2>3. CASE ServerStep BY <2>1, <2>3, ServerKeeps
  <2>4. CASE UserLogin \/ \E c \in Commands : Type(c)
    BY <2>1, <2>4, ClientKeeps DEF ClientMoves
  <2>5. CASE Leave BY <2>1, <2>5, LeaveKeeps
  <2>6. CASE Connect BY <2>1, <2>6, ConnectKeeps
  <2>7. CASE \E f \in Files : Grow(f) BY <2>1, <2>7, GrowKeeps
  <2>8. CASE UNCHANGED vars
    <3>1. UNCHANGED <<cl, sv, toServer, toClient, local, store, entries, conns>>
      BY <2>8 DEF vars
    <3>2. CASE Ended
      <4>1. Conversation' BY <3>1, <3>2 DEF Conversation, Ended
      <4>2. QED BY <2>1, <3>1, <4>1 DEF IInv, Typed, Beginnings, Behind, Finished, Here, There, File
    <3>3. CASE ~Ended
      <4>1. PICK p : Serving(p) BY <2>1, <3>3, ServingSome
      <4>2. LoginPhase(p) => LoginPhase(p)' BY <3>1 DEF LoginPhase, On, Msg
      <4>3. CommandPhase(p) => CommandPhase(p)'
        BY <3>1 DEF CommandPhase, Waits, On, Msg, Ack, Result, DoneMsg, Request, Here, File
      <4>4. DownloadPhase(p) => DownloadPhase(p)'
        BY <3>1 DEF DownloadPhase, Sending, On, Msg, Ack, Run, Here, There, File
      <4>5. UploadPhase(p) => UploadPhase(p)'
        BY <3>1 DEF UploadPhase, Receiving, On, Msg, Ack, Run, Here, There, File
      <4>6. Conversation' BY <3>1, <4>1, <4>2, <4>3, <4>4, <4>5 DEF Serving, Phase, Conversation
      <4>7. QED BY <2>1, <3>1, <4>6 DEF IInv, Typed, Beginnings, Behind, Finished, Here, There, File
    <3>4. QED BY <3>2, <3>3
  <2>9. QED BY <2>1, <2>2, <2>3, <2>4, <2>5, <2>6, <2>7, <2>8 DEF Next, UserStep
<1>3. QED BY <1>1, <1>2, PTL DEF Spec

\* Every variable holds a value of its type, and each side only ever has on its way messages
\* that the other one has a place to read at.
THEOREM TypeCorrect ==
    ASSUME Regular
    PROVE  Spec => []TypeOK
<1>1. IInv => TypeOK
  <2>1. SUFFICES ASSUME IInv PROVE TypeOK OBVIOUS
  <2>2. /\ cl.pc \in ClientPlaces \cup {"menu", "prompt", "send", "gone"}
        /\ cl.cmd \in Commands \cup {NoCmd} /\ cl.need \in Int /\ cl.pos \in Int
        /\ sv.pc \in ServerPlaces \cup {"send", "closed", "abandoned"}
        /\ sv.need \in Int /\ sv.got \in Nat /\ sv.pos \in Nat
        /\ entries \subseteq Files /\ conns \in 1..MaxConns
    BY <2>1 DEF IInv, Typed, Clients, Servers, Places
  <2>3. /\ \A i \in DOMAIN toServer : toServer[i].kind \in ServerPlaces
        /\ \A i \in DOMAIN toClient : toClient[i].kind \in ClientPlaces
    <3>1. CASE Ended BY <3>1 DEF Ended
    <3>2. CASE ~Ended BY <2>1, <3>2, ServingSome, Kinds
    <3>3. QED BY <3>1, <3>2
  <2>4. ASSUME NEW files, Beginnings(files), NEW f \in Files
        PROVE  files[f] \in Seq(Nat)
    <3>1. files[f] = Beginning(Len(files[f])) /\ Len(files[f]) \in Nat
      BY <2>4, FilesAssumption DEF Beginnings
    <3>2. QED BY <3>1, BeginningIsSeq
  <2>5. \A f \in Files : local[f] \in Seq(Nat) /\ store[f] \in Seq(Nat)
    BY <2>1, <2>4 DEF IInv
  <2>6. QED BY <2>2, <2>3, <2>5 DEF TypeOK
<1>2. QED BY <1>1, Inductive, PTL

LEMMA FirstAnswer ==
    ASSUME NEW p \in ClientPlaces, p # "data", Serving(p)
    PROVE  Len(toClient) \in Nat /\ (Len(toClient) # 0 => toClient[1].kind = p)
<1> DEFINE First(s) == Len(s) \in Nat /\ (Len(s) # 0 => s[1].kind = p)
<1>1. /\ First(<<>>) /\ \A v : First(<<Msg(p, v)>>)
      /\ \A v, m1 : First(<<Msg(p, v), m1>>)
      /\ \A v, m1, m2 : First(<<Msg(p, v), m1, m2>>)
      /\ \A v, m1, m2, m3 : First(<<Msg(p, v), m1, m2, m3>>)
  BY DEF Msg
<1>2. ASSUME NEW v, NEW pre, NEW total, Sending(pre, total), cl.cmd \in Commands,
             pre = <<Msg(p, v)>> \/ \E m : pre = <<Msg(p, v), m>>
      PROVE  First(toClient)
  <2>1. PICK S : /\ pre \in Seq(S) /\ Len(pre) \in {1, 2} /\ pre[1] = Msg(p, v)
    <3>1. CASE pre = <<Msg(p, v)>>
      <4>1. <<Msg(p, v)>> \in Seq({Msg(p, v)}) OBVIOUS
      <4>2. QED BY <3>1, <4>1
    <3>2. CASE \E m : pre = <<Msg(p, v), m>>
      <4>1. PICK m : pre = <<Msg(p, v), m>> BY <3>2
      <4>2. <<Msg(p, v), m>> \in Seq({Msg(p, v), m}) OBVIOUS
      <4>3. QED BY <4>1, <4>2
    <3>3. QED BY <1>2, <3>1, <3>2
  <2> DEFINE U == S \cup DataMsgs  data == Run(Here, sv.pos)
  <2>2. data \in Seq(DataMsgs) BY <1>2, SendingData DEF Serving, Typed
  <2>3. pre \in Seq(U) /\ data \in Seq(U) BY <2>1, <2>2
  <2>4. toClient = pre \o data BY <1>2 DEF Sending
  <2> HIDE DEF U, data
  <2>5. /\ Len(toClient) = Len(pre) + Len(data)
        /\ toClient[1] = IF 1 <= Len(pre) THEN pre[1] ELSE data[1 - Len(pre)]
    <3>1. 1 \in 1..(Len(pre) + Len(data)) BY <2>1, <2>3
    <3>2. QED BY <2>3, <2>4, <3>1, ConcatProperties
  <2>6. Len(data) \in Nat BY <2>3
  <2>7. QED BY <2>1, <2>5, <2>6 DEF Msg
<1> HIDE DEF First
<1> SUFFICES First(toClient) BY DEF First
<1>3. CASE LoginPhase(p) BY <1>1, <1>3 DEF LoginPhase, On, ClientPlaces
<1>4. CASE CommandPhase(p) BY <1>1, <1>4 DEF CommandPhase, Waits, On, Ack, Result, ClientPlaces
<1>5. CASE DownloadPhase(p)
  <2>1. cl.cmd \in Commands BY <1>5 DEF DownloadPhase
  <2>2. CASE p = "ack" /\ \E n \in Nat : Sending(<<Ack("NO_ERROR"), Msg("size", n)>>, Here + n)
    BY <1>2, <2>1, <2>2 DEF Ack
  <2>3. CASE p = "size" /\ \E n \in Nat : Sending(<<Msg("size", n)>>, Here + n)
    BY <1>2, <2>1, <2>3
  <2>4. CASE \/ p = "ack" /\ On(<<>>, "command", <<Ack("NO_ERROR"), Msg("size", -2)>>)
             \/ p = "size" /\ On(<<>>, "command", <<Msg("size", -2)>>)
    BY <1>1, <2>4 DEF On, Ack
  <2>5. QED BY <1>5, <2>2, <2>3, <2>4 DEF DownloadPhase
<1>6. CASE UploadPhase(p)
  <2>1. CASE \/ p = "ack" /\ On(<<>>, "command", <<Ack("NO_ERROR"), Msg("offset", -4)>>)
             \/ p = "offset" /\ On(<<>>, "command", <<Msg("offset", -4)>>)
    BY <1>1, <2>1 DEF On, Ack
  <2> DEFINE s == <<Msg("stored", 0)>>
  <2>2. CASE p = "ack" /\ Receiving(<<>>, <<Ack("NO_ERROR"), Msg("offset", There)>>)
    <3>1. <<Ack("NO_ERROR"), Msg("offset", There)>> \o s
             = <<Ack("NO_ERROR"), Msg("offset", There), Msg("stored", 0)>>
      BY ThreeMessages
    <3>2. QED BY <1>1, <2>2, <3>1 DEF Receiving, On, Ack
  <2>3. CASE p = "offset" /\ Receiving(<<>>, <<Msg("offset", There)>>)
    <3>1. <<Msg("offset", There)>> \o s = <<Msg("offset", There), Msg("stored", 0)>>
      BY TwoMessages
    <3>2. QED BY <1>1, <2>3, <3>1 DEF Receiving, On
  <2>4. CASE p = "stored" /\ Receiving(Run(There, cl.pos), <<>>)
    <3>1. <<>> \o s = s OBVIOUS
    <3>2. QED BY <1>1, <2>4, <3>1 DEF Receiving, On
  <2>5. QED BY <1>6, <2>1, <2>2, <2>3, <2>4 DEF UploadPhase, ClientPlaces
<1>7. QED BY <1>3, <1>4, <1>5, <1>6 DEF Serving, Phase

\* How much a reader takes that is not at file data, and one that is.
LEMMA OneTaken ==
    ASSUME NEW place, place # "data", NEW s, Len(s) \in Nat, NEW i \in 1..Taken(place, s)
    PROVE  i = 1 /\ Len(s) # 0
BY DEF Taken, Min

LEMMA DataTaken ==
    ASSUME NEW s \in Seq(DataMsgs), NEW i \in 1..Taken("data", s)
    PROVE  s[i].kind = "data"
<1>1. Len(s) \in Nat /\ Buf \in Nat BY BoundsAssumption
<1>2. i \in 1..Len(s) BY <1>1 DEF Taken, Min
<1>3. s[i] \in DataMsgs BY <1>2, ElementOfSeq
<1>4. QED BY <1>3 DEF DataMsgs, Msg

\* Whatever the client reads was sent by the session for the place the client reads at.
THEOREM ClientReadsItsAnswers ==
    ASSUME Regular
    PROVE  Spec => []ClientInStep
<1>1. IInv => ClientInStep
  <2>1. SUFFICES ASSUME IInv, cl.pc \in ClientPlaces, cl.pc = "data" => Len(local[File]) < cl.need,
                        NEW i \in 1..Taken(cl.pc, toClient)
                 PROVE  toClient[i].kind = cl.pc
    BY DEF ClientInStep
  <2>2. cl.pc \in Places BY <2>1 DEF Places
  <2>3. Serving(cl.pc) BY <2>1, <2>2, ClientPhase DEF Serving, IInv
  <2>4. CASE cl.pc = "data"
    <3>1. cl.cmd \in Commands /\ Sending(<<>>, cl.need)
      BY <2>3, <2>4
         DEF Serving, Phase, LoginPhase, CommandPhase, DownloadPhase, UploadPhase
    <3>2. Run(Here, sv.pos) \in Seq(DataMsgs) BY <2>3, <3>1, SendingData DEF Serving, Typed
    <3>3. toClient = <<>> \o Run(Here, sv.pos) BY <3>1 DEF Sending
    <3>4. toClient \in Seq(DataMsgs) BY <3>2, <3>3, Prefixed
    <3>5. QED BY <2>1, <2>4, <3>4, DataTaken
  <2>5. CASE cl.pc # "data"
    <3>1. Len(toClient) \in Nat /\ (Len(toClient) # 0 => toClient[1].kind = cl.pc)
      BY <2>1, <2>3, <2>5, FirstAnswer
    <3>2. i = 1 /\ Len(toClient) # 0 BY <2>1, <2>5, <3>1, OneTaken
    <3>3. QED BY <3>1, <3>2
  <2>6. QED BY <2>4, <2>5
<1>2. QED BY <1>1, Inductive, PTL

\* Whatever the session reads was sent by the client for the place the session reads at.
THEOREM SessionReadsItsRequests ==
    ASSUME Regular
    PROVE  Spec => []SessionInStep
<1>1. IInv => SessionInStep
  <2>1. SUFFICES ASSUME IInv, cl.pc # "gone", sv.pc \in ServerPlaces,
                        NEW i \in 1..Taken(sv.pc, toServer)
                 PROVE  toServer[i].kind = sv.pc
    BY DEF SessionInStep
  <2>2. cl.pc \in Places BY <2>1 DEF IInv, Typed, Clients
  <2>3. Serving(cl.pc) BY <2>1, <2>2, ClientPhase DEF Serving, IInv
  <2>4. CASE sv.pc = "data"
    <3>1. /\ cl.cmd \in Commands
          /\ toServer = <<>> \/ (There <= cl.pos /\ toServer = Run(There, cl.pos))
      BY <2>3, <2>4
         DEF Serving, Phase, LoginPhase, CommandPhase, DownloadPhase, UploadPhase, Waits, On,
             Sending, Receiving
    <3>2. There \in Int /\ cl.pos \in Int /\ <<>> \in Seq(DataMsgs)
      BY <2>3, <3>1, FileSizes DEF Serving, Typed, Clients
    <3>3. toServer \in Seq(DataMsgs) BY <3>1, <3>2, RunIsSeq
    <3>4. QED BY <2>1, <2>4, <3>3, DataTaken
  <2>5. CASE sv.pc # "data"
    <3> DEFINE First(s) == Len(s) \in Nat /\ (Len(s) # 0 => s[1].kind = sv.pc)
    <3>1. /\ First(<<>>) /\ \A v : First(<<Msg(sv.pc, v)>>)
          /\ \A v, m : First(<<Msg(sv.pc, v), m>>)
      BY DEF Msg
    <3> HIDE DEF First
    <3> SUFFICES First(toServer)
      <4>1. SUFFICES ASSUME First(toServer) PROVE toServer[i].kind = sv.pc OBVIOUS
      <4>2. Len(toServer) \in Nat /\ (Len(toServer) # 0 => toServer[1].kind = sv.pc)
        BY <4>1 DEF First
      <4>3. i = 1 /\ Len(toServer) # 0 BY <2>1, <2>5, <4>2, OneTaken
      <4>4. QED BY <4>2, <4>3
    <3>2. CASE LoginPhase(cl.pc) BY <2>1, <3>1, <3>2 DEF LoginPhase, On, ServerPlaces
    <3>3. CASE CommandPhase(cl.pc)
      <4>1. CASE toServer = <<>> BY <3>1, <4>1
      <4>2. CASE toServer # <<>>
        <5>1. \/ sv.pc = "command" /\ toServer = <<Request>>
              \/ sv.pc = "done" /\ toServer \in {<<DoneMsg>>, <<DoneMsg, Request>>}
          BY <2>1, <3>3, <4>2 DEF CommandPhase, Waits, On, ServerPlaces
        <5>2. QED BY <3>1, <5>1 DEF Request, DoneMsg
      <4>3. QED BY <4>1, <4>2
    <3>4. CASE DownloadPhase(cl.pc) BY <3>1, <3>4 DEF DownloadPhase, Sending, On
    <3>5. CASE UploadPhase(cl.pc) BY <2>5, <3>1, <3>5 DEF UploadPhase, Receiving, On
    <3>6. QED BY <2>3, <3>2, <3>3, <3>4, <3>5 DEF Serving, Phase
  <2>6. QED BY <2>4, <2>5
<1>2. QED BY <1>1, Inductive, PTL

\* When the user may type, the answers are read up, and the session has at most to read the
\* number that ends a download.
THEOREM NothingIsUnread ==
    ASSUME Regular
    PROVE  Spec => []NothingUnread
<1>1. IInv => NothingUnread
  <2>1. SUFFICES ASSUME IInv, cl.pc \in {"menu", "prompt"}
                 PROVE  /\ toClient = <<>>
                        /\ sv.pc \notin {"crypt", "data", "newcrypt"}
                        /\ \A i \in DOMAIN toServer :
                              toServer[i].kind = "done" /\ sv.pc \in {"send", "done"}
    BY DEF NothingUnread
  <2>2. Phase(cl.pc)
    <3>1. cl.pc \in Places BY <2>1 DEF Places
    <3>2. QED BY <2>1, <3>1, ClientPhase DEF IInv
  <2>3. /\ toClient = <<>>
        /\ \/ sv.pc \in {"account", "abandoned", "command"} /\ toServer = <<>>
           \/ sv.pc \in {"send", "done"} /\ toServer = <<DoneMsg>>
    BY <2>1, <2>2
       DEF Phase, LoginPhase, CommandPhase, DownloadPhase, UploadPhase, Waits, On
  <2>4. \A i \in DOMAIN <<DoneMsg>> : <<DoneMsg>>[i].kind = "done" BY DEF DoneMsg, Msg
  <2>5. QED BY <2>3, <2>4
<1>2. QED BY <1>1, Inductive, PTL

\* On either side a file is always the beginning of its content, wherever transfers were cut.
THEOREM TransfersAreResumed ==
    ASSUME Regular
    PROVE  Spec => []TransfersLineUp
<1>1. IInv => TransfersLineUp BY DEF IInv, Beginnings, TransfersLineUp
<1>2. QED BY <1>1, Inductive, PTL

\* A file whose upload the client has seen end is on the server as it is on the client.
THEOREM UploadsAreKept ==
    ASSUME Regular
    PROVE  Spec => []UploadKept
<1>1. IInv => UploadKept
  <2>1. SUFFICES ASSUME IInv, cl.pc = "prompt", cl.out = "stored"
                 PROVE  store[File] = local[File]
    BY DEF UploadKept
  <2>2. cl.cmd \in Commands /\ Here = Size(File) /\ There = Size(File)
    BY <2>1 DEF IInv, Finished
  <2>3. local[File] = Beginning(Here) /\ store[File] = Beginning(There)
    BY <2>1, <2>2, FileSizes DEF IInv
  <2>4. QED BY <2>2, <2>3
<1>2. QED BY <1>1, Inductive, PTL
=============================================================================
