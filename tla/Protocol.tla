------------------------------ MODULE Protocol ------------------------------
(***************************************************************************)
(* One client and the session that serves it, on one TCP connection.       *)
(* Nothing on the wire says what a message is: each side knows from its    *)
(* place in its own program what the next bytes must be.  Here a message   *)
(* carries the purpose it was sent for, and a reader is at a place named   *)
(* after the purpose it reads for.                                         *)
(*                                                                         *)
(*   client/src/client.c, command.c, userlogin.c                           *)
(*   server/src/UserFunc.c   UserFunc, LoginOrSignin, CmdAnalyse, RePassWd *)
(*   server/src/transFile.c  user_download, user_upload                    *)
(*                                                                         *)
(* What the commands do to the tables is in Account, FileTree, CopyDir and *)
(* FileStore: here they succeed or fail.  A file is a sequence of chunks;  *)
(* chunk i of every content is the number i.  A reader that meets a        *)
(* message of another purpose is stuck: what the code makes of those bytes *)
(* is not modelled, InStep says that it does not happen.                   *)
(***************************************************************************)
EXTENDS Integers, Sequences

CONSTANTS
    Files,          \* names of files, each with a content of its own
    Size(_),        \* the chunks of a content
    Local(_),       \* the chunks of a file the client has at the start
    Stored(_),      \* the chunks of its real file at the start
    Listed,         \* the files that have an entry at the start
    Commands,       \* what the user may type: [cmd, file, words]
    Buf,            \* BUF_LEN and READ_DATA_SIZE: the chunks one read or send moves
    Half,           \* an int holds -Half .. Half - 1
    Room,           \* the chunks the disk can hold of one file
    GrowsWhileSent, \* whether a file may grow while it is downloaded
    DbFails,        \* whether the session's connection to the database may fail
    MaxConns        \* bound: connections in a behaviour

Simple  == {"cp", "mkdir", "rm", "mv"}
Listing == {"ls", "tree", "pwd"}
Checked == Simple \cup {"cd", "download", "upload"}

ASSUME FilesAssumption ==
    /\ Listed \subseteq Files
    /\ \A f \in Files : /\ {Size(f), Local(f), Stored(f)} \subseteq Nat
                        /\ Local(f) <= Size(f) /\ Stored(f) <= Size(f)
ASSUME CommandsAssumption ==
    \A c \in Commands :
        /\ c.cmd \in Checked \cup Listing \cup {"exit", "rp", "clear", "other"}
        /\ c.file \in Files /\ c.words \in {"good", "more", "none"}
ASSUME BoundsAssumption ==
    /\ {Buf, Half, MaxConns} \subseteq Nat \ {0} /\ Room \in Nat
    /\ {GrowsWhileSent, DbFails} \subseteq BOOLEAN

VARIABLES
    cl,         \* the client: its place and the locals of its command
    sv,         \* the session: its place and the locals of its transfer
    toServer, toClient,     \* the two directions of the connection
    local,      \* the client's files
    store,      \* the real files on the server
    entries,    \* the files that have an entry in the user's tree
    conns       \* counter for the bound

server == <<sv, store, entries>>
client == <<cl, local>>
vars == <<cl, sv, toServer, toClient, local, store, entries, conns>>

Min(i, j) == IF i < j THEN i ELSE j
Beginning(n) == [i \in 1..n |-> i]
Whole(f)  == Beginning(Size(f))

NoCmd == [cmd |-> "none", words |-> "none"]
NewClient  == [pc |-> "menu", cmd |-> NoCmd, need |-> 0, pos |-> 0, out |-> "none"]

\* UserFunc returns at once if it gets no database, and leaves the socket open.
NewSessions ==
    [pc : {"account"} \cup (IF DbFails THEN {"abandoned"} ELSE {}),
     file : {"none"}, need : {0}, got : {0}, pos : {0}]

Init ==
    /\ cl = NewClient /\ sv \in NewSessions
    /\ toServer = <<>> /\ toClient = <<>>
    /\ local = [f \in Files |-> Beginning(Local(f))]
    /\ store = [f \in Files |-> Beginning(Stored(f))]
    /\ entries = Listed
    /\ conns = 1

-----------------------------------------------------------------------------
(***************************************************************************)
(* Messages.                                                               *)
(***************************************************************************)
Msg(k, v) == [kind |-> k, val |-> v]
Ack(v)    == Msg("ack", v)
Result(v) == Msg("result", v)
Text(n)   == IF n = 0 THEN <<Msg("len", 0)>> ELSE <<Msg("len", n), Msg("text", 0)>>
Data(chunks) == [i \in DOMAIN chunks |-> Msg("data", chunks[i])]
Chunks(msgs) == [i \in DOMAIN msgs |-> msgs[i].val]

Arrived(stream, k) == stream # <<>> /\ Head(stream).kind = k

\* n messages of file data are there to be read.
DataArrived(stream, n) ==
    n \in 1..Min(Buf, Len(stream)) /\ \A i \in 1..n : stream[i].kind = "data"

\* One side reads the message it waits for, goes on at next, and sends out.
ClientReads(k, next, out) ==
    /\ cl.pc = k /\ Arrived(toClient, k)
    /\ cl' = [cl EXCEPT !.pc = next]
    /\ toClient' = Tail(toClient) /\ toServer' = toServer \o out
    /\ UNCHANGED <<server, local, conns>>

ServerReads(k, next, out) ==
    /\ sv.pc = k /\ Arrived(toServer, k)
    /\ sv' = [sv EXCEPT !.pc = next]
    /\ toServer' = Tail(toServer) /\ toClient' = toClient \o out
    /\ UNCHANGED <<client, store, entries, conns>>

Asked == Head(toClient).val
Given == Head(toServer).val

\* Faulty: the size of a file is read into a field that is too narrow.
AtoiNarrow(n) == ((n + 2) % 4) - 2

\* An int made of the decimal digits of a number.
Atoi(n) == ((n + Half) % (2 * Half)) - Half

-----------------------------------------------------------------------------
(***************************************************************************)
(* The client: login.                                                      *)
(***************************************************************************)
UserLogin ==
    /\ cl.pc = "menu"
    /\ cl' = [cl EXCEPT !.pc = "flag"]
    /\ toServer' = Append(toServer, Msg("account", 0))
    /\ UNCHANGED <<toClient, local, server, conns>>

RecvFlag == ClientReads("flag", IF Asked = -1 THEN "menu" ELSE "salt", <<>>)
RecvSalt == ClientReads("salt", "id", <<Msg("crypt", 0)>>)
RecvId   == ClientReads("id", IF Asked = -1 THEN "menu" ELSE "len", <<>>)

\* A length and that many bytes: the directory after login and cd, a listing.
RecvLen  == ClientReads("len", IF Asked = 0 THEN "prompt" ELSE "text", <<>>)
RecvText == ClientReads("text", "prompt", <<>>)

-----------------------------------------------------------------------------
(***************************************************************************)
(* The client: commands.                                                   *)
(***************************************************************************)
\* What the client sends for a line the user typed.  A file that cannot be opened
\* ends upload with NO_SUCH_FILE; download returns -1, which IS_RIGHT lets pass.
Outgoing(c) ==
    IF c.cmd = "clear" \/ (c.cmd = "upload" /\ c.words = "none") THEN <<>>
    ELSE IF c.cmd = "download" /\ c.words = "none" THEN <<Msg("done", -1)>>
    ELSE <<Msg("command", [cmd |-> c.cmd, file |-> c.file, words |-> c.words,
                           size |-> Len(local[c.file])])>>

Sends(c) == c.cmd # "clear" /\ ~(c.cmd \in {"upload", "download"} /\ c.words = "none")

\* A file is uploaded whole: half a content is another content.
Type(c) ==
    /\ cl.pc = "prompt"
    /\ c.cmd = "upload" => local[c.file] = Whole(c.file)
    /\ cl' = [cl EXCEPT !.pc = IF Sends(c) THEN "ack" ELSE "prompt", !.cmd = c, !.out = "none"]
    /\ toServer' = toServer \o Outgoing(c)
    /\ UNCHANGED <<toClient, local, server, conns>>

\* SendCommand: NO_ERROR, or back to the prompt.
AfterAck(cmd) ==
    CASE cmd = "download" -> "size"
      [] cmd = "upload"   -> "offset"
      [] cmd = "exit"     -> "gone"
      [] cmd = "rp"       -> "newsalt"
      [] OTHER            -> "result"

RecvAck == ClientReads("ack", IF Asked = "NO_ERROR" THEN AfterAck(cl.cmd.cmd) ELSE "prompt", <<>>)

RecvResult ==
    ClientReads("result", IF Asked = "NO_ERROR" /\ cl.cmd.cmd \in Listing \cup {"cd"}
                          THEN "len" ELSE "prompt", <<>>)

\* RepasswdCommand: the client does not look at the answer and logs in again.
RecvNewSalt   == ClientReads("newsalt", "newpass", <<Msg("newcrypt", 0)>>)
RecvNewPasswd == ClientReads("newpass", "menu", <<>>)

File == cl.cmd.file

\* Faulty: a download that failed is confirmed like one that is done.
RecvSizeConfirming ==
    /\ cl.pc = "size" /\ Arrived(toClient, "size")
    /\ cl' = [cl EXCEPT !.pc = IF Asked = -2 THEN "prompt" ELSE "data",
                        !.need = Asked + Len(local[File])]
    /\ toClient' = Tail(toClient)
    /\ toServer' = toServer \o (IF Asked = -2 THEN <<Msg("done", -2)>> ELSE <<>>)
    /\ UNCHANGED <<local, server, conns>>

\* DownloadCommand: -2 means that there is no such file.
RecvSize ==
    /\ cl.pc = "size" /\ Arrived(toClient, "size")
    /\ cl' = [cl EXCEPT !.pc = IF Asked = -2 THEN "prompt" ELSE "data",
                        !.need = Asked + Len(local[File])]
    /\ toClient' = Tail(toClient)
    /\ UNCHANGED <<toServer, local, server, conns>>

RecvData ==
    /\ cl.pc = "data" /\ Len(local[File]) < cl.need
    /\ \E n \in 1..Buf :
          /\ DataArrived(toClient, n)
          /\ local' = [local EXCEPT ![File] = @ \o Chunks(SubSeq(toClient, 1, n))]
          /\ toClient' = SubSeq(toClient, n + 1, Len(toClient))
    /\ UNCHANGED <<cl, toServer, server, conns>>

\* client.c: a number for the server when the download is done.
DownloadDone ==
    /\ cl.pc = "data" /\ Len(local[File]) >= cl.need
    /\ cl' = [cl EXCEPT !.pc = "prompt",
                        !.out = IF Len(local[File]) = cl.need THEN "whole" ELSE "wrong"]
    /\ toServer' = Append(toServer, Msg("done", 0))
    /\ UNCHANGED <<toClient, local, server, conns>>

\* Faulty: what the server has already is sent again.
RecvOffsetUnused ==
    /\ cl.pc = "offset" /\ Arrived(toClient, "offset")
    /\ cl' = [cl EXCEPT !.pc = IF Asked = -4 THEN "prompt" ELSE "send", !.pos = 0]
    /\ toClient' = Tail(toClient)
    /\ UNCHANGED <<toServer, local, server, conns>>

\* UploadCommand: -4 means that the server has it already.
RecvOffset ==
    /\ cl.pc = "offset" /\ Arrived(toClient, "offset")
    /\ cl' = [cl EXCEPT !.pc = IF Asked = -4 THEN "prompt" ELSE "send", !.pos = Asked]
    /\ toClient' = Tail(toClient)
    /\ UNCHANGED <<toServer, local, server, conns>>

SendData ==
    /\ cl.pc = "send" /\ cl.pos < Len(local[File])
    /\ LET upto == Min(cl.pos + Buf, Len(local[File]))
       IN  /\ cl' = [cl EXCEPT !.pos = upto]
           /\ toServer' = toServer \o Data(SubSeq(local[File], cl.pos + 1, upto))
    /\ UNCHANGED <<toClient, local, server, conns>>

AllSent ==
    /\ cl.pc = "send" /\ cl.pos >= Len(local[File])
    /\ cl' = [cl EXCEPT !.pc = "stored"]
    /\ UNCHANGED <<toServer, toClient, local, server, conns>>

RecvStored ==
    /\ cl.pc = "stored" /\ Arrived(toClient, "stored")
    /\ cl' = [cl EXCEPT !.pc = "prompt", !.out = "stored"]
    /\ toClient' = Tail(toClient)
    /\ UNCHANGED <<toServer, local, server, conns>>

\* The client ends, in the middle of anything.
Leave ==
    /\ cl.pc # "gone"
    /\ cl' = [cl EXCEPT !.pc = "gone"]
    /\ UNCHANGED <<toServer, toClient, local, server, conns>>

-----------------------------------------------------------------------------
(***************************************************************************)
(* The session: login and change of password.                              *)
(***************************************************************************)
LoginOrSignin ==
    \/ ServerReads("account", "account", <<Msg("flag", -1)>>)
    \/ ServerReads("account", "crypt", <<Msg("flag", 0), Msg("salt", 0)>>)

\* A wrong password; or the user's id, and CmdAnalyse sends the working directory.
RecvCrypt ==
    \/ ServerReads("crypt", "account", <<Msg("id", -1)>>)
    \/ ServerReads("crypt", "command", <<Msg("id", 1)>> \o Text(1))

RePassWd == ServerReads("newcrypt", "account", <<Msg("newpass", 0)>>)

-----------------------------------------------------------------------------
(***************************************************************************)
(* The session: commands.                                                  *)
(***************************************************************************)
\* FindCmdError: the number of words.
WrongWords(c) == c.cmd \in Checked /\ c.words # "good"

\* The next command is cmd, and passes FindCmdError.
Serves(cmds, next, out) ==
    ServerReads("command", next, out) /\ Given.cmd \in cmds /\ ~WrongWords(Given)

\* Faulty: the answer to a command with the wrong number of words is forgotten.
RefuseWordsSilently == ServerReads("command", "command", <<>>) /\ WrongWords(Given)

RefuseWords == ServerReads("command", "command", <<Ack("ARGS_NUM_ERROR")>>) /\ WrongWords(Given)

ServeSimple ==
    \E r \in {"NO_ERROR", "RUN_ERROR"} :
        Serves(Simple, "command", <<Ack("NO_ERROR"), Result(r)>>)

\* Faulty: a failed listing is followed by a length like a good one.
ServeListingAlways ==
    \E r \in {"NO_ERROR", "RUN_ERROR"}, n \in {0, 1} :
        Serves(Listing, "command", <<Ack("NO_ERROR"), Result(r)>> \o Text(n))

\* CMD_ERROR_CHECK: nothing follows a failed listing.
ServeListing ==
    \/ Serves(Listing, "command", <<Ack("NO_ERROR"), Result("RUN_ERROR")>>)
    \/ \E n \in {0, 1} :
          Serves(Listing, "command", <<Ack("NO_ERROR"), Result("NO_ERROR")>> \o Text(n))

ServeCd ==
    \/ Serves({"cd"}, "command", <<Ack("NO_ERROR"), Result("RUN_ERROR")>>)
    \/ Serves({"cd"}, "command", <<Ack("NO_ERROR"), Result("NO_ERROR")>> \o Text(1))

ServeExit == Serves({"exit"}, "closed", <<Ack("NO_ERROR")>>)
ServeRp   == Serves({"rp"}, "newcrypt", <<Ack("NO_ERROR"), Msg("newsalt", 0)>>)

\* A command the session does not know.
ServeOther == Serves({"other"}, "command", <<Ack("ERROR_CMD")>>)

\* FindCmdError has been passed by a command for a transfer.
Transfer(cmd) ==
    /\ sv.pc = "command" /\ Arrived(toServer, "command")
    /\ Given.cmd = cmd /\ ~WrongWords(Given)
    /\ toServer' = Tail(toServer)
    /\ UNCHANGED <<client, store, conns>>

\* user_download, get_file_size: the size that is left goes to the client, or -2.
ServeDownload ==
    /\ Transfer("download")
    /\ LET f    == Given.file
           from == Atoi(Given.size)
           left == Len(store[f]) - from
       IN  \/ /\ f \notin entries
              /\ toClient' = toClient \o <<Ack("NO_ERROR"), Msg("size", -2)>>
              /\ UNCHANGED sv
           \/ /\ f \in entries
              /\ toClient' = toClient \o <<Ack("NO_ERROR"), Msg("size", left)>>
              /\ sv' = [pc |-> "send", file |-> f, need |-> left, got |-> 0, pos |-> from]
    /\ UNCHANGED entries

\* Faulty: the file is sent from its start.
SendFromStart ==
    /\ sv.pc = "send" /\ sv.got < sv.need
    /\ LET upto == Min(sv.got + Buf, Len(store[sv.file]))
       IN  /\ toClient' = toClient \o Data(SubSeq(store[sv.file], sv.got + 1, upto))
           /\ sv' = [sv EXCEPT !.got = @ + upto - sv.got]
    /\ UNCHANGED <<toServer, client, store, entries, conns>>

\* One turn of the read/send loop: what there is, up to a buffer, even if it is more
\* than the size announced.
SendFile ==
    /\ sv.pc = "send" /\ sv.got < sv.need
    /\ LET upto == Min(sv.pos + Buf, Len(store[sv.file]))
       IN  /\ toClient' = toClient \o Data(SubSeq(store[sv.file], sv.pos + 1, upto))
           /\ sv' = [sv EXCEPT !.pos = upto, !.got = @ + upto - sv.pos]
    /\ UNCHANGED <<toServer, client, store, entries, conns>>

FileSent ==
    /\ sv.pc = "send" /\ sv.got >= sv.need
    /\ sv' = [sv EXCEPT !.pc = "done"]
    /\ UNCHANGED <<toServer, toClient, client, store, entries, conns>>

RecvDone == ServerReads("done", "command", <<>>)

\* user_upload: an entry whose real file has the size; or the size of the real file
\* goes to the client and the rest is awaited.  A content that has a record, which may be
\* another user's, and is not whole gets no entry.
ServeUpload ==
    /\ Transfer("upload")
    /\ LET f    == Given.file
           size == Atoi(Given.size)
           have == Len(store[f])
       IN  \/ /\ f \in entries /\ have = size
              /\ toClient' = toClient \o <<Ack("NO_ERROR"), Msg("offset", -4)>>
              /\ UNCHANGED <<sv, entries>>
           \/ /\ f \notin entries \/ have # size
              /\ toClient' = toClient \o <<Ack("NO_ERROR"), Msg("offset", have)>>
              /\ \/ entries' = entries \cup {f}
                 \/ have # size /\ UNCHANGED entries
              /\ sv' = [pc |-> "data", file |-> f, need |-> size - have, got |-> 0, pos |-> have]

\* One turn of the recv/write loop; a write that fails ends user_upload, and CmdAnalyse
\* goes on without an answer.
RecvFile ==
    /\ sv.pc = "data" /\ sv.got < sv.need
    /\ \E n \in 1..Buf :
          /\ DataArrived(toServer, n)
          /\ toServer' = SubSeq(toServer, n + 1, Len(toServer))
          /\ IF Len(store[sv.file]) + n <= Room
             THEN /\ store' = [store EXCEPT ![sv.file] = @ \o Chunks(SubSeq(toServer, 1, n))]
                  /\ sv' = [sv EXCEPT !.got = @ + n]
             ELSE sv' = [sv EXCEPT !.pc = "command"] /\ UNCHANGED store
    /\ UNCHANGED <<toClient, client, entries, conns>>

\* Faulty: the answer is sent before the last chunk.
FileStoredEarly ==
    /\ sv.pc = "data" /\ sv.got >= sv.need - 1
    /\ sv' = [sv EXCEPT !.pc = "command"]
    /\ toClient' = Append(toClient, Msg("stored", 0))
    /\ UNCHANGED <<toServer, client, store, entries, conns>>

FileStored ==
    /\ sv.pc = "data" /\ sv.got >= sv.need
    /\ sv' = [sv EXCEPT !.pc = "command"]
    /\ toClient' = Append(toClient, Msg("stored", 0))
    /\ UNCHANGED <<toServer, client, store, entries, conns>>

\* Faulty: a client that goes in the middle of a transfer is not noticed.
EofBetweenCommands ==
    /\ cl.pc = "gone" /\ sv.pc \in {"account", "command"}
    /\ sv' = [sv EXCEPT !.pc = "closed"]
    /\ toServer' = <<>>
    /\ UNCHANGED <<toClient, client, store, entries, conns>>

\* recv returns 0 once the client has gone: each place that reads ends the session,
\* now or at its next read.  A reset connection loses what was under way.
Eof ==
    /\ cl.pc = "gone" /\ sv.pc \notin {"closed", "abandoned"}
    /\ sv' = [sv EXCEPT !.pc = "closed"]
    /\ toServer' = <<>>
    /\ UNCHANGED <<toClient, client, store, entries, conns>>

-----------------------------------------------------------------------------
\* The user starts the client again.
Connect ==
    /\ cl.pc = "gone" /\ sv.pc = "closed" /\ conns < MaxConns
    /\ conns' = conns + 1
    /\ cl' = NewClient /\ sv' \in NewSessions
    /\ toServer' = <<>> /\ toClient' = <<>>
    /\ UNCHANGED <<local, store, entries>>

\* Another session adds a chunk to a real file.
Grow(f) ==
    /\ Len(store[f]) < Size(f)
    /\ sv.file = f => sv.pc # "data" /\ (sv.pc = "send" => GrowsWhileSent)
    /\ store' = [store EXCEPT ![f] = Append(@, Len(@) + 1)]
    /\ UNCHANGED <<cl, sv, toServer, toClient, local, entries, conns>>

ClientStep ==
    \/ RecvFlag \/ RecvSalt \/ RecvId \/ RecvLen \/ RecvText
    \/ RecvAck \/ RecvResult \/ RecvNewSalt \/ RecvNewPasswd
    \/ RecvSize \/ RecvData \/ DownloadDone \/ RecvOffset \/ SendData \/ AllSent \/ RecvStored

ServerStep ==
    \/ LoginOrSignin \/ RecvCrypt \/ RePassWd
    \/ RefuseWords \/ ServeSimple \/ ServeListing \/ ServeCd \/ ServeExit \/ ServeRp \/ ServeOther
    \/ ServeDownload \/ SendFile \/ FileSent \/ RecvDone
    \/ ServeUpload \/ RecvFile \/ FileStored \/ Eof

UserStep == UserLogin \/ Leave \/ Connect \/ \E c \in Commands : Type(c)

Next == ClientStep \/ ServerStep \/ UserStep \/ \E f \in Files : Grow(f)

Spec == Init /\ [][Next]_vars

\* Both programs run on, and TCP delivers; the user owes nothing.
FairSpec == Spec /\ WF_vars(ClientStep) /\ WF_vars(ServerStep)

-----------------------------------------------------------------------------
(***************************************************************************)
(* Properties.                                                             *)
(***************************************************************************)
ClientPlaces == {"flag", "salt", "id", "len", "text", "ack", "result", "size", "data",
                 "offset", "stored", "newsalt", "newpass"}
ServerPlaces == {"account", "crypt", "command", "done", "data", "newcrypt"}

\* Every variable holds a value of its type.
TypeOK ==
    /\ cl.pc \in ClientPlaces \cup {"menu", "prompt", "send", "gone"}
    /\ cl.cmd \in Commands \cup {NoCmd} /\ cl.need \in Int /\ cl.pos \in Int
    /\ sv.pc \in ServerPlaces \cup {"send", "closed", "abandoned"}
    /\ sv.need \in Int /\ sv.got \in Nat /\ sv.pos \in Nat
    /\ \A i \in DOMAIN toServer : toServer[i].kind \in ServerPlaces
    /\ \A i \in DOMAIN toClient : toClient[i].kind \in ClientPlaces
    /\ \A f \in Files : local[f] \in Seq(Nat) /\ store[f] \in Seq(Nat)
    /\ entries \subseteq Files /\ conns \in 1..MaxConns

\* How much one read may take of a stream.
Taken(place, stream) == Min(IF place = "data" THEN Buf ELSE 1, Len(stream))

\* The client takes nothing for an answer that the session sent for another purpose:
\* whenever it reads, what has arrived is what it reads for.
ClientInStep ==
    cl.pc \in ClientPlaces /\ (cl.pc = "data" => Len(local[File]) < cl.need) =>
        \A i \in 1..Taken(cl.pc, toClient) : toClient[i].kind = cl.pc

\* The session takes nothing for a command, a password or file data that the client
\* sent for another purpose.
SessionInStep ==
    cl.pc # "gone" /\ sv.pc \in ServerPlaces /\ (sv.pc = "data" => sv.got < sv.need) =>
        \A i \in 1..Taken(sv.pc, toServer) : toServer[i].kind = sv.pc

\* client.c line 87: the client sends a number when a download is done; so when
\* the user types a command, nothing of an earlier one is left unread in the answers, and
\* no answer is still to come.
NothingUnread ==
    cl.pc \in {"menu", "prompt"} =>
        /\ toClient = <<>>
        /\ sv.pc \notin {"crypt", "data", "newcrypt"}
        /\ \A i \in DOMAIN toServer : toServer[i].kind = "done" /\ sv.pc \in {"send", "done"}

\* Cut and resumed transfers in both directions line up: on either side a file is
\* always the beginning of its content.
TransfersLineUp ==
    \A f \in Files : \A file \in {local[f], store[f]} : file = Beginning(Len(file))

\* A finished upload has arrived whole.
UploadKept ==
    cl.pc = "prompt" /\ cl.out = "stored" => store[File] = local[File]

\* Every command and every login is answered, and every transfer ends, unless the user ends
\* the client: no two reads wait for each other.
Answered == cl.pc \notin {"menu", "prompt"} ~> cl.pc \in {"menu", "prompt", "gone"}

\* The session of a client that has gone ends, whatever it was doing.
SessionEnds == cl.pc = "gone" ~> sv.pc = "closed"
=============================================================================
