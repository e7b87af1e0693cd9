------------------------------ MODULE TcpServer ------------------------------
(***************************************************************************)
(* The Python server, TcpServer/server.py with database.py,                *)
(* file_handler.py and keys_handler.py below it.                           *)
(*                                                                         *)
(* The main thread accepts a connection, takes the one lock and starts a   *)
(* thread that serves the connection; the thread gives the lock back when  *)
(* the client hangs up or a request fails.  There is one thread per        *)
(* connection, named after it.  A handler is cut where it leaves a trace   *)
(* another actor, or a restarted server, can see: at each commit to the    *)
(* database, each write to the file store and each packet.                 *)
(*                                                                         *)
(* An exception nobody catches ends the thread with the lock still taken   *)
(* (pc = "dead").  A loop that can no longer end (write() after the client *)
(* reset the connection, the upload loop after the client hung up) is a    *)
(* thread none of whose actions is enabled.                                *)
(***************************************************************************)
EXTENDS Channel, ServerIcd

CONSTANTS
  AsciiNames,    \* the names that pass isascii()
  DigitIds,      \* ids SQLite takes for a true number: they start with a digit
  Unwritable,    \* file names open(..., 'wb') rejects: the empty name, which is
                 \* the client's directory
  FaultKinds,    \* which of "select", "commit" and "save" may fail
  MaxFaults,     \* bound: how many of them fail in a behaviour
  MaxCrashes     \* bound: how often the server is killed and restarted

ASSUME ServerAssumption ==
  /\ AsciiNames \subseteq Names /\ DigitIds \subseteq Ids
  /\ Unwritable \subseteq FileNames
  /\ FaultKinds \subseteq {"select", "commit", "save"}
  /\ MaxFaults \in Nat /\ MaxCrashes \in Nat

VARIABLES
  lock, main, mainConn,  \* self.lock and the main thread with its local conn
  pc, req, left, out,    \* per thread: where it is, the request it handles, the
                         \* bytes of the upload to come, the responses to write
  clients, files,        \* the two tables of server.db
  drawn,                 \* session keys generated so far
  fileDict, disk,        \* FileHandler.fileDict and the clients' directories
  faults, crashes

loopVars == <<lock, main, mainConn>>
threadVars == <<pc, req, left, out>>
dbVars == <<clients, files, drawn>>
storeVars == <<fileDict, disk>>
limitVars == <<faults, crashes>>
serverVars == <<loopVars, threadVars, dbVars, storeVars, limitVars>>

Holding == {"recv", "addClient", "setSymKey", "file", "decrypt", "commitFile",
            "save", "mark", "write", "release", "dead"}
ThreadState == Holding \cup {"none", "close", "done"}

(* An upload being received: mixed up with other packets, it carries       *)
(* nothing that decrypts.                                                  *)
Uploading == SendFileRequest \cup
  [code: {"SEND_FILE"}, id: Ids, file: FileNames, key: Keys, data: {Garbage}]
Client == [name: Names, hasKey: BOOLEAN, aesKey: Keys \cup {None}, seen: Ids]
FileRow == [owner: Ids, varified: BOOLEAN]

ASSUME NoneAssumption ==
  /\ None \notin Client \cup FileRow \cup Conns \cup Keys
  /\ None \notin Contents \cup {Garbage, NullContent, Torn}

ServerInit ==
  /\ lock = "free" /\ main = "down" /\ mainConn = None
  /\ pc = [k \in Conns |-> "none"]
  /\ req = [k \in Conns |-> None]
  /\ left = [k \in Conns |-> 0]
  /\ out = [k \in Conns |-> <<>>]
  /\ clients = [i \in Ids |-> None]
  /\ files = [f \in FileNames |-> None]
  /\ drawn = {}
  /\ fileDict = [x \in Ids \X FileNames |-> None]
  /\ disk = [x \in Ids \X FileNames |-> None]
  /\ faults = 0 /\ crashes = 0

-----------------------------------------------------------------------------
(* A failing statement: execute() and saveFile() log the exception and     *)
(* return None or False.                                                   *)
Fails(kind) ==
  /\ kind \in FaultKinds /\ faults < MaxFaults
  /\ faults' = faults + 1 /\ UNCHANGED crashes
Works == UNCHANGED limitVars

(* How a handler goes on: to its next step, to writing its responses, or   *)
(* out of the thread with an exception.                                    *)
Proceed(k, p, r, n) ==
  /\ pc' = [pc EXCEPT ![k] = p]
  /\ req' = [req EXCEPT ![k] = r]
  /\ left' = [left EXCEPT ![k] = n]
  /\ UNCHANGED out

Answer(k, r, rs) ==
  /\ pc' = [pc EXCEPT ![k] = "write"]
  /\ req' = [req EXCEPT ![k] = r]
  /\ left' = [left EXCEPT ![k] = 0]
  /\ out' = [out EXCEPT ![k] = rs]

(* The handler writes its own failure, then read() writes another one.     *)
Refuse(k) == Answer(k, None, <<Failed, Failed>>)

Dies(k) == Proceed(k, "dead", None, 0)

Goes(k, p) == Proceed(k, p, req[k], left[k])

(* touch(): WHERE ID OR NAME = ? is true of every row whose id counts as a *)
(* true number, whoever the client is.                                     *)
Touch(rows, i) ==
  [j \in Ids |-> IF j \in DigitIds /\ rows[j] # None
                   THEN [rows[j] EXCEPT !.seen = i] ELSE rows[j]]

(* What the queries of database.py and the methods of file_handler.py find *)
(* and leave behind.                                                       *)
ClientExists(i) == clients[i] # None
NameTaken(n) == \E i \in Ids : clients[i] # None /\ clients[i].name = n
RowOf(i, f) == files[f] # None /\ files[f].owner = i
RowOfOther(i, f) == files[f] # None /\ files[f].owner # i

NewClient(i, n) == [name |-> n, hasKey |-> FALSE, aesKey |-> None, seen |-> i]
WithPublicKey(i) == [Touch(clients, i) EXCEPT ![i].hasKey = TRUE]
FreshKeys == Keys \ drawn

GetFile(i, f) == IF RowOf(i, f) THEN fileDict[<<i, f>>] ELSE None
NewFile(i, f, content) == fileDict' = [fileDict EXCEPT ![<<i, f>>] = content]

(* open(..., 'wb') comes before write(), which None makes fail.            *)
Saved(content) == IF content = NullContent THEN Torn ELSE content

Receives(k, m, codes) ==
  pc[k] = "recv" /\ m.code \in codes /\ ServerRecv(k, m) /\ UNCHANGED loopVars

-----------------------------------------------------------------------------
(* The main thread.  It never starts if port.info holds no number, or the  *)
(* port cannot be bound; "down" also is a server that was killed.          *)

Listening == main # "down"

StartServer ==
  /\ main = "down" /\ main' = "accept"
  /\ UNCHANGED <<lock, mainConn, threadVars, dbVars, storeVars, limitVars, channelVars>>

Accept ==
  /\ main = "accept" /\ backlog # <<>>
  /\ main' = "acquire" /\ mainConn' = Head(backlog) /\ backlog' = Tail(backlog)
  /\ UNCHANGED <<lock, threadVars, dbVars, storeVars, limitVars, toServer,
                 toClient, cliEnd, srvEnd, srvReset, cliReset>>

(* Mutant: the lock is not waited for. *)
StartSessionUnlocked ==
  /\ main = "acquire" /\ lock' = "held" /\ main' = "accept"
  /\ pc' = [pc EXCEPT ![mainConn] = "recv"]
  /\ UNCHANGED <<mainConn, req, left, out, dbVars, storeVars, limitVars, channelVars>>

StartSession ==
  /\ main = "acquire" /\ lock = "free"
  /\ lock' = "held" /\ main' = "accept"
  /\ pc' = [pc EXCEPT ![mainConn] = "recv"]
  /\ UNCHANGED <<mainConn, req, left, out, dbVars, storeVars, limitVars, channelVars>>

-----------------------------------------------------------------------------
(* handleRegistrationRequest                                               *)

CheckName(k, m) ==
  /\ Receives(k, m, {"REGISTRATION"})
  /\ \/ /\ m.name \in AsciiNames /\ ~NameTaken(m.name) /\ Works
        /\ Proceed(k, "addClient", m, 0)
     \/ /\ m.name \in AsciiNames /\ Fails("select")
        /\ Proceed(k, "addClient", m, 0)
     \/ /\ m.name \notin AsciiNames \/ NameTaken(m.name)
        /\ Works /\ Refuse(k)
  /\ UNCHANGED <<dbVars, storeVars>>

(* Mutant: the INSERT is not committed. *)
AddClientUncommitted(k) ==
  /\ pc[k] = "addClient"
  /\ \/ \E i \in Ids : /\ ~ClientExists(i) /\ Works
                      /\ Answer(k, req[k], <<Reply("REGISTRATION_SUCCEEDED", i)>>)
     \/ Fails("commit") /\ Refuse(k)
  /\ UNCHANGED <<loopVars, dbVars, storeVars, channelVars>>

AddClient(k) ==
  /\ pc[k] = "addClient"
  /\ \/ \E i \in Ids :
          /\ ~ClientExists(i) /\ Works
          /\ clients' = [clients EXCEPT ![i] = NewClient(i, req[k].name)]
          /\ Answer(k, req[k], <<Reply("REGISTRATION_SUCCEEDED", i)>>)
     \/ Fails("commit") /\ Refuse(k) /\ UNCHANGED clients
  /\ UNCHANGED <<loopVars, files, drawn, storeVars, channelVars>>

(* handlePublicKeyRequest: two commits.  A key that RSA cannot import makes *)
(* encryptAesKeyWithRsaPublic return None, and len(None) raises, after both.*)

SetPublicKey(k, m) ==
  /\ Receives(k, m, {"PUBLIC_KEY"})
  /\ \/ /\ ClientExists(m.id) /\ Works
        /\ clients' = WithPublicKey(m.id)
        /\ Proceed(k, "setSymKey", m, 0)
     \/ /\ ClientExists(m.id) /\ Fails("commit")
        /\ clients' = Touch(clients, m.id) /\ Refuse(k)
     \/ /\ (~ClientExists(m.id) /\ Works) \/ Fails("select")
        /\ Refuse(k) /\ UNCHANGED clients
  /\ UNCHANGED <<files, drawn, storeVars>>

(* Mutant: whether the key was stored is not looked at. *)
SetSymmetricKeyUnstored(k) ==
  /\ pc[k] = "setSymKey"
  /\ \E key \in FreshKeys :
       /\ drawn' = drawn \cup {key}
       /\ \/ Works /\ clients' = [clients EXCEPT ![req[k].id].aesKey = key]
          \/ Fails("commit") /\ UNCHANGED clients
       /\ IF req[k].rsa THEN Answer(k, req[k], <<Reply("PUBLIC_KEY_RECEIVED", key)>>)
                        ELSE Dies(k)
  /\ UNCHANGED <<loopVars, files, storeVars, channelVars>>

SetSymmetricKey(k) ==
  /\ pc[k] = "setSymKey"
  /\ \/ \E key \in FreshKeys :
          /\ Works /\ drawn' = drawn \cup {key}
          /\ clients' = [clients EXCEPT ![req[k].id].aesKey = key]
          /\ IF req[k].rsa THEN Answer(k, req[k], <<Reply("PUBLIC_KEY_RECEIVED", key)>>)
                           ELSE Dies(k)
     \/ Fails("commit") /\ Answer(k, None, <<Failed>>) /\ UNCHANGED <<clients, drawn>>
  /\ UNCHANGED <<loopVars, files, storeVars, channelVars>>

-----------------------------------------------------------------------------
(* handleSendFileRequest.  A chunk is whatever packet comes next.          *)

RecvFileHead(k, m) ==
  /\ Receives(k, m, {"SEND_FILE"})
  /\ LET enc == CipherSize(m.data.size)
         rest == enc - HeadBytes(enc)
     IN  IF HeadUnpacks(enc)
           THEN Proceed(k, IF rest > 0 THEN "file" ELSE "decrypt", m, rest)
           ELSE Refuse(k)
  /\ UNCHANGED <<dbVars, storeVars, limitVars>>

RecvFileChunk(k) ==
  /\ pc[k] = "file" /\ toServer[k] # <<>>
  /\ LET m == Head(toServer[k])
         data == IF m.code = "CHUNK" THEN req[k].data ELSE Garbage
         rest == IF left[k] > PACKET_SIZE THEN left[k] - PACKET_SIZE ELSE 0
     IN  /\ ServerRecv(k, m)
         /\ Proceed(k, IF rest > 0 THEN "file" ELSE "decrypt",
                    [req[k] EXCEPT !.data = data], rest)
  /\ UNCHANGED <<loopVars, dbVars, storeVars, limitVars>>

RecvFileRaises(k) ==
  /\ pc[k] = "file" /\ ServerRecvRaises(k) /\ Refuse(k)
  /\ UNCHANGED <<loopVars, dbVars, storeVars, limitVars>>

(* getClientsSymmetricKey indexes the result of execute(), None included.  *)
(* newFile puts the content into fileDict before it computes the checksum. *)
StoreFile(k) ==
  /\ pc[k] = "decrypt"
  /\ LET i == req[k].id
     IN  \/ /\ (~ClientExists(i) /\ Works) \/ Fails("select")
            /\ Refuse(k) /\ UNCHANGED fileDict
         \/ ClientExists(i) /\ Fails("select") /\ Dies(k) /\ UNCHANGED fileDict
         \/ /\ ClientExists(i) /\ Works
            /\ LET content == Decrypt(clients[i].aesKey, req[k])
               IN  /\ NewFile(i, req[k].file, content)
                   /\ IF content = NullContent
                        THEN Answer(k, req[k], <<Reply("MSG_RECEIVED_CRC", None)>>)
                        ELSE Goes(k, "commitFile")
  /\ UNCHANGED <<loopVars, dbVars, disk, channelVars>>

(* Mutant: INSERT OR REPLACE. *)
CommitFileReplaces(k) ==
  /\ pc[k] = "commitFile"
  /\ LET i == req[k].id
         f == req[k].file
     IN  /\ Works
         /\ files' = [files EXCEPT ![f] = [owner |-> i, varified |-> FALSE]]
         /\ clients' = Touch(clients, i)
         /\ Answer(k, req[k], <<Reply("MSG_RECEIVED_CRC", Crc(fileDict[<<i, f>>]))>>)
  /\ UNCHANGED <<loopVars, drawn, storeVars, channelVars>>

(* Mutant: a file that is uploaded again stays verified. *)
CommitFileStaysVarified(k) ==
  /\ pc[k] = "commitFile"
  /\ LET i == req[k].id
         f == req[k].file
     IN  /\ ~RowOfOther(i, f) /\ Works
         /\ files' = [files EXCEPT ![f] =
              IF @ = None THEN [owner |-> i, varified |-> FALSE] ELSE @]
         /\ clients' = Touch(clients, i)
         /\ Answer(k, req[k], <<Reply("MSG_RECEIVED_CRC", Crc(fileDict[<<i, f>>]))>>)
  /\ UNCHANGED <<loopVars, drawn, storeVars, channelVars>>

(* FileName alone is the key of the table: a row of another client, or one *)
(* of this client that fileExists did not see, makes the INSERT fail, and  *)
(* the answer then carries the default checksum.                           *)
CommitFile(k) ==
  /\ pc[k] = "commitFile"
  /\ LET i == req[k].id
         f == req[k].file
     IN  \/ /\ ~RowOfOther(i, f) /\ Works
            /\ files' = [files EXCEPT ![f] = [owner |-> i, varified |-> FALSE]]
            /\ clients' = Touch(clients, i)
            /\ Answer(k, req[k], <<Reply("MSG_RECEIVED_CRC", Crc(fileDict[<<i, f>>]))>>)
         \/ /\ \/ RowOfOther(i, f) /\ Works
               \/ RowOf(i, f) /\ Fails("select")
               \/ Fails("commit")
            /\ Answer(k, req[k], <<Reply("MSG_RECEIVED_CRC", None)>>)
            /\ UNCHANGED <<files, clients>>
  /\ UNCHANGED <<loopVars, drawn, storeVars, channelVars>>

-----------------------------------------------------------------------------
(* handleCrcValidRequest: the file is saved, then its row is marked.  A    *)
(* failure of either is not noticed.                                       *)

(* Mutant: the row is marked before, and without, saving the file. *)
CrcValidUnsaved(k, m) ==
  /\ Receives(k, m, {"CRC_VALID"})
  /\ Works /\ UNCHANGED clients
  /\ IF /\ ClientExists(m.id) /\ RowOf(m.id, m.file)
        /\ fileDict[<<m.id, m.file>>] # None
       THEN Proceed(k, "mark", m, 0) ELSE Refuse(k)
  /\ UNCHANGED <<files, drawn, storeVars>>

(* Mutant: a row is enough, the content may be gone. *)
CrcValidOfRow(k, m) ==
  /\ Receives(k, m, {"CRC_VALID"})
  /\ Works /\ UNCHANGED clients
  /\ IF ClientExists(m.id) /\ RowOf(m.id, m.file)
       THEN Proceed(k, "save", m, 0) ELSE Refuse(k)
  /\ UNCHANGED <<files, drawn, storeVars>>

(* Mutant: the content is enough, its row may be missing. *)
CrcValidOfContent(k, m) ==
  /\ Receives(k, m, {"CRC_VALID"})
  /\ Works /\ UNCHANGED clients
  /\ IF ClientExists(m.id) /\ fileDict[<<m.id, m.file>>] # None
       THEN Proceed(k, "save", m, 0) ELSE Refuse(k)
  /\ UNCHANGED <<files, drawn, storeVars>>

CrcValid(k, m) ==
  /\ Receives(k, m, {"CRC_VALID"})
  /\ LET found == ClientExists(m.id) /\ RowOf(m.id, m.file)
     IN  \/ /\ found /\ Works
            /\ clients' = Touch(clients, m.id)
            /\ IF fileDict[<<m.id, m.file>>] = None THEN Refuse(k)
                                               ELSE Proceed(k, "save", m, 0)
         \/ /\ (~found /\ Works) \/ Fails("select")
            /\ Refuse(k) /\ UNCHANGED clients
  /\ UNCHANGED <<files, drawn, storeVars>>

(* Mutant: a file that is on disk already is not written again. *)
SaveFileOnce(k) ==
  /\ pc[k] = "save"
  /\ LET x == <<req[k].id, req[k].file>>
     IN  disk' = [disk EXCEPT ![x] = IF @ = None THEN fileDict[x] ELSE @]
  /\ Works /\ Goes(k, "mark")
  /\ UNCHANGED <<loopVars, dbVars, fileDict, channelVars>>

SaveFile(k) ==
  /\ pc[k] = "save"
  /\ LET x == <<req[k].id, req[k].file>>
     IN  \/ /\ req[k].file \notin Unwritable /\ Works
            /\ disk' = [disk EXCEPT ![x] = Saved(fileDict[x])]
         \/ req[k].file \in Unwritable /\ Works /\ UNCHANGED disk
         \/ Fails("save") /\ disk' \in {disk, [disk EXCEPT ![x] = Torn]}
  /\ Goes(k, "mark")
  /\ UNCHANGED <<loopVars, dbVars, fileDict, channelVars>>

MarkVarified(k) ==
  /\ pc[k] = "mark"
  /\ \/ Works /\ files' = [files EXCEPT ![req[k].file].varified = TRUE]
     \/ Fails("commit") /\ UNCHANGED files
  /\ Answer(k, req[k], <<Reply("MSG_RECEIVED", None)>>)
  /\ UNCHANGED <<loopVars, clients, drawn, storeVars, channelVars>>

(* handleInvalidCrcResendRequest: nothing is sent again, the checksum of   *)
(* the content the server holds is.                                        *)
Resend(k, m) ==
  /\ Receives(k, m, {"CRC_RESEND"})
  /\ LET found == ClientExists(m.id)
         held == GetFile(m.id, m.file)
     IN  \/ /\ found /\ held \notin {None, NullContent} /\ Works
            /\ Answer(k, m, <<Reply("MSG_RECEIVED_CRC", Crc(held))>>)
         \/ found /\ held = NullContent /\ Works /\ Dies(k)
         \/ /\ found /\ ((held = None /\ Works) \/ Fails("select"))
            /\ Answer(k, None, <<Reply("MSG_RECEIVED_CRC", None), Failed>>)
         \/ ((~found /\ Works) \/ Fails("select")) /\ Refuse(k)
  /\ UNCHANGED <<dbVars, storeVars>>

(* handleInvalidCrcAbortInteractionRequest: self.sel does not exist.       *)
Abort(k, m) ==
  /\ Receives(k, m, {"CRC_ABORT"}) /\ Dies(k)
  /\ UNCHANGED <<dbVars, storeVars, limitVars>>

(* A packet whose code no handler has: only read() answers.                *)
UnknownRequest(k, m) ==
  /\ Receives(k, m, {"CHUNK"}) /\ Answer(k, None, <<Failed>>)
  /\ UNCHANGED <<dbVars, storeVars, limitVars>>

-----------------------------------------------------------------------------
(* read() and write()                                                      *)

(* Mutant: a refusal gives the lock back without leaving the loop. *)
WriteReadsOn(k) ==
  /\ pc[k] = "write"
  /\ LET m == Head(out[k])
         more == Tail(out[k])
     IN  /\ ServerSend(k, m)
         /\ out' = [out EXCEPT ![k] = more]
         /\ req' = [req EXCEPT ![k] = IF more = <<>> THEN None ELSE @]
         /\ pc' = [pc EXCEPT ![k] = IF more = <<>> THEN "recv" ELSE @]
         /\ lock' = IF more = <<>> /\ m = Failed THEN "free" ELSE lock
  /\ UNCHANGED <<main, mainConn, left, dbVars, storeVars, limitVars>>

Write(k) ==
  /\ pc[k] = "write"
  /\ LET m == Head(out[k])
         more == Tail(out[k])
     IN  /\ ServerSend(k, m)
         /\ out' = [out EXCEPT ![k] = more]
         /\ req' = [req EXCEPT ![k] = IF more = <<>> THEN None ELSE @]
         /\ pc' = [pc EXCEPT ![k] = CASE more # <<>> -> "write"
                                      [] more = <<>> /\ m = Failed -> "release"
                                      [] more = <<>> /\ m # Failed -> "recv"]
  /\ UNCHANGED <<loopVars, left, dbVars, storeVars, limitVars>>

(* send() raises; write() swallows it and tries again, for ever.           *)
WriteRaises(k) ==
  pc[k] = "write" /\ ServerReset(k) /\ UNCHANGED serverVars

(* Mutant: a session that ends in good order keeps the lock. *)
RecvEofKeepsLock(k) ==
  /\ pc[k] = "recv" /\ ServerRecvEof(k) /\ Goes(k, "close")
  /\ UNCHANGED <<loopVars, dbVars, storeVars, limitVars>>

RecvEof(k) ==
  /\ pc[k] = "recv" /\ ServerRecvEof(k) /\ Goes(k, "release")
  /\ UNCHANGED <<loopVars, dbVars, storeVars, limitVars>>

RecvRaises(k) ==
  /\ pc[k] = "recv" /\ ServerRecvRaises(k) /\ Dies(k)
  /\ UNCHANGED <<loopVars, dbVars, storeVars, limitVars>>

(* Mutant: the connection is not closed. *)
ReleaseKeepsSocket(k) ==
  /\ pc[k] = "release" /\ lock' = "free" /\ Goes(k, "done")
  /\ UNCHANGED <<main, mainConn, dbVars, storeVars, limitVars, channelVars>>

Release(k) ==
  /\ pc[k] = "release" /\ lock' = "free" /\ Goes(k, "close")
  /\ UNCHANGED <<main, mainConn, dbVars, storeVars, limitVars, channelVars>>

Close(k) ==
  /\ pc[k] = "close" /\ ServerClose({k}) /\ Goes(k, "done")
  /\ UNCHANGED <<backlog, loopVars, dbVars, storeVars, limitVars>>

(* The socket of a dead thread lives as long as run() still refers to it.  *)
DropSocket(k) ==
  /\ pc[k] = "dead" /\ mainConn # k /\ srvEnd[k] = "open"
  /\ ServerClose({k}) /\ UNCHANGED <<backlog, serverVars>>

-----------------------------------------------------------------------------
(* The server is killed.  What was not committed or written is gone, and a *)
(* file being written may be cut short.                                    *)
ServerCrash ==
  /\ Listening /\ crashes < MaxCrashes /\ crashes' = crashes + 1
  /\ \E torn \in SUBSET {<<req[k].id, req[k].file>> : k \in {c \in Conns :
                     pc[c] = "save" /\ req[c].file \notin Unwritable}} :
       disk' = [x \in Ids \X FileNames |-> IF x \in torn THEN Torn ELSE disk[x]]
  /\ lock' = "free" /\ main' = "down" /\ mainConn' = None
  /\ pc' = [k \in Conns |-> IF srvEnd[k] = "unused" THEN "none" ELSE "done"]
  /\ req' = [k \in Conns |-> None]
  /\ left' = [k \in Conns |-> 0]
  /\ out' = [k \in Conns |-> <<>>]
  /\ fileDict' = [x \in Ids \X FileNames |-> None]
  /\ ServerClose(Conns) /\ backlog' = <<>>
  /\ UNCHANGED <<dbVars, faults>>

Handle(k) ==
  \/ /\ toServer[k] # <<>>
     /\ LET m == Head(toServer[k])
        IN  \/ CheckName(k, m) \/ SetPublicKey(k, m) \/ RecvFileHead(k, m)
            \/ CrcValid(k, m) \/ Resend(k, m) \/ Abort(k, m) \/ UnknownRequest(k, m)
  \/ AddClient(k) \/ SetSymmetricKey(k)
  \/ RecvFileChunk(k) \/ RecvFileRaises(k) \/ StoreFile(k) \/ CommitFile(k)
  \/ SaveFile(k) \/ MarkVarified(k)

Thread(k) ==
  \/ Handle(k) \/ Write(k) \/ WriteRaises(k) \/ RecvEof(k) \/ RecvRaises(k)
  \/ Release(k) \/ Close(k) \/ DropSocket(k)

Main == Accept \/ StartSession

ServerNext ==
  Main \/ (\E k \in Conns : Thread(k)) \/ ServerCrash \/ StartServer

-----------------------------------------------------------------------------
(* The server's own part of the state and the channel are well-typed.      *)
ChannelTypeOK ==
  /\ backlog \in Seq(Conns)
  /\ toServer \in [Conns -> Seq(Request)]
  /\ toClient \in [Conns -> Seq(Response)]
  /\ cliEnd \in [Conns -> EndState] /\ srvEnd \in [Conns -> EndState]
  /\ srvReset \in [Conns -> {"no", "due", "seen"}]
  /\ cliReset \in [Conns -> BOOLEAN]

ThreadTypeOK ==
  /\ lock \in {"free", "held"} /\ main \in {"down", "accept", "acquire"}
  /\ mainConn \in Conns \cup {None}
  /\ pc \in [Conns -> ThreadState]
  /\ req \in [Conns -> Request \cup Uploading \cup {None}]
  /\ left \in [Conns -> Nat]
  /\ out \in [Conns -> Seq(Response)]

Stored == Contents \cup {Garbage, NullContent, None}

StoreTypeOK ==
  /\ clients \in [Ids -> Client \cup {None}]
  /\ files \in [FileNames -> FileRow \cup {None}]
  /\ drawn \subseteq Keys
  /\ fileDict \in [Ids \X FileNames -> Stored]
  /\ disk \in [Ids \X FileNames -> Stored \cup {Torn}]
  /\ faults \in Nat /\ crashes \in Nat

(* Every variable of the channel and of the server has its type: requests  *)
(* and responses are those of the wire contract, and a program counter is  *)
(* one of the places a thread of read() can be at.                         *)
TypeOK == ChannelTypeOK /\ ThreadTypeOK /\ StoreTypeOK

-----------------------------------------------------------------------------
(* Two threads are never between acquire() and release(): the database, the*)
(* file store and fileDict are used by one session at a time, although     *)
(* main takes the lock and another thread, or none, gives it back.         *)
OneSession ==
  \A j, k \in Conns : pc[j] \in Holding /\ pc[k] \in Holding => j = k

(* The lock is taken exactly while some thread has yet to give it back, so *)
(* release() never finds it free and raises RuntimeError.                  *)
LockAccounted ==
  (lock = "held") <=> (\E k \in Conns : pc[k] \in Holding)

(* What a thread relies on between two of its steps.                        *)
HandlerOK(k) ==
  /\ pc[k] = "addClient" => req[k] \in RegistrationRequest
  /\ pc[k] = "setSymKey" =>
       req[k] \in PublicKeyRequest /\ clients[req[k].id] # None
  /\ pc[k] \in {"file", "decrypt", "commitFile"} => req[k] \in Uploading
  /\ pc[k] = "commitFile" =>
       fileDict[<<req[k].id, req[k].file>>] \in Contents \cup {Garbage}
  /\ pc[k] \in {"save", "mark"} =>
       req[k] \in CrcStatusRequest /\ files[req[k].file] # None
  /\ pc[k] = "write" => out[k] # <<>>

MainOK == main = "acquire" => mainConn \in Conns

(* The inductive invariant: the types, the lock, and at every program      *)
(* counter the request its handler is there for.                           *)
IInv ==
  /\ TypeOK /\ MainOK /\ OneSession /\ LockAccounted
  /\ \A k \in Conns : HandlerOK(k)
=============================================================================
