------------------------------ MODULE OpenServer ------------------------------
(***************************************************************************)
(* The server among clients of which nothing is assumed but that they send *)
(* packets the two programs share: any request in any order, with any id,  *)
(* name or file, without waiting for the answer, hanging up at any time.   *)
(* What holds here does not depend on the client of src/ behaving well.    *)
(***************************************************************************)
EXTENDS TcpServer

CONSTANTS
  InFlight,      \* bound: how many packets a connection may carry when its client
                 \* sends another
  EnvCodes       \* bound: the kinds of packets clients send

ASSUME EnvAssumption == InFlight \subseteq Nat

vars == <<channelVars, serverVars>>

Init == ChannelInit /\ ServerInit

EnvConnect(k) == Listening /\ Connect(k) /\ UNCHANGED serverVars

EnvSend(k) ==
  /\ Len(toServer[k]) + Len(toClient[k]) \in InFlight
  /\ \E m \in Request : m.code \in EnvCodes /\ ClientSend(k, m)
  /\ UNCHANGED serverVars

EnvRead(k) == ClientRecv(k) /\ UNCHANGED serverVars

EnvClose(k) == ClientClose(k) /\ UNCHANGED serverVars

Env == \E k \in Conns : EnvConnect(k) \/ EnvSend(k) \/ EnvRead(k) \/ EnvClose(k)

Next == ServerNext \/ Env

Spec == Init /\ [][Next]_vars

(* The server's threads are scheduled; nobody owes it a packet.            *)
FairSpec == Spec /\ WF_vars(Main) /\ \A k \in Conns : WF_vars(Thread(k))

-----------------------------------------------------------------------------
(* A user name is registered once: the check in clientUsernameExists and   *)
(* the INSERT in addClient are two statements, and only the lock keeps two *)
(* registrations from passing the check together.                          *)
NamesUnique ==
  \A i, j \in Ids : clients[i] # None /\ clients[j] # None
                      /\ clients[i].name = clients[j].name => i = j

(* The check of the name still holds when the INSERT is reached.           *)
NameStillFree == \A k \in Conns : pc[k] = "addClient" => ~NameTaken(req[k].name)

(* What a handler is about to answer is still so when the packet goes out: *)
(* the id is registered, the session key is the one the table holds, and a *)
(* checksum is that of the content held for a file row of this client.     *)
AnswersAreTrue ==
  \A k \in Conns : pc[k] = "write" /\ req[k] # None =>
    LET m == Head(out[k])
    IN  /\ m.code = "REGISTRATION_SUCCEEDED" =>
             clients[m.val] # None /\ clients[m.val].name = req[k].name
        /\ m.code = "PUBLIC_KEY_RECEIVED" => clients[req[k].id].aesKey = m.val
        /\ m.code = "MSG_RECEIVED_CRC" /\ m.val # None =>
             /\ RowOf(req[k].id, req[k].file)
             /\ m.val = Crc(fileDict[<<req[k].id, req[k].file>>])

(* A file marked as verified is on disk, whole, until a crash cuts it off  *)
(* while it is saved again; and a client that is told so is told of the    *)
(* content the server holds and has saved.                                 *)
VarifiedIsSaved ==
  /\ \A f \in FileNames : files[f] # None /\ files[f].varified /\ crashes = 0 =>
       disk[<<files[f].owner, f>>] \notin {None, NullContent, Torn}
  /\ \A k \in Conns : pc[k] = "write" /\ Head(out[k]).code = "MSG_RECEIVED" =>
       /\ files[req[k].file] = [owner |-> req[k].id, varified |-> TRUE]
       /\ disk[<<req[k].id, req[k].file>>] = fileDict[<<req[k].id, req[k].file>>]

(* The part of it that outlives a crash: a file marked as verified has been*)
(* saved.  A row survives the restart, the content it was committed for    *)
(* does not.                                                               *)
VarifiedHasFile ==
  \A f \in FileNames : files[f] # None /\ files[f].varified =>
    disk[<<files[f].owner, f>>] # None

HasKey(i) == clients[i] # None /\ clients[i].aesKey # None

(* A row stands for a client with a session key, so what is put into       *)
(* fileDict under it was decrypted and is not Python's None.               *)
RowsOK ==
  \A f \in FileNames : files[f] # None =>
    HasKey(files[f].owner) /\ fileDict[<<files[f].owner, f>>] # NullContent

(* What the handlers of an upload and of a CRC_VALID rely on, for the file *)
(* f of client i.                                                          *)
Uploads == {"commitFile", "save", "mark"}

StepOK(p, i, f) ==
  /\ p = "commitFile" => HasKey(i)
  /\ p \in {"save", "mark"} => RowOf(i, f)
  /\ p = "save" => fileDict[<<i, f>>] # None
  /\ p = "mark" => disk[<<i, f>>] = fileDict[<<i, f>>] /\ disk[<<i, f>>] # None

UploadOK(k) == pc[k] \in Uploads => StepOK(pc[k], req[k].id, req[k].file)

(* The inductive invariant of uploads: what a marked row, and a handler on *)
(* its way to a mark, can rely on from step to step if no save fails.      *)
UploadInv == RowsOK /\ VarifiedHasFile /\ \A k \in Conns : UploadOK(k)

(* The only step that marks a row as verified finds on disk exactly what   *)
(* fileDict holds: no upload slips in between saveFile and the UPDATE.     *)
MarksWhatItSaved ==
  [][\A f \in FileNames :
       files'[f] # None /\ files'[f].varified /\ ~(files[f] # None /\ files[f].varified) =>
         disk[<<files'[f].owner, f>>] = fileDict[<<files'[f].owner, f>>]]_vars

(* What of the state a client can tell the server's promise from.          *)
Serving == {k \in Conns : pc[k] \in Holding}
Users == {x \in Ids \X Names : clients[x[1]] # None /\ clients[x[1]].name = x[2]}
Keyed == {i \in Ids : HasKey(i)}
Owners == {x \in Ids \X FileNames : RowOf(x[1], x[2])}
OnDisk == {x \in Ids \X FileNames : disk[x] # None}
Marked == {x \in Owners : files[x[2]].varified}

Promise == INSTANCE Sessions WITH
  serving <- Serving, users <- Users, keyed <- Keyed, owners <- Owners,
  saved <- OnDisk, marked <- Marked

(* The server implements its promise: one session at a time, and every step*)
(* of a handler a whole operation of it or invisible, although an operation*)
(* takes several statements, packets and commits, and may be cut off.      *)
PromiseKept == Promise!Spec

(* Nothing a client does, and no crash, takes a registration or the        *)
(* ownership of a file name away from the client that has it.              *)
RowsArePermanent ==
  [][/\ \A i \in Ids : clients[i] # None =>
          clients'[i] # None /\ clients'[i].name = clients[i].name
     /\ \A f \in FileNames : files[f] # None =>
          files'[f] # None /\ files'[f].owner = files[f].owner]_vars

(* touch() updates the last seen of the client whose request was received, *)
(* and of no other.                                                        *)
SeenIsOwn == \A i \in Ids : clients[i] # None => clients[i].seen = i

(* The three ways a thread keeps the lock for good: an exception nobody    *)
(* catches, write() to a connection that was reset, and the loop of unpack *)
(* at the end of a stream.                                                 *)
KeepsLock(k) ==
  \/ pc[k] = "dead"
  \/ pc[k] = "write" /\ srvReset[k] = "seen"
  \/ pc[k] = "file" /\ toServer[k] = <<>> /\ cliEnd[k] = "closed" /\ srvReset[k] = "no"

(* There is no fourth: a client that hangs up, whenever it does, frees the *)
(* lock for the next one unless its thread ends in one of these.           *)
HangUpFreesLock ==
  \A k \in Conns :
    pc[k] \in Holding /\ cliEnd[k] = "closed" ~> lock = "free" \/ KeepsLock(k)

(* An abort ends the session with the client, as the log line of its       *)
(* handler says: the connection is closed and its thread returns.          *)
AbortEndsSession ==
  \A k \in Conns :
    (pc[k] = "recv" /\ toServer[k] # <<>> /\ Head(toServer[k]).code = "CRC_ABORT")
      ~> pc[k] = "done"
=============================================================================
