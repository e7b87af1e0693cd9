------------------------------- MODULE Transfer -------------------------------
(***************************************************************************)
(* The whole system: the server and the client programs of src/, each run  *)
(* of the client on a connection of its own.                               *)
(***************************************************************************)
EXTENDS TcpServer, ClientLogic

vars == <<channelVars, serverVars, clientVars>>

Init == ChannelInit /\ ServerInit /\ ClientInit

Server == ServerNext /\ UNCHANGED clientVars
Clients == (\E p \in Conns : ClientNext(p, Listening)) /\ UNCHANGED serverVars

Next == Server \/ Clients

(* The scheduler lets every thread and every started process go on, also   *)
(* one that has created me.info and has yet to connect.  That a process is *)
(* started, or anything killed, is nobody's duty.                          *)
Proceeds(p) == ClientStep(p) \/ (cl[p].at = "create" /\ Opens(p, Listening))

Fairness ==
  /\ WF_vars(Main /\ UNCHANGED clientVars)
  /\ \A k \in Conns :
       /\ WF_vars(Thread(k) /\ UNCHANGED clientVars)
       /\ WF_vars(Proceeds(k) /\ UNCHANGED serverVars)

Spec == Init /\ [][Next]_vars
FairSpec == Spec /\ Fairness

-----------------------------------------------------------------------------
(* The client's part of the state is well-typed.                           *)
ClientTypeOK ==
  /\ cl \in [Conns -> Process]
  /\ meInfo \in [Dirs -> Seq(Line) \cup {None}]
  /\ todo \in [Conns -> Seq(FileStep)]
  /\ fileContent \in [Conns -> Seq(Line)]
  /\ kills \in 0..MaxKills

(* When a client prints Hurray, the file on the server's disk is the one it*)
(* read and padded, under its own id, and its row is marked as verified.   *)
HurrayMeansStored ==
  \A p \in Conns : cl[p].at = "exit" /\ cl[p].outcome = "hurray" =>
    LET i == cl[p].id
        f == cl[p].info.file
    IN  /\ disk[<<i, f>>] = MyFile(cl[p])
        /\ files[f] = [owner |-> i, varified |-> TRUE]

(* The key an upload was encrypted with is the key the server decrypts it  *)
(* with, and no packet of another message got between its chunks, although *)
(* every session of a client replaces the client's key.                    *)
KeyAgreement ==
  \A k \in Conns : pc[k] = "decrypt" /\ clients[req[k].id] # None =>
    Decrypt(clients[req[k].id].aesKey, req[k]) = MyFile(cl[k])

(* Run's loop never reads an answer to something the client did not ask:   *)
(* registration and key answers find their request at the front of the     *)
(* queue, a checksum comes after the key, an approval after the checksum.  *)
AnswersInOrder ==
  \A p \in Conns : cl[p].at = "read" /\ toClient[p] # <<>> =>
    LET c == cl[p]
        m == Head(toClient[p])
        asked(code) == c.queue # <<>> /\ Head(c.queue).code = code
    IN  CASE m.code = "REGISTRATION_SUCCEEDED" -> asked("REGISTRATION") /\ c.id = None
          [] m.code = "PUBLIC_KEY_RECEIVED" -> asked("PUBLIC_KEY") /\ c.id # None
          [] m.code = "MSG_RECEIVED_CRC" -> c.queue = <<>> /\ c.key # None
          [] m.code = "MSG_RECEIVED" ->
               \/ c.buf.code = "MSG_RECEIVED_CRC" /\ c.buf.val = Crc(MyFile(c))
               \/ c.vresp # None /\ c.vresp.val = Crc(MyFile(c))
          [] m.code = "REGISTRATION_FAILED" -> TRUE

(* An id a client remembers, in memory or in me.info, is registered under  *)
(* a name its user gave, whatever was killed or restarted since.           *)
NamesOf(d) == {u.name : u \in InfosOf[d] \ {None}}

IdsAreRegistered ==
  /\ \A p \in Conns : cl[p].id # None =>
       clients[cl[p].id] # None /\ clients[cl[p].id].name \in NamesOf(Dir(p))
  /\ \A d \in Dirs : isRegistered(meInfo[d]) =>
       clients[meInfo[d][2]] # None /\ clients[meInfo[d][2]].name \in NamesOf(d)

(* A file marked as verified is on disk, whole, even if the server was     *)
(* killed while it wrote a file.                                           *)
VarifiedIsWhole ==
  \A f \in FileNames : files[f] # None /\ files[f].varified =>
    \E p \in Conns : /\ cl[p].info # None /\ cl[p].info.file = f
                     /\ disk[<<files[f].owner, f>>] = MyFile(cl[p])

(* The server is one among arbitrary clients: all that OpenServer promises *)
(* is inherited.                                                           *)
Open == INSTANCE OpenServer WITH
  InFlight <- Nat,
  EnvCodes <- {"REGISTRATION", "PUBLIC_KEY", "SEND_FILE", "CHUNK", "CRC_VALID",
               "CRC_RESEND", "CRC_ABORT"}
OpenSpec == Open!Spec

(* A client that finds itself registered has the private key it registered *)
(* with: BuildRsaKeySet makes a new one only for who is not registered.    *)
RegisteredHasKey ==
  \A p \in Conns : cl[p].id # None => cl[p].hasKey

(* A failure of the server finds the message it is about in the queue, to  *)
(* be sent again.                                                          *)
FailedFindsMessage ==
  \A p \in Conns :
    /\ cl[p].at = "read" /\ cl[p].attempts > 0
    /\ toClient[p] # <<>> /\ Head(toClient[p]) = Failed
    => cl[p].queue # <<>>

(* What the system goes on to do as long as no client has lost its key.    *)

(* A registered client has its file stored, unless popping its empty queue *)
(* killed it.                                                              *)
FilesArrive == []RegisteredHasKey =>
  \A p \in Conns : cl[p].at = "write" /\ cl[p].id # None ~>
    cl[p].at = "stopped" /\ cl[p].outcome \in {"hurray", "killed"}

(* Every run of the client ends, with whatever outcome: nothing it waits   *)
(* for stays out for ever, and its own retries are bounded.                *)
EveryRunEnds == []RegisteredHasKey =>
  <>[](\A p \in Conns : cl[p].at \in {"off", "stopped"})

(* The lock is given back: another client gets its turn.                   *)
LockIsReleased == []RegisteredHasKey => ((lock = "held") ~> (lock = "free"))
=============================================================================
