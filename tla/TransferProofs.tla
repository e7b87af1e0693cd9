---------------------------- MODULE TransferProofs ----------------------------
(***************************************************************************)
(* The whole system, for any number of client processes, users, files and  *)
(* keys, and whatever is killed when: the client's state keeps its types,  *)
(* the server is used as the server among arbitrary clients is, and an id a*)
(* client remembers is one the server has registered for it.               *)
(***************************************************************************)
EXTENDS Transfer, ServerProofs, ClientProofs

-----------------------------------------------------------------------------
(* The invariant.                                                          *)

(* A connection nobody has opened.                                         *)
Untouched(k) ==
  /\ srvEnd[k] = "unused" /\ toServer[k] = <<>> /\ toClient[k] = <<>>
  /\ pc[k] = "none" /\ out[k] = <<>> /\ mainConn # k
  /\ \A n \in 1..Len(backlog) : backlog[n] # k

(* A client without an id has asked for nothing but to be registered, and  *)
(* is told of nothing but that.                                            *)
RegistersOnly(k) ==
  /\ toServer[k] \in Seq(RegistrationRequest)
  /\ toClient[k] \in Seq(RegistrationAnswer) /\ out[k] \in Seq(RegistrationAnswer)
  /\ pc[k] \in {"none", "recv", "addClient", "write", "release", "close", "done", "dead"}

ConnOK(k) ==
  /\ cliEnd[k] = "unused" => Untouched(k)
  /\ cl[k].at \in {"off", "create"} => cliEnd[k] = "unused"
  /\ Active(cl[k]) /\ cl[k].id = None => RegistersOnly(k)

TInv ==
  /\ IInv
  /\ cl \in [Conns -> Process] /\ meInfo \in [Dirs -> Seq(Line) \cup {None}]
  /\ todo \in [Conns -> Seq(FileStep)] /\ fileContent \in [Conns -> Seq(Line)]
  /\ kills \in 0..MaxKills
  /\ \A k \in Conns : ClientOK(k) /\ ConnOK(k)

-----------------------------------------------------------------------------
(* The server's steps.                                                     *)

(* The server's side of the state keeps its own invariant.                 *)
LEMMA ServerIInv == ASSUME IInv, ServerNext PROVE IInv'
  BY AcceptStep, StartSessionStep, ThreadStep, ServerCrashStep, StartServerStep
     DEF ServerNext, Main

(* No connection is touched before its client opens it.                    *)
LEMMA ServerLeavesUntouched ==
  ASSUME IInv, ServerNext, NEW k \in Conns, Untouched(k)
  PROVE  Untouched(k)'
  <1>1. CASE StartServer
    BY <1>1 DEF StartServer, Untouched, threadVars, channelVars
  <1>2. CASE Accept
    <2>1. backlog \in Seq(Conns) /\ backlog # <<>>
      BY <1>2 DEF Accept, IInv, TypeOK, ChannelTypeOK
    <2>2. Head(backlog) = backlog[1] /\ 1 \in 1..Len(backlog)
      BY <2>1
    <2>3. \A n \in 1..Len(Tail(backlog)) :
            Tail(backlog)[n] = backlog[n + 1] /\ n + 1 \in 1..Len(backlog)
      BY <2>1
    <2> QED BY <1>2, <2>2, <2>3 DEF Accept, Untouched, threadVars
  <1>3. CASE StartSession
    <2>1. mainConn # k /\ pc \in [Conns -> ThreadState]
      BY DEF Untouched, IInv, TypeOK, ThreadTypeOK
    <2> QED BY <1>3, <2>1 DEF StartSession, Untouched, channelVars
  <1>4. ASSUME NEW j \in Conns, Thread(j) PROVE Untouched(k)'
    <2>1. j # k
      BY <1>4, ThreadRuns DEF Untouched, Holding
    <2> QED BY <1>4, <2>1, OthersStay, ThreadPackets DEF Untouched
  <1>5. CASE ServerCrash
    <2>1. mainConn' # k
      BY <1>5, NoneAssumption DEF ServerCrash
    <2> QED BY <1>5, <2>1 DEF ServerCrash, ServerClose, Untouched
  <1> QED BY <1>1, <1>2, <1>3, <1>4, <1>5 DEF ServerNext, Main

(* What a thread makes of registrations: it checks the name, inserts, and  *)
(* writes an approval or refusals.                                         *)
LEMMA ThreadRegistersOnly ==
  ASSUME IInv, NEW k \in Conns, Thread(k), RegistersOnly(k)
  PROVE  RegistersOnly(k)'
  <1>1. /\ pc \in [Conns -> ThreadState] /\ out \in [Conns -> Seq(Response)]
        /\ toServer[k] \in Seq(RegistrationRequest)
        /\ toClient[k] \in Seq(RegistrationAnswer) /\ out[k] \in Seq(RegistrationAnswer)
    BY DEF IInv, TypeOK, ThreadTypeOK, RegistersOnly
  <1>2. toServer'[k] \in Seq(RegistrationRequest)
    <2>1. toServer[k] # <<>> => Tail(toServer[k]) \in Seq(RegistrationRequest)
      BY <1>1
    <2> QED BY <1>1, <2>1, EmptyIsSeq, ThreadPackets
  <1>3. toClient'[k] \in Seq(RegistrationAnswer)
    <2>1. CASE toClient'[k] = toClient[k]
      BY <1>1, <2>1
    <2>2. CASE pc[k] = "write" /\ toClient'[k] = Append(toClient[k], Head(out[k]))
      <3>1. out[k] # <<>>
        BY <2>2 DEF IInv, HandlerOK
      <3>2. Head(out[k]) \in RegistrationAnswer
        BY <1>1, <3>1
      <3> QED BY <1>1, <2>2, <3>2
    <2> QED BY <2>1, <2>2, ThreadPackets
  <1>4. Failed \in RegistrationAnswer
    BY FailedType DEF RegistrationAnswer, Failed, Reply
  <1>5. \A i \in Ids : Reply("REGISTRATION_SUCCEEDED", i) \in RegistrationAnswer
    BY ReplyType DEF RegistrationAnswer, Reply
  <1>6. /\ out'[k] \in Seq(RegistrationAnswer)
        /\ pc'[k] \in {"none", "recv", "addClient", "write", "release", "close", "done", "dead"}
    <2>1. ASSUME NEW rs \in Seq(RegistrationAnswer), NEW r, Answer(k, r, rs)
          PROVE  out'[k] \in Seq(RegistrationAnswer) /\ pc'[k] = "write"
      BY <1>1, <2>1 DEF Answer
    <2>2. CASE Refuse(k)
      <3>1. <<Failed, Failed>> \in Seq(RegistrationAnswer)
        BY <1>4
      <3> QED BY <2>1, <2>2, <3>1 DEF Refuse
    <2>3. CASE AddClient(k)
      <3>1. ASSUME NEW i \in Ids, NEW r, Answer(k, r, <<Reply("REGISTRATION_SUCCEEDED", i)>>)
            PROVE  out'[k] \in Seq(RegistrationAnswer) /\ pc'[k] = "write"
        <4>1. <<Reply("REGISTRATION_SUCCEEDED", i)>> \in Seq(RegistrationAnswer)
          BY <1>5
        <4> QED BY <2>1, <3>1, <4>1
      <3> QED BY <2>2, <2>3, <3>1 DEF AddClient
    <2>4. ASSUME NEW m, CheckName(k, m)
          PROVE  /\ out'[k] \in Seq(RegistrationAnswer)
                 /\ pc'[k] \in {"addClient", "write"}
      <3>1. CASE Refuse(k)
        <4>1. out'[k] \in Seq(RegistrationAnswer) /\ pc'[k] = "write"
          <5>1. <<Failed, Failed>> \in Seq(RegistrationAnswer)
            BY <1>4
          <5> QED BY <2>1, <3>1, <5>1 DEF Refuse
        <4> QED BY <4>1
      <3>2. CASE Proceed(k, "addClient", m, 0)
        BY <1>1, <3>2 DEF Proceed
      <3> QED BY <2>4, <3>1, <3>2 DEF CheckName
    <2>5. CASE Write(k)
      <3>1. out[k] # <<>> /\ out'[k] = Tail(out[k]) /\ pc'[k] \in {"write", "release", "recv"}
        BY <1>1, <2>5 DEF Write, IInv, HandlerOK
      <3>2. Tail(out[k]) \in Seq(RegistrationAnswer)
        BY <1>1, <3>1
      <3> QED BY <3>1, <3>2
    <2>6. CASE RecvEof(k) \/ RecvRaises(k) \/ Release(k) \/ Close(k)
      BY <1>1, <2>6 DEF RecvEof, RecvRaises, Release, Close, Dies, Goes, Proceed
    <2>7. CASE WriteRaises(k) \/ DropSocket(k)
      BY <1>1, <2>7 DEF WriteRaises, DropSocket, serverVars, threadVars, RegistersOnly
    <2>8. Handle(k) => AddClient(k) \/ \E m : CheckName(k, m)
      <3>1. toServer[k] # <<>> => Head(toServer[k]).code = "REGISTRATION"
        <4>1. toServer[k] # <<>> => Head(toServer[k]) \in RegistrationRequest
          BY <1>1
        <4> QED BY <4>1 DEF RegistrationRequest
      <3> QED BY <3>1 DEF Handle, RegistersOnly, SetPublicKey, SetSymmetricKey,
                RecvFileHead, RecvFileChunk, RecvFileRaises, StoreFile, CommitFile,
                CrcValid, SaveFile, MarkVarified, Resend, Abort, UnknownRequest, Receives
    <2> QED BY <2>3, <2>4, <2>5, <2>6, <2>7, <2>8 DEF Thread
  <1> QED BY <1>2, <1>3, <1>6 DEF RegistersOnly

(* Nor does any other step of the server ask or tell it of anything else.  *)
LEMMA ServerRegistersOnly ==
  ASSUME IInv, ServerNext, NEW k \in Conns, RegistersOnly(k)
  PROVE  RegistersOnly(k)'
  <1>1. CASE StartServer \/ Accept
    BY <1>1 DEF StartServer, Accept, RegistersOnly, threadVars, channelVars
  <1>2. CASE StartSession
    <2>1. mainConn \in Conns /\ pc \in [Conns -> ThreadState]
      BY <1>2 DEF StartSession, IInv, MainOK, TypeOK, ThreadTypeOK
    <2> QED BY <1>2, <2>1 DEF StartSession, RegistersOnly, channelVars
  <1>3. ASSUME NEW j \in Conns, Thread(j), j # k PROVE RegistersOnly(k)'
    BY <1>3, OthersStay, ThreadPackets DEF RegistersOnly
  <1>4. CASE ServerCrash
    BY <1>4, EmptyIsSeq DEF ServerCrash, ServerClose, RegistersOnly
  <1> QED BY <1>1, <1>2, <1>3, <1>4, ThreadRegistersOnly DEF ServerNext, Main

(* The server keeps the invariant.                                         *)
LEMMA ServerTInv == ASSUME TInv, Server PROVE TInv'
  <1>1. IInv /\ ServerNext /\ UNCHANGED <<cl, meInfo, todo, fileContent, kills>>
    BY DEF TInv, Server, clientVars, fileVars
  <1>2. cliEnd' = cliEnd
    <2>1. ASSUME NEW j \in Conns, Thread(j) PROVE cliEnd' = cliEnd
      BY <1>1, <2>1, ThreadPackets
    <2> QED BY <1>1, <2>1 DEF ServerNext, Main, StartServer, Accept, StartSession,
                              ServerCrash, ServerClose, channelVars
  <1>3. ASSUME NEW k \in Conns PROVE ClientOK(k)' /\ ConnOK(k)'
    BY <1>1, <1>2, ServerLeavesUntouched, ServerRegistersOnly
       DEF TInv, ClientOK, FileOK, ConnOK, Dir
  <1>4. IInv'
    BY <1>1, ServerIInv
  <1> QED BY <1>1, <1>3, <1>4 DEF TInv, Dir

-----------------------------------------------------------------------------
(* The clients' steps.                                                     *)

(* A process starts, or stops, or goes on, within what it can get hold of, *)
(* or does something to its me.info.                                       *)
LEMMA ClientMoves ==
  ASSUME NEW p \in Conns, NEW R, NEW A, NEW T, Scope(p, R, A, T), FilesTyped, ClientOK(p),
         Given(p, A), Within(cl[p], R, A, T), FilesWithin(p, T), ClientNext(p, Listening)
  PROVE  /\ FilesMove(p, T) /\ FileOK(p)'
         /\ \E d :
              /\ Becomes(p, d, R, A, T)
              /\ \/ Start(p) /\ Started(d) /\ d.buf = None /\ ~Rejoices(d)
                 \/ d.at = "stopped"
                 \/ /\ d = cl[p] \/ (cl[p].at = "off" /\ d.at = "create")
                    /\ UNCHANGED channelVars
                 \/ /\ Started(d) /\ Started(cl[p]) /\ (Active(d) => Active(cl[p]))
                    /\ d.id = None => cl[p].id = None
                    /\ Listens(p, d)
  <1>1. CASE clientStop(p) \/ (todo[p] = <<>> /\ Exit(p))
    <2>1. UNCHANGED fileVars /\ todo[p] = <<>>
      BY <1>1, StopStep DEF clientStop, ClientOK, FileOK
    <2>2. PICK d : Becomes(p, d, R, A, T) /\ d.at = "stopped"
      BY <1>1, StopStep
    <2>3. cl'[p].at = "stopped"
      BY <2>2 DEF Becomes, FilesTyped
    <2>4. FilesMove(p, T) /\ FileOK(p)'
      BY <2>1, <2>3, IdleFiles DEF Started
    <2> QED BY <2>2, <2>4
  <1>2. CASE Start(p) \/ OpenFails(p) \/ CloseDies(p)
    <2>1. PICK d : /\ Becomes(p, d, R, A, T)
                   /\ \/ Start(p) /\ Started(d) /\ d.buf = None /\ ~Rejoices(d)
                      \/ d.at = "stopped"
      BY <1>2, StartStep
    <2>2. UNCHANGED fileVars /\ todo[p] = <<>> /\ meInfo[Dir(p)] # None
      BY <1>2, StartStep
    <2>3. cl'[p].at # "create"
      BY <2>1 DEF Becomes, FilesTyped, Started
    <2>4. FilesMove(p, T) /\ FileOK(p)'
      BY <2>2, <2>3, IdleFiles
    <2> QED BY <2>1, <2>4
  <1>3. CASE GoesOn(p, R, A, T)
    <2>1. FilesMove(p, T) /\ FileOK(p)'
      BY <1>3, GoesOnFiles
    <2> QED BY <1>3, <2>1 DEF GoesOn
  <1>4. CASE Kill(p) /\ cl[p].at # "create"
    BY <1>3, <1>4, KillGoesOn
  <1>5. CASE Read(p) \/ ReadFails(p)
    BY <1>3, <1>5, ReadGoesOn
  <1>6. CASE CrcRead(p) \/ CrcReadFails(p) \/ WritePacket(p) \/ WriteFails(p)
    BY <1>3, <1>6, CrcReadGoesOn, WriteGoesOn
  <1>7. CASE Kill(p) /\ cl[p].at = "create"
    BY <1>7, CreateFiles, KillAtCreate
  <1>8. CASE CreateFile(p)
    <2>1. PICK d : Becomes(p, d, R, A, T) /\ d.at = "create"
      BY <1>8, CreateStep
    <2>2. cl[p].at = "off" /\ UNCHANGED channelVars
      BY <1>8 DEF CreateFile
    <2> QED BY <1>8, <2>1, <2>2, CreateFiles
  <1>9. CASE FileOperation(p)
    <2>1. cl' = [cl EXCEPT ![p] = cl[p]] /\ UNCHANGED channelVars
      BY <1>9 DEF FileOperation, FilesTyped
    <2>2. Becomes(p, cl[p], R, A, T)
      BY <2>1 DEF Becomes, ClientOK
    <2> QED BY <1>9, <2>1, <2>2, FileOperationFiles
  <1> QED BY <1>1, <1>2, <1>4, <1>5, <1>6, <1>7, <1>8, <1>9
          DEF ClientNext, ClientStep, Opens

(* What a process can do to the channel.                                   *)
LEMMA ClientMakes ==
  ASSUME NEW p \in Conns, ClientNext(p, Listening)
  PROVE  /\ kills' = kills \/ (kills < MaxKills /\ kills' = kills + 1)
         /\ \/ UNCHANGED channelVars
            \/ Listening /\ Connect(p)
            \/ WritePacket(p) /\ ClientSend(p, Head(cl[p].toSend))
            \/ ClientRecv(p)
            \/ ClientClose(p)
  <1>1. kills' = kills \/ (kills < MaxKills /\ kills' = kills + 1)
    BY DEF ClientNext, ClientStep, clientStop, CreateFile, Opens, Start, OpenFails, CloseDies,
           FileOperation, WritePacket, WriteFails, Read, ReadFails, Dispatch, CrcRead,
           CrcReadFails, Exit, Kill
  <1>2. \/ UNCHANGED channelVars
        \/ Listening /\ Connect(p)
        \/ WritePacket(p) /\ ClientSend(p, Head(cl[p].toSend))
        \/ ClientRecv(p) \/ ClientClose(p)
    BY DEF ClientNext, ClientStep, clientStop, CreateFile, Opens, Start, OpenFails, CloseDies,
           FileOperation, WritePacket, WriteFails, Read, ReadFails, CrcRead, CrcReadFails,
           Exit, Kill, ClientSendFails, ClientRecvFails
  <1> QED BY <1>1, <1>2

(* With everything in scope, that is the type of a process.                *)
LEMMA EverythingInScope ==
  ASSUME NEW p \in Conns
  PROVE  Scope(p, Request, Response, Line)
  <1>1. Identified \subseteq Request
    BY DEF Identified, Request
  <1>2. ASSUME NEW u \in InfosOf[Dir(p)], HasName(u)
        PROVE  [code |-> "REGISTRATION", name |-> u.name] \in Request
    <2>1. u \in UserInfo /\ u.name # None
      BY <1>2, ClientAssumption DEF HasName, Dirs, Dir
    <2>2. u.name \in Names
      BY <2>1 DEF UserInfo
    <2> QED BY <2>2 DEF Request, RegistrationRequest
  <1>3. ASSUME NEW m \in Response, m.code = "REGISTRATION_SUCCEEDED" PROVE m.val \in Line
    BY <1>3, ResponseByCode DEF Line
  <1> QED BY <1>1, <1>2, <1>3, ClientAssumption DEF Scope, Words, Line

LEMMA ProcessWithin ==
  ASSUME IInv, NEW p \in Conns, ClientOK(p), ConnOK(p)
  PROVE  Within(cl[p], Request, Response, Line) /\ Given(p, Response)
  <1>1. cl[p] \in Process
    BY DEF ClientOK, GoodProcess
  <1>2. Within(cl[p], Request, Response, Line)
    <2>1. cl[p].at = "create" => Registration(cl[p]) \in Request
      BY DEF ClientOK, GoodProcess, TransferInfo, Registration, Request, RegistrationRequest
    <2> QED BY <1>1, <2>1 DEF Process, Within, Line
  <1>3. toClient[p] \in Seq(Response)
    BY DEF IInv, TypeOK, ChannelTypeOK
  <1> QED BY <1>2, <1>3 DEF Given, ConnOK, RegistersOnly

(* A process that writes without an id writes a registration.              *)
LEMMA WritesWhatItMay ==
  ASSUME NEW p \in Conns, ClientOK(p), WritePacket(p)
  PROVE  /\ Head(cl[p].toSend) \in Request /\ Active(cl[p])
         /\ cl[p].id = None => Head(cl[p].toSend) \in RegistrationRequest
  <1>1. Active(cl[p]) /\ cl[p].toSend # <<>> /\ cl[p] \in Process
    BY DEF WritePacket, ClientOK, GoodProcess, Active
  <1>2. cl[p].toSend \in Seq(Request)
    BY <1>1 DEF Process
  <1>3. cl[p].id = None => cl[p].toSend \in Seq(RegistrationRequest)
    BY <1>1 DEF ClientOK, GoodProcess
  <1> QED BY <1>1, <1>2, <1>3

(* A client keeps the invariant.                                           *)
LEMMA ClientsTInv == ASSUME TInv, Clients PROVE TInv'
  <1>1. PICK p \in Conns : ClientNext(p, Listening)
    BY DEF Clients
  <1>2. /\ IInv /\ UNCHANGED serverVars /\ FilesTyped
        /\ cl \in [Conns -> Process] /\ meInfo \in [Dirs -> Seq(Line) \cup {None}]
        /\ kills \in 0..MaxKills /\ ChannelTypeOK
        /\ ClientOK(p) /\ ConnOK(p) /\ Dir(p) \in Dirs
    BY DEF TInv, FilesTyped, Clients, IInv, TypeOK, Dir, Dirs
  <1>3. /\ FilesMove(p, Line) /\ FileOK(p)'
        /\ \E d :
             /\ Becomes(p, d, Request, Response, Line)
             /\ \/ Start(p) /\ Started(d)
                \/ d.at = "stopped"
                \/ /\ d = cl[p] \/ (cl[p].at = "off" /\ d.at = "create")
                   /\ UNCHANGED channelVars
                \/ /\ Started(d) /\ Started(cl[p]) /\ (Active(d) => Active(cl[p]))
                   /\ d.id = None => cl[p].id = None
    <2>1. Scope(p, Request, Response, Line)
      BY EverythingInScope
    <2>2. Within(cl[p], Request, Response, Line) /\ Given(p, Response)
      BY <1>2, ProcessWithin
    <2>3. FilesWithin(p, Line)
      BY <1>2 DEF FilesWithin, FilesTyped
    <2> QED BY <1>1, <1>2, <2>1, <2>2, <2>3, ClientMoves
  <1>d. PICK d :
          /\ Becomes(p, d, Request, Response, Line)
          /\ \/ Start(p) /\ Started(d)
             \/ d.at = "stopped"
             \/ /\ d = cl[p] \/ (cl[p].at = "off" /\ d.at = "create")
                /\ UNCHANGED channelVars
             \/ /\ Started(d) /\ Started(cl[p]) /\ (Active(d) => Active(cl[p]))
                /\ d.id = None => cl[p].id = None
    BY <1>3
  <1>4. /\ kills' = kills \/ (kills < MaxKills /\ kills' = kills + 1)
        /\ \/ UNCHANGED channelVars
           \/ Connect(p)
           \/ WritePacket(p) /\ ClientSend(p, Head(cl[p].toSend))
           \/ ClientRecv(p)
           \/ ClientClose(p)
    BY <1>1, ClientMakes
  <1>5. kills' \in 0..MaxKills
    BY <1>2, <1>4, ClientAssumption
  <1>6. ChannelTypeOK'
    <2>1. CASE UNCHANGED channelVars
      BY <1>2, <2>1 DEF ChannelTypeOK, channelVars
    <2>2. CASE Connect(p) \/ ClientRecv(p) \/ ClientClose(p)
      <3>1. [code |-> "CHUNK"] \in Request
        BY DEF Request, ChunkPacket
      <3> QED BY <1>2, <2>2, <3>1, ClientCalls
    <2>3. CASE WritePacket(p) /\ ClientSend(p, Head(cl[p].toSend))
      BY <1>2, <2>3, ClientCalls, WritesWhatItMay
    <2> QED BY <1>4, <2>1, <2>2, <2>3
  <1>7. IInv'
    BY <1>2, <1>6, ServerIdleStep
  <1>8. /\ cl' \in [Conns -> Process] /\ cl'[p] = d /\ GoodProcess(d)
        /\ \A k \in Conns : k # p => cl'[k] = cl[k]
    BY <1>2, <1>d DEF Becomes, GoodProcess
  <1>9. /\ meInfo' \in [Dirs -> Seq(Line) \cup {None}]
        /\ todo' \in [Conns -> Seq(FileStep)] /\ fileContent' \in [Conns -> Seq(Line)]
        /\ \A k \in Conns : k # p => todo'[k] = todo[k]
        /\ \A e \in Dirs : meInfo[e] # None => meInfo'[e] # None
    <2>1. /\ meInfo' \in [Dirs -> Seq(Line) \cup {None}]
          /\ \A e \in Dirs : meInfo'[e] = meInfo[e] \/ meInfo'[e] \in Seq(Line)
      BY <1>2, <1>3 DEF FilesMove
    <2>2. /\ todo' \in [Conns -> Seq(FileStep)] /\ fileContent' \in [Conns -> Seq(Line)]
          /\ \A k \in Conns : k # p => todo'[k] = todo[k]
      BY <1>2, <1>3 DEF FilesMove, FilesTyped
    <2> QED BY <2>1, <2>2, ClientAssumption
  <1>10. ASSUME NEW k \in Conns PROVE ClientOK(k)'
    <2>1. CASE k # p
      <3>1. ClientOK(k) /\ Dir(k) \in Dirs
        BY DEF TInv, Dir, Dirs
      <3> QED BY <1>8, <1>9, <2>1, <3>1 DEF ClientOK, FileOK, Dir
    <2>2. CASE k = p
      BY <1>3, <1>8, <2>2 DEF ClientOK
    <2> QED BY <2>1, <2>2
  <1>11. ASSUME NEW k \in Conns PROVE ConnOK(k)'
    <2> USE <1>2 DEF ChannelTypeOK
    <2>1. CASE k # p
      <3>1. /\ toServer'[k] = toServer[k] /\ toClient'[k] = toClient[k]
            /\ cliEnd'[k] = cliEnd[k] /\ srvEnd'[k] = srvEnd[k]
            /\ backlog' \in {backlog, Append(backlog, p)}
        BY <1>4, <2>1 DEF Connect, ClientSend, ClientRecv, ClientClose, channelVars
      <3>2. Untouched(k) => Untouched(k)'
        <4>1. (\A n \in 1..Len(backlog) : backlog[n] # k) =>
                \A n \in 1..Len(backlog') : backlog'[n] # k
          <5>1. CASE backlog' = Append(backlog, p)
            <6>1. backlog \in Seq(Conns)
              BY <1>2 DEF ChannelTypeOK
            <6>2. /\ Len(backlog') = Len(backlog) + 1
                  /\ backlog'[Len(backlog) + 1] = p
                  /\ \A n \in 1..Len(backlog) : backlog'[n] = backlog[n]
              BY <5>1, <6>1
            <6>3. \A n \in 1..(Len(backlog) + 1) :
                      n \in 1..Len(backlog) \/ n = Len(backlog) + 1
              BY <6>1
            <6> QED BY <2>1, <6>2, <6>3
          <5> QED BY <3>1, <5>1
        <4> QED BY <3>1, <4>1 DEF Untouched, serverVars, loopVars, threadVars
      <3>3. RegistersOnly(k) => RegistersOnly(k)'
        BY <3>1 DEF RegistersOnly, serverVars, threadVars
      <3> QED BY <1>8, <2>1, <3>1, <3>2, <3>3 DEF TInv, ConnOK
    <2>2. CASE k = p
      <3>1. cliEnd'[p] = "unused" => Untouched(p)'
        <4>1. cliEnd'[p] = "unused" => UNCHANGED channelVars
          BY <1>4 DEF Connect, ClientSend, ClientRecv, ClientClose
        <4> QED BY <4>1 DEF ConnOK, Untouched, channelVars, serverVars, loopVars, threadVars
      <3>2. d.at \in {"off", "create"} => cliEnd'[p] = "unused"
        BY <1>d DEF Started, ConnOK, channelVars
      <3>3. ASSUME Active(d), d.id = None PROVE RegistersOnly(p)'
        <4>1. CASE Start(p)
          <5>1. cl[p].at \in {"off", "create"} /\ Connect(p)
            BY <4>1 DEF Start, Initialize
          <5>2. Untouched(p)
            BY <5>1 DEF ConnOK
          <5> QED BY <5>1, <5>2, EmptyIsSeq
                  DEF Untouched, RegistersOnly, Connect, serverVars, threadVars
        <4>2. CASE ~Start(p)
          <5>1. Active(cl[p]) /\ cl[p].id = None
            BY <1>d, <3>3, <4>2 DEF Active
          <5>2. RegistersOnly(p)
            BY <5>1 DEF ConnOK
          <5>3. toServer'[p] \in Seq(RegistrationRequest)
            <6>1. CASE WritePacket(p) /\ ClientSend(p, Head(cl[p].toSend))
              <7>1. Head(cl[p].toSend) \in RegistrationRequest
                BY <5>1, <6>1, WritesWhatItMay
              <7>2. toServer'[p] \in {toServer[p], Append(toServer[p], Head(cl[p].toSend))}
                BY <6>1 DEF ClientSend
              <7>3. toServer[p] \in Seq(RegistrationRequest)
                BY <5>2 DEF RegistersOnly
              <7>4. Append(toServer[p], Head(cl[p].toSend)) \in Seq(RegistrationRequest)
                BY <7>1, <7>3
              <7> QED BY <7>2, <7>3, <7>4
            <6>2. CASE toServer' = toServer
              BY <5>2, <6>2 DEF RegistersOnly
            <6> QED BY <1>4, <6>1, <6>2 DEF Connect, ClientRecv, ClientClose, channelVars
          <5>4. toClient'[p] \in Seq(RegistrationAnswer)
            <6>1. toClient'[p] \in {toClient[p], <<>>}
                    \/ (toClient[p] # <<>> /\ toClient'[p] = Tail(toClient[p]))
              BY <1>4 DEF Connect, ClientSend, ClientRecv, ClientClose, channelVars
            <6>2. toClient[p] # <<>> => Tail(toClient[p]) \in Seq(RegistrationAnswer)
              BY <5>2 DEF RegistersOnly
            <6> QED BY <5>2, <6>1, <6>2, EmptyIsSeq DEF RegistersOnly
          <5> QED BY <5>2, <5>3, <5>4 DEF RegistersOnly, serverVars, threadVars
        <4> QED BY <4>1, <4>2
      <3> QED BY <1>8, <2>2, <3>1, <3>2, <3>3 DEF ConnOK
    <2> QED BY <2>1, <2>2
  <1> QED BY <1>5, <1>7, <1>8, <1>9, <1>10, <1>11 DEF TInv, Dirs

-----------------------------------------------------------------------------
(* The invariant holds.                                                    *)

(* At the start no client has run, and no server.                          *)
LEMMA InitTInv == ASSUME Init PROVE TInv
  <1>1. IInv
    BY ServerInitIInv DEF Init
  <1>2. NewProcess \in Process
    <2>1. <<>> \in Seq(Request)
      BY EmptyIsSeq
    <2> QED BY <2>1 DEF NewProcess, Process, NUM_OF_ATTEMPTS
  <1>3. /\ NewProcess.at = "off" /\ NewProcess.toSend = <<>>
    BY DEF NewProcess
  <1>4. GoodProcess(NewProcess)
    BY <1>2, <1>3 DEF GoodProcess, Started, Active
  <1>5. /\ cl \in [Conns -> Process] /\ meInfo \in [Dirs -> Seq(Line) \cup {None}]
        /\ todo \in [Conns -> Seq(FileStep)] /\ fileContent \in [Conns -> Seq(Line)]
        /\ kills \in 0..MaxKills
    BY <1>2, ClientAssumption, EmptyIsSeq DEF Init, ClientInit
  <1>6. ASSUME NEW k \in Conns PROVE ClientOK(k)
    <2>1. todo[k] = <<>> /\ cl[k] = NewProcess
      BY DEF Init, ClientInit
    <2> QED BY <1>3, <1>4, <2>1, EmptyTodo DEF ClientOK, FileOK, Started
  <1>7. ASSUME NEW k \in Conns PROVE ConnOK(k)
    <2>1. Untouched(k)
      BY NoneAssumption DEF Init, ChannelInit, ServerInit, Untouched
    <2> QED BY <1>3, <2>1 DEF Init, ClientInit, ChannelInit, ConnOK, Active
  <1> QED BY <1>1, <1>5, <1>6, <1>7 DEF TInv

LEMMA NextTInv == ASSUME TInv, [Next]_vars PROVE TInv'
  <1>1. CASE UNCHANGED vars
    <2>1. UNCHANGED <<channelVars, serverVars, clientVars>>
      BY <1>1 DEF vars
    <2>2. ChannelTypeOK'
      BY <2>1 DEF TInv, IInv, TypeOK, ChannelTypeOK, channelVars
    <2>3. IInv'
      BY <2>1, <2>2, ServerIdleStep DEF TInv
    <2>4. \A k \in Conns : ClientOK(k)' /\ ConnOK(k)'
      BY <2>1 DEF TInv, ClientOK, FileOK, ConnOK, Untouched, RegistersOnly, Dir, channelVars,
                  serverVars, loopVars, threadVars, clientVars, fileVars
    <2> QED BY <2>1, <2>3, <2>4 DEF TInv, clientVars, fileVars, Dirs
  <1> QED BY <1>1, ServerTInv, ClientsTInv DEF Next

(* The invariant of the whole system, in every state it reaches.           *)
THEOREM WholeInvariance == Spec => []TInv
  <1>1. Init => TInv
    BY InitTInv
  <1>2. TInv /\ [Next]_vars => TInv'
    BY NextTInv
  <1> QED BY <1>1, <1>2, PTL DEF Spec

(* Type correctness of the clients: whatever the server answers, whatever  *)
(* Run finds in its buffer when Read fails, and whoever is killed when,    *)
(* the processes and the me.info files keep their types; in particular no  *)
(* process sends a request that needs an id before it has one.             *)
THEOREM ClientTypes == Spec => []ClientTypeOK
  <1>1. TInv => ClientTypeOK
    BY DEF TInv, ClientTypeOK
  <1> QED BY <1>1, WholeInvariance, PTL

-----------------------------------------------------------------------------
(* Where ids come from.  An id travels from the row addClient inserts into *)
(* the answer, the client's memory, its me.info, and the next process of   *)
(* the directory; its name came from the registration that asked for it.   *)

Registered(i, d) == clients[i] # None /\ clients[i].name \in NamesOf(d)

OwnRequest(k) == {m \in Request : m.code = "REGISTRATION" => m.name \in NamesOf(Dir(k))}
HonestAnswer(k) ==
  {m \in Response : m.code = "REGISTRATION_SUCCEEDED" => Registered(m.val, Dir(k))}
OwnLine(d) == {l \in Line : l \in Ids => Registered(l, d)}

(* What the client holds, and what its connection and thread do.           *)
ProcessHonest(k) ==
  /\ cl[k].id # None => cl[k].id \in OwnLine(Dir(k))
  /\ cl[k].buf \in HonestAnswer(k) \cup {None}
  /\ cl[k].queue \in Seq(OwnRequest(k)) /\ cl[k].toSend \in Seq(OwnRequest(k))
  /\ cl[k].at = "create" => Registration(cl[k]) \in OwnRequest(k)
  /\ fileContent[k] \in Seq(OwnLine(Dir(k)))

ConnHonest(k) ==
  /\ toServer[k] \in Seq(OwnRequest(k))
  /\ pc[k] = "addClient" => req[k] \in OwnRequest(k)
  /\ toClient[k] \in Seq(HonestAnswer(k)) /\ out[k] \in Seq(HonestAnswer(k))

RegInv ==
  /\ \A d \in Dirs : meInfo[d] \in Seq(OwnLine(d)) \cup {None}
  /\ \A k \in Conns : ProcessHonest(k) /\ ConnHonest(k)

(* What the memory of Run's buffer looks like before anything is read into *)
(* it: anything but an approval of a registration.                         *)
NoApprovalInMemory ==
  \A m \in Memory : m # None => m.code # "REGISTRATION_SUCCEEDED"

(* Who was registered stays so: what was honest to say or write is so ever *)
(* after.                                                                  *)
LEMMA HonestyLasts ==
  ASSUME KeepsClients
  PROVE  /\ \A k \in Conns : HonestAnswer(k) \subseteq HonestAnswer(k)'
         /\ \A d \in Dirs : OwnLine(d) \subseteq OwnLine(d)'
  <1>1. \A i \in Ids : \A d : Registered(i, d) => Registered(i, d)'
    BY DEF KeepsClients, Registered, NamesOf
  <1>2. \A m \in Response : m.code = "REGISTRATION_SUCCEEDED" => m.val \in Ids
    BY ResponseByCode
  <1> QED BY <1>1, <1>2 DEF HonestAnswer, OwnLine, Dir

(* The server takes no registration back.                                  *)
LEMMA ServerKeepsClients == ASSUME IInv, ServerNext PROVE KeepsClients
  <1>1. CASE UNCHANGED clients
    BY <1>1 DEF KeepsClients
  <1>2. (\E k \in Conns : Thread(k)) \/ UNCHANGED clients
    BY DEF ServerNext, Main, Accept, StartSession, ServerCrash, StartServer, dbVars
  <1> QED BY <1>1, <1>2, ThreadClients

(* An approval names the row that was inserted for the request at hand.    *)
LEMMA ApprovalIsHonest ==
  ASSUME IInv, NEW k \in Conns, ConnHonest(k), AddClient(k)
  PROVE  out'[k] \in Seq(HonestAnswer(k)')
  <1>1. /\ out \in [Conns -> Seq(Response)] /\ clients \in [Ids -> Client \cup {None}]
        /\ req[k] \in RegistrationRequest /\ req[k] \in OwnRequest(k)
    BY DEF IInv, TypeOK, ThreadTypeOK, StoreTypeOK, HandlerOK, AddClient, ConnHonest
  <1>2. req[k].name \in NamesOf(Dir(k)) /\ req[k].name \in Names
    BY <1>1 DEF OwnRequest, RegistrationRequest
  <1>3. CASE Refuse(k)
    <2>1. Failed \in HonestAnswer(k)'
      BY FailedType DEF HonestAnswer, Failed, Reply
    <2>2. <<Failed, Failed>> \in Seq(HonestAnswer(k)')
      BY <2>1
    <2> QED BY <1>1, <1>3, <2>2 DEF Refuse, Answer
  <1>4. ASSUME NEW i \in Ids, clients' = [clients EXCEPT ![i] = NewClient(i, req[k].name)],
               Answer(k, req[k], <<Reply("REGISTRATION_SUCCEEDED", i)>>)
        PROVE  out'[k] \in Seq(HonestAnswer(k)')
    <2> DEFINE row == NewClient(i, req[k].name)
               m == Reply("REGISTRATION_SUCCEEDED", i)
    <2>1. row \in Client /\ row.name = req[k].name
      BY <1>2 DEF NewClient, Client
    <2>2. clients' = [clients EXCEPT ![i] = row]
      BY <1>4
    <2>3. m \in Response /\ m.val = i
      BY ReplyType DEF Reply
    <2>4. out' = [out EXCEPT ![k] = <<m>>]
      BY <1>4 DEF Answer
    <2> HIDE DEF row, m
    <2>5. clients'[i] = row /\ clients'[i] # None
      BY <1>1, <2>1, <2>2, NoneAssumption
    <2>6. Registered(i, Dir(k))'
      BY <1>2, <2>1, <2>5 DEF Registered, NamesOf, Dir
    <2>7. m \in HonestAnswer(k)'
      BY <2>3, <2>6 DEF HonestAnswer, Dir
    <2>8. <<m>> \in Seq(HonestAnswer(k)')
      BY <2>7
    <2> QED BY <1>1, <2>4, <2>8
  <1> QED BY <1>3, <1>4 DEF AddClient

(* A thread hands on what it was told.                                     *)
LEMMA ThreadHonest ==
  ASSUME IInv, NEW k \in Conns, ConnHonest(k), Thread(k)
  PROVE  ConnHonest(k)'
  <1> DEFINE H == HonestAnswer(k)
             HH == HonestAnswer(k)'
  <1>1. HonestAnswer(k) \subseteq HonestAnswer(k)'
    BY ThreadClients, HonestyLasts
  <1>2. toServer'[k] \in Seq(OwnRequest(k))
    <2>1. toServer[k] \in Seq(OwnRequest(k))
      BY DEF ConnHonest
    <2>2. toServer[k] # <<>> => Tail(toServer[k]) \in Seq(OwnRequest(k))
      BY <2>1
    <2> QED BY <2>1, <2>2, EmptyIsSeq, ThreadPackets
  <1>3. toClient[k] \in Seq(HonestAnswer(k)') /\ out[k] \in Seq(HonestAnswer(k)')
    <2>1. toClient[k] \in Seq(H) /\ out[k] \in Seq(H) /\ H \subseteq HH
      BY <1>1 DEF ConnHonest
    <2> HIDE DEF H, HH
    <2>2. toClient[k] \in Seq(HH) /\ out[k] \in Seq(HH)
      BY <2>1, SeqOfMore
    <2> QED BY <2>2 DEF HH
  <1>4. toClient'[k] \in Seq(HonestAnswer(k)')
    <2>1. pc[k] = "write" => out[k] # <<>>
      BY DEF IInv, HandlerOK
    <2>2. pc[k] = "write" => Append(toClient[k], Head(out[k])) \in Seq(HonestAnswer(k)')
      BY <1>3, <2>1
    <2> QED BY <1>3, <2>2, ThreadPackets
  <1>5. out'[k] \in Seq(HonestAnswer(k)')
    <2>1. Write(k) => Tail(out[k]) \in Seq(HonestAnswer(k)')
      <3>1. Write(k) => out[k] # <<>>
        BY DEF Write, IInv, HandlerOK
      <3> QED BY <1>3, <3>1
    <2>2. OtherAnswer \subseteq HonestAnswer(k)'
      BY DEF OtherAnswer, HonestAnswer
    <2>3. out'[k] \in Seq(OtherAnswer) => out'[k] \in Seq(HonestAnswer(k)')
      BY <2>2, SeqOfMore
    <2>4. MarkVarified(k) => out'[k] \in Seq(HonestAnswer(k)')
      <3> DEFINE m == Reply("MSG_RECEIVED", None)
      <3>1. m \in HH
        BY ReplyType DEF HonestAnswer, Reply
      <3>2. MarkVarified(k) => out'[k] = <<m>>
        BY DEF MarkVarified, Answer, IInv, TypeOK, ThreadTypeOK
      <3> HIDE DEF m, HH
      <3>3. <<m>> \in Seq(HH)
        BY <3>1
      <3> QED BY <3>2, <3>3 DEF HH
    <2> QED BY <1>3, <2>1, <2>3, <2>4, ThreadOut, ApprovalIsHonest
  <1>6. ASSUME pc'[k] = "addClient" PROVE req'[k] \in OwnRequest(k)
    <2>1. ASSUME NEW m, CheckName(k, m) PROVE req'[k] \in OwnRequest(k)
      <3>1. /\ pc \in [Conns -> ThreadState]
            /\ req \in [Conns -> Request \cup Uploading \cup {None}]
        BY DEF IInv, TypeOK, ThreadTypeOK
      <3>2. req'[k] = m
        BY <1>6, <2>1, <3>1 DEF CheckName, Proceed, Refuse, Answer
      <3>3. toServer[k] \in Seq(OwnRequest(k)) /\ toServer[k] # <<>> /\ m = Head(toServer[k])
        BY <2>1 DEF ConnHonest, CheckName, Receives, ServerRecv
      <3>4. m \in OwnRequest(k)
        BY <3>3
      <3> QED BY <3>2, <3>4
    <2> QED BY <1>6, <2>1, ReachesAddClient DEF ConnHonest
  <1> QED BY <1>2, <1>4, <1>5, <1>6 DEF ConnHonest, OwnRequest, NamesOf, Dir

(* A process, while others move, and its connection while it does not.     *)
LEMMA ProcessStaysHonest ==
  ASSUME KeepsClients, NEW k \in Conns, ProcessHonest(k), cl'[k] = cl[k],
         fileContent'[k] = fileContent[k]
  PROVE  ProcessHonest(k)'
  <1> DEFINE T == OwnLine(Dir(k))
             TT == OwnLine(Dir(k))'
  <1>1. HonestAnswer(k) \subseteq HonestAnswer(k)' /\ T \subseteq TT
    BY HonestyLasts DEF Dirs, Dir
  <1>2. fileContent'[k] \in Seq(T) => fileContent'[k] \in Seq(TT)
    <2> HIDE DEF T, TT
    <2> QED BY <1>1, SeqOfMore
  <1> QED BY <1>1, <1>2 DEF ProcessHonest, OwnRequest, NamesOf, Dir, Registration

LEMMA ConnStaysHonest ==
  ASSUME KeepsClients, NEW k \in Conns, ConnHonest(k),
         toServer'[k] \in {toServer[k], <<>>}, toClient'[k] \in {toClient[k], <<>>},
         out'[k] \in {out[k], <<>>},
         pc'[k] = "addClient" => pc[k] = "addClient" /\ req'[k] = req[k]
  PROVE  ConnHonest(k)'
  <1> DEFINE H == HonestAnswer(k)
             HH == HonestAnswer(k)'
  <1>1. toClient[k] \in Seq(H) /\ out[k] \in Seq(H) /\ H \subseteq HH
    BY HonestyLasts DEF ConnHonest
  <1> HIDE DEF H, HH
  <1>2. toClient[k] \in Seq(HH) /\ out[k] \in Seq(HH) /\ <<>> \in Seq(HH)
    BY <1>1, SeqOfMore, EmptyIsSeq
  <1>3. toClient'[k] \in Seq(HH) /\ out'[k] \in Seq(HH)
    BY <1>2
  <1>4. toServer'[k] \in Seq(OwnRequest(k))
    BY EmptyIsSeq DEF ConnHonest
  <1> QED BY <1>3, <1>4 DEF ConnHonest, OwnRequest, NamesOf, Dir, HH

(* The server keeps the invariant.                                         *)
LEMMA ServerRegInv == ASSUME TInv, RegInv, Server PROVE RegInv'
  <1>1. IInv /\ ServerNext /\ UNCHANGED <<cl, meInfo, fileContent>>
    BY DEF TInv, Server, clientVars, fileVars
  <1>2. KeepsClients
    BY <1>1, ServerKeepsClients
  <1>3. ASSUME NEW d \in Dirs PROVE meInfo'[d] \in Seq(OwnLine(d)') \cup {None}
    <2> DEFINE T == OwnLine(d)
               TT == OwnLine(d)'
    <2>1. meInfo'[d] \in Seq(T) \cup {None} /\ T \subseteq TT
      BY <1>1, <1>2, HonestyLasts DEF RegInv
    <2> HIDE DEF T, TT
    <2>2. meInfo'[d] \in Seq(TT) \cup {None}
      BY <2>1, SeqOfMore
    <2> QED BY <2>2 DEF TT
  <1>4. ASSUME NEW k \in Conns PROVE ConnHonest(k)'
    <2>1. ConnHonest(k)
      BY DEF RegInv
    <2>2. CASE Thread(k)
      BY <1>1, <2>1, <2>2, ThreadHonest
    <2>3. ASSUME NEW j \in Conns, Thread(j), j # k PROVE ConnHonest(k)'
      <3>1. toServer'[k] = toServer[k] /\ pc'[k] = pc[k] /\ req'[k] = req[k] /\ out'[k] = out[k]
        BY <1>1, <2>3, ThreadPackets, OthersStay
      <3>2. toClient'[k] = toClient[k]
        BY <1>1, <2>3, ThreadPackets
      <3> QED BY <1>2, <2>1, <3>1, <3>2, ConnStaysHonest
    <2>4. CASE StartServer \/ Accept
      BY <1>2, <2>1, <2>4, ConnStaysHonest DEF StartServer, Accept, threadVars, channelVars
    <2>5. CASE StartSession
      <3>1. mainConn \in Conns /\ pc \in [Conns -> ThreadState]
        BY <1>1, <2>5 DEF StartSession, IInv, MainOK, TypeOK, ThreadTypeOK
      <3> QED BY <1>2, <2>1, <2>5, <3>1, ConnStaysHonest DEF StartSession, channelVars
    <2>6. CASE ServerCrash
      <3>1. pc'[k] # "addClient" /\ out'[k] = <<>> /\ toServer'[k] = <<>> /\ toClient' = toClient
        BY <2>6 DEF ServerCrash, ServerClose
      <3> QED BY <1>2, <2>1, <3>1, ConnStaysHonest
    <2> QED BY <1>1, <2>2, <2>3, <2>4, <2>5, <2>6 DEF ServerNext, Main
  <1>5. ASSUME NEW k \in Conns PROVE ProcessHonest(k)'
    BY <1>1, <1>2, ProcessStaysHonest DEF RegInv
  <1> QED BY <1>3, <1>4, <1>5 DEF RegInv, Dirs

(* What a process can get hold of, as long as all are honest.              *)
LEMMA HonestScope ==
  ASSUME NoApprovalInMemory, NEW p \in Conns
  PROVE  Scope(p, OwnRequest(p), HonestAnswer(p), OwnLine(Dir(p)))
  <1>1. Scope(p, Request, Response, Line)
    BY EverythingInScope
  <1>2. \A m \in Identified : m.code # "REGISTRATION"
    BY DEF Identified, PublicKeyRequest, SendFileRequest, ChunkPacket, CrcStatusRequest
  <1>3. Identified \subseteq OwnRequest(p)
    BY <1>1, <1>2 DEF Scope, OwnRequest
  <1>4. Memory \subseteq HonestAnswer(p) \cup {None}
    BY <1>1 DEF Scope, NoApprovalInMemory, HonestAnswer
  <1>5. Words \subseteq OwnLine(Dir(p))
    BY IdAssumption DEF OwnLine, Line, Words
  <1>6. ASSUME NEW u \in InfosOf[Dir(p)], HasName(u)
        PROVE  [code |-> "REGISTRATION", name |-> u.name] \in OwnRequest(p)
    <2>1. u.name \in NamesOf(Dir(p))
      BY <1>6 DEF NamesOf, HasName
    <2> QED BY <1>1, <1>6, <2>1 DEF Scope, OwnRequest
  <1>7. ASSUME NEW m \in HonestAnswer(p), m.code = "REGISTRATION_SUCCEEDED"
        PROVE  m.val \in OwnLine(Dir(p))
    BY <1>7, ResponseByCode DEF HonestAnswer, OwnLine, Line
  <1> QED BY <1>3, <1>4, <1>5, <1>6, <1>7 DEF Scope, OwnRequest, HonestAnswer, OwnLine

(* A client keeps the invariant.                                           *)
LEMMA ClientsRegInv ==
  ASSUME NoApprovalInMemory, TInv, RegInv, Clients
  PROVE  RegInv'
  <1>1. PICK p \in Conns : ClientNext(p, Listening)
    BY DEF Clients
  <1>2. /\ ClientOK(p) /\ ConnOK(p) /\ ProcessHonest(p) /\ ConnHonest(p)
        /\ Dir(p) \in Dirs /\ ChannelTypeOK /\ FilesTyped
        /\ cl \in [Conns -> Process] /\ meInfo \in [Dirs -> Seq(Line) \cup {None}]
        /\ fileContent \in [Conns -> Seq(Line)]
        /\ meInfo[Dir(p)] \in Seq(OwnLine(Dir(p))) \cup {None}
        /\ UNCHANGED <<clients, pc, req, out>>
    BY DEF TInv, FilesTyped, RegInv, IInv, TypeOK, Clients, Dir, Dirs, serverVars, threadVars,
           dbVars
  <1>3. KeepsClients
    BY <1>2 DEF KeepsClients
  <1>4. /\ FilesMove(p, OwnLine(Dir(p)))
        /\ \E d : Becomes(p, d, OwnRequest(p), HonestAnswer(p), OwnLine(Dir(p)))
    <2> DEFINE R == OwnRequest(p)
               A == HonestAnswer(p)
               T == OwnLine(Dir(p))
    <2>1. Scope(p, R, A, T)
      BY HonestScope
    <2>2. Given(p, A) /\ Within(cl[p], R, A, T)
      BY <1>2 DEF Given, ConnHonest, ConnOK, RegistersOnly, ProcessHonest, Within
    <2>3. FilesWithin(p, T)
      BY <1>2 DEF ProcessHonest, FilesWithin
    <2> HIDE DEF R, A, T
    <2>4. FilesMove(p, T) /\ \E d : Becomes(p, d, R, A, T)
      BY <1>1, <1>2, <2>1, <2>2, <2>3, ClientMoves
    <2> QED BY <2>4 DEF R, A, T
  <1>d. PICK d : Becomes(p, d, OwnRequest(p), HonestAnswer(p), OwnLine(Dir(p)))
    BY <1>4
  <1>5. /\ cl'[p] = d /\ Within(d, OwnRequest(p), HonestAnswer(p), OwnLine(Dir(p)))
        /\ \A k \in Conns : k # p => cl'[k] = cl[k]
    BY <1>2, <1>d DEF Becomes
  <1>6. /\ \A k : HonestAnswer(k)' = HonestAnswer(k)
        /\ \A e : OwnLine(e)' = OwnLine(e)
    BY <1>2 DEF HonestAnswer, OwnLine, Registered, NamesOf, Dir
  <1>7. /\ \A e \in Dirs : meInfo'[e] = meInfo[e] \/ meInfo'[e] \in Seq(OwnLine(e))
        /\ fileContent'[p] \in Seq(OwnLine(Dir(p)))
        /\ \A k \in Conns : k # p => fileContent'[k] = fileContent[k]
    BY <1>2, <1>4 DEF FilesMove
  <1>8. ASSUME NEW k \in Conns PROVE ProcessHonest(k)'
    <2>0. Dir(k) \in Dirs /\ ProcessHonest(k)
      BY DEF RegInv, Dir, Dirs
    <2>1. CASE k # p
      BY <1>3, <1>5, <1>7, <2>0, <2>1, ProcessStaysHonest
    <2>2. CASE k = p
      <3>1. d.id # None => d.id \in OwnLine(Dir(p))
        BY <1>5 DEF Within
      <3> QED BY <1>5, <1>6, <1>7, <2>2, <3>1
              DEF Within, ProcessHonest, OwnRequest, NamesOf, Dir, Registration
    <2> QED BY <2>1, <2>2
  <1>9. \/ UNCHANGED channelVars \/ Connect(p) \/ ClientRecv(p) \/ ClientClose(p)
        \/ WritePacket(p) /\ ClientSend(p, Head(cl[p].toSend))
    BY <1>1, ClientMakes
  <1>10. ASSUME NEW k \in Conns PROVE ConnHonest(k)'
    <2>0. ConnHonest(k)
      BY DEF RegInv
    <2>1. toServer'[k] \in Seq(OwnRequest(k))
      <3>1. CASE toServer' = toServer
        BY <2>0, <3>1 DEF ConnHonest
      <3>2. CASE WritePacket(p) /\ ClientSend(p, Head(cl[p].toSend))
        <4>1. cl[p].toSend \in Seq(OwnRequest(p)) /\ cl[p].toSend # <<>>
          BY <1>2, <3>2 DEF ProcessHonest, WritePacket, ClientOK, GoodProcess
        <4>2. Head(cl[p].toSend) \in OwnRequest(p)
          BY <4>1
        <4>3. /\ k # p => toServer'[k] = toServer[k]
              /\ toServer'[p] \in {toServer[p], Append(toServer[p], Head(cl[p].toSend))}
          BY <1>2, <3>2 DEF ClientSend, ChannelTypeOK
        <4>4. toServer[p] \in Seq(OwnRequest(p))
          BY <1>2 DEF ConnHonest
        <4>5. Append(toServer[p], Head(cl[p].toSend)) \in Seq(OwnRequest(p))
          BY <4>2, <4>4
        <4> QED BY <2>0, <4>3, <4>4, <4>5 DEF ConnHonest
      <3> QED BY <1>9, <3>1, <3>2 DEF Connect, ClientRecv, ClientClose, channelVars
    <2>2. toClient'[k] \in Seq(HonestAnswer(k))
      <3>1. \/ toClient'[k] \in {toClient[k], <<>>}
            \/ toClient[k] # <<>> /\ toClient'[k] = Tail(toClient[k])
        BY <1>2, <1>9 DEF Connect, ClientSend, ClientRecv, ClientClose, channelVars, ChannelTypeOK
      <3>2. toClient[k] \in Seq(HonestAnswer(k))
        BY <2>0 DEF ConnHonest
      <3>3. toClient[k] # <<>> => Tail(toClient[k]) \in Seq(HonestAnswer(k))
        BY <3>2
      <3> QED BY <3>1, <3>2, <3>3, EmptyIsSeq
    <2> QED BY <1>2, <1>6, <2>0, <2>1, <2>2 DEF ConnHonest, OwnRequest, NamesOf, Dir
  <1>11. ASSUME NEW e \in Dirs PROVE meInfo'[e] \in Seq(OwnLine(e)) \cup {None}
    BY <1>7 DEF RegInv
  <1> QED BY <1>6, <1>8, <1>10, <1>11 DEF RegInv, Dirs

(* Nobody has an id at the start.                                          *)
LEMMA InitRegInv == ASSUME Init PROVE RegInv
  <1>1. /\ \A k \in Conns : cl[k] = NewProcess
        /\ \A k \in Conns : fileContent[k] = <<>>
        /\ \A e \in Dirs : meInfo[e] = None
    BY DEF Init, ClientInit
  <1>2. ASSUME NEW k \in Conns PROVE ProcessHonest(k)
    <2>1. /\ cl[k].id = None /\ cl[k].buf = None /\ cl[k].queue = <<>>
          /\ cl[k].toSend = <<>> /\ cl[k].at = "off"
      BY <1>1 DEF NewProcess
    <2> QED BY <1>1, <2>1, EmptyIsSeq DEF ProcessHonest
  <1>3. ASSUME NEW k \in Conns PROVE ConnHonest(k)
    <2>1. /\ toServer[k] = <<>> /\ toClient[k] = <<>> /\ out[k] = <<>> /\ pc[k] = "none"
      BY DEF Init, ChannelInit, ServerInit
    <2> QED BY <2>1, EmptyIsSeq DEF ConnHonest
  <1> QED BY <1>1, <1>2, <1>3 DEF RegInv

LEMMA NextRegInv ==
  ASSUME NoApprovalInMemory, TInv, RegInv, [Next]_vars
  PROVE  RegInv'
  <1>1. CASE UNCHANGED vars
    <2>1. UNCHANGED <<channelVars, serverVars, clientVars>>
      BY <1>1 DEF vars
    <2> QED BY <2>1 DEF RegInv, ProcessHonest, ConnHonest, HonestAnswer, OwnLine, OwnRequest,
                       Registered, Registration, NamesOf, Dir, channelVars, serverVars,
                       threadVars, dbVars, clientVars, fileVars
  <1> QED BY <1>1, ServerRegInv, ClientsRegInv DEF Next

(* The client's registration agrees with the server's: an id a client has  *)
(* in memory or finds in its me.info is one addClient has committed, under *)
(* a name the user of that directory gave, whoever was killed or restarted *)
(* and whichever answers were lost or refused on the way.  It takes a      *)
(* buffer that does not happen to hold an approval before anything is read *)
(* into it: Run would believe that one.                                    *)
THEOREM RegistrationAgrees ==
  ASSUME NoApprovalInMemory
  PROVE  Spec => []IdsAreRegistered
  <1> DEFINE Inv == TInv /\ RegInv
  <1>1. Init => Inv
    BY InitTInv, InitRegInv
  <1>2. Inv /\ [Next]_vars => Inv'
    BY NextTInv, NextRegInv
  <1>3. Inv => IdsAreRegistered
    <2>1. ASSUME RegInv, NEW p \in Conns, cl[p].id # None, TInv
          PROVE  Registered(cl[p].id, Dir(p))
      BY <2>1 DEF RegInv, ProcessHonest, OwnLine, TInv, Process
    <2>2. ASSUME RegInv, NEW e \in Dirs, isRegistered(meInfo[e])
          PROVE  Registered(meInfo[e][2], e)
      <3>1. meInfo[e] \in Seq(OwnLine(e)) /\ Len(meInfo[e]) > 2 /\ meInfo[e][2] \in Ids
        BY <2>2 DEF RegInv, isRegistered
      <3>2. meInfo[e][2] \in OwnLine(e)
        BY <3>1
      <3> QED BY <3>1, <3>2 DEF OwnLine
    <2> QED BY <2>1, <2>2 DEF IdsAreRegistered, Registered
  <1> QED BY <1>1, <1>2, <1>3, PTL DEF Spec

-----------------------------------------------------------------------------
(* The refinement.                                                         *)

(* The server of Open is this one, operator by operator.                   *)
LEMMA SameServer == ASSUME ServerNext PROVE Open!ServerNext
  (* the wire contract: *)
  <1> USE DEF PACKET_SIZE, Open!PACKET_SIZE, CLIENT_ID_SIZE,
             Open!CLIENT_ID_SIZE, HEADER_SIZE, Open!HEADER_SIZE,
             FILE_NAME_SIZE, Open!FILE_NAME_SIZE, BLOCK_SIZE, Open!BLOCK_SIZE,
             ContentOffset, Open!ContentOffset, CipherSize, Open!CipherSize,
             HeadBytes, Open!HeadBytes, HeadUnpacks, Open!HeadUnpacks, Garbage,
             Open!Garbage, NullContent, Open!NullContent, Torn, Open!Torn, Crc,
             Open!Crc, Decrypt, Open!Decrypt, Reply, Open!Reply, Failed,
             Open!Failed
  (* the channel: *)
  <1> USE DEF channelVars, Open!channelVars, ServerRecv, Open!ServerRecv,
             ServerRecvEof, Open!ServerRecvEof, ServerReset, Open!ServerReset,
             ServerRecvRaises, Open!ServerRecvRaises, ServerSend,
             Open!ServerSend, ServerClose, Open!ServerClose
  (* the server's variables: *)
  <1> USE DEF loopVars, Open!loopVars, threadVars, Open!threadVars, dbVars,
             Open!dbVars, storeVars, Open!storeVars, limitVars, Open!limitVars,
             serverVars, Open!serverVars
  (* what its handlers are built from: *)
  <1> USE DEF Fails, Open!Fails, Works, Open!Works, Proceed, Open!Proceed,
             Answer, Open!Answer, Refuse, Open!Refuse, Dies, Open!Dies, Goes,
             Open!Goes, Touch, Open!Touch, ClientExists, Open!ClientExists,
             NameTaken, Open!NameTaken, RowOf, Open!RowOf, RowOfOther,
             Open!RowOfOther, NewClient, Open!NewClient, WithPublicKey,
             Open!WithPublicKey, FreshKeys, Open!FreshKeys, GetFile,
             Open!GetFile, NewFile, Open!NewFile, Saved, Open!Saved, Receives,
             Open!Receives
  (* its handlers: *)
  <1> USE DEF CheckName, Open!CheckName, AddClient, Open!AddClient,
             SetPublicKey, Open!SetPublicKey, SetSymmetricKey,
             Open!SetSymmetricKey, RecvFileHead, Open!RecvFileHead,
             RecvFileChunk, Open!RecvFileChunk, RecvFileRaises,
             Open!RecvFileRaises, StoreFile, Open!StoreFile, CommitFile,
             Open!CommitFile, CrcValid, Open!CrcValid, SaveFile, Open!SaveFile,
             MarkVarified, Open!MarkVarified, Resend, Open!Resend, Abort,
             Open!Abort, UnknownRequest, Open!UnknownRequest, Handle,
             Open!Handle
  (* its threads, and the rest: *)
  <1> USE DEF Write, Open!Write, WriteRaises, Open!WriteRaises, RecvEof,
             Open!RecvEof, RecvRaises, Open!RecvRaises, Release, Open!Release,
             Close, Open!Close, DropSocket, Open!DropSocket, Thread,
             Open!Thread, Listening, Open!Listening, StartServer,
             Open!StartServer, Accept, Open!Accept, StartSession,
             Open!StartSession, Main, Open!Main, ServerCrash, Open!ServerCrash,
             ServerNext, Open!ServerNext
  <1> QED OBVIOUS

(* So is the state it starts in.                                           *)
LEMMA SameInit == ASSUME Init PROVE Open!Init
  BY DEF Init, Open!Init, ChannelInit, Open!ChannelInit, ServerInit, Open!ServerInit

(* A request, by the code of one that clients send.                        *)
LEMMA RequestCodes ==
  ASSUME NEW m \in Request
  PROVE  m.code \in {"REGISTRATION", "PUBLIC_KEY", "SEND_FILE", "CHUNK", "CRC_VALID",
                     "CRC_RESEND", "CRC_ABORT"}
  BY DEF Request, RegistrationRequest, PublicKeyRequest, SendFileRequest, ChunkPacket,
         CrcStatusRequest

(* What the client of src/ does to its connection, an arbitrary client may.*)
LEMMA ClientsAreClients ==
  ASSUME TInv, Clients
  PROVE  Open!Env \/ UNCHANGED <<channelVars, serverVars>>
  <1> USE DEF channelVars, Open!channelVars, serverVars, Open!serverVars, loopVars,
              Open!loopVars, threadVars, Open!threadVars, dbVars, Open!dbVars, storeVars,
              Open!storeVars, limitVars, Open!limitVars
  <1>1. PICK p \in Conns : ClientNext(p, Listening)
    BY DEF Clients
  <1>2. UNCHANGED serverVars
    BY DEF Clients
  <1>3. CASE UNCHANGED channelVars
    BY <1>2, <1>3
  <1>4. CASE Listening /\ Connect(p)
    <2>1. Open!EnvConnect(p)
      BY <1>2, <1>4 DEF Open!EnvConnect, Listening, Open!Listening, Connect, Open!Connect
    <2> QED BY <2>1 DEF Open!Env
  <1>5. CASE WritePacket(p) /\ ClientSend(p, Head(cl[p].toSend))
    <2> DEFINE m == Head(cl[p].toSend)
    <2>1. m \in Request
      BY <1>5, WritesWhatItMay DEF TInv
    <2>2. ClientSend(p, m)
      BY <1>5
    <2> HIDE DEF m
    <2>3. Len(toServer[p]) + Len(toClient[p]) \in Nat
      <3>1. toServer[p] \in Seq(Request) /\ toClient[p] \in Seq(Response)
        BY DEF TInv, IInv, TypeOK, ChannelTypeOK
      <3>2. Len(toServer[p]) \in Nat
        BY <3>1
      <3>3. Len(toClient[p]) \in Nat
        BY <3>1
      <3>4. \A a, b \in Nat : a + b \in Nat
        OBVIOUS
      <3> QED BY <3>2, <3>3, <3>4
    <2>4. m \in Open!Request
      BY <2>1 DEF Request, Open!Request, RegistrationRequest, Open!RegistrationRequest,
         PublicKeyRequest, Open!PublicKeyRequest, SendFileRequest, Open!SendFileRequest,
         ChunkPacket, Open!ChunkPacket, CrcStatusRequest, Open!CrcStatusRequest,
         Contents, Open!Contents, Padded, Open!Padded, PaddedSize, Open!PaddedSize,
         BLOCK_SIZE, Open!BLOCK_SIZE, NoBytes, Open!NoBytes
    <2>5. Open!ClientSend(p, m)
      BY <2>2 DEF ClientSend, Open!ClientSend
    <2>6. Open!EnvSend(p)
      BY <1>2, <2>1, <2>3, <2>4, <2>5, RequestCodes DEF Open!EnvSend
    <2> QED BY <2>6 DEF Open!Env
  <1>6. CASE ClientRecv(p)
    <2>1. Open!EnvRead(p)
      BY <1>2, <1>6 DEF Open!EnvRead, ClientRecv, Open!ClientRecv
    <2> QED BY <2>1 DEF Open!Env
  <1>7. CASE ClientClose(p)
    <2>1. Open!EnvClose(p)
      BY <1>2, <1>7 DEF Open!EnvClose, ClientClose, Open!ClientClose
    <2> QED BY <2>1 DEF Open!Env
  <1> QED BY <1>1, <1>3, <1>4, <1>5, <1>6, <1>7, ClientMakes

(* The server among the clients of src/ is the server among arbitrary ones:*)
(* every step of either program is a step of OpenServer or invisible there,*)
(* so what OpenServerProofs and UploadProofs prove of it, mutual exclusion,*)
(* the accounting of the lock, permanence and uniqueness of registrations, *)
(* holds in the whole system.                                              *)
THEOREM RefinesOpenServer == Spec => OpenSpec
  <1>1. Init => Open!Init
    BY SameInit
  <1>2. TInv /\ [Next]_vars => [Open!Next]_(Open!vars)
    <2>1. ASSUME TInv, Server PROVE Open!Next
      BY <2>1, SameServer DEF Server, Open!Next
    <2>2. UNCHANGED <<channelVars, serverVars>> => UNCHANGED Open!vars
      BY DEF Open!vars, channelVars, Open!channelVars, serverVars, Open!serverVars, loopVars,
             Open!loopVars, threadVars, Open!threadVars, dbVars, Open!dbVars, storeVars,
             Open!storeVars, limitVars, Open!limitVars
    <2>3. ASSUME TInv, Clients PROVE Open!Next \/ UNCHANGED Open!vars
      BY <2>2, <2>3, ClientsAreClients DEF Open!Next
    <2>4. UNCHANGED vars => UNCHANGED Open!vars
      BY <2>2 DEF vars
    <2> QED BY <2>1, <2>3, <2>4 DEF Next
  <1> QED BY <1>1, <1>2, WholeInvariance, PTL DEF Spec, OpenSpec, Open!Spec
=============================================================================
