----------------------------- MODULE ServerProofs -----------------------------
(***************************************************************************)
(* What the steps of the server do, whoever its clients are: they keep its *)
(* types, at most one thread is inside a session, and each leaves the rows *)
(* of the tables to whom they belong.  For any number of connections,      *)
(* clients, names, files and keys, any crashes and failing statements.     *)
(***************************************************************************)
EXTENDS TcpServer, TLAPS

-----------------------------------------------------------------------------
(* Facts about the messages.                                               *)

(* A response with a value its code goes with is one of the contract's.    *)
LEMMA ReplyType ==
  /\ \A i \in Ids : Reply("REGISTRATION_SUCCEEDED", i) \in Response
  /\ \A key \in Keys : Reply("PUBLIC_KEY_RECEIVED", key) \in Response
  /\ \A c \in Contents \cup {Garbage, None} : Reply("MSG_RECEIVED_CRC", c) \in Response
  /\ Reply("MSG_RECEIVED", None) \in Response
  BY DEF Reply, Response

(* So is the refusal every failing handler ends with.                      *)
LEMMA FailedType == Failed \in Response
  BY DEF Failed, Reply, Response

(* A padded file has a whole, non-negative size.                           *)
LEMMA PaddedSizeType == ASSUME NEW n \in Nat PROVE PaddedSize(n) \in Nat
  BY DEF PaddedSize, BLOCK_SIZE

(* Every body a client uploads has a size.                                 *)
LEMMA ContentSize == ASSUME NEW c \in Contents PROVE c.size \in Nat
  <1>1. CASE c = NoBytes
    BY <1>1 DEF NoBytes
  <1>2. CASE c # NoBytes
    <2>1. PICK f \in Files : c = Padded(f)
      BY <1>2 DEF Contents
    <2>2. SizeOf[f] \in Nat
      BY SizeAssumption
    <2> QED BY <2>1, <2>2, PaddedSizeType DEF Padded
  <1> QED BY <1>1, <1>2

(* RequestToSendFile.unpack never takes more than there is: what is left of*)
(* an upload after its head packet is not negative.                        *)
LEMMA HeadTakesNoMore ==
  ASSUME NEW n \in Nat PROVE CipherSize(n) - HeadBytes(CipherSize(n)) \in Nat
  BY DEF CipherSize, HeadBytes, BLOCK_SIZE, PACKET_SIZE, ContentOffset,
         CLIENT_ID_SIZE, HEADER_SIZE, FILE_NAME_SIZE

(* Decrypting yields a body, garbage, or no content at all.                *)
LEMMA DecryptType ==
  ASSUME NEW m \in Uploading, NEW key
  PROVE  Decrypt(key, m) \in Contents \cup {Garbage, NullContent}
  BY DEF Decrypt, Uploading, SendFileRequest

(* A checksum can be put into a response.                                  *)
LEMMA CrcType ==
  ASSUME NEW c \in Contents \cup {Garbage}
  PROVE  Crc(c) \in Contents \cup {Garbage, None}
  BY DEF Crc

-----------------------------------------------------------------------------
(* The channel keeps its types whatever either side calls.                 *)

(* The calls of a client.                                                  *)
LEMMA ClientCalls ==
  ASSUME ChannelTypeOK, NEW k \in Conns, NEW m \in Request,
         Connect(k) \/ ClientSend(k, m) \/ ClientRecv(k) \/ ClientClose(k)
  PROVE  ChannelTypeOK'
  <1> USE DEF ChannelTypeOK, EndState
  <1>1. CASE Connect(k)
    BY <1>1 DEF Connect
  <1>2. CASE ClientSend(k, m)
    <2>1. Append(toServer[k], m) \in Seq(Request)
      OBVIOUS
    <2>2. CASE srvEnd[k] = "open"
      <3>1. toServer' = [toServer EXCEPT ![k] = Append(toServer[k], m)]
        BY <1>2, <2>2 DEF ClientSend
      <3> QED BY <1>2, <2>1, <2>2, <3>1 DEF ClientSend
    <2>3. CASE srvEnd[k] # "open"
      BY <1>2, <2>3 DEF ClientSend
    <2> QED BY <2>2, <2>3
  <1>3. CASE ClientRecv(k)
    <2>1. Tail(toClient[k]) \in Seq(Response)
      BY <1>3 DEF ClientRecv
    <2> QED BY <1>3, <2>1 DEF ClientRecv
  <1>4. CASE ClientClose(k)
    BY <1>4 DEF ClientClose
  <1> QED BY <1>1, <1>2, <1>3, <1>4

(* The server receives the head of what the client sent.                   *)
LEMMA RecvType ==
  ASSUME ChannelTypeOK, NEW k \in Conns, NEW m, ServerRecv(k, m)
  PROVE  ChannelTypeOK' /\ m \in Request
  <1>1. toServer[k] \in Seq(Request) /\ toServer[k] # <<>>
    BY DEF ChannelTypeOK, ServerRecv
  <1>2. Head(toServer[k]) \in Request /\ Tail(toServer[k]) \in Seq(Request)
    BY <1>1
  <1> QED BY <1>2 DEF ChannelTypeOK, ServerRecv

(* A reset that reaches the server is only noted.                          *)
LEMMA ResetType ==
  ASSUME ChannelTypeOK, NEW k \in Conns, ServerReset(k)
  PROVE  ChannelTypeOK'
  BY DEF ChannelTypeOK, ServerReset

(* The server sends a response.                                            *)
LEMMA SendType ==
  ASSUME ChannelTypeOK, NEW k \in Conns, NEW m \in Response, ServerSend(k, m)
  PROVE  ChannelTypeOK'
  <1> USE DEF ChannelTypeOK
  <1>1. Append(toClient[k], m) \in Seq(Response)
    OBVIOUS
  <1>2. CASE cliEnd[k] = "open"
    <2>1. toClient' = [toClient EXCEPT ![k] = Append(toClient[k], m)]
      BY <1>2 DEF ServerSend
    <2> QED BY <1>1, <1>2, <2>1 DEF ServerSend
  <1>3. CASE cliEnd[k] # "open"
    BY <1>3 DEF ServerSend
  <1> QED BY <1>2, <1>3

(* The server closes its ends of some connections.                         *)
LEMMA CloseType ==
  ASSUME ChannelTypeOK, NEW S \in SUBSET Conns, ServerClose(S), backlog' \in Seq(Conns)
  PROVE  ChannelTypeOK'
  BY DEF ChannelTypeOK, ServerClose, EndState

-----------------------------------------------------------------------------
(* How a thread goes on.                                                   *)

(* Whoever is in a session has the lock, and is alone.                     *)
LEMMA InSession ==
  ASSUME IInv, NEW k \in Conns, pc[k] \in Holding
  PROVE  lock = "held" /\ \A j \in Conns : j # k => pc[j] \notin Holding
  BY DEF IInv, OneSession, LockAccounted

(* A step from one place in a session to another leaves the lock with the  *)
(* thread, and asks only of this thread that its request suits the place.  *)
LEMMA StaysInSession ==
  ASSUME IInv, NEW k \in Conns, pc[k] \in Holding, UNCHANGED loopVars,
         NEW p \in Holding, pc' = [pc EXCEPT ![k] = p], HandlerOK(k)'
  PROVE  MainOK' /\ OneSession' /\ LockAccounted' /\ \A j \in Conns : HandlerOK(j)'
  <1>1. pc \in [Conns -> ThreadState]
    BY DEF IInv, TypeOK, ThreadTypeOK
  <1>2. lock = "held" /\ \A j \in Conns : j # k => pc[j] \notin Holding
    BY InSession
  <1>3. pc'[k] = p /\ \A j \in Conns : j # k => pc'[j] \notin Holding
    BY <1>1, <1>2
  <1>4. MainOK'
    BY DEF IInv, MainOK, loopVars
  <1>5. OneSession' /\ LockAccounted'
    BY <1>2, <1>3 DEF OneSession, LockAccounted, loopVars
  <1>6. ASSUME NEW j \in Conns PROVE HandlerOK(j)'
    BY <1>3 DEF HandlerOK, Holding
  <1> QED BY <1>4, <1>5, <1>6

(* Proceed keeps the threads' variables typed.                             *)
LEMMA ProceedType ==
  ASSUME ThreadTypeOK, UNCHANGED loopVars, NEW k \in Conns, NEW p \in ThreadState,
         NEW r \in Request \cup Uploading \cup {None}, NEW n \in Nat, Proceed(k, p, r, n)
  PROVE  ThreadTypeOK'
  BY DEF ThreadTypeOK, Proceed, loopVars

(* So does Answer.                                                         *)
LEMMA AnswerType ==
  ASSUME ThreadTypeOK, UNCHANGED loopVars, NEW k \in Conns,
         NEW r \in Request \cup Uploading \cup {None}, NEW rs \in Seq(Response),
         Answer(k, r, rs)
  PROVE  ThreadTypeOK'
  BY DEF ThreadTypeOK, Answer, loopVars, ThreadState, Holding

(* A handler that goes on to its next step, with a request that suits it.  *)
LEMMA ProceedStep ==
  ASSUME IInv, NEW k \in Conns, pc[k] \in Holding, UNCHANGED loopVars,
         NEW p \in Holding, NEW r \in Request \cup Uploading \cup {None}, NEW n \in Nat,
         Proceed(k, p, r, n), HandlerOK(k)', ChannelTypeOK', StoreTypeOK'
  PROVE  IInv'
  <1>1. ThreadTypeOK'
    BY ProceedType DEF IInv, TypeOK, ThreadState
  <1>2. MainOK' /\ OneSession' /\ LockAccounted' /\ \A j \in Conns : HandlerOK(j)'
    BY StaysInSession DEF Proceed
  <1> QED BY <1>1, <1>2 DEF IInv, TypeOK

(* A handler that goes on to write its responses.                          *)
LEMMA AnswerStep ==
  ASSUME IInv, NEW k \in Conns, pc[k] \in Holding, UNCHANGED loopVars,
         NEW r \in Request \cup Uploading \cup {None},
         NEW rs \in Seq(Response), rs # <<>>, Answer(k, r, rs),
         ChannelTypeOK', StoreTypeOK'
  PROVE  IInv'
  <1>1. ThreadTypeOK'
    BY AnswerType DEF IInv, TypeOK
  <1>2. pc \in [Conns -> ThreadState] /\ out \in [Conns -> Seq(Response)]
    BY DEF IInv, TypeOK, ThreadTypeOK
  <1>3. pc'[k] = "write" /\ out'[k] = rs
    BY <1>2 DEF Answer
  <1>4. HandlerOK(k)'
    BY <1>3 DEF HandlerOK
  <1>5. "write" \in Holding
    BY DEF Holding
  <1>6. MainOK' /\ OneSession' /\ LockAccounted' /\ \A j \in Conns : HandlerOK(j)'
    BY <1>4, <1>5, StaysInSession DEF Answer
  <1> QED BY <1>1, <1>6 DEF IInv, TypeOK

(* A handler that refuses the request.                                     *)
LEMMA RefuseStep ==
  ASSUME IInv, NEW k \in Conns, pc[k] \in Holding, UNCHANGED loopVars,
         Refuse(k), ChannelTypeOK', StoreTypeOK'
  PROVE  IInv'
  <1>1. <<Failed, Failed>> \in Seq(Response) /\ <<Failed, Failed>> # <<>>
    BY FailedType
  <1> QED BY <1>1, AnswerStep DEF Refuse

(* A handler that ends with one response.                                  *)
LEMMA ReplyStep ==
  ASSUME IInv, NEW k \in Conns, pc[k] \in Holding, UNCHANGED loopVars,
         NEW r \in Request \cup Uploading \cup {None}, NEW m \in Response,
         Answer(k, r, <<m>>), ChannelTypeOK', StoreTypeOK'
  PROVE  IInv'
  <1>1. <<m>> \in Seq(Response) /\ <<m>> # <<>>
    OBVIOUS
  <1> QED BY <1>1, AnswerStep

(* A handler that ends with an exception.                                  *)
LEMMA DiesStep ==
  ASSUME IInv, NEW k \in Conns, pc[k] \in Holding, UNCHANGED loopVars,
         Dies(k), ChannelTypeOK', StoreTypeOK'
  PROVE  IInv'
  <1>1. pc'[k] = "dead"
    BY DEF Dies, Proceed, IInv, TypeOK, ThreadTypeOK
  <1>2. HandlerOK(k)'
    BY <1>1 DEF HandlerOK
  <1> QED BY <1>2, ProceedStep DEF Dies, Holding

(* The two ways a statement ends leave the bounds' counters typed.         *)
LEMMA LimitType ==
  ASSUME StoreTypeOK, NEW kind, Works \/ Fails(kind)
  PROVE  faults' \in Nat /\ crashes' \in Nat
  BY DEF StoreTypeOK, Works, Fails, limitVars

(* touch() changes rows, not which rows there are.                         *)
LEMMA TouchType ==
  ASSUME clients \in [Ids -> Client \cup {None}], NEW i \in Ids
  PROVE  /\ Touch(clients, i) \in [Ids -> Client \cup {None}]
         /\ \A j \in Ids : clients[j] # None => Touch(clients, i)[j] \in Client
         /\ \A j \in Ids : clients[j] = None => Touch(clients, i)[j] = None
  BY DEF Touch, Client

(* The code of a request tells which request it is.                        *)
LEMMA RequestByCode ==
  ASSUME NEW m \in Request
  PROVE  /\ m.code = "REGISTRATION" => m \in RegistrationRequest
         /\ m.code = "PUBLIC_KEY" => m \in PublicKeyRequest
         /\ m.code = "SEND_FILE" => m \in SendFileRequest
         /\ m.code \in {"CRC_VALID", "CRC_RESEND", "CRC_ABORT"} => m \in CrcStatusRequest
  BY DEF Request, RegistrationRequest, PublicKeyRequest, SendFileRequest,
         ChunkPacket, CrcStatusRequest

-----------------------------------------------------------------------------
(* The handlers, one lemma each: what a handler does keeps the invariant.  *)

(* What every handler that starts with a packet knows.                     *)
LEMMA ReceivesFacts ==
  ASSUME IInv, NEW k \in Conns, NEW m, NEW codes, Receives(k, m, codes)
  PROVE  /\ pc[k] \in Holding /\ m \in Request /\ m.code \in codes
         /\ UNCHANGED loopVars /\ ChannelTypeOK'
  BY RecvType DEF Receives, IInv, TypeOK, Holding

(* Registration, up to the check of the name.                              *)
LEMMA CheckNameStep ==
  ASSUME IInv, NEW k \in Conns, NEW m, CheckName(k, m)
  PROVE  IInv'
  <1>1. /\ pc[k] \in Holding /\ m \in Request /\ m.code = "REGISTRATION"
        /\ UNCHANGED loopVars /\ ChannelTypeOK'
    BY ReceivesFacts DEF CheckName
  <1>2. StoreTypeOK'
    <2>1. faults' \in Nat /\ crashes' \in Nat
      BY LimitType DEF CheckName, IInv, TypeOK
    <2> QED BY <2>1 DEF CheckName, IInv, TypeOK, StoreTypeOK, dbVars, storeVars
  <1>3. CASE Proceed(k, "addClient", m, 0)
    <2>1. pc'[k] = "addClient" /\ req'[k] = m
      BY <1>3 DEF Proceed, IInv, TypeOK, ThreadTypeOK
    <2>2. HandlerOK(k)'
      BY <1>1, <2>1, RequestByCode DEF HandlerOK
    <2> QED BY <1>1, <1>2, <1>3, <2>2, ProceedStep DEF Holding
  <1>4. CASE Refuse(k)
    BY <1>1, <1>2, <1>4, RefuseStep
  <1> QED BY <1>3, <1>4 DEF CheckName

(* The INSERT of a registration.                                           *)
LEMMA AddClientStep ==
  ASSUME IInv, NEW k \in Conns, AddClient(k)
  PROVE  IInv'
  <1>1. /\ pc[k] \in Holding /\ UNCHANGED loopVars
        /\ req[k] \in RegistrationRequest
    BY DEF AddClient, Holding, IInv, HandlerOK
  <1>2. ChannelTypeOK' /\ StoreTypeOK
    BY DEF AddClient, IInv, TypeOK, ChannelTypeOK, channelVars
  <1>3. CASE Fails("commit") /\ Refuse(k) /\ UNCHANGED clients
    <2>1. faults' \in Nat /\ crashes' \in Nat
      BY <1>2, <1>3, LimitType
    <2>2. StoreTypeOK'
      BY <1>2, <1>3, <2>1 DEF AddClient, StoreTypeOK, storeVars
    <2> QED BY <1>1, <1>2, <1>3, <2>2, RefuseStep
  <1>4. ASSUME NEW i \in Ids, Works,
               clients' = [clients EXCEPT ![i] =
                 [name |-> req[k].name, hasKey |-> FALSE, aesKey |-> None, seen |-> i]],
               Answer(k, req[k], <<Reply("REGISTRATION_SUCCEEDED", i)>>)
        PROVE  IInv'
    <2>1. faults' \in Nat /\ crashes' \in Nat
      BY <1>2, <1>4, LimitType
    <2>2. [name |-> req[k].name, hasKey |-> FALSE, aesKey |-> None, seen |-> i] \in Client
      BY <1>1 DEF RegistrationRequest, Client
    <2>3. StoreTypeOK'
      BY <1>2, <1>4, <2>1, <2>2 DEF AddClient, StoreTypeOK, storeVars
    <2>4. Reply("REGISTRATION_SUCCEEDED", i) \in Response
      BY ReplyType
    <2>5. req[k] \in Request
      BY <1>1 DEF Request
    <2> QED BY <1>1, <1>2, <1>4, <2>3, <2>4, <2>5, ReplyStep
  <1> QED BY <1>3, <1>4 DEF AddClient, ClientExists, NewClient

(* The client's public key.                                                *)
LEMMA SetPublicKeyStep ==
  ASSUME IInv, NEW k \in Conns, NEW m, SetPublicKey(k, m)
  PROVE  IInv'
  <1>1. /\ pc[k] \in Holding /\ m \in Request /\ m.code = "PUBLIC_KEY"
        /\ UNCHANGED loopVars /\ ChannelTypeOK'
    BY ReceivesFacts DEF SetPublicKey
  <1>2. faults' \in Nat /\ crashes' \in Nat
    BY LimitType DEF SetPublicKey, IInv, TypeOK
  <1>3. m \in PublicKeyRequest /\ m.id \in Ids
    BY <1>1, RequestByCode DEF PublicKeyRequest
  <1>4. StoreTypeOK
    BY DEF IInv, TypeOK
  <1>5. CASE Refuse(k) /\ (UNCHANGED clients \/ clients' = Touch(clients, m.id))
    <2>1. clients' \in [Ids -> Client \cup {None}]
      BY <1>3, <1>4, <1>5, TouchType DEF StoreTypeOK
    <2>2. StoreTypeOK'
      BY <1>2, <1>4, <2>1 DEF SetPublicKey, StoreTypeOK, storeVars
    <2> QED BY <1>1, <1>5, <2>2, RefuseStep
  <1>6. CASE /\ clients[m.id] # None
             /\ clients' = [Touch(clients, m.id) EXCEPT ![m.id].hasKey = TRUE]
             /\ Proceed(k, "setSymKey", m, 0)
    <2>1. /\ Touch(clients, m.id) \in [Ids -> Client \cup {None}]
          /\ Touch(clients, m.id)[m.id] \in Client
      BY <1>3, <1>4, <1>6, TouchType DEF StoreTypeOK
    <2>2. /\ clients' \in [Ids -> Client \cup {None}]
          /\ clients'[m.id] = [Touch(clients, m.id)[m.id] EXCEPT !.hasKey = TRUE]
      BY <1>3, <1>6, <2>1 DEF Client
    <2>3. clients'[m.id].hasKey = TRUE /\ clients'[m.id] \in Client
      BY <2>1, <2>2 DEF Client
    <2>4. StoreTypeOK'
      BY <1>2, <1>4, <2>2 DEF SetPublicKey, StoreTypeOK, storeVars
    <2>5. pc'[k] = "setSymKey" /\ req'[k] = m
      BY <1>6 DEF Proceed, IInv, TypeOK, ThreadTypeOK
    <2>6. HandlerOK(k)'
      BY <1>3, <2>3, <2>5, NoneAssumption DEF HandlerOK
    <2> QED BY <1>1, <1>6, <2>4, <2>6, ProceedStep DEF Holding
  <1> QED BY <1>5, <1>6 DEF SetPublicKey, ClientExists, WithPublicKey

(* The session key.                                                        *)
LEMMA SetSymmetricKeyStep ==
  ASSUME IInv, NEW k \in Conns, SetSymmetricKey(k)
  PROVE  IInv'
  <1>1. /\ pc[k] \in Holding /\ UNCHANGED loopVars
        /\ req[k] \in PublicKeyRequest /\ clients[req[k].id] # None
    BY DEF SetSymmetricKey, Holding, IInv, HandlerOK
  <1>2. ChannelTypeOK' /\ StoreTypeOK
    BY DEF SetSymmetricKey, IInv, TypeOK, ChannelTypeOK, channelVars
  <1>3. req[k].id \in Ids /\ req[k] \in Request
    BY <1>1 DEF PublicKeyRequest, Request
  <1>4. CASE Fails("commit") /\ Answer(k, None, <<Failed>>) /\ UNCHANGED <<clients, drawn>>
    <2>1. faults' \in Nat /\ crashes' \in Nat
      BY <1>2, <1>4, LimitType
    <2>2. StoreTypeOK'
      BY <1>2, <1>4, <2>1 DEF SetSymmetricKey, StoreTypeOK, storeVars
    <2> QED BY <1>1, <1>2, <1>4, <2>2, ReplyStep, FailedType
  <1>5. ASSUME NEW key \in Keys \ drawn, Works, drawn' = drawn \cup {key},
               clients' = [clients EXCEPT ![req[k].id].aesKey = key],
               \/ Answer(k, req[k], <<Reply("PUBLIC_KEY_RECEIVED", key)>>)
               \/ Dies(k)
        PROVE  IInv'
    <2>1. faults' \in Nat /\ crashes' \in Nat
      BY <1>2, <1>5, LimitType
    <2>2. clients[req[k].id] \in Client
      BY <1>1, <1>2, <1>3 DEF StoreTypeOK
    <2>3. [clients[req[k].id] EXCEPT !.aesKey = key] \in Client
      BY <2>2 DEF Client
    <2>4. StoreTypeOK'
      BY <1>2, <1>5, <2>1, <2>3 DEF SetSymmetricKey, StoreTypeOK, storeVars
    <2>5. Reply("PUBLIC_KEY_RECEIVED", key) \in Response
      BY ReplyType
    <2> QED BY <1>1, <1>2, <1>3, <1>5, <2>4, <2>5, ReplyStep, DiesStep
  <1> QED BY <1>4, <1>5 DEF SetSymmetricKey, FreshKeys

(* The head packet of an upload.                                           *)
LEMMA RecvFileHeadStep ==
  ASSUME IInv, NEW k \in Conns, NEW m, RecvFileHead(k, m)
  PROVE  IInv'
  <1> DEFINE enc == CipherSize(m.data.size)
             rest == enc - HeadBytes(enc)
  <1>1. /\ pc[k] \in Holding /\ m \in Request /\ m.code = "SEND_FILE"
        /\ UNCHANGED loopVars /\ ChannelTypeOK'
    BY ReceivesFacts DEF RecvFileHead
  <1>2. StoreTypeOK'
    BY DEF RecvFileHead, IInv, TypeOK, StoreTypeOK, dbVars, storeVars, limitVars
  <1>3. m \in SendFileRequest /\ m \in Uploading
    BY <1>1, RequestByCode DEF Uploading
  <1>4. rest \in Nat
    BY <1>3, ContentSize, HeadTakesNoMore DEF SendFileRequest
  <1>5. CASE Refuse(k)
    BY <1>1, <1>2, <1>5, RefuseStep
  <1>6. ASSUME NEW p \in {"file", "decrypt"}, Proceed(k, p, m, rest)
        PROVE  IInv'
    <2>1. pc'[k] = p /\ req'[k] = m
      BY <1>6 DEF Proceed, IInv, TypeOK, ThreadTypeOK
    <2>2. HandlerOK(k)'
      BY <1>3, <1>6, <2>1 DEF HandlerOK
    <2>3. p \in Holding
      BY <1>6 DEF Holding
    <2> HIDE DEF rest
    <2> QED BY <1>1, <1>2, <1>4, <1>6, <2>2, <2>3, ProceedStep
  <1>7. \/ Refuse(k)
        \/ \E p \in {"file", "decrypt"} : Proceed(k, p, m, rest)
    BY DEF RecvFileHead
  <1> QED BY <1>5, <1>6, <1>7

(* A further packet of an upload.                                          *)
LEMMA RecvFileChunkStep ==
  ASSUME IInv, NEW k \in Conns, RecvFileChunk(k)
  PROVE  IInv'
  <1> DEFINE m == Head(toServer[k])
             data == IF m.code = "CHUNK" THEN req[k].data ELSE Garbage
             r == [req[k] EXCEPT !.data = data]
             rest == IF left[k] > PACKET_SIZE THEN left[k] - PACKET_SIZE ELSE 0
  <1>1. pc[k] \in Holding /\ UNCHANGED loopVars /\ req[k] \in Uploading
    BY DEF RecvFileChunk, Holding, IInv, HandlerOK
  <1>2. ChannelTypeOK'
    BY RecvType DEF RecvFileChunk, IInv, TypeOK
  <1>3. StoreTypeOK'
    BY DEF RecvFileChunk, IInv, TypeOK, StoreTypeOK, dbVars, storeVars, limitVars
  <1>4. r \in Uploading
    BY <1>1 DEF Uploading, SendFileRequest
  <1>5. rest \in Nat
    BY DEF IInv, TypeOK, ThreadTypeOK, PACKET_SIZE
  <1>6. PICK p \in {"file", "decrypt"} : Proceed(k, p, r, rest)
    BY DEF RecvFileChunk
  <1>7. pc'[k] = p /\ req'[k] = r
    BY <1>6 DEF Proceed, IInv, TypeOK, ThreadTypeOK
  <1> HIDE DEF r, rest
  <1>8. HandlerOK(k)'
    BY <1>4, <1>7 DEF HandlerOK
  <1>9. p \in Holding
    BY DEF Holding
  <1> QED BY <1>1, <1>2, <1>3, <1>4, <1>5, <1>6, <1>8, <1>9, ProceedStep

(* An upload cut off by a reset.                                           *)
LEMMA RecvFileRaisesStep ==
  ASSUME IInv, NEW k \in Conns, RecvFileRaises(k)
  PROVE  IInv'
  <1>1. pc[k] \in Holding /\ UNCHANGED loopVars /\ Refuse(k)
    BY DEF RecvFileRaises, Holding
  <1>2. ChannelTypeOK'
    BY ResetType DEF RecvFileRaises, ServerRecvRaises, IInv, TypeOK
  <1>3. StoreTypeOK'
    BY DEF RecvFileRaises, IInv, TypeOK, StoreTypeOK, dbVars, storeVars, limitVars
  <1> QED BY <1>1, <1>2, <1>3, RefuseStep

(* Decryption, and the new content in fileDict.                            *)
LEMMA StoreFileStep ==
  ASSUME IInv, NEW k \in Conns, StoreFile(k)
  PROVE  IInv'
  <1> DEFINE i == req[k].id
             f == req[k].file
             content == Decrypt(clients[i].aesKey, req[k])
  <1>1. pc[k] \in Holding /\ UNCHANGED loopVars /\ req[k] \in Uploading
    BY DEF StoreFile, Holding, IInv, HandlerOK
  <1>2. ChannelTypeOK' /\ StoreTypeOK
    BY DEF StoreFile, IInv, TypeOK, ChannelTypeOK, channelVars
  <1>3. i \in Ids /\ f \in FileNames
    BY <1>1 DEF Uploading, SendFileRequest
  <1>4. faults' \in Nat /\ crashes' \in Nat
    BY <1>2, LimitType DEF StoreFile
  <1>5. CASE UNCHANGED fileDict /\ (Refuse(k) \/ Dies(k))
    <2>1. StoreTypeOK'
      BY <1>2, <1>4, <1>5 DEF StoreFile, StoreTypeOK, dbVars
    <2> QED BY <1>1, <1>2, <1>5, <2>1, RefuseStep, DiesStep
  <1>6. CASE /\ fileDict' = [fileDict EXCEPT ![<<i, f>>] = content]
             /\ IF content = NullContent
                  THEN Answer(k, req[k], <<Reply("MSG_RECEIVED_CRC", None)>>)
                  ELSE Goes(k, "commitFile")
    <2>1. content \in Contents \cup {Garbage, NullContent}
      BY <1>1, DecryptType
    <2>2. <<i, f>> \in Ids \X FileNames
      BY <1>3
    <2> HIDE DEF content, i, f
    <2>3. fileDict' \in [Ids \X FileNames -> Stored] /\ fileDict'[<<i, f>>] = content
      BY <1>2, <1>6, <2>1, <2>2 DEF StoreTypeOK, Stored
    <2>4. StoreTypeOK'
      BY <1>2, <1>4, <2>3 DEF StoreFile, StoreTypeOK, dbVars
    <2>5. CASE content = NullContent
      <3>1. Reply("MSG_RECEIVED_CRC", None) \in Response
        BY ReplyType
      <3> QED BY <1>1, <1>2, <1>6, <2>4, <2>5, <3>1, ReplyStep
    <2>6. CASE content # NullContent
      <3>1. /\ Goes(k, "commitFile") /\ pc'[k] = "commitFile" /\ req'[k] = req[k]
            /\ left[k] \in Nat
        BY <1>6, <2>6 DEF Goes, Proceed, IInv, TypeOK, ThreadTypeOK
      <3>2. fileDict'[<<req[k].id, req[k].file>>] \in Contents \cup {Garbage}
        BY <2>1, <2>3, <2>6 DEF i, f
      <3>3. HandlerOK(k)'
        BY <1>1, <3>1, <3>2 DEF HandlerOK
      <3> QED BY <1>1, <1>2, <2>4, <3>1, <3>3, ProceedStep DEF Goes, Holding
    <2> QED BY <2>5, <2>6
  <1> QED BY <1>5, <1>6 DEF StoreFile, ClientExists, NewFile

(* The row of an uploaded file.                                            *)
LEMMA CommitFileStep ==
  ASSUME IInv, NEW k \in Conns, CommitFile(k)
  PROVE  IInv'
  <1> DEFINE i == req[k].id
             f == req[k].file
  <1>1. /\ pc[k] \in Holding /\ UNCHANGED loopVars /\ req[k] \in Uploading
        /\ fileDict[<<i, f>>] \in Contents \cup {Garbage}
    BY DEF CommitFile, Holding, IInv, HandlerOK
  <1>2. ChannelTypeOK' /\ StoreTypeOK
    BY DEF CommitFile, IInv, TypeOK, ChannelTypeOK, channelVars
  <1>3. i \in Ids /\ f \in FileNames
    BY <1>1 DEF Uploading, SendFileRequest
  <1>4. faults' \in Nat /\ crashes' \in Nat
    BY <1>2, LimitType DEF CommitFile
  <1>5. /\ Reply("MSG_RECEIVED_CRC", None) \in Response
        /\ Reply("MSG_RECEIVED_CRC", Crc(fileDict[<<i, f>>])) \in Response
    BY <1>1, ReplyType, CrcType
  <1>6. CASE /\ files' = [files EXCEPT ![f] = [owner |-> i, varified |-> FALSE]]
             /\ clients' = Touch(clients, i)
             /\ Answer(k, req[k], <<Reply("MSG_RECEIVED_CRC", Crc(fileDict[<<i, f>>]))>>)
    <2>1. [owner |-> i, varified |-> FALSE] \in FileRow
      BY <1>3 DEF FileRow
    <2>2. Touch(clients, i) \in [Ids -> Client \cup {None}]
      BY <1>2, <1>3, TouchType DEF StoreTypeOK
    <2>3. StoreTypeOK'
      BY <1>2, <1>3, <1>4, <1>6, <2>1, <2>2 DEF CommitFile, StoreTypeOK, storeVars
    <2> QED BY <1>1, <1>2, <1>5, <1>6, <2>3, ReplyStep
  <1>7. CASE /\ Answer(k, req[k], <<Reply("MSG_RECEIVED_CRC", None)>>)
             /\ UNCHANGED <<files, clients>>
    <2>1. StoreTypeOK'
      BY <1>2, <1>4, <1>7 DEF CommitFile, StoreTypeOK, storeVars
    <2> QED BY <1>1, <1>2, <1>5, <1>7, <2>1, ReplyStep
  <1> QED BY <1>6, <1>7 DEF CommitFile

(* The client found its checksum confirmed.                                *)
LEMMA CrcValidStep ==
  ASSUME IInv, NEW k \in Conns, NEW m, CrcValid(k, m)
  PROVE  IInv'
  <1>1. /\ pc[k] \in Holding /\ m \in Request /\ m.code = "CRC_VALID"
        /\ UNCHANGED loopVars /\ ChannelTypeOK'
    BY ReceivesFacts DEF CrcValid
  <1>2. m \in CrcStatusRequest /\ m.id \in Ids
    BY <1>1, RequestByCode DEF CrcStatusRequest
  <1>3. StoreTypeOK /\ faults' \in Nat /\ crashes' \in Nat
    BY LimitType DEF CrcValid, IInv, TypeOK
  <1>4. clients' \in [Ids -> Client \cup {None}]
    BY <1>2, <1>3, TouchType DEF CrcValid, StoreTypeOK
  <1>5. StoreTypeOK'
    BY <1>3, <1>4 DEF CrcValid, StoreTypeOK, storeVars
  <1>6. CASE Refuse(k)
    BY <1>1, <1>5, <1>6, RefuseStep
  <1>7. CASE RowOf(m.id, m.file) /\ Proceed(k, "save", m, 0)
    <2>1. pc'[k] = "save" /\ req'[k] = m
      BY <1>7 DEF Proceed, IInv, TypeOK, ThreadTypeOK
    <2>2. HandlerOK(k)'
      BY <1>2, <1>7, <2>1 DEF HandlerOK, RowOf, CrcValid
    <2> QED BY <1>1, <1>5, <1>7, <2>2, ProceedStep DEF Holding
  <1> QED BY <1>6, <1>7 DEF CrcValid

(* The file is written to disk.                                            *)
LEMMA SaveFileStep ==
  ASSUME IInv, NEW k \in Conns, SaveFile(k)
  PROVE  IInv'
  <1> DEFINE x == <<req[k].id, req[k].file>>
  <1>1. /\ pc[k] \in Holding /\ UNCHANGED loopVars
        /\ req[k] \in CrcStatusRequest /\ files[req[k].file] # None
    BY DEF SaveFile, Holding, IInv, HandlerOK
  <1>2. ChannelTypeOK' /\ StoreTypeOK
    BY DEF SaveFile, IInv, TypeOK, ChannelTypeOK, channelVars
  <1>3. x \in Ids \X FileNames /\ req[k] \in Request
    BY <1>1 DEF CrcStatusRequest, Request
  <1>4. faults' \in Nat /\ crashes' \in Nat
    BY <1>2, LimitType DEF SaveFile
  <1>5. fileDict[x] \in Stored
    BY <1>2, <1>3 DEF StoreTypeOK
  <1>6. \/ UNCHANGED disk
        \/ disk' = [disk EXCEPT ![x] = Torn]
        \/ disk' = [disk EXCEPT ![x] =
                      IF fileDict[x] = NullContent THEN Torn ELSE fileDict[x]]
    BY DEF SaveFile, Saved
  <1> HIDE DEF x
  <1>7. disk' \in [Ids \X FileNames -> Stored \cup {Torn}]
    BY <1>2, <1>5, <1>6 DEF StoreTypeOK
  <1>8. StoreTypeOK'
    BY <1>2, <1>4, <1>7 DEF SaveFile, StoreTypeOK, dbVars
  <1>9. /\ Goes(k, "mark") /\ pc'[k] = "mark" /\ req'[k] = req[k] /\ left[k] \in Nat
    BY DEF SaveFile, Goes, Proceed, IInv, TypeOK, ThreadTypeOK
  <1>10. HandlerOK(k)'
    BY <1>1, <1>9 DEF HandlerOK, SaveFile, dbVars
  <1> QED BY <1>1, <1>2, <1>3, <1>8, <1>9, <1>10, ProceedStep DEF Goes, Holding

(* Its row is marked.                                                      *)
LEMMA MarkVarifiedStep ==
  ASSUME IInv, NEW k \in Conns, MarkVarified(k)
  PROVE  IInv'
  <1> DEFINE f == req[k].file
  <1>1. /\ pc[k] \in Holding /\ UNCHANGED loopVars
        /\ req[k] \in CrcStatusRequest /\ files[f] # None
    BY DEF MarkVarified, Holding, IInv, HandlerOK
  <1>2. ChannelTypeOK' /\ StoreTypeOK
    BY DEF MarkVarified, IInv, TypeOK, ChannelTypeOK, channelVars
  <1>3. f \in FileNames /\ req[k] \in Request
    BY <1>1 DEF CrcStatusRequest, Request
  <1>4. faults' \in Nat /\ crashes' \in Nat
    BY <1>2, LimitType DEF MarkVarified
  <1>5. files[f] \in FileRow
    BY <1>1, <1>2, <1>3 DEF StoreTypeOK
  <1>6. [files[f] EXCEPT !.varified = TRUE] \in FileRow
    BY <1>5 DEF FileRow
  <1>7. \/ UNCHANGED files
        \/ files' = [files EXCEPT ![f] = [files[f] EXCEPT !.varified = TRUE]]
    BY DEF MarkVarified
  <1>8. files' \in [FileNames -> FileRow \cup {None}]
    BY <1>2, <1>6, <1>7 DEF StoreTypeOK
  <1>9. StoreTypeOK'
    BY <1>2, <1>4, <1>8 DEF MarkVarified, StoreTypeOK, storeVars
  <1>10. Reply("MSG_RECEIVED", None) \in Response
    BY ReplyType
  <1> QED BY <1>1, <1>2, <1>3, <1>9, <1>10, ReplyStep DEF MarkVarified

(* The checksum of the content the server holds, once more.                *)
LEMMA ResendStep ==
  ASSUME IInv, NEW k \in Conns, NEW m, Resend(k, m)
  PROVE  IInv'
  <1> DEFINE held == IF RowOf(m.id, m.file) THEN fileDict[<<m.id, m.file>>] ELSE None
  <1>1. /\ pc[k] \in Holding /\ m \in Request /\ m.code = "CRC_RESEND"
        /\ UNCHANGED loopVars /\ ChannelTypeOK'
    BY ReceivesFacts DEF Resend
  <1>2. StoreTypeOK /\ faults' \in Nat /\ crashes' \in Nat
    BY LimitType DEF Resend, IInv, TypeOK
  <1>3. StoreTypeOK'
    BY <1>2 DEF Resend, StoreTypeOK, dbVars, storeVars
  <1>4. <<m.id, m.file>> \in Ids \X FileNames
    BY <1>1, RequestByCode DEF CrcStatusRequest
  <1>5. held \in Stored
    BY <1>2, <1>4 DEF StoreTypeOK, Stored
  <1>6. CASE Refuse(k) \/ Dies(k)
    BY <1>1, <1>3, <1>6, RefuseStep, DiesStep
  <1>7. CASE Answer(k, None, <<Reply("MSG_RECEIVED_CRC", None), Failed>>)
    <2>1. Reply("MSG_RECEIVED_CRC", None) \in Response
      BY ReplyType
    <2>2. <<Reply("MSG_RECEIVED_CRC", None), Failed>> \in Seq(Response)
      BY <2>1, FailedType
    <2> QED BY <1>1, <1>3, <1>7, <2>2, AnswerStep
  <1>8. CASE /\ held \notin {None, NullContent}
             /\ Answer(k, m, <<Reply("MSG_RECEIVED_CRC", Crc(held))>>)
    <2>1. held \in Contents \cup {Garbage}
      BY <1>5, <1>8 DEF Stored
    <2> HIDE DEF held
    <2>2. Reply("MSG_RECEIVED_CRC", Crc(held)) \in Response
      BY <2>1, ReplyType, CrcType
    <2> QED BY <1>1, <1>3, <1>8, <2>2, ReplyStep
  <1> QED BY <1>6, <1>7, <1>8 DEF Resend, ClientExists, GetFile

(* The two requests the server cannot handle.                              *)
LEMMA AbortStep ==
  ASSUME IInv, NEW k \in Conns, NEW m, Abort(k, m) \/ UnknownRequest(k, m)
  PROVE  IInv'
  <1>1. pc[k] \in Holding /\ UNCHANGED loopVars /\ ChannelTypeOK'
    BY ReceivesFacts DEF Abort, UnknownRequest
  <1>2. StoreTypeOK'
    BY DEF Abort, UnknownRequest, IInv, TypeOK, StoreTypeOK, dbVars, storeVars, limitVars
  <1> QED BY <1>1, <1>2, DiesStep, ReplyStep, FailedType DEF Abort, UnknownRequest

-----------------------------------------------------------------------------
(* read() and write(), one lemma each.                                     *)

(* The next response goes out: write() repeats, releases or goes back.     *)
LEMMA WriteStep ==
  ASSUME IInv, NEW k \in Conns, Write(k)
  PROVE  IInv'
  <1> DEFINE m == Head(out[k])
             more == Tail(out[k])
             p == CASE more # <<>> -> "write"
                    [] more = <<>> /\ m = Failed -> "release"
                    [] more = <<>> /\ m # Failed -> "recv"
  <1>1. /\ pc[k] \in Holding /\ UNCHANGED loopVars
        /\ out[k] \in Seq(Response) /\ out[k] # <<>>
    BY DEF Write, Holding, IInv, HandlerOK, TypeOK, ThreadTypeOK
  <1>2. m \in Response /\ more \in Seq(Response)
    BY <1>1
  <1>3. ChannelTypeOK'
    BY <1>2, SendType DEF Write, IInv, TypeOK
  <1>4. StoreTypeOK'
    BY DEF Write, IInv, TypeOK, StoreTypeOK, dbVars, storeVars, limitVars
  <1>5. p \in {"write", "release", "recv"} /\ (p = "write" => more # <<>>)
    OBVIOUS
  <1>6. /\ pc' = [pc EXCEPT ![k] = p]
        /\ out' = [out EXCEPT ![k] = more]
        /\ req' = [req EXCEPT ![k] = IF more = <<>> THEN None ELSE req[k]]
    BY DEF Write
  <1> HIDE DEF p, m, more
  <1>7. p \in Holding
    BY <1>5 DEF Holding
  <1>8. ThreadTypeOK'
    BY <1>1, <1>2, <1>6, <1>7, SMTT(30) DEF Write, IInv, TypeOK, ThreadTypeOK, loopVars, ThreadState
  <1>9. pc'[k] = p /\ out'[k] = more
    BY <1>6 DEF IInv, TypeOK, ThreadTypeOK
  <1>10. HandlerOK(k)'
    BY <1>5, <1>9 DEF HandlerOK
  <1>11. MainOK' /\ OneSession' /\ LockAccounted' /\ \A j \in Conns : HandlerOK(j)'
    BY <1>1, <1>6, <1>7, <1>10, StaysInSession
  <1> QED BY <1>3, <1>4, <1>8, <1>11 DEF IInv, TypeOK

(* Nothing but the channel changes: an exception that is swallowed, and    *)
(* everything the clients do.                                              *)
LEMMA ServerIdleStep ==
  ASSUME IInv, ChannelTypeOK', UNCHANGED serverVars
  PROVE  IInv'
  <1>1. ThreadTypeOK' /\ StoreTypeOK'
    BY DEF IInv, TypeOK, ThreadTypeOK, StoreTypeOK, serverVars, loopVars,
           threadVars, dbVars, storeVars, limitVars
  <1>2. MainOK' /\ OneSession' /\ LockAccounted'
    BY DEF IInv, MainOK, OneSession, LockAccounted, serverVars, loopVars, threadVars
  <1>3. \A k \in Conns : HandlerOK(k)'
    BY DEF IInv, HandlerOK, serverVars, threadVars, dbVars, storeVars
  <1> QED BY <1>1, <1>2, <1>3 DEF IInv, TypeOK

(* A thread that leaves recv(): to release the lock, or with an exception. *)
LEMMA RecvEndsStep ==
  ASSUME IInv, NEW k \in Conns, RecvEof(k) \/ RecvRaises(k)
  PROVE  IInv'
  <1>1. pc[k] \in Holding /\ UNCHANGED loopVars
    BY DEF RecvEof, RecvRaises, Holding
  <1>2. ChannelTypeOK'
    BY ResetType DEF RecvEof, RecvRaises, ServerRecvEof, ServerRecvRaises, IInv,
                     TypeOK, ChannelTypeOK, channelVars
  <1>3. StoreTypeOK'
    BY DEF RecvEof, RecvRaises, IInv, TypeOK, StoreTypeOK, dbVars, storeVars, limitVars
  <1>4. CASE RecvRaises(k)
    BY <1>1, <1>2, <1>3, <1>4, DiesStep DEF RecvRaises
  <1>5. CASE RecvEof(k)
    <2>1. /\ Proceed(k, "release", req[k], left[k]) /\ pc'[k] = "release"
          /\ req[k] \in Request \cup Uploading \cup {None} /\ left[k] \in Nat
      BY <1>5 DEF RecvEof, Goes, Proceed, IInv, TypeOK, ThreadTypeOK
    <2>2. HandlerOK(k)'
      BY <2>1 DEF HandlerOK
    <2> QED BY <1>1, <1>2, <1>3, <2>1, <2>2, ProceedStep DEF Holding
  <1> QED BY <1>4, <1>5

(* The lock is given back by the one thread that is in a session.          *)
LEMMA ReleaseStep ==
  ASSUME IInv, NEW k \in Conns, Release(k)
  PROVE  IInv'
  <1>1. pc[k] \in Holding /\ ThreadTypeOK
    BY DEF Release, Holding, IInv, TypeOK
  <1>2. \A j \in Conns : j # k => pc[j] \notin Holding
    BY <1>1, InSession
  <1>3. /\ pc' = [pc EXCEPT ![k] = "close"] /\ UNCHANGED <<req, left, out, main, mainConn>>
        /\ lock' = "free"
    BY <1>1 DEF Release, Goes, Proceed, ThreadTypeOK
  <1>4. pc'[k] = "close" /\ \A j \in Conns : j # k => pc'[j] = pc[j]
    BY <1>1, <1>3 DEF ThreadTypeOK
  <1>5. \A j \in Conns : pc'[j] \notin Holding
    BY <1>2, <1>4 DEF Holding
  <1>6. ChannelTypeOK' /\ StoreTypeOK'
    BY DEF Release, IInv, TypeOK, ChannelTypeOK, StoreTypeOK, channelVars,
           dbVars, storeVars, limitVars
  <1>7. ThreadTypeOK'
    BY <1>1, <1>3 DEF ThreadTypeOK, ThreadState
  <1>8. MainOK' /\ OneSession' /\ LockAccounted'
    BY <1>3, <1>5 DEF IInv, MainOK, OneSession, LockAccounted
  <1>9. \A j \in Conns : HandlerOK(j)'
    BY <1>5 DEF HandlerOK, Holding
  <1> QED BY <1>6, <1>7, <1>8, <1>9 DEF IInv, TypeOK

(* A session's socket is closed after the lock was given back.             *)
LEMMA CloseStep ==
  ASSUME IInv, NEW k \in Conns, Close(k)
  PROVE  IInv'
  <1>1. pc[k] = "close" /\ ThreadTypeOK
    BY DEF Close, IInv, TypeOK
  <1>2. /\ pc' = [pc EXCEPT ![k] = "done"] /\ UNCHANGED <<req, left, out, loopVars>>
    BY <1>1 DEF Close, Goes, Proceed, ThreadTypeOK
  <1>3. pc'[k] = "done" /\ \A j \in Conns : j # k => pc'[j] = pc[j]
    BY <1>1, <1>2 DEF ThreadTypeOK
  <1>4. \A j \in Conns : pc'[j] \in Holding <=> pc[j] \in Holding
    BY <1>1, <1>3 DEF Holding
  <1>5. ChannelTypeOK'
    BY CloseType DEF Close, IInv, TypeOK, ChannelTypeOK
  <1>6. StoreTypeOK'
    BY DEF Close, IInv, TypeOK, StoreTypeOK, dbVars, storeVars, limitVars
  <1>7. ThreadTypeOK'
    BY <1>1, <1>2 DEF ThreadTypeOK, ThreadState, loopVars
  <1>8. MainOK' /\ OneSession' /\ LockAccounted'
    BY <1>2, <1>4 DEF IInv, MainOK, OneSession, LockAccounted, loopVars
  <1>9. ASSUME NEW j \in Conns PROVE HandlerOK(j)'
    BY <1>2, <1>3 DEF IInv, HandlerOK, Close, dbVars, storeVars
  <1> QED BY <1>5, <1>6, <1>7, <1>8, <1>9 DEF IInv, TypeOK

(* A dead thread's socket is closed by the garbage collector.              *)
LEMMA DropSocketStep ==
  ASSUME IInv, NEW k \in Conns, DropSocket(k)
  PROVE  IInv'
  <1>1. ChannelTypeOK'
    BY CloseType DEF DropSocket, IInv, TypeOK, ChannelTypeOK
  <1> QED BY <1>1, ServerIdleStep DEF DropSocket

(* The main thread begins to listen, on the first start or after a crash.  *)
LEMMA StartServerStep ==
  ASSUME IInv, StartServer
  PROVE  IInv'
  <1>1. ChannelTypeOK' /\ StoreTypeOK'
    BY DEF StartServer, IInv, TypeOK, ChannelTypeOK, StoreTypeOK, channelVars,
           dbVars, storeVars, limitVars
  <1>2. ThreadTypeOK' /\ MainOK'
    BY DEF StartServer, IInv, TypeOK, ThreadTypeOK, MainOK, threadVars
  <1>3. OneSession' /\ LockAccounted' /\ \A k \in Conns : HandlerOK(k)'
    BY DEF StartServer, IInv, OneSession, LockAccounted, HandlerOK, threadVars,
           dbVars, storeVars
  <1> QED BY <1>1, <1>2, <1>3 DEF IInv, TypeOK

(* The main thread takes a connection from the backlog.                    *)
LEMMA AcceptStep ==
  ASSUME IInv, Accept
  PROVE  IInv'
  <1>1. backlog \in Seq(Conns) /\ backlog # <<>>
    BY DEF Accept, IInv, TypeOK, ChannelTypeOK
  <1>2. Head(backlog) \in Conns /\ Tail(backlog) \in Seq(Conns)
    BY <1>1
  <1>3. ChannelTypeOK'
    BY <1>2 DEF Accept, IInv, TypeOK, ChannelTypeOK
  <1>4. StoreTypeOK'
    BY DEF Accept, IInv, TypeOK, StoreTypeOK, dbVars, storeVars, limitVars
  <1>5. ThreadTypeOK' /\ MainOK'
    BY <1>2 DEF Accept, IInv, TypeOK, ThreadTypeOK, MainOK, threadVars
  <1>6. OneSession' /\ LockAccounted' /\ \A k \in Conns : HandlerOK(k)'
    BY DEF Accept, IInv, OneSession, LockAccounted, HandlerOK, threadVars, dbVars, storeVars
  <1> QED BY <1>3, <1>4, <1>5, <1>6 DEF IInv, TypeOK

(* It takes the free lock and starts the thread: nobody else is in a       *)
(* session then.                                                           *)
LEMMA StartSessionStep ==
  ASSUME IInv, StartSession
  PROVE  IInv'
  <1> DEFINE k == mainConn
  <1>1. k \in Conns /\ ThreadTypeOK /\ \A j \in Conns : pc[j] \notin Holding
    BY DEF StartSession, IInv, MainOK, TypeOK, LockAccounted
  <1>2. pc'[k] = "recv" /\ \A j \in Conns : j # k => pc'[j] = pc[j]
    BY <1>1 DEF StartSession, ThreadTypeOK
  <1>3. pc'[k] \in Holding /\ \A j \in Conns : j # k => pc'[j] \notin Holding
    BY <1>1, <1>2 DEF Holding
  <1>4. ChannelTypeOK' /\ StoreTypeOK'
    BY DEF StartSession, IInv, TypeOK, ChannelTypeOK, StoreTypeOK, channelVars,
           dbVars, storeVars, limitVars
  <1>5. ThreadTypeOK' /\ MainOK'
    BY <1>1 DEF StartSession, ThreadTypeOK, ThreadState, Holding, MainOK
  <1>6. OneSession' /\ LockAccounted'
    BY <1>1, <1>3 DEF StartSession, OneSession, LockAccounted
  <1>7. ASSUME NEW j \in Conns PROVE HandlerOK(j)'
    BY <1>2, <1>3 DEF HandlerOK, Holding
  <1> QED BY <1>4, <1>5, <1>6, <1>7 DEF IInv, TypeOK

(* A killed server has no thread, and leaves no lock to its next start.    *)
LEMMA ServerCrashStep ==
  ASSUME IInv, ServerCrash
  PROVE  IInv'
  <1>1. TypeOK /\ ThreadTypeOK /\ StoreTypeOK /\ ChannelTypeOK
    BY DEF IInv, TypeOK
  <1>2. ChannelTypeOK'
    BY <1>1, CloseType DEF ServerCrash, ChannelTypeOK
  <1>3. disk' \in [Ids \X FileNames -> Stored \cup {Torn}]
    BY <1>1 DEF ServerCrash, StoreTypeOK
  <1>4. StoreTypeOK'
    BY <1>1, <1>3 DEF ServerCrash, StoreTypeOK, Stored, dbVars
  <1>5. \A k \in Conns : pc'[k] \in {"none", "done"}
    BY DEF ServerCrash
  <1>6. ThreadTypeOK'
    BY <1>1 DEF ServerCrash, ThreadTypeOK, ThreadState
  <1>7. MainOK' /\ OneSession' /\ LockAccounted'
    BY <1>5 DEF ServerCrash, MainOK, OneSession, LockAccounted, Holding
  <1>8. \A k \in Conns : HandlerOK(k)'
    BY <1>5 DEF HandlerOK
  <1> QED BY <1>2, <1>4, <1>6, <1>7, <1>8 DEF IInv, TypeOK

-----------------------------------------------------------------------------
(* The invariant.                                                          *)

(* The server starts with it.                                              *)
LEMMA ServerInitIInv == ASSUME ChannelInit, ServerInit PROVE IInv
  <1>1. ChannelTypeOK
    BY DEF ChannelInit, ChannelTypeOK, EndState
  <1>2. ThreadTypeOK
    BY DEF ServerInit, ThreadTypeOK, ThreadState
  <1>3. StoreTypeOK
    BY DEF ServerInit, StoreTypeOK, Stored
  <1>4. \A k \in Conns : pc[k] = "none"
    BY DEF ServerInit
  <1>5. MainOK /\ OneSession /\ LockAccounted
    BY <1>4 DEF ServerInit, MainOK, OneSession, LockAccounted, Holding
  <1>6. \A k \in Conns : HandlerOK(k)
    BY <1>4 DEF HandlerOK
  <1> QED BY <1>1, <1>2, <1>3, <1>5, <1>6 DEF IInv, TypeOK

(* Every step of a thread keeps it.                                        *)
LEMMA ThreadStep ==
  ASSUME IInv, NEW k \in Conns, Thread(k)
  PROVE  IInv'
  <1>1. CASE Handle(k)
    BY <1>1, CheckNameStep, AddClientStep, SetPublicKeyStep, SetSymmetricKeyStep,
       RecvFileHeadStep, RecvFileChunkStep, RecvFileRaisesStep, StoreFileStep,
       CommitFileStep, CrcValidStep, SaveFileStep, MarkVarifiedStep, ResendStep,
       AbortStep DEF Handle
  <1>2. CASE Write(k)
    BY <1>2, WriteStep
  <1>3. CASE WriteRaises(k)
    BY <1>3, ResetType, ServerIdleStep DEF WriteRaises, IInv, TypeOK
  <1>4. CASE RecvEof(k) \/ RecvRaises(k)
    BY <1>4, RecvEndsStep
  <1>5. CASE Release(k) \/ Close(k) \/ DropSocket(k)
    BY <1>5, ReleaseStep, CloseStep, DropSocketStep
  <1> QED BY <1>1, <1>2, <1>3, <1>4, <1>5 DEF Thread

-----------------------------------------------------------------------------
(* The steps of a thread move that thread only.                            *)
LEMMA OthersStay ==
  ASSUME IInv, NEW k \in Conns, Thread(k), NEW j \in Conns, j # k
  PROVE  /\ pc'[j] = pc[j] /\ req'[j] = req[j] /\ out'[j] = out[j]
         /\ left'[j] = left[j]
  <1>1. /\ pc \in [Conns -> ThreadState] /\ out \in [Conns -> Seq(Response)]
        /\ req \in [Conns -> Request \cup Uploading \cup {None}]
        /\ left \in [Conns -> Nat]
    BY DEF IInv, TypeOK, ThreadTypeOK
  <1>2. /\ UNCHANGED out \/ \E o : out' = [out EXCEPT ![k] = o]
        /\ UNCHANGED left \/ \E n : left' = [left EXCEPT ![k] = n]
        /\ \/ UNCHANGED <<pc, req>>
           \/ \E p, r : pc' = [pc EXCEPT ![k] = p] /\ req' = [req EXCEPT ![k] = r]
    <2>1. CASE Handle(k)
      BY <2>1 DEF Handle, CheckName, AddClient, SetPublicKey, SetSymmetricKey,
                  RecvFileHead, RecvFileChunk, RecvFileRaises, StoreFile, CommitFile,
                  CrcValid, SaveFile, MarkVarified, Resend, Abort, UnknownRequest,
                  Refuse, Dies, Goes, Answer, Proceed
    <2>2. CASE ~Handle(k)
      BY <2>2 DEF Thread, Write, WriteRaises, RecvEof, RecvRaises, Release, Close,
                  DropSocket, Dies, Goes, Proceed, serverVars, threadVars
    <2> QED BY <2>1, <2>2
  <1> QED BY <1>1, <1>2

-----------------------------------------------------------------------------
(* The tables.                                                             *)

(* Whoever is registered before a step is registered, by that name, after  *)
(* it, and still has a session key if there was one.                       *)
KeepsClients ==
  \A i \in Ids : clients[i] # None =>
    /\ clients'[i] # None /\ clients'[i].name = clients[i].name
    /\ clients[i].aesKey # None => clients'[i].aesKey # None

(* Nobody is registered by the step.                                       *)
AddsNoName == \A i \in Ids : clients'[i] # None => clients[i] # None

KeepsOwners ==
  \A f \in FileNames : files[f] # None => files'[f] # None /\ files'[f].owner = files[f].owner

-----------------------------------------------------------------------------
(* touch() keeps the clients.                                              *)
LEMMA TouchKeepsClients ==
  ASSUME IInv, NEW i \in Ids, NEW j \in Ids
  PROVE  /\ clients[j] = None => Touch(clients, i)[j] = None
         /\ clients[j] # None => /\ Touch(clients, i)[j] \in Client
                                 /\ Touch(clients, i)[j].name = clients[j].name
                                 /\ Touch(clients, i)[j].aesKey = clients[j].aesKey
  <1>1. clients \in [Ids -> Client \cup {None}]
    BY DEF IInv, TypeOK, StoreTypeOK
  <1>2. CASE clients[j] = None
    BY <1>2 DEF Touch
  <1>3. CASE clients[j] # None
    BY <1>1, <1>3 DEF Touch, Client
  <1> QED BY <1>2, <1>3

(* The UPDATE of the public key keeps the clients and adds none.           *)
LEMMA PublicKeyKeepsClients ==
  ASSUME IInv, NEW k \in Conns, NEW m, SetPublicKey(k, m)
  PROVE  KeepsClients /\ AddsNoName
  <1>1. CASE UNCHANGED clients
    BY <1>1 DEF KeepsClients, AddsNoName
  <1>2. CASE /\ clients[m.id] # None
             /\ clients' = [Touch(clients, m.id) EXCEPT ![m.id].hasKey = TRUE]
    <2>1. m \in Request /\ m.code = "PUBLIC_KEY"
      BY ReceivesFacts DEF SetPublicKey
    <2>2. m.id \in Ids
      BY <2>1, RequestByCode DEF PublicKeyRequest
    <2> DEFINE t == Touch(clients, m.id)
    <2>3. /\ t[m.id] \in Client /\ t[m.id].name = clients[m.id].name
          /\ t[m.id].aesKey = clients[m.id].aesKey
      BY <1>2, <2>2, TouchKeepsClients
    <2>4. /\ clients'[m.id] = [t[m.id] EXCEPT !.hasKey = TRUE]
          /\ \A j \in Ids : j # m.id => clients'[j] = t[j]
      BY <1>2, <2>2 DEF Touch
    <2>5. /\ clients'[m.id] \in Client /\ clients'[m.id].name = clients[m.id].name
          /\ clients'[m.id].aesKey = clients[m.id].aesKey
      BY <2>3, <2>4 DEF Client
    <2>6. ASSUME NEW j \in Ids, j # m.id
          PROVE  /\ clients[j] = None => clients'[j] = None
                 /\ clients[j] # None => /\ clients'[j] \in Client
                                         /\ clients'[j].name = clients[j].name
                                         /\ clients'[j].aesKey = clients[j].aesKey
      BY <2>2, <2>4, <2>6, TouchKeepsClients
    <2> HIDE DEF t
    <2> QED BY <1>2, <2>5, <2>6, NoneAssumption DEF KeepsClients, AddsNoName
  <1>3. CASE clients' = Touch(clients, m.id)
    <2>1. m \in Request /\ m.code = "PUBLIC_KEY"
      BY ReceivesFacts DEF SetPublicKey
    <2>2. m.id \in Ids
      BY <2>1, RequestByCode DEF PublicKeyRequest
    <2> QED BY <1>3, <2>2, TouchKeepsClients, NoneAssumption DEF KeepsClients, AddsNoName
  <1> QED BY <1>1, <1>2, <1>3 DEF SetPublicKey, ClientExists, WithPublicKey

(* The UPDATE of the session key keeps the clients and adds none.          *)
LEMMA SymmetricKeyKeepsClients ==
  ASSUME IInv, NEW k \in Conns, SetSymmetricKey(k)
  PROVE  KeepsClients /\ AddsNoName
  <1>1. CASE UNCHANGED clients
    BY <1>1 DEF KeepsClients, AddsNoName
  <1>2. ASSUME NEW key \in Keys, clients' = [clients EXCEPT ![req[k].id].aesKey = key]
        PROVE  KeepsClients /\ AddsNoName
    <2>1. /\ clients \in [Ids -> Client \cup {None}]
          /\ req[k] \in PublicKeyRequest /\ clients[req[k].id] # None
      BY DEF IInv, TypeOK, StoreTypeOK, HandlerOK, SetSymmetricKey
    <2> DEFINE i == req[k].id
    <2>2. i \in Ids /\ clients[i] \in Client
      BY <2>1 DEF PublicKeyRequest
    <2>3. /\ clients'[i] = [clients[i] EXCEPT !.aesKey = key]
          /\ \A j \in Ids : j # i => clients'[j] = clients[j]
      BY <1>2, <2>1, <2>2
    <2>4. /\ clients'[i] \in Client /\ clients'[i].name = clients[i].name
          /\ clients'[i].aesKey # None
      BY <2>2, <2>3, NoneAssumption DEF Client
    <2> HIDE DEF i
    <2> QED BY <2>2, <2>3, <2>4, NoneAssumption DEF KeepsClients, AddsNoName
  <1> QED BY <1>1, <1>2 DEF SetSymmetricKey, FreshKeys

(* So do the two handlers that only touch the client.                      *)
LEMMA TouchesKeepClients ==
  ASSUME IInv, NEW k \in Conns, CommitFile(k) \/ (\E m : CrcValid(k, m))
  PROVE  KeepsClients /\ AddsNoName
  <1>1. ASSUME NEW i \in Ids, clients' = Touch(clients, i)
        PROVE  KeepsClients /\ AddsNoName
    BY <1>1, TouchKeepsClients, NoneAssumption DEF KeepsClients, AddsNoName
  <1>2. CASE UNCHANGED clients
    BY <1>2 DEF KeepsClients, AddsNoName
  <1>3. CASE CommitFile(k)
    <2>1. req[k] \in Uploading
      BY <1>3 DEF CommitFile, IInv, HandlerOK
    <2>2. req[k].id \in Ids
      BY <2>1 DEF Uploading, SendFileRequest
    <2> QED BY <1>1, <1>2, <1>3, <2>2 DEF CommitFile
  <1>4. ASSUME NEW m, CrcValid(k, m)
        PROVE  KeepsClients /\ AddsNoName
    <2>1. m \in Request /\ m.code = "CRC_VALID"
      BY <1>4, ReceivesFacts DEF CrcValid
    <2>2. m.id \in Ids
      BY <2>1, RequestByCode DEF CrcStatusRequest
    <2> QED BY <1>1, <1>2, <1>4, <2>2 DEF CrcValid
  <1> QED BY <1>3, <1>4

(* The INSERT of a registration takes an id nobody has.                    *)
LEMMA AddClientKeepsClients ==
  ASSUME IInv, NEW k \in Conns, AddClient(k)
  PROVE  KeepsClients
  <1>1. clients \in [Ids -> Client \cup {None}]
    BY DEF IInv, TypeOK, StoreTypeOK
  <1>2. \/ UNCHANGED clients
        \/ \E c : \E i \in Ids : clients[i] = None /\ clients' = [clients EXCEPT ![i] = c]
    BY DEF AddClient, ClientExists
  <1>3. \A j \in Ids : clients[j] # None => clients'[j] = clients[j]
    BY <1>1, <1>2
  <1> QED BY <1>3 DEF KeepsClients

(* Every other step of a thread leaves the table of clients alone.         *)
LEMMA ThreadClients ==
  ASSUME IInv, NEW k \in Conns, Thread(k)
  PROVE  KeepsClients /\ (AddsNoName \/ AddClient(k))
  <1>1. CASE AddClient(k)
    BY <1>1, AddClientKeepsClients
  <1>2. CASE \E m : SetPublicKey(k, m)
    BY <1>2, PublicKeyKeepsClients
  <1>3. CASE SetSymmetricKey(k)
    BY <1>3, SymmetricKeyKeepsClients
  <1>4. CASE CommitFile(k) \/ (\E m : CrcValid(k, m))
    BY <1>4, TouchesKeepClients
  <1>5. CASE UNCHANGED clients
    BY <1>5 DEF KeepsClients, AddsNoName
  <1>6. \/ AddClient(k) \/ SetSymmetricKey(k) \/ CommitFile(k)
        \/ \E m : SetPublicKey(k, m) \/ CrcValid(k, m)
        \/ UNCHANGED clients
    <2>1. CASE Handle(k)
      BY <2>1 DEF Handle, CheckName, RecvFileHead, Resend, Abort, UnknownRequest,
                  RecvFileChunk, RecvFileRaises, StoreFile, SaveFile, MarkVarified, dbVars
    <2>2. CASE ~Handle(k)
      BY <2>2 DEF Thread, Write, WriteRaises, RecvEof, RecvRaises, Release, Close,
                  DropSocket, serverVars, dbVars
    <2> QED BY <2>1, <2>2
  <1> QED BY <1>1, <1>2, <1>3, <1>4, <1>5, <1>6

(* A row of the files table is replaced by its owner only.                 *)
LEMMA ThreadOwners ==
  ASSUME IInv, NEW k \in Conns, Thread(k)
  PROVE  KeepsOwners
  <1>1. files \in [FileNames -> FileRow \cup {None}]
    BY DEF IInv, TypeOK, StoreTypeOK
  <1>2. CASE UNCHANGED files
    BY <1>2 DEF KeepsOwners
  <1>3. CASE CommitFile(k)
    <2> DEFINE i == req[k].id
               f == req[k].file
               row == [owner |-> i, varified |-> FALSE]
    <2>1. req[k] \in Uploading
      BY <1>3 DEF CommitFile, IInv, HandlerOK
    <2>2. i \in Ids /\ f \in FileNames
      BY <2>1 DEF Uploading, SendFileRequest
    <2>3. row \in FileRow /\ row.owner = i
      BY <2>2 DEF FileRow
    <2>4. \/ UNCHANGED files
          \/ ~RowOfOther(i, f) /\ files' = [files EXCEPT ![f] = row]
      BY <1>3 DEF CommitFile
    <2> HIDE DEF row, i, f
    <2> QED BY <1>1, <2>2, <2>3, <2>4, NoneAssumption DEF KeepsOwners, RowOfOther
  <1>4. CASE MarkVarified(k)
    <2> DEFINE f == req[k].file
               row == [files[f] EXCEPT !.varified = TRUE]
    <2>1. req[k] \in CrcStatusRequest /\ files[f] # None
      BY <1>4 DEF MarkVarified, IInv, HandlerOK
    <2>2. f \in FileNames
      BY <2>1 DEF CrcStatusRequest
    <2>3. row \in FileRow /\ row.owner = files[f].owner
      BY <1>1, <2>1, <2>2 DEF FileRow
    <2>4. UNCHANGED files \/ files' = [files EXCEPT ![f] = row]
      BY <1>4 DEF MarkVarified
    <2> HIDE DEF row, f
    <2> QED BY <1>1, <2>2, <2>3, <2>4, NoneAssumption DEF KeepsOwners
  <1>5. CommitFile(k) \/ MarkVarified(k) \/ UNCHANGED files
    <2>1. CASE Handle(k)
      BY <2>1 DEF Handle, CheckName, AddClient, SetPublicKey, SetSymmetricKey,
                  RecvFileHead, CrcValid, Resend, Abort, UnknownRequest,
                  RecvFileChunk, RecvFileRaises, StoreFile, SaveFile, dbVars
    <2>2. CASE ~Handle(k)
      BY <2>2 DEF Thread, Write, WriteRaises, RecvEof, RecvRaises, Release, Close,
                  DropSocket, serverVars, dbVars
    <2> QED BY <2>1, <2>2
  <1> QED BY <1>2, <1>3, <1>4, <1>5

(* A thread gets to the INSERT of a registration by the check alone.       *)
LEMMA ReachesAddClient ==
  ASSUME IInv, NEW k \in Conns, Thread(k), pc'[k] = "addClient"
  PROVE  UNCHANGED <<pc, req>> \/ \E m : CheckName(k, m)
  <1>1. pc \in [Conns -> ThreadState]
    BY DEF IInv, TypeOK, ThreadTypeOK
  <1>2. ASSUME NEW p, pc' = [pc EXCEPT ![k] = p]
        PROVE  p = "addClient"
    BY <1>1, <1>2
  <1>3. CASE Handle(k)
    BY <1>2, <1>3 DEF Handle, AddClient, SetPublicKey, SetSymmetricKey,
                RecvFileHead, RecvFileChunk, RecvFileRaises, StoreFile, CommitFile,
                CrcValid, SaveFile, MarkVarified, Resend, Abort, UnknownRequest,
                Refuse, Dies, Goes, Answer, Proceed
  <1>4. CASE ~Handle(k)
    <2>1. CASE Write(k)
      BY <1>2, <2>1 DEF Write
    <2>2. CASE RecvEof(k) \/ RecvRaises(k) \/ Release(k) \/ Close(k)
      BY <1>2, <2>2 DEF RecvEof, RecvRaises, Release, Close, Dies, Goes, Proceed
    <2>3. CASE WriteRaises(k) \/ DropSocket(k)
      BY <2>3 DEF WriteRaises, DropSocket, serverVars, threadVars
    <2> QED BY <1>4, <2>1, <2>2, <2>3 DEF Thread
  <1> QED BY <1>3, <1>4

-----------------------------------------------------------------------------
(* The channel.                                                            *)

(* A thread that moves is between accept() and the end of its connection.  *)
LEMMA ThreadRuns ==
  ASSUME NEW k \in Conns, Thread(k)
  PROVE  pc[k] \in Holding \cup {"close"}
  <1>1. CASE Handle(k)
    BY <1>1 DEF Handle, CheckName, AddClient, SetPublicKey, SetSymmetricKey,
                RecvFileHead, RecvFileChunk, RecvFileRaises, StoreFile, CommitFile,
                CrcValid, SaveFile, MarkVarified, Resend, Abort, UnknownRequest,
                Receives, Holding
  <1>2. CASE ~Handle(k)
    BY <1>2 DEF Thread, Write, WriteRaises, RecvEof, RecvRaises, Release, Close,
                DropSocket, Holding
  <1> QED BY <1>1, <1>2

(* What a thread can do to the channel: nothing, or receive, or send, or   *)
(* note a reset, or close, all on its own connection.                      *)
LEMMA ThreadCalls ==
  ASSUME NEW k \in Conns, Thread(k)
  PROVE  /\ UNCHANGED <<mainConn, main, backlog>>
         /\ \/ UNCHANGED channelVars
            \/ pc[k] \in {"recv", "file"} /\ \E m : ServerRecv(k, m)
            \/ ServerReset(k)
            \/ pc[k] = "write" /\ ServerSend(k, Head(out[k]))
            \/ ServerClose({k})
  <1>1. CASE Handle(k)
    BY <1>1 DEF Handle, CheckName, AddClient, SetPublicKey, SetSymmetricKey,
                RecvFileHead, RecvFileChunk, RecvFileRaises, StoreFile, CommitFile,
                CrcValid, SaveFile, MarkVarified, Resend, Abort, UnknownRequest,
                Receives, ServerRecvRaises, ServerRecv, ServerReset, loopVars, channelVars
  <1>2. CASE ~Handle(k)
    BY <1>2 DEF Thread, Write, WriteRaises, RecvEof, RecvRaises, Release, Close,
                DropSocket, ServerRecvEof, ServerRecvRaises, ServerReset, ServerSend,
                loopVars, serverVars, channelVars
  <1> QED BY <1>1, <1>2

(* So the packets of the other connections stay where they are, and those  *)
(* of its own leave at the head and come in at the end.                    *)
LEMMA ThreadPackets ==
  ASSUME IInv, NEW k \in Conns, Thread(k), NEW j \in Conns
  PROVE  /\ cliEnd' = cliEnd /\ backlog' = backlog /\ mainConn' = mainConn
         /\ j # k => /\ toServer'[j] = toServer[j] /\ toClient'[j] = toClient[j]
                     /\ srvEnd'[j] = srvEnd[j] /\ srvReset'[j] = srvReset[j]
         /\ \/ toServer'[j] \in {toServer[j], <<>>}
            \/ toServer[j] # <<>> /\ toServer'[j] = Tail(toServer[j])
         /\ \/ toClient'[j] = toClient[j]
            \/ pc[j] = "write" /\ toClient'[j] = Append(toClient[j], Head(out[j]))
  <1>1. ChannelTypeOK
    BY DEF IInv, TypeOK
  <1>2. UNCHANGED <<mainConn, main, backlog>>
    BY ThreadCalls
  <1>3. CASE UNCHANGED channelVars
    BY <1>2, <1>3 DEF channelVars
  <1>4. ASSUME NEW m, ServerRecv(k, m)
        PROVE  /\ cliEnd' = cliEnd /\ toClient' = toClient /\ srvEnd' = srvEnd
               /\ srvReset' = srvReset
               /\ j # k => toServer'[j] = toServer[j]
               /\ j = k => toServer[j] # <<>> /\ toServer'[j] = Tail(toServer[j])
    BY <1>1, <1>4 DEF ServerRecv, ChannelTypeOK
  <1>5. ASSUME ServerReset(k)
        PROVE  /\ cliEnd' = cliEnd /\ toClient' = toClient /\ srvEnd' = srvEnd
               /\ toServer' = toServer /\ (j # k => srvReset'[j] = srvReset[j])
    BY <1>1, <1>5 DEF ServerReset, ChannelTypeOK
  <1>6. ASSUME ServerSend(k, Head(out[k]))
        PROVE  /\ cliEnd' = cliEnd /\ srvEnd' = srvEnd /\ toServer' = toServer
               /\ j # k => toClient'[j] = toClient[j] /\ srvReset'[j] = srvReset[j]
               /\ toClient'[j] \in {toClient[j], Append(toClient[j], Head(out[k]))}
    BY <1>1, <1>6 DEF ServerSend, ChannelTypeOK
  <1>7. ASSUME ServerClose({k})
        PROVE  /\ cliEnd' = cliEnd /\ toClient' = toClient
               /\ j # k => /\ toServer'[j] = toServer[j]
                           /\ srvEnd'[j] = srvEnd[j] /\ srvReset'[j] = srvReset[j]
               /\ toServer'[j] \in {toServer[j], <<>>}
    BY <1>1, <1>7 DEF ServerClose, ChannelTypeOK
  <1> QED BY <1>2, <1>3, <1>4, <1>5, <1>6, <1>7, ThreadCalls

(* The answers that approve neither a registration nor an upload.          *)
OtherAnswer == {m \in Response : m.code \notin {"REGISTRATION_SUCCEEDED", "MSG_RECEIVED"}}

(* Such are all but those of addClient and updateVerification.             *)
LEMMA OtherAnswers ==
  /\ Failed \in OtherAnswer
  /\ \A key \in Keys : Reply("PUBLIC_KEY_RECEIVED", key) \in OtherAnswer
  /\ \A c \in Contents \cup {Garbage, None} : Reply("MSG_RECEIVED_CRC", c) \in OtherAnswer
  BY ReplyType, FailedType DEF OtherAnswer, Reply, Failed

(* A refusal, and any one of those answers, alone.                         *)
LEMMA OtherAnswerSeqs ==
  /\ <<Failed, Failed>> \in Seq(OtherAnswer)
  /\ \A m \in OtherAnswer : <<m>> \in Seq(OtherAnswer) /\ <<m, Failed>> \in Seq(OtherAnswer)
  <1>1. Failed \in OtherAnswer
    BY OtherAnswers
  <1> QED BY <1>1

(* What a thread does to the responses it has yet to write: it writes the  *)
(* first, or a handler puts its own in their place, and only addClient and *)
(* updateVerification put an approval there.                               *)
LEMMA ThreadOut ==
  ASSUME IInv, NEW k \in Conns, Thread(k)
  PROVE  \/ out'[k] = out[k]
         \/ Write(k) /\ out'[k] = Tail(out[k])
         \/ AddClient(k)
         \/ MarkVarified(k)
         \/ pc'[k] = "write" /\ out'[k] \in Seq(OtherAnswer)
  <1> DEFINE Others == pc'[k] = "write" /\ out'[k] \in Seq(OtherAnswer)
  <1>1. out \in [Conns -> Seq(Response)] /\ pc \in [Conns -> ThreadState]
    BY DEF IInv, TypeOK, ThreadTypeOK
  <1>2. ASSUME NEW r, NEW rs \in Seq(OtherAnswer), Answer(k, r, rs) PROVE Others
    BY <1>1, <1>2 DEF Answer
  <1>3. ASSUME NEW p, NEW r, NEW n, Proceed(k, p, r, n) PROVE out'[k] = out[k]
    BY <1>3 DEF Proceed
  <1>4. Refuse(k) => Others
    BY <1>2, OtherAnswerSeqs DEF Refuse
  <1>5. ASSUME NEW r, NEW m \in OtherAnswer, Answer(k, r, <<m>>) \/ Answer(k, r, <<m, Failed>>)
        PROVE  Others
    BY <1>2, <1>5, OtherAnswerSeqs
  <1>6. Dies(k) \/ (\E p : Goes(k, p)) => out'[k] = out[k]
    BY <1>3 DEF Dies, Goes
  <1> HIDE DEF Others
  <1>7. ASSUME NEW m, CheckName(k, m) \/ SetPublicKey(k, m) \/ RecvFileHead(k, m) \/ CrcValid(k, m)
        PROVE  out'[k] = out[k] \/ Others
    BY <1>3, <1>4, <1>7 DEF CheckName, SetPublicKey, RecvFileHead, CrcValid
  <1>8. ASSUME NEW m, Resend(k, m) PROVE out'[k] = out[k] \/ Others
    <2> DEFINE held == GetFile(m.id, m.file)
    <2>1. CASE Dies(k) \/ Refuse(k)
      BY <1>4, <1>6, <2>1
    <2>2. CASE Answer(k, None, <<Reply("MSG_RECEIVED_CRC", None), Failed>>)
      BY <1>5, <2>2, OtherAnswers
    <2>3. CASE held \notin {None, NullContent} /\ Answer(k, m, <<Reply("MSG_RECEIVED_CRC", Crc(held))>>)
      <3>1. m \in Request /\ m.code = "CRC_RESEND"
        BY <1>8, ReceivesFacts DEF Resend
      <3>2. m.id \in Ids /\ m.file \in FileNames
        BY <3>1, RequestByCode DEF CrcStatusRequest
      <3>3. held \in Contents \cup {Garbage}
        BY <2>3, <3>2 DEF IInv, TypeOK, StoreTypeOK, Stored, GetFile
      <3>4. Reply("MSG_RECEIVED_CRC", Crc(held)) \in OtherAnswer
        BY <3>3, CrcType, OtherAnswers
      <3> HIDE DEF held
      <3> QED BY <1>5, <2>3, <3>4
    <2> QED BY <1>8, <2>1, <2>2, <2>3 DEF Resend
  <1>9. ASSUME NEW m, Abort(k, m) \/ UnknownRequest(k, m) PROVE out'[k] = out[k] \/ Others
    <2>1. Answer(k, None, <<Failed>>) => Others
      BY <1>5, OtherAnswers
    <2> QED BY <1>6, <1>9, <2>1 DEF Abort, UnknownRequest
  <1>10. SetSymmetricKey(k) => out'[k] = out[k] \/ Others
    <2>1. ASSUME NEW key \in Keys, NEW r, Answer(k, r, <<Reply("PUBLIC_KEY_RECEIVED", key)>>)
          PROVE  Others
      BY <1>5, <2>1, OtherAnswers
    <2>2. Answer(k, None, <<Failed>>) => Others
      BY <1>5, OtherAnswers
    <2> QED BY <1>6, <2>1, <2>2 DEF SetSymmetricKey, FreshKeys
  <1>11. RecvFileChunk(k) \/ RecvFileRaises(k) \/ SaveFile(k) => out'[k] = out[k] \/ Others
    BY <1>3, <1>4, <1>6 DEF RecvFileChunk, RecvFileRaises, SaveFile
  <1>12. ASSUME NEW r, NEW c \in Contents \cup {Garbage, None},
                Answer(k, r, <<Reply("MSG_RECEIVED_CRC", c)>>)
         PROVE  Others
    BY <1>5, <1>12, OtherAnswers
  <1>13. StoreFile(k) => out'[k] = out[k] \/ Others
    BY <1>4, <1>6, <1>12 DEF StoreFile
  <1>14. CommitFile(k) => Others
    <2>1. ASSUME CommitFile(k)
          PROVE  Crc(fileDict[<<req[k].id, req[k].file>>]) \in Contents \cup {Garbage, None}
      BY <2>1, CrcType DEF CommitFile, IInv, HandlerOK
    <2> QED BY <1>12, <2>1 DEF CommitFile
  <1>15. CASE Handle(k)
    BY <1>7, <1>8, <1>9, <1>10, <1>11, <1>13, <1>14, <1>15 DEF Handle, Others
  <1>16. CASE Write(k)
    BY <1>1, <1>16 DEF Write
  <1>17. CASE ~Handle(k) /\ ~Write(k)
    BY <1>17 DEF Thread, WriteRaises, RecvEof, RecvRaises, Release, Close, DropSocket,
                 Dies, Goes, Proceed, serverVars, threadVars
  <1> QED BY <1>15, <1>16, <1>17
=============================================================================
