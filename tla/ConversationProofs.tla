-------------------------- MODULE ConversationProofs --------------------------
(***************************************************************************)
(* The conversation of a client with its thread on the server, for any     *)
(* number of either, any failing statements, whatever is killed when: they *)
(* take turns, an answer is one to what was asked last, the upload that is *)
(* decrypted is the client's file, and what the client is told of it is so.*)
(***************************************************************************)
EXTENDS TransferProofs

-----------------------------------------------------------------------------
(* Sequences.                                                              *)

(* What is at the head and behind it, before and after one more element.   *)
LEMMA SeqFacts ==
  ASSUME NEW S, NEW s \in Seq(S)
  PROVE  /\ Len(s) \in Nat /\ (s = <<>> <=> Len(s) = 0)
         /\ s # <<>> => Head(s) \in S /\ Tail(s) \in Seq(S) /\ Len(Tail(s)) = Len(s) - 1
         /\ \A e \in S :
              /\ Append(s, e) \in Seq(S) /\ Append(s, e) # <<>>
              /\ Len(Append(s, e)) = Len(s) + 1
              /\ s = <<>> => Head(Append(s, e)) = e /\ Tail(Append(s, e)) = <<>>
              /\ s # <<>> => /\ Head(Append(s, e)) = Head(s)
                             /\ Tail(Append(s, e)) = Append(Tail(s), e)
  BY EmptySeq, HeadTailProperties, HeadTailAppend, AppendProperties

(* What is behind the head.                                                *)
LEMMA TailIs ==
  ASSUME NEW S, NEW s \in Seq(S), s # <<>>
  PROVE  \E t \in Seq(S) : /\ t = Tail(s) /\ Len(t) = Len(s) - 1
                           /\ \A i \in 1..Len(t) : t[i] = s[i + 1]
  <1>1. /\ Tail(s) \in Seq(S) /\ Len(Tail(s)) = Len(s) - 1
        /\ \A i \in 1..Len(Tail(s)) : Tail(s)[i] = s[i + 1]
    BY HeadTailProperties
  <1> QED BY <1>1, Zenon

(* Refusals.                                                               *)
Refusals == Seq({Failed})

LEMMA RefusalFacts ==
  /\ <<>> \in Refusals /\ <<Failed>> \in Refusals /\ <<Failed, Failed>> \in Refusals
  /\ \A s \in Refusals : /\ Append(s, Failed) \in Refusals
                         /\ s # <<>> => Head(s) = Failed /\ Tail(s) \in Refusals
  /\ \A m : /\ <<m>> # <<>> /\ Head(<<m>>) = m /\ Tail(<<m>>) = <<>>
            /\ <<m, Failed>> # <<>> /\ Head(<<m, Failed>>) = m
            /\ Tail(<<m, Failed>>) = <<Failed>>
  <1>1. \A s \in Seq({Failed}) : /\ Append(s, Failed) \in Seq({Failed})
                                 /\ s # <<>> => Head(s) = Failed /\ Tail(s) \in Seq({Failed})
    BY SeqFacts
  <1>2. <<>> \in Seq({Failed}) /\ <<Failed>> \in Seq({Failed}) /\ <<Failed, Failed>> \in Seq({Failed})
    OBVIOUS
  <1> QED BY <1>1, <1>2 DEF Refusals

-----------------------------------------------------------------------------
(* What a client asks.                                                     *)

Chunk == [code |-> "CHUNK"]
Chunks == Seq({Chunk})

FirstPacket(c) == [code |-> "SEND_FILE", id |-> c.id, file |-> c.info.file,
                   key |-> c.key, data |-> MyFile(c)]

(* How many packets a message takes, by its first.                         *)
PacketsOf(m) ==
  IF m.code = "SEND_FILE" THEN Packets(ContentOffset + CipherSize(m.data.size)) ELSE 1

(* The client found its checksum confirmed, in the first answer or in one  *)
(* to a resend request.                                                    *)
Confirms(c, m) == m # None /\ m = Reply("MSG_RECEIVED_CRC", Crc(MyFile(c)))
Satisfied(c) == Confirms(c, c.buf) \/ Confirms(c, c.vresp)

(* It has been told of its upload.                                         *)
Uploaded(c) == c.queue = <<>> /\ (c.ret # "read" \/ Satisfied(c))

(* The first packet of the message it waits for an answer to.              *)
Ask(c) ==
  CASE c.queue # <<>> -> Head(c.queue)
    [] c.queue = <<>> /\ c.ret = "exit" -> CrcStatus(c, "CRC_ABORT")
    [] c.queue = <<>> /\ c.ret = "crcRead" -> CrcStatus(c, "CRC_RESEND")
    [] c.queue = <<>> /\ c.ret = "read" /\ Satisfied(c) -> CrcStatus(c, "CRC_VALID")
    [] c.queue = <<>> /\ c.ret = "read" /\ ~Satisfied(c) -> FirstPacket(c)

(* What has that message still to be sent, or as what has been sent of it. *)
Asking(c) ==
  /\ c.toSend # <<>> /\ Head(c.toSend) = Ask(c) /\ Tail(c.toSend) \in Chunks
  /\ Len(c.toSend) = PacketsOf(Ask(c))

Answering == {<<"REGISTRATION", "REGISTRATION_SUCCEEDED">>,
              <<"PUBLIC_KEY", "PUBLIC_KEY_RECEIVED">>,
              <<"SEND_FILE", "MSG_RECEIVED_CRC">>,
              <<"CRC_RESEND", "MSG_RECEIVED_CRC">>,
              <<"CRC_VALID", "MSG_RECEIVED">>}

Answers(c, m) == m = Failed \/ <<Ask(c).code, m.code>> \in Answering

(* The queue of a client that still takes part holds its registration, its *)
(* key request, or nothing once it has a session key.                      *)
QueueOK(c) ==
  /\ c.at # "write" => c.ret = c.at
  /\ c.queue \in {<<>>, IF c.id = None THEN <<Registration(c)>> ELSE <<PublicKey(c)>>}
  /\ c.queue # <<>> => c.vresp = None /\ c.key = None /\ c.ret = "read"
  /\ c.queue = <<>> => c.key # None /\ c.id # None

(* Which message that is shows in its first packet.                        *)
LEMMA AskSays ==
  ASSUME NEW c, GoodProcess(c), Active(c), QueueOK(c)
  PROVE  /\ c.queue # <<>> => Ask(c).code \in {"REGISTRATION", "PUBLIC_KEY"}
         /\ Ask(c).code = "REGISTRATION" => c.queue # <<>> /\ c.id = None
         /\ Ask(c).code = "PUBLIC_KEY" =>
              c.queue # <<>> /\ c.id # None /\ Ask(c) = PublicKey(c)
         /\ Ask(c).code = "SEND_FILE" =>
              /\ c.queue = <<>> /\ c.ret = "read" /\ ~Satisfied(c) /\ Ask(c) = FirstPacket(c)
         /\ Ask(c).code = "CRC_VALID" =>
              /\ c.queue = <<>> /\ c.ret = "read" /\ Satisfied(c)
              /\ Ask(c) = CrcStatus(c, "CRC_VALID")
         /\ Ask(c).code = "CRC_RESEND" =>
              /\ c.queue = <<>> /\ c.ret = "crcRead" /\ Ask(c) = CrcStatus(c, "CRC_RESEND")
         /\ Ask(c).code \in {"REGISTRATION", "PUBLIC_KEY", "SEND_FILE", "CRC_VALID",
                             "CRC_RESEND", "CRC_ABORT"}
  <1>1. CASE c.queue # <<>>
    <2>1. Ask(c) = Head(c.queue)
      BY <1>1 DEF Ask
    <2>2. c.id = None => Head(c.queue) = Registration(c)
      BY <1>1 DEF QueueOK
    <2>3. c.id # None => Head(c.queue) = PublicKey(c)
      BY <1>1 DEF QueueOK
    <2>4. Registration(c).code = "REGISTRATION" /\ PublicKey(c).code = "PUBLIC_KEY"
      BY DEF Registration, PublicKey
    <2> QED BY <1>1, <2>1, <2>2, <2>3, <2>4
  <1>2. CASE c.queue = <<>>
    <2>1. c.ret \in {"read", "crcRead", "exit"}
      BY DEF GoodProcess, Process
    <2>2. /\ FirstPacket(c).code = "SEND_FILE"
          /\ \A code : CrcStatus(c, code).code = code
      BY DEF FirstPacket, CrcStatus
    <2>3. CASE c.ret = "exit"
      BY <1>2, <2>2, <2>3 DEF Ask
    <2>4. CASE c.ret = "crcRead"
      BY <1>2, <2>2, <2>4 DEF Ask
    <2>5. CASE c.ret = "read" /\ Satisfied(c)
      BY <1>2, <2>2, <2>5 DEF Ask
    <2>6. CASE c.ret = "read" /\ ~Satisfied(c)
      BY <1>2, <2>2, <2>6 DEF Ask
    <2> QED BY <2>1, <2>3, <2>4, <2>5, <2>6
  <1> QED BY <1>1, <1>2
(* An upload is its first packet and chunks, as many as it takes.          *)
LEMMA UploadFacts ==
  ASSUME NEW c \in Process, c.info \in TransferInfo
  PROVE  /\ Upload(c) # <<>> /\ Head(Upload(c)) = FirstPacket(c)
         /\ Tail(Upload(c)) \in Chunks /\ Len(Upload(c)) = PacketsOf(FirstPacket(c))
  <1> DEFINE size == ContentOffset + CipherSize(MyFile(c).size)
             N == Packets(size)
             up == [n \in 1..N |-> IF n = 1 THEN FirstPacket(c) ELSE [code |-> "CHUNK"]]
  <1>1. N \in Nat /\ N >= 1
    <2>1. size \in Nat /\ size >= 1
      BY MyFileType DEF CipherSize, ContentOffset, CLIENT_ID_SIZE, HEADER_SIZE,
                        FILE_NAME_SIZE, BLOCK_SIZE
    <2> HIDE DEF size
    <2> QED BY <2>1 DEF Packets, PACKET_SIZE
  <1>2. Upload(c) = up
    BY DEF Upload, FirstPacket
  <1>3. N = PacketsOf(FirstPacket(c))
    BY DEF PacketsOf, FirstPacket
  <1> HIDE DEF N
  <1>4. up \in Seq({FirstPacket(c), Chunk}) /\ Len(up) = N
    BY <1>1 DEF Chunk
  <1>5. up # <<>> /\ Head(up) = FirstPacket(c)
    BY <1>1, <1>4
  <1>6. \A i \in 2..N : up[i] = Chunk
    BY <1>1 DEF Chunk
  <1> HIDE DEF up
  <1>7. Tail(up) \in Seq({Chunk})
    <2> DEFINE S == {FirstPacket(c), Chunk}
    <2>1. up \in Seq(S) /\ up # <<>>
      BY <1>4, <1>5
    <2> HIDE DEF S
    <2>2. PICK t \in Seq(S) : /\ t = Tail(up) /\ Len(t) = Len(up) - 1
                              /\ \A i \in 1..Len(t) : t[i] = up[i + 1]
      BY <2>1, TailIs, Zenon
    <2>3. \A i \in 1..Len(t) : t[i] = Chunk
      BY <1>1, <1>4, <1>6, <2>2
    <2>4. Len(t) \in Nat /\ t = [i \in 1..Len(t) |-> t[i]]
      BY <2>2, LenProperties
    <2>5. t \in Seq({Chunk})
      BY <2>3, <2>4
    <2> QED BY <2>2, <2>5
  <1> QED BY <1>2, <1>3, <1>4, <1>5, <1>7 DEF Chunks

(* What sending, stopping and going back to the loop change of a process.  *)
LEMMA SendsIs ==
  ASSUME NEW c \in Process, c.open, NEW msgs, NEW ret
  PROVE  LET d == Sends(c, msgs, ret)
         IN  /\ d.at = "write" /\ d.toSend = msgs /\ d.ret = ret
             /\ d.info = c.info /\ d.id = c.id /\ d.key = c.key /\ d.queue = c.queue
             /\ d.buf = c.buf /\ d.vresp = c.vresp /\ d.hasKey = c.hasKey
  BY DEF Sends, Process

LEMMA StopsIs ==
  ASSUME NEW c \in Process, NEW how
  PROVE  Stops(c, how).at = "exit" /\ Stops(c, how).info = c.info /\ ~Active(Stops(c, how))
  BY DEF Stops, Process, Active

(* A closed channel stops it, or makes it spin.                            *)
LEMMA NotSentIs ==
  ASSUME NEW c \in Process, NEW ret \in {"read", "crcRead", "exit"}
  PROVE  ~Active(NotSent(c, ret)) /\ NotSent(c, ret).info = c.info
  <1> DEFINE d == [c EXCEPT !.open = FALSE, !.toSend = <<>>]
  <1>1. d \in Process /\ ~d.open /\ d.info = c.info
    BY EmptyIsSeq DEF Process
  <1>2. NotSent(c, ret) \in {Loops(d), [d EXCEPT !.at = "spin"], Stops(d, "error")}
    BY DEF NotSent
  <1>3. [d EXCEPT !.at = "spin"].at = "spin" /\ [d EXCEPT !.at = "spin"].info = c.info
    BY <1>1 DEF Process
  <1> HIDE DEF d
  <1>4. Loops(d) = Stops(d, "returned")
    BY <1>1 DEF Loops
  <1>5. ~Active([d EXCEPT !.at = "spin"])
    BY <1>3 DEF Active
  <1>6. \A how : ~Active(Stops(d, how)) /\ Stops(d, how).info = c.info
    BY <1>1, StopsIs
  <1> QED BY <1>2, <1>3, <1>4, <1>5, <1>6

-----------------------------------------------------------------------------
(* What the two ends of a connection know of each other.                   *)

HasKeyOf(i, key) == clients[i] = None \/ clients[i].aesKey = key

(* The server holds the file of client k, and if no statement fails it is  *)
(* not marked as verified before it is saved.                              *)
InMemory(k, i, f) == f = cl[k].info.file /\ fileDict[<<i, f>>] = MyFile(cl[k])
Held(k, i, f) ==
  /\ InMemory(k, i, f)
  /\ FaultKinds = {} => ~(RowOf(i, f) /\ files[f].varified)

(* A request that has come from client k.                                  *)
Sound(k, m) ==
  /\ m.code = "SEND_FILE" =>
       m.data = MyFile(cl[k]) /\ m.file = cl[k].info.file /\ HasKeyOf(m.id, m.key)
  /\ m.code = "CRC_VALID" => Held(k, m.id, m.file)

(* An answer on its way to client k.                                       *)
GoodReply(k, m) ==
  /\ m.code = "PUBLIC_KEY_RECEIVED" => m.val = None \/ clients[cl[k].id].aesKey = m.val
  /\ m.code = "MSG_RECEIVED_CRC" => Held(k, cl[k].id, cl[k].info.file)

(* Its session key is the server's.                                        *)
Knows(k) == cl[k].key # None => HasKeyOf(cl[k].id, cl[k].key)

-----------------------------------------------------------------------------
(* The stages of a conversation, by whose turn it is.                      *)

(* The client asks; the thread waits for the first packet, or for the lock.*)
Awaits(k) ==
  LET c == cl[k]
      s == toServer[k]
  IN  /\ pc[k] \in {"none", "recv"} /\ toClient[k] = <<>> /\ out[k] = <<>>
      /\ s # <<>> =>
           /\ Head(s).code # "CHUNK" /\ Tail(s) \in Chunks /\ Len(s) <= PacketsOf(Head(s))
           /\ pc[k] = "none" => Head(s).code \in {"REGISTRATION", "PUBLIC_KEY"}
           /\ pc[k] = "recv" => Sound(k, Head(s))
      /\ Active(c) =>
           /\ pc[k] = "none" => c.queue # <<>>
           /\ pc[k] = "recv" => Knows(k) /\ (Uploaded(c) => Held(k, c.id, c.info.file))
           /\ s = <<>> => Asking(c)
           /\ s # <<>> => /\ Head(s) = Ask(c) /\ c.toSend \in Chunks
                          /\ Len(s) + Len(c.toSend) = PacketsOf(Ask(c))

(* The thread takes the chunks of an upload.                               *)
Takes(k) ==
  LET c == cl[k]
      s == toServer[k]
  IN  /\ pc[k] = "file" /\ toClient[k] = <<>> /\ out[k] = <<>>
      /\ s \in Chunks /\ req[k].code = "SEND_FILE" /\ Sound(k, req[k])
      /\ left[k] > 0 /\ PACKET_SIZE * (Len(s) - 1) < left[k]
      /\ Active(c) =>
           /\ Knows(k) /\ req[k] = Ask(c) /\ c.toSend \in Chunks
           /\ PACKET_SIZE * (Len(s) + Len(c.toSend) - 1) < left[k]
           /\ left[k] <= PACKET_SIZE * (Len(s) + Len(c.toSend))

(* A handler has its whole request, and the client waits.                  *)
Handling == {"addClient", "setSymKey", "decrypt", "commitFile", "save", "mark"}
Handles(k) ==
  LET c == cl[k]
      m == req[k]
  IN  /\ pc[k] \in Handling /\ toClient[k] = <<>> /\ out[k] = <<>> /\ toServer[k] = <<>>
      /\ pc[k] = "decrypt" => m.code = "SEND_FILE" /\ Sound(k, m)
      /\ pc[k] = "commitFile" => m.code = "SEND_FILE" /\ InMemory(k, m.id, m.file)
      /\ pc[k] \in {"save", "mark"} => m.code = "CRC_VALID"
      /\ pc[k] = "save" => Held(k, m.id, m.file)
      /\ Active(c) => m = Ask(c) /\ c.toSend = <<>> /\ Knows(k)

(* The thread has an answer to write, other than a refusal.                *)
Told(k, m) == m # Failed /\ (Active(cl[k]) => /\ cl[k].toSend = <<>> /\ Knows(k)
                                              /\ Answers(cl[k], m) /\ GoodReply(k, m))
Replies(k) ==
  /\ pc[k] = "write" /\ toClient[k] = <<>> /\ toServer[k] = <<>>
  /\ Told(k, Head(out[k])) /\ Tail(out[k]) \in Refusals

(* The client has one to read.                                             *)
Hears(k) ==
  /\ pc[k] = "recv" /\ out[k] = <<>> /\ toServer[k] = <<>>
  /\ toClient[k] # <<>> /\ Told(k, Head(toClient[k])) /\ Tail(toClient[k]) = <<>>

(* The thread is about to leave, with nothing but refusals to write: after *)
(* one, write() gives the lock back.                                       *)
Quits(k) ==
  /\ pc[k] \in {"write", "release", "close", "done", "dead"}
  /\ pc[k] # "write" => out[k] = <<>>
  /\ out[k] \in Refusals
  /\ toClient[k] # <<>> => /\ Tail(toClient[k]) \in Refusals
                           /\ Active(cl[k]) => Answers(cl[k], Head(toClient[k]))

Stage(k) == Awaits(k) \/ Takes(k) \/ Handles(k) \/ Replies(k) \/ Hears(k) \/ Quits(k)

(* The life of a connection.                                               *)
EndsOK(k) ==
  /\ Started(cl[k]) => cliEnd[k] = "open"
  /\ cliEnd[k] # "unused" => srvEnd[k] # "unused"
  /\ srvEnd[k] = "closed" => pc[k] \in {"done", "dead"}

LineOK ==
  /\ \A m \in 1..Len(backlog) :
       /\ pc[backlog[m]] = "none"
       /\ \A n \in 1..Len(backlog) : backlog[m] = backlog[n] => m = n
  /\ main = "acquire" => /\ pc[mainConn] = "none"
                         /\ \A n \in 1..Len(backlog) : backlog[n] # mainConn

Conv(k) == (Active(cl[k]) => QueueOK(cl[k])) /\ Stage(k) /\ EndsOK(k)
CInv == TInv /\ LineOK /\ \A k \in Conns : Conv(k)

-----------------------------------------------------------------------------
(* The steps of the others.                                                *)

(* What is known of the data stays so as long as the data do.              *)
LEMMA DataStays ==
  ASSUME NEW k \in Conns, cl'[k] = cl[k], UNCHANGED <<clients, files, fileDict>>
  PROVE  /\ \A i, f : Held(k, i, f)' <=> Held(k, i, f)
         /\ \A i, f : InMemory(k, i, f)' <=> InMemory(k, i, f)
         /\ \A m : Sound(k, m)' <=> Sound(k, m)
         /\ \A m : GoodReply(k, m)' <=> GoodReply(k, m)
         /\ Knows(k)' <=> Knows(k)
  BY DEF Held, InMemory, Sound, GoodReply, Knows, HasKeyOf, RowOf

(* Whatever leaves a connection, its client and its thread alone, and the  *)
(* data while the thread has the lock, leaves its conversation alone.      *)
LEMMA StageStays ==
  ASSUME NEW k \in Conns, Stage(k),
         cl'[k] = cl[k], toServer'[k] = toServer[k], toClient'[k] = toClient[k],
         pc'[k] = pc[k], req'[k] = req[k], left'[k] = left[k], out'[k] = out[k],
         pc[k] \in Holding => UNCHANGED <<clients, files, fileDict>>
  PROVE  Stage(k)'
  <1>1. ASSUME UNCHANGED <<clients, files, fileDict>>
        PROVE  /\ \A i, f : Held(k, i, f)' <=> Held(k, i, f)
               /\ \A i, f : InMemory(k, i, f)' <=> InMemory(k, i, f)
               /\ \A m : Sound(k, m)' <=> Sound(k, m)
               /\ \A m : GoodReply(k, m)' <=> GoodReply(k, m)
               /\ Knows(k)' <=> Knows(k)
    BY <1>1, DataStays
  <1>2. CASE Awaits(k) /\ pc[k] = "none"
    BY <1>2 DEF Awaits, Stage
  <1>3. CASE Awaits(k) /\ pc[k] = "recv"
    BY <1>1, <1>3 DEF Awaits, Stage, Holding
  <1>4. CASE Takes(k)
    BY <1>1, <1>4 DEF Takes, Stage, Holding
  <1>5. CASE Handles(k)
    BY <1>1, <1>5 DEF Handles, Handling, Stage, Holding
  <1>6. CASE Replies(k) \/ Hears(k)
    BY <1>1, <1>6 DEF Replies, Hears, Told, Stage, Holding
  <1>7. CASE Quits(k)
    BY <1>7 DEF Quits, Stage
  <1> QED BY <1>2, <1>3, <1>4, <1>5, <1>6, <1>7 DEF Stage, Awaits

(* A thread without the lock only closes its connection.                   *)
LEMMA OnlyCloses ==
  ASSUME NEW j \in Conns, Thread(j), pc[j] \notin Holding
  PROVE  UNCHANGED <<dbVars, storeVars>>
  <1>1. pc[j] = "close"
    BY ThreadRuns
  <1>2. CASE Handle(j)
    BY <1>1, <1>2 DEF Handle, CheckName, AddClient, SetPublicKey, SetSymmetricKey,
                RecvFileHead, RecvFileChunk, RecvFileRaises, StoreFile, CommitFile,
                CrcValid, SaveFile, MarkVarified, Resend, Abort, UnknownRequest,
                Receives
  <1>3. CASE ~Handle(j)
    BY <1>1, <1>3 DEF Thread, Write, WriteRaises, RecvEof, RecvRaises, Release, Close,
                DropSocket
  <1> QED BY <1>2, <1>3

-----------------------------------------------------------------------------
(* How a thread leaves the stage it is in.                                 *)

(* It refuses, or dies.                                                    *)
LEMMA LeavesNow ==
  ASSUME IInv, NEW k \in Conns, out[k] = <<>>, toClient'[k] = <<>>,
         Refuse(k) \/ Dies(k) \/ \E r : Answer(k, r, <<Failed>>)
  PROVE  Stage(k)'
  <1>1. pc \in [Conns -> ThreadState] /\ out \in [Conns -> Seq(Response)]
    BY DEF IInv, TypeOK, ThreadTypeOK
  <1>2. \/ pc'[k] = "dead" /\ out'[k] = <<>>
        \/ pc'[k] = "write" /\ out'[k] \in {<<Failed>>, <<Failed, Failed>>}
    BY <1>1 DEF Refuse, Dies, Answer, Proceed
  <1> QED BY <1>2, RefusalFacts DEF Stage, Quits

(* It has an answer.                                                       *)
LEMMA RepliesNow ==
  ASSUME IInv, NEW k \in Conns, NEW r, NEW m,
         Answer(k, r, <<m>>) \/ Answer(k, r, <<m, Failed>>),
         toClient'[k] = <<>>, toServer'[k] = <<>>, Told(k, m)'
  PROVE  Stage(k)'
  <1>1. pc \in [Conns -> ThreadState] /\ out \in [Conns -> Seq(Response)]
    BY DEF IInv, TypeOK, ThreadTypeOK
  <1>2. pc'[k] = "write" /\ out'[k] \in {<<m>>, <<m, Failed>>}
    BY <1>1 DEF Answer
  <1>3. Head(out'[k]) = m /\ Tail(out'[k]) \in Refusals
    BY <1>2, RefusalFacts
  <1> QED BY <1>2, <1>3 DEF Stage, Replies

(* Replies that are no refusals.                                           *)
LEMMA RepliesOther ==
  ASSUME NEW code \in {"REGISTRATION_SUCCEEDED", "PUBLIC_KEY_RECEIVED",
                       "MSG_RECEIVED_CRC", "MSG_RECEIVED"}, NEW v
  PROVE  Reply(code, v) # Failed /\ Reply(code, v).code = code /\ Reply(code, v).val = v
  BY DEF Reply, Failed

(* It receives the packet the client has sent first.                       *)
LEMMA ReceivesRequest ==
  ASSUME TInv, NEW k \in Conns, Stage(k), NEW m, pc[k] = "recv", ServerRecv(k, m)
  PROVE  /\ m \in Request /\ m.code # "CHUNK" /\ Sound(k, m)
         /\ out[k] = <<>> /\ toClient'[k] = <<>> /\ toServer'[k] \in Chunks
         /\ Len(toServer'[k]) + 1 <= PacketsOf(m)
         /\ m.code # "SEND_FILE" => toServer'[k] = <<>>
         /\ Active(cl[k]) =>
              /\ m = Ask(cl[k]) /\ Knows(k) /\ cl[k].toSend \in Chunks
              /\ Uploaded(cl[k]) => Held(k, cl[k].id, cl[k].info.file)
              /\ Len(toServer'[k]) + 1 + Len(cl[k].toSend) = PacketsOf(m)
              /\ m.code # "SEND_FILE" => cl[k].toSend = <<>>
  <1> DEFINE s == toServer[k]
  <1>1. /\ s \in Seq(Request) /\ toServer \in [Conns -> Seq(Request)]
        /\ toClient \in [Conns -> Seq(Response)]
    BY DEF TInv, IInv, TypeOK, ChannelTypeOK
  <1>2. /\ pc[k] = "recv" /\ s # <<>> /\ m = Head(s) /\ toServer'[k] = Tail(s)
        /\ toClient' = toClient
    BY <1>1 DEF ServerRecv
  <1>3. Awaits(k)
    BY <1>2 DEF Stage, Takes, Handles, Handling, Replies, Hears, Quits
  <1>4. m \in Request /\ Len(Tail(s)) = Len(s) - 1 /\ Len(s) \in Nat
    BY <1>1, <1>2, SeqFacts
  <1>5. /\ m.code # "CHUNK" /\ Sound(k, m) /\ out[k] = <<>> /\ toClient'[k] = <<>>
        /\ Tail(s) \in Chunks /\ Len(s) <= PacketsOf(m)
        /\ Active(cl[k]) =>
             /\ m = Ask(cl[k]) /\ Knows(k) /\ cl[k].toSend \in Chunks
             /\ Uploaded(cl[k]) => Held(k, cl[k].id, cl[k].info.file)
             /\ Len(s) + Len(cl[k].toSend) = PacketsOf(m)
    BY <1>2, <1>3 DEF Awaits
  <1> HIDE DEF s
  <1>6. Len(Tail(s)) \in Nat /\ (Tail(s) = <<>> <=> Len(Tail(s)) = 0)
    BY <1>5, SeqFacts DEF Chunks
  <1>7. Active(cl[k]) => /\ Len(cl[k].toSend) \in Nat
                         /\ cl[k].toSend = <<>> <=> Len(cl[k].toSend) = 0
    BY <1>5, SeqFacts DEF Chunks
  <1>8. m.code # "SEND_FILE" => PacketsOf(m) = 1
    BY DEF PacketsOf
  <1> QED BY <1>2, <1>4, <1>5, <1>6, <1>7, <1>8

-----------------------------------------------------------------------------
(* The handlers.                                                           *)

LEMMA CheckNameConv ==
  ASSUME TInv, NEW k \in Conns, Conv(k), NEW m, CheckName(k, m), UNCHANGED clientVars
  PROVE  Stage(k)'
  <1>1. IInv /\ Stage(k) /\ GoodProcess(cl[k]) /\ (Active(cl[k]) => QueueOK(cl[k]))
    BY DEF TInv, Conv, ClientOK
  <1>2. /\ m.code = "REGISTRATION" /\ out[k] = <<>> /\ toClient'[k] = <<>>
        /\ toServer'[k] = <<>>
        /\ Active(cl[k]) => m = Ask(cl[k]) /\ cl[k].toSend = <<>>
    <2>1. m.code = "REGISTRATION" /\ pc[k] = "recv" /\ ServerRecv(k, m)
      BY DEF CheckName, Receives
    <2> QED BY <1>1, <2>1, ReceivesRequest
  <1>3. CASE Refuse(k)
    BY <1>1, <1>2, <1>3, LeavesNow
  <1>4. CASE Proceed(k, "addClient", m, 0)
    <2>1. pc'[k] = "addClient" /\ req'[k] = m /\ out'[k] = <<>>
      BY <1>1, <1>2, <1>4 DEF Proceed, IInv, TypeOK, ThreadTypeOK
    <2>2. Active(cl[k]) => cl[k].key = None
      BY <1>1, <1>2, AskSays DEF QueueOK
    <2> QED BY <1>2, <2>1, <2>2 DEF Stage, Handles, Handling, Knows, clientVars
  <1> QED BY <1>3, <1>4 DEF CheckName

LEMMA AddClientConv ==
  ASSUME TInv, NEW k \in Conns, Conv(k), AddClient(k), UNCHANGED clientVars
  PROVE  Stage(k)'
  <1>1. /\ IInv /\ Stage(k) /\ GoodProcess(cl[k]) /\ (Active(cl[k]) => QueueOK(cl[k]))
        /\ req[k] \in RegistrationRequest
    BY DEF TInv, Conv, ClientOK, IInv, HandlerOK, AddClient
  <1>2. Handles(k)
    BY <1>1 DEF AddClient, Stage, Awaits, Takes, Replies, Hears, Quits
  <1>3. /\ toClient'[k] = <<>> /\ toServer'[k] = <<>> /\ out[k] = <<>>
        /\ Active(cl[k]) => req[k] = Ask(cl[k]) /\ cl[k].toSend = <<>>
    BY <1>2 DEF Handles, AddClient, channelVars
  <1>4. CASE Refuse(k)
    BY <1>1, <1>3, <1>4, LeavesNow
  <1>5. ASSUME NEW i \in Ids, Answer(k, req[k], <<Reply("REGISTRATION_SUCCEEDED", i)>>)
        PROVE  Stage(k)'
    <2> DEFINE m == Reply("REGISTRATION_SUCCEEDED", i)
    <2>1. m # Failed /\ m.code = "REGISTRATION_SUCCEEDED"
      BY RepliesOther
    <2> HIDE DEF m
    <2>2. Active(cl[k]) => cl[k].key = None /\ Ask(cl[k]).code = "REGISTRATION"
      <3>1. req[k].code = "REGISTRATION"
        BY <1>1 DEF RegistrationRequest
      <3> QED BY <1>1, <1>3, <3>1, AskSays DEF QueueOK
    <2>3. Told(k, m)'
      <3>1. cl' = cl
        BY DEF clientVars
      <3>2. GoodReply(k, m)'
        BY <2>1 DEF GoodReply
      <3>3. Active(cl[k]) => Answers(cl[k], m)
        BY <2>1, <2>2 DEF Answers, Answering
      <3> QED BY <1>3, <2>1, <2>2, <3>1, <3>2, <3>3 DEF Told, Knows
    <2> QED BY <1>1, <1>3, <1>5, <2>3, RepliesNow DEF m
  <1> QED BY <1>4, <1>5 DEF AddClient

LEMMA SetPublicKeyConv ==
  ASSUME TInv, NEW k \in Conns, Conv(k), NEW m, SetPublicKey(k, m), UNCHANGED clientVars
  PROVE  Stage(k)'
  <1>1. IInv /\ Stage(k) /\ GoodProcess(cl[k]) /\ (Active(cl[k]) => QueueOK(cl[k]))
    BY DEF TInv, Conv, ClientOK
  <1>2. /\ m.code = "PUBLIC_KEY" /\ out[k] = <<>> /\ toClient'[k] = <<>>
        /\ toServer'[k] = <<>>
        /\ Active(cl[k]) => m = Ask(cl[k]) /\ cl[k].toSend = <<>>
    <2>1. m.code = "PUBLIC_KEY" /\ pc[k] = "recv" /\ ServerRecv(k, m)
      BY DEF SetPublicKey, Receives
    <2> QED BY <1>1, <2>1, ReceivesRequest
  <1>3. CASE Refuse(k)
    BY <1>1, <1>2, <1>3, LeavesNow
  <1>4. CASE Proceed(k, "setSymKey", m, 0)
    <2>1. pc'[k] = "setSymKey" /\ req'[k] = m /\ out'[k] = <<>>
      BY <1>1, <1>2, <1>4 DEF Proceed, IInv, TypeOK, ThreadTypeOK
    <2>2. Active(cl[k]) => cl[k].key = None
      BY <1>1, <1>2, AskSays DEF QueueOK
    <2> QED BY <1>2, <2>1, <2>2 DEF Stage, Handles, Handling, Knows, clientVars
  <1> QED BY <1>3, <1>4 DEF SetPublicKey

LEMMA SetSymmetricKeyConv ==
  ASSUME TInv, NEW k \in Conns, Conv(k), SetSymmetricKey(k), UNCHANGED clientVars
  PROVE  Stage(k)'
  <1>1. /\ IInv /\ Stage(k) /\ GoodProcess(cl[k]) /\ (Active(cl[k]) => QueueOK(cl[k]))
        /\ req[k] \in PublicKeyRequest /\ clients[req[k].id] # None
        /\ clients \in [Ids -> Client \cup {None}]
    BY DEF TInv, Conv, ClientOK, IInv, TypeOK, StoreTypeOK, HandlerOK, SetSymmetricKey
  <1>2. Handles(k)
    BY <1>1 DEF SetSymmetricKey, Stage, Awaits, Takes, Replies, Hears, Quits
  <1>3. /\ toClient'[k] = <<>> /\ toServer'[k] = <<>> /\ out[k] = <<>>
        /\ Active(cl[k]) => req[k] = Ask(cl[k]) /\ cl[k].toSend = <<>>
    BY <1>2 DEF Handles, SetSymmetricKey, channelVars
  <1>4. CASE Dies(k) \/ Answer(k, None, <<Failed>>)
    BY <1>1, <1>3, <1>4, LeavesNow
  <1>5. ASSUME NEW key \in Keys, clients' = [clients EXCEPT ![req[k].id].aesKey = key],
               Answer(k, req[k], <<Reply("PUBLIC_KEY_RECEIVED", key)>>)
        PROVE  Stage(k)'
    <2> DEFINE m == Reply("PUBLIC_KEY_RECEIVED", key)
    <2>1. m # Failed /\ m.code = "PUBLIC_KEY_RECEIVED" /\ m.val = key
      BY RepliesOther
    <2> HIDE DEF m
    <2>2. Active(cl[k]) => /\ cl[k].key = None /\ Ask(cl[k]).code = "PUBLIC_KEY"
                           /\ cl[k].id = req[k].id
      <3>1. req[k].code = "PUBLIC_KEY"
        BY <1>1 DEF PublicKeyRequest
      <3>2. PublicKey(cl[k]).id = cl[k].id
        BY DEF PublicKey
      <3> QED BY <1>1, <1>3, <3>1, <3>2, AskSays DEF QueueOK
    <2>3. clients'[req[k].id].aesKey = key
      <3>1. req[k].id \in Ids
        BY <1>1 DEF PublicKeyRequest
      <3>2. clients[req[k].id] \in Client
        BY <1>1, <3>1
      <3>3. clients'[req[k].id] = [clients[req[k].id] EXCEPT !.aesKey = key]
        BY <1>1, <1>5, <3>1
      <3> QED BY <3>2, <3>3 DEF Client
    <2>4. Told(k, m)'
      <3>1. cl' = cl
        BY DEF clientVars
      <3>2. Active(cl[k]) => GoodReply(k, m)'
        BY <2>1, <2>2, <2>3, <3>1 DEF GoodReply
      <3>3. Active(cl[k]) => Answers(cl[k], m)
        BY <2>1, <2>2 DEF Answers, Answering
      <3> QED BY <1>3, <2>1, <2>2, <3>1, <3>2, <3>3 DEF Told, Knows
    <2> QED BY <1>1, <1>3, <1>5, <2>4, RepliesNow DEF m
  <1> QED BY <1>4, <1>5 DEF SetSymmetricKey, FreshKeys

(* How much of an upload its packets carry: the first has the fields       *)
(* before the content, and only the last may be not full.                  *)
LEMMA PacketsCarry ==
  ASSUME NEW enc \in Nat
  PROVE  LET N == Packets(ContentOffset + enc)
         IN  /\ N \in Nat /\ N >= 1
             /\ PACKET_SIZE * N >= enc + ContentOffset
             /\ PACKET_SIZE * N < enc + ContentOffset + PACKET_SIZE
  BY DEF Packets, ContentOffset, PACKET_SIZE, CLIENT_ID_SIZE, HEADER_SIZE, FILE_NAME_SIZE

LEMMA RecvFileHeadConv ==
  ASSUME TInv, NEW k \in Conns, Conv(k), NEW m, RecvFileHead(k, m), UNCHANGED clientVars
  PROVE  Stage(k)'
  <1>1. /\ IInv /\ Stage(k) /\ cl'[k] = cl[k]
        /\ UNCHANGED <<clients, files, fileDict>>
    BY DEF TInv, Conv, clientVars, RecvFileHead, dbVars, storeVars
  <1>2. m.code = "SEND_FILE" /\ pc[k] = "recv" /\ ServerRecv(k, m)
    BY DEF RecvFileHead, Receives
  <1>3. /\ m \in Request /\ Sound(k, m) /\ out[k] = <<>> /\ toClient'[k] = <<>>
        /\ toServer'[k] \in Chunks /\ Len(toServer'[k]) + 1 <= PacketsOf(m)
        /\ Active(cl[k]) =>
             /\ m = Ask(cl[k]) /\ Knows(k) /\ cl[k].toSend \in Chunks
             /\ Len(toServer'[k]) + 1 + Len(cl[k].toSend) = PacketsOf(m)
    BY <1>1, <1>2, ReceivesRequest
  <1>4. Sound(k, m)' /\ (Knows(k)' <=> Knows(k))
    BY <1>1, <1>3, DataStays
  <1> DEFINE enc == CipherSize(m.data.size)
             rest == enc - HeadBytes(enc)
             N == Packets(ContentOffset + enc)
             n == Len(toServer'[k])
  <1>5. CASE Refuse(k)
    BY <1>1, <1>3, <1>5, LeavesNow
  <1>6. CASE /\ HeadUnpacks(enc)
             /\ Proceed(k, IF rest > 0 THEN "file" ELSE "decrypt", m, rest)
    <2>1. enc \in Nat
      <3>1. m \in SendFileRequest
        BY <1>2, <1>3, RequestByCode
      <3>2. m.data.size \in Nat
        BY <3>1, ContentSize DEF SendFileRequest
      <3> QED BY <3>2 DEF CipherSize, BLOCK_SIZE
    <2>2. PacketsOf(m) = N
      BY <1>2 DEF PacketsOf
    <2>3. /\ pc'[k] = (IF rest > 0 THEN "file" ELSE "decrypt") /\ req'[k] = m
          /\ left'[k] = rest /\ out'[k] = <<>>
      BY <1>1, <1>3, <1>6 DEF Proceed, IInv, TypeOK, ThreadTypeOK
    <2>4. n \in Nat /\ (n = 0 <=> toServer'[k] = <<>>)
      BY <1>3, SeqFacts DEF Chunks
    <2>5. Active(cl[k]) => /\ Len(cl[k].toSend) \in Nat
                           /\ Len(cl[k].toSend) = 0 <=> cl[k].toSend = <<>>
      BY <1>3, SeqFacts DEF Chunks
    <2>6. /\ N \in Nat /\ N >= 1 /\ PACKET_SIZE * N >= enc + ContentOffset
          /\ PACKET_SIZE * N < enc + ContentOffset + PACKET_SIZE
      BY <2>1, PacketsCarry
    <2>7. /\ rest \in Int /\ rest >= 0
          /\ rest > 0 => rest = enc - (PACKET_SIZE - ContentOffset)
          /\ ~(rest > 0) => enc + ContentOffset <= PACKET_SIZE
      <3>1. HeadUnpacks(enc)
        BY <1>6
      <3> HIDE DEF enc
      <3> QED BY <2>1, <3>1 DEF HeadUnpacks, HeadBytes, PACKET_SIZE, ContentOffset,
                CLIENT_ID_SIZE, HEADER_SIZE, FILE_NAME_SIZE
    <2> HIDE DEF enc, rest, N, n
    <2>8. CASE rest > 0
      <3>1. PACKET_SIZE * (n - 1) < rest
        BY <1>3, <2>1, <2>2, <2>4, <2>6, <2>7, <2>8
           DEF n, PACKET_SIZE, ContentOffset, CLIENT_ID_SIZE, HEADER_SIZE, FILE_NAME_SIZE
      <3>2. Active(cl[k]) => /\ PACKET_SIZE * (n + Len(cl[k].toSend) - 1) < rest
                             /\ rest <= PACKET_SIZE * (n + Len(cl[k].toSend))
        <4> DEFINE t == Len(cl[k].toSend)
        <4>1. Active(cl[k]) => t \in Nat /\ n + 1 + t = N
          BY <1>3, <2>2, <2>5 DEF n
        <4> HIDE DEF t
        <4>2. Active(cl[k]) => /\ PACKET_SIZE * (n + t - 1) < rest
                               /\ rest <= PACKET_SIZE * (n + t)
          BY <2>1, <2>4, <2>6, <2>7, <2>8, <4>1, SMTT(30)
            DEF PACKET_SIZE, ContentOffset, CLIENT_ID_SIZE, HEADER_SIZE, FILE_NAME_SIZE
        <4> QED BY <4>2 DEF t
      <3>3. Takes(k)'
        BY <1>1, <1>2, <1>3, <1>4, <2>3, <2>8, <3>1, <3>2 DEF Takes, n
      <3> QED BY <3>3 DEF Stage
    <2>9. CASE ~(rest > 0)
      <3>1. N = 1
        BY <2>1, <2>6, <2>7, <2>9 DEF PACKET_SIZE, ContentOffset, CLIENT_ID_SIZE,
                                     HEADER_SIZE, FILE_NAME_SIZE
      <3>2. toServer'[k] = <<>> /\ (Active(cl[k]) => cl[k].toSend = <<>>)
        <4> DEFINE t == Len(cl[k].toSend)
        <4>1. n + 1 <= 1 /\ (Active(cl[k]) => n + 1 + t = 1 /\ t \in Nat)
          BY <1>3, <2>2, <2>5, <3>1 DEF n
        <4> HIDE DEF t
        <4>2. n = 0 /\ (Active(cl[k]) => t = 0)
          BY <2>4, <4>1
        <4> QED BY <2>4, <2>5, <4>2 DEF t
      <3>3. pc'[k] = "decrypt" /\ req'[k] = m /\ out'[k] = <<>>
        BY <2>3, <2>9
      <3>4. Active(cl[k])' <=> Active(cl[k])
        BY <1>1
      <3>5. Sound(k, req[k])'
        BY <1>4, <3>3
      <3>6. Handles(k)'
        BY <1>1, <1>2, <1>3, <1>4, <3>2, <3>3, <3>4, <3>5 DEF Handles, Handling
      <3> QED BY <3>6 DEF Stage
    <2> QED BY <2>8, <2>9
  <1> QED BY <1>5, <1>6 DEF RecvFileHead

LEMMA RecvFileChunkConv ==
  ASSUME TInv, NEW k \in Conns, Conv(k), RecvFileChunk(k), UNCHANGED clientVars
  PROVE  Stage(k)'
  <1> DEFINE s == toServer[k]
             t == cl[k].toSend
             rest == IF left[k] > PACKET_SIZE THEN left[k] - PACKET_SIZE ELSE 0
  <1>1. /\ IInv /\ Stage(k) /\ cl'[k] = cl[k] /\ cl[k] \in Process
        /\ UNCHANGED <<clients, files, fileDict>>
        /\ req[k] \in Uploading /\ left[k] \in Nat
        /\ toServer \in [Conns -> Seq(Request)]
    BY DEF TInv, Conv, clientVars, RecvFileChunk, dbVars, storeVars, IInv, HandlerOK,
           TypeOK, ThreadTypeOK, ChannelTypeOK
  <1>2. Takes(k)
    BY <1>1 DEF RecvFileChunk, Stage, Awaits, Handles, Handling, Replies, Hears, Quits
  <1>3. s # <<>> /\ s \in Chunks /\ Head(s) = Chunk /\ Tail(s) \in Chunks
        /\ Len(Tail(s)) = Len(s) - 1 /\ Len(s) \in Nat /\ Len(Tail(s)) \in Nat
        /\ (Tail(s) = <<>> <=> Len(Tail(s)) = 0)
    <2>1. s # <<>> /\ s \in Chunks
      BY <1>2 DEF RecvFileChunk, Takes
    <2>2. Head(s) \in {Chunk} /\ Tail(s) \in Chunks /\ Len(Tail(s)) = Len(s) - 1
      BY <2>1, SeqFacts DEF Chunks
    <2> QED BY <2>1, <2>2, SeqFacts DEF Chunks
  <1>4. /\ toServer'[k] = Tail(s) /\ toClient'[k] = <<>> /\ out'[k] = <<>> /\ req'[k] = req[k]
        /\ pc'[k] = (IF rest > 0 THEN "file" ELSE "decrypt") /\ left'[k] = rest
    <2>1. ServerRecv(k, Head(s)) /\ toServer'[k] = Tail(s) /\ toClient'[k] = <<>>
      BY <1>1, <1>2 DEF RecvFileChunk, ServerRecv, Takes
    <2>2. Proceed(k, IF rest > 0 THEN "file" ELSE "decrypt",
                  [req[k] EXCEPT !.data = req[k].data], rest)
      BY <1>3 DEF RecvFileChunk, Chunk
    <2>3. [req[k] EXCEPT !.data = req[k].data] = req[k]
      BY <1>1 DEF Uploading, SendFileRequest
    <2> HIDE DEF rest
    <2> QED BY <1>1, <1>2, <2>1, <2>2, <2>3 DEF Proceed, Takes, IInv, TypeOK, ThreadTypeOK
  <1>5. \A m : Sound(k, m)' <=> Sound(k, m)
    BY <1>1, DataStays
  <1>6. Knows(k)' <=> Knows(k)
    BY <1>1, DataStays
  <1>7. /\ req[k].code = "SEND_FILE" /\ Sound(k, req[k])' /\ left[k] > 0
        /\ PACKET_SIZE * (Len(s) - 1) < left[k]
        /\ Active(cl[k]) => /\ Knows(k)' /\ req[k] = Ask(cl[k]) /\ t \in Chunks
                            /\ PACKET_SIZE * (Len(s) + Len(t) - 1) < left[k]
                            /\ left[k] <= PACKET_SIZE * (Len(s) + Len(t))
    <2>1. Sound(k, req[k])'
      <3>1. Sound(k, req[k]) /\ req'[k] = req[k]
        BY <1>2, <1>4 DEF Takes
      <3> QED BY <1>5, <3>1
    <2> QED BY <1>2, <1>6, <2>1 DEF Takes
  <1>8. Active(cl[k]) => Len(t) \in Nat /\ (t = <<>> <=> Len(t) = 0)
    BY <1>7, SeqFacts DEF Chunks
  <1> DEFINE n == Len(s)
             j == Len(t)
             l == left[k]
  <1>9. /\ n \in Nat /\ l \in Nat /\ PACKET_SIZE * (n - 1) < l
        /\ Active(cl[k]) => /\ j \in Nat /\ PACKET_SIZE * (n + j - 1) < l
                            /\ l <= PACKET_SIZE * (n + j)
        /\ rest = (IF l > PACKET_SIZE THEN l - PACKET_SIZE ELSE 0)
    BY <1>1, <1>3, <1>7, <1>8
  <1>10. Len(Tail(s)) = n - 1 /\ (Tail(s) = <<>> <=> n = 1)
    BY <1>3
  <1> HIDE DEF rest, n, j, l
  <1>11. CASE rest > 0
    <2>1. /\ PACKET_SIZE * (n - 1 - 1) < rest
          /\ Active(cl[k]) => /\ PACKET_SIZE * (n - 1 + j - 1) < rest
                              /\ rest <= PACKET_SIZE * (n - 1 + j)
      BY <1>9, <1>11 DEF PACKET_SIZE
    <2>2. pc'[k] = "file" /\ left'[k] = rest
      BY <1>4, <1>11
    <2>3. Sound(k, req[k])' /\ (Active(cl[k])' <=> Active(cl[k]))
      BY <1>1, <1>7
    <2>4. Takes(k)'
      BY <1>1, <1>3, <1>4, <1>7, <1>10, <1>11, <2>1, <2>2, <2>3 DEF Takes, j
    <2> QED BY <2>4 DEF Stage
  <1>12. CASE ~(rest > 0)
    <2>1. n = 1 /\ (Active(cl[k]) => j = 0)
      <3>1. n >= 1
        BY <1>3 DEF n, Chunks
      <3> QED BY <1>9, <1>12, <3>1 DEF PACKET_SIZE
    <2>2. toServer'[k] = <<>> /\ (Active(cl[k]) => t = <<>>)
      BY <1>4, <1>8, <1>10, <2>1 DEF j
    <2>3. pc'[k] = "decrypt" /\ Sound(k, req[k])' /\ (Active(cl[k])' <=> Active(cl[k]))
      BY <1>1, <1>4, <1>7, <1>12
    <2>4. Handles(k)'
      BY <1>1, <1>4, <1>7, <2>2, <2>3 DEF Handles, Handling
    <2> QED BY <2>4 DEF Stage
  <1> QED BY <1>11, <1>12
LEMMA RecvFileRaisesConv ==
  ASSUME TInv, NEW k \in Conns, Conv(k), RecvFileRaises(k)
  PROVE  Stage(k)'
  <1>1. IInv /\ Stage(k)
    BY DEF TInv, Conv
  <1>2. Takes(k)
    BY <1>1 DEF RecvFileRaises, Stage, Awaits, Handles, Handling, Replies, Hears, Quits
  <1>3. out[k] = <<>> /\ toClient'[k] = <<>> /\ Refuse(k)
    BY <1>2 DEF Takes, RecvFileRaises, ServerRecvRaises, ServerReset
  <1> QED BY <1>1, <1>3, LeavesNow

(* What the server decrypts is the client's file.                          *)
LEMMA SoundDecrypts ==
  ASSUME IInv, NEW k \in Conns, NEW m \in Uploading, m.code = "SEND_FILE", Sound(k, m),
         clients[m.id] # None
  PROVE  /\ Decrypt(clients[m.id].aesKey, m) = MyFile(cl[k])
         /\ MyFile(cl[k]) \in Contents \cup {Garbage} /\ MyFile(cl[k]) # NullContent
  <1>1. clients[m.id].aesKey = m.key /\ m.data = MyFile(cl[k])
    BY DEF Sound, HasKeyOf
  <1>2. m.key # None /\ m.data \in Contents \cup {Garbage}
    BY NoneAssumption DEF Uploading, SendFileRequest
  <1>3. NullContent \notin Contents \cup {Garbage}
    BY BodyAssumption DEF Contents, NullContent, Garbage, NoBytes, Padded
  <1> QED BY <1>1, <1>2, <1>3 DEF Decrypt

LEMMA StoreFileConv ==
  ASSUME TInv, NEW k \in Conns, Conv(k), StoreFile(k), UNCHANGED clientVars
  PROVE  Stage(k)'
  <1> DEFINE m == req[k]
  <1>1. /\ IInv /\ Stage(k) /\ cl' = cl /\ m \in Uploading
        /\ fileDict \in [Ids \X FileNames -> Stored]
    BY DEF TInv, Conv, clientVars, IInv, HandlerOK, TypeOK, StoreTypeOK, StoreFile
  <1>2. Handles(k)
    BY <1>1 DEF StoreFile, Stage, Awaits, Takes, Replies, Hears, Quits
  <1>3. /\ toClient'[k] = <<>> /\ toServer'[k] = <<>> /\ out[k] = <<>>
        /\ m.code = "SEND_FILE" /\ Sound(k, m) /\ UNCHANGED <<clients, files>>
        /\ Active(cl[k]) => m = Ask(cl[k]) /\ cl[k].toSend = <<>> /\ Knows(k)
    BY <1>2 DEF Handles, StoreFile, channelVars, dbVars
  <1>4. CASE Refuse(k) \/ Dies(k)
    BY <1>1, <1>3, <1>4, LeavesNow
  <1>5. ASSUME ClientExists(m.id), NEW content,
               content = Decrypt(clients[m.id].aesKey, m), NewFile(m.id, m.file, content),
               IF content = NullContent
                 THEN Answer(k, m, <<Reply("MSG_RECEIVED_CRC", None)>>)
                 ELSE Goes(k, "commitFile")
        PROVE  Stage(k)'
    <2>1. content = MyFile(cl[k]) /\ content # NullContent
      BY <1>1, <1>3, <1>5, SoundDecrypts DEF ClientExists
    <2>2. pc'[k] = "commitFile" /\ req'[k] = m /\ out'[k] = <<>>
      BY <1>1, <1>3, <1>5, <2>1 DEF Goes, Proceed, IInv, TypeOK, ThreadTypeOK
    <2>3. <<m.id, m.file>> \in Ids \X FileNames
      BY <1>1 DEF Uploading, SendFileRequest
    <2>4. m.file = cl[k].info.file /\ fileDict'[<<m.id, m.file>>] = MyFile(cl[k])
      BY <1>1, <1>3, <1>5, <2>1, <2>3 DEF NewFile, Sound
    <2>5. InMemory(k, m.id, m.file)'
      BY <1>1, <2>2, <2>4 DEF InMemory
    <2>6. Active(cl[k]) => Knows(k)'
      BY <1>1, <1>3 DEF Knows, HasKeyOf
    <2> QED BY <1>1, <1>3, <2>2, <2>5, <2>6 DEF Stage, Handles, Handling
  <1> QED BY <1>4, <1>5 DEF StoreFile

(* touch() leaves the keys alone.                                          *)
LEMMA TouchKnows ==
  ASSUME TInv, NEW k \in Conns, Conv(k), Active(cl[k]), Knows(k), cl'[k] = cl[k],
         NEW i \in Ids, clients' = Touch(clients, i)
  PROVE  Knows(k)'
  <1>1. IInv /\ GoodProcess(cl[k]) /\ QueueOK(cl[k])
    BY DEF TInv, ClientOK, Conv
  <1>2. cl[k].key # None => cl[k].id # None
    BY <1>1 DEF QueueOK
  <1>3. cl[k].id # None => cl[k].id \in Ids
    BY <1>1 DEF GoodProcess, Process
  <1>4. ASSUME cl[k].key # None PROVE HasKeyOf(cl[k].id, cl[k].key)'
    <2> DEFINE j == cl[k].id
    <2>1. j \in Ids /\ (clients[j] = None \/ clients[j].aesKey = cl[k].key)
      BY <1>2, <1>3, <1>4 DEF Knows, HasKeyOf
    <2> HIDE DEF j
    <2>2. clients'[j] = None \/ clients'[j].aesKey = cl[k].key
      BY <1>1, <2>1, TouchKeepsClients
    <2> QED BY <2>2 DEF HasKeyOf, j
  <1> QED BY <1>4 DEF Knows

LEMMA CommitFileConv ==
  ASSUME TInv, NEW k \in Conns, Conv(k), CommitFile(k), UNCHANGED clientVars
  PROVE  Stage(k)'
  <1> DEFINE r == req[k]
  <1>1. /\ IInv /\ Stage(k) /\ cl' = cl /\ r \in Uploading /\ GoodProcess(cl[k])
        /\ (Active(cl[k]) => QueueOK(cl[k])) /\ UNCHANGED fileDict
        /\ files \in [FileNames -> FileRow \cup {None}]
    BY DEF TInv, Conv, ClientOK, clientVars, IInv, HandlerOK, TypeOK, StoreTypeOK,
           CommitFile, storeVars
  <1>2. Handles(k)
    BY <1>1 DEF CommitFile, Stage, Awaits, Takes, Replies, Hears, Quits
  <1>3. /\ toClient'[k] = <<>> /\ toServer'[k] = <<>> /\ out[k] = <<>>
        /\ r.code = "SEND_FILE" /\ InMemory(k, r.id, r.file)
        /\ Active(cl[k]) => r = Ask(cl[k]) /\ cl[k].toSend = <<>> /\ Knows(k)
    BY <1>2 DEF Handles, CommitFile, channelVars
  <1>4. r.id \in Ids /\ r.file \in FileNames
    BY <1>1 DEF Uploading, SendFileRequest
  <1>5. Active(cl[k]) => Knows(k)'
    <2>1. clients' = Touch(clients, r.id) \/ clients' = clients
      BY DEF CommitFile
    <2> QED BY <1>1, <1>3, <1>4, <2>1, TouchKnows DEF Knows, HasKeyOf
  <1>6. FaultKinds = {} => ~(/\ files'[r.file] # None /\ files'[r.file].owner = r.id
                             /\ files'[r.file].varified)
    <2>1. CASE files' = [files EXCEPT ![r.file] = [owner |-> r.id, varified |-> FALSE]]
      <3>1. files'[r.file].varified = FALSE
        BY <1>1, <1>4, <2>1
      <3> QED BY <3>1
    <2>2. CASE RowOfOther(r.id, r.file) /\ UNCHANGED files
      BY <2>2 DEF RowOf, RowOfOther
    <2>3. CASE \E kind : Fails(kind)
      BY <2>3 DEF Fails
    <2> QED BY <2>1, <2>2, <2>3 DEF CommitFile
  <1>7. Active(cl[k]) => Ask(cl[k]).code = "SEND_FILE" /\ cl[k].id = r.id
                         /\ cl[k].info.file = r.file
    <2>1. FirstPacket(cl[k]).id = cl[k].id /\ FirstPacket(cl[k]).file = cl[k].info.file
      BY DEF FirstPacket
    <2> QED BY <1>1, <1>3, <2>1, AskSays
  <1>8. ASSUME NEW v, Answer(k, r, <<Reply("MSG_RECEIVED_CRC", v)>>)
        PROVE  Stage(k)'
    <2> DEFINE m == Reply("MSG_RECEIVED_CRC", v)
    <2>1. m # Failed /\ m.code = "MSG_RECEIVED_CRC"
      BY RepliesOther
    <2> HIDE DEF m
    <2>2. Active(cl[k]) => Answers(cl[k], m)
      BY <1>7, <2>1 DEF Answers, Answering
    <2>5. ASSUME Active(cl[k]) PROVE GoodReply(k, m)'
      <3>1. /\ cl'[k].info.file = r.file /\ cl'[k].id = r.id
            /\ fileDict'[<<r.id, r.file>>] = MyFile(cl'[k])
        BY <1>1, <1>3, <1>7, <2>5 DEF InMemory
      <3>2. Held(k, cl[k].id, cl[k].info.file)'
        BY <1>6, <3>1 DEF Held, InMemory, RowOf
      <3> QED BY <2>1, <3>2 DEF GoodReply
    <2>6. Told(k, m)'
      BY <1>1, <1>3, <1>5, <2>1, <2>2, <2>5 DEF Told
    <2> QED BY <1>1, <1>3, <1>8, <2>6, RepliesNow DEF m
  <1> QED BY <1>8 DEF CommitFile

LEMMA CrcValidConv ==
  ASSUME TInv, NEW k \in Conns, Conv(k), NEW m, CrcValid(k, m), UNCHANGED clientVars
  PROVE  Stage(k)'
  <1>1. IInv /\ Stage(k) /\ cl'[k] = cl[k] /\ UNCHANGED <<files, fileDict>>
    BY DEF TInv, Conv, clientVars, CrcValid, storeVars
  <1>2. m.code = "CRC_VALID" /\ pc[k] = "recv" /\ ServerRecv(k, m)
    BY DEF CrcValid, Receives
  <1>3. /\ m \in Request /\ Sound(k, m) /\ out[k] = <<>> /\ toClient'[k] = <<>>
        /\ toServer'[k] = <<>>
        /\ Active(cl[k]) => m = Ask(cl[k]) /\ cl[k].toSend = <<>> /\ Knows(k)
    BY <1>1, <1>2, ReceivesRequest
  <1>4. CASE Refuse(k)
    BY <1>1, <1>3, <1>4, LeavesNow
  <1>5. CASE clients' = Touch(clients, m.id) /\ Proceed(k, "save", m, 0)
    <2>1. pc'[k] = "save" /\ req'[k] = m /\ out'[k] = <<>>
      BY <1>1, <1>3, <1>5 DEF Proceed, IInv, TypeOK, ThreadTypeOK
    <2>2. m.id \in Ids
      BY <1>2, <1>3, RequestByCode DEF CrcStatusRequest
    <2>3. Active(cl[k]) => Knows(k)'
      BY <1>1, <1>3, <1>5, <2>2, TouchKnows
    <2>4. Held(k, m.id, m.file)'
      BY <1>1, <1>2, <1>3 DEF Sound, Held, InMemory, RowOf
    <2>5. Held(k, req[k].id, req[k].file)'
      BY <2>1, <2>4
    <2> QED BY <1>1, <1>2, <1>3, <2>1, <2>3, <2>5 DEF Stage, Handles, Handling
  <1> QED BY <1>4, <1>5 DEF CrcValid

LEMMA SaveFileConv ==
  ASSUME TInv, NEW k \in Conns, Conv(k), SaveFile(k), UNCHANGED clientVars
  PROVE  Stage(k)'
  <1>1. /\ IInv /\ Stage(k) /\ cl'[k] = cl[k]
        /\ UNCHANGED <<clients, files, fileDict, toServer, toClient>>
    BY DEF TInv, Conv, clientVars, SaveFile, dbVars, channelVars
  <1>2. Handles(k)
    BY <1>1 DEF SaveFile, Stage, Awaits, Takes, Replies, Hears, Quits
  <1>3. pc'[k] = "mark" /\ req'[k] = req[k] /\ out'[k] = out[k]
    BY <1>1 DEF SaveFile, Goes, Proceed, IInv, TypeOK, ThreadTypeOK
  <1>4. Knows(k)' <=> Knows(k)
    BY <1>1, DataStays
  <1>5. pc[k] = "save"
    BY DEF SaveFile
  <1> QED BY <1>1, <1>2, <1>3, <1>4, <1>5 DEF Stage, Handles, Handling

LEMMA MarkVarifiedConv ==
  ASSUME TInv, NEW k \in Conns, Conv(k), MarkVarified(k), UNCHANGED clientVars
  PROVE  Stage(k)'
  <1>1. /\ IInv /\ Stage(k) /\ cl'[k] = cl[k] /\ GoodProcess(cl[k])
        /\ Active(cl[k]) => QueueOK(cl[k])
        /\ UNCHANGED <<clients, toServer, toClient>>
    BY DEF TInv, Conv, ClientOK, clientVars, MarkVarified, channelVars
  <1>2. Handles(k)
    BY <1>1 DEF MarkVarified, Stage, Awaits, Takes, Replies, Hears, Quits
  <1>3. /\ toClient'[k] = <<>> /\ toServer'[k] = <<>> /\ req[k].code = "CRC_VALID"
        /\ Active(cl[k]) => req[k] = Ask(cl[k]) /\ cl[k].toSend = <<>> /\ Knows(k)
    BY <1>1, <1>2 DEF Handles, MarkVarified
  <1> DEFINE m == Reply("MSG_RECEIVED", None)
  <1>4. m # Failed /\ m.code = "MSG_RECEIVED" /\ Answer(k, req[k], <<m>>)
    BY RepliesOther DEF MarkVarified
  <1> HIDE DEF m
  <1>5. Active(cl[k]) => Answers(cl[k], m)
    BY <1>3, <1>4 DEF Answers, Answering
  <1>6. GoodReply(k, m)'
    BY <1>4 DEF GoodReply, m
  <1>7. Told(k, m)'
    BY <1>1, <1>3, <1>4, <1>5, <1>6 DEF Told, Knows, HasKeyOf, m
  <1> QED BY <1>1, <1>3, <1>4, <1>7, RepliesNow

LEMMA ResendConv ==
  ASSUME TInv, NEW k \in Conns, Conv(k), NEW m, Resend(k, m), UNCHANGED clientVars
  PROVE  Stage(k)'
  <1>1. /\ IInv /\ Stage(k) /\ cl'[k] = cl[k] /\ GoodProcess(cl[k])
        /\ Active(cl[k]) => QueueOK(cl[k])
        /\ UNCHANGED <<clients, files, fileDict>>
    BY DEF TInv, Conv, ClientOK, clientVars, Resend, dbVars, storeVars
  <1>2. m.code = "CRC_RESEND" /\ pc[k] = "recv" /\ ServerRecv(k, m)
    BY DEF Resend, Receives
  <1>3. /\ m \in Request /\ out[k] = <<>> /\ toClient'[k] = <<>> /\ toServer'[k] = <<>>
        /\ Active(cl[k]) =>
             /\ m = Ask(cl[k]) /\ cl[k].toSend = <<>> /\ Knows(k)
             /\ Uploaded(cl[k]) => Held(k, cl[k].id, cl[k].info.file)
    BY <1>1, <1>2, ReceivesRequest
  <1>4. CASE Refuse(k) \/ Dies(k)
    BY <1>1, <1>3, <1>4, LeavesNow
  <1>5. ASSUME NEW r, NEW v, LET a == Reply("MSG_RECEIVED_CRC", v)
                             IN  Answer(k, r, <<a>>) \/ Answer(k, r, <<a, Failed>>)
        PROVE  Stage(k)'
    <2> DEFINE a == Reply("MSG_RECEIVED_CRC", v)
    <2>1. a # Failed /\ a.code = "MSG_RECEIVED_CRC"
      BY RepliesOther
    <2>2. Answer(k, r, <<a>>) \/ Answer(k, r, <<a, Failed>>)
      BY <1>5
    <2> HIDE DEF a
    <2>3. ASSUME Active(cl[k])
          PROVE  Answers(cl[k], a) /\ GoodReply(k, a)' /\ Knows(k)'
      <3>1. Ask(cl[k]).code = "CRC_RESEND" /\ cl[k].queue = <<>> /\ cl[k].ret = "crcRead"
        BY <1>1, <1>2, <1>3, <2>3, AskSays
      <3>2. Held(k, cl[k].id, cl[k].info.file)
        BY <1>3, <2>3, <3>1 DEF Uploaded
      <3>3. GoodReply(k, a)
        BY <2>1, <3>2 DEF GoodReply
      <3> QED BY <1>1, <1>3, <2>1, <2>3, <3>1, <3>3, DataStays DEF Answers, Answering
    <2>4. Told(k, a)'
      BY <1>1, <1>3, <2>1, <2>3 DEF Told
    <2> QED BY <1>1, <1>3, <2>2, <2>4, RepliesNow
  <1> QED BY <1>4, <1>5 DEF Resend

LEMMA AbortConv ==
  ASSUME TInv, NEW k \in Conns, Conv(k), NEW m, Abort(k, m) \/ UnknownRequest(k, m)
  PROVE  Stage(k)'
  <1>1. IInv /\ Stage(k)
    BY DEF TInv, Conv
  <1>2. /\ pc[k] = "recv" /\ ServerRecv(k, m)
        /\ Dies(k) \/ Answer(k, None, <<Failed>>)
    BY DEF Abort, UnknownRequest, Receives
  <1>3. out[k] = <<>> /\ toClient'[k] = <<>>
    BY <1>1, <1>2, ReceivesRequest
  <1> QED BY <1>1, <1>2, <1>3, LeavesNow

(* So every handler leads from one stage to another.                       *)
LEMMA HandleConv ==
  ASSUME TInv, NEW k \in Conns, Conv(k), Handle(k), UNCHANGED clientVars
  PROVE  Stage(k)'
  <1>1. ASSUME NEW m,
               \/ CheckName(k, m) \/ SetPublicKey(k, m) \/ RecvFileHead(k, m)
               \/ CrcValid(k, m) \/ Resend(k, m) \/ Abort(k, m) \/ UnknownRequest(k, m)
        PROVE  Stage(k)'
    BY <1>1, CheckNameConv, SetPublicKeyConv, RecvFileHeadConv, CrcValidConv, ResendConv,
       AbortConv
  <1> QED BY <1>1, AddClientConv, SetSymmetricKeyConv, RecvFileChunkConv,
             RecvFileRaisesConv, StoreFileConv, CommitFileConv, SaveFileConv,
             MarkVarifiedConv DEF Handle

-----------------------------------------------------------------------------
(* The rest of read() and write().                                         *)

LEMMA WriteConv ==
  ASSUME TInv, NEW k \in Conns, Conv(k), Write(k), UNCHANGED clientVars
  PROVE  Stage(k)'
  <1> DEFINE more == Tail(out[k])
  <1>1. /\ IInv /\ Stage(k) /\ cl' = cl /\ GoodProcess(cl[k]) /\ EndsOK(k)
        /\ UNCHANGED <<clients, files, fileDict>>
        /\ pc \in [Conns -> ThreadState] /\ out \in [Conns -> Seq(Response)]
        /\ toClient \in [Conns -> Seq(Response)]
    BY DEF TInv, Conv, ClientOK, clientVars, Write, dbVars, storeVars, IInv, TypeOK,
           ThreadTypeOK, ChannelTypeOK
  <1>p. PICK m : m = Head(out[k])
    OBVIOUS
  <1>2. /\ pc[k] = "write" /\ toServer' = toServer
        /\ toClient'[k] = IF cliEnd[k] = "open" THEN Append(toClient[k], m) ELSE toClient[k]
        /\ out'[k] = more
        /\ pc'[k] = CASE more # <<>> -> "write"
                      [] more = <<>> /\ m = Failed -> "release"
                      [] more = <<>> /\ m # Failed -> "recv"
    BY <1>1, <1>p DEF Write, ServerSend
  <1>3. out[k] # <<>>
    BY <1>1, <1>2 DEF IInv, HandlerOK
  <1> HIDE DEF more
  <1>4. CASE Quits(k)
    <2>1. m = Failed /\ more \in Refusals
      BY <1>3, <1>4, <1>p, RefusalFacts DEF Quits, more
    <2>2. pc'[k] \in {"write", "release"} /\ (pc'[k] # "write" => more = <<>>)
      BY <1>2, <2>1
    <2>3. toClient'[k] # <<>> => /\ Tail(toClient'[k]) \in Refusals
                                 /\ Active(cl[k]) => Answers(cl[k], Head(toClient'[k]))
      <3>1. CASE toClient'[k] = toClient[k]
        BY <1>4, <3>1 DEF Quits
      <3>2. CASE toClient'[k] = Append(toClient[k], m)
        <4>1. toClient[k] \in Seq(Response) /\ m \in Response
          BY <1>1, <2>1, FailedType
        <4>2. CASE toClient[k] = <<>>
          <5>1. Head(toClient'[k]) = m /\ Tail(toClient'[k]) = <<>>
            BY <3>2, <4>1, <4>2, SeqFacts
          <5> QED BY <2>1, <5>1, RefusalFacts DEF Answers
        <4>3. CASE toClient[k] # <<>>
          <5>1. /\ Head(toClient'[k]) = Head(toClient[k])
                /\ Tail(toClient'[k]) = Append(Tail(toClient[k]), Failed)
            BY <2>1, <3>2, <4>1, <4>3, SeqFacts
          <5> QED BY <1>4, <4>3, <5>1, RefusalFacts DEF Quits
        <4> QED BY <4>2, <4>3
      <3> QED BY <1>2, <3>1, <3>2
    <2> QED BY <1>1, <1>2, <2>1, <2>2, <2>3 DEF Stage, Quits
  <1>5. CASE Replies(k)
    <2>1. /\ toClient[k] = <<>> /\ toServer'[k] = <<>> /\ Told(k, m) /\ more \in Refusals
          /\ m # Failed
      BY <1>2, <1>5, <1>p DEF Replies, Told, more
    <2>2. Told(k, m)'
      <3>1. (GoodReply(k, m)' <=> GoodReply(k, m)) /\ (Knows(k)' <=> Knows(k))
        BY <1>1, DataStays
      <3> QED BY <1>1, <2>1, <3>1 DEF Told
    <2>3. CASE cliEnd[k] # "open"
      <3>1. ~Active(cl[k]) /\ toClient'[k] = <<>>
        BY <1>1, <1>2, <2>1, <2>3 DEF EndsOK, Started, Active
      <3>2. CASE more # <<>>
        BY <1>1, <1>2, <2>1, <3>1, <3>2 DEF Stage, Quits
      <3>3. CASE more = <<>>
        BY <1>1, <1>2, <2>1, <3>1, <3>3 DEF Stage, Awaits
      <3> QED BY <3>2, <3>3
    <2>4. CASE cliEnd[k] = "open"
      <3>1. toClient'[k] = <<m>>
        BY <1>2, <2>1, <2>4
      <3>2. toClient'[k] # <<>> /\ Head(toClient'[k]) = m /\ Tail(toClient'[k]) = <<>>
        BY <3>1, RefusalFacts
      <3>3. CASE more # <<>>
        BY <1>1, <1>2, <2>1, <3>2, <3>3, RefusalFacts DEF Stage, Quits, Told
      <3>4. CASE more = <<>>
        BY <1>2, <2>1, <2>2, <3>2, <3>4 DEF Stage, Hears
      <3> QED BY <3>3, <3>4
    <2> QED BY <2>3, <2>4
  <1> QED BY <1>1, <1>2, <1>4, <1>5 DEF Stage, Awaits, Takes, Handles, Handling, Hears

(* A thread that leaves, whatever the client has yet to read.              *)
LEMMA QuitsNow ==
  ASSUME NEW k \in Conns, Stage(k), cl'[k] = cl[k], toClient'[k] = toClient[k],
         out'[k] = <<>>, pc'[k] \in {"release", "close", "done", "dead"}
  PROVE  Stage(k)'
  <1>1. toClient[k] # <<>> => /\ Tail(toClient[k]) \in Refusals
                              /\ Active(cl[k]) => Answers(cl[k], Head(toClient[k]))
    BY RefusalFacts DEF Stage, Awaits, Takes, Handles, Replies, Hears, Quits, Told
  <1> QED BY <1>1, RefusalFacts DEF Stage, Quits

LEMMA ThreadConv ==
  ASSUME TInv, NEW k \in Conns, Conv(k), Thread(k), UNCHANGED clientVars
  PROVE  Stage(k)'
  <1>1. /\ IInv /\ Stage(k) /\ cl'[k] = cl[k]
        /\ pc \in [Conns -> ThreadState] /\ out \in [Conns -> Seq(Response)]
    BY DEF TInv, Conv, clientVars, IInv, TypeOK, ThreadTypeOK
  <1>2. CASE Handle(k) \/ Write(k)
    BY <1>2, HandleConv, WriteConv
  <1>3. CASE WriteRaises(k)
    BY <1>1, <1>3, StageStays DEF WriteRaises, ServerReset, serverVars, threadVars, dbVars,
                                  storeVars
  <1>4. CASE RecvEof(k) \/ RecvRaises(k)
    <2>1. out[k] = <<>>
      BY <1>1, <1>4 DEF RecvEof, RecvRaises, Stage, Awaits, Takes, Handles, Handling,
                        Replies, Hears, Quits
    <2>2. /\ toClient'[k] = toClient[k] /\ out'[k] = <<>>
          /\ pc'[k] \in {"release", "dead"}
      BY <1>1, <1>4, <2>1 DEF RecvEof, RecvRaises, Goes, Dies, Proceed, ServerRecvEof,
                              ServerRecvRaises, ServerReset, channelVars
    <2> QED BY <1>1, <2>2, QuitsNow
  <1>5. CASE Release(k) \/ Close(k) \/ DropSocket(k)
    <2>1. out[k] = <<>>
      BY <1>1, <1>5 DEF Release, Close, DropSocket, Stage, Awaits, Takes, Handles, Handling,
                        Replies, Hears, Quits
    <2>2. /\ toClient'[k] = toClient[k] /\ out'[k] = <<>>
          /\ pc'[k] \in {"close", "done", "dead"}
      BY <1>1, <1>5, <2>1 DEF Release, Close, DropSocket, Goes, Proceed, ServerClose,
                              channelVars, serverVars, threadVars
    <2> QED BY <1>1, <2>2, QuitsNow
  <1> QED BY <1>2, <1>3, <1>4, <1>5 DEF Thread

(* The connection of a thread that moves.                                  *)
LEMMA ThreadEnds ==
  ASSUME IInv, NEW k \in Conns, EndsOK(k), Thread(k), UNCHANGED clientVars
  PROVE  EndsOK(k)' /\ pc[k] # "none"
  <1>1. cl' = cl /\ cliEnd' = cliEnd
    BY ThreadPackets DEF clientVars
  <1>2. pc[k] \in Holding \cup {"close"} /\ pc \in [Conns -> ThreadState]
    BY ThreadRuns DEF IInv, TypeOK, ThreadTypeOK
  <1>3. CASE DropSocket(k)
    BY <1>1, <1>2, <1>3 DEF DropSocket, EndsOK, ServerClose, serverVars, threadVars, Holding
  <1>4. CASE Close(k)
    BY <1>1, <1>2, <1>4 DEF Close, EndsOK, ServerClose, Goes, Proceed, Holding
  <1>5. CASE ~DropSocket(k) /\ ~Close(k)
    <2>1. pc[k] # "dead"
      BY <1>5 DEF Thread, Handle, CheckName, AddClient, SetPublicKey, SetSymmetricKey,
                RecvFileHead, RecvFileChunk, RecvFileRaises, StoreFile, CommitFile,
                CrcValid, SaveFile, MarkVarified, Resend, Abort, UnknownRequest, Receives,
                Write, WriteRaises, RecvEof, RecvRaises, Release
    <2>2. srvEnd[k] # "closed"
      BY <1>2, <2>1 DEF EndsOK, Holding
    <2>3. srvEnd'[k] = srvEnd[k]
      <3>1. ASSUME UNCHANGED channelVars \/ (\E m : ServerRecv(k, m)) \/ ServerReset(k)
                   \/ \E m : ServerSend(k, m)
            PROVE  srvEnd' = srvEnd
        BY <3>1 DEF channelVars, ServerRecv, ServerReset, ServerSend
      <3>2. CASE Handle(k)
        BY <3>1, <3>2 DEF Handle, CheckName, AddClient, SetPublicKey, SetSymmetricKey,
                RecvFileHead, RecvFileChunk, RecvFileRaises, StoreFile, CommitFile,
                CrcValid, SaveFile, MarkVarified, Resend, Abort, UnknownRequest, Receives,
                ServerRecvRaises
      <3>3. CASE ~Handle(k)
        BY <1>5, <3>1, <3>3 DEF Thread, Write, WriteRaises, RecvEof, RecvRaises, Release,
                               ServerRecvEof, ServerRecvRaises
      <3> QED BY <3>2, <3>3
    <2> QED BY <1>1, <1>2, <2>2, <2>3 DEF EndsOK, Holding
  <1> QED BY <1>2, <1>3, <1>4, <1>5 DEF Holding

(* The other connections while a thread moves.                             *)
LEMMA OthersConv ==
  ASSUME TInv, NEW j \in Conns, Thread(j), NEW k \in Conns, k # j, Conv(k),
         UNCHANGED clientVars
  PROVE  Stage(k)' /\ EndsOK(k)'
  <1>1. IInv /\ Stage(k) /\ EndsOK(k) /\ cl'[k] = cl[k]
    BY DEF TInv, Conv, clientVars
  <1>2. pc'[k] = pc[k] /\ req'[k] = req[k] /\ out'[k] = out[k] /\ left'[k] = left[k]
    BY <1>1, OthersStay
  <1>3. /\ cliEnd' = cliEnd /\ srvEnd'[k] = srvEnd[k]
        /\ toServer'[k] = toServer[k] /\ toClient'[k] = toClient[k]
    BY <1>1, ThreadPackets
  <1>4. pc[k] \in Holding => UNCHANGED <<clients, files, fileDict>>
    <2>1. pc[k] \in Holding => pc[j] \notin Holding
      BY <1>1, InSession
    <2>2. pc[k] \in Holding => UNCHANGED <<dbVars, storeVars>>
      BY <2>1, OnlyCloses
    <2> QED BY <2>2 DEF dbVars, storeVars
  <1>5. Stage(k)'
    BY <1>1, <1>2, <1>3, <1>4, StageStays
  <1> QED BY <1>1, <1>2, <1>3, <1>5 DEF EndsOK

(* The connections the main thread has yet to serve.                       *)
LEMMA ThreadLine ==
  ASSUME IInv, LineOK, NEW j \in Conns, Thread(j), pc[j] # "none"
  PROVE  LineOK'
  <1>1. backlog' = backlog /\ mainConn' = mainConn /\ main' = main
    BY ThreadPackets, ThreadCalls
  <1>2. backlog \in Seq(Conns) /\ (main = "acquire" => mainConn \in Conns)
    BY DEF IInv, MainOK, TypeOK, ChannelTypeOK
  <1>3. \A k \in Conns : pc[k] = "none" => pc'[k] = "none"
    BY OthersStay
  <1>4. \A m \in 1..Len(backlog) : backlog[m] \in Conns
    BY <1>2
  <1> QED BY <1>1, <1>2, <1>3, <1>4 DEF LineOK

-----------------------------------------------------------------------------
(* The main thread, and the end of the server.                             *)

LEMMA CrashConv ==
  ASSUME TInv, NEW k \in Conns, Conv(k), ServerCrash, UNCHANGED clientVars
  PROVE  Stage(k)' /\ EndsOK(k)'
  <1>1. /\ Stage(k) /\ EndsOK(k) /\ ConnOK(k) /\ cl' = cl
        /\ srvEnd \in [Conns -> EndState]
    BY DEF TInv, Conv, clientVars, IInv, TypeOK, ChannelTypeOK
  <1>2. /\ pc'[k] = (IF srvEnd[k] = "unused" THEN "none" ELSE "done") /\ out'[k] = <<>>
        /\ toServer'[k] = <<>> /\ toClient' = toClient /\ cliEnd' = cliEnd
        /\ srvEnd'[k] = (IF srvEnd[k] = "open" THEN "closed" ELSE srvEnd[k])
    BY DEF ServerCrash, ServerClose
  <1>3. CASE srvEnd[k] = "unused"
    <2>1. cliEnd[k] = "unused"
      BY <1>1, <1>3 DEF EndsOK
    <2>2. toClient[k] = <<>>
      BY <1>1, <2>1 DEF ConnOK, Untouched
    <2>3. ~Active(cl[k])
      BY <1>1, <2>1 DEF EndsOK, Started, Active
    <2>4. Awaits(k)'
      BY <1>1, <1>2, <1>3, <2>2, <2>3 DEF Awaits
    <2> QED BY <1>1, <1>2, <1>3, <2>4 DEF Stage, EndsOK
  <1>4. CASE srvEnd[k] # "unused"
    <2>1. Stage(k)'
      BY <1>1, <1>2, <1>4, QuitsNow
    <2> QED BY <1>1, <1>2, <1>4, <2>1 DEF EndsOK
  <1> QED BY <1>3, <1>4

LEMMA AcceptConv ==
  ASSUME TInv, LineOK, Accept, UNCHANGED clientVars
  PROVE  LineOK' /\ \A k \in Conns : Conv(k) => Stage(k)' /\ EndsOK(k)'
  <1>1. /\ cl' = cl /\ UNCHANGED <<toServer, toClient, cliEnd, srvEnd, pc, req, left, out,
                                   clients, files, fileDict>>
        /\ backlog # <<>> /\ backlog \in Seq(Conns)
        /\ mainConn' = Head(backlog) /\ backlog' = Tail(backlog)
    BY DEF Accept, TInv, clientVars, threadVars, dbVars, storeVars, IInv, TypeOK,
           ChannelTypeOK
  <1>2. ASSUME NEW k \in Conns, Conv(k) PROVE Stage(k)' /\ EndsOK(k)'
    <2>1. Stage(k)'
      BY <1>1, <1>2, StageStays DEF Conv
    <2> QED BY <1>1, <1>2, <2>1 DEF Conv, EndsOK
  <1>3. LineOK'
    <2>1. PICK t \in Seq(Conns) : /\ t = Tail(backlog) /\ Len(t) = Len(backlog) - 1
                                  /\ \A i \in 1..Len(t) : t[i] = backlog[i + 1]
      BY <1>1, TailIs
    <2>2. Len(t) \in Nat /\ Len(backlog) \in Nat /\ Head(backlog) = backlog[1]
      BY <1>1, <2>1
    <2>3. \A i \in 1..Len(t) : /\ pc[t[i]] = "none"
                               /\ t[i] # Head(backlog)
                               /\ \A n \in 1..Len(t) : t[i] = t[n] => i = n
      BY <2>1, <2>2 DEF LineOK
    <2>4. pc[Head(backlog)] = "none"
      BY <1>1, <2>1, <2>2 DEF LineOK
    <2> QED BY <1>1, <2>1, <2>3, <2>4 DEF LineOK
  <1> QED BY <1>2, <1>3

LEMMA StartSessionConv ==
  ASSUME TInv, LineOK, StartSession, UNCHANGED clientVars
  PROVE  LineOK' /\ \A k \in Conns : Conv(k) => Stage(k)' /\ EndsOK(k)'
  <1>1. /\ IInv /\ cl' = cl
        /\ UNCHANGED <<toServer, toClient, cliEnd, srvEnd, backlog, req, left, out,
                       clients, files, fileDict>>
        /\ mainConn \in Conns /\ pc[mainConn] = "none" /\ main' = "accept"
        /\ pc' = [pc EXCEPT ![mainConn] = "recv"] /\ pc \in [Conns -> ThreadState]
        /\ backlog \in Seq(Conns)
    BY DEF StartSession, TInv, LineOK, clientVars, threadVars, dbVars, storeVars,
           channelVars, IInv, MainOK, TypeOK, ChannelTypeOK, ThreadTypeOK
  <1>2. ASSUME NEW k \in Conns, Conv(k) PROVE Stage(k)' /\ EndsOK(k)'
    <2>1. Stage(k) /\ EndsOK(k) /\ (Active(cl[k]) => QueueOK(cl[k]))
      BY <1>2 DEF Conv
    <2>2. CASE k # mainConn
      <3>1. pc'[k] = pc[k]
        BY <1>1, <2>2
      <3>2. Stage(k)'
        BY <1>1, <2>1, <3>1, StageStays
      <3> QED BY <1>1, <2>1, <3>1, <3>2 DEF EndsOK
    <2>3. CASE k = mainConn
      <3>1. pc[k] = "none" /\ pc'[k] = "recv" /\ Awaits(k)
        BY <1>1, <2>1, <2>3 DEF Stage, Takes, Handles, Handling, Replies, Hears, Quits
      <3>2. Active(cl[k]) => cl[k].queue # <<>> /\ cl[k].key = None
        BY <2>1, <3>1 DEF Awaits, QueueOK
      <3>3. Active(cl[k]) => Knows(k)' /\ ~Uploaded(cl[k])'
        BY <1>1, <3>2 DEF Knows, Uploaded
      <3>4. toServer[k] # <<>> => Sound(k, Head(toServer[k]))'
        BY <1>1, <3>1 DEF Awaits, Sound
      <3>5. Awaits(k)'
        BY <1>1, <3>1, <3>3, <3>4 DEF Awaits
      <3> QED BY <1>1, <2>1, <3>1, <3>5 DEF Stage, EndsOK
    <2> QED BY <2>2, <2>3
  <1>3. LineOK'
    <2>1. \A n \in 1..Len(backlog) : backlog[n] \in Conns /\ backlog[n] # mainConn
      BY <1>1 DEF LineOK, StartSession
    <2>2. \A n \in 1..Len(backlog) : pc'[backlog[n]] = pc[backlog[n]]
      BY <1>1, <2>1
    <2> QED BY <1>1, <2>2 DEF LineOK
  <1> QED BY <1>2, <1>3

LEMMA StartServerConv ==
  ASSUME TInv, LineOK, StartServer, UNCHANGED clientVars
  PROVE  LineOK' /\ \A k \in Conns : Conv(k) => Stage(k)' /\ EndsOK(k)'
  <1>1. /\ cl' = cl /\ main' = "accept"
        /\ UNCHANGED <<toServer, toClient, cliEnd, srvEnd, backlog, pc, req, left, out,
                       clients, files, fileDict>>
    BY DEF StartServer, clientVars, threadVars, dbVars, storeVars, channelVars
  <1>2. ASSUME NEW k \in Conns, Conv(k) PROVE Stage(k)' /\ EndsOK(k)'
    <2>1. Stage(k)'
      BY <1>1, <1>2, StageStays DEF Conv
    <2> QED BY <1>1, <1>2, <2>1 DEF Conv, EndsOK
  <1> QED BY <1>1, <1>2 DEF LineOK

(* The server keeps up its side of every conversation.                     *)
LEMMA ServerConv ==
  ASSUME CInv, Server
  PROVE  LineOK' /\ \A k \in Conns : Conv(k)'
  <1>1. TInv /\ IInv /\ LineOK /\ (\A k \in Conns : Conv(k)) /\ UNCHANGED clientVars
    BY DEF CInv, TInv, Server
  <1>2. LineOK' /\ \A k \in Conns : Stage(k)' /\ EndsOK(k)'
    <2>1. ASSUME NEW j \in Conns, Thread(j)
          PROVE  LineOK' /\ \A k \in Conns : Stage(k)' /\ EndsOK(k)'
      <3>1. EndsOK(j)' /\ pc[j] # "none"
        BY <1>1, <2>1, ThreadEnds DEF Conv
      <3>2. LineOK'
        BY <1>1, <2>1, <3>1, ThreadLine
      <3> QED BY <1>1, <2>1, <3>1, <3>2, ThreadConv, OthersConv
    <2>2. CASE ServerCrash
      <3>1. LineOK'
        BY <2>2 DEF ServerCrash, LineOK
      <3> QED BY <1>1, <2>2, <3>1, CrashConv
    <2> QED BY <1>1, <2>1, <2>2, AcceptConv, StartSessionConv, StartServerConv
            DEF Server, ServerNext, Main
  <1>3. ASSUME NEW k \in Conns PROVE (Active(cl[k]) => QueueOK(cl[k]))'
    BY <1>1 DEF Conv, clientVars
  <1> QED BY <1>2, <1>3 DEF Conv

-----------------------------------------------------------------------------
(* The client's turn.                                                      *)

(* d is c with another message, or the rest of one, to send.               *)
SameTalk(c, d) ==
  /\ d.info = c.info /\ d.id = c.id /\ d.key = c.key /\ d.hasKey = c.hasKey
  /\ d.queue = c.queue /\ d.buf = c.buf /\ d.vresp = c.vresp

LEMMA SameTalkKeeps ==
  ASSUME NEW c, NEW d, SameTalk(c, d)
  PROVE  /\ MyFile(d) = MyFile(c) /\ (Satisfied(d) <=> Satisfied(c))
         /\ FirstPacket(d) = FirstPacket(c)
         /\ \A code : CrcStatus(d, code) = CrcStatus(c, code)
         /\ d.ret = c.ret => Ask(d) = Ask(c) /\ (Uploaded(d) <=> Uploaded(c))
         /\ /\ QueueOK(c) /\ (d.at # "write" => d.ret = d.at)
            /\ c.queue # <<>> => d.ret = "read"
            => QueueOK(d)
  <1>1. MyFile(d) = MyFile(c)
    BY DEF SameTalk, MyFile
  <1>2. Satisfied(d) <=> Satisfied(c)
    BY <1>1 DEF SameTalk, Satisfied, Confirms
  <1>3. FirstPacket(d) = FirstPacket(c) /\ \A code : CrcStatus(d, code) = CrcStatus(c, code)
    BY <1>1 DEF SameTalk, FirstPacket, CrcStatus
  <1>4. ASSUME d.ret = c.ret PROVE Ask(d) = Ask(c) /\ (Uploaded(d) <=> Uploaded(c))
    <2>1. d.queue = c.queue
      BY DEF SameTalk
    <2> QED BY <1>2, <1>3, <1>4, <2>1 DEF Ask, Uploaded
  <1>5. Registration(d) = Registration(c) /\ PublicKey(d) = PublicKey(c)
    BY DEF SameTalk, Registration, PublicKey
  <1>6. ASSUME QueueOK(c), d.at # "write" => d.ret = d.at, c.queue # <<>> => d.ret = "read"
        PROVE  QueueOK(d)
    BY <1>5, <1>6 DEF QueueOK, SameTalk
  <1> QED BY <1>1, <1>2, <1>3, <1>4, <1>6

(* What the client is after an answer m to c: as d, it asks the next thing,*)
(* with the session key it had or was told, and takes its upload for done  *)
(* only after a checksum.                                                  *)
Turn(c, d, m) ==
  /\ d.info = c.info
  /\ Active(d) =>
       /\ QueueOK(d)
       /\ \/ d.key = None
          \/ d.key = c.key /\ d.id = c.id
          \/ m.code = "PUBLIC_KEY_RECEIVED" /\ d.key = m.val /\ d.id = c.id
       /\ m # Failed => /\ Asking(d)
                        /\ Uploaded(d) => m.code = "MSG_RECEIVED_CRC" /\ d.id = c.id

(* One packet that is asked next.                                          *)
LEMMA AsksOne ==
  ASSUME NEW d, NEW m, d.toSend = <<m>>, m = Ask(d), m.code # "SEND_FILE"
  PROVE  Asking(d)
  <1>1. <<m>> # <<>> /\ Head(<<m>>) = m /\ Tail(<<m>>) = <<>> /\ Len(<<m>>) = 1
    OBVIOUS
  <1>2. <<>> \in Chunks
    BY EmptyIsSeq DEF Chunks
  <1> QED BY <1>1, <1>2 DEF Asking, PacketsOf

(* It asks for the checksum again, or aborts.                              *)
LEMMA AsksAgainTurn ==
  ASSUME NEW c \in Process, c.open, QueueOK(c), c.queue = <<>>,
         NEW d, d = AsksAgain(c), NEW m, m # Failed => m.code = "MSG_RECEIVED_CRC"
  PROVE  Turn(c, d, m)
  <1>1. ASSUME NEW code \in {"CRC_RESEND", "CRC_ABORT"}, NEW ret,
               ret = IF code = "CRC_RESEND" THEN "crcRead" ELSE "exit",
               d = Sends(c, <<CrcStatus(c, code)>>, ret)
        PROVE  Turn(c, d, m)
    <2>1. /\ SameTalk(c, d) /\ d.at = "write" /\ d.ret = ret
          /\ d.toSend = <<CrcStatus(c, code)>>
      BY <1>1, SendsIs DEF SameTalk
    <2>2. QueueOK(d) /\ CrcStatus(d, code) = CrcStatus(c, code) /\ d.queue = <<>>
          /\ d.info = c.info /\ d.key = c.key /\ d.id = c.id
      BY <2>1, SameTalkKeeps DEF SameTalk
    <2>3. Ask(d) = CrcStatus(c, code) /\ CrcStatus(c, code).code # "SEND_FILE"
      <3>1. CASE code = "CRC_RESEND"
        BY <1>1, <2>1, <2>2, <3>1 DEF Ask, CrcStatus
      <3>2. CASE code = "CRC_ABORT"
        BY <1>1, <2>1, <2>2, <3>2 DEF Ask, CrcStatus
      <3> QED BY <3>1, <3>2
    <2>4. Asking(d)
      BY <2>1, <2>3, AsksOne
    <2> QED BY <2>2, <2>4 DEF Turn
  <1> QED BY <1>1 DEF AsksAgain

(* It accepts.                                                             *)
LEMMA AcceptsTurn ==
  ASSUME NEW c \in Process, c.open, QueueOK(c), c.queue = <<>>, Satisfied(c),
         NEW d, d = Accepts(c), NEW m, m # Failed => m.code = "MSG_RECEIVED_CRC"
  PROVE  Turn(c, d, m)
  <1>1. /\ SameTalk(c, d) /\ d.at = "write" /\ d.ret = "read"
        /\ d.toSend = <<CrcStatus(c, "CRC_VALID")>>
    BY SendsIs DEF SameTalk, Accepts
  <1>2. /\ QueueOK(d) /\ CrcStatus(d, "CRC_VALID") = CrcStatus(c, "CRC_VALID")
        /\ d.queue = <<>> /\ Satisfied(d)
        /\ d.info = c.info /\ d.key = c.key /\ d.id = c.id
    BY <1>1, SameTalkKeeps DEF SameTalk
  <1>3. Ask(d) = CrcStatus(c, "CRC_VALID") /\ CrcStatus(c, "CRC_VALID").code # "SEND_FILE"
    BY <1>1, <1>2 DEF Ask, CrcStatus
  <1>4. Asking(d)
    BY <1>1, <1>3, AsksOne
  <1> QED BY <1>2, <1>4 DEF Turn

(* A checksum that is the client's own.                                    *)
LEMMA ChecksumConfirms ==
  ASSUME NEW c, NEW m \in Response, m.code = "MSG_RECEIVED_CRC", m.val = Crc(MyFile(c))
  PROVE  Confirms(c, m)
  <1>1. m # None
    BY ClientAssumption
  <1>2. m = [code |-> m.code, val |-> m.val]
    BY DEF Response
  <1> QED BY <1>1, <1>2 DEF Confirms, Reply

(* The answers are what their codes say.                                   *)
LEMMA FailedIs ==
  ASSUME NEW m \in Response
  PROVE  m.code = "REGISTRATION_FAILED" <=> m = Failed
  BY DEF Response, Failed, Reply

(* The answer in the loop of HandelMessageReceivedWithCrc.                 *)
LEMMA CrcReadTurn ==
  ASSUME NEW c, GoodProcess(c), c.at = "crcRead", QueueOK(c), NEW m \in Response,
         Answers(c, m), NEW d, d = AfterResend([c EXCEPT !.vresp = m])
  PROVE  Turn(c, d, m)
  <1> DEFINE e == [c EXCEPT !.vresp = m]
  <1>1. c \in Process /\ Active(c) /\ c.open /\ c.ret = "crcRead" /\ c.queue = <<>>
        /\ c.tries < NUM_OF_ATTEMPTS
    BY DEF GoodProcess, Active, QueueOK
  <1>2. Ask(c).code = "CRC_RESEND"
    BY <1>1 DEF Ask, CrcStatus
  <1>3. m # Failed => m.code = "MSG_RECEIVED_CRC"
    BY <1>2 DEF Answers, Answering
  <1>4. /\ e \in Process /\ e.open /\ e.queue = <<>> /\ e.vresp = m /\ e.tries = c.tries
        /\ e.info = c.info /\ e.id = c.id /\ e.key = c.key /\ e.buf = c.buf
        /\ e.at = "crcRead" /\ e.ret = "crcRead"
    BY <1>1 DEF Process
  <1> HIDE DEF e
  <1>5. QueueOK(e)
    BY <1>1, <1>4 DEF QueueOK
  <1>6. m # None
    BY ClientAssumption
  <1>7. ASSUME Turn(e, d, m) PROVE Turn(c, d, m)
    BY <1>4, <1>7 DEF Turn
  <1>8. CASE m.code # "MSG_RECEIVED_CRC"
    <2>1. d = AsksAgain(e)
      BY <1>4, <1>6, <1>8 DEF AfterResend, e
    <2> QED BY <1>3, <1>4, <1>5, <1>7, <2>1, AsksAgainTurn
  <1>9. CASE m.code = "MSG_RECEIVED_CRC" /\ m.val = Crc(MyFile(e))
    <2>1. d = Accepts(e)
      BY <1>4, <1>6, <1>9 DEF AfterResend, e
    <2>2. Satisfied(e)
      BY <1>4, <1>9, ChecksumConfirms DEF Satisfied
    <2> QED BY <1>3, <1>4, <1>5, <1>7, <2>1, <2>2, AcceptsTurn
  <1>10. CASE m.code = "MSG_RECEIVED_CRC" /\ m.val # Crc(MyFile(e))
    <2> DEFINE f == [e EXCEPT !.tries = @ + 1]
    <2>1. d = AsksAgain(f)
      BY <1>4, <1>6, <1>10 DEF AfterResend, e
    <2>2. /\ f \in Process /\ f.open /\ f.queue = <<>> /\ SameTalk(e, f)
          /\ f.at = e.at /\ f.ret = e.ret
      <3>1. e.tries + 1 \in 0..NUM_OF_ATTEMPTS
        BY <1>1, <1>4 DEF Process, NUM_OF_ATTEMPTS
      <3>2. f \in Process
        BY <1>4, <3>1 DEF Process
      <3>3. /\ f.open = e.open /\ f.at = e.at /\ f.ret = e.ret /\ f.queue = e.queue
            /\ SameTalk(e, f)
        BY <1>4 DEF Process, SameTalk
      <3> QED BY <1>4, <3>2, <3>3
    <2> HIDE DEF f
    <2>3. QueueOK(f)
      BY <1>4, <1>5, <2>2, SameTalkKeeps
    <2>4. Turn(f, d, m)
      BY <1>3, <2>1, <2>2, <2>3, AsksAgainTurn
    <2>5. Turn(e, d, m)
      BY <2>2, <2>4 DEF Turn, SameTalk
    <2> QED BY <1>7, <2>5
  <1> QED BY <1>8, <1>9, <1>10

(* The first message in the queue is sent.                                 *)
LEMMA AddsAndSends ==
  ASSUME NEW c \in Process, c.open, c.queue = <<>>, NEW m \in Request,
         NEW d, d = AddMessageToQueue(c, m)
  PROVE  /\ d.at = "write" /\ d.toSend = <<m>> /\ d.ret = "read" /\ d.queue = <<m>>
         /\ d.info = c.info /\ d.id = c.id /\ d.key = c.key /\ d.hasKey = c.hasKey
         /\ d.vresp = c.vresp
  <1> DEFINE q == [c EXCEPT !.queue = Append(@, m)]
             e == [q EXCEPT !.attempts = NUM_OF_ATTEMPTS]
  <1>1. Append(c.queue, m) = <<m>> /\ <<m>> \in Seq(Request) /\ <<m>> # <<>> /\ Head(<<m>>) = m
    OBVIOUS
  <1>2. d = SendFront(e)
    BY DEF AddMessageToQueue, SendNextMessage
  <1>3. /\ e \in Process /\ e.open /\ e.queue = <<m>>
        /\ e.info = c.info /\ e.id = c.id /\ e.key = c.key /\ e.hasKey = c.hasKey
        /\ e.vresp = c.vresp
    <2>1. /\ q \in Process /\ q.open /\ q.queue = <<m>>
          /\ q.info = c.info /\ q.id = c.id /\ q.key = c.key /\ q.hasKey = c.hasKey
          /\ q.vresp = c.vresp
      BY <1>1, ZenonT(60) DEF Process
    <2> HIDE DEF q
    <2>2. NUM_OF_ATTEMPTS \in 0..NUM_OF_ATTEMPTS
      BY DEF NUM_OF_ATTEMPTS
    <2>3. e \in Process
      BY <2>1, <2>2, ZenonT(60) DEF Process
    <2>4. /\ e.open = q.open /\ e.queue = q.queue /\ e.info = q.info /\ e.id = q.id
          /\ e.key = q.key /\ e.hasKey = q.hasKey /\ e.vresp = q.vresp
      BY <2>1 DEF Process
    <2> QED BY <2>1, <2>3, <2>4
  <1> HIDE DEF e
  <1>4. d = Sends(e, <<m>>, "read")
    BY <1>1, <1>2, <1>3 DEF SendFront
  <1> QED BY <1>3, <1>4, SendsIs

(* It waits for the answer to a registration or a key request.             *)
LEMMA QueuedAsks ==
  ASSUME NEW d, d.at = "write", d.ret = "read", d.vresp = None, d.key = None,
         d.toSend = d.queue,
         d.queue = IF d.id = None THEN <<Registration(d)>> ELSE <<PublicKey(d)>>
  PROVE  QueueOK(d) /\ Asking(d) /\ d.queue # <<>> /\ ~Uploaded(d)
  <1> DEFINE m == IF d.id = None THEN Registration(d) ELSE PublicKey(d)
  <1>1. d.queue = <<m>> /\ m.code # "SEND_FILE"
    BY DEF Registration, PublicKey
  <1> HIDE DEF m
  <1>2. d.queue # <<>> /\ Head(d.queue) = m
    BY <1>1
  <1>3. QueueOK(d)
    BY <1>2 DEF QueueOK
  <1>4. Asking(d)
    BY <1>1, <1>2, AsksOne DEF Ask
  <1> QED BY <1>2, <1>3, <1>4 DEF Uploaded

(* A process that stops has had its turn.                                  *)
LEMMA StopsTurn ==
  ASSUME NEW c, NEW e \in Process, e.info = c.info, NEW how, NEW d, d = Stops(e, how), NEW m
  PROVE  Turn(c, d, m)
  BY StopsIs DEF Turn

(* What Run's loop finds: the process with the answer in its buffer.       *)
Buffered(c, m) == [c EXCEPT !.buf = m]

LEMMA BufferRead ==
  ASSUME NEW c, GoodProcess(c), c.at = "read", NEW m \in Response,
         NEW e, e = Buffered(c, m)
  PROVE  /\ e \in Process /\ e.open /\ e.buf = m /\ e.toSend = <<>> /\ e.at = "read"
         /\ e.info = c.info /\ e.id = c.id /\ e.key = c.key /\ e.hasKey = c.hasKey
         /\ e.queue = c.queue /\ e.vresp = c.vresp /\ e.ret = c.ret
         /\ e.attempts = c.attempts /\ e.info \in TransferInfo
         /\ QueueOK(c) => QueueOK(e)
  <1>1. c \in Process /\ c.open /\ c.toSend = <<>> /\ c.info \in TransferInfo
    BY DEF GoodProcess, Active, Started
  <1>2. /\ e \in Process /\ e.open /\ e.buf = m /\ e.toSend = <<>> /\ e.at = "read"
        /\ e.info = c.info /\ e.id = c.id /\ e.key = c.key /\ e.hasKey = c.hasKey
        /\ e.queue = c.queue /\ e.vresp = c.vresp /\ e.ret = c.ret
        /\ e.attempts = c.attempts
    BY <1>1 DEF Process, Buffered
  <1>3. Registration(e) = Registration(c) /\ PublicKey(e) = PublicKey(c)
    BY <1>2 DEF Registration, PublicKey
  <1>4. QueueOK(c) => QueueOK(e)
    BY <1>2, <1>3 DEF QueueOK
  <1> QED BY <1>1, <1>2, <1>4

(* pop_front() of the one message there is, or of none.                    *)
LEMMA PopFrontIs ==
  ASSUME NEW e \in Process, QueueOK(e), NEW d, d = PopFront(e)
  PROVE  /\ d \in Process /\ d.queue = <<>> /\ d.open = e.open /\ d.at = e.at
         /\ d.info = e.info /\ d.id = e.id /\ d.key = e.key /\ d.hasKey = e.hasKey
         /\ d.buf = e.buf /\ d.vresp = e.vresp /\ d.ret = e.ret
  <1>1. e.queue = <<>> \/ \E x : e.queue = <<x>>
    BY DEF QueueOK
  <1>2. \A x : Tail(<<x>>) = <<>> /\ <<x>> # <<>>
    OBVIOUS
  <1>3. (IF e.queue = <<>> THEN e.queue ELSE Tail(e.queue)) = <<>>
    BY <1>1, <1>2
  <1>4. d = [e EXCEPT !.queue = <<>>]
    BY <1>3 DEF PopFront
  <1>5. <<>> \in Seq(Request)
    OBVIOUS
  <1> QED BY <1>4, <1>5 DEF Process

(* The registration is approved.                                           *)
LEMMA RegistrationTurn ==
  ASSUME NEW c, GoodProcess(c), c.at = "read", QueueOK(c), NEW m \in Response,
         Answers(c, m), m.code = "REGISTRATION_SUCCEEDED",
         NEW p \in Conns, RegistrationApproved(p, Buffered(c, m))
  PROVE  \E d : cl' = [cl EXCEPT ![p] = d] /\ Turn(c, d, m)
  <1> DEFINE e == Buffered(c, m)
  <1>1. /\ e \in Process /\ e.open /\ e.buf = m /\ e.toSend = <<>> /\ e.at = "read"
        /\ e.info = c.info /\ e.id = c.id /\ e.key = c.key /\ e.queue = c.queue
        /\ e.vresp = c.vresp /\ QueueOK(e)
    BY BufferRead
  <1> HIDE DEF e
  <1>2. Active(c) /\ m # Failed
    BY FailedIs DEF Active
  <1>3. c.queue # <<>> /\ c.id = None /\ c.vresp = None /\ c.key = None
    <2>1. Ask(c).code = "REGISTRATION"
      BY <1>2 DEF Answers, Answering
    <2> QED BY <1>2, <2>1, AskSays DEF QueueOK
  <1> DEFINE f == PopFront(e)
             g == [f EXCEPT !.id = m.val]
             d == AddMessageToQueue(g, PublicKey(g))
  <1>4. cl' = [cl EXCEPT ![p] = d]
    BY <1>1, <1>3 DEF RegistrationApproved, e
  <1>5. m.val \in Ids /\ m.val # None
    BY ResponseByCode, IdAssumption
  <1>6. /\ f \in Process /\ f.queue = <<>> /\ f.open = e.open /\ f.info = e.info
        /\ f.key = e.key /\ f.vresp = e.vresp
    BY <1>1, PopFrontIs
  <1> HIDE DEF f
  <1>7. /\ g \in Process /\ g.queue = <<>> /\ g.open /\ g.info = c.info /\ g.id = m.val
        /\ g.key = None /\ g.vresp = None
    BY <1>1, <1>3, <1>5, <1>6, ZenonT(60) DEF Process
  <1> HIDE DEF g
  <1>8. PublicKey(g) \in Request
    BY <1>5, <1>7 DEF PublicKey, Process, Request, PublicKeyRequest
  <1>9. /\ d.at = "write" /\ d.toSend = <<PublicKey(g)>> /\ d.ret = "read"
        /\ d.queue = <<PublicKey(g)>> /\ d.info = c.info /\ d.id = m.val /\ d.key = None
        /\ d.hasKey = g.hasKey /\ d.vresp = None
    BY <1>7, <1>8, AddsAndSends
  <1> HIDE DEF d
  <1>10. PublicKey(d) = PublicKey(g)
    BY <1>7, <1>9 DEF PublicKey
  <1>11. QueueOK(d) /\ Asking(d) /\ ~Uploaded(d)
    BY <1>5, <1>9, <1>10, QueuedAsks
  <1> QED BY <1>4, <1>9, <1>11 DEF Turn

(* The session key has come.                                               *)
LEMMA SymmetricKeyTurn ==
  ASSUME NEW c, GoodProcess(c), c.at = "read", QueueOK(c), NEW m \in Response,
         Answers(c, m), m.code = "PUBLIC_KEY_RECEIVED",
         NEW d \in SymmetricKeyReceived(Buffered(c, m))
  PROVE  Turn(c, d, m)
  <1> DEFINE e == Buffered(c, m)
             f == PopFront(e)
             g == [f EXCEPT !.key = m.val]
  <1>1. /\ e \in Process /\ e.open /\ e.buf = m /\ e.info = c.info /\ e.id = c.id
        /\ e.vresp = c.vresp /\ QueueOK(e) /\ e.info \in TransferInfo
    BY BufferRead
  <1>2. Active(c) /\ m # Failed
    BY FailedIs DEF Active
  <1>3. c.id # None /\ c.vresp = None
    <2>1. Ask(c).code = "PUBLIC_KEY"
      BY <1>2 DEF Answers, Answering
    <2> QED BY <1>2, <2>1, AskSays DEF QueueOK
  <1>4. m.val \in Keys \cup {None}
    BY ResponseByCode
  <1>5. \/ d = Stops(e, "killed")
        \/ m.val # None /\ d = Sends(g, Upload(g), "read")
    BY <1>1 DEF SymmetricKeyReceived, MayDie
  <1> HIDE DEF e
  <1>6. CASE d = Stops(e, "killed")
    BY <1>1, <1>6, StopsTurn
  <1>7. CASE m.val # None /\ d = Sends(g, Upload(g), "read")
    <2>1. /\ f \in Process /\ f.queue = <<>> /\ f.open = e.open /\ f.info = e.info
          /\ f.id = e.id /\ f.vresp = e.vresp /\ f.buf = e.buf
      BY <1>1, PopFrontIs
    <2> HIDE DEF f
    <2>2. /\ g \in Process /\ g.queue = <<>> /\ g.open /\ g.info = c.info /\ g.id = c.id
          /\ g.key = m.val /\ g.vresp = None /\ g.buf = m
      <3>1. g \in Process
        BY <1>4, <2>1 DEF Process
      <3>2. /\ g.queue = f.queue /\ g.open = f.open /\ g.info = f.info /\ g.id = f.id
            /\ g.key = m.val /\ g.vresp = f.vresp /\ g.buf = f.buf
        BY <2>1 DEF Process
      <3> HIDE DEF g
      <3> QED BY <1>1, <1>3, <2>1, <3>1, <3>2
    <2> HIDE DEF g
    <2>3. /\ SameTalk(g, d) /\ d.at = "write" /\ d.ret = "read" /\ d.toSend = Upload(g)
      BY <1>7, <2>2, SendsIs DEF SameTalk
    <2>4. QueueOK(d)
      BY <1>3, <1>7, <2>2, <2>3 DEF QueueOK, SameTalk
    <2>5. ~Satisfied(d)
      <3>1. m # Reply("MSG_RECEIVED_CRC", Crc(MyFile(d)))
        BY RepliesOther
      <3> QED BY <2>2, <2>3, <3>1 DEF Satisfied, Confirms, SameTalk
    <2>6. Ask(d) = FirstPacket(g)
      BY <2>2, <2>3, <2>5, SameTalkKeeps DEF Ask, SameTalk
    <2>7. Asking(d)
      BY <1>1, <2>2, <2>3, <2>6, UploadFacts DEF Asking
    <2>8. ~Uploaded(d)
      BY <2>3, <2>5 DEF Uploaded
    <2> QED BY <2>2, <2>3, <2>4, <2>7, <2>8 DEF Turn, SameTalk
  <1> QED BY <1>5, <1>6, <1>7

(* A checksum has come.                                                    *)
LEMMA ChecksumTurn ==
  ASSUME NEW c, GoodProcess(c), c.at = "read", QueueOK(c), NEW m \in Response,
         Answers(c, m), m.code = "MSG_RECEIVED_CRC",
         NEW d \in MessageReceivedWithCrc(Buffered(c, m))
  PROVE  Turn(c, d, m)
  <1> DEFINE e == Buffered(c, m)
             f == PopFront(e)
  <1>1. /\ e \in Process /\ e.open /\ e.buf = m /\ e.info = c.info /\ e.id = c.id
        /\ e.key = c.key /\ e.queue = c.queue /\ e.vresp = c.vresp /\ e.at = "read"
        /\ e.hasKey = c.hasKey /\ e.ret = c.ret /\ QueueOK(e)
    BY BufferRead
  <1>2. Active(c) /\ m # Failed
    BY FailedIs DEF Active
  <1>3. c.queue = <<>>
    <2>1. Ask(c).code \in {"SEND_FILE", "CRC_RESEND"}
      BY <1>2 DEF Answers, Answering
    <2> QED BY <1>2, <2>1, AskSays
  <1>4. \/ d = Stops(e, "killed")
        \/ m.val = Crc(MyFile(e)) /\ d = Accepts(f)
        \/ d = AsksAgain(f)
    BY <1>1 DEF MessageReceivedWithCrc, MayDie
  <1> HIDE DEF e
  <1>5. /\ f \in Process /\ f.queue = <<>> /\ f.open /\ SameTalk(e, f)
        /\ f.at = e.at /\ f.ret = e.ret
    BY <1>1, <1>3, PopFrontIs DEF SameTalk
  <1> HIDE DEF f
  <1>6. QueueOK(f)
    BY <1>1, <1>3, <1>5, SameTalkKeeps DEF QueueOK
  <1>7. ASSUME Turn(f, d, m) PROVE Turn(c, d, m)
    BY <1>1, <1>5, <1>7 DEF Turn, SameTalk
  <1>8. CASE d = Stops(e, "killed")
    BY <1>1, <1>8, StopsTurn
  <1>9. CASE m.val = Crc(MyFile(e)) /\ d = Accepts(f)
    <2>1. Satisfied(f)
      BY <1>1, <1>5, <1>9, ChecksumConfirms, SameTalkKeeps DEF Satisfied
    <2> QED BY <1>5, <1>6, <1>7, <1>9, <2>1, AcceptsTurn
  <1>10. CASE d = AsksAgain(f)
    BY <1>5, <1>6, <1>7, <1>10, AsksAgainTurn
  <1> QED BY <1>4, <1>8, <1>9, <1>10

(* The server failed.                                                      *)
LEMMA FailureTurn ==
  ASSUME NEW c, GoodProcess(c), c.at = "read", QueueOK(c),
         NEW d \in RegistrationFailed(Buffered(c, Failed))
  PROVE  Turn(c, d, Failed)
  <1> DEFINE e == Buffered(c, Failed)
             f == [e EXCEPT !.attempts = @ - 1]
  <1>1. /\ e \in Process /\ e.open /\ e.toSend = <<>> /\ e.info = c.info /\ e.id = c.id
        /\ e.key = c.key /\ e.queue = c.queue /\ e.at = "read" /\ QueueOK(e)
    BY BufferRead, FailedType
  <1>2. \/ d = Stops(e, "killed")
        \/ d = Stops(PopFront(e), "error")
        \/ e.attempts # 0 /\ d = SendFront(f)
    BY <1>1 DEF RegistrationFailed, MayDie
  <1> HIDE DEF e
  <1>3. CASE d = Stops(e, "killed")
    BY <1>1, <1>3, StopsTurn
  <1>4. CASE d = Stops(PopFront(e), "error")
    <2>1. PopFront(e) \in Process /\ PopFront(e).info = c.info
      BY <1>1, PopFrontIs
    <2> QED BY <1>4, <2>1, StopsTurn
  <1>5. CASE e.attempts # 0 /\ d = SendFront(f)
    <2>1. e.attempts - 1 \in 0..NUM_OF_ATTEMPTS
      BY <1>1, <1>5 DEF Process, NUM_OF_ATTEMPTS
    <2>2. f \in Process /\ f.open /\ SameTalk(e, f) /\ f.at = "read" /\ f.ret = e.ret
      BY <1>1, <2>1 DEF Process, SameTalk
    <2> HIDE DEF f
    <2>3. QueueOK(f) /\ f.ret = "read"
      BY <1>1, <2>2, SameTalkKeeps DEF QueueOK
    <2>4. CASE f.queue = <<>>
      <3>1. d = [f EXCEPT !.at = "read"]
        BY <1>5, <2>2, <2>4 DEF SendFront, Loops
      <3>2. d = f
        BY <2>2, <3>1 DEF Process
      <3> QED BY <1>1, <2>2, <2>3, <3>2 DEF Turn, SameTalk
    <2>5. CASE f.queue # <<>>
      <3>1. d = Sends(f, <<Head(f.queue)>>, "read")
        BY <1>5, <2>5 DEF SendFront
      <3>2. SameTalk(f, d) /\ d.at = "write" /\ d.ret = "read"
        BY <2>2, <3>1, SendsIs DEF SameTalk
      <3>3. QueueOK(d)
        BY <2>3, <3>2, SameTalkKeeps
      <3> QED BY <1>1, <2>2, <3>2, <3>3 DEF Turn, SameTalk
    <2> QED BY <2>4, <2>5
  <1> QED BY <1>2, <1>3, <1>4, <1>5

(* Run's loop, after a Read that succeeded.                                *)
LEMMA ReadTurn ==
  ASSUME NEW c, GoodProcess(c), c.at = "read", QueueOK(c), NEW m \in Response,
         Answers(c, m), NEW p \in Conns, Dispatch(p, [c EXCEPT !.buf = m])
  PROVE  \E d : cl' = [cl EXCEPT ![p] = d] /\ Turn(c, d, m)
  <1> DEFINE e == Buffered(c, m)
  <1>1. e \in Process /\ e.buf = m /\ e.info = c.info /\ QueueOK(e)
    BY BufferRead
  <1>2. m # None
    BY ClientAssumption
  <1>3. \/ m.code = "REGISTRATION_SUCCEEDED" /\ RegistrationApproved(p, e)
        \/ \E d \in Handlers(e) : cl' = [cl EXCEPT ![p] = d]
    BY <1>1, <1>2 DEF Dispatch, RegistrationApproved, Buffered
  <1>4. ASSUME NEW d \in Handlers(e), m.code # "REGISTRATION_SUCCEEDED"
        PROVE  Turn(c, d, m)
    <2>1. CASE m.code = "PUBLIC_KEY_RECEIVED"
      BY <1>1, <1>4, <2>1, SymmetricKeyTurn DEF Handlers
    <2>2. CASE m.code = "MSG_RECEIVED_CRC"
      BY <1>1, <1>4, <2>2, ChecksumTurn DEF Handlers
    <2>3. CASE m.code = "MSG_RECEIVED"
      <3>1. d \in {Stops(PopFront(e), "hurray"), Stops(e, "killed")}
        BY <1>1, <1>4, <2>3 DEF Handlers, MessageReceived, MayDie
      <3>2. PopFront(e) \in Process /\ PopFront(e).info = c.info
        BY <1>1, PopFrontIs
      <3> HIDE DEF e
      <3> QED BY <1>1, <3>1, <3>2, StopsTurn
    <2>4. CASE m.code = "REGISTRATION_FAILED"
      <3>1. m = Failed
        BY <2>4, FailedIs
      <3> QED BY <1>1, <1>4, <2>4, <3>1, FailureTurn DEF Handlers
    <2> QED BY <1>4, <2>1, <2>2, <2>3, <2>4, ResponseByCode
  <1>5. CASE m.code = "REGISTRATION_SUCCEEDED"
    <2>1. RegistrationApproved(p, e)
      BY <1>1, <1>2, <1>5 DEF Dispatch, Buffered
    <2> QED BY <1>5, <2>1, RegistrationTurn
  <1> QED BY <1>3, <1>4, <1>5

-----------------------------------------------------------------------------
(* The client's steps.                                                     *)

(* What the server has of a client depends on the file alone.              *)
LEMMA SameFileKeeps ==
  ASSUME NEW k \in Conns, cl'[k].info = cl[k].info, UNCHANGED <<clients, files, fileDict>>
  PROVE  /\ MyFile(cl'[k]) = MyFile(cl[k])
         /\ \A i, f : (Held(k, i, f)' <=> Held(k, i, f))
                      /\ (InMemory(k, i, f)' <=> InMemory(k, i, f))
         /\ \A m : Sound(k, m)' <=> Sound(k, m)
  <1>1. MyFile(cl'[k]) = MyFile(cl[k])
    BY DEF MyFile
  <1>2. \A i, f : InMemory(k, i, f)' <=> InMemory(k, i, f)
    BY <1>1 DEF InMemory
  <1>3. \A i, f : Held(k, i, f)' <=> Held(k, i, f)
    BY <1>2 DEF Held, RowOf
  <1>4. \A m : Sound(k, m)' <=> Sound(k, m)
    BY <1>1, <1>3 DEF Sound, HasKeyOf
  <1> QED BY <1>1, <1>2, <1>3, <1>4

(* A client that takes part no more, whatever it left unread.              *)
LEMMA LeavesConv ==
  ASSUME NEW k \in Conns, Stage(k), UNCHANGED serverVars, toServer'[k] = toServer[k],
         ~Active(cl'[k]), cl'[k].info = cl[k].info,
         \/ toClient'[k] \in {toClient[k], <<>>}
         \/ toClient[k] # <<>> /\ toClient'[k] = Tail(toClient[k])
  PROVE  Stage(k)'
  <1>1. UNCHANGED <<pc, req, left, out, clients, files, fileDict>>
    BY DEF serverVars, threadVars, dbVars, storeVars
  <1>2. /\ MyFile(cl'[k]) = MyFile(cl[k])
        /\ \A i, f : (Held(k, i, f)' <=> Held(k, i, f))
                     /\ (InMemory(k, i, f)' <=> InMemory(k, i, f))
        /\ \A m : Sound(k, m)' <=> Sound(k, m)
    BY <1>1, SameFileKeeps
  <1>3. CASE Awaits(k)
    <2>1. toClient'[k] = <<>>
      BY <1>3 DEF Awaits
    <2>2. Sound(k, Head(toServer[k]))' <=> Sound(k, Head(toServer[k]))
      <3>1. PICK m : m = Head(toServer[k])
        OBVIOUS
      <3>2. Head(toServer'[k]) = m
        BY <3>1
      <3> QED BY <1>2, <3>1, <3>2
    <2> QED BY <1>1, <1>3, <2>1, <2>2 DEF Awaits, Stage
  <1>4. CASE Takes(k)
    <2>1. toClient'[k] = <<>>
      BY <1>4 DEF Takes
    <2>2. Sound(k, req[k])' <=> Sound(k, req[k])
      <3>1. PICK m : m = req[k] /\ m = req'[k]
        BY <1>1
      <3> QED BY <1>2, <3>1
    <2> QED BY <1>1, <1>4, <2>1, <2>2 DEF Takes, Stage
  <1>5. CASE Handles(k)
    <2>1. toClient'[k] = <<>>
      BY <1>5 DEF Handles
    <2>2. PICK m : m = req[k] /\ m = req'[k]
      BY <1>1
    <2>3. /\ Sound(k, req[k])' <=> Sound(k, req[k])
          /\ InMemory(k, req[k].id, req[k].file)' <=> InMemory(k, req[k].id, req[k].file)
          /\ Held(k, req[k].id, req[k].file)' <=> Held(k, req[k].id, req[k].file)
      BY <1>2, <2>2
    <2> QED BY <1>1, <1>5, <2>1, <2>3 DEF Handles, Handling, Stage
  <1>6. CASE Replies(k)
    BY <1>1, <1>6 DEF Replies, Told, Stage
  <1>7. CASE Hears(k)
    <2>1. CASE toClient'[k] = toClient[k]
      BY <1>1, <1>7, <2>1 DEF Hears, Told, Stage
    <2>2. CASE toClient'[k] # toClient[k]
      <3>1. toClient'[k] = <<>>
        BY <1>7, <2>2 DEF Hears
      <3> QED BY <1>1, <1>7, <3>1 DEF Hears, Awaits, Stage
    <2> QED BY <2>1, <2>2
  <1>8. CASE Quits(k)
    <2>1. toClient'[k] # <<>> => Tail(toClient'[k]) \in Refusals
      BY <1>8, RefusalFacts DEF Quits
    <2> QED BY <1>1, <1>8, <2>1 DEF Quits, Stage
  <1> QED BY <1>3, <1>4, <1>5, <1>6, <1>7, <1>8 DEF Stage

(* The client reads the answer, and takes its turn.                        *)
LEMMA TurnConv ==
  ASSUME NEW k \in Conns, Stage(k), UNCHANGED serverVars, toServer'[k] = toServer[k],
         Active(cl[k]), toClient[k] # <<>>, toClient'[k] = Tail(toClient[k]),
         Turn(cl[k], cl'[k], Head(toClient[k]))
  PROVE  Stage(k)' /\ (Active(cl'[k]) => QueueOK(cl'[k]))
  <1>1. PICK m : m = Head(toClient[k])
    OBVIOUS
  <1>2. UNCHANGED <<pc, req, left, out, clients, files, fileDict>>
    BY DEF serverVars, threadVars, dbVars, storeVars
  <1>3. Active(cl'[k]) => QueueOK(cl'[k])
    BY DEF Turn
  <1>4. CASE ~Active(cl'[k])
    BY <1>4, LeavesConv DEF Turn
  <1>5. CASE Active(cl'[k]) /\ Quits(k)
    <2>1. Tail(toClient[k]) \in Refusals
      BY <1>5 DEF Quits
    <2>2. toClient'[k] # <<>> => /\ Tail(toClient'[k]) \in Refusals
                                 /\ Answers(cl'[k], Head(toClient'[k]))
      BY <2>1, RefusalFacts DEF Answers
    <2> QED BY <1>2, <1>3, <1>5, <2>2 DEF Quits, Stage
  <1>6. CASE Active(cl'[k]) /\ Hears(k)
    <2> DEFINE c == cl[k]
    <2>1. /\ m # Failed /\ Knows(k) /\ GoodReply(k, m) /\ pc[k] = "recv" /\ out[k] = <<>>
          /\ toServer[k] = <<>> /\ toClient'[k] = <<>>
      BY <1>1, <1>6 DEF Hears, Told
    <2>2. /\ cl'[k].info = cl[k].info /\ Asking(cl'[k])
          /\ \/ cl'[k].key = None
             \/ cl'[k].key = cl[k].key /\ cl'[k].id = cl[k].id
             \/ /\ m.code = "PUBLIC_KEY_RECEIVED" /\ cl'[k].key = m.val
                /\ cl'[k].id = cl[k].id
          /\ Uploaded(cl'[k]) => m.code = "MSG_RECEIVED_CRC" /\ cl'[k].id = cl[k].id
      BY <1>1, <1>6, <2>1 DEF Turn
    <2>3. Knows(k)'
      <3>1. CASE cl'[k].key = None
        BY <3>1 DEF Knows
      <3>2. CASE cl'[k].key = cl[k].key /\ cl'[k].id = cl[k].id
        BY <1>2, <2>1, <3>2 DEF Knows, HasKeyOf
      <3>3. CASE /\ m.code = "PUBLIC_KEY_RECEIVED" /\ cl'[k].key = m.val
                 /\ cl'[k].id = cl[k].id
        BY <1>2, <2>1, <3>3 DEF Knows, HasKeyOf, GoodReply
      <3> QED BY <2>2, <3>1, <3>2, <3>3
    <2>4. Uploaded(cl'[k]) => Held(k, cl[k].id, cl[k].info.file)'
      <3>1. Uploaded(cl'[k]) => Held(k, cl[k].id, cl[k].info.file)
        BY <2>1, <2>2 DEF GoodReply
      <3>2. PICK i, f : i = cl[k].id /\ f = cl[k].info.file
        OBVIOUS
      <3>3. Held(k, i, f)' <=> Held(k, i, f)
        BY <1>2, <2>2, SameFileKeeps
      <3>4. Uploaded(cl'[k]) => cl'[k].id = i /\ cl'[k].info.file = f
        BY <2>2, <3>2
      <3> QED BY <3>1, <3>2, <3>3, <3>4
    <2>5. Awaits(k)'
      BY <1>2, <2>1, <2>2, <2>3, <2>4 DEF Awaits
    <2> QED BY <1>3, <2>5 DEF Stage
  <1> QED BY <1>4, <1>5, <1>6 DEF Stage, Awaits, Takes, Handles, Replies

(* The process after a packet has gone out.                                *)
LEMMA SentIs ==
  ASSUME NEW c \in Process, NEW d, d = Sent(c)
  PROVE  /\ d.info = c.info
         /\ Active(d) => /\ SameTalk(c, d) /\ d.ret = c.ret /\ d.toSend = Tail(c.toSend)
                         /\ c.at = "write" /\ d.at # "write" => d.ret = d.at
  <1> DEFINE e == [c EXCEPT !.toSend = Tail(@)]
             g == [e EXCEPT !.at = e.ret]
  <1>1. /\ DOMAIN e = DOMAIN c /\ e.toSend = Tail(c.toSend) /\ SameTalk(c, e)
        /\ e.ret = c.ret /\ e.at = c.at
    BY DEF Process, SameTalk
  <1>2. \/ Tail(c.toSend) # <<>> /\ d = e
        \/ Tail(c.toSend) = <<>> /\ e.ret = "exit" /\ d = Stops(e, "error")
        \/ Tail(c.toSend) = <<>> /\ e.ret # "exit" /\ d = g
    BY <1>1 DEF Sent
  <1>3. /\ g.toSend = e.toSend /\ SameTalk(e, g) /\ g.ret = e.ret /\ g.at = e.ret
    BY DEF Process, SameTalk
  <1>4. Stops(e, "error").info = c.info /\ Stops(e, "error").at = "exit"
    BY DEF Process, Stops
  <1>5. e.ret \in {"read", "crcRead", "exit"}
    BY <1>1 DEF Process
  <1> HIDE DEF e, g
  <1>6. CASE Tail(c.toSend) # <<>> /\ d = e
    BY <1>1, <1>6 DEF SameTalk
  <1>7. CASE d = Stops(e, "error")
    BY <1>4, <1>7 DEF Active
  <1>8. CASE Tail(c.toSend) = <<>> /\ e.ret # "exit" /\ d = g
    BY <1>1, <1>3, <1>5, <1>8 DEF SameTalk
  <1> QED BY <1>2, <1>6, <1>7, <1>8

LEMMA WritePacketConv ==
  ASSUME TInv, NEW k \in Conns, Conv(k), WritePacket(k), UNCHANGED serverVars
  PROVE  Stage(k)' /\ (Active(cl'[k]) => QueueOK(cl'[k]))
  <1>1. PICK c, d, s, m : /\ c = cl[k] /\ d = cl'[k] /\ s = toServer[k]
                          /\ m = Head(c.toSend)
    OBVIOUS
  <1>2. /\ Stage(k) /\ GoodProcess(c) /\ EndsOK(k) /\ c.at = "write" /\ Active(c)
        /\ QueueOK(c) /\ d = Sent(c) /\ ClientSend(k, m)
        /\ UNCHANGED <<pc, req, left, out, clients, files, fileDict, toClient>>
    BY <1>1 DEF TInv, ClientOK, Conv, WritePacket, Active, ClientSend, serverVars,
                threadVars, dbVars, storeVars
  <1>3. /\ c \in Process /\ c.toSend # <<>> /\ c.toSend \in Seq(Request)
        /\ s \in Seq(Request) /\ srvEnd[k] \in EndState
    BY <1>1, <1>2 DEF GoodProcess, Process, TInv, IInv, TypeOK, ChannelTypeOK
  <1>4. /\ d.info = c.info
        /\ Active(d) => /\ SameTalk(c, d) /\ d.ret = c.ret /\ d.toSend = Tail(c.toSend)
                        /\ d.at # "write" => d.ret = d.at
    BY <1>2, <1>3, SentIs
  <1>5. Active(d) => /\ QueueOK(d) /\ Ask(d) = Ask(c) /\ (Uploaded(d) <=> Uploaded(c))
                     /\ d.key = c.key /\ d.id = c.id /\ d.queue = c.queue
    BY <1>2, <1>4, SameTalkKeeps DEF QueueOK, SameTalk
  <1>6. /\ MyFile(d) = MyFile(c)
        /\ \A i, f : Held(k, i, f)' <=> Held(k, i, f)
        /\ \A x : Sound(k, x)' <=> Sound(k, x)
    BY <1>1, <1>2, <1>4, SameFileKeeps
  <1>7. Knows(k) /\ Active(d) => Knows(k)'
    BY <1>1, <1>2, <1>5 DEF Knows, HasKeyOf
  <1>8. CASE Quits(k)
    <2>1. Active(d) /\ toClient[k] # <<>> => Answers(d, Head(toClient[k]))
      BY <1>1, <1>2, <1>5, <1>8 DEF Quits, Answers
    <2> QED BY <1>1, <1>2, <1>5, <1>8, <2>1 DEF Stage, Quits
  <1>9. ASSUME Awaits(k) \/ Takes(k)
        PROVE  toServer'[k] = Append(s, m)
    <2>1. srvEnd[k] = "open"
      <3>1. srvEnd[k] # "unused" /\ srvEnd[k] # "closed"
        BY <1>2, <1>9 DEF ClientSend, EndsOK, Awaits, Takes
      <3> QED BY <1>3, <3>1 DEF EndState
    <2> QED BY <1>1, <1>2, <2>1 DEF ClientSend, TInv, IInv, TypeOK, ChannelTypeOK
  <1> DEFINE t == Len(c.toSend)
             n == Len(s)
  <1>10. t \in Nat /\ t >= 1 /\ n \in Nat /\ (s = <<>> <=> n = 0)
    BY <1>3
  <1> HIDE DEF t, n
  <1>11. CASE Awaits(k) /\ s = <<>>
    <2>1. /\ m = Ask(c) /\ Tail(c.toSend) \in Chunks /\ t = PacketsOf(Ask(c))
          /\ toClient[k] = <<>> /\ out[k] = <<>> /\ pc[k] \in {"none", "recv"}
          /\ pc[k] = "none" => c.queue # <<>>
          /\ pc[k] = "recv" => Knows(k) /\ (Uploaded(c) => Held(k, c.id, c.info.file))
      BY <1>1, <1>2, <1>11 DEF Awaits, Asking, t
    <2>2. toServer'[k] = <<m>>
      BY <1>9, <1>11
    <2>3. /\ toServer'[k] # <<>> /\ Head(toServer'[k]) = m /\ Tail(toServer'[k]) = <<>>
          /\ Len(toServer'[k]) = 1
      BY <2>2
    <2>4. m.code # "CHUNK" /\ (c.queue # <<>> => m.code \in {"REGISTRATION", "PUBLIC_KEY"})
      BY <1>2, <2>1, AskSays
    <2>5. pc[k] = "recv" => Sound(k, m)'
      <3>1. ASSUME pc[k] = "recv", m.code = "SEND_FILE"
            PROVE  m.data = MyFile(c) /\ m.file = c.info.file /\ HasKeyOf(m.id, m.key)
        <4>1. c.queue = <<>> /\ m = FirstPacket(c)
          BY <1>2, <2>1, <3>1, AskSays
        <4>2. /\ m.data = MyFile(c) /\ m.file = c.info.file /\ m.id = c.id
              /\ m.key = c.key
          BY <4>1 DEF FirstPacket
        <4>3. c.key # None
          BY <1>2, <4>1 DEF QueueOK
        <4> QED BY <1>1, <2>1, <3>1, <4>2, <4>3 DEF Knows
      <3>2. ASSUME pc[k] = "recv", m.code = "CRC_VALID" PROVE Held(k, m.id, m.file)
        <4>1. c.queue = <<>> /\ Satisfied(c) /\ m = CrcStatus(c, "CRC_VALID")
          BY <1>2, <2>1, <3>2, AskSays
        <4>2. m.id = c.id /\ m.file = c.info.file
          BY <4>1 DEF CrcStatus
        <4> QED BY <2>1, <3>2, <4>1, <4>2 DEF Uploaded
      <3>3. pc[k] = "recv" => Sound(k, m)
        BY <1>1, <3>1, <3>2 DEF Sound
      <3> QED BY <1>6, <3>3
    <2>6. /\ Tail(c.toSend) \in Chunks /\ Len(Tail(c.toSend)) = t - 1
          /\ <<>> \in Chunks
      BY <1>3, <2>1, SeqFacts, EmptyIsSeq DEF Chunks, t
    <2>7. pc[k] = "recv" => Sound(k, Head(toServer[k]))'
      BY <2>3, <2>5
    <2>8. Uploaded(d) /\ Active(d) /\ pc[k] = "recv" => Held(k, d.id, d.info.file)'
      BY <1>4, <1>5, <1>6, <2>1
    <2>9. Len(toServer'[k]) <= PacketsOf(m)
      BY <1>10, <2>1, <2>3
    <2>10. ASSUME Active(d)
           PROVE  /\ m = Ask(d) /\ d.toSend \in Chunks
                  /\ Len(toServer'[k]) + Len(d.toSend) = PacketsOf(Ask(d))
      <3>1. /\ m = Ask(d) /\ d.toSend \in Chunks /\ PacketsOf(Ask(d)) = t
            /\ Len(d.toSend) = t - 1 /\ Len(toServer'[k]) = 1
        BY <1>4, <1>5, <2>1, <2>3, <2>6, <2>10
      <3> QED BY <1>10, <3>1
    <2>11. Awaits(k)'
      BY <1>1, <1>2, <1>5, <1>7, <2>1, <2>3, <2>4, <2>6, <2>7, <2>8, <2>9, <2>10
         DEF Awaits
    <2> QED BY <1>1, <1>5, <2>11 DEF Stage
  <1>12. ASSUME c.toSend \in Chunks, Awaits(k) \/ Takes(k)
         PROVE  /\ m = Chunk /\ toServer'[k] = Append(s, Chunk)
                /\ Len(toServer'[k]) = n + 1 /\ toServer'[k] # <<>>
                /\ s # <<>> => /\ Head(toServer'[k]) = Head(s)
                               /\ Tail(toServer'[k]) = Append(Tail(s), Chunk)
                /\ Active(d) => d.toSend \in Chunks /\ Len(d.toSend) = t - 1
    <2>1. m = Chunk /\ Tail(c.toSend) \in Chunks /\ Len(Tail(c.toSend)) = t - 1
      BY <1>1, <1>3, <1>12, SeqFacts DEF Chunks, t
    <2>2. Chunk \in Request
      BY DEF Chunk, Request, ChunkPacket
    <2>3. /\ Len(Append(s, Chunk)) = n + 1 /\ Append(s, Chunk) # <<>>
          /\ s # <<>> => /\ Head(Append(s, Chunk)) = Head(s)
                         /\ Tail(Append(s, Chunk)) = Append(Tail(s), Chunk)
      BY <1>3, <2>2, SeqFacts DEF n
    <2> QED BY <1>4, <1>9, <1>12, <2>1, <2>3
  <1>13. CASE Awaits(k) /\ s # <<>>
    <2>1. /\ Head(s).code # "CHUNK" /\ Tail(s) \in Chunks
          /\ pc[k] = "none" => Head(s).code \in {"REGISTRATION", "PUBLIC_KEY"}
          /\ pc[k] = "recv" => Sound(k, Head(s))
          /\ Head(s) = Ask(c) /\ c.toSend \in Chunks /\ n + t = PacketsOf(Ask(c))
          /\ toClient[k] = <<>> /\ out[k] = <<>> /\ pc[k] \in {"none", "recv"}
          /\ pc[k] = "none" => c.queue # <<>>
          /\ pc[k] = "recv" => Knows(k) /\ (Uploaded(c) => Held(k, c.id, c.info.file))
      BY <1>1, <1>2, <1>13 DEF Awaits, t, n
    <2>2. /\ Len(toServer'[k]) = n + 1 /\ toServer'[k] # <<>>
          /\ Head(toServer'[k]) = Head(s) /\ Tail(toServer'[k]) = Append(Tail(s), Chunk)
          /\ Active(d) => d.toSend \in Chunks /\ Len(d.toSend) = t - 1
      BY <1>12, <1>13, <2>1
    <2>3. Append(Tail(s), Chunk) \in Chunks
      BY <2>1 DEF Chunks
    <2>4. pc[k] = "recv" => Sound(k, Head(toServer[k]))'
      <3>1. PICK h : h = Head(s)
        OBVIOUS
      <3>2. Head(toServer'[k]) = h
        BY <2>2, <3>1
      <3> QED BY <1>6, <2>1, <3>1, <3>2
    <2>5. Uploaded(d) /\ Active(d) /\ pc[k] = "recv" => Held(k, d.id, d.info.file)'
      BY <1>4, <1>5, <1>6, <2>1
    <2>6. Len(toServer'[k]) <= PacketsOf(Head(s))
      BY <1>10, <2>1, <2>2
    <2>7. ASSUME Active(d)
          PROVE  /\ Head(s) = Ask(d) /\ d.toSend \in Chunks
                 /\ Len(toServer'[k]) + Len(d.toSend) = PacketsOf(Ask(d))
      <3>1. /\ Head(s) = Ask(d) /\ d.toSend \in Chunks /\ n + t = PacketsOf(Ask(d))
            /\ Len(toServer'[k]) = n + 1 /\ Len(d.toSend) = t - 1
        BY <1>5, <2>1, <2>2, <2>7
      <3> QED BY <1>10, <3>1
    <2>8. Awaits(k)'
      BY <1>1, <1>2, <1>5, <1>7, <2>1, <2>2, <2>3, <2>4, <2>5, <2>6, <2>7 DEF Awaits
    <2> QED BY <1>1, <1>5, <2>8 DEF Stage
  <1>14. CASE Takes(k)
    <2> DEFINE l == left[k]
    <2>1. /\ pc[k] = "file" /\ toClient[k] = <<>> /\ out[k] = <<>>
          /\ s \in Chunks /\ req[k].code = "SEND_FILE" /\ Sound(k, req[k]) /\ l > 0
          /\ Knows(k) /\ req[k] = Ask(c) /\ c.toSend \in Chunks
          /\ PACKET_SIZE * (n + t - 1) < l /\ l <= PACKET_SIZE * (n + t)
      BY <1>1, <1>2, <1>14 DEF Takes, t, n
    <2>2. /\ Len(toServer'[k]) = n + 1 /\ toServer'[k] = Append(s, Chunk)
          /\ Active(d) => d.toSend \in Chunks /\ Len(d.toSend) = t - 1
      BY <1>12, <1>14, <2>1
    <2>3. toServer'[k] \in Chunks
      BY <2>1, <2>2 DEF Chunks
    <2>4. Sound(k, req[k])'
      <3>1. PICK r : r = req[k] /\ r = req'[k]
        BY <1>2
      <3> QED BY <1>6, <2>1, <3>1
    <2>5. l \in Nat
      BY DEF TInv, IInv, TypeOK, ThreadTypeOK
    <2>6. left'[k] = l
      BY <1>2
    <2> HIDE DEF l
    <2>7. PACKET_SIZE * (Len(toServer'[k]) - 1) < left'[k]
      BY <1>10, <2>1, <2>2, <2>5, <2>6 DEF PACKET_SIZE
    <2>8. ASSUME Active(d)
          PROVE  /\ PACKET_SIZE * (Len(toServer'[k]) + Len(d.toSend) - 1) < left'[k]
                 /\ left'[k] <= PACKET_SIZE * (Len(toServer'[k]) + Len(d.toSend))
      <3>1. Len(d.toSend) = t - 1 /\ Len(toServer'[k]) = n + 1
        BY <2>2, <2>8
      <3>2. /\ Len(toServer'[k]) + Len(d.toSend) = n + t
            /\ Len(toServer'[k]) + Len(d.toSend) - 1 = n + t - 1
        BY <1>10, <3>1
      <3> QED BY <2>1, <2>6, <3>2
    <2>9. Takes(k)'
      BY <1>1, <1>2, <1>5, <1>7, <2>1, <2>2, <2>3, <2>4, <2>6, <2>7, <2>8 DEF Takes
    <2> QED BY <1>1, <1>5, <2>9 DEF Stage
  <1>15. ~Handles(k) /\ ~Replies(k) /\ ~Hears(k)
    BY <1>1, <1>2, <1>3 DEF Handles, Replies, Hears, Told
  <1> QED BY <1>2, <1>8, <1>11, <1>13, <1>14, <1>15 DEF Stage

(* A client that fails, exits or is killed.                                *)
LEMMA StepsOut ==
  ASSUME TInv, NEW k \in Conns,
         \/ WriteFails(k) \/ ReadFails(k) \/ CrcReadFails(k)
         \/ Exit(k) \/ (Kill(k) /\ cl[k].at # "create")
  PROVE  /\ ~Active(cl'[k]) /\ cl'[k].info = cl[k].info /\ toServer'[k] = toServer[k]
         /\ \/ toClient'[k] \in {toClient[k], <<>>}
            \/ toClient[k] # <<>> /\ toClient'[k] = Tail(toClient[k])
  <1>1. /\ cl \in [Conns -> Process] /\ toClient \in [Conns -> Seq(Response)]
        /\ GoodProcess(cl[k]) /\ cl[k] \in Process /\ IInv /\ ClientOK(k) /\ ConnOK(k)
    BY DEF TInv, IInv, TypeOK, ChannelTypeOK, ClientOK, GoodProcess
  <1>2. /\ toServer'[k] = toServer[k]
        /\ \/ toClient'[k] \in {toClient[k], <<>>}
           \/ toClient[k] # <<>> /\ toClient'[k] = Tail(toClient[k])
    BY <1>1 DEF WriteFails, ReadFails, CrcReadFails, Exit, Kill, ClientSendFails,
                ClientRecvFails, ClientClose, ClientRecv, channelVars
  <1>3. Identified \subseteq Request
    BY EverythingInScope DEF Scope
  <1>4. CASE WriteFails(k)
    <2>1. cl'[k] = NotSent(cl[k], cl[k].ret) /\ cl[k].ret \in {"read", "crcRead", "exit"}
      BY <1>1, <1>4 DEF WriteFails, Process
    <2> QED BY <1>1, <1>2, <2>1, NotSentIs
  <1>5. CASE ReadFails(k)
    <2>1. PICK b \in IF cl[k].buf = None THEN Memory ELSE {cl[k].buf} :
            Dispatch(k, [cl[k] EXCEPT !.open = FALSE, !.buf = b])
      BY <1>5 DEF ReadFails
    <2> DEFINE c == [cl[k] EXCEPT !.open = FALSE, !.buf = b]
    <2>2. b \in Response \cup {None}
      BY <1>1, <2>1, ClientAssumption DEF Process
    <2>3. cl[k].at = "read" /\ cl[k].toSend = <<>> /\ cl[k].info \in TransferInfo
      BY <1>1, <1>5 DEF ReadFails, GoodProcess, Started
    <2>4. /\ c \in Process /\ c.buf = b /\ c.toSend = <<>> /\ ~c.open
          /\ c.info = cl[k].info /\ c.queue = cl[k].queue
      BY <1>1, <2>2, <2>3 DEF Process
    <2>5. Dispatch(k, c)
      BY <2>1
    <2> HIDE DEF c
    <2>6. Ready(c, Request)
      BY <2>3, <2>4 DEF Ready, Process
    <2>7. c.buf # None => Answered(c, Request)
      BY <2>2, <2>4, <2>6 DEF Answered
    <2>8. PICK d : /\ cl' = [cl EXCEPT ![k] = d]
                   /\ \/ After(c, d, Request)
                      \/ After([c EXCEPT !.id = c.buf.val], d, Request)
      BY <1>3, <2>4, <2>5, <2>6, <2>7, DispatchAfter
    <2>9. /\ [c EXCEPT !.id = c.buf.val].open = c.open
          /\ [c EXCEPT !.id = c.buf.val].info = c.info
      BY <2>4 DEF Process
    <2>10. GoodProcess(d) /\ ~d.open /\ d.info = c.info
      BY <2>4, <2>8, <2>9 DEF After
    <2>11. ~Active(d)
      BY <2>10 DEF GoodProcess
    <2> QED BY <1>1, <1>2, <2>4, <2>8, <2>10, <2>11
  <1>6. CASE CrcReadFails(k)
    <2> DEFINE c == [cl[k] EXCEPT !.open = FALSE]
    <2>1. cl'[k] = AfterResend(c)
      BY <1>1, <1>6 DEF CrcReadFails
    <2>2. /\ cl[k].at = "crcRead" /\ cl[k].info \in TransferInfo
          /\ cl[k].tries < NUM_OF_ATTEMPTS
      BY <1>1, <1>6 DEF CrcReadFails, GoodProcess, Started
    <2>3. /\ c \in Process /\ ~c.open /\ c.info = cl[k].info /\ c.queue = cl[k].queue
          /\ c.tries = cl[k].tries
      BY <1>1 DEF Process
    <2> HIDE DEF c
    <2>4. Ready(c, Request)
      BY <2>2, <2>3 DEF Ready, Process
    <2>5. After(c, AfterResend(c), Request)
      BY <1>3, <2>2, <2>3, <2>4, AfterResendAfter
    <2>6. ~Active(AfterResend(c)) /\ AfterResend(c).info = c.info
      BY <2>3, <2>5 DEF After, GoodProcess
    <2> QED BY <1>2, <2>1, <2>3, <2>6
  <1>7. CASE Exit(k)
    <2>1. cl'[k] = Ended(cl[k], cl[k].outcome)
      BY <1>1, <1>7 DEF Exit
    <2>2. cl'[k].at = "stopped" /\ cl'[k].info = cl[k].info
      BY <2>1 DEF Ended, NewProcess
    <2> QED BY <1>2, <2>2 DEF Active
  <1>8. CASE Kill(k) /\ cl[k].at # "create"
    <2>1. cl'[k] = Stops(cl[k], "killed")
      BY <1>1, <1>8 DEF Kill
    <2> QED BY <1>1, <1>2, <2>1, StopsIs
  <1> QED BY <1>4, <1>5, <1>6, <1>7, <1>8

(* It begins with no key and no answer, and with what it has read of       *)
(* transfer.info.                                                          *)
LEMMA InitializeIsNew ==
  ASSUME NEW k \in Conns, ClientOK(k), NEW b \in Initialize(k)
  PROVE  b.key = None /\ b.vresp = None /\ (cl[k].info # None => b.info = cl[k].info)
  <1>1. NewProcess.key = None /\ NewProcess.vresp = None /\ NewProcess.info = None
    BY DEF NewProcess
  <1>2. CASE cl[k].at = "off" /\ meInfo[Dir(k)] # None
    <2>1. PICK i : b = Constructed([cl[k] EXCEPT !.info = i], meInfo[Dir(k)])
      BY <1>2 DEF Initialize
    <2>2. cl[k] = NewProcess
      BY <1>2 DEF ClientOK, GoodProcess
    <2> QED BY <2>1, <2>2 DEF Constructed, Unregistered, NewProcess
  <1>3. CASE cl[k].at = "create" /\ todo[k] = <<>>
    <2>1. b = [cl[k] EXCEPT !.hasKey = TRUE]
      BY <1>3 DEF Initialize, Unregistered
    <2>2. cl[k] = [NewProcess EXCEPT !.at = "create", !.info = cl[k].info] /\ cl[k] \in Process
      BY <1>3 DEF ClientOK, GoodProcess
    <2>3. cl[k].key = None /\ cl[k].vresp = None
      BY <2>2 DEF NewProcess
    <2> QED BY <2>1, <2>2, <2>3 DEF Process
  <1> QED BY <1>2, <1>3 DEF Initialize

(* A client that has no connection yet, or does not get that far.          *)
StaysOut(k) ==
  clientStop(k) \/ OpenFails(k) \/ CloseDies(k) \/ CreateFile(k) \/ (Kill(k) /\ cl[k].at = "create")

LEMMA StaysOutConv ==
  ASSUME TInv, NEW k \in Conns, StaysOut(k), UNCHANGED serverVars
  PROVE  /\ Stage(k)' /\ ~Active(cl'[k]) /\ ~Started(cl'[k])
         /\ UNCHANGED channelVars /\ (cl[k].info # None => cl'[k].info = cl[k].info)
  <1>1. cl \in [Conns -> Process] /\ cl[k] \in Process /\ cl[k].at \in {"off", "create"}
    BY DEF TInv, StaysOut, clientStop, OpenFails, CloseDies, CreateFile, Initialize
  <1>2. Untouched(k)
    BY <1>1 DEF TInv, ConnOK
  <1>3. cl'[k].at \in {"stopped", "create"}
    <2>1. CASE CreateFile(k)
      <3>1. \E i : cl'[k] = [[cl[k] EXCEPT !.at = "create"] EXCEPT !.info = i]
        BY <1>1, <2>1 DEF CreateFile
      <3> QED BY <1>1, <3>1 DEF Process
    <2>2. CASE ~CreateFile(k)
      <3>1. \E c, how : cl'[k] = Ended(c, how)
        BY <1>1, <2>2 DEF StaysOut, clientStop, OpenFails, CloseDies, Kill
      <3> QED BY <3>1 DEF Ended, NewProcess
    <2> QED BY <2>1, <2>2
  <1>4. UNCHANGED channelVars /\ UNCHANGED <<pc, out>>
    BY DEF StaysOut, clientStop, OpenFails, CloseDies, CreateFile, Kill, serverVars, threadVars
  <1>5. ASSUME cl[k].info # None PROVE cl'[k].info = cl[k].info
    <2>1. ClientOK(k) /\ cl[k].at # "off"
      <3>1. NewProcess.info = None
        BY DEF NewProcess
      <3>2. ClientOK(k)
        BY DEF TInv
      <3>3. cl[k].at = "off" => cl[k] = NewProcess
        BY <3>2 DEF ClientOK, GoodProcess
      <3> QED BY <1>5, <3>1, <3>2, <3>3
    <2>2. \E c, how : cl'[k] = Ended(c, how) /\ c.info = cl[k].info
      <3>1. CASE OpenFails(k) \/ CloseDies(k)
        <4>1. PICK c \in Initialize(k) : \E how : cl'[k] = Ended(c, how)
          BY <1>1, <3>1 DEF OpenFails, CloseDies
        <4> QED BY <1>5, <2>1, <4>1, InitializeIsNew
      <3>2. CASE Kill(k) /\ cl[k].at = "create"
        BY <1>1, <3>2 DEF Kill
      <3> QED BY <2>1, <3>1, <3>2 DEF StaysOut, clientStop, CreateFile
    <2> QED BY <2>2 DEF Ended, NewProcess
  <1> QED BY <1>1, <1>2, <1>3, <1>4, <1>5
          DEF Untouched, channelVars, Active, Started, Stage, Awaits

(* A client that does: it has asked to be registered or for a session key. *)
LEMMA StartConv ==
  ASSUME TInv, NEW k \in Conns, Start(k), UNCHANGED serverVars
  PROVE  /\ Stage(k)' /\ (Active(cl'[k]) => QueueOK(cl'[k]))
         /\ cl'[k].info \in TransferInfo
         /\ cl[k].info # None => cl'[k].info = cl[k].info
  <1>1. /\ cl \in [Conns -> Process] /\ IInv /\ ClientOK(k) /\ ConnOK(k)
        /\ cl[k].at \in {"off", "create"} /\ FilesWithin(k, Line)
    BY DEF TInv, Start, Initialize, Dirs, Dir, FilesWithin
  <1>u. Untouched(k)
    BY <1>1 DEF ConnOK
  <1>2. PICK b \in Initialize(k) :
          LET c == [b EXCEPT !.open = TRUE]
          IN  cl' = [cl EXCEPT ![k] = AddMessageToQueue(c,
                       IF c.id = None THEN Registration(c) ELSE PublicKey(c))]
    BY DEF Start
  <1> DEFINE c == [b EXCEPT !.open = TRUE]
             m == IF c.id = None THEN Registration(c) ELSE PublicKey(c)
             d == AddMessageToQueue(c, m)
  <1>3. /\ b \in Process /\ b.info \in TransferInfo /\ b.queue = <<>>
        /\ b.id # None => b.id \in Ids
        /\ b.id = None => Registration(b) \in Request
    <2>1. Within(cl[k], Request, Response, Line)
      BY <1>1, ProcessWithin
    <2> QED BY <1>1, <2>1, EverythingInScope, InitializeWithin
  <1>4. b.key = None /\ b.vresp = None /\ (cl[k].info # None => b.info = cl[k].info)
    BY <1>1, InitializeIsNew
  <1>5. cl' = [cl EXCEPT ![k] = d]
    BY <1>2
  <1>6. /\ c \in Process /\ c.open /\ c.queue = <<>> /\ c.info = b.info /\ c.id = b.id
        /\ c.key = None /\ c.vresp = None
    BY <1>3, <1>4, ZenonT(60) DEF Process
  <1> HIDE DEF c
  <1>7. m \in Request
    <2>1. CASE c.id = None
      BY <1>3, <1>6, <2>1 DEF Registration
    <2>2. CASE c.id # None
      <3>1. c.id \in Ids
        BY <1>6, <2>2 DEF Process
      <3> QED BY <1>3, <1>6, <2>2, <3>1, MessageTypes, EverythingInScope DEF Scope
    <2> QED BY <2>1, <2>2
  <1> HIDE DEF m
  <1>8. /\ d.at = "write" /\ d.toSend = <<m>> /\ d.ret = "read" /\ d.queue = <<m>>
        /\ d.info = c.info /\ d.id = c.id /\ d.key = None /\ d.hasKey = c.hasKey
        /\ d.vresp = None
    BY <1>6, <1>7, AddsAndSends
  <1> HIDE DEF d
  <1>9. m = IF d.id = None THEN Registration(d) ELSE PublicKey(d)
    BY <1>8 DEF m, Registration, PublicKey
  <1>10. QueueOK(d) /\ Asking(d) /\ d.queue # <<>> /\ ~Uploaded(d)
    BY <1>8, <1>9, QueuedAsks
  <1>11. /\ cl'[k] = d /\ pc'[k] = "none" /\ toClient'[k] = <<>> /\ toServer'[k] = <<>>
         /\ out'[k] = <<>>
    BY <1>1, <1>u, <1>5 DEF Start, Connect, Untouched, serverVars, threadVars
  <1> QED BY <1>3, <1>4, <1>6, <1>8, <1>10, <1>11 DEF Stage, Awaits

(* A client that reads an answer.                                          *)
LEMMA ReadConv ==
  ASSUME TInv, NEW k \in Conns, Conv(k), Read(k) \/ CrcRead(k), UNCHANGED serverVars
  PROVE  /\ Stage(k)' /\ (Active(cl'[k]) => QueueOK(cl'[k]))
         /\ cl'[k].info = cl[k].info
  <1>1. PICK c, m : c = cl[k] /\ m = Head(toClient[k])
    OBVIOUS
  <1>2. /\ cl \in [Conns -> Process] /\ toClient \in [Conns -> Seq(Response)]
        /\ GoodProcess(c) /\ Stage(k) /\ Active(c) /\ QueueOK(c)
        /\ toClient[k] # <<>> /\ toClient'[k] = Tail(toClient[k])
        /\ toServer'[k] = toServer[k]
    BY <1>1 DEF TInv, IInv, TypeOK, ChannelTypeOK, ClientOK, Conv, Active, Read, CrcRead,
                ClientRecv
  <1>3. m \in Response
    BY <1>1, <1>2
  <1>4. Answers(c, m)
    BY <1>1, <1>2 DEF Stage, Awaits, Takes, Handles, Replies, Hears, Told, Quits
  <1>5. Turn(c, cl'[k], m)
    <2>1. CASE Read(k)
      <3>1. c.at = "read" /\ Dispatch(k, [c EXCEPT !.buf = m])
        BY <1>1, <2>1 DEF Read
      <3>2. PICK d : cl' = [cl EXCEPT ![k] = d] /\ Turn(c, d, m)
        BY <1>2, <1>3, <1>4, <3>1, ReadTurn
      <3> QED BY <1>2, <3>2
    <2>2. CASE CrcRead(k)
      <3>1. c.at = "crcRead" /\ cl'[k] = AfterResend([c EXCEPT !.vresp = m])
        BY <1>1, <1>2, <2>2 DEF CrcRead
      <3> QED BY <1>2, <1>3, <1>4, <3>1, CrcReadTurn
    <2> QED BY <2>1, <2>2
  <1> QED BY <1>1, <1>2, <1>5, TurnConv DEF Turn

(* Who talks to the server, or is killed later than that, has started.     *)
LEMMA RunsThen ==
  ASSUME TInv, NEW p \in Conns,
         \/ WritePacket(p) \/ WriteFails(p) \/ Read(p) \/ ReadFails(p)
         \/ CrcRead(p) \/ CrcReadFails(p) \/ (Kill(p) /\ cl[p].at # "create")
  PROVE  Started(cl[p])
  <1>1. CASE Kill(p) /\ cl[p].at # "create"
    <2>1. cl[p] \in Process /\ (cl[p].at \in {"off", "stopped"} => todo[p] = <<>>)
      BY DEF TInv, ClientOK, FileOK
    <2> QED BY <1>1, <2>1 DEF Kill, Started, Process
  <1> QED BY <1>1 DEF WritePacket, WriteFails, Read, ReadFails, CrcRead, CrcReadFails, Started

(* Where it does not connect, the backlog stays as it is.                  *)
LEMMA ClientEnds ==
  ASSUME TInv, NEW p \in Conns, EndsOK(p), ClientNext(p, Listening), UNCHANGED serverVars
  PROVE  EndsOK(p)' /\ (Start(p) \/ backlog' = backlog)
  <1>1. /\ cl \in [Conns -> Process] /\ cliEnd \in [Conns -> EndState]
        /\ srvEnd \in [Conns -> EndState] /\ UNCHANGED pc
    BY DEF TInv, IInv, TypeOK, ChannelTypeOK, serverVars, threadVars
  <1>2. CASE StaysOut(p)
    <2>1. ~Started(cl'[p]) /\ UNCHANGED channelVars
      BY <1>2, StaysOutConv
    <2> QED BY <1>1, <2>1 DEF EndsOK, channelVars
  <1>3. CASE Start(p)
    <2>1. Untouched(p)
      BY <1>3 DEF TInv, ConnOK, Start, Connect
    <2> QED BY <1>1, <1>3, <2>1 DEF Start, Connect, EndsOK, Untouched
  <1>4. CASE Exit(p)
    <2>1. cl'[p] = Ended(cl[p], cl[p].outcome)
      BY <1>1, <1>4 DEF Exit
    <2>2. ~Started(cl'[p])
      BY <2>1 DEF Started, Ended, NewProcess
    <2> QED BY <1>1, <1>4, <2>2 DEF Exit, ClientClose, EndsOK
  <1>5. CASE \/ WritePacket(p) \/ WriteFails(p) \/ Read(p) \/ ReadFails(p)
             \/ CrcRead(p) \/ CrcReadFails(p) \/ (Kill(p) /\ cl[p].at # "create")
    <2>1. Started(cl[p])
      BY <1>5, RunsThen
    <2>2. UNCHANGED <<cliEnd, srvEnd, backlog>>
      BY <1>5 DEF WritePacket, WriteFails, Read, ReadFails, CrcRead, CrcReadFails, Kill,
                  ClientSend, ClientSendFails, ClientRecv, ClientRecvFails, channelVars
    <2> QED BY <1>1, <2>1, <2>2 DEF EndsOK
  <1>6. CASE FileOperation(p)
    BY <1>1, <1>6 DEF FileOperation, channelVars, EndsOK
  <1> QED BY <1>2, <1>3, <1>4, <1>5, <1>6 DEF ClientNext, ClientStep, Opens, StaysOut

(* A new connection is last in the backlog, and nowhere else.              *)
LEMMA ConnectsLine ==
  ASSUME TInv, LineOK, NEW p \in Conns, Start(p), UNCHANGED serverVars
  PROVE  LineOK'
  <1>1. /\ Untouched(p) /\ backlog' = Append(backlog, p) /\ backlog \in Seq(Conns)
        /\ UNCHANGED <<pc, main, mainConn>>
    BY DEF TInv, ConnOK, Start, Connect, IInv, TypeOK, ChannelTypeOK, serverVars,
           threadVars, loopVars
  <1>2. /\ Len(backlog') = Len(backlog) + 1 /\ backlog'[Len(backlog) + 1] = p
        /\ \A n \in 1..Len(backlog) : backlog'[n] = backlog[n]
        /\ Len(backlog) \in Nat
    BY <1>1
  <1>3. \A n \in 1..Len(backlog') : n \in 1..Len(backlog) \/ n = Len(backlog) + 1
    BY <1>2
  <1>4. pc[p] = "none" /\ mainConn # p /\ \A n \in 1..Len(backlog) : backlog[n] # p
    BY <1>1 DEF Untouched
  <1>5. ASSUME NEW m \in 1..Len(backlog')
        PROVE  /\ pc[backlog'[m]] = "none"
               /\ main = "acquire" => backlog'[m] # mainConn
               /\ \A n \in 1..Len(backlog') : backlog'[m] = backlog'[n] => m = n
    <2>1. CASE m \in 1..Len(backlog)
      <3>1. pc[backlog[m]] = "none" /\ (main = "acquire" => backlog[m] # mainConn)
        BY <2>1 DEF LineOK
      <3>2. ASSUME NEW n \in 1..Len(backlog'), backlog'[m] = backlog'[n] PROVE m = n
        <4>1. CASE n \in 1..Len(backlog)
          BY <1>2, <2>1, <3>2, <4>1 DEF LineOK
        <4>2. CASE n = Len(backlog) + 1
          BY <1>2, <1>4, <2>1, <3>2, <4>2
        <4> QED BY <1>3, <4>1, <4>2
      <3> QED BY <1>2, <2>1, <3>1, <3>2
    <2>2. CASE m = Len(backlog) + 1
      <3>1. ASSUME NEW n \in 1..Len(backlog'), backlog'[m] = backlog'[n] PROVE m = n
        BY <1>2, <1>3, <1>4, <2>2, <3>1
      <3> QED BY <1>2, <1>4, <2>2, <3>1
    <2> QED BY <1>3, <2>1, <2>2
  <1> QED BY <1>1, <1>4, <1>5 DEF LineOK

(* A client moves itself, its directory and its connection only.           *)
LEMMA OtherClients ==
  ASSUME TInv, NEW p \in Conns, ClientNext(p, Listening), NEW k \in Conns, k # p
  PROVE  /\ cl'[k] = cl[k]
         /\ toServer'[k] = toServer[k] /\ toClient'[k] = toClient[k]
         /\ cliEnd'[k] = cliEnd[k] /\ srvEnd'[k] = srvEnd[k]
  <1>1. \E d : cl' = [cl EXCEPT ![p] = d]
    <2>1. IInv /\ ClientOK(p) /\ ConnOK(p) /\ Dir(p) \in Dirs
      BY DEF TInv, Dir, Dirs
    <2>2. Within(cl[p], Request, Response, Line) /\ Given(p, Response)
      BY <2>1, ProcessWithin
    <2>3. FilesTyped /\ FilesWithin(p, Line)
      BY <2>1 DEF TInv, FilesTyped, FilesWithin
    <2>4. \E d : Becomes(p, d, Request, Response, Line)
      BY <2>1, <2>2, <2>3, EverythingInScope, ClientMoves
    <2> QED BY <2>4 DEF Becomes
  <1>2. \/ UNCHANGED channelVars \/ Connect(p) \/ ClientRecv(p) \/ ClientClose(p)
        \/ ClientSend(p, Head(cl[p].toSend))
    BY ClientMakes
  <1>3. ChannelTypeOK
    BY DEF TInv, IInv, TypeOK
  <1> QED BY <1>1, <1>2, <1>3 DEF TInv, ChannelTypeOK, Connect, ClientSend, ClientRecv,
                                  ClientClose, channelVars

(* A client's step keeps every conversation.                               *)
LEMMA ClientsConv ==
  ASSUME CInv, Clients
  PROVE  LineOK' /\ \A k \in Conns : Conv(k)'
  <1>1. PICK p \in Conns : ClientNext(p, Listening)
    BY DEF Clients
  <1>2. /\ TInv /\ LineOK /\ (\A k \in Conns : Conv(k)) /\ UNCHANGED serverVars
    BY DEF CInv, Clients
  <1>3. Conv(p) /\ Stage(p) /\ EndsOK(p)
    BY <1>2 DEF Conv
  <1>4. EndsOK(p)' /\ (Start(p) \/ backlog' = backlog)
    BY <1>1, <1>2, <1>3, ClientEnds
  <1>5. LineOK'
    <2>1. CASE backlog' = backlog
      BY <1>2, <2>1 DEF LineOK, serverVars, threadVars, loopVars
    <2> QED BY <1>2, <1>4, <2>1, ConnectsLine
  <1>6. Stage(p)' /\ (Active(cl'[p]) => QueueOK(cl'[p]))
    <2>1. CASE StaysOut(p)
      BY <1>2, <2>1, StaysOutConv
    <2>2. CASE Start(p)
      BY <1>2, <2>2, StartConv
    <2>3. CASE WritePacket(p)
      BY <1>2, <1>3, <2>3, WritePacketConv
    <2>4. CASE Read(p) \/ CrcRead(p)
      BY <1>2, <1>3, <2>4, ReadConv
    <2>5. CASE \/ WriteFails(p) \/ ReadFails(p) \/ CrcReadFails(p)
               \/ Exit(p) \/ (Kill(p) /\ cl[p].at # "create")
      BY <1>2, <1>3, <2>5, StepsOut, LeavesConv
    <2>6. CASE FileOperation(p)
      <3>1. UNCHANGED <<cl, toServer, toClient, pc, req, left, out, clients, files, fileDict>>
        BY <1>2, <2>6 DEF FileOperation, channelVars, serverVars, threadVars, dbVars, storeVars
      <3> QED BY <1>3, <3>1, StageStays DEF Conv
    <2> QED BY <1>1, <1>2, <2>1, <2>2, <2>3, <2>4, <2>5, <2>6
            DEF ClientNext, ClientStep, Opens, StaysOut
  <1>7. ASSUME NEW k \in Conns, k # p PROVE Conv(k)'
    <2>1. /\ cl'[k] = cl[k]
          /\ toServer'[k] = toServer[k] /\ toClient'[k] = toClient[k]
          /\ cliEnd'[k] = cliEnd[k] /\ srvEnd'[k] = srvEnd[k]
      BY <1>1, <1>2, <1>7, OtherClients
    <2>2. UNCHANGED <<pc, req, left, out, clients, files, fileDict>>
      BY <1>2 DEF serverVars, threadVars, dbVars, storeVars
    <2>3. Stage(k) /\ EndsOK(k) /\ (Active(cl[k]) => QueueOK(cl[k]))
      BY <1>2 DEF Conv
    <2>4. Stage(k)'
      BY <2>1, <2>2, <2>3, StageStays
    <2> QED BY <2>1, <2>2, <2>3, <2>4 DEF Conv, EndsOK
  <1>8. Conv(p)'
    BY <1>4, <1>6 DEF Conv
  <1> QED BY <1>5, <1>7, <1>8

-----------------------------------------------------------------------------
(* The conversation invariant.                                             *)

(* Nobody has said anything.                                               *)
LEMMA InitCInv == ASSUME Init PROVE CInv
  <1>1. TInv
    BY InitTInv
  <1>2. ASSUME NEW k \in Conns PROVE Conv(k)
    <2>1. /\ ~Active(cl[k]) /\ ~Started(cl[k]) /\ cliEnd[k] = "unused"
          /\ srvEnd[k] = "unused" /\ pc[k] = "none" /\ out[k] = <<>>
          /\ toServer[k] = <<>> /\ toClient[k] = <<>>
      BY DEF Init, ChannelInit, ServerInit, ClientInit, NewProcess, Active, Started
    <2> QED BY <2>1 DEF Conv, Stage, Awaits, EndsOK
  <1>3. LineOK
    <2>1. backlog = <<>> /\ main # "acquire"
      BY DEF Init, ChannelInit, ServerInit
    <2>2. 1..Len(<<>>) = {}
      OBVIOUS
    <2> QED BY <2>1, <2>2 DEF LineOK
  <1> QED BY <1>1, <1>2, <1>3 DEF CInv

LEMMA NextCInv == ASSUME CInv, [Next]_vars PROVE CInv'
  <1>1. TInv'
    BY NextTInv DEF CInv
  <1>2. CASE UNCHANGED vars
    <2>1. UNCHANGED <<channelVars, serverVars, clientVars>>
      BY <1>2 DEF vars
    <2>2. UNCHANGED <<cl, toServer, toClient, cliEnd, srvEnd, backlog, main, mainConn, pc,
                      req, left, out, clients, files, fileDict>>
      BY <2>1 DEF channelVars, serverVars, clientVars, loopVars, threadVars, dbVars,
                  storeVars
    <2>3. LineOK'
      BY <2>2 DEF CInv, LineOK
    <2>4. ASSUME NEW k \in Conns PROVE Conv(k)'
      <3>1. Stage(k) /\ EndsOK(k) /\ (Active(cl[k]) => QueueOK(cl[k]))
        BY DEF CInv, Conv
      <3>2. Stage(k)'
        BY <2>2, <3>1, StageStays
      <3> QED BY <2>2, <3>1, <3>2 DEF Conv, EndsOK
    <2> QED BY <1>1, <2>3, <2>4 DEF CInv
  <1> QED BY <1>1, <1>2, ServerConv, ClientsConv DEF Next, CInv

(* Client and thread take turns, in every state the system reaches.        *)
THEOREM ConversationInvariance == Spec => []CInv
  <1>1. Init => CInv
    BY InitCInv
  <1>2. CInv /\ [Next]_vars => CInv'
    BY NextCInv
  <1> QED BY <1>1, <1>2, PTL DEF Spec

(* At every decryption of an upload to a client the server knows, the key  *)
(* in the database is the one the upload was encrypted with, and what it   *)
(* decrypts to is the file the client read and padded: no session the      *)
(* client opened meanwhile has replaced the key, and no packet of another  *)
(* message got between the chunks.                                         *)
THEOREM KeysAgree == Spec => []KeyAgreement
  <1>1. CInv => KeyAgreement
    <2> SUFFICES ASSUME CInv, NEW k \in Conns, pc[k] = "decrypt",
                        clients[req[k].id] # None
                 PROVE  Decrypt(clients[req[k].id].aesKey, req[k]) = MyFile(cl[k])
      BY DEF KeyAgreement
    <2>1. IInv /\ Stage(k) /\ req[k] \in Uploading
      BY DEF CInv, TInv, Conv, IInv, HandlerOK
    <2>2. req[k].code = "SEND_FILE" /\ Sound(k, req[k])
      BY <2>1 DEF Stage, Awaits, Takes, Handles, Replies, Hears, Quits
    <2> QED BY <2>1, <2>2, SoundDecrypts
  <1> QED BY <1>1, ConversationInvariance, PTL

(* Run's loop never reads an answer to something the client did not ask    *)
(* last: the handlers, which pop the queue and act without looking at what *)
(* they pop, find the request they are the answer to.                      *)
THEOREM AnswersAreInOrder == Spec => []AnswersInOrder
  <1>1. CInv => AnswersInOrder
    <2> SUFFICES ASSUME CInv, NEW p \in Conns, cl[p].at = "read", toClient[p] # <<>>,
                        NEW c, c = cl[p], NEW m, m = Head(toClient[p])
                 PROVE  CASE m.code = "REGISTRATION_SUCCEEDED" ->
                               /\ c.queue # <<>> /\ Head(c.queue).code = "REGISTRATION"
                               /\ c.id = None
                          [] m.code = "PUBLIC_KEY_RECEIVED" ->
                               /\ c.queue # <<>> /\ Head(c.queue).code = "PUBLIC_KEY"
                               /\ c.id # None
                          [] m.code = "MSG_RECEIVED_CRC" -> c.queue = <<>> /\ c.key # None
                          [] m.code = "MSG_RECEIVED" ->
                               \/ c.buf.code = "MSG_RECEIVED_CRC" /\ c.buf.val = Crc(MyFile(c))
                               \/ c.vresp # None /\ c.vresp.val = Crc(MyFile(c))
                          [] m.code = "REGISTRATION_FAILED" -> TRUE
      BY DEF AnswersInOrder
    <2>1. /\ GoodProcess(c) /\ Active(c) /\ QueueOK(c) /\ Stage(p)
          /\ toClient \in [Conns -> Seq(Response)]
      BY DEF CInv, TInv, ClientOK, Conv, Active, IInv, TypeOK, ChannelTypeOK
    <2>2. m \in Response
      BY <2>1
    <2>3. Answers(c, m)
      BY <2>1 DEF Stage, Awaits, Takes, Handles, Replies, Hears, Told, Quits
    <2>4. c.queue # <<>> => Head(c.queue).code = Ask(c).code
      BY DEF Ask
    <2>5. CASE m.code = "REGISTRATION_SUCCEEDED"
      <3>1. Ask(c).code = "REGISTRATION"
        BY <2>2, <2>3, <2>5, FailedIs DEF Answers, Answering
      <3> QED BY <2>1, <2>4, <2>5, <3>1, AskSays
    <2>6. CASE m.code = "PUBLIC_KEY_RECEIVED"
      <3>1. Ask(c).code = "PUBLIC_KEY"
        BY <2>2, <2>3, <2>6, FailedIs DEF Answers, Answering
      <3> QED BY <2>1, <2>4, <2>6, <3>1, AskSays
    <2>7. CASE m.code = "MSG_RECEIVED_CRC"
      <3>1. Ask(c).code \in {"SEND_FILE", "CRC_RESEND"}
        BY <2>2, <2>3, <2>7, FailedIs DEF Answers, Answering
      <3>2. c.queue = <<>>
        BY <2>1, <3>1, AskSays
      <3> QED BY <2>1, <2>7, <3>2 DEF QueueOK
    <2>8. CASE m.code = "MSG_RECEIVED"
      <3>1. Ask(c).code = "CRC_VALID"
        BY <2>2, <2>3, <2>8, FailedIs DEF Answers, Answering
      <3>2. Satisfied(c)
        BY <2>1, <3>1, AskSays
      <3>3. \A b : Confirms(c, b) =>
              b # None /\ b.code = "MSG_RECEIVED_CRC" /\ b.val = Crc(MyFile(c))
        BY DEF Confirms, Reply
      <3>4. \/ c.buf.code = "MSG_RECEIVED_CRC" /\ c.buf.val = Crc(MyFile(c))
            \/ c.vresp # None /\ c.vresp.val = Crc(MyFile(c))
        BY <3>2, <3>3 DEF Satisfied
      <3> QED BY <2>8, <3>4
    <2>9. CASE m.code = "REGISTRATION_FAILED"
      BY <2>9
    <2> QED BY <2>2, <2>5, <2>6, <2>7, <2>8, <2>9, ResponseByCode
  <1> QED BY <1>1, ConversationInvariance, PTL

-----------------------------------------------------------------------------
(* What is on disk.                                                        *)

(* A file is written wherever the code writes one.                         *)
WritesWork == "save" \notin FaultKinds /\ Unwritable = {}

(* Who has opened a connection has parsed its transfer.info.               *)
InfoOK(k) == cliEnd[k] # "unused" => cl[k].info \in TransferInfo

(* handleCrcValidRequest saves, and then marks as verified, a file of the  *)
(* client it talks to, in a row of that client's.                          *)
SavedOK(k) ==
  pc[k] \in {"save", "mark"} =>
    /\ RowOf(req[k].id, req[k].file) /\ req[k].file = cl[k].info.file
    /\ pc[k] = "mark" => disk[<<req[k].id, req[k].file>>] = MyFile(cl[k])

SavedInv == CInv /\ \A k \in Conns : InfoOK(k) /\ SavedOK(k)

(* The thread that has the lock works for a client with a file.            *)
LEMMA HoldsForClient ==
  ASSUME SavedInv, NEW k \in Conns, pc[k] \in Holding
  PROVE  /\ cliEnd[k] # "unused" /\ cl[k].info \in TransferInfo
         /\ MyFile(cl[k]) \in Contents
  <1>1. ConnOK(k) /\ cl[k] \in Process /\ InfoOK(k)
    BY DEF SavedInv, CInv, TInv
  <1>2. cliEnd[k] # "unused"
    BY <1>1 DEF ConnOK, Untouched, Holding
  <1>3. cl[k].info \in TransferInfo
    BY <1>1, <1>2 DEF InfoOK
  <1> QED BY <1>1, <1>2, <1>3, MyFileType

(* A client's file, whatever it is of, is none of what goes wrong.         *)
LEMMA ContentsDiffer == ASSUME NEW c \in Contents PROVE c \notin {NullContent, Torn, None}
  <1>1. CASE c = NoBytes
    BY <1>1, NoneAssumption DEF NoBytes, NullContent, Torn
  <1>2. ASSUME NEW f \in Files, c = Padded(f) PROVE c \notin {NullContent, Torn, None}
    <2>1. f \notin {"null", "torn"}
      BY BodyAssumption
    <2>2. c.of = f
      BY <1>2 DEF Padded
    <2>3. NullContent.of = "null" /\ Torn.of = "torn"
      BY DEF NullContent, Torn
    <2> QED BY <2>1, <2>2, <2>3, NoneAssumption
  <1> QED BY <1>1, <1>2 DEF Contents

(* saveFile writes the client's file, and nothing else.                    *)
LEMMA SavesTheFile ==
  ASSUME SavedInv, WritesWork, NEW k \in Conns, SaveFile(k)
  PROVE  /\ disk' = [disk EXCEPT ![<<req[k].id, req[k].file>>] = MyFile(cl[k])]
         /\ req[k].id \in Ids /\ req[k].file \in FileNames /\ Held(k, req[k].id, req[k].file)
  <1>1. IInv /\ pc[k] = "save" /\ Stage(k) /\ HandlerOK(k)
    BY DEF SavedInv, CInv, TInv, Conv, IInv, SaveFile
  <1>2. Held(k, req[k].id, req[k].file)
    BY <1>1 DEF Stage, Awaits, Takes, Handles, Replies, Hears, Quits
  <1>3. req[k].id \in Ids /\ req[k].file \in FileNames
    BY <1>1 DEF HandlerOK, CrcStatusRequest
  <1>4. MyFile(cl[k]) \in Contents
    BY <1>1, HoldsForClient DEF Holding
  <1>5. Saved(fileDict[<<req[k].id, req[k].file>>]) = MyFile(cl[k])
    BY <1>2, <1>4, ContentsDiffer DEF Held, InMemory, Saved
  <1>6. disk' = [disk EXCEPT ![<<req[k].id, req[k].file>>] =
                   Saved(fileDict[<<req[k].id, req[k].file>>])]
    BY DEF SaveFile, WritesWork, Fails
  <1> QED BY <1>2, <1>3, <1>5, <1>6

(* A thread gets to save by the checks, and to mark from there.            *)
LEMMA ReachesSave ==
  ASSUME IInv, NEW k \in Conns, Thread(k), pc'[k] \in {"save", "mark"}
  PROVE  \/ SaveFile(k)
         \/ \E m : /\ CrcValid(k, m) /\ RowOf(m.id, m.file) /\ UNCHANGED files
                   /\ pc'[k] = "save" /\ req'[k] = m
  <1>1. pc \in [Conns -> ThreadState] /\ req \in [Conns -> Request \cup Uploading \cup {None}]
    BY DEF IInv, TypeOK, ThreadTypeOK
  <1>2. ASSUME NEW r, NEW rs, Answer(k, r, rs) PROVE FALSE
    BY <1>1, <1>2 DEF Answer
  <1>3. ~Refuse(k)
    BY <1>2 DEF Refuse
  <1>4. ASSUME NEW p, NEW r, NEW n, Proceed(k, p, r, n), p \notin {"save", "mark"}
        PROVE  FALSE
    BY <1>1, <1>4 DEF Proceed
  <1>5. ~Dies(k) /\ \A p : Goes(k, p) => p \in {"save", "mark"}
    BY <1>4 DEF Dies, Goes
  <1>6. ASSUME NEW m, CrcValid(k, m)
        PROVE  RowOf(m.id, m.file) /\ UNCHANGED files /\ pc'[k] = "save" /\ req'[k] = m
    <2>1. RowOf(m.id, m.file) /\ UNCHANGED files /\ Proceed(k, "save", m, 0)
      BY <1>3, <1>6 DEF CrcValid
    <2> QED BY <1>1, <2>1 DEF Proceed
  <1>7. ASSUME NEW m, \/ CheckName(k, m) \/ SetPublicKey(k, m) \/ RecvFileHead(k, m)
                      \/ Resend(k, m) \/ Abort(k, m) \/ UnknownRequest(k, m)
        PROVE  FALSE
    BY <1>2, <1>3, <1>4, <1>5, <1>7 DEF CheckName, SetPublicKey, RecvFileHead, Resend,
                                       Abort, UnknownRequest
  <1>8. ~AddClient(k) /\ ~SetSymmetricKey(k) /\ ~RecvFileChunk(k) /\ ~RecvFileRaises(k)
    <2>1. RecvFileChunk(k) => \E p \in {"file", "decrypt"} : \E r, n : Proceed(k, p, r, n)
      BY DEF RecvFileChunk
    <2>2. ~RecvFileChunk(k) /\ ~RecvFileRaises(k)
      BY <1>3, <1>4, <2>1 DEF RecvFileRaises
    <2> QED BY <1>2, <1>3, <1>5, <2>2 DEF AddClient, SetSymmetricKey
  <1>9. ~StoreFile(k) /\ ~CommitFile(k) /\ ~MarkVarified(k)
    BY <1>2, <1>3, <1>5 DEF StoreFile, CommitFile, MarkVarified
  <1>10. ~Write(k) /\ ~WriteRaises(k) /\ ~DropSocket(k)
    BY <1>1 DEF Write, WriteRaises, DropSocket, serverVars, threadVars
  <1>11. ~RecvEof(k) /\ ~RecvRaises(k) /\ ~Release(k) /\ ~Close(k)
    BY <1>5 DEF RecvEof, RecvRaises, Release, Close
  <1> QED BY <1>6, <1>7, <1>8, <1>9, <1>10, <1>11 DEF Thread, Handle

LEMMA ThreadSaved ==
  ASSUME SavedInv, WritesWork, NEW j \in Conns, Thread(j), UNCHANGED clientVars,
         NEW k \in Conns
  PROVE  SavedOK(k)'
  <1>1. TInv /\ IInv /\ SavedOK(k) /\ Conv(k) /\ Stage(k) /\ cl'[k] = cl[k]
    BY DEF SavedInv, CInv, TInv, Conv, clientVars
  <1>2. SUFFICES ASSUME pc'[k] \in {"save", "mark"} PROVE SavedOK(k)'
    BY DEF SavedOK
  <1>3. CASE k # j
    <2>1. pc'[k] = pc[k] /\ req'[k] = req[k]
      BY <1>1, <1>3, OthersStay
    <2>2. UNCHANGED <<files, disk>>
      <3>1. pc[j] \notin Holding
        BY <1>1, <1>2, <1>3, <2>1, InSession DEF Holding
      <3> QED BY <3>1, OnlyCloses DEF dbVars, storeVars
    <2> QED BY <1>1, <2>1, <2>2 DEF SavedOK, RowOf
  <1>4. CASE k = j
    <2>1. CASE SaveFile(k)
      <3>1. /\ pc[k] = "save" /\ pc'[k] = "mark" /\ req'[k] = req[k] /\ UNCHANGED files
            /\ disk \in [Ids \X FileNames -> Stored \cup {Torn}]
        BY <1>1, <2>1 DEF SaveFile, Goes, Proceed, dbVars, IInv, TypeOK, ThreadTypeOK,
                          StoreTypeOK
      <3>2. disk'[<<req[k].id, req[k].file>>] = MyFile(cl[k])
        BY <2>1, <3>1, SavesTheFile
      <3> QED BY <1>1, <3>1, <3>2 DEF SavedOK, RowOf
    <2>2. ASSUME NEW m, CrcValid(k, m), RowOf(m.id, m.file), UNCHANGED files,
                 pc'[k] = "save", req'[k] = m
          PROVE  SavedOK(k)'
      <3>1. m.code = "CRC_VALID" /\ pc[k] = "recv" /\ ServerRecv(k, m)
        BY <2>2 DEF CrcValid, Receives
      <3>2. m.file = cl[k].info.file
        BY <1>1, <3>1, ReceivesRequest DEF Sound, Held, InMemory
      <3> QED BY <1>1, <2>2, <3>2 DEF SavedOK, RowOf
    <2> QED BY <1>1, <1>2, <1>4, <2>1, <2>2, ReachesSave
  <1> QED BY <1>3, <1>4

(* Nor do the other steps of the server undo what a thread has checked.    *)
LEMMA ServerSaved ==
  ASSUME SavedInv, WritesWork, Server, NEW k \in Conns
  PROVE  InfoOK(k)' /\ SavedOK(k)'
  <1>1. TInv /\ IInv /\ InfoOK(k) /\ SavedOK(k) /\ UNCHANGED clientVars /\ cl' = cl
    BY DEF SavedInv, CInv, TInv, Server, clientVars
  <1>2. CASE Accept \/ StartServer
    BY <1>1, <1>2 DEF Accept, StartServer, InfoOK, SavedOK, RowOf, threadVars, dbVars,
                      storeVars, channelVars
  <1>3. CASE StartSession
    <2>1. mainConn \in Conns /\ pc \in [Conns -> ThreadState]
      BY <1>1, <1>3 DEF StartSession, IInv, MainOK, TypeOK, ThreadTypeOK
    <2>2. pc'[k] \in {"save", "mark"} => pc'[k] = pc[k]
      BY <1>3, <2>1 DEF StartSession
    <2> QED BY <1>1, <1>3, <2>2 DEF StartSession, InfoOK, SavedOK, RowOf, dbVars,
                                    storeVars, channelVars
  <1>4. CASE ServerCrash
    <2>1. pc'[k] \in {"none", "done"} /\ cliEnd' = cliEnd
      BY <1>4 DEF ServerCrash, ServerClose
    <2> QED BY <1>1, <2>1 DEF InfoOK, SavedOK
  <1>5. ASSUME NEW j \in Conns, Thread(j) PROVE InfoOK(k)' /\ SavedOK(k)'
    <2>1. cliEnd' = cliEnd
      BY <1>1, <1>5, ThreadPackets
    <2> QED BY <1>1, <1>5, <2>1, ThreadSaved DEF InfoOK
  <1> QED BY <1>2, <1>3, <1>4, <1>5 DEF Server, ServerNext, Main

(* A process reads its transfer.info before it connects, and never again.  *)
LEMMA ClientKeepsInfo ==
  ASSUME CInv, NEW p \in Conns, ClientNext(p, Listening), UNCHANGED serverVars,
         NEW k \in Conns
  PROVE  /\ cliEnd[k] # "unused" \/ cl[k].info # None => cl'[k].info = cl[k].info
         /\ cliEnd[k] = "unused" /\ cliEnd'[k] # "unused" => cl'[k].info \in TransferInfo
  <1>1. /\ TInv /\ Conv(p) /\ EndsOK(p) /\ ConnOK(p) /\ cl \in [Conns -> Process]
    BY DEF CInv, TInv, Conv
  <1>2. CASE k # p
    BY <1>1, <1>2, OtherClients
  <1>3. CASE k = p /\ StaysOut(p)
    <2>1. cl[p].at \in {"off", "create"}
      BY <1>3 DEF StaysOut, clientStop, OpenFails, CloseDies, CreateFile, Initialize
    <2> QED BY <1>1, <1>3, <2>1, StaysOutConv DEF ConnOK, channelVars
  <1>4. CASE k = p /\ FileOperation(p)
    BY <1>4 DEF FileOperation, channelVars
  <1>5. CASE k = p /\ Start(p)
    <2>1. cliEnd[p] = "unused"
      BY <1>5 DEF Start, Connect
    <2> QED BY <1>1, <1>5, <2>1, StartConv
  <1>6. CASE /\ k = p
             /\ \/ WritePacket(p) \/ WriteFails(p) \/ Read(p) \/ ReadFails(p) \/ CrcRead(p)
                \/ CrcReadFails(p) \/ Exit(p) \/ (Kill(p) /\ cl[p].at # "create")
    <2>1. Started(cl[p])
      BY <1>1, <1>6, RunsThen DEF Exit, Started
    <2>2. cliEnd[p] # "unused"
      BY <1>1, <2>1 DEF EndsOK
    <2>3. WritePacket(p) => cl'[p].info = cl[p].info
      <3>1. WritePacket(p) => cl'[p] = Sent(cl[p]) /\ cl[p] \in Process
        BY <1>1 DEF WritePacket
      <3> QED BY <3>1, SentIs
    <2> QED BY <1>1, <1>6, <2>2, <2>3, ReadConv, StepsOut
  <1> QED BY <1>2, <1>3, <1>4, <1>5, <1>6 DEF ClientNext, ClientStep, Opens, StaysOut

LEMMA ClientsSaved ==
  ASSUME SavedInv, Clients, NEW k \in Conns
  PROVE  InfoOK(k)' /\ SavedOK(k)'
  <1>1. PICK p \in Conns : ClientNext(p, Listening)
    BY DEF Clients
  <1>2. CInv /\ InfoOK(k) /\ SavedOK(k) /\ UNCHANGED serverVars
    BY DEF SavedInv, Clients
  <1>3. /\ cliEnd[k] # "unused" => cl'[k].info = cl[k].info
        /\ cliEnd[k] = "unused" /\ cliEnd'[k] # "unused" => cl'[k].info \in TransferInfo
    BY <1>1, <1>2, ClientKeepsInfo
  <1>4. pc'[k] \in {"save", "mark"} => cliEnd[k] # "unused"
    BY <1>2, HoldsForClient DEF Holding, serverVars, threadVars
  <1>5. cliEnd[k] # "unused" => MyFile(cl'[k]) = MyFile(cl[k])
    BY <1>3 DEF MyFile
  <1> QED BY <1>2, <1>3, <1>4, <1>5
          DEF InfoOK, SavedOK, RowOf, serverVars, threadVars, dbVars, storeVars

(* The request a thread saves and marks for stays what it has checked.     *)
LEMMA NextSavedInv == ASSUME SavedInv, WritesWork, [Next]_vars PROVE SavedInv'
  <1>1. CInv'
    BY NextCInv DEF SavedInv
  <1>2. CASE UNCHANGED vars
    <2>1. UNCHANGED <<channelVars, serverVars, clientVars>>
      BY <1>2 DEF vars
    <2>2. UNCHANGED <<cl, cliEnd, pc, req, files, disk>>
      BY <2>1 DEF channelVars, serverVars, clientVars, threadVars, dbVars, storeVars
    <2> QED BY <1>1, <2>2 DEF SavedInv, InfoOK, SavedOK, RowOf
  <1> QED BY <1>1, <1>2, ServerSaved, ClientsSaved DEF Next, SavedInv

LEMMA InitSavedInv == ASSUME Init PROVE SavedInv
  <1>1. CInv
    BY InitCInv
  <1>2. ASSUME NEW k \in Conns PROVE cliEnd[k] = "unused" /\ pc[k] = "none"
    BY DEF Init, ChannelInit, ServerInit
  <1> QED BY <1>1, <1>2 DEF SavedInv, InfoOK, SavedOK

-----------------------------------------------------------------------------
(* A verified file is whole.                                               *)

(* Some client's file it is, where the row of f says it is.                *)
Whole(f) ==
  files[f] # None /\ files[f].varified =>
    \E p \in Conns : /\ cl[p].info # None /\ cl[p].info.file = f
                     /\ disk[<<files[f].owner, f>>] = MyFile(cl[p])

WholeInv == SavedInv /\ \A f \in FileNames : Whole(f)

LEMMA WholeStays ==
  ASSUME NEW f, Whole(f), files'[f] = files[f],
         files[f] # None /\ files[f].varified =>
           disk'[<<files[f].owner, f>>] = disk[<<files[f].owner, f>>],
         \A p \in Conns : cl[p].info # None => cl'[p].info = cl[p].info
  PROVE  Whole(f)'
  <1>1. SUFFICES ASSUME files[f] # None, files[f].varified PROVE Whole(f)'
    BY DEF Whole
  <1>2. PICK p \in Conns : /\ cl[p].info # None /\ cl[p].info.file = f
                           /\ disk[<<files[f].owner, f>>] = MyFile(cl[p])
    BY <1>1 DEF Whole
  <1>3. cl'[p].info = cl[p].info /\ MyFile(cl'[p]) = MyFile(cl[p])
    BY <1>2 DEF MyFile
  <1> QED BY <1>1, <1>2, <1>3 DEF Whole

(* Three handlers change what a row or the disk says of a file.            *)
LEMMA ThreadWrites ==
  ASSUME NEW k \in Conns, Thread(k)
  PROVE  UNCHANGED <<files, disk>> \/ CommitFile(k) \/ SaveFile(k) \/ MarkVarified(k)
  <1>1. CASE Handle(k)
    BY <1>1 DEF Handle, CheckName, AddClient, SetPublicKey, SetSymmetricKey, RecvFileHead,
                CrcValid, Resend, Abort, UnknownRequest, RecvFileChunk, RecvFileRaises,
                StoreFile, dbVars, storeVars
  <1>2. CASE ~Handle(k)
    BY <1>2 DEF Thread, Write, WriteRaises, RecvEof, RecvRaises, Release, Close,
                DropSocket, serverVars, dbVars, storeVars
  <1> QED BY <1>1, <1>2

LEMMA ThreadWhole ==
  ASSUME WholeInv, FaultKinds = {}, WritesWork, NEW k \in Conns, Thread(k),
         UNCHANGED clientVars, NEW f \in FileNames
  PROVE  Whole(f)'
  <1>1. /\ SavedInv /\ IInv /\ Whole(f) /\ cl' = cl /\ SavedOK(k) /\ HandlerOK(k)
        /\ files \in [FileNames -> FileRow \cup {None}]
        /\ disk \in [Ids \X FileNames -> Stored \cup {Torn}]
    BY DEF WholeInv, SavedInv, CInv, TInv, IInv, TypeOK, StoreTypeOK, clientVars
  <1>2. CASE UNCHANGED <<files, disk>>
    BY <1>1, <1>2, WholeStays
  <1> DEFINE i == req[k].id
             g == req[k].file
  <1>3. CASE CommitFile(k)
    <2>1. /\ disk' = disk
          /\ UNCHANGED files \/ files' = [files EXCEPT ![g] = [owner |-> i, varified |-> FALSE]]
      BY <1>3 DEF CommitFile, storeVars
    <2>2. CASE files'[f] = files[f]
      BY <1>1, <2>1, <2>2, WholeStays
    <2>3. CASE files'[f] # files[f]
      <3>1. files'[f] = [owner |-> i, varified |-> FALSE]
        BY <1>1, <2>1, <2>3
      <3>2. ~files'[f].varified
        BY <3>1
      <3> QED BY <3>2 DEF Whole
    <2> QED BY <2>2, <2>3
  <1>4. CASE SaveFile(k)
    <2>1. files' = files /\ disk' = [disk EXCEPT ![<<i, g>>] = MyFile(cl[k])]
      BY <1>1, <1>4, SavesTheFile DEF SaveFile, dbVars
    <2>2. ~(RowOf(i, g) /\ files[g].varified)
      BY <1>1, <1>4, SavesTheFile DEF Held
    <2>3. files[f] # None /\ files[f].varified => <<files[f].owner, f>> # <<i, g>>
      BY <2>2 DEF RowOf
    <2>4. files[f] # None => <<files[f].owner, f>> \in Ids \X FileNames
      BY <1>1 DEF FileRow
    <2>5. files[f] # None /\ files[f].varified =>
            disk'[<<files[f].owner, f>>] = disk[<<files[f].owner, f>>]
      BY <1>1, <2>1, <2>3, <2>4
    <2> QED BY <1>1, <2>1, <2>5, WholeStays
  <1>5. CASE MarkVarified(k)
    <2>1. /\ disk' = disk /\ g \in FileNames /\ files[g] # None
          /\ files' = [files EXCEPT ![g].varified = TRUE]
      BY <1>1, <1>5 DEF MarkVarified, Fails, storeVars, HandlerOK, CrcStatusRequest
    <2>2. CASE f # g
      <3>1. files'[f] = files[f]
        BY <1>1, <2>1, <2>2
      <3> QED BY <1>1, <2>1, <3>1, WholeStays
    <2>3. CASE f = g
      <3>1. /\ RowOf(i, f) /\ cl[k].info.file = f /\ disk[<<i, f>>] = MyFile(cl[k])
        BY <1>1, <1>5, <2>3 DEF SavedOK, MarkVarified
      <3>2. files'[f].owner = i
        BY <1>1, <2>1, <2>3, <3>1 DEF RowOf, FileRow
      <3>3. cl[k].info # None
        BY <1>1, <1>5, HoldsForClient, ClientAssumption DEF MarkVarified, Holding
      <3> QED BY <1>1, <2>1, <3>1, <3>2, <3>3 DEF Whole
    <2> QED BY <2>2, <2>3
  <1> QED BY <1>2, <1>3, <1>4, <1>5, ThreadWrites

(* A crash cuts short only a file whose row is not verified.               *)
LEMMA CrashWhole ==
  ASSUME WholeInv, FaultKinds = {}, ServerCrash, UNCHANGED clientVars, NEW f \in FileNames
  PROVE  Whole(f)'
  <1>1. /\ Whole(f) /\ cl' = cl /\ files' = files /\ files \in [FileNames -> FileRow \cup {None}]
    BY DEF WholeInv, SavedInv, CInv, TInv, IInv, TypeOK, StoreTypeOK, clientVars,
           ServerCrash, dbVars
  <1>2. PICK torn \in SUBSET {<<req[k].id, req[k].file>> : k \in {c \in Conns :
                         pc[c] = "save" /\ req[c].file \notin Unwritable}} :
          disk' = [x \in Ids \X FileNames |-> IF x \in torn THEN Torn ELSE disk[x]]
    BY DEF ServerCrash
  <1>3. ASSUME NEW k \in Conns, pc[k] = "save"
        PROVE  ~(RowOf(req[k].id, req[k].file) /\ files[req[k].file].varified)
    <2>1. Stage(k)
      BY DEF WholeInv, SavedInv, CInv, Conv
    <2>2. Held(k, req[k].id, req[k].file)
      BY <1>3, <2>1 DEF Stage, Awaits, Takes, Handles, Replies, Hears, Quits
    <2> QED BY <2>2 DEF Held
  <1>4. ASSUME files[f] # None, files[f].varified
        PROVE  disk'[<<files[f].owner, f>>] = disk[<<files[f].owner, f>>]
    <2>1. <<files[f].owner, f>> \in Ids \X FileNames
      BY <1>1, <1>4 DEF FileRow
    <2>2. <<files[f].owner, f>> \notin torn
      BY <1>2, <1>3, <1>4 DEF RowOf
    <2> QED BY <1>2, <2>1, <2>2
  <1> QED BY <1>1, <1>4, WholeStays

LEMMA NextWhole ==
  ASSUME WholeInv, FaultKinds = {}, WritesWork, [Next]_vars
  PROVE  WholeInv'
  <1>1. SavedInv'
    BY NextSavedInv DEF WholeInv
  <1>2. ASSUME NEW f \in FileNames PROVE Whole(f)'
    <2>1. Whole(f)
      BY DEF WholeInv
    <2>2. CASE Server
      <3>1. UNCHANGED clientVars /\ cl' = cl
        BY <2>2 DEF Server, clientVars
      <3>2. CASE Main \/ StartServer
        <4>1. UNCHANGED <<files, disk>>
          BY <3>2 DEF Main, Accept, StartSession, StartServer, dbVars, storeVars
        <4> QED BY <2>1, <3>1, <4>1, WholeStays
      <3> QED BY <2>2, <3>1, <3>2, ThreadWhole, CrashWhole DEF Server, ServerNext
    <2>3. CASE Clients
      <3>1. PICK p \in Conns : ClientNext(p, Listening)
        BY <2>3 DEF Clients
      <3>2. UNCHANGED <<files, disk>> /\ UNCHANGED serverVars
        BY <2>3 DEF Clients, serverVars, dbVars, storeVars
      <3>3. \A k \in Conns : cl[k].info # None => cl'[k].info = cl[k].info
        BY <3>1, <3>2, ClientKeepsInfo DEF WholeInv, SavedInv
      <3> QED BY <2>1, <3>2, <3>3, WholeStays
    <2>4. CASE UNCHANGED vars
      <3>1. UNCHANGED <<files, disk, cl>>
        <4>1. UNCHANGED <<serverVars, clientVars>>
          BY <2>4 DEF vars
        <4> QED BY <4>1 DEF serverVars, clientVars, dbVars, storeVars
      <3> QED BY <2>1, <3>1, WholeStays
    <2> QED BY <2>2, <2>3, <2>4 DEF Next
  <1> QED BY <1>1, <1>2 DEF WholeInv

(* A file marked as verified is on disk, whole, as the client read it: if  *)
(* no statement fails and every name can be written, killing the server in *)
(* the middle of a write, and clients anywhere, cuts no verified file      *)
(* short.                                                                  *)
THEOREM VarifiedStaysWhole ==
  ASSUME FaultKinds = {}, Unwritable = {}
  PROVE  Spec => []VarifiedIsWhole
  <1>1. WritesWork
    BY DEF WritesWork
  <1>2. Init => WholeInv
    BY InitSavedInv DEF WholeInv, Whole, Init, ServerInit
  <1>3. WholeInv /\ [Next]_vars => WholeInv'
    BY <1>1, NextWhole
  <1>4. WholeInv => VarifiedIsWhole
    BY DEF WholeInv, Whole, VarifiedIsWhole
  <1> QED BY <1>2, <1>3, <1>4, PTL DEF Spec

-----------------------------------------------------------------------------
(* What the client is told of its upload is so.                            *)

(* The file of client k is stored, and marked.                             *)
StoredFor(k) ==
  LET i == cl[k].id
      f == cl[k].info.file
  IN  disk[<<i, f>>] = MyFile(cl[k]) /\ files[f] = [owner |-> i, varified |-> TRUE]

(* Its thread keeps the lock, and does nothing until it hears from it.     *)
Idle(k) == pc[k] = "dead" \/ (pc[k] = "recv" /\ toServer[k] = <<>>)

(* An approval is written, sent and read for a file that is stored, and no *)
(* client outlives one.                                                    *)
ReceiptOK(k) ==
  /\ Active(cl[k]) =>
       /\ ~Receipt(cl[k].buf)
       /\ pc[k] = "write" /\ out[k] # <<>> /\ Receipt(Head(out[k])) =>
            StoredFor(k) /\ Tail(out[k]) = <<>>
       /\ toClient[k] # <<>> /\ Receipt(Head(toClient[k])) => StoredFor(k) /\ Idle(k)
  /\ Rejoices(cl[k]) => StoredFor(k) /\ Idle(k)

ReceiptInv == SavedInv /\ \A k \in Conns : ReceiptOK(k)

(* A refusal is no approval.                                               *)
LEMMA FailedIsNoReceipt == ~Receipt(Failed)
  BY DEF Receipt, Failed, Reply

(* A file that is stored stays so as long as the client knows whose it is. *)
LEMMA StoredStays ==
  ASSUME NEW k, StoredFor(k), UNCHANGED <<files, disk>>, cl'[k].id = cl[k].id,
         cl'[k].info = cl[k].info
  PROVE  StoredFor(k)'
  BY DEF StoredFor, MyFile

(* An idle thread can but die.                                             *)
LEMMA IdleStays ==
  ASSUME IInv, NEW k \in Conns, Thread(k), Idle(k), cliEnd[k] = "open"
  PROVE  Idle(k)' /\ UNCHANGED <<files, disk>> /\ toClient'[k] = toClient[k]
  <1>1. pc \in [Conns -> ThreadState] /\ toServer \in [Conns -> Seq(Request)]
    BY DEF IInv, TypeOK, ThreadTypeOK, ChannelTypeOK
  <1>2. ~Handle(k)
    BY DEF Idle, Handle, AddClient, SetSymmetricKey, RecvFileChunk, RecvFileRaises,
           StoreFile, CommitFile, SaveFile, MarkVarified, CheckName, SetPublicKey,
           RecvFileHead, CrcValid, Resend, Abort, UnknownRequest, Receives
  <1>3. RecvRaises(k) \/ DropSocket(k)
    BY <1>2 DEF Idle, Thread, Write, WriteRaises, RecvEof, Release, Close, ServerRecvEof
  <1>4. CASE RecvRaises(k)
    <2>1. pc'[k] = "dead" /\ UNCHANGED <<files, disk, toClient>>
      BY <1>1, <1>4 DEF RecvRaises, Dies, Proceed, ServerRecvRaises, ServerReset, dbVars,
                        storeVars
    <2> QED BY <2>1 DEF Idle
  <1>5. CASE DropSocket(k)
    BY <1>5 DEF DropSocket, Idle, ServerClose, serverVars, threadVars, dbVars, storeVars
  <1> QED BY <1>3, <1>4, <1>5

(* A thread with responses to write does nothing else.                     *)
LEMMA OnlyWrites ==
  ASSUME NEW k \in Conns, Thread(k), pc[k] = "write"
  PROVE  Write(k) \/ WriteRaises(k)
  <1>1. ~Handle(k)
    BY DEF Handle, AddClient, SetSymmetricKey, RecvFileChunk, RecvFileRaises, StoreFile,
           CommitFile, SaveFile, MarkVarified, CheckName, SetPublicKey, RecvFileHead,
           CrcValid, Resend, Abort, UnknownRequest, Receives
  <1> QED BY <1>1 DEF Thread, RecvEof, RecvRaises, Release, Close, DropSocket

(* Of what a thread is about to write, only updateVerification makes an    *)
(* approval, when it has marked the file.                                  *)
LEMMA MarkReceipt ==
  ASSUME ReceiptInv, "commit" \notin FaultKinds, NEW k \in Conns, MarkVarified(k),
         UNCHANGED clientVars, Active(cl[k])
  PROVE  StoredFor(k)' /\ Tail(out'[k]) = <<>>
  <1> DEFINE c == cl[k]
             f == req[k].file
  <1>1. /\ TInv /\ IInv /\ Stage(k) /\ QueueOK(c) /\ GoodProcess(c) /\ SavedOK(k)
        /\ HandlerOK(k) /\ cl' = cl /\ pc[k] = "mark"
        /\ out \in [Conns -> Seq(Response)] /\ files \in [FileNames -> FileRow \cup {None}]
    BY DEF ReceiptInv, SavedInv, CInv, Conv, TInv, ClientOK, clientVars, MarkVarified,
           IInv, TypeOK, ThreadTypeOK, StoreTypeOK
  <1>2. req[k].code = "CRC_VALID" /\ req[k] = Ask(c)
    BY <1>1 DEF Stage, Awaits, Takes, Handles, Replies, Hears, Quits
  <1>3. req[k] = CrcStatus(c, "CRC_VALID")
    BY <1>1, <1>2, AskSays
  <1>4. req[k].id = c.id /\ f = c.info.file
    BY <1>3 DEF CrcStatus
  <1>5. /\ f \in FileNames /\ files[f] # None /\ files[f].owner = c.id
        /\ disk[<<c.id, f>>] = MyFile(c)
    BY <1>1, <1>4 DEF HandlerOK, CrcStatusRequest, SavedOK, RowOf
  <1>6. disk' = disk /\ files' = [files EXCEPT ![f].varified = TRUE]
    BY DEF MarkVarified, Fails, storeVars
  <1> HIDE DEF f
  <1>7. files'[f] = [files[f] EXCEPT !.varified = TRUE] /\ files[f] \in FileRow
    BY <1>1, <1>5, <1>6
  <1>8. files'[f] = [owner |-> c.id, varified |-> TRUE]
    BY <1>5, <1>7 DEF FileRow
  <1>9. StoredFor(k)'
    BY <1>1, <1>4, <1>5, <1>6, <1>8 DEF StoredFor
  <1>10. out'[k] = <<Reply("MSG_RECEIVED", None)>>
    BY <1>1 DEF MarkVarified, Answer
  <1> QED BY <1>9, <1>10, RefusalFacts

LEMMA WritesReceipt ==
  ASSUME ReceiptInv, "commit" \notin FaultKinds, NEW k \in Conns, Thread(k),
         UNCHANGED clientVars, Active(cl[k]), pc'[k] = "write", out'[k] # <<>>,
         Receipt(Head(out'[k]))
  PROVE  StoredFor(k)' /\ Tail(out'[k]) = <<>>
  <1>1. /\ IInv /\ Stage(k) /\ cl' = cl /\ ReceiptOK(k) /\ HandlerOK(k)
        /\ out \in [Conns -> Seq(Response)]
    BY DEF ReceiptInv, SavedInv, CInv, Conv, TInv, clientVars, IInv, TypeOK, ThreadTypeOK
  <1>2. CASE out'[k] = out[k]
    <2>1. pc[k] = "write"
      BY <1>2 DEF ReceiptInv, SavedInv, CInv, Conv, Stage, Awaits, Takes, Handles, Hears,
                  Replies, Quits
    <2>2. StoredFor(k) /\ Tail(out[k]) = <<>>
      BY <1>1, <1>2, <2>1 DEF ReceiptOK
    <2>3. UNCHANGED <<files, disk>>
      BY <2>1, ThreadWrites DEF CommitFile, SaveFile, MarkVarified
    <2> QED BY <1>1, <1>2, <2>2, <2>3, StoredStays
  <1>3. CASE Write(k) /\ out'[k] = Tail(out[k])
    <2>1. Tail(out[k]) \in Refusals
      <3>1. pc[k] = "write" /\ out[k] # <<>>
        BY <1>1, <1>3 DEF Write, HandlerOK
      <3> QED BY <1>1, <3>1, RefusalFacts
              DEF Stage, Awaits, Takes, Handles, Handling, Replies, Hears, Quits
    <2> QED BY <1>3, <2>1, RefusalFacts, FailedIsNoReceipt
  <1>4. CASE AddClient(k)
    <2>1. Refuse(k) \/ \E i \in Ids :
            Answer(k, req[k], <<Reply("REGISTRATION_SUCCEEDED", i)>>)
      BY <1>4 DEF AddClient
    <2>2. CASE Refuse(k)
      <3>1. out'[k] = <<Failed, Failed>>
        BY <1>1, <2>2 DEF Refuse, Answer
      <3> QED BY <3>1, RefusalFacts, FailedIsNoReceipt
    <2>3. ASSUME NEW i \in Ids, Answer(k, req[k], <<Reply("REGISTRATION_SUCCEEDED", i)>>)
          PROVE  FALSE
      <3>1. out'[k] = <<Reply("REGISTRATION_SUCCEEDED", i)>>
        BY <1>1, <2>3 DEF Answer
      <3>2. Head(out'[k]) = Reply("REGISTRATION_SUCCEEDED", i)
        BY <3>1, RefusalFacts
      <3> QED BY <3>2 DEF Reply, Receipt
    <2> QED BY <2>1, <2>2, <2>3
  <1>5. CASE out'[k] \in Seq(OtherAnswer)
    <2>1. Head(out'[k]) \in OtherAnswer
      BY <1>5, SeqFacts
    <2> QED BY <2>1 DEF OtherAnswer, Receipt
  <1> QED BY <1>1, <1>2, <1>3, <1>4, <1>5, MarkReceipt, ThreadOut

(* An approval that is sent leaves the thread waiting for the client.      *)
LEMMA SendsReceipt ==
  ASSUME ReceiptInv, NEW k \in Conns, Thread(k), UNCHANGED clientVars, Active(cl[k]),
         toClient'[k] # <<>>, Receipt(Head(toClient'[k]))
  PROVE  StoredFor(k)' /\ Idle(k)'
  <1>1. /\ TInv /\ IInv /\ Stage(k) /\ cl' = cl /\ ReceiptOK(k) /\ HandlerOK(k) /\ EndsOK(k)
        /\ out \in [Conns -> Seq(Response)] /\ toClient \in [Conns -> Seq(Response)]
        /\ pc \in [Conns -> ThreadState]
    BY DEF ReceiptInv, SavedInv, CInv, Conv, TInv, clientVars, IInv, TypeOK, ThreadTypeOK,
           ChannelTypeOK
  <1>2. cliEnd[k] = "open"
    BY <1>1 DEF EndsOK, Started, Active
  <1>3. CASE toClient'[k] = toClient[k]
    <2>1. StoredFor(k) /\ Idle(k)
      BY <1>1, <1>3 DEF ReceiptOK
    <2> QED BY <1>1, <1>2, <2>1, IdleStays, StoredStays
  <1>4. CASE pc[k] = "write" /\ toClient'[k] = Append(toClient[k], Head(out[k]))
                             /\ toClient'[k] # toClient[k]
    <2>1. PICK m : m = Head(out[k])
      OBVIOUS
    <2>2. out[k] # <<>> /\ m \in Response
      BY <1>1, <1>4, <2>1, SeqFacts DEF HandlerOK
    <2>3. Write(k)
      BY <1>4, OnlyWrites DEF WriteRaises, ServerReset
    <2>4. CASE Quits(k)
      <3>1. m = Failed
        BY <2>1, <2>2, <2>4, RefusalFacts DEF Quits
      <3>2. CASE toClient[k] = <<>>
        BY <1>1, <1>4, <2>1, <2>2, <3>1, <3>2, SeqFacts, FailedIsNoReceipt
      <3>3. CASE toClient[k] # <<>>
        <4>1. Head(toClient'[k]) = Head(toClient[k])
          BY <1>1, <1>4, <2>1, <2>2, <3>3, SeqFacts
        <4>2. Idle(k)
          BY <1>1, <3>3, <4>1 DEF ReceiptOK
        <4> QED BY <1>4, <4>2 DEF Idle
      <3> QED BY <3>2, <3>3
    <2>5. CASE Replies(k)
      <3>1. toClient[k] = <<>> /\ toServer[k] = <<>>
        BY <2>5 DEF Replies
      <3>2. Head(toClient'[k]) = m
        BY <1>1, <1>4, <2>1, <2>2, <3>1, SeqFacts
      <3>3. StoredFor(k) /\ Tail(out[k]) = <<>> /\ m # Failed
        BY <1>1, <1>4, <2>1, <2>2, <3>2, FailedIsNoReceipt DEF ReceiptOK
      <3>4. pc'[k] = "recv" /\ toServer' = toServer /\ UNCHANGED <<files, disk>>
        BY <1>1, <2>1, <2>3, <3>3 DEF Write, ServerSend, dbVars, storeVars
      <3> QED BY <1>1, <3>1, <3>3, <3>4, StoredStays DEF Idle
    <2> QED BY <1>1, <1>4, <2>4, <2>5
            DEF Stage, Awaits, Takes, Handles, Handling, Hears
  <1> QED BY <1>1, <1>3, <1>4, ThreadPackets

LEMMA ThreadReceipt ==
  ASSUME ReceiptInv, "commit" \notin FaultKinds, NEW j \in Conns, Thread(j),
         UNCHANGED clientVars, NEW k \in Conns
  PROVE  ReceiptOK(k)'
  <1>1. TInv /\ IInv /\ cl' = cl /\ ReceiptOK(k) /\ EndsOK(k)
    BY DEF ReceiptInv, SavedInv, CInv, Conv, TInv, clientVars
  <1>2. CASE k # j
    <2>1. /\ pc'[k] = pc[k] /\ out'[k] = out[k]
          /\ toServer'[k] = toServer[k] /\ toClient'[k] = toClient[k]
      BY <1>1, <1>2, OthersStay, ThreadPackets
    <2>2. pc[k] \in Holding => UNCHANGED <<files, disk>>
      <3>1. pc[k] \in Holding => pc[j] \notin Holding
        BY <1>1, <1>2, InSession
      <3> QED BY <3>1, OnlyCloses DEF dbVars, storeVars
    <2>3. pc[k] \in Holding /\ StoredFor(k) => StoredFor(k)'
      BY <1>1, <2>2, StoredStays
    <2>4. pc[k] = "write" \/ Idle(k) => pc[k] \in Holding
      BY DEF Idle, Holding
    <2> QED BY <1>1, <2>1, <2>3, <2>4 DEF ReceiptOK, Idle
  <1>3. CASE k = j
    <2>1. Active(cl[k]) => ~Receipt(cl'[k].buf)
      BY <1>1 DEF ReceiptOK
    <2>2. Rejoices(cl'[k]) => StoredFor(k)' /\ Idle(k)'
      <3>1. SUFFICES ASSUME Rejoices(cl[k]) PROVE StoredFor(k)' /\ Idle(k)'
        BY <1>1
      <3>2. StoredFor(k) /\ Idle(k) /\ cliEnd[k] = "open"
        BY <1>1, <3>1 DEF ReceiptOK, EndsOK, Rejoices, Started
      <3> QED BY <1>1, <1>3, <3>2, IdleStays, StoredStays
    <2> QED BY <1>1, <1>3, <2>1, <2>2, WritesReceipt, SendsReceipt DEF ReceiptOK
  <1> QED BY <1>2, <1>3

LEMMA ServerReceipt ==
  ASSUME ReceiptInv, "commit" \notin FaultKinds, MaxCrashes = 0, Server, NEW k \in Conns
  PROVE  ReceiptOK(k)'
  <1>1. /\ TInv /\ IInv /\ LineOK /\ Stage(k) /\ cl' = cl /\ ReceiptOK(k)
        /\ UNCHANGED clientVars /\ crashes \in Nat
    BY DEF ReceiptInv, SavedInv, CInv, Conv, TInv, Server, clientVars, IInv, TypeOK,
           StoreTypeOK
  <1>2. CASE Accept \/ StartServer
    BY <1>1, <1>2 DEF Accept, StartServer, ReceiptOK, StoredFor, Idle, threadVars, dbVars,
                      storeVars, channelVars
  <1>3. CASE StartSession
    <2>1. /\ mainConn \in Conns /\ pc[mainConn] = "none" /\ pc \in [Conns -> ThreadState]
          /\ pc' = [pc EXCEPT ![mainConn] = "recv"]
          /\ UNCHANGED <<files, disk, out, toServer, toClient>>
      BY <1>1, <1>3 DEF StartSession, IInv, MainOK, LineOK, TypeOK, ThreadTypeOK, dbVars,
                        storeVars, channelVars
    <2>2. CASE k # mainConn
      BY <1>1, <2>1, <2>2 DEF ReceiptOK, StoredFor, Idle
    <2>3. CASE k = mainConn
      <3>1. toClient[k] = <<>>
        BY <1>1, <2>1, <2>3
           DEF Stage, Awaits, Takes, Handles, Handling, Replies, Hears, Quits
      <3> QED BY <1>1, <2>1, <2>3, <3>1 DEF ReceiptOK, Idle
    <2> QED BY <2>2, <2>3
  <1>4. ~ServerCrash
    BY <1>1 DEF ServerCrash
  <1> QED BY <1>1, <1>2, <1>3, <1>4, ThreadReceipt DEF Server, ServerNext, Main

-----------------------------------------------------------------------------
(* The client's steps.                                                     *)

(* What is behind the first answer is none but refusals.                   *)
LEMMA BehindAreRefusals ==
  ASSUME NEW k, Stage(k), toClient[k] # <<>>
  PROVE  Tail(toClient[k]) \in Refusals
  BY RefusalFacts DEF Stage, Awaits, Takes, Handles, Replies, Hears, Quits

(* What a client's step makes of its process and of its connection.        *)
LEMMA ClientTells ==
  ASSUME TInv, NEW p \in Conns, ClientNext(p, Listening)
  PROVE  /\ \/ Start(p) /\ cl'[p].buf = None /\ ~Rejoices(cl'[p])
            \/ cl'[p].at \in {"create", "stopped"}
            \/ cl'[p] = cl[p] /\ UNCHANGED channelVars
            \/ (Active(cl'[p]) => Active(cl[p])) /\ Listens(p, cl'[p])
         /\ \/ toServer'[p] = toServer[p] \/ WritePacket(p)
         /\ \/ toClient'[p] \in {toClient[p], <<>>}
            \/ toClient[p] # <<>> /\ toClient'[p] = Tail(toClient[p])
  <1>1. IInv /\ ClientOK(p) /\ ConnOK(p) /\ Dir(p) \in Dirs /\ ChannelTypeOK
    BY DEF TInv, Dir, Dirs, IInv, TypeOK
  <1>2. Within(cl[p], Request, Response, Line) /\ Given(p, Response)
    BY <1>1, ProcessWithin
  <1>3. FilesTyped /\ FilesWithin(p, Line)
    BY <1>1 DEF TInv, FilesTyped, FilesWithin
  <1>4. PICK d : /\ Becomes(p, d, Request, Response, Line)
                 /\ \/ Start(p) /\ Started(d) /\ d.buf = None /\ ~Rejoices(d)
                    \/ d.at = "stopped"
                    \/ /\ d = cl[p] \/ (cl[p].at = "off" /\ d.at = "create")
                       /\ UNCHANGED channelVars
                    \/ /\ Started(d) /\ Started(cl[p]) /\ (Active(d) => Active(cl[p]))
                       /\ d.id = None => cl[p].id = None
                       /\ Listens(p, d)
    BY <1>1, <1>2, <1>3, EverythingInScope, ClientMoves
  <1>5. cl'[p] = d
    BY <1>4 DEF TInv, Becomes
  <1>6. \/ UNCHANGED channelVars \/ Connect(p) \/ ClientRecv(p) \/ ClientClose(p)
        \/ WritePacket(p) /\ ClientSend(p, Head(cl[p].toSend))
    BY ClientMakes
  <1>7. /\ \/ toServer'[p] = toServer[p] \/ WritePacket(p)
        /\ \/ toClient'[p] \in {toClient[p], <<>>}
           \/ toClient[p] # <<>> /\ toClient'[p] = Tail(toClient[p])
    BY <1>1, <1>6 DEF ChannelTypeOK, Connect, ClientSend, ClientRecv, ClientClose,
                      channelVars
  <1> QED BY <1>4, <1>5, <1>7

(* Memory nobody has written to does not look like an approval.            *)
NoReceiptInMemory == \A m \in Memory : ~Receipt(m)

LEMMA ClientReceipt ==
  ASSUME ReceiptInv, NoReceiptInMemory, NEW p \in Conns, ClientNext(p, Listening),
         UNCHANGED serverVars
  PROVE  ReceiptOK(p)'
  <1> DEFINE c == cl[p]
             d == cl'[p]
  <1>1. /\ TInv /\ Conv(p) /\ Stage(p) /\ EndsOK(p) /\ ReceiptOK(p) /\ GoodProcess(c)
        /\ UNCHANGED <<pc, out, files, disk>>
    BY DEF ReceiptInv, SavedInv, CInv, TInv, Conv, ClientOK, serverVars, threadVars,
           dbVars, storeVars
  <1>2. /\ \/ toServer'[p] = toServer[p] \/ WritePacket(p)
        /\ \/ toClient'[p] \in {toClient[p], <<>>}
           \/ toClient[p] # <<>> /\ toClient'[p] = Tail(toClient[p])
    BY <1>1, ClientTells
  <1>3. CASE d.at \in {"create", "stopped"}
    BY <1>3 DEF ReceiptOK, Active, Rejoices
  <1>s. CASE d = c /\ UNCHANGED channelVars
    <2>1. UNCHANGED <<toServer, toClient>>
      BY <1>s DEF channelVars
    <2> QED BY <1>1, <1>s, <2>1 DEF ReceiptOK, StoredFor, Idle
  <1>4. CASE Start(p) /\ d.buf = None /\ ~Rejoices(d)
    <2>1. pc'[p] = "none" /\ toClient'[p] = <<>>
      BY <1>1, <1>4 DEF TInv, ConnOK, Untouched, Start, Connect
    <2> QED BY <1>4, <2>1 DEF ReceiptOK, Receipt
  <1>5. CASE (Active(d) => Active(c)) /\ Listens(p, d)
    <2>1. Active(c) => ~Receipt(c.buf)
      BY <1>1 DEF ReceiptOK
    <2>2. Active(d) => ~Receipt(d.buf)
      BY <1>5, <2>1 DEF Listens, NoReceiptInMemory
    <2>3. d.info = c.info /\ (Active(d) => d.id = c.id \/ Read(p))
      BY <1>5 DEF Listens
    <2>4. ASSUME Active(d), pc[p] = "write", out[p] # <<>>, Receipt(Head(out[p]))
          PROVE  StoredFor(p)' /\ Tail(out[p]) = <<>>
      <3>1. StoredFor(p) /\ Tail(out[p]) = <<>> /\ Active(c)
        BY <1>1, <1>5, <2>4 DEF ReceiptOK
      <3>2. Head(out[p]) # Failed
        BY <2>4, FailedIsNoReceipt
      <3>3. toClient[p] = <<>>
        BY <1>1, <2>4, <3>2, RefusalFacts
           DEF Stage, Awaits, Takes, Handles, Handling, Replies, Hears, Quits
      <3>4. d.id = c.id
        BY <2>3, <2>4, <3>3 DEF Read, ClientRecv
      <3> QED BY <1>1, <2>3, <3>1, <3>4, StoredStays
    <2>5. ASSUME Active(d), toClient'[p] # <<>>, Receipt(Head(toClient'[p]))
          PROVE  StoredFor(p)' /\ Idle(p)'
      <3>1. toClient'[p] = toClient[p] \/ toClient'[p] = Tail(toClient[p])
        BY <1>2, <2>5
      <3>2. toClient[p] # <<>> => Tail(toClient[p]) \in Refusals
        BY <1>1, BehindAreRefusals
      <3>3. toClient'[p] = toClient[p]
        BY <1>2, <2>5, <3>2, RefusalFacts, FailedIsNoReceipt
      <3>4. StoredFor(p) /\ Idle(p) /\ Active(c)
        BY <1>1, <1>5, <2>5, <3>3 DEF ReceiptOK
      <3>5. ~Read(p)
        <4>1. ASSUME Read(p) PROVE FALSE
          <5>1. toClient[p] # <<>> /\ toClient'[p] = Tail(toClient[p])
            BY <1>1, <4>1 DEF Read, ClientRecv, TInv, IInv, TypeOK, ChannelTypeOK
          <5>2. Tail(toClient[p]) \in Refusals /\ Tail(toClient[p]) # <<>>
            BY <2>5, <3>2, <5>1
          <5> QED BY <2>5, <5>1, <5>2, RefusalFacts, FailedIsNoReceipt
        <4> QED BY <4>1
      <3>6. StoredFor(p)'
        BY <1>1, <2>3, <2>5, <3>4, <3>5, StoredStays
      <3>7. Idle(p)'
        <4>1. pc[p] = "recv" => ~WritePacket(p)
          <5>1. pc[p] = "recv" => c.toSend = <<>>
            BY <1>1, <2>5, <3>3, <3>4
               DEF Stage, Awaits, Takes, Handles, Handling, Replies, Hears, Told, Quits
          <5> QED BY <1>1, <5>1 DEF GoodProcess, WritePacket
        <4> QED BY <1>1, <1>2, <3>4, <4>1 DEF Idle
      <3> QED BY <3>6, <3>7
    <2>6. ASSUME Rejoices(d) PROVE StoredFor(p)' /\ Idle(p)'
      <3>1. Active(c) /\ Receipt(d.buf) /\ d.id = c.id
        BY <1>5, <2>6 DEF Listens
      <3>2. Read(p) /\ d.buf = Head(toClient[p])
        BY <1>5, <2>1, <3>1 DEF Listens, NoReceiptInMemory
      <3>3. toClient[p] # <<>> /\ toServer'[p] = toServer[p]
        BY <3>2 DEF Read, ClientRecv
      <3>4. StoredFor(p) /\ Idle(p)
        BY <1>1, <3>1, <3>2, <3>3 DEF ReceiptOK
      <3> QED BY <1>1, <2>3, <3>1, <3>3, <3>4, StoredStays DEF Idle
    <2> QED BY <1>1, <2>2, <2>4, <2>5, <2>6 DEF ReceiptOK
  <1> HIDE DEF c, d
  <1> QED BY <1>1, <1>3, <1>s, <1>4, <1>5, ClientTells DEF c, d

LEMMA NextReceiptInv ==
  ASSUME ReceiptInv, WritesWork, "commit" \notin FaultKinds, MaxCrashes = 0,
         NoReceiptInMemory, [Next]_vars
  PROVE  ReceiptInv'
  <1>1. SavedInv'
    BY NextSavedInv DEF ReceiptInv
  <1>2. ASSUME NEW k \in Conns PROVE ReceiptOK(k)'
    <2>1. ReceiptOK(k)
      BY DEF ReceiptInv
    <2>2. CASE Clients
      <3>1. PICK p \in Conns : ClientNext(p, Listening)
        BY <2>2 DEF Clients
      <3>2. UNCHANGED serverVars /\ UNCHANGED <<pc, out, files, disk>>
        BY <2>2 DEF Clients, serverVars, threadVars, dbVars, storeVars
      <3>3. CASE k # p
        <4>1. /\ cl'[k] = cl[k] /\ toServer'[k] = toServer[k]
              /\ toClient'[k] = toClient[k]
          BY <3>1, <3>3, OtherClients DEF ReceiptInv, SavedInv, CInv
        <4> QED BY <2>1, <3>2, <4>1 DEF ReceiptOK, StoredFor, Idle
      <3> QED BY <3>1, <3>2, <3>3, ClientReceipt
    <2>3. CASE UNCHANGED vars
      <3>1. UNCHANGED <<cl, pc, out, files, disk, toServer, toClient>>
        <4>1. UNCHANGED <<channelVars, serverVars, clientVars>>
          BY <2>3 DEF vars
        <4> QED BY <4>1 DEF channelVars, serverVars, clientVars, threadVars, dbVars, storeVars
      <3> QED BY <2>1, <3>1 DEF ReceiptOK, StoredFor, Idle
    <2> QED BY <2>2, <2>3, ServerReceipt DEF Next
  <1> QED BY <1>1, <1>2 DEF ReceiptInv

(* When a client prints Hurray, the file on the server's disk is the one it*)
(* read and padded, under its own id, and its row is marked as verified:   *)
(* for any clients, killed anywhere, if no save and no commit fails, the   *)
(* server lives and every name can be written.                             *)
THEOREM HurrayIsTrue ==
  ASSUME WritesWork, "commit" \notin FaultKinds, MaxCrashes = 0, NoReceiptInMemory
  PROVE  Spec => []HurrayMeansStored
  <1>1. Init => ReceiptInv
    <2>1. SUFFICES ASSUME Init PROVE ReceiptInv
      OBVIOUS
    <2>2. ASSUME NEW k \in Conns PROVE cl[k].at = "off"
      BY <2>1 DEF Init, ClientInit, NewProcess
    <2>3. ASSUME NEW k \in Conns PROVE ReceiptOK(k)
      BY <2>2 DEF ReceiptOK, Active, Rejoices
    <2> QED BY <2>1, <2>3, InitSavedInv DEF ReceiptInv
  <1>2. ReceiptInv /\ [Next]_vars => ReceiptInv'
    BY NextReceiptInv
  <1>3. ReceiptInv => HurrayMeansStored
    BY DEF ReceiptInv, ReceiptOK, StoredFor, Rejoices, HurrayMeansStored
  <1> QED BY <1>1, <1>2, <1>3, PTL DEF Spec
=============================================================================
