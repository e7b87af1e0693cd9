----------------------------- MODULE ReceiveFile -----------------------------
(***************************************************************************)
(* One upload byte by byte: what TcpClientChannel::Write puts on the wire, *)
(* and how Server.read and RequestToSendFile.unpack take it off again.     *)
(*                                                                         *)
(* The other modules pass packets, which is what the code believes in.  TCP*)
(* passes bytes: a receive returns any part of what has been written.  The *)
(* bytes of the stream are numbered from 1.  The message is a head of      *)
(* Offset bytes and size bytes of content, padded to whole packets with    *)
(* whatever lies behind it in the client's memory; when it is answered the *)
(* client sends one more packet, the status of the checksum.               *)
(***************************************************************************)
EXTENDS Integers

CONSTANTS
  P,             \* PACKET_SIZE
  Offset,        \* of the content in the message
  StatusSize,    \* what CrcStatusRequest.unpack takes from a packet
  Sizes          \* bound: the sizes an encrypted content may have

ASSUME PacketAssumption ==
  /\ P \in Nat /\ Offset \in 1..(P - 1) /\ StatusSize \in 1..P
  /\ Sizes \subseteq Nat \ {0}

VARIABLES
  size,              \* encryptedContentSize
  toWrite, written,  \* the client: bytesToWrite, and the bytes on the stream
  asked, closed,     \* whether it sent the status, and whether it hung up
  pc,                \* where the server's thread is
  taken,             \* the bytes it received so far
  bytesRead,         \* of the content, as unpack counts them
  content,           \* fileContent: content[i] is the number of its i-th byte
  short              \* whether some receive returned less than a packet

clientVars == <<toWrite, written, asked, closed>>
serverVars == <<pc, taken, bytesRead, content, short>>
vars == <<size, clientVars, serverVars>>

(* recv: read() waits for the upload.  file: the loop of unpack.  reply:   *)
(* the rest of the handler.  next: read() waits for another request.       *)
(* spin: the loop after the client hung up.  misread: padding was taken    *)
(* for a request.                                                          *)
Place == {"recv", "file", "reply", "next", "status", "refused", "misread",
          "spin", "done"}

Init ==
  /\ size \in Sizes
  /\ toWrite = Offset + size /\ written = 0 /\ asked = FALSE /\ closed = FALSE
  /\ pc = "recv" /\ taken = 0 /\ bytesRead = 0 /\ short = FALSE
  /\ content = [i \in {} |-> 0]

AtMost(m, n) == IF m < n THEN m ELSE n

-----------------------------------------------------------------------------
(* The client.                                                             *)

WritePacket ==
  /\ toWrite > 0 /\ ~closed
  /\ written' = written + P
  /\ toWrite' = IF toWrite < P THEN 0 ELSE toWrite - P
  /\ UNCHANGED <<size, asked, closed, serverVars>>

SendStatus ==
  /\ pc = "next" /\ toWrite = 0 /\ ~asked /\ ~closed
  /\ asked' = TRUE /\ written' = written + P
  /\ UNCHANGED <<size, toWrite, closed, serverVars>>

HangUp ==
  /\ ~closed /\ closed' = TRUE
  /\ UNCHANGED <<size, toWrite, written, asked, serverVars>>

-----------------------------------------------------------------------------
(* The server.  recv(P) returns n bytes, the client's order kept.          *)

Recv(n) ==
  /\ n \in 1..AtMost(P, written - taken)
  /\ taken' = taken + n
  /\ short' = (short \/ n < P)
  /\ UNCHANGED <<size, clientVars>>

(* fileContent with the m bytes of the stream after byte k appended.       *)
Extended(m, k) ==
  [i \in 1..(bytesRead + m) |->
     IF i <= bytesRead THEN content[i] ELSE k + (i - bytesRead)]

(* What unpack takes from the first packet.                                *)
HeadBytes == IF size > P THEN P - Offset ELSE size

(* Whether a packet can hold that much after the head.                     *)
HeadUnpacks == HeadBytes <= P - Offset

(* Mutant: the content of the first packet is not counted. *)
RecvHeadUncounted(n) ==
  /\ pc = "recv" /\ Recv(n)
  /\ IF n < Offset + HeadBytes
       THEN pc' = "refused" /\ UNCHANGED <<bytesRead, content>>
       ELSE pc' = "file" /\ UNCHANGED <<bytesRead, content>>

(* Mutant: a slice of the packet is taken, whatever its length. *)
RecvHeadSliced(n) ==
  /\ pc = "recv" /\ Recv(n)
  /\ IF n < Offset
       THEN pc' = "refused" /\ UNCHANGED <<bytesRead, content>>
       ELSE /\ bytesRead' = HeadBytes
            /\ content' = Extended(AtMost(HeadBytes, n - Offset), Offset)
            /\ pc' = IF HeadBytes < size THEN "file" ELSE "reply"

(* struct.unpack wants every field whole; what is missing is not waited for*)
(* but refused.                                                            *)
RecvHead(n) ==
  /\ pc = "recv" /\ Recv(n)
  /\ IF n < Offset + HeadBytes
       THEN pc' = "refused" /\ UNCHANGED <<bytesRead, content>>
       ELSE /\ bytesRead' = HeadBytes
            /\ content' = Extended(HeadBytes, Offset)
            /\ pc' = IF HeadBytes < size THEN "file" ELSE "reply"

(* Mutant: the last packet is received without its padding. *)
RecvChunkExact(n) ==
  /\ pc = "file" /\ n \in 1..AtMost(AtMost(P, size - bytesRead), written - taken)
  /\ taken' = taken + n
  /\ short' = (short \/ n < AtMost(P, size - bytesRead))
  /\ bytesRead' = bytesRead + n
  /\ content' = Extended(n, taken)
  /\ pc' = IF bytesRead + n < size THEN "file" ELSE "reply"
  /\ UNCHANGED <<size, clientVars>>

(* Mutant: the padding of the last packet is counted too. *)
RecvChunkPadded(n) ==
  /\ pc = "file" /\ Recv(n)
  /\ bytesRead' = bytesRead + n
  /\ content' = Extended(n, taken)
  /\ pc' = IF bytesRead + n < size THEN "file" ELSE "reply"

(* What a receive returns beyond the content is dropped.                   *)
RecvChunk(n) ==
  /\ pc = "file" /\ Recv(n)
  /\ LET dataSize == AtMost(n, size - bytesRead)
     IN  /\ bytesRead' = bytesRead + dataSize
         /\ content' = Extended(dataSize, taken)
         /\ pc' = IF bytesRead + dataSize < size THEN "file" ELSE "reply"

(* At the end of the stream recv returns no bytes, which unpack adds to the*)
(* content for ever and read() takes for the end of the session.           *)
RecvEof ==
  /\ closed /\ taken = written
  /\ \/ pc = "file" /\ pc' = "spin"
     \/ pc \in {"recv", "next"} /\ pc' = "done"
  /\ UNCHANGED <<size, clientVars, taken, bytesRead, content, short>>

Reply ==
  /\ pc = "reply" /\ pc' = "next"
  /\ UNCHANGED <<size, clientVars, taken, bytesRead, content, short>>

(* Where the packets of the message end.                                   *)
UploadEnd == IF asked THEN written - P ELSE written

RecvNext(n) ==
  /\ pc = "next" /\ Recv(n)
  /\ \/ taken < UploadEnd /\ pc' = "misread"
     \/ taken = UploadEnd /\ n < StatusSize /\ pc' = "refused"
     \/ taken = UploadEnd /\ n >= StatusSize /\ pc' = "status"
  /\ UNCHANGED <<bytesRead, content>>

Client == WritePacket \/ SendStatus
Server == \/ RecvEof \/ Reply
          \/ \E n \in 1..P : RecvHead(n) \/ RecvChunk(n) \/ RecvNext(n)

Next == Client \/ HangUp \/ Server

Spec == Init /\ [][Next]_vars
FairSpec == Spec /\ WF_vars(Client) /\ WF_vars(Server)

-----------------------------------------------------------------------------
TypeOK ==
  /\ size \in Sizes /\ toWrite \in Nat /\ written \in Nat
  /\ asked \in BOOLEAN /\ closed \in BOOLEAN /\ short \in BOOLEAN
  /\ pc \in Place /\ taken \in 0..written /\ bytesRead \in 0..size

(* Whatever lengths the receives have, the content is the client's content *)
(* from its first byte on, with no byte lost, doubled or taken from the    *)
(* head or the padding; and all of it once the handler goes on.            *)
ContentIsWhole ==
  /\ content = [i \in 1..bytesRead |-> Offset + i]
  /\ pc \in {"reply", "next", "status", "misread"} => bytesRead = size

(* If every receive returns a packet, the server takes exactly the packets *)
(* the client wrote: what follows an upload is read as the request it is,  *)
(* and nothing is refused but a head that cannot be unpacked.  This is what*)
(* makes the packets of the other modules sound.                           *)
InStep ==
  ~short => /\ pc \in {"reply", "next"} => taken = UploadEnd
            /\ pc \in {"reply", "next", "status"} => toWrite = 0
            /\ pc # "misread"
            /\ pc = "refused" => ~HeadUnpacks

(* A client that hangs up after it wrote the whole message leaves a thread *)
(* that ends; the loop of unpack spins only for one that stopped before.   *)
SpinsOnlyIfCutOff == pc = "spin" => closed /\ toWrite > 0

(* The loop of unpack ends unless the client hangs up, however the bytes   *)
(* are cut up on their way.                                                *)
UploadEnds == pc \in {"recv", "file"} ~> pc \notin {"recv", "file"} \/ closed
=============================================================================
