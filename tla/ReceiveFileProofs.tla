--------------------------- MODULE ReceiveFileProofs ---------------------------
(***************************************************************************)
(* Proofs about one upload on the byte stream, for every packet size, every*)
(* offset of the content and every size of it.                             *)
(***************************************************************************)
EXTENDS ReceiveFile, TLAPS

(* What the client has put on the stream, against the end of the message.  *)
WriteOK ==
  /\ toWrite > 0 => ~asked /\ toWrite + written = Offset + size
  /\ toWrite = 0 => UploadEnd >= Offset + size
  /\ UploadEnd < Offset + size + P

(* Where the server is in the message while it receives it.                *)
ReadOK ==
  /\ pc = "recv" => taken = 0 /\ bytesRead = 0
  /\ pc = "file" => /\ size > P /\ bytesRead < size
                    /\ taken = Offset + bytesRead
  /\ pc \in {"recv", "file", "reply"} => ~asked

(* As long as no receive was short, whole packets are under way.           *)
PacketsUnderWay == ~short => \E d \in Nat : written = taken + P * d

(* The inductive invariant.                                                *)
StreamInv ==
  TypeOK /\ WriteOK /\ ReadOK /\ PacketsUnderWay
         /\ ContentIsWhole /\ InStep /\ SpinsOnlyIfCutOff

-----------------------------------------------------------------------------
(* A packet more, a packet less.                                           *)
LEMMA OneMore == \A d \in Nat : P * (d + 1) = P * d + P
  BY PacketAssumption, SMT

LEMMA OneLess == \A d \in Nat : P <= P * d => d - 1 \in Nat /\ P * (d - 1) = P * d - P
<1> SUFFICES ASSUME NEW d \in Nat, P <= P * d
             PROVE  d - 1 \in Nat /\ P * (d - 1) = P * d - P
  OBVIOUS
<1>1. d # 0
  <2> SUFFICES ASSUME d = 0 PROVE FALSE
    OBVIOUS
  <2>1. P * 0 = 0
    BY PacketAssumption, SMT
  <2> QED
    BY <2>1, PacketAssumption
<1>2. d - 1 \in Nat
  BY <1>1
<1>3. P * ((d - 1) + 1) = P * (d - 1) + P
  BY <1>2, OneMore
<1> QED
  BY <1>2, <1>3, PacketAssumption

LEMMA LessThanOne == \A d \in Nat : P * d < P => P * d = 0
<1> SUFFICES ASSUME NEW d \in Nat, P * d < P, d # 0 PROVE FALSE
  BY PacketAssumption, SMT
<1>1. d - 1 \in Nat
  OBVIOUS
<1>2. P * ((d - 1) + 1) = P * (d - 1) + P
  BY <1>1, OneMore
<1>3. P * (d - 1) \in Nat
  BY <1>1, PacketAssumption, SMT
<1> QED
  BY <1>2, <1>3, PacketAssumption

(* Appending keeps the content a prefix of what the client wrote, if what  *)
(* is appended lies right behind what is there.                            *)
LEMMA ExtendedIsWhole ==
  ASSUME NEW m \in Nat, NEW k \in Nat, TypeOK, ContentIsWhole, k = Offset + bytesRead
  PROVE  Extended(m, k) = [i \in 1..(bytesRead + m) |-> Offset + i]
<1>1. bytesRead \in Nat
  BY PacketAssumption DEF TypeOK
<1>2. \A i \in 1..(bytesRead + m) :
        (IF i <= bytesRead THEN content[i] ELSE k + (i - bytesRead)) = Offset + i
  <2> TAKE i \in 1..(bytesRead + m)
  <2>1. CASE i <= bytesRead
    <3>1. i \in 1..bytesRead
      BY <2>1, <1>1
    <3> QED
      BY <2>1, <3>1 DEF ContentIsWhole
  <2>2. CASE ~(i <= bytesRead)
    BY <2>2, <1>1, PacketAssumption
  <2> QED
    BY <2>1, <2>2
<1> QED
  BY <1>2 DEF Extended

(* A server that has taken whole packets, up to or past the end of the     *)
(* message, has taken all of them.                                         *)
LEMMA AllTaken ==
  ASSUME NEW t \in Nat, NEW w \in Nat, NEW e \in Nat, NEW d \in Nat,
         w = t + P * d, t >= e, w < e + P
  PROVE  w = t
<1>1. P * d \in Nat
  BY PacketAssumption, SMT
<1>2. P * d < P
  BY <1>1, PacketAssumption
<1> QED
  BY <1>2, LessThanOne

LEMMA SizeIsPositive == \A s \in Sizes : s \in Nat /\ s > 0
  BY PacketAssumption

-----------------------------------------------------------------------------
LEMMA StreamInit == Init => StreamInv
<1> SUFFICES ASSUME Init PROVE StreamInv
  OBVIOUS
<1> USE PacketAssumption DEF Init
<1>0. size \in Nat /\ size > 0
  BY SizeIsPositive
<1>1. TypeOK
  <2>1. toWrite \in Nat /\ written \in Nat /\ taken \in 0..written /\ bytesRead \in 0..size
    BY <1>0
  <2>2. asked \in BOOLEAN /\ closed \in BOOLEAN /\ short \in BOOLEAN /\ pc \in Place
    BY DEF Place
  <2> QED
    BY <2>1, <2>2 DEF TypeOK
<1>2. WriteOK
  BY <1>0 DEF WriteOK, UploadEnd
<1>3. ReadOK
  BY DEF ReadOK
<1>4. PacketsUnderWay
  <2>1. written = taken + P * 0
    BY SMT
  <2> QED
    BY <2>1 DEF PacketsUnderWay
<1>5. ContentIsWhole
  <2>1. 1..bytesRead = {}
    BY SMT
  <2> QED
    BY <2>1 DEF ContentIsWhole
<1>6. InStep /\ SpinsOnlyIfCutOff
  BY DEF InStep, SpinsOnlyIfCutOff
<1> QED
  BY <1>1, <1>2, <1>3, <1>4, <1>5, <1>6 DEF StreamInv

LEMMA WritePacketStep == ASSUME StreamInv, WritePacket PROVE StreamInv'
<1> USE PacketAssumption
<1>0. /\ size \in Nat /\ size > 0 /\ written \in Nat /\ toWrite \in Nat
      /\ toWrite > 0 /\ ~asked /\ toWrite + written = Offset + size
  BY SizeIsPositive DEF StreamInv, TypeOK, WriteOK, WritePacket
<1>1. TypeOK'
  BY <1>0 DEF StreamInv, TypeOK, WritePacket, serverVars
<1>2. WriteOK'
  BY <1>0 DEF WriteOK, UploadEnd, WritePacket
<1>3. ReadOK'
  BY DEF StreamInv, ReadOK, WritePacket, serverVars
<1>4. PacketsUnderWay'
  <2> SUFFICES ASSUME ~short PROVE \E d \in Nat : written' = taken + P * d
    BY DEF PacketsUnderWay, WritePacket, serverVars
  <2>1. PICK d \in Nat : written = taken + P * d
    BY DEF StreamInv, PacketsUnderWay
  <2>2. P * (d + 1) = P * d + P
    BY OneMore
  <2>3. taken \in Nat /\ P * d \in Int
    BY <1>0 DEF StreamInv, TypeOK
  <2>4. written' = written + P
    BY DEF WritePacket
  <2>5. written' = taken + P * (d + 1) /\ d + 1 \in Nat
    BY <2>1, <2>2, <2>3, <2>4
  <2> QED
    BY <2>5, Zenon
<1>5. ContentIsWhole'
  BY DEF StreamInv, ContentIsWhole, WritePacket, serverVars
<1>6. InStep'
  BY <1>0 DEF StreamInv, InStep, WritePacket, serverVars, HeadUnpacks, HeadBytes
<1>7. SpinsOnlyIfCutOff'
  BY DEF StreamInv, SpinsOnlyIfCutOff, WritePacket, serverVars
<1> QED
  BY <1>1, <1>2, <1>3, <1>4, <1>5, <1>6, <1>7 DEF StreamInv

LEMMA SendStatusStep == ASSUME StreamInv, SendStatus PROVE StreamInv'
<1> USE PacketAssumption
<1>0. /\ size \in Nat /\ size > 0 /\ written \in Nat /\ toWrite = 0
      /\ ~asked /\ UploadEnd = written /\ UploadEnd' = written
  BY SizeIsPositive DEF StreamInv, TypeOK, SendStatus, UploadEnd
<1>1. TypeOK'
  BY <1>0 DEF StreamInv, TypeOK, SendStatus, serverVars
<1>2. WriteOK'
  BY <1>0 DEF StreamInv, WriteOK, SendStatus
<1>3. ReadOK'
  BY DEF StreamInv, ReadOK, SendStatus, serverVars
<1>4. PacketsUnderWay'
  <2> SUFFICES ASSUME ~short PROVE \E d \in Nat : written' = taken + P * d
    BY DEF PacketsUnderWay, SendStatus, serverVars
  <2>1. PICK d \in Nat : written = taken + P * d
    BY DEF StreamInv, PacketsUnderWay
  <2>2. P * (d + 1) = P * d + P
    BY OneMore
  <2>3. taken \in Nat /\ P * d \in Int
    BY <1>0 DEF StreamInv, TypeOK
  <2>4. written' = written + P
    BY DEF SendStatus
  <2>5. written' = taken + P * (d + 1) /\ d + 1 \in Nat
    BY <2>1, <2>2, <2>3, <2>4
  <2> QED
    BY <2>5, Zenon
<1>5. ContentIsWhole'
  BY DEF StreamInv, ContentIsWhole, SendStatus, serverVars
<1>6. InStep'
  BY <1>0 DEF StreamInv, InStep, SendStatus, serverVars, HeadUnpacks, HeadBytes
<1>7. SpinsOnlyIfCutOff'
  BY DEF StreamInv, SpinsOnlyIfCutOff, SendStatus, serverVars
<1> QED
  BY <1>1, <1>2, <1>3, <1>4, <1>5, <1>6, <1>7 DEF StreamInv

(* What leaves the bytes and the content alone: hanging up, and the steps  *)
(* of the server that receive nothing.                                     *)
LEMMA QuietStep ==
  ASSUME StreamInv, HangUp \/ RecvEof \/ Reply \/ UNCHANGED vars PROVE StreamInv'
<1> USE PacketAssumption
<1>0. UNCHANGED <<size, toWrite, written, asked, taken, bytesRead, content, short>>
  BY DEF HangUp, RecvEof, Reply, clientVars, serverVars, vars
<1>a. closed' \in BOOLEAN /\ (closed => closed')
  <2>1. closed' = TRUE \/ closed' = closed
    <3>1. HangUp => closed' = TRUE
      BY DEF HangUp
    <3>2. RecvEof \/ Reply \/ UNCHANGED vars => closed' = closed
      BY DEF RecvEof, Reply, clientVars, vars
    <3> QED
      BY <3>1, <3>2
  <2>2. closed \in BOOLEAN
    BY DEF StreamInv, TypeOK
  <2>3. CASE closed' = TRUE
    BY <2>3
  <2>4. CASE closed' = closed
    BY <2>2, <2>4
  <2> QED
    BY <2>1, <2>3, <2>4
<1>1. \/ pc' = pc
      \/ pc = "file" /\ pc' = "spin"
      \/ pc \in {"recv", "next"} /\ pc' = "done"
      \/ pc = "reply" /\ pc' = "next"
  <2>1. HangUp \/ UNCHANGED vars => pc' = pc
    BY DEF HangUp, serverVars, vars
  <2>2. CASE RecvEof
    BY <2>2 DEF RecvEof
  <2>3. CASE Reply
    BY <2>3 DEF Reply
  <2> QED
    BY <2>1, <2>2, <2>3
<1>b. pc = "file" /\ pc' = "spin" => closed /\ taken = written
  <2>1. RecvEof => closed /\ taken = written
    BY DEF RecvEof
  <2>2. HangUp \/ UNCHANGED vars => pc' = pc
    BY DEF HangUp, serverVars, vars
  <2>3. Reply => pc = "reply"
    BY DEF Reply
  <2> QED
    BY <2>1, <2>2, <2>3
<1>c. pc' \in Place
  <2>1. pc \in Place
    BY DEF StreamInv, TypeOK
  <2> QED
    BY <1>1, <2>1 DEF Place
<1>2. TypeOK'
  BY <1>0, <1>a, <1>c DEF StreamInv, TypeOK
<1>3. WriteOK'
  BY <1>0 DEF StreamInv, WriteOK, UploadEnd
<1>4. ReadOK'
  BY <1>0, <1>1 DEF StreamInv, ReadOK
<1>5. PacketsUnderWay'
  BY <1>0 DEF StreamInv, PacketsUnderWay
<1>6. ContentIsWhole'
  BY <1>0, <1>1 DEF StreamInv, ContentIsWhole
<1>7. InStep'
  BY <1>0, <1>1 DEF StreamInv, InStep, UploadEnd, HeadUnpacks, HeadBytes
<1>8. SpinsOnlyIfCutOff'
  <2>1. CASE pc = "file" /\ pc' = "spin"
    <3>1. closed /\ taken = written
      BY <1>b, <2>1
    <3>2. taken < Offset + size
      BY <2>1, SizeIsPositive DEF StreamInv, TypeOK, ReadOK
    <3>3. UploadEnd \in Int /\ UploadEnd <= written
      BY DEF UploadEnd, StreamInv, TypeOK
    <3>4. toWrite > 0
      BY <3>1, <3>2, <3>3, SizeIsPositive DEF StreamInv, TypeOK, WriteOK
    <3> QED
      BY <1>0, <1>a, <3>1, <3>4 DEF SpinsOnlyIfCutOff
  <2>2. CASE ~(pc = "file" /\ pc' = "spin")
    <3>1. pc' = "spin" => pc = "spin"
      BY <1>1, <2>2
    <3> QED
      BY <1>0, <1>a, <3>1 DEF StreamInv, SpinsOnlyIfCutOff
  <2> QED
    BY <2>1, <2>2
<1> QED
  BY <1>2, <1>3, <1>4, <1>5, <1>6, <1>7, <1>8 DEF StreamInv

(* What every receive has in common.                                       *)
LEMMA RecvFacts ==
  ASSUME StreamInv, NEW n \in 1..P, Recv(n)
  PROVE  /\ size \in Nat /\ size > 0 /\ written \in Nat /\ taken \in Nat
         /\ bytesRead \in Nat /\ bytesRead <= size
         /\ n \in Nat /\ n >= 1 /\ n <= P /\ taken + n <= written
         /\ taken' = taken + n /\ UNCHANGED <<size, clientVars>>
         /\ WriteOK' /\ PacketsUnderWay'
         /\ ~short' => ~short /\ n = P
<1> USE PacketAssumption
<1>1. /\ size \in Nat /\ size > 0 /\ written \in Nat /\ taken \in Nat
      /\ bytesRead \in Nat /\ bytesRead <= size
  BY SizeIsPositive DEF StreamInv, TypeOK
<1>2. n \in Nat /\ n >= 1 /\ n <= P /\ taken + n <= written
  BY <1>1 DEF Recv, AtMost
<1>3. taken' = taken + n /\ UNCHANGED <<size, clientVars>>
  BY DEF Recv
<1>4. ~short' => ~short /\ n = P
  <2>1. short' = (short \/ n < P)
    BY DEF Recv
  <2>2. ~(n < P) => n = P
    BY <1>2
  <2> QED
    BY <2>1, <2>2, Zenon
<1>5. WriteOK'
  BY <1>3 DEF StreamInv, WriteOK, UploadEnd, clientVars
<1>6. PacketsUnderWay'
  <2> SUFFICES ASSUME ~short, n = P PROVE \E d \in Nat : written = taken' + P * d
    BY <1>3, <1>4 DEF PacketsUnderWay, clientVars
  <2>1. PICK d \in Nat : written = taken + P * d
    BY DEF StreamInv, PacketsUnderWay
  <2>2. P * d \in Int
    OBVIOUS
  <2>3. P <= P * d
    BY <1>1, <1>2, <2>1, <2>2
  <2>4. d - 1 \in Nat /\ P * (d - 1) = P * d - P
    BY <2>3, OneLess
  <2>5. written = taken' + P * (d - 1)
    BY <1>1, <1>3, <2>1, <2>2, <2>4
  <2> QED
    BY <2>4, <2>5
<1> QED
  BY <1>1, <1>2, <1>3, <1>4, <1>5, <1>6

(* A receive that ends the content: where the stream is then.              *)
LEMMA LastPacket ==
  ASSUME StreamInv, NEW n \in 1..P, Recv(n), pc \in {"recv", "file"}, ~short',
         taken + n >= Offset + size
  PROVE  taken' = UploadEnd' /\ toWrite' = 0
<1> USE PacketAssumption
<1>0. /\ size \in Nat /\ written \in Nat /\ taken \in Nat /\ n = P
      /\ taken' = taken + n /\ taken + n <= written /\ ~short
      /\ UNCHANGED <<size, clientVars>> /\ PacketsUnderWay'
  BY RecvFacts
<1>1. toWrite = 0
  BY <1>0 DEF StreamInv, TypeOK, WriteOK
<1>2. PICK d \in Nat : written = taken' + P * d
  BY <1>0 DEF PacketsUnderWay, Recv, clientVars
<1>3. CASE ~asked
  <2>1. written < Offset + size + P
    BY <1>3 DEF StreamInv, WriteOK, UploadEnd
  <2>2. written = taken'
    BY <1>0, <1>2, <2>1, AllTaken
  <2> QED
    BY <1>0, <1>1, <1>3, <2>2 DEF UploadEnd, clientVars
<1>4. ~asked
  BY DEF StreamInv, ReadOK
<1> QED
  BY <1>3, <1>4

-----------------------------------------------------------------------------
LEMMA RecvHeadStep == ASSUME StreamInv, NEW n \in 1..P, RecvHead(n) PROVE StreamInv'
<1> USE PacketAssumption
<1>1. pc = "recv" /\ Recv(n)
  BY DEF RecvHead
<1>2. /\ size \in Nat /\ size > 0 /\ written \in Nat /\ taken = 0 /\ bytesRead = 0
      /\ n \in Nat /\ n >= 1 /\ n <= P /\ n <= written /\ taken' = n
      /\ UNCHANGED <<size, clientVars>> /\ WriteOK' /\ PacketsUnderWay'
      /\ ~short' => ~short /\ n = P
  BY <1>1, RecvFacts DEF StreamInv, ReadOK
<1>3. /\ HeadBytes \in Nat /\ HeadBytes <= size
      /\ HeadBytes < size => size > P /\ HeadBytes = P - Offset
  BY <1>2 DEF HeadBytes
<1>4. short' \in BOOLEAN
  BY <1>1 DEF Recv, StreamInv, TypeOK
<1>5. CASE n < Offset + HeadBytes
  <2>1. pc' = "refused" /\ UNCHANGED <<bytesRead, content>>
    BY <1>5 DEF RecvHead
  <2>2. TypeOK'
    BY <1>2, <1>4, <2>1 DEF StreamInv, TypeOK, Place, clientVars
  <2>3. ContentIsWhole' /\ ReadOK' /\ SpinsOnlyIfCutOff'
    BY <2>1 DEF StreamInv, ContentIsWhole, ReadOK, SpinsOnlyIfCutOff
  <2>4. InStep'
    <3>1. n = P => ~HeadUnpacks'
      BY <1>2, <1>3, <1>5 DEF HeadUnpacks, HeadBytes
    <3> QED
      BY <1>2, <2>1, <3>1 DEF InStep
  <2> QED
    BY <1>2, <2>2, <2>3, <2>4 DEF StreamInv
<1>6. CASE ~(n < Offset + HeadBytes)
  <2>1. /\ bytesRead' = HeadBytes /\ content' = Extended(HeadBytes, Offset)
        /\ pc' = IF HeadBytes < size THEN "file" ELSE "reply"
    BY <1>6 DEF RecvHead
  <2>2. TypeOK'
    BY <1>2, <1>3, <1>4, <2>1 DEF StreamInv, TypeOK, Place, clientVars
  <2>3. ContentIsWhole'
    <3>1. content' = [i \in 1..(bytesRead + HeadBytes) |-> Offset + i]
      BY <1>2, <1>3, <2>1, ExtendedIsWhole DEF StreamInv
    <3>2. bytesRead + HeadBytes = bytesRead'
      BY <1>2, <1>3, <2>1
    <3>3. pc' \in {"reply", "next", "status", "misread"} => bytesRead' = size'
      BY <1>2, <1>3, <2>1
    <3> QED
      BY <3>1, <3>2, <3>3 DEF ContentIsWhole
  <2>4. ReadOK'
    <3>1. ~asked'
      BY <1>1, <1>2 DEF StreamInv, ReadOK, clientVars
    <3>2. HeadBytes < size => n = Offset + HeadBytes
      BY <1>2, <1>3, <1>6
    <3> QED
      BY <1>2, <1>3, <2>1, <3>1, <3>2 DEF ReadOK
  <2>5. InStep'
    <3>1. ~short' /\ pc' = "reply" => taken' = UploadEnd' /\ toWrite' = 0
      <4> SUFFICES ASSUME ~short', pc' = "reply"
                   PROVE  taken' = UploadEnd' /\ toWrite' = 0
        OBVIOUS
      <4>1. HeadBytes = size
        BY <1>2, <1>3, <2>1
      <4>2. taken + n >= Offset + size
        BY <1>2, <1>6, <4>1
      <4> QED
        BY <1>1, <4>2, LastPacket
    <3> QED
      BY <2>1, <3>1 DEF InStep
  <2> QED
    BY <1>2, <2>1, <2>2, <2>3, <2>4, <2>5 DEF StreamInv, SpinsOnlyIfCutOff
<1> QED
  BY <1>5, <1>6

LEMMA RecvChunkStep == ASSUME StreamInv, NEW n \in 1..P, RecvChunk(n) PROVE StreamInv'
<1> USE PacketAssumption
<1> DEFINE dataSize == AtMost(n, size - bytesRead)
<1>1. /\ pc = "file" /\ Recv(n) /\ bytesRead' = bytesRead + dataSize
      /\ content' = Extended(dataSize, taken)
      /\ pc' = IF bytesRead + dataSize < size THEN "file" ELSE "reply"
  BY DEF RecvChunk
<1>2. /\ size \in Nat /\ size > P /\ written \in Nat /\ bytesRead \in Nat
      /\ bytesRead < size /\ taken = Offset + bytesRead
      /\ n \in Nat /\ n >= 1 /\ n <= P /\ taken + n <= written /\ taken' = taken + n
      /\ UNCHANGED <<size, clientVars>> /\ WriteOK' /\ PacketsUnderWay'
      /\ ~short' => ~short /\ n = P
  BY <1>1, RecvFacts DEF StreamInv, ReadOK
<1>3. /\ dataSize \in Nat /\ dataSize <= n /\ bytesRead + dataSize <= size
      /\ bytesRead + dataSize < size => dataSize = n
  BY <1>2 DEF AtMost
<1>4. short' \in BOOLEAN
  BY <1>1 DEF Recv, StreamInv, TypeOK
<1> HIDE DEF dataSize
<1>5. TypeOK'
  BY <1>1, <1>2, <1>3, <1>4 DEF StreamInv, TypeOK, Place, clientVars
<1>6. ContentIsWhole'
  <2>1. taken \in Nat
    BY <1>2
  <2>2. content' = [i \in 1..(bytesRead + dataSize) |-> Offset + i]
    BY <1>1, <1>2, <1>3, <2>1, ExtendedIsWhole DEF StreamInv
  <2>3. pc' \in {"reply", "next", "status", "misread"} => bytesRead' = size'
    BY <1>1, <1>2, <1>3
  <2> QED
    BY <1>1, <2>2, <2>3 DEF ContentIsWhole
<1>7. ReadOK'
  <2>1. ~asked'
    BY <1>1, <1>2 DEF StreamInv, ReadOK, clientVars
  <2> QED
    BY <1>1, <1>2, <1>3, <2>1 DEF ReadOK
<1>8. InStep'
  <2>1. ~short' /\ pc' = "reply" => taken' = UploadEnd' /\ toWrite' = 0
    <3> SUFFICES ASSUME ~short', pc' = "reply"
                 PROVE  taken' = UploadEnd' /\ toWrite' = 0
      OBVIOUS
    <3>1. taken + n >= Offset + size
      BY <1>1, <1>2, <1>3
    <3> QED
      BY <1>1, <3>1, LastPacket
  <2> QED
    BY <1>1, <2>1 DEF InStep
<1> QED
  BY <1>1, <1>2, <1>5, <1>6, <1>7, <1>8 DEF StreamInv, SpinsOnlyIfCutOff

LEMMA RecvNextStep == ASSUME StreamInv, NEW n \in 1..P, RecvNext(n) PROVE StreamInv'
<1> USE PacketAssumption
<1>1. /\ pc = "next" /\ Recv(n) /\ UNCHANGED <<bytesRead, content>>
      /\ pc' \in {"misread", "refused", "status"}
      /\ pc' = "misread" => taken < UploadEnd
      /\ pc' = "refused" => n < StatusSize
  BY DEF RecvNext
<1>2. /\ size \in Nat /\ written \in Nat /\ taken \in Nat /\ taken + n <= written
      /\ n \in Nat /\ taken' = taken + n
      /\ UNCHANGED <<size, clientVars>> /\ WriteOK' /\ PacketsUnderWay'
      /\ ~short' => ~short /\ n = P
  BY <1>1, RecvFacts
<1>3. short' \in BOOLEAN
  BY <1>1 DEF Recv, StreamInv, TypeOK
<1>4. TypeOK'
  BY <1>1, <1>2, <1>3 DEF StreamInv, TypeOK, Place, clientVars
<1>5. ContentIsWhole'
  BY <1>1, <1>2 DEF StreamInv, ContentIsWhole
<1>6. ReadOK' /\ SpinsOnlyIfCutOff'
  BY <1>1 DEF ReadOK, SpinsOnlyIfCutOff
<1>7. InStep'
  <2> SUFFICES ASSUME ~short'
               PROVE  pc' \notin {"misread", "refused"} /\ toWrite' = 0
    BY <1>1 DEF InStep
  <2>1. taken = UploadEnd /\ toWrite = 0
    BY <1>1, <1>2 DEF StreamInv, InStep
  <2>2. ~(n < StatusSize) /\ ~(taken < UploadEnd)
    BY <1>2, <2>1
  <2> QED
    BY <1>1, <1>2, <2>1, <2>2 DEF clientVars
<1> QED
  BY <1>2, <1>4, <1>5, <1>6, <1>7 DEF StreamInv

LEMMA StreamStep == ASSUME StreamInv, [Next]_vars PROVE StreamInv'
<1>1. CASE WritePacket
  BY <1>1, WritePacketStep
<1>2. CASE SendStatus
  BY <1>2, SendStatusStep
<1>3. CASE HangUp \/ RecvEof \/ Reply \/ UNCHANGED vars
  BY <1>3, QuietStep
<1>4. CASE \E n \in 1..P : RecvHead(n) \/ RecvChunk(n) \/ RecvNext(n)
  BY <1>4, RecvHeadStep, RecvChunkStep, RecvNextStep
<1> QED
  BY <1>1, <1>2, <1>3, <1>4 DEF Next, Client, Server

(* The invariant of the byte stream.                                       *)
LEMMA StreamInvariant == Spec => []StreamInv
<1>1. Init => StreamInv
  BY StreamInit
<1>2. StreamInv /\ [Next]_vars => StreamInv'
  BY StreamStep
<1> QED
  BY <1>1, <1>2, PTL DEF Spec

(* Type correctness: no more bytes are taken than were written, and no more*)
(* of them are content than the content has.                               *)
THEOREM StreamTypes == Spec => []TypeOK
<1>1. StreamInv => TypeOK
  BY DEF StreamInv
<1> QED
  BY <1>1, StreamInvariant, PTL

(* Whatever the sizes of the packets and of the content, and wherever TCP  *)
(* cuts the stream, the loop of RequestToSendFile.unpack puts the content  *)
(* together without losing, doubling or mistaking a byte.                  *)
THEOREM ContentWhole == Spec => []ContentIsWhole
<1>1. StreamInv => ContentIsWhole
  BY DEF StreamInv
<1> QED
  BY <1>1, StreamInvariant, PTL

(* The packets TcpClientChannel::Write rounds a message up to are those    *)
(* the server takes for it, if no receive is short: the other modules may  *)
(* pass packets.                                                           *)
THEOREM PacketsInStep == Spec => []InStep
<1>1. StreamInv => InStep
  BY DEF StreamInv
<1> QED
  BY <1>1, StreamInvariant, PTL

(* The loop of RequestToSendFile.unpack runs for ever only for a client    *)
(* that hung up before it had written the whole message.                   *)
THEOREM OnlyTheCutOffSpin == Spec => []SpinsOnlyIfCutOff
<1>1. StreamInv => SpinsOnlyIfCutOff
  BY DEF StreamInv
<1> QED
  BY <1>1, StreamInvariant, PTL
=============================================================================
