----------------------------- MODULE ClientProofs -----------------------------
(***************************************************************************)
(* What the client program makes of its files and of the packets it reads: *)
(* me.info stays a sequence of lines with no line of its own making but the*)
(* name, the id and the key, and whatever a process is handed it stays one *)
(* that knows what it sends and sends nothing that needs an id before it   *)
(* has one.                                                                *)
(***************************************************************************)
EXTENDS ClientLogic, SequenceTheorems, WellFoundedInduction, TLAPS

-----------------------------------------------------------------------------
(* Sequences.                                                              *)

(* A set of naturals that is not empty has a least element.                *)
LEMMA Smallest ==
  ASSUME NEW T \in SUBSET Nat, T # {}
  PROVE  \E m \in T : \A n \in T : m <= n
  <1>1. IsWellFoundedOn(OpToRel(<, Nat), Nat)
    BY NatLessThanWellFounded
  <1>2. PICK m \in T : \A n \in T : <<n, m>> \notin OpToRel(<, Nat)
    BY <1>1, WFMin
  <1>3. m \in T
    BY <1>2
  <1>4. ASSUME NEW n \in T PROVE ~(n < m)
    BY <1>2 DEF OpToRel
  <1> QED BY <1>3, <1>4

(* A sequence over a set is one over any larger set.                       *)
LEMMA SeqOfMore ==
  ASSUME NEW S, NEW T, S \subseteq T, NEW s \in Seq(S)
  PROVE  s \in Seq(T)
  OBVIOUS

(* No lines, and no messages.                                              *)
LEMMA EmptyIsSeq == ASSUME NEW S PROVE <<>> \in Seq(S)
  OBVIOUS

(* The recursion that Lines(s) is defined by, up to the length k.          *)
Kept(s, g, k) ==
  g = [n \in 0..k |-> IF n = 0 THEN <<>>
                      ELSE IF s[n] = "blank" THEN g[n - 1] ELSE Append(g[n - 1], s[n])]

(* There is a function with that recursion, up to any length: there is no  *)
(* shortest one without.                                                   *)
LEMMA KeptExists ==
  ASSUME NEW T, NEW s \in Seq(T)
  PROVE  \A k \in 0..Len(s) : \E g : Kept(s, g, k)
  <1> DEFINE Bad == {k \in 0..Len(s) : ~ \E g : Kept(s, g, k)}
  <1>1. SUFFICES ASSUME Bad # {} PROVE FALSE
    OBVIOUS
  <1>2. PICK m \in Bad : \A n \in Bad : m <= n
    <2>1. Bad \in SUBSET Nat
      OBVIOUS
    <2> HIDE DEF Bad
    <2> QED BY <1>1, <2>1, Smallest
  <1>3. m # 0
    <2>1. Kept(s, [n \in 0..0 |-> <<>>], 0)
      BY DEF Kept
    <2> QED BY <2>1, <1>2
  <1>4. m - 1 \in 0..Len(s) /\ m \in 1..Len(s) /\ m - 1 \notin Bad
    BY <1>2, <1>3
  <1>5. PICK g : Kept(s, g, m - 1)
    BY <1>4
  <1> DEFINE Next(f, n) == IF s[n] = "blank" THEN f[n - 1] ELSE Append(f[n - 1], s[n])
             h == [n \in 0..m |-> IF n = m THEN Next(g, m) ELSE g[n]]
  <1>6. ASSUME NEW n \in 0..m PROVE h[n] = IF n = 0 THEN <<>> ELSE Next(h, n)
    <2>1. CASE n = m
      <3>1. n # 0 /\ n - 1 \in 0..m /\ n - 1 # m
        BY <1>4, <2>1
      <3> QED BY <2>1, <3>1
    <2>2. CASE n # m
      <3>1. n \in 0..(m - 1) /\ (n # 0 => n - 1 \in 0..m /\ n - 1 # m)
        BY <1>4, <2>2
      <3>2. h[n] = g[n] /\ (n # 0 => h[n - 1] = g[n - 1])
        BY <2>2, <3>1
      <3>3. g[n] = IF n = 0 THEN <<>> ELSE Next(g, n)
        BY <1>5, <3>1 DEF Kept
      <3> QED BY <3>2, <3>3
    <2> QED BY <2>1, <2>2
  <1>7. h = [n \in 0..m |-> h[n]]
    OBVIOUS
  <1> HIDE DEF h
  <1>8. Kept(s, h, m)
    BY <1>6, <1>7 DEF Kept
  <1> QED BY <1>8, <1>2

(* What that function keeps of s are elements of s.                        *)
LEMMA KeptType ==
  ASSUME NEW T, NEW s \in Seq(T), NEW g, Kept(s, g, Len(s))
  PROVE  \A k \in 0..Len(s) : g[k] \in Seq(T)
  <1> DEFINE Bad == {k \in 0..Len(s) : g[k] \notin Seq(T)}
  <1>1. SUFFICES ASSUME Bad # {} PROVE FALSE
    OBVIOUS
  <1>2. PICK m \in Bad : \A n \in Bad : m <= n
    <2>1. Bad \in SUBSET Nat
      OBVIOUS
    <2> HIDE DEF Bad
    <2> QED BY <1>1, <2>1, Smallest
  <1>3. m # 0
    BY <1>2 DEF Kept
  <1>4. m - 1 \in 0..Len(s) /\ m \in 1..Len(s) /\ m - 1 \notin Bad
    BY <1>2, <1>3
  <1>5. g[m - 1] \in Seq(T) /\ s[m] \in T
    BY <1>4
  <1>6. g[m] = IF s[m] = "blank" THEN g[m - 1] ELSE Append(g[m - 1], s[m])
    BY <1>3, <1>4 DEF Kept
  <1>7. Append(g[m - 1], s[m]) \in Seq(T)
    BY <1>5
  <1> QED BY <1>2, <1>5, <1>6, <1>7

(* Dropping the empty lines adds none.                                     *)
LEMMA LinesType ==
  ASSUME NEW T, NEW s \in Seq(T)
  PROVE  Lines(s) \in Seq(T)
  <1> DEFINE f == CHOOSE g : Kept(s, g, Len(s))
  <1>1. Len(s) \in 0..Len(s)
    OBVIOUS
  <1>2. Kept(s, f, Len(s))
    BY <1>1, KeptExists
  <1>3. Lines(s) = f[Len(s)]
    BY DEF Lines, Kept
  <1> HIDE DEF f
  <1>4. f[Len(s)] \in Seq(T)
    BY <1>1, <1>2, KeptType
  <1> QED BY <1>3, <1>4

(* WriteAtLine leaves lines that were there, and the new ones.             *)
LEMMA WriteAtLineType ==
  ASSUME NEW T, NEW lines \in Seq(T), NEW content \in Seq(T), NEW n \in Nat
  PROVE  WriteAtLine(lines, content, n) \in Seq(T)
  <1> DEFINE cut == IF Len(lines) > n THEN n + 1 ELSE Len(lines)
  <1>1. cut \in 0..Len(lines)
    OBVIOUS
  <1> HIDE DEF cut
  <1>2. \A i \in 1..Len(lines) : lines[i] \in T
    OBVIOUS
  <1>3. SubSeq(lines, 1, cut) \in Seq(T) /\ SubSeq(lines, cut + 1, Len(lines)) \in Seq(T)
    BY <1>1, <1>2, SubSeqProperties
  <1>4. /\ Lines(SubSeq(lines, 1, cut)) \in Seq(T)
        /\ Lines(SubSeq(lines, cut + 1, Len(lines))) \in Seq(T)
    BY <1>3, LinesType
  <1> QED BY <1>4 DEF WriteAtLine, cut

(* So do the three ways ConfigManager writes me.info.                      *)
Words == {"name", "key", "rest", "blank", "part"}

LEMMA WrittenBackType ==
  ASSUME NEW T, Words \subseteq T, NEW lines \in Seq(T), NEW i,
         NEW step \in {"name", "id", "key"}, step = "id" => i \in T
  PROVE  WrittenBack(step, lines, i) \in Seq(T)
  <1>1. <<"name">> \in Seq(T) /\ <<"key", "rest", "blank">> \in Seq(T)
    BY DEF Words
  <1>2. step = "id" => <<i, "blank">> \in Seq(T)
    BY DEF Words
  <1>3. WriteAtLine(lines, <<"name">>, 0) \in Seq(T)
    BY <1>1, WriteAtLineType
  <1>4. SetClientsPrivateKey(lines) \in Seq(T)
    BY <1>1, WriteAtLineType DEF SetClientsPrivateKey
  <1>5. step = "id" => SetClientsUuid(lines, i) \in Seq(T)
    BY <1>2, WriteAtLineType DEF SetClientsUuid
  <1> QED BY <1>3, <1>4, <1>5 DEF WrittenBack

(* And so they do over what another process has written meanwhile.         *)
LEMMA OverwrittenType ==
  ASSUME NEW T, Words \subseteq T, NEW lines \in Seq(T), NEW file \in Seq(T),
         NEW n \in 0..Len(file)
  PROVE  Overwritten(lines, file, n) \in Seq(T)
  <1> DEFINE part == IF Length(lines) < Length(SubSeq(file, 1, n)) THEN <<"part">> ELSE <<>>
  <1>1. part \in Seq(T)
    BY DEF Words
  <1>2. SubSeq(file, n + 1, Len(file)) \in Seq(T)
    <2>1. \A m \in 1..Len(file) : file[m] \in T
      OBVIOUS
    <2> QED BY <2>1, SubSeqProperties
  <1>3. Overwritten(lines, file, n) = lines \o part \o SubSeq(file, n + 1, Len(file))
    BY DEF Overwritten
  <1> HIDE DEF part
  <1> QED BY <1>1, <1>2, <1>3

-----------------------------------------------------------------------------
(* What a process is between two steps.                                    *)

Started(c) == c.at \in {"write", "read", "crcRead", "spin", "exit"}
Active(c) == c.at \in {"write", "read", "crcRead"}

(* Active: its channel is open, and if it has no id yet it has nothing to  *)
(* send but its registration.                                              *)
GoodProcess(c) ==
  /\ c \in Process
  /\ c.at = "off" => c = NewProcess
  /\ c.at = "create" => /\ c.info \in TransferInfo
                        /\ c = [NewProcess EXCEPT !.at = "create", !.info = c.info]
  /\ Started(c) => c.info \in TransferInfo
  /\ Active(c) => c.open
  /\ c.at = "write" <=> c.toSend # <<>>
  /\ c.at = "crcRead" \/ (c.at = "write" /\ c.ret = "crcRead") => c.tries < NUM_OF_ATTEMPTS
  /\ Active(c) /\ c.id = None =>
       /\ c.at # "crcRead" /\ c.ret = "read"
       /\ c.queue \in Seq(RegistrationRequest)
       /\ c.toSend \in Seq(RegistrationRequest)

(* The requests that carry an id.                                          *)
Identified == PublicKeyRequest \cup SendFileRequest \cup ChunkPacket \cup CrcStatusRequest

(* A process as a handler finds it: what it has queued is in R, and if it  *)
(* may still send and has no id, that is registrations only.               *)
Ready(c, R) ==
  /\ c \in Process /\ c.info \in TransferInfo
  /\ c.queue \in Seq(R)
  /\ c.open /\ c.id = None => c.queue \in Seq(RegistrationRequest) /\ c.ret = "read"

(* The client prints Hurray, for what it takes for an approval.            *)
Rejoices(c) == c.at = "exit" /\ c.outcome = "hurray"
Receipt(m) == m # None /\ m.code = "MSG_RECEIVED"

(* d is what a handler may make of c: it runs or has stopped, remembers    *)
(* what it is about, and queues and sends what is in R.                    *)
After(c, d, R) ==
  /\ GoodProcess(d) /\ Started(d) /\ (d.open => c.open)
  /\ Rejoices(d) => Receipt(c.buf)
  /\ d.info = c.info /\ d.id = c.id /\ d.buf = c.buf
  /\ d.queue \in Seq(R) /\ d.toSend \in Seq(R)

-----------------------------------------------------------------------------
(* The messages.                                                           *)

(* A response's code tells what its value is.                              *)
LEMMA ResponseByCode ==
  ASSUME NEW m \in Response
  PROVE  /\ m.code \in {"REGISTRATION_SUCCEEDED", "PUBLIC_KEY_RECEIVED", "MSG_RECEIVED_CRC",
                        "MSG_RECEIVED", "REGISTRATION_FAILED"}
         /\ m.code = "REGISTRATION_SUCCEEDED" => m.val \in Ids
         /\ m.code = "PUBLIC_KEY_RECEIVED" => m.val \in Keys \cup {None}
  BY DEF Response

(* A padded file, or none, is what an upload can carry.                    *)
LEMMA MyFileType ==
  ASSUME NEW c \in Process, c.info \in TransferInfo
  PROVE  MyFile(c) \in Contents /\ MyFile(c).size \in Nat
  <1>1. MyFile(c) \in Contents
    BY DEF MyFile, Contents, TransferInfo
  <1>2. CASE MyFile(c) = NoBytes
    BY <1>1, <1>2 DEF NoBytes
  <1>3. ASSUME NEW f \in Files, MyFile(c) = Padded(f)
        PROVE  MyFile(c).size \in Nat
    <2>1. SizeOf[f] \in Nat
      BY SizeAssumption
    <2> QED BY <1>3, <2>1 DEF Padded, PaddedSize, BLOCK_SIZE
  <1> QED BY <1>1, <1>2, <1>3 DEF Contents

(* The messages of a process that has an id carry it.                      *)
LEMMA MessageTypes ==
  ASSUME NEW c \in Process, c.info \in TransferInfo, c.id \in Ids
  PROVE  /\ PublicKey(c) \in Identified
         /\ \A code \in {"CRC_VALID", "CRC_RESEND", "CRC_ABORT"} :
              CrcStatus(c, code) \in Identified
         /\ c.key # None => Upload(c) \in Seq(Identified) /\ Upload(c) # <<>>
  <1>1. PublicKey(c) \in Identified
    BY DEF PublicKey, PublicKeyRequest, Identified, Process
  <1>2. c.info.file \in FileNames
    BY DEF TransferInfo
  <1>3. \A code \in {"CRC_VALID", "CRC_RESEND", "CRC_ABORT"} :
          CrcStatus(c, code) \in Identified
    BY <1>2 DEF CrcStatus, CrcStatusRequest, Identified
  <1>4. ASSUME c.key # None
        PROVE  Upload(c) \in Seq(Identified) /\ Upload(c) # <<>>
    <2> DEFINE size == ContentOffset + CipherSize(MyFile(c).size)
               head == [code |-> "SEND_FILE", id |-> c.id, file |-> c.info.file,
                        key |-> c.key, data |-> MyFile(c)]
               N == Packets(size)
               up == [n \in 1..N |-> IF n = 1 THEN head ELSE [code |-> "CHUNK"]]
    <2>1. size \in Nat
      BY MyFileType DEF CipherSize, ContentOffset, CLIENT_ID_SIZE, HEADER_SIZE,
                        FILE_NAME_SIZE, BLOCK_SIZE
    <2>2. N \in Nat /\ N >= 1
      <3>1. size >= 1
        BY MyFileType DEF CipherSize, ContentOffset, CLIENT_ID_SIZE, HEADER_SIZE,
                          FILE_NAME_SIZE, BLOCK_SIZE
      <3> HIDE DEF size
      <3> QED BY <2>1, <3>1 DEF Packets, PACKET_SIZE
    <2>3. head \in Identified
      BY <1>2, <1>4, MyFileType DEF SendFileRequest, Identified, Process
    <2>4. [code |-> "CHUNK"] \in Identified
      BY DEF ChunkPacket, Identified
    <2>5. Upload(c) = up
      BY DEF Upload
    <2> HIDE DEF N, head
    <2>6. up \in [1..N -> Identified]
      BY <2>3, <2>4
    <2>7. up \in Seq(Identified)
      BY <2>2, <2>6
    <2>8. Len(up) = N
      BY <2>2, <2>6
    <2> QED BY <2>2, <2>5, <2>7, <2>8
  <1> QED BY <1>1, <1>3, <1>4

-----------------------------------------------------------------------------
(* The steps from one packet to the next.  R is any set of requests with   *)
(* all that carry an id.                                                   *)

(* A process that stops has nothing left to send.                          *)
LEMMA StopsAfter ==
  ASSUME NEW R, NEW c, Ready(c, R), NEW how \in {"hurray", "error", "returned", "killed"},
         how = "hurray" => Receipt(c.buf)
  PROVE  After(c, Stops(c, how), R)
  <1> DEFINE d == Stops(c, how)
  <1>1. d \in Process /\ d.at = "exit"
    <2>1. <<>> \in Seq(Request)
      BY EmptyIsSeq
    <2>2. c \in Process
      BY DEF Ready
    <2>3. d \in Process
      BY <2>1, <2>2, ZenonT(60) DEF Stops, Process
    <2>4. d.at = "exit"
      BY <2>2 DEF Stops, Process
    <2> QED BY <2>3, <2>4
  <1>2. /\ d.info = c.info /\ d.id = c.id /\ d.buf = c.buf /\ d.queue = c.queue
        /\ d.toSend = <<>> /\ ~d.open /\ d.outcome = how
    BY DEF Ready, Stops, Process
  <1> HIDE DEF d
  <1>3. After(c, d, R)
    BY <1>1, <1>2, EmptyIsSeq DEF Ready, After, GoodProcess, Started, Active, Rejoices
  <1> QED BY <1>3 DEF d

(* Back in Run's loop with nothing to send.                                *)
LEMMA LoopsAfter ==
  ASSUME NEW R, NEW c, Ready(c, R), c.toSend = <<>>
  PROVE  After(c, Loops(c), R)
  <1>1. CASE ~c.open
    BY <1>1, StopsAfter DEF Loops
  <1>2. CASE c.open
    <2> DEFINE d == [c EXCEPT !.at = "read"]
    <2>1. /\ d \in Process /\ d.at = "read" /\ d.info = c.info /\ d.id = c.id
          /\ d.buf = c.buf /\ d.queue = c.queue /\ d.toSend = <<>> /\ d.open
          /\ d.ret = c.ret
      BY <1>2 DEF Ready, Process
    <2>2. Loops(c) = d
      BY <1>2 DEF Loops
    <2> HIDE DEF d
    <2> QED BY <1>2, <2>1, <2>2, EmptyIsSeq
            DEF Ready, After, GoodProcess, Started, Active, Rejoices
  <1> QED BY <1>1, <1>2

(* A message that cannot be sent closes the channel.                       *)
LEMMA NotSentAfter ==
  ASSUME NEW R, NEW c, Ready(c, R), NEW ret \in {"read", "crcRead", "exit"}
  PROVE  After(c, NotSent(c, ret), R) /\ ~Active(NotSent(c, ret))
  <1> DEFINE d == [c EXCEPT !.open = FALSE, !.toSend = <<>>]
             e == [d EXCEPT !.at = "spin"]
  <1>1. /\ d \in Process /\ d.info = c.info /\ d.id = c.id /\ d.buf = c.buf
        /\ d.queue = c.queue /\ d.toSend = <<>> /\ ~d.open
    BY EmptyIsSeq DEF Ready, Process
  <1>2. Ready(d, R)
    BY <1>1 DEF Ready
  <1>3. NotSent(c, ret) = CASE ret = "read" -> Loops(d)
                            [] ret = "crcRead" -> e
                            [] ret = "exit" -> Stops(d, "error")
    BY DEF NotSent
  <1>4. /\ e \in Process /\ e.info = d.info /\ e.id = d.id /\ e.buf = d.buf
        /\ e.queue = d.queue /\ e.toSend = <<>> /\ ~e.open /\ e.at = "spin"
    BY <1>1, ZenonT(60) DEF Process
  <1> HIDE DEF d, e
  <1>5. Loops(d) = Stops(d, "returned")
    BY <1>1 DEF Loops
  <1>6. NotSent(c, ret) \in {e, Stops(d, "returned"), Stops(d, "error")}
    BY <1>3, <1>5
  <1>7. /\ After(d, Stops(d, "returned"), R) /\ ~Active(Stops(d, "returned"))
        /\ After(d, Stops(d, "error"), R) /\ ~Active(Stops(d, "error"))
    BY <1>1, <1>2, StopsAfter DEF Stops, Process, Active
  <1>8. After(d, e, R) /\ ~Active(e)
    BY <1>2, <1>4 DEF Ready, After, GoodProcess, Started, Active, Rejoices
  <1> QED BY <1>1, <1>6, <1>7, <1>8 DEF After

(* A message that goes out packet by packet.                               *)
LEMMA SendsAfter ==
  ASSUME NEW R, R \subseteq Request, NEW c, Ready(c, R), NEW ret \in {"read", "crcRead", "exit"}, NEW msgs,
         c.open => /\ msgs \in Seq(R) /\ msgs # <<>>
                   /\ ret = "crcRead" => c.tries < NUM_OF_ATTEMPTS
                   /\ c.id = None => ret = "read" /\ msgs \in Seq(RegistrationRequest)
  PROVE  After(c, Sends(c, msgs, ret), R)
  <1>1. CASE ~c.open
    BY <1>1, NotSentAfter DEF Sends
  <1>2. CASE c.open
    <2> DEFINE d == [c EXCEPT !.at = "write", !.toSend = msgs, !.ret = ret]
    <2>1. msgs \in Seq(Request)
      BY <1>2, SeqOfMore
    <2>2. /\ d \in Process /\ d.at = "write" /\ d.info = c.info /\ d.id = c.id
          /\ d.buf = c.buf /\ d.queue = c.queue /\ d.toSend = msgs /\ d.open
          /\ d.ret = ret /\ d.tries = c.tries
      BY <1>2, <2>1, ZenonT(60) DEF Ready, Process
    <2>3. Sends(c, msgs, ret) = d
      BY <1>2 DEF Sends
    <2> HIDE DEF d
    <2> QED BY <1>2, <2>2, <2>3 DEF Ready, After, GoodProcess, Started, Active, Rejoices
  <1> QED BY <1>1, <1>2

(* The front of the queue is sent, whatever is in it.                      *)
LEMMA SendFrontAfter ==
  ASSUME NEW R, R \subseteq Request, NEW c, Ready(c, R), c.toSend = <<>>
  PROVE  After(c, SendFront(c), R)
  <1>1. CASE c.queue # <<>>
    <2>1. <<Head(c.queue)>> \in Seq(R) /\ <<Head(c.queue)>> # <<>>
      BY <1>1 DEF Ready
    <2>2. c.open /\ c.id = None => <<Head(c.queue)>> \in Seq(RegistrationRequest)
      BY <1>1 DEF Ready
    <2>3. SendFront(c) = Sends(c, <<Head(c.queue)>>, "read")
      BY <1>1 DEF SendFront
    <2> QED BY <2>1, <2>2, <2>3, SendsAfter
  <1>2. CASE c.queue = <<>>
    BY <1>2, LoopsAfter DEF SendFront
  <1> QED BY <1>1, <1>2

(* Two processes that are the same but for what they queue and send.       *)
Alike(c, d) == d.info = c.info /\ d.id = c.id /\ d.buf = c.buf /\ (d.open <=> c.open)

(* What follows on a process follows on one that is like it.               *)
LEMMA AfterAlike ==
  ASSUME NEW R, NEW c, NEW d, NEW e, Alike(c, d), After(d, e, R)
  PROVE  After(c, e, R)
  BY DEF Alike, After

(* Another message in the queue.                                           *)
LEMMA AddMessageAfter ==
  ASSUME NEW R, R \subseteq Request, NEW c, Ready(c, R), c.toSend = <<>>, NEW m \in R,
         c.open /\ c.id = None => m \in RegistrationRequest
  PROVE  After(c, AddMessageToQueue(c, m), R)
  <1> DEFINE d == [[c EXCEPT !.queue = Append(@, m)] EXCEPT !.attempts = NUM_OF_ATTEMPTS]
  <1>1. Append(c.queue, m) \in Seq(R) /\ Append(c.queue, m) \in Seq(Request)
    BY SeqOfMore DEF Ready
  <1>2. c.open /\ c.id = None => Append(c.queue, m) \in Seq(RegistrationRequest)
    BY DEF Ready
  <1>3. d \in Process
    <2>1. NUM_OF_ATTEMPTS \in 0..NUM_OF_ATTEMPTS
      BY DEF NUM_OF_ATTEMPTS
    <2> QED BY <1>1, <2>1 DEF Ready, Process
  <1>4. /\ Alike(c, d) /\ d.queue = Append(c.queue, m)
        /\ d.toSend = <<>> /\ d.ret = c.ret
    BY DEF Ready, Alike, Process
  <1>5. AddMessageToQueue(c, m) = SendFront(d)
    BY DEF AddMessageToQueue, SendNextMessage
  <1> HIDE DEF d
  <1>6. Ready(d, R)
    BY <1>1, <1>2, <1>3, <1>4 DEF Ready, Alike
  <1> QED BY <1>4, <1>5, <1>6, SendFrontAfter, AfterAlike

(* pop_front().                                                            *)
LEMMA PopFrontReady ==
  ASSUME NEW R, R \subseteq Request, NEW c, Ready(c, R)
  PROVE  /\ Ready(PopFront(c), R) /\ Alike(c, PopFront(c))
         /\ PopFront(c).toSend = c.toSend /\ PopFront(c).key = c.key
  <1> DEFINE q == IF c.queue = <<>> THEN c.queue ELSE Tail(c.queue)
  <1>1. q \in Seq(R)
    BY DEF Ready
  <1>2. c.open /\ c.id = None => q \in Seq(RegistrationRequest)
    BY DEF Ready
  <1>3. PopFront(c) = [c EXCEPT !.queue = q]
    BY DEF PopFront
  <1> HIDE DEF q
  <1>4. q \in Seq(Request)
    BY <1>1, SeqOfMore
  <1>5. /\ PopFront(c) \in Process /\ Alike(c, PopFront(c)) /\ PopFront(c).queue = q
        /\ PopFront(c).toSend = c.toSend /\ PopFront(c).ret = c.ret
        /\ PopFront(c).key = c.key
    BY <1>3, <1>4 DEF Ready, Alike, Process
  <1> QED BY <1>1, <1>2, <1>5 DEF Ready, Alike

(* The two answers to a checksum, for a process that has an id, or whose   *)
(* channel is closed.                                                      *)
LEMMA CrcAnswersAfter ==
  ASSUME NEW R, R \subseteq Request, Identified \subseteq R,
         NEW c, Ready(c, R), c.open => c.id \in Ids
  PROVE  After(c, AsksAgain(c), R) /\ After(c, Accepts(c), R)
  <1>1. c.open => c.id # None
    BY IdAssumption
  <1>2. ASSUME NEW code \in {"CRC_VALID", "CRC_RESEND", "CRC_ABORT"}, c.open
        PROVE  <<CrcStatus(c, code)>> \in Seq(R) /\ <<CrcStatus(c, code)>> # <<>>
    <2>1. CrcStatus(c, code) \in R
      BY <1>2, MessageTypes DEF Ready
    <2> QED BY <2>1
  <1>3. After(c, Accepts(c), R)
    BY <1>1, <1>2, SendsAfter DEF Accepts
  <1>4. CASE c.tries < NUM_OF_ATTEMPTS
    BY <1>1, <1>2, <1>3, <1>4, SendsAfter DEF AsksAgain
  <1>5. CASE ~(c.tries < NUM_OF_ATTEMPTS)
    BY <1>1, <1>2, <1>3, <1>5, SendsAfter DEF AsksAgain
  <1> QED BY <1>3, <1>4, <1>5

(* What the loop of HandelMessageReceivedWithCrc does with an answer.      *)
LEMMA AfterResendAfter ==
  ASSUME NEW R, R \subseteq Request, Identified \subseteq R,
         NEW c, Ready(c, R), c.open => c.id \in Ids, c.tries < NUM_OF_ATTEMPTS
  PROVE  After(c, AfterResend(c), R)
  <1> DEFINE d == [c EXCEPT !.tries = @ + 1]
  <1>1. d \in Process
    <2>1. c \in Process /\ c.tries + 1 \in 0..NUM_OF_ATTEMPTS
      BY DEF Ready, Process, NUM_OF_ATTEMPTS
    <2> QED BY <2>1, ZenonT(60) DEF Process
  <1>2. Alike(c, d) /\ d.queue = c.queue /\ d.ret = c.ret
    BY DEF Ready, Alike, Process
  <1>3. AfterResend(c) \in {AsksAgain(c), Accepts(c), AsksAgain(d)}
    BY DEF AfterResend
  <1> HIDE DEF d
  <1>4. Ready(d, R) /\ (d.open => d.id \in Ids)
    BY <1>1, <1>2 DEF Ready, Alike
  <1>5. After(d, AsksAgain(d), R)
    BY <1>4, CrcAnswersAfter
  <1> QED BY <1>2, <1>3, <1>5, CrcAnswersAfter, AfterAlike

-----------------------------------------------------------------------------
(* The handlers.                                                           *)

(* A process that reads an answer: it has sent all it had to, and without  *)
(* an id it reads only the two answers to a registration.                  *)
Answered(c, R) ==
  /\ Ready(c, R) /\ c.toSend = <<>> /\ c.buf \in Response
  /\ c.open /\ c.id = None =>
       c.buf.code \in {"REGISTRATION_SUCCEEDED", "REGISTRATION_FAILED"}

(* pop_front() of an empty queue may kill the process.                     *)
LEMMA MayDieAfter ==
  ASSUME NEW R, NEW c, Ready(c, R), NEW d \in MayDie(c)
  PROVE  After(c, d, R)
  BY StopsAfter DEF MayDie

(* The session key has come: the file goes out, encrypted with it.         *)
LEMMA SymmetricKeyReceivedAfter ==
  ASSUME NEW R, R \subseteq Request, Identified \subseteq R, NEW c, Answered(c, R),
         c.buf.code = "PUBLIC_KEY_RECEIVED", NEW d \in SymmetricKeyReceived(c)
  PROVE  After(c, d, R)
  <1> DEFINE e == [PopFront(c) EXCEPT !.key = c.buf.val]
  <1>1. Ready(c, R) /\ c.buf.val \in Keys \cup {None} /\ (c.open => c.id \in Ids)
    BY ResponseByCode DEF Answered, Ready, Process
  <1>2. Ready(PopFront(c), R) /\ Alike(c, PopFront(c))
    BY <1>1, PopFrontReady
  <1>3. /\ e \in Process /\ Alike(PopFront(c), e) /\ e.queue = PopFront(c).queue
        /\ e.ret = PopFront(c).ret /\ e.key = c.buf.val
    BY <1>1, <1>2 DEF Ready, Alike, Process
  <1>4. d \in {Stops(c, "killed"), Sends(e, Upload(e), "read")} \cup MayDie(c)
    BY DEF SymmetricKeyReceived
  <1>5. d = Sends(e, Upload(e), "read") => c.buf.val # None \/ d = Stops(c, "killed") \/ d \in MayDie(c)
    BY DEF SymmetricKeyReceived
  <1> HIDE DEF e
  <1>6. Ready(e, R) /\ Alike(c, e)
    BY <1>2, <1>3 DEF Ready, Alike
  <1>7. ASSUME c.buf.val # None
        PROVE  After(c, Sends(e, Upload(e), "read"), R)
    <2>1. e.open => e.id \in Ids /\ e.id # None
      BY <1>1, <1>6, IdAssumption DEF Alike
    <2>2. e.open => Upload(e) \in Seq(Identified) /\ Upload(e) # <<>>
      BY <1>3, <1>6, <1>7, <2>1, MessageTypes DEF Ready
    <2>3. e.open => Upload(e) \in Seq(R)
      BY <2>2, SeqOfMore
    <2>4. After(e, Sends(e, Upload(e), "read"), R)
      BY <1>6, <2>1, <2>2, <2>3, SendsAfter
    <2> QED BY <1>6, <2>4, AfterAlike
  <1> QED BY <1>1, <1>4, <1>5, <1>7, StopsAfter, MayDieAfter

(* A checksum has come.                                                    *)
LEMMA MessageReceivedWithCrcAfter ==
  ASSUME NEW R, R \subseteq Request, Identified \subseteq R, NEW c, Answered(c, R),
         c.buf.code = "MSG_RECEIVED_CRC", NEW d \in MessageReceivedWithCrc(c)
  PROVE  After(c, d, R)
  <1>1. Ready(c, R) /\ (c.open => c.id \in Ids)
    BY DEF Answered, Ready, Process
  <1>2. Ready(PopFront(c), R) /\ Alike(c, PopFront(c))
    BY <1>1, PopFrontReady
  <1>3. d \in {Accepts(PopFront(c)), AsksAgain(PopFront(c))} \cup MayDie(c)
    BY DEF MessageReceivedWithCrc
  <1>4. PopFront(c).open => PopFront(c).id \in Ids
    BY <1>1, <1>2 DEF Alike
  <1> QED BY <1>1, <1>2, <1>3, <1>4, CrcAnswersAfter, AfterAlike, MayDieAfter

(* The file is stored.                                                     *)
LEMMA MessageReceivedAfter ==
  ASSUME NEW R, R \subseteq Request, NEW c, Ready(c, R), Receipt(c.buf),
         NEW d \in MessageReceived(c)
  PROVE  After(c, d, R)
  <1>1. Ready(PopFront(c), R) /\ Alike(c, PopFront(c))
    BY PopFrontReady
  <1>2. d \in {Stops(PopFront(c), "hurray")} \cup MayDie(c)
    BY DEF MessageReceived
  <1>3. Receipt(PopFront(c).buf)
    BY <1>1 DEF Alike
  <1> QED BY <1>1, <1>2, <1>3, StopsAfter, AfterAlike, MayDieAfter

(* The server failed: the front of the queue is sent again, three times.   *)
LEMMA RegistrationFailedAfter ==
  ASSUME NEW R, R \subseteq Request, NEW c, Ready(c, R), c.toSend = <<>>,
         NEW d \in RegistrationFailed(c)
  PROVE  After(c, d, R)
  <1>1. CASE c.attempts = 0
    <2>1. Ready(PopFront(c), R) /\ Alike(c, PopFront(c))
      BY PopFrontReady
    <2>2. d \in {Stops(PopFront(c), "error")} \cup MayDie(c)
      BY <1>1 DEF RegistrationFailed
    <2> QED BY <2>1, <2>2, StopsAfter, AfterAlike, MayDieAfter
  <1>2. CASE c.attempts # 0
    <2> DEFINE e == [c EXCEPT !.attempts = @ - 1]
    <2>1. c.attempts - 1 \in 0..NUM_OF_ATTEMPTS
      BY <1>2 DEF Ready, Process, NUM_OF_ATTEMPTS
    <2>2. e \in Process
      BY <2>1 DEF Ready, Process
    <2>3. Alike(c, e) /\ e.queue = c.queue /\ e.ret = c.ret /\ e.toSend = c.toSend
      BY DEF Ready, Alike, Process
    <2>4. d \in {SendFront(e)} \cup MayDie(c)
      BY <1>2 DEF RegistrationFailed
    <2> HIDE DEF e
    <2>5. Ready(e, R)
      BY <2>2, <2>3 DEF Ready, Alike
    <2> QED BY <2>3, <2>4, <2>5, SendFrontAfter, AfterAlike, MayDieAfter
  <1> QED BY <1>1, <1>2

(* All of m_HandlersMap but the one that writes me.info.                   *)
LEMMA HandlersAfter ==
  ASSUME NEW R, R \subseteq Request, Identified \subseteq R, NEW c, Answered(c, R),
         c.buf.code # "REGISTRATION_SUCCEEDED", NEW d \in Handlers(c)
  PROVE  After(c, d, R)
  <1>1. c.buf.code \in {"PUBLIC_KEY_RECEIVED", "MSG_RECEIVED_CRC", "MSG_RECEIVED",
                        "REGISTRATION_FAILED"}
    BY ResponseByCode DEF Answered
  <1>2. CASE c.buf.code = "PUBLIC_KEY_RECEIVED"
    BY <1>2, SymmetricKeyReceivedAfter DEF Handlers
  <1>3. CASE c.buf.code = "MSG_RECEIVED_CRC"
    BY <1>3, MessageReceivedWithCrcAfter DEF Handlers
  <1>4. CASE c.buf.code = "MSG_RECEIVED"
    <2>1. Receipt(c.buf)
      BY <1>4, IdAssumption, ClientAssumption DEF Answered, Receipt
    <2> QED BY <1>4, <2>1, MessageReceivedAfter DEF Handlers, Answered
  <1>5. CASE c.buf.code = "REGISTRATION_FAILED"
    BY <1>5, RegistrationFailedAfter DEF Handlers, Answered
  <1> QED BY <1>1, <1>2, <1>3, <1>4, <1>5

(* Run's loop: a registration that was approved gives the process its id   *)
(* and has it write me.info; after every other answer it has nothing to do *)
(* to the file.                                                            *)
LEMMA DispatchAfter ==
  ASSUME NEW R, R \subseteq Request, Identified \subseteq R, NEW p \in Conns, NEW c,
         Ready(c, R), c.toSend = <<>>, c.buf # None => Answered(c, R), Dispatch(p, c)
  PROVE  \E d : /\ cl' = [cl EXCEPT ![p] = d]
                /\ Active(d) => ~Receipt(c.buf)
                /\ \/ After(c, d, R) /\ UNCHANGED todo
                   \/ /\ c.buf # None /\ c.buf.code = "REGISTRATION_SUCCEEDED"
                      /\ After([c EXCEPT !.id = c.buf.val], d, R)
                      /\ todo' = [todo EXCEPT ![p] = SetClientId]
  <1>1. CASE c.buf = None /\ cl' = [cl EXCEPT ![p] = Loops(c)] /\ UNCHANGED todo
    BY <1>1, LoopsAfter DEF Receipt
  <1>2. CASE c.buf # None /\ RegistrationApproved(p, c)
    <2>1. /\ c.buf.code = "REGISTRATION_SUCCEEDED" /\ c.buf.val \in Ids
          /\ ~Receipt(c.buf)
      BY <1>2, ResponseByCode DEF RegistrationApproved, Answered, Receipt
    <2>2. CASE cl' = [cl EXCEPT ![p] = Stops(c, "killed")] /\ UNCHANGED todo
      BY <2>1, <2>2, StopsAfter
    <2> DEFINE e == [PopFront(c) EXCEPT !.id = c.buf.val]
               named == [c EXCEPT !.id = c.buf.val]
               d == AddMessageToQueue(e, PublicKey(e))
    <2>3. CASE /\ cl' = [cl EXCEPT ![p] = d]
               /\ todo' = [todo EXCEPT ![p] = SetClientId]
      <3>1. /\ Ready(PopFront(c), R) /\ Alike(c, PopFront(c))
            /\ PopFront(c).toSend = <<>>
        BY PopFrontReady
      <3>2. e \in Process /\ e.id = c.buf.val /\ e.toSend = <<>> /\ e.queue = PopFront(c).queue
        BY <2>1, <3>1 DEF Ready, Process
      <3>3. e.info = c.info /\ e.buf = c.buf /\ (e.open <=> c.open)
        BY <2>1, <3>1 DEF Ready, Alike, Process
      <3>4. named.id = c.buf.val /\ named.info = c.info /\ named.buf = c.buf /\ (named.open <=> c.open)
        BY DEF Ready, Process
      <3> HIDE DEF e, named
      <3>5. e.id \in Ids /\ e.id # None
        BY <2>1, <3>2, IdAssumption
      <3>6. Ready(e, R)
        BY <3>1, <3>2, <3>3, <3>5 DEF Ready
      <3>7. PublicKey(e) \in R
        BY <3>2, <3>5, <3>6, MessageTypes DEF Ready
      <3>8. After(e, d, R)
        BY <3>2, <3>5, <3>6, <3>7, AddMessageAfter
      <3> HIDE DEF d
      <3>9. After(named, d, R)
        BY <3>2, <3>3, <3>4, <3>8, AfterAlike DEF Alike
      <3> QED BY <1>2, <2>1, <2>3, <3>9 DEF named
    <2> QED BY <1>2, <2>2, <2>3 DEF RegistrationApproved
  <1>3. CASE /\ c.buf # None /\ c.buf.code # "REGISTRATION_SUCCEEDED"
             /\ \E d \in Handlers(c) : cl' = [cl EXCEPT ![p] = d]
             /\ UNCHANGED todo
    <2>1. PICK d \in Handlers(c) : cl' = [cl EXCEPT ![p] = d]
      BY <1>3
    <2>2. After(c, d, R)
      BY <1>3, HandlersAfter
    <2>3. Receipt(c.buf) => d \in MessageReceived(c)
      BY DEF Handlers, Receipt
    <2>4. d \in MessageReceived(c) => ~Active(d)
      <3>1. PopFront(c) \in Process /\ c \in Process
        BY PopFrontReady DEF Ready
      <3>2. Stops(PopFront(c), "hurray").at = "exit" /\ Stops(c, "killed").at = "exit"
        BY <3>1 DEF Stops, Process
      <3> QED BY <3>2 DEF MessageReceived, MayDie, Active
    <2> QED BY <1>3, <2>1, <2>2, <2>3, <2>4
  <1> QED BY <1>1, <1>2, <1>3 DEF Dispatch

-----------------------------------------------------------------------------
(* The actions.  What a process can get hold of is bounded by three sets:  *)
(* its requests are in R, the answers it is given in A, and the lines of   *)
(* its me.info in T.  With everything for R, A and T this is the type of a *)
(* process; with less it tells where its ids come from.                    *)

RegistrationAnswer ==
  {m \in Response : m.code \in {"REGISTRATION_SUCCEEDED", "REGISTRATION_FAILED"}}

Scope(p, R, A, T) ==
  /\ R \subseteq Request /\ Identified \subseteq R
  /\ A \subseteq Response /\ Memory \subseteq A \cup {None}
  /\ T \subseteq Line /\ Words \subseteq T
  /\ \A u \in InfosOf[Dir(p)] : HasName(u) =>
       [code |-> "REGISTRATION", name |-> u.name] \in R
  /\ \A m \in A : m.code = "REGISTRATION_SUCCEEDED" => m.val \in T

Within(c, R, A, T) ==
  /\ c.queue \in Seq(R) /\ c.toSend \in Seq(R)
  /\ c.buf \in A \cup {None}
  /\ c.id # None => c.id \in T
  /\ c.at = "create" => Registration(c) \in R

(* What a process is given to read.                                        *)
Given(p, A) ==
  /\ toClient[p] \in Seq(A)
  /\ Active(cl[p]) /\ cl[p].id = None => toClient[p] \in Seq(RegistrationAnswer)

(* The process at p becomes d.                                             *)
Becomes(p, d, R, A, T) ==
  cl' = [cl EXCEPT ![p] = d] /\ GoodProcess(d) /\ Within(d, R, A, T)

(* What it has read of me.info and what is there keeps to T.               *)
FilesWithin(p, T) == fileContent[p] \in Seq(T) /\ meInfo[Dir(p)] \in Seq(T) \cup {None}

(* What a step of p does to me.info keeps to T, too.                       *)
FilesMove(p, T) ==
  /\ \E steps \in Seq(FileStep) : todo' = [todo EXCEPT ![p] = steps]
  /\ \E lines \in Seq(T) : fileContent' = [fileContent EXCEPT ![p] = lines]
  /\ \/ UNCHANGED meInfo
     \/ \E lines \in Seq(T) : meInfo' = [meInfo EXCEPT ![Dir(p)] = lines]

(* From one packet to the next it does not touch the file, but may get     *)
(* something to do to it, or is killed.                                    *)
FileWork(p, d) ==
  /\ UNCHANGED meInfo
  /\ \/ UNCHANGED <<todo, fileContent>>
     \/ d.id # None /\ todo' = [todo EXCEPT ![p] = SetClientId] /\ UNCHANGED fileContent
     \/ /\ todo' = [todo EXCEPT ![p] = <<>>]
        /\ fileContent' = [fileContent EXCEPT ![p] = <<>>]

(* What it remembers of what it read, and what it does not outlive.        *)
Listens(p, d) ==
  /\ d.info = cl[p].info
  /\ \/ d.buf = cl[p].buf
     \/ Read(p) /\ d.buf = Head(toClient[p])
     \/ ReadFails(p) /\ d.buf \in Memory
  /\ Rejoices(d) => Active(cl[p]) /\ Receipt(d.buf) /\ d.id = cl[p].id
  /\ Active(d) => (d.id = cl[p].id \/ Read(p)) /\ (Read(p) => ~Receipt(d.buf))

(* So it goes on: it runs still, or has stopped and not yet closed.        *)
GoesOn(p, R, A, T) ==
  \E d : /\ Becomes(p, d, R, A, T) /\ Started(d) /\ Started(cl[p])
         /\ Active(d) => Active(cl[p])
         /\ d.id = None => cl[p].id = None
         /\ Listens(p, d) /\ FileWork(p, d)

(* Who has created me.info or found it there finds it there ever after; and*)
(* a process that has an id to write to it has it in m_id.                 *)
FileOK(p) ==
  /\ todo[p] \in Seq(FileStep)
  /\ cl[p].at \in {"off", "stopped"} => todo[p] = <<>>
  /\ \/ Started(cl[p]) \/ (todo[p] # <<>> /\ Head(todo[p]) # "create")
     \/ cl[p].at = "create" /\ todo[p] = <<>>
     => meInfo[Dir(p)] # None
  /\ \A n \in 1..Len(todo[p]) : todo[p][n] = "id" => cl[p].id # None

ClientOK(p) == GoodProcess(cl[p]) /\ FileOK(p)

(* What comes out of a handler is within what went in.                     *)
LEMMA AfterWithin ==
  ASSUME NEW R, NEW A, NEW T, NEW c, NEW d, After(c, d, R),
         c.buf \in A \cup {None}, c.id # None => c.id \in T
  PROVE  GoodProcess(d) /\ Started(d) /\ Within(d, R, A, T)
  BY DEF After, Within, Started

(* Run's loop keeps a process within.                                      *)
LEMMA DispatchWithin ==
  ASSUME NEW p \in Conns, NEW R, NEW A, NEW T, Scope(p, R, A, T),
         NEW c, Ready(c, R), c.toSend = <<>>, c.buf # None => Answered(c, R),
         c.buf \in A \cup {None}, c.id # None => c.id \in T, Dispatch(p, c)
  PROVE  \E d : /\ Becomes(p, d, R, A, T) /\ Started(d) /\ (d.open => c.open)
                /\ d.id = None => c.id = None
                /\ d.buf = c.buf /\ d.info = c.info
                /\ Rejoices(d) => Receipt(c.buf) /\ d.id = c.id
                /\ Active(d) => ~Receipt(c.buf)
                /\ FileWork(p, d)
  <1>1. PICK d :
          /\ cl' = [cl EXCEPT ![p] = d]
          /\ Active(d) => ~Receipt(c.buf)
          /\ \/ After(c, d, R) /\ UNCHANGED todo
             \/ /\ c.buf # None /\ c.buf.code = "REGISTRATION_SUCCEEDED"
                /\ After([c EXCEPT !.id = c.buf.val], d, R)
                /\ todo' = [todo EXCEPT ![p] = SetClientId]
    BY DispatchAfter DEF Scope
  <1>2. UNCHANGED <<meInfo, fileContent>>
    BY DEF Dispatch
  <1>3. CASE After(c, d, R) /\ UNCHANGED todo
    BY <1>1, <1>2, <1>3, AfterWithin DEF Becomes, After, FileWork
  <1>4. CASE /\ c.buf # None /\ c.buf.code = "REGISTRATION_SUCCEEDED"
             /\ After([c EXCEPT !.id = c.buf.val], d, R)
             /\ todo' = [todo EXCEPT ![p] = SetClientId]
    <2> DEFINE e == [c EXCEPT !.id = c.buf.val]
    <2>1. c.buf.val \in T /\ c.buf.val \in Ids
      BY <1>4, ResponseByCode DEF Answered, Scope
    <2>2. e.buf = c.buf /\ e.id = c.buf.val /\ (e.open <=> c.open) /\ e.info = c.info
      BY DEF Ready, Process
    <2>3. After(e, d, R)
      BY <1>4
    <2> HIDE DEF e
    <2>4. GoodProcess(d) /\ Started(d) /\ Within(d, R, A, T)
      BY <2>1, <2>2, <2>3, AfterWithin
    <2>5. d.id = c.buf.val /\ d.id # None /\ (d.open => c.open)
      BY <2>1, <2>2, <2>3, IdAssumption DEF After
    <2>6. d.buf = c.buf /\ d.info = c.info /\ ~Rejoices(d)
      BY <1>4, <2>2, <2>3 DEF After, Receipt
    <2>7. FileWork(p, d)
      BY <1>2, <1>4, <2>5 DEF FileWork
    <2> QED BY <1>1, <2>4, <2>5, <2>6, <2>7 DEF Becomes
  <1> QED BY <1>1, <1>3, <1>4

(* Read, and Read that fails.                                              *)
LEMMA ReadGoesOn ==
  ASSUME NEW p \in Conns, NEW R, NEW A, NEW T, Scope(p, R, A, T), ClientOK(p), Given(p, A),
         Within(cl[p], R, A, T), Read(p) \/ ReadFails(p)
  PROVE  GoesOn(p, R, A, T)
  <1>1. /\ cl[p] \in Process /\ cl[p].at = "read" /\ cl[p].open /\ cl[p].toSend = <<>>
        /\ cl[p].info \in TransferInfo /\ Active(cl[p]) /\ Started(cl[p])
        /\ cl[p].id = None => cl[p].queue \in Seq(RegistrationRequest) /\ cl[p].ret = "read"
    BY DEF Read, ReadFails, ClientOK, GoodProcess, Active, Started
  <1>2. CASE Read(p)
    <2> DEFINE m == Head(toClient[p])
               c == [cl[p] EXCEPT !.buf = m]
    <2>1. m \in A /\ (cl[p].id = None => m \in RegistrationAnswer)
      BY <1>1, <1>2 DEF Read, ClientRecv, Given
    <2>2. m \in Response
      BY <2>1 DEF Scope
    <2> HIDE DEF m
    <2>3. /\ c \in Process /\ c.buf = m /\ c.id = cl[p].id /\ c.toSend = <<>> /\ c.open
          /\ c.info = cl[p].info /\ c.queue = cl[p].queue /\ c.ret = cl[p].ret
      BY <1>1, <2>2 DEF Process
    <2>4. Dispatch(p, c)
      BY <1>2 DEF Read, m
    <2> HIDE DEF c
    <2>5. Ready(c, R)
      BY <1>1, <2>3 DEF Ready, Within
    <2>6. Answered(c, R)
      BY <2>1, <2>2, <2>3, <2>5 DEF Answered, RegistrationAnswer
    <2>7. c.id # None => c.id \in T
      BY <2>3 DEF Within
    <2>8. PICK d : /\ Becomes(p, d, R, A, T) /\ Started(d) /\ (d.open => c.open)
                   /\ d.id = None => c.id = None
                   /\ d.buf = c.buf /\ d.info = c.info
                   /\ Rejoices(d) => Receipt(c.buf) /\ d.id = c.id
                   /\ Active(d) => ~Receipt(c.buf)
                   /\ FileWork(p, d)
      BY <2>1, <2>3, <2>4, <2>5, <2>6, <2>7, DispatchWithin
    <2>9. Listens(p, d)
      BY <1>1, <1>2, <2>3, <2>8 DEF Listens, m
    <2> QED BY <1>1, <2>3, <2>8, <2>9 DEF GoesOn
  <1>3. CASE ReadFails(p)
    <2>1. PICK b \in IF cl[p].buf = None THEN Memory ELSE {cl[p].buf} :
            Dispatch(p, [cl[p] EXCEPT !.open = FALSE, !.buf = b])
      BY <1>3 DEF ReadFails
    <2> DEFINE c == [cl[p] EXCEPT !.open = FALSE, !.buf = b]
    <2>2. b \in A \cup {None} /\ b \in Response \cup {None}
      BY <2>1 DEF Scope, Within
    <2>3. /\ c \in Process /\ c.buf = b /\ c.id = cl[p].id /\ c.toSend = <<>> /\ ~c.open
          /\ c.info = cl[p].info /\ c.queue = cl[p].queue
      BY <1>1, <2>2 DEF Process
    <2>4. Dispatch(p, c)
      BY <2>1
    <2> HIDE DEF c
    <2>5. Ready(c, R)
      BY <1>1, <2>3 DEF Ready, Within
    <2>6. c.buf # None => Answered(c, R)
      BY <2>2, <2>3, <2>5 DEF Answered
    <2>7. c.id # None => c.id \in T
      BY <2>3 DEF Within
    <2>8. PICK d : /\ Becomes(p, d, R, A, T) /\ Started(d) /\ (d.open => c.open)
                   /\ d.id = None => c.id = None
                   /\ d.buf = c.buf /\ d.info = c.info
                   /\ Rejoices(d) => Receipt(c.buf) /\ d.id = c.id
                   /\ Active(d) => ~Receipt(c.buf)
                   /\ FileWork(p, d)
      BY <2>2, <2>3, <2>4, <2>5, <2>6, <2>7, DispatchWithin
    <2>9. ~Active(d) /\ ~Read(p)
      <3>1. ~d.open
        BY <2>3, <2>8
      <3>2. ~Active(d)
        BY <2>8, <3>1 DEF Becomes, GoodProcess
      <3> QED BY <1>3, <3>2 DEF ReadFails, Read, ClientRecvFails, ClientRecv
    <2>10. d.buf = cl[p].buf \/ d.buf \in Memory
      BY <2>1, <2>3, <2>8
    <2>11. Listens(p, d)
      BY <1>1, <1>3, <2>3, <2>8, <2>9, <2>10 DEF Listens
    <2> QED BY <1>1, <2>3, <2>8, <2>11 DEF GoesOn
  <1> QED BY <1>2, <1>3

(* The loop of HandelMessageReceivedWithCrc reads, or fails to.            *)
LEMMA CrcReadGoesOn ==
  ASSUME NEW p \in Conns, NEW R, NEW A, NEW T, Scope(p, R, A, T), ClientOK(p), Given(p, A),
         Within(cl[p], R, A, T), CrcRead(p) \/ CrcReadFails(p)
  PROVE  GoesOn(p, R, A, T)
  <1>1. /\ cl[p] \in Process /\ cl[p].at = "crcRead" /\ cl[p].open /\ cl[p].tries < NUM_OF_ATTEMPTS
        /\ cl[p].info \in TransferInfo /\ Active(cl[p]) /\ Started(cl[p])
        /\ cl[p].id # None /\ cl[p].id \in Ids
    BY DEF CrcRead, CrcReadFails, ClientOK, GoodProcess, Active, Started, Process
  <1>2. \E c : /\ c \in Process /\ c.id = cl[p].id /\ c.buf = cl[p].buf /\ c.info = cl[p].info
               /\ c.queue = cl[p].queue /\ c.tries = cl[p].tries
               /\ cl' = [cl EXCEPT ![p] = AfterResend(c)]
    <2>1. CASE CrcRead(p)
      <3> DEFINE m == Head(toClient[p])
                 c == [cl[p] EXCEPT !.vresp = m]
      <3>1. m \in Response
        BY <2>1 DEF CrcRead, ClientRecv, Given, Scope
      <3>2. cl' = [cl EXCEPT ![p] = AfterResend(c)]
        BY <2>1 DEF CrcRead
      <3> HIDE DEF m
      <3>3. /\ c \in Process /\ c.id = cl[p].id /\ c.buf = cl[p].buf /\ c.info = cl[p].info
            /\ c.queue = cl[p].queue /\ c.tries = cl[p].tries
        BY <1>1, <3>1 DEF Process
      <3> QED BY <3>2, <3>3
    <2>2. CASE CrcReadFails(p)
      <3> DEFINE c == [cl[p] EXCEPT !.open = FALSE]
      <3>1. cl' = [cl EXCEPT ![p] = AfterResend(c)]
        BY <2>2 DEF CrcReadFails
      <3>2. /\ c \in Process /\ c.id = cl[p].id /\ c.buf = cl[p].buf /\ c.info = cl[p].info
            /\ c.queue = cl[p].queue /\ c.tries = cl[p].tries
        BY <1>1 DEF Process
      <3> QED BY <3>1, <3>2
    <2> QED BY <2>1, <2>2
  <1>3. PICK c : /\ c \in Process /\ c.id = cl[p].id /\ c.buf = cl[p].buf /\ c.info = cl[p].info
                 /\ c.queue = cl[p].queue /\ c.tries = cl[p].tries
                 /\ cl' = [cl EXCEPT ![p] = AfterResend(c)]
    BY <1>2
  <1>4. Ready(c, R)
    BY <1>1, <1>3 DEF Ready, Within
  <1>5. After(c, AfterResend(c), R)
    BY <1>1, <1>3, <1>4, AfterResendAfter DEF Scope
  <1>6. /\ GoodProcess(AfterResend(c)) /\ Started(AfterResend(c))
        /\ Within(AfterResend(c), R, A, T)
    <2>1. c.buf \in A \cup {None} /\ (c.id # None => c.id \in T)
      BY <1>3 DEF Within
    <2> QED BY <1>5, <2>1, AfterWithin
  <1>7. FileWork(p, AfterResend(c)) /\ AfterResend(c).id = cl[p].id
    BY <1>3, <1>5 DEF CrcRead, CrcReadFails, After, FileWork, fileVars
  <1>8. Listens(p, AfterResend(c))
    <2>1. ~Read(p)
      BY <1>1 DEF Read
    <2> QED BY <1>1, <1>3, <1>5, <1>7, <2>1 DEF Listens, After
  <1> QED BY <1>1, <1>3, <1>6, <1>7, <1>8 DEF GoesOn, Becomes

(* A packet is written, or is not.                                         *)
LEMMA WriteGoesOn ==
  ASSUME NEW p \in Conns, NEW R, NEW A, NEW T, Scope(p, R, A, T), ClientOK(p),
         Within(cl[p], R, A, T), WritePacket(p) \/ WriteFails(p)
  PROVE  GoesOn(p, R, A, T)
  <1>1. /\ cl[p] \in Process /\ cl[p].at = "write" /\ cl[p].open /\ cl[p].toSend # <<>>
        /\ cl[p].info \in TransferInfo /\ Active(cl[p]) /\ Started(cl[p])
        /\ cl[p].id = None => /\ cl[p].ret = "read" /\ cl[p].queue \in Seq(RegistrationRequest)
                              /\ cl[p].toSend \in Seq(RegistrationRequest)
        /\ cl[p].ret = "crcRead" => cl[p].tries < NUM_OF_ATTEMPTS
    BY DEF WritePacket, WriteFails, ClientOK, GoodProcess, Active, Started
  <1>2. cl[p].ret \in {"read", "crcRead", "exit"}
    BY <1>1 DEF Process
  <1>3. Ready(cl[p], R)
    BY <1>1 DEF Ready, Within
  <1>4. (\A d : FileWork(p, d)) /\ ~Read(p)
    BY <1>1 DEF WritePacket, WriteFails, Read, FileWork, fileVars
  <1>5. CASE WriteFails(p)
    <2> DEFINE d == NotSent(cl[p], cl[p].ret)
    <2>1. cl' = [cl EXCEPT ![p] = d]
      BY <1>5 DEF WriteFails
    <2>2. After(cl[p], d, R)
      BY <1>2, <1>3, NotSentAfter
    <2> HIDE DEF d
    <2>3. /\ GoodProcess(d) /\ Started(d) /\ Within(d, R, A, T) /\ d.id = cl[p].id
          /\ Listens(p, d)
      <3>1. cl[p].buf \in A \cup {None} /\ (cl[p].id # None => cl[p].id \in T)
        BY DEF Within
      <3>2. GoodProcess(d) /\ Started(d) /\ Within(d, R, A, T)
        BY <2>2, <3>1, AfterWithin
      <3> QED BY <1>1, <1>4, <2>2, <3>2 DEF After, Listens
    <2> QED BY <1>1, <1>4, <2>1, <2>3 DEF GoesOn, Becomes
  <1>6. CASE WritePacket(p)
    <2> DEFINE c == [cl[p] EXCEPT !.toSend = Tail(@)]
               e == [c EXCEPT !.at = c.ret]
    <2>1. Tail(cl[p].toSend) \in Seq(R) /\ Tail(cl[p].toSend) \in Seq(Request)
      <3>1. Tail(cl[p].toSend) \in Seq(R)
        BY <1>1 DEF Within
      <3> QED BY <3>1, SeqOfMore DEF Scope
    <2>2. cl[p].id = None => Tail(cl[p].toSend) \in Seq(RegistrationRequest)
      BY <1>1
    <2>3. /\ c \in Process /\ c.toSend = Tail(cl[p].toSend) /\ c.at = "write" /\ c.open
          /\ c.info = cl[p].info /\ c.id = cl[p].id /\ c.buf = cl[p].buf
          /\ c.queue = cl[p].queue /\ c.ret = cl[p].ret /\ c.tries = cl[p].tries
      BY <1>1, <2>1 DEF Process
    <2>4. cl' = [cl EXCEPT ![p] = IF c.toSend # <<>> THEN c
                                  ELSE IF c.ret = "exit" THEN Stops(c, "error") ELSE e]
      BY <1>6 DEF WritePacket, Sent
    <2> HIDE DEF c
    <2>5. Ready(c, R)
      BY <1>1, <2>3 DEF Ready, Within
    <2>6. CASE c.toSend # <<>>
      <3>1. GoodProcess(c) /\ Started(c) /\ Within(c, R, A, T) /\ Listens(p, c)
        BY <1>1, <1>4, <2>1, <2>2, <2>3, <2>6
           DEF GoodProcess, Started, Active, Within, Listens, Rejoices
      <3> QED BY <1>1, <1>4, <2>3, <2>4, <2>6, <3>1 DEF GoesOn, Becomes
    <2>7. CASE c.toSend = <<>> /\ c.ret = "exit"
      <3>1. After(c, Stops(c, "error"), R)
        BY <2>5, StopsAfter
      <3>2. /\ GoodProcess(Stops(c, "error")) /\ Started(Stops(c, "error"))
            /\ Within(Stops(c, "error"), R, A, T) /\ Stops(c, "error").id = cl[p].id
            /\ Listens(p, Stops(c, "error"))
        <4>1. c.buf \in A \cup {None} /\ (c.id # None => c.id \in T)
          BY <2>3 DEF Within
        <4>2. /\ GoodProcess(Stops(c, "error")) /\ Started(Stops(c, "error"))
              /\ Within(Stops(c, "error"), R, A, T)
          BY <3>1, <4>1, AfterWithin
        <4> QED BY <1>1, <1>4, <2>3, <3>1, <4>2 DEF After, Listens
      <3> QED BY <1>1, <1>4, <2>4, <2>7, <3>2 DEF GoesOn, Becomes
    <2>8. CASE c.toSend = <<>> /\ c.ret # "exit"
      <3>1. /\ e \in Process /\ e.toSend = <<>> /\ e.at = cl[p].ret /\ e.open
            /\ e.info = cl[p].info /\ e.id = cl[p].id /\ e.buf = cl[p].buf
            /\ e.queue = cl[p].queue /\ e.ret = cl[p].ret /\ e.tries = cl[p].tries
        BY <1>2, <2>3, <2>8 DEF Process
      <3> HIDE DEF e
      <3>2. e.at \in {"read", "crcRead"}
        BY <1>2, <2>3, <2>8, <3>1
      <3>3. GoodProcess(e) /\ Started(e) /\ Within(e, R, A, T) /\ Listens(p, e)
        BY <1>1, <1>4, <3>1, <3>2, EmptyIsSeq
           DEF GoodProcess, Started, Active, Within, Listens, Rejoices
      <3> QED BY <1>1, <1>4, <2>4, <2>8, <3>1, <3>3 DEF GoesOn, Becomes
    <2> QED BY <2>6, <2>7, <2>8
  <1> QED BY <1>5, <1>6

(* The process is killed, while it writes me.info or elsewhere.            *)
LEMMA KillGoesOn ==
  ASSUME NEW p \in Conns, NEW R, NEW A, NEW T, ClientOK(p), Within(cl[p], R, A, T),
         Kill(p), cl[p].at # "create"
  PROVE  GoesOn(p, R, A, T)
  <1>1. cl[p] \in Process /\ cl[p].at \notin {"off", "stopped"}
    BY DEF Kill, ClientOK, GoodProcess, FileOK
  <1>2. Started(cl[p]) /\ cl[p].info \in TransferInfo
    BY <1>1 DEF ClientOK, GoodProcess, Started, Process
  <1> DEFINE d == Stops(cl[p], "killed")
  <1>3. cl' = [cl EXCEPT ![p] = d] /\ FileWork(p, d)
    BY DEF Kill, FileWork
  <1>4. d \in Process
    BY <1>1, EmptyIsSeq, ZenonT(60) DEF Stops, Process
  <1>5. /\ d.at = "exit" /\ d.info = cl[p].info /\ d.id = cl[p].id
        /\ d.buf = cl[p].buf /\ d.queue = cl[p].queue /\ d.toSend = <<>> /\ ~d.open
        /\ d.outcome = "killed"
    BY <1>1 DEF Stops, Process
  <1> HIDE DEF d
  <1>6. GoodProcess(d) /\ Started(d) /\ ~Active(d) /\ Within(d, R, A, T)
    BY <1>2, <1>4, <1>5, EmptyIsSeq DEF GoodProcess, Started, Active, Within
  <1>7. Listens(p, d)
    BY <1>5, <1>6 DEF Listens, Rejoices
  <1> QED BY <1>2, <1>3, <1>5, <1>6, <1>7 DEF GoesOn, Becomes

(* What main leaves when it returns.                                       *)
LEMMA EndedWithin ==
  ASSUME NEW R, NEW A, NEW T, NEW c, c.info \in TransferInfo \cup {None},
         NEW how \in {"none", "hurray", "error", "returned", "killed"}
  PROVE  /\ GoodProcess(Ended(c, how)) /\ Within(Ended(c, how), R, A, T)
         /\ Ended(c, how).at = "stopped"
  <1> DEFINE d == Ended(c, how)
  <1>1. /\ d.at = "stopped" /\ d.queue = <<>> /\ d.toSend = <<>>
        /\ d.buf = None /\ d.id = None
    BY DEF Ended, NewProcess
  <1>2. d \in Process
    <2>1. <<>> \in Seq(Request)
      BY EmptyIsSeq
    <2>2. NewProcess.attempts \in 0..NUM_OF_ATTEMPTS /\ NewProcess.tries \in 0..NUM_OF_ATTEMPTS
      BY DEF NewProcess, NUM_OF_ATTEMPTS
    <2> QED BY <2>1, <2>2 DEF Ended, NewProcess, Process
  <1> HIDE DEF d
  <1>3. GoodProcess(d) /\ Within(d, R, A, T) /\ d.at = "stopped"
    BY <1>1, <1>2, EmptyIsSeq DEF GoodProcess, Started, Active, Within
  <1> QED BY <1>3 DEF d

(* main returns without having opened a channel, or after closing it.      *)
LEMMA StopStep ==
  ASSUME NEW p \in Conns, NEW R, NEW A, NEW T, ClientOK(p), clientStop(p) \/ Exit(p)
  PROVE  UNCHANGED fileVars /\ \E d : Becomes(p, d, R, A, T) /\ d.at = "stopped"
  <1>1. cl[p].info \in TransferInfo \cup {None} /\ cl[p] \in Process
    BY DEF ClientOK, GoodProcess, Process
  <1>2. UNCHANGED fileVars
    BY DEF clientStop, Exit
  <1>3. \E how \in {"none", "hurray", "error", "returned", "killed"} :
          cl' = [cl EXCEPT ![p] = Ended(cl[p], how)]
    <2>1. cl[p].outcome \in {"none", "hurray", "error", "returned", "killed"}
      BY <1>1 DEF Process
    <2>2. CASE Exit(p)
      BY <2>1, <2>2 DEF Exit
    <2>3. CASE clientStop(p)
      BY <2>3 DEF clientStop
    <2> QED BY <2>2, <2>3
  <1>4. PICK how \in {"none", "hurray", "error", "returned", "killed"} :
          cl' = [cl EXCEPT ![p] = Ended(cl[p], how)]
    BY <1>3
  <1>5. /\ GoodProcess(Ended(cl[p], how)) /\ Within(Ended(cl[p], how), R, A, T)
        /\ Ended(cl[p], how).at = "stopped"
    BY <1>1, EndedWithin
  <1>6. Becomes(p, Ended(cl[p], how), R, A, T)
    BY <1>4, <1>5 DEF Becomes
  <1> QED BY <1>2, <1>5, <1>6

(* The process is killed before it has a channel.                          *)
LEMMA KillAtCreate ==
  ASSUME NEW p \in Conns, NEW R, NEW A, NEW T, ClientOK(p), Kill(p), cl[p].at = "create"
  PROVE  \E d : Becomes(p, d, R, A, T) /\ d.at = "stopped"
  <1>1. cl' = [cl EXCEPT ![p] = Ended(cl[p], "killed")]
    BY DEF Kill
  <1>2. cl[p].info \in TransferInfo
    BY DEF ClientOK, GoodProcess
  <1>3. /\ GoodProcess(Ended(cl[p], "killed")) /\ Within(Ended(cl[p], "killed"), R, A, T)
        /\ Ended(cl[p], "killed").at = "stopped"
    BY <1>2, EndedWithin
  <1> QED BY <1>1, <1>3 DEF Becomes

(* What initialize() takes from transfer.info.                             *)
LEMMA ParsedType ==
  ASSUME NEW p \in Conns, NEW u \in InfosOf[Dir(p)], HasName(u)
  PROVE  Parsed(u) \in TransferInfo /\ Parsed(u).name = u.name
  <1>1. u # None /\ u.name # None
    BY DEF HasName
  <1>2. u \in UserInfo /\ GetFileName(u) \in FileNames
    BY <1>1, ClientAssumption DEF Dirs, Dir
  <1> HIDE DEF GetFileName
  <1> QED BY <1>1, <1>2 DEF Parsed, UserInfo, TransferInfo

(* A process finds no me.info and goes about creating it.                  *)
LEMMA CreateStep ==
  ASSUME NEW p \in Conns, NEW R, NEW A, NEW T, Scope(p, R, A, T), ClientOK(p), CreateFile(p)
  PROVE  \E d : Becomes(p, d, R, A, T) /\ d.at = "create"
  <1>1. PICK u \in InfosOf[Dir(p)] :
          HasName(u) /\ cl' = [cl EXCEPT ![p].at = "create", ![p].info = Parsed(u)]
    BY DEF CreateFile
  <1>2. cl[p] = NewProcess /\ NewProcess \in Process
    BY DEF CreateFile, ClientOK, GoodProcess
  <1>3. Parsed(u) \in TransferInfo /\ Parsed(u).name = u.name
    BY <1>1, ParsedType
  <1> DEFINE d == [NewProcess EXCEPT !.at = "create", !.info = Parsed(u)]
  <1>4. cl' = [cl EXCEPT ![p] = d]
    BY <1>1, <1>2
  <1>5. d \in Process
    BY <1>2, <1>3, ZenonT(60) DEF Process
  <1>6. /\ d.at = "create" /\ d.info = Parsed(u) /\ d.queue = <<>> /\ d.toSend = <<>>
        /\ d.buf = None /\ d.id = None
    BY DEF NewProcess
  <1>7. d = [NewProcess EXCEPT !.at = "create", !.info = d.info]
    BY <1>6
  <1> HIDE DEF d
  <1>8. GoodProcess(d)
    BY <1>3, <1>5, <1>6, <1>7 DEF GoodProcess, Started, Active
  <1>9. Registration(d) \in R
    BY <1>1, <1>3, <1>6 DEF Registration, Scope
  <1> QED BY <1>4, <1>6, <1>8, <1>9, EmptyIsSeq DEF Becomes, Within

(* The ClientLogic constructors.                                           *)
LEMMA ConstructedWithin ==
  ASSUME NEW T, NEW c \in Process, c.id = None, NEW lines \in Seq(T)
  PROVE  LET b == Constructed(c, lines)
         IN  /\ b \in Process /\ b.info = c.info /\ b.queue = c.queue /\ b.toSend = c.toSend
             /\ b.buf = c.buf /\ b.ret = c.ret /\ (b.id # None => b.id \in T \cap Ids)
  <1>1. CASE isRegistered(lines)
    <2> DEFINE i == lines[2]
               whole == KeyIsWhole(lines)
    <2>1. i \in Ids /\ i \in T /\ whole \in BOOLEAN
      BY <1>1 DEF isRegistered, KeyIsWhole
    <2>2. Constructed(c, lines) = [c EXCEPT !.id = i, !.hasKey = whole]
      BY <1>1 DEF Constructed
    <2> HIDE DEF i, whole
    <2>3. [c EXCEPT !.id = i, !.hasKey = whole] \in Process
      BY <2>1, ZenonT(60) DEF Process
    <2>4. /\ [c EXCEPT !.id = i, !.hasKey = whole].info = c.info
          /\ [c EXCEPT !.id = i, !.hasKey = whole].queue = c.queue
          /\ [c EXCEPT !.id = i, !.hasKey = whole].toSend = c.toSend
          /\ [c EXCEPT !.id = i, !.hasKey = whole].buf = c.buf
          /\ [c EXCEPT !.id = i, !.hasKey = whole].ret = c.ret
          /\ [c EXCEPT !.id = i, !.hasKey = whole].id = i
      BY DEF Process
    <2> QED BY <2>1, <2>2, <2>3, <2>4
  <1>2. CASE ~isRegistered(lines)
    BY <1>2, ZenonT(60) DEF Constructed, Unregistered, Process
  <1> QED BY <1>1, <1>2

LEMMA InitializeWithin ==
  ASSUME NEW p \in Conns, NEW R, NEW A, NEW T, Scope(p, R, A, T), ClientOK(p),
         Within(cl[p], R, A, T), FilesWithin(p, T), NEW c \in Initialize(p)
  PROVE  /\ c \in Process /\ c.info \in TransferInfo
         /\ c.queue = <<>> /\ c.toSend = <<>> /\ c.buf = None /\ c.ret = "read"
         /\ c.id # None => c.id \in T \cap Ids
         /\ c.id = None => Registration(c) \in R
         /\ todo[p] = <<>> /\ meInfo[Dir(p)] # None
  <1>1. CASE cl[p].at = "off" /\ meInfo[Dir(p)] # None
    <2>1. PICK u \in InfosOf[Dir(p)] :
            HasName(u) /\ c = Constructed([cl[p] EXCEPT !.info = Parsed(u)], meInfo[Dir(p)])
      BY <1>1 DEF Initialize
    <2>2. Parsed(u) \in TransferInfo /\ Parsed(u).name = u.name
      BY <2>1, ParsedType
    <2>3. cl[p] = NewProcess /\ cl[p] \in Process
      BY <1>1 DEF ClientOK, GoodProcess
    <2> DEFINE b == [cl[p] EXCEPT !.info = Parsed(u)]
    <2>4. /\ b.info = Parsed(u) /\ b.queue = <<>> /\ b.toSend = <<>> /\ b.buf = None
          /\ b.ret = "read" /\ b.id = None
      BY <2>3 DEF NewProcess
    <2>5. b \in Process
      BY <2>2, <2>3 DEF Process
    <2>6. meInfo[Dir(p)] \in Seq(T) /\ todo[p] = <<>>
      BY <1>1 DEF FilesWithin, ClientOK, FileOK
    <2>7. c = Constructed(b, meInfo[Dir(p)])
      BY <2>1
    <2> HIDE DEF b
    <2>8. /\ c \in Process /\ c.info = b.info /\ c.queue = b.queue /\ c.toSend = b.toSend
          /\ c.buf = b.buf /\ c.ret = b.ret /\ (c.id # None => c.id \in T \cap Ids)
      BY <2>4, <2>5, <2>6, <2>7, ConstructedWithin
    <2>9. Registration(c) \in R
      BY <2>1, <2>2, <2>4, <2>8 DEF Registration, Scope
    <2> QED BY <1>1, <2>2, <2>4, <2>6, <2>8, <2>9
  <1>2. CASE cl[p].at = "create" /\ todo[p] = <<>>
    <2>1. c = [cl[p] EXCEPT !.hasKey = TRUE]
      BY <1>2 DEF Initialize, Unregistered
    <2>2. /\ cl[p] \in Process /\ cl[p].info \in TransferInfo
          /\ cl[p] = [NewProcess EXCEPT !.at = "create", !.info = cl[p].info]
          /\ meInfo[Dir(p)] # None /\ Registration(cl[p]) \in R
      BY <1>2 DEF ClientOK, GoodProcess, FileOK, Within
    <2>3. /\ cl[p].queue = <<>> /\ cl[p].toSend = <<>> /\ cl[p].buf = None
          /\ cl[p].ret = "read" /\ cl[p].id = None
      BY <2>2 DEF NewProcess
    <2>4. c \in Process /\ c.info = cl[p].info
      BY <2>1, <2>2, ZenonT(60) DEF Process
    <2>5. /\ c.queue = <<>> /\ c.toSend = <<>> /\ c.buf = None
          /\ c.ret = "read" /\ c.id = None
      BY <2>1, <2>2, <2>3 DEF Process
    <2> QED BY <1>2, <2>2, <2>4, <2>5 DEF Registration
  <1> QED BY <1>1, <1>2 DEF Initialize

(* A process starts with its first message, or does not get that far.      *)
LEMMA StartStep ==
  ASSUME NEW p \in Conns, NEW R, NEW A, NEW T, Scope(p, R, A, T), ClientOK(p),
         Within(cl[p], R, A, T), FilesWithin(p, T), Start(p) \/ OpenFails(p) \/ CloseDies(p)
  PROVE  /\ \E d : /\ Becomes(p, d, R, A, T)
                   /\ \/ Start(p) /\ Started(d) /\ d.buf = None /\ ~Rejoices(d)
                      \/ d.at = "stopped"
         /\ UNCHANGED fileVars /\ todo[p] = <<>> /\ meInfo[Dir(p)] # None
  <1>1. UNCHANGED fileVars
    BY DEF Start, OpenFails, CloseDies
  <1>2. CASE Start(p)
    <2>1. PICK b \in Initialize(p) :
            LET c == [b EXCEPT !.open = TRUE]
            IN  cl' = [cl EXCEPT ![p] = AddMessageToQueue(c,
                         IF c.id = None THEN Registration(c) ELSE PublicKey(c))]
      BY <1>2 DEF Start
    <2> DEFINE c == [b EXCEPT !.open = TRUE]
               m == IF c.id = None THEN Registration(c) ELSE PublicKey(c)
               d == AddMessageToQueue(c, m)
    <2>2. /\ b \in Process /\ b.info \in TransferInfo
          /\ b.queue = <<>> /\ b.toSend = <<>> /\ b.buf = None /\ b.ret = "read"
          /\ b.id # None => b.id \in T \cap Ids
          /\ b.id = None => Registration(b) \in R
          /\ todo[p] = <<>> /\ meInfo[Dir(p)] # None
      BY InitializeWithin
    <2>3. /\ c \in Process /\ c.info = b.info /\ c.queue = <<>> /\ c.toSend = <<>>
          /\ c.buf = None /\ c.ret = "read" /\ c.id = b.id
      BY <2>2, ZenonT(60) DEF Process
    <2>4. cl' = [cl EXCEPT ![p] = d]
      BY <2>1
    <2> HIDE DEF c
    <2>5. Ready(c, R)
      BY <2>2, <2>3, EmptyIsSeq DEF Ready
    <2>6. c.id = None => m \in RegistrationRequest /\ m \in R
      <3>1. c.info.name \in Names
        BY <2>2, <2>3 DEF TransferInfo
      <3> QED BY <2>2, <2>3, <3>1 DEF Registration, RegistrationRequest
    <2>7. c.id # None => m \in R
      <3>1. c.id # None => PublicKey(c) \in Identified
        BY <2>2, <2>3, MessageTypes
      <3> QED BY <3>1 DEF Scope
    <2> HIDE DEF m
    <2>8. After(c, d, R)
      BY <2>3, <2>5, <2>6, <2>7, AddMessageAfter DEF Scope
    <2> HIDE DEF d
    <2>9. /\ GoodProcess(d) /\ Started(d) /\ Within(d, R, A, T)
          /\ d.buf = None /\ ~Rejoices(d)
      <3>1. c.buf \in A \cup {None} /\ (c.id # None => c.id \in T)
        BY <2>2, <2>3
      <3> QED BY <2>3, <2>8, <3>1, AfterWithin DEF After, Receipt
    <2> QED BY <1>1, <1>2, <2>2, <2>4, <2>9 DEF Becomes
  <1>3. CASE OpenFails(p) \/ CloseDies(p)
    <2>1. PICK c \in Initialize(p), how \in {"returned", "killed"} :
            cl' = [cl EXCEPT ![p] = Ended(c, how)]
      BY <1>3 DEF OpenFails, CloseDies
    <2>2. c.info \in TransferInfo /\ todo[p] = <<>> /\ meInfo[Dir(p)] # None
      BY InitializeWithin
    <2>3. /\ GoodProcess(Ended(c, how)) /\ Within(Ended(c, how), R, A, T)
          /\ Ended(c, how).at = "stopped"
      BY <2>2, EndedWithin
    <2> QED BY <1>1, <2>1, <2>2, <2>3 DEF Becomes
  <1> QED BY <1>2, <1>3

-----------------------------------------------------------------------------
(* What the steps do to me.info.                                           *)

FilesTyped ==
  /\ cl \in [Conns -> Process] /\ meInfo \in [Dirs -> Seq(Line) \cup {None}]
  /\ todo \in [Conns -> Seq(FileStep)] /\ fileContent \in [Conns -> Seq(Line)]

(* None is no sequence of lines.                                           *)
LEMMA FileThere ==
  ASSUME NEW p, NEW T, FilesWithin(p, T), meInfo[Dir(p)] # None
  PROVE  meInfo[Dir(p)] \in Seq(T)
  BY DEF FilesWithin

(* Who has nothing to do to it is not about to write an id.                *)
LEMMA EmptyTodo ==
  /\ <<>> \in Seq(FileStep)
  /\ \A n \in 1..Len(<<>>) : <<>>[n] # "id"
  OBVIOUS

(* A step that leaves the file alone keeps what there is to do to it.      *)
LEMMA IdleFiles ==
  ASSUME NEW p \in Conns, NEW T, FilesTyped, FilesWithin(p, T), UNCHANGED fileVars,
         todo[p] = <<>>,
         Started(cl'[p]) => meInfo[Dir(p)] # None, cl'[p].at # "create"
  PROVE  FilesMove(p, T) /\ FileOK(p)'
  <1>1. todo' = todo /\ fileContent' = fileContent /\ meInfo' = meInfo
    BY DEF fileVars
  <1>2. todo' = [todo EXCEPT ![p] = todo[p]] /\ fileContent' = [fileContent EXCEPT ![p] = fileContent[p]]
    BY <1>1 DEF FilesTyped
  <1>3. todo[p] \in Seq(FileStep)
    BY DEF FilesTyped
  <1>4. FilesMove(p, T)
    BY <1>1, <1>2, <1>3 DEF FilesMove, FilesWithin
  <1>5. FileOK(p)'
    BY <1>1, EmptyTodo DEF FileOK, Dir, Started
  <1> QED BY <1>4, <1>5

(* From packet to packet.                                                  *)
LEMMA GoesOnFiles ==
  ASSUME NEW p \in Conns, NEW R, NEW A, NEW T, FilesTyped, ClientOK(p), FilesWithin(p, T),
         GoesOn(p, R, A, T)
  PROVE  FilesMove(p, T) /\ FileOK(p)'
  <1>1. PICK d : /\ Becomes(p, d, R, A, T) /\ Started(d) /\ Started(cl[p])
                 /\ d.id = None => cl[p].id = None
                 /\ FileWork(p, d)
    BY DEF GoesOn
  <1>2. cl'[p] = d /\ meInfo' = meInfo /\ meInfo[Dir(p)] # None
    BY <1>1 DEF Becomes, FileWork, FilesTyped, ClientOK, FileOK
  <1>3. d.at \notin {"off", "stopped", "create"}
    BY <1>1 DEF Started
  <1>4. todo[p] \in Seq(FileStep) /\ SetClientId \in Seq(FileStep) /\ <<>> \in Seq(FileStep)
    BY DEF FilesTyped, SetClientId, FileStep
  <1>5. fileContent[p] \in Seq(T) /\ <<>> \in Seq(T)
    BY DEF FilesWithin
  <1>6. CASE UNCHANGED <<todo, fileContent>>
    <2>1. /\ todo' = [todo EXCEPT ![p] = todo[p]]
          /\ fileContent' = [fileContent EXCEPT ![p] = fileContent[p]]
      BY <1>6 DEF FilesTyped
    <2>2. FilesMove(p, T)
      BY <1>2, <1>4, <1>5, <2>1 DEF FilesMove
    <2>3. FileOK(p)'
      BY <1>1, <1>2, <1>3, <1>4, <1>6 DEF FileOK, ClientOK, Dir
    <2> QED BY <2>2, <2>3
  <1>7. CASE d.id # None /\ todo' = [todo EXCEPT ![p] = SetClientId] /\ UNCHANGED fileContent
    <2>1. /\ fileContent' = [fileContent EXCEPT ![p] = fileContent[p]]
          /\ todo'[p] = SetClientId
      BY <1>7 DEF FilesTyped
    <2>2. FilesMove(p, T)
      BY <1>2, <1>4, <1>5, <1>7, <2>1 DEF FilesMove
    <2>3. FileOK(p)'
      BY <1>2, <1>3, <1>4, <1>7, <2>1 DEF FileOK, Dir
    <2> QED BY <2>2, <2>3
  <1>8. CASE /\ todo' = [todo EXCEPT ![p] = <<>>]
             /\ fileContent' = [fileContent EXCEPT ![p] = <<>>]
    <2>1. todo'[p] = <<>>
      BY <1>8 DEF FilesTyped
    <2>2. FilesMove(p, T)
      BY <1>2, <1>4, <1>5, <1>8 DEF FilesMove
    <2>3. FileOK(p)'
      BY <1>2, <1>3, <1>4, <2>1 DEF FileOK, Dir
    <2> QED BY <2>2, <2>3
  <1> QED BY <1>1, <1>6, <1>7, <1>8 DEF FileWork

(* A process is about to create the file, or is killed at it.              *)
LEMMA CreateFiles ==
  ASSUME NEW p \in Conns, NEW T, FilesTyped, FilesWithin(p, T), ClientOK(p),
         CreateFile(p) \/ (Kill(p) /\ cl[p].at = "create")
  PROVE  FilesMove(p, T) /\ FileOK(p)'
  <1>1. CreateRegistrationFile \in Seq(FileStep) /\ <<>> \in Seq(FileStep)
    BY DEF CreateRegistrationFile, FileStep
  <1>2. fileContent[p] \in Seq(T) /\ <<>> \in Seq(T) /\ cl[p] \in Process
    BY DEF FilesWithin, FilesTyped
  <1>3. CASE CreateFile(p)
    <2>1. /\ todo' = [todo EXCEPT ![p] = CreateRegistrationFile]
          /\ todo'[p] = CreateRegistrationFile
          /\ fileContent' = [fileContent EXCEPT ![p] = fileContent[p]] /\ meInfo' = meInfo
      BY <1>3 DEF CreateFile, FilesTyped
    <2>2. cl'[p].at = "create"
      <3>1. PICK u \in InfosOf[Dir(p)] :
              cl' = [cl EXCEPT ![p] = [[cl[p] EXCEPT !.at = "create"] EXCEPT !.info = Parsed(u)]]
        BY <1>3 DEF CreateFile
      <3> QED BY <1>2, <3>1 DEF FilesTyped, Process
    <2>3. \A n \in 1..Len(CreateRegistrationFile) : CreateRegistrationFile[n] # "id"
      BY DEF CreateRegistrationFile
    <2>4. CreateRegistrationFile # <<>> /\ Head(CreateRegistrationFile) = "create"
      BY DEF CreateRegistrationFile
    <2> HIDE DEF CreateRegistrationFile
    <2>5. FilesMove(p, T)
      BY <1>1, <1>2, <2>1 DEF FilesMove
    <2>6. FileOK(p)'
      BY <1>1, <2>1, <2>2, <2>3, <2>4 DEF FileOK, Started
    <2> QED BY <2>5, <2>6
  <1>4. CASE Kill(p) /\ cl[p].at = "create"
    <2>1. /\ todo' = [todo EXCEPT ![p] = <<>>] /\ todo'[p] = <<>> /\ meInfo' = meInfo
          /\ fileContent' = [fileContent EXCEPT ![p] = <<>>]
      BY <1>4 DEF Kill, FilesTyped
    <2>2. cl'[p].at = "stopped"
      BY <1>4 DEF Kill, FilesTyped, Ended, NewProcess
    <2>3. FilesMove(p, T)
      BY <1>1, <1>2, <2>1 DEF FilesMove
    <2>4. FileOK(p)'
      BY <2>1, <2>2, EmptyTodo DEF FileOK, Started
    <2> QED BY <2>3, <2>4
  <1> QED BY <1>3, <1>4

(* The operations on the file: what they read and write are the words, ids *)
(* that were there, and the process's own id.                              *)
LEMMA FileOperationFiles ==
  ASSUME NEW p \in Conns, NEW R, NEW A, NEW T, Scope(p, R, A, T), FilesTyped, ClientOK(p),
         Within(cl[p], R, A, T), FilesWithin(p, T), FileOperation(p)
  PROVE  FilesMove(p, T) /\ FileOK(p)'
  <1> DEFINE step == Head(todo[p])
             file == meInfo[Dir(p)]
  <1>1. /\ todo[p] \in Seq(FileStep) /\ todo[p] # <<>> /\ Dir(p) \in Dirs
        /\ todo' = [todo EXCEPT ![p] = Tail(todo[p])]
        /\ todo'[p] = Tail(todo[p]) /\ cl' = cl
    BY DEF FileOperation, FilesTyped, Dir, Dirs
  <1>2. /\ Tail(todo[p]) \in Seq(FileStep)
        /\ \A n \in 1..Len(Tail(todo[p])) :
             Tail(todo[p])[n] = todo[p][n + 1] /\ n + 1 \in 1..Len(todo[p])
    BY <1>1
  <1>3. step = todo[p][1] /\ 1 \in 1..Len(todo[p])
    BY <1>1
  <1>4. step # "create" => file \in Seq(T) /\ file # None
    BY <1>1, FileThere DEF ClientOK, FileOK
  <1>5. step = "id" => cl[p].id \in T
    BY <1>3 DEF ClientOK, FileOK, Within
  <1>6. Words \subseteq T /\ fileContent[p] \in Seq(T)
    BY DEF Scope, FilesWithin
  <1>7. /\ \E lines \in Seq(T) : fileContent' = [fileContent EXCEPT ![p] = lines]
        /\ \/ step # "create" /\ UNCHANGED meInfo
           \/ \E lines \in Seq(T) : meInfo' = [meInfo EXCEPT ![Dir(p)] = lines]
    <2>1. CASE ReadLines(p)
      BY <1>4, <2>1 DEF ReadLines
    <2>2. CASE Truncate(p)
      <3>1. fileContent' = [fileContent EXCEPT ![p] = fileContent[p]]
        BY <2>2 DEF Truncate, FilesTyped
      <3> QED BY <1>6, <2>2, <3>1, EmptyIsSeq DEF Truncate
    <2>3. CASE WriteBack(p)
      <3> DEFINE lines == WrittenBack(step, fileContent[p], cl[p].id)
      <3>1. step \in {"name", "id", "key"}
        BY <2>3 DEF WriteBack
      <3>2. lines \in Seq(T)
        BY <1>5, <1>6, <3>1, WrittenBackType
      <3>3. PICK n \in 0..Len(file) :
              meInfo' = [meInfo EXCEPT ![Dir(p)] = Overwritten(lines, file, n)]
        BY <2>3 DEF WriteBack
      <3> HIDE DEF lines
      <3>4. Overwritten(lines, file, n) \in Seq(T)
        BY <1>4, <1>6, <3>1, <3>2, OverwrittenType
      <3>5. fileContent' = [fileContent EXCEPT ![p] = <<>>]
        BY <2>3 DEF WriteBack
      <3> QED BY <3>3, <3>4, <3>5, EmptyIsSeq
    <2> QED BY <2>1, <2>2, <2>3 DEF FileOperation
  <1>8. FilesMove(p, T)
    BY <1>1, <1>2, <1>7 DEF FilesMove
  <1>9. meInfo'[Dir(p)] # None
    <2>1. ASSUME NEW lines \in Seq(T), meInfo' = [meInfo EXCEPT ![Dir(p)] = lines]
          PROVE  meInfo'[Dir(p)] \in Seq(T)
      BY <1>1, <2>1 DEF FilesTyped
    <2>2. Seq(T) \subseteq Seq(Line)
      BY DEF Scope
    <2> QED BY <1>4, <1>7, <2>1, <2>2, ClientAssumption
  <1>10. FileOK(p)'
    BY <1>1, <1>2, <1>9 DEF FileOK, ClientOK, Dir
  <1> QED BY <1>8, <1>10
=============================================================================
