----------------------------- MODULE ClientLogic -----------------------------
(***************************************************************************)
(* The C++ client: ClientManager, ClientLogic and TcpClientChannel over the*)
(* two files of the directory it is started in.  A run of the program is a *)
(* process p; it opens one connection, of the same name, and uploads the   *)
(* one file its transfer.info names.                                       *)
(*                                                                         *)
(* The program is sequential.  It is cut at the packets it sends and       *)
(* receives and at its operations on me.info, a file that all processes of *)
(* a directory share; what it computes in between is part of the step      *)
(* before.                                                                 *)
(***************************************************************************)
EXTENDS Channel, ConfigManager

CONSTANTS
  DirOf,       \* DirOf[p] is the directory process p runs in
  InfosOf,     \* InfosOf[d]: what the user of directory d may have put into
               \*   transfer.info when a process starts
  Memory,      \* what the memory Run allocates for its buffer may look like: a
               \*   response, or None (no response's code)
  ZeroIds,     \* ids that start with a zero byte: isEmpty() holds of them
  MaxKills     \* bound: how many client processes are killed, or die in Open

VARIABLES
  cl,          \* the processes
  meInfo,      \* me.info of every directory
  todo,        \* what a process still has to do to me.info before it goes on
  fileContent, \* the lines its WriteAtLine has read
  kills

fileVars == <<meInfo, todo, fileContent>>
clientVars == <<cl, fileVars, kills>>

Dirs == {DirOf[p] : p \in Conns}

ASSUME ClientAssumption ==
  /\ \A d \in Dirs : \A u \in InfosOf[d] \ {None} :
       u \in UserInfo /\ GetFileName(u) \in FileNames
  /\ Memory \subseteq Response \cup {None}
  /\ None \notin Response \cup TransferInfo /\ None \notin Seq(Line)
  /\ ZeroIds \subseteq Ids /\ MaxKills \in Nat

NUM_OF_ATTEMPTS == 3

(* at: where the process is.  "create" is in CreateRegistrationFile.       *)
(* "write" sends the packets of toSend and then goes on at ret.  "spin" is *)
(* the loop of HandelMessageReceivedWithCrc on a closed channel.  "exit"   *)
(* has left main or died, its socket still open.                           *)
Process == [
  at: {"off", "create", "write", "read", "crcRead", "spin", "exit", "stopped"},
  info: TransferInfo \cup {None},                \* m_transferInfo
  open: BOOLEAN,                                 \* m_isOpen
  id: Ids \cup {None}, hasKey: BOOLEAN,          \* m_id, an RSA key is loaded
  queue: Seq(Request), attempts: 0..NUM_OF_ATTEMPTS,
  buf: Response \cup {None},                     \* Run's buffer, once it is read
  key: Keys \cup {None},                         \* m_symmetricKey
  tries: 0..NUM_OF_ATTEMPTS,                     \* crcAttempts
  vresp: Response \cup {None},                   \* validresponse
  toSend: Seq(Request), ret: {"read", "crcRead", "exit"},
  outcome: {"none", "hurray", "error", "returned", "killed"}]

NewProcess == [
  at |-> "off", info |-> None, open |-> FALSE, id |-> None, hasKey |-> FALSE,
  queue |-> <<>>, attempts |-> NUM_OF_ATTEMPTS, buf |-> None, key |-> None,
  tries |-> 0, vresp |-> None, toSend |-> <<>>, ret |-> "read", outcome |-> "none"]

ClientInit ==
  /\ cl = [p \in Conns |-> NewProcess]
  /\ meInfo = [d \in Dirs |-> None]
  /\ todo = [p \in Conns |-> <<>>]
  /\ fileContent = [p \in Conns |-> <<>>]
  /\ kills = 0

-----------------------------------------------------------------------------
(* The messages a process sends.                                           *)
Dir(p) == DirOf[p]
MyFile(c) == IF c.info.body = None THEN NoBytes ELSE Padded(c.info.body)

Registration(c) == [code |-> "REGISTRATION", name |-> c.info.name]
PublicKey(c) == [code |-> "PUBLIC_KEY", id |-> c.id, rsa |-> c.hasKey]
CrcStatus(c, code) == [code |-> code, id |-> c.id, file |-> c.info.file]

Upload(c) ==
  LET size == ContentOffset + CipherSize(MyFile(c).size)
      head == [code |-> "SEND_FILE", id |-> c.id, file |-> c.info.file,
               key |-> c.key, data |-> MyFile(c)]
  IN  [n \in 1..Packets(size) |-> IF n = 1 THEN head ELSE [code |-> "CHUNK"]]

-----------------------------------------------------------------------------
(* What the code does from one packet to the next, as the process after it.*)

Stops(c, how) == [c EXCEPT !.at = "exit", !.outcome = how,
                           !.open = FALSE, !.toSend = <<>>]

(* Back in Run's loop, which looks at the channel only.                    *)
Loops(c) == IF c.open THEN [c EXCEPT !.at = "read"] ELSE Stops(c, "returned")

(* A message that could not be sent, by where the caller goes on.          *)
NotSent(c, ret) ==
  LET d == [c EXCEPT !.open = FALSE, !.toSend = <<>>]
  IN  CASE ret = "read" -> Loops(d)
        [] ret = "crcRead" -> [d EXCEPT !.at = "spin"]
        [] ret = "exit" -> Stops(d, "error")

Sends(c, msgs, ret) ==
  IF c.open THEN [c EXCEPT !.at = "write", !.toSend = msgs, !.ret = ret]
            ELSE NotSent(c, ret)

(* What goes out is the front of the queue, whatever was added to it.      *)
SendFront(c) ==
  IF c.queue = <<>> THEN Loops(c) ELSE Sends(c, <<Head(c.queue)>>, "read")
SendNextMessage(c) == SendFront([c EXCEPT !.attempts = NUM_OF_ATTEMPTS])
AddMessageToQueue(c, m) == SendNextMessage([c EXCEPT !.queue = Append(@, m)])

(* Mutant: an answered message stays in the queue. *)
KeepsFront(c) == c

(* pop_front() and front() on an empty deque are undefined: the process may*)
(* go on or be killed by the system.                                       *)
PopFront(c) == [c EXCEPT !.queue = IF @ = <<>> THEN @ ELSE Tail(@)]
MayDie(c) == IF c.queue = <<>> THEN {Stops(c, "killed")} ELSE {}

(* The loop of HandelMessageReceivedWithCrc, from its condition on.        *)
AsksAgain(c) ==
  IF c.tries < NUM_OF_ATTEMPTS
    THEN Sends(c, <<CrcStatus(c, "CRC_RESEND")>>, "crcRead")
    ELSE Sends(c, <<CrcStatus(c, "CRC_ABORT")>>, "exit")

Accepts(c) == Sends(c, <<CrcStatus(c, "CRC_VALID")>>, "read")

(* The same loop after its Read, with validresponse as Read left it.       *)
AfterResend(c) ==
  CASE c.vresp = None \/ c.vresp.code # "MSG_RECEIVED_CRC" -> AsksAgain(c)
    [] c.vresp # None /\ c.vresp.code = "MSG_RECEIVED_CRC" ->
         IF c.vresp.val = Crc(MyFile(c)) THEN Accepts(c)
           ELSE AsksAgain([c EXCEPT !.tries = @ + 1])

(* The handlers of m_HandlersMap but the one that writes me.info: what the *)
(* process may be after each.  Nothing catches the exception of decrypting *)
(* what is no session key.                                                 *)
SymmetricKeyReceived(c) ==
  LET d == [PopFront(c) EXCEPT !.key = c.buf.val]
  IN  {IF c.buf.val = None THEN Stops(c, "killed") ELSE Sends(d, Upload(d), "read")}
        \cup MayDie(c)

MessageReceivedWithCrc(c) ==
  LET d == PopFront(c)
  IN  {IF c.buf.val = Crc(MyFile(c)) THEN Accepts(d) ELSE AsksAgain(d)}
        \cup MayDie(c)

MessageReceived(c) == {Stops(PopFront(c), "hurray")} \cup MayDie(c)

RegistrationFailed(c) ==
  IF c.attempts = 0 THEN {Stops(PopFront(c), "error")} \cup MayDie(c)
    ELSE {SendFront([c EXCEPT !.attempts = @ - 1])} \cup MayDie(c)

Handlers(c) ==
  CASE c.buf.code = "PUBLIC_KEY_RECEIVED" -> SymmetricKeyReceived(c)
    [] c.buf.code = "MSG_RECEIVED_CRC" -> MessageReceivedWithCrc(c)
    [] c.buf.code = "MSG_RECEIVED" -> MessageReceived(c)
    [] c.buf.code = "REGISTRATION_FAILED" -> RegistrationFailed(c)

(* Mutant: the public key's message is built before m_id is set. *)
RegistrationApprovedTooLate(p, c) ==
  LET d == [PopFront(c) EXCEPT !.id = c.buf.val]
  IN  /\ c.buf.code = "REGISTRATION_SUCCEEDED"
      /\ cl' = [cl EXCEPT ![p] = AddMessageToQueue(d, PublicKey(c))]
      /\ todo' = [todo EXCEPT ![p] = SetClientId]

(* HandelRegistrationApproved: SetClientId has me.info written before the  *)
(* public key is sent.  bitset, in isEmpty(), throws on any other id, and  *)
(* nothing catches it.                                                     *)
RegistrationApproved(p, c) ==
  /\ c.buf.code = "REGISTRATION_SUCCEEDED"
  /\ IF c.id = None \/ c.id \in ZeroIds
       THEN LET d == [PopFront(c) EXCEPT !.id = c.buf.val]
            IN  /\ cl' = [cl EXCEPT ![p] = AddMessageToQueue(d, PublicKey(d))]
                /\ todo' = [todo EXCEPT ![p] = SetClientId]
       ELSE cl' = [cl EXCEPT ![p] = Stops(c, "killed")] /\ UNCHANGED todo

(* Run's loop, with the buffer as Read left it.                            *)
Dispatch(p, c) ==
  /\ \/ c.buf = None /\ cl' = [cl EXCEPT ![p] = Loops(c)] /\ UNCHANGED todo
     \/ c.buf # None /\ RegistrationApproved(p, c)
     \/ /\ c.buf # None /\ c.buf.code # "REGISTRATION_SUCCEEDED"
        /\ \E d \in Handlers(c) : cl' = [cl EXCEPT ![p] = d]
        /\ UNCHANGED todo
  /\ UNCHANGED <<meInfo, fileContent, kills>>

-----------------------------------------------------------------------------
(* WriteAtLine, and the creation before it, step by step on the file that  *)
(* the processes of a directory share.                                     *)
ReadLines(p) ==
  /\ Head(todo[p]) = "read"
  /\ fileContent' = [fileContent EXCEPT ![p] = meInfo[Dir(p)]]
  /\ UNCHANGED meInfo

Truncate(p) ==
  /\ Head(todo[p]) \in {"create", "truncate"}
  /\ meInfo' = [meInfo EXCEPT ![Dir(p)] = <<>>]
  /\ UNCHANGED fileContent

WriteBack(p) ==
  /\ Head(todo[p]) \in {"name", "id", "key"}
  /\ LET lines == WrittenBack(Head(todo[p]), fileContent[p], cl[p].id)
         file == meInfo[Dir(p)]
     IN  \E n \in 0..Len(file) :
           /\ Reach(lines, file, n)
           /\ meInfo' = [meInfo EXCEPT ![Dir(p)] = Overwritten(lines, file, n)]
  /\ fileContent' = [fileContent EXCEPT ![p] = <<>>]

FileOperation(p) ==
  /\ todo[p] # <<>> /\ todo' = [todo EXCEPT ![p] = Tail(@)]
  /\ ReadLines(p) \/ Truncate(p) \/ WriteBack(p)
  /\ UNCHANGED <<cl, kills, channelVars>>

-----------------------------------------------------------------------------
(* ClientManager::Initialize: without a user name it stops; a missing file *)
(* to send does not keep it from going on.  GetSocketParams assigns a null *)
(* pointer to a string if the socket has no colon.                         *)

Ended(c, how) == [NewProcess EXCEPT !.at = "stopped", !.info = c.info, !.outcome = how]

clientStop(p) ==
  /\ cl[p].at = "off"
  /\ \E u \in InfosOf[Dir(p)] :
       \/ BareSocket(u) /\ cl' = [cl EXCEPT ![p] = Ended(@, "killed")]
       \/ /\ ~BareSocket(u) /\ ~HasName(u)
          /\ cl' = [cl EXCEPT ![p] = Ended(@, "error")]
  /\ UNCHANGED <<fileVars, kills, channelVars>>

(* Without me.info it is created.  Another process may do the same.        *)
CreateFile(p) ==
  /\ cl[p].at = "off" /\ meInfo[Dir(p)] = None
  /\ \E u \in InfosOf[Dir(p)] :
       HasName(u) /\ cl' = [cl EXCEPT ![p].at = "create", ![p].info = Parsed(u)]
  /\ todo' = [todo EXCEPT ![p] = CreateRegistrationFile]
  /\ UNCHANGED <<meInfo, fileContent, kills, channelVars>>

(* The ClientLogic constructors: a process that is not registered makes a  *)
(* new key pair.                                                           *)
Unregistered(c) == [c EXCEPT !.hasKey = TRUE]

Constructed(c, lines) ==
  IF isRegistered(lines) THEN [c EXCEPT !.id = lines[2], !.hasKey = KeyIsWhole(lines)]
    ELSE Unregistered(c)

(* What Initialize may have constructed, from both files, when Run begins. *)
Initialize(p) ==
  CASE cl[p].at = "off" /\ meInfo[Dir(p)] # None ->
         {Constructed([cl[p] EXCEPT !.info = Parsed(u)], meInfo[Dir(p)]) :
            u \in {v \in InfosOf[Dir(p)] : HasName(v)}}
    [] cl[p].at = "create" /\ todo[p] = <<>> -> {Unregistered(cl[p])}
    [] OTHER -> {}

Start(p) ==
  /\ \E c \in Initialize(p) :
       LET d == [c EXCEPT !.open = TRUE]
       IN  cl' = [cl EXCEPT ![p] = AddMessageToQueue(d,
                    IF d.id = None THEN Registration(d) ELSE PublicKey(d))]
  /\ Connect(p)
  /\ UNCHANGED <<fileVars, kills>>

OpenFails(p) ==
  /\ \E c \in Initialize(p) : cl' = [cl EXCEPT ![p] = Ended(c, "returned")]
  /\ UNCHANGED <<fileVars, kills, channelVars>>

(* listening: whether there is a server to connect to.                     *)
Opens(p, listening) == IF listening THEN Start(p) ELSE OpenFails(p)

(* Open first calls Close() on an m_socket that nobody initialised, which  *)
(* may kill the process.                                                   *)
CloseDies(p) ==
  /\ kills < MaxKills /\ kills' = kills + 1
  /\ \E c \in Initialize(p) : cl' = [cl EXCEPT ![p] = Ended(c, "killed")]
  /\ UNCHANGED <<fileVars, channelVars>>

-----------------------------------------------------------------------------
(* The process after the first of the packets it has to send.              *)
Sent(c) ==
  LET d == [c EXCEPT !.toSend = Tail(@)]
  IN  IF d.toSend # <<>> THEN d
      ELSE IF d.ret = "exit" THEN Stops(d, "error") ELSE [d EXCEPT !.at = d.ret]

WritePacket(p) ==
  /\ cl[p].at = "write"
  /\ ClientSend(p, Head(cl[p].toSend))
  /\ cl' = [cl EXCEPT ![p] = Sent(@)]
  /\ UNCHANGED <<fileVars, kills>>

WriteFails(p) ==
  /\ cl[p].at = "write" /\ ClientSendFails(p)
  /\ cl' = [cl EXCEPT ![p] = NotSent(@, @.ret)]
  /\ UNCHANGED <<fileVars, kills>>

Read(p) ==
  /\ cl[p].at = "read" /\ ClientRecv(p)
  /\ Dispatch(p, [cl[p] EXCEPT !.buf = Head(toClient[p])])

(* Run ignores what Read returns and handles what is in the buffer: the    *)
(* response before, or what the memory held that nobody initialised.       *)
ReadFails(p) ==
  /\ cl[p].at = "read" /\ ClientRecvFails(p)
  /\ \E b \in IF cl[p].buf = None THEN Memory ELSE {cl[p].buf} :
       Dispatch(p, [cl[p] EXCEPT !.open = FALSE, !.buf = b])

CrcRead(p) ==
  /\ cl[p].at = "crcRead" /\ ClientRecv(p)
  /\ cl' = [cl EXCEPT ![p] = AfterResend([@ EXCEPT !.vresp = Head(toClient[p])])]
  /\ UNCHANGED <<fileVars, kills>>

CrcReadFails(p) ==
  /\ cl[p].at = "crcRead" /\ ClientRecvFails(p)
  /\ cl' = [cl EXCEPT ![p] = AfterResend([@ EXCEPT !.open = FALSE])]
  /\ UNCHANGED <<fileVars, kills>>

(* EndSession, the destructors, or the system close the socket.            *)
Exit(p) ==
  /\ cl[p].at = "exit" /\ ClientClose(p)
  /\ cl' = [cl EXCEPT ![p] = Ended(@, @.outcome)]
  /\ UNCHANGED <<fileVars, kills>>

-----------------------------------------------------------------------------
(* The process is killed between two packets or two steps on me.info.      *)
Kill(p) ==
  /\ kills < MaxKills /\ kills' = kills + 1
  /\ cl[p].at \in {"create", "write", "read", "crcRead", "spin"} \/ todo[p] # <<>>
  /\ cl' = [cl EXCEPT ![p] = IF @.at = "create" THEN Ended(@, "killed") ELSE Stops(@, "killed")]
  /\ todo' = [todo EXCEPT ![p] = <<>>]
  /\ fileContent' = [fileContent EXCEPT ![p] = <<>>]
  /\ UNCHANGED <<meInfo, channelVars>>

ClientStep(p) ==
  \/ FileOperation(p)
  \/ /\ todo[p] = <<>>
     /\ \/ WritePacket(p) \/ WriteFails(p) \/ Read(p) \/ ReadFails(p)
        \/ CrcRead(p) \/ CrcReadFails(p) \/ Exit(p)

ClientNext(p, listening) ==
  \/ clientStop(p) \/ CreateFile(p) \/ Opens(p, listening)
  \/ ClientStep(p) \/ Kill(p) \/ CloseDies(p)
=============================================================================
