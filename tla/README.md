# A verification of mmn15_defense

mmn15_defense is a file transfer in two programs. A C++ client registers with a
Python server, exchanges keys, uploads one encrypted file and confirms the
checksum the server computed. Here are TLA+ models of both programs and of the
connections between them, TLC configurations that check them on small instances,
and TLAPS proofs, for instances of any size, of every safety property the models
are checked for: about the server among arbitrary clients, about the bytes it
receives, and about the two programs together.

Paths are relative to the repository. The client's sources are at its root
(`src/TcpClient/` is a byte-identical copy), the server's in `src/TcpServer/`.

## 1. The system

| Component | State it keeps | Operations |
|---|---|---|
| Accept loop, `main.py`, `utils.py`, `server.py` `run` | the listening socket, `self.lock`, the local `conn` | read the port, listen, accept, take the lock, start a thread |
| Connection thread, `server.py` `read`/`write` | its place in the loop, the request it handles | receive a packet, call a handler, write responses, give the lock back, close |
| Handlers, `server.py` | none of their own | registration, public key, send file, CRC valid, CRC resend, CRC abort |
| Database, `database.py` over `server.db` | table `server`: id, name, keys, last seen; table `files`: name, owner, verified | one connection and one transaction per `execute` |
| File store, `file_handler.py` | `fileDict` in memory; one directory per client | `newFile`, `verified`, `saveFile`, `getFileInstance` |
| `keys_handler.py`, `protocol.py` | none | decrypt, generate a key; pack and unpack |
| `ClientLogic` | id, RSA key, `m_MessageQueue`, `m_numOfAttempts`, `crcAttempts`, session key, `Run`'s buffer | a handler per response, the retry loop of the checksum |
| `TcpClientChannel` | the socket and `m_isOpen` | open, write, read, close |
| `ClientManager`, `ConfigManager`, `FileHandler` | `me.info`, `transfer.info` | read both, stop without a user name, write id and private key into `me.info` |

How they interact. The client sends `REGISTRATION` (unless `me.info` says it has
an id), `PUBLIC_KEY`, `SEND_FILE` with as many packets as the file takes, and
`CRC_VALID`; the server answers each. A wrong checksum makes the client send
`CRC_RESEND` up to three times and then `CRC_ABORT`; a failure makes it repeat
the front of its queue. On the server, the main thread takes the lock after it
accepted a connection and before it starts the thread, which gives the lock
back when the client hangs up or a request failed. So sessions are meant to run
one after another; an accepted client and the backlog wait. Rows of the database
and files survive a restart, `fileDict` does not. Two runs of the client share
`me.info` if they share a directory: each reads it, truncates it and writes it
back, up to three times, and nothing keeps the other away meanwhile.

What is hard, and what correct means:

* the lock changes hands between threads: one session at a time, never released
  free, given back by every session (`OneSession`, `LockAccounted`,
  `LockIsReleased`), also when the client hangs up in the middle of a request,
  but for three known ways to keep it (`HangUpFreesLock`);
* a check and the write it guards are separate transactions: user names stay
  unique (`NamesUnique`), rows are never taken away (`RowsArePermanent`);
* a file passes through memory, a row, the disk and a mark, in four steps that
  uploads, crashes and failures may separate (`VarifiedIsSaved`,
  `VarifiedHasFile`, `MarksWhatItSaved`, `VarifiedIsWhole`, `AnswersAreTrue`);
* taken together, threads, packets and commits should amount to one session at a
  time that changes the tables and files by whole operations (`PromiseKept`);
* an upload is a stream of bytes that `recv` cuts up as it likes
  (`ContentIsWhole`, `InStep`, `SpinsOnlyIfCutOff`, `UploadEnds`);
* the session key is in the database and in the client, and every session of a
  client replaces it (`KeyAgreement`);
* the client's handlers trust that an answer belongs to the front of its queue
  (`AnswersInOrder`), its retries must end (`EveryRunEnds`), and what it tells
  its user must be so (`HurrayMeansStored`, `FilesArrive`);
* `me.info` outlives a killed client, and a client finds there what another has
  half written: an id in it is registered (`IdsAreRegistered`), and it should come
  with its key (`RegisteredHasKey`, which fails).

`PROJECT.json` lists every component, modelled or not, and every hazard at the
line where it bites.

## 2. The modules

`ServerIcd` holds the constants, messages and sizes of the wire contract.
A file body is a model value with a length: `Packets`, `HeadBytes` and
`HeadUnpacks` keep the arithmetic that decides how an upload is cut and whether
its head packet unpacks. CRC-32 is taken to be free of collisions. Decryption
has the outcomes of `keys_handler.decrypt`: the content, garbage under another
key, and `None` when there is no key.

`Channel` is external: TCP as both programs use it, in packets of 1024 bytes.
Each connection has a queue per direction and two ends; closing an end with
unread data, or sending to a closed end, brings a reset that is "due" until the
program runs into it.

`TcpServer` is the server. `lock`, `main` and `mainConn` are the accept loop;
`pc`, `req`, `left` and `out` are, per connection, the thread: where it is, the
request it handles, the bytes of an upload still to come and the responses to
write. `clients` and `files` are the tables, `fileDict` and `disk` the file
store. `main = "down"` is a server that has not started, or was killed:
`StartServer` starts it, `ServerCrash` kills it anywhere. A handler is cut into
actions where it leaves a trace: each commit, each write to the file store, each
packet. A thread that died of an exception is at
`"dead"` and keeps the lock, and one in a loop that can no longer end has no
enabled action. `Fails(kind)` is a statement whose exception `execute` or
`saveFile` swallows; `Unwritable` holds the file names `open` always rejects.

| Code | Actions |
|---|---|
| `main.py`, `run` | `StartServer`, `Accept`, `StartSession` |
| `handleRegistrationRequest` | `CheckName`, `AddClient` |
| `handlePublicKeyRequest` | `SetPublicKey`, `SetSymmetricKey` |
| `handleSendFileRequest` | `RecvFileHead`, `RecvFileChunk`, `RecvFileRaises`, `StoreFile`, `CommitFile` |
| `handleCrcValidRequest` | `CrcValid`, `SaveFile`, `MarkVarified` |
| `handleInvalidCrcResendRequest` | `Resend` |
| `handleInvalidCrcAbortInteractionRequest` | `Abort` |
| a code no handler has | `UnknownRequest` |
| `read`, `write` | `Write`, `WriteRaises`, `RecvEof`, `RecvRaises`, `Release`, `Close`, `DropSocket` |

`ConfigManager` is the client's two files. `transfer.info` is a record of what
its parsing can find: a socket that is valid, has no colon or is unusable, a
name or none, a file that exists or does not. `me.info` is a sequence of lines: the
user name, an id, the first line of a key and its other lines, the empty lines
Base64 leaves behind. `WriteAtLine` is what the function of that name makes of
the lines it has read, `isRegistered` what counts as registered, and
`KeyIsWhole` whether a key can be read. `CreateRegistrationFile` and
`SetClientId` are the steps these functions take on the file: each `WriteAtLine`
reads the lines, truncates the file, and writes when it closes it; `SetClientId`
does this for the id and once more for the key. If two processes write at once,
the one that closes last lands over what the other left, whose tail remains
(`Overwritten`); for that the lines have lengths (`LineLength`), and what
is left of a line is a `"part"`. A read and a write are each one step, because
the file is smaller than the buffer of an `fstream` (8 KB in the usual library),
which therefore reads it at once and writes it at once when it is closed.

`ClientLogic` is the client. A process `p` is one run of the program on the
connection `p`, in the directory `DirOf[p]`; `cl[p]` is a record with the members
of `ClientLogic`. `InfosOf[d]` is what the user of a directory may have put into
`transfer.info` by the time a process starts. `todo[p]` holds the steps on
`me.info` that a process has yet to take, and `fileContent[p]` the lines it has
read of it. The program is sequential and cut at its packets and at its steps on
`me.info`; while `todo[p]` is not empty the process does nothing else.

| Code | Actions |
|---|---|
| `ClientManager::Initialize`, the constructors, `Open` | `clientStop` without a usable `transfer.info`, `CreateFile` without `me.info`, `Start`, `OpenFails` without a server, `CloseDies` |
| `WriteAtLine`, by `HandelRegistrationApproved` or the creation of `me.info` | `FileOperation`: `ReadLines`, `Truncate`, `WriteBack` |
| `Run`, `HandelMessageReceivedWithCrc`, `SendMessageToChannel` | `WritePacket`, `WriteFails`, `Read`, `ReadFails`, `CrcRead`, `CrcReadFails` |
| the end of `main` | `Exit` |
| the process is killed, wherever it is | `Kill` |

`Open` begins with `Close()`, which looks at a socket pointer that nobody has
initialised (`TcpClientChannel.cpp:36`): the process goes on, or dies (`CloseDies`).
What the code computes between two steps is a function from the record before
to the record after (`AddMessageToQueue`, `Handlers`, `AsksAgain`, `AfterResend`).

`ReceiveFile` is one upload byte by byte, which the other modules take as
packets: `TcpClientChannel::Write` puts whole packets on the stream, `recv`
returns any part of what is there, and the loop of `RequestToSendFile.unpack`
puts the content together. A byte is its number in the stream, so that
`content = [i \in 1..bytesRead |-> Offset + i]` says that none is lost, doubled,
moved or taken from the head or the padding. `InStep` is what makes packets a
sound abstraction: if every receive returns a packet, the server takes exactly
the packets of a message. A short receive breaks it, and the module shows what
comes of that (`"refused"` and `"misread"`).

`Sessions` is the abstract specification of the server: one connection is served
at a time, and meanwhile clients are registered, given keys, own files that are
uploaded, saved and marked, each by one atomic operation that states what it
needs. `OpenServer` maps its state to it (`Serving`, `Users`, `Keyed`, `Owners`,
`OnDisk`, `Marked`), and `PromiseKept` says that it implements it. A registration
in two transactions implements `Register` only if the name stays free in
between, a mark implements `Mark` only if the file was saved.

Two modules compose the server with clients. `OpenServer` puts the server among clients of which
nothing is assumed but that they send packets of the protocol: any request, any
id, in any order, hanging up at any time. `Transfer` puts it together with
`ClientLogic`, and `OpenSpec` says that this is a special case: every behaviour
of `Transfer` is one of `OpenServer`, so what is proved of the open server is
inherited. `MCOpenServer` and `MCTransfer` give the constants their values.
Operators marked as mutants stand before the definition they deviate from and
are used by no specification.

## 3. The runs

| Run | What it asks | Instance |
|---|---|---|
| `OpenHangups` | one session at a time, lock accounted for, names unique, the promise, the lock after a hang-up | 2 connections, 2 ids for 1 name, uploads of 2 packets |
| `OpenUploads` | verified is saved and on disk, the invariant of uploads, marks what it saved, the promise | 2 connections, 1 client, uploads of 2 packets and of no bytes, 1 crash |
| `OpenFaults` | the inductive invariant, answers are true, rows are permanent | 1 connection, 2 clients, 3 names (one not ASCII), 1 file name that cannot be written, 1 failing statement of any kind |
| `TransferUsers` | Hurray means stored, keys agree; if no start finds an id without its key, files arrive, runs end, the lock is given back | 2 starts of the client at once in one directory, for one user, to send one file, of two packets or edited to take one |
| `TransferCrashes` | ids stay registered, verified files are whole, answers in order, refinement | 2 starts for one user, 5 kinds of `transfer.info`, 1 client and the server killed, the server down |
| `ReceiveFile` | the content is whole, receives in step, the loop ends and when it spins | packets of 6 bytes, 2 of them the head, contents of 1 to 27 bytes |

Six more runs each violate one property that a comment, a log line or a message
of the repository states; section 6 lists them.

Bounds, all named: `MaxCrashes`, `MaxFaults`, `MaxKills` (how often the server
is killed, a statement fails, a client is killed), `InFlight` (how many packets
a connection may carry when its client sends another), `EnvCodes` (which
requests it sends), and the sets of identities. Two connections are what the
lock is about: one is served while the other is held by the main thread. One
client id with two connections is the case of two sessions that share a key and
a file; two ids with one name are the case of a contested name, two ids with one
file name that of a contested row. One crash at any place separates any two
steps, one failing statement any two transactions. Two packets per upload is the
least that can be mixed up. Because the user may edit the file between two
starts, the uploads of `TransferUsers` replace each other under one name. In `TransferUsers` and `TransferCrashes` two processes
of one directory take their steps on `me.info` in any order; the one user name
makes them contend for it, so that the second to register is refused and retries,
and one that starts late shares the id of the first. Under a second name, which
the user would have to put into `transfer.info` between the starts, both would
be registered, and go on with the id and the key they have in memory. What a
third start would find then is in section 6. `MaxKills` counts the processes that
die in `Open` with those that are killed. `ZeroIds` holds one id that starts with a zero byte,
of which `isEmpty()` holds. `Memory` is what the buffer `Run` does not initialise
may look like when its first `Read` fails. That happens in `TransferCrashes`,
where the memory may look like any response but the approval of a registration
(`NoApproval`, see section 6); in `TransferUsers` no session ends before its
first answer, and nothing depends on it (`AnyMemory`). `Keys` is the supply of session keys, none of which
is drawn twice, so a run has only as many key exchanges as keys: `OpenHangups`,
whose liveness needs handlers that never run out of keys, exchanges none, and
uploads there are refused after they have been received. `InFlight = {0}` lets a
client of `OpenServer` send whenever its connection carries nothing: it may hang
up before any packet is taken, leave an upload unfinished, and send while the
server is still at work on what it sent before. The proofs, and the refinement
`OpenSpec`, take any set of numbers. In `ReceiveFile` contents that end within,
at and just past a packet all occur, and those that do not fit beside the head;
27 bytes end in a fifth packet.

The symmetry of `OpenFaults` and `TransferCrashes` is that of the instance:
connections, ids, ASCII names and keys in the one; in the other the two starts,
which share their directory, and the keys.

Runs disable the check for deadlock: a connection is used once, and a system
whose connections are all done, or whose lock a dead thread keeps, stops. That
it does not stop early is what the liveness properties say.

Fairness. `FairSpec` of `Transfer` is weakly fair to the main thread, to each
thread of the server and to each started process, also one that has created
`me.info` and has yet to connect (`Proceeds`). That is what the operating
system's scheduler gives; a step that waits for a packet, for the lock or for a
user is not enabled meanwhile. Starting a process, killing one and crashing the
server are nobody's duty, nor is starting the server (`StartServer`). In
`OpenServer` only the server is fair, which is all `HangUpFreesLock` needs once
the client has hung up. `ReceiveFile` is weakly fair to both programs, and lets the
client hang up instead.

The premise of liveness. `FilesArrive`, `EveryRunEnds` and `LockIsReleased` begin
with `[]RegisteredHasKey`. A process that starts while another is between the id
and the key of `me.info` has no usable key; the server's thread dies when it
encrypts the session key with it, the lock is lost and everybody waits for ever.
That is the finding of `HalfWritten`, and the premise sets it aside to ask
whether it is the only one. It leaves all the other ways to share `me.info`: a
start that finds it missing, empty, without an id, or complete, and two
processes that create it at once.

## 4. The proofs

Eight modules prove what the runs check, for any finite or infinite sets of
connections, ids, names, keys and files, any sizes, and any bounds on crashes,
failures, kills and requests in flight. Each EXTENDS the one it builds on:
`ServerProofs` is about the server alone, `OpenServerProofs`, `UploadProofs` and
`SessionsProofs` about the server among arbitrary clients, `ClientProofs` about
the client alone, `TransferProofs` and `ConversationProofs` about both programs,
and `ReceiveFileProofs` about the bytes of an upload.

### The server

`ServerProofs` has the inductive invariant `IInv`, kept by each action of
`TcpServer`: the types, `MainOK` (there is a connection when main waits for the
lock), `OneSession`, `LockAccounted`, and `HandlerOK`, which says at every program
counter what the handler relies on. The parts need each other: that the lock is
free means that no thread is between `acquire` and `release` only by
`LockAccounted`; that `MarkVarified` finds the row that `CrcValid` found, and
`CommitFile` the content that `StoreFile` put into `fileDict`, holds only because
no other thread is in a handler; and the types of `clients`, `files` and of the
responses need the request to be of its handler's kind. It also says what a
thread may do to the tables and to its connection (`ThreadClients`,
`ThreadOwners`, `ThreadPackets`, `ThreadOut`), for the proofs about both programs.

`OpenServerProofs` concludes, for any clients,

* `Invariance`, `TypeCorrect`: `IInv` and the types;
* `Exclusion`: one session at a time; `LockKept`: the lock accounted for;
* `Permanence`: no step takes a registration or the owner of a file name away;
* `Uniqueness`: user names are unique, if no SELECT can fail. The strengthening
  is `NameStillFree`: between the check of a name and its INSERT the name stays
  free, which again is mutual exclusion. The assumption is needed: a SELECT that
  fails in `clientUsernameExists` returns `None`, which reads as "not there"
  (`database.py:234`), and the name is inserted a second time.

`UploadProofs` proves, if no write to the file system fails and every file name
can be written (`WritesWork`), the invariant
`UploadInv` (`UploadInvariance`) and from it

* `MarksAreTrue`: a row becomes verified only while its file on disk is exactly
  the content in `fileDict`;
* `MarkedIsOnDisk`: a verified file is on disk, whatever crashes there were;
* `VerifiedIsSaved`, if no commit fails either (`CommitsWork`): a marked file is
  on disk, whole until a first crash, and `MSG_RECEIVED` is about a row that is
  marked and a file on disk that is what its checksum was computed from. A commit
  whose failure `updateVerification` overlooks makes the answer untrue.

`UploadInv` has `RowsOK` (a row belongs to a client with a session key, and what
`fileDict` holds for it is not `None`), `VarifiedHasFile`, and `UploadOK`, what
`CommitFile`, `SaveFile` and `MarkVarified` count on. `RowsOK` is what makes it
inductive: `open` truncates a file before `write` fails on a content of `None`,
and only a client without a session key gets such a content. The assumption is
needed: `updateVerification` does not look at what `saveFile` returns
(`database.py:113`), which is at the bottom of the run `MissingFile`.

The same module proves `TrueAnswers`, without an assumption on failures: when a
packet goes out, the id in it is registered, the session key is the stored one,
and a checksum is that of the content held for a row of this client. Its
invariant, `AnswerInv`, says that a handler that succeeded has exactly one
response to write, and that it is true; mutual exclusion keeps it true until it
is sent, and a crash leaves nobody to send it.

`SessionsProofs` proves `Implementation`: if no SELECT and no save fails and every
file name can be written, `Spec => PromiseKept`. The invariant `PromiseInv` is
the conjunction of those above (`IInv`, `UploadInv`, `NamesUnique`,
`NameStillFree`), each for one thing an abstract operation needs: the lock for
`Begin`, a free name for `Register`, a session key for `Upload`, a row and a file
for `Save` and `Mark`. Under it each action of the server maps to one operation
or to none; a crash maps to `End`, which may leave a file cut short.

`ReceiveFileProofs` proves, for any packet size, offset and content sizes,

* `StreamTypes`: the types, which bound what is taken by what was written;
* `ContentWhole`: whatever lengths the receives have, the content is whole;
* `PacketsInStep`: receives of whole packets stay in step with the requests;
* `OnlyTheCutOffSpin`: the loop spins only for a client that hung up before it
  had written the message.

Its invariant `StreamInv` counts: what is written and what is left to write make
up the message and less than a packet of padding (`WriteOK`); in the loop the
bytes taken are the head and the content so far (`ReadOK`); and as long as no
receive was short, whole packets are under way (`PacketsUnderWay`).

### The client

`ClientProofs` follows the functions of `ClientLogic` from one packet to the
next. A process keeps within a `Scope`: what it sends is in a set R, what it
reads in A, what it writes into `me.info` in T. For the sets of all requests,
answers and lines that is type correctness; for smaller ones, that only honest
messages are sent as long as only honest ones are read. `FilesMove` says the same
of the steps on `me.info`, where what a process has read waits in `fileContent`
while others write, and `FileOK` that the file is there when it is read and that
who has an id to write has it in memory. `Listens` says what a
step does to the buffer, the id and `transfer.info`, and that a process prints
Hurray only with an approval in its buffer (`Receipt`). `Lines`, the recursive
function that drops empty lines, is reasoned about by the least length at which
a claim would fail, which is the induction the provers can do.

### Both programs

`TransferProofs` puts the two together. `TInv` (`WholeInvariance`) has `IInv`, a
well-formed process on every connection (`ClientOK`), and `ConnOK`: a connection
nobody opened is empty, and a client without an id has asked for nothing but its
registration and is told of nothing else. The last part is why no request ever
carries the id `None`. From it

* `ClientTypes`: the client's state and `me.info` keep their types;
* `RefinesOpenServer`: every behaviour of both programs is one of `OpenServer`.
  So all the theorems about the open server hold of the whole system;
* `RegistrationAgrees`: an id that a client holds in memory or in `me.info` is
  registered, under a name its user gave. The invariant `RegInv` follows the id
  from the row through the response, the queue, the lines a process has read and
  the file, whoever truncates or overwrites it: `OwnRequest`,
  `HonestAnswer` and `OwnLine` are the R, A and T of a scope. It assumes
  `NoApprovalInMemory`, that the buffer `Run` does not initialise
  (`ClientLogic.cpp:358`) does not look like the approval of a registration;
  section 6 has what happens otherwise.

`ConversationProofs` is about who speaks when. Its invariant `CInv` gives every
connection one of six stages: the client asks (`Awaits`), the thread takes an
upload (`Takes`), a handler has its request (`Handles`), an answer is written
(`Replies`) or to be read (`Hears`), the thread is about to leave with nothing but
refusals to write (`Quits`). Each stage says what is under way in both
directions, how much of an upload is still to come, and what the two sides know
of each other: that the session key is the same (`Knows`), that the server holds
the client's file (`Held`), that what is asked and what is answered belong
together (`Answers`). `QueueOK` relates the client's queue to what it asked last,
`LineOK` says that a connection waits once, in the backlog or with the main
thread, and `EndsOK` that the ends of a connection outlive their programs. `CInv`
was checked by TLC on small instances before it was proved; without any
assumption on failures, crashes, kills or memory it gives

* `KeysAgree`: an upload is decrypted with the key it was encrypted with, to the
  file the client read, however many sessions of the client replace the key;
* `AnswersAreInOrder`: no answer is read to something the client did not ask last.

Two more invariants follow a file on from there.

* `VarifiedStaysWhole` (`SavedInv`, `WholeInv`): a file whose row is marked is on
  disk as some client read and padded it, with the server killed during a write
  and the client during an upload. It assumes `WritesWork` and that no statement
  fails: after a failed commit the row keeps its old mark while the file is
  uploaded again, and a crash during the save then tears a marked file. What
  makes it hold is that `newFile`'s row loses its mark before the file is opened
  for writing (`Held`).
* `HurrayIsTrue` (`ReceiptInv`): a client that prints Hurray has its file on the
  server's disk, under its id, and its row marked. `ReceiptInv` says so of every
  approval from the moment it is written, and that the thread that wrote it is
  idle and keeps the lock until the client is gone (`Idle`), so that nobody else
  can touch the file meanwhile. Each assumption is needed. A name that cannot be
  written, a save or a commit that fails goes unnoticed (run `MissingFile`,
  `database.py:113`). A server that is killed gives the lock up, and another
  session may upload the file again before the first client has closed. And
  memory that looks like an approval (`NoReceiptInMemory`) is believed by a client
  whose session ends before its first answer: with three starts in one
  directory, the second of them while the first is between the id and the key of
  `me.info`, the second has no key, its thread dies on it, and the third makes
  the server drop the connection. `TransferUsers` has two starts and no kill, so
  there the memory is never looked at.

The assumptions on the constants are those the modules declare:
`SizeAssumption` (lengths are natural numbers), `BodyAssumption` (a body is none
of the three names that stand for other contents), `ServerAssumption` (the bounds
are natural numbers and the subsets are subsets), `NoneAssumption` (the absent
value is no row, connection, key or content), `IdAssumption` (an id is none of
the other lines of `me.info`, nor the absent value), `ClientAssumption` (what users put into
`transfer.info` is of its type, what the uninitialised buffer looks like is a
response or nothing, and the absent value is no response, no parsed
`transfer.info` and no sequence of lines), `EnvAssumption` and, for the bytes, `PacketAssumption` (a packet
is longer than the head of a message).

Each proof has a lemma for the initial states, one or more lemmas per group of
actions, and a theorem that combines them; facts about `EXCEPT`, sequences and
the channel that many actions need are lemmas of their own.

## 5. Model-checked only

Every safety invariant and action property, and both refinements, that a passing
run checks are proved. What is left to TLC is liveness (`FilesArrive`,
`EveryRunEnds` and `LockIsReleased`, for clients that find their key,
`HangUpFreesLock`, `UploadEnds`), which with `ENABLED` is out of the prover's
reach.

## 6. Where the code and its comments disagree

| Run | Code | What happens |
|---|---|---|
| `StuckResend` | `ClientLogic.cpp:308` | the retry loop of the checksum never ends once the server hung up |
| `HalfWritten` | `ConfigManager.cpp:202` | a client started between the id and the key another writes to their `me.info`, or after one killed there, is registered and has no key |
| `UnluckySize` | `ClientLogic.cpp:274` | a refused upload makes the client take the front of an empty queue |
| `AbortSession` | `server.py:271` | an abort kills its thread, the lock stays taken |
| `MissingFile` | `ConfigManager.cpp:91` | a client without its file sends no bytes under an empty name, the server fails to save them, and the client reports success |
| `LastSeen` | `database.py:51` | a request sets the last seen of other clients, those whose id SQLite takes for a number other than 0 |

The other runs stay clear of these by their instance: file sizes, file names
and users kept apart, files that exist, no failing write where a verified row
has to be saved.

`HangUpFreesLock` names the three ways a thread keeps the lock for good
(`KeepsLock`): an exception nobody catches, `write()` to a connection that was
reset (`server.py:92`), and the loop of `unpack` at the end of a stream
(`protocol.py:158`). Nothing in the repository says what happens then, so they
are no findings; the property says that there is no fourth.

`HalfWritten` needs no kill, and with more starts not even its timing. Two runs
of one directory may both be registered, if the user changes the name in
between; `WriteAtLine` then inserts the id of the one behind that of the other,
so that the file may end as the name, two ids, and the keys behind them. Both
finish with what they have in memory, but a third start takes the first id, finds
the other id where the key should begin, and goes on without a key
(`KeyIsWhole`). That is `RegisteredHasKey` violated again, and the liveness
properties say nothing of such a start: its thread dies with the lock held.

The models also show smaller things, which no run is spent on: a client whose
connection breaks before its first response handles whatever its uninitialised
buffer looks like (`ClientLogic.cpp:358`), and if that is an approval, it writes
an id nobody registered into `me.info`, so `IdsAreRegistered` holds only without
that; a failed SELECT counts as "name not there" (`database.py:234`); a stored
file keeps the client's zero padding (`FileHandler.cpp:92`); and a resend request
for an unknown file is refused with a checksum response first (`server.py:240`).
A commit that fails while a verified file is uploaded again leaves the old mark
on the row, and a crash during the next save then leaves a verified file torn:
`VarifiedIsWhole` holds across crashes or failures, not across both.

## 7. Not modelled

* Cryptography, Base64 and Crypto++ (`libs/`): only their outcomes.
* The layout of the fields inside a packet; lengths that matter are in
  `ServerIcd` and `ReceiveFile`.
* Short receives anywhere but in an upload: other requests and all responses
  arrive whole.
* Failing updates of `LastSeen`, whose failure nobody looks at. `LastSeen` itself
  is modelled as the client whose request set it.
* A request whose header and payload carry different ids.
* Names as paths: `fileDict` and `disk` are keyed by id and file name, while the
  server joins the two (`os.path.join`, `file_handler.py`). The names a client
  sends are taken to be plain ones: an absolute name, or one with `..`, would
  lead out of the client's directory and could meet another client's file.
* User names of different lengths: `LineLength` has one length for all of them,
  which matters only where two writes of `me.info` overlap.
* Dead code: `Server.accept`, `Database.initialize`, `getClientsPublicKey`,
  `FileHandler.updateFile`, `TcpClientChannel::CheckDeadline`, `printQueue`.
* Build files, the sample database, and the vendored headers of Crypto++ under
  `libs/`, which are more than nine tenths of the repository's lines: no code of
  this program is in them, and what it calls of them is modelled by its outcome.
* `src/TcpClient/`, the copy of the client.

## 8. The plan

In the order of importance; all of it but the last item is done.

1. `ServerIcd`, `Channel`, `TcpServer`: the server, its lock, tables and files.
2. `OpenServer` with its runs: what the server owes to arbitrary clients.
3. `ConfigManager`, `ClientLogic`, `Transfer` with their runs: the whole system,
   with `me.info` shared by the processes of a directory and written in steps.
4. `ServerProofs`, `OpenServerProofs`: the inductive invariant, mutual exclusion,
   permanence of rows, uniqueness of names.
5. `UploadProofs`: what a mark and what an answer is worth.
6. `ReceiveFile` and `ReceiveFileProofs`: the receiving loop byte by byte, with
   short receives, against reassembly of the message.
7. `Sessions` and `SessionsProofs`: an abstract server that serves one session at
   a time by whole operations, and `OpenServer` shown to implement it.
8. `transfer.info` and the start of the client; a server that is down.
9. `ClientProofs` and `TransferProofs`: the types of the client, registered ids,
   and `Transfer!Spec => OpenSpec`, action by action, so that every theorem about
   the open server is one about the whole system.
10. `ConversationProofs`: agreement on keys, answers in order, marked files whole,
    and what Hurray is worth.
11. To come: `VarifiedIsWhole` for failing statements where the server is not
    killed; `PromiseKept` carried over to the whole system; what stuck loops and
    lost locks have in common (`KeepsLock`) as a safety property of its own.
