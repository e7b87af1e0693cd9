---------------------------- MODULE SessionsProofs ----------------------------
(***************************************************************************)
(* The server implements Sessions, for any number of clients, connections  *)
(* and crashes, as long as no SELECT and no write to the file system fails.*)
(***************************************************************************)
EXTENDS UploadProofs

(* What the steps rely on.                                                 *)
PromiseInv == IInv /\ UploadInv /\ NamesUnique /\ NameStillFree

Tables == <<Users, Keyed, Owners, Marked>>

-----------------------------------------------------------------------------
(* What a step leaves alone.                                               *)

LEMMA SameClients ==
  ASSUME \A i \in Ids : /\ clients'[i] = None <=> clients[i] = None
                        /\ clients[i] # None =>
                             /\ clients'[i].name = clients[i].name
                             /\ clients'[i].aesKey = None <=> clients[i].aesKey = None
  PROVE  UNCHANGED <<Users, Keyed>>
  <1>1. Users' = Users
    BY DEF Users
  <1>2. Keyed' = Keyed
    BY DEF Keyed, HasKey
  <1> QED BY <1>1, <1>2

LEMMA SameFiles ==
  ASSUME UNCHANGED files
  PROVE  UNCHANGED <<Owners, Marked>>
  <1>1. Owners' = Owners
    BY DEF Owners, RowOf
  <1>2. Marked' = Marked
    BY <1>1 DEF Marked
  <1> QED BY <1>1, <1>2

LEMMA SameTables ==
  ASSUME UNCHANGED <<clients, files>>
  PROVE  UNCHANGED Tables
  <1>1. UNCHANGED <<Users, Keyed>>
    BY SameClients
  <1> QED BY <1>1, SameFiles DEF Tables

LEMMA SameDisk ==
  ASSUME UNCHANGED disk
  PROVE  UNCHANGED OnDisk
  BY DEF OnDisk

(* A thread that stays in its session, or outside of one.                  *)
LEMMA SameServing ==
  ASSUME IInv, NEW k \in Conns, Thread(k), pc[k] \in Holding <=> pc'[k] \in Holding
  PROVE  UNCHANGED Serving
  <1>1. \A j \in Conns : pc[j] \in Holding <=> pc'[j] \in Holding
    BY OthersStay
  <1> QED BY <1>1 DEF Serving

(* touch() shows in none of it.                                            *)
LEMMA TouchUnseen ==
  ASSUME IInv, NEW i \in Ids, clients' = Touch(clients, i)
  PROVE  UNCHANGED <<Users, Keyed>>
  <1>1. ASSUME NEW j \in Ids
        PROVE  /\ clients'[j] = None <=> clients[j] = None
               /\ clients[j] # None => /\ clients'[j].name = clients[j].name
                                       /\ clients'[j].aesKey = clients[j].aesKey
    BY TouchKeepsClients, NoneAssumption
  <1> QED BY <1>1, SameClients

(* A step of a handler that is an operation of the promise.                *)
LEMMA Operation ==
  ASSUME IInv, NEW k \in Conns, Thread(k), pc[k] \in Holding, pc'[k] \in Holding,
         NEW i \in Ids,
         \/ Promise!GiveKey(i)
         \/ \E n \in Names : Promise!Register(i, n)
         \/ \E f \in FileNames :
              Promise!Upload(i, f) \/ Promise!Save(i, f) \/ Promise!Mark(i, f)
  PROVE  Promise!Next
  <1>1. UNCHANGED Serving
    BY SameServing
  <1>2. Serving # {}
    BY DEF Serving
  <1>3. Promise!Operate
    BY <1>1, <1>2 DEF Promise!Operate
  <1> QED BY <1>3 DEF Promise!Next

(* And one that is invisible.                                              *)
LEMMA Invisible ==
  ASSUME UNCHANGED Serving, UNCHANGED Tables, UNCHANGED OnDisk
  PROVE  UNCHANGED Promise!vars
  BY DEF Promise!vars, Promise!tables, Tables

-----------------------------------------------------------------------------
(* The handlers.                                                           *)

LEMMA AddClientKept ==
  ASSUME PromiseInv, NEW k \in Conns, Thread(k), AddClient(k)
  PROVE  Promise!Next \/ UNCHANGED Promise!vars
  <1> USE DEF PromiseInv
  <1>1. /\ pc[k] \in Holding /\ pc'[k] \in Holding
        /\ req[k].name \in Names /\ UNCHANGED <<files, disk>>
    BY DEF AddClient, Answer, Refuse, Holding, IInv, TypeOK, ThreadTypeOK, HandlerOK,
           RegistrationRequest, storeVars
  <1>2. UNCHANGED <<Owners, Marked>> /\ UNCHANGED OnDisk
    BY <1>1, SameFiles, SameDisk
  <1>3. CASE UNCHANGED clients
    BY <1>1, <1>3, SameTables, SameServing, SameDisk, Invisible
  <1>4. ASSUME NEW i \in Ids, clients[i] = None,
               clients' = [clients EXCEPT ![i] = NewClient(i, req[k].name)]
        PROVE  Promise!Next
    <2> DEFINE n == req[k].name
    <2>1. /\ clients \in [Ids -> Client \cup {None}]
          /\ NewClient(i, n) \in Client
          /\ NewClient(i, n).name = n /\ NewClient(i, n).aesKey = None
      BY <1>1 DEF IInv, TypeOK, StoreTypeOK, NewClient, Client
    <2>2. ~NameTaken(n)
      BY DEF NameStillFree, AddClient
    <2>3. /\ clients'[i] # None /\ clients'[i].name = n /\ clients'[i].aesKey = None
          /\ \A j \in Ids : j # i => clients'[j] = clients[j]
      BY <1>4, <2>1, NoneAssumption
    <2>4. \A u \in Users : u[1] # i /\ u[2] # n
      BY <1>4, <2>2 DEF Users, NameTaken
    <2> HIDE DEF n
    <2>5. n \in Names
      BY <1>1 DEF n
    <2>6. Users' = Users \cup {<<i, n>>}
      BY <1>4, <2>3, <2>5 DEF Users
    <2>7. Keyed' = Keyed
      BY <1>4, <2>3 DEF Keyed, HasKey
    <2>8. Promise!Register(i, n)
      BY <1>2, <2>4, <2>6, <2>7 DEF Promise!Register
    <2> QED BY <1>1, <2>5, <2>8, Operation
  <1> QED BY <1>3, <1>4 DEF AddClient, ClientExists

LEMMA SetPublicKeyKept ==
  ASSUME PromiseInv, NEW k \in Conns, NEW m, Thread(k), SetPublicKey(k, m)
  PROVE  UNCHANGED Promise!vars
  <1> USE DEF PromiseInv
  <1>1. pc[k] \in Holding /\ pc'[k] \in Holding /\ UNCHANGED <<files, disk>>
    BY DEF SetPublicKey, Receives, Proceed, Answer, Refuse, Holding, IInv, TypeOK,
           ThreadTypeOK, storeVars
  <1>2. m \in Request /\ m.code = "PUBLIC_KEY"
    BY ReceivesFacts DEF SetPublicKey
  <1>3. m.id \in Ids
    BY <1>2, RequestByCode DEF PublicKeyRequest
  <1>4. UNCHANGED <<Users, Keyed>>
    <2>1. CASE UNCHANGED clients
      BY <2>1, SameClients
    <2>2. CASE clients' = Touch(clients, m.id)
      BY <1>3, <2>2, TouchUnseen
    <2>3. CASE clients[m.id] # None /\ clients' = WithPublicKey(m.id)
      <3> DEFINE t == Touch(clients, m.id)
      <3>1. /\ t[m.id] \in Client /\ t[m.id].name = clients[m.id].name
            /\ t[m.id].aesKey = clients[m.id].aesKey
        BY <1>3, <2>3, TouchKeepsClients
      <3>2. /\ clients'[m.id] = [t[m.id] EXCEPT !.hasKey = TRUE]
            /\ \A j \in Ids : j # m.id => clients'[j] = t[j]
        BY <1>3, <2>3 DEF Touch, WithPublicKey
      <3>3. /\ clients'[m.id] \in Client /\ clients'[m.id].name = clients[m.id].name
            /\ clients'[m.id].aesKey = clients[m.id].aesKey
        BY <3>1, <3>2 DEF Client
      <3>4. ASSUME NEW j \in Ids, j # m.id
            PROVE  /\ clients'[j] = None <=> clients[j] = None
                   /\ clients[j] # None => /\ clients'[j].name = clients[j].name
                                           /\ clients'[j].aesKey = clients[j].aesKey
        BY <1>3, <3>2, <3>4, TouchKeepsClients, NoneAssumption
      <3> HIDE DEF t
      <3> QED BY <2>3, <3>3, <3>4, SameClients, NoneAssumption
    <2> QED BY <2>1, <2>2, <2>3 DEF SetPublicKey, ClientExists
  <1> QED BY <1>1, <1>4, SameFiles, SameDisk, SameServing, Invisible DEF Tables

LEMMA SetSymmetricKeyKept ==
  ASSUME PromiseInv, NEW k \in Conns, Thread(k), SetSymmetricKey(k)
  PROVE  Promise!Next \/ UNCHANGED Promise!vars
  <1> USE DEF PromiseInv
  <1> DEFINE i == req[k].id
  <1>1. /\ pc[k] \in Holding /\ pc'[k] \in Holding /\ UNCHANGED <<files, disk>>
        /\ i \in Ids /\ clients[i] # None
    BY DEF SetSymmetricKey, Answer, Dies, Proceed, Holding, IInv, TypeOK, ThreadTypeOK,
           HandlerOK, PublicKeyRequest, storeVars
  <1>2. UNCHANGED <<Owners, Marked>> /\ UNCHANGED OnDisk
    BY <1>1, SameFiles, SameDisk
  <1>3. CASE UNCHANGED clients
    BY <1>1, <1>3, SameTables, SameServing, SameDisk, Invisible
  <1>4. ASSUME NEW key \in Keys, clients' = [clients EXCEPT ![i].aesKey = key]
        PROVE  Promise!Next
    <2>1. clients \in [Ids -> Client \cup {None}] /\ clients[i] \in Client
      BY <1>1 DEF IInv, TypeOK, StoreTypeOK
    <2>2. /\ clients'[i] = [clients[i] EXCEPT !.aesKey = key]
          /\ \A j \in Ids : j # i => clients'[j] = clients[j]
      BY <1>1, <1>4, <2>1
    <2>3. /\ clients'[i] # None /\ clients'[i].name = clients[i].name
          /\ clients'[i].aesKey # None
      BY <2>1, <2>2, NoneAssumption DEF Client
    <2> HIDE DEF i
    <2>4. Users' = Users
      BY <1>1, <2>2, <2>3 DEF Users
    <2>5. Keyed' = Keyed \cup {i}
      BY <1>1, <2>2, <2>3 DEF Keyed, HasKey
    <2>6. \E u \in Users : u[1] = i
      <3>1. <<i, clients[i].name>> \in Users
        BY <1>1, <2>1 DEF Users, Client
      <3> QED BY <3>1
    <2>7. Promise!GiveKey(i)
      BY <1>2, <2>4, <2>5, <2>6 DEF Promise!GiveKey
    <2> QED BY <1>1, <2>7, Operation
  <1> QED BY <1>3, <1>4 DEF SetSymmetricKey, FreshKeys

LEMMA CrcValidKept ==
  ASSUME PromiseInv, NEW k \in Conns, NEW m, Thread(k), CrcValid(k, m)
  PROVE  UNCHANGED Promise!vars
  <1> USE DEF PromiseInv
  <1>1. pc[k] \in Holding /\ pc'[k] \in Holding /\ UNCHANGED <<files, disk>>
    BY DEF CrcValid, Receives, Proceed, Answer, Refuse, Holding, IInv, TypeOK,
           ThreadTypeOK, storeVars
  <1>2. m \in Request /\ m.code = "CRC_VALID"
    BY ReceivesFacts DEF CrcValid
  <1>3. m.id \in Ids
    BY <1>2, RequestByCode DEF CrcStatusRequest
  <1>4. UNCHANGED <<Users, Keyed>>
    BY <1>3, TouchUnseen, SameClients DEF CrcValid
  <1> QED BY <1>1, <1>4, SameFiles, SameDisk, SameServing, Invisible DEF Tables

LEMMA CommitFileKept ==
  ASSUME PromiseInv, NEW k \in Conns, Thread(k), CommitFile(k)
  PROVE  Promise!Next \/ UNCHANGED Promise!vars
  <1> USE DEF PromiseInv
  <1> DEFINE i == req[k].id
             f == req[k].file
             row == [owner |-> i, varified |-> FALSE]
  <1>1. /\ pc[k] \in Holding /\ pc'[k] \in Holding /\ UNCHANGED disk
        /\ i \in Ids /\ f \in FileNames /\ HasKey(i)
    BY UploadRequest DEF CommitFile, Answer, Holding, IInv, TypeOK, ThreadTypeOK,
                         Uploads, UploadInv, UploadOK, StepOK, storeVars
  <1>2. UNCHANGED OnDisk
    BY <1>1, SameDisk
  <1>3. CASE UNCHANGED <<files, clients>>
    BY <1>1, <1>3, SameTables, SameServing, SameDisk, Invisible
  <1>4. ASSUME ~RowOfOther(i, f), files' = [files EXCEPT ![f] = row],
               clients' = Touch(clients, i)
        PROVE  Promise!Next
    <2>1. UNCHANGED <<Users, Keyed>>
      BY <1>1, <1>4, TouchUnseen
    <2>a. row \in FileRow
      BY <1>1 DEF FileRow
    <2>2. row.owner = i /\ row.varified = FALSE /\ row # None
      BY <2>a, NoneAssumption
    <2>3. files \in [FileNames -> FileRow \cup {None}]
      BY DEF IInv, TypeOK, StoreTypeOK
    <2> HIDE DEF i, f, row
    <2>4. files'[f] = row /\ \A g \in FileNames : g # f => files'[g] = files[g]
      BY <1>1, <1>4, <2>3
    <2>5. \A x \in Owners : x[2] = f => x[1] = i
      BY <1>4 DEF Owners, RowOf, RowOfOther
    <2>6. Owners' = Owners \cup {<<i, f>>}
      <3>1. ASSUME NEW x \in Ids \X FileNames
            PROVE  x \in Owners' <=> x \in Owners \cup {<<i, f>>}
        <4>1. CASE x[2] = f
          <5>1. x \in Owners' <=> x[1] = i
            BY <2>2, <2>4, <4>1 DEF Owners, RowOf
          <5>2. x \in Owners \cup {<<i, f>>} <=> x[1] = i
            BY <2>5, <4>1
          <5> QED BY <5>1, <5>2
        <4>2. CASE x[2] # f
          BY <1>1, <2>4, <4>2 DEF Owners, RowOf
        <4> QED BY <4>1, <4>2
      <3>2. <<i, f>> \in Ids \X FileNames
        BY <1>1
      <3> QED BY <3>1, <3>2 DEF Owners
    <2>7. Marked' = Marked \ {<<i, f>>}
      <3>1. ASSUME NEW x
            PROVE  x \in Marked' <=> x \in Marked \ {<<i, f>>}
        <4>1. CASE x \in Owners' /\ x[2] = f
          BY <2>2, <2>4, <2>5, <2>6, <4>1 DEF Marked, Owners
        <4>2. CASE x \in Owners' /\ x[2] # f
          BY <2>4, <2>6, <4>2 DEF Marked, Owners
        <4>3. CASE x \notin Owners'
          BY <2>6, <4>3 DEF Marked
        <4> QED BY <4>1, <4>2, <4>3
      <3> QED BY <3>1
    <2>8. i \in Keyed
      BY <1>1 DEF Keyed
    <2>9. Promise!Upload(i, f)
      BY <1>2, <2>1, <2>5, <2>6, <2>7, <2>8 DEF Promise!Upload
    <2> QED BY <1>1, <2>9, Operation
  <1> QED BY <1>3, <1>4 DEF CommitFile

LEMMA SaveFileKept ==
  ASSUME PromiseInv, WritesWork, NEW k \in Conns, Thread(k), SaveFile(k)
  PROVE  Promise!Next
  <1> USE DEF PromiseInv
  <1> DEFINE i == req[k].id
             f == req[k].file
  <1>1. /\ pc[k] \in Holding /\ pc'[k] \in Holding /\ UNCHANGED <<files, clients>>
        /\ i \in Ids /\ f \in FileNames /\ RowOf(i, f) /\ fileDict[<<i, f>>] # None
    BY UploadRequest DEF SaveFile, Goes, Proceed, Holding, IInv, TypeOK, ThreadTypeOK,
                         Uploads, UploadInv, UploadOK, StepOK, dbVars
  <1>2. fileDict[<<i, f>>] # NullContent
    BY <1>1 DEF UploadInv, RowsOK, RowOf
  <1>3. disk' = [disk EXCEPT ![<<i, f>>] = fileDict[<<i, f>>]]
    BY <1>2 DEF SaveFile, Fails, Saved, WritesWork
  <1>4. disk \in [Ids \X FileNames -> Stored \cup {Torn}]
    BY DEF IInv, TypeOK, StoreTypeOK
  <1>5. <<i, f>> \in Ids \X FileNames
    BY <1>1
  <1>6. UNCHANGED Tables
    BY <1>1, SameTables
  <1> HIDE DEF i, f
  <1>7. OnDisk' = OnDisk \cup {<<i, f>>}
    BY <1>1, <1>3, <1>4, <1>5 DEF OnDisk
  <1>8. <<i, f>> \in Owners
    BY <1>1 DEF Owners
  <1>9. Promise!Save(i, f)
    BY <1>6, <1>7, <1>8 DEF Promise!Save, Promise!tables, Tables
  <1> QED BY <1>1, <1>9, Operation

LEMMA MarkVarifiedKept ==
  ASSUME PromiseInv, NEW k \in Conns, Thread(k), MarkVarified(k)
  PROVE  Promise!Next \/ UNCHANGED Promise!vars
  <1> USE DEF PromiseInv
  <1> DEFINE i == req[k].id
             f == req[k].file
             row == [files[f] EXCEPT !.varified = TRUE]
  <1>1. /\ pc[k] \in Holding /\ pc'[k] \in Holding /\ UNCHANGED <<disk, clients>>
        /\ i \in Ids /\ f \in FileNames /\ RowOf(i, f) /\ disk[<<i, f>>] # None
    BY UploadRequest DEF MarkVarified, Answer, Holding, IInv, TypeOK, ThreadTypeOK,
                         Uploads, UploadInv, UploadOK, StepOK, storeVars
  <1>2. UNCHANGED OnDisk /\ UNCHANGED <<Users, Keyed>>
    BY <1>1, SameDisk, SameClients
  <1>3. CASE UNCHANGED files
    BY <1>1, <1>3, SameTables, SameServing, SameDisk, Invisible
  <1>4. ASSUME files' = [files EXCEPT ![f] = row]
        PROVE  Promise!Next
    <2>1. files \in [FileNames -> FileRow \cup {None}]
      BY DEF IInv, TypeOK, StoreTypeOK
    <2>2. row.owner = i /\ row.varified /\ row # None
      BY <1>1, <2>1, NoneAssumption DEF RowOf, FileRow
    <2> HIDE DEF row, i, f
    <2>3. files'[f] = row /\ \A g \in FileNames : g # f => files'[g] = files[g]
      BY <1>1, <1>4, <2>1
    <2>4. Owners' = Owners
      BY <1>1, <2>2, <2>3 DEF Owners, RowOf
    <2>5. <<i, f>> \in Owners /\ <<i, f>> \in OnDisk
      BY <1>1 DEF Owners, OnDisk
    <2>6. Marked' = Marked \cup {<<i, f>>}
      <3>1. ASSUME NEW x \in Owners
            PROVE  files'[x[2]].varified <=> files[x[2]].varified \/ x = <<i, f>>
        <4>1. x \in Ids \X FileNames /\ files[x[2]].owner = x[1]
          BY DEF Owners, RowOf
        <4>2. CASE x[2] = f
          BY <1>1, <2>2, <2>3, <4>1, <4>2 DEF RowOf
        <4>3. CASE x[2] # f
          BY <2>3, <4>1, <4>3
        <4> QED BY <4>2, <4>3
      <3> QED BY <2>4, <2>5, <3>1 DEF Marked
    <2>7. Promise!Mark(i, f)
      BY <1>2, <2>4, <2>5, <2>6 DEF Promise!Mark
    <2> QED BY <1>1, <2>7, Operation
  <1> QED BY <1>3, <1>4 DEF MarkVarified

(* The handlers that leave no trace in the tables or the directories.      *)
LEMMA OthersKept ==
  ASSUME PromiseInv, NEW k \in Conns, Thread(k),
         UNCHANGED <<clients, files, disk>>, pc[k] \in Holding <=> pc'[k] \in Holding
  PROVE  UNCHANGED Promise!vars
  BY SameTables, SameDisk, SameServing, Invisible DEF PromiseInv

(* A session that is given up.                                             *)
LEMMA ReleaseKept ==
  ASSUME PromiseInv, NEW k \in Conns, Thread(k), Release(k)
  PROVE  Promise!Next
  <1> USE DEF PromiseInv
  <1>1. /\ pc[k] \in Holding /\ pc'[k] = "close" /\ UNCHANGED <<clients, files, disk>>
    BY DEF Release, Goes, Proceed, Holding, IInv, TypeOK, ThreadTypeOK, dbVars, storeVars
  <1>2. \A j \in Conns : j # k => pc'[j] \notin Holding
    BY <1>1, InSession, OthersStay
  <1>3. Serving # {} /\ Serving' = {}
    BY <1>1, <1>2 DEF Serving, Holding
  <1>4. Promise!End
    BY <1>1, <1>3, SameTables, SameDisk DEF Promise!End, Promise!tables, Tables
  <1> QED BY <1>4 DEF Promise!Next

LEMMA ThreadKept ==
  ASSUME PromiseInv, WritesWork, NEW k \in Conns, Thread(k)
  PROVE  Promise!Next \/ UNCHANGED Promise!vars
  <1>1. CASE \/ AddClient(k) \/ SetSymmetricKey(k) \/ CommitFile(k) \/ SaveFile(k)
             \/ MarkVarified(k) \/ Release(k)
             \/ \E m : SetPublicKey(k, m) \/ CrcValid(k, m)
    BY <1>1, AddClientKept, SetSymmetricKeyKept, CommitFileKept, SaveFileKept,
       MarkVarifiedKept, ReleaseKept, SetPublicKeyKept, CrcValidKept
  <1>2. CASE UNCHANGED <<clients, files, disk>> /\ (pc[k] \in Holding <=> pc'[k] \in Holding)
    BY <1>2, OthersKept
  <1>3. pc \in [Conns -> ThreadState]
    BY DEF PromiseInv, IInv, TypeOK, ThreadTypeOK
  <1>4. CASE Handle(k)
    <2>1. \/ UNCHANGED <<clients, files, disk>> /\ pc[k] \in Holding /\ pc'[k] \in Holding
          \/ AddClient(k) \/ SetSymmetricKey(k) \/ CommitFile(k) \/ SaveFile(k)
          \/ MarkVarified(k)
          \/ \E m : SetPublicKey(k, m) \/ CrcValid(k, m)
      BY <1>3, <1>4, SMTT(60) DEF Handle, CheckName, RecvFileHead, RecvFileChunk, RecvFileRaises,
          StoreFile, Resend, Abort, UnknownRequest, Receives, Refuse, Dies, Goes, Answer,
          Proceed, Holding, dbVars, storeVars
    <2> QED BY <1>1, <1>2, <2>1
  <1>5. CASE ~Handle(k)
    <2>1. \/ Release(k)
          \/ UNCHANGED <<clients, files, disk>> /\ (pc[k] \in Holding <=> pc'[k] \in Holding)
      BY <1>3, <1>5 DEF Thread, Write, WriteRaises, RecvEof, RecvRaises, Close, DropSocket,
          Dies, Goes, Proceed, Holding, serverVars, threadVars, dbVars, storeVars
    <2> QED BY <1>1, <1>2, <2>1
  <1> QED BY <1>4, <1>5

-----------------------------------------------------------------------------
(* The lock lets one connection in at a time.                              *)
LEMMA StartSessionKept ==
  ASSUME PromiseInv, StartSession
  PROVE  Promise!Next
  <1>1. mainConn \in Conns /\ pc \in [Conns -> ThreadState] /\ UNCHANGED <<clients, files, disk>>
    BY DEF PromiseInv, StartSession, IInv, MainOK, TypeOK, ThreadTypeOK, dbVars, storeVars
  <1>2. \A k \in Conns : pc[k] \notin Holding
    BY DEF PromiseInv, StartSession, IInv, LockAccounted
  <1>3. /\ pc'[mainConn] = "recv"
        /\ \A k \in Conns : k # mainConn => pc'[k] = pc[k]
    BY <1>1 DEF StartSession
  <1>4. Serving = {} /\ Serving' = {mainConn}
    BY <1>1, <1>2, <1>3 DEF Serving, Holding
  <1>5. Promise!Begin(mainConn)
    BY <1>1, <1>4, SameTables, SameDisk DEF Promise!Begin, Promise!tables, Tables
  <1> QED BY <1>1, <1>5 DEF Promise!Next

(* A crash ends the session, and may cut off the file it was saving.       *)
LEMMA ServerCrashKept ==
  ASSUME PromiseInv, ServerCrash
  PROVE  Promise!Next \/ UNCHANGED Promise!vars
  <1> USE DEF PromiseInv
  <1> DEFINE saving == {c \in Conns : pc[c] = "save" /\ req[c].file \notin Unwritable}
             x(k) == <<req[k].id, req[k].file>>
  <1>1. UNCHANGED Tables
    BY SameTables DEF ServerCrash, dbVars
  <1>2. Serving' = {}
    BY DEF ServerCrash, Serving, Holding
  <1>3. PICK torn \in SUBSET {x(k) : k \in saving} :
          disk' = [y \in Ids \X FileNames |-> IF y \in torn THEN Torn ELSE disk[y]]
    BY DEF ServerCrash
  <1>4. \A y \in Ids \X FileNames : disk'[y] = IF y \in torn THEN Torn ELSE disk[y]
    BY <1>3
  <1>5. CASE torn = {}
    <2>1. UNCHANGED OnDisk
      BY <1>4, <1>5 DEF OnDisk
    <2> QED BY <1>1, <1>2, <2>1, Invisible DEF Promise!Next, Promise!End, Promise!tables, Tables
  <1>6. CASE torn # {}
    <2>1. PICK k \in saving : x(k) \in torn
      BY <1>6
    <2>2. k \in Conns /\ pc[k] = "save" /\ pc[k] \in Holding
      BY DEF Holding
    <2>3. RowOf(req[k].id, req[k].file)
      BY <2>2 DEF UploadInv, UploadOK, StepOK, Uploads
    <2>4. req[k].id \in Ids /\ req[k].file \in FileNames
      BY <2>2, UploadRequest DEF Uploads
    <2>5. \A j \in saving : j = k
      BY <2>2, InSession DEF Holding
    <2>6. torn = {x(k)}
      BY <2>1, <2>5
    <2> DEFINE y == x(k)
    <2>7. y \in Owners
      BY <2>3, <2>4 DEF Owners
    <2>8. y \in Ids \X FileNames
      BY <2>4
    <2> HIDE DEF y
    <2>9. OnDisk' = OnDisk \cup {y}
      <3>1. torn = {y}
        BY <2>6 DEF y
      <3> QED BY <1>4, <2>8, <3>1, ContentsDiffer DEF OnDisk
    <2>10. Serving # {}
      BY <2>2 DEF Serving
    <2>11. Promise!End
      BY <1>1, <1>2, <2>7, <2>9, <2>10 DEF Promise!End, Promise!tables, Tables
    <2> QED BY <2>11 DEF Promise!Next
  <1> QED BY <1>5, <1>6

LEMMA StepKept ==
  ASSUME PromiseInv, WritesWork, [Next]_vars
  PROVE  Promise!Next \/ UNCHANGED Promise!vars
  <1>1. CASE \E k \in Conns : Thread(k)
    BY <1>1, ThreadKept
  <1>2. CASE StartSession \/ ServerCrash
    BY <1>2, StartSessionKept, ServerCrashKept
  <1>3. CASE UNCHANGED <<pc, clients, files, disk>>
    <2>1. UNCHANGED Serving
      BY <1>3 DEF Serving
    <2> QED BY <1>3, <2>1, SameTables, SameDisk, Invisible
  <1>4. \/ \E k \in Conns : Thread(k)
        \/ StartSession \/ ServerCrash
        \/ UNCHANGED <<pc, clients, files, disk>>
    BY DEF Next, ServerNext, StartServer, Main, Accept, Env, EnvConnect, EnvSend, EnvRead,
           EnvClose, vars, serverVars, threadVars, dbVars, storeVars
  <1> QED BY <1>1, <1>2, <1>3, <1>4

LEMMA InitKept == ASSUME Init PROVE Promise!Init
  <1>1. Serving = {} /\ Users = {} /\ Keyed = {} /\ OnDisk = {}
    BY DEF Init, ServerInit, Serving, Holding, Users, Keyed, HasKey, OnDisk
  <1>2. Owners = {}
    BY DEF Init, ServerInit, Owners, RowOf
  <1>3. Marked = {}
    BY <1>2 DEF Marked
  <1> QED BY <1>1, <1>2, <1>3 DEF Promise!Init

(* The server keeps its promise: whatever its clients send, and whenever it*)
(* is killed, to a client its threads, locks and statements look like one  *)
(* session after the other, whose operations happen at once.               *)
THEOREM Implementation ==
  ASSUME WritesWork, "select" \notin FaultKinds
  PROVE  Spec => PromiseKept
  <1>1. Init => PromiseInv
    <2>1. Init => UploadInv /\ NamesUnique /\ NameStillFree
      BY DEF Init, ServerInit, UploadInv, RowsOK, VarifiedHasFile, UploadOK, Uploads,
             NamesUnique, NameStillFree
    <2> QED BY <2>1, InitIInv DEF PromiseInv
  <1>2. PromiseInv /\ [Next]_vars => PromiseInv'
    BY NextIInv, NextUpload, NextNames DEF PromiseInv
  <1>3. Init => Promise!Init
    BY InitKept
  <1>4. PromiseInv /\ [Next]_vars => [Promise!Next]_(Promise!vars)
    BY StepKept
  <1> QED BY <1>1, <1>2, <1>3, <1>4, PTL DEF Spec, PromiseKept, Promise!Spec
=============================================================================
