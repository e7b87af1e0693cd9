----------------------------- MODULE UploadProofs -----------------------------
(***************************************************************************)
(* What a mark in the files table is worth, for any number of clients and  *)
(* uploads, any behaviour of theirs, and any number of crashes, as long as *)
(* no write to the file system fails: the row is marked for exactly the    *)
(* content that was saved, and every marked file is on disk.               *)
(***************************************************************************)
EXTENDS OpenServerProofs

(* Whatever is saved can be written.                                       *)
WritesWork == "save" \notin FaultKinds /\ Unwritable = {}

-----------------------------------------------------------------------------
(* The values that stand for file contents are told apart.                 *)
LEMMA ContentsDiffer ==
  /\ NullContent \notin Contents \cup {Garbage} /\ Torn # None /\ NullContent # None
  /\ \A c \in Contents \cup {Garbage} : c # None
  <1>1. NullContent \notin Contents
    BY BodyAssumption DEF Contents, Padded, NoBytes, NullContent
  <1>2. NullContent # Garbage
    BY DEF NullContent, Garbage
  <1> QED BY <1>1, <1>2, NoneAssumption

(* A client with a key has its uploads decrypted to something.             *)
LEMMA KeyDecrypts ==
  ASSUME NEW m \in Uploading, NEW i, HasKey(i)
  PROVE  Decrypt(clients[i].aesKey, m) \in Contents \cup {Garbage}
  BY DEF HasKey, Decrypt, Uploading, SendFileRequest

(* No step takes a session key away.                                       *)
LEMMA KeysPersist ==
  ASSUME IInv, [Next]_vars, NEW i \in Ids, HasKey(i)
  PROVE  HasKey(i)'
  BY RowsPersist DEF HasKey, KeepsClients

(* Rows belong to ids.                                                     *)
LEMMA OwnerType ==
  ASSUME IInv, NEW f \in FileNames, files[f] # None
  PROVE  files[f] \in FileRow /\ files[f].owner \in Ids
  BY DEF IInv, TypeOK, StoreTypeOK, FileRow

(* The request of a handler of uploads names an id and a file.             *)
LEMMA UploadRequest ==
  ASSUME IInv, NEW k \in Conns, pc[k] \in Uploads \cup {"decrypt"}
  PROVE  /\ pc[k] \in Holding
         /\ req[k].id \in Ids /\ req[k].file \in FileNames
         /\ pc[k] \in {"decrypt", "commitFile"} => req[k] \in Uploading
  <1>1. HandlerOK(k)
    BY DEF IInv
  <1>2. req[k] \in Uploading \/ req[k] \in CrcStatusRequest
    BY <1>1 DEF HandlerOK, Uploads
  <1>3. req[k].id \in Ids /\ req[k].file \in FileNames
    BY <1>2 DEF Uploading, SendFileRequest, CrcStatusRequest
  <1> QED BY <1>1, <1>3 DEF HandlerOK, Uploads, Holding

(* What a step of one session has to show: nobody else is in an upload.    *)
LEMMA SoleUpload ==
  ASSUME IInv, NEW k \in Conns, pc[k] \in Holding, Thread(k),
         RowsOK', VarifiedHasFile', UploadOK(k)'
  PROVE  UploadInv'
  <1>1. ASSUME NEW j \in Conns, j # k PROVE UploadOK(j)'
    <2>1. pc[j] \notin Holding /\ pc'[j] = pc[j]
      BY <1>1, InSession, OthersStay
    <2> QED BY <2>1 DEF UploadOK, Uploads, Holding
  <1> QED BY <1>1 DEF UploadInv

(* A step that leaves the files alone and starts no part of an upload.     *)
LEMMA FilesAlone ==
  ASSUME IInv, UploadInv, [Next]_vars, UNCHANGED <<files, fileDict, disk>>,
         \A j \in Conns : \/ pc'[j] = pc[j] /\ req'[j] = req[j]
                          \/ pc'[j] \notin Uploads
  PROVE  UploadInv'
  <1>1. RowsOK'
    <2>1. ASSUME NEW f \in FileNames, files[f] # None
          PROVE  HasKey(files[f].owner)' /\ fileDict'[<<files[f].owner, f>>] # NullContent
      BY <2>1, OwnerType, KeysPersist DEF UploadInv, RowsOK, HasKey
    <2> QED BY <2>1 DEF RowsOK, HasKey
  <1>2. VarifiedHasFile'
    BY DEF UploadInv, VarifiedHasFile
  <1>3. ASSUME NEW j \in Conns, pc'[j] \in Uploads
        PROVE  StepOK(pc[j], req[j].id, req[j].file)'
    <2>1. pc'[j] = pc[j] /\ req'[j] = req[j]
      BY <1>3
    <2>2. StepOK(pc[j], req[j].id, req[j].file) /\ req[j].id \in Ids
      BY <1>3, <2>1, UploadRequest DEF UploadInv, UploadOK
    <2>3. HasKey(req[j].id) => HasKey(req[j].id)'
      BY <2>1, <2>2, KeysPersist DEF HasKey
    <2> QED BY <2>1, <2>2, <2>3 DEF StepOK, RowOf
  <1> QED BY <1>1, <1>2, <1>3 DEF UploadInv, UploadOK

-----------------------------------------------------------------------------
(* The handlers that touch the files.                                      *)

(* Decrypted content goes into fileDict.                                   *)
LEMMA StoreFileUpload ==
  ASSUME IInv, UploadInv, [Next]_vars, NEW k \in Conns, StoreFile(k)
  PROVE  UploadInv'
  <1> DEFINE i == req[k].id
             f == req[k].file
             content == Decrypt(clients[i].aesKey, req[k])
  <1>1. /\ pc[k] \in Holding /\ i \in Ids /\ f \in FileNames /\ req[k] \in Uploading
        /\ Thread(k) /\ UNCHANGED <<files, disk, clients>>
    BY UploadRequest DEF StoreFile, Thread, Handle, dbVars
  <1>2. /\ pc \in [Conns -> ThreadState] /\ req \in [Conns -> Request \cup Uploading \cup {None}]
        /\ fileDict \in [Ids \X FileNames -> Stored]
    BY DEF IInv, TypeOK, ThreadTypeOK, StoreTypeOK
  <1>3. VarifiedHasFile'
    BY <1>1 DEF UploadInv, VarifiedHasFile
  <1>4. CASE UNCHANGED fileDict /\ (Refuse(k) \/ Dies(k))
    <2>1. pc'[k] \notin Uploads
      BY <1>2, <1>4 DEF Refuse, Answer, Dies, Proceed, Uploads
    <2>2. RowsOK'
      BY <1>1, <1>4 DEF UploadInv, RowsOK, HasKey
    <2> QED BY <1>1, <1>3, <2>1, <2>2, SoleUpload DEF UploadOK
  <1>5. CASE /\ ClientExists(i) /\ fileDict' = [fileDict EXCEPT ![<<i, f>>] = content]
             /\ IF content = NullContent
                  THEN Answer(k, req[k], <<Reply("MSG_RECEIVED_CRC", None)>>)
                  ELSE Goes(k, "commitFile")
    <2>1. content = NullContent \/ HasKey(i)
      BY <1>5 DEF HasKey, Decrypt, ClientExists
    <2>2. ASSUME NEW g \in FileNames, files[g] # None
          PROVE  HasKey(files[g].owner) /\ fileDict'[<<files[g].owner, g>>] # NullContent
      <3>1. files[g].owner \in Ids /\ HasKey(files[g].owner)
            /\ fileDict[<<files[g].owner, g>>] # NullContent
        BY <2>2, OwnerType DEF UploadInv, RowsOK
      <3>2. CASE <<files[g].owner, g>> = <<i, f>>
        <4>1. content # NullContent
          BY <1>1, <3>1, <3>2, KeyDecrypts, ContentsDiffer
        <4> QED BY <1>1, <1>2, <1>5, <3>1, <3>2, <4>1
      <3>3. CASE <<files[g].owner, g>> # <<i, f>>
        BY <1>1, <1>2, <1>5, <3>1, <3>3
      <3> QED BY <3>2, <3>3
    <2>3. RowsOK'
      BY <1>1, <2>2 DEF RowsOK, HasKey
    <2>4. UploadOK(k)'
      <3>1. CASE content = NullContent
        BY <1>2, <1>5, <3>1 DEF Answer, UploadOK, Uploads
      <3>2. CASE content # NullContent
        <4>1. pc'[k] = "commitFile" /\ req'[k] = req[k] /\ HasKey(i)
          BY <1>2, <1>5, <2>1, <3>2 DEF Goes, Proceed
        <4> QED BY <1>1, <4>1 DEF UploadOK, StepOK, HasKey
      <3> QED BY <3>1, <3>2
    <2> QED BY <1>1, <1>3, <2>3, <2>4, SoleUpload
  <1> QED BY <1>4, <1>5 DEF StoreFile, NewFile

(* The row is written, unmarked.                                           *)
LEMMA CommitFileUpload ==
  ASSUME IInv, UploadInv, [Next]_vars, NEW k \in Conns, CommitFile(k)
  PROVE  UploadInv'
  <1> DEFINE i == req[k].id
             f == req[k].file
             row == [owner |-> i, varified |-> FALSE]
  <1>1. /\ pc[k] \in Holding /\ i \in Ids /\ f \in FileNames /\ HasKey(i)
        /\ fileDict[<<i, f>>] \in Contents \cup {Garbage}
        /\ Thread(k) /\ UNCHANGED <<fileDict, disk>>
    BY UploadRequest DEF CommitFile, Thread, Handle, storeVars, Uploads, UploadInv,
                         UploadOK, StepOK, IInv, HandlerOK
  <1>2. pc \in [Conns -> ThreadState] /\ files \in [FileNames -> FileRow \cup {None}]
    BY DEF IInv, TypeOK, ThreadTypeOK, StoreTypeOK
  <1>3. UploadOK(k)'
    BY <1>2 DEF CommitFile, Answer, UploadOK, Uploads
  <1>4. row.owner = i /\ row.varified = FALSE
    OBVIOUS
  <1>5. UNCHANGED files \/ files' = [files EXCEPT ![f] = row]
    BY DEF CommitFile
  <1> HIDE DEF row
  <1>6. \A o \in Ids : HasKey(o) => clients'[o] # None /\ clients'[o].aesKey # None
    BY KeysPersist DEF HasKey
  <1>7. ASSUME NEW g \in FileNames, files'[g] # None
        PROVE  LET o == files'[g].owner
               IN  /\ clients'[o] # None /\ clients'[o].aesKey # None
                   /\ fileDict'[<<o, g>>] # NullContent
                   /\ files'[g].varified => disk'[<<o, g>>] # None
    <2>1. CASE files'[g] = files[g]
      <3>1. files[g].owner \in Ids /\ HasKey(files[g].owner)
        BY <1>7, <2>1, OwnerType DEF UploadInv, RowsOK
      <3> QED BY <1>1, <1>6, <1>7, <2>1, <3>1 DEF UploadInv, RowsOK, VarifiedHasFile
    <2>2. CASE g = f /\ files'[g] = row
      BY <1>1, <1>4, <1>6, <2>2, ContentsDiffer
    <2> QED BY <1>1, <1>2, <1>5, <2>1, <2>2
  <1>8. RowsOK' /\ VarifiedHasFile'
    BY <1>7 DEF RowsOK, VarifiedHasFile, HasKey
  <1> QED BY <1>1, <1>3, <1>8, SoleUpload

(* The client confirmed the checksum: its file will be saved.              *)
LEMMA CrcValidUpload ==
  ASSUME IInv, UploadInv, [Next]_vars, NEW k \in Conns, NEW m, Thread(k), CrcValid(k, m)
  PROVE  UploadInv'
  <1>1. pc[k] \in Holding /\ UNCHANGED <<files, fileDict, disk>>
    BY ReceivesFacts DEF CrcValid, storeVars
  <1>2. pc \in [Conns -> ThreadState] /\ req \in [Conns -> Request \cup Uploading \cup {None}]
    BY DEF IInv, TypeOK, ThreadTypeOK
  <1>3. UploadOK(k)'
    <2>1. CASE Refuse(k)
      BY <1>2, <2>1 DEF Refuse, Answer, UploadOK, Uploads
    <2>2. CASE /\ RowOf(m.id, m.file) /\ fileDict[<<m.id, m.file>>] # None
               /\ Proceed(k, "save", m, 0)
      <3>1. pc'[k] = "save" /\ req'[k] = m
        BY <1>2, <2>2 DEF Proceed
      <3> QED BY <1>1, <2>2, <3>1 DEF UploadOK, StepOK, RowOf
    <2> QED BY <2>1, <2>2 DEF CrcValid
  <1>4. RowsOK'
    <2>1. ASSUME NEW f \in FileNames, files[f] # None
          PROVE  HasKey(files[f].owner)' /\ fileDict'[<<files[f].owner, f>>] # NullContent
      BY <1>1, <2>1, OwnerType, KeysPersist DEF UploadInv, RowsOK, HasKey
    <2> QED BY <1>1, <2>1 DEF RowsOK, HasKey
  <1>5. VarifiedHasFile'
    BY <1>1 DEF UploadInv, VarifiedHasFile
  <1> QED BY <1>1, <1>3, <1>4, <1>5, SoleUpload

(* The file is written: whole, because nothing fails.                      *)
LEMMA SaveFileUpload ==
  ASSUME IInv, UploadInv, WritesWork, NEW k \in Conns, SaveFile(k)
  PROVE  UploadInv'
  <1> DEFINE i == req[k].id
             f == req[k].file
  <1>1. /\ pc[k] \in Holding /\ i \in Ids /\ f \in FileNames /\ RowOf(i, f)
        /\ fileDict[<<i, f>>] # None
        /\ Thread(k) /\ UNCHANGED <<files, fileDict, clients>>
    BY UploadRequest DEF SaveFile, Thread, Handle, dbVars, Uploads, UploadInv,
                         UploadOK, StepOK
  <1>2. /\ pc \in [Conns -> ThreadState] /\ req \in [Conns -> Request \cup Uploading \cup {None}]
        /\ disk \in [Ids \X FileNames -> Stored \cup {Torn}]
    BY DEF IInv, TypeOK, ThreadTypeOK, StoreTypeOK
  <1>3. fileDict[<<i, f>>] # NullContent
    BY <1>1 DEF UploadInv, RowsOK, RowOf
  <1>4. disk' = [disk EXCEPT ![<<i, f>>] = fileDict[<<i, f>>]]
    BY <1>3 DEF SaveFile, Fails, Saved, WritesWork
  <1>5. /\ disk'[<<i, f>>] = fileDict[<<i, f>>]
        /\ \A x \in Ids \X FileNames : disk[x] # None => disk'[x] # None
    BY <1>1, <1>2, <1>4
  <1>6. RowsOK'
    BY <1>1 DEF UploadInv, RowsOK, HasKey
  <1>7. VarifiedHasFile'
    <2>1. ASSUME NEW g \in FileNames, files[g] # None, files[g].varified
          PROVE  disk'[<<files[g].owner, g>>] # None
      BY <1>5, <2>1, OwnerType DEF UploadInv, VarifiedHasFile
    <2> QED BY <1>1, <2>1 DEF VarifiedHasFile
  <1>8. UploadOK(k)'
    <2>1. pc'[k] = "mark" /\ req'[k] = req[k]
      BY <1>2 DEF SaveFile, Goes, Proceed
    <2> QED BY <1>1, <1>5, <2>1 DEF UploadOK, StepOK, RowOf
  <1> QED BY <1>1, <1>6, <1>7, <1>8, SoleUpload

(* Its row is marked.                                                      *)
LEMMA MarkVarifiedUpload ==
  ASSUME IInv, UploadInv, NEW k \in Conns, MarkVarified(k)
  PROVE  UploadInv'
  <1> DEFINE i == req[k].id
             f == req[k].file
             row == [files[f] EXCEPT !.varified = TRUE]
  <1>1. /\ pc[k] \in Holding /\ i \in Ids /\ f \in FileNames /\ RowOf(i, f)
        /\ disk[<<i, f>>] # None
        /\ Thread(k) /\ UNCHANGED <<disk, fileDict, clients>>
    BY UploadRequest DEF MarkVarified, Thread, Handle, storeVars, Uploads, UploadInv,
                         UploadOK, StepOK
  <1>2. pc \in [Conns -> ThreadState] /\ files \in [FileNames -> FileRow \cup {None}]
    BY DEF IInv, TypeOK, ThreadTypeOK, StoreTypeOK
  <1>3. UploadOK(k)'
    BY <1>2 DEF MarkVarified, Answer, UploadOK, Uploads
  <1>4. row.owner = i
    BY <1>1, <1>2 DEF RowOf, FileRow
  <1>5. UNCHANGED files \/ files' = [files EXCEPT ![f] = row]
    BY DEF MarkVarified
  <1> HIDE DEF row
  <1>6. ASSUME NEW g \in FileNames, files'[g] # None
        PROVE  /\ files[g] # None /\ files'[g].owner = files[g].owner
               /\ files'[g].varified => disk[<<files[g].owner, g>>] # None
    <2>1. CASE files'[g] = files[g]
      BY <1>6, <2>1 DEF UploadInv, VarifiedHasFile
    <2>2. CASE g = f /\ files'[g] = row
      BY <1>1, <1>4, <2>2 DEF RowOf
    <2> QED BY <1>1, <1>2, <1>5, <2>1, <2>2
  <1>7. RowsOK' /\ VarifiedHasFile'
    BY <1>1, <1>6 DEF UploadInv, RowsOK, VarifiedHasFile, HasKey
  <1> QED BY <1>1, <1>3, <1>7, SoleUpload

(* All other steps of a thread.                                            *)
LEMMA ThreadUpload ==
  ASSUME IInv, UploadInv, WritesWork, [Next]_vars, NEW k \in Conns, Thread(k)
  PROVE  UploadInv'
  <1>1. CASE StoreFile(k) \/ CommitFile(k) \/ SaveFile(k) \/ MarkVarified(k)
    BY <1>1, StoreFileUpload, CommitFileUpload, SaveFileUpload, MarkVarifiedUpload
  <1>2. CASE \E m : CrcValid(k, m)
    BY <1>2, CrcValidUpload
  <1>3. CASE /\ UNCHANGED <<files, fileDict, disk>>
             /\ UNCHANGED <<pc, req>>
                  \/ \E p, r : p \notin Uploads /\ pc' = [pc EXCEPT ![k] = p]
    <2>1. pc \in [Conns -> ThreadState]
      BY DEF IInv, TypeOK, ThreadTypeOK
    <2>2. ASSUME NEW j \in Conns
          PROVE  (pc'[j] = pc[j] /\ req'[j] = req[j]) \/ pc'[j] \notin Uploads
      BY <1>3, <2>1, <2>2, OthersStay
    <2> QED BY <1>3, <2>2, FilesAlone
  <1>4. CASE Handle(k)
    BY <1>1, <1>2, <1>3, <1>4
       DEF Handle, CheckName, AddClient, SetPublicKey, SetSymmetricKey, RecvFileHead,
           RecvFileChunk, RecvFileRaises, Resend, Abort, UnknownRequest, Refuse, Dies,
           Goes, Answer, Proceed, Uploads, dbVars, storeVars
  <1>5. CASE ~Handle(k)
    BY <1>3, <1>5
       DEF Thread, Write, WriteRaises, RecvEof, RecvRaises, Release, Close, DropSocket,
           Dies, Goes, Proceed, Uploads, serverVars, threadVars, dbVars, storeVars
  <1> QED BY <1>4, <1>5

-----------------------------------------------------------------------------
(* The invariant.                                                          *)

(* A restarted server has forgotten the contents, and is in no upload.     *)
LEMMA ServerCrashUpload ==
  ASSUME IInv, UploadInv, ServerCrash
  PROVE  UploadInv'
  <1>1. UNCHANGED <<files, clients>> /\ \A k \in Conns : pc'[k] \notin Uploads
    BY DEF ServerCrash, dbVars, Uploads
  <1>2. ASSUME NEW f \in FileNames, files[f] # None
        PROVE  /\ fileDict'[<<files[f].owner, f>>] # NullContent
               /\ files[f].varified => disk'[<<files[f].owner, f>>] # None
    <2>1. <<files[f].owner, f>> \in Ids \X FileNames
      BY <1>2, OwnerType
    <2> QED BY <1>2, <2>1, ContentsDiffer DEF ServerCrash, UploadInv, VarifiedHasFile
  <1>3. RowsOK' /\ VarifiedHasFile'
    BY <1>1, <1>2 DEF UploadInv, RowsOK, VarifiedHasFile, HasKey
  <1> QED BY <1>1, <1>3 DEF UploadInv, UploadOK

(* Every step keeps it.                                                    *)
LEMMA NextUpload ==
  ASSUME IInv, UploadInv, WritesWork, [Next]_vars
  PROVE  UploadInv'
  <1>1. ASSUME NEW k \in Conns, Thread(k) PROVE UploadInv'
    BY <1>1, ThreadUpload
  <1>2. CASE ServerCrash
    BY <1>2, ServerCrashUpload
  <1>3. CASE StartSession
    <2>1. mainConn \in Conns /\ pc \in [Conns -> ThreadState]
      BY <1>3 DEF StartSession, IInv, MainOK, TypeOK, ThreadTypeOK
    <2>2. ASSUME NEW j \in Conns
          PROVE  (pc'[j] = pc[j] /\ req'[j] = req[j]) \/ pc'[j] \notin Uploads
      BY <1>3, <2>1 DEF StartSession, Uploads
    <2> QED BY <1>3, <2>2, FilesAlone DEF StartSession, storeVars, dbVars
  <1>4. CASE UNCHANGED <<pc, req, files, fileDict, disk>>
    BY <1>4, FilesAlone
  <1>5. \/ \E k \in Conns : Thread(k)
        \/ StartSession \/ ServerCrash
        \/ UNCHANGED <<pc, req, files, fileDict, disk>>
    BY DEF Next, ServerNext, StartServer, Main, Accept, Env, EnvConnect, EnvSend, EnvRead,
           EnvClose, vars, serverVars, threadVars, dbVars, storeVars
  <1> QED BY <1>1, <1>2, <1>3, <1>4, <1>5

(* It holds in every state of a server whose writes do not fail.           *)
THEOREM UploadInvariance ==
  ASSUME WritesWork
  PROVE  Spec => [](IInv /\ UploadInv)
  <1>1. Init => IInv /\ UploadInv
    <2>1. Init => UploadInv
      BY DEF Init, ServerInit, UploadInv, RowsOK, VarifiedHasFile, UploadOK, Uploads
    <2> QED BY <2>1, InitIInv
  <1>2. IInv /\ UploadInv /\ [Next]_vars => (IInv /\ UploadInv)'
    BY NextIInv, NextUpload
  <1> QED BY <1>1, <1>2, PTL DEF Spec

(* A marked file is on disk: updateVerification marks what saveFile wrote, *)
(* no crash in between leaves a mark without a file, and none after it.    *)
THEOREM MarkedIsOnDisk ==
  ASSUME WritesWork
  PROVE  Spec => []VarifiedHasFile
  <1>1. UploadInv => VarifiedHasFile
    BY DEF UploadInv
  <1> QED BY <1>1, UploadInvariance, PTL

(* The one UPDATE that marks a row finds on disk what fileDict holds.      *)
LEMMA MarkStep ==
  ASSUME IInv, UploadInv, [Next]_vars, NEW f \in FileNames,
         files'[f] # None, files'[f].varified, ~(files[f] # None /\ files[f].varified)
  PROVE  disk[<<files'[f].owner, f>>] = fileDict[<<files'[f].owner, f>>]
  <1>1. files \in [FileNames -> FileRow \cup {None}]
    BY DEF IInv, TypeOK, StoreTypeOK
  <1>2. PICK k \in Conns : CommitFile(k) \/ MarkVarified(k)
    <2>1. ASSUME NEW k \in Conns, Thread(k)
          PROVE  CommitFile(k) \/ MarkVarified(k) \/ UNCHANGED files
      <3>1. CASE Handle(k)
        BY <3>1 DEF Handle, CheckName, AddClient, SetPublicKey, SetSymmetricKey,
                    RecvFileHead, CrcValid, Resend, Abort, UnknownRequest,
                    RecvFileChunk, RecvFileRaises, StoreFile, SaveFile, dbVars
      <3>2. CASE ~Handle(k)
        BY <2>1, <3>2 DEF Thread, Write, WriteRaises, RecvEof, RecvRaises, Release,
                          Close, DropSocket, serverVars, dbVars
      <3> QED BY <3>1, <3>2
    <2>2. (\E k \in Conns : Thread(k)) \/ UNCHANGED files
      BY DEF Next, ServerNext, StartServer, Main, Accept, StartSession, ServerCrash, Env, EnvConnect,
             EnvSend, EnvRead, EnvClose, vars, serverVars, dbVars
    <2> QED BY <2>1, <2>2
  <1> DEFINE i == req[k].id
             g == req[k].file
  <1>3. CASE CommitFile(k)
    <2> DEFINE row == [owner |-> i, varified |-> FALSE]
    <2>1. row.varified = FALSE
      OBVIOUS
    <2>2. UNCHANGED files \/ files' = [files EXCEPT ![g] = row]
      BY <1>3 DEF CommitFile
    <2> HIDE DEF row
    <2> QED BY <1>1, <2>1, <2>2
  <1>4. CASE MarkVarified(k)
    <2>1. RowOf(i, g) /\ disk[<<i, g>>] = fileDict[<<i, g>>] /\ g \in FileNames
      BY <1>4, UploadRequest DEF MarkVarified, UploadInv, UploadOK, StepOK, Uploads
    <2> DEFINE row == [files[g] EXCEPT !.varified = TRUE]
    <2>2. row.owner = i
      BY <1>1, <2>1 DEF RowOf, FileRow
    <2>3. UNCHANGED files \/ files' = [files EXCEPT ![g] = row]
      BY <1>4 DEF MarkVarified
    <2> HIDE DEF row
    <2> QED BY <1>1, <2>1, <2>2, <2>3
  <1> QED BY <1>2, <1>3, <1>4

(* Marks are true: whatever two sessions of one client interleave, a row   *)
(* becomes verified only while its file on disk is exactly the content the *)
(* server holds in fileDict; no upload slips in between saveFile and the   *)
(* UPDATE in updateVerification.                                           *)
THEOREM MarksAreTrue ==
  ASSUME WritesWork
  PROVE  Spec => MarksWhatItSaved
  <1>1. IInv /\ UploadInv /\ [Next]_vars =>
          [\A f \in FileNames :
             files'[f] # None /\ files'[f].varified /\ ~(files[f] # None /\ files[f].varified) =>
               disk[<<files'[f].owner, f>>] = fileDict[<<files'[f].owner, f>>]]_vars
    BY MarkStep
  <1> QED BY <1>1, UploadInvariance, PTL DEF Spec, MarksWhatItSaved
-----------------------------------------------------------------------------
(* What a client is told, and what marks are worth without a crash, if no  *)
(* commit fails either.                                                    *)

CommitsWork == "commit" \notin FaultKinds

(* The file of a CRC_VALID is marked, and on disk as fileDict holds it.    *)
Kept(r) ==
  /\ files[r.file] = [owner |-> r.id, varified |-> TRUE]
  /\ disk[<<r.id, r.file>>] = fileDict[<<r.id, r.file>>]

Approval == Reply("MSG_RECEIVED", None)
NoApproval(rs) == \A n \in 1..Len(rs) : rs[n].code # "MSG_RECEIVED"

ToldOK(k) ==
  pc[k] = "write" => NoApproval(out[k]) \/ (out[k] = <<Approval>> /\ Kept(req[k]))

(* Before a crash nothing on disk is cut off, and nothing was written from *)
(* Python's None.                                                          *)
DiskWhole ==
  crashes = 0 => \A x \in Ids \X FileNames : disk[x] \notin {NullContent, Torn}

SavedInv == DiskWhole /\ \A k \in Conns : ToldOK(k)

(* What a step of one session has to show.                                 *)
LEMMA SoleTold ==
  ASSUME IInv, NEW k \in Conns, pc[k] \in Holding, Thread(k), ToldOK(k)', DiskWhole'
  PROVE  SavedInv'
  <1>1. ASSUME NEW j \in Conns, j # k PROVE ToldOK(j)'
    <2>1. pc[j] \notin Holding /\ pc'[j] = pc[j]
      BY <1>1, InSession, OthersStay
    <2> QED BY <2>1 DEF ToldOK, Holding
  <1> QED BY <1>1 DEF SavedInv

(* A step that changes neither the disk nor the number of crashes.         *)
LEMMA DiskStaysWhole ==
  ASSUME SavedInv, UNCHANGED <<disk, crashes>>
  PROVE  DiskWhole'
  BY DEF SavedInv, DiskWhole

(* A refusal, a failure, and an answer with another code approve of        *)
(* nothing.                                                                *)
LEMMA OthersApproveNothing ==
  /\ NoApproval(<<Failed, Failed>>) /\ NoApproval(<<Failed>>)
  /\ NoApproval(<<Reply("MSG_RECEIVED_CRC", None), Failed>>)
  /\ \A v : /\ NoApproval(<<Reply("MSG_RECEIVED_CRC", v)>>)
           /\ NoApproval(<<Reply("PUBLIC_KEY_RECEIVED", v)>>)
           /\ NoApproval(<<Reply("REGISTRATION_SUCCEEDED", v)>>)
  BY DEF NoApproval, Failed, Reply

(* saveFile writes what fileDict holds, which is whole.                    *)
LEMMA SaveFileSaved ==
  ASSUME IInv, UploadInv, SavedInv, WritesWork, NEW k \in Conns, SaveFile(k)
  PROVE  SavedInv'
  <1> DEFINE x == <<req[k].id, req[k].file>>
  <1>1. /\ pc[k] \in Holding /\ x \in Ids \X FileNames /\ RowOf(req[k].id, req[k].file)
        /\ Thread(k)
    BY UploadRequest DEF SaveFile, Thread, Handle, Uploads, UploadInv, UploadOK, StepOK
  <1>2. /\ pc \in [Conns -> ThreadState] /\ fileDict \in [Ids \X FileNames -> Stored]
        /\ disk \in [Ids \X FileNames -> Stored \cup {Torn}]
    BY DEF IInv, TypeOK, ThreadTypeOK, StoreTypeOK
  <1>3. fileDict[x] # NullContent
    BY <1>1 DEF UploadInv, RowsOK, RowOf
  <1>4. fileDict[x] # Torn
    <2>1. Torn \notin Contents
      BY BodyAssumption DEF Contents, Padded, NoBytes, Torn
    <2>2. Torn # Garbage /\ Torn # NullContent
      BY DEF Torn, Garbage, NullContent
    <2> QED BY <1>1, <1>2, <2>1, <2>2, ContentsDiffer DEF Stored
  <1>5. disk' = [disk EXCEPT ![x] = fileDict[x]] /\ UNCHANGED crashes
    BY <1>3 DEF SaveFile, Fails, Works, limitVars, Saved, WritesWork
  <1>6. DiskWhole'
    BY <1>2, <1>3, <1>4, <1>5 DEF SavedInv, DiskWhole
  <1>7. ToldOK(k)'
    BY <1>2 DEF SaveFile, Goes, Proceed, ToldOK
  <1> QED BY <1>1, <1>6, <1>7, SoleTold

(* updateVerification marks the row of what saveFile wrote.                *)
LEMMA MarkVarifiedSaved ==
  ASSUME IInv, UploadInv, SavedInv, CommitsWork, NEW k \in Conns, MarkVarified(k)
  PROVE  SavedInv'
  <1> DEFINE i == req[k].id
             f == req[k].file
  <1>1. /\ pc[k] \in Holding /\ i \in Ids /\ f \in FileNames /\ RowOf(i, f)
        /\ disk[<<i, f>>] = fileDict[<<i, f>>]
        /\ Thread(k) /\ UNCHANGED <<disk, fileDict>>
    BY UploadRequest DEF MarkVarified, Thread, Handle, storeVars, Uploads, UploadInv,
                         UploadOK, StepOK
  <1>2. /\ pc \in [Conns -> ThreadState] /\ files \in [FileNames -> FileRow \cup {None}]
        /\ req \in [Conns -> Request \cup Uploading \cup {None}]
        /\ out \in [Conns -> Seq(Response)]
    BY DEF IInv, TypeOK, ThreadTypeOK, StoreTypeOK
  <1>3. Works /\ files' = [files EXCEPT ![f].varified = TRUE]
    BY DEF MarkVarified, Fails, CommitsWork
  <1>4. files'[f] = [owner |-> i, varified |-> TRUE]
    BY <1>1, <1>2, <1>3 DEF RowOf, FileRow
  <1>5. req'[k] = req[k] /\ out'[k] = <<Approval>>
    BY <1>2 DEF MarkVarified, Answer, Approval
  <1>6. Kept(req[k])'
    BY <1>1, <1>4, <1>5 DEF Kept
  <1>7. DiskWhole'
    BY <1>1, <1>3, DiskStaysWhole DEF Works, limitVars
  <1> QED BY <1>1, <1>5, <1>6, <1>7, SoleTold DEF ToldOK

(* The handlers that touch no disk and approve of nothing.                 *)
LEMMA HandleSaved ==
  ASSUME IInv, UploadInv, SavedInv, WritesWork, CommitsWork, NEW k \in Conns, Handle(k)
  PROVE  SavedInv'
  <1>1. CASE SaveFile(k) \/ MarkVarified(k)
    BY <1>1, SaveFileSaved, MarkVarifiedSaved
  <1>2. CASE ~(SaveFile(k) \/ MarkVarified(k))
    <2>1. pc \in [Conns -> ThreadState] /\ out \in [Conns -> Seq(Response)]
      BY DEF IInv, TypeOK, ThreadTypeOK
    <2>2. Thread(k)
      BY DEF Thread
    <2>3. pc[k] \in Holding
      BY <1>2 DEF Handle, CheckName, SetPublicKey, RecvFileHead, CrcValid, Resend, Abort,
                  UnknownRequest, Receives, AddClient, SetSymmetricKey, RecvFileChunk,
                  RecvFileRaises, StoreFile, CommitFile, Holding
    <2>4. UNCHANGED <<disk, crashes>>
      BY <1>2 DEF Handle, CheckName, SetPublicKey, RecvFileHead, CrcValid, Resend, Abort,
                  UnknownRequest, AddClient, SetSymmetricKey, RecvFileChunk, RecvFileRaises,
                  StoreFile, CommitFile, Works, Fails, limitVars, storeVars
    <2> DEFINE Quiet == pc'[k] # "write" \/ NoApproval(out'[k])
    <2>5. ASSUME NEW r, NEW rs, Answer(k, r, rs), NoApproval(rs) PROVE Quiet
      BY <2>1, <2>5 DEF Answer
    <2>6. Refuse(k) => Quiet
      BY <2>5, OthersApproveNothing DEF Refuse
    <2>7. ASSUME NEW p, NEW r, NEW n, Proceed(k, p, r, n), p # "write" PROVE Quiet
      BY <2>1, <2>7 DEF Proceed
    <2>8. Dies(k) => Quiet
      BY <2>7 DEF Dies
    <2> HIDE DEF Quiet
    <2>10. ASSUME NEW m, CheckName(k, m) \/ SetPublicKey(k, m) \/ RecvFileHead(k, m)
           PROVE  Quiet
      BY <2>6, <2>7, <2>10, Zenon DEF CheckName, SetPublicKey, RecvFileHead
    <2>11. ASSUME NEW m, CrcValid(k, m) \/ Abort(k, m) \/ UnknownRequest(k, m) PROVE Quiet
      <3>1. \/ Refuse(k) \/ Dies(k) \/ Answer(k, None, <<Failed>>)
            \/ Proceed(k, "save", m, 0)
        BY <2>11, Zenon DEF CrcValid, Abort, UnknownRequest
      <3> QED BY <2>5, <2>6, <2>7, <2>8, OthersApproveNothing, <3>1
    <2>12. ASSUME NEW m, Resend(k, m) PROVE Quiet
      <3>1. \/ Refuse(k) \/ Dies(k)
            \/ \E v : Answer(k, m, <<Reply("MSG_RECEIVED_CRC", v)>>)
            \/ Answer(k, None, <<Reply("MSG_RECEIVED_CRC", None), Failed>>)
        BY <2>12, Zenon DEF Resend
      <3> QED BY <2>5, <2>6, <2>8, OthersApproveNothing, <3>1
    <2>13. ASSUME AddClient(k) \/ SetSymmetricKey(k) PROVE Quiet
      BY <2>5, <2>6, <2>8, OthersApproveNothing, <2>13 DEF AddClient, SetSymmetricKey
    <2>14. ASSUME RecvFileChunk(k) \/ RecvFileRaises(k) PROVE Quiet
      <3>1. Refuse(k) \/ \E p \in {"file", "decrypt"} : \E r, n : Proceed(k, p, r, n)
        BY <2>14 DEF RecvFileChunk, RecvFileRaises
      <3> QED BY <2>6, <2>7, <3>1
    <2>15. ASSUME StoreFile(k) \/ CommitFile(k) PROVE Quiet
      <3>1. \/ Refuse(k) \/ Dies(k) \/ Proceed(k, "commitFile", req[k], left[k])
            \/ \E v : Answer(k, req[k], <<Reply("MSG_RECEIVED_CRC", v)>>)
        BY <2>15, Zenon DEF StoreFile, CommitFile, Goes
      <3>2. Proceed(k, "commitFile", req[k], left[k]) => Quiet
        BY <2>7
      <3> QED BY <2>5, <2>6, <2>8, OthersApproveNothing, <3>1, <3>2, Zenon
    <2>16. Quiet
      BY <1>2, <2>10, <2>11, <2>12, <2>13, <2>14, <2>15 DEF Handle
    <2> QED BY <2>2, <2>3, <2>4, <2>16, DiskStaysWhole, SoleTold DEF ToldOK, Quiet
  <1> QED BY <1>1, <1>2

(* write() sends the first packet; those after it approve of nothing.      *)
LEMMA WriteSaved ==
  ASSUME IInv, SavedInv, NEW k \in Conns, Write(k)
  PROVE  SavedInv'
  <1>1. /\ pc[k] = "write" /\ pc[k] \in Holding /\ Thread(k) /\ ToldOK(k)
        /\ pc \in [Conns -> ThreadState] /\ out \in [Conns -> Seq(Response)]
        /\ out[k] # <<>> /\ UNCHANGED <<disk, crashes>>
    BY DEF Write, Holding, Thread, IInv, HandlerOK, TypeOK, ThreadTypeOK, SavedInv,
           storeVars, limitVars
  <1>2. out[k] \in Seq(Response) /\ out'[k] = Tail(out[k])
    BY <1>1 DEF Write
  <1>3. CASE NoApproval(out[k])
    <2>1. NoApproval(out'[k])
      BY <1>1, <1>2, <1>3 DEF NoApproval
    <2> QED BY <1>1, <2>1, DiskStaysWhole, SoleTold DEF ToldOK
  <1>4. CASE out[k] = <<Approval>>
    <2>1. Tail(out[k]) = <<>>
      BY <1>4
    <2>2. pc'[k] # "write"
      BY <1>1, <2>1 DEF Write
    <2> QED BY <1>1, <2>2, DiskStaysWhole, SoleTold DEF ToldOK
  <1> QED BY <1>1, <1>3, <1>4 DEF ToldOK

(* A step outside the handlers changes neither rows nor contents.          *)
LEMMA ContentsAlone ==
  ASSUME SavedInv, UNCHANGED <<files, fileDict, disk, crashes>>,
         \A j \in Conns : \/ pc'[j] = pc[j] /\ req'[j] = req[j] /\ out'[j] = out[j]
                          \/ pc'[j] # "write"
  PROVE  SavedInv'
  <1>1. ASSUME NEW j \in Conns, pc'[j] = "write"
        PROVE  NoApproval(out'[j]) \/ (out'[j] = <<Approval>> /\ Kept(req[j])')
    <2>1. pc'[j] = pc[j] /\ req'[j] = req[j] /\ out'[j] = out[j]
      BY <1>1
    <2>2. NoApproval(out[j]) \/ (out[j] = <<Approval>> /\ Kept(req[j]))
      BY <1>1, <2>1 DEF SavedInv, ToldOK
    <2> QED BY <2>1, <2>2 DEF Kept
  <1> QED BY <1>1, DiskStaysWhole DEF SavedInv, ToldOK

(* Every step keeps it.                                                    *)
LEMMA NextSaved ==
  ASSUME IInv, UploadInv, SavedInv, WritesWork, CommitsWork, [Next]_vars
  PROVE  SavedInv'
  <1>1. pc \in [Conns -> ThreadState] /\ crashes \in Nat
    BY DEF IInv, TypeOK, ThreadTypeOK, StoreTypeOK
  <1>2. ASSUME NEW k \in Conns, Thread(k) PROVE SavedInv'
    <2>1. CASE Handle(k)
      BY <2>1, HandleSaved
    <2>2. CASE Write(k)
      BY <2>2, WriteSaved
    <2>3. CASE RecvEof(k) \/ RecvRaises(k) \/ Release(k) \/ Close(k)
      <3>1. UNCHANGED <<files, fileDict, disk, crashes, out>>
        BY <2>3 DEF RecvEof, RecvRaises, Release, Close, Dies, Goes, Proceed, dbVars,
                    storeVars, limitVars
      <3>2. pc'[k] # "write"
        BY <1>1, <2>3 DEF RecvEof, RecvRaises, Release, Close, Dies, Goes, Proceed
      <3>3. ASSUME NEW j \in Conns
            PROVE  (pc'[j] = pc[j] /\ req'[j] = req[j]) \/ pc'[j] # "write"
        BY <1>2, <3>2, OthersStay
      <3> QED BY <3>1, <3>3, ContentsAlone
    <2>4. CASE WriteRaises(k) \/ DropSocket(k)
      BY <2>4, ContentsAlone DEF WriteRaises, DropSocket, serverVars, threadVars, dbVars,
                                 storeVars, limitVars
    <2> QED BY <1>2, <2>1, <2>2, <2>3, <2>4 DEF Thread
  <1>3. CASE StartSession
    <2>1. mainConn \in Conns
      BY <1>3 DEF StartSession, IInv, MainOK
    <2>2. ASSUME NEW j \in Conns
          PROVE  pc'[j] = pc[j] \/ pc'[j] # "write"
      BY <1>1, <1>3, <2>1 DEF StartSession
    <2> QED BY <1>3, <2>2, ContentsAlone DEF StartSession, dbVars, storeVars, limitVars
  <1>4. CASE ServerCrash
    <2>1. crashes' # 0 /\ \A k \in Conns : pc'[k] # "write"
      BY <1>1, <1>4 DEF ServerCrash
    <2> QED BY <2>1 DEF SavedInv, DiskWhole, ToldOK
  <1>5. CASE UNCHANGED <<pc, req, out, files, fileDict, disk, crashes>>
    BY <1>5, ContentsAlone
  <1>6. \/ \E k \in Conns : Thread(k)
        \/ StartSession \/ ServerCrash
        \/ UNCHANGED <<pc, req, out, files, fileDict, disk, crashes>>
    BY DEF Next, ServerNext, StartServer, Main, Accept, Env, EnvConnect, EnvSend, EnvRead,
           EnvClose, vars, serverVars, threadVars, dbVars, storeVars, limitVars
  <1> QED BY <1>2, <1>3, <1>4, <1>5, <1>6

(* A verified file is a saved file: if neither a write nor a commit fails, *)
(* a marked row has its file on disk, whole until a first crash, and a     *)
(* client that reads MSG_RECEIVED is told of a row that is marked and of a *)
(* file on disk that is the content its checksum was computed from.        *)
THEOREM VerifiedIsSaved ==
  ASSUME WritesWork, CommitsWork
  PROVE  Spec => []VarifiedIsSaved
  <1>1. Init => SavedInv
    <2>1. ASSUME Init, NEW x \in Ids \X FileNames PROVE disk[x] \notin {NullContent, Torn}
      BY <2>1, ContentsDiffer DEF Init, ServerInit
    <2> QED BY <2>1 DEF Init, ServerInit, SavedInv, DiskWhole, ToldOK
  <1>2. IInv /\ UploadInv /\ SavedInv /\ [Next]_vars => SavedInv'
    BY NextSaved
  <1>3. IInv /\ UploadInv /\ SavedInv => VarifiedIsSaved
    <2> SUFFICES ASSUME IInv, UploadInv, SavedInv PROVE VarifiedIsSaved
      OBVIOUS
    <2>1. ASSUME NEW f \in FileNames, files[f] # None, files[f].varified, crashes = 0
          PROVE  disk[<<files[f].owner, f>>] \notin {None, NullContent, Torn}
      BY <2>1, OwnerType DEF UploadInv, VarifiedHasFile, SavedInv, DiskWhole
    <2>2. ASSUME NEW k \in Conns, pc[k] = "write", Head(out[k]).code = "MSG_RECEIVED"
          PROVE  Kept(req[k])
      <3>1. out[k] # <<>> /\ out[k] \in Seq(Response) /\ ToldOK(k)
        BY <2>2 DEF IInv, HandlerOK, TypeOK, ThreadTypeOK, SavedInv
      <3>2. Head(out[k]) = out[k][1] /\ 1 \in 1..Len(out[k])
        BY <3>1
      <3> QED BY <2>2, <3>1, <3>2 DEF ToldOK, NoApproval
    <2> QED BY <2>1, <2>2 DEF VarifiedIsSaved, Kept
  <1> QED BY <1>1, <1>2, <1>3, UploadInvariance, PTL DEF Spec

-----------------------------------------------------------------------------
(* What the server tells a client is so when the packet goes out: for any  *)
(* number of clients, any behaviour of theirs, and any number of crashes   *)
(* and failing statements.                                                 *)

(* That response m, to request r, is true of the tables and of fileDict.   *)
Truthful(m, r) ==
  /\ m.code = "REGISTRATION_SUCCEEDED" =>
       clients[m.val] # None /\ clients[m.val].name = r.name
  /\ m.code = "PUBLIC_KEY_RECEIVED" => clients[r.id].aesKey = m.val
  /\ m.code = "MSG_RECEIVED_CRC" /\ m.val # None =>
       RowOf(r.id, r.file) /\ m.val = Crc(fileDict[<<r.id, r.file>>])

(* A handler that succeeded has one response to write.                     *)
AnswerOK(k) ==
  pc[k] = "write" /\ req[k] # None =>
    \E m \in Response : out[k] = <<m>> /\ Truthful(m, req[k])

AnswerInv == \A k \in Conns : AnswerOK(k)

-----------------------------------------------------------------------------
(* What a step of one session has to show: nobody else is about to answer. *)
LEMMA SoleAnswer ==
  ASSUME IInv, NEW k \in Conns, pc[k] \in Holding, Thread(k), AnswerOK(k)'
  PROVE  AnswerInv'
  <1>1. ASSUME NEW j \in Conns, j # k PROVE AnswerOK(j)'
    <2>1. pc[j] \notin Holding /\ pc'[j] = pc[j]
      BY <1>1, InSession, OthersStay
    <2> QED BY <2>1 DEF AnswerOK, Holding
  <1> QED BY <1>1 DEF AnswerInv

(* A handler that answers one response, a true one.                        *)
LEMMA AnswersTruth ==
  ASSUME IInv, NEW k \in Conns, pc[k] \in Holding, Thread(k),
         NEW r, NEW m \in Response, Answer(k, r, <<m>>), Truthful(m, req[k])',
         r = req'[k]
  PROVE  AnswerInv'
  <1>1. out \in [Conns -> Seq(Response)]
    BY DEF IInv, TypeOK, ThreadTypeOK
  <1>2. out'[k] = <<m>>
    BY <1>1 DEF Answer
  <1>3. AnswerOK(k)'
    BY <1>2 DEF AnswerOK
  <1> QED BY <1>3, SoleAnswer

(* A handler that does not answer, or refuses.                             *)
LEMMA AnswersNothing ==
  ASSUME IInv, NEW k \in Conns, pc[k] \in Holding, Thread(k),
         pc'[k] # "write" \/ req'[k] = None
  PROVE  AnswerInv'
  BY SoleAnswer DEF AnswerOK

-----------------------------------------------------------------------------
(* The handlers that answer.                                               *)

(* The id that is sent has just been registered under the name.            *)
LEMMA AddClientAnswer ==
  ASSUME IInv, NEW k \in Conns, AddClient(k)
  PROVE  AnswerInv'
  <1>1. /\ pc[k] \in Holding /\ Thread(k) /\ req[k] \in RegistrationRequest
        /\ pc \in [Conns -> ThreadState] /\ clients \in [Ids -> Client \cup {None}]
        /\ req \in [Conns -> Request \cup Uploading \cup {None}]
    BY DEF AddClient, Holding, Thread, Handle, IInv, HandlerOK, TypeOK, ThreadTypeOK,
           StoreTypeOK
  <1>2. CASE Refuse(k)
    <2>1. req'[k] = None
      BY <1>1, <1>2 DEF Refuse, Answer
    <2> QED BY <1>1, <2>1, AnswersNothing
  <1>3. ASSUME NEW i \in Ids, clients' = [clients EXCEPT ![i] = NewClient(i, req[k].name)],
               Answer(k, req[k], <<Reply("REGISTRATION_SUCCEEDED", i)>>)
        PROVE  AnswerInv'
    <2> DEFINE m == Reply("REGISTRATION_SUCCEEDED", i)
    <2>1. m \in Response /\ m.code = "REGISTRATION_SUCCEEDED" /\ m.val = i
      BY ReplyType DEF Reply
    <2>2. NewClient(i, req[k].name) \in Client /\ NewClient(i, req[k].name).name = req[k].name
      BY <1>1 DEF NewClient, Client, RegistrationRequest
    <2>3. req'[k] = req[k]
      BY <1>1, <1>3 DEF Answer
    <2>4. clients'[i] # None /\ clients'[i].name = req'[k].name
      BY <1>1, <1>3, <2>2, <2>3, NoneAssumption
    <2> HIDE DEF m
    <2>5. Truthful(m, req[k])'
      BY <2>1, <2>4 DEF Truthful
    <2> QED BY <1>1, <1>3, <2>1, <2>3, <2>5, AnswersTruth DEF m
  <1> QED BY <1>2, <1>3 DEF AddClient

(* The session key that is sent is the one the table holds.                *)
LEMMA SetSymmetricKeyAnswer ==
  ASSUME IInv, NEW k \in Conns, SetSymmetricKey(k)
  PROVE  AnswerInv'
  <1>1. /\ pc[k] \in Holding /\ Thread(k) /\ req[k] \in PublicKeyRequest
        /\ clients[req[k].id] # None
        /\ pc \in [Conns -> ThreadState] /\ clients \in [Ids -> Client \cup {None}]
        /\ req \in [Conns -> Request \cup Uploading \cup {None}]
    BY DEF SetSymmetricKey, Holding, Thread, Handle, IInv, HandlerOK, TypeOK,
           ThreadTypeOK, StoreTypeOK
  <1>2. CASE Dies(k) \/ Answer(k, None, <<Failed>>)
    <2>1. pc'[k] = "dead" \/ req'[k] = None
      BY <1>1, <1>2 DEF Dies, Proceed, Answer
    <2> QED BY <1>1, <2>1, AnswersNothing
  <1>3. ASSUME NEW key \in Keys, clients' = [clients EXCEPT ![req[k].id].aesKey = key],
               Answer(k, req[k], <<Reply("PUBLIC_KEY_RECEIVED", key)>>)
        PROVE  AnswerInv'
    <2> DEFINE m == Reply("PUBLIC_KEY_RECEIVED", key)
    <2>1. m \in Response /\ m.code = "PUBLIC_KEY_RECEIVED" /\ m.val = key
      BY ReplyType DEF Reply
    <2>2. req'[k] = req[k]
      BY <1>1, <1>3 DEF Answer
    <2>3. req[k].id \in Ids /\ clients[req[k].id] \in Client
      BY <1>1 DEF PublicKeyRequest
    <2>4. clients'[req[k].id].aesKey = key
      BY <1>1, <1>3, <2>3 DEF Client
    <2> HIDE DEF m
    <2>5. Truthful(m, req[k])'
      BY <2>1, <2>2, <2>4 DEF Truthful
    <2> QED BY <1>1, <1>3, <2>1, <2>2, <2>5, AnswersTruth DEF m
  <1> QED BY <1>2, <1>3 DEF SetSymmetricKey, FreshKeys

(* The two responses of an upload or a save that promise nothing here.     *)
LEMMA HarmlessAnswer ==
  ASSUME IInv, NEW k \in Conns, pc[k] \in Holding, Thread(k),
         NEW r, Answer(k, r, <<Reply("MSG_RECEIVED_CRC", None)>>)
                  \/ Answer(k, r, <<Reply("MSG_RECEIVED", None)>>)
  PROVE  AnswerInv'
  <1>1. r = req'[k]
    BY DEF Answer, IInv, TypeOK, ThreadTypeOK
  <1>2. ASSUME NEW code \in {"MSG_RECEIVED_CRC", "MSG_RECEIVED"},
               Answer(k, r, <<Reply(code, None)>>)
        PROVE  AnswerInv'
    <2> DEFINE m == Reply(code, None)
    <2>1. m \in Response /\ m.code = code /\ m.val = None
      BY ReplyType DEF Reply
    <2> HIDE DEF m
    <2>2. Truthful(m, req[k])'
      BY <2>1 DEF Truthful
    <2> QED BY <1>1, <1>2, <2>1, <2>2, AnswersTruth DEF m
  <1> QED BY <1>2

(* A checksum that is sent is that of what is held for a row of the client.*)
LEMMA ChecksumAnswer ==
  ASSUME IInv, NEW k \in Conns, pc[k] \in Holding, Thread(k),
         NEW r, NEW c \in Contents \cup {Garbage},
         files'[r.file] # None, files'[r.file].owner = r.id,
         fileDict'[<<r.id, r.file>>] = c,
         Answer(k, r, <<Reply("MSG_RECEIVED_CRC", Crc(c))>>)
  PROVE  AnswerInv'
  <1> DEFINE m == Reply("MSG_RECEIVED_CRC", Crc(c))
  <1>1. r = req'[k]
    BY DEF Answer, IInv, TypeOK, ThreadTypeOK
  <1>2. m \in Response /\ m.code = "MSG_RECEIVED_CRC" /\ m.val = Crc(c)
    BY ReplyType, CrcType DEF Reply
  <1> HIDE DEF m
  <1>3. Truthful(m, req[k])'
    BY <1>1, <1>2 DEF Truthful, RowOf
  <1> QED BY <1>1, <1>2, <1>3, AnswersTruth DEF m

(* The upload was committed.                                               *)
LEMMA CommitFileAnswer ==
  ASSUME IInv, NEW k \in Conns, CommitFile(k)
  PROVE  AnswerInv'
  <1> DEFINE i == req[k].id
             f == req[k].file
             row == [owner |-> i, varified |-> FALSE]
  <1>1. /\ pc[k] \in Holding /\ Thread(k) /\ req[k] \in Uploading /\ UNCHANGED fileDict
        /\ fileDict[<<i, f>>] \in Contents \cup {Garbage}
        /\ files \in [FileNames -> FileRow \cup {None}]
    BY DEF CommitFile, Holding, Thread, Handle, IInv, HandlerOK, TypeOK, StoreTypeOK,
           storeVars
  <1>2. i \in Ids /\ f \in FileNames /\ row \in FileRow /\ row.owner = i
    BY <1>1 DEF Uploading, SendFileRequest, FileRow
  <1>3. CASE Answer(k, req[k], <<Reply("MSG_RECEIVED_CRC", None)>>)
    BY <1>1, <1>3, HarmlessAnswer
  <1>4. CASE /\ files' = [files EXCEPT ![f] = row]
             /\ Answer(k, req[k], <<Reply("MSG_RECEIVED_CRC", Crc(fileDict[<<i, f>>]))>>)
    <2> HIDE DEF row
    <2>1. files'[f] # None /\ files'[f].owner = i
      BY <1>1, <1>2, <1>4, NoneAssumption
    <2> QED BY <1>1, <1>2, <1>4, <2>1, ChecksumAnswer DEF RowOf
  <1> QED BY <1>3, <1>4 DEF CommitFile

(* A resend is answered from fileDict.                                     *)
LEMMA ResendAnswer ==
  ASSUME IInv, NEW k \in Conns, NEW m, Thread(k), Resend(k, m)
  PROVE  AnswerInv'
  <1>1. /\ pc[k] \in Holding /\ m \in Request /\ m.code = "CRC_RESEND"
        /\ UNCHANGED <<files, fileDict>>
    BY ReceivesFacts DEF Resend, dbVars, storeVars
  <1>2. m.id \in Ids /\ m.file \in FileNames
    BY <1>1, RequestByCode DEF CrcStatusRequest
  <1>3. /\ pc \in [Conns -> ThreadState] /\ fileDict \in [Ids \X FileNames -> Stored]
        /\ req \in [Conns -> Request \cup Uploading \cup {None}]
    BY DEF IInv, TypeOK, ThreadTypeOK, StoreTypeOK
  <1>4. CASE /\ GetFile(m.id, m.file) \notin {None, NullContent}
             /\ Answer(k, m, <<Reply("MSG_RECEIVED_CRC", Crc(GetFile(m.id, m.file)))>>)
    <2>1. RowOf(m.id, m.file) /\ GetFile(m.id, m.file) = fileDict[<<m.id, m.file>>]
      BY <1>4 DEF GetFile
    <2>2. fileDict[<<m.id, m.file>>] \in Contents \cup {Garbage}
      BY <1>2, <1>3, <1>4, <2>1 DEF Stored
    <2> QED BY <1>1, <1>2, <1>4, <2>1, <2>2, ChecksumAnswer DEF RowOf
  <1>5. CASE \/ Dies(k) \/ Refuse(k)
             \/ Answer(k, None, <<Reply("MSG_RECEIVED_CRC", None), Failed>>)
    <2>1. pc'[k] = "dead" \/ req'[k] = None
      BY <1>3, <1>5 DEF Dies, Proceed, Refuse, Answer
    <2> QED BY <1>1, <2>1, AnswersNothing
  <1> QED BY <1>4, <1>5 DEF Resend

(* What is left to write after the first packet is a refusal.              *)
LEMMA WriteAnswer ==
  ASSUME IInv, AnswerInv, NEW k \in Conns, Write(k)
  PROVE  AnswerInv'
  <1>1. /\ pc[k] = "write" /\ pc[k] \in Holding /\ Thread(k)
        /\ pc \in [Conns -> ThreadState] /\ out \in [Conns -> Seq(Response)]
        /\ req \in [Conns -> Request \cup Uploading \cup {None}]
    BY DEF Write, Holding, Thread, IInv, TypeOK, ThreadTypeOK
  <1>2. CASE req[k] = None
    <2>1. req'[k] = None
      BY <1>1, <1>2 DEF Write
    <2> QED BY <1>1, <2>1, AnswersNothing
  <1>3. CASE req[k] # None
    <2>1. PICK m \in Response : out[k] = <<m>>
      BY <1>1, <1>3 DEF AnswerInv, AnswerOK
    <2>2. Tail(out[k]) = <<>>
      BY <2>1
    <2>3. pc'[k] # "write"
      BY <1>1, <2>2 DEF Write
    <2> QED BY <1>1, <2>3, AnswersNothing
  <1> QED BY <1>2, <1>3

(* The handlers that go on, refuse, or answer without a promise.           *)
LEMMA HandleAnswer ==
  ASSUME IInv, NEW k \in Conns, Handle(k)
  PROVE  AnswerInv'
  <1>1. Thread(k)
    BY DEF Thread
  <1>2. /\ pc \in [Conns -> ThreadState]
        /\ req \in [Conns -> Request \cup Uploading \cup {None}]
    BY DEF IInv, TypeOK, ThreadTypeOK
  <1>3. CASE AddClient(k) \/ SetSymmetricKey(k) \/ CommitFile(k) \/ (\E m : Resend(k, m))
    BY <1>1, <1>3, AddClientAnswer, SetSymmetricKeyAnswer, CommitFileAnswer, ResendAnswer
  <1>4. CASE \E m : \/ CheckName(k, m) \/ SetPublicKey(k, m) \/ RecvFileHead(k, m)
                    \/ CrcValid(k, m) \/ Abort(k, m) \/ UnknownRequest(k, m)
    <2>1. pc[k] = "recv"
      BY <1>4 DEF CheckName, SetPublicKey, RecvFileHead, CrcValid, Abort, UnknownRequest,
                  Receives
    <2>2. pc'[k] # "write" \/ req'[k] = None
      BY <1>2, <1>4 DEF CheckName, SetPublicKey, RecvFileHead, CrcValid, Abort,
                        UnknownRequest, Refuse, Answer, Dies, Proceed
    <2> QED BY <1>1, <2>1, <2>2, AnswersNothing DEF Holding
  <1>5. CASE RecvFileChunk(k) \/ RecvFileRaises(k) \/ SaveFile(k)
    <2>1. pc[k] \in Holding
      BY <1>5 DEF RecvFileChunk, RecvFileRaises, SaveFile, Holding
    <2>2. pc'[k] # "write" \/ req'[k] = None
      BY <1>2, <1>5 DEF RecvFileChunk, RecvFileRaises, SaveFile, Refuse, Answer, Goes, Proceed
    <2> QED BY <1>1, <2>1, <2>2, AnswersNothing
  <1>6. CASE StoreFile(k)
    <2>1. pc[k] \in Holding
      BY <1>6 DEF StoreFile, Holding
    <2>2. CASE Refuse(k) \/ Dies(k) \/ Goes(k, "commitFile")
      <3>1. pc'[k] # "write" \/ req'[k] = None
        BY <1>2, <2>2 DEF Refuse, Answer, Dies, Goes, Proceed
      <3> QED BY <1>1, <2>1, <3>1, AnswersNothing
    <2>3. CASE Answer(k, req[k], <<Reply("MSG_RECEIVED_CRC", None)>>)
      BY <1>1, <2>1, <2>3, HarmlessAnswer
    <2> QED BY <1>6, <2>2, <2>3 DEF StoreFile
  <1>7. CASE MarkVarified(k)
    <2>1. pc[k] \in Holding /\ Answer(k, req[k], <<Reply("MSG_RECEIVED", None)>>)
      BY <1>7 DEF MarkVarified, Holding
    <2> QED BY <1>1, <2>1, HarmlessAnswer
  <1> QED BY <1>3, <1>4, <1>5, <1>6, <1>7 DEF Handle

(* A step outside the handlers changes neither tables nor fileDict.        *)
LEMMA TablesAlone ==
  ASSUME IInv, AnswerInv, UNCHANGED <<clients, files, fileDict>>,
         \A j \in Conns : \/ pc'[j] = pc[j] /\ req'[j] = req[j] /\ out'[j] = out[j]
                          \/ pc'[j] # "write"
  PROVE  AnswerInv'
  <1>1. ASSUME NEW j \in Conns, pc'[j] = "write", req'[j] # None
        PROVE  \E m \in Response : out'[j] = <<m>> /\ Truthful(m, req[j])'
    <2>1. pc'[j] = pc[j] /\ req'[j] = req[j] /\ out'[j] = out[j]
      BY <1>1
    <2>2. PICK m \in Response : out[j] = <<m>> /\ Truthful(m, req[j])
      BY <1>1, <2>1 DEF AnswerInv, AnswerOK
    <2>3. Truthful(m, req[j])'
      BY <2>1, <2>2 DEF Truthful, RowOf
    <2> QED BY <2>1, <2>2, <2>3
  <1> QED BY <1>1 DEF AnswerInv, AnswerOK

(* Every step keeps the invariant.                                         *)
LEMMA NextAnswer ==
  ASSUME IInv, AnswerInv, [Next]_vars
  PROVE  AnswerInv'
  <1>1. pc \in [Conns -> ThreadState]
    BY DEF IInv, TypeOK, ThreadTypeOK
  <1>2. ASSUME NEW k \in Conns, Thread(k) PROVE AnswerInv'
    <2>1. CASE Handle(k)
      BY <2>1, HandleAnswer
    <2>2. CASE Write(k)
      BY <2>2, WriteAnswer
    <2>3. CASE RecvEof(k) \/ RecvRaises(k) \/ Release(k) \/ Close(k)
      <3>1. UNCHANGED <<clients, files, fileDict, out>>
        BY <2>3 DEF RecvEof, RecvRaises, Release, Close, Dies, Goes, Proceed, dbVars, storeVars
      <3>2. pc'[k] # "write"
        BY <1>1, <2>3 DEF RecvEof, RecvRaises, Release, Close, Dies, Goes, Proceed
      <3>3. ASSUME NEW j \in Conns
            PROVE  (pc'[j] = pc[j] /\ req'[j] = req[j]) \/ pc'[j] # "write"
        BY <1>2, <3>2, OthersStay
      <3> QED BY <3>1, <3>3, TablesAlone
    <2>4. CASE WriteRaises(k) \/ DropSocket(k)
      BY <2>4, TablesAlone DEF WriteRaises, DropSocket, serverVars, threadVars, dbVars, storeVars
    <2> QED BY <1>2, <2>1, <2>2, <2>3, <2>4 DEF Thread
  <1>3. CASE StartSession
    <2>1. mainConn \in Conns
      BY <1>3 DEF StartSession, IInv, MainOK
    <2>2. ASSUME NEW j \in Conns
          PROVE  pc'[j] = pc[j] \/ pc'[j] # "write"
      BY <1>1, <1>3, <2>1 DEF StartSession
    <2> QED BY <1>3, <2>2, TablesAlone DEF StartSession, storeVars, dbVars
  <1>4. CASE ServerCrash
    BY <1>4 DEF ServerCrash, AnswerInv, AnswerOK
  <1>5. CASE UNCHANGED <<pc, req, out, clients, files, fileDict>>
    BY <1>5, TablesAlone
  <1>6. \/ \E k \in Conns : Thread(k)
        \/ StartSession \/ ServerCrash
        \/ UNCHANGED <<pc, req, out, clients, files, fileDict>>
    BY DEF Next, ServerNext, StartServer, Main, Accept, Env, EnvConnect, EnvSend, EnvRead,
           EnvClose, vars, serverVars, threadVars, dbVars, storeVars
  <1> QED BY <1>2, <1>3, <1>4, <1>5, <1>6

(* True answers: between a commit and the packet that reports it nothing   *)
(* the packet says is undone, by no client, failure or crash: an id that is*)
(* sent is registered, a session key is the stored one, and a checksum is  *)
(* that of the content held for a row of this client (Server.write).       *)
THEOREM TrueAnswers == Spec => []AnswersAreTrue
  <1>1. Init => IInv /\ AnswerInv
    <2>1. Init => AnswerInv
      BY DEF Init, ServerInit, AnswerInv, AnswerOK
    <2> QED BY <2>1, InitIInv
  <1>2. IInv /\ AnswerInv /\ [Next]_vars => (IInv /\ AnswerInv)'
    BY NextIInv, NextAnswer
  <1>3. AnswerInv => AnswersAreTrue
    <2> SUFFICES ASSUME AnswerInv, NEW k \in Conns, pc[k] = "write", req[k] # None
                 PROVE  Truthful(Head(out[k]), req[k])
      BY DEF AnswersAreTrue, Truthful
    <2>1. PICK m \in Response : out[k] = <<m>> /\ Truthful(m, req[k])
      BY DEF AnswerInv, AnswerOK
    <2> QED BY <2>1
  <1> QED BY <1>1, <1>2, <1>3, PTL DEF Spec
=============================================================================
