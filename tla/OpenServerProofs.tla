--------------------------- MODULE OpenServerProofs ---------------------------
(***************************************************************************)
(* The server among any clients, for any number of them, any behaviour of  *)
(* theirs, and any number of crashes: its state keeps its types, one thread*)
(* at most is inside a session, a name is registered once, and a row stays *)
(* with the client it was made for.                                        *)
(***************************************************************************)
EXTENDS OpenServer, ServerProofs

(* The server starts with the invariant.                                   *)
LEMMA InitIInv == ASSUME Init PROVE IInv
  BY ServerInitIInv DEF Init

(* Everything a client does keeps it.                                      *)
LEMMA EnvStep ==
  ASSUME IInv, Env
  PROVE  IInv'
  <1>1. PICK k \in Conns : EnvConnect(k) \/ EnvSend(k) \/ EnvRead(k) \/ EnvClose(k)
    BY DEF Env
  <1>2. UNCHANGED serverVars
    BY <1>1 DEF EnvConnect, EnvSend, EnvRead, EnvClose
  <1>3. ChannelTypeOK
    BY DEF IInv, TypeOK
  <1>4. [code |-> "CHUNK"] \in Request
    BY DEF Request, ChunkPacket
  <1>5. ChannelTypeOK'
    BY <1>1, <1>3, <1>4, ClientCalls DEF EnvConnect, EnvSend, EnvRead, EnvClose
  <1> QED BY <1>2, <1>5, ServerIdleStep

(* IInv is inductive.                                                      *)
LEMMA NextIInv == ASSUME IInv, [Next]_vars PROVE IInv'
  <1>1. CASE Main
    BY <1>1, AcceptStep, StartSessionStep DEF Main
  <1>2. ASSUME NEW k \in Conns, Thread(k) PROVE IInv'
    BY <1>2, ThreadStep
  <1>3. CASE ServerCrash
    BY <1>3, ServerCrashStep
  <1>4. CASE Env
    BY <1>4, EnvStep
  <1>5. CASE StartServer
    BY <1>5, StartServerStep
  <1>6. CASE UNCHANGED vars
    <2>1. UNCHANGED serverVars /\ UNCHANGED channelVars
      BY <1>6 DEF vars
    <2>2. ChannelTypeOK'
      BY <2>1 DEF IInv, TypeOK, ChannelTypeOK, channelVars
    <2> QED BY <2>1, <2>2, ServerIdleStep
  <1> QED BY <1>1, <1>2, <1>3, <1>4, <1>5, <1>6 DEF Next, ServerNext

(* It holds in every state the server reaches.                             *)
THEOREM Invariance == Spec => []IInv
  <1>1. Init => IInv
    BY InitIInv
  <1>2. IInv /\ [Next]_vars => IInv'
    BY NextIInv
  <1> QED BY <1>1, <1>2, PTL DEF Spec

(* Type correctness: no step of the server, whatever its clients send and  *)
(* whenever it is killed, takes a variable out of its type.                *)
THEOREM TypeCorrect == Spec => []TypeOK
  <1>1. IInv => TypeOK
    BY DEF IInv
  <1> QED BY <1>1, Invariance, PTL

(* Mutual exclusion: two sessions never overlap between acquire() in run() *)
(* and release() in read().                                                *)
THEOREM Exclusion == Spec => []OneSession
  <1>1. IInv => OneSession
    BY DEF IInv
  <1> QED BY <1>1, Invariance, PTL

(* The lock is held for a session and for no other reason, so release() is *)
(* never called on a free lock, and a free lock is never left taken.       *)
THEOREM LockKept == Spec => []LockAccounted
  <1>1. IInv => LockAccounted
    BY DEF IInv
  <1> QED BY <1>1, Invariance, PTL

-----------------------------------------------------------------------------
(* The tables.                                                             *)

(* No step at all takes a name or a file away from its client, and only    *)
(* addClient registers one.                                                *)
LEMMA RowsPersist ==
  ASSUME IInv, [Next]_vars
  PROVE  /\ KeepsClients /\ KeepsOwners
         /\ AddsNoName \/ \E k \in Conns : AddClient(k)
  <1>1. CASE \E k \in Conns : Thread(k)
    BY <1>1, ThreadClients, ThreadOwners
  <1>2. CASE UNCHANGED <<clients, files>>
    BY <1>2 DEF KeepsClients, AddsNoName, KeepsOwners
  <1>3. (\E k \in Conns : Thread(k)) \/ UNCHANGED <<clients, files>>
    BY DEF Next, ServerNext, StartServer, Main, Accept, StartSession, ServerCrash, Env, EnvConnect,
           EnvSend, EnvRead, EnvClose, vars, serverVars, dbVars
  <1> QED BY <1>1, <1>2, <1>3

(* Permanence: whatever its other clients send, and however often it is    *)
(* killed, the server takes no registration and no file name away from the *)
(* client that has it (storeFileinDB inserts under the file name alone).   *)
THEOREM Permanence == Spec => RowsArePermanent
  <1>1. IInv /\ [Next]_vars =>
          [/\ \A i \in Ids : clients[i] # None =>
                clients'[i] # None /\ clients'[i].name = clients[i].name
           /\ \A f \in FileNames : files[f] # None =>
                files'[f] # None /\ files'[f].owner = files[f].owner]_vars
    BY RowsPersist DEF KeepsClients, KeepsOwners
  <1> QED BY <1>1, Invariance, PTL DEF Spec, RowsArePermanent

-----------------------------------------------------------------------------
(* Uniqueness of names.  A failing SELECT is taken for "no such name", so  *)
(* this needs statements that do not fail; the other two kinds of failure  *)
(* do no harm.                                                             *)

(* Whoever is about to INSERT was so before, or has just checked.          *)
LEMMA AboutToInsert ==
  ASSUME IInv, [Next]_vars, NEW j \in Conns, pc'[j] = "addClient"
  PROVE  \/ pc[j] = "addClient" /\ req'[j] = req[j]
         \/ \E m : CheckName(j, m)
  <1>1. ASSUME NEW k \in Conns, Thread(k)
        PROVE  \/ pc[j] = "addClient" /\ req'[j] = req[j]
               \/ \E m : CheckName(j, m)
    BY <1>1, OthersStay, ReachesAddClient
  <1>2. CASE StartSession
    <2>1. mainConn \in Conns /\ pc \in [Conns -> ThreadState]
      BY <1>2 DEF StartSession, IInv, MainOK, TypeOK, ThreadTypeOK
    <2> QED BY <1>2, <2>1 DEF StartSession
  <1>3. CASE ServerCrash
    BY <1>3 DEF ServerCrash
  <1>4. CASE UNCHANGED <<pc, req>>
    BY <1>4
  <1>5. (\E k \in Conns : Thread(k)) \/ StartSession \/ ServerCrash \/ UNCHANGED <<pc, req>>
    BY DEF Next, ServerNext, StartServer, Main, Accept, Env, EnvConnect, EnvSend, EnvRead,
           EnvClose, vars, serverVars, threadVars
  <1> QED BY <1>1, <1>2, <1>3, <1>4, <1>5

(* A name nobody has is one nobody has after a step that registers no one. *)
LEMMA FreeStaysFree ==
  ASSUME KeepsClients, AddsNoName, NEW n, ~NameTaken(n)
  PROVE  \A i \in Ids : ~(clients'[i] # None /\ clients'[i].name = n)
  BY DEF KeepsClients, AddsNoName, NameTaken

(* The strengthened invariant of registration is kept by every step.       *)
LEMMA NextNames ==
  ASSUME "select" \notin FaultKinds, IInv, NamesUnique, NameStillFree, [Next]_vars
  PROVE  NamesUnique' /\ NameStillFree'
  <1>1. KeepsClients /\ (AddsNoName \/ \E k \in Conns : AddClient(k))
    BY RowsPersist
  <1>2. CASE AddsNoName
    <2>1. NamesUnique'
      BY <1>1, <1>2 DEF KeepsClients, AddsNoName, NamesUnique
    <2>2. ASSUME NEW j \in Conns, pc'[j] = "addClient"
          PROVE  \A i \in Ids : ~(clients'[i] # None /\ clients'[i].name = req'[j].name)
      <3>1. CASE pc[j] = "addClient" /\ req'[j] = req[j]
        <4>1. ~NameTaken(req[j].name)
          BY <3>1 DEF NameStillFree
        <4> QED BY <1>1, <1>2, <3>1, <4>1, FreeStaysFree
      <3>2. ASSUME NEW m, CheckName(j, m)
            PROVE  \A i \in Ids : ~(clients'[i] # None /\ clients'[i].name = req'[j].name)
        <4>1. pc \in [Conns -> ThreadState] /\ req \in [Conns -> Request \cup Uploading \cup {None}]
          BY DEF IInv, TypeOK, ThreadTypeOK
        <4>2. ~NameTaken(m.name) /\ Proceed(j, "addClient", m, 0)
          BY <2>2, <3>2, <4>1 DEF CheckName, Fails, Refuse, Answer
        <4>3. req'[j] = m
          BY <4>1, <4>2 DEF Proceed
        <4> QED BY <1>1, <1>2, <4>2, <4>3, FreeStaysFree
      <3> QED BY <2>2, <3>1, <3>2, AboutToInsert
    <2>3. NameStillFree'
      BY <2>2 DEF NameStillFree, NameTaken
    <2> QED BY <2>1, <2>3
  <1>3. ASSUME NEW k \in Conns, AddClient(k), ~AddsNoName
        PROVE  NamesUnique' /\ NameStillFree'
    <2>1. PICK i \in Ids :
            /\ clients[i] = None
            /\ clients' = [clients EXCEPT ![i] =
                 [name |-> req[k].name, hasKey |-> FALSE, aesKey |-> None, seen |-> i]]
            /\ pc' = [pc EXCEPT ![k] = "write"]
      BY <1>3 DEF AddClient, AddsNoName, Answer, ClientExists, NewClient
    <2>2. /\ clients \in [Ids -> Client \cup {None}] /\ pc \in [Conns -> ThreadState]
          /\ pc[k] = "addClient" /\ ~NameTaken(req[k].name)
      BY <1>3 DEF IInv, TypeOK, StoreTypeOK, ThreadTypeOK, AddClient, NameStillFree
    <2>3. clients'[i].name = req[k].name /\ \A j \in Ids : j # i => clients'[j] = clients[j]
      BY <2>1, <2>2
    <2>4. NamesUnique'
      BY <2>2, <2>3 DEF NamesUnique, NameTaken
    <2>5. \A j \in Conns : pc'[j] # "addClient"
      <3>1. \A j \in Conns : j # k => pc[j] \notin Holding
        BY <2>2, InSession DEF Holding
      <3> QED BY <2>1, <2>2, <3>1 DEF Holding
    <2> QED BY <2>4, <2>5 DEF NameStillFree
  <1> QED BY <1>1, <1>2, <1>3

(* Uniqueness: no interleaving of registrations, and no crash between the  *)
(* check in clientUsernameExists and the INSERT in addClient, registers a  *)
(* name twice, as long as no SELECT fails.                                 *)
THEOREM Uniqueness ==
  ASSUME "select" \notin FaultKinds
  PROVE  Spec => []NamesUnique
  <1> DEFINE NInv == IInv /\ NamesUnique /\ NameStillFree
  <1>1. Init => NInv
    <2>1. Init => NamesUnique /\ NameStillFree
      BY DEF Init, ServerInit, NamesUnique, NameStillFree
    <2> QED BY <2>1, InitIInv
  <1>2. NInv /\ [Next]_vars => NInv'
    BY NextIInv, NextNames
  <1> QED BY <1>1, <1>2, PTL DEF Spec
=============================================================================
