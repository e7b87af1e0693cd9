------------------------------- MODULE Channel -------------------------------
(***************************************************************************)
(* The TCP connections between clients and the server, as the code in src/ *)
(* uses them: ordered, lossless while both ends are open, one 1024-byte    *)
(* packet per send and per receive.  Every connection is used once.        *)
(*                                                                         *)
(* Closing an end with unread data, or sending to an end that is closed,   *)
(* makes the peer's kernel answer with a reset.  A reset is "due" until the*)
(* program runs into it: until then a send may still be accepted and a     *)
(* receive may still report the orderly end of the stream.                 *)
(***************************************************************************)
EXTENDS Sequences

CONSTANT Conns            \* connection identities

VARIABLES
  backlog,                \* connections waiting in the listening socket
  toServer, toClient,     \* packets in flight or unread, per connection
  cliEnd, srvEnd,         \* the two ends of every connection
  srvReset,               \* reset awaiting the server: "no", "due" or "seen"
  cliReset                \* TRUE once the client may be hit by a reset

channelVars == <<backlog, toServer, toClient, cliEnd, srvEnd, srvReset, cliReset>>

EndState == {"unused", "open", "closed"}

ChannelInit ==
  /\ backlog = <<>>
  /\ toServer = [k \in Conns |-> <<>>]
  /\ toClient = [k \in Conns |-> <<>>]
  /\ cliEnd = [k \in Conns |-> "unused"]
  /\ srvEnd = [k \in Conns |-> "unused"]
  /\ srvReset = [k \in Conns |-> "no"]
  /\ cliReset = [k \in Conns |-> FALSE]

-----------------------------------------------------------------------------
(* The client's calls.                                                     *)

Connect(k) ==
  /\ cliEnd[k] = "unused"
  /\ cliEnd' = [cliEnd EXCEPT ![k] = "open"]
  /\ srvEnd' = [srvEnd EXCEPT ![k] = "open"]
  /\ backlog' = Append(backlog, k)
  /\ UNCHANGED <<toServer, toClient, srvReset, cliReset>>

ClientSend(k, m) ==
  /\ cliEnd[k] = "open"
  /\ IF srvEnd[k] = "open"
       THEN toServer' = [toServer EXCEPT ![k] = Append(@, m)] /\ UNCHANGED cliReset
       ELSE cliReset' = [cliReset EXCEPT ![k] = TRUE] /\ UNCHANGED toServer
  /\ UNCHANGED <<backlog, toClient, cliEnd, srvEnd, srvReset>>

ClientSendFails(k) == srvEnd[k] = "closed" /\ cliReset[k] /\ UNCHANGED channelVars

ClientRecv(k) ==
  /\ cliEnd[k] = "open"
  /\ toClient[k] # <<>>
  /\ toClient' = [toClient EXCEPT ![k] = Tail(@)]
  /\ UNCHANGED <<backlog, toServer, cliEnd, srvEnd, srvReset, cliReset>>

ClientRecvFails(k) ==
  toClient[k] = <<>> /\ srvEnd[k] = "closed" /\ UNCHANGED channelVars

ClientClose(k) ==
  /\ cliEnd[k] = "open"
  /\ cliEnd' = [cliEnd EXCEPT ![k] = "closed"]
  /\ srvReset' = [srvReset EXCEPT
       ![k] = IF srvEnd[k] = "open" /\ toClient[k] # <<>> THEN "due" ELSE @]
  /\ toClient' = [toClient EXCEPT ![k] = <<>>]
  /\ cliReset' = [cliReset EXCEPT ![k] = FALSE]
  /\ UNCHANGED <<backlog, toServer, srvEnd>>

-----------------------------------------------------------------------------
(* The server's calls.                                                     *)

ServerRecv(k, m) ==
  /\ toServer[k] # <<>>
  /\ m = Head(toServer[k])
  /\ toServer' = [toServer EXCEPT ![k] = Tail(@)]
  /\ UNCHANGED <<backlog, toClient, cliEnd, srvEnd, srvReset, cliReset>>

ServerRecvEof(k) ==
  /\ toServer[k] = <<>> /\ cliEnd[k] = "closed" /\ srvReset[k] # "seen"
  /\ UNCHANGED channelVars

ServerReset(k) ==
  /\ srvReset[k] = "due"
  /\ srvReset' = [srvReset EXCEPT ![k] = "seen"]
  /\ UNCHANGED <<backlog, toServer, toClient, cliEnd, srvEnd, cliReset>>

ServerRecvRaises(k) == toServer[k] = <<>> /\ ServerReset(k)

ServerSend(k, m) ==
  /\ srvReset[k] # "seen"
  /\ IF cliEnd[k] = "open"
       THEN toClient' = [toClient EXCEPT ![k] = Append(@, m)] /\ UNCHANGED srvReset
       ELSE srvReset' = [srvReset EXCEPT ![k] = "due"] /\ UNCHANGED toClient
  /\ UNCHANGED <<backlog, toServer, cliEnd, srvEnd, cliReset>>

(* Closing every server end in S, one or all of them at a crash. *)
ServerClose(S) ==
  /\ srvEnd' = [k \in Conns |-> IF k \in S /\ srvEnd[k] = "open"
                                  THEN "closed" ELSE srvEnd[k]]
  /\ cliReset' = [k \in Conns |->
       cliReset[k] \/ (k \in S /\ cliEnd[k] = "open" /\ toServer[k] # <<>>)]
  /\ toServer' = [k \in Conns |-> IF k \in S THEN <<>> ELSE toServer[k]]
  /\ srvReset' = [k \in Conns |-> IF k \in S THEN "no" ELSE srvReset[k]]
  /\ UNCHANGED <<toClient, cliEnd>>
=============================================================================
