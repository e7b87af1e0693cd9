------------------------------- MODULE Sessions -------------------------------
(***************************************************************************)
(* What the server promises, whatever becomes of threads, packets, handlers*)
(* and their commits: it serves one connection at a time, and while it does*)
(* its tables and the clients' directories change by whole operations, each*)
(* of which finds what it needs.                                           *)
(*                                                                         *)
(* The tables are relations, so that nothing says how rows are kept.       *)
(***************************************************************************)
CONSTANTS Conns, Ids, Names, FileNames

VARIABLES
  serving,       \* the connection being served, or nobody
  users,         \* id and name of the registered clients
  keyed,         \* ids of the clients that hold a session key
  owners,        \* clients and the files they uploaded
  saved,         \* files in the clients' directories
  marked         \* files whose checksum their client confirmed

tables == <<users, keyed, owners, marked>>
vars == <<serving, tables, saved>>

Init ==
  /\ serving = {} /\ users = {} /\ keyed = {}
  /\ owners = {} /\ saved = {} /\ marked = {}

Begin(k) ==
  /\ serving = {} /\ serving' = {k}
  /\ UNCHANGED <<tables, saved>>

(* A session ends when its client does, when a request fails, or when the  *)
(* server is killed, and then a file it was saving may be cut short.       *)
End ==
  /\ serving # {} /\ serving' = {}
  /\ saved' = saved \/ \E x \in owners : saved' = saved \cup {x}
  /\ UNCHANGED tables

Register(i, n) ==
  /\ \A u \in users : u[1] # i /\ u[2] # n
  /\ users' = users \cup {<<i, n>>}
  /\ UNCHANGED <<keyed, owners, marked, saved>>

GiveKey(i) ==
  /\ \E u \in users : u[1] = i
  /\ keyed' = keyed \cup {i}
  /\ UNCHANGED <<users, owners, marked, saved>>

Upload(i, f) ==
  /\ i \in keyed
  /\ \A x \in owners : x[2] = f => x[1] = i
  /\ owners' = owners \cup {<<i, f>>}
  /\ marked' = marked \ {<<i, f>>}
  /\ UNCHANGED <<users, keyed, saved>>

Save(i, f) ==
  /\ <<i, f>> \in owners
  /\ saved' = saved \cup {<<i, f>>}
  /\ UNCHANGED tables

Mark(i, f) ==
  /\ <<i, f>> \in owners \cap saved
  /\ marked' = marked \cup {<<i, f>>}
  /\ UNCHANGED <<users, keyed, owners, saved>>

Operate ==
  /\ serving # {} /\ UNCHANGED serving
  /\ \E i \in Ids :
       \/ GiveKey(i)
       \/ \E n \in Names : Register(i, n)
       \/ \E f \in FileNames : Upload(i, f) \/ Save(i, f) \/ Mark(i, f)

Next == (\E k \in Conns : Begin(k)) \/ End \/ Operate

Spec == Init /\ [][Next]_vars
=============================================================================
