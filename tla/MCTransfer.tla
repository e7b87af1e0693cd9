------------------------------ MODULE MCTransfer ------------------------------
(* Transfer with small values for its constants. *)
EXTENDS Transfer, TLC

CONSTANTS c1, c2, n1, n2, f1, f2

(* An upload of two packets and one of a single packet; and one whose      *)
(* content fits a packet of its own, but not the rest of the head packet.  *)
Sizes == (f1 :> 1100) @@ (f2 :> 700)
Unlucky == (f1 :> 800) @@ (f2 :> 700)

(* Two users in directories of their own, and one directory in which the   *)
(* client is started twice.                                                *)
Apart == (c1 :> "one") @@ (c2 :> "two")
Together == (c1 :> "one") @@ (c2 :> "one")
Alone == (c1 :> "one")

(* Memory that looks like any response; and like any but the approval of a *)
(* registration, whose id nobody registered.                               *)
AnyMemory == {None, Failed, Reply("PUBLIC_KEY_RECEIVED", None), Reply("MSG_RECEIVED", None),
              Reply("MSG_RECEIVED_CRC", None)}
                \cup {Reply("REGISTRATION_SUCCEEDED", i) : i \in Ids}
NoApproval == {m \in AnyMemory : m = None \/ m.code # "REGISTRATION_SUCCEEDED"}

Info(n, f, b) == [socket |-> "valid", name |-> n, file |-> f, body |-> b]

(* Users with a file each; one who may edit the file from one start to the *)
(* next; and one who may have no transfer.info at first, or one without*)
(* a name or with an unusable socket.                                      *)
OwnFiles == ("one" :> {Info(n1, "a", f1)}) @@ ("two" :> {Info(n2, "b", f2)})
Changing == ("one" :> {Info(n1, "a", f1), Info(n1, "a", f2)})
Learner == ("one" :> {None, Info(n1, "a", f1), Info(None, "a", f1),
                      [Info(n1, "a", f1) EXCEPT !.socket = "bare"],
                      [Info(n1, "a", f1) EXCEPT !.socket = "invalid"]})

(* Files of one name; and a user who sends a file that does not exist.     *)
SameFile == ("one" :> {Info(n1, "a", f1)}) @@ ("two" :> {Info(n2, "a", f2)})
NoFile == ("one" :> {Info(n1, "a", None)})

(* What Together and Learner treat alike.                                  *)
Symmetry == {p @@ q : p \in Permutations(Conns), q \in Permutations(Keys)}
=============================================================================
