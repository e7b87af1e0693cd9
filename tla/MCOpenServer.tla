----------------------------- MODULE MCOpenServer -----------------------------
(* OpenServer with small values for its constants. *)
EXTENDS OpenServer, TLC

(* A file that fits the head packet of its upload, and one that does not.  *)
OnePacket == [f \in Files |-> 100]
TwoPackets == [f \in Files |-> 1100]

(* What the server treats alike: a name that is not ASCII stays itself.    *)
Symmetry ==
  {p @@ q @@ r @@ s : p \in Permutations(Conns), q \in Permutations(Ids),
                      r \in Permutations(AsciiNames), s \in Permutations(Keys)}
=============================================================================
