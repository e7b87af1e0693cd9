---------------------------- MODULE ConfigManager ----------------------------
(***************************************************************************)
(* The client's two files in the directory it is started in.               *)
(*                                                                         *)
(* transfer.info is the user's: the socket, the user name and the file to  *)
(* send.  Of its lines only that counts which decides how the program goes *)
(* on: a socket line is valid, has no colon ("bare") or is unusable, a name*)
(* is missing (None: empty or too long), a file to send is missing (body   *)
(* None: an empty line, or no such file).  None is no transfer.info.       *)
(*                                                                         *)
(* me.info is the client's registration, as FileHandler::WriteAtLine leaves*)
(* it: a sequence of lines.  A line is the user name, a client id, the     *)
(* first line of a private key ("key") or its other lines ("rest"), empty, *)
(* or what is left of a longer line ("part"); None is no file.  The Base64 *)
(* encoder ends its output with a newline of its own, so the id and the key*)
(* are each followed by an empty line.                                     *)
(***************************************************************************)
EXTENDS ServerIcd, Functions

UserInfo == [socket: {"valid", "bare", "invalid"}, name: Names \cup {None},
             file: FileNames, body: Files \cup {None}]

(* m_transferInfo as initialize() fills it.  A line that does not parse    *)
(* ends the parsing and leaves the members of the later lines empty.       *)
TransferInfo == [name: Names, file: FileNames, body: Files \cup {None}]

BareSocket(u) == u # None /\ u.socket = "bare"
HasName(u) == u # None /\ u.socket = "valid" /\ u.name # None

GetFileName(u) == IF u.body = None THEN "" ELSE u.file
Parsed(u) == [name |-> u.name, file |-> GetFileName(u), body |-> u.body]

-----------------------------------------------------------------------------
Line == {"name", "key", "rest", "blank", "part"} \cup Ids

ASSUME IdAssumption == Ids \cap {"name", "key", "rest", "blank", "part", None} = {}

(* The lines of s that are not empty, in their order.                      *)
Lines(s) ==
  LET kept[n \in 0..Len(s)] ==
        IF n = 0 THEN <<>>
        ELSE IF s[n] = "blank" THEN kept[n - 1] ELSE Append(kept[n - 1], s[n])
  IN  kept[Len(s)]

(* Empty lines are dropped; the new content goes after line number n.      *)
WriteAtLine(lines, content, n) ==
  LET cut == IF Len(lines) > n THEN n + 1 ELSE Len(lines)
  IN  Lines(SubSeq(lines, 1, cut)) \o content \o
        Lines(SubSeq(lines, cut + 1, Len(lines)))

SetClientsUuid(lines, i) == WriteAtLine(lines, <<i, "blank">>, 1)
SetClientsPrivateKey(lines) == WriteAtLine(lines, <<"key", "rest", "blank">>, 2)

(* WriteAtLine reads all the lines, opens the file again, which truncates  *)
(* it, and writes them back with the new one when it closes it.  Nothing   *)
(* keeps other processes of the directory away in between, so what these   *)
(* functions do to the file is a sequence of steps.  The last step of each *)
(* WriteAtLine is named for the content it writes.                         *)
FileStep == {"create", "read", "truncate", "name", "id", "key"}

CreateRegistrationFile == <<"create", "read", "truncate", "name">>
SetClientId == <<"read", "truncate", "id", "read", "truncate", "key">>

(* The lines a WriteAtLine that has read these writes back; i is m_id.     *)
WrittenBack(step, lines, i) ==
  CASE step = "name" -> WriteAtLine(lines, <<"name">>, 0)
    [] step = "id" -> SetClientsUuid(lines, i)
    [] step = "key" -> SetClientsPrivateKey(lines)

(* They land at the start of the file, over what another process wrote     *)
(* since it was truncated; of that, what is longer remains behind them.    *)
(* In bytes: a name of this length, Base64 of an id and of a 1024-bit key. *)
LineLength(line) ==
  CASE line \in {"blank", "part"} -> 1
    [] line = "name" -> 9
    [] line \in Ids -> 45
    [] line = "key" -> 73
    [] line = "rest" -> 787

Length(lines) ==
  FoldFunction(+, 0, [n \in DOMAIN lines |-> LineLength(lines[n])])

(* Line n of the file is the last that these lines reach.                  *)
Reach(lines, file, n) ==
  /\ n = Len(file) \/ Length(lines) <= Length(SubSeq(file, 1, n))
  /\ \A m \in 0..n - 1 : Length(SubSeq(file, 1, m)) < Length(lines)

Overwritten(lines, file, n) ==
  lines \o (IF Length(lines) < Length(SubSeq(file, 1, n)) THEN <<"part">> ELSE <<>>)
        \o SubSeq(file, n + 1, Len(file))

(* A first line, an id in the second, and anything at all after that.      *)
isRegistered(lines) ==
  /\ lines # None /\ Len(lines) > 2
  /\ lines[1] # "blank" /\ lines[2] \in Ids

(* Whether what follows the id decodes to a private key.  What comes after *)
(* the key does not matter.                                                *)
KeyIsWhole(lines) ==
  LET kept == Lines(SubSeq(lines, 3, Len(lines)))
  IN  Len(kept) > 1 /\ kept[1] = "key" /\ kept[2] = "rest"
=============================================================================
