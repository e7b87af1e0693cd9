------------------------------ MODULE ServerIcd ------------------------------
(***************************************************************************)
(* The wire contract both programs compile in: ServerIcd.h on the client's *)
(* side, TcpServer/protocol.py on the server's.  All sizes are in bytes.   *)
(*                                                                         *)
(* A message is a record that keeps the fields the two sides act on.  Both *)
(* sides exchange packets of PACKET_SIZE bytes: a response or a request is *)
(* one packet, an upload is a head packet followed by CHUNK packets.       *)
(***************************************************************************)
EXTENDS Integers, Sequences

CONSTANTS
  Ids,        \* client uuids the server may draw
  Names,      \* user names of the clients
  FileNames,  \* names clients give to the files they upload
  Keys,       \* AES session keys
  Files,      \* the distinct file bodies on the clients' disks
  SizeOf,     \* SizeOf[f] is the length of file body f
  None        \* the absent value: no row, no key, no message, checksum 0

ASSUME SizeAssumption == SizeOf \in [Files -> Nat]
ASSUME BodyAssumption == Files \cap {"garbage", "null", "torn"} = {}

-----------------------------------------------------------------------------
PACKET_SIZE == 1024
CLIENT_ID_SIZE == 16
HEADER_SIZE == 7
FILE_NAME_SIZE == 255
BLOCK_SIZE == 16          \* AES block

(* Offset of the encrypted content in the head packet of an upload. *)
ContentOffset == CLIENT_ID_SIZE + HEADER_SIZE + 4 + FILE_NAME_SIZE

(* FileHandler pads with zeros to a whole number of AES blocks. *)
PaddedSize(n) == n + (BLOCK_SIZE - (IF n % BLOCK_SIZE > 0 THEN n % BLOCK_SIZE
                                                          ELSE BLOCK_SIZE))

(* The CBC filter of AESWrapper adds a whole block of its own padding to a *)
(* plaintext that is already block-aligned.                                *)
CipherSize(padded) == padded + BLOCK_SIZE

(* Mutant: the last of several packets, if it is not full, is not sent. *)
PacketsRoundedDown(len) == IF len <= PACKET_SIZE THEN 1 ELSE len \div PACKET_SIZE

(* What TcpClientChannel::Write puts on the wire for a message of len bytes.*)
Packets(len) == (len + PACKET_SIZE - 1) \div PACKET_SIZE

(* RequestToSendFile.unpack: how much content it takes from the head packet,*)
(* and whether the head packet holds that much.                            *)
HeadBytes(enc) == IF enc > PACKET_SIZE THEN PACKET_SIZE - ContentOffset ELSE enc
HeadUnpacks(enc) == HeadBytes(enc) <= PACKET_SIZE - ContentOffset

-----------------------------------------------------------------------------
(* A file body as it travels: the bytes of a file followed by zeros up to  *)
(* size, or no bytes where the file to send does not exist.  The other     *)
(* three are what a wrong decryption yields, a File object whose content is*)
(* Python's None, and a file cut off by a crash.                           *)
Padded(f) == [of |-> f, size |-> PaddedSize(SizeOf[f])]
NoBytes == [of |-> "nothing", size |-> 0]
Contents == {Padded(f) : f \in Files} \cup {NoBytes}
Garbage == [of |-> "garbage", size |-> BLOCK_SIZE]
NullContent == [of |-> "null", size |-> 0]
Torn == [of |-> "torn", size |-> 0]

(* CRC-32, without collisions.  The checksum of no bytes is 0, which is    *)
(* also what a FileReceivedCrcValueResponse carries by default.            *)
Crc(c) == IF c.size = 0 THEN None ELSE c

(* AES-CBC with the fixed zero initialisation vector, cut to content_size. *)
Decrypt(key, m) == IF key = None THEN NullContent
                   ELSE IF key = m.key \/ m.data.size = 0 THEN m.data ELSE Garbage

-----------------------------------------------------------------------------
RegistrationRequest == [code: {"REGISTRATION"}, name: Names]
PublicKeyRequest == [code: {"PUBLIC_KEY"}, id: Ids, rsa: BOOLEAN]
SendFileRequest == [code: {"SEND_FILE"}, id: Ids, file: FileNames,
                    key: Keys, data: Contents]
ChunkPacket == [code: {"CHUNK"}]
CrcStatusRequest == [code: {"CRC_VALID", "CRC_RESEND", "CRC_ABORT"},
                     id: Ids, file: FileNames]

Request == RegistrationRequest \cup PublicKeyRequest \cup SendFileRequest
             \cup ChunkPacket \cup CrcStatusRequest

(* A session key that is None is one that does not decrypt to any.         *)
Response ==
  [code: {"REGISTRATION_SUCCEEDED"}, val: Ids]
    \cup [code: {"PUBLIC_KEY_RECEIVED"}, val: Keys \cup {None}]
    \cup [code: {"MSG_RECEIVED_CRC"}, val: Contents \cup {Garbage, None}]
    \cup [code: {"MSG_RECEIVED", "REGISTRATION_FAILED"}, val: {None}]

Reply(c, v) == [code |-> c, val |-> v]
Failed == Reply("REGISTRATION_FAILED", None)
=============================================================================
