----------------------------- MODULE AeadStream -----------------------------
(***************************************************************************)
(* One direction of a shadowsocks AEAD stream: the EncryptedWriter at one  *)
(* end (lib/shadowsocks/src/tcp/aead.rs), a TCP connection, and the        *)
(* DecryptedReader at the other.                                           *)
(*                                                                         *)
(* The writer sends its salt and then packets, each of them two encrypted  *)
(* blocks: the length of the payload and the payload.  Every block is      *)
(* sealed with a tag under the next nonce of the cipher, and the reader    *)
(* must take exactly the same blocks apart although the connection hands   *)
(* it arbitrary pieces of them.                                            *)
(*                                                                         *)
(* Block 0 is the salt, in the clear; block n > 0 is the one sealed with   *)
(* nonce n - 1.  The unit <<n, k>> on the wire is byte k of block n.  The  *)
(* cipher is ideal: a block opens only whole, under its own nonce and key. *)
(***************************************************************************)
EXTENDS Naturals, Sequences, SequencesExt

CONSTANTS
  SALT_LEN,         \* bytes of the salt
  LENGTH_LEN,       \* bytes of a length (2 in the code)
  TAG_LEN,          \* bytes of a tag
  MAX_PACKET_SIZE,  \* largest payload the reader accepts (0x3FFF)
  SENDER_MAX,       \* largest payload the writer puts in a packet; the peer
                    \* of the reader is another program and may have another
  MaxCall,          \* bound: largest buffer given to the writer
  MaxPackets,       \* bound: packets written
  MaxRead,          \* bound: largest buffer given to the reader
  Capacity          \* bytes the connection holds

ASSUME SizesAssumption ==
  /\ SALT_LEN \in Nat \ {0}
  /\ LENGTH_LEN \in Nat \ {0}
  /\ TAG_LEN \in Nat \ {0}
  /\ MAX_PACKET_SIZE \in Nat \ {0}
  /\ SENDER_MAX \in Nat \ {0}
  /\ MaxCall \in Nat
  /\ MaxPackets \in Nat
  /\ MaxRead \in Nat \ {0}
  /\ Capacity \in Nat \ {0}

VARIABLES
  sameKey,   \* do both ends use the same password?
  \* EncryptedWriter.
  wstate,    \* "AssemblePacket", "Writing", or "dropped" with its socket
  wbuf,      \* buffer: the units to be written
  wpos,      \* how many of them have been
  blocks,    \* blocks[n]: the contents sealed under nonce n - 1, so far
  accepted,  \* ghost: bytes of the payloads assembled
  \* The connection.
  wire,      \* units written and not yet read
  fin,       \* has the writer closed its end?
  cut,       \* ghost: was that in the middle of the salt or of a packet?
  began,     \* ghost: the bytes of packets of which something was written
  \* DecryptedReader.
  rstate,    \* WaitSalt, ReadLength, ReadData, BufferedData, or how it ended
  rbuf,      \* buffer: units not yet opened
  plain,     \* buffer once it is decrypted, less what was handed out (pos)
  length,    \* length of the packet, in ReadData
  rnonce,    \* blocks taken off the wire: the salt and those opened
  recv       \* ghost: bytes handed out by poll_read_decrypted

writerVars == <<wstate, wbuf, wpos, blocks, accepted>>
wireVars == <<wire, fin, cut, began>>
readerVars == <<rstate, rbuf, plain, length, rnonce, recv>>
vars == <<sameKey, writerVars, wireVars, readerVars>>

Smaller(a, b) == IF a < b THEN a ELSE b

-----------------------------------------------------------------------------
(* Cipher.                                                                 *)

\* The units of block n of size s, tag included.
Sealed(n, s) == [k \in 1..s |-> <<n, k>>]

\* Cipher::decrypt under the key and the nonce of the reader.
Opens(units) ==
  /\ sameKey
  /\ rnonce < Len(blocks)
  /\ units = Sealed(rnonce, Len(blocks[rnonce + 1]) + TAG_LEN)

\* What the block contains when it opens.
Opened == blocks[rnonce + 1]

-----------------------------------------------------------------------------
(* EncryptedWriter::poll_write_encrypted.                                  *)

\* The bytes of the next payload; a byte is known by its position.
Payload(size) == [k \in 1..size |-> Len(accepted) + k]

\* A length, as LENGTH_LEN bytes of which the first carries its value.
LengthBytes(size) == [k \in 1..LENGTH_LEN |-> IF k = 1 THEN size ELSE 0]

\* A call with a buffer of `len` bytes: a packet of at most SENDER_MAX bytes
\* is appended to the buffer, which still holds the salt before the first.
AssemblePacket(len) ==
  /\ wstate = "AssemblePacket"
  /\ Len(blocks) < 1 + 2 * MaxPackets
  /\ LET size == Smaller(len, SENDER_MAX)
         n == Len(blocks)
     IN /\ wbuf' = wbuf \o Sealed(n, LENGTH_LEN + TAG_LEN) \o Sealed(n + 1, size + TAG_LEN)
        /\ blocks' = blocks \o <<LengthBytes(size), Payload(size)>>
        /\ accepted' = accepted \o Payload(size)
  /\ wstate' = "Writing"
  /\ wpos' = 0
  /\ UNCHANGED <<sameKey, wireVars, readerVars>>

\* Mutant of ResetState: the buffer keeps the packet that has been written.
ResetStateOnly == wstate' = "AssemblePacket" /\ wpos' = 0 /\ UNCHANGED wbuf

\* The packet is written: the call returns and the buffer is free again.
ResetState == wstate' = "AssemblePacket" /\ wpos' = 0 /\ wbuf' = <<>>

\* One poll_write of the socket takes at least one byte of the buffer.  With
\* the last one the call returns.
Writing ==
  /\ wstate = "Writing"
  /\ \E n \in 1..(Len(wbuf) - wpos) :
       /\ Len(wire) + n <= Capacity
       /\ wire' = wire \o SubSeq(wbuf, wpos + 1, wpos + n)
       /\ began' = IF wbuf[wpos + n][1] = 0 THEN began ELSE accepted
       /\ \/ /\ wpos + n < Len(wbuf)
             /\ wpos' = wpos + n
             /\ UNCHANGED <<wstate, wbuf>>
          \/ /\ wpos + n = Len(wbuf)
             /\ ResetState
  /\ UNCHANGED <<sameKey, blocks, accepted, fin, cut, readerVars>>

\* The writer and its socket are dropped, in the middle of a packet if the
\* other direction of the session ends then.
Drop ==
  /\ wstate # "dropped"
  /\ wstate' = "dropped"
  /\ fin' = TRUE
  /\ cut' = (wstate = "Writing" \/ Len(blocks) = 1)
  /\ wbuf' = <<>>
  /\ wpos' = 0
  /\ UNCHANGED <<sameKey, blocks, accepted, wire, began, readerVars>>

-----------------------------------------------------------------------------
(* DecryptedReader::poll_read_decrypted.                                   *)

Reading == {"WaitSalt", "ReadLength", "ReadData"}

\* Bytes the reader needs in its buffer before it can go on.
Needed ==
  CASE rstate = "WaitSalt"   -> SALT_LEN
    [] rstate = "ReadLength" -> LENGTH_LEN + TAG_LEN
    [] rstate = "ReadData"   -> length + TAG_LEN

\* pool_read_exact: the socket yields some of the bytes asked for.
ReadSome ==
  /\ rstate \in Reading
  /\ Len(rbuf) < Needed
  /\ \E n \in 1..Smaller(Needed - Len(rbuf), Len(wire)) :
       /\ rbuf' = rbuf \o SubSeq(wire, 1, n)
       /\ wire' = SubSeq(wire, n + 1, Len(wire))
  /\ UNCHANGED <<sameKey, writerVars, fin, cut, began, rstate, plain, length, rnonce, recv>>

\* pool_read_exact: the end of the connection.  It is the end of the stream
\* only between two packets, an error anywhere else.
ReadEof ==
  /\ rstate \in Reading
  /\ Len(rbuf) < Needed
  /\ wire = <<>> /\ fin
  /\ rstate' = IF rstate = "ReadLength" /\ rbuf = <<>> THEN "eof" ELSE "error"
  /\ rbuf' = <<>>
  /\ UNCHANGED <<sameKey, writerVars, wireVars, plain, length, rnonce, recv>>

\* The socket fails under the reader.
SocketError ==
  /\ rstate \in Reading
  /\ rstate' = "failed"
  /\ rbuf' = <<>>
  /\ UNCHANGED <<sameKey, writerVars, wireVars, plain, length, rnonce, recv>>

\* poll_read_salt: the salt is complete, the cipher is made from it.
ReadSalt ==
  /\ rstate = "WaitSalt"
  /\ Len(rbuf) = Needed
  /\ rbuf' = <<>>
  /\ rnonce' = 1
  /\ rstate' = "ReadLength"
  /\ UNCHANGED <<sameKey, writerVars, wireVars, plain, length, recv>>

\* The higher two bits of a length are reserved.
LengthAllowed(plen) == plen <= MAX_PACKET_SIZE

\* poll_read_length and decrypt_length.
ReadLength ==
  /\ rstate = "ReadLength"
  /\ Len(rbuf) = Needed
  /\ rbuf' = <<>>
  /\ rnonce' = rnonce + 1
  /\ IF Opens(rbuf) /\ LengthAllowed(Opened[1])
     THEN length' = Opened[1] /\ rstate' = "ReadData"
     ELSE rstate' = "error" /\ UNCHANGED length
  /\ UNCHANGED <<sameKey, writerVars, wireVars, plain, recv>>

\* poll_read_data: the payload is opened and the tag cut off.
ReadData ==
  /\ rstate = "ReadData"
  /\ Len(rbuf) = Needed
  /\ rbuf' = <<>>
  /\ rnonce' = rnonce + 1
  /\ length' = 0
  /\ IF Opens(rbuf)
     THEN plain' = Opened /\ rstate' = "BufferedData"
     ELSE rstate' = "error" /\ UNCHANGED plain
  /\ UNCHANGED <<sameKey, writerVars, wireVars, recv>>

\* Mutant of HandOut: what does not fit the buffer of the caller is lost.
HandOutOnce ==
  /\ rstate = "BufferedData"
  /\ plain # <<>>
  /\ \E remaining \in 1..MaxRead :
       recv' = recv \o SubSeq(plain, 1, Smaller(Len(plain), remaining))
  /\ plain' = <<>>
  /\ UNCHANGED <<sameKey, writerVars, wireVars, rstate, rbuf, length, rnonce>>

\* Mutant of HandOut: the payload is handed out only as a whole.
HandOutWhole ==
  /\ rstate = "BufferedData"
  /\ plain # <<>>
  /\ Len(plain) <= MaxRead
  /\ recv' = recv \o plain
  /\ plain' = <<>>
  /\ UNCHANGED <<sameKey, writerVars, wireVars, rstate, rbuf, length, rnonce>>

\* The caller gets as much of the payload as fits its buffer.
HandOut ==
  /\ rstate = "BufferedData"
  /\ plain # <<>>
  /\ \E remaining \in 1..MaxRead :
       LET consumed == Smaller(Len(plain), remaining)
       IN /\ recv' = recv \o SubSeq(plain, 1, consumed)
          /\ plain' = SubSeq(plain, consumed + 1, Len(plain))
  /\ UNCHANGED <<sameKey, writerVars, wireVars, rstate, rbuf, length, rnonce>>

\* The payload is used up, or was empty: on to the next packet.
NextPacket ==
  /\ rstate = "BufferedData"
  /\ plain = <<>>
  /\ rstate' = "ReadLength"
  /\ UNCHANGED <<sameKey, writerVars, wireVars, rbuf, plain, length, rnonce, recv>>

Read == ReadSome \/ ReadEof \/ ReadSalt \/ ReadLength \/ ReadData \/ HandOut \/ NextPacket

-----------------------------------------------------------------------------
Init ==
  /\ sameKey \in BOOLEAN
  /\ wstate = "AssemblePacket"
  /\ wbuf = Sealed(0, SALT_LEN)
  /\ wpos = 0
  /\ blocks = <<Sealed(0, SALT_LEN)>>
  /\ accepted = <<>>
  /\ wire = <<>>
  /\ fin = FALSE
  /\ cut = FALSE
  /\ began = <<>>
  /\ rstate = "WaitSalt"
  /\ rbuf = <<>>
  /\ plain = <<>>
  /\ length = 0
  /\ rnonce = 0
  /\ recv = <<>>

\* The reader has reported the end of the stream or an error.
Ended == {"eof", "error", "failed"}

Finished == rstate \in Ended /\ UNCHANGED vars

Next ==
  \/ \E len \in 0..MaxCall : AssemblePacket(len)
  \/ Writing
  \/ Drop
  \/ Read
  \/ SocketError
  \/ Finished

Spec == Init /\ [][Next]_vars

\* The socket takes bytes when there is room and yields them when it has
\* some, and both tasks are polled again then.  Nothing makes the caller
\* write or drop the stream.
Fairness == WF_vars(Writing) /\ WF_vars(Read)

FairSpec == Spec /\ Fairness

-----------------------------------------------------------------------------
(* Properties.                                                             *)

\* The packets whose payload is longer than the reader allows.
Oversize ==
  {k \in 1..MaxPackets : 2 * k + 1 <= Len(blocks) /\ Len(blocks[2 * k + 1]) > MAX_PACKET_SIZE}

\* Between two ends with the same password the reader fails only if the
\* connection is cut in the middle of a packet or a packet is too long for it;
\* such a packet is never opened, wherever in the stream it comes
\* (decrypt_length, Cipher::increase_nonce at both ends).
NoSpuriousError ==
  /\ rstate = "error" => ~sameKey \/ cut \/ Oversize # {}
  /\ \A k \in Oversize : rnonce <= 2 * k

\* The stream as its user sees it: bytes in, the same bytes out.
Stream == INSTANCE ByteStream WITH
  in <- began, out <- recv, closed <- fin,
  end <- IF rstate = "eof" THEN "eof"
         ELSE IF rstate \in {"error", "failed"} THEN "error" ELSE "open"

\* The two state machines and the connection between them implement a byte
\* stream: nothing is lost, repeated or reordered by poll_write_encrypted and
\* poll_read_decrypted, and a clean end of the stream comes only after
\* everything of which the reader could have seen a byte.
StreamSpec == Stream!Spec

\* A byte whose packet has begun to be written reaches the reader, or the
\* reader learns that something is wrong; and once the writer is gone the
\* reader comes to an end.
AllDelivered ==
  /\ \A n \in 1..(MaxPackets * SENDER_MAX) :
       Len(began) >= n ~> Len(recv) >= n \/ rstate \in {"error", "failed"}
  /\ fin ~> rstate \in Ended
=============================================================================
