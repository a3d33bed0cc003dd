------------------------------- MODULE Relay -------------------------------
(***************************************************************************)
(* A relay session, ProxyStream::connect and proxy: one task that connects *)
(* to a shadowsocks server, then copies the bytes of a local client to it  *)
(* and the server's bytes back (lib/shadowsocks/src/tcp/proxy.rs and       *)
(* utils.rs).                                                              *)
(*                                                                         *)
(* Both directions are a CopyBuffer.  `select` polls them in one task, and *)
(* the first one to end, well or badly, ends the session: the other is     *)
(* dropped where it stands.  The first packet of the upload carries the    *)
(* target address before the client's bytes.  The encrypted streams are    *)
(* byte streams here, as AeadStream shows them to be; what is kept of the  *)
(* writer is that it takes a packet of at most MAX_PACKET_SIZE at a time.  *)
(*                                                                         *)
(* Release build: the debug_assert of poll_write is not compiled in.       *)
(***************************************************************************)
EXTENDS Naturals, Sequences, SequencesExt

CONSTANTS
  MAX_PACKET_SIZE,  \* size of the upload buffer and of the largest packet
  ADDR_LEN,         \* bytes of the serialized target address
  MaxFirst,         \* most bytes the first read of the client returns
  MaxUp, MaxDown,   \* bound: bytes the client, the server send
  DownBuffer        \* size of the download buffer

ASSUME SizesAssumption ==
  /\ MAX_PACKET_SIZE \in Nat \ {0}
  /\ ADDR_LEN \in Nat \ {0}
  /\ MaxFirst \in 1..MAX_PACKET_SIZE
  /\ MaxUp \in Nat /\ MaxDown \in Nat
  /\ DownBuffer \in Nat \ {0}

VARIABLES
  \* The peers.  Byte k of a peer is the number k.
  csent, ceof,     \* bytes the client has sent; has it closed its side?
  ssent, seof,     \* the same of the server
  \* copy_to_encrypted.
  cread,           \* bytes read from the client
  up,              \* buf[pos..cap] of the CopyBuffer
  upDone,          \* read_done
  amt,             \* bytes the writer has said it took
  writeState,      \* WriteState: "Connect", "Connecting" or "Connected"
  writing,         \* payload of the packet being written, <<>> if none
  remote,          \* bytes the server has received; an address byte is 0
  \* copy_from_encrypted.
  sread, down, downDone,
  local,           \* the bytes delivered to the client
  link,            \* connect: "resolve", "socket", "connect", then "up"
  result           \* "connecting", "running", or what was returned: "ok", "err"

peerVars == <<csent, ceof, ssent, seof>>
upVars == <<cread, up, upDone, amt, writeState, writing, remote>>
downVars == <<sread, down, downDone, local>>
vars == <<peerVars, upVars, downVars, link, result>>

Ended == {"ok", "err"}

Smaller(a, b) == IF a < b THEN a ELSE b
Bytes(from, to) == [k \in 1..(to - from) |-> from + k]
Address == [k \in 1..ADDR_LEN |-> 0]
Take(s, n) == SubSeq(s, 1, Smaller(Len(s), n))
Drop(s, n) == SubSeq(s, n + 1, Len(s))

-----------------------------------------------------------------------------
(* The client and the server.                                              *)

ClientSend ==
  /\ ~ceof /\ csent < MaxUp
  /\ csent' = csent + 1
  /\ UNCHANGED <<ceof, ssent, seof, upVars, downVars, result, link>>

ClientClose ==
  /\ ~ceof
  /\ ceof' = TRUE
  /\ UNCHANGED <<csent, ssent, seof, upVars, downVars, result, link>>

ServerSend ==
  /\ link = "up"
  /\ ~seof /\ ssent < MaxDown
  /\ ssent' = ssent + 1
  /\ UNCHANGED <<csent, ceof, seof, upVars, downVars, result, link>>

ServerClose ==
  /\ link = "up"
  /\ ~seof
  /\ seof' = TRUE
  /\ UNCHANGED <<csent, ceof, ssent, upVars, downVars, result, link>>

-----------------------------------------------------------------------------
(* ProxyStream::connect.  The options are the default ones, so that none   *)
(* is set on the socket.                                                   *)

\* One step of connect succeeds.
Reach(from, to) ==
  /\ link = from
  /\ link' = to
  /\ result' = IF to = "up" THEN "running" ELSE result
  /\ UNCHANGED <<peerVars, upVars, downVars>>

\* The name of the server is resolved; TcpSocket::new and connect succeed; the
\* stream is wrapped with a fresh salt and knows its target.
Resolve == Reach("resolve", "socket")
OpenSocket == Reach("socket", "connect")
SocketConnect == Reach("connect", "up")

\* Any of them fails, and nothing has been sent.
ConnectFail ==
  /\ result = "connecting"
  /\ result' = "err"
  /\ link' = "down"
  /\ UNCHANGED <<peerVars, upVars, downVars>>

Connect == Resolve \/ OpenSocket \/ SocketConnect \/ ConnectFail

-----------------------------------------------------------------------------
(* CopyBuffer::poll_copy over the client and ProxyStream::poll_write.      *)

\* Mutant of UpRead: the end of the client is not noted.
UpReadNoEof ==
  /\ result = "running"
  /\ up = <<>> /\ ~upDone
  /\ \E n \in 1..Smaller(csent - cread, MAX_PACKET_SIZE) :
       /\ writeState = "Connect" => n <= MaxFirst
       /\ up' = Bytes(cread, cread + n)
       /\ cread' = cread + n
  /\ UNCHANGED <<peerVars, upDone, amt, writeState, writing, remote, downVars, result, link>>

\* The buffer is empty: read into it, or note the end of the client.
UpRead ==
  /\ result = "running"
  /\ up = <<>> /\ ~upDone
  /\ \/ \E n \in 1..Smaller(csent - cread, MAX_PACKET_SIZE) :
          /\ writeState = "Connect" => n <= MaxFirst
          /\ up' = Bytes(cread, cread + n)
          /\ cread' = cread + n
          /\ UNCHANGED upDone
     \/ /\ ceof /\ cread = csent
        /\ upDone' = TRUE
        /\ UNCHANGED <<up, cread>>
  /\ UNCHANGED <<peerVars, amt, writeState, writing, remote, downVars, result, link>>

\* Mutant of Packet: one byte less than there is room for.
PacketShort(buf) == Take(buf, MAX_PACKET_SIZE - 1)

\* The packet poll_write_encrypted assembles out of buf.
Packet(buf) == Take(buf, MAX_PACKET_SIZE)

\* Mutant of FirstPacket: the client's bytes alone.
FirstPacketBare(buf) == buf

\* make_first_packet_buffer.
FirstPacket(buf) == Address \o buf

\* The first poll_write builds the first packet and starts to write it.
UpConnect ==
  /\ result = "running"
  /\ up # <<>> /\ writeState = "Connect"
  /\ writing' = Packet(FirstPacket(up))
  /\ writeState' = "Connecting"
  /\ UNCHANGED <<peerVars, cread, up, upDone, amt, remote, downVars, result, link>>

\* The first packet is out.  poll_write reports all of its argument as
\* written, whatever the packet held.
UpConnected ==
  /\ result = "running"
  /\ writeState = "Connecting"
  /\ writeState' = "Connected"
  /\ remote' = remote \o writing
  /\ writing' = <<>>
  /\ amt' = amt + Len(up)
  /\ up' = <<>>
  /\ UNCHANGED <<peerVars, cread, upDone, downVars, result, link>>

UpWrite ==
  /\ result = "running"
  /\ up # <<>> /\ writeState = "Connected" /\ writing = <<>>
  /\ writing' = Packet(up)
  /\ UNCHANGED <<peerVars, cread, up, upDone, amt, writeState, remote, downVars, result, link>>

\* The packet is out and poll_write returns its length.
UpWritten ==
  /\ result = "running"
  /\ writeState = "Connected" /\ writing # <<>>
  /\ remote' = remote \o writing
  /\ amt' = amt + Len(writing)
  /\ up' = Drop(up, Len(writing))
  /\ writing' = <<>>
  /\ UNCHANGED <<peerVars, cread, upDone, writeState, downVars, result, link>>

\* Mutant of UpComplete: the end of the client is enough.
UpCompleteEarly == upDone \/ (ceof /\ up = <<>>)

UpComplete == upDone /\ up = <<>>

\* The client has ended and everything is written: the copy returns, and
\* with it the session.
UpFinish ==
  /\ result = "running"
  /\ UpComplete
  /\ result' = "ok"
  /\ UNCHANGED <<peerVars, upVars, downVars, link>>

Up == UpRead \/ UpConnect \/ UpConnected \/ UpWrite \/ UpWritten \/ UpFinish

-----------------------------------------------------------------------------
(* CopyBuffer::poll_copy over ProxyStream::poll_read and the client.       *)

DownRead ==
  /\ result = "running"
  /\ down = <<>> /\ ~downDone
  /\ \/ \E n \in 1..Smaller(ssent - sread, DownBuffer) :
          /\ down' = Bytes(sread, sread + n)
          /\ sread' = sread + n
          /\ UNCHANGED downDone
     \/ /\ seof /\ sread = ssent
        /\ downDone' = TRUE
        /\ UNCHANGED <<down, sread>>
  /\ UNCHANGED <<peerVars, upVars, local, result, link>>

\* Mutant of Unwritten: the whole buffer counts as written.
UnwrittenNone(buf, n) == Drop(buf, Len(buf))

\* What is left of the buffer when the client's socket has taken n bytes.
Unwritten(buf, n) == Drop(buf, n)

DownWrite ==
  /\ result = "running"
  /\ down # <<>>
  /\ \E n \in 1..Len(down) : /\ local' = local \o Take(down, n)
                             /\ down' = Unwritten(down, n)
  /\ UNCHANGED <<peerVars, upVars, sread, downDone, result, link>>

DownFinish ==
  /\ result = "running"
  /\ downDone /\ down = <<>>
  /\ result' = "ok"
  /\ UNCHANGED <<peerVars, upVars, downVars, link>>

Down == DownRead \/ DownWrite \/ DownFinish

\* An error of either socket, or of the encryption, ends the session.
Fail ==
  /\ result = "running"
  /\ result' = "err"
  /\ UNCHANGED <<peerVars, upVars, downVars, link>>

-----------------------------------------------------------------------------
Init ==
  /\ csent = 0 /\ ceof = FALSE
  /\ ssent = 0 /\ seof = FALSE
  /\ cread = 0 /\ up = <<>> /\ upDone = FALSE /\ amt = 0
  /\ writeState = "Connect" /\ writing = <<>> /\ remote = <<>>
  /\ sread = 0 /\ down = <<>> /\ downDone = FALSE /\ local = <<>>
  /\ link \in {"resolve", "socket"}
  /\ result = "connecting"

\* The session is over and both sockets are closed.
Over == result \in Ended /\ UNCHANGED vars

Next ==
  \/ ClientSend \/ ClientClose \/ ServerSend \/ ServerClose
  \/ Connect \/ Up \/ Down \/ Fail \/ Over

Spec == Init /\ [][Next]_vars

\* The resolver and the operating system answer.  The task is polled whenever
\* one of its sockets can make progress, and the peers take what they are sent.
Fairness == WF_vars(Connect) /\ WF_vars(Up) /\ WF_vars(Down)

FairSpec == Spec /\ Fairness

-----------------------------------------------------------------------------
(* Properties.                                                             *)

\* The server gets the target address once, first, and then the client's
\* bytes, each once and in order (poll_write and poll_copy).
UploadIntact == IsPrefix(remote, Address \o Bytes(0, csent))

\* The client gets the server's bytes, each once and in order, although its
\* socket takes them in pieces.
DownloadIntact == IsPrefix(local, Bytes(0, ssent))

\* proxy returns Ok only if one of its directions is complete: its source has
\* closed and everything it sent has been passed on.  (The other one may have
\* been cut short.)
OkMeansOneWayComplete ==
  result = "ok" =>
    \/ ceof /\ (csent = 0 \/ remote = Address \o Bytes(0, csent))
    \/ seof /\ local = Bytes(0, ssent)

\* A session whose client or server has closed comes to its end, also if the
\* client closes while the server is being connected.
SessionEnds == ceof \/ seof ~> result \in Ended

\* What the client has sent, before the connection or after, reaches the
\* server, unless the session ends.
UploadDelivered ==
  \A n \in 1..MaxUp : csent >= n ~> Len(remote) >= ADDR_LEN + n \/ result \in Ended

-----------------------------------------------------------------------------
(* What the repository says and the code does not do.                      *)

\* poll_write: "In general, poll_write_encrypted should perform like
\* write_all", debug_assert!(n == buffer.len()).  Every byte reported as
\* written would then have reached the server.
NothingLost == writeState = "Connected" => Len(remote) = ADDR_LEN + amt
=============================================================================
