------------------------------ MODULE Aead2022 ------------------------------
(***************************************************************************)
(* A session of an AEAD-2022 method, as the client sees it: the            *)
(* EncryptedWriter and DecryptedReader of                                  *)
(* lib/shadowsocks/src/tcp/aead2022.rs over one TCP connection, and the    *)
(* check of the request salt in ProxyStream::poll_read (tcp/proxy.rs).     *)
(*                                                                         *)
(* A request is salt, header, data and then (length, data) again and       *)
(* again; so is the response, whose header also names the salt of the      *)
(* request it answers and the time it was made.  The header of the         *)
(* response is wanted in one read.  The server is another program: here it *)
(* takes a request apart as the protocol says, and may answer with a       *)
(* header of any kind, in any pieces, and stop anywhere.                   *)
(*                                                                         *)
(* Block 0 of a direction is the salt, block n > 0 the one sealed with     *)
(* nonce n - 1; unit <<n, k>> is byte k of block n.  The cipher is ideal.  *)
(***************************************************************************)
EXTENDS Integers, Sequences, SequencesExt

CONSTANTS
  SALT_LEN,         \* bytes of a salt
  REQUEST_LEN,      \* bytes of the header of a request
  RESPONSE_LEN,     \* bytes of the header of a response
  LENGTH_LEN,       \* bytes of a length (2 in the code)
  TAG_LEN,          \* bytes of a tag
  MAX_PACKET_SIZE,  \* largest payload of a packet (0xFFFF)
  MAX_DIFF,         \* SERVER_STREAM_TIMESTAMP_MAX_DIFF (30), in units of a time stamp
  UNITS,            \* units of a time stamp in a second (2^32)
  TICKS,            \* ticks of CLOCK_MONOTONIC_COARSE in a second (at most 1000)
  UNIX,             \* seconds from 1970 to the first second of that clock
  Skews,            \* how far the stamps of a server with such a clock are ahead
  FirstTick,        \* the tick at which the session begins
  MaxTime,          \* bound: ticks of the clock
  MaxCall,          \* bound: a buffer given to the writer is empty or of this size
  MaxPackets,       \* bound: packets in each direction
  MaxReply,         \* bound: a payload of the server is empty or of this size
  MaxRead           \* bound: largest buffer given to the reader

ASSUME SizesAssumption ==
  /\ {SALT_LEN, REQUEST_LEN, RESPONSE_LEN, LENGTH_LEN, TAG_LEN} \subseteq Nat \ {0}
  /\ {MAX_PACKET_SIZE, MaxRead} \subseteq Nat \ {0}
  /\ {MAX_DIFF, UNIX, FirstTick, MaxTime, MaxCall, MaxPackets, MaxReply} \subseteq Nat
  /\ UNITS \in Nat /\ TICKS \in Nat \ {0}
  /\ UNITS \div TICKS > MAX_DIFF
  /\ Skews \subseteq Int

VARIABLES
  sameKey,      \* do both ends use the same key?
  unix,         \* does the server stamp the seconds since 1970, as the protocol says?
  skew,         \* if not, its stamps less ours
  now,          \* our clock, in ticks
  \* EncryptedWriter.
  wstate,       \* "AssembleHeader", "AssemblePacket", "Writing" or "dropped"
  wbuf,         \* buffer, from pos on
  request,      \* request[n + 1]: what block n of the request contains
  accepted,     \* ghost: bytes of the payloads assembled
  \* The server.
  up,           \* units of the request on their way
  snonce,       \* blocks of the request it has taken
  slength,      \* the length it has read
  sgot,         \* the bytes it has read
  refused,      \* has it met something that is not the next block?
  sbuf,         \* what it has still to write
  response,     \* response[n + 1]: what block n of the response contains
  sent,         \* ghost: bytes of the payloads of the response
  fin,          \* has it closed its end?
  down,         \* units of the response on their way
  began,        \* ghost: the bytes of packets of which something was written
  cut,          \* ghost: did it close in the middle of a packet?
  \* DecryptedReader and ProxyStream.
  rstate,       \* DecryptReadState, or how the reader ended
  rbuf,         \* buffer: units not yet opened
  plain,        \* buffer once it is decrypted, less what was handed out
  length,       \* length of the data, in ReadData
  rnonce,       \* blocks taken off the connection
  request_salt, \* the salt named by the header, "none" before it is read
  data_chunk_count,
  read_state,   \* "CheckRequestNonce" or "Established"
  recv,         \* ghost: bytes poll_read has handed to the relay
  headAt        \* ghost: when the header was read, -1 before, -2 if in pieces

clockVars == <<sameKey, unix, skew, now>>
writerVars == <<wstate, wbuf, request, accepted>>
requestVars == <<up, snonce, slength, sgot, refused>>
responseVars == <<sbuf, response, sent, fin, began, cut>>
readerVars == <<rstate, rbuf, plain, length, rnonce, request_salt, data_chunk_count,
                read_state, recv, headAt>>
vars == <<clockVars, writerVars, requestVars, responseVars, down, readerVars>>

Smaller(a, b) == IF a < b THEN a ELSE b

Dist(a, b) == IF a < b THEN b - a ELSE a - b

\* The units of block n of size s, tag included.
Sealed(n, s) == [k \in 1..s |-> <<n, k>>]

\* The next `size` bytes after s; a byte is known by its position.
Following(s, size) == [k \in 1..size |-> Len(s) + k]

-----------------------------------------------------------------------------
(* EncryptedWriter::poll_write_encrypted.                                  *)

\* The first call: salt, header and data.  The header carries a time stamp,
\* which only the server looks at, and the length.
AssembleHeader(len) ==
  /\ wstate = "AssembleHeader"
  /\ LET size == Smaller(len, MAX_PACKET_SIZE)
     IN /\ wbuf' = wbuf \o Sealed(1, REQUEST_LEN + TAG_LEN) \o Sealed(2, size + TAG_LEN)
        /\ request' = request \o <<[kind |-> "header", len |-> size],
                                   [kind |-> "data", bytes |-> Following(accepted, size)]>>
        /\ accepted' = accepted \o Following(accepted, size)
  /\ wstate' = "Writing"
  /\ UNCHANGED <<clockVars, requestVars, responseVars, down, readerVars>>

\* Any later call: length and data.
AssemblePacket(len) ==
  /\ wstate = "AssemblePacket"
  /\ Len(request) < 1 + 2 * MaxPackets
  /\ LET size == Smaller(len, MAX_PACKET_SIZE)
         n == Len(request)
     IN /\ wbuf' = wbuf \o Sealed(n, LENGTH_LEN + TAG_LEN) \o Sealed(n + 1, size + TAG_LEN)
        /\ request' = request \o <<[kind |-> "length", len |-> size],
                                   [kind |-> "data", bytes |-> Following(accepted, size)]>>
        /\ accepted' = accepted \o Following(accepted, size)
  /\ wstate' = "Writing"
  /\ UNCHANGED <<clockVars, requestVars, responseVars, down, readerVars>>

\* Mutant of ResetState: the next call starts over with a header.
ResetStateHeader == "AssembleHeader"

\* The state of the writer once its buffer is written.
ResetState == "AssemblePacket"

\* The socket takes some of the buffer; with the last byte the call returns.
Writing ==
  /\ wstate = "Writing"
  /\ \E n \in 1..Len(wbuf) :
       /\ up' = up \o SubSeq(wbuf, 1, n)
       /\ wbuf' = SubSeq(wbuf, n + 1, Len(wbuf))
       /\ wstate' = IF n = Len(wbuf) THEN ResetState ELSE wstate
  /\ UNCHANGED <<clockVars, request, accepted, snonce, slength, sgot, refused, responseVars, down, readerVars>>

\* The session ends: its task returns and drops both directions.
End(how) ==
  /\ rstate' = how
  /\ wstate' = "dropped"
  /\ wbuf' = <<>>
  /\ UNCHANGED <<request, accepted>>

\* It ends because the socket fails or the client is done.
Drop ==
  /\ wstate # "dropped"
  /\ End("dropped")
  /\ UNCHANGED <<clockVars, requestVars, responseVars, down, rbuf, plain, length, rnonce,
                 request_salt, data_chunk_count, read_state, recv, headAt>>

-----------------------------------------------------------------------------
(* The clock and the server.                                               *)

\* get_now_timestamp on Linux, at tick t of the machine's own monotonic clock:
\* the seconds in the upper bits and the fraction in the lower ones.  A tick is
\* many units, and more than MAX_DIFF.
GetNowTimestamp(t) == UNITS * (t \div TICKS) + (UNITS * (t % TICKS)) \div TICKS

\* The time stamp of a server at our tick t.
ServerTimestamp(t) == IF unix THEN UNIX + t \div TICKS ELSE GetNowTimestamp(t) + skew

Tick ==
  /\ now < MaxTime
  /\ now' = now + 1
  /\ UNCHANGED <<sameKey, unix, skew, writerVars, requestVars, responseVars, down, readerVars>>

\* The block of the request that comes next, and its size.
NextKind == CASE snonce = 0     -> "salt"
              [] snonce = 1     -> "header"
              [] snonce % 2 = 0 -> "data"
              [] OTHER          -> "length"

NextSize == CASE snonce = 0     -> SALT_LEN
              [] snonce = 1     -> REQUEST_LEN + TAG_LEN
              [] snonce % 2 = 0 -> slength + TAG_LEN
              [] OTHER          -> LENGTH_LEN + TAG_LEN

\* The server takes a block of the request and opens it.
ServerRead ==
  /\ ~fin /\ ~refused
  /\ Len(up) >= NextSize
  /\ LET block == request[snonce + 1]
         opens == /\ SubSeq(up, 1, NextSize) = Sealed(snonce, NextSize)
                  /\ snonce > 0 => sameKey
                  /\ block.kind = NextKind
     IN IF opens
        THEN /\ slength' = IF NextKind \in {"header", "length"} THEN block.len ELSE slength
             /\ sgot' = IF NextKind = "data" THEN sgot \o block.bytes ELSE sgot
             /\ UNCHANGED refused
        ELSE refused' = TRUE /\ UNCHANGED <<slength, sgot>>
  /\ snonce' = snonce + 1
  /\ up' = SubSeq(up, NextSize + 1, Len(up))
  /\ UNCHANGED <<clockVars, writerVars, responseVars, down, readerVars>>

\* Once it has the salt and the header of the request the server answers:
\* salt, header and data.
ServerHeader(ty, salt, size) ==
  /\ ~fin /\ ~refused
  /\ snonce >= 2
  /\ Len(response) = 1
  /\ response' = response \o
       <<[type |-> ty, timestamp |-> ServerTimestamp(now), salt |-> salt, len |-> size], Following(sent, size)>>
  /\ sbuf' = Sealed(0, SALT_LEN) \o Sealed(1, RESPONSE_LEN + TAG_LEN) \o Sealed(2, size + TAG_LEN)
  /\ sent' = sent \o Following(sent, size)
  /\ UNCHANGED <<clockVars, writerVars, requestVars, fin, began, cut, down, readerVars>>

ServerPacket(size) ==
  /\ ~fin /\ sbuf = <<>>
  /\ Len(response) \in 3..(2 * MaxPackets)
  /\ LET n == Len(response)
     IN sbuf' = Sealed(n, LENGTH_LEN + TAG_LEN) \o Sealed(n + 1, size + TAG_LEN)
  /\ response' = response \o <<[len |-> size], Following(sent, size)>>
  /\ sent' = sent \o Following(sent, size)
  /\ UNCHANGED <<clockVars, writerVars, requestVars, fin, began, cut, down, readerVars>>

\* Some of it arrives.
ServerWrite ==
  /\ ~fin
  /\ \E n \in 1..Len(sbuf) :
       /\ down' = down \o SubSeq(sbuf, 1, n)
       /\ sbuf' = SubSeq(sbuf, n + 1, Len(sbuf))
  /\ began' = sent
  /\ UNCHANGED <<clockVars, writerVars, requestVars, response, sent, fin, cut, readerVars>>

\* Is this unit the first of a packet?
FirstUnit(unit) == unit[2] = 1 /\ (unit[1] = 0 \/ (unit[1] > 1 /\ unit[1] % 2 = 1))

ServerClose ==
  /\ ~fin
  /\ fin' = TRUE
  /\ cut' = (sbuf # <<>> /\ ~FirstUnit(Head(sbuf)))
  /\ sbuf' = <<>>
  /\ UNCHANGED <<clockVars, writerVars, requestVars, response, sent, began, down, readerVars>>

-----------------------------------------------------------------------------
(* ProxyStream::poll_read and DecryptedReader::poll_read_decrypted.        *)

\* Mutant of Counted: the first chunk is not looked at.
CountedLate == data_chunk_count > 1

\* The salt can be checked once a data chunk has been read.
Counted == data_chunk_count > 0

Unmatched == read_state = "CheckRequestNonce" /\ Counted /\ request_salt # "own"

\* poll_read_decrypted has returned Ok.
Established == read_state' = IF Counted THEN "Established" ELSE read_state

\* The end of the response is passed on after the same check.
EndOfResponse ==
  /\ End(IF Unmatched THEN "error" ELSE "eof")
  /\ IF Unmatched THEN UNCHANGED read_state ELSE Established

\* Mutant of Fresh: the limit itself is not allowed.
FreshStrict(timestamp) == Dist(GetNowTimestamp(now), timestamp) < MAX_DIFF

\* The limit of 30 is one of units: what the protocol means by it, 30 seconds
\* of Unix time at both ends, the code does not look at.
Fresh(timestamp) == Dist(GetNowTimestamp(now), timestamp) <= MAX_DIFF

HeaderLen == SALT_LEN + RESPONSE_LEN + TAG_LEN

\* poll_read_header: one read, which must yield the whole of salt and header;
\* the header must open, be of a server, and be fresh.
ReadHeader ==
  /\ rstate = "ReadHeader"
  /\ down # <<>>
  /\ LET n == Smaller(HeaderLen, Len(down))
         header == response[2]
         good == sameKey /\ header.type = 1 /\ Fresh(header.timestamp)
     IN /\ down' = SubSeq(down, n + 1, Len(down))
        /\ headAt' = IF n = HeaderLen THEN now ELSE -2
        /\ IF n = HeaderLen /\ good
           THEN /\ rstate' = "ReadData"
                /\ request_salt' = header.salt
                /\ length' = header.len
                /\ rnonce' = 2
                /\ UNCHANGED writerVars
           ELSE End("error") /\ UNCHANGED <<request_salt, length, rnonce>>
  /\ UNCHANGED <<clockVars, requestVars, responseVars, rbuf, plain, data_chunk_count, read_state, recv>>

Needed == (IF rstate = "ReadLength" THEN LENGTH_LEN ELSE length) + TAG_LEN

\* poll_read_exact: the socket yields what it has.
ReadSome ==
  /\ rstate \in {"ReadLength", "ReadData"}
  /\ Len(rbuf) < Needed
  /\ down # <<>>
  /\ LET n == Smaller(Needed - Len(rbuf), Len(down))
     IN /\ rbuf' = rbuf \o SubSeq(down, 1, n)
        /\ down' = SubSeq(down, n + 1, Len(down))
  /\ UNCHANGED <<clockVars, writerVars, requestVars, responseVars, rstate, plain, length, rnonce,
                 request_salt, data_chunk_count, read_state, recv, headAt>>

\* The connection is at its end: before the header, or between two packets,
\* so is the response; anywhere else it is an error.
ReadEof ==
  /\ \/ rstate = "ReadHeader"
     \/ rstate \in {"ReadLength", "ReadData"} /\ Len(rbuf) < Needed
  /\ down = <<>> /\ fin
  /\ IF rstate = "ReadData" \/ rbuf # <<>>
     THEN End("error") /\ UNCHANGED read_state
     ELSE EndOfResponse
  /\ UNCHANGED <<clockVars, requestVars, responseVars, down, rbuf, plain, length, rnonce,
                 request_salt, data_chunk_count, recv, headAt>>

\* Cipher::decrypt of the buffer with the nonce of the reader.
Opens == sameKey /\ rbuf = Sealed(rnonce, Needed)

\* poll_read_length and decrypt_length; a length has 16 bits and no limit.
ReadLength ==
  /\ rstate = "ReadLength"
  /\ Len(rbuf) = Needed
  /\ rbuf' = <<>>
  /\ rnonce' = rnonce + 1
  /\ IF Opens
     THEN length' = response[rnonce + 1].len /\ rstate' = "ReadData" /\ UNCHANGED writerVars
     ELSE End("error") /\ UNCHANGED length
  /\ UNCHANGED <<clockVars, requestVars, responseVars, down, plain, request_salt,
                 data_chunk_count, read_state, recv, headAt>>

\* poll_read_data: one more data chunk.
ReadData ==
  /\ rstate = "ReadData"
  /\ Len(rbuf) = Needed
  /\ rbuf' = <<>>
  /\ rnonce' = rnonce + 1
  /\ length' = 0
  /\ IF Opens
     THEN /\ plain' = response[rnonce + 1]
          /\ rstate' = "BufferedData"
          /\ data_chunk_count' = data_chunk_count + 1
          /\ UNCHANGED writerVars
     ELSE End("error") /\ UNCHANGED <<plain, data_chunk_count>>
  /\ UNCHANGED <<clockVars, requestVars, responseVars, down, request_salt, read_state, recv, headAt>>

\* Mutant of Consumed: a chunk is handed out only as a whole.
ConsumedWhole(remaining) == IF Len(plain) <= remaining THEN Len(plain) ELSE 0

\* The part of the chunk that fits the buffer of the caller.
Consumed(remaining) == Smaller(Len(plain), remaining)

\* The caller gets some of the chunk, unless the salt does not match.
HandOut ==
  /\ rstate = "BufferedData"
  /\ plain # <<>>
  /\ IF Unmatched
     THEN End("error") /\ UNCHANGED <<plain, recv, read_state>>
     ELSE /\ \E remaining \in 1..MaxRead :
               /\ recv' = recv \o SubSeq(plain, 1, Consumed(remaining))
               /\ plain' = SubSeq(plain, Consumed(remaining) + 1, Len(plain))
          /\ Established
          /\ UNCHANGED <<writerVars, rstate>>
  /\ UNCHANGED <<clockVars, requestVars, responseVars, down, rbuf, length, rnonce,
                 request_salt, data_chunk_count, headAt>>

\* Mutant of NextChunk: an empty chunk is taken for the end of the response.
NextChunkEof ==
  /\ rstate = "BufferedData"
  /\ plain = <<>>
  /\ IF recv = <<>>
     THEN EndOfResponse
     ELSE rstate' = "ReadLength" /\ UNCHANGED <<writerVars, read_state>>
  /\ UNCHANGED <<clockVars, requestVars, responseVars, down, rbuf, plain, length, rnonce,
                 request_salt, data_chunk_count, recv, headAt>>

\* The chunk is used up, or was empty: on to the next one, in the same call.
NextChunk ==
  /\ rstate = "BufferedData"
  /\ plain = <<>>
  /\ rstate' = "ReadLength"
  /\ UNCHANGED <<clockVars, writerVars, requestVars, responseVars, down, rbuf, plain, length,
                 rnonce, request_salt, data_chunk_count, read_state, recv, headAt>>

Read == ReadHeader \/ ReadSome \/ ReadEof \/ ReadLength \/ ReadData \/ HandOut \/ NextChunk

-----------------------------------------------------------------------------
Init ==
  /\ sameKey \in BOOLEAN
  /\ unix \in BOOLEAN
  /\ skew \in IF unix THEN {0} ELSE Skews
  /\ now = FirstTick
  /\ wstate = "AssembleHeader"
  /\ wbuf = Sealed(0, SALT_LEN)
  /\ request = <<[kind |-> "salt"]>>
  /\ accepted = <<>>
  /\ up = <<>> /\ snonce = 0 /\ slength = 0 /\ sgot = <<>> /\ refused = FALSE
  /\ sbuf = <<>> /\ response = <<"salt">> /\ sent = <<>>
  /\ fin = FALSE /\ began = <<>> /\ cut = FALSE
  /\ down = <<>>
  /\ rstate = "ReadHeader"
  /\ rbuf = <<>> /\ plain = <<>> /\ length = 0 /\ rnonce = 0
  /\ request_salt = "none"
  /\ data_chunk_count = 0
  /\ read_state = "CheckRequestNonce"
  /\ recv = <<>>
  /\ headAt = -1

\* The session is over, for one reason or another.
Ended == rstate \in {"eof", "error", "dropped"}

Finished == Ended /\ UNCHANGED vars

Server ==
  \/ ServerRead
  \/ \E size \in {0, MaxReply} :
       ServerHeader(1, "own", size) \/ ServerHeader(1, "other", size) \/ ServerHeader(0, "own", size)
  \/ \E size \in {0, MaxReply} : ServerPacket(size)
  \/ ServerWrite
  \/ ServerClose

Next ==
  \/ \E len \in {0, MaxCall} : AssembleHeader(len) \/ AssemblePacket(len)
  \/ Writing
  \/ Drop
  \/ Tick
  \/ Server
  \/ Read
  \/ Finished

Spec == Init /\ [][Next]_vars

\* The task of the session is polled whenever its socket has something for
\* it.  Nothing is asked of the server, the client or the clock.
Fairness == WF_vars(Writing) /\ WF_vars(Read)

FairSpec == Spec /\ Fairness

-----------------------------------------------------------------------------
(* Properties.                                                             *)

\* The header of the response was whole, of a server, and its time stamp no
\* more than MAX_DIFF units from get_now_timestamp when it was read.
GoodHeader ==
  /\ headAt >= 0
  /\ response[2].type = 1
  /\ Dist(GetNowTimestamp(headAt), response[2].timestamp) <= MAX_DIFF

\* Not one byte, and no end of a response that has begun, reaches the relay
\* unless the response is fresh and answers our request: the salt is checked
\* only after poll_read_decrypted has filled the buffer of the caller, in
\* whichever call and after however many empty chunks that is.
OwnResponseOnly ==
  /\ recv # <<>> => GoodHeader /\ response[2].salt = "own"
  /\ rstate = "eof" /\ data_chunk_count > 0 => GoodHeader /\ response[2].salt = "own"
  /\ read_state = "Established" => response[2].salt = "own"

\* Between two ends with the same key the reader fails only for a reason: a
\* header that came in pieces, was not of a server, names another request or
\* has a time stamp more than MAX_DIFF units from ours, or a connection that
\* ends inside a packet.  A stamp in seconds, as the protocol wants it, is such
\* a reason: poll_read_header refuses it, and one of our own clock a tick later.
NoSpuriousError ==
  rstate = "error" =>
    ~sameKey \/ cut \/ headAt = -2 \/ ~GoodHeader \/ response[2].salt # "own"

\* The server can take the request apart block by block, whatever the sizes
\* of the calls and the pieces the socket takes, and reads the bytes written.
RequestUnderstood ==
  sameKey => ~refused /\ IsPrefix(sgot, accepted)

\* The response as the relay sees it.
Stream == INSTANCE ByteStream WITH
  in <- began, out <- recv, closed <- fin,
  end <- IF rstate = "eof" THEN "eof" ELSE IF Ended THEN "error" ELSE "open"

\* Reader, salt check and connection implement a byte stream: the relay gets
\* the bytes of the response in order and once, and a clean end only after
\* all of those of which the reader could have seen something.
StreamSpec == Stream!Spec

\* A byte of the response whose packet has begun to arrive is handed out,
\* if only the rest of it arrives, or the session ends.
ResponseDelivered ==
  \A n \in 1..(MaxPackets * MaxReply) :
    (Len(began) >= n /\ sbuf = <<>>) ~> (Len(recv) >= n \/ Ended \/ sbuf # <<>>)
=============================================================================
