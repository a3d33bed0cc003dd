------------------------------ MODULE Sniffing ------------------------------
(***************************************************************************)
(* How the transparent HTTP proxy finds the destination of a connection    *)
(* (src/relay/thp/sniffing.rs).  destination_addr peeks once at what has   *)
(* arrived, into a buffer that is zero beyond it, and parses the whole     *)
(* buffer: as the header of an HTTP request or as a TLS ClientHello.       *)
(*                                                                         *)
(* BUF, the base of the integers of two bytes and the random of the        *)
(* ClientHello are scaled down.  A step that reads past the buffer fails,  *)
(* or panics where the code asserts; a panic ends the task of this         *)
(* connection only.                                                        *)
(***************************************************************************)
EXTENDS Integers, Sequences, SequencesExt

CONSTANTS
  BUF,          \* size of the buffer (1024)
  RANDOM_LEN,   \* bytes of the random of a ClientHello (32)
  BASE,         \* base of the integers (256)
  Messages      \* what clients send: records of kind and units, and of the hosts
                \* that are named where a host belongs, and in the body of a request

ASSUME SizesAssumption ==
  /\ BUF \in Nat /\ BUF >= 11 + RANDOM_LEN
  /\ BASE \in Nat \ {0}
  /\ RANDOM_LEN \in Nat

VARIABLES
  msg,      \* what this client sends
  arrived,  \* bytes of it in the socket
  pc,       \* the next step of destination_addr
  peeked,   \* ghost: bytes the peek returned
  buf,      \* the buffer
  pos,      \* `start`, or the position of the cursor: bytes behind it
  result    \* what it returns: a record of tag and host

vars == <<msg, arrived, pc, peeked, buf, pos, result>>

Smaller(a, b) == IF a < b THEN a ELSE b

METHODS == {67, 68, 71, 72, 79, 80, 84}   \* the letters C D G H O P T
HANDSHAKE == 22
HANDSHAKE_TYPE_CLIENT_HELLO == 1
EXTENSION_TYPE_SNI == 0
NAME_TYPE_HOST_NAME == 0
HOST == <<72, 111, 115, 116, 58>>         \* "Host:"
NL == 10
Blank == {13, 32}
BAD == 255                                \* a byte that is no UTF-8

-----------------------------------------------------------------------------
Arrive ==
  /\ arrived < Len(msg.units)
  /\ \E n \in (arrived + 1)..Len(msg.units) : arrived' = n
  /\ UNCHANGED <<msg, pc, peeked, buf, pos, result>>

Outcome(tag, host) == [tag |-> tag, host |-> host]

Return(r) == pc' = "done" /\ result' = r

\* A string if its bytes are UTF-8, an error otherwise.
Text(s) == IF Contains(s, BAD) THEN Outcome("err", <<>>) ELSE Outcome("host", s)

\* What follows the peek, by the first byte.
Protocol(b) ==
  IF b = HANDSHAKE THEN "record" ELSE IF b \in METHODS THEN "http" ELSE "unknown"

\* The peek returns as soon as something has arrived.
Peek ==
  /\ pc = "peek"
  /\ arrived > 0
  /\ peeked' = Smaller(arrived, BUF)
  /\ buf' = [i \in 1..BUF |-> IF i <= arrived THEN msg.units[i] ELSE 0]
  /\ pc' = Protocol(msg.units[1])
  /\ UNCHANGED <<msg, arrived, pos, result>>

\* The peek fails, or the client has closed and it returns nothing: the zeros
\* of the buffer are no protocol.
PeekNothing ==
  /\ pc = "peek"
  /\ Return(Outcome("err", <<>>))
  /\ UNCHANGED <<msg, arrived, peeked, buf, pos>>

Unknown ==
  /\ pc = "unknown"
  /\ Return(Outcome("err", <<>>))
  /\ UNCHANGED <<msg, arrived, peeked, buf, pos>>

-----------------------------------------------------------------------------
(* http_host.                                                              *)

\* str::trim.
Trim(s) ==
  SubSeq(s, SelectInSeq(s, LAMBDA c : c \notin Blank),
            SelectLastInSeq(s, LAMBDA c : c \notin Blank))

\* memchr: the number of bytes before the next newline, -1 if there is none.
ToNewline == SelectInSubSeq(buf, pos + 1, BUF, LAMBDA c : c = NL) - pos - 1

\* Mutant of LineEnd: a line that has not ended is taken as it is.
LineEndOrCut == IF Contains(SubSeq(buf, pos + 1, BUF), NL) THEN ToNewline ELSE BUF - pos

LineEnd == IF Contains(SubSeq(buf, pos + 1, BUF), NL) THEN ToNewline ELSE -1

\* Mutant of NextLine: `start` is not moved.
NextLineSame(next) == pos

NextLine(next) == pos + next + 1

\* One turn of the loop, for one line.  Only a line with nothing at all before
\* its newline ends the header: an empty line that ends in CR LF does not.
HttpLine ==
  /\ pc = "http"
  /\ LET next == LineEnd
         line == SubSeq(buf, pos + 1, pos + next)
     IN IF next \in {-1, 0}
        THEN Return(Outcome("err", <<>>)) /\ UNCHANGED pos
        ELSE IF IsPrefix(HOST, line)
        THEN Return(Text(Trim(SubSeq(line, Len(HOST) + 1, next)))) /\ UNCHANGED pos
        ELSE pos' = NextLine(next) /\ UNCHANGED <<pc, result>>
  /\ UNCHANGED <<msg, arrived, peeked, buf>>

-----------------------------------------------------------------------------
(* tls_sni: a cursor over the buffer.                                      *)

U8(p) == buf[p + 1]
U16(p) == BASE * buf[p + 1] + buf[p + 2]

\* The step ends the parse, or goes on at position p in step `then`.
Fail == Return(Outcome("err", <<>>)) /\ UNCHANGED pos
Panic == Return(Outcome("panic", <<>>)) /\ UNCHANGED pos
GoTo(then, p) == pos' = p /\ pc' = then /\ UNCHANGED result

\* A length at position p, read by the step, and the bytes it counts are
\* skipped: `advance` asserts that they are in the buffer.
SkipBytes(from, then) ==
  IF from <= BUF THEN GoTo(then, from) ELSE Panic

\* The record header, the handshake header and client_version, random.
Record ==
  /\ pc = "record"
  /\ IF U8(1 + 2 + 2) # HANDSHAKE_TYPE_CLIENT_HELLO THEN Fail
     ELSE GoTo("session", 1 + 2 + 2 + 1 + 3 + 2 + RANDOM_LEN)
  /\ UNCHANGED <<msg, arrived, peeked, buf>>

SessionId ==
  /\ pc = "session"
  /\ IF pos + 1 > BUF THEN Panic ELSE SkipBytes(pos + 1 + U8(pos), "ciphers")
  /\ UNCHANGED <<msg, arrived, peeked, buf>>

CipherSuites ==
  /\ pc = "ciphers"
  /\ IF pos + 2 > BUF THEN Fail ELSE SkipBytes(pos + 2 + U16(pos), "compression")
  /\ UNCHANGED <<msg, arrived, peeked, buf>>

Compression ==
  /\ pc = "compression"
  /\ IF pos + 1 > BUF THEN Panic ELSE SkipBytes(pos + 1 + U8(pos), "extensions")
  /\ UNCHANGED <<msg, arrived, peeked, buf>>

Extensions ==
  /\ pc = "extensions"
  /\ IF pos + 2 > BUF \/ U16(pos) = 0 THEN Fail ELSE GoTo("extension", pos + 2)
  /\ UNCHANGED <<msg, arrived, peeked, buf>>

\* One turn of the outer loop: an extension that is not the SNI is skipped.
Extension ==
  /\ pc = "extension"
  /\ IF pos + 4 > BUF THEN Fail
     ELSE IF U16(pos) # EXTENSION_TYPE_SNI
     THEN SkipBytes(pos + 4 + U16(pos + 2), "extension")
     ELSE IF pos + 6 > BUF THEN Fail ELSE GoTo("name", pos + 6)
  /\ UNCHANGED <<msg, arrived, peeked, buf>>

\* One turn of the inner loop: after another name type only two bytes are
\* skipped.
ServerName ==
  /\ pc = "name"
  /\ IF pos + 1 > BUF THEN Panic
     ELSE IF U8(pos) # NAME_TYPE_HOST_NAME
     THEN SkipBytes(pos + 1 + 2, "name")
     ELSE IF pos + 3 > BUF \/ pos + 3 + U16(pos + 1) > BUF THEN Fail
     ELSE /\ Return(Text(SubSeq(buf, pos + 4, pos + 3 + U16(pos + 1))))
          /\ UNCHANGED pos
  /\ UNCHANGED <<msg, arrived, peeked, buf>>

TlsSni ==
  Record \/ SessionId \/ CipherSuites \/ Compression \/ Extensions \/ Extension \/ ServerName

-----------------------------------------------------------------------------
Init ==
  /\ msg \in Messages
  /\ arrived = 0
  /\ pc = "peek"
  /\ peeked = 0
  /\ buf = <<>>
  /\ pos = 0
  /\ result = Outcome("none", <<>>)

Done == pc = "done" /\ UNCHANGED vars

Parse == Unknown \/ HttpLine \/ TlsSni

Next == Arrive \/ Peek \/ PeekNothing \/ Parse \/ Done

\* The peek returns when there is something to return, and the parser runs on
\* without waiting.
Spec == Init /\ [][Next]_vars /\ WF_vars(Peek) /\ WF_vars(Parse)

-----------------------------------------------------------------------------
(* Properties.                                                             *)

\* A server name of which the first k bytes have arrived: what tls_sni reads is
\* those and zeros for the rest.
ZeroPadded(name, host) ==
  \E k \in 0..Smaller(Len(host), Len(name)) :
    name = SubSeq(host, 1, k) \o [i \in 1..(Len(name) - k) |-> 0]

\* Wherever the peek cuts the message, a message that names a host is never
\* taken for another's: for an HTTP request the host found is the one of its
\* Host header, a line that has not ended being of no use and the body never
\* reached; for a ClientHello it may also be what has arrived of the name,
\* padded with zeros.  One that the peek got as a whole gives its host.
\* A message that names none does not always give an error: http_host reads on
\* after an empty line and takes a line of the body, and tls_sni takes the
\* zeros behind the message for a server name of length 0.  Nothing else.
HostSound ==
  /\ result.tag = "host" =>
       \/ result.host \in msg.hosts
       \/ /\ msg.kind = "tls" /\ peeked < Len(msg.units)
          /\ \E host \in msg.hosts : ZeroPadded(result.host, host)
       \/ msg.hosts = {} /\ msg.kind = "http" /\ result.host \in msg.body
       \/ msg.hosts = {} /\ msg.kind = "tls" /\ result.host = <<>>
  /\ pc = "done" /\ peeked = Len(msg.units) /\ msg.hosts # {} =>
       result.tag = "host" /\ result.host \in msg.hosts

\* The parsers leave their loops, whatever the bytes are.
SniffingEnds == pc # "peek" ~> pc = "done"
=============================================================================
