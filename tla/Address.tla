------------------------------- MODULE Address -------------------------------
(***************************************************************************)
(* The address that opens a session, on the wire                           *)
(* (lib/shadowsocks/src/addr.rs), and the nonce of the cipher that carries *)
(* it (lib/shadowsocks/src/crypto/cipher.rs).                              *)
(*                                                                         *)
(* An address is a record of a kind, a host and a port; the host is a      *)
(* sequence of four bytes, of eight words, or of the bytes of a name.      *)
(***************************************************************************)
EXTENDS Integers, Sequences, SequencesExt

CONSTANT BASE     \* the values of a byte (256)

ASSUME BaseAssumption == BASE \in Nat /\ BASE > 4

ADDR_TYPE_IPV4 == 1
ADDR_TYPE_DOMAIN_NAME == 3
ADDR_TYPE_IPV6 == 4

Bytes == 0..(BASE - 1)
Words == 0..(BASE * BASE - 1)

-----------------------------------------------------------------------------
(* Writing.                                                                *)

\* put_u16 of the bytes library, and the way back, u16::from_be.
PutU16(w) == <<w \div BASE, w % BASE>>
U16FromBe(s) == s[1] * BASE + s[2]

\* get_addr_len.
AddrLen(a) ==
  CASE a.kind = "v4" -> 1 + 4 + 2
    [] a.kind = "v6" -> 1 + 8 * 2 + 2
    [] a.kind = "domain" -> 1 + 1 + Len(a.host) + 2

\* write_to_buf; the assertion on the length of a name is its precondition.
Writable(a) == a.kind = "domain" => Len(a.host) <= BASE - 1

WriteToBuf(a) ==
  CASE a.kind = "v4" -> <<ADDR_TYPE_IPV4>> \o a.host \o PutU16(a.port)
    [] a.kind = "v6" -> <<ADDR_TYPE_IPV6>>
                          \o FlattenSeq([i \in 1..8 |-> PutU16(a.host[i])]) \o PutU16(a.port)
    [] a.kind = "domain" -> <<ADDR_TYPE_DOMAIN_NAME, Len(a.host)>> \o a.host \o PutU16(a.port)

-----------------------------------------------------------------------------
(* Reading.                                                                *)

\* What read_from returns: an address and what it left on the stream, or an
\* error.
Failed == [ok |-> FALSE]
Read(kind, host, port, rest) ==
  [ok |-> TRUE, addr |-> [kind |-> kind, host |-> host, port |-> port], rest |-> rest]

\* read_exact of n bytes from position p.
Exact(s, p, n) == SubSeq(s, p, p + n - 1)
Ends(s, p, n) == p + n - 1 > Len(s)

From(s, p) == SubSeq(s, p, Len(s))

ReadV4(s) ==
  IF Ends(s, 2, 6) THEN Failed
  ELSE Read("v4", Exact(s, 2, 4), U16FromBe(Exact(s, 6, 2)), From(s, 8))

ReadV6(s) ==
  IF Ends(s, 2, 18) THEN Failed
  ELSE LET word(i) == U16FromBe(Exact(s, 2 * i, 2))
       IN Read("v6", [i \in 1..8 |-> word(i)], word(9), From(s, 20))

\* Mutant of ReadDomain: the port is not awaited with the name.
ReadDomainShort(s) ==
  IF Ends(s, 2, 1) \/ Ends(s, 3, s[2]) THEN Failed
  ELSE Read("domain", Exact(s, 3, s[2]), 0, From(s, 3 + s[2]))

\* The name is taken to be UTF-8.
ReadDomain(s) ==
  IF Ends(s, 2, 1) \/ Ends(s, 3, s[2] + 2) THEN Failed
  ELSE LET length == s[2]
       IN Read("domain", Exact(s, 3, length), U16FromBe(Exact(s, 3 + length, 2)),
               From(s, 5 + length))

ReadFrom(s) ==
  IF Ends(s, 1, 1) THEN Failed
  ELSE CASE s[1] = ADDR_TYPE_IPV4 -> ReadV4(s)
         [] s[1] = ADDR_TYPE_IPV6 -> ReadV6(s)
         [] s[1] = ADDR_TYPE_DOMAIN_NAME -> ReadDomain(s)
         [] OTHER -> Failed

\* What is written is read back, to its last byte and no further, whatever
\* follows on the stream; a part of it is not taken for an address; and the
\* length that the first packet reserves is its length (write_to_buf,
\* read_from and serialized_len).
ReadsBack(a, rest) ==
  Writable(a) =>
    LET written == WriteToBuf(a)
    IN /\ ReadFrom(written \o rest) = [ok |-> TRUE, addr |-> a, rest |-> rest]
       /\ \A k \in 0..(Len(written) - 1) : ReadFrom(SubSeq(written, 1, k)) = Failed
       /\ Len(written) = AddrLen(a)

-----------------------------------------------------------------------------
(* increase_nonce: a number of Len(nonce) bytes, the lowest first.          *)

\* Mutant of IncreaseNonce: the carry goes no further than the second byte.
IncreaseNonceShort(nonce) ==
  [i \in 1..Len(nonce) |->
     IF i = 1 THEN (nonce[1] + 1) % BASE
     ELSE IF i = 2 THEN (nonce[2] + (nonce[1] + 1) \div BASE) % BASE
     ELSE nonce[i]]

IncreaseNonce(nonce) ==
  LET c[i \in 1..Len(nonce)] ==
        IF i = 1 THEN nonce[1] + 1 ELSE c[i - 1] \div BASE + nonce[i]
  IN [i \in 1..Len(nonce) |-> c[i] % BASE]

\* The number the bytes stand for.
NonceValue(nonce) == FoldRight(LAMBDA b, v : v * BASE + b, nonce, 0)
=============================================================================
