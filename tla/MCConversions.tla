---------------------------- MODULE MCConversions ----------------------------
(***************************************************************************)
(* The inputs of the conversions for TLC.                                  *)
(***************************************************************************)
EXTENDS Conversions

\* 1586: before the last multiple of 400 years.
MCFirstDay == -140000

\* The days whose seconds fit the integers of TLC, around the epoch.
MCClockDays == -10000..10000

\* Characters; MAX without its last digit; and digits that with one more fit a
\* fraction, but not a mantissa.
MCPieces ==
  {<<c>> : c \in {"0", "9", ".", "+", "-", "m", "s", "h"}}
    \cup {<<"3", "9", "3", "2">>, <<"1", "8", "9", "9">>}

MCHosts ==
  [v4 |-> [1..4 -> {0, 1, BASE - 1}],
   v6 |-> [1..8 -> {1, BASE}],
   domain |-> UNION {[1..n -> {1, 3}] : n \in 0..BASE}]

MCPorts == {0, 1, BASE - 1, BASE, BASE * BASE - 1}

MCFollowers == {<<>>, <<1>>, <<3, 0, 0>>}

ServersWith(methods, passwords) ==
  [method : methods, password : passwords, port : {None, Some(80)},
   host : {[kind |-> "domain", name |-> "example.org"], [kind |-> "v6", name |-> "[::1]"]},
   remarks : {None, Some(<<"3", "%">>)}]

MCServers ==
  ServersWith({"aes-128-gcm", "aes-256-gcm"},
              UNION {[1..n -> {"3", "A", ":", "%"}] : n \in 0..3})

\* Servers of a supported method, of one that is not and of none.
MCFew ==
  {s \in ServersWith({"aes-256-gcm", "2022-blake3-aes-128-gcm", "rc4"}, {<<":">>}) :
     s.port = None /\ s.remarks = None /\ s.host.kind = "domain"}

ASimpleUrl == Sip002(CHOOSE s \in MCFew : s.method = "aes-256-gcm")

\* A line that is not UTF-8, and one line for every error of from_url.
MCFaults ==
  {[line |-> NotUtf8, means |-> Ok(<<>>)],
   [line |-> QrCode(NotUtf8), means |-> Err("InvalidServerAddr")],
   [line |-> Unparsed, means |-> Err("ParseError")],
   [line |-> QrCode(Unparsed), means |-> Err("ParseError")],
   [line |-> [ASimpleUrl EXCEPT !.scheme = "http"], means |-> Err("InvalidScheme")],
   [line |-> [QrCode(ASimpleUrl) EXCEPT !.host = None], means |-> Err("MissingHost")],
   [line |-> [ASimpleUrl EXCEPT !.username = Plain(<<>>)], means |-> Err("InvalidServerAddr")],
   [line |-> [ASimpleUrl EXCEPT !.username = Plain(<<"rc4">>)], means |-> Err("InvalidUserInfo")],
   [line |-> [ASimpleUrl EXCEPT !.username = Base64(<<"rc4">>)], means |-> Err("InvalidUserInfo")],
   [line |-> [ASimpleUrl EXCEPT !.username = Base64(<<"bad">>)], means |-> Err("InvalidAuthInfo")],
   [line |-> [ASimpleUrl EXCEPT !.username = Plain(<<"rc4">>),
                                !.password = Some(<<"%", "A", "3">>)],
    means |-> Err("InvalidAuthInfo")]}
=============================================================================
