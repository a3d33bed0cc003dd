----------------------------- MODULE MCProcess -----------------------------
(* Instances of Supervisor and of Sniffing for TLC, with small requests and  *)
(* ClientHellos.  A behaviour is either that of the process or that of one   *)
(* connection, which cannot influence the process: its task is detached.     *)
EXTENDS Sniffing, Supervisor

\* "a.b", the host that the messages name, and "b.a", one in a body.
Host == <<97, 46, 98>>
BodyHost == <<98, 46, 97>>

Line(s) == s \o <<13, NL>>

Request == Line(<<71, 47>>)
Accept == Line(<<65, 58, 72, 111, 115, 116, 58>>)
HostHeader == Line(HOST \o <<32>> \o Host)
Body == Line(HOST \o BodyHost)

U16Bytes(n) == <<n \div BASE, n % BASE>>

\* An extension, a server name of a type, and the SNI extension over names.
Ext(type, data) == U16Bytes(type) \o U16Bytes(Len(data)) \o data
Name(type, s) == <<type>> \o U16Bytes(Len(s)) \o s
Sni(names) == Ext(EXTENSION_TYPE_SNI, U16Bytes(Len(names)) \o names)

\* A ClientHello: the headers, a session id, one cipher suite, one
\* compression method and the extensions.
Hello(session, exts) ==
  <<HANDSHAKE, 3, 1>> \o U16Bytes(0) \o <<HANDSHAKE_TYPE_CLIENT_HELLO, 0, 0, 0, 3, 3>>
    \o [i \in 1..RANDOM_LEN |-> 7]
    \o <<Len(session)>> \o session \o U16Bytes(2) \o <<19, 1>> \o <<1, 0>>
    \o U16Bytes(Len(exts)) \o exts

\* A message that names a host, one that names none, and a request without or
\* with a host and with a body.
Naming(kind, units) == [kind |-> kind, units |-> units, hosts |-> {Host}, body |-> {}]
Nameless(kind, units) == [kind |-> kind, units |-> units, hosts |-> {}, body |-> {}]
WithBody(m) == [m EXCEPT !.units = @ \o Line(<<>>) \o Body, !.body = {BodyHost}]

\* Host first and last, missing, not text, past the buffer, and with a body;
\* the SNI first and after another extension, after a name of another type,
\* missing, past the buffer; no extensions; another handshake message;
\* another protocol.
MCMessages ==
  { Naming("http", Request \o HostHeader \o Accept \o Line(<<>>)),
    Naming("http", Request \o Accept \o HostHeader),
    Nameless("http", Request \o Accept \o <<NL>>),
    Nameless("http", Request \o Line(HOST \o <<BAD>>)),
    Naming("http", Request \o Accept \o Accept \o Accept \o HostHeader),
    WithBody(Naming("http", Request \o HostHeader)),
    WithBody(Nameless("http", Request \o Accept)),
    Naming("tls", Hello(<<>>, Sni(Name(0, Host)))),
    Naming("tls", Hello(<<9, 9>>, Ext(5, <<1>>) \o Sni(Name(0, Host)))),
    Naming("tls", Hello(<<>>, Sni(Name(1, <<>>) \o Name(0, Host)))),
    Nameless("tls", Hello(<<>>, Sni(Name(1, [i \in 1..20 |-> 1])))),
    Nameless("tls", Hello(<<9>>, Ext(5, <<1>>))),
    Naming("tls", Hello(<<>>, Ext(5, [i \in 1..30 |-> 1]) \o Sni(Name(0, Host)))),
    Nameless("tls", Hello(<<>>, <<>>)),
    Naming("tls", Hello([i \in 1..30 |-> 9], Sni(Name(0, Host)))),
    Nameless("tls", <<HANDSHAKE, 3, 1>> \o U16Bytes(0) \o <<2, 0, 0, 0>>),
    Nameless("other", <<5, 1, 0>>) }

VARIABLE part   \* what the behaviour is about

allVars == <<part, vars, mainVars>>

PartInit ==
  /\ Init /\ MainInit
  /\ \/ part = "process" /\ msg.kind = "other"
     \/ part = "connection" /\ ~conf.controller /\ ~conf.thp

PartNext ==
  \/ part = "process" /\ MainNext /\ UNCHANGED <<part, vars>>
  \/ part = "connection" /\ Next /\ UNCHANGED <<part, mainVars>>

\* The fairness of both; nothing of a connection is enabled before a byte has
\* arrived.
PartSpec ==
  /\ PartInit /\ [][PartNext]_allVars
  /\ WF_mainVars(part = "process" /\ MainStep)
  /\ WF_vars(Peek) /\ WF_vars(Parse)
=============================================================================
