----------------------------- MODULE ServerUrl -----------------------------
(***************************************************************************)
(* From the answer of the provider to a list of servers: the lines of      *)
(* Provider::fetch (src/upstream/provider.rs), ServerConfig::from_url and  *)
(* the key of a server (lib/shadowsocks/src/config.rs).                    *)
(*                                                                         *)
(* A URL is what Url::parse makes of it.  An option is a sequence of at    *)
(* most one element.  A text is a sequence of characters, in which the     *)
(* name of a method is one character and "bad" a byte that is not UTF-8;   *)
(* a text in base64 is marked, and decodes to the text it was made from.   *)
(***************************************************************************)
EXTENDS Integers, Sequences, SequencesExt

None == <<>>
Some(x) == <<x>>

\* Outcomes of a call; the values are a sequence.
Ok(values) == [outcome |-> "ok", values |-> values, error |-> "none"]
Err(e) == [outcome |-> "error", values |-> <<>>, error |-> e]
Panicked == [outcome |-> "panic", values |-> <<>>, error |-> "none"]

Plain(text) == [b64 |-> FALSE, text |-> text]
Base64(text) == [b64 |-> TRUE, text |-> text]

Utf8(text) == "bad" \notin Range(text)

-----------------------------------------------------------------------------
(* The methods and the keys.                                               *)

AEAD == {"aes-128-gcm", "aes-256-gcm"}
AEAD2022 == {"2022-blake3-aes-128-gcm", "2022-blake3-aes-256-gcm",
             "2022-blake3-chacha20-poly1305", "2022-blake3-chacha8-poly1305"}

KeyLen(kind) == CASE kind = "aes-128-gcm" -> 128 \div 8
                  [] kind = "aes-256-gcm" -> 256 \div 8

DIGEST == 16

\* MD5: byte i of the digest of a text, and nothing more is known of it.
Md5(text) == [i \in 1..DIGEST |-> [md5 |-> text, byte |-> i]]

\* bytes_to_key: each turn of the loop hashes the last digest and the
\* password, and fills in what the key still lacks of it.
RECURSIVE Fill(_, _, _, _)
Fill(password, key_len, key, last) ==
  IF Len(key) >= key_len THEN key
  ELSE LET digest == Md5(last \o password)
           lacks == key_len - Len(key)
           amt == IF lacks < DIGEST THEN lacks ELSE DIGEST
       IN Fill(password, key_len, key \o SubSeq(digest, 1, amt), digest)

BytesToKey(password, key_len) == Fill(password, key_len, <<>>, <<>>)

\* password_to_keys and make_derived_key.  The lengths of the AEAD-2022 kinds
\* are todo!(), so their keys are never looked at.
PasswordToKeys(kind, password) ==
  IF kind \in AEAD2022 THEN Panicked ELSE Ok(BytesToKey(password, KeyLen(kind)))

\* ServerConfig::new.
NewConfig(addr, password, kind) ==
  LET keys == PasswordToKeys(kind, password)
  IN IF keys.outcome = "panic" THEN keys
     ELSE Ok(<<[addr |-> addr, password |-> password, method |-> kind, remarks |-> None,
                enc_key |-> keys.values]>>)

-----------------------------------------------------------------------------
(* from_url.                                                               *)

\* The characters two hexadecimal digits stand for.
HexDigits == {"2", "3", "5", "A"}

Byte(h, l) == CASE h = "2" /\ l = "5" -> "%"
                [] h = "3" /\ l = "3" -> "3"
                [] h = "3" /\ l = "A" -> ":"
                [] OTHER -> "bad"

\* percent_decode_str: a "%" without two digits after it stays.
PercentDecode(text) ==
  LET coded(i) == /\ text[i] = "%" /\ i + 2 <= Len(text)
                  /\ text[i + 1] \in HexDigits /\ text[i + 2] \in HexDigits
      from[i \in 1..(Len(text) + 1)] ==
        IF i > Len(text) THEN <<>>
        ELSE IF coded(i) THEN <<Byte(text[i + 1], text[i + 2])>> \o from[i + 3]
        ELSE <<text[i]>> \o from[i + 1]
  IN from[1]

\* Mutant of SplitAccount: the last colon divides.
SplitAccountLast(account) ==
  LET at == CHOOSE i \in 1..Len(account) :
              account[i] = ":" /\ \A j \in (i + 1)..Len(account) : account[j] # ":"
  IN Ok(<<SubSeq(account, 1, at - 1), SubSeq(account, at + 1, Len(account))>>)

\* splitn(2, ':'): the first colon divides.
SplitAccount(account) ==
  LET at == CHOOSE i \in 1..Len(account) :
              account[i] = ":" /\ \A j \in 1..(i - 1) : account[j] # ":"
  IN Ok(<<SubSeq(account, 1, at - 1), SubSeq(account, at + 1, Len(account))>>)

\* The method and the password, percent-encoded or in base64.
AuthOf(url) ==
  LET user == url.username
      m == PercentDecode(user.text)
      p == PercentDecode(url.password[1])
  IN IF url.password # None
     THEN IF Utf8(m) /\ Utf8(p) THEN Ok(<<m, p>>) ELSE Err("InvalidAuthInfo")
     ELSE CASE ~user.b64 -> Err("InvalidUserInfo")
            [] user.b64 /\ ~Utf8(user.text) -> Err("InvalidAuthInfo")
            [] user.b64 /\ Utf8(user.text) ->
                 IF ":" \in Range(user.text) THEN SplitAccount(user.text)
                 ELSE Err("InvalidUserInfo")

\* "host:port" read as an Address, a socket address or a name; what Url::parse
\* takes for a host and a port is always one.
ParseAddress(host, port) ==
  [socket |-> host.kind \in {"v4", "v6"}, host |-> host.name, port |-> port]

AddressOf(url) == ParseAddress(url.host[1], IF url.port = None THEN 8388 ELSE url.port[1])

Lossy(text) == [i \in DOMAIN text |-> IF text[i] = "bad" THEN "U+FFFD" ELSE text[i]]

\* After the QR form is unwrapped.  A method that does not parse is expect()ed.
FromAuthUrl(url) ==
  LET auth == AuthOf(url)
      method == auth.values[1]
      config == NewConfig(AddressOf(url), auth.values[2], method[1])
  IN IF auth.outcome # "ok" THEN auth
     ELSE IF url.host = None THEN Err("MissingHost")
     ELSE IF Len(method) # 1 \/ method[1] \notin AEAD \cup AEAD2022 THEN Panicked
     ELSE IF config.outcome = "ok" /\ url.fragment # None
     THEN Ok([config.values EXCEPT ![1].remarks =
                Some(Lossy(PercentDecode(url.fragment[1])))])
     ELSE config

\* What Url::parse refuses, and what is not even a string.
Unparsed == [scheme |-> "unparsed"]
NotUtf8 == [scheme |-> "not utf-8"]

\* ss://BASE64 without a user holds a URL, and only that one counts.
RECURSIVE FromUrl(_)
FromUrl(url) ==
  CASE url.scheme = "unparsed" -> Err("ParseError")
    [] url.scheme \notin {"ss", "unparsed"} -> Err("InvalidScheme")
    [] url.scheme = "ss" ->
         IF url.username # Plain(<<>>) THEN FromAuthUrl(url)
         ELSE IF url.host = None THEN Err("MissingHost")
         ELSE IF url.host[1].kind # "b64" \/ url.host[1].url = NotUtf8 THEN Err("InvalidServerAddr")
         ELSE FromUrl(url.host[1].url)

-----------------------------------------------------------------------------
(* Provider::fetch.                                                        *)

\* collect: the first line that is no server ends it; `flatten` has dropped
\* the lines that are not UTF-8.
Collect(done, line) ==
  IF done.outcome # "ok" \/ line = NotUtf8 THEN done
  ELSE LET server == FromUrl(line)
       IN IF server.outcome = "ok" THEN Ok(done.values \o server.values) ELSE server

Fetch(answer) ==
  IF answer.status # 200 THEN Err("Unexpected")
  ELSE IF ~answer.body.b64 THEN Err("Decode")
  ELSE FoldLeft(Collect, Ok(<<>>), answer.body.text)

-----------------------------------------------------------------------------
(* Reference: the URLs that spell a server, and what they mean.            *)

\* A server is a method, a password, a host, and optionally a port and a name.

\* A text as a writer of URLs encodes it, and as Url::parse does.
Encoded(text) ==
  FlattenSeq([i \in DOMAIN text |->
    CASE text[i] = "%" -> <<"%", "2", "5">>
      [] text[i] = ":" -> <<"%", "3", "A">>
      [] OTHER -> <<text[i]>>])

UrlOf(server, username, password) ==
  [scheme |-> "ss", username |-> username, password |-> password,
   host |-> Some(server.host), port |-> server.port,
   fragment |-> IF server.remarks = None THEN None ELSE Some(Encoded(server.remarks[1]))]

QrCode(url) ==
  [scheme |-> "ss", username |-> Plain(<<>>), password |-> None,
   host |-> Some([kind |-> "b64", url |-> url]), port |-> None, fragment |-> None]

\* method:password in base64.
Sip002(server) ==
  UrlOf(server, Base64(<<server.method, ":">> \o server.password), None)

\* method:password percent-encoded; Url::parse knows no empty password.
PlainUrl(server) ==
  UrlOf(server, Plain(<<server.method>>), Some(Encoded(server.password)))

Spellings(server) ==
  {Sip002(server), QrCode(Sip002(server))}
    \cup IF server.password = <<>> THEN {}
         ELSE {PlainUrl(server), QrCode(PlainUrl(server))}

\* The first bytes of MD5(password), MD5(MD5(password), password), ...
KeyOf(password, key_len) ==
  LET first == Md5(password)
  IN SubSeq(first \o Md5(first \o password), 1, key_len)

\* What a line that spells the server is to give.
Meant(server) ==
  IF server.method \notin AEAD THEN Panicked
  ELSE Ok(<<[addr |-> [socket |-> server.host.kind # "domain", host |-> server.host.name,
                       port |-> IF server.port = None THEN 8388 ELSE server.port[1]],
             password |-> server.password, method |-> server.method,
             remarks |-> server.remarks,
             enc_key |-> KeyOf(server.password, IF server.method = "aes-128-gcm" THEN 16 ELSE 32)]>>)

\* A list is read as the servers that its lines spell, in their order and each
\* with its password and key, however the lines spell them; or else it is
\* refused as a whole for the first of its lines that spells none (fetch,
\* from_url and bytes_to_key).  Entries are pairs of a line and what it means.
ReadsServers(entries) ==
  LET lines == SelectSeq(entries, LAMBDA e : e.line # NotUtf8)
      bad == {i \in DOMAIN lines : lines[i].means.outcome # "ok"}
      body == Base64([i \in DOMAIN entries |-> entries[i].line])
  IN Fetch([status |-> 200, body |-> body])
       = IF bad = {} THEN Ok([i \in DOMAIN lines |-> lines[i].means.values[1]])
         ELSE lines[CHOOSE i \in bad : \A j \in bad : i <= j].means
=============================================================================
