----------------------------- MODULE Conversions -----------------------------
(***************************************************************************)
(* Walks through the inputs of the pure conversions: every day of more     *)
(* than four centuries, every duration of the scaled word, texts of a few  *)
(* pieces, a set of addresses, the nonces of a connection in the order in  *)
(* which the cipher uses them, and lists of servers.  One behaviour walks  *)
(* through one kind of input.                                              *)
(***************************************************************************)
EXTENDS Duration, DateTime, Address, ServerUrl

CONSTANTS
  FirstDay, LastDay,         \* the days
  ClockDays,                 \* those whose hours are looked at too
  Pieces, MaxPieces,         \* the pieces texts are made of, and how many
  NonceLen, MaxPackets,      \* the bytes of a nonce, and how often it is used
  Hosts, Ports, Followers,   \* the addresses, and what follows them
  Servers,                   \* the servers a list may hold
  Faults,                    \* its other lines, each with what it is to give
  Few, MaxLines              \* servers of longer lists, and their length

VARIABLES walk, day, span, text, nonce, packets, addr, list

vars == <<walk, day, span, text, nonce, packets, addr, list>>

Addresses ==
  [kind : {"v4"}, host : Hosts.v4, port : Ports]
    \cup [kind : {"v6"}, host : Hosts.v6, port : Ports]
    \cup [kind : {"domain"}, host : Hosts.domain, port : Ports]

NoAddr == [kind |-> "none"]

Init ==
  /\ walk \in {"days", "spans", "texts", "nonces", "addresses", "lists"}
  /\ day = FirstDay
  /\ span = 0
  /\ text = <<>>
  /\ nonce = [i \in 1..NonceLen |-> 0]
  /\ packets = 0
  /\ addr = NoAddr
  /\ list = <<>>

NextDay ==
  /\ walk = "days" /\ day < LastDay
  /\ day' = day + 1
  /\ UNCHANGED <<walk, span, text, nonce, packets, addr, list>>

NextSpan ==
  /\ walk = "spans" /\ span < MAX
  /\ span' = span + 1
  /\ UNCHANGED <<walk, day, text, nonce, packets, addr, list>>

Type ==
  /\ walk = "texts" /\ Len(text) < MaxPieces
  /\ \E piece \in Pieces : text' = Append(text, piece)
  /\ UNCHANGED <<walk, day, span, nonce, packets, addr, list>>

\* Cipher::encrypt or Cipher::decrypt: the nonce is used, then increased.
UseNonce ==
  /\ walk = "nonces" /\ packets < MaxPackets
  /\ nonce' = IncreaseNonce(nonce)
  /\ packets' = packets + 1
  /\ UNCHANGED <<walk, day, span, text, addr, list>>

PickAddr ==
  /\ walk = "addresses" /\ addr = NoAddr
  /\ addr' \in Addresses
  /\ UNCHANGED <<walk, day, span, text, nonce, packets, list>>

\* The lines that spell some server of a set.
LinesOf(servers) ==
  UNION {{[line |-> u, means |-> Meant(s)] : u \in Spellings(s)} : s \in servers}

AddLine ==
  /\ walk = "lists"
  /\ \/ list = <<>> /\ \E e \in LinesOf(Servers) : list' = <<e>>
     \/ /\ Len(list) < MaxLines
        /\ Range(list) \subseteq LinesOf(Few) \cup Faults
        /\ \E e \in LinesOf(Few) \cup Faults : list' = Append(list, e)
  /\ UNCHANGED <<walk, day, span, text, nonce, packets, addr>>

Next == NextDay \/ NextSpan \/ Type \/ UseNonce \/ PickAddr \/ AddLine

Spec == Init /\ [][Next]_vars

-----------------------------------------------------------------------------

\* The dates of the log follow the Gregorian calendar day by day, through
\* leap years, centuries and the days before 1970 (DateTime::from).
\* The time of day is right as well, at the ends of hours, minutes and days.
CalendarFollowed ==
  /\ FollowsCalendar(day)
  /\ walk = "days" /\ day \in ClockDays =>
       \A hour \in {0, 23}, minute \in {0, 59}, second \in {0, 59}, nanos \in {0, 1} :
         ReadsClock(day, hour, minute, second, nanos)

\* Every duration is read back as it was after it is written (the serde
\* module of durations: deserialize of serialize).
DurationsSurvive == WritesWhatIsRead(span)

\* A text is read as the sum of its terms, modulo 2^64 and to the nanosecond,
\* or refused if it is none or has a term that is too long (parse_duration).
TextsMeanTheirSum == ReadsWhatIsWritten(FlattenSeq(text))

\* Every address survives the wire whatever follows it, and a part of one is
\* never taken for an address (write_to_buf and read_from).
AddressesSurvive == addr # NoAddr => \A rest \in Followers : ReadsBack(addr, rest)

\* The nonce counts the packets, so that none repeats before all have been
\* used (increase_nonce).
NonceCounts == NonceValue(nonce) = packets % (BASE ^ NonceLen)

\* A list gives the servers that its lines spell, or is refused as a whole for
\* the first line that spells none (Provider::fetch, ServerConfig::from_url).
ServersRead == ReadsServers(list)
=============================================================================
