# Roxy in TLA+

Specifications of [roxy](../src/README.md), a transparent tunnel proxy: TLA+
modules that model its parts, the instances that TLC checks, and proofs about
its upstream pool and its supervision that TLAPS checks. Paths below are
relative to the repository (`src/`): `upstream/mod.rs` is `src/upstream/mod.rs`
of the main crate, `ss/` is `lib/shadowsocks/src/`.

## The system

| Part | State | Operations | What is hard about it |
|---|---|---|---|
| Upstream pool (`upstream/`) | an `Arc<Peers>` behind a fair tokio `RwLock`, an atomic best index, one latency ring per server | `pick` (`best` or `by_etld`, `fallback`), `check_once`, the check and update tasks, `report_failure`, `stats` | checks, swaps, picks and failures interleave; a pick reads many values one by one; a writer in the queue blocks readers; an empty list |
| THP (`relay/thp/`) | one task per connection | accept, sniff the destination, five attempts of pick and connect, proxy, report | the peek returns any prefix; a failure is reported to a server that may be retired |
| DNS server (`dns/server`, `dns/handle`, `dns/rule`) | an LRU cache with expiry, two rule tries, sockets | one task per UDP message, one message at a time per TCP connection, cache, hijack, reject, resolve, reload of lists | lists swapped under requests, puts in any order, failed reloads |
| Shadowsocks stream (`ss/tcp`) | reader and writer state machines, nonce counters, buffers | `poll_read_decrypted`, `poll_write_encrypted`, the AEAD-2022 variants, the salt check | partial reads and writes, connections cut anywhere, time stamps of two clocks |
| Relay session (`ss/tcp/proxy.rs`, `utils.rs`) | two copy buffers, the first-packet state | `poll_copy` in both directions under `select` | first packet with the address, one direction ending the other |
| Conversions (`serde/duration.rs`, `datetime.rs`, `ss/addr.rs`, `ss/crypto/cipher.rs`, `ss/config.rs`, `upstream/provider.rs`) | none | parsing and printing of durations, dates, addresses on the wire, the nonce counter, lists of server URLs and the keys of the servers | limits of integers, carries, leap years, three spellings of one server, one bad line in a list |
| Process (`main.rs`, `signals.rs`, the `serve` functions) | the tasks of the services, the accept loops of THP, signal handlers, exit status | start of each service, the loop over the tasks, shutdown | failures while main waits for something else, which task's end is noticed |
| Controller, configuration, logging | HTTP server | `/stats`, `/upstream` | |

A connection through THP uses all of them: sniffing finds the host, the pool
gives a server, a shadowsocks stream to it carries the address in its first
packet, and the relay copies until one side ends; an error goes back to the
pool. The DNS server sends clients to THP in the first place, by hijacked names.

`PROJECT.json` lists every component with its sources, also those that are not
modelled, maps every definition to the lines it stands for, and lists the
hazards with the properties that cover them.

## Modules

| Module | Models | Runs |
|---|---|---|
| `Upstream` | pool, checker, updater, lock, THP's use of it, stats | `upstream_best`, `upstream_etld`, `upstream_live` |
| `UpstreamProofs` | proofs about `Upstream` | |
| `ByteStream` | abstract: what an encrypted stream promises | |
| `AeadStream` | writer, connection and reader of `ss/tcp/aead.rs`; implements `ByteStream` | `shadowsocks` |
| `Aead2022` | a session of `ss/tcp/aead2022.rs` with the salt check of `proxy.rs`; implements `ByteStream` | `aead2022` |
| `Relay` | `ProxyStream::connect` and `proxy`, `CopyBuffer`, first packet | `relay`, `relay_first` |
| `RuleTrie`, `DnsServer` | rule lists; DNS service, handler, cache, reloads | `dns`, `dns_cache`, `dns_rules` |
| `Sniffing` | `destination_addr`, `http_host`, `tls_sni` | `process` |
| `Supervisor` | `main`, `signals::shutdown`, how each `serve` ends | `process` |
| `SupervisorProofs` | proofs about `Supervisor` | |
| `Duration`, `DateTime`, `Address`, `ServerUrl`, `Conversions` | pure conversions, and a walk through their inputs | `conversions` |
| `MC*` | constants for TLC; `MCProcess` runs two modules that share no state, one or the other in a behaviour | |

### Upstream

A `Peers` value is a *generation*: every load builds new server objects, so
`latencies[g][i]` belongs to server `i` of generation `g` and a connection that
outlives a swap goes on reporting to its old generation. The tokio `RwLock` is a
set of readers and a queue (first come, first served, so readers wait behind a
queued writer). The write guard lives within one step, the read guards across
steps. `check_once` is a process with three callers (`Upstream::new`, the
checker, the updater): the checks of the servers end in any order with any
latency or a failure (`CheckUpdateScore`), then the scan reads the latencies one
by one, and the best index is stored. A pick probes server by server; between two
probes other connections may report failures. `Panics` stands for the `expect`s
and for indexing past the end; the task dies and its guard is dropped. `jumphash`
and FNV are constants with the one assumption that the bucket is in range.
`steady` is a ghost: the servers that were alive during the whole current pick.

Initially nothing is loaded; a failed first load ends the process. A load of the
updater may fail (the old list stays), panic on a bad URL (the task is gone) or
never answer.

### AeadStream, Aead2022, ByteStream

Bytes of the plaintext are their positions; a unit `<<n, k>>` on the wire is byte
`k` of block `n`, and a block opens only whole, under its own nonce and the same
key (ideal cipher). The socket takes and yields any number of bytes. In
`AeadStream` the sender may be another program with a larger packet limit, so
oversized packets occur. In `Aead2022` the server is external: it takes the
request apart as the protocol says and may answer with a header of a wrong type,
for another request, too old or too new, in any pieces, and stop anywhere.
Identity headers are left out (`CryptoStream` passes no identity keys).

`GetNowTimestamp` is the function of `ss/sys/linux.rs`: the coarse monotonic
clock, with the seconds in the upper 32 bits and the fraction of the second in
the lower ones. The limit of 30 (`MAX_DIFF`) is compared with differences of such
values, so it is 30 units of 2^-32 seconds, less than the clock moves in one
tick: a server with the very same clock must stamp its header in the tick in
which it is read. The server stamps either with a clock like ours, shifted by a few units
(`Skews`), or with the seconds since 1970 (`unix`), as the protocol has it; the
latter are near our values only by chance. `NoSpuriousError` counts a stamp
beyond the limit as a cause of an error, since that is what the code compares.

`key_len`, `tag_len` and `nonce_len` of the AEAD-2022 methods are `todo!()`
(`ss/crypto/mod.rs`), and `ServerConfig::new` asks for the first: no session of
these methods can start at present. `Aead2022` is about the reader and the writer
as they are written, with lengths as constants.

The refinement mapping to `ByteStream` takes as *sent* the bytes of packets of
which at least one byte was written to the socket: of the others the reader can
know nothing, and a clean end may come before them.

### Relay

`link` goes through the steps of `connect`: the server's name is resolved (not if
its address is given), a socket is opened and connected; each may fail, and the
client may send or close meanwhile. THP passes the default options, so no socket
option is set. Both directions are polled by one task, and whichever ends first ends the
session. The encrypted streams are byte streams here; what is kept of the writer
is its packet limit, and the first packet with the address. The release build is
modelled, in which the `debug_assert` of `poll_write` is not compiled. `MaxFirst`
is the most the first read returns.

### DnsServer, RuleTrie

UDP requests are independent tasks; those of a TCP connection wait in `inbox` for
the one task. Cache and list accesses are single steps (their locks are held
within them); between cache miss, lists, resolver and put anything may happen.
The answer of the nameservers carries the name and the time for which it was
given. Both lists are configured with an interval. A trie is the set of strings
its Bloom filter answers for, so false positives are strings that were never
inserted. `Contain` is the loop of `Trie::contain`; `Matched` says the same
without a loop. The name `*` has no label that counts: `length - 1`
(`trie/bloom.rs:34`) wraps in the release build, which is modelled, and nothing
matches, not even a rule `*`; a debug build panics. `ruled` is a ghost: lists that have matched the name ever since
the request missed the cache.

### Sniffing

The peek returns any non-empty prefix of the message, cut to `BUF`, in a zeroed
buffer. Every field of the ClientHello is a step that reads bytes; where the
code's cursor asserts, the step panics, which ends the connection's task only.
A message says which hosts it names (none, for a request without a Host header
or a ClientHello without a server name) and which lines of its body look like
such a header. `http_host` stops at a line that is only a newline, and the empty
line of a request is CR LF, so it reads on into the body. `tls_sni` reads zeros
where the message ends: as the rest of a name that was cut, or as a server name
of length 0. `HostSound` states that these are the only hosts that a message does
not name.

### Supervisor

`stage` is where `main` is, `service` the task of each service up to the result
in its `JoinHandle`. During the start every `expect` may fail, and nobody looks
at the tasks that run: a DNS server that cannot bind is noticed when the wait
begins, after `Upstream::new`, whose load has no timeout. The handlers of the
signals (`handlers`) are registered when `signals::shutdown` is first polled,
that of SIGTERM and then that of SIGINT, and each may fail its `expect`; a signal
whose handler is not there yet kills. The `select!` polls its branches in any
order, so the tasks are looked at before the registration or after it, and never
between the two (`PollsTasks`). The accept loops of THP are tasks of `thp::serve`, which binds the
addresses one after the other and drops the handles of the loops if one cannot be
bound; `join_all` does not look at their panics. The release profile unwinds, so
a panic ends its task only.

### Conversions

One behaviour walks through one kind of input: every day from 1586 to 2024, every
duration of a word with scaled units, every text of up to five of ten pieces
(eight characters and the digits `3932` and `1899`), 2000 addresses with what may follow them, and the nonces of 260
packets (more than a three-byte counter to the base 5 has), and lists of up to
three lines. The time of day is checked at the ends of hours, minutes and days,
on the 10000 days before and after the epoch whose seconds fit TLC's integers.
Printing a date is left out.

`parse_duration` computes fractions in floating point. `Float` is the quotient of
two numbers rounded to nearest even with `MANTISSA` bits, and `FractionOf` has the
three roundings of `f as f64 * (unit as f64 / scale)` and the cut to an integer.
Everything is scaled together: a word of up to 39321 (`u64::MAX`), 14 bits of
mantissa (53), and units of 1, 10, 100, 1000, 2000 and 4000 (a nanosecond to an
hour). The pieces take texts to
every limit: an integer and a fraction with more digits than the word holds, a
term and an addition that overflow and are refused, a sum of terms that wraps
around (it is not checked), and a fraction that is rounded up. The reference
reads a text as a sum of decimal numbers: malformed texts are refused, others
only for a term that is too long, and what is read is the sum modulo the word, up
to one nanosecond for each term with digits finer than that.

`ServerUrl` starts from what `Url::parse` makes of a line. Passwords are short
texts over a digit, a hexadecimal digit, the colon and the percent sign, for which
splitting, percent-decoding and UTF-8 matter; a base64 word is a text with a mark,
and MD5 is a symbol. The reference goes the other way, from a server to the URLs
that spell it (base64 user info, percent-encoded user info, either of them within
a QR code). A method that is unknown or not implemented panics, in the task of the
updater or in `Upstream::new`; `UpdaterLoad` of `Upstream` has that panic.

## Runs

| Run | Distinct states | Shows |
|---|---|---|
| `upstream_best` | 1.9 M | With two connections, two servers, two lists: published servers have been checked (`PublishedChecked`), a pick panics only on an empty list (`PanicOnlyOnEmpty`), guards pin the Peers (`GuardPinsPeers`), the last resort is really the last (`LastResortIsLast`). |
| `upstream_etld` | 1.4 M | Two connections, two servers, two attempts, latencies up to 2: a host keeps its server while that is alive, whatever failures the other connection reports (`EtldSticky`); the scan finds the first of the fastest (`BestIsFastest`). |
| `upstream_live` | 54 k | With the controller: every pick that waits gets a server (`PickCompletes`), the checks go on for ever (`ChecksRecur`). |
| `shadowsocks` | 31 k | Errors have a cause and oversized packets are never opened (`NoSpuriousError`), the stream refines `ByteStream` (`StreamSpec`), everything is delivered and the reader ends (`AllDelivered`). |
| `aead2022` | 773 k | Only a response with a stamp within the limit, to our own request, reaches the relay (`OwnResponseOnly`), errors have a cause, the request can be read, the response refines `ByteStream` and is delivered. |
| `relay` | 14 k | Both directions arrive in order and once; `Ok` means one of them is complete; the session ends when a peer closes; the upload is delivered. |
| `dns` | 788 k | One UDP and two TCP requests, a cache of one entry, a reload: records belong to the question, ruled names are not resolved, lists are whole, `Contain` is `Matched`, TCP answers in order, the cache keeps to its capacity with one entry for a name, and entries are not renewed by later puts. |
| `process` | 59 k | Seventeen messages, each peeked after every number of bytes: the host found is the one named, or for a cut ClientHello a prefix of it padded with zeros; a message that names none may give a line of its body or an empty name; a whole message gives its host (`HostSound`); the loops end (`SniffingEnds`). Every configuration with up to three addresses: the exit status tells what has happened (`ExitExplained`); a failed service or a signal ends the process, unless main waits for ever for the list of proxies (`ProcessEnds`). |
| `conversions` | 331 k | Dates, times of day, durations, addresses and nonces agree with reference definitions, durations also at the limits of integers and floats; a list gives the servers its lines spell, or fails for the first line that spells none (`ServersRead`). |
| `relay_first` | violation | A first read that fills the buffer makes a first packet that is longer than a packet may be; its tail is reported as written and lost. |
| `dns_cache` | violation | `Cache::get` drops entries that are still valid and answers from expired ones. |
| `dns_rules` | violation | With both `bar.com` and `.bar.com`, `x.bar.com` is not matched. |

Each property of a passing run has a mutant in `PROJECT.json`: a changed form of
one mapped definition under which TLC finds the property violated.

### Bounds

`upstream_*`: two lists are needed for a swap under a pick, two connections for a
failure reported during another's pick, two servers for a scan that replaces its
candidate or keeps it (a third server with two connections is beyond the time of
a run, so the middle of a longer scan is not reached); a history of one entry makes every push drop one. `PROBES` is 2,
so that `by_etld` both probes again and gives up. `shadowsocks`: packet limit 3
with a sender limit of 4, calls of up to 5 bytes, so that calls are cut, packets
refused and payloads handed out in several reads. `aead2022`: a clock with two
ticks to the second and four units (so that a tick is more than the limit of one
unit), servers one unit behind or two ahead of ours or on Unix time, and a session
that begins within a second and lasts into the next, so that a header becomes too
old, or right, while it is under way; a Unix stamp is never within the limit.
Empty and full packets.
`relay`: a buffer of 3 with first reads of up to 2, so that address and bytes
fill the packet exactly; `relay_first` lets the first read fill the buffer. `dns`:
a cache of one entry and two names, so that every second put evicts; the time to
live is one tick. `process`: three addresses, so that binding fails at the first,
in the middle and at the last; the buffer of 40 holds some messages whole and cuts
others in every field.

### Fairness

`upstream_live`: timers fire, a runnable task runs, every check ends (it runs
under a timeout), the operating system answers a connect. Not assumed: that a load
answers (its HTTP client has no timeout), that clients come or sessions end.
`shadowsocks`, `aead2022`, `relay`: the task is polled when its socket can make
progress; in `relay` also, the resolver and the operating system answer, well or
badly. Not assumed: that anybody writes, closes or answers. `process`: the
peek returns once something has arrived, and the parser, which never waits, runs
on; main runs on where it waits for nobody. Not assumed: that the lists of rules
or of proxies ever arrive, or that a service or a signal does anything.

## Proofs

`UpstreamProofs` proves, for any number of connections, servers, loads, attempts
and probes and for any bucket function:

- `TypeCorrect`: `Spec => []TypeOK`, with histories never longer than
  `MAX_HISTORY`;
- `PublishedServersChecked`, `PanicsOnlyOnEmptyList`, `GuardsPinPeers`,
  `LastResortOnlyWhenNoneAlive`: the four invariants of `upstream_best`;
- `Invariance`: `Spec => []Inv`, from which the others follow.

The assumptions are those of `Upstream`: positive bounds, a known balancer,
connections that are not named like the tasks, and buckets in range.

None of the invariants is inductive. That a pick does not panic needs all of
this, the conjuncts of `Inv`: before `new` has returned nothing else runs
(`Booted`); generations in use have been built (`Refs`); a server that is not
pending in a check has a latency, so all have one when the scan starts, when the
updater asks for the lock and when a list is published (`Checked`); `best` and the
index of the scan are below the length of the list (`InRange`); the checker and
every pick hold a guard and work on the published list (`Guarded`, `ConnRefs`);
indices of connections are in range (`ConnInRange`); and the servers a pick has
passed over were not alive all the while (`ConnSteady`). The proof has one lemma
per action, over frame lemmas for the connections a step does not touch and one
lemma on pushing a latency.

`SupervisorProofs` proves `ExitStatusExplained`: `MainSpec => []ExitExplained` for
any number of addresses. The status tells what has happened: 0 comes only after a
signal that was caught, 1 only without a configuration or after an error of a
service, a panic of the wait only if the controller's task panicked or a handler
is missing, and a signal kills only until both handlers are registered.
The invariant `Explained` adds what keeps a status of 0 from coming without a
signal: the DNS task is started before the wait and ends with an error only, so
the loop over the tasks never runs out; that of the tasks only the controller's
panics; and that a shutdown begins only with both handlers registered.

Only model-checked: liveness, the refinements of `ByteStream`, `EtldSticky`,
`BestIsFastest`, all properties of the other modules, and everything about the
conversions (induction over data is out of the prover's reach).

## What is not modelled

HTTP and TLS of a single check and the provider's exchange, the encoding of DNS
messages and the check of their source address, socket options and the system
calls that create sockets, the UDP sockets of `ss/udp` (the binary opens none,
AEAD-2022 ones cannot be made for the reason given above, and an AEAD datagram is
sealed and opened on its own, without state), identity headers of AEAD-2022 (no caller passes
identity keys), logging, the `/proc` reader, the derives of the configuration:
these are I/O or data that no property tells apart. Not compiled:
`dns/client.rs`, `louds.rs`, `ss/security`; `set.rs` is behind a feature that is
off (its `contain` is `Contain` of `RuleTrie` without false positives). The cron
library is used by nobody and cannot be compiled (`next` has no result, `years`
names an unknown variable), so there is no behaviour to be faithful to.

Noticed while reading and not the subject of a run:

- `main.rs:45` says that "Serde will make sure conf.resolvers is not empty, cause
  we don't use default for this field"; the field has `#[serde(default)]`
  (`config.rs:43`), and with an empty list every lookup fails.
- `main.rs:88` says of the failure of a join "This should never happened"; the
  controller's `hyper::Server::bind` panics on an address in use (`ExitExplained`
  names this case as one of the causes of a panic).
- When all accept loops of THP have died, or the controller has ended, the
  process goes on.
- Responses of the DNS server carry the request's header unchanged, hijack and
  lookups ignore the query type, and 512 bytes is the limit on TCP, too.
- `hosts` of the DNS configuration is ignored (`_hosts`, `dns/handle/mod.rs:30`;
  `examples/config.yaml:55` documents it).
- The provider's `interval` is documented as optional (`examples/config.yaml:132`)
  and required by the code.
- A check that takes less than a millisecond counts as a failed one
  (`upstream/checker.rs:104`).
- The name after `#` of a QR code URL is dropped; only one inside the code counts
  (`ss/config.rs:214`).
- An empty password is accepted in base64 user info and refused in plain user
  info.
- `bind_local_addr` binds a socket only for IPv6 targets, also to an IPv4 address
  (`ss/tcp/proxy.rs:142`); its comment (`ss/option.rs:15`) says same family. The
  binary never sets it.
- The sum of the terms of a duration is not checked for overflow
  (`serde/duration.rs:218`); `ReadsWhatIsWritten` takes it modulo the word.

## Plan

1. Proofs: the refinement of `ByteStream` by `AeadStream`; `UploadIntact` and
   `DownloadIntact` of `Relay`; `OwnResponseOnly` of `Aead2022`; `OwnRecords`,
   `RuledNotResolved` and `TcpInOrder` of `DnsServer`; `EtldSticky` and
   `BestIsFastest`.
2. A composition of sniffing, pool and relay with the controller's statistics.
