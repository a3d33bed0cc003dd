----------------------------- MODULE DnsServer -----------------------------
(***************************************************************************)
(* The DNS server (src/dns): the requests of its UDP socket, handled by a  *)
(* task each, and those of one TCP connection, handled one after another;  *)
(* Handler::handle with the cache, the hijack and reject lists and the     *)
(* nameservers behind it; and the tasks that reload the lists.             *)
(*                                                                         *)
(* The locks of the cache and of the lists are held within one step.       *)
(* Between two steps of a request anything may happen.  A question is a    *)
(* name; the answer of the nameservers is known by the time it was given.  *)
(***************************************************************************)
EXTENDS RuleTrie, FiniteSets

CONSTANTS
  Udp, Tcp,        \* slots for requests: by UDP, of one TCP connection
  Names,           \* the names clients ask for
  Lookups,         \* names for which the lists are looked at, Names included
  Bodies,          \* the lists the rule endpoints serve
  FalsePositives,  \* strings a Bloom filter may answer for without a rule
  Caching,         \* is a cache configured?
  SIZE, TTL,       \* config.cache
  MaxTime,         \* bound: the clock
  MaxReloads       \* bound: reloads of the lists

Reqs == Udp \cup Tcp
Lists == {"hijack", "reject"}

ASSUME ConfigAssumption ==
  /\ Udp \cap Tcp = {}
  /\ Caching \in BOOLEAN
  /\ SIZE \in Nat \ {0} /\ TTL \in Nat \ {0}
  /\ MaxTime \in Nat /\ MaxReloads \in Nat

VARIABLES
  now,        \* the clock
  service,    \* "reject", "hijack": list being loaded by new; "serving"; "exit"
  rules,      \* rules[l]: the trie in use
  loader,     \* loader[l]: "off", "sleep" or "load"
  reloads,
  lru,        \* the cache: its entries, the most recently used one last
  inbox,      \* requests of the TCP connection not yet read
  arrived,    \* ghost: requests of the TCP connection in the order they came
  closed,     \* has the task of the TCP connection returned?
  req,        \* req[r]: program counter
  name,       \* its question, <<>> if none
  answer,     \* what it is to be answered
  replies,    \* requests answered over TCP, in order
  ruled       \* ghost: lists that have matched the name since it was looked up

ruleVars == <<service, rules, loader, reloads>>
reqVars == <<inbox, arrived, closed, req, name, answer, replies>>
vars == <<now, ruleVars, lru, reqVars, ruled>>

\* Answers: none yet, the hijack address, no records, or records that the
\* nameservers gave at some time for some name.
NoAnswer == [kind |-> "none"]
Hijacked == [kind |-> "hijack"]
NoRecords == [kind |-> "norecords"]
Records(n, t) == [kind |-> "records", for |-> n, at |-> t]

-----------------------------------------------------------------------------
(* Cache.                                                                  *)

\* Mutant of EntriesOf: the question is not compared.
EntriesOfAny(n) == 1..Len(lru)

EntriesOf(n) == {i \in 1..Len(lru) : lru[i].query = n}

Cached(n) == EntriesOf(n) # {}
EntryOf(n) == lru[CHOOSE i \in EntriesOf(n) : TRUE]
Without(n) == SelectSeq(lru, LAMBDA e : e.query # n)

\* Cache::get drops an entry whose expire_at is still to come, and uses one
\* whose expire_at has passed.
Usable(e) == ~(e.expire_at > now)

\* Mutant of Insert: an entry that is there already is replaced.
InsertOver(n, records) ==
  LET e == [query |-> n, records |-> records, expire_at |-> now + TTL]
      grown == Append(Without(n), e)
  IN lru' = IF Len(grown) > SIZE THEN Tail(grown) ELSE grown

\* Cache::put: nothing if the question is there, else the least recently
\* used entry makes room.
Insert(n, records) ==
  LET e == [query |-> n, records |-> records, expire_at |-> now + TTL]
      grown == IF Cached(n) THEN lru ELSE Append(lru, e)
  IN lru' = IF Len(grown) > SIZE THEN Tail(grown) ELSE grown

-----------------------------------------------------------------------------
(* Requests.                                                               *)

\* A message arrives, its source address is fit for a reply (see
\* sanitize_src_address) and it decodes: it is queued, over TCP, or handled.
\* Any other message is dropped.
Arrive(r, n) ==
  /\ service = "serving"
  /\ req[r] = "idle"
  /\ r \in Tcp => ~closed
  /\ name' = [name EXCEPT ![r] = n]
  /\ \/ /\ r \in Udp
        /\ req' = [req EXCEPT ![r] = "cache"]
        /\ UNCHANGED <<inbox, arrived>>
     \/ /\ r \in Tcp
        /\ req' = [req EXCEPT ![r] = "queued"]
        /\ inbox' = Append(inbox, r)
        /\ arrived' = Append(arrived, r)
  /\ UNCHANGED <<now, ruleVars, lru, closed, answer, replies, ruled>>

\* Mutant of Idle: every message gets a task, as over UDP.
IdleAlways == Tcp \subseteq Reqs

\* The task of the connection is not busy with a request.
Idle == \A r \in Tcp : req[r] \in {"idle", "queued", "done"}

ReadTcp ==
  /\ service = "serving"
  /\ Idle /\ ~closed
  /\ inbox # <<>>
  /\ req' = [req EXCEPT ![Head(inbox)] = "cache"]
  /\ inbox' = Tail(inbox)
  /\ UNCHANGED <<now, ruleVars, lru, arrived, closed, name, answer, replies, ruled>>

\* The requests of S are over: nothing of them is kept.
Finish(S) ==
  /\ req' = [r \in Reqs |-> IF r \in S THEN "done" ELSE req[r]]
  /\ name' = [r \in Reqs |-> IF r \in S THEN <<>> ELSE name[r]]
  /\ answer' = [r \in Reqs |-> IF r \in S THEN NoAnswer ELSE answer[r]]
  /\ ruled' = [r \in Reqs |-> IF r \in S THEN {} ELSE ruled[r]]

\* The task of the connection returns, and what is queued on it is lost.
Close(S) ==
  /\ closed' = TRUE
  /\ inbox' = <<>>
  /\ Finish(S \cup {q \in Tcp : req[q] = "queued"})

\* The stream of the connection ends or fails.
TcpEnd ==
  /\ service = "serving"
  /\ Idle /\ ~closed
  /\ Close({})
  /\ UNCHANGED <<now, ruleVars, lru, arrived, replies>>

\* handle, the cache: a hit answers the request.
TryCache(r) ==
  /\ req[r] = "cache"
  /\ \/ /\ Caching /\ Cached(name[r]) /\ Usable(EntryOf(name[r]))
        /\ answer' = [answer EXCEPT ![r] = EntryOf(name[r]).records]
        /\ lru' = Append(Without(name[r]), EntryOf(name[r]))
        /\ req' = [req EXCEPT ![r] = "send"]
        /\ UNCHANGED ruled
     \/ /\ ~(Caching /\ Cached(name[r]) /\ Usable(EntryOf(name[r])))
        /\ lru' = IF Caching THEN Without(name[r]) ELSE lru
        /\ req' = [req EXCEPT ![r] = "hijack"]
        /\ ruled' = [ruled EXCEPT ![r] = {l \in Lists : Contain(rules[l], name[r])}]
        /\ UNCHANGED answer
  /\ UNCHANGED <<now, ruleVars, inbox, arrived, closed, name, replies>>

\* Mutant of After: the reject list is skipped.
AfterSkip(pc) == IF pc \in Lists THEN "resolve" ELSE pc

\* Where handle goes when a list does not match.
After(pc) == IF pc = "hijack" THEN "reject" ELSE "resolve"

\* handle, the hijack list and then the reject list.
TryList(r, l) ==
  /\ req[r] = l
  /\ \/ /\ Contain(rules[l], name[r])
        /\ answer' = [answer EXCEPT ![r] = IF l = "hijack" THEN Hijacked ELSE NoRecords]
        /\ req' = [req EXCEPT ![r] = "send"]
     \/ /\ ~Contain(rules[l], name[r])
        /\ req' = [req EXCEPT ![r] = After(l)]
        /\ UNCHANGED answer
  /\ UNCHANGED <<now, ruleVars, lru, inbox, arrived, closed, name, replies, ruled>>

\* The nameservers answer; an error, no records included, is only logged.
Resolve(r) ==
  /\ req[r] = "resolve"
  /\ \/ /\ answer' = [answer EXCEPT ![r] = Records(name[r], now)]
        /\ req' = [req EXCEPT ![r] = "put"]
        /\ UNCHANGED <<name, ruled>>
     \/ Finish({r})
  /\ UNCHANGED <<now, ruleVars, lru, inbox, arrived, closed, replies>>

Put(r) ==
  /\ req[r] = "put"
  /\ IF Caching THEN Insert(name[r], answer[r]) ELSE UNCHANGED lru
  /\ req' = [req EXCEPT ![r] = "send"]
  /\ UNCHANGED <<now, ruleVars, inbox, arrived, closed, name, answer, replies, ruled>>

\* The response is encoded and handed to the socket.  A failure of either is
\* logged; over TCP it ends the connection and what is queued on it.
Send(r) ==
  /\ req[r] = "send"
  /\ \/ /\ Finish({r})
        /\ replies' = IF r \in Tcp THEN Append(replies, r) ELSE replies
        /\ UNCHANGED <<inbox, closed>>
     \/ /\ r \in Tcp
        /\ Close({r})
        /\ UNCHANGED replies
  /\ UNCHANGED <<now, ruleVars, lru, arrived>>

Handle(r) ==
  /\ service = "serving"
  /\ TryCache(r) \/ (\E l \in Lists : TryList(r, l)) \/ Resolve(r) \/ Put(r) \/ Send(r)

-----------------------------------------------------------------------------
(* rule::load, called by Reject::new and Hijack::new, then by their tasks. *)

\* A request for the list; Handler::new loads the reject list first.
LoadStart(l) ==
  /\ \/ service = l /\ loader[l] = "off"
     \/ service = "serving" /\ loader[l] = "sleep" /\ reloads < MaxReloads
  /\ loader' = [loader EXCEPT ![l] = "load"]
  /\ reloads' = IF service = "serving" THEN reloads + 1 ELSE reloads
  /\ UNCHANGED <<now, service, rules, lru, reqVars, ruled>>

\* The trie of the first n lines of a list.
Loaded(b, n) == {Inserted(b[k]) : k \in 1..n}

\* The ghost `ruled` when list l has become the trie t.
StillRuled(l, t) ==
  [r \in Reqs |-> IF Contain(t, name[r]) THEN ruled[r] ELSE ruled[r] \ {l}]

\* The list is used from now on.
Swap(l, t) ==
  /\ rules' = [rules EXCEPT ![l] = t]
  /\ ruled' = StillRuled(l, t)

\* All the lines are read.
LoadEnd(l) ==
  /\ loader[l] = "load" /\ service # "exit"
  /\ \E b \in Bodies, fp \in SUBSET FalsePositives : Swap(l, Loaded(b, Len(b)) \cup fp)
  /\ loader' = [loader EXCEPT ![l] = "sleep"]
  /\ service' = IF service = "reject" THEN "hijack" ELSE "serving"
  /\ UNCHANGED <<now, reloads, lru, reqVars>>

\* Mutant of LoadFail: the lines that were read are used.
LoadFailSwap(l) ==
  /\ loader[l] = "load" /\ service # "exit"
  /\ \E b \in Bodies : \E n \in 0..Len(b) : Swap(l, Loaded(b, n))
  /\ loader' = [loader EXCEPT ![l] = "sleep"]
  /\ service' = IF service = "serving" THEN "serving" ELSE "exit"
  /\ UNCHANGED <<now, reloads, lru, reqVars>>

\* The endpoint cannot be reached, has no good answer, or breaks off after
\* some lines: the old list stays.  For Handler::new it is an error, and the
\* process ends.
LoadFail(l) ==
  /\ loader[l] = "load" /\ service # "exit"
  /\ loader' = [loader EXCEPT ![l] = "sleep"]
  /\ service' = IF service = "serving" THEN "serving" ELSE "exit"
  /\ UNCHANGED <<now, rules, reloads, lru, reqVars, ruled>>

-----------------------------------------------------------------------------
Tick ==
  /\ now < MaxTime
  /\ now' = now + 1
  /\ UNCHANGED <<ruleVars, lru, reqVars, ruled>>

Init ==
  /\ now = 0
  /\ service = "reject"
  /\ rules = [l \in Lists |-> {}]
  /\ loader = [l \in Lists |-> "off"]
  /\ reloads = 0
  /\ lru = <<>>
  /\ inbox = <<>>
  /\ arrived = <<>>
  /\ closed = FALSE
  /\ req = [r \in Reqs |-> "idle"]
  /\ name = [r \in Reqs |-> <<>>]
  /\ answer = [r \in Reqs |-> NoAnswer]
  /\ replies = <<>>
  /\ ruled = [r \in Reqs |-> {}]

\* One of the sockets fails: serve returns the error and the process ends.
ServeFail ==
  /\ service = "serving"
  /\ service' = "exit"
  /\ UNCHANGED <<now, rules, loader, reloads, lru, reqVars, ruled>>

\* Nothing is left to do: the process is gone or all slots are used.
Quiet ==
  /\ service = "exit" \/ \A r \in Reqs : req[r] = "done" \/ (r \in Tcp /\ closed)
  /\ UNCHANGED vars

Next ==
  \/ \E r \in Reqs, n \in Names : Arrive(r, n)
  \/ ReadTcp
  \/ TcpEnd
  \/ \E r \in Reqs : Handle(r)
  \/ \E l \in Lists : LoadStart(l) \/ LoadEnd(l) \/ LoadFail(l)
  \/ Tick
  \/ ServeFail
  \/ Quiet

Spec == Init /\ [][Next]_vars

-----------------------------------------------------------------------------
(* Properties.                                                             *)

\* Records are only given for the name that they belong to, whether they come
\* from the nameservers or from the cache.
OwnRecords ==
  \A r \in Reqs : answer[r].kind = "records" => answer[r].for = name[r]

\* Requests that miss the cache together all ask the nameservers, and all put
\* their answer; the entry of the first stays as it is until it is dropped,
\* so that its age does not start anew, no question has two entries and there
\* are at most SIZE of them (Cache::put).
EntriesKept ==
  [][/\ Len(lru') <= SIZE
     /\ \A i, j \in 1..Len(lru') : lru'[i].query = lru'[j].query => i = j
     /\ \A i \in 1..Len(lru), j \in 1..Len(lru') :
          lru[i].query = lru'[j].query => lru[i] = lru'[j]]_vars

\* A name that one and the same list matches from the cache miss on never
\* gets to the nameservers, however the lists are reloaded meanwhile.
RuledNotResolved ==
  \A r \in Reqs : req[r] \in {"resolve", "put"} => ruled[r] = {}

\* The lists in use are whole ones: no line of a load that failed, or has
\* not ended, is used (rule::load, Trie::swap).
ListsWhole ==
  service = "serving" =>
    \A l \in Lists : \E b \in Bodies :
      LET whole == Loaded(b, Len(b))
      IN whole \subseteq rules[l] /\ rules[l] \subseteq whole \cup FalsePositives

\* The loop of Trie::contain computes what Matched says.
ContainMatched ==
  \A l \in Lists, n \in Lookups : Contain(rules[l], n) <=> Matched(rules[l], n)

\* Over TCP the requests are answered in the order of their arrival, though
\* some are answered from the cache and others by the nameservers.
TcpInOrder ==
  \A i, j \in 1..Len(arrived), k, m \in 1..Len(replies) :
    arrived[i] = replies[k] /\ arrived[j] = replies[m] /\ i < j => k < m

-----------------------------------------------------------------------------
(* What the repository says and the code does not do.                      *)

\* Cache::get, on the entry it drops: "cache expired".  The one it uses would
\* then be one that has not expired.
CacheFresh ==
  [][\A r \in Reqs : req[r] = "cache" /\ req'[r] = "send" => now < EntryOf(name[r]).expire_at]_vars

\* README: ".bar.com    # wildcard match any domain with suffix `.bar.com`".
WildcardsMatch ==
  \A l \in Lists, n \in Lookups : \A d \in Domains(n) :
    Inserted(<<"">> \o d) \in rules[l] => Contain(rules[l], n)
=============================================================================
