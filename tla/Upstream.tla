------------------------------ MODULE Upstream ------------------------------
(***************************************************************************)
(* The upstream server pool of roxy (src/upstream) and the part of the     *)
(* transparent HTTP proxy that draws servers from it (src/relay/thp).      *)
(*                                                                         *)
(* `Upstream::new` loads a list of servers, checks all of them once and    *)
(* spawns two tasks: the checker, which measures every server of the       *)
(* published `Peers` again and again while it holds the read guard, and    *)
(* the updater, which loads a new list, checks it outside the lock and     *)
(* swaps it in under the write guard.  Relay connections pick a server     *)
(* under the read guard, connect through it, and report failures to the    *)
(* server object they picked, which may have been retired meanwhile.       *)
(*                                                                         *)
(* A `Peers` value is a generation g: count[g] servers, the index best[g]  *)
(* and one latency history per server.  A server object is a pair of a     *)
(* generation and an index, because every load builds new objects.         *)
(***************************************************************************)
EXTENDS Naturals, Sequences

CONSTANTS
  Conns,          \* slots for relay connections, reused when one ends
  MaxServers,     \* bound: most servers a provider list holds
  MaxLoads,       \* bound: most lists that are loaded successfully
  MaxLatency,     \* bound: largest latency a check measures, in ms
  MAX_HISTORY,    \* latencies kept per server (10 in the code)
  ATTEMPTS,       \* connect attempts of a relay connection (5)
  PROBES,         \* probes of by_etld before it falls back (5)
  LbType,         \* config.load_balance: "Best" or "Etld"
  Controller,     \* is the controller, which serves stats, configured?
  Fnv,            \* hash of the eTLD+1 of the host of a connection
  JumpHash(_, _)  \* jumphash: the bucket of a key among n buckets

Gens == 1..MaxLoads
Idx == 0..(MaxServers - 1)
Latency == 0..MaxLatency

\* The tasks that run check_once, and every task that takes the lock.
Checkers == {"new", "checker", "updater"}
Tasks == Checkers \cup {"stats"} \cup Conns

ASSUME BoundsAssumption ==
  /\ MaxServers \in Nat \ {0}
  /\ MaxLoads \in Nat \ {0}
  /\ MaxLatency \in Nat
  /\ MAX_HISTORY \in Nat \ {0}
  /\ ATTEMPTS \in Nat \ {0}
  /\ PROBES \in Nat \ {0}

ASSUME ConfigAssumption ==
  /\ LbType \in {"Best", "Etld"}
  /\ Controller \in BOOLEAN

ASSUME TasksAssumption == Conns \cap (Checkers \cup {"stats"}) = {}

\* jumphash returns one of the buckets it is given.
ASSUME HashAssumption ==
  /\ Fnv \in [Conns -> Nat]
  /\ \A c \in Conns, k \in 0..PROBES, n \in 1..MaxServers :
       JumpHash(Fnv[c] + k, n) \in 0..(n - 1)

VARIABLES
  \* The shared pool.
  peers,      \* the published generation, 0 before Upstream::new stores one
  loads,      \* number of generations built so far
  count,      \* count[g]: servers.len() of generation g
  best,       \* best[g]: the AtomicUsize of generation g
  latencies,  \* latencies[g][i]: history of server i of generation g
  \* The tokio RwLock around it: who holds a read guard, who waits, in order.
  readers, queue,
  \* check_once, as run by each of the tasks in Checkers.
  task,       \* program counter of the task
  cgen,       \* the Peers it checks
  pending,    \* indices whose check is still running
  seen,       \* latencies read so far by the scan for the best server
  bestIndex, bestLatency,
  \* Relay connections.
  conn,       \* program counter
  gen, idx,   \* the Peers in use; the loop index, then the server picked
  nth,        \* probes made by by_etld
  try,        \* number of the current attempt
  resort,     \* was the server picked as the last resort of fallback?
  steady,     \* ghost: servers that were alive during the whole current pick
  \* The stats request of the controller.
  stats, row

poolVars == <<peers, loads, count, best, latencies>>
lockVars == <<readers, queue>>
checkVars == <<task, cgen, pending, seen, bestIndex, bestLatency>>
connVars == <<conn, gen, idx, nth, try, resort, steady>>
statsVars == <<stats, row>>
vars == <<poolVars, lockVars, checkVars, connVars, statsVars>>

-----------------------------------------------------------------------------
(* Server: the latency history.                                            *)

Picking == {"best", "etld", "scan"}

\* back() of a history.
Latest(h) == h[Len(h)]

Alive(g, i) == latencies[g][i] # <<>> /\ Latest(latencies[g][i]) > 0

\* The indices of generation g whose server is alive now.
AliveIn(g) == {i \in Idx : i < count[g] /\ Alive(g, i)}

\* Mutant of Pushed: the oldest latency is never dropped.
PushedUnbounded(h, v) == Append(h, v)

\* The history after a value was pushed, the oldest dropped when it is full.
Pushed(h, v) ==
  Append(IF Len(h) = MAX_HISTORY THEN Tail(h) ELSE h, v)

PushLatency(g, i, v) == latencies' = [latencies EXCEPT ![g][i] = Pushed(@, v)]

\* The ghost `steady` once value v was pushed on server i of generation g.
StillSteady(g, i, v) ==
  [c \in Conns |-> IF v = 0 /\ conn[c] \in Picking /\ gen[c] = g
                   THEN steady[c] \ {i} ELSE steady[c]]

-----------------------------------------------------------------------------
(* tokio::sync::RwLock: first come, first served; a reader queues behind a *)
(* waiting writer.  The write guard lives within one step of the updater.  *)

Enqueue(t) == queue' = Append(queue, t)

First(t) == queue # <<>> /\ Head(queue) = t

\* Mutant of LockRead: the guard is a temporary, dropped at once.
LockReadTemporary(t) ==
  /\ First(t)
  /\ queue' = Tail(queue)
  /\ UNCHANGED readers

LockRead(t) ==
  /\ First(t)
  /\ queue' = Tail(queue)
  /\ readers' = readers \cup {t}

\* Mutant of Unlock: the guard outlives the check or the pick.
UnlockForgotten(t) == t \in Tasks /\ UNCHANGED readers

Unlock(t) == readers' = readers \ {t}

-----------------------------------------------------------------------------
(* Peers::check_once.                                                      *)

NoLatency == MaxLatency + 1    \* u32::MAX

\* Mutant of StartCheck: the last server is left out.
StartCheckShort(t, g, n) ==
  /\ cgen' = [cgen EXCEPT ![t] = g]
  /\ pending' = [pending EXCEPT ![t] = 0..(n - 2)]

StartCheck(t, g, n) ==
  /\ cgen' = [cgen EXCEPT ![t] = g]
  /\ pending' = [pending EXCEPT ![t] = 0..(n - 1)]

\* What the caller does next: `new` drops its guard and spawns the two
\* tasks, the checker drops its guard and sleeps, the updater asks for the
\* write guard.
AfterCheck(t) ==
  \/ /\ t = "new"
     /\ task' = [task EXCEPT !["new"] = "done",
                             !["checker"] = "sleep", !["updater"] = "sleep"]
     /\ cgen' = [cgen EXCEPT ![t] = 0]
     /\ Unlock(t)
     /\ UNCHANGED queue
  \/ /\ t = "checker"
     /\ task' = [task EXCEPT ![t] = "sleep"]
     /\ cgen' = [cgen EXCEPT ![t] = 0]
     /\ Unlock(t)
     /\ UNCHANGED queue
  \/ /\ t = "updater"
     /\ task' = [task EXCEPT ![t] = "wait"]
     /\ Enqueue(t)
     /\ UNCHANGED <<readers, cgen>>

\* The early return for an empty list.
CheckEmpty(t) ==
  /\ task[t] = "check"
  /\ count[cgen[t]] = 0
  /\ AfterCheck(t)
  /\ UNCHANGED <<poolVars, pending, seen, bestIndex, bestLatency, connVars,
                 statsVars>>

\* One Checker ends: its delay, or 0 for an error or a timeout.
CheckUpdateScore(t, i) ==
  /\ task[t] = "check"
  /\ i \in pending[t]
  /\ \E v \in Latency : /\ PushLatency(cgen[t], i, v)
                         /\ steady' = StillSteady(cgen[t], i, v)
  /\ pending' = [pending EXCEPT ![t] = @ \ {i}]
  /\ UNCHANGED <<peers, loads, count, best, lockVars, task, cgen, seen,
                 bestIndex, bestLatency, conn, gen, idx, nth, try, resort,
                 statsVars>>

StartScan(t) ==
  /\ seen' = [seen EXCEPT ![t] = <<>>]
  /\ bestIndex' = [bestIndex EXCEPT ![t] = 0]
  /\ bestLatency' = [bestLatency EXCEPT ![t] = NoLatency]

\* All of the Checkers have ended.
Collected(t) ==
  /\ task[t] = "check"
  /\ count[cgen[t]] > 0
  /\ pending[t] = {}
  /\ task' = [task EXCEPT ![t] = "scan"]
  /\ StartScan(t)
  /\ UNCHANGED <<poolVars, lockVars, cgen, pending, connVars, statsVars>>

\* Mutant of Better: a dead server, whose latency is 0, is not skipped.
BetterDead(latency, t) == latency < bestLatency[t]

\* Does the latency read replace the best one found so far?
Better(latency, t) == latency # 0 /\ latency < bestLatency[t]

ScanLatency(t) ==
  /\ task[t] = "scan"
  /\ Len(seen[t]) < count[cgen[t]]
  /\ LET index == Len(seen[t])
         latency == Latest(latencies[cgen[t]][index])
     IN /\ seen' = [seen EXCEPT ![t] = Append(@, latency)]
        /\ bestIndex' = [bestIndex EXCEPT ![t] =
                           IF Better(latency, t) THEN index ELSE @]
        /\ bestLatency' = [bestLatency EXCEPT ![t] =
                             IF Better(latency, t) THEN latency ELSE @]
  /\ UNCHANGED <<poolVars, lockVars, task, cgen, pending, connVars, statsVars>>

\* The best index is stored, and the locals of the scan are gone.
StoreBest(t) ==
  /\ task[t] = "scan"
  /\ Len(seen[t]) = count[cgen[t]]
  /\ best' = [best EXCEPT ![cgen[t]] = bestIndex[t]]
  /\ AfterCheck(t)
  /\ StartScan(t)
  /\ UNCHANGED <<peers, loads, count, latencies, pending, connVars, statsVars>>

CheckOnce(t) ==
  \/ CheckEmpty(t)
  \/ \E i \in Idx : CheckUpdateScore(t, i)
  \/ Collected(t)
  \/ ScanLatency(t)
  \/ StoreBest(t)

-----------------------------------------------------------------------------
(* Upstream::new and the two tasks it spawns.                              *)

\* Peers::new over a list of n servers: best is 0, no latency is known.
NewPeers(n) ==
  /\ loads < MaxLoads
  /\ loads' = loads + 1
  /\ count' = [count EXCEPT ![loads + 1] = n]
  /\ UNCHANGED <<best, latencies>>

\* Upstream::new loads the first list; an error ends the process.  A list
\* decodes to any number of servers, none included.
NewLoad ==
  /\ task["new"] = "load"
  /\ \/ /\ task' = [task EXCEPT !["new"] = "exit"]
        /\ UNCHANGED <<poolVars, readers, cgen, pending>>
     \/ \E n \in 0..MaxServers :
          /\ NewPeers(n)
          /\ peers' = loads + 1
          /\ readers' = readers \cup {"new"}
          /\ task' = [task EXCEPT !["new"] = "check"]
          /\ StartCheck("new", loads + 1, n)
  /\ UNCHANGED <<queue, seen, bestIndex, bestLatency, connVars, statsVars>>

\* The checker's sleep(check.interval) is over: it asks for a read guard.
CheckerWake ==
  /\ task["checker"] = "sleep"
  /\ task' = [task EXCEPT !["checker"] = "wait"]
  /\ Enqueue("checker")
  /\ UNCHANGED <<poolVars, readers, cgen, pending, seen, bestIndex,
                 bestLatency, connVars, statsVars>>

CheckerLock ==
  /\ task["checker"] = "wait"
  /\ LockRead("checker")
  /\ task' = [task EXCEPT !["checker"] = "check"]
  /\ StartCheck("checker", peers, count[peers])
  /\ UNCHANGED <<poolVars, seen, bestIndex, bestLatency, connVars, statsVars>>

UpdaterWake ==
  /\ task["updater"] = "sleep"
  /\ task' = [task EXCEPT !["updater"] = "load"]
  /\ UNCHANGED <<poolVars, lockVars, cgen, pending, seen, bestIndex,
                 bestLatency, connVars, statsVars>>

\* provider.load() gives an error, which is logged; or panics on a server URL
\* with an unknown cipher, which ends this task alone; or gives a list.
UpdaterLoad ==
  /\ task["updater"] = "load"
  /\ \/ /\ \E pc \in {"sleep", "dead"} :
             task' = [task EXCEPT !["updater"] = pc]
        /\ UNCHANGED <<poolVars, cgen, pending>>
     \/ \E n \in 0..MaxServers :
          /\ NewPeers(n)
          /\ UNCHANGED peers
          /\ task' = [task EXCEPT !["updater"] = "check"]
          /\ StartCheck("updater", loads + 1, n)
  /\ UNCHANGED <<lockVars, seen, bestIndex, bestLatency, connVars, statsVars>>

\* The write guard is granted, the pointer is swapped, the guard is dropped.
UpdaterPublish ==
  /\ task["updater"] = "wait"
  /\ First("updater")
  /\ readers = {}
  /\ queue' = Tail(queue)
  /\ peers' = cgen["updater"]
  /\ task' = [task EXCEPT !["updater"] = "sleep"]
  /\ cgen' = [cgen EXCEPT !["updater"] = 0]
  /\ UNCHANGED <<loads, count, best, latencies, readers, pending, seen,
                 bestIndex, bestLatency, connVars, statsVars>>

-----------------------------------------------------------------------------
(* Upstream::pick, run by a relay connection.                              *)

\* Connection slots that are free: unused, or their last task has ended.
Ended == {"idle", "noproxy", "panicked"}

\* The server of this attempt is no longer referred to.
DropServer(c) ==
  /\ gen' = [gen EXCEPT ![c] = 0]
  /\ idx' = [idx EXCEPT ![c] = 0]

\* How the pick of this attempt went does not matter any more.
DropPick(c) == resort' = [resort EXCEPT ![c] = FALSE]

\* A connection is accepted once `new` has returned; sniffing its
\* destination fails, or the loop over the attempts begins.
Accept(c) ==
  /\ task["new"] = "done"
  /\ conn[c] \in Ended
  /\ \E pc \in {"idle", "want"} : conn' = [conn EXCEPT ![c] = pc]
  /\ try' = [try EXCEPT ![c] = 1]
  /\ DropServer(c)
  /\ DropPick(c)
  /\ steady' = [steady EXCEPT ![c] = {}]
  /\ UNCHANGED <<poolVars, lockVars, checkVars, nth, statsVars>>

PickWait(c) ==
  /\ conn[c] = "want"
  /\ conn' = [conn EXCEPT ![c] = "wait"]
  /\ Enqueue(c)
  /\ UNCHANGED <<poolVars, readers, checkVars, gen, idx, nth, try, resort,
                 steady, statsVars>>

\* The read guard is granted; `best` loads its index, `by_etld` hashes.
PickLock(c) ==
  /\ conn[c] = "wait"
  /\ LockRead(c)
  /\ conn' = [conn EXCEPT ![c] = IF LbType = "Best" THEN "best" ELSE "etld"]
  /\ gen' = [gen EXCEPT ![c] = peers]
  /\ idx' = [idx EXCEPT ![c] = best[peers]]
  /\ nth' = [nth EXCEPT ![c] = 0]
  /\ steady' = [steady EXCEPT ![c] = AliveIn(peers)]
  /\ UNCHANGED <<poolVars, checkVars, try, resort, statsVars>>

\* Indexing past the end or asking alive() of a server that was never
\* checked panics; the task dies and unwinding drops its guard.
Panics(g, i) == i >= count[g] \/ latencies[g][i] = <<>>

Panic(c) ==
  /\ conn' = [conn EXCEPT ![c] = "panicked"]
  /\ nth' = [nth EXCEPT ![c] = 0]
  /\ Unlock(c)
  /\ UNCHANGED <<idx, resort>>

\* pick returns server i and the guard is dropped.
Choose(c, i, last) ==
  /\ conn' = [conn EXCEPT ![c] = "connect"]
  /\ idx' = [idx EXCEPT ![c] = i]
  /\ resort' = [resort EXCEPT ![c] = last]
  /\ nth' = [nth EXCEPT ![c] = 0]
  /\ Unlock(c)

PickUnchanged == UNCHANGED <<poolVars, queue, checkVars, gen, try, steady, statsVars>>

ProbeBest(c) ==
  /\ conn[c] = "best"
  /\ \/ Panics(gen[c], idx[c]) /\ Panic(c)
     \/ /\ ~Panics(gen[c], idx[c])
        /\ Alive(gen[c], idx[c])
        /\ Choose(c, idx[c], FALSE)
     \/ /\ ~Panics(gen[c], idx[c])
        /\ ~Alive(gen[c], idx[c])
        /\ conn' = [conn EXCEPT ![c] = "scan"]
        /\ idx' = [idx EXCEPT ![c] = 0]
        /\ UNCHANGED <<readers, nth, resort>>
  /\ PickUnchanged

\* Mutant of Bucket: the key is increased before the probe.
BucketSkewed(c) ==
  IF count[gen[c]] = 0 THEN 0 ELSE JumpHash(Fnv[c] + nth[c] + 1, count[gen[c]])

\* The bucket of the next probe; jumphash of no buckets is -1, which is no
\* index.
Bucket(c) ==
  IF count[gen[c]] = 0 THEN 0 ELSE JumpHash(Fnv[c] + nth[c], count[gen[c]])

ProbeEtld(c) ==
  /\ conn[c] = "etld"
  /\ nth[c] < PROBES
  /\ \/ Panics(gen[c], Bucket(c)) /\ Panic(c)
     \/ /\ ~Panics(gen[c], Bucket(c))
        /\ Alive(gen[c], Bucket(c))
        /\ Choose(c, Bucket(c), FALSE)
     \/ /\ ~Panics(gen[c], Bucket(c))
        /\ ~Alive(gen[c], Bucket(c))
        /\ nth' = [nth EXCEPT ![c] = @ + 1]
        /\ UNCHANGED <<conn, readers, idx, resort>>
  /\ PickUnchanged

EtldFallback(c) ==
  /\ conn[c] = "etld"
  /\ nth[c] = PROBES
  /\ conn' = [conn EXCEPT ![c] = "scan"]
  /\ idx' = [idx EXCEPT ![c] = 0]
  /\ nth' = [nth EXCEPT ![c] = 0]
  /\ UNCHANGED <<readers, resort>>
  /\ PickUnchanged

\* Mutant of MoreServers: the loop stops before the last server.
MoreServersShort(c) == idx[c] + 1 < count[gen[c]]

\* Mutant of MoreServers: the loop runs one past the last server.
MoreServersPastEnd(c) == idx[c] <= count[gen[c]]

\* Has the loop of fallback servers left to look at?
MoreServers(c) == idx[c] < count[gen[c]]

\* The first server alive, or the first server when none is.
Fallback(c) ==
  /\ conn[c] = "scan"
  /\ \/ /\ MoreServers(c)
        /\ \/ Panics(gen[c], idx[c]) /\ Panic(c)
           \/ /\ ~Panics(gen[c], idx[c])
              /\ Alive(gen[c], idx[c])
              /\ Choose(c, idx[c], FALSE)
           \/ /\ ~Panics(gen[c], idx[c])
              /\ ~Alive(gen[c], idx[c])
              /\ idx' = [idx EXCEPT ![c] = @ + 1]
              /\ UNCHANGED <<conn, readers, nth, resort>>
     \/ /\ ~MoreServers(c)
        /\ Choose(c, 0, TRUE)
  /\ PickUnchanged

Pick(c) ==
  \/ PickWait(c)
  \/ PickLock(c)
  \/ ProbeBest(c)
  \/ ProbeEtld(c)
  \/ EtldFallback(c)
  \/ Fallback(c)

-----------------------------------------------------------------------------
(* The rest of a relay connection.                                         *)

ConnectOk(c) ==
  /\ conn[c] = "connect"
  /\ conn' = [conn EXCEPT ![c] = "proxy"]
  /\ DropPick(c)
  /\ steady' = [steady EXCEPT ![c] = {}]
  /\ UNCHANGED <<poolVars, lockVars, checkVars, gen, idx, nth, try, statsVars>>

\* connect fails: report_failure, then the next attempt if there is one.
ConnectErr(c) ==
  /\ conn[c] = "connect"
  /\ PushLatency(gen[c], idx[c], 0)
  /\ steady' = [StillSteady(gen[c], idx[c], 0) EXCEPT ![c] = {}]
  /\ \/ /\ try[c] < ATTEMPTS
        /\ try' = [try EXCEPT ![c] = @ + 1]
        /\ conn' = [conn EXCEPT ![c] = "want"]
     \/ /\ try[c] = ATTEMPTS
        /\ conn' = [conn EXCEPT ![c] = "noproxy"]
        /\ UNCHANGED try
  /\ DropServer(c)
  /\ DropPick(c)
  /\ UNCHANGED <<peers, loads, count, best, lockVars, checkVars, nth, statsVars>>

\* The relay session ends; an error in it is reported as a failure.
ProxyEnd(c) ==
  /\ conn[c] = "proxy"
  /\ conn' = [conn EXCEPT ![c] = "idle"]
  /\ \/ /\ PushLatency(gen[c], idx[c], 0)
        /\ steady' = StillSteady(gen[c], idx[c], 0)
     \/ UNCHANGED <<latencies, steady>>
  /\ DropServer(c)
  /\ UNCHANGED <<peers, loads, count, best, lockVars, checkVars, nth, try,
                 resort, statsVars>>

-----------------------------------------------------------------------------
(* Upstream::stats, called by the controller.                              *)

StatsWait ==
  /\ Controller
  /\ task["new"] = "done"
  /\ stats = "idle"
  /\ stats' = "wait"
  /\ Enqueue("stats")
  /\ UNCHANGED <<poolVars, readers, checkVars, connVars, row>>

StatsLock ==
  /\ stats = "wait"
  /\ LockRead("stats")
  /\ stats' = "read"
  /\ row' = 0
  /\ UNCHANGED <<poolVars, checkVars, connVars>>

StatsRow ==
  /\ stats = "read"
  /\ row < count[peers]
  /\ row' = row + 1
  /\ UNCHANGED <<poolVars, lockVars, checkVars, connVars, stats>>

StatsReturn ==
  /\ stats = "read"
  /\ row >= count[peers]
  /\ stats' = "idle"
  /\ Unlock("stats")
  /\ UNCHANGED <<poolVars, queue, checkVars, connVars, row>>

Stats == StatsLock \/ StatsRow \/ StatsReturn

-----------------------------------------------------------------------------
(* The specification.                                                      *)

Init ==
  /\ peers = 0
  /\ loads = 0
  /\ count = [g \in Gens |-> 0]
  /\ best = [g \in Gens |-> 0]
  /\ latencies = [g \in Gens |-> [i \in Idx |-> <<>>]]
  /\ readers = {}
  /\ queue = <<>>
  /\ task = [t \in Checkers |-> IF t = "new" THEN "load" ELSE "off"]
  /\ cgen = [t \in Checkers |-> 0]
  /\ pending = [t \in Checkers |-> {}]
  /\ seen = [t \in Checkers |-> <<>>]
  /\ bestIndex = [t \in Checkers |-> 0]
  /\ bestLatency = [t \in Checkers |-> NoLatency]
  /\ conn = [c \in Conns |-> "idle"]
  /\ gen = [c \in Conns |-> 0]
  /\ idx = [c \in Conns |-> 0]
  /\ nth = [c \in Conns |-> 0]
  /\ try = [c \in Conns |-> 1]
  /\ resort = [c \in Conns |-> FALSE]
  /\ steady = [c \in Conns |-> {}]
  /\ stats = "idle"
  /\ row = 0

\* The process has exited: Upstream::new returned an error.
Exited == task["new"] = "exit" /\ UNCHANGED vars

Next ==
  \/ NewLoad
  \/ \E t \in Checkers : CheckOnce(t)
  \/ CheckerWake
  \/ CheckerLock
  \/ UpdaterWake
  \/ UpdaterLoad
  \/ UpdaterPublish
  \/ \E c \in Conns : Accept(c) \/ Pick(c) \/ ConnectOk(c) \/ ConnectErr(c) \/ ProxyEnd(c)
  \/ StatsWait
  \/ Stats
  \/ Exited

Spec == Init /\ [][Next]_vars

\* What the runtime guarantees: timers fire, a runnable task runs, a check
\* ends because it runs under a timeout, the operating system answers a
\* connect.  Nothing makes a load answer (its HTTP client has no timeout), a
\* client connect, a session end or somebody ask for the stats.
Fairness ==
  /\ \A t \in Checkers : WF_vars(CheckOnce(t))
  /\ WF_vars(CheckerWake)
  /\ WF_vars(CheckerLock)
  /\ WF_vars(UpdaterWake)
  /\ WF_vars(UpdaterPublish)
  /\ \A c \in Conns : WF_vars(Pick(c)) /\ WF_vars(ConnectOk(c) \/ ConnectErr(c))
  /\ WF_vars(Stats)

FairSpec == Spec /\ Fairness

-----------------------------------------------------------------------------
(* Properties.                                                             *)

PoolTypeOK ==
  /\ peers \in 0..MaxLoads
  /\ loads \in 0..MaxLoads
  /\ count \in [Gens -> 0..MaxServers]
  /\ best \in [Gens -> Idx]
  /\ latencies \in [Gens -> [Idx -> Seq(Latency)]]
  /\ \A g \in Gens, i \in Idx : Len(latencies[g][i]) <= MAX_HISTORY

LockTypeOK ==
  /\ readers \subseteq Tasks
  /\ queue \in Seq(Tasks)

CheckTypeOK ==
  /\ task \in [Checkers -> {"off", "load", "exit", "check", "scan", "done",
                            "sleep", "wait", "dead"}]
  /\ cgen \in [Checkers -> 0..MaxLoads]
  /\ pending \in [Checkers -> SUBSET Idx]
  /\ seen \in [Checkers -> Seq(Latency)]
  /\ bestIndex \in [Checkers -> Idx]
  /\ bestLatency \in [Checkers -> 0..NoLatency]

ConnTypeOK ==
  /\ conn \in [Conns -> Ended \cup Picking \cup {"want", "wait", "connect", "proxy"}]
  /\ gen \in [Conns -> 0..MaxLoads]
  /\ idx \in [Conns -> 0..MaxServers]
  /\ nth \in [Conns -> 0..PROBES]
  /\ try \in [Conns -> 1..ATTEMPTS]
  /\ resort \in [Conns -> BOOLEAN]
  /\ steady \in [Conns -> SUBSET Idx]

StatsTypeOK ==
  /\ stats \in {"idle", "wait", "read"}
  /\ row \in 0..MaxServers

\* Every variable has its type; a history never outgrows MAX_HISTORY
\* (Server::push_latency) and the attempts never exceed ATTEMPTS.
TypeOK ==
  /\ PoolTypeOK
  /\ LockTypeOK
  /\ CheckTypeOK
  /\ ConnTypeOK
  /\ StatsTypeOK

\* No history that `alive` or `latency` may look at is empty: the servers of
\* the published Peers have all been checked, and those of a Peers under a
\* check are checked before the scan reads them.  This is what the two
\* `expect`s of Server rely on.
PublishedChecked ==
  /\ task["new"] = "done" =>
       \A i \in Idx : i < count[peers] => latencies[peers][i] # <<>>
  /\ \A t \in Checkers : task[t] = "scan" =>
       \A i \in Idx : i < count[cgen[t]] => latencies[cgen[t]][i] # <<>>

\* A pick panics only when the published list is empty, so never because
\* `best` is out of range or a server has no latency yet (Peers::best,
\* by_etld, fallback).
PanicOnlyOnEmpty ==
  \A c \in Conns : conn[c] = "panicked" => count[gen[c]] = 0

\* Whoever holds a read guard works on the published Peers until it drops
\* the guard: the updater never swaps the pointer under a check or a pick.
GuardPinsPeers ==
  /\ \A c \in Conns : conn[c] \in Picking => gen[c] = peers
  /\ task["checker"] \in {"check", "scan"} => cgen["checker"] = peers

\* pick returns the first server for want of a live one (fallback's "no alive
\* proxy, return the first one") only if no server was alive during the whole
\* pick, whatever failures and checks are recorded while it looks.
LastResortIsLast ==
  \A c \in Conns : conn[c] = "connect" /\ resort[c] => steady[c] = {}

\* With the etld+1 balancer a host keeps the server its hash names as long
\* as that server stays alive during the pick.
EtldSticky ==
  \A c \in Conns :
    conn[c] = "connect" /\ LbType = "Etld" =>
      LET home == JumpHash(Fnv[c], count[gen[c]])
      IN home \in steady[c] => idx[c] = home

\* The first index of the smallest positive latency in s, 0 if there is none.
IsFirstFastest(k, s) ==
  LET up == {i \in 1..Len(s) : s[i] > 0}
  IN IF up = {} THEN k = 0
     ELSE /\ k + 1 \in up
          /\ \A i \in up : s[k + 1] <= s[i] /\ (s[i] = s[k + 1] => k + 1 <= i)

\* The scan of check_once has found the first of the fastest live servers
\* among the latencies it has read.
BestIsFastest ==
  \A t \in Checkers : task[t] = "scan" => IsFirstFastest(bestIndex[t], seen[t])

\* A pick that waits for the lock gets a server (or panics on an empty list):
\* a check that holds the read guard and an updater queued behind it delay
\* it, but never for ever.
PickCompletes ==
  \A c \in Conns : conn[c] = "wait" ~> conn[c] \in {"connect", "panicked"}

\* Once `new` has returned the checker measures the published servers for
\* ever: a server marked dead by a failure is looked at again.
ChecksRecur ==
  (task["new"] = "done") ~> []<>(task["checker"] = "check")
=============================================================================
