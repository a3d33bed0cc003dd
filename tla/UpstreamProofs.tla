--------------------------- MODULE UpstreamProofs ---------------------------
(***************************************************************************)
(* Proofs about Upstream, for every number of connections, servers, loads, *)
(* attempts and probes.                                                    *)
(*                                                                         *)
(* None of the properties is inductive by itself.  That a pick never looks *)
(* at a server without a latency rests on the lock (the Peers in use are   *)
(* the published ones), on every published Peers having been checked, on   *)
(* the updater asking for the lock only after its check, and on histories  *)
(* never becoming empty again.  Inv collects these facts.                  *)
(***************************************************************************)
EXTENDS Upstream, TLAPS

\* Before `new` has returned neither of its tasks runs and nobody asks for
\* the stats.
Booted ==
  /\ task["new"] \in {"load", "exit", "check", "scan", "done"}
  /\ task["new"] \in {"load", "exit"} => loads = 0
  /\ task["new"] \in {"check", "scan", "done"} => peers > 0
  /\ task["new"] # "done" =>
       task["checker"] = "off" /\ task["updater"] = "off" /\ stats = "idle"
  /\ task["checker"] \in {"off", "sleep", "wait", "check", "scan"}
  /\ task["updater"] \in {"off", "sleep", "load", "check", "scan", "wait", "dead"}

\* The generations the tasks refer to have been built.
Refs ==
  /\ peers <= loads
  /\ \A t \in Checkers : cgen[t] <= loads
  /\ \A t \in Checkers : task[t] \in {"check", "scan"} => cgen[t] > 0
  /\ task["updater"] = "wait" => cgen["updater"] > 0
  /\ task["new"] \in {"check", "scan"} => cgen["new"] = peers

\* All servers of generation g have a latency.
AllChecked(g) == \A i \in Idx : i < count[g] => latencies[g][i] # <<>>

\* What has been checked at each point of check_once and of its callers.
Checked ==
  /\ \A t \in Checkers : task[t] = "check" =>
       \A i \in Idx : i < count[cgen[t]] => i \in pending[t] \/ latencies[cgen[t]][i] # <<>>
  /\ \A t \in Checkers : task[t] = "scan" => AllChecked(cgen[t])
  /\ task["updater"] = "wait" => AllChecked(cgen["updater"])
  /\ task["new"] = "done" => AllChecked(peers)

\* `best` names a server of its list, and so does the index the scan has found.
InRange ==
  /\ \A g \in Gens : g > loads => count[g] = 0
  /\ \A g \in Gens : best[g] = 0 \/ best[g] < count[g]
  /\ \A t \in Checkers : task[t] = "scan" =>
       /\ Len(seen[t]) <= count[cgen[t]]
       /\ bestIndex[t] = 0 \/ bestIndex[t] < Len(seen[t])

\* The checker works on the published Peers under a read guard.
Guarded ==
  task["checker"] \in {"check", "scan"} => "checker" \in readers /\ cgen["checker"] = peers

\* A connection starts after `new` has returned and refers to a Peers that
\* has been built; it picks under a read guard, from the published Peers.
ConnRefs(c) ==
  /\ conn[c] # "idle" => task["new"] = "done"
  /\ gen[c] <= loads
  /\ conn[c] \in Picking \cup {"connect", "proxy", "panicked"} => gen[c] > 0
  /\ conn[c] \in Picking => c \in readers /\ gen[c] = peers

\* The index of a connection stays below the length of the list it is used
\* on, and a panic means that there is no server.
ConnInRange(c) ==
  /\ conn[c] = "best" => idx[c] = 0 \/ idx[c] < count[gen[c]]
  /\ conn[c] = "etld" /\ nth[c] > 0 => count[gen[c]] > 0
  /\ conn[c] = "scan" => count[gen[c]] > 0 /\ idx[c] <= count[gen[c]]
  /\ conn[c] \in {"connect", "proxy"} => idx[c] < count[gen[c]]
  /\ conn[c] = "panicked" => count[gen[c]] = 0

\* What the ghost `steady` knows while a pick looks for a server, and after.
ConnSteady(c) ==
  /\ conn[c] \in Picking => \A i \in steady[c] : i < count[gen[c]] /\ Alive(gen[c], i)
  /\ conn[c] = "scan" => \A i \in steady[c] : idx[c] <= i
  /\ conn[c] = "connect" /\ resort[c] => steady[c] = {}

ConnOK(c) == ConnRefs(c) /\ ConnInRange(c) /\ ConnSteady(c)

\* The inductive invariant.
Inv ==
  /\ TypeOK
  /\ Booted
  /\ Refs
  /\ Checked
  /\ InRange
  /\ Guarded
  /\ \A c \in Conns : ConnOK(c)

USE DEF poolVars, lockVars, checkVars, connVars, statsVars

-----------------------------------------------------------------------------
(* The ranges.                                                             *)

\* Zero is in every range: no load, the first server, no probe, dead.
LEMMA Zeros ==
  /\ 0 \in 0..MaxLoads /\ 0 \in 0..MaxServers /\ 0 \in 0..PROBES
  /\ 0 \in Latency /\ 0 \in Idx
BY BoundsAssumption DEF Latency, Idx

\* An index below the length of a list names a server.
LEMMA Below ==
  ASSUME NEW n \in 0..MaxServers, NEW i \in Nat, i < n
  PROVE  i \in Idx /\ i + 1 \in 0..MaxServers /\ i + 1 <= n /\ n > 0
BY BoundsAssumption DEF Idx

\* Generations are positive.
LEMMA GensFacts ==
  ASSUME NEW g \in 0..MaxLoads
  PROVE  g \in Nat /\ 0 <= g /\ (g > 0 => g \in Gens)
BY BoundsAssumption DEF Gens

\* Lengths and indices are natural numbers.
LEMMA LengthFacts ==
  ASSUME NEW n \in 0..MaxServers
  PROVE  n \in Nat /\ 0 <= n
BY BoundsAssumption

\* What is not below n, and at most j, leaves no room for j below n.
LEMMA NoRoom ==
  ASSUME NEW i \in Nat, NEW j \in Nat, NEW n \in Nat, i <= j, j < n
  PROVE  i < n
OBVIOUS

\* The next index, when j is not this one.
LEMMA NextIndex ==
  ASSUME NEW i \in Nat, NEW j \in Nat, i <= j, j # i
  PROVE  i + 1 <= j
OBVIOUS

-----------------------------------------------------------------------------
(* Histories.                                                              *)

\* push_latency keeps a history bounded, leaves it non-empty, and the value
\* pushed is the one `alive` and `latency` read.
LEMMA PushedFacts ==
  ASSUME NEW h \in Seq(Latency), Len(h) <= MAX_HISTORY, NEW v \in Latency
  PROVE  /\ Pushed(h, v) \in Seq(Latency)
         /\ Len(Pushed(h, v)) <= MAX_HISTORY
         /\ Pushed(h, v) # <<>>
         /\ Latest(Pushed(h, v)) = v
<1> DEFINE k == IF Len(h) = MAX_HISTORY THEN Tail(h) ELSE h
<1>1. k \in Seq(Latency) /\ Len(k) < MAX_HISTORY
  BY BoundsAssumption
<1>2. Pushed(h, v) = Append(k, v)
  BY DEF Pushed
<1> HIDE DEF k
<1>3. /\ Append(k, v) \in Seq(Latency)
      /\ Len(Append(k, v)) = Len(k) + 1
      /\ Append(k, v)[Len(k) + 1] = v
  BY <1>1
<1>4. Append(k, v) # <<>>
  BY <1>1, <1>3
<1> QED
  BY <1>1, <1>2, <1>3, <1>4, BoundsAssumption DEF Latest

\* A push changes the history of one server.
LEMMA PushLatencyFacts ==
  ASSUME TypeOK, NEW g \in Gens, NEW i \in Idx, NEW v \in Latency, PushLatency(g, i, v)
  PROVE  /\ latencies' \in [Gens -> [Idx -> Seq(Latency)]]
         /\ \A h \in Gens, j \in Idx : Len(latencies'[h][j]) <= MAX_HISTORY
         /\ \A h \in Gens, j \in Idx : latencies[h][j] # <<>> => latencies'[h][j] # <<>>
         /\ \A h \in Gens, j \in Idx : h # g \/ j # i => latencies'[h][j] = latencies[h][j]
         /\ latencies'[g][i] # <<>>
         /\ Latest(latencies'[g][i]) = v
<1> DEFINE new == Pushed(latencies[g][i], v)
<1>1. /\ new \in Seq(Latency)
      /\ Len(new) <= MAX_HISTORY
      /\ new # <<>>
      /\ Latest(new) = v
  BY PushedFacts, Zenon DEF TypeOK, PoolTypeOK
<1>2. latencies' = [latencies EXCEPT ![g][i] = new]
  BY DEF PushLatency
<1> HIDE DEF new
<1>3. latencies'[g][i] = new
  BY <1>2 DEF TypeOK, PoolTypeOK
<1>4. \A h \in Gens, j \in Idx : h # g \/ j # i => latencies'[h][j] = latencies[h][j]
  BY <1>2 DEF TypeOK, PoolTypeOK
<1>5. latencies' \in [Gens -> [Idx -> Seq(Latency)]]
  BY <1>1, <1>2 DEF TypeOK, PoolTypeOK
<1> QED
  BY <1>1, <1>3, <1>4, <1>5, Zenon DEF TypeOK, PoolTypeOK

-----------------------------------------------------------------------------
(* Connections that a step does not touch.                                 *)

\* A step that leaves connection d, its guard, the Peers it refers to and,
\* while it picks, the published Peers alone keeps its invariant.
LEMMA ConnFrame ==
  ASSUME NEW d \in Conns, ConnOK(d),
         gen[d] \in Nat, loads \in Nat, loads' \in Nat, loads <= loads',
         conn'[d] = conn[d], gen'[d] = gen[d], idx'[d] = idx[d], nth'[d] = nth[d],
         resort'[d] = resort[d], steady'[d] = steady[d],
         task["new"] = "done" => task'["new"] = "done",
         conn[d] \in Picking => peers' = peers /\ (d \in readers => d \in readers'),
         gen[d] > 0 => count'[gen[d]] = count[gen[d]] /\ latencies'[gen[d]] = latencies[gen[d]]
  PROVE  ConnOK(d)'
<1>1. ConnRefs(d)'
  BY DEF ConnOK, ConnRefs
<1>2. ConnInRange(d)'
  BY DEF ConnOK, ConnRefs, ConnInRange, Picking
<1>3. ConnSteady(d)'
  BY DEF ConnOK, ConnRefs, ConnSteady, Picking, Alive
<1> QED
  BY <1>1, <1>2, <1>3 DEF ConnOK

\* The common case: the pool is not written.
LEMMA ConnStutter ==
  ASSUME Inv, NEW d \in Conns, UNCHANGED <<peers, loads, count, latencies>>,
         conn'[d] = conn[d], gen'[d] = gen[d], idx'[d] = idx[d], nth'[d] = nth[d],
         resort'[d] = resort[d], steady'[d] = steady[d],
         task["new"] = "done" => task'["new"] = "done",
         d \in readers => d \in readers'
  PROVE  ConnOK(d)'
<1>1. /\ ConnOK(d)
      /\ gen[d] \in Nat /\ loads \in Nat
  BY DEF Inv, TypeOK, ConnTypeOK, PoolTypeOK
<1>2. loads <= loads
  BY <1>1
<1> QED
  BY <1>1, <1>2, ConnFrame

\* A push on server i of generation g, the steady servers being revised.
LEMMA ConnPush ==
  ASSUME Inv, NEW g \in Gens, NEW i \in Idx, NEW v \in Latency, PushLatency(g, i, v),
         NEW d \in Conns, UNCHANGED <<peers, loads, count, readers, task>>,
         conn'[d] = conn[d], gen'[d] = gen[d], idx'[d] = idx[d], nth'[d] = nth[d],
         resort'[d] = resort[d], steady'[d] = StillSteady(g, i, v)[d]
  PROVE  ConnOK(d)'
<1>1. ConnOK(d)
  BY DEF Inv
<1>2. ConnRefs(d)' /\ ConnInRange(d)'
  BY <1>1 DEF ConnOK, ConnRefs, ConnInRange
<1>3. ASSUME conn[d] \in Picking, NEW j \in steady'[d]
      PROVE  j \in steady[d] /\ j < count[gen[d]] /\ Alive(gen[d], j)'
  <2>1. j \in steady[d] /\ (gen[d] = g /\ j = i => v # 0)
    BY <1>3 DEF StillSteady
  <2>2. j < count[gen[d]] /\ Alive(gen[d], j)
    BY <1>1, <1>3, <2>1 DEF ConnOK, ConnSteady
  <2>3. gen[d] \in Gens /\ j \in Idx
    BY <1>1, <1>3, <2>1 DEF Inv, TypeOK, ConnTypeOK, ConnOK, ConnRefs, Gens
  <2>4. CASE gen[d] = g /\ j = i
    <3>1. v > 0
      BY <2>1, <2>4 DEF Latency
    <3>2. latencies'[g][i] # <<>> /\ Latest(latencies'[g][i]) = v
      BY PushLatencyFacts DEF Inv
    <3> QED
      BY <2>1, <2>2, <2>4, <3>1, <3>2 DEF Alive
  <2>5. CASE ~(gen[d] = g /\ j = i)
    <3>1. latencies'[gen[d]][j] = latencies[gen[d]][j]
      BY <2>3, <2>5, PushLatencyFacts DEF Inv
    <3> QED
      BY <2>1, <2>2, <3>1 DEF Alive
  <2> QED
    BY <2>4, <2>5
<1>4. ConnSteady(d)'
  <2>1. conn[d] = "connect" => steady'[d] = steady[d]
    BY DEF StillSteady, Picking
  <2> QED
    BY <1>1, <1>3, <2>1 DEF ConnOK, ConnSteady, Picking
<1> QED
  BY <1>2, <1>4 DEF ConnOK

-----------------------------------------------------------------------------
(* check_once.                                                             *)

\* What the three callers of check_once have in common once it returns: the
\* task t leaves its check, no other task's check is disturbed, and no guard
\* but its own is dropped.
LEMMA AfterCheckFacts ==
  ASSUME Inv, NEW t \in Checkers, task[t] \in {"check", "scan"}, AfterCheck(t)
  PROVE  /\ LockTypeOK'
         /\ task' \in [Checkers -> {"off", "load", "exit", "check", "scan", "done",
                                    "sleep", "wait", "dead"}]
         /\ cgen' \in [Checkers -> 0..MaxLoads]
         /\ \A u \in Checkers : cgen'[u] = cgen[u] \/ cgen'[u] = 0
         /\ \A u \in Checkers \ {t} : cgen'[u] = cgen[u]
         /\ \A u \in Checkers : task'[u] \in {"check", "scan"} =>
              u # t /\ task'[u] = task[u] /\ cgen'[u] = cgen[u]
         /\ task'["updater"] = "wait" =>
              /\ t = "updater" \/ task["updater"] = "wait"
              /\ cgen'["updater"] = cgen["updater"]
         /\ t = "new" => task'["new"] = "done" /\ cgen["new"] = peers
         /\ t # "new" => task'["new"] = task["new"] /\ task["new"] = "done"
         /\ task'["checker"] \in {"off", "sleep", "wait", "check", "scan"}
         /\ task'["updater"] \in {"off", "sleep", "load", "check", "scan", "wait", "dead"}
         /\ \A r \in Tasks : r \in readers /\ r # t => r \in readers'
<1>1. /\ readers \subseteq Tasks /\ queue \in Seq(Tasks)
      /\ task \in [Checkers -> {"off", "load", "exit", "check", "scan", "done",
                                "sleep", "wait", "dead"}]
      /\ cgen \in [Checkers -> 0..MaxLoads]
      /\ 0 \in 0..MaxLoads
  BY BoundsAssumption DEF Inv, TypeOK, LockTypeOK, CheckTypeOK
<1>2. /\ t # "new" => task["new"] = "done"
      /\ t = "new" => task["checker"] = "off" /\ task["updater"] = "off"
      /\ t = "new" => cgen["new"] = peers
      /\ task["checker"] \in {"off", "sleep", "wait", "check", "scan"}
      /\ task["updater"] \in {"off", "sleep", "load", "check", "scan", "wait", "dead"}
  BY DEF Inv, Booted, Refs, Checkers
<1>3. CASE t = "new"
  <2>1. /\ task' = [task EXCEPT !["new"] = "done", !["checker"] = "sleep",
                                !["updater"] = "sleep"]
        /\ cgen' = [cgen EXCEPT !["new"] = 0]
        /\ readers' = readers \ {"new"} /\ queue' = queue
    BY <1>3 DEF AfterCheck, Unlock
  <2> QED
    BY <1>1, <1>2, <1>3, <2>1 DEF Checkers, LockTypeOK
<1>4. CASE t = "checker"
  <2>1. /\ task' = [task EXCEPT !["checker"] = "sleep"]
        /\ cgen' = [cgen EXCEPT !["checker"] = 0]
        /\ readers' = readers \ {"checker"} /\ queue' = queue
    BY <1>4 DEF AfterCheck, Unlock
  <2> QED
    BY <1>1, <1>2, <1>4, <2>1 DEF Checkers, LockTypeOK
<1>5. CASE t = "updater"
  <2>1. /\ task' = [task EXCEPT !["updater"] = "wait"]
        /\ cgen' = cgen /\ readers' = readers /\ queue' = Append(queue, "updater")
    BY <1>5 DEF AfterCheck, Enqueue
  <2>2. queue' \in Seq(Tasks)
    BY <1>1, <2>1 DEF Tasks, Checkers
  <2> QED
    BY <1>1, <1>2, <1>5, <2>1, <2>2 DEF Checkers, LockTypeOK
<1> QED
  BY <1>3, <1>4, <1>5 DEF Checkers

\* check_once returns, early or after it stored the best index.
LEMMA CheckReturnsInv ==
  ASSUME Inv, NEW t \in Checkers, task[t] \in {"check", "scan"}, AfterCheck(t),
         AllChecked(cgen[t]),
         UNCHANGED <<peers, loads, count, latencies, pending, connVars, statsVars>>,
         best' \in [Gens -> Idx],
         \A g \in Gens : best'[g] = 0 \/ best'[g] < count[g],
         seen' \in [Checkers -> Seq(Latency)],
         bestIndex' \in [Checkers -> Idx],
         bestLatency' \in [Checkers -> 0..NoLatency],
         \A u \in Checkers \ {t} : seen'[u] = seen[u] /\ bestIndex'[u] = bestIndex[u]
  PROVE  Inv'
<1>1. TypeOK'
  BY AfterCheckFacts, Zenon DEF Inv, TypeOK, PoolTypeOK, LockTypeOK, CheckTypeOK, ConnTypeOK, StatsTypeOK
<1>2. Booted'
  BY AfterCheckFacts DEF Inv, Booted, Checkers
<1>3. Refs'
  <2>1. \A u \in Checkers : cgen'[u] <= loads
    <3> TAKE u \in Checkers
    <3>1. cgen'[u] = cgen[u] \/ cgen'[u] = 0
      BY AfterCheckFacts
    <3>2. loads \in Nat /\ cgen[u] <= loads
      BY DEF Inv, TypeOK, PoolTypeOK, Refs
    <3>3. 0 <= loads
      BY <3>2
    <3> QED
      BY <3>1, <3>2, <3>3, Zenon
  <2>2. /\ \A u \in Checkers : task'[u] \in {"check", "scan"} => cgen'[u] > 0
        /\ task'["updater"] = "wait" => cgen'["updater"] > 0
        /\ task'["new"] \in {"check", "scan"} => cgen'["new"] = peers
    BY AfterCheckFacts, Zenon DEF Inv, Refs, Checkers
  <2> QED
    BY <2>1, <2>2 DEF Inv, Refs
<1>4. Checked'
  BY AfterCheckFacts DEF Inv, Checked, AllChecked, Checkers
<1>5. InRange'
  BY AfterCheckFacts, Zenon DEF Inv, InRange
<1>6. Guarded'
  BY AfterCheckFacts DEF Inv, Guarded, Checkers, Tasks
<1>7. ASSUME NEW d \in Conns PROVE ConnOK(d)'
  <2>1. d \in Tasks /\ d # t
    BY TasksAssumption DEF Tasks
  <2> QED
    BY <2>1, AfterCheckFacts, ConnStutter, Zenon
<1> QED
  BY <1>1, <1>2, <1>3, <1>4, <1>5, <1>6, <1>7 DEF Inv

\* A task that checks works on a Peers that has been built.
LEMMA CheckedGen ==
  ASSUME Inv, NEW t \in Checkers, task[t] \in {"check", "scan"}
  PROVE  cgen[t] \in Gens /\ count[cgen[t]] \in 0..MaxServers
BY SMTT(60) DEF Inv, TypeOK, PoolTypeOK, CheckTypeOK, Refs, Gens

\* The early return of check_once.
LEMMA CheckEmptyInv ==
  ASSUME Inv, NEW t \in Checkers, CheckEmpty(t)
  PROVE  Inv'
<1>1. task[t] = "check" /\ count[cgen[t]] = 0 /\ AfterCheck(t)
  BY DEF CheckEmpty
<1>2. UNCHANGED <<poolVars, pending, seen, bestIndex, bestLatency, connVars, statsVars>>
  BY DEF CheckEmpty
<1>3. AllChecked(cgen[t])
  BY <1>1 DEF AllChecked, Idx
<1> QED
  BY <1>1, <1>2, <1>3, CheckReturnsInv, Zenon
     DEF Inv, TypeOK, PoolTypeOK, CheckTypeOK, InRange

\* The ghost keeps its type.
LEMMA StillSteadyType ==
  ASSUME TypeOK, NEW g, NEW i, NEW v
  PROVE  StillSteady(g, i, v) \in [Conns -> SUBSET Idx]
BY Zenon DEF TypeOK, ConnTypeOK, StillSteady

\* A push empties no history, so what has been checked stays checked.
LEMMA PushKeepsChecked ==
  ASSUME Inv, NEW g \in Gens, NEW i \in Idx, NEW v \in Latency, PushLatency(g, i, v),
         UNCHANGED <<peers, loads, count, task, cgen>>,
         \A t \in Checkers : \A j \in Idx :
           j \in pending[t] => j \in pending'[t] \/ (g = cgen[t] /\ j = i)
  PROVE  Checked'
<1>1. \A h \in Gens, j \in Idx : latencies[h][j] # <<>> => latencies'[h][j] # <<>>
  BY PushLatencyFacts DEF Inv
<1>2. latencies'[g][i] # <<>>
  BY PushLatencyFacts DEF Inv
<1>3. \A t \in Checkers : task[t] \in {"check", "scan"} => cgen[t] \in Gens
  BY CheckedGen
<1>4. task["updater"] = "wait" => cgen["updater"] \in Gens
  BY DEF Inv, Refs, TypeOK, CheckTypeOK, Checkers, Gens
<1>5. task["new"] = "done" => peers \in Gens
  BY DEF Inv, Booted, TypeOK, PoolTypeOK, Gens
<1> QED
  BY <1>1, <1>2, <1>3, <1>4, <1>5 DEF Inv, Checked, AllChecked

\* One of the checks ends and is recorded.
LEMMA CheckUpdateScoreInv ==
  ASSUME Inv, NEW t \in Checkers, NEW i \in Idx, CheckUpdateScore(t, i)
  PROVE  Inv'
<1>1. PICK v \in Latency : /\ PushLatency(cgen[t], i, v)
                           /\ steady' = StillSteady(cgen[t], i, v)
  BY DEF CheckUpdateScore
<1>2. cgen[t] \in Gens
  BY CheckedGen DEF CheckUpdateScore
<1>3. /\ pending' = [pending EXCEPT ![t] = @ \ {i}]
      /\ UNCHANGED <<peers, loads, count, best, lockVars, task, cgen, seen, bestIndex,
                     bestLatency, conn, gen, idx, nth, try, resort, statsVars>>
  BY DEF CheckUpdateScore
<1>4. TypeOK'
  BY <1>1, <1>2, <1>3, PushLatencyFacts, StillSteadyType, Zenon
     DEF Inv, TypeOK, PoolTypeOK, LockTypeOK, CheckTypeOK, ConnTypeOK, StatsTypeOK
<1>5. Booted'
  BY <1>3 DEF Inv, Booted
<1>6. Refs'
  BY <1>3 DEF Inv, Refs
<1>7. Checked'
  BY <1>1, <1>2, <1>3, PushKeepsChecked DEF Inv, TypeOK, CheckTypeOK
<1>8. InRange' /\ Guarded'
  BY <1>3, Zenon DEF Inv, InRange, Guarded
<1>9. ASSUME NEW d \in Conns PROVE ConnOK(d)'
  <2>1. steady'[d] = StillSteady(cgen[t], i, v)[d]
    BY <1>1
  <2> QED
    BY <1>1, <1>2, <1>3, <2>1, ConnPush
<1> QED
  BY <1>4, <1>5, <1>6, <1>7, <1>8, <1>9 DEF Inv

\* All of the checks have ended, so every server has a latency.
LEMMA CollectedInv ==
  ASSUME Inv, NEW t \in Checkers, Collected(t)
  PROVE  Inv'
<1>1. /\ task[t] = "check" /\ count[cgen[t]] > 0 /\ pending[t] = {}
      /\ task' = [task EXCEPT ![t] = "scan"]
      /\ seen' = [seen EXCEPT ![t] = <<>>]
      /\ bestIndex' = [bestIndex EXCEPT ![t] = 0]
      /\ bestLatency' = [bestLatency EXCEPT ![t] = NoLatency]
      /\ UNCHANGED <<poolVars, lockVars, cgen, pending, connVars, statsVars>>
  BY DEF Collected, StartScan
<1>2. task \in [Checkers -> {"off", "load", "exit", "check", "scan", "done",
                             "sleep", "wait", "dead"}]
  BY DEF Inv, TypeOK, CheckTypeOK
<1>3. TypeOK'
  <2>1. 0 \in Idx /\ NoLatency \in 0..NoLatency /\ <<>> \in Seq(Latency)
    BY BoundsAssumption, SMTT(60) DEF Idx, NoLatency
  <2> QED
    BY <1>1, <2>1, Zenon DEF Inv, TypeOK, PoolTypeOK, LockTypeOK, CheckTypeOK, ConnTypeOK, StatsTypeOK
<1>4. Booted'
  BY <1>1, <1>2 DEF Inv, Booted, Checkers
<1>5. Refs'
  BY <1>1, <1>2, Zenon DEF Inv, Refs, Checkers
<1>6. Checked'
  BY <1>1, <1>2 DEF Inv, Checked, AllChecked, Checkers
<1>7. InRange'
  BY <1>1, <1>2, CheckedGen, SMTT(60) DEF Inv, InRange, TypeOK, CheckTypeOK
<1>8. Guarded'
  BY <1>1, <1>2 DEF Inv, Guarded, Checkers
<1>9. ASSUME NEW d \in Conns PROVE ConnOK(d)'
  <2>1. task["new"] = "done" => task'["new"] = "done"
    BY <1>1, <1>2 DEF Checkers
  <2> QED
    BY <1>1, <2>1, ConnStutter
<1> QED
  BY <1>3, <1>4, <1>5, <1>6, <1>7, <1>8, <1>9 DEF Inv

\* The scan reads one more latency, which exists.
LEMMA ScanLatencyInv ==
  ASSUME Inv, NEW t \in Checkers, ScanLatency(t)
  PROVE  Inv'
<1> DEFINE index == Len(seen[t])
           latency == Latest(latencies[cgen[t]][index])
<1>1. /\ task[t] = "scan" /\ index < count[cgen[t]]
      /\ seen' = [seen EXCEPT ![t] = Append(@, latency)]
      /\ bestIndex' = [bestIndex EXCEPT ![t] = IF Better(latency, t) THEN index ELSE @]
      /\ bestLatency' = [bestLatency EXCEPT ![t] = IF Better(latency, t) THEN latency ELSE @]
      /\ UNCHANGED <<poolVars, lockVars, task, cgen, pending, connVars, statsVars>>
  BY DEF ScanLatency
<1>2. /\ seen \in [Checkers -> Seq(Latency)]
      /\ bestIndex \in [Checkers -> Idx]
      /\ bestLatency \in [Checkers -> 0..NoLatency]
  BY DEF Inv, TypeOK, CheckTypeOK
<1>3. index \in Nat /\ index \in Idx
  <2>1. index \in Nat
    BY <1>2, SMTT(60)
  <2>2. count[cgen[t]] \in 0..MaxServers
    BY <1>1, CheckedGen
  <2> QED
    BY <1>1, <2>1, <2>2, Below, Zenon
<1>4. latency \in Latency
  <2>1. latencies[cgen[t]][index] \in Seq(Latency)
    BY <1>1, <1>3, CheckedGen, Zenon DEF Inv, TypeOK, PoolTypeOK
  <2>2. latencies[cgen[t]][index] # <<>>
    BY <1>1, <1>3 DEF Inv, Checked, AllChecked
  <2> QED
    BY <2>1, <2>2, SMTT(60) DEF Latest
<1>5. latency \in 0..NoLatency
  BY <1>4, BoundsAssumption DEF Latency, NoLatency
<1>6. Append(seen[t], latency) \in Seq(Latency) /\ Len(Append(seen[t], latency)) = index + 1
  BY <1>2, <1>4
<1> HIDE DEF index, latency
<1>7. TypeOK'
  BY <1>1, <1>2, <1>3, <1>5, <1>6, Zenon
     DEF Inv, TypeOK, PoolTypeOK, LockTypeOK, CheckTypeOK, ConnTypeOK, StatsTypeOK
<1>8. Booted' /\ Refs' /\ Guarded'
  BY <1>1 DEF Inv, Booted, Refs, Guarded
<1>9. Checked'
  BY <1>1 DEF Inv, Checked, AllChecked
<1>10. InRange'
  <2> SUFFICES ASSUME NEW u \in Checkers, task[u] = "scan"
               PROVE  /\ Len(seen'[u]) <= count[cgen[u]]
                      /\ bestIndex'[u] = 0 \/ bestIndex'[u] < Len(seen'[u])
    BY <1>1, Zenon DEF Inv, InRange
  <2>1. CASE u # t
    BY <1>1, <1>2, <2>1, Zenon DEF Inv, InRange
  <2>2. CASE u = t
    <3>1. seen'[t] = Append(seen[t], latency) /\ bestIndex'[t] \in {index, bestIndex[t]}
      BY <1>1, <1>2, Zenon
    <3>2. count[cgen[t]] \in Nat
      BY <1>1, CheckedGen, LengthFacts, Zenon
    <3>3. bestIndex[t] = 0 \/ bestIndex[t] < index
      BY <1>1 DEF Inv, InRange, index
    <3>4. bestIndex[t] \in Nat
      BY <1>2, SMTT(60) DEF Idx
    <3> QED
      BY <1>1, <1>3, <1>6, <2>2, <3>1, <3>2, <3>3, <3>4
  <2> QED
    BY <2>1, <2>2, Zenon
<1>11. ASSUME NEW d \in Conns PROVE ConnOK(d)'
  BY <1>1, ConnStutter, Zenon
<1> QED
  BY <1>7, <1>8, <1>9, <1>10, <1>11, Zenon DEF Inv

\* The index that is stored names a server of the list.
LEMMA StoreBestInv ==
  ASSUME Inv, NEW t \in Checkers, StoreBest(t)
  PROVE  Inv'
<1>1. /\ task[t] = "scan" /\ Len(seen[t]) = count[cgen[t]]
      /\ best' = [best EXCEPT ![cgen[t]] = bestIndex[t]]
      /\ AfterCheck(t)
      /\ seen' = [seen EXCEPT ![t] = <<>>]
      /\ bestIndex' = [bestIndex EXCEPT ![t] = 0]
      /\ bestLatency' = [bestLatency EXCEPT ![t] = NoLatency]
      /\ UNCHANGED <<peers, loads, count, latencies, pending, connVars, statsVars>>
  BY Zenon DEF StoreBest, StartScan
<1>2. AllChecked(cgen[t])
  BY <1>1, Zenon DEF Inv, Checked
<1>3. bestIndex[t] = 0 \/ bestIndex[t] < count[cgen[t]]
  BY <1>1, Zenon DEF Inv, InRange
<1>4. best' \in [Gens -> Idx] /\ \A g \in Gens : best'[g] = 0 \/ best'[g] < count[g]
  BY <1>1, <1>3, CheckedGen DEF Inv, InRange, TypeOK, PoolTypeOK, CheckTypeOK
<1>5. /\ seen' \in [Checkers -> Seq(Latency)]
      /\ bestIndex' \in [Checkers -> Idx]
      /\ bestLatency' \in [Checkers -> 0..NoLatency]
      /\ \A u \in Checkers \ {t} : seen'[u] = seen[u] /\ bestIndex'[u] = bestIndex[u]
  <2>1. 0 \in Idx /\ NoLatency \in 0..NoLatency /\ <<>> \in Seq(Latency)
    BY BoundsAssumption DEF Idx, NoLatency
  <2> QED
    BY <1>1, <2>1 DEF Inv, TypeOK, CheckTypeOK
<1> QED
  BY <1>1, <1>2, <1>4, <1>5, CheckReturnsInv, Zenon

\* check_once keeps the invariant, whoever runs it.
LEMMA CheckOnceInv ==
  ASSUME Inv, NEW t \in Checkers, CheckOnce(t)
  PROVE  Inv'
BY CheckEmptyInv, CheckUpdateScoreInv, CollectedInv, ScanLatencyInv, StoreBestInv DEF CheckOnce

-----------------------------------------------------------------------------
(* Upstream::new and its tasks.                                            *)

\* A new Peers disturbs none of the existing ones.  It is built by task t,
\* which begins to check it; `new` publishes it at the same time.
LEMMA NewPeersInv ==
  ASSUME Inv, NEW t \in {"new", "updater"}, NEW n \in 0..MaxServers,
         task[t] = "load",
         NewPeers(n), StartCheck(t, loads + 1, n),
         task' = [task EXCEPT ![t] = "check"],
         IF t = "new" THEN peers' = loads + 1 ELSE peers' = peers,
         IF t = "new" THEN readers' = readers \cup {"new"} ELSE readers' = readers,
         UNCHANGED <<queue, seen, bestIndex, bestLatency, connVars, statsVars>>
  PROVE  Inv'
<1> DEFINE g == loads + 1
<1>1. /\ loads' = g
      /\ count' = [count EXCEPT ![g] = n]
      /\ cgen' = [cgen EXCEPT ![t] = g]
      /\ pending' = [pending EXCEPT ![t] = 0..(n - 1)]
      /\ UNCHANGED <<best, latencies>>
  BY DEF NewPeers, StartCheck
<1>2. /\ loads \in Nat /\ g \in Gens /\ g > loads /\ t \in Checkers
      /\ \A h \in Gens : h <= loads => h # g
  BY BoundsAssumption DEF Inv, TypeOK, PoolTypeOK, NewPeers, Gens, Checkers
<1>3. /\ count \in [Gens -> 0..MaxServers]
      /\ task \in [Checkers -> {"off", "load", "exit", "check", "scan", "done",
                                "sleep", "wait", "dead"}]
      /\ cgen \in [Checkers -> 0..MaxLoads]
      /\ pending \in [Checkers -> SUBSET Idx]
      /\ peers \in 0..MaxLoads
  BY DEF Inv, TypeOK, PoolTypeOK, CheckTypeOK
<1>4. /\ t = "new" => task["checker"] = "off" /\ task["updater"] = "off"
      /\ t = "updater" => task["new"] = "done" /\ peers > 0
  BY DEF Inv, Booted
<1> HIDE DEF g
<1>5. TypeOK'
  <2>1. g \in 0..MaxLoads /\ 0..(n - 1) \in SUBSET Idx
    BY <1>2, BoundsAssumption DEF Gens, Idx
  <2>2. PoolTypeOK'
    BY <1>1, <1>2, <2>1 DEF Inv, TypeOK, PoolTypeOK, g
  <2>3. CheckTypeOK'
    BY <1>1, <1>2, <2>1 DEF Inv, TypeOK, CheckTypeOK
  <2>4. LockTypeOK'
    BY Zenon DEF Inv, TypeOK, LockTypeOK, Tasks, Checkers
  <2> QED
    BY <2>2, <2>3, <2>4 DEF Inv, TypeOK, ConnTypeOK, StatsTypeOK
<1>6. Booted'
  BY <1>2, <1>3, <1>4 DEF Inv, Booted, Checkers, g
<1>7. Refs'
  <2>1. peers' <= g /\ (t = "new" => peers' = g)
    BY <1>2, <1>3 DEF Inv, Refs, g
  <2>2. \A u \in Checkers : u # t => cgen'[u] = cgen[u] /\ task'[u] = task[u]
    BY <1>1, <1>3
  <2>3. cgen'[t] = g /\ task'[t] = "check"
    BY <1>1, <1>2, <1>3
  <2>4. \A u \in Checkers : cgen'[u] <= g
    <3> TAKE u \in Checkers
    <3>1. CASE u = t
      BY <1>2, <2>3, <3>1 DEF g
    <3>2. CASE u # t
      BY <1>2, <1>3, <2>2, <3>2 DEF Inv, Refs, g
    <3> QED
      BY <3>1, <3>2
  <2>5. \A u \in Checkers : task'[u] \in {"check", "scan"} => cgen'[u] > 0
    BY <1>2, <2>2, <2>3 DEF Inv, Refs, g
  <2>6. /\ task'["updater"] = "wait" => cgen'["updater"] > 0
        /\ task'["new"] \in {"check", "scan"} => cgen'["new"] = peers'
    BY <1>4, <2>1, <2>2, <2>3 DEF Inv, Refs, Checkers
  <2> QED
    BY <1>1, <2>1, <2>4, <2>5, <2>6 DEF Refs
<1>8. /\ \A h \in Gens : h <= loads => count'[h] = count[h]
      /\ count'[g] = n
  BY <1>1, <1>2, <1>3
<1>9. /\ \A u \in Checkers : task'[u] \in {"check", "scan"} /\ u # t =>
           /\ task[u] = task'[u] /\ cgen'[u] = cgen[u] /\ pending'[u] = pending[u]
           /\ count'[cgen[u]] = count[cgen[u]]
      /\ cgen'[t] = g /\ task'[t] = "check" /\ pending'[t] = 0..(n - 1)
  <2>1. \A u \in Checkers : task[u] \in {"check", "scan"} => cgen[u] \in Gens /\ cgen[u] <= loads
    BY CheckedGen, Zenon DEF Inv, Refs
  <2> QED
    BY <1>1, <1>2, <1>3, <1>8, <2>1
<1>10. Checked'
  <2>1. \A u \in Checkers : task'[u] = "check" =>
          \A i \in Idx : i < count'[cgen'[u]] =>
            i \in pending'[u] \/ latencies'[cgen'[u]][i] # <<>>
    BY <1>1, <1>8, <1>9, SMTT(60) DEF Inv, Checked, Idx
  <2>2. \A u \in Checkers : task'[u] = "scan" => AllChecked(cgen[u])' /\ cgen'[u] = cgen[u]
    BY <1>1, <1>9 DEF Inv, Checked, AllChecked
  <2>3. task'["updater"] # "wait"
    BY <1>3, <1>4, Zenon DEF Checkers
  <2>4. task'["new"] = "done" => AllChecked(peers)'
    <3> HAVE task'["new"] = "done"
    <3>1. t = "updater" /\ task["new"] = "done" /\ peers' = peers
      BY <1>3, Zenon DEF Checkers
    <3>2. count'[peers] = count[peers]
      BY <1>3, <1>4, <1>8, <3>1, SMTT(60) DEF Inv, Refs, Gens
    <3> QED
      BY <1>1, <3>1, <3>2 DEF Inv, Checked, AllChecked
  <2> QED
    BY <2>1, <2>2, <2>3, <2>4, Zenon DEF Checked, AllChecked
<1>11. InRange'
  <2>1. \A h \in Gens : h > g => count'[h] = 0
    BY <1>1, <1>2, <1>3 DEF Inv, InRange, g, Gens
  <2>2. \A h \in Gens : best[h] = 0 \/ best[h] < count'[h]
    <3>1. best[g] = 0
      BY <1>2 DEF Inv, InRange, TypeOK, PoolTypeOK, Idx
    <3> QED
      BY <1>1, <1>2, <1>3, <3>1 DEF Inv, InRange
  <2>3. \A u \in Checkers : task'[u] = "scan" =>
          /\ Len(seen[u]) <= count'[cgen'[u]]
          /\ bestIndex[u] = 0 \/ bestIndex[u] < Len(seen[u])
    BY <1>9, Zenon DEF Inv, InRange
  <2> QED
    BY <1>1, <2>1, <2>2, <2>3, Zenon DEF InRange
<1>12. Guarded'
  BY <1>1, <1>3, <1>4, Zenon DEF Inv, Guarded, Checkers
<1>13. ASSUME NEW d \in Conns PROVE ConnOK(d)'
  <2>1. /\ ConnOK(d) /\ gen[d] \in 0..MaxLoads
    BY DEF Inv, TypeOK, ConnTypeOK
  <2>2. gen[d] > 0 => count'[gen[d]] = count[gen[d]]
    BY <1>8, <2>1 DEF ConnOK, ConnRefs, Gens
  <2>3. conn[d] \in Picking => task["new"] = "done" /\ t = "updater"
    BY <1>4, <2>1 DEF ConnOK, ConnRefs, Picking
  <2>4. /\ task["new"] = "done" => task'["new"] = "done"
        /\ loads' \in Nat /\ loads <= loads'
    BY <1>1, <1>2, <1>3 DEF g, Checkers
  <2> QED
    BY <1>1, <1>2, <2>1, <2>2, <2>3, <2>4, ConnFrame
<1> QED
  BY <1>5, <1>6, <1>7, <1>10, <1>11, <1>12, <1>13 DEF Inv

\* Steps between two checks that move a task and leave the pool alone.
LEMMA TaskStepInv ==
  ASSUME Inv, NEW t \in Checkers, NEW pc, task' = [task EXCEPT ![t] = pc],
         \/ t = "new" /\ task[t] = "load" /\ pc = "exit"
         \/ t = "checker" /\ task[t] = "sleep" /\ pc = "wait"
         \/ t = "updater" /\ task[t] \in {"sleep", "load"} /\ pc \in {"sleep", "load", "dead"},
         queue' \in Seq(Tasks),
         UNCHANGED <<poolVars, readers, cgen, pending, seen, bestIndex, bestLatency,
                     connVars, statsVars>>
  PROVE  Inv'
<1>1. /\ task \in [Checkers -> {"off", "load", "exit", "check", "scan", "done",
                                "sleep", "wait", "dead"}]
      /\ \A u \in Checkers : task'[u] \in {"check", "scan"} => task[u] = task'[u]
      /\ task'["updater"] # "wait" \/ task["updater"] = "wait"
      /\ task'["new"] = "done" <=> task["new"] = "done"
      /\ task'["new"] \in {"check", "scan"} => task["new"] = task'["new"]
  BY Zenon DEF Inv, TypeOK, CheckTypeOK, Checkers
<1>2. TypeOK'
  BY <1>1, Zenon DEF Inv, TypeOK, PoolTypeOK, LockTypeOK, CheckTypeOK, ConnTypeOK, StatsTypeOK
<1>3. Booted'
  BY <1>1, Zenon DEF Inv, Booted, Checkers
<1>4. Refs' /\ Guarded'
  BY <1>1, Zenon DEF Inv, Refs, Guarded, Checkers
<1>5. Checked'
  BY <1>1, Zenon DEF Inv, Checked, AllChecked
<1>6. InRange'
  BY <1>1 DEF Inv, InRange
<1>7. ASSUME NEW d \in Conns PROVE ConnOK(d)'
  BY <1>1, ConnStutter, Zenon
<1> QED
  BY <1>2, <1>3, <1>4, <1>5, <1>6, <1>7 DEF Inv

\* The first load fails, or its list is published and checked.
LEMMA NewLoadInv ==
  ASSUME Inv, NewLoad
  PROVE  Inv'
<1>1. /\ task["new"] = "load" /\ "new" \in Checkers
      /\ UNCHANGED <<queue, seen, bestIndex, bestLatency, connVars, statsVars>>
  BY DEF NewLoad, Checkers
<1>2. CASE /\ task' = [task EXCEPT !["new"] = "exit"]
           /\ UNCHANGED <<poolVars, readers, cgen, pending>>
  <2>1. queue' \in Seq(Tasks)
    BY <1>1 DEF Inv, TypeOK, LockTypeOK
  <2> QED
    BY <1>1, <1>2, <2>1, TaskStepInv, Zenon
<1>3. CASE \E n \in 0..MaxServers :
             /\ NewPeers(n)
             /\ peers' = loads + 1
             /\ readers' = readers \cup {"new"}
             /\ task' = [task EXCEPT !["new"] = "check"]
             /\ StartCheck("new", loads + 1, n)
  BY <1>1, <1>3, NewPeersInv
<1> QED
  BY <1>2, <1>3 DEF NewLoad

\* The checker wakes up, and the updater does.
LEMMA WakeInv ==
  ASSUME Inv, CheckerWake \/ UpdaterWake
  PROVE  Inv'
<1>1. queue \in Seq(Tasks) /\ "checker" \in Tasks /\ {"checker", "updater"} \subseteq Checkers
  BY DEF Inv, TypeOK, LockTypeOK, Tasks, Checkers
<1>2. CASE CheckerWake
  <2>1. queue' \in Seq(Tasks)
    BY <1>1, <1>2 DEF CheckerWake, Enqueue
  <2> QED
    BY <1>1, <1>2, <2>1, TaskStepInv, Zenon DEF CheckerWake
<1>3. CASE UpdaterWake
  BY <1>1, <1>3, TaskStepInv, Zenon DEF UpdaterWake
<1> QED
  BY <1>2, <1>3

\* The updater's load fails, panics, or yields a list that is checked before
\* anybody else sees it.
LEMMA UpdaterLoadInv ==
  ASSUME Inv, UpdaterLoad
  PROVE  Inv'
<1>1. /\ task["updater"] = "load" /\ "updater" \in Checkers
      /\ UNCHANGED <<lockVars, seen, bestIndex, bestLatency, connVars, statsVars>>
  BY DEF UpdaterLoad, Checkers
<1>2. CASE /\ \E pc \in {"sleep", "dead"} : task' = [task EXCEPT !["updater"] = pc]
           /\ UNCHANGED <<poolVars, cgen, pending>>
  <2>1. PICK pc \in {"sleep", "dead"} : task' = [task EXCEPT !["updater"] = pc]
    BY <1>2, Zenon
  <2>2. queue' \in Seq(Tasks)
    BY <1>1 DEF Inv, TypeOK, LockTypeOK
  <2> QED
    BY <1>1, <1>2, <2>1, <2>2, TaskStepInv, Zenon
<1>3. CASE \E n \in 0..MaxServers :
             /\ NewPeers(n)
             /\ UNCHANGED peers
             /\ task' = [task EXCEPT !["updater"] = "check"]
             /\ StartCheck("updater", loads + 1, n)
  BY <1>1, <1>3, NewPeersInv
<1> QED
  BY <1>2, <1>3 DEF UpdaterLoad

\* The checker gets its guard and starts on the published Peers.
LEMMA CheckerLockInv ==
  ASSUME Inv, CheckerLock
  PROVE  Inv'
<1>1. /\ task["checker"] = "wait" /\ queue # <<>>
      /\ queue' = Tail(queue) /\ readers' = readers \cup {"checker"}
      /\ task' = [task EXCEPT !["checker"] = "check"]
      /\ cgen' = [cgen EXCEPT !["checker"] = peers]
      /\ pending' = [pending EXCEPT !["checker"] = 0..(count[peers] - 1)]
      /\ UNCHANGED <<poolVars, seen, bestIndex, bestLatency, connVars, statsVars>>
  BY DEF CheckerLock, LockRead, First, StartCheck
<1>2. /\ task \in [Checkers -> {"off", "load", "exit", "check", "scan", "done",
                                "sleep", "wait", "dead"}]
      /\ cgen \in [Checkers -> 0..MaxLoads]
      /\ pending \in [Checkers -> SUBSET Idx]
      /\ "checker" \in Checkers /\ "checker" \in Tasks
  BY Zenon DEF Inv, TypeOK, CheckTypeOK, Checkers, Tasks
<1>3. task["new"] = "done" /\ peers > 0 /\ peers \in Gens /\ count[peers] \in 0..MaxServers
  BY <1>1 DEF Inv, Booted, TypeOK, PoolTypeOK, Gens
<1>4. TypeOK'
  <2>1. 0..(count[peers] - 1) \in SUBSET Idx /\ peers \in 0..MaxLoads
    BY <1>3, BoundsAssumption DEF Idx, Gens
  <2>2. queue' \in Seq(Tasks)
    BY <1>1 DEF Inv, TypeOK, LockTypeOK
  <2>3. LockTypeOK'
    BY <1>1, <1>2, <2>2, Zenon DEF Inv, TypeOK, LockTypeOK
  <2> QED
    BY <1>1, <2>1, <2>3, Zenon
       DEF Inv, TypeOK, PoolTypeOK, CheckTypeOK, ConnTypeOK, StatsTypeOK
<1>5. Booted'
  BY <1>1, <1>2, Zenon DEF Inv, Booted, Checkers
<1>6. Refs' /\ Guarded'
  BY <1>1, <1>2, <1>3, Zenon DEF Inv, Refs, Guarded, Checkers
<1>7. Checked'
  <2>1. \A i \in Idx : i < count[peers] => i \in 0..(count[peers] - 1)
    BY <1>3, SMTT(60) DEF Idx
  <2> QED
    BY <1>1, <1>2, <2>1 DEF Inv, Checked, AllChecked, Checkers
<1>8. InRange'
  BY <1>1, <1>2, Zenon DEF Inv, InRange, Checkers
<1>9. ASSUME NEW d \in Conns PROVE ConnOK(d)'
  <2>1. task'["new"] = task["new"]
    BY <1>1, <1>2, Zenon DEF Checkers
  <2> QED
    BY <1>1, <2>1, ConnStutter
<1> QED
  BY <1>4, <1>5, <1>6, <1>7, <1>8, <1>9, Zenon DEF Inv

\* The updater swaps the Peers when nobody holds a guard: no pick and no check
\* of the checker is under way, and the new Peers has been checked.
LEMMA UpdaterPublishInv ==
  ASSUME Inv, UpdaterPublish
  PROVE  Inv'
<1>1. /\ task["updater"] = "wait" /\ queue # <<>> /\ readers = {}
      /\ queue' = Tail(queue)
      /\ peers' = cgen["updater"]
      /\ task' = [task EXCEPT !["updater"] = "sleep"]
      /\ cgen' = [cgen EXCEPT !["updater"] = 0]
      /\ UNCHANGED <<loads, count, best, latencies, readers, pending, seen, bestIndex,
                     bestLatency, connVars, statsVars>>
  BY Zenon DEF UpdaterPublish, First
<1>2. /\ task \in [Checkers -> {"off", "load", "exit", "check", "scan", "done",
                                "sleep", "wait", "dead"}]
      /\ cgen \in [Checkers -> 0..MaxLoads]
      /\ "updater" \in Checkers
      /\ task["new"] = "done"
      /\ cgen["updater"] \in 1..loads
      /\ loads \in Nat
  BY <1>1, SMTT(60) DEF Inv, TypeOK, PoolTypeOK, CheckTypeOK, Booted, Refs, Checkers
<1>3. TypeOK'
  <2>1. queue' \in Seq(Tasks) /\ 0 \in 0..MaxLoads
    BY <1>1, BoundsAssumption DEF Inv, TypeOK, LockTypeOK
  <2> QED
    BY <1>1, <1>2, <2>1, Zenon
       DEF Inv, TypeOK, PoolTypeOK, LockTypeOK, CheckTypeOK, ConnTypeOK, StatsTypeOK
<1>4. Booted'
  BY <1>1, <1>2, SMTT(60) DEF Inv, Booted, Checkers
<1>5. Refs' /\ Guarded'
  <2>1. \A u \in Checkers : cgen'[u] <= loads
    BY <1>1, <1>2, SMTT(60) DEF Inv, Refs
  <2> QED
    BY <1>1, <1>2, <2>1 DEF Inv, Refs, Guarded, Checkers
<1>6. Checked'
  BY <1>1, <1>2, Zenon DEF Inv, Checked, AllChecked, Checkers
<1>7. InRange'
  BY <1>1, <1>2 DEF Inv, InRange, Checkers
<1>8. ASSUME NEW d \in Conns PROVE ConnOK(d)'
  <2>1. ConnOK(d) /\ gen[d] \in Nat
    BY DEF Inv, TypeOK, ConnTypeOK
  <2>2. conn[d] \notin Picking
    BY <1>1, <2>1, Zenon DEF ConnOK, ConnRefs
  <2>3. task'["new"] = "done" /\ loads <= loads
    BY <1>1, <1>2, SMTT(60) DEF Checkers
  <2> QED
    BY <1>1, <1>2, <2>1, <2>2, <2>3, ConnFrame, Zenon
<1> QED
  BY <1>3, <1>4, <1>5, <1>6, <1>7, <1>8 DEF Inv

-----------------------------------------------------------------------------
(* Relay connections.                                                      *)

\* Only the entries of connection c change.
OnlyConn(c) ==
  \A d \in Conns \ {c} :
    /\ conn'[d] = conn[d] /\ gen'[d] = gen[d] /\ idx'[d] = idx[d]
    /\ nth'[d] = nth[d] /\ resort'[d] = resort[d]

\* A step of connection c that does not write the pool.
LEMMA ConnStepInv ==
  ASSUME Inv, NEW c \in Conns, UNCHANGED <<poolVars, checkVars, statsVars>>,
         LockTypeOK', ConnTypeOK',
         OnlyConn(c), \A d \in Conns \ {c} : steady'[d] = steady[d],
         \A r \in Tasks \ {c} : r \in readers => r \in readers',
         ConnOK(c)'
  PROVE  Inv'
<1>1. TypeOK'
  BY Zenon DEF Inv, TypeOK, PoolTypeOK, CheckTypeOK, StatsTypeOK
<1>2. Booted' /\ Refs' /\ InRange'
  BY Zenon DEF Inv, Booted, Refs, InRange
<1>3. Checked'
  BY DEF Inv, Checked, AllChecked
<1>4. Guarded'
  <2>1. "checker" \in Tasks \ {c}
    BY TasksAssumption, Zenon DEF Tasks, Checkers
  <2> QED
    BY <2>1, Zenon DEF Inv, Guarded
<1>5. ASSUME NEW d \in Conns PROVE ConnOK(d)'
  <2>1. CASE d = c
    BY <2>1, Zenon
  <2>2. CASE d # c
    <3>1. d \in readers => d \in readers'
      BY <2>2 DEF Tasks
    <3> QED
      BY <2>2, <3>1, ConnStutter, Zenon DEF OnlyConn
  <2> QED
    BY <2>1, <2>2, Zenon
<1> QED
  BY <1>1, <1>2, <1>3, <1>4, <1>5 DEF Inv

\* A step of connection c that reports a failure of server i of generation g.
LEMMA ConnPushInv ==
  ASSUME Inv, NEW c \in Conns, NEW g \in Gens, NEW i \in Idx, PushLatency(g, i, 0),
         UNCHANGED <<peers, loads, count, best, lockVars, checkVars, statsVars>>,
         ConnTypeOK', OnlyConn(c),
         \A d \in Conns \ {c} : steady'[d] = StillSteady(g, i, 0)[d],
         ConnOK(c)'
  PROVE  Inv'
<1>1. 0 \in Latency
  BY Zeros, Zenon
<1>2. TypeOK'
  BY <1>1, PushLatencyFacts, Zenon
     DEF Inv, TypeOK, PoolTypeOK, LockTypeOK, CheckTypeOK, StatsTypeOK
<1>3. Booted' /\ Refs' /\ InRange' /\ Guarded'
  BY Zenon DEF Inv, Booted, Refs, InRange, Guarded
<1>4. Checked'
  BY <1>1, PushKeepsChecked, Zenon
<1>5. ASSUME NEW d \in Conns PROVE ConnOK(d)'
  BY <1>1, ConnPush, Zenon DEF OnlyConn
<1> QED
  BY <1>2, <1>3, <1>4, <1>5, Zenon DEF Inv

\* A connection that has no server and runs after `new`.
LEMMA ConnRestOK ==
  ASSUME Inv, NEW c \in Conns, loads' = loads, task'["new"] = "done",
         conn'[c] \in {"idle", "want", "wait", "noproxy"}, gen'[c] \in {0, gen[c]}
  PROVE  ConnOK(c)'
<1>1. gen'[c] <= loads'
  <2>1. 0 <= loads
    <3>1. loads \in 0..MaxLoads
      BY Zenon DEF Inv, TypeOK, PoolTypeOK
    <3> QED
      BY <3>1, GensFacts, Zenon
  <2>2. gen[c] <= loads
    BY Zenon DEF Inv, ConnOK, ConnRefs
  <2> QED
    BY <2>1, <2>2, Zenon
<1>2. ConnRefs(c)'
  BY <1>1, Zenon DEF ConnRefs, Picking
<1> QED
  BY <1>2, Zenon DEF ConnOK, ConnInRange, ConnSteady, Picking

\* A connection that is under way runs after `new`.
LEMMA ConnStarted ==
  ASSUME Inv, NEW c \in Conns, conn[c] # "idle"
  PROVE  task["new"] = "done"
BY Zenon DEF Inv, ConnOK, ConnRefs

\* A connection is accepted and sniffed.
LEMMA AcceptInv ==
  ASSUME Inv, NEW c \in Conns, Accept(c)
  PROVE  Inv'
<1>1. PICK pc \in {"idle", "want"} : conn' = [conn EXCEPT ![c] = pc]
  BY Zenon DEF Accept
<1>2. /\ task["new"] = "done"
      /\ try' = [try EXCEPT ![c] = 1]
      /\ gen' = [gen EXCEPT ![c] = 0]
      /\ idx' = [idx EXCEPT ![c] = 0]
      /\ resort' = [resort EXCEPT ![c] = FALSE]
      /\ steady' = [steady EXCEPT ![c] = {}]
      /\ UNCHANGED <<poolVars, lockVars, checkVars, nth, statsVars>>
  BY DEF Accept, DropServer, DropPick
<1>3. LockTypeOK'
  BY <1>2, Zenon DEF Inv, TypeOK, LockTypeOK
<1>4. ConnTypeOK'
  <2>1. 0 \in 0..MaxLoads /\ 0 \in 0..MaxServers /\ 1 \in 1..ATTEMPTS
    BY BoundsAssumption, SMTT(60)
  <2> QED
    BY <1>1, <1>2, <2>1 DEF Inv, TypeOK, ConnTypeOK, Ended
<1>5. OnlyConn(c) /\ \A d \in Conns \ {c} : steady'[d] = steady[d]
  BY <1>1, <1>2 DEF Inv, TypeOK, ConnTypeOK, OnlyConn
<1>6. ConnOK(c)'
  <2>1. conn'[c] \in {"idle", "want"} /\ gen'[c] = 0
    BY <1>1, <1>2 DEF Inv, TypeOK, ConnTypeOK
  <2> QED
    BY <1>2, <2>1, ConnRestOK
<1> QED
  BY <1>2, <1>3, <1>4, <1>5, <1>6, ConnStepInv

\* A pick asks for a read guard.
LEMMA PickWaitInv ==
  ASSUME Inv, NEW c \in Conns, PickWait(c)
  PROVE  Inv'
<1>1. /\ conn[c] = "want"
      /\ conn' = [conn EXCEPT ![c] = "wait"]
      /\ queue' = Append(queue, c)
      /\ UNCHANGED <<poolVars, readers, checkVars, gen, idx, nth, try, resort, steady, statsVars>>
  BY DEF PickWait, Enqueue
<1>2. LockTypeOK'
  <2>1. queue' \in Seq(Tasks)
    BY <1>1, SMTT(60) DEF Inv, TypeOK, LockTypeOK, Tasks
  <2> QED
    BY <1>1, <2>1 DEF Inv, TypeOK, LockTypeOK
<1>3. ConnTypeOK'
  BY <1>1, Zenon DEF Inv, TypeOK, ConnTypeOK
<1>4. OnlyConn(c) /\ \A d \in Conns \ {c} : steady'[d] = steady[d]
  BY <1>1 DEF Inv, TypeOK, ConnTypeOK, OnlyConn
<1>5. ConnOK(c)'
  <2>1. conn'[c] = "wait" /\ gen'[c] = gen[c]
    BY <1>1, Zenon DEF Inv, TypeOK, ConnTypeOK
  <2> QED
    BY <1>1, <2>1, ConnStarted, ConnRestOK, Zenon
<1> QED
  BY <1>1, <1>2, <1>3, <1>4, <1>5, ConnStepInv

\* The guard is granted: the pick starts on the published Peers, with an index
\* in range, and the servers alive now are the steady ones.
LEMMA PickLockInv ==
  ASSUME Inv, NEW c \in Conns, PickLock(c)
  PROVE  Inv'
<1> DEFINE pc == IF LbType = "Best" THEN "best" ELSE "etld"
<1>1. /\ conn[c] = "wait" /\ queue # <<>>
      /\ queue' = Tail(queue) /\ readers' = readers \cup {c}
      /\ conn' = [conn EXCEPT ![c] = pc]
      /\ gen' = [gen EXCEPT ![c] = peers]
      /\ idx' = [idx EXCEPT ![c] = best[peers]]
      /\ nth' = [nth EXCEPT ![c] = 0]
      /\ steady' = [steady EXCEPT ![c] = AliveIn(peers)]
      /\ UNCHANGED <<poolVars, checkVars, try, resort, statsVars>>
  BY DEF PickLock, LockRead, First
<1>2. pc \in {"best", "etld"}
  OBVIOUS
<1> HIDE DEF pc
<1>3. task["new"] = "done" /\ peers > 0 /\ peers \in Gens /\ peers <= loads
  <2>1. task["new"] = "done"
    BY <1>1, ConnStarted
  <2> QED
    BY <2>1 DEF Inv, Booted, Refs, TypeOK, PoolTypeOK, Gens
<1>4. LockTypeOK'
  <2>1. queue' \in Seq(Tasks)
    BY <1>1, SMTT(60) DEF Inv, TypeOK, LockTypeOK
  <2> QED
    BY <1>1, <2>1 DEF Inv, TypeOK, LockTypeOK, Tasks
<1>5. ConnTypeOK'
  <2>1. /\ best[peers] \in 0..MaxServers /\ 0 \in 0..PROBES /\ peers \in 0..MaxLoads
        /\ AliveIn(peers) \in SUBSET Idx
    BY <1>3, BoundsAssumption, SMTT(60) DEF Inv, TypeOK, PoolTypeOK, Idx, AliveIn
  <2> QED
    BY <1>1, <1>2, <2>1 DEF Inv, TypeOK, ConnTypeOK, Picking
<1>6. OnlyConn(c) /\ \A d \in Conns \ {c} : steady'[d] = steady[d]
  BY <1>1 DEF Inv, TypeOK, ConnTypeOK, OnlyConn
<1>7. ConnOK(c)'
  <2>1. /\ conn'[c] \in {"best", "etld"} /\ gen'[c] = peers /\ idx'[c] = best[peers]
        /\ nth'[c] = 0 /\ steady'[c] = AliveIn(peers)
    BY <1>1, <1>2, Zenon DEF Inv, TypeOK, ConnTypeOK
  <2>2. ConnRefs(c)'
    BY <1>1, <1>3, <2>1, Zenon DEF ConnRefs
  <2>3. ConnInRange(c)'
    BY <1>1, <1>3, <2>1, SMTT(60) DEF Inv, InRange, ConnInRange
  <2>4. ConnSteady(c)'
    BY <1>1, <2>1 DEF ConnSteady, AliveIn, Alive
  <2> QED
    BY <2>2, <2>3, <2>4, Zenon DEF ConnOK
<1> QED
  BY <1>1, <1>4, <1>5, <1>6, <1>7, ConnStepInv, Zenon

\* What the steps of a pick under its guard have in common: they change the
\* program counter, the index, the number of probes and whether the server is
\* the last resort, and at most drop the guard.
LEMMA PickStepInv ==
  ASSUME Inv, NEW c \in Conns, conn[c] \in Picking, PickUnchanged,
         NEW pc \in {"best", "etld", "scan", "connect", "panicked"},
         NEW i \in 0..MaxServers, NEW n \in 0..PROBES, NEW last \in BOOLEAN,
         conn' = [conn EXCEPT ![c] = pc],
         idx' = [idx EXCEPT ![c] = i],
         nth' = [nth EXCEPT ![c] = n],
         resort' = [resort EXCEPT ![c] = last],
         readers' = IF pc \in Picking THEN readers ELSE readers \ {c},
         pc = "best" => i = 0 \/ i < count[gen[c]],
         pc = "etld" => count[gen[c]] > 0,
         pc = "scan" => count[gen[c]] > 0 /\ i <= count[gen[c]] /\ \A j \in steady[c] : i <= j,
         pc = "connect" => i < count[gen[c]] /\ (last => steady[c] = {}),
         pc = "panicked" => count[gen[c]] = 0
  PROVE  Inv'
<1>1. UNCHANGED <<poolVars, queue, checkVars, gen, try, steady, statsVars>>
  BY Zenon DEF PickUnchanged
<1>2. LockTypeOK'
  BY <1>1, Zenon DEF Inv, TypeOK, LockTypeOK
<1>3. ConnTypeOK'
  BY <1>1, Zenon DEF Inv, TypeOK, ConnTypeOK, Picking, Ended
<1>4. OnlyConn(c)
  BY <1>1 DEF Inv, TypeOK, ConnTypeOK, OnlyConn
<1>5. ConnOK(c)'
  <2>1. /\ conn'[c] = pc /\ idx'[c] = i /\ nth'[c] = n /\ resort'[c] = last
        /\ gen'[c] = gen[c] /\ steady'[c] = steady[c]
    BY <1>1 DEF Inv, TypeOK, ConnTypeOK
  <2>2. ConnOK(c) /\ task["new"] = "done"
    BY ConnStarted, Zenon DEF Inv, Picking
  <2>3. ConnRefs(c)'
    BY <1>1, <2>1, <2>2 DEF ConnOK, ConnRefs
  <2>4. ConnInRange(c)'
    BY <1>1, <2>1, Zenon DEF ConnInRange
  <2>5. ConnSteady(c)'
    BY <1>1, <2>1, <2>2, Zenon DEF ConnOK, ConnSteady, Alive, Picking
  <2> QED
    BY <2>3, <2>4, <2>5, Zenon DEF ConnOK
<1> QED
  BY <1>1, <1>2, <1>3, <1>4, <1>5, ConnStepInv, Zenon

\* Where a pick looks at server i, it panics only if there is no server; if
\* it does not panic, server i exists.
LEMMA PanicsFacts ==
  ASSUME Inv, NEW c \in Conns, conn[c] \in Picking, NEW i \in 0..MaxServers,
         i = 0 \/ i < count[gen[c]]
  PROVE  /\ gen[c] \in Gens /\ count[gen[c]] \in 0..MaxServers
         /\ Panics(gen[c], i) => count[gen[c]] = 0
         /\ ~Panics(gen[c], i) => i < count[gen[c]]
<1>1. /\ gen[c] = peers /\ task["new"] = "done" /\ gen[c] \in Gens
      /\ count[gen[c]] \in 0..MaxServers
  <2>1. gen[c] = peers /\ gen[c] > 0
    BY Zenon DEF Inv, ConnOK, ConnRefs
  <2>2. task["new"] = "done"
    BY ConnStarted DEF Picking
  <2>3. peers \in 0..MaxLoads /\ count \in [Gens -> 0..MaxServers]
    BY Zenon DEF Inv, TypeOK, PoolTypeOK
  <2>4. gen[c] \in Gens
    BY <2>1, <2>3, GensFacts, Zenon
  <2> QED
    BY <2>1, <2>2, <2>3, <2>4, Zenon
<1>2. ASSUME i < count[gen[c]] PROVE latencies[gen[c]][i] # <<>>
  <2>1. i \in Idx
    BY <1>1, <1>2, LengthFacts, Below, Zenon
  <2>2. AllChecked(gen[c])
    BY <1>1, Zenon DEF Inv, Checked
  <2> QED
    BY <1>2, <2>1, <2>2, Zenon DEF AllChecked
<1>3. i \in Nat /\ count[gen[c]] \in Nat
  BY <1>1, LengthFacts, Zenon
<1>4. ASSUME ~(i < count[gen[c]]) PROVE count[gen[c]] = 0
  BY <1>3, <1>4
<1>5. i >= count[gen[c]] <=> ~(i < count[gen[c]])
  BY <1>3
<1> QED
  BY <1>1, <1>2, <1>4, <1>5, Zenon DEF Panics

\* Writing back the entry of a connection changes nothing.
LEMMA SameEntries ==
  ASSUME Inv, NEW c \in Conns
  PROVE  /\ conn = [conn EXCEPT ![c] = conn[c]]
         /\ idx = [idx EXCEPT ![c] = idx[c]]
         /\ nth = [nth EXCEPT ![c] = nth[c]]
         /\ resort = [resort EXCEPT ![c] = resort[c]]
         /\ idx[c] \in 0..MaxServers /\ nth[c] \in 0..PROBES /\ resort[c] \in BOOLEAN
BY DEF Inv, TypeOK, ConnTypeOK

\* A pick panics.
LEMMA PanicInv ==
  ASSUME Inv, NEW c \in Conns, conn[c] \in Picking, PickUnchanged, Panic(c),
         count[gen[c]] = 0
  PROVE  Inv'
<1>1. /\ conn' = [conn EXCEPT ![c] = "panicked"]
      /\ idx' = [idx EXCEPT ![c] = idx[c]]
      /\ nth' = [nth EXCEPT ![c] = 0]
      /\ resort' = [resort EXCEPT ![c] = resort[c]]
      /\ readers' = readers \ {c}
  BY SameEntries DEF Panic, Unlock
<1>2. 0 \in 0..PROBES
  BY BoundsAssumption
<1> QED
  BY <1>1, <1>2, SameEntries, PickStepInv, Zenon DEF Picking

\* A pick goes on under its guard, probing or scanning.
LEMMA PickMovesInv ==
  ASSUME Inv, NEW c \in Conns, conn[c] \in Picking, PickUnchanged,
         NEW pc \in {"etld", "scan"}, NEW i \in 0..MaxServers, NEW n \in 0..PROBES,
         conn' = [conn EXCEPT ![c] = pc],
         idx' = [idx EXCEPT ![c] = i],
         nth' = [nth EXCEPT ![c] = n],
         resort' = [resort EXCEPT ![c] = resort[c]],
         readers' = readers,
         count[gen[c]] > 0,
         pc = "scan" => i <= count[gen[c]] /\ \A j \in steady[c] : i <= j
  PROVE  Inv'
<1>1. resort[c] \in BOOLEAN
  BY SameEntries
<1>2. readers' = IF pc \in Picking THEN readers ELSE readers \ {c}
  BY DEF Picking
<1> QED
  BY <1>1, <1>2, PickStepInv, Zenon

\* A pick returns a server that exists, the last resort only for want of a
\* steady one.
LEMMA ChooseInv ==
  ASSUME Inv, NEW c \in Conns, conn[c] \in Picking, PickUnchanged,
         NEW i \in 0..MaxServers, NEW last \in BOOLEAN, Choose(c, i, last),
         i < count[gen[c]], last => steady[c] = {}
  PROVE  Inv'
<1>1. 0 \in 0..PROBES
  BY BoundsAssumption
<1> QED
  BY <1>1, PickStepInv, Zenon DEF Choose, Unlock, Picking

\* `best` looks at the server its index names.
LEMMA ProbeBestInv ==
  ASSUME Inv, NEW c \in Conns, ProbeBest(c)
  PROVE  Inv'
<1>1. conn[c] = "best" /\ conn[c] \in Picking /\ PickUnchanged
  BY Zenon DEF ProbeBest, Picking
<1>2. /\ idx[c] \in 0..MaxServers
      /\ idx[c] = 0 \/ idx[c] < count[gen[c]]
  BY <1>1, SameEntries DEF Inv, ConnOK, ConnInRange
<1>3. CASE Panics(gen[c], idx[c]) /\ Panic(c)
  BY <1>1, <1>2, <1>3, PanicsFacts, PanicInv, Zenon
<1>4. CASE ~Panics(gen[c], idx[c]) /\ Choose(c, idx[c], FALSE)
  BY <1>1, <1>2, <1>4, PanicsFacts, ChooseInv, Zenon
<1>5. CASE /\ ~Panics(gen[c], idx[c])
           /\ conn' = [conn EXCEPT ![c] = "scan"]
           /\ idx' = [idx EXCEPT ![c] = 0]
           /\ UNCHANGED <<readers, nth, resort>>
  <2>1. 0 \in 0..MaxServers /\ count[gen[c]] > 0 /\ 0 <= count[gen[c]]
    <3>1. idx[c] < count[gen[c]] /\ count[gen[c]] \in 0..MaxServers
      BY <1>1, <1>2, <1>5, PanicsFacts, Zenon
    <3> QED
      BY <1>2, <3>1, Zeros, LengthFacts, Below, Zenon
  <2>2. \A j \in steady[c] : 0 <= j
    BY DEF Inv, TypeOK, ConnTypeOK, Idx
  <2>3. /\ nth' = [nth EXCEPT ![c] = nth[c]]
        /\ resort' = [resort EXCEPT ![c] = resort[c]]
    BY <1>5, SameEntries
  <2> QED
    BY <1>1, <1>5, <2>1, <2>2, <2>3, SameEntries, PickMovesInv, Zenon
<1> QED
  BY <1>3, <1>4, <1>5, Zenon DEF ProbeBest

\* `by_etld` looks at the server of the next bucket.
LEMMA ProbeEtldInv ==
  ASSUME Inv, NEW c \in Conns, ProbeEtld(c)
  PROVE  Inv'
<1>1. conn[c] = "etld" /\ conn[c] \in Picking /\ PickUnchanged /\ nth[c] < PROBES
  BY Zenon DEF ProbeEtld, Picking
<1>2. nth[c] \in 0..PROBES /\ nth[c] + 1 \in 0..PROBES
  BY <1>1, SameEntries, BoundsAssumption
<1>3. /\ Bucket(c) \in 0..MaxServers
      /\ Bucket(c) = 0 \/ Bucket(c) < count[gen[c]]
  <2>1. 0 \in 0..MaxServers /\ count[gen[c]] \in 0..MaxServers
    BY <1>1, PanicsFacts, Zeros, Zenon
  <2>2. CASE count[gen[c]] = 0
    BY <2>1, <2>2, Zenon DEF Bucket
  <2>3. CASE count[gen[c]] # 0
    <3>1. count[gen[c]] \in 1..MaxServers
      BY <2>1, <2>3, SMTT(60)
    <3>2. JumpHash(Fnv[c] + nth[c], count[gen[c]]) \in 0..(count[gen[c]] - 1)
      BY <1>2, <3>1, HashAssumption, Zenon
    <3> QED
      BY <2>3, <3>1, <3>2, BoundsAssumption DEF Bucket
  <2> QED
    BY <2>2, <2>3, Zenon
<1>4. CASE Panics(gen[c], Bucket(c)) /\ Panic(c)
  BY <1>1, <1>3, <1>4, PanicsFacts, PanicInv
<1>5. CASE ~Panics(gen[c], Bucket(c)) /\ Choose(c, Bucket(c), FALSE)
  BY <1>1, <1>3, <1>5, PanicsFacts, ChooseInv, Zenon
<1>6. CASE /\ ~Panics(gen[c], Bucket(c))
           /\ nth' = [nth EXCEPT ![c] = @ + 1]
           /\ UNCHANGED <<conn, readers, idx, resort>>
  <2>1. count[gen[c]] > 0
    <3>1. Bucket(c) < count[gen[c]] /\ count[gen[c]] \in 0..MaxServers
      BY <1>1, <1>3, <1>6, PanicsFacts, Zenon
    <3> QED
      BY <1>3, <3>1, LengthFacts, Below, Zenon
  <2>2. /\ conn' = [conn EXCEPT ![c] = "etld"]
        /\ idx' = [idx EXCEPT ![c] = idx[c]]
        /\ nth' = [nth EXCEPT ![c] = nth[c] + 1]
        /\ resort' = [resort EXCEPT ![c] = resort[c]]
    BY <1>1, <1>6, SameEntries
  <2> QED
    <3>1. readers' = readers /\ idx[c] \in 0..MaxServers
      BY <1>6, SameEntries
    <3> QED
      BY <1>1, <1>2, <2>1, <2>2, <3>1, PickMovesInv, Zenon
<1> QED
  BY <1>4, <1>5, <1>6, Zenon DEF ProbeEtld

\* `by_etld` gives up and `fallback` starts.
LEMMA EtldFallbackInv ==
  ASSUME Inv, NEW c \in Conns, EtldFallback(c)
  PROVE  Inv'
<1>1. /\ conn[c] = "etld" /\ conn[c] \in Picking /\ PickUnchanged /\ nth[c] = PROBES
      /\ conn' = [conn EXCEPT ![c] = "scan"]
      /\ idx' = [idx EXCEPT ![c] = 0]
      /\ nth' = [nth EXCEPT ![c] = 0]
      /\ UNCHANGED <<readers, resort>>
  BY DEF EtldFallback, Picking
<1>2. 0 \in 0..MaxServers /\ 0 \in 0..PROBES
  BY Zeros
<1>3. count[gen[c]] > 0 /\ 0 <= count[gen[c]]
  <2>1. count[gen[c]] \in 0..MaxServers
    BY <1>1, <1>2, PanicsFacts, Zenon
  <2>2. nth[c] > 0
    BY <1>1, BoundsAssumption
  <2>3. count[gen[c]] > 0
    BY <1>1, <2>2, Zenon DEF Inv, ConnOK, ConnInRange
  <2> QED
    BY <2>1, <2>3, LengthFacts, Zenon
<1>4. \A j \in steady[c] : 0 <= j
  BY DEF Inv, TypeOK, ConnTypeOK, Idx
<1>5. resort' = [resort EXCEPT ![c] = resort[c]]
  BY <1>1, SameEntries
<1> QED
  BY <1>1, <1>2, <1>3, <1>4, <1>5, SameEntries, PickMovesInv, Zenon

\* `fallback` looks at the next server, or returns the first one.
LEMMA FallbackInv ==
  ASSUME Inv, NEW c \in Conns, Fallback(c)
  PROVE  Inv'
<1>1. conn[c] = "scan" /\ conn[c] \in Picking /\ PickUnchanged
  BY Zenon DEF Fallback, Picking
<1>2. /\ idx[c] \in 0..MaxServers /\ idx[c] <= count[gen[c]] /\ count[gen[c]] > 0
      /\ \A j \in steady[c] : j \in Nat /\ idx[c] <= j /\ j < count[gen[c]] /\ Alive(gen[c], j)
  <2>1. \A j \in steady[c] : j \in Nat
    BY DEF Inv, TypeOK, ConnTypeOK, Idx
  <2> QED
    BY <1>1, <2>1, SameEntries DEF Inv, ConnOK, ConnInRange, ConnSteady
<1>3. 0 \in 0..MaxServers /\ count[gen[c]] \in 0..MaxServers
  BY <1>1, PanicsFacts, Zeros, Zenon
<1>4. CASE MoreServers(c) /\ Panics(gen[c], idx[c]) /\ Panic(c)
  BY <1>1, <1>2, <1>4, PanicsFacts, PanicInv, Zenon DEF MoreServers
<1>5. CASE MoreServers(c) /\ Choose(c, idx[c], FALSE)
  BY <1>1, <1>2, <1>5, ChooseInv, Zenon DEF MoreServers
<1>6. CASE /\ MoreServers(c) /\ ~Alive(gen[c], idx[c])
           /\ idx' = [idx EXCEPT ![c] = @ + 1]
           /\ UNCHANGED <<conn, readers, nth, resort>>
  <2>1. idx[c] + 1 \in 0..MaxServers /\ idx[c] + 1 <= count[gen[c]]
    BY <1>2, <1>3, <1>6, LengthFacts, Below, Zenon DEF MoreServers
  <2>2. \A j \in steady[c] : idx[c] + 1 <= j
    <3> TAKE j \in steady[c]
    <3>1. j # idx[c]
      BY <1>2, <1>6, Zenon
    <3> QED
      BY <1>2, <3>1, LengthFacts, NextIndex, Zenon
  <2>3. /\ conn' = [conn EXCEPT ![c] = "scan"]
        /\ idx' = [idx EXCEPT ![c] = idx[c] + 1]
        /\ nth' = [nth EXCEPT ![c] = nth[c]]
        /\ resort' = [resort EXCEPT ![c] = resort[c]]
    BY <1>1, <1>6, SameEntries
  <2> QED
    BY <1>1, <1>2, <1>6, <2>1, <2>2, <2>3, SameEntries, PickMovesInv, Zenon
<1>7. CASE ~MoreServers(c) /\ Choose(c, 0, TRUE)
  <2>1. ASSUME NEW j \in steady[c] PROVE FALSE
    BY <1>2, <1>3, <1>7, <2>1, LengthFacts, NoRoom, Zenon DEF MoreServers
  <2>2. steady[c] = {}
    BY <2>1, Zenon
  <2> QED
    BY <1>1, <1>2, <1>3, <1>7, <2>2, ChooseInv, Zenon
<1> QED
  BY <1>4, <1>5, <1>6, <1>7, Zenon DEF Fallback

\* connect succeeds.
LEMMA ConnectOkInv ==
  ASSUME Inv, NEW c \in Conns, ConnectOk(c)
  PROVE  Inv'
<1>1. /\ conn[c] = "connect"
      /\ conn' = [conn EXCEPT ![c] = "proxy"]
      /\ resort' = [resort EXCEPT ![c] = FALSE]
      /\ steady' = [steady EXCEPT ![c] = {}]
      /\ UNCHANGED <<poolVars, lockVars, checkVars, gen, idx, nth, try, statsVars>>
  BY DEF ConnectOk, DropPick
<1>2. LockTypeOK'
  BY <1>1, Zenon DEF Inv, TypeOK, LockTypeOK
<1>3. ConnTypeOK'
  BY <1>1, Zenon DEF Inv, TypeOK, ConnTypeOK
<1>4. OnlyConn(c) /\ \A d \in Conns \ {c} : steady'[d] = steady[d]
  BY <1>1 DEF Inv, TypeOK, ConnTypeOK, OnlyConn
<1>5. ConnOK(c)'
  <2>1. conn'[c] = "proxy"
    BY <1>1 DEF Inv, TypeOK, ConnTypeOK
  <2>2. ConnOK(c)
    BY DEF Inv
  <2> QED
    BY <1>1, <2>1, <2>2, Zenon DEF ConnOK, ConnRefs, ConnInRange, ConnSteady, Picking
<1> QED
  BY <1>1, <1>2, <1>3, <1>4, <1>5, ConnStepInv, Zenon

\* The server a connection uses exists.
LEMMA ServerOfConn ==
  ASSUME Inv, NEW c \in Conns, conn[c] \in {"connect", "proxy"}
  PROVE  gen[c] \in Gens /\ idx[c] \in Idx
<1>1. gen[c] \in Gens
  <2>1. gen[c] \in 0..MaxLoads /\ gen[c] > 0
    BY DEF Inv, TypeOK, ConnTypeOK, ConnOK, ConnRefs
  <2> QED
    BY <2>1, GensFacts, Zenon
<1>2. idx[c] < count[gen[c]]
  BY Zenon DEF Inv, ConnOK, ConnInRange
<1>3. count[gen[c]] \in 0..MaxServers /\ idx[c] \in 0..MaxServers
  BY <1>1, Zenon DEF Inv, TypeOK, PoolTypeOK, ConnTypeOK
<1> QED
  BY <1>1, <1>2, <1>3, LengthFacts, Below, Zenon

\* connect fails and is reported to the server it was picked from, published
\* or retired.
LEMMA ConnectErrInv ==
  ASSUME Inv, NEW c \in Conns, ConnectErr(c)
  PROVE  Inv'
<1>1. /\ conn[c] = "connect"
      /\ PushLatency(gen[c], idx[c], 0)
      /\ steady' = [StillSteady(gen[c], idx[c], 0) EXCEPT ![c] = {}]
      /\ gen' = [gen EXCEPT ![c] = 0]
      /\ idx' = [idx EXCEPT ![c] = 0]
      /\ resort' = [resort EXCEPT ![c] = FALSE]
      /\ UNCHANGED <<peers, loads, count, best, lockVars, checkVars, nth, statsVars>>
  BY Zenon DEF ConnectErr, DropServer, DropPick
<1>2. PICK pc \in {"want", "noproxy"} : conn' = [conn EXCEPT ![c] = pc]
  BY Zenon DEF ConnectErr
<1>3. try' \in [Conns -> 1..ATTEMPTS]
  <2>1. try[c] < ATTEMPTS => try[c] + 1 \in 1..ATTEMPTS
    BY BoundsAssumption DEF Inv, TypeOK, ConnTypeOK
  <2> QED
    BY <2>1 DEF ConnectErr, Inv, TypeOK, ConnTypeOK
<1>4. StillSteady(gen[c], idx[c], 0) \in [Conns -> SUBSET Idx]
  BY StillSteadyType, Zenon DEF Inv
<1>5. ConnTypeOK'
  <2>1. 0 \in 0..MaxLoads /\ 0 \in 0..MaxServers
    BY BoundsAssumption, SMTT(60)
  <2> QED
    BY <1>1, <1>2, <1>3, <1>4, <2>1, Zenon DEF Inv, TypeOK, ConnTypeOK, Ended
<1>6. OnlyConn(c)
  BY <1>1, <1>2, Zenon DEF Inv, TypeOK, ConnTypeOK, OnlyConn
<1>7. \A d \in Conns \ {c} : steady'[d] = StillSteady(gen[c], idx[c], 0)[d]
  BY <1>1, <1>4
<1>8. ConnOK(c)'
  <2>1. conn'[c] \in {"want", "noproxy"} /\ gen'[c] = 0
    BY <1>1, <1>2, Zenon DEF Inv, TypeOK, ConnTypeOK
  <2> QED
    BY <1>1, <2>1, ConnStarted, ConnRestOK, Zenon
<1>9. gen[c] \in Gens /\ idx[c] \in Idx
  BY <1>1, ServerOfConn, Zenon
<1> QED
  BY <1>1, <1>5, <1>6, <1>7, <1>8, <1>9, ConnPushInv, Zenon

\* A session ends, with a failure to report or without.
LEMMA ProxyEndInv ==
  ASSUME Inv, NEW c \in Conns, ProxyEnd(c)
  PROVE  Inv'
<1>1. /\ conn[c] = "proxy"
      /\ conn' = [conn EXCEPT ![c] = "idle"]
      /\ gen' = [gen EXCEPT ![c] = 0]
      /\ idx' = [idx EXCEPT ![c] = 0]
      /\ UNCHANGED <<peers, loads, count, best, lockVars, checkVars, nth, try, resort, statsVars>>
  BY DEF ProxyEnd, DropServer
<1>2. 0 \in 0..MaxLoads /\ 0 \in 0..MaxServers
  BY BoundsAssumption, SMTT(60)
<1>3. OnlyConn(c)
  BY <1>1 DEF Inv, TypeOK, ConnTypeOK, OnlyConn
<1>4. ConnOK(c)'
  <2>1. conn'[c] = "idle" /\ gen'[c] = 0
    BY <1>1, Zenon DEF Inv, TypeOK, ConnTypeOK
  <2> QED
    BY <1>1, <2>1, ConnStarted, ConnRestOK
<1>5. CASE /\ PushLatency(gen[c], idx[c], 0)
           /\ steady' = StillSteady(gen[c], idx[c], 0)
  <2>1. steady' \in [Conns -> SUBSET Idx]
    BY <1>5, StillSteadyType DEF Inv
  <2>2. ConnTypeOK'
    BY <1>1, <1>2, <2>1, Zenon DEF Inv, TypeOK, ConnTypeOK, Ended
  <2>3. gen[c] \in Gens /\ idx[c] \in Idx
    BY <1>1, ServerOfConn, Zenon
  <2>4. \A d \in Conns \ {c} : steady'[d] = StillSteady(gen[c], idx[c], 0)[d]
    BY <1>5, Zenon
  <2> QED
    BY <1>1, <1>3, <1>4, <1>5, <2>2, <2>3, <2>4, ConnPushInv, Zenon
<1>6. CASE UNCHANGED <<latencies, steady>>
  <2>1. ConnTypeOK'
    BY <1>1, <1>2, <1>6 DEF Inv, TypeOK, ConnTypeOK, Ended
  <2>2. LockTypeOK'
    BY <1>1 DEF Inv, TypeOK, LockTypeOK
  <2> QED
    BY <1>1, <1>3, <1>4, <1>6, <2>1, <2>2, ConnStepInv, Zenon
<1> QED
  BY <1>1, <1>5, <1>6, Zenon DEF ProxyEnd

-----------------------------------------------------------------------------
(* The stats request, and the theorems.                                    *)

\* A stats request takes a read guard, reads and drops it.
LEMMA StatsInv ==
  ASSUME Inv, StatsWait \/ Stats
  PROVE  Inv'
<1>1. UNCHANGED <<poolVars, checkVars, connVars>>
  BY Zenon DEF StatsWait, Stats, StatsLock, StatsRow, StatsReturn
<1>2. \A r \in Tasks \ {"stats"} : r \in readers => r \in readers'
  BY DEF StatsWait, Stats, StatsLock, StatsRow, StatsReturn, LockRead, Unlock
<1>3. LockTypeOK'
  <2>1. readers \subseteq Tasks /\ queue \in Seq(Tasks) /\ "stats" \in Tasks
    BY Zenon DEF Inv, TypeOK, LockTypeOK, Tasks
  <2>2. readers' \subseteq Tasks
    BY <2>1, Zenon DEF StatsWait, Stats, StatsLock, StatsRow, StatsReturn, LockRead, Unlock
  <2>3. queue' \in Seq(Tasks)
    BY <2>1, SMTT(60) DEF StatsWait, Stats, StatsLock, StatsRow, StatsReturn, LockRead, First, Enqueue
  <2> QED
    BY <2>2, <2>3 DEF LockTypeOK
<1>4. StatsTypeOK'
  <2>1. row \in 0..MaxServers /\ stats \in {"idle", "wait", "read"} /\ 0 \in 0..MaxServers
    BY BoundsAssumption DEF Inv, TypeOK, StatsTypeOK
  <2>2. StatsRow => row + 1 \in 0..MaxServers
    <3> HAVE StatsRow
    <3>1. row < count[peers]
      BY Zenon DEF StatsRow
    <3>2. count[peers] \in 0..MaxServers
      BY SMTT(60) DEF StatsRow, Inv, Booted, TypeOK, PoolTypeOK, Gens
    <3> QED
      BY <2>1, <3>1, <3>2, BoundsAssumption
  <2> QED
    BY <2>1, <2>2 DEF StatsWait, Stats, StatsLock, StatsRow, StatsReturn, StatsTypeOK
<1>5. TypeOK'
  BY <1>1, <1>3, <1>4, Zenon DEF Inv, TypeOK, PoolTypeOK, CheckTypeOK, ConnTypeOK
<1>6. task["new"] # "done" => stats' = "idle"
  BY Zenon DEF Inv, Booted, StatsWait, Stats, StatsLock, StatsRow, StatsReturn
<1>7. Booted' /\ Refs' /\ InRange'
  BY <1>1, <1>6 DEF Inv, Booted, Refs, InRange
<1>8. Checked'
  BY <1>1, Zenon DEF Inv, Checked, AllChecked
<1>9. Guarded'
  <2>1. "checker" \in Tasks \ {"stats"}
    BY Zenon DEF Tasks, Checkers
  <2> QED
    BY <1>1, <1>2, <2>1 DEF Inv, Guarded
<1>10. ASSUME NEW d \in Conns PROVE ConnOK(d)'
  <2>1. d \in Tasks \ {"stats"}
    BY TasksAssumption DEF Tasks
  <2> QED
    BY <1>1, <1>2, <2>1, ConnStutter
<1> QED
  BY <1>5, <1>7, <1>8, <1>9, <1>10, Zenon DEF Inv

\* The initial state satisfies the invariant.
LEMMA InitInv == Init => Inv
<1> SUFFICES ASSUME Init PROVE Inv
  OBVIOUS
<1>1. /\ 0 \in 0..MaxLoads /\ 0 \in 0..MaxServers /\ 0 \in Idx /\ 0 \in 0..PROBES
      /\ 1 \in 1..ATTEMPTS /\ NoLatency \in 0..NoLatency /\ 0 <= MAX_HISTORY
  BY BoundsAssumption DEF Idx, NoLatency
<1>2. TypeOK
  <2>1. PoolTypeOK
    BY <1>1, SMTT(60) DEF Init, PoolTypeOK
  <2>2. LockTypeOK
    BY SMTT(60) DEF Init, LockTypeOK
  <2>3. CheckTypeOK
    BY <1>1, SMTT(60) DEF Init, CheckTypeOK
  <2>4. ConnTypeOK /\ StatsTypeOK
    BY <1>1, Zenon DEF Init, ConnTypeOK, StatsTypeOK, Ended
  <2> QED
    BY <2>1, <2>2, <2>3, <2>4, Zenon DEF TypeOK
<1>3. Booted /\ Refs /\ Guarded
  BY SMTT(60) DEF Init, Booted, Refs, Guarded, Checkers
<1>4. Checked /\ InRange
  BY Zenon DEF Init, Checked, InRange, Checkers
<1>5. ASSUME NEW c \in Conns PROVE ConnOK(c)
  BY SMTT(60) DEF Init, ConnOK, ConnRefs, ConnInRange, ConnSteady, Picking
<1> QED
  BY <1>2, <1>3, <1>4, <1>5 DEF Inv

\* A stuttering step keeps the invariant.
LEMMA StutterInv ==
  ASSUME Inv, UNCHANGED vars
  PROVE  Inv'
<1> USE DEF vars
<1>1. TypeOK'
  BY DEF Inv, TypeOK, PoolTypeOK, LockTypeOK, CheckTypeOK, ConnTypeOK, StatsTypeOK
<1>2. Booted' /\ Refs' /\ InRange' /\ Guarded'
  BY Zenon DEF Inv, Booted, Refs, InRange, Guarded
<1>3. Checked'
  BY Zenon DEF Inv, Checked, AllChecked
<1>4. ASSUME NEW d \in Conns PROVE ConnOK(d)'
  BY ConnStutter, Zenon
<1> QED
  BY <1>1, <1>2, <1>3, <1>4, Zenon DEF Inv

\* Every step keeps the invariant.
LEMMA NextInv == Inv /\ [Next]_vars => Inv'
<1> SUFFICES ASSUME Inv, [Next]_vars PROVE Inv'
  OBVIOUS
<1>1. CASE NewLoad
  BY <1>1, NewLoadInv
<1>2. CASE \E t \in Checkers : CheckOnce(t)
  BY <1>2, CheckOnceInv
<1>3. CASE CheckerWake \/ UpdaterWake
  BY <1>3, WakeInv, Zenon
<1>4. CASE CheckerLock
  BY <1>4, CheckerLockInv
<1>5. CASE UpdaterLoad
  BY <1>5, UpdaterLoadInv
<1>6. CASE UpdaterPublish
  BY <1>6, UpdaterPublishInv
<1>7. ASSUME NEW c \in Conns,
             Accept(c) \/ Pick(c) \/ ConnectOk(c) \/ ConnectErr(c) \/ ProxyEnd(c)
      PROVE  Inv'
  BY <1>7, AcceptInv, PickWaitInv, PickLockInv, ProbeBestInv, ProbeEtldInv, EtldFallbackInv,
     FallbackInv, ConnectOkInv, ConnectErrInv, ProxyEndInv DEF Pick
<1>8. CASE StatsWait \/ Stats
  BY <1>8, StatsInv
<1>9. CASE Exited \/ UNCHANGED vars
  BY <1>9, StutterInv DEF Exited
<1> QED
  BY <1>1, <1>2, <1>3, <1>4, <1>5, <1>6, <1>7, <1>8, <1>9 DEF Next

\* The inductive invariant holds in every reachable state.
THEOREM Invariance == Spec => []Inv
BY InitInv, NextInv, PTL DEF Spec

\* Every variable keeps its type: in particular no history outgrows
\* MAX_HISTORY and no connection makes more than ATTEMPTS attempts.
THEOREM TypeCorrect == Spec => []TypeOK
<1>1. Inv => TypeOK
  BY DEF Inv
<1> QED
  BY <1>1, Invariance, PTL

\* The `expect`s of Server::alive and Server::latency never fail: the servers
\* of the published list and those a scan reads have all been checked.
THEOREM PublishedServersChecked == Spec => []PublishedChecked
<1>1. Inv => PublishedChecked
  BY Zenon DEF Inv, Checked, AllChecked, PublishedChecked
<1> QED
  BY <1>1, Invariance, PTL

\* Nothing but an empty list makes a pick panic.
THEOREM PanicsOnlyOnEmptyList == Spec => []PanicOnlyOnEmpty
<1>1. Inv => PanicOnlyOnEmpty
  BY Zenon DEF Inv, ConnOK, ConnInRange, PanicOnlyOnEmpty
<1> QED
  BY <1>1, Invariance, PTL

\* The Peers a pick or the checker works on stays the published one until the
\* guard is dropped.
THEOREM GuardsPinPeers == Spec => []GuardPinsPeers
<1>1. Inv => GuardPinsPeers
  BY DEF Inv, Guarded, ConnOK, ConnRefs, GuardPinsPeers
<1> QED
  BY <1>1, Invariance, PTL

\* The first server is returned for want of a live one only if no server was
\* alive during the whole pick.
THEOREM LastResortOnlyWhenNoneAlive == Spec => []LastResortIsLast
<1>1. Inv => LastResortIsLast
  BY Zenon DEF Inv, ConnOK, ConnSteady, LastResortIsLast
<1> QED
  BY <1>1, Invariance, PTL
=============================================================================
