----------------------------- MODULE Supervisor -----------------------------
(***************************************************************************)
(* The process as a whole (src/main.rs, src/signals.rs): main starts the   *)
(* services one after the other, each as a task of the runtime, and then   *)
(* waits for a signal or for a task that ends.  Here are the ways in which *)
(* `serve` of the DNS server, of the controller and of the transparent     *)
(* proxy can end, and the listeners of the latter, which are tasks that    *)
(* main does not know.                                                     *)
(*                                                                         *)
(* While main starts the services it does not look at those that run, and  *)
(* a signal has its default effect: the handlers are registered one after  *)
(* the other in the first poll of the wait, before or after the tasks.     *)
(***************************************************************************)
EXTENDS Naturals

CONSTANTS
  MaxListen   \* bound: the addresses in thp.listen

ASSUME ListenAssumption == MaxListen \in Nat

Services == {"dns", "controller", "thp"}
Listeners == 1..MaxListen
Signals == {"term", "int"}

VARIABLES
  conf,       \* the configuration: are there a controller and a proxy, with how many addresses
  stage,      \* where main is
  exit,       \* how the process has ended: "no", "zero", "one", "panic", "killed"
  service,    \* the task of a service and, when it has ended, its JoinHandle
  listener,   \* the accept loops of the proxy
  handlers,   \* the signals for which a handler is registered
  signalled   \* has a signal come that the handlers have caught?

mainVars == <<conf, stage, exit, service, listener, handlers, signalled>>

Running == exit = "no"

\* Main leaves a stage, or the process ends in it.
Enter(s) == stage' = s /\ UNCHANGED exit
End(how) == exit' = how /\ UNCHANGED stage

-----------------------------------------------------------------------------
(* main.                                                                   *)

\* Config::load: without a configuration, exit(1).
Load ==
  /\ Running /\ stage = "load"
  /\ Enter("dns") \/ End("one")
  /\ UNCHANGED <<conf, service, listener, handlers, signalled>>

\* The runtime, the resolver and dns::Server::new, which waits for the rule
\* lists.  What fails is expected not to.
StartDns ==
  /\ Running /\ stage = "dns"
  /\ \/ Enter("upstream") /\ service' = [service EXCEPT !["dns"] = "run"]
     \/ End("panic") /\ UNCHANGED service
  /\ UNCHANGED <<conf, listener, handlers, signalled>>

\* Upstream::new waits for the list of servers and for the first check of all.
StartUpstream ==
  /\ Running /\ stage = "upstream"
  /\ Enter("controller") \/ End("panic")
  /\ UNCHANGED <<conf, service, listener, handlers, signalled>>

\* controller::Server::new parses the address.
StartController ==
  /\ Running /\ stage = "controller"
  /\ \/ ~conf.controller /\ Enter("thp") /\ UNCHANGED service
     \/ /\ conf.controller
        /\ \/ Enter("thp") /\ service' = [service EXCEPT !["controller"] = "bind"]
           \/ End("panic") /\ UNCHANGED service
  /\ UNCHANGED <<conf, listener, handlers, signalled>>

StartThp ==
  /\ Running /\ stage = "thp"
  /\ Enter("wait")
  /\ service' = IF conf.thp THEN [service EXCEPT !["thp"] = "bind"] ELSE service
  /\ UNCHANGED <<conf, listener, handlers, signalled>>

\* The results that the loop over the tasks has still to see.
Results == {"ok", "err", "panic"}

\* select polls signals::shutdown and the loop over the tasks, in any order;
\* shutdown registers both handlers before it waits for the first time.
PollsTasks == handlers \in {{}, Signals}

\* Mutant of Join: a task that failed is passed over as well.
JoinAll(t) ==
  /\ Running /\ stage = "wait" /\ PollsTasks
  /\ service[t] \in Results
  /\ service' = [service EXCEPT ![t] = "off"]
  /\ IF \A u \in Services : service'[u] = "off" THEN Enter("shutdown") ELSE UNCHANGED <<stage, exit>>
  /\ UNCHANGED <<conf, listener, handlers, signalled>>

\* One turn of that loop: Ok(Ok(())) is passed over, Ok(Err) is exit(1) and a
\* JoinError is a panic.  After the last task the wait is over.
Join(t) ==
  /\ Running /\ stage = "wait" /\ PollsTasks
  /\ \/ /\ service[t] = "ok"
        /\ service' = [service EXCEPT ![t] = "off"]
        /\ IF \A u \in Services : service'[u] = "off"
           THEN Enter("shutdown") ELSE UNCHANGED <<stage, exit>>
     \/ service[t] = "err" /\ End("one") /\ UNCHANGED service
     \/ service[t] = "panic" /\ End("panic") /\ UNCHANGED service
  /\ UNCHANGED <<conf, listener, handlers, signalled>>

-----------------------------------------------------------------------------
(* Signals.                                                                *)

\* signals::shutdown registers a handler for SIGTERM and then one for SIGINT;
\* what fails is expected not to, and panics main.
Register ==
  /\ Running /\ stage = "wait"
  /\ \E sig \in Signals \ handlers :
       /\ sig = "int" => "term" \in handlers
       /\ \/ handlers' = handlers \cup {sig} /\ UNCHANGED exit
          \/ exit' = "panic" /\ UNCHANGED handlers
  /\ UNCHANGED <<conf, stage, service, listener, signalled>>

\* Mutant of Signal: the handlers are there from the beginning.
SignalCaught(sig) ==
  /\ Running
  /\ signalled' = TRUE
  /\ UNCHANGED <<conf, stage, exit, service, listener, handlers>>

\* SIGTERM or SIGINT, from somebody else.
Signal(sig) ==
  /\ Running
  /\ IF sig \in handlers
     THEN signalled' = TRUE /\ UNCHANGED exit
     ELSE exit' = "killed" /\ UNCHANGED signalled
  /\ UNCHANGED <<conf, stage, service, listener, handlers>>

\* signals::shutdown returns, and with it the select of main.
Shutdown ==
  /\ Running /\ stage = "wait" /\ signalled /\ handlers = Signals
  /\ Enter("shutdown")
  /\ UNCHANGED <<conf, service, listener, handlers, signalled>>

\* shutdown_timeout gives the tasks 5 seconds and main returns.
MainReturns ==
  /\ Running /\ stage = "shutdown"
  /\ End("zero")
  /\ UNCHANGED <<conf, service, listener, handlers, signalled>>

-----------------------------------------------------------------------------
(* The services.                                                           *)

ServiceStep(t, from, to) ==
  /\ Running
  /\ service[t] = from
  /\ service' = [service EXCEPT ![t] = to]
  /\ UNCHANGED <<conf, stage, exit, listener, handlers, signalled>>

\* Of serve_tcp and serve_udp the first to end: an address that cannot be
\* bound, an error of accept or of the socket, or the end of the datagrams.
DnsEnds == ServiceStep("dns", "run", "err")

\* hyper::Server::bind panics if it cannot bind.
ControllerBinds == ServiceStep("controller", "bind", "run") \/ ServiceStep("controller", "bind", "panic")

\* The error of the HTTP server is logged.
ControllerEnds == ServiceStep("controller", "run", "ok")

Unbound == {l \in Listeners : l <= conf.listen /\ listener[l] = "off"}

\* thp::serve binds the next address and spawns its accept loop; an error is
\* returned, and the loops that were spawned before go on.
ThpBinds ==
  /\ Running /\ service["thp"] = "bind"
  /\ \E l \in Unbound :
       /\ \A m \in Unbound : l <= m
       /\ \/ listener' = [listener EXCEPT ![l] = "accept"] /\ UNCHANGED service
          \/ service' = [service EXCEPT !["thp"] = "err"] /\ UNCHANGED listener
  /\ UNCHANGED <<conf, stage, exit, handlers, signalled>>

\* All addresses are bound: join_all waits for the loops.
ThpBound == Unbound = {} /\ ServiceStep("thp", "bind", "run")

\* An accept fails, expected not to: this loop panics, nobody looks.
ListenerDies(l) ==
  /\ Running /\ listener[l] = "accept"
  /\ listener' = [listener EXCEPT ![l] = "dead"]
  /\ UNCHANGED <<conf, stage, exit, service, handlers, signalled>>

\* join_all returns when the last loop has ended.
ThpEnds ==
  /\ \A l \in Listeners : listener[l] # "accept"
  /\ ServiceStep("thp", "run", "ok")

-----------------------------------------------------------------------------
MainInit ==
  /\ conf \in [controller : BOOLEAN, thp : BOOLEAN, listen : 0..MaxListen]
  /\ ~conf.thp => conf.listen = 0
  /\ stage = "load"
  /\ exit = "no"
  /\ service = [t \in Services |-> "off"]
  /\ listener = [l \in Listeners |-> "off"]
  /\ handlers = {}
  /\ signalled = FALSE

ProcessEnded == ~Running /\ UNCHANGED mainVars

\* What main does without waiting for anybody outside.
MainStep ==
  \/ Load \/ StartController \/ StartThp
  \/ \E t \in Services : Join(t)
  \/ Register \/ Shutdown \/ MainReturns

ServicesStep ==
  \/ DnsEnds \/ ControllerBinds \/ ControllerEnds
  \/ ThpBinds \/ ThpBound \/ ThpEnds
  \/ \E l \in Listeners : ListenerDies(l)

MainNext ==
  \/ MainStep \/ StartDns \/ StartUpstream \/ ServicesStep
  \/ \E sig \in Signals : Signal(sig)
  \/ ProcessEnded

MainSpec == MainInit /\ [][MainNext]_mainVars

\* Main runs on when it can.  Nothing makes the servers of the rule lists and
\* of the list of proxies answer, somebody send a signal, or a service fail.
MainFairSpec == MainSpec /\ WF_mainVars(MainStep)

-----------------------------------------------------------------------------
(* Properties.                                                             *)

\* The exit status says what has happened: 0 only after a signal that was
\* caught, never because the services have ended (the DNS server does not end
\* without an error); 1 only for want of a configuration or for an error of a
\* service; once the wait has begun, a panic only because the controller could
\* not bind (the join fails) or because a handler is missing, which could not
\* be registered; and once both are there no signal kills.
ExitExplained ==
  /\ exit = "zero" => signalled
  /\ exit = "one" => stage = "load" \/ \E t \in Services : service[t] = "err"
  /\ exit = "panic" /\ stage = "wait" =>
       service["controller"] = "panic" \/ handlers # Signals
  /\ exit = "killed" => handlers # Signals /\ stage # "shutdown"

\* "Mimic Golang's errgroup": a service that fails takes the process with it,
\* also if it fails while main starts the others, unless main waits for ever
\* for the list of proxies; and a signal always ends the process, also then.
ProcessEnds ==
  /\ (\E t \in Services : service[t] \in {"err", "panic"})
       ~> (~Running \/ [](stage = "upstream"))
  /\ signalled ~> ~Running
=============================================================================
