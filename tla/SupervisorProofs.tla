-------------------------- MODULE SupervisorProofs --------------------------
(***************************************************************************)
(* What the exit status of the process says, for any number of addresses.  *)
(***************************************************************************)
EXTENDS Supervisor, TLAPS

\* The DNS server is started first and, once started, runs or has failed; so
\* the loop over the tasks never runs out of them, and the wait is left after
\* a signal only, which needs both handlers.  Only the controller's task panics.
Explained ==
  /\ service \in [Services -> {"off", "bind", "run", "ok", "err", "panic"}]
  /\ stage \in {"load", "dns"} => service["dns"] = "off"
  /\ stage \notin {"load", "dns"} => service["dns"] \in {"run", "err"}
  /\ service["thp"] # "panic"
  /\ stage = "shutdown" => signalled /\ handlers = Signals
  /\ ExitExplained

LEMMA InitExplained == MainInit => Explained
  BY DEF MainInit, Explained, ExitExplained, Services

\* A step of a service that is not the DNS server, or the failure of that,
\* keeps what is known of the tasks.
LEMMA ServiceStepExplained ==
  ASSUME Explained, NEW t \in Services, NEW from, NEW to \in {"run", "ok", "err", "panic"},
         ServiceStep(t, from, to),
         t = "dns" => from = "run" /\ to = "err",
         t = "thp" => to # "panic"
  PROVE  Explained'
  BY DEF Explained, ExitExplained, ServiceStep, Running, Services

LEMMA JoinExplained ==
  ASSUME Explained, NEW t \in Services, Join(t)
  PROVE  Explained'
<1>1. CASE service[t] = "ok"
  <2>1. t # "dns" /\ stage = "wait" /\ Running
    BY <1>1 DEF Explained, Join
  <2>2. service' = [service EXCEPT ![t] = "off"] /\ UNCHANGED <<handlers, signalled>>
    BY <1>1 DEF Join
  <2>3. service'["dns"] # "off"
    BY <2>1, <2>2 DEF Explained, Services
  <2>4. UNCHANGED <<stage, exit>>
    BY <1>1, <2>3 DEF Join, Services
  <2> QED
    BY <2>1, <2>2, <2>3, <2>4 DEF Explained, ExitExplained, Running, Services
<1>2. CASE service[t] = "err"
  BY <1>2 DEF Join, End, Explained, ExitExplained, Running, Services
<1>3. CASE service[t] = "panic"
  BY <1>3 DEF Join, End, Explained, ExitExplained, Running, Services
<1> QED
  BY <1>1, <1>2, <1>3 DEF Join

LEMMA MainStepExplained == Explained /\ MainStep => Explained'
<1> SUFFICES ASSUME Explained, MainStep PROVE Explained'
  OBVIOUS
<1>1. CASE Load
  BY <1>1 DEF Load, Enter, End, Explained, ExitExplained, Running
<1>2. CASE StartController
  BY <1>2 DEF StartController, Enter, End, Explained, ExitExplained, Running, Services
<1>3. CASE StartThp
  BY <1>3 DEF StartThp, Enter, Explained, ExitExplained, Running, Services
<1>4. CASE \E t \in Services : Join(t)
  BY <1>4, JoinExplained
<1>5. CASE Shutdown
  BY <1>5 DEF Shutdown, Enter, Explained, ExitExplained, Running
<1>6. CASE MainReturns
  BY <1>6 DEF MainReturns, End, Explained, ExitExplained, Running
<1>7. CASE Register
  <2>1. Running /\ stage = "wait" /\ handlers # Signals
    BY <1>7 DEF Register
  <2>2. \/ UNCHANGED exit
        \/ exit' = "panic" /\ UNCHANGED handlers
    BY <1>7 DEF Register
  <2>3. UNCHANGED <<stage, service, signalled>>
    BY <1>7 DEF Register
  <2> QED
    BY <2>1, <2>2, <2>3 DEF Explained, ExitExplained, Running
<1> QED
  BY <1>1, <1>2, <1>3, <1>4, <1>5, <1>6, <1>7 DEF MainStep

LEMMA ServicesStepExplained == Explained /\ ServicesStep => Explained'
<1> SUFFICES ASSUME Explained, ServicesStep PROVE Explained'
  OBVIOUS
<1>1. CASE DnsEnds
  BY <1>1, ServiceStepExplained DEF DnsEnds, Services
<1>2. CASE ControllerBinds
  BY <1>2, ServiceStepExplained DEF ControllerBinds, Services
<1>3. CASE ControllerEnds
  BY <1>3, ServiceStepExplained DEF ControllerEnds, Services
<1>4. CASE ThpBinds
  BY <1>4 DEF ThpBinds, Explained, ExitExplained, Running, Services
<1>5. CASE ThpBound
  BY <1>5, ServiceStepExplained DEF ThpBound, Services
<1>6. CASE ThpEnds
  BY <1>6, ServiceStepExplained DEF ThpEnds, Services
<1>7. CASE \E l \in Listeners : ListenerDies(l)
  BY <1>7 DEF ListenerDies, Explained, ExitExplained, Running
<1> QED
  BY <1>1, <1>2, <1>3, <1>4, <1>5, <1>6, <1>7 DEF ServicesStep

LEMMA NextExplained == Explained /\ [MainNext]_mainVars => Explained'
<1> SUFFICES ASSUME Explained, [MainNext]_mainVars PROVE Explained'
  OBVIOUS
<1>1. CASE StartDns
  BY <1>1 DEF StartDns, Enter, End, Explained, ExitExplained, Running, Services
<1>2. CASE StartUpstream
  BY <1>2 DEF StartUpstream, Enter, End, Explained, ExitExplained, Running
<1>3. ASSUME NEW sig \in Signals, Signal(sig) PROVE Explained'
  BY <1>3 DEF Signal, Explained, ExitExplained, Running
<1>4. CASE UNCHANGED mainVars
  BY <1>4 DEF mainVars, Explained, ExitExplained
<1> QED
  BY <1>1, <1>2, <1>3, <1>4, MainStepExplained, ServicesStepExplained
     DEF MainNext, ProcessEnded

\* The exit status says what has happened: 0 after a signal that was caught, 1
\* for want of a configuration or for an error of a service, a panic during
\* the wait because the controller could not bind or a handler could not be
\* registered, and no signal kills once both handlers are there (main,
\* signals::shutdown).
THEOREM ExitStatusExplained == MainSpec => []ExitExplained
<1>1. Explained => ExitExplained
  BY DEF Explained
<1> QED
  BY <1>1, InitExplained, NextExplained, PTL DEF MainSpec
=============================================================================
