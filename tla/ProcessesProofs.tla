-------------------------- MODULE ProcessesProofs ----------------------------
(***************************************************************************)
(* The safety properties of Processes, for every number of ports, starts   *)
(* and signals.                                                            *)
(***************************************************************************)
EXTENDS Processes, TLAPS

\* The types the proofs use.
Types ==
  /\ pc \in [Programs -> {"off", "starting", "init", "flag", "join", "connect",
                          "test", "read", "poll", "ending", "exited"}]
  /\ pc["master"] \notin {"flag", "join", "connect", "poll"}
  /\ stopped \in [Programs -> BOOLEAN]
  /\ handler \in [Programs -> Nat]
  /\ signals \in [Programs -> Nat]
  /\ at \in 1 .. NumPorts + 1
  /\ step \in {"pool", "start", "reta"}
  /\ mbuf_pools \in [Ports -> Nat]
  /\ port_ids \in Seq(Ports)
  /\ down \in Nat

\* The watcher runs only while the main thread is in execute_with_timeout.
WatcherInside ==
  /\ pc["gateway"] = "starting" => watcher = "none"
  /\ watcher \in {"loop", "last", "exit"} => pc["gateway"] \in {"init", "flag", "join"}

\* init() has been through the ports before `at`, and has recorded each at
\* its own index, with its own pool.
Recorded ==
  /\ Len(port_ids) = at - 1
  /\ \A i \in 1 .. at - 1 : port_ids[i] = i /\ mbuf_pools[i] = i
  /\ at \in Ports /\ step # "pool" => mbuf_pools[at] = at
  /\ at \notin Ports => step = "pool"
  /\ pc["master"] \in {"off", "starting"} => at = 1 /\ step = "pool"

\* What exists and runs, until the destructor begins.
UpTo(n) == 1 .. n
Built ==
  /\ pc["master"] \in {"off", "starting", "init", "test", "read"} =>
       /\ pools = UpTo(IF step = "pool" THEN at - 1 ELSE at)
       /\ started = UpTo(IF step = "reta" THEN at ELSE at - 1)
       /\ down = 0
  /\ Serving => at = NumPorts + 1

\* A gateway runs only under a master that serves and has had no signal.
MasterServes ==
  /\ signals["master"] = 0 => handler["master"] = 0 /\ ~ stopped["master"]
  /\ pc["gateway"] \notin Down => Serving /\ signals["master"] = 0

Inv == Types /\ WatcherInside /\ Recorded /\ Built /\ MasterServes /\ StartedHasPool

USE DEF Programs, Ports, Down, Goto, Serving, launcher, master, gateway, UpTo

-----------------------------------------------------------------------------
\* handler counts through HandlerOrder and back to 0.
LEMMA ModThree == \A n \in Nat : (n + 1) % 3 \in Nat
OBVIOUS

LEMMA PortsBefore == \A n \in Ports : \A i \in 1 .. n - 1 : i \in Ports \ {n}
BY ProcessesAssumption

LEMMA InvInit == Init => Inv
BY ProcessesAssumption DEF Init, Inv, Types, WatcherInside, Recorded, Built, MasterServes, StartedHasPool

\* A step of ToolLauncher or the operator.
LEMMA InvLauncher ==
  ASSUME Inv,
         \/ LaunchMaster \/ LaunchGateway
         \/ \E p \in Programs : Run(p) \/ SignalEarly(p) \/ Signal(p) \/ Handle(p)
  PROVE  Inv'
<1> USE ProcessesAssumption DEF Inv, Types, WatcherInside, Recorded, Built, MasterServes, StartedHasPool
<1>1. CASE LaunchMaster
  BY <1>1 DEF LaunchMaster
<1>2. CASE LaunchGateway
  BY <1>2, Zenon DEF LaunchGateway
<1>3. ASSUME NEW p \in Programs, Run(p)
      PROVE  Inv'
  <2>1. CASE p = "master"
    BY <1>3, <2>1 DEF Run
  <2>2. CASE p = "gateway"
    BY <1>3, <2>2, Zenon DEF Run
  <2>3. QED
    BY <2>1, <2>2, Zenon
<1>4. ASSUME NEW p \in Programs, SignalEarly(p)
      PROVE  Inv'
  BY <1>4, Zenon DEF SignalEarly, MaySignal
<1>5. ASSUME NEW p \in Programs, Signal(p)
      PROVE  Inv'
  <2>1. /\ signals' = [signals EXCEPT ![p] = signals[p] + 1] /\ signals[p] \in Nat
        /\ handler' = [handler EXCEPT ![p] = 1]
        /\ UNCHANGED <<pc, stopped, master, gateway>>
    BY <1>5 DEF Signal
  <2>2. /\ signals' \in [Programs -> Nat] /\ signals'[p] # 0
        /\ handler' \in [Programs -> Nat]
        /\ \A q \in Programs \ {p} : signals'[q] = signals[q] /\ handler'[q] = handler[q]
    <3>1. signals \in [Programs -> Nat] /\ handler \in [Programs -> Nat]
      OBVIOUS
    <3> HIDE DEF Inv, Programs
    <3>2. QED
      BY <2>1, <3>1
  <2>3. p = "master" => pc["gateway"] \in Down
    BY <1>5 DEF Signal, MaySignal
  <2>4. QED
    BY <2>1, <2>2, <2>3, Zenon
<1>6. ASSUME NEW p \in Programs, Handle(p)
      PROVE  Inv'
  <2> DEFINE effect == HandlerOrder[handler[p]]
  <2>1. /\ stopped' \in [Programs -> BOOLEAN]
        /\ \A q \in Programs \ {p} : stopped'[q] = stopped[q]
    BY <1>6, Zenon DEF Handle
  <2>2. /\ handler' \in [Programs -> Nat]
        /\ \A q \in Programs \ {p} : handler'[q] = handler[q]
    <3>1. handler' = [handler EXCEPT ![p] = (handler[p] + 1) % 3]
      BY <1>6 DEF Handle, HandlerOrder
    <3>2. (handler[p] + 1) % 3 \in Nat
      BY ModThree, Zenon
    <3>3. QED
      BY <3>1, <3>2
  <2>3. UNCHANGED <<pc, signals, master, gateway>> /\ handler[p] # 0
    BY <1>6 DEF Handle
  <2>4. p = "master" => signals["master"] # 0
    BY <2>3
  <2>5. QED
    BY <2>1, <2>2, <2>3, <2>4, Zenon
<1>7. QED
  BY <1>1, <1>2, <1>3, <1>4, <1>5, <1>6, Zenon

\* A step of dpdk_master.
LEMMA InvMaster ==
  ASSUME Inv, MasterStep
  PROVE  Inv'
<1> USE ProcessesAssumption DEF Inv, Types, WatcherInside, Recorded, Built, MasterServes, StartedHasPool
<1>1. CASE CreatePool
  <2>1. NextIndex = at
    BY DEF NextIndex
  <2>2. /\ mbuf_pools' \in [Ports -> Nat] /\ mbuf_pools'[at] = at
        /\ \A i \in Ports \ {at} : mbuf_pools'[i] = mbuf_pools[i]
    BY <1>1, <2>1 DEF CreatePool, AtPort
  <2>3. Types' /\ WatcherInside' /\ MasterServes'
    BY <1>1, <2>2 DEF CreatePool, AtPort
  <2>4. Recorded'
    <3>1. UNCHANGED <<pc, port_ids, at>> /\ step' = "start" /\ at \in Ports /\ pc["master"] = "init"
      BY <1>1 DEF CreatePool, AtPort
    <3>2. \A i \in 1 .. at - 1 : i \in Ports \ {at}
      BY <3>1, PortsBefore, Zenon
    <3>3. QED
      BY <2>2, <3>1, <3>2, Zenon
  <2>5. Built' /\ StartedHasPool'
    BY <1>1 DEF CreatePool, AtPort
  <2>6. QED
    BY <2>3, <2>4, <2>5, Zenon
<1>2. CASE StartPort
  BY <1>2 DEF StartPort, AtPort
<1>3. CASE FinishPort
  BY <1>3 DEF FinishPort, AtPort
<1>4. CASE ReadBackPastEnd
  BY <1>4 DEF ReadBackPastEnd, MasterExits, AtPort
<1>5. CASE InitFails
  BY <1>5 DEF InitFails, AtPort
<1>6. CASE InitDone
  <2>1. at = NumPorts + 1
    BY <1>6 DEF InitDone
  <2>2. Types' /\ WatcherInside' /\ MasterServes'
    BY <1>6, Zenon DEF InitDone
  <2>3. Recorded' /\ Built' /\ StartedHasPool'
    BY <1>6, <2>1 DEF InitDone
  <2>4. QED
    BY <2>2, <2>3, Zenon
<1>7. CASE MasterTests
  BY <1>7 DEF MasterTests
<1>8. CASE MasterReads
  BY <1>8 DEF MasterReads
<1>9. CASE StopPort
  BY <1>9, Zenon DEF StopPort, Ending
<1>10. CASE FreePool
  <2>1. mbuf_pools[down + 1] = down + 1 /\ port_ids[down + 1] = down + 1
    <3>1. down + 1 \in 1 .. Len(port_ids)
      BY <1>10 DEF FreePool, Ending
    <3>2. QED
      BY <3>1, Zenon
  <2>2. StartedHasPool'
    BY <1>10, <2>1 DEF FreePool
  <2>3. /\ UNCHANGED <<pc, launcher, at, step, mbuf_pools, port_ids, gateway>>
        /\ down' \in Nat /\ pc["master"] = "ending"
    BY <1>10 DEF FreePool, Ending
  <2>4. Types' /\ WatcherInside' /\ Recorded' /\ Built' /\ MasterServes'
    BY <2>3
  <2>5. QED
    BY <2>2, <2>4, Zenon
<1>11. CASE Cleanup
  BY <1>11 DEF Cleanup, MasterExits
<1>12. QED
  BY <1>1, <1>2, <1>3, <1>4, <1>5, <1>6, <1>7, <1>8, <1>9, <1>10, <1>11, Zenon DEF MasterStep

\* A step of the gateway's main thread or its watcher.
LEMMA InvGateway ==
  ASSUME Inv, ConstructDpdk \/ GatewayStep \/ WatcherStep
  PROVE  Inv'
<1> USE ProcessesAssumption DEF Inv, Types, WatcherInside, Recorded, Built, MasterServes, StartedHasPool
<1>1. CASE ConstructDpdk
  BY <1>1, Zenon DEF ConstructDpdk
<1>2. CASE SetFinished
  BY <1>2, Zenon DEF SetFinished
<1>3. CASE Join
  BY <1>3, Zenon DEF Join
<1>4. CASE Connect
  BY <1>4, Zenon DEF Connect
<1>5. CASE WorkerTests
  BY <1>5, Zenon DEF WorkerTests
<1>6. CASE WorkerPolls
  BY <1>6, Zenon DEF WorkerPolls
<1>7. CASE WorkerEnds
  BY <1>7, Zenon DEF WorkerEnds
<1>8. CASE WatcherLeaves
  BY <1>8, Zenon DEF WatcherLeaves
<1>9. CASE WatcherTests
  BY <1>9, Zenon DEF WatcherTests
<1>10. CASE WatcherExits
  BY <1>10, Zenon DEF WatcherExits
<1>11. QED
  BY <1>1, <1>2, <1>3, <1>4, <1>5, <1>6, <1>7, <1>8, <1>9, <1>10, Zenon DEF GatewayStep, WatcherStep

-----------------------------------------------------------------------------
\* The conjunction of what the lemmas above say of a step of the system.
THEOREM Inductive == Spec => []Inv
<1>1. Inv /\ [Next]_vars => Inv'
  <2> SUFFICES ASSUME Inv, [Next]_vars
               PROVE  Inv'
    OBVIOUS
  <2>1. CASE UNCHANGED vars
    BY <2>1 DEF vars, Inv, Types, WatcherInside, Recorded, Built, MasterServes, StartedHasPool
  <2>2. CASE Next
    BY <2>2, InvLauncher, InvMaster, InvGateway DEF Next
  <2>3. QED
    BY <2>1, <2>2
<1>2. QED
  BY <1>1, InvInit, PTL DEF Spec

(***************************************************************************)
(* std::exit of the watcher (execute_with_timeout) hits the main thread    *)
(* only inside execute_with_timeout.                                       *)
(***************************************************************************)
THEOREM NoLateExitAlways == Spec => []NoLateExit
<1>1. Inv => NoLateExit
  BY DEF Inv, WatcherInside, NoLateExit
<1>2. QED
  BY <1>1, Inductive, PTL

(***************************************************************************)
(* A port runs only on a pool that exists, however many ports there are    *)
(* and wherever init() failed.                                             *)
(***************************************************************************)
THEOREM StartedHasPoolAlways == Spec => []StartedHasPool
<1>1. Inv => StartedHasPool
  BY DEF Inv
<1>2. QED
  BY <1>1, Inductive, PTL

(***************************************************************************)
(* Between its first poll and its last destructor the gateway's port runs  *)
(* and has its pool, however often gateways come and go.                   *)
(***************************************************************************)
THEOREM GatewayOnLivePortAlways == Spec => []GatewayOnLivePort
<1>1. Inv => GatewayOnLivePort
  <2> SUFFICES ASSUME Inv, pc["gateway"] \notin Down
               PROVE  GatewayPort \in started \cap pools
    BY DEF GatewayOnLivePort
  <2>1. Serving /\ at = NumPorts + 1
    BY DEF Inv, MasterServes, Built
  <2>2. step = "pool"
    BY <2>1, ProcessesAssumption DEF Inv, Recorded
  <2>3. pools = 1 .. NumPorts /\ started = 1 .. NumPorts
    BY <2>1, <2>2, ProcessesAssumption DEF Inv, Built
  <2>4. QED
    BY <2>3, ProcessesAssumption
<1>2. QED
  BY <1>1, Inductive, PTL
=============================================================================
