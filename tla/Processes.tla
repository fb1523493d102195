----------------------------- MODULE Processes ------------------------------
(***************************************************************************)
(* The two programs, dpdk_master (src/network/dpdk/master_serivce.cpp) and *)
(* the gateway (src/gateway/ws_demo/service.cpp), under ToolLauncher: how  *)
(* they start, stop on a signal and end, and what of the NIC's ports the   *)
(* gateway finds.  execute_with_timeout guards the gateway's start with a  *)
(* watcher thread.                                                         *)
(*                                                                         *)
(* The operator is external and does what dpdk_master's help text asks for *)
(* (master_service.h:14-18): the master serves before a gateway is started *)
(* and is stopped only when no gateway runs.  A signal handler may run on  *)
(* any thread, so that the main thread goes on between its two effects.    *)
(***************************************************************************)
EXTENDS Naturals, Sequences

CONSTANTS
  NumPorts,       \* the ports RTE_ETH_FOREACH_DEV visits are 1 .. NumPorts
  MultiQueue,     \* those with more than one receive queue
  SmallReta,      \* those of them whose redirection table has under 4 groups
  GatewayPort,    \* the port of the gateway's interface
  MaxStarts,      \* how often a gateway is started
  MaxSignals      \* how many signals a process gets

VARIABLES
  pc,             \* where each main thread is
  stopped,        \* ToolLauncherContext::stopped
  handler,        \* which effect of a signal handler comes next; 0: none runs
  signals,        \* signals that were handled
  pipe,           \* bytes in signal_pipe_fd
  at, step,       \* the port that init() is at, and what it does next
  mbuf_pools, port_ids,
  pools, started, \* the pools that exist, and the ports that run
  down,           \* recorded ports that the master's destructor is through with
  finished, watcher, attached,   \* of execute_with_timeout and Dpdk's constructor
  starts

launcher == <<stopped, handler, signals, pipe>>
master == <<at, step, mbuf_pools, port_ids, pools, started, down>>
gateway == <<finished, watcher, attached, starts>>
vars == <<pc, launcher, master, gateway>>

Programs == {"master", "gateway"}
Ports == 1 .. NumPorts

ASSUME ProcessesAssumption ==
  /\ NumPorts \in Nat \ {0}
  /\ SmallReta \subseteq MultiQueue /\ MultiQueue \subseteq Ports
  /\ GatewayPort \in Ports
  /\ {MaxStarts, MaxSignals} \subseteq Nat

Down == {"off", "exited"}

Init ==
  /\ pc = [p \in Programs |-> "off"]
  /\ stopped = [p \in Programs |-> FALSE]
  /\ handler = [p \in Programs |-> 0]
  /\ signals = [p \in Programs |-> 0]
  /\ pipe = [p \in Programs |-> 0]
  /\ at = 1 /\ step = "pool"
  /\ mbuf_pools = [i \in Ports |-> 0]
  /\ port_ids = <<>>
  /\ pools = {} /\ started = {} /\ down = 0
  /\ finished = FALSE /\ watcher = "none" /\ attached = FALSE
  /\ starts = 0

Goto(p, where) == pc' = [pc EXCEPT ![p] = where]

-----------------------------------------------------------------------------
\* The operator.
Serving == pc["master"] \in {"test", "read"}

LaunchMaster ==
  /\ pc["master"] = "off"
  /\ Goto("master", "starting")
  /\ UNCHANGED <<launcher, master, gateway>>

LaunchGateway ==
  /\ pc["gateway"] \in Down
  /\ Serving /\ signals["master"] = 0
  /\ starts < MaxStarts
  /\ starts' = starts + 1
  /\ Goto("gateway", "starting")
  /\ stopped' = [stopped EXCEPT !["gateway"] = FALSE]
  /\ handler' = [handler EXCEPT !["gateway"] = 0]
  /\ signals' = [signals EXCEPT !["gateway"] = 0]
  /\ pipe' = [pipe EXCEPT !["gateway"] = 0]
  /\ finished' = FALSE /\ watcher' = "none" /\ attached' = FALSE
  /\ UNCHANGED master

MaySignal(p) == p = "master" => pc["gateway"] \in Down

-----------------------------------------------------------------------------
\* ToolLauncher.

\* run() up to impl->run(): the pipe and the handlers.  A signal before that
\* ends the program.  The gateway's run() reads its configuration, which may
\* fail, and starts the watcher.
Run(p) ==
  /\ pc[p] = "starting"
  /\ \/ /\ Goto(p, "init")
        /\ watcher' = IF p = "gateway" THEN "loop" ELSE watcher
     \/ /\ p = "gateway"
        /\ Goto(p, "exited")
        /\ UNCHANGED watcher
  /\ UNCHANGED <<launcher, master, finished, attached, starts>>

SignalEarly(p) ==
  /\ pc[p] = "starting" /\ MaySignal(p)
  /\ Goto(p, "exited")
  /\ UNCHANGED <<launcher, master, gateway>>

\* A handler that wakes the reader before it sets the flag.
HandlerOrderWakingFirst == <<"pipe", "flag">>

\* interrupt_signal_handler: the flag, and then the byte that wakes
\* wait_for_signal.
HandlerOrder == <<"flag", "pipe">>

Signal(p) ==
  /\ pc[p] \notin Down \cup {"starting"} /\ MaySignal(p)
  /\ signals[p] < MaxSignals /\ handler[p] = 0
  /\ signals' = [signals EXCEPT ![p] = @ + 1]
  /\ handler' = [handler EXCEPT ![p] = 1]
  /\ UNCHANGED <<pc, stopped, pipe, master, gateway>>

Handle(p) ==
  /\ handler[p] # 0 /\ pc[p] # "exited"
  /\ LET effect == HandlerOrder[handler[p]]
     IN /\ stopped' = [stopped EXCEPT ![p] = @ \/ effect = "flag"]
        /\ pipe' = [pipe EXCEPT ![p] = @ + IF effect = "pipe" THEN 1 ELSE 0]
  /\ handler' = [handler EXCEPT ![p] = (@ + 1) % (Len(HandlerOrder) + 1)]
  /\ UNCHANGED <<pc, signals, master, gateway>>

-----------------------------------------------------------------------------
\* dpdk_master: init(), one port after the other.
AtPort(what) == pc["master"] = "init" /\ at \in Ports /\ step = what

\* `i` of init(): as many as have been recorded.
NextIndex == Len(port_ids) + 1

CreatePool ==
  /\ AtPort("pool")
  /\ pools' = pools \cup {at}
  /\ mbuf_pools' = [i \in Ports |-> IF i = NextIndex THEN at ELSE mbuf_pools[i]]
  /\ step' = "start"
  /\ UNCHANGED <<pc, launcher, at, port_ids, started, down, gateway>>

\* A port whose queues are set up and which is not started.
StartPortForgotten ==
  /\ AtPort("start")
  /\ step' = "reta"
  /\ UNCHANGED <<pc, launcher, at, mbuf_pools, port_ids, pools, started, down, gateway>>

\* Queues, rte_eth_dev_start, promiscuous mode (which may fail).
StartPort ==
  /\ AtPort("start")
  /\ started' = started \cup {at}
  /\ step' = "reta"
  /\ UNCHANGED <<pc, launcher, at, mbuf_pools, port_ids, pools, down, gateway>>

FinishPort ==
  /\ AtPort("reta")
  /\ port_ids' = Append(port_ids, at)
  /\ at' = at + 1
  /\ step' = "pool"
  /\ UNCHANGED <<pc, launcher, mbuf_pools, pools, started, down, gateway>>

\* rte_eal_cleanup, or the end of the process, takes what is left.
MasterExits ==
  /\ Goto("master", "exited")
  /\ pools' = {} /\ started' = {}
  /\ UNCHANGED <<launcher, at, step, mbuf_pools, port_ids, down, gateway>>

\* The samples logged after the table is read back are [1], [3], ... of a
\* vector with one element per group: past its end when the table is small.
ReadBackPastEnd ==
  /\ AtPort("reta") /\ at \in SmallReta
  /\ MasterExits

\* A REQUIRE_EQ of init() throws; run() of the launcher catches, and main
\* destroys the service.
InitFails ==
  /\ \E what \in {"pool", "start", "reta"} :
       AtPort(what) /\ (what = "reta" => at \in MultiQueue)
  /\ Goto("master", "ending")
  /\ UNCHANGED <<launcher, master, gateway>>

InitDone ==
  /\ pc["master"] = "init" /\ at \notin Ports
  /\ Goto("master", "test")
  /\ UNCHANGED <<launcher, master, gateway>>

\* The loop of run(): is_stopped, wait_for_signal.
MasterTests ==
  /\ pc["master"] = "test"
  /\ Goto("master", IF stopped["master"] THEN "ending" ELSE "read")
  /\ UNCHANGED <<launcher, master, gateway>>

MasterReads ==
  /\ pc["master"] = "read" /\ pipe["master"] > 0
  /\ pipe' = [pipe EXCEPT !["master"] = @ - 1]
  /\ Goto("master", "test")
  /\ UNCHANGED <<stopped, handler, signals, master, gateway>>

\* ~DpdkMasterServiceImpl: for each recorded port stop, close, free the pool.
Ending == pc["master"] = "ending" /\ down < Len(port_ids)

StopPort ==
  /\ Ending /\ port_ids[down + 1] \in started
  /\ started' = started \ {port_ids[down + 1]}
  /\ UNCHANGED <<pc, launcher, at, step, mbuf_pools, port_ids, pools, down, gateway>>

\* A pool that is freed under a running port.
FreePoolFirst ==
  /\ Ending
  /\ pools' = pools \ {mbuf_pools[down + 1]}
  /\ down' = down + 1
  /\ UNCHANGED <<pc, launcher, at, step, mbuf_pools, port_ids, started, gateway>>

FreePool ==
  /\ Ending /\ port_ids[down + 1] \notin started
  /\ pools' = pools \ {mbuf_pools[down + 1]}
  /\ down' = down + 1
  /\ UNCHANGED <<pc, launcher, at, step, mbuf_pools, port_ids, started, gateway>>

Cleanup ==
  /\ pc["master"] = "ending" /\ down = Len(port_ids)
  /\ MasterExits

-----------------------------------------------------------------------------
\* The gateway: execute_with_timeout around Dpdk's constructor.

\* The constructor returns, with a Device on the pool it has looked up, or a
\* REQUIRE throws.  It may also never return.
ConstructDpdk ==
  /\ pc["gateway"] = "init"
  /\ \/ GatewayPort \in pools /\ attached' = TRUE
     \/ attached' = FALSE
  /\ Goto("gateway", "flag")
  /\ UNCHANGED <<launcher, master, finished, watcher, starts>>

SetFinished ==
  /\ pc["gateway"] = "flag"
  /\ finished' = TRUE
  /\ Goto("gateway", "join")
  /\ UNCHANGED <<launcher, master, watcher, attached, starts>>

\* A Thread that is detached.
JoinDetached ==
  /\ pc["gateway"] = "join"
  /\ Goto("gateway", IF attached THEN "connect" ELSE "exited")
  /\ UNCHANGED <<launcher, master, gateway>>

\* ~Thread joins; then the constructor's caller goes on, or the exception.
Join ==
  /\ pc["gateway"] = "join" /\ watcher = "ended"
  /\ Goto("gateway", IF attached THEN "connect" ELSE "exited")
  /\ UNCHANGED <<launcher, master, gateway>>

\* A watcher that looks at nothing but the flag.
WatcherLeavesOnFlag ==
  /\ watcher = "loop" /\ pc["gateway"] # "exited" /\ finished
  /\ watcher' = "last"
  /\ UNCHANGED <<pc, launcher, master, finished, attached, starts>>

\* The watcher's loop ends when the flag is set or the time is up, which may
\* be at any moment ...
WatcherLeaves ==
  /\ watcher = "loop" /\ pc["gateway"] # "exited"
  /\ watcher' = "last"
  /\ UNCHANGED <<pc, launcher, master, finished, attached, starts>>

\* ... then it looks at the flag again ...
WatcherTests ==
  /\ watcher = "last"
  /\ watcher' = IF finished THEN "ended" ELSE "exit"
  /\ UNCHANGED <<pc, launcher, master, finished, attached, starts>>

\* ... and ends the process: std::exit destroys no local variable.
WatcherExits ==
  /\ watcher = "exit"
  /\ watcher' = "ended"
  /\ Goto("gateway", "exited")
  /\ UNCHANGED <<launcher, master, finished, attached, starts>>

\* The clients' constructors, which send the SYN and may throw.
Connect ==
  /\ pc["gateway"] = "connect"
  /\ \/ Goto("gateway", "test")
     \/ Goto("gateway", "ending")
  /\ UNCHANGED <<launcher, master, gateway>>

\* run_worker: is_stopped, then a packet, whose handler may throw.  What it
\* does with the packet is the other modules' matter.
WorkerTests ==
  /\ pc["gateway"] = "test"
  /\ Goto("gateway", IF stopped["gateway"] THEN "ending" ELSE "poll")
  /\ UNCHANGED <<launcher, master, gateway>>

WorkerPolls ==
  /\ pc["gateway"] = "poll"
  /\ \/ Goto("gateway", "test")
     \/ Goto("gateway", "ending")
  /\ UNCHANGED <<launcher, master, gateway>>

\* The locals of run_worker are destroyed: a RST, the devices' mbufs.
WorkerEnds ==
  /\ pc["gateway"] = "ending"
  /\ Goto("gateway", "exited")
  /\ UNCHANGED <<launcher, master, gateway>>

-----------------------------------------------------------------------------
MasterStep ==
  \/ CreatePool \/ StartPort \/ FinishPort \/ ReadBackPastEnd \/ InitFails \/ InitDone
  \/ MasterTests \/ MasterReads
  \/ StopPort \/ FreePool \/ Cleanup

\* But for the constructor, which may hang.
GatewayStep == SetFinished \/ Join \/ Connect \/ WorkerTests \/ WorkerPolls \/ WorkerEnds

WatcherStep == WatcherLeaves \/ WatcherTests \/ WatcherExits

Next ==
  \/ LaunchMaster \/ LaunchGateway
  \/ \E p \in Programs : Run(p) \/ SignalEarly(p) \/ Signal(p) \/ Handle(p)
  \/ MasterStep
  \/ ConstructDpdk \/ GatewayStep
  \/ WatcherStep

Spec == Init /\ [][Next]_vars

\* Every thread runs, handlers included, and DPDK's calls return, but for the
\* gateway's initialisation.  So does the handling of a packet, which is what
\* WorkerComesBack of TlsClient is about.  The operator need not do anything.
FairSpec ==
  /\ Spec
  /\ \A p \in Programs : WF_vars(Run(p)) /\ WF_vars(Handle(p))
  /\ WF_vars(MasterStep)
  /\ WF_vars(GatewayStep)
  /\ WF_vars(WatcherStep)

-----------------------------------------------------------------------------
\* A program whose handler has set the stop flag ends, wherever the signal
\* found it: the master between is_stopped() and read() of wait_for_signal
\* too, and the gateway in an initialisation that hangs.
StopEnds == \A p \in Programs : stopped[p] ~> pc[p] = "exited"

\* An initialisation of DPDK that hangs does not hang the gateway: it comes to
\* its loop, or ends, with the time that execute_with_timeout gives it.
InitResolves ==
  pc["gateway"] = "init" ~> pc["gateway"] \in {"connect", "test", "poll", "ending", "exited"}

\* The watcher never ends a gateway that has come out of execute_with_timeout:
\* std::exit is called only while the main thread is in it.
NoLateExit == watcher = "exit" => pc["gateway"] \in {"init", "flag", "join"}

\* A running port has its pool: ~DpdkMasterServiceImpl frees, for every port
\* it stops, the pool of that port and not before, also when init() has
\* failed half-way.
StartedHasPool == started \subseteq pools

\* "Must be active during all other services lifetime" (master_service.h:18):
\* with an operator who keeps to it, the gateway's port runs and its pool
\* exists from the first poll to the last destructor.
GatewayOnLivePort ==
  pc["gateway"] \in {"connect", "test", "poll", "ending"} => GatewayPort \in started \cap pools
=============================================================================
