--------------------------- MODULE DesktopDaemon ----------------------------
(***************************************************************************)
(* The rVPN daemon on macOS and Windows: RVPNDaemon with the platform's    *)
(* WireguardDaemon, the client that drives it over net/rpc, its jrpc       *)
(* connections to the control plane, and the kernel state it changes.      *)
(* These devices connect and never serve.  On macOS the main goroutine     *)
(* runs Start.  On Windows it runs Execute, the handler of the service     *)
(* manager's requests, and Start runs in a goroutine beside it; the        *)
(* process ends when the main goroutine returns.                           *)
(*                                                                         *)
(* Simplifications, as in RvpnDaemon:                                      *)
(*  - The state file holds a key pair.                                     *)
(*  - The default interface never changes.                                 *)
(*  - A system call fails only where the state of the kernel makes it: a   *)
(*    route that is there already, or is not; a device that is closed.     *)
(*    Other failures end in log.Fatalf and are a Crash.                    *)
(***************************************************************************)
CONSTANTS
    Nil,
    Platform,           \* the platforms considered
    Session,            \* jrpc connections to the control plane, each used once
    ServerIp,           \* public addresses of VPN servers
    ControlPlaneIp,     \* the address of the control plane
    Crashes             \* whether the process may die at any moment

ASSUME PlatformAssumption == Platform \subseteq {"darwin", "windows"} /\ Crashes \in BOOLEAN
ASSUME DesktopAssumption ==
    Nil \notin Session /\ Nil \notin ServerIp /\ ControlPlaneIp \notin ServerIp

VARIABLES
    os,         \* the platform
    main,       \* the main goroutine: in Start on macOS, in Execute on Windows
    daemon,     \* Start: where it is
    ended,      \* how the last process ended
    leftover,   \* history: the process found routes of an earlier one
    hasty,      \* history: someone did not wait until the daemon was settled
    cli,        \* the RPC connection being served, and its jrpc connection
    rvpn,       \* fields of RVPNDaemon
    wg,         \* fields of WireguardDaemon
    jrpc,       \* the jrpc connections and their handlers
    net         \* the kernel: routes and the WireGuard device

life == <<os, main, daemon, ended, leftover>>
vars == <<os, main, daemon, ended, leftover, hasty, cli, rvpn, wg, jrpc, net>>

Closing == {"closing", "server", "cp"}
ConfPc == {"up", "default", "cproute", "deltun", "tun", "conf", "connected"}

RpcConn == [pc : {"idle", "connect", "assign", "down", "routes", "close"},
            session : Session \cup {Nil}]
Rvpn == [status : {"Disconnected", "Connected"}, jrpcConn : Session \cup {Nil}]
Wg == [default : BOOLEAN, serverIP : ServerIp \cup {Nil}, routes : BOOLEAN]
Jrpc == [pc : {"new", "idle", "done"} \cup ConfPc, link : {"up", "closed"},
         serverIp : ServerIp \cup {Nil}]
Net == [open : BOOLEAN, up : BOOLEAN, conf : ServerIp \cup {Nil}, tunRoutes : BOOLEAN,
        hostRoutes : SUBSET (ServerIp \cup {ControlPlaneIp})]

NoRpc == [pc |-> "idle", session |-> Nil]
(* NewRVPNDaemon; NewWireguardDaemon: no default interface (DefaultIFaceName, *)
(* DefaultAdapter) and no routes (appendedRoutes, prevRoutes).             *)
NewRvpn == [status |-> "Disconnected", jrpcConn |-> Nil]
NewWg == [default |-> FALSE, serverIP |-> Nil, routes |-> FALSE]

(* The device is there and up; the TUN interface goes away with its routes. *)
Opened(n) == [n EXCEPT !.open = TRUE, !.up = TRUE]
Closed(n) == [n EXCEPT !.open = FALSE, !.up = FALSE, !.conf = Nil, !.tunRoutes = FALSE]

Init ==
    /\ os \in Platform
    /\ main = "off" /\ daemon = "off" /\ ended = "none"
    /\ leftover = FALSE /\ hasty = FALSE
    /\ cli = NoRpc /\ rvpn = NewRvpn /\ wg = NewWg
    /\ jrpc = [s \in Session |-> [pc |-> "new", link |-> "closed", serverIp |-> Nil]]
    /\ net = [open |-> FALSE, up |-> FALSE, conf |-> Nil, tunRoutes |-> FALSE,
              hostRoutes |-> {}]

-----------------------------------------------------------------------------
(* The life of the process.                                                *)

(* Nothing is under way and nothing is awaited from the control plane. *)
Settled ==
    /\ cli.pc = "idle" /\ daemon \notin Closing /\ main # "sending"
    /\ \A s \in Session : /\ jrpc[s].pc \notin ConfPc
                          /\ jrpc[s].pc = "idle" => jrpc[s].link = "closed"

Note == hasty' = (hasty \/ ~Settled)

(* The process ends: its connections are closed, and the routes on the     *)
(* default interface stay.                                                 *)
ProcessEnds(how) ==
    /\ main' = "off" /\ daemon' = "off" /\ ended' = how
    /\ cli' = NoRpc /\ rvpn' = NewRvpn /\ wg' = NewWg
    /\ jrpc' = [s \in Session |->
                IF jrpc[s].pc = "new" THEN jrpc[s]
                ELSE [jrpc[s] EXCEPT !.pc = "done", !.link = "closed"]]
    /\ net' = Closed(net)
    /\ UNCHANGED <<os, leftover, hasty>>

(* log.Fatalf or a nil dereference in a handler, with the device open or   *)
(* after it was closed.                                                    *)
Fatal == ProcessEnds(IF net.open THEN "fatal" ELSE "late")

Crash == Crashes /\ main # "off" /\ ProcessEnds("killed")

(* StartRVPNDaemon: on Windows EnsureServiceStarted has the service        *)
(* manager start the process, and takes a service that is running for      *)
(* started; on macOS the user starts it.                                   *)
StartRVPNDaemon ==
    /\ main = "off"
    /\ main' = IF os = "windows" THEN "loop" ELSE "start"
    /\ daemon' = "starting" /\ ended' = "none"
    /\ leftover' = (net.hostRoutes # {}) /\ hasty' = FALSE
    /\ UNCHANGED <<os, cli, rvpn, wg, jrpc, net>>

(* Start up to its select: the state file, the device, the RPC server. *)
StartDevice ==
    /\ daemon = "starting"
    /\ daemon' = "select"
    /\ net' = Opened(net)
    /\ UNCHANGED <<os, main, ended, leftover, hasty, cli, rvpn, wg, jrpc>>

(* Execute gets svc.Stop or svc.Shutdown, at any time, and calls Stop. *)
ServiceStop ==
    /\ main = "loop"
    /\ main' = "sending" /\ Note
    /\ UNCHANGED <<os, daemon, ended, leftover, cli, rvpn, wg, jrpc, net>>

(* Mutant: the channel was never made. *)
ManualTermNil ==
    /\ main = "sending" /\ daemon = "select" /\ main # "sending"
    /\ main' = "returning" /\ daemon' = "closing"
    /\ UNCHANGED <<os, ended, leftover, hasty, cli, rvpn, wg, jrpc, net>>

(* Stop and the select of Start meet on manualTerm, which has no buffer. *)
ManualTerm ==
    /\ main = "sending" /\ daemon = "select"
    /\ main' = "returning" /\ daemon' = "closing"
    /\ UNCHANGED <<os, ended, leftover, hasty, cli, rvpn, wg, jrpc, net>>

(* The other cases of the select: a signal, an error of the UAPI listener, *)
(* or the WireGuard device has closed.                                     *)
Terminated ==
    /\ daemon = "select"
    /\ daemon' = "closing" /\ Note
    /\ UNCHANGED <<os, main, ended, leftover, cli, rvpn, wg, jrpc, net>>

-----------------------------------------------------------------------------
(* ShutdownDevice.                                                         *)

GotoDaemon(pc, n) ==
    /\ daemon' = pc /\ net' = n
    /\ UNCHANGED <<os, main, ended, leftover, hasty, cli, rvpn, wg, jrpc>>

(* The listener and the device are closed. *)
ShutdownClose == daemon = "closing" /\ GotoDaemon("server", Closed(net))

Without(route) == [net EXCEPT !.hostRoutes = @ \ {route}]

(* macOS: if there is a default interface, the route to the server that    *)
(* was configured last is deleted, and must be there; ...                  *)
DarwinShutdownServer ==
    /\ os = "darwin" /\ daemon = "server"
    /\ \/ ~wg.default /\ GotoDaemon("returned", net)
       \/ wg.default /\ wg.serverIP \notin net.hostRoutes /\ ProcessEnds("unclean")
       \/ wg.default /\ wg.serverIP \in net.hostRoutes /\ GotoDaemon("cp", Without(wg.serverIP))

(* Mutant: only the server's route is removed. *)
DarwinShutdownCpKept ==
    /\ os = "darwin" /\ daemon = "cp"
    /\ IF ControlPlaneIp \in net.hostRoutes THEN GotoDaemon("returned", net)
       ELSE ProcessEnds("unclean")

(* ... and so must the route to the control plane.  The appended routes    *)
(* went with the TUN interface; deleting them only logs errors.            *)
DarwinShutdownCp ==
    /\ os = "darwin" /\ daemon = "cp"
    /\ IF ControlPlaneIp \in net.hostRoutes THEN GotoDaemon("returned", Without(ControlPlaneIp))
       ELSE ProcessEnds("unclean")

(* Windows: the default adapter is dereferenced, and errors are ignored. *)
WindowsShutdownServer ==
    /\ os = "windows" /\ daemon = "server"
    /\ IF wg.default THEN GotoDaemon("cp", Without(wg.serverIP)) ELSE ProcessEnds("unclean")

WindowsShutdownCp ==
    /\ os = "windows" /\ daemon = "cp"
    /\ GotoDaemon("returned", Without(ControlPlaneIp))

(* Start returns: the end of the process on macOS, of a goroutine on       *)
(* Windows.                                                                *)
StartReturns == daemon = "returned" /\ main = "start" /\ ProcessEnds("stopped")

(* Execute returns, wherever the goroutine with ShutdownDevice is. *)
ExecuteReturns == main = "returning" /\ ProcessEnds("stopped")

-----------------------------------------------------------------------------
(* The command line and the graphical client, one connection at a time.    *)

(* The RPC server is there from the end of Start's set-up to the end of    *)
(* the process.                                                            *)
Listening == daemon \notin {"off", "starting"}

CliStep(pc) ==
    /\ cli' = [cli EXCEPT !.pc = pc]
    /\ UNCHANGED <<life, rvpn, wg, jrpc, net>>

(* The status is looked at first. *)
ConnectProfile ==
    /\ Listening /\ cli.pc = "idle" /\ rvpn.status = "Disconnected"
    /\ CliStep("connect") /\ Note

(* The user is not logged in, or the control plane cannot be reached. *)
ConnectGivesUp == cli.pc = "connect" /\ CliStep("idle") /\ UNCHANGED hasty

(* websocket.Dial and NewConn: from then on requests are handled. *)
Connect(s) ==
    /\ cli.pc = "connect" /\ jrpc[s].pc = "new"
    /\ cli' = [pc |-> "assign", session |-> s]
    /\ jrpc' = [jrpc EXCEPT ![s].pc = "idle", ![s].link = "up"]
    /\ UNCHANGED <<life, hasty, rvpn, wg, net>>

Assign ==
    /\ cli.pc = "assign"
    /\ rvpn' = [rvpn EXCEPT !.jrpcConn = cli.session]
    /\ cli' = NoRpc
    /\ UNCHANGED <<life, hasty, wg, jrpc, net>>

DisconnectProfile ==
    /\ Listening /\ cli.pc = "idle" /\ rvpn.status # "Disconnected"
    /\ CliStep("down") /\ Note

(* RVPNDaemon.Disconnect: the device goes down, ... *)
DisconnectDown ==
    /\ cli.pc = "down"
    /\ cli' = [cli EXCEPT !.pc = "routes"]
    /\ net' = [net EXCEPT !.up = FALSE]
    /\ UNCHANGED <<life, hasty, rvpn, wg, jrpc>>

(* Mutant: the routes are forgotten before they are deleted. *)
DisconnectForgets ==
    /\ cli.pc = "routes"
    /\ cli' = [cli EXCEPT !.pc = "close"]
    /\ wg' = [wg EXCEPT !.routes = FALSE]
    /\ UNCHANGED <<life, hasty, rvpn, jrpc, net>>

(* ... the routes into it are deleted, errors only logged, ... *)
DisconnectRoutes ==
    /\ cli.pc = "routes"
    /\ cli' = [cli EXCEPT !.pc = "close"]
    /\ net' = [net EXCEPT !.tunRoutes = IF wg.routes THEN FALSE ELSE @]
    /\ wg' = [wg EXCEPT !.routes = FALSE]
    /\ UNCHANGED <<life, hasty, rvpn, jrpc>>

(* ... and the jrpc connection is closed. *)
DisconnectClose ==
    /\ cli.pc = "close"
    /\ IF rvpn.jrpcConn = Nil THEN Fatal
       ELSE /\ cli' = [cli EXCEPT !.pc = "idle"]
            /\ jrpc' = [jrpc EXCEPT ![rvpn.jrpcConn].link = "closed"]
            /\ rvpn' = [rvpn EXCEPT !.status = "Disconnected"]
            /\ UNCHANGED <<life, hasty, wg, net>>

Cli ==
    \/ ConnectProfile \/ ConnectGivesUp \/ (\E s \in Session : Connect(s)) \/ Assign
    \/ DisconnectProfile \/ DisconnectDown \/ DisconnectRoutes \/ DisconnectClose

-----------------------------------------------------------------------------
(* jrpcHandler: connect_server and UpdateClientConf.                       *)

Goto(s, pc) == jrpc' = [jrpc EXCEPT ![s].pc = pc]

(* The control plane calls connect_server, once per connection. *)
ConnectServer(s, ip) ==
    /\ jrpc[s].pc = "idle" /\ jrpc[s].link = "up"
    /\ jrpc' = [jrpc EXCEPT ![s].pc = "up", ![s].serverIp = ip]
    /\ UNCHANGED <<life, hasty, cli, rvpn, wg, net>>

-----------------------------------------------------------------------------
(* UpdateClientConf on macOS.                                              *)

(* Mutant: the address of the server is not kept. *)
DarwinUpNoIp(s) ==
    /\ os = "darwin" /\ jrpc[s].pc = "up"
    /\ IF ~net.open THEN Fatal
       ELSE /\ Goto(s, "default")
            /\ net' = [net EXCEPT !.up = TRUE]
            /\ UNCHANGED <<life, hasty, cli, rvpn, wg>>

(* Mutant: the device stays down after a Disconnect. *)
DarwinUpSkipped(s) ==
    /\ os = "darwin" /\ jrpc[s].pc = "up"
    /\ Goto(s, "default")
    /\ wg' = [wg EXCEPT !.serverIP = jrpc[s].serverIp]
    /\ UNCHANGED <<life, hasty, cli, rvpn, net>>

(* The interface, which must be there, and the device go up. *)
DarwinUp(s) ==
    /\ os = "darwin" /\ jrpc[s].pc = "up"
    /\ IF ~net.open THEN Fatal
       ELSE /\ Goto(s, "default")
            /\ net' = [net EXCEPT !.up = TRUE]
            /\ wg' = [wg EXCEPT !.serverIP = jrpc[s].serverIp]
            /\ UNCHANGED <<life, hasty, cli, rvpn>>

(* The first time only, the server is routed over the default interface,   *)
(* where it must not be routed yet ...                                     *)
DarwinDefault(s) ==
    /\ os = "darwin" /\ jrpc[s].pc = "default"
    /\ \/ /\ wg.default
          /\ Goto(s, "conf")
          /\ UNCHANGED <<life, hasty, cli, rvpn, wg, net>>
       \/ ~wg.default /\ wg.serverIP \in net.hostRoutes /\ Fatal
       \/ /\ ~wg.default /\ wg.serverIP \notin net.hostRoutes
          /\ Goto(s, "cproute")
          /\ wg' = [wg EXCEPT !.default = TRUE]
          /\ net' = [net EXCEPT !.hostRoutes = @ \cup {wg.serverIP}]
          /\ UNCHANGED <<life, hasty, cli, rvpn>>

(* ... and so is the control plane. *)
DarwinCpRoute(s) ==
    /\ os = "darwin" /\ jrpc[s].pc = "cproute"
    /\ IF ControlPlaneIp \in net.hostRoutes THEN Fatal
       ELSE /\ Goto(s, "conf")
            /\ net' = [net EXCEPT !.hostRoutes = @ \cup {ControlPlaneIp}]
            /\ UNCHANGED <<life, hasty, cli, rvpn, wg>>

(* assignInterfaceAddr, whose error is ignored, and ConfigureDevice, which *)
(* only prints that there is no device.                                    *)
DarwinConf(s) ==
    /\ os = "darwin" /\ jrpc[s].pc = "conf"
    /\ Goto(s, "tun")
    /\ net' = [net EXCEPT !.conf = IF net.open THEN jrpc[s].serverIp ELSE @]
    /\ UNCHANGED <<life, hasty, cli, rvpn, wg>>

(* 0.0.0.0/1 and 128.0.0.0/1 are routed into the device. *)
DarwinTun(s) ==
    /\ os = "darwin" /\ jrpc[s].pc = "tun"
    /\ IF ~net.open \/ net.tunRoutes THEN Fatal
       ELSE /\ Goto(s, "connected")
            /\ net' = [net EXCEPT !.tunRoutes = TRUE]
            /\ wg' = [wg EXCEPT !.routes = TRUE]
            /\ UNCHANGED <<life, hasty, cli, rvpn>>

-----------------------------------------------------------------------------
(* UpdateClientConf on Windows.                                            *)

(* A device that has been closed ignores that it is to go up. *)
WindowsUp(s) ==
    /\ os = "windows" /\ jrpc[s].pc = "up"
    /\ Goto(s, "default")
    /\ net' = [net EXCEPT !.up = net.open]
    /\ wg' = [wg EXCEPT !.serverIP = jrpc[s].serverIp]
    /\ UNCHANGED <<life, hasty, cli, rvpn>>

(* Mutant: the default adapter is found and no route added. *)
WindowsDefaultUnrouted(s) ==
    /\ os = "windows" /\ jrpc[s].pc = "default"
    /\ Goto(s, "deltun")
    /\ wg' = [wg EXCEPT !.default = TRUE]
    /\ UNCHANGED <<life, hasty, cli, rvpn, net>>

(* The first time only, the server and the control plane are routed over   *)
(* the default adapter; AddRoute's errors are ignored.                     *)
WindowsDefault(s) ==
    /\ os = "windows" /\ jrpc[s].pc = "default"
    /\ Goto(s, "deltun")
    /\ wg' = [wg EXCEPT !.default = TRUE]
    /\ net' = [net EXCEPT !.hostRoutes =
                    IF wg.default THEN @ ELSE @ \cup {wg.serverIP, ControlPlaneIp}]
    /\ UNCHANGED <<life, hasty, cli, rvpn>>

(* prevRoutes are deleted, and must be there. *)
WindowsDelTun(s) ==
    /\ os = "windows" /\ jrpc[s].pc = "deltun"
    /\ IF wg.routes /\ ~net.tunRoutes THEN Fatal
       ELSE /\ Goto(s, "tun")
            /\ net' = [net EXCEPT !.tunRoutes = IF wg.routes THEN FALSE ELSE @]
            /\ UNCHANGED <<life, hasty, cli, rvpn, wg>>

(* 0.0.0.0/0 is routed into the device. *)
WindowsTun(s) ==
    /\ os = "windows" /\ jrpc[s].pc = "tun"
    /\ IF ~net.open \/ net.tunRoutes THEN Fatal
       ELSE /\ Goto(s, "conf")
            /\ net' = [net EXCEPT !.tunRoutes = TRUE]
            /\ wg' = [wg EXCEPT !.routes = TRUE]
            /\ UNCHANGED <<life, hasty, cli, rvpn>>

(* Address and DNS of the adapter, which must be there; ConfigureDevice. *)
WindowsConf(s) ==
    /\ os = "windows" /\ jrpc[s].pc = "conf"
    /\ IF ~net.open THEN Fatal
       ELSE /\ Goto(s, "connected")
            /\ net' = [net EXCEPT !.conf = jrpc[s].serverIp]
            /\ UNCHANGED <<life, hasty, cli, rvpn, wg>>

-----------------------------------------------------------------------------
(* UpdateClientConf has returned: the status. *)
Connected(s) ==
    /\ jrpc[s].pc = "connected"
    /\ Goto(s, "done")
    /\ rvpn' = [rvpn EXCEPT !.status = "Connected"]
    /\ UNCHANGED <<life, hasty, cli, wg, net>>

(* The control plane or the network closes the connection. *)
Drop(s) ==
    /\ jrpc[s].link = "up"
    /\ jrpc' = [jrpc EXCEPT ![s].link = "closed"]
    /\ UNCHANGED <<life, hasty, cli, rvpn, wg, net>>

Handle(s) ==
    \/ DarwinUp(s) \/ DarwinDefault(s) \/ DarwinCpRoute(s) \/ DarwinConf(s) \/ DarwinTun(s)
    \/ WindowsUp(s) \/ WindowsDefault(s) \/ WindowsDelTun(s) \/ WindowsTun(s) \/ WindowsConf(s)
    \/ Connected(s)

Shutdown ==
    \/ ShutdownClose
    \/ DarwinShutdownServer \/ DarwinShutdownCp
    \/ WindowsShutdownServer \/ WindowsShutdownCp
Returns == StartReturns \/ ExecuteReturns

Next ==
    \/ StartRVPNDaemon \/ StartDevice \/ ServiceStop \/ ManualTerm \/ Terminated
    \/ Shutdown \/ Returns \/ Crash
    \/ Cli
    \/ \E s \in Session : Handle(s) \/ Drop(s) \/ (\E ip \in ServerIp : ConnectServer(s, ip))

(* The goroutines of a process are scheduled; users, the service manager   *)
(* and the control plane owe nothing.                                      *)
Fairness ==
    /\ WF_vars(StartDevice) /\ WF_vars(ManualTerm) /\ WF_vars(Shutdown) /\ WF_vars(Returns)

Spec == Init /\ [][Next]_vars /\ Fairness

-----------------------------------------------------------------------------
TypeOK ==
    /\ os \in Platform
    /\ main \in {"off", "start", "loop", "sending", "returning"}
    /\ daemon \in {"off", "starting", "select", "returned"} \cup Closing
    /\ ended \in {"none", "stopped", "unclean", "fatal", "late", "killed"}
    /\ leftover \in BOOLEAN /\ hasty \in BOOLEAN
    /\ cli \in RpcConn /\ rvpn \in Rvpn /\ wg \in Wg
    /\ jrpc \in [Session -> Jrpc] /\ net \in Net

(* What follows holds of a process that is given one thing to do at a      *)
(* time, between the commands.                                             *)
Quiet == ~hasty /\ Settled /\ net.open

(* A device that is connected has its tunnel up, configured for the server *)
(* and all traffic routed into it, however often it connected and          *)
(* disconnected before (UpdateClientConf after Disconnect, which keeps     *)
(* part of the state of WireguardDaemon).                                  *)
ConnectedIsTunnelled ==
    Quiet /\ rvpn.status = "Connected" =>
        net.up /\ net.tunRoutes /\ net.conf = wg.serverIP /\ wg.serverIP # Nil

(* A device that is disconnected routes nothing into the dead tunnel       *)
(* (Disconnect, "clean up appended routing rules", wg/daemon_darwin.go).   *)
DisconnectedIsClean ==
    Quiet /\ rvpn.status = "Disconnected" => ~net.tunRoutes /\ ~wg.routes

(* No sequence of connects and disconnects runs UpdateClientConf into one  *)
(* of its log.Fatalf while the device is open, unless, on macOS, an        *)
(* earlier process left a route behind.                                    *)
FatalOnlyOnLeftovers == ended = "fatal" /\ ~hasty => os = "darwin" /\ leftover

(* A device that has only ever connected to one server reaches it past the *)
(* tunnel, whatever routes earlier processes left or removed: "add a       *)
(* highest priority route so traffic to vpn host is not routed through     *)
(* wireguard interface" (UpdateClientConf).                                *)
OneServerRouted ==
    /\ Quiet /\ rvpn.status = "Connected"
    /\ \A s \in Session : jrpc[s].serverIp \in {Nil, wg.serverIP}
    => wg.serverIP \in net.hostRoutes /\ ControlPlaneIp \in net.hostRoutes

(* A ShutdownDevice that comes to its end on macOS leaves no route behind  *)
(* on the default interface (wg/daemon_darwin.go, "clean up routes on      *)
(* default interface").                                                    *)
StoppedIsClean ==
    os = "darwin" /\ ended = "stopped" /\ ~hasty /\ ~leftover => net.hostRoutes = {}

(* A service that is told to stop stops, also while it is still starting,  *)
(* unless Start has gone its own way before, and a ShutdownDevice that has *)
(* begun comes to an end (service_windows.go, Execute; daemon.go, Stop and *)
(* Start).                                                                 *)
ShutdownEnds ==
    (main = "sending" \/ daemon \in Closing) ~> (main = "off" \/ daemon = "returned")
=============================================================================
