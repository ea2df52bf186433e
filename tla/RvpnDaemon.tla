----------------------------- MODULE RvpnDaemon -----------------------------
(***************************************************************************)
(* The rVPN daemon on a Linux device: RVPNDaemon with its WireguardDaemon, *)
(* the CLI or GUI that drives it over net/rpc, the jrpc connections it has *)
(* to the control plane, and the kernel state it changes.  Goroutines that *)
(* run at the same time: one that serves the CLI's connections, one at a   *)
(* time; one per jrpc connection, which handles its requests in order; and *)
(* main, which waits for a signal and then shuts the device down.  A step  *)
(* is a group of system calls of one of them.                              *)
(*                                                                         *)
(* Simplifications:                                                        *)
(*  - The state file holds a key pair.                                     *)
(*  - The default interface has one address and never changes.             *)
(*  - A system call fails only where the state of the kernel makes it      *)
(*    (EEXIST, ESRCH, no such device); other failures end in log.Fatalf    *)
(*    and are a Crash.                                                     *)
(*  - The routes 0.0.0.0/1 and 128.0.0.0/1 come and go together, and so do *)
(*    the two iptables rules.                                              *)
(***************************************************************************)
EXTENDS Naturals

CONSTANTS
    Nil,
    Session,            \* jrpc connections to the control plane, each used once
    ServerIp,           \* public addresses of VPN servers
    ControlPlaneIp,     \* the address of the control plane
    MaxForward,         \* bound: how often the iptables rules are there
    Impatient,          \* whether users and signals come in the middle of things
    Crashes             \* whether the process may die at any moment

ASSUME DaemonFlagAssumption == Impatient \in BOOLEAN /\ Crashes \in BOOLEAN
ASSUME MaxForwardAssumption == MaxForward \in Nat \ {0}
ASSUME AddressAssumption ==
    /\ Nil \notin Session /\ Nil \notin ServerIp /\ "serve" \notin ServerIp /\ Nil # "serve"
    /\ ControlPlaneIp \notin ServerIp

VARIABLES
    proc,       \* the process: running, where it is in ShutdownDevice, or how it ended
    tainted,    \* history: some earlier process did not end by ShutdownDevice
    cli,        \* the RPC connection being served: where it is, the jrpc connection
    rvpn,       \* fields of RVPNDaemon
    wg,         \* fields of WireguardDaemon
    jrpc,       \* the jrpc connections and their handlers
    net         \* the kernel: routes, rules, and the WireGuard device

vars == <<proc, tainted, cli, rvpn, wg, jrpc, net>>

Status == {"Disconnected", "Connected", "Serving"}
Stopping == {"stop_cproute", "stop_forward", "stop_source"}
Ended == {"stopped", "unclean", "fatal", "killed"}
CliPc == {"idle", "connect", "serve", "assign", "disconnect", "routes", "source", "close"}
ClientPc == {"link", "default", "cproute", "flush", "srcrules", "srcroutes",
             "configure", "tunroutes", "connected"}
ServePc == {"servelink", "serveconf", "forward", "serving"}

RpcConn == [pc : CliPc, session : Session \cup {Nil}]
Rvpn == [status : Status, jrpcConn : Session \cup {Nil}]
Wg == [defaultIFaceLink : BOOLEAN, serverIP : ServerIp \cup {Nil},
       appendedRoutes : BOOLEAN, appendedSrcRules : BOOLEAN,
       appendedSrcRoutes : BOOLEAN, vpnServerMode : BOOLEAN]
Jrpc == [pc : {"new", "idle", "done"} \cup ClientPc \cup ServePc,
         kind : {"connect", "serve"}, link : {"up", "closed"}, serverIp : ServerIp \cup {Nil}]
Net == [up : BOOLEAN, conf : ServerIp \cup {Nil, "serve"}, tunRoutes : BOOLEAN,
        hostRoutes : SUBSET (ServerIp \cup {ControlPlaneIp}),
        srcRules : BOOLEAN, srcRoutes : BOOLEAN, forwarding : 0 .. MaxForward]

(* NewRVPNDaemon, NewWireguardDaemon *)
NewRvpn == [status |-> "Disconnected", jrpcConn |-> Nil]
NewWg ==
    [defaultIFaceLink |-> FALSE, serverIP |-> Nil, appendedRoutes |-> FALSE,
     appendedSrcRules |-> FALSE, appendedSrcRoutes |-> FALSE, vpnServerMode |-> FALSE]

Init ==
    /\ proc = "running" /\ tainted = FALSE
    /\ cli = [pc |-> "idle", session |-> Nil]
    /\ rvpn = NewRvpn /\ wg = NewWg
    /\ jrpc = [s \in Session |->
                [pc |-> "new", kind |-> "connect", link |-> "closed", serverIp |-> Nil]]
    /\ net = [up |-> TRUE, conf |-> Nil, tunRoutes |-> FALSE, hostRoutes |-> {},
              srcRules |-> FALSE, srcRoutes |-> FALSE, forwarding |-> 0]

-----------------------------------------------------------------------------
(* The life of the process.                                                *)

Alive == proc = "running" \/ proc \in Stopping

(* The process ends, with the kernel in state n: the CLI and the control   *)
(* plane see their connections closed, and the TUN interface goes away     *)
(* with its routes.  Routes on the default interface, rules and iptables   *)
(* stay.                                                                   *)
ProcessEnds(how, n) ==
    /\ proc' = how
    /\ cli' = [pc |-> "idle", session |-> Nil]
    /\ rvpn' = NewRvpn /\ wg' = NewWg
    /\ jrpc' = [s \in Session |->
                IF jrpc[s].pc = "new" THEN jrpc[s]
                ELSE [jrpc[s] EXCEPT !.pc = "done", !.link = "closed"]]
    /\ net' = [n EXCEPT !.up = FALSE, !.conf = Nil, !.tunRoutes = FALSE]
    /\ UNCHANGED tainted

(* log.Fatalf, or a nil dereference, outside ShutdownDevice. *)
Fatal == ProcessEnds("fatal", net)

Crash == Crashes /\ Alive /\ ProcessEnds("killed", net)

(* systemd (Restart=always) or the user starts it again: Start and          *)
(* StartDevice with a new WireguardDaemon.                                 *)
Start ==
    /\ ~Alive
    /\ proc' = "running"
    /\ tainted' = (tainted \/ proc # "stopped")
    /\ net' = [net EXCEPT !.up = TRUE]
    /\ UNCHANGED <<cli, rvpn, wg, jrpc>>

(* Nothing is under way and nothing is awaited from the control plane. *)
Busy(s) == jrpc[s].pc \in ClientPc \cup ServePc
Settled ==
    /\ cli.pc = "idle"
    /\ \A s \in Session : ~Busy(s) /\ (jrpc[s].pc = "idle" => jrpc[s].link = "closed")
MayAct == Alive /\ (Impatient \/ (proc = "running" /\ Settled))

(* disableForwarding: deleting a rule that is not there is an error that   *)
(* is only logged.                                                         *)
DisableForwarding(rules) == IF rules = 0 THEN 0 ELSE rules - 1

(* Mutant: the rules stay. *)
StopSourceRoutingRoutes(n) ==
    [n EXCEPT !.srcRoutes = IF wg.appendedSrcRoutes THEN FALSE ELSE @]

(* stopSourceRouting: the routes first; a route that is not there ends it  *)
(* with an error, which the callers ignore.  What was appended is not      *)
(* forgotten.                                                              *)
StopSourceRouting(n) ==
    LET missing == wg.appendedSrcRoutes /\ ~n.srcRoutes
    IN  [n EXCEPT !.srcRoutes = IF wg.appendedSrcRoutes THEN FALSE ELSE @,
                  !.srcRules = IF wg.appendedSrcRules /\ ~missing THEN FALSE ELSE @]

(* SIGTERM: ShutdownDevice closes the WireGuard device, which removes the  *)
(* TUN interface, and deletes the route to the last server.                *)
Shutdown ==
    LET closed == [net EXCEPT !.up = FALSE, !.conf = Nil, !.tunRoutes = FALSE]
    IN  /\ proc = "running" /\ MayAct
        /\ IF wg.serverIP # Nil /\ wg.defaultIFaceLink /\ wg.serverIP \in net.hostRoutes
           THEN /\ proc' = "stop_cproute"
                /\ net' = [closed EXCEPT !.hostRoutes = @ \ {wg.serverIP}]
                /\ UNCHANGED <<tainted, cli, rvpn, wg, jrpc>>
           ELSE ProcessEnds("unclean", net)

ShutdownCpRoute ==
    /\ proc = "stop_cproute"
    /\ IF ControlPlaneIp \in net.hostRoutes
       THEN /\ proc' = "stop_forward"
            /\ net' = [net EXCEPT !.hostRoutes = @ \ {ControlPlaneIp}]
            /\ UNCHANGED <<tainted, cli, rvpn, wg, jrpc>>
       ELSE ProcessEnds("unclean", net)

ShutdownForwarding ==
    /\ proc = "stop_forward"
    /\ proc' = "stop_source"
    /\ net' = [net EXCEPT !.forwarding = IF wg.vpnServerMode THEN DisableForwarding(@) ELSE @]
    /\ UNCHANGED <<tainted, cli, rvpn, wg, jrpc>>

(* Mutant: source routing is left on. *)
ShutdownNoSource == proc = "stop_source" /\ ProcessEnds("stopped", net)

(* stopSourceRouting; then Start returns and the process exits.  The       *)
(* appended routes went with the TUN interface.                            *)
ShutdownSource == proc = "stop_source" /\ ProcessEnds("stopped", StopSourceRouting(net))

-----------------------------------------------------------------------------
(* The CLI and the GUI.  rpc.ServeConn is called in the accept loop, so    *)
(* that one of their connections is served at a time, to its end.          *)

(* The daemon starts to serve a connection, whose first call is Status. *)
CliOpens(op) ==
    /\ MayAct /\ cli.pc = "idle"
    /\ cli' = [cli EXCEPT !.pc = op]
    /\ UNCHANGED <<proc, tainted, rvpn, wg, jrpc, net>>

(* ClientConnectProfile, ClientServeProfile and ClientDisconnectProfile    *)
(* give up if the status does not fit.                                     *)
ClientConnectProfile == rvpn.status = "Disconnected" /\ CliOpens("connect")
ClientServeProfile == rvpn.status = "Disconnected" /\ CliOpens("serve")

(* Mutant: the status is not looked at. *)
ClientDisconnectUnchecked == CliOpens("disconnect")
ClientDisconnectProfile == rvpn.status # "Disconnected" /\ CliOpens("disconnect")

(* The user is not logged in, the device cannot be registered, or the      *)
(* control plane not be reached.                                           *)
GivesUp(op) ==
    /\ cli.pc = op
    /\ cli' = [cli EXCEPT !.pc = "idle"]
    /\ UNCHANGED <<proc, tainted, rvpn, wg, jrpc, net>>
ConnectGivesUp == GivesUp("connect")
ServeGivesUp == GivesUp("serve")

(* websocket.Dial, then NewConn: from then on requests are handled. *)
NewConn(s, op) ==
    /\ cli.pc = op /\ jrpc[s].pc = "new"
    /\ cli' = [pc |-> "assign", session |-> s]
    /\ jrpc' = [jrpc EXCEPT ![s] = [@ EXCEPT !.pc = "idle", !.kind = op, !.link = "up"]]
    /\ UNCHANGED <<proc, tainted, rvpn, wg, net>>
Connect(s) == NewConn(s, "connect")
Serve(s) == NewConn(s, "serve")

(* r.jrpcConn = jrpcConn: the one it replaces is not closed. *)
Assign ==
    /\ cli.pc = "assign"
    /\ rvpn' = [rvpn EXCEPT !.jrpcConn = cli.session]
    /\ cli' = [pc |-> "idle", session |-> Nil]
    /\ UNCHANGED <<proc, tainted, wg, jrpc, net>>

(* RVPNDaemon.Disconnect: the device goes down, forwarding is disabled. *)
DisconnectDown ==
    /\ cli.pc = "disconnect"
    /\ cli' = [cli EXCEPT !.pc = "routes"]
    /\ net' = [net EXCEPT !.up = FALSE,
                  !.forwarding = IF wg.vpnServerMode THEN DisableForwarding(@) ELSE @]
    /\ UNCHANGED <<proc, tainted, rvpn, wg, jrpc>>

(* Mutant: the appended routes are forgotten before they are deleted. *)
DisconnectForgets ==
    /\ cli.pc = "routes"
    /\ cli' = [cli EXCEPT !.pc = "source"]
    /\ wg' = [wg EXCEPT !.appendedRoutes = FALSE]
    /\ UNCHANGED <<proc, tainted, rvpn, jrpc, net>>

DisconnectRoutes ==
    /\ cli.pc = "routes"
    /\ cli' = [cli EXCEPT !.pc = "source"]
    /\ wg' = [wg EXCEPT !.appendedRoutes = FALSE]
    /\ net' = [net EXCEPT !.tunRoutes = IF wg.appendedRoutes THEN FALSE ELSE @]
    /\ UNCHANGED <<proc, tainted, rvpn, jrpc>>

DisconnectSource ==
    /\ cli.pc = "source"
    /\ cli' = [cli EXCEPT !.pc = "close"]
    /\ net' = StopSourceRouting(net)
    /\ UNCHANGED <<proc, tainted, rvpn, wg, jrpc>>

(* r.jrpcConn.Close, and the new status. *)
DisconnectClose ==
    /\ cli.pc = "close"
    /\ IF rvpn.jrpcConn = Nil THEN Fatal
       ELSE /\ cli' = [cli EXCEPT !.pc = "idle"]
            /\ jrpc' = [jrpc EXCEPT ![rvpn.jrpcConn].link = "closed"]
            /\ rvpn' = [rvpn EXCEPT !.status = "Disconnected"]
            /\ UNCHANGED <<proc, tainted, wg, net>>

Cli ==
    \/ ClientConnectProfile \/ ConnectGivesUp \/ (\E s \in Session : Connect(s))
    \/ ClientServeProfile \/ ServeGivesUp \/ (\E s \in Session : Serve(s))
    \/ Assign \/ ClientDisconnectProfile
    \/ DisconnectDown \/ DisconnectRoutes \/ DisconnectSource \/ DisconnectClose

-----------------------------------------------------------------------------
(* jrpcHandler: connect_server and UpdateClientConf.                       *)

Goto(s, pc) == jrpc' = [jrpc EXCEPT ![s].pc = pc]

(* The control plane calls connect_server, once per connection. *)
ConnectServer(s, ip) ==
    /\ jrpc[s].pc = "idle" /\ jrpc[s].link = "up" /\ jrpc[s].kind = "connect"
    /\ jrpc' = [jrpc EXCEPT ![s] = [@ EXCEPT !.pc = "link", !.serverIp = ip]]
    /\ UNCHANGED <<proc, tainted, cli, rvpn, wg, net>>

(* Mutant: only the link is brought up, not the WireGuard device. *)
UpdateLinkOnly(s) ==
    /\ jrpc[s].pc = "link"
    /\ IF proc # "running" THEN Fatal
       ELSE /\ Goto(s, "default")
            /\ wg' = [wg EXCEPT !.serverIP = jrpc[s].serverIp]
            /\ UNCHANGED <<proc, tainted, cli, rvpn, net>>

(* The link, which must exist, and the device are brought up. *)
UpdateLink(s) ==
    /\ jrpc[s].pc = "link"
    /\ IF proc # "running" THEN Fatal
       ELSE /\ Goto(s, "default")
            /\ net' = [net EXCEPT !.up = TRUE]
            /\ wg' = [wg EXCEPT !.serverIP = jrpc[s].serverIp]
            /\ UNCHANGED <<proc, tainted, cli, rvpn>>

(* Mutant: the server is not routed around the tunnel. *)
UpdateDefaultUnrouted(s) ==
    /\ jrpc[s].pc = "default"
    /\ Goto(s, IF wg.defaultIFaceLink THEN "flush" ELSE "cproute")
    /\ wg' = [wg EXCEPT !.defaultIFaceLink = TRUE]
    /\ UNCHANGED <<proc, tainted, cli, rvpn, net>>

(* The first time only, the server is routed over the default interface... *)
UpdateDefault(s) ==
    /\ jrpc[s].pc = "default"
    /\ \/ /\ wg.defaultIFaceLink
          /\ Goto(s, "flush")
          /\ UNCHANGED <<proc, tainted, cli, rvpn, wg, net>>
       \/ /\ ~wg.defaultIFaceLink /\ wg.serverIP \in net.hostRoutes
          /\ Fatal
       \/ /\ ~wg.defaultIFaceLink /\ wg.serverIP \notin net.hostRoutes
          /\ Goto(s, "cproute")
          /\ wg' = [wg EXCEPT !.defaultIFaceLink = TRUE]
          /\ net' = [net EXCEPT !.hostRoutes = @ \cup {wg.serverIP}]
          /\ UNCHANGED <<proc, tainted, cli, rvpn>>

(* ... and the control plane. *)
UpdateCpRoute(s) ==
    /\ jrpc[s].pc = "cproute"
    /\ IF ControlPlaneIp \in net.hostRoutes THEN Fatal
       ELSE /\ Goto(s, "flush")
            /\ net' = [net EXCEPT !.hostRoutes = @ \cup {ControlPlaneIp}]
            /\ UNCHANGED <<proc, tainted, cli, rvpn, wg>>

UpdateFlush(s) ==
    /\ jrpc[s].pc = "flush"
    /\ Goto(s, "srcrules")
    /\ net' = [net EXCEPT !.tunRoutes = FALSE]
    /\ UNCHANGED <<proc, tainted, cli, rvpn, wg>>

(* enableSourceRouting: the rules ... *)
EnableSrcRules(s) ==
    /\ jrpc[s].pc = "srcrules"
    /\ IF net.srcRules THEN Fatal
       ELSE /\ Goto(s, "srcroutes")
            /\ net' = [net EXCEPT !.srcRules = TRUE]
            /\ wg' = [wg EXCEPT !.appendedSrcRules = TRUE]
            /\ UNCHANGED <<proc, tainted, cli, rvpn>>

(* ... and the routes. *)
EnableSrcRoutes(s) ==
    /\ jrpc[s].pc = "srcroutes"
    /\ IF net.srcRoutes THEN Fatal
       ELSE /\ Goto(s, "configure")
            /\ net' = [net EXCEPT !.srcRoutes = TRUE]
            /\ wg' = [wg EXCEPT !.appendedSrcRoutes = TRUE]
            /\ UNCHANGED <<proc, tainted, cli, rvpn>>

(* assignInterfaceAddr, whose error is ignored, and ConfigureDevice, which *)
(* only prints that there is no device.                                    *)
UpdateConfigure(s) ==
    /\ jrpc[s].pc = "configure"
    /\ Goto(s, "tunroutes")
    /\ net' = [net EXCEPT !.conf = IF proc = "running" THEN jrpc[s].serverIp ELSE @]
    /\ UNCHANGED <<proc, tainted, cli, rvpn, wg>>

UpdateTunRoutes(s) ==
    /\ jrpc[s].pc = "tunroutes"
    /\ IF proc # "running" \/ net.tunRoutes THEN Fatal
       ELSE /\ Goto(s, "connected")
            /\ net' = [net EXCEPT !.tunRoutes = TRUE]
            /\ wg' = [wg EXCEPT !.appendedRoutes = TRUE, !.vpnServerMode = FALSE]
            /\ UNCHANGED <<proc, tainted, cli, rvpn>>

Connected(s) ==
    /\ jrpc[s].pc = "connected"
    /\ Goto(s, "done")
    /\ rvpn' = [rvpn EXCEPT !.status = "Connected"]
    /\ UNCHANGED <<proc, tainted, cli, wg, net>>

-----------------------------------------------------------------------------
(* jrpcHandler: serve_vpn and UpdateServeConf.                             *)

ServeVpn(s) ==
    /\ jrpc[s].pc = "idle" /\ jrpc[s].link = "up" /\ jrpc[s].kind = "serve"
    /\ Goto(s, "servelink")
    /\ UNCHANGED <<proc, tainted, cli, rvpn, wg, net>>

ServeLink(s) ==
    /\ jrpc[s].pc = "servelink"
    /\ IF proc # "running" THEN Fatal
       ELSE /\ Goto(s, "serveconf")
            /\ net' = [net EXCEPT !.up = TRUE]
            /\ wg' = [wg EXCEPT !.defaultIFaceLink = TRUE]
            /\ UNCHANGED <<proc, tainted, cli, rvpn>>

ServeConfigure(s) ==
    /\ jrpc[s].pc = "serveconf"
    /\ Goto(s, "forward")
    /\ net' = [net EXCEPT !.conf = IF proc = "running" THEN "serve" ELSE @]
    /\ UNCHANGED <<proc, tainted, cli, rvpn, wg>>

(* Mutant: forwarding is enabled unless the daemon has served before. *)
EnableForwardingOnce(s) ==
    /\ jrpc[s].pc = "forward" /\ net.forwarding < MaxForward
    /\ Goto(s, "serving")
    /\ net' = [net EXCEPT !.forwarding = IF wg.vpnServerMode THEN @ ELSE @ + 1]
    /\ wg' = [wg EXCEPT !.vpnServerMode = TRUE]
    /\ UNCHANGED <<proc, tainted, cli, rvpn>>

(* enableForwarding: the rules are appended, whether they are there or not. *)
EnableForwarding(s) ==
    /\ jrpc[s].pc = "forward" /\ net.forwarding < MaxForward
    /\ Goto(s, "serving")
    /\ net' = [net EXCEPT !.forwarding = @ + 1]
    /\ wg' = [wg EXCEPT !.vpnServerMode = TRUE]
    /\ UNCHANGED <<proc, tainted, cli, rvpn>>

Serving(s) ==
    /\ jrpc[s].pc = "serving"
    /\ Goto(s, "done")
    /\ rvpn' = [rvpn EXCEPT !.status = "Serving"]
    /\ UNCHANGED <<proc, tainted, cli, wg, net>>

(* The control plane or the network closes the connection: the daemon does *)
(* not react.                                                              *)
Drop(s) ==
    /\ jrpc[s].link = "up"
    /\ jrpc' = [jrpc EXCEPT ![s].link = "closed"]
    /\ UNCHANGED <<proc, tainted, cli, rvpn, wg, net>>

Handle(s) ==
    \/ \E ip \in ServerIp : ConnectServer(s, ip)
    \/ UpdateLink(s) \/ UpdateDefault(s) \/ UpdateCpRoute(s) \/ UpdateFlush(s)
    \/ EnableSrcRules(s) \/ EnableSrcRoutes(s) \/ UpdateConfigure(s)
    \/ UpdateTunRoutes(s) \/ Connected(s)
    \/ ServeVpn(s) \/ ServeLink(s) \/ ServeConfigure(s) \/ EnableForwarding(s) \/ Serving(s)

Next ==
    \/ Cli
    \/ \E s \in Session : Handle(s) \/ Drop(s)
    \/ Shutdown \/ ShutdownCpRoute \/ ShutdownForwarding \/ ShutdownSource
    \/ Start \/ Crash

Spec == Init /\ [][Next]_vars

-----------------------------------------------------------------------------
(* Properties.                                                             *)

(* The fields of the two daemons, the handlers and the kernel state have   *)
(* their types.  RvpnDaemonProofs proves it and builds on it.              *)
TypeOK ==
    /\ proc \in {"running"} \cup Stopping \cup Ended
    /\ tainted \in BOOLEAN
    /\ cli \in RpcConn
    /\ rvpn \in Rvpn
    /\ wg \in Wg
    /\ jrpc \in [Session -> Jrpc]
    /\ net \in Net

(* RVPNDaemon.Disconnect has a jrpc connection to close, whatever signals, *)
(* second connects and late requests do: the status changes while Connect  *)
(* has not yet stored the connection, but no other RPC is served then      *)
(* (daemon.go, Connect, Disconnect and the accept loop of Start).          *)
DisconnectHasConn ==
    cli.pc \in {"disconnect", "routes", "source", "close"} => rvpn.jrpcConn # Nil

(* What follows holds when users wait for the answer of the control plane  *)
(* before they do anything else, and the signal comes between commands.    *)
Quiet == proc = "running" /\ Settled

(* A device that is connected has its device up and configured for that    *)
(* server, all traffic routed into it, and source routing on, however      *)
(* often it connected, served and disconnected before (UpdateClientConf    *)
(* after Disconnect, which keeps part of the state of WireguardDaemon).    *)
ConnectedIsRouted ==
    Quiet /\ rvpn.status = "Connected" =>
        /\ net.up /\ net.conf = wg.serverIP /\ wg.serverIP # Nil
        /\ net.tunRoutes /\ net.srcRules /\ net.srcRoutes

(* A device that serves has its device up and forwards, although           *)
(* vpnServerMode stays set after a Disconnect (UpdateServeConf).           *)
ServingForwards ==
    Quiet /\ rvpn.status = "Serving" =>
        /\ net.up /\ net.conf = "serve" /\ ~net.tunRoutes /\ net.forwarding > 0

(* A device that is disconnected routes nothing into the dead tunnel, has  *)
(* no source routing and does not forward, unless an earlier process left  *)
(* that behind ("cleanup any routing rules", wg/daemon_linux.go).          *)
DisconnectedIsClean ==
    Quiet /\ rvpn.status = "Disconnected" =>
        /\ ~net.tunRoutes /\ ~wg.appendedRoutes
        /\ ~tainted => ~net.srcRules /\ ~net.srcRoutes /\ net.forwarding = 0

(* No sequence of connects, serves and disconnects runs UpdateClientConf   *)
(* into one of its log.Fatalf, a route or rule that exists already, unless *)
(* an earlier process left it behind.                                      *)
FatalOnlyOnLeftovers == proc = "fatal" => tainted

(* A ShutdownDevice that comes to its end leaves nothing behind: no route  *)
(* on the default interface, no source routing, no forwarding.             *)
StoppedIsClean ==
    proc = "stopped" /\ ~tainted =>
        /\ net.hostRoutes = {} /\ ~net.srcRules /\ ~net.srcRoutes /\ net.forwarding = 0

(* A device that never serves and connects to one server only reaches it   *)
(* past the tunnel, whatever earlier processes left behind: "find default  *)
(* adapater and add a highest priority route so traffic to vpn host is not *)
(* routed through wireguard interface" (wg/daemon_linux.go,                *)
(* UpdateClientConf).                                                      *)
OneServerRouted ==
    /\ Quiet /\ rvpn.status = "Connected"
    /\ \A s \in Session : /\ jrpc[s].kind = "connect"
                          /\ jrpc[s].serverIp \in {Nil, wg.serverIP}
    => wg.serverIP \in net.hostRoutes /\ ControlPlaneIp \in net.hostRoutes
=============================================================================
