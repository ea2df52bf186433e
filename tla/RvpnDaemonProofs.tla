-------------------------- MODULE RvpnDaemonProofs --------------------------
(***************************************************************************)
(* Proofs about the rVPN daemon, for any number of jrpc connections and    *)
(* servers, with signals, crashes and impatient users.                     *)
(***************************************************************************)
EXTENDS RvpnDaemon, TLAPS

(* Type correctness needs to know that a handler configures a server that  *)
(* the control plane named, and that WireguardDaemon knows it.             *)
HandlerHasServer ==
    \A s \in Session : jrpc[s].pc \in ClientPc =>
        /\ jrpc[s].serverIp \in ServerIp
        /\ jrpc[s].pc # "link" => wg.serverIP \in ServerIp

Typed == TypeOK /\ HandlerHasServer

(* What disableForwarding leaves is a number of rules again. *)
LEMMA DisableForwardingType ==
    \A rules \in 0 .. MaxForward : DisableForwarding(rules) \in 0 .. MaxForward
  BY MaxForwardAssumption DEF DisableForwarding

(* What stopSourceRouting leaves is a state of the kernel again. *)
LEMMA StopSourceRoutingType ==
    ASSUME NEW n \in Net PROVE StopSourceRouting(n) \in Net
  <1> DEFINE routes == IF wg.appendedSrcRoutes THEN FALSE ELSE n.srcRoutes
             rules == IF wg.appendedSrcRules /\ ~(wg.appendedSrcRoutes /\ ~n.srcRoutes)
                      THEN FALSE ELSE n.srcRules
  <1>1. routes \in BOOLEAN /\ rules \in BOOLEAN
    BY DEF Net
  <1>2. StopSourceRouting(n) = [n EXCEPT !.srcRoutes = routes, !.srcRules = rules]
    BY DEF StopSourceRouting, Net
  <1> HIDE DEF routes, rules
  <1> QED
    BY <1>1, <1>2 DEF Net

(* A handler or a connection that changes one field stays one. *)
LEMMA JrpcPcType ==
    ASSUME NEW j \in Jrpc, NEW pc \in {"new", "idle", "done"} \cup ClientPc \cup ServePc
    PROVE  [j EXCEPT !.pc = pc] \in Jrpc /\ [j EXCEPT !.pc = pc].pc = pc
                /\ [j EXCEPT !.pc = pc].serverIp = j.serverIp
  BY DEF Jrpc

LEMMA JrpcLinkType ==
    ASSUME NEW j \in Jrpc, NEW link \in {"up", "closed"}
    PROVE  [j EXCEPT !.link = link] \in Jrpc /\ [j EXCEPT !.link = link].pc = j.pc
                /\ [j EXCEPT !.link = link].serverIp = j.serverIp
  BY DEF Jrpc

(* The process can end with the kernel in any state. *)
LEMMA ProcessEndsTyped ==
    ASSUME Typed, NEW how \in Ended, NEW n \in Net, ProcessEnds(how, n)
    PROVE  Typed'
  <1>1. /\ proc' \in {"running"} \cup Stopping \cup Ended
        /\ tainted' \in BOOLEAN
        /\ cli' \in RpcConn
        /\ rvpn' \in Rvpn
    BY DEF Typed, TypeOK, ProcessEnds, NewRvpn, Status, CliPc, RpcConn, Rvpn
  <1>2. wg' \in Wg
    BY DEF ProcessEnds, NewWg, Wg
  <1>3. ASSUME NEW s \in Session
        PROVE  jrpc'[s] \in Jrpc /\ jrpc'[s].pc \notin ClientPc
    <2>1. jrpc[s] \in Jrpc
      BY DEF Typed, TypeOK
    <2>2. [jrpc[s] EXCEPT !.pc = "done", !.link = "closed"] \in Jrpc
      BY <2>1 DEF Jrpc
    <2>3. [jrpc[s] EXCEPT !.pc = "done", !.link = "closed"].pc = "done"
      BY <2>1 DEF Jrpc
    <2>4. jrpc'[s] = IF jrpc[s].pc = "new" THEN jrpc[s]
                     ELSE [jrpc[s] EXCEPT !.pc = "done", !.link = "closed"]
      BY DEF ProcessEnds
    <2> QED
      BY <2>1, <2>2, <2>3, <2>4 DEF ClientPc
  <1>4. jrpc' \in [Session -> Jrpc]
    BY <1>3 DEF ProcessEnds
  <1>5. net' \in Net
    BY DEF ProcessEnds, Net
  <1> QED
    BY <1>1, <1>2, <1>3, <1>4, <1>5 DEF Typed, TypeOK, HandlerHasServer

(* Where a handler is, after it has gone on. *)
LEMMA GotoFacts ==
    ASSUME TypeOK, NEW s \in Session, NEW pc \in {"new", "idle", "done"} \cup ClientPc \cup ServePc,
           Goto(s, pc)
    PROVE  /\ jrpc' \in [Session -> Jrpc]
           /\ \A t \in Session : /\ jrpc'[t].pc = IF t = s THEN pc ELSE jrpc[t].pc
                                 /\ jrpc'[t].serverIp = jrpc[t].serverIp
  <1>1. jrpc \in [Session -> Jrpc]
    BY DEF TypeOK
  <1>2. jrpc' = [jrpc EXCEPT ![s] = [jrpc[s] EXCEPT !.pc = pc]]
    BY <1>1 DEF Goto
  <1>3. /\ [jrpc[s] EXCEPT !.pc = pc] \in Jrpc
        /\ [jrpc[s] EXCEPT !.pc = pc].pc = pc
        /\ [jrpc[s] EXCEPT !.pc = pc].serverIp = jrpc[s].serverIp
    BY <1>1, JrpcPcType
  <1> QED
    BY <1>1, <1>2, <1>3, Zenon

(* A handler goes on and leaves well-typed data behind. *)
LEMMA HandlerTyped ==
    ASSUME Typed, NEW s \in Session, NEW pc \in {"idle", "done"} \cup ClientPc \cup ServePc,
           Goto(s, pc), UNCHANGED <<proc, tainted, cli>>,
           rvpn' \in Rvpn, wg' \in Wg, net' \in Net,
           wg'.serverIP = wg.serverIP \/ wg'.serverIP \in ServerIp,
           pc \in ClientPc => /\ jrpc[s].serverIp \in ServerIp
                              /\ pc # "link" => wg'.serverIP \in ServerIp
    PROVE  Typed'
  <1>1. /\ jrpc' \in [Session -> Jrpc]
        /\ \A t \in Session : /\ jrpc'[t].pc = IF t = s THEN pc ELSE jrpc[t].pc
                              /\ jrpc'[t].serverIp = jrpc[t].serverIp
    BY GotoFacts DEF Typed
  <1>2. HandlerHasServer'
    BY <1>1 DEF Typed, HandlerHasServer
  <1> QED
    BY <1>1, <1>2 DEF Typed, TypeOK

(* A step of another goroutine leaves well-typed data behind. *)
LEMMA OtherTyped ==
    ASSUME Typed, UNCHANGED jrpc,
           proc' \in {"running"} \cup Stopping \cup Ended, tainted' \in BOOLEAN,
           cli' \in RpcConn, rvpn' \in Rvpn, wg' \in Wg, net' \in Net,
           wg'.serverIP = wg.serverIP
    PROVE  Typed'
  BY DEF Typed, TypeOK, HandlerHasServer

LEMMA FatalTyped ==
    ASSUME Typed, Fatal PROVE Typed'
  BY ProcessEndsTyped DEF Fatal, Ended, Typed, TypeOK

(* ShutdownDevice, Start and a crash. *)
LEMMA LifeTyped ==
    ASSUME Typed,
           Shutdown \/ ShutdownCpRoute \/ ShutdownForwarding \/ ShutdownSource \/ Start \/ Crash
    PROVE  Typed'
  <1> net \in Net /\ wg \in Wg /\ cli \in RpcConn /\ rvpn \in Rvpn /\ tainted \in BOOLEAN
    BY DEF Typed, TypeOK
  <1>1. CASE Shutdown
    <2>1. CASE ProcessEnds("unclean", net)
      BY <2>1, ProcessEndsTyped DEF Ended
    <2>2. CASE ~ProcessEnds("unclean", net)
      <3>1. proc' = "stop_cproute" /\ UNCHANGED <<tainted, cli, rvpn, wg, jrpc>>
        BY <1>1, <2>2 DEF Shutdown
      <3>2. net' = [[net EXCEPT !.up = FALSE, !.conf = Nil, !.tunRoutes = FALSE]
                        EXCEPT !.hostRoutes = @ \ {wg.serverIP}]
        BY <1>1, <2>2 DEF Shutdown
      <3>3. net' \in Net
        BY <3>2 DEF Net
      <3> QED
        BY <3>1, <3>3, OtherTyped DEF Stopping
    <2> QED
      BY <2>1, <2>2
  <1>2. CASE ShutdownCpRoute
    <2>1. CASE ProcessEnds("unclean", net)
      BY <2>1, ProcessEndsTyped DEF Ended
    <2>2. CASE ~ProcessEnds("unclean", net)
      <3>1. /\ proc' = "stop_forward" /\ UNCHANGED <<tainted, cli, rvpn, wg, jrpc>>
            /\ net' = [net EXCEPT !.hostRoutes = @ \ {ControlPlaneIp}]
        BY <1>2, <2>2 DEF ShutdownCpRoute
      <3>2. net' \in Net
        BY <3>1 DEF Net
      <3> QED
        BY <3>1, <3>2, OtherTyped DEF Stopping
    <2> QED
      BY <2>1, <2>2
  <1>3. CASE ShutdownForwarding
    <2>1. net' \in Net
      BY <1>3, DisableForwardingType DEF ShutdownForwarding, Net
    <2> QED
      BY <1>3, <2>1, OtherTyped DEF ShutdownForwarding, Stopping
  <1>4. CASE ShutdownSource
    BY <1>4, StopSourceRoutingType, ProcessEndsTyped DEF ShutdownSource, Ended
  <1>5. CASE Start
    <2>1. net' \in Net /\ tainted' \in BOOLEAN
      BY <1>5 DEF Start, Net
    <2> QED
      BY <1>5, <2>1, OtherTyped DEF Start
  <1>6. CASE Crash
    BY <1>6, ProcessEndsTyped DEF Crash, Ended
  <1> QED
    BY <1>1, <1>2, <1>3, <1>4, <1>5, <1>6

(* The commands of the CLI. *)
LEMMA CliTyped ==
    ASSUME Typed, Cli PROVE Typed'
  <1> net \in Net /\ wg \in Wg /\ cli \in RpcConn /\ rvpn \in Rvpn
      /\ jrpc \in [Session -> Jrpc] /\ tainted \in BOOLEAN
      /\ proc \in {"running"} \cup Stopping \cup Ended
    BY DEF Typed, TypeOK
  <1>1. ASSUME NEW op \in {"connect", "serve", "disconnect"}, CliOpens(op) PROVE Typed'
    <2>1. cli' \in RpcConn
      BY <1>1 DEF CliOpens, RpcConn, CliPc
    <2> QED
      BY <1>1, <2>1, OtherTyped DEF CliOpens
  <1>2. ASSUME NEW op \in {"connect", "serve"}, GivesUp(op) PROVE Typed'
    <2>1. cli' \in RpcConn
      BY <1>2 DEF GivesUp, RpcConn, CliPc
    <2> QED
      BY <1>2, <2>1, OtherTyped DEF GivesUp
  <1>3. ASSUME NEW s \in Session, NEW op \in {"connect", "serve"}, NewConn(s, op) PROVE Typed'
    <2> DEFINE j == [jrpc[s] EXCEPT !.pc = "idle", !.kind = op, !.link = "up"]
    <2>1. j \in Jrpc /\ j.pc = "idle"
      BY <1>3 DEF NewConn, Jrpc
    <2>2. jrpc' = [jrpc EXCEPT ![s] = j]
      BY <1>3 DEF NewConn
    <2>3. cli' \in RpcConn
      BY <1>3 DEF NewConn, RpcConn, CliPc
    <2> HIDE DEF j
    <2>4. jrpc' \in [Session -> Jrpc]
      BY <2>1, <2>2
    <2>5. HandlerHasServer'
      BY <1>3, <2>1, <2>2 DEF Typed, HandlerHasServer, NewConn, ClientPc
    <2> QED
      BY <1>3, <2>3, <2>4, <2>5 DEF Typed, TypeOK, NewConn
  <1>4. CASE Assign
    <2>1. cli' \in RpcConn /\ rvpn' \in Rvpn
      BY <1>4 DEF Assign, RpcConn, CliPc, Rvpn
    <2> QED
      BY <1>4, <2>1, OtherTyped DEF Assign
  <1>5. CASE DisconnectDown
    <2>1. cli' \in RpcConn
      BY <1>5 DEF DisconnectDown, RpcConn, CliPc
    <2>2. net' \in Net
      BY <1>5, DisableForwardingType DEF DisconnectDown, Net
    <2> QED
      BY <1>5, <2>1, <2>2, OtherTyped DEF DisconnectDown
  <1>6. CASE DisconnectRoutes
    <2>1. cli' \in RpcConn
      BY <1>6 DEF DisconnectRoutes, RpcConn, CliPc
    <2>2. net' \in Net /\ wg' \in Wg /\ wg'.serverIP = wg.serverIP
      BY <1>6 DEF DisconnectRoutes, Net, Wg
    <2> QED
      BY <1>6, <2>1, <2>2, OtherTyped DEF DisconnectRoutes
  <1>7. CASE DisconnectSource
    <2>1. cli' \in RpcConn
      BY <1>7 DEF DisconnectSource, RpcConn, CliPc
    <2>2. net' \in Net
      BY <1>7, StopSourceRoutingType DEF DisconnectSource
    <2> QED
      BY <1>7, <2>1, <2>2, OtherTyped DEF DisconnectSource
  <1>8. CASE DisconnectClose
    <2>1. CASE rvpn.jrpcConn = Nil
      BY <1>8, <2>1, FatalTyped DEF DisconnectClose
    <2>2. CASE rvpn.jrpcConn # Nil
      <3> DEFINE s == rvpn.jrpcConn
      <3>1. s \in Session
        BY <2>2 DEF Rvpn
      <3>2. jrpc' = [jrpc EXCEPT ![s] = [jrpc[s] EXCEPT !.link = "closed"]]
        BY <1>8, <2>2, <3>1 DEF DisconnectClose
      <3>3. /\ [jrpc[s] EXCEPT !.link = "closed"] \in Jrpc
            /\ [jrpc[s] EXCEPT !.link = "closed"].pc = jrpc[s].pc
            /\ [jrpc[s] EXCEPT !.link = "closed"].serverIp = jrpc[s].serverIp
        BY <3>1, JrpcLinkType
      <3>4. cli' \in RpcConn /\ rvpn' \in Rvpn
        BY <1>8, <2>2 DEF DisconnectClose, RpcConn, CliPc, Rvpn, Status
      <3> HIDE DEF s
      <3>5. /\ jrpc' \in [Session -> Jrpc]
            /\ \A t \in Session : jrpc'[t].pc = jrpc[t].pc /\ jrpc'[t].serverIp = jrpc[t].serverIp
        BY <3>1, <3>2, <3>3, Zenon
      <3>6. UNCHANGED <<proc, tainted, wg, net>>
        BY <1>8, <2>2 DEF DisconnectClose
      <3> QED
        BY <3>4, <3>5, <3>6 DEF Typed, TypeOK, HandlerHasServer
    <2> QED
      BY <2>1, <2>2
  <1> QED
    BY <1>1, <1>2, <1>3, <1>4, <1>5, <1>6, <1>7, <1>8
       DEF Cli, ClientConnectProfile, ClientServeProfile, ClientDisconnectProfile,
           ConnectGivesUp, ServeGivesUp, Connect, Serve

(* The handler of a jrpc connection: connect_server, then UpdateClientConf. *)
LEMMA ClientHandlerTyped ==
    ASSUME Typed, NEW s \in Session,
           \/ \E ip \in ServerIp : ConnectServer(s, ip)
           \/ UpdateLink(s) \/ UpdateDefault(s) \/ UpdateCpRoute(s) \/ UpdateFlush(s)
           \/ EnableSrcRules(s) \/ EnableSrcRoutes(s) \/ UpdateConfigure(s)
           \/ UpdateTunRoutes(s) \/ Connected(s)
    PROVE  Typed'
  <1> net \in Net /\ wg \in Wg /\ rvpn \in Rvpn /\ jrpc \in [Session -> Jrpc]
      /\ (jrpc[s].pc \in ClientPc => /\ jrpc[s].serverIp \in ServerIp
                                     /\ jrpc[s].pc # "link" => wg.serverIP \in ServerIp)
    BY DEF Typed, TypeOK, HandlerHasServer
  <1>1. ASSUME NEW ip \in ServerIp, ConnectServer(s, ip) PROVE Typed'
    <2> DEFINE j == [jrpc[s] EXCEPT !.pc = "link", !.serverIp = ip]
    <2>1. j \in Jrpc /\ j.pc = "link" /\ j.serverIp = ip
      BY DEF Jrpc, ClientPc
    <2>2. jrpc' = [jrpc EXCEPT ![s] = j]
      BY <1>1 DEF ConnectServer
    <2> HIDE DEF j
    <2>3. jrpc' \in [Session -> Jrpc]
      BY <2>1, <2>2
    <2>4. HandlerHasServer'
      BY <1>1, <2>1, <2>2 DEF Typed, HandlerHasServer, ConnectServer
    <2> QED
      BY <1>1, <2>3, <2>4 DEF Typed, TypeOK, ConnectServer
  <1>2. CASE UpdateLink(s)
    <2>1. CASE Fatal
      BY <2>1, FatalTyped
    <2>2. CASE ~Fatal
      <3>1. net' \in Net
        BY <1>2, <2>2 DEF UpdateLink, Net
      <3>2. wg' \in Wg /\ wg'.serverIP \in ServerIp
        BY <1>2, <2>2 DEF UpdateLink, Wg, ClientPc
      <3> QED
        BY <1>2, <2>2, <3>1, <3>2, HandlerTyped DEF UpdateLink, ClientPc
    <2> QED
      BY <2>1, <2>2
  <1>3. CASE UpdateDefault(s)
    <2>1. CASE Fatal
      BY <2>1, FatalTyped
    <2>2. CASE wg.defaultIFaceLink
      BY <1>3, <2>2, HandlerTyped DEF UpdateDefault, ClientPc
    <2>3. CASE ~Fatal /\ ~wg.defaultIFaceLink
      <3>1. net' \in Net
        BY <1>3, <2>3 DEF UpdateDefault, Net, ClientPc
      <3>2. wg' \in Wg /\ wg'.serverIP = wg.serverIP
        BY <1>3, <2>3 DEF UpdateDefault, Wg
      <3>3. Goto(s, "cproute") /\ UNCHANGED <<proc, tainted, cli, rvpn>> /\ jrpc[s].pc = "default"
        BY <1>3, <2>3 DEF UpdateDefault
      <3> QED
        BY <3>1, <3>2, <3>3, HandlerTyped DEF ClientPc
    <2> QED
      BY <2>1, <2>2, <2>3
  <1>4. CASE UpdateCpRoute(s)
    <2>1. CASE Fatal
      BY <2>1, FatalTyped
    <2>2. CASE ~Fatal
      <3>1. net' \in Net
        BY <1>4, <2>2 DEF UpdateCpRoute, Net
      <3> QED
        BY <1>4, <2>2, <3>1, HandlerTyped DEF UpdateCpRoute, ClientPc
    <2> QED
      BY <2>1, <2>2
  <1>5. CASE UpdateFlush(s)
    <2>1. net' \in Net
      BY <1>5 DEF UpdateFlush, Net
    <2> QED
      BY <1>5, <2>1, HandlerTyped DEF UpdateFlush, ClientPc
  <1>6. CASE EnableSrcRules(s)
    <2>1. CASE Fatal
      BY <2>1, FatalTyped
    <2>2. CASE ~Fatal
      <3>1. net' \in Net
        BY <1>6, <2>2 DEF EnableSrcRules, Net
      <3>2. wg' \in Wg /\ wg'.serverIP = wg.serverIP
        BY <1>6, <2>2 DEF EnableSrcRules, Wg
      <3> QED
        BY <1>6, <2>2, <3>1, <3>2, HandlerTyped DEF EnableSrcRules, ClientPc
    <2> QED
      BY <2>1, <2>2
  <1>7. CASE EnableSrcRoutes(s)
    <2>1. CASE Fatal
      BY <2>1, FatalTyped
    <2>2. CASE ~Fatal
      <3>1. net' \in Net
        BY <1>7, <2>2 DEF EnableSrcRoutes, Net
      <3>2. wg' \in Wg /\ wg'.serverIP = wg.serverIP
        BY <1>7, <2>2 DEF EnableSrcRoutes, Wg
      <3> QED
        BY <1>7, <2>2, <3>1, <3>2, HandlerTyped DEF EnableSrcRoutes, ClientPc
    <2> QED
      BY <2>1, <2>2
  <1>8. CASE UpdateConfigure(s)
    <2>1. net' \in Net
      BY <1>8 DEF UpdateConfigure, Net, ClientPc
    <2> QED
      BY <1>8, <2>1, HandlerTyped DEF UpdateConfigure, ClientPc
  <1>9. CASE UpdateTunRoutes(s)
    <2>1. CASE Fatal
      BY <2>1, FatalTyped
    <2>2. CASE ~Fatal
      <3>1. net' \in Net
        BY <1>9, <2>2 DEF UpdateTunRoutes, Net
      <3>2. wg' \in Wg /\ wg'.serverIP = wg.serverIP
        BY <1>9, <2>2 DEF UpdateTunRoutes, Wg
      <3> QED
        BY <1>9, <2>2, <3>1, <3>2, HandlerTyped DEF UpdateTunRoutes, ClientPc
    <2> QED
      BY <2>1, <2>2
  <1>10. CASE Connected(s)
    <2>1. rvpn' \in Rvpn
      BY <1>10 DEF Connected, Rvpn, Status
    <2> QED
      BY <1>10, <2>1, HandlerTyped DEF Connected, ClientPc
  <1> QED
    BY <1>1, <1>2, <1>3, <1>4, <1>5, <1>6, <1>7, <1>8, <1>9, <1>10

(* The handler of a jrpc connection: serve_vpn, then UpdateServeConf. *)
LEMMA ServeHandlerTyped ==
    ASSUME Typed, NEW s \in Session,
           \/ ServeVpn(s) \/ ServeLink(s) \/ ServeConfigure(s) \/ EnableForwarding(s)
           \/ Serving(s)
    PROVE  Typed'
  <1> net \in Net /\ wg \in Wg /\ rvpn \in Rvpn
    BY DEF Typed, TypeOK
  <1>1. CASE ServeVpn(s)
    BY <1>1, HandlerTyped DEF ServeVpn, ServePc, ClientPc
  <1>2. CASE ServeLink(s)
    <2>1. CASE Fatal
      BY <2>1, FatalTyped
    <2>2. CASE ~Fatal
      <3>1. net' \in Net
        BY <1>2, <2>2 DEF ServeLink, Net
      <3>2. wg' \in Wg /\ wg'.serverIP = wg.serverIP
        BY <1>2, <2>2 DEF ServeLink, Wg
      <3> QED
        BY <1>2, <2>2, <3>1, <3>2, HandlerTyped DEF ServeLink, ServePc, ClientPc
    <2> QED
      BY <2>1, <2>2
  <1>3. CASE ServeConfigure(s)
    <2>1. net' \in Net
      BY <1>3 DEF ServeConfigure, Net
    <2> QED
      BY <1>3, <2>1, HandlerTyped DEF ServeConfigure, ServePc, ClientPc
  <1>4. CASE EnableForwarding(s)
    <2>1. net.forwarding + 1 \in 0 .. MaxForward
      BY <1>4, MaxForwardAssumption DEF EnableForwarding, Net
    <2>2. net' \in Net
      BY <1>4, <2>1 DEF EnableForwarding, Net
    <2>3. wg' \in Wg /\ wg'.serverIP = wg.serverIP
      BY <1>4 DEF EnableForwarding, Wg
    <2> QED
      BY <1>4, <2>2, <2>3, HandlerTyped DEF EnableForwarding, ServePc, ClientPc
  <1>5. CASE Serving(s)
    <2>1. rvpn' \in Rvpn
      BY <1>5 DEF Serving, Rvpn, Status
    <2> QED
      BY <1>5, <2>1, HandlerTyped DEF Serving, ClientPc
  <1> QED
    BY <1>1, <1>2, <1>3, <1>4, <1>5

LEMMA DropTyped ==
    ASSUME Typed, NEW s \in Session, Drop(s) PROVE Typed'
  <1>1. jrpc \in [Session -> Jrpc]
    BY DEF Typed, TypeOK
  <1>2. jrpc' = [jrpc EXCEPT ![s] = [jrpc[s] EXCEPT !.link = "closed"]]
    BY <1>1 DEF Drop
  <1>3. /\ [jrpc[s] EXCEPT !.link = "closed"] \in Jrpc
        /\ [jrpc[s] EXCEPT !.link = "closed"].pc = jrpc[s].pc
        /\ [jrpc[s] EXCEPT !.link = "closed"].serverIp = jrpc[s].serverIp
    BY <1>1, JrpcLinkType
  <1>4. /\ jrpc' \in [Session -> Jrpc]
        /\ \A t \in Session : jrpc'[t].pc = jrpc[t].pc /\ jrpc'[t].serverIp = jrpc[t].serverIp
    BY <1>1, <1>2, <1>3, Zenon
  <1> QED
    BY <1>4 DEF Typed, TypeOK, HandlerHasServer, Drop

LEMMA InitTyped == Init => Typed
  <1> SUFFICES ASSUME Init PROVE Typed
    OBVIOUS
  <1>1. /\ proc \in {"running"} \cup Stopping \cup Ended /\ tainted \in BOOLEAN
        /\ cli \in RpcConn /\ rvpn \in Rvpn /\ wg \in Wg
    BY DEF Init, NewRvpn, NewWg, RpcConn, CliPc, Rvpn, Status, Wg
  <1>2. net \in Net
    BY MaxForwardAssumption DEF Init, Net
  <1>3. \A s \in Session : jrpc[s] \in Jrpc /\ jrpc[s].pc \notin ClientPc
    BY DEF Init, Jrpc, ClientPc
  <1>4. jrpc \in [Session -> Jrpc]
    BY <1>3 DEF Init
  <1> QED
    BY <1>1, <1>2, <1>3, <1>4 DEF Typed, TypeOK, HandlerHasServer

LEMMA NextTyped == Typed /\ [Next]_vars => Typed'
  <1> SUFFICES ASSUME Typed, [Next]_vars PROVE Typed'
    OBVIOUS
  <1>1. CASE Cli
    BY <1>1, CliTyped
  <1>2. ASSUME NEW s \in Session, Handle(s) PROVE Typed'
    BY <1>2, ClientHandlerTyped, ServeHandlerTyped DEF Handle
  <1>3. ASSUME NEW s \in Session, Drop(s) PROVE Typed'
    BY <1>3, DropTyped
  <1>4. CASE Shutdown \/ ShutdownCpRoute \/ ShutdownForwarding \/ ShutdownSource
             \/ Start \/ Crash
    BY <1>4, LifeTyped
  <1>5. CASE UNCHANGED vars
    BY <1>5 DEF vars, Typed, TypeOK, HandlerHasServer
  <1> QED
    BY <1>1, <1>2, <1>3, <1>4, <1>5 DEF Next

(* Every variable of the daemon and of the kernel keeps its type, however  *)
(* commands, requests, signals and crashes interleave.                     *)
THEOREM DaemonTypeCorrect == Spec => []TypeOK
  <1>1. Spec => []Typed
    BY InitTyped, NextTyped, PTL DEF Spec
  <1>2. Typed => TypeOK
    BY DEF Typed
  <1> QED
    BY <1>1, <1>2, PTL

-----------------------------------------------------------------------------
(* Disconnect has a connection to close.  A connection is in use, or the   *)
(* status not Disconnected, only when jrpcConn is set or is about to be by *)
(* the command that is being served, and then no Disconnect is.            *)
InUse == rvpn.status # "Disconnected" \/ \E s \in Session : jrpc[s].pc \notin {"new", "done"}

ConnStored ==
    /\ InUse => rvpn.jrpcConn # Nil \/ cli.pc = "assign"
    /\ cli.pc = "assign" => cli.session # Nil
    /\ DisconnectHasConn

LEMMA ProcessEndsStored ==
    ASSUME Typed, NEW how, NEW n, ProcessEnds(how, n) PROVE ConnStored'
  <1>1. ASSUME NEW s \in Session PROVE jrpc'[s].pc \in {"new", "done"}
    <2>1. jrpc[s] \in Jrpc
      BY DEF Typed, TypeOK
    <2>2. [jrpc[s] EXCEPT !.pc = "done", !.link = "closed"].pc = "done"
      BY <2>1 DEF Jrpc
    <2>3. jrpc'[s] = IF jrpc[s].pc = "new" THEN jrpc[s]
                     ELSE [jrpc[s] EXCEPT !.pc = "done", !.link = "closed"]
      BY DEF ProcessEnds
    <2> QED
      BY <2>2, <2>3
  <1>2. rvpn'.status = "Disconnected" /\ cli'.pc = "idle"
    BY DEF ProcessEnds, NewRvpn
  <1> QED
    BY <1>1, <1>2 DEF ConnStored, InUse, DisconnectHasConn

(* A handler that is past its first request does not change jrpcConn. *)
LEMMA HandlerStored ==
    ASSUME Typed, ConnStored, NEW s \in Session,
           NEW pc \in {"idle", "done"} \cup ClientPc \cup ServePc,
           Goto(s, pc), UNCHANGED cli, rvpn'.jrpcConn = rvpn.jrpcConn,
           jrpc[s].pc \notin {"new", "done"}
    PROVE  ConnStored'
  BY DEF ConnStored, InUse, DisconnectHasConn

LEMMA HandleStored ==
    ASSUME Typed, ConnStored, NEW s \in Session, Handle(s) PROVE ConnStored'
  <1> jrpc \in [Session -> Jrpc] /\ rvpn \in Rvpn
    BY DEF Typed, TypeOK
  <1>1. CASE Fatal
    BY <1>1, ProcessEndsStored DEF Fatal
  <1>2. ASSUME NEW ip \in ServerIp, ConnectServer(s, ip) PROVE ConnStored'
    BY <1>2 DEF ConnectServer, ConnStored, InUse, DisconnectHasConn
  <1>3. CASE ~Fatal /\ (\/ UpdateLink(s) \/ UpdateDefault(s) \/ UpdateCpRoute(s)
                        \/ UpdateFlush(s) \/ EnableSrcRules(s) \/ EnableSrcRoutes(s)
                        \/ UpdateConfigure(s) \/ UpdateTunRoutes(s))
    <2>1. /\ \E pc \in ClientPc : Goto(s, pc)
          /\ UNCHANGED <<cli, rvpn>>
          /\ jrpc[s].pc \in ClientPc
      BY <1>3 DEF UpdateLink, UpdateDefault, UpdateCpRoute, UpdateFlush, EnableSrcRules,
                  EnableSrcRoutes, UpdateConfigure, UpdateTunRoutes, ClientPc
    <2> QED
      BY <2>1, HandlerStored DEF ClientPc
  <1>4. CASE ~Fatal /\ (\/ ServeVpn(s) \/ ServeLink(s) \/ ServeConfigure(s)
                        \/ EnableForwarding(s))
    <2>1. /\ \E pc \in ServePc : Goto(s, pc)
          /\ UNCHANGED <<cli, rvpn>>
          /\ jrpc[s].pc \in ServePc \cup {"idle"}
      BY <1>4 DEF ServeVpn, ServeLink, ServeConfigure, EnableForwarding, ServePc
    <2> QED
      BY <2>1, HandlerStored DEF ServePc
  <1>5. CASE Connected(s) \/ Serving(s)
    <2>1. rvpn'.jrpcConn = rvpn.jrpcConn
      BY <1>5 DEF Connected, Serving, Rvpn
    <2>2. Goto(s, "done") /\ UNCHANGED cli /\ jrpc[s].pc \in {"connected", "serving"}
      BY <1>5 DEF Connected, Serving
    <2> QED
      BY <2>1, <2>2, HandlerStored
  <1> QED
    BY <1>1, <1>2, <1>3, <1>4, <1>5 DEF Handle

LEMMA CliStored ==
    ASSUME Typed, ConnStored, Cli PROVE ConnStored'
  <1> jrpc \in [Session -> Jrpc] /\ rvpn \in Rvpn /\ cli \in RpcConn
    BY DEF Typed, TypeOK
  <1>1. CASE ClientDisconnectProfile
    <2>1. rvpn.jrpcConn # Nil /\ UNCHANGED <<rvpn, jrpc>> /\ cli'.pc = "disconnect"
      BY <1>1 DEF ClientDisconnectProfile, CliOpens, RpcConn, ConnStored, InUse
    <2> QED
      BY <2>1 DEF ConnStored, DisconnectHasConn
  <1>2. CASE ClientConnectProfile \/ ClientServeProfile \/ ConnectGivesUp \/ ServeGivesUp
    <2>1. /\ cli.pc # "assign" /\ cli'.pc \in {"connect", "serve", "idle"}
          /\ UNCHANGED <<rvpn, jrpc>>
      BY <1>2 DEF ClientConnectProfile, ClientServeProfile, CliOpens, ConnectGivesUp,
                  ServeGivesUp, GivesUp, RpcConn
    <2> QED
      BY <2>1 DEF ConnStored, InUse, DisconnectHasConn
  <1>3. ASSUME NEW s \in Session, Connect(s) \/ Serve(s) PROVE ConnStored'
    BY <1>3, AddressAssumption
       DEF Connect, Serve, NewConn, ConnStored, InUse, DisconnectHasConn
  <1>4. CASE Assign
    <2>1. cli'.pc = "idle" /\ rvpn'.jrpcConn # Nil
      BY <1>4 DEF Assign, RpcConn, Rvpn, ConnStored
    <2> QED
      BY <2>1 DEF ConnStored, DisconnectHasConn
  <1>5. CASE DisconnectDown \/ DisconnectRoutes \/ DisconnectSource
    <2>1. UNCHANGED <<rvpn, jrpc>> /\ rvpn.jrpcConn # Nil /\ cli'.pc \in {"routes", "source", "close"}
      BY <1>5 DEF DisconnectDown, DisconnectRoutes, DisconnectSource, RpcConn,
                  ConnStored, DisconnectHasConn
    <2> QED
      BY <2>1 DEF ConnStored, DisconnectHasConn
  <1>6. CASE DisconnectClose
    <2>1. rvpn.jrpcConn # Nil /\ cli.pc = "close"
      BY <1>6 DEF DisconnectClose, ConnStored, DisconnectHasConn
    <2>2. cli'.pc = "idle" /\ rvpn'.jrpcConn = rvpn.jrpcConn
      BY <1>6, <2>1 DEF DisconnectClose, RpcConn, Rvpn
    <2> QED
      BY <2>1, <2>2 DEF ConnStored, DisconnectHasConn
  <1> QED
    BY <1>1, <1>2, <1>3, <1>4, <1>5, <1>6 DEF Cli

LEMMA NextStored == Typed /\ ConnStored /\ [Next]_vars => ConnStored'
  <1> SUFFICES ASSUME Typed, ConnStored, [Next]_vars PROVE ConnStored'
    OBVIOUS
  <1>1. CASE Cli
    BY <1>1, CliStored
  <1>2. ASSUME NEW s \in Session, Handle(s) PROVE ConnStored'
    BY <1>2, HandleStored
  <1>3. ASSUME NEW s \in Session, Drop(s) PROVE ConnStored'
    <2>1. \A t \in Session : jrpc'[t].pc = jrpc[t].pc
      BY <1>3 DEF Drop, Typed, TypeOK, Jrpc
    <2> QED
      BY <1>3, <2>1 DEF Drop, ConnStored, InUse, DisconnectHasConn
  <1>4. ASSUME NEW how, NEW n, ProcessEnds(how, n) PROVE ConnStored'
    BY <1>4, ProcessEndsStored
  <1>5. CASE UNCHANGED <<cli, rvpn, jrpc>>
    BY <1>5 DEF ConnStored, InUse, DisconnectHasConn
  <1>6. CASE Shutdown \/ ShutdownCpRoute \/ ShutdownForwarding \/ ShutdownSource
    BY <1>4, <1>5, <1>6 DEF Shutdown, ShutdownCpRoute, ShutdownForwarding, ShutdownSource
  <1>7. CASE Start \/ Crash
    BY <1>4, <1>5, <1>7 DEF Start, Crash
  <1> QED
    BY <1>1, <1>2, <1>3, <1>5, <1>6, <1>7 DEF Next, vars

(* RVPNDaemon.Disconnect never dereferences a nil jrpcConn: for any number *)
(* of connections, with second connects, late requests, signals, crashes   *)
(* and restarts, although Connect starts to handle requests before it has  *)
(* stored the connection.                                                  *)
THEOREM DisconnectSafe == Spec => []DisconnectHasConn
  <1>1. Init => ConnStored
    BY DEF Init, NewRvpn, ConnStored, InUse, DisconnectHasConn
  <1>2. Spec => [](Typed /\ ConnStored)
    BY <1>1, InitTyped, NextTyped, NextStored, PTL DEF Spec
  <1>3. Typed /\ ConnStored => DisconnectHasConn
    BY DEF ConnStored
  <1> QED
    BY <1>2, <1>3, PTL
=============================================================================
