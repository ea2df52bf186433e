-------------------------- MODULE RvpnDaemonRoutes --------------------------
(***************************************************************************)
(* Proofs that the daemon on a Linux device, whose users wait and which is *)
(* signalled between commands (~Impatient), keeps its fields, the tunnel,  *)
(* the routes, the rules and iptables in agreement, for any number of      *)
(* connections and servers, and through crashes and restarts.              *)
(***************************************************************************)
EXTENDS RvpnDaemonProofs

(* A handler that configures the device, or may be told to. *)
Active(s) == Busy(s) \/ (jrpc[s].pc = "idle" /\ jrpc[s].link = "up")

-----------------------------------------------------------------------------
(* What the process is doing.                                              *)

(* Connections that were never used, and what they are used for. *)
Sessions ==
    \A s \in Session :
        /\ jrpc[s].pc = "new" => jrpc[s].kind = "connect"
        /\ jrpc[s].pc \in {"new", "idle"} => jrpc[s].serverIp = Nil
        /\ jrpc[s].pc \in ServePc => jrpc[s].kind = "serve"

(* A process that has ended leaves nothing for the next but the kernel. *)
Fresh ==
    /\ cli.pc = "idle" /\ rvpn = NewRvpn /\ wg = NewWg
    /\ \A s \in Session : jrpc[s].pc \in {"new", "done"}
    /\ ~net.tunRoutes

(* One command, one connection or one shutdown at a time; a command only   *)
(* overlaps with the connection that it is about to assign.                *)
Exclusive ==
    /\ \A s, t \in Session : Active(s) /\ Active(t) => s = t
    /\ \A s \in Session : Active(s) =>
        /\ proc = "running"
        /\ cli.pc = "idle" \/ (cli.pc = "assign" /\ cli.session = s)
    /\ cli.pc # "idle" => proc = "running"

StatusInv ==
    /\ \A s \in Session : Active(s) => rvpn.status = "Disconnected"
    /\ cli.pc \in {"connect", "serve"} => rvpn.status = "Disconnected"
    /\ cli.pc \in {"disconnect", "routes", "source", "close"}
         => rvpn.status # "Disconnected"

-----------------------------------------------------------------------------
(* The device and the routes of a process that runs.                       *)

(* The command has not started to take down what is there. *)
Untouched == cli.pc \in {"idle", "assign", "disconnect"}

TunnelInv ==
    /\ net.tunRoutes = wg.appendedRoutes
    /\ rvpn.status = "Disconnected" /\ net.tunRoutes
         => \E s \in Session : jrpc[s].pc = "connected"
    /\ cli.pc \in {"source", "close"} => ~net.tunRoutes
    /\ rvpn.status = "Connected" => wg.defaultIFaceLink
    /\ rvpn.status = "Connected" /\ Untouched =>
        /\ net.up /\ net.conf = wg.serverIP /\ wg.serverIP # Nil
        /\ net.tunRoutes /\ net.srcRules /\ net.srcRoutes
    /\ rvpn.status = "Serving" /\ Untouched =>
        /\ net.up /\ net.conf = "serve" /\ ~net.tunRoutes /\ net.forwarding > 0

(* The steps of UpdateClientConf after the source rules, and the routes. *)
HasRules(s) == jrpc[s].pc \in {"srcroutes", "configure", "tunroutes", "connected"}
HasRoutes(s) == jrpc[s].pc \in {"configure", "tunroutes", "connected"}

(* What UpdateClientConf and UpdateServeConf have done by each step. *)
HandlerInv(s) ==
    /\ Busy(s) => (net.tunRoutes <=> jrpc[s].pc = "connected")
    /\ jrpc[s].pc \in ClientPc \ {"link"} => net.up /\ wg.serverIP = jrpc[s].serverIp
    /\ jrpc[s].pc \in ClientPc \ {"link", "default"} => wg.defaultIFaceLink
    /\ HasRules(s) => net.srcRules
    /\ HasRoutes(s) => net.srcRoutes
    /\ jrpc[s].pc \in {"tunroutes", "connected"} => net.conf = jrpc[s].serverIp
    /\ jrpc[s].pc \in ServePc \ {"servelink"} => net.up
    /\ jrpc[s].pc \in {"forward", "serving"} => net.conf = "serve"
    /\ jrpc[s].pc = "serving" => net.forwarding > 0

(* The routes over the default interface, once it is known and the device  *)
(* has not served: to the server of some connection, and to the control    *)
(* plane.                                                                  *)
DefaultInv ==
    wg.defaultIFaceLink =>
        \/ \E s \in Session : jrpc[s].kind = "serve"
        \/ /\ \E s \in Session : jrpc[s].serverIp \in ServerIp \cap net.hostRoutes
           /\ \/ ControlPlaneIp \in net.hostRoutes
              \/ \E s \in Session : jrpc[s].pc = "cproute"

-----------------------------------------------------------------------------
(* What is in the kernel if no earlier process left anything there.        *)

(* On the default interface there are at most the routes to the first      *)
(* server and to the control plane.                                        *)
CleanHost ==
    /\ ~wg.defaultIFaceLink => net.hostRoutes = {}
    /\ \A r, q \in net.hostRoutes \ {ControlPlaneIp} : r = q
    /\ \A s \in Session : jrpc[s].pc = "cproute" => ControlPlaneIp \notin net.hostRoutes
    /\ proc = "stop_cproute" => net.hostRoutes \subseteq {ControlPlaneIp}
    /\ proc \in {"stop_forward", "stop_source"} => net.hostRoutes = {}

(* Source rules and routes are known as appended, and are there while a    *)
(* handler connects and until Disconnect has taken them down.              *)
CleanSource ==
    /\ net.srcRules => wg.appendedSrcRules
    /\ net.srcRoutes => wg.appendedSrcRoutes
    /\ net.srcRules => net.srcRoutes \/ \E s \in Session : jrpc[s].pc = "srcroutes"
    /\ \A s \in Session : jrpc[s].pc = "srcroutes" => ~net.srcRoutes
    /\ net.srcRules \/ net.srcRoutes =>
        \/ \E s \in Session : HasRules(s)
        \/ rvpn.status = "Connected" /\ cli.pc # "close"

(* The forwarding rules are there once, or not at all. *)
CleanForward ==
    /\ net.forwarding # 0 =>
        /\ net.forwarding = 1 /\ wg.vpnServerMode
        /\ \/ \E s \in Session : jrpc[s].pc = "serving"
           \/ rvpn.status = "Serving" /\ Untouched
    /\ proc = "stop_source" => net.forwarding = 0

-----------------------------------------------------------------------------
DeviceInv == TunnelInv /\ (\A s \in Session : HandlerInv(s)) /\ DefaultInv
CleanInv == CleanHost /\ CleanSource /\ CleanForward

MainInv ==
    /\ proc \in Ended => Fresh
    /\ FatalOnlyOnLeftovers /\ StoppedIsClean
    /\ Exclusive
    /\ StatusInv
    /\ proc = "running" => DeviceInv
    /\ Alive /\ ~tainted => CleanInv

DaemonInv == Typed /\ Sessions /\ MainInv

-----------------------------------------------------------------------------
LEMMA InitMain ==
  ASSUME Init
  PROVE  Sessions /\ MainInv
<1>1. \A s \in Session : /\ jrpc[s].pc = "new" /\ jrpc[s].kind = "connect"
                         /\ jrpc[s].serverIp = Nil
  BY DEF Init
<1>2. /\ proc = "running" /\ cli.pc = "idle" /\ rvpn.status = "Disconnected"
      /\ ~wg.defaultIFaceLink /\ wg.appendedRoutes = FALSE
      /\ net.tunRoutes = FALSE /\ net.hostRoutes = {}
      /\ ~net.srcRules /\ ~net.srcRoutes /\ net.forwarding = 0
  BY DEF Init, NewRvpn, NewWg
<1>3. \A s \in Session : ~Active(s) /\ ~Busy(s) /\ ~HasRules(s) /\ ~HasRoutes(s)
  BY <1>1 DEF Active, Busy, HasRules, HasRoutes, ClientPc, ServePc
<1>4. Sessions
  BY <1>1 DEF Sessions, ServePc
<1>5. Exclusive /\ StatusInv
  BY <1>2, <1>3 DEF Exclusive, StatusInv
<1>6. TunnelInv /\ DefaultInv
  BY <1>2 DEF TunnelInv, DefaultInv
<1>7. \A s \in Session : HandlerInv(s)
  BY <1>1, <1>3 DEF HandlerInv, ClientPc, ServePc
<1>8. CleanHost /\ CleanSource /\ CleanForward
  BY <1>1, <1>2 DEF CleanHost, CleanSource, CleanForward
<1>9. FatalOnlyOnLeftovers /\ StoppedIsClean /\ proc \notin Ended
  BY <1>2 DEF FatalOnlyOnLeftovers, StoppedIsClean, Ended
<1> QED BY <1>4, <1>5, <1>6, <1>7, <1>8, <1>9 DEF MainInv, DeviceInv, CleanInv

(* The end of a process, with what it owes to the next. *)
LEMMA EndsMain ==
  ASSUME Typed, NEW how \in Ended, NEW n \in Net, ProcessEnds(how, n),
         how = "fatal" => tainted,
         how = "stopped" /\ ~tainted =>
            n.hostRoutes = {} /\ ~n.srcRules /\ ~n.srcRoutes /\ n.forwarding = 0
  PROVE  MainInv'
<1>1. proc' = how /\ tainted' = tainted
  BY DEF ProcessEnds
<1>2. /\ ~net'.tunRoutes /\ net'.hostRoutes = n.hostRoutes /\ net'.srcRules = n.srcRules
      /\ net'.srcRoutes = n.srcRoutes /\ net'.forwarding = n.forwarding
  BY DEF ProcessEnds, Net
<1>3. \A s \in Session : jrpc[s] \in Jrpc
  BY DEF Typed, TypeOK
<1>4. \A s \in Session : jrpc'[s].pc \in {"new", "done"}
  BY <1>3 DEF ProcessEnds, Jrpc
<1>5. cli'.pc = "idle" /\ rvpn' = NewRvpn /\ wg' = NewWg
  BY DEF ProcessEnds
<1>6. Fresh'
  BY <1>2, <1>4, <1>5 DEF Fresh
<1>7. \A s \in Session : ~Active(s)'
  BY <1>4 DEF Active, Busy, ClientPc, ServePc
<1>8. Exclusive' /\ StatusInv'
  BY <1>5, <1>7 DEF Exclusive, StatusInv
<1>9. FatalOnlyOnLeftovers' /\ StoppedIsClean'
  BY <1>1, <1>2 DEF FatalOnlyOnLeftovers, StoppedIsClean
<1>10. how # "running" /\ how \notin Stopping
  BY DEF Ended, Stopping
<1> QED BY <1>1, <1>6, <1>8, <1>9, <1>10 DEF MainInv, Alive

LEMMA FatalMain ==
  ASSUME Typed, Fatal, tainted
  PROVE  MainInv'
<1>1. net \in Net /\ "fatal" \in Ended
  BY DEF Typed, TypeOK, Ended
<1> QED BY <1>1, EndsMain DEF Fatal

(* A step of a process that runs on. *)
LEMMA RunsOn ==
  ASSUME proc' = "running", Exclusive', StatusInv', DeviceInv', ~tainted' => CleanInv'
  PROVE  MainInv'
  BY DEF MainInv, FatalOnlyOnLeftovers, StoppedIsClean, Ended, Alive

-----------------------------------------------------------------------------
(* The handlers.                                                           *)

LEMMA GotoFields ==
  ASSUME Typed, NEW s \in Session, NEW pc, Goto(s, pc)
  PROVE  /\ jrpc'[s].pc = pc /\ jrpc'[s].serverIp = jrpc[s].serverIp
         /\ jrpc'[s].link = jrpc[s].link /\ jrpc'[s].kind = jrpc[s].kind
         /\ \A t \in Session : t # s => jrpc'[t] = jrpc[t]
<1>1. jrpc \in [Session -> Jrpc]
  BY DEF Typed, TypeOK
<1>2. jrpc[s] \in Jrpc
  BY <1>1
<1>3. jrpc'[s] = [jrpc[s] EXCEPT !.pc = pc]
  BY <1>1 DEF Goto
<1>4. \A t \in Session : t # s => jrpc'[t] = jrpc[t]
  BY <1>1 DEF Goto
<1> QED BY <1>2, <1>3, <1>4 DEF Jrpc

(* A handler that is busy is alone, in a process that runs and is not      *)
(* connected.                                                              *)
LEMMA Alone ==
  ASSUME DaemonInv, NEW s \in Session, Busy(s)
  PROVE  /\ \A t \in Session : t # s => ~Busy(t) /\ ~Active(t)
         /\ proc = "running" /\ rvpn.status = "Disconnected"
         /\ cli.pc = "idle" \/ (cli.pc = "assign" /\ cli.session = s)
         /\ DeviceInv /\ (~tainted => CleanInv)
<1>1. Active(s)
  BY DEF Active
<1>2. proc = "running" /\ rvpn.status = "Disconnected"
  BY <1>1 DEF DaemonInv, MainInv, Exclusive, StatusInv
<1>3. \A t \in Session : t # s => ~Busy(t) /\ ~Active(t)
  BY <1>1 DEF DaemonInv, MainInv, Exclusive, Active
<1> QED BY <1>1, <1>2, <1>3 DEF DaemonInv, MainInv, Exclusive, Alive

LEMMA IdleHandler ==
  ASSUME NEW s \in Session, ~Busy(s)
  PROVE  /\ HandlerInv(s) /\ ~HasRules(s) /\ ~HasRoutes(s)
         /\ jrpc[s].pc \notin {"connected", "cproute", "srcroutes", "serving"}
  BY DEF Busy, HandlerInv, HasRules, HasRoutes, ClientPc, ServePc

LEMMA IdleHandlerNext ==
  ASSUME NEW s \in Session, ~Busy(s)'
  PROVE  /\ HandlerInv(s)' /\ ~HasRules(s)' /\ ~HasRoutes(s)'
         /\ jrpc'[s].pc \notin {"connected", "cproute", "srcroutes", "serving"}
  BY DEF Busy, HandlerInv, HasRules, HasRoutes, ClientPc, ServePc

(* What an untainted kernel holds while a handler is busy. *)
LEMMA HandlerClean ==
  ASSUME DaemonInv, NEW s \in Session, Busy(s), ~tainted
  PROVE  /\ CleanHost
         /\ net.srcRules \/ net.srcRoutes => HasRules(s)
         /\ net.srcRules => net.srcRoutes \/ jrpc[s].pc = "srcroutes"
         /\ jrpc[s].pc = "srcroutes" => ~net.srcRoutes
         /\ net.srcRules => wg.appendedSrcRules
         /\ net.srcRoutes => wg.appendedSrcRoutes
         /\ net.forwarding # 0 => jrpc[s].pc = "serving"
<1>1. CleanInv /\ rvpn.status = "Disconnected"
  BY Alone
<1>2. \A t \in Session : t # s => ~HasRules(t) /\ jrpc[t].pc \notin {"srcroutes", "serving"}
  BY Alone, IdleHandler
<1> QED BY <1>1, <1>2 DEF CleanInv, CleanSource, CleanForward

LEMMA SourceOff ==
  ASSUME ~net'.srcRules, ~net'.srcRoutes
  PROVE  CleanSource'
  BY DEF CleanSource

LEMMA ForwardOff ==
  ASSUME net'.forwarding = 0
  PROVE  CleanForward'
  BY DEF CleanForward

LEMMA CleanHostKept ==
  ASSUME CleanHost, UNCHANGED proc, net'.hostRoutes = net.hostRoutes,
         wg.defaultIFaceLink => wg'.defaultIFaceLink,
         \A t \in Session : jrpc'[t].pc = "cproute" => jrpc[t].pc = "cproute"
  PROVE  CleanHost'
  BY DEF CleanHost

LEMMA TunRoutesType ==
  ASSUME Typed', net'.tunRoutes <=> wg'.appendedRoutes
  PROVE  net'.tunRoutes = wg'.appendedRoutes
<1>1. net' \in Net /\ wg' \in Wg
  BY DEF Typed, TypeOK
<1>2. net'.tunRoutes \in BOOLEAN /\ wg'.appendedRoutes \in BOOLEAN
  BY <1>1 DEF Net, Wg
<1> QED BY <1>2

(* A step within UpdateClientConf or UpdateServeConf: what it owes for its *)
(* own connection.                                                         *)
LEMMA HandlerStep ==
  ASSUME DaemonInv, Typed', NEW s \in Session, Busy(s), NEW pc \in ClientPc \cup ServePc,
         Goto(s, pc), UNCHANGED <<proc, tainted, cli, rvpn>>,
         net'.tunRoutes <=> wg'.appendedRoutes, HandlerInv(s)',
         net.hostRoutes \subseteq net'.hostRoutes,
         wg'.defaultIFaceLink =>
            \/ jrpc[s].kind = "serve"
            \/ /\ wg.defaultIFaceLink
               /\ jrpc[s].pc = "cproute" => ControlPlaneIp \in net'.hostRoutes
            \/ jrpc[s].serverIp \in ServerIp \cap net'.hostRoutes /\ pc = "cproute",
         ~tainted => CleanInv'
  PROVE  MainInv'
<1>1. /\ jrpc'[s].pc = pc /\ jrpc'[s].serverIp = jrpc[s].serverIp
      /\ jrpc'[s].kind = jrpc[s].kind
      /\ \A t \in Session : t # s => jrpc'[t] = jrpc[t]
  BY GotoFields DEF DaemonInv
<1>2. /\ proc = "running" /\ rvpn.status = "Disconnected"
      /\ cli.pc = "idle" \/ cli.pc = "assign"
      /\ \A t \in Session : t # s => ~Busy(t)
      /\ DefaultInv
  BY Alone DEF DeviceInv
<1>3. \A t \in Session : Active(t)' => Active(t)
  BY <1>1 DEF Active, Busy
<1>4. Exclusive' /\ StatusInv'
  BY <1>2, <1>3 DEF DaemonInv, MainInv, Exclusive, StatusInv
<1>5. \A t \in Session : HandlerInv(t)'
  <2>1. \A t \in Session : t # s => ~Busy(t)'
    BY <1>1, <1>2 DEF Busy
  <2> QED BY <2>1, IdleHandlerNext
<1>6. TunnelInv'
  <2>1. net'.tunRoutes = wg'.appendedRoutes
    BY TunRoutesType
  <2>2. Busy(s)'
    BY <1>1 DEF Busy
  <2>3. net'.tunRoutes => jrpc'[s].pc = "connected"
    BY <2>2 DEF HandlerInv
  <2> QED BY <1>2, <2>1, <2>3 DEF TunnelInv
<1>7. DefaultInv'
  <2>1. \A t \in Session : /\ jrpc'[t].kind = jrpc[t].kind
                           /\ jrpc'[t].serverIp = jrpc[t].serverIp
                           /\ t # s => jrpc'[t].pc = jrpc[t].pc
    BY <1>1
  <2>2. \A t \in Session : jrpc[t].pc = "cproute" => t = s
    BY <1>2, IdleHandler
  <2>3. CASE jrpc[s].kind = "serve"
    BY <2>1, <2>3 DEF DefaultInv
  <2>4. CASE jrpc[s].serverIp \in ServerIp \cap net'.hostRoutes /\ pc = "cproute"
    BY <1>1, <2>1, <2>4 DEF DefaultInv
  <2>5. CASE wg.defaultIFaceLink /\ (jrpc[s].pc = "cproute" => ControlPlaneIp \in net'.hostRoutes)
    <3>1. \/ \E t \in Session : jrpc[t].kind = "serve"
          \/ /\ \E t \in Session : jrpc[t].serverIp \in ServerIp \cap net.hostRoutes
             /\ \/ ControlPlaneIp \in net.hostRoutes
                \/ \E t \in Session : jrpc[t].pc = "cproute"
      BY <1>2, <2>5 DEF DefaultInv
    <3>2. (\E t \in Session : jrpc[t].pc = "cproute") => ControlPlaneIp \in net'.hostRoutes
      BY <2>2, <2>5
    <3>3. \A t \in Session : jrpc[t].serverIp \in ServerIp \cap net.hostRoutes
                               => jrpc'[t].serverIp \in ServerIp \cap net'.hostRoutes
      BY <2>1
    <3>4. ControlPlaneIp \in net.hostRoutes => ControlPlaneIp \in net'.hostRoutes
      OBVIOUS
    <3> QED BY <2>1, <3>1, <3>2, <3>3, <3>4 DEF DefaultInv
  <2>6. CASE ~wg'.defaultIFaceLink
    BY <2>6 DEF DefaultInv
  <2> QED BY <2>3, <2>4, <2>5, <2>6
<1> QED BY <1>2, <1>4, <1>5, <1>6, <1>7, RunsOn DEF DeviceInv

(* What a busy handler finds. *)
LEMMA HandlerWas ==
  ASSUME DaemonInv, NEW s \in Session, Busy(s)
  PROVE  /\ HandlerInv(s) /\ (net.tunRoutes <=> wg.appendedRoutes)
         /\ jrpc[s] \in Jrpc /\ net \in Net /\ wg \in Wg /\ rvpn \in Rvpn
<1>1. DeviceInv
  BY Alone
<1> QED BY <1>1 DEF DeviceInv, TunnelInv, DaemonInv, Typed, TypeOK

(* A step that leaves the routes on the default interface and iptables. *)
LEMMA HostForwardKept ==
  ASSUME DaemonInv, NEW s \in Session, Busy(s), jrpc[s].pc # "serving", ~tainted,
         NEW pc, pc # "cproute", Goto(s, pc), UNCHANGED proc,
         net'.hostRoutes = net.hostRoutes, net'.forwarding = net.forwarding,
         wg.defaultIFaceLink => wg'.defaultIFaceLink
  PROVE  CleanHost' /\ CleanForward'
<1>1. CleanHost /\ net.forwarding = 0
  BY HandlerClean
<1>2. \A t \in Session : jrpc'[t].pc = "cproute" => jrpc[t].pc = "cproute"
  BY GotoFields DEF DaemonInv
<1> QED BY <1>1, <1>2, CleanHostKept, ForwardOff

(* A step that also leaves the source rules, before there are any. *)
LEMMA EarlyClean ==
  ASSUME DaemonInv, NEW s \in Session, Busy(s), jrpc[s].pc # "serving", ~tainted,
         ~HasRules(s), NEW pc, pc # "cproute", Goto(s, pc), UNCHANGED proc,
         net'.hostRoutes = net.hostRoutes, net'.forwarding = net.forwarding,
         net'.srcRules = net.srcRules, net'.srcRoutes = net.srcRoutes,
         wg.defaultIFaceLink => wg'.defaultIFaceLink
  PROVE  CleanInv'
<1>1. CleanSource'
  BY HandlerClean, SourceOff
<1> QED BY <1>1, HostForwardKept DEF CleanInv

LEMMA UpdateLinkMain ==
  ASSUME DaemonInv, Typed', NEW s \in Session, UpdateLink(s)
  PROVE  MainInv'
<1>1. jrpc[s].pc = "link" /\ Busy(s) /\ ~HasRules(s)
  BY DEF UpdateLink, Busy, HasRules, ClientPc
<1>2. Goto(s, "default") /\ UNCHANGED <<proc, tainted, cli, rvpn>>
      /\ net' = [net EXCEPT !.up = TRUE] /\ wg' = [wg EXCEPT !.serverIP = jrpc[s].serverIp]
  BY <1>1, Alone DEF UpdateLink
<1>3. /\ net'.up /\ net'.tunRoutes = net.tunRoutes /\ net'.hostRoutes = net.hostRoutes
      /\ net'.srcRules = net.srcRules /\ net'.srcRoutes = net.srcRoutes
      /\ net'.forwarding = net.forwarding
  BY <1>1, <1>2, HandlerWas DEF Net
<1>4. /\ wg'.serverIP = jrpc[s].serverIp /\ wg'.defaultIFaceLink = wg.defaultIFaceLink
      /\ wg'.appendedRoutes = wg.appendedRoutes
  BY <1>1, <1>2, HandlerWas DEF Wg
<1>5. jrpc'[s].pc = "default" /\ jrpc'[s].serverIp = jrpc[s].serverIp
  BY <1>2, GotoFields DEF DaemonInv
<1>6. HandlerInv(s)'
  BY <1>1, <1>3, <1>4, <1>5, HandlerWas
     DEF HandlerInv, HasRules, HasRoutes, ClientPc, ServePc
<1>7. ~tainted => CleanInv'
  BY <1>1, <1>2, <1>3, <1>4, EarlyClean
<1> QED BY <1>1, <1>2, <1>3, <1>4, <1>6, <1>7, HandlerWas, HandlerStep DEF ClientPc

LEMMA UpdateDefaultMain ==
  ASSUME DaemonInv, Typed', NEW s \in Session, UpdateDefault(s)
  PROVE  MainInv'
<1>1. jrpc[s].pc = "default" /\ Busy(s) /\ ~HasRules(s)
  BY DEF UpdateDefault, Busy, HasRules, ClientPc
<1>2. wg.serverIP = jrpc[s].serverIp /\ wg.serverIP \in ServerIp /\ net.up
  BY <1>1, HandlerWas DEF HandlerInv, DaemonInv, Typed, HandlerHasServer, ClientPc
<1>3. CASE wg.defaultIFaceLink
  <2>1. Goto(s, "flush") /\ UNCHANGED <<proc, tainted, cli, rvpn, wg, net>>
    BY <1>3 DEF UpdateDefault
  <2>2. jrpc'[s].pc = "flush" /\ jrpc'[s].serverIp = jrpc[s].serverIp
    BY <2>1, GotoFields DEF DaemonInv
  <2>3. HandlerInv(s)'
    BY <1>1, <1>2, <1>3, <2>1, <2>2, HandlerWas
       DEF HandlerInv, HasRules, HasRoutes, ClientPc, ServePc
  <2>4. ~tainted => CleanInv'
    BY <1>1, <2>1, EarlyClean
  <2> QED BY <1>1, <1>3, <2>1, <2>3, <2>4, HandlerWas, HandlerStep DEF ClientPc
<1>4. CASE ~wg.defaultIFaceLink /\ wg.serverIP \in net.hostRoutes
  <2>1. tainted /\ Fatal
    BY <1>1, <1>4, HandlerClean DEF UpdateDefault, CleanHost
  <2> QED BY <2>1, FatalMain DEF DaemonInv
<1>5. CASE ~wg.defaultIFaceLink /\ wg.serverIP \notin net.hostRoutes
  <2>1. Goto(s, "cproute") /\ UNCHANGED <<proc, tainted, cli, rvpn>>
        /\ net' = [net EXCEPT !.hostRoutes = @ \cup {wg.serverIP}]
        /\ wg' = [wg EXCEPT !.defaultIFaceLink = TRUE]
    BY <1>5 DEF UpdateDefault
  <2>2. /\ net'.up = net.up /\ net'.tunRoutes = net.tunRoutes
        /\ net'.hostRoutes = net.hostRoutes \cup {wg.serverIP}
        /\ net'.srcRules = net.srcRules /\ net'.srcRoutes = net.srcRoutes
        /\ net'.forwarding = net.forwarding
    BY <1>1, <2>1, HandlerWas DEF Net
  <2>3. /\ wg'.serverIP = wg.serverIP /\ wg'.defaultIFaceLink
        /\ wg'.appendedRoutes = wg.appendedRoutes
    BY <1>1, <2>1, HandlerWas DEF Wg
  <2>4. jrpc'[s].pc = "cproute" /\ jrpc'[s].serverIp = jrpc[s].serverIp
        /\ \A t \in Session : t # s => jrpc'[t] = jrpc[t]
    BY <2>1, GotoFields DEF DaemonInv
  <2>5. HandlerInv(s)'
    BY <1>1, <1>2, <2>2, <2>3, <2>4, HandlerWas
       DEF HandlerInv, HasRules, HasRoutes, ClientPc, ServePc
  <2>6. ASSUME ~tainted PROVE CleanInv'
    <3>1. net'.hostRoutes = {wg.serverIP} /\ net.forwarding = 0
          /\ ~net.srcRules /\ ~net.srcRoutes
      BY <1>1, <1>5, <2>2, <2>6, HandlerClean DEF CleanHost
    <3>2. proc' = "running"
      BY <1>1, <2>1, Alone
    <3>3. ControlPlaneIp \notin net'.hostRoutes
      BY <1>2, <3>1, AddressAssumption
    <3>4. CleanHost'
      BY <2>3, <3>1, <3>2, <3>3 DEF CleanHost
    <3> QED BY <2>2, <3>1, <3>4, SourceOff, ForwardOff DEF CleanInv
  <2>7. jrpc[s].serverIp \in ServerIp \cap net'.hostRoutes
    BY <1>2, <2>2
  <2> QED BY <1>1, <2>1, <2>2, <2>3, <2>5, <2>6, <2>7, HandlerWas, HandlerStep DEF ClientPc
<1> QED BY <1>3, <1>4, <1>5

LEMMA UpdateCpRouteMain ==
  ASSUME DaemonInv, Typed', NEW s \in Session, UpdateCpRoute(s)
  PROVE  MainInv'
<1>1. jrpc[s].pc = "cproute" /\ Busy(s) /\ ~HasRules(s)
  BY DEF UpdateCpRoute, Busy, HasRules, ClientPc
<1>2. CASE ControlPlaneIp \in net.hostRoutes
  <2>1. tainted /\ Fatal
    BY <1>1, <1>2, HandlerClean DEF UpdateCpRoute, CleanHost
  <2> QED BY <2>1, FatalMain DEF DaemonInv
<1>3. CASE ControlPlaneIp \notin net.hostRoutes
  <2>1. Goto(s, "flush") /\ UNCHANGED <<proc, tainted, cli, rvpn, wg>>
        /\ net' = [net EXCEPT !.hostRoutes = @ \cup {ControlPlaneIp}]
    BY <1>3 DEF UpdateCpRoute
  <2>2. /\ net'.up = net.up /\ net'.tunRoutes = net.tunRoutes
        /\ net'.hostRoutes = net.hostRoutes \cup {ControlPlaneIp}
        /\ net'.srcRules = net.srcRules /\ net'.srcRoutes = net.srcRoutes
        /\ net'.forwarding = net.forwarding
    BY <1>1, <2>1, HandlerWas DEF Net
  <2>3. jrpc'[s].pc = "flush" /\ jrpc'[s].serverIp = jrpc[s].serverIp
        /\ \A t \in Session : t # s => jrpc'[t] = jrpc[t]
    BY <2>1, GotoFields DEF DaemonInv
  <2>4. wg.defaultIFaceLink
    BY <1>1, HandlerWas DEF HandlerInv, ClientPc
  <2>5. HandlerInv(s)'
    BY <1>1, <2>1, <2>2, <2>3, HandlerWas
       DEF HandlerInv, HasRules, HasRoutes, ClientPc, ServePc
  <2>6. ASSUME ~tainted PROVE CleanInv'
    <3>1. CleanHost /\ net.forwarding = 0 /\ ~net.srcRules /\ ~net.srcRoutes
      BY <1>1, <2>6, HandlerClean
    <3>2. proc' = "running"
      BY <1>1, <2>1, Alone
    <3>3. \A t \in Session : jrpc'[t].pc # "cproute"
      BY <1>1, <2>3, Alone, IdleHandler
    <3>4. CleanHost'
      BY <2>1, <2>2, <2>4, <3>1, <3>2, <3>3 DEF CleanHost
    <3> QED BY <2>2, <3>1, <3>4, SourceOff, ForwardOff DEF CleanInv
  <2> QED BY <1>1, <2>1, <2>2, <2>4, <2>5, <2>6, HandlerWas, HandlerStep DEF ClientPc
<1> QED BY <1>2, <1>3

LEMMA UpdateFlushMain ==
  ASSUME DaemonInv, Typed', NEW s \in Session, UpdateFlush(s)
  PROVE  MainInv'
<1>1. jrpc[s].pc = "flush" /\ Busy(s) /\ ~HasRules(s)
  BY DEF UpdateFlush, Busy, HasRules, ClientPc
<1>2. Goto(s, "srcrules") /\ UNCHANGED <<proc, tainted, cli, rvpn, wg>>
      /\ net' = [net EXCEPT !.tunRoutes = FALSE]
  BY DEF UpdateFlush
<1>3. /\ net'.up = net.up /\ ~net'.tunRoutes /\ net'.hostRoutes = net.hostRoutes
      /\ net'.srcRules = net.srcRules /\ net'.srcRoutes = net.srcRoutes
      /\ net'.forwarding = net.forwarding
  BY <1>1, <1>2, HandlerWas DEF Net
<1>4. jrpc'[s].pc = "srcrules" /\ jrpc'[s].serverIp = jrpc[s].serverIp
  BY <1>2, GotoFields DEF DaemonInv
<1>5. wg.defaultIFaceLink /\ ~wg.appendedRoutes
  BY <1>1, HandlerWas DEF HandlerInv, ClientPc
<1>6. HandlerInv(s)'
  BY <1>1, <1>2, <1>3, <1>4, HandlerWas
     DEF HandlerInv, HasRules, HasRoutes, ClientPc, ServePc
<1>7. ~tainted => CleanInv'
  BY <1>1, <1>2, <1>3, EarlyClean
<1> QED BY <1>1, <1>2, <1>3, <1>5, <1>6, <1>7, HandlerStep DEF ClientPc

LEMMA EnableSrcRulesMain ==
  ASSUME DaemonInv, Typed', NEW s \in Session, EnableSrcRules(s)
  PROVE  MainInv'
<1>1. jrpc[s].pc = "srcrules" /\ Busy(s) /\ ~HasRules(s)
  BY DEF EnableSrcRules, Busy, HasRules, ClientPc
<1>2. CASE net.srcRules
  <2>1. tainted /\ Fatal
    BY <1>1, <1>2, HandlerClean DEF EnableSrcRules
  <2> QED BY <2>1, FatalMain DEF DaemonInv
<1>3. CASE ~net.srcRules
  <2>1. Goto(s, "srcroutes") /\ UNCHANGED <<proc, tainted, cli, rvpn>>
        /\ net' = [net EXCEPT !.srcRules = TRUE]
        /\ wg' = [wg EXCEPT !.appendedSrcRules = TRUE]
    BY <1>3 DEF EnableSrcRules
  <2>2. /\ net'.up = net.up /\ net'.tunRoutes = net.tunRoutes
        /\ net'.hostRoutes = net.hostRoutes /\ net'.srcRules
        /\ net'.srcRoutes = net.srcRoutes /\ net'.forwarding = net.forwarding
    BY <1>1, <2>1, HandlerWas DEF Net
  <2>3. /\ wg'.serverIP = wg.serverIP /\ wg'.defaultIFaceLink = wg.defaultIFaceLink
        /\ wg'.appendedRoutes = wg.appendedRoutes /\ wg'.appendedSrcRules
    BY <1>1, <2>1, HandlerWas DEF Wg
  <2>4. jrpc'[s].pc = "srcroutes" /\ jrpc'[s].serverIp = jrpc[s].serverIp
    BY <2>1, GotoFields DEF DaemonInv
  <2>5. wg.defaultIFaceLink
    BY <1>1, HandlerWas DEF HandlerInv, ClientPc
  <2>6. HandlerInv(s)'
    BY <1>1, <2>2, <2>3, <2>4, HandlerWas
       DEF HandlerInv, HasRules, HasRoutes, ClientPc, ServePc
  <2>7. ASSUME ~tainted PROVE CleanInv'
    <3>1. ~net'.srcRoutes
      BY <1>1, <2>2, <2>7, HandlerClean
    <3>2. CleanSource'
      BY <2>3, <2>4, <3>1 DEF CleanSource, HasRules
    <3> QED BY <1>1, <2>1, <2>2, <2>3, <2>7, <3>2, HostForwardKept DEF CleanInv
  <2> QED BY <1>1, <2>1, <2>2, <2>3, <2>5, <2>6, <2>7, HandlerWas, HandlerStep DEF ClientPc
<1> QED BY <1>2, <1>3

LEMMA EnableSrcRoutesMain ==
  ASSUME DaemonInv, Typed', NEW s \in Session, EnableSrcRoutes(s)
  PROVE  MainInv'
<1>1. jrpc[s].pc = "srcroutes" /\ Busy(s)
  BY DEF EnableSrcRoutes, Busy, ClientPc
<1>2. CASE net.srcRoutes
  <2>1. tainted /\ Fatal
    BY <1>1, <1>2, HandlerClean DEF EnableSrcRoutes
  <2> QED BY <2>1, FatalMain DEF DaemonInv
<1>3. CASE ~net.srcRoutes
  <2>1. Goto(s, "configure") /\ UNCHANGED <<proc, tainted, cli, rvpn>>
        /\ net' = [net EXCEPT !.srcRoutes = TRUE]
        /\ wg' = [wg EXCEPT !.appendedSrcRoutes = TRUE]
    BY <1>3 DEF EnableSrcRoutes
  <2>2. /\ net'.up = net.up /\ net'.tunRoutes = net.tunRoutes
        /\ net'.hostRoutes = net.hostRoutes /\ net'.srcRules = net.srcRules
        /\ net'.srcRoutes /\ net'.forwarding = net.forwarding
    BY <1>1, <2>1, HandlerWas DEF Net
  <2>3. /\ wg'.serverIP = wg.serverIP /\ wg'.defaultIFaceLink = wg.defaultIFaceLink
        /\ wg'.appendedRoutes = wg.appendedRoutes
        /\ wg'.appendedSrcRules = wg.appendedSrcRules /\ wg'.appendedSrcRoutes
    BY <1>1, <2>1, HandlerWas DEF Wg
  <2>4. jrpc'[s].pc = "configure" /\ jrpc'[s].serverIp = jrpc[s].serverIp
        /\ \A t \in Session : t # s => jrpc'[t] = jrpc[t]
    BY <2>1, GotoFields DEF DaemonInv
  <2>5. wg.defaultIFaceLink /\ net.srcRules
    BY <1>1, HandlerWas DEF HandlerInv, HasRules, ClientPc
  <2>6. HandlerInv(s)'
    BY <1>1, <2>2, <2>3, <2>4, <2>5, HandlerWas
       DEF HandlerInv, HasRules, HasRoutes, ClientPc, ServePc
  <2>7. ASSUME ~tainted PROVE CleanInv'
    <3>1. net.srcRules => wg.appendedSrcRules
      BY <1>1, <2>7, HandlerClean
    <3>2. \A t \in Session : jrpc'[t].pc # "srcroutes"
      BY <1>1, <2>4, Alone, IdleHandler
    <3>3. CleanSource'
      BY <2>2, <2>3, <2>4, <3>1, <3>2 DEF CleanSource, HasRules
    <3> QED BY <1>1, <2>1, <2>2, <2>3, <2>7, <3>3, HostForwardKept DEF CleanInv
  <2> QED BY <1>1, <2>1, <2>2, <2>3, <2>5, <2>6, <2>7, HandlerWas, HandlerStep DEF ClientPc
<1> QED BY <1>2, <1>3

(* A step that leaves the source rules and routes, which are there. *)
LEMMA LateClean ==
  ASSUME DaemonInv, NEW s \in Session, Busy(s), ~tainted, HasRoutes(s),
         NEW pc \in {"tunroutes", "connected"}, Goto(s, pc), UNCHANGED proc,
         net'.hostRoutes = net.hostRoutes, net'.forwarding = net.forwarding,
         net'.srcRules = net.srcRules, net'.srcRoutes = net.srcRoutes,
         wg.defaultIFaceLink => wg'.defaultIFaceLink,
         wg'.appendedSrcRules = wg.appendedSrcRules,
         wg'.appendedSrcRoutes = wg.appendedSrcRoutes
  PROVE  CleanInv'
<1>1. /\ net.srcRules => wg.appendedSrcRules
      /\ net.srcRoutes => wg.appendedSrcRoutes
  BY HandlerClean
<1>2. net.srcRoutes
  BY HandlerWas DEF HandlerInv
<1>3. jrpc'[s].pc = pc /\ \A t \in Session : t # s => jrpc'[t] = jrpc[t]
  BY GotoFields DEF DaemonInv
<1>4. \A t \in Session : jrpc'[t].pc # "srcroutes"
  BY <1>3, Alone, IdleHandler
<1>5. HasRules(s)'
  BY <1>3 DEF HasRules
<1>6. CleanSource'
  BY <1>1, <1>2, <1>4, <1>5 DEF CleanSource
<1>7. jrpc[s].pc # "serving" /\ pc # "cproute"
  BY DEF HasRoutes
<1> QED BY <1>6, <1>7, HostForwardKept DEF CleanInv

LEMMA UpdateConfigureMain ==
  ASSUME DaemonInv, Typed', NEW s \in Session, UpdateConfigure(s)
  PROVE  MainInv'
<1>1. jrpc[s].pc = "configure" /\ Busy(s) /\ HasRoutes(s)
  BY DEF UpdateConfigure, Busy, HasRoutes, ClientPc
<1>2. Goto(s, "tunroutes") /\ UNCHANGED <<proc, tainted, cli, rvpn, wg>>
      /\ net' = [net EXCEPT !.conf = jrpc[s].serverIp]
  BY <1>1, Alone DEF UpdateConfigure
<1>3. /\ net'.up = net.up /\ net'.tunRoutes = net.tunRoutes
      /\ net'.hostRoutes = net.hostRoutes /\ net'.conf = jrpc[s].serverIp
      /\ net'.srcRules = net.srcRules /\ net'.srcRoutes = net.srcRoutes
      /\ net'.forwarding = net.forwarding
  BY <1>1, <1>2, HandlerWas DEF Net
<1>4. jrpc'[s].pc = "tunroutes" /\ jrpc'[s].serverIp = jrpc[s].serverIp
  BY <1>2, GotoFields DEF DaemonInv
<1>5. wg.defaultIFaceLink
  BY <1>1, HandlerWas DEF HandlerInv, ClientPc
<1>6. HandlerInv(s)'
  BY <1>1, <1>2, <1>3, <1>4, HandlerWas
     DEF HandlerInv, HasRules, HasRoutes, ClientPc, ServePc
<1>7. ~tainted => CleanInv'
  BY <1>1, <1>2, <1>3, LateClean
<1> QED BY <1>1, <1>2, <1>3, <1>5, <1>6, <1>7, HandlerWas, HandlerStep DEF ClientPc

LEMMA UpdateTunRoutesMain ==
  ASSUME DaemonInv, Typed', NEW s \in Session, UpdateTunRoutes(s)
  PROVE  MainInv'
<1>1. jrpc[s].pc = "tunroutes" /\ Busy(s) /\ HasRoutes(s)
  BY DEF UpdateTunRoutes, Busy, HasRoutes, ClientPc
<1>2. proc = "running" /\ ~net.tunRoutes
  BY <1>1, Alone, HandlerWas DEF HandlerInv
<1>3. Goto(s, "connected") /\ UNCHANGED <<proc, tainted, cli, rvpn>>
      /\ net' = [net EXCEPT !.tunRoutes = TRUE]
      /\ wg' = [wg EXCEPT !.appendedRoutes = TRUE, !.vpnServerMode = FALSE]
  BY <1>2 DEF UpdateTunRoutes
<1>4. /\ net'.up = net.up /\ net'.tunRoutes
      /\ net'.hostRoutes = net.hostRoutes /\ net'.conf = net.conf
      /\ net'.srcRules = net.srcRules /\ net'.srcRoutes = net.srcRoutes
      /\ net'.forwarding = net.forwarding
  BY <1>1, <1>3, HandlerWas DEF Net
<1>5. /\ wg'.serverIP = wg.serverIP /\ wg'.defaultIFaceLink = wg.defaultIFaceLink
      /\ wg'.appendedSrcRules = wg.appendedSrcRules
      /\ wg'.appendedSrcRoutes = wg.appendedSrcRoutes /\ wg'.appendedRoutes
  BY <1>1, <1>3, HandlerWas DEF Wg
<1>6. jrpc'[s].pc = "connected" /\ jrpc'[s].serverIp = jrpc[s].serverIp
  BY <1>3, GotoFields DEF DaemonInv
<1>7. wg.defaultIFaceLink
  BY <1>1, HandlerWas DEF HandlerInv, ClientPc
<1>8. HandlerInv(s)'
  BY <1>1, <1>4, <1>5, <1>6, HandlerWas
     DEF HandlerInv, HasRules, HasRoutes, ClientPc, ServePc
<1>9. ~tainted => CleanInv'
  BY <1>1, <1>3, <1>4, <1>5, LateClean
<1> QED BY <1>1, <1>3, <1>4, <1>5, <1>7, <1>8, <1>9, HandlerStep DEF ClientPc

LEMMA ServeLinkMain ==
  ASSUME DaemonInv, Typed', NEW s \in Session, ServeLink(s)
  PROVE  MainInv'
<1>1. jrpc[s].pc = "servelink" /\ Busy(s) /\ ~HasRules(s)
  BY DEF ServeLink, Busy, HasRules, ServePc
<1>2. Goto(s, "serveconf") /\ UNCHANGED <<proc, tainted, cli, rvpn>>
      /\ net' = [net EXCEPT !.up = TRUE] /\ wg' = [wg EXCEPT !.defaultIFaceLink = TRUE]
  BY <1>1, Alone DEF ServeLink
<1>3. /\ net'.up /\ net'.tunRoutes = net.tunRoutes /\ net'.hostRoutes = net.hostRoutes
      /\ net'.srcRules = net.srcRules /\ net'.srcRoutes = net.srcRoutes
      /\ net'.forwarding = net.forwarding
  BY <1>1, <1>2, HandlerWas DEF Net
<1>4. wg'.defaultIFaceLink /\ wg'.appendedRoutes = wg.appendedRoutes
  BY <1>1, <1>2, HandlerWas DEF Wg
<1>5. jrpc'[s].pc = "serveconf"
  BY <1>2, GotoFields DEF DaemonInv
<1>6. HandlerInv(s)'
  BY <1>1, <1>3, <1>5, HandlerWas
     DEF HandlerInv, HasRules, HasRoutes, ClientPc, ServePc
<1>7. ~tainted => CleanInv'
  BY <1>1, <1>2, <1>3, <1>4, EarlyClean
<1>8. jrpc[s].kind = "serve"
  BY <1>1 DEF DaemonInv, Sessions, ServePc
<1> QED BY <1>1, <1>2, <1>3, <1>4, <1>6, <1>7, <1>8, HandlerWas, HandlerStep DEF ServePc

LEMMA ServeConfigureMain ==
  ASSUME DaemonInv, Typed', NEW s \in Session, ServeConfigure(s)
  PROVE  MainInv'
<1>1. jrpc[s].pc = "serveconf" /\ Busy(s) /\ ~HasRules(s)
  BY DEF ServeConfigure, Busy, HasRules, ServePc
<1>2. Goto(s, "forward") /\ UNCHANGED <<proc, tainted, cli, rvpn, wg>>
      /\ net' = [net EXCEPT !.conf = "serve"]
  BY <1>1, Alone DEF ServeConfigure
<1>3. /\ net'.up = net.up /\ net'.tunRoutes = net.tunRoutes
      /\ net'.hostRoutes = net.hostRoutes /\ net'.conf = "serve"
      /\ net'.srcRules = net.srcRules /\ net'.srcRoutes = net.srcRoutes
      /\ net'.forwarding = net.forwarding
  BY <1>1, <1>2, HandlerWas DEF Net
<1>4. jrpc'[s].pc = "forward"
  BY <1>2, GotoFields DEF DaemonInv
<1>5. HandlerInv(s)'
  BY <1>1, <1>3, <1>4, HandlerWas
     DEF HandlerInv, HasRules, HasRoutes, ClientPc, ServePc
<1>6. ~tainted => CleanInv'
  BY <1>1, <1>2, <1>3, EarlyClean
<1>7. jrpc[s].kind = "serve"
  BY <1>1 DEF DaemonInv, Sessions, ServePc
<1> QED BY <1>1, <1>2, <1>3, <1>5, <1>6, <1>7, HandlerWas, HandlerStep DEF ServePc

LEMMA EnableForwardingMain ==
  ASSUME DaemonInv, Typed', NEW s \in Session, EnableForwarding(s)
  PROVE  MainInv'
<1>1. jrpc[s].pc = "forward" /\ Busy(s) /\ ~HasRules(s)
  BY DEF EnableForwarding, Busy, HasRules, ServePc
<1>2. Goto(s, "serving") /\ UNCHANGED <<proc, tainted, cli, rvpn>>
      /\ net' = [net EXCEPT !.forwarding = @ + 1]
      /\ wg' = [wg EXCEPT !.vpnServerMode = TRUE]
  BY DEF EnableForwarding
<1>3. /\ net'.up = net.up /\ net'.tunRoutes = net.tunRoutes
      /\ net'.hostRoutes = net.hostRoutes /\ net'.conf = net.conf
      /\ net'.srcRules = net.srcRules /\ net'.srcRoutes = net.srcRoutes
      /\ net'.forwarding = net.forwarding + 1 /\ net.forwarding \in Nat
  BY <1>1, <1>2, HandlerWas DEF Net
<1>4. /\ wg'.defaultIFaceLink = wg.defaultIFaceLink
      /\ wg'.appendedRoutes = wg.appendedRoutes /\ wg'.vpnServerMode
  BY <1>1, <1>2, HandlerWas DEF Wg
<1>5. jrpc'[s].pc = "serving" /\ \A t \in Session : t # s => jrpc'[t] = jrpc[t]
  BY <1>2, GotoFields DEF DaemonInv
<1>6. HandlerInv(s)'
  <2>1. net'.forwarding > 0
    BY <1>3
  <2> QED BY <1>1, <1>3, <1>5, <2>1, HandlerWas
             DEF HandlerInv, HasRules, HasRoutes, ClientPc, ServePc
<1>7. ASSUME ~tainted PROVE CleanInv'
  <2>1. CleanHost /\ net'.forwarding = 1 /\ ~net.srcRules /\ ~net.srcRoutes
    BY <1>1, <1>3, <1>7, HandlerClean
  <2>2. \A t \in Session : jrpc'[t].pc = "cproute" => jrpc[t].pc = "cproute"
    BY <1>5
  <2>3. CleanHost'
    BY <1>2, <1>3, <1>4, <2>1, <2>2, CleanHostKept
  <2>4. proc' = "running"
    BY <1>1, <1>2, Alone
  <2>5. CleanForward'
    BY <1>4, <1>5, <2>1, <2>4 DEF CleanForward
  <2> QED BY <1>3, <2>1, <2>3, <2>5, SourceOff DEF CleanInv
<1>8. jrpc[s].kind = "serve"
  BY <1>1 DEF DaemonInv, Sessions, ServePc
<1> QED BY <1>1, <1>2, <1>3, <1>4, <1>6, <1>7, <1>8, HandlerWas, HandlerStep DEF ServePc

(* The end of connect_server and of serve_vpn, with the new status. *)
LEMMA HandlerDone ==
  ASSUME DaemonInv, NEW s \in Session, Busy(s), jrpc[s].pc # "cproute", Goto(s, "done"),
         UNCHANGED <<proc, tainted, cli, wg, net>>, TunnelInv',
         ~tainted => CleanSource' /\ CleanForward'
  PROVE  MainInv'
<1>1. /\ jrpc'[s].pc = "done" /\ jrpc'[s].serverIp = jrpc[s].serverIp
      /\ jrpc'[s].kind = jrpc[s].kind
      /\ \A t \in Session : t # s => jrpc'[t] = jrpc[t]
  BY GotoFields DEF DaemonInv
<1>2. /\ proc = "running" /\ cli.pc \in {"idle", "assign"}
      /\ \A t \in Session : t # s => ~Busy(t) /\ ~Active(t)
      /\ DefaultInv /\ (~tainted => CleanHost)
  BY Alone DEF DeviceInv, CleanInv
<1>3. \A t \in Session : ~Busy(t)' /\ ~Active(t)'
  BY <1>1, <1>2 DEF Busy, Active, ClientPc, ServePc
<1>4. Exclusive' /\ StatusInv'
  BY <1>2, <1>3 DEF Exclusive, StatusInv
<1>5. \A t \in Session : HandlerInv(t)'
  BY <1>3, IdleHandlerNext
<1>6. DefaultInv'
  <2>1. \A t \in Session : jrpc[t].pc # "cproute"
    BY <1>2, IdleHandler
  <2>2. \A t \in Session : /\ jrpc'[t].kind = jrpc[t].kind
                           /\ jrpc'[t].serverIp = jrpc[t].serverIp
    BY <1>1
  <2> QED BY <1>2, <2>1, <2>2 DEF DefaultInv
<1>7. ~tainted => CleanHost'
  <2>1. \A t \in Session : jrpc'[t].pc = "cproute" => jrpc[t].pc = "cproute"
    BY <1>1
  <2> QED BY <1>2, <2>1, CleanHostKept
<1> QED BY <1>2, <1>4, <1>5, <1>6, <1>7, RunsOn DEF DeviceInv, CleanInv

LEMMA ConnectedMain ==
  ASSUME DaemonInv, Typed', NEW s \in Session, Connected(s)
  PROVE  MainInv'
<1>1. jrpc[s].pc = "connected" /\ Busy(s) /\ HasRules(s) /\ HasRoutes(s)
  BY DEF Connected, Busy, HasRules, HasRoutes, ClientPc
<1>2. Goto(s, "done") /\ UNCHANGED <<proc, tainted, cli, wg, net>>
      /\ rvpn' = [rvpn EXCEPT !.status = "Connected"]
  BY DEF Connected
<1>3. rvpn'.status = "Connected"
  BY <1>1, <1>2, HandlerWas DEF Rvpn
<1>4. /\ net.up /\ wg.serverIP = jrpc[s].serverIp /\ wg.defaultIFaceLink
      /\ net.tunRoutes /\ net.srcRules /\ net.srcRoutes
      /\ net.conf = jrpc[s].serverIp
  BY <1>1, HandlerWas DEF HandlerInv, ClientPc
<1>5. wg.serverIP # Nil
  BY <1>1, <1>4, AddressAssumption DEF DaemonInv, Typed, HandlerHasServer, ClientPc
<1>6. cli.pc \in {"idle", "assign"} /\ \A t \in Session : t # s => ~Busy(t)
  BY <1>1, Alone
<1>7. TunnelInv'
  <2>1. net'.tunRoutes = wg'.appendedRoutes
    BY <1>1, <1>2, HandlerWas, TunRoutesType
  <2> QED BY <1>2, <1>3, <1>4, <1>5, <1>6, <2>1 DEF TunnelInv
<1>8. ASSUME ~tainted PROVE CleanSource' /\ CleanForward'
  <2>1. /\ wg.appendedSrcRules /\ wg.appendedSrcRoutes /\ net.forwarding = 0
    BY <1>1, <1>4, <1>8, HandlerClean
  <2>2. \A t \in Session : jrpc'[t].pc # "srcroutes"
    BY <1>1, <1>2, <1>6, IdleHandler, GotoFields DEF DaemonInv
  <2> QED BY <1>2, <1>3, <1>4, <1>6, <2>1, <2>2, ForwardOff DEF CleanSource
<1> QED BY <1>1, <1>2, <1>7, <1>8, HandlerDone

LEMMA ServingMain ==
  ASSUME DaemonInv, Typed', NEW s \in Session, Serving(s)
  PROVE  MainInv'
<1>1. jrpc[s].pc = "serving" /\ Busy(s) /\ ~HasRules(s)
  BY DEF Serving, Busy, HasRules, ServePc
<1>2. Goto(s, "done") /\ UNCHANGED <<proc, tainted, cli, wg, net>>
      /\ rvpn' = [rvpn EXCEPT !.status = "Serving"]
  BY DEF Serving
<1>3. rvpn'.status = "Serving"
  BY <1>1, <1>2, HandlerWas DEF Rvpn
<1>4. net.up /\ net.conf = "serve" /\ ~net.tunRoutes /\ net.forwarding > 0
  BY <1>1, HandlerWas DEF HandlerInv, ServePc
<1>5. cli.pc \in {"idle", "assign"} /\ proc = "running"
  BY <1>1, Alone
<1>6. TunnelInv'
  <2>1. net'.tunRoutes = wg'.appendedRoutes
    BY <1>1, <1>2, HandlerWas, TunRoutesType
  <2> QED BY <1>2, <1>3, <1>4, <1>5, <2>1 DEF TunnelInv
<1>7. ASSUME ~tainted PROVE CleanSource' /\ CleanForward'
  <2>1. ~net.srcRules /\ ~net.srcRoutes
    BY <1>1, <1>7, HandlerClean
  <2>2. net.forwarding # 0 => net.forwarding = 1 /\ wg.vpnServerMode
    BY <1>1, <1>7, Alone DEF CleanInv, CleanForward
  <2>3. CleanForward'
    BY <1>2, <1>3, <1>5, <2>2 DEF CleanForward, Untouched
  <2> QED BY <1>2, <2>1, <2>3, SourceOff
<1> QED BY <1>1, <1>2, <1>6, <1>7, HandlerDone

-----------------------------------------------------------------------------
(* Steps that leave the device and the kernel.                             *)

(* Nothing is under way, and a connection is made or a request arrives. *)
LEMMA IdleStep ==
  ASSUME DaemonInv, Exclusive', StatusInv',
         proc = "running", rvpn.status = "Disconnected", \A t \in Session : ~Busy(t),
         UNCHANGED <<proc, tainted, wg, net>>, rvpn'.status = "Disconnected",
         cli.pc \notin {"source", "close"}, cli'.pc \notin {"source", "close"},
         \A t \in Session :
            /\ jrpc'[t].pc \in {"new", "idle", "done", "link", "servelink"}
            /\ jrpc[t].kind = "serve" => jrpc'[t].kind = "serve"
            /\ jrpc'[t].serverIp = jrpc[t].serverIp \/ jrpc[t].serverIp = Nil
  PROVE  MainInv'
<1>1. DeviceInv /\ (~tainted => CleanInv)
  BY DEF DaemonInv, MainInv, Alive
<1>2. /\ ~net.tunRoutes
      /\ \A t \in Session : /\ ~HasRules(t)
                            /\ jrpc[t].pc \notin {"cproute", "srcroutes", "serving"}
  BY <1>1, IdleHandler DEF DeviceInv, TunnelInv
<1>3. TunnelInv'
  BY <1>1, <1>2 DEF DeviceInv, TunnelInv
<1>4. \A t \in Session : HandlerInv(t)'
  BY <1>2 DEF HandlerInv, HasRules, HasRoutes, ClientPc, ServePc
<1>5. DefaultInv'
  BY <1>1, <1>2, AddressAssumption DEF DeviceInv, DefaultInv
<1>6. ASSUME ~tainted PROVE CleanInv'
  <2>1. \A t \in Session : jrpc'[t].pc # "cproute"
    OBVIOUS
  <2>2. CleanHost'
    BY <1>1, <1>6, <2>1, CleanHostKept DEF CleanInv
  <2>3. ~net.srcRules /\ ~net.srcRoutes
    BY <1>1, <1>2, <1>6 DEF CleanInv, CleanSource
  <2>4. net.forwarding = 0
    BY <1>1, <1>2, <1>6 DEF CleanInv, CleanForward
  <2> QED BY <2>2, <2>3, <2>4, SourceOff, ForwardOff DEF CleanInv
<1> QED BY <1>3, <1>4, <1>5, <1>6, RunsOn DEF DeviceInv

(* Nothing changes but links, the stored connection, and the place of a    *)
(* command that has not started to take down what is there.                *)
LEMMA KeptMain ==
  ASSUME DaemonInv, Exclusive', StatusInv', proc \in Ended => Fresh',
         UNCHANGED <<proc, tainted, wg, net>>, rvpn'.status = rvpn.status,
         \A t \in Session : /\ jrpc'[t].pc = jrpc[t].pc /\ jrpc'[t].kind = jrpc[t].kind
                            /\ jrpc'[t].serverIp = jrpc[t].serverIp,
         \/ cli'.pc = cli.pc
         \/ /\ {cli.pc, cli'.pc} \cap {"source", "close"} = {}
            /\ (Untouched /\ Untouched') \/ rvpn.status = "Disconnected"
  PROVE  MainInv'
<1>1. FatalOnlyOnLeftovers' /\ StoppedIsClean'
  BY DEF DaemonInv, MainInv, FatalOnlyOnLeftovers, StoppedIsClean
<1>2. \A t \in Session : /\ Busy(t)' <=> Busy(t)
                         /\ HasRules(t)' <=> HasRules(t)
                         /\ HasRoutes(t)' <=> HasRoutes(t)
  BY DEF Busy, HasRules, HasRoutes
<1>3. ASSUME DeviceInv PROVE DeviceInv'
  <2>1. TunnelInv'
    BY <1>3 DEF DeviceInv, TunnelInv, Untouched
  <2>2. \A t \in Session : HandlerInv(t)'
    <3> SUFFICES ASSUME NEW t \in Session PROVE HandlerInv(t)'
      OBVIOUS
    <3>1. HandlerInv(t)
      BY <1>3 DEF DeviceInv
    <3> QED BY <1>2, <3>1 DEF HandlerInv
  <2>3. DefaultInv'
    BY <1>3 DEF DeviceInv, DefaultInv
  <2> QED BY <2>1, <2>2, <2>3 DEF DeviceInv
<1>4. ASSUME CleanInv PROVE CleanInv'
  <2>1. CleanHost'
    BY <1>4, CleanHostKept DEF CleanInv
  <2>2. CleanSource'
    BY <1>2, <1>4 DEF CleanInv, CleanSource
  <2>3. CleanForward'
    BY <1>4 DEF CleanInv, CleanForward, Untouched
  <2> QED BY <2>1, <2>2, <2>3 DEF CleanInv
<1> QED BY <1>1, <1>3, <1>4 DEF DaemonInv, MainInv, Alive

LEMMA ConnectServerMain ==
  ASSUME DaemonInv, NEW s \in Session, NEW ip \in ServerIp, ConnectServer(s, ip)
  PROVE  MainInv'
<1>1. jrpc \in [Session -> Jrpc] /\ jrpc[s] \in Jrpc
  BY DEF DaemonInv, Typed, TypeOK
<1>2. jrpc[s].pc = "idle" /\ Active(s) /\ ~Busy(s) /\ jrpc[s].serverIp = Nil
  BY DEF ConnectServer, Active, Busy, ClientPc, ServePc, DaemonInv, Sessions
<1>3. jrpc'[s] = [jrpc[s] EXCEPT !.pc = "link", !.serverIp = ip]
      /\ \A t \in Session : t # s => jrpc'[t] = jrpc[t]
  BY <1>1 DEF ConnectServer
<1>4. jrpc'[s].pc = "link" /\ jrpc'[s].kind = jrpc[s].kind
  BY <1>1, <1>3 DEF Jrpc
<1>5. /\ proc = "running" /\ rvpn.status = "Disconnected" /\ cli.pc \in {"idle", "assign"}
      /\ \A t \in Session : t # s => ~Active(t) /\ ~Busy(t)
  BY <1>2 DEF DaemonInv, MainInv, Exclusive, StatusInv, Active
<1>6. \A t \in Session : t # s => jrpc'[t].pc \in {"new", "idle", "done"}
  BY <1>1, <1>3, <1>5 DEF Busy, Jrpc
<1>7. UNCHANGED <<proc, tainted, cli, rvpn, wg, net>>
  BY DEF ConnectServer
<1>8. \A t \in Session : Active(t)' => Active(t)
  BY <1>2, <1>3 DEF Active, Busy
<1>9. Exclusive' /\ StatusInv'
  BY <1>7, <1>8 DEF DaemonInv, MainInv, Exclusive, StatusInv
<1>10. \A t \in Session : ~Busy(t)
  BY <1>2, <1>5
<1> QED BY <1>2, <1>3, <1>4, <1>5, <1>6, <1>7, <1>9, <1>10, IdleStep

LEMMA ServeVpnMain ==
  ASSUME DaemonInv, NEW s \in Session, ServeVpn(s)
  PROVE  MainInv'
<1>1. jrpc \in [Session -> Jrpc] /\ jrpc[s] \in Jrpc
  BY DEF DaemonInv, Typed, TypeOK
<1>2. jrpc[s].pc = "idle" /\ Active(s) /\ ~Busy(s)
  BY DEF ServeVpn, Active, Busy, ClientPc, ServePc
<1>3. /\ jrpc'[s].pc = "servelink" /\ jrpc'[s].kind = jrpc[s].kind
      /\ jrpc'[s].serverIp = jrpc[s].serverIp
      /\ \A t \in Session : t # s => jrpc'[t] = jrpc[t]
  BY GotoFields DEF ServeVpn, DaemonInv
<1>4. /\ proc = "running" /\ rvpn.status = "Disconnected" /\ cli.pc \in {"idle", "assign"}
      /\ \A t \in Session : t # s => ~Active(t) /\ ~Busy(t)
  BY <1>2 DEF DaemonInv, MainInv, Exclusive, StatusInv, Active
<1>5. \A t \in Session : t # s => jrpc'[t].pc \in {"new", "idle", "done"}
  BY <1>1, <1>3, <1>4 DEF Busy, Jrpc
<1>6. UNCHANGED <<proc, tainted, cli, rvpn, wg, net>>
  BY DEF ServeVpn
<1>7. \A t \in Session : Active(t)' => Active(t)
  BY <1>2, <1>3 DEF Active, Busy
<1>8. Exclusive' /\ StatusInv'
  BY <1>6, <1>7 DEF DaemonInv, MainInv, Exclusive, StatusInv
<1>9. \A t \in Session : ~Busy(t)
  BY <1>2, <1>4
<1> QED BY <1>3, <1>4, <1>5, <1>6, <1>8, <1>9, IdleStep

LEMMA DropMain ==
  ASSUME DaemonInv, NEW s \in Session, Drop(s)
  PROVE  MainInv'
<1>1. jrpc \in [Session -> Jrpc] /\ jrpc[s] \in Jrpc
  BY DEF DaemonInv, Typed, TypeOK
<1>2. jrpc'[s] = [jrpc[s] EXCEPT !.link = "closed"]
      /\ \A t \in Session : t # s => jrpc'[t] = jrpc[t]
  BY <1>1 DEF Drop
<1>3. jrpc'[s].pc = jrpc[s].pc /\ jrpc'[s].kind = jrpc[s].kind
      /\ jrpc'[s].serverIp = jrpc[s].serverIp /\ jrpc'[s].link = "closed"
  BY <1>1, <1>2 DEF Jrpc
<1>4. \A t \in Session : /\ jrpc'[t].pc = jrpc[t].pc /\ jrpc'[t].kind = jrpc[t].kind
                         /\ jrpc'[t].serverIp = jrpc[t].serverIp
  BY <1>2, <1>3
<1>5. \A t \in Session : Active(t)' => Active(t)
  BY <1>2, <1>3 DEF Active, Busy
<1>6. UNCHANGED <<proc, tainted, cli, rvpn, wg, net>>
  BY DEF Drop
<1>7. Exclusive' /\ StatusInv'
  BY <1>5, <1>6 DEF DaemonInv, MainInv, Exclusive, StatusInv
<1>8. proc \in Ended => Fresh'
  BY <1>4, <1>6 DEF DaemonInv, MainInv, Fresh
<1> QED BY <1>4, <1>6, <1>7, <1>8, KeptMain

LEMMA StutterMain ==
  ASSUME DaemonInv, UNCHANGED vars
  PROVE  MainInv'
<1>1. \A t \in Session : Active(t)' => Active(t)
  BY DEF Active, Busy, vars
<1>2. Exclusive' /\ StatusInv'
  BY <1>1 DEF DaemonInv, MainInv, Exclusive, StatusInv, vars
<1>3. proc \in Ended => Fresh'
  BY DEF DaemonInv, MainInv, Fresh, vars
<1> QED BY <1>2, <1>3, KeptMain DEF vars

-----------------------------------------------------------------------------
(* Commands.                                                               *)

LEMMA CliTypes ==
  ASSUME DaemonInv
  PROVE  /\ cli \in RpcConn /\ rvpn \in Rvpn /\ wg \in Wg /\ net \in Net
         /\ jrpc \in [Session -> Jrpc]
  BY DEF DaemonInv, Typed, TypeOK

(* Users wait: a command is given when nothing is under way. *)
LEMMA CommandMain ==
  ASSUME DaemonInv, ~Impatient, NEW op \in {"connect", "serve", "disconnect"}, CliOpens(op),
         op = "disconnect" <=> rvpn.status # "Disconnected"
  PROVE  MainInv'
<1>1. /\ proc = "running" /\ cli.pc = "idle" /\ cli' = [cli EXCEPT !.pc = op]
      /\ UNCHANGED <<proc, tainted, rvpn, wg, jrpc, net>>
      /\ \A s \in Session : ~Active(s)
  BY DEF CliOpens, MayAct, Settled, Active
<1>2. cli'.pc = op
  BY <1>1, CliTypes DEF RpcConn
<1>3. \A s \in Session : ~Active(s)'
  BY <1>1 DEF Active, Busy
<1>4. Exclusive' /\ StatusInv'
  BY <1>1, <1>2, <1>3 DEF Exclusive, StatusInv
<1>5. proc \notin Ended
  BY <1>1 DEF Ended
<1> QED BY <1>1, <1>2, <1>4, <1>5, KeptMain DEF Untouched

LEMMA GivesUpMain ==
  ASSUME DaemonInv, NEW op \in {"connect", "serve"}, GivesUp(op)
  PROVE  MainInv'
<1>1. /\ cli.pc = op /\ cli' = [cli EXCEPT !.pc = "idle"]
      /\ UNCHANGED <<proc, tainted, rvpn, wg, jrpc, net>>
  BY DEF GivesUp
<1>2. cli'.pc = "idle"
  BY <1>1, CliTypes DEF RpcConn
<1>3. /\ proc = "running" /\ rvpn.status = "Disconnected"
      /\ \A s \in Session : ~Active(s)
  BY <1>1 DEF DaemonInv, MainInv, Exclusive, StatusInv
<1>4. \A s \in Session : ~Active(s)'
  BY <1>1, <1>3 DEF Active, Busy
<1>5. Exclusive' /\ StatusInv'
  BY <1>2, <1>4 DEF Exclusive, StatusInv
<1>6. proc \notin Ended
  BY <1>3 DEF Ended
<1> QED BY <1>1, <1>2, <1>3, <1>5, <1>6, KeptMain

LEMMA NewConnMain ==
  ASSUME DaemonInv, NEW s \in Session, NEW op \in {"connect", "serve"}, NewConn(s, op)
  PROVE  MainInv'
<1>1. /\ cli.pc = op /\ jrpc[s].pc = "new" /\ cli' = [pc |-> "assign", session |-> s]
      /\ UNCHANGED <<proc, tainted, rvpn, wg, net>>
      /\ jrpc' = [jrpc EXCEPT ![s] = [@ EXCEPT !.pc = "idle", !.kind = op, !.link = "up"]]
  BY DEF NewConn
<1>2. jrpc[s] \in Jrpc /\ jrpc \in [Session -> Jrpc]
  BY CliTypes
<1>3. jrpc'[s] = [jrpc[s] EXCEPT !.pc = "idle", !.kind = op, !.link = "up"]
      /\ \A t \in Session : t # s => jrpc'[t] = jrpc[t]
  BY <1>1, <1>2
<1>4. jrpc'[s].pc = "idle" /\ jrpc'[s].serverIp = jrpc[s].serverIp
  BY <1>2, <1>3 DEF Jrpc
<1>5. /\ proc = "running" /\ rvpn.status = "Disconnected"
      /\ \A t \in Session : ~Active(t) /\ ~Busy(t)
  BY <1>1 DEF DaemonInv, MainInv, Exclusive, StatusInv, Active
<1>6. \A t \in Session : t # s => ~Active(t)'
  BY <1>3, <1>5 DEF Active, Busy
<1>7. cli'.pc = "assign" /\ cli'.session = s
  BY <1>1
<1>8. Exclusive' /\ StatusInv'
  BY <1>1, <1>5, <1>6, <1>7 DEF Exclusive, StatusInv
<1>9. \A t \in Session : jrpc'[t].pc \in {"new", "idle", "done"}
  BY <1>2, <1>3, <1>4, <1>5 DEF Busy, Jrpc
<1>10. jrpc[s].kind = "connect"
  BY <1>1 DEF DaemonInv, Sessions
<1> QED BY <1>1, <1>3, <1>4, <1>5, <1>7, <1>8, <1>9, <1>10, IdleStep

LEMMA AssignMain ==
  ASSUME DaemonInv, Assign
  PROVE  MainInv'
<1>1. /\ cli.pc = "assign" /\ cli' = [pc |-> "idle", session |-> Nil]
      /\ rvpn' = [rvpn EXCEPT !.jrpcConn = cli.session]
      /\ UNCHANGED <<proc, tainted, wg, jrpc, net>>
  BY DEF Assign
<1>2. cli'.pc = "idle" /\ rvpn'.status = rvpn.status
  BY <1>1, CliTypes DEF Rvpn
<1>3. \A s \in Session : Active(s)' <=> Active(s)
  BY <1>1 DEF Active, Busy
<1>4. proc = "running"
  BY <1>1 DEF DaemonInv, MainInv, Exclusive
<1>5. Exclusive' /\ StatusInv'
  BY <1>1, <1>2, <1>3, <1>4 DEF DaemonInv, MainInv, Exclusive, StatusInv
<1>6. proc \notin Ended
  BY <1>4 DEF Ended
<1> QED BY <1>1, <1>2, <1>5, <1>6, KeptMain DEF Untouched

(* While Disconnect runs, nothing else does. *)
LEMMA Disconnecting ==
  ASSUME DaemonInv, cli.pc \in {"disconnect", "routes", "source", "close"}
  PROVE  /\ proc = "running" /\ rvpn.status # "Disconnected"
         /\ \A s \in Session : /\ ~Active(s) /\ ~Busy(s) /\ ~HasRules(s)
                               /\ jrpc[s].pc \notin {"cproute", "srcroutes", "serving"}
         /\ DeviceInv /\ (~tainted => CleanInv)
<1>1. proc = "running" /\ rvpn.status # "Disconnected"
  BY DEF DaemonInv, MainInv, Exclusive, StatusInv
<1>2. \A s \in Session : ~Active(s) /\ ~Busy(s)
  BY DEF DaemonInv, MainInv, Exclusive, Active
<1> QED BY <1>1, <1>2, IdleHandler DEF DaemonInv, MainInv, Alive

(* A step of Disconnect: what it owes for what it takes down. *)
LEMMA DisconnectStep ==
  ASSUME DaemonInv, cli.pc \in {"disconnect", "routes", "source"},
         cli'.pc \in {"routes", "source", "close"}, UNCHANGED <<proc, tainted, rvpn, jrpc>>,
         net'.hostRoutes = net.hostRoutes, wg'.defaultIFaceLink = wg.defaultIFaceLink,
         TunnelInv', ~tainted => CleanSource' /\ CleanForward'
  PROVE  MainInv'
<1>1. /\ proc = "running" /\ rvpn.status # "Disconnected"
      /\ \A s \in Session : ~Active(s) /\ ~Busy(s)
      /\ DefaultInv /\ (~tainted => CleanHost)
  BY Disconnecting DEF DeviceInv, CleanInv
<1>2. \A s \in Session : ~Active(s)' /\ ~Busy(s)'
  BY <1>1 DEF Active, Busy
<1>3. Exclusive' /\ StatusInv'
  BY <1>1, <1>2 DEF Exclusive, StatusInv
<1>4. \A s \in Session : HandlerInv(s)'
  BY <1>2, IdleHandlerNext
<1>5. DefaultInv'
  BY <1>1 DEF DefaultInv
<1>6. ~tainted => CleanHost'
  BY <1>1, CleanHostKept
<1> QED BY <1>1, <1>3, <1>4, <1>5, <1>6, RunsOn DEF DeviceInv, CleanInv

LEMMA DisconnectDownMain ==
  ASSUME DaemonInv, DisconnectDown
  PROVE  MainInv'
<1> DEFINE rules == IF wg.vpnServerMode THEN DisableForwarding(net.forwarding)
                    ELSE net.forwarding
<1>1. /\ cli.pc = "disconnect" /\ cli' = [cli EXCEPT !.pc = "routes"]
      /\ net' = [net EXCEPT !.up = FALSE, !.forwarding = rules]
      /\ UNCHANGED <<proc, tainted, rvpn, wg, jrpc>>
  BY DEF DisconnectDown
<1>2. TunnelInv /\ (~tainted => CleanSource /\ CleanForward)
  BY <1>1, Disconnecting DEF DeviceInv, CleanInv
<1>3. ~tainted => rules = 0
  BY <1>2 DEF CleanForward, DisableForwarding
<1> HIDE DEF rules
<1>4. /\ net'.tunRoutes = net.tunRoutes /\ net'.hostRoutes = net.hostRoutes
      /\ net'.srcRules = net.srcRules /\ net'.srcRoutes = net.srcRoutes
      /\ net'.forwarding = rules
  BY <1>1, CliTypes DEF Net
<1>5. cli'.pc = "routes"
  BY <1>1, CliTypes DEF RpcConn
<1>6. TunnelInv'
  BY <1>1, <1>2, <1>4, <1>5 DEF TunnelInv, Untouched
<1>7. ASSUME ~tainted PROVE CleanSource' /\ CleanForward'
  <2>1. \A s \in Session : HasRules(s)' <=> HasRules(s)
    BY <1>1 DEF HasRules
  <2>2. CleanSource'
    BY <1>1, <1>2, <1>4, <1>5, <1>7, <2>1 DEF CleanSource
  <2> QED BY <1>3, <1>4, <1>7, <2>2, ForwardOff
<1> QED BY <1>1, <1>4, <1>5, <1>6, <1>7, DisconnectStep

LEMMA DisconnectRoutesMain ==
  ASSUME DaemonInv, Typed', DisconnectRoutes
  PROVE  MainInv'
<1>1. /\ cli.pc = "routes" /\ cli' = [cli EXCEPT !.pc = "source"]
      /\ wg' = [wg EXCEPT !.appendedRoutes = FALSE]
      /\ net' = [net EXCEPT !.tunRoutes = IF wg.appendedRoutes THEN FALSE ELSE @]
      /\ UNCHANGED <<proc, tainted, rvpn, jrpc>>
  BY DEF DisconnectRoutes
<1>2. TunnelInv /\ rvpn.status # "Disconnected" /\ (~tainted => CleanSource /\ CleanForward)
  BY <1>1, Disconnecting DEF DeviceInv, CleanInv
<1>3. net' = [net EXCEPT !.tunRoutes = FALSE]
  BY <1>1, <1>2, CliTypes DEF TunnelInv, Net
<1>4. /\ ~net'.tunRoutes /\ net'.hostRoutes = net.hostRoutes
      /\ net'.srcRules = net.srcRules /\ net'.srcRoutes = net.srcRoutes
      /\ net'.forwarding = net.forwarding
  BY <1>3, CliTypes DEF Net
<1>5. /\ ~wg'.appendedRoutes /\ wg'.defaultIFaceLink = wg.defaultIFaceLink
      /\ wg'.appendedSrcRules = wg.appendedSrcRules
      /\ wg'.appendedSrcRoutes = wg.appendedSrcRoutes
      /\ wg'.vpnServerMode = wg.vpnServerMode
  BY <1>1, CliTypes DEF Wg
<1>6. cli'.pc = "source"
  BY <1>1, CliTypes DEF RpcConn
<1>7. TunnelInv'
  <2>1. net'.tunRoutes = wg'.appendedRoutes
    BY <1>4, <1>5, TunRoutesType
  <2> QED BY <1>1, <1>2, <1>4, <1>5, <1>6, <2>1 DEF TunnelInv, Untouched
<1>8. ASSUME ~tainted PROVE CleanSource' /\ CleanForward'
  <2>1. \A s \in Session : HasRules(s)' <=> HasRules(s)
    BY <1>1 DEF HasRules
  <2>2. CleanSource'
    BY <1>1, <1>2, <1>4, <1>5, <1>6, <1>8, <2>1 DEF CleanSource
  <2>3. net.forwarding = 0
    BY <1>1, <1>2, <1>8, Disconnecting DEF CleanForward, Untouched
  <2> QED BY <1>4, <2>2, <2>3, ForwardOff
<1> QED BY <1>1, <1>4, <1>5, <1>6, <1>7, <1>8, DisconnectStep

(* stopSourceRouting takes down what was appended, and nothing else. *)
LEMMA StopSourceRoutingFields ==
  ASSUME NEW n \in Net
  PROVE  LET m == StopSourceRouting(n) IN
         /\ m.up = n.up /\ m.conf = n.conf /\ m.tunRoutes = n.tunRoutes
         /\ m.hostRoutes = n.hostRoutes /\ m.forwarding = n.forwarding
         /\ m.srcRoutes = IF wg.appendedSrcRoutes THEN FALSE ELSE n.srcRoutes
         /\ m.srcRules = IF wg.appendedSrcRules /\ ~(wg.appendedSrcRoutes /\ ~n.srcRoutes)
                         THEN FALSE ELSE n.srcRules
  <1> DEFINE routes == IF wg.appendedSrcRoutes THEN FALSE ELSE n.srcRoutes
             rules == IF wg.appendedSrcRules /\ ~(wg.appendedSrcRoutes /\ ~n.srcRoutes)
                      THEN FALSE ELSE n.srcRules
  <1>1. StopSourceRouting(n) = [n EXCEPT !.srcRoutes = routes, !.srcRules = rules]
    BY DEF StopSourceRouting, Net
  <1>2. /\ [n EXCEPT !.srcRoutes = routes, !.srcRules = rules].srcRoutes = routes
        /\ [n EXCEPT !.srcRoutes = routes, !.srcRules = rules].srcRules = rules
    <2> HIDE DEF routes, rules
    <2> QED BY DEF Net
  <1>3. LET m == [n EXCEPT !.srcRoutes = routes, !.srcRules = rules] IN
        /\ m.up = n.up /\ m.conf = n.conf /\ m.tunRoutes = n.tunRoutes
        /\ m.hostRoutes = n.hostRoutes /\ m.forwarding = n.forwarding
    <2> HIDE DEF routes, rules
    <2> QED BY DEF Net
  <1> QED BY <1>1, <1>2, <1>3

(* Without leftovers that is all of it, when no handler is at work. *)
LEMMA StopSourceRoutingClean ==
  ASSUME CleanSource, NEW n \in Net, n.srcRules = net.srcRules, n.srcRoutes = net.srcRoutes,
         \A s \in Session : jrpc[s].pc # "srcroutes"
  PROVE  ~StopSourceRouting(n).srcRules /\ ~StopSourceRouting(n).srcRoutes
<1>1. /\ net.srcRules => wg.appendedSrcRules
      /\ net.srcRoutes => wg.appendedSrcRoutes
      /\ net.srcRules => net.srcRoutes
  BY DEF CleanSource
<1>2. StopSourceRouting(n).srcRoutes = IF wg.appendedSrcRoutes THEN FALSE ELSE n.srcRoutes
  BY StopSourceRoutingFields
<1>3. StopSourceRouting(n).srcRules
        = IF wg.appendedSrcRules /\ ~(wg.appendedSrcRoutes /\ ~n.srcRoutes)
          THEN FALSE ELSE n.srcRules
  BY StopSourceRoutingFields
<1> QED BY <1>1, <1>2, <1>3

LEMMA DisconnectSourceMain ==
  ASSUME DaemonInv, Typed', DisconnectSource
  PROVE  MainInv'
<1>1. /\ cli.pc = "source" /\ cli' = [cli EXCEPT !.pc = "close"]
      /\ net' = StopSourceRouting(net)
      /\ UNCHANGED <<proc, tainted, rvpn, wg, jrpc>>
  BY DEF DisconnectSource
<1>2. TunnelInv /\ rvpn.status # "Disconnected" /\ (~tainted => CleanSource /\ CleanForward)
      /\ \A s \in Session : jrpc[s].pc \notin {"srcroutes", "serving"}
  BY <1>1, Disconnecting DEF DeviceInv, CleanInv
<1>3. /\ net'.tunRoutes = net.tunRoutes /\ net'.hostRoutes = net.hostRoutes
      /\ net'.forwarding = net.forwarding
  BY <1>1, CliTypes, StopSourceRoutingFields
<1>4. cli'.pc = "close"
  BY <1>1, CliTypes DEF RpcConn
<1>5. TunnelInv'
  BY <1>1, <1>2, <1>3, <1>4 DEF TunnelInv, Untouched
<1>6. ASSUME ~tainted PROVE CleanSource' /\ CleanForward'
  <2>1. ~net'.srcRules /\ ~net'.srcRoutes
    BY <1>1, <1>2, <1>6, CliTypes, StopSourceRoutingClean
  <2>2. net.forwarding = 0
    BY <1>1, <1>2, <1>6 DEF CleanForward, Untouched
  <2> QED BY <1>3, <2>1, <2>2, SourceOff, ForwardOff
<1> QED BY <1>1, <1>3, <1>4, <1>5, <1>6, DisconnectStep

LEMMA DisconnectCloseMain ==
  ASSUME DaemonInv, DisconnectHasConn, DisconnectClose
  PROVE  MainInv'
<1>1. cli.pc = "close" /\ rvpn.jrpcConn \in Session
  BY CliTypes DEF DisconnectClose, DisconnectHasConn, Rvpn
<1> DEFINE s == rvpn.jrpcConn
<1>2. /\ cli' = [cli EXCEPT !.pc = "idle"]
      /\ jrpc' = [jrpc EXCEPT ![s].link = "closed"]
      /\ rvpn' = [rvpn EXCEPT !.status = "Disconnected"]
      /\ UNCHANGED <<proc, tainted, wg, net>>
  BY <1>1, AddressAssumption DEF DisconnectClose
<1>3. cli'.pc = "idle" /\ rvpn'.status = "Disconnected"
  BY <1>2, CliTypes DEF RpcConn, Rvpn
<1>4. jrpc[s] \in Jrpc /\ jrpc'[s] = [jrpc[s] EXCEPT !.link = "closed"]
      /\ \A t \in Session : t # s => jrpc'[t] = jrpc[t]
  BY <1>1, <1>2, CliTypes
<1> HIDE DEF s
<1>5. jrpc'[s].pc = jrpc[s].pc /\ jrpc'[s].kind = jrpc[s].kind
      /\ jrpc'[s].serverIp = jrpc[s].serverIp /\ jrpc'[s].link = "closed"
  BY <1>4 DEF Jrpc
<1>6. \A t \in Session : /\ jrpc'[t].pc = jrpc[t].pc /\ jrpc'[t].kind = jrpc[t].kind
                         /\ jrpc'[t].serverIp = jrpc[t].serverIp
                         /\ jrpc'[t].link = jrpc[t].link \/ jrpc'[t].link = "closed"
  BY <1>4, <1>5
<1>7. /\ proc = "running" /\ rvpn.status # "Disconnected"
      /\ \A t \in Session : /\ ~Active(t) /\ ~Busy(t) /\ ~HasRules(t)
                            /\ jrpc[t].pc \notin {"cproute", "srcroutes", "serving"}
      /\ TunnelInv /\ DefaultInv /\ (~tainted => CleanInv)
  BY <1>1, Disconnecting DEF DeviceInv
<1>8. \A t \in Session : ~Active(t)' /\ ~Busy(t)'
  BY <1>6, <1>7 DEF Active, Busy
<1>9. Exclusive' /\ StatusInv'
  BY <1>3, <1>8 DEF Exclusive, StatusInv
<1>10. TunnelInv'
  BY <1>1, <1>2, <1>3, <1>7 DEF TunnelInv
<1>11. \A t \in Session : HandlerInv(t)'
  BY <1>8, IdleHandlerNext
<1>12. DefaultInv'
  BY <1>2, <1>6, <1>7 DEF DefaultInv
<1>13. ASSUME ~tainted PROVE CleanInv'
  <2>1. CleanHost'
    BY <1>2, <1>6, <1>7, <1>13, CleanHostKept DEF CleanInv
  <2>2. ~net.srcRules /\ ~net.srcRoutes
    BY <1>1, <1>7, <1>13 DEF CleanInv, CleanSource
  <2>3. net.forwarding = 0
    BY <1>1, <1>7, <1>13 DEF CleanInv, CleanForward, Untouched
  <2> QED BY <1>2, <2>1, <2>2, <2>3, SourceOff, ForwardOff DEF CleanInv
<1> QED BY <1>2, <1>7, <1>9, <1>10, <1>11, <1>12, <1>13, RunsOn DEF DeviceInv

-----------------------------------------------------------------------------
(* The life of the process.                                                *)

(* A step of ShutdownDevice that is not its last. *)
LEMMA StopStep ==
  ASSUME UNCHANGED <<tainted, cli, rvpn, wg, jrpc>>, proc' \in Stopping,
         cli.pc = "idle", \A s \in Session : ~Active(s), ~tainted => CleanInv'
  PROVE  MainInv'
<1>1. \A s \in Session : ~Active(s)'
  BY DEF Active, Busy
<1>2. Exclusive' /\ StatusInv'
  BY <1>1 DEF Exclusive, StatusInv
<1>3. proc' # "running" /\ proc' \notin Ended
  BY DEF Stopping, Ended
<1>4. FatalOnlyOnLeftovers' /\ StoppedIsClean'
  BY <1>3 DEF FatalOnlyOnLeftovers, StoppedIsClean, Ended
<1> QED BY <1>2, <1>3, <1>4 DEF MainInv

LEMMA InShutdown ==
  ASSUME DaemonInv, proc \in Stopping
  PROVE  /\ cli.pc = "idle" /\ (\A s \in Session : ~Active(s)) /\ (~tainted => CleanInv)
         /\ \A s \in Session : jrpc[s].pc # "cproute" /\ jrpc[s].pc # "srcroutes"
<1>1. proc # "running"
  BY DEF Stopping
<1>2. cli.pc = "idle" /\ (\A s \in Session : ~Active(s)) /\ (~tainted => CleanInv)
  BY <1>1 DEF DaemonInv, MainInv, Exclusive, Alive
<1> QED BY <1>2, IdleHandler DEF Active

LEMMA SourceForwardKept ==
  ASSUME CleanSource, CleanForward, UNCHANGED <<cli, rvpn, wg, jrpc>>,
         net'.srcRules = net.srcRules, net'.srcRoutes = net.srcRoutes,
         net'.forwarding = net.forwarding, proc' # "stop_source"
  PROVE  CleanSource' /\ CleanForward'
<1>1. \A s \in Session : HasRules(s)' <=> HasRules(s)
  BY DEF HasRules
<1> QED BY <1>1 DEF CleanSource, CleanForward, Untouched

LEMMA ShutdownMain ==
  ASSUME DaemonInv, ~Impatient, Shutdown
  PROVE  MainInv'
<1>1. /\ proc = "running" /\ cli.pc = "idle"
      /\ \A s \in Session : ~Active(s) /\ ~Busy(s)
      /\ (~tainted => CleanInv)
  BY DEF Shutdown, MayAct, Settled, Active, DaemonInv, MainInv, Alive
<1>2. CASE ProcessEnds("unclean", net)
  <2>1. net \in Net /\ "unclean" \in Ended
    BY CliTypes DEF Ended
  <2> QED BY <1>2, <2>1, EndsMain DEF DaemonInv
<1>3. CASE ~ProcessEnds("unclean", net)
  <2> DEFINE closed == [net EXCEPT !.up = FALSE, !.conf = Nil, !.tunRoutes = FALSE]
  <2>1. /\ wg.serverIP # Nil /\ wg.defaultIFaceLink /\ wg.serverIP \in net.hostRoutes
        /\ proc' = "stop_cproute"
        /\ net' = [closed EXCEPT !.hostRoutes = @ \ {wg.serverIP}]
        /\ UNCHANGED <<tainted, cli, rvpn, wg, jrpc>>
    BY <1>3 DEF Shutdown
  <2>2. /\ closed.hostRoutes = net.hostRoutes /\ closed.srcRules = net.srcRules
        /\ closed.srcRoutes = net.srcRoutes /\ closed.forwarding = net.forwarding
        /\ closed \in Net
    BY CliTypes DEF Net
  <2> HIDE DEF closed
  <2>3. /\ net'.hostRoutes = net.hostRoutes \ {wg.serverIP}
        /\ net'.srcRules = net.srcRules /\ net'.srcRoutes = net.srcRoutes
        /\ net'.forwarding = net.forwarding
    BY <2>1, <2>2 DEF Net
  <2>4. ASSUME ~tainted PROVE CleanInv'
    <3>1. wg.serverIP # ControlPlaneIp
      BY <2>1, CliTypes, AddressAssumption DEF Wg
    <3>2. net'.hostRoutes \subseteq {ControlPlaneIp}
      BY <1>1, <2>1, <2>3, <2>4, <3>1 DEF CleanInv, CleanHost
    <3>3. \A s \in Session : jrpc'[s].pc # "cproute"
      BY <1>1, <2>1, IdleHandler
    <3>4. CleanHost'
      BY <2>1, <3>2, <3>3 DEF CleanHost
    <3> QED BY <1>1, <2>1, <2>3, <2>4, <3>4, SourceForwardKept DEF CleanInv
  <2> QED BY <1>1, <2>1, <2>4, StopStep DEF Stopping
<1> QED BY <1>2, <1>3

LEMMA ShutdownCpRouteMain ==
  ASSUME DaemonInv, ShutdownCpRoute
  PROVE  MainInv'
<1>1. proc = "stop_cproute" /\ proc \in Stopping
  BY DEF ShutdownCpRoute, Stopping
<1>2. CASE ProcessEnds("unclean", net)
  <2>1. net \in Net /\ "unclean" \in Ended
    BY CliTypes DEF Ended
  <2> QED BY <1>2, <2>1, EndsMain DEF DaemonInv
<1>3. CASE ~ProcessEnds("unclean", net)
  <2>1. /\ proc' = "stop_forward"
        /\ net' = [net EXCEPT !.hostRoutes = @ \ {ControlPlaneIp}]
        /\ UNCHANGED <<tainted, cli, rvpn, wg, jrpc>>
    BY <1>3 DEF ShutdownCpRoute
  <2>2. /\ net'.hostRoutes = net.hostRoutes \ {ControlPlaneIp}
        /\ net'.srcRules = net.srcRules /\ net'.srcRoutes = net.srcRoutes
        /\ net'.forwarding = net.forwarding
    BY <2>1, CliTypes DEF Net
  <2>3. ASSUME ~tainted PROVE CleanInv'
    <3>1. net'.hostRoutes = {}
      BY <1>1, <2>2, <2>3, InShutdown DEF CleanInv, CleanHost
    <3>2. CleanHost'
      BY <3>1 DEF CleanHost
    <3> QED BY <1>1, <2>1, <2>2, <2>3, <3>2, InShutdown, SourceForwardKept DEF CleanInv
  <2> QED BY <1>1, <2>1, <2>3, InShutdown, StopStep DEF Stopping
<1> QED BY <1>2, <1>3

LEMMA ShutdownForwardingMain ==
  ASSUME DaemonInv, ShutdownForwarding
  PROVE  MainInv'
<1> DEFINE rules == IF wg.vpnServerMode THEN DisableForwarding(net.forwarding)
                    ELSE net.forwarding
<1>1. /\ proc = "stop_forward" /\ proc' = "stop_source" /\ proc \in Stopping
      /\ net' = [net EXCEPT !.forwarding = rules]
      /\ UNCHANGED <<tainted, cli, rvpn, wg, jrpc>>
  BY DEF ShutdownForwarding, Stopping
<1>2. ~tainted => rules = 0
  BY <1>1, InShutdown DEF CleanInv, CleanForward, DisableForwarding
<1> HIDE DEF rules
<1>3. /\ net'.hostRoutes = net.hostRoutes /\ net'.srcRules = net.srcRules
      /\ net'.srcRoutes = net.srcRoutes /\ net'.forwarding = rules
  BY <1>1, CliTypes DEF Net
<1>4. ASSUME ~tainted PROVE CleanInv'
  <2>1. CleanHost /\ CleanSource /\ net.hostRoutes = {}
    BY <1>1, <1>4, InShutdown DEF CleanInv, CleanHost
  <2>2. CleanHost'
    BY <1>3, <2>1 DEF CleanHost
  <2>3. \A s \in Session : HasRules(s)' <=> HasRules(s)
    BY <1>1 DEF HasRules
  <2>4. CleanSource'
    BY <1>1, <1>3, <2>1, <2>3 DEF CleanSource
  <2> QED BY <1>2, <1>3, <1>4, <2>2, <2>4, ForwardOff DEF CleanInv
<1> QED BY <1>1, <1>4, InShutdown, StopStep DEF Stopping

LEMMA ShutdownSourceMain ==
  ASSUME DaemonInv, ShutdownSource
  PROVE  MainInv'
<1> DEFINE n == StopSourceRouting(net)
<1>1. proc = "stop_source" /\ proc \in Stopping /\ ProcessEnds("stopped", n)
  BY DEF ShutdownSource, Stopping
<1>2. n \in Net /\ n.hostRoutes = net.hostRoutes /\ n.forwarding = net.forwarding
  BY CliTypes, StopSourceRoutingType, StopSourceRoutingFields
<1>3. ASSUME ~tainted
      PROVE  n.hostRoutes = {} /\ ~n.srcRules /\ ~n.srcRoutes /\ n.forwarding = 0
  <2>1. CleanInv
    BY <1>1, <1>3, InShutdown
  <2>2. net.hostRoutes = {} /\ net.forwarding = 0
    BY <1>1, <2>1 DEF CleanInv, CleanHost, CleanForward
  <2>3. ~n.srcRules /\ ~n.srcRoutes
    BY <1>1, <2>1, CliTypes, InShutdown, StopSourceRoutingClean DEF CleanInv
  <2> QED BY <1>2, <2>2, <2>3
<1>4. "stopped" \in Ended /\ "stopped" # "fatal"
  BY DEF Ended
<1> HIDE DEF n
<1> QED BY <1>1, <1>2, <1>3, <1>4, EndsMain DEF DaemonInv

LEMMA StartMain ==
  ASSUME DaemonInv, Typed', Start
  PROVE  MainInv'
<1>1. /\ proc' = "running" /\ tainted' = (tainted \/ proc # "stopped")
      /\ net' = [net EXCEPT !.up = TRUE] /\ UNCHANGED <<cli, rvpn, wg, jrpc>>
  BY DEF Start
<1>2. proc \in Ended
  BY DEF Start, Alive, DaemonInv, Typed, TypeOK
<1>3. Fresh /\ StoppedIsClean
  BY <1>2 DEF DaemonInv, MainInv
<1>4. /\ net'.tunRoutes = net.tunRoutes /\ net'.hostRoutes = net.hostRoutes
      /\ net'.srcRules = net.srcRules /\ net'.srcRoutes = net.srcRoutes
      /\ net'.forwarding = net.forwarding
  BY <1>1, CliTypes DEF Net
<1>5. \A s \in Session : ~Active(s)' /\ ~Busy(s)'
  BY <1>1, <1>3 DEF Fresh, Active, Busy, ClientPc, ServePc
<1>6. /\ cli'.pc = "idle" /\ rvpn'.status = "Disconnected"
      /\ ~wg'.defaultIFaceLink /\ ~wg'.appendedRoutes /\ ~net'.tunRoutes
  BY <1>1, <1>3, <1>4 DEF Fresh, NewRvpn, NewWg
<1>7. Exclusive' /\ StatusInv'
  BY <1>5, <1>6 DEF Exclusive, StatusInv
<1>8. DeviceInv'
  <2>1. TunnelInv'
    BY <1>6, TunRoutesType DEF TunnelInv
  <2>2. \A s \in Session : HandlerInv(s)'
    BY <1>5, IdleHandlerNext
  <2> QED BY <1>6, <2>1, <2>2 DEF DeviceInv, DefaultInv
<1>9. ASSUME ~tainted' PROVE CleanInv'
  <2>1. net'.hostRoutes = {} /\ ~net'.srcRules /\ ~net'.srcRoutes /\ net'.forwarding = 0
    BY <1>1, <1>3, <1>4, <1>9 DEF StoppedIsClean
  <2>2. CleanHost'
    BY <2>1 DEF CleanHost
  <2> QED BY <2>1, <2>2, SourceOff, ForwardOff DEF CleanInv
<1> QED BY <1>1, <1>7, <1>8, <1>9, RunsOn

LEMMA CrashMain ==
  ASSUME DaemonInv, Crash
  PROVE  MainInv'
<1>1. net \in Net /\ "killed" \in Ended /\ "killed" # "fatal" /\ "killed" # "stopped"
  BY CliTypes DEF Ended
<1> QED BY <1>1, EndsMain DEF Crash, DaemonInv

-----------------------------------------------------------------------------
(* The connections, whatever users do.                                     *)

SessionInv(j) ==
    /\ j.pc = "new" => j.kind = "connect"
    /\ j.pc \in {"new", "idle"} => j.serverIp = Nil
    /\ j.pc \in ServePc => j.kind = "serve"

LEMMA SessionsUnless ==
  ASSUME Sessions, \A t \in Session : jrpc'[t] = jrpc[t] \/ SessionInv(jrpc'[t])
  PROVE  Sessions'
  BY DEF Sessions, SessionInv

LEMMA EndsSessions ==
  ASSUME Typed, Sessions, NEW how, NEW n, ProcessEnds(how, n)
  PROVE  Sessions'
<1>1. ASSUME NEW t \in Session, jrpc'[t] # jrpc[t] PROVE SessionInv(jrpc'[t])
  <2>1. jrpc[t] \in Jrpc /\ jrpc'[t] = [jrpc[t] EXCEPT !.pc = "done", !.link = "closed"]
    BY <1>1 DEF ProcessEnds, Typed, TypeOK
  <2>2. jrpc'[t].pc = "done"
    BY <2>1 DEF Jrpc
  <2> QED BY <2>2 DEF SessionInv, ServePc
<1> QED BY <1>1, SessionsUnless

LEMMA GotoSessions ==
  ASSUME Typed, Sessions, NEW s \in Session, NEW pc, pc \notin {"new", "idle"},
         pc \in ServePc => jrpc[s].kind = "serve", Goto(s, pc)
  PROVE  Sessions'
<1>1. SessionInv(jrpc'[s])
  BY GotoFields DEF SessionInv
<1> QED BY <1>1, GotoFields, SessionsUnless

LEMMA HandleSessions ==
  ASSUME Typed, Sessions, NEW s \in Session, Handle(s)
  PROVE  Sessions'
<1>1. CASE Fatal
  BY <1>1, EndsSessions DEF Fatal
<1>2. ASSUME NEW ip \in ServerIp, ConnectServer(s, ip) PROVE Sessions'
  <2>1. jrpc[s] \in Jrpc /\ jrpc'[s] = [jrpc[s] EXCEPT !.pc = "link", !.serverIp = ip]
        /\ \A t \in Session : t # s => jrpc'[t] = jrpc[t]
    BY <1>2 DEF ConnectServer, Typed, TypeOK
  <2>2. jrpc'[s].pc = "link"
    BY <2>1 DEF Jrpc
  <2> QED BY <2>1, <2>2, SessionsUnless DEF SessionInv, ServePc
<1>3. CASE \/ UpdateLink(s) \/ UpdateDefault(s) \/ UpdateCpRoute(s) \/ UpdateFlush(s)
           \/ EnableSrcRules(s) \/ EnableSrcRoutes(s) \/ UpdateConfigure(s)
           \/ UpdateTunRoutes(s) \/ Connected(s) \/ Serving(s)
  <2>1. Fatal \/ \E pc \in ClientPc \cup {"done"} : Goto(s, pc)
    BY <1>3 DEF UpdateLink, UpdateDefault, UpdateCpRoute, UpdateFlush, EnableSrcRules,
                EnableSrcRoutes, UpdateConfigure, UpdateTunRoutes, Connected, Serving, ClientPc
  <2>2. \A pc \in ClientPc \cup {"done"} : pc \notin {"new", "idle"} /\ pc \notin ServePc
    BY DEF ClientPc, ServePc
  <2> QED BY <1>1, <2>1, <2>2, GotoSessions
<1>4. CASE ServeVpn(s) \/ ServeLink(s) \/ ServeConfigure(s) \/ EnableForwarding(s)
  <2>1. Fatal \/ \E pc \in ServePc : Goto(s, pc)
    BY <1>4 DEF ServeVpn, ServeLink, ServeConfigure, EnableForwarding, ServePc
  <2>2. jrpc[s].kind = "serve"
    BY <1>4 DEF ServeVpn, ServeLink, ServeConfigure, EnableForwarding, ServePc, Sessions
  <2>3. \A pc \in ServePc : pc \notin {"new", "idle"}
    BY DEF ServePc
  <2> QED BY <1>1, <2>1, <2>2, <2>3, GotoSessions
<1> QED BY <1>2, <1>3, <1>4 DEF Handle

LEMMA SessionsNext ==
  ASSUME Typed, Sessions, [Next]_vars
  PROVE  Sessions'
<1>1. jrpc \in [Session -> Jrpc] /\ rvpn \in Rvpn
  BY DEF Typed, TypeOK
<1>2. CASE UNCHANGED jrpc
  BY <1>2, SessionsUnless
<1>3. CASE \E how, n : ProcessEnds(how, n)
  BY <1>3, EndsSessions
<1>4. ASSUME NEW s \in Session, jrpc' = [jrpc EXCEPT ![s].link = "closed"]
      PROVE  Sessions'
  <2>1. jrpc[s] \in Jrpc /\ jrpc'[s] = [jrpc[s] EXCEPT !.link = "closed"]
        /\ \A t \in Session : t # s => jrpc'[t] = jrpc[t]
    BY <1>1, <1>4
  <2>2. jrpc'[s].pc = jrpc[s].pc /\ jrpc'[s].kind = jrpc[s].kind
        /\ jrpc'[s].serverIp = jrpc[s].serverIp
    BY <2>1 DEF Jrpc
  <2>3. SessionInv(jrpc'[s])
    BY <2>2 DEF Sessions, SessionInv
  <2> QED BY <2>1, <2>3, SessionsUnless
<1>5. ASSUME NEW s \in Session, NEW op \in {"connect", "serve"}, NewConn(s, op)
      PROVE  Sessions'
  <2>1. jrpc[s] \in Jrpc /\ jrpc[s].serverIp = Nil
        /\ jrpc'[s] = [jrpc[s] EXCEPT !.pc = "idle", !.kind = op, !.link = "up"]
        /\ \A t \in Session : t # s => jrpc'[t] = jrpc[t]
    BY <1>1, <1>5 DEF NewConn, Sessions
  <2>2. jrpc'[s].pc = "idle" /\ jrpc'[s].serverIp = Nil
    BY <2>1 DEF Jrpc
  <2> QED BY <2>1, <2>2, SessionsUnless DEF SessionInv, ServePc
<1>6. CASE DisconnectClose
  <2>1. CASE rvpn.jrpcConn = Nil
    BY <1>3, <1>6, <2>1 DEF DisconnectClose, Fatal
  <2>2. CASE rvpn.jrpcConn # Nil
    <3>1. rvpn.jrpcConn \in Session
      BY <1>1, <2>2 DEF Rvpn
    <3> QED BY <1>4, <1>6, <2>2, <3>1 DEF DisconnectClose
  <2> QED BY <2>1, <2>2
<1>7. CASE Cli
  BY <1>2, <1>5, <1>6, <1>7 DEF Cli, ClientConnectProfile, ClientServeProfile,
     ClientDisconnectProfile, CliOpens, ConnectGivesUp, ServeGivesUp, GivesUp, Connect, Serve,
     Assign, DisconnectDown, DisconnectRoutes, DisconnectSource
<1>8. ASSUME NEW s \in Session, Drop(s) PROVE Sessions'
  BY <1>4, <1>8 DEF Drop
<1>9. CASE Shutdown \/ ShutdownCpRoute \/ ShutdownForwarding \/ ShutdownSource \/ Start \/ Crash
  BY <1>2, <1>3, <1>9 DEF Shutdown, ShutdownCpRoute, ShutdownForwarding, ShutdownSource,
                          Start, Crash
<1>10. CASE UNCHANGED vars
  BY <1>2, <1>10 DEF vars
<1> QED BY <1>7, <1>8, <1>9, <1>10, HandleSessions DEF Next

-----------------------------------------------------------------------------
(* The theorems.  Users wait for the answer of the control plane, and the  *)
(* signal comes between commands; the process may be killed at any step.   *)

LEMMA NextInv ==
  ASSUME ~Impatient, DaemonInv, DisconnectHasConn, [Next]_vars
  PROVE  DaemonInv'
<1>1. Typed' /\ Sessions'
  BY NextTyped, SessionsNext DEF DaemonInv
<1> SUFFICES MainInv'
  BY <1>1 DEF DaemonInv
<1>2. ASSUME NEW s \in Session, Handle(s) PROVE MainInv'
  BY <1>1, <1>2, ConnectServerMain, UpdateLinkMain, UpdateDefaultMain, UpdateCpRouteMain,
     UpdateFlushMain, EnableSrcRulesMain, EnableSrcRoutesMain, UpdateConfigureMain,
     UpdateTunRoutesMain, ConnectedMain, ServeVpnMain, ServeLinkMain, ServeConfigureMain,
     EnableForwardingMain, ServingMain DEF Handle
<1>3. CASE ClientConnectProfile \/ ClientServeProfile \/ ClientDisconnectProfile
  BY <1>3, CommandMain DEF ClientConnectProfile, ClientServeProfile, ClientDisconnectProfile
<1>4. CASE ConnectGivesUp \/ ServeGivesUp
  BY <1>4, GivesUpMain DEF ConnectGivesUp, ServeGivesUp
<1>5. ASSUME NEW s \in Session, Connect(s) \/ Serve(s) PROVE MainInv'
  BY <1>5, NewConnMain DEF Connect, Serve
<1>6. CASE Cli
  BY <1>1, <1>3, <1>4, <1>5, <1>6, AssignMain, DisconnectDownMain, DisconnectRoutesMain,
     DisconnectSourceMain, DisconnectCloseMain DEF Cli
<1>7. CASE Shutdown \/ ShutdownCpRoute \/ ShutdownForwarding \/ ShutdownSource \/ Start \/ Crash
  BY <1>1, <1>7, ShutdownMain, ShutdownCpRouteMain, ShutdownForwardingMain,
     ShutdownSourceMain, StartMain, CrashMain
<1> QED BY <1>2, <1>6, <1>7, DropMain, StutterMain DEF Next

(* The inductive invariant: the fields of the daemon, the tunnel, the      *)
(* routes, the rules and iptables agree at every step of every command and *)
(* handler, and an untainted kernel holds what the daemon knows of.        *)
THEOREM DaemonAgrees == ASSUME ~Impatient PROVE Spec => []DaemonInv
<1>1. Init => DaemonInv
  BY InitTyped, InitMain DEF DaemonInv
<1>2. DaemonInv /\ DisconnectHasConn /\ [Next]_vars => DaemonInv'
  BY NextInv
<1> QED BY <1>1, <1>2, DisconnectSafe, PTL DEF Spec

LEMMA QuietHolds ==
  ASSUME DaemonInv, Quiet
  PROVE  /\ DeviceInv /\ (~tainted => CleanInv) /\ Untouched
         /\ \A s \in Session : /\ ~HasRules(s)
                               /\ jrpc[s].pc \notin {"connected", "cproute", "serving"}
<1>1. DeviceInv /\ (~tainted => CleanInv) /\ Untouched /\ \A s \in Session : ~Busy(s)
  BY DEF DaemonInv, MainInv, Quiet, Settled, Alive, Untouched
<1> QED BY <1>1, IdleHandler

(* A device that is connected has its device up and configured for that    *)
(* server, all traffic routed into it, and source routing on, after any    *)
(* number of connects, serves and disconnects and whatever earlier         *)
(* processes left behind (UpdateClientConf, wg/daemon_linux.go).           *)
THEOREM ConnectedRoutes == ASSUME ~Impatient PROVE Spec => []ConnectedIsRouted
<1>1. DaemonInv => ConnectedIsRouted
  BY QuietHolds DEF ConnectedIsRouted, DeviceInv, TunnelInv
<1> QED BY <1>1, DaemonAgrees, PTL

(* A device that serves has its device up and forwards, although           *)
(* vpnServerMode stays set after a Disconnect (UpdateServeConf).           *)
THEOREM ServingIsForwarding == ASSUME ~Impatient PROVE Spec => []ServingForwards
<1>1. DaemonInv => ServingForwards
  BY QuietHolds DEF ServingForwards, DeviceInv, TunnelInv
<1> QED BY <1>1, DaemonAgrees, PTL

(* A device that is disconnected routes nothing into the dead tunnel and,  *)
(* without leftovers of an earlier process, has no source routing and does *)
(* not forward (Disconnect, wg/daemon_linux.go).                           *)
THEOREM DisconnectedLeavesNothing == ASSUME ~Impatient PROVE Spec => []DisconnectedIsClean
<1>1. DaemonInv => DisconnectedIsClean
  <2> SUFFICES ASSUME DaemonInv, Quiet, rvpn.status = "Disconnected"
               PROVE  /\ ~net.tunRoutes /\ ~wg.appendedRoutes
                      /\ ~tainted => ~net.srcRules /\ ~net.srcRoutes /\ net.forwarding = 0
    BY DEF DisconnectedIsClean
  <2>1. ~net.tunRoutes /\ ~wg.appendedRoutes
    BY QuietHolds DEF DeviceInv, TunnelInv
  <2>2. ~tainted => ~net.srcRules /\ ~net.srcRoutes
    BY QuietHolds DEF CleanInv, CleanSource
  <2>3. ~tainted => net.forwarding = 0
    BY QuietHolds DEF CleanInv, CleanForward
  <2> QED BY <2>1, <2>2, <2>3
<1> QED BY <1>1, DaemonAgrees, PTL

(* No sequence of connects, serves and disconnects runs UpdateClientConf   *)
(* or Disconnect into a log.Fatalf or a nil dereference, unless an earlier *)
(* process left a route or a rule behind (wg/daemon_linux.go).             *)
THEOREM FatalsAreLeftovers == ASSUME ~Impatient PROVE Spec => []FatalOnlyOnLeftovers
<1>1. DaemonInv => FatalOnlyOnLeftovers
  BY DEF DaemonInv, MainInv
<1> QED BY <1>1, DaemonAgrees, PTL

(* A ShutdownDevice that comes to its end leaves no route on the default   *)
(* interface, no source routing and no forwarding (wg/daemon_linux.go).    *)
THEOREM StoppedLeavesNothing == ASSUME ~Impatient PROVE Spec => []StoppedIsClean
<1>1. DaemonInv => StoppedIsClean
  BY DEF DaemonInv, MainInv
<1> QED BY <1>1, DaemonAgrees, PTL

(* A device that never served and connected to one server only reaches it, *)
(* and the control plane, past the tunnel, whatever earlier processes left *)
(* behind (UpdateClientConf, "find default adapater and add a highest      *)
(* priority route").                                                       *)
THEOREM OneServerReachable == ASSUME ~Impatient PROVE Spec => []OneServerRouted
<1>1. DaemonInv => OneServerRouted
  <2> SUFFICES ASSUME DaemonInv, Quiet, rvpn.status = "Connected",
                      \A s \in Session : /\ jrpc[s].kind = "connect"
                                         /\ jrpc[s].serverIp \in {Nil, wg.serverIP}
               PROVE  wg.serverIP \in net.hostRoutes /\ ControlPlaneIp \in net.hostRoutes
    BY DEF OneServerRouted
  <2>1. wg.defaultIFaceLink /\ DefaultInv /\ \A s \in Session : jrpc[s].pc # "cproute"
    BY QuietHolds DEF DeviceInv, TunnelInv
  <2>2. ControlPlaneIp \in net.hostRoutes
    BY <2>1 DEF DefaultInv
  <2>3. PICK s \in Session : jrpc[s].serverIp \in ServerIp \cap net.hostRoutes
    BY <2>1 DEF DefaultInv
  <2>4. jrpc[s].serverIp = wg.serverIP
    BY <2>3, AddressAssumption
  <2> QED BY <2>2, <2>3, <2>4
<1> QED BY <1>1, DaemonAgrees, PTL
=============================================================================
