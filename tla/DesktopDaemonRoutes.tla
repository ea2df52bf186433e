------------------------ MODULE DesktopDaemonRoutes -------------------------
(***************************************************************************)
(* Proofs that the daemon on macOS and Windows, given one thing to do at a *)
(* time, keeps its fields, the tunnel and the routes in agreement.         *)
(***************************************************************************)
EXTENDS DesktopDaemonProofs

(* A handler that configures the device, or may be told to. *)
Active(s) ==
    jrpc[s].pc \in ConfPc \/ (jrpc[s].pc = "idle" /\ jrpc[s].link = "up")

-----------------------------------------------------------------------------
(* What holds of every process, whatever it is given to do.                *)

(* A process that does not run, or has not opened its device, has done     *)
(* nothing yet.                                                            *)
Fresh ==
    /\ cli = NoRpc /\ rvpn = NewRvpn /\ wg = NewWg
    /\ \A s \in Session : jrpc[s].pc \in {"new", "done"}
    /\ ~net.tunRoutes

LifeInv ==
    /\ main = "off" <=> daemon = "off"
    /\ main = "start" => os = "darwin"
    /\ main \in {"loop", "sending", "returning"} => os = "windows"
    /\ net.open <=> daemon \in {"select", "closing"}
    /\ daemon \in {"off", "starting"} => Fresh

(* How the process ended says something of how it was used. *)
EndInv ==
    /\ main # "off" => ended = "none"
    /\ FatalOnlyOnLeftovers
    /\ StoppedIsClean

-----------------------------------------------------------------------------
(* What holds of a process that is given one thing to do at a time.        *)

(* One command, one connection or one shutdown at a time; a command only   *)
(* overlaps with the connection that it is about to assign.                *)
Exclusive ==
    /\ \A s, t \in Session : Active(s) /\ Active(t) => s = t
    /\ \A s \in Session : Active(s) =>
        /\ cli.pc = "idle" \/ (cli.pc = "assign" /\ cli.session = s)
        /\ daemon \notin Closing /\ main # "sending"
    /\ cli.pc # "idle" => daemon \notin Closing /\ main # "sending"

(* The status, and the jrpc connection to close later. *)
StatusInv ==
    /\ \A s \in Session : Active(s) =>
        /\ rvpn.status = "Disconnected"
        /\ cli.pc = "idle" => rvpn.jrpcConn # Nil
    /\ cli.pc = "connect" => rvpn.status = "Disconnected"
    /\ cli.pc \in {"down", "routes", "close"} => rvpn.status = "Connected"
    /\ cli.pc = "assign" => cli.session # Nil
    /\ rvpn.status = "Connected" /\ cli.pc # "assign" => rvpn.jrpcConn # Nil

(* The tunnel of a device that is connected or disconnected ... *)
TunnelInv ==
    /\ net.tunRoutes = wg.routes
    /\ rvpn.status = "Connected" => wg.default
    /\ rvpn.status = "Connected" /\ cli.pc \in {"idle", "assign", "down"} =>
        net.up /\ net.tunRoutes /\ net.conf = wg.serverIP
    /\ cli.pc = "close" => ~net.tunRoutes

(* The steps of UpdateClientConf after the routes into the device. *)
Routed(s) == jrpc[s].pc = "connected" \/ (os = "windows" /\ jrpc[s].pc = "conf")

(* ... and of one that UpdateClientConf is connecting. *)
ConnectingInv ==
    /\ rvpn.status = "Disconnected" /\ net.tunRoutes => \E s \in Session : Routed(s)
    /\ \A s \in Session :
        /\ Routed(s) => net.tunRoutes
        /\ jrpc[s].pc \in ConfPc \ {"up"} => net.up /\ wg.serverIP = jrpc[s].serverIp
        /\ jrpc[s].pc \in ConfPc \ {"up", "default"} => wg.default
        /\ jrpc[s].pc = "connected" \/ (os = "darwin" /\ jrpc[s].pc = "tun")
             => net.conf = jrpc[s].serverIp

(* The routes over the default interface, since it is known: to the server *)
(* of some connection, and to the control plane.                           *)
DefaultInv ==
    /\ wg.default => \E s \in Session : jrpc[s].serverIp \in ServerIp \cap net.hostRoutes
    /\ wg.default => \/ ControlPlaneIp \in net.hostRoutes
                     \/ \E s \in Session : jrpc[s].pc = "cproute"

(* Once the default interface is known, so is a server. *)
ServerKnown == wg.default => wg.serverIP \in ServerIp

(* On macOS, if no earlier process left a route: which routes there are. *)
DarwinInv ==
    /\ ServerKnown
    /\ ~wg.default => net.hostRoutes = {}
    /\ \A r, q \in net.hostRoutes \ {ControlPlaneIp} : r = q
    /\ \A s \in Session : jrpc[s].pc = "cproute" => ControlPlaneIp \notin net.hostRoutes
    /\ ~net.open => \A s \in Session : jrpc[s].pc \notin ConfPc \ {"up"}
    /\ daemon = "cp" => net.hostRoutes \subseteq {ControlPlaneIp}
    /\ daemon = "returned" => net.hostRoutes = {}

QuietInv ==
    /\ Exclusive
    /\ StatusInv
    /\ net.open => TunnelInv /\ ConnectingInv /\ DefaultInv
    /\ os = "darwin" /\ ~leftover => DarwinInv

(* A connection on which connect_server was not called has no server. *)
Uncalled == \A s \in Session : jrpc[s].pc \in {"new", "idle"} => jrpc[s].serverIp = Nil

DesktopInv == Typed /\ LifeInv /\ EndInv /\ (main # "off" /\ ~hasty => QuietInv)

-----------------------------------------------------------------------------
LEMMA InitInv == Init => DesktopInv
<1> SUFFICES ASSUME Init
             PROVE  DesktopInv
  OBVIOUS
<1>1. \A s \in Session : jrpc[s].pc = "new"
  BY DEF Init
<1>2. Fresh
  BY <1>1 DEF Init, Fresh
<1>3. LifeInv
  BY <1>2 DEF Init, LifeInv
<1>4. EndInv
  BY DEF Init, EndInv, FatalOnlyOnLeftovers, StoppedIsClean
<1> QED BY <1>3, <1>4, InitTyped DEF DesktopInv, Init

(* The end of the process, with what EndInv asks of it. *)
LEMMA EndsInv ==
  ASSUME DesktopInv, NEW how \in {"stopped", "unclean", "fatal", "late", "killed"},
         ProcessEnds(how),
         how = "fatal" /\ ~hasty => os = "darwin" /\ leftover,
         how = "stopped" /\ os = "darwin" /\ ~hasty /\ ~leftover => net.hostRoutes = {}
  PROVE  DesktopInv'
<1>1. Typed'
  BY EndTyped DEF DesktopInv
<1>2. net' = Closed(net) /\ net \in Net
  BY TypeOKSplit DEF ProcessEnds, DesktopInv, Typed
<1>3. ~net'.open /\ ~net'.tunRoutes /\ net'.hostRoutes = net.hostRoutes
  BY <1>2 DEF Closed, Net
<1>4. \A s \in Session : jrpc[s] \in Jrpc
  BY TypeOKSplit DEF DesktopInv, Typed
<1>5. \A s \in Session : jrpc'[s].pc \in {"new", "done"}
  BY <1>4 DEF ProcessEnds, Jrpc
<1>6. Fresh'
  BY <1>3, <1>5 DEF ProcessEnds, Fresh
<1>7. LifeInv'
  BY <1>3, <1>6 DEF ProcessEnds, LifeInv
<1>8. EndInv'
  BY <1>3 DEF ProcessEnds, EndInv, FatalOnlyOnLeftovers, StoppedIsClean
<1> QED BY <1>1, <1>7, <1>8 DEF DesktopInv, ProcessEnds

LEMMA FatalInv ==
  ASSUME DesktopInv, Fatal, net.open /\ ~hasty => os = "darwin" /\ leftover
  PROVE  DesktopInv'
<1>1. CASE net.open
  BY <1>1, EndsInv DEF Fatal
<1>2. CASE ~net.open
  BY <1>2, EndsInv DEF Fatal
<1> QED BY <1>1, <1>2

(* A step of a process that goes on; only StartDevice and ShutdownDevice   *)
(* change whether the device is open.                                      *)
LEMMA GoesOn ==
  ASSUME DesktopInv, Typed', UNCHANGED life, net'.open = net.open,
         daemon \notin {"off", "starting"},
         ~hasty' => ~hasty, ~hasty' /\ QuietInv => QuietInv'
  PROVE  DesktopInv'
<1>1. main # "off" /\ ended = "none"
  BY DEF DesktopInv, LifeInv, EndInv
<1>2. LifeInv'
  BY DEF DesktopInv, LifeInv, life
<1>3. EndInv'
  BY <1>1 DEF EndInv, FatalOnlyOnLeftovers, StoppedIsClean, life
<1> QED BY <1>1, <1>2, <1>3 DEF DesktopInv

-----------------------------------------------------------------------------
(* The handlers.                                                           *)

(* The steps of one handler, and the others, which have nothing to do. *)
LEMMA GotoFields ==
  ASSUME Typed, NEW s \in Session, NEW pc, Goto(s, pc)
  PROVE  /\ jrpc'[s].pc = pc /\ jrpc'[s].serverIp = jrpc[s].serverIp
         /\ jrpc'[s].link = jrpc[s].link
         /\ \A t \in Session : t # s => jrpc'[t] = jrpc[t]
<1>1. jrpc \in [Session -> Jrpc]
  BY TypeOKSplit DEF Typed
<1>2. jrpc[s] \in Jrpc
  BY <1>1
<1>3. jrpc'[s] = [jrpc[s] EXCEPT !.pc = pc]
  BY <1>1 DEF Goto
<1>4. \A t \in Session : t # s => jrpc'[t] = jrpc[t]
  BY <1>1 DEF Goto
<1> QED BY <1>2, <1>3, <1>4 DEF Jrpc

LEMMA Alone ==
  ASSUME QuietInv, NEW s \in Session, jrpc[s].pc \in ConfPc
  PROVE  /\ \A t \in Session : t # s => jrpc[t].pc \notin ConfPc
         /\ rvpn.status = "Disconnected"
         /\ cli.pc = "idle" \/ (cli.pc = "assign" /\ cli.session = s)
         /\ daemon \notin Closing /\ main # "sending"
         /\ cli.pc = "idle" => rvpn.jrpcConn # Nil
  BY DEF QuietInv, Exclusive, StatusInv, Active

LEMMA HandlerRuns ==
  ASSUME DesktopInv, NEW s \in Session, jrpc[s].pc \in ConfPc
  PROVE  daemon \notin {"off", "starting"}
  BY DEF DesktopInv, LifeInv, Fresh, ConfPc

LEMMA ExclusiveKept ==
  ASSUME Exclusive, UNCHANGED <<life, cli>>, \A s \in Session : Active(s)' => Active(s)
  PROVE  Exclusive'
<1>1. UNCHANGED <<main, daemon, cli>>
  BY DEF life
<1> QED BY <1>1 DEF Exclusive

LEMMA TypesNext ==
  ASSUME Typed'
  PROVE  (net'.tunRoutes <=> wg'.routes) => net'.tunRoutes = wg'.routes
<1>1. net' \in Net /\ wg' \in Wg
  BY DEF Typed, TypeOK
<1>2. net'.tunRoutes \in BOOLEAN /\ wg'.routes \in BOOLEAN
  BY <1>1 DEF Net, Wg
<1> QED BY <1>2

(* A step within UpdateClientConf: what it owes for its own connection. *)
LEMMA HandlerQuiet ==
  ASSUME DesktopInv, QuietInv, Typed', NEW s \in Session, jrpc[s].pc \in ConfPc,
         NEW pc \in ConfPc \ {"up"}, Goto(s, pc), UNCHANGED <<life, hasty, cli, rvpn>>,
         net'.open = net.open,
         net.open =>
           /\ net'.up /\ (net'.tunRoutes <=> wg'.routes)
           /\ net'.tunRoutes <=> (pc = "connected" \/ (os = "windows" /\ pc = "conf"))
           /\ wg'.serverIP = jrpc[s].serverIp
           /\ pc # "default" => wg'.default
           /\ pc = "connected" \/ (os = "darwin" /\ pc = "tun")
                => net'.conf = jrpc[s].serverIp
           /\ net.hostRoutes \subseteq net'.hostRoutes
           /\ wg'.default => wg.default \/ jrpc[s].serverIp \in net'.hostRoutes
           /\ wg'.default => ControlPlaneIp \in net'.hostRoutes \/ pc = "cproute",
         os = "darwin" /\ ~leftover => DarwinInv'
  PROVE  QuietInv'
<1>1. /\ jrpc'[s].pc = pc /\ jrpc'[s].serverIp = jrpc[s].serverIp
      /\ \A t \in Session : t # s => jrpc'[t] = jrpc[t] /\ jrpc[t].pc \notin ConfPc
  BY GotoFields, Alone DEF DesktopInv
<1>2. rvpn.status = "Disconnected" /\ (cli.pc = "idle" \/ cli.pc = "assign")
  BY Alone
<1>3. UNCHANGED <<os, leftover, main, daemon>>
  BY DEF life
<1>4. \A t \in Session : Active(t)' => Active(t)
  BY <1>1 DEF Active
<1>5. Exclusive'
  BY <1>4, ExclusiveKept DEF QuietInv
<1>6. StatusInv'
  BY <1>4 DEF QuietInv, StatusInv
<1>7. ASSUME net.open
      PROVE  TunnelInv'
  <2>1. net'.tunRoutes = wg'.routes
    BY <1>7, TypesNext
  <2> QED BY <1>2, <1>7, <2>1 DEF TunnelInv
<1>8. ASSUME net.open
      PROVE  ConnectingInv'
  <2>1. net'.tunRoutes <=> Routed(s)'
    BY <1>1, <1>3, <1>8 DEF Routed
  <2>2. \A t \in Session : t # s => jrpc'[t].pc \notin ConfPc
    BY <1>1
  <2>3. \A t \in Session : t # s => ~Routed(t)'
    BY <2>2 DEF Routed, ConfPc
  <2> QED BY <1>1, <1>3, <1>8, <2>1, <2>2, <2>3 DEF ConnectingInv, ConfPc
<1>9. ASSUME net.open
      PROVE  DefaultInv'
  <2>1. jrpc[s].serverIp \in ServerIp
    BY DEF DesktopInv, Typed, LocalsSet, HandlerSet
  <2>2. \A t \in Session : jrpc'[t].serverIp = jrpc[t].serverIp
    BY <1>1
  <2>3. wg.default => \E t \in Session : jrpc[t].serverIp \in ServerIp \cap net.hostRoutes
    BY <1>9 DEF QuietInv, DefaultInv
  <2>4. wg'.default => \E t \in Session : jrpc'[t].serverIp \in ServerIp \cap net'.hostRoutes
    BY <1>9, <2>1, <2>2, <2>3
  <2> QED BY <1>1, <1>9, <2>4 DEF DefaultInv
<1> QED BY <1>3, <1>5, <1>6, <1>7, <1>8, <1>9 DEF QuietInv

LEMMA RoutesSoFar ==
  ASSUME QuietInv, net.open, NEW s \in Session, jrpc[s].pc \in ConfPc
  PROVE  net.tunRoutes = wg.routes /\ (net.tunRoutes <=> Routed(s))
<1>1. \A t \in Session : Routed(t) => jrpc[t].pc \in ConfPc
  BY DEF Routed, ConfPc
<1> QED BY <1>1, Alone DEF QuietInv, TunnelInv, ConnectingInv

(* The routes of macOS while a handler goes on without changing them. *)
LEMMA DarwinRoutesKept ==
  ASSUME DarwinInv, net'.hostRoutes = net.hostRoutes, wg'.default = wg.default,
         wg'.serverIP \in {wg.serverIP} \cup ServerIp,
         net'.open = net.open, daemon' = daemon,
         \A s \in Session : jrpc'[s].pc = "cproute" => jrpc[s].pc = "cproute",
         \A s \in Session : ~net.open /\ jrpc'[s].pc \in ConfPc \ {"up"}
                              => jrpc[s].pc \in ConfPc \ {"up"}
  PROVE  DarwinInv'
<1>1. ServerKnown'
  BY DEF DarwinInv, ServerKnown
<1>2. /\ (~wg.default => net.hostRoutes = {})'
      /\ (\A r, q \in net.hostRoutes \ {ControlPlaneIp} : r = q)'
  BY DEF DarwinInv
<1>3. (\A s \in Session : jrpc[s].pc = "cproute" => ControlPlaneIp \notin net.hostRoutes)'
  BY DEF DarwinInv
<1>4. (~net.open => \A s \in Session : jrpc[s].pc \notin ConfPc \ {"up"})'
  BY DEF DarwinInv
<1>5. (/\ daemon = "cp" => net.hostRoutes \subseteq {ControlPlaneIp}
       /\ daemon = "returned" => net.hostRoutes = {})'
  BY DEF DarwinInv
<1> QED BY <1>1, <1>2, <1>3, <1>4, <1>5 DEF DarwinInv

(* A handler of macOS past its first step has an open device. *)
LEMMA DarwinOpen ==
  ASSUME DesktopInv, os = "darwin", ~leftover, QuietInv, NEW s \in Session,
         jrpc[s].pc \in ConfPc \ {"up"}
  PROVE  net.open /\ daemon \notin {"cp", "returned"}
<1>1. net.open
  BY DEF QuietInv, DarwinInv
<1> QED BY <1>1 DEF DesktopInv, LifeInv

LEMMA DarwinUpInv ==
  ASSUME DesktopInv, NEW s \in Session, DarwinUp(s)
  PROVE  DesktopInv'
<1>1. CASE ~net.open
  BY <1>1, FatalInv DEF DarwinUp
<1>2. CASE net.open
  <2>1. /\ Goto(s, "default") /\ UNCHANGED <<life, hasty, cli, rvpn>>
        /\ wg' = [wg EXCEPT !.serverIP = jrpc[s].serverIp]
        /\ net' = [net EXCEPT !.up = TRUE]
    BY <1>2 DEF DarwinUp
  <2>2. jrpc[s].pc = "up" /\ jrpc[s].pc \in ConfPc /\ "default" \in ConfPc \ {"up"}
    BY DEF DarwinUp, ConfPc
  <2>3. Typed' /\ wg \in Wg /\ net \in Net /\ jrpc[s].serverIp \in ServerIp
    BY <2>2, DarwinTyped, TypeOKSplit DEF DesktopInv, Typed, LocalsSet, HandlerSet
  <2>4. /\ wg'.serverIP = jrpc[s].serverIp /\ wg'.default = wg.default
        /\ wg'.routes = wg.routes
    BY <2>1, <2>3 DEF Wg
  <2>5. /\ net'.up /\ net'.open = net.open /\ net'.tunRoutes = net.tunRoutes
        /\ net'.hostRoutes = net.hostRoutes
    BY <2>1, <2>3 DEF Net
  <2>6. ASSUME QuietInv
        PROVE  QuietInv'
    <3>1. /\ jrpc'[s].pc = "default"
          /\ \A t \in Session : t # s => jrpc'[t] = jrpc[t]
      BY <2>1, GotoFields DEF DesktopInv
    <3>2. os = "darwin" /\ ~leftover => DarwinInv'
      BY <1>2, <2>1, <2>3, <2>4, <2>5, <2>6, <3>1, DarwinRoutesKept DEF QuietInv, life
    <3>3. ~net.tunRoutes /\ ~wg.routes
      BY <1>2, <2>2, <2>6, RoutesSoFar DEF Routed
    <3>4. wg.default => ControlPlaneIp \in net.hostRoutes
      BY <1>2, <2>2, <2>6, Alone DEF QuietInv, DefaultInv, ConfPc
    <3> QED BY <1>2, <2>1, <2>2, <2>3, <2>4, <2>5, <2>6, <3>2, <3>3, <3>4, HandlerQuiet
  <2> QED BY <2>1, <2>2, <2>3, <2>5, <2>6, GoesOn, HandlerRuns
<1> QED BY <1>1, <1>2

LEMMA DarwinDefaultInv ==
  ASSUME DesktopInv, NEW s \in Session, DarwinDefault(s)
  PROVE  DesktopInv'
<1>1. jrpc[s].pc = "default" /\ jrpc[s].pc \in ConfPc \ {"up"}
  BY DEF DarwinDefault, ConfPc
<1>2. /\ Typed' /\ wg \in Wg /\ net \in Net /\ jrpc[s].serverIp \in ServerIp
      /\ wg.serverIP \in ServerIp /\ os = "darwin"
  BY <1>1, DarwinTyped, TypeOKSplit DEF DesktopInv, Typed, LocalsSet, HandlerSet, DarwinDefault
<1>3. daemon \notin {"off", "starting"} /\ main # "off"
  BY <1>1, HandlerRuns DEF DesktopInv, LifeInv
<1>4. CASE wg.default
  <2>1. Goto(s, "conf") /\ UNCHANGED <<life, hasty, cli, rvpn, wg, net>>
    BY <1>4 DEF DarwinDefault
  <2>2. ASSUME QuietInv
        PROVE  QuietInv'
    <3>1. /\ jrpc'[s].pc = "conf"
          /\ \A t \in Session : t # s => jrpc'[t] = jrpc[t]
      BY <2>1, GotoFields DEF DesktopInv
    <3>2. ~leftover => net.open
      BY <1>1, <1>2, <2>2, DarwinOpen
    <3>3. ~leftover => DarwinInv'
      BY <1>2, <2>1, <2>2, <3>1, <3>2, DarwinRoutesKept DEF QuietInv, life
    <3>4. net.open => ~net.tunRoutes /\ ~wg.routes
      BY <1>1, <1>2, <2>2, RoutesSoFar DEF Routed
    <3>5. net.open => ControlPlaneIp \in net.hostRoutes
      BY <1>1, <1>4, <2>2, Alone DEF QuietInv, DefaultInv, ConfPc
    <3>6. net.open => net.up /\ wg.serverIP = jrpc[s].serverIp
      BY <1>1, <2>2 DEF QuietInv, ConnectingInv
    <3>7. "conf" \in ConfPc \ {"up"}
      BY DEF ConfPc
    <3> QED BY <1>1, <1>2, <1>4, <2>1, <2>2, <3>3, <3>4, <3>5, <3>6, <3>7, HandlerQuiet
  <2> QED BY <1>2, <1>3, <2>1, <2>2, GoesOn
<1>5. CASE ~wg.default /\ wg.serverIP \in net.hostRoutes
  <2>1. ~hasty => leftover
    BY <1>2, <1>3, <1>5 DEF DesktopInv, QuietInv, DarwinInv
  <2> QED BY <1>2, <1>5, <2>1, FatalInv DEF DarwinDefault
<1>6. CASE ~wg.default /\ wg.serverIP \notin net.hostRoutes
  <2>1. /\ Goto(s, "cproute") /\ UNCHANGED <<life, hasty, cli, rvpn>>
        /\ wg' = [wg EXCEPT !.default = TRUE]
        /\ net' = [net EXCEPT !.hostRoutes = @ \cup {wg.serverIP}]
    BY <1>6 DEF DarwinDefault
  <2>2. wg'.default /\ wg'.serverIP = wg.serverIP /\ wg'.routes = wg.routes
    BY <1>2, <2>1 DEF Wg
  <2>3. /\ net'.open = net.open /\ net'.up = net.up /\ net'.tunRoutes = net.tunRoutes
        /\ net'.hostRoutes = net.hostRoutes \cup {wg.serverIP}
    BY <1>2, <2>1 DEF Net
  <2>4. ASSUME QuietInv
        PROVE  QuietInv'
    <3>1. /\ jrpc'[s].pc = "cproute"
          /\ \A t \in Session : t # s => jrpc'[t] = jrpc[t]
      BY <2>1, GotoFields DEF DesktopInv
    <3>2. ASSUME ~leftover
          PROVE  DarwinInv'
      <4>1. net.open /\ daemon' \notin {"cp", "returned"}
        BY <1>1, <1>2, <2>1, <2>4, <3>2, DarwinOpen DEF life
      <4>2. net.hostRoutes = {}
        BY <1>2, <1>6, <2>4, <3>2 DEF QuietInv, DarwinInv
      <4>3. net'.hostRoutes = {wg.serverIP} /\ ControlPlaneIp \notin net'.hostRoutes
        BY <1>2, <2>3, <4>2, DesktopAssumption
      <4> QED BY <1>2, <2>2, <2>3, <4>1, <4>3 DEF DarwinInv, ServerKnown
    <3>3. net.open => ~net.tunRoutes /\ ~wg.routes
      BY <1>1, <1>2, <2>4, RoutesSoFar DEF Routed
    <3>4. net.open => net.up /\ wg.serverIP = jrpc[s].serverIp
      BY <1>1, <2>4 DEF QuietInv, ConnectingInv
    <3>5. "cproute" \in ConfPc \ {"up"}
      BY DEF ConfPc
    <3> QED BY <1>1, <1>2, <2>1, <2>2, <2>3, <2>4, <3>2, <3>3, <3>4, <3>5, HandlerQuiet
  <2> QED BY <1>2, <1>3, <2>1, <2>3, <2>4, GoesOn
<1> QED BY <1>4, <1>5, <1>6

LEMMA DarwinCpRouteInv ==
  ASSUME DesktopInv, NEW s \in Session, DarwinCpRoute(s)
  PROVE  DesktopInv'
<1>1. jrpc[s].pc = "cproute" /\ jrpc[s].pc \in ConfPc \ {"up"}
  BY DEF DarwinCpRoute, ConfPc
<1>2. /\ Typed' /\ wg \in Wg /\ net \in Net /\ wg.serverIP \in ServerIp /\ os = "darwin"
  BY <1>1, DarwinTyped, TypeOKSplit DEF DesktopInv, Typed, LocalsSet, HandlerSet, DarwinCpRoute
<1>3. daemon \notin {"off", "starting"} /\ main # "off"
  BY <1>1, HandlerRuns DEF DesktopInv, LifeInv
<1>4. CASE ControlPlaneIp \in net.hostRoutes
  <2>1. ~hasty => leftover
    BY <1>1, <1>2, <1>3, <1>4 DEF DesktopInv, QuietInv, DarwinInv
  <2> QED BY <1>2, <1>4, <2>1, FatalInv DEF DarwinCpRoute
<1>5. CASE ControlPlaneIp \notin net.hostRoutes
  <2>1. /\ Goto(s, "conf") /\ UNCHANGED <<life, hasty, cli, rvpn, wg>>
        /\ net' = [net EXCEPT !.hostRoutes = @ \cup {ControlPlaneIp}]
    BY <1>5 DEF DarwinCpRoute
  <2>2. /\ net'.open = net.open /\ net'.up = net.up /\ net'.tunRoutes = net.tunRoutes
        /\ net'.hostRoutes = net.hostRoutes \cup {ControlPlaneIp}
    BY <1>2, <2>1 DEF Net
  <2>3. ASSUME QuietInv
        PROVE  QuietInv'
    <3>1. /\ jrpc'[s].pc = "conf"
          /\ \A t \in Session : t # s => jrpc'[t] = jrpc[t] /\ jrpc[t].pc # "cproute"
      BY <1>1, <2>1, <2>3, GotoFields, Alone DEF DesktopInv, ConfPc
    <3>2. net.open => wg.default /\ net.up /\ wg.serverIP = jrpc[s].serverIp
      BY <1>1, <2>3 DEF QuietInv, ConnectingInv
    <3>3. ASSUME ~leftover
          PROVE  DarwinInv'
      <4>1. net.open /\ daemon' \notin {"cp", "returned"}
        BY <1>1, <1>2, <2>1, <2>3, <3>3, DarwinOpen DEF life
      <4>2. \A r, q \in net.hostRoutes \ {ControlPlaneIp} : r = q
        BY <1>2, <2>3, <3>3 DEF QuietInv, DarwinInv
      <4>3. \A r, q \in net'.hostRoutes \ {ControlPlaneIp} : r = q
        BY <2>2, <4>2
      <4>4. wg' = wg /\ wg.default /\ net'.open
        BY <2>1, <2>2, <3>2, <4>1
      <4> QED BY <1>2, <3>1, <4>1, <4>3, <4>4 DEF DarwinInv, ServerKnown
    <3>4. net.open => ~net.tunRoutes /\ ~wg.routes
      BY <1>1, <1>2, <2>3, RoutesSoFar DEF Routed
    <3>5. "conf" \in ConfPc \ {"up"}
      BY DEF ConfPc
    <3> QED BY <1>1, <1>2, <2>1, <2>2, <2>3, <3>2, <3>3, <3>4, <3>5, HandlerQuiet
  <2> QED BY <1>2, <1>3, <2>1, <2>2, <2>3, GoesOn
<1> QED BY <1>4, <1>5

LEMMA DarwinConfInv ==
  ASSUME DesktopInv, NEW s \in Session, DarwinConf(s)
  PROVE  DesktopInv'
<1>1. jrpc[s].pc = "conf" /\ jrpc[s].pc \in ConfPc \ {"up"}
  BY DEF DarwinConf, ConfPc
<1>2. /\ Typed' /\ wg \in Wg /\ net \in Net /\ os = "darwin"
  BY <1>1, DarwinTyped, TypeOKSplit DEF DesktopInv, Typed, DarwinConf
<1>3. daemon \notin {"off", "starting"} /\ main # "off"
  BY <1>1, HandlerRuns DEF DesktopInv, LifeInv
<1>4. /\ Goto(s, "tun") /\ UNCHANGED <<life, hasty, cli, rvpn, wg>>
      /\ net' = [net EXCEPT !.conf = IF net.open THEN jrpc[s].serverIp ELSE @]
  BY DEF DarwinConf
<1>5. /\ net'.open = net.open /\ net'.up = net.up /\ net'.tunRoutes = net.tunRoutes
      /\ net'.hostRoutes = net.hostRoutes /\ (net.open => net'.conf = jrpc[s].serverIp)
  BY <1>2, <1>4 DEF Net
<1>6. ASSUME QuietInv
      PROVE  QuietInv'
  <2>1. /\ jrpc'[s].pc = "tun"
        /\ \A t \in Session : t # s => jrpc'[t] = jrpc[t]
    BY <1>4, GotoFields DEF DesktopInv
  <2>2. ~leftover => net.open
    BY <1>1, <1>2, <1>6, DarwinOpen
  <2>3. ~leftover => DarwinInv'
    BY <1>2, <1>4, <1>5, <1>6, <2>1, <2>2, DarwinRoutesKept DEF QuietInv, life
  <2>4. net.open => ~net.tunRoutes /\ ~wg.routes
    BY <1>1, <1>2, <1>6, RoutesSoFar DEF Routed
  <2>5. net.open => ControlPlaneIp \in net.hostRoutes /\ wg.default
    BY <1>1, <1>6, Alone DEF QuietInv, ConnectingInv, DefaultInv, ConfPc
  <2>6. net.open => net.up /\ wg.serverIP = jrpc[s].serverIp
    BY <1>1, <1>6 DEF QuietInv, ConnectingInv
  <2>7. "tun" \in ConfPc \ {"up"}
    BY DEF ConfPc
  <2> QED BY <1>1, <1>2, <1>4, <1>5, <1>6, <2>3, <2>4, <2>5, <2>6, <2>7, HandlerQuiet
<1> QED BY <1>2, <1>3, <1>4, <1>5, <1>6, GoesOn

LEMMA DarwinTunInv ==
  ASSUME DesktopInv, NEW s \in Session, DarwinTun(s)
  PROVE  DesktopInv'
<1>1. jrpc[s].pc = "tun" /\ jrpc[s].pc \in ConfPc \ {"up"}
  BY DEF DarwinTun, ConfPc
<1>2. /\ Typed' /\ wg \in Wg /\ net \in Net /\ os = "darwin"
  BY <1>1, DarwinTyped, TypeOKSplit DEF DesktopInv, Typed, DarwinTun
<1>3. daemon \notin {"off", "starting"} /\ main # "off"
  BY <1>1, HandlerRuns DEF DesktopInv, LifeInv
<1>4. ASSUME QuietInv
      PROVE  net.open => ~net.tunRoutes /\ ~wg.routes
  BY <1>1, <1>2, <1>4, RoutesSoFar DEF Routed
<1>5. CASE ~net.open \/ net.tunRoutes
  <2>1. Fatal
    BY <1>5 DEF DarwinTun
  <2>2. ~(net.open /\ ~hasty)
    BY <1>3, <1>4, <1>5 DEF DesktopInv
  <2> QED BY <2>1, <2>2, FatalInv
<1>6. CASE net.open /\ ~net.tunRoutes
  <2>1. /\ Goto(s, "connected") /\ UNCHANGED <<life, hasty, cli, rvpn>>
        /\ net' = [net EXCEPT !.tunRoutes = TRUE]
        /\ wg' = [wg EXCEPT !.routes = TRUE]
    BY <1>6 DEF DarwinTun
  <2>2. wg'.default = wg.default /\ wg'.serverIP = wg.serverIP /\ wg'.routes
    BY <1>2, <2>1 DEF Wg
  <2>3. /\ net'.open = net.open /\ net'.up = net.up /\ net'.tunRoutes
        /\ net'.hostRoutes = net.hostRoutes /\ net'.conf = net.conf
    BY <1>2, <2>1 DEF Net
  <2>4. ASSUME QuietInv
        PROVE  QuietInv'
    <3>1. /\ jrpc'[s].pc = "connected"
          /\ \A t \in Session : t # s => jrpc'[t] = jrpc[t]
      BY <2>1, GotoFields DEF DesktopInv
    <3>2. ~leftover => DarwinInv'
      BY <1>2, <1>6, <2>1, <2>2, <2>3, <2>4, <3>1, DarwinRoutesKept DEF QuietInv, life
    <3>3. ControlPlaneIp \in net.hostRoutes /\ wg.default
      BY <1>1, <1>6, <2>4, Alone DEF QuietInv, ConnectingInv, DefaultInv, ConfPc
    <3>4. net.up /\ wg.serverIP = jrpc[s].serverIp /\ net.conf = jrpc[s].serverIp
      BY <1>1, <1>2, <1>6, <2>4 DEF QuietInv, ConnectingInv
    <3>5. "connected" \in ConfPc \ {"up"}
      BY DEF ConfPc
    <3> QED BY <1>1, <1>2, <1>6, <2>1, <2>2, <2>3, <2>4, <3>2, <3>3, <3>4, <3>5, HandlerQuiet
  <2> QED BY <1>2, <1>3, <2>1, <2>3, <2>4, GoesOn
<1> QED BY <1>5, <1>6

(* What every handler of Windows knows. *)
LEMMA WindowsBefore ==
  ASSUME DesktopInv, NEW s \in Session, jrpc[s].pc \in ConfPc, os = "windows",
         \/ WindowsUp(s) \/ WindowsDefault(s) \/ WindowsDelTun(s)
         \/ WindowsTun(s) \/ WindowsConf(s)
  PROVE  /\ Typed' /\ wg \in Wg /\ net \in Net /\ jrpc[s].serverIp \in ServerIp
         /\ jrpc[s].pc # "up" => wg.serverIP \in ServerIp
         /\ daemon \notin {"off", "starting"} /\ main # "off"
<1>1. Typed'
  BY WindowsTyped DEF DesktopInv
<1>2. wg \in Wg /\ net \in Net /\ HandlerSet(s)
  BY TypeOKSplit DEF DesktopInv, Typed, LocalsSet
<1>3. daemon \notin {"off", "starting"} /\ main # "off"
  BY HandlerRuns DEF DesktopInv, LifeInv
<1> QED BY <1>1, <1>2, <1>3 DEF HandlerSet

LEMMA WindowsUpInv ==
  ASSUME DesktopInv, NEW s \in Session, WindowsUp(s)
  PROVE  DesktopInv'
<1>1. jrpc[s].pc = "up" /\ jrpc[s].pc \in ConfPc /\ os = "windows"
  BY DEF WindowsUp, ConfPc
<1>2. /\ Typed' /\ wg \in Wg /\ net \in Net
      /\ daemon \notin {"off", "starting"}
  BY <1>1, WindowsBefore
<1>3. /\ Goto(s, "default") /\ UNCHANGED <<life, hasty, cli, rvpn>>
      /\ net' = [net EXCEPT !.up = net.open]
      /\ wg' = [wg EXCEPT !.serverIP = jrpc[s].serverIp]
  BY DEF WindowsUp
<1>4. /\ wg'.serverIP = jrpc[s].serverIp /\ wg'.default = wg.default
      /\ wg'.routes = wg.routes
  BY <1>2, <1>3 DEF Wg
<1>5. /\ (net.open => net'.up) /\ net'.open = net.open /\ net'.tunRoutes = net.tunRoutes
      /\ net'.hostRoutes = net.hostRoutes
  BY <1>2, <1>3 DEF Net
<1>6. ASSUME QuietInv
      PROVE  QuietInv'
  <2>1. net.open => ~net.tunRoutes /\ ~wg.routes
    BY <1>1, <1>6, RoutesSoFar DEF Routed
  <2>2. net.open /\ wg.default => ControlPlaneIp \in net.hostRoutes
    BY <1>1, <1>6, Alone DEF QuietInv, DefaultInv, ConfPc
  <2>3. "default" \in ConfPc \ {"up"}
    BY DEF ConfPc
  <2> QED BY <1>1, <1>2, <1>3, <1>4, <1>5, <1>6, <2>1, <2>2, <2>3, HandlerQuiet
<1> QED BY <1>2, <1>3, <1>5, <1>6, GoesOn

LEMMA WindowsDefaultInv ==
  ASSUME DesktopInv, NEW s \in Session, WindowsDefault(s)
  PROVE  DesktopInv'
<1>1. jrpc[s].pc = "default" /\ jrpc[s].pc \in ConfPc \ {"up"} /\ os = "windows"
  BY DEF WindowsDefault, ConfPc
<1>2. /\ Typed' /\ wg \in Wg /\ net \in Net
      /\ daemon \notin {"off", "starting"}
  BY <1>1, WindowsBefore
<1>3. /\ Goto(s, "deltun") /\ UNCHANGED <<life, hasty, cli, rvpn>>
      /\ wg' = [wg EXCEPT !.default = TRUE]
      /\ net' = [net EXCEPT !.hostRoutes =
                    IF wg.default THEN @ ELSE @ \cup {wg.serverIP, ControlPlaneIp}]
  BY DEF WindowsDefault
<1>4. wg'.serverIP = wg.serverIP /\ wg'.default /\ wg'.routes = wg.routes
  BY <1>2, <1>3 DEF Wg
<1>5. /\ net'.up = net.up /\ net'.open = net.open /\ net'.tunRoutes = net.tunRoutes
      /\ wg.default => net'.hostRoutes = net.hostRoutes
      /\ ~wg.default => net'.hostRoutes = net.hostRoutes \cup {wg.serverIP, ControlPlaneIp}
  BY <1>2, <1>3 DEF Net
<1>6. ASSUME QuietInv
      PROVE  QuietInv'
  <2>1. net.open => ~net.tunRoutes /\ ~wg.routes
    BY <1>1, <1>6, RoutesSoFar DEF Routed
  <2>2. net.open /\ wg.default => ControlPlaneIp \in net.hostRoutes
    BY <1>1, <1>6, Alone DEF QuietInv, DefaultInv, ConfPc
  <2>3. net.open => net.up /\ wg.serverIP = jrpc[s].serverIp
    BY <1>1, <1>6 DEF QuietInv, ConnectingInv
  <2>4. "deltun" \in ConfPc \ {"up"}
    BY DEF ConfPc
  <2>5. net.open => /\ net.hostRoutes \subseteq net'.hostRoutes
                    /\ wg.default \/ jrpc[s].serverIp \in net'.hostRoutes
                    /\ ControlPlaneIp \in net'.hostRoutes
    BY <1>5, <2>2, <2>3
  <2> QED BY <1>1, <1>2, <1>3, <1>4, <1>5, <1>6, <2>1, <2>3, <2>4, <2>5, HandlerQuiet
<1> QED BY <1>2, <1>3, <1>5, <1>6, GoesOn

(* Past its second step. *)
LEMMA WindowsLater ==
  ASSUME DesktopInv, QuietInv, NEW s \in Session, net.open, os = "windows",
         jrpc[s].pc \in {"deltun", "tun", "conf"}
  PROVE  /\ ControlPlaneIp \in net.hostRoutes /\ wg.default
         /\ net.up /\ wg.serverIP = jrpc[s].serverIp
         /\ net.tunRoutes = wg.routes /\ (net.tunRoutes <=> jrpc[s].pc = "conf")
<1>1. jrpc[s].pc \in ConfPc \ {"up", "default"}
  BY DEF ConfPc
<1>2. wg.default /\ net.up /\ wg.serverIP = jrpc[s].serverIp
  BY <1>1 DEF QuietInv, ConnectingInv
<1>3. ControlPlaneIp \in net.hostRoutes
  BY <1>1, <1>2, Alone DEF QuietInv, DefaultInv, ConfPc
<1> QED BY <1>1, <1>2, <1>3, RoutesSoFar DEF Routed

LEMMA WindowsDelTunInv ==
  ASSUME DesktopInv, NEW s \in Session, WindowsDelTun(s)
  PROVE  DesktopInv'
<1>1. jrpc[s].pc = "deltun" /\ jrpc[s].pc \in ConfPc /\ os = "windows"
  BY DEF WindowsDelTun, ConfPc
<1>2. /\ Typed' /\ wg \in Wg /\ net \in Net
      /\ daemon \notin {"off", "starting"} /\ main # "off"
  BY <1>1, WindowsBefore
<1>3. CASE wg.routes /\ ~net.tunRoutes
  <2>1. ~(net.open /\ ~hasty)
    BY <1>1, <1>2, <1>3, WindowsLater DEF DesktopInv
  <2> QED BY <1>3, <2>1, FatalInv DEF WindowsDelTun
<1>4. CASE ~(wg.routes /\ ~net.tunRoutes)
  <2>1. /\ Goto(s, "tun") /\ UNCHANGED <<life, hasty, cli, rvpn, wg>>
        /\ net' = [net EXCEPT !.tunRoutes = IF wg.routes THEN FALSE ELSE @]
    BY <1>4 DEF WindowsDelTun
  <2>2. /\ net'.open = net.open /\ net'.up = net.up /\ net'.hostRoutes = net.hostRoutes
        /\ net'.tunRoutes => net.tunRoutes
    BY <1>2, <2>1 DEF Net
  <2>3. ASSUME QuietInv
        PROVE  QuietInv'
    <3>1. "tun" \in ConfPc \ {"up"}
      BY DEF ConfPc
    <3>2. net.open => ~net'.tunRoutes /\ ~wg.routes
      BY <1>1, <2>2, <2>3, WindowsLater
    <3>3. net.open => /\ ControlPlaneIp \in net.hostRoutes /\ wg.default
                      /\ net.up /\ wg.serverIP = jrpc[s].serverIp
      BY <1>1, <2>3, WindowsLater
    <3> QED BY <1>1, <1>2, <2>1, <2>2, <2>3, <3>1, <3>2, <3>3, HandlerQuiet
  <2> QED BY <1>2, <2>1, <2>2, <2>3, GoesOn
<1> QED BY <1>3, <1>4

LEMMA WindowsTunInv ==
  ASSUME DesktopInv, NEW s \in Session, WindowsTun(s)
  PROVE  DesktopInv'
<1>1. jrpc[s].pc = "tun" /\ jrpc[s].pc \in ConfPc /\ os = "windows"
  BY DEF WindowsTun, ConfPc
<1>2. /\ Typed' /\ wg \in Wg /\ net \in Net
      /\ daemon \notin {"off", "starting"} /\ main # "off"
  BY <1>1, WindowsBefore
<1>3. CASE ~net.open \/ net.tunRoutes
  <2>1. ~(net.open /\ ~hasty)
    BY <1>1, <1>2, <1>3, WindowsLater DEF DesktopInv
  <2> QED BY <1>3, <2>1, FatalInv DEF WindowsTun
<1>4. CASE net.open /\ ~net.tunRoutes
  <2>1. /\ Goto(s, "conf") /\ UNCHANGED <<life, hasty, cli, rvpn>>
        /\ net' = [net EXCEPT !.tunRoutes = TRUE]
        /\ wg' = [wg EXCEPT !.routes = TRUE]
    BY <1>4 DEF WindowsTun
  <2>2. wg'.default = wg.default /\ wg'.serverIP = wg.serverIP /\ wg'.routes
    BY <1>2, <2>1 DEF Wg
  <2>3. /\ net'.open = net.open /\ net'.up = net.up /\ net'.hostRoutes = net.hostRoutes
        /\ net'.tunRoutes
    BY <1>2, <2>1 DEF Net
  <2>4. ASSUME QuietInv
        PROVE  QuietInv'
    <3>1. "conf" \in ConfPc \ {"up"}
      BY DEF ConfPc
    <3>2. /\ ControlPlaneIp \in net.hostRoutes /\ wg.default
          /\ net.up /\ wg.serverIP = jrpc[s].serverIp
      BY <1>1, <1>4, <2>4, WindowsLater
    <3> QED BY <1>1, <1>2, <2>1, <2>2, <2>3, <2>4, <3>1, <3>2, HandlerQuiet
  <2> QED BY <1>2, <2>1, <2>3, <2>4, GoesOn
<1> QED BY <1>3, <1>4

LEMMA WindowsConfInv ==
  ASSUME DesktopInv, NEW s \in Session, WindowsConf(s)
  PROVE  DesktopInv'
<1>1. jrpc[s].pc = "conf" /\ jrpc[s].pc \in ConfPc /\ os = "windows"
  BY DEF WindowsConf, ConfPc
<1>2. /\ Typed' /\ wg \in Wg /\ net \in Net
      /\ daemon \notin {"off", "starting"} /\ main # "off"
  BY <1>1, WindowsBefore
<1>3. CASE ~net.open
  BY <1>3, FatalInv DEF WindowsConf
<1>4. CASE net.open
  <2>1. /\ Goto(s, "connected") /\ UNCHANGED <<life, hasty, cli, rvpn, wg>>
        /\ net' = [net EXCEPT !.conf = jrpc[s].serverIp]
    BY <1>4 DEF WindowsConf
  <2>2. /\ net'.open = net.open /\ net'.up = net.up /\ net'.hostRoutes = net.hostRoutes
        /\ net'.tunRoutes = net.tunRoutes /\ net'.conf = jrpc[s].serverIp
    BY <1>2, <2>1 DEF Net
  <2>3. ASSUME QuietInv
        PROVE  QuietInv'
    <3>1. "connected" \in ConfPc \ {"up"}
      BY DEF ConfPc
    <3>2. /\ ControlPlaneIp \in net.hostRoutes /\ wg.default
          /\ net.up /\ wg.serverIP = jrpc[s].serverIp
          /\ net.tunRoutes /\ wg.routes
      BY <1>1, <1>4, <2>3, WindowsLater
    <3> QED BY <1>1, <1>2, <2>1, <2>2, <2>3, <3>1, <3>2, HandlerQuiet
  <2> QED BY <1>2, <2>1, <2>2, <2>3, GoesOn
<1> QED BY <1>3, <1>4

(* UpdateClientConf has returned. *)
LEMMA ConnectedInv ==
  ASSUME DesktopInv, NEW s \in Session, Connected(s)
  PROVE  DesktopInv'
<1>1. jrpc[s].pc = "connected" /\ jrpc[s].pc \in ConfPc
  BY DEF Connected, ConfPc
<1>2. Typed' /\ rvpn \in Rvpn
  BY ConnectedTyped, TypeOKSplit DEF DesktopInv, Typed
<1>3. /\ Goto(s, "done") /\ UNCHANGED <<life, hasty, cli, wg, net>>
      /\ rvpn'.status = "Connected" /\ rvpn'.jrpcConn = rvpn.jrpcConn
  BY <1>2 DEF Connected, Rvpn
<1>4. UNCHANGED <<os, leftover, main, daemon>>
  BY <1>3 DEF life
<1>5. /\ jrpc'[s].pc = "done" /\ jrpc'[s].serverIp = jrpc[s].serverIp
      /\ \A t \in Session : t # s => jrpc'[t] = jrpc[t]
  BY <1>3, GotoFields DEF DesktopInv
<1>6. ASSUME QuietInv
      PROVE  QuietInv'
  <2>1. /\ \A t \in Session : t # s => jrpc[t].pc \notin ConfPc
        /\ cli.pc = "idle" \/ cli.pc = "assign"
        /\ cli.pc = "idle" => rvpn.jrpcConn # Nil
    BY <1>1, <1>6, Alone
  <2>2. \A t \in Session : ~Active(t)'
    BY <1>1, <1>5, <1>6 DEF QuietInv, Exclusive, Active, ConfPc
  <2>3. Exclusive'
    BY <1>3, <1>6, <2>2, ExclusiveKept DEF QuietInv
  <2>4. StatusInv'
    BY <1>3, <1>6, <2>1, <2>2 DEF QuietInv, StatusInv
  <2>5. \A t \in Session : jrpc'[t].pc \notin ConfPc
    BY <2>2 DEF Active
  <2>6. ASSUME net.open
        PROVE  TunnelInv' /\ ConnectingInv' /\ DefaultInv'
    <3>1. /\ net.tunRoutes = wg.routes /\ net.tunRoutes
      BY <1>1, <1>6, <2>6, RoutesSoFar DEF Routed
    <3>2. net.up /\ wg.serverIP = jrpc[s].serverIp /\ wg.default
          /\ net.conf = jrpc[s].serverIp
      BY <1>1, <1>6, <2>6 DEF QuietInv, ConnectingInv
    <3>3. TunnelInv'
      BY <1>3, <2>1, <3>1, <3>2 DEF TunnelInv
    <3>4. \A t \in Session : ~Routed(t)'
      BY <2>5 DEF Routed, ConfPc
    <3>5. ConnectingInv'
      BY <1>3, <2>5, <3>4 DEF ConnectingInv, ConfPc
    <3>6. ControlPlaneIp \in net.hostRoutes
      BY <1>1, <1>6, <2>1, <2>6, <3>2 DEF QuietInv, DefaultInv, ConfPc
    <3>7. \A t \in Session : jrpc'[t].serverIp = jrpc[t].serverIp
      BY <1>5
    <3>8. DefaultInv'
      BY <1>3, <1>6, <2>6, <3>6, <3>7 DEF QuietInv, DefaultInv
    <3> QED BY <3>3, <3>5, <3>8
  <2>7. ASSUME os = "darwin", ~leftover
        PROVE  DarwinInv'
    <3>1. \A t \in Session : jrpc'[t].pc # "cproute"
      BY <2>5 DEF ConfPc
    <3> QED BY <1>3, <1>4, <1>6, <2>5, <2>7, <3>1, DarwinRoutesKept DEF QuietInv
  <2> QED BY <1>3, <1>4, <2>3, <2>4, <2>6, <2>7 DEF QuietInv
<1> QED BY <1>1, <1>2, <1>3, <1>6, GoesOn, HandlerRuns

-----------------------------------------------------------------------------
(* The connections.                                                        *)

(* A step that leaves the routes over the default interface alone, and     *)
(* every handler that is past the first step of UpdateClientConf.          *)
LEMMA RoutesKept ==
  ASSUME QuietInv, UNCHANGED life, net'.open = net.open,
         net'.hostRoutes = net.hostRoutes, wg'.default = wg.default,
         wg'.serverIP = wg.serverIP,
         \A s \in Session : jrpc[s].serverIp # Nil => jrpc'[s].serverIp = jrpc[s].serverIp,
         \A s \in Session : jrpc'[s].pc = jrpc[s].pc \/
                            ({jrpc[s].pc, jrpc'[s].pc} \cap (ConfPc \ {"up"}) = {})
  PROVE  /\ net.open => DefaultInv'
         /\ os = "darwin" /\ ~leftover => DarwinInv'
<1>1. UNCHANGED <<os, leftover, daemon>>
  BY DEF life
<1>2. \A s \in Session : jrpc'[s].pc \in ConfPc \ {"up"} <=> jrpc[s].pc \in ConfPc \ {"up"}
  BY DEF ConfPc
<1>3. \A s \in Session : jrpc'[s].pc = "cproute" <=> jrpc[s].pc = "cproute"
  BY DEF ConfPc
<1>4. ASSUME net.open
      PROVE  DefaultInv'
  <2>1. DefaultInv
    BY <1>4 DEF QuietInv
  <2>2. \A s \in Session : jrpc[s].serverIp \in ServerIp \cap net.hostRoutes
                           => jrpc'[s].serverIp \in ServerIp \cap net'.hostRoutes
    BY DesktopAssumption
  <2> QED BY <1>3, <2>1, <2>2 DEF DefaultInv
<1>5. ASSUME os = "darwin", ~leftover
      PROVE  DarwinInv'
  BY <1>1, <1>2, <1>3, <1>5, DarwinRoutesKept DEF QuietInv
<1> QED BY <1>4, <1>5

(* The control plane or the network closes a connection. *)
LEMMA DropInv ==
  ASSUME DesktopInv, NEW s \in Session, Drop(s)
  PROVE  DesktopInv'
<1>1. Typed' /\ jrpc \in [Session -> Jrpc] /\ jrpc[s] \in Jrpc
  BY NetworkTyped, TypeOKSplit DEF DesktopInv, Typed
<1>2. UNCHANGED <<life, hasty, cli, rvpn, wg, net>>
  BY DEF Drop
<1>3. UNCHANGED <<os, main, daemon, ended, leftover>>
  BY <1>2 DEF life
<1>4. jrpc'[s] = [jrpc[s] EXCEPT !.link = "closed"]
      /\ \A t \in Session : t # s => jrpc'[t] = jrpc[t]
  BY <1>1 DEF Drop
<1>5. /\ jrpc'[s].pc = jrpc[s].pc /\ jrpc'[s].serverIp = jrpc[s].serverIp
      /\ jrpc'[s].link = "closed"
  BY <1>1, <1>4 DEF Jrpc
<1>6. \A t \in Session : /\ jrpc'[t].pc = jrpc[t].pc /\ jrpc'[t].serverIp = jrpc[t].serverIp
                         /\ Active(t)' => Active(t)
  BY <1>4, <1>5 DEF Active
<1>7. LifeInv'
  BY <1>2, <1>3, <1>6 DEF DesktopInv, LifeInv, Fresh
<1>8. EndInv'
  BY <1>2, <1>3 DEF DesktopInv, EndInv, FatalOnlyOnLeftovers, StoppedIsClean
<1>9. ASSUME QuietInv
      PROVE  QuietInv'
  <2>1. Exclusive'
    BY <1>2, <1>6, <1>9, ExclusiveKept DEF QuietInv
  <2>2. StatusInv'
    BY <1>2, <1>6, <1>9 DEF QuietInv, StatusInv
  <2>3. net.open => TunnelInv'
    BY <1>2, <1>9 DEF QuietInv, TunnelInv
  <2>4. \A t \in Session : Routed(t)' <=> Routed(t)
    BY <1>3, <1>6 DEF Routed
  <2>5. net.open => ConnectingInv'
    BY <1>2, <1>3, <1>6, <1>9, <2>4 DEF QuietInv, ConnectingInv
  <2> QED BY <1>2, <1>3, <1>6, <1>9, <2>1, <2>2, <2>3, <2>5, RoutesKept DEF QuietInv
<1> QED BY <1>1, <1>2, <1>3, <1>7, <1>8, <1>9 DEF DesktopInv

(* The control plane calls connect_server. *)
LEMMA ConnectServerInv ==
  ASSUME DesktopInv, Uncalled, NEW s \in Session, NEW ip \in ServerIp, ConnectServer(s, ip)
  PROVE  DesktopInv'
<1>1. Typed' /\ jrpc \in [Session -> Jrpc] /\ jrpc[s] \in Jrpc
  BY NetworkTyped, TypeOKSplit DEF DesktopInv, Typed
<1>2. /\ UNCHANGED <<life, hasty, cli, rvpn, wg, net>>
      /\ jrpc[s].pc = "idle" /\ jrpc[s].link = "up" /\ jrpc[s].serverIp = Nil
  BY DEF ConnectServer, Uncalled
<1>3. UNCHANGED <<os, main, daemon, ended, leftover>>
  BY <1>2 DEF life
<1>4. jrpc'[s] = [jrpc[s] EXCEPT !.pc = "up", !.serverIp = ip]
      /\ \A t \in Session : t # s => jrpc'[t] = jrpc[t]
  BY <1>1 DEF ConnectServer
<1>5. jrpc'[s].pc = "up"
  BY <1>1, <1>4 DEF Jrpc
<1>6. \A t \in Session : Active(t)' => Active(t)
  BY <1>2, <1>4, <1>5 DEF Active
<1>7. daemon \notin {"off", "starting"}
  BY <1>2 DEF DesktopInv, LifeInv, Fresh
<1>8. ASSUME QuietInv
      PROVE  QuietInv'
  <2>1. Exclusive'
    BY <1>2, <1>6, <1>8, ExclusiveKept DEF QuietInv
  <2>2. StatusInv'
    BY <1>2, <1>6, <1>8 DEF QuietInv, StatusInv
  <2>3. net.open => TunnelInv'
    BY <1>2, <1>8 DEF QuietInv, TunnelInv
  <2>4. \A t \in Session : Routed(t)' <=> Routed(t)
    BY <1>2, <1>3, <1>4, <1>5 DEF Routed
  <2>5. net.open => ConnectingInv'
    BY <1>2, <1>3, <1>4, <1>5, <1>8, <2>4 DEF QuietInv, ConnectingInv
  <2>6. \A t \in Session : jrpc'[t].pc = jrpc[t].pc \/
                           ({jrpc[t].pc, jrpc'[t].pc} \cap (ConfPc \ {"up"}) = {})
    BY <1>2, <1>4, <1>5 DEF ConfPc
  <2>7. \A t \in Session : jrpc[t].serverIp # Nil => jrpc'[t].serverIp = jrpc[t].serverIp
    BY <1>2, <1>4
  <2> QED BY <1>2, <1>3, <1>8, <2>1, <2>2, <2>3, <2>5, <2>6, <2>7, RoutesKept DEF QuietInv
<1> QED BY <1>1, <1>2, <1>7, <1>8, GoesOn

-----------------------------------------------------------------------------
(* The clients.                                                            *)

(* A command begins or is given up. *)
LEMMA CommandInv ==
  ASSUME DesktopInv, ConnectProfile \/ ConnectGivesUp \/ DisconnectProfile
  PROVE  DesktopInv'
<1>1. Typed' /\ cli \in RpcConn /\ rvpn \in Rvpn
  BY CliTyped, TypeOKSplit DEF DesktopInv, Typed, Cli
<1>2. UNCHANGED <<life, rvpn, wg, jrpc, net>>
  BY DEF ConnectProfile, ConnectGivesUp, DisconnectProfile, CliStep
<1>3. UNCHANGED <<os, main, daemon, ended, leftover>>
  BY <1>2 DEF life
<1>4. daemon \notin {"off", "starting"}
  BY DEF ConnectProfile, ConnectGivesUp, DisconnectProfile, Listening, DesktopInv,
         LifeInv, Fresh, NoRpc
<1>5. ~hasty' => ~hasty
  BY DEF ConnectProfile, ConnectGivesUp, DisconnectProfile, Note
<1>6. \/ cli'.pc = "connect" /\ cli.pc = "idle" /\ rvpn.status = "Disconnected"
      \/ cli'.pc = "idle" /\ cli.pc = "connect" /\ rvpn.status = "Disconnected"
      \/ cli'.pc = "down" /\ cli.pc = "idle" /\ rvpn.status = "Connected"
      \/ ~QuietInv
  <2>1. CASE ConnectGivesUp
    BY <1>1, <2>1 DEF ConnectGivesUp, CliStep, RpcConn, QuietInv, StatusInv
  <2>2. CASE ConnectProfile
    BY <1>1, <2>2 DEF ConnectProfile, CliStep, RpcConn
  <2>3. CASE DisconnectProfile
    BY <1>1, <2>3 DEF DisconnectProfile, CliStep, RpcConn, Rvpn
  <2> QED BY <2>1, <2>2, <2>3
<1>7. ASSUME ~hasty', QuietInv
      PROVE  QuietInv'
  <2>1. /\ \A s \in Session : ~Active(s)
        /\ daemon \notin Closing /\ main # "sending"
    <3>1. CASE ConnectGivesUp
      BY <1>7, <3>1 DEF ConnectGivesUp, QuietInv, Exclusive
    <3>2. CASE ConnectProfile \/ DisconnectProfile
      <4>1. Settled
        BY <1>7, <3>2 DEF ConnectProfile, DisconnectProfile, Note
      <4> QED BY <4>1 DEF Settled, Active
    <3> QED BY <3>1, <3>2
  <2>2. \A s \in Session : ~Active(s)'
    BY <1>2, <2>1 DEF Active
  <2>3. Exclusive'
    BY <1>3, <2>1, <2>2 DEF Exclusive
  <2>4. StatusInv'
    BY <1>2, <1>6, <1>7, <2>2 DEF QuietInv, StatusInv
  <2>5. net.open => TunnelInv'
    BY <1>2, <1>6, <1>7 DEF QuietInv, TunnelInv
  <2>6. \A t \in Session : Routed(t)' <=> Routed(t)
    BY <1>2, <1>3 DEF Routed
  <2>7. net.open => ConnectingInv'
    BY <1>2, <1>3, <1>7, <2>6 DEF QuietInv, ConnectingInv
  <2> QED BY <1>2, <1>3, <1>7, <2>3, <2>4, <2>5, <2>7, RoutesKept DEF QuietInv
<1> QED BY <1>1, <1>2, <1>4, <1>5, <1>7, GoesOn

LEMMA ConnectInv ==
  ASSUME DesktopInv, NEW s \in Session, Connect(s)
  PROVE  DesktopInv'
<1>1. Typed' /\ jrpc \in [Session -> Jrpc] /\ jrpc[s] \in Jrpc
  BY CliTyped, TypeOKSplit DEF DesktopInv, Typed, Cli
<1>2. UNCHANGED <<life, hasty, rvpn, wg, net>> /\ cli.pc = "connect" /\ jrpc[s].pc = "new"
  BY DEF Connect
<1>3. UNCHANGED <<os, main, daemon, ended, leftover>>
  BY <1>2 DEF life
<1>4. cli'.pc = "assign" /\ cli'.session = s /\ s # Nil
  BY DesktopAssumption DEF Connect
<1>5. jrpc'[s] = [jrpc[s] EXCEPT !.pc = "idle", !.link = "up"]
      /\ \A t \in Session : t # s => jrpc'[t] = jrpc[t]
  BY <1>1 DEF Connect
<1>6. jrpc'[s].pc = "idle" /\ jrpc'[s].serverIp = jrpc[s].serverIp
  BY <1>1, <1>5 DEF Jrpc
<1>7. daemon \notin {"off", "starting"}
  BY <1>2 DEF DesktopInv, LifeInv, Fresh, NoRpc
<1>8. ASSUME QuietInv
      PROVE  QuietInv'
  <2>1. /\ \A t \in Session : ~Active(t)
        /\ daemon \notin Closing /\ main # "sending"
        /\ rvpn.status = "Disconnected"
    BY <1>2, <1>8 DEF QuietInv, Exclusive, StatusInv
  <2>2. \A t \in Session : Active(t)' => t = s
    BY <1>5, <2>1 DEF Active
  <2>3. Exclusive'
    BY <1>3, <1>4, <2>1, <2>2 DEF Exclusive
  <2>4. StatusInv'
    BY <1>2, <1>4, <2>1 DEF StatusInv
  <2>5. net.open => TunnelInv'
    BY <1>2, <1>4, <1>8, <2>1 DEF QuietInv, TunnelInv
  <2>6. \A t \in Session : Routed(t)' <=> Routed(t)
    BY <1>2, <1>3, <1>5, <1>6 DEF Routed
  <2>7. \A t \in Session : jrpc'[t].pc = jrpc[t].pc \/
                           ({jrpc[t].pc, jrpc'[t].pc} \cap ConfPc = {})
    BY <1>2, <1>5, <1>6 DEF ConfPc
  <2>8. \A t \in Session : jrpc'[t].serverIp = jrpc[t].serverIp
    BY <1>5, <1>6
  <2>9. net.open => ConnectingInv'
    BY <1>2, <1>3, <1>8, <2>6, <2>7, <2>8 DEF QuietInv, ConnectingInv, ConfPc
  <2> QED BY <1>2, <1>3, <1>8, <2>3, <2>4, <2>5, <2>7, <2>8, <2>9, RoutesKept DEF QuietInv
<1> QED BY <1>1, <1>2, <1>7, <1>8, GoesOn

LEMMA AssignInv ==
  ASSUME DesktopInv, Assign
  PROVE  DesktopInv'
<1>1. Typed' /\ rvpn \in Rvpn
  BY CliTyped, TypeOKSplit DEF DesktopInv, Typed, Cli
<1>2. UNCHANGED <<life, hasty, wg, jrpc, net>> /\ cli.pc = "assign" /\ cli'.pc = "idle"
  BY DEF Assign, NoRpc
<1>3. UNCHANGED <<os, main, daemon, ended, leftover>>
  BY <1>2 DEF life
<1>4. rvpn'.status = rvpn.status /\ rvpn'.jrpcConn = cli.session
  BY <1>1 DEF Assign, Rvpn
<1>5. daemon \notin {"off", "starting"}
  BY <1>2 DEF DesktopInv, LifeInv, Fresh, NoRpc
<1>6. ASSUME QuietInv
      PROVE  QuietInv'
  <2>1. cli.session # Nil
    BY <1>2, <1>6 DEF QuietInv, StatusInv
  <2>2. \A t \in Session : Active(t)' <=> Active(t)
    BY <1>2 DEF Active
  <2>3. Exclusive'
    BY <1>2, <1>3, <1>6, <2>2 DEF QuietInv, Exclusive
  <2>4. StatusInv'
    BY <1>2, <1>4, <1>6, <2>1, <2>2 DEF QuietInv, StatusInv
  <2>5. net.open => TunnelInv'
    BY <1>2, <1>4, <1>6 DEF QuietInv, TunnelInv
  <2>6. \A t \in Session : Routed(t)' <=> Routed(t)
    BY <1>2, <1>3 DEF Routed
  <2>7. net.open => ConnectingInv'
    BY <1>2, <1>3, <1>4, <1>6, <2>6 DEF QuietInv, ConnectingInv
  <2> QED BY <1>2, <1>3, <1>6, <2>3, <2>4, <2>5, <2>7, RoutesKept DEF QuietInv
<1> QED BY <1>1, <1>2, <1>5, <1>6, GoesOn

(* While Disconnect runs no handler does. *)
LEMMA Disconnecting ==
  ASSUME QuietInv, cli.pc \in {"down", "routes", "close"}
  PROVE  /\ rvpn.status = "Connected" /\ rvpn.jrpcConn # Nil
         /\ \A s \in Session : ~Active(s) /\ jrpc[s].pc \notin ConfPc /\ ~Routed(s)
<1>1. \A s \in Session : ~Active(s)
  BY DEF QuietInv, Exclusive
<1>2. \A s \in Session : jrpc[s].pc \notin ConfPc
  BY <1>1 DEF Active
<1>3. \A s \in Session : ~Routed(s)
  BY <1>2 DEF Routed, ConfPc
<1> QED BY <1>1, <1>2, <1>3 DEF QuietInv, StatusInv

LEMMA DisconnectDownInv ==
  ASSUME DesktopInv, DisconnectDown
  PROVE  DesktopInv'
<1>1. Typed' /\ net \in Net /\ cli \in RpcConn
  BY CliTyped, TypeOKSplit DEF DesktopInv, Typed, Cli
<1>2. UNCHANGED <<life, hasty, rvpn, wg, jrpc>> /\ cli.pc = "down" /\ cli'.pc = "routes"
  BY <1>1 DEF DisconnectDown, RpcConn
<1>3. UNCHANGED <<os, main, daemon, ended, leftover>>
  BY <1>2 DEF life
<1>4. /\ net'.open = net.open /\ net'.tunRoutes = net.tunRoutes
      /\ net'.hostRoutes = net.hostRoutes
  BY <1>1 DEF DisconnectDown, Net
<1>5. daemon \notin {"off", "starting"}
  BY <1>2 DEF DesktopInv, LifeInv, Fresh, NoRpc
<1>6. ASSUME QuietInv
      PROVE  QuietInv'
  <2>1. /\ rvpn.status = "Connected" /\ rvpn.jrpcConn # Nil
        /\ \A s \in Session : ~Active(s)' /\ jrpc'[s].pc \notin ConfPc /\ ~Routed(s)'
    BY <1>2, <1>3, <1>6, Disconnecting DEF Active, Routed
  <2>2. Exclusive'
    BY <1>2, <1>3, <1>6, <2>1 DEF QuietInv, Exclusive
  <2>3. StatusInv'
    BY <1>2, <2>1 DEF StatusInv
  <2>4. net.open => TunnelInv'
    BY <1>2, <1>4, <1>6 DEF QuietInv, TunnelInv
  <2>5. net.open => ConnectingInv'
    BY <1>2, <2>1 DEF ConnectingInv, ConfPc
  <2> QED BY <1>2, <1>3, <1>4, <1>6, <2>2, <2>3, <2>4, <2>5, RoutesKept DEF QuietInv
<1> QED BY <1>1, <1>2, <1>4, <1>5, <1>6, GoesOn

LEMMA DisconnectRoutesInv ==
  ASSUME DesktopInv, DisconnectRoutes
  PROVE  DesktopInv'
<1>1. Typed' /\ net \in Net /\ cli \in RpcConn /\ wg \in Wg
  BY CliTyped, TypeOKSplit DEF DesktopInv, Typed, Cli
<1>2. UNCHANGED <<life, hasty, rvpn, jrpc>> /\ cli.pc = "routes" /\ cli'.pc = "close"
  BY <1>1 DEF DisconnectRoutes, RpcConn
<1>3. UNCHANGED <<os, main, daemon, ended, leftover>>
  BY <1>2 DEF life
<1>4. /\ net'.open = net.open /\ net'.hostRoutes = net.hostRoutes
      /\ net'.tunRoutes = IF wg.routes THEN FALSE ELSE net.tunRoutes
  BY <1>1 DEF DisconnectRoutes, Net
<1>5. wg'.default = wg.default /\ wg'.serverIP = wg.serverIP /\ wg'.routes = FALSE
  BY <1>1 DEF DisconnectRoutes, Wg
<1>6. daemon \notin {"off", "starting"}
  BY <1>2 DEF DesktopInv, LifeInv, Fresh, NoRpc
<1>7. ASSUME QuietInv
      PROVE  QuietInv'
  <2>1. /\ rvpn.status = "Connected" /\ rvpn.jrpcConn # Nil
        /\ \A s \in Session : ~Active(s)' /\ jrpc'[s].pc \notin ConfPc /\ ~Routed(s)'
    BY <1>2, <1>3, <1>7, Disconnecting DEF Active, Routed
  <2>2. Exclusive'
    BY <1>2, <1>3, <1>7, <2>1 DEF QuietInv, Exclusive
  <2>3. StatusInv'
    BY <1>2, <2>1 DEF StatusInv
  <2>4. ASSUME net.open
        PROVE  TunnelInv'
    <3>1. net.tunRoutes = wg.routes /\ wg.default
      BY <1>7, <2>1, <2>4 DEF QuietInv, TunnelInv
    <3>2. ~net'.tunRoutes
      BY <1>4, <3>1
    <3> QED BY <1>1, <1>2, <1>5, <3>1, <3>2, TypesNext DEF TunnelInv
  <2>5. net.open => ConnectingInv'
    BY <1>2, <2>1 DEF ConnectingInv, ConfPc
  <2> QED BY <1>2, <1>3, <1>4, <1>5, <1>7, <2>2, <2>3, <2>4, <2>5, RoutesKept DEF QuietInv
<1> QED BY <1>1, <1>2, <1>4, <1>6, <1>7, GoesOn

LEMMA DisconnectCloseInv ==
  ASSUME DesktopInv, DisconnectClose
  PROVE  DesktopInv'
<1>1. /\ Typed' /\ cli \in RpcConn /\ rvpn \in Rvpn /\ jrpc \in [Session -> Jrpc]
      /\ cli.pc = "close"
  BY CliTyped, TypeOKSplit DEF DesktopInv, Typed, Cli, DisconnectClose
<1>2. daemon \notin {"off", "starting"} /\ main # "off"
  BY <1>1 DEF DesktopInv, LifeInv, Fresh, NoRpc
<1>3. CASE rvpn.jrpcConn = Nil
  <2>1. hasty
    BY <1>1, <1>2, <1>3, Disconnecting DEF DesktopInv
  <2> QED BY <1>3, <2>1, FatalInv DEF DisconnectClose
<1>4. CASE rvpn.jrpcConn # Nil
  <2> DEFINE c == rvpn.jrpcConn
  <2>1. c \in Session
    BY <1>1, <1>4 DEF Rvpn
  <2>2. /\ UNCHANGED <<life, hasty, wg, net>>
        /\ cli'.pc = "idle" /\ rvpn'.status = "Disconnected" /\ rvpn'.jrpcConn = c
    BY <1>1, <1>4 DEF DisconnectClose, RpcConn, Rvpn
  <2>3. UNCHANGED <<os, main, daemon, ended, leftover>>
    BY <2>2 DEF life
  <2>4. jrpc'[c] = [jrpc[c] EXCEPT !.link = "closed"]
        /\ \A t \in Session : t # c => jrpc'[t] = jrpc[t]
    BY <1>1, <1>4, <2>1 DEF DisconnectClose
  <2>5. jrpc[c] \in Jrpc
    BY <1>1, <2>1
  <2>6. /\ jrpc'[c].pc = jrpc[c].pc /\ jrpc'[c].serverIp = jrpc[c].serverIp
        /\ jrpc'[c].link = "closed"
    BY <2>4, <2>5 DEF Jrpc
  <2> HIDE DEF c
  <2>7. \A t \in Session : /\ jrpc'[t].pc = jrpc[t].pc /\ jrpc'[t].serverIp = jrpc[t].serverIp
                           /\ Active(t)' => Active(t)
    BY <2>4, <2>6 DEF Active
  <2>8. ASSUME QuietInv
        PROVE  QuietInv'
    <3>1. \A s \in Session : ~Active(s)' /\ jrpc'[s].pc \notin ConfPc /\ ~Routed(s)'
      BY <1>1, <2>3, <2>7, <2>8, Disconnecting DEF Routed
    <3>2. Exclusive'
      BY <2>2, <3>1 DEF Exclusive
    <3>3. StatusInv'
      BY <1>4, <2>2, <3>1 DEF StatusInv
    <3>4. net.open => TunnelInv' /\ ~net.tunRoutes
      BY <1>1, <2>2, <2>8 DEF QuietInv, TunnelInv
    <3>5. net.open => ConnectingInv'
      BY <2>2, <3>1, <3>4 DEF ConnectingInv, ConfPc
    <3> QED BY <2>2, <2>3, <2>7, <2>8, <3>2, <3>3, <3>4, <3>5, RoutesKept DEF QuietInv
  <2> QED BY <1>1, <1>2, <2>2, <2>8, GoesOn
<1> QED BY <1>3, <1>4

-----------------------------------------------------------------------------
(* The process.                                                            *)

LEMMA StartInv ==
  ASSUME DesktopInv, StartRVPNDaemon
  PROVE  DesktopInv'
<1>1. Typed' /\ os \in Platform
  BY LifeStepTyped, TypeOKSplit DEF DesktopInv, Typed, LifeTyped
<1>2. /\ UNCHANGED <<os, cli, rvpn, wg, jrpc, net>> /\ daemon' = "starting" /\ ended' = "none"
      /\ main' = (IF os = "windows" THEN "loop" ELSE "start")
      /\ leftover' = (net.hostRoutes # {}) /\ hasty' = FALSE /\ main = "off"
  BY DEF StartRVPNDaemon
<1>3. Fresh /\ daemon = "off" /\ ~net.open
  BY <1>2 DEF DesktopInv, LifeInv
<1>4. Fresh'
  BY <1>2, <1>3 DEF Fresh
<1>5. os = "darwin" \/ os = "windows"
  BY <1>1, PlatformAssumption
<1>6. LifeInv'
  BY <1>2, <1>3, <1>4, <1>5 DEF LifeInv
<1>7. EndInv'
  BY <1>2 DEF EndInv, FatalOnlyOnLeftovers, StoppedIsClean
<1>8. /\ cli'.pc = "idle" /\ rvpn'.status = "Disconnected" /\ ~wg'.default
      /\ \A s \in Session : jrpc'[s].pc \in {"new", "done"}
  BY <1>4 DEF Fresh, NoRpc, NewRvpn, NewWg
<1>9. Exclusive' /\ StatusInv'
  BY <1>8 DEF Exclusive, StatusInv, Active, ConfPc
<1>10. ~leftover' => DarwinInv'
  BY <1>2, <1>8 DEF DarwinInv, ConfPc, ServerKnown
<1> QED BY <1>1, <1>2, <1>3, <1>6, <1>7, <1>9, <1>10 DEF DesktopInv, QuietInv

LEMMA StartDeviceInv ==
  ASSUME DesktopInv, StartDevice
  PROVE  DesktopInv'
<1>1. Typed' /\ net \in Net
  BY LifeStepTyped, TypeOKSplit DEF DesktopInv, Typed
<1>2. /\ UNCHANGED <<os, main, ended, leftover, hasty, cli, rvpn, wg, jrpc>>
      /\ daemon = "starting" /\ daemon' = "select"
  BY DEF StartDevice
<1>3. /\ net'.open /\ net'.hostRoutes = net.hostRoutes /\ net'.tunRoutes = net.tunRoutes
  BY <1>1 DEF StartDevice, Opened, Net
<1>4. Fresh
  BY <1>2 DEF DesktopInv, LifeInv
<1>5. LifeInv'
  BY <1>2, <1>3 DEF DesktopInv, LifeInv
<1>6. main # "off" /\ ended = "none"
  BY <1>2 DEF DesktopInv, LifeInv, EndInv
<1>7. EndInv'
  BY <1>2, <1>6 DEF EndInv, FatalOnlyOnLeftovers, StoppedIsClean
<1>8. /\ cli'.pc = "idle" /\ rvpn'.status = "Disconnected" /\ ~wg'.default /\ ~wg'.routes
      /\ ~net'.tunRoutes
      /\ \A s \in Session : jrpc'[s].pc \in {"new", "done"}
  BY <1>2, <1>3, <1>4 DEF Fresh, NoRpc, NewRvpn, NewWg
<1>9. ASSUME QuietInv
      PROVE  QuietInv'
  <2>1. Exclusive' /\ StatusInv'
    BY <1>8 DEF Exclusive, StatusInv, Active, ConfPc
  <2>2. TunnelInv'
    BY <1>1, <1>8, TypesNext DEF TunnelInv
  <2>3. ConnectingInv'
    BY <1>8 DEF ConnectingInv, ConfPc, Routed
  <2>4. DefaultInv'
    BY <1>8 DEF DefaultInv
  <2>5. os = "darwin" /\ ~leftover => DarwinInv'
    BY <1>2, <1>3, <1>8, <1>9 DEF QuietInv, DarwinInv, ConfPc, ServerKnown
  <2> QED BY <1>2, <2>1, <2>2, <2>3, <2>4, <2>5 DEF QuietInv
<1> QED BY <1>1, <1>2, <1>5, <1>6, <1>7, <1>9 DEF DesktopInv

(* Stop is called, and the select of Start is left. *)
LEMMA StopInv ==
  ASSUME DesktopInv, ServiceStop \/ ManualTerm \/ Terminated
  PROVE  DesktopInv'
<1>1. Typed'
  BY LifeStepTyped DEF DesktopInv
<1>2. UNCHANGED <<os, ended, leftover, cli, rvpn, wg, jrpc, net>>
  BY DEF ServiceStop, ManualTerm, Terminated
<1>3. \/ main = "loop" /\ main' = "sending" /\ daemon' = daemon
      \/ main = "sending" /\ main' = "returning" /\ daemon = "select" /\ daemon' = "closing"
      \/ daemon = "select" /\ daemon' = "closing" /\ main' = main
  BY DEF ServiceStop, ManualTerm, Terminated
<1>4. LifeInv'
  BY <1>2, <1>3 DEF DesktopInv, LifeInv, Fresh
<1>5. main # "off" /\ ended = "none"
  BY <1>3 DEF DesktopInv, LifeInv, EndInv
<1>6. EndInv'
  BY <1>2, <1>5 DEF EndInv, FatalOnlyOnLeftovers, StoppedIsClean
<1>7. ~hasty' => ~hasty
  BY DEF ServiceStop, ManualTerm, Terminated, Note
<1>8. ASSUME ~hasty', QuietInv
      PROVE  QuietInv'
  <2>1. cli.pc = "idle" /\ \A s \in Session : ~Active(s)
    <3>1. CASE ServiceStop \/ Terminated
      <4>1. Settled
        BY <1>8, <3>1 DEF ServiceStop, Terminated, Note
      <4> QED BY <4>1 DEF Settled, Active
    <3>2. CASE ManualTerm
      BY <1>8, <3>2 DEF ManualTerm, QuietInv, Exclusive
    <3> QED BY <3>1, <3>2
  <2>2. cli'.pc = "idle" /\ \A s \in Session : ~Active(s)'
    BY <1>2, <2>1 DEF Active
  <2>3. Exclusive'
    BY <2>2 DEF Exclusive
  <2>4. StatusInv'
    BY <1>2, <1>8, <2>1, <2>2 DEF QuietInv, StatusInv
  <2>5. net.open => TunnelInv' /\ DefaultInv'
    BY <1>2, <1>8 DEF QuietInv, TunnelInv, DefaultInv
  <2>6. \A t \in Session : Routed(t)' <=> Routed(t)
    BY <1>2 DEF Routed
  <2>7. net.open => ConnectingInv'
    BY <1>2, <1>8, <2>6 DEF QuietInv, ConnectingInv
  <2>8. ASSUME os = "darwin", ~leftover
        PROVE  DarwinInv'
    BY <1>2, <1>3, <1>8, <2>8 DEF QuietInv, DarwinInv, ServerKnown
  <2> QED BY <1>2, <2>3, <2>4, <2>5, <2>7, <2>8 DEF QuietInv
<1> QED BY <1>1, <1>4, <1>5, <1>6, <1>7, <1>8 DEF DesktopInv

(* A step of ShutdownDevice, with the routes over the default interface    *)
(* that it leaves.                                                         *)
LEMMA ShutdownStep ==
  ASSUME DesktopInv, daemon \in Closing, NEW pc \in {"server", "cp", "returned"}, NEW n \in Net,
         GotoDaemon(pc, n), ~n.open, n.hostRoutes \subseteq net.hostRoutes,
         os = "darwin" /\ ~leftover /\ DarwinInv =>
           /\ pc = "cp" => n.hostRoutes \subseteq {ControlPlaneIp}
           /\ pc = "returned" => n.hostRoutes = {}
  PROVE  DesktopInv'
<1>1. Typed'
  BY GotoDaemonTyped DEF DesktopInv
<1>2. /\ UNCHANGED <<os, main, ended, leftover, hasty, cli, rvpn, wg, jrpc>>
      /\ daemon' = pc /\ net' = n
  BY DEF GotoDaemon
<1>3. LifeInv'
  BY <1>2 DEF DesktopInv, LifeInv, Closing
<1>4. main # "off" /\ ended = "none"
  BY DEF DesktopInv, LifeInv, EndInv, Closing
<1>5. EndInv'
  BY <1>2, <1>4 DEF EndInv, FatalOnlyOnLeftovers, StoppedIsClean
<1>6. ASSUME QuietInv
      PROVE  QuietInv'
  <2>1. cli.pc = "idle" /\ \A s \in Session : ~Active(s)
    BY <1>6 DEF QuietInv, Exclusive
  <2>2. cli'.pc = "idle" /\ \A s \in Session : ~Active(s)' /\ jrpc'[s].pc \notin ConfPc
    BY <1>2, <2>1 DEF Active
  <2>3. Exclusive'
    BY <2>2 DEF Exclusive
  <2>4. StatusInv'
    BY <1>2, <1>6, <2>1, <2>2 DEF QuietInv, StatusInv
  <2>5. ASSUME os = "darwin", ~leftover
        PROVE  DarwinInv'
    <3>1. DarwinInv
      BY <1>6, <2>5 DEF QuietInv
    <3>2. /\ ServerKnown'
          /\ ~wg'.default => net'.hostRoutes = {}
          /\ \A r, q \in net'.hostRoutes \ {ControlPlaneIp} : r = q
      BY <1>2, <3>1 DEF DarwinInv, ServerKnown
    <3> QED BY <1>2, <2>2, <2>5, <3>1, <3>2 DEF DarwinInv, ConfPc
  <2> QED BY <1>2, <2>3, <2>4, <2>5 DEF QuietInv
<1> QED BY <1>1, <1>2, <1>3, <1>4, <1>5, <1>6 DEF DesktopInv

LEMMA ShutdownInv ==
  ASSUME DesktopInv, Shutdown
  PROVE  DesktopInv'
<1>1. net \in Net
  BY TypeOKSplit DEF DesktopInv, Typed
<1>2. CASE ShutdownClose
  <2>1. Closed(net) \in Net /\ ~Closed(net).open /\ Closed(net).hostRoutes = net.hostRoutes
    BY <1>1, ClosedTyped DEF Closed, Net
  <2> QED BY <1>2, <2>1, ShutdownStep DEF ShutdownClose, Closing
<1>3. ASSUME NEW route
      PROVE  /\ Without(route) \in Net /\ Without(route).open = net.open
             /\ Without(route).hostRoutes = net.hostRoutes \ {route}
  BY <1>1 DEF Without, Net
<1>4. daemon \in {"server", "cp"} => ~net.open /\ daemon \in Closing
  BY DEF DesktopInv, LifeInv, Closing
<1>5. CASE DarwinShutdownServer
  <2>1. CASE ~wg.default /\ GotoDaemon("returned", net)
    BY <1>1, <1>4, <1>5, <2>1, ShutdownStep DEF DarwinShutdownServer, DarwinInv
  <2>2. CASE ProcessEnds("unclean")
    BY <2>2, EndsInv
  <2>3. CASE wg.default /\ GotoDaemon("cp", Without(wg.serverIP)) /\ wg.serverIP \in net.hostRoutes
    <3>1. DarwinInv => net.hostRoutes \ {wg.serverIP} \subseteq {ControlPlaneIp}
      <4> SUFFICES ASSUME DarwinInv, NEW r \in net.hostRoutes \ {wg.serverIP}, r # ControlPlaneIp
                   PROVE  FALSE
        OBVIOUS
      <4>1. wg.serverIP \in net.hostRoutes \ {ControlPlaneIp}
        BY <2>3, DesktopAssumption DEF DarwinInv, ServerKnown
      <4> QED BY <4>1 DEF DarwinInv
    <3> QED BY <1>3, <1>4, <1>5, <2>3, <3>1, ShutdownStep DEF DarwinShutdownServer
  <2> QED BY <1>5, <2>1, <2>2, <2>3 DEF DarwinShutdownServer
<1>6. CASE DarwinShutdownCp
  <2>1. CASE ProcessEnds("unclean")
    BY <2>1, EndsInv
  <2>2. CASE GotoDaemon("returned", Without(ControlPlaneIp))
    <3>1. DarwinInv => net.hostRoutes \ {ControlPlaneIp} = {}
      BY <1>6 DEF DarwinShutdownCp, DarwinInv
    <3> QED BY <1>3, <1>4, <1>6, <2>2, <3>1, ShutdownStep DEF DarwinShutdownCp
  <2> QED BY <1>6, <2>1, <2>2 DEF DarwinShutdownCp
<1>7. CASE WindowsShutdownServer
  <2>1. CASE ProcessEnds("unclean")
    BY <2>1, EndsInv
  <2>2. CASE GotoDaemon("cp", Without(wg.serverIP))
    BY <1>3, <1>4, <1>7, <2>2, ShutdownStep DEF WindowsShutdownServer
  <2> QED BY <1>7, <2>1, <2>2 DEF WindowsShutdownServer
<1>8. CASE WindowsShutdownCp
  BY <1>3, <1>4, <1>8, ShutdownStep DEF WindowsShutdownCp
<1> QED BY <1>2, <1>5, <1>6, <1>7, <1>8 DEF Shutdown

LEMMA ReturnsInv ==
  ASSUME DesktopInv, Returns \/ Crash
  PROVE  DesktopInv'
<1>1. CASE Crash
  BY <1>1, EndsInv DEF Crash
<1>2. CASE StartReturns
  <2>1. os = "darwin" /\ main # "off" /\ daemon = "returned"
    BY <1>2 DEF StartReturns, DesktopInv, LifeInv
  <2>2. ~hasty /\ ~leftover => net.hostRoutes = {}
    BY <2>1 DEF DesktopInv, QuietInv, DarwinInv
  <2> QED BY <1>2, <2>2, EndsInv DEF StartReturns
<1>3. CASE ExecuteReturns
  <2>1. os = "windows"
    BY <1>3 DEF ExecuteReturns, DesktopInv, LifeInv
  <2> QED BY <1>3, <2>1, EndsInv DEF ExecuteReturns
<1> QED BY <1>1, <1>2, <1>3 DEF Returns

-----------------------------------------------------------------------------
(* The server of a connection is set by connect_server only.               *)

LEMMA UncalledUnless ==
  ASSUME Uncalled, NEW s \in Session, \A t \in Session : t # s => jrpc'[t] = jrpc[t],
         \/ jrpc'[s].pc \notin {"new", "idle"}
         \/ jrpc[s].pc \in {"new", "idle"} /\ jrpc'[s].serverIp = jrpc[s].serverIp
  PROVE  Uncalled'
  BY DEF Uncalled

LEMMA EndsUncalled ==
  ASSUME Typed, Uncalled, NEW how, ProcessEnds(how)
  PROVE  Uncalled'
<1>1. \A s \in Session : jrpc[s] \in Jrpc
  BY TypeOKSplit DEF Typed
<1>2. ASSUME NEW s \in Session
      PROVE  (jrpc[s].pc \in {"new", "idle"} => jrpc[s].serverIp = Nil)'
  <2>1. jrpc'[s] = IF jrpc[s].pc = "new" THEN jrpc[s]
                   ELSE [jrpc[s] EXCEPT !.pc = "done", !.link = "closed"]
    BY DEF ProcessEnds
  <2>2. jrpc'[s] = jrpc[s] \/ jrpc'[s].pc = "done"
    BY <1>1, <2>1 DEF Jrpc
  <2> QED BY <2>2 DEF Uncalled
<1> QED BY <1>2 DEF Uncalled

LEMMA HandleUncalled ==
  ASSUME Typed, Uncalled, NEW s \in Session, Handle(s)
  PROVE  Uncalled'
<1>1. CASE Fatal
  BY <1>1, EndsUncalled DEF Fatal
<1>2. CASE ~Fatal
  <2>1. PICK pc \in ConfPc \cup {"done"} : Goto(s, pc)
    BY <1>2 DEF Handle, DarwinUp, DarwinDefault, DarwinCpRoute, DarwinConf, DarwinTun,
                WindowsUp, WindowsDefault, WindowsDelTun, WindowsTun, WindowsConf,
                Connected, ConfPc
  <2> QED BY <2>1, GotoFields, UncalledUnless DEF ConfPc
<1> QED BY <1>1, <1>2

LEMMA UncalledNext ==
  ASSUME Typed, Uncalled, [Next]_vars
  PROVE  Uncalled'
<1>1. jrpc \in [Session -> Jrpc]
  BY TypeOKSplit DEF Typed
<1>2. CASE UNCHANGED jrpc
  BY <1>2 DEF Uncalled
<1>3. CASE \E how : ProcessEnds(how)
  BY <1>3, EndsUncalled
<1>4. CASE Shutdown \/ Returns \/ Crash
  BY <1>2, <1>3, <1>4 DEF Shutdown, ShutdownClose, DarwinShutdownServer, DarwinShutdownCp,
     WindowsShutdownServer, WindowsShutdownCp, GotoDaemon, Returns, StartReturns,
     ExecuteReturns, Crash
<1>5. CASE StartRVPNDaemon \/ StartDevice \/ ServiceStop \/ ManualTerm \/ Terminated
  BY <1>2, <1>5 DEF StartRVPNDaemon, StartDevice, ServiceStop, ManualTerm, Terminated
<1>6. ASSUME NEW s \in Session, NEW h, h.pc = jrpc[s].pc, h.serverIp = jrpc[s].serverIp,
             jrpc' = [jrpc EXCEPT ![s] = h]
      PROVE  Uncalled'
  <2>1. jrpc'[s] = h /\ \A t \in Session : t # s => jrpc'[t] = jrpc[t]
    BY <1>1, <1>6
  <2> QED BY <1>6, <2>1, UncalledUnless
<1>7. ASSUME NEW s \in Session, jrpc' = [jrpc EXCEPT ![s].link = "closed"]
      PROVE  Uncalled'
  <2> DEFINE h == [jrpc[s] EXCEPT !.link = "closed"]
  <2>1. jrpc[s] \in Jrpc
    BY <1>1
  <2>2. h.pc = jrpc[s].pc /\ h.serverIp = jrpc[s].serverIp
    BY <2>1 DEF Jrpc
  <2>3. jrpc' = [jrpc EXCEPT ![s] = h]
    BY <1>1, <1>7
  <2> HIDE DEF h
  <2> QED BY <1>6, <2>2, <2>3
<1>8. ASSUME NEW s \in Session, Connect(s)
      PROVE  Uncalled'
  <2>1. jrpc[s] \in Jrpc /\ jrpc[s].pc = "new"
    BY <1>1, <1>8 DEF Connect
  <2>2. jrpc'[s] = [jrpc[s] EXCEPT !.pc = "idle", !.link = "up"]
        /\ \A t \in Session : t # s => jrpc'[t] = jrpc[t]
    BY <1>1, <1>8 DEF Connect
  <2>3. jrpc'[s].serverIp = jrpc[s].serverIp
    BY <2>1, <2>2 DEF Jrpc
  <2> QED BY <2>1, <2>2, <2>3, UncalledUnless
<1>9. CASE DisconnectClose
  <2>1. CASE rvpn.jrpcConn = Nil
    BY <1>3, <1>9, <2>1 DEF DisconnectClose, Fatal
  <2>2. CASE rvpn.jrpcConn # Nil
    <3>1. rvpn.jrpcConn \in Session
      BY <2>2, TypeOKSplit DEF Typed, Rvpn
    <3> QED BY <1>7, <1>9, <2>2, <3>1 DEF DisconnectClose
  <2> QED BY <2>1, <2>2
<1>10. CASE Cli
  BY <1>2, <1>8, <1>9, <1>10 DEF Cli, ConnectProfile, ConnectGivesUp, Assign,
     DisconnectProfile, DisconnectDown, DisconnectRoutes, CliStep
<1>11. ASSUME NEW s \in Session, NEW ip \in ServerIp, ConnectServer(s, ip)
       PROVE  Uncalled'
  <2>1. jrpc[s] \in Jrpc
    BY <1>1
  <2>2. jrpc'[s] = [jrpc[s] EXCEPT !.pc = "up", !.serverIp = ip]
        /\ \A t \in Session : t # s => jrpc'[t] = jrpc[t]
    BY <1>1, <1>11 DEF ConnectServer
  <2>3. jrpc'[s].pc = "up"
    BY <2>1, <2>2 DEF Jrpc
  <2> QED BY <2>2, <2>3, UncalledUnless
<1>12. ASSUME NEW s \in Session, Drop(s)
       PROVE  Uncalled'
  BY <1>7, <1>12 DEF Drop
<1>13. CASE UNCHANGED vars
  BY <1>2, <1>13 DEF vars
<1> QED BY <1>4, <1>5, <1>10, <1>11, <1>12, <1>13, HandleUncalled DEF Next

LEMMA KnownUnless ==
  ASSUME ServerKnown,
         \/ UNCHANGED wg
         \/ ~wg'.default
         \/ wg'.serverIP \in ServerIp
         \/ wg'.default = wg.default /\ wg'.serverIP = wg.serverIP
  PROVE  ServerKnown'
  BY DEF ServerKnown

LEMMA EndsKnown ==
  ASSUME ServerKnown, NEW how, ProcessEnds(how)
  PROVE  ServerKnown'
  BY DEF ServerKnown, ProcessEnds, NewWg

LEMMA HandleKnown ==
  ASSUME Typed, ServerKnown, NEW s \in Session, Handle(s)
  PROVE  ServerKnown'
<1>1. wg \in Wg /\ HandlerSet(s)
  BY TypeOKSplit DEF Typed, LocalsSet
<1>2. CASE Fatal
  BY <1>2, EndsKnown DEF Fatal
<1>3. CASE (DarwinUp(s) \/ WindowsUp(s)) /\ ~Fatal
  <2>1. jrpc[s].serverIp \in ServerIp
    BY <1>1, <1>3 DEF DarwinUp, WindowsUp, HandlerSet, ConfPc
  <2>2. wg' = [wg EXCEPT !.serverIP = jrpc[s].serverIp]
    BY <1>3 DEF DarwinUp, WindowsUp
  <2>3. wg'.serverIP \in ServerIp
    BY <1>1, <2>1, <2>2 DEF Wg
  <2> QED BY <2>3, KnownUnless
<1>4. CASE (DarwinDefault(s) \/ WindowsDefault(s)) /\ ~Fatal
  <2>1. wg.serverIP \in ServerIp
    BY <1>1, <1>4 DEF DarwinDefault, WindowsDefault, HandlerSet, ConfPc
  <2>2. wg' = wg \/ wg' = [wg EXCEPT !.default = TRUE]
    BY <1>4 DEF DarwinDefault, WindowsDefault
  <2>3. wg'.serverIP \in ServerIp
    BY <1>1, <2>1, <2>2 DEF Wg
  <2> QED BY <2>3, KnownUnless
<1>5. CASE (DarwinTun(s) \/ WindowsTun(s)) /\ ~Fatal
  <2>1. wg' = [wg EXCEPT !.routes = TRUE]
    BY <1>5 DEF DarwinTun, WindowsTun
  <2>2. wg'.default = wg.default /\ wg'.serverIP = wg.serverIP
    BY <1>1, <2>1 DEF Wg
  <2> QED BY <2>2, KnownUnless
<1>6. CASE \/ DarwinCpRoute(s) \/ DarwinConf(s) \/ WindowsDelTun(s) \/ WindowsConf(s)
           \/ Connected(s)
  BY <1>2, <1>6, KnownUnless DEF DarwinCpRoute, DarwinConf, WindowsDelTun, WindowsConf,
                                 Connected
<1> QED BY <1>2, <1>3, <1>4, <1>5, <1>6 DEF Handle

LEMMA KnownNext ==
  ASSUME Typed, ServerKnown, [Next]_vars
  PROVE  ServerKnown'
<1>1. CASE UNCHANGED wg
  BY <1>1, KnownUnless
<1>2. CASE \E how : ProcessEnds(how)
  BY <1>2, EndsKnown
<1>3. CASE Shutdown \/ Returns \/ Crash
  BY <1>1, <1>2, <1>3 DEF Shutdown, ShutdownClose, DarwinShutdownServer, DarwinShutdownCp,
     WindowsShutdownServer, WindowsShutdownCp, GotoDaemon, Returns, StartReturns,
     ExecuteReturns, Crash
<1>4. CASE StartRVPNDaemon \/ StartDevice \/ ServiceStop \/ ManualTerm \/ Terminated
  BY <1>1, <1>4 DEF StartRVPNDaemon, StartDevice, ServiceStop, ManualTerm, Terminated
<1>5. CASE DisconnectRoutes
  <2>1. wg'.default = wg.default /\ wg'.serverIP = wg.serverIP
    BY <1>5, TypeOKSplit DEF DisconnectRoutes, Typed, Wg
  <2> QED BY <2>1, KnownUnless
<1>6. CASE DisconnectClose
  BY <1>1, <1>2, <1>6 DEF DisconnectClose, Fatal
<1>7. CASE Cli
  BY <1>1, <1>5, <1>6, <1>7 DEF Cli, ConnectProfile, ConnectGivesUp, Connect, Assign,
     DisconnectProfile, DisconnectDown, CliStep
<1>8. ASSUME NEW s \in Session, Drop(s) \/ (\E ip \in ServerIp : ConnectServer(s, ip))
      PROVE  ServerKnown'
  BY <1>1, <1>8 DEF Drop, ConnectServer
<1>9. CASE UNCHANGED vars
  BY <1>1, <1>9 DEF vars
<1> QED BY <1>3, <1>4, <1>7, <1>8, <1>9, HandleKnown DEF Next

-----------------------------------------------------------------------------
(* The theorems.                                                           *)

LEMMA NextInv ==
  ASSUME DesktopInv, Uncalled, [Next]_vars
  PROVE  DesktopInv'
<1>1. ASSUME NEW s \in Session, Handle(s)
      PROVE  DesktopInv'
  BY <1>1, DarwinUpInv, DarwinDefaultInv, DarwinCpRouteInv, DarwinConfInv, DarwinTunInv,
     WindowsUpInv, WindowsDefaultInv, WindowsDelTunInv, WindowsTunInv, WindowsConfInv,
     ConnectedInv DEF Handle
<1>2. CASE Cli
  BY <1>2, CommandInv, ConnectInv, AssignInv, DisconnectDownInv, DisconnectRoutesInv,
     DisconnectCloseInv DEF Cli
<1>3. ASSUME NEW s \in Session, Drop(s) \/ (\E ip \in ServerIp : ConnectServer(s, ip))
      PROVE  DesktopInv'
  BY <1>3, DropInv, ConnectServerInv
<1>4. CASE StartRVPNDaemon \/ StartDevice \/ ServiceStop \/ ManualTerm \/ Terminated
           \/ Shutdown \/ Returns \/ Crash
  BY <1>4, StartInv, StartDeviceInv, StopInv, ShutdownInv, ReturnsInv
<1>5. CASE UNCHANGED vars
  <2>1. Typed'
    BY <1>5, NextTyped DEF DesktopInv
  <2>2. LifeInv'
    BY <1>5 DEF vars, DesktopInv, LifeInv, Fresh
  <2>3. EndInv'
    BY <1>5 DEF vars, DesktopInv, EndInv, FatalOnlyOnLeftovers, StoppedIsClean
  <2>4. \A s \in Session : (Active(s)' <=> Active(s)) /\ (Routed(s)' <=> Routed(s))
    BY <1>5 DEF vars, Active, Routed
  <2>5. ASSUME QuietInv
        PROVE  QuietInv'
    <3>1. Exclusive' /\ StatusInv'
      BY <1>5, <2>4, <2>5 DEF vars, QuietInv, Exclusive, StatusInv
    <3>2. net.open => TunnelInv' /\ ConnectingInv' /\ DefaultInv'
      BY <1>5, <2>4, <2>5 DEF vars, QuietInv, TunnelInv, ConnectingInv, DefaultInv
    <3>3. os = "darwin" /\ ~leftover => DarwinInv'
      BY <1>5, <2>5 DEF vars, QuietInv, DarwinInv, ServerKnown
    <3> QED BY <1>5, <3>1, <3>2, <3>3 DEF vars, QuietInv
  <2> QED BY <1>5, <2>1, <2>2, <2>3, <2>5 DEF DesktopInv, vars
<1> QED BY <1>1, <1>2, <1>3, <1>4, <1>5 DEF Next

(* The inductive invariant: the fields of the daemon, the tunnel and the   *)
(* routes agree at every step of every command and handler.                *)
THEOREM DesktopAgrees == Spec => [](DesktopInv /\ Uncalled /\ ServerKnown)
<1>1. Init => DesktopInv /\ Uncalled /\ ServerKnown
  BY InitInv DEF Init, Uncalled, ServerKnown, NewWg
<1>2. DesktopInv /\ Uncalled /\ ServerKnown /\ [Next]_vars
        => DesktopInv' /\ Uncalled' /\ ServerKnown'
  BY NextInv, UncalledNext, KnownNext DEF DesktopInv
<1> QED BY <1>1, <1>2, PTL DEF Spec

LEMMA QuietHolds ==
  ASSUME DesktopInv, Quiet
  PROVE  QuietInv /\ net.open /\ cli.pc = "idle" /\ \A s \in Session : jrpc[s].pc \notin ConfPc
<1>1. main # "off"
  BY DEF DesktopInv, Quiet, LifeInv
<1> QED BY <1>1 DEF DesktopInv, Quiet, Settled

(* A device that is connected has its tunnel up, configured for the server *)
(* and all traffic routed into it, after any number of connects and        *)
(* disconnects (UpdateClientConf, wg/daemon_darwin.go and                  *)
(* wg/daemon_windows.go).                                                  *)
THEOREM ConnectedTunnels == Spec => []ConnectedIsTunnelled
<1>1. DesktopInv /\ ServerKnown => ConnectedIsTunnelled
  <2> SUFFICES ASSUME DesktopInv, ServerKnown, Quiet, rvpn.status = "Connected"
               PROVE  net.up /\ net.tunRoutes /\ net.conf = wg.serverIP /\ wg.serverIP # Nil
    BY DEF ConnectedIsTunnelled
  <2>1. net.up /\ net.tunRoutes /\ net.conf = wg.serverIP /\ wg.default
    BY QuietHolds DEF QuietInv, TunnelInv
  <2> QED BY <2>1, DesktopAssumption DEF ServerKnown
<1> QED BY <1>1, DesktopAgrees, PTL

(* A device that is disconnected routes nothing into the dead tunnel, and  *)
(* the daemon knows of no such route (Disconnect).                         *)
THEOREM DisconnectedClean == Spec => []DisconnectedIsClean
<1>1. DesktopInv => DisconnectedIsClean
  <2> SUFFICES ASSUME DesktopInv, Quiet, rvpn.status = "Disconnected"
               PROVE  ~net.tunRoutes /\ ~wg.routes
    BY DEF DisconnectedIsClean
  <2>1. QuietInv /\ net.open /\ \A s \in Session : jrpc[s].pc \notin ConfPc
    BY QuietHolds
  <2>2. \A s \in Session : ~Routed(s)
    BY <2>1 DEF Routed, ConfPc
  <2> QED BY <2>1, <2>2 DEF QuietInv, TunnelInv, ConnectingInv
<1> QED BY <1>1, DesktopAgrees, PTL

(* A device that has only ever connected to one server reaches it, and the *)
(* control plane, past the tunnel (UpdateClientConf).                      *)
THEOREM OneServerReachable == Spec => []OneServerRouted
<1>1. DesktopInv /\ ServerKnown => OneServerRouted
  <2> SUFFICES ASSUME DesktopInv, ServerKnown, Quiet, rvpn.status = "Connected",
                      \A s \in Session : jrpc[s].serverIp \in {Nil, wg.serverIP}
               PROVE  wg.serverIP \in net.hostRoutes /\ ControlPlaneIp \in net.hostRoutes
    BY DEF OneServerRouted
  <2>1. QuietInv /\ net.open /\ \A s \in Session : jrpc[s].pc \notin ConfPc
    BY QuietHolds
  <2>2. wg.default /\ DefaultInv
    BY <2>1 DEF QuietInv, TunnelInv
  <2>3. ControlPlaneIp \in net.hostRoutes
    BY <2>1, <2>2 DEF DefaultInv, ConfPc
  <2>4. PICK s \in Session : jrpc[s].serverIp \in ServerIp \cap net.hostRoutes
    BY <2>2 DEF DefaultInv
  <2>5. jrpc[s].serverIp = wg.serverIP
    BY <2>4, DesktopAssumption
  <2> QED BY <2>3, <2>4, <2>5
<1> QED BY <1>1, DesktopAgrees, PTL

(* Connects and disconnects in turn never run UpdateClientConf or          *)
(* Disconnect into a log.Fatalf or a nil dereference while the device is   *)
(* open, except on macOS over a route that an earlier process left.        *)
THEOREM FatalsExplained == Spec => []FatalOnlyOnLeftovers
<1>1. DesktopInv => FatalOnlyOnLeftovers
  BY DEF DesktopInv, EndInv
<1> QED BY <1>1, DesktopAgrees, PTL

(* A ShutdownDevice that comes to its end on macOS leaves no route behind  *)
(* on the default interface (wg/daemon_darwin.go).                         *)
THEOREM StoppedClean == Spec => []StoppedIsClean
<1>1. DesktopInv => StoppedIsClean
  BY DEF DesktopInv, EndInv
<1> QED BY <1>1, DesktopAgrees, PTL
=============================================================================
