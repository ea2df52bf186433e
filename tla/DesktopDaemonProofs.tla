------------------------ MODULE DesktopDaemonProofs -------------------------
(***************************************************************************)
(* Type correctness of DesktopDaemon for any servers and connections.      *)
(***************************************************************************)
EXTENDS DesktopDaemon, TLAPS

(* What a handler and the RPC connection have set by the time they use it. *)
HandlerSet(s) ==
    /\ jrpc[s].pc \in ConfPc => jrpc[s].serverIp \in ServerIp
    /\ jrpc[s].pc \in ConfPc \ {"up"} => wg.serverIP \in ServerIp
LocalsSet == \A s \in Session : HandlerSet(s)

Typed == TypeOK /\ LocalsSet

LifeTyped ==
    /\ os \in Platform
    /\ main \in {"off", "start", "loop", "sending", "returning"}
    /\ daemon \in {"off", "starting", "select", "returned"} \cup Closing
    /\ ended \in {"none", "stopped", "unclean", "fatal", "late", "killed"}
    /\ leftover \in BOOLEAN /\ hasty \in BOOLEAN

LEMMA TypeOKSplit ==
  TypeOK <=> /\ LifeTyped /\ cli \in RpcConn /\ rvpn \in Rvpn /\ wg \in Wg
             /\ jrpc \in [Session -> Jrpc] /\ net \in Net
  BY DEF TypeOK, LifeTyped

LEMMA TypeOKNext ==
  ASSUME LifeTyped', cli' \in RpcConn, rvpn' \in Rvpn, wg' \in Wg,
         jrpc' \in [Session -> Jrpc], net' \in Net
  PROVE  TypeOK'
  BY DEF TypeOK, LifeTyped

-----------------------------------------------------------------------------
LEMMA InitTyped == Init => Typed
<1> SUFFICES ASSUME Init
             PROVE  Typed
  OBVIOUS
<1>1. LifeTyped
  BY DEF Init, LifeTyped
<1>2. cli \in RpcConn /\ rvpn \in Rvpn /\ wg \in Wg
  BY DEF Init, NoRpc, NewRvpn, NewWg, RpcConn, Rvpn, Wg
<1>3. jrpc \in [Session -> Jrpc] /\ net \in Net
  BY DEF Init, Jrpc, Net
<1>4. LocalsSet
  BY DEF Init, LocalsSet, HandlerSet, ConfPc
<1> QED BY <1>1, <1>2, <1>3, <1>4, TypeOKSplit DEF Typed

LEMMA ClosedTyped ==
  ASSUME NEW n \in Net
  PROVE  Closed(n) \in Net
  BY DEF Closed, Net

LEMMA EndTyped ==
  ASSUME Typed, NEW how \in {"stopped", "unclean", "fatal", "late", "killed"},
         ProcessEnds(how)
  PROVE  Typed'
<1>1. LifeTyped'
  BY TypeOKSplit DEF ProcessEnds, Typed, LifeTyped
<1>2. (cli \in RpcConn /\ rvpn \in Rvpn /\ wg \in Wg)'
  BY DEF ProcessEnds, NoRpc, NewRvpn, NewWg, RpcConn, Rvpn, Wg
<1>3. net' \in Net
  BY ClosedTyped, TypeOKSplit DEF ProcessEnds, Typed
<1>4. \A s \in Session : jrpc[s] \in Jrpc
  BY TypeOKSplit DEF Typed
<1>5. \A s \in Session :
        jrpc'[s] = IF jrpc[s].pc = "new" THEN jrpc[s]
                   ELSE [jrpc[s] EXCEPT !.pc = "done", !.link = "closed"]
  BY DEF ProcessEnds
<1>6. \A s \in Session : jrpc'[s] \in Jrpc /\ jrpc'[s].pc \in {"new", "done"}
  BY <1>4, <1>5 DEF Jrpc
<1>7. jrpc' \in [Session -> Jrpc]
  BY <1>6 DEF ProcessEnds
<1>8. LocalsSet'
  BY <1>6 DEF LocalsSet, HandlerSet, ConfPc
<1> QED BY <1>1, <1>2, <1>3, <1>7, <1>8, TypeOKNext DEF Typed

LEMMA FatalTyped ==
  ASSUME Typed, Fatal
  PROVE  Typed'
  BY EndTyped DEF Fatal

(* A step that leaves the handlers and the address of the server alone. *)
LEMMA OtherTyped ==
  ASSUME Typed, LifeTyped', cli' \in RpcConn, rvpn' \in Rvpn, wg' \in Wg,
         net' \in Net, wg'.serverIP = wg.serverIP, UNCHANGED jrpc
  PROVE  Typed'
<1>1. LocalsSet'
  BY DEF Typed, LocalsSet, HandlerSet
<1> QED BY <1>1, TypeOKNext, TypeOKSplit DEF Typed

(* A step of one handler. *)
LEMMA HandlerTyped ==
  ASSUME Typed, NEW s \in Session, NEW pc \in {"idle", "done"} \cup ConfPc,
         jrpc' = [jrpc EXCEPT ![s].pc = pc],
         pc \in ConfPc => jrpc[s].serverIp \in ServerIp,
         pc \in ConfPc \ {"up"} => wg'.serverIP \in ServerIp,
         wg'.serverIP \in {wg.serverIP} \cup ServerIp,
         UNCHANGED <<life, hasty, cli>>, rvpn' \in Rvpn, wg' \in Wg, net' \in Net
  PROVE  Typed'
<1>1. jrpc[s] \in Jrpc
  BY TypeOKSplit DEF Typed
<1> DEFINE h == [jrpc[s] EXCEPT !.pc = pc]
<1>2. h \in Jrpc /\ h.pc = pc /\ h.serverIp = jrpc[s].serverIp
  BY <1>1 DEF Jrpc
<1>3. jrpc' \in [Session -> Jrpc]
      /\ \A t \in Session : jrpc'[t] = IF t = s THEN h ELSE jrpc[t]
  BY <1>2, TypeOKSplit DEF Typed
<1> HIDE DEF h
<1>4. ASSUME NEW t \in Session
      PROVE  HandlerSet(t)'
  <2>1. CASE t = s
    BY <1>2, <1>3, <2>1 DEF HandlerSet
  <2>2. CASE t # s
    <3>1. jrpc'[t] = jrpc[t] /\ HandlerSet(t)
      BY <1>3, <2>2 DEF Typed, LocalsSet
    <3> QED BY <3>1 DEF HandlerSet
  <2> QED BY <2>1, <2>2
<1>5. LifeTyped' /\ cli' \in RpcConn
  BY TypeOKSplit DEF Typed, LifeTyped, life
<1> QED BY <1>3, <1>4, <1>5, TypeOKNext DEF Typed, LocalsSet

-----------------------------------------------------------------------------
(* The process.                                                            *)

LEMMA LifeStepTyped ==
  ASSUME Typed, StartRVPNDaemon \/ StartDevice \/ ServiceStop \/ ManualTerm \/ Terminated
  PROVE  Typed'
<1>1. LifeTyped
  BY TypeOKSplit DEF Typed
<1>2. CASE StartRVPNDaemon
  <2>1. LifeTyped'
    BY <1>1, <1>2 DEF StartRVPNDaemon, LifeTyped
  <2> QED BY <1>2, <2>1, OtherTyped, TypeOKSplit DEF StartRVPNDaemon, Typed
<1>3. CASE StartDevice
  <2>1. LifeTyped'
    BY <1>1, <1>3 DEF StartDevice, LifeTyped
  <2>2. net' \in Net
    BY <1>3, TypeOKSplit DEF StartDevice, Opened, Typed, Net
  <2> QED BY <1>3, <2>1, <2>2, OtherTyped, TypeOKSplit DEF StartDevice, Typed
<1>4. CASE ServiceStop
  <2>1. LifeTyped'
    BY <1>1, <1>4 DEF ServiceStop, Note, LifeTyped
  <2> QED BY <1>4, <2>1, OtherTyped, TypeOKSplit DEF ServiceStop, Typed
<1>5. CASE ManualTerm
  <2>1. LifeTyped'
    BY <1>1, <1>5 DEF ManualTerm, LifeTyped, Closing
  <2> QED BY <1>5, <2>1, OtherTyped, TypeOKSplit DEF ManualTerm, Typed
<1>6. CASE Terminated
  <2>1. LifeTyped'
    BY <1>1, <1>6 DEF Terminated, Note, LifeTyped, Closing
  <2> QED BY <1>6, <2>1, OtherTyped, TypeOKSplit DEF Terminated, Typed
<1> QED BY <1>2, <1>3, <1>4, <1>5, <1>6

LEMMA GotoDaemonTyped ==
  ASSUME Typed, NEW pc \in {"server", "cp", "returned"}, NEW n \in Net, GotoDaemon(pc, n)
  PROVE  Typed'
<1>1. LifeTyped'
  BY TypeOKSplit DEF GotoDaemon, Typed, LifeTyped, Closing
<1> QED BY <1>1, OtherTyped, TypeOKSplit DEF GotoDaemon, Typed

LEMMA ShutdownTyped ==
  ASSUME Typed, Shutdown
  PROVE  Typed'
<1>1. net \in Net
  BY TypeOKSplit DEF Typed
<1>2. \A route : Without(route) \in Net
  BY <1>1 DEF Without, Net
<1> QED BY <1>1, <1>2, ClosedTyped, GotoDaemonTyped, EndTyped
        DEF Shutdown, ShutdownClose, DarwinShutdownServer, DarwinShutdownCp,
            WindowsShutdownServer, WindowsShutdownCp

-----------------------------------------------------------------------------
(* The clients.                                                            *)

LEMMA LifeKept ==
  ASSUME Typed, UNCHANGED <<life, hasty>>
  PROVE  LifeTyped'
  BY TypeOKSplit DEF Typed, LifeTyped, life

LEMMA CliTyped ==
  ASSUME Typed, Cli
  PROVE  Typed'
<1>1. /\ LifeTyped /\ cli \in RpcConn /\ rvpn \in Rvpn /\ wg \in Wg /\ net \in Net
  BY TypeOKSplit DEF Typed
<1>2. CASE ConnectProfile \/ ConnectGivesUp \/ DisconnectProfile
  <2>1. LifeTyped'
    BY <1>1, <1>2 DEF ConnectProfile, ConnectGivesUp, DisconnectProfile, CliStep, Note,
                      LifeTyped, life
  <2>2. cli' \in RpcConn /\ UNCHANGED <<rvpn, wg, jrpc, net>>
    BY <1>1, <1>2 DEF ConnectProfile, ConnectGivesUp, DisconnectProfile, CliStep, RpcConn
  <2> QED BY <1>1, <2>1, <2>2, OtherTyped
<1>3. ASSUME NEW s \in Session, Connect(s)
      PROVE  Typed'
  <2>1. jrpc[s] \in Jrpc /\ \A t \in Session : jrpc[t] \in Jrpc
    BY TypeOKSplit DEF Typed
  <2> DEFINE h == [jrpc[s] EXCEPT !.pc = "idle", !.link = "up"]
  <2>2. h \in Jrpc /\ h.pc = "idle"
    BY <2>1 DEF Jrpc
  <2>3. jrpc' = [jrpc EXCEPT ![s] = h]
    BY <1>3, TypeOKSplit DEF Connect, Typed
  <2> HIDE DEF h
  <2>4. jrpc' \in [Session -> Jrpc]
        /\ \A t \in Session : jrpc'[t] = IF t = s THEN h ELSE jrpc[t]
    BY <2>2, <2>3, TypeOKSplit DEF Typed
  <2>5. LocalsSet'
    BY <1>3, <2>2, <2>4 DEF Connect, Typed, LocalsSet, HandlerSet, ConfPc
  <2>6. cli' \in RpcConn /\ UNCHANGED <<rvpn, wg, net>>
    BY <1>1, <1>3 DEF Connect, RpcConn
  <2>7. LifeTyped'
    BY <1>3, LifeKept DEF Connect
  <2> QED BY <1>1, <2>4, <2>5, <2>6, <2>7, TypeOKNext DEF Typed
<1>4. CASE Assign
  <2>1. cli' \in RpcConn /\ rvpn' \in Rvpn /\ UNCHANGED <<wg, jrpc, net>>
    BY <1>1, <1>4 DEF Assign, NoRpc, RpcConn, Rvpn
  <2>2. LifeTyped'
    BY <1>4, LifeKept DEF Assign
  <2> QED BY <1>1, <2>1, <2>2, OtherTyped
<1>5. CASE DisconnectDown
  <2>1. cli' \in RpcConn /\ net' \in Net /\ UNCHANGED <<rvpn, wg, jrpc>>
    BY <1>1, <1>5 DEF DisconnectDown, RpcConn, Net
  <2>2. LifeTyped'
    BY <1>5, LifeKept DEF DisconnectDown
  <2> QED BY <1>1, <2>1, <2>2, OtherTyped
<1>6. CASE DisconnectRoutes
  <2>1. cli' \in RpcConn /\ UNCHANGED <<rvpn, jrpc>>
    BY <1>1, <1>6 DEF DisconnectRoutes, RpcConn
  <2>2. wg' \in Wg /\ wg'.serverIP = wg.serverIP
    BY <1>1, <1>6 DEF DisconnectRoutes, Wg
  <2>3. net' \in Net
    BY <1>1, <1>6 DEF DisconnectRoutes, Net
  <2>4. LifeTyped'
    BY <1>6, LifeKept DEF DisconnectRoutes
  <2> QED BY <1>1, <2>1, <2>2, <2>3, <2>4, OtherTyped
<1>7. CASE DisconnectClose
  <2>1. CASE rvpn.jrpcConn = Nil
    BY <1>7, <2>1, FatalTyped DEF DisconnectClose
  <2>2. CASE rvpn.jrpcConn # Nil
    <3> DEFINE s == rvpn.jrpcConn
               h == [jrpc[s] EXCEPT !.link = "closed"]
    <3>1. s \in Session
      BY <1>1, <2>2 DEF Rvpn
    <3>2. jrpc[s] \in Jrpc
      BY <3>1, TypeOKSplit DEF Typed
    <3>3. h \in Jrpc /\ h.pc = jrpc[s].pc /\ h.serverIp = jrpc[s].serverIp
      BY <3>2 DEF Jrpc
    <3>4. jrpc' = [jrpc EXCEPT ![s] = h]
      BY <1>7, <2>2, <3>1, TypeOKSplit DEF DisconnectClose, Typed
    <3>5. cli' \in RpcConn /\ rvpn' \in Rvpn /\ UNCHANGED <<life, hasty, wg, net>>
      BY <1>1, <1>7, <2>2 DEF DisconnectClose, RpcConn, Rvpn
    <3> HIDE DEF h, s
    <3>6. jrpc' \in [Session -> Jrpc]
          /\ \A t \in Session : jrpc'[t] = IF t = s THEN h ELSE jrpc[t]
      BY <3>1, <3>3, <3>4, TypeOKSplit DEF Typed
    <3>7. LocalsSet'
      BY <3>1, <3>3, <3>5, <3>6 DEF Typed, LocalsSet, HandlerSet
    <3>8. LifeTyped'
      BY <3>5, LifeKept
    <3> QED BY <1>1, <3>5, <3>6, <3>7, <3>8, TypeOKNext DEF Typed
  <2> QED BY <2>1, <2>2
<1> QED BY <1>2, <1>3, <1>4, <1>5, <1>6, <1>7 DEF Cli

-----------------------------------------------------------------------------
(* The handlers.                                                           *)

LEMMA DarwinTyped ==
  ASSUME Typed, NEW s \in Session,
         DarwinUp(s) \/ DarwinDefault(s) \/ DarwinCpRoute(s) \/ DarwinConf(s) \/ DarwinTun(s)
  PROVE  Typed'
<1>1. rvpn \in Rvpn /\ wg \in Wg /\ net \in Net /\ HandlerSet(s)
  BY TypeOKSplit DEF Typed, LocalsSet
<1>2. CASE Fatal
  BY <1>2, FatalTyped
<1>3. CASE DarwinUp(s) /\ ~Fatal
  <2>1. jrpc[s].serverIp \in ServerIp
    BY <1>1, <1>3 DEF DarwinUp, HandlerSet, ConfPc
  <2>2. wg' \in Wg /\ wg'.serverIP \in ServerIp /\ net' \in Net /\ UNCHANGED rvpn
    BY <1>1, <1>3, <2>1 DEF DarwinUp, Wg, Net
  <2>3. Goto(s, "default") /\ UNCHANGED <<life, hasty, cli, rvpn>>
    BY <1>3 DEF DarwinUp
  <2> QED BY <1>1, <2>1, <2>2, <2>3, HandlerTyped DEF Goto, ConfPc
<1>4. CASE DarwinDefault(s) /\ ~Fatal
  <2>1. jrpc[s].serverIp \in ServerIp /\ wg.serverIP \in ServerIp
    BY <1>1, <1>4 DEF DarwinDefault, HandlerSet, ConfPc
  <2>2. wg' \in Wg /\ wg'.serverIP = wg.serverIP /\ UNCHANGED rvpn
    BY <1>1, <1>4 DEF DarwinDefault, Wg
  <2>3. net' \in Net
    BY <1>1, <1>4, <2>1 DEF DarwinDefault, Net
  <2>4. PICK pc \in {"conf", "cproute"} : Goto(s, pc)
    BY <1>4 DEF DarwinDefault
  <2>5. UNCHANGED <<life, hasty, cli>>
    BY <1>4 DEF DarwinDefault
  <2> QED BY <1>1, <2>1, <2>2, <2>3, <2>4, <2>5, HandlerTyped DEF Goto, ConfPc
<1>5. CASE DarwinCpRoute(s) /\ ~Fatal
  <2>1. jrpc[s].serverIp \in ServerIp /\ wg.serverIP \in ServerIp
    BY <1>1, <1>5 DEF DarwinCpRoute, HandlerSet, ConfPc
  <2>2. net' \in Net
    BY <1>1, <1>5 DEF DarwinCpRoute, Net
  <2>3. Goto(s, "conf") /\ UNCHANGED <<life, hasty, cli, rvpn, wg>>
    BY <1>5 DEF DarwinCpRoute
  <2> QED BY <1>1, <2>1, <2>2, <2>3, HandlerTyped DEF Goto, ConfPc
<1>6. CASE DarwinConf(s)
  <2>1. jrpc[s].serverIp \in ServerIp /\ wg.serverIP \in ServerIp
    BY <1>1, <1>6 DEF DarwinConf, HandlerSet, ConfPc
  <2>2. net' \in Net
    BY <1>1, <1>6, <2>1 DEF DarwinConf, Net
  <2>3. Goto(s, "tun") /\ UNCHANGED <<life, hasty, cli, rvpn, wg>>
    BY <1>6 DEF DarwinConf
  <2> QED BY <1>1, <2>1, <2>2, <2>3, HandlerTyped DEF Goto, ConfPc
<1>7. CASE DarwinTun(s) /\ ~Fatal
  <2>1. jrpc[s].serverIp \in ServerIp /\ wg.serverIP \in ServerIp
    BY <1>1, <1>7 DEF DarwinTun, HandlerSet, ConfPc
  <2>2. net' \in Net
    BY <1>1, <1>7 DEF DarwinTun, Net
  <2>3. wg' \in Wg /\ wg'.serverIP = wg.serverIP
    BY <1>1, <1>7 DEF DarwinTun, Wg
  <2>4. Goto(s, "connected") /\ UNCHANGED <<life, hasty, cli, rvpn>>
    BY <1>7 DEF DarwinTun
  <2> QED BY <1>1, <2>1, <2>2, <2>3, <2>4, HandlerTyped DEF Goto, ConfPc
<1> QED BY <1>2, <1>3, <1>4, <1>5, <1>6, <1>7

LEMMA WindowsTyped ==
  ASSUME Typed, NEW s \in Session,
         \/ WindowsUp(s) \/ WindowsDefault(s) \/ WindowsDelTun(s)
         \/ WindowsTun(s) \/ WindowsConf(s)
  PROVE  Typed'
<1>1. rvpn \in Rvpn /\ wg \in Wg /\ net \in Net /\ HandlerSet(s)
  BY TypeOKSplit DEF Typed, LocalsSet
<1>2. CASE Fatal
  BY <1>2, FatalTyped
<1>3. CASE WindowsUp(s)
  <2>1. jrpc[s].serverIp \in ServerIp
    BY <1>1, <1>3 DEF WindowsUp, HandlerSet, ConfPc
  <2>2. wg' \in Wg /\ wg'.serverIP \in ServerIp
    BY <1>1, <1>3, <2>1 DEF WindowsUp, Wg
  <2>3. net' \in Net
    BY <1>1, <1>3 DEF WindowsUp, Net
  <2>4. Goto(s, "default") /\ UNCHANGED <<life, hasty, cli, rvpn>>
    BY <1>3 DEF WindowsUp
  <2> QED BY <1>1, <2>1, <2>2, <2>3, <2>4, HandlerTyped DEF Goto, ConfPc
<1>4. CASE WindowsDefault(s)
  <2>1. jrpc[s].serverIp \in ServerIp /\ wg.serverIP \in ServerIp
    BY <1>1, <1>4 DEF WindowsDefault, HandlerSet, ConfPc
  <2>2. wg' \in Wg /\ wg'.serverIP = wg.serverIP
    BY <1>1, <1>4 DEF WindowsDefault, Wg
  <2>3. net' \in Net
    BY <1>1, <1>4, <2>1 DEF WindowsDefault, Net
  <2>4. Goto(s, "deltun") /\ UNCHANGED <<life, hasty, cli, rvpn>>
    BY <1>4 DEF WindowsDefault
  <2> QED BY <1>1, <2>1, <2>2, <2>3, <2>4, HandlerTyped DEF Goto, ConfPc
<1>5. CASE WindowsDelTun(s) /\ ~Fatal
  <2>1. jrpc[s].serverIp \in ServerIp /\ wg.serverIP \in ServerIp
    BY <1>1, <1>5 DEF WindowsDelTun, HandlerSet, ConfPc
  <2>2. net' \in Net
    BY <1>1, <1>5 DEF WindowsDelTun, Net
  <2>3. Goto(s, "tun") /\ UNCHANGED <<life, hasty, cli, rvpn, wg>>
    BY <1>5 DEF WindowsDelTun
  <2> QED BY <1>1, <2>1, <2>2, <2>3, HandlerTyped DEF Goto, ConfPc
<1>6. CASE WindowsTun(s) /\ ~Fatal
  <2>1. jrpc[s].serverIp \in ServerIp /\ wg.serverIP \in ServerIp
    BY <1>1, <1>6 DEF WindowsTun, HandlerSet, ConfPc
  <2>2. net' \in Net
    BY <1>1, <1>6 DEF WindowsTun, Net
  <2>3. wg' \in Wg /\ wg'.serverIP = wg.serverIP
    BY <1>1, <1>6 DEF WindowsTun, Wg
  <2>4. Goto(s, "conf") /\ UNCHANGED <<life, hasty, cli, rvpn>>
    BY <1>6 DEF WindowsTun
  <2> QED BY <1>1, <2>1, <2>2, <2>3, <2>4, HandlerTyped DEF Goto, ConfPc
<1>7. CASE WindowsConf(s) /\ ~Fatal
  <2>1. jrpc[s].serverIp \in ServerIp /\ wg.serverIP \in ServerIp
    BY <1>1, <1>7 DEF WindowsConf, HandlerSet, ConfPc
  <2>2. net' \in Net
    BY <1>1, <1>7, <2>1 DEF WindowsConf, Net
  <2>3. Goto(s, "connected") /\ UNCHANGED <<life, hasty, cli, rvpn, wg>>
    BY <1>7 DEF WindowsConf
  <2> QED BY <1>1, <2>1, <2>2, <2>3, HandlerTyped DEF Goto, ConfPc
<1> QED BY <1>2, <1>3, <1>4, <1>5, <1>6, <1>7

LEMMA ConnectedTyped ==
  ASSUME Typed, NEW s \in Session, Connected(s)
  PROVE  Typed'
<1>1. rvpn \in Rvpn /\ wg \in Wg /\ net \in Net
  BY TypeOKSplit DEF Typed
<1>2. rvpn' \in Rvpn
  BY <1>1 DEF Connected, Rvpn
<1> QED BY <1>1, <1>2, HandlerTyped DEF Connected, Goto, ConfPc

(* A new request, or the end of the connection. *)
LEMMA NetworkTyped ==
  ASSUME Typed, NEW s \in Session,
         Drop(s) \/ (\E ip \in ServerIp : ConnectServer(s, ip))
  PROVE  Typed'
<1>1. jrpc[s] \in Jrpc
  BY TypeOKSplit DEF Typed
<1>2. UNCHANGED <<life, hasty, cli, rvpn, wg, net>>
  BY DEF Drop, ConnectServer
<1>3. PICK h \in Jrpc : /\ jrpc' = [jrpc EXCEPT ![s] = h]
                        /\ \/ h.pc = jrpc[s].pc /\ h.serverIp = jrpc[s].serverIp
                           \/ h.pc = "up" /\ h.serverIp \in ServerIp
  <2>1. CASE Drop(s)
    <3> DEFINE g == [jrpc[s] EXCEPT !.link = "closed"]
    <3>1. g \in Jrpc /\ g.pc = jrpc[s].pc /\ g.serverIp = jrpc[s].serverIp
      BY <1>1 DEF Jrpc
    <3>2. jrpc' = [jrpc EXCEPT ![s] = g]
      BY <2>1, TypeOKSplit DEF Drop, Typed
    <3> QED BY <3>1, <3>2
  <2>2. ASSUME NEW ip \in ServerIp, ConnectServer(s, ip)
        PROVE  \E h \in Jrpc : /\ jrpc' = [jrpc EXCEPT ![s] = h]
                               /\ h.pc = "up" /\ h.serverIp \in ServerIp
    <3> DEFINE g == [jrpc[s] EXCEPT !.pc = "up", !.serverIp = ip]
    <3>1. g \in Jrpc /\ g.pc = "up" /\ g.serverIp \in ServerIp
      BY <1>1 DEF Jrpc, ConfPc
    <3>2. jrpc' = [jrpc EXCEPT ![s] = g]
      BY <2>2, TypeOKSplit DEF ConnectServer, Typed
    <3> QED BY <3>1, <3>2
  <2> QED BY <2>1, <2>2
<1>4. jrpc' \in [Session -> Jrpc]
      /\ \A t \in Session : jrpc'[t] = IF t = s THEN h ELSE jrpc[t]
  BY <1>3, TypeOKSplit DEF Typed
<1>5. LocalsSet'
  BY <1>2, <1>3, <1>4 DEF Typed, LocalsSet, HandlerSet
<1>6. LifeTyped'
  BY <1>2, TypeOKSplit DEF Typed, LifeTyped, life
<1>7. cli' \in RpcConn /\ rvpn' \in Rvpn /\ wg' \in Wg /\ net' \in Net
  BY <1>2, TypeOKSplit DEF Typed
<1> QED BY <1>4, <1>5, <1>6, <1>7, TypeOKNext DEF Typed

LEMMA NextTyped ==
  ASSUME Typed, [Next]_vars
  PROVE  Typed'
<1>1. CASE Returns \/ Crash
  BY <1>1, EndTyped DEF Returns, StartReturns, ExecuteReturns, Crash
<1>2. ASSUME NEW s \in Session, Handle(s)
      PROVE  Typed'
  BY <1>2, DarwinTyped, WindowsTyped, ConnectedTyped DEF Handle
<1>3. CASE UNCHANGED vars
  <2>1. UNCHANGED <<life, hasty, cli, rvpn, wg, jrpc, net>>
    BY <1>3 DEF vars, life
  <2>2. LifeTyped'
    BY <2>1, TypeOKSplit DEF Typed, LifeTyped, life
  <2> QED BY <2>1, <2>2, OtherTyped, TypeOKSplit DEF Typed
<1> QED BY <1>1, <1>2, <1>3, LifeStepTyped, ShutdownTyped, CliTyped, NetworkTyped DEF Next

(* The daemon's fields, its goroutines and the kernel state that it leaves *)
(* to the next process have their types on both platforms; in particular   *)
(* only addresses of servers and of the control plane are ever routed over *)
(* the default interface (wg/daemon_darwin.go, wg/daemon_windows.go).      *)
THEOREM DesktopTypeCorrect == Spec => []TypeOK
<1>1. Init => Typed
  BY InitTyped
<1>2. Typed /\ [Next]_vars => Typed'
  BY NextTyped
<1>3. Typed => TypeOK
  BY DEF Typed
<1> QED BY <1>1, <1>2, <1>3, PTL DEF Spec
=============================================================================
