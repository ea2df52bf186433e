------------------------- MODULE ControlPlaneProofs -------------------------
(***************************************************************************)
(* Theorems about ControlPlane for any number of targets, devices and      *)
(* sessions, any network, with and without faults of the database and      *)
(* crashes of the process.  The last part, from Sequential on, is about    *)
(* what the handlers promise when one session is set up at a time.         *)
(***************************************************************************)
EXTENDS ControlPlane, FiniteSetTheorems, TLAPS

(* A handler's locals are set by the time it uses them. *)
LocalsSet ==
    /\ \A c \in ConnectSession :
        /\ cs[c].pc \notin {"new", "closed"} =>
            cs[c].target \in Target /\ cs[c].device \in Device
        /\ cs[c].pc \in {"lookup", "sync", "nextip", "exists", "insert", "getserver",
                         "append", "connect"} => cs[c].pubkey \in Key
        /\ cs[c].pc \in {"sync", "exists", "insert"} => cs[c].id \in ConnectSession
        /\ cs[c].pc \in {"sync", "exists", "insert", "getserver", "append", "connect"} =>
            cs[c].clientIp \in ClientIp
        /\ cs[c].pc = "append" => cs[c].vpnServerConn \in ServeSession
    /\ \A s \in ServeSession : ss[s].pc \notin {"new", "closed"} => ss[s].target \in Target

Typed == TypeOK /\ LocalsSet

LEMMA InitTyped == Init => Typed
  BY SessionAssumption, BoundAssumption, InitTargetsAssumption
  DEF Init, Typed, TypeOK, LocalsSet, IdleConnect, IdleServe, NoPeers, ConnectHandler,
      ServeHandler, Link, ConnectPc, ServePc, Peers

LEMMA IdleTyped ==
  ASSUME NEW pc
  PROVE  /\ pc \in ConnectPc => IdleConnect(pc) \in ConnectHandler
         /\ pc \in ServePc => IdleServe(pc) \in ServeHandler
  BY DEF IdleConnect, IdleServe, NoPeers, ConnectHandler, ServeHandler, Link, ConnectPc,
         ServePc, Peers

LEMMA DieTyped ==
  ASSUME Typed, Die
  PROVE  Typed'
  BY IdleTyped
  DEF Die, Typed, TypeOK, LocalsSet, db, devices, ConnectPc, ServePc, IdleConnect, IdleServe

(* A step that changes nothing but one clientConnect handler. *)
LEMMA OneConnectTyped ==
  ASSUME Typed, NEW c \in ConnectSession, UNCHANGED <<db, connMan, ss, devices>>,
         NEW h \in ConnectHandler, cs' = [cs EXCEPT ![c] = h],
         h.pc \notin {"new", "closed"} => h.target \in Target /\ h.device \in Device,
         h.pc \in {"lookup", "sync", "nextip", "exists", "insert", "getserver",
                   "append", "connect"} => h.pubkey \in Key,
         h.pc \in {"sync", "exists", "insert"} => h.id \in ConnectSession,
         h.pc \in {"sync", "exists", "insert", "getserver", "append", "connect"} =>
            h.clientIp \in ClientIp,
         h.pc = "append" => h.vpnServerConn \in ServeSession
  PROVE  Typed'
  BY DEF Typed, TypeOK, LocalsSet, db, devices, connMan

(* A clientConnect handler goes on with the locals it has. *)
LEMMA GotoConnectTyped ==
  ASSUME Typed, NEW c \in ConnectSession, UNCHANGED <<db, connMan, ss, devices>>,
         NEW pc \in ConnectPc, GotoConnect(c, pc),
         pc \in {"alive", "info", "nextip", "insert", "getserver", "connect"},
         cs[c].target \in Target, cs[c].device \in Device,
         pc \in {"nextip", "insert", "getserver", "connect"} => cs[c].pubkey \in Key,
         pc = "insert" => cs[c].id \in ConnectSession,
         pc \in {"insert", "getserver", "connect"} => cs[c].clientIp \in ClientIp
  PROVE  Typed'
<1> DEFINE h == [cs[c] EXCEPT !.pc = pc]
<1>1. cs[c] \in ConnectHandler
  BY DEF Typed, TypeOK
<1>2. h \in ConnectHandler /\ h.pc = pc /\ h.target = cs[c].target
      /\ h.device = cs[c].device /\ h.pubkey = cs[c].pubkey /\ h.id = cs[c].id
      /\ h.clientIp = cs[c].clientIp
  BY <1>1 DEF ConnectHandler
<1>3. cs' = [cs EXCEPT ![c] = h]
  BY DEF GotoConnect, Typed, TypeOK
<1> HIDE DEF h
<1> QED BY <1>2, <1>3, OneConnectTyped

(* A step that changes nothing but one clientServe handler. *)
LEMMA OneServeTyped ==
  ASSUME Typed, NEW s \in ServeSession, UNCHANGED <<db, connMan, cs, devices>>,
         NEW h \in ServeHandler, ss' = [ss EXCEPT ![s] = h],
         h.pc \notin {"new", "closed"} => h.target \in Target
  PROVE  Typed'
  BY DEF Typed, TypeOK, LocalsSet, db, devices, connMan

LEMMA GotoServeTyped ==
  ASSUME Typed, NEW s \in ServeSession, UNCHANGED <<db, connMan, cs, devices>>,
         NEW pc \in ServePc, GotoServe(s, pc), ss[s].target \in Target
  PROVE  Typed'
<1> DEFINE h == [ss[s] EXCEPT !.pc = pc]
<1>1. ss[s] \in ServeHandler
  BY DEF Typed, TypeOK
<1>2. h \in ServeHandler /\ h.target = ss[s].target
  BY <1>1 DEF ServeHandler
<1>3. ss' = [ss EXCEPT ![s] = h]
  BY DEF GotoServe, Typed, TypeOK
<1> HIDE DEF h
<1> QED BY <1>2, <1>3, OneServeTyped

LEMMA ReturnConnectTyped ==
  ASSUME Typed, NEW c \in ConnectSession, ReturnConnect(c),
         UNCHANGED <<db, connMan, ss, devices>>
  PROVE  Typed'
  BY IdleTyped, OneConnectTyped DEF ReturnConnect, ConnectPc, IdleConnect

LEMMA ReturnServeTyped ==
  ASSUME Typed, NEW s \in ServeSession, ReturnServe(s),
         UNCHANGED <<db, connMan, cs, devices>>
  PROVE  Typed'
  BY IdleTyped
  DEF ReturnServe, Typed, TypeOK, LocalsSet, db, devices, connMan, ServePc, IdleServe

(* What becomes of the other handlers' Calls when a server is given up. *)
LEMMA ReaderEndsStep ==
  ASSUME Typed, NEW s \in ServeSession, ReaderEnds(s)
  PROVE  /\ cs' \in [ConnectSession -> ConnectHandler]
         /\ \A c \in ConnectSession :
                \/ cs'[c] = cs[c]
                \/ /\ cs[c].pc = "append" /\ cs[c].vpnServerConn = s /\ ss[s].link = "silent"
                   /\ cs'[c].pc = "hung" /\ cs'[c].link = cs[c].link
                   /\ cs'[c].target = cs[c].target /\ cs'[c].device = cs[c].device
<1>1. PICK hung \in IF ss[s].link = "silent" THEN SUBSET Awaiting(s) ELSE {{}} :
        cs' = [c \in ConnectSession |->
                IF c \in hung THEN [cs[c] EXCEPT !.pc = "hung"] ELSE cs[c]]
  BY DEF ReaderEnds
<1>2. \A c \in hung : cs[c].pc = "append" /\ cs[c].vpnServerConn = s /\ ss[s].link = "silent"
  BY <1>1 DEF Awaiting
<1>3. ASSUME NEW c \in ConnectSession, NEW h, h = [cs[c] EXCEPT !.pc = "hung"]
      PROVE  /\ h \in ConnectHandler /\ h.pc = "hung" /\ h.link = cs[c].link
             /\ h.target = cs[c].target /\ h.device = cs[c].device
  <2>1. cs[c] \in ConnectHandler
    BY DEF Typed, TypeOK
  <2>2. "hung" \in ConnectPc
    BY DEF ConnectPc
  <2> QED BY <1>3, <2>1, <2>2 DEF ConnectHandler
<1>4. \A c \in ConnectSession : cs[c] \in ConnectHandler
  BY DEF Typed, TypeOK
<1>5. ASSUME NEW c \in ConnectSession
      PROVE  /\ cs'[c] \in ConnectHandler
             /\ \/ cs'[c] = cs[c]
                \/ /\ cs[c].pc = "append" /\ cs[c].vpnServerConn = s /\ ss[s].link = "silent"
                   /\ cs'[c].pc = "hung" /\ cs'[c].link = cs[c].link
                   /\ cs'[c].target = cs[c].target /\ cs'[c].device = cs[c].device
  <2>1. CASE c \in hung
    <3>1. cs'[c] = [cs[c] EXCEPT !.pc = "hung"]
      BY <1>1, <2>1
    <3> QED BY <1>2, <1>3, <2>1, <3>1
  <2>2. CASE c \notin hung
    BY <1>1, <1>4, <2>2
  <2> QED BY <2>1, <2>2
<1>6. DOMAIN cs' = ConnectSession /\ cs' = [c \in ConnectSession |-> cs'[c]]
  BY <1>1
<1> QED BY <1>5, <1>6

LEMMA ServeStaleTyped ==
  ASSUME Typed, NEW s \in ServeSession, ServeStale(s)
  PROVE  Typed'
<1>1. /\ cs' \in [ConnectSession -> ConnectHandler]
      /\ \A c \in ConnectSession :
            \/ cs'[c] = cs[c]
            \/ /\ cs[c].pc = "append" /\ cs'[c].pc = "hung"
               /\ cs'[c].target = cs[c].target /\ cs'[c].device = cs[c].device
  BY ReaderEndsStep DEF ServeStale
<1>2. ss' = [ss EXCEPT ![s] = IdleServe("closed")] /\ UNCHANGED <<db, connMan, devices>>
  BY DEF ServeStale, ReturnServe
<1>3. IdleServe("closed") \in ServeHandler /\ IdleServe("closed").pc = "closed"
  BY IdleTyped DEF ServePc, IdleServe
<1>4. ss' \in [ServeSession -> ServeHandler]
      /\ \A z \in ServeSession : ss'[z].pc \notin {"new", "closed"} => ss'[z].target \in Target
  BY <1>2, <1>3 DEF Typed, TypeOK, LocalsSet
<1>5. LocalsSet'
  BY <1>1, <1>4 DEF Typed, LocalsSet
<1> QED BY <1>1, <1>2, <1>4, <1>5 DEF Typed, TypeOK, db, connMan, devices

(* The row that a handler writes. *)
LEMMA RowTyped ==
  ASSUME Typed, NEW c \in ConnectSession, cs[c].pc \in {"sync", "insert"}
  PROVE  [target |-> cs[c].target, deviceId |-> cs[c].device,
          pubkey |-> cs[c].pubkey, clientIp |-> cs[c].clientIp] \in Row
  BY DEF Typed, LocalsSet, Row

LEMMA ConnectStepTyped ==
  ASSUME Typed, NEW c \in ConnectSession, ConnectStep(c)
  PROVE  Typed'
<1>1. CASE ConnectCallFails(c)
  BY <1>1, ReturnConnectTyped DEF ConnectCallFails
<1>2. CASE ConnectDbFails(c)
  BY <1>2, ReturnConnectTyped DEF ConnectDbFails
<1>3. CASE ConnectAuth(c)
  <2> DEFINE row == targets[cs[c].target]
             key == IF row = Nil THEN Nil ELSE row.serverPubkey
             h == [cs[c] EXCEPT !.pc = "alive", !.serverPubkey = key]
  <2>1. cs[c] \in ConnectHandler /\ cs[c].target \in Target /\ cs[c].device \in Device
    BY <1>3 DEF ConnectAuth, Typed, TypeOK, LocalsSet
  <2>2. key \in ServeSession \cup {Nil}
    BY <2>1 DEF Typed, TypeOK
  <2>3. CASE cs' = [cs EXCEPT ![c].pc = "alive", ![c].serverPubkey = key]
    <3>1. cs' = [cs EXCEPT ![c] = h] /\ UNCHANGED <<db, connMan, ss, devices>>
      BY <1>3, <2>3 DEF ConnectAuth, Typed, TypeOK
    <3> HIDE DEF key
    <3>2. h \in ConnectHandler /\ h.pc = "alive" /\ h.target = cs[c].target
          /\ h.device = cs[c].device
      BY <2>1, <2>2 DEF ConnectHandler, ConnectPc
    <3> HIDE DEF h
    <3> QED BY <2>1, <3>1, <3>2, OneConnectTyped
  <2> QED BY <1>3, <2>3, ReturnConnectTyped DEF ConnectAuth
<1>4. CASE ConnectAlive(c)
  <2>1. cs[c].target \in Target /\ cs[c].device \in Device
    BY <1>4 DEF ConnectAlive, Typed, LocalsSet
  <2> QED BY <1>4, <2>1, ReturnConnectTyped, GotoConnectTyped DEF ConnectAlive, ConnectPc
<1>5. CASE ConnectInfo(c)
  <2> DEFINE k == <<cs[c].device, deviceKey[cs[c].device]>>
             h == [cs[c] EXCEPT !.pc = "lookup", !.pubkey = k]
  <2>1. k \in Key /\ cs[c].target \in Target /\ cs[c].device \in Device
    BY <1>5 DEF ConnectInfo, Typed, TypeOK, LocalsSet, Key
  <2>2. cs[c] \in ConnectHandler
    BY DEF Typed, TypeOK
  <2>3. h \in ConnectHandler /\ h.pc = "lookup" /\ h.pubkey = k
        /\ h.target = cs[c].target /\ h.device = cs[c].device
    BY <2>1, <2>2 DEF ConnectHandler, ConnectPc
  <2>4. cs' = [cs EXCEPT ![c] = h] /\ UNCHANGED <<db, connMan, ss, devices>>
    BY <1>5, <2>2 DEF ConnectInfo, Typed, TypeOK
  <2> HIDE DEF h, k
  <2> QED BY <2>1, <2>3, <2>4, OneConnectTyped
<1>6. CASE ConnectLookup(c)
  <2>1. CASE GotoConnect(c, "nextip") /\ UNCHANGED <<db, connMan, ss, devices>> /\ cs[c].pc = "lookup"
    <3>1. cs[c].target \in Target /\ cs[c].device \in Device /\ cs[c].pubkey \in Key
      BY <2>1 DEF Typed, LocalsSet
    <3> QED BY <2>1, <3>1, GotoConnectTyped DEF ConnectPc
  <2>2. ASSUME NEW id \in GetConnection(connections, cs[c].target, cs[c].device),
               cs[c].pc = "lookup", UNCHANGED <<db, connMan, ss, devices>>,
               cs' = [cs EXCEPT ![c].pc = IF connections[id].pubkey = cs[c].pubkey
                                          THEN "connect" ELSE "sync",
                                ![c].id = id,
                                ![c].clientIp = connections[id].clientIp]
        PROVE  Typed'
    <3>1. id \in ConnectSession /\ connections[id] \in Row
      BY <2>2 DEF Typed, TypeOK, GetConnection, GetConnectionsByTarget
    <3>2. connections[id].clientIp \in ClientIp
      BY <3>1 DEF Row
    <3> DEFINE pc == IF connections[id].pubkey = cs[c].pubkey THEN "connect" ELSE "sync"
               h == [cs[c] EXCEPT !.pc = pc, !.id = id, !.clientIp = connections[id].clientIp]
    <3>3. cs[c] \in ConnectHandler /\ cs[c].target \in Target /\ cs[c].device \in Device
          /\ cs[c].pubkey \in Key
      BY <2>2 DEF Typed, TypeOK, LocalsSet
    <3>4. pc \in {"connect", "sync"}
      OBVIOUS
    <3>5. cs' = [cs EXCEPT ![c] = h]
      BY <2>2 DEF Typed, TypeOK
    <3> HIDE DEF pc
    <3>6. h \in ConnectHandler /\ h.pc = pc /\ h.pubkey = cs[c].pubkey
          /\ h.target = cs[c].target /\ h.device = cs[c].device
          /\ h.id = id /\ h.clientIp = connections[id].clientIp
      BY <3>1, <3>2, <3>3, <3>4 DEF ConnectHandler, ConnectPc
    <3> HIDE DEF h
    <3> QED BY <2>2, <3>1, <3>2, <3>3, <3>4, <3>5, <3>6, OneConnectTyped
  <2> QED BY <1>6, <2>1, <2>2 DEF ConnectLookup
<1>7. CASE ConnectSync(c)
  <2>1. connections' \in [ConnectSession -> Row \cup {Nil}]
    BY <1>7, RowTyped DEF ConnectSync, UpdateConnection, Typed, TypeOK
  <2>2. CASE ReturnConnect(c)
    BY <1>7, <2>1, <2>2, IdleTyped
    DEF ConnectSync, ReturnConnect, Typed, TypeOK, LocalsSet, devices, connMan, ConnectPc,
        IdleConnect
  <2>3. CASE GotoConnect(c, "getserver")
    <3>1. cs' \in [ConnectSession -> ConnectHandler]
      BY <2>3 DEF GotoConnect, Typed, TypeOK, ConnectPc, ConnectHandler
    <3>2. LocalsSet'
      BY <1>7, <2>3 DEF ConnectSync, GotoConnect, Typed, TypeOK, LocalsSet, ConnectHandler
    <3> QED BY <1>7, <2>1, <3>1, <3>2 DEF ConnectSync, Typed, TypeOK, devices, connMan
  <2> QED BY <1>7, <2>2, <2>3 DEF ConnectSync
<1>8. CASE ConnectNextIp(c)
  <2>1. cs[c] \in ConnectHandler /\ cs[c].target \in Target /\ cs[c].device \in Device
        /\ cs[c].pubkey \in Key
    BY <1>8 DEF ConnectNextIp, Typed, TypeOK, LocalsSet
  <2>2. ASSUME NEW ip \in ClientIp, UNCHANGED <<db, connMan, ss, devices>>,
               cs' = [cs EXCEPT ![c].pc = "exists", ![c].id = c, ![c].clientIp = ip]
        PROVE  Typed'
    <3> DEFINE h == [cs[c] EXCEPT !.pc = "exists", !.id = c, !.clientIp = ip]
    <3>1. cs' = [cs EXCEPT ![c] = h]
      BY <2>2 DEF Typed, TypeOK
    <3>2. h \in ConnectHandler /\ h.pc = "exists" /\ h.target = cs[c].target
          /\ h.device = cs[c].device /\ h.pubkey = cs[c].pubkey /\ h.id = c
          /\ h.clientIp = ip
      BY <2>1 DEF ConnectHandler, ConnectPc
    <3> HIDE DEF h
    <3> QED BY <2>1, <2>2, <3>1, <3>2, OneConnectTyped
  <2>3. \A used : NextClientIp(used) \subseteq ClientIp
    BY DEF NextClientIp
  <2> QED BY <1>8, <2>2, <2>3, ReturnConnectTyped DEF ConnectNextIp
<1>9. CASE ConnectExists(c)
  <2>1. cs[c].target \in Target /\ cs[c].device \in Device /\ cs[c].pubkey \in Key
        /\ cs[c].id \in ConnectSession /\ cs[c].clientIp \in ClientIp
    BY <1>9 DEF ConnectExists, Typed, LocalsSet
  <2> QED BY <1>9, <2>1, GotoConnectTyped DEF ConnectExists, ConnectPc
<1>10. CASE ConnectInsert(c)
  <2>1. connections' \in [ConnectSession -> Row \cup {Nil}]
    BY <1>10, RowTyped DEF ConnectInsert, CreateConnection, Typed, TypeOK
  <2>2. CASE ReturnConnect(c)
    BY <1>10, <2>1, <2>2, IdleTyped
    DEF ConnectInsert, ReturnConnect, Typed, TypeOK, LocalsSet, devices, connMan, ConnectPc,
        IdleConnect
  <2>3. CASE GotoConnect(c, "getserver")
    <3>1. cs' \in [ConnectSession -> ConnectHandler]
      BY <2>3 DEF GotoConnect, Typed, TypeOK, ConnectPc, ConnectHandler
    <3>2. LocalsSet'
      BY <1>10, <2>3 DEF ConnectInsert, GotoConnect, Typed, TypeOK, LocalsSet, ConnectHandler
    <3> QED BY <1>10, <2>1, <3>1, <3>2 DEF ConnectInsert, Typed, TypeOK, devices, connMan
  <2> QED BY <1>10, <2>2, <2>3 DEF ConnectInsert
<1>11. CASE ConnectGetServer(c)
  <2> DEFINE conn == vpnServerConnections[cs[c].target]
             h == [cs[c] EXCEPT !.pc = "append", !.vpnServerConn = conn]
  <2>1. cs[c] \in ConnectHandler /\ cs[c].target \in Target /\ cs[c].device \in Device
        /\ cs[c].pubkey \in Key /\ cs[c].clientIp \in ClientIp
    BY <1>11 DEF ConnectGetServer, Typed, TypeOK, LocalsSet
  <2>2. conn \in ServeSession \cup {Nil}
    BY <2>1 DEF Typed, TypeOK
  <2>3. CASE /\ conn # Nil /\ UNCHANGED <<db, connMan, ss, devices>>
             /\ cs' = [cs EXCEPT ![c].pc = "append", ![c].vpnServerConn = conn]
    <3>1. cs' = [cs EXCEPT ![c] = h]
      BY <2>3 DEF Typed, TypeOK
    <3>2. UNCHANGED <<db, connMan, ss, devices>> /\ conn \in ServeSession
      BY <2>2, <2>3
    <3> HIDE DEF conn
    <3>3. h \in ConnectHandler /\ h.pc = "append" /\ h.target = cs[c].target
          /\ h.device = cs[c].device /\ h.pubkey = cs[c].pubkey
          /\ h.clientIp = cs[c].clientIp /\ h.vpnServerConn = conn
      BY <2>1, <3>2 DEF ConnectHandler, ConnectPc
    <3> HIDE DEF h
    <3> QED BY <2>1, <3>1, <3>2, <3>3, OneConnectTyped
  <2> QED BY <1>11, <2>3, DieTyped DEF ConnectGetServer
<1>12. CASE ConnectAppend(c)
  <2>1. wgPeers' \in [ServeSession -> Peers]
    <3> DEFINE conn == cs[c].vpnServerConn
               p == AppendPeer(wgPeers[conn], cs[c].clientIp, cs[c].pubkey)
    <3>1. conn \in ServeSession /\ cs[c].clientIp \in ClientIp /\ cs[c].pubkey \in Key
      BY <1>12 DEF ConnectAppend, Typed, LocalsSet
    <3>2. p \in Peers
      BY <3>1 DEF AppendPeer, Typed, TypeOK, Peers
    <3>3. wgPeers' = wgPeers \/ wgPeers' = [wgPeers EXCEPT ![conn] = p]
      BY <1>12 DEF ConnectAppend
    <3> HIDE DEF conn, p
    <3> QED BY <3>1, <3>2, <3>3 DEF Typed, TypeOK
  <2>2. cs[c] \in ConnectHandler
    BY DEF Typed, TypeOK
  <2> DEFINE h == [cs[c] EXCEPT !.pc = "connect"]
  <2>3. h \in ConnectHandler /\ h.pc = "connect" /\ h.target = cs[c].target
        /\ h.device = cs[c].device /\ h.pubkey = cs[c].pubkey /\ h.clientIp = cs[c].clientIp
    BY <2>2 DEF ConnectHandler, ConnectPc
  <2>4. cs' = [cs EXCEPT ![c] = h]
    BY <1>12 DEF ConnectAppend, GotoConnect, Typed, TypeOK
  <2> HIDE DEF h
  <2>5. cs' \in [ConnectSession -> ConnectHandler]
    BY <2>3, <2>4 DEF Typed, TypeOK
  <2>6. LocalsSet'
    BY <1>12, <2>3, <2>4 DEF ConnectAppend, Typed, TypeOK, LocalsSet
  <2> QED
    BY <1>12, <2>1, <2>5, <2>6 DEF ConnectAppend, Typed, TypeOK, db, connMan
<1>13. CASE ConnectServer(c)
  <2>1. clientConf' \in [Device -> [target : Target, server : ServeSession \cup {Nil},
                                    clientIp : ClientIp, pubkey : Key] \cup {Nil}]
    BY <1>13 DEF ConnectServer, Typed, TypeOK, LocalsSet, ConnectHandler, Key
  <2>2. vpnClientConnections' \in [Target -> SUBSET ConnectSession]
    BY <1>13 DEF ConnectServer, Typed, TypeOK, LocalsSet
  <2>3. cs' \in [ConnectSession -> ConnectHandler]
    BY <1>13
    DEF ConnectServer, Typed, TypeOK, LocalsSet, ConnectHandler, ConnectPc, IdleConnect
  <2> QED
    BY <1>13, <2>1, <2>2, <2>3
    DEF ConnectServer, Typed, TypeOK, LocalsSet, db, devices, connMan, IdleConnect
<1>14. CASE ConnectStale(c)
  BY <1>14, ReturnConnectTyped DEF ConnectStale
<1> QED
  BY <1>1, <1>2, <1>3, <1>4, <1>5, <1>6, <1>7, <1>8, <1>9, <1>10, <1>11, <1>12, <1>13,
     <1>14 DEF ConnectStep

LEMMA PeersTyped ==
  ASSUME NEW rows, \A id \in rows : connections[id] \in Row
  PROVE  PeersOf(rows) \in Peers
<1> SUFFICES ASSUME NEW ip \in ClientIp
             PROVE  PeersOf(rows)[ip] \in Key \cup {Nil}
  BY DEF PeersOf, Peers
<1>1. CASE \E id \in rows : connections[id].clientIp = ip
  <2> DEFINE id == CHOOSE i \in rows : connections[i].clientIp = ip
  <2>1. id \in rows
    BY <1>1
  <2>2. connections[id].pubkey \in Key
    BY <2>1 DEF Row
  <2> QED BY <1>1, <2>2 DEF PeersOf
<1> QED BY <1>1 DEF PeersOf

LEMMA ServeStepTyped ==
  ASSUME Typed, NEW s \in ServeSession, ServeStep(s)
  PROVE  Typed'
<1>1. CASE ServeCallFails(s)
  BY <1>1, ReturnServeTyped DEF ServeCallFails
<1>2. CASE ServeAuth(s)
  <2> DEFINE f == targets[ss[s].target] # Nil
             h == [ss[s] EXCEPT !.pc = "info", !.found = f]
  <2>1. ss[s] \in ServeHandler /\ ss[s].target \in Target
    BY <1>2 DEF ServeAuth, Typed, TypeOK, LocalsSet
  <2>2. CASE ss' = [ss EXCEPT ![s].pc = "info", ![s].found = f]
    <3>1. ss' = [ss EXCEPT ![s] = h] /\ UNCHANGED <<db, connMan, cs, devices>>
      BY <1>2, <2>2 DEF ServeAuth, Typed, TypeOK
    <3>2. f \in BOOLEAN
      OBVIOUS
    <3> HIDE DEF f
    <3>3. h \in ServeHandler /\ h.target = ss[s].target
      BY <2>1, <3>2 DEF ServeHandler, ServePc
    <3> HIDE DEF h
    <3> QED BY <2>1, <3>1, <3>3, OneServeTyped
  <2> QED BY <1>2, <2>2, ReturnServeTyped DEF ServeAuth
<1>3. CASE ServeInfo(s)
  <2>1. CASE GotoServe(s, "update") /\ UNCHANGED <<db, connMan, cs, devices>>
    <3>1. ss[s].target \in Target
      BY <1>3 DEF ServeInfo, Typed, LocalsSet
    <3> QED BY <2>1, <3>1, GotoServeTyped DEF ServePc
  <2> QED BY <1>3, <2>1, DieTyped DEF ServeInfo
<1>4. CASE ServeUpdate(s)
  <2>1. targets' \in [Target -> [serverPubkey : ServeSession \cup {Nil}] \cup {Nil}]
    BY <1>4 DEF ServeUpdate, UpdateTarget, Typed, TypeOK, LocalsSet
  <2> QED
    BY <1>4, <2>1
    DEF ServeUpdate, GotoServe, Typed, TypeOK, LocalsSet, devices, connMan, ServePc,
        ServeHandler
<1>5. CASE ServePeers(s)
  <2>1. PICK rows \in ReadRows(GetConnectionsByTarget(connections, ss[s].target), FaultyDb) :
            ss' = [ss EXCEPT ![s].pc = "serve", ![s].peers = PeersOf(rows)]
    BY <1>5 DEF ServePeers
  <2> DEFINE p == PeersOf(rows)
             h == [ss[s] EXCEPT !.pc = "serve", !.peers = p]
  <2>2. \A id \in rows : connections[id] \in Row
    BY DEF ReadRows, GetConnectionsByTarget, Typed, TypeOK
  <2>3. p \in Peers
    BY <2>2, PeersTyped
  <2>4. ss' = [ss EXCEPT ![s] = h] /\ UNCHANGED <<db, connMan, cs, devices>>
    BY <1>5, <2>1 DEF ServePeers, Typed, TypeOK
  <2>5. ss[s] \in ServeHandler /\ ss[s].target \in Target
    BY <1>5 DEF ServePeers, Typed, TypeOK, LocalsSet
  <2> HIDE DEF p
  <2>6. h \in ServeHandler /\ h.target = ss[s].target
    BY <2>3, <2>5 DEF ServeHandler, ServePc
  <2> HIDE DEF h
  <2> QED BY <2>4, <2>5, <2>6, OneServeTyped
<1>6. CASE ServeVpn(s)
  <2> DEFINE h == [ss[s] EXCEPT !.pc = "register"]
  <2>1. ss[s] \in ServeHandler /\ ss[s].target \in Target
    BY <1>6 DEF ServeVpn, Typed, TypeOK, LocalsSet
  <2>2. h \in ServeHandler /\ h.target = ss[s].target
    BY <2>1 DEF ServeHandler, ServePc
  <2>3. ss' = [ss EXCEPT ![s] = h]
    BY <1>6 DEF ServeVpn, GotoServe, Typed, TypeOK
  <2>4. wgPeers' \in [ServeSession -> Peers]
    BY <1>6, <2>1 DEF ServeVpn, ServeHandler, Typed, TypeOK
  <2> HIDE DEF h
  <2>5. ss' \in [ServeSession -> ServeHandler] /\ LocalsSet'
    BY <1>6, <2>1, <2>2, <2>3 DEF ServeVpn, Typed, TypeOK, LocalsSet
  <2> QED
    BY <1>6, <2>4, <2>5 DEF ServeVpn, Typed, TypeOK, db, connMan
<1>7. CASE ServeRegister(s)
  <2>1. NoPeers \in Peers
    BY DEF NoPeers, Peers
  <2> DEFINE h == [ss[s] EXCEPT !.pc = "blocked", !.peers = NoPeers]
  <2>2. h \in ServeHandler
    BY <2>1 DEF Typed, TypeOK, ServePc, ServeHandler
  <2>3. ss' = [ss EXCEPT ![s] = h]
    BY <1>7 DEF ServeRegister, Typed, TypeOK
  <2> HIDE DEF h
  <2>4. ss' \in [ServeSession -> ServeHandler]
    BY <2>2, <2>3 DEF Typed, TypeOK
  <2>5. vpnServerConnections' \in [Target -> ServeSession \cup {Nil}]
    BY <1>7 DEF ServeRegister, Typed, TypeOK
  <2>6. \A z \in ServeSession : ss'[z].pc \notin {"new", "closed"} => ss'[z].target \in Target
    BY <1>7 DEF ServeRegister, Typed, TypeOK, LocalsSet
  <2> QED
    BY <1>7, <2>4, <2>5, <2>6 DEF ServeRegister, Typed, TypeOK, LocalsSet, db, devices
<1>8. CASE ServeStale(s)
  BY <1>8, ServeStaleTyped
<1> QED
  BY <1>1, <1>2, <1>3, <1>4, <1>5, <1>6, <1>7, <1>8 DEF ServeStep

LEMMA NextTyped ==
  ASSUME Typed, [Next]_vars
  PROVE  Typed'
<1>1. ASSUME NEW c \in ConnectSession, NEW d \in Device, NEW t \in Target,
             OpenConnect(c, d, t)
      PROVE  Typed'
  <2> DEFINE h == [IdleConnect("auth") EXCEPT !.link = "up", !.device = d, !.target = t]
  <2>1. h \in ConnectHandler /\ h.pc = "auth" /\ h.target = t /\ h.device = d
    BY DEF IdleConnect, ConnectHandler, ConnectPc, Link
  <2>2. cs' = [cs EXCEPT ![c] = h] /\ UNCHANGED <<db, connMan, ss, devices>>
    BY <1>1 DEF OpenConnect
  <2> HIDE DEF h
  <2> QED BY <2>1, <2>2, OneConnectTyped
<1>2. ASSUME NEW c \in ConnectSession, DropConnect(c)
      PROVE  Typed'
  BY <1>2
  DEF DropConnect, Worse, Typed, TypeOK, LocalsSet, db, devices, connMan, ConnectHandler, Link
<1>3. ASSUME NEW s \in ServeSession, NEW t \in Target, OpenServe(s, t)
      PROVE  Typed'
  <2> DEFINE h == [IdleServe("auth") EXCEPT !.link = "up", !.target = t]
  <2>1. h \in ServeHandler /\ h.target = t
    BY DEF IdleServe, ServeHandler, ServePc, Link, NoPeers, Peers
  <2>2. ss' = [ss EXCEPT ![s] = h] /\ UNCHANGED <<db, connMan, cs, devices>>
    BY <1>3 DEF OpenServe
  <2> HIDE DEF h
  <2> QED BY <2>1, <2>2, OneServeTyped
<1>4. ASSUME NEW s \in ServeSession, DropServe(s)
      PROVE  Typed'
  BY <1>4
  DEF DropServe, Worse, Typed, TypeOK, LocalsSet, db, devices, connMan, ServeHandler, Link
<1>5. ASSUME NEW t \in Target, CreateVpnTarget(t)
      PROVE  Typed'
  BY <1>5 DEF CreateVpnTarget, CreateTarget, Typed, TypeOK, LocalsSet, devices, connMan
<1>6. ASSUME NEW d \in Device, DisconnectDevice(d)
      PROVE  Typed'
  BY <1>6
  DEF DisconnectDevice, Typed, TypeOK, LocalsSet, db, connMan, ConnectHandler, Link
<1>7. ASSUME NEW d \in Device, RotateKey(d)
      PROVE  Typed'
  BY <1>7, BoundAssumption DEF RotateKey, Typed, TypeOK, LocalsSet, db, connMan
<1>8. CASE Crash
  BY <1>8, DieTyped DEF Crash
<1>9. CASE UNCHANGED vars
  BY <1>9 DEF vars, Typed, TypeOK, LocalsSet
<1> QED
  BY <1>1, <1>2, <1>3, <1>4, <1>5, <1>6, <1>7, <1>8, <1>9, ConnectStepTyped, ServeStepTyped
  DEF Next

(* Every variable of the control plane keeps its type, and no handler      *)
(* uses a local before it has set it.                                      *)
THEOREM TypeCorrect == Spec => []TypeOK
<1>1. Typed /\ [Next]_vars => Typed'
  BY NextTyped
<1>2. Typed => TypeOK
  BY DEF Typed
<1> QED BY <1>1, <1>2, InitTyped, PTL DEF Spec

-----------------------------------------------------------------------------
(* The rows of the connections table.                                      *)

(* A step that leaves the table alone, and whose handlers in the middle of *)
(* choosing an address or writing a row were there before it.              *)
LEMMA QuietStep ==
  ASSUME AddressInv, connections' = connections,
         \A c \in ConnectSession : cs'[c].pc \in {"sync", "exists", "insert"} =>
            /\ cs'[c].pc = cs[c].pc /\ cs'[c].target = cs[c].target
            /\ cs'[c].device = cs[c].device /\ cs'[c].id = cs[c].id
            /\ cs'[c].clientIp = cs[c].clientIp
  PROVE  AddressInv'
<1>1. OneConnectionPerDevice'
  BY DEF AddressInv, OneConnectionPerDevice
<1>2. NoGapBelow'
  BY DEF AddressInv, NoGapBelow, GetTargetClientIps, GetConnectionsByTarget
<1>3. InsertConflicts'
  BY DEF AddressInv, InsertConflicts, GetConnection, GetTargetClientIps, GetConnectionsByTarget
<1>4. SyncsSameRow'
  BY DEF AddressInv, SyncsSameRow
<1> QED BY <1>1, <1>2, <1>3, <1>4 DEF AddressInv

(* Rows are never deleted, and keep their target, device and address. *)
RowsKept(old, new) ==
    \A id \in ConnectSession : old[id] # Nil =>
        /\ new[id] # Nil
        /\ new[id].target = old[id].target
        /\ new[id].deviceId = old[id].deviceId
        /\ new[id].clientIp = old[id].clientIp

LEMMA UsedGrows ==
  ASSUME NEW old, NEW new, DOMAIN old = ConnectSession, DOMAIN new = ConnectSession,
         RowsKept(old, new), NEW t
  PROVE  GetTargetClientIps(old, t) \subseteq GetTargetClientIps(new, t)
<1> SUFFICES ASSUME NEW ip \in GetTargetClientIps(old, t)
             PROVE  ip \in GetTargetClientIps(new, t)
  OBVIOUS
<1>1. PICK id \in GetConnectionsByTarget(old, t) : old[id].clientIp = ip
  BY DEF GetTargetClientIps
<1>2. id \in GetConnectionsByTarget(new, t) /\ new[id].clientIp = ip
  BY <1>1 DEF GetConnectionsByTarget, RowsKept
<1> QED BY <1>2 DEF GetTargetClientIps

(* syncConnectionPubkey writes nothing but the key. *)
LEMMA SyncRows ==
  ASSUME Typed, AddressInv, NEW c \in ConnectSession, ConnectSync(c)
  PROVE  /\ RowsKept(connections, connections')
         /\ \A id \in ConnectSession : connections'[id] # Nil => connections[id] # Nil
<1>1. cs[c].id \in ConnectSession /\ connections[cs[c].id] # Nil
  BY DEF ConnectSync, Typed, LocalsSet, AddressInv, SyncsSameRow
<1> DEFINE row == [target |-> cs[c].target, deviceId |-> cs[c].device,
                   pubkey |-> cs[c].pubkey, clientIp |-> cs[c].clientIp]
<1>2. row # Nil
  BY RowTyped, NilRowAssumption DEF ConnectSync
<1>3. connections' = [connections EXCEPT ![cs[c].id] = row]
  BY <1>1 DEF ConnectSync, UpdateConnection
<1>4. /\ row.target = connections[cs[c].id].target
      /\ row.deviceId = connections[cs[c].id].deviceId
      /\ row.clientIp = connections[cs[c].id].clientIp
  BY DEF ConnectSync, AddressInv, SyncsSameRow
<1>5. DOMAIN connections = ConnectSession
  BY DEF Typed, TypeOK
<1> HIDE DEF row
<1> QED
  BY <1>1, <1>2, <1>3, <1>4, <1>5 DEF RowsKept

LEMMA SyncStep ==
  ASSUME Typed, AddressInv, NEW c \in ConnectSession, ConnectSync(c)
  PROVE  AddressInv'
<1>1. RowsKept(connections, connections')
      /\ \A id \in ConnectSession : connections'[id] # Nil => connections[id] # Nil
  BY SyncRows
<1>2. DOMAIN connections = ConnectSession /\ DOMAIN connections' = ConnectSession
  BY DEF ConnectSync, UpdateConnection, Typed, TypeOK
<1>3. \A t : GetTargetClientIps(connections, t) \subseteq GetTargetClientIps(connections', t)
  BY <1>1, <1>2, UsedGrows
<1>4. \A d \in ConnectSession : cs'[d].pc \in {"sync", "exists", "insert"} => cs'[d] = cs[d]
  <2>1. CASE GotoConnect(c, "getserver")
    BY <2>1 DEF GotoConnect, Typed, TypeOK, ConnectHandler
  <2>2. CASE ReturnConnect(c)
    BY <2>2 DEF ReturnConnect, IdleConnect, Typed, TypeOK
  <2> QED BY <2>1, <2>2 DEF ConnectSync
<1>5. OneConnectionPerDevice'
  BY <1>1 DEF AddressInv, OneConnectionPerDevice, RowsKept
<1>6. NoGapBelow'
  BY <1>3, <1>4 DEF AddressInv, NoGapBelow
<1>7. \A t, d : GetConnection(connections', t, d) = GetConnection(connections, t, d)
  BY <1>1, <1>2 DEF GetConnection, GetConnectionsByTarget, RowsKept
<1>8. InsertConflicts'
  BY <1>3, <1>4, <1>7 DEF AddressInv, InsertConflicts
<1>9. SyncsSameRow'
  BY <1>1, <1>4 DEF AddressInv, SyncsSameRow, RowsKept, Typed, LocalsSet
<1> QED BY <1>5, <1>6, <1>8, <1>9 DEF AddressInv

(* The INSERT of createConnection: either it runs into a constraint, or it *)
(* adds a row for a device that had none, with the lowest free address.    *)
LEMMA InsertRows ==
  ASSUME Typed, AddressInv, NEW c \in ConnectSession, ConnectInsert(c)
  PROVE  \/ connections' = connections
         \/ /\ cs[c].id \in ConnectSession /\ connections[cs[c].id] = Nil
            /\ connections' = [connections EXCEPT ![cs[c].id] =
                    [target |-> cs[c].target, deviceId |-> cs[c].device,
                     pubkey |-> cs[c].pubkey, clientIp |-> cs[c].clientIp]]
            /\ cs[c].clientIp \notin GetTargetClientIps(connections, cs[c].target)
            /\ GetConnection(connections, cs[c].target, cs[c].device) = {}
            /\ \A lower \in ClientIp : lower < cs[c].clientIp =>
                    lower \in GetTargetClientIps(connections, cs[c].target)
<1>1. cs[c].id \in ConnectSession /\ cs[c].pc = "insert"
  BY DEF ConnectInsert, Typed, LocalsSet
<1>2. CASE connections' # connections
  <2>1. /\ connections[cs[c].id] = Nil
        /\ connections' = [connections EXCEPT ![cs[c].id] =
                [target |-> cs[c].target, deviceId |-> cs[c].device,
                 pubkey |-> cs[c].pubkey, clientIp |-> cs[c].clientIp]]
        /\ cs[c].clientIp \notin GetTargetClientIps(connections, cs[c].target)
    BY <1>2 DEF ConnectInsert, CreateConnection
  <2>2. GetConnection(connections, cs[c].target, cs[c].device) = {}
    BY <1>1, <2>1 DEF AddressInv, InsertConflicts
  <2>3. \A lower \in ClientIp : lower < cs[c].clientIp =>
            lower \in GetTargetClientIps(connections, cs[c].target)
    BY <1>1 DEF AddressInv, NoGapBelow
  <2> QED BY <1>1, <2>1, <2>2, <2>3
<1> QED BY <1>2

LEMMA ClientIpIsInt == ClientIp \subseteq Int
  BY NetworkAssumption DEF ClientIp

LEMMA InsertStep ==
  ASSUME Typed, AddressInv, NEW c \in ConnectSession, ConnectInsert(c)
  PROVE  AddressInv'
<1>1. \A d \in ConnectSession : cs'[d].pc \in {"sync", "exists", "insert"} => cs'[d] = cs[d]
  <2>1. CASE GotoConnect(c, "getserver")
    BY <2>1 DEF GotoConnect, Typed, TypeOK, ConnectHandler
  <2>2. CASE ReturnConnect(c)
    BY <2>2 DEF ReturnConnect, IdleConnect, Typed, TypeOK
  <2> QED BY <2>1, <2>2 DEF ConnectInsert
<1>2. CASE connections' = connections
  BY <1>1, <1>2, QuietStep
<1>3. CASE connections' # connections
  <2> DEFINE t == cs[c].target
             ip == cs[c].clientIp
             row == [target |-> t, deviceId |-> cs[c].device,
                     pubkey |-> cs[c].pubkey, clientIp |-> ip]
  <2>1. /\ cs[c].id \in ConnectSession /\ connections[cs[c].id] = Nil
        /\ connections' = [connections EXCEPT ![cs[c].id] = row]
        /\ ip \notin GetTargetClientIps(connections, t)
        /\ GetConnection(connections, t, cs[c].device) = {}
        /\ \A lower \in ClientIp : lower < ip => lower \in GetTargetClientIps(connections, t)
    BY <1>3, InsertRows
  <2>2. row # Nil /\ ip \in ClientIp
    BY RowTyped, NilRowAssumption DEF ConnectInsert, Typed, LocalsSet
  <2>3. RowsKept(connections, connections')
    BY <2>1, <2>2 DEF RowsKept, Typed, TypeOK
  <2>4. DOMAIN connections = ConnectSession /\ DOMAIN connections' = ConnectSession
    BY <2>1 DEF Typed, TypeOK
  <2>5. \A u : GetTargetClientIps(connections, u) \subseteq GetTargetClientIps(connections', u)
    BY <2>3, <2>4, UsedGrows
  <2>6. ip \in GetTargetClientIps(connections', t)
    BY <2>1, <2>2, <2>4 DEF GetTargetClientIps, GetConnectionsByTarget
  <2>7. OneConnectionPerDevice'
    <3> SUFFICES ASSUME NEW id1 \in ConnectSession, NEW id2 \in ConnectSession, id1 # id2,
                        connections'[id1] # Nil, connections'[id2] # Nil,
                        connections'[id1].target = connections'[id2].target,
                        connections'[id1].deviceId = connections'[id2].deviceId
                 PROVE  FALSE
      BY DEF OneConnectionPerDevice
    <3>1. ASSUME NEW id \in ConnectSession, id # cs[c].id, connections[id] # Nil,
                 connections[id].target = t, connections[id].deviceId = cs[c].device
          PROVE  FALSE
      BY <2>1, <2>4, <3>1 DEF GetConnection, GetConnectionsByTarget
    <3>2. CASE id1 # cs[c].id /\ id2 # cs[c].id
      BY <2>1, <3>2 DEF Typed, TypeOK, AddressInv, OneConnectionPerDevice
    <3>3. CASE id1 = cs[c].id \/ id2 = cs[c].id
      BY <2>1, <3>1, <3>3 DEF Typed, TypeOK
    <3> QED BY <3>2, <3>3
  <2>8. NoGapBelow'
    BY <1>1, <2>5 DEF AddressInv, NoGapBelow
  <2>9. InsertConflicts'
    <3> SUFFICES ASSUME NEW d \in ConnectSession, cs'[d].pc = "insert",
                        GetConnection(connections', cs'[d].target, cs'[d].device) # {}
                 PROVE  cs'[d].clientIp \in GetTargetClientIps(connections', cs'[d].target)
      BY DEF InsertConflicts
    <3>1. cs'[d] = cs[d] /\ cs[d].pc = "insert" /\ cs[d].clientIp \in ClientIp
      BY <1>1 DEF Typed, LocalsSet
    <3>2. CASE GetConnection(connections, cs[d].target, cs[d].device) # {}
      BY <2>5, <3>1, <3>2 DEF AddressInv, InsertConflicts
    <3>3. CASE GetConnection(connections, cs[d].target, cs[d].device) = {}
      <4>1. PICK id \in ConnectSession :
                connections'[id] # Nil /\ connections'[id].target = cs[d].target
                /\ connections'[id].deviceId = cs[d].device
        BY <2>4, <3>1 DEF GetConnection, GetConnectionsByTarget
      <4>2. id = cs[c].id
        BY <2>1, <2>4, <3>3, <4>1 DEF GetConnection, GetConnectionsByTarget, Typed, TypeOK
      <4>3. cs[d].target = t
        BY <2>1, <2>4, <4>1, <4>2 DEF Typed, TypeOK
      <4>4. CASE cs[d].clientIp < ip
        BY <2>1, <2>5, <3>1, <4>3, <4>4
      <4>5. CASE cs[d].clientIp = ip
        BY <2>6, <3>1, <4>3, <4>5
      <4>6. CASE ip < cs[d].clientIp
        BY <2>1, <2>2, <3>1, <4>3, <4>6 DEF AddressInv, NoGapBelow
      <4>7. cs[d].clientIp \in Int /\ ip \in Int
        BY <2>2, <3>1, ClientIpIsInt
      <4> HIDE DEF ip
      <4>8. cs[d].clientIp < ip \/ cs[d].clientIp = ip \/ ip < cs[d].clientIp
        BY <4>7
      <4> QED BY <4>4, <4>5, <4>6, <4>8
    <3> QED BY <3>2, <3>3
  <2>10. SyncsSameRow'
    BY <1>1, <2>3 DEF AddressInv, SyncsSameRow, RowsKept, Typed, LocalsSet
  <2> QED BY <2>7, <2>8, <2>9, <2>10 DEF AddressInv
<1> QED BY <1>2, <1>3

LEMMA ConnectStepRows ==
  ASSUME Typed, AddressInv, NEW c \in ConnectSession, ConnectStep(c)
  PROVE  AddressInv'
<1>1. CASE ConnectSync(c) BY <1>1, SyncStep
<1>2. CASE ConnectInsert(c) BY <1>2, InsertStep
<1>3. ASSUME ReturnConnect(c), connections' = connections
      PROVE  AddressInv'
  BY <1>3, QuietStep DEF ReturnConnect, IdleConnect, Typed, TypeOK
<1>4. ASSUME NEW pc, pc \notin {"sync", "exists", "insert"}, GotoConnect(c, pc),
             connections' = connections
      PROVE  AddressInv'
  <2>1. \A d \in ConnectSession : cs'[d].pc \in {"sync", "exists", "insert"} => cs'[d] = cs[d]
    BY <1>4 DEF GotoConnect, Typed, TypeOK, ConnectHandler
  <2> QED BY <1>4, <2>1, QuietStep
<1>5. ASSUME Die
      PROVE  AddressInv'
  BY <1>5, QuietStep DEF Die, IdleConnect, db
<1>6. CASE ConnectCallFails(c) BY <1>3, <1>6 DEF ConnectCallFails, db
<1>7. CASE ConnectDbFails(c) BY <1>3, <1>7 DEF ConnectDbFails, db
<1>8. CASE ConnectAuth(c)
  <2>1. CASE cs'[c].pc = "alive" /\ \A d \in ConnectSession \ {c} : cs'[d] = cs[d]
    BY <1>8, <2>1, QuietStep DEF ConnectAuth, db
  <2> QED BY <1>3, <1>8, <2>1 DEF ConnectAuth, db, Typed, TypeOK, ConnectHandler
<1>9. CASE ConnectAlive(c) BY <1>3, <1>4, <1>9 DEF ConnectAlive, db
<1>10. CASE ConnectInfo(c)
  <2>1. cs'[c].pc = "lookup" /\ \A d \in ConnectSession \ {c} : cs'[d] = cs[d]
    BY <1>10 DEF ConnectInfo, Typed, TypeOK, ConnectHandler
  <2> QED BY <1>10, <2>1, QuietStep DEF ConnectInfo, db
<1>11. CASE ConnectLookup(c)
  <2>1. CASE GotoConnect(c, "nextip")
    BY <1>4, <1>11, <2>1 DEF ConnectLookup, db
  <2>2. ASSUME NEW id \in GetConnection(connections, cs[c].target, cs[c].device),
               cs' = [cs EXCEPT ![c].pc = IF connections[id].pubkey = cs[c].pubkey
                                          THEN "connect" ELSE "sync",
                                ![c].id = id,
                                ![c].clientIp = connections[id].clientIp]
        PROVE  AddressInv'
    <3>1. /\ id \in ConnectSession /\ connections[id] # Nil
          /\ connections[id].target = cs[c].target
          /\ connections[id].deviceId = cs[c].device
      BY <2>2 DEF GetConnection, GetConnectionsByTarget, Typed, TypeOK
    <3>2. /\ cs'[c].pc \in {"connect", "sync"} /\ cs'[c].id = id
          /\ cs'[c].clientIp = connections[id].clientIp
          /\ cs'[c].target = cs[c].target /\ cs'[c].device = cs[c].device
          /\ \A d \in ConnectSession \ {c} : cs'[d] = cs[d]
      BY <2>2 DEF Typed, TypeOK, ConnectHandler
    <3>3. connections' = connections
      BY <1>11 DEF ConnectLookup, db
    <3>4. OneConnectionPerDevice'
      BY <3>3 DEF AddressInv, OneConnectionPerDevice
    <3>5. NoGapBelow'
      BY <3>2, <3>3 DEF AddressInv, NoGapBelow
    <3>6. InsertConflicts'
      BY <3>2, <3>3 DEF AddressInv, InsertConflicts
    <3>7. SyncsSameRow'
      BY <3>1, <3>2, <3>3 DEF AddressInv, SyncsSameRow
    <3> QED BY <3>4, <3>5, <3>6, <3>7 DEF AddressInv
  <2> QED BY <1>11, <2>1, <2>2 DEF ConnectLookup
<1>12. CASE ConnectNextIp(c)
  <2>1. ASSUME NEW used \in ReadRows(GetTargetClientIps(connections, cs[c].target), FaultyDb),
               NEW ip \in NextClientIp(used),
               cs' = [cs EXCEPT ![c].pc = "exists", ![c].id = c, ![c].clientIp = ip]
        PROVE  AddressInv'
    <3>1. /\ cs'[c].pc = "exists" /\ cs'[c].clientIp = ip /\ cs'[c].target = cs[c].target
          /\ \A d \in ConnectSession \ {c} : cs'[d] = cs[d]
      BY <2>1 DEF Typed, TypeOK, ConnectHandler
    <3>2. \A lower \in ClientIp :
            lower < ip => lower \in GetTargetClientIps(connections, cs[c].target)
      BY <2>1 DEF NextClientIp, ReadRows
    <3>3. connections' = connections
      BY <1>12 DEF ConnectNextIp, db
    <3>4. OneConnectionPerDevice'
      BY <3>3 DEF AddressInv, OneConnectionPerDevice
    <3>5. NoGapBelow'
      BY <3>1, <3>2, <3>3 DEF AddressInv, NoGapBelow
    <3>6. InsertConflicts'
      BY <3>1, <3>3 DEF AddressInv, InsertConflicts
    <3>7. SyncsSameRow'
      BY <3>1, <3>3 DEF AddressInv, SyncsSameRow
    <3> QED BY <3>4, <3>5, <3>6, <3>7 DEF AddressInv
  <2> QED BY <1>3, <1>12, <2>1 DEF ConnectNextIp, db
<1>13. CASE ConnectExists(c)
  <2>1. CASE GotoConnect(c, "getserver")
    BY <1>4, <1>13, <2>1 DEF ConnectExists, db
  <2>2. CASE GotoConnect(c, "insert")
             /\ GetConnection(connections, cs[c].target, cs[c].device) = {}
    <3>1. /\ cs'[c].pc = "insert" /\ cs'[c].clientIp = cs[c].clientIp
          /\ cs'[c].target = cs[c].target /\ cs'[c].device = cs[c].device
          /\ \A d \in ConnectSession \ {c} : cs'[d] = cs[d]
      BY <2>2 DEF GotoConnect, Typed, TypeOK, ConnectHandler
    <3>2. connections' = connections /\ cs[c].pc = "exists"
      BY <1>13 DEF ConnectExists, db
    <3>3. OneConnectionPerDevice'
      BY <3>2 DEF AddressInv, OneConnectionPerDevice
    <3>4. NoGapBelow'
      BY <3>1, <3>2 DEF AddressInv, NoGapBelow
    <3>5. InsertConflicts'
      BY <2>2, <3>1, <3>2 DEF AddressInv, InsertConflicts
    <3>6. SyncsSameRow'
      BY <3>1, <3>2 DEF AddressInv, SyncsSameRow
    <3> QED BY <3>3, <3>4, <3>5, <3>6 DEF AddressInv
  <2> QED BY <1>13, <2>1, <2>2 DEF ConnectExists
<1>14. CASE ConnectGetServer(c)
  <2>1. CASE cs' = [cs EXCEPT ![c].pc = "append",
                              ![c].vpnServerConn = vpnServerConnections[cs[c].target]]
             /\ connections' = connections
    <3>1. cs'[c].pc = "append" /\ \A d \in ConnectSession \ {c} : cs'[d] = cs[d]
      BY <2>1 DEF Typed, TypeOK, ConnectHandler
    <3> QED BY <2>1, <3>1, QuietStep
  <2> QED BY <1>5, <1>14, <2>1 DEF ConnectGetServer, db
<1>15. CASE ConnectAppend(c) BY <1>4, <1>15 DEF ConnectAppend, db
<1>16. CASE ConnectServer(c)
  <2>1. cs'[c].pc = "blocked" /\ \A d \in ConnectSession \ {c} : cs'[d] = cs[d]
    BY <1>16 DEF ConnectServer, IdleConnect, Typed, TypeOK
  <2> QED BY <1>16, <2>1, QuietStep DEF ConnectServer, db
<1>17. CASE ConnectStale(c) BY <1>3, <1>17 DEF ConnectStale, db
<1> QED
  BY <1>1, <1>2, <1>6, <1>7, <1>8, <1>9, <1>10, <1>11, <1>12, <1>13, <1>14, <1>15, <1>16,
     <1>17 DEF ConnectStep

LEMMA ServeStepRows ==
  ASSUME Typed, AddressInv, NEW s \in ServeSession, ServeStep(s)
  PROVE  AddressInv'
<1>1. connections' = connections
  BY DEF ServeStep, ServeCallFails, ServeAuth, ServeInfo, ServeUpdate, ServePeers, ServeVpn,
         ServeRegister, ServeStale, Die, db
<1>2. CASE cs' = cs
  BY <1>1, <1>2, QuietStep
<1>3. CASE Die
  BY <1>3, QuietStep DEF Die, IdleConnect, db
<1>4. CASE ServeStale(s)
  <2>1. \A c \in ConnectSession : cs'[c] = cs[c] \/ cs'[c].pc = "hung"
    BY <1>4, ReaderEndsStep DEF ServeStale
  <2> QED BY <1>1, <2>1, QuietStep
<1> QED
  BY <1>2, <1>3, <1>4
  DEF ServeStep, ServeCallFails, ServeAuth, ServeInfo, ServeUpdate, ServePeers, ServeVpn,
      ServeRegister

LEMMA NextRows ==
  ASSUME Typed, AddressInv, [Next]_vars
  PROVE  AddressInv'
<1>1. ASSUME NEW c \in ConnectSession, NEW d \in Device, NEW t \in Target,
             OpenConnect(c, d, t)
      PROVE  AddressInv'
  <2>1. cs'[c].pc = "auth" /\ \A e \in ConnectSession \ {c} : cs'[e] = cs[e]
    BY <1>1 DEF OpenConnect, IdleConnect, Typed, TypeOK
  <2> QED BY <1>1, <2>1, QuietStep DEF OpenConnect, db
<1>2. ASSUME NEW c \in ConnectSession, NEW l, cs' = [cs EXCEPT ![c].link = l],
             connections' = connections
      PROVE  AddressInv'
  <2>1. \A e \in ConnectSession :
            /\ cs'[e].pc = cs[e].pc /\ cs'[e].target = cs[e].target
            /\ cs'[e].device = cs[e].device /\ cs'[e].id = cs[e].id
            /\ cs'[e].clientIp = cs[e].clientIp
    BY <1>2 DEF Typed, TypeOK, ConnectHandler
  <2> QED BY <1>2, <2>1, QuietStep
<1>3. CASE connections' = connections /\ cs' = cs
  BY <1>3, QuietStep
<1>4. ASSUME NEW d \in Device, DisconnectDevice(d)
      PROVE  AddressInv'
  BY <1>2, <1>3, <1>4 DEF DisconnectDevice, db
<1>5. CASE Crash
  BY <1>5, QuietStep DEF Crash, Die, IdleConnect, db
<1> QED
  BY <1>1, <1>2, <1>3, <1>4, <1>5, ConnectStepRows, ServeStepRows
  DEF Next, DropConnect, OpenServe, DropServe, CreateVpnTarget, RotateKey, vars, db

LEMMA InitRows == Init => AddressInv
  BY DEF Init, AddressInv, OneConnectionPerDevice, NoGapBelow, InsertConflicts,
         SyncsSameRow, IdleConnect

(* The handlers' look-ups, checks and INSERTs keep the inductive invariant *)
(* in every interleaving, with failing statements and crashes.             *)
THEOREM AddressInvariant == Spec => []AddressInv
<1>1. Typed /\ AddressInv /\ [Next]_vars => (Typed /\ AddressInv)'
  BY NextTyped, NextRows
<1> QED BY <1>1, InitTyped, InitRows, PTL DEF Spec

(* A device never gets a second connection row for a target, whatever the  *)
(* number of sessions that try to create it at the same time.              *)
THEOREM OneConnection == Spec => []OneConnectionPerDevice
<1>1. AddressInv => OneConnectionPerDevice
  BY DEF AddressInv
<1> QED BY <1>1, AddressInvariant, PTL

-----------------------------------------------------------------------------
(* The connection of the serving device.                                   *)

LEMMA KeptStep ==
  ASSUME ServerConnKept,
         \A t \in Target : vpnServerConnections[t] # Nil => vpnServerConnections'[t] # Nil,
         \A c \in ConnectSession :
            cs'[c].pc \notin {"new", "auth", "alive", "blocked", "closed"} =>
                /\ cs[c].pc \notin {"new", "auth", "alive", "blocked", "closed"}
                /\ cs'[c].target = cs[c].target
                /\ cs[c].target \in Target
  PROVE  ServerConnKept'
  BY DEF ServerConnKept

LEMMA ConnectStepKeeps ==
  ASSUME Typed, ServerConnKept, NEW c \in ConnectSession, ConnectStep(c)
  PROVE  ServerConnKept'
<1>1. CASE Die
  BY <1>1 DEF Die, IdleConnect, ServerConnKept
<1>2. CASE ~Die
  <2>1. vpnServerConnections' = vpnServerConnections
    BY <1>2
    DEF ConnectStep, ConnectCallFails, ConnectDbFails, ConnectAuth, ConnectAlive,
        ConnectInfo, ConnectLookup, ConnectSync, ConnectNextIp, ConnectExists,
        ConnectInsert, ConnectGetServer, ConnectAppend, ConnectServer, ConnectStale, connMan
  <2>2. \A e \in ConnectSession \ {c} : cs'[e] = cs[e]
    BY <1>2
    DEF ConnectStep, ConnectCallFails, ConnectDbFails, ConnectAuth, ConnectAlive,
        ConnectInfo, ConnectLookup, ConnectSync, ConnectNextIp, ConnectExists,
        ConnectInsert, ConnectGetServer, ConnectAppend, ConnectServer, ConnectStale,
        GotoConnect, ReturnConnect, Typed, TypeOK
  <2>3. \A e \in ConnectSession : cs[e].pc \notin {"new", "closed"} => cs[e].target \in Target
    BY DEF Typed, LocalsSet
  <2>4. CASE cs'[c].pc \in {"new", "auth", "alive", "blocked", "closed"}
    BY <2>1, <2>2, <2>3, <2>4, KeptStep
  <2>5. CASE cs[c].pc \notin {"new", "auth", "alive", "blocked", "closed"}
             /\ cs'[c].target = cs[c].target
    BY <2>1, <2>2, <2>3, <2>5, KeptStep
  <2>6. CASE ConnectAlive(c)
    <3>1. CASE GotoConnect(c, "info")
               /\ TargetServerAlive(cs[c].target, cs[c].serverPubkey)
      BY <2>1, <2>2, <3>1
      DEF GotoConnect, TargetServerAlive, ServerConnKept, Typed, TypeOK, ConnectHandler
    <3>2. CASE ReturnConnect(c)
      BY <2>4, <3>2 DEF ReturnConnect, IdleConnect, Typed, TypeOK
    <3> QED BY <2>6, <3>1, <3>2 DEF ConnectAlive
  <2>7. CASE ReturnConnect(c)
    BY <2>4, <2>7 DEF ReturnConnect, IdleConnect, Typed, TypeOK
  <2>8. CASE ~ReturnConnect(c) /\ ~ConnectAlive(c)
    <3>1. CASE ConnectAuth(c)
      <4>1. cs'[c].pc = "alive"
        BY <2>8, <3>1 DEF ConnectAuth, Typed, TypeOK, ConnectHandler
      <4> QED BY <2>4, <4>1
    <3>2. CASE ConnectServer(c)
      BY <2>4, <3>2 DEF ConnectServer, IdleConnect, Typed, TypeOK
    <3>3. CASE ConnectInfo(c)
      BY <2>5, <3>3 DEF ConnectInfo, Typed, TypeOK, ConnectHandler
    <3>4. CASE ConnectLookup(c)
      <4>1. cs[c] \in ConnectHandler /\ cs \in [ConnectSession -> ConnectHandler]
        BY DEF Typed, TypeOK
      <4>2. ASSUME NEW id \in GetConnection(connections, cs[c].target, cs[c].device),
                   cs' = [cs EXCEPT ![c].pc = IF connections[id].pubkey = cs[c].pubkey
                                              THEN "connect" ELSE "sync",
                                    ![c].id = id,
                                    ![c].clientIp = connections[id].clientIp]
            PROVE  cs'[c].target = cs[c].target
        BY <4>1, <4>2 DEF ConnectHandler
      <4>3. cs[c].pc = "lookup" /\ cs'[c].target = cs[c].target
        <5>1. cs[c].pc = "lookup"
          BY <3>4 DEF ConnectLookup
        <5>2. ASSUME GotoConnect(c, "nextip")
              PROVE  cs'[c].target = cs[c].target
          BY <4>1, <5>2 DEF GotoConnect, ConnectHandler
        <5> QED BY <3>4, <4>2, <5>1, <5>2 DEF ConnectLookup
      <4> QED BY <2>5, <4>3
    <3>5. CASE ConnectSync(c) \/ ConnectInsert(c) \/ ConnectExists(c) \/ ConnectAppend(c)
      <4>1. cs[c].pc \in {"sync", "insert", "exists", "append"}
            /\ \E pc : GotoConnect(c, pc)
        BY <2>8, <3>5 DEF ConnectSync, ConnectInsert, ConnectExists, ConnectAppend
      <4>2. cs'[c].target = cs[c].target
        BY <4>1 DEF GotoConnect, Typed, TypeOK, ConnectHandler
      <4> QED BY <2>5, <4>1, <4>2
    <3>6. CASE ConnectNextIp(c)
      BY <2>5, <2>8, <3>6 DEF ConnectNextIp, Typed, TypeOK, ConnectHandler
    <3>7. CASE ConnectGetServer(c)
      BY <1>2, <2>5, <3>7 DEF ConnectGetServer, Typed, TypeOK, ConnectHandler
    <3> QED
      BY <2>8, <3>1, <3>2, <3>3, <3>4, <3>5, <3>6, <3>7
      DEF ConnectStep, ConnectCallFails, ConnectDbFails, ConnectStale
  <2> QED BY <2>6, <2>7, <2>8
<1> QED BY <1>1, <1>2

LEMMA ServeStepKeeps ==
  ASSUME Typed, ServerConnKept, NEW s \in ServeSession, ServeStep(s)
  PROVE  ServerConnKept'
<1>1. CASE Die
  BY <1>1 DEF Die, IdleConnect, ServerConnKept
<1>2. CASE ServeStale(s)
  <2>1. vpnServerConnections' = vpnServerConnections
    BY <1>2 DEF ServeStale, connMan
  <2>2. \A e \in ConnectSession :
            \/ cs'[e] = cs[e]
            \/ cs[e].pc = "append" /\ cs'[e].target = cs[e].target
    BY <1>2, ReaderEndsStep DEF ServeStale
  <2>3. \A e \in ConnectSession : cs[e].pc \notin {"new", "closed"} => cs[e].target \in Target
    BY DEF Typed, LocalsSet
  <2> QED BY <2>1, <2>2, <2>3, KeptStep
<1>3. CASE ~Die /\ ~ServeStale(s)
  <2>1. cs' = cs
    BY <1>3
    DEF ServeStep, ServeCallFails, ServeAuth, ServeInfo, ServeUpdate, ServePeers, ServeVpn,
        ServeRegister
  <2>2. \A e \in ConnectSession : cs[e].pc \notin {"new", "closed"} => cs[e].target \in Target
    BY DEF Typed, LocalsSet
  <2>3. CASE ServeRegister(s)
    <3>1. \A t \in Target : vpnServerConnections[t] # Nil => vpnServerConnections'[t] # Nil
      BY <2>3, SessionAssumption DEF ServeRegister, Typed, TypeOK
    <3> QED BY <2>1, <2>2, <3>1, KeptStep
  <2>4. CASE ~ServeRegister(s)
    <3>1. vpnServerConnections' = vpnServerConnections
      BY <1>3, <2>4
      DEF ServeStep, ServeCallFails, ServeAuth, ServeInfo, ServeUpdate, ServePeers,
          ServeVpn, connMan
    <3> QED BY <2>1, <2>2, <3>1, KeptStep
  <2> QED BY <2>3, <2>4
<1> QED BY <1>1, <1>2, <1>3

LEMMA NextKeeps ==
  ASSUME Typed, ServerConnKept, [Next]_vars
  PROVE  ServerConnKept'
<1>1. \A e \in ConnectSession : cs[e].pc \notin {"new", "closed"} => cs[e].target \in Target
  BY DEF Typed, LocalsSet
<1>2. ASSUME NEW c \in ConnectSession, NEW d \in Device, NEW t \in Target,
             OpenConnect(c, d, t)
      PROVE  ServerConnKept'
  <2>1. cs'[c].pc = "auth" /\ \A e \in ConnectSession \ {c} : cs'[e] = cs[e]
    BY <1>2 DEF OpenConnect, IdleConnect, Typed, TypeOK
  <2> QED BY <1>1, <1>2, <2>1, KeptStep DEF OpenConnect, connMan
<1>3. ASSUME NEW c \in ConnectSession, NEW l, cs' = [cs EXCEPT ![c].link = l],
             vpnServerConnections' = vpnServerConnections
      PROVE  ServerConnKept'
  <2>1. \A e \in ConnectSession : cs'[e].pc = cs[e].pc /\ cs'[e].target = cs[e].target
    BY <1>3 DEF Typed, TypeOK, ConnectHandler
  <2> QED BY <1>1, <1>3, <2>1, KeptStep
<1>4. CASE vpnServerConnections' = vpnServerConnections /\ cs' = cs
  BY <1>1, <1>4, KeptStep
<1>5. ASSUME NEW d \in Device, DisconnectDevice(d)
      PROVE  ServerConnKept'
  BY <1>3, <1>4, <1>5 DEF DisconnectDevice, connMan
<1>6. CASE Crash
  BY <1>6 DEF Crash, Die, IdleConnect, ServerConnKept
<1> QED
  BY <1>2, <1>3, <1>4, <1>5, <1>6, ConnectStepKeeps, ServeStepKeeps
  DEF Next, DropConnect, OpenServe, DropServe, CreateVpnTarget, RotateKey, vars, connMan

(* Between targetServerAlive and getVPNServerConn the target's entry in    *)
(* the ConnectionManager does not disappear, so that the Call on a nil     *)
(* connection is never reached.                                            *)
THEOREM ServerConnStays == Spec => []ServerConnKept
<1>1. Init => ServerConnKept
  BY DEF Init, ServerConnKept, IdleConnect
<1>2. Typed /\ ServerConnKept /\ [Next]_vars => (Typed /\ ServerConnKept)'
  BY NextTyped, NextKeeps
<1> QED BY <1>1, <1>2, InitTyped, PTL DEF Spec

-----------------------------------------------------------------------------
(* The connections table implements the abstract allocator.                *)

OnePerDevice(rows) ==
    \A id1, id2 \in ConnectSession :
        /\ rows[id1] # Nil /\ rows[id2] # Nil
        /\ rows[id1].target = rows[id2].target
        /\ rows[id1].deviceId = rows[id2].deviceId
        => id1 = id2

LeaseMap(rows) == [t \in Target |-> [d \in Device |-> Lease(rows, t, d)]]

(* The address of a device's row is its lease. *)
LEMMA LeaseOfRow ==
  ASSUME NEW rows, DOMAIN rows = ConnectSession, OnePerDevice(rows),
         NEW id \in ConnectSession, rows[id] # Nil
  PROVE  Lease(rows, rows[id].target, rows[id].deviceId) = rows[id].clientIp
<1> DEFINE found == GetConnection(rows, rows[id].target, rows[id].deviceId)
<1>1. found = {id}
  BY DEF GetConnection, GetConnectionsByTarget, OnePerDevice
<1>2. (CHOOSE i \in found : TRUE) = id
  BY <1>1
<1> QED BY <1>1, <1>2 DEF Lease

(* The leases of a target are the addresses in its rows. *)
LEMMA LeasedIsUsed ==
  ASSUME NEW rows \in [ConnectSession -> Row \cup {Nil}], OnePerDevice(rows),
         NEW t \in Target
  PROVE  {LeaseMap(rows)[t][d] : d \in Device} \ {Nil} = GetTargetClientIps(rows, t)
<1>1. ASSUME NEW ip \in GetTargetClientIps(rows, t)
      PROVE  ip \in {LeaseMap(rows)[t][d] : d \in Device} \ {Nil}
  <2>1. PICK id \in ConnectSession : rows[id] # Nil /\ rows[id].target = t
                                     /\ rows[id].clientIp = ip
    BY <1>1 DEF GetTargetClientIps, GetConnectionsByTarget
  <2>2. rows[id].deviceId \in Device /\ ip \in ClientIp
    BY <2>1 DEF Row
  <2>3. LeaseMap(rows)[t][rows[id].deviceId] = ip
    BY <2>1, <2>2, LeaseOfRow DEF LeaseMap
  <2> QED BY <2>2, <2>3, NilIpAssumption
<1>2. ASSUME NEW d \in Device, LeaseMap(rows)[t][d] # Nil
      PROVE  LeaseMap(rows)[t][d] \in GetTargetClientIps(rows, t)
  <2>1. LeaseMap(rows)[t][d] = Lease(rows, t, d)
    BY DEF LeaseMap
  <2>2. GetConnection(rows, t, d) # {}
    BY <1>2, <2>1 DEF Lease
  <2> DEFINE id == CHOOSE i \in GetConnection(rows, t, d) : TRUE
  <2>3. id \in GetConnection(rows, t, d)
    BY <2>2
  <2>4. Lease(rows, t, d) = rows[id].clientIp
    BY <2>2 DEF Lease
  <2>5. id \in GetConnectionsByTarget(rows, t)
    BY <2>3 DEF GetConnection
  <2> QED BY <2>1, <2>4, <2>5 DEF GetTargetClientIps
<1> QED BY <1>1, <1>2

(* A step that keeps every row and adds none keeps the leases. *)
LEMMA SameLeases ==
  ASSUME NEW old, NEW new, DOMAIN old = ConnectSession, DOMAIN new = ConnectSession,
         RowsKept(old, new), \A id \in ConnectSession : new[id] # Nil => old[id] # Nil
  PROVE  LeaseMap(new) = LeaseMap(old)
<1> SUFFICES ASSUME NEW t \in Target, NEW d \in Device
             PROVE  Lease(new, t, d) = Lease(old, t, d)
  BY DEF LeaseMap
<1> DEFINE found == GetConnection(old, t, d)
<1>1. GetConnection(new, t, d) = found
  BY DEF GetConnection, GetConnectionsByTarget, RowsKept
<1>2. CASE found = {}
  BY <1>1, <1>2 DEF Lease
<1>3. CASE found # {}
  <2> DEFINE id == CHOOSE i \in found : TRUE
  <2>1. id \in found
    BY <1>3
  <2>2. id \in ConnectSession /\ old[id] # Nil
    BY <2>1 DEF GetConnection, GetConnectionsByTarget
  <2>3. new[id].clientIp = old[id].clientIp
    BY <2>2 DEF RowsKept
  <2> QED BY <1>1, <1>3, <2>3 DEF Lease
<1> QED BY <1>2, <1>3

(* A new row is a grant of the lowest free address. *)
LEMMA InsertGrants ==
  ASSUME Typed, AddressInv, AddressInv', NEW c \in ConnectSession, ConnectInsert(c),
         connections' # connections
  PROVE  Leases!Next
<1> DEFINE t == cs[c].target
           d == cs[c].device
           ip == cs[c].clientIp
           row == [target |-> t, deviceId |-> d, pubkey |-> cs[c].pubkey, clientIp |-> ip]
<1>1. /\ cs[c].id \in ConnectSession /\ connections[cs[c].id] = Nil
      /\ connections' = [connections EXCEPT ![cs[c].id] = row]
      /\ ip \notin GetTargetClientIps(connections, t)
      /\ GetConnection(connections, t, d) = {}
      /\ \A lower \in ClientIp : lower < ip => lower \in GetTargetClientIps(connections, t)
  BY InsertRows
<1>2. t \in Target /\ d \in Device /\ ip \in ClientIp /\ row # Nil
  BY RowTyped, NilRowAssumption DEF ConnectInsert, Typed, LocalsSet
<1>3. connections \in [ConnectSession -> Row \cup {Nil}]
      /\ DOMAIN connections' = ConnectSession
  BY <1>1 DEF Typed, TypeOK
<1>4. OnePerDevice(connections) /\ OnePerDevice(connections')
  BY DEF AddressInv, OneConnectionPerDevice, OnePerDevice
<1>5. Lease(connections, t, d) = Nil
  BY <1>1 DEF Lease
<1>6. Lease(connections', t, d) = ip
  <2>1. connections'[cs[c].id] = row
    BY <1>1, <1>3
  <2>2. row.target = t /\ row.deviceId = d /\ row.clientIp = ip
    OBVIOUS
  <2> HIDE DEF row
  <2>3. cs[c].id \in ConnectSession /\ connections'[cs[c].id] # Nil
        /\ DOMAIN connections' = ConnectSession /\ OnePerDevice(connections')
    BY <1>1, <1>2, <1>3, <1>4, <2>1
  <2>4. Lease(connections', row.target, row.deviceId) = row.clientIp
    BY <2>1, <2>3, LeaseOfRow
  <2> QED BY <2>2, <2>4
<1>7. ASSUME NEW u \in Target, NEW e \in Device, u # t \/ e # d
      PROVE  Lease(connections', u, e) = Lease(connections, u, e)
  <2> DEFINE found == GetConnection(connections, u, e)
  <2>1. GetConnection(connections', u, e) = found
    BY <1>1, <1>2, <1>3, <1>7 DEF GetConnection, GetConnectionsByTarget
  <2>2. CASE found = {}
    BY <2>1, <2>2 DEF Lease
  <2>3. CASE found # {}
    <3> DEFINE id == CHOOSE i \in found : TRUE
    <3>1. id \in found
      BY <2>3
    <3>2. id \in ConnectSession /\ connections[id] # Nil
      BY <1>3, <3>1 DEF GetConnection, GetConnectionsByTarget
    <3>3. connections'[id] = connections[id]
      BY <1>1, <1>3, <3>2
    <3> QED BY <2>1, <2>3, <3>3 DEF Lease
  <2> QED BY <2>2, <2>3
<1> HIDE DEF t, d, ip, row
<1>8. LeaseMap(connections') = [LeaseMap(connections) EXCEPT ![t][d] = ip]
  BY <1>2, <1>6, <1>7 DEF LeaseMap
<1>9. ip \in NextClientIp({LeaseMap(connections)[t][e] : e \in Device} \ {Nil})
  BY <1>1, <1>2, <1>3, <1>4, LeasedIsUsed DEF NextClientIp
<1>10. LeaseMap(connections)[t][d] = Nil
  BY <1>2, <1>5 DEF LeaseMap
<1>11. \A u : Leases!NextClientIp(u) = NextClientIp(u)
  BY DEF Leases!NextClientIp, Leases!ClientIp, Leases!Contains, NextClientIp, ClientIp, Contains
<1>12. Leases!Leased(t) = {LeaseMap(connections)[t][e] : e \in Device} \ {Nil}
  BY DEF Leases!Leased, LeaseMap
<1>13. ip \in Leases!NextClientIp(Leases!Leased(t))
  BY <1>9, <1>11, <1>12
<1>14. Leases!Grant(t, d)
  BY <1>8, <1>10, <1>13 DEF Leases!Grant, LeaseMap
<1> QED BY <1>2, <1>14 DEF Leases!Next

LEMMA StepLeases ==
  ASSUME Typed, AddressInv, AddressInv', [Next]_vars
  PROVE  Leases!Next \/ LeaseMap(connections') = LeaseMap(connections)
<1>1. CASE connections' = connections
  BY <1>1
<1>2. ASSUME NEW c \in ConnectSession, ConnectSync(c)
      PROVE  LeaseMap(connections') = LeaseMap(connections)
  <2>1. DOMAIN connections = ConnectSession /\ DOMAIN connections' = ConnectSession
    BY <1>2 DEF ConnectSync, UpdateConnection, Typed, TypeOK
  <2> QED BY <1>2, <2>1, SyncRows, SameLeases
<1>3. ASSUME NEW c \in ConnectSession, ConnectInsert(c), connections' # connections
      PROVE  Leases!Next
  BY <1>3, InsertGrants
<1>4. ASSUME NEW c \in ConnectSession, ConnectStep(c), ~ConnectSync(c), ~ConnectInsert(c)
      PROVE  connections' = connections
  BY <1>4
  DEF ConnectStep, ConnectCallFails, ConnectDbFails, ConnectAuth, ConnectAlive, ConnectInfo,
      ConnectLookup, ConnectNextIp, ConnectExists, ConnectGetServer, ConnectAppend,
      ConnectServer, ConnectStale, Die, db
<1>5. ASSUME NEW s \in ServeSession, ServeStep(s)
      PROVE  connections' = connections
  BY <1>5
  DEF ServeStep, ServeCallFails, ServeAuth, ServeInfo, ServeUpdate, ServePeers, ServeVpn,
      ServeRegister, ServeStale, Die, db
<1> QED
  BY <1>1, <1>2, <1>3, <1>4, <1>5
  DEF Next, OpenConnect, DropConnect, OpenServe, DropServe, CreateVpnTarget,
      DisconnectDevice, RotateKey, Crash, Die, vars, db

(* The control plane implements the abstract allocator of addresses: the   *)
(* racing handlers give each device one address, the lowest free one, and  *)
(* never change it.                                                        *)
THEOREM ImplementsLeases == Spec => LeaseSpec
<1>1. Init => Leases!Init
  BY DEF Init, Leases!Init, Lease, GetConnection, GetConnectionsByTarget
<1>2. Typed /\ AddressInv /\ [Next]_vars => (Typed /\ AddressInv)'
  BY NextTyped, NextRows
<1>3. Typed /\ AddressInv /\ AddressInv' /\ [Next]_vars
        => [Leases!Next]_([t \in Target |-> [d \in Device |-> Lease(connections, t, d)]])
  BY StepLeases DEF LeaseMap
<1> QED
  BY <1>1, <1>2, <1>3, InitTyped, InitRows, PTL DEF Spec, LeaseSpec, Leases!Spec

-----------------------------------------------------------------------------
(* One set-up at a time.                                                   *)

(* What the handlers rely on and do not enforce. *)
Sequential == MaxInFlight <= 1 /\ ~FaultyDb

Connecting(c) == cs[c].pc \notin Settled
Serving(s) == ss[s].pc \notin Settled

OneSetup ==
    /\ \A c1, c2 \in ConnectSession : Connecting(c1) /\ Connecting(c2) => c1 = c2
    /\ \A s1, s2 \in ServeSession : Serving(s1) /\ Serving(s2) => s1 = s2
    /\ \A c \in ConnectSession, s \in ServeSession : ~(Connecting(c) /\ Serving(s))

(* UNIQUE (target, client_ip). *)
UniqueIps(rows) ==
    \A id1, id2 \in ConnectSession :
        /\ rows[id1] # Nil /\ rows[id2] # Nil
        /\ rows[id1].target = rows[id2].target
        /\ rows[id1].clientIp = rows[id2].clientIp
        => id1 = id2

(* The row of a device, with all that is in it. *)
Recorded(rows, t, d, ip, key) ==
    \E id \in ConnectSession :
        /\ rows[id] # Nil /\ rows[id].target = t /\ rows[id].deviceId = d
        /\ rows[id].clientIp = ip /\ rows[id].pubkey = key

(* The rows of a target are among the peers of a server. *)
Covers(rows, peers, t) ==
    \A id \in ConnectSession :
        rows[id] # Nil /\ rows[id].target = t => peers[rows[id].clientIp] = rows[id].pubkey

Unwritten == {"new", "auth", "alive", "info", "lookup", "nextip", "exists", "insert"}
KeyKnown == {"lookup", "sync", "nextip", "exists", "insert", "getserver", "append", "connect"}

(* A clientConnect handler in the middle of its set-up, alone: its device  *)
(* is not connected and keeps its key; until the INSERT the device has no  *)
(* row, and its address is free; after it, or after the row was found or   *)
(* brought up to date, the row has that address and that key.              *)
ConnectInv(c) ==
    /\ cs[c].pc \notin Settled => clientConf[cs[c].device] = Nil
    /\ cs[c].pc \in Unwritten => connections[c] = Nil
    /\ cs[c].pc \in KeyKnown => cs[c].pubkey = <<cs[c].device, deviceKey[cs[c].device]>>
    /\ cs[c].pc \in {"nextip", "exists", "insert"}
         => GetConnection(connections, cs[c].target, cs[c].device) = {}
    /\ cs[c].pc \in {"exists", "insert"} =>
         cs[c].id = c /\ cs[c].clientIp \notin GetTargetClientIps(connections, cs[c].target)
    /\ cs[c].pc \in {"getserver", "append", "connect"} =>
         Recorded(connections, cs[c].target, cs[c].device, cs[c].clientIp, cs[c].pubkey)
    /\ cs[c].pc = "append" => cs[c].vpnServerConn = vpnServerConnections[cs[c].target]

(* A clientServe handler in the middle of its set-up: from updateTarget on *)
(* the target names its device, from getConnectionsByTarget on it knows    *)
(* all peers, and from serve_vpn on so does its device.                    *)
Announced == {"peers", "serve", "register"}
ServeInv(s) ==
    /\ ((ss[s].pc = "info" /\ ss[s].found) \/ ss[s].pc = "update")
         => targets[ss[s].target] # Nil
    /\ ss[s].pc \in Announced =>
         targets[ss[s].target] # Nil /\ targets[ss[s].target].serverPubkey = s
    /\ ss[s].pc = "serve" => Covers(connections, ss[s].peers, ss[s].target)
    /\ ss[s].pc = "register" /\ ss[s].link = "up"
         => Covers(connections, wgPeers[s], ss[s].target)

(* The handler behind an entry of vpnServerConnections blocks, or is gone. *)
Registered(t) ==
    LET s == vpnServerConnections[t]
    IN  \/ ss[s].pc = "blocked" /\ ss[s].target = t
        \/ ss[s].pc = "closed" /\ ss[s].link = "closed"

(* The row of a target and the ConnectionManager agree, or the next server *)
(* is between writing the one and the other.                               *)
Agrees(t) ==
    \/ targets[t] # Nil /\ targets[t].serverPubkey = vpnServerConnections[t]
    \/ \E s \in ServeSession : ss[s].pc \in Announced /\ ss[s].target = t

(* The server has the peers of the rows, but for the one that a handler is *)
(* about to append.                                                        *)
Appending(t, ip) ==
    \E c \in ConnectSession : /\ cs[c].pc \in {"getserver", "append"}
                              /\ cs[c].target = t /\ cs[c].clientIp = ip
PeersCurrent(t) ==
    ss[vpnServerConnections[t]].link = "up" =>
        \A id \in ConnectSession : connections[id] # Nil /\ connections[id].target = t =>
            \/ wgPeers[vpnServerConnections[t]][connections[id].clientIp] = connections[id].pubkey
            \/ Appending(t, connections[id].clientIp)

MapInv ==
    \A t \in Target : vpnServerConnections[t] # Nil =>
        Registered(t) /\ Agrees(t) /\ PeersCurrent(t)

(* What a device was configured with is its row. *)
ConfRecorded ==
    \A d \in Device : clientConf[d] # Nil =>
        Recorded(connections, clientConf[d].target, d, clientConf[d].clientIp,
                 clientConf[d].pubkey)

SetupInv ==
    /\ OneSetup
    /\ UniqueIps(connections)
    /\ \A c \in ConnectSession : ConnectInv(c)
    /\ \A s \in ServeSession : ServeInv(s)
    /\ MapInv
    /\ ConfRecorded

LEMMA InitSetup == Init => SetupInv
<1> SUFFICES ASSUME Init PROVE SetupInv
  OBVIOUS
<1>1. /\ \A c \in ConnectSession : cs[c].pc = "new" /\ connections[c] = Nil
      /\ \A s \in ServeSession : ss[s].pc = "new"
      /\ \A t \in Target : vpnServerConnections[t] = Nil
      /\ \A d \in Device : clientConf[d] = Nil
  BY DEF Init, IdleConnect, IdleServe
<1>2. OneSetup /\ UniqueIps(connections)
  BY <1>1 DEF OneSetup, Connecting, Serving, Settled, UniqueIps
<1>3. \A c \in ConnectSession : ConnectInv(c)
  BY <1>1 DEF ConnectInv, Settled, KeyKnown
<1>4. \A s \in ServeSession : ServeInv(s)
  BY <1>1 DEF ServeInv, Announced
<1>5. MapInv /\ ConfRecorded
  BY <1>1 DEF MapInv, ConfRecorded
<1> QED BY <1>2, <1>3, <1>4, <1>5 DEF SetupInv

(* The next set-up begins when none is under way. *)
LEMMA MayOpenQuiet ==
  ASSUME OneSetup, MaxInFlight <= 1, MayOpen
  PROVE  /\ \A c \in ConnectSession : ~Connecting(c)
         /\ \A s \in ServeSession : ~Serving(s)
<1>1. IsFiniteSet(InSetup)
  <2>1. CASE InSetup = {}
    BY <2>1, FS_EmptySet
  <2>2. ASSUME NEW x \in InSetup PROVE IsFiniteSet(InSetup)
    <3>1. InSetup = {x}
      BY <2>2 DEF InSetup, OneSetup, Connecting, Serving
    <3> QED BY <3>1, FS_Singleton
  <2> QED BY <2>1, <2>2
<1>2. Cardinality(InSetup) = 0
  BY <1>1, FS_CardinalityType, BoundAssumption DEF MayOpen
<1>3. InSetup = {}
  BY <1>1, <1>2, FS_EmptySet
<1> QED BY <1>3 DEF InSetup, Connecting, Serving

-----------------------------------------------------------------------------
(* What a step leaves alone.                                               *)

LEMMA OneSetupConnect ==
  ASSUME OneSetup, NEW c \in ConnectSession, UNCHANGED ss,
         \A e \in ConnectSession : e # c => cs'[e] = cs[e],
         Connecting(c)' => Connecting(c)
  PROVE  OneSetup'
<1>1. \A e \in ConnectSession : Connecting(e)' => Connecting(e)
  BY DEF Connecting
<1>2. \A s \in ServeSession : Serving(s)' => Serving(s)
  BY DEF Serving
<1> QED BY <1>1, <1>2 DEF OneSetup

LEMMA OneSetupServe ==
  ASSUME OneSetup, NEW s \in ServeSession, UNCHANGED cs,
         \A e \in ServeSession : e # s => ss'[e] = ss[e],
         Serving(s)' => Serving(s)
  PROVE  OneSetup'
<1>1. \A e \in ServeSession : Serving(e)' => Serving(e)
  BY DEF Serving
<1>2. \A c \in ConnectSession : Connecting(c)' => Connecting(c)
  BY DEF Connecting
<1> QED BY <1>1, <1>2 DEF OneSetup

LEMMA ConnectInvFrame ==
  ASSUME NEW c \in ConnectSession, ConnectInv(c), cs'[c] = cs[c],
         UNCHANGED <<connections, vpnServerConnections, deviceKey, clientConf>>
  PROVE  ConnectInv(c)'
  BY DEF ConnectInv

(* Only its own row concerns a handler that is not in its set-up. *)
LEMMA ConnectSettled ==
  ASSUME NEW c \in ConnectSession, cs'[c].pc \in Settled,
         cs'[c].pc = "new" => connections'[c] = Nil
  PROVE  ConnectInv(c)'
  BY DEF ConnectInv, Settled, Unwritten, KeyKnown

LEMMA ServeInvFrame ==
  ASSUME NEW s \in ServeSession, ServeInv(s), ss'[s] = ss[s], wgPeers'[s] = wgPeers[s],
         UNCHANGED <<targets, connections>>
  PROVE  ServeInv(s)'
  BY DEF ServeInv

LEMMA ServeSettled ==
  ASSUME NEW s \in ServeSession, ss'[s].pc \in Settled
  PROVE  ServeInv(s)'
  BY DEF ServeInv, Settled, Announced

LEMMA MapFrame ==
  ASSUME MapInv, UNCHANGED <<targets, connections, vpnServerConnections, wgPeers>>,
         \A t \in Target : vpnServerConnections[t] # Nil =>
            /\ Registered(t) => Registered(t)'
            /\ Agrees(t) => Agrees(t)'
            /\ ss'[vpnServerConnections[t]].link = "up"
                 => ss[vpnServerConnections[t]].link = "up",
         \A c \in ConnectSession : cs[c].pc \in {"getserver", "append"} =>
            /\ cs'[c].pc \in {"getserver", "append"}
            /\ cs'[c].target = cs[c].target /\ cs'[c].clientIp = cs[c].clientIp
  PROVE  MapInv'
<1>1. \A t, ip : Appending(t, ip) => Appending(t, ip)'
  BY DEF Appending
<1>2. ASSUME NEW t \in Target, vpnServerConnections[t] # Nil
      PROVE  Registered(t)' /\ Agrees(t)' /\ PeersCurrent(t)'
  <2>1. Registered(t)' /\ Agrees(t)' /\ PeersCurrent(t)
    BY <1>2 DEF MapInv
  <2> QED BY <1>1, <1>2, <2>1 DEF PeersCurrent
<1> QED BY <1>2 DEF MapInv

LEMMA ConfFrame ==
  ASSUME ConfRecorded, UNCHANGED <<connections, clientConf>>
  PROVE  ConfRecorded'
  BY DEF ConfRecorded

(* A step that changes nothing but one clientConnect handler. *)
LEMMA ConnectOnly ==
  ASSUME SetupInv, NEW c \in ConnectSession, UNCHANGED <<db, connMan, ss, devices>>,
         \A e \in ConnectSession : e # c => cs'[e] = cs[e],
         OneSetup', ConnectInv(c)',
         cs[c].pc \in {"getserver", "append"} =>
            /\ cs'[c].pc \in {"getserver", "append"}
            /\ cs'[c].target = cs[c].target /\ cs'[c].clientIp = cs[c].clientIp
  PROVE  SetupInv'
<1> UNCHANGED <<targets, connections, vpnServerConnections, deviceKey, clientConf, wgPeers>>
  BY DEF db, connMan, devices
<1>1. \A e \in ConnectSession : ConnectInv(e)'
  BY ConnectInvFrame DEF SetupInv
<1>2. \A s \in ServeSession : ServeInv(s)'
  BY ServeInvFrame DEF SetupInv
<1>3. MapInv'
  <2>1. \A t \in Target : (Registered(t) => Registered(t)') /\ (Agrees(t) => Agrees(t)')
    BY DEF Registered, Agrees
  <2> QED BY <2>1, MapFrame DEF SetupInv
<1>4. ConfRecorded'
  BY ConfFrame DEF SetupInv
<1> QED BY <1>1, <1>2, <1>3, <1>4 DEF SetupInv

(* A step that changes nothing but one clientServe handler. *)
LEMMA ServeOnly ==
  ASSUME Typed, SetupInv, NEW s \in ServeSession, UNCHANGED <<db, connMan, cs, devices>>,
         \A e \in ServeSession : e # s => ss'[e] = ss[e],
         OneSetup', ServeInv(s)',
         ss[s].pc \in Announced => ss'[s].pc \in Announced /\ ss'[s].target = ss[s].target,
         ss[s].pc = "blocked" =>
            \/ ss'[s].pc = "blocked" /\ ss'[s].target = ss[s].target
            \/ ss'[s].pc = "closed" /\ ss'[s].link = "closed",
         ss[s].pc = "closed" /\ ss[s].link = "closed"
            => ss'[s].pc = "closed" /\ ss'[s].link = "closed",
         ss[s].pc \in {"blocked", "closed"} /\ ss'[s].link = "up" => ss[s].link = "up"
  PROVE  SetupInv'
<1> UNCHANGED <<targets, connections, vpnServerConnections, deviceKey, clientConf, wgPeers>>
  BY DEF db, connMan, devices
<1>1. \A c \in ConnectSession : ConnectInv(c)'
  BY ConnectInvFrame DEF SetupInv
<1>2. \A e \in ServeSession : ServeInv(e)'
  BY ServeInvFrame DEF SetupInv
<1>3. MapInv'
  <2>1. ASSUME NEW t \in Target, vpnServerConnections[t] # Nil, vpnServerConnections[t] \in ServeSession
        PROVE  /\ Registered(t)' /\ Agrees(t)'
               /\ ss'[vpnServerConnections[t]].link = "up"
                    => ss[vpnServerConnections[t]].link = "up"
    <3>1. Registered(t) /\ Agrees(t)
      BY <2>1 DEF SetupInv, MapInv
    <3>2. Agrees(t)'
      BY <3>1 DEF Agrees
    <3>3. CASE vpnServerConnections[t] # s
      BY <2>1, <3>1, <3>2, <3>3 DEF Registered
    <3>4. CASE vpnServerConnections[t] = s
      <4>1. ss[s].pc \in {"blocked", "closed"}
        BY <3>1, <3>4 DEF Registered
      <4> QED BY <3>1, <3>2, <3>4, <4>1 DEF Registered
    <3> QED BY <3>3, <3>4
  <2>2. \A t \in Target : vpnServerConnections[t] # Nil => vpnServerConnections[t] \in ServeSession
    BY DEF Typed, TypeOK
  <2> QED BY <2>1, <2>2, MapFrame DEF SetupInv
<1>4. ConfRecorded'
  BY ConfFrame DEF SetupInv
<1> QED BY <1>1, <1>2, <1>3, <1>4 DEF SetupInv

-----------------------------------------------------------------------------
(* The steps of a clientConnect handler.                                   *)

LEMMA GotoConnectFields ==
  ASSUME Typed, NEW c \in ConnectSession, NEW pc, GotoConnect(c, pc)
  PROVE  /\ cs'[c].pc = pc /\ cs'[c].target = cs[c].target /\ cs'[c].device = cs[c].device
         /\ cs'[c].pubkey = cs[c].pubkey /\ cs'[c].id = cs[c].id
         /\ cs'[c].clientIp = cs[c].clientIp /\ cs'[c].vpnServerConn = cs[c].vpnServerConn
         /\ \A e \in ConnectSession : e # c => cs'[e] = cs[e]
  BY DEF GotoConnect, Typed, TypeOK, ConnectHandler

LEMMA ReturnConnectFields ==
  ASSUME Typed, NEW c \in ConnectSession, ReturnConnect(c)
  PROVE  cs'[c].pc = "closed" /\ \A e \in ConnectSession : e # c => cs'[e] = cs[e]
  BY DEF ReturnConnect, IdleConnect, Typed, TypeOK

(* A handler that returns before it has a row to append leaves nothing.    *)
LEMMA ReturnConnectSetup ==
  ASSUME Typed, SetupInv, NEW c \in ConnectSession, ReturnConnect(c),
         UNCHANGED <<db, connMan, ss, devices>>, cs[c].pc \notin {"getserver", "append"}
  PROVE  SetupInv'
<1>1. cs'[c].pc = "closed" /\ \A e \in ConnectSession : e # c => cs'[e] = cs[e]
  BY ReturnConnectFields
<1>2. OneSetup'
  BY <1>1, OneSetupConnect DEF SetupInv, Connecting, Settled
<1>3. ConnectInv(c)'
  BY <1>1, ConnectSettled DEF Settled
<1> QED BY <1>1, <1>2, <1>3, ConnectOnly

(* A link that gets worse is nothing to the set-up of a client. *)
LEMMA ConnectLinkSetup ==
  ASSUME Typed, SetupInv, NEW c \in ConnectSession, NEW l, cs' = [cs EXCEPT ![c].link = l],
         UNCHANGED <<db, connMan, ss, devices>>
  PROVE  SetupInv'
<1>1. /\ cs'[c].pc = cs[c].pc /\ cs'[c].target = cs[c].target /\ cs'[c].device = cs[c].device
      /\ cs'[c].pubkey = cs[c].pubkey /\ cs'[c].id = cs[c].id
      /\ cs'[c].clientIp = cs[c].clientIp /\ cs'[c].vpnServerConn = cs[c].vpnServerConn
      /\ \A e \in ConnectSession : e # c => cs'[e] = cs[e]
  BY DEF Typed, TypeOK, ConnectHandler
<1>2. OneSetup'
  BY <1>1, OneSetupConnect DEF SetupInv, Connecting
<1>3. ConnectInv(c)'
  <2>1. ConnectInv(c) /\ UNCHANGED <<connections, vpnServerConnections, deviceKey, clientConf>>
    BY DEF SetupInv, db, connMan, devices
  <2> QED BY <1>1, <2>1 DEF ConnectInv
<1> QED BY <1>1, <1>2, <1>3, ConnectOnly

LEMMA OpenConnectSetup ==
  ASSUME Typed, SetupInv, Sequential, NEW c \in ConnectSession, NEW d \in Device,
         NEW t \in Target, OpenConnect(c, d, t)
  PROVE  SetupInv'
<1>1. /\ cs'[c].pc = "auth" /\ cs'[c].device = d
      /\ \A e \in ConnectSession : e # c => cs'[e] = cs[e]
  BY DEF OpenConnect, IdleConnect, Typed, TypeOK
<1>2. /\ \A e \in ConnectSession : ~Connecting(e)
      /\ \A s \in ServeSession : ~Serving(s)
  BY MayOpenQuiet DEF OpenConnect, SetupInv, Sequential
<1>3. OneSetup'
  <2>1. \A e \in ConnectSession : Connecting(e)' => e = c
    BY <1>1, <1>2 DEF Connecting
  <2>2. \A s \in ServeSession : ~Serving(s)'
    BY <1>2 DEF OpenConnect, Serving
  <2> QED BY <2>1, <2>2 DEF OneSetup
<1>4. ConnectInv(c)'
  <2>1. cs[c].pc = "new" /\ connections' = connections /\ clientConf' = clientConf
        /\ clientConf[d] = Nil
    BY DEF OpenConnect, db, devices
  <2>2. connections[c] = Nil
    BY <2>1 DEF SetupInv, ConnectInv, Unwritten
  <2> QED BY <1>1, <2>1, <2>2 DEF ConnectInv, KeyKnown
<1>5. cs[c].pc = "new" /\ UNCHANGED <<db, connMan, ss, devices>>
  BY DEF OpenConnect
<1> QED BY <1>1, <1>3, <1>4, <1>5, ConnectOnly

(* A handler that goes on, with its locals for a target and a device as    *)
(* they were.                                                              *)
LEMMA ConnectGoesOn ==
  ASSUME SetupInv, NEW c \in ConnectSession, UNCHANGED <<db, connMan, ss, devices>>,
         \A e \in ConnectSession : e # c => cs'[e] = cs[e],
         cs[c].pc \notin Settled \cup {"getserver", "append"}, ConnectInv(c)'
  PROVE  SetupInv'
<1>1. OneSetup'
  BY OneSetupConnect DEF SetupInv, Connecting
<1> QED BY <1>1, ConnectOnly

LEMMA AuthSetup ==
  ASSUME Typed, SetupInv, NEW c \in ConnectSession, ConnectAuth(c)
  PROVE  SetupInv'
<1>1. UNCHANGED <<db, connMan, ss, devices>> /\ cs[c].pc = "auth"
  BY DEF ConnectAuth
<1>2. CASE ReturnConnect(c)
  BY <1>1, <1>2, ReturnConnectSetup
<1>3. CASE ~ReturnConnect(c)
  <2>1. /\ cs'[c].pc = "alive" /\ cs'[c].device = cs[c].device
        /\ \A e \in ConnectSession : e # c => cs'[e] = cs[e]
    BY <1>3 DEF ConnectAuth, Typed, TypeOK, ConnectHandler
  <2>2. ConnectInv(c) /\ UNCHANGED <<connections, clientConf>>
    BY <1>1 DEF SetupInv, db, devices
  <2>3. ConnectInv(c)'
    BY <1>1, <2>1, <2>2 DEF ConnectInv, Settled, Unwritten, KeyKnown
  <2> QED BY <1>1, <2>1, <2>3, ConnectGoesOn DEF Settled
<1> QED BY <1>2, <1>3

LEMMA AliveSetup ==
  ASSUME Typed, SetupInv, NEW c \in ConnectSession, ConnectAlive(c)
  PROVE  SetupInv'
<1>1. UNCHANGED <<db, connMan, ss, devices>> /\ cs[c].pc = "alive"
  BY DEF ConnectAlive
<1>2. CASE ReturnConnect(c)
  BY <1>1, <1>2, ReturnConnectSetup
<1>3. CASE GotoConnect(c, "info")
  <2>1. /\ cs'[c].pc = "info" /\ cs'[c].device = cs[c].device
        /\ \A e \in ConnectSession : e # c => cs'[e] = cs[e]
    BY <1>3, GotoConnectFields
  <2>2. ConnectInv(c) /\ UNCHANGED <<connections, clientConf>>
    BY <1>1 DEF SetupInv, db, devices
  <2>3. ConnectInv(c)'
    BY <1>1, <2>1, <2>2 DEF ConnectInv, Settled, Unwritten, KeyKnown
  <2> QED BY <1>1, <2>1, <2>3, ConnectGoesOn DEF Settled
<1> QED BY <1>2, <1>3 DEF ConnectAlive

LEMMA InfoSetup ==
  ASSUME Typed, SetupInv, NEW c \in ConnectSession, ConnectInfo(c)
  PROVE  SetupInv'
<1>1. UNCHANGED <<db, connMan, ss, devices>> /\ cs[c].pc = "info"
  BY DEF ConnectInfo
<1>2. /\ cs'[c].pc = "lookup" /\ cs'[c].device = cs[c].device
      /\ cs'[c].pubkey = <<cs[c].device, deviceKey[cs[c].device]>>
      /\ \A e \in ConnectSession : e # c => cs'[e] = cs[e]
  BY DEF ConnectInfo, Typed, TypeOK, ConnectHandler
<1>3. ConnectInv(c) /\ UNCHANGED <<connections, clientConf, deviceKey>>
  BY <1>1 DEF SetupInv, db, devices
<1>4. ConnectInv(c)'
  BY <1>1, <1>2, <1>3 DEF ConnectInv, Settled, Unwritten, KeyKnown
<1> QED BY <1>1, <1>2, <1>4, ConnectGoesOn DEF Settled

LEMMA LookupSetup ==
  ASSUME Typed, SetupInv, Sequential, NEW c \in ConnectSession, ConnectLookup(c)
  PROVE  SetupInv'
<1>1. UNCHANGED <<db, connMan, ss, devices>> /\ cs[c].pc = "lookup"
  BY DEF ConnectLookup
<1>2. ConnectInv(c) /\ UNCHANGED <<connections, clientConf, deviceKey>>
  BY <1>1 DEF SetupInv, db, devices
<1>3. CASE GotoConnect(c, "nextip")
           /\ GetConnection(connections, cs[c].target, cs[c].device) = {}
  <2>1. /\ cs'[c].pc = "nextip" /\ cs'[c].device = cs[c].device
        /\ cs'[c].target = cs[c].target /\ cs'[c].pubkey = cs[c].pubkey
        /\ \A e \in ConnectSession : e # c => cs'[e] = cs[e]
    BY <1>3, GotoConnectFields
  <2>2. ConnectInv(c)'
    BY <1>1, <1>2, <1>3, <2>1 DEF ConnectInv, Settled, Unwritten, KeyKnown
  <2> QED BY <1>1, <2>1, <2>2, ConnectGoesOn DEF Settled
<1>4. ASSUME NEW id \in GetConnection(connections, cs[c].target, cs[c].device),
             cs' = [cs EXCEPT ![c].pc = IF connections[id].pubkey = cs[c].pubkey
                                        THEN "connect" ELSE "sync",
                              ![c].id = id,
                              ![c].clientIp = connections[id].clientIp]
      PROVE  SetupInv'
  <2> DEFINE pc == IF connections[id].pubkey = cs[c].pubkey THEN "connect" ELSE "sync"
             ip == connections[id].clientIp
  <2>1. pc \in {"connect", "sync"} /\ (pc = "connect" => connections[id].pubkey = cs[c].pubkey)
    OBVIOUS
  <2>2. cs' = [cs EXCEPT ![c].pc = pc, ![c].id = id, ![c].clientIp = ip]
    BY <1>4
  <2>3. id \in ConnectSession /\ connections[id] # Nil /\ connections[id].target = cs[c].target
        /\ connections[id].deviceId = cs[c].device /\ connections[id].clientIp = ip
    BY <1>4 DEF GetConnection, GetConnectionsByTarget, Typed, TypeOK
  <2> HIDE DEF pc, ip
  <2>4. /\ cs'[c].pc = pc /\ cs'[c].device = cs[c].device /\ cs'[c].target = cs[c].target
        /\ cs'[c].pubkey = cs[c].pubkey /\ cs'[c].clientIp = ip
        /\ \A e \in ConnectSession : e # c => cs'[e] = cs[e]
    BY <2>2 DEF Typed, TypeOK, ConnectHandler
  <2>5. pc = "connect" => Recorded(connections, cs[c].target, cs[c].device, ip, cs[c].pubkey)
    BY <2>1, <2>3 DEF Recorded
  <2>6. ConnectInv(c)'
    BY <1>1, <1>2, <2>1, <2>4, <2>5 DEF ConnectInv, Settled, Unwritten, KeyKnown
  <2> QED BY <1>1, <2>4, <2>6, ConnectGoesOn DEF Settled
<1> QED BY <1>3, <1>4 DEF ConnectLookup, Sequential

LEMMA NextIpSetup ==
  ASSUME Typed, SetupInv, Sequential, NEW c \in ConnectSession, ConnectNextIp(c)
  PROVE  SetupInv'
<1>1. UNCHANGED <<db, connMan, ss, devices>> /\ cs[c].pc = "nextip"
  BY DEF ConnectNextIp
<1>2. ConnectInv(c) /\ UNCHANGED <<connections, clientConf, deviceKey>>
  BY <1>1 DEF SetupInv, db, devices
<1>3. CASE ReturnConnect(c)
  BY <1>1, <1>3, ReturnConnectSetup
<1>4. ASSUME NEW ip \in NextClientIp(GetTargetClientIps(connections, cs[c].target)),
             cs' = [cs EXCEPT ![c].pc = "exists", ![c].id = c, ![c].clientIp = ip]
      PROVE  SetupInv'
  <2>1. ip \notin GetTargetClientIps(connections, cs[c].target)
    BY <1>4 DEF NextClientIp
  <2>2. /\ cs'[c].pc = "exists" /\ cs'[c].device = cs[c].device /\ cs'[c].target = cs[c].target
        /\ cs'[c].pubkey = cs[c].pubkey /\ cs'[c].clientIp = ip /\ cs'[c].id = c
        /\ \A e \in ConnectSession : e # c => cs'[e] = cs[e]
    BY <1>4 DEF Typed, TypeOK, ConnectHandler
  <2>3. ConnectInv(c)'
    BY <1>1, <1>2, <2>1, <2>2 DEF ConnectInv, Settled, Unwritten, KeyKnown
  <2> QED BY <1>1, <2>2, <2>3, ConnectGoesOn DEF Settled
<1> QED BY <1>3, <1>4 DEF ConnectNextIp, Sequential, ReadRows

LEMMA ExistsSetup ==
  ASSUME Typed, SetupInv, NEW c \in ConnectSession, ConnectExists(c)
  PROVE  SetupInv'
<1>1. UNCHANGED <<db, connMan, ss, devices>> /\ cs[c].pc = "exists"
  BY DEF ConnectExists
<1>2. ConnectInv(c) /\ UNCHANGED <<connections, clientConf, deviceKey>>
  BY <1>1 DEF SetupInv, db, devices
<1>3. GotoConnect(c, "insert")
  BY <1>1, <1>2 DEF ConnectExists, ConnectInv
<1>4. /\ cs'[c].pc = "insert" /\ cs'[c].device = cs[c].device /\ cs'[c].target = cs[c].target
      /\ cs'[c].pubkey = cs[c].pubkey /\ cs'[c].clientIp = cs[c].clientIp
      /\ cs'[c].id = cs[c].id /\ \A e \in ConnectSession : e # c => cs'[e] = cs[e]
  BY <1>3, GotoConnectFields
<1>5. ConnectInv(c)'
  BY <1>1, <1>2, <1>4 DEF ConnectInv, Settled, Unwritten, KeyKnown
<1> QED BY <1>1, <1>4, <1>5, ConnectGoesOn DEF Settled

(* With the process go all handlers and all of the ConnectionManager; what *)
(* the devices were told stays recorded.                                   *)
LEMMA DieSetup ==
  ASSUME Typed, SetupInv, Die
  PROVE  SetupInv'
<1> UNCHANGED <<targets, connections, deviceKey, clientConf, wgPeers>>
  BY DEF Die, db, devices
<1>1. /\ \A c \in ConnectSession : cs'[c].pc \in {"new", "closed"}
                                   /\ (cs'[c].pc = "new" => cs[c].pc = "new")
      /\ \A s \in ServeSession : ss'[s].pc \in {"new", "closed"}
      /\ \A t \in Target : vpnServerConnections'[t] = Nil
  BY DEF Die, IdleConnect, IdleServe
<1>2. \A c \in ConnectSession : cs'[c].pc = "new" => connections'[c] = Nil
  BY <1>1 DEF SetupInv, ConnectInv, Unwritten
<1>3. OneSetup'
  BY <1>1 DEF OneSetup, Connecting, Serving, Settled
<1>4. \A c \in ConnectSession : ConnectInv(c)'
  BY <1>1, <1>2, ConnectSettled DEF Settled
<1>5. \A s \in ServeSession : ServeInv(s)'
  BY <1>1, ServeSettled DEF Settled
<1>6. MapInv'
  BY <1>1 DEF MapInv
<1>7. ConfRecorded'
  BY ConfFrame DEF SetupInv
<1> QED BY <1>3, <1>4, <1>5, <1>6, <1>7 DEF SetupInv

LEMMA GetServerSetup ==
  ASSUME Typed, SetupInv, NEW c \in ConnectSession, ConnectGetServer(c)
  PROVE  SetupInv'
<1>1. CASE Die
  BY <1>1, DieSetup
<1>2. CASE ~Die
  <2> DEFINE conn == vpnServerConnections[cs[c].target]
  <2>1. UNCHANGED <<db, connMan, ss, devices>> /\ cs[c].pc = "getserver"
        /\ cs' = [cs EXCEPT ![c].pc = "append", ![c].vpnServerConn = conn]
    BY <1>2 DEF ConnectGetServer
  <2>2. ConnectInv(c)
        /\ UNCHANGED <<connections, clientConf, deviceKey, vpnServerConnections>>
    BY <2>1 DEF SetupInv, db, devices, connMan
  <2> HIDE DEF conn
  <2>3. /\ cs'[c].pc = "append" /\ cs'[c].device = cs[c].device /\ cs'[c].target = cs[c].target
        /\ cs'[c].pubkey = cs[c].pubkey /\ cs'[c].clientIp = cs[c].clientIp
        /\ cs'[c].vpnServerConn = conn /\ \A e \in ConnectSession : e # c => cs'[e] = cs[e]
    BY <2>1 DEF Typed, TypeOK, ConnectHandler
  <2>4. ConnectInv(c)'
    BY <2>1, <2>2, <2>3 DEF ConnectInv, Settled, Unwritten, KeyKnown, conn
  <2>5. OneSetup'
    BY <2>1, <2>3, OneSetupConnect DEF SetupInv, Connecting, Settled
  <2> QED BY <2>1, <2>3, <2>4, <2>5, ConnectOnly
<1> QED BY <1>1, <1>2

(* A handler in its set-up is the only one. *)
LEMMA ConnectAlone ==
  ASSUME SetupInv, NEW c \in ConnectSession, cs[c].pc \notin Settled
  PROVE  /\ \A e \in ConnectSession : e # c => cs[e].pc \in Settled
         /\ \A s \in ServeSession : ss[s].pc \in Settled
  BY DEF SetupInv, OneSetup, Connecting, Serving

(* The row of the handler's device is written, and the server is not told  *)
(* yet: by syncConnectionPubkey or by the INSERT.                          *)
LEMMA RowWritten ==
  ASSUME Typed, SetupInv, NEW c \in ConnectSession, cs[c].pc \in {"sync", "insert"},
         GotoConnect(c, "getserver"), UNCHANGED <<targets, connMan, ss, devices>>,
         NEW id \in ConnectSession, NEW row \in Row,
         connections' = [connections EXCEPT ![id] = row],
         row.target = cs[c].target, row.deviceId = cs[c].device,
         row.clientIp = cs[c].clientIp, row.pubkey = cs[c].pubkey,
         \/ /\ connections[id] # Nil
            /\ connections[id].target = cs[c].target
            /\ connections[id].deviceId = cs[c].device
            /\ connections[id].clientIp = cs[c].clientIp
         \/ /\ id = c /\ connections[id] = Nil
            /\ cs[c].clientIp \notin GetTargetClientIps(connections, cs[c].target)
  PROVE  SetupInv'
<1> UNCHANGED <<targets, vpnServerConnections, deviceKey, clientConf, wgPeers>>
  BY DEF connMan, devices
<1>1. /\ cs'[c].pc = "getserver" /\ cs'[c].target = cs[c].target
      /\ cs'[c].device = cs[c].device /\ cs'[c].pubkey = cs[c].pubkey
      /\ cs'[c].clientIp = cs[c].clientIp
      /\ \A e \in ConnectSession : e # c => cs'[e] = cs[e]
  BY GotoConnectFields
<1>2. /\ connections'[id] = row /\ row # Nil
      /\ \A i \in ConnectSession : i # id => connections'[i] = connections[i]
  BY NilRowAssumption DEF Typed, TypeOK
<1>3. /\ \A e \in ConnectSession : e # c => cs[e].pc \in Settled
      /\ \A s \in ServeSession : ss[s].pc \in Settled
  BY ConnectAlone DEF Settled
<1>4. clientConf[cs[c].device] = Nil
      /\ cs[c].pubkey = <<cs[c].device, deviceKey[cs[c].device]>>
  BY DEF SetupInv, ConnectInv, KeyKnown, Settled
<1>5. OneSetup'
  BY <1>1, OneSetupConnect DEF SetupInv, Connecting, Settled
<1>6. UniqueIps(connections')
  <2>1. ASSUME NEW i \in ConnectSession, i # id, connections[i] # Nil,
               connections[i].target = row.target
        PROVE  connections[i].clientIp # row.clientIp
    <3>1. CASE connections[id] # Nil
      BY <2>1, <3>1 DEF SetupInv, UniqueIps
    <3>2. CASE row.clientIp \notin GetTargetClientIps(connections, row.target)
      BY <2>1, <3>2 DEF GetTargetClientIps, GetConnectionsByTarget, Typed, TypeOK
    <3> QED BY <3>1, <3>2
  <2>2. UniqueIps(connections)
    BY DEF SetupInv
  <2> QED BY <1>2, <2>1, <2>2 DEF UniqueIps
<1>7. ConnectInv(c)'
  <2>1. Recorded(connections', cs[c].target, cs[c].device, cs[c].clientIp, cs[c].pubkey)
    BY <1>2 DEF Recorded
  <2> QED BY <1>1, <1>4, <2>1 DEF ConnectInv, Unwritten
<1>8. \A e \in ConnectSession : ConnectInv(e)'
  <2>1. ASSUME NEW e \in ConnectSession, e # c
        PROVE  ConnectInv(e)'
    <3>1. cs'[e] = cs[e] /\ cs[e].pc \in Settled
      BY <1>1, <1>3, <2>1
    <3>2. cs[e].pc = "new" => connections[e] = Nil
      BY DEF SetupInv, ConnectInv, Unwritten
    <3>3. connections[e] = Nil => connections'[e] = Nil
      BY <1>2, <2>1
    <3> QED BY <3>1, <3>2, <3>3, ConnectSettled
  <2> QED BY <1>7, <2>1
<1>9. \A s \in ServeSession : ServeInv(s)'
  BY <1>3, ServeSettled
<1>10. MapInv'
  <2>1. ASSUME NEW t \in Target, vpnServerConnections[t] # Nil
        PROVE  Registered(t)' /\ Agrees(t)' /\ PeersCurrent(t)'
    <3>1. Registered(t) /\ Agrees(t) /\ PeersCurrent(t)
      BY <2>1 DEF SetupInv, MapInv
    <3>2. Registered(t)' /\ Agrees(t)'
      BY <3>1 DEF Registered, Agrees
    <3>3. \A ip : ~Appending(t, ip)
      BY <1>3 DEF Appending, Settled
    <3>4. row.target = t => Appending(t, row.clientIp)'
      BY <1>1 DEF Appending
    <3>5. PeersCurrent(t)'
      BY <1>2, <3>1, <3>3, <3>4 DEF PeersCurrent
    <3> QED BY <3>2, <3>5
  <2> QED BY <2>1 DEF MapInv
<1>11. ConfRecorded'
  <2>1. ASSUME NEW d \in Device, clientConf[d] # Nil
        PROVE  Recorded(connections', clientConf[d].target, d, clientConf[d].clientIp,
                        clientConf[d].pubkey)
    <3>1. Recorded(connections, clientConf[d].target, d, clientConf[d].clientIp,
                   clientConf[d].pubkey)
      BY <2>1 DEF SetupInv, ConfRecorded
    <3>2. PICK i \in ConnectSession :
            /\ connections[i] # Nil /\ connections[i].target = clientConf[d].target
            /\ connections[i].deviceId = d /\ connections[i].clientIp = clientConf[d].clientIp
            /\ connections[i].pubkey = clientConf[d].pubkey
      BY <3>1 DEF Recorded
    <3>3. d # cs[c].device
      BY <1>4, <2>1
    <3>4. connections'[i] = connections[i]
      BY <1>2, <3>2, <3>3
    <3> QED BY <3>2, <3>4 DEF Recorded
  <2> QED BY <2>1 DEF ConfRecorded
<1> QED BY <1>5, <1>6, <1>8, <1>9, <1>10, <1>11 DEF SetupInv

LEMMA SyncSetup ==
  ASSUME Typed, AddressInv, SetupInv, Sequential, NEW c \in ConnectSession, ConnectSync(c)
  PROVE  SetupInv'
<1> DEFINE row == [target |-> cs[c].target, deviceId |-> cs[c].device,
                   pubkey |-> cs[c].pubkey, clientIp |-> cs[c].clientIp]
<1>1. /\ cs[c].pc = "sync" /\ GotoConnect(c, "getserver")
      /\ UNCHANGED <<targets, connMan, ss, devices>>
  BY DEF ConnectSync, Sequential
<1>2. /\ cs[c].id \in ConnectSession /\ connections[cs[c].id] # Nil
      /\ connections[cs[c].id].target = cs[c].target
      /\ connections[cs[c].id].deviceId = cs[c].device
      /\ connections[cs[c].id].clientIp = cs[c].clientIp
  BY <1>1 DEF Typed, LocalsSet, AddressInv, SyncsSameRow
<1>3. connections' = [connections EXCEPT ![cs[c].id] = row]
  BY <1>2 DEF ConnectSync, UpdateConnection
<1>4. /\ row \in Row /\ row.target = cs[c].target /\ row.deviceId = cs[c].device
      /\ row.clientIp = cs[c].clientIp /\ row.pubkey = cs[c].pubkey
  BY <1>1, RowTyped
<1> HIDE DEF row
<1> QED BY <1>1, <1>2, <1>3, <1>4, RowWritten

LEMMA InsertSetup ==
  ASSUME Typed, SetupInv, Sequential, NEW c \in ConnectSession, ConnectInsert(c)
  PROVE  SetupInv'
<1> DEFINE row == [target |-> cs[c].target, deviceId |-> cs[c].device,
                   pubkey |-> cs[c].pubkey, clientIp |-> cs[c].clientIp]
<1>1. /\ cs[c].pc = "insert" /\ GotoConnect(c, "getserver")
      /\ UNCHANGED <<targets, connMan, ss, devices>>
  BY DEF ConnectInsert, Sequential
<1>2. /\ cs[c].id = c /\ connections[c] = Nil
      /\ cs[c].clientIp \notin GetTargetClientIps(connections, cs[c].target)
  BY <1>1 DEF SetupInv, ConnectInv, Unwritten
<1>3. connections' = [connections EXCEPT ![c] = row]
  BY <1>2 DEF ConnectInsert, CreateConnection
<1>4. /\ row \in Row /\ row.target = cs[c].target /\ row.deviceId = cs[c].device
      /\ row.clientIp = cs[c].clientIp /\ row.pubkey = cs[c].pubkey
  BY <1>1, RowTyped
<1> HIDE DEF row
<1> QED BY <1>1, <1>2, <1>3, <1>4, RowWritten

(* append_vpn_peers completes the peers of the server the target has; it   *)
(* cannot take an address from another row.                                *)
LEMMA AppendSetup ==
  ASSUME Typed, SetupInv, NEW c \in ConnectSession, ConnectAppend(c)
  PROVE  SetupInv'
<1> DEFINE u == cs[c].target
           ip == cs[c].clientIp
           key == cs[c].pubkey
           conn == cs[c].vpnServerConn
<1> UNCHANGED <<targets, connections, vpnServerConnections, deviceKey, clientConf, ss>>
  BY DEF ConnectAppend, db, connMan
<1>1. cs[c].pc = "append" /\ GotoConnect(c, "connect")
  BY DEF ConnectAppend
<1>2. /\ cs'[c].pc = "connect" /\ cs'[c].target = u /\ cs'[c].device = cs[c].device
      /\ cs'[c].pubkey = key /\ cs'[c].clientIp = ip
      /\ \A e \in ConnectSession : e # c => cs'[e] = cs[e]
  BY <1>1, GotoConnectFields
<1>3. /\ \A e \in ConnectSession : e # c => cs[e].pc \in Settled
      /\ \A s \in ServeSession : ss[s].pc \in Settled
  BY <1>1, ConnectAlone DEF Settled
<1>4. /\ conn \in ServeSession /\ u \in Target /\ ip \in ClientIp
      /\ wgPeers[conn] \in Peers /\ DOMAIN wgPeers = ServeSession
  BY <1>1 DEF Typed, TypeOK, LocalsSet
<1>5. conn = vpnServerConnections[u] /\ conn # Nil
  BY <1>1, <1>4, SessionAssumption DEF SetupInv, ConnectInv
<1>6. Recorded(connections, u, cs[c].device, ip, key)
  BY <1>1 DEF SetupInv, ConnectInv
<1>7. /\ ss[conn].link = "up" =>
           /\ wgPeers'[conn][ip] = key
           /\ \A i \in ClientIp : i # ip => wgPeers'[conn][i] = wgPeers[conn][i]
      /\ \A s \in ServeSession : s # conn => wgPeers'[s] = wgPeers[s]
  BY <1>4 DEF ConnectAppend, AppendPeer, Peers
<1>8. OneSetup'
  BY <1>1, <1>2, OneSetupConnect DEF SetupInv, Connecting, Settled
<1>9. ConnectInv(c)'
  <2>1. ConnectInv(c)
    BY DEF SetupInv
  <2> QED BY <1>1, <1>2, <1>6, <2>1 DEF ConnectInv, Unwritten, KeyKnown, Settled
<1>10. \A e \in ConnectSession : ConnectInv(e)'
  BY <1>2, <1>9, ConnectInvFrame DEF SetupInv
<1>11. \A s \in ServeSession : ServeInv(s)'
  BY <1>3, ServeSettled
<1>12. ASSUME NEW t \in Target, vpnServerConnections[t] # Nil
       PROVE  Registered(t)' /\ Agrees(t)' /\ PeersCurrent(t)'
  <2>1. Registered(t) /\ Agrees(t) /\ PeersCurrent(t)
    BY <1>12 DEF SetupInv, MapInv
  <2>2. Registered(t)' /\ Agrees(t)'
    BY <2>1 DEF Registered, Agrees
  <2>3. \A i : Appending(t, i) => t = u /\ i = ip
    BY <1>3 DEF Appending, Settled
  <2>4. ASSUME ss[vpnServerConnections[t]].link = "up", NEW id \in ConnectSession,
               connections[id] # Nil, connections[id].target = t
        PROVE  wgPeers'[vpnServerConnections[t]][connections[id].clientIp]
                 = connections[id].pubkey
    <3>1. connections[id].clientIp \in ClientIp
      BY <2>4 DEF Typed, TypeOK, Row
    <3>2. \/ wgPeers[vpnServerConnections[t]][connections[id].clientIp] = connections[id].pubkey
          \/ Appending(t, connections[id].clientIp)
      BY <2>1, <2>4 DEF PeersCurrent
    <3>3. CASE t = u /\ connections[id].clientIp = ip
      <4>1. connections[id].pubkey = key
        BY <1>6, <2>4, <3>3 DEF Recorded, SetupInv, UniqueIps
      <4> QED BY <1>5, <1>7, <2>4, <3>3, <4>1
    <3>4. CASE t = u /\ connections[id].clientIp # ip
      BY <1>5, <1>7, <2>3, <2>4, <3>1, <3>2, <3>4
    <3>5. CASE t # u
      <4>1. Registered(u)
        BY <1>4, <1>5 DEF SetupInv, MapInv
      <4>2. vpnServerConnections[t] # conn
        BY <1>5, <2>1, <2>4, <3>5, <4>1 DEF Registered
      <4>3. vpnServerConnections[t] \in ServeSession
        BY <1>12 DEF Typed, TypeOK
      <4> QED BY <1>7, <2>3, <3>2, <3>5, <4>2, <4>3
    <3> QED BY <3>3, <3>4, <3>5
  <2>5. PeersCurrent(t)'
    BY <2>4 DEF PeersCurrent
  <2> QED BY <2>2, <2>5
<1>13. MapInv'
  BY <1>12 DEF MapInv
<1>14. ConfRecorded'
  BY ConfFrame DEF SetupInv
<1> QED BY <1>8, <1>10, <1>11, <1>13, <1>14 DEF SetupInv

(* connect_server configures the device with what is in its row. *)
LEMMA ServerSetup ==
  ASSUME Typed, SetupInv, NEW c \in ConnectSession, ConnectServer(c)
  PROVE  SetupInv'
<1> DEFINE d == cs[c].device
           conf == [target |-> cs[c].target, server |-> cs[c].serverPubkey,
                    clientIp |-> cs[c].clientIp, pubkey |-> <<d, deviceKey[d]>>]
<1> UNCHANGED <<targets, connections, vpnServerConnections, deviceKey, wgPeers, ss>>
  BY DEF ConnectServer, db
<1>1. cs[c].pc = "connect" /\ d \in Device
  BY DEF ConnectServer, Typed, LocalsSet
<1>2. cs'[c].pc = "blocked" /\ \A e \in ConnectSession : e # c => cs'[e] = cs[e]
  BY DEF ConnectServer, IdleConnect, Typed, TypeOK
<1>3. clientConf' = [clientConf EXCEPT ![d] = conf] \/ clientConf' = clientConf
  BY DEF ConnectServer
<1>4. /\ \A e \in ConnectSession : e # c => cs[e].pc \in Settled
      /\ \A s \in ServeSession : ss[s].pc \in Settled
  BY <1>1, ConnectAlone DEF Settled
<1>5. Recorded(connections, conf.target, d, conf.clientIp, conf.pubkey)
  BY <1>1 DEF SetupInv, ConnectInv, KeyKnown
<1>6. OneSetup'
  BY <1>2, OneSetupConnect DEF SetupInv, Connecting, Settled
<1>7. \A e \in ConnectSession : ConnectInv(e)'
  <2>1. ASSUME NEW e \in ConnectSession, e # c
        PROVE  ConnectInv(e)'
    <3>1. cs'[e].pc \in Settled /\ (cs'[e].pc = "new" => connections'[e] = Nil)
      BY <1>2, <1>4, <2>1 DEF SetupInv, ConnectInv, Unwritten
    <3> QED BY <3>1, ConnectSettled
  <2>2. ConnectInv(c)'
    BY <1>2, ConnectSettled DEF Settled
  <2> QED BY <2>1, <2>2
<1>8. \A s \in ServeSession : ServeInv(s)'
  BY <1>4, ServeSettled
<1>9. MapInv'
  <2>1. \A t \in Target : (Registered(t) => Registered(t)') /\ (Agrees(t) => Agrees(t)')
    BY DEF Registered, Agrees
  <2>2. \A e \in ConnectSession : cs[e].pc \notin {"getserver", "append"}
    BY <1>1, <1>4 DEF Settled
  <2> QED BY <2>1, <2>2, MapFrame DEF SetupInv
<1> HIDE DEF conf
<1>10. ConfRecorded'
  <2>1. ASSUME NEW e \in Device
        PROVE  clientConf'[e] = clientConf[e] \/ (e = d /\ clientConf'[e] = conf)
    BY <1>1, <1>3 DEF Typed, TypeOK
  <2> QED BY <1>5, <2>1 DEF SetupInv, ConfRecorded
<1> QED BY <1>6, <1>7, <1>8, <1>9, <1>10 DEF SetupInv

-----------------------------------------------------------------------------
(* The steps of a clientServe handler.                                     *)

LEMMA GotoServeFields ==
  ASSUME Typed, NEW s \in ServeSession, NEW pc, GotoServe(s, pc)
  PROVE  /\ ss'[s].pc = pc /\ ss'[s].target = ss[s].target /\ ss'[s].link = ss[s].link
         /\ ss'[s].found = ss[s].found /\ ss'[s].peers = ss[s].peers
         /\ \A e \in ServeSession : e # s => ss'[e] = ss[e]
  BY DEF GotoServe, Typed, TypeOK, ServeHandler

LEMMA ServeAlone ==
  ASSUME SetupInv, NEW s \in ServeSession, ss[s].pc \notin Settled
  PROVE  /\ \A e \in ServeSession : e # s => ss[e].pc \in Settled
         /\ \A c \in ConnectSession : cs[c].pc \in Settled
  BY DEF SetupInv, OneSetup, Connecting, Serving

(* A handler that returns before it has announced its server, or after it  *)
(* has blocked.                                                            *)
LEMMA ReturnServeSetup ==
  ASSUME Typed, SetupInv, NEW s \in ServeSession, ReturnServe(s),
         UNCHANGED <<db, connMan, cs, devices>>, ss[s].pc \notin Announced
  PROVE  SetupInv'
<1>1. /\ ss'[s].pc = "closed" /\ ss'[s].link = "closed"
      /\ \A e \in ServeSession : e # s => ss'[e] = ss[e]
  BY DEF ReturnServe, IdleServe, Typed, TypeOK
<1>2. OneSetup'
  BY <1>1, OneSetupServe DEF SetupInv, Serving, Settled
<1>3. ServeInv(s)'
  BY <1>1, ServeSettled DEF Settled
<1> QED BY <1>1, <1>2, <1>3, ServeOnly

LEMMA OpenServeSetup ==
  ASSUME Typed, SetupInv, Sequential, NEW s \in ServeSession, NEW t \in Target,
         OpenServe(s, t)
  PROVE  SetupInv'
<1>1. ss'[s].pc = "auth" /\ \A e \in ServeSession : e # s => ss'[e] = ss[e]
  BY DEF OpenServe, IdleServe, Typed, TypeOK
<1>2. /\ \A c \in ConnectSession : ~Connecting(c)
      /\ \A e \in ServeSession : ~Serving(e)
  BY MayOpenQuiet DEF OpenServe, SetupInv, Sequential
<1>3. OneSetup'
  <2>1. \A e \in ServeSession : Serving(e)' => e = s
    BY <1>1, <1>2 DEF Serving
  <2>2. \A c \in ConnectSession : ~Connecting(c)'
    BY <1>2 DEF OpenServe, Connecting
  <2> QED BY <2>1, <2>2 DEF OneSetup
<1>4. ServeInv(s)'
  BY <1>1 DEF ServeInv, Announced
<1>5. ss[s].pc = "new" /\ UNCHANGED <<db, connMan, cs, devices>>
  BY DEF OpenServe
<1> QED BY <1>1, <1>3, <1>4, <1>5, ServeOnly DEF Announced

(* A handler that has not registered goes on, and remains announced if it  *)
(* was.                                                                    *)
LEMMA ServeGoesOn ==
  ASSUME Typed, SetupInv, NEW s \in ServeSession, UNCHANGED <<db, connMan, cs, devices>>,
         \A e \in ServeSession : e # s => ss'[e] = ss[e],
         ss[s].pc \notin Settled, ServeInv(s)',
         ss[s].pc \in Announced => ss'[s].pc \in Announced /\ ss'[s].target = ss[s].target
  PROVE  SetupInv'
<1>1. OneSetup'
  BY OneSetupServe DEF SetupInv, Serving
<1>2. ss[s].pc # "blocked" /\ ss[s].pc # "closed"
  BY DEF Settled
<1> QED BY <1>1, <1>2, ServeOnly

LEMMA ServeAuthSetup ==
  ASSUME Typed, SetupInv, NEW s \in ServeSession, ServeAuth(s)
  PROVE  SetupInv'
<1>1. UNCHANGED <<db, connMan, cs, devices>> /\ ss[s].pc = "auth"
  BY DEF ServeAuth
<1>2. CASE ReturnServe(s)
  BY <1>1, <1>2, ReturnServeSetup DEF Announced
<1>3. CASE ~ReturnServe(s)
  <2> DEFINE f == targets[ss[s].target] # Nil
  <2>1. ss' = [ss EXCEPT ![s].pc = "info", ![s].found = f]
    BY <1>3 DEF ServeAuth
  <2> HIDE DEF f
  <2>2. /\ ss'[s].pc = "info" /\ ss'[s].found = f /\ ss'[s].target = ss[s].target
        /\ \A e \in ServeSession : e # s => ss'[e] = ss[e]
    BY <2>1 DEF Typed, TypeOK, ServeHandler
  <2>3. targets' = targets
    BY <1>1 DEF db
  <2>4. ServeInv(s)'
    BY <2>2, <2>3 DEF ServeInv, Announced, f
  <2> QED BY <1>1, <2>2, <2>4, ServeGoesOn DEF Settled, Announced
<1> QED BY <1>2, <1>3

LEMMA ServeInfoSetup ==
  ASSUME Typed, SetupInv, NEW s \in ServeSession, ServeInfo(s)
  PROVE  SetupInv'
<1>1. CASE Die
  BY <1>1, DieSetup
<1>2. CASE ~Die
  <2>1. UNCHANGED <<db, connMan, cs, devices>> /\ ss[s].pc = "info" /\ ss[s].found
        /\ GotoServe(s, "update")
    BY <1>2 DEF ServeInfo
  <2>2. ss'[s].pc = "update" /\ ss'[s].target = ss[s].target
        /\ \A e \in ServeSession : e # s => ss'[e] = ss[e]
    BY <2>1, GotoServeFields
  <2>3. ServeInv(s) /\ targets' = targets
    BY <2>1 DEF SetupInv, db
  <2>4. ServeInv(s)'
    BY <2>1, <2>2, <2>3 DEF ServeInv, Announced
  <2> QED BY <2>1, <2>2, <2>4, ServeGoesOn DEF Settled, Announced
<1> QED BY <1>1, <1>2

(* A server that is still being set up is in no entry of the               *)
(* ConnectionManager.                                                      *)
LEMMA NotRegistered ==
  ASSUME Typed, SetupInv, NEW s \in ServeSession, ss[s].pc \notin Settled,
         NEW t \in Target, vpnServerConnections[t] # Nil
  PROVE  vpnServerConnections[t] # s /\ vpnServerConnections[t] \in ServeSession
<1>1. Registered(t)
  BY DEF SetupInv, MapInv
<1>2. vpnServerConnections[t] \in ServeSession
  BY DEF Typed, TypeOK
<1> QED BY <1>1, <1>2 DEF Registered, Settled

LEMMA ServeUpdateSetup ==
  ASSUME Typed, SetupInv, Sequential, NEW s \in ServeSession, ServeUpdate(s)
  PROVE  SetupInv'
<1> DEFINE u == ss[s].target
<1> UNCHANGED <<connections, vpnServerConnections, deviceKey, clientConf, wgPeers, cs>>
  BY DEF ServeUpdate, connMan, devices
<1>1. ss[s].pc = "update" /\ GotoServe(s, "peers") /\ targets' = UpdateTarget(targets, u, s)
  BY DEF ServeUpdate, Sequential
<1>2. ss'[s].pc = "peers" /\ ss'[s].target = u /\ ss'[s].link = ss[s].link
      /\ \A e \in ServeSession : e # s => ss'[e] = ss[e]
  BY <1>1, GotoServeFields
<1>3. u \in Target /\ targets[u] # Nil
  BY <1>1 DEF SetupInv, ServeInv, Typed, LocalsSet
<1>4. /\ targets' = [targets EXCEPT ![u] = [serverPubkey |-> s]]
      /\ DOMAIN targets = Target
  BY <1>1, <1>3 DEF UpdateTarget, Typed, TypeOK
<1>5. /\ \A e \in ServeSession : e # s => ss[e].pc \in Settled
      /\ \A c \in ConnectSession : cs[c].pc \in Settled
  BY <1>1, ServeAlone DEF Settled
<1>6. OneSetup'
  BY <1>1, <1>2, OneSetupServe DEF SetupInv, Serving, Settled
<1>7. \A c \in ConnectSession : ConnectInv(c)'
  BY ConnectInvFrame DEF SetupInv
<1>8. [serverPubkey |-> s] # Nil
  BY NilTargetAssumption
<1>9. targets'[u] # Nil /\ targets'[u].serverPubkey = s
  BY <1>3, <1>4, <1>8
<1>10. ServeInv(s)'
  BY <1>2, <1>9 DEF ServeInv, Announced
<1>11. \A e \in ServeSession : ServeInv(e)'
  BY <1>2, <1>5, <1>10, ServeSettled
<1>12. ASSUME NEW t \in Target, vpnServerConnections[t] # Nil
       PROVE  Registered(t)' /\ Agrees(t)' /\ PeersCurrent(t)'
  <2>1. Registered(t) /\ Agrees(t) /\ PeersCurrent(t)
    BY <1>12 DEF SetupInv, MapInv
  <2>2. vpnServerConnections[t] # s /\ vpnServerConnections[t] \in ServeSession
    BY <1>1, <1>12, NotRegistered DEF Settled
  <2>3. Registered(t)'
    BY <1>2, <2>1, <2>2 DEF Registered
  <2>4. Agrees(t)'
    <3>1. CASE t = u
      BY <1>2, <3>1 DEF Agrees, Announced
    <3>2. CASE t # u
      <4>1. targets[t] # Nil /\ targets[t].serverPubkey = vpnServerConnections[t]
        BY <1>1, <1>5, <2>1, <3>2 DEF Agrees, Announced, Settled
      <4> QED BY <1>4, <3>2, <4>1 DEF Agrees
    <3> QED BY <3>1, <3>2
  <2>5. PeersCurrent(t)'
    BY <1>2, <2>1, <2>2 DEF PeersCurrent, Appending
  <2> QED BY <2>3, <2>4, <2>5
<1>13. MapInv'
  BY <1>12 DEF MapInv
<1>14. ConfRecorded'
  BY ConfFrame DEF SetupInv
<1> QED BY <1>6, <1>7, <1>11, <1>13, <1>14 DEF SetupInv

(* The answer of getConnectionsByTarget, as peers, is all there is. *)
LEMMA PeersOfCovers ==
  ASSUME Typed, UniqueIps(connections), NEW t
  PROVE  Covers(connections, PeersOf(GetConnectionsByTarget(connections, t)), t)
<1> DEFINE rows == GetConnectionsByTarget(connections, t)
<1> SUFFICES ASSUME NEW id \in ConnectSession, connections[id] # Nil,
                    connections[id].target = t
             PROVE  PeersOf(rows)[connections[id].clientIp] = connections[id].pubkey
  BY DEF Covers
<1> DEFINE ip == connections[id].clientIp
<1>1. id \in rows /\ ip \in ClientIp
  BY DEF GetConnectionsByTarget, Typed, TypeOK, Row
<1>2. \A i \in rows : connections[i].clientIp = ip => i = id
  BY DEF GetConnectionsByTarget, UniqueIps, Typed, TypeOK
<1> HIDE DEF rows
<1>3. (CHOOSE i \in rows : connections[i].clientIp = ip) = id
  BY <1>1, <1>2
<1> QED BY <1>1, <1>3 DEF PeersOf

LEMMA ServePeersSetup ==
  ASSUME Typed, SetupInv, Sequential, NEW s \in ServeSession, ServePeers(s)
  PROVE  SetupInv'
<1> DEFINE p == PeersOf(GetConnectionsByTarget(connections, ss[s].target))
<1>1. UNCHANGED <<db, connMan, cs, devices>> /\ ss[s].pc = "peers"
      /\ ss' = [ss EXCEPT ![s].pc = "serve", ![s].peers = p]
  BY DEF ServePeers, Sequential, ReadRows
<1>2. Covers(connections, p, ss[s].target)
  BY PeersOfCovers DEF SetupInv
<1> HIDE DEF p
<1>3. /\ ss'[s].pc = "serve" /\ ss'[s].peers = p /\ ss'[s].target = ss[s].target
      /\ \A e \in ServeSession : e # s => ss'[e] = ss[e]
  BY <1>1 DEF Typed, TypeOK, ServeHandler
<1>4. ServeInv(s) /\ UNCHANGED <<targets, connections>>
  BY <1>1 DEF SetupInv, db
<1>5. ServeInv(s)'
  BY <1>1, <1>2, <1>3, <1>4 DEF ServeInv, Announced
<1> QED BY <1>1, <1>3, <1>5, ServeGoesOn DEF Settled, Announced

LEMMA ServeVpnSetup ==
  ASSUME Typed, SetupInv, NEW s \in ServeSession, ServeVpn(s)
  PROVE  SetupInv'
<1> UNCHANGED <<targets, connections, vpnServerConnections, deviceKey, clientConf, cs>>
  BY DEF ServeVpn, db, connMan
<1>1. ss[s].pc = "serve" /\ GotoServe(s, "register")
  BY DEF ServeVpn
<1>2. ss'[s].pc = "register" /\ ss'[s].target = ss[s].target /\ ss'[s].link = ss[s].link
      /\ \A e \in ServeSession : e # s => ss'[e] = ss[e]
  BY <1>1, GotoServeFields
<1>3. /\ ss[s].link = "up" => wgPeers'[s] = ss[s].peers
      /\ \A e \in ServeSession : e # s => wgPeers'[e] = wgPeers[e]
  BY DEF ServeVpn, Typed, TypeOK
<1>4. OneSetup'
  BY <1>1, <1>2, OneSetupServe DEF SetupInv, Serving, Settled
<1>5. \A c \in ConnectSession : ConnectInv(c)'
  BY ConnectInvFrame DEF SetupInv
<1>6. ServeInv(s)'
  <2>1. ServeInv(s)
    BY DEF SetupInv
  <2> QED BY <1>1, <1>2, <1>3, <2>1 DEF ServeInv, Announced
<1>7. \A e \in ServeSession : ServeInv(e)'
  BY <1>2, <1>3, <1>6, ServeInvFrame DEF SetupInv
<1>8. ASSUME NEW t \in Target, vpnServerConnections[t] # Nil
      PROVE  Registered(t)' /\ Agrees(t)' /\ PeersCurrent(t)'
  <2>1. Registered(t) /\ Agrees(t) /\ PeersCurrent(t)
    BY <1>8 DEF SetupInv, MapInv
  <2>2. vpnServerConnections[t] # s /\ vpnServerConnections[t] \in ServeSession
    BY <1>1, <1>8, NotRegistered DEF Settled
  <2>3. Registered(t)'
    BY <1>2, <2>1, <2>2 DEF Registered
  <2>4. Agrees(t)'
    BY <1>1, <1>2, <2>1 DEF Agrees, Announced
  <2>5. PeersCurrent(t)'
    BY <1>2, <1>3, <2>1, <2>2 DEF PeersCurrent, Appending
  <2> QED BY <2>3, <2>4, <2>5
<1>9. MapInv'
  BY <1>8 DEF MapInv
<1>10. ConfRecorded'
  BY ConfFrame DEF SetupInv
<1> QED BY <1>4, <1>5, <1>7, <1>9, <1>10 DEF SetupInv

(* setVPNServerConn: the row of the target, its entry and the peers of the *)
(* device agree.                                                           *)
LEMMA ServeRegisterSetup ==
  ASSUME Typed, SetupInv, NEW s \in ServeSession, ServeRegister(s)
  PROVE  SetupInv'
<1> DEFINE u == ss[s].target
<1> UNCHANGED <<targets, connections, deviceKey, clientConf, wgPeers, cs>>
  BY DEF ServeRegister, db, devices
<1>1. ss[s].pc = "register" /\ u \in Target
  BY DEF ServeRegister, Typed, LocalsSet
<1>2. ss'[s].pc = "blocked" /\ ss'[s].target = u /\ ss'[s].link = ss[s].link
      /\ \A e \in ServeSession : e # s => ss'[e] = ss[e]
  BY DEF ServeRegister, Typed, TypeOK, ServeHandler
<1>3. vpnServerConnections'[u] = s
      /\ \A t \in Target : t # u => vpnServerConnections'[t] = vpnServerConnections[t]
  BY <1>1 DEF ServeRegister, Typed, TypeOK
<1>4. /\ \A e \in ServeSession : e # s => ss[e].pc \in Settled
      /\ \A c \in ConnectSession : cs[c].pc \in Settled
  BY <1>1, ServeAlone DEF Settled
<1>5. OneSetup'
  BY <1>1, <1>2, OneSetupServe DEF SetupInv, Serving, Settled
<1>6. \A c \in ConnectSession : ConnectInv(c)'
  <2>1. \A c \in ConnectSession : cs[c].pc = "new" => connections[c] = Nil
    BY DEF SetupInv, ConnectInv, Unwritten
  <2> QED BY <1>4, <2>1, ConnectSettled
<1>7. \A e \in ServeSession : ServeInv(e)'
  <2>1. \A e \in ServeSession : ss'[e].pc \in Settled
    BY <1>2, <1>4 DEF Settled
  <2> QED BY <2>1, ServeSettled
<1>8. /\ targets[u] # Nil /\ targets[u].serverPubkey = s
      /\ ss[s].link = "up" => Covers(connections, wgPeers[s], u)
  BY <1>1 DEF SetupInv, ServeInv, Announced
<1>9. ASSUME NEW t \in Target, t = u
      PROVE  Registered(t)' /\ Agrees(t)' /\ PeersCurrent(t)'
  <2>1. Registered(t)'
    BY <1>2, <1>3, <1>9 DEF Registered
  <2>2. Agrees(t)'
    BY <1>3, <1>8, <1>9 DEF Agrees
  <2>3. PeersCurrent(t)'
    BY <1>2, <1>3, <1>8, <1>9 DEF PeersCurrent, Covers
  <2> QED BY <2>1, <2>2, <2>3
<1>10. ASSUME NEW t \in Target, t # u, vpnServerConnections[t] # Nil
       PROVE  Registered(t)' /\ Agrees(t)' /\ PeersCurrent(t)'
  <2>1. Registered(t) /\ Agrees(t) /\ PeersCurrent(t)
    BY <1>10 DEF SetupInv, MapInv
  <2>2. vpnServerConnections[t] # s /\ vpnServerConnections[t] \in ServeSession
        /\ vpnServerConnections'[t] = vpnServerConnections[t]
    BY <1>1, <1>3, <1>10, NotRegistered DEF Settled
  <2>3. Registered(t)'
    BY <1>2, <2>1, <2>2 DEF Registered
  <2>4. Agrees(t)'
    BY <1>4, <1>10, <2>1, <2>2 DEF Agrees, Announced, Settled
  <2>5. PeersCurrent(t)'
    BY <1>2, <2>1, <2>2 DEF PeersCurrent, Appending
  <2> QED BY <2>3, <2>4, <2>5
<1>11. MapInv'
  <2>1. \A t \in Target : t # u /\ vpnServerConnections'[t] # Nil
                          => vpnServerConnections[t] # Nil
    BY <1>3
  <2> QED BY <1>9, <1>10, <2>1 DEF MapInv
<1>12. ConfRecorded'
  BY ConfFrame DEF SetupInv
<1> QED BY <1>5, <1>6, <1>7, <1>11, <1>12 DEF SetupInv

LEMMA DropServeSetup ==
  ASSUME Typed, SetupInv, NEW s \in ServeSession, DropServe(s)
  PROVE  SetupInv'
<1>1. PICK l \in Worse(ss[s].link) : ss' = [ss EXCEPT ![s].link = l]
  BY DEF DropServe
<1>2. UNCHANGED <<db, connMan, cs, devices>>
  BY DEF DropServe
<1>3. ss[s].link # "closed" /\ l # "up"
  BY <1>1 DEF Worse, Typed, TypeOK, ServeHandler, Link
<1>4. /\ ss'[s].pc = ss[s].pc /\ ss'[s].target = ss[s].target /\ ss'[s].link = l
      /\ ss'[s].found = ss[s].found /\ ss'[s].peers = ss[s].peers
      /\ \A e \in ServeSession : e # s => ss'[e] = ss[e]
  BY <1>1 DEF Typed, TypeOK, ServeHandler
<1>5. OneSetup'
  BY <1>2, <1>4, OneSetupServe DEF SetupInv, Serving
<1>6. ServeInv(s)'
  <2>1. ServeInv(s) /\ UNCHANGED <<targets, connections, wgPeers>>
    BY <1>2 DEF SetupInv, db, devices
  <2> QED BY <1>3, <1>4, <2>1 DEF ServeInv
<1> QED BY <1>2, <1>3, <1>4, <1>5, <1>6, ServeOnly

-----------------------------------------------------------------------------
(* The environment, and the theorems.                                      *)

LEMMA CreateTargetSetup ==
  ASSUME Typed, SetupInv, NEW u \in Target, CreateVpnTarget(u)
  PROVE  SetupInv'
<1> UNCHANGED <<connections, vpnServerConnections, deviceKey, clientConf, wgPeers, cs, ss>>
  BY DEF CreateVpnTarget, connMan, devices
<1>1. \A t \in Target : targets[t] # Nil => targets'[t] = targets[t]
  BY DEF CreateVpnTarget, CreateTarget, Typed, TypeOK
<1>2. OneSetup'
  BY DEF SetupInv, OneSetup, Connecting, Serving
<1>3. \A c \in ConnectSession : ConnectInv(c)'
  BY ConnectInvFrame DEF SetupInv
<1>4. ASSUME NEW s \in ServeSession
      PROVE  ServeInv(s)'
  <2>1. ServeInv(s)
    BY DEF SetupInv
  <2>2. ss[s].pc \notin {"new", "closed"} => ss[s].target \in Target
    BY DEF Typed, LocalsSet
  <2> QED BY <1>1, <2>1, <2>2 DEF ServeInv, Announced
<1>5. ASSUME NEW t \in Target, vpnServerConnections[t] # Nil
      PROVE  Registered(t)' /\ Agrees(t)' /\ PeersCurrent(t)'
  <2>1. Registered(t) /\ Agrees(t) /\ PeersCurrent(t)
    BY <1>5 DEF SetupInv, MapInv
  <2>2. Registered(t)' /\ Agrees(t)'
    BY <1>1, <2>1 DEF Registered, Agrees
  <2>3. PeersCurrent(t)'
    BY <2>1 DEF PeersCurrent, Appending
  <2> QED BY <2>2, <2>3
<1>6. MapInv'
  BY <1>5 DEF MapInv
<1>7. ConfRecorded'
  BY ConfFrame DEF SetupInv
<1> QED BY <1>2, <1>3, <1>4, <1>6, <1>7 DEF SetupInv

LEMMA DisconnectSetup ==
  ASSUME Typed, SetupInv, NEW d \in Device, DisconnectDevice(d)
  PROVE  SetupInv'
<1> UNCHANGED <<targets, connections, vpnServerConnections, deviceKey, wgPeers, ss>>
  BY DEF DisconnectDevice, db, connMan
<1>1. \A e \in Device : clientConf'[e] # Nil => clientConf'[e] = clientConf[e]
  BY DEF DisconnectDevice, Typed, TypeOK
<1>2. ASSUME NEW c \in ConnectSession
      PROVE  /\ cs'[c].pc = cs[c].pc /\ cs'[c].target = cs[c].target
             /\ cs'[c].device = cs[c].device /\ cs'[c].pubkey = cs[c].pubkey
             /\ cs'[c].id = cs[c].id /\ cs'[c].clientIp = cs[c].clientIp
             /\ cs'[c].vpnServerConn = cs[c].vpnServerConn
  <2>1. CASE cs' = cs
    BY <2>1
  <2>2. ASSUME NEW e \in ConnectSession, cs' = [cs EXCEPT ![e].link = "closed"]
        PROVE  /\ cs'[c].pc = cs[c].pc /\ cs'[c].target = cs[c].target
               /\ cs'[c].device = cs[c].device /\ cs'[c].pubkey = cs[c].pubkey
               /\ cs'[c].id = cs[c].id /\ cs'[c].clientIp = cs[c].clientIp
               /\ cs'[c].vpnServerConn = cs[c].vpnServerConn
    BY <2>2 DEF Typed, TypeOK, ConnectHandler
  <2> QED BY <2>1, <2>2 DEF DisconnectDevice
<1>3. OneSetup'
  BY <1>2 DEF SetupInv, OneSetup, Connecting, Serving
<1>4. ASSUME NEW c \in ConnectSession
      PROVE  ConnectInv(c)'
  <2>1. ConnectInv(c)
    BY DEF SetupInv
  <2>2. cs[c].pc \notin Settled => cs[c].device \in Device
    BY DEF Typed, LocalsSet, Settled
  <2>3. cs'[c].pc \notin Settled => clientConf'[cs'[c].device] = Nil
    BY <1>1, <1>2, <2>1, <2>2 DEF ConnectInv
  <2> QED BY <1>2, <2>1, <2>3 DEF ConnectInv
<1>5. \A s \in ServeSession : ServeInv(s)'
  BY ServeInvFrame DEF SetupInv
<1>6. MapInv'
  <2>1. \A t \in Target : (Registered(t) => Registered(t)') /\ (Agrees(t) => Agrees(t)')
    BY DEF Registered, Agrees
  <2> QED BY <1>2, <2>1, MapFrame DEF SetupInv
<1>7. ConfRecorded'
  BY <1>1 DEF SetupInv, ConfRecorded
<1> QED BY <1>3, <1>4, <1>5, <1>6, <1>7 DEF SetupInv

LEMMA RotateKeySetup ==
  ASSUME Typed, SetupInv, Sequential, NEW d \in Device, RotateKey(d)
  PROVE  SetupInv'
<1> UNCHANGED <<targets, connections, vpnServerConnections, clientConf, wgPeers, cs, ss>>
  BY DEF RotateKey, db, connMan
<1>1. \A c \in ConnectSession : cs[c].pc \in Settled
  BY MayOpenQuiet DEF RotateKey, SetupInv, Sequential, Connecting
<1>2. OneSetup'
  BY DEF SetupInv, OneSetup, Connecting, Serving
<1>3. \A c \in ConnectSession : ConnectInv(c)'
  <2>1. \A c \in ConnectSession : cs[c].pc = "new" => connections[c] = Nil
    BY DEF SetupInv, ConnectInv, Unwritten
  <2> QED BY <1>1, <2>1, ConnectSettled
<1>4. \A s \in ServeSession : ServeInv(s)'
  BY ServeInvFrame DEF SetupInv
<1>5. MapInv'
  <2>1. \A t \in Target : (Registered(t) => Registered(t)') /\ (Agrees(t) => Agrees(t)')
    BY DEF Registered, Agrees
  <2> QED BY <2>1, MapFrame DEF SetupInv
<1>6. ConfRecorded'
  BY ConfFrame DEF SetupInv
<1> QED BY <1>2, <1>3, <1>4, <1>5, <1>6 DEF SetupInv

LEMMA StutterSetup ==
  ASSUME SetupInv, UNCHANGED vars
  PROVE  SetupInv'
  BY DEF SetupInv, vars, OneSetup, Connecting, Serving, ConnectInv, ServeInv, MapInv,
         Registered, Agrees, PeersCurrent, Appending, ConfRecorded

LEMMA ConnectStepSetup ==
  ASSUME Typed, AddressInv, SetupInv, Sequential, NEW c \in ConnectSession, ConnectStep(c)
  PROVE  SetupInv'
<1>1. CASE ConnectCallFails(c) \/ ConnectDbFails(c) \/ ConnectStale(c)
  BY <1>1, ReturnConnectSetup DEF ConnectCallFails, ConnectDbFails, ConnectStale
<1> QED
  BY <1>1, AuthSetup, AliveSetup, InfoSetup, LookupSetup, SyncSetup, NextIpSetup,
     ExistsSetup, InsertSetup, GetServerSetup, AppendSetup, ServerSetup DEF ConnectStep

(* A server is given up, and a set-up may hang on it for ever: the server  *)
(* is no longer one that the missing peer could use.                       *)
LEMMA ServeStaleSetup ==
  ASSUME Typed, SetupInv, NEW s \in ServeSession, ServeStale(s)
  PROVE  SetupInv'
<1> UNCHANGED <<targets, connections, vpnServerConnections, deviceKey, clientConf, wgPeers>>
  BY DEF ServeStale, db, connMan, devices
<1>1. /\ ss[s].pc = "blocked" /\ ss'[s].pc = "closed" /\ ss'[s].link = "closed"
      /\ \A e \in ServeSession : e # s => ss'[e] = ss[e]
  BY DEF ServeStale, ReturnServe, IdleServe, Typed, TypeOK
<1>2. \A c \in ConnectSession :
        \/ cs'[c] = cs[c]
        \/ cs[c].pc = "append" /\ cs[c].vpnServerConn = s /\ cs'[c].pc = "hung"
  BY ReaderEndsStep DEF ServeStale
<1>3. OneSetup'
  <2>1. \A c \in ConnectSession : Connecting(c)' => Connecting(c)
    BY <1>2 DEF Connecting, Settled
  <2>2. \A e \in ServeSession : Serving(e)' => Serving(e)
    BY <1>1 DEF Serving, Settled
  <2> QED BY <2>1, <2>2 DEF SetupInv, OneSetup
<1>4. ASSUME NEW c \in ConnectSession
      PROVE  ConnectInv(c)'
  <2>1. CASE cs'[c] = cs[c]
    BY <2>1, ConnectInvFrame DEF SetupInv
  <2>2. CASE cs'[c].pc = "hung"
    BY <2>2, ConnectSettled DEF Settled
  <2> QED BY <1>2, <2>1, <2>2
<1>5. \A e \in ServeSession : ServeInv(e)'
  <2>1. ServeInv(s)'
    BY <1>1, ServeSettled DEF Settled
  <2> QED BY <1>1, <2>1, ServeInvFrame DEF SetupInv
<1>6. ASSUME NEW t \in Target, vpnServerConnections[t] # Nil
      PROVE  Registered(t)' /\ Agrees(t)' /\ PeersCurrent(t)'
  <2>1. vpnServerConnections[t] \in ServeSession /\ Registered(t) /\ Agrees(t) /\ PeersCurrent(t)
    BY <1>6 DEF SetupInv, MapInv, Typed, TypeOK
  <2>2. Registered(t)'
    BY <1>1, <2>1 DEF Registered
  <2>3. Agrees(t)'
    BY <1>1, <2>1 DEF Agrees, Announced
  <2>4. CASE vpnServerConnections[t] = s
    BY <1>1, <2>2, <2>3, <2>4 DEF PeersCurrent
  <2>5. CASE vpnServerConnections[t] # s
    <3>1. ss'[vpnServerConnections[t]] = ss[vpnServerConnections[t]]
      BY <1>1, <2>1, <2>5
    <3>2. ASSUME NEW c \in ConnectSession, cs[c].pc \in {"getserver", "append"},
                 cs[c].target = t
          PROVE  cs'[c] = cs[c]
      BY <1>2, <2>5, <3>2 DEF SetupInv, ConnectInv
    <3>3. \A ip : Appending(t, ip) => Appending(t, ip)'
      BY <3>2 DEF Appending
    <3>4. PeersCurrent(t)'
      BY <2>1, <3>1, <3>3 DEF PeersCurrent
    <3> QED BY <2>2, <2>3, <3>4
  <2> QED BY <2>4, <2>5
<1>7. MapInv'
  BY <1>6 DEF MapInv
<1>8. ConfRecorded'
  BY ConfFrame DEF SetupInv
<1> QED BY <1>3, <1>4, <1>5, <1>7, <1>8 DEF SetupInv

LEMMA ServeStepSetup ==
  ASSUME Typed, SetupInv, Sequential, NEW s \in ServeSession, ServeStep(s)
  PROVE  SetupInv'
<1>1. CASE ServeCallFails(s)
  BY <1>1, ReturnServeSetup DEF ServeCallFails, Announced
<1> QED
  BY <1>1, ServeStaleSetup, ServeAuthSetup, ServeInfoSetup, ServeUpdateSetup, ServePeersSetup,
     ServeVpnSetup, ServeRegisterSetup DEF ServeStep

LEMMA NextSetup ==
  ASSUME Typed, AddressInv, SetupInv, Sequential, [Next]_vars
  PROVE  SetupInv'
<1>1. ASSUME NEW c \in ConnectSession, DropConnect(c)
      PROVE  SetupInv'
  BY <1>1, ConnectLinkSetup DEF DropConnect
<1>2. CASE Crash
  BY <1>2, DieSetup DEF Crash
<1> QED
  BY <1>1, <1>2, OpenConnectSetup, ConnectStepSetup, OpenServeSetup, ServeStepSetup,
     DropServeSetup, CreateTargetSetup, DisconnectSetup, RotateKeySetup, StutterSetup
  DEF Next

(* With one set-up at a time the two tables, the ConnectionManager, the    *)
(* peers of the serving daemons and what the devices were told agree at    *)
(* every step of every handler, up to the step the handler in its set-up   *)
(* is about to do.                                                         *)
THEOREM SetupsAgree == ASSUME Sequential PROVE Spec => []SetupInv
<1>1. Typed /\ AddressInv /\ SetupInv /\ [Next]_vars => (Typed /\ AddressInv /\ SetupInv)'
  BY NextTyped, NextRows, NextSetup
<1> QED BY <1>1, InitTyped, InitRows, InitSetup, PTL DEF Spec

(* With one set-up at a time a device is configured with the address that  *)
(* is recorded for it (connect_server after createConnection).             *)
THEOREM AddressesRecorded == ASSUME Sequential PROVE Spec => []RecordedClientIp
<1>1. Typed /\ AddressInv /\ SetupInv => RecordedClientIp
  <2> SUFFICES ASSUME Typed, AddressInv, SetupInv, NEW d \in Device, clientConf[d] # Nil
               PROVE  clientConf[d].clientIp = Lease(connections, clientConf[d].target, d)
    BY DEF RecordedClientIp
  <2>1. Recorded(connections, clientConf[d].target, d, clientConf[d].clientIp,
                 clientConf[d].pubkey)
    BY DEF SetupInv, ConfRecorded
  <2>2. PICK id \in ConnectSession :
          /\ connections[id] # Nil /\ connections[id].target = clientConf[d].target
          /\ connections[id].deviceId = d /\ connections[id].clientIp = clientConf[d].clientIp
    BY <2>1 DEF Recorded
  <2>3. DOMAIN connections = ConnectSession /\ OnePerDevice(connections)
    BY DEF Typed, TypeOK, AddressInv, OneConnectionPerDevice, OnePerDevice
  <2>4. Lease(connections, connections[id].target, connections[id].deviceId)
          = connections[id].clientIp
    BY <2>2, <2>3, LeaseOfRow
  <2> QED BY <2>2, <2>4
<1>2. Typed /\ AddressInv /\ SetupInv /\ [Next]_vars => (Typed /\ AddressInv /\ SetupInv)'
  BY NextTyped, NextRows, NextSetup
<1> QED BY <1>1, <1>2, InitTyped, InitRows, InitSetup, PTL DEF Spec

LEMMA QuietSetup ==
  ASSUME InSetup = {}
  PROVE  /\ \A c \in ConnectSession : cs[c].pc \in Settled
         /\ \A s \in ServeSession : ss[s].pc \in Settled
  BY DEF InSetup

(* With one set-up at a time, and none under way, the row of a target      *)
(* names the server that the ConnectionManager has (updateTarget and       *)
(* setVPNServerConn of clientServe).                                       *)
THEOREM ServersAgree == ASSUME Sequential PROVE Spec => []ServerAgrees
<1>1. SetupInv => ServerAgrees
  <2> SUFFICES ASSUME SetupInv, InSetup = {}, NEW t \in Target, vpnServerConnections[t] # Nil
               PROVE  targets[t].serverPubkey = vpnServerConnections[t]
    BY DEF ServerAgrees
  <2>1. Agrees(t)
    BY DEF SetupInv, MapInv
  <2> QED BY <2>1, QuietSetup DEF Agrees, Announced, Settled
<1> QED BY <1>1, SetupsAgree, PTL

(* With one set-up at a time, and none under way, a client that was sent   *)
(* to the server which now serves its target is a peer of that server with *)
(* its own key and address (append_vpn_peers, serve_vpn, connect_server).  *)
THEOREM TunnelsUsable == ASSUME Sequential PROVE Spec => []TunnelUsable
<1>1. Typed /\ SetupInv => TunnelUsable
  <2> SUFFICES ASSUME Typed, SetupInv, InSetup = {}, NEW d \in Device, clientConf[d] # Nil,
                      vpnServerConnections[clientConf[d].target] # Nil,
                      ss[vpnServerConnections[clientConf[d].target]].link = "up"
               PROVE  wgPeers[vpnServerConnections[clientConf[d].target]][clientConf[d].clientIp]
                        = clientConf[d].pubkey
    BY DEF TunnelUsable
  <2>1. clientConf[d].target \in Target
    BY DEF Typed, TypeOK
  <2>2. PeersCurrent(clientConf[d].target)
    BY <2>1 DEF SetupInv, MapInv
  <2>3. ~Appending(clientConf[d].target, clientConf[d].clientIp)
    BY QuietSetup DEF Appending, Settled
  <2>4. Recorded(connections, clientConf[d].target, d, clientConf[d].clientIp,
                 clientConf[d].pubkey)
    BY DEF SetupInv, ConfRecorded
  <2>5. PICK id \in ConnectSession :
          /\ connections[id] # Nil /\ connections[id].target = clientConf[d].target
          /\ connections[id].clientIp = clientConf[d].clientIp
          /\ connections[id].pubkey = clientConf[d].pubkey
    BY <2>4 DEF Recorded
  <2> QED BY <2>2, <2>3, <2>5 DEF PeersCurrent
<1>2. Typed /\ SetupInv /\ AddressInv /\ [Next]_vars => (Typed /\ SetupInv /\ AddressInv)'
  BY NextTyped, NextRows, NextSetup
<1> QED BY <1>1, <1>2, InitTyped, InitRows, InitSetup, PTL DEF Spec
=============================================================================
