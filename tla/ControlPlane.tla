---------------------------- MODULE ControlPlane ----------------------------
(***************************************************************************)
(* The rVPN control plane: one goroutine per WebSocket, running either     *)
(* clientConnect or clientServe from its first statement to its return,    *)
(* over one Postgres database and one ConnectionManager that all share.    *)
(* A step is what a handler does between two points where another handler, *)
(* a device or the network can get in between: one SQL statement, one      *)
(* access to the ConnectionManager or one jrpc Call.                       *)
(*                                                                         *)
(* Simplifications:                                                        *)
(*  - A session is used once; its name stands for the uuid of the          *)
(*    connection row it may create, and the name of a serve session for    *)
(*    the public key, address and port that its device reports.            *)
(*  - A serving daemon has one session at a time, so the WireGuard peers   *)
(*    of the daemon are kept with the session.                             *)
(*  - Heartbeats have no clock here: a link that is up delivers them in    *)
(*    time, one that is not never does.                                    *)
(*  - vpnClientConnections is written and never read: it is a set here.    *)
(***************************************************************************)
EXTENDS ClientIps, Database, FiniteSets

CONSTANTS
    Target,             \* names of VPN targets
    Device,             \* device ids of clients
    ConnectSession,     \* WebSockets opened on /target/:target/connect
    ServeSession,       \* WebSockets opened on /target/:target/serve
    MaxKey,             \* bound: how many WireGuard keys a device ever has
    MaxInFlight,        \* bound: how many handlers are in their set-up at once
    FaultyDb,           \* whether a SQL statement may fail
    Crashes,            \* whether the process may die at any moment
    InitTargets         \* the targets that exist from the start

ASSUME SessionAssumption == Nil \notin ConnectSession \cup ServeSession
ASSUME DeviceAssumption == Nil \notin Device /\ Nil \notin Target
ASSUME BoundAssumption == MaxKey \in Nat \ {0} /\ MaxInFlight \in Nat
ASSUME NilIpAssumption == Nil \notin ClientIp
ASSUME FlagAssumption == FaultyDb \in BOOLEAN /\ Crashes \in BOOLEAN
ASSUME InitTargetsAssumption == InitTargets \subseteq Target

VARIABLES
    targets,                \* table targets
    connections,            \* table connections
    vpnServerConnections,   \* ConnectionManager: target -> serve session
    vpnClientConnections,   \* ConnectionManager: target -> connect sessions
    cs,                     \* the clientConnect handlers: program counter, link, locals
    ss,                     \* the clientServe handlers
    deviceKey,              \* the key pair in the state file of a client device
    clientConf,             \* what connect_server last configured on a device
    wgPeers                 \* the peers in the WireGuard of a serving daemon

db == <<targets, connections>>
connMan == <<vpnServerConnections, vpnClientConnections>>
devices == <<deviceKey, clientConf, wgPeers>>
vars == <<targets, connections, vpnServerConnections, vpnClientConnections,
          cs, ss, deviceKey, clientConf, wgPeers>>

(* A public key is named by the device it belongs to and its generation. *)
Key == Device \X (1 .. MaxKey)
Row == [target : Target, deviceId : Device, pubkey : Key, clientIp : ClientIp]
ASSUME NilRowAssumption == Nil \notin Row
ASSUME NilTargetAssumption == Nil \notin [serverPubkey : ServeSession \cup {Nil}]
Peers == [ClientIp -> Key \cup {Nil}]
Link == {"up", "silent", "closed"}
ConnectPc == {"new", "auth", "alive", "info", "lookup", "sync", "nextip", "exists",
              "insert", "getserver", "append", "hung", "connect", "blocked", "closed"}
ServePc == {"new", "auth", "info", "update", "peers", "serve", "register",
            "blocked", "closed"}

ConnectHandler ==
    [pc : ConnectPc, link : Link, target : Target \cup {Nil}, device : Device \cup {Nil},
     serverPubkey : ServeSession \cup {Nil}, pubkey : Key \cup {Nil},
     id : ConnectSession \cup {Nil}, clientIp : ClientIp \cup {Nil},
     vpnServerConn : ServeSession \cup {Nil}]
ServeHandler ==
    [pc : ServePc, link : Link, target : Target \cup {Nil}, found : BOOLEAN, peers : Peers]

(* A handler that has not been entered, or has returned: no locals.  The   *)
(* deferred function closes the WebSocket.                                 *)
IdleConnect(pc) ==
    [pc |-> pc, link |-> "closed", target |-> Nil, device |-> Nil, serverPubkey |-> Nil,
     pubkey |-> Nil, id |-> Nil, clientIp |-> Nil, vpnServerConn |-> Nil]
NoPeers == [ip \in ClientIp |-> Nil]
IdleServe(pc) ==
    [pc |-> pc, link |-> "closed", target |-> Nil, found |-> FALSE, peers |-> NoPeers]

Init ==
    /\ targets = [t \in Target |-> IF t \in InitTargets THEN [serverPubkey |-> Nil] ELSE Nil]
    /\ connections = [id \in ConnectSession |-> Nil]
    /\ vpnServerConnections = [t \in Target |-> Nil]
    /\ vpnClientConnections = [t \in Target |-> {}]
    /\ cs = [c \in ConnectSession |-> IdleConnect("new")]
    /\ ss = [s \in ServeSession |-> IdleServe("new")]
    /\ deviceKey = [d \in Device |-> 1]
    /\ clientConf = [d \in Device |-> Nil]
    /\ wgPeers = [s \in ServeSession |-> NoPeers]

-----------------------------------------------------------------------------
(* Steps that several handlers share.                                      *)

Settled == {"new", "hung", "blocked", "closed"}
InSetup == {c \in ConnectSession : cs[c].pc \notin Settled}
               \cup {s \in ServeSession : ss[s].pc \notin Settled}
MayOpen == Cardinality(InSetup) < MaxInFlight

(* The handler returns, on an error or for good. *)
ReturnConnect(c) == cs' = [cs EXCEPT ![c] = IdleConnect("closed")]
ReturnServe(s) == ss' = [ss EXCEPT ![s] = IdleServe("closed")]

GotoConnect(c, pc) == cs' = [cs EXCEPT ![c].pc = pc]
GotoServe(s, pc) == ss' = [ss EXCEPT ![s].pc = pc]

(* The process dies, by a kill, a nil dereference or the runtime's check   *)
(* for concurrent use of a map: every WebSocket and the ConnectionManager  *)
(* are gone, the database stays.  It is restarted.                         *)
Die ==
    /\ cs' = [c \in ConnectSession |->
                IF cs[c].pc = "new" THEN cs[c] ELSE IdleConnect("closed")]
    /\ ss' = [s \in ServeSession |->
                IF ss[s].pc = "new" THEN ss[s] ELSE IdleServe("closed")]
    /\ vpnServerConnections' = [t \in Target |-> Nil]
    /\ vpnClientConnections' = [t \in Target |-> {}]
    /\ UNCHANGED <<db, devices>>

-----------------------------------------------------------------------------
(* clientConnect.                                                          *)

(* The CLI and the GUI ask for a connection only while the daemon reports  *)
(* that it is disconnected; a second request can pass that test before the *)
(* first one has been answered with connect_server.                        *)
OpenConnect(c, d, t) ==
    /\ cs[c].pc = "new" /\ MayOpen
    /\ clientConf[d] = Nil
    /\ cs' = [cs EXCEPT ![c] = [IdleConnect("auth") EXCEPT
                                    !.link = "up", !.device = d, !.target = t]]
    /\ UNCHANGED <<db, connMan, ss, devices>>

(* A Call on the handler's own WebSocket that has been closed returns an   *)
(* error, and the handler returns; while the peer is silent it waits.      *)
ConnectCallFails(c) ==
    /\ cs[c].pc \in {"auth", "info"} /\ cs[c].link = "closed"
    /\ ReturnConnect(c)
    /\ UNCHANGED <<db, connMan, ss, devices>>

(* A SQL statement fails where that makes the handler return.  A failed    *)
(* write may still have been committed: ConnectSync and ConnectInsert.     *)
ConnectDbFails(c) ==
    /\ FaultyDb /\ cs[c].pc \in {"sync", "nextip", "exists", "insert"}
    /\ ReturnConnect(c)
    /\ UNCHANGED <<db, connMan, ss, devices>>

(* get_device_auth, ValidateDeviceToken and getTargetByName.  The handler  *)
(* returns if the token is rejected or the query fails.                    *)
ConnectAuth(c) ==
    LET row == targets[cs[c].target]
    IN  /\ cs[c].pc = "auth" /\ cs[c].link = "up"
        /\ \/ ReturnConnect(c)
           \/ cs' = [cs EXCEPT ![c].pc = "alive",
                               ![c].serverPubkey = IF row = Nil THEN Nil ELSE row.serverPubkey]
        /\ UNCHANGED <<db, connMan, ss, devices>>

(* targetServerAlive: the row had the server's data and the                *)
(* ConnectionManager has some connection for the target.                   *)
TargetServerAlive(t, serverPubkey) ==
    serverPubkey # Nil /\ vpnServerConnections[t] # Nil

ConnectAlive(c) ==
    /\ cs[c].pc = "alive"
    /\ IF TargetServerAlive(cs[c].target, cs[c].serverPubkey)
       THEN GotoConnect(c, "info")
       ELSE ReturnConnect(c)
    /\ UNCHANGED <<db, connMan, ss, devices>>

(* get_client_information: the device reports its public key. *)
ConnectInfo(c) ==
    /\ cs[c].pc = "info" /\ cs[c].link = "up"
    /\ cs' = [cs EXCEPT ![c].pc = "lookup",
                        ![c].pubkey = <<cs[c].device, deviceKey[cs[c].device]>>]
    /\ UNCHANGED <<db, connMan, ss, devices>>

(* Mutant: an existing connection is not used. *)
ConnectLookupAlwaysNew(c) ==
    /\ cs[c].pc = "lookup"
    /\ GotoConnect(c, "nextip")
    /\ UNCHANGED <<db, connMan, ss, devices>>

(* getConnection.  An error is logged and the empty connection it comes    *)
(* with is taken for "does not exist yet".                                 *)
ConnectLookup(c) ==
    LET h == cs[c]
        found == GetConnection(connections, h.target, h.device)
    IN  /\ h.pc = "lookup"
        /\ \/ /\ found = {} \/ FaultyDb
              /\ GotoConnect(c, "nextip")
           \/ \E id \in found :
                cs' = [cs EXCEPT ![c].pc = IF connections[id].pubkey = h.pubkey
                                           THEN "connect" ELSE "sync",
                                 ![c].id = id,
                                 ![c].clientIp = connections[id].clientIp]
        /\ UNCHANGED <<db, connMan, ss, devices>>

(* Mutant: the new key is not appended to the server. *)
ConnectSyncOnly(c) ==
    LET h == cs[c]
        row == [target |-> h.target, deviceId |-> h.device,
                pubkey |-> h.pubkey, clientIp |-> h.clientIp]
    IN  /\ h.pc = "sync"
        /\ connections' = UpdateConnection(connections, h.id, row)
        /\ GotoConnect(c, "connect")
        /\ UNCHANGED <<targets, connMan, ss, devices>>

(* syncConnectionPubkey: the whole row is written back with the new key. *)
ConnectSync(c) ==
    LET h == cs[c]
        row == [target |-> h.target, deviceId |-> h.device,
                pubkey |-> h.pubkey, clientIp |-> h.clientIp]
    IN  /\ h.pc = "sync"
        /\ connections' = UpdateConnection(connections, h.id, row)
        /\ GotoConnect(c, "getserver") \/ (FaultyDb /\ ReturnConnect(c))
        /\ UNCHANGED <<targets, connMan, ss, devices>>

(* getNextClientIp: the handler returns when no address is left. *)
ConnectNextIp(c) ==
    /\ cs[c].pc = "nextip"
    /\ \E used \in ReadRows(GetTargetClientIps(connections, cs[c].target), FaultyDb) :
        \/ /\ NextClientIp(used) = {}
           /\ ReturnConnect(c)
        \/ \E ip \in NextClientIp(used) :
             cs' = [cs EXCEPT ![c].pc = "exists", ![c].id = c, ![c].clientIp = ip]
    /\ UNCHANGED <<db, connMan, ss, devices>>

(* Mutant: createConnection relies on the caller's look-up. *)
ConnectExistsUnchecked(c) ==
    /\ cs[c].pc = "exists"
    /\ GotoConnect(c, "insert")
    /\ UNCHANGED <<db, connMan, ss, devices>>

(* createConnection looks the connection up once more.  If there is one it *)
(* returns early and the caller goes on with the address it has chosen.    *)
ConnectExists(c) ==
    /\ cs[c].pc = "exists"
    /\ IF GetConnection(connections, cs[c].target, cs[c].device) = {}
       THEN GotoConnect(c, "insert")
       ELSE GotoConnect(c, "getserver")
    /\ UNCHANGED <<db, connMan, ss, devices>>

(* The INSERT.  Whether a row was created is ignored. *)
ConnectInsert(c) ==
    LET h == cs[c]
        row == [target |-> h.target, deviceId |-> h.device,
                pubkey |-> h.pubkey, clientIp |-> h.clientIp]
    IN  /\ h.pc = "insert"
        /\ connections' = CreateConnection(connections, h.id, row)
        /\ GotoConnect(c, "getserver") \/ (FaultyDb /\ ReturnConnect(c))
        /\ UNCHANGED <<targets, connMan, ss, devices>>

(* getVPNServerConn.  With nil the Call that follows dereferences it. *)
ConnectGetServer(c) ==
    LET conn == vpnServerConnections[cs[c].target]
    IN  /\ cs[c].pc = "getserver"
        /\ \/ conn = Nil /\ Die
           \/ /\ conn # Nil
              /\ cs' = [cs EXCEPT ![c].pc = "append", ![c].vpnServerConn = conn]
              /\ UNCHANGED <<db, connMan, ss, devices>>

(* AppendPeers on the serving daemon: an allowed address belongs to the    *)
(* peer that was given it last.                                            *)
AppendPeer(peers, ip, key) == [peers EXCEPT ![ip] = key]

(* append_vpn_peers on the server's connection: a closed one is an error   *)
(* that is only logged, a silent one keeps the handler waiting, and it may *)
(* do so for ever: ServeStale.                                             *)
ConnectAppend(c) ==
    LET h == cs[c]
        conn == h.vpnServerConn
    IN  /\ h.pc = "append"
        /\ \/ /\ ss[conn].link = "up"
              /\ wgPeers' = [wgPeers EXCEPT
                                ![conn] = AppendPeer(wgPeers[conn], h.clientIp, h.pubkey)]
           \/ /\ ss[conn].link = "closed"
              /\ UNCHANGED wgPeers
        /\ GotoConnect(c, "connect")
        /\ UNCHANGED <<db, connMan, ss, deviceKey, clientConf>>

(* connect_server, whose error is only logged; then setVPNClientConn, and  *)
(* the handler blocks.  The device configures its own key, even if that is *)
(* no longer the one it reported.                                          *)
ConnectServer(c) ==
    LET h == cs[c]
    IN  /\ h.pc = "connect"
        /\ \/ /\ h.link = "up"
              /\ clientConf' = [clientConf EXCEPT ![h.device] =
                    [target |-> h.target, server |-> h.serverPubkey,
                     clientIp |-> h.clientIp, pubkey |-> <<h.device, deviceKey[h.device]>>]]
           \/ /\ h.link = "closed"
              /\ UNCHANGED clientConf
        /\ vpnClientConnections' = [vpnClientConnections EXCEPT ![h.target] = @ \cup {c}]
        /\ cs' = [cs EXCEPT ![c] = [IdleConnect("blocked") EXCEPT
                        !.link = h.link, !.target = h.target, !.device = h.device]]
        /\ UNCHANGED <<db, vpnServerConnections, ss, deviceKey, wgPeers>>

(* Mutant: only a closed WebSocket is noticed. *)
StaleIfClosed(link) == link = "closed"

(* blockUntilStale returns once no heartbeat has come for three minutes,    *)
(* whether the peer is silent or the WebSocket is closed.                  *)
Stale(link) == link # "up"

ConnectStale(c) ==
    /\ cs[c].pc = "blocked" /\ Stale(cs[c].link)
    /\ ReturnConnect(c)
    /\ UNCHANGED <<db, connMan, ss, devices>>

ConnectStep(c) ==
    \/ ConnectCallFails(c) \/ ConnectDbFails(c)
    \/ ConnectAuth(c) \/ ConnectAlive(c) \/ ConnectInfo(c) \/ ConnectLookup(c)
    \/ ConnectSync(c) \/ ConnectNextIp(c) \/ ConnectExists(c) \/ ConnectInsert(c)
    \/ ConnectGetServer(c) \/ ConnectAppend(c) \/ ConnectServer(c) \/ ConnectStale(c)

-----------------------------------------------------------------------------
(* clientServe.                                                            *)

OpenServe(s, t) ==
    /\ ss[s].pc = "new" /\ MayOpen
    /\ ss' = [ss EXCEPT ![s] = [IdleServe("auth") EXCEPT !.link = "up", !.target = t]]
    /\ UNCHANGED <<db, connMan, cs, devices>>

ServeCallFails(s) ==
    /\ ss[s].pc \in {"auth", "info"} /\ ss[s].link = "closed"
    /\ ReturnServe(s)
    /\ UNCHANGED <<db, connMan, cs, devices>>

(* The same three steps; that the target does not exist is only logged,    *)
(* and the handler goes on.                                                *)
ServeAuth(s) ==
    /\ ss[s].pc = "auth" /\ ss[s].link = "up"
    /\ \/ ReturnServe(s)
       \/ ss' = [ss EXCEPT ![s].pc = "info", ![s].found = targets[ss[s].target] # Nil]
    /\ UNCHANGED <<db, connMan, cs, devices>>

(* get_serve_information; the answer is then stored in the target, which   *)
(* kills the process if there is none.                                     *)
ServeInfo(s) ==
    /\ ss[s].pc = "info" /\ ss[s].link = "up"
    /\ \/ ~ss[s].found /\ Die
       \/ /\ ss[s].found
          /\ GotoServe(s, "update")
          /\ UNCHANGED <<db, connMan, cs, devices>>

(* updateTarget; an error is ignored. *)
ServeUpdate(s) ==
    /\ ss[s].pc = "update"
    /\ \/ targets' = UpdateTarget(targets, ss[s].target, s)
       \/ FaultyDb /\ UNCHANGED targets
    /\ GotoServe(s, "peers")
    /\ UNCHANGED <<connections, connMan, cs, devices>>

(* Connections as WireGuard peers. *)
PeersOf(rows) ==
    [ip \in ClientIp |->
        IF \E id \in rows : connections[id].clientIp = ip
        THEN connections[CHOOSE id \in rows : connections[id].clientIp = ip].pubkey
        ELSE Nil]

(* getConnectionsByTarget; an error is logged and leaves no peers. *)
ServePeers(s) ==
    /\ ss[s].pc = "peers"
    /\ \E rows \in ReadRows(GetConnectionsByTarget(connections, ss[s].target), FaultyDb) :
            ss' = [ss EXCEPT ![s].pc = "serve", ![s].peers = PeersOf(rows)]
    /\ UNCHANGED <<db, connMan, cs, devices>>

(* serve_vpn: the daemon replaces its peers.  An error is only logged. *)
ServeVpn(s) ==
    /\ ss[s].pc = "serve"
    /\ \/ ss[s].link = "up" /\ wgPeers' = [wgPeers EXCEPT ![s] = ss[s].peers]
       \/ ss[s].link = "closed" /\ UNCHANGED wgPeers
    /\ GotoServe(s, "register")
    /\ UNCHANGED <<db, connMan, cs, deviceKey, clientConf>>

(* setVPNServerConn; then the handler blocks. *)
ServeRegister(s) ==
    /\ ss[s].pc = "register"
    /\ vpnServerConnections' = [vpnServerConnections EXCEPT ![ss[s].target] = s]
    /\ ss' = [ss EXCEPT ![s].pc = "blocked", ![s].peers = NoPeers]
    /\ UNCHANGED <<db, vpnClientConnections, cs, devices>>

(* The set-ups that wait for the answer of the device behind s. *)
Awaiting(s) == {c \in ConnectSession : cs[c].pc = "append" /\ cs[c].vpnServerConn = s}

(* The deferred function closes the WebSocket, and the goroutine that      *)
(* reads it ends the Calls that are under way.  But a heartbeat of a       *)
(* silent device may come just as the handler gives up: nobody receives    *)
(* from the unbuffered channel any more, the reader is stuck in Handle for *)
(* ever, and the Calls of other handlers that have been sent by then never *)
(* return.                                                                 *)
ReaderEnds(s) ==
    \E hung \in IF ss[s].link = "silent" THEN SUBSET Awaiting(s) ELSE {{}} :
        cs' = [c \in ConnectSession |->
                IF c \in hung THEN [cs[c] EXCEPT !.pc = "hung"] ELSE cs[c]]

(* Mutant: the entry in the ConnectionManager is cleaned up. *)
ServeStaleCleansUp(s) ==
    /\ ss[s].pc = "blocked" /\ Stale(ss[s].link)
    /\ ReturnServe(s) /\ ReaderEnds(s)
    /\ vpnServerConnections' =
            [t \in Target |-> IF vpnServerConnections[t] = s THEN Nil ELSE vpnServerConnections[t]]
    /\ UNCHANGED <<db, vpnClientConnections, devices>>

(* The entry in the ConnectionManager stays. *)
ServeStale(s) ==
    /\ ss[s].pc = "blocked" /\ Stale(ss[s].link)
    /\ ReturnServe(s) /\ ReaderEnds(s)
    /\ UNCHANGED <<db, connMan, devices>>

ServeStep(s) ==
    \/ ServeCallFails(s) \/ ServeAuth(s) \/ ServeInfo(s) \/ ServeUpdate(s)
    \/ ServePeers(s) \/ ServeVpn(s) \/ ServeRegister(s) \/ ServeStale(s)

-----------------------------------------------------------------------------
(* The environment.                                                        *)

(* PUT /target/:target *)
CreateVpnTarget(t) ==
    /\ targets[t] = Nil
    /\ targets' = CreateTarget(targets, t)
    /\ UNCHANGED <<connections, connMan, cs, ss, devices>>

(* A device stops answering, or its WebSocket is closed: by the device, or *)
(* because TCP noticed that the device is gone.                            *)
Worse(link) == CASE link = "up" -> {"silent", "closed"}
                 [] link = "silent" -> {"closed"}
                 [] OTHER -> {}

DropConnect(c) ==
    /\ \E l \in Worse(cs[c].link) : cs' = [cs EXCEPT ![c].link = l]
    /\ UNCHANGED <<db, connMan, ss, devices>>

DropServe(s) ==
    /\ \E l \in Worse(ss[s].link) : ss' = [ss EXCEPT ![s].link = l]
    /\ UNCHANGED <<db, connMan, cs, devices>>

(* RVPNDaemon.Disconnect: the tunnel goes down and one WebSocket of the     *)
(* device is closed.  (The daemon closes the one it opened last; which of  *)
(* several that is makes no difference to the control plane.)              *)
DisconnectDevice(d) ==
    LET open == {c \in ConnectSession : cs[c].device = d /\ cs[c].link # "closed"}
    IN  /\ clientConf[d] # Nil
        /\ clientConf' = [clientConf EXCEPT ![d] = Nil]
        /\ \/ open = {} /\ UNCHANGED cs
           \/ \E c \in open : cs' = [cs EXCEPT ![c].link = "closed"]
        /\ UNCHANGED <<db, connMan, ss, deviceKey, wgPeers>>

(* A device's state file lost its keys and new ones were generated; with   *)
(* one set-up at a time this does not happen in the middle of one.         *)
RotateKey(d) ==
    /\ deviceKey[d] < MaxKey /\ MayOpen
    /\ deviceKey' = [deviceKey EXCEPT ![d] = @ + 1]
    /\ UNCHANGED <<db, connMan, cs, ss, clientConf, wgPeers>>

Crash == Crashes /\ Die

Next ==
    \/ \E c \in ConnectSession :
        \/ \E d \in Device, t \in Target : OpenConnect(c, d, t)
        \/ ConnectStep(c) \/ DropConnect(c)
    \/ \E s \in ServeSession :
        \/ \E t \in Target : OpenServe(s, t)
        \/ ServeStep(s) \/ DropServe(s)
    \/ \E t \in Target : CreateVpnTarget(t)
    \/ \E d \in Device : DisconnectDevice(d) \/ RotateKey(d)
    \/ Crash

Spec == Init /\ [][Next]_vars

(* A goroutine that can go on does go on: the database answers, a device   *)
(* whose link is up answers, and the ticker of blockUntilStale ticks.      *)
(* Nothing makes a silent link close, or anybody open a session.           *)
Fairness ==
    /\ \A c \in ConnectSession : WF_vars(ConnectStep(c))
    /\ \A s \in ServeSession : WF_vars(ServeStep(s))

FairSpec == Spec /\ Fairness

-----------------------------------------------------------------------------
(* Properties.                                                             *)

(* Tables, maps, handlers and devices hold values of their types; in      *)
(* particular every address a handler or a device has is one of the        *)
(* network's client addresses (getNextClientIp).                           *)
TypeOK ==
    /\ targets \in [Target -> [serverPubkey : ServeSession \cup {Nil}] \cup {Nil}]
    /\ connections \in [ConnectSession -> Row \cup {Nil}]
    /\ vpnServerConnections \in [Target -> ServeSession \cup {Nil}]
    /\ vpnClientConnections \in [Target -> SUBSET ConnectSession]
    /\ cs \in [ConnectSession -> ConnectHandler]
    /\ ss \in [ServeSession -> ServeHandler]
    /\ deviceKey \in [Device -> 1 .. MaxKey]
    /\ clientConf \in [Device -> [target : Target, server : ServeSession \cup {Nil},
                                  clientIp : ClientIp, pubkey : Key] \cup {Nil}]
    /\ wgPeers \in [ServeSession -> Peers]

(* A device has at most one connection row per target, although the        *)
(* database does not demand it, createConnection checks it in a statement  *)
(* of its own before the INSERT, and a device may be connecting twice at   *)
(* the same time (device_connect.go, createConnection).                    *)
OneConnectionPerDevice ==
    \A id1, id2 \in ConnectSession :
        /\ connections[id1] # Nil /\ connections[id2] # Nil
        /\ connections[id1].target = connections[id2].target
        /\ connections[id1].deviceId = connections[id2].deviceId
        => id1 = id2

(* Why it holds.  An address that a handler has chosen has no free address *)
(* below it, as rows are never deleted.  So two handlers of one device     *)
(* that are both past the check cannot both insert: the first to do so     *)
(* took the lowest free address, and the one the other has chosen is that  *)
(* one or was taken before.                                                *)
NoGapBelow ==
    \A c \in ConnectSession : cs[c].pc \in {"exists", "insert"} =>
        \A lower \in ClientIp :
            lower < cs[c].clientIp => lower \in GetTargetClientIps(connections, cs[c].target)

InsertConflicts ==
    \A c \in ConnectSession :
        /\ cs[c].pc = "insert"
        /\ GetConnection(connections, cs[c].target, cs[c].device) # {}
        => cs[c].clientIp \in GetTargetClientIps(connections, cs[c].target)

(* The row that a handler is about to write back is still that row, up to  *)
(* the key.                                                                *)
SyncsSameRow ==
    \A c \in ConnectSession : cs[c].pc = "sync" =>
        /\ connections[cs[c].id] # Nil
        /\ connections[cs[c].id].target = cs[c].target
        /\ connections[cs[c].id].deviceId = cs[c].device
        /\ connections[cs[c].id].clientIp = cs[c].clientIp

(* The inductive invariant behind OneConnectionPerDevice: however the      *)
(* look-ups, checks and INSERTs of several handlers interleave, a handler  *)
(* whose device has meanwhile got a row can only run into the UNIQUE       *)
(* constraint (getNextClientIp, createConnection).                         *)
AddressInv == OneConnectionPerDevice /\ NoGapBelow /\ InsertConflicts /\ SyncsSameRow

(* The address recorded for a device on a target. *)
Lease(rows, t, d) ==
    LET found == GetConnection(rows, t, d)
    IN  IF found = {} THEN Nil ELSE rows[CHOOSE id \in found : TRUE].clientIp

Leases == INSTANCE ClientIpLeases
    WITH leases <- [t \in Target |-> [d \in Device |-> Lease(connections, t, d)]]

(* The interleaved look-ups and INSERTs of getNextClientIp and              *)
(* createConnection implement an allocator that gives each device one      *)
(* address, the lowest free one, and never takes it back or changes it.    *)
LeaseSpec == Leases!Spec

(* A handler that found the target's server alive still finds a connection *)
(* to it when it asks again to append the peer, so that the Call on nil    *)
(* that the code only logs about cannot happen (device_connect.go, after   *)
(* getVPNServerConn).                                                      *)
ServerConnKept ==
    \A c \in ConnectSession :
        cs[c].pc \notin {"new", "auth", "alive", "blocked", "closed"}
            => vpnServerConnections[cs[c].target] # Nil

(* A set-up ends or waits for its own device.  It does not wait for ever   *)
(* for a serving device that has gone silent, since the Call returns when  *)
(* that device's own handler gives up (blockUntilStale), with one          *)
(* exception: the server's reader was stuck behind a late heartbeat at     *)
(* that moment (heartbeatChan, device_serve.go).                           *)
SetupEnds ==
    \A c \in ConnectSession :
        (cs[c].pc \notin Settled)
            ~> \/ cs[c].pc \in {"blocked", "closed"} \/ cs[c].link = "silent"
               \/ cs[c].pc = "hung"

(* What follows holds when one session is set up at a time and SQL         *)
(* statements do not fail; the handlers rely on it and do not enforce it.  *)

(* A device is configured with the address that is recorded for it         *)
(* ("we must ensure there is a connection for the device",                 *)
(* device_connect.go).                                                     *)
RecordedClientIp ==
    \A d \in Device :
        clientConf[d] # Nil => clientConf[d].clientIp = Lease(connections, clientConf[d].target, d)

(* Once no set-up is under way, a client that was sent to the server which *)
(* now serves its target, with the key and address it was told, is a peer  *)
(* of that server, through reconnects, new keys, servers that take over or *)
(* go away, and crashes of the control plane ("append new client to target *)
(* VPN server so VPN server knows about client", device_connect.go).       *)
TunnelUsable ==
    InSetup = {} =>
        \A d \in Device :
            LET conf == clientConf[d]
                conn == vpnServerConnections[conf.target]
            IN  /\ conf # Nil /\ conn # Nil
                /\ conf.server = conn /\ ss[conn].link = "up"
                => wgPeers[conn][conf.clientIp] = conf.pubkey

(* Once no set-up is under way, the server whose key clients are given is  *)
(* the one that new peers are appended to: the row of the target and the   *)
(* ConnectionManager agree (device_serve.go writes one and then the other). *)
ServerAgrees ==
    InSetup = {} =>
        \A t \in Target :
            vpnServerConnections[t] # Nil
                => targets[t].serverPubkey = vpnServerConnections[t]

(* Two devices on a target are never configured with the same address:     *)
(* "we found an ip to allocate, ensure this is not raced via unique db     *)
(* constraint" (device_utils.go, getNextClientIp).                         *)
DistinctClientIps ==
    \A d1, d2 \in Device :
        /\ d1 # d2 /\ clientConf[d1] # Nil /\ clientConf[d2] # Nil
        /\ clientConf[d1].target = clientConf[d2].target
        => clientConf[d1].clientIp # clientConf[d2].clientIp
=============================================================================
