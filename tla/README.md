# A TLA+ model of rVPN

rVPN connects devices to WireGuard VPN servers through a central control plane.
A device that serves a *target* and the devices that connect to it each hold a
WebSocket to the control plane, which hands out addresses, tells the server
about its peers and tells the client about its server. The control plane calls
the devices over these WebSockets (jrpc), not the other way round; a device
only sends heartbeats.

This directory holds TLA+ modules of the parts of the system that keep state,
TLC configurations that check them on small instances, and TLAPS proofs of the
properties that hold for instances of every size. `PROJECT.json` lists, in
machine-readable form, the components, runs, hazards, theorems and, for every
definition, the source lines it models.

## 1. Inventory

| component | source | state | operations | who it interacts with |
|---|---|---|---|---|
| client set-up | `cmd/control-plane/device_connect.go`, `device_utils.go` | one goroutine per WebSocket; its locals | `clientConnect`: authenticate, `targetServerAlive`, ask for the public key, look up or create the connection row, tell the server, configure the client, wait for staleness | database, connection manager, the client's and the server's WebSockets |
| server set-up | `device_serve.go` | the same | `clientServe`: authenticate, look the target up, record the server's key, read all connections, `serve_vpn`, register | the same |
| connection manager | `connman.go` | two Go maps, no lock | set and get the connection of a target's server and clients | both handlers |
| database | `db.go`, `migrations/` | tables `targets`, `target_acl`, `connections`, `devices` | one SQL statement each, no transactions | all handlers |
| address allocation | `device_utils.go` `getNextClientIp`, `device_connect.go` `createConnection` | rows of `connections` | choose the lowest free address; check, then `INSERT .. ON CONFLICT DO NOTHING` | database |
| registration, targets | `device.go`, `target.go`, `util.go` | tables `devices`, `targets`, `target_acl` | HTTP handlers: `registerDevice`, `createTarget`, `getTargets` | database; CLI and GUI before every connect |
| authentication | `auth.go`, `oauth.go` | none (JWTs) | sign, verify, OAuth exchange | HTTP and WebSocket handlers |
| heartbeats | `device_utils.go` `blockUntilStale`, `daemon/daemon.go` `heartbeatGenerator` | the time of the last heartbeat, two tickers, a channel (room for two in `clientConnect`, none in `clientServe`) | a heartbeat every 30 s, a check every minute, stale after 3 | both ends of every WebSocket |
| rVPN daemon | `daemon/daemon.go`, `daemon_linux.go` | `status`, `jrpcConn`, a context | RPC: `Connect`, `Serve`, `Disconnect`, `Status`, `GetState`, `SetState`; jrpc: `connect_server`, `serve_vpn`, `append_vpn_peers`, `get_*` | CLI, control plane, WireGuard daemon, state file |
| WireGuard daemon (Linux) | `daemon/wg/daemon_linux.go`, `network_util_linux.go` | flags of what was added; the kernel's device, routes, rules, iptables | `UpdateClientConf`, `UpdateServeConf`, `AppendPeers`, `Disconnect`, `ShutdownDevice` | rVPN daemon, kernel |
| state file | `daemon/state.go` | one JSON file: login token, key pair | read; truncate and write | jrpc handlers; CLI and GUI through RPC |
| CLI, GUI | `cmd/client/`, `cmd/client_gui/` | none | look at the status, then one RPC; login, logout | rVPN daemon |
| WireGuard daemon (macOS, Windows) | `daemon/wg/daemon_darwin.go`, `daemon_windows.go` | the same, without serving | the same, without serving | rVPN daemon, kernel |
| Windows service | `service/service_windows.go` | two goroutines, `Execute` and `Start`, and the channel `manualTerm` | start, stop | service manager, rVPN daemon, GUI |
| elevation, installation, jrpc streams, HTTP wiring | see `PROJECT.json` | – | – | – |

What is hard about it:

* Any number of handlers of the control plane run at the same time over a
  database without transactions and maps without locks. Each does "look, then
  act" in separate statements.
* A client's handler makes calls on *another* device's WebSocket
  (`append_vpn_peers`), so it depends on somebody else's link and handler.
* The database survives a crash of the control plane and the connection manager
  does not; the kernel's routes, rules and iptables survive a crash of the
  daemon and its flags do not.
* Error branches often log or reply and go on.
* The daemon's status changes when the control plane's request is handled, not
  when the user's command returns. Commands, requests and signals interleave.
* What `Disconnect` keeps of the WireGuard daemon's fields decides what the next
  `Connect` does; any sequence of commands is legal.

What makes each part correct:

* Addresses: a device has one row per target and keeps its address; no two
  devices of a target have the same one; the lowest free one is taken.
* Set-up: what a device is configured with is what is recorded and what the
  server knows; set-ups end; a server's connection that was found stays found.
* Daemon: the kernel agrees with the status; disconnecting and stopping leave
  nothing behind; no legal sequence of commands ends the process.
* State file: updates lose neither the token nor a key the control plane knows.
* Heartbeats: a device that is gone is noticed in time, one that is there is not
  given up, and nobody is left waiting on a channel.
* Registration: an id belongs to one device and a device keeps it; a target
  belongs to the user who was told so.
* Service: a stop stops, and the process ends.

The `hazards` of `PROJECT.json` list where these can go wrong, by line.

## 2. Modules

| module | models | kind |
|---|---|---|
| `ClientIps` | the network of a target and `getNextClientIp` | operators |
| `Database` | the SQL statements on `targets` and `connections` | operators |
| `ControlPlane` | `clientConnect` and `clientServe`, the connection manager, and as much of the devices as they see | state machine |
| `ClientIpLeases` | what the address allocation promises | abstract specification |
| `ControlPlaneProofs` | theorems about `ControlPlane` | proofs |
| `RvpnDaemon` | the Linux daemon, its CLI, its jrpc connections and the kernel | state machine |
| `RvpnDaemonProofs` | type correctness of `RvpnDaemon`, and what holds with impatient users | proofs |
| `RvpnDaemonRoutes` | the daemon's fields and the kernel agree, when users wait | proofs |
| `StateFile` | the state file under logins and jrpc handlers | state machine |
| `StateFileProofs` | theorems about `StateFile` | proofs |
| `Heartbeat` | `heartbeatGenerator`, `blockUntilStale` and what is between them, in discrete time | state machine |
| `HeartbeatProofs` | theorems about `Heartbeat` | proofs |
| `Registration` | the HTTP handlers over `targets`, `target_acl` and `devices` | state machine |
| `RegistrationProofs` | theorems about `Registration` | proofs |
| `DesktopDaemon` | the daemon on macOS and Windows, the Windows service, the client, the kernel | state machine |
| `DesktopDaemonProofs` | type correctness of `DesktopDaemon` | proofs |
| `DesktopDaemonRoutes` | the daemon's fields, the tunnel and the routes agree | proofs |
| `MCControlPlane`, `MCRvpnDaemon`, `MCStateFile`, `MCHeartbeat`, `MCRegistration`, `MCDesktopDaemon` | instances for TLC | |

### ControlPlane

`cs[c]` is the handler of a WebSocket opened on `/target/:target/connect` and
`ss[s]` one on `/target/:target/serve`: a program counter, the state of the
link, and the locals that live across statements. `targets` and `connections`
are the tables, `vpnServerConnections` and `vpnClientConnections` the maps of
`ConnectionManager`. `deviceKey`, `clientConf` and `wgPeers` are on the devices:
the key pair of a client, what `connect_server` last configured, and the peers
in the WireGuard of a server.

One action is what a handler does between two points where somebody else can
get in between: one SQL statement, one access to a map or one jrpc call.

| `clientConnect` | actions |
|---|---|
| `OpenConnect` | the upgrade; CLI and GUI connect only while the daemon is not connected |
| `ConnectAuth` | `get_device_auth`, the device's token, `getTargetByName` |
| `ConnectAlive`, `ConnectInfo` | `targetServerAlive`, `get_client_information` |
| `ConnectLookup`, `ConnectSync` | `getConnection`; if the row has another key, `syncConnectionPubkey`, after which the peer is appended; if it has the same key, `connect_server` follows at once |
| `ConnectNextIp`, `ConnectExists`, `ConnectInsert` | the three statements that give a device an address |
| `ConnectGetServer`, `ConnectAppend` | `getVPNServerConn`, `append_vpn_peers` on the server's link |
| `ConnectServer`, `ConnectStale` | `connect_server`, `blockUntilStale` |
| `ConnectCallFails`, `ConnectDbFails` | a call on a closed link; a failing SQL statement, including the branch that goes on |

| `clientServe` | actions |
|---|---|
| `OpenServe`, `ServeAuth`, `ServeInfo` | as above; `ServeAuth` looks the target up and does not return when there is none, `ServeInfo` then ends the process |
| `ServeUpdate`, `ServePeers` | `updateTarget`, `getConnectionsByTarget` |
| `ServeVpn`, `ServeRegister`, `ServeStale` | `serve_vpn`, `setVPNServerConn`, `blockUntilStale` |

The rest: `CreateVpnTarget` (the HTTP handler), `DropConnect` and `DropServe` (a
link goes silent or is closed), `DisconnectDevice`, `RotateKey` (a device whose
state file was lost makes a new key) and `Crash`.

Two things that the handlers do not notice are in the model. A query whose rows
are read in a loop may give a part of the result without an error, because
nobody asks `rows.Err()` (`ReadRows` of `Database`, used by `ConnectNextIp` and
`ServePeers`). And when a silent server is given up, the goroutine that reads
its connection may be stuck in `Handle` on the unbuffered channel, so that the
`append_vpn_peers` that other handlers have sent by then never return: their
program counter becomes `hung` (`ReaderEnds`).

Simplifications: a session is used once, and names the row it may create (the
uuid) and, for a server, its public key and address; a serving daemon has one
session; heartbeats have no clock (a link that is up delivers them in time, one
that is not never does); `vpnClientConnections`, which nothing reads, holds
sets.

### RvpnDaemon

`rvpn` and `wg` are the fields of `RVPNDaemon` and `WireguardDaemon`, `net` is
the kernel: whether the device is up and what it is configured for, the routes
into the tunnel, the host routes over the default interface, source routing
rules and routes, and how often the iptables rules are there. `jrpc[s]` is a
connection to the control plane with the request it is handling, `cli` the one
RPC connection that the accept loop of `Start` serves, `proc` the process.
`tainted` is history: an earlier process did not end by `ShutdownDevice`.

| code | actions |
|---|---|
| CLI: look at the status, then one call | `CliOpens`, `ClientConnectProfile`, `ClientServeProfile`, `ClientDisconnectProfile`, `ConnectGivesUp`, `ServeGivesUp` |
| `Connect`, `Serve`: dial, then store the connection | `Connect`, `Serve`, `Assign` |
| `Disconnect` | `DisconnectDown`, `DisconnectRoutes`, `DisconnectSource`, `DisconnectClose` |
| `connect_server`, `UpdateClientConf` | `ConnectServer`, `UpdateLink`, `UpdateDefault`, `UpdateCpRoute`, `UpdateFlush`, `EnableSrcRules`, `EnableSrcRoutes`, `UpdateConfigure`, `UpdateTunRoutes`, `Connected` |
| `serve_vpn`, `UpdateServeConf` | `ServeVpn`, `ServeLink`, `ServeConfigure`, `EnableForwarding`, `Serving` |
| `ShutdownDevice` | `Shutdown`, `ShutdownCpRoute`, `ShutdownForwarding`, `ShutdownSource` |
| the process and its links | `Start`, `Crash`, `Drop` |

A system call fails where the state of the kernel makes it fail (a route that is
there, one that is not, a device that is gone), and then does what the code does
with the error, which is often `log.Fatalf`. `Impatient` says whether users and
signals come in the middle of things or only between commands.

### StateFile

`file` is what a reader parses and the size of the text. A client or handler
reads the state, changes it in memory, truncates the file and writes: these are
separate steps, because nothing locks the file. The size is there because two
writers that have both truncated write from the start: if the shorter text is
written last, a tail remains, the text is no longer JSON, and
`GetRVpnState`, which ignores the error, returns the empty state. The write of
the short text itself is one system call and is taken as atomic.

### Heartbeat

What `ControlPlane` takes for granted: that a handler notices a device that is
gone, and only such a device. Three goroutines of the control plane and the
device take part: the WebSocket's handler in `blockUntilStale` (`pc`,
`sinceLast`, `check`), the goroutine of the jrpc library that reads the
connection and runs `Handle` itself (`reader`), and `heartbeatGenerator` (`gen`,
`beat`). `queue` is the channel between the first two. `wire` is the one
heartbeat or answer under way: the generator waits for the answer before it
looks at its ticker again.

| code | actions |
|---|---|
| `blockUntilStale` and the deferred close | `StartBlocking`, `CheckStale`, `TakeHeartbeat`, `HandOverHeartbeat`, `CloseWebSocket` |
| `Handle` of the two endpoints | `ReadHeartbeat`, `BufferHeartbeat`, `HandOverHeartbeat`, `EndReader` |
| `heartbeatGenerator`, `Disconnect` | `SendHeartbeat`, `ReceiveReply`, `CallFails`, `Disconnect` |
| the network, time | `NetworkChanges`, `Tick` |

Time is discrete and passes only when no goroutine can go on and no delivery of
a working network is due (`Urgent`). A network that is up delivers within
`MaxDelay`; it may fall silent, recover, or break the connection at any time.

### Registration

`req[r]` is the handler of one HTTP request, `targets`, `targetAcl` and
`devices` the tables. A step is one SQL statement: `CreateTarget`;
`GetTargetsByPrincipal` and `GetTargetsByOwner`, the two queries behind every
list of accessible targets; `CreateDevice` and `GetDeviceId`. A statement that
fails at once answers 500 (`DbFails`), and a failing write may have been
committed (second alternative of `CreateTarget` and `CreateDevice`). A query
that fails in the middle of its rows is not noticed, and the list is a part of
what it should be (`ReadRows`). `told` and `missed` are history: the targets
that the user had been told are theirs when they asked, and the targets of theirs
whose row was not read. The program never writes `target_acl`; `ChangeAcl` is
an operator.

### DesktopDaemon

As `RvpnDaemon`, for the platforms that only connect; `os` is the platform, and
a step that differs between them has one action for each (`DarwinUp`,
`WindowsUp`, ...). They differ in what survives what: on macOS adding a route
that is there and deleting one that is not end the process, on Windows the
errors of the host routes are ignored and those of the routes into the tunnel
end the process; macOS asks whether there is a default interface before it
cleans up, Windows does not. On Windows `main` is `Execute`, which gets the
service manager's requests, and `daemon` is `Start` in its own goroutine; they
meet on the unbuffered `manualTerm` (`ManualTerm`), and the process ends when
`Execute` returns (`ExecuteReturns`), wherever `ShutdownDevice` is. `hasty` is
history: somebody gave a command before the last one was through.
`leftover` is history too: the process found host routes of an earlier one.

## 3. Runs

| run | what it shows |
|---|---|
| `control_plane_concurrent` | With handlers interleaving freely, SQL statements failing and the process dying: `TypeOK`; a device has one row per target (`OneConnectionPerDevice`, and the inductive `AddressInv` behind it); the server's connection does not vanish under a handler (`ServerConnKept`); the handlers implement `ClientIpLeases` (`LeaseSpec`). |
| `control_plane_sequential` | With one set-up at a time: a device is configured with the recorded address (`RecordedClientIp`); the server it is sent to has it as a peer with its key and address (`TunnelUsable`); database and connection manager name the same server (`ServerAgrees`); all of this through new keys, take-overs, lost links and crashes. |
| `control_plane_liveness` | `SetupEnds`: a set-up ends, unless the handler's own device is silent, or the reader of the server's connection was stuck behind a late heartbeat when the server was given up (`hung`). |
| `daemon_commands` | With one command at a time, in any order, and the process stopped, killed and started: the kernel agrees with the status (`ConnectedIsRouted`, `ServingForwards`, `DisconnectedIsClean`); nothing but leftovers of a killed process makes `UpdateClientConf` exit (`FatalOnlyOnLeftovers`); a shutdown that comes to its end leaves nothing (`StoppedIsClean`); the one server that a process has connected to is routed past the tunnel (`OneServerRouted`). |
| `daemon_interleaved` | With everything at any time: `Disconnect` always has a connection to close (`DisconnectHasConn`). |
| `state_file` | Updates that do not overlap lose neither token nor reported key, whoever makes them and whenever the daemon dies (`TokenKept`, `ReportedKeyKept`). |
| `heartbeat` | For both endpoints, with heartbeats, checks, delays and failures in every order: a handler gives up before `StaleTimeout` and one check more have passed (`GivesUpInTime`), and only if the network failed or the device left (`NoFalseAlarm`); silence is noticed (`SilenceNoticed`); a heartbeat that was read is answered (`Acknowledged`). |
| `registration` | With requests interleaving at every statement, failing statements, results that are cut short and a changing ACL: an id that is handed out is in the table for that device (`AnswerIsRegistered`), belongs to one device (`IdsApart`), and stays the same as long as the device is registered for one target (`OneTargetOneId`); who was told that they created a target owns it (`OneCreator`) and is not refused it unless its row was not read (`OwnerAllowed`). |
| `desktop` | On both platforms, with service stops, signals and kills: routes and device agree with the status (`ConnectedIsTunnelled`, `DisconnectedIsClean`, `OneServerRouted`); no sequence of commands ends a process that found no leftovers (`FatalOnlyOnLeftovers`); a shutdown on macOS leaves no route (`StoppedIsClean`); a shutdown comes to its end (`ShutdownEnds`). |

Three runs show where a comment of the code is not what the code does. Each ends
in a counterexample of TLC; the comments are quoted in `findings`.

| run | counterexample |
|---|---|
| `ip_allocation_race` | Two new devices choose the same address; the second `INSERT` does nothing, and both are configured with it. |
| `server_takeover_race` | A client's row appears between a new server's look at the rows and its registration: the new server never hears of it. |
| `login_loses_key` | A login that overlaps the generation of the keys leaves a file without the reported key. |

Other places where the code does not do what a comment says, which the models
have and the properties leave out:

* `clientServe` does not return when the target is unknown
  (`device_serve.go:89`), goes on with a nil target and ends the process;
  `ServeInfo` has it. Line 96 says that the target has been confirmed.
* The second server of a process, and the first after serving, gets no route
  over the default interface (`wg/daemon_linux.go:147`, `daemon_darwin.go:145`,
  `daemon_windows.go:187`). `OneServerRouted` is about the first. On macOS
  `ShutdownDevice` then fails to delete a route that was never added and exits
  before it removes the control plane's.
* A second `connect` before the first is answered passes the look at the status
  and configures a connected device again, which on Linux ends the daemon
  (`cmd/client/client.go:66`).
* A device that is registered for two targets may be answered with the id it has
  for the other one, as `getDeviceId` does not name the target.
* On Windows `ShutdownDevice` dereferences a nil adapter in a process that never
  connected; a stop that comes after `Start` has returned waits for ever; a
  service without its daemon counts as started; and `Execute` may end the
  process before `ShutdownDevice` has removed the routes, which is why
  `StoppedIsClean` is about macOS.
* The reader of a `clientServe` connection that holds a heartbeat when the
  handler gives up waits for ever on the unbuffered channel, and so does a call
  that another handler has under way on that connection. `Heartbeat` has the
  first and `ControlPlane` the second; `Acknowledged` and `SetupEnds` except
  them, and nothing else.
* `getTargetsByOwner` and `getTargetsByPrincipal` do not look at `rows.Err()`
  (`db.go:95`, `db.go:118`): if the database fails while the rows are read, the
  part read so far is the list, so that `getTargets` ("Returns available
  connection targets") leaves a target of the user out with status 200, and
  `registerDevice` answers 401 for it. `OwnerAllowed` excepts the rows that were
  not read.
* After a failing or cut-short query a device may be configured with an address
  that is not recorded for it, and a server started without some of its peers.
  The table stays right (`LeaseSpec`, `AddressInv`); `RecordedClientIp` and
  `TunnelUsable` are about statements that do not fail.

### Bounds

* Control plane: one target (handlers of different targets share nothing but the
  tables, which are keyed by target), two devices, three client sessions, so
  that one device can connect twice while the other does, and one server, two
  where take-overs matter. The network has four addresses of which two can be
  given to clients (`NetworkIp = 1`, `PrefixSize = 4`), so the end of the prefix
  is reached. `MaxKey = 2` lets a key change once. `MaxInFlight` bounds the
  set-ups under way: 4 is all of them, 1 is the sequential case.
* Daemon: four connections in sequence (connect, serve, connect again, and one
  after a restart), or three interleaved; two server addresses where it matters
  which; `MaxForward = 3` lets the iptables rules pile up.
* State file: two clients, two handlers, three key pairs, and tokens of two
  lengths on both sides of a key pair's.

* Heartbeats: the unit is 30 s, so `HeartbeatInterval = 1`, `CheckInterval = 2`
  and `StaleTimeout = 6` are the periods of the code. `MaxDelay = 2` is the
  largest with `HeartbeatInterval + 2 * MaxDelay < StaleTimeout`. Time is not
  bounded: `sinceLast` stops growing when the handler gives up.
* Registration: two users of whom one has what the ACL gives, two machines, two
  targets, three requests: two overlap and a third comes after one of them.
* Desktop: two connections and two server addresses on each platform, with any
  number of restarts: connecting again after a disconnect, to the same or to
  another server, and in a process that finds leftovers.

Requests and sessions are used once, so the control plane, registration and
Linux daemon runs end in states without successors, and deadlock is not checked
there; `SetupEnds` is what says that nothing waits for ever. In `StateFile`,
`Heartbeat` and `DesktopDaemon` deadlock is checked.

### Fairness

`FairSpec` of `ControlPlane` has weak fairness of the steps of each handler: a
goroutine that can go on does, and the ticker of `blockUntilStale` ticks. It has
none of what devices and the network do: nothing forces a silent link to close,
a device to answer or a server to come. This is why `SetupEnds` excepts a
handler whose own link is silent. That a call on the *server's* silent link
returns follows, because that server's own handler gives up and closes it,
unless its reader is stuck at that moment.

`Heartbeat` has weak fairness of the handler, of the reader, of the generator
(goroutines are scheduled) and of `Tick` (time passes). Neither the network nor
the user owes anything.

`DesktopDaemon` has weak fairness of `StartDevice`, of the meeting on
`manualTerm`, of the steps of `ShutdownDevice` and of the return of the main
goroutine: each is a goroutine that can go on. Users, the service manager and
the control plane owe nothing, and the process may be killed.

## 4. Proofs

All theorems hold for every value of the constants under the named assumptions
of the modules, which TLC evaluates on the runs. The assumptions say that `Nil`
is none of the values it stands apart from, that bounds are naturals (`MaxKey`
and `MaxForward` positive), that the network is an interval of naturals
(`NetworkAssumption` of `ClientIps`), that the control plane is not a VPN
server's address (`AddressAssumption`, `DesktopAssumption`), that the ACL is
about users and targets (`AclAssumption`), and that the periods are positive
and a heartbeat, sent on time and delayed as much as its answer, comes before
the timeout (`PeriodAssumption`, `NetworkAssumption` of `Heartbeat`).

`ControlPlaneProofs`, under every interleaving, with failing statements and
crashes:

* `TypeCorrect`: `Spec => []TypeOK`. `TypeOK` is not inductive: a step that
  stores a local in a row needs to know that the local is set. `Typed` adds
  `LocalsSet`, which says for each program counter which locals are.
* `AddressInvariant`, `OneConnection`: `OneConnectionPerDevice` is not inductive
  and the schema does not demand it. What saves it is indirect. Rows are never
  deleted, so an address that a handler has chosen never has a free address
  below it (`NoGapBelow`). If the device gets a row after the handler's check,
  that row took the lowest free address, which the handler's own choice cannot
  be above, so the handler's `INSERT` meets the `UNIQUE` constraint on the
  address (`InsertConflicts`). `SyncsSameRow` carries this over the update of a
  key. The conjunction `AddressInv` is inductive given `Typed`.
  A cut-short list of used addresses does not disturb this: the lowest address
  that is not in it has only used ones below it, and is itself free or meets
  the constraint.
* `ServerConnStays`: entries of `vpnServerConnections` are replaced and never
  removed while the process lives.
* `ImplementsLeases`: `Spec => LeaseSpec`. Only `ConnectInsert` changes the
  leases, and when it does it is a `Grant` of the abstract allocator:
  `NoGapBelow` makes the address the lowest free one, and `InsertConflicts`
  makes the device one without a lease.

The last part of `ControlPlaneProofs` has the hypothesis `Sequential`
(`MaxInFlight <= 1` and no failing statement), which the handlers rely on and do
not enforce; `ip_allocation_race` and `server_takeover_race` show what goes wrong
without it. Crashes, lost links, new keys and take-overs remain, for any number
of sessions one after the other:

* `SetupsAgree`: `Spec => []SetupInv`. The handlers never hold two of the
  control plane's four pieces of state together (target row, connection rows,
  connection manager, peers of the serving daemon), so each property only holds
  between set-ups. `SetupInv` says what holds in the middle of one:
  * at most one handler is in its set-up (`OneSetup`, from a count of handlers
    through the cardinality theorems), and addresses of a target are unique
    (`UniqueIps`);
  * `clientConnect` (`ConnectInv`): its device is not configured and keeps its
    key; up to the `INSERT` the device has no row and the address is free, so
    the `INSERT` cannot meet a conflict; after it the row has the address and key
    that the device is going to be told;
  * `clientServe` (`ServeInv`): from `updateTarget` on the row names the new
    server, and from `getConnectionsByTarget` on the peers are complete, since
    no row can appear before the server is registered;
  * an entry of the connection manager belongs to a handler that blocks, or to
    one that has returned and whose link is closed (`Registered`); it agrees with
    the row, or the next server is between writing the two (`Agrees`); and its
    daemon has the peer of every row but the one a handler is about to append
    (`PeersCurrent`). `Registered` makes two targets with a live server have
    different ones, so that `append_vpn_peers` for one target cannot take an
    address away on another;
  * what a device was configured with is its row (`ConfRecorded`).
* `AddressesRecorded`, `ServersAgree`, `TunnelsUsable`: the three properties of
  the run `control_plane_sequential`. The proof of `TunnelsUsable` does not use
  that the client was sent to the current server: every configured client of a
  target is a peer of its live server.

`RvpnDaemonProofs`:

* `DaemonTypeCorrect`: with `HandlerHasServer` (a handler that configures a
  client has the address of a server).
* `DisconnectSafe`: `Spec => []DisconnectHasConn`. The status may be Connected
  while `jrpcConn` is still nil, because a request can be handled before
  `Connect` stores the connection. `ConnStored` says that then `Connect` is
  about to store it; as the accept loop serves one RPC connection at a time, no
  `Disconnect` can come first.

`HeartbeatProofs`, for all periods:

* `TypeCorrect`.
* `GivesUpInTimeAlways`: by `CheckIsDue`, the time since the last heartbeat and
  the time to the next check together stay below the bound; a ready check is
  taken before time passes.
* `NoFalseAlarmAlways`: by `WorkingNetwork`. While the network has not failed
  there is one heartbeat at a time (`OneAtATime`), and how long ago the last one
  was taken is bounded by how far the next has come: in the generator's ticker,
  on the wire, in the reader or in the channel (`HeartbeatsComing`).
  The sum of these is what `NetworkAssumption` compares with `StaleTimeout`.

`RegistrationProofs`, for any number of requests:

* `TypeCorrect`, with the locals that each program counter needs.
* `AnswerIsRegisteredAlways`, `IdsApartAlways`, `OneTargetOneIdAlways`: from
  `DeviceInv`. A row was written by the request whose uuid it has, for that
  request's device (`RowsWritten`); the key of the table is unique
  (`KeysUnique`); a request on its way to `getDeviceId` has met a row of its
  device (`RowMet`), and rows are never deleted, so its answer is there.
* `OneCreatorAlways`, `OwnerAllowedAlways`: from `OwnerInv`. Owners never
  change, so what a user was told is still so when the second query runs
  (`ToldIsOwned`), and a target of theirs that is not in the answer is one whose
  row was not read.

`RvpnDaemonRoutes`, under the hypothesis `~Impatient` (users wait for the answer
of the control plane, and the signal comes between commands), for any number of
connections and servers, with crashes, lost links and restarts. With impatient
users the properties are false: two handlers configure the device at once.

* `DaemonAgrees`: `Spec => []DaemonInv`, the inductive invariant the other
  theorems of the module follow from. No property is inductive alone: a
  connected device has its routes because the handler made them, step by step,
  over what the last `Disconnect` left. `DaemonInv` says
  * who acts: at most one of a command, a handler and a shutdown, except that a
    handler may run before `Connect` has stored its connection (`Exclusive`),
    and then the status is Disconnected (`StatusInv`). A handler that could start
    and one that runs count alike (`Active`);
  * what is there: what `UpdateClientConf` and `UpdateServeConf` have done by
    each step (`HandlerInv`), what a finished one has left until `Disconnect`
    takes it down (`TunnelInv`), and that the host routes to some server and to
    the control plane are there once the default interface is known
    (`DefaultInv`). This holds whatever earlier processes left behind;
  * what is not there, without leftovers: no other host route (`CleanHost`), no
    source rule or route that is not noted as appended or outlives the
    connection (`CleanSource`), no forwarding rule twice or while not serving
    (`CleanForward`). From this no step meets a route or rule that exists, and
    `ShutdownDevice` removes everything. `CleanSource` also has the order of
    rules and routes, since `stopSourceRouting` gives up on a missing route.
* `ConnectedRoutes`, `ServingIsForwarding`, `DisconnectedLeavesNothing`,
  `FatalsAreLeftovers`, `StoppedLeavesNothing`, `OneServerReachable`: the six
  properties of the run `daemon_commands`, from `DaemonInv`. `FatalsAreLeftovers`
  also uses `DisconnectSafe`.

`StateFileProofs`, for any number of clients and connections and any lengths of
tokens and keys:

* `UpdatesOrderly`: while `clean`, one process at most is between its read and
  its last write (`OneWriter`); the file, when it is not cut, holds the last
  token and the key that connections reported (`FileHolds`); and a process in
  between carries what it does not change (`ClientCarries`, `HandlerCarries`: a
  handler that saves a new key has found none, so no connection can have
  reported one).
* `TokenIsKept`, `ReportedKeyIsKept` follow. `TypeCorrect` is what they rest on.

`DesktopDaemonProofs`: `DesktopTypeCorrect`, with `LocalsSet` (a handler that
configures the device, and the daemon behind it, have the address of a server).

`DesktopDaemonRoutes`, for both systems, with service stops, crashes and
restarts. Here the properties themselves except hasty users (history `hasty`),
so there is no hypothesis.

* `DesktopAgrees`: `DesktopInv` is the counterpart of `DaemonInv`: what a process
  that starts finds (`LifeInv`), who acts and the status while not hasty
  (`Exclusive`, `StatusInv`), the tunnel and the default routes at each step of
  the handler of either system (`TunnelInv`, `ConnectingInv`, `DefaultInv`), and
  on macOS, where a route that exists is fatal, that the host routes are those
  the daemon knows of (`DarwinInv`).
* `ConnectedTunnels`, `DisconnectedClean`, `OneServerReachable`,
  `FatalsExplained`, `StoppedClean`: the five properties of the run `desktop`.

Each inductive invariant was checked by TLC on the constants of its run before
it was proved.

Only proved: the types of `RvpnDaemon` and `Heartbeat` (`DaemonTypeCorrect`,
`TypeCorrect`), which the other proofs of their modules rest on.

Only model-checked: liveness (`SetupEnds`, `SilenceNoticed`, `Acknowledged`,
`ShutdownEnds`), which the prover cannot reach.

## 5. Not modelled

* Authentication and OAuth: stateless; a handler sees whether a token is
  accepted. HTTP wiring and generated types have no state.
* Installation and elevation on Windows, pausing the service, and how the
  default interface is found: they keep no state that the daemon reads. The
  default interface is taken as one that never changes; the branches for a
  change say "behavior TODO" and do nothing.
* Data races proper. `status`, `jrpcConn` and the maps of the connection
  manager are used without locks. The runtime ends the process when it notices
  concurrent use of a map, which `Crash` covers.
* The composition of the control plane with a full daemon: `ControlPlane` has
  what its handlers see of a device, `RvpnDaemon` and `DesktopDaemon` take the
  requests of the control plane as they come.
* `ShutdownDevice` of a daemon that only served exits at its first statement (a
  known bug by the comment there) and leaves its forwarding rules: the model has
  it (`proc = "unclean"`), and `StoppedIsClean` excepts it.

## 6. Plan

Done, in this order: the control plane with its address allocation and the
abstract specification; the Linux daemon; the state file; the heartbeats; the
HTTP side; the daemon on macOS and Windows with the Windows service.

Proved since: the state file, the agreement of the daemons with the kernel, and
the control plane with one set-up at a time. The stuck reader and the results
that are cut short were added to the control plane and the HTTP side, and the
theorems about them proved again. Every safety property and the
refinement that a passing run checks is now stated by a theorem.
