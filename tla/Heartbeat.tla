----------------------------- MODULE Heartbeat ------------------------------
(***************************************************************************)
(* How the control plane finds out that a device is gone.  On the device   *)
(* heartbeatGenerator calls device_heartbeat every HeartbeatInterval; on   *)
(* the control plane the goroutine that reads the jrpc connection hands    *)
(* each of them over a channel to the WebSocket's handler, which sits in   *)
(* blockUntilStale until none has come for StaleTimeout, and then closes   *)
(* the WebSocket.  The two endpoints, clientConnect and clientServe,       *)
(* differ in the capacity of the channel.                                  *)
(*                                                                         *)
(* Time is discrete.  It passes only when no goroutine has anything to do: *)
(* a step of the program takes no time compared with the 30 seconds of the *)
(* shortest ticker.  The behaviour starts when the device has answered     *)
(* connect_server or serve_vpn.                                            *)
(*                                                                         *)
(* The jsonrpc2 library, external: one goroutine reads a connection and    *)
(* runs Handle itself, so it reads nothing while Handle waits; a Call      *)
(* waits for its answer, for the end of the connection or for its context. *)
(***************************************************************************)
EXTENDS Naturals

CONSTANTS
    Endpoint,           \* the endpoints considered
    HeartbeatInterval,  \* of the device's ticker
    CheckInterval,      \* of the ticker in blockUntilStale
    StaleTimeout,       \* its argument staleTimeout
    MaxDelay            \* a working network delivers within this time

Periods == {HeartbeatInterval, CheckInterval, StaleTimeout, MaxDelay}
ASSUME PeriodAssumption == Periods \subseteq Nat \ {0}
ASSUME EndpointAssumption == Endpoint \subseteq {"connect", "serve"}
ASSUME NetworkAssumption == HeartbeatInterval + 2 * MaxDelay < StaleTimeout

VARIABLES
    endpoint,       \* whose handler it is
    pc,             \* the WebSocket's handler: where it is
    sinceLast,      \* ... the time since lastHeartbeat
    check,          \* ... the ticker of blockUntilStale
    queue,          \* the heartbeats in heartbeatChan
    reader,         \* the goroutine that reads the jrpc connection
    gen,            \* heartbeatGenerator: where it is
    beat,           \* ... its ticker
    wire,           \* the heartbeat, or the answer to it, that is under way
    age,            \* ... for how long
    link,           \* the network between the two
    bad             \* history: link has been other than up

handler == <<endpoint, pc, sinceLast, check>>
device == <<gen, beat>>
network == <<link, bad>>
vars == <<endpoint, pc, sinceLast, check, queue, reader, gen, beat, wire, age, link, bad>>

(* time.NewTicker: its channel holds one tick, further ones are dropped. *)
Ticker(period) == [left : 1 .. period, ready : BOOLEAN]
NewTicker(period) == [left |-> period, ready |-> FALSE]

Advance(ticker, period) ==
    IF ticker.left = 1
    THEN [left |-> period, ready |-> TRUE]
    ELSE [ticker EXCEPT !.left = @ - 1]
Drain(ticker) == [ticker EXCEPT !.ready = FALSE]

(* Mutant: a channel with room for one. *)
CapacityOne == IF endpoint = "connect" THEN 1 ELSE 0

(* make(chan int, 2) and make(chan int) *)
Capacity == IF endpoint = "connect" THEN 2 ELSE 0

Init ==
    /\ endpoint \in Endpoint
    /\ pc = "setup" /\ sinceLast = 0 /\ check = NewTicker(CheckInterval)
    /\ queue = 0 /\ reader = "reading"
    /\ gen = "first" /\ beat = NewTicker(HeartbeatInterval)
    /\ wire = "none" /\ age = 0
    /\ link = "up" /\ bad = FALSE

(* Who has noticed that the WebSocket is closed: a silent network hides it. *)
HandlerClosed == pc = "closed" \/ link = "closed"
DeviceClosed == link = "closed" \/ (pc = "closed" /\ link = "up")

-----------------------------------------------------------------------------
(* The WebSocket's handler.                                                *)

(* The Call has returned: setVPNClientConn or setVPNServerConn, and        *)
(* blockUntilStale is entered.                                             *)
StartBlocking ==
    /\ pc = "setup"
    /\ pc' = "blocked" /\ sinceLast' = 0 /\ check' = NewTicker(CheckInterval)
    /\ UNCHANGED <<endpoint, queue, reader, device, wire, age, network>>

(* Mutant: a check that finds the device alive counts as a heartbeat. *)
CheckStaleRenews ==
    /\ pc = "blocked" /\ check.ready
    /\ check' = Drain(check)
    /\ pc' = IF sinceLast >= StaleTimeout THEN "returned" ELSE pc
    /\ sinceLast' = IF sinceLast >= StaleTimeout THEN sinceLast ELSE 0
    /\ UNCHANGED <<endpoint, queue, reader, device, wire, age, network>>

(* Mutant: the ticks are not looked at. *)
CheckStaleNever ==
    /\ pc = "blocked" /\ check.ready
    /\ check' = Drain(check)
    /\ UNCHANGED <<endpoint, pc, sinceLast, queue, reader, device, wire, age, network>>

(* A tick.  The context the select also waits for is cancelled only after  *)
(* blockUntilStale has returned.                                           *)
CheckStale ==
    /\ pc = "blocked" /\ check.ready
    /\ check' = Drain(check)
    /\ pc' = IF sinceLast >= StaleTimeout THEN "returned" ELSE pc
    /\ UNCHANGED <<endpoint, sinceLast, queue, reader, device, wire, age, network>>

(* The deferred function cancels the context and closes the WebSocket. *)
CloseWebSocket ==
    /\ pc = "returned"
    /\ pc' = "closed"
    /\ UNCHANGED <<endpoint, sinceLast, check, queue, reader, device, wire, age, network>>

-----------------------------------------------------------------------------
(* The goroutine that reads the jrpc connection.                           *)

(* A heartbeat is read, also one that came before the WebSocket was        *)
(* closed, and Handle is called.                                           *)
ReadHeartbeat ==
    /\ reader = "reading" /\ wire = "request" /\ link # "silent"
    /\ reader' = "sending" /\ wire' = "none"
    /\ UNCHANGED <<handler, queue, device, age, network>>

(* Handle is past the channel: it answers, and the next message is read. *)
Reply ==
    /\ reader' = "reading"
    /\ wire' = IF HandlerClosed THEN "none" ELSE "reply"
    /\ age' = 0

(* heartbeatChan <- 1 while there is room in the channel. *)
BufferHeartbeat ==
    /\ reader = "sending" /\ queue < Capacity
    /\ queue' = queue + 1
    /\ Reply
    /\ UNCHANGED <<handler, device, network>>

(* Mutant: only the first heartbeats count. *)
TakeHeartbeatOnly ==
    /\ pc = "blocked" /\ queue > 0
    /\ queue' = queue - 1
    /\ UNCHANGED <<handler, reader, device, wire, age, network>>

(* blockUntilStale takes a heartbeat out of the channel. *)
TakeHeartbeat ==
    /\ pc = "blocked" /\ queue > 0
    /\ queue' = queue - 1 /\ sinceLast' = 0
    /\ UNCHANGED <<endpoint, pc, check, reader, device, wire, age, network>>

(* Without a buffer the two meet, or the reader waits. *)
HandOverHeartbeat ==
    /\ pc = "blocked" /\ Capacity = 0 /\ reader = "sending"
    /\ sinceLast' = 0
    /\ Reply
    /\ UNCHANGED <<endpoint, pc, check, queue, device, network>>

EndReader ==
    /\ reader = "reading" /\ HandlerClosed
    /\ reader' = "ended"
    /\ UNCHANGED <<handler, queue, device, wire, age, network>>

-----------------------------------------------------------------------------
(* heartbeatGenerator on the device.                                       *)

(* The first heartbeat at once, then one for each tick: the Call is sent,  *)
(* or fails on a connection that is known to be closed.                    *)
SendHeartbeat ==
    /\ gen = "first" \/ (gen = "idle" /\ beat.ready)
    /\ beat' = IF gen = "first" THEN beat ELSE Drain(beat)
    /\ \/ /\ ~DeviceClosed
          /\ gen' = "waiting" /\ wire' = "request" /\ age' = 0
       \/ /\ DeviceClosed
          /\ gen' = "idle" /\ UNCHANGED <<wire, age>>
    /\ UNCHANGED <<handler, queue, reader, network>>

(* The Call returns with the answer, ... *)
ReceiveReply ==
    /\ gen = "waiting" /\ wire = "reply" /\ link = "up"
    /\ gen' = "idle" /\ wire' = "none"
    /\ UNCHANGED <<handler, queue, reader, beat, age, network>>

(* ... or because the connection is closed; the error is only logged. *)
CallFails ==
    /\ gen = "waiting" /\ DeviceClosed
    /\ gen' = "idle"
    /\ UNCHANGED <<handler, queue, reader, beat, wire, age, network>>

(* Disconnect on the device: jrpcConn.Close and jrpcCtxCancel. *)
Disconnect ==
    /\ gen # "ended"
    /\ gen' = "ended"
    /\ link' = IF link = "up" THEN "closed" ELSE link
    /\ bad' = TRUE
    /\ UNCHANGED <<handler, queue, reader, beat, wire, age>>

-----------------------------------------------------------------------------
(* The network: it falls silent and may recover, or the connection breaks. *)
NetworkChanges ==
    /\ link # "closed"
    /\ \/ link = "up" /\ link' = "silent"
       \/ link = "silent" /\ link' = "up"
       \/ link' = "closed"
    /\ bad' = TRUE
    /\ UNCHANGED <<handler, queue, reader, device, wire, age>>

Delivering ==
    \/ wire = "request" /\ reader = "reading"
    \/ wire = "reply" /\ gen = "waiting"

(* Some goroutine can go on, or a working network has to deliver by now. *)
Urgent ==
    \/ pc \in {"setup", "returned"}
    \/ pc = "blocked" /\ (check.ready \/ queue > 0 \/ (reader = "sending" /\ Capacity = 0))
    \/ reader = "sending" /\ queue < Capacity
    \/ reader = "reading" /\ HandlerClosed
    \/ gen = "first" \/ (gen = "idle" /\ beat.ready)
    \/ gen = "waiting" /\ DeviceClosed
    \/ link = "up" /\ Delivering /\ age >= MaxDelay

(* Time passes. *)
Tick ==
    /\ ~Urgent
    /\ sinceLast' = IF pc = "blocked" THEN sinceLast + 1 ELSE sinceLast
    /\ check' = IF pc = "blocked" THEN Advance(check, CheckInterval) ELSE check
    /\ beat' = IF gen # "ended" THEN Advance(beat, HeartbeatInterval) ELSE beat
    /\ age' = IF wire # "none" /\ age < MaxDelay THEN age + 1 ELSE age
    /\ UNCHANGED <<endpoint, pc, queue, reader, gen, wire, network>>

HandlerStep == StartBlocking \/ CheckStale \/ TakeHeartbeat \/ HandOverHeartbeat \/ CloseWebSocket
ReaderStep == ReadHeartbeat \/ BufferHeartbeat \/ EndReader
DeviceStep == SendHeartbeat \/ ReceiveReply \/ CallFails

Next ==
    \/ HandlerStep \/ ReaderStep \/ DeviceStep
    \/ Disconnect \/ NetworkChanges \/ Tick

(* Goroutines are scheduled and time passes; the user and the network owe  *)
(* nothing.                                                                *)
Fairness ==
    /\ WF_vars(HandlerStep) /\ WF_vars(ReaderStep) /\ WF_vars(DeviceStep)
    /\ WF_vars(Tick)

Spec == Init /\ [][Next]_vars /\ Fairness

-----------------------------------------------------------------------------
(* Tickers stay within their periods and heartbeatChan within its          *)
(* capacity.  HeartbeatProofs proves it and builds on it.                  *)
TypeOK ==
    /\ endpoint \in Endpoint
    /\ pc \in {"setup", "blocked", "returned", "closed"}
    /\ sinceLast \in Nat /\ check \in Ticker(CheckInterval)
    /\ queue \in 0 .. Capacity
    /\ reader \in {"reading", "sending", "ended"}
    /\ gen \in {"first", "idle", "waiting", "ended"} /\ beat \in Ticker(HeartbeatInterval)
    /\ wire \in {"none", "request", "reply"} /\ age \in 0 .. MaxDelay
    /\ link \in {"up", "silent", "closed"} /\ bad \in BOOLEAN

(* However heartbeats, ticks and delays fall together, a handler never     *)
(* waits as long as StaleTimeout and one check more after the last         *)
(* heartbeat it took (device_utils.go, blockUntilStale).                   *)
GivesUpInTime == pc = "blocked" => sinceLast < StaleTimeout + CheckInterval

(* The handler gives a device up only if the network failed or the device  *)
(* closed the connection: heartbeats that wait for their answers and share *)
(* the reader with everything else still come often enough                 *)
(* (daemon.go, heartbeatGenerator; device_utils.go, blockUntilStale).      *)
NoFalseAlarm == pc \in {"returned", "closed"} => bad

(* A device that stays unreachable is given up and its WebSocket closed,   *)
(* whatever was under way when it fell silent (device_utils.go,            *)
(* blockUntilStale).                                                       *)
SilenceNoticed == <>[](link # "up") => <>(pc = "closed")

(* A heartbeat that has been read is answered, even if the handler gives   *)
(* up in the same moment with those before it still in the channel         *)
(* (device_connect.go, Handle: "acknowledge heartbeat and send message to  *)
(* channel").  Only the channel of clientServe, which has no room, keeps   *)
(* its reader for ever once the handler is gone (device_serve.go).         *)
Acknowledged ==
    reader = "sending" ~> (reader # "sending" \/ (endpoint = "serve" /\ pc = "closed"))
=============================================================================
