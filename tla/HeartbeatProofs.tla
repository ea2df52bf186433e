-------------------------- MODULE HeartbeatProofs ---------------------------
(***************************************************************************)
(* The bounds of Heartbeat for every length of the tickers, the timeout    *)
(* and the delay of a working network, and for both endpoints.             *)
(***************************************************************************)
EXTENDS Heartbeat, TLAPS

(* Why GivesUpInTime holds: a check is due before too much time can pass.  *)
CheckIsDue ==
    pc = "blocked" =>
        IF check.ready
        THEN check.left = CheckInterval /\ sinceLast < StaleTimeout + CheckInterval
        ELSE sinceLast + check.left < StaleTimeout + CheckInterval

(* Why NoFalseAlarm holds: over a working network there is one heartbeat   *)
(* at a time, and how long ago the last one was taken is bounded by how    *)
(* far the next has come.                                                   *)
OnTime(bound) == queue > 0 \/ sinceLast <= bound
OneAtATime ==
    /\ gen \in {"first", "idle"} => wire = "none" /\ reader = "reading"
    /\ gen = "waiting" => \/ wire \in {"request", "reply"} /\ reader = "reading"
                          \/ wire = "none" /\ reader = "sending"
HeartbeatsComing ==
    pc = "blocked" =>
        /\ sinceLast <= HeartbeatInterval + 2 * MaxDelay
        /\ gen = "first" => sinceLast = 0
        /\ gen = "waiting" /\ wire = "request" => OnTime(HeartbeatInterval + MaxDelay + age)
        /\ gen = "waiting" /\ wire = "reply" => OnTime(age)
        /\ gen = "idle" => OnTime(MaxDelay + IF beat.ready THEN HeartbeatInterval
                                             ELSE HeartbeatInterval - beat.left)
WorkingNetwork ==
    ~bad => /\ link = "up" /\ pc \in {"setup", "blocked"} /\ gen # "ended"
            /\ OneAtATime /\ HeartbeatsComing

(* The inductive invariant behind the two bounds: how far the next check   *)
(* and the next heartbeat are away (device_utils.go, blockUntilStale;      *)
(* daemon.go, heartbeatGenerator).                                         *)
TimingInv == CheckIsDue /\ WorkingNetwork

-----------------------------------------------------------------------------
LEMMA PeriodsTyped ==
  /\ HeartbeatInterval \in Nat \ {0} /\ CheckInterval \in Nat \ {0}
  /\ StaleTimeout \in Nat \ {0} /\ MaxDelay \in Nat \ {0}
  BY PeriodAssumption DEF Periods

LEMMA TickerTyped ==
  ASSUME NEW period \in Nat \ {0}
  PROVE  /\ NewTicker(period) \in Ticker(period)
         /\ \A t \in Ticker(period) :
              /\ Drain(t) \in Ticker(period) /\ Drain(t).left = t.left /\ ~Drain(t).ready
              /\ Advance(t, period) \in Ticker(period)
              /\ t.left = 1 => Advance(t, period).left = period /\ Advance(t, period).ready
              /\ t.left # 1 => /\ Advance(t, period).left = t.left - 1
                               /\ Advance(t, period).ready = t.ready
<1>1. NewTicker(period) \in Ticker(period)
  BY DEF Ticker, NewTicker
<1> SUFFICES ASSUME NEW t \in Ticker(period)
             PROVE  /\ Drain(t) \in Ticker(period) /\ Drain(t).left = t.left /\ ~Drain(t).ready
                    /\ Advance(t, period) \in Ticker(period)
                    /\ t.left = 1 => Advance(t, period).left = period /\ Advance(t, period).ready
                    /\ t.left # 1 => /\ Advance(t, period).left = t.left - 1
                                     /\ Advance(t, period).ready = t.ready
  BY <1>1
<1>2. Drain(t) \in Ticker(period) /\ Drain(t).left = t.left /\ ~Drain(t).ready
  BY DEF Ticker, Drain
<1>3. CASE t.left = 1
  BY <1>2, <1>3 DEF Ticker, Advance
<1>4. CASE t.left # 1
  <2>1. Advance(t, period) = [t EXCEPT !.left = t.left - 1] /\ t.left - 1 \in 1 .. period
    BY <1>4 DEF Ticker, Advance
  <2> QED BY <1>2, <1>4, <2>1 DEF Ticker
<1> QED BY <1>3, <1>4

LEMMA InitTyped == Init => TypeOK
<1> SUFFICES ASSUME Init
             PROVE  TypeOK
  OBVIOUS
<1>1. NewTicker(CheckInterval) \in Ticker(CheckInterval)
      /\ NewTicker(HeartbeatInterval) \in Ticker(HeartbeatInterval)
  BY PeriodsTyped, TickerTyped
<1>2. queue \in 0 .. Capacity
  BY DEF Init, Capacity
<1>3. age \in 0 .. MaxDelay
  BY PeriodsTyped DEF Init
<1> QED BY <1>1, <1>2, <1>3 DEF Init, TypeOK

LEMMA NextTyped ==
  ASSUME TypeOK, [Next]_vars
  PROVE  TypeOK'
<1> USE PeriodsTyped, TickerTyped DEF TypeOK, handler, device, network
<1>1. CASE StartBlocking
  BY <1>1 DEF StartBlocking, Capacity
<1>2. CASE CheckStale
  BY <1>2 DEF CheckStale, Capacity
<1>3. CASE TakeHeartbeat
  BY <1>3 DEF TakeHeartbeat, Capacity
<1>4. CASE HandOverHeartbeat
  BY <1>4 DEF HandOverHeartbeat, Reply, Capacity
<1>5. CASE CloseWebSocket
  BY <1>5 DEF CloseWebSocket, Capacity
<1>6. CASE ReadHeartbeat
  BY <1>6 DEF ReadHeartbeat, Capacity
<1>7. CASE BufferHeartbeat
  BY <1>7 DEF BufferHeartbeat, Reply, Capacity
<1>8. CASE EndReader
  BY <1>8 DEF EndReader, Capacity
<1>9. CASE SendHeartbeat
  BY <1>9 DEF SendHeartbeat, Capacity
<1>10. CASE ReceiveReply
  BY <1>10 DEF ReceiveReply, Capacity
<1>11. CASE CallFails
  BY <1>11 DEF CallFails, Capacity
<1>12. CASE Disconnect
  BY <1>12 DEF Disconnect, Capacity
<1>13. CASE NetworkChanges
  BY <1>13 DEF NetworkChanges, Capacity
<1>14. CASE Tick
  BY <1>14 DEF Tick, Capacity
<1>15. CASE UNCHANGED vars
  BY <1>15 DEF vars, Capacity
<1> QED
  BY <1>1, <1>2, <1>3, <1>4, <1>5, <1>6, <1>7, <1>8, <1>9, <1>10, <1>11, <1>12, <1>13, <1>14, <1>15
  DEF Next, HandlerStep, ReaderStep, DeviceStep

(* Every variable keeps its type: no channel holds more than its capacity, *)
(* no ticker runs past its period.                                         *)
THEOREM TypeCorrect == Spec => []TypeOK
<1>1. TypeOK /\ [Next]_vars => TypeOK'
  BY NextTyped
<1> QED BY <1>1, InitTyped, PTL DEF Spec

-----------------------------------------------------------------------------
LEMMA CheckStep ==
  ASSUME TypeOK, CheckIsDue, [Next]_vars
  PROVE  CheckIsDue'
<1> USE PeriodsTyped, TickerTyped DEF CheckIsDue, handler, device, network
<1>1. CASE StartBlocking
  BY <1>1 DEF StartBlocking, NewTicker
<1>2. CASE CheckStale
  <2>1. check \in Ticker(CheckInterval) /\ sinceLast \in Nat
    BY DEF TypeOK
  <2>2. check.left \in 1 .. CheckInterval /\ check.ready \in BOOLEAN
    BY <2>1 DEF Ticker
  <2> QED BY <1>2, <2>1, <2>2 DEF CheckStale
<1>3. CASE TakeHeartbeat
  <2>1. check \in Ticker(CheckInterval) /\ sinceLast \in Nat
    BY DEF TypeOK
  <2>2. check.left \in 1 .. CheckInterval /\ check.ready \in BOOLEAN
    BY <2>1 DEF Ticker
  <2> QED BY <1>3, <2>1, <2>2 DEF TakeHeartbeat
<1>4. CASE HandOverHeartbeat
  <2>1. check \in Ticker(CheckInterval) /\ sinceLast \in Nat
    BY DEF TypeOK
  <2>2. check.left \in 1 .. CheckInterval /\ check.ready \in BOOLEAN
    BY <2>1 DEF Ticker
  <2> QED BY <1>4, <2>1, <2>2 DEF HandOverHeartbeat
<1>5. CASE CloseWebSocket
  BY <1>5 DEF CloseWebSocket
<1>6. CASE ReadHeartbeat
  BY <1>6 DEF ReadHeartbeat
<1>7. CASE BufferHeartbeat
  BY <1>7 DEF BufferHeartbeat
<1>8. CASE EndReader
  BY <1>8 DEF EndReader
<1>9. CASE SendHeartbeat
  BY <1>9 DEF SendHeartbeat
<1>10. CASE ReceiveReply
  BY <1>10 DEF ReceiveReply
<1>11. CASE CallFails
  BY <1>11 DEF CallFails
<1>12. CASE Disconnect
  BY <1>12 DEF Disconnect
<1>13. CASE NetworkChanges
  BY <1>13 DEF NetworkChanges
<1>14. CASE Tick
  <2>1. check \in Ticker(CheckInterval) /\ sinceLast \in Nat
    BY DEF TypeOK
  <2>2. check.left \in 1 .. CheckInterval /\ check.ready \in BOOLEAN
    BY <2>1 DEF Ticker
  <2> QED BY <1>14, <2>1, <2>2 DEF Tick, Urgent
<1>15. CASE UNCHANGED vars
  BY <1>15 DEF vars
<1> QED
  BY <1>1, <1>2, <1>3, <1>4, <1>5, <1>6, <1>7, <1>8, <1>9, <1>10, <1>11, <1>12, <1>13, <1>14, <1>15
  DEF Next, HandlerStep, ReaderStep, DeviceStep

LEMMA WorkingStep ==
  ASSUME TypeOK, WorkingNetwork, [Next]_vars
  PROVE  WorkingNetwork'
<1> USE PeriodsTyped, TickerTyped, NetworkAssumption
    DEF WorkingNetwork, OneAtATime, HeartbeatsComing, OnTime, TypeOK, handler, device, network
<1>1. CASE StartBlocking
  BY <1>1 DEF StartBlocking, Ticker
<1>2. CASE CheckStale
  BY <1>2 DEF CheckStale
<1>3. CASE TakeHeartbeat
  BY <1>3 DEF TakeHeartbeat, Ticker, Capacity
<1>4. CASE HandOverHeartbeat
  BY <1>4 DEF HandOverHeartbeat, Reply, HandlerClosed
<1>5. CASE CloseWebSocket
  BY <1>5 DEF CloseWebSocket
<1>6. CASE ReadHeartbeat
  BY <1>6 DEF ReadHeartbeat
<1>7. CASE BufferHeartbeat
  BY <1>7 DEF BufferHeartbeat, Reply, HandlerClosed, Capacity
<1>8. CASE EndReader
  BY <1>8 DEF EndReader, HandlerClosed
<1>9. CASE SendHeartbeat
  <2> SUFFICES ASSUME ~bad
               PROVE  WorkingNetwork'
    BY <1>9 DEF SendHeartbeat
  <2>1. /\ gen' = "waiting" /\ wire' = "request" /\ age' = 0
        /\ link' = "up" /\ pc' = pc /\ reader' = "reading"
        /\ queue' = queue /\ sinceLast' = sinceLast
    BY <1>9 DEF SendHeartbeat, DeviceClosed
  <2>2. pc = "blocked" => OnTime(HeartbeatInterval + MaxDelay)
    BY <1>9 DEF SendHeartbeat
  <2> QED BY <2>1, <2>2
<1>10. CASE ReceiveReply
  <2> SUFFICES ASSUME ~bad
               PROVE  WorkingNetwork'
    BY <1>10 DEF ReceiveReply
  <2>1. /\ gen' = "idle" /\ wire' = "none" /\ link' = "up" /\ pc' = pc /\ reader' = "reading"
        /\ queue' = queue /\ sinceLast' = sinceLast /\ beat' = beat
    BY <1>10 DEF ReceiveReply
  <2>2. beat.left \in 1 .. HeartbeatInterval
    BY DEF Ticker
  <2>3. pc = "blocked" => OnTime(MaxDelay)
    BY <1>10 DEF ReceiveReply
  <2> QED BY <2>1, <2>2, <2>3
<1>11. CASE CallFails
  BY <1>11 DEF CallFails, DeviceClosed
<1>12. CASE Disconnect
  BY <1>12 DEF Disconnect
<1>13. CASE NetworkChanges
  BY <1>13 DEF NetworkChanges
<1>14. CASE Tick
  <2> SUFFICES ASSUME ~bad
               PROVE  WorkingNetwork'
    BY <1>14 DEF Tick
  <2>1. /\ pc = "blocked" /\ link = "up" /\ gen \in {"idle", "waiting"} /\ OneAtATime
        /\ queue = 0 /\ (gen = "idle" => ~beat.ready)
    BY <1>14 DEF Tick, Urgent
  <2>2. reader = "reading"
    BY <1>14, <2>1 DEF Tick, Urgent, Capacity
  <2>3. /\ UNCHANGED <<pc, link, gen, wire, reader, queue, bad>>
        /\ sinceLast' = sinceLast + 1 /\ beat' = Advance(beat, HeartbeatInterval)
    BY <1>14, <2>1 DEF Tick
  <2>4. CASE gen = "idle"
    <3>1. beat.left \in 1 .. HeartbeatInterval /\ ~beat.ready
      BY <2>1, <2>4 DEF Ticker
    <3>2. sinceLast <= MaxDelay + (HeartbeatInterval - beat.left)
      BY <2>1, <2>4, <3>1
    <3>3. CASE beat.left = 1
      <4>1. beat'.ready
        BY <2>3, <3>3
      <4> QED BY <2>1, <2>2, <2>3, <2>4, <3>2, <3>3, <4>1
    <3>4. CASE beat.left # 1
      <4>1. ~beat'.ready /\ beat'.left = beat.left - 1
        BY <2>3, <3>1, <3>4
      <4> QED BY <2>1, <2>2, <2>3, <2>4, <3>1, <3>2, <4>1
    <3> QED BY <3>3, <3>4
  <2>5. CASE gen = "waiting"
    <3>1. wire \in {"request", "reply"} /\ age < MaxDelay /\ age' = age + 1
      BY <1>14, <2>1, <2>2, <2>5 DEF Tick, Urgent, Delivering
    <3> QED BY <2>1, <2>2, <2>3, <2>5, <3>1
  <2> QED BY <2>1, <2>4, <2>5
<1>15. CASE UNCHANGED vars
  BY <1>15 DEF vars
<1> QED
  BY <1>1, <1>2, <1>3, <1>4, <1>5, <1>6, <1>7, <1>8, <1>9, <1>10, <1>11, <1>12, <1>13, <1>14, <1>15
  DEF Next, HandlerStep, ReaderStep, DeviceStep

LEMMA TimingInvariant == Spec => [](TypeOK /\ TimingInv)
<1>1. Init => TypeOK /\ TimingInv
  BY InitTyped, PeriodsTyped
  DEF Init, TimingInv, CheckIsDue, WorkingNetwork, OneAtATime, HeartbeatsComing
<1>2. TypeOK /\ TimingInv /\ [Next]_vars => (TypeOK /\ TimingInv)'
  BY NextTyped, CheckStep, WorkingStep DEF TimingInv
<1> QED BY <1>1, <1>2, PTL DEF Spec

(* Whatever the network does and however heartbeats and ticks interleave,  *)
(* blockUntilStale returns before StaleTimeout and one CheckInterval have  *)
(* passed since the last heartbeat.                                        *)
THEOREM GivesUpInTimeAlways == Spec => []GivesUpInTime
<1>1. TypeOK /\ TimingInv => GivesUpInTime
  <2> SUFFICES ASSUME TypeOK, TimingInv, pc = "blocked"
               PROVE  sinceLast < StaleTimeout + CheckInterval
    BY DEF GivesUpInTime
  <2>1. check.left \in 1 .. CheckInterval /\ sinceLast \in Nat
    BY DEF TypeOK, Ticker
  <2> QED BY <2>1, PeriodsTyped DEF TimingInv, CheckIsDue
<1> QED BY <1>1, TimingInvariant, PTL

(* If the interval of the heartbeats and twice the delay of the network    *)
(* are less than StaleTimeout, a handler gives up only a device that has   *)
(* disconnected or that the network has failed.                            *)
THEOREM NoFalseAlarmAlways == Spec => []NoFalseAlarm
<1>1. TypeOK /\ TimingInv => NoFalseAlarm
  BY DEF TypeOK, TimingInv, WorkingNetwork, NoFalseAlarm
<1> QED BY <1>1, TimingInvariant, PTL
=============================================================================
