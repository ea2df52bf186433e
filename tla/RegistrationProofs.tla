------------------------- MODULE RegistrationProofs -------------------------
(***************************************************************************)
(* Theorems about Registration for any number of users, machines, targets  *)
(* and overlapping requests, with and without failing statements.          *)
(***************************************************************************)
EXTENDS Registration, TLAPS

(* What a handler has set by the time it gets to a statement. *)
LocalsSetFor(h) ==
    /\ h.pc # "new" => h.principal \in Principal
    /\ h.kind \in {"create", "register"} => h.target \in Target
    /\ h.kind = "register" => h.hardwareId \in Hardware
    /\ h.pc = "createTarget" => h.kind = "create"
    /\ h.pc \in {"acl", "owner"} => h.kind \in {"list", "register"}
    /\ h.pc \in {"createDevice", "getDeviceId"} => h.kind = "register"
    /\ h.status # Nil => h.pc = "done"
LocalsSet == \A r \in Request : LocalsSetFor(req[r])

(* A row was written by the request that its id names, and is alone with   *)
(* its key.                                                                *)
RowOf(d, h) ==
    /\ h.pc = "done" /\ d.principal = h.principal
    /\ d.hardwareId = h.hardwareId /\ d.target = h.target
RowsWritten == \A d \in devices : RowOf(d, req[d.deviceId])
KeysUnique == \A d, e \in devices : SameDevice(d, e) /\ d.target = e.target => d = e

(* A handler on its way to getDeviceId has met a row. *)
RowMet == \A r \in Request : req[r].pc = "getDeviceId" => RowsOf(req[r]) # {}

(* What a user was told they own, they own. *)
ToldIsOwned ==
    \A r \in Request : \A t \in req[r].told :
        targets[t] = req[r].principal /\ req[r].principal \in Principal

Typed == TypeOK /\ LocalsSet
DeviceInv == RowsWritten /\ KeysUnique /\ RowMet /\ AnswerIsRegistered
OwnerInv == OneCreator /\ ToldIsOwned /\ OwnerAllowed

-----------------------------------------------------------------------------
(* Types.                                                                  *)

LEMMA InitTyped == Init => Typed
<1> SUFFICES ASSUME Init
             PROVE  Typed
  OBVIOUS
<1> DEFINE h == [pc |-> "new", kind |-> Nil, principal |-> Nil, target |-> Nil,
                 hardwareId |-> Nil, told |-> {}, allowed |-> {}, missed |-> {},
                 status |-> Nil, deviceId |-> Nil]
<1>1. h \in Handler
  BY DEF Handler
<1>2. LocalsSetFor(h)
  BY NilAssumption DEF LocalsSetFor, Kind
<1> HIDE DEF h
<1>3. req = [r \in Request |-> h]
  BY DEF Init, h
<1> QED BY <1>1, <1>2, <1>3 DEF Init, Typed, TypeOK, LocalsSet

(* One handler goes on. *)
LEMMA OneHandlerTyped ==
  ASSUME Typed, NEW r \in Request, NEW h \in Handler, req' = [req EXCEPT ![r] = h],
         LocalsSetFor(h), targets' \in [Target -> Principal \cup {Nil}],
         UNCHANGED targetAcl, devices' \subseteq Row
  PROVE  Typed'
<1>1. TypeOK'
  BY DEF Typed, TypeOK
<1>2. \A q \in Request : req'[q] = IF q = r THEN h ELSE req[q]
  BY DEF Typed, TypeOK
<1>3. LocalsSet'
  BY <1>2 DEF Typed, LocalsSet, LocalsSetFor
<1> QED BY <1>1, <1>3 DEF Typed

(* The handler after its answer, ... *)
Answered(r, status, id) ==
    [req[r] EXCEPT !.pc = "done", !.status = status, !.deviceId = id]

LEMMA AnswerStep ==
  ASSUME Typed, NEW r \in Request, req[r].pc # "new",
         NEW status \in Result \cup {Nil}, NEW id \in Request \cup {Nil}, Answer(r, status, id)
  PROVE  LET h == Answered(r, status, id)
         IN  /\ h \in Handler /\ LocalsSetFor(h) /\ req' = [req EXCEPT ![r] = h]
             /\ h.pc = "done" /\ h.status = status /\ h.deviceId = id
             /\ h.kind = req[r].kind /\ h.principal = req[r].principal
             /\ h.target = req[r].target /\ h.hardwareId = req[r].hardwareId
             /\ h.told = req[r].told /\ h.allowed = req[r].allowed
<1> DEFINE h == Answered(r, status, id)
<1>1. req[r] \in Handler /\ LocalsSetFor(req[r])
  BY DEF Typed, TypeOK, LocalsSet
<1>2. h \in Handler /\ h.pc = "done" /\ h.status = status /\ h.deviceId = id
      /\ h.kind = req[r].kind /\ h.principal = req[r].principal
      /\ h.target = req[r].target /\ h.hardwareId = req[r].hardwareId
      /\ h.told = req[r].told /\ h.allowed = req[r].allowed
  BY <1>1 DEF Answered, Handler
<1>3. req' = [req EXCEPT ![r] = h]
  BY DEF Answer, Answered, Typed, TypeOK
<1> HIDE DEF h
<1>4. LocalsSetFor(h)
  BY <1>1, <1>2 DEF LocalsSetFor
<1> QED BY <1>2, <1>3, <1>4 DEF h

(* ... after a query, ... *)
Queried(h, r) ==
    /\ h \in Handler /\ req' = [req EXCEPT ![r] = h]
    /\ h.kind = req[r].kind /\ h.principal = req[r].principal
    /\ h.target = req[r].target /\ h.hardwareId = req[r].hardwareId
    /\ h.told = req[r].told /\ h.deviceId = req[r].deviceId

LEMMA QueryStep ==
  ASSUME Typed, NEW r \in Request, req[r].pc \in {"acl", "owner", "createDevice"},
         NEW h, Queried(h, r), h.pc \in {"owner", "createDevice", "getDeviceId", "done"},
         h.status # Nil => h.pc = "done", h.pc = "owner" => req[r].pc = "acl",
         h.pc \in {"createDevice", "getDeviceId"} => req[r].kind = "register",
         UNCHANGED <<targets, targetAcl, devices>>
  PROVE  Typed'
<1>1. LocalsSetFor(req[r])
  BY DEF Typed, LocalsSet
<1>2. LocalsSetFor(h)
  BY <1>1 DEF LocalsSetFor, Queried
<1> QED BY <1>2, OneHandlerTyped DEF Typed, TypeOK, Queried

(* ... and when the request has come in. *)
LEMMA SubmitStep ==
  ASSUME Typed, NEW kind \in Kind, NEW p \in Principal, NEW t \in Target, NEW hw \in Hardware
  PROVE  LET h == Received(kind, p, t, hw)
         IN  /\ h \in Handler /\ LocalsSetFor(h)
             /\ h.pc \in {"createTarget", "acl"} /\ h.status = Nil
             /\ h.principal = p /\ h.told = ToldCreated(p)
<1>1. ToldCreated(p) \subseteq Target
  BY DEF ToldCreated, Typed, LocalsSet, LocalsSetFor
<1>2. Received(kind, p, t, hw) \in Handler
  BY <1>1 DEF Received, Handler, Kind
<1>3. LocalsSetFor(Received(kind, p, t, hw))
  BY NilAssumption DEF Received, LocalsSetFor, Kind
<1> QED BY <1>2, <1>3 DEF Received

-----------------------------------------------------------------------------
(* Every step but the operator's changes one handler.                      *)

LEMMA CreateTargetTyped ==
  ASSUME Typed, NEW r \in Request, CreateTarget(r)
  PROVE  /\ Typed'
         /\ \E status \in Result : Answer(r, status, Nil)
                /\ (status = "ok" => targets[req[r].target] = Nil)
                /\ status # "unauthorized"
         /\ UNCHANGED devices
         /\ req[r].pc # "new" /\ req[r].kind = "create" /\ req[r].target \in Target
         /\ targets' = [targets EXCEPT ![req[r].target] =
                            IF targets[req[r].target] = Nil THEN req[r].principal ELSE @]
<1>1. req[r].pc = "createTarget" /\ req[r].kind = "create" /\ req[r].target \in Target
      /\ req[r].principal \in Principal
  BY DEF CreateTarget, Typed, LocalsSet, LocalsSetFor
<1>2. targets' = [targets EXCEPT ![req[r].target] =
                    IF targets[req[r].target] = Nil THEN req[r].principal ELSE @]
      /\ UNCHANGED <<targetAcl, devices>>
  BY DEF CreateTarget
<1>3. targets' \in [Target -> Principal \cup {Nil}]
  BY <1>1, <1>2 DEF Typed, TypeOK
<1>4. PICK status \in Result : Answer(r, status, Nil)
            /\ (status = "ok" => targets[req[r].target] = Nil)
            /\ status # "unauthorized"
  BY DEF CreateTarget, Result
<1>5. Typed'
  BY <1>1, <1>2, <1>3, <1>4, AnswerStep, OneHandlerTyped DEF Typed, TypeOK
<1> QED BY <1>1, <1>2, <1>4, <1>5

LEMMA GetTargetsByPrincipalTyped ==
  ASSUME Typed, NEW r \in Request, GetTargetsByPrincipal(r)
  PROVE  /\ Typed' /\ UNCHANGED <<targets, devices>> /\ req[r].pc = "acl"
         /\ \E h : Queried(h, r) /\ h.pc = "owner" /\ h.status = Nil
<1>0. PICK allowed \in ReadRows({t \in Target : <<req[r].principal, t>> \in targetAcl}) :
            req' = [req EXCEPT ![r].pc = "owner", ![r].allowed = allowed]
  BY DEF GetTargetsByPrincipal
<1> DEFINE h == [req[r] EXCEPT !.pc = "owner", !.allowed = allowed]
<1>1. req[r].pc = "acl" /\ req[r] \in Handler /\ req[r].status = Nil
      /\ UNCHANGED <<targets, targetAcl, devices>>
  BY DEF GetTargetsByPrincipal, Typed, TypeOK, LocalsSet, LocalsSetFor
<1>2. req' = [req EXCEPT ![r] = h]
  BY <1>0 DEF Typed, TypeOK
<1>3. allowed \in SUBSET Target
  BY DEF ReadRows
<1>4. Queried(h, r) /\ h.pc = "owner" /\ h.status = Nil
  BY <1>1, <1>2, <1>3 DEF Queried, Handler
<1> HIDE DEF h
<1>5. Typed'
  BY <1>1, <1>4, QueryStep
<1> QED BY <1>1, <1>4, <1>5

(* What getTargetsByOwner finds when reading does not fail. *)
Owned(r) == {t \in Target : targets[t] = req[r].principal}

LEMMA GetTargetsByOwnerTyped ==
  ASSUME Typed, NEW r \in Request, GetTargetsByOwner(r)
  PROVE  /\ Typed' /\ UNCHANGED <<targets, devices>>
         /\ req[r].pc = "owner" /\ req[r].kind # "create"
         /\ \E h : /\ Queried(h, r) /\ h.pc \in {"createDevice", "done"}
                   /\ Owned(r) \ h.missed \subseteq h.allowed
                   /\ req[r].kind = "register" => h.status # "ok"
                   /\ h.status = "unauthorized" => req[r].target \notin h.allowed
<1>0. PICK found \in ReadRows(Owned(r)) :
        req' = [req EXCEPT
            ![r].allowed = Allowed(r, found),
            ![r].missed = Owned(r) \ found,
            ![r].pc = IF req[r].kind = "register" /\ req[r].target \in Allowed(r, found)
                      THEN "createDevice" ELSE "done",
            ![r].status = IF req[r].kind = "register"
                          THEN IF req[r].target \in Allowed(r, found) THEN Nil ELSE "unauthorized"
                          ELSE "ok"]
  BY DEF GetTargetsByOwner, Owned
<1> DEFINE register == req[r].kind = "register"
           allowed == Allowed(r, found)
           may == req[r].target \in allowed
           missed == Owned(r) \ found
           pc == IF register /\ may THEN "createDevice" ELSE "done"
           status == IF register THEN IF may THEN Nil ELSE "unauthorized" ELSE "ok"
           h == [req[r] EXCEPT !.allowed = allowed, !.missed = missed, !.pc = pc,
                               !.status = status]
<1>1. req[r].pc = "owner" /\ req[r] \in Handler /\ req[r].kind # "create"
      /\ UNCHANGED <<targets, targetAcl, devices>>
  BY DEF GetTargetsByOwner, Typed, TypeOK, LocalsSet, LocalsSetFor
<1>2. allowed \in SUBSET Target /\ missed \in SUBSET Target
      /\ Owned(r) \ missed \subseteq allowed
  BY <1>1 DEF Allowed, Handler, ReadRows, Owned
<1>3. req' = [req EXCEPT ![r] = h]
  BY <1>0 DEF Typed, TypeOK
<1>4. /\ pc \in {"createDevice", "done"} /\ status \in Result \cup {Nil}
      /\ status # Nil => pc = "done"
      /\ pc = "createDevice" => register
      /\ register => status # "ok"
      /\ status = "unauthorized" => ~may
  BY NilAssumption DEF Result
<1> HIDE DEF pc, status, allowed, missed
<1>5. /\ Queried(h, r) /\ h.allowed = allowed /\ h.missed = missed /\ h.pc = pc
      /\ h.status = status
  <2>1. /\ h \in Handler /\ h.allowed = allowed /\ h.missed = missed /\ h.pc = pc
        /\ h.status = status /\ h.kind = req[r].kind /\ h.principal = req[r].principal
        /\ h.target = req[r].target /\ h.hardwareId = req[r].hardwareId
        /\ h.told = req[r].told /\ h.deviceId = req[r].deviceId
    BY <1>1, <1>2, <1>4 DEF Handler
  <2> HIDE DEF h
  <2> QED BY <1>3, <2>1 DEF Queried
<1> HIDE DEF h
<1>6. Typed'
  BY <1>1, <1>4, <1>5, QueryStep
<1>7. h.status = "unauthorized" => req[r].target \notin h.allowed
  BY <1>4, <1>5
<1>8. Owned(r) \ h.missed \subseteq h.allowed
  BY <1>2, <1>5
<1> QED BY <1>1, <1>4, <1>5, <1>6, <1>7, <1>8

LEMMA CreateDeviceTyped ==
  ASSUME Typed, NEW r \in Request, CreateDevice(r)
  PROVE  /\ Typed' /\ UNCHANGED targets
         /\ req[r].pc = "createDevice" /\ req[r].kind = "register" /\ NewRow(r) \in Row
         /\ \/ /\ Registered(req[r]) = {} /\ devices' = devices \cup {NewRow(r)}
               /\ Answer(r, "ok", r) \/ Answer(r, "error", Nil)
            \/ /\ Registered(req[r]) # {} /\ UNCHANGED devices
               /\ \E h : Queried(h, r) /\ h.pc = "getDeviceId" /\ h.status = Nil
<1>1. /\ req[r].pc = "createDevice" /\ req[r].kind = "register" /\ req[r].status = Nil
      /\ req[r] \in Handler /\ req[r].principal \in Principal
      /\ req[r].target \in Target /\ req[r].hardwareId \in Hardware
  BY DEF CreateDevice, Typed, TypeOK, LocalsSet, LocalsSetFor
<1>2. NewRow(r) \in Row
  BY <1>1 DEF NewRow, Row
<1>3. UNCHANGED <<targets, targetAcl>>
  BY DEF CreateDevice
<1>4. CASE Registered(req[r]) = {}
  <2>1. devices' = devices \cup {NewRow(r)}
    BY <1>4 DEF CreateDevice
  <2>2. PICK status \in {"ok", "error"}, id \in {r, Nil} :
            Answer(r, status, id) /\ (Answer(r, "ok", r) \/ Answer(r, "error", Nil))
    BY <1>4 DEF CreateDevice
  <2>3. status \in Result \cup {Nil} /\ id \in Request \cup {Nil} /\ req[r].pc # "new"
    BY <1>1 DEF Result
  <2>4. devices' \subseteq Row /\ targets' \in [Target -> Principal \cup {Nil}]
    BY <1>2, <1>3, <2>1 DEF Typed, TypeOK
  <2>5. Typed'
    BY <1>3, <2>2, <2>3, <2>4, AnswerStep, OneHandlerTyped
  <2> QED BY <1>1, <1>2, <1>3, <1>4, <2>1, <2>2, <2>5
<1>5. CASE Registered(req[r]) # {}
  <2> DEFINE h == [req[r] EXCEPT !.pc = "getDeviceId"]
  <2>1. UNCHANGED devices /\ req' = [req EXCEPT ![r] = h]
    BY <1>5 DEF CreateDevice, Goto, Typed, TypeOK
  <2>2. Queried(h, r) /\ h.pc = "getDeviceId" /\ h.status = Nil
    BY <1>1, <2>1 DEF Queried, Handler
  <2> HIDE DEF h
  <2>3. Typed'
    BY <1>1, <1>3, <2>1, <2>2, QueryStep
  <2> QED BY <1>1, <1>2, <1>3, <1>5, <2>1, <2>2, <2>3
<1> QED BY <1>4, <1>5

LEMMA GetDeviceIdTyped ==
  ASSUME Typed, NEW r \in Request, GetDeviceId(r)
  PROVE  /\ Typed' /\ UNCHANGED <<targets, devices>>
         /\ req[r].pc = "getDeviceId" /\ req[r].kind = "register"
         /\ \E id \in Request \cup {Nil} :
                /\ Answer(r, "ok", id)
                /\ RowsOf(req[r]) # {} => \E d \in RowsOf(req[r]) : d.deviceId = id
<1>1. req[r].pc = "getDeviceId" /\ req[r].kind = "register"
      /\ UNCHANGED <<targets, targetAcl, devices>>
  BY DEF GetDeviceId, Typed, LocalsSet, LocalsSetFor
<1>2. PICK id \in IF RowsOf(req[r]) = {} THEN {Nil}
                  ELSE {d.deviceId : d \in RowsOf(req[r])} : Answer(r, "ok", id)
  BY DEF GetDeviceId
<1>3. id \in Request \cup {Nil}
  BY <1>2 DEF RowsOf, Typed, TypeOK, Row
<1>4. RowsOf(req[r]) # {} => \E d \in RowsOf(req[r]) : d.deviceId = id
  BY <1>2
<1>5. "ok" \in Result \cup {Nil}
  BY DEF Result
<1>6. Typed'
  BY <1>1, <1>2, <1>3, <1>5, AnswerStep, OneHandlerTyped DEF Typed, TypeOK
<1> QED BY <1>1, <1>2, <1>3, <1>4, <1>6

LEMMA DbFailsTyped ==
  ASSUME Typed, NEW r \in Request, DbFails(r)
  PROVE  /\ Typed' /\ UNCHANGED <<targets, devices>> /\ req[r].pc # "new"
         /\ Answer(r, "error", Nil)
<1>1. /\ req[r].pc # "new" /\ Answer(r, "error", Nil)
      /\ UNCHANGED <<targets, targetAcl, devices>>
  BY DEF DbFails
<1>2. "error" \in Result \cup {Nil}
  BY DEF Result
<1>3. Typed'
  BY <1>1, <1>2, AnswerStep, OneHandlerTyped DEF Typed, TypeOK
<1> QED BY <1>1, <1>3

LEMMA SubmitTyped ==
  ASSUME Typed, NEW r \in Request, NEW kind \in Kind, NEW p \in Principal, NEW t \in Target,
         NEW hw \in Hardware, Submit(r, kind, p, t, hw)
  PROVE  Typed'
<1> QED BY SubmitStep, OneHandlerTyped DEF Submit, Typed, TypeOK

LEMMA NextTyped ==
  ASSUME Typed, [Next]_vars
  PROVE  Typed'
<1>1. ASSUME NEW r \in Request, RequestStep(r)
      PROVE  Typed'
  BY <1>1, CreateTargetTyped, GetTargetsByPrincipalTyped, GetTargetsByOwnerTyped,
     CreateDeviceTyped, GetDeviceIdTyped, DbFailsTyped DEF RequestStep
<1>2. ASSUME NEW e \in AclEntry, ChangeAcl(e)
      PROVE  Typed'
  BY <1>2 DEF ChangeAcl, Typed, TypeOK, LocalsSet
<1>3. CASE UNCHANGED vars
  BY <1>3 DEF vars, Typed, TypeOK, LocalsSet
<1> QED BY <1>1, <1>2, <1>3, SubmitTyped DEF Next

(* Handlers, tables and answers have their types (main.go, db.go).         *)
THEOREM TypeCorrect == Spec => []TypeOK
<1>1. Init => Typed
  BY InitTyped
<1>2. Typed /\ [Next]_vars => Typed'
  BY NextTyped
<1>3. Typed => TypeOK
  BY DEF Typed
<1> QED BY <1>1, <1>2, <1>3, PTL DEF Spec

-----------------------------------------------------------------------------
(* The table devices.                                                      *)

(* A handler goes on and writes no row. *)
LEMMA NoRowDevice ==
  ASSUME Typed, DeviceInv, NEW r \in Request, req[r].pc # "done", NEW h,
         req' = [req EXCEPT ![r] = h], UNCHANGED devices,
         h.pc = "getDeviceId" => RowsOf(h) # {},
         h.kind = "register" /\ h.status = "ok" =>
            \E d \in devices : d.deviceId = h.deviceId /\ SameDevice(d, h)
  PROVE  DeviceInv'
<1>1. \A q \in Request : req'[q] = IF q = r THEN h ELSE req[q]
  BY DEF Typed, TypeOK
<1>2. RowsWritten'
  <2> SUFFICES ASSUME NEW d \in devices
               PROVE  RowOf(d, req'[d.deviceId])
    BY DEF RowsWritten, RowOf
  <2>1. d.deviceId \in Request /\ RowOf(d, req[d.deviceId])
    BY DEF Typed, TypeOK, Row, DeviceInv, RowsWritten
  <2>2. d.deviceId # r
    BY <2>1 DEF RowOf
  <2> QED BY <1>1, <2>1, <2>2
<1>3. KeysUnique'
  BY DEF DeviceInv, KeysUnique, SameDevice
<1>4. RowMet'
  BY <1>1 DEF DeviceInv, RowMet, RowsOf
<1>5. AnswerIsRegistered'
  BY <1>1 DEF DeviceInv, AnswerIsRegistered, GivenId, SameDevice
<1> QED BY <1>2, <1>3, <1>4, <1>5 DEF DeviceInv

(* A handler writes its row, and answers with its id or with an error. *)
LEMMA NewRowDevice ==
  ASSUME Typed, DeviceInv, NEW r \in Request, req[r].pc # "done", NEW h,
         req' = [req EXCEPT ![r] = h], devices' = devices \cup {NewRow(r)},
         Registered(req[r]) = {}, h.pc = "done", h.principal = req[r].principal,
         h.target = req[r].target, h.hardwareId = req[r].hardwareId,
         h.status = "ok" => h.deviceId = r
  PROVE  DeviceInv'
<1>1. \A q \in Request : req'[q] = IF q = r THEN h ELSE req[q]
  BY DEF Typed, TypeOK
<1> DEFINE n == NewRow(r)
<1>2. n.principal = h.principal /\ n.target = h.target /\ n.hardwareId = h.hardwareId
      /\ n.deviceId = r
  BY DEF NewRow
<1>3. \A d \in devices : ~(SameDevice(d, n) /\ d.target = n.target)
  BY <1>2 DEF Registered, SameDevice
<1> HIDE DEF n
<1>4. \A d \in devices' : d \in devices \/ d = n
  BY DEF n
<1>5. RowsWritten'
  <2> SUFFICES ASSUME NEW d \in devices'
               PROVE  RowOf(d, req'[d.deviceId])
    BY DEF RowsWritten, RowOf
  <2>1. CASE d = n
    BY <1>1, <1>2, <2>1 DEF RowOf
  <2>2. CASE d \in devices
    <3>1. d.deviceId \in Request /\ RowOf(d, req[d.deviceId])
      BY <2>2 DEF Typed, TypeOK, Row, DeviceInv, RowsWritten
    <3>2. d.deviceId # r
      BY <3>1 DEF RowOf
    <3> QED BY <1>1, <3>1, <3>2
  <2> QED BY <1>4, <2>1, <2>2
<1>6. KeysUnique'
  <2> SUFFICES ASSUME NEW d \in devices', NEW e \in devices', SameDevice(d, e),
                      d.target = e.target
               PROVE  d = e
    BY DEF KeysUnique, SameDevice
  <2>1. SameDevice(e, d)
    BY DEF SameDevice
  <2> QED BY <1>3, <1>4, <2>1 DEF DeviceInv, KeysUnique
<1>7. RowMet'
  <2> SUFFICES ASSUME NEW q \in Request, req'[q].pc = "getDeviceId"
               PROVE  RowsOf(req[q])' # {}
    BY DEF RowMet
  <2>1. q # r /\ req'[q] = req[q] /\ RowsOf(req[q]) # {}
    BY <1>1 DEF DeviceInv, RowMet
  <2> QED BY <2>1 DEF RowsOf
<1>8. AnswerIsRegistered'
  <2> SUFFICES ASSUME NEW q \in Request, GivenId(q)'
               PROVE  \E d \in devices' : d.deviceId = req'[q].deviceId /\ SameDevice(d, req'[q])
    BY DEF AnswerIsRegistered, SameDevice
  <2>1. CASE q = r
    <3>1. req'[q] = h /\ h.status = "ok" /\ n \in devices'
      BY <1>1, <2>1 DEF GivenId, n
    <3> QED BY <1>2, <3>1 DEF SameDevice
  <2>2. CASE q # r
    <3>1. req'[q] = req[q] /\ GivenId(q)
      BY <1>1, <2>2 DEF GivenId
    <3> QED BY <3>1 DEF DeviceInv, AnswerIsRegistered
  <2> QED BY <2>1, <2>2
<1> QED BY <1>5, <1>6, <1>7, <1>8 DEF DeviceInv

LEMMA AnswerDevice ==
  ASSUME Typed, DeviceInv, NEW r \in Request, req[r].pc \notin {"new", "done"},
         NEW status \in Result, NEW id \in Request \cup {Nil}, Answer(r, status, id),
         UNCHANGED devices,
         req[r].kind = "register" /\ status = "ok" =>
            \E d \in devices : d.deviceId = id /\ SameDevice(d, req[r])
  PROVE  DeviceInv'
<1> DEFINE h == Answered(r, status, id)
<1>1. /\ req' = [req EXCEPT ![r] = h] /\ h.pc = "done" /\ h.status = status
      /\ h.deviceId = id /\ h.kind = req[r].kind /\ h.principal = req[r].principal
      /\ h.hardwareId = req[r].hardwareId
  BY AnswerStep
<1> HIDE DEF h
<1>2. h.kind = "register" /\ h.status = "ok" =>
        \E d \in devices : d.deviceId = h.deviceId /\ SameDevice(d, h)
  BY <1>1 DEF SameDevice
<1> QED BY <1>1, <1>2, NoRowDevice

LEMMA CreateDeviceDevice ==
  ASSUME Typed, DeviceInv, NEW r \in Request, CreateDevice(r)
  PROVE  DeviceInv'
<1>1. CASE /\ Registered(req[r]) = {} /\ devices' = devices \cup {NewRow(r)}
           /\ Answer(r, "ok", r) \/ Answer(r, "error", Nil)
  <2>1. req[r].pc = "createDevice"
    BY CreateDeviceTyped
  <2>2. PICK status \in Result, id \in Request \cup {Nil} :
            Answer(r, status, id) /\ (status = "ok" => id = r)
    BY <1>1 DEF Result
  <2> DEFINE h == Answered(r, status, id)
  <2>3. /\ req' = [req EXCEPT ![r] = h] /\ h.pc = "done" /\ h.status = status
        /\ h.deviceId = id /\ h.principal = req[r].principal
        /\ h.target = req[r].target /\ h.hardwareId = req[r].hardwareId
    BY <2>1, <2>2, AnswerStep
  <2> HIDE DEF h
  <2> QED BY <1>1, <2>1, <2>2, <2>3, NewRowDevice
<1>2. CASE /\ Registered(req[r]) # {} /\ UNCHANGED devices
           /\ \E h : Queried(h, r) /\ h.pc = "getDeviceId" /\ h.status = Nil
  <2>1. PICK h : Queried(h, r) /\ h.pc = "getDeviceId" /\ h.status = Nil
    BY <1>2
  <2>2. Registered(req[r]) \subseteq RowsOf(h)
    BY <2>1 DEF Registered, RowsOf, Queried
  <2>3. req[r].pc = "createDevice" /\ h.status # "ok"
    BY <2>1, CreateDeviceTyped, NilAssumption DEF Result
  <2> QED BY <1>2, <2>1, <2>2, <2>3, NoRowDevice DEF Queried
<1> QED BY <1>1, <1>2, CreateDeviceTyped

LEMMA QueryDevice ==
  ASSUME Typed, DeviceInv, NEW r \in Request, req[r].pc # "done", NEW h, Queried(h, r),
         h.pc # "getDeviceId", h.kind = "register" => h.status # "ok", UNCHANGED devices
  PROVE  DeviceInv'
<1> QED BY NoRowDevice DEF Queried

LEMMA StepDevice ==
  ASSUME Typed, DeviceInv, NEW r \in Request, RequestStep(r)
  PROVE  DeviceInv'
<1>1. CASE CreateTarget(r)
  <2>1. PICK status \in Result : Answer(r, status, Nil)
    BY <1>1, CreateTargetTyped
  <2>2. req[r].pc \notin {"new", "done"}
    BY <1>1 DEF CreateTarget
  <2> QED BY <1>1, <2>1, <2>2, CreateTargetTyped, AnswerDevice
<1>2. CASE GetTargetsByPrincipal(r)
  <2>1. "ok" # Nil
    BY NilAssumption DEF Result
  <2> QED BY <1>2, <2>1, GetTargetsByPrincipalTyped, QueryDevice
<1>3. CASE GetTargetsByOwner(r)
  BY <1>3, GetTargetsByOwnerTyped, QueryDevice DEF Queried
<1>4. CASE CreateDevice(r)
  BY <1>4, CreateDeviceDevice
<1>5. CASE GetDeviceId(r)
  <2>1. req[r].pc = "getDeviceId" /\ UNCHANGED devices
    BY <1>5, GetDeviceIdTyped
  <2>2. PICK id \in Request \cup {Nil} :
            /\ Answer(r, "ok", id)
            /\ RowsOf(req[r]) # {} => \E d \in RowsOf(req[r]) : d.deviceId = id
    BY <1>5, GetDeviceIdTyped
  <2>3. \E d \in devices : d.deviceId = id /\ SameDevice(d, req[r])
    BY <2>1, <2>2 DEF DeviceInv, RowMet, RowsOf, SameDevice
  <2>4. "ok" \in Result
    BY DEF Result
  <2> QED BY <2>1, <2>2, <2>3, <2>4, AnswerDevice
<1>6. CASE DbFails(r)
  <2>1. req[r].pc \notin {"new", "done"} /\ "error" \in Result
    BY <1>6 DEF DbFails, Result
  <2> QED BY <1>6, <2>1, DbFailsTyped, AnswerDevice
<1> QED BY <1>1, <1>2, <1>3, <1>4, <1>5, <1>6 DEF RequestStep

LEMMA NextDevice ==
  ASSUME Typed, DeviceInv, [Next]_vars
  PROVE  DeviceInv'
<1>1. ASSUME NEW r \in Request, NEW kind \in Kind, NEW p \in Principal, NEW t \in Target,
             NEW hw \in Hardware, Submit(r, kind, p, t, hw)
      PROVE  DeviceInv'
  <2> DEFINE h == Received(kind, p, t, hw)
  <2>1. h.pc \in {"createTarget", "acl"} /\ h.status = Nil
    BY SubmitStep
  <2>2. req[r].pc = "new" /\ req' = [req EXCEPT ![r] = h] /\ UNCHANGED devices
    BY <1>1 DEF Submit
  <2>3. h.status # "ok"
    BY <2>1, NilAssumption DEF Result
  <2> HIDE DEF h
  <2> QED BY <2>1, <2>2, <2>3, NoRowDevice
<1>2. CASE UNCHANGED <<devices, req>>
  BY <1>2 DEF DeviceInv, RowsWritten, RowOf, KeysUnique, SameDevice, RowMet, RowsOf,
              AnswerIsRegistered, GivenId
<1> QED BY <1>1, <1>2, StepDevice DEF Next, ChangeAcl, vars

LEMMA InitDevice == Init => DeviceInv
<1> SUFFICES ASSUME Init
             PROVE  DeviceInv
  OBVIOUS
<1>1. \A r \in Request : req[r].pc = "new" /\ req[r].status = Nil
  BY DEF Init
<1>2. "ok" # Nil
  BY NilAssumption DEF Result
<1> QED BY <1>1, <1>2 DEF Init, DeviceInv, RowsWritten, KeysUnique, RowMet,
                          AnswerIsRegistered, GivenId

LEMMA DeviceAlways == Spec => [](Typed /\ DeviceInv)
<1>1. Init => Typed /\ DeviceInv
  BY InitTyped, InitDevice
<1>2. Typed /\ DeviceInv /\ [Next]_vars => (Typed /\ DeviceInv)'
  BY NextTyped, NextDevice
<1> QED BY <1>1, <1>2, PTL DEF Spec

(* No interleaving of requests, and no failing statement, comes between    *)
(* createDevice and getDeviceId: every id a registration is answered with  *)
(* is in the table, for that user and machine (device.go, registerDevice). *)
THEOREM AnswerIsRegisteredAlways == Spec => []AnswerIsRegistered
<1>1. Typed /\ DeviceInv => AnswerIsRegistered
  BY DEF DeviceInv
<1> QED BY <1>1, DeviceAlways, PTL

(* Two users, or two machines, are never given the same id: the row that   *)
(* an id names was written by one request (device.go, registerDevice).     *)
THEOREM IdsApartAlways == Spec => []IdsApart
<1>1. Typed /\ DeviceInv => IdsApart
  <2> SUFFICES ASSUME Typed, DeviceInv, NEW q \in Request, NEW r \in Request,
                      GivenId(q), GivenId(r), req[q].deviceId = req[r].deviceId
               PROVE  SameDevice(req[q], req[r])
    BY DEF IdsApart
  <2>1. PICK d \in devices : d.deviceId = req[q].deviceId /\ SameDevice(d, req[q])
    BY DEF DeviceInv, AnswerIsRegistered
  <2>2. PICK e \in devices : e.deviceId = req[r].deviceId /\ SameDevice(e, req[r])
    BY DEF DeviceInv, AnswerIsRegistered
  <2>3. RowOf(d, req[d.deviceId]) /\ RowOf(e, req[d.deviceId])
    BY <2>1, <2>2 DEF DeviceInv, RowsWritten
  <2> QED BY <2>1, <2>2, <2>3 DEF RowOf, SameDevice
<1> QED BY <1>1, DeviceAlways, PTL

(* While a user has registered a machine for one target only, all its      *)
(* registrations are given one id (device.go, registerDevice).             *)
THEOREM OneTargetOneIdAlways == Spec => []OneTargetOneId
<1>1. Typed /\ DeviceInv => OneTargetOneId
  <2> SUFFICES ASSUME Typed, DeviceInv, NEW q \in Request, NEW r \in Request,
                      GivenId(q), GivenId(r), SameDevice(req[q], req[r]),
                      \A d, e \in RowsOf(req[q]) : d.target = e.target
               PROVE  req[q].deviceId = req[r].deviceId
    BY DEF OneTargetOneId
  <2>1. PICK d \in devices : d.deviceId = req[q].deviceId /\ SameDevice(d, req[q])
    BY DEF DeviceInv, AnswerIsRegistered
  <2>2. PICK e \in devices : e.deviceId = req[r].deviceId /\ SameDevice(e, req[r])
    BY DEF DeviceInv, AnswerIsRegistered
  <2>3. d \in RowsOf(req[q]) /\ e \in RowsOf(req[q]) /\ SameDevice(d, e)
    BY <2>1, <2>2 DEF RowsOf, SameDevice
  <2>4. d = e
    BY <2>3 DEF DeviceInv, KeysUnique
  <2> QED BY <2>1, <2>2, <2>4
<1> QED BY <1>1, DeviceAlways, PTL

-----------------------------------------------------------------------------
(* The owners of targets.                                                  *)

(* Owners only come to targets that have none. *)
LEMMA OneHandlerOwner ==
  ASSUME Typed, OwnerInv, NEW r \in Request, NEW h \in Handler, req' = [req EXCEPT ![r] = h],
         \A t \in Target : targets[t] \in Principal => targets'[t] = targets[t],
         h.kind = "create" /\ h.status = "ok" => targets'[h.target] = h.principal,
         \A t \in h.told : targets'[t] = h.principal /\ h.principal \in Principal,
         h.kind = "list" /\ h.status = "ok" => h.told \ h.missed \subseteq h.allowed,
         h.status = "unauthorized" => h.target \notin h.told \ h.missed
  PROVE  OwnerInv'
<1>1. \A q \in Request : req'[q] = IF q = r THEN h ELSE req[q]
  BY DEF Typed, TypeOK
<1>2. OneCreator'
  <2> SUFFICES ASSUME NEW q \in Request, q # r, req[q].kind = "create", req[q].status = "ok"
               PROVE  targets'[req[q].target] = req[q].principal
    BY <1>1 DEF OneCreator
  <2>1. "ok" # Nil
    BY NilAssumption DEF Result
  <2>2. req[q].target \in Target /\ req[q].principal \in Principal
    BY <2>1 DEF Typed, LocalsSet, LocalsSetFor
  <2> QED BY <2>2 DEF OwnerInv, OneCreator
<1>3. ToldIsOwned'
  <2> SUFFICES ASSUME NEW q \in Request, q # r, NEW t \in req[q].told
               PROVE  targets'[t] = req[q].principal /\ req[q].principal \in Principal
    BY <1>1 DEF ToldIsOwned
  <2>1. t \in Target
    BY DEF Typed, TypeOK, Handler
  <2> QED BY <2>1 DEF OwnerInv, ToldIsOwned
<1>4. OwnerAllowed'
  BY <1>1 DEF OwnerInv, OwnerAllowed
<1> QED BY <1>2, <1>3, <1>4 DEF OwnerInv

(* Without a new owner, a handler is answered or goes on. *)
LEMMA AnswerOwner ==
  ASSUME Typed, OwnerInv, NEW r \in Request, req[r].pc \notin {"new", "done"},
         NEW status \in Result, NEW id \in Request \cup {Nil}, Answer(r, status, id),
         req[r].kind # "list" \/ status # "ok", status # "unauthorized",
         \A t \in Target : targets[t] \in Principal => targets'[t] = targets[t],
         req[r].kind = "create" /\ status = "ok" =>
            targets'[req[r].target] = req[r].principal
  PROVE  OwnerInv'
<1> DEFINE h == Answered(r, status, id)
<1>1. /\ h \in Handler /\ req' = [req EXCEPT ![r] = h] /\ h.status = status
      /\ h.kind = req[r].kind /\ h.principal = req[r].principal
      /\ h.target = req[r].target /\ h.told = req[r].told
  BY AnswerStep
<1> HIDE DEF h
<1>2. ASSUME NEW t \in h.told
      PROVE  targets'[t] = h.principal /\ h.principal \in Principal
  <2>1. t \in Target
    BY <1>1, <1>2 DEF Handler
  <2>2. targets[t] = h.principal /\ h.principal \in Principal
    BY <1>1, <1>2 DEF OwnerInv, ToldIsOwned
  <2> QED BY <2>1, <2>2
<1> QED BY <1>1, <1>2, OneHandlerOwner

LEMMA QueryOwner ==
  ASSUME Typed, OwnerInv, NEW r \in Request, NEW h, Queried(h, r), UNCHANGED targets,
         req[r].kind # "create" \/ h.status # "ok",
         req[r].kind = "list" /\ h.status = "ok" => req[r].told \ h.missed \subseteq h.allowed,
         h.status = "unauthorized" => req[r].target \notin req[r].told \ h.missed
  PROVE  OwnerInv'
<1>1. \A t \in h.told : targets'[t] = h.principal /\ h.principal \in Principal
  BY DEF Queried, OwnerInv, ToldIsOwned
<1> QED BY <1>1, OneHandlerOwner DEF Queried

LEMMA StepOwner ==
  ASSUME Typed, OwnerInv, NEW r \in Request, RequestStep(r)
  PROVE  OwnerInv'
<1> USE DEF Result
<1>1. CASE CreateTarget(r)
  <2>1. PICK status \in Result :
            /\ Answer(r, status, Nil) /\ status # "unauthorized"
            /\ status = "ok" => targets[req[r].target] = Nil
    BY <1>1, CreateTargetTyped
  <2>2. req[r].pc = "createTarget" /\ req[r].kind = "create" /\ req[r].target \in Target
    BY <1>1, CreateTargetTyped DEF CreateTarget
  <2>3. targets' = [targets EXCEPT ![req[r].target] =
                        IF targets[req[r].target] = Nil THEN req[r].principal ELSE @]
    BY <1>1, CreateTargetTyped
  <2>4. \A t \in Target : targets[t] \in Principal => targets'[t] = targets[t]
    BY <2>2, <2>3, NilAssumption DEF Typed, TypeOK
  <2>5. status = "ok" => targets'[req[r].target] = req[r].principal
    BY <2>1, <2>2, <2>3 DEF Typed, TypeOK
  <2>6. status # "unauthorized"
    BY <2>1
  <2> QED BY <2>1, <2>2, <2>4, <2>5, <2>6, AnswerOwner
<1>2. CASE GetTargetsByPrincipal(r)
  <2>1. "ok" # Nil /\ "unauthorized" # Nil
    BY NilAssumption
  <2> QED BY <1>2, <2>1, GetTargetsByPrincipalTyped, QueryOwner
<1>3. CASE GetTargetsByOwner(r)
  <2>1. req[r].told \subseteq Owned(r)
    BY DEF OwnerInv, ToldIsOwned, Owned, Typed, TypeOK, Handler
  <2>2. PICK h : /\ Queried(h, r) /\ Owned(r) \ h.missed \subseteq h.allowed
                 /\ (h.status = "unauthorized" => req[r].target \notin h.allowed)
    BY <1>3, GetTargetsByOwnerTyped
  <2>3. req[r].kind # "create" /\ UNCHANGED targets
    BY <1>3, GetTargetsByOwnerTyped
  <2>4. /\ req[r].told \ h.missed \subseteq h.allowed
        /\ h.status = "unauthorized" => req[r].target \notin req[r].told \ h.missed
    BY <2>1, <2>2
  <2> QED BY <2>2, <2>3, <2>4, QueryOwner
<1>4. CASE CreateDevice(r)
  <2>1. CASE Answer(r, "ok", r) \/ Answer(r, "error", Nil)
    BY <1>4, <2>1, CreateDeviceTyped, AnswerOwner
  <2>2. CASE \E h : Queried(h, r) /\ h.pc = "getDeviceId" /\ h.status = Nil
    <3>1. "ok" # Nil /\ "unauthorized" # Nil
      BY NilAssumption
    <3> QED BY <1>4, <2>2, <3>1, CreateDeviceTyped, QueryOwner
  <2> QED BY <1>4, <2>1, <2>2, CreateDeviceTyped
<1>5. CASE GetDeviceId(r)
  BY <1>5, GetDeviceIdTyped, AnswerOwner
<1>6. CASE DbFails(r)
  BY <1>6, DbFailsTyped, AnswerOwner DEF DbFails
<1> QED BY <1>1, <1>2, <1>3, <1>4, <1>5, <1>6 DEF RequestStep

LEMMA NextOwner ==
  ASSUME Typed, OwnerInv, [Next]_vars
  PROVE  OwnerInv'
<1>1. ASSUME NEW r \in Request, NEW kind \in Kind, NEW p \in Principal, NEW t \in Target,
             NEW hw \in Hardware, Submit(r, kind, p, t, hw)
      PROVE  OwnerInv'
  <2> DEFINE h == Received(kind, p, t, hw)
  <2>1. h \in Handler /\ h.status = Nil /\ h.principal = p /\ h.told = ToldCreated(p)
    BY SubmitStep
  <2>2. req' = [req EXCEPT ![r] = h] /\ UNCHANGED targets
    BY <1>1 DEF Submit
  <2>3. h.status # "ok" /\ h.status # "unauthorized"
    BY <2>1, NilAssumption DEF Result
  <2>4. \A u \in ToldCreated(p) : targets[u] = p
    BY DEF ToldCreated, OwnerInv, OneCreator
  <2> HIDE DEF h
  <2> QED BY <2>1, <2>2, <2>3, <2>4, OneHandlerOwner
<1>2. CASE UNCHANGED <<targets, req>>
  BY <1>2 DEF OwnerInv, OneCreator, ToldIsOwned, OwnerAllowed
<1> QED BY <1>1, <1>2, StepOwner DEF Next, ChangeAcl, vars

LEMMA InitOwner == Init => OwnerInv
<1> SUFFICES ASSUME Init
             PROVE  OwnerInv
  OBVIOUS
<1>1. \A r \in Request : req[r].told = {} /\ req[r].status = Nil
  BY DEF Init
<1>2. "ok" # Nil /\ "unauthorized" # Nil
  BY NilAssumption DEF Result
<1> QED BY <1>1, <1>2 DEF OwnerInv, OneCreator, ToldIsOwned, OwnerAllowed

LEMMA OwnerAlways == Spec => [](Typed /\ OwnerInv)
<1>1. Init => Typed /\ OwnerInv
  BY InitTyped, InitOwner
<1>2. Typed /\ OwnerInv /\ [Next]_vars => (Typed /\ OwnerInv)'
  BY NextTyped, NextOwner
<1> QED BY <1>1, <1>2, PTL DEF Spec

(* Of all the requests to create a target, only those of one user are told *)
(* that they did, and the target stays theirs (target.go, createTarget).   *)
THEOREM OneCreatorAlways == Spec => []OneCreator
<1>1. Typed /\ OwnerInv => OneCreator
  BY DEF OwnerInv
<1> QED BY <1>1, OwnerAlways, PTL

(* An owner is never refused their target nor missing it in the list, with *)
(* any changes of the ACL between the queries, unless the row of that very *)
(* target was not read (util.go, GetAuthTargetsByPrincipal).               *)
THEOREM OwnerAllowedAlways == Spec => []OwnerAllowed
<1>1. Typed /\ OwnerInv => OwnerAllowed
  BY DEF OwnerInv
<1> QED BY <1>1, OwnerAlways, PTL

=============================================================================
