---------------------------- MODULE Registration ----------------------------
(***************************************************************************)
(* The HTTP side of the control plane: the handlers createTarget,          *)
(* getTargets and registerDevice, one goroutine per request, over the      *)
(* tables targets, target_acl and devices.  A step is one SQL statement.   *)
(* The clients register before every connection, so the id that a request  *)
(* is answered with is the device id of the connections in ControlPlane.   *)
(*                                                                         *)
(* Simplifications:                                                        *)
(*  - A request is used once; its name stands for the uuid it draws.       *)
(*  - The bearer token names the user, the device token the id that was    *)
(*    signed: requests without a valid token stop at once and are left out.*)
(*  - target_acl is never written by the program, only by an operator.     *)
(***************************************************************************)
CONSTANTS
    Principal,      \* users
    Target,         \* names of targets
    Hardware,       \* machine ids
    Request,        \* HTTP requests
    AclEntry,       \* the entries of target_acl that an operator sets and deletes
    FaultyDb,       \* whether a SQL statement may fail
    Nil             \* no owner, no answer

Kind == {"create", "list", "register"}
Result == {"ok", "exists", "unauthorized", "error"}

ASSUME NilAssumption == Nil \notin Principal \cup Request \cup Kind \cup Result
ASSUME AclAssumption == AclEntry \subseteq Principal \X Target
ASSUME FaultAssumption == FaultyDb \in BOOLEAN

VARIABLES
    targets,        \* table targets: the owner of a target
    targetAcl,      \* table target_acl
    devices,        \* table devices
    req             \* the handlers: program counter, request, locals, answer

vars == <<targets, targetAcl, devices, req>>

Row == [principal : Principal, target : Target, hardwareId : Hardware, deviceId : Request]
Handler ==
    [pc : {"new", "createTarget", "acl", "owner", "createDevice", "getDeviceId", "done"},
     kind : Kind \cup {Nil}, principal : Principal \cup {Nil},
     target : Target \cup {Nil}, hardwareId : Hardware \cup {Nil}, told : SUBSET Target,
     allowed : SUBSET Target, missed : SUBSET Target, status : Result \cup {Nil}, deviceId : Request \cup {Nil}]

Init ==
    /\ targets = [t \in Target |-> Nil]
    /\ targetAcl = {}
    /\ devices = {}
    /\ req = [r \in Request |->
                [pc |-> "new", kind |-> Nil, principal |-> Nil, target |-> Nil,
                 hardwareId |-> Nil, told |-> {}, allowed |-> {}, missed |-> {},
                 status |-> Nil, deviceId |-> Nil]]

-----------------------------------------------------------------------------
(* The answer to a request, and the end of its handler. *)
Answer(r, status, deviceId) ==
    req' = [req EXCEPT ![r].pc = "done", ![r].status = status, ![r].deviceId = deviceId]

Goto(r, pc) == req' = [req EXCEPT ![r].pc = pc]

(* The targets that a user has been told are created, and are theirs. *)
ToldCreated(p) ==
    {req[r].target : r \in {q \in Request : /\ req[q].kind = "create" /\ req[q].principal = p
                                            /\ req[q].status = "ok"}}

(* Mutant: the body with the machine id is not parsed. *)
ReceivedUnparsed(kind, p, t, hardwareId) ==
    [pc |-> IF kind = "create" THEN "createTarget" ELSE "acl",
     kind |-> kind, principal |-> p, target |-> IF kind = "list" THEN Nil ELSE t,
     hardwareId |-> Nil, told |-> ToldCreated(p), allowed |-> {}, missed |-> {},
     status |-> Nil, deviceId |-> Nil]

(* The handler of a request by a user; what they have been told by then is *)
(* kept for the properties.                                                *)
Received(kind, p, t, hardwareId) ==
    [pc |-> IF kind = "create" THEN "createTarget" ELSE "acl",
     kind |-> kind, principal |-> p, target |-> IF kind = "list" THEN Nil ELSE t,
     hardwareId |-> IF kind = "register" THEN hardwareId ELSE Nil,
     told |-> ToldCreated(p), allowed |-> {}, missed |-> {}, status |-> Nil,
     deviceId |-> Nil]

Submit(r, kind, p, t, hardwareId) ==
    /\ req[r].pc = "new"
    /\ req' = [req EXCEPT ![r] = Received(kind, p, t, hardwareId)]
    /\ UNCHANGED <<targets, targetAcl, devices>>

(* Mutant: the second creation of a target takes it over. *)
CreateTargetUpsert(r) ==
    LET h == req[r]
    IN  /\ h.pc = "createTarget"
        /\ targets' = [targets EXCEPT ![h.target] = h.principal]
        /\ \/ Answer(r, "ok", Nil)
           \/ FaultyDb /\ Answer(r, "error", Nil)
        /\ UNCHANGED <<targetAcl, devices>>

(* createTarget: INSERT ... ON CONFLICT DO NOTHING, and the number of rows *)
(* tells whether there was one.  A failed write may have been committed.   *)
CreateTarget(r) ==
    LET h == req[r]
        created == targets[h.target] = Nil
    IN  /\ h.pc = "createTarget"
        /\ targets' = [targets EXCEPT ![h.target] = IF created THEN h.principal ELSE @]
        /\ \/ Answer(r, IF created THEN "ok" ELSE "exists", Nil)
           \/ FaultyDb /\ Answer(r, "error", Nil)
        /\ UNCHANGED <<targetAcl, devices>>

(* What the loop over rows.Next() collects.  It ends with the last row or  *)
(* when reading fails, and nobody asks rows.Err() which of them it was.    *)
ReadRows(rows) == IF FaultyDb THEN SUBSET rows ELSE {rows}

(* GetAuthTargetsByPrincipal: what the ACL allows, ... *)
GetTargetsByPrincipal(r) ==
    /\ req[r].pc = "acl"
    /\ \E found \in ReadRows({t \in Target : <<req[r].principal, t>> \in targetAcl}) :
            req' = [req EXCEPT ![r].pc = "owner", ![r].allowed = found]
    /\ UNCHANGED <<targets, targetAcl, devices>>

(* Mutant: the two lists are not joined. *)
AllowedByAcl(r, found) == req[r].allowed

(* ... and what the user owns. *)
Allowed(r, found) == req[r].allowed \cup found

(* The rows that were not read are kept for the properties. *)
GetTargetsByOwner(r) ==
    LET h == req[r]
        register == h.kind = "register"
        owned == {t \in Target : targets[t] = h.principal}
    IN  /\ h.pc = "owner"
        /\ \E found \in ReadRows(owned) :
             LET may == h.target \in Allowed(r, found)
             IN  req' = [req EXCEPT
                    ![r].allowed = Allowed(r, found),
                    ![r].missed = owned \ found,
                    ![r].pc = IF register /\ may THEN "createDevice" ELSE "done",
                    ![r].status = IF register THEN IF may THEN Nil ELSE "unauthorized"
                                  ELSE "ok"]
        /\ UNCHANGED <<targets, targetAcl, devices>>

Registered(h) ==
    {d \in devices : /\ d.principal = h.principal /\ d.target = h.target
                     /\ d.hardwareId = h.hardwareId}
NewRow(r) ==
    [principal |-> req[r].principal, target |-> req[r].target,
     hardwareId |-> req[r].hardwareId, deviceId |-> r]

(* Mutant: whether the row was created is not looked at. *)
CreateDeviceBlindly(r) ==
    /\ req[r].pc = "createDevice"
    /\ devices' = IF Registered(req[r]) = {} THEN devices \cup {NewRow(r)} ELSE devices
    /\ Answer(r, "ok", r)
    /\ UNCHANGED <<targets, targetAcl>>

(* createDevice: INSERT ... ON CONFLICT DO NOTHING under the key           *)
(* (principal, target, hardware_id).                                       *)
CreateDevice(r) ==
    /\ req[r].pc = "createDevice"
    /\ IF Registered(req[r]) = {}
       THEN /\ devices' = devices \cup {NewRow(r)}
            /\ Answer(r, "ok", r) \/ (FaultyDb /\ Answer(r, "error", Nil))
       ELSE /\ Goto(r, "getDeviceId")
            /\ UNCHANGED devices
    /\ UNCHANGED <<targets, targetAcl>>

(* Mutant: any machine of the user will do. *)
RowsOfPrincipal(h) == {d \in devices : d.principal = h.principal}

(* getDeviceId: the first of the rows of the user and the machine, on      *)
(* whatever target; without one the id is empty and the answer is still 200.*)
RowsOf(h) == {d \in devices : d.principal = h.principal /\ d.hardwareId = h.hardwareId}

GetDeviceId(r) ==
    /\ req[r].pc = "getDeviceId"
    /\ \E id \in IF RowsOf(req[r]) = {} THEN {Nil}
                ELSE {d.deviceId : d \in RowsOf(req[r])} : Answer(r, "ok", id)
    /\ UNCHANGED <<targets, targetAcl, devices>>

(* A statement fails at once and nothing is written: 500. *)
DbFails(r) ==
    /\ FaultyDb /\ req[r].pc \notin {"new", "done"}
    /\ Answer(r, "error", Nil)
    /\ UNCHANGED <<targets, targetAcl, devices>>

(* External: an operator changes who may use a target. *)
ChangeAcl(e) ==
    /\ targetAcl' = IF e \in targetAcl THEN targetAcl \ {e} ELSE targetAcl \cup {e}
    /\ UNCHANGED <<targets, devices, req>>

RequestStep(r) ==
    \/ CreateTarget(r) \/ GetTargetsByPrincipal(r) \/ GetTargetsByOwner(r)
    \/ CreateDevice(r) \/ GetDeviceId(r) \/ DbFails(r)

Next ==
    \/ \E r \in Request : RequestStep(r)
    \/ \E r \in Request, kind \in Kind, p \in Principal, t \in Target, hw \in Hardware :
            Submit(r, kind, p, t, hw)
    \/ \E e \in AclEntry : ChangeAcl(e)

Spec == Init /\ [][Next]_vars

-----------------------------------------------------------------------------
TypeOK ==
    /\ targets \in [Target -> Principal \cup {Nil}]
    /\ targetAcl \subseteq AclEntry
    /\ devices \subseteq Row
    /\ req \in [Request -> Handler]

SameDevice(g, h) == g.principal = h.principal /\ g.hardwareId = h.hardwareId
GivenId(r) == req[r].kind = "register" /\ req[r].status = "ok"

(* A registration that succeeds is answered with an id, and with one that  *)
(* the table has for that user and machine: createDevice and getDeviceId   *)
(* are two statements ("this logic / database chain is raceable",          *)
(* device.go:61), and no interleaving comes between them.                  *)
AnswerIsRegistered ==
    \A r \in Request : GivenId(r) =>
        \E d \in devices : d.deviceId = req[r].deviceId /\ SameDevice(d, req[r])

(* Two users, or two machines of a user, are never given the same id, which *)
(* would give them one connection and one address between them             *)
(* (device.go, registerDevice).                                            *)
IdsApart ==
    \A q, r \in Request :
        GivenId(q) /\ GivenId(r) /\ req[q].deviceId = req[r].deviceId =>
            SameDevice(req[q], req[r])

(* A machine that a user has registered for one target only is always      *)
(* given the same id, also by registrations that overlap and after one     *)
(* whose answer was lost (device.go, registerDevice).                      *)
OneTargetOneId ==
    \A q, r \in Request :
        /\ GivenId(q) /\ GivenId(r) /\ SameDevice(req[q], req[r])
        /\ \A d, e \in RowsOf(req[q]) : d.target = e.target
        => req[q].deviceId = req[r].deviceId

(* At most one user is told that they created a target, and it is theirs   *)
(* from then on (target.go, createTarget).                                 *)
OneCreator ==
    \A r \in Request :
        req[r].kind = "create" /\ req[r].status = "ok" => targets[req[r].target] = req[r].principal

(* A user who asks after having been told that a target is theirs finds it *)
(* in the list, and may register on it, whatever happens to the ACL        *)
(* between the two queries (util.go, GetAuthTargetsByPrincipal).  The one  *)
(* exception is a target whose row was not read: getTargetsByOwner (db.go) *)
(* does not look at rows.Err().                                            *)
OwnerAllowed ==
    \A r \in Request :
        LET sure == req[r].told \ req[r].missed
        IN  /\ req[r].kind = "list" /\ req[r].status = "ok" => sure \subseteq req[r].allowed
            /\ req[r].status = "unauthorized" => req[r].target \notin sure
=============================================================================
