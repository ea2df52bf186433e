------------------------------ MODULE Database ------------------------------
(***************************************************************************)
(* The queries of RVPNDatabase that the WebSocket handlers run, each one   *)
(* SQL statement and therefore one atomic operator, over the two tables    *)
(* they use.                                                               *)
(*   table "targets"     : name -> [serverPubkey], or Nil for no row.      *)
(*       The columns that createTarget fills once and nobody changes       *)
(*       (owner, network, dns) are left out; pubkey, public ip and port of *)
(*       the server are always written together and are one value.         *)
(*   table "connections" : id -> [target, deviceId, pubkey, clientIp], or  *)
(*       Nil for no row.  The id is the primary key.                       *)
(***************************************************************************)
CONSTANT Nil

(* INSERT INTO targets ... ON CONFLICT DO NOTHING *)
CreateTarget(targets, name) ==
    IF targets[name] = Nil
    THEN [targets EXCEPT ![name] = [serverPubkey |-> Nil]]
    ELSE targets

(* Mutant: the first server of a target stays. *)
UpdateTargetOnce(targets, name, serverPubkey) ==
    IF targets[name] = Nil \/ targets[name].serverPubkey # Nil
    THEN targets
    ELSE [targets EXCEPT ![name] = [serverPubkey |-> serverPubkey]]

(* UPDATE targets SET ... WHERE name = $1 *)
UpdateTarget(targets, name, serverPubkey) ==
    IF targets[name] = Nil
    THEN targets
    ELSE [targets EXCEPT ![name] = [serverPubkey |-> serverPubkey]]

(* SELECT ... FROM connections WHERE target = $1 *)
GetConnectionsByTarget(connections, target) ==
    {id \in DOMAIN connections :
        connections[id] # Nil /\ connections[id].target = target}

(* What the loop over rows.Next() collects.  It ends with the last row or  *)
(* when reading fails, and nobody asks rows.Err() which of them it was.    *)
ReadRows(rows, faulty) == IF faulty THEN SUBSET rows ELSE {rows}

(* SELECT client_ip FROM connections WHERE target = $1 *)
GetTargetClientIps(connections, target) ==
    {connections[id].clientIp : id \in GetConnectionsByTarget(connections, target)}

(* SELECT ... WHERE target = $1 AND device_id = $2: the rows that match, of *)
(* which QueryRow returns one.                                             *)
GetConnection(connections, target, deviceId) ==
    {id \in GetConnectionsByTarget(connections, target) :
        connections[id].deviceId = deviceId}

(* Mutant: no UNIQUE (target, client_ip). *)
CreateConnectionNotUnique(connections, id, row) ==
    IF connections[id] = Nil THEN [connections EXCEPT ![id] = row] ELSE connections

(* INSERT INTO connections ... ON CONFLICT DO NOTHING, under PRIMARY KEY    *)
(* (id) and UNIQUE (target, client_ip).                                    *)
CreateConnection(connections, id, row) ==
    IF connections[id] = Nil
       /\ row.clientIp \notin GetTargetClientIps(connections, row.target)
    THEN [connections EXCEPT ![id] = row]
    ELSE connections

(* UPDATE connections SET ... WHERE id = $1 *)
UpdateConnection(connections, id, row) ==
    IF connections[id] = Nil
    THEN connections
    ELSE [connections EXCEPT ![id] = row]
=============================================================================
