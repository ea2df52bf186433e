----------------------------- MODULE StateFile ------------------------------
(***************************************************************************)
(* The state file of a device: the login token and the WireGuard key pair. *)
(* The CLI and the GUI change the token by reading the whole state through *)
(* the daemon and writing it back; the jrpc handlers read it, and generate *)
(* and save the keys if there are none.  Nothing keeps these from          *)
(* overlapping, and SetRVpnState first truncates the file and then writes  *)
(* it.  A key pair is a number, 0 for none.                                *)
(***************************************************************************)
EXTENDS Naturals

CONSTANTS
    Nil,            \* no token
    Token,          \* login tokens
    Client,         \* instances of the CLI and the GUI
    Handler,        \* jrpc connections
    MaxKey,         \* bound: how many key pairs are generated
    TokenLength,    \* the length of a token
    KeyLength       \* the length of a key pair

ASSUME StateAssumption ==
    /\ Nil \notin Token /\ Client \cap Handler = {}
    /\ MaxKey \in Nat /\ KeyLength \in Nat
    /\ TokenLength \in [Token -> Nat]

VARIABLES
    file,       \* the state a reader parses, and the size
    proc,       \* per process: where it is, the state it will write, the key
                \* it reported to the control plane
    keys,       \* how many key pairs have been generated
    auth,       \* history: the token of the last login or logout
    clean       \* history: no two updates overlapped, none was cut short

vars == <<file, proc, keys, auth, clean>>

Process == Client \cup Handler
NoState == [auth |-> Nil, key |-> 0]
Idle == [pc |-> "idle", state |-> NoState, reported |-> 0]

(* The size of the JSON text, whose field names take some space. *)
Size(s) == 1 + (IF s.auth = Nil THEN 0 ELSE TokenLength[s.auth])
             + (IF s.key = 0 THEN 0 ELSE KeyLength)

(* The error of json.Unmarshal is ignored: text that it rejects, and no    *)
(* text at all, is the empty state.                                        *)
GetRVpnState == file.state

(* The two halves of SetRVpnState.  The flush writes from the start of the *)
(* file: if another one has written more since the truncation, its tail    *)
(* stays and the text is not JSON.                                         *)
Truncated == [state |-> NoState, size |-> 0]
Flushed(s) == IF file.size > Size(s) THEN [state |-> NoState, size |-> file.size]
                                     ELSE [state |-> s, size |-> Size(s)]

(* InitRVPNState. *)
Init ==
    /\ file = [state |-> NoState, size |-> Size(NoState)]
    /\ proc = [p \in Process |-> Idle]
    /\ keys = 0 /\ auth = Nil /\ clean = TRUE

(* Some process is between its read and its last write. *)
UnderWay == \E p \in Process : proc[p].pc \in {"modified", "truncated"}

(* A process has read the state and is going to write s. *)
Modify(p, s) ==
    /\ proc' = [proc EXCEPT ![p] = [Idle EXCEPT !.pc = "modified", !.state = s]]
    /\ clean' = (clean /\ ~UnderWay)
    /\ UNCHANGED <<file, auth>>

Truncate(p) ==
    /\ proc[p].pc = "modified"
    /\ proc' = [proc EXCEPT ![p].pc = "truncated"]
    /\ file' = Truncated
    /\ UNCHANGED <<keys, auth, clean>>

-----------------------------------------------------------------------------
(* ControlPanelAuthLogin; Login and Logout of the GUI.                     *)

(* Mutant: the state is written anew. *)
TokenOnly(s, token) == [auth |-> token, key |-> 0]
WithToken(s, token) == [s EXCEPT !.auth = token]

Login(c, token) ==
    /\ proc[c].pc = "idle"
    /\ Modify(c, WithToken(GetRVpnState, token))
    /\ UNCHANGED keys

LoginFlush(c) ==
    /\ proc[c].pc = "truncated"
    /\ proc' = [proc EXCEPT ![c] = Idle]
    /\ file' = Flushed(proc[c].state)
    /\ auth' = proc[c].state.auth
    /\ UNCHANGED <<keys, clean>>

-----------------------------------------------------------------------------
(* jrpcHandler.                                                            *)

Reported(key) == [Idle EXCEPT !.pc = "reported", !.reported = key]

(* get_client_information and get_serve_information report a key that is   *)
(* there.                                                                  *)
ReportKey(h) ==
    /\ proc[h].pc = "idle" /\ GetRVpnState.key # 0
    /\ proc' = [proc EXCEPT ![h] = Reported(GetRVpnState.key)]
    /\ UNCHANGED <<file, keys, auth, clean>>

(* Mutant: the state is written anew. *)
KeyOnly(s, key) == [auth |-> Nil, key |-> key]
WithKey(s, key) == [s EXCEPT !.key = key]

(* If there is none, a new pair is generated, saved, and reported. *)
GenerateKey(h) ==
    /\ proc[h].pc = "idle" /\ GetRVpnState.key = 0 /\ keys < MaxKey
    /\ keys' = keys + 1
    /\ Modify(h, WithKey(GetRVpnState, keys'))

KeyFlush(h) ==
    /\ proc[h].pc = "truncated"
    /\ proc' = [proc EXCEPT ![h] = Reported(proc[h].state.key)]
    /\ file' = Flushed(proc[h].state)
    /\ UNCHANGED <<keys, auth, clean>>

(* The daemon dies, and with it what clients and handlers were doing.  The *)
(* next Start does not touch a file that exists.                           *)
Die ==
    /\ proc' = [p \in Process |-> Idle]
    /\ clean' = (clean /\ file # Truncated)
    /\ UNCHANGED <<file, keys, auth>>

(* connect_server and serve_vpn read the state again.  Without keys they   *)
(* reply an error and go on, to the log.Fatalf where the key is parsed.    *)
Configure(h) ==
    /\ proc[h].pc = "reported"
    /\ \/ GetRVpnState.key = 0 /\ Die
       \/ /\ GetRVpnState.key # 0
          /\ proc' = [proc EXCEPT ![h] = Idle]
          /\ UNCHANGED <<file, keys, auth, clean>>

Next ==
    \/ \E c \in Client :
        \/ \E token \in Token \cup {Nil} : Login(c, token)
        \/ LoginFlush(c)
    \/ \E h \in Handler :
        ReportKey(h) \/ GenerateKey(h) \/ KeyFlush(h) \/ Configure(h)
    \/ \E p \in Process : Truncate(p)
    \/ Die

Spec == Init /\ [][Next]_vars

-----------------------------------------------------------------------------
(* Properties.                                                             *)

(* Between updates the file holds the token of the last login or logout:   *)
(* saving the keys does not lose it, nor does a process that ends, unless  *)
(* two updates overlapped or one was cut short (state.go, SetRVpnState).   *)
TokenKept == clean /\ ~UnderWay => GetRVpnState.auth = auth

(* The key that was reported to the control plane is the one that          *)
(* connect_server finds later, through logins, logouts and other           *)
(* connections in between, under the same condition (daemon.go, Handle).   *)
ReportedKeyKept ==
    \A h \in Handler : clean /\ ~UnderWay /\ proc[h].pc = "reported"
        => GetRVpnState.key = proc[h].reported

(* "we must have a saved public key in rVPN state, return information to   *)
(* control plane" (daemon.go, Handle): the key that is reported is in the  *)
(* file, once nobody is writing.                                           *)
SavedKey ==
    \A h \in Handler : ~UnderWay /\ proc[h].pc = "reported"
        => GetRVpnState.key # 0
=============================================================================
