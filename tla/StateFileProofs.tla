-------------------------- MODULE StateFileProofs ---------------------------
(***************************************************************************)
(* Proofs about the state file.  As long as no two updates overlapped and  *)
(* none was cut short, there is at most one process between its read and   *)
(* its last write; what it will write has, of what it does not change, the *)
(* values that matter: a login carries the key that handlers reported, and *)
(* a handler that saves a new key carries the token of the last login.     *)
(***************************************************************************)
EXTENDS StateFile, TLAPS

State == [auth : Token \cup {Nil}, key : Nat]
Where == {"idle", "modified", "truncated", "reported"}

TypeOK ==
    /\ file \in [state : State, size : Nat]
    /\ proc \in [Process -> [pc : Where, state : State, reported : Nat]]
    /\ keys \in Nat
    /\ auth \in Token \cup {Nil}
    /\ clean \in BOOLEAN

Writing(p) == proc[p].pc \in {"modified", "truncated"}

(* At most one update is under way. *)
OneWriter == \A p, q \in Process : Writing(p) /\ Writing(q) => p = q

(* Only between the two halves of SetRVpnState is the file cut. *)
CutWhileTruncated ==
    \A p \in Process : proc[p].pc = "truncated" => file = Truncated

(* While it is not, it holds the token of the last login and the key that  *)
(* every connection reported.                                              *)
FileHolds ==
    (\A p \in Process : proc[p].pc # "truncated") =>
        /\ file.state.auth = auth
        /\ \A h \in Handler : proc[h].pc = "reported"
                                => proc[h].reported = file.state.key

(* A login that has read the state has read the key, and will write it. *)
ClientCarries ==
    \A c \in Client : Writing(c) =>
        /\ proc[c].pc = "modified" => proc[c].state.key = file.state.key
        /\ \A h \in Handler : proc[h].pc = "reported"
                                => proc[h].reported = proc[c].state.key

(* A handler that saves a new key has found none, so that no connection    *)
(* has reported any; it has read the token, and will write it.             *)
HandlerCarries ==
    \A g \in Handler : Writing(g) =>
        /\ proc[g].pc = "modified" => file.state.key = 0
        /\ proc[g].state.auth = auth
        /\ \A h \in Handler : proc[h].pc # "reported"

(* The part of the invariant about updates that do not overlap. *)
Orderly ==
    /\ OneWriter
    /\ CutWhileTruncated
    /\ FileHolds
    /\ ClientCarries
    /\ HandlerCarries

(* A new key pair is not the empty one, in the process that will save it   *)
(* and in the one that reported it.                                        *)
SavesSome ==
    \A h \in Handler : /\ Writing(h) => proc[h].state.key # 0
                       /\ proc[h].pc = "reported" => proc[h].reported # 0

IInv == TypeOK /\ SavesSome /\ (clean => Orderly)

-----------------------------------------------------------------------------
(* Operators.                                                              *)

(* The size of a state is a positive number, so that a flush after a       *)
(* truncation nobody interfered with leaves what it wrote.                 *)
LEMMA SizePositive ==
    ASSUME NEW s \in State
    PROVE  Size(s) \in Nat /\ Size(s) > 0
<1>1. s.auth = Nil \/ TokenLength[s.auth] \in Nat
  BY StateAssumption DEF State
<1>2. KeyLength \in Nat
  BY StateAssumption
<1> QED BY <1>1, <1>2 DEF Size

LEMMA FlushAfterCut ==
    ASSUME NEW s \in State, file = Truncated
    PROVE  Flushed(s) = [state |-> s, size |-> Size(s)]
BY SizePositive DEF Flushed, Truncated

LEMMA FlushedType ==
    ASSUME NEW s \in State, file \in [state : State, size : Nat]
    PROVE  Flushed(s) \in [state : State, size : Nat]
BY SizePositive DEF Flushed, State, NoState

(* Login changes the token only, a handler the key only. *)
LEMMA WithTokenType ==
    ASSUME NEW s \in State, NEW token \in Token \cup {Nil}
    PROVE  /\ WithToken(s, token) \in State
           /\ WithToken(s, token).key = s.key
BY DEF WithToken, State

LEMMA WithKeyType ==
    ASSUME NEW s \in State, NEW key \in Nat
    PROVE  /\ WithKey(s, key) \in State
           /\ WithKey(s, key).auth = s.auth
           /\ WithKey(s, key).key = key
BY DEF WithKey, State

(* The records a process is left with. *)
LEMMA IdleFields ==
    Idle.pc = "idle" /\ Idle.state = NoState /\ Idle.reported = 0
BY DEF Idle

LEMMA ReportedFields ==
    ASSUME NEW key
    PROVE  /\ Reported(key).pc = "reported" /\ Reported(key).state = NoState
           /\ Reported(key).reported = key
BY DEF Reported, Idle

LEMMA ModifiedFields ==
    ASSUME NEW s
    PROVE  LET m == [Idle EXCEPT !.pc = "modified", !.state = s]
           IN  m.pc = "modified" /\ m.state = s
BY DEF Idle

-----------------------------------------------------------------------------
(* Types.                                                                  *)

LEMMA TypeInit == Init => TypeOK
BY SizePositive DEF Init, TypeOK, State, NoState, Idle, Where

LEMMA ModifyType ==
    ASSUME TypeOK, NEW p \in Process, NEW s \in State, Modify(p, s)
    PROVE  /\ proc' \in [Process -> [pc : Where, state : State, reported : Nat]]
           /\ file' \in [state : State, size : Nat]
           /\ auth' \in Token \cup {Nil}
           /\ clean' \in BOOLEAN
BY DEF TypeOK, Modify, Idle, Where

LEMMA TypeNext ==
    ASSUME TypeOK, [Next]_vars
    PROVE  TypeOK'
<1>1. file.state \in State /\ keys \in Nat
  BY DEF TypeOK
<1>2. ASSUME NEW p \in Process
      PROVE  proc[p].state \in State /\ proc[p].reported \in Nat
  BY DEF TypeOK
<1>3. NoState \in State
  BY DEF NoState, State
<1>4. ASSUME NEW c \in Client, NEW token \in Token \cup {Nil}, Login(c, token)
      PROVE  TypeOK'
  <2>1. WithToken(GetRVpnState, token) \in State
    BY <1>1, WithTokenType DEF GetRVpnState
  <2>2. c \in Process
    BY DEF Process
  <2> QED BY <1>4, <2>1, <2>2, ModifyType DEF Login, TypeOK
<1>5. ASSUME NEW c \in Client, LoginFlush(c)
      PROVE  TypeOK'
  <2>1. c \in Process
    BY DEF Process
  <2>2. file' \in [state : State, size : Nat]
    BY <1>2, <1>5, <2>1, FlushedType DEF LoginFlush, TypeOK
  <2>3. proc' \in [Process -> [pc : Where, state : State, reported : Nat]]
    BY <1>3, <1>5 DEF LoginFlush, TypeOK, Idle, Where
  <2>4. auth' \in Token \cup {Nil}
    BY <1>2, <1>5, <2>1 DEF LoginFlush, State
  <2> QED BY <1>5, <2>2, <2>3, <2>4 DEF LoginFlush, TypeOK
<1>6. ASSUME NEW h \in Handler, ReportKey(h)
      PROVE  TypeOK'
  BY <1>1, <1>3, <1>6 DEF ReportKey, TypeOK, Reported, Idle, Where, GetRVpnState, State
<1>7. ASSUME NEW h \in Handler, GenerateKey(h)
      PROVE  TypeOK'
  <2>1. keys' \in Nat
    BY <1>1, <1>7 DEF GenerateKey
  <2>2. WithKey(GetRVpnState, keys') \in State
    BY <1>1, <2>1, WithKeyType DEF GetRVpnState
  <2>3. h \in Process
    BY DEF Process
  <2> QED BY <1>7, <2>1, <2>2, <2>3, ModifyType DEF GenerateKey, TypeOK
<1>8. ASSUME NEW h \in Handler, KeyFlush(h)
      PROVE  TypeOK'
  <2>1. h \in Process
    BY DEF Process
  <2>2. file' \in [state : State, size : Nat]
    BY <1>2, <1>8, <2>1, FlushedType DEF KeyFlush, TypeOK
  <2>3. proc' \in [Process -> [pc : Where, state : State, reported : Nat]]
    BY <1>2, <1>3, <1>8, <2>1 DEF KeyFlush, TypeOK, Reported, Idle, Where, State
  <2> QED BY <1>8, <2>2, <2>3 DEF KeyFlush, TypeOK
<1>9. ASSUME Die
      PROVE  TypeOK'
  BY <1>3, <1>9 DEF Die, TypeOK, Idle, Where
<1>10. ASSUME NEW h \in Handler, Configure(h)
       PROVE  TypeOK'
  <2>1. CASE Die
    BY <1>9, <2>1
  <2>2. CASE proc' = [proc EXCEPT ![h] = Idle] /\ UNCHANGED <<file, keys, auth, clean>>
    BY <1>3, <2>2 DEF TypeOK, Idle, Where
  <2> QED BY <1>10, <2>1, <2>2 DEF Configure
<1>11. ASSUME NEW p \in Process, Truncate(p)
       PROVE  TypeOK'
  BY <1>3, <1>11 DEF Truncate, TypeOK, Truncated, Where
<1>12. CASE UNCHANGED vars
  BY <1>12 DEF vars, TypeOK
<1> QED BY <1>4, <1>5, <1>6, <1>7, <1>8, <1>9, <1>10, <1>11, <1>12 DEF Next

-----------------------------------------------------------------------------
(* The keys that are saved.                                                *)

LEMMA SavesNext ==
    ASSUME TypeOK, SavesSome, [Next]_vars
    PROVE  SavesSome'
<1> SUFFICES ASSUME NEW h \in Handler
             PROVE  /\ Writing(h)' => (proc[h].state.key # 0)'
                    /\ (proc[h].pc = "reported")' => (proc[h].reported # 0)'
  BY DEF SavesSome
<1>1. h \in Process /\ Handler \subseteq Process /\ Client \subseteq Process
  BY DEF Process
<1>2. proc \in [Process -> [pc : Where, state : State, reported : Nat]]
  BY DEF TypeOK
<1>3. /\ Writing(h) => proc[h].state.key # 0
      /\ proc[h].pc = "reported" => proc[h].reported # 0
  BY DEF SavesSome
<1>4. ASSUME NEW c \in Client, NEW token \in Token \cup {Nil}, Login(c, token)
      PROVE  proc'[h] = proc[h]
  BY <1>1, <1>2, <1>4, StateAssumption DEF Login, Modify
<1>5. ASSUME NEW c \in Client, LoginFlush(c)
      PROVE  proc'[h] = proc[h]
  BY <1>1, <1>2, <1>5, StateAssumption DEF LoginFlush
<1>6. CASE proc'[h] = proc[h]
  BY <1>3, <1>6 DEF Writing
<1>7. CASE proc'[h] = Idle
  BY <1>7 DEF Writing, Idle
<1>8. ASSUME NEW g \in Handler, ReportKey(g)
      PROVE  proc'[h] = proc[h] \/ (proc'[h].pc = "reported" /\ proc'[h].reported # 0)
  <2>1. h # g => proc'[h] = proc[h]
    BY <1>1, <1>2, <1>8 DEF ReportKey
  <2>2. h = g => proc'[h] = Reported(file.state.key) /\ file.state.key # 0
    BY <1>1, <1>2, <1>8 DEF ReportKey, GetRVpnState
  <2> QED BY <2>1, <2>2, ReportedFields
<1>9. ASSUME NEW g \in Handler, GenerateKey(g)
      PROVE  proc'[h] = proc[h] \/ (proc'[h].pc = "modified" /\ proc'[h].state.key # 0)
  <2>1. keys' \in Nat /\ keys' # 0
    BY <1>9 DEF GenerateKey, TypeOK
  <2>2. WithKey(GetRVpnState, keys').key # 0
    BY <2>1, WithKeyType DEF TypeOK, GetRVpnState
  <2>3. h # g => proc'[h] = proc[h]
    BY <1>1, <1>2, <1>9 DEF GenerateKey, Modify
  <2>4. h = g => proc'[h] = [Idle EXCEPT !.pc = "modified",
                                         !.state = WithKey(GetRVpnState, keys')]
    BY <1>1, <1>2, <1>9 DEF GenerateKey, Modify
  <2> QED BY <2>2, <2>3, <2>4, ModifiedFields
<1>10. ASSUME NEW g \in Handler, KeyFlush(g)
       PROVE  proc'[h] = proc[h] \/ (proc'[h].pc = "reported" /\ proc'[h].reported # 0)
  <2>1. h # g => proc'[h] = proc[h]
    BY <1>1, <1>2, <1>10 DEF KeyFlush
  <2>2. h = g => proc'[h] = Reported(proc[h].state.key) /\ Writing(h)
    BY <1>1, <1>2, <1>10 DEF KeyFlush, Writing
  <2> QED BY <1>3, <2>1, <2>2, ReportedFields
<1>11. ASSUME Die
       PROVE  proc'[h] = Idle
  BY <1>1, <1>11 DEF Die
<1>12. ASSUME NEW g \in Handler, Configure(g)
       PROVE  proc'[h] = proc[h] \/ proc'[h] = Idle
  BY <1>1, <1>2, <1>11, <1>12 DEF Configure
<1>13. ASSUME NEW p \in Process, Truncate(p)
       PROVE  \/ proc'[h] = proc[h]
              \/ Writing(h) /\ proc'[h].pc = "truncated" /\ proc'[h].state = proc[h].state
  BY <1>1, <1>2, <1>13 DEF Truncate, Writing
<1>14. CASE proc'[h].pc = "reported" /\ proc'[h].reported # 0
  BY <1>14 DEF Writing
<1>15. CASE proc'[h].pc = "modified" /\ proc'[h].state.key # 0
  BY <1>15 DEF Writing
<1>16. CASE Writing(h) /\ proc'[h].pc = "truncated" /\ proc'[h].state = proc[h].state
  BY <1>3, <1>16 DEF Writing
<1>17. CASE UNCHANGED vars
  BY <1>6, <1>17 DEF vars
<1> QED BY <1>4, <1>5, <1>6, <1>7, <1>8, <1>9, <1>10, <1>11, <1>12, <1>13, <1>14,
           <1>15, <1>16, <1>17 DEF Next

-----------------------------------------------------------------------------
(* Updates that do not overlap.                                            *)

(* A process that has read the state while no other is writing, and a      *)
(* handler only if there is no key.                                        *)
LEMMA OrderlyModify ==
    ASSUME TypeOK, SavesSome, Orderly, ~UnderWay,
           NEW p \in Process, NEW s \in State, Modify(p, s),
           p \in Client => s.key = file.state.key,
           p \in Handler => s.auth = file.state.auth /\ file.state.key = 0
    PROVE  Orderly'
<1>1. proc \in [Process -> [pc : Where, state : State, reported : Nat]]
  BY DEF TypeOK
<1>2. file' = file /\ auth' = auth
  BY DEF Modify
<1>3. Handler \subseteq Process /\ Client \subseteq Process
  BY DEF Process
<1>4. \A q \in Process : q # p => proc'[q] = proc[q] /\ ~Writing(q)
  BY <1>1 DEF Modify, UnderWay, Writing
<1>5. proc'[p].pc = "modified" /\ proc'[p].state = s
  BY <1>1, ModifiedFields DEF Modify
<1>6. \A q \in Process : Writing(q)' => q = p
  BY <1>4 DEF Writing
<1>7. /\ file.state.auth = auth
      /\ \A h \in Handler : proc[h].pc = "reported" => proc[h].reported = file.state.key
  BY <1>3 DEF UnderWay, Orderly, FileHolds
<1>8. \A h \in Handler : proc'[h].pc = "reported" =>
        proc[h].pc = "reported" /\ proc'[h].reported = proc[h].reported
  BY <1>3, <1>4, <1>5
<1>9. \A q \in Process : proc'[q].pc # "truncated"
  BY <1>4, <1>5 DEF Writing
<1>10. OneWriter'
  BY <1>6 DEF OneWriter
<1>11. CutWhileTruncated'
  BY <1>9 DEF CutWhileTruncated
<1>12. FileHolds'
  BY <1>2, <1>7, <1>8 DEF FileHolds
<1>13. ClientCarries'
  BY <1>2, <1>3, <1>5, <1>6, <1>7, <1>8 DEF ClientCarries
<1>14. HandlerCarries'
  <2>1. p \in Handler => \A h \in Handler : proc[h].pc # "reported"
    BY <1>7 DEF SavesSome
  <2> QED BY <1>2, <1>3, <1>5, <1>6, <1>7, <1>8, <2>1 DEF HandlerCarries
<1> QED BY <1>10, <1>11, <1>12, <1>13, <1>14 DEF Orderly

LEMMA OrderlyTruncate ==
    ASSUME TypeOK, Orderly, NEW p \in Process, Truncate(p)
    PROVE  Orderly'
<1>1. proc \in [Process -> [pc : Where, state : State, reported : Nat]]
  BY DEF TypeOK
<1>2. file' = Truncated /\ auth' = auth
  BY DEF Truncate
<1>3. Handler \subseteq Process /\ Client \subseteq Process
  BY DEF Process
<1>4. \A q \in Process : q # p => proc'[q] = proc[q]
  BY <1>1 DEF Truncate
<1>5. Writing(p) /\ proc'[p].pc = "truncated" /\ proc'[p].state = proc[p].state
  BY <1>1 DEF Truncate, Writing
<1>6. \A q \in Process : Writing(q)' => q = p
  BY <1>4, <1>5 DEF Orderly, OneWriter, Writing
<1>7. \A h \in Handler : proc'[h].pc = "reported" =>
        proc[h].pc = "reported" /\ proc'[h].reported = proc[h].reported
  BY <1>3, <1>4, <1>5
<1>8. OneWriter' /\ CutWhileTruncated'
  BY <1>2, <1>6 DEF OneWriter, CutWhileTruncated
<1>9. FileHolds'
  BY <1>5 DEF FileHolds
<1>10. ClientCarries'
  BY <1>3, <1>5, <1>6, <1>7 DEF ClientCarries, Orderly
<1>11. HandlerCarries'
  BY <1>2, <1>3, <1>5, <1>6, <1>7 DEF HandlerCarries, Orderly
<1> QED BY <1>8, <1>9, <1>10, <1>11 DEF Orderly

(* The flush of p, which was alone: nobody is writing afterwards. *)
LEMMA OrderlyFlush ==
    ASSUME TypeOK, Orderly, NEW p \in Process, proc[p].pc = "truncated",
           file' = Flushed(proc[p].state), auth' = proc[p].state.auth,
           NEW new, proc' = [proc EXCEPT ![p] = new],
           new = Idle \/ new = Reported(proc[p].state.key),
           \A h \in Handler : h # p /\ proc[h].pc = "reported"
                                => proc[h].reported = proc[p].state.key
    PROVE  Orderly'
<1>1. proc \in [Process -> [pc : Where, state : State, reported : Nat]]
  BY DEF TypeOK
<1>2. file = Truncated /\ proc[p].state \in State
  BY <1>1 DEF Orderly, CutWhileTruncated
<1>3. file'.state = proc[p].state
  BY <1>2, FlushAfterCut
<1>4. Handler \subseteq Process /\ Client \subseteq Process
  BY DEF Process
<1>5. \A q \in Process : q # p => proc'[q] = proc[q]
  BY <1>1
<1>6. proc'[p] = new /\ new.pc \notin {"modified", "truncated"}
  BY <1>1, IdleFields, ReportedFields
<1>7. \A q \in Process : q # p => ~Writing(q)
  BY DEF Orderly, OneWriter, Writing
<1>8. \A q \in Process : ~Writing(q)'
  BY <1>5, <1>6, <1>7 DEF Writing
<1>9. \A h \in Handler : proc'[h].pc = "reported"
                           => proc'[h].reported = proc[p].state.key
  BY <1>4, <1>5, <1>6, IdleFields, ReportedFields
<1>10. OneWriter' /\ ClientCarries' /\ HandlerCarries'
  BY <1>4, <1>8 DEF OneWriter, ClientCarries, HandlerCarries
<1>11. CutWhileTruncated'
  BY <1>8 DEF CutWhileTruncated, Writing
<1>12. FileHolds'
  BY <1>3, <1>9 DEF FileHolds
<1> QED BY <1>10, <1>11, <1>12 DEF Orderly

(* A step that changes neither the file nor the token, after which each    *)
(* process is where it was, or idle, or has reported the key of the file   *)
(* while no handler saves one.                                             *)
LEMMA OrderlySame ==
    ASSUME TypeOK, Orderly, file' = file, auth' = auth,
           \A p \in Process :
              \/ proc'[p] = proc[p]
              \/ proc'[p] = Idle /\ proc[p].pc # "truncated"
              \/ proc'[p] = Reported(file.state.key) /\ file.state.key # 0
                   /\ proc[p].pc = "idle"
    PROVE  Orderly'
<1>1. Handler \subseteq Process /\ Client \subseteq Process
  BY DEF Process
<1>2. \A p \in Process : Writing(p)' => proc'[p] = proc[p] /\ Writing(p)
  BY IdleFields, ReportedFields DEF Writing
<1>3. \A p \in Process : proc[p].pc = "truncated" => proc'[p] = proc[p]
  BY IdleFields, ReportedFields
<1>4. \A h \in Handler : proc'[h].pc = "reported" =>
        \/ proc[h].pc = "reported" /\ proc'[h].reported = proc[h].reported
        \/ proc'[h].reported = file.state.key /\ file.state.key # 0
  BY <1>1, IdleFields, ReportedFields
<1>5. OneWriter' /\ CutWhileTruncated'
  BY <1>2 DEF Orderly, OneWriter, CutWhileTruncated, Writing
<1>6. FileHolds'
  BY <1>3, <1>4 DEF Orderly, FileHolds
<1>7. \A p \in Process : proc[p].pc = "truncated" => file.state.key = 0
  BY DEF Orderly, CutWhileTruncated, Truncated, NoState
<1>8. ClientCarries'
  <2> SUFFICES ASSUME NEW c \in Client, Writing(c)'
               PROVE  /\ proc'[c].pc = "modified" => proc'[c].state.key = file.state.key
                      /\ \A h \in Handler : proc'[h].pc = "reported"
                            => proc'[h].reported = proc'[c].state.key
    BY DEF ClientCarries
  <2>1. proc'[c] = proc[c] /\ Writing(c) /\ c \in Process
    BY <1>1, <1>2
  <2>2. /\ proc[c].pc = "modified" => proc[c].state.key = file.state.key
        /\ \A h \in Handler : proc[h].pc = "reported"
              => proc[h].reported = proc[c].state.key
    BY <2>1 DEF Orderly, ClientCarries
  <2>3. file.state.key # 0 => proc[c].pc = "modified"
    BY <1>7, <2>1 DEF Writing
  <2> QED BY <1>4, <2>1, <2>2, <2>3
<1>9. HandlerCarries'
  <2> SUFFICES ASSUME NEW g \in Handler, Writing(g)'
               PROVE  /\ proc'[g].pc = "modified" => file.state.key = 0
                      /\ proc'[g].state.auth = auth
                      /\ \A h \in Handler : proc'[h].pc # "reported"
    BY DEF HandlerCarries
  <2>1. proc'[g] = proc[g] /\ Writing(g) /\ g \in Process
    BY <1>1, <1>2
  <2>2. /\ proc[g].pc = "modified" => file.state.key = 0
        /\ proc[g].state.auth = auth
        /\ \A h \in Handler : proc[h].pc # "reported"
    BY <2>1 DEF Orderly, HandlerCarries
  <2>3. file.state.key = 0
    BY <1>7, <2>1, <2>2 DEF Writing
  <2> QED BY <1>4, <2>1, <2>2, <2>3
<1> QED BY <1>5, <1>6, <1>8, <1>9 DEF Orderly

(* A daemon that dies cuts an update short if the file is just truncated. *)
LEMMA OrderlyDie ==
    ASSUME TypeOK, Orderly, Die, clean'
    PROVE  Orderly'
<1>1. file # Truncated /\ file' = file /\ auth' = auth
  BY DEF Die
<1>2. \A p \in Process : proc[p].pc # "truncated" /\ proc'[p] = Idle
  BY <1>1 DEF Die, Orderly, CutWhileTruncated
<1> QED BY <1>1, <1>2, OrderlySame

LEMMA OrderlyNext ==
    ASSUME TypeOK, SavesSome, clean => Orderly, [Next]_vars, clean'
    PROVE  Orderly'
<1>0. /\ Handler \subseteq Process /\ Client \subseteq Process
      /\ \A p \in Process : ~(p \in Client /\ p \in Handler)
  BY StateAssumption DEF Process
<1>1. /\ proc \in [Process -> [pc : Where, state : State, reported : Nat]]
      /\ file.state \in State
  BY DEF TypeOK
<1>2. clean /\ Orderly
  <2>1. clean
    BY DEF Next, Login, LoginFlush, ReportKey, GenerateKey, KeyFlush, Configure,
           Truncate, Die, Modify, vars
  <2> QED BY <2>1
<1>3. ASSUME NEW c \in Client, NEW token \in Token \cup {Nil}, Login(c, token)
      PROVE  Orderly'
  <2> DEFINE s == WithToken(GetRVpnState, token)
  <2>1. s \in State /\ s.key = file.state.key
    BY <1>1, WithTokenType DEF GetRVpnState
  <2>2. Modify(c, s) /\ ~UnderWay
    BY <1>3 DEF Login, Modify
  <2> HIDE DEF s
  <2> QED BY <1>0, <1>2, <2>1, <2>2, OrderlyModify
<1>4. ASSUME NEW c \in Client, LoginFlush(c)
      PROVE  Orderly'
  <2>1. \A h \in Handler : proc[h].pc = "reported"
                             => proc[h].reported = proc[c].state.key
    BY <1>2, <1>4 DEF LoginFlush, Orderly, ClientCarries, Writing
  <2> QED BY <1>0, <1>2, <1>4, <2>1, OrderlyFlush DEF LoginFlush
<1>5. ASSUME NEW h \in Handler, ReportKey(h)
      PROVE  Orderly'
  <2>1. \A p \in Process :
          \/ proc'[p] = proc[p]
          \/ proc'[p] = Reported(file.state.key) /\ file.state.key # 0
               /\ proc[p].pc = "idle"
    BY <1>1, <1>5 DEF ReportKey, GetRVpnState
  <2>2. file' = file /\ auth' = auth
    BY <1>5 DEF ReportKey
  <2> QED BY <1>2, <2>1, <2>2, OrderlySame
<1>6. ASSUME NEW h \in Handler, GenerateKey(h)
      PROVE  Orderly'
  <2> DEFINE s == WithKey(GetRVpnState, keys')
  <2>1. keys' \in Nat
    BY <1>6 DEF GenerateKey, TypeOK
  <2>2. s \in State /\ s.auth = file.state.auth
    BY <1>1, <2>1, WithKeyType DEF GetRVpnState
  <2>3. Modify(h, s) /\ ~UnderWay /\ file.state.key = 0
    BY <1>6 DEF GenerateKey, Modify, GetRVpnState
  <2> HIDE DEF s
  <2> QED BY <1>0, <1>2, <2>2, <2>3, OrderlyModify
<1>7. ASSUME NEW h \in Handler, KeyFlush(h)
      PROVE  Orderly'
  <2>1. /\ proc[h].state.auth = auth
        /\ \A g \in Handler : proc[g].pc # "reported"
    BY <1>2, <1>7 DEF KeyFlush, Orderly, HandlerCarries, Writing
  <2> QED BY <1>0, <1>2, <1>7, <2>1, OrderlyFlush DEF KeyFlush
<1>8. CASE Die
  BY <1>2, <1>8, OrderlyDie
<1>9. ASSUME NEW h \in Handler, Configure(h)
      PROVE  Orderly'
  <2>1. CASE proc' = [proc EXCEPT ![h] = Idle] /\ UNCHANGED <<file, keys, auth, clean>>
    <3>1. \A p \in Process : proc'[p] = proc[p] \/ (proc'[p] = Idle /\ proc[p].pc # "truncated")
      <4>1. proc[h].pc # "truncated"
        BY <1>9 DEF Configure
      <4>2. \A p \in Process : proc'[p] = IF p = h THEN Idle ELSE proc[p]
        BY <1>1, <2>1
      <4> QED BY <4>1, <4>2
    <3> QED BY <1>2, <2>1, <3>1, OrderlySame
  <2> QED BY <1>8, <1>9, <2>1 DEF Configure
<1>10. ASSUME NEW p \in Process, Truncate(p)
       PROVE  Orderly'
  BY <1>2, <1>10, OrderlyTruncate
<1>11. CASE UNCHANGED vars
  BY <1>2, <1>11, OrderlySame DEF vars
<1> QED BY <1>3, <1>4, <1>5, <1>6, <1>7, <1>8, <1>9, <1>10, <1>11 DEF Next

-----------------------------------------------------------------------------
(* The theorems.                                                           *)

LEMMA InvInit == Init => IInv
<1> SUFFICES ASSUME Init PROVE IInv
  OBVIOUS
<1>1. \A p \in Process : proc[p] = Idle
  BY DEF Init
<1>2. Handler \subseteq Process /\ Client \subseteq Process
  BY DEF Process
<1>3. \A p \in Process : proc[p].pc = "idle"
  BY <1>1 DEF Idle
<1>4. SavesSome
  BY <1>2, <1>3 DEF SavesSome, Writing
<1>5. OneWriter /\ CutWhileTruncated /\ ClientCarries /\ HandlerCarries
  BY <1>2, <1>3 DEF OneWriter, CutWhileTruncated, ClientCarries, HandlerCarries, Writing
<1>6. FileHolds
  BY <1>2, <1>3 DEF FileHolds, Init, NoState
<1> QED BY <1>4, <1>5, <1>6, TypeInit DEF IInv, Orderly

(* The state of the model stays well formed: what is in the file, and what *)
(* each process is going to write, is a token or none and a key.           *)
THEOREM TypeCorrect == Spec => []TypeOK
<1>1. TypeOK /\ [Next]_vars => TypeOK'
  BY TypeNext
<1> QED BY <1>1, TypeInit, PTL DEF Spec

(* The inductive invariant. *)
THEOREM UpdatesOrderly == Spec => []IInv
<1>1. IInv /\ [Next]_vars => IInv'
  BY TypeNext, SavesNext, OrderlyNext DEF IInv
<1> QED BY <1>1, InvInit, PTL DEF Spec

(* For any number of clients and connections, and any lengths of tokens    *)
(* and keys: if no two updates overlapped and none was cut short, then the *)
(* file holds the token of the last login or logout whenever no update is  *)
(* under way (state.go, SetRVpnState).                                     *)
THEOREM TokenIsKept == Spec => []TokenKept
<1>1. IInv => TokenKept
  BY DEF IInv, Orderly, FileHolds, TokenKept, UnderWay, GetRVpnState
<1> QED BY <1>1, UpdatesOrderly, PTL

(* And the key that a connection reported to the control plane is the one  *)
(* that connect_server and serve_vpn find (daemon.go, Handle).             *)
THEOREM ReportedKeyIsKept == Spec => []ReportedKeyKept
<1>1. IInv => ReportedKeyKept
  BY DEF IInv, Orderly, FileHolds, ReportedKeyKept, UnderWay, GetRVpnState
<1> QED BY <1>1, UpdatesOrderly, PTL
=============================================================================
