------------------------ MODULE InstanceRegistryProofs ------------------------
(* Proofs about InstanceRegistry, for every number of instances and callers,  *)
(* all times to live and any combination of faults.                           *)
EXTENDS InstanceRegistry, TLAPS

-----------------------------------------------------------------------------
(* Types *)

Statuses == {"active", "offline"}

TypeOK ==
    /\ clock \in Nat
    /\ info \in [Instances -> [status : Statuses, heartbeat : Nat, expires : Nat]]
    /\ call \in [Callers -> Methods \cup {"none"}]
    /\ pc \in [Callers -> {"idle", "set", "exists", "expire", "get", "setoffline", "scan", "values"}]
    /\ arg \in [Callers -> Instances \cup {Nobody}]
    /\ data \in [Callers -> [status : Statuses, heartbeat : Nat]]
    /\ started \in [Callers -> Nat]
    /\ scans \in [Callers -> Nat]
    /\ left \in [Callers -> SUBSET Instances]
    /\ page \in [Callers -> SUBSET Instances]
    /\ found \in [Callers -> SUBSET Instances]
    /\ returned \in [Callers -> {"none", "ok", "error"}]
    /\ calls \in [Callers -> Nat]
    /\ retired \in [Instances -> BOOLEAN]

\* What a caller at `at' is doing: it is in method m for instance i, with the record d.
Doing(at, m, i, d) ==
    /\ at \in {"set", "exists", "expire"} => m \in {"register", "heartbeat"} /\ i \in Instances
    /\ at \in {"get", "setoffline"} => m = "offline" /\ i \in Instances
    /\ at \in {"scan", "values"} => m = "list"
    /\ at = "setoffline" => d.status = "offline"

ControlInv == \A c \in Callers : Doing(pc[c], call[c], arg[c], data[c])

\* Before the first call, with any instances registered, everything has its type.
LEMMA TypeInit == Init => TypeOK /\ ControlInv
<1> SUFFICES ASSUME Init PROVE TypeOK /\ ControlInv
  OBVIOUS
<1> USE RegistryAssumption
<1>1. info \in [Instances -> [status : Statuses, heartbeat : Nat, expires : Nat]]
  BY DEF Init, Statuses
<1>2. retired \in [Instances -> BOOLEAN]
  BY Zenon DEF Init
<1>3. data \in [Callers -> [status : Statuses, heartbeat : Nat]]
  BY DEF Init, Blank, Statuses
<1> QED BY <1>1, <1>2, <1>3 DEF Init, TypeOK, ControlInv, Doing

\* What Begin leaves behind for its caller, and for the others.
LEMMA BeginTypes ==
    ASSUME TypeOK, NEW c \in Callers, NEW m \in Methods, NEW i \in Instances \cup {Nobody},
           NEW at \in {"set", "exists", "get", "scan"}, Begin(c, m, i, at)
    PROVE  /\ clock' \in Nat /\ UNCHANGED <<clock, info, scans, page>>
           /\ info' \in [Instances -> [status : Statuses, heartbeat : Nat, expires : Nat]]
           /\ call' \in [Callers -> Methods \cup {"none"}]
           /\ pc' \in [Callers -> {"idle", "set", "exists", "expire", "get", "setoffline", "scan", "values"}]
           /\ arg' \in [Callers -> Instances \cup {Nobody}]
           /\ started' \in [Callers -> Nat]
           /\ scans' \in [Callers -> Nat]
           /\ page' \in [Callers -> SUBSET Instances]
           /\ found' \in [Callers -> SUBSET Instances]
           /\ returned' \in [Callers -> {"none", "ok", "error"}]
           /\ calls' \in [Callers -> Nat]
           /\ pc'[c] = at /\ call'[c] = m /\ arg'[c] = i
           /\ \A d \in Callers \ {c} : pc'[d] = pc[d] /\ call'[d] = call[d] /\ arg'[d] = arg[d]
  BY DEF Begin, TypeOK

\* What Return leaves behind; a caller that has returned is doing nothing.
LEMMA ReturnTypes ==
    ASSUME TypeOK, NEW c \in Callers, NEW how \in {"ok", "error"}, Return(c, how), arg[c] \in Instances \/ call[c] # "offline"
    PROVE  /\ clock' \in Nat /\ UNCHANGED <<clock, call, calls>>
           /\ call' \in [Callers -> Methods \cup {"none"}]
           /\ pc' \in [Callers -> {"idle", "set", "exists", "expire", "get", "setoffline", "scan", "values"}]
           /\ arg' \in [Callers -> Instances \cup {Nobody}]
           /\ data' \in [Callers -> [status : Statuses, heartbeat : Nat]]
           /\ started' \in [Callers -> Nat]
           /\ scans' \in [Callers -> Nat]
           /\ returned' \in [Callers -> {"none", "ok", "error"}]
           /\ calls' \in [Callers -> Nat]
           /\ retired' \in [Instances -> BOOLEAN]
           /\ pc'[c] = "idle" /\ returned'[c] = how
           /\ \A d \in Callers \ {c} : /\ pc'[d] = pc[d] /\ arg'[d] = arg[d] /\ data'[d] = data[d]
                                       /\ started'[d] = started[d] /\ returned'[d] = returned[d]
<1>1. Blank \in [status : Statuses, heartbeat : Nat]
  BY DEF Blank, Statuses
<1>2. retired' \in [Instances -> BOOLEAN]
  <2>1. retired \in [Instances -> BOOLEAN]
    BY DEF TypeOK
  <2>2. retired' = retired \/ (retired' = [retired EXCEPT ![arg[c]] = TRUE] /\ arg[c] \in Instances)
    BY DEF Return, Retires
  <2>3. ASSUME NEW i \in Instances PROVE [retired EXCEPT ![i] = TRUE] \in [Instances -> BOOLEAN]
    BY <2>1
  <2> QED BY <2>1, <2>2, <2>3
<1>3. data' \in [Callers -> [status : Statuses, heartbeat : Nat]]
      /\ \A d \in Callers \ {c} : data'[d] = data[d]
  BY <1>1 DEF Return, TypeOK
<1>4. /\ clock' \in Nat /\ UNCHANGED <<clock, call, calls>>
      /\ call' \in [Callers -> Methods \cup {"none"}] /\ calls' \in [Callers -> Nat]
  BY DEF Return, TypeOK
<1>5. /\ pc' \in [Callers -> {"idle", "set", "exists", "expire", "get", "setoffline", "scan", "values"}]
      /\ arg' \in [Callers -> Instances \cup {Nobody}] /\ started' \in [Callers -> Nat]
      /\ scans' \in [Callers -> Nat] /\ returned' \in [Callers -> {"none", "ok", "error"}]
  BY DEF Return, TypeOK
<1>6. /\ pc'[c] = "idle" /\ returned'[c] = how
      /\ \A d \in Callers \ {c} : /\ pc'[d] = pc[d] /\ arg'[d] = arg[d]
                                  /\ started'[d] = started[d] /\ returned'[d] = returned[d]
  BY DEF Return, TypeOK
<1> QED BY <1>2, <1>3, <1>4, <1>5, <1>6

\* A command that writes the record of the caller's instance keeps the types.
LEMMA StoreTypes ==
    ASSUME TypeOK, NEW c \in Callers, NEW ttl \in Nat, Store(c, ttl)
    PROVE  info' \in [Instances -> [status : Statuses, heartbeat : Nat, expires : Nat]]
<1>1. data[c].status \in Statuses /\ data[c].heartbeat \in Nat /\ clock + ttl \in Nat
  BY DEF TypeOK
<1> DEFINE r == [status |-> data[c].status, heartbeat |-> data[c].heartbeat, expires |-> clock + ttl]
<1>2. r \in [status : Statuses, heartbeat : Nat, expires : Nat]
  BY <1>1
<1>3. info' = [info EXCEPT ![arg[c]] = r] /\ info \in [Instances -> [status : Statuses, heartbeat : Nat, expires : Nat]]
  BY DEF Store, Stored, TypeOK
<1> HIDE DEF r
<1> QED BY <1>2, <1>3

\* So does one that renews its time to live.
LEMMA RenewTypes ==
    ASSUME TypeOK, NEW c \in Callers, Renew(c), arg[c] \in Instances
    PROVE  info' \in [Instances -> [status : Statuses, heartbeat : Nat, expires : Nat]]
<1> DEFINE r == [info[arg[c]] EXCEPT !.expires = clock + InstanceTTL]
<1>1. info' = info \/ info' = [info EXCEPT ![arg[c]] = r]
  BY DEF Renew
<1>2. clock + InstanceTTL \in Nat
  BY RegistryAssumption DEF TypeOK
<1>3. r \in [status : Statuses, heartbeat : Nat, expires : Nat]
  <2>1. info[arg[c]] \in [status : Statuses, heartbeat : Nat, expires : Nat]
    BY DEF TypeOK
  <2> QED BY <1>2, <2>1
<1> HIDE DEF r
<1> QED BY <1>1, <1>3 DEF TypeOK

\* The other callers go on with what they are doing.
LEMMA ControlFromOne ==
    ASSUME ControlInv, NEW c \in Callers, Doing(pc'[c], call'[c], arg'[c], data'[c]),
           \A d \in Callers \ {c} : /\ pc'[d] = pc[d] /\ call'[d] = call[d]
                                    /\ arg'[d] = arg[d] /\ data'[d] = data[d]
    PROVE  ControlInv'
  BY DEF ControlInv

\* A method that returns after a command: what else it leaves behind has its type.
LEMMA ReturnKeeps ==
    ASSUME TypeOK, ControlInv, NEW c \in Callers, NEW how \in {"ok", "error"}, Return(c, how), pc[c] # "idle",
           info' \in [Instances -> [status : Statuses, heartbeat : Nat, expires : Nat]],
           left' \in [Callers -> SUBSET Instances], page' \in [Callers -> SUBSET Instances],
           found' \in [Callers -> SUBSET Instances]
    PROVE  TypeOK' /\ ControlInv'
<1>1. arg[c] \in Instances \/ call[c] # "offline"
  BY DEF ControlInv, Doing, TypeOK
<1>2. TypeOK'
  BY <1>1, ReturnTypes DEF TypeOK
<1>3. /\ pc'[c] = "idle" /\ call' = call
      /\ \A d \in Callers \ {c} : pc'[d] = pc[d] /\ arg'[d] = arg[d] /\ data'[d] = data[d]
  BY <1>1, ReturnTypes
<1>4. ControlInv'
  BY <1>3, ControlFromOne DEF Doing
<1> QED BY <1>2, <1>4

\* NextPage returns or goes back to scanning.
LEMMA NextPageKeeps ==
    ASSUME TypeOK, ControlInv, NEW c \in Callers, NEW n \in Nat, NextPage(c, n), pc[c] \in {"scan", "values"},
           info' = info, left' \in [Callers -> SUBSET Instances], page' \in [Callers -> SUBSET Instances],
           found' \in [Callers -> SUBSET Instances]
    PROVE  TypeOK' /\ ControlInv'
<1>1. CASE left'[c] = {}
  <2>1. Return(c, "ok") /\ info' \in [Instances -> [status : Statuses, heartbeat : Nat, expires : Nat]]
    BY <1>1 DEF NextPage, TypeOK
  <2> QED BY <2>1, ReturnKeeps
<1>2. CASE left'[c] # {}
  <2>1. /\ pc' = [pc EXCEPT ![c] = "scan"] /\ scans' = [scans EXCEPT ![c] = n]
        /\ UNCHANGED <<clock, call, arg, started, data, returned, calls, retired>>
    BY <1>2 DEF NextPage
  <2>2. TypeOK'
    BY <2>1 DEF TypeOK
  <2>3. call[c] = "list"
    BY DEF ControlInv, Doing
  <2>4. ControlInv'
    BY <2>1, <2>3, ControlFromOne DEF Doing, TypeOK
  <2> QED BY <2>2, <2>4
<1> QED BY <1>1, <1>2

\* Every command and every return keeps the types, and callers do what their method says.
LEMMA TypeStep == TypeOK /\ ControlInv /\ [Next]_vars => TypeOK' /\ ControlInv'
<1> SUFFICES ASSUME TypeOK, ControlInv, [Next]_vars PROVE TypeOK' /\ ControlInv'
  OBVIOUS
<1> USE RegistryAssumption DEF local
<1>0. Fresh \in [status : Statuses, heartbeat : Nat]
  BY DEF Fresh, Statuses, TypeOK
<1>1. ASSUME NEW c \in Callers, NEW i \in Instances, RegisterInstance(c, i) PROVE TypeOK' /\ ControlInv'
  <2>1. Begin(c, "register", i, "set") /\ data' = [data EXCEPT ![c] = Fresh] /\ left' = left
        /\ retired' = [retired EXCEPT ![i] = FALSE]
    BY <1>1 DEF RegisterInstance
  <2>2. retired' \in [Instances -> BOOLEAN]
    BY <2>1 DEF TypeOK
  <2>3. TypeOK'
    BY <1>0, <2>1, <2>2, BeginTypes DEF TypeOK, Methods
  <2>4. ControlInv'
    <3>1. /\ pc'[c] = "set" /\ call'[c] = "register" /\ arg'[c] = i
          /\ \A d \in Callers \ {c} : pc'[d] = pc[d] /\ call'[d] = call[d] /\ arg'[d] = arg[d]
      BY <2>1, BeginTypes DEF Methods
    <3>2. \A d \in Callers \ {c} : data'[d] = data[d]
      BY <2>1 DEF TypeOK
    <3> QED BY <3>1, <3>2, ControlFromOne DEF Doing
  <2> QED BY <2>3, <2>4
<1>2. ASSUME NEW c \in Callers, NEW i \in Instances, UpdateHeartbeat(c, i) PROVE TypeOK' /\ ControlInv'
  <2>1. Begin(c, "heartbeat", i, "exists") /\ data' = data /\ left' = left
        /\ retired' = [retired EXCEPT ![i] = FALSE]
    BY <1>2 DEF UpdateHeartbeat
  <2>2. retired' \in [Instances -> BOOLEAN]
    BY <2>1 DEF TypeOK
  <2>3. TypeOK'
    BY <2>1, <2>2, BeginTypes DEF TypeOK, Methods
  <2>4. ControlInv'
    BY <2>1, BeginTypes, ControlFromOne DEF Doing, Methods
  <2> QED BY <2>3, <2>4
<1>3. ASSUME NEW c \in Callers, NEW i \in Instances, MarkInstanceOffline(c, i) PROVE TypeOK' /\ ControlInv'
  <2>1. Begin(c, "offline", i, "get") /\ data' = data /\ left' = left /\ retired' = retired
    BY <1>3 DEF MarkInstanceOffline
  <2>3. TypeOK'
    BY <2>1, BeginTypes DEF TypeOK, Methods
  <2>4. ControlInv'
    BY <2>1, BeginTypes, ControlFromOne DEF Doing, Methods
  <2> QED BY <2>3, <2>4
<1>4. ASSUME NEW c \in Callers, GetActiveInstances(c) PROVE TypeOK' /\ ControlInv'
  <2>1. Begin(c, "list", Nobody, "scan") /\ data' = data /\ left' = [left EXCEPT ![c] = Instances] /\ retired' = retired
    BY <1>4 DEF GetActiveInstances
  <2>2. left' \in [Callers -> SUBSET Instances] /\ "list" \in Methods
    BY <2>1 DEF TypeOK, Methods
  <2>3. TypeOK'
    BY <2>1, <2>2, BeginTypes DEF TypeOK
  <2>4. ControlInv'
    <3>1. /\ pc'[c] = "scan" /\ call'[c] = "list"
          /\ \A d \in Callers \ {c} : pc'[d] = pc[d] /\ call'[d] = call[d] /\ arg'[d] = arg[d] /\ data'[d] = data[d]
      BY <2>1, <2>2, BeginTypes
    <3>2. Doing(pc'[c], call'[c], arg'[c], data'[c])
      BY <3>1 DEF Doing
    <3> QED BY <3>1, <3>2, ControlFromOne
  <2> QED BY <2>3, <2>4
<1>5. ASSUME NEW c \in Callers, CommandFails(c) PROVE TypeOK' /\ ControlInv'
  BY <1>5, ReturnKeeps DEF CommandFails, TypeOK
<1>6. ASSUME NEW c \in Callers, SetInstance(c) \/ SetOffline(c) PROVE TypeOK' /\ ControlInv'
  <2>1. PICK how \in Outcome : Return(c, how)
    BY <1>6 DEF SetInstance, SetOffline
  <2>2. how \in {"ok", "error"}
    BY DEF Outcome
  <2>3. PICK ttl \in Nat : Store(c, ttl)
    BY <1>6 DEF SetInstance, SetOffline
  <2>4. pc[c] # "idle" /\ UNCHANGED <<left, page, found>>
    BY <1>6 DEF SetInstance, SetOffline
  <2> QED BY <2>1, <2>2, <2>3, <2>4, StoreTypes, ReturnKeeps DEF TypeOK
<1>7. ASSUME NEW c \in Callers, ExistsNo(c) \/ ExistsYes(c) PROVE TypeOK' /\ ControlInv'
  <2>1. /\ pc[c] = "exists"
        /\ pc' = [pc EXCEPT ![c] = "set"] \/ pc' = [pc EXCEPT ![c] = "expire"]
        /\ data' = data \/ data' = [data EXCEPT ![c] = Fresh]
        /\ UNCHANGED <<clock, info, call, arg, started, scans, left, page, found, returned, calls, retired>>
    BY <1>7 DEF ExistsNo, ExistsYes
  <2>2. TypeOK'
    <3>1. data' \in [Callers -> [status : Statuses, heartbeat : Nat]]
      BY <1>0, <2>1 DEF TypeOK
    <3>2. pc' \in [Callers -> {"idle", "set", "exists", "expire", "get", "setoffline", "scan", "values"}]
      BY <2>1 DEF TypeOK
    <3> QED BY <2>1, <3>1, <3>2 DEF TypeOK
  <2>3. ControlInv'
    <3>1. /\ pc'[c] \in {"set", "expire"} /\ call[c] \in {"register", "heartbeat"} /\ arg[c] \in Instances
          /\ \A d \in Callers \ {c} : pc'[d] = pc[d] /\ data'[d] = data[d]
      BY <2>1 DEF ControlInv, Doing, TypeOK
    <3> QED BY <2>1, <3>1, ControlFromOne DEF Doing
  <2> QED BY <2>2, <2>3
<1>8. ASSUME NEW c \in Callers, Expire(c) PROVE TypeOK' /\ ControlInv'
  <2>1. PICK how \in Outcome : Return(c, how)
    BY <1>8 DEF Expire
  <2>2. how \in {"ok", "error"}
    BY DEF Outcome
  <2>3. info' \in [Instances -> [status : Statuses, heartbeat : Nat, expires : Nat]]
    <3>1. arg[c] \in Instances /\ Renew(c)
      BY <1>8 DEF Expire, ControlInv, Doing, TypeOK
    <3> QED BY <3>1, RenewTypes
  <2>4. pc[c] # "idle" /\ UNCHANGED <<left, page, found>>
    BY <1>8 DEF Expire
  <2> QED BY <2>1, <2>2, <2>3, <2>4, ReturnKeeps DEF TypeOK
<1>9. ASSUME NEW c \in Callers, GetNil(c) PROVE TypeOK' /\ ControlInv'
  BY <1>9, ReturnKeeps DEF GetNil, TypeOK
<1>10. ASSUME NEW c \in Callers, GetInfo(c) PROVE TypeOK' /\ ControlInv'
  <2>1. /\ pc[c] = "get" /\ pc' = [pc EXCEPT ![c] = "setoffline"] /\ data' = [data EXCEPT ![c] = Offlined(c)]
        /\ UNCHANGED <<clock, info, call, arg, started, scans, left, page, found, returned, calls, retired>>
    BY <1>10 DEF GetInfo
  <2>2. Offlined(c) \in [status : Statuses, heartbeat : Nat] /\ Offlined(c).status = "offline"
    <3>1. clock \in Nat
      BY DEF TypeOK
    <3> QED BY <3>1 DEF Offlined, Statuses
  <2>3. TypeOK'
    BY <2>1, <2>2 DEF TypeOK
  <2>4. ControlInv'
    BY <2>1, <2>2, ControlFromOne DEF ControlInv, Doing, TypeOK
  <2> QED BY <2>3, <2>4
<1>11. ASSUME NEW c \in Callers, NEW keys \in SUBSET left[c], Scan(c, keys) PROVE TypeOK' /\ ControlInv'
  <2>1. /\ pc[c] = "scan" /\ info' = info /\ found' = found /\ left' = [left EXCEPT ![c] = @ \ keys]
        /\ page' = [page EXCEPT ![c] = {i \in keys : Exists(i)}]
    BY <1>11 DEF Scan
  <2>2. /\ left' \in [Callers -> SUBSET Instances] /\ page' \in [Callers -> SUBSET Instances]
        /\ found' \in [Callers -> SUBSET Instances]
    BY <2>1 DEF TypeOK
  <2>3. CASE page'[c] = {}
    <3>1. NextPage(c, scans[c] + 1) /\ scans[c] + 1 \in Nat
      BY <1>11, <2>3 DEF Scan, TypeOK
    <3> QED BY <2>1, <2>2, <3>1, NextPageKeeps
  <2>4. CASE page'[c] # {}
    <3>1. /\ pc' = [pc EXCEPT ![c] = "values"] /\ scans' = [scans EXCEPT ![c] = @ + 1]
          /\ UNCHANGED <<clock, call, arg, started, data, returned, calls, retired>>
      BY <1>11, <2>4 DEF Scan
    <3>2. TypeOK'
      BY <2>1, <2>2, <3>1 DEF TypeOK
    <3>3. ControlInv'
      BY <2>1, <3>1, ControlFromOne DEF ControlInv, Doing, TypeOK
    <3> QED BY <3>2, <3>3
  <2> QED BY <2>3, <2>4
<1>12. ASSUME NEW c \in Callers, TooManyScans(c) PROVE TypeOK' /\ ControlInv'
  BY <1>12, ReturnKeeps DEF TooManyScans, TypeOK
<1>13. ASSUME NEW c \in Callers, ReadPage(c) PROVE TypeOK' /\ ControlInv'
  <2>1. /\ pc[c] = "values" /\ info' = info /\ left' \in [Callers -> SUBSET Instances]
        /\ page' \in [Callers -> SUBSET Instances] /\ found' \in [Callers -> SUBSET Instances]
        /\ NextPage(c, scans[c]) /\ scans[c] \in Nat
    BY <1>13 DEF ReadPage, TypeOK
  <2> QED BY <2>1, NextPageKeeps
<1>14. ASSUME Tick PROVE TypeOK' /\ ControlInv'
  BY <1>14 DEF Tick, TypeOK, ControlInv
<1>15. ASSUME UNCHANGED vars PROVE TypeOK' /\ ControlInv'
  BY <1>15 DEF vars, TypeOK, ControlInv
<1>16. ASSUME NEW c \in Callers, Repeated(c) PROVE TypeOK' /\ ControlInv'
  <2>1. UNCHANGED <<clock, call, pc, arg, started, local, returned, calls, retired>>
    BY <1>16 DEF Repeated
  <2>2. info' \in [Instances -> [status : Statuses, heartbeat : Nat, expires : Nat]]
    <3>1. arg[c] \in Instances /\ (Renew(c) \/ Store(c, InstanceTTL) \/ Store(c, OfflineTTL))
      BY <1>16 DEF Repeated, ControlInv, Doing
    <3> QED BY <3>1, RenewTypes, StoreTypes
  <2> QED BY <2>1, <2>2 DEF TypeOK, ControlInv
<1> QED
  BY <1>1, <1>2, <1>3, <1>4, <1>5, <1>6, <1>7, <1>8, <1>9, <1>10, <1>11, <1>12, <1>13, <1>14, <1>15, <1>16
     DEF Next, Step, Request

-----------------------------------------------------------------------------
(* Retired instances *)

\* The record of instance i in inf says that it is active, and its key has not expired.
Alive(inf, now, i) == now < inf[i].expires /\ inf[i].status = "active"

\* A caller at `at' of method m for a may still make instance i active.
Reviving(at, m, a, i) == at # "idle" /\ m \in {"register", "heartbeat"} /\ a = i

\* Nobody is about to make a retired instance active.
RetireInv ==
    \A i \in Instances : retired[i] =>
        /\ ~Alive(info, clock, i)
        /\ \A d \in Callers : ~Reviving(pc[d], call[d], arg[d], i)

\* A call that goes on without writing changes nothing for retired instances.
LEMMA RetireGoesOn ==
    ASSUME TypeOK, RetireInv, NEW c \in Callers, pc[c] # "idle", UNCHANGED <<clock, info, call, arg, retired>>,
           \A d \in Callers \ {c} : pc'[d] = pc[d]
    PROVE  RetireInv'
  BY DEF RetireInv, Reviving

\* A call that returns retires its instance only when nobody can revive it any more.
LEMMA RetireReturns ==
    ASSUME TypeOK, ControlInv, RetireInv, NEW c \in Callers, NEW how \in {"ok", "error"}, Return(c, how),
           pc[c] # "idle",
           \A i \in Instances : retired[i] => ~Alive(info', clock, i),
           how = "ok" /\ call[c] = "offline" => ~Alive(info', clock, arg[c])
    PROVE  RetireInv'
<1>1. /\ UNCHANGED <<clock, call>> /\ pc'[c] = "idle"
      /\ \A d \in Callers \ {c} : pc'[d] = pc[d] /\ arg'[d] = arg[d]
  BY DEF Return, TypeOK
<1>2. ASSUME NEW i \in Instances, retired'[i] PROVE retired[i] \/ (i = arg[c] /\ how = "ok" /\ Retires(c))
  BY <1>2 DEF Return, TypeOK
<1>3. ASSUME NEW i \in Instances, retired'[i] PROVE ~Alive(info', clock', i)
  BY <1>1, <1>2, <1>3 DEF Retires
<1>4. ASSUME NEW i \in Instances, retired'[i], NEW d \in Callers PROVE ~Reviving(pc'[d], call'[d], arg'[d], i)
  <2>1. CASE d = c
    BY <1>1, <2>1 DEF Reviving
  <2>2. CASE d # c
    <3>1. pc'[d] = pc[d] /\ arg'[d] = arg[d] /\ call'[d] = call[d]
      BY <1>1, <2>2
    <3>2. CASE retired[i]
      BY <3>1, <3>2 DEF RetireInv
    <3>3. CASE i = arg[c] /\ Retires(c)
      BY <3>1, <3>3 DEF Retires, Reviving
    <3> QED BY <1>2, <1>4, <3>2, <3>3
  <2> QED BY <2>1, <2>2
<1> QED BY <1>3, <1>4 DEF RetireInv

\* Listings go on or return, and retire nobody.
LEMMA RetireNextPage ==
    ASSUME TypeOK, ControlInv, RetireInv, NEW c \in Callers, NEW n, NextPage(c, n),
           pc[c] \in {"scan", "values"}, info' = info
    PROVE  RetireInv'
<1>1. CASE left'[c] = {}
  <2>1. Return(c, "ok") /\ call[c] = "list" /\ pc[c] # "idle"
    BY <1>1 DEF NextPage, ControlInv, Doing
  <2>2. \A i \in Instances : retired[i] => ~Alive(info', clock, i)
    BY DEF RetireInv
  <2> QED BY <2>1, <2>2, RetireReturns
<1>2. CASE left'[c] # {}
  BY <1>2, RetireGoesOn DEF NextPage, TypeOK
<1> QED BY <1>1, <1>2

\* Each command keeps retired instances inactive.
LEMMA RetireStep == TypeOK /\ ControlInv /\ RetireInv /\ [Next]_vars => RetireInv'
<1> SUFFICES ASSUME TypeOK, ControlInv, RetireInv, [Next]_vars PROVE RetireInv'
  OBVIOUS
<1> USE RegistryAssumption DEF local
<1>0. \A i \in Instances : retired[i] => ~Alive(info, clock, i)
  BY DEF RetireInv
<1>1. ASSUME NEW c \in Callers, NEW i \in Instances, RegisterInstance(c, i) \/ UpdateHeartbeat(c, i) PROVE RetireInv'
  <2>1. /\ UNCHANGED <<clock, info>> /\ arg'[c] = i
        /\ \A d \in Callers \ {c} : pc'[d] = pc[d] /\ call'[d] = call[d] /\ arg'[d] = arg[d]
    BY <1>1 DEF RegisterInstance, UpdateHeartbeat, Begin, TypeOK
  <2>2. ~retired'[i] /\ \A j \in Instances : retired'[j] => retired[j]
    BY <1>1 DEF RegisterInstance, UpdateHeartbeat, TypeOK
  <2> QED BY <2>1, <2>2 DEF RetireInv, Reviving
<1>2. ASSUME NEW c \in Callers, GetActiveInstances(c) \/ \E i \in Instances : MarkInstanceOffline(c, i)
      PROVE  RetireInv'
  <2>1. /\ UNCHANGED <<clock, info, retired>> /\ call'[c] \in {"offline", "list"}
        /\ \A d \in Callers \ {c} : pc'[d] = pc[d] /\ call'[d] = call[d] /\ arg'[d] = arg[d]
    BY <1>2 DEF GetActiveInstances, MarkInstanceOffline, Begin, TypeOK
  <2> QED BY <2>1 DEF RetireInv, Reviving
<1>3. ASSUME NEW c \in Callers, CommandFails(c) \/ TooManyScans(c) PROVE RetireInv'
  BY <1>0, <1>3, RetireReturns DEF CommandFails, TooManyScans
<1>4. ASSUME NEW c \in Callers, SetInstance(c) \/ Expire(c) PROVE RetireInv'
  <2>1. PICK how \in Outcome : Return(c, how)
    BY <1>4 DEF SetInstance, Expire
  <2>2. how \in {"ok", "error"} /\ pc[c] # "idle" /\ call[c] \in {"register", "heartbeat"}
    BY <1>4 DEF Outcome, SetInstance, Expire, ControlInv, Doing
  <2>3. \A i \in Instances : i # arg[c] => info'[i] = info[i]
    BY <1>4 DEF SetInstance, Expire, Store, Renew, TypeOK
  <2>4. \A i \in Instances : retired[i] => i # arg[c]
    BY <2>2 DEF RetireInv, Reviving
  <2>5. \A i \in Instances : retired[i] => ~Alive(info', clock, i)
    BY <1>0, <2>3, <2>4 DEF Alive
  <2> QED BY <2>1, <2>2, <2>5, RetireReturns
<1>5. ASSUME NEW c \in Callers, SetOffline(c) PROVE RetireInv'
  <2>1. PICK how \in Outcome : Return(c, how)
    BY <1>5 DEF SetOffline
  <2>2. how \in {"ok", "error"} /\ pc[c] # "idle" /\ arg[c] \in Instances /\ data[c].status = "offline"
    BY <1>5 DEF Outcome, SetOffline, ControlInv, Doing
  <2>3. info'[arg[c]].status = "offline" /\ \A i \in Instances : i # arg[c] => info'[i] = info[i]
    BY <1>5, <2>2 DEF SetOffline, Store, Stored, TypeOK
  <2>4. ~Alive(info', clock, arg[c]) /\ \A i \in Instances : retired[i] => ~Alive(info', clock, i)
    BY <1>0, <2>3 DEF Alive
  <2> QED BY <2>1, <2>2, <2>4, RetireReturns
<1>6. ASSUME NEW c \in Callers, GetNil(c) PROVE RetireInv'
  <2>1. Return(c, "ok") /\ pc[c] # "idle" /\ info' = info /\ ~Alive(info, clock, arg[c])
    BY <1>6 DEF GetNil, Exists, Alive
  <2> QED BY <1>0, <2>1, RetireReturns
<1>7. ASSUME NEW c \in Callers, ExistsNo(c) \/ ExistsYes(c) \/ GetInfo(c) PROVE RetireInv'
  BY <1>7, RetireGoesOn DEF ExistsNo, ExistsYes, GetInfo, TypeOK
<1>8. ASSUME NEW c \in Callers, NEW keys \in SUBSET left[c], Scan(c, keys) PROVE RetireInv'
  <2>1. CASE page'[c] = {}
    BY <1>8, <2>1, RetireNextPage DEF Scan
  <2>2. CASE page'[c] # {}
    <3>1. /\ pc[c] # "idle" /\ UNCHANGED <<clock, info, call, arg, retired>>
          /\ \A d \in Callers \ {c} : pc'[d] = pc[d]
      BY <1>8, <2>2 DEF Scan, TypeOK
    <3> QED BY <3>1, RetireGoesOn
  <2> QED BY <2>1, <2>2
<1>9. ASSUME NEW c \in Callers, ReadPage(c) PROVE RetireInv'
  BY <1>9, RetireNextPage DEF ReadPage
<1>10. ASSUME Tick PROVE RetireInv'
  <2>1. UNCHANGED <<info, call, pc, arg, retired>> /\ clock \in Nat /\ clock' = clock + 1
    BY <1>10 DEF Tick, TypeOK
  <2>2. \A i \in Instances : info[i].expires \in Nat
    BY DEF TypeOK
  <2>3. \A i \in Instances : Alive(info, clock', i) => Alive(info, clock, i)
    BY <2>1, <2>2 DEF Alive
  <2> QED BY <2>1, <2>3 DEF RetireInv
<1>11. ASSUME UNCHANGED vars PROVE RetireInv'
  BY <1>11 DEF vars, RetireInv
<1>12. ASSUME NEW c \in Callers, Repeated(c) PROVE RetireInv'
  <2>1. /\ UNCHANGED <<clock, call, pc, arg, data, retired>> /\ arg[c] \in Instances
        /\ \A i \in Instances : i # arg[c] => info'[i] = info[i]
    BY <1>12 DEF Repeated, Store, Renew, ControlInv, Doing, TypeOK
  <2>2. \/ pc[c] # "idle" /\ call[c] \in {"register", "heartbeat"}
        \/ info'[arg[c]].status = "offline"
    BY <1>12, <2>1 DEF Repeated, Store, Stored, ControlInv, Doing, TypeOK
  <2>3. \A i \in Instances : retired[i] => ~Alive(info', clock, i)
    BY <1>0, <2>1, <2>2 DEF RetireInv, Reviving, Alive
  <2> QED BY <2>1, <2>3 DEF RetireInv, Reviving
<1> QED
  BY <1>1, <1>2, <1>3, <1>4, <1>5, <1>6, <1>7, <1>8, <1>9, <1>10, <1>11, <1>12 DEF Next, Step, Request

\* An instance that was marked offline, and for which nobody registers or sends a heartbeat, is not
\* active, for any number of overlapping calls (state_store.go:66-160).
THEOREM RetiredStaysInactive == Spec => []RetiredIsNotActive
<1>1. Init => RetireInv
  BY DEF Init, RetireInv
<1>2. RetireInv => RetiredIsNotActive
  BY DEF RetireInv, RetiredIsNotActive, Alive, Exists
<1> QED BY <1>1, <1>2, TypeInit, TypeStep, RetireStep, PTL DEF Spec

\* An instance that is not active becomes active only by the SET of a registration, not by the
\* EXPIRE of a heartbeat that found the key and lost it (state_store.go:66-119).
THEOREM RevivedOnlyByRegistration == Spec => RevivedByRegistration
<1> DEFINE Revived(i) == ~(Exists(i) /\ info[i].status = "active") /\ (Exists(i) /\ info[i].status = "active")'
           Registered(i) == \E c \in Callers :
                               pc[c] = "set" /\ arg[c] = i /\ info'[i] = Stored(c, InstanceTTL)
<1>1. TypeOK /\ ControlInv /\ [Next]_vars => [\A i \in Instances : Revived(i) => Registered(i)]_vars
  <2> SUFFICES ASSUME TypeOK, ControlInv, [Next]_vars, NEW i \in Instances,
                      ~Alive(info, clock, i), Alive(info', clock', i)
               PROVE  Registered(i)
    BY DEF Exists, Alive
  <2> USE RegistryAssumption DEF local
  <2>1. clock \in Nat /\ clock' \in Nat /\ clock <= clock' /\ info[i].expires \in Nat
    <3>1. clock' = clock \/ clock' = clock + 1
      <4>1. CASE Tick \/ UNCHANGED vars
        BY <4>1 DEF Tick, vars
      <4>2. ASSUME NEW c \in Callers, Request(c) PROVE clock' = clock
        BY <4>2 DEF Request, RegisterInstance, UpdateHeartbeat, MarkInstanceOffline, GetActiveInstances, Begin
      <4>3. ASSUME NEW c \in Callers, Step(c) PROVE clock' = clock
        BY <4>3 DEF Step, CommandFails, SetInstance, ExistsNo, ExistsYes, Expire, GetNil, GetInfo, SetOffline,
                    Scan, TooManyScans, ReadPage, NextPage, Return, Repeated
      <4> QED BY <4>1, <4>2, <4>3 DEF Next
    <3>2. clock \in Nat /\ info[i].expires \in Nat
      BY DEF TypeOK
    <3> QED BY <3>1, <3>2
  <2>2. info'[i] # info[i]
    BY <2>1 DEF Alive
  <2>3. ASSUME NEW c \in Callers, pc[c] = "set", Store(c, InstanceTTL) PROVE Registered(i)
    <3>1. arg[c] = i
      BY <2>2, <2>3 DEF Store, TypeOK
    <3> QED BY <2>3, <3>1 DEF Store, TypeOK
  <2>4. ASSUME NEW c \in Callers, Renew(c) PROVE FALSE
    <3>1. arg[c] = i /\ clock < info[i].expires /\ info'[i].status = info[i].status
      BY <2>2, <2>4 DEF Renew, Exists, TypeOK
    <3> QED BY <3>1 DEF Alive
  <2>5. ASSUME NEW c \in Callers, pc[c] = "setoffline", Store(c, OfflineTTL) PROVE FALSE
    <3>1. arg[c] = i /\ info'[i].status = "offline"
      BY <2>2, <2>5 DEF Store, Stored, ControlInv, Doing, TypeOK
    <3> QED BY <3>1 DEF Alive
  <2> QED
    BY <2>2, <2>3, <2>4, <2>5
       DEF Next, Step, Request, Tick, CommandFails, ExistsNo, ExistsYes, GetNil, GetInfo, Scan, TooManyScans,
           ReadPage, RegisterInstance, UpdateHeartbeat, MarkInstanceOffline, GetActiveInstances, Begin,
           SetInstance, Expire, SetOffline, Repeated, vars
<1> QED BY <1>1, TypeInit, TypeStep, PTL DEF Spec, RevivedByRegistration

-----------------------------------------------------------------------------
(* Listings *)

\* The instances that a listing which began at t would call active.
ActiveAt(inf, now, t) ==
    {i \in Instances : now < inf[i].expires /\ t - inf[i].heartbeat < InstanceTimeout /\ inf[i].status = "active"}

\* A listing at `at' that returned `how', when seen is active: keys l are to be scanned and keys p
\* to be read, f was found, and al and ev were always and ever active.
Listing(at, how, seen, l, p, f, al, ev) ==
    /\ at # "idle" => /\ how = "none" /\ al \subseteq seen /\ seen \subseteq ev
                      /\ al \subseteq f \cup l \cup p /\ f \subseteq ev
    /\ at = "idle" /\ how = "ok" => al \subseteq f /\ f \subseteq ev

ListInv ==
    \A c \in Callers :
        /\ pc[c] # "values" => page[c] = {}
        /\ call[c] = "list" => Listing(pc[c], returned[c], ActiveAt(info, clock, started[c]), left[c], page[c],
                                       found[c], always[c], ever[c])

\* What the observer records about a listing.
LEMMA ObserveListing ==
    ASSUME Observe, NEW c \in Callers, call'[c] = "list"
    PROVE  LET seen == ActiveAt(info', clock', started'[c])
           IN  /\ pc'[c] = "idle" => always'[c] = always[c] /\ ever'[c] = ever[c]
               /\ pc'[c] # "idle" /\ pc[c] = "idle" => always'[c] = seen /\ ever'[c] = seen
               /\ pc'[c] # "idle" /\ pc[c] # "idle" => /\ always'[c] = always[c] \cap seen
                                                       /\ ever'[c] = ever[c] \cup seen
<1> DEFINE seen == ActiveAt(info', clock', started'[c])
<1>1. seen = {i \in Instances : clock' < info'[i].expires /\ started'[c] - info'[i].heartbeat < InstanceTimeout
                                  /\ info'[i].status = "active"}
  BY DEF ActiveAt
<1> HIDE DEF seen
<1>2. /\ pc'[c] = "idle" => always'[c] = always[c] /\ ever'[c] = ever[c]
      /\ pc'[c] # "idle" /\ pc[c] = "idle" => always'[c] = seen /\ ever'[c] = seen
      /\ pc'[c] # "idle" /\ pc[c] # "idle" => always'[c] = always[c] \cap seen /\ ever'[c] = ever[c] \cup seen
  BY <1>1 DEF Observe, IsActive, Exists
<1> QED BY <1>2 DEF seen

\* Whatever else happens, the record of a listing that is under way goes on.
LEMMA ListOther ==
    ASSUME ListInv, Observe, NEW d \in Callers, pc'[d] = pc[d], call'[d] = call[d], started'[d] = started[d],
           returned'[d] = returned[d], left'[d] = left[d], page'[d] = page[d], found'[d] = found[d]
    PROVE  /\ pc'[d] # "values" => page'[d] = {}
           /\ call'[d] = "list" => Listing(pc'[d], returned'[d], ActiveAt(info', clock', started'[d]), left'[d],
                                           page'[d], found'[d], always'[d], ever'[d])
<1>1. pc'[d] # "values" => page'[d] = {}
  BY DEF ListInv
<1>2. ASSUME call'[d] = "list"
      PROVE  Listing(pc'[d], returned'[d], ActiveAt(info', clock', started'[d]), left'[d],
                     page'[d], found'[d], always'[d], ever'[d])
  <2> DEFINE seen == ActiveAt(info', clock', started'[d])
  <2>1. Listing(pc[d], returned[d], ActiveAt(info, clock, started[d]), left[d], page[d], found[d], always[d], ever[d])
    BY <1>2 DEF ListInv
  <2>2. /\ pc[d] = "idle" => always'[d] = always[d] /\ ever'[d] = ever[d]
        /\ pc[d] # "idle" => always'[d] = always[d] \cap seen /\ ever'[d] = ever[d] \cup seen
    BY <1>2, ObserveListing
  <2> HIDE DEF seen
  <2>3. Listing(pc[d], returned[d], seen, left[d], page[d], found[d], always'[d], ever'[d])
    BY <2>1, <2>2 DEF Listing
  <2> QED BY <2>3 DEF seen
<1> QED BY <1>1, <1>2

\* A step of caller c: it is enough to look at c.
LEMMA ListFromOne ==
    ASSUME ListInv, Observe, NEW c \in Callers,
           \A d \in Callers \ {c} :
              /\ pc'[d] = pc[d] /\ call'[d] = call[d] /\ started'[d] = started[d] /\ returned'[d] = returned[d]
              /\ left'[d] = left[d] /\ page'[d] = page[d] /\ found'[d] = found[d],
           pc'[c] # "values" => page'[c] = {},
           call'[c] = "list" => Listing(pc'[c], returned'[c], ActiveAt(info', clock', started'[c]), left'[c],
                                        page'[c], found'[c], always'[c], ever'[c])
    PROVE  ListInv'
<1>1. ASSUME NEW d \in Callers
      PROVE  /\ pc'[d] # "values" => page'[d] = {}
             /\ call'[d] = "list" => Listing(pc'[d], returned'[d], ActiveAt(info', clock', started'[d]), left'[d],
                                           page'[d], found'[d], always'[d], ever'[d])
  <2>1. CASE d = c
    BY <2>1
  <2>2. CASE d # c
    BY <2>2, ListOther
  <2> QED BY <2>1, <2>2
<1> QED BY <1>1 DEF ListInv, ActiveAt

\* A listing that has read everything returns, or goes on with the next page; f is what it has
\* found, and everything that was always active was found or is still to be scanned.
LEMMA ListNextPage ==
    ASSUME TypeOK, ControlInv, ListInv, Observe, NEW c \in Callers, NEW n, NextPage(c, n), info' = info,
           pc[c] \in {"scan", "values"}, page'[c] = {},
           \A d \in Callers \ {c} : left'[d] = left[d] /\ page'[d] = page[d] /\ found'[d] = found[d],
           always[c] \subseteq found'[c] \cup left'[c], found'[c] \subseteq ever[c]
    PROVE  ListInv'
<1>0. call[c] = "list" /\ Listing(pc[c], returned[c], ActiveAt(info, clock, started[c]), left[c], page[c],
                                  found[c], always[c], ever[c])
  BY DEF ControlInv, Doing, ListInv
<1>1. CASE left'[c] = {}
  <2>1. /\ pc'[c] = "idle" /\ call' = call
        /\ \A d \in Callers \ {c} : pc'[d] = pc[d] /\ started'[d] = started[d] /\ returned'[d] = returned[d]
    BY <1>1 DEF NextPage, Return, TypeOK
  <2>2. always'[c] = always[c] /\ ever'[c] = ever[c]
    BY <1>0, <2>1, ObserveListing
  <2>3. Listing(pc'[c], returned'[c], ActiveAt(info', clock', started'[c]), left'[c], page'[c],
                found'[c], always'[c], ever'[c])
    BY <1>1, <2>1, <2>2 DEF Listing
  <2> QED BY <2>1, <2>3, ListFromOne
<1>2. CASE left'[c] # {}
  <2>1. /\ pc'[c] = "scan" /\ UNCHANGED <<clock, call, started, returned>>
        /\ \A d \in Callers \ {c} : pc'[d] = pc[d]
    BY <1>2 DEF NextPage, TypeOK
  <2> DEFINE seen == ActiveAt(info, clock, started[c])
  <2>2. always'[c] = always[c] \cap seen /\ ever'[c] = ever[c] \cup seen
    BY <1>0, <2>1, ObserveListing
  <2> HIDE DEF seen
  <2>3. Listing("scan", returned[c], seen, left'[c], page'[c], found'[c], always'[c], ever'[c])
    BY <1>0, <2>2 DEF Listing
  <2> QED BY <2>1, <2>3, ListFromOne DEF seen
<1> QED BY <1>1, <1>2

\* SCAN and the pipeline of GETs lose no instance that stays active, and take none that is not.
LEMMA ListStep == TypeOK /\ ControlInv /\ ListInv /\ [Next]_vars => ListInv'
<1> SUFFICES ASSUME TypeOK, ControlInv, ListInv, [Next]_vars PROVE ListInv'
  OBVIOUS
<1> USE DEF local
<1>0. ASSUME UNCHANGED vars PROVE ListInv'
  BY <1>0 DEF vars, ListInv, ActiveAt
<1> SUFFICES ASSUME Next PROVE ListInv'
  BY <1>0
<1>o. Observe
  BY DEF Next
<1>1. ASSUME NEW c \in Callers, NEW m \in {"register", "heartbeat", "offline"}, NEW i, NEW at \in {"set", "exists", "get"},
             Begin(c, m, i, at), left' = left
      PROVE  ListInv'
  <2>1. /\ pc[c] = "idle" /\ pc'[c] # "values" /\ call'[c] # "list" /\ page' = page
        /\ \A d \in Callers \ {c} :
              /\ pc'[d] = pc[d] /\ call'[d] = call[d] /\ started'[d] = started[d] /\ returned'[d] = returned[d]
              /\ left'[d] = left[d] /\ found'[d] = found[d]
    BY <1>1 DEF Begin, TypeOK
  <2>2. page'[c] = {}
    BY <2>1 DEF ListInv
  <2> QED BY <1>o, <2>1, <2>2, ListFromOne
<1>2. ASSUME NEW c \in Callers, NEW i \in Instances,
             RegisterInstance(c, i) \/ UpdateHeartbeat(c, i) \/ MarkInstanceOffline(c, i)
      PROVE  ListInv'
  BY <1>1, <1>2 DEF RegisterInstance, UpdateHeartbeat, MarkInstanceOffline
<1>3. ASSUME NEW c \in Callers, GetActiveInstances(c) PROVE ListInv'
  <2>1. /\ pc[c] = "idle" /\ pc'[c] = "scan" /\ call'[c] = "list" /\ page' = page /\ returned'[c] = "none"
        /\ left'[c] = Instances /\ found'[c] = {}
        /\ \A d \in Callers \ {c} :
              /\ pc'[d] = pc[d] /\ call'[d] = call[d] /\ started'[d] = started[d] /\ returned'[d] = returned[d]
              /\ left'[d] = left[d] /\ found'[d] = found[d]
    BY <1>3 DEF GetActiveInstances, Begin, TypeOK
  <2>2. page'[c] = {}
    BY <2>1 DEF ListInv
  <2> DEFINE seen == ActiveAt(info', clock', started'[c])
  <2>3. always'[c] = seen /\ ever'[c] = seen
    BY <1>o, <2>1, ObserveListing
  <2>4. seen \subseteq Instances
    BY DEF ActiveAt
  <2> HIDE DEF seen
  <2>5. Listing(pc'[c], returned'[c], seen, left'[c], page'[c], found'[c], always'[c], ever'[c])
    BY <2>1, <2>3, <2>4 DEF Listing
  <2> QED BY <1>o, <2>1, <2>2, <2>5, ListFromOne DEF seen
<1>4. ASSUME NEW c \in Callers, CommandFails(c) \/ TooManyScans(c) PROVE ListInv'
  <2>1. /\ pc'[c] = "idle" /\ returned'[c] = "error" /\ call' = call
        /\ (page'[c] = {} \/ (page' = page /\ pc[c] = "scan"))
        /\ \A d \in Callers \ {c} :
              /\ pc'[d] = pc[d] /\ call'[d] = call[d] /\ started'[d] = started[d] /\ returned'[d] = returned[d]
              /\ left'[d] = left[d] /\ page'[d] = page[d] /\ found'[d] = found[d]
    BY <1>4 DEF CommandFails, TooManyScans, Return, TypeOK
  <2>2. page'[c] = {}
    BY <2>1 DEF ListInv
  <2> QED BY <1>o, <2>1, <2>2, ListFromOne DEF Listing
<1>5. ASSUME NEW c \in Callers, SetInstance(c) \/ Expire(c) \/ GetNil(c) \/ SetOffline(c) PROVE ListInv'
  <2>1. PICK how : Return(c, how)
    BY <1>5 DEF SetInstance, Expire, GetNil, SetOffline
  <2>2. /\ pc'[c] = "idle" /\ call' = call /\ call[c] # "list" /\ pc[c] # "values" /\ UNCHANGED <<left, page, found>>
        /\ \A d \in Callers \ {c} : pc'[d] = pc[d] /\ started'[d] = started[d] /\ returned'[d] = returned[d]
    BY <1>5, <2>1 DEF SetInstance, Expire, GetNil, SetOffline, Return, ControlInv, Doing, TypeOK
  <2>3. page'[c] = {}
    BY <2>2 DEF ListInv
  <2> QED BY <1>o, <2>2, <2>3, ListFromOne
<1>6. ASSUME NEW c \in Callers, ExistsNo(c) \/ ExistsYes(c) \/ GetInfo(c) PROVE ListInv'
  <2>1. /\ pc'[c] # "values" /\ call' = call /\ call[c] # "list" /\ pc[c] # "values"
        /\ UNCHANGED <<left, page, found, started, returned>>
        /\ \A d \in Callers \ {c} : pc'[d] = pc[d]
    BY <1>6 DEF ExistsNo, ExistsYes, GetInfo, ControlInv, Doing, TypeOK
  <2>2. page'[c] = {}
    BY <2>1 DEF ListInv
  <2> QED BY <1>o, <2>1, <2>2, ListFromOne
<1>7. ASSUME NEW c \in Callers, NEW keys \in SUBSET left[c], Scan(c, keys) PROVE ListInv'
  <2> DEFINE seen == ActiveAt(info, clock, started[c])
  <2>1. /\ pc[c] = "scan" /\ info' = info /\ found' = found /\ left'[c] = left[c] \ keys
        /\ page'[c] = {i \in keys : Exists(i)} /\ keys \subseteq Instances
        /\ \A d \in Callers \ {c} : left'[d] = left[d] /\ page'[d] = page[d]
    BY <1>7 DEF Scan, TypeOK
  <2>2. call[c] = "list" /\ page[c] = {}
        /\ Listing("scan", returned[c], seen, left[c], page[c], found[c], always[c], ever[c])
    BY <2>1 DEF ControlInv, Doing, ListInv
  <2>3. \A i \in seen : Exists(i)
    BY DEF ActiveAt, Exists
  <2> HIDE DEF seen
  <2>4. always[c] \subseteq found[c] \cup left'[c] \cup page'[c] /\ found[c] \subseteq ever[c]
    BY <2>1, <2>2, <2>3 DEF Listing
  <2>5. CASE page'[c] = {}
    <3>1. NextPage(c, scans[c] + 1)
      BY <1>7, <2>5 DEF Scan
    <3> QED BY <1>o, <2>1, <2>4, <2>5, <3>1, ListNextPage
  <2>6. CASE page'[c] # {}
    <3>1. /\ pc'[c] = "values" /\ UNCHANGED <<clock, call, started, returned>>
          /\ \A d \in Callers \ {c} : pc'[d] = pc[d]
      BY <1>7, <2>6 DEF Scan, TypeOK
    <3>2. always'[c] = always[c] \cap seen /\ ever'[c] = ever[c] \cup seen
      BY <1>o, <2>1, <2>2, <3>1, ObserveListing DEF seen
    <3>3. Listing("values", returned[c], seen, left'[c], page'[c], found[c], always'[c], ever'[c])
      BY <2>2, <2>4, <3>2 DEF Listing
    <3> QED BY <1>o, <2>1, <3>1, <3>3, ListFromOne DEF seen
  <2> QED BY <2>5, <2>6
<1>8. ASSUME NEW c \in Callers, ReadPage(c) PROVE ListInv'
  <2> DEFINE seen == ActiveAt(info, clock, started[c])
  <2>1. /\ pc[c] = "values" /\ info' = info /\ left' = left /\ page'[c] = {}
        /\ found'[c] = found[c] \cup {i \in page[c] : Exists(i) /\ Counts(i, started[c])}
        /\ NextPage(c, scans[c])
        /\ \A d \in Callers \ {c} : page'[d] = page[d] /\ found'[d] = found[d]
    BY <1>8 DEF ReadPage, TypeOK
  <2>2. Listing("values", returned[c], seen, left[c], page[c], found[c], always[c], ever[c])
    BY <2>1 DEF ControlInv, Doing, ListInv
  <2>3. \A i \in page[c] : i \in seen <=> Exists(i) /\ Counts(i, started[c])
    BY DEF ActiveAt, Exists, Counts, TypeOK
  <2> HIDE DEF seen
  <2>4. always[c] \subseteq found'[c] \cup left'[c] /\ found'[c] \subseteq ever[c]
    BY <2>1, <2>2, <2>3 DEF Listing
  <2> QED BY <1>o, <2>1, <2>4, ListNextPage
<1>9. ASSUME Tick PROVE ListInv'
  <2>1. ASSUME NEW d \in Callers
        PROVE  /\ pc'[d] # "values" => page'[d] = {}
               /\ call'[d] = "list" => Listing(pc'[d], returned'[d], ActiveAt(info', clock', started'[d]), left'[d],
                                               page'[d], found'[d], always'[d], ever'[d])
    BY <1>o, <1>9, ListOther DEF Tick
  <2> QED BY <2>1 DEF ListInv, ActiveAt
<1>10. ASSUME NEW c \in Callers, Repeated(c) PROVE ListInv'
  <2>1. ASSUME NEW d \in Callers
        PROVE  /\ pc'[d] # "values" => page'[d] = {}
               /\ call'[d] = "list" => Listing(pc'[d], returned'[d], ActiveAt(info', clock', started'[d]), left'[d],
                                               page'[d], found'[d], always'[d], ever'[d])
    BY <1>o, <1>10, ListOther DEF Repeated
  <2> QED BY <2>1 DEF ListInv, ActiveAt
<1> QED
  BY <1>2, <1>3, <1>4, <1>5, <1>6, <1>7, <1>8, <1>9, <1>10 DEF Next, Step, Request

\* A listing that succeeds has every instance that was active all the time and none that was
\* active at no time, for any number of pages and overlapping calls (state_store.go:221-274).
THEOREM ListingAccurate == Spec => []ListingIsAccurate
<1>1. Init => ListInv
  BY DEF Init, ListInv
<1>2. ListInv => ListingIsAccurate
  BY DEF ListInv, ListingIsAccurate, Listing
<1> QED BY <1>1, <1>2, TypeInit, TypeStep, ListStep, PTL DEF Spec
=============================================================================
