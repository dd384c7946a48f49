------------------------- MODULE ClusterManagerProofs -------------------------
(* Proofs about ClusterManager, for any cluster names, operators, group ids   *)
(* and any number of clusters that are added and removed.                     *)
EXTENDS ClusterManager, SequenceTheorems, FiniteSetTheorems, TLAPS

-----------------------------------------------------------------------------
(* Types *)

Loops == {"none", "list", "offsets", "store", "mark", "drain", "select", "stopped"}

Clusters ==
    [name : Names, client : {"closed", "admin", "open"}, publisher : BOOLEAN, stray : BOOLEAN,
     cancelled : BOOLEAN, loop : Loops, round : Nat, store : Nat, ready : BOOLEAN]

\* Where AddCluster, RemoveCluster and Stop hold the lock.
Adding == {"newAdmin", "newConsumer", "newPublisher", "register"}
Removing == {"close", "delete"}
Locked == Adding \cup Removing \cup {"closeAll"}
Places == Locked \cup {"idle", "add", "remove", "serve", "cancelAll", "stop"}

Probes ==
    [pc : {"idle", "lock", "each", "count", "groups"}, todo : SUBSET Made, cluster : 0..MaxMade,
     detail : BOOLEAN, ready : BOOLEAN]

TypeOK ==
    /\ clusters \in [Names -> 0..MaxMade]
    /\ lock \in Callers \cup {NoOne}
    /\ stopped \in BOOLEAN
    /\ made \in 0..MaxMade
    /\ cc \in [Made -> Clusters]
    /\ pc \in [Callers -> Places]
    /\ name \in [Callers -> Names]
    /\ cur \in [Callers -> 0..MaxMade]
    /\ toAdd \in Seq(Names)
    /\ toClose \in SUBSET Made
    /\ probe \in Probes

\* A caller that works at `at' on cluster i, which is x, of the name n; m is the cluster in the map
\* under that name.
Holding(at, n, i, m, x) ==
    /\ at \in Adding \cup Removing <=> i # 0
    /\ at \in Adding => m = 0 /\ x.name = n /\ x.loop = "none" /\ ~x.cancelled
    /\ at = "newAdmin" => x.client = "closed"
    /\ at = "newConsumer" => x.client = "admin"
    /\ at \in {"newPublisher", "register"} => x.client = "open"
    /\ at \in {"newAdmin", "newConsumer", "newPublisher"} => ~x.publisher
    /\ at \in Removing => m = i
    /\ at = "delete" => x.client = "closed" /\ ~x.publisher

LockInv ==
    /\ \A c \in Callers : pc[c] \in Locked <=> lock = c
    /\ \A c \in Callers : cur[c] <= made /\ Holding(pc[c], name[c], cur[c], clusters[name[c]], cc[cur[c]])
    /\ \A n \in Names : clusters[n] <= made
    /\ \A n \in Names : clusters[n] # 0 => cc[clusters[n]].name = n
    /\ \A i \in Made : i > made => /\ cc[i].client = "closed" /\ ~cc[i].publisher /\ ~cc[i].cancelled
                                   /\ cc[i].loop = "none"
    /\ \A c \in Operators : pc[c] \notin {"serve", "cancelAll", "stop", "closeAll"}
    /\ pc["main"] \in {"stop", "closeAll"} => stopped
    /\ \A i \in toClose : i <= made

\* What is open, what is monitored and what Stop has to close.
OpenInv ==
    /\ OpenIsOwned
    /\ ~stopped => \A n \in Names : clusters[n] # 0 =>
          \/ /\ cc[clusters[n]].client = "open" /\ ~cc[clusters[n]].cancelled
             /\ cc[clusters[n]].loop \notin {"none", "stopped"}
          \/ lock # NoOne /\ pc[lock] \in Removing /\ cur[lock] = clusters[n]
    /\ pc["main"] = "closeAll" => \A i \in Made :
          cc[i].client # "closed" \/ cc[i].publisher => i \in toClose

\* A status is stored before a cluster calls itself ready.
ReadyInv ==
    /\ \A i \in Made : /\ cc[i].loop \in {"offsets", "store"} => cc[i].round > 0
                       /\ cc[i].loop = "mark" \/ cc[i].ready => cc[i].store > 0
    /\ probe.pc \in {"count", "groups"} => probe.cluster \in Made
    /\ probe.pc = "count" /\ probe.detail => cc[probe.cluster].ready
    /\ probe.pc = "groups" => cc[probe.cluster].ready

\* What the proofs use of the constants.
LEMMA Constants ==
    /\ MaxMade \in Nat /\ Made \subseteq 0..MaxMade
    /\ \A i \in Made : i \in Nat /\ i # 0
    /\ \A i \in 0..MaxMade : i \in Nat /\ (i # 0 => i \in Made)
    /\ NoOne \notin Callers /\ "main" \in Callers /\ "main" \notin Operators /\ Operators \subseteq Callers
<1>1. MaxMade \in Nat
  BY ManagerAssumption
<1>2. NoOne \notin Callers /\ "main" \in Callers /\ "main" \notin Operators /\ Operators \subseteq Callers
  BY ManagerAssumption DEF NoOne, Callers
<1> QED BY <1>1, <1>2 DEF Made

\* A cluster with one field changed is a cluster.
LEMMA FieldTypes ==
    ASSUME NEW x \in Clusters
    PROVE  /\ \A v \in Names : [x EXCEPT !.name = v] \in Clusters
           /\ \A v \in {"closed", "admin", "open"} : [x EXCEPT !.client = v] \in Clusters
           /\ \A v, w \in BOOLEAN : [x EXCEPT !.publisher = v, !.stray = w] \in Clusters
           /\ \A v \in BOOLEAN : [x EXCEPT !.cancelled = v] \in Clusters
           /\ \A v \in Loops : [x EXCEPT !.loop = v] \in Clusters
           /\ \A v \in Nat : [x EXCEPT !.round = v] \in Clusters
           /\ \A v \in Nat : [x EXCEPT !.store = v] \in Clusters
           /\ \A v \in BOOLEAN : [x EXCEPT !.ready = v] \in Clusters
  BY DEF Clusters

\* Nothing but one cluster is changed.
LEMMA ChangeOne ==
    ASSUME TypeOK, NEW i \in Made, NEW x \in Clusters, cc' = [cc EXCEPT ![i] = x]
    PROVE  cc' \in [Made -> Clusters] /\ cc'[i] = x /\ \A j \in Made \ {i} : cc'[j] = cc[j]
  BY DEF TypeOK

\* Before any cluster is added everything has its type.
LEMMA TypeInit == Init => TypeOK /\ LockInv
<1> DEFINE n0 == CHOOSE n \in Names : TRUE
           x == [name |-> n0, client |-> "closed", publisher |-> FALSE, stray |-> FALSE,
                 cancelled |-> FALSE, loop |-> "none", round |-> 0, store |-> 0, ready |-> FALSE]
<1> SUFFICES ASSUME Init PROVE TypeOK /\ LockInv
  OBVIOUS
<1>1. /\ clusters = [n \in Names |-> 0] /\ lock = NoOne /\ made = 0 /\ toAdd = Configured /\ toClose = {}
      /\ pc = [c \in Callers |-> "idle"] /\ name = [c \in Callers |-> n0] /\ cur = [c \in Callers |-> 0]
  BY DEF Init
<1>2. stopped \in BOOLEAN /\ probe = NoProbe /\ cc = [i \in Made |-> x]
  BY Zenon DEF Init
<1>3. n0 \in Names
  BY ManagerAssumption
<1> HIDE DEF n0
<1>4. x \in Clusters /\ x.client = "closed" /\ ~x.publisher /\ ~x.cancelled /\ x.loop = "none"
  BY <1>3 DEF Clusters, Loops
<1> HIDE DEF x, Init
<1>5. NoProbe \in Probes
  BY Constants DEF NoProbe, Probes
<1>6. pc \in [Callers -> Places]
  BY <1>1 DEF Places
<1>7. TypeOK
  <2>1. toAdd \in Seq(Names)
    BY <1>1, ManagerAssumption
  <2> QED BY <1>1, <1>2, <1>3, <1>4, Constants, <1>5, <1>6, <2>1 DEF TypeOK
<1>8. \A c \in Callers : pc[c] = "idle" /\ cur[c] = 0 /\ lock # c
  BY <1>1, Constants
<1>9. \A i \in Made : cc[i] = x
  BY <1>2
<1>10. \A n \in Names : clusters[n] = 0
  BY <1>1
<1>11. LockInv
  <2>1. \A c \in Callers : (pc[c] \in Locked <=> lock = c) /\ cur[c] <= made
    BY <1>1, <1>8 DEF Adding, Removing, Locked
  <2>2. \A c \in Callers : Holding(pc[c], name[c], cur[c], clusters[name[c]], cc[cur[c]])
    BY <1>8 DEF Holding, Adding, Removing
  <2>3. \A i \in Made : cc[i].client = "closed" /\ ~cc[i].publisher /\ ~cc[i].cancelled /\ cc[i].loop = "none"
    BY <1>4, <1>9
  <2>4. \A n \in Names : clusters[n] <= made
    BY <1>1, <1>10
  <2> QED BY <1>1, Constants, <1>8, <1>10, <2>1, <2>2, <2>3, <2>4 DEF LockInv
<1> QED BY <1>7, <1>11

\* The caller at a place where the lock is held has the lock, and works on a cluster.
LEMMA HolderWorks ==
    ASSUME TypeOK, LockInv, NEW c \in Callers, pc[c] \in Adding \cup Removing
    PROVE  /\ lock = c /\ cur[c] \in Made /\ cur[c] <= made /\ cc[cur[c]] \in Clusters
           /\ Holding(pc[c], name[c], cur[c], clusters[name[c]], cc[cur[c]])
           /\ \A d \in Callers \ {c} : pc[d] \notin Locked /\ cur[d] = 0
<1>1. lock = c /\ \A d \in Callers \ {c} : pc[d] \notin Locked
  BY DEF LockInv, Locked
<1>2. Holding(pc[c], name[c], cur[c], clusters[name[c]], cc[cur[c]]) /\ cur[c] \in 0..MaxMade /\ cur[c] <= made
  BY DEF LockInv, TypeOK
<1>3. cur[c] \in Made
  <2>1. cur[c] # 0
    BY <1>2 DEF Holding
  <2> QED BY <1>2, <2>1, Constants DEF Made
<1>4. \A d \in Callers \ {c} : cur[d] = 0
  BY <1>1 DEF LockInv, Holding, Locked
<1> QED BY <1>1, <1>2, <1>3, <1>4 DEF TypeOK

\* A step of a caller leads to one of the places.
LEMMA GotoTypes ==
    ASSUME TypeOK, NEW c \in Callers, NEW from, NEW to \in Places, Goto(c, from, to)
    PROVE  pc' \in [Callers -> Places] /\ pc[c] = from /\ pc'[c] = to /\ \A d \in Callers \ {c} : pc'[d] = pc[d]
  BY DEF Goto, TypeOK

\* What a step of a collection loop makes of a cluster y whose context is done or not.
LoopChange(y, x, done) ==
    /\ x.name = y.name /\ x.client = y.client /\ x.cancelled = y.cancelled
    /\ x.publisher = y.publisher /\ x.stray = y.stray
    /\ y.loop # "none" /\ x.loop # "none"
    /\ x.loop = "stopped" => done
    /\ y.ready => x.ready
    /\ x.round # y.round => y.client = "open" /\ y.loop = "list"
    /\ x.loop \in {"offsets", "store"} => x.round > 0 \/ (y.loop = "offsets" /\ x.round = y.round)
    /\ x.loop = "mark" => y.loop = "store" /\ x.store = y.round
    /\ x.ready # y.ready => y.loop = "mark"
    /\ x.store # y.store => y.loop = "store" /\ x.store = y.round

\* The steps of the collection loops: what they change of a cluster, and what they leave alone.
LEMMA LoopSteps ==
    ASSUME TypeOK, NEW i \in Made, Collect(i) \/ Tick(i) \/ Done(i)
    PROVE  \E x \in Clusters :
             /\ cc' = [cc EXCEPT ![i] = x] /\ UNCHANGED <<clusters, lock, stopped, made, callVars, probe>>
             /\ LoopChange(cc[i], x, ContextDone(i))
<1>1. cc[i] \in Clusters /\ cc[i].round \in Nat /\ cc[i].round + 1 > 0 /\ cc[i].round + 1 \in Nat
  BY DEF TypeOK, Clusters
<1>2. ASSUME NEW from \in Loops \ {"none"}, NEW to \in Loops \ {"none", "mark"}, Step(i, from, to),
             to = "stopped" => ContextDone(i), to \in {"offsets", "store"} => from = "offsets"
      PROVE  \E x \in Clusters :
             /\ cc' = [cc EXCEPT ![i] = x] /\ UNCHANGED <<clusters, lock, stopped, made, callVars, probe>>
             /\ LoopChange(cc[i], x, ContextDone(i))
  <2> DEFINE x == [cc[i] EXCEPT !.loop = to]
  <2>1. x \in Clusters
    BY <1>1, FieldTypes
  <2>2. /\ cc' = [cc EXCEPT ![i] = x] /\ UNCHANGED <<clusters, lock, stopped, made, callVars, probe>>
        /\ cc[i].loop = from
    BY <1>2 DEF Step
  <2>3. /\ x.name = cc[i].name /\ x.client = cc[i].client /\ x.cancelled = cc[i].cancelled
        /\ x.publisher = cc[i].publisher /\ x.stray = cc[i].stray
        /\ x.loop = to /\ x.ready = cc[i].ready /\ x.round = cc[i].round
        /\ x.store = cc[i].store
    BY <1>1 DEF Clusters
  <2> HIDE DEF x
  <2> QED BY <1>2, <2>1, <2>2, <2>3 DEF LoopChange
<1>3. CASE ListOK(i)
  <2> DEFINE x == [cc[i] EXCEPT !.loop = "offsets", !.round = @ + 1]
  <2>1. x \in Clusters
    BY <1>1 DEF Clusters, Loops
  <2>2. /\ cc' = [cc EXCEPT ![i] = x] /\ UNCHANGED <<clusters, lock, stopped, made, callVars, probe>>
        /\ cc[i].loop = "list" /\ cc[i].client = "open"
    BY <1>3 DEF ListOK
  <2>3. /\ x.name = cc[i].name /\ x.client = cc[i].client /\ x.cancelled = cc[i].cancelled
        /\ x.publisher = cc[i].publisher /\ x.stray = cc[i].stray
        /\ x.loop = "offsets" /\ x.ready = cc[i].ready /\ x.round = cc[i].round + 1
        /\ x.store = cc[i].store
    BY <1>1 DEF Clusters
  <2> HIDE DEF x
  <2> QED BY <1>1, <2>1, <2>2, <2>3 DEF LoopChange
<1>4. CASE StoreStatus(i)
  <2> DEFINE x == [cc[i] EXCEPT !.loop = "mark", !.store = cc[i].round]
  <2>1. x \in Clusters
    BY <1>1 DEF Clusters, Loops
  <2>2. /\ cc' = [cc EXCEPT ![i] = x] /\ UNCHANGED <<clusters, lock, stopped, made, callVars, probe>>
        /\ cc[i].loop = "store"
    BY <1>4 DEF StoreStatus
  <2>3. /\ x.name = cc[i].name /\ x.client = cc[i].client /\ x.cancelled = cc[i].cancelled
        /\ x.publisher = cc[i].publisher /\ x.stray = cc[i].stray
        /\ x.loop = "mark" /\ x.ready = cc[i].ready /\ x.round = cc[i].round
        /\ x.store = cc[i].round
    BY <1>1 DEF Clusters
  <2> HIDE DEF x
  <2> QED BY <1>1, <2>1, <2>2, <2>3 DEF LoopChange
<1>5. CASE MarkReady(i)
  <2> DEFINE x == [cc[i] EXCEPT !.loop = "drain", !.ready = TRUE]
  <2>1. x \in Clusters
    BY <1>1 DEF Clusters, Loops
  <2>2. /\ cc' = [cc EXCEPT ![i] = x] /\ UNCHANGED <<clusters, lock, stopped, made, callVars, probe>>
        /\ cc[i].loop = "mark"
    BY <1>5 DEF MarkReady
  <2>3. /\ x.name = cc[i].name /\ x.client = cc[i].client /\ x.cancelled = cc[i].cancelled
        /\ x.publisher = cc[i].publisher /\ x.stray = cc[i].stray
        /\ x.loop = "drain" /\ x.ready /\ x.round = cc[i].round
        /\ x.store = cc[i].store
    BY <1>1 DEF Clusters
  <2> HIDE DEF x
  <2> QED BY <1>1, <2>1, <2>2, <2>3 DEF LoopChange
<1>6. CASE ListError(i) \/ EndRound(i) \/ OffsetsOK(i) \/ OffsetsError(i) \/ Tick(i) \/ Done(i)
  BY <1>2, <1>6 DEF ListError, EndRound, OffsetsOK, OffsetsError, Tick, Done, Loops
<1> QED BY <1>3, <1>4, <1>5, <1>6 DEF Collect

-----------------------------------------------------------------------------
(* The inductive invariant *)

Inv == TypeOK /\ LockInv /\ OpenInv /\ ReadyInv

\* What AddCluster and RemoveCluster may make of the cluster i of the name n, which was y and under
\* which the map had m: x, the map having mm, and the call going on at `to', with cluster k.
Worked(n, i, y, m, x, mm, to, k) ==
    /\ m \in {0, i} /\ mm \in {0, i} /\ k \in {0, i}
    /\ Holding(to, n, k, mm, x)
    /\ x.name = n /\ x.ready = y.ready /\ x.store = y.store /\ x.round = y.round
    /\ x.loop \in {y.loop, "list"}
    /\ mm # 0 => \/ x.client = "open" /\ ~x.cancelled /\ x.loop \notin {"none", "stopped"}
                 \/ to \in Removing
    /\ x.client # "closed" \/ x.publisher => mm = i \/ k = i

\* Such a step of the caller c.
WorkStep(c, i, x, mm, to, k) ==
    /\ lock \in {NoOne, c} /\ pc[c] # "closeAll" /\ cur[c] \in {0, i}
    /\ i <= made => cc[i].name = name[c]
    /\ cc' = [cc EXCEPT ![i] = x] /\ pc' = [pc EXCEPT ![c] = to] /\ cur' = [cur EXCEPT ![c] = k]
    /\ clusters' = [clusters EXCEPT ![name[c]] = mm]
    /\ lock' = IF to = "idle" THEN NoOne ELSE c
    /\ made' \in 0..MaxMade /\ made' >= made /\ i <= made'
    /\ UNCHANGED <<stopped, name, toAdd, toClose, probe>>

\* AddCluster and RemoveCluster under the lock keep the invariant, provided that every one of their
\* steps makes of its cluster what it may.
LEMMA Work ==
    ASSUME Inv, NEW c \in Callers, NEW i \in Made, NEW x \in Clusters,
           NEW to \in (Locked \ {"closeAll"}) \cup {"idle"},
           NEW k, NEW mm,
           WorkStep(c, i, x, mm, to, k),
           Worked(name[c], i, cc[i], clusters[name[c]], x, mm, to, k)
    PROVE  Inv'
<1> DEFINE n0 == name[c]
           m == clusters[n0]
<1>1. TypeOK /\ LockInv /\ OpenInv /\ ReadyInv /\ n0 \in Names /\ cc[i] \in Clusters /\ m \in {0, i}
  BY DEF Inv, TypeOK, Worked
<1>20. made \in Nat /\ made' \in Nat /\ i \in Nat /\ i # 0 /\ i <= made' /\ made <= made'
  BY <1>1, Constants DEF TypeOK, WorkStep
<1>21. mm \in {0, i} /\ k \in {0, i} /\ mm <= made' /\ k <= made' /\ mm \in 0..MaxMade /\ k \in 0..MaxMade
  BY <1>20, Constants DEF Worked
<1>22. n0 = name'[c] /\ UNCHANGED <<stopped, name, toAdd, toClose, probe>>
  BY DEF WorkStep
<1>2. cc' \in [Made -> Clusters] /\ cc'[i] = x /\ \A j \in Made \ {i} : cc'[j] = cc[j]
  BY <1>1, ChangeOne DEF WorkStep
<1>3. pc' \in [Callers -> Places] /\ pc'[c] = to /\ \A d \in Callers \ {c} : pc'[d] = pc[d]
  BY <1>1 DEF TypeOK, Places, WorkStep
<1>4. cur' \in [Callers -> 0..MaxMade] /\ cur'[c] = k /\ \A d \in Callers \ {c} : cur'[d] = cur[d]
  BY <1>1, <1>21 DEF TypeOK, WorkStep
<1>5. clusters' \in [Names -> 0..MaxMade] /\ clusters'[n0] = mm /\ \A n \in Names \ {n0} : clusters'[n] = clusters[n]
  BY <1>1, <1>21 DEF TypeOK, WorkStep
<1>6. lock' \in Callers \cup {NoOne}
  BY DEF WorkStep
<1>7. TypeOK'
  <2>1. made' \in 0..MaxMade
    BY DEF WorkStep
  <2> QED BY <1>1, <1>2, <1>3, <1>4, <1>5, <1>6, <1>22, <2>1 DEF TypeOK
<1>8. to \in Locked <=> lock' = c
  BY Constants DEF Locked, Adding, Removing, WorkStep
<1>9. \A d \in Callers \ {c} : pc[d] \notin Locked /\ lock' # d
  BY <1>1, Constants DEF LockInv, WorkStep
<1>10. \A n \in Names \ {n0} : clusters[n] # 0 => clusters[n] # i /\ clusters[n] \in Made
  <2> SUFFICES ASSUME NEW n \in Names \ {n0}, clusters[n] # 0 PROVE clusters[n] # i /\ clusters[n] \in Made
    OBVIOUS
  <2>1. clusters[n] <= made /\ cc[clusters[n]].name = n /\ clusters[n] \in 0..MaxMade /\ n # n0
    BY <1>1 DEF LockInv, TypeOK
  <2>2. clusters[n] \in Made
    BY <2>1, Constants
  <2>3. clusters[n] = i => i <= made /\ cc[i].name # n0
    BY <2>1
  <2> QED BY <2>2, <2>3 DEF WorkStep
<1>11. LockInv'
  <2>1. \A d \in Callers : pc'[d] \in Locked <=> lock' = d
    BY <1>3, <1>8, <1>9
  <2>2. \A d \in Callers : cur'[d] <= made' /\ Holding(pc'[d], name'[d], cur'[d], clusters'[name'[d]], cc'[cur'[d]])
    <3>1. cur'[c] <= made' /\ Holding(pc'[c], name'[c], cur'[c], clusters'[name'[c]], cc'[cur'[c]])
      <4>2. Holding(to, n0, k, mm, x) /\ name'[c] = n0
        BY <1>22 DEF Worked
      <4>3. CASE k = i
        BY <1>2, <1>3, <1>4, <1>5, <1>21, <4>2, <4>3
      <4>4. CASE k = 0
        <5>1. to \notin Adding \cup Removing
          BY <4>2, <4>4 DEF Holding
        <5>2. Holding(to, n0, k, mm, cc'[k])
          BY <5>1, <4>4 DEF Holding, Adding, Removing
        <5> QED BY <1>3, <1>4, <1>5, <1>21, <4>2, <5>2
      <4> QED BY <1>21, <4>3, <4>4
    <3>2. ASSUME NEW d \in Callers \ {c}
          PROVE  cur'[d] <= made' /\ Holding(pc'[d], name'[d], cur'[d], clusters'[name'[d]], cc'[cur'[d]])
      <4>1. pc[d] \notin Locked /\ cur[d] <= made /\ Holding(pc[d], name[d], cur[d], clusters[name[d]], cc[cur[d]])
        BY <1>1, <1>9 DEF LockInv
      <4>2. cur[d] = 0 /\ pc[d] \notin Adding \cup Removing
        BY <4>1 DEF Holding, Locked
      <4>3. pc'[d] \notin Adding \cup Removing /\ cur'[d] = 0
        BY <4>2, <1>3, <1>4
      <4>4. 0 <= made'
        BY <1>20
      <4> QED BY <4>3, <4>4 DEF Holding, Adding, Removing
    <3> QED BY <3>1, <3>2
  <2>3. \A n \in Names : clusters'[n] <= made'
    <3>1. \A n \in Names : clusters[n] <= made /\ clusters[n] \in Nat
      BY <1>1 DEF LockInv, TypeOK
    <3>2. \A n \in Names : clusters[n] <= made'
      BY <1>20, <3>1
    <3> QED BY <1>5, <1>21, <3>2
  <2>4. \A n \in Names : clusters'[n] # 0 => cc'[clusters'[n]].name = n
    <3>1. mm # 0 => cc'[mm].name = n0
      BY <1>2 DEF Worked
    <3>2. \A n \in Names \ {n0} : clusters[n] # 0 => cc'[clusters[n]].name = n
      BY <1>1, <1>2, <1>10 DEF LockInv
    <3> QED BY <1>5, <3>1, <3>2
  <2>5. \A j \in Made : j > made' => j # i /\ j > made
    BY <1>20, Constants
  <2>6. \A j \in Made : j > made' => /\ cc'[j].client = "closed" /\ ~cc'[j].publisher /\ ~cc'[j].cancelled
                                     /\ cc'[j].loop = "none"
    BY <1>1, <1>2, <2>5 DEF LockInv
  <2>7. \A d \in Operators : pc'[d] \notin {"serve", "cancelAll", "stop", "closeAll"}
    BY <1>1, <1>3, <1>22, Constants DEF LockInv, Locked, Adding, Removing
  <2>8. pc'["main"] \in {"stop", "closeAll"} => stopped'
    BY <1>1, <1>3, <1>22, Constants DEF LockInv, Locked, Adding, Removing
  <2>9. \A j \in toClose' : j <= made'
    <3>1. \A j \in toClose : j \in Nat /\ j <= made
      BY <1>1, Constants DEF LockInv, TypeOK
    <3> QED BY <1>20, <1>22, <3>1
  <2> QED BY <2>1, <2>2, <2>3, <2>4, <2>6, <2>7, <2>8, <2>9 DEF LockInv
<1>12. OpenInv'
  <2>1. \A j \in Made \ {i} : (\E n \in Names : clusters[n] = j) => \E n \in Names : clusters'[n] = j
    BY <1>1, <1>5, <1>20, Constants
  <2>2. OpenIsOwned'
    <3> SUFFICES ASSUME NEW j \in Made, cc'[j].client \in {"admin", "open"} \/ cc'[j].publisher
                 PROVE  (\E n \in Names : clusters'[n] = j) \/ (lock' # NoOne /\ cur'[lock'] = j)
      BY DEF OpenIsOwned, Registered
    <3>1. CASE j = i
      <4>1. mm = i \/ k = i
        BY <1>2, <3>1 DEF Worked
      <4>2. k = i => lock' = c
        BY <1>8, <1>20 DEF Worked, Holding, Locked
      <4> QED BY <1>1, <1>4, <1>5, <3>1, <4>1, <4>2, Constants
    <3>2. CASE j # i
      <4>1. (\E n \in Names : clusters[n] = j) \/ (lock # NoOne /\ cur[lock] = j)
        BY <1>1, <1>2, <3>2 DEF OpenInv, OpenIsOwned, Registered
      <4>2. ~(lock # NoOne /\ cur[lock] = j)
        BY <3>2, Constants DEF WorkStep
      <4> QED BY <2>1, <3>2, <4>1, <4>2
    <3> QED BY <3>1, <3>2
  <2>3. ASSUME ~stopped', NEW n \in Names, clusters'[n] # 0
        PROVE  \/ /\ cc'[clusters'[n]].client = "open" /\ ~cc'[clusters'[n]].cancelled
                  /\ cc'[clusters'[n]].loop \notin {"none", "stopped"}
               \/ lock' # NoOne /\ pc'[lock'] \in Removing /\ cur'[lock'] = clusters'[n]
    <3>1. CASE n = n0
      <4>1. mm = i /\ clusters'[n] = i
        BY <1>5, <1>21, <2>3, <3>1
      <4>2. CASE x.client = "open" /\ ~x.cancelled /\ x.loop \notin {"none", "stopped"}
        BY <1>2, <4>1, <4>2
      <4>3. CASE to \in Removing
        <5>1. k = i
          BY <1>21, <4>3 DEF Worked, Holding
        <5>2. lock' = c /\ c # NoOne
          BY <1>8, <4>3, Constants DEF Locked
        <5> QED BY <1>3, <1>4, <4>1, <4>3, <5>1, <5>2
      <4> QED BY <1>20, <4>1, <4>2, <4>3 DEF Worked
    <3>2. CASE n # n0
      <4>1. clusters'[n] = clusters[n] /\ clusters[n] # 0 /\ clusters[n] # i /\ clusters[n] \in Made
        BY <1>5, <1>10, <2>3, <3>2
      <4>2. \/ /\ cc[clusters[n]].client = "open" /\ ~cc[clusters[n]].cancelled
               /\ cc[clusters[n]].loop \notin {"none", "stopped"}
            \/ lock # NoOne /\ cur[lock] = clusters[n]
        BY <1>1, <1>22, <2>3, <4>1 DEF OpenInv
      <4>3. ~(lock # NoOne /\ cur[lock] = clusters[n])
        BY <4>1, Constants DEF WorkStep
      <4> QED BY <1>2, <4>1, <4>2, <4>3
    <3> QED BY <3>1, <3>2
  <2>4. pc'["main"] # "closeAll"
    BY <1>3, <1>9, Constants DEF Locked, Adding, Removing
  <2> QED BY <2>2, <2>3, <2>4 DEF OpenInv
<1>13. ReadyInv'
  <2>1. \A j \in Made : /\ cc'[j].ready = cc[j].ready /\ cc'[j].store = cc[j].store /\ cc'[j].round = cc[j].round
                       /\ cc'[j].loop \in {cc[j].loop, "list"}
    BY <1>2 DEF Worked
  <2> QED BY <1>1, <1>22, <2>1 DEF ReadyInv
<1> QED BY <1>7, <1>11, <1>12, <1>13 DEF Inv
\* AddCluster between Lock and Unlock, and RemoveCluster once it has cancelled the context.
LEMMA HeldSteps ==
    ASSUME Inv, NEW c \in Callers,
           \/ NewAdmin(c) \/ NewAdminError(c) \/ NewConsumer(c) \/ NewConsumerError(c)
           \/ NewPublisher(c) \/ Register(c) \/ RemoveClose(c) \/ RemoveDelete(c)
    PROVE  Inv'
<1> DEFINE i == cur[c]
           y == cc[cur[c]]
           n == name[c]
           m == clusters[name[c]]
<1>1. pc[c] \in Adding \cup Removing
  BY DEF NewAdmin, NewAdminError, NewConsumer, NewConsumerError, NewPublisher, Register, RemoveClose,
         RemoveDelete, Goto, Unlock, Adding, Removing
<1>2. /\ lock = c /\ i \in Made /\ i <= made /\ y \in Clusters
      /\ Holding(pc[c], n, i, m, y) /\ i # 0 /\ n \in Names /\ m \in {0, i}
  <2>1. TypeOK /\ LockInv
    BY DEF Inv
  <2>2. lock = c /\ i \in Made /\ i <= made /\ y \in Clusters /\ Holding(pc[c], n, i, m, y)
    BY <1>1, <2>1, HolderWorks
  <2> QED BY <1>1, <2>1, <2>2, Constants DEF TypeOK, Holding
<1>3. y.name = n
  BY <1>1, <1>2 DEF Holding, Inv, LockInv
<1>4. /\ cc = [cc EXCEPT ![i] = y] /\ clusters = [clusters EXCEPT ![n] = m] /\ cur = [cur EXCEPT ![c] = i]
      /\ made \in 0..MaxMade /\ made >= made
  BY <1>2, Constants DEF Inv, TypeOK
<1>5. ASSUME NEW from \in Adding \cup Removing, NEW to \in (Locked \ {"closeAll"}) \cup {"idle"}, NEW x \in Clusters,
             NEW k, NEW mm,
             Goto(c, from, to), cc' = [cc EXCEPT ![i] = x], cur' = [cur EXCEPT ![c] = k],
             clusters' = [clusters EXCEPT ![n] = mm], lock' = IF to = "idle" THEN NoOne ELSE c,
             UNCHANGED <<stopped, made, name, toAdd, toClose, probe>>,
             Worked(n, i, y, m, x, mm, to, k)
      PROVE  Inv'
  <2>1. WorkStep(c, i, x, mm, to, k)
    BY <1>1, <1>2, <1>3, <1>4, <1>5 DEF WorkStep, Goto, Adding, Removing
  <2> QED BY <1>2, <1>5, <2>1, Work
<1>6. \A f \in {"name", "client", "publisher", "stray", "cancelled", "loop", "round", "store", "ready"} : f \in DOMAIN y
  BY <1>2 DEF Clusters
<1>7. CASE NewAdmin(c)
  <2> DEFINE x == [y EXCEPT !.client = "admin"]
  <2>1. /\ Goto(c, "newAdmin", "newConsumer") /\ cc' = [cc EXCEPT ![i] = x] /\ lock' = c
        /\ UNCHANGED <<clusters, cur, stopped, made, name, toAdd, toClose, probe>> /\ pc[c] = "newAdmin"
    BY <1>2, <1>7 DEF NewAdmin, Goto
  <2>2. x \in Clusters /\ x.client = "admin"
    BY <1>2, FieldTypes, <1>6
  <2>3. /\ x.name = y.name /\ x.publisher = y.publisher /\ x.cancelled = y.cancelled /\ x.loop = y.loop
        /\ x.round = y.round /\ x.store = y.store /\ x.ready = y.ready
    BY <1>6
  <2> HIDE DEF x
  <2>4. Worked(n, i, y, m, x, m, "newConsumer", i)
    BY <1>2, <1>3, <2>1, <2>2, <2>3 DEF Worked, Holding, Adding, Removing
  <2> HIDE DEF i, n, m, y
  <2> QED BY <1>4, <1>5, <2>1, <2>2, <2>4 DEF Adding, Locked
<1>8. CASE NewConsumer(c)
  <2> DEFINE x == [y EXCEPT !.client = "open"]
  <2>1. /\ Goto(c, "newConsumer", "newPublisher") /\ cc' = [cc EXCEPT ![i] = x] /\ lock' = c
        /\ UNCHANGED <<clusters, cur, stopped, made, name, toAdd, toClose, probe>> /\ pc[c] = "newConsumer"
    BY <1>2, <1>8 DEF NewConsumer, Goto
  <2>2. x \in Clusters /\ x.client = "open"
    BY <1>2, FieldTypes, <1>6
  <2>3. /\ x.name = y.name /\ x.publisher = y.publisher /\ x.cancelled = y.cancelled /\ x.loop = y.loop
        /\ x.round = y.round /\ x.store = y.store /\ x.ready = y.ready
    BY <1>6
  <2> HIDE DEF x
  <2>4. Worked(n, i, y, m, x, m, "newPublisher", i)
    BY <1>2, <1>3, <2>1, <2>2, <2>3 DEF Worked, Holding, Adding, Removing
  <2> HIDE DEF i, n, m, y
  <2> QED BY <1>4, <1>5, <2>1, <2>2, <2>4 DEF Adding, Locked
<1>9. CASE NewPublisher(c)
  <2>0. PICK connected \in {RCAEnabled, FALSE} :
          cc' = [cc EXCEPT ![i].publisher = connected, ![i].stray = RCAEnabled /\ ~connected]
    BY <1>9 DEF NewPublisher
  <2> DEFINE x == [y EXCEPT !.publisher = connected, !.stray = RCAEnabled /\ ~connected]
  <2>1. /\ Goto(c, "newPublisher", "register") /\ cc' = [cc EXCEPT ![i] = x] /\ lock' = c
        /\ UNCHANGED <<clusters, cur, stopped, made, name, toAdd, toClose, probe>> /\ pc[c] = "newPublisher"
    <3>1. cc' = [cc EXCEPT ![i] = x]
      BY <1>2, <2>0 DEF Inv, TypeOK
    <3> QED BY <1>2, <1>9, <3>1 DEF NewPublisher, Goto
  <2>2. x \in Clusters
    <3>1. connected \in BOOLEAN /\ (RCAEnabled /\ ~connected) \in BOOLEAN
      BY ManagerAssumption
    <3> QED BY <1>2, <3>1, FieldTypes
  <2>3. /\ x.name = y.name /\ x.client = y.client /\ x.cancelled = y.cancelled /\ x.loop = y.loop
        /\ x.round = y.round /\ x.store = y.store /\ x.ready = y.ready
    BY <1>6
  <2> HIDE DEF x
  <2>4. Worked(n, i, y, m, x, m, "register", i)
    BY <1>2, <1>3, <2>1, <2>3 DEF Worked, Holding, Adding, Removing
  <2> HIDE DEF i, n, m, y
  <2> QED BY <1>4, <1>5, <2>1, <2>2, <2>4 DEF Adding, Locked
<1>10. CASE RemoveClose(c)
  <2> DEFINE x == Closed(y)
  <2>1. /\ Goto(c, "close", "delete") /\ cc' = [cc EXCEPT ![i] = x] /\ lock' = c
        /\ UNCHANGED <<clusters, cur, stopped, made, name, toAdd, toClose, probe>> /\ pc[c] = "close"
    BY <1>2, <1>10 DEF RemoveClose, Goto
  <2>2. x \in Clusters /\ x.client = "closed" /\ ~x.publisher
    BY <1>2 DEF Clusters, Closed
  <2>3. /\ x.name = y.name /\ x.cancelled = y.cancelled /\ x.loop = y.loop
        /\ x.round = y.round /\ x.store = y.store /\ x.ready = y.ready
    BY <1>6 DEF Closed
  <2> HIDE DEF x
  <2>4. Worked(n, i, y, m, x, m, "delete", i)
    BY <1>2, <1>3, <2>1, <2>2, <2>3 DEF Worked, Holding, Adding, Removing
  <2> HIDE DEF i, n, m, y
  <2> QED BY <1>4, <1>5, <2>1, <2>2, <2>4 DEF Removing, Locked
<1>11. CASE NewAdminError(c)
  <2>1. /\ Goto(c, "newAdmin", "idle") /\ cur' = [cur EXCEPT ![c] = 0] /\ lock' = NoOne
        /\ UNCHANGED <<clusters, cc, stopped, made, name, toAdd, toClose, probe>> /\ pc[c] = "newAdmin"
    BY <1>11 DEF NewAdminError, Unlock, Goto
  <2>2. Worked(n, i, y, m, y, m, "idle", 0)
    BY <1>2, <1>3, <2>1 DEF Worked, Holding, Adding, Removing
  <2> HIDE DEF i, n, m, y
  <2> QED BY <1>2, <1>4, <1>5, <2>1, <2>2 DEF Adding
<1>12. CASE NewConsumerError(c)
  <2> DEFINE x == [y EXCEPT !.client = "closed"]
  <2>1. /\ Goto(c, "newConsumer", "idle") /\ cur' = [cur EXCEPT ![c] = 0] /\ lock' = NoOne
        /\ cc' = [cc EXCEPT ![i] = x]
        /\ UNCHANGED <<clusters, stopped, made, name, toAdd, toClose, probe>> /\ pc[c] = "newConsumer"
    BY <1>12 DEF NewConsumerError, Unlock, Goto
  <2>2. x \in Clusters /\ x.client = "closed"
    BY <1>2, FieldTypes, <1>6
  <2>3. /\ x.name = y.name /\ x.publisher = y.publisher /\ x.cancelled = y.cancelled /\ x.loop = y.loop
        /\ x.round = y.round /\ x.store = y.store /\ x.ready = y.ready
    BY <1>6
  <2> HIDE DEF x
  <2>4. Worked(n, i, y, m, x, m, "idle", 0)
    BY <1>2, <1>3, <2>1, <2>2, <2>3 DEF Worked, Holding, Adding, Removing
  <2> HIDE DEF i, n, m, y
  <2> QED BY <1>4, <1>5, <2>1, <2>2, <2>4 DEF Adding
<1>13. CASE Register(c)
  <2> DEFINE x == [y EXCEPT !.loop = "list"]
  <2>1. /\ Goto(c, "register", "idle") /\ cur' = [cur EXCEPT ![c] = 0] /\ lock' = NoOne
        /\ cc' = [cc EXCEPT ![i] = x] /\ clusters' = [clusters EXCEPT ![n] = i]
        /\ UNCHANGED <<stopped, made, name, toAdd, toClose, probe>> /\ pc[c] = "register"
    BY <1>13 DEF Register, Unlock, Goto
  <2>2. x \in Clusters /\ x.loop = "list"
    <3>1. "list" \in Loops /\ x.loop = "list"
      BY <1>6 DEF Loops
    <3> QED BY <1>2, <3>1, FieldTypes
  <2>3. /\ x.name = y.name /\ x.publisher = y.publisher /\ x.cancelled = y.cancelled /\ x.client = y.client
        /\ x.round = y.round /\ x.store = y.store /\ x.ready = y.ready
    BY <1>6
  <2> HIDE DEF x
  <2>4. Worked(n, i, y, m, x, i, "idle", 0)
    BY <1>2, <1>3, <2>1, <2>2, <2>3 DEF Worked, Holding, Adding, Removing
  <2> HIDE DEF i, n, m, y
  <2> QED BY <1>4, <1>5, <2>1, <2>2, <2>4 DEF Adding
<1>14. CASE RemoveDelete(c)
  <2>1. /\ Goto(c, "delete", "idle") /\ cur' = [cur EXCEPT ![c] = 0] /\ lock' = NoOne
        /\ clusters' = [clusters EXCEPT ![n] = 0]
        /\ UNCHANGED <<cc, stopped, made, name, toAdd, toClose, probe>> /\ pc[c] = "delete"
    BY <1>14 DEF RemoveDelete, Unlock, Goto
  <2>2. Worked(n, i, y, m, y, 0, "idle", 0)
    BY <1>2, <1>3, <2>1 DEF Worked, Holding, Adding, Removing
  <2> HIDE DEF i, n, m, y
  <2> QED BY <1>2, <1>4, <1>5, <2>1, <2>2 DEF Removing
<1> QED BY <1>7, <1>8, <1>9, <1>10, <1>11, <1>12, <1>13, <1>14
\* AddCluster and RemoveCluster take the lock.
LEMMA TakingSteps ==
    ASSUME Inv, NEW c \in Callers, AddNew(c) \/ RemoveCancel(c)
    PROVE  Inv'
<1> DEFINE n == name[c]
           m == clusters[name[c]]
<1>1. TypeOK /\ LockInv /\ lock = NoOne /\ n \in Names /\ m \in 0..MaxMade /\ made \in 0..MaxMade /\ made \in Nat
  BY Constants DEF Inv, TypeOK, AddNew, RemoveCancel
<1>2. pc[c] \in {"add", "remove"}
  BY DEF AddNew, RemoveCancel, Goto
<1>3. cur[c] = 0
  <2>1. Holding(pc[c], n, cur[c], m, cc[cur[c]])
    BY <1>1 DEF LockInv
  <2> QED BY <1>2, <2>1 DEF Holding, Adding, Removing
<1>4. CASE AddNew(c)
  <2> DEFINE i == made + 1
             y == cc[made + 1]
             x == [y EXCEPT !.name = n]
  <2>1. /\ m = 0 /\ made < MaxMade /\ pc' = [pc EXCEPT ![c] = "newAdmin"] /\ lock' = c /\ made' = made + 1
        /\ cur' = [cur EXCEPT ![c] = i] /\ cc' = [cc EXCEPT ![i] = x]
        /\ UNCHANGED <<clusters, stopped, name, toAdd, toClose, probe>>
    BY <1>4 DEF AddNew, Goto
  <2>2. i \in Made /\ i \in 0..MaxMade /\ i > made /\ ~(i <= made) /\ made' >= made /\ made' \in 0..MaxMade /\ i <= made' /\ i # 0
    BY <1>1, <2>1, Constants DEF Made
  <2>3. y \in Clusters /\ y.client = "closed" /\ ~y.publisher /\ ~y.cancelled /\ y.loop = "none"
    BY <1>1, <2>2 DEF TypeOK, LockInv
  <2>4. x \in Clusters
    BY <1>1, <2>3, FieldTypes
  <2>5. /\ x.name = n /\ x.client = y.client /\ x.publisher = y.publisher /\ x.cancelled = y.cancelled /\ x.loop = y.loop
        /\ x.round = y.round /\ x.store = y.store /\ x.ready = y.ready
    BY <2>3 DEF Clusters
  <2>6. clusters' = [clusters EXCEPT ![n] = 0]
    BY <1>1, <2>1 DEF TypeOK
  <2> HIDE DEF x
  <2>7. Worked(n, i, y, m, x, 0, "newAdmin", i)
    BY <2>1, <2>2, <2>3, <2>5 DEF Worked, Holding, Adding, Removing
  <2>8. WorkStep(c, i, x, 0, "newAdmin", i)
    BY <1>1, <1>2, <1>3, <2>1, <2>2, <2>6 DEF WorkStep
  <2> HIDE DEF i, y, n, m
  <2>9. Worked(name[c], i, cc[i], clusters[name[c]], x, 0, "newAdmin", i)
    BY <2>7 DEF i, y, n, m
  <2> QED BY <2>2, <2>4, <2>8, <2>9, Work DEF Locked, Adding
<1>5. CASE RemoveCancel(c)
  <2> DEFINE i == m
             y == cc[m]
             x == [y EXCEPT !.cancelled = TRUE]
  <2>1. /\ m # 0 /\ pc' = [pc EXCEPT ![c] = "close"] /\ lock' = c
        /\ cur' = [cur EXCEPT ![c] = i] /\ cc' = [cc EXCEPT ![i] = x]
        /\ UNCHANGED <<clusters, stopped, made, name, toAdd, toClose, probe>>
    BY <1>5 DEF RemoveCancel, Goto
  <2>2. i \in Made /\ i <= made /\ made' >= made /\ made' \in 0..MaxMade
    BY <1>1, <2>1, Constants DEF LockInv
  <2>3. y \in Clusters /\ y.name = n
    BY <1>1, <2>1, <2>2 DEF TypeOK, LockInv
  <2>4. x \in Clusters
    BY <2>3, FieldTypes
  <2>5. /\ x.name = y.name /\ x.client = y.client /\ x.publisher = y.publisher /\ x.loop = y.loop
        /\ x.round = y.round /\ x.store = y.store /\ x.ready = y.ready
    BY <2>3 DEF Clusters
  <2>6. clusters' = [clusters EXCEPT ![n] = m]
    BY <1>1, <2>1 DEF TypeOK
  <2> HIDE DEF x
  <2>7. Worked(n, i, y, m, x, m, "close", i)
    BY <2>1, <2>2, <2>3, <2>5 DEF Worked, Holding, Adding, Removing
  <2>8. WorkStep(c, i, x, m, "close", i)
    BY <1>1, <1>2, <1>3, <2>1, <2>2, <2>3, <2>6 DEF WorkStep
  <2> QED BY <2>2, <2>4, <2>7, <2>8, Work DEF Locked, Removing
<1> QED BY <1>4, <1>5

\* A caller goes from one place outside the lock to another: main adds the next cluster, serves,
\* shuts down and cancels the context, a call begins, or it finds its name taken or unknown.
FreeStep(c) ==
    /\ \E at \in Places \ Locked : pc' = [pc EXCEPT ![c] = at]
    /\ pc[c] \notin Locked
    /\ pc'[c] \in {"serve", "cancelAll", "stop"} => c = "main"
    /\ pc'["main"] = "stop" => stopped'
    /\ stopped => stopped'
    /\ stopped' \in BOOLEAN
    /\ name' \in [Callers -> Names]
    /\ \A d \in Callers \ {c} : name'[d] = name[d]
    /\ toAdd' \in Seq(Names)
    /\ UNCHANGED <<clusters, lock, made, cc, cur, toClose, probe>>

\* Such steps keep the invariant.
LEMMA FreeSteps ==
    ASSUME Inv, NEW c \in Callers, FreeStep(c)
    PROVE  Inv'
<1>1. TypeOK /\ LockInv /\ OpenInv /\ ReadyInv /\ UNCHANGED <<clusters, lock, made, cc, cur, toClose, probe>>
  BY DEF Inv, FreeStep
<1>2. /\ pc' \in [Callers -> Places] /\ pc'[c] \in Places \ Locked /\ pc[c] \notin Locked
      /\ \A d \in Callers \ {c} : pc'[d] = pc[d]
  BY <1>1 DEF FreeStep, TypeOK
<1>3. TypeOK'
  BY <1>1, <1>2 DEF TypeOK, FreeStep
<1>4. LockInv'
  <2>1. \A d \in Callers : pc'[d] \in Locked <=> lock' = d
    BY <1>1, <1>2 DEF LockInv
  <2>2. \A d \in Callers : cur'[d] <= made' /\ Holding(pc'[d], name'[d], cur'[d], clusters'[name'[d]], cc'[cur'[d]])
    <3>1. ASSUME NEW d \in Callers \ {c}
          PROVE  cur'[d] <= made' /\ Holding(pc'[d], name'[d], cur'[d], clusters'[name'[d]], cc'[cur'[d]])
      BY <1>1, <1>2 DEF LockInv, FreeStep
    <3>2. cur[c] <= made /\ Holding(pc[c], name[c], cur[c], clusters[name[c]], cc[cur[c]])
      BY <1>1 DEF LockInv
    <3>3. cur[c] = 0
      BY <1>2, <3>2 DEF Holding, Locked
    <3>4. pc'[c] \notin Adding \cup Removing
      BY <1>2 DEF Locked
    <3>5. Holding(pc'[c], name'[c], cur'[c], clusters'[name'[c]], cc'[cur'[c]])
      BY <1>1, <3>3, <3>4 DEF Holding, Adding, Removing
    <3> QED BY <1>1, <3>1, <3>2, <3>5
  <2>3. \A d \in Operators : pc'[d] \notin {"serve", "cancelAll", "stop", "closeAll"}
    BY <1>1, <1>2, Constants DEF LockInv, FreeStep, Locked
  <2>4. pc'["main"] \in {"stop", "closeAll"} => stopped'
    BY <1>1, <1>2, Constants DEF LockInv, FreeStep, Locked
  <2> QED BY <1>1, <2>1, <2>2, <2>3, <2>4 DEF LockInv
<1>5. OpenInv'
  <2>1. OpenIsOwned'
    BY <1>1 DEF OpenInv, OpenIsOwned, Registered
  <2>2. lock # NoOne => lock \in Callers /\ lock # c
    BY <1>1, <1>2 DEF TypeOK, LockInv
  <2>3. lock # NoOne => pc'[lock] = pc[lock]
    BY <1>2, <2>2
  <2>4. pc'["main"] = "closeAll" => pc["main"] = "closeAll"
    BY <1>2, Constants DEF Locked
  <2> QED BY <1>1, <2>1, <2>3, <2>4 DEF OpenInv, FreeStep
<1>6. ReadyInv'
  BY <1>1 DEF ReadyInv
<1> QED BY <1>3, <1>4, <1>5, <1>6 DEF Inv
\* The steps of main and of the calls that need not hold the lock.
LEMMA FreeActions ==
    ASSUME TypeOK, LockInv,
           \/ MainAdd \/ MainServe \/ MainShutdown \/ StopCancel
           \/ \E c \in Operators, n \in Names, op \in {"add", "remove"} : Call(c, n, op)
           \/ \E c \in Callers : AddExists(c) \/ RemoveMissing(c)
    PROVE  \E c \in Callers : FreeStep(c)
<1>1. /\ {"idle", "add", "remove", "serve", "cancelAll", "stop"} \subseteq Places \ Locked
      /\ stopped \in BOOLEAN /\ name \in [Callers -> Names] /\ toAdd \in Seq(Names) /\ pc \in [Callers -> Places]
  BY DEF Places, Locked, Adding, Removing, TypeOK
<1>2. ASSUME NEW c \in Callers, NEW from \in {"idle", "add", "remove", "serve", "cancelAll", "stop"},
             NEW to \in {"idle", "add", "remove", "serve", "cancelAll", "stop"}, Goto(c, from, to),
             to \in {"serve", "cancelAll", "stop"} => c = "main", to = "stop" => stopped',
             stopped => stopped', stopped' \in BOOLEAN, name' \in [Callers -> Names],
             \A d \in Callers \ {c} : name'[d] = name[d], toAdd' \in Seq(Names),
             UNCHANGED <<clusters, lock, made, cc, cur, toClose, probe>>
      PROVE  FreeStep(c)
  <2>1. pc' = [pc EXCEPT ![c] = to] /\ pc[c] = from /\ from \notin Locked /\ to \in Places \ Locked /\ pc'[c] = to
    BY <1>1, <1>2 DEF Goto
  <2>2. pc'["main"] = "stop" => stopped'
    BY <1>1, <1>2, <2>1, Constants DEF LockInv
  <2> QED BY <1>2, <2>1, <2>2 DEF FreeStep
<1>3. CASE MainAdd
  <2>1. Head(toAdd) \in Names /\ Tail(toAdd) \in Seq(Names)
    BY <1>1, <1>3, HeadTailProperties DEF MainAdd
  <2>2. /\ Goto("main", "idle", "add") /\ name' = [name EXCEPT !["main"] = Head(toAdd)] /\ toAdd' = Tail(toAdd)
        /\ UNCHANGED <<clusters, lock, stopped, made, cc, cur, toClose, probe>>
    BY <1>3 DEF MainAdd
  <2>3. name' \in [Callers -> Names] /\ \A d \in Callers \ {"main"} : name'[d] = name[d]
    BY <1>1, <2>1, <2>2
  <2> QED BY <1>1, <1>2, <2>1, <2>2, <2>3, Constants
<1>4. CASE MainServe \/ MainShutdown
  <2>1. /\ Goto("main", "idle", "serve") \/ Goto("main", "serve", "cancelAll")
        /\ UNCHANGED <<clusters, lock, stopped, made, cc, name, cur, toAdd, toClose, probe>>
    BY <1>4 DEF MainServe, MainShutdown
  <2> QED BY <1>1, <1>2, <2>1, Constants
<1>5. CASE StopCancel
  <2>1. /\ Goto("main", "cancelAll", "stop") /\ stopped' /\ stopped' \in BOOLEAN
        /\ UNCHANGED <<clusters, lock, made, cc, name, cur, toAdd, toClose, probe>>
    BY <1>5 DEF StopCancel
  <2> QED BY <1>1, <1>2, <2>1, Constants
<1>6. CASE \E c \in Operators, n \in Names, op \in {"add", "remove"} : Call(c, n, op)
  <2>1. PICK c \in Operators, n \in Names, op \in {"add", "remove"} : Call(c, n, op)
    BY <1>6
  <2>2. /\ Goto(c, "idle", op) /\ name' = [name EXCEPT ![c] = n]
        /\ UNCHANGED <<clusters, lock, stopped, made, cc, cur, toAdd, toClose, probe>>
    BY <2>1 DEF Call
  <2>3. c \in Callers /\ name' \in [Callers -> Names] /\ \A d \in Callers \ {c} : name'[d] = name[d]
    BY <1>1, <2>2, Constants
  <2> QED BY <1>1, <1>2, <2>2, <2>3
<1>7. CASE \E c \in Callers : AddExists(c) \/ RemoveMissing(c)
  <2>1. PICK c \in Callers : AddExists(c) \/ RemoveMissing(c)
    BY <1>7
  <2>2. /\ Goto(c, "add", "idle") \/ Goto(c, "remove", "idle")
        /\ UNCHANGED <<clusters, lock, stopped, made, cc, name, cur, toAdd, toClose, probe>>
    BY <2>1 DEF AddExists, RemoveMissing
  <2> QED BY <1>1, <1>2, <2>2
<1> QED BY <1>3, <1>4, <1>5, <1>6, <1>7

\* A step of a collection loop keeps the invariant.
LEMMA CollectSteps ==
    ASSUME Inv, NEW i \in Made, Collect(i) \/ Tick(i) \/ Done(i)
    PROVE  Inv'
<1>1. TypeOK /\ LockInv /\ OpenInv /\ ReadyInv
  BY DEF Inv
<1>2. PICK x \in Clusters :
        /\ cc' = [cc EXCEPT ![i] = x] /\ UNCHANGED <<clusters, lock, stopped, made, callVars, probe>>
        /\ LoopChange(cc[i], x, ContextDone(i))
  BY <1>1, LoopSteps
<1>3. cc' \in [Made -> Clusters] /\ cc'[i] = x /\ \A j \in Made \ {i} : cc'[j] = cc[j]
  BY <1>1, <1>2, ChangeOne
<1>4. UNCHANGED <<clusters, lock, stopped, made, pc, name, cur, toAdd, toClose, probe>>
  BY <1>2 DEF callVars
<1>5. TypeOK'
  BY <1>1, <1>3, <1>4 DEF TypeOK
<1>6. /\ cc[i].loop # "none" /\ x.loop # "none" /\ x.name = cc[i].name /\ x.client = cc[i].client
      /\ x.cancelled = cc[i].cancelled /\ x.publisher = cc[i].publisher
      /\ x.loop = "stopped" => cc[i].cancelled \/ stopped
  BY <1>2 DEF LoopChange, ContextDone
<1>7. \A j \in Made :
         /\ cc'[j].name = cc[j].name /\ cc'[j].client = cc[j].client
         /\ cc'[j].cancelled = cc[j].cancelled /\ cc'[j].publisher = cc[j].publisher
         /\ cc'[j].loop = "none" <=> cc[j].loop = "none"
         /\ cc'[j].loop = "stopped" => cc[j].loop = "stopped" \/ cc[j].cancelled \/ stopped
  BY <1>3, <1>6
<1>8. LockInv'
  <2>1. \A c \in Callers : cur'[c] <= made' /\ Holding(pc'[c], name'[c], cur'[c], clusters'[name'[c]], cc'[cur'[c]])
    <3> SUFFICES ASSUME NEW c \in Callers
                 PROVE  cur[c] <= made /\ Holding(pc[c], name[c], cur[c], clusters[name[c]], cc'[cur[c]])
      BY <1>4
    <3>1. cur[c] <= made /\ Holding(pc[c], name[c], cur[c], clusters[name[c]], cc[cur[c]]) /\ cur[c] \in 0..MaxMade
      BY <1>1 DEF LockInv, TypeOK
    <3>2. CASE cur[c] = 0
      BY <3>1, <3>2 DEF Holding, Adding, Removing
    <3>3. CASE cur[c] # 0
      <4>1. cur[c] \in Made
        BY <3>1, <3>3, Constants
      <4> QED BY <3>1, <4>1, <1>7 DEF Holding
    <3> QED BY <3>2, <3>3
  <2>2. \A n \in Names : clusters'[n] # 0 => cc'[clusters'[n]].name = n
    <3>1. \A n \in Names : clusters[n] # 0 => clusters[n] \in Made
      BY <1>1, Constants DEF TypeOK
    <3> QED BY <1>1, <1>4, <1>7, <3>1 DEF LockInv
  <2> QED BY <1>1, <1>4, <1>7, <2>1, <2>2 DEF LockInv
<1>9. OpenInv'
  <2>1. OpenIsOwned'
    BY <1>1, <1>4, <1>7 DEF OpenInv, OpenIsOwned, Registered
  <2>2. \A n \in Names : clusters[n] # 0 => clusters[n] \in Made
    BY <1>1, Constants DEF TypeOK
  <2> QED BY <1>1, <1>4, <1>7, <2>1, <2>2 DEF OpenInv
<1>10. ReadyInv'
  <2>1. /\ x.loop \in {"offsets", "store"} => x.round > 0
        /\ x.loop = "mark" \/ x.ready => x.store > 0
    BY <1>1, <1>2 DEF ReadyInv, LoopChange
  <2>2. cc[i].ready => x.ready
    BY <1>2 DEF LoopChange
  <2> QED BY <1>1, <1>3, <1>4, <2>1, <2>2 DEF ReadyInv
<1> QED BY <1>5, <1>8, <1>9, <1>10 DEF Inv

\* The readiness handler keeps the invariant.
LEMMA ProbeSteps ==
    ASSUME Inv, ProbeRequest \/ Handle
    PROVE  Inv'
<1>1. TypeOK /\ LockInv /\ OpenInv /\ ReadyInv
  BY DEF Inv
<1>2. UNCHANGED <<clusters, lock, stopped, made, cc, pc, name, cur, toAdd, toClose>>
  BY DEF ProbeRequest, Handle, ProbeStart, ProbeDetail, ProbeCount, ProbeGroups, ProbeReply, callVars
<1>3. probe \in Probes /\ NoProbe \in Probes /\ Registered \subseteq Made
  BY <1>1, Constants DEF TypeOK, Probes, NoProbe, Registered
<1>4. NextCluster \in Probes /\ NextCluster.pc = "each"
  <2>1. 0 \in 0..MaxMade
    BY Constants
  <2> QED BY <1>3, <2>1 DEF NextCluster, Probes
<1>5. /\ probe' \in Probes
      /\ probe'.pc \in {"count", "groups"} => probe'.cluster \in Made
      /\ probe'.pc = "count" /\ probe'.detail => cc[probe'.cluster].ready
      /\ probe'.pc = "groups" => cc[probe'.cluster].ready
  <2>1. CASE ProbeRequest
    BY <1>3, <2>1 DEF ProbeRequest, Probes
  <2>2. CASE ProbeStart
    BY <1>3, <2>2 DEF ProbeStart, Probes, NoProbe
  <2>3. ASSUME NEW i \in Made, ProbeDetail(i)
        PROVE  /\ probe' \in Probes /\ probe'.pc = "count" /\ probe'.cluster \in Made
               /\ probe'.detail => cc[probe'.cluster].ready
    <3>1. cc[i].ready \in BOOLEAN /\ i \in 0..MaxMade
      BY <1>1, Constants DEF TypeOK, Clusters
    <3> QED BY <1>3, <2>3, <3>1 DEF ProbeDetail, Probes
  <2>4. CASE ProbeCount
    <3>1. probe.pc = "count" /\ probe.cluster \in Made
      BY <1>1, <2>4 DEF ProbeCount, ReadyInv
    <3>2. CASE cc[probe.cluster].ready
      BY <1>3, <2>4, <3>1, <3>2 DEF ProbeCount, Probes
    <3>3. CASE ~cc[probe.cluster].ready
      BY <1>4, <2>4, <3>3 DEF ProbeCount
    <3> QED BY <3>2, <3>3
  <2>5. CASE ProbeGroups
    BY <1>4, <2>5 DEF ProbeGroups
  <2>6. CASE ProbeReply
    BY <1>3, <2>6 DEF ProbeReply, NoProbe
  <2> QED BY <2>1, <2>2, <2>3, <2>4, <2>5, <2>6 DEF Handle
<1>6. TypeOK'
  BY <1>1, <1>2, <1>5 DEF TypeOK
<1>7. LockInv' /\ OpenInv'
  BY <1>1, <1>2 DEF LockInv, OpenInv, OpenIsOwned, Registered
<1>8. ReadyInv'
  BY <1>1, <1>2, <1>5 DEF ReadyInv
<1> QED BY <1>6, <1>7, <1>8 DEF Inv

\* Stop under the lock keeps the invariant.
LEMMA StopSteps ==
    ASSUME Inv, StopLock \/ (\E i \in Made : StopClose(i)) \/ StopUnlock
    PROVE  Inv'
<1>1. TypeOK /\ LockInv /\ OpenInv /\ ReadyInv
  BY DEF Inv
<1>2. pc["main"] \in {"stop", "closeAll"} /\ stopped /\ UNCHANGED <<clusters, stopped, made, name, toAdd, probe>>
  <2>1. pc["main"] \in {"stop", "closeAll"} /\ UNCHANGED <<clusters, stopped, made, name, toAdd, probe>>
    BY DEF StopLock, StopClose, StopUnlock, Unlock, Goto
  <2> QED BY <1>1, <2>1 DEF LockInv
<1>3. /\ cur["main"] = 0
      /\ \A c \in Callers : cur[c] <= made /\ Holding(pc[c], name[c], cur[c], clusters[name[c]], cc[cur[c]])
  <2>1. \A c \in Callers : cur[c] <= made /\ Holding(pc[c], name[c], cur[c], clusters[name[c]], cc[cur[c]])
    BY <1>1 DEF LockInv
  <2> QED BY <1>2, <2>1, Constants DEF Holding, Adding, Removing
<1>4. \A c \in Callers \ {"main"} : pc[c] \notin Adding \cup Removing /\ lock # c
  BY <1>1, <1>2, Constants DEF LockInv, StopLock, StopClose, StopUnlock, Unlock, Locked
<1>5. CASE StopLock
  <2>1. /\ lock = NoOne /\ pc' = [pc EXCEPT !["main"] = "closeAll"] /\ lock' = "main" /\ toClose' = Registered
        /\ UNCHANGED <<cc, cur>>
    BY <1>5 DEF StopLock, Goto
  <2>2. pc' \in [Callers -> Places] /\ pc'["main"] = "closeAll" /\ \A c \in Callers \ {"main"} : pc'[c] = pc[c]
    BY <1>1, <2>1, Constants DEF TypeOK, Places, Locked
  <2>3. TypeOK'
    BY <1>1, <1>2, <2>1, <2>2, Constants DEF TypeOK, Registered
  <2>4. LockInv'
    <3>1. \A c \in Callers : pc'[c] \in Locked <=> lock' = c
      BY <1>1, <2>1, <2>2, Constants DEF LockInv, Locked
    <3>2. \A c \in Callers : cur'[c] <= made' /\ Holding(pc'[c], name'[c], cur'[c], clusters'[name'[c]], cc'[cur'[c]])
      BY <1>2, <1>3, <2>1, <2>2 DEF Holding, Adding, Removing
    <3>3. \A i \in toClose' : i <= made'
      BY <1>1, <1>2, <2>1 DEF LockInv, Registered
    <3> QED BY <1>1, <1>2, <2>1, <2>2, <3>1, <3>2, <3>3, Constants DEF LockInv
  <2>5. OpenInv'
    <3>1. \A i \in Made : cc[i].client # "closed" \/ cc[i].publisher => i \in Registered
      BY <1>1, <2>1 DEF OpenInv, OpenIsOwned, TypeOK, Clusters
    <3>2. Registered' = Registered
      BY <1>2 DEF Registered
    <3> QED BY <1>2, <2>1, <3>1, <3>2 DEF OpenInv, OpenIsOwned
  <2>6. ReadyInv'
    BY <1>1, <1>2, <2>1 DEF ReadyInv
  <2> QED BY <2>3, <2>4, <2>5, <2>6 DEF Inv
<1>6. ASSUME NEW i \in Made, StopClose(i) PROVE Inv'
  <2> DEFINE x == [Closed(cc[i]) EXCEPT !.cancelled = TRUE]
  <2>1. /\ pc["main"] = "closeAll" /\ i \in toClose /\ cc' = [cc EXCEPT ![i] = x] /\ toClose' = toClose \ {i}
        /\ UNCHANGED <<lock, pc, cur>>
    BY <1>6 DEF StopClose
  <2>2. /\ x \in Clusters /\ x.client = "closed" /\ ~x.publisher /\ x.name = cc[i].name /\ x.loop = cc[i].loop
        /\ x.round = cc[i].round /\ x.store = cc[i].store /\ x.ready = cc[i].ready
    <3>1. cc[i] \in Clusters
      BY <1>1 DEF TypeOK
    <3> QED BY <3>1 DEF Closed, Clusters
  <2> HIDE DEF x
  <2>3. cc' \in [Made -> Clusters] /\ cc'[i] = x /\ \A j \in Made \ {i} : cc'[j] = cc[j]
    BY <1>1, <2>1, <2>2, ChangeOne
  <2>4. TypeOK'
    BY <1>1, <1>2, <2>1, <2>3 DEF TypeOK
  <2>5. lock = "main"
    BY <1>1, <2>1, Constants DEF LockInv, Locked
  <2>6. LockInv'
    <3>1. \A c \in Callers : cur'[c] <= made' /\ Holding(pc'[c], name'[c], cur'[c], clusters'[name'[c]], cc'[cur'[c]])
      <4>1. \A c \in Callers : pc[c] \notin Adding \cup Removing
        BY <1>4, <2>1 DEF Adding, Removing
      <4>2. \A c \in Callers : cur[c] <= made /\ cur[c] = 0
        BY <1>3, <4>1 DEF Holding
      <4> QED BY <1>2, <2>1, <4>1, <4>2 DEF Holding, Adding, Removing
    <3>2. \A n \in Names : clusters'[n] # 0 => cc'[clusters'[n]].name = n
      <4>1. \A n \in Names : clusters[n] # 0 => clusters[n] \in Made
        BY <1>1, Constants DEF TypeOK
      <4> QED BY <1>1, <1>2, <2>2, <2>3, <4>1 DEF LockInv
    <3>3. ~(i > made)
      <4>1. i \in Nat /\ made \in Nat /\ i <= made
        BY <1>1, <2>1, Constants DEF LockInv, TypeOK
      <4> QED BY <4>1
    <3> QED BY <1>1, <1>2, <2>1, <2>3, <3>1, <3>2, <3>3 DEF LockInv
  <2>7. OpenInv'
    <3>1. OpenIsOwned'
      BY <1>1, <1>2, <2>1, <2>2, <2>3 DEF OpenInv, OpenIsOwned, Registered
    <3> QED BY <1>1, <1>2, <2>1, <2>2, <2>3, <3>1 DEF OpenInv
  <2>8. ReadyInv'
    BY <1>1, <1>2, <2>2, <2>3 DEF ReadyInv
  <2> QED BY <2>4, <2>6, <2>7, <2>8 DEF Inv
<1>7. CASE StopUnlock
  <2>1. /\ pc["main"] = "closeAll" /\ pc' = [pc EXCEPT !["main"] = "idle"] /\ lock = "main" /\ lock' = NoOne
        /\ cur' = [cur EXCEPT !["main"] = 0] /\ UNCHANGED <<cc, toClose>>
    BY <1>7 DEF StopUnlock, Unlock, Goto
  <2>2. /\ pc' \in [Callers -> Places] /\ pc'["main"] = "idle" /\ \A c \in Callers \ {"main"} : pc'[c] = pc[c]
        /\ cur' = cur
    BY <1>1, <1>3, <2>1, Constants DEF TypeOK, Places
  <2>3. TypeOK'
    BY <1>1, <1>2, <2>1, <2>2 DEF TypeOK
  <2>4. LockInv'
    <3>1. \A c \in Callers : pc'[c] \in Locked <=> lock' = c
      BY <1>1, <1>4, <2>1, <2>2, Constants DEF LockInv, Locked, Adding, Removing
    <3>2. \A c \in Callers : cur'[c] <= made' /\ Holding(pc'[c], name'[c], cur'[c], clusters'[name'[c]], cc'[cur'[c]])
      BY <1>2, <1>3, <2>1, <2>2 DEF Holding, Adding, Removing
    <3> QED BY <1>1, <1>2, <2>1, <2>2, <3>1, <3>2, Constants DEF LockInv
  <2>5. OpenInv'
    <3>1. \A i \in Made : i # 0
      BY Constants
    <3>2. Registered' = Registered
      BY <1>2 DEF Registered
    <3>3. OpenIsOwned'
      BY <1>1, <1>3, <2>1, <3>1, <3>2 DEF OpenInv, OpenIsOwned
    <3> QED BY <1>2, <2>2, <3>3 DEF OpenInv
  <2>6. ReadyInv'
    BY <1>1, <1>2, <2>1 DEF ReadyInv
  <2> QED BY <2>3, <2>4, <2>5, <2>6 DEF Inv
<1> QED BY <1>5, <1>6, <1>7

\* The invariant holds at the start,
LEMMA InvInit == Init => Inv
<1> SUFFICES ASSUME Init PROVE Inv
  OBVIOUS
<1>1. TypeOK /\ LockInv
  BY TypeInit
<1>2. made = 0 /\ probe = NoProbe /\ pc["main"] = "idle" /\ \A n \in Names : clusters[n] = 0
  BY Constants DEF Init
<1>3. \A i \in Made : i > made
  BY <1>2 DEF Made
<1>4. \A i \in Made : cc[i].client = "closed" /\ ~cc[i].publisher /\ cc[i].loop = "none"
  BY <1>1, <1>3 DEF LockInv
<1>5. OpenInv
  BY <1>2, <1>4 DEF OpenInv, OpenIsOwned
<1>6. \A i \in Made : ~cc[i].ready
  BY DEF Init
<1>7. ReadyInv
  BY <1>2, <1>4, <1>6 DEF ReadyInv, NoProbe
<1> QED BY <1>1, <1>5, <1>7 DEF Inv

\* and every step keeps it.
LEMMA InvStep == Inv /\ [Next]_vars => Inv'
<1> SUFFICES ASSUME Inv, [Next]_vars PROVE Inv'
  OBVIOUS
<1>1. TypeOK /\ LockInv
  BY DEF Inv
<1>2. CASE \/ MainAdd \/ MainServe \/ MainShutdown \/ StopCancel
           \/ \E c \in Operators, n \in Names, op \in {"add", "remove"} : Call(c, n, op)
           \/ \E c \in Callers : AddExists(c) \/ RemoveMissing(c)
  BY <1>1, <1>2, FreeActions, FreeSteps
<1>3. CASE StopLock \/ (\E i \in Made : StopClose(i)) \/ StopUnlock
  BY <1>3, StopSteps
<1>4. ASSUME NEW c \in Callers,
             \/ NewAdmin(c) \/ NewAdminError(c) \/ NewConsumer(c) \/ NewConsumerError(c)
             \/ NewPublisher(c) \/ Register(c) \/ RemoveClose(c) \/ RemoveDelete(c)
      PROVE  Inv'
  BY <1>4, HeldSteps
<1>5. ASSUME NEW c \in Callers, AddNew(c) \/ RemoveCancel(c) PROVE Inv'
  BY <1>5, TakingSteps
<1>6. ASSUME NEW i \in Made, Collect(i) \/ Tick(i) \/ Done(i) PROVE Inv'
  BY <1>6, CollectSteps
<1>7. CASE ProbeRequest \/ Handle
  BY <1>7, ProbeSteps
<1>8. CASE UNCHANGED vars
  BY <1>8 DEF vars, callVars, Inv, TypeOK, LockInv, OpenInv, ReadyInv, OpenIsOwned, Registered
<1> QED BY <1>2, <1>3, <1>4, <1>5, <1>6, <1>7, <1>8 DEF Next, Proceed, Stop

\* No step but NewPublisher opens a publisher or leaves a stray, and that one does not do both.
LEMMA StrayStep == Inv /\ StraysOfPings /\ [Next]_vars => StraysOfPings'
<1> DEFINE Same(j) == cc'[j].stray = cc[j].stray /\ (cc'[j].publisher => cc[j].publisher)
<1> SUFFICES ASSUME Inv, StraysOfPings, [Next]_vars PROVE StraysOfPings'
  OBVIOUS
<1>1. TypeOK /\ LockInv /\ cc \in [Made -> Clusters]
  BY DEF Inv, TypeOK
<1>2. ASSUME \A j \in Made : Same(j) PROVE StraysOfPings'
  BY <1>2 DEF StraysOfPings
<1>3. ASSUME cc' = cc PROVE StraysOfPings'
  BY <1>2, <1>3
<1>4. ASSUME NEW i, NEW y,
             \/ cc' = [cc EXCEPT ![i].name = y] \/ cc' = [cc EXCEPT ![i].client = y]
             \/ cc' = [cc EXCEPT ![i].cancelled = y] \/ cc' = [cc EXCEPT ![i].loop = y]
      PROVE  StraysOfPings'
  <2>1. ASSUME NEW j \in Made PROVE Same(j)
    BY <1>1, <1>4 DEF Clusters
  <2> QED BY <1>2, <2>1
<1>5. ASSUME NEW i \in Made,
             \/ cc' = [cc EXCEPT ![i] = Closed(@)]
             \/ cc' = [cc EXCEPT ![i] = [Closed(@) EXCEPT !.cancelled = TRUE]]
      PROVE  StraysOfPings'
  <2>1. ASSUME NEW x \in Clusters, cc' = [cc EXCEPT ![i] = x], x.stray = cc[i].stray, ~x.publisher
        PROVE  StraysOfPings'
    BY <1>1, <2>1, ChangeOne DEF StraysOfPings
  <2>2. Closed(cc[i]) \in Clusters /\ Closed(cc[i]).stray = cc[i].stray /\ ~Closed(cc[i]).publisher
    BY <1>1 DEF Clusters, Closed
  <2> DEFINE x == [Closed(cc[i]) EXCEPT !.cancelled = TRUE]
  <2>3. x \in Clusters /\ x.stray = cc[i].stray /\ ~x.publisher
    BY <1>1 DEF Clusters, Closed
  <2>4. cc' = [cc EXCEPT ![i] = Closed(cc[i])] \/ cc' = [cc EXCEPT ![i] = x]
    BY <1>5
  <2> HIDE DEF x
  <2> QED BY <2>1, <2>2, <2>3, <2>4
<1>6. ASSUME NEW c \in Callers, NewPublisher(c) PROVE StraysOfPings'
  <2>1. PICK connected \in {RCAEnabled, FALSE} :
          cc' = [cc EXCEPT ![cur[c]].publisher = connected, ![cur[c]].stray = RCAEnabled /\ ~connected]
    BY <1>6 DEF NewPublisher
  <2>2. ASSUME NEW j \in Made, cc'[j].stray PROVE RCAEnabled /\ ~cc'[j].publisher
    <3>1. CASE j = cur[c]
      <4>1. cc'[j].stray = (RCAEnabled /\ ~connected) /\ cc'[j].publisher = connected
        BY <1>1, <2>1, <3>1 DEF Clusters
      <4> QED BY <2>2, <4>1
    <3>2. CASE j # cur[c]
      BY <1>1, <2>1, <2>2, <3>2 DEF StraysOfPings
    <3> QED BY <3>1, <3>2
  <2> QED BY <2>2 DEF StraysOfPings
<1>7. ASSUME NEW i \in Made, Collect(i) \/ Tick(i) \/ Done(i) PROVE StraysOfPings'
  <2>1. PICK x \in Clusters : cc' = [cc EXCEPT ![i] = x] /\ LoopChange(cc[i], x, ContextDone(i))
    BY <1>1, <1>7, LoopSteps
  <2>2. \A j \in Made : cc'[j] = IF j = i THEN x ELSE cc[j]
    BY <1>1, <2>1
  <2> QED BY <1>2, <2>1, <2>2 DEF LoopChange
<1>8. CASE UNCHANGED vars
  BY <1>3, <1>8 DEF vars
<1>9. CASE MainAdd \/ MainServe \/ MainShutdown \/ ProbeRequest \/ Handle
  BY <1>3, <1>9 DEF MainAdd, MainServe, MainShutdown, ProbeRequest, Handle, ProbeStart, ProbeDetail,
                    ProbeCount, ProbeGroups, ProbeReply
<1>10. CASE \E c \in Operators, n \in Names, op \in {"add", "remove"} : Call(c, n, op)
  BY <1>3, <1>10 DEF Call
<1>11. CASE StopCancel \/ StopLock \/ StopUnlock
  BY <1>3, <1>11 DEF StopCancel, StopLock, StopUnlock
<1>12. ASSUME NEW i \in Made, StopClose(i) PROVE StraysOfPings'
  BY <1>5, <1>12 DEF StopClose
<1>13. ASSUME NEW c \in Callers, AddExists(c) \/ NewAdminError(c) \/ RemoveMissing(c) \/ RemoveDelete(c)
       PROVE  StraysOfPings'
  BY <1>3, <1>13 DEF AddExists, NewAdminError, RemoveMissing, RemoveDelete
<1>14. ASSUME NEW c \in Callers, \/ AddNew(c) \/ NewAdmin(c) \/ NewConsumer(c)
                                \/ NewConsumerError(c) \/ RemoveCancel(c) \/ Register(c)
       PROVE  StraysOfPings'
  BY <1>4, <1>14 DEF AddNew, NewAdmin, NewConsumer, NewConsumerError, RemoveCancel, Register
<1>15. ASSUME NEW c \in Callers, RemoveClose(c) PROVE StraysOfPings'
  <2>1. cc' = [cc EXCEPT ![cur[c]] = Closed(@)] /\ pc[c] \in Removing
    BY <1>15 DEF RemoveClose, Goto, Removing
  <2>2. cur[c] \in Made
    BY <1>1, <2>1, HolderWorks
  <2> QED BY <1>5, <2>1, <2>2
<1> QED BY <1>6, <1>7, <1>8, <1>9, <1>10, <1>11, <1>12, <1>13, <1>14, <1>15 DEF Next, Proceed, Stop

-----------------------------------------------------------------------------
(* Theorems *)

\* Whatever callers add, fail to add and remove, and whenever main stops the manager, no Kafka
\* client and no publisher is left open that neither the map nor the call making it knows.  A Redis
\* client is left open by a failed first ping only, and by one for each cluster at most.
THEOREM NoHandleLeaks == Spec => []HandlesOwned
<1>1. Init => StraysOfPings
  BY DEF Init, StraysOfPings
<1>2. Inv => OpenIsOwned
  BY DEF Inv, OpenInv
<1>3. Spec => [](Inv /\ StraysOfPings)
  BY <1>1, InvInit, InvStep, StrayStep, PTL DEF Spec
<1> QED BY <1>2, <1>3, PTL DEF HandlesOwned

\* Unless the lock is held or the manager stopped, each registered cluster has an open client, a
\* context that is not cancelled and a running loop.
THEOREM RegisteredMonitored == Spec => []RegisteredIsMonitored
<1>1. Inv => RegisteredIsMonitored
  BY Constants DEF Inv, OpenInv, RegisteredIsMonitored, Registered
<1> QED BY <1>1, InvInit, InvStep, PTL DEF Spec

\* When Stop has gone through the map, everything is closed.
THEOREM StopLeavesNothingOpen == Spec => []StopClosesAll
<1>1. Inv => StopClosesAll
  BY DEF Inv, OpenInv, StopClosesAll
<1> QED BY <1>1, InvInit, InvStep, PTL DEF Spec

\* The three reads of the readiness handler agree although the loops go on between them.
THEOREM ReplyIsConsistent == Spec => []ReplyConsistent
<1>1. Inv => ReplyConsistent
  BY DEF Inv, ReadyInv, ReplyConsistent
<1> QED BY <1>1, InvInit, InvStep, PTL DEF Spec
-----------------------------------------------------------------------------
(* Collections *)

\* Nothing that a collection is about changes but that it is started or cancelled.
Quiet ==
    \A j \in Made :
        /\ cc'[j].round = cc[j].round /\ cc'[j].store = cc[j].store /\ cc'[j].ready = cc[j].ready
        /\ cc'[j].loop = cc[j].loop \/ (cc[j].loop = "none" /\ cc'[j].loop = "list")
        /\ cc[j].cancelled => cc'[j].cancelled
        /\ stopped => stopped'

\* All but the steps of the collection loops are quiet.
LEMMA QuietSteps ==
    ASSUME Inv, [Next]_vars
    PROVE  Quiet \/ \E i \in Made : Collect(i) \/ Tick(i) \/ Done(i)
<1>1. TypeOK /\ LockInv /\ cc \in [Made -> Clusters]
  BY DEF Inv, TypeOK
<1>2. ASSUME cc' = cc, stopped => stopped' PROVE Quiet
  BY <1>2 DEF Quiet
<1>3. ASSUME stopped' = stopped, NEW i, NEW n, cc' = [cc EXCEPT ![i].name = n]
      PROVE  Quiet
  BY <1>1, <1>3 DEF Quiet, Clusters
<1>4. ASSUME stopped' = stopped, NEW i, NEW n, cc' = [cc EXCEPT ![i].client = n]
      PROVE  Quiet
  BY <1>1, <1>4 DEF Quiet, Clusters
<1>5. ASSUME stopped' = stopped, NEW i, NEW n, NEW r,
             cc' = [cc EXCEPT ![i].publisher = n, ![i].stray = r]
      PROVE  Quiet
  BY <1>1, <1>5 DEF Quiet, Clusters
<1>6. ASSUME stopped' = stopped, NEW i, cc' = [cc EXCEPT ![i].cancelled = TRUE]
      PROVE  Quiet
  BY <1>1, <1>6 DEF Quiet, Clusters
<1>7. ASSUME stopped' = stopped, NEW i,
             cc' = [cc EXCEPT ![i] = Closed(@)] \/ cc' = [cc EXCEPT ![i] = [Closed(@) EXCEPT !.cancelled = TRUE]]
      PROVE  Quiet
  <2>1. CASE cc' = [cc EXCEPT ![i] = Closed(@)]
    BY <1>1, <1>7, <2>1 DEF Quiet, Clusters, Closed
  <2>2. CASE cc' = [cc EXCEPT ![i] = [Closed(@) EXCEPT !.cancelled = TRUE]]
    <3> SUFFICES ASSUME NEW j \in Made
                 PROVE  /\ cc'[j].round = cc[j].round /\ cc'[j].store = cc[j].store /\ cc'[j].ready = cc[j].ready
                        /\ cc'[j].loop = cc[j].loop /\ (cc[j].cancelled => cc'[j].cancelled)
      BY <1>7 DEF Quiet
    <3>1. CASE j = i
      <4>1. cc'[j] = [Closed(cc[j]) EXCEPT !.cancelled = TRUE] /\ cc[j] \in Clusters
        BY <1>1, <2>2, <3>1
      <4> QED BY <4>1 DEF Closed, Clusters
    <3>2. CASE j # i
      BY <1>1, <2>2, <3>2
    <3> QED BY <3>1, <3>2
  <2> QED BY <1>7, <2>1, <2>2
<1>8. ASSUME NEW c \in Callers, Register(c) PROVE Quiet
  <2>1. pc[c] = "register" /\ cc' = [cc EXCEPT ![cur[c]].loop = "list"] /\ stopped' = stopped
    BY <1>8 DEF Register, Unlock, Goto
  <2>2. cc[cur[c]].loop = "none"
    BY <1>1, <2>1, HolderWorks DEF Holding, Adding
  <2> QED BY <1>1, <2>1, <2>2 DEF Quiet, Clusters
<1>9. CASE UNCHANGED vars
  BY <1>2, <1>9 DEF vars
<1>10. CASE MainAdd \/ MainServe \/ MainShutdown \/ ProbeRequest \/ Handle
  BY <1>2, <1>10 DEF MainAdd, MainServe, MainShutdown, ProbeRequest, Handle, ProbeStart, ProbeDetail,
                     ProbeCount, ProbeGroups, ProbeReply
<1>11. CASE \E c \in Operators, n \in Names, op \in {"add", "remove"} : Call(c, n, op)
  BY <1>2, <1>11 DEF Call
<1>12. CASE StopCancel \/ StopLock \/ StopUnlock
  BY <1>2, <1>12 DEF StopCancel, StopLock, StopUnlock
<1>13. ASSUME NEW i \in Made, StopClose(i) PROVE Quiet
  BY <1>7, <1>13 DEF StopClose
<1>14. ASSUME NEW c \in Callers, AddExists(c) \/ NewAdminError(c) \/ RemoveMissing(c) \/ RemoveDelete(c)
       PROVE  Quiet
  BY <1>2, <1>14 DEF AddExists, NewAdminError, RemoveMissing, RemoveDelete
<1>15. ASSUME NEW c \in Callers, AddNew(c) \/ NewAdmin(c) \/ NewConsumer(c) \/ NewConsumerError(c)
       PROVE  Quiet
  BY <1>3, <1>4, <1>15 DEF AddNew, NewAdmin, NewConsumer, NewConsumerError
<1>16. ASSUME NEW c \in Callers, NewPublisher(c) \/ RemoveCancel(c) \/ RemoveClose(c)
       PROVE  Quiet
  BY <1>5, <1>6, <1>7, <1>16 DEF NewPublisher, RemoveCancel, RemoveClose
<1> QED BY <1>8, <1>9, <1>10, <1>11, <1>12, <1>13, <1>14, <1>15, <1>16 DEF Next, Proceed, Stop

\* Only a cluster in the map begins a collection, also after RemoveCluster or Stop cancelled it.
THEOREM RemovedClustersBeginNothing == Spec => RemovedBeginsNothing
<1> DEFINE A == \A i \in Made : cc'[i].round > cc[i].round => i \in Registered
<1>1. Inv /\ [Next]_vars => [A]_vars
  <2> SUFFICES ASSUME Inv, [Next]_vars, NEW i \in Made, cc'[i].round > cc[i].round
               PROVE  i \in Registered
    OBVIOUS
  <2>1. TypeOK /\ LockInv /\ OpenIsOwned /\ cc[i].round \in Nat
    BY DEF Inv, OpenInv, TypeOK, Clusters
  <2>2. ~(cc[i].round > cc[i].round)
    BY <2>1
  <2>3. PICK j \in Made : Collect(j) \/ Tick(j) \/ Done(j)
    BY <2>2, QuietSteps DEF Quiet
  <2>4. PICK x \in Clusters : cc' = [cc EXCEPT ![j] = x] /\ LoopChange(cc[j], x, ContextDone(j))
    BY <2>1, <2>3, LoopSteps
  <2>5. cc[i].client = "open" /\ cc[i].loop = "list"
    <3>1. cc'[j] = x /\ \A k \in Made \ {j} : cc'[k] = cc[k]
      BY <2>1, <2>4 DEF TypeOK
    <3>2. i = j /\ x.round # cc[i].round
      BY <2>2, <3>1
    <3> QED BY <2>4, <3>2 DEF LoopChange
  <2>6. i \in Registered \/ (lock # NoOne /\ cur[lock] = i)
    BY <2>1, <2>5 DEF OpenIsOwned
  <2>7. CASE lock # NoOne /\ cur[lock] = i
    <3>1. lock \in Callers /\ i # 0
      BY <2>1, <2>7, Constants DEF TypeOK
    <3>2. Holding(pc[lock], name[lock], i, clusters[name[lock]], cc[i]) /\ name[lock] \in Names
      BY <2>1, <2>7, <3>1 DEF LockInv, TypeOK
    <3>3. clusters[name[lock]] = i
      BY <2>5, <3>1, <3>2 DEF Holding
    <3> QED BY <3>2, <3>3 DEF Registered
  <2> QED BY <2>6, <2>7
<1> QED BY <1>1, InvInit, InvStep, PTL DEF Spec, RemovedBeginsNothing

\* What the rounds of a collection and the status of its group have to do with each other: without
\* it a failing group could not be told from one that was published in this very round.
Counted(x) ==
    /\ x.store <= x.round
    /\ x.loop \in {"offsets", "store"} => x.store < x.round
    /\ x.loop = "mark" => x.store = x.round
    /\ x.loop = "drain" /\ x.store = x.round => x.ready

CountInv == \A i \in Made : Counted(cc[i])

\* A quiet step is the start or the cancellation of a collection, or no step of it at all.
LEMMA QuietCollections ==
    ASSUME TypeOK, stopped' \in BOOLEAN, cc' \in [Made -> Clusters], CountInv, Quiet
    PROVE  CountInv' /\ \A j \in Made : Collection(j)!Next \/ UNCHANGED Collection(j)!vars
<1>1. CountInv'
  BY DEF CountInv, Counted, Quiet
<1>2. ASSUME NEW j \in Made PROVE Collection(j)!Next \/ UNCHANGED Collection(j)!vars
  <2>1. /\ cc'[j].round = cc[j].round /\ cc'[j].store = cc[j].store /\ cc'[j].ready = cc[j].ready
        /\ cc'[j].loop = cc[j].loop \/ (cc[j].loop = "none" /\ cc'[j].loop = "list")
        /\ ContextDone(j) => ContextDone(j)'
    BY DEF Quiet, ContextDone
  <2>2. ContextDone(j) \in BOOLEAN /\ ContextDone(j)' \in BOOLEAN
    BY DEF ContextDone
  <2>3. CASE ContextDone(j)' = ContextDone(j)
    BY <2>1, <2>3 DEF Collection!vars
  <2>4. CASE ~ContextDone(j) /\ ContextDone(j)'
    <3>1. Collection(j)!Cancel
      BY <2>1, <2>2, <2>4 DEF Collection!Cancel
    <3> QED BY <3>1 DEF Collection!Next
  <2> QED BY <2>1, <2>2, <2>3, <2>4
<1> QED BY <1>1, <1>2

\* Every step of the loop of a cluster is a step of its collection or none.
LEMMA LoopCollections ==
    ASSUME TypeOK, CountInv, NEW i \in Made, Collect(i) \/ Tick(i) \/ Done(i)
    PROVE  CountInv' /\ \A j \in Made : Collection(j)!Next \/ UNCHANGED Collection(j)!vars
<1> DEFINE y == cc[i]
<1>1. cc \in [Made -> Clusters] /\ y \in Clusters /\ Counted(y) /\ y.round \in Nat /\ y.store \in Nat
  BY DEF TypeOK, CountInv, Clusters
<1>2. ASSUME NEW x, cc' = [cc EXCEPT ![i] = x], stopped' = stopped, Counted(x),
             Collection(i)!Next \/ UNCHANGED Collection(i)!vars
      PROVE  CountInv' /\ \A j \in Made : Collection(j)!Next \/ UNCHANGED Collection(j)!vars
  <2>1. cc'[i] = x /\ \A j \in Made \ {i} : cc'[j] = cc[j]
    BY <1>1, <1>2
  <2>2. CountInv'
    BY <1>2, <2>1 DEF CountInv
  <2>3. ASSUME NEW j \in Made \ {i} PROVE UNCHANGED Collection(j)!vars
    <3>1. cc'[j] = cc[j] /\ stopped' = stopped
      BY <1>2, <2>1
    <3> QED BY <3>1 DEF Collection!vars, ContextDone
  <2> QED BY <1>2, <2>2, <2>3
<1>3. ASSUME NEW from \in Loops, NEW to \in Loops, Step(i, from, to)
      PROVE  \E x : /\ cc' = [cc EXCEPT ![i] = x] /\ stopped' = stopped /\ cc'[i] = x /\ y.loop = from /\ x.loop = to
                    /\ x.round = y.round /\ x.store = y.store /\ x.ready = y.ready /\ x.cancelled = y.cancelled
  <2>1. /\ cc' = [cc EXCEPT ![i] = [y EXCEPT !.loop = to]] /\ stopped' = stopped /\ cc'[i] = [y EXCEPT !.loop = to]
        /\ y.loop = from
    BY <1>1, <1>3 DEF Step
  <2>2. [y EXCEPT !.loop = to].loop = to /\ [y EXCEPT !.loop = to].round = y.round
        /\ [y EXCEPT !.loop = to].store = y.store /\ [y EXCEPT !.loop = to].ready = y.ready
        /\ [y EXCEPT !.loop = to].cancelled = y.cancelled
    BY <1>1 DEF Clusters
  <2> QED BY <2>1, <2>2
<1>4. CASE ListError(i) \/ OffsetsOK(i) \/ Tick(i)
  <2>1. PICK from \in Loops, to \in Loops :
          /\ Step(i, from, to)
          /\ <<from, to>> \in {<<"list", "select">>, <<"offsets", "store">>, <<"select", "list">>}
    BY <1>4 DEF ListError, OffsetsOK, Tick, Loops
  <2>2. PICK x : /\ cc' = [cc EXCEPT ![i] = x] /\ stopped' = stopped /\ cc'[i] = x /\ y.loop = from /\ x.loop = to
                 /\ x.round = y.round /\ x.store = y.store /\ x.ready = y.ready /\ x.cancelled = y.cancelled
    BY <1>3, <2>1
  <2>3. Counted(x)
    BY <1>1, <2>1, <2>2 DEF Counted
  <2>4. UNCHANGED Collection(i)!vars
    BY <2>1, <2>2 DEF Collection!vars, ContextDone
  <2> QED BY <1>2, <2>2, <2>3, <2>4
<1>5. CASE OffsetsError(i)
  <2>1. PICK x : /\ cc' = [cc EXCEPT ![i] = x] /\ stopped' = stopped /\ cc'[i] = x /\ y.loop = "offsets" /\ x.loop = "drain"
                 /\ x.round = y.round /\ x.store = y.store /\ x.ready = y.ready /\ x.cancelled = y.cancelled
    BY <1>3, <1>5 DEF OffsetsError, Loops
  <2>2. y.store # y.round /\ y.store <= y.round
    BY <1>1, <2>1 DEF Counted
  <2>3. Counted(x)
    BY <1>1, <2>1, <2>2 DEF Counted
  <2>4. Collection(i)!Fail("group")
    BY <2>1, <2>2 DEF Collection!Fail, ContextDone
  <2> QED BY <1>2, <2>1, <2>3, <2>4 DEF Collection!Next
<1>6. CASE EndRound(i)
  <2>1. PICK x : /\ cc' = [cc EXCEPT ![i] = x] /\ stopped' = stopped /\ cc'[i] = x /\ y.loop = "drain" /\ x.loop = "select"
                 /\ x.round = y.round /\ x.store = y.store /\ x.ready = y.ready /\ x.cancelled = y.cancelled
    BY <1>3, <1>6 DEF EndRound, Loops
  <2>2. Counted(x) /\ (y.store = y.round => y.ready)
    BY <1>1, <2>1 DEF Counted
  <2>3. Collection(i)!End
    BY <2>1, <2>2 DEF Collection!End, ContextDone
  <2> QED BY <1>2, <2>1, <2>2, <2>3 DEF Collection!Next
<1>7. CASE Done(i)
  <2>1. PICK x : /\ cc' = [cc EXCEPT ![i] = x] /\ stopped' = stopped /\ cc'[i] = x /\ y.loop = "select" /\ x.loop = "stopped"
                 /\ x.round = y.round /\ x.store = y.store /\ x.ready = y.ready /\ x.cancelled = y.cancelled
    BY <1>3, <1>7 DEF Done, Loops
  <2>2. Counted(x) /\ ContextDone(i)
    BY <1>1, <1>7, <2>1 DEF Counted, Done
  <2>3. Collection(i)!Stop
    BY <2>1, <2>2 DEF Collection!Stop, ContextDone
  <2> QED BY <1>2, <2>1, <2>2, <2>3 DEF Collection!Next
<1>8. CASE ListOK(i)
  <2> DEFINE x == [y EXCEPT !.loop = "offsets", !.round = @ + 1]
  <2>1. cc' = [cc EXCEPT ![i] = x] /\ cc'[i] = x /\ y.loop = "list" /\ y.round < MaxRounds /\ stopped' = stopped
    BY <1>1, <1>8 DEF ListOK
  <2>2. x.loop = "offsets" /\ x.round = y.round + 1 /\ x.store = y.store /\ x.ready = y.ready /\ x.cancelled = y.cancelled
    BY <1>1 DEF Clusters
  <2> HIDE DEF x
  <2>3. Counted(x)
    BY <1>1, <2>2 DEF Counted
  <2>4. Collection(i)!Begin({"group"})
    BY <2>1, <2>2 DEF Collection!Begin, ContextDone
  <2>5. Collection(i)!Next
    BY <2>4 DEF Collection!Next
  <2> QED BY <1>2, <2>1, <2>3, <2>5
<1>9. CASE StoreStatus(i)
  <2> DEFINE x == [y EXCEPT !.loop = "mark", !.store = y.round]
  <2>1. cc' = [cc EXCEPT ![i] = x] /\ cc'[i] = x /\ y.loop = "store" /\ stopped' = stopped
    BY <1>1, <1>9 DEF StoreStatus
  <2>2. x.loop = "mark" /\ x.round = y.round /\ x.store = y.round /\ x.ready = y.ready /\ x.cancelled = y.cancelled
    BY <1>1 DEF Clusters
  <2> HIDE DEF x
  <2>3. Counted(x)
    BY <1>1, <2>2 DEF Counted
  <2>4. Collection(i)!Publish("group")
    BY <2>1, <2>2 DEF Collection!Publish, ContextDone
  <2> QED BY <1>2, <2>1, <2>3, <2>4 DEF Collection!Next
<1>10. CASE MarkReady(i)
  <2> DEFINE x == [y EXCEPT !.loop = "drain", !.ready = TRUE]
  <2>1. cc' = [cc EXCEPT ![i] = x] /\ cc'[i] = x /\ y.loop = "mark" /\ stopped' = stopped
    BY <1>1, <1>10 DEF MarkReady
  <2>2. x.loop = "drain" /\ x.round = y.round /\ x.store = y.store /\ x.ready = TRUE /\ x.cancelled = y.cancelled
    BY <1>1 DEF Clusters
  <2> HIDE DEF x
  <2>3. Counted(x) /\ y.store = y.round
    BY <1>1, <2>1, <2>2 DEF Counted
  <2>4. Collection(i)!MarkReady
    BY <2>1, <2>2, <2>3 DEF Collection!MarkReady, ContextDone
  <2> QED BY <1>2, <2>1, <2>3, <2>4 DEF Collection!Next
<1> QED BY <1>4, <1>5, <1>6, <1>7, <1>8, <1>9, <1>10 DEF Collect

\* The loop of every cluster is a collection as AbstractCollection promises it, whatever becomes of
\* its client and its name while it runs.
THEOREM LoopsImplementCollection == Spec => LoopsAreCollections
<1> DEFINE I == \A i \in Made : Collection(i)!Init
           A == \A i \in Made : Collection(i)!Next \/ UNCHANGED Collection(i)!vars
<1>1. Init => I /\ CountInv
  <2> SUFFICES ASSUME Init, NEW i \in Made PROVE Collection(i)!Init /\ Counted(cc[i])
    BY DEF CountInv
  <2>1. /\ cc[i].loop = "none" /\ cc[i].round = 0 /\ cc[i].store = 0 /\ cc[i].ready = FALSE
        /\ cc[i].cancelled = FALSE /\ stopped = FALSE
    BY DEF Init
  <2>2. Collection(i)!Init
    BY <2>1 DEF Collection!Init, ContextDone
  <2> QED BY <2>1, <2>2 DEF Counted
<1>2. Inv /\ CountInv /\ [Next]_vars => CountInv' /\ A
  <2> SUFFICES ASSUME Inv, CountInv, [Next]_vars PROVE CountInv' /\ A
    OBVIOUS
  <2>1. TypeOK /\ stopped' \in BOOLEAN /\ cc' \in [Made -> Clusters]
    BY InvStep DEF Inv, TypeOK
  <2>2. CASE Quiet
    BY <2>1, <2>2, QuietCollections
  <2>3. ASSUME NEW i \in Made, Collect(i) \/ Tick(i) \/ Done(i) PROVE CountInv' /\ A
    BY <2>1, <2>3, LoopCollections
  <2> QED BY <2>2, <2>3, QuietSteps
<1>3. Inv /\ CountInv /\ [Next]_vars => CountInv' /\ [A]_vars
  BY <1>2
<1> HIDE DEF I, A
<1>4. Spec => I /\ [][A]_vars
  BY <1>1, <1>3, InvInit, InvStep, PTL DEF Spec
<1> QED BY <1>4 DEF LoopsAreCollections, I, A

-----------------------------------------------------------------------------
(* Routes *)

\* What the handlers take a path of a group apart into, and SplitN a key of the aggregated list.
LEMMA PathParts ==
    ASSUME NEW n, NEW S, NEW g \in Seq(S), Len(g) > 0
    PROVE  /\ Len(GroupPath(n, g)) = Len(g) + 2 /\ Len(g) \in Nat
           /\ GroupPath(n, g)[1] = n /\ GroupPath(n, g)[2] = "groups"
           /\ GroupPath(n, g)[Len(g) + 2] = g[Len(g)]
           /\ GroupID(GroupPath(n, g)) = g
           /\ SplitKey(StatusKey(n, g)) = <<n, g>>
<1> DEFINE T == S \cup {n, "groups"}
           two == <<n, "groups">>
           path == two \o g
           key == <<n>> \o g
<1>1. g \in Seq(T) /\ Len(g) \in Nat /\ two \in Seq(T) /\ Len(two) = 2 /\ two[1] = n /\ two[2] = "groups"
  <2>1. g \in Seq(T)
    BY SeqMonotonic
  <2> QED BY <2>1, LenProperties
<1>2. <<n>> \in Seq(T) /\ Len(<<n>>) = 1 /\ <<n>>[1] = n
  OBVIOUS
<1> HIDE DEF T, two
<1>3. /\ path \in Seq(T) /\ Len(path) = 2 + Len(g)
      /\ \A i \in 1..2 + Len(g) : path[i] = IF i <= 2 THEN two[i] ELSE g[i - 2]
  <2>1. /\ path \in Seq(T) /\ Len(path) = Len(two) + Len(g)
        /\ \A i \in 1..Len(two) + Len(g) : path[i] = IF i <= Len(two) THEN two[i] ELSE g[i - Len(two)]
    BY <1>1, ConcatProperties, Zenon
  <2> HIDE DEF path
  <2> QED BY <1>1, <2>1
<1>4. /\ key \in Seq(T) /\ Len(key) = 1 + Len(g)
      /\ \A i \in 1..1 + Len(g) : key[i] = IF i <= 1 THEN <<n>>[i] ELSE g[i - 1]
  BY <1>1, <1>2, ConcatProperties
<1> HIDE DEF path, key
<1>5. path[1] = n /\ path[2] = "groups" /\ path[Len(g) + 2] = g[Len(g)]
  BY <1>1, <1>3
<1>6. SubSeq(path, 3, Len(path)) = g
  <2> DEFINE sub == SubSeq(path, 3, Len(g) + 2)
  <2>1. \A i \in 3..Len(g) + 2 : path[i] \in T
    BY <1>1, <1>3, ElementOfSeq
  <2>2. sub \in Seq(T) /\ Len(sub) = Len(g) /\ \A i \in 1..Len(g) : sub[i] = path[i + 2]
    <3>1. 3 \in Int /\ Len(g) + 2 \in Int /\ 3 <= Len(g) + 2 /\ Len(g) + 2 - 3 + 1 = Len(g)
      BY <1>1
    <3>2. sub \in Seq(T) /\ Len(sub) = Len(g) /\ \A i \in 1..Len(g) : sub[i] = path[3 + i - 1]
      BY <2>1, <3>1, SubSeqProperties
    <3>3. \A i \in 1..Len(g) : 3 + i - 1 = i + 2
      BY <1>1
    <3> QED BY <3>2, <3>3
  <2> HIDE DEF sub
  <2>3. \A i \in 1..Len(g) : sub[i] = g[i]
    BY <1>1, <1>3, <2>2
  <2>4. sub = g
    BY <1>1, <2>2, <2>3, SeqEqual
  <2>5. Len(path) = Len(g) + 2
    BY <1>1, <1>3
  <2> QED BY <2>4, <2>5 DEF sub
<1>7. key[1] = n /\ Tail(key) = g
  <2>1. key[1] = n
    BY <1>1, <1>2, <1>4
  <2>2. key # <<>>
    BY <1>1, <1>4, EmptySeq
  <2>3. Tail(key) \in Seq(T) /\ Len(Tail(key)) = Len(key) - 1 /\ \A i \in 1..Len(Tail(key)) : Tail(key)[i] = key[i + 1]
    BY <1>4, <2>2, HeadTailProperties
  <2>4. Len(Tail(key)) = Len(g)
    BY <1>1, <1>4, <2>3
  <2>5. \A i \in 1..Len(g) : Tail(key)[i] = g[i]
    BY <1>1, <1>4, <2>3, <2>4
  <2> QED BY <1>1, <2>1, <2>3, <2>4, <2>5, SeqEqual
<1>8. GroupPath(n, g) = path /\ StatusKey(n, g) = key
  BY DEF GroupPath, StatusKey, path, key, two
<1> QED BY <1>1, <1>3, <1>5, <1>6, <1>7, <1>8 DEF GroupID, SplitKey

\* The switch of startHTTPServer sends the path of a group to ClusterGroupStatusHandler.
LEMMA GroupRoute ==
    ASSUME NEW n, NEW g \in GroupIds, ~Misrouted(n, g)
    PROVE  Route(GroupPath(n, g)) = [kind |-> "group", cluster |-> n, group |-> g]
<1> DEFINE path == GroupPath(n, g)
<1>1. g \in Seq(STRING) /\ Len(g) > 0
  <2>1. g \in Seq(STRING) /\ g # <<>>
    BY ManagerAssumption
  <2> QED BY <2>1, EmptySeq, LenProperties
<1>2. /\ Len(path) = Len(g) + 2 /\ Len(g) \in Nat /\ path[1] = n /\ path[2] = "groups"
      /\ path[Len(g) + 2] = g[Len(g)] /\ GroupID(path) = g
  BY <1>1, PathParts
<1> HIDE DEF path
<1>3. path[Len(path)] \notin {"status", "groups"}
  BY <1>2 DEF Misrouted
<1>4. \E k \in 1..(Len(path) - 1) : path[k] = "groups"
  BY <1>1, <1>2
<1>5. ClusterGroupStatus(path) = [kind |-> "group", cluster |-> n, group |-> g]
  BY <1>1, <1>2 DEF ClusterGroupStatus, Fits
<1>6. Clean(path)
  BY DEF Misrouted, path
<1>7. Route(path) = ClusterGroupStatus(path)
  BY <1>3, <1>4, <1>6 DEF Route
<1> QED BY <1>5, <1>7 DEF path

\* In every state, for group ids with and without slashes in them: the path of a group leads to the
\* status of that group, and what the aggregated list offers can be asked for.
THEOREM GroupPathsLeadToGroups == Spec => []GroupPathLeadsToGroup
<1>1. \A n \in Names, g \in GroupIds : ~Misrouted(n, g) =>
          GetStatus(GroupPath(n, g)) =
              IF clusters[n] # 0 /\ cc[clusters[n]].store # 0
              THEN <<n, g, cc[clusters[n]].store>> ELSE <<>>
  <2> SUFFICES ASSUME NEW n \in Names, NEW g \in GroupIds, ~Misrouted(n, g)
               PROVE  GetStatus(GroupPath(n, g)) =
                        IF clusters[n] # 0 /\ cc[clusters[n]].store # 0
                        THEN <<n, g, cc[clusters[n]].store>> ELSE <<>>
    OBVIOUS
  <2>1. Route(GroupPath(n, g)) = [kind |-> "group", cluster |-> n, group |-> g]
    BY GroupRoute
  <2>2. GetStatus(GroupPath(n, g)) = IF GroupStatus(n, g) # 0 THEN <<n, g, GroupStatus(n, g)>> ELSE <<>>
    BY <2>1 DEF GetStatus
  <2> QED BY <2>2 DEF GroupStatus
<1>2. ASSUME NEW x \in GetAllGroups, ~Misrouted(x[1], x[2]) PROVE GetStatus(GroupPath(x[1], x[2])) # <<>>
  <2>1. PICK n \in Names, g \in GroupIds : GroupStatus(n, g) # 0 /\ x = SplitKey(StatusKey(n, g))
    BY <1>2 DEF GetAllGroups
  <2>2. g \in Seq(STRING) /\ Len(g) > 0
    <3>1. g \in Seq(STRING) /\ g # <<>>
      BY ManagerAssumption
    <3> QED BY <3>1, EmptySeq, LenProperties
  <2>3. x = <<n, g>>
    BY <2>1, <2>2, PathParts
  <2>4. GetStatus(GroupPath(n, g)) = <<n, g, cc[clusters[n]].store>>
    BY <1>1, <1>2, <2>1, <2>3 DEF GroupStatus
  <2> QED BY <2>3, <2>4
<1>3. GroupPathLeadsToGroup
  BY <1>1, <1>2 DEF GroupPathLeadsToGroup
<1> QED BY <1>3, PTL

-----------------------------------------------------------------------------
(* The lock *)

\* Steps to the Unlock from a place where the lock is held, the turns of Stop's loop not counted.
StepsFrom(at) == CASE at = "newAdmin" -> 4
                   [] at = "newConsumer" -> 3
                   [] at \in {"newPublisher", "close"} -> 2
                   [] OTHER -> 1

\* Steps the holder of the lock still takes before it gives the lock back, at most.
HoldLeft == StepsFrom(pc[lock]) + (IF pc[lock] = "closeAll" THEN Cardinality(toClose) ELSE 0)

\* The holder of the lock does not move.
HolderRests == lock' = lock /\ pc'[lock] = pc[lock] /\ toClose' = toClose

\* The number of steps, and its parts.
LEMMA HoldLeftIs ==
    ASSUME TypeOK
    PROVE  \E n \in Nat : /\ n = Cardinality(toClose) /\ IsFiniteSet(toClose)
                          /\ HoldLeft = StepsFrom(pc[lock]) + (IF pc[lock] = "closeAll" THEN n ELSE 0)
<1>1. IsFiniteSet(Made)
  BY Constants, FS_Interval DEF Made
<1>2. IsFiniteSet(toClose)
  BY <1>1, FS_Subset DEF TypeOK
<1> QED BY <1>2, FS_CardinalityType DEF HoldLeft

\* Whatever happens while the lock is held, its holder rests, gives it back or comes closer to that.
LEMMA HolderComesCloser ==
    ASSUME Inv, [Next]_vars, lock # NoOne
    PROVE  HolderRests \/ lock' = NoOne \/ (lock' = lock /\ HoldLeft' < HoldLeft)
<1> USE DEF callVars
<1>1. /\ TypeOK /\ LockInv /\ TypeOK' /\ lock \in Callers /\ pc[lock] \in Locked
  BY InvStep DEF Inv, TypeOK, LockInv
<1>2. ASSUME NEW c \in Callers, pc[c] \in Locked PROVE c = lock
  BY <1>1, <1>2 DEF LockInv
<1>3. ASSUME NEW c \in Callers, NEW from \in Places \ Locked, NEW to, Goto(c, from, to), UNCHANGED <<lock, toClose>>
      PROVE  HolderRests
  <2>1. c # lock
    BY <1>1, <1>3 DEF Goto
  <2> QED BY <1>1, <1>3, <2>1 DEF Goto, TypeOK, HolderRests
<1>4. ASSUME NEW c \in Callers, NEW from \in Adding \cup Removing, NEW to \in Adding \cup Removing, Goto(c, from, to),
             UNCHANGED <<lock, toClose>>, StepsFrom(to) < StepsFrom(from)
      PROVE  lock' = lock /\ HoldLeft' < HoldLeft
  <2>1. c = lock /\ pc[lock] = from /\ pc'[lock] = to
    BY <1>1, <1>2, <1>4 DEF Goto, TypeOK, Locked
  <2>2. HoldLeft = StepsFrom(from) + 0 /\ HoldLeft' = StepsFrom(to) + 0
    BY <1>4, <2>1 DEF HoldLeft, Adding, Removing
  <2>3. StepsFrom(from) \in Nat /\ StepsFrom(to) \in Nat
    BY DEF StepsFrom
  <2> QED BY <1>4, <2>2, <2>3
<1>5. StepsFrom("newAdmin") = 4 /\ StepsFrom("newConsumer") = 3 /\ StepsFrom("newPublisher") = 2
      /\ StepsFrom("close") = 2 /\ StepsFrom("register") = 1 /\ StepsFrom("delete") = 1 /\ StepsFrom("closeAll") = 1
  BY DEF StepsFrom
<1>6. CASE \/ MainAdd \/ MainServe \/ MainShutdown \/ StopCancel
           \/ \E c \in Operators, n \in Names, op \in {"add", "remove"} : Call(c, n, op)
           \/ \E c \in Callers : AddExists(c) \/ RemoveMissing(c)
  BY <1>3, <1>6, Constants DEF MainAdd, MainServe, MainShutdown, StopCancel, Call, AddExists, RemoveMissing,
                               Places, Locked, Adding, Removing
<1>7. CASE \/ \E c \in Callers : AddNew(c) \/ RemoveCancel(c)
           \/ StopLock
  BY <1>7 DEF AddNew, RemoveCancel, StopLock
<1>8. CASE \E c \in Callers : NewAdmin(c) \/ NewConsumer(c) \/ NewPublisher(c) \/ RemoveClose(c)
  <2>1. PICK c \in Callers : NewAdmin(c) \/ NewConsumer(c) \/ NewPublisher(c) \/ RemoveClose(c)
    BY <1>8
  <2>2. PICK from \in Adding \cup Removing, to \in Adding \cup Removing :
          Goto(c, from, to) /\ UNCHANGED <<lock, toClose>> /\ StepsFrom(to) < StepsFrom(from)
    <3>1. CASE NewAdmin(c)
      BY <1>5, <3>1 DEF NewAdmin, Adding, Removing
    <3>2. CASE NewConsumer(c)
      BY <1>5, <3>2 DEF NewConsumer, Adding, Removing
    <3>3. CASE NewPublisher(c)
      BY <1>5, <3>3 DEF NewPublisher, Adding, Removing
    <3>4. CASE RemoveClose(c)
      BY <1>5, <3>4 DEF RemoveClose, Adding, Removing
    <3> QED BY <2>1, <3>1, <3>2, <3>3, <3>4
  <2> QED BY <1>4, <2>2
<1>9. CASE \/ \E c \in Callers : NewAdminError(c) \/ NewConsumerError(c) \/ Register(c) \/ RemoveDelete(c)
           \/ StopUnlock
  BY <1>9 DEF NewAdminError, NewConsumerError, Register, RemoveDelete, StopUnlock, Unlock
<1>10. CASE \E i \in Made : StopClose(i)
  <2>1. PICK i \in toClose : pc["main"] = "closeAll" /\ toClose' = toClose \ {i} /\ UNCHANGED <<lock, pc>>
    BY <1>10 DEF StopClose
  <2>2. lock = "main" /\ pc[lock] = "closeAll" /\ pc'[lock'] = "closeAll" /\ lock' = lock
    BY <1>2, <2>1, Constants DEF Locked
  <2>3. PICK n \in Nat : n = Cardinality(toClose) /\ IsFiniteSet(toClose) /\ HoldLeft = 1 + n
    BY <1>1, <1>5, <2>2, HoldLeftIs
  <2>4. Cardinality(toClose') = n - 1
    BY <2>1, <2>3, FS_RemoveElement
  <2>5. HoldLeft' = 1 + (n - 1)
    BY <1>5, <2>2, <2>4 DEF HoldLeft
  <2> QED BY <2>2, <2>3, <2>5
<1>11. CASE (\E i \in Made : Collect(i) \/ Tick(i) \/ Done(i)) \/ ProbeRequest \/ Handle \/ UNCHANGED vars
  BY <1>11 DEF Collect, ListOK, ListError, OffsetsOK, OffsetsError, StoreStatus, MarkReady, EndRound, Tick, Done, Step,
               ProbeRequest, Handle, ProbeStart, ProbeDetail, ProbeCount, ProbeGroups, ProbeReply, vars, HolderRests
<1> QED BY <1>6, <1>7, <1>8, <1>9, <1>10, <1>11 DEF Next, Proceed, Stop

\* clustersMu is held across the calls to Kafka and Redis of AddCluster, across the closing of
\* clients, and by Stop for all clusters (manager.go:73-141, 227-246). Whatever else goes on meanwhile,
\* its holder is within a counted number of steps of the Unlock, none of which waits for another
\* caller, and the call that gives it back is the one that took it.
THEOREM LockIsGivenBack ==
    Spec => /\ [](lock # NoOne => HoldLeft \in Nat \ {0} /\ \A c \in Callers \ {lock} : pc[c] \notin Locked)
            /\ [][lock # NoOne => HolderRests \/ lock' = NoOne \/ (lock' = lock /\ HoldLeft' < HoldLeft)]_vars
<1>1. Inv => (lock # NoOne => HoldLeft \in Nat \ {0} /\ \A c \in Callers \ {lock} : pc[c] \notin Locked)
  <2> SUFFICES ASSUME Inv, lock # NoOne
               PROVE  HoldLeft \in Nat \ {0} /\ \A c \in Callers \ {lock} : pc[c] \notin Locked
    OBVIOUS
  <2>1. PICK n \in Nat : HoldLeft = StepsFrom(pc[lock]) + (IF pc[lock] = "closeAll" THEN n ELSE 0)
    BY HoldLeftIs DEF Inv
  <2>2. StepsFrom(pc[lock]) \in {1, 2, 3, 4}
    BY DEF StepsFrom
  <2>3. HoldLeft \in Nat \ {0}
    BY <2>1, <2>2
  <2>4. \A c \in Callers \ {lock} : pc[c] \notin Locked
    BY DEF Inv, LockInv
  <2> QED BY <2>3, <2>4
<1>2. Inv /\ [Next]_vars
      => [lock # NoOne => HolderRests \/ lock' = NoOne \/ (lock' = lock /\ HoldLeft' < HoldLeft)]_vars
  BY HolderComesCloser
<1> QED BY <1>1, <1>2, InvInit, InvStep, PTL DEF Spec
=============================================================================
