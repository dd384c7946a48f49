------------------------- MODULE AssignmentStoreProofs -------------------------
(* Proofs about AssignmentStore, for every set of instances, groups and       *)
(* callers, every timeout and every number of stores.                         *)
EXTENDS AssignmentStore, FiniteSetTheorems, TLAPS

-----------------------------------------------------------------------------
(* Types *)

TypeOK ==
    /\ clock \in Nat
    /\ hash \in [Instances -> 0..MaxStores]
    /\ stamp \in [time : Nat, expires : Nat]
    /\ pc \in [Callers -> {"idle", "exec", "stamp", "fields"}]
    /\ number \in [Callers -> 0..MaxStores]
    /\ made \in [Callers -> Nat]
    /\ seen \in [Callers -> Nat \cup {Unstamped}]
    /\ served \in [Callers -> [Instances -> 0..MaxStores]]
    /\ stores \in 0..MaxStores
    /\ plan \in [1..MaxStores -> Assignments(Groups, Instances)]
    /\ latest \in 0..stores
    /\ written \in [1..MaxStores -> Nat]
    /\ told \in [Callers -> {Refused} \cup 0..stores]
    /\ \A c \in Callers : pc[c] = "exec" => number[c] \in 1..stores

\* Before anything is stored, everything has its type.
LEMMA TypeInit == Init => TypeOK
<1> SUFFICES ASSUME Init PROVE TypeOK
  OBVIOUS
<1>1. <<>> \in Assignments(Groups, Instances)
  BY DEF Assignments
<1> QED BY <1>1, AssignmentAssumption DEF Init, TypeOK, NoField, Unstamped, NoFields, Refused

\* No command and no return leaves the types, and a transaction is about a store that has a number.
LEMMA TypeStep == TypeOK /\ [Next]_vars => TypeOK'
<1> SUFFICES ASSUME TypeOK, [Next]_vars PROVE TypeOK'
  OBVIOUS
<1> USE AssignmentAssumption DEF redis, writer, reader, executed, Forget
<1>0. NoFields \in [Instances -> 0..MaxStores] /\ Unstamped \in Nat \cup {Unstamped}
  BY DEF NoFields, NoField
<1>1. ASSUME NEW c \in Callers, NEW as \in Assignments(Groups, Instances), StoreAssignments(c, as)
      PROVE  TypeOK'
  <2>1. stores + 1 \in 1..MaxStores /\ stores' = stores + 1
    BY <1>1 DEF StoreAssignments, TypeOK
  <2>2. plan' \in [1..MaxStores -> Assignments(Groups, Instances)]
    BY <1>1, <2>1 DEF StoreAssignments, TypeOK
  <2>3. \A d \in Callers : pc'[d] = "exec" => number'[d] \in 1..stores'
    BY <1>1, <2>1 DEF StoreAssignments, TypeOK
  <2>4. made' \in [Callers -> Nat]
    BY <1>1 DEF StoreAssignments, TypeOK, Timestamp
  <2>5. number' \in [Callers -> 0..MaxStores] /\ stores' \in 0..MaxStores
    BY <1>1, <2>1 DEF StoreAssignments, TypeOK
  <2>6. seen' \in [Callers -> Nat \cup {Unstamped}] /\ served' \in [Callers -> [Instances -> 0..MaxStores]]
    BY <1>0, <1>1 DEF StoreAssignments, TypeOK
  <2>7. told' \in [Callers -> {Refused} \cup 0..stores'] /\ latest' \in 0..stores'
    BY <1>1, <2>1 DEF StoreAssignments, TypeOK
  <2> QED BY <1>1, <2>2, <2>3, <2>4, <2>5, <2>6, <2>7 DEF StoreAssignments, TypeOK
<1>2. ASSUME NEW c \in Callers, Execute(c), UNCHANGED <<clock, stores, plan, reader>>,
             WriterReturns(c) \/ UNCHANGED <<pc, writer>>
      PROVE  TypeOK'
  <2>1. number[c] \in 1..stores /\ stores <= MaxStores /\ stores \in Nat
    BY <1>2 DEF Execute, TypeOK
  <2>2. hash' \in [Instances -> 0..MaxStores] /\ latest' \in 0..stores
    BY <1>2, <2>1 DEF Execute, Replaced, NoField
  <2>3. stamp' \in [time : Nat, expires : Nat]
    BY <1>2 DEF Execute, TypeOK
  <2>4. written' \in [1..MaxStores -> Nat]
    BY <1>2, <2>1 DEF Execute, TypeOK
  <2>5. /\ pc' \in [Callers -> {"idle", "exec", "stamp", "fields"}]
        /\ number' \in [Callers -> 0..MaxStores] /\ made' \in [Callers -> Nat]
        /\ \A d \in Callers : pc'[d] = "exec" => number'[d] \in 1..stores
    <3>1. CASE WriterReturns(c)
      BY <3>1 DEF WriterReturns, TypeOK
    <3>2. CASE UNCHANGED <<pc, writer>>
      BY <3>2 DEF TypeOK
    <3> QED BY <1>2, <3>1, <3>2
  <2>6. UNCHANGED <<clock, seen, served, told, stores, plan>>
    BY <1>2
  <2> QED BY <2>2, <2>3, <2>4, <2>5, <2>6 DEF TypeOK
<1>3. ASSUME NEW c \in Callers, ExecFails(c) PROVE TypeOK'
  BY <1>3 DEF ExecFails, WriterReturns, TypeOK
<1>4. ASSUME NEW c \in Callers, GetAssignments(c) PROVE TypeOK'
  BY <1>0, <1>4 DEF GetAssignments, TypeOK
<1>5. ASSUME NEW c \in Callers, StampFresh(c) PROVE TypeOK'
  BY <1>5 DEF StampFresh, TypeOK
<1>6. ASSUME NEW c \in Callers, StampTooOld(c) \/ StampUnknown(c) \/ ReadFieldsFails(c) PROVE TypeOK'
  BY <1>6 DEF StampTooOld, StampUnknown, ReadFieldsFails, TypeOK
<1>7. ASSUME NEW c \in Callers, ReadFields(c) PROVE TypeOK'
  BY <1>7 DEF ReadFields, TypeOK
<1>8. ASSUME Tick \/ UNCHANGED vars PROVE TypeOK'
  BY <1>8 DEF Tick, vars, TypeOK
<1> QED
  BY <1>1, <1>2, <1>3, <1>4, <1>5, <1>6, <1>7, <1>8
     DEF Next, Step, Exec, ExecRepeated, WriterReturns

-----------------------------------------------------------------------------
(* A reader gets the work of one store *)

\* The fields that store n of assignments as leaves behind.
Fields(as, n) == [i \in Instances |-> IF i \in DOMAIN as THEN n ELSE NoField]

\* What Redis holds after store n, of those that were given ps, was executed last.
Work(ps, n) == IF n = 0 THEN NoFields ELSE Fields(ps[n], n)

\* What Redis holds, and what a reader was served, is the work of the store that was then the latest.
WholeInv ==
    /\ hash = Work(plan, latest)
    /\ \A c \in Callers : told[c] # Refused => served[c] = Work(plan, told[c])

\* Stores never change what an earlier one was given, so what was whole stays whole.
LEMMA WholeStep == TypeOK /\ WholeInv /\ [Next]_vars => WholeInv'
<1> SUFFICES ASSUME TypeOK, WholeInv, [Next]_vars PROVE WholeInv'
  OBVIOUS
<1> USE AssignmentAssumption DEF redis, writer, reader, executed, Forget
<1>0. /\ hash = Work(plan, latest) /\ latest \in 0..stores /\ stores \in 0..MaxStores
      /\ plan \in [1..MaxStores -> Assignments(Groups, Instances)]
      /\ told \in [Callers -> {Refused} \cup 0..stores] /\ served \in [Callers -> [Instances -> 0..MaxStores]]
      /\ \A c \in Callers : told[c] # Refused => served[c] = Work(plan, told[c])
  BY DEF WholeInv, TypeOK
<1>1. ASSUME NEW c \in Callers, NEW as \in Assignments(Groups, Instances), StoreAssignments(c, as)
      PROVE  WholeInv'
  <2>1. /\ plan' = [plan EXCEPT ![stores + 1] = as] /\ UNCHANGED <<hash, latest>>
        /\ served' = [served EXCEPT ![c] = NoFields] /\ told' = [told EXCEPT ![c] = Refused]
    BY <1>1 DEF StoreAssignments
  <2>2. ASSUME NEW n \in 0..stores PROVE Work(plan', n) = Work(plan, n)
    <3>1. n # 0 => n \in 1..MaxStores /\ n # stores + 1
      BY <1>0
    <3>2. n # 0 => plan'[n] = plan[n]
      BY <1>0, <2>1, <3>1
    <3> QED BY <3>2 DEF Work
  <2>3. ASSUME NEW d \in Callers, told'[d] # Refused
        PROVE  told'[d] \in 0..stores /\ served'[d] = served[d] /\ told'[d] = told[d]
    <3>1. d # c
      BY <1>0, <2>1, <2>3
    <3>2. told'[d] = told[d] /\ served'[d] = served[d]
      BY <1>0, <2>1, <3>1
    <3> QED BY <1>0, <2>3, <3>2
  <2> QED BY <1>0, <2>1, <2>2, <2>3 DEF WholeInv
<1>2. ASSUME NEW c \in Callers, Execute(c), UNCHANGED <<plan, served, told>> PROVE WholeInv'
  <2>1. number[c] # 0 /\ hash' = Fields(plan[number[c]], number[c]) /\ latest' = number[c]
    BY <1>2 DEF Execute, Replaced, Fields, TypeOK
  <2>2. hash' = Work(plan, latest')
    BY <2>1 DEF Work
  <2> QED BY <1>0, <1>2, <2>2 DEF WholeInv
<1>3. ASSUME NEW c \in Callers, GetAssignments(c) PROVE WholeInv'
  <2>1. /\ UNCHANGED <<plan, hash, latest>>
        /\ served' = [served EXCEPT ![c] = NoFields] /\ told' = [told EXCEPT ![c] = Refused]
    BY <1>3 DEF GetAssignments
  <2> QED BY <1>0, <2>1 DEF WholeInv
<1>4. ASSUME NEW c \in Callers, ReadFields(c) PROVE WholeInv'
  <2>1. /\ UNCHANGED <<plan, hash, latest>>
        /\ served' = [served EXCEPT ![c] = hash] /\ told' = [told EXCEPT ![c] = latest]
    BY <1>4 DEF ReadFields
  <2> QED BY <1>0, <2>1 DEF WholeInv
<1>5. ASSUME UNCHANGED <<hash, served, plan, latest, told>> PROVE WholeInv'
  BY <1>0, <1>5 DEF WholeInv
<1> QED
  BY <1>1, <1>2, <1>3, <1>4, <1>5
     DEF Next, Step, Tick, Exec, ExecRepeated, ExecFails, WriterReturns, StampFresh, StampTooOld,
         StampUnknown, ReadFieldsFails, vars

\* The assignments of AssignGroups to some instances name one instance for each group.
LEMMA OneWatcher ==
    ASSUME NEW as \in Assignments(Groups, Instances) \ {<<>>}, NEW g \in Groups, NEW n, n # NoField
    PROVE  Cardinality({i \in Instances : Fields(as, n)[i] # NoField /\ g \in as[i]}) = 1
<1>1. PICK is \in SUBSET Instances \ {{}} : \E ring \in Rings(Groups, is) : as = AssignGroups(Groups, is, ring)
  BY DEF Assignments
<1>2. PICK ring \in [Groups -> is] : as = [i \in is |-> {x \in Groups : ring[x] = i}]
  BY <1>1 DEF Rings, AssignGroups
<1>3. {i \in Instances : Fields(as, n)[i] # NoField /\ g \in as[i]} = {ring[g]}
  BY <1>1, <1>2 DEF Fields
<1> QED BY <1>3, FS_Singleton

\* Whoever gets a map is told exactly one instance for each group, for any number of instances,
\* groups and overlapping stores, or nothing if the latest store was given nothing or there was none
\* (state_store.go:162-219, sharding.go:72-104).
THEOREM GroupsWatchedOnce == Spec => []EveryGroupWatchedOnce
<1>1. Init => WholeInv
  BY DEF Init, WholeInv, Work, NoFields
<1>2. TypeOK /\ WholeInv => EveryGroupWatchedOnce
  <2> SUFFICES ASSUME TypeOK, WholeInv, NEW c \in Callers, told[c] # Refused
               PROVE  IF told[c] = 0 \/ plan[told[c]] = <<>> THEN served[c] = NoFields
                      ELSE \A g \in Groups : Cardinality(WatchersOf(c, g)) = 1
    BY DEF EveryGroupWatchedOnce
  <2> DEFINE n == told[c]
  <2>1. served[c] = Work(plan, n) /\ n \in 0..MaxStores
    BY AssignmentAssumption DEF WholeInv, TypeOK
  <2> HIDE DEF n
  <2>2. CASE n = 0
    BY <2>1, <2>2 DEF Work, n
  <2>3. CASE n # 0 /\ plan[n] = <<>>
    <3>1. DOMAIN <<>> = {}
      OBVIOUS
    <3> QED BY <2>1, <2>3, <3>1 DEF Work, Fields, NoFields, n
  <2>4. ASSUME n # 0, plan[n] # <<>>, NEW g \in Groups PROVE Cardinality(WatchersOf(c, g)) = 1
    <3>1. plan[n] \in Assignments(Groups, Instances) \ {<<>>} /\ n # NoField
      BY <2>1, <2>4, AssignmentAssumption DEF TypeOK, NoField
    <3>2. served[c] = Fields(plan[n], n)
      BY <2>1, <2>4 DEF Work
    <3>3. WatchersOf(c, g) = {i \in Instances : Fields(plan[n], n)[i] # NoField /\ g \in plan[n][i]}
      BY <3>2 DEF WatchersOf, Fields
    <3> QED BY <3>1, <3>3, OneWatcher
  <2> QED BY <2>2, <2>3, <2>4 DEF n
<1> QED BY <1>1, <1>2, TypeInit, TypeStep, WholeStep, PTL DEF Spec

-----------------------------------------------------------------------------
(* A checked reader is not served what was stale *)

\* The timestamp is not later than the store whose fields are in the hash, and what a reader who
\* found it fresh is about to read was not stale at that time.
FreshInv ==
    /\ \A c \in Callers : pc[c] = "exec" => made[c] <= clock
    /\ \A c \in Callers : pc[c] = "stamp" => seen[c] = Unstamped /\ served[c] = NoFields
    /\ \A c \in Callers : pc[c] = "fields" => served[c] = NoFields
    /\ \A c \in Callers : seen[c] # Unstamped => seen[c] <= clock
    /\ \A n \in 1..MaxStores : written[n] <= clock
    /\ \A i \in Instances : hash[i] # NoField => stamp.time <= written[hash[i]]
    /\ \A c \in Callers : pc[c] = "fields" /\ seen[c] # Unstamped =>
          \A i \in Instances : ~Stale(hash[i], seen[c])
    /\ CheckedIsFresh

\* A store that is executed between the two reads of GetAssignments can only be younger than what
\* the reader checked.
LEMMA FreshStep == TypeOK /\ FreshInv /\ [Next]_vars => FreshInv'
<1> SUFFICES ASSUME TypeOK, FreshInv, [Next]_vars PROVE FreshInv'
  OBVIOUS
<1> USE AssignmentAssumption DEF redis, writer, reader, executed, Forget, CheckedIsFresh, Stale, NoField, Unstamped
<1>1. ASSUME NEW c \in Callers, NEW as \in Assignments(Groups, Instances), StoreAssignments(c, as)
      PROVE  FreshInv'
  <2>1. /\ pc[c] = "idle" /\ pc' = [pc EXCEPT ![c] = "exec"] /\ made' = [made EXCEPT ![c] = clock]
        /\ seen' = [seen EXCEPT ![c] = -1] /\ served' = [served EXCEPT ![c] = NoFields]
        /\ UNCHANGED <<clock, hash, stamp, written>>
    BY <1>1 DEF StoreAssignments, Timestamp
  <2>2. clock \in Nat /\ clock <= clock
    BY DEF TypeOK
  <2>3. /\ pc'[c] = "exec" /\ made'[c] = clock /\ seen'[c] = -1 /\ served'[c] = NoFields
        /\ \A d \in Callers \ {c} : pc'[d] = pc[d] /\ made'[d] = made[d] /\ seen'[d] = seen[d] /\ served'[d] = served[d]
    BY <2>1 DEF TypeOK
  <2> QED BY <2>1, <2>2, <2>3 DEF FreshInv
<1>2. ASSUME NEW c \in Callers, Execute(c), UNCHANGED <<clock, reader>>,
             WriterReturns(c) \/ UNCHANGED <<pc, writer>>
      PROVE  FreshInv'
  <2> DEFINE n == number[c]
  <2>1. /\ n \in 1..MaxStores /\ made[c] <= clock /\ made[c] \in Nat
        /\ stamp'.time = made[c] /\ written' = [written EXCEPT ![n] = clock]
        /\ hash' \in [Instances -> {0, n}]
        /\ UNCHANGED <<clock, seen, served>>
    BY <1>2 DEF Execute, Replaced, TypeOK, FreshInv
  <2> HIDE DEF n
  <2>2. clock \in Nat /\ \A m \in 1..MaxStores :
            written[m] \in Nat /\ written'[m] \in Nat /\ written[m] <= written'[m] /\ written'[m] <= clock
    BY <2>1 DEF TypeOK, FreshInv
  <2>3. \A i \in Instances : hash'[i] # 0 => hash'[i] = n /\ written'[hash'[i]] = clock
    BY <2>1 DEF TypeOK
  <2>4. \A d \in Callers : seen'[d] # -1 => seen'[d] \in Nat /\ seen'[d] <= clock
    BY <2>1 DEF TypeOK, FreshInv
  <2>5. ASSUME NEW d \in Callers, NEW i \in Instances, seen'[d] # -1
        PROVE  ~(hash'[i] # 0 /\ seen'[d] - written'[hash'[i]] > AssignmentTimeout)
    BY <2>2, <2>3, <2>4, <2>5
  <2>6. ASSUME NEW d \in Callers, NEW i \in Instances, seen'[d] # -1
        PROVE  ~(served'[d][i] # 0 /\ seen'[d] - written'[served'[d][i]] > AssignmentTimeout)
    <3>1. served[d][i] \in 0..MaxStores /\ ~(served[d][i] # 0 /\ seen[d] - written[served[d][i]] > AssignmentTimeout)
      BY <2>1, <2>6 DEF TypeOK, FreshInv
    <3> QED BY <2>1, <2>2, <2>4, <2>6, <3>1
  <2>7. \A i \in Instances : hash'[i] # 0 => stamp'.time <= written'[hash'[i]]
    BY <2>1, <2>2, <2>3
  <2>8. \A d \in Callers : pc'[d] # "idle" => pc'[d] = pc[d] /\ made'[d] = made[d]
    BY <1>2 DEF WriterReturns, TypeOK
  <2> QED BY <2>1, <2>2, <2>4, <2>5, <2>6, <2>7, <2>8 DEF FreshInv
<1>3. ASSUME NEW c \in Callers, ExecFails(c) PROVE FreshInv'
  BY <1>3 DEF ExecFails, WriterReturns, TypeOK, FreshInv
<1>4. ASSUME NEW c \in Callers, GetAssignments(c) PROVE FreshInv'
  BY <1>4 DEF GetAssignments, TypeOK, FreshInv, NoFields
<1>5. ASSUME NEW c \in Callers, StampFresh(c) PROVE FreshInv'
  <2>1. /\ clock - stamp.time <= AssignmentTimeout
        /\ seen' = [seen EXCEPT ![c] = clock] /\ pc' = [pc EXCEPT ![c] = "fields"] /\ pc[c] = "stamp"
        /\ UNCHANGED <<clock, hash, stamp, made, served, written>>
    BY <1>5 DEF StampFresh, TooOld, TypeOK
  <2>2. clock \in Nat /\ stamp.time \in Nat /\ served[c] = NoFields
    BY <2>1 DEF TypeOK, FreshInv
  <2>3. \A i \in Instances : ~(hash[i] # 0 /\ clock - written[hash[i]] > AssignmentTimeout)
    BY <2>1, <2>2 DEF TypeOK, FreshInv
  <2>4. \A i \in Instances : served[c][i] = 0
    BY <2>2 DEF NoFields
  <2>5. \A d \in Callers : d # c => pc'[d] = pc[d] /\ seen'[d] = seen[d]
    BY <2>1 DEF TypeOK
  <2>6. pc'[c] = "fields" /\ seen'[c] = clock
    BY <2>1 DEF TypeOK
  <2>7. ASSUME NEW d \in Callers, NEW i \in Instances, seen'[d] # -1
        PROVE  ~(served'[d][i] # 0 /\ seen'[d] - written'[served'[d][i]] > AssignmentTimeout)
    BY <2>1, <2>4, <2>5, <2>7 DEF FreshInv
  <2>8. ASSUME NEW d \in Callers, NEW i \in Instances, pc'[d] = "fields", seen'[d] # -1
        PROVE  ~(hash'[i] # 0 /\ seen'[d] - written'[hash'[i]] > AssignmentTimeout)
    BY <2>1, <2>3, <2>5, <2>6, <2>8 DEF FreshInv
  <2>9. \A d \in Callers :
           /\ pc'[d] = "exec" => made'[d] <= clock'
           /\ pc'[d] = "stamp" => seen'[d] = -1 /\ served'[d] = NoFields
           /\ pc'[d] = "fields" => served'[d] = NoFields
           /\ seen'[d] # -1 => seen'[d] <= clock'
    BY <2>1, <2>2, <2>5, <2>6 DEF FreshInv
  <2>10. /\ \A n \in 1..MaxStores : written'[n] <= clock'
         /\ \A i \in Instances : hash'[i] # 0 => stamp'.time <= written'[hash'[i]]
    BY <2>1 DEF FreshInv
  <2> QED BY <2>7, <2>8, <2>9, <2>10 DEF FreshInv
<1>6. ASSUME NEW c \in Callers, StampTooOld(c) \/ ReadFieldsFails(c) PROVE FreshInv'
  BY <1>6 DEF StampTooOld, ReadFieldsFails, TypeOK, FreshInv
<1>7. ASSUME NEW c \in Callers, StampUnknown(c) PROVE FreshInv'
  BY <1>7 DEF StampUnknown, TypeOK, FreshInv
<1>8. ASSUME NEW c \in Callers, ReadFields(c) PROVE FreshInv'
  BY <1>8 DEF ReadFields, TypeOK, FreshInv
<1>9. ASSUME Tick PROVE FreshInv'
  BY <1>9 DEF Tick, TypeOK, FreshInv
<1>10. ASSUME UNCHANGED vars PROVE FreshInv'
  BY <1>10 DEF vars, FreshInv
<1> QED
  BY <1>1, <1>2, <1>3, <1>4, <1>5, <1>6, <1>7, <1>8, <1>9, <1>10
     DEF Next, Step, Exec, ExecRepeated, WriterReturns

\* Assignments that passed the check of the timestamp were not stale at that time, however many
\* stores were executed between the two reads (state_store.go:193-219).
THEOREM CheckedAssignmentsFresh == Spec => []CheckedIsFresh
<1>1. Init => FreshInv
  BY AssignmentAssumption DEF Init, FreshInv, CheckedIsFresh, Stale, NoField, NoFields, Unstamped
<1>2. FreshInv => CheckedIsFresh
  BY DEF FreshInv
<1> QED BY <1>1, <1>2, TypeInit, TypeStep, FreshStep, PTL DEF Spec
=============================================================================
