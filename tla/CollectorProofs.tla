--------------------------- MODULE CollectorProofs ---------------------------
(* Proofs about Collector, for every set of groups, every concurrency limit  *)
(* and every window size, and that it implements AbstractCollection.         *)
EXTENDS CollectorRefinement, FiniteSetTheorems, TLAPS

-----------------------------------------------------------------------------
(* Operators *)

\* NewStatus and the zero value are statuses.
LEMMA NewStatusType ==
    ASSUME NEW r \in 0..MaxRounds, NEW ps \in SUBSET Partitions
    PROVE  NewStatus(r, ps) \in Status
BY DEF NewStatus, Status, Health, Unset

\* GroupStatus{} is a status.
LEMMA NoStatusType == NoStatus \in Status
BY RoundsAssumption, NewStatusType DEF NoStatus

\* addToWindow yields a nonempty window that ends with the new record.
LEMMA AddToWindowFacts ==
    ASSUME NEW S, NEW w \in Seq(S), NEW r \in S
    PROVE  /\ AddToWindow(w, r) \in Seq(S)
           /\ Len(AddToWindow(w, r)) > 0
           /\ AddToWindow(w, r)[Len(AddToWindow(w, r))] = r
           /\ Len(w) <= WindowSize => Len(AddToWindow(w, r)) <= WindowSize
<1> DEFINE longer == Append(w, r)
<1>1. longer \in Seq(S) /\ Len(longer) = Len(w) + 1 /\ longer[Len(longer)] = r
  OBVIOUS
<1>2. CASE Len(longer) > WindowSize
  <2>1. Len(w) > 0
    BY <1>1, <1>2, WindowAssumption
  <2>2. AddToWindow(w, r) = Tail(longer)
    BY <1>2 DEF AddToWindow
  <2>3. Tail(longer) \in Seq(S) /\ Len(Tail(longer)) = Len(w)
    BY <1>1, <2>1
  <2>4. Tail(longer)[Len(w)] = r
    BY <1>1, <2>1
  <2> QED BY <1>1, <2>1, <2>2, <2>3, <2>4
<1>3. CASE ~(Len(longer) > WindowSize)
  BY <1>1, <1>3, WindowAssumption DEF AddToWindow
<1> QED BY <1>2, <1>3

\* Grouping a partition by health keeps a status a status.
LEMMA ClassifiedType ==
    ASSUME NEW st \in Status, NEW p \in Partitions, NEW h \in Health
    PROVE  /\ Classified(st, p, h) \in Status
           /\ Classified(st, p, h).round = st.round
BY DEF Classified, Status, Health

\* OverallHealth is one of the three healths.
LEMMA OverallType ==
    ASSUME NEW st \in Status
    PROVE  Overall(st) \in Health
BY DEF Overall, Health

\* Whatever the evaluator says about a window is a health.
LEMMA VerdictType ==
    ASSUME NEW w PROVE Verdicts(w) \subseteq Health
BY DEF Verdicts, Health

-----------------------------------------------------------------------------
(* Type correctness *)

\* A new collector has well-typed state.
LEMMA TypeInit == Init => TypeOK
<1> SUFFICES ASSUME Init PROVE TypeOK
  OBVIOUS
<1>1. <<>> \in Seq(Result) /\ <<>> \in Seq(0..MaxRounds)
  OBVIOUS
<1>2. windows \in [Groups -> [Partitions -> Seq(0..MaxRounds)]]
  BY <1>1 DEF Init
<1>3. acc \in [Groups -> Status] /\ statusStore \in [Groups -> Status]
  BY NoStatusType DEF Init
<1>4. closed \in BOOLEAN /\ hasCollected \in BOOLEAN /\ cancelled \in BOOLEAN
  BY DEF Init
<1> QED BY <1>1, <1>2, <1>3, <1>4, RoundsAssumption DEF Init, TypeOK, LoopState, WorkerState

\* No step of the loop, of a goroutine or of the cleanup leaves the types.
LEMMA TypeStep == TypeOK /\ [Next]_vars => TypeOK'
<1> SUFFICES ASSUME TypeOK, [Next]_vars PROVE TypeOK'
  OBVIOUS
<1> USE DEF loopVars, chanVars, workVars, storeVars
<1>1. ASSUME ListError PROVE TypeOK'
  BY <1>1 DEF ListError, TypeOK, LoopState
<1>2. ASSUME NEW gs \in SUBSET Groups, ListOK(gs) PROVE TypeOK'
  <2>1. results' \in Seq(Result)
    BY <1>2 DEF ListOK
  <2>2. closed' \in BOOLEAN /\ failed' \in SUBSET Groups /\ sem' \in Nat
    BY <1>2 DEF ListOK
  <2>3. round' \in 0..MaxRounds
    BY <1>2, RoundsAssumption DEF ListOK, TypeOK
  <2> QED BY <1>2, <2>1, <2>2, <2>3 DEF ListOK, TypeOK, LoopState
<1>3. ASSUME NEW g \in Groups, Spawn(g) PROVE TypeOK'
  BY <1>3 DEF Spawn, TypeOK, WorkerState
<1>4. ASSUME StartDrain PROVE TypeOK'
  BY <1>4 DEF StartDrain, TypeOK, LoopState
<1>5. ASSUME ReceiveError PROVE TypeOK'
  <2>1. results \in Seq(Result) /\ results # <<>>
    BY <1>5 DEF ReceiveError, TypeOK
  <2>2. Head(results) \in Result /\ Tail(results) \in Seq(Result)
    BY <2>1
  <2>3. Head(results).group \in Groups
    BY <2>2 DEF Result
  <2> QED BY <1>5, <2>2, <2>3 DEF ReceiveError, TypeOK
<1>6. ASSUME ReceiveStatus PROVE TypeOK'
  <2>1. results \in Seq(Result) /\ results # <<>>
    BY <1>6 DEF ReceiveStatus, TypeOK
  <2>2. Head(results) \in Result /\ Tail(results) \in Seq(Result)
    BY <2>1
  <2>3. Head(results).group \in Groups /\ Head(results).status \in Status
    BY <2>2 DEF Result
  <2> QED BY <1>6, <2>2, <2>3 DEF ReceiveStatus, TypeOK, LoopState
<1>7. ASSUME MarkReady PROVE TypeOK'
  BY <1>7 DEF MarkReady, TypeOK, LoopState
<1>8. ASSUME EndRound PROVE TypeOK'
  BY <1>8 DEF EndRound, TypeOK, LoopState
<1>9. ASSUME NEW g \in Groups, OffsetsError(g) PROVE TypeOK'
  BY <1>9, NoStatusType DEF OffsetsError, TypeOK, WorkerState
<1>10. ASSUME NEW g \in Groups, NEW ps \in SUBSET Partitions, OffsetsOK(g, ps) PROVE TypeOK'
  <2>1. NewStatus(round, ps) \in Status
    BY NewStatusType DEF TypeOK
  <2> QED BY <1>10, <2>1 DEF OffsetsOK, TypeOK, WorkerState
<1>11. ASSUME NEW g \in Groups, NEW p \in Partitions, EvaluateError(g, p) PROVE TypeOK'
  BY <1>11 DEF EvaluateError, Evaluating, TypeOK
<1>12. ASSUME NEW g \in Groups, NEW p \in Partitions, EvaluateNoOffset(g, p) PROVE TypeOK'
  <2>1. Classified(acc[g], p, "WARNING") \in Status
    <3>1. acc[g] \in Status
      BY DEF TypeOK
    <3>2. "WARNING" \in Health
      BY DEF Health
    <3> QED BY <3>1, <3>2, ClassifiedType
  <2> QED BY <1>12, <2>1 DEF EvaluateNoOffset, Evaluating, TypeOK
<1>13. ASSUME NEW g \in Groups, NEW p \in Partitions, EvaluateWindow(g, p) PROVE TypeOK'
  <2> DEFINE w == AddToWindow(windows[g][p], round)
  <2>2. w \in Seq(0..MaxRounds)
    <3>1. windows[g][p] \in Seq(0..MaxRounds) /\ round \in 0..MaxRounds
      BY DEF TypeOK
    <3> QED BY <3>1, AddToWindowFacts
  <2>3. PICK h \in Verdicts(w) : acc' = [acc EXCEPT ![g] = Classified(@, p, h)]
    BY <1>13 DEF EvaluateWindow
  <2>4. Classified(acc[g], p, h) \in Status
    BY <2>3, VerdictType, ClassifiedType DEF TypeOK
  <2>5. windows' = [windows EXCEPT ![g][p] = w]
    BY <1>13 DEF EvaluateWindow
  <2>6. windows' \in [Groups -> [Partitions -> Seq(0..MaxRounds)]]
    BY <2>2, <2>5 DEF TypeOK
  <2> HIDE DEF w
  <2> QED BY <1>13, <2>3, <2>4, <2>6 DEF EvaluateWindow, Evaluating, TypeOK
<1>14. ASSUME NEW g \in Groups, FinishGroup(g) PROVE TypeOK'
  <2>1. [acc[g] EXCEPT !.overall = Overall(acc[g])] \in Status
    BY OverallType DEF TypeOK, Status
  <2> QED BY <1>14, <2>1 DEF FinishGroup, TypeOK, WorkerState
<1>15. ASSUME NEW g \in Groups, Send(g) PROVE TypeOK'
  <2> DEFINE e == acc[g].round = 0
  <2>1. [group |-> g, err |-> e, status |-> acc[g]] \in Result
    <3>1. e \in BOOLEAN
      OBVIOUS
    <3>2. acc[g] \in Status
      BY DEF TypeOK
    <3> HIDE DEF e
    <3> QED BY <3>1, <3>2 DEF Result
  <2>2. results' \in Seq(Result)
    BY <1>15, <2>1 DEF Send, TypeOK
  <2> QED BY <1>15, <2>2, NoStatusType DEF Send, TypeOK, WorkerState
<1>16. ASSUME NEW g \in Groups, ReleaseSem(g) PROVE TypeOK'
  BY <1>16 DEF ReleaseSem, TypeOK, WorkerState
<1>17. ASSUME NEW g \in Groups, WgDone(g) PROVE TypeOK'
  BY <1>17 DEF WgDone, TypeOK, WorkerState
<1>18. ASSUME CloseResults PROVE TypeOK'
  BY <1>18 DEF CloseResults, TypeOK
<1>19. ASSUME Tick \/ Done PROVE TypeOK'
  BY <1>19 DEF Tick, Done, TypeOK, LoopState
<1>20. ASSUME CleanupOldWindows PROVE TypeOK'
  <2>1. \A g \in Groups, p \in Partitions :
            (IF KeyGroup(g) \in ActiveGroups THEN windows[g][p] ELSE <<>>) \in Seq(0..MaxRounds)
    <3>1. <<>> \in Seq(0..MaxRounds)
      OBVIOUS
    <3>2. \A g \in Groups, p \in Partitions : windows[g][p] \in Seq(0..MaxRounds)
      BY DEF TypeOK
    <3> QED BY <3>1, <3>2
  <2> QED BY <1>20, <2>1 DEF CleanupOldWindows, TypeOK
<1>21. ASSUME Cancel PROVE TypeOK'
  BY <1>21 DEF Cancel, TypeOK
<1>22. ASSUME UNCHANGED vars PROVE TypeOK'
  BY <1>22 DEF vars, TypeOK
<1> QED
  BY <1>1, <1>2, <1>3, <1>4, <1>5, <1>6, <1>7, <1>8, <1>9, <1>10, <1>11, <1>12, <1>13, <1>14,
     <1>15, <1>16, <1>17, <1>18, <1>19, <1>20, <1>21, <1>22
     DEF Next, Collect, Work, Evaluate

\* Every variable keeps its type, whatever the listings, the offsets and the evaluator say.
THEOREM TypeCorrect == Spec => []TypeOK
BY TypeInit, TypeStep, PTL DEF Spec

-----------------------------------------------------------------------------
(* Goroutines, tokens and results *)

\* The goroutines that hold a token can be counted.
LEMMA HoldersFinite == IsFiniteSet(Holders) /\ Cardinality(Holders) \in Nat
<1>1. Holders \subseteq Groups
  BY DEF Holders
<1>2. IsFiniteSet(Holders)
  BY <1>1, GroupsAssumption, FS_Subset
<1> QED BY <1>2, FS_CardinalityType

\* A new collector has no goroutine, no token and no result.
LEMMA ControlInit == Init => ControlInv
<1> SUFFICES ASSUME Init PROVE ControlInv
  OBVIOUS
<1>1. Holders = {}
  BY DEF Init, Holders
<1>2. Cardinality(Holders) = 0
  BY <1>1, FS_EmptySet
<1>3. ConcurrencyLimit
  BY <1>2, ConcurrencyAssumption DEF Init, ConcurrencyLimit
<1>4. Len(results) = 0
  BY DEF Init
<1> QED BY <1>3, <1>4 DEF Init, ControlInv, Collecting

\* A step that neither moves a goroutine into or out of Holders nor touches sem keeps the limit.
LEMMA SameHolders ==
    ASSUME ConcurrencyLimit, Holders' = Holders, sem' = sem
    PROVE  ConcurrencyLimit'
BY DEF ConcurrencyLimit

\* Goroutines, tokens and results stay those of the collection in progress: one step per action, and
\* under it the conjuncts of ControlInv the action can disturb.
LEMMA ControlStep == TypeOK /\ ControlInv /\ [Next]_vars => ControlInv'
<1> SUFFICES ASSUME TypeOK, ControlInv, [Next]_vars PROVE ControlInv'
  OBVIOUS
<1> USE DEF loopVars, chanVars, workVars, storeVars
<1>c. ConcurrencyLimit
  BY DEF ControlInv
<1>1. ASSUME ListError PROVE ControlInv'
  <2>1. ConcurrencyLimit'
    BY <1>1, <1>c, SameHolders DEF ListError, Holders
  <2> QED BY <1>1, <2>1 DEF ListError, ControlInv, Collecting
<1>2. ASSUME NEW gs \in SUBSET Groups, ListOK(gs) PROVE ControlInv'
  <2>1. \A g \in Groups : worker'[g] = "none"
    BY <1>2 DEF ListOK, ControlInv, Collecting
  <2>2. Holders' = {} /\ Cardinality(Holders') = 0
    BY <2>1, FS_EmptySet DEF Holders
  <2>3. ConcurrencyLimit'
    BY <1>2, <2>2, ConcurrencyAssumption DEF ListOK, ConcurrencyLimit
  <2>4. Len(results') = 0 /\ results' = <<>>
    BY <1>2 DEF ListOK
  <2> QED BY <1>2, <2>1, <2>3, <2>4 DEF ListOK, ControlInv, Collecting, TypeOK
<1>3. ASSUME NEW g \in Groups, Spawn(g) PROVE ControlInv'
  <2>1. worker[g] = "none" /\ g \in listed
    BY <1>3 DEF Spawn, ControlInv
  <2>2. worker' = [worker EXCEPT ![g] = "offsets"]
    BY <1>3 DEF Spawn
  <2>3. Holders' = Holders \cup {g} /\ g \notin Holders
    BY <2>1, <2>2 DEF Holders, TypeOK
  <2>4. Cardinality(Holders') = Cardinality(Holders) + 1
    BY <2>3, HoldersFinite, FS_AddElement
  <2>5. ConcurrencyLimit'
    BY <1>3, <1>c, <2>4, HoldersFinite, ConcurrencyAssumption DEF Spawn, ConcurrencyLimit, TypeOK
  <2>6. \A i \in 1..Len(results) : results[i].group # g
    BY <1>3 DEF Spawn, ControlInv
  <2> QED BY <1>3, <2>1, <2>2, <2>5, <2>6 DEF Spawn, ControlInv, Collecting, TypeOK
<1>4. ASSUME StartDrain PROVE ControlInv'
  <2>1. ConcurrencyLimit'
    BY <1>4, <1>c, SameHolders DEF StartDrain, Holders
  <2> QED BY <1>4, <2>1 DEF StartDrain, ControlInv, Collecting
<1>5. ASSUME ReceiveError \/ ReceiveStatus PROVE ControlInv'
  <2>1. ConcurrencyLimit'
    BY <1>5, <1>c, SameHolders DEF ReceiveError, ReceiveStatus, Holders
  <2>2. results \in Seq(Result) /\ results # <<>> /\ results' = Tail(results)
    BY <1>5 DEF ReceiveError, ReceiveStatus, TypeOK
  <2>3. Len(results') = Len(results) - 1 /\ \A i \in 1..Len(results') : results'[i] = results[i + 1]
    BY <2>2
  <2>4. \A i \in 1..Len(results') : i + 1 \in 1..Len(results)
    BY <2>2, <2>3
  <2>5. \A i \in 1..Len(results') :
          /\ results'[i].group \in listed \ pending
          /\ worker[results'[i].group] \in {"release", "finish", "none"}
    BY <2>3, <2>4 DEF ControlInv
  <2>6. \A i, j \in 1..Len(results') : results'[i].group = results'[j].group => i = j
    BY <2>3, <2>4 DEF ControlInv
  <2>7. UNCHANGED <<round, listed, pending, worker, closed>> /\ loop = "drain" /\ loop' \in {"drain", "ready"}
    BY <1>5 DEF ReceiveError, ReceiveStatus
  <2> QED BY <2>1, <2>5, <2>6, <2>7 DEF ControlInv, Collecting
<1>6. ASSUME MarkReady PROVE ControlInv'
  <2>1. ConcurrencyLimit'
    BY <1>6, <1>c, SameHolders DEF MarkReady, Holders
  <2> QED BY <1>6, <2>1 DEF MarkReady, ControlInv, Collecting
<1>7. ASSUME EndRound PROVE ControlInv'
  <2>1. ConcurrencyLimit'
    BY <1>7, <1>c, SameHolders DEF EndRound, Holders
  <2> QED BY <1>7, <2>1 DEF EndRound, ControlInv, Collecting
<1>8. ASSUME NEW g \in Groups, UNCHANGED <<loopVars, sem, results, closed>>,
             OffsetsError(g) \/ (\E ps \in SUBSET Partitions : OffsetsOK(g, ps))
             \/ Evaluate(g) \/ FinishGroup(g) PROVE ControlInv'
  <2>1. worker[g] \in {"offsets", "eval"} /\ (\/ worker' = worker
                                           \/ \E s \in {"eval", "send"} : worker' = [worker EXCEPT ![g] = s])
    BY <1>8 DEF OffsetsError, OffsetsOK, Evaluate, EvaluateError, EvaluateNoOffset, EvaluateWindow,
                Evaluating, FinishGroup
  <2>2. Holders' = Holders
    BY <2>1 DEF Holders, TypeOK
  <2>3. ConcurrencyLimit'
    BY <1>8, <1>c, <2>2, SameHolders
  <2>4. \A i \in 1..Len(results) : results[i].group # g
    BY <2>1 DEF ControlInv
  <2> QED BY <1>8, <2>1, <2>3, <2>4 DEF ControlInv, Collecting, TypeOK
<1>9. ASSUME NEW g \in Groups, Send(g) PROVE ControlInv'
  <2> DEFINE r == [group |-> g, err |-> acc[g].round = 0, status |-> acc[g]]
  <2>1. worker' = [worker EXCEPT ![g] = "release"] /\ worker[g] = "send"
    BY <1>9 DEF Send
  <2>2. Holders' = Holders
    BY <2>1 DEF Holders, TypeOK
  <2>3. ConcurrencyLimit'
    BY <1>9, <1>c, <2>2, SameHolders DEF Send
  <2>4. results \in Seq(Result) /\ results' = Append(results, r) /\ r.group = g
    BY <1>9 DEF Send, TypeOK
  <2> HIDE DEF r
  <2>5. /\ Len(results') = Len(results) + 1
        /\ \A i \in 1..Len(results) : results'[i] = results[i]
        /\ results'[Len(results) + 1].group = g
    BY <2>4
  <2>6. \A i \in 1..Len(results) : results[i].group # g
    BY <2>1 DEF ControlInv
  <2>7. g \in listed \ pending /\ Collecting
    BY <2>1 DEF ControlInv
  <2>8. \A i \in 1..Len(results') : i \in 1..Len(results) \/ i = Len(results) + 1
    BY <2>4, <2>5
  <2>9. \A i \in 1..Len(results') :
          /\ results'[i].group \in listed \ pending
          /\ worker'[results'[i].group] \in {"release", "finish", "none"}
    BY <2>1, <2>5, <2>7, <2>8 DEF ControlInv, TypeOK
  <2>10. \A i, j \in 1..Len(results') : results'[i].group = results'[j].group => i = j
    BY <2>5, <2>6, <2>8 DEF ControlInv
  <2>11. UNCHANGED <<loop, round, listed, pending, closed>>
    BY <1>9 DEF Send
  <2> QED BY <2>1, <2>3, <2>7, <2>9, <2>10, <2>11 DEF ControlInv, Collecting, TypeOK
<1>10. ASSUME NEW g \in Groups, ReleaseSem(g) PROVE ControlInv'
  <2>1. worker' = [worker EXCEPT ![g] = "finish"] /\ worker[g] = "release"
    BY <1>10 DEF ReleaseSem
  <2>2. Holders' = Holders \ {g} /\ g \in Holders
    BY <2>1 DEF Holders, TypeOK
  <2>3. Cardinality(Holders') = Cardinality(Holders) - 1
    BY <2>2, HoldersFinite, FS_RemoveElement
  <2>4. ConcurrencyLimit'
    BY <1>10, <1>c, <2>3, HoldersFinite, ConcurrencyAssumption DEF ReleaseSem, ConcurrencyLimit, TypeOK
  <2> QED BY <1>10, <2>1, <2>4 DEF ReleaseSem, ControlInv, Collecting, TypeOK
<1>11. ASSUME NEW g \in Groups, WgDone(g) PROVE ControlInv'
  <2>1. worker' = [worker EXCEPT ![g] = "none"] /\ worker[g] = "finish"
    BY <1>11 DEF WgDone
  <2>2. Holders' = Holders
    BY <2>1 DEF Holders, TypeOK
  <2>3. ConcurrencyLimit'
    BY <1>11, <1>c, <2>2, SameHolders DEF WgDone
  <2> QED BY <1>11, <2>1, <2>3 DEF WgDone, ControlInv, Collecting, TypeOK
<1>12. ASSUME CloseResults PROVE ControlInv'
  <2>1. ConcurrencyLimit'
    BY <1>12, <1>c, SameHolders DEF CloseResults, Holders
  <2> QED BY <1>12, <2>1 DEF CloseResults, AllDone, ControlInv, Collecting
<1>13. ASSUME Tick \/ Done \/ CleanupOldWindows \/ Cancel \/ UNCHANGED vars PROVE ControlInv'
  <2>1. /\ UNCHANGED <<round, listed, pending, sem, results, closed, worker>>
        /\ loop' = loop \/ (loop = "select" /\ loop' \in {"list", "stopped"})
    BY <1>13 DEF Tick, Done, CleanupOldWindows, Cancel, vars
  <2>2. ConcurrencyLimit'
    BY <1>c, <2>1, SameHolders DEF Holders
  <2> QED BY <2>1, <2>2 DEF ControlInv, Collecting
<1>14. ASSUME NEW g \in Groups, Work(g) PROVE ControlInv'
  <2>1. CASE OffsetsError(g) \/ (\E ps \in SUBSET Partitions : OffsetsOK(g, ps))
             \/ Evaluate(g) \/ FinishGroup(g)
    <3>1. UNCHANGED <<loopVars, sem, results, closed>>
      BY <2>1 DEF OffsetsError, OffsetsOK, Evaluate, EvaluateError, EvaluateNoOffset,
                  EvaluateWindow, Evaluating, FinishGroup
    <3> QED BY <1>8, <2>1, <3>1
  <2> QED BY <1>9, <1>10, <1>11, <1>14, <2>1 DEF Work
<1> QED
  BY <1>1, <1>2, <1>3, <1>4, <1>5, <1>6, <1>7, <1>12, <1>13, <1>14 DEF Next, Collect

\* MaxConcurrency (collector.go:204) bounds the groups collected at once, in every state.
THEOREM Concurrency == Spec => []ConcurrencyLimit
<1>1. ControlInv => ConcurrencyLimit
  BY DEF ControlInv
<1> QED BY <1>1, TypeInit, TypeStep, ControlInit, ControlStep, PTL DEF Spec

\* close(results) (collector.go:231) happens only when no goroutine is left to send.
THEOREM CloseIsSafe == Spec => []NoSendOnClosed
<1>1. ControlInv => NoSendOnClosed
  BY DEF ControlInv, NoSendOnClosed
<1> QED BY <1>1, TypeInit, TypeStep, ControlInit, ControlStep, PTL DEF Spec

\* With one slot per listed group (collector.go:206) no goroutine waits for the drain loop, which
\* does not run before the last goroutine has its token.
LEMMA SendHasRoom == TypeOK /\ ControlInv => SendNeverBlocks
<1> SUFFICES ASSUME TypeOK, ControlInv, NEW g \in Groups, worker[g] = "send"
             PROVE  Len(results) < Cardinality(listed)
  BY DEF SendNeverBlocks, ResultsCap
<1> DEFINE n == Len(results)
           others == listed \ {g}
           f == [i \in 1..n |-> results[i].group]
<1>1. results \in Seq(Result) /\ n \in Nat
  BY DEF TypeOK
<1>2. IsFiniteSet(listed) /\ Cardinality(listed) \in Nat
  BY GroupsAssumption, FS_Subset, FS_CardinalityType DEF TypeOK
<1>3. g \in listed
  BY DEF ControlInv
<1>4. IsFiniteSet(others) /\ Cardinality(others) = Cardinality(listed) - 1
  BY <1>2, <1>3, FS_RemoveElement
<1>5. \A i \in 1..n : results[i].group \in others
  BY DEF ControlInv
<1>6. f \in Injection(1..n, others)
  <2>1. f \in [1..n -> others]
    BY <1>5
  <2>2. \A i, j \in 1..n : f[i] = f[j] => i = j
    BY DEF ControlInv
  <2> HIDE DEF f
  <2> QED BY <2>1, <2>2 DEF Injection, IsInjective
<1>7. Cardinality(1..n) <= Cardinality(others)
  BY <1>4, <1>6, FS_Injection
<1>8. Cardinality(1..n) = n
  <2> HIDE DEF n
  <2>1. Cardinality(1..n) = IF 1 > n THEN 0 ELSE n - 1 + 1
    BY <1>1, FS_Interval
  <2> QED BY <1>1, <2>1
<1> QED BY <1>1, <1>2, <1>4, <1>7, <1>8

\* SendNeverBlocks for any number of groups and any concurrency limit.
THEOREM SendsHaveRoom == Spec => []SendNeverBlocks
BY SendHasRoom, TypeInit, TypeStep, ControlInit, ControlStep, PTL DEF Spec

-----------------------------------------------------------------------------
(* The status store *)

\* A new collector has no status and no result under way.
LEMMA StoreInit == Init => StoreInv
BY DEF Init, StoreInv, NoStatus, NewStatus

\* Every listed group has its result under way, or stored, or counted as an error: one step per
\* action that moves a result.
LEMMA StoreStep == TypeOK /\ ControlInv /\ StoreInv /\ [Next]_vars => StoreInv'
<1> SUFFICES ASSUME TypeOK, ControlInv, StoreInv, [Next]_vars PROVE StoreInv'
  OBVIOUS
<1> USE DEF loopVars, chanVars, workVars, storeVars
<1>0. \A st \in Status : st.round \in 0..MaxRounds
  BY DEF Status
<1>1. ASSUME ListError \/ StartDrain \/ MarkReady \/ EndRound \/ CloseResults \/ Tick \/ Done
             \/ CleanupOldWindows \/ Cancel \/ UNCHANGED vars
      PROVE StoreInv'
  <2>1. /\ UNCHANGED <<round, listed, pending, results, worker, acc, failed, statusStore>>
        /\ hasCollected' \/ loop' = "ready" => hasCollected \/ loop = "ready"
    BY <1>1 DEF ListError, StartDrain, MarkReady, EndRound, CloseResults, Tick, Done,
                CleanupOldWindows, Cancel, vars
  <2> QED BY <2>1 DEF StoreInv, Outstanding
<1>2. ASSUME NEW gs \in SUBSET Groups, ListOK(gs) PROVE StoreInv'
  <2>1. /\ Len(results') = 0 /\ round' = round + 1 /\ round \in Nat /\ failed' = {}
        /\ listed' = gs /\ pending' = gs /\ loop' = "spawn"
        /\ UNCHANGED <<worker, acc, statusStore, hasCollected>>
    BY <1>2 DEF ListOK, TypeOK
  <2>2. \A g \in Groups : worker[g] = "none"
    BY <1>2 DEF ListOK, ControlInv, Collecting
  <2>3. \A g \in Groups : statusStore[g].round \in 0..round
    BY <1>0 DEF StoreInv, TypeOK
  <2> QED BY <2>1, <2>2, <2>3 DEF StoreInv, Outstanding
<1>3. ASSUME NEW g \in Groups, Spawn(g) PROVE StoreInv'
  <2>1. /\ g \in pending /\ pending' = pending \ {g} /\ worker' = [worker EXCEPT ![g] = "offsets"]
        /\ UNCHANGED <<loop, round, listed, results, acc, failed, statusStore, hasCollected>>
    BY <1>3 DEF Spawn
  <2>2. \A x \in Groups : Outstanding(x)' <=> Outstanding(x)
    BY <2>1 DEF Outstanding, TypeOK, ControlInv
  <2>3. \A x \in listed : x \in Groups
    BY DEF TypeOK
  <2> QED BY <2>1, <2>2, <2>3 DEF StoreInv, TypeOK
<1>4. ASSUME ReceiveError \/ ReceiveStatus PROVE StoreInv'
  <2>0. PICK r, g : r = Head(results) /\ g = r.group
    OBVIOUS
  <2>1. /\ results \in Seq(Result) /\ results # <<>> /\ results' = Tail(results)
        /\ UNCHANGED <<round, listed, pending, worker, acc, hasCollected>>
        /\ loop = "drain" /\ loop' \in {"drain", "ready"}
    BY <1>4 DEF ReceiveError, ReceiveStatus, TypeOK
  <2>2. /\ Len(results') = Len(results) - 1 /\ 1 \in 1..Len(results) /\ r = results[1] /\ r \in Result
        /\ \A i \in 1..Len(results') : i + 1 \in 1..Len(results) /\ results'[i] = results[i + 1]
        /\ \A i \in 1..Len(results) : i = 1 \/ (i - 1 \in 1..Len(results') /\ results'[i - 1] = results[i])
    BY <2>0, <2>1
  <2>3. g \in Groups /\ r.status \in Status
    BY <2>0, <2>2 DEF Result
  <2>4. g \in listed /\ g \notin pending /\ worker[g] \in {"release", "finish", "none"}
    BY <2>0, <2>2 DEF ControlInv
  <2>5. \A i \in 1..Len(results') : results'[i].group # g
    BY <2>0, <2>2 DEF ControlInv
  <2>6. ~Outstanding(g)' /\ Outstanding(g)
    BY <2>0, <2>1, <2>2, <2>4, <2>5 DEF Outstanding
  <2>7. \A x \in Groups : x # g => (Outstanding(x)' <=> Outstanding(x))
    <3> SUFFICES ASSUME NEW x \in Groups, x # g PROVE Outstanding(x)' <=> Outstanding(x)
      OBVIOUS
    <3>1. (\E i \in 1..Len(results') : results'[i].group = x) <=> (\E i \in 1..Len(results) : results[i].group = x)
      <4>1. ASSUME NEW i \in 1..Len(results), results[i].group = x
            PROVE  \E k \in 1..Len(results') : results'[k].group = x
        BY <2>0, <2>2, <4>1
      <4>2. ASSUME NEW i \in 1..Len(results'), results'[i].group = x
            PROVE  \E k \in 1..Len(results) : results[k].group = x
        BY <2>2, <4>2
      <4> QED BY <4>1, <4>2
    <3> QED BY <2>1, <3>1 DEF Outstanding
  <2>8. /\ r.err <=> r.status.round = 0
        /\ r.status.round \in {0, round}
        /\ statusStore[g].round < round /\ g \notin failed
    BY <2>2, <2>4, <2>6 DEF StoreInv
  <2>9. /\ \A i \in 1..Len(results') :
              /\ results'[i].err <=> results'[i].status.round = 0
              /\ results'[i].status.round \in {0, round}
    BY <2>2 DEF StoreInv
  <2>10. \A x \in listed : x \in Groups
    BY DEF TypeOK
  <2>11. CASE ReceiveError
    <3>1. statusStore' = statusStore /\ failed' = failed \cup {g} /\ loop' = "drain"
      BY <2>0, <2>1, <2>11 DEF ReceiveError
    <3>2. \A x \in listed : Outstanding(x)' => statusStore'[x].round < round /\ x \notin failed'
      BY <2>6, <2>7, <2>10, <3>1 DEF StoreInv
    <3>3. \A x \in listed : ~Outstanding(x)' => (statusStore'[x].round = round <=> x \notin failed')
      <4>1. statusStore[g].round # round
        BY <1>0, <2>3, <2>8 DEF TypeOK
      <4>2. ASSUME NEW x \in listed, x # g, ~Outstanding(x)'
            PROVE  statusStore'[x].round = round <=> x \notin failed'
        BY <2>7, <2>10, <3>1, <4>2 DEF StoreInv
      <4> QED BY <3>1, <4>1, <4>2
    <3> QED BY <2>1, <2>9, <3>1, <3>2, <3>3 DEF StoreInv
  <2>12. CASE ReceiveStatus
    <3>1. /\ statusStore' = [statusStore EXCEPT ![g] = r.status] /\ failed' = failed
          /\ ~r.err /\ loop' = "ready"
      BY <2>0, <2>12 DEF ReceiveStatus
    <3>2. r.status.round = round /\ round # 0 /\ round \in Nat
      BY <2>1, <2>8, <3>1 DEF ControlInv, Collecting, TypeOK
    <3>3. \A x \in Groups : statusStore'[x] = IF x = g THEN r.status ELSE statusStore[x]
      BY <2>3, <3>1 DEF TypeOK
    <3>4. statusStore'[g] # NoStatus
      BY <2>3, <3>2, <3>3 DEF NoStatus, NewStatus
    <3> QED BY <2>1, <2>3, <2>4, <2>6, <2>7, <2>8, <2>9, <2>10, <3>1, <3>2, <3>3, <3>4 DEF StoreInv
  <2> QED BY <1>4, <2>11, <2>12
<1>5. ASSUME NEW g \in Groups, OffsetsError(g) PROVE StoreInv'
  <2>1. /\ worker[g] = "offsets" /\ worker' = [worker EXCEPT ![g] = "send"]
        /\ acc' = [acc EXCEPT ![g] = NoStatus] /\ NoStatus.round = 0
        /\ UNCHANGED <<loop, round, listed, pending, results, failed, statusStore, hasCollected>>
    BY <1>5 DEF OffsetsError, NoStatus, NewStatus
  <2>2. \A x \in Groups : Outstanding(x)' <=> Outstanding(x)
    BY <2>1 DEF Outstanding, TypeOK
  <2>3. \A x \in listed : x \in Groups
    BY DEF TypeOK
  <2> QED BY <2>1, <2>2, <2>3 DEF StoreInv, TypeOK
<1>6. ASSUME NEW g \in Groups, NEW ps \in SUBSET Partitions, OffsetsOK(g, ps) PROVE StoreInv'
  <2>1. /\ worker[g] = "offsets" /\ worker' = [worker EXCEPT ![g] = "eval"]
        /\ acc' = [acc EXCEPT ![g] = NewStatus(round, ps)] /\ NewStatus(round, ps).round = round
        /\ UNCHANGED <<loop, round, listed, pending, results, failed, statusStore, hasCollected>>
    BY <1>6 DEF OffsetsOK, NewStatus
  <2>2. \A x \in Groups : Outstanding(x)' <=> Outstanding(x)
    BY <2>1 DEF Outstanding, TypeOK
  <2>3. \A x \in listed : x \in Groups
    BY DEF TypeOK
  <2> QED BY <2>1, <2>2, <2>3 DEF StoreInv, TypeOK
<1>7. ASSUME NEW g \in Groups, Evaluate(g) PROVE StoreInv'
  <2>1. /\ worker[g] = "eval"
        /\ UNCHANGED <<loop, round, listed, pending, results, worker, failed, statusStore, hasCollected>>
        /\ \/ acc' = acc
           \/ \E p \in Partitions, h \in Health : acc' = [acc EXCEPT ![g] = Classified(@, p, h)]
    BY <1>7, VerdictType DEF Evaluate, EvaluateError, EvaluateNoOffset, EvaluateWindow, Evaluating, Health
  <2>2. acc[g] \in Status
    BY DEF TypeOK
  <2>3. \A x \in Groups : acc'[x].round = acc[x].round
    <3>1. acc \in [Groups -> Status]
      BY DEF TypeOK
    <3>2. \A p \in Partitions, h \in Health : Classified(acc[g], p, h).round = acc[g].round
      BY <2>2, ClassifiedType
    <3> QED BY <2>1, <3>1, <3>2
  <2> QED BY <2>1, <2>3 DEF StoreInv, Outstanding
<1>8. ASSUME NEW g \in Groups, FinishGroup(g) PROVE StoreInv'
  <2>1. /\ worker[g] = "eval" /\ worker' = [worker EXCEPT ![g] = "send"]
        /\ acc' = [acc EXCEPT ![g] = [@ EXCEPT !.overall = Overall(acc[g])]]
        /\ UNCHANGED <<loop, round, listed, pending, results, failed, statusStore, hasCollected>>
    BY <1>8 DEF FinishGroup
  <2>2. \A x \in Groups : acc'[x].round = acc[x].round
    <3>1. acc[g] \in Status /\ acc \in [Groups -> Status]
      BY DEF TypeOK
    <3>2. [acc[g] EXCEPT !.overall = Overall(acc[g])].round = acc[g].round
      BY <3>1 DEF Status
    <3> QED BY <2>1, <3>1, <3>2
  <2>3. \A x \in Groups : Outstanding(x)' <=> Outstanding(x)
    BY <2>1 DEF Outstanding, TypeOK
  <2>4. \A x \in listed : x \in Groups
    BY DEF TypeOK
  <2> QED BY <2>1, <2>2, <2>3, <2>4 DEF StoreInv, TypeOK
<1>9. ASSUME NEW g \in Groups, Send(g) PROVE StoreInv'
  <2> DEFINE r == [group |-> g, err |-> acc[g].round = 0, status |-> acc[g]]
  <2>1. /\ results \in Seq(Result) /\ results' = Append(results, r)
        /\ worker[g] = "send" /\ worker' = [worker EXCEPT ![g] = "release"]
        /\ acc' = [acc EXCEPT ![g] = NoStatus]
        /\ UNCHANGED <<loop, round, listed, pending, failed, statusStore, hasCollected>>
    BY <1>9 DEF Send, TypeOK
  <2>2. r.group = g /\ (r.err <=> r.status.round = 0) /\ r.status.round \in {0, round}
    BY <2>1 DEF StoreInv
  <2> HIDE DEF r
  <2>3. /\ Len(results') = Len(results) + 1
        /\ \A i \in 1..Len(results) : results'[i] = results[i] /\ i \in 1..Len(results')
        /\ results'[Len(results) + 1] = r /\ Len(results) + 1 \in 1..Len(results')
        /\ \A i \in 1..Len(results') : i \in 1..Len(results) \/ i = Len(results) + 1
    BY <2>1
  <2>4. \A x \in Groups : Outstanding(x)' <=> Outstanding(x)
    <3> SUFFICES ASSUME NEW x \in Groups PROVE Outstanding(x)' <=> Outstanding(x)
      OBVIOUS
    <3>1. CASE x = g
      BY <2>1, <2>2, <2>3, <3>1 DEF Outstanding
    <3>2. CASE x # g
      <4>1. (\E i \in 1..Len(results') : results'[i].group = x) <=> (\E i \in 1..Len(results) : results[i].group = x)
        BY <2>2, <2>3, <3>2
      <4> QED BY <2>1, <3>2, <4>1 DEF Outstanding, TypeOK
    <3> QED BY <3>1, <3>2
  <2>5. \A i \in 1..Len(results') :
          /\ results'[i].err <=> results'[i].status.round = 0
          /\ results'[i].status.round \in {0, round}
    BY <2>2, <2>3 DEF StoreInv
  <2>6. \A x \in listed : x \in Groups
    BY DEF TypeOK
  <2> QED BY <2>1, <2>4, <2>5, <2>6 DEF StoreInv, TypeOK
<1>10. ASSUME NEW g \in Groups, ReleaseSem(g) \/ WgDone(g) PROVE StoreInv'
  <2>1. /\ worker[g] \in {"release", "finish"}
        /\ \E s \in {"finish", "none"} : worker' = [worker EXCEPT ![g] = s]
        /\ UNCHANGED <<loop, round, listed, pending, results, acc, failed, statusStore, hasCollected>>
    BY <1>10 DEF ReleaseSem, WgDone
  <2>2. \A x \in Groups : Outstanding(x)' <=> Outstanding(x)
    BY <2>1 DEF Outstanding, TypeOK
  <2>3. \A x \in listed : x \in Groups
    BY DEF TypeOK
  <2> QED BY <2>1, <2>2, <2>3 DEF StoreInv, TypeOK
<1> QED
  BY <1>1, <1>2, <1>3, <1>4, <1>5, <1>6, <1>7, <1>8, <1>9, <1>10 DEF Next, Collect, Work

\* No result is lost between the goroutines and the store (collector.go:208-247).
THEOREM NothingLost == Spec => []EveryGroupAccounted
<1>1. TypeOK /\ ControlInv /\ StoreInv => EveryGroupAccounted
  <2> SUFFICES ASSUME TypeOK, ControlInv, StoreInv, loop \in {"select", "stopped", "list"}
               PROVE  /\ results = <<>> /\ \A g \in Groups : worker[g] = "none"
                      /\ \A g \in listed : (statusStore[g].round = round) <=> (g \notin failed)
    BY DEF EveryGroupAccounted
  <2>1. results = <<>> /\ pending = {} /\ \A g \in Groups : worker[g] = "none"
    BY DEF ControlInv, Collecting
  <2>2. Len(results) = 0
    BY <2>1
  <2>3. \A g \in listed : ~Outstanding(g)
    BY <2>1, <2>2 DEF Outstanding, TypeOK
  <2> QED BY <2>1, <2>3 DEF StoreInv
<1> QED BY <1>1, TypeInit, TypeStep, ControlInit, ControlStep, StoreInit, StoreStep, PTL DEF Spec

\* IsReady (collector.go:538) answers true only when there is a status to read.
THEOREM ReadyIsTruthful == Spec => []ReadyMeansStatus
<1>1. StoreInv => ReadyMeansStatus
  BY DEF StoreInv, ReadyMeansStatus
<1> QED BY <1>1, TypeInit, TypeStep, ControlInit, ControlStep, StoreInit, StoreStep, PTL DEF Spec

\* The store (collector.go:242) never replaces a status by one that is not newer.
THEOREM StatusMonotonic == Spec => StatusNeverGoesBack
<1> DEFINE Forward == \A g \in Groups : statusStore'[g] # statusStore[g] =>
                        statusStore'[g].round > statusStore[g].round
<1>1. TypeOK /\ ControlInv /\ StoreInv /\ [Next]_vars => [Forward]_vars
  <2> SUFFICES ASSUME TypeOK, ControlInv, StoreInv, [Next]_vars PROVE Forward
    OBVIOUS
  <2> USE DEF loopVars, chanVars, workVars, storeVars
  <2>1. CASE ReceiveStatus
    <3>0. PICK r, g : r = Head(results) /\ g = r.group
      OBVIOUS
    <3>1. /\ results \in Seq(Result) /\ results # <<>> /\ ~r.err
          /\ statusStore' = [statusStore EXCEPT ![g] = r.status]
      BY <2>1, <3>0 DEF ReceiveStatus, TypeOK
    <3>2. 1 \in 1..Len(results) /\ r = results[1] /\ r \in Result
      BY <3>0, <3>1
    <3>3. g \in listed /\ g \in Groups /\ Outstanding(g)
      BY <3>0, <3>2 DEF ControlInv, Outstanding, TypeOK
    <3>4. r.status.round = round /\ statusStore[g].round < round
      BY <3>1, <3>2, <3>3 DEF StoreInv
    <3>5. round \in Nat /\ statusStore[g].round \in Nat
      BY <3>3 DEF TypeOK, Status
    <3> QED BY <3>1, <3>3, <3>4, <3>5 DEF TypeOK
  <2>2. CASE ~ReceiveStatus
    <3>1. statusStore' = statusStore
      BY <2>2 DEF Next, Collect, Work, Evaluate, ListError, ListOK, Spawn, StartDrain, ReceiveError,
           MarkReady, EndRound, OffsetsError, OffsetsOK, EvaluateError, EvaluateNoOffset,
           EvaluateWindow, Evaluating, FinishGroup, Send, ReleaseSem, WgDone, CloseResults, Tick,
           CleanupOldWindows, Done, Cancel, vars
    <3> QED BY <3>1
  <2> QED BY <2>1, <2>2
<1> QED
  BY <1>1, TypeInit, TypeStep, ControlInit, ControlStep, StoreInit, StoreStep, PTL
     DEF Spec, StatusNeverGoesBack

-----------------------------------------------------------------------------
(* Health *)

\* The lists of a status that is being built: evaluated partitions, each in one list.
Building(st, rest) ==
    /\ st.critical \cup st.warning \cup st.healthy \subseteq st.of \ rest
    /\ rest \subseteq st.of
    /\ st.critical \cap st.warning = {}
    /\ (st.critical \cup st.warning) \cap st.healthy = {}

\* Grouping a partition that is still to be evaluated keeps the lists disjoint.
LEMMA ClassifiedBuilds ==
    ASSUME NEW st \in Status, NEW rest, NEW p \in rest, NEW h \in Health, Building(st, rest)
    PROVE  Building(Classified(st, p, h), rest \ {p})
BY DEF Building, Classified, Status, Health

\* OverallHealth makes a summary of the lists.
LEMMA OverallSummarises ==
    ASSUME NEW st \in Status, Building(st, {})
    PROVE  Summarises([st EXCEPT !.overall = Overall(st)])
<1> DEFINE new == [st EXCEPT !.overall = Overall(st)]
<1>1. /\ new.critical = st.critical /\ new.warning = st.warning /\ new.healthy = st.healthy
      /\ new.of = st.of /\ new.overall = Overall(st)
  BY DEF Status
<1>2. /\ Overall(st) = "CRITICAL" <=> st.critical # {}
      /\ Overall(st) = "WARNING" <=> st.critical = {} /\ st.warning # {}
      /\ Overall(st) = "GOOD" <=> st.critical \cup st.warning = {}
  BY DEF Overall
<1> QED BY <1>1, <1>2 DEF Summarises, Building

\* A new collector has published nothing.
LEMMA HealthInit == Init => HealthInv
<1> SUFFICES ASSUME Init PROVE HealthInv
  OBVIOUS
<1>1. Len(results) = 0 /\ \A g \in Groups : worker[g] = "none" /\ statusStore[g] = NoStatus
  BY DEF Init
<1> QED BY <1>1 DEF HealthInv

\* A step keeps the lists under construction and the summaries under way and in the store right.
LEMMA HealthStep == TypeOK /\ HealthInv /\ [Next]_vars => HealthInv'
<1> SUFFICES ASSUME TypeOK, HealthInv, [Next]_vars PROVE HealthInv'
  OBVIOUS
<1> USE DEF loopVars, chanVars, workVars, storeVars
<1> DEFINE Lists == \A g \in Groups : worker[g] = "eval" => Building(acc[g], todo[g])
           Sending == \A g \in Groups : worker[g] = "send" /\ acc[g].round # 0 => Summarises(acc[g])
           Buffered == \A i \in 1..Len(results) : ~results[i].err => Summarises(results[i].status)
           Stored == \A g \in Groups : statusStore[g] # NoStatus => Summarises(statusStore[g])
<1>0. Lists /\ Sending /\ Buffered /\ Stored
  BY DEF HealthInv, Building
<1>q. ASSUME Lists', Sending', Buffered', Stored' PROVE HealthInv'
  BY <1>q DEF HealthInv, Building
<1>1. ASSUME ListError \/ StartDrain \/ MarkReady \/ EndRound \/ CloseResults \/ Tick \/ Done
             \/ CleanupOldWindows \/ Cancel \/ UNCHANGED vars
      PROVE HealthInv'
  <2>1. UNCHANGED <<worker, acc, todo, results, statusStore>>
    BY <1>1 DEF ListError, StartDrain, MarkReady, EndRound, CloseResults, Tick, Done,
                CleanupOldWindows, Cancel, vars
  <2> QED BY <1>0, <1>q, <2>1
<1>2. ASSUME NEW gs \in SUBSET Groups, ListOK(gs) PROVE HealthInv'
  <2>1. Len(results') = 0 /\ UNCHANGED <<worker, acc, todo, statusStore>>
    BY <1>2 DEF ListOK
  <2> QED BY <1>0, <1>q, <2>1
<1>3. ASSUME NEW g \in Groups, Spawn(g) \/ ReleaseSem(g) \/ WgDone(g) PROVE HealthInv'
  <2>1. /\ worker' \in {[worker EXCEPT ![g] = s] : s \in {"offsets", "finish", "none"}}
        /\ UNCHANGED <<acc, todo, results, statusStore>>
    BY <1>3 DEF Spawn, ReleaseSem, WgDone
  <2>2. \A x \in Groups : worker'[x] \in {"eval", "send"} => worker'[x] = worker[x]
    BY <2>1 DEF TypeOK
  <2> QED BY <1>0, <1>q, <2>1, <2>2
<1>4. ASSUME ReceiveError \/ ReceiveStatus PROVE HealthInv'
  <2>1. /\ results \in Seq(Result) /\ results # <<>> /\ results' = Tail(results)
        /\ UNCHANGED <<worker, acc, todo>>
    BY <1>4 DEF ReceiveError, ReceiveStatus, TypeOK
  <2>2. /\ 1 \in 1..Len(results) /\ Head(results) = results[1] /\ results[1] \in Result
        /\ \A i \in 1..Len(results') : i + 1 \in 1..Len(results) /\ results'[i] = results[i + 1]
    BY <2>1
  <2>3. Buffered'
    BY <1>0, <2>2
  <2>4. Stored'
    <3>1. CASE ReceiveError
      BY <1>0, <3>1 DEF ReceiveError
    <3>2. CASE ReceiveStatus
      <4>1. /\ ~results[1].err /\ results[1].group \in Groups
            /\ statusStore' = [statusStore EXCEPT ![results[1].group] = results[1].status]
        BY <2>2, <3>2 DEF ReceiveStatus, Result
      <4>2. Summarises(results[1].status)
        BY <1>0, <2>2, <4>1
      <4> QED BY <1>0, <4>1, <4>2 DEF TypeOK
    <3> QED BY <1>4, <3>1, <3>2
  <2> QED BY <1>0, <1>q, <2>1, <2>3, <2>4
<1>5. ASSUME NEW g \in Groups, OffsetsError(g) PROVE HealthInv'
  <2>1. /\ worker' = [worker EXCEPT ![g] = "send"] /\ acc' = [acc EXCEPT ![g] = NoStatus]
        /\ UNCHANGED <<todo, results, statusStore>>
    BY <1>5 DEF OffsetsError
  <2>2. NoStatus.round = 0
    BY DEF NoStatus, NewStatus
  <2> QED BY <1>0, <1>q, <2>1, <2>2 DEF TypeOK
<1>6. ASSUME NEW g \in Groups, NEW ps \in SUBSET Partitions, OffsetsOK(g, ps) PROVE HealthInv'
  <2>1. /\ worker' = [worker EXCEPT ![g] = "eval"] /\ acc' = [acc EXCEPT ![g] = NewStatus(round, ps)]
        /\ todo' = [todo EXCEPT ![g] = ps]
        /\ UNCHANGED <<results, statusStore>>
    BY <1>6 DEF OffsetsOK
  <2>2. Building(NewStatus(round, ps), ps)
    BY DEF Building, NewStatus
  <2> QED BY <1>0, <1>q, <2>1, <2>2 DEF TypeOK
<1>7. ASSUME NEW g \in Groups, Evaluate(g) PROVE HealthInv'
  <2>1. PICK p \in Partitions : EvaluateError(g, p) \/ EvaluateNoOffset(g, p) \/ EvaluateWindow(g, p)
    BY <1>7 DEF Evaluate
  <2>2. /\ worker[g] = "eval" /\ p \in todo[g] /\ todo' = [todo EXCEPT ![g] = @ \ {p}]
        /\ UNCHANGED <<worker, results, statusStore>>
    BY <2>1 DEF EvaluateError, EvaluateNoOffset, EvaluateWindow, Evaluating
  <2>3. acc[g] \in Status /\ Building(acc[g], todo[g])
    BY <1>0, <2>2 DEF TypeOK
  <2>4. acc' = acc \/ \E h \in Health : acc' = [acc EXCEPT ![g] = Classified(acc[g], p, h)]
    BY <2>1, VerdictType DEF EvaluateError, EvaluateNoOffset, EvaluateWindow, Health
  <2>5. Building(acc'[g], todo'[g]) /\ \A x \in Groups : x # g => acc'[x] = acc[x] /\ todo'[x] = todo[x]
    <3>1. todo'[g] = todo[g] \ {p} /\ \A x \in Groups : x # g => todo'[x] = todo[x]
      BY <2>2 DEF TypeOK
    <3>2. CASE acc' = acc
      BY <2>3, <3>1, <3>2 DEF Building
    <3>3. ASSUME NEW h \in Health, acc' = [acc EXCEPT ![g] = Classified(acc[g], p, h)]
          PROVE  Building(acc'[g], todo'[g]) /\ \A x \in Groups : x # g => acc'[x] = acc[x]
      <4>1. Building(Classified(acc[g], p, h), todo[g] \ {p})
        BY <2>2, <2>3, ClassifiedBuilds
      <4> QED BY <3>1, <3>3, <4>1 DEF TypeOK
    <3> QED BY <2>4, <3>1, <3>2, <3>3
  <2> QED BY <1>0, <1>q, <2>2, <2>5
<1>8. ASSUME NEW g \in Groups, FinishGroup(g) PROVE HealthInv'
  <2>1. /\ worker[g] = "eval" /\ todo[g] = {} /\ worker' = [worker EXCEPT ![g] = "send"]
        /\ acc' = [acc EXCEPT ![g] = [acc[g] EXCEPT !.overall = Overall(acc[g])]]
        /\ UNCHANGED <<todo, results, statusStore>>
    BY <1>8 DEF FinishGroup
  <2>2. acc[g] \in Status /\ Building(acc[g], {})
    BY <1>0, <2>1 DEF TypeOK
  <2>3. Summarises([acc[g] EXCEPT !.overall = Overall(acc[g])])
    BY <2>2, OverallSummarises
  <2> QED BY <1>0, <1>q, <2>1, <2>3 DEF TypeOK
<1>9. ASSUME NEW g \in Groups, Send(g) PROVE HealthInv'
  <2> DEFINE r == [group |-> g, err |-> acc[g].round = 0, status |-> acc[g]]
  <2>1. /\ worker[g] = "send" /\ worker' = [worker EXCEPT ![g] = "release"]
        /\ acc' = [acc EXCEPT ![g] = NoStatus]
        /\ results' = Append(results, r)
        /\ UNCHANGED <<todo, statusStore>>
    BY <1>9 DEF Send
  <2>2. ~r.err => Summarises(r.status)
    BY <1>0, <2>1
  <2>3. /\ Len(results') = Len(results) + 1 /\ Len(results) \in Nat /\ results'[Len(results) + 1] = r
        /\ \A i \in 1..Len(results) : results'[i] = results[i]
    BY <2>1 DEF TypeOK
  <2>4. Buffered'
    <3> HIDE DEF r
    <3> QED BY <1>0, <2>2, <2>3
  <2> QED BY <1>0, <1>q, <2>1, <2>4 DEF TypeOK
<1> QED
  BY <1>1, <1>2, <1>3, <1>4, <1>5, <1>6, <1>7, <1>8, <1>9 DEF Next, Collect, Work

-----------------------------------------------------------------------------
(* Windows *)

\* addToWindow with the number of the collection in progress.
LEMMA UpToAdd ==
    ASSUME NEW w \in Seq(0..MaxRounds), NEW r \in 0..MaxRounds, r >= 1, UpTo(w, r)
    PROVE  UpTo(AddToWindow(w, r), r)
<1> DEFINE longer == Append(w, r)
<1>1. MaxRounds \in Nat /\ r \in Nat
  BY RoundsAssumption
<1>2. /\ longer \in Seq(0..MaxRounds) /\ Len(longer) = Len(w) + 1 /\ Len(w) \in Nat
      /\ \A i \in 1..Len(w) : longer[i] = w[i]
      /\ longer[Len(w) + 1] = r
  OBVIOUS
<1>3. r \in 1..r
  BY <1>1
<1> HIDE DEF longer
<1>4. \A i \in 1..Len(longer) : i \in 1..Len(w) \/ i = Len(w) + 1
  BY <1>2
<1>5. UpTo(longer, r)
  BY <1>2, <1>3, <1>4 DEF UpTo
<1>6. /\ Len(Tail(longer)) = Len(w)
      /\ \A i \in 1..Len(w) : Tail(longer)[i] = longer[i + 1] /\ i + 1 \in 1..Len(longer)
  <2>1. Len(longer) > 0
    BY <1>2
  <2> QED BY <1>2, <2>1
<1>7. UpTo(Tail(longer), r)
  BY <1>5, <1>6 DEF UpTo
<1>8. AddToWindow(w, r) \in {longer, Tail(longer)}
  BY DEF AddToWindow, longer
<1> QED BY <1>5, <1>7, <1>8

\* What is up to m is up to anything later.
LEMMA UpToLater ==
    ASSUME NEW w, NEW m \in Nat, NEW n \in Nat, m <= n, UpTo(w, m)
    PROVE  UpTo(w, n)
<1>1. \A k \in 1..m : k \in 1..n
  OBVIOUS
<1> QED BY <1>1 DEF UpTo

\* A new collector has no records.
LEMMA RecordInit == Init => RecordInv
<1> SUFFICES ASSUME Init, NEW g \in Groups, NEW p \in Partitions, NEW n PROVE UpTo(windows[g][p], n)
  BY DEF RecordInv
<1>1. windows[g][p] = <<>> /\ Len(<<>>) = 0
  BY DEF Init
<1> QED BY <1>1 DEF UpTo

\* Every step keeps the records behind the statuses: what a goroutine adds to a window it carries
\* to the store.
LEMMA RecordStep == TypeOK /\ ControlInv /\ StoreInv /\ RecordInv /\ [Next]_vars => RecordInv'
<1> SUFFICES ASSUME TypeOK, ControlInv, StoreInv, RecordInv, [Next]_vars PROVE RecordInv'
  OBVIOUS
<1> USE DEF loopVars, chanVars, workVars, storeVars
<1>0. round \in Nat /\ \A g \in Groups : statusStore[g].round \in Nat
  BY RoundsAssumption DEF TypeOK, Status
<1>1. ASSUME UNCHANGED <<windows, round, statusStore>>, \A g \in Groups : Carries(g) => Carries(g)'
      PROVE  RecordInv'
  BY <1>1 DEF RecordInv
<1>2. ASSUME ListError \/ StartDrain \/ MarkReady \/ EndRound \/ CloseResults \/ Tick \/ Done
             \/ Cancel \/ UNCHANGED vars
      PROVE  RecordInv'
  <2>1. UNCHANGED <<windows, round, statusStore, worker, acc, results>>
    BY <1>2 DEF ListError, StartDrain, MarkReady, EndRound, CloseResults, Tick, Done, Cancel, vars
  <2> QED BY <1>1, <2>1 DEF Carries
<1>3. ASSUME NEW gs \in SUBSET Groups, ListOK(gs) PROVE RecordInv'
  <2>1. loop = "list" /\ round' = round + 1 /\ UNCHANGED <<windows, statusStore>>
    BY <1>3 DEF ListOK
  <2>2. results = <<>> /\ \A g \in Groups : worker[g] = "none"
    BY <2>1 DEF ControlInv, Collecting
  <2>3. Len(results) = 0
    BY <2>2
  <2>4. \A g \in Groups : ~Carries(g)
    BY <2>2, <2>3 DEF Carries
  <2>5. ASSUME NEW g \in Groups, NEW p \in Partitions PROVE UpTo(windows[g][p], round + 1)
    <3>1. UpTo(windows[g][p], round) /\ round + 1 \in Nat /\ round <= round + 1
      BY <1>0 DEF RecordInv
    <3> QED BY <1>0, <3>1, UpToLater
  <2> QED BY <2>1, <2>4, <2>5 DEF RecordInv
<1>4. ASSUME NEW g \in Groups, Spawn(g) PROVE RecordInv'
  <2>1. /\ g \in pending /\ worker' = [worker EXCEPT ![g] = "offsets"]
        /\ UNCHANGED <<windows, round, statusStore, acc, results>>
    BY <1>4 DEF Spawn
  <2>2. worker[g] = "none"
    BY <2>1 DEF ControlInv
  <2> QED BY <1>1, <2>1, <2>2 DEF Carries, TypeOK
<1>5. ASSUME NEW g \in Groups, OffsetsError(g) PROVE RecordInv'
  <2>1. /\ worker[g] = "offsets" /\ worker' = [worker EXCEPT ![g] = "send"]
        /\ acc' = [acc EXCEPT ![g] = NoStatus] /\ UNCHANGED <<windows, round, statusStore, results>>
    BY <1>5 DEF OffsetsError
  <2> QED BY <1>1, <2>1 DEF Carries, TypeOK
<1>6. ASSUME NEW g \in Groups, NEW ps \in SUBSET Partitions, OffsetsOK(g, ps) PROVE RecordInv'
  <2>1. /\ worker[g] = "offsets" /\ worker' = [worker EXCEPT ![g] = "eval"]
        /\ acc' = [acc EXCEPT ![g] = NewStatus(round, ps)] /\ UNCHANGED <<windows, round, statusStore, results>>
    BY <1>6 DEF OffsetsOK
  <2> QED BY <1>1, <2>1 DEF Carries, TypeOK
<1>7. ASSUME NEW g \in Groups, Evaluate(g) PROVE RecordInv'
  <2>1. PICK p \in Partitions : EvaluateError(g, p) \/ EvaluateNoOffset(g, p) \/ EvaluateWindow(g, p)
    BY <1>7 DEF Evaluate
  <2>2. /\ worker[g] = "eval" /\ UNCHANGED <<worker, round, statusStore, results>>
        /\ acc' = acc \/ \E x : acc' = [acc EXCEPT ![g] = x]
        /\ windows' = windows \/ windows' = [windows EXCEPT ![g][p] = AddToWindow(windows[g][p], round)]
    BY <2>1 DEF EvaluateError, EvaluateNoOffset, EvaluateWindow, Evaluating
  <2>3. \A x \in Groups : Carries(x) => Carries(x)'
    BY <2>2 DEF Carries, TypeOK
  <2>4. Carries(g)'
    BY <2>2 DEF Carries
  <2>5. CASE windows' = windows
    BY <1>1, <2>2, <2>3, <2>5
  <2>6. CASE windows' = [windows EXCEPT ![g][p] = AddToWindow(windows[g][p], round)]
    <3>1. UpTo(AddToWindow(windows[g][p], round), round)
      <4>1. windows[g][p] \in Seq(0..MaxRounds) /\ round \in 0..MaxRounds /\ round >= 1
        BY <2>2 DEF TypeOK, ControlInv, Collecting
      <4>2. UpTo(windows[g][p], round)
        BY DEF RecordInv
      <4> QED BY <4>1, <4>2, UpToAdd
    <3>2. \A x \in Groups, q \in Partitions :
            windows'[x][q] = IF x = g /\ q = p THEN AddToWindow(windows[g][p], round) ELSE windows[x][q]
      BY <2>6 DEF TypeOK
    <3>3. ASSUME NEW x \in Groups, NEW q \in Partitions
          PROVE  UpTo(windows'[x][q], round) /\ (UpTo(windows'[x][q], statusStore[x].round) \/ Carries(x)')
      BY <2>3, <2>4, <3>1, <3>2 DEF RecordInv
    <3> QED BY <2>2, <3>3 DEF RecordInv
  <2> QED BY <2>2, <2>5, <2>6
<1>8. ASSUME NEW g \in Groups, FinishGroup(g) PROVE RecordInv'
  <2>1. /\ worker[g] = "eval" /\ worker' = [worker EXCEPT ![g] = "send"]
        /\ acc' = [acc EXCEPT ![g] = [acc[g] EXCEPT !.overall = Overall(acc[g])]]
        /\ UNCHANGED <<windows, round, statusStore, results>>
    BY <1>8 DEF FinishGroup
  <2>2. acc[g] \in Status /\ acc[g].round = round
    BY <2>1 DEF StoreInv, TypeOK
  <2>3. [acc[g] EXCEPT !.overall = Overall(acc[g])].round = round
    BY <2>2 DEF Status
  <2>4. acc'[g].round = round /\ worker'[g] = "send"
    BY <2>1, <2>3 DEF TypeOK
  <2> QED BY <1>1, <2>1, <2>4 DEF Carries, TypeOK
<1>9. ASSUME NEW g \in Groups, Send(g) PROVE RecordInv'
  <2> DEFINE r == [group |-> g, err |-> acc[g].round = 0, status |-> acc[g]]
  <2>1. /\ results \in Seq(Result) /\ results' = Append(results, r)
        /\ worker[g] = "send" /\ worker' = [worker EXCEPT ![g] = "release"]
        /\ acc' = [acc EXCEPT ![g] = NoStatus]
        /\ UNCHANGED <<windows, round, statusStore>>
    BY <1>9 DEF Send, TypeOK
  <2>2. r.group = g /\ (r.err <=> acc[g].round = 0)
    OBVIOUS
  <2>3. round # 0
    BY <1>0, <2>1 DEF ControlInv, Collecting
  <2> HIDE DEF r
  <2>4. /\ Len(results') = Len(results) + 1
        /\ \A i \in 1..Len(results) : results'[i] = results[i] /\ i \in 1..Len(results')
        /\ results'[Len(results) + 1] = r /\ Len(results) + 1 \in 1..Len(results')
    BY <2>1
  <2>5. ASSUME NEW x \in Groups, Carries(x) PROVE Carries(x)'
    <3>1. CASE \E i \in 1..Len(results) : results[i].group = x /\ ~results[i].err
      BY <2>4, <3>1 DEF Carries
    <3>2. CASE x = g /\ acc[g].round = round
      BY <2>2, <2>3, <2>4, <3>2 DEF Carries
    <3>3. CASE x # g /\ worker[x] \in {"eval", "send"}
      BY <2>1, <2>5, <3>1, <3>3 DEF Carries, TypeOK
    <3> QED BY <2>1, <2>5, <3>1, <3>2, <3>3 DEF Carries
  <2> QED BY <1>1, <2>1, <2>5
<1>10. ASSUME NEW g \in Groups, ReleaseSem(g) \/ WgDone(g) PROVE RecordInv'
  <2>1. /\ worker[g] \in {"release", "finish"}
        /\ \E s \in {"finish", "none"} : worker' = [worker EXCEPT ![g] = s]
        /\ UNCHANGED <<windows, round, statusStore, results, acc>>
    BY <1>10 DEF ReleaseSem, WgDone
  <2> QED BY <1>1, <2>1 DEF Carries, TypeOK
<1>11. ASSUME ReceiveError \/ ReceiveStatus PROVE RecordInv'
  <2>0. PICK r, g : r = Head(results) /\ g = r.group
    OBVIOUS
  <2>1. /\ results \in Seq(Result) /\ results # <<>> /\ results' = Tail(results)
        /\ UNCHANGED <<windows, round, worker, acc>> /\ loop = "drain"
        /\ \/ r.err /\ statusStore' = statusStore
           \/ ~r.err /\ statusStore' = [statusStore EXCEPT ![g] = r.status]
    BY <1>11, <2>0 DEF ReceiveError, ReceiveStatus, TypeOK
  <2>2. /\ 1 \in 1..Len(results) /\ r = results[1] /\ r \in Result
        /\ \A i \in 1..Len(results) : i = 1 \/ (i - 1 \in 1..Len(results') /\ results'[i - 1] = results[i])
    BY <2>0, <2>1
  <2>3. g \in Groups /\ r.status \in Status /\ (~r.err => r.status.round = round)
    BY <2>0, <2>2 DEF Result, StoreInv
  <2>4. ASSUME NEW x \in Groups, x # g \/ r.err, Carries(x) PROVE Carries(x)'
    BY <2>0, <2>1, <2>2, <2>4 DEF Carries
  <2>5. CASE r.err
    BY <1>1, <2>1, <2>4, <2>5
  <2>6. CASE ~r.err
    <3>1. \A x \in Groups : statusStore'[x] = IF x = g THEN r.status ELSE statusStore[x]
      BY <2>1, <2>3, <2>6 DEF TypeOK
    <3> QED BY <2>1, <2>3, <2>4, <2>6, <3>1 DEF RecordInv
  <2> QED BY <2>5, <2>6
<1>12. ASSUME CleanupOldWindows PROVE RecordInv'
  <2>1. UNCHANGED <<round, statusStore, worker, acc, results>>
    BY <1>12 DEF CleanupOldWindows
  <2>2. \A g \in Groups, p \in Partitions : windows'[g][p] \in {windows[g][p], <<>>}
    BY <1>12 DEF CleanupOldWindows
  <2>3. \A n : UpTo(<<>>, n)
    BY DEF UpTo
  <2>4. \A g \in Groups : Carries(g) => Carries(g)'
    BY <2>1 DEF Carries
  <2> QED BY <2>1, <2>2, <2>3, <2>4 DEF RecordInv
<1> QED
  BY <1>2, <1>3, <1>4, <1>5, <1>6, <1>7, <1>8, <1>9, <1>10, <1>11, <1>12 DEF Next, Collect, Work

\* Between collections the published statuses are as new as the records (collector.go:242, 389).
THEOREM StatusesKeepUp == Spec => []StatusKeepsUpWithWindow
<1>1. TypeOK /\ ControlInv /\ RecordInv => StatusKeepsUpWithWindow
  <2> SUFFICES ASSUME TypeOK, ControlInv, RecordInv, loop = "select", NEW g \in Groups, NEW p \in Partitions,
                      windows[g][p] # <<>>
               PROVE  statusStore[g].round >= windows[g][p][Len(windows[g][p])]
    BY DEF StatusKeepsUpWithWindow
  <2>1. results = <<>> /\ worker[g] = "none"
    BY DEF ControlInv, Collecting
  <2>2. Len(results) = 0
    BY <2>1
  <2>3. UpTo(windows[g][p], statusStore[g].round)
    BY <2>1, <2>2 DEF RecordInv, Carries
  <2>4. windows[g][p] \in Seq(0..MaxRounds) /\ statusStore[g].round \in Nat
    BY RoundsAssumption DEF TypeOK, Status
  <2>5. Len(windows[g][p]) \in 1..Len(windows[g][p])
    BY <2>4
  <2> QED BY <2>3, <2>4, <2>5 DEF UpTo
<1> QED
  BY <1>1, TypeInit, TypeStep, ControlInit, ControlStep, StoreInit, StoreStep, RecordInit, RecordStep, PTL
     DEF Spec

-----------------------------------------------------------------------------
(* Coverage *)

\* A window gains no record but the number of the collection in progress.
LEMMA AddToWindowAdds ==
    ASSUME NEW w \in Seq(0..MaxRounds), NEW r \in 0..MaxRounds,
           NEW i \in 1..Len(AddToWindow(w, r))
    PROVE  AddToWindow(w, r)[i] = r \/ \E j \in 1..Len(w) : w[j] = AddToWindow(w, r)[i]
<1> DEFINE longer == Append(w, r)
<1>1. /\ longer \in Seq(0..MaxRounds) /\ Len(longer) = Len(w) + 1 /\ Len(w) \in Nat
      /\ \A j \in 1..Len(w) : longer[j] = w[j]
      /\ longer[Len(w) + 1] = r
  OBVIOUS
<1> HIDE DEF longer
<1>2. \A j \in 1..Len(longer) : longer[j] = r \/ \E k \in 1..Len(w) : w[k] = longer[j]
  <2>1. \A j \in 1..Len(longer) : j \in 1..Len(w) \/ j = Len(w) + 1
    BY <1>1
  <2> QED BY <1>1, <2>1
<1>3. \A j \in 1..Len(Tail(longer)) : Tail(longer)[j] = longer[j + 1] /\ j + 1 \in 1..Len(longer)
  <2>1. Len(longer) > 0
    BY <1>1
  <2> QED BY <1>1, <2>1
<1>4. AddToWindow(w, r) \in {longer, Tail(longer)}
  BY DEF AddToWindow, longer
<1> QED BY <1>2, <1>3, <1>4

\* No record carries a number that no collection has had.
LEMMA NothingRecordedAhead ==
    ASSUME TypeOK, RecordInv, NEW g \in Groups
    PROVE  Recorded(g, round + 1) = {}
<1>1. round \in Nat
  BY RoundsAssumption DEF TypeOK
<1>2. ASSUME NEW p \in Partitions, NEW i \in 1..Len(windows[g][p]) PROVE windows[g][p][i] # round + 1
  BY <1>1, <1>2 DEF RecordInv, UpTo
<1> QED BY <1>2 DEF Recorded

\* A new collector has no records and no statuses.
LEMMA CoverInit == Init => CoverInv
<1> SUFFICES ASSUME Init PROVE CoverInv
  OBVIOUS
<1>1. /\ Len(results) = 0 /\ pending = {}
      /\ \A g \in Groups : worker[g] = "none" /\ statusStore[g] = NoStatus
  BY DEF Init
<1> QED BY <1>1 DEF CoverInv

\* Every record a goroutine adds to a window is of a partition it puts into one of its lists, and the
\* lists go from the goroutine through the channel to the store as they are.
LEMMA CoverStep ==
    TypeOK /\ ControlInv /\ StoreInv /\ RecordInv /\ CoverInv /\ [Next]_vars => CoverInv'
<1> SUFFICES ASSUME TypeOK, ControlInv, StoreInv, RecordInv, CoverInv, [Next]_vars PROVE CoverInv'
  OBVIOUS
<1> USE DEF loopVars, chanVars, workVars, storeVars
<1> DEFINE Fresh == \A g \in Groups : g \in pending \/ worker[g] = "offsets" => Recorded(g, round) = {}
           Built == \A g \in Groups :
                       worker[g] \in {"eval", "send"} /\ acc[g].round # 0 => Covers(g, acc[g])
           Buffered == \A i \in 1..Len(results) :
                          ~results[i].err => Covers(results[i].group, results[i].status)
           Stored == \A g \in Groups : statusStore[g] # NoStatus => Covers(g, statusStore[g])
<1>0. Fresh /\ Built /\ Buffered /\ Stored
  BY DEF CoverInv
<1>q. ASSUME Fresh', Built', Buffered', Stored' PROVE CoverInv'
  BY <1>q DEF CoverInv
<1>w. ASSUME windows' = windows
      PROVE  /\ \A g, r : Recorded(g, r)' = Recorded(g, r)
             /\ \A g, st : Covers(g, st)' <=> Covers(g, st)
  BY <1>w DEF Covers, Recorded
<1>1. ASSUME ListError \/ StartDrain \/ MarkReady \/ EndRound \/ CloseResults \/ Tick \/ Done
             \/ Cancel \/ UNCHANGED vars
      PROVE CoverInv'
  <2>1. UNCHANGED <<round, pending, worker, acc, results, statusStore, windows>>
    BY <1>1 DEF ListError, StartDrain, MarkReady, EndRound, CloseResults, Tick, Done, Cancel, vars
  <2> QED BY <2>1 DEF CoverInv, Covers, Recorded
<1>2. ASSUME NEW gs \in SUBSET Groups, ListOK(gs) PROVE CoverInv'
  <2>1. /\ loop = "list" /\ round' = round + 1 /\ Len(results') = 0
        /\ UNCHANGED <<worker, acc, statusStore, windows>>
    BY <1>2 DEF ListOK
  <2>2. \A g \in Groups : worker[g] = "none"
    BY <2>1 DEF ControlInv, Collecting
  <2>3. \A g \in Groups : Recorded(g, round + 1) = {}
    BY NothingRecordedAhead
  <2>4. Fresh'
    BY <1>w, <2>1, <2>3
  <2> QED BY <1>0, <1>q, <1>w, <2>1, <2>2, <2>4
<1>3. ASSUME NEW g \in Groups, Spawn(g) \/ ReleaseSem(g) \/ WgDone(g) PROVE CoverInv'
  <2>1. /\ \E s \in {"offsets", "finish", "none"} :
              worker' = [worker EXCEPT ![g] = s] /\ (s = "offsets" => g \in pending)
        /\ pending' \subseteq pending
        /\ UNCHANGED <<round, acc, results, statusStore, windows>>
    BY <1>3 DEF Spawn, ReleaseSem, WgDone
  <2>2. \A x \in Groups : /\ worker'[x] \in {"eval", "send"} => worker'[x] = worker[x]
                          /\ worker'[x] = "offsets" => x \in pending \/ worker[x] = "offsets"
    BY <2>1 DEF TypeOK
  <2> QED BY <1>0, <1>q, <1>w, <2>1, <2>2
<1>4. ASSUME ReceiveError \/ ReceiveStatus PROVE CoverInv'
  <2>1. /\ results \in Seq(Result) /\ results # <<>> /\ results' = Tail(results)
        /\ UNCHANGED <<round, pending, worker, acc, windows>>
    BY <1>4 DEF ReceiveError, ReceiveStatus, TypeOK
  <2>2. /\ 1 \in 1..Len(results) /\ Head(results) = results[1] /\ results[1] \in Result
        /\ \A i \in 1..Len(results') : i + 1 \in 1..Len(results) /\ results'[i] = results[i + 1]
    BY <2>1
  <2>3. Buffered'
    BY <1>0, <1>w, <2>1, <2>2
  <2>4. Stored'
    <3>1. CASE ReceiveError
      BY <1>0, <1>w, <2>1, <3>1 DEF ReceiveError
    <3>2. CASE ReceiveStatus
      <4>1. /\ ~results[1].err /\ results[1].group \in Groups
            /\ statusStore' = [statusStore EXCEPT ![results[1].group] = results[1].status]
        BY <2>2, <3>2 DEF ReceiveStatus, Result
      <4>2. Covers(results[1].group, results[1].status)
        BY <1>0, <2>2, <4>1
      <4> QED BY <1>0, <1>w, <2>1, <4>1, <4>2 DEF TypeOK
    <3> QED BY <1>4, <3>1, <3>2
  <2> QED BY <1>0, <1>q, <1>w, <2>1, <2>3, <2>4
<1>5. ASSUME NEW g \in Groups, OffsetsError(g) PROVE CoverInv'
  <2>1. /\ worker' = [worker EXCEPT ![g] = "send"] /\ acc' = [acc EXCEPT ![g] = NoStatus]
        /\ UNCHANGED <<round, pending, results, statusStore, windows>>
    BY <1>5 DEF OffsetsError
  <2>2. NoStatus.round = 0
    BY DEF NoStatus, NewStatus
  <2> QED BY <1>0, <1>q, <1>w, <2>1, <2>2 DEF TypeOK
<1>6. ASSUME NEW g \in Groups, NEW ps \in SUBSET Partitions, OffsetsOK(g, ps) PROVE CoverInv'
  <2>1. /\ worker[g] = "offsets" /\ worker' = [worker EXCEPT ![g] = "eval"]
        /\ acc' = [acc EXCEPT ![g] = NewStatus(round, ps)]
        /\ UNCHANGED <<round, pending, results, statusStore, windows>>
    BY <1>6 DEF OffsetsOK
  <2>2. Covers(g, NewStatus(round, ps))
    BY <1>0, <2>1 DEF Covers, NewStatus
  <2> QED BY <1>0, <1>q, <1>w, <2>1, <2>2 DEF TypeOK
<1>7. ASSUME NEW g \in Groups, Evaluate(g) PROVE CoverInv'
  <2>1. PICK p \in Partitions : EvaluateError(g, p) \/ EvaluateNoOffset(g, p) \/ EvaluateWindow(g, p)
    BY <1>7 DEF Evaluate
  <2>2. worker[g] = "eval" /\ UNCHANGED <<round, pending, worker, results, statusStore>>
    BY <2>1 DEF EvaluateError, EvaluateNoOffset, EvaluateWindow, Evaluating
  <2>3. acc[g] \in Status /\ acc[g].round = round /\ round >= 1 /\ round \in Nat
    BY <2>2, RoundsAssumption DEF TypeOK, StoreInv, ControlInv, Collecting
  <2>4. Covers(g, acc[g])
    BY <1>0, <2>2, <2>3
  <2>5. \A h \in Health : LET new == Classified(acc[g], p, h)
                          IN  /\ new.round = round
                              /\ acc[g].critical \cup acc[g].warning \cup acc[g].healthy \cup {p}
                                    \subseteq new.critical \cup new.warning \cup new.healthy
    BY <2>3 DEF Classified, Status, Health
  <2>6. CASE EvaluateError(g, p)
    BY <1>0, <1>q, <1>w, <2>2, <2>6 DEF EvaluateError
  <2>7. CASE EvaluateNoOffset(g, p)
    <3>1. acc' = [acc EXCEPT ![g] = Classified(acc[g], p, "WARNING")] /\ windows' = windows
      BY <2>7 DEF EvaluateNoOffset
    <3>2. Covers(g, Classified(acc[g], p, "WARNING"))
      BY <2>3, <2>4, <2>5 DEF Covers, Health
    <3> QED BY <1>0, <1>q, <1>w, <2>2, <3>1, <3>2 DEF TypeOK
  <2>8. CASE EvaluateWindow(g, p)
    <3>1. /\ windows' = [windows EXCEPT ![g][p] = AddToWindow(windows[g][p], round)]
          /\ \E h \in Health : acc' = [acc EXCEPT ![g] = Classified(acc[g], p, h)]
      BY <2>8, VerdictType DEF EvaluateWindow
    <3>2. /\ windows'[g][p] = AddToWindow(windows[g][p], round)
          /\ \A x \in Groups, y \in Partitions : x # g \/ y # p => windows'[x][y] = windows[x][y]
      BY <3>1 DEF TypeOK
    <3>3. windows[g][p] \in Seq(0..MaxRounds) /\ round \in 0..MaxRounds
      BY DEF TypeOK
    <3>4. \A i \in 1..Len(windows'[g][p]) :
             windows'[g][p][i] = round \/ \E j \in 1..Len(windows[g][p]) : windows[g][p][j] = windows'[g][p][i]
      BY <3>2, <3>3, AddToWindowAdds
    <3>5. \A x \in Groups : \A r : Recorded(x, r)' \subseteq Recorded(x, r) \cup IF x = g /\ r = round THEN {p} ELSE {}
      BY <3>2, <3>4 DEF Recorded
    <3>6. \A x \in Groups : x # g => \A st : Covers(x, st) => Covers(x, st)'
      BY <3>5 DEF Covers
    <3>7. \A st : st.round # round /\ Covers(g, st) => Covers(g, st)'
      BY <3>5 DEF Covers
    <3>8. Fresh'
      <4>1. ASSUME NEW x \in Groups, x \in pending \/ worker[x] = "offsets" PROVE x # g
        BY <2>2, <4>1 DEF ControlInv
      <4> QED BY <1>0, <2>2, <3>5, <4>1
    <3>9. Built'
      <4>1. PICK h \in Health : acc' = [acc EXCEPT ![g] = Classified(acc[g], p, h)]
        BY <3>1
      <4>0. PICK new : new = Classified(acc[g], p, h)
        OBVIOUS
      <4>2. /\ new.round = round
            /\ acc[g].critical \cup acc[g].warning \cup acc[g].healthy \cup {p}
                  \subseteq new.critical \cup new.warning \cup new.healthy
        BY <2>5, <4>0
      <4>3. Recorded(g, round)' \subseteq Recorded(g, round) \cup {p}
        BY <2>2, <3>5
      <4>4. Covers(g, new)'
        <5>1. Recorded(g, round) \subseteq acc[g].critical \cup acc[g].warning \cup acc[g].healthy
          BY <2>3, <2>4 DEF Covers
        <5>2. Covers(g, new)' <=> Recorded(g, round)' \subseteq new.critical \cup new.warning \cup new.healthy
          BY <2>2, <4>2 DEF Covers
        <5> QED BY <4>2, <4>3, <5>1, <5>2
      <4>5. /\ acc'[g] = new
            /\ \A x \in Groups : x # g => acc'[x] = acc[x]
        BY <4>0, <4>1 DEF TypeOK
      <4> QED BY <1>0, <2>2, <3>6, <4>4, <4>5
    <3>10. Buffered'
      <4>1. ASSUME NEW i \in 1..Len(results) PROVE results[i].group \in Groups /\ results[i].group # g
        BY <2>2, <4>1 DEF ControlInv, TypeOK
      <4> QED BY <1>0, <2>2, <3>6, <4>1
    <3>11. Stored'
      <4>1. statusStore[g].round < round /\ statusStore[g].round \in Nat
        BY <2>2, RoundsAssumption DEF StoreInv, ControlInv, Outstanding, TypeOK, Status
      <4>2. statusStore[g].round # round
        BY <2>3, <4>1
      <4> QED BY <1>0, <2>2, <3>6, <3>7, <4>2
    <3> QED BY <1>q, <3>8, <3>9, <3>10, <3>11
  <2> QED BY <2>1, <2>6, <2>7, <2>8
<1>8. ASSUME NEW g \in Groups, FinishGroup(g) PROVE CoverInv'
  <2>1. /\ worker[g] = "eval" /\ worker' = [worker EXCEPT ![g] = "send"]
        /\ acc' = [acc EXCEPT ![g] = [acc[g] EXCEPT !.overall = Overall(acc[g])]]
        /\ UNCHANGED <<round, pending, results, statusStore, windows>>
    BY <1>8 DEF FinishGroup
  <2>0. PICK new : new = [acc[g] EXCEPT !.overall = Overall(acc[g])]
    OBVIOUS
  <2>2. /\ new.round = acc[g].round /\ new.critical = acc[g].critical
        /\ new.warning = acc[g].warning /\ new.healthy = acc[g].healthy
    BY <2>0 DEF TypeOK, Status
  <2>3. acc' = [acc EXCEPT ![g] = new]
    BY <2>0, <2>1
  <2>4. new.round # 0 => Covers(g, new)
    BY <1>0, <2>1, <2>2 DEF Covers
  <2>5. /\ acc'[g] = new /\ worker'[g] = "send"
        /\ \A x \in Groups : x # g => acc'[x] = acc[x] /\ worker'[x] = worker[x]
    BY <2>1, <2>3 DEF TypeOK
  <2>6. Built'
    BY <1>0, <1>w, <2>1, <2>4, <2>5
  <2>7. \A x \in Groups : worker'[x] = "offsets" => worker[x] = "offsets"
    BY <2>5
  <2> QED BY <1>0, <1>q, <1>w, <2>1, <2>6, <2>7
<1>9. ASSUME NEW g \in Groups, Send(g) PROVE CoverInv'
  <2> DEFINE r == [group |-> g, err |-> acc[g].round = 0, status |-> acc[g]]
  <2>1. /\ worker[g] = "send" /\ worker' = [worker EXCEPT ![g] = "release"]
        /\ acc' = [acc EXCEPT ![g] = NoStatus]
        /\ results' = Append(results, r)
        /\ UNCHANGED <<round, pending, statusStore, windows>>
    BY <1>9 DEF Send
  <2>2. ~r.err => Covers(r.group, r.status)
    BY <1>0, <2>1
  <2>3. /\ Len(results') = Len(results) + 1 /\ Len(results) \in Nat /\ results'[Len(results) + 1] = r
        /\ \A i \in 1..Len(results) : results'[i] = results[i]
    BY <2>1 DEF TypeOK
  <2>4. Buffered'
    <3> HIDE DEF r
    <3> QED BY <1>0, <1>w, <2>1, <2>2, <2>3
  <2> QED BY <1>0, <1>q, <1>w, <2>1, <2>4 DEF TypeOK
<1>10. ASSUME CleanupOldWindows PROVE CoverInv'
  <2>1. UNCHANGED <<round, pending, worker, acc, results, statusStore>>
    BY <1>10 DEF CleanupOldWindows
  <2>2. \A x \in Groups, y \in Partitions : windows'[x][y] \in {windows[x][y], <<>>}
    BY <1>10 DEF CleanupOldWindows
  <2>3. \A x \in Groups : \A r : Recorded(x, r)' \subseteq Recorded(x, r)
    <3>1. Len(<<>>) = 0
      OBVIOUS
    <3> QED BY <2>2, <3>1 DEF Recorded
  <2>4. \A x \in Groups : \A st : Covers(x, st) => Covers(x, st)'
    BY <2>3 DEF Covers
  <2>5. \A i \in 1..Len(results) : results[i].group \in Groups
    <3>1. \A i \in 1..Len(results) : results[i] \in Result
      BY DEF TypeOK
    <3> QED BY <3>1 DEF Result
  <2> QED BY <1>0, <1>q, <2>1, <2>3, <2>4, <2>5
<1> QED
  BY <1>1, <1>2, <1>3, <1>4, <1>5, <1>6, <1>7, <1>8, <1>9, <1>10 DEF Next, Collect, Work

\* Every status a reader finds (collector.go:281-317) is the worst of its partitions and leaves out
\* none that its collection evaluated, for any number of partitions, evaluated in any order, some of
\* them skipped.
THEOREM HealthIsSummary == Spec => []HealthSummarises
<1>1. HealthInv /\ CoverInv => HealthSummarises
  BY DEF HealthInv, CoverInv, HealthSummarises
<1> QED
  BY <1>1, TypeInit, TypeStep, ControlInit, ControlStep, StoreInit, StoreStep, RecordInit, RecordStep,
     HealthInit, HealthStep, CoverInit, CoverStep, PTL DEF Spec

\* For group ids without a colon, which KeyGroup finds again in the keys of the windows, no step and
\* not the cleanup either (collector.go:543) loses history of a listed group.
THEOREM HistoryKept ==
    ASSUME \A g \in Groups : KeyGroup(g) = g
    PROVE  Spec => WindowHistoryKept
<1> DEFINE Kept == \A g \in listed, p \in Partitions :
                      windows[g][p] # <<>> =>
                        /\ windows'[g][p] # <<>>
                        /\ windows'[g][p][Len(windows'[g][p])] >= windows[g][p][Len(windows[g][p])]
<1>1. TypeOK /\ ControlInv /\ RecordInv /\ [Next]_vars => [Kept]_vars
  <2> SUFFICES ASSUME TypeOK, ControlInv, RecordInv, [Next]_vars, NEW g \in listed, NEW p \in Partitions,
                      windows[g][p] # <<>>
               PROVE  /\ windows'[g][p] # <<>>
                      /\ windows'[g][p][Len(windows'[g][p])] >= windows[g][p][Len(windows[g][p])]
    OBVIOUS
  <2> USE DEF loopVars, chanVars, workVars, storeVars
  <2> DEFINE w == windows[g][p]
  <2>1. g \in Groups /\ w \in Seq(0..MaxRounds) /\ round \in 0..MaxRounds /\ MaxRounds \in Nat
    BY RoundsAssumption DEF TypeOK
  <2>2. Len(w) \in 1..Len(w) /\ w[Len(w)] \in 1..round /\ w[Len(w)] >= w[Len(w)]
    <3>1. Len(w) \in 1..Len(w)
      BY <2>1
    <3>2. w[Len(w)] \in 1..round
      BY <2>1, <3>1 DEF RecordInv, UpTo
    <3> QED BY <2>1, <3>1, <3>2
  <2>3. CASE windows' = windows
    BY <2>2, <2>3
  <2>4. ASSUME NEW x \in Groups, NEW q \in Partitions, EvaluateWindow(x, q)
        PROVE  /\ windows'[g][p] # <<>>
               /\ windows'[g][p][Len(windows'[g][p])] >= windows[g][p][Len(windows[g][p])]
    <3>1. windows' = [windows EXCEPT ![x][q] = AddToWindow(windows[x][q], round)]
      BY <2>4 DEF EvaluateWindow
    <3>2. CASE x = g /\ q = p
      <4>1. windows'[g][p] = AddToWindow(w, round)
        BY <2>1, <3>1, <3>2 DEF TypeOK
      <4>2. /\ Len(AddToWindow(w, round)) > 0 /\ AddToWindow(w, round) \in Seq(0..MaxRounds)
            /\ AddToWindow(w, round)[Len(AddToWindow(w, round))] = round
        <5> HIDE DEF w
        <5> QED BY <2>1, AddToWindowFacts
      <4>3. round >= w[Len(w)]
        BY <2>1, <2>2
      <4> HIDE DEF w
      <4> QED BY <4>1, <4>2, <4>3 DEF w
    <3>3. CASE ~(x = g /\ q = p)
      <4>1. windows'[g][p] = w
        BY <2>1, <3>1, <3>3 DEF TypeOK
      <4> QED BY <2>2, <4>1
    <3> QED BY <3>2, <3>3
  <2>5. CASE CleanupOldWindows
    <3>1. results = <<>> /\ worker[g] = "none"
      BY <2>1, <2>5 DEF CleanupOldWindows, ControlInv, Collecting
    <3>2. Len(results) = 0
      BY <3>1
    <3>3. UpTo(w, statusStore[g].round)
      BY <2>1, <3>1, <3>2 DEF RecordInv, Carries
    <3>4. w[Len(w)] \in 1..statusStore[g].round /\ statusStore[g].round \in Nat
      BY <2>1, <2>2, <3>3 DEF UpTo, TypeOK, Status
    <3>5. statusStore[g] # NoStatus
      <4>1. statusStore[g].round # 0
        BY <3>4
      <4> QED BY <4>1 DEF NoStatus, NewStatus
    <3>6. KeyGroup(g) \in ActiveGroups
      BY <2>1, <3>5 DEF ActiveGroups
    <3>7. windows'[g][p] = w
      BY <2>1, <2>5, <3>6 DEF CleanupOldWindows
    <3> QED BY <2>2, <3>7
  <2>6. CASE windows' # windows
    <3>1. (\E x \in Groups, q \in Partitions : EvaluateWindow(x, q)) \/ CleanupOldWindows
      BY <2>6 DEF Next, Collect, Work, Evaluate, ListError, ListOK, Spawn, StartDrain, ReceiveError,
           ReceiveStatus, MarkReady, EndRound, OffsetsError, OffsetsOK, EvaluateError, EvaluateNoOffset,
           FinishGroup, Send, ReleaseSem, WgDone, CloseResults, Tick, Done, Cancel, vars
    <3> QED BY <2>4, <2>5, <3>1
  <2> QED BY <2>3, <2>6
<1> QED
  BY <1>1, TypeInit, TypeStep, ControlInit, ControlStep, StoreInit, StoreStep, RecordInit, RecordStep, PTL
     DEF Spec, WindowHistoryKept

-----------------------------------------------------------------------------
(* Refinement of AbstractCollection: the invariant the mapping needs beyond the others *)

\* No collection has published anything yet.
LEMMA PublishedInit == Init => PublishedInv
BY DEF Init, PublishedInv, Collecting

\* A status of this collection enters the store together with the step to "ready", which is left
\* only by setting hasCollected.
LEMMA PublishedStep ==
    TypeOK /\ ControlInv /\ StoreInv /\ PublishedInv /\ [Next]_vars => PublishedInv'
<1> SUFFICES ASSUME TypeOK, ControlInv, StoreInv, PublishedInv, [Next]_vars PROVE PublishedInv'
  OBVIOUS
<1> USE DEF loopVars, chanVars, workVars, storeVars
<1>1. CASE ReceiveStatus
  <2>0. PICK r, g : r = Head(results) /\ g = r.group
    OBVIOUS
  <2>1. /\ results \in Seq(Result) /\ results # <<>> /\ ~r.err
        /\ statusStore' = [statusStore EXCEPT ![g] = r.status]
        /\ round' = round /\ loop' = "ready"
    BY <1>1, <2>0 DEF ReceiveStatus, TypeOK
  <2>2. 1 \in 1..Len(results) /\ r = results[1] /\ r \in Result
    BY <2>0, <2>1
  <2>3. g \in Groups /\ r.status.round = round
    BY <2>0, <2>1, <2>2 DEF Result, StoreInv
  <2>4. statusStore'[g].round = round'
    BY <2>1, <2>3 DEF TypeOK
  <2> QED BY <2>1, <2>3, <2>4 DEF PublishedInv
<1>2. ASSUME NEW gs \in SUBSET Groups, ListOK(gs) PROVE PublishedInv'
  <2>1. round' = round + 1 /\ statusStore' = statusStore /\ loop' = "spawn" /\ round \in Nat
    BY <1>2 DEF ListOK, TypeOK
  <2>2. \A g \in Groups : statusStore[g].round <= round /\ statusStore[g].round \in Nat
    BY DEF StoreInv, TypeOK, Status
  <2> QED BY <2>1, <2>2 DEF PublishedInv
<1>3. CASE MarkReady
  BY <1>3 DEF MarkReady, PublishedInv
<1>4. ASSUME ~ReceiveStatus, ~MarkReady, ~(\E gs \in SUBSET Groups : ListOK(gs)) PROVE PublishedInv'
  <2>1. /\ UNCHANGED <<statusStore, round, hasCollected>>
        /\ loop' = loop \/ loop' \in {"select", "list", "stopped"} \/ (loop = "spawn" /\ loop' = "drain")
    BY <1>4 DEF Next, Collect, Work, Evaluate, ListError, Spawn, StartDrain, ReceiveError,
         EndRound, OffsetsError, OffsetsOK, EvaluateError, EvaluateNoOffset,
         EvaluateWindow, Evaluating, FinishGroup, Send, ReleaseSem, WgDone, CloseResults, Tick,
         CleanupOldWindows, Done, Cancel, vars
  <2> QED BY <2>1 DEF PublishedInv
<1> QED BY <1>1, <1>2, <1>3, <1>4

-----------------------------------------------------------------------------
(* The mapping *)

\* A new collector is a new abstract one.
LEMMA RefineInit == Init => Abstract!Init
<1> SUFFICES ASSUME Init PROVE Abstract!Init
  OBVIOUS
<1>1. Phase = "idle"
  BY DEF Init, Phase
<1>2. Unaccounted = {}
  BY DEF Init, Unaccounted
<1>3. [g \in Groups |-> statusStore[g].round] = [g \in Groups |-> 0]
  BY DEF Init, NoStatus, NewStatus
<1> QED BY <1>1, <1>2, <1>3 DEF Init, Abstract!Init

\* A step that leaves the phase, the groups under way and the store as they are is a stutter.
LEMMA RefineStutter ==
    ASSUME TypeOK, Phase' = Phase, listed' = listed,
           \A g \in listed : Outstanding(g)' <=> Outstanding(g),
           UNCHANGED <<round, failed, statusStore, hasCollected, cancelled>>
    PROVE  UNCHANGED Abstract!vars
<1>1. Unaccounted' = Unaccounted
  BY DEF Unaccounted
<1> QED BY <1>1 DEF Abstract!vars

\* Each step of the loop, of a goroutine or of the closing goroutine is a step of the abstract
\* collection or leaves it as it is: one step per action.
LEMMA RefineStep ==
    TypeOK /\ ControlInv /\ StoreInv /\ PublishedInv /\ [Next]_vars
        => [Abstract!Next]_(Abstract!vars)
<1> SUFFICES ASSUME TypeOK, ControlInv, StoreInv, PublishedInv, [Next]_vars
             PROVE  Abstract!Next \/ UNCHANGED Abstract!vars
  OBVIOUS
<1> USE DEF loopVars, chanVars, workVars, storeVars
<1> DEFINE rounds == [g \in Groups |-> statusStore[g].round]
<1>0. \A x \in listed : x \in Groups
  BY DEF TypeOK
<1>1. ASSUME ListError \/ StartDrain \/ CloseResults \/ Tick \/ CleanupOldWindows \/ UNCHANGED vars
      PROVE  UNCHANGED Abstract!vars
  <2>1. /\ UNCHANGED <<round, listed, pending, results, worker, failed, statusStore, hasCollected, cancelled>>
        /\ \/ loop' = loop
           \/ loop \in {"list", "select"} /\ loop' \in {"list", "select"}
           \/ loop = "spawn" /\ loop' = "drain"
    BY <1>1 DEF ListError, StartDrain, CloseResults, Tick, CleanupOldWindows, vars
  <2>2. Phase' = Phase
    BY <2>1 DEF Phase
  <2>3. \A g \in listed : Outstanding(g)' <=> Outstanding(g)
    BY <2>1 DEF Outstanding
  <2> QED BY <2>1, <2>2, <2>3, RefineStutter
<1>2. ASSUME NEW gs \in SUBSET Groups, ListOK(gs) PROVE Abstract!Begin(gs)
  <2>1. /\ loop = "list" /\ round < MaxRounds /\ loop' = "spawn" /\ round' = round + 1
        /\ listed' = gs /\ pending' = gs /\ failed' = {}
        /\ UNCHANGED <<statusStore, hasCollected, cancelled>>
    BY <1>2 DEF ListOK
  <2>2. Phase = "idle" /\ Phase' = "collecting"
    BY <2>1 DEF Phase
  <2>3. Unaccounted' = gs
    BY <2>1 DEF Unaccounted, Outstanding
  <2> QED BY <2>1, <2>2, <2>3 DEF Abstract!Begin
<1>3. ASSUME NEW g \in Groups, Spawn(g) PROVE UNCHANGED Abstract!vars
  <2>1. /\ g \in pending /\ pending' = pending \ {g} /\ worker' = [worker EXCEPT ![g] = "offsets"]
        /\ UNCHANGED <<loop, round, listed, results, failed, statusStore, hasCollected, cancelled>>
    BY <1>3 DEF Spawn
  <2>2. \A x \in listed : Outstanding(x)' <=> Outstanding(x)
    BY <1>0, <2>1 DEF Outstanding, TypeOK, ControlInv
  <2>3. Phase' = Phase
    BY <2>1 DEF Phase
  <2> QED BY <2>1, <2>2, <2>3, RefineStutter
<1>4. ASSUME ReceiveError \/ ReceiveStatus
      PROVE  \E g \in Groups : Abstract!Publish(g) \/ Abstract!Fail(g)
  <2>0. PICK r, g : r = Head(results) /\ g = r.group
    OBVIOUS
  <2>1. /\ results \in Seq(Result) /\ results # <<>> /\ results' = Tail(results)
        /\ UNCHANGED <<round, listed, pending, worker, hasCollected, cancelled>>
        /\ loop = "drain" /\ loop' \in {"drain", "ready"}
    BY <1>4 DEF ReceiveError, ReceiveStatus, TypeOK
  <2>2. /\ Len(results') = Len(results) - 1 /\ 1 \in 1..Len(results) /\ r = results[1] /\ r \in Result
        /\ \A i \in 1..Len(results') : i + 1 \in 1..Len(results) /\ results'[i] = results[i + 1]
        /\ \A i \in 1..Len(results) : i = 1 \/ (i - 1 \in 1..Len(results') /\ results'[i - 1] = results[i])
    BY <2>0, <2>1
  <2>3. g \in Groups /\ r.status \in Status
    BY <2>0, <2>2 DEF Result
  <2>4. g \in listed /\ g \notin pending /\ worker[g] \in {"release", "finish", "none"}
    BY <2>0, <2>2 DEF ControlInv
  <2>5. \A i \in 1..Len(results') : results'[i].group # g
    BY <2>0, <2>2 DEF ControlInv
  <2>6. Outstanding(g) /\ ~Outstanding(g)'
    BY <2>0, <2>1, <2>2, <2>4, <2>5 DEF Outstanding
  <2>7. \A x \in listed : x # g => (Outstanding(x)' <=> Outstanding(x))
    <3> SUFFICES ASSUME NEW x \in listed, x # g PROVE Outstanding(x)' <=> Outstanding(x)
      OBVIOUS
    <3>1. (\E i \in 1..Len(results') : results'[i].group = x) <=> (\E i \in 1..Len(results) : results[i].group = x)
      <4>1. ASSUME NEW i \in 1..Len(results), results[i].group = x
            PROVE  \E k \in 1..Len(results') : results'[k].group = x
        BY <2>0, <2>2, <4>1
      <4>2. ASSUME NEW i \in 1..Len(results'), results'[i].group = x
            PROVE  \E k \in 1..Len(results) : results[k].group = x
        BY <2>2, <4>2
      <4> QED BY <4>1, <4>2
    <3> QED BY <2>1, <3>1 DEF Outstanding
  <2>8. g \in Unaccounted /\ Unaccounted' = Unaccounted \ {g}
    BY <2>1, <2>4, <2>6, <2>7 DEF Unaccounted
  <2>9. Phase = "collecting" /\ Phase' = "collecting"
    BY <2>1 DEF Phase
  <2>10. CASE ReceiveError
    <3>1. statusStore' = statusStore /\ failed' = failed \cup {g}
      BY <2>0, <2>10 DEF ReceiveError
    <3>2. Abstract!Fail(g)
      BY <2>1, <2>8, <2>9, <3>1 DEF Abstract!Fail
    <3> QED BY <2>3, <3>2
  <2>11. CASE ReceiveStatus
    <3>1. statusStore' = [statusStore EXCEPT ![g] = r.status] /\ failed' = failed /\ ~r.err
      BY <2>0, <2>11 DEF ReceiveStatus
    <3>2. r.status.round = round
      BY <2>2, <3>1 DEF StoreInv
    <3>3. rounds' = [rounds EXCEPT ![g] = round]
      BY <2>3, <3>1, <3>2 DEF TypeOK
    <3>4. Abstract!Publish(g)
      BY <2>1, <2>8, <2>9, <3>1, <3>3 DEF Abstract!Publish
    <3> QED BY <2>3, <3>4
  <2> QED BY <1>4, <2>10, <2>11
<1>5. ASSUME MarkReady PROVE Abstract!MarkReady
  <2>1. /\ loop = "ready" /\ loop' = "drain" /\ hasCollected' = TRUE
        /\ UNCHANGED <<round, listed, pending, results, worker, failed, statusStore, cancelled>>
    BY <1>5 DEF MarkReady
  <2>2. Phase = "collecting" /\ Phase' = "collecting"
    BY <2>1 DEF Phase
  <2>3. Unaccounted' = Unaccounted
    BY <2>1 DEF Unaccounted, Outstanding
  <2>4. \E g \in Groups : rounds[g] = round
    BY <2>1 DEF PublishedInv
  <2> QED BY <2>1, <2>2, <2>3, <2>4 DEF Abstract!MarkReady
<1>6. ASSUME EndRound PROVE Abstract!End
  <2>1. /\ loop = "drain" /\ loop' = "select" /\ closed /\ results = <<>>
        /\ UNCHANGED <<round, listed, pending, results, worker, failed, statusStore, hasCollected, cancelled>>
    BY <1>6 DEF EndRound
  <2>2. Phase = "collecting" /\ Phase' = "idle"
    BY <2>1 DEF Phase
  <2>3. Unaccounted' = Unaccounted
    BY <2>1 DEF Unaccounted, Outstanding
  <2>4. Unaccounted = {}
    <3>1. Len(results) = 0 /\ pending = {} /\ \A g \in Groups : worker[g] = "none"
      BY <2>1 DEF ControlInv
    <3> QED BY <1>0, <3>1 DEF Unaccounted, Outstanding
  <2>5. (\E g \in Groups : rounds[g] = round) => hasCollected
    BY <2>1 DEF PublishedInv
  <2> QED BY <2>1, <2>2, <2>3, <2>4, <2>5 DEF Abstract!End
<1>7. ASSUME NEW g \in Groups, Work(g) PROVE UNCHANGED Abstract!vars
  <2>1. UNCHANGED <<loop, round, listed, pending, failed, statusStore, hasCollected, cancelled>>
    BY <1>7 DEF Work, OffsetsError, OffsetsOK, Evaluate, EvaluateError, EvaluateNoOffset,
                EvaluateWindow, Evaluating, FinishGroup, Send, ReleaseSem, WgDone
  <2>2. Phase' = Phase
    BY <2>1 DEF Phase
  <2>3. \A x \in listed : Outstanding(x)' <=> Outstanding(x)
    <3>1. CASE Send(g)
      <4> DEFINE r == [group |-> g, err |-> acc[g].round = 0, status |-> acc[g]]
      <4>1. /\ worker[g] = "send" /\ worker' = [worker EXCEPT ![g] = "release"]
            /\ results \in Seq(Result) /\ results' = Append(results, r) /\ r.group = g
        BY <3>1 DEF Send, TypeOK
      <4> HIDE DEF r
      <4>2. /\ Len(results') = Len(results) + 1
            /\ \A i \in 1..Len(results) : results'[i] = results[i] /\ i \in 1..Len(results')
            /\ results'[Len(results) + 1] = r /\ Len(results) + 1 \in 1..Len(results')
            /\ \A i \in 1..Len(results') : i \in 1..Len(results) \/ i = Len(results) + 1
        BY <4>1
      <4> SUFFICES ASSUME NEW x \in listed PROVE Outstanding(x)' <=> Outstanding(x)
        OBVIOUS
      <4>3. CASE x = g
        BY <4>1, <4>2, <4>3 DEF Outstanding
      <4>4. CASE x # g
        <5>1. (\E i \in 1..Len(results') : results'[i].group = x) <=> (\E i \in 1..Len(results) : results[i].group = x)
          BY <4>1, <4>2, <4>4
        <5> QED BY <1>0, <2>1, <4>1, <4>4, <5>1 DEF Outstanding, TypeOK
      <4> QED BY <4>3, <4>4
    <3>2. CASE ~Send(g)
      <4>1. /\ results' = results
            /\ \/ worker' = worker
               \/ /\ worker[g] \in {"offsets", "eval"}
                  /\ \E s \in {"eval", "send"} : worker' = [worker EXCEPT ![g] = s]
               \/ /\ worker[g] \in {"release", "finish"}
                  /\ \E s \in {"finish", "none"} : worker' = [worker EXCEPT ![g] = s]
        BY <1>7, <3>2 DEF Work, OffsetsError, OffsetsOK, Evaluate, EvaluateError, EvaluateNoOffset,
                          EvaluateWindow, Evaluating, FinishGroup, ReleaseSem, WgDone
      <4> QED BY <1>0, <2>1, <4>1 DEF Outstanding, TypeOK
    <3> QED BY <3>1, <3>2
  <2> QED BY <2>1, <2>2, <2>3, RefineStutter
<1>8. ASSUME Done PROVE Abstract!Stop
  <2>1. /\ loop = "select" /\ loop' = "stopped" /\ cancelled
        /\ UNCHANGED <<round, listed, pending, results, worker, failed, statusStore, hasCollected, cancelled>>
    BY <1>8 DEF Done
  <2>2. Phase = "idle" /\ Phase' = "stopped"
    BY <2>1 DEF Phase
  <2>3. Unaccounted' = Unaccounted
    BY <2>1 DEF Unaccounted, Outstanding
  <2> QED BY <2>1, <2>2, <2>3 DEF Abstract!Stop
<1>9. ASSUME Cancel PROVE Abstract!Cancel
  <2>1. /\ ~cancelled /\ cancelled' = TRUE
        /\ UNCHANGED <<loop, round, listed, pending, results, worker, failed, statusStore, hasCollected>>
    BY <1>9 DEF Cancel
  <2>2. Phase' = Phase
    BY <2>1 DEF Phase
  <2>3. Unaccounted' = Unaccounted
    BY <2>1 DEF Unaccounted, Outstanding
  <2> QED BY <2>1, <2>2, <2>3 DEF Abstract!Cancel
<1>10. \/ ListError \/ StartDrain \/ CloseResults \/ Tick \/ CleanupOldWindows \/ UNCHANGED vars
       \/ \E gs \in SUBSET Groups : ListOK(gs)
       \/ \E g \in Groups : Spawn(g)
       \/ ReceiveError \/ ReceiveStatus \/ MarkReady \/ EndRound \/ Done \/ Cancel
       \/ \E g \in Groups : Work(g)
  BY DEF Next, Collect
<1> QED
  BY <1>1, <1>2, <1>3, <1>4, <1>5, <1>6, <1>7, <1>8, <1>9, <1>10 DEF Abstract!Next

\* Semaphore, goroutines, result channel, wait group and the two-step publication of a result
\* (collector.go:204-249) implement the abstract collection.
THEOREM CollectorImplementsCollection == Spec => ImplementsCollection
BY RefineInit, RefineStep, PublishedInit, PublishedStep, TypeInit, TypeStep, ControlInit,
   ControlStep, StoreInit, StoreStep, PTL DEF Spec, ImplementsCollection, Abstract!Spec

-----------------------------------------------------------------------------
(* Progress *)

\* Groups that have no goroutine yet or whose goroutine is at one of the places ws.
NotBeyond(ws) == pending \cup {g \in Groups : worker[g] \in ws}

\* What is left of a collection: groups without a goroutine, groups to read offsets of, partitions to
\* evaluate, groups to finish, to send, to release, to end the goroutine of, and to take from results.
ToRead == NotBeyond({"offsets"})
ToEvaluate == {x \in Groups \X Partitions :
                  x[1] \in ToRead \/ (worker[x[1]] = "eval" /\ x[2] \in todo[x[1]])}
ToFinish == NotBeyond({"offsets", "eval"})
ToSend == NotBeyond({"offsets", "eval", "send"})
ToRelease == NotBeyond({"offsets", "eval", "send", "release"})
ToEnd == NotBeyond({"offsets", "eval", "send", "release", "finish"})
ToReceive == ToSend \cup {g \in Groups : \E i \in 1..Len(results) : results[i].group = g}

Parts == <<pending, ToRead, ToEvaluate, ToFinish, ToSend, ToRelease, ToEnd, ToReceive>>

\* The steps that sets of these sizes stand for: a result that is received may have to be marked.
Effort(s) ==
    Cardinality(s[1]) + Cardinality(s[2]) + Cardinality(s[3]) + Cardinality(s[4]) + Cardinality(s[5])
    + Cardinality(s[6]) + Cardinality(s[7]) + 2 * Cardinality(s[8])

\* Steps of the loop l and of the closing goroutine that carry no group.
Idle(l, c) == (IF l \in {"spawn", "ready"} THEN 1 ELSE 0) + (IF c THEN 0 ELSE 1)

\* An upper bound of the steps the collection in progress can still take.
StepsLeft == Effort(Parts) + Idle(loop, closed)

\* Somebody can take a step: the guards of the loop, of the closing goroutine and of the others.
SomebodyCanGo ==
    \/ loop = "spawn" /\ (pending = {} \/ sem < MaxConcurrency)
    \/ loop = "ready"
    \/ loop = "drain" /\ (results # <<>> \/ closed)
    \/ loop \in {"drain", "ready"} /\ ~closed /\ AllDone
    \/ \E g \in Groups :
          \/ worker[g] \in {"offsets", "eval", "finish"}
          \/ worker[g] = "send" /\ Len(results) < ResultsCap
          \/ worker[g] = "release" /\ sem > 0

\* A subset of a finite set.
LEMMA SmallerSet ==
    ASSUME NEW s, IsFiniteSet(s), NEW t, t \subseteq s
    PROVE  \E n \in Nat, m \in Nat :
             n = Cardinality(s) /\ m = Cardinality(t) /\ m <= n /\ (t # s => m < n)
<1>1. IsFiniteSet(t) /\ Cardinality(t) <= Cardinality(s) /\ (Cardinality(s) = Cardinality(t) => s = t)
  BY FS_Subset
<1>2. Cardinality(s) \in Nat /\ Cardinality(t) \in Nat
  BY <1>1, FS_CardinalityType
<1> QED BY <1>1, <1>2

\* No part of t has what the same part of s lacks.
Within(t, s) == \A i \in 1..8 : t[i] \subseteq s[i]

\* The effort goes down with each part that gets smaller, by two with the last.
LEMMA EffortShrinks ==
    ASSUME NEW s, \A i \in 1..8 : IsFiniteSet(s[i]), NEW t, Within(t, s)
    PROVE  \E n \in Nat, m \in Nat :
             /\ n = Effort(s) /\ m = Effort(t)
             /\ m <= n
             /\ \A i \in 1..8 : t[i] # s[i] => m < n
             /\ t[8] # s[8] => m + 2 <= n
<1>0. ASSUME NEW i \in 1..8
      PROVE  \E n \in Nat, m \in Nat :
               n = Cardinality(s[i]) /\ m = Cardinality(t[i]) /\ m <= n /\ (t[i] # s[i] => m < n)
  BY SmallerSet DEF Within
<1>1. PICK n1 \in Nat, m1 \in Nat :
        n1 = Cardinality(s[1]) /\ m1 = Cardinality(t[1]) /\ m1 <= n1 /\ (t[1] # s[1] => m1 < n1)
  BY <1>0
<1>2. PICK n2 \in Nat, m2 \in Nat :
        n2 = Cardinality(s[2]) /\ m2 = Cardinality(t[2]) /\ m2 <= n2 /\ (t[2] # s[2] => m2 < n2)
  BY <1>0
<1>3. PICK n3 \in Nat, m3 \in Nat :
        n3 = Cardinality(s[3]) /\ m3 = Cardinality(t[3]) /\ m3 <= n3 /\ (t[3] # s[3] => m3 < n3)
  BY <1>0
<1>4. PICK n4 \in Nat, m4 \in Nat :
        n4 = Cardinality(s[4]) /\ m4 = Cardinality(t[4]) /\ m4 <= n4 /\ (t[4] # s[4] => m4 < n4)
  BY <1>0
<1>5. PICK n5 \in Nat, m5 \in Nat :
        n5 = Cardinality(s[5]) /\ m5 = Cardinality(t[5]) /\ m5 <= n5 /\ (t[5] # s[5] => m5 < n5)
  BY <1>0
<1>6. PICK n6 \in Nat, m6 \in Nat :
        n6 = Cardinality(s[6]) /\ m6 = Cardinality(t[6]) /\ m6 <= n6 /\ (t[6] # s[6] => m6 < n6)
  BY <1>0
<1>7. PICK n7 \in Nat, m7 \in Nat :
        n7 = Cardinality(s[7]) /\ m7 = Cardinality(t[7]) /\ m7 <= n7 /\ (t[7] # s[7] => m7 < n7)
  BY <1>0
<1>8. PICK n8 \in Nat, m8 \in Nat :
        n8 = Cardinality(s[8]) /\ m8 = Cardinality(t[8]) /\ m8 <= n8 /\ (t[8] # s[8] => m8 < n8)
  BY <1>0
<1>9. PICK n \in Nat : n = n1 + n2 + n3 + n4 + n5 + n6 + n7 + 2 * n8
  OBVIOUS
<1>10. PICK m \in Nat : m = m1 + m2 + m3 + m4 + m5 + m6 + m7 + 2 * m8
  OBVIOUS
<1>11. n = Effort(s) /\ m = Effort(t)
  BY <1>1, <1>2, <1>3, <1>4, <1>5, <1>6, <1>7, <1>8, <1>9, <1>10 DEF Effort
<1>12. /\ m <= n
       /\ \/ m1 < n1 \/ m2 < n2 \/ m3 < n3 \/ m4 < n4 \/ m5 < n5 \/ m6 < n6 \/ m7 < n7 \/ m8 < n8
          => m < n
       /\ m8 < n8 => m + 2 <= n
  BY <1>1, <1>2, <1>3, <1>4, <1>5, <1>6, <1>7, <1>8, <1>9, <1>10
<1>13. \A i \in 1..8 : t[i] # s[i] => m < n
  <2>1. \A i \in 1..8 : i = 1 \/ i = 2 \/ i = 3 \/ i = 4 \/ i = 5 \/ i = 6 \/ i = 7 \/ i = 8
    OBVIOUS
  <2> QED BY <1>1, <1>2, <1>3, <1>4, <1>5, <1>6, <1>7, <1>8, <1>12, <2>1
<1> QED BY <1>8, <1>11, <1>12, <1>13

\* No part of what is left has grown, and
Shrinks == Within(Parts', Parts)

\* the step takes something away, or turns a flag, or receives a result.
Counts ==
    \/ loop' = loop /\ closed' = closed /\ \E i \in 1..8 : Parts'[i] # Parts[i]
    \/ loop \in {"spawn", "ready"} /\ loop' = "drain" /\ closed' = closed
    \/ loop' = loop /\ ~closed /\ closed'
    \/ loop = "drain" /\ loop' = "ready" /\ closed' = closed /\ Parts'[8] # Parts[8]

\* What is left of a collection is finite.
LEMMA PartsFinite ==
    ASSUME TypeOK, IsFiniteSet(Partitions)
    PROVE  \A i \in 1..8 : IsFiniteSet(Parts[i])
<1>1. /\ pending \subseteq Groups /\ ToRead \subseteq Groups /\ ToFinish \subseteq Groups
      /\ ToSend \subseteq Groups /\ ToRelease \subseteq Groups /\ ToEnd \subseteq Groups
      /\ ToReceive \subseteq Groups
  BY DEF TypeOK, NotBeyond, ToRead, ToFinish, ToSend, ToRelease, ToEnd, ToReceive
<1>2. ToEvaluate \subseteq Groups \X Partitions
  BY DEF ToEvaluate
<1>3. IsFiniteSet(Groups) /\ IsFiniteSet(Groups \X Partitions)
  BY GroupsAssumption, FS_Product
<1>4. \A i \in 1..8 : Parts[i] \subseteq Groups \/ Parts[i] \subseteq Groups \X Partitions
  BY <1>1, <1>2 DEF Parts
<1> QED BY <1>3, <1>4, FS_Subset

\* A collection has finitely many steps left, and fewer after one that counts.
LEMMA StepCounts ==
    ASSUME TypeOK, IsFiniteSet(Partitions)
    PROVE  /\ StepsLeft \in Nat
           /\ Shrinks /\ Counts => StepsLeft' < StepsLeft
<1>1. \A i \in 1..8 : IsFiniteSet(Parts[i])
  BY PartsFinite
<1>2. Within(Parts, Parts)
  BY DEF Within
<1>3. /\ Idle(loop, closed) \in Nat /\ Idle(loop', closed') \in Nat
      /\ loop' = loop /\ closed' = closed => Idle(loop', closed') = Idle(loop, closed)
      /\ loop \in {"spawn", "ready"} /\ loop' = "drain" /\ closed' = closed
         => Idle(loop', closed') < Idle(loop, closed)
      /\ loop' = loop /\ ~closed /\ closed' => Idle(loop', closed') < Idle(loop, closed)
      /\ loop = "drain" /\ loop' = "ready" /\ closed' = closed
         => Idle(loop', closed') <= Idle(loop, closed) + 1
  <2> DEFINE busy(l) == IF l \in {"spawn", "ready"} THEN 1 ELSE 0
             open(c) == IF c THEN 0 ELSE 1
  <2>1. \A l, c : Idle(l, c) = busy(l) + open(c)
    BY DEF Idle
  <2>2. /\ \A l : busy(l) \in Nat /\ open(l) \in Nat
        /\ \A l : l \in {"spawn", "ready"} => busy(l) = 1
        /\ busy("drain") = 0 /\ busy("ready") = 1
    OBVIOUS
  <2>3. ~closed /\ closed' => open(closed) = 1 /\ open(closed') = 0
    OBVIOUS
  <2> HIDE DEF busy, open
  <2> QED BY <2>1, <2>2, <2>3
<1>4. PICK n \in Nat : n = Effort(Parts)
  BY <1>1, <1>2, EffortShrinks
<1>5. PICK f \in Nat, h \in Nat : f = Idle(loop, closed) /\ h = Idle(loop', closed')
  BY <1>3
<1>6. StepsLeft = n + f
  BY <1>4, <1>5 DEF StepsLeft
<1>7. ASSUME Shrinks, Counts PROVE StepsLeft' < StepsLeft
  <2> DEFINE less == \E i \in 1..8 : Parts'[i] # Parts[i]
             fewer == Parts'[8] # Parts[8]
  <2>1. PICK k \in Nat, m \in Nat :
             /\ k = Effort(Parts) /\ m = Effort(Parts')
             /\ m <= k
             /\ \A i \in 1..8 : Parts'[i] # Parts[i] => m < k
             /\ Parts'[8] # Parts[8] => m + 2 <= k
    BY <1>1, <1>7, EffortShrinks DEF Shrinks
  <2>2. m <= n /\ (less => m < n) /\ (fewer => m + 2 <= n)
    BY <1>4, <2>1
  <2>3. StepsLeft' = m + h
    BY <1>5, <2>1 DEF StepsLeft
  <2>4. \/ less /\ h = f
        \/ h < f
        \/ fewer /\ h <= f + 1
    BY <1>3, <1>5, <1>7 DEF Counts
  <2> HIDE DEF less, fewer
  <2>5. m + h < n + f
    BY <2>2, <2>4
  <2> QED BY <1>6, <2>3, <2>5
<1> QED BY <1>6, <1>7

\* What the parts are, for the actions.
Lessens ==
    /\ pending' \subseteq pending /\ ToRead' \subseteq ToRead /\ ToEvaluate' \subseteq ToEvaluate
    /\ ToFinish' \subseteq ToFinish /\ ToSend' \subseteq ToSend /\ ToRelease' \subseteq ToRelease
    /\ ToEnd' \subseteq ToEnd /\ ToReceive' \subseteq ToReceive

LEMMA LessensShrinks ==
    /\ Lessens => Shrinks
    /\ pending' # pending => Parts'[1] # Parts[1]
    /\ ToRead' # ToRead => Parts'[2] # Parts[2]
    /\ ToEvaluate' # ToEvaluate => Parts'[3] # Parts[3]
    /\ ToFinish' # ToFinish => Parts'[4] # Parts[4]
    /\ ToSend' # ToSend => Parts'[5] # Parts[5]
    /\ ToRelease' # ToRelease => Parts'[6] # Parts[6]
    /\ ToEnd' # ToEnd => Parts'[7] # Parts[7]
    /\ ToReceive' # ToReceive => Parts'[8] # Parts[8]
<1>1. \A i \in 1..8 : i = 1 \/ i = 2 \/ i = 3 \/ i = 4 \/ i = 5 \/ i = 6 \/ i = 7 \/ i = 8
  OBVIOUS
<1>2. Lessens => Shrinks
  BY <1>1 DEF Lessens, Shrinks, Within, Parts
<1> QED BY <1>2 DEF Parts

\* Every step of a collection takes something away from what is left of it, or ends it.
LEMMA CollectionStep ==
    ASSUME TypeOK, ControlInv, Collecting, Next, ~Cancel
    PROVE  loop' = "select" \/ (Shrinks /\ Counts)
<1> USE DEF loopVars, chanVars, workVars, storeVars
<1>1. ASSUME NEW g \in Groups, Spawn(g) PROVE Shrinks /\ Counts
  <2>1. worker[g] = "none"
    BY <1>1 DEF Spawn, ControlInv
  <2>2. /\ pending' = pending \ {g} /\ g \in pending /\ worker' = [worker EXCEPT ![g] = "offsets"]
        /\ UNCHANGED <<todo, results, loop, closed>>
    BY <1>1 DEF Spawn
  <2>3. \A ws : "offsets" \in ws => NotBeyond(ws)' \subseteq NotBeyond(ws)
    BY <2>2 DEF NotBeyond, TypeOK
  <2>4. /\ ToRead' \subseteq ToRead /\ ToFinish' \subseteq ToFinish /\ ToSend' \subseteq ToSend
        /\ ToRelease' \subseteq ToRelease /\ ToEnd' \subseteq ToEnd
    BY <2>3 DEF ToRead, ToFinish, ToSend, ToRelease, ToEnd
  <2>5. ToEvaluate' \subseteq ToEvaluate
    BY <2>2, <2>4 DEF ToEvaluate, TypeOK
  <2>6. ToReceive' \subseteq ToReceive
    BY <2>2, <2>4 DEF ToReceive
  <2>7. Lessens /\ pending' # pending
    BY <2>2, <2>4, <2>5, <2>6 DEF Lessens
  <2> QED BY <2>2, <2>7, LessensShrinks DEF Counts
<1>2. ASSUME StartDrain \/ MarkReady \/ CloseResults PROVE Shrinks /\ Counts
  <2>1. UNCHANGED <<pending, worker, todo, results>>
    BY <1>2 DEF StartDrain, MarkReady, CloseResults
  <2>2. /\ ToRead' = ToRead /\ ToFinish' = ToFinish /\ ToSend' = ToSend
        /\ ToRelease' = ToRelease /\ ToEnd' = ToEnd
    BY <2>1 DEF ToRead, ToFinish, ToSend, ToRelease, ToEnd, NotBeyond
  <2>3. ToEvaluate' = ToEvaluate
    BY <2>1, <2>2 DEF ToEvaluate
  <2>4. ToReceive' = ToReceive
    BY <2>1, <2>2 DEF ToReceive
  <2>5. Lessens
    BY <2>1, <2>2, <2>3, <2>4 DEF Lessens
  <2>6. \/ loop \in {"spawn", "ready"} /\ loop' = "drain" /\ closed' = closed
        \/ loop' = loop /\ ~closed /\ closed'
    BY <1>2 DEF StartDrain, MarkReady, CloseResults
  <2> QED BY <2>5, <2>6, LessensShrinks DEF Counts
<1>3. ASSUME ReceiveError \/ ReceiveStatus PROVE Shrinks /\ Counts
  <2>1. /\ UNCHANGED <<pending, worker, todo, closed>> /\ results' = Tail(results) /\ results # <<>>
        /\ loop = "drain" /\ loop' \in {"drain", "ready"}
    BY <1>3 DEF ReceiveError, ReceiveStatus
  <2>2. /\ ToRead' = ToRead /\ ToFinish' = ToFinish /\ ToSend' = ToSend
        /\ ToRelease' = ToRelease /\ ToEnd' = ToEnd
    BY <2>1 DEF ToRead, ToFinish, ToSend, ToRelease, ToEnd, NotBeyond
  <2>3. ToEvaluate' = ToEvaluate
    BY <2>1, <2>2 DEF ToEvaluate
  <2>4. results \in Seq(Result) /\ Len(results) > 0
    BY <2>1 DEF TypeOK
  <2>5. Len(results') = Len(results) - 1 /\ \A i \in 1..Len(results') : results'[i] = results[i + 1]
    BY <2>1, <2>4
  <2>6. \A i \in 1..Len(results') : i + 1 \in 1..Len(results) /\ i + 1 # 1 /\ results'[i] = results[i + 1]
    BY <2>4, <2>5
  <2>7. ToReceive' \subseteq ToReceive
    BY <2>2, <2>6 DEF ToReceive
  <2>8. PICK g : g = results[1].group /\ g \in Groups /\ g \in ToReceive /\ g \notin ToReceive'
    <3>1. 1 \in 1..Len(results) /\ results[1] \in Result
      BY <2>4
    <3>2. PICK g \in Groups : g = results[1].group
      BY <3>1 DEF Result
    <3>3. g \in ToReceive
      BY <3>1, <3>2 DEF ToReceive
    <3>4. g \notin ToSend
      BY <3>1, <3>2 DEF ControlInv, ToSend, NotBeyond
    <3>5. \A i \in 1..Len(results') : results'[i].group # g
      BY <2>6, <3>1, <3>2 DEF ControlInv
    <3>6. g \notin ToReceive'
      BY <2>2, <3>4, <3>5 DEF ToReceive
    <3> QED BY <3>2, <3>3, <3>6
  <2>9. Lessens /\ ToReceive' # ToReceive
    BY <2>1, <2>2, <2>3, <2>7, <2>8 DEF Lessens
  <2> QED BY <2>1, <2>9, LessensShrinks DEF Counts
<1>4. ASSUME NEW g \in Groups, NEW from, NEW to, worker[g] = from, worker' = [worker EXCEPT ![g] = to],
             pending' = pending, NEW ws, to \in ws => from \in ws
      PROVE  NotBeyond(ws)' \subseteq NotBeyond(ws)
  BY <1>4 DEF NotBeyond, TypeOK
<1>5. ASSUME NEW g \in Groups, NEW from, NEW to, worker[g] = from, worker' = [worker EXCEPT ![g] = to],
             pending' = pending,
             <<from, to>> \in {<<"offsets", "send">>, <<"offsets", "eval">>, <<"eval", "send">>,
                               <<"send", "release">>, <<"release", "finish">>, <<"finish", "none">>}
      PROVE  /\ ToRead' \subseteq ToRead /\ ToFinish' \subseteq ToFinish /\ ToSend' \subseteq ToSend
             /\ ToRelease' \subseteq ToRelease /\ ToEnd' \subseteq ToEnd
             /\ g \notin pending
             /\ from = "offsets" => g \in ToRead /\ g \notin ToRead'
             /\ from = "eval" => g \in ToFinish /\ g \notin ToFinish'
             /\ from = "send" => g \in ToSend /\ g \notin ToSend'
             /\ from = "release" => g \in ToRelease /\ g \notin ToRelease'
             /\ from = "finish" => g \in ToEnd /\ g \notin ToEnd'
  <2>1. worker[g] # "none" /\ g \notin pending
    BY <1>5 DEF ControlInv
  <2>2. /\ to \in {"offsets"} => from \in {"offsets"}
        /\ to \in {"offsets", "eval"} => from \in {"offsets", "eval"}
        /\ to \in {"offsets", "eval", "send"} => from \in {"offsets", "eval", "send"}
        /\ to \in {"offsets", "eval", "send", "release"} => from \in {"offsets", "eval", "send", "release"}
        /\ to \in {"offsets", "eval", "send", "release", "finish"}
             => from \in {"offsets", "eval", "send", "release", "finish"}
    BY <1>5
  <2>3. /\ ToRead' \subseteq ToRead /\ ToFinish' \subseteq ToFinish /\ ToSend' \subseteq ToSend
        /\ ToRelease' \subseteq ToRelease /\ ToEnd' \subseteq ToEnd
    BY <1>4, <1>5, <2>2 DEF ToRead, ToFinish, ToSend, ToRelease, ToEnd
  <2>4. worker'[g] = to
    BY <1>5 DEF TypeOK
  <2>5. \A ws : from \in ws /\ to \notin ws => g \in NotBeyond(ws) /\ g \notin NotBeyond(ws)'
    BY <1>5, <2>1, <2>4 DEF NotBeyond
  <2>6. /\ from = "offsets" => g \in ToRead /\ g \notin ToRead'
        /\ from = "eval" => g \in ToFinish /\ g \notin ToFinish'
        /\ from = "send" => g \in ToSend /\ g \notin ToSend'
        /\ from = "release" => g \in ToRelease /\ g \notin ToRelease'
        /\ from = "finish" => g \in ToEnd /\ g \notin ToEnd'
    BY <1>5, <2>5 DEF ToRead, ToFinish, ToSend, ToRelease, ToEnd
  <2> QED BY <2>1, <2>3, <2>6
<1>6. ASSUME NEW g \in Groups, OffsetsError(g) \/ (\E ps \in SUBSET Partitions : OffsetsOK(g, ps))
                               \/ FinishGroup(g) \/ ReleaseSem(g) \/ WgDone(g)
      PROVE  Shrinks /\ Counts
  <2>1. PICK from, to :
          /\ worker[g] = from /\ worker' = [worker EXCEPT ![g] = to] /\ UNCHANGED <<pending, results, loop, closed>>
          /\ <<from, to>> \in {<<"offsets", "send">>, <<"offsets", "eval">>, <<"eval", "send">>,
                               <<"release", "finish">>, <<"finish", "none">>}
          /\ to = "eval" => from = "offsets"
          /\ \A k \in Groups : k # g \/ to # "eval" => todo'[k] = todo[k]
    <3>1. CASE OffsetsError(g)
      BY <3>1 DEF OffsetsError
    <3>2. CASE \E ps \in SUBSET Partitions : OffsetsOK(g, ps)
      <4>1. \A k \in Groups : k # g => todo'[k] = todo[k]
        BY <3>2 DEF OffsetsOK, TypeOK
      <4> QED BY <3>2, <4>1 DEF OffsetsOK
    <3>3. CASE FinishGroup(g)
      <4>1. /\ worker[g] = "eval" /\ worker' = [worker EXCEPT ![g] = "send"]
            /\ UNCHANGED <<pending, todo, results, loop, closed>>
        BY <3>3 DEF FinishGroup
      <4>2. \A k \in Groups : todo'[k] = todo[k]
        BY <4>1
      <4>3. <<"eval", "send">> \in {<<"offsets", "send">>, <<"offsets", "eval">>, <<"eval", "send">>,
                                   <<"release", "finish">>, <<"finish", "none">>}
        OBVIOUS
      <4> WITNESS "eval", "send"
      <4> QED BY <4>1, <4>2, <4>3
    <3>4. CASE ReleaseSem(g) \/ WgDone(g)
      BY <3>4 DEF ReleaseSem, WgDone
    <3> QED BY <1>6, <3>1, <3>2, <3>3, <3>4
  <2>2. /\ ToRead' \subseteq ToRead /\ ToFinish' \subseteq ToFinish /\ ToSend' \subseteq ToSend
        /\ ToRelease' \subseteq ToRelease /\ ToEnd' \subseteq ToEnd
        /\ ToRead' # ToRead \/ ToFinish' # ToFinish \/ ToRelease' # ToRelease \/ ToEnd' # ToEnd
        /\ from = "offsets" => g \in ToRead
    BY <1>5, <2>1
  <2>3. ToEvaluate' \subseteq ToEvaluate
    <3>1. \A k \in Groups : k # g => worker'[k] = worker[k]
      BY <2>1 DEF TypeOK
    <3>2. worker'[g] = to
      BY <2>1 DEF TypeOK
    <3>3. ASSUME NEW k \in Groups, NEW p \in Partitions, worker'[k] = "eval", p \in todo'[k]
          PROVE  k \in ToRead \/ (worker[k] = "eval" /\ p \in todo[k])
      <4>1. CASE k = g
        BY <2>1, <2>2, <3>2, <3>3, <4>1
      <4>2. CASE k # g
        BY <2>1, <3>1, <3>3, <4>2
      <4> QED BY <4>1, <4>2
    <3> QED BY <2>2, <3>3 DEF ToEvaluate
  <2>4. ToReceive' \subseteq ToReceive
    BY <2>1, <2>2 DEF ToReceive
  <2>5. Lessens
    BY <2>1, <2>2, <2>3, <2>4 DEF Lessens
  <2> QED BY <2>1, <2>2, <2>5, LessensShrinks DEF Counts
<1>7. ASSUME NEW g \in Groups, NEW p \in Partitions,
             EvaluateError(g, p) \/ EvaluateNoOffset(g, p) \/ EvaluateWindow(g, p)
      PROVE  Shrinks /\ Counts
  <2>1. /\ worker[g] = "eval" /\ p \in todo[g] /\ todo' = [todo EXCEPT ![g] = @ \ {p}]
        /\ UNCHANGED <<pending, worker, results, loop, closed>>
    BY <1>7 DEF EvaluateError, EvaluateNoOffset, EvaluateWindow, Evaluating
  <2>2. /\ ToRead' = ToRead /\ ToFinish' = ToFinish /\ ToSend' = ToSend
        /\ ToRelease' = ToRelease /\ ToEnd' = ToEnd
    BY <2>1 DEF ToRead, ToFinish, ToSend, ToRelease, ToEnd, NotBeyond
  <2>3. \A k \in Groups : todo'[k] \subseteq todo[k]
    BY <2>1 DEF TypeOK
  <2>4. ToEvaluate' \subseteq ToEvaluate
    BY <2>1, <2>2, <2>3 DEF ToEvaluate
  <2>5. <<g, p>> \in ToEvaluate /\ <<g, p>> \notin ToEvaluate'
    <3>1. g \notin ToRead
      BY <2>1 DEF ControlInv, ToRead, NotBeyond
    <3>2. p \notin todo'[g]
      BY <2>1 DEF TypeOK
    <3>3. <<g, p>> \in ToEvaluate
      BY <2>1 DEF ToEvaluate
    <3>4. <<g, p>> \notin ToEvaluate'
      BY <2>2, <3>1, <3>2 DEF ToEvaluate
    <3> QED BY <3>3, <3>4
  <2>6. ToReceive' = ToReceive
    BY <2>1, <2>2 DEF ToReceive
  <2>7. Lessens /\ ToEvaluate' # ToEvaluate
    BY <2>1, <2>2, <2>4, <2>5, <2>6 DEF Lessens
  <2> QED BY <2>1, <2>7, LessensShrinks DEF Counts
<1>8. ASSUME NEW g \in Groups, Send(g) PROVE Shrinks /\ Counts
  <2> DEFINE r == [group |-> g, err |-> acc[g].round = 0, status |-> acc[g]]
  <2>1. /\ worker[g] = "send" /\ worker' = [worker EXCEPT ![g] = "release"]
        /\ results' = Append(results, r) /\ r.group = g
        /\ UNCHANGED <<pending, todo, loop, closed>>
    BY <1>8 DEF Send
  <2> HIDE DEF r
  <2>2. /\ ToRead' \subseteq ToRead /\ ToFinish' \subseteq ToFinish /\ ToSend' \subseteq ToSend
        /\ ToRelease' \subseteq ToRelease /\ ToEnd' \subseteq ToEnd
        /\ g \in ToSend /\ g \notin ToSend'
    BY <1>5, <2>1
  <2>3. ToEvaluate' \subseteq ToEvaluate
    <3>1. \A k \in Groups : worker'[k] = "eval" => worker[k] = "eval"
      BY <2>1 DEF TypeOK
    <3> QED BY <2>1, <2>2, <3>1 DEF ToEvaluate
  <2>4. \A i \in 1..Len(results') : results'[i].group = g \/ (i \in 1..Len(results) /\ results'[i] = results[i])
    <3>1. results \in Seq(Result)
      BY DEF TypeOK
    <3> QED BY <2>1, <3>1
  <2>5. ToReceive' \subseteq ToReceive
    BY <2>2, <2>4 DEF ToReceive
  <2>6. Lessens
    BY <2>1, <2>2, <2>3, <2>5 DEF Lessens
  <2>7. Parts'[5] # Parts[5]
    BY <2>2, LessensShrinks
  <2> QED BY <2>1, <2>6, <2>7, LessensShrinks DEF Counts
<1>9. ~ListError /\ ~(\E gs \in SUBSET Groups : ListOK(gs)) /\ ~Tick /\ ~CleanupOldWindows /\ ~Done
  BY DEF Collecting, ListError, ListOK, Tick, CleanupOldWindows, Done
<1>10. EndRound => loop' = "select"
  BY DEF EndRound
<1> QED BY <1>1, <1>2, <1>3, <1>6, <1>7, <1>8, <1>9, <1>10 DEF Next, Collect, Work, Evaluate

\* A collection cannot go on forever (collector.go:204-252): every step of the loop, of a goroutine
\* or of the closing goroutine, whichever they are and in whatever order, ends the collection or
\* brings its end nearer by one of finitely many steps; only a cancel from outside is none of them.
THEOREM CollectionsAreFinite ==
    ASSUME IsFiniteSet(Partitions)
    PROVE  Spec => /\ [](StepsLeft \in Nat)
                   /\ [][Collecting /\ ~Cancel => loop' = "select" \/ StepsLeft' < StepsLeft]_vars
<1>1. TypeOK => StepsLeft \in Nat
  BY StepCounts
<1>2. TypeOK /\ ControlInv /\ [Next]_vars
      => [Collecting /\ ~Cancel => loop' = "select" \/ StepsLeft' < StepsLeft]_vars
  BY CollectionStep, StepCounts
<1> QED BY <1>1, <1>2, TypeInit, TypeStep, ControlInit, ControlStep, PTL DEF Spec

\* Whoever waits during a collection waits for another who can go on.
LEMMA GoesOn ==
    ASSUME MaxConcurrency # 0, TypeOK, ControlInv, Collecting
    PROVE  SomebodyCanGo
<1>1. ASSUME NEW g \in Groups, worker[g] # "none"
      PROVE  SomebodyCanGo
  <2>1. CASE worker[g] = "send"
    BY <2>1, SendHasRoom DEF SomebodyCanGo, SendNeverBlocks
  <2>2. CASE worker[g] = "release"
    <3>1. g \in Holders /\ sem = Cardinality(Holders)
      BY <2>2 DEF Holders, ControlInv, ConcurrencyLimit
    <3>2. IsFiniteSet(Holders)
      BY GroupsAssumption, FS_Subset DEF Holders
    <3>3. sem > 0
      BY <3>1, <3>2, FS_EmptySet, FS_CardinalityType
    <3> QED BY <2>2, <3>3 DEF SomebodyCanGo
  <2>3. worker[g] \in WorkerState
    BY DEF TypeOK
  <2> QED BY <1>1, <2>1, <2>2, <2>3 DEF SomebodyCanGo, WorkerState
<1>2. CASE loop = "spawn"
  <2>1. CASE sem < MaxConcurrency
    BY <1>2, <2>1 DEF SomebodyCanGo
  <2>2. CASE ~(sem < MaxConcurrency)
    <3>1. sem \in Nat /\ sem # 0
      BY <2>2, ConcurrencyAssumption DEF TypeOK
    <3>2. Holders # {}
      BY <3>1, FS_EmptySet DEF ControlInv, ConcurrencyLimit
    <3> QED BY <1>1, <3>2 DEF Holders
  <2> QED BY <2>1, <2>2
<1>3. CASE loop = "drain"
  <2>1. CASE AllDone
    BY <1>3, <2>1 DEF SomebodyCanGo
  <2> QED BY <1>1, <2>1 DEF AllDone
<1>4. CASE loop = "ready"
  BY <1>4 DEF SomebodyCanGo
<1> QED BY <1>2, <1>3, <1>4 DEF Collecting

\* The semaphore, the buffered channel and the wait group (collector.go:204-231) never have everybody
\* wait for everybody: at each moment of a collection someone can take a step, whatever the limit is,
\* as long as there is one token.
THEOREM NeverStuck ==
    ASSUME MaxConcurrency # 0
    PROVE  Spec => [](Collecting => SomebodyCanGo)
<1>1. TypeOK /\ ControlInv => (Collecting => SomebodyCanGo)
  BY GoesOn
<1> QED BY <1>1, TypeInit, TypeStep, ControlInit, ControlStep, PTL DEF Spec

\* Without a token nothing gets beyond the spawn loop.
NothingStarts ==
    /\ \A g \in Groups : worker[g] = "none" /\ statusStore[g] = NoStatus
    /\ results = <<>> /\ loop # "ready" /\ ~hasCollected

\* A collector whose max_concurrency is 0, as it is where the configuration does not set it and
\* nothing validates it (collector.go:204, main.go:124), never publishes a status and is never ready,
\* and the first collection that finds a group stays at that group: `sem <-` has no receiver.
THEOREM ZeroLimitBlocks ==
    ASSUME MaxConcurrency = 0
    PROVE  Spec => /\ [](~hasCollected /\ \A g \in Groups : statusStore[g] = NoStatus)
                   /\ [][loop = "spawn" /\ pending # {} => loop' = "spawn" /\ pending' = pending]_vars
<1> USE DEF loopVars, chanVars, workVars, storeVars
<1>1. Init => NothingStarts
  BY DEF Init, NothingStarts
<1>2. ASSUME TypeOK, [Next]_vars, NEW g \in Groups PROVE ~Spawn(g)
  BY <1>2 DEF Spawn, TypeOK
<1>3. ASSUME TypeOK, NothingStarts, NEW g \in Groups PROVE ~Work(g)
  BY <1>3 DEF NothingStarts, Work, OffsetsError, OffsetsOK, Evaluate, EvaluateError, EvaluateNoOffset,
              EvaluateWindow, Evaluating, FinishGroup, Send, ReleaseSem, WgDone
<1>4. NothingStarts /\ [Next]_vars /\ TypeOK
      => NothingStarts' /\ [loop = "spawn" /\ pending # {} => loop' = "spawn" /\ pending' = pending]_vars
  <2> SUFFICES ASSUME NothingStarts, [Next]_vars, TypeOK
               PROVE  NothingStarts' /\ (loop = "spawn" /\ pending # {} => loop' = "spawn" /\ pending' = pending)
    OBVIOUS
  <2>1. \/ ListError \/ (\E gs \in SUBSET Groups : ListOK(gs)) \/ StartDrain \/ EndRound
        \/ CloseResults \/ Tick \/ CleanupOldWindows \/ Done \/ Cancel \/ UNCHANGED vars
    BY <1>2, <1>3 DEF Next, Collect, NothingStarts, ReceiveError, ReceiveStatus, MarkReady
  <2>2. UNCHANGED <<worker, statusStore, hasCollected>> /\ results' = <<>> /\ loop' # "ready"
    BY <2>1 DEF ListError, ListOK, StartDrain, EndRound, CloseResults, Tick, CleanupOldWindows, Done, Cancel,
                vars, NothingStarts
  <2>3. loop = "spawn" /\ pending # {} => loop' = "spawn" /\ pending' = pending
    BY <2>1 DEF ListError, ListOK, StartDrain, EndRound, CloseResults, Tick, CleanupOldWindows, Done, Cancel, vars
  <2> QED BY <2>2, <2>3 DEF NothingStarts
<1>5. NothingStarts => ~hasCollected /\ \A g \in Groups : statusStore[g] = NoStatus
  BY DEF NothingStarts
<1> QED BY <1>1, <1>4, <1>5, TypeInit, TypeStep, PTL DEF Spec
=============================================================================
