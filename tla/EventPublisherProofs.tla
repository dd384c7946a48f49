------------------------- MODULE EventPublisherProofs -------------------------
(* Proofs about EventPublisher, for every number of publishers, every window, *)
(* any number of retries and any combination of faults.                       *)
EXTENDS EventPublisher, FiniteSetTheorems, SequenceTheorems, TLAPS

-----------------------------------------------------------------------------
(* Types *)

Events == [subject : Subjects, time : 0..MaxClock]

Entries == [cluster : {ClusterOf[p] : p \in Publishers}, subject : Subjects, time : 0..MaxClock,
            call : Publishers \X Nat, claim : Nat \cup {Unchecked}]

TypeOK ==
    /\ clock \in 0..MaxClock
    /\ pc \in [Publishers -> {"idle", "setnx", "xadd"}]
    /\ event \in [Publishers -> Events]
    /\ attempt \in [Publishers -> Nat]
    /\ repeats \in [Publishers -> Nat]
    /\ calls \in [Publishers -> Nat]
    /\ returned \in [Publishers -> {"none", "published", "deduplicated", "failed", "crashed"}]
    /\ dedupe \in [Fingerprints -> Nat]
    /\ stream \in Seq(Entries)
    /\ claim \in [Publishers -> Nat \cup {Unchecked}]
    /\ lost \in [Publishers -> Nat]

\* Truncation to windows keeps the order of times, so that every fingerprint is in the table.
LEMMA WindowOfTime == \A t \in 0..MaxClock : t \div DeDupeWindow \in Windows
<1> SUFFICES ASSUME NEW t \in 0..MaxClock PROVE t \div DeDupeWindow \in Windows
  OBVIOUS
<1> USE PublisherAssumption
<1> DEFINE w == DeDupeWindow  q == t \div DeDupeWindow  r == MaxClock \div DeDupeWindow
<1>1. w \in Nat /\ w > 0 /\ q \in Nat /\ r \in Nat /\ MaxClock \in Nat
  OBVIOUS
<1>2. w * q <= t /\ MaxClock < w * r + w
  OBVIOUS
<1>3. q <= r
  <2> HIDE DEF w, q, r
  <2> SUFFICES ASSUME r + 1 <= q PROVE FALSE
    BY <1>1
  <2>1. w * (r + 1) <= w * q
    BY <1>1
  <2>2. w * (r + 1) = w * r + w
    BY <1>1
  <2>3. w * r \in Nat /\ w * q \in Nat
    BY <1>1
  <2> QED BY <1>1, <1>2, <2>1, <2>2, <2>3
<1> QED BY <1>1, <1>3 DEF Windows

\* Everything that has a subject and a time has a fingerprint in the table.
LEMMA FingerprintOf ==
    ASSUME NEW e, e.subject \in Subjects, e.time \in 0..MaxClock
    PROVE  Fingerprint(e) \in Fingerprints
  BY WindowOfTime DEF Fingerprint, Fingerprints

\* An entry is made of what the call knows.
LEMMA EntryType ==
    ASSUME TypeOK, NEW p \in Publishers
    PROVE  Entry(p) \in Entries
<1>1. event[p].subject \in Subjects /\ event[p].time \in 0..MaxClock
  BY DEF TypeOK, Events
<1>2. calls[p] \in Nat /\ claim[p] \in Nat \cup {Unchecked}
  BY DEF TypeOK
<1> QED BY <1>1, <1>2 DEF Entry, Entries

\* The entries of the stream, and the claims of the publishers, are what they should be.
LEMMA StreamTypes ==
    ASSUME TypeOK
    PROVE  /\ Len(stream) \in Nat
           /\ \A i \in 1..Len(stream) :
                 /\ stream[i].subject \in Subjects /\ stream[i].time \in 0..MaxClock
                 /\ stream[i].call \in Publishers \X Nat /\ stream[i].claim \in Nat \cup {Unchecked}
           /\ \A p \in Publishers : claim[p] \in Nat \cup {Unchecked}
<1>1. stream \in Seq(Entries)
  BY DEF TypeOK
<1>2. Len(stream) \in Nat /\ \A i \in 1..Len(stream) : stream[i] \in Entries
  BY <1>1, LenProperties
<1>3. \A e \in Entries : /\ e.subject \in Subjects /\ e.time \in 0..MaxClock
                         /\ e.call \in Publishers \X Nat /\ e.claim \in Nat \cup {Unchecked}
  BY DEF Entries
<1> QED BY <1>2, <1>3 DEF TypeOK

\* Before the first call everything has its type.
LEMMA TypeInit == Init => TypeOK
<1> SUFFICES ASSUME Init PROVE TypeOK
  OBVIOUS
<1> USE PublisherAssumption
<1>1. (CHOOSE s \in Subjects : TRUE) \in Subjects
  OBVIOUS
<1>2. event \in [Publishers -> Events]
  BY <1>1 DEF Init, Events
<1>3. stream \in Seq(Entries)
  BY EmptySeq, Zenon DEF Init
<1> QED BY <1>2, <1>3 DEF Init, TypeOK, Unchecked

\* Every command, answer, failure and crash keeps the types.
LEMMA TypeStep == TypeOK /\ [Next]_vars => TypeOK'
<1> SUFFICES ASSUME TypeOK, [Next]_vars PROVE TypeOK'
  OBVIOUS
<1> USE PublisherAssumption DEF callVars, history
<1> DEFINE Places == {"idle", "setnx", "xadd"}
           Outcomes == {"none", "published", "deduplicated", "failed", "crashed"}
<1>0. \A p \in Publishers :
         /\ [repeats EXCEPT ![p] = 0] \in [Publishers -> Nat]
         /\ \A q \in Places : [pc EXCEPT ![p] = q] \in [Publishers -> Places]
         /\ \A how \in Outcomes : [returned EXCEPT ![p] = how] \in [Publishers -> Outcomes]
  <2>1. repeats \in [Publishers -> Nat] /\ pc \in [Publishers -> Places] /\ returned \in [Publishers -> Outcomes]
    BY DEF TypeOK
  <2>2. 0 \in Nat
    OBVIOUS
  <2> HIDE DEF Places, Outcomes
  <2> QED BY <2>1, <2>2, Zenon
<1>1. ASSUME Tick PROVE TypeOK'
  BY <1>1 DEF Tick, TypeOK
<1>2. ASSUME NEW p \in Publishers, NEW s \in Subjects, Publish(p, s) PROVE TypeOK'
  <2>1. event' \in [Publishers -> Events]
    BY <1>2 DEF Publish, TypeOK, Events
  <2>2. Unchecked \in Nat \cup {Unchecked}
    OBVIOUS
  <2> QED BY <1>2, <2>1, <2>2 DEF Publish, TypeOK
<1>3. ASSUME NEW p \in Publishers, EnterRetryLoop(p) \/ Return(p, "deduplicated"), UNCHANGED attempt
      PROVE  /\ pc' \in [Publishers -> {"idle", "setnx", "xadd"}]
             /\ returned' \in [Publishers -> {"none", "published", "deduplicated", "failed", "crashed"}]
             /\ repeats' \in [Publishers -> Nat]
             /\ UNCHANGED <<event, attempt, calls>>
  <2>1. pc \in [Publishers -> Places] /\ returned \in [Publishers -> Outcomes]
    BY DEF TypeOK
  <2>2. ASSUME NEW how \in Outcomes, Return(p, how)
        PROVE  /\ pc' \in [Publishers -> Places] /\ returned' \in [Publishers -> Outcomes]
               /\ repeats' \in [Publishers -> Nat] /\ UNCHANGED <<event, calls>>
    <3>1. pc' = [pc EXCEPT ![p] = "idle"] /\ returned' = [returned EXCEPT ![p] = how]
          /\ repeats' = [repeats EXCEPT ![p] = 0] /\ UNCHANGED <<event, calls>>
      BY <2>2 DEF Return
    <3>2. "idle" \in Places
      OBVIOUS
    <3> HIDE DEF Places, Outcomes
    <3> QED BY <1>0, <3>1, <3>2
  <2>3. CASE EnterRetryLoop(p) /\ MaxRetries # 0
    <3>1. pc' = [pc EXCEPT ![p] = "xadd"] /\ returned' = returned
          /\ repeats' = [repeats EXCEPT ![p] = 0] /\ UNCHANGED <<event, attempt, calls>>
      BY <2>3 DEF EnterRetryLoop
    <3>2. "xadd" \in Places
      OBVIOUS
    <3> HIDE DEF Places, Outcomes
    <3>3. pc' \in [Publishers -> Places] /\ repeats' \in [Publishers -> Nat]
      BY <1>0, <3>1, <3>2
    <3>4. returned' \in [Publishers -> Outcomes]
      BY <2>1, <3>1
    <3> QED BY <3>1, <3>3, <3>4 DEF Places, Outcomes
  <2>4. CASE Return(p, "deduplicated") \/ Return(p, "failed")
    BY <1>3, <2>2, <2>4
  <2> QED BY <1>3, <2>3, <2>4 DEF EnterRetryLoop
<1>4. ASSUME NEW p \in Publishers, SetKey(Fingerprint(event[p])) PROVE dedupe' \in [Fingerprints -> Nat]
  <2> DEFINE fp == Fingerprint(event[p])
  <2>1. clock + DeDupeWindow \in Nat /\ dedupe \in [Fingerprints -> Nat]
    BY DEF TypeOK
  <2>2. dedupe' = [dedupe EXCEPT ![fp] = clock + DeDupeWindow]
    BY <1>4 DEF SetKey
  <2> HIDE DEF fp
  <2> QED BY <2>1, <2>2
<1>5. ASSUME NEW p \in Publishers, SetNXNew(p) PROVE TypeOK'
  <2>1. /\ EnterRetryLoop(p) /\ attempt' = attempt /\ SetKey(Fingerprint(event[p])) /\ UNCHANGED <<clock, stream, lost>>
        /\ claim' = [claim EXCEPT ![p] = clock]
    BY <1>5 DEF SetNXNew, EnterRetryLoop, Return
  <2> QED BY <1>3, <1>4, <2>1 DEF TypeOK
<1>6. ASSUME NEW p \in Publishers, SetNXDuplicate(p) PROVE TypeOK'
  BY <1>3, <1>6 DEF SetNXDuplicate, TypeOK
<1>7. ASSUME NEW p \in Publishers, SetNXError(p) PROVE TypeOK'
  <2>1. /\ EnterRetryLoop(p) /\ attempt' = attempt /\ UNCHANGED <<clock, stream, claim, lost>>
        /\ SetKey(Fingerprint(event[p])) \/ UNCHANGED dedupe
    BY <1>7 DEF SetNXError, SetNXFails, EnterRetryLoop, Return
  <2> QED BY <1>3, <1>4, <2>1 DEF TypeOK
<1>8. ASSUME NEW p \in Publishers, SetNXRepeated(p) PROVE TypeOK'
  <2>1. repeats' \in [Publishers -> Nat]
    BY <1>8 DEF SetNXRepeated, Repeat, TypeOK
  <2> QED BY <1>4, <1>8, <2>1 DEF SetNXRepeated, Repeat, TypeOK
<1>9. ASSUME NEW p \in Publishers, stream' = Append(stream, Entry(p))
      PROVE  stream' \in Seq(Entries)
  BY <1>9, EntryType, AppendProperties DEF TypeOK
<1>10. ASSUME NEW p \in Publishers, XAddOK(p) PROVE TypeOK'
  BY <1>9, <1>10 DEF XAddOK, Return, TypeOK
<1>11. ASSUME NEW p \in Publishers, XAddError(p) PROVE TypeOK'
  <2>1. lost' \in [Publishers -> Nat]
    BY <1>11 DEF XAddError, AppendUnheard, TypeOK
  <2>2. stream' \in Seq(Entries)
    BY <1>9, <1>11 DEF XAddError, AppendUnheard, TypeOK
  <2>3. /\ UNCHANGED <<clock, event, calls, dedupe, claim>>
        /\ attempt' = [attempt EXCEPT ![p] = @ + 1] /\ repeats' = [repeats EXCEPT ![p] = 0]
        /\ \/ UNCHANGED <<pc, returned>>
           \/ pc' = [pc EXCEPT ![p] = "idle"] /\ returned' = [returned EXCEPT ![p] = "failed"]
    BY <1>11 DEF XAddError, Return
  <2>4. pc' \in [Publishers -> Places] /\ returned' \in [Publishers -> Outcomes]
    <3>1. "idle" \in Places /\ "failed" \in Outcomes /\ pc \in [Publishers -> Places]
          /\ returned \in [Publishers -> Outcomes]
      BY DEF TypeOK
    <3> HIDE DEF Places, Outcomes
    <3> QED BY <1>0, <2>3, <3>1
  <2>5. attempt' \in [Publishers -> Nat] /\ repeats' \in [Publishers -> Nat]
    BY <1>0, <2>3 DEF TypeOK
  <2> QED BY <2>1, <2>2, <2>3, <2>4, <2>5 DEF TypeOK
<1>12. ASSUME NEW p \in Publishers, Crash(p) PROVE TypeOK'
  BY <1>12 DEF Crash, Return, TypeOK
<1>13. ASSUME UNCHANGED vars PROVE TypeOK'
  BY <1>13 DEF vars, TypeOK
<1>14. ASSUME NEW p \in Publishers, XAddRepeated(p) PROVE TypeOK'
  <2>1. lost' \in [Publishers -> Nat] /\ repeats' \in [Publishers -> Nat]
    BY <1>14 DEF XAddRepeated, AppendUnheard, Repeat, TypeOK
  <2>2. stream' \in Seq(Entries)
    BY <1>9, <1>14 DEF XAddRepeated, AppendUnheard
  <2> QED BY <1>14, <2>1, <2>2 DEF XAddRepeated, Repeat, TypeOK
<1> QED
  BY <1>1, <1>2, <1>5, <1>6, <1>7, <1>8, <1>10, <1>11, <1>12, <1>13, <1>14 DEF Next, Call

-----------------------------------------------------------------------------
(* Deduplication *)

FarApart(s, t) == t - s >= DeDupeWindow \/ s - t >= DeDupeWindow

\* A call or an entry e that SET NX let through at t: its key in the table dd outlives the window.
Held(e, t, dd, now) == t # Unchecked => t <= now /\ t + DeDupeWindow <= dd[Fingerprint(e)]

\* Calls or entries e and f that SET NX let through at s and at t.
Spaced(e, s, f, t) ==
    (Fingerprint(e) = Fingerprint(f) /\ s # Unchecked /\ t # Unchecked) => FarApart(s, t)

\* The claims of the publishers' latest calls and those in the stream.
ClaimInv ==
    /\ \A p \in Publishers : Held(event[p], claim[p], dedupe, clock)
    /\ \A i \in 1..Len(stream) : Held(stream[i], stream[i].claim, dedupe, clock)
    /\ \A p, q \in Publishers : p # q => Spaced(event[p], claim[p], event[q], claim[q])
    /\ \A p \in Publishers, i \in 1..Len(stream) :
          stream[i].call # <<p, calls[p]>> => Spaced(event[p], claim[p], stream[i], stream[i].claim)
    /\ \A i, j \in 1..Len(stream) :
          stream[i].call # stream[j].call => Spaced(stream[i], stream[i].claim, stream[j], stream[j].claim)

\* The key of an event or of an entry is in the table.
LEMMA KeysInTable ==
    ASSUME TypeOK
    PROVE  /\ \A p \in Publishers : Fingerprint(event[p]) \in Fingerprints
           /\ \A i \in 1..Len(stream) : Fingerprint(stream[i]) \in Fingerprints
<1>1. \A p \in Publishers : event[p].subject \in Subjects /\ event[p].time \in 0..MaxClock
  BY DEF TypeOK, Events
<1>2. \A i \in 1..Len(stream) : stream[i].subject \in Subjects /\ stream[i].time \in 0..MaxClock
  BY StreamTypes
<1> QED BY <1>1, <1>2, FingerprintOf

\* Time goes on and keys are renewed; claims stay covered.
LEMMA ClaimsKept ==
    ASSUME TypeOK, TypeOK', ClaimInv, clock <= clock', UNCHANGED <<event, calls, stream, claim>>,
           \A fp \in Fingerprints : dedupe[fp] <= dedupe'[fp]
    PROVE  ClaimInv'
<1>1. ASSUME NEW e, NEW t \in Nat \cup {Unchecked}, Fingerprint(e) \in Fingerprints, Held(e, t, dedupe, clock)
      PROVE  Held(e, t, dedupe', clock')
  <2>1. dedupe[Fingerprint(e)] \in Nat /\ dedupe'[Fingerprint(e)] \in Nat /\ clock \in Nat /\ clock' \in Nat
        /\ dedupe[Fingerprint(e)] <= dedupe'[Fingerprint(e)]
    BY <1>1, PublisherAssumption DEF TypeOK
  <2>2. CASE t # Unchecked
    BY <1>1, <2>1, <2>2, PublisherAssumption DEF Held
  <2> QED BY <2>2 DEF Held
<1>2. /\ \A p \in Publishers : claim[p] \in Nat \cup {Unchecked}
      /\ \A i \in 1..Len(stream) : stream[i].claim \in Nat \cup {Unchecked}
  BY StreamTypes
<1>3. \A p \in Publishers : Held(event[p], claim[p], dedupe', clock')
  BY <1>1, <1>2, KeysInTable DEF ClaimInv
<1>4. \A i \in 1..Len(stream) : Held(stream[i], stream[i].claim, dedupe', clock')
  BY <1>1, <1>2, KeysInTable DEF ClaimInv
<1> QED BY <1>3, <1>4 DEF ClaimInv

\* SET NX only writes a key that is not there, so a key's expiry never moves back.
LEMMA KeyOutlives ==
    ASSUME TypeOK, NEW p \in Publishers, ~Exists(Fingerprint(event[p])), SetKey(Fingerprint(event[p]))
    PROVE  /\ \A fp \in Fingerprints : dedupe[fp] <= dedupe'[fp]
           /\ dedupe'[Fingerprint(event[p])] = clock + DeDupeWindow
           /\ dedupe[Fingerprint(event[p])] <= clock
<1> DEFINE k == Fingerprint(event[p])
<1>1. k \in Fingerprints /\ dedupe \in [Fingerprints -> Nat] /\ clock \in Nat
  BY KeysInTable DEF TypeOK
<1>2. ~(clock < dedupe[k]) /\ dedupe' = [dedupe EXCEPT ![k] = clock + DeDupeWindow]
  BY DEF Exists, SetKey
<1> HIDE DEF k
<1>3. dedupe[k] <= clock /\ \A fp \in Fingerprints : dedupe[fp] \in Nat
  BY <1>1, <1>2
<1>4. \A fp \in Fingerprints : dedupe[fp] <= dedupe'[fp]
  BY <1>1, <1>2, <1>3, PublisherAssumption
<1> QED BY <1>1, <1>2, <1>3, <1>4 DEF k

\* SET NX lets a call through: whatever was let through for the same key before has been so for
\* DeDupeWindow, whoever called.
LEMMA ClaimNew ==
    ASSUME TypeOK, TypeOK', ClaimInv, NEW p \in Publishers, SetNXNew(p)
    PROVE  ClaimInv'
<1>1. /\ UNCHANGED <<clock, event, calls, stream>> /\ claim' = [claim EXCEPT ![p] = clock]
      /\ ~Exists(Fingerprint(event[p])) /\ SetKey(Fingerprint(event[p]))
  BY DEF SetNXNew, EnterRetryLoop, Return
<1>2. /\ \A fp \in Fingerprints : dedupe[fp] <= dedupe'[fp]
      /\ dedupe'[Fingerprint(event[p])] = clock + DeDupeWindow
      /\ dedupe[Fingerprint(event[p])] <= clock
  BY <1>1, KeyOutlives
<1>3. /\ clock \in Nat /\ claim'[p] = clock /\ \A q \in Publishers : q # p => claim'[q] = claim[q]
      /\ dedupe \in [Fingerprints -> Nat] /\ dedupe' \in [Fingerprints -> Nat] /\ DeDupeWindow \in Nat
  BY <1>1, PublisherAssumption DEF TypeOK
<1>4. ASSUME NEW e, NEW t \in Nat \cup {Unchecked}, Fingerprint(e) \in Fingerprints, Held(e, t, dedupe, clock)
      PROVE  Held(e, t, dedupe', clock') /\ Spaced(event[p], clock, e, t) /\ Spaced(e, t, event[p], clock)
  <2>1. CASE t # Unchecked
    <3>1. t \in Nat /\ t <= clock /\ t + DeDupeWindow <= dedupe[Fingerprint(e)]
      BY <1>4, <2>1 DEF Held
    <3>2. Held(e, t, dedupe', clock')
      BY <1>1, <1>2, <1>3, <1>4, <3>1 DEF Held
    <3>3. Fingerprint(e) = Fingerprint(event[p]) => clock - t >= DeDupeWindow
      BY <1>2, <1>3, <1>4, <3>1
    <3> QED BY <3>2, <3>3 DEF Spaced, FarApart
  <2> QED BY <2>1 DEF Held, Spaced
<1>5. /\ \A q \in Publishers : claim[q] \in Nat \cup {Unchecked}
      /\ \A i \in 1..Len(stream) : stream[i].claim \in Nat \cup {Unchecked}
  BY StreamTypes
<1>6. Held(event[p], clock, dedupe', clock')
  BY <1>1, <1>2, <1>3 DEF Held
<1>7. \A q \in Publishers : q # p => /\ Held(event[q], claim[q], dedupe', clock')
                                     /\ Spaced(event[p], clock, event[q], claim[q])
                                     /\ Spaced(event[q], claim[q], event[p], clock)
  BY <1>4, <1>5, KeysInTable DEF ClaimInv
<1>8. \A i \in 1..Len(stream) : /\ Held(stream[i], stream[i].claim, dedupe', clock')
                                /\ Spaced(event[p], clock, stream[i], stream[i].claim)
  BY <1>4, <1>5, KeysInTable DEF ClaimInv
<1>9. \A q \in Publishers : Held(event'[q], claim'[q], dedupe', clock')
  BY <1>1, <1>3, <1>6, <1>7
<1>10. \A q, r \in Publishers : q # r => Spaced(event'[q], claim'[q], event'[r], claim'[r])
  BY <1>1, <1>3, <1>7 DEF ClaimInv
<1>11. \A q \in Publishers, i \in 1..Len(stream) :
          stream[i].call # <<q, calls[q]>> => Spaced(event'[q], claim'[q], stream[i], stream[i].claim)
  BY <1>1, <1>3, <1>8 DEF ClaimInv
<1> QED BY <1>1, <1>8, <1>9, <1>10, <1>11 DEF ClaimInv

\* The entry that XADD appends brings the claim of its call to the stream.
LEMMA ClaimAppended ==
    ASSUME TypeOK, TypeOK', ClaimInv, NEW p \in Publishers, stream' = Append(stream, Entry(p)),
           UNCHANGED <<clock, event, calls, dedupe, claim>>
    PROVE  ClaimInv'
<1> DEFINE n == Len(stream) + 1  e == Entry(p)
<1>1. /\ Fingerprint(e) = Fingerprint(event[p]) /\ e.claim = claim[p] /\ e.call = <<p, calls[p]>>
  BY DEF Fingerprint, Entry
<1>2. /\ Len(stream') = n /\ stream'[n] = e /\ Len(stream) \in Nat
      /\ \A i \in 1..Len(stream) : stream'[i] = stream[i]
  BY EntryType, AppendProperties DEF TypeOK
<1> HIDE DEF e
<1>3. \A i \in 1..Len(stream') : (i \in 1..Len(stream) /\ stream'[i] = stream[i]) \/ (i = n /\ stream'[i] = e)
  BY <1>2
<1>4. Held(e, e.claim, dedupe, clock)
  BY <1>1 DEF ClaimInv, Held
<1>5. ASSUME NEW f, NEW t, Spaced(event[p], claim[p], f, t) \/ Spaced(f, t, event[p], claim[p]),
             t \in Nat \cup {Unchecked}
      PROVE  Spaced(e, e.claim, f, t) /\ Spaced(f, t, e, e.claim)
  BY <1>1, <1>5 DEF Spaced, FarApart
<1>6. /\ \A q \in Publishers : claim[q] \in Nat \cup {Unchecked}
      /\ \A i \in 1..Len(stream) : stream[i].claim \in Nat \cup {Unchecked}
  BY StreamTypes
<1>7. \A i \in 1..Len(stream) : stream[i].call # e.call =>
          Spaced(e, e.claim, stream[i], stream[i].claim) /\ Spaced(stream[i], stream[i].claim, e, e.claim)
  BY <1>1, <1>5, <1>6 DEF ClaimInv
<1>8. \A q \in Publishers : e.call # <<q, calls[q]>> => Spaced(event[q], claim[q], e, e.claim)
  <2> SUFFICES ASSUME NEW q \in Publishers, e.call # <<q, calls[q]>>
               PROVE  Spaced(event[q], claim[q], e, e.claim)
    OBVIOUS
  <2>1. q # p
    BY <1>1
  <2> QED BY <1>5, <1>6, <2>1 DEF ClaimInv
<1>9. \A i \in 1..Len(stream') : Held(stream'[i], stream'[i].claim, dedupe, clock)
  BY <1>3, <1>4 DEF ClaimInv
<1>10. \A q \in Publishers, i \in 1..Len(stream') :
          stream'[i].call # <<q, calls[q]>> => Spaced(event[q], claim[q], stream'[i], stream'[i].claim)
  BY <1>3, <1>8 DEF ClaimInv
<1>11. \A i, j \in 1..Len(stream') : stream'[i].call # stream'[j].call =>
          Spaced(stream'[i], stream'[i].claim, stream'[j], stream'[j].claim)
  BY <1>3, <1>7 DEF ClaimInv
<1> QED BY <1>9, <1>10, <1>11 DEF ClaimInv

\* Claims of one key stay a window apart, whatever publishers, faults and restarts do.
LEMMA ClaimStep == TypeOK /\ TypeOK' /\ ClaimInv /\ [Next]_vars => ClaimInv'
<1> SUFFICES ASSUME TypeOK, TypeOK', ClaimInv, [Next]_vars PROVE ClaimInv'
  OBVIOUS
<1> USE DEF callVars, history
<1>0. clock <= clock /\ \A fp \in Fingerprints : dedupe[fp] <= dedupe[fp]
  BY PublisherAssumption DEF TypeOK
<1>1. ASSUME UNCHANGED <<clock, event, calls, dedupe, stream, claim>> PROVE ClaimInv'
  BY <1>0, <1>1, ClaimsKept
<1>2. ASSUME Tick PROVE ClaimInv'
  <2>1. clock <= clock'
    BY <1>2, PublisherAssumption DEF Tick, TypeOK
  <2> QED BY <1>0, <1>2, <2>1, ClaimsKept DEF Tick
<1>3. ASSUME NEW p \in Publishers, NEW s \in Subjects, Publish(p, s) PROVE ClaimInv'
  <2>1. /\ UNCHANGED <<clock, dedupe, stream>> /\ claim'[p] = Unchecked
        /\ \A q \in Publishers : q # p => claim'[q] = claim[q] /\ event'[q] = event[q] /\ calls'[q] = calls[q]
    BY <1>3 DEF Publish, TypeOK
  <2>2. \A e, f, t : Held(e, Unchecked, dedupe, clock) /\ Spaced(e, Unchecked, f, t) /\ Spaced(f, t, e, Unchecked)
    BY DEF Held, Spaced
  <2>3. \A q \in Publishers : Held(event'[q], claim'[q], dedupe', clock')
    BY <2>1, <2>2 DEF ClaimInv
  <2>4. \A q, r \in Publishers : q # r => Spaced(event'[q], claim'[q], event'[r], claim'[r])
    BY <2>1, <2>2 DEF ClaimInv
  <2>5. \A q \in Publishers, i \in 1..Len(stream) :
          stream[i].call # <<q, calls'[q]>> => Spaced(event'[q], claim'[q], stream[i], stream[i].claim)
    BY <2>1, <2>2 DEF ClaimInv
  <2> QED BY <2>1, <2>3, <2>4, <2>5 DEF ClaimInv
<1>4. ASSUME NEW p \in Publishers, SetNXNew(p) PROVE ClaimInv'
  BY <1>4, ClaimNew
<1>5. ASSUME NEW p \in Publishers, SetNXError(p) \/ SetNXRepeated(p) PROVE ClaimInv'
  <2>1. /\ UNCHANGED <<clock, event, calls, stream, claim>>
        /\ dedupe' = dedupe \/ (~Exists(Fingerprint(event[p])) /\ SetKey(Fingerprint(event[p])))
    BY <1>5 DEF SetNXError, SetNXFails, SetNXRepeated, Repeat, EnterRetryLoop, Return
  <2>2. \A fp \in Fingerprints : dedupe[fp] <= dedupe'[fp]
    BY <1>0, <2>1, KeyOutlives
  <2> QED BY <1>0, <2>1, <2>2, ClaimsKept
<1>6. ASSUME NEW p \in Publishers, XAddOK(p) \/ XAddError(p) \/ XAddRepeated(p) PROVE ClaimInv'
  <2>1. /\ UNCHANGED <<clock, event, calls, dedupe, claim>>
        /\ stream' = stream \/ stream' = Append(stream, Entry(p))
    BY <1>6 DEF XAddOK, XAddError, XAddRepeated, AppendUnheard, Repeat, Return
  <2> QED BY <1>1, <2>1, ClaimAppended
<1>7. ASSUME NEW p \in Publishers, SetNXDuplicate(p) \/ Crash(p) PROVE ClaimInv'
  BY <1>1, <1>7 DEF SetNXDuplicate, Crash, Return
<1> QED
  BY <1>1, <1>2, <1>3, <1>4, <1>5, <1>6, <1>7 DEF Next, Call, vars

\* Nobody has been let through yet.
LEMMA ClaimInit == Init => ClaimInv
<1> SUFFICES ASSUME Init PROVE ClaimInv
  OBVIOUS
<1>1. Len(stream) = 0
  BY EmptySeq, Zenon DEF Init
<1>2. \A p \in Publishers : claim[p] = Unchecked
  BY DEF Init
<1> QED BY <1>1, <1>2 DEF ClaimInv, Held, Spaced

\* Two calls that SET NX let through for one subject and window were let through at least
\* DeDupeWindow apart, for any number of publishers, retries, lost replies and restarts
\* (publisher.go:66-122).
THEOREM Deduplicated == Spec => []DedupeHolds
<1>1. ClaimInv => DedupeHolds
  BY DEF ClaimInv, DedupeHolds, Spaced, FarApart
<1> QED BY <1>1, ClaimInit, TypeInit, TypeStep, ClaimStep, PTL DEF Spec

-----------------------------------------------------------------------------
(* What a call returns *)

\* The positions of the entries that call c has in stream s.
Of(s, c) == {i \in 1..Len(s) : s[i].call = c}

\* A call at `at' of its code, after `tries' attempts and `again' repeats in the current one, that
\* lost `misses' replies and returned `how', has n entries in the stream.
Accounted(n, at, tries, again, how, misses) ==
    /\ n = misses + (IF how = "published" THEN 1 ELSE 0)
    /\ n <= MaxRetries * Tries
    /\ again <= ClientRetries
    /\ at = "setnx" => misses = 0 /\ tries = 0
    /\ at = "xadd" => misses <= tries * Tries + again /\ tries < MaxRetries
    /\ at # "idle" => how = "none"
    /\ how = "deduplicated" => misses = 0

\* Entries are of calls that were made, and each latest call has as many as it should.
CountInv ==
    /\ \A i \in 1..Len(stream), p \in Publishers, n \in Nat : stream[i].call = <<p, n>> => n <= calls[p]
    /\ \A p \in Publishers :
          Accounted(Cardinality(Of(stream, <<p, calls[p]>>)), pc[p], attempt[p], repeats[p], returned[p], lost[p])

\* An attempt with its repeats has Tries entries at most, and all attempts together MaxRetries times
\* as many.
LEMMA Budget ==
    ASSUME NEW tries \in Nat, tries < MaxRetries
    PROVE  /\ Tries \in Nat /\ Tries = 1 + ClientRetries
           /\ tries * Tries \in Nat /\ (tries + 1) * Tries \in Nat /\ MaxRetries * Tries \in Nat
           /\ (tries + 1) * Tries = tries * Tries + Tries
           /\ (tries + 1) * Tries <= MaxRetries * Tries
<1>1. Tries \in Nat /\ Tries = 1 + ClientRetries /\ MaxRetries \in Nat
  BY PublisherAssumption DEF Tries
<1>2. PICK rest \in Nat : MaxRetries = tries + 1 + rest
  <2>1. MaxRetries - (tries + 1) \in Nat
    BY <1>1
  <2> QED BY <1>1, <2>1
<1>3. rest * Tries \in Nat /\ tries * Tries \in Nat
  BY <1>1
<1>4. (tries + 1) * Tries = tries * Tries + Tries
  BY <1>1
<1>5. MaxRetries * Tries = (tries + 1) * Tries + rest * Tries
  BY <1>1, <1>2
<1> QED BY <1>1, <1>3, <1>4, <1>5

\* What an attempt adds to the account: it succeeds, fails with or without effect, or go-redis
\* repeats it.
LEMMA AttemptAccounted ==
    ASSUME NEW tries \in Nat, NEW again \in Nat, NEW misses \in Nat, NEW n \in Nat,
           Accounted(n, "xadd", tries, again, "none", misses)
    PROVE  /\ Accounted(n + 1, "idle", tries, 0, "published", misses)
           /\ Accounted(n, "idle", tries + 1, 0, "failed", misses)
           /\ Accounted(n + 1, "idle", tries + 1, 0, "failed", misses + 1)
           /\ tries + 1 < MaxRetries => /\ Accounted(n, "xadd", tries + 1, 0, "none", misses)
                                        /\ Accounted(n + 1, "xadd", tries + 1, 0, "none", misses + 1)
           /\ again < ClientRetries => Accounted(n + 1, "xadd", tries, again + 1, "none", misses + 1)
<1> DEFINE before == tries * Tries  after == (tries + 1) * Tries  all == MaxRetries * Tries
<1>1. n = misses /\ n <= all /\ again <= ClientRetries /\ misses <= before + again /\ tries < MaxRetries
  BY DEF Accounted
<1>2. /\ before \in Nat /\ after \in Nat /\ all \in Nat /\ ClientRetries \in Nat
      /\ after = before + 1 + ClientRetries /\ after <= all
  BY <1>1, Budget, PublisherAssumption
<1> HIDE DEF before, after, all
<1>3. n + 1 <= all /\ misses + 1 <= after + 0 /\ misses <= after + 0 /\ misses + 1 <= before + (again + 1)
  BY <1>1, <1>2
<1>4. again < ClientRetries => again + 1 <= ClientRetries
  BY <1>2
<1> QED BY <1>1, <1>2, <1>3, <1>4 DEF Accounted, before, after, all

\* A step of p that appends nothing: it is enough to look at p.
LEMMA CountFromOne ==
    ASSUME TypeOK, CountInv, NEW p \in Publishers, UNCHANGED <<stream, calls>>,
           \A q \in Publishers \ {p} : /\ pc'[q] = pc[q] /\ attempt'[q] = attempt[q]
                                       /\ returned'[q] = returned[q] /\ lost'[q] = lost[q]
                                       /\ repeats'[q] = repeats[q],
           \A n \in Nat : Accounted(n, pc[p], attempt[p], repeats[p], returned[p], lost[p])
                     => Accounted(n, pc'[p], attempt'[p], repeats'[p], returned'[p], lost'[p])
    PROVE  CountInv'
<1>0. Cardinality(Of(stream, <<p, calls[p]>>)) \in Nat
  <2>1. Len(stream) \in Nat
    BY StreamTypes
  <2>2. IsFiniteSet(1..Len(stream)) /\ Of(stream, <<p, calls[p]>>) \subseteq 1..Len(stream)
    BY <2>1, FS_Interval DEF Of
  <2> QED BY <2>2, FS_Subset, FS_CardinalityType
<1>1. ASSUME NEW q \in Publishers
      PROVE  Accounted(Cardinality(Of(stream', <<q, calls'[q]>>)), pc'[q], attempt'[q], repeats'[q], returned'[q], lost'[q])
  <2>1. Accounted(Cardinality(Of(stream, <<q, calls[q]>>)), pc[q], attempt[q], repeats[q], returned[q], lost[q])
    BY DEF CountInv
  <2>2. CASE q = p
    BY <1>0, <2>1, <2>2
  <2>3. CASE q # p
    BY <2>1, <2>3
  <2> QED BY <2>2, <2>3
<1> QED BY <1>1 DEF CountInv

\* XADD appends one entry, and it belongs to the call that made it.
LEMMA CountAppended ==
    ASSUME TypeOK, CountInv, NEW p \in Publishers, stream' = Append(stream, Entry(p)), UNCHANGED calls,
           \A q \in Publishers \ {p} : /\ pc'[q] = pc[q] /\ attempt'[q] = attempt[q]
                                       /\ returned'[q] = returned[q] /\ lost'[q] = lost[q]
                                       /\ repeats'[q] = repeats[q],
           \A n \in Nat : Accounted(n, pc[p], attempt[p], repeats[p], returned[p], lost[p])
                     => Accounted(n + 1, pc'[p], attempt'[p], repeats'[p], returned'[p], lost'[p])
    PROVE  CountInv'
<1> DEFINE n == Len(stream) + 1  mine == <<p, calls[p]>>
<1>1. /\ Len(stream') = n /\ stream'[n].call = mine /\ Len(stream) \in Nat
      /\ \A i \in 1..Len(stream) : stream'[i] = stream[i]
  <2>1. /\ Len(stream') = n /\ stream'[n] = Entry(p) /\ Len(stream) \in Nat
        /\ \A i \in 1..Len(stream) : stream'[i] = stream[i]
    BY EntryType, AppendProperties DEF TypeOK
  <2>2. Entry(p).call = mine
    BY DEF Entry
  <2> QED BY <2>1, <2>2
<1> HIDE DEF n
<1>2. \A i \in 1..Len(stream') : (i \in 1..Len(stream) /\ stream'[i] = stream[i]) \/ (i = n /\ stream'[i].call = mine)
  BY <1>1 DEF n
<1>3. n \in 1..Len(stream') /\ n \notin 1..Len(stream) /\ 1..Len(stream) \subseteq 1..Len(stream')
  BY <1>1 DEF n
<1>4. Of(stream', mine) = Of(stream, mine) \cup {n} /\ n \notin Of(stream, mine)
  BY <1>1, <1>2, <1>3 DEF Of
<1>5. ASSUME NEW q \in Publishers, q # p PROVE Of(stream', <<q, calls[q]>>) = Of(stream, <<q, calls[q]>>)
  <2>1. <<q, calls[q]>> # mine
    BY <1>5
  <2> QED BY <1>1, <1>2, <1>3, <2>1 DEF Of
<1>6. IsFiniteSet(Of(stream, mine)) /\ Cardinality(Of(stream, mine)) \in Nat
  <2>1. IsFiniteSet(1..Len(stream))
    BY <1>1, FS_Interval
  <2>2. Of(stream, mine) \subseteq 1..Len(stream)
    BY DEF Of
  <2> QED BY <2>1, <2>2, FS_Subset, FS_CardinalityType
<1>7. Cardinality(Of(stream', mine)) = Cardinality(Of(stream, mine)) + 1
  BY <1>4, <1>6, FS_AddElement
<1>8. ASSUME NEW q \in Publishers
      PROVE  Accounted(Cardinality(Of(stream', <<q, calls'[q]>>)), pc'[q], attempt'[q], repeats'[q], returned'[q], lost'[q])
  <2>1. Accounted(Cardinality(Of(stream, <<q, calls[q]>>)), pc[q], attempt[q], repeats[q], returned[q], lost[q])
    BY DEF CountInv
  <2>2. CASE q = p
    BY <1>6, <1>7, <2>1, <2>2
  <2>3. CASE q # p
    BY <1>5, <2>1, <2>3
  <2> QED BY <2>2, <2>3
<1>9. \A i \in 1..Len(stream'), q \in Publishers, m \in Nat : stream'[i].call = <<q, m>> => m <= calls[q]
  <2>1. calls[p] <= calls[p]
    BY DEF TypeOK
  <2> QED BY <1>2, <2>1 DEF CountInv
<1> QED BY <1>8, <1>9 DEF CountInv

\* Every step keeps the account of the calls.
LEMMA CountStep == TypeOK /\ CountInv /\ [Next]_vars => CountInv'
<1> SUFFICES ASSUME TypeOK, CountInv, [Next]_vars PROVE CountInv'
  OBVIOUS
<1> USE PublisherAssumption DEF callVars, history
<1>1. ASSUME UNCHANGED <<calls, pc, attempt, repeats, returned, lost, stream>> PROVE CountInv'
  BY <1>1 DEF CountInv
<1>2. ASSUME NEW p \in Publishers, NEW s \in Subjects, Publish(p, s) PROVE CountInv'
  <2>1. /\ stream' = stream /\ pc'[p] = "setnx" /\ attempt'[p] = 0 /\ returned'[p] = "none" /\ lost'[p] = 0
        /\ repeats' = repeats /\ calls'[p] = calls[p] + 1 /\ calls[p] \in Nat
        /\ \A q \in Publishers \ {p} : /\ pc'[q] = pc[q] /\ attempt'[q] = attempt[q] /\ calls'[q] = calls[q]
                                       /\ returned'[q] = returned[q] /\ lost'[q] = lost[q]
    BY <1>2 DEF Publish, TypeOK
  <2>2. Of(stream, <<p, calls[p] + 1>>) = {}
    <3>1. \A i \in 1..Len(stream) : stream[i].call = <<p, calls[p] + 1>> => calls[p] + 1 <= calls[p]
      BY <2>1 DEF CountInv
    <3> QED BY <2>1, <3>1 DEF Of
  <2>3. Accounted(Cardinality(Of(stream', <<p, calls'[p]>>)), pc'[p], attempt'[p], repeats'[p], returned'[p], lost'[p])
    <3>1. Cardinality(Of(stream', <<p, calls'[p]>>)) = 0
      BY <2>1, <2>2, FS_EmptySet
    <3>2. repeats[p] <= ClientRetries
      BY DEF CountInv, Accounted
    <3>3. MaxRetries * Tries \in Nat
      BY DEF Tries
    <3> QED BY <2>1, <3>1, <3>2, <3>3 DEF Accounted
  <2>4. \A q \in Publishers : Accounted(Cardinality(Of(stream', <<q, calls'[q]>>)), pc'[q], attempt'[q], repeats'[q], returned'[q], lost'[q])
    BY <2>1, <2>3 DEF CountInv
  <2>5. \A i \in 1..Len(stream'), q \in Publishers, n \in Nat : stream'[i].call = <<q, n>> => n <= calls'[q]
    <3>1. \A q \in Publishers : calls[q] \in Nat /\ calls'[q] \in Nat /\ calls[q] <= calls'[q]
      BY <1>2 DEF Publish, TypeOK
    <3> QED BY <2>1, <3>1 DEF CountInv
  <2> QED BY <2>4, <2>5 DEF CountInv
<1>3. ASSUME NEW p \in Publishers, SetNXNew(p) \/ SetNXError(p) PROVE CountInv'
  <2>1. /\ UNCHANGED <<stream, calls, attempt, lost>> /\ pc[p] = "setnx" /\ repeats'[p] = 0
        /\ IF MaxRetries = 0 THEN pc'[p] = "idle" /\ returned'[p] = "failed"
                             ELSE pc'[p] = "xadd" /\ returned'[p] = returned[p]
        /\ \A q \in Publishers \ {p} : pc'[q] = pc[q] /\ returned'[q] = returned[q] /\ repeats'[q] = repeats[q]
    BY <1>3 DEF SetNXNew, SetNXError, EnterRetryLoop, Return, TypeOK
  <2>2. \A n : Accounted(n, pc[p], attempt[p], repeats[p], returned[p], lost[p])
                  => Accounted(n, pc'[p], attempt'[p], repeats'[p], returned'[p], lost'[p])
    <3>1. Tries \in Nat /\ 0 * Tries = 0 /\ 0 <= ClientRetries
      BY DEF Tries
    <3> QED BY <2>1, <3>1 DEF Accounted
  <2> QED BY <2>1, <2>2, CountFromOne
<1>4. ASSUME NEW p \in Publishers, SetNXDuplicate(p) PROVE CountInv'
  <2>1. /\ UNCHANGED <<stream, calls, attempt, lost>> /\ pc[p] = "setnx"
        /\ pc'[p] = "idle" /\ returned'[p] = "deduplicated" /\ repeats'[p] = 0
        /\ \A q \in Publishers \ {p} : pc'[q] = pc[q] /\ returned'[q] = returned[q] /\ repeats'[q] = repeats[q]
    BY <1>4 DEF SetNXDuplicate, Return, TypeOK
  <2>2. \A n : Accounted(n, pc[p], attempt[p], repeats[p], returned[p], lost[p])
                  => Accounted(n, pc'[p], attempt'[p], repeats'[p], returned'[p], lost'[p])
    BY <2>1 DEF Accounted
  <2> QED BY <2>1, <2>2, CountFromOne
<1>5. ASSUME NEW p \in Publishers, XAddOK(p) PROVE CountInv'
  <2>1. /\ UNCHANGED <<calls, attempt, lost>> /\ stream' = Append(stream, Entry(p)) /\ pc[p] = "xadd"
        /\ pc'[p] = "idle" /\ returned'[p] = "published" /\ repeats'[p] = 0
        /\ attempt[p] \in Nat /\ lost[p] \in Nat /\ repeats[p] \in Nat
        /\ \A q \in Publishers \ {p} : pc'[q] = pc[q] /\ returned'[q] = returned[q] /\ repeats'[q] = repeats[q]
    BY <1>5 DEF XAddOK, Return, TypeOK
  <2>2. \A n \in Nat : Accounted(n, pc[p], attempt[p], repeats[p], returned[p], lost[p])
                  => Accounted(n + 1, pc'[p], attempt'[p], repeats'[p], returned'[p], lost'[p])
    <3>1. returned[p] = "none"
      BY <2>1 DEF CountInv, Accounted
    <3> QED BY <2>1, <3>1, AttemptAccounted
  <2> QED BY <2>1, <2>2, CountAppended
<1>6. ASSUME NEW p \in Publishers, XAddError(p) PROVE CountInv'
  <2>1. /\ calls' = calls /\ pc[p] = "xadd" /\ attempt'[p] = attempt[p] + 1 /\ repeats'[p] = 0
        /\ attempt[p] \in Nat /\ lost[p] \in Nat /\ repeats[p] \in Nat
        /\ \/ pc'[p] = "idle" /\ returned'[p] = "failed"
           \/ pc'[p] = "xadd" /\ returned'[p] = returned[p] /\ attempt[p] + 1 # MaxRetries
        /\ \A q \in Publishers \ {p} : /\ pc'[q] = pc[q] /\ returned'[q] = returned[q]
                                       /\ attempt'[q] = attempt[q] /\ repeats'[q] = repeats[q] /\ lost'[q] = lost[q]
    BY <1>6 DEF XAddError, AppendUnheard, LastAttempt, Return, TypeOK
  <2>2. returned[p] = "none" /\ (pc'[p] = "xadd" => attempt[p] + 1 < MaxRetries)
    <3>1. attempt[p] < MaxRetries /\ returned[p] = "none"
      BY <2>1 DEF CountInv, Accounted
    <3> QED BY <2>1, <3>1
  <2>3. CASE UNCHANGED <<stream, lost>>
    <3>1. \A n \in Nat : Accounted(n, pc[p], attempt[p], repeats[p], returned[p], lost[p])
                  => Accounted(n, pc'[p], attempt'[p], repeats'[p], returned'[p], lost'[p])
      BY <2>1, <2>2, <2>3, AttemptAccounted
    <3> QED BY <2>1, <2>3, <3>1, CountFromOne
  <2>4. CASE AppendUnheard(p)
    <3>1. lost'[p] = lost[p] + 1
      BY <2>4 DEF AppendUnheard, TypeOK
    <3>2. \A n \in Nat : Accounted(n, pc[p], attempt[p], repeats[p], returned[p], lost[p])
                  => Accounted(n + 1, pc'[p], attempt'[p], repeats'[p], returned'[p], lost'[p])
      BY <2>1, <2>2, <3>1, AttemptAccounted
    <3> QED BY <2>1, <2>4, <3>2, CountAppended DEF AppendUnheard
  <2> QED BY <1>6, <2>3, <2>4 DEF XAddError
<1>8. ASSUME NEW p \in Publishers, SetNXRepeated(p) PROVE CountInv'
  <2>1. /\ UNCHANGED <<stream, calls, pc, attempt, returned, lost>> /\ pc[p] = "setnx"
        /\ repeats'[p] <= ClientRetries /\ \A q \in Publishers \ {p} : repeats'[q] = repeats[q]
    BY <1>8 DEF SetNXRepeated, Repeat, TypeOK
  <2>2. \A n : Accounted(n, pc[p], attempt[p], repeats[p], returned[p], lost[p])
                  => Accounted(n, pc'[p], attempt'[p], repeats'[p], returned'[p], lost'[p])
    BY <2>1 DEF Accounted
  <2> QED BY <2>1, <2>2, CountFromOne
<1>9. ASSUME NEW p \in Publishers, XAddRepeated(p) PROVE CountInv'
  <2>1. /\ UNCHANGED <<calls, pc, attempt, returned>> /\ pc[p] = "xadd" /\ stream' = Append(stream, Entry(p))
        /\ attempt[p] \in Nat /\ lost[p] \in Nat /\ repeats[p] \in Nat
        /\ repeats[p] < ClientRetries /\ repeats'[p] = repeats[p] + 1 /\ lost'[p] = lost[p] + 1
        /\ \A q \in Publishers \ {p} : repeats'[q] = repeats[q] /\ lost'[q] = lost[q]
    BY <1>9 DEF XAddRepeated, AppendUnheard, Repeat, TypeOK
  <2>2. returned[p] = "none"
    BY <2>1 DEF CountInv, Accounted
  <2>3. \A n \in Nat : Accounted(n, pc[p], attempt[p], repeats[p], returned[p], lost[p])
                  => Accounted(n + 1, pc'[p], attempt'[p], repeats'[p], returned'[p], lost'[p])
    BY <2>1, <2>2, AttemptAccounted
  <2> QED BY <2>1, <2>3, CountAppended
<1>7. ASSUME NEW p \in Publishers, Crash(p) PROVE CountInv'
  <2>1. /\ UNCHANGED <<stream, calls, attempt, lost>> /\ pc[p] # "idle"
        /\ pc'[p] = "idle" /\ returned'[p] = "crashed" /\ repeats'[p] = 0
        /\ \A q \in Publishers \ {p} : pc'[q] = pc[q] /\ returned'[q] = returned[q] /\ repeats'[q] = repeats[q]
    BY <1>7 DEF Crash, Return, TypeOK
  <2>2. \A n : Accounted(n, pc[p], attempt[p], repeats[p], returned[p], lost[p])
                  => Accounted(n, pc'[p], attempt'[p], repeats'[p], returned'[p], lost'[p])
    BY <2>1 DEF Accounted
  <2> QED BY <2>1, <2>2, CountFromOne
<1> QED
  BY <1>1, <1>2, <1>3, <1>4, <1>5, <1>6, <1>7, <1>8, <1>9 DEF Next, Call, Tick, vars

\* No call has been made yet.
LEMMA CountInit == Init => CountInv
<1> SUFFICES ASSUME Init PROVE CountInv
  OBVIOUS
<1>1. Len(stream) = 0
  BY EmptySeq, Zenon DEF Init
<1>2. \A c : Of(stream, c) = {}
  BY <1>1 DEF Of
<1>3. \A c : Cardinality(Of(stream, c)) = 0
  BY <1>2, FS_EmptySet
<1>4. \A p \in Publishers :
         pc[p] = "idle" /\ attempt[p] = 0 /\ repeats[p] = 0 /\ returned[p] = "none" /\ lost[p] = 0
  BY DEF Init
<1>5. MaxRetries * Tries \in Nat /\ 0 <= ClientRetries
  BY PublisherAssumption DEF Tries
<1> QED BY <1>1, <1>3, <1>4, <1>5 DEF CountInv, Accounted

\* A finite set with two members has at least two.
LEMMA TwoMembers ==
    ASSUME NEW S, IsFiniteSet(S), NEW x \in S, NEW y \in S, x # y
    PROVE  Cardinality(S) \in Nat /\ Cardinality(S) >= 2
<1>1. {x, y} \subseteq S
  OBVIOUS
<1>2. Cardinality({x, y}) = 2
  <2>1. Cardinality({x}) = 1 /\ IsFiniteSet({x})
    BY FS_Singleton
  <2>2. Cardinality({x} \cup {y}) = Cardinality({x}) + 1
    BY <2>1, FS_AddElement
  <2>3. {x} \cup {y} = {x, y}
    OBVIOUS
  <2> QED BY <2>1, <2>2, <2>3
<1> QED BY <1>1, <1>2, FS_Subset, FS_CardinalityType

\* Two entries of the latest call of a publisher mean that the call lost a reply.
LEMMA ReplyLost ==
    ASSUME TypeOK, CountInv
    PROVE  \A p \in Publishers, i, j \in 1..Len(stream) :
              (i # j /\ stream[i].call = <<p, calls[p]>> /\ stream[j].call = <<p, calls[p]>>) => lost[p] > 0
<1> SUFFICES ASSUME NEW p \in Publishers, NEW i \in 1..Len(stream), NEW j \in 1..Len(stream), i # j,
                    stream[i].call = <<p, calls[p]>>, stream[j].call = <<p, calls[p]>>
             PROVE  lost[p] > 0
  OBVIOUS
<1> DEFINE mine == Of(stream, <<p, calls[p]>>)
<1>1. i \in mine /\ j \in mine /\ mine \subseteq 1..Len(stream)
  BY DEF Of
<1>2. IsFiniteSet(mine)
  <2>1. IsFiniteSet(1..Len(stream))
    BY StreamTypes, FS_Interval
  <2> QED BY <1>1, <2>1, FS_Subset
<1>3. Accounted(Cardinality(mine), pc[p], attempt[p], repeats[p], returned[p], lost[p]) /\ lost[p] \in Nat
  BY DEF CountInv, TypeOK
<1> HIDE DEF mine
<1>4. Cardinality(mine) \in Nat /\ Cardinality(mine) >= 2
  BY <1>1, <1>2, TwoMembers
<1> QED BY <1>3, <1>4 DEF Accounted

\* What PublishPartitionEvent returns agrees with the stream, for any number of retries of the
\* program and of go-redis and every combination of lost requests, lost replies and crashes
\* (publisher.go:111-154). A call adds at most MaxRetries * (1 + ClientRetries) entries.
THEOREM ReturnsMatch == Spec => []ReturnMatchesStream
<1>1. TypeOK /\ CountInv => ReturnMatchesStream
  <2> SUFFICES ASSUME TypeOK, CountInv, NEW p \in Publishers
               PROVE  /\ returned[p] = "published" => Cardinality(EntriesOf(p)) = 1 + lost[p]
                      /\ returned[p] = "deduplicated" => EntriesOf(p) = {}
                      /\ returned[p] = "failed" => Cardinality(EntriesOf(p)) = lost[p]
                      /\ Cardinality(EntriesOf(p)) <= MaxRetries * Tries
    BY DEF ReturnMatchesStream
  <2>1. Accounted(Cardinality(EntriesOf(p)), pc[p], attempt[p], repeats[p], returned[p], lost[p]) /\ lost[p] \in Nat
    BY DEF CountInv, EntriesOf, Of, TypeOK
  <2>2. IsFiniteSet(EntriesOf(p))
    <3>1. IsFiniteSet(1..Len(stream))
      BY StreamTypes, FS_Interval
    <3>2. EntriesOf(p) \subseteq 1..Len(stream)
      BY DEF EntriesOf
    <3> QED BY <3>1, <3>2, FS_Subset
  <2>3. Cardinality(EntriesOf(p)) = 0 => EntriesOf(p) = {}
    BY <2>2, FS_EmptySet
  <2> QED BY <2>1, <2>3 DEF Accounted
<1> QED BY <1>1, CountInit, TypeInit, TypeStep, CountStep, PTL DEF Spec

-----------------------------------------------------------------------------
(* The length of a call *)

\* Commands that go-redis still sends to Redis for the call of p, at most.
CommandsLeft(p) == CASE pc[p] = "idle" -> 0
                     [] pc[p] = "setnx" -> (MaxRetries + 1) * Tries - repeats[p]
                     [] pc[p] = "xadd" -> (MaxRetries - attempt[p]) * Tries - repeats[p]

\* How many commands are left for the XADD attempts, and before and after one of them.
LEMMA AttemptsLeft ==
    ASSUME NEW tries \in Nat, tries < MaxRetries
    PROVE  /\ Tries \in Nat /\ Tries = 1 + ClientRetries
           /\ (MaxRetries - tries) * Tries \in Nat /\ (MaxRetries + 1) * Tries \in Nat
           /\ (MaxRetries - tries) * Tries >= Tries
           /\ (MaxRetries - (tries + 1)) * Tries = (MaxRetries - tries) * Tries - Tries
           /\ (MaxRetries + 1) * Tries >= (MaxRetries - tries) * Tries + Tries
<1>1. Tries \in Nat /\ Tries = 1 + ClientRetries /\ MaxRetries \in Nat
  BY PublisherAssumption DEF Tries
<1>2. PICK rest \in Nat : MaxRetries = tries + 1 + rest
  <2>1. MaxRetries - (tries + 1) \in Nat
    BY <1>1
  <2> QED BY <1>1, <2>1
<1>3. rest * Tries \in Nat /\ tries * Tries \in Nat
  BY <1>1
<1>4. (MaxRetries - (tries + 1)) * Tries = rest * Tries
  <2>1. MaxRetries - (tries + 1) = rest
    BY <1>1, <1>2
  <2> QED BY <2>1
<1>5. (MaxRetries - tries) * Tries = rest * Tries + Tries
  <2>1. MaxRetries - tries = rest + 1
    BY <1>1, <1>2
  <2>2. (rest + 1) * Tries = rest * Tries + Tries
    BY <1>1
  <2> QED BY <2>1, <2>2
<1>6. (MaxRetries + 1) * Tries = tries * Tries + rest * Tries + Tries + Tries
  <2>1. MaxRetries + 1 = tries + rest + 2
    BY <1>1, <1>2
  <2>2. (tries + rest + 2) * Tries = tries * Tries + rest * Tries + Tries + Tries
    BY <1>1
  <2> QED BY <2>1, <2>2
<1> QED BY <1>1, <1>3, <1>4, <1>5, <1>6

\* A call is over when and only when it has no command left.
LEMMA CommandsLeftIs ==
    ASSUME TypeOK, CountInv
    PROVE  \A p \in Publishers : /\ CommandsLeft(p) \in 0..((MaxRetries + 1) * Tries)
                                 /\ CommandsLeft(p) = 0 <=> pc[p] = "idle"
<1> SUFFICES ASSUME NEW p \in Publishers
             PROVE  CommandsLeft(p) \in 0..((MaxRetries + 1) * Tries) /\ (CommandsLeft(p) = 0 <=> pc[p] = "idle")
  OBVIOUS
<1>1. /\ MaxRetries \in Nat /\ pc[p] \in {"idle", "setnx", "xadd"} /\ attempt[p] \in Nat
      /\ repeats[p] \in Nat /\ repeats[p] < Tries /\ Tries \in Nat
      /\ (MaxRetries + 1) * Tries \in Nat /\ (MaxRetries + 1) * Tries >= Tries
  <2>1. repeats[p] <= ClientRetries
    BY DEF CountInv, Accounted
  <2>2. Tries = 1 + ClientRetries /\ Tries \in Nat /\ MaxRetries \in Nat
    BY PublisherAssumption DEF Tries
  <2>3. (MaxRetries + 1) * Tries = MaxRetries * Tries + Tries /\ MaxRetries * Tries \in Nat
    BY <2>2
  <2>4. pc[p] \in {"idle", "setnx", "xadd"} /\ attempt[p] \in Nat /\ repeats[p] \in Nat
    BY DEF TypeOK
  <2>5. repeats[p] < Tries
    BY <2>1, <2>2, <2>4, PublisherAssumption
  <2> QED BY <2>2, <2>3, <2>4, <2>5
<1>2. pc[p] = "xadd" => attempt[p] < MaxRetries
  BY DEF CountInv, Accounted
<1>3. CASE pc[p] = "idle"
  BY <1>1, <1>3 DEF CommandsLeft
<1>4. CASE pc[p] = "setnx"
  <2>1. CommandsLeft(p) = (MaxRetries + 1) * Tries - repeats[p]
    BY <1>4 DEF CommandsLeft
  <2> QED BY <1>1, <1>4, <2>1
<1>5. CASE pc[p] = "xadd"
  <2>1. CommandsLeft(p) = (MaxRetries - attempt[p]) * Tries - repeats[p]
    BY <1>5 DEF CommandsLeft
  <2> QED BY <1>1, <1>2, <1>5, <2>1, AttemptsLeft
<1> QED BY <1>1, <1>3, <1>4, <1>5

\* A call that is in progress is left alone, or has fewer commands left.
LEMMA CallAdvances ==
    ASSUME TypeOK, CountInv, [Next]_vars, NEW p \in Publishers, pc[p] # "idle"
    PROVE  UNCHANGED <<pc[p], attempt[p], repeats[p]>> \/ CommandsLeft(p)' < CommandsLeft(p)
<1> USE DEF callVars, history
<1>1. /\ MaxRetries \in Nat /\ attempt[p] \in Nat /\ attempt \in [Publishers -> Nat] /\ p \in DOMAIN pc
      /\ repeats[p] \in Nat /\ p \in DOMAIN repeats
  BY PublisherAssumption DEF TypeOK
<1>2. repeats[p] < Tries /\ Tries \in Nat
  <2>1. repeats[p] <= ClientRetries
    BY DEF CountInv, Accounted
  <2> QED BY <1>1, <2>1, PublisherAssumption DEF Tries
<1>3. CommandsLeft(p) \in Nat /\ CommandsLeft(p) > 0
  <2>1. (MaxRetries + 1) * Tries \in Nat
    BY <1>1, <1>2
  <2> QED BY <2>1, CommandsLeftIs
<1>4. ASSUME pc'[p] = "idle" PROVE CommandsLeft(p)' < CommandsLeft(p)
  <2>1. CommandsLeft(p)' = 0
    BY <1>4 DEF CommandsLeft
  <2> QED BY <1>3, <2>1
<1>5. CASE SetNXNew(p) \/ SetNXError(p)
  <2>1. /\ pc[p] = "setnx"
        /\ pc'[p] = "idle" \/ (pc'[p] = "xadd" /\ attempt' = attempt /\ repeats'[p] = 0 /\ MaxRetries # 0)
    BY <1>1, <1>5 DEF SetNXNew, SetNXError, EnterRetryLoop, Return
  <2>2. CASE pc'[p] = "xadd" /\ attempt' = attempt /\ repeats'[p] = 0 /\ MaxRetries # 0
    <3>1. attempt[p] = 0 /\ 0 < MaxRetries
      <4>1. attempt[p] = 0
        BY <2>1 DEF CountInv, Accounted
      <4> QED BY <1>1, <2>2, <4>1
    <3>2. CommandsLeft(p)' = (MaxRetries - attempt[p]) * Tries - 0
          /\ CommandsLeft(p) = (MaxRetries + 1) * Tries - repeats[p]
      BY <2>1, <2>2 DEF CommandsLeft
    <3> QED BY <1>1, <1>2, <3>1, <3>2, AttemptsLeft
  <2> QED BY <1>4, <2>1, <2>2
<1>6. CASE SetNXDuplicate(p) \/ XAddOK(p) \/ Crash(p)
  BY <1>1, <1>4, <1>6 DEF SetNXDuplicate, XAddOK, Crash, Return
<1>7. CASE XAddError(p)
  <2>1. /\ pc[p] = "xadd" /\ attempt'[p] = attempt[p] + 1 /\ repeats'[p] = 0
        /\ pc'[p] = "idle" \/ pc'[p] = "xadd"
    BY <1>1, <1>7 DEF XAddError, Return
  <2>2. CASE pc'[p] = "xadd"
    <3>1. attempt[p] < MaxRetries
      BY <2>1 DEF CountInv, Accounted
    <3>2. CommandsLeft(p)' = (MaxRetries - (attempt[p] + 1)) * Tries - 0
          /\ CommandsLeft(p) = (MaxRetries - attempt[p]) * Tries - repeats[p]
      BY <2>1, <2>2 DEF CommandsLeft
    <3> QED BY <1>1, <1>2, <3>1, <3>2, AttemptsLeft
  <2> QED BY <1>4, <2>1, <2>2
<1>8. CASE SetNXRepeated(p) \/ XAddRepeated(p)
  <2>1. pc' = pc /\ attempt' = attempt /\ repeats'[p] = repeats[p] + 1
    BY <1>1, <1>8 DEF SetNXRepeated, XAddRepeated, Repeat
  <2>2. CASE pc[p] = "setnx"
    <3>1. CommandsLeft(p)' = (MaxRetries + 1) * Tries - (repeats[p] + 1)
          /\ CommandsLeft(p) = (MaxRetries + 1) * Tries - repeats[p]
      BY <2>1, <2>2 DEF CommandsLeft
    <3>2. (MaxRetries + 1) * Tries \in Nat
      BY <1>1, <1>2
    <3> QED BY <1>1, <3>1, <3>2
  <2>3. CASE pc[p] = "xadd"
    <3>1. CommandsLeft(p)' = (MaxRetries - attempt[p]) * Tries - (repeats[p] + 1)
          /\ CommandsLeft(p) = (MaxRetries - attempt[p]) * Tries - repeats[p]
      BY <2>1, <2>3 DEF CommandsLeft
    <3>2. (MaxRetries - attempt[p]) * Tries \in Int
      BY <1>1, <1>2
    <3> QED BY <1>1, <3>1, <3>2
  <2> QED BY <1>8, <2>2, <2>3 DEF SetNXRepeated, XAddRepeated
<1>9. CASE Tick \/ UNCHANGED vars
  BY <1>9 DEF Tick, vars
<1>10. ASSUME NEW q \in Publishers, q # p, \/ Call(q) \/ Crash(q) \/ \E s \in Subjects : Publish(q, s)
      PROVE  UNCHANGED <<pc[p], attempt[p], repeats[p]>>
  BY <1>10 DEF Call, Crash, Publish, SetNXNew, SetNXError, SetNXDuplicate, SetNXRepeated, XAddOK, XAddError,
              XAddRepeated, Repeat, EnterRetryLoop, Return, TypeOK
<1>11. ASSUME NEW s \in Subjects, Publish(p, s) PROVE FALSE
  BY <1>11 DEF Publish
<1> QED BY <1>5, <1>6, <1>7, <1>8, <1>9, <1>10, <1>11 DEF Next, Call

\* PublishPartitionEvent is called under the mutex of the analyzer and has a retry loop
\* (publisher.go:111-154). Whatever Redis does, and whatever other publishers do meanwhile, a call is
\* over after one SET NX and MaxRetries XADD, each of which go-redis sends at most Tries times, and
\* everything the call does brings its end nearer.
THEOREM CallsAreBounded ==
    Spec => /\ [](\A p \in Publishers : /\ CommandsLeft(p) \in 0..((MaxRetries + 1) * Tries)
                                        /\ CommandsLeft(p) = 0 <=> pc[p] = "idle")
            /\ [][\A p \in Publishers : pc[p] # "idle" =>
                      UNCHANGED <<pc[p], attempt[p], repeats[p]>> \/ CommandsLeft(p)' < CommandsLeft(p)]_vars
<1>1. TypeOK /\ CountInv /\ [Next]_vars
      => [\A p \in Publishers : pc[p] # "idle" =>
             UNCHANGED <<pc[p], attempt[p], repeats[p]>> \/ CommandsLeft(p)' < CommandsLeft(p)]_vars
  BY CallAdvances
<1> QED BY <1>1, CommandsLeftIs, CountInit, TypeInit, TypeStep, CountStep, PTL DEF Spec
=============================================================================
