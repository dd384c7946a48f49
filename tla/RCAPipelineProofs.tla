--------------------------- MODULE RCAPipelineProofs ---------------------------
(* Proofs about RCAPipeline, from the proofs about its two halves: the       *)
(* invariants of the publisher and of the consumers hold in the composition, *)
(* and together they say how often the handlers hear of an event and what    *)
(* becomes of one that is suppressed.                                        *)
EXTENDS RCAPipeline, SequenceTheorems, TLAPS

PP == INSTANCE EventPublisherProofs WITH
    Publishers <- {Publisher}, ClusterOf <- [p \in {Publisher} |-> Cluster],
    MaxClock <- 0, pc <- ppc

CP == INSTANCE RCAConsumerProofs WITH
    Faults <- {}, MaxMessages <- MaxCalls * MaxRetries * (1 + ClientRetries), pc <- cpc,
    stream <- [i \in 1..Len(stream) |-> "valid"]

-----------------------------------------------------------------------------
(* The assumptions and the actions of the two halves *)

\* The constants of the pipeline are fit for the publisher.
LEMMA PublisherFits ==
    /\ Subjects # {} /\ DeDupeWindow \in Nat \ {0} /\ MaxRetries \in Nat
    /\ ClientRetries \in Nat
    /\ Faults \subseteq {"request", "reply", "crash"}
    /\ MaxCalls \in Nat /\ 0 \in Nat
BY PipelineAssumption

\* The constants of the pipeline are fit for the consumers.
LEMMA ConsumersFit ==
    /\ BatchSize \in Nat \ {0} /\ MaxCalls * MaxRetries * (1 + ClientRetries) \in Nat
    /\ {} \subseteq {"request", "reply", "crash"}
<1>1. MaxCalls * MaxRetries \in Nat /\ 1 + ClientRetries \in Nat
  BY PipelineAssumption
<1>2. \A m, n \in Nat : m * n \in Nat
  OBVIOUS
<1> QED BY <1>1, <1>2, PipelineAssumption

\* The pipeline's steps of the publisher are steps of EventPublisher.
LEMMA PublisherSteps ==
    /\ P!Init => PP!Init
    /\ \A s \in Subjects : P!Publish(Publisher, s) => PP!Next
    /\ P!Call(Publisher) \/ P!Crash(Publisher) => PP!Next
    /\ UNCHANGED publisherVars => UNCHANGED PP!vars
<1>1. P!Init => PP!Init
  BY DEF P!Init, PP!Init, P!Fingerprints, PP!Fingerprints, P!Windows, PP!Windows, P!Unchecked, PP!Unchecked
<1>2. \A s \in Subjects : P!Publish(Publisher, s) => PP!Publish(Publisher, s)
  BY DEF P!Publish, PP!Publish, P!Unchecked, PP!Unchecked
<1>3. P!Call(Publisher) => PP!Call(Publisher)
  BY DEF P!Call, PP!Call, P!SetNXNew, PP!SetNXNew, P!SetNXDuplicate, PP!SetNXDuplicate,
         P!SetNXError, PP!SetNXError, P!SetNXRepeated, PP!SetNXRepeated, P!XAddOK, PP!XAddOK,
         P!XAddError, PP!XAddError, P!XAddRepeated, PP!XAddRepeated, P!Repeat, PP!Repeat,
         P!SetNXFails, PP!SetNXFails, P!AppendUnheard, PP!AppendUnheard, P!Exists, PP!Exists, P!Fingerprint, PP!Fingerprint,
         P!SetKey, PP!SetKey, P!EnterRetryLoop, PP!EnterRetryLoop, P!Return, PP!Return,
         P!Entry, PP!Entry, P!LastAttempt, PP!LastAttempt, P!history, PP!history
<1>4. UNCHANGED publisherVars => UNCHANGED PP!vars
  BY DEF publisherVars, PP!vars, PP!callVars, PP!history
<1>5. P!Crash(Publisher) => PP!Crash(Publisher)
  BY DEF P!Crash, PP!Crash, P!Return, PP!Return, P!history, PP!history
<1> QED BY <1>1, <1>2, <1>3, <1>4, <1>5 DEF PP!Next

\* The pipeline's steps of a consumer are steps of RCAConsumer.
LEMMA ConsumerSteps ==
    /\ C!Init => CP!Init
    /\ \A c \in Consumers : C!Launch(c) \/ C!Run(c) => CP!Next
<1>1. C!Init => CP!Init
  BY DEF C!Init, CP!Init
<1>2. \A c \in Consumers : C!Launch(c) => CP!Launch(c)
  BY DEF C!Launch, CP!Launch, C!redis, CP!redis
<1>3. \A c \in Consumers : C!Run(c) => CP!Run(c)
  BY DEF C!Run, CP!Run, C!redis, CP!redis, C!CreateGroup, CP!CreateGroup,
         C!CreateGroupError, CP!CreateGroupError, C!FirstId, CP!FirstId, C!Done, CP!Done, C!Poll, CP!Poll,
         C!ReadGroup, CP!ReadGroup, C!ReadGroupError, CP!ReadGroupError, C!Deliver, CP!Deliver,
         C!NewEntries, CP!NewEntries, C!ProcessInvalid, CP!ProcessInvalid, C!ProcessValid, CP!ProcessValid,
         C!AckOK, CP!AckOK, C!AckError, CP!AckError, C!NextMessage, CP!NextMessage
<1> QED BY <1>1, <1>2, <1>3 DEF CP!Next

-----------------------------------------------------------------------------
(* The invariants of the halves in the composition *)

PublisherInv == PP!TypeOK /\ PP!ClaimInv /\ PP!CountInv
ConsumerInv == CP!TypeOK /\ CP!OrderInv

\* The workers, the hook's mutex, a restart and the closing of the client leave the publisher's invariants to
\* the publisher.
LEMMA PublisherKept == PublisherInv /\ [Next]_vars => PublisherInv'
<1> SUFFICES ASSUME PublisherInv, [Next]_vars PROVE PublisherInv'
  OBVIOUS
<1>1. [PP!Next]_(PP!vars)
  <2>1. UNCHANGED publisherVars \/ (\E s \in Subjects : P!Publish(Publisher, s)) \/ P!Call(Publisher)
          \/ P!Crash(Publisher)
    BY DEF Next, vars, CallHook, Lock, Unlock, PublishEvent, Publishing, ClosePublisher, Crash, Launch, Run
  <2> QED BY <2>1, PublisherSteps
<1>2. PP!TypeOK'
  BY <1>1, PublisherFits, PP!TypeStep DEF PublisherInv
<1>3. PP!ClaimInv'
  BY <1>1, <1>2, PublisherFits, PP!ClaimStep DEF PublisherInv
<1>4. PP!CountInv'
  BY <1>1, PublisherFits, PP!CountStep DEF PublisherInv
<1> QED BY <1>2, <1>3, <1>4 DEF PublisherInv

\* A call of the publisher leaves the stream as it is or makes it longer by one entry.
LEMMA StreamGrows ==
    ASSUME PP!TypeOK, [Next]_vars
    PROVE  Len(stream) \in Nat /\ (stream' = stream \/ Len(stream') = Len(stream) + 1)
<1>1. stream \in Seq(PP!Entries) /\ Len(stream) \in Nat
  BY LenProperties DEF PP!TypeOK
<1>2. stream' = stream \/ stream' = Append(stream, P!Entry(Publisher))
  BY DEF Next, vars, publisherVars, CallHook, Lock, Unlock, PublishEvent, Publishing, ClosePublisher, Crash,
         Launch, Run, P!Publish, P!Call, P!Crash, P!SetNXNew, P!SetNXDuplicate, P!SetNXError, P!SetNXRepeated,
         P!XAddOK, P!XAddError, P!XAddRepeated, P!AppendUnheard
<1>3. Len(Append(stream, P!Entry(Publisher))) = Len(stream) + 1
  <2>1. P!Entry(Publisher) = PP!Entry(Publisher)
    BY DEF P!Entry, PP!Entry
  <2>2. PP!Entry(Publisher) \in PP!Entries
    BY PublisherFits, PP!EntryType
  <2> QED BY <1>1, <2>1, <2>2, AppendProperties
<1> QED BY <1>1, <1>2, <1>3

\* A stream that grows takes nothing from the consumers.
LEMMA ConsumerKept == PublisherInv /\ ConsumerInv /\ [Next]_vars => ConsumerInv'
<1> SUFFICES ASSUME PublisherInv, ConsumerInv, [Next]_vars PROVE ConsumerInv'
  OBVIOUS
<1>1. CASE \E c \in Consumers : Launch(c) \/ Run(c)
  <2>1. [CP!Next]_(CP!vars)
    BY <1>1, ConsumerSteps DEF Launch, Run
  <2>2. CP!TypeOK'
    BY <2>1, ConsumersFit, CP!TypeStep DEF ConsumerInv
  <2>3. CP!OrderInv'
    BY <2>1, <2>2, ConsumersFit, CP!OrderStep DEF ConsumerInv
  <2> QED BY <2>2, <2>3 DEF ConsumerInv
<1>2. CASE UNCHANGED consumerVars
  <2>1. UNCHANGED <<groupExists, lastDelivered, cpc, batch, handled>>
    BY <1>2 DEF consumerVars
  <2>2. Len(stream) \in Nat /\ Len(stream') \in Nat /\ Len(stream) <= Len(stream')
    BY StreamGrows DEF PublisherInv
  <2>3. ASSUME NEW n \in Nat
        PROVE  [i \in 1..n |-> "valid"] \in Seq({"valid", "invalid"}) /\ Len([i \in 1..n |-> "valid"]) = n
    OBVIOUS
  <2>4. CP!TypeOK'
    BY <2>1, <2>2, <2>3 DEF ConsumerInv, CP!TypeOK
  <2>5. CP!OrderInv'
    BY <2>1 DEF ConsumerInv, CP!OrderInv
  <2> QED BY <2>4, <2>5 DEF ConsumerInv
<1>3. (\E c \in Consumers : Launch(c) \/ Run(c)) \/ UNCHANGED consumerVars
  BY DEF Next, vars, CallHook, Lock, Unlock, PublishEvent, Publishing, ClosePublisher, Crash
<1> QED BY <1>1, <1>2, <1>3

-----------------------------------------------------------------------------
(* How often the handlers hear of an event *)

\* Two entries of one subject were let through by one call, or one of them unchecked: all claims of
\* the one window are made at one time.
LEMMA OneClaim ==
    ASSUME PublisherInv, NEW i \in 1..Len(stream), NEW j \in 1..Len(stream),
           P!Fingerprint(stream[i]) = P!Fingerprint(stream[j])
    PROVE  P!Unchecked \in {stream[i].claim, stream[j].claim} \/ stream[i].call = stream[j].call
<1> SUFFICES ASSUME stream[i].call # stream[j].call,
                    stream[i].claim # P!Unchecked, stream[j].claim # P!Unchecked
             PROVE  FALSE
  OBVIOUS
<1>1. P!Unchecked = -1 /\ PP!Unchecked = -1
  BY DEF P!Unchecked, PP!Unchecked
<1>2. stream[i].claim \in Nat /\ stream[j].claim \in Nat
  BY <1>1, PublisherFits, PP!StreamTypes DEF PublisherInv
<1>3. clock = 0
  BY DEF PublisherInv, PP!TypeOK
<1>4. stream[i].claim <= 0 /\ stream[j].claim <= 0
  BY <1>1, <1>3 DEF PublisherInv, PP!ClaimInv, PP!Held
<1>5. PP!FarApart(stream[i].claim, stream[j].claim)
  BY <1>1 DEF PublisherInv, PP!ClaimInv, PP!Spaced, P!Fingerprint, PP!Fingerprint
<1> QED BY <1>2, <1>4, <1>5, PipelineAssumption DEF PP!FarApart

\* What the handlers heard is in the stream, and no entry was given to them twice.
LEMMA NotifiedOnce ==
    ASSUME PublisherInv, ConsumerInv, NEW x \in Notifications, NEW y \in Notifications
    PROVE  /\ handled[x[1]][x[2]] \in 1..Len(stream)
           /\ x # y => handled[x[1]][x[2]] # handled[y[1]][y[2]]
<1>1. Len(stream) \in Nat /\ Len([i \in 1..Len(stream) |-> "valid"]) = Len(stream)
  BY PublisherFits, PP!StreamTypes DEF PublisherInv
<1>2. lastDelivered \in Nat /\ lastDelivered <= Len(stream)
  BY <1>1 DEF ConsumerInv, CP!TypeOK
<1>3. PICK c \in Consumers : \E k \in DOMAIN handled[c] : x = <<c, k>>
  BY DEF Notifications
<1>4. PICK d \in Consumers : \E m \in DOMAIN handled[d] : y = <<d, m>>
  BY DEF Notifications
<1>5. PICK k \in DOMAIN handled[c] : x = <<c, k>>
  BY <1>3
<1>6. PICK m \in DOMAIN handled[d] : y = <<d, m>>
  BY <1>4
<1>7. /\ k \in 1..Len(handled[c]) /\ m \in 1..Len(handled[d])
      /\ handled[c] \in Seq(Nat) /\ handled[d] \in Seq(Nat)
  <2>1. handled \in [Consumers -> Seq(Nat)]
    BY DEF ConsumerInv, CP!TypeOK
  <2> QED BY <1>5, <1>6, <2>1
<1>8. handled[c][k] \in 1..lastDelivered
  BY <1>5, <1>7 DEF ConsumerInv, CP!OrderInv, CP!InOrder, CP!UpTo
<1>9. CP!HandledOnceInOrder
  BY ConsumersFit, CP!OrderMeansOnce DEF ConsumerInv
<1>10. c # d => handled[c][k] # handled[d][m]
  BY <1>5, <1>6, <1>9 DEF CP!HandledOnceInOrder
<1>11. ASSUME c = d, k # m PROVE handled[c][k] # handled[d][m]
  <2>1. k \in Int /\ m \in Int /\ handled[c][k] \in Nat /\ handled[c][m] \in Nat
    BY <1>7, <1>11
  <2>2. k < m => handled[c][k] < handled[c][m]
    BY <1>5, <1>6, <1>9, <1>11 DEF CP!HandledOnceInOrder
  <2>3. m < k => handled[c][m] < handled[c][k]
    BY <1>5, <1>6, <1>9, <1>11 DEF CP!HandledOnceInOrder
  <2> QED BY <1>11, <2>1, <2>2, <2>3
<1> QED BY <1>2, <1>5, <1>6, <1>8, <1>10, <1>11

\* The handlers hear twice of one subject only through two entries, and only if a call lost a reply
\* to XADD or published although its SET NX had failed, for any number of goroutines, consumers,
\* retries and calls, with the client closed at any time (helper.go:36-49, publisher.go:66-122,
\* consumer.go:85-141).
THEOREM HeardOnceHolds == Spec => []HeardOnce
<1>1. Init => PublisherInv
  BY PublisherFits, PublisherSteps, PP!TypeInit, PP!ClaimInit, PP!CountInit DEF Init, PublisherInv
<1>2. Init => ConsumerInv
  BY ConsumersFit, ConsumerSteps, CP!TypeInit, CP!OrderInit DEF Init, ConsumerInv
<1>3. PublisherInv /\ ConsumerInv => HeardOnce
  <2> SUFFICES ASSUME PublisherInv, ConsumerInv, NEW x \in Notifications, NEW y \in Notifications,
                      x # y, P!Fingerprint(Heard(x)) = P!Fingerprint(Heard(y))
               PROVE  /\ handled[x[1]][x[2]] # handled[y[1]][y[2]]
                      /\ \/ P!Unchecked \in {Heard(x).claim, Heard(y).claim}
                         \/ Heard(x).call = Heard(y).call
                      /\ Heard(x).call = Heard(y).call /\ Heard(x).call = <<Publisher, calls[Publisher]>>
                          => lost[Publisher] > 0
    BY DEF HeardOnce
  <2> DEFINE i == handled[x[1]][x[2]]  j == handled[y[1]][y[2]]
  <2>1. i \in 1..Len(stream) /\ j \in 1..Len(stream) /\ i # j
    BY NotifiedOnce
  <2>2. Heard(x) = stream[i] /\ Heard(y) = stream[j]
    BY DEF Heard
  <2> HIDE DEF i, j
  <2>3. P!Unchecked \in {stream[i].claim, stream[j].claim} \/ stream[i].call = stream[j].call
    BY <2>1, <2>2, OneClaim
  <2>4. stream[i].call = stream[j].call /\ stream[i].call = <<Publisher, calls[Publisher]>> => lost[Publisher] > 0
    BY <2>1, PublisherFits, PP!ReplyLost DEF PublisherInv
  <2> QED BY <2>1, <2>2, <2>3, <2>4 DEF i, j
<1> QED BY <1>1, <1>2, <1>3, PublisherKept, ConsumerKept, PTL DEF Spec

-----------------------------------------------------------------------------
(* What becomes of an event that is suppressed as a duplicate *)

\* There is an entry with the fingerprint.
Published(fp) == \E i \in 1..Len(stream) : P!Fingerprint(stream[i]) = fp

\* There is one, or the log says that publishing one failed, or the key is one of those that a call
\* left without an entry.
Covered(fp) == Published(fp) \/ fp \in reported \/ fp \in orphaned

\* The publisher is at the XADD of an event with the fingerprint, or repeats its SET NX.
InFlight(fp) == /\ \/ ppc[Publisher] = "xadd"
                   \/ ppc[Publisher] = "setnx" /\ repeats[Publisher] > 0
                /\ P!Fingerprint(event[Publisher]) = fp

\* A key in Redis stands for an entry, a logged failure, a key left behind or the event that is being
\* published.
KeyInv ==
    /\ \A fp \in P!Fingerprints : P!Exists(fp) => Covered(fp) \/ InFlight(fp)
    /\ ppc[Publisher] = "idle" => repeats[Publisher] = 0
    /\ ppc[Publisher] = "xadd" /\ lost[Publisher] > 0 => Published(Mine)
    /\ returned[Publisher] = "deduplicated" => ppc[Publisher] = "idle" /\ Covered(Mine)

\* What is in the log, and a stream that only grows, go on covering what they covered.
LEMMA CoveredKept ==
    ASSUME PP!TypeOK, reported \subseteq reported', orphaned \subseteq orphaned',
           stream' = stream \/ stream' = Append(stream, P!Entry(Publisher))
    PROVE  /\ \A fp \in P!Fingerprints : Covered(fp) => Covered(fp)'
           /\ P!Fingerprint(event[Publisher])' = Mine => /\ Covered(Mine) => Covered(Mine)'
                                                         /\ Published(Mine) => Published(Mine)'
<1>1. stream \in Seq(PP!Entries)
  BY DEF PP!TypeOK
<1> DEFINE e == P!Entry(Publisher)
<1>2. stream' = stream \/ stream' = Append(stream, e)
  OBVIOUS
<1> HIDE DEF e
<1>3. \A i \in 1..Len(stream) : i \in 1..Len(stream') /\ stream'[i] = stream[i]
  BY <1>1, <1>2
<1>4. \A fp \in P!Fingerprints : Covered(fp) => Covered(fp)'
  BY <1>3 DEF Covered, Published, P!Fingerprint
<1>5. P!Fingerprint(event[Publisher])' = Mine => (Published(Mine) => Published(Mine)')
  BY <1>3 DEF Published, P!Fingerprint, Mine
<1>6. P!Fingerprint(event[Publisher])' = Mine => (Covered(Mine) => Covered(Mine)')
  BY <1>5 DEF Covered, Mine
<1> QED BY <1>4, <1>5, <1>6

\* An XADD that takes effect publishes its event.
LEMMA AppendPublishes ==
    ASSUME PP!TypeOK, stream' = Append(stream, P!Entry(Publisher)), event' = event
    PROVE  Published(Mine)'
<1> DEFINE e == P!Entry(Publisher)
<1>1. P!Fingerprint(e) = Mine /\ Mine' = Mine
  BY DEF P!Entry, P!Fingerprint, Mine
<1>2. stream \in Seq(PP!Entries) /\ stream' = Append(stream, e)
  BY DEF PP!TypeOK
<1> HIDE DEF e
<1>3. Len(stream) + 1 \in 1..Len(stream') /\ stream'[Len(stream) + 1] = e
  BY <1>2
<1> QED BY <1>1, <1>3 DEF Published, P!Fingerprint

\* A step of the publisher with its event covers what was covered. What it leaves in Redis, besides
\* the keys that were there, is the key of the event, which is covered or in flight.
LEMMA KeyFromOne ==
    ASSUME KeyInv, Mine \in P!Fingerprints, event' = event, clock' = clock,
           \A fp \in P!Fingerprints : Covered(fp) => Covered(fp)',
           \A fp \in P!Fingerprints \ {Mine} : dedupe'[fp] = dedupe[fp],
           P!Exists(Mine)' => Covered(Mine)' \/ InFlight(Mine)',
           ppc'[Publisher] = "idle" => repeats'[Publisher] = 0,
           ppc'[Publisher] = "xadd" /\ lost'[Publisher] > 0 => Published(Mine)',
           returned'[Publisher] = "deduplicated" => ppc'[Publisher] = "idle" /\ Covered(Mine)'
    PROVE  KeyInv'
<1>1. Mine' = Mine
  BY DEF P!Fingerprint, Mine
<1>2. ASSUME NEW fp \in P!Fingerprints, P!Exists(fp)', fp # Mine PROVE Covered(fp)'
  <2>1. P!Exists(fp)
    BY <1>2 DEF P!Exists
  <2> QED BY <1>2, <2>1 DEF KeyInv, InFlight, Mine
<1>3. ASSUME NEW fp \in P!Fingerprints, P!Exists(fp)' PROVE Covered(fp)' \/ InFlight(fp)'
  <2>1. CASE fp = Mine
    BY <1>1, <1>3, <2>1
  <2> QED BY <1>2, <1>3, <2>1
<1>4. \A fp \in P!Fingerprints' : fp \in P!Fingerprints
  BY DEF P!Fingerprints, P!Windows
<1> QED BY <1>1, <1>3, <1>4 DEF KeyInv

\* The publisher's event has a place in the table of keys, and its variables their types.
LEMMA PublisherTypes ==
    ASSUME PublisherInv
    PROVE  /\ Mine \in P!Fingerprints /\ dedupe \in [P!Fingerprints -> Nat]
           /\ Publisher \in DOMAIN ppc /\ Publisher \in DOMAIN returned
           /\ Publisher \in DOMAIN repeats /\ Publisher \in DOMAIN lost
           /\ repeats[Publisher] \in Nat /\ lost[Publisher] \in Nat
           /\ ppc[Publisher] \in {"idle", "setnx", "xadd"}
           /\ ppc[Publisher] = "setnx" => lost[Publisher] = 0
           /\ ppc[Publisher] # "idle" => returned[Publisher] = "none"
<1>1. P!Fingerprints = PP!Fingerprints
  BY DEF P!Fingerprints, PP!Fingerprints, P!Windows, PP!Windows
<1>2. PP!Fingerprint(event[Publisher]) \in PP!Fingerprints
  <2>1. event[Publisher].subject \in Subjects /\ event[Publisher].time \in 0..0
    BY DEF PublisherInv, PP!TypeOK, PP!Events
  <2> QED BY <2>1, PublisherFits, PP!FingerprintOf
<1>3. Mine \in P!Fingerprints
  BY <1>1, <1>2 DEF Mine, P!Fingerprint, PP!Fingerprint
<1>4. /\ ppc[Publisher] = "setnx" => lost[Publisher] = 0
      /\ ppc[Publisher] # "idle" => returned[Publisher] = "none"
  BY DEF PublisherInv, PP!CountInv, PP!Accounted
<1> QED BY <1>1, <1>3, <1>4 DEF PublisherInv, PP!TypeOK

\* A command of the publisher, answered, failed or repeated, keeps it.
LEMMA KeyPublishing ==
    ASSUME PublisherInv, KeyInv, Publishing
    PROVE  KeyInv'
<1>1. /\ P!Call(Publisher) /\ event' = event /\ clock' = clock
      /\ reported \subseteq reported' /\ orphaned \subseteq orphaned'
      /\ returned'[Publisher] = "failed" => Mine \in reported'
      /\ returned'[Publisher] = "deduplicated" /\ repeats[Publisher] > 0 => Mine \in orphaned'
  BY DEF Publishing, P!Call, P!SetNXNew, P!SetNXDuplicate, P!SetNXError, P!SetNXRepeated, P!XAddOK, P!XAddError,
         P!XAddRepeated, P!Repeat, P!EnterRetryLoop, P!Return
<1>2. /\ Mine' = Mine /\ P!Fingerprint(event[Publisher])' = Mine
      /\ Mine \in reported' \/ Mine \in orphaned' => Covered(Mine)'
  BY <1>1 DEF Mine, P!Fingerprint, Covered
<1>3. CASE P!SetNXNew(Publisher) \/ P!SetNXError(Publisher)
  <2>1. /\ stream' = stream /\ lost' = lost /\ ppc[Publisher] = "setnx"
        /\ dedupe' = dedupe \/ P!SetKey(Mine)
        /\ repeats'[Publisher] = 0
        /\ \/ returned'[Publisher] = "failed"
           \/ ppc'[Publisher] = "xadd" /\ returned' = returned
    BY <1>3, PublisherTypes DEF P!SetNXNew, P!SetNXError, P!SetNXFails, P!EnterRetryLoop, P!Return, P!history, Mine
  <2>2. \A fp \in P!Fingerprints \ {Mine} : dedupe'[fp] = dedupe[fp]
    BY <2>1, PublisherTypes DEF P!SetKey
  <2>3. \A fp \in P!Fingerprints : Covered(fp) => Covered(fp)'
    BY <1>1, <2>1, CoveredKept DEF PublisherInv
  <2>4. returned[Publisher] = "none" /\ lost[Publisher] = 0
    BY <2>1, PublisherTypes
  <2>5. Covered(Mine)' \/ InFlight(Mine)'
    BY <1>1, <1>2, <2>1 DEF InFlight, Mine
  <2> QED BY <1>1, <2>1, <2>2, <2>3, <2>4, <2>5, PublisherTypes, KeyFromOne
<1>4. CASE P!SetNXDuplicate(Publisher)
  <2>1. /\ stream' = stream /\ dedupe' = dedupe /\ ppc[Publisher] = "setnx" /\ P!Exists(Mine)
        /\ ppc'[Publisher] = "idle" /\ returned'[Publisher] = "deduplicated" /\ repeats'[Publisher] = 0
    BY <1>4, PublisherTypes DEF P!SetNXDuplicate, P!Return, Mine
  <2>2. \A fp \in P!Fingerprints : Covered(fp) => Covered(fp)'
    BY <1>1, <2>1, CoveredKept DEF PublisherInv
  <2>3. Covered(Mine)'
    <3>1. CASE repeats[Publisher] > 0
      BY <1>1, <1>2, <2>1, <3>1
    <3>2. CASE ~(repeats[Publisher] > 0)
      <4>1. Covered(Mine)
        BY <2>1, <3>2, PublisherTypes DEF KeyInv, InFlight
      <4> QED BY <1>1, <1>2, <2>1, <4>1, CoveredKept DEF PublisherInv
    <3> QED BY <3>1, <3>2
  <2> QED BY <1>1, <2>1, <2>2, <2>3, PublisherTypes, KeyFromOne
<1>5. CASE P!SetNXRepeated(Publisher)
  <2>1. /\ stream' = stream /\ ppc' = ppc /\ ppc[Publisher] = "setnx" /\ P!SetKey(Mine)
        /\ returned' = returned /\ repeats'[Publisher] = repeats[Publisher] + 1
    BY <1>5, PublisherTypes DEF P!SetNXRepeated, P!Repeat, Mine
  <2>2. \A fp \in P!Fingerprints \ {Mine} : dedupe'[fp] = dedupe[fp]
    BY <2>1, PublisherTypes DEF P!SetKey
  <2>3. \A fp \in P!Fingerprints : Covered(fp) => Covered(fp)'
    BY <1>1, <2>1, CoveredKept DEF PublisherInv
  <2>4. repeats'[Publisher] > 0 /\ returned[Publisher] = "none"
    BY <2>1, PublisherTypes
  <2>5. InFlight(Mine)'
    BY <1>2, <2>1, <2>4 DEF InFlight, Mine
  <2> QED BY <1>1, <2>1, <2>2, <2>3, <2>4, <2>5, PublisherTypes, KeyFromOne
<1>6. CASE P!XAddOK(Publisher) \/ P!XAddError(Publisher) \/ P!XAddRepeated(Publisher)
  <2>1. /\ dedupe' = dedupe /\ ppc[Publisher] = "xadd"
        /\ stream' = Append(stream, P!Entry(Publisher)) \/ (stream' = stream /\ lost' = lost)
        /\ \/ ppc' = ppc /\ returned' = returned
           \/ repeats'[Publisher] = 0 /\ returned'[Publisher] \in {"published", "failed"}
    BY <1>6, PublisherTypes DEF P!XAddOK, P!XAddError, P!XAddRepeated, P!AppendUnheard, P!Repeat, P!Return
  <2>2. /\ \A fp \in P!Fingerprints : Covered(fp) => Covered(fp)'
        /\ Published(Mine) => Published(Mine)'
    BY <1>1, <1>2, <2>1, CoveredKept DEF PublisherInv
  <2>3. stream' = Append(stream, P!Entry(Publisher)) => Published(Mine)'
    BY <1>1, AppendPublishes DEF PublisherInv
  <2>4. ppc'[Publisher] = "xadd" /\ lost'[Publisher] > 0 => Published(Mine)'
    BY <1>2, <2>1, <2>2, <2>3, PublisherTypes DEF KeyInv
  <2>5. Covered(Mine)' \/ InFlight(Mine)'
    <3>1. CASE ppc' = ppc
      BY <1>2, <2>1, <3>1 DEF InFlight, Mine
    <3>2. CASE returned'[Publisher] = "published"
      <4>1. stream' = Append(stream, P!Entry(Publisher))
        BY <1>6, <2>1, <3>2, PublisherTypes DEF P!XAddOK, P!XAddError, P!XAddRepeated, P!Repeat, P!Return
      <4> QED BY <1>2, <2>3, <4>1 DEF Covered
    <3> QED BY <1>1, <1>2, <2>1, <3>1, <3>2
  <2>6. returned'[Publisher] # "deduplicated" /\ (ppc'[Publisher] = "idle" => repeats'[Publisher] = 0)
    BY <2>1, PublisherTypes
  <2> QED BY <1>1, <1>2, <2>1, <2>2, <2>4, <2>5, <2>6, PublisherTypes, KeyFromOne
<1> QED BY <1>1, <1>3, <1>4, <1>5, <1>6 DEF P!Call

\* A restart keeps it: a key whose call had no entry yet is left behind.
LEMMA KeyCrash ==
    ASSUME PublisherInv, KeyInv, Crash
    PROVE  KeyInv'
<1>1. /\ UNCHANGED <<clock, event, dedupe, stream, lost, reported>> /\ orphaned \subseteq orphaned'
      /\ \/ ppc[Publisher] = "setnx" /\ repeats[Publisher] > 0
         \/ ppc[Publisher] = "xadd" /\ lost[Publisher] = 0
         => Mine \in orphaned'
  BY DEF Crash, P!Crash, P!Return, P!history, publisherVars
<1>2. \/ UNCHANGED <<ppc, repeats, returned>> /\ ppc[Publisher] = "idle"
      \/ ppc'[Publisher] = "idle" /\ repeats'[Publisher] = 0 /\ returned'[Publisher] = "crashed"
  BY PublisherTypes DEF Crash, P!Crash, P!Return, publisherVars
<1>4. Mine' = Mine /\ P!Fingerprint(event[Publisher])' = Mine
  BY <1>1 DEF Mine, P!Fingerprint
<1>3. /\ \A fp \in P!Fingerprints : Covered(fp) => Covered(fp)'
      /\ Covered(Mine) => Covered(Mine)'
      /\ Published(Mine) => Published(Mine)'
  BY <1>1, <1>4, CoveredKept DEF PublisherInv
<1>5. InFlight(Mine) => Covered(Mine)'
  <2>1. CASE ppc[Publisher] = "xadd" /\ lost[Publisher] > 0
    BY <1>3, <1>4, <2>1, PublisherTypes DEF KeyInv, Covered
  <2>2. CASE ~(ppc[Publisher] = "xadd" /\ lost[Publisher] > 0)
    BY <1>1, <1>4, <2>2, PublisherTypes DEF InFlight, Covered
  <2> QED BY <2>1, <2>2
<1>6. P!Exists(Mine)' => Covered(Mine)'
  <2> SUFFICES ASSUME P!Exists(Mine)' PROVE Covered(Mine)'
    OBVIOUS
  <2>1. P!Exists(Mine)
    BY <1>1, <1>4 DEF P!Exists
  <2> QED BY <1>3, <1>4, <1>5, <2>1, PublisherTypes DEF KeyInv
<1>7. ppc'[Publisher] = "idle" /\ repeats'[Publisher] = 0
  BY <1>2 DEF KeyInv
<1>8. returned'[Publisher] = "deduplicated" => Covered(Mine)'
  BY <1>2, <1>3, <1>4, PublisherTypes DEF KeyInv
<1> QED BY <1>1, <1>3, <1>6, <1>7, <1>8, PublisherTypes, KeyFromOne

\* Every step keeps it.
LEMMA KeyStep ==
    ASSUME PublisherInv, KeyInv, [Next]_vars
    PROVE  KeyInv'
<1> USE DEF hookVars, log, publisherVars, consumerVars
<1>1. CASE UNCHANGED <<clock, ppc, event, repeats, lost, returned, dedupe, stream, reported, orphaned>>
  <2>1. KeyInv' <=> KeyInv
    BY <1>1 DEF KeyInv, Covered, Published, InFlight, Mine, P!Fingerprint, P!Fingerprints, P!Windows, P!Exists
  <2> QED BY <2>1
<1>2. ASSUME NEW w \in Workers, NEW s \in Subjects, PublishEvent(w, s) PROVE KeyInv'
  <2>1. /\ UNCHANGED <<clock, repeats, dedupe, stream, reported, orphaned>> /\ ppc[Publisher] = "idle"
        /\ ppc'[Publisher] = "setnx" /\ returned'[Publisher] = "none"
    BY <1>2, PublisherTypes DEF PublishEvent, P!Publish
  <2>2. \A fp \in P!Fingerprints : Covered(fp) => Covered(fp)'
    BY <2>1, CoveredKept DEF PublisherInv
  <2>3. ASSUME NEW fp \in P!Fingerprints, P!Exists(fp)' PROVE Covered(fp)'
    <3>1. P!Exists(fp)
      BY <2>1, <2>3 DEF P!Exists
    <3>2. Covered(fp)
      BY <2>1, <3>1 DEF KeyInv, InFlight
    <3> QED BY <2>2, <3>2
  <2>4. \A fp \in P!Fingerprints' : fp \in P!Fingerprints
    BY DEF P!Fingerprints, P!Windows
  <2> QED BY <2>1, <2>3, <2>4 DEF KeyInv
<1> QED
  BY <1>1, <1>2, KeyPublishing, KeyCrash DEF Next, vars, CallHook, Lock, Unlock, ClosePublisher, Launch, Run

\* A delivered entry is handled or pending in the composition too.
LEMMA PendingKept ==
    ASSUME PublisherInv, ConsumerInv, CP!UnhandledStaysPending, [Next]_vars
    PROVE  CP!UnhandledStaysPending'
<1>1. CASE \E c \in Consumers : Launch(c) \/ Run(c)
  <2>1. [CP!Next]_(CP!vars)
    BY <1>1, ConsumerSteps DEF Launch, Run
  <2>2. CP!TypeOK'
    BY ConsumerKept DEF ConsumerInv
  <2> QED BY <2>1, <2>2, ConsumersFit, CP!PendingStep DEF ConsumerInv
<1>2. CASE UNCHANGED consumerVars
  BY <1>2 DEF consumerVars, CP!UnhandledStaysPending, CP!WasHandled
<1> QED BY <1>1, <1>2 DEF Next, vars, CallHook, Lock, Unlock, PublishEvent, Publishing, ClosePublisher, Crash

\* Entry i will be read, is with a consumer, or was given to the handlers.
Kept(i) == i > lastDelivered \/ i \in pel \/ \E x \in Notifications : handled[x[1]][x[2]] = i

\* An event that is suppressed as a duplicate (publisher.go:111-119) is the duplicate of something:
\* when PublishPartitionEvent returns nil for it, an entry with its fingerprint is in the stream, and
\* is handled, pending or still to be read, or the log has the failure to publish one. The exceptions
\* are keys that a call left in Redis without an entry, by taking its own key, which go-redis had set
\* with an earlier copy of the same command, for that of another, or by a restart before its XADD.
\* For any retries of the program and of go-redis, with commands and replies lost, the client closed
\* and the process stopped at any moment.
THEOREM SuppressedIsNotLost ==
    Spec => [](returned[Publisher] = "deduplicated" =>
                   LET fp == P!Fingerprint(event[Publisher])
                   IN  \/ fp \in reported \/ fp \in orphaned
                       \/ \E i \in 1..Len(stream) : P!Fingerprint(stream[i]) = fp /\ Kept(i))
<1> DEFINE NotLost == returned[Publisher] = "deduplicated" =>
                        LET fp == P!Fingerprint(event[Publisher])
                        IN  \/ fp \in reported \/ fp \in orphaned
                            \/ \E i \in 1..Len(stream) : P!Fingerprint(stream[i]) = fp /\ Kept(i)
<1>1. Init => PublisherInv
  BY PublisherFits, PublisherSteps, PP!TypeInit, PP!ClaimInit, PP!CountInit DEF Init, PublisherInv
<1>2. Init => ConsumerInv
  BY ConsumersFit, ConsumerSteps, CP!TypeInit, CP!OrderInit DEF Init, ConsumerInv
<1>3. Init => KeyInv
  <2> SUFFICES ASSUME Init PROVE KeyInv
    OBVIOUS
  <2>1. \A fp \in P!Fingerprints : ~P!Exists(fp)
    BY DEF Init, P!Init, P!Exists
  <2>2. returned[Publisher] = "none" /\ repeats[Publisher] = 0 /\ ppc[Publisher] = "idle"
    BY DEF Init, P!Init
  <2> QED BY <2>1, <2>2 DEF KeyInv
<1>4. Init => CP!UnhandledStaysPending
  BY DEF Init, C!Init, CP!UnhandledStaysPending
<1>5. PublisherInv /\ ConsumerInv /\ KeyInv /\ CP!UnhandledStaysPending => NotLost
  <2> SUFFICES ASSUME PublisherInv, ConsumerInv, KeyInv, CP!UnhandledStaysPending, NEW i \in 1..Len(stream)
               PROVE  Kept(i)
    BY DEF KeyInv, Covered, Published, Mine
  <2>1. lastDelivered \in Nat /\ i \in Nat /\ i >= 1
    BY DEF ConsumerInv, CP!TypeOK
  <2>2. CASE i \in 1..lastDelivered /\ i \notin pel
    <3>1. PICK c \in Consumers : \E k \in DOMAIN handled[c] : handled[c][k] = i
      BY <2>2 DEF CP!UnhandledStaysPending, CP!WasHandled
    <3>2. PICK k \in DOMAIN handled[c] : handled[c][k] = i
      BY <3>1
    <3>3. <<c, k>> \in Notifications
      BY DEF Notifications
    <3> QED BY <3>2, <3>3 DEF Kept
  <2> QED BY <2>1, <2>2 DEF Kept
<1> HIDE DEF NotLost
<1>6. Spec => []NotLost
  BY <1>1, <1>2, <1>3, <1>4, <1>5, PublisherKept, ConsumerKept, KeyStep, PendingKept, PTL DEF Spec
<1> QED BY <1>6 DEF NotLost
=============================================================================
