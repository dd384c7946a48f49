---------------------------- MODULE EventPublisher ----------------------------
(***************************************************************************)
(* PublishPartitionEvent of internal/publisher/publisher.go, called by the *)
(* publishers of several clusters or of several LagRadar processes against *)
(* one Redis.  A publisher handles one event at a time (the analyzer calls *)
(* it under a mutex).  Redis is external: SET NX with a time to live and   *)
(* XADD are atomic, and a command may be lost before or after it took      *)
(* effect.  The client library then sends it again, ClientRetries times,   *)
(* before the program sees an error: publisher.go:33 sets no MaxRetries,   *)
(* and go-redis takes 3 for that.                                          *)
(*                                                                         *)
(* What an event says is its subject (type, group, topic and partition);   *)
(* the stream entry also carries its cluster.  Trimming at MaxLen is left  *)
(* out.  json.Marshal of the event does not fail: what the evaluator puts  *)
(* into it are strings, integers and quotients with a divisor other than 0 *)
(* (evaluator.go:42, 207 and 226).                                         *)
(***************************************************************************)
EXTENDS Integers, Sequences, FiniteSets

CONSTANTS
    Publishers,    \* enabled EventPublishers
    ClusterOf,     \* clusterName of each
    Subjects,      \* what events are about
    DeDupeWindow,  \* config.Publisher.DeDupeWindow
    MaxRetries,    \* config.Publisher.MaxRetries
    ClientRetries, \* how often go-redis repeats a command (Options.MaxRetries, unset: 3)
    Faults,        \* subset of {"request", "reply", "crash"}: what may go wrong
    MaxCalls,      \* bound on the calls of one publisher
    MaxClock       \* bound on time

ASSUME PublisherAssumption ==
    /\ Subjects # {} /\ DeDupeWindow \in Nat \ {0} /\ MaxRetries \in Nat
    /\ ClientRetries \in Nat
    /\ Faults \subseteq {"request", "reply", "crash"}
    /\ MaxCalls \in Nat /\ MaxClock \in Nat

VARIABLES
    clock,     \* time
    pc,        \* where PublishPartitionEvent is
    event,     \* the event it publishes: subject and Timestamp
    attempt,   \* i of the retry loop
    repeats,   \* go-redis: repeats of the current command after a lost reply
    calls,     \* number of calls so far
    returned,  \* how the latest call ended
    dedupe,    \* Redis: when the key of a fingerprint expires
    stream,    \* Redis: the stream
    claim,     \* history: when SET NX let the call through, or Unchecked
    lost       \* history: XADD replies the call has lost

callVars == <<pc, event, attempt, repeats, calls, returned>>
history == <<claim, lost>>
vars == <<clock, callVars, dedupe, stream, history>>

Unchecked == -1
Windows == 0..(MaxClock \div DeDupeWindow)

\* generateFingerprint: subject and Timestamp.Truncate(DeDupeWindow); the cluster is not part of it.
Fingerprint(e) == <<e.subject, e.time \div DeDupeWindow>>

Fingerprints == Subjects \X Windows

\* The key exists until its time to live is over.
Exists(fp) == clock < dedupe[fp]

Init ==
    /\ clock = 0
    /\ pc = [p \in Publishers |-> "idle"]
    /\ event = [p \in Publishers |-> [subject |-> CHOOSE s \in Subjects : TRUE, time |-> 0]]
    /\ attempt = [p \in Publishers |-> 0]
    /\ repeats = [p \in Publishers |-> 0]
    /\ calls = [p \in Publishers |-> 0]
    /\ returned = [p \in Publishers |-> "none"]
    /\ dedupe = [fp \in Fingerprints |-> 0]
    /\ stream = <<>>
    /\ claim = [p \in Publishers |-> Unchecked]
    /\ lost = [p \in Publishers |-> 0]

Tick ==
    /\ clock < MaxClock
    /\ clock' = clock + 1
    /\ UNCHANGED <<callVars, dedupe, stream, history>>

-----------------------------------------------------------------------------

\* The call is made; the event gets its timestamp and fingerprint.
Publish(p, s) ==
    /\ pc[p] = "idle"
    /\ calls[p] < MaxCalls
    /\ pc' = [pc EXCEPT ![p] = "setnx"]
    /\ event' = [event EXCEPT ![p] = [subject |-> s, time |-> clock]]
    /\ attempt' = [attempt EXCEPT ![p] = 0]
    /\ calls' = [calls EXCEPT ![p] = @ + 1]
    /\ returned' = [returned EXCEPT ![p] = "none"]
    /\ claim' = [claim EXCEPT ![p] = Unchecked]
    /\ lost' = [lost EXCEPT ![p] = 0]
    /\ UNCHANGED <<clock, repeats, dedupe, stream>>

Return(p, how) ==
    /\ pc' = [pc EXCEPT ![p] = "idle"]
    /\ returned' = [returned EXCEPT ![p] = how]
    /\ repeats' = [repeats EXCEPT ![p] = 0]
    /\ UNCHANGED <<event, calls>>

\* On to the retry loop, whose body never runs when MaxRetries is 0.
EnterRetryLoop(p) ==
    IF MaxRetries = 0
    THEN Return(p, "failed") /\ UNCHANGED attempt
    ELSE /\ pc' = [pc EXCEPT ![p] = "xadd"]
         /\ repeats' = [repeats EXCEPT ![p] = 0]
         /\ UNCHANGED <<event, attempt, calls, returned>>

\* Mutant: the key expires at the end of its time window instead of DeDupeWindow after SET NX.
SetKeyShort(fp) == dedupe' = [dedupe EXCEPT ![fp] = (clock \div DeDupeWindow + 1) * DeDupeWindow - 1]

SetKey(fp) == dedupe' = [dedupe EXCEPT ![fp] = clock + DeDupeWindow]

\* SET NX sets the key: the event is new.
SetNXNew(p) ==
    /\ pc[p] = "setnx"
    /\ ~Exists(Fingerprint(event[p]))
    /\ SetKey(Fingerprint(event[p]))
    /\ claim' = [claim EXCEPT ![p] = clock]
    /\ EnterRetryLoop(p)
    /\ UNCHANGED <<clock, stream, lost>>

\* SET NX finds the key: return nil without publishing.
SetNXDuplicate(p) ==
    /\ pc[p] = "setnx"
    /\ Exists(Fingerprint(event[p]))
    /\ Return(p, "deduplicated")
    /\ UNCHANGED <<clock, attempt, dedupe, stream, history>>

\* SET NX fails for the program: it never arrived, or its reply is lost.
SetNXFails(p) ==
    \/ "request" \in Faults /\ UNCHANGED dedupe
    \/ "reply" \in Faults /\ IF Exists(Fingerprint(event[p]))
                              THEN UNCHANGED dedupe ELSE SetKey(Fingerprint(event[p]))

\* Mutant: a failing SET NX is taken for a duplicate, although it may have set the key.
SetNXErrorSilent(p) ==
    /\ pc[p] = "setnx"
    /\ SetNXFails(p)
    /\ Return(p, "deduplicated")
    /\ UNCHANGED <<clock, attempt, stream, history>>

\* SET NX fails: it is logged and the event published unchecked.
SetNXError(p) ==
    /\ pc[p] = "setnx"
    /\ SetNXFails(p)
    /\ EnterRetryLoop(p)
    /\ UNCHANGED <<clock, stream, history>>

\* go-redis loses the reply to a command that took effect and is about to send it again.
Repeat(p) ==
    /\ "reply" \in Faults
    /\ repeats[p] < ClientRetries
    /\ repeats' = [repeats EXCEPT ![p] = @ + 1]
    /\ UNCHANGED <<pc, event, attempt, calls, returned>>

\* The repeated SET NX will find the key that the call itself has set.
SetNXRepeated(p) ==
    /\ pc[p] = "setnx"
    /\ ~Exists(Fingerprint(event[p]))
    /\ SetKey(Fingerprint(event[p]))
    /\ Repeat(p)
    /\ UNCHANGED <<clock, stream, history>>

Entry(p) == [cluster |-> ClusterOf[p], subject |-> event[p].subject, time |-> event[p].time,
             call |-> <<p, calls[p]>>, claim |-> claim[p]]

\* Mutant: the loop looks at lastErr, so a success after a failure is tried again.
XAddOKSticky(p) ==
    /\ pc[p] = "xadd"
    /\ stream' = Append(stream, Entry(p))
    /\ attempt' = [attempt EXCEPT ![p] = @ + 1]
    /\ CASE attempt[p] = 0 -> Return(p, "published")
         [] attempt[p] > 0 /\ attempt[p] + 1 >= MaxRetries -> Return(p, "failed")
         [] OTHER -> UNCHANGED <<pc, event, repeats, calls, returned>>
    /\ UNCHANGED <<clock, dedupe, history>>

XAddOK(p) ==
    /\ pc[p] = "xadd"
    /\ stream' = Append(stream, Entry(p))
    /\ Return(p, "published")
    /\ UNCHANGED <<clock, attempt, dedupe, history>>

LastAttempt(p) == attempt[p] + 1 = MaxRetries

\* XADD takes effect and its reply is lost.
AppendUnheard(p) ==
    /\ stream' = Append(stream, Entry(p))
    /\ lost' = [lost EXCEPT ![p] = @ + 1]

\* XADD fails, with or without effect; after a pause the loop tries again, or the call gives up.
XAddError(p) ==
    /\ pc[p] = "xadd"
    /\ \/ "request" \in Faults /\ UNCHANGED <<stream, lost>>
       \/ "reply" \in Faults /\ AppendUnheard(p)
    /\ attempt' = [attempt EXCEPT ![p] = @ + 1]
    /\ IF LastAttempt(p)
       THEN Return(p, "failed")
       ELSE repeats' = [repeats EXCEPT ![p] = 0] /\ UNCHANGED <<pc, event, calls, returned>>
    /\ UNCHANGED <<clock, dedupe, claim>>

\* Every repeated XADD adds an entry of its own.
XAddRepeated(p) ==
    /\ pc[p] = "xadd"
    /\ AppendUnheard(p)
    /\ Repeat(p)
    /\ UNCHANGED <<clock, dedupe, claim>>

\* The process stops during the call and starts anew.
Crash(p) ==
    /\ "crash" \in Faults
    /\ pc[p] # "idle"
    /\ Return(p, "crashed")
    /\ UNCHANGED <<clock, attempt, dedupe, stream, history>>

Call(p) ==
    \/ SetNXNew(p) \/ SetNXDuplicate(p) \/ SetNXError(p) \/ SetNXRepeated(p)
    \/ XAddOK(p) \/ XAddError(p) \/ XAddRepeated(p)

Next ==
    \/ Tick
    \/ \E p \in Publishers :
         \/ \E s \in Subjects : Publish(p, s)
         \/ Call(p)
         \/ Crash(p)

\* A call goes on until it returns; nothing makes a partition produce another event.
Spec == Init /\ [][Next]_vars /\ \A p \in Publishers : WF_vars(Call(p))

-----------------------------------------------------------------------------
(* Properties *)

\* Entries of the latest call of p.
EntriesOf(p) == {i \in 1..Len(stream) : stream[i].call = <<p, calls[p]>>}

\* Deduplication across publishers and restarts: two calls that SET NX let through for the same
\* subject and time window were let through at least DeDupeWindow apart.
DedupeHolds ==
    \A i, j \in 1..Len(stream) :
        (/\ i < j
         /\ Fingerprint(stream[i]) = Fingerprint(stream[j])
         /\ stream[i].call # stream[j].call
         /\ Unchecked \notin {stream[i].claim, stream[j].claim})
        => \/ stream[j].claim - stream[i].claim >= DeDupeWindow
           \/ stream[i].claim - stream[j].claim >= DeDupeWindow

\* How often an XADD of the program is sent, at most.
Tries == 1 + ClientRetries

\* What a call returns agrees with the stream: nil means the entry is there, once more for each
\* reply that was lost to the program or to go-redis, or that the call added none; an error means
\* that only entries whose reply was lost are there. MaxRetries does not bound the entries of a call,
\* as go-redis multiplies it.
ReturnMatchesStream ==
    \A p \in Publishers :
        /\ returned[p] = "published" => Cardinality(EntriesOf(p)) = 1 + lost[p]
        /\ returned[p] = "deduplicated" => EntriesOf(p) = {}
        /\ returned[p] = "failed" => Cardinality(EntriesOf(p)) = lost[p]
        /\ Cardinality(EntriesOf(p)) <= MaxRetries * Tries

\* README.md:47, "Manages independent collectors per Kafka cluster": an event is only called a
\* duplicate of an event of its own cluster, published or about to be.
ClustersIndependent ==
    \A p \in Publishers : returned[p] = "deduplicated" =>
        \/ \E i \in 1..Len(stream) : /\ stream[i].cluster = ClusterOf[p]
                                    /\ Fingerprint(stream[i]) = Fingerprint(event[p])
        \/ \E q \in Publishers : /\ ClusterOf[q] = ClusterOf[p] /\ pc[q] = "xadd"
                                /\ Fingerprint(event[q]) = Fingerprint(event[p])
=============================================================================
