----------------------------- MODULE RCAPipeline -----------------------------
(***************************************************************************)
(* An event's way from the goroutines of a collection to the handlers:     *)
(* the hook of internal/cluster/helper.go, which every goroutine of a      *)
(* cluster calls and which holds one mutex while it publishes; the         *)
(* publisher (EventPublisher); the stream in Redis; and the consumers      *)
(* (RCAConsumer).  RemoveCluster or Stop may close the publisher's client  *)
(* under the hook; from then on its commands fail without effect.  The     *)
(* monitor may stop at any moment and start anew; the consumers are a      *)
(* program of their own.  What makes the analyzer publish is module        *)
(* PartitionMonitor; here the hook publishes any number of events before   *)
(* it returns, all of them within one deduplication window.  The commands  *)
(* of the consumers do not fail here and nobody stops them: module         *)
(* RCAConsumer has those faults.                                           *)
(***************************************************************************)
EXTENDS Integers, Sequences, FiniteSets

CONSTANTS
    Workers,                       \* goroutines of a collection that call the hook
    Publisher, Cluster,            \* the cluster and its publisher
    Subjects, DeDupeWindow, MaxRetries, ClientRetries, Faults, MaxCalls,   \* of the publisher
    Consumers, BatchSize                                                   \* of the consumers

\* What EventPublisher and RCAConsumer assume of their constants.
ASSUME PipelineAssumption ==
    /\ Subjects # {} /\ DeDupeWindow \in Nat \ {0} /\ MaxRetries \in Nat /\ ClientRetries \in Nat
    /\ MaxCalls \in Nat /\ Faults \subseteq {"request", "reply", "crash"}
    /\ BatchSize \in Nat \ {0}

VARIABLES
    mutex,     \* the worker that holds a.mu, or NoOne
    hook,      \* where a worker is: "out", "waiting" or "in" the hook
    closed,    \* the publisher's client is closed
    reported,  \* history: fingerprints of the events whose publication failed with an error
    orphaned,  \* history: fingerprints whose key a call set in Redis and left without an entry
    clock, ppc, event, attempt, repeats, calls, returned, dedupe, stream, claim, lost,
    groupExists, lastDelivered, pel, cpc, batch, cancelled, handled

hookVars == <<mutex, hook, closed>>
publisherVars == <<clock, ppc, event, attempt, repeats, calls, returned, dedupe, stream, claim, lost>>
consumerVars == <<groupExists, lastDelivered, pel, cpc, batch, cancelled, handled>>
log == <<reported, orphaned>>
vars == <<hookVars, log, publisherVars, consumerVars>>

NoOne == "noOne"

P == INSTANCE EventPublisher WITH
    Publishers <- {Publisher}, ClusterOf <- [p \in {Publisher} |-> Cluster],
    MaxClock <- 0, pc <- ppc

\* The publisher's entries are valid JSON.
C == INSTANCE RCAConsumer WITH
    Faults <- {}, MaxMessages <- MaxCalls * MaxRetries * (1 + ClientRetries), pc <- cpc,
    stream <- [i \in 1..Len(stream) |-> "valid"]

Init ==
    /\ mutex = NoOne /\ hook = [w \in Workers |-> "out"] /\ closed = FALSE /\ reported = {} /\ orphaned = {}
    /\ P!Init
    /\ C!Init

-----------------------------------------------------------------------------
(* analyzePartition *)

CallHook(w) ==
    /\ hook[w] = "out"
    /\ calls[Publisher] < MaxCalls
    /\ hook' = [hook EXCEPT ![w] = "waiting"]
    /\ UNCHANGED <<mutex, closed, log, publisherVars, consumerVars>>

\* a.mu.Lock()
Lock(w) ==
    /\ hook[w] = "waiting"
    /\ mutex = NoOne
    /\ mutex' = w
    /\ hook' = [hook EXCEPT ![w] = "in"]
    /\ UNCHANGED <<closed, log, publisherVars, consumerVars>>

\* The analyzer publishes an event and waits for PublishPartitionEvent.
PublishEvent(w, s) ==
    /\ mutex = w
    /\ P!Publish(Publisher, s)
    /\ UNCHANGED <<hookVars, log, consumerVars>>

\* Mutant: the mutex is kept when the latest publication has failed.
UnlockUnlessFailed(w) ==
    /\ mutex = w
    /\ ppc[Publisher] = "idle"
    /\ mutex' = IF returned[Publisher] = "failed" THEN w ELSE NoOne
    /\ hook' = [hook EXCEPT ![w] = "out"]
    /\ UNCHANGED <<closed, log, publisherVars, consumerVars>>

\* defer a.mu.Unlock()
Unlock(w) ==
    /\ mutex = w
    /\ ppc[Publisher] = "idle"
    /\ mutex' = NoOne
    /\ hook' = [hook EXCEPT ![w] = "out"]
    /\ UNCHANGED <<closed, log, publisherVars, consumerVars>>

Mine == P!Fingerprint(event[Publisher])

\* A step of PublishPartitionEvent; an error it returns is logged.
Publishing ==
    /\ P!Call(Publisher)
    /\ closed => dedupe' = dedupe /\ stream' = stream /\ returned'[Publisher] \in {"none", "failed"}
    /\ reported' = IF returned'[Publisher] = "failed"
                   THEN reported \cup {Mine} ELSE reported
    /\ orphaned' = IF returned'[Publisher] = "deduplicated" /\ repeats[Publisher] > 0
                   THEN orphaned \cup {Mine} ELSE orphaned   \* it found its own key
    /\ UNCHANGED <<hookVars, consumerVars>>

\* RCAPublisher.Close()
ClosePublisher ==
    /\ ~closed
    /\ closed' = TRUE
    /\ UNCHANGED <<mutex, hook, log, publisherVars, consumerVars>>

\* The monitor stops, perhaps between SET NX and XADD, and starts anew.
Crash ==
    /\ "crash" \in Faults
    /\ mutex' = NoOne
    /\ hook' = [w \in Workers |-> "out"]
    /\ closed' = FALSE
    /\ IF ppc[Publisher] = "idle" THEN UNCHANGED publisherVars ELSE P!Crash(Publisher)
    /\ orphaned' = IF \/ ppc[Publisher] = "setnx" /\ repeats[Publisher] > 0
                      \/ ppc[Publisher] = "xadd" /\ lost[Publisher] = 0
                   THEN orphaned \cup {Mine} ELSE orphaned
    /\ UNCHANGED <<reported, consumerVars>>

-----------------------------------------------------------------------------
(* The consumers *)

Launch(c) == UNCHANGED <<hookVars, log, publisherVars>> /\ C!Launch(c)
Run(c) == UNCHANGED <<hookVars, log, publisherVars>> /\ C!Run(c)

-----------------------------------------------------------------------------
Next ==
    \/ \E w \in Workers : CallHook(w) \/ Lock(w) \/ Unlock(w) \/ \E s \in Subjects : PublishEvent(w, s)
    \/ Publishing \/ ClosePublisher \/ Crash
    \/ \E c \in Consumers : Launch(c) \/ Run(c)

\* A Go mutex that is released again and again goes to everyone who waits for it; the analyzer's
\* hook, a call of the publisher and a consumer go on.
Fairness ==
    /\ \A w \in Workers : SF_vars(Lock(w)) /\ WF_vars(Unlock(w))
    /\ WF_vars(Publishing)
    /\ \A c \in Consumers : WF_vars(Launch(c)) /\ WF_vars(Run(c))

Spec == Init /\ [][Next]_vars /\ Fairness

-----------------------------------------------------------------------------
(* Properties *)

\* A notification is a place in what a consumer's handlers were given, Heard the entry there.
Notifications == UNION {{<<c, k>> : k \in DOMAIN handled[c]} : c \in Consumers}
Heard(x) == stream[handled[x[1]][x[2]]]

\* Deduplication and delivery together: the handlers hear twice of the same subject only through
\* two entries, and only if the publisher lost a reply to XADD in the call that wrote both, or one
\* of the calls published although its SET NX had failed.
HeardOnce ==
    \A x, y \in Notifications :
        (x # y /\ P!Fingerprint(Heard(x)) = P!Fingerprint(Heard(y))) =>
            /\ handled[x[1]][x[2]] # handled[y[1]][y[2]]
            /\ \/ P!Unchecked \in {Heard(x).claim, Heard(y).claim}
               \/ Heard(x).call = Heard(y).call
            /\ Heard(x).call = Heard(y).call /\ Heard(x).call = <<Publisher, calls[Publisher]>>
                => lost[Publisher] > 0

\* A goroutine of a collection gets out of the hook, although one mutex is held across all Redis
\* retries of all groups of the cluster and the publisher may be closed under it: each is out of it
\* again and again.
HookReturns == \A w \in Workers : []<>(hook[w] = "out")

\* An event that is suppressed as a duplicate does not vanish: the handlers hear of an event with
\* its fingerprint in the end, or the log says that publishing one failed. Two things, and nothing
\* else that Redis, go-redis, a restart or a closed client may do, make an exception: a call that
\* took its own key, which go-redis had set, for that of another, and a restart between SET NX and
\* XADD.
DuplicateIsHeardOrReported ==
    \A fp \in P!Fingerprints :
        (returned[Publisher] = "deduplicated" /\ Mine = fp)
            ~> \/ fp \in reported \/ fp \in orphaned
               \/ \E x \in Notifications : P!Fingerprint(Heard(x)) = fp

\* An event whose publication succeeded reaches a handler, the events published before the consumer
\* was started included.
PublishedIsHeard ==
    \A n \in 1..MaxCalls :
        (calls[Publisher] = n /\ returned[Publisher] = "published")
            ~> \E x \in Notifications : Heard(x).call = <<Publisher, n>>
=============================================================================
