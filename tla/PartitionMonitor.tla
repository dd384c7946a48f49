--------------------------- MODULE PartitionMonitor ---------------------------
(***************************************************************************)
(* One partition of one consumer group as the collector sees it over time: *)
(* each check reads the offsets from Kafka, adds a record to the window,   *)
(* evaluates it (module LagEvaluator) and runs the RCA hook, which is      *)
(* EvaluatorWithRCA of internal/publisher/analyzer.go.  The hook runs under*)
(* one mutex and a partition is checked by one goroutine at a time, so a   *)
(* check is one step.  Whether a publication succeeds is a free choice     *)
(* here; module EventPublisher says how it comes about.                    *)
(***************************************************************************)
EXTENDS LagEvaluator

CONSTANTS
    WindowSize,     \* config.WindowSize
    CheckInterval,  \* config.CheckInterval
    Cooldown,       \* the 5*time.Minute of detectAndPublishEvents
    Gaps,           \* intervals from one check to the next; above 1 when a collection failed
    Produced,       \* what the high watermark may move by between two checks
    Reliable,       \* no publication fails
    Consumed,       \* what the committed offset may move by between two checks
    MaxTime         \* bound on the time of the last check

ASSUME MonitorAssumption ==
    /\ WindowSize \in Nat \ {0} /\ CheckInterval \in Nat \ {0} /\ Cooldown \in Nat
    /\ Gaps \subseteq Nat \ {0} /\ Produced \subseteq Int /\ Consumed \subseteq Int
    /\ MaxTime \in Nat /\ Reliable \in BOOLEAN

VARIABLES
    now,            \* time of the latest check
    highWatermark,  \* Kafka: the partition's high watermark
    committed,      \* Kafka: the group's committed offset
    window,         \* records of the PartitionWindow
    verdict,        \* the latest PartitionConsumerStatus
    previousStatus, \* e.previousStatuses[key], or NoStatus
    lastEventTime,  \* e.lastEventTime[key], or Never
    events,         \* history: the events published for this partition
    lastMove,       \* history: time of the check that first saw the present offset
    sightings,      \* history: number of checks in a row that saw it
    wasActive       \* history: some check said ACTIVE or LAGGING

vars == <<now, highWatermark, committed, window, verdict, previousStatus, lastEventTime, events,
          lastMove, sightings, wasActive>>

NoStatus == "none"
NoEvent == "none"
Never == -1
Init ==
    /\ now = 0 /\ highWatermark = 0 /\ committed = 0
    /\ window = <<>>
    /\ verdict = EvaluatePartitionConsumer(<<>>)
    /\ previousStatus = NoStatus
    /\ lastEventTime = Never
    /\ events = <<>>
    /\ lastMove = 0 /\ sightings = 0 /\ wasActive = FALSE

-----------------------------------------------------------------------------
(* Kafka between two checks *)

\* A consumer commits at most up to the high watermark, unless the topic shrank under it.
Commit(offset, by, watermark) ==
    Max({0, Min({offset + by, Max({watermark, offset})})})

\* evaluatePartition: lag, never negative, and the record of this check.
NewRecord(offset, watermark, t) ==
    [offset |-> offset, highWatermark |-> watermark, time |-> t,
     lag |-> IF watermark < offset THEN 0 ELSE watermark - offset]

\* addToWindow
AddToWindow(w, r) ==
    LET longer == Append(w, r)
    IN  IF Len(longer) > WindowSize THEN Tail(longer) ELSE longer

-----------------------------------------------------------------------------
(* EvaluatorWithRCA *)

\* Mutant: the cooldown is over one interval early.
CoolingDownShort(t) == lastEventTime # Never /\ t - lastEventTime < Cooldown - CheckInterval

CoolingDown(t) == lastEventTime # Never /\ t - lastEventTime < Cooldown

\* The event publishStatusChangeEvent sends for a change of status, if any.
StatusChangeEvent(from, to) ==
    CASE from \in {NoStatus, to} -> NoEvent
      [] from # to /\ to = "STOPPED" /\ from \in {"ACTIVE", "LAGGING"} -> "consumer_stopped"
      [] from # to /\ to = "STALLED" /\ from = "ACTIVE" -> "consumer_stalled"
      [] from # to /\ to \in {"ACTIVE", "EMPTY"} /\ from \in {"STOPPED", "STALLED"} -> "consumer_recovered"
      [] OTHER -> NoEvent

RapidLagIncrease(v) ==
    /\ Less(<<2 * RapidRate[1], RapidRate[2]>>, v.lagChangeRate)
    /\ v.lag > LargeLag

LagCleared(v, w) == v.lag = 0 /\ Len(w) > 2 /\ w[Len(w) - 1].lag > LargeLag

\* The events a check wants to publish, and those of them whose publication succeeds.
Wanted(v, w) ==
    ({StatusChangeEvent(previousStatus, v.status)} \ {NoEvent})
    \cup {e \in {"rapid_lag_increase"} : RapidLagIncrease(v)}
    \cup {e \in {"lag_cleared"} : LagCleared(v, w)}
Outcomes(wanted) == IF Reliable THEN {wanted} ELSE SUBSET wanted

\* detectAndPublishEvents.  PublishPartitionEvent returns nil for the events in `published` and an
\* error for the others, which are not tried again; lag_cleared does not touch lastEventTime.
DetectAndPublishEvents(v, w, t) ==
    IF CoolingDown(t)
    THEN UNCHANGED <<previousStatus, lastEventTime, events>>
    ELSE \E published \in Outcomes(Wanted(v, w)) :
           LET Only(e) == IF e \in published THEN <<[type |-> e, time |-> t]>> ELSE <<>>
           IN  /\ events' = events \o Only(StatusChangeEvent(previousStatus, v.status))
                                   \o Only("rapid_lag_increase") \o Only("lag_cleared")
               /\ lastEventTime' = IF published \ {"lag_cleared"} # {} THEN t ELSE lastEventTime
               /\ previousStatus' = v.status

Check(gap, made, took) ==
    LET t == now + gap * CheckInterval
        watermark == Max({0, highWatermark + made})
        offset == Commit(committed, took, watermark)
        w == AddToWindow(window, NewRecord(offset, watermark, t))
        v == EvaluatePartitionConsumer(w)
        moved == window = <<>> \/ offset # committed
    IN  /\ t <= MaxTime
        /\ now' = t
        /\ highWatermark' = watermark
        /\ committed' = offset
        /\ window' = w
        /\ verdict' = v
        /\ DetectAndPublishEvents(v, w, t)
        /\ lastMove' = IF moved THEN t ELSE lastMove
        /\ sightings' = IF moved THEN 1 ELSE sightings + 1
        /\ wasActive' = (wasActive \/ v.status \in {"ACTIVE", "LAGGING"})

Next == \E gap \in Gaps, made \in Produced, took \in Consumed : Check(gap, made, took)

Spec == Init /\ [][Next]_vars /\ WF_vars(Next)

-----------------------------------------------------------------------------
(* Properties *)

\* A window that is shorter than the timeout can never show that it has passed.
WindowSpansTimeout == (WindowSize - 1) * CheckInterval > InactivityTimeout

\* STOPPED, computed from a sliding window, says exactly this about the whole history: there is
\* lag, the offset has not moved for longer than InactivityTimeout, and the last five checks (or
\* all there were) saw the same offset.
StoppedIsExact ==
    WindowSpansTimeout /\ ~Insufficient(window) /\ Len(window) >= 2 =>
        (verdict.status = "STOPPED" <=>
            /\ verdict.lag > 0
            /\ now - lastMove > InactivityTimeout
            /\ sightings >= Min({RecentRecords, Len(window)}))

\* A consumer that stands still or has caught up is never called ACTIVE or LAGGING, however fast the
\* lag grows or grew: both mean that there is lag and that the last five checks (or all there were)
\* did not see one and the same offset.
MovingIsReal ==
    verdict.status \in {"ACTIVE", "LAGGING"} =>
        verdict.lag > 0 /\ sightings < Min({RecentRecords, Len(window)})

\* A trend never contradicts a window in which the lag only grew or only shrank.
TrendFollowsLag ==
    LET n == Len(window)
    IN  /\ (\A i \in 1..(n - 1) : window[i].lag <= window[i + 1].lag) => verdict.trend # "DECREASING"
        /\ (\A i \in 1..(n - 1) : window[i].lag >= window[i + 1].lag) => verdict.trend # "INCREASING"

\* The cooldown separates the events it is meant for: unless they come from one check, two of them
\* are at least Cooldown apart, whatever the statuses do meanwhile.
EventsSpaced ==
    \A i, j \in 1..Len(events) :
        (i < j /\ "lag_cleared" \notin {events[i].type, events[j].type}) =>
            events[i].time = events[j].time \/ events[j].time - events[i].time >= Cooldown

-----------------------------------------------------------------------------
(* Inductive invariants, for the proofs of PartitionMonitorProofs *)

Record == [offset : Nat, highWatermark : Nat, time : Nat, lag : Nat]

TypeOK ==
    /\ now \in Nat /\ highWatermark \in Nat /\ committed \in Nat
    /\ window \in Seq(Record)
    /\ verdict = EvaluatePartitionConsumer(window)
    /\ lastEventTime \in Nat \cup {Never}
    /\ lastMove \in Nat /\ sightings \in Nat

\* The time k checks take when none is missed.
Intervals(k) == k * CheckInterval

\* The records of a window are a check apart, the latest of them at or before t.
Spaced(w, t) == \A i \in 1..Len(w) : t - w[i].time >= Intervals(Len(w) - i)

\* What a window w says of an offset that was seen `seen` times in a row, first at time since: the
\* records of the sightings that fit, the one before them, and times that are a check apart.
Remembers(w, offset, t, since, seen) ==
    LET n == Len(w)
    IN  /\ n <= WindowSize
        /\ n = 0 <=> seen = 0
        /\ n > 0 => w[n].time = t
        /\ \A i \in 1..n : i > n - seen => w[i].offset = offset
        /\ seen < n => w[n - seen].offset # offset
        /\ seen \in 1..n => w[n - seen + 1].time = since
        /\ seen > n => n = WindowSize
        /\ seen > 0 => t - since >= Intervals(seen - 1)
        /\ Spaced(w, t)

HistoryInv == Remembers(window, committed, now, lastMove, sightings)

EventType ==
    {"consumer_stopped", "consumer_stalled", "consumer_recovered", "rapid_lag_increase", "lag_cleared"}
Event == [type : EventType, time : Nat]

\* lastEventTime is the time of the latest event that counts for the cooldown.
EventInv ==
    /\ events \in Seq(Event)
    /\ lastEventTime <= now
    /\ \A i \in 1..Len(events) : events[i].type # "lag_cleared" =>
          lastEventTime # Never /\ events[i].time <= lastEventTime
    /\ EventsSpaced
=============================================================================
