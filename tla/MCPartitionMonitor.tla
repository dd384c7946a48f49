-------------------------- MODULE MCPartitionMonitor --------------------------
(* Small instances of PartitionMonitor; the unit of time is five seconds. *)
EXTENDS PartitionMonitor

Half == <<1, 2>>         \* 0.1 msg/s
Hundred == <<100, 1>>    \* 20 msg/s
TenPercent == <<1, 10>>

\* README.md:174, the third end-to-end scenario: "Consumer stops for 60s, then resumes ->
\* triggers consumer_stopped then consumer_recovered".
SixtySeconds == 12
StopAnnounced ==
    (wasActive /\ verdict.lag > 0 /\ now - lastMove >= SixtySeconds) =>
        \E i \in 1..Len(events) : events[i].type = "consumer_stopped"
=============================================================================
