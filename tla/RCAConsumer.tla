----------------------------- MODULE RCAConsumer -----------------------------
(***************************************************************************)
(* The RCA consumers of internal/rca/consumer/consumer.go (run by          *)
(* cmd/rca/main.go), members of one Redis consumer group on one stream.    *)
(* Redis is external: a group has the id it has delivered up to and the    *)
(* set of entries delivered but not acknowledged, XREADGROUP with ">" only *)
(* delivers new entries, and a command may be lost before or after it took *)
(* effect.  One that go-redis repeats because its reply was lost needs no  *)
(* action: a repeated XREADGROUP is a lost one and the next, a repeated    *)
(* XACK changes nothing, and a repeated XGROUP CREATE finds the group.     *)
(* Entries are numbers; an entry is invalid when its event is missing or   *)
(* is not JSON.  Handlers only log, and their errors are swallowed.        *)
(***************************************************************************)
EXTENDS Integers, Sequences, FiniteSets

CONSTANTS
    Consumers,    \* ConsumerNames
    BatchSize,    \* config.BatchSize
    Faults,       \* subset of {"request", "reply", "crash"}
    MaxMessages   \* bound on the length of the stream

ASSUME ConsumerAssumption ==
    /\ BatchSize \in Nat \ {0} /\ MaxMessages \in Nat
    /\ Faults \subseteq {"request", "reply", "crash"}

VARIABLES
    stream,         \* Redis: the entries, each "valid" or "invalid"
    groupExists,    \* Redis: the consumer group has been created
    lastDelivered,  \* Redis: last-delivered-id of the group
    pel,            \* Redis: entries delivered and not acknowledged
    pc,             \* where a consumer process is
    batch,          \* messages read and not yet processed
    cancelled,      \* the context of a consumer is cancelled (SIGINT, SIGTERM)
    handled         \* history: what a consumer's handlers were given, in order

redis == <<stream, groupExists, lastDelivered, pel>>
vars == <<redis, pc, batch, cancelled, handled>>

Ids == 1..Len(stream)

Init ==
    /\ stream = <<>> /\ groupExists = FALSE /\ lastDelivered = 0 /\ pel = {}
    /\ pc = [c \in Consumers |-> "down"]
    /\ batch = [c \in Consumers |-> <<>>]
    /\ cancelled = [c \in Consumers |-> FALSE]
    /\ handled = [c \in Consumers |-> <<>>]

\* A publisher adds an entry.
Add(kind) ==
    /\ Len(stream) < MaxMessages
    /\ stream' = Append(stream, kind)
    /\ UNCHANGED <<groupExists, lastDelivered, pel, pc, batch, cancelled, handled>>

-----------------------------------------------------------------------------
(* Start *)

\* The process is started, for the first time or again.
Launch(c) ==
    /\ pc[c] \in {"down", "refused"}
    /\ pc' = [pc EXCEPT ![c] = "create"]
    /\ cancelled' = [cancelled EXCEPT ![c] = FALSE]
    /\ UNCHANGED <<redis, batch, handled>>

\* Mutant: the group starts at the end of the stream ("$").
FirstIdEnd == Len(stream)

\* The group is created with id "0": everything in the stream is new to it.
FirstId == 0

\* XGROUP CREATE creates the group, and the consume loop begins.
CreateGroup(c) ==
    /\ pc[c] = "create"
    /\ ~groupExists
    /\ groupExists' = TRUE
    /\ lastDelivered' = FirstId
    /\ pc' = [pc EXCEPT ![c] = "select"]
    /\ UNCHANGED <<stream, pel, batch, cancelled, handled>>

\* XGROUP CREATE fails.  Redis answers "BUSYGROUP Consumer Group name already exists" when the
\* group exists, which is not the text Start compares with: Start returns and main exits.
CreateGroupError(c) ==
    /\ pc[c] = "create"
    /\ \/ groupExists /\ UNCHANGED <<groupExists, lastDelivered>>
       \/ (cancelled[c] \/ "request" \in Faults) /\ UNCHANGED <<groupExists, lastDelivered>>
       \/ /\ cancelled[c] \/ "reply" \in Faults
          /\ ~groupExists
          /\ groupExists' = TRUE /\ lastDelivered' = FirstId
    /\ pc' = [pc EXCEPT ![c] = "refused"]
    /\ UNCHANGED <<stream, pel, batch, cancelled, handled>>

\* Mutant: the context is only looked at before the first entry.
DoneEarly(c) ==
    /\ pc[c] = "select"
    /\ cancelled[c]
    /\ lastDelivered = 0
    /\ pc' = [pc EXCEPT ![c] = "down"]
    /\ UNCHANGED <<redis, batch, cancelled, handled>>

\* case <-ctx.Done(): Start returns and main exits.
Done(c) ==
    /\ pc[c] = "select"
    /\ cancelled[c]
    /\ pc' = [pc EXCEPT ![c] = "down"]
    /\ UNCHANGED <<redis, batch, cancelled, handled>>

\* default: consumeBatch
Poll(c) ==
    /\ pc[c] = "select"
    /\ ~cancelled[c]
    /\ pc' = [pc EXCEPT ![c] = "read"]
    /\ UNCHANGED <<redis, batch, cancelled, handled>>

-----------------------------------------------------------------------------
(* consumeBatch *)

\* Mutant: entries that are pending are read again (id "0" instead of ">").
NewEntriesAgain ==
    LET from == IF pel = {} THEN lastDelivered + 1 ELSE CHOOSE i \in pel : \A j \in pel : i <= j
        to == IF from + BatchSize - 1 < Len(stream) THEN from + BatchSize - 1 ELSE Len(stream)
    IN  [k \in 1..(to - from + 1) |-> from + k - 1]

\* What XREADGROUP > delivers: the next entries of the stream, at most Count.
NewEntries ==
    LET last == IF lastDelivered + BatchSize < Len(stream) THEN lastDelivered + BatchSize
                                                           ELSE Len(stream)
    IN  [k \in 1..(last - lastDelivered) |-> lastDelivered + k]

\* Redis hands out the new entries.
Deliver ==
    /\ pel' = pel \cup {NewEntries[k] : k \in DOMAIN NewEntries}
    /\ lastDelivered' = IF NewEntries = <<>> THEN lastDelivered ELSE NewEntries[Len(NewEntries)]

\* XREADGROUP answers; without new entries it is redis.Nil after BlockTimeout.
ReadGroup(c) ==
    /\ pc[c] = "read"
    /\ Deliver
    /\ batch' = [batch EXCEPT ![c] = NewEntries]
    /\ pc' = [pc EXCEPT ![c] = IF NewEntries = <<>> THEN "select" ELSE "process"]
    /\ UNCHANGED <<stream, groupExists, cancelled, handled>>

\* XREADGROUP fails, because the context is cancelled, or on the way to Redis or back.  The
\* client gives up on a cancelled context even if Redis has run the command.
ReadGroupError(c) ==
    /\ pc[c] = "read"
    /\ \/ (cancelled[c] \/ "request" \in Faults) /\ UNCHANGED <<pel, lastDelivered>>
       \/ (cancelled[c] \/ "reply" \in Faults) /\ Deliver
    /\ pc' = [pc EXCEPT ![c] = "select"]
    /\ UNCHANGED <<stream, groupExists, batch, cancelled, handled>>

\* The loop over the messages goes on, or the batch is done.
NextMessage(c) ==
    /\ batch' = [batch EXCEPT ![c] = Tail(@)]
    /\ pc' = [pc EXCEPT ![c] = IF Len(batch[c]) > 1 THEN "process" ELSE "select"]

\* Mutant: a message that could not be processed is acknowledged all the same.
ProcessInvalidAcks(c) ==
    /\ pc[c] = "process"
    /\ stream[Head(batch[c])] = "invalid"
    /\ pc' = [pc EXCEPT ![c] = "ack"]
    /\ UNCHANGED <<redis, batch, cancelled, handled>>

\* processMessage fails: the message is logged and stays pending.
ProcessInvalid(c) ==
    /\ pc[c] = "process"
    /\ stream[Head(batch[c])] = "invalid"
    /\ NextMessage(c)
    /\ UNCHANGED <<redis, cancelled, handled>>

\* processMessage gives the event to every handler.
ProcessValid(c) ==
    /\ pc[c] = "process"
    /\ stream[Head(batch[c])] = "valid"
    /\ handled' = [handled EXCEPT ![c] = Append(@, Head(batch[c]))]
    /\ pc' = [pc EXCEPT ![c] = "ack"]
    /\ UNCHANGED <<redis, batch, cancelled>>

AckOK(c) ==
    /\ pc[c] = "ack"
    /\ pel' = pel \ {Head(batch[c])}
    /\ NextMessage(c)
    /\ UNCHANGED <<stream, groupExists, lastDelivered, cancelled, handled>>

\* XACK fails, with or without effect: it is logged.
AckError(c) ==
    /\ pc[c] = "ack"
    /\ \/ (cancelled[c] \/ "request" \in Faults) /\ UNCHANGED pel
       \/ (cancelled[c] \/ "reply" \in Faults) /\ pel' = pel \ {Head(batch[c])}
    /\ NextMessage(c)
    /\ UNCHANGED <<stream, groupExists, lastDelivered, cancelled, handled>>

-----------------------------------------------------------------------------

\* SIGINT or SIGTERM
Cancel(c) ==
    /\ pc[c] \notin {"down", "refused"}
    /\ ~cancelled[c]
    /\ cancelled' = [cancelled EXCEPT ![c] = TRUE]
    /\ UNCHANGED <<redis, pc, batch, handled>>

\* The process dies; its messages stay pending.
Crash(c) ==
    /\ "crash" \in Faults
    /\ pc[c] \notin {"down", "refused"}
    /\ pc' = [pc EXCEPT ![c] = "down"]
    /\ batch' = [batch EXCEPT ![c] = <<>>]
    /\ UNCHANGED <<redis, cancelled, handled>>

Run(c) ==
    \/ CreateGroup(c) \/ CreateGroupError(c) \/ Done(c) \/ Poll(c)
    \/ ReadGroup(c) \/ ReadGroupError(c)
    \/ ProcessInvalid(c) \/ ProcessValid(c) \/ AckOK(c) \/ AckError(c)

Next ==
    \/ \E kind \in {"valid", "invalid"} : Add(kind)
    \/ \E c \in Consumers : Launch(c) \/ Run(c) \/ Cancel(c) \/ Crash(c)

\* A process is started when it is down and keeps running, and Redis, asked again and again, does
\* not fail every time.
Fairness ==
    \A c \in Consumers :
        /\ WF_vars(Launch(c)) /\ WF_vars(Run(c))
        /\ SF_vars(CreateGroup(c)) /\ SF_vars(ReadGroup(c))

Spec == Init /\ [][Next]_vars /\ Fairness

-----------------------------------------------------------------------------
(* Properties *)

WasHandled(i) == \E c \in Consumers : \E k \in DOMAIN handled[c] : handled[c][k] = i

\* An entry leaves the pending list only after the handlers have seen it: a delivered entry that
\* was not handled can still be found there.
UnhandledStaysPending ==
    \A i \in 1..lastDelivered : i \notin pel => WasHandled(i)

\* Whatever is lost or acknowledged late, no event reaches the handlers twice, and a consumer gives
\* them events in the order of the stream.  Only the process that created the group ever consumes,
\* see CreateGroupError; that two of them would not share an event matters once that is mended.
HandledOnceInOrder ==
    \A c, d \in Consumers : \A k \in DOMAIN handled[c], m \in DOMAIN handled[d] :
        /\ c # d => handled[c][k] # handled[d][m]
        /\ c = d /\ k < m => handled[c][k] < handled[c][m]

\* No process is in the consume loop although there is a group.
NobodyConsumes == groupExists /\ \A c \in Consumers : pc[c] \in {"down", "create", "refused"}

\* Delivered in a reply nobody received, or to a process that is gone.
Orphaned(i) ==
    i \in pel /\ \A c \in Consumers : \A k \in DOMAIN batch[c] : batch[c][k] # i

\* Every valid entry is handled, those from before the group was created and those behind an invalid
\* entry or a failed acknowledgement included, unless a fault leaves it pending with nobody, the
\* consumer of the group is gone or a consumer is told to stop.
EveryEventHandled ==
    \A i \in 1..MaxMessages :
        (i <= Len(stream) /\ stream[i] = "valid")
            ~> (WasHandled(i) \/ Orphaned(i) \/ NobodyConsumes \/ \E c \in Consumers : cancelled[c])

\* A cancelled consumer stops, after the batch it is working on.
ConsumerStops == \A c \in Consumers : cancelled[c] ~> pc[c] \in {"down", "refused"}

\* consumer.go:50, "Create consumer group if not exists": a consumer that asks for a group which is
\* there, and is not told to stop, does not give up.
ExistingGroupAccepted ==
    [][\A c \in Consumers :
         (pc[c] = "create" /\ groupExists /\ ~cancelled[c]) => pc'[c] # "refused"]_vars
=============================================================================
