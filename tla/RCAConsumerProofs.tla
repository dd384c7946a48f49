--------------------------- MODULE RCAConsumerProofs ---------------------------
(* Proofs about RCAConsumer, for every number of consumers, every batch size, *)
(* any combination of faults and a stream of any length.                      *)
EXTENDS RCAConsumer, SequenceTheorems, TLAPS

-----------------------------------------------------------------------------
(* Types *)

TypeOK ==
    /\ stream \in Seq({"valid", "invalid"})
    /\ groupExists \in BOOLEAN
    /\ lastDelivered \in Nat /\ lastDelivered <= Len(stream)
    /\ ~groupExists => lastDelivered = 0
    /\ pc \in [Consumers -> {"down", "refused", "create", "select", "read", "process", "ack"}]
    /\ batch \in [Consumers -> Seq(Nat)]
    /\ handled \in [Consumers -> Seq(Nat)]
    /\ \A c \in Consumers : pc[c] \in {"process", "ack"} => Len(batch[c]) > 0
    /\ \A c \in Consumers : pc[c] \in {"select", "read", "process", "ack"} => groupExists

\* XREADGROUP > delivers the entries that follow the last one delivered, up to an entry of the
\* stream, and nothing else.
LEMMA NewEntriesFollow ==
    ASSUME TypeOK
    PROVE  \E last \in lastDelivered..Len(stream) :
              /\ NewEntries \in Seq(Nat)
              /\ Len(NewEntries) = last - lastDelivered
              /\ \A k \in 1..Len(NewEntries) : NewEntries[k] = lastDelivered + k
              /\ Deliver => lastDelivered' = last /\ pel' = pel \cup (lastDelivered + 1)..last
<1> USE ConsumerAssumption
<1> DEFINE last == IF lastDelivered + BatchSize < Len(stream) THEN lastDelivered + BatchSize ELSE Len(stream)
<1>1. lastDelivered \in Nat /\ last \in Nat /\ lastDelivered <= last /\ last <= Len(stream)
  BY DEF TypeOK
<1>2. NewEntries = [k \in 1..(last - lastDelivered) |-> lastDelivered + k]
  BY DEF NewEntries
<1> HIDE DEF last
<1>3. last - lastDelivered \in Nat
  BY <1>1
<1>4. NewEntries \in Seq(Nat) /\ Len(NewEntries) = last - lastDelivered
  BY <1>1, <1>2, <1>3
<1>5. \A k \in 1..Len(NewEntries) : NewEntries[k] = lastDelivered + k
  BY <1>2, <1>4
<1>6. {NewEntries[k] : k \in DOMAIN NewEntries} = (lastDelivered + 1)..last
  <2>1. DOMAIN NewEntries = 1..(last - lastDelivered)
    BY <1>2
  <2>2. ASSUME NEW i \in (lastDelivered + 1)..last PROVE i \in {NewEntries[k] : k \in DOMAIN NewEntries}
    <3>1. i - lastDelivered \in 1..(last - lastDelivered) /\ i = lastDelivered + (i - lastDelivered)
      BY <1>1
    <3> QED BY <1>2, <2>1, <3>1
  <2>3. ASSUME NEW k \in DOMAIN NewEntries PROVE NewEntries[k] \in (lastDelivered + 1)..last
    BY <1>1, <1>2, <2>1
  <2> QED BY <2>2, <2>3
<1>7. ASSUME Deliver PROVE lastDelivered' = last
  <2>1. CASE last = lastDelivered
    <3>1. NewEntries = <<>>
      BY <1>1, <1>4, <2>1
    <3> QED BY <1>7, <2>1, <3>1 DEF Deliver
  <2>2. CASE last # lastDelivered
    <3>1. NewEntries # <<>> /\ Len(NewEntries) \in 1..Len(NewEntries)
      BY <1>1, <1>4, <2>2
    <3> QED BY <1>1, <1>4, <1>5, <1>7, <3>1 DEF Deliver
  <2> QED BY <2>1, <2>2
<1> QED BY <1>1, <1>4, <1>5, <1>6, <1>7 DEF Deliver

\* Before any consumer is launched, with an empty stream and no group, everything has its type.
LEMMA TypeInit == Init => TypeOK
<1> SUFFICES ASSUME Init PROVE TypeOK
  OBVIOUS
<1>1. <<>> \in Seq(Nat) /\ <<>> \in Seq({"valid", "invalid"}) /\ Len(<<>>) = 0
  BY EmptySeq
<1>2. batch \in [Consumers -> Seq(Nat)] /\ handled \in [Consumers -> Seq(Nat)]
  BY <1>1, Zenon DEF Init
<1>3. stream \in Seq({"valid", "invalid"}) /\ Len(stream) = 0
  BY <1>1, Zenon DEF Init
<1> HIDE DEF Init
<1>4. lastDelivered = 0 /\ groupExists = FALSE /\ pc = [c \in Consumers |-> "down"]
  BY DEF Init
<1>5. \A c \in Consumers : pc[c] = "down"
  BY <1>4
<1>6. groupExists \in BOOLEAN
  BY <1>4, Zenon
<1>8. lastDelivered \in Nat /\ lastDelivered <= Len(stream)
  BY <1>3, <1>4
<1>7. pc \in [Consumers -> {"down", "refused", "create", "select", "read", "process", "ack"}]
  BY <1>4
<1> QED BY <1>2, <1>3, <1>4, <1>5, <1>6, <1>7, <1>8 DEF TypeOK

\* Going on to the next message of a batch drops its first one.
LEMMA NextOfBatch ==
    ASSUME NEW s \in Seq(Nat), Len(s) > 0
    PROVE  /\ Len(s) \in Nat /\ Head(s) = s[1] /\ Head(s) \in Nat
           /\ Tail(s) \in Seq(Nat) /\ Len(Tail(s)) = Len(s) - 1
           /\ \A k \in 1..Len(Tail(s)) : Tail(s)[k] = s[k + 1]
<1>1. s # <<>>
  <2>1. s = <<>> => Len(s) = 0
    BY EmptySeq, Zenon
  <2> QED BY <2>1
<1> QED BY <1>1, HeadTailProperties, LenProperties

\* Every step keeps the types, and the loop over a batch only goes on while there are messages.
LEMMA TypeStep == TypeOK /\ [Next]_vars => TypeOK'
<1> SUFFICES ASSUME TypeOK, [Next]_vars PROVE TypeOK'
  OBVIOUS
<1> USE DEF redis
<1>1. ASSUME NEW kind \in {"valid", "invalid"}, Add(kind) PROVE TypeOK'
  BY <1>1 DEF Add, TypeOK
<1>2. ASSUME NEW c \in Consumers, Launch(c) \/ CreateGroup(c) \/ CreateGroupError(c) PROVE TypeOK'
  BY <1>2 DEF Launch, CreateGroup, CreateGroupError, FirstId, TypeOK
<1>3. ASSUME NEW c \in Consumers, Done(c) \/ Poll(c) \/ Cancel(c) PROVE TypeOK'
  BY <1>3 DEF Done, Poll, Cancel, TypeOK
<1>4. ASSUME NEW c \in Consumers, ReadGroup(c) PROVE TypeOK'
  <2>1. PICK last \in lastDelivered..Len(stream) :
              /\ NewEntries \in Seq(Nat)
              /\ NewEntries # <<>> => Len(NewEntries) > 0
              /\ Deliver => lastDelivered' = last
    BY NewEntriesFollow, EmptySeq
  <2>2. lastDelivered' = last /\ last \in Nat /\ last <= Len(stream) /\ stream' = stream
    BY <1>4, <2>1 DEF ReadGroup, TypeOK
  <2>3. groupExists' = groupExists /\ groupExists
    BY <1>4 DEF ReadGroup, TypeOK
  <2> QED BY <1>4, <2>1, <2>2, <2>3 DEF ReadGroup, TypeOK
<1>5. ASSUME NEW c \in Consumers, ReadGroupError(c) PROVE TypeOK'
  <2>1. PICK last \in lastDelivered..Len(stream) : Deliver => lastDelivered' = last
    BY NewEntriesFollow
  <2>2. lastDelivered' \in {lastDelivered, last} /\ last \in Nat /\ last <= Len(stream) /\ stream' = stream
    BY <1>5, <2>1 DEF ReadGroupError, TypeOK
  <2>3. groupExists' = groupExists /\ groupExists
    BY <1>5 DEF ReadGroupError, TypeOK
  <2> QED BY <1>5, <2>2, <2>3 DEF ReadGroupError, TypeOK
<1>6. ASSUME NEW c \in Consumers, NextMessage(c), pc[c] \in {"process", "ack"},
             UNCHANGED <<stream, groupExists, lastDelivered, handled>>
      PROVE  TypeOK'
  <2>1. batch[c] \in Seq(Nat) /\ Len(batch[c]) > 0
    BY <1>6 DEF TypeOK
  <2>2. Tail(batch[c]) \in Seq(Nat) /\ (Len(batch[c]) > 1 => Len(Tail(batch[c])) > 0)
    BY <2>1, NextOfBatch
  <2> QED BY <1>6, <2>2 DEF NextMessage, TypeOK
<1>7. ASSUME NEW c \in Consumers, ProcessValid(c) PROVE TypeOK'
  <2>1. batch[c] \in Seq(Nat) /\ Len(batch[c]) > 0
    BY <1>7 DEF ProcessValid, TypeOK
  <2>2. Append(handled[c], Head(batch[c])) \in Seq(Nat)
    BY <2>1, NextOfBatch DEF TypeOK
  <2> QED BY <1>7, <2>1, <2>2 DEF ProcessValid, TypeOK
<1>8. ASSUME NEW c \in Consumers, Crash(c) PROVE TypeOK'
  BY <1>8 DEF Crash, TypeOK
<1>9. ASSUME UNCHANGED vars PROVE TypeOK'
  BY <1>9 DEF vars, TypeOK
<1> QED
  BY <1>1, <1>2, <1>3, <1>4, <1>5, <1>6, <1>7, <1>8, <1>9
     DEF Next, Run, ProcessInvalid, AckOK, AckError

-----------------------------------------------------------------------------
(* What a consumer holds and what it has handled *)

Ascending(s) == \A k, m \in 1..Len(s) : k < m => s[k] < s[m]
UpTo(s, n) == \A k \in 1..Len(s) : s[k] \in 1..n
Apart(s, t) == \A k \in 1..Len(s), m \in 1..Len(t) : s[k] # t[m]

\* Every entry of s comes before the entries of t, those at the first positions up to done not counted.
Before(s, t, done) == \A k \in 1..Len(s), m \in 1..Len(t) : m > done => s[k] < t[m]

\* The number of messages of the batch that the handlers have seen: the one being acknowledged.
Seen(at) == IF at = "ack" THEN 1 ELSE 0

\* A consumer at `at', with batch b, whose handlers saw h, when the group has delivered up to n.
InOrder(b, h, at, n) ==
    /\ Ascending(b) /\ UpTo(b, n)
    /\ Ascending(h) /\ UpTo(h, n)
    /\ Before(h, b, Seen(at))
    /\ at = "ack" => \E k \in 1..Len(h) : h[k] = b[1]

\* Nothing one consumer holds or has handled is held or was handled by another.
Strangers(b, h, b2, h2) == Apart(b, b2) /\ Apart(h, h2) /\ Apart(h, b2) /\ Apart(h2, b)

OrderInv ==
    /\ \A c \in Consumers : InOrder(batch[c], handled[c], pc[c], lastDelivered)
    /\ \A c, d \in Consumers : c # d => Strangers(batch[c], handled[c], batch[d], handled[d])

\* Later deliveries change nothing for a consumer that is at another place of its loop.
LEMMA InOrderMonotonic ==
    ASSUME NEW b \in Seq(Nat), NEW h \in Seq(Nat), NEW at, NEW at2, NEW m \in Nat, NEW n \in Nat,
           m <= n, at2 = at \/ (at # "ack" /\ at2 # "ack"), InOrder(b, h, at, m)
    PROVE  InOrder(b, h, at2, n)
  BY DEF InOrder, UpTo, Seen

\* The step of consumer c leaves the others alone: it is enough to look at what c holds.
LEMMA OrderFromOne ==
    ASSUME TypeOK, TypeOK', OrderInv, NEW c \in Consumers, lastDelivered <= lastDelivered',
           \A d \in Consumers \ {c} : batch'[d] = batch[d] /\ handled'[d] = handled[d] /\ pc'[d] = pc[d],
           InOrder(batch'[c], handled'[c], pc'[c], lastDelivered'),
           \A d \in Consumers \ {c} : Strangers(batch'[c], handled'[c], batch[d], handled[d])
    PROVE  OrderInv'
<1>1. ASSUME NEW d \in Consumers PROVE InOrder(batch'[d], handled'[d], pc'[d], lastDelivered')
  <2>1. CASE d # c
    <3>1. InOrder(batch[d], handled[d], pc[d], lastDelivered)
      BY DEF OrderInv
    <3>2. batch[d] \in Seq(Nat) /\ handled[d] \in Seq(Nat) /\ lastDelivered \in Nat /\ lastDelivered' \in Nat
      BY DEF TypeOK
    <3> QED BY <2>1, <3>1, <3>2, InOrderMonotonic
  <2> QED BY <2>1
<1>2. \A b, h, b2, h2 : Strangers(b, h, b2, h2) => Strangers(b2, h2, b, h)
  BY DEF Strangers, Apart
<1>3. ASSUME NEW d \in Consumers, NEW e \in Consumers, d # e
      PROVE  Strangers(batch'[d], handled'[d], batch'[e], handled'[e])
  <2>1. CASE d # c /\ e # c
    BY <1>3, <2>1 DEF OrderInv
  <2>2. CASE d = c
    BY <1>3, <2>2
  <2>3. CASE e = c
    BY <1>2, <1>3, <2>3
  <2> QED BY <2>1, <2>2, <2>3
<1> QED BY <1>1, <1>3 DEF OrderInv

\* A consumer that neither reads, handles nor drops anything keeps the order.
LEMMA OrderKept ==
    ASSUME TypeOK, TypeOK', OrderInv, NEW c \in Consumers, lastDelivered <= lastDelivered',
           UNCHANGED <<batch, handled>>,
           \A d \in Consumers \ {c} : pc'[d] = pc[d],
           pc'[c] = pc[c] \/ (pc[c] # "ack" /\ pc'[c] # "ack")
    PROVE  OrderInv'
<1>1. InOrder(batch[c], handled[c], pc[c], lastDelivered)
      /\ \A d \in Consumers \ {c} : Strangers(batch[c], handled[c], batch[d], handled[d])
  BY DEF OrderInv
<1>2. batch[c] \in Seq(Nat) /\ handled[c] \in Seq(Nat) /\ lastDelivered \in Nat /\ lastDelivered' \in Nat
  BY DEF TypeOK
<1>3. InOrder(batch'[c], handled'[c], pc'[c], lastDelivered')
  BY <1>1, <1>2, InOrderMonotonic
<1> QED BY <1>1, <1>3, OrderFromOne

\* New entries come after everything that anybody holds or has handled.
LEMMA OrderRead ==
    ASSUME TypeOK, TypeOK', OrderInv, NEW c \in Consumers, ReadGroup(c)
    PROVE  OrderInv'
<1>1. PICK last \in lastDelivered..Len(stream) :
          /\ NewEntries \in Seq(Nat)
          /\ Len(NewEntries) = last - lastDelivered
          /\ \A k \in 1..Len(NewEntries) : NewEntries[k] = lastDelivered + k
          /\ Deliver => lastDelivered' = last
  BY NewEntriesFollow
<1>2. /\ lastDelivered' = last /\ handled' = handled /\ batch'[c] = NewEntries /\ pc'[c] # "ack"
      /\ \A d \in Consumers \ {c} : batch'[d] = batch[d] /\ pc'[d] = pc[d]
  BY <1>1 DEF ReadGroup, TypeOK
<1>3. lastDelivered \in Nat /\ last \in Nat /\ lastDelivered <= last
  BY <1>1 DEF TypeOK
<1>4. \A d \in Consumers : UpTo(batch[d], lastDelivered) /\ UpTo(handled[d], lastDelivered) /\ Ascending(handled[d])
  BY DEF OrderInv, InOrder
<1>5. \A d \in Consumers : batch[d] \in Seq(Nat) /\ handled[d] \in Seq(Nat)
  BY DEF TypeOK
<1> DEFINE new == NewEntries
<1> HIDE DEF new
<1>6. new \in Seq(Nat) /\ \A k \in 1..Len(new) : new[k] \in 1..last /\ new[k] > lastDelivered /\ new[k] = lastDelivered + k
  BY <1>1, <1>3 DEF new
<1>7. Ascending(new) /\ UpTo(new, last)
  BY <1>3, <1>6 DEF Ascending, UpTo
<1>8. ASSUME NEW s \in Seq(Nat), UpTo(s, lastDelivered) PROVE Before(s, new, 0) /\ Apart(new, s) /\ Apart(s, new)
  <2>1. \A k \in 1..Len(s), m \in 1..Len(new) : s[k] < new[m] /\ s[k] # new[m]
    <3> SUFFICES ASSUME NEW k \in 1..Len(s), NEW m \in 1..Len(new) PROVE s[k] < new[m] /\ s[k] # new[m]
      OBVIOUS
    <3>1. s[k] \in 1..lastDelivered
      BY <1>8 DEF UpTo
    <3>2. new[m] \in Int /\ new[m] > lastDelivered
      BY <1>3, <1>6
    <3> QED BY <1>3, <3>1, <3>2
  <2> QED BY <2>1 DEF Before, Apart
<1>9. UpTo(handled[c], last)
  BY <1>3, <1>4 DEF UpTo
<1>10. InOrder(batch'[c], handled'[c], pc'[c], lastDelivered')
  BY <1>2, <1>4, <1>5, <1>7, <1>8, <1>9 DEF InOrder, Seen, new
<1>11. \A d \in Consumers \ {c} : Strangers(batch'[c], handled'[c], batch[d], handled[d])
  BY <1>2, <1>4, <1>5, <1>8 DEF OrderInv, Strangers, new
<1> QED BY <1>2, <1>3, <1>10, <1>11, OrderFromOne

\* Dropping the first message, which the handlers have seen or never will, keeps the order.
LEMMA OrderNext ==
    ASSUME TypeOK, TypeOK', OrderInv, NEW c \in Consumers, pc[c] \in {"process", "ack"}, NextMessage(c),
           UNCHANGED <<lastDelivered, handled>>
    PROVE  OrderInv'
<1> DEFINE b == batch[c]  h == handled[c]  t == Tail(batch[c])
<1>1. b \in Seq(Nat) /\ Len(b) > 0 /\ h \in Seq(Nat) /\ lastDelivered \in Nat
  BY DEF TypeOK
<1>2. /\ handled' = handled /\ batch'[c] = t /\ pc'[c] # "ack"
      /\ \A d \in Consumers \ {c} : batch'[d] = batch[d] /\ pc'[d] = pc[d]
  BY DEF NextMessage, TypeOK
<1>3. InOrder(b, h, pc[c], lastDelivered) /\ \A d \in Consumers \ {c} : Strangers(b, h, batch[d], handled[d])
  BY DEF OrderInv
<1>4. /\ Len(b) \in Nat /\ t \in Seq(Nat) /\ Len(t) = Len(b) - 1
      /\ \A k \in 1..Len(t) : t[k] = b[k + 1]
  BY <1>1, NextOfBatch
<1> HIDE DEF b, h, t
<1>5. \A k \in 1..Len(t) : k + 1 \in 1..Len(b) /\ t[k] = b[k + 1] /\ b[k + 1] \in Nat
  BY <1>1, <1>4
<1>6. Ascending(t) /\ UpTo(t, lastDelivered)
  BY <1>3, <1>5 DEF InOrder, Ascending, UpTo
<1>7. Before(h, t, 0)
  BY <1>1, <1>3, <1>5 DEF InOrder, Before, Seen
<1>8. InOrder(batch'[c], handled'[c], pc'[c], lastDelivered')
  BY <1>2, <1>3, <1>6, <1>7 DEF InOrder, Seen, h
<1>9. \A d \in Consumers \ {c} : Strangers(t, h, batch[d], handled[d])
  BY <1>3, <1>5 DEF Strangers, Apart
<1> QED BY <1>1, <1>2, <1>8, <1>9, OrderFromOne DEF h

\* The handlers see a message that is after all they have seen, and that nobody else holds.
LEMMA OrderProcess ==
    ASSUME TypeOK, TypeOK', OrderInv, NEW c \in Consumers, ProcessValid(c)
    PROVE  OrderInv'
<1> DEFINE b == batch[c]  h == handled[c]  g == Append(handled[c], Head(batch[c]))
<1>1. b \in Seq(Nat) /\ Len(b) > 0 /\ h \in Seq(Nat) /\ lastDelivered \in Nat /\ pc[c] = "process"
  BY DEF TypeOK, ProcessValid
<1>2. /\ handled'[c] = g /\ batch' = batch /\ pc'[c] = "ack" /\ lastDelivered' = lastDelivered
      /\ \A d \in Consumers \ {c} : handled'[d] = handled[d] /\ pc'[d] = pc[d]
  BY DEF ProcessValid, TypeOK, redis
<1>3. InOrder(b, h, "process", lastDelivered) /\ \A d \in Consumers \ {c} : Strangers(b, h, batch[d], handled[d])
  BY <1>1 DEF OrderInv
<1>4. Len(b) \in Nat /\ Head(b) = b[1] /\ b[1] \in Nat /\ 1 \in 1..Len(b)
  BY <1>1, NextOfBatch
<1>5. /\ g \in Seq(Nat) /\ Len(h) \in Nat /\ Len(g) = Len(h) + 1 /\ g[Len(h) + 1] = b[1]
      /\ \A k \in 1..Len(h) : g[k] = h[k] /\ h[k] \in Nat
  BY <1>1, <1>4
<1> HIDE DEF b, h, g
<1>6. \A k \in 1..Len(g) : (k \in 1..Len(h) /\ g[k] = h[k]) \/ (k = Len(h) + 1 /\ g[k] = b[1])
  BY <1>5
<1>7. \A k \in 1..Len(h) : h[k] < b[1]
  BY <1>3, <1>4 DEF InOrder, Before, Seen
<1>8. Ascending(g) /\ UpTo(g, lastDelivered)
  <2>1. Ascending(h) /\ UpTo(h, lastDelivered) /\ b[1] \in 1..lastDelivered
    BY <1>3, <1>4 DEF InOrder, UpTo
  <2>2. ASSUME NEW k \in 1..Len(g), NEW m \in 1..Len(g), k < m PROVE g[k] < g[m]
    <3>1. k \in 1..Len(h) /\ g[k] = h[k]
      BY <1>5, <2>2
    <3>2. CASE m \in 1..Len(h)
      BY <1>5, <2>1, <2>2, <3>1, <3>2 DEF Ascending
    <3>3. CASE m = Len(h) + 1
      BY <1>5, <1>7, <3>1, <3>3
    <3> QED BY <1>6, <3>2, <3>3
  <2>3. UpTo(g, lastDelivered)
    BY <1>6, <2>1 DEF UpTo
  <2> QED BY <2>2, <2>3 DEF Ascending
<1>9. Before(g, b, 1)
  <2> SUFFICES ASSUME NEW k \in 1..Len(g), NEW m \in 1..Len(b), m > 1 PROVE g[k] < b[m]
    BY DEF Before
  <2>1. b[1] < b[m]
    BY <1>3, <1>4 DEF InOrder, Ascending
  <2>2. ASSUME k \in 1..Len(h) PROVE h[k] < b[m]
    BY <1>3, <2>2 DEF InOrder, Before, Seen
  <2> QED BY <1>6, <2>1, <2>2
<1>10. \E k \in 1..Len(g) : g[k] = b[1]
  <2>1. Len(h) + 1 \in 1..Len(g)
    BY <1>5
  <2> QED BY <1>5, <2>1
<1>11. InOrder(batch'[c], handled'[c], pc'[c], lastDelivered')
  BY <1>2, <1>3, <1>8, <1>9, <1>10 DEF InOrder, Seen, b
<1>12. \A d \in Consumers \ {c} : Strangers(b, g, batch[d], handled[d])
  BY <1>3, <1>4, <1>6 DEF Strangers, Apart
<1> QED BY <1>1, <1>2, <1>11, <1>12, OrderFromOne DEF b

\* Every step keeps what consumers hold and have handled in the order of the stream and apart.
LEMMA OrderStep == TypeOK /\ TypeOK' /\ OrderInv /\ [Next]_vars => OrderInv'
<1> SUFFICES ASSUME TypeOK, TypeOK', OrderInv, [Next]_vars PROVE OrderInv'
  OBVIOUS
<1> USE DEF redis
<1>1. ASSUME UNCHANGED <<lastDelivered, pc, batch, handled>> PROVE OrderInv'
  BY <1>1 DEF OrderInv
<1>2. ASSUME NEW c \in Consumers, Launch(c) \/ CreateGroup(c) \/ CreateGroupError(c) \/ Done(c) \/ Poll(c)
      PROVE  OrderInv'
  <2>1. /\ UNCHANGED <<batch, handled>> /\ lastDelivered <= lastDelivered'
        /\ \A d \in Consumers \ {c} : pc'[d] = pc[d]
        /\ pc[c] # "ack" /\ pc'[c] # "ack"
    BY <1>2 DEF Launch, CreateGroup, CreateGroupError, FirstId, Done, Poll, TypeOK
  <2> QED BY <2>1, OrderKept
<1>3. ASSUME NEW c \in Consumers, ReadGroupError(c) PROVE OrderInv'
  <2>1. PICK last \in lastDelivered..Len(stream) : Deliver => lastDelivered' = last
    BY NewEntriesFollow
  <2>2. lastDelivered <= lastDelivered'
    BY <1>3, <2>1 DEF ReadGroupError, TypeOK
  <2>3. /\ UNCHANGED <<batch, handled>>
        /\ \A d \in Consumers \ {c} : pc'[d] = pc[d]
        /\ pc[c] # "ack" /\ pc'[c] # "ack"
    BY <1>3 DEF ReadGroupError, TypeOK
  <2> QED BY <2>2, <2>3, OrderKept
<1>4. ASSUME NEW c \in Consumers, ReadGroup(c) PROVE OrderInv'
  BY <1>4, OrderRead
<1>5. ASSUME NEW c \in Consumers, ProcessInvalid(c) \/ AckOK(c) \/ AckError(c) PROVE OrderInv'
  BY <1>5, OrderNext DEF ProcessInvalid, AckOK, AckError
<1>6. ASSUME NEW c \in Consumers, ProcessValid(c) PROVE OrderInv'
  BY <1>6, OrderProcess
<1>7. ASSUME NEW c \in Consumers, Crash(c) PROVE OrderInv'
  <2>1. /\ handled' = handled /\ batch'[c] = <<>> /\ pc'[c] = "down" /\ lastDelivered' = lastDelivered
        /\ \A d \in Consumers \ {c} : batch'[d] = batch[d] /\ pc'[d] = pc[d]
    BY <1>7 DEF Crash, TypeOK
  <2>2. Len(batch'[c]) = 0
    BY <2>1, EmptySeq, Zenon
  <2>3. InOrder(batch[c], handled[c], pc[c], lastDelivered)
        /\ \A d \in Consumers \ {c} : Strangers(batch[c], handled[c], batch[d], handled[d])
    BY DEF OrderInv
  <2>4. InOrder(batch'[c], handled[c], "down", lastDelivered)
    BY <2>2, <2>3 DEF InOrder, Ascending, UpTo, Before
  <2>5. \A d \in Consumers \ {c} : Strangers(batch'[c], handled[c], batch[d], handled[d])
    BY <2>2, <2>3 DEF Strangers, Apart
  <2>6. lastDelivered <= lastDelivered'
    BY <2>1 DEF TypeOK
  <2> QED BY <2>1, <2>4, <2>5, <2>6, OrderFromOne
<1> QED
  BY <1>1, <1>2, <1>3, <1>4, <1>5, <1>6, <1>7 DEF Next, Run, Add, Cancel, vars

\* Before the first read nobody holds anything.
LEMMA OrderInit == Init => OrderInv
<1> SUFFICES ASSUME Init PROVE OrderInv
  OBVIOUS
<1>1. \A c \in Consumers : Len(batch[c]) = 0 /\ Len(handled[c]) = 0 /\ pc[c] = "down"
  BY EmptySeq DEF Init
<1> QED BY <1>1 DEF OrderInv, InOrder, Strangers, Ascending, UpTo, Before, Apart

\* What was handled by one consumer is ascending, and nobody else handled it.
LEMMA OrderMeansOnce == TypeOK /\ OrderInv => HandledOnceInOrder
<1> SUFFICES ASSUME TypeOK, OrderInv PROVE HandledOnceInOrder
  OBVIOUS
<1>1. \A c \in Consumers : DOMAIN handled[c] = 1..Len(handled[c])
  BY DEF TypeOK
<1>2. \A c \in Consumers : Ascending(handled[c])
  BY DEF OrderInv, InOrder
<1>3. \A c, d \in Consumers : c # d => Apart(handled[c], handled[d])
  BY DEF OrderInv, Strangers
<1> QED BY <1>1, <1>2, <1>3 DEF HandledOnceInOrder, Ascending, Apart

\* No event reaches the handlers twice, and each consumer gives them events in the order of the
\* stream, for any number of consumers, any batch size and all faults (consumer.go:49-187).
THEOREM HandledOnce == Spec => []HandledOnceInOrder
BY OrderMeansOnce, OrderInit, TypeInit, TypeStep, OrderStep, PTL DEF Spec

-----------------------------------------------------------------------------
(* Pending entries *)

\* What was handled is never forgotten, and XACK only removes what was handled.
LEMMA PendingStep == TypeOK /\ TypeOK' /\ OrderInv /\ UnhandledStaysPending /\ [Next]_vars => UnhandledStaysPending'
<1> SUFFICES ASSUME TypeOK, TypeOK', OrderInv, UnhandledStaysPending, [Next]_vars,
                    NEW i \in 1..lastDelivered', i \notin pel'
             PROVE  WasHandled(i)'
  BY DEF UnhandledStaysPending
<1> USE DEF redis
<1>1. ASSUME handled' = handled, lastDelivered' = lastDelivered, pel' = pel PROVE WasHandled(i)'
  BY <1>1 DEF UnhandledStaysPending, WasHandled
<1>2. ASSUME NEW c \in Consumers, CreateGroup(c) \/ CreateGroupError(c) PROVE WasHandled(i)'
  <2>1. handled' = handled /\ lastDelivered' = lastDelivered /\ pel' = pel
    BY <1>2 DEF CreateGroup, CreateGroupError, FirstId, TypeOK
  <2> QED BY <1>1, <2>1
<1>3. ASSUME Deliver, handled' = handled PROVE WasHandled(i)'
  <2>1. PICK last \in lastDelivered..Len(stream) :
            lastDelivered' = last /\ pel' = pel \cup (lastDelivered + 1)..last
    BY <1>3, NewEntriesFollow
  <2>2. i \in 1..lastDelivered /\ i \notin pel
    BY <2>1 DEF TypeOK
  <2> QED BY <1>3, <2>2 DEF UnhandledStaysPending, WasHandled
<1>4. ASSUME NEW c \in Consumers, ProcessValid(c) PROVE WasHandled(i)'
  <2>1. i \in 1..lastDelivered /\ i \notin pel
    BY <1>4 DEF ProcessValid
  <2>2. PICK d \in Consumers : \E k \in DOMAIN handled[d] : handled[d][k] = i
    BY <2>1 DEF UnhandledStaysPending, WasHandled
  <2>3. PICK k \in DOMAIN handled[d] : handled[d][k] = i
    BY <2>2
  <2>4. k \in DOMAIN handled'[d] /\ handled'[d][k] = handled[d][k]
    <3>1. CASE d # c
      BY <1>4, <3>1 DEF ProcessValid, TypeOK
    <3>2. CASE d = c
      <4>1. handled[c] \in Seq(Nat) /\ handled'[c] = Append(handled[c], Head(batch[c]))
        BY <1>4 DEF ProcessValid, TypeOK
      <4>2. Head(batch[c]) \in Nat
        BY <1>4, NextOfBatch DEF ProcessValid, TypeOK
      <4> QED BY <2>3, <3>2, <4>1, <4>2
    <3> QED BY <3>1, <3>2
  <2> QED BY <2>3, <2>4 DEF WasHandled
<1>5. ASSUME NEW c \in Consumers, AckOK(c) \/ AckError(c) PROVE WasHandled(i)'
  <2>1. /\ handled' = handled /\ lastDelivered' = lastDelivered /\ pc[c] = "ack"
        /\ pel' = pel \/ pel' = pel \ {Head(batch[c])}
    BY <1>5 DEF AckOK, AckError
  <2>2. CASE i \notin pel
    BY <2>1, <2>2 DEF UnhandledStaysPending, WasHandled
  <2>3. CASE i = Head(batch[c])
    <3>1. PICK k \in 1..Len(handled[c]) : handled[c][k] = batch[c][1]
      BY <2>1 DEF OrderInv, InOrder
    <3>2. Head(batch[c]) = batch[c][1] /\ k \in DOMAIN handled[c]
      BY <2>1, NextOfBatch DEF TypeOK
    <3> QED BY <2>1, <2>3, <3>1, <3>2 DEF WasHandled
  <2> QED BY <2>1, <2>2, <2>3
<1> QED
  BY <1>1, <1>2, <1>3, <1>4, <1>5
     DEF Next, Run, Add, Cancel, vars, Launch, Done, Poll, ReadGroup, ReadGroupError, ProcessInvalid, Crash

\* A delivered entry that no handler saw is still pending, whatever replies are lost and whoever
\* crashes in the middle of a batch (consumer.go:117-141).
THEOREM UnhandledPending == Spec => []UnhandledStaysPending
<1>1. Init => UnhandledStaysPending
  BY DEF Init, UnhandledStaysPending
<1> QED BY <1>1, OrderInit, TypeInit, TypeStep, OrderStep, PendingStep, PTL DEF Spec
=============================================================================
