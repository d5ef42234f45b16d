-------------------------- MODULE LiveStreamProofs --------------------------
(***************************************************************************)
(* The live stream implements the event log, for every number of readers,   *)
(* every capacity and every number of events.                               *)
(***************************************************************************)
EXTENDS LiveStream, TLAPS

StreamInv == StreamTypeOK /\ BacklogNumbered /\ ClosedIsFinal

\* The channel keeps at least one value (LivePublisher::new normalizes zero).
LEMMA CapacityPositive == ChannelCapacity \in Nat /\ ChannelCapacity >= 1
BY LiveStreamAssumption DEF ChannelCapacity

\* What one send does to the channel: nothing without a receiver, else one more
\* position, holding the value, and no other value changed
\* (live/stream.rs, send_if_subscribed).
LEMMA SendEffect ==
    ASSUME StreamTypeOK, NEW value \in Nat, SenderSend(value)
    PROVE  /\ tail' \in Nat
           /\ kept' \in [Oldest'..tail' - 1 -> Nat]
           /\ Receivers = {} => UNCHANGED <<tail, kept>>
           /\ Receivers # {} =>
                  /\ tail' = tail + 1
                  /\ \A p \in Oldest'..tail' - 1 :
                         kept'[p] = IF p = tail THEN value ELSE kept[p]
                  /\ \A p \in Oldest'..tail - 1 : p \in Oldest..tail - 1
<1>1. CASE Receivers = {}
  BY Zenon, <1>1 DEF SenderSend, StreamTypeOK, Oldest
<1>2. CASE Receivers # {}
  <2>1. tail' = tail + 1
    BY Zenon, <1>2 DEF SenderSend
  <2>2. /\ Oldest' = IF tail + 1 < ChannelCapacity THEN 0
                     ELSE tail + 1 - ChannelCapacity
        /\ tail' - 1 = tail
    BY <2>1, LiveStreamAssumption DEF Oldest, ChannelCapacity, StreamTypeOK
  <2>3. kept' = [p \in Oldest'..tail' - 1 |-> IF p = tail THEN value ELSE kept[p]]
    BY Zenon, <1>2, <2>2 DEF SenderSend
  <2>4. \A p \in Oldest'..tail - 1 : p \in Oldest..tail - 1
    BY <2>1, <2>2, CapacityPositive DEF Oldest, StreamTypeOK
  <2>5. ASSUME NEW p \in Oldest'..tail' - 1
        PROVE  (IF p = tail THEN value ELSE kept[p]) \in Nat
    <3>1. CASE p = tail
      BY Zenon, <3>1
    <3>2. CASE p # tail
      <4>1. p \in Oldest'..tail - 1
        BY <3>2, <2>1, <2>2, CapacityPositive DEF StreamTypeOK
      <4> QED BY <4>1, <3>2, <2>4 DEF StreamTypeOK
    <3> QED BY <3>1, <3>2
  <2> QED BY <1>2, <2>1, <2>3, <2>4, <2>5 DEF StreamTypeOK
<1> QED BY <1>1, <1>2

\* One event more, sent if the channel is there: the backlog of every receiver
\* grows by that event, and no reader has accounted for it yet
\* (live/stream.rs, apply_and_emit and close_with_terminal_event).
LEMMA EmitEffect ==
    ASSUME StreamInv, ~closed,
           sequence' = sequence + 1, UNCHANGED <<sub, next>>,
           IF sender = "held" THEN SenderSend(sequence + 1)
                              ELSE UNCHANGED <<tail, kept>>
    PROVE  /\ tail' \in Nat /\ kept' \in [Oldest'..tail' - 1 -> Nat]
           /\ BacklogNumbered' /\ Cursor' = Cursor
<1> USE DEF StreamInv
<1>1. sequence \in Nat /\ sequence + 1 \in Nat /\ tail \in Nat
  BY DEF StreamTypeOK
<1>2. Receivers' = Receivers
  BY Zenon DEF Receivers
<1>3. CASE Receivers = {}
  <2>1. tail' \in Nat /\ kept' \in [Oldest'..tail' - 1 -> Nat]
    <3>1. CASE sender = "held"
      BY Zenon, <3>1, <1>1, SendEffect
    <3>2. CASE sender # "held"
      BY Zenon, <3>2, LiveStreamAssumption DEF StreamTypeOK, Oldest, ChannelCapacity
    <3> QED BY <3>1, <3>2
  <2>2. BacklogNumbered'
    BY Zenon, <1>2, <1>3 DEF BacklogNumbered
  <2>3. Cursor' = Cursor
    <3>1. \A r \in Readers : sub[r] = "none"
      BY Zenon, <1>3 DEF Receivers, ClosedIsFinal, StreamTypeOK
    <3> QED BY <3>1 DEF Cursor
  <2> QED BY <2>1, <2>2, <2>3
<1>4. CASE Receivers # {}
  <2>1. sender = "held"
    BY Zenon, <1>4 DEF ClosedIsFinal, StreamTypeOK
  <2>2. /\ tail' \in Nat /\ kept' \in [Oldest'..tail' - 1 -> Nat]
        /\ tail' = tail + 1
        /\ \A p \in Oldest'..tail' - 1 :
               kept'[p] = IF p = tail THEN sequence + 1 ELSE kept[p]
        /\ \A p \in Oldest'..tail - 1 : p \in Oldest..tail - 1
    BY Zenon, <2>1, <1>1, <1>4, SendEffect
  <2>3. BacklogNumbered'
    <3> SUFFICES ASSUME NEW r \in Receivers
                 PROVE  /\ next[r] <= tail' /\ tail' - next[r] <= sequence'
                        /\ \A p \in next[r]..tail' - 1 :
                               p \in DOMAIN kept' => kept'[p] = sequence' - tail' + p + 1
      BY Zenon, <1>2 DEF BacklogNumbered
    <3>1. /\ next[r] \in Nat /\ next[r] <= tail /\ tail - next[r] <= sequence
          /\ \A p \in next[r]..tail - 1 :
                 p \in DOMAIN kept => kept[p] = sequence - tail + p + 1
      BY Zenon DEF BacklogNumbered, Receivers, StreamTypeOK
    <3>2. DOMAIN kept' = Oldest'..tail' - 1 /\ DOMAIN kept = Oldest..tail - 1
      BY Zenon, <2>2 DEF StreamTypeOK
    <3>3. ASSUME NEW p \in next[r]..tail' - 1, p \in DOMAIN kept'
          PROVE  kept'[p] = sequence' - tail' + p + 1
      <4>1. CASE p = tail
        BY <4>1, <3>2, <3>3, <2>2, <1>1
      <4>2. CASE p # tail
        <5>0. p \in Int /\ Oldest' \in Int
          BY <2>2, LiveStreamAssumption DEF Oldest, ChannelCapacity
        <5>1. p \in next[r]..tail - 1 /\ p \in Oldest'..tail - 1
          BY <4>2, <5>0, <3>2, <3>3, <2>2, <1>1, <3>1
        <5>2. p \in DOMAIN kept /\ kept'[p] = kept[p]
          BY Zenon, <5>1, <4>2, <3>2, <3>3, <2>2
        <5> QED BY <5>1, <5>2, <3>1, <2>2, <1>1
      <4> QED BY <4>1, <4>2
    <3> QED BY <3>1, <3>3, <2>2, <1>1
  <2>4. Cursor' = Cursor
    <3>1. ASSUME NEW r \in Readers
          PROVE  /\ sub[r] # "stillborn" /\ next[r] \in Nat
                 /\ sequence' - (tail' - next[r]) = sequence - (tail - next[r])
      BY <2>2, <1>1 DEF ClosedIsFinal, StreamTypeOK
    <3> QED BY <3>1 DEF Cursor, StreamTypeOK
  <2> QED BY <2>2, <2>3, <2>4
<1> QED BY <1>3, <1>4

\* The inductive invariant holds initially.
LEMMA StreamInitInv == StreamInit => StreamInv
<1> SUFFICES ASSUME StreamInit PROVE StreamInv
  BY Zenon
<1>1. Oldest = 0 /\ tail - 1 = -1
  BY CapacityPositive DEF StreamInit, Oldest
<1>2. kept \in [Oldest..tail - 1 -> Nat]
  BY Zenon, <1>1 DEF StreamInit
<1>3. StreamTypeOK
  BY <1>2, Zenon DEF StreamInit, StreamTypeOK, Outcome, Nothing, None
<1>4. BacklogNumbered /\ ClosedIsFinal
  BY Zenon DEF StreamInit, BacklogNumbered, ClosedIsFinal, Receivers
<1> QED BY <1>3, <1>4 DEF StreamInv

\* A step of the publisher that emits keeps the invariant; closing is the one
\* that makes it final.
LEMMA EmitKeepsInv ==
    ASSUME StreamInv, ~closed, view' \in Nat,
           sequence' = sequence + 1, UNCHANGED <<sub, next, got>>,
           IF sender = "held" THEN SenderSend(sequence + 1)
                              ELSE UNCHANGED <<tail, kept>>,
           \/ closed' = FALSE /\ sender' = sender
           \/ /\ closed' = TRUE
              /\ sender' = IF sender = "held" THEN "dropped" ELSE sender
    PROVE  StreamInv'
<1>1. /\ tail' \in Nat /\ kept' \in [Oldest'..tail' - 1 -> Nat]
      /\ BacklogNumbered'
  BY Zenon, EmitEffect
<1>2. StreamTypeOK'
  <2>1. closed' \in BOOLEAN /\ sender' \in {"none", "held", "dropped"}
    BY Zenon DEF StreamInv, StreamTypeOK
  <2>2. sequence' \in Nat /\ sub' \in [Readers -> {"none", "receiver", "stillborn"}]
    BY DEF StreamInv, StreamTypeOK
  <2>3. next' \in [Readers -> Nat] /\ got' \in [Readers -> Outcome]
    BY Zenon DEF StreamInv, StreamTypeOK
  <2> QED BY <1>1, <2>1, <2>2, <2>3 DEF StreamTypeOK, Outcome, Nothing
<1>3. ClosedIsFinal'
  BY Zenon DEF StreamInv, StreamTypeOK, ClosedIsFinal, Receivers
<1> QED BY <1>1, <1>2, <1>3 DEF StreamInv

\* A subscription that starts at the end of the channel, or that is closed at
\* birth once the publisher is closed, keeps the invariant.
LEMMA JoinKeepsInv ==
    ASSUME StreamInv, NEW r \in Readers,
           UNCHANGED <<view, sequence, closed, tail, kept>>,
           \/ Attached(r) /\ ~closed /\ sender' = "held"
           \/ Stillborn(r) /\ closed /\ UNCHANGED sender
    PROVE  /\ StreamInv'
           /\ Cursor' = [Cursor EXCEPT ![r] = sequence]
           /\ got' = [got EXCEPT ![r] = Nothing]
<1> USE DEF StreamInv
<1>1. StreamTypeOK'
  BY LiveStreamAssumption, ZenonT(60)
     DEF StreamTypeOK, Attached, Stillborn, Oldest, ChannelCapacity, Outcome, Nothing
<1>2. BacklogNumbered'
  <2>1. CASE Attached(r)
    <3> SUFFICES ASSUME NEW s \in Receivers'
                 PROVE  /\ next'[s] <= tail /\ tail - next'[s] <= sequence
                        /\ \A p \in next'[s]..tail - 1 :
                               p \in DOMAIN kept => kept[p] = sequence - tail + p + 1
      BY Zenon DEF BacklogNumbered
    <3>1. CASE s = r
      BY <2>1, <3>1 DEF Attached, StreamTypeOK
    <3>2. CASE s # r
      <4>1. s \in Receivers /\ next'[s] = next[s]
        BY Zenon, <2>1, <3>2 DEF Attached, Receivers, StreamTypeOK
      <4> QED BY <4>1 DEF BacklogNumbered
    <3> QED BY <3>1, <3>2
  <2>2. CASE Stillborn(r)
    BY Zenon, <2>2 DEF Stillborn, BacklogNumbered, Receivers, StreamTypeOK
  <2> QED BY <2>1, <2>2
<1>3. ClosedIsFinal'
  BY Zenon DEF Attached, Stillborn, StreamTypeOK, ClosedIsFinal, Receivers
<1>4. Cursor' = [Cursor EXCEPT ![r] = sequence]
  <2>1. ASSUME NEW s \in Readers, s # r PROVE Cursor'[s] = Cursor[s]
    BY Zenon, <2>1 DEF Attached, Stillborn, Cursor, StreamTypeOK
  <2>2. Cursor'[r] = sequence
    BY DEF Attached, Stillborn, Cursor, StreamTypeOK
  <2> QED BY <2>1, <2>2, Zenon DEF Cursor
<1> QED BY <1>1, <1>2, <1>3, <1>4 DEF Attached, Stillborn

\* What a recv of a receiver does: the invariant is kept, and the reader takes
\* the next event of the log, or skips to an older one than the newest, or is
\* told of the end (live/stream.rs, poll_next).
LEMMA RecvStep ==
    ASSUME StreamInv, NEW r \in Readers, Recv(r)
    PROVE  StreamInv' /\ (Log!Deliver(r) \/ Log!Skip(r) \/ Log!End(r))
<1> USE DEF StreamInv
<1>0. UNCHANGED <<view, sequence, closed, sender, tail, kept, sub>>
  BY Zenon DEF Recv
<1>1. Receivers' = Receivers /\ Oldest' = Oldest
  BY Zenon, <1>0, LiveStreamAssumption DEF Receivers, Oldest, ChannelCapacity
<1>2. ClosedIsFinal'
  BY Zenon, <1>0, <1>1 DEF ClosedIsFinal
<1>3. tail \in Nat /\ sequence \in Nat /\ next[r] \in Nat /\ Oldest \in Nat /\ Oldest <= tail
  BY CapacityPositive DEF StreamTypeOK, Oldest
<1>4. ASSUME sub[r] = "receiver"
      PROVE  /\ r \in Receivers /\ next[r] <= tail /\ tail - next[r] <= sequence
             /\ \A p \in next[r]..tail - 1 :
                    p \in DOMAIN kept => kept[p] = sequence - tail + p + 1
             /\ Cursor[r] = sequence - (tail - next[r])
  BY Zenon, <1>4 DEF BacklogNumbered, Receivers, Cursor
<1> DEFINE q == next'[r]
<1>5. ASSUME sub[r] = "receiver", next' \in [Readers -> Nat],
             got' \in [Readers -> Outcome],
             \A s \in Readers : s # r => next'[s] = next[s],
             next[r] <= q, q <= tail
      PROVE  /\ StreamInv'
             /\ Cursor' = [Cursor EXCEPT ![r] = sequence - (tail - q)]
  <2>1. StreamTypeOK'
    <3>1. kept' \in [Oldest'..tail' - 1 -> Nat]
      BY Zenon, <1>0, <1>1 DEF StreamTypeOK
    <3> QED BY <1>0, <1>5, <3>1 DEF StreamTypeOK, Outcome, Nothing
  <2>2. BacklogNumbered'
    <3> SUFFICES ASSUME NEW s \in Receivers
                 PROVE  /\ next'[s] <= tail /\ tail - next'[s] <= sequence
                        /\ \A p \in next'[s]..tail - 1 :
                               p \in DOMAIN kept => kept[p] = sequence - tail + p + 1
      BY Zenon, <1>0, <1>1 DEF BacklogNumbered
    <3>1. CASE s = r
      <4>1. next'[s] = q
        BY Zenon, <3>1, <1>5 DEF StreamTypeOK
      <4>2. \A p \in q..tail - 1 : p \in next[r]..tail - 1
        BY <1>3, <1>5
      <4> QED BY <4>1, <4>2, <1>3, <1>4, <1>5
    <3>2. CASE s # r
      <4>1. next'[s] = next[s]
        BY Zenon, <3>2, <1>5 DEF StreamTypeOK, Receivers
      <4> QED BY <4>1 DEF BacklogNumbered
    <3> QED BY <3>1, <3>2
  <2>3. Cursor' = [Cursor EXCEPT ![r] = sequence - (tail - q)]
    <3>1. ASSUME NEW s \in Readers, s # r PROVE Cursor'[s] = Cursor[s]
      BY Zenon, <1>0, <1>5, <3>1 DEF Cursor, StreamTypeOK
    <3>2. Cursor'[r] = sequence - (tail - q)
      BY Zenon, <1>0, <1>5 DEF Cursor, StreamTypeOK
    <3> QED BY <3>1, <3>2, Zenon DEF Cursor
  <2> QED BY <2>1, <2>2, <2>3, <1>2
<1>6. CASE sub[r] = "receiver" /\ next[r] < Oldest
  <2> DEFINE o == [k |-> "lagged", n |-> Oldest - next[r]]
  <2>1. next' = [next EXCEPT ![r] = Oldest] /\ got' = [got EXCEPT ![r] = o]
    BY <1>6, <1>3, <1>4 DEF Recv
  <2>2. o \in Outcome
    BY <1>3, <1>6 DEF Outcome
  <2>3. StreamInv' /\ Cursor' = [Cursor EXCEPT ![r] = sequence - (tail - Oldest)]
    <3>1. /\ next' \in [Readers -> Nat] /\ next'[r] = Oldest
          /\ \A s \in Readers : s # r => next'[s] = next[s]
      BY Zenon, <2>1, <1>3 DEF StreamTypeOK
    <3>2. got' \in [Readers -> Outcome]
      BY Zenon, <2>1, <2>2 DEF StreamTypeOK
    <3> QED BY <3>1, <3>2, <1>3, <1>5, <1>6
  <2>4. Oldest < tail
    BY <1>3, <1>6, CapacityPositive DEF Oldest, StreamTypeOK
  <2>5. /\ Cursor[r] # -1
        /\ Oldest - next[r] \in 1..sequence - Cursor[r] - 1
        /\ Cursor[r] + (Oldest - next[r]) = sequence - (tail - Oldest)
    BY <1>3, <1>4, <1>6, <2>4
  <2>6. Log!Skip(r)
    BY <1>0, <2>1, <2>3, <2>5, Zenon DEF Log!Skip, Log!Away, Cursor
  <2> QED BY <2>3, <2>6
<1>7. CASE sub[r] = "receiver" /\ next[r] >= Oldest /\ next[r] < tail
  <2> DEFINE o == [k |-> "event", n |-> kept[next[r]]]
  <2>1. next' = [next EXCEPT ![r] = next[r] + 1] /\ got' = [got EXCEPT ![r] = o]
    BY <1>7, <1>3, <1>4 DEF Recv
  <2>2. next[r] \in DOMAIN kept /\ kept[next[r]] \in Nat
    BY <1>3, <1>7 DEF StreamTypeOK
  <2>3. o \in Outcome
    BY Zenon, <2>2 DEF Outcome
  <2>4. StreamInv' /\ Cursor' = [Cursor EXCEPT ![r] = sequence - (tail - (next[r] + 1))]
    <3>1. /\ next' \in [Readers -> Nat] /\ next'[r] = next[r] + 1
          /\ \A s \in Readers : s # r => next'[s] = next[s]
      BY <2>1, <1>3 DEF StreamTypeOK
    <3>2. got' \in [Readers -> Outcome]
      BY Zenon, <2>1, <2>3 DEF StreamTypeOK
    <3> QED BY <3>1, <3>2, <1>3, <1>5, <1>7
  <2>5. /\ Cursor[r] # -1 /\ Cursor[r] < sequence
        /\ kept[next[r]] = Cursor[r] + 1
        /\ Cursor[r] + 1 = sequence - (tail - (next[r] + 1))
    BY <1>3, <1>4, <1>7, <2>2
  <2>6. Log!Deliver(r)
    BY <1>0, <2>1, <2>4, <2>5, Zenon DEF Log!Deliver, Log!Away, Cursor
  <2> QED BY <2>4, <2>6
<1>8. CASE /\ \/ sub[r] = "stillborn"
              \/ sub[r] = "receiver" /\ next[r] = tail /\ sender = "dropped"
           /\ got' = [got EXCEPT ![r] = [k |-> "closed", n |-> 0]]
           /\ UNCHANGED next
  <2>1. StreamTypeOK'
    <3>1. got' \in [Readers -> Outcome]
      BY Zenon, <1>8 DEF StreamTypeOK, Outcome
    <3>2. kept' \in [Oldest'..tail' - 1 -> Nat]
      BY Zenon, <1>0, <1>1 DEF StreamTypeOK
    <3> QED BY <1>0, <1>8, <3>1, <3>2 DEF StreamTypeOK, Outcome, Nothing
  <2>2. BacklogNumbered' /\ Cursor' = Cursor
    BY Zenon, <1>0, <1>1, <1>8 DEF BacklogNumbered, Cursor
  <2>3. closed /\ Cursor[r] = sequence
    BY <1>3, <1>8 DEF ClosedIsFinal, Cursor
  <2>4. Log!End(r)
    BY Zenon, <1>0, <1>8, <2>2, <2>3 DEF Log!End
  <2> QED BY <1>2, <2>1, <2>2, <2>4
<1> QED BY <1>6, <1>7, <1>8 DEF Recv

\* Every step keeps the invariant and is a step of the log, or changes nothing
\* that the log can see.
LEMMA StreamStep ==
    ASSUME StreamInv, [StreamNext]_streamVars
    PROVE  StreamInv' /\ [Log!LogNext]_Log!logVars
<1>1. CASE ReplaceView \/ InstallInitialView \/ UNCHANGED streamVars
  <2>1. /\ UNCHANGED <<sequence, closed, sender, tail, kept, sub, next, got>>
        /\ view' \in Nat
    BY <1>1 DEF ReplaceView, InstallInitialView, streamVars, StreamInv, StreamTypeOK
  <2>2. Oldest' = Oldest /\ Receivers' = Receivers /\ Cursor' = Cursor
    BY Zenon, <2>1, LiveStreamAssumption DEF Oldest, ChannelCapacity, Receivers, Cursor
  <2>3. BacklogNumbered' /\ ClosedIsFinal'
    BY Zenon, <2>1, <2>2 DEF StreamInv, BacklogNumbered, ClosedIsFinal
  <2>4. StreamTypeOK'
    BY Zenon, <2>1, <2>2 DEF StreamInv, StreamTypeOK, Outcome, Nothing
  <2> QED BY <2>1, <2>2, <2>3, <2>4 DEF StreamInv, Log!logVars
<1>2. CASE ReplaceViewAndEmit \/ EmitWithoutViewChange
  <2>1. PICK v \in Nat : ApplyAndEmit(v)
    BY <1>2 DEF ReplaceViewAndEmit, EmitWithoutViewChange, StreamInv, StreamTypeOK
  <2>2. /\ ~closed /\ closed' = FALSE /\ sender' = sender /\ view' \in Nat
        /\ sequence' = sequence + 1 /\ UNCHANGED <<sub, next, got>>
        /\ IF sender = "held" THEN SenderSend(sequence + 1)
                              ELSE UNCHANGED <<tail, kept>>
    BY Zenon, <2>1 DEF ApplyAndEmit, StreamInv, StreamTypeOK
  <2>3. StreamInv'
    BY <2>2, EmitKeepsInv, Zenon
  <2>4. Cursor' = Cursor
    BY Zenon, <2>2, EmitEffect
  <2>5. Log!Publish
    BY Zenon, <2>2, <2>4 DEF Log!Publish
  <2> QED BY <2>3, <2>5 DEF Log!LogNext
<1>3. CASE CloseWithTerminalEvent
  <2>1. /\ ~closed /\ closed' = TRUE /\ view' \in Nat
        /\ sender' = (IF sender = "held" THEN "dropped" ELSE sender)
        /\ sequence' = sequence + 1 /\ UNCHANGED <<sub, next, got>>
        /\ IF sender = "held" THEN SenderSend(sequence + 1)
                              ELSE UNCHANGED <<tail, kept>>
    BY <1>3 DEF CloseWithTerminalEvent, StreamInv, StreamTypeOK
  <2>2. StreamInv'
    BY Zenon, <2>1, EmitKeepsInv
  <2>3. Cursor' = Cursor
    BY Zenon, <2>1, EmitEffect
  <2>4. Log!Finish
    BY Zenon, <2>1, <2>3 DEF Log!Finish
  <2> QED BY <2>2, <2>4 DEF Log!LogNext
<1>4. CASE \E r \in Readers : Subscribe(r) \/ \E s \in Readers : Resubscribe(r, s)
  <2> DEFINE Joined(r) ==
                 /\ UNCHANGED <<view, sequence, closed, tail, kept>>
                 /\ \/ Attached(r) /\ ~closed /\ sender' = "held"
                    \/ Stillborn(r) /\ closed /\ UNCHANGED sender
  <2>1. PICK r \in Readers : Joined(r)
    <3>1. ASSUME NEW r \in Readers, Subscribe(r) PROVE Joined(r)
      BY Zenon, <3>1 DEF Subscribe, StreamInv, StreamTypeOK
    <3>2. ASSUME NEW r \in Readers, NEW s \in Readers, Resubscribe(r, s) PROVE Joined(s)
      <4>1. sub[r] = "receiver" => sender # "none"
        BY Zenon DEF StreamInv, ClosedIsFinal, Receivers
      <4> QED BY <3>2, <4>1 DEF Resubscribe, StreamInv, StreamTypeOK, ClosedIsFinal
    <3> HIDE DEF Joined
    <3> QED BY <1>4, <3>1, <3>2
  <2>2. /\ StreamInv' /\ Cursor' = [Cursor EXCEPT ![r] = sequence]
        /\ got' = [got EXCEPT ![r] = Nothing]
    BY Zenon, <2>1, JoinKeepsInv
  <2>3. Log!Join(r)
    BY Zenon, <2>1, <2>2 DEF Log!Join, Log!Silence, Nothing
  <2> QED BY <2>2, <2>3 DEF Log!LogNext
<1>5. CASE \E r \in Readers : Recv(r)
  BY Zenon, <1>5, RecvStep DEF Log!LogNext
<1>6. CASE \E r \in Readers : Unsubscribe(r)
  <2>1. PICK r \in Readers : Unsubscribe(r)
    BY Zenon, <1>6
  <2>2. UNCHANGED <<view, sequence, closed, sender, tail, kept, next>>
    BY Zenon, <2>1 DEF Unsubscribe
  <2>3. Receivers' \subseteq Receivers /\ Oldest' = Oldest
    BY Zenon, <2>1, <2>2, LiveStreamAssumption
       DEF Unsubscribe, Receivers, Oldest, ChannelCapacity, StreamInv, StreamTypeOK
  <2>4. BacklogNumbered'
    BY Zenon, <2>2, <2>3 DEF StreamInv, BacklogNumbered
  <2>5. ClosedIsFinal'
    BY <2>1, <2>2, <2>3 DEF StreamInv, ClosedIsFinal, Unsubscribe, StreamTypeOK
  <2>6. StreamTypeOK'
    <3>1. /\ got' \in [Readers -> Outcome]
          /\ sub' \in [Readers -> {"none", "receiver", "stillborn"}]
      BY Zenon, <2>1 DEF StreamInv, StreamTypeOK, Unsubscribe, Outcome, Nothing
    <3>2. kept' \in [Oldest'..tail' - 1 -> Nat]
      BY Zenon, <2>2, <2>3 DEF StreamInv, StreamTypeOK
    <3> QED BY <2>2, <3>1, <3>2 DEF StreamInv, StreamTypeOK, Outcome, Nothing
  <2>7. Cursor' = [Cursor EXCEPT ![r] = -1]
    <3>1. ASSUME NEW s \in Readers, s # r PROVE Cursor'[s] = Cursor[s]
      BY Zenon, <2>1, <2>2, <3>1 DEF Cursor, Unsubscribe, StreamInv, StreamTypeOK
    <3>2. Cursor'[r] = -1
      BY Zenon, <2>1 DEF Cursor, Unsubscribe, StreamInv, StreamTypeOK
    <3> QED BY <3>1, <3>2, Zenon DEF Cursor
  <2>8. Log!Leave(r)
    BY <2>1, <2>2, <2>7 DEF Log!Leave, Log!Away, Log!Silence, Unsubscribe, Nothing
  <2> QED BY <2>4, <2>5, <2>6, <2>8 DEF Log!LogNext, StreamInv
<1> QED BY <1>1, <1>2, <1>3, <1>4, <1>5, <1>6 DEF StreamNext

\* The backlog of every receiver is numbered without a gap, whatever the
\* capacity and the subscriptions (live/stream.rs, apply_and_emit).
THEOREM BacklogAlwaysNumbered == StreamSpec => []BacklogNumbered
<1>1. StreamInv /\ [StreamNext]_streamVars => StreamInv'
  BY Zenon, StreamStep
<1>2. StreamInv => BacklogNumbered
  BY Zenon DEF StreamInv
<1> QED BY <1>1, <1>2, StreamInitInv, PTL DEF StreamSpec

\* A stream that is closed stays closed to everybody (live/stream.rs,
\* close_with_terminal_event and EventSubscription::closed).
THEOREM ClosedAlwaysFinal == StreamSpec => []ClosedIsFinal
<1>1. StreamInv /\ [StreamNext]_streamVars => StreamInv'
  BY Zenon, StreamStep
<1>2. StreamInv => ClosedIsFinal
  BY Zenon DEF StreamInv
<1> QED BY <1>1, <1>2, StreamInitInv, PTL DEF StreamSpec

\* The live stream implements the event log (live/stream.rs).
THEOREM StreamRefinesLog == StreamSpec => StreamImplementsLog
<1>1. StreamInit => Log!LogInit
  BY Zenon DEF StreamInit, Log!LogInit, Cursor, Log!Away, Log!Silence, Nothing
<1>2. StreamInv /\ [StreamNext]_streamVars => StreamInv' /\ [Log!LogNext]_Log!logVars
  BY Zenon, StreamStep
<1> QED BY <1>1, <1>2, StreamInitInv, PTL DEF StreamSpec, StreamImplementsLog, Log!LogSpec

\* A publisher's channel keeps its newest events, numbered, and its close is
\* final (live/stream.rs, LivePublisher).
THEOREM StreamAlwaysSound == StreamSpec => []StreamSound
<1>1. StreamInv /\ [StreamNext]_streamVars => StreamInv'
  BY Zenon, StreamStep
<1>2. StreamInv => StreamSound
  BY Zenon DEF StreamInv, StreamSound
<1> QED BY <1>1, <1>2, StreamInitInv, PTL DEF StreamSpec
=============================================================================
