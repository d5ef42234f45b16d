----------------------------- MODULE LiveStream -----------------------------
(***************************************************************************)
(* The publisher behind every engine, torrent, peer and tracker listener    *)
(* (live/stream.rs): a current view and a sequence number under one lock,   *)
(* and a broadcast channel that is allocated on the first subscription.     *)
(* The channel (tokio's, external) keeps the newest ChannelCapacity values, *)
(* does not take a value while it has no receiver, and tells a receiver     *)
(* that fell behind how many values it lost.                                *)
(***************************************************************************)
EXTENDS Integers

CONSTANTS
    Readers,     \* subscriptions held by consumers
    Capacity,    \* event_capacity
    MaxEvents    \* bound: events published

ASSUME LiveStreamAssumption == Capacity \in Nat /\ MaxEvents \in Nat

\* A zero capacity is normalized to one.
ChannelCapacity == IF Capacity = 0 THEN 1 ELSE Capacity

None == 0      \* the view of a publisher that has not been given one

VARIABLES
    view,        \* LiveState.view, as the number of the change that made it
    sequence,    \* LiveState.sequence
    closed,      \* LiveState.closed
    sender,      \* the channel's sender: not allocated, held, or dropped
    tail,        \* values the channel has taken
    kept,        \* the values it still holds, by position
    sub,         \* what a reader holds: no subscription, a receiver of this
                 \* channel, or one of a channel that was closed at birth
    next,        \* position of the next value a receiver takes
    got          \* what the last recv returned

streamVars == <<view, sequence, closed, sender, tail, kept, sub, next, got>>

Nothing == [k |-> "nothing", n |-> 0]
Outcome == {Nothing, [k |-> "closed", n |-> 0]}
           \cup [k : {"event", "lagged"}, n : Nat]
Oldest == IF tail < ChannelCapacity THEN 0 ELSE tail - ChannelCapacity

\* The variables have their types, and the channel keeps exactly its newest
\* values (live/stream.rs, LivePublisher).
StreamTypeOK ==
    /\ view \in Nat /\ sequence \in Nat /\ closed \in BOOLEAN
    /\ sender \in {"none", "held", "dropped"}
    /\ tail \in Nat /\ kept \in [Oldest..tail - 1 -> Nat]
    /\ sub \in [Readers -> {"none", "receiver", "stillborn"}]
    /\ next \in [Readers -> Nat] /\ got \in [Readers -> Outcome]

StreamInit ==
    /\ view = None /\ sequence = 0 /\ closed = FALSE
    /\ sender = "none" /\ tail = 0 /\ kept = [p \in 0..-1 |-> 0]
    /\ sub = [r \in Readers |-> "none"] /\ next = [r \in Readers |-> 0]
    /\ got = [r \in Readers |-> Nothing]

Receivers == {r \in Readers : sub[r] = "receiver"}

\* broadcast::Sender::send: one more value, the oldest one overwritten.
SenderSend(value) ==
    IF Receivers = {} THEN UNCHANGED <<tail, kept>>
    ELSE /\ tail' = tail + 1
         /\ kept' = [p \in (IF tail + 1 < ChannelCapacity THEN 0
                            ELSE tail + 1 - ChannelCapacity)..tail |->
                        IF p = tail THEN value ELSE kept[p]]

-----------------------------------------------------------------------------
(* The publisher.                                                           *)

\* Replaces the current view without emitting an event.
ReplaceView ==
    /\ ~closed /\ view < MaxEvents
    /\ view' = view + 1
    /\ UNCHANGED <<sequence, closed, sender, tail, kept, sub, next, got>>

\* Only when there is no view yet.
InstallInitialView ==
    /\ ~closed /\ view = None
    /\ view' = 1
    /\ UNCHANGED <<sequence, closed, sender, tail, kept, sub, next, got>>

\* An event numbered before the counter moves.
ApplyAndEmitStale(v) ==
    /\ ~closed /\ sequence < MaxEvents
    /\ view' = v
    /\ sequence' = sequence + 1
    /\ IF sender = "held" THEN SenderSend(sequence) ELSE UNCHANGED <<tail, kept>>
    /\ UNCHANGED <<closed, sender, sub, next, got>>
\* apply_and_emit: the view and the number change before the event is sent.
ApplyAndEmit(v) ==
    /\ ~closed /\ sequence < MaxEvents
    /\ view' = v
    /\ sequence' = sequence + 1
    /\ IF sender = "held" THEN SenderSend(sequence + 1) ELSE UNCHANGED <<tail, kept>>
    /\ UNCHANGED <<closed, sender, sub, next, got>>

ReplaceViewAndEmit == view < MaxEvents /\ ApplyAndEmit(view + 1)

EmitWithoutViewChange == ApplyAndEmit(view)

\* close_with_terminal_event: the sender is taken, then used once more.
CloseWithTerminalEvent ==
    /\ ~closed
    /\ view' = view + 1
    /\ sequence' = sequence + 1 /\ closed' = TRUE
    /\ IF sender = "held"
       THEN sender' = "dropped" /\ SenderSend(sequence + 1)
       ELSE UNCHANGED <<sender, tail, kept>>
    /\ UNCHANGED <<sub, next, got>>

-----------------------------------------------------------------------------
(* Subscriptions.                                                           *)

Attached(r) ==
    /\ sub' = [sub EXCEPT ![r] = "receiver"]
    /\ next' = [next EXCEPT ![r] = tail]
    /\ got' = [got EXCEPT ![r] = Nothing]

\* EventSubscription::closed
Stillborn(r) ==
    /\ sub' = [sub EXCEPT ![r] = "stillborn"]
    /\ got' = [got EXCEPT ![r] = Nothing]
    /\ UNCHANGED next

Subscribe(r) ==
    /\ sub[r] = "none"
    /\ IF closed THEN Stillborn(r) /\ UNCHANGED sender
       ELSE Attached(r) /\ sender' = "held"
    /\ UNCHANGED <<view, sequence, closed, tail, kept>>

\* r.resubscribe(), held by s: the weak sender upgrades only while the
\* publisher holds the strong one.
Resubscribe(r, s) ==
    /\ sub[r] # "none" /\ sub[s] = "none"
    /\ IF sub[r] = "receiver" /\ sender = "held" THEN Attached(s) ELSE Stillborn(s)
    /\ UNCHANGED <<view, sequence, closed, sender, tail, kept>>

\* A subscription to a closed publisher that waits for events.
RecvWaiting(r) ==
    /\ sub[r] = "receiver" /\ next[r] >= Oldest /\ next[r] < tail
    /\ next' = [next EXCEPT ![r] = @ + 1]
    /\ got' = [got EXCEPT ![r] = [k |-> "event", n |-> kept[next[r]]]]
    /\ UNCHANGED <<view, sequence, closed, sender, tail, kept, sub>>
\* A reader that fell behind is told of the end at once.
RecvSkipping(r) ==
    /\ \/ RecvWaiting(r)
       \/ /\ \/ sub[r] = "stillborn"
             \/ sub[r] = "receiver" /\ sender = "dropped"
          /\ got' = [got EXCEPT ![r] = [k |-> "closed", n |-> 0]]
          /\ UNCHANGED next
    /\ UNCHANGED <<view, sequence, closed, sender, tail, kept, sub>>
\* EventSubscription::recv: how much was lost, the next event, or the end.
Recv(r) ==
    /\ \/ /\ sub[r] = "receiver" /\ next[r] < Oldest
          /\ next' = [next EXCEPT ![r] = Oldest]
          /\ got' = [got EXCEPT ![r] = [k |-> "lagged", n |-> Oldest - next[r]]]
       \/ /\ sub[r] = "receiver" /\ next[r] >= Oldest /\ next[r] < tail
          /\ next' = [next EXCEPT ![r] = @ + 1]
          /\ got' = [got EXCEPT ![r] = [k |-> "event", n |-> kept[next[r]]]]
       \/ /\ \/ sub[r] = "stillborn"
             \/ sub[r] = "receiver" /\ next[r] = tail /\ sender = "dropped"
          /\ got' = [got EXCEPT ![r] = [k |-> "closed", n |-> 0]]
          /\ UNCHANGED next
    /\ UNCHANGED <<view, sequence, closed, sender, tail, kept, sub>>

Unsubscribe(r) ==
    /\ sub[r] # "none"
    /\ sub' = [sub EXCEPT ![r] = "none"] /\ got' = [got EXCEPT ![r] = Nothing]
    /\ UNCHANGED <<view, sequence, closed, sender, tail, kept, next>>

StreamNext ==
    \/ ReplaceView \/ InstallInitialView \/ ReplaceViewAndEmit
    \/ EmitWithoutViewChange \/ CloseWithTerminalEvent
    \/ \E r \in Readers :
           \/ Subscribe(r) \/ Recv(r) \/ Unsubscribe(r)
           \/ \E s \in Readers : Resubscribe(r, s)

StreamSpec == StreamInit /\ [][StreamNext]_streamVars

\* A consumer calls recv in a loop.
StreamFairness == \A r \in Readers : WF_streamVars(Recv(r))
FairSpec == StreamSpec /\ StreamFairness

-----------------------------------------------------------------------------
(* Properties.                                                              *)

\* The values a receiver has yet to take are the newest events of the
\* publisher, numbered without a gap: a channel position and a sequence number
\* stay apart by the same distance for as long as somebody listens
\* (live/stream.rs, apply_and_emit and send_if_subscribed).
BacklogNumbered ==
    \A r \in Receivers :
        /\ next[r] <= tail /\ tail - next[r] <= sequence
        /\ \A p \in next[r]..tail - 1 :
               p \in DOMAIN kept => kept[p] = sequence - tail + p + 1

\* A subscription that can never hear of an event belongs to a publisher that
\* has closed, and the sender is dropped by the close and by nothing else.
ClosedIsFinal ==
    /\ sender = "dropped" => closed
    /\ closed => sender # "held"
    /\ \A r \in Readers : sub[r] = "stillborn" => closed
    /\ \A r \in Receivers : sender # "none"

\* The last event a reader has accounted for, by number.
Cursor == [r \in Readers |->
              IF sub[r] = "none" THEN -1
              ELSE IF sub[r] = "receiver" THEN sequence - (tail - next[r])
              ELSE sequence]

Log == INSTANCE EventLog WITH
           last <- sequence, open <- ~closed, cursor <- Cursor, said <- got

\* The stream is the promised log: events reach each reader in the order of
\* their numbers, lag reports add up to exactly the numbers that are missing,
\* the terminal event is never skipped and Closed comes only after it
\* (live/event.rs, SequencedEvent; live/stream.rs, close_with_terminal_event).
StreamImplementsLog == Log!LogSpec

\* Once the publisher has closed, a consumer that keeps receiving is told so.
EndIsTold ==
    \A r \in Readers :
        (closed /\ sub[r] # "none") ~> (sub[r] = "none" \/ got[r].k = "closed")

\* The channel holds the newest events in order, and closing is final
\* (live/stream.rs, LivePublisher).
StreamSound == StreamTypeOK /\ BacklogNumbered /\ ClosedIsFinal
=============================================================================
