--------------------------- MODULE FlowSteadyProofs ---------------------------
(***************************************************************************)
(* The download of blocks while no request is given up before its answer:   *)
(* a block on request is held in one place at most, so no window is         *)
(* exceeded, nothing verified is written again, and the download is         *)
(* finished once.                                                           *)
(***************************************************************************)
EXTENDS PieceFlowProofs

\* Requests are given up when they grow stale, when the caller disconnects a
\* peer and when a peer stops. Of these only the first is under the control of
\* the torrent.
Steady == Env \cap {"expire", "disconnect", "stop"} = {}

Asks == {"NeedPiece", "CancelPiece"}

\* The blocks that the messages of queue q with a type in T are about, and that
\* no two of these messages are about the same block.
Slots(q, T) == {q[k].slot : k \in {j \in 1..Len(q) : q[j].type \in T}}

Unique(q, T) ==
  \A j, k \in 1..Len(q) :
    q[j].type \in T /\ q[k].type \in T /\ q[j].slot = q[k].slot => j = k

\* Taking the first message.
LEMMA SlotsTail ==
  ASSUME NEW S, NEW q \in Seq(S), q # <<>>, NEW T
  PROVE  /\ Slots(Tail(q), T) \subseteq Slots(q, T)
         /\ Unique(q, T) => Unique(Tail(q), T)
         /\ Head(q).type \in T =>
              /\ Head(q).slot \in Slots(q, T)
              /\ Unique(q, T) => Head(q).slot \notin Slots(Tail(q), T)
<1>1. /\ Len(q) \in Nat \ {0} /\ Len(Tail(q)) = Len(q) - 1
      /\ \A k \in 1..Len(Tail(q)) : Tail(q)[k] = q[k + 1]
      /\ Head(q) = q[1]
  BY TailFacts, EmptyFacts
<1>2. \A k \in 1..Len(Tail(q)) : k + 1 \in 1..Len(q) /\ k + 1 # 1
  BY <1>1
<1>3. 1 \in 1..Len(q)
  BY <1>1
<1>4. Slots(Tail(q), T) \subseteq Slots(q, T)
  BY <1>1, <1>2 DEF Slots
<1>5. Unique(q, T) => Unique(Tail(q), T)
  <2> SUFFICES ASSUME Unique(q, T), NEW j \in 1..Len(Tail(q)), NEW k \in 1..Len(Tail(q)),
                      Tail(q)[j].type \in T, Tail(q)[k].type \in T,
                      Tail(q)[j].slot = Tail(q)[k].slot
               PROVE  j = k
    BY Zenon DEF Unique
  <2>1. j + 1 = k + 1
    BY Zenon, <1>1, <1>2 DEF Unique
  <2> QED
    BY <2>1, <1>1
<1>6. ASSUME Head(q).type \in T
      PROVE  Head(q).slot \in Slots(q, T)
  BY Zenon, <1>1, <1>3, <1>6 DEF Slots
<1>7. ASSUME Head(q).type \in T, Unique(q, T)
      PROVE  Head(q).slot \notin Slots(Tail(q), T)
  <2> SUFFICES ASSUME NEW k \in 1..Len(Tail(q)), Tail(q)[k].type \in T,
                      Tail(q)[k].slot = Head(q).slot
               PROVE  FALSE
    BY Zenon DEF Slots
  <2> QED
    BY Zenon, <1>1, <1>2, <1>3, <1>7 DEF Unique
<1> QED
  BY Zenon, <1>4, <1>5, <1>6, <1>7

\* Joining two queues.
LEMMA SlotsConcat ==
  ASSUME NEW S, NEW q \in Seq(S), NEW r \in Seq(S), NEW T
  PROVE  /\ Slots(q \o r, T) \subseteq Slots(q, T) \cup Slots(r, T)
         /\ Unique(q, T) /\ Unique(r, T) /\ Slots(q, T) \cap Slots(r, T) = {}
              => Unique(q \o r, T)
<1>1. /\ Len(q) \in Nat /\ Len(r) \in Nat /\ Len(q \o r) = Len(q) + Len(r)
      /\ \A i \in 1..(Len(q) + Len(r)) :
           (q \o r)[i] = IF i <= Len(q) THEN q[i] ELSE r[i - Len(q)]
  BY ConcatFacts
<1>2. ASSUME NEW k \in 1..Len(q \o r), (q \o r)[k].type \in T
      PROVE  \/ /\ k \in 1..Len(q) /\ (q \o r)[k] = q[k]
                /\ (q \o r)[k].slot \in Slots(q, T)
             \/ /\ k - Len(q) \in 1..Len(r) /\ (q \o r)[k] = r[k - Len(q)]
                /\ (q \o r)[k].slot \in Slots(r, T)
  <2>1. CASE k <= Len(q)
    <3>1. k \in 1..Len(q) /\ (q \o r)[k] = q[k]
      BY <1>1, <2>1
    <3> QED
      BY Zenon, <3>1, <1>2 DEF Slots
  <2>2. CASE k > Len(q)
    <3>1. k - Len(q) \in 1..Len(r) /\ (q \o r)[k] = r[k - Len(q)]
      BY <1>1, <2>2
    <3> QED
      BY Zenon, <3>1, <1>2 DEF Slots
  <2> QED
    BY <1>1, <2>1, <2>2
<1>3. Slots(q \o r, T) \subseteq Slots(q, T) \cup Slots(r, T)
  <2> SUFFICES ASSUME NEW k \in 1..Len(q \o r), (q \o r)[k].type \in T
               PROVE  (q \o r)[k].slot \in Slots(q, T) \cup Slots(r, T)
    BY Zenon DEF Slots
  <2> QED
    BY Zenon, <1>2
<1>4. ASSUME Unique(q, T), Unique(r, T), Slots(q, T) \cap Slots(r, T) = {}
      PROVE  Unique(q \o r, T)
  <2> SUFFICES ASSUME NEW j \in 1..Len(q \o r), NEW k \in 1..Len(q \o r),
                      (q \o r)[j].type \in T, (q \o r)[k].type \in T,
                      (q \o r)[j].slot = (q \o r)[k].slot
               PROVE  j = k
    BY Zenon DEF Unique
  <2>1. CASE j \in 1..Len(q) /\ (q \o r)[j] = q[j] /\ (q \o r)[j].slot \in Slots(q, T)
    <3>1. k \in 1..Len(q) /\ (q \o r)[k] = q[k]
      BY Zenon, <2>1, <1>2, <1>4
    <3> QED
      BY Zenon, <2>1, <3>1, <1>4 DEF Unique
  <2>2. CASE /\ j - Len(q) \in 1..Len(r) /\ (q \o r)[j] = r[j - Len(q)]
             /\ (q \o r)[j].slot \in Slots(r, T)
    <3>1. k - Len(q) \in 1..Len(r) /\ (q \o r)[k] = r[k - Len(q)]
      BY Zenon, <2>2, <1>2, <1>4
    <3>2. j - Len(q) = k - Len(q)
      BY Zenon, <2>2, <3>1, <1>4 DEF Unique
    <3> QED
      BY <3>2, <1>1
  <2> QED
    BY Zenon, <2>1, <2>2, <1>2
<1> QED
  BY Zenon, <1>3, <1>4

\* Adding one message.
LEMMA SlotsAppend ==
  ASSUME NEW S, NEW q \in Seq(S), NEW m \in S, NEW T
  PROVE  /\ m.type \notin T => Slots(Append(q, m), T) \subseteq Slots(q, T)
         /\ Slots(Append(q, m), T) \subseteq Slots(q, T) \cup {m.slot}
         /\ Unique(q, T) /\ (m.type \in T => m.slot \notin Slots(q, T))
              => Unique(Append(q, m), T)
<1>1. <<m>> \in Seq(S) /\ Len(<<m>>) = 1 /\ <<m>>[1] = m
  OBVIOUS
<1>2. Append(q, m) = q \o <<m>>
  BY <1>1, AppendFacts
<1>3. /\ Unique(<<m>>, T)
      /\ m.type \in T => Slots(<<m>>, T) = {m.slot}
      /\ m.type \notin T => Slots(<<m>>, T) = {}
  BY <1>1 DEF Slots, Unique
<1> DEFINE r == <<m>>
<1> HIDE DEF r
<1>4. /\ Slots(q \o r, T) \subseteq Slots(q, T) \cup Slots(r, T)
      /\ Unique(q, T) /\ Unique(r, T) /\ Slots(q, T) \cap Slots(r, T) = {}
           => Unique(q \o r, T)
  <2>1. r \in Seq(S)
    BY Zenon, <1>1 DEF r
  <2> QED
    BY Zenon, <2>1, SlotsConcat
<1>5. Append(q, m) = q \o r /\ Unique(r, T)
  BY Zenon, <1>2, <1>3 DEF r
<1>6. CASE m.type \in T
  <2>1. Slots(r, T) = {m.slot}
    BY Zenon, <1>3, <1>6 DEF r
  <2> QED
    BY Zenon, <2>1, <1>4, <1>5, <1>6
<1>7. CASE m.type \notin T
  <2>1. Slots(r, T) = {}
    BY Zenon, <1>3, <1>7 DEF r
  <2> QED
    BY Zenon, <2>1, <1>4, <1>5, <1>7
<1> QED
  BY Zenon, <1>6, <1>7

Asked(p) == Slots(mail[p], Asks)
Answered == Slots(inbox, Answers)

\* No peer is removed and none is about to be.
NobodyLeaves ==
  /\ alive = peers
  /\ \A p \in Peer : dying[p] = 0
  /\ TodoFor(todo, Peer)
  /\ \A k \in 1..Len(inbox) : inbox[k].type # "KillPeer"

\* A block on request is in one place at most: in its peer's mailbox, pending at
\* the remote, or answered.
OnePlace ==
  \A p \in Peer :
    /\ pending[p] \subseteq InFlightSlots(sched, p)
    /\ Asked(p) \subseteq InFlightSlots(sched, p)
    /\ pending[p] \cap Asked(p) = {}
    /\ pending[p] \cap Answered = {} /\ Asked(p) \cap Answered = {}
    /\ Unique(mail[p], Asks)

\* An answer comes from the peer the block is on request from.
AnswersOwned ==
  /\ Unique(inbox, Answers)
  /\ \A k \in 1..Len(inbox) :
       inbox[k].type \in Answers => sched.in_flight[inbox[k].slot] = inbox[k].peer

\* Completed is announced when the last piece is verified, and a verified piece
\* stays as it is.
CompletionOK ==
  /\ completed \in {0, 1}
  /\ completed = 1 => bitfield = Piece
  /\ VerifiedStaysGood

Owned == NobodyLeaves /\ OnePlace /\ AnswersOwned /\ CompletionOK

\* The torrent takes a message and gives back the request for at most the block
\* that the message answers.
LEMMA OwnedTaken ==
  ASSUME FlowInv, OnePlace, AnswersOwned, inbox # <<>>, inbox' = Tail(inbox),
         UNCHANGED <<mail, pending>>,
         \A y \in Slot : \/ sched'.in_flight[y] = sched.in_flight[y]
                         \/ Head(inbox).type \in Answers /\ y = Head(inbox).slot
  PROVE  OnePlace' /\ AnswersOwned'
<1> DEFINE m == Head(inbox)
<1>1. inbox \in Seq(TorrentMessage)
  BY Zenon DEF FlowInv, InboxOK
<1>2. /\ Answered' \subseteq Answered
      /\ Unique(inbox', Answers)
      /\ m.type \in Answers => m.slot \in Answered /\ m.slot \notin Answered'
  BY Zenon, <1>1, SlotsTail DEF Answered, AnswersOwned
<1> HIDE DEF m
<1>3. ASSUME NEW p \in Peer
      PROVE  /\ Asked(p)' = Asked(p) /\ Unique(mail'[p], Asks)
             /\ Asked(p) \subseteq InFlightSlots(sched', p)
             /\ pending[p] \subseteq InFlightSlots(sched', p)
  <2>1. Asked(p)' = Asked(p) /\ Unique(mail'[p], Asks)
    BY Zenon DEF OnePlace, Asked
  <2>2. ASSUME NEW y \in Asked(p) \cup pending[p]
        PROVE  y \in InFlightSlots(sched', p)
    <3>1. y \in Slot /\ sched.in_flight[y] = p /\ y \notin Answered
      BY Zenon, <2>2 DEF OnePlace, InFlightSlots
    <3>2. sched'.in_flight[y] = sched.in_flight[y]
      BY Zenon, <3>1, <1>2 DEF m
    <3> QED
      BY Zenon, <3>1, <3>2 DEF InFlightSlots
  <2> QED
    BY Zenon, <2>1, <2>2
<1>4. OnePlace'
  BY Zenon, <1>2, <1>3 DEF OnePlace
<1>5. ASSUME NEW k \in 1..Len(inbox'), inbox'[k].type \in Answers
      PROVE  sched'.in_flight[inbox'[k].slot] = inbox'[k].peer
  <2>1. k + 1 \in 1..Len(inbox) /\ inbox'[k] = inbox[k + 1]
    BY <1>1, TailFacts
  <2>2. inbox[k + 1] \in TorrentMessage
    BY <2>1, <1>1
  <2>3. inbox'[k].slot \in Slot
    BY Zenon, <2>1, <2>2, <1>5, MessageFields DEF Answers, Requested
  <2>4. inbox'[k].slot \in Answered'
    BY Zenon, <1>5 DEF Answered, Slots
  <2>5. sched'.in_flight[inbox'[k].slot] = sched.in_flight[inbox'[k].slot]
    BY Zenon, <2>3, <2>4, <1>2 DEF m
  <2> QED
    BY Zenon, <2>1, <2>5, <1>5 DEF AnswersOwned
<1> QED
  BY Zenon, <1>2, <1>4, <1>5 DEF AnswersOwned

\* What the torrent knows of requests and the queues is unchanged, save that a
\* peer may have fewer blocks pending.
LEMMA OwnedKept ==
  ASSUME OnePlace, AnswersOwned, UNCHANGED <<mail, inbox>>,
         \A p \in Peer : pending'[p] \subseteq pending[p],
         \A y \in Slot : sched'.in_flight[y] = sched.in_flight[y], FlowInv
  PROVE  OnePlace' /\ AnswersOwned'
<1>1. \A p \in Peer : InFlightSlots(sched', p) = InFlightSlots(sched, p)
  BY Zenon DEF InFlightSlots
<1>2. Answered' = Answered /\ \A p \in Peer : Asked(p)' = Asked(p)
  BY Zenon DEF Answered, Asked
<1>3. OnePlace'
  BY <1>1, <1>2 DEF OnePlace
<1>4. \A k \in 1..Len(inbox) : inbox[k].type \in Answers => inbox[k].slot \in Slot
  <2> SUFFICES ASSUME NEW k \in 1..Len(inbox), inbox[k].type \in Answers
               PROVE  inbox[k].slot \in Slot
    BY Zenon
  <2>1. inbox[k] \in TorrentMessage
    BY DEF FlowInv, InboxOK
  <2> QED
    BY Zenon, <2>1, MessageFields DEF Answers, Requested
<1> QED
  BY Zenon, <1>3, <1>4 DEF AnswersOwned

\* A peer adds a message that answers nothing, or that answers a block which it
\* no longer holds.
LEMMA OwnedTold ==
  ASSUME FlowInv, OnePlace, AnswersOwned, NEW m \in TorrentMessage, Tell(m),
         sched' = sched, NEW p \in Peer, m.peer = p,
         \A q \in Peer : /\ pending'[q] \subseteq pending[q]
                         /\ Asked(q)' \subseteq Asked(q)
                         /\ Unique(mail'[q], Asks),
         m.type \in Answers => /\ m.slot \in pending[p] \cup Asked(p)
                               /\ m.slot \notin pending'[p] \cup Asked(p)'
  PROVE  OnePlace' /\ AnswersOwned'
<1>1. inbox \in Seq(TorrentMessage) /\ inbox' = Append(inbox, m)
  BY Zenon DEF FlowInv, InboxOK, Tell
<1>2. m.type \in Answers => m.slot \in InFlightSlots(sched, p) /\ m.slot \notin Answered
  BY Zenon DEF OnePlace
<1>3. /\ m.type \notin Answers => Answered' \subseteq Answered
      /\ Answered' \subseteq Answered \cup {m.slot}
      /\ Unique(inbox', Answers)
  BY Zenon, <1>1, <1>2, SlotsAppend DEF Answered, AnswersOwned
<1>4. ASSUME NEW q \in Peer
      PROVE  pending'[q] \cap Answered' = {} /\ Asked(q)' \cap Answered' = {}
  <2>1. CASE m.type \notin Answers
    BY Zenon, <2>1, <1>3 DEF OnePlace
  <2>2. CASE m.type \in Answers
    <3>1. m.slot \notin pending'[q] /\ m.slot \notin Asked(q)'
      BY <2>2, <1>2 DEF OnePlace, InFlightSlots
    <3> QED
      BY <3>1, <1>3 DEF OnePlace
  <2> QED
    BY Zenon, <2>1, <2>2
<1>5. OnePlace'
  BY Zenon, <1>4 DEF OnePlace
<1>6. ASSUME NEW k \in 1..Len(inbox'), inbox'[k].type \in Answers
      PROVE  sched'.in_flight[inbox'[k].slot] = inbox'[k].peer
  <2>1. /\ Len(inbox') = Len(inbox) + 1 /\ Len(inbox) \in Nat
        /\ \A i \in 1..Len(inbox) : inbox'[i] = inbox[i]
        /\ inbox'[Len(inbox) + 1] = m
    BY <1>1, AppendFacts
  <2>2. CASE k \in 1..Len(inbox)
    BY Zenon, <2>1, <2>2, <1>6 DEF AnswersOwned
  <2>3. CASE k = Len(inbox) + 1
    BY Zenon, <2>1, <2>3, <1>2, <1>6 DEF InFlightSlots
  <2> QED
    BY <2>1, <2>2, <2>3
<1> QED
  BY Zenon, <1>3, <1>5, <1>6 DEF AnswersOwned

\* fill_peer_request_window_to asks only for blocks that are nowhere.
LEMMA OwnedFillPeer ==
  ASSUME FlowInv, Owned, NEW p \in Peer, FillPeer(p)
  PROVE  Owned'
<1>1. NobodyLeaves' /\ CompletionOK'
  <2>1. TodoFor(todo', Peer)
    BY Zenon, TodoProceeds DEF FillPeer, Owned, NobodyLeaves
  <2> QED
    BY Zenon, <2>1 DEF FillPeer, Owned, NobodyLeaves, CompletionOK, VerifiedStaysGood
<1>2. inbox' = inbox /\ pending' = pending
  BY Zenon DEF FillPeer
<1>3. CASE UNCHANGED <<sched, mail>>
  BY Zenon, <1>1, <1>2, <1>3, OwnedKept DEF Owned
<1>4. ASSUME NEW new \in SUBSET Slot, NEW sent \in SUBSET new, NEW queued,
             RequestsSent(p, new, sent, queued)
      PROVE  OnePlace' /\ AnswersOwned'
  <2>1. /\ sent \subseteq Slot /\ \A y \in sent : sched.in_flight[y] = NoPeer
        /\ \A y \in Slot : sched'.in_flight[y] = IF y \in sent THEN p ELSE sched.in_flight[y]
    BY Zenon, <1>4 DEF RequestsSent, Requestable, Filled
  <2>2. \A q \in Peer : InFlightSlots(sched, q) \subseteq InFlightSlots(sched', q)
    BY Zenon, <2>1, SchedulerConstants DEF InFlightSlots
  <2>3. \A q \in Peer : sent \cap InFlightSlots(sched, q) = {}
    BY Zenon, <2>1, SchedulerConstants DEF InFlightSlots
  <2>4. ASSUME NEW k \in 1..Len(inbox), inbox[k].type \in Answers
        PROVE  /\ inbox[k].slot \in Slot /\ inbox[k].peer \in Peer
               /\ sched.in_flight[inbox[k].slot] = inbox[k].peer
    <3>1. inbox[k] \in TorrentMessage
      BY DEF FlowInv, InboxOK
    <3> QED
      BY Zenon, <3>1, <2>4, MessageFields DEF Answers, Requested, Owned, AnswersOwned
  <2>5. sent \cap Answered = {}
    <3> SUFFICES ASSUME NEW k \in 1..Len(inbox), inbox[k].type \in Answers
                 PROVE  inbox[k].slot \notin sent
      BY Zenon DEF Answered, Slots
    <3> QED
      BY <2>1, <2>4, SchedulerConstants
  <2>6. AnswersOwned'
    <3> SUFFICES ASSUME NEW k \in 1..Len(inbox), inbox[k].type \in Answers
                 PROVE  sched'.in_flight[inbox[k].slot] = inbox[k].peer
      BY Zenon, <1>2 DEF Owned, AnswersOwned
    <3> QED
      BY Zenon, <2>1, <2>4, SchedulerConstants
  <2>7. /\ Slots(queued, Asks) \subseteq sent /\ Unique(queued, Asks)
    <3>1. \A k \in 1..Len(queued) : \E x \in sent : queued[k] = NeedPiece(x)
      BY <1>4 DEF RequestsSent
    <3>2. \A k \in 1..Len(queued) : queued[k].slot \in sent
      <4>1. \A x : NeedPiece(x).slot = x
        BY Zenon DEF NeedPiece
      <4> QED
        BY <3>1, <4>1, Zenon
    <3> QED
      BY <3>2, <1>4, Zenon DEF Slots, Unique, RequestsSent
  <2>8. /\ Asked(p) \subseteq InFlightSlots(sched, p) /\ Unique(mail[p], Asks)
        /\ mail'[p] = mail[p] \o queued
    BY Zenon, <1>4 DEF Owned, OnePlace, RequestsSent, FlowInv, MailOK
  <2>9. /\ Asked(p)' \subseteq Asked(p) \cup sent /\ Unique(mail'[p], Asks)
    <3>1. mail[p] \in Seq(PeerMessage) /\ queued \in Seq(PeerMessage)
      BY Zenon, <1>4, QueuedTyped
    <3>2. Slots(mail[p], Asks) \cap Slots(queued, Asks) = {}
      BY Zenon, <2>3, <2>7, <2>8 DEF Asked
    <3> QED
      BY <3>1, <3>2, <2>7, <2>8, SlotsConcat DEF Asked
  <2>10. ASSUME NEW q \in Peer, q # p
         PROVE  mail'[q] = mail[q] /\ Asked(q)' = Asked(q)
    BY Zenon, <2>10, <1>4 DEF RequestsSent, Asked, FlowInv, MailOK
  <2>11. Answered' = Answered
    BY Zenon, <1>2 DEF Answered
  <2>12. sent \subseteq InFlightSlots(sched', p)
    BY Zenon, <2>1 DEF InFlightSlots
  <2>13. ASSUME NEW q \in Peer
         PROVE  /\ pending'[q] \subseteq InFlightSlots(sched', q)
                /\ Asked(q)' \subseteq InFlightSlots(sched', q)
                /\ pending'[q] \cap Asked(q)' = {}
                /\ pending'[q] \cap Answered' = {} /\ Asked(q)' \cap Answered' = {}
                /\ Unique(mail'[q], Asks)
    <3>1. /\ pending[q] \subseteq InFlightSlots(sched, q)
          /\ Asked(q) \subseteq InFlightSlots(sched, q)
          /\ pending[q] \cap Asked(q) = {}
          /\ pending[q] \cap Answered = {} /\ Asked(q) \cap Answered = {}
          /\ Unique(mail[q], Asks)
      BY Zenon DEF Owned, OnePlace
    <3>2. CASE q = p
      BY <3>1, <3>2, <1>2, <2>2, <2>3, <2>5, <2>9, <2>11, <2>12, Zenon
    <3>3. CASE q # p
      BY Zenon, <3>1, <3>3, <1>2, <2>2, <2>10, <2>11
    <3> QED
      BY Zenon, <3>2, <3>3
  <2> QED
    BY Zenon, <2>6, <2>13 DEF OnePlace
<1> QED
  BY Zenon, <1>1, <1>3, <1>4, FillCases DEF Owned

\* handle_incoming_piece takes blocks of unverified pieces only.
LEMMA OwnedIncomingPiece ==
  ASSUME FlowInv, Owned, HandleIncomingPiece
  PROVE  Owned'
<1> DEFINE m == Head(inbox)
           p == m.peer
           x == m.slot
<1>1. /\ p \in Peer /\ x \in Requested /\ m.content \in {"good", "bad"}
      /\ m.type = "IncomingPiece" /\ inbox # <<>> /\ inbox' = Tail(inbox)
      /\ \/ UNCHANGED <<state, sched, bitfield, disk, completed, todo, mail>>
         \/ BlockStored(p, x, m.content)
  BY Zenon, IncomingCases
<1>2. UNCHANGED <<peers, expired, alive, pieces, pending, dying, connects>>
  BY Zenon DEF HandleIncomingPiece
<1>3. /\ Len(inbox) \in Nat \ {0} /\ m = inbox[1]
      /\ \A k \in 1..Len(inbox') : k + 1 \in 1..Len(inbox) /\ inbox'[k] = inbox[k + 1]
  BY <1>1, TailFacts, EmptyFacts DEF FlowInv, InboxOK
<1>4. x \in Slot /\ sched.in_flight[x] = p
  BY <1>1, <1>3 DEF Owned, AnswersOwned, Answers, Requested
<1> HIDE DEF m
<1>5. \A k \in 1..Len(inbox') : inbox'[k].type # "KillPeer"
  BY Zenon, <1>3 DEF Owned, NobodyLeaves
<1>6. CASE UNCHANGED <<state, sched, bitfield, disk, completed, todo, mail>>
  <2>1. OnePlace' /\ AnswersOwned'
    BY Zenon, <1>1, <1>2, <1>6, OwnedTaken DEF Owned
  <2> QED
    BY Zenon, <2>1, <1>2, <1>5, <1>6 DEF Owned, NobodyLeaves, CompletionOK, VerifiedStaysGood
<1>7. CASE BlockStored(p, x, m.content)
  <2>1. mail' = mail
    BY <1>4, <1>7, Zenon DEF BlockStored
  <2>2. OnePlace' /\ AnswersOwned'
    <3>1. \A y \in Slot : \/ sched'.in_flight[y] = sched.in_flight[y]
                          \/ m.type \in Answers /\ y = x
      BY Zenon, <1>1, <1>7 DEF BlockStored, Answers
    <3> QED
      BY <3>1, <2>1, <1>1, <1>2, OwnedTaken, Zenon DEF Owned, m
  <2>3. NobodyLeaves'
    <3>1. (peers \ alive) \cap Peer = {}
      BY Zenon DEF Owned, NobodyLeaves
    <3> QED
      BY Zenon, <3>1, <1>2, <1>5, <1>7 DEF BlockStored, Owned, NobodyLeaves
  <2>4. PieceOf(x) \notin bitfield
    BY Zenon, <1>1, <1>4, SchedulerConstants
    DEF FlowInv, BooksOK, SchedulerConsistent, Consistent, DoneNotInFlight
  <2>5. disk \in [Slot -> {"none", "good", "bad"}] /\ PieceOf(x) \in Piece
    BY Zenon, <1>4, PieceOfSlot DEF FlowInv, FieldsOK
  <2>6. VerifiedStaysGood'
    <3> SUFFICES ASSUME NEW y \in Slot, PieceOf(y) \in bitfield'
                 PROVE  disk'[y] = "good"
      BY Zenon DEF VerifiedStaysGood
    <3>1. CASE PieceOf(y) \in bitfield
      BY Zenon, <3>1, <2>4, <2>5, <1>4, <1>7 DEF BlockStored, Owned, CompletionOK, VerifiedStaysGood
    <3>2. CASE PieceOf(y) = PieceOf(x) /\ Verified(PieceOf(x))
      BY Zenon, <3>2 DEF Verified, BlocksOf
    <3> QED
      BY Zenon, <3>1, <3>2, <1>7 DEF BlockStored
  <2>7. completed' \in {0, 1} /\ (completed' = 1 => bitfield' = Piece)
    BY <2>4, <2>5, <1>7 DEF BlockStored, Owned, CompletionOK
  <2> QED
    BY Zenon, <2>2, <2>3, <2>6, <2>7 DEF Owned, CompletionOK
<1> QED
  BY Zenon, <1>1, <1>6, <1>7

\* peer_rejected_request and peer_ready.
LEMMA OwnedMessages ==
  ASSUME FlowInv, Owned, HandlePeerRejectedRequest \/ HandlePeerReady
  PROVE  Owned'
<1> DEFINE m == Head(inbox)
<1>1. /\ inbox # <<>> /\ inbox' = Tail(inbox)
      /\ m.type \in {"PeerRejectedRequest", "PeerReady"} /\ m \in TorrentMessage
  BY Zenon, InboxSteps DEF HandlePeerRejectedRequest, HandlePeerReady, Take, FlowInv
<1>2. \A k \in 1..Len(inbox') : k + 1 \in 1..Len(inbox) /\ inbox'[k] = inbox[k + 1]
  BY <1>1, TailFacts DEF FlowInv, InboxOK
<1>3. /\ UNCHANGED <<state, bitfield, disk, peers, completed, expired, peerVars>>
      /\ todo' \in {Refill(m.peer), <<>>}
  BY Zenon DEF HandlePeerRejectedRequest, HandlePeerReady
<1>4. m.peer \in Peer /\ sched \in SchedulerRecord
  BY Zenon, <1>1, MessageFields
  DEF FlowInv, BooksOK, SchedulerConsistent, Consistent, SchedulerType
<1>5. \A y \in Slot : \/ sched'.in_flight[y] = sched.in_flight[y]
                      \/ m.type \in Answers /\ y = m.slot
  <2>1. CASE HandlePeerRejectedRequest
    <3>1. /\ m.type = "PeerRejectedRequest"
          /\ sched' = ReleasePeerRequest(sched, m.peer, m.slot)
      BY <2>1, Zenon DEF HandlePeerRejectedRequest, Take
    <3>2. m.slot \in Slot
      BY <3>1, <1>1, MessageFields, Zenon DEF Requested
    <3> QED
      BY <3>1, <3>2, <1>4, ReleasePeerRequestEffect DEF Answers
  <2>2. CASE HandlePeerReady
    <3>1. m.type = "PeerReady" /\ sched' = UpdatePeerAvailability(sched, m.peer, m.pieces)
      BY <2>2, Zenon DEF HandlePeerReady, Take
    <3>2. m.pieces \in SUBSET Piece
      BY Zenon, <3>1, <1>1, MessageFields
    <3> QED
      BY Zenon, <3>1, <3>2, <1>4, UpdatePeerAvailabilityEffect
  <2> QED
    BY Zenon, <2>1, <2>2
<1>6. OnePlace' /\ AnswersOwned'
  BY <1>1, <1>3, <1>5, OwnedTaken, Zenon DEF Owned, peerVars
<1> HIDE DEF m
<1>7. NobodyLeaves'
  BY <1>2, <1>3, <1>4, TodoSteps, Zenon DEF Owned, NobodyLeaves, peerVars
<1> QED
  BY Zenon, <1>3, <1>6, <1>7 DEF Owned, CompletionOK, VerifiedStaysGood

\* No peer is forgotten, and no request released as stale.
LEMMA OwnedContinue ==
  ASSUME Steady, FlowInv, Owned, ExpireRequests \/ \E p \in Peer : ForgetPeer(p)
  PROVE  Owned'
<1>1. CASE ExpireRequests
  <2>1. /\ sched' = ReleaseStaleRequests(sched, {}) /\ todo' = Tail(todo)
        /\ UNCHANGED <<state, bitfield, disk, peers, completed, inbox, peerVars>>
    BY <1>1, Zenon DEF ExpireRequests, Steady, May
  <2>2. sched \in SchedulerRecord
    BY Zenon DEF FlowInv, BooksOK, SchedulerConsistent, Consistent, SchedulerType
  <2>3. \A y \in Slot : sched'.in_flight[y] = sched.in_flight[y]
    BY <2>1, <2>2, ReleaseStaleRequestsEffect
  <2>4. OnePlace' /\ AnswersOwned'
    BY Zenon, <2>1, <2>3, OwnedKept DEF Owned, peerVars
  <2>5. TodoFor(todo', Peer)
    BY <1>1, <2>1, TodoProceeds, Zenon DEF ExpireRequests, Owned, NobodyLeaves
  <2> QED
    BY Zenon, <2>1, <2>4, <2>5
    DEF Owned, NobodyLeaves, CompletionOK, VerifiedStaysGood, peerVars
<1>2. ASSUME NEW p \in Peer, ForgetPeer(p)
      PROVE  FALSE
  BY Zenon, <1>2, TodoProceeds DEF ForgetPeer, Owned, NobodyLeaves
<1> QED
  BY Zenon, <1>1, <1>2

\* Commands of the caller.
LEMMA OwnedCommands ==
  ASSUME Steady, FlowInv, Owned,
         \/ Start \/ Pause \/ Rechoke \/ HandleKillPeer
         \/ \E p \in Peer : PeerConnected(p) \/ DisconnectPeer(p)
  PROVE  Owned'
<1>0. peers \in SUBSET Peer
  BY Zenon DEF FlowInv, FieldsOK
<1>1. CASE Start
  <2>1. TodoFor(todo', Peer)
    <3>1. TodoFor(Due(FillStep(peers, InitialWindow)), Peer)
      BY <1>0, TodoSteps, Zenon
    <3>2. TodoFor(RechokeSteps(sched, peers), Peer)
      BY Zenon, <1>0, TodoRechoke
    <3>3. todo' = Due(FillStep(peers, InitialWindow)) \o RechokeSteps(sched, peers)
      BY Zenon, <1>1 DEF Start
    <3> QED
      BY <3>1, <3>2, <3>3, TodoConcat, Zenon
  <2>2. OnePlace' /\ AnswersOwned'
    BY Zenon, <1>1, OwnedKept DEF Start, peerVars, Owned
  <2> QED
    BY Zenon, <1>1, <2>1, <2>2
    DEF Start, peerVars, Owned, NobodyLeaves, CompletionOK, VerifiedStaysGood
<1>2. CASE Pause
  <2>1. OnePlace' /\ AnswersOwned'
    BY <1>2, OwnedKept, Zenon DEF Pause, peerVars, Owned
  <2>2. peers' = peers
    BY <1>2, Zenon DEF Pause, Owned, NobodyLeaves
  <2> QED
    BY Zenon, <1>2, <2>1, <2>2
    DEF Pause, peerVars, Owned, NobodyLeaves, CompletionOK, VerifiedStaysGood
<1>3. CASE Rechoke
  <2>1. TodoFor(todo', Peer)
    BY <1>0, <1>3, TodoRechoke, Zenon DEF Rechoke
  <2>2. OnePlace' /\ AnswersOwned'
    BY Zenon, <1>3, OwnedKept DEF Rechoke, peerVars, Owned
  <2> QED
    BY Zenon, <1>3, <2>1, <2>2
    DEF Rechoke, peerVars, Owned, NobodyLeaves, CompletionOK, VerifiedStaysGood
<1>4. ASSUME HandleKillPeer
      PROVE  FALSE
  <2>1. inbox # <<>> /\ Head(inbox).type = "KillPeer"
    BY Zenon, <1>4 DEF HandleKillPeer, Take
  <2>2. Head(inbox) = inbox[1] /\ 1 \in 1..Len(inbox)
    BY <2>1, TailFacts, EmptyFacts, SMTT(30) DEF FlowInv, InboxOK
  <2> QED
    BY Zenon, <2>1, <2>2 DEF Owned, NobodyLeaves
<1>5. ASSUME NEW p \in Peer, PeerConnected(p)
      PROVE  Owned'
  <2>1. OnePlace' /\ AnswersOwned'
    BY Zenon, <1>5, OwnedKept DEF PeerConnected, Owned
  <2> QED
    BY <1>5, <2>1, Zenon
    DEF PeerConnected, Owned, NobodyLeaves, CompletionOK, VerifiedStaysGood
<1>6. ASSUME NEW p \in Peer, DisconnectPeer(p)
      PROVE  FALSE
  BY Zenon, <1>6 DEF DisconnectPeer, Steady, May
<1> QED
  BY <1>1, <1>2, <1>3, <1>4, <1>5, <1>6, Zenon

\* Nothing of the torrent but its mailbox changes, and no KillPeer comes.
LEMMA OwnedPeerStep ==
  ASSUME FlowInv, Owned, UNCHANGED <<torrentVars, alive, dying>>,
         \/ inbox' = inbox
         \/ \E m \in TorrentMessage : Tell(m) /\ m.type # "KillPeer",
         OnePlace' /\ AnswersOwned'
  PROVE  Owned'
<1>1. \A k \in 1..Len(inbox') : inbox'[k].type # "KillPeer"
  <2>1. CASE inbox' = inbox
    BY Zenon, <2>1 DEF Owned, NobodyLeaves
  <2>2. ASSUME NEW m \in TorrentMessage, Tell(m), m.type # "KillPeer"
        PROVE  \A k \in 1..Len(inbox') : inbox'[k].type # "KillPeer"
    <3>1. inbox \in Seq(TorrentMessage) /\ inbox' = Append(inbox, m)
      BY Zenon, <2>2 DEF FlowInv, InboxOK, Tell
    <3>2. /\ Len(inbox') = Len(inbox) + 1 /\ Len(inbox) \in Nat
          /\ \A i \in 1..Len(inbox) : inbox'[i] = inbox[i]
          /\ inbox'[Len(inbox) + 1] = m
      BY <3>1, AppendFacts
    <3> QED
      BY <3>2, <2>2 DEF Owned, NobodyLeaves
  <2> QED
    BY Zenon, <2>1, <2>2
<1> QED
  BY Zenon, <1>1 DEF torrentVars, Owned, NobodyLeaves, CompletionOK, VerifiedStaysGood

\* A peer moves a block from its mailbox to the remote, and from there, or
\* straight away, to the torrent.
LEMMA OwnedPeers ==
  ASSUME Steady, FlowInv, Owned, NEW p \in Peer, PeerStep(p)
  PROVE  Owned'
<1>0. /\ OnePlace /\ AnswersOwned /\ pending \in [Peer -> SUBSET Slot]
      /\ mail \in [Peer -> Seq(PeerMessage)] /\ pieces \in [Peer -> SUBSET Piece]
  BY Zenon DEF Owned, FlowInv, FieldsOK, MailOK, Requested
<1>1. ASSUME NEW type \in Asks, TakeMail(p, type)
      PROVE  /\ Head(mail[p]) \in PeerMessage /\ Head(mail[p]).slot \in Requested
             /\ Head(mail[p]).slot \in Asked(p) /\ Head(mail[p]).slot \notin Asked(p)'
             /\ \A q \in Peer : Asked(q)' \subseteq Asked(q) /\ Unique(mail'[q], Asks)
  <2>1. mail[p] # <<>> /\ Head(mail[p]).type = type /\ mail' = [mail EXCEPT ![p] = Tail(mail[p])]
    BY Zenon, <1>1 DEF TakeMail
  <2>2. Head(mail[p]) \in PeerMessage /\ mail[p] \in Seq(PeerMessage)
    BY Zenon, <2>1, <1>0, TailFacts
  <2>3. mail'[p] = Tail(mail[p]) /\ \A q \in Peer : q # p => mail'[q] = mail[q]
    BY <2>1, <1>0, Zenon
  <2>4. /\ Asked(p)' \subseteq Asked(p) /\ Unique(mail'[p], Asks)
        /\ Head(mail[p]).slot \in Asked(p) /\ Head(mail[p]).slot \notin Asked(p)'
    BY <2>1, <2>2, <2>3, <1>0, SlotsTail, SMTT(30) DEF Asked, OnePlace
  <2>5. \A q \in Peer : q # p => Asked(q)' = Asked(q) /\ Unique(mail'[q], Asks)
    BY Zenon, <2>3, <1>0 DEF Asked, OnePlace
  <2>6. Head(mail[p]).slot \in Requested
    BY Zenon, <2>2 DEF PeerMessage
  <2> QED
    BY Zenon, <2>2, <2>4, <2>5, <2>6
<1>2. CASE HandleNeedPiece(p)
  <2> DEFINE x == Head(mail[p]).slot
  <2>1. /\ x \in Requested /\ x \in Asked(p) /\ x \notin Asked(p)'
        /\ \A q \in Peer : Asked(q)' \subseteq Asked(q) /\ Unique(mail'[q], Asks)
    BY Zenon, <1>1, <1>2 DEF HandleNeedPiece, Asks
  <2>2. /\ UNCHANGED <<torrentVars, alive, pieces, dying, connects>>
        /\ \/ Tell(PeerRejectedRequest(p, x)) /\ UNCHANGED pending
           \/ pending' = [pending EXCEPT ![p] = @ \cup {x}] /\ UNCHANGED inbox
    BY <1>2, ZenonT(30) DEF HandleNeedPiece, RejectPieceRequest
  <2> HIDE DEF x
  <2>3. /\ x \in InFlightSlots(sched, p) /\ x \notin pending[p] /\ x \notin Answered
        /\ x \in Slot /\ sched' = sched
    BY Zenon, <1>0, <2>1, <2>2 DEF OnePlace, InFlightSlots, torrentVars
  <2>4. CASE Tell(PeerRejectedRequest(p, x)) /\ UNCHANGED pending
    <3>1. PeerRejectedRequest(p, x) \in TorrentMessage
      BY Zenon, <2>1, MessagesTyped
    <3>2. /\ PeerRejectedRequest(p, x).type = "PeerRejectedRequest"
          /\ PeerRejectedRequest(p, x).peer = p /\ PeerRejectedRequest(p, x).slot = x
      BY Zenon DEF PeerRejectedRequest
    <3>3. /\ \A q \in Peer : /\ pending'[q] \subseteq pending[q]
                            /\ Asked(q)' \subseteq Asked(q)
                            /\ Unique(mail'[q], Asks)
          /\ x \in pending[p] \cup Asked(p) /\ x \notin pending'[p] \cup Asked(p)'
      BY Zenon, <2>1, <2>3, <2>4
    <3>4. OnePlace' /\ AnswersOwned'
      BY <3>1, <3>2, <3>3, <2>3, <2>4, <1>0, OwnedTold, ZenonT(30)
    <3> QED
      BY <3>1, <3>2, <3>4, <2>2, <2>4, OwnedPeerStep, Zenon
  <2>5. CASE pending' = [pending EXCEPT ![p] = @ \cup {x}] /\ UNCHANGED inbox
    <3>1. /\ pending'[p] = pending[p] \cup {x}
          /\ \A q \in Peer : q # p => pending'[q] = pending[q]
      BY <2>5, <1>0, Zenon
    <3>2. Answered' = Answered /\ AnswersOwned'
      BY <2>3, <2>5, <1>0, Zenon DEF Answered, AnswersOwned
    <3>3. ASSUME NEW q \in Peer
          PROVE  /\ pending'[q] \subseteq InFlightSlots(sched', q)
                 /\ Asked(q)' \subseteq InFlightSlots(sched', q)
                 /\ pending'[q] \cap Asked(q)' = {}
                 /\ pending'[q] \cap Answered' = {} /\ Asked(q)' \cap Answered' = {}
                 /\ Unique(mail'[q], Asks)
      <4>1. /\ pending[q] \subseteq InFlightSlots(sched, q)
            /\ Asked(q) \subseteq InFlightSlots(sched, q)
            /\ pending[q] \cap Asked(q) = {}
            /\ pending[q] \cap Answered = {} /\ Asked(q) \cap Answered = {}
            /\ Asked(q)' \subseteq Asked(q) /\ Unique(mail'[q], Asks)
        BY <2>1, <1>0, Zenon DEF OnePlace
      <4>2. CASE q = p
        BY <4>1, <4>2, <3>1, <3>2, <2>1, <2>3, Zenon
      <4>3. CASE q # p
        BY <4>1, <4>3, <3>1, <3>2, <2>3, Zenon
      <4> QED
        BY Zenon, <4>2, <4>3
    <3>4. OnePlace'
      BY Zenon, <3>3 DEF OnePlace
    <3> QED
      BY Zenon, <3>2, <3>4, <2>2, <2>5, OwnedPeerStep
  <2> QED
    BY <2>2, <2>4, <2>5, Zenon
<1>3. CASE HandleCancelPiece(p)
  <2>1. /\ \A q \in Peer : Asked(q)' \subseteq Asked(q) /\ Unique(mail'[q], Asks)
    BY Zenon, <1>1, <1>3 DEF HandleCancelPiece, Asks
  <2>2. /\ UNCHANGED <<torrentVars, inbox, alive, dying>>
        /\ \A q \in Peer : pending'[q] \subseteq pending[q]
    BY <1>0, <1>3, Zenon DEF HandleCancelPiece
  <2>3. Answered' = Answered /\ sched' = sched /\ AnswersOwned'
    BY <2>2, <1>0, Zenon DEF Answered, torrentVars, AnswersOwned
  <2>4. OnePlace'
    BY <2>1, <2>2, <2>3, <1>0, Zenon DEF OnePlace
  <2> QED
    BY <2>2, <2>3, <2>4, OwnedPeerStep, Zenon
<1>4. ASSUME NEW x \in Slot, NEW content \in {"good", "bad"}, RecvPiece(p, x, content)
      PROVE  Owned'
  <2>1. /\ UNCHANGED <<torrentVars, alive, mail, dying>> /\ x \in pending[p]
        /\ pending' = [pending EXCEPT ![p] = @ \ {x}]
        /\ Tell(IncomingPiece(p, x, content))
    BY Zenon, <1>4 DEF RecvPiece
  <2>2. x \in Requested
    BY Zenon, <2>1 DEF FlowInv, FieldsOK
  <2>3. IncomingPiece(p, x, content) \in TorrentMessage
    BY Zenon, <2>2, MessagesTyped
  <2>4. /\ IncomingPiece(p, x, content).type = "IncomingPiece"
        /\ IncomingPiece(p, x, content).peer = p /\ IncomingPiece(p, x, content).slot = x
    BY Zenon DEF IncomingPiece
  <2>5. /\ x \notin pending'[p] /\ \A q \in Peer : pending'[q] \subseteq pending[q]
    BY Zenon, <2>1, <1>0
  <2>6. /\ \A q \in Peer : Asked(q)' = Asked(q) /\ Unique(mail'[q], Asks)
        /\ sched' = sched /\ x \notin Asked(p)
    BY <2>1, <1>0, Zenon DEF Asked, OnePlace, torrentVars
  <2>7. OnePlace' /\ AnswersOwned'
    BY <2>1, <2>3, <2>4, <2>5, <2>6, <1>0, OwnedTold, Zenon
  <2> QED
    BY <2>1, <2>3, <2>4, <2>7, OwnedPeerStep, Zenon
<1>5. ASSUME NEW x \in Slot, RecvCancel(p, x)
      PROVE  Owned'
  <2>1. /\ UNCHANGED <<torrentVars, inbox, alive, mail, dying>>
        /\ \A q \in Peer : pending'[q] \subseteq pending[q]
    BY <1>0, <1>5, Zenon DEF RecvCancel
  <2>2. OnePlace' /\ AnswersOwned'
    BY Zenon, <2>1, <1>0, OwnedKept DEF torrentVars
  <2> QED
    BY Zenon, <2>1, <2>2, OwnedPeerStep
<1>6. CASE RecvBitfield(p) \/ NotifyReady(p)
  <2>1. PICK ps \in SUBSET Piece : Tell(PeerReady(p, ps))
    BY <1>0, <1>6, FlowConstants, Zenon DEF RecvBitfield, NotifyReady
  <2>2. UNCHANGED <<torrentVars, alive, mail, pending, dying>>
    BY Zenon, <1>6 DEF RecvBitfield, NotifyReady, peerVars
  <2>3. PeerReady(p, ps) \in TorrentMessage
    BY Zenon, MessagesTyped
  <2>4. PeerReady(p, ps).type = "PeerReady" /\ PeerReady(p, ps).peer = p
    BY Zenon DEF PeerReady
  <2>5. /\ \A q \in Peer : Asked(q)' = Asked(q) /\ Unique(mail'[q], Asks)
        /\ sched' = sched /\ pending' = pending
    BY <2>2, <1>0, Zenon DEF Asked, OnePlace, torrentVars
  <2>6. OnePlace' /\ AnswersOwned'
    BY <2>1, <2>3, <2>4, <2>5, <1>0, OwnedTold, ZenonT(30) DEF Answers
  <2> QED
    BY <2>1, <2>2, <2>3, <2>4, <2>6, OwnedPeerStep, Zenon
<1>7. ASSUME NEW n \in {1, 2}, PeerStops(p, n)
      PROVE  FALSE
  BY Zenon, <1>7 DEF PeerStops, Steady, May
<1>8. ASSUME NotifyStopped(p)
      PROVE  FALSE
  <2>1. dying[p] = 0
    BY Zenon DEF Owned, NobodyLeaves
  <2> QED
    BY <2>1, <1>8 DEF NotifyStopped
<1> QED
  BY <1>2, <1>3, <1>4, <1>5, <1>6, <1>7, <1>8, Zenon DEF PeerStep

\* The invariant holds at the start.
LEMMA OwnedInit == Init => Owned
<1> SUFFICES ASSUME Init PROVE Owned
  BY Zenon
<1>1. NobodyLeaves
  BY TodoSteps, SMTT(30) DEF Init, NobodyLeaves
<1>2. OnePlace /\ AnswersOwned
  BY DEF Init, OnePlace, AnswersOwned, Asked, Answered, Slots, Unique
<1>3. CompletionOK
  BY DEF Init, CompletionOK, VerifiedStaysGood
<1> QED
  BY Zenon, <1>1, <1>2, <1>3 DEF Owned

\* Every step keeps it.
LEMMA OwnedNext ==
  ASSUME Steady
  PROVE  FlowInv /\ Owned /\ [Next]_vars => Owned'
<1> SUFFICES ASSUME FlowInv, Owned, [Next]_vars PROVE Owned'
  BY Zenon
<1>1. CASE Continue
  BY Zenon, <1>1, OwnedFillPeer, OwnedContinue DEF Continue
<1>2. CASE HandleMessage
  BY <1>2, OwnedIncomingPiece, OwnedMessages, OwnedCommands, Zenon DEF HandleMessage
<1>3. CASE Start \/ Pause \/ Rechoke
  BY Zenon, <1>3, OwnedCommands
<1>4. CASE \E p \in Peer : PeerConnected(p) \/ DisconnectPeer(p) \/ PeerStep(p)
  BY <1>4, OwnedCommands, OwnedPeers, Zenon
<1>5. CASE UNCHANGED vars
  BY <1>5, Zenon DEF vars, torrentVars, peerVars, Owned, NobodyLeaves, OnePlace, AnswersOwned,
              CompletionOK, VerifiedStaysGood, Asked, Answered
<1> QED
  BY <1>1, <1>2, <1>3, <1>4, <1>5, Zenon DEF Next

\* While no request is given up before its answer, torrent and peers agree on
\* the scheduler and neither side of a connection exceeds the window
\* (torrent/piece_flow.rs, peer/actor.rs).
THEOREM FlowIsSound ==
  ASSUME Steady
  PROVE  Spec => []FlowSound
<1>1. FlowInv /\ Owned => FlowSound
  <2> SUFFICES ASSUME FlowInv, Owned, NEW p \in Peer
               PROVE  Cardinality(pending[p]) <= Window
    BY FlowTypes, Zenon DEF FlowSound, PendingWithinWindow, FlowInv, BooksOK
  <2>1. /\ pending[p] \subseteq InFlightSlots(sched, p)
        /\ Cardinality(InFlightSlots(sched, p)) <= Window
    BY Zenon DEF Owned, OnePlace, FlowInv, BooksOK, SchedulerConsistent
  <2>2. /\ IsFiniteSet(InFlightSlots(sched, p)) /\ pending[p] \in SUBSET Slot
    BY <2>1, SlotSetFinite, Zenon DEF InFlightSlots
  <2>3. /\ Cardinality(pending[p]) <= Cardinality(InFlightSlots(sched, p))
        /\ Cardinality(pending[p]) \in Nat
        /\ Cardinality(InFlightSlots(sched, p)) \in Nat /\ Window \in Nat
    BY <2>1, <2>2, FS_Subset, FS_CardinalityType, FlowConstants, Zenon DEF Window
  <2> QED
    BY <2>1, <2>3
<1> QED
  BY FlowInit, FlowNext, OwnedInit, OwnedNext, <1>1, PTL DEF Spec

\* ... the download is finished once, when every piece is verified
\* (piece_completed announces Completed to the trackers).
THEOREM FlowCompletionIsSound ==
  ASSUME Steady
  PROVE  Spec => []CompletionSound
<1>1. FlowInv /\ Owned => CompletionSound
  BY SMTT(30) DEF FlowInv, BooksOK, Owned, CompletionOK, CompletionSound, CompletedOnce
<1> QED
  BY FlowInit, FlowNext, OwnedInit, OwnedNext, <1>1, PTL DEF Spec

\* ... and a verified piece is never overwritten by what arrives later
\* (handle_incoming_piece writes before it looks at the piece).
THEOREM FlowVerifiedStaysGood ==
  ASSUME Steady
  PROVE  Spec => []VerifiedStaysGood
<1>1. FlowInv /\ Owned => VerifiedStaysGood
  BY Zenon DEF Owned, CompletionOK
<1> QED
  BY FlowInit, FlowNext, OwnedInit, OwnedNext, <1>1, PTL DEF Spec

=============================================================================
