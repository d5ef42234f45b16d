-------------------------- MODULE FlowRequestProofs ---------------------------
(***************************************************************************)
(* The download of blocks while no answer is dropped, however peers come    *)
(* and go: no request is forgotten.                                         *)
(***************************************************************************)
EXTENDS PieceFlowProofs

\* An answer is dropped when storing its block fails, and never comes when the
\* remote cancels the block. Until the request times out nothing stands for it.
AnswersKept == Env \cap {"write", "cancel"} = {}

\* A mailbox q has a message about block x; the last one is a NeedPiece.
Mentions(q, x) == \E k \in 1..Len(q) : q[k].slot = x

LastAsks(q, x) ==
  \E k \in 1..Len(q) : /\ q[k].slot = x /\ q[k].type = "NeedPiece"
                       /\ \A j \in 1..Len(q) : q[j].slot = x => j <= k

\* A queue of the torrent has an answer of p about x; a KillPeer of p.
AnswerIn(q, p, x) ==
  \E k \in 1..Len(q) : q[k].type \in Answers /\ q[k].peer = p /\ q[k].slot = x

KillIn(q, p) == \E k \in 1..Len(q) : q[k] = KillPeer(p)

\* The first message is taken from a mailbox.
LEMMA MentionsTail ==
  ASSUME NEW S, NEW q \in Seq(S), q # <<>>, NEW x
  PROVE  /\ Mentions(Tail(q), x) => /\ Mentions(q, x)
                                    /\ LastAsks(q, x) => LastAsks(Tail(q), x)
         /\ Mentions(q, x) /\ ~Mentions(Tail(q), x) =>
              /\ Head(q).slot = x
              /\ LastAsks(q, x) => Head(q).type = "NeedPiece"
<1>1. /\ Len(q) \in Nat \ {0} /\ Len(Tail(q)) = Len(q) - 1
      /\ \A k \in 1..Len(Tail(q)) : Tail(q)[k] = q[k + 1]
      /\ Head(q) = q[1]
  BY TailFacts, EmptyFacts
<1>2. ASSUME NEW k \in 1..Len(q), k # 1
      PROVE  k - 1 \in 1..Len(Tail(q)) /\ Tail(q)[k - 1] = q[k]
  BY <1>1, <1>2
<1>3. ASSUME NEW k \in 1..Len(Tail(q))
      PROVE  k + 1 \in 1..Len(q) /\ Tail(q)[k] = q[k + 1]
  BY <1>1
<1>4. Mentions(Tail(q), x) => Mentions(q, x)
  BY Zenon, <1>3 DEF Mentions
<1>5. ASSUME Mentions(Tail(q), x), LastAsks(q, x)
      PROVE  LastAsks(Tail(q), x)
  <2>1. PICK k \in 1..Len(q) : /\ q[k].slot = x /\ q[k].type = "NeedPiece"
                               /\ \A j \in 1..Len(q) : q[j].slot = x => j <= k
    BY Zenon, <1>5 DEF LastAsks
  <2>2. PICK i \in 1..Len(Tail(q)) : Tail(q)[i].slot = x
    BY Zenon, <1>5 DEF Mentions
  <2>3. i + 1 <= k
    BY Zenon, <2>1, <2>2, <1>3
  <2>4. k # 1
    BY <2>3, <1>1
  <2>5. k - 1 \in 1..Len(Tail(q)) /\ Tail(q)[k - 1] = q[k]
    BY Zenon, <2>4, <1>2
  <2>6. ASSUME NEW j \in 1..Len(Tail(q)), Tail(q)[j].slot = x
        PROVE  j <= k - 1
    <3>1. j + 1 <= k
      BY Zenon, <2>1, <2>6, <1>3
    <3> QED
      BY <3>1, <1>1
  <2> QED
    BY Zenon, <2>1, <2>5, <2>6 DEF LastAsks
<1>6. ASSUME Mentions(q, x), ~Mentions(Tail(q), x)
      PROVE  /\ Head(q).slot = x
             /\ LastAsks(q, x) => Head(q).type = "NeedPiece"
  <2>1. \A k \in 1..Len(q) : q[k].slot = x => k = 1
    BY <1>2, <1>6, Zenon DEF Mentions
  <2> QED
    BY Zenon, <2>1, <1>1, <1>6 DEF Mentions, LastAsks
<1> QED
  BY Zenon, <1>4, <1>5, <1>6

\* Messages are added to a mailbox.
LEMMA MentionsConcat ==
  ASSUME NEW S, NEW q \in Seq(S), NEW r \in Seq(S), NEW x
  PROVE  /\ LastAsks(r, x) => LastAsks(q \o r, x)
         /\ ~Mentions(r, x) => /\ Mentions(q \o r, x) <=> Mentions(q, x)
                               /\ LastAsks(q, x) => LastAsks(q \o r, x)
<1>1. /\ Len(q) \in Nat /\ Len(r) \in Nat /\ Len(q \o r) = Len(q) + Len(r)
      /\ \A i \in 1..(Len(q) + Len(r)) :
           (q \o r)[i] = IF i <= Len(q) THEN q[i] ELSE r[i - Len(q)]
  BY ConcatFacts
<1>2. \A k \in 1..Len(q) : k \in 1..Len(q \o r) /\ (q \o r)[k] = q[k]
  BY <1>1
<1>3. \A k \in 1..Len(r) : Len(q) + k \in 1..Len(q \o r) /\ (q \o r)[Len(q) + k] = r[k]
  <2> SUFFICES ASSUME NEW k \in 1..Len(r)
               PROVE  Len(q) + k \in 1..Len(q \o r) /\ (q \o r)[Len(q) + k] = r[k]
    BY Zenon
  <2>1. Len(q) + k \in 1..(Len(q) + Len(r)) /\ ~(Len(q) + k <= Len(q)) /\ (Len(q) + k) - Len(q) = k
    BY <1>1
  <2> QED
    BY Zenon, <2>1, <1>1
<1>4. ASSUME NEW k \in 1..Len(q \o r), k \notin 1..Len(q)
      PROVE  /\ k - Len(q) \in 1..Len(r) /\ (q \o r)[k] = r[k - Len(q)]
             /\ k > Len(q)
  BY <1>1, <1>4
<1>5. ASSUME LastAsks(r, x)
      PROVE  LastAsks(q \o r, x)
  <2>1. PICK k \in 1..Len(r) : /\ r[k].slot = x /\ r[k].type = "NeedPiece"
                               /\ \A j \in 1..Len(r) : r[j].slot = x => j <= k
    BY Zenon, <1>5 DEF LastAsks
  <2>2. ASSUME NEW j \in 1..Len(q \o r), (q \o r)[j].slot = x
        PROVE  j <= Len(q) + k
    <3>1. CASE j \in 1..Len(q)
      BY <3>1, <1>1
    <3>2. CASE j \notin 1..Len(q)
      <4>1. j - Len(q) <= k
        BY Zenon, <3>2, <2>1, <2>2, <1>4
      <4> QED
        BY <4>1, <1>1
    <3> QED
      BY Zenon, <3>1, <3>2
  <2> QED
    BY Zenon, <2>1, <2>2, <1>3 DEF LastAsks
<1>6. ASSUME ~Mentions(r, x)
      PROVE  \A k \in 1..Len(q \o r) : (q \o r)[k].slot = x => k \in 1..Len(q)
  BY Zenon, <1>4, <1>6 DEF Mentions
<1>7. ASSUME ~Mentions(r, x)
      PROVE  /\ Mentions(q \o r, x) <=> Mentions(q, x)
             /\ LastAsks(q, x) => LastAsks(q \o r, x)
  <2>1. Mentions(q \o r, x) <=> Mentions(q, x)
    BY Zenon, <1>2, <1>6, <1>7 DEF Mentions
  <2>2. ASSUME LastAsks(q, x)
        PROVE  LastAsks(q \o r, x)
    <3>1. PICK k \in 1..Len(q) : /\ q[k].slot = x /\ q[k].type = "NeedPiece"
                                 /\ \A j \in 1..Len(q) : q[j].slot = x => j <= k
      BY Zenon, <2>2 DEF LastAsks
    <3>2. \A j \in 1..Len(q \o r) : (q \o r)[j].slot = x => j <= k
      BY Zenon, <3>1, <1>2, <1>6, <1>7
    <3> QED
      BY Zenon, <3>1, <3>2, <1>2 DEF LastAsks
  <2> QED
    BY Zenon, <2>1, <2>2
<1> QED
  BY Zenon, <1>5, <1>7

\* A message is taken from, or added to, the torrent's mailbox.
LEMMA AnswerSteps ==
  ASSUME NEW S, NEW q \in Seq(S), NEW p
  PROVE  /\ q # <<>> =>
              /\ \A x : AnswerIn(q, p, x) =>
                   \/ AnswerIn(Tail(q), p, x)
                   \/ Head(q).type \in Answers /\ Head(q).peer = p /\ Head(q).slot = x
              /\ KillIn(q, p) => KillIn(Tail(q), p) \/ Head(q) = KillPeer(p)
         /\ \A m \in S :
              /\ \A x : AnswerIn(q, p, x) => AnswerIn(Append(q, m), p, x)
              /\ KillIn(q, p) => KillIn(Append(q, m), p)
              /\ m.type \in Answers /\ m.peer = p => AnswerIn(Append(q, m), p, m.slot)
              /\ m = KillPeer(p) => KillIn(Append(q, m), p)
<1>1. ASSUME q # <<>>
      PROVE  /\ \A x : AnswerIn(q, p, x) =>
                  \/ AnswerIn(Tail(q), p, x)
                  \/ Head(q).type \in Answers /\ Head(q).peer = p /\ Head(q).slot = x
             /\ KillIn(q, p) => KillIn(Tail(q), p) \/ Head(q) = KillPeer(p)
  <2>1. /\ Len(q) \in Nat \ {0} /\ Len(Tail(q)) = Len(q) - 1
        /\ \A k \in 1..Len(Tail(q)) : Tail(q)[k] = q[k + 1]
        /\ Head(q) = q[1]
    BY <1>1, TailFacts, EmptyFacts
  <2>2. \A k \in 1..Len(q) : k # 1 => k - 1 \in 1..Len(Tail(q)) /\ Tail(q)[k - 1] = q[k]
    BY <2>1
  <2> QED
    BY <2>1, <2>2, Zenon DEF AnswerIn, KillIn
<1>2. ASSUME NEW m \in S
      PROVE  /\ \A x : AnswerIn(q, p, x) => AnswerIn(Append(q, m), p, x)
             /\ KillIn(q, p) => KillIn(Append(q, m), p)
             /\ m.type \in Answers /\ m.peer = p => AnswerIn(Append(q, m), p, m.slot)
             /\ m = KillPeer(p) => KillIn(Append(q, m), p)
  <2>1. /\ Len(Append(q, m)) = Len(q) + 1 /\ Len(q) \in Nat
        /\ \A i \in 1..Len(q) : Append(q, m)[i] = q[i]
        /\ Append(q, m)[Len(q) + 1] = m
    BY AppendFacts
  <2>2. /\ \A i \in 1..Len(q) : i \in 1..Len(Append(q, m))
        /\ Len(q) + 1 \in 1..Len(Append(q, m))
    BY <2>1
  <2> QED
    BY Zenon, <2>1, <2>2 DEF AnswerIn, KillIn
<1> QED
  BY Zenon, <1>1, <1>2

\* Something stands for the request of x from p: the last message about it in
\* the mailbox of p, the remote, or an answer.
InHand(p, x) ==
  IF Mentions(mail[p], x) THEN LastAsks(mail[p], x)
  ELSE x \in pending[p] \/ AnswerIn(inbox, p, x)

Killed(p) == dying[p] > 0 \/ KillIn(inbox, p)

\* RequestsBacked and NoOrphans, a block and a peer at a time.
Backed ==
  /\ \A x \in Slot, p \in Peer :
       /\ p \in alive /\ sched.in_flight[x] = p => Killed(p) \/ InHand(p, x)
       /\ p \notin peers /\ sched.in_flight[x] = p => Killed(p)
  /\ \A p \in peers \ alive : Killed(p)

\* The invariant says what the two properties say.
LEMMA BackedMeans == FlowInv /\ Backed => RequestsBacked /\ NoOrphans
<1> SUFFICES ASSUME FlowInv, Backed PROVE RequestsBacked /\ NoOrphans
  BY Zenon
<1>1. /\ peers \subseteq Peer /\ alive \subseteq Peer
      /\ DOMAIN inbox = 1..Len(inbox)
      /\ \A p \in Peer : DOMAIN mail[p] = 1..Len(mail[p])
  BY DEF FlowInv, FieldsOK, InboxOK, MailOK
<1>2. ASSUME NEW p, Killed(p) PROVE KillOnTheWay(p)
  BY Zenon, <1>1, <1>2 DEF Killed, KillIn, KillOnTheWay, InInbox
<1>3. NoOrphans
  BY <1>1, <1>2, Zenon DEF NoOrphans, Backed
<1>4. ASSUME NEW x \in Slot, sched.in_flight[x] \in alive,
             ~KillOnTheWay(sched.in_flight[x])
      PROVE  LET p == sched.in_flight[x]
                 about == {k \in DOMAIN mail[p] : mail[p][k].slot = x}
             IN  IF about # {}
                 THEN \E k \in about : /\ mail[p][k].type = "NeedPiece"
                                       /\ \A j \in about : j <= k
                 ELSE \/ x \in pending[p]
                      \/ \E k \in DOMAIN inbox :
                           /\ inbox[k].type \in {"IncomingPiece", "PeerRejectedRequest"}
                           /\ inbox[k].peer = p /\ inbox[k].slot = x
  <2> DEFINE p == sched.in_flight[x]
  <2>1. p \in Peer /\ InHand(p, x)
    BY <1>1, <1>2, <1>4, Zenon DEF Backed
  <2>2. CASE Mentions(mail[p], x)
    <3>1. PICK k \in 1..Len(mail[p]) :
                 /\ mail[p][k].slot = x /\ mail[p][k].type = "NeedPiece"
                 /\ \A j \in 1..Len(mail[p]) : mail[p][j].slot = x => j <= k
      BY <2>1, <2>2, ZenonT(30) DEF InHand, LastAsks
    <3> QED
      BY <3>1, <2>1, <1>1, Zenon
  <2>3. CASE ~Mentions(mail[p], x)
    BY <2>1, <2>3, <1>1, SMTT(30) DEF InHand, Mentions, AnswerIn, Answers
  <2> QED
    BY Zenon, <2>2, <2>3
<1>5. RequestsBacked
  BY Zenon, <1>4 DEF RequestsBacked
<1> QED
  BY Zenon, <1>3, <1>5

\* A request in a peer's hands stays there while the peer's mailbox is left
\* alone, and the request is only dropped for its answer.
LEMMA InHandKept ==
  ASSUME NEW q \in Peer, NEW y \in Slot, InHand(q, y), mail'[q] = mail[q],
         y \in pending[q] => y \in pending'[q] \/ AnswerIn(inbox', q, y),
         AnswerIn(inbox, q, y) => AnswerIn(inbox', q, y)
  PROVE  InHand(q, y)'
BY Zenon DEF InHand

\* A step that removes and adds no peer, makes no request and loses nothing
\* that stands for one.
LEMMA BackedKept ==
  ASSUME FlowInv, Backed, UNCHANGED <<alive, peers>>,
         \A p \in Peer : Killed(p) => Killed(p)',
         \A x \in Slot, p \in Peer :
           sched'.in_flight[x] = p =>
             sched.in_flight[x] = p /\ (InHand(p, x) => InHand(p, x)')
  PROVE  Backed'
<1>1. peers \subseteq Peer
  BY Zenon DEF FlowInv, FieldsOK
<1> QED
  BY Zenon, <1>1 DEF Backed

\* ... and leaves the mailboxes of the peers alone.
LEMMA BackedGivesBack ==
  ASSUME FlowInv, Backed, UNCHANGED <<alive, peers, inbox, mail, pending, dying>>,
         GivesBack(sched, sched')
  PROVE  Backed'
<1>1. \A p \in Peer : Killed(p) = Killed(p)' /\ \A x \in Slot : InHand(p, x) = InHand(p, x)'
  BY Zenon DEF Killed, InHand
<1>2. \A x \in Slot, p \in Peer : sched'.in_flight[x] = p => sched.in_flight[x] = p
  BY Zenon, SchedulerConstants DEF GivesBack
<1> QED
  BY Zenon, <1>1, <1>2, BackedKept

\* fill_peer_request_window_to leaves the NeedPiece last in the mailbox.
LEMMA BackedFillPeer ==
  ASSUME FlowInv, Backed, NEW p \in Peer, FillPeer(p)
  PROVE  Backed'
<1>1. UNCHANGED <<alive, peers, inbox, pending, dying>>
  BY Zenon DEF FillPeer
<1>2. CASE UNCHANGED <<sched, mail>>
  BY Zenon, <1>1, <1>2, BackedGivesBack DEF GivesBack
<1>3. ASSUME NEW new \in SUBSET Slot, NEW sent \in SUBSET new, NEW queued,
             RequestsSent(p, new, sent, queued)
      PROVE  Backed'
  <2>1. /\ mail[p] \in Seq(PeerMessage) /\ queued \in Seq(PeerMessage)
        /\ p \in peers /\ peers \subseteq Peer
        /\ \A y \in Slot : sched'.in_flight[y] = IF y \in sent THEN p ELSE sched.in_flight[y]
    <3>1. mail[p] \in Seq(PeerMessage) /\ queued \in Seq(PeerMessage)
      BY Zenon, <1>3, QueuedTyped
    <3> QED
      BY Zenon, <3>1, <1>3 DEF RequestsSent, Filled, FlowInv, FieldsOK
  <2>2. /\ mail'[p] = mail[p] \o queued
        /\ \A q \in Peer : q # p => mail'[q] = mail[q]
    BY Zenon, <1>3 DEF RequestsSent, FlowInv, MailOK
  <2>3. ASSUME NEW x \in Slot
        PROVE  IF x \in sent THEN LastAsks(queued, x) ELSE ~Mentions(queued, x)
    <3>1. \A k \in 1..Len(queued) : \E y \in sent : queued[k] = NeedPiece(y)
      BY <1>3 DEF RequestsSent
    <3>2. \A y : NeedPiece(y).slot = y /\ NeedPiece(y).type = "NeedPiece"
      BY Zenon DEF NeedPiece
    <3>3. \A k \in 1..Len(queued) : queued[k].slot \in sent
      BY <3>1, <3>2, Zenon
    <3>4. CASE x \in sent
      <4>1. PICK k \in 1..Len(queued) : queued[k] = NeedPiece(x)
        BY Zenon, <3>4, <1>3 DEF RequestsSent
      <4>2. queued[k].slot = x /\ queued[k].type = "NeedPiece"
        BY <4>1, <3>2, Zenon
      <4>3. \A j \in 1..Len(queued) : queued[j].slot = x => j = k
        BY Zenon, <4>2, <1>3 DEF RequestsSent
      <4> QED
        BY <4>2, <4>3, <3>4 DEF LastAsks
    <3>5. CASE x \notin sent
      BY Zenon, <3>3, <3>5 DEF Mentions
    <3> QED
      BY Zenon, <3>4, <3>5
  <2>4. \A q \in Peer : Killed(q) = Killed(q)'
    BY Zenon, <1>1 DEF Killed
  <2>5. ASSUME NEW x \in Slot, NEW q \in Peer, sched'.in_flight[x] = q
        PROVE  /\ q \in alive => Killed(q) \/ InHand(q, x)'
               /\ q \notin peers => Killed(q)
    <3>1. CASE x \in sent
      <4>1. q = p /\ LastAsks(queued, x)
        BY <3>1, <2>1, <2>3, <2>5, Zenon
      <4>2. LastAsks(mail'[p], x)
        BY <4>1, <2>1, <2>2, MentionsConcat, Zenon
      <4>3. Mentions(mail'[p], x)
        BY Zenon, <4>2 DEF LastAsks, Mentions
      <4> QED
        BY <4>1, <4>2, <4>3, <2>1, Zenon DEF InHand
    <3>2. CASE x \notin sent
      <4>1. sched.in_flight[x] = q
        BY Zenon, <3>2, <2>1, <2>5
      <4>2. /\ Mentions(mail'[q], x) <=> Mentions(mail[q], x)
            /\ LastAsks(mail[q], x) => LastAsks(mail'[q], x)
        <5>1. CASE q = p
          BY <5>1, <3>2, <2>1, <2>2, <2>3, MentionsConcat, SMTT(30)
        <5>2. CASE q # p
          BY Zenon, <5>2, <2>2
        <5> QED
          BY Zenon, <5>1, <5>2
      <4>3. InHand(q, x) => InHand(q, x)'
        BY Zenon, <4>2, <1>1 DEF InHand
      <4> QED
        BY Zenon, <4>1, <4>3 DEF Backed
    <3> QED
      BY Zenon, <3>1, <3>2
  <2>6. \A q \in peers' \ alive' : Killed(q)'
    BY Zenon, <1>1, <2>1, <2>4 DEF Backed
  <2> QED
    BY <1>1, <2>4, <2>5, <2>6, Zenon DEF Backed
<1> QED
  BY Zenon, <1>2, <1>3, FillCases

\* broadcast_to_peers_best_effort and release_stale_requests.
LEMMA BackedContinue ==
  ASSUME FlowInv, Backed, ExpireRequests \/ \E p \in Peer : ForgetPeer(p)
  PROVE  Backed'
<1>0. sched \in SchedulerRecord /\ peers \subseteq Peer
  BY Zenon DEF FlowInv, FieldsOK, BooksOK, SchedulerConsistent, Consistent, SchedulerType
<1>1. CASE ExpireRequests
  <2>1. Head(todo) \in TodoStep /\ Head(todo).op = "expire"
    BY Zenon, <1>1, TodoProceeds DEF ExpireRequests, FlowInv, TodoOK
  <2>2. Head(todo).left \in SUBSET Slot
    BY Zenon, <2>1 DEF TodoStep
  <2>3. PICK stale \in SUBSET Slot : sched' = ReleaseStaleRequests(sched, stale)
    BY Zenon, <1>1, <2>2 DEF ExpireRequests
  <2>4. GivesBack(sched, sched')
    BY <1>0, <2>3, ReleaseStaleRequestsEffect, SMTT(30) DEF GivesBack
  <2> QED
    BY <1>1, <2>4, BackedGivesBack, Zenon DEF ExpireRequests, peerVars
<1>2. ASSUME NEW p \in Peer, ForgetPeer(p)
      PROVE  Backed'
  <2>1. /\ p \notin alive /\ peers' = peers \ {p} /\ sched' = PeerDisconnected(sched, p)
        /\ UNCHANGED <<alive, inbox, mail, pending, dying>>
    BY <1>2, TodoProceeds, Zenon DEF ForgetPeer, peerVars, FlowInv, TodoOK
  <2>2. \A y \in Slot : sched'.in_flight[y] = IF sched.in_flight[y] = p
                                              THEN NoPeer ELSE sched.in_flight[y]
    BY <1>0, <2>1, PeerDisconnectedEffect, Zenon
  <2>3. \A q \in Peer : Killed(q) = Killed(q)' /\ \A x \in Slot : InHand(q, x) = InHand(q, x)'
    BY <2>1, Zenon DEF Killed, InHand
  <2> QED
    BY <1>0, <2>1, <2>2, <2>3, SchedulerConstants, SMTT(30) DEF Backed
<1> QED
  BY Zenon, <1>1, <1>2

\* The torrent takes a message that removes no peer: it drops no answer that
\* stands for a request.
LEMMA BackedMessages ==
  ASSUME AnswersKept, FlowInv, Backed,
         HandleIncomingPiece \/ HandlePeerRejectedRequest \/ HandlePeerReady
  PROVE  Backed'
<1> DEFINE m == Head(inbox)
<1>1. /\ inbox # <<>> /\ inbox' = Tail(inbox) /\ inbox \in Seq(TorrentMessage)
      /\ m.type # "KillPeer" /\ m \in TorrentMessage
  BY Zenon, InboxSteps
  DEF HandleIncomingPiece, HandlePeerRejectedRequest, HandlePeerReady, Take, FlowInv, InboxOK
<1>2. /\ UNCHANGED <<alive, peers, pending, dying>>
  BY Zenon DEF HandleIncomingPiece, HandlePeerRejectedRequest, HandlePeerReady, peerVars
<1>3. m.peer \in Peer /\ Consistent(sched) /\ sched \in SchedulerRecord
  BY <1>1, MessageFields, Zenon
  DEF FlowInv, BooksOK, SchedulerConsistent, Consistent, SchedulerType
<1>4. /\ \/ mail' = mail
         \/ /\ m.type = "IncomingPiece" /\ sched.in_flight[m.slot] \in peers
            /\ mail' = TrySent(sched.in_flight[m.slot], CancelPiece(m.slot))
      /\ \A x \in Slot : sched'.in_flight[x] \in {NoPeer, sched.in_flight[x]}
      /\ m.type \in Answers => /\ m.slot \in Slot
                               /\ sched'.in_flight[m.slot] # m.peer
      /\ m.type = "IncomingPiece" => mail' = mail \/ sched'.in_flight[m.slot] = NoPeer
  <2>1. CASE HandleIncomingPiece
    <3>1. /\ m.slot \in Slot /\ m.type = "IncomingPiece"
          /\ \/ /\ IsDuplicateBlock(sched, m.slot) \/ May("write")
                /\ UNCHANGED <<state, sched, bitfield, disk, completed, todo, mail>>
             \/ BlockStored(m.peer, m.slot, m.content)
      BY Zenon, <2>1, IncomingCases DEF Requested
    <3>2. CASE /\ IsDuplicateBlock(sched, m.slot) \/ May("write")
               /\ UNCHANGED <<state, sched, bitfield, disk, completed, todo, mail>>
      <4>1. m.slot \in sched.completed_blocks
        BY Zenon, <3>2 DEF AnswersKept, May, IsDuplicateBlock
      <4>2. sched.in_flight[m.slot] = NoPeer
        BY <4>1, <3>1, <1>3, Zenon DEF Consistent, DoneNotInFlight
      <4> QED
        BY <4>2, <3>1, <3>2, <1>3, SchedulerConstants, Zenon
    <3>3. CASE BlockStored(m.peer, m.slot, m.content)
      BY <3>1, <3>3, <1>3, SchedulerConstants, Zenon DEF BlockStored
    <3> QED
      BY <3>1, <3>2, <3>3, Zenon
  <2>2. CASE HandlePeerRejectedRequest
    <3>1. /\ m.type = "PeerRejectedRequest" /\ mail' = mail
          /\ sched' = ReleasePeerRequest(sched, m.peer, m.slot)
      BY <2>2, Zenon DEF HandlePeerRejectedRequest, Take, peerVars
    <3>2. m.slot \in Slot
      BY Zenon, <3>1, <1>1, MessageFields DEF Requested
    <3>3. \A y \in Slot : sched'.in_flight[y] = IF y = m.slot /\ sched.in_flight[m.slot] = m.peer
                                                THEN NoPeer ELSE sched.in_flight[y]
      BY <3>1, <3>2, <1>3, ReleasePeerRequestEffect, SMTT(30)
    <3> QED
      BY Zenon, <3>1, <3>2, <3>3, <1>3, SchedulerConstants
  <2>3. CASE HandlePeerReady
    <3>1. /\ m.type = "PeerReady" /\ mail' = mail
          /\ sched' = UpdatePeerAvailability(sched, m.peer, m.pieces)
      BY <2>3, Zenon DEF HandlePeerReady, Take, peerVars
    <3>2. m.pieces \in SUBSET Piece
      BY Zenon, <3>1, <1>1, MessageFields
    <3> QED
      BY Zenon, <3>1, <3>2, <1>3, UpdatePeerAvailabilityEffect DEF Answers
  <2> QED
    BY <2>1, <2>2, <2>3, Zenon
<1> HIDE DEF m
<1>5. ASSUME NEW p \in Peer, Killed(p)
      PROVE  Killed(p)'
  <2>1. KillIn(inbox, p) => KillIn(inbox', p)
    BY <1>1, AnswerSteps, SMTT(30) DEF m, KillPeer
  <2> QED
    BY Zenon, <2>1, <1>2, <1>5 DEF Killed
<1>6. ASSUME NEW x \in Slot, NEW p \in Peer, sched'.in_flight[x] = p
      PROVE  sched.in_flight[x] = p /\ (InHand(p, x) => InHand(p, x)')
  <2>1. sched.in_flight[x] = p
    BY <1>4, <1>6, SchedulerConstants, Zenon
  <2>2. AnswerIn(inbox, p, x) => AnswerIn(inbox', p, x)
    <3>1. ~(m.type \in Answers /\ m.peer = p /\ m.slot = x)
      BY Zenon, <1>4, <1>6
    <3> QED
      BY Zenon, <3>1, <1>1, AnswerSteps DEF m
  <2>3. /\ Mentions(mail'[p], x) <=> Mentions(mail[p], x)
        /\ LastAsks(mail[p], x) => LastAsks(mail'[p], x)
    <3>1. CASE mail'[p] = mail[p]
      BY Zenon, <3>1
    <3>2. CASE mail'[p] # mail[p]
      <4> DEFINE c == CancelPiece(m.slot)
                 r == <<c>>
      <4>1. /\ m.type = "IncomingPiece" /\ sched'.in_flight[m.slot] = NoPeer
            /\ mail' = TrySent(sched.in_flight[m.slot], CancelPiece(m.slot))
        BY <3>2, <1>4, Zenon
      <4>2. m.slot # x /\ m.slot \in Requested
        BY <4>1, <1>1, <1>6, SchedulerConstants, MessageFields, Zenon
      <4>3. c \in PeerMessage /\ c.slot = m.slot
        BY <4>2, <1>3, MessagesTyped, Zenon DEF CancelPiece
      <4>4. mail[p] \in Seq(PeerMessage) /\ mail'[p] = Append(mail[p], c)
        BY Zenon, <4>1, <3>2 DEF TrySent, FlowInv, MailOK
      <4> HIDE DEF c
      <4>5. mail'[p] = mail[p] \o r /\ r \in Seq(PeerMessage)
        BY <4>3, <4>4, AppendFacts
      <4>6. ~Mentions(r, x)
        BY <4>2, <4>3, SMTT(30) DEF Mentions
      <4> HIDE DEF r
      <4> QED
        BY <4>4, <4>5, <4>6, MentionsConcat, SMTT(30)
    <3> QED
      BY Zenon, <3>1, <3>2
  <2> QED
    BY <2>1, <2>2, <2>3, <1>2, Zenon DEF InHand
<1> QED
  BY <1>2, <1>5, <1>6, BackedKept, Zenon

\* remove_peer, called with or without the KillPeer of the peer: what was on
\* request from the peer is released, and other peers are not concerned.
LEMMA BackedRemovePeer ==
  ASSUME FlowInv, Backed, NEW p \in Peer, RemovePeer(p),
         \/ inbox' = inbox
         \/ inbox # <<>> /\ inbox' = Tail(inbox) /\ Head(inbox) = KillPeer(p)
  PROVE  Backed'
<1>0. /\ sched \in SchedulerRecord /\ peers \subseteq Peer /\ alive \subseteq peers
      /\ inbox \in Seq(TorrentMessage) /\ dying \in [Peer -> Nat]
      /\ mail \in [Peer -> Seq(PeerMessage)] /\ pending \in [Peer -> SUBSET Requested]
  BY Zenon DEF FlowInv, FieldsOK, MailOK, InboxOK, BooksOK, SchedulerConsistent, Consistent,
         SchedulerType
<1>1. /\ sched' = PeerDisconnected(sched, p) /\ peers' = peers \ {p}
      /\ \/ p \in alive /\ Stopped(p, 1)
         \/ p \notin alive /\ UNCHANGED <<alive, mail, pending, dying>>
  BY Zenon, <1>0 DEF RemovePeer
<1>2. \A y \in Slot : sched'.in_flight[y] = IF sched.in_flight[y] = p
                                            THEN NoPeer ELSE sched.in_flight[y]
  BY Zenon, <1>0, <1>1, PeerDisconnectedEffect
<1>3. alive' = alive \ {p}
  BY <1>1, Zenon DEF Stopped
<1>4. ASSUME NEW q \in Peer, q # p
      PROVE  /\ Killed(q) => Killed(q)'
             /\ \A x \in Slot : InHand(q, x) => InHand(q, x)'
  <2>1. /\ KillIn(inbox, q) => KillIn(inbox', q)
        /\ \A x \in Slot : AnswerIn(inbox, q, x) => AnswerIn(inbox', q, x)
    <3>1. CASE inbox' = inbox
      BY Zenon, <3>1
    <3>2. CASE inbox # <<>> /\ inbox' = Tail(inbox) /\ Head(inbox) = KillPeer(p)
      <4>1. KillPeer(p) # KillPeer(q) /\ KillPeer(p).type \notin Answers
        BY Zenon, <1>4 DEF KillPeer, Answers
      <4> QED
        BY Zenon, <4>1, <3>2, <1>0, AnswerSteps
    <3> QED
      BY Zenon, <3>1, <3>2
  <2>2. mail'[q] = mail[q] /\ pending'[q] = pending[q] /\ dying'[q] = dying[q]
    BY Zenon, <1>0, <1>1, <1>4 DEF Stopped
  <2> QED
    BY Zenon, <2>1, <2>2 DEF Killed, InHand
<1> QED
  BY <1>0, <1>1, <1>2, <1>3, <1>4, SchedulerConstants, Zenon DEF Backed

\* Commands of the caller, and kill_peer.
LEMMA BackedCommands ==
  ASSUME FlowInv, Backed,
         \/ Start \/ Pause \/ Rechoke \/ HandleKillPeer
         \/ \E p \in Peer : PeerConnected(p) \/ DisconnectPeer(p)
  PROVE  Backed'
<1>0. peers \subseteq Peer /\ alive \subseteq peers
  BY Zenon DEF FlowInv, FieldsOK
<1>1. CASE Start \/ Rechoke
  BY Zenon, <1>1, BackedGivesBack DEF Start, Rechoke, peerVars, GivesBack
<1>2. CASE Pause
  <2>1. /\ sched' = sched /\ UNCHANGED <<alive, inbox, mail, pending, dying>>
        /\ peers' \in {peers, peers \cap alive}
    BY Zenon, <1>2 DEF Pause, peerVars
  <2>2. \A q \in Peer : Killed(q) = Killed(q)' /\ \A x \in Slot : InHand(q, x) = InHand(q, x)'
    BY Zenon, <2>1 DEF Killed, InHand
  <2> QED
    BY Zenon, <1>0, <2>1, <2>2 DEF Backed
<1>3. CASE HandleKillPeer
  <2>1. /\ inbox # <<>> /\ inbox' = Tail(inbox) /\ Head(inbox).type = "KillPeer"
        /\ Head(inbox) \in TorrentMessage
    BY Zenon, <1>3, InboxSteps DEF HandleKillPeer, Take, FlowInv
  <2>2. Head(inbox) = KillPeer(Head(inbox).peer)
    BY Zenon, <2>1 DEF TorrentMessage, KillPeer
  <2>3. Head(inbox).peer \in Peer /\ RemovePeer(Head(inbox).peer)
    BY Zenon, <1>3, <2>1, MessageFields DEF HandleKillPeer
  <2> QED
    BY <2>1, <2>2, <2>3, BackedRemovePeer, Zenon
<1>4. ASSUME NEW p \in Peer, PeerConnected(p)
      PROVE  Backed'
  <2>1. /\ p \notin peers /\ peers' = peers \cup {p} /\ alive' = alive \cup {p}
        /\ sched' = sched /\ UNCHANGED <<inbox, mail, pending, dying>>
    BY <1>4, Zenon DEF PeerConnected
  <2>2. \A q \in Peer : Killed(q) = Killed(q)' /\ \A x \in Slot : InHand(q, x) = InHand(q, x)'
    BY Zenon, <2>1 DEF Killed, InHand
  <2> QED
    BY Zenon, <1>0, <2>1, <2>2 DEF Backed
<1>5. ASSUME NEW p \in Peer, DisconnectPeer(p)
      PROVE  Backed'
  BY Zenon, <1>5, BackedRemovePeer DEF DisconnectPeer
<1> QED
  BY Zenon, <1>1, <1>2, <1>3, <1>4, <1>5

\* A peer hands a request on: from its mailbox to the remote, and from there,
\* or straight away, to the torrent. One that stops tells the torrent.
LEMMA BackedPeers ==
  ASSUME AnswersKept, FlowInv, Backed, NEW p \in Peer, PeerStep(p)
  PROVE  Backed'
<1>0. /\ peers \subseteq Peer /\ alive \subseteq peers
      /\ inbox \in Seq(TorrentMessage) /\ dying \in [Peer -> Nat]
      /\ mail \in [Peer -> Seq(PeerMessage)] /\ pending \in [Peer -> SUBSET Requested]
      /\ pieces \in [Peer -> SUBSET Piece]
  BY Zenon DEF FlowInv, FieldsOK, MailOK, InboxOK
<1>1. ASSUME NEW m \in TorrentMessage, Tell(m)
      PROVE  \A q \in Peer :
               /\ KillIn(inbox, q) => KillIn(inbox', q)
               /\ \A x : AnswerIn(inbox, q, x) => AnswerIn(inbox', q, x)
               /\ m.type \in Answers /\ m.peer = q => AnswerIn(inbox', q, m.slot)
               /\ m = KillPeer(q) => KillIn(inbox', q)
  BY <1>0, <1>1, AnswerSteps, ZenonT(30) DEF Tell
<1>2. ASSUME NEW type, TakeMail(p, type)
      PROVE  /\ mail[p] # <<>> /\ mail'[p] = Tail(mail[p]) /\ Head(mail[p]).type = type
             /\ Head(mail[p]).slot \in Requested
             /\ \A q \in Peer : q # p => mail'[q] = mail[q]
  <2>1. mail[p] \in Seq(PeerMessage) /\ Head(mail[p]) \in PeerMessage
    BY <1>0, <1>2, TailFacts, Zenon DEF TakeMail
  <2> QED
    BY <2>1, <1>0, <1>2, Zenon DEF TakeMail, PeerMessage
<1>3. CASE HandleNeedPiece(p)
  <2> DEFINE x == Head(mail[p]).slot
  <2>1. /\ mail[p] # <<>> /\ mail'[p] = Tail(mail[p]) /\ x \in Requested
        /\ \A q \in Peer : q # p => mail'[q] = mail[q]
    BY <1>2, <1>3, Zenon DEF HandleNeedPiece
  <2>2. /\ UNCHANGED <<torrentVars, alive, dying>>
        /\ \/ Tell(PeerRejectedRequest(p, x)) /\ UNCHANGED pending
           \/ pending' = [pending EXCEPT ![p] = @ \cup {x}] /\ UNCHANGED inbox
    BY <1>3, Zenon DEF HandleNeedPiece, RejectPieceRequest
  <2> HIDE DEF x
  <2>3. /\ \A q \in Peer : /\ KillIn(inbox, q) => KillIn(inbox', q)
                           /\ \A y : AnswerIn(inbox, q, y) => AnswerIn(inbox', q, y)
                           /\ pending[q] \subseteq pending'[q]
        /\ x \in pending'[p] \/ AnswerIn(inbox', p, x)
    <3>1. CASE Tell(PeerRejectedRequest(p, x)) /\ UNCHANGED pending
      <4>1. PeerRejectedRequest(p, x) \in TorrentMessage
        BY Zenon, <2>1, MessagesTyped
      <4>2. /\ PeerRejectedRequest(p, x).type \in Answers
            /\ PeerRejectedRequest(p, x).peer = p /\ PeerRejectedRequest(p, x).slot = x
        BY Zenon DEF PeerRejectedRequest, Answers
      <4>3. AnswerIn(inbox', p, PeerRejectedRequest(p, x).slot)
        BY <4>1, <4>2, <3>1, <1>1, Zenon
      <4> QED
        BY <4>1, <4>2, <4>3, <3>1, <1>1, Zenon
    <3>2. CASE pending' = [pending EXCEPT ![p] = @ \cup {x}] /\ UNCHANGED inbox
      BY Zenon, <3>2, <1>0
    <3> QED
      BY <2>2, <3>1, <3>2, Zenon
  <2>4. ASSUME NEW y \in Slot, NEW q \in Peer, InHand(q, y)
        PROVE  InHand(q, y)'
    <3>1. CASE q # p
      <4>1. mail'[q] = mail[q]
        BY Zenon, <3>1, <2>1
      <4>2. /\ y \in pending[q] => y \in pending'[q]
            /\ AnswerIn(inbox, q, y) => AnswerIn(inbox', q, y)
        BY <2>3, Zenon
      <4> QED
        BY <4>1, <4>2, <2>4, InHandKept, Zenon
    <3>2. CASE q = p
      <4>1. /\ Mentions(mail'[p], y) => /\ Mentions(mail[p], y)
                                        /\ LastAsks(mail[p], y) => LastAsks(mail'[p], y)
            /\ Mentions(mail[p], y) /\ ~Mentions(mail'[p], y) => x = y
        BY <1>0, <2>1, MentionsTail, SMTT(30) DEF x
      <4> QED
        BY <4>1, <3>2, <2>3, <2>4, Zenon DEF InHand
    <3> QED
      BY <3>1, <3>2, Zenon
  <2> QED
    BY <2>2, <2>3, <2>4, BackedKept, Zenon DEF torrentVars, Killed
<1>4. CASE HandleCancelPiece(p)
  <2> DEFINE x == Head(mail[p]).slot
  <2>1. /\ mail[p] # <<>> /\ mail'[p] = Tail(mail[p]) /\ Head(mail[p]).type = "CancelPiece"
        /\ \A q \in Peer : q # p => mail'[q] = mail[q]
    BY Zenon, <1>2, <1>4 DEF HandleCancelPiece
  <2>2. /\ UNCHANGED <<torrentVars, inbox, alive, dying>>
        /\ pending'[p] = pending[p] \ {x} /\ \A q \in Peer : q # p => pending'[q] = pending[q]
    BY <1>0, <1>4, Zenon DEF HandleCancelPiece
  <2>3. ASSUME NEW y \in Slot, NEW q \in Peer, InHand(q, y)
        PROVE  InHand(q, y)'
    <3>1. CASE q # p
      BY <3>1, <2>1, <2>2, <2>3, Zenon DEF InHand
    <3>2. CASE q = p
      <4>1. /\ Mentions(mail'[p], y) => /\ Mentions(mail[p], y)
                                        /\ LastAsks(mail[p], y) => LastAsks(mail'[p], y)
            /\ Mentions(mail[p], y) /\ ~Mentions(mail'[p], y) => ~LastAsks(mail[p], y)
        BY <1>0, <2>1, MentionsTail
      <4>2. ~Mentions(mail[p], y) => y # x
        <5>1. 1 \in 1..Len(mail[p]) /\ Head(mail[p]) = mail[p][1]
          BY <1>0, <2>1, TailFacts, EmptyFacts, SMTT(30)
        <5> QED
          BY <5>1, Zenon DEF Mentions
      <4> HIDE DEF x
      <4> QED
        BY <4>1, <4>2, <3>2, <2>2, <2>3, Zenon DEF InHand
    <3> QED
      BY Zenon, <3>1, <3>2
  <2> QED
    BY <2>2, <2>3, BackedKept, Zenon DEF torrentVars, Killed
<1>5. ASSUME NEW x \in Slot, NEW content \in {"good", "bad"}, RecvPiece(p, x, content)
      PROVE  Backed'
  <2>1. /\ UNCHANGED <<torrentVars, alive, mail, dying>> /\ x \in pending[p]
        /\ pending'[p] = pending[p] \ {x} /\ \A q \in Peer : q # p => pending'[q] = pending[q]
        /\ Tell(IncomingPiece(p, x, content))
    BY <1>0, <1>5, Zenon DEF RecvPiece
  <2>2. IncomingPiece(p, x, content) \in TorrentMessage
    BY Zenon, <2>1, <1>0, MessagesTyped
  <2>3. /\ IncomingPiece(p, x, content).type \in Answers
        /\ IncomingPiece(p, x, content).peer = p /\ IncomingPiece(p, x, content).slot = x
    BY Zenon DEF IncomingPiece, Answers
  <2>4. AnswerIn(inbox', p, IncomingPiece(p, x, content).slot)
    BY <2>1, <2>2, <2>3, <1>1, ZenonT(30)
  <2>5. \A q \in Peer : /\ KillIn(inbox, q) => KillIn(inbox', q)
                        /\ \A y : AnswerIn(inbox, q, y) => AnswerIn(inbox', q, y)
    BY <2>1, <2>2, <1>1, ZenonT(30)
  <2>6. ASSUME NEW y \in Slot, NEW q \in Peer, InHand(q, y)
        PROVE  InHand(q, y)'
    <3>1. mail'[q] = mail[q] /\ (AnswerIn(inbox, q, y) => AnswerIn(inbox', q, y))
      BY <2>1, <2>5, Zenon
    <3>2. ASSUME y \in pending[q]
          PROVE  y \in pending'[q] \/ AnswerIn(inbox', q, y)
      <4>1. CASE q # p
        BY <4>1, <3>2, <2>1, Zenon
      <4>2. CASE q = p /\ y # x
        BY <4>2, <3>2, <2>1, Zenon
      <4>3. CASE q = p /\ y = x
        BY Zenon, <4>3, <2>3, <2>4
      <4> QED
        BY Zenon, <4>1, <4>2, <4>3
    <3> QED
      BY <3>1, <3>2, <2>6, InHandKept, Zenon
  <2>7. /\ UNCHANGED <<alive, peers>> /\ sched' = sched
        /\ \A q \in Peer : Killed(q) => Killed(q)'
    BY <2>1, <2>5, Zenon DEF torrentVars, Killed
  <2> QED
    BY <2>6, <2>7, BackedKept, Zenon
<1>6. ASSUME NEW x \in Slot, RecvCancel(p, x)
      PROVE  FALSE
  BY <1>6, Zenon DEF RecvCancel, AnswersKept, May
<1>7. CASE RecvBitfield(p) \/ NotifyReady(p)
  <2>1. PICK ps \in SUBSET Piece : Tell(PeerReady(p, ps))
    BY Zenon, <1>0, <1>7, FlowConstants DEF RecvBitfield, NotifyReady
  <2>2. UNCHANGED <<torrentVars, alive, mail, pending, dying>>
    BY Zenon, <1>7 DEF RecvBitfield, NotifyReady, peerVars
  <2>3. PeerReady(p, ps) \in TorrentMessage
    BY Zenon, MessagesTyped
  <2>4. \A q \in Peer : /\ KillIn(inbox, q) => KillIn(inbox', q)
                        /\ \A y : AnswerIn(inbox, q, y) => AnswerIn(inbox', q, y)
    BY <2>1, <2>3, <1>1, Zenon
  <2> QED
    BY <2>2, <2>4, BackedKept, Zenon DEF torrentVars, Killed, InHand
<1>8. ASSUME NEW n \in {1, 2}, PeerStops(p, n)
      PROVE  Backed'
  <2>1. /\ UNCHANGED <<torrentVars, inbox>> /\ alive' = alive \ {p} /\ p \in alive
        /\ \A q \in Peer : q # p => /\ mail'[q] = mail[q] /\ pending'[q] = pending[q]
                                    /\ dying'[q] = dying[q]
        /\ dying'[p] > 0
    BY <1>0, <1>8, SMTT(30) DEF PeerStops, Stopped
  <2>2. ASSUME NEW q \in Peer, q # p
        PROVE  Killed(q) = Killed(q)' /\ \A x \in Slot : InHand(q, x) = InHand(q, x)'
    BY <2>1, <2>2, ZenonT(30) DEF Killed, InHand
  <2>3. Killed(p)' /\ sched' = sched /\ peers' = peers
    BY <2>1, ZenonT(30) DEF Killed, torrentVars
  <2> QED
    BY <1>0, <2>1, <2>2, <2>3, ZenonT(30) DEF Backed
<1>9. CASE NotifyStopped(p)
  <2>1. /\ UNCHANGED <<torrentVars, alive, mail, pending>> /\ Tell(KillPeer(p))
        /\ \A q \in Peer : q # p => dying'[q] = dying[q]
    BY Zenon, <1>0, <1>9 DEF NotifyStopped
  <2>2. KillPeer(p) \in TorrentMessage
    BY MessagesTyped, Zenon
  <2>3. /\ \A q \in Peer : /\ KillIn(inbox, q) => KillIn(inbox', q)
                           /\ \A y : AnswerIn(inbox, q, y) => AnswerIn(inbox', q, y)
        /\ KillIn(inbox', p)
    BY <2>1, <2>2, <1>1, Zenon
  <2>4. \A q \in Peer : Killed(q) => Killed(q)'
    BY <2>1, <2>3, Zenon DEF Killed
  <2> QED
    BY <2>1, <2>3, <2>4, BackedKept, Zenon DEF torrentVars, InHand
<1> QED
  BY <1>3, <1>4, <1>5, <1>6, <1>7, <1>8, <1>9, Zenon DEF PeerStep

\* Nothing is on request at the start.
LEMMA BackedInit == Init => Backed
<1> SUFFICES ASSUME Init PROVE Backed
  BY Zenon
<1>1. \A x \in Slot : sched.in_flight[x] = NoPeer
  BY Zenon DEF Init, New
<1> QED
  BY Zenon, <1>1, SchedulerConstants DEF Init, Backed

\* Every step keeps it.
LEMMA BackedNext ==
  ASSUME AnswersKept
  PROVE  FlowInv /\ Backed /\ [Next]_vars => Backed'
<1> SUFFICES ASSUME FlowInv, Backed, [Next]_vars PROVE Backed'
  BY Zenon
<1>1. CASE Continue
  BY Zenon, <1>1, BackedFillPeer, BackedContinue DEF Continue
<1>2. CASE HandleMessage
  BY Zenon, <1>2, BackedMessages, BackedCommands DEF HandleMessage
<1>3. CASE Start \/ Pause \/ Rechoke
  BY Zenon, <1>3, BackedCommands
<1>4. CASE \E p \in Peer : PeerConnected(p) \/ DisconnectPeer(p) \/ PeerStep(p)
  BY <1>4, BackedCommands, BackedPeers, Zenon
<1>5. CASE UNCHANGED vars
  BY <1>5, Zenon DEF vars, torrentVars, peerVars, Backed, Killed, InHand
<1> QED
  BY <1>1, <1>2, <1>3, <1>4, <1>5, Zenon DEF Next

\* While no answer is dropped, every block on request will be answered, released
\* or cleaned up: a message in a mailbox, the remote, an answer under way, or the
\* KillPeer of a peer that is gone stands for it (torrent/piece_flow.rs,
\* torrent/swarm.rs, peer/actor.rs).
THEOREM FlowRequestsAccounted ==
  ASSUME AnswersKept
  PROVE  Spec => []RequestsAccounted
<1>1. FlowInv /\ Backed => RequestsAccounted
  BY Zenon, BackedMeans DEF RequestsAccounted, FlowInv, BooksOK
<1> QED
  BY FlowInit, FlowNext, BackedInit, BackedNext, <1>1, PTL DEF Spec

=============================================================================
