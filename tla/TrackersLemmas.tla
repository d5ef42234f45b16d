--------------------------- MODULE TrackersLemmas ---------------------------
(***************************************************************************)
(* What the steps of Trackers do to the shared socket, and to what the      *)
(* messages in a tracker's mailbox will make of its announce parameters:    *)
(* the lemmas that TrackersProofs needs, for any trackers and bounds.       *)
(***************************************************************************)
EXTENDS Trackers, TLAPS

-----------------------------------------------------------------------------
(* Small facts *)

\* A mailbox and its messages: one more at the end, or without the first.
LEMMA AppendFacts ==
  ASSUME NEW S, NEW s \in Seq(S), NEW m \in S
  PROVE  /\ Append(s, m) \in Seq(S) /\ Append(s, m) # <<>>
         /\ Len(Append(s, m)) = Len(s) + 1
         /\ \A i \in 1..Len(s) : Append(s, m)[i] = s[i]
         /\ Append(s, m)[Len(s) + 1] = m
OBVIOUS

LEMMA TailFacts ==
  ASSUME NEW S, NEW s \in Seq(S), s # <<>>
  PROVE  /\ Len(s) \in Nat \ {0} /\ Head(s) \in S
         /\ Tail(s) \in Seq(S) /\ Len(Tail(s)) = Len(s) - 1
         /\ \A i \in 1..Len(Tail(s)) : Tail(s)[i] = s[i + 1]
OBVIOUS


\* The delay asked of the scheduler is between the bounds, whatever interval
\* the tracker gave.
LEMMA DelayBounded ==
  ASSUME NEW i \in Intervals \cup {Unset}
  PROVE  /\ AnnounceDelay(i) \in Nat
         /\ AnnounceDelay(i) \in MinInterval..Larger(MaxInterval, MinInterval)
BY TrackersAssumption DEF AnnounceDelay, Smaller, Larger

-----------------------------------------------------------------------------
(* The requests of the UDP clients and the registry of the shared socket *)

Waits == [op : {"none", "connect", "announce"}, id : 0..MaxIds,
          retries : 0..RetryAttempts, open : BOOLEAN]

WireTyped ==
  /\ wait \in [Udp -> Waits] /\ answered \in [Udp -> Seq(Responses)]
  /\ DOMAIN channels \subseteq 1..MaxIds /\ channels \in [DOMAIN channels -> Udp]
  /\ datagrams \subseteq Requests

ClientTyped ==
  /\ service \in [Udp -> 1..MaxExpiries + 1]
  /\ ready \in [Udp -> BOOLEAN] /\ conn \in [Udp -> 0..MaxExpiries + 1]
  /\ attempt \in [Udp -> Nat]

\* A client without a request waits for nothing; one with a request has an id,
\* and no two requests share theirs.
IdsDistinct ==
  \A t \in Udp :
    /\ wait[t].op = "none" => wait[t] = NoWait
    /\ wait[t].op # "none" => wait[t].id \in 1..MaxIds
    /\ \A u \in Udp \ {t} : wait[t].op # "none" => wait[u].id # wait[t].id

WireInv == WireTyped /\ IdsDistinct /\ RegistryExact /\ AnswersMatch

\* No request at all.
LEMMA NoWaitTyped ==
  /\ NoWait \in Waits /\ NoWait.op = "none" /\ NoWait.id = 0 /\ NoWait.open = FALSE
BY TrackersAssumption DEF NoWait, Waits

\* One try of a request: the client had none open, and nobody else has its id.
LEMMA WireSends ==
  ASSUME WireInv, NEW t \in Udp, NEW op \in {"connect", "announce"},
         NEW id \in 1..MaxIds, NEW retries \in 0..RetryAttempts,
         SendAndRecv(t, op, id, retries), conn' \in [Udp -> 0..MaxExpiries + 1],
         ~wait[t].open, \A u \in Udp \ {t} : wait[u].id # id
  PROVE  WireInv' /\ wait'[t].op = op /\ \A u \in Udp \ {t} : wait'[u] = wait[u]
<1> DEFINE w == [op |-> op, id |-> id, retries |-> retries, open |-> TRUE]
<1>1. /\ w \in Waits /\ w.op = op /\ w.id = id /\ w.open = TRUE
  BY DEF Waits
<1>2. wait' = [wait EXCEPT ![t] = w]
  BY Zenon DEF SendAndRecv
<1> HIDE DEF w
<1>3. /\ wait' \in [Udp -> Waits] /\ wait'[t] = w
      /\ \A u \in Udp \ {t} : wait'[u] = wait[u]
  BY Zenon, <1>1, <1>2 DEF WireInv, WireTyped
<1>4. /\ answered' = [answered EXCEPT ![t] = <<>>]
      /\ channels' = [i \in DOMAIN channels \cup {id} |-> IF i = id THEN t ELSE channels[i]]
  BY Zenon DEF SendAndRecv
<1>5. /\ answered' \in [Udp -> Seq(Responses)] /\ answered'[t] = <<>>
      /\ \A u \in Udp \ {t} : answered'[u] = answered[u]
  BY <1>4 DEF WireInv, WireTyped
<1>6. /\ DOMAIN channels' = DOMAIN channels \cup {id} /\ channels'[id] = t
      /\ \A i \in DOMAIN channels \ {id} : channels'[i] = channels[i]
      /\ channels' \in [DOMAIN channels' -> Udp]
  BY Zenon, <1>4 DEF WireInv, WireTyped
<1>7. datagrams' \subseteq Requests
  <2> DEFINE q == [op |-> op, id |-> id, to |-> t,
                   conn |-> IF op = "connect" THEN 0 ELSE conn'[t]]
  <2>1. (IF op = "connect" THEN 0 ELSE conn'[t]) \in 0..MaxExpiries + 1
    BY TrackersAssumption
  <2>2. q \in Requests
    BY Zenon, <2>1 DEF Requests
  <2>3. datagrams' = datagrams \cup {q}
    BY Zenon DEF SendAndRecv
  <2> QED
    BY Zenon, <2>2, <2>3 DEF WireInv, WireTyped
<1>8. WireTyped'
  BY Zenon, <1>3, <1>5, <1>6, <1>7 DEF WireInv, WireTyped
<1>9. IdsDistinct'
  <2>1. \A u \in Udp \ {t} : /\ wait[u].op = "none" => wait[u] = NoWait
                             /\ wait[u].op # "none" => wait[u].id \in 1..MaxIds
                             /\ \A v \in Udp \ {u} : wait[u].op # "none"
                                                       => wait[v].id # wait[u].id
    BY Zenon DEF WireInv, IdsDistinct
  <2>2. wait'[t].op # "none" /\ wait'[t].id = id
    BY Zenon, <1>1, <1>3
  <2>3. \A u \in Udp \ {t} : /\ wait'[u].op = "none" => wait'[u] = NoWait
                             /\ wait'[u].op # "none" => wait'[u].id \in 1..MaxIds
                             /\ \A v \in Udp \ {u} : wait'[u].op # "none"
                                                       => wait'[v].id # wait'[u].id
    BY <1>3, <2>1, <2>2
  <2>4. \A v \in Udp \ {t} : wait'[v].id # wait'[t].id
    BY Zenon, <1>3, <2>2
  <2> QED
    BY Zenon, <2>2, <2>3, <2>4 DEF IdsDistinct
<1>10. RegistryExact'
  <2>1. DOMAIN channels = {wait[u].id : u \in {v \in Udp : wait[v].open}}
    BY Zenon DEF WireInv, RegistryExact
  <2>2. {v \in Udp : wait'[v].open} = {v \in Udp : wait[v].open} \cup {t}
    BY Zenon, <1>1, <1>3
  <2>3. {wait'[u].id : u \in {v \in Udp : wait'[v].open}}
          = {wait[u].id : u \in {v \in Udp : wait[v].open}} \cup {id}
    BY <1>1, <1>3, <2>2
  <2>4. \A u \in Udp : wait'[u].open => channels'[wait'[u].id] = u
    BY <1>1, <1>3, <1>6, <2>1 DEF WireInv, RegistryExact
  <2> QED
    BY Zenon, <1>6, <2>1, <2>3, <2>4 DEF RegistryExact
<1>11. AnswersMatch'
  <2>1. DOMAIN answered'[t] = {}
    BY <1>5
  <2>2. ASSUME NEW u \in Udp, u # t, NEW i \in DOMAIN answered'[u]
        PROVE  wait'[u].open /\ answered'[u][i].id = wait'[u].id
    <3>1. wait'[u] = wait[u] /\ answered'[u] = answered[u]
      BY Zenon, <2>2, <1>3, <1>5
    <3> QED
      BY Zenon, <3>1 DEF WireInv, AnswersMatch
  <2> QED
    BY Zenon, <2>1, <2>2 DEF AnswersMatch
<1> QED
  BY Zenon, <1>1, <1>3, <1>8, <1>9, <1>10, <1>11 DEF WireInv

\* A new request: its id is one that no request has.
LEMMA WireAsks ==
  ASSUME WireInv, NEW t \in Udp, NEW op \in {"connect", "announce"},
         SendAndWait(t, op), conn' \in [Udp -> 0..MaxExpiries + 1], wait[t] = NoWait
  PROVE  WireInv' /\ wait'[t].op = op /\ \A u \in Udp \ {t} : wait'[u] = wait[u]
<1> DEFINE id == CHOOSE i \in UnusedIds : TRUE
<1>1. UnusedIds \in SUBSET Nat /\ UnusedIds # {}
  BY TrackersAssumption DEF UnusedIds, SendAndWait
<1>2. id \in UnusedIds
  BY Zenon, <1>1
<1>3. SendAndRecv(t, op, id, RetryAttempts)
  BY Zenon DEF SendAndWait
<1> HIDE DEF id
<1>4. id \in 1..MaxIds /\ \A u \in Udp : wait[u].id # id
  BY Zenon, <1>2 DEF UnusedIds
<1>5. ~wait[t].open /\ RetryAttempts \in 0..RetryAttempts
  BY NoWaitTyped, TrackersAssumption
<1> QED
  BY Zenon, <1>3, <1>4, <1>5, WireSends

\* The client's entry goes, and that of no other.
LEMMA WireUnregisters ==
  ASSUME WireInv, NEW t \in Udp, channels' = Unregister(channels, wait[t].id)
  PROVE  /\ DOMAIN channels' = DOMAIN channels \ {wait[t].id}
         /\ DOMAIN channels' \subseteq 1..MaxIds /\ channels' \in [DOMAIN channels' -> Udp]
         /\ \A i \in DOMAIN channels' : channels'[i] = channels[i]
BY Zenon DEF WireInv, WireTyped, Unregister

\* A request that is over, or that backs off before its next try, leaves no
\* channel open, and the other requests as they were.
LEMMA WireCloses ==
  ASSUME WireInv, NEW t \in Udp, NEW w \in Waits, ~w.open,
         w = NoWait \/ (w.op # "none" /\ w.op = wait[t].op /\ w.id = wait[t].id),
         wait' = [wait EXCEPT ![t] = w], channels' = Unregister(channels, wait[t].id),
         answered' \in [Udp -> Seq(Responses)], answered'[t] = <<>>,
         \A u \in Udp \ {t} : answered'[u] = answered[u], datagrams' = datagrams
  PROVE  WireInv' /\ wait'[t] = w /\ \A u \in Udp \ {t} : wait'[u] = wait[u]
<1>1. /\ wait' \in [Udp -> Waits] /\ wait'[t] = w
      /\ \A u \in Udp \ {t} : wait'[u] = wait[u]
  BY Zenon DEF WireInv, WireTyped
<1>2. /\ DOMAIN channels' = DOMAIN channels \ {wait[t].id}
      /\ DOMAIN channels' \subseteq 1..MaxIds /\ channels' \in [DOMAIN channels' -> Udp]
      /\ \A i \in DOMAIN channels' : channels'[i] = channels[i]
  BY Zenon, WireUnregisters
<1>3. WireTyped'
  BY Zenon, <1>1, <1>2 DEF WireInv, WireTyped
<1>4. ASSUME NEW u \in Udp, u # t
      PROVE  /\ wait[u].op = "none" => wait[u] = NoWait
             /\ wait[u].op # "none" => wait[u].id \in 1..MaxIds
             /\ \A v \in Udp \ {u} : wait[u].op # "none" => wait[v].id # wait[u].id
  BY Zenon DEF WireInv, IdsDistinct
<1>5. /\ w.op = "none" => w = NoWait
      /\ w.op # "none" => w.op = wait[t].op /\ w.id = wait[t].id /\ w.id \in 1..MaxIds
      /\ \A u \in Udp \ {t} : w.op # "none" => wait[u].id # w.id
      /\ \A u \in Udp \ {t} : wait[u].op # "none" => wait[u].id # w.id
  BY <1>4, NoWaitTyped, TrackersAssumption DEF WireInv, IdsDistinct
<1>6. IdsDistinct'
  <2>1. ASSUME NEW u \in Udp, u # t
        PROVE  /\ wait'[u].op = "none" => wait'[u] = NoWait
               /\ wait'[u].op # "none" => wait'[u].id \in 1..MaxIds
               /\ \A v \in Udp \ {u} : wait'[u].op # "none" => wait'[v].id # wait'[u].id
    BY Zenon, <1>1, <1>4, <1>5, <2>1
  <2>2. /\ wait'[t].op = "none" => wait'[t] = NoWait
        /\ wait'[t].op # "none" => wait'[t].id \in 1..MaxIds
        /\ \A u \in Udp \ {t} : wait'[t].op # "none" => wait'[u].id # wait'[t].id
    BY Zenon, <1>1, <1>5
  <2> QED
    BY Zenon, <2>1, <2>2 DEF IdsDistinct
<1>7. \A u \in Udp \ {t} : wait[u].open => wait[u].op # "none"
  BY Zenon, <1>4, NoWaitTyped
<1>8. RegistryExact'
  <2>1. DOMAIN channels = {wait[u].id : u \in {v \in Udp : wait[v].open}}
    BY Zenon DEF WireInv, RegistryExact
  <2>2. \A u \in Udp : wait'[u].open => u # t /\ wait[u].open /\ wait'[u] = wait[u]
    BY Zenon, <1>1
  <2>3. \A u \in Udp : wait'[u].open => wait[u].id # wait[t].id
    BY <1>4, <1>7, <2>2
  <2>4. \A u \in Udp : wait[u].open /\ wait[u].id # wait[t].id => wait'[u].open
    BY Zenon, <1>1
  <2>5. {wait'[u].id : u \in {v \in Udp : wait'[v].open}}
          = {wait[u].id : u \in {v \in Udp : wait[v].open}} \ {wait[t].id}
    BY <1>1, <2>2, <2>3, <2>4
  <2>6. \A u \in Udp : wait'[u].open => channels'[wait'[u].id] = u
    BY <1>2, <2>1, <2>2, <2>3 DEF WireInv, RegistryExact
  <2> QED
    BY Zenon, <1>2, <2>1, <2>5, <2>6 DEF RegistryExact
<1>9. AnswersMatch'
  <2>1. DOMAIN answered'[t] = {}
    OBVIOUS
  <2>2. ASSUME NEW u \in Udp, u # t, NEW i \in DOMAIN answered'[u]
        PROVE  wait'[u].open /\ answered'[u][i].id = wait'[u].id
    <3>1. wait'[u] = wait[u] /\ answered'[u] = answered[u]
      BY Zenon, <2>2, <1>1
    <3> QED
      BY <3>1 DEF WireInv, AnswersMatch
  <2> QED
    BY Zenon, <2>1, <2>2 DEF AnswersMatch
<1> QED
  BY Zenon, <1>1, <1>3, <1>6, <1>8, <1>9 DEF WireInv

\* The request is over.
LEMMA WireEnds ==
  ASSUME WireInv, NEW t \in Udp, EndRequest(t)
  PROVE  WireInv' /\ wait'[t] = NoWait /\ \A u \in Udp \ {t} : wait'[u] = wait[u]
<1>1. /\ channels' = Unregister(channels, wait[t].id) /\ wait' = [wait EXCEPT ![t] = NoWait]
      /\ answered' = [answered EXCEPT ![t] = <<>>] /\ datagrams' = datagrams
  BY Zenon DEF EndRequest
<1>2. /\ answered' \in [Udp -> Seq(Responses)] /\ answered'[t] = <<>>
      /\ \A u \in Udp \ {t} : answered'[u] = answered[u]
  BY <1>1 DEF WireInv, WireTyped
<1> QED
  BY Zenon, <1>1, <1>2, NoWaitTyped, WireCloses

\* A try timed out, and another is due.
LEMMA WireBacksOff ==
  ASSUME WireInv, NEW t \in Udp, wait[t].open, answered[t] = <<>>, wait[t].retries > 0,
         channels' = Unregister(channels, wait[t].id),
         wait' = [wait EXCEPT ![t] = [op |-> @.op, id |-> @.id,
                                      retries |-> @.retries - 1, open |-> FALSE]],
         UNCHANGED <<answered, datagrams>>
  PROVE  WireInv' /\ wait'[t].op = wait[t].op /\ \A u \in Udp \ {t} : wait'[u] = wait[u]
<1> DEFINE w == [op |-> wait[t].op, id |-> wait[t].id, retries |-> wait[t].retries - 1,
                 open |-> FALSE]
<1>1. wait[t] \in Waits
  BY Zenon DEF WireInv, WireTyped
<1>2. wait[t].retries - 1 \in 0..RetryAttempts
  BY <1>1, TrackersAssumption DEF Waits
<1>3. /\ w \in Waits /\ ~w.open /\ w.op = wait[t].op /\ w.id = wait[t].id
  BY Zenon, <1>1, <1>2 DEF Waits
<1>5. wait' = [wait EXCEPT ![t] = w]
  BY Zenon
<1> HIDE DEF w
<1>6. wait[t].op # "none"
  BY Zenon, NoWaitTyped DEF WireInv, IdsDistinct
<1>7. answered' \in [Udp -> Seq(Responses)]
  BY Zenon DEF WireInv, WireTyped
<1> QED
  BY <1>3, <1>5, <1>6, <1>7, WireCloses, ZenonT(30)

\* The next try of the same request.
LEMMA WireRetries ==
  ASSUME WireInv, NEW t \in Udp, wait[t].op # "none", ~wait[t].open,
         conn' \in [Udp -> 0..MaxExpiries + 1],
         SendAndRecv(t, wait[t].op, wait[t].id, wait[t].retries)
  PROVE  WireInv' /\ wait'[t].op # "none" /\ \A u \in Udp \ {t} : wait'[u] = wait[u]
<1>1. /\ wait[t].op \in {"connect", "announce"} /\ wait[t].retries \in 0..RetryAttempts
  BY Zenon DEF WireInv, WireTyped, Waits
<1>2. wait[t].id \in 1..MaxIds /\ \A u \in Udp \ {t} : wait[u].id # wait[t].id
  BY Zenon DEF WireInv, IdsDistinct
<1> QED
  BY <1>1, <1>2, WireSends


\* What a tracker answers is a response with the id of the request.
LEMMA AnswersTyped ==
  ASSUME ClientTyped, NEW q \in Requests, NEW r \in Answers(q)
  PROVE  r \in Responses /\ r.id = q.id
<1>1. q.id \in 1..MaxIds /\ service[q.to] \in 0..MaxExpiries + 1
  BY TrackersAssumption DEF Requests, ClientTyped
<1>2. ASSUME NEW op \in {"Connect", "Announce", "Error"}, NEW i \in Intervals \cup {Unset},
             NEW m \in {"", "connection id", "other"}
      PROVE  /\ TrackerAnswer(q, op, i, m) \in Responses
             /\ TrackerAnswer(q, op, i, m).id = q.id
  BY Zenon, <1>1 DEF TrackerAnswer, Responses
<1>3. PICK op \in {"Connect", "Announce", "Error"}, i \in Intervals \cup {Unset},
        m \in {"", "connection id", "other"} : r = TrackerAnswer(q, op, i, m)
  BY Zenon DEF Answers
<1> QED
  BY Zenon, <1>2, <1>3

\* An answer goes to the client that has its request open, or nowhere.
LEMMA WireReceives ==
  ASSUME WireInv, ClientTyped, NEW q \in datagrams, ReceiveDatagram(q)
  PROVE  WireInv' /\ wait' = wait
<1>1. /\ datagrams' = datagrams \ {q} /\ channels' = channels /\ wait' = wait
  BY Zenon DEF ReceiveDatagram
<1>2. PICK r \in Answers(q) :
        IF r.id \in DOMAIN channels
        THEN answered' = [answered EXCEPT ![channels[r.id]] = Append(@, r)]
        ELSE UNCHANGED answered
  BY Zenon DEF ReceiveDatagram
<1>3. r \in Responses /\ q \in Requests
  BY Zenon, AnswersTyped DEF WireInv, WireTyped
<1>4. CASE r.id \notin DOMAIN channels
  BY <1>1, <1>2, <1>4 DEF WireInv, WireTyped, IdsDistinct, RegistryExact, AnswersMatch
<1>5. CASE r.id \in DOMAIN channels
  <2> DEFINE t == channels[r.id]
  <2>1. t \in Udp /\ answered' = [answered EXCEPT ![t] = Append(@, r)]
    BY Zenon, <1>2, <1>5 DEF WireInv, WireTyped
  <2>2. wait[t].open /\ wait[t].id = r.id
    BY <1>5 DEF WireInv, RegistryExact
  <2> HIDE DEF t
  <2>3. /\ answered[t] \in Seq(Responses) /\ answered'[t] = Append(answered[t], r)
        /\ \A u \in Udp \ {t} : answered'[u] = answered[u]
    BY Zenon, <2>1 DEF WireInv, WireTyped
  <2>4. answered' \in [Udp -> Seq(Responses)]
    BY <1>3, <2>1, <2>3 DEF WireInv, WireTyped
  <2>5. ASSUME NEW u \in Udp, NEW i \in DOMAIN answered'[u]
        PROVE  wait[u].open /\ answered'[u][i].id = wait[u].id
    <3>1. CASE u # t
      BY Zenon, <2>3, <3>1 DEF WireInv, AnswersMatch
    <3>2. CASE u = t
      <4>1. i \in 1..Len(answered[t]) + 1
        BY <2>3, <2>5, <3>2, <1>3, AppendFacts
      <4>2. CASE i = Len(answered[t]) + 1
        BY <2>2, <2>3, <3>2, <4>2, <1>3, AppendFacts
      <4>3. CASE i # Len(answered[t]) + 1
        <5>1. i \in DOMAIN answered[t] /\ answered'[t][i] = answered[t][i]
          BY <2>3, <4>1, <4>3, <1>3, AppendFacts
        <5> QED
          BY Zenon, <3>2, <5>1 DEF WireInv, AnswersMatch
      <4> QED
        BY Zenon, <4>2, <4>3
    <3> QED
      BY Zenon, <3>1, <3>2
  <2>6. AnswersMatch'
    BY Zenon, <1>1, <2>5 DEF AnswersMatch
  <2> QED
    BY <1>1, <2>4, <2>6 DEF WireInv, WireTyped, IdsDistinct, RegistryExact
<1> QED
  BY Zenon, <1>1, <1>4, <1>5

\* What does not touch the wire, or loses a datagram, changes nothing.
LEMMA WireKeeps ==
  ASSUME WireInv, UNCHANGED <<wait, answered, channels>>, datagrams' \subseteq datagrams
  PROVE  WireInv'
BY DEF WireInv, WireTyped, IdsDistinct, RegistryExact, AnswersMatch


-----------------------------------------------------------------------------
(* The tracker actors, their timers and what they are told *)

Phases == {"absent", "starting", "greeting", "idle", "announcing", "reporting",
           "stopping", "leaving", "stopped", "dead"}

\* Phases in which the actor awaits no client, has not read its parameters yet,
\* and will still handle messages.
Resting == Phases \ {"starting", "announcing", "stopping"}
Beginning == {"starting", "greeting"}
Working == {"starting", "greeting", "idle", "announcing", "reporting"}

ActorTyped ==
  /\ phase \in [Tracker -> Phases]
  /\ interval \in [Tracker -> Intervals \cup {Unset}]
  /\ params \in [Tracker -> [event : Event, left : LeftValues \cup {0}]]
  /\ armed \in [Tracker -> Nat \cup {NotArmed, Lost}]
  /\ mailbox \in [Tracker -> Seq(Messages)]
  /\ restarts \in [Tracker -> 0..RestartLimit]

TorrentTyped ==
  /\ trackers \subseteq configured /\ configured \subseteq Tracker
  /\ event \in Event /\ told \in [Tracker -> 0..4]
  /\ left \in LeftValues /\ initialLeft \in [Tracker -> LeftValues]
  /\ missed \in [Tracker -> BOOLEAN]
  /\ \A t \in Tracker \ trackers : told[t] = 4

\* An actor that awaits no client has no request.
AtRest == \A t \in Udp : phase[t] \in Resting => wait[t] = NoWait

\* The timer of an actor: none before it runs and once it stops.
TimerOK(t) ==
  /\ phase[t] \notin {"idle", "announcing", "reporting"} => armed[t] = NotArmed
  /\ phase[t] = "idle" => armed[t] # NotArmed \/ InMailbox(t, {"Announce", "Stop"})
  /\ armed[t] > 0 => armed[t] \in MinInterval..Larger(MaxInterval, MinInterval)

\* Once the first n messages of a mailbox are handled, the parameter that
\* messages of kind k set, and that is b now, will be v.
Value(m) == IF m.k = "Event" THEN m.e ELSE m.left
Sets(s, n, k) == {i \in 1..n : s[i].k = k}
Says(s, n, k, b, v) ==
  IF Sets(s, n, k) = {} THEN b = v
  ELSE \E i \in Sets(s, n, k) : /\ \A j \in Sets(s, n, k) : j <= i
                                /\ Value(s[i]) = v

\* The parameters an actor that starts will begin with.
BaseLeft(t) == IF phase[t] \in Beginning THEN initialLeft[t] ELSE params[t].left
BaseEvent(t) == IF phase[t] \in Beginning THEN "none" ELSE params[t].event

\* Its messages will bring a registered tracker the torrent's progress, unless
\* an update did not fit; every Announce of an event finds the event and the
\* progress it is sent with; and a broadcast in progress has left what its
\* Announce will need.
IsEventAnnounce(m) == m.k = "Announce" /\ m.e # "timer"
ParamsOK(t) ==
  phase[t] \in Working =>
    /\ t \in trackers /\ ~missed[t]
         => Says(mailbox[t], Len(mailbox[t]), "Left", BaseLeft(t), left)
    /\ \A i \in DOMAIN mailbox[t] : IsEventAnnounce(mailbox[t][i]) =>
         /\ Says(mailbox[t], i, "Event", BaseEvent(t), mailbox[t][i].e)
         /\ Says(mailbox[t], i, "Left", BaseLeft(t), mailbox[t][i].left)
    /\ t \in trackers /\ told[t] \in 1..3 => ~missed[t]
    /\ t \in trackers /\ told[t] = 2
         => Says(mailbox[t], Len(mailbox[t]), "Event", BaseEvent(t), event)

ActorsInv == ActorTyped /\ TorrentTyped /\ \A t \in Tracker : TimerOK(t) /\ ParamsOK(t)

\* The inductive invariant of the trackers.
TrackersInv == WireInv /\ ClientTyped /\ AtRest /\ ActorsInv


\* The kinds of messages and what they carry.
LEMMA MessageKinds ==
  ASSUME NEW m \in Messages
  PROVE  /\ m.k \in {"Announce", "Event", "Left", "Stop"}
         /\ m.k = "Event" => m.e \in Event
         /\ m.k = "Left" => m.left \in LeftValues
         /\ IsEventAnnounce(m) => m.e \in Event /\ m.left \in LeftValues
BY Zenon DEF Messages, IsEventAnnounce, Event

\* The messages themselves.
LEMMA MessagesMade ==
  /\ [k |-> "Announce", e |-> "timer"] \in Messages
  /\ [k |-> "Stop", e |-> "Stopped"] \in Messages
  /\ \A e \in Event : [k |-> "Event", e |-> e] \in Messages
  /\ \A l \in LeftValues : [k |-> "Left", left |-> l] \in Messages
  /\ \A e \in Event, l \in LeftValues :
       [k |-> "Announce", e |-> e, left |-> l] \in Messages
BY Zenon DEF Messages

\* A message at the end of a mailbox changes nothing before it, and sets the
\* parameter it is about.
LEMMA SaysAppend ==
  ASSUME NEW s \in Seq(Messages), NEW m \in Messages, NEW k, NEW b, NEW v
  PROVE  /\ \A n \in 0..Len(s) : Says(s, n, k, b, v) => Says(Append(s, m), n, k, b, v)
         /\ m.k = k => Says(Append(s, m), Len(s) + 1, k, b, Value(m))
         /\ m.k # k /\ Says(s, Len(s), k, b, v) => Says(Append(s, m), Len(s) + 1, k, b, v)
<1> DEFINE a == Append(s, m)
<1>1. /\ Len(s) \in Nat /\ a[Len(s) + 1] = m
      /\ \A i \in 1..Len(s) : a[i] = s[i]
  BY AppendFacts
<1> HIDE DEF a
<1>2. ASSUME NEW n \in 0..Len(s)
      PROVE  Sets(a, n, k) = Sets(s, n, k) /\ \A i \in Sets(s, n, k) : a[i] = s[i]
  BY <1>1 DEF Sets
<1>3. m.k = k => Sets(a, Len(s) + 1, k) = Sets(s, Len(s), k) \cup {Len(s) + 1}
  BY <1>1 DEF Sets
<1>4. m.k # k => Sets(a, Len(s) + 1, k) = Sets(s, Len(s), k)
  BY <1>1 DEF Sets
<1>5. Sets(s, Len(s), k) \subseteq 1..Len(s)
  BY Zenon DEF Sets
<1>6. ASSUME NEW n \in 0..Len(s), Says(s, n, k, b, v)
      PROVE  Says(a, n, k, b, v)
  BY Zenon, <1>2, <1>6 DEF Says
<1>7. ASSUME m.k = k
      PROVE  Says(a, Len(s) + 1, k, b, Value(m))
  <2>1. Len(s) + 1 \in Sets(a, Len(s) + 1, k)
    BY Zenon, <1>3, <1>7
  <2>2. \A j \in Sets(a, Len(s) + 1, k) : j <= Len(s) + 1
    BY <1>1, <1>3, <1>5, <1>7
  <2> QED
    BY Zenon, <1>1, <2>1, <2>2 DEF Says
<1>8. ASSUME m.k # k, Says(s, Len(s), k, b, v)
      PROVE  Says(a, Len(s) + 1, k, b, v)
  BY <1>1, <1>2, <1>4, <1>8 DEF Says
<1> QED
  BY Zenon, <1>6, <1>7, <1>8 DEF a

\* Handling the first message leaves the rest to be handled.
LEMMA SaysTail ==
  ASSUME NEW s \in Seq(Messages), s # <<>>, NEW n \in 1..Len(s), NEW k, NEW b, NEW v,
         Says(s, n, k, b, v)
  PROVE  Says(Tail(s), n - 1, k, IF s[1].k = k THEN Value(s[1]) ELSE b, v)
<1> DEFINE r == Tail(s)
           c == IF s[1].k = k THEN Value(s[1]) ELSE b
<1>1. /\ Len(s) \in Nat \ {0} /\ \A i \in 1..(Len(s) - 1) : r[i] = s[i + 1]
  BY Zenon, TailFacts
<1> HIDE DEF r
<1>2. \A i \in 1..(n - 1) : i \in Sets(r, n - 1, k) <=> i + 1 \in Sets(s, n, k)
  BY <1>1 DEF Sets
<1>3. Sets(r, n - 1, k) \subseteq 1..(n - 1) /\ Sets(s, n, k) \subseteq 1..n
  BY Zenon DEF Sets
<1>4. 1 \in Sets(s, n, k) <=> s[1].k = k
  BY DEF Sets
<1>5. CASE Sets(r, n - 1, k) = {}
  <2>1. \A i \in Sets(s, n, k) : i = 1
    <3> SUFFICES ASSUME NEW i \in Sets(s, n, k), i # 1 PROVE FALSE
      BY Zenon
    <3>1. i - 1 \in 1..(n - 1) /\ (i - 1) + 1 = i
      BY <1>3
    <3>2. i - 1 \in Sets(r, n - 1, k)
      BY Zenon, <1>2, <3>1
    <3> QED
      BY Zenon, <1>5, <3>2
  <2>2. CASE s[1].k = k
    <3>1. Sets(s, n, k) = {1}
      BY Zenon, <1>4, <2>1, <2>2
    <3>2. Value(s[1]) = v
      BY Zenon, <3>1 DEF Says
    <3> QED
      BY Zenon, <1>5, <2>2, <3>2 DEF Says, r
  <2>3. CASE s[1].k # k
    <3>1. Sets(s, n, k) = {}
      BY Zenon, <1>4, <2>1, <2>3
    <3> QED
      BY Zenon, <1>5, <2>3, <3>1 DEF Says, r
  <2> QED
    BY Zenon, <2>2, <2>3
<1>6. CASE Sets(r, n - 1, k) # {}
  <2>1. PICK j \in Sets(r, n - 1, k) : TRUE
    BY Zenon, <1>6
  <2>2. j \in 1..(n - 1) /\ j + 1 \in Sets(s, n, k)
    BY Zenon, <1>2, <1>3
  <2>3. PICK i \in Sets(s, n, k) : (\A h \in Sets(s, n, k) : h <= i) /\ Value(s[i]) = v
    BY Zenon, <2>2 DEF Says
  <2>4. i \in 1..n /\ j + 1 <= i
    BY Zenon, <1>3, <2>2, <2>3
  <2>5. i - 1 \in 1..(n - 1) /\ (i - 1) + 1 = i
    BY <2>2, <2>4
  <2>6. i - 1 \in Sets(r, n - 1, k) /\ r[i - 1] = s[i]
    BY <1>1, <1>2, <2>5
  <2>7. \A h \in Sets(r, n - 1, k) : h <= i - 1
    BY <1>2, <1>3, <2>3, <2>4
  <2>8. Value(r[i - 1]) = v
    BY Zenon, <2>3, <2>6
  <2> QED
    BY Zenon, <1>6, <2>6, <2>7, <2>8 DEF Says, r
<1> QED
  BY Zenon, <1>5, <1>6

\* A parameter that some message sets does not depend on what it is now.
LEMMA SaysSet ==
  ASSUME NEW s, NEW n, NEW k, NEW b, NEW v, NEW c, Says(s, n, k, b, v), b # v
  PROVE  Says(s, n, k, c, v)
BY Zenon DEF Says


-----------------------------------------------------------------------------
(* What a step does to the parameters of one tracker *)

\* The torrent's side of a tracker stays as it is, or the tracker is removed.
SameTorrent(t) ==
  /\ t \in trackers' => t \in trackers /\ told'[t] = told[t]
  /\ left' = left /\ event' = event /\ missed'[t] = missed[t]

\* A step that leaves the mailbox and what it is to be applied to.
LEMMA ParamsKeeps ==
  ASSUME ActorTyped, TorrentTyped, NEW t \in Tracker, ParamsOK(t), SameTorrent(t),
         mailbox'[t] = mailbox[t],
         phase'[t] \in Working => /\ phase[t] \in Working /\ BaseLeft(t)' = BaseLeft(t)
                                  /\ BaseEvent(t)' = BaseEvent(t) \/ BaseEvent(t) = "none"
  PROVE  ParamsOK(t)'
<1> SUFFICES ASSUME phase'[t] \in Working PROVE ParamsOK(t)'
  BY Zenon DEF ParamsOK
<1>1. /\ phase[t] \in Working /\ BaseLeft(t)' = BaseLeft(t)
      /\ BaseEvent(t)' = BaseEvent(t) \/ BaseEvent(t) = "none"
  BY Zenon
<1>2. ASSUME NEW n, NEW v \in Event, Says(mailbox[t], n, "Event", BaseEvent(t), v)
      PROVE  Says(mailbox[t], n, "Event", BaseEvent(t)', v)
  <2>1. "none" \notin Event
    BY Zenon DEF Event
  <2>2. CASE BaseEvent(t)' = BaseEvent(t)
    BY Zenon, <1>2, <2>2
  <2>3. CASE BaseEvent(t) = "none"
    BY Zenon, <1>2, <2>1, <2>3, SaysSet
  <2> QED
    BY Zenon, <1>1, <2>2, <2>3
<1>3. \A i \in DOMAIN mailbox[t] : mailbox[t][i] \in Messages
  BY DEF ActorTyped
<1>4. \A i \in DOMAIN mailbox[t] : IsEventAnnounce(mailbox[t][i]) =>
        /\ Says(mailbox[t], i, "Event", BaseEvent(t)', mailbox[t][i].e)
        /\ Says(mailbox[t], i, "Left", BaseLeft(t)', mailbox[t][i].left)
  BY Zenon, <1>1, <1>2, <1>3, MessageKinds DEF ParamsOK
<1>5. t \in trackers' /\ told'[t] = 2
        => Says(mailbox[t], Len(mailbox[t]), "Event", BaseEvent(t)', event)
  BY Zenon, <1>1, <1>2 DEF ParamsOK, SameTorrent, TorrentTyped
<1>6. /\ t \in trackers' /\ ~missed'[t]
           => Says(mailbox[t], Len(mailbox[t]), "Left", BaseLeft(t)', left)
      /\ t \in trackers' /\ told'[t] \in 1..3 => ~missed'[t]
  BY Zenon, <1>1 DEF ParamsOK, SameTorrent
<1> QED
  BY Zenon, <1>4, <1>5, <1>6 DEF ParamsOK, SameTorrent

\* A message m that joins t's mailbox keeps the parameters right: an announcement
\* finds the values it is made with, a parameter message brings the value the torrent
\* has now, and any other leaves what the mailbox says.
AppendsRight(t, m) ==
  phase[t] \in Working =>
    /\ IsEventAnnounce(m) =>
         /\ Says(mailbox[t], Len(mailbox[t]), "Event", BaseEvent(t), m.e)
         /\ Says(mailbox[t], Len(mailbox[t]), "Left", BaseLeft(t), m.left)
    /\ t \in trackers' /\ ~missed'[t] =>
         IF m.k = "Left" THEN m.left = left'
         ELSE Says(mailbox[t], Len(mailbox[t]), "Left", BaseLeft(t), left')
    /\ t \in trackers' /\ told'[t] \in 1..3 => ~missed'[t]
    /\ t \in trackers' /\ told'[t] = 2 =>
         IF m.k = "Event" THEN m.e = event'
         ELSE Says(mailbox[t], Len(mailbox[t]), "Event", BaseEvent(t), event')

\* A step that puts a message in the mailbox. What the message announces has to
\* be on its way already, and so has what it does not bring itself.
LEMMA ParamsAppends ==
  ASSUME ActorTyped, NEW t \in Tracker, ParamsOK(t),
         NEW m \in Messages, mailbox'[t] = Append(mailbox[t], m), phase'[t] = phase[t],
         BaseLeft(t)' = BaseLeft(t), BaseEvent(t)' = BaseEvent(t),
         AppendsRight(t, m)
  PROVE  ParamsOK(t)'
<1> DEFINE s == mailbox[t]
<1>1. s \in Seq(Messages) /\ Len(s) \in Nat
  BY DEF ActorTyped
<1>2. /\ DOMAIN mailbox'[t] = 1..Len(s) + 1 /\ Len(mailbox'[t]) = Len(s) + 1
      /\ DOMAIN s = 1..Len(s)
      /\ mailbox'[t][Len(s) + 1] = m /\ \A i \in 1..Len(s) : mailbox'[t][i] = s[i]
  BY <1>1, AppendFacts
<1> HIDE DEF s
<1> SUFFICES ASSUME phase'[t] \in Working PROVE ParamsOK(t)'
  BY Zenon DEF ParamsOK
<1>3. ASSUME NEW b, NEW v
      PROVE  /\ m.k # "Left" /\ Says(s, Len(s), "Left", b, v)
                  => Says(mailbox'[t], Len(s) + 1, "Left", b, v)
             /\ m.k # "Event" /\ Says(s, Len(s), "Event", b, v)
                  => Says(mailbox'[t], Len(s) + 1, "Event", b, v)
             /\ m.k = "Left" => Says(mailbox'[t], Len(s) + 1, "Left", b, m.left)
             /\ m.k = "Event" => Says(mailbox'[t], Len(s) + 1, "Event", b, m.e)
  BY Zenon, <1>1, SaysAppend DEF s, Value
<1>4. ASSUME NEW i \in 1..Len(s), NEW b, NEW v
      PROVE  /\ Says(s, i, "Left", b, v) => Says(mailbox'[t], i, "Left", b, v)
             /\ Says(s, i, "Event", b, v) => Says(mailbox'[t], i, "Event", b, v)
  <2>1. i \in 0..Len(s) /\ mailbox'[t] = Append(s, m)
    BY <1>1 DEF s
  <2> QED
    BY <1>1, <2>1, SaysAppend, Zenon
<1>5. \A i \in DOMAIN mailbox'[t] : IsEventAnnounce(mailbox'[t][i]) =>
        /\ Says(mailbox'[t], i, "Event", BaseEvent(t), mailbox'[t][i].e)
        /\ Says(mailbox'[t], i, "Left", BaseLeft(t), mailbox'[t][i].left)
  <2> SUFFICES ASSUME NEW i \in DOMAIN mailbox'[t], IsEventAnnounce(mailbox'[t][i])
               PROVE  /\ Says(mailbox'[t], i, "Event", BaseEvent(t), mailbox'[t][i].e)
                      /\ Says(mailbox'[t], i, "Left", BaseLeft(t), mailbox'[t][i].left)
    BY Zenon
  <2>1. CASE i \in 1..Len(s) /\ mailbox'[t][i] = s[i]
    BY Zenon, <1>2, <1>4, <2>1 DEF ParamsOK, s
  <2>2. CASE i = Len(s) + 1 /\ mailbox'[t][i] = m
    BY Zenon, <1>3, <2>2 DEF s, IsEventAnnounce, AppendsRight
  <2> QED
    BY <1>1, <1>2, <2>1, <2>2
<1>6. /\ t \in trackers' /\ ~missed'[t]
           => Says(mailbox'[t], Len(mailbox'[t]), "Left", BaseLeft(t), left')
      /\ t \in trackers' /\ told'[t] \in 1..3 => ~missed'[t]
      /\ t \in trackers' /\ told'[t] = 2
           => Says(mailbox'[t], Len(mailbox'[t]), "Event", BaseEvent(t), event')
  BY Zenon, <1>2, <1>3 DEF s, AppendsRight
<1> QED
  BY Zenon, <1>5, <1>6 DEF ParamsOK

\* An ordinary message: an Announce of nothing in particular, or the stop.
LEMMA ParamsPosts ==
  ASSUME ActorTyped, NEW t \in Tracker, ParamsOK(t), SameTorrent(t),
         NEW m \in Messages, m.k \in {"Announce", "Stop"}, ~IsEventAnnounce(m),
         mailbox'[t] = Append(mailbox[t], m), phase'[t] = phase[t],
         BaseLeft(t)' = BaseLeft(t), BaseEvent(t)' = BaseEvent(t)
  PROVE  ParamsOK(t)'
<1>1. phase[t] \in Working =>
        /\ t \in trackers' /\ ~missed'[t]
             => Says(mailbox[t], Len(mailbox[t]), "Left", BaseLeft(t), left')
        /\ t \in trackers' /\ told'[t] \in 1..3 => ~missed'[t]
        /\ t \in trackers' /\ told'[t] = 2
             => Says(mailbox[t], Len(mailbox[t]), "Event", BaseEvent(t), event')
  BY Zenon DEF ParamsOK, SameTorrent
<1> QED
  BY Zenon, <1>1, ParamsAppends DEF AppendsRight

\* A step that handles the first message of the mailbox.
LEMMA ParamsTakes ==
  ASSUME ActorTyped, TorrentTyped, NEW t \in Tracker, ParamsOK(t), SameTorrent(t),
         phase[t] = "idle", mailbox[t] # <<>>, mailbox'[t] = Tail(mailbox[t]),
         BaseLeft(t)' = IF Head(mailbox[t]).k = "Left" THEN Value(Head(mailbox[t]))
                        ELSE BaseLeft(t),
         BaseEvent(t)' = IF Head(mailbox[t]).k = "Event" THEN Value(Head(mailbox[t]))
                         ELSE BaseEvent(t)
  PROVE  ParamsOK(t)'
<1> DEFINE s == mailbox[t]
<1>1. s \in Seq(Messages) /\ Len(s) \in Nat /\ Head(s) = s[1] /\ Len(s) # 0
  BY DEF ActorTyped
<1>2. /\ DOMAIN mailbox'[t] = 1..(Len(s) - 1) /\ Len(mailbox'[t]) = Len(s) - 1
      /\ DOMAIN s = 1..Len(s)
      /\ \A i \in 1..(Len(s) - 1) : mailbox'[t][i] = s[i + 1]
  BY <1>1, TailFacts
<1> HIDE DEF s
<1>3. \A n \in 1..Len(s) : \A v :
        /\ Says(s, n, "Left", BaseLeft(t), v) => Says(mailbox'[t], n - 1, "Left", BaseLeft(t)', v)
        /\ Says(s, n, "Event", BaseEvent(t), v)
             => Says(mailbox'[t], n - 1, "Event", BaseEvent(t)', v)
  BY Zenon, <1>1, SaysTail DEF s
<1>4. \A i \in DOMAIN mailbox'[t] : IsEventAnnounce(mailbox'[t][i]) =>
        /\ Says(mailbox'[t], i, "Event", BaseEvent(t)', mailbox'[t][i].e)
        /\ Says(mailbox'[t], i, "Left", BaseLeft(t)', mailbox'[t][i].left)
  <2> SUFFICES ASSUME NEW i \in DOMAIN mailbox'[t], IsEventAnnounce(mailbox'[t][i])
               PROVE  /\ Says(mailbox'[t], i, "Event", BaseEvent(t)', mailbox'[t][i].e)
                      /\ Says(mailbox'[t], i, "Left", BaseLeft(t)', mailbox'[t][i].left)
    BY Zenon
  <2>1. i + 1 \in 1..Len(s) /\ (i + 1) - 1 = i /\ mailbox'[t][i] = s[i + 1]
    BY <1>1, <1>2
  <2>2. /\ Says(s, i + 1, "Event", BaseEvent(t), s[i + 1].e)
        /\ Says(s, i + 1, "Left", BaseLeft(t), s[i + 1].left)
    BY Zenon, <1>2, <2>1 DEF ParamsOK, Working, s
  <2> QED
    BY Zenon, <1>3, <2>1, <2>2
<1>5. /\ t \in trackers' /\ ~missed'[t]
           => Says(mailbox'[t], Len(mailbox'[t]), "Left", BaseLeft(t)', left)
      /\ t \in trackers' /\ told'[t] \in 1..3 => ~missed'[t]
      /\ t \in trackers' /\ told'[t] = 2
           => Says(mailbox'[t], Len(mailbox'[t]), "Event", BaseEvent(t)', event)
  <2>1. Len(s) \in 1..Len(s)
    BY <1>1
  <2> QED
    BY Zenon, <1>2, <1>3, <2>1 DEF ParamsOK, Working, SameTorrent, s
<1> QED
  BY Zenon, <1>4, <1>5 DEF ParamsOK, SameTorrent

=============================================================================
