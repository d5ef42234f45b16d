------------------------------ MODULE Trackers ------------------------------
(***************************************************************************)
(* The tracker actors of one torrent (tracker/actor.rs), the UDP and HTTP  *)
(* clients they own (tracker/udp.rs, tracker/http.rs), the UDP server whose *)
(* one socket all UDP clients share, and the torrent actor's broadcasts to  *)
(* them (torrent/swarm.rs).                                                 *)
(*                                                                         *)
(* An actor handles one message at a time; a handler is cut where it        *)
(* awaits.  It waits for the torrent too: for the answer to the question it *)
(* starts with, which the torrent gives between two messages, and for room  *)
(* in the torrent's mailbox when it reports.  Transaction ids are drawn at random from 2^32: a drawn id is    *)
(* modelled as one that no open request and no datagram in flight carries.  *)
(***************************************************************************)
EXTENDS Integers, Sequences, FiniteSets

CONSTANTS
    Udp, Http,        \* the trackers, by protocol
    RetryAttempts,    \* udp_retry_attempts
    ConnIdAttempts,   \* udp_connection_id_retry_attempts, before .max(1)
    RestartLimit,     \* tracker_restart.limit
    MinInterval, MaxInterval, FallbackInterval,  \* *_announce_interval
    Intervals,        \* intervals a tracker may answer
    Unset,            \* the interval that stands for none: u32::MAX, usize::MAX
    LeftValues,       \* bytes left the torrent may report
    MailboxSize,      \* bound on a tracker actor's mailbox
    MaxIds,           \* bound: transaction ids in use at a time
    MaxExpiries,      \* bound: connection ids a tracker expires
    MaxOps,           \* bound: expiries, removals, events, announces and progress
                      \* for each set of trackers
    Configured,       \* the sets of trackers a torrent may be given
    LosesTimer,       \* trackers whose timeouts the scheduler may not take
    Fault             \* which of {"send", "odd"} may happen

ASSUME TrackersAssumption ==
    /\ Udp \cap Http = {}
    /\ {RetryAttempts, ConnIdAttempts, RestartLimit, MaxIds, MaxExpiries} \subseteq Nat
    /\ Intervals \cup {MinInterval, MaxInterval, FallbackInterval, Unset} \subseteq Nat
    /\ \E l \in LeftValues : \A m \in LeftValues : m <= l
    /\ MailboxSize \in Nat \ {0}
    /\ Configured \subseteq SUBSET (Udp \cup Http)

Tracker == Udp \cup Http
Event == {"Empty", "Started", "Completed", "Stopped"}
NotArmed == -1
Lost == -2    \* the scheduler did not take the timeout

MaxLeft == CHOOSE l \in LeftValues : \A m \in LeftValues : m <= l
Larger(a, b) == IF a >= b THEN a ELSE b
Smaller(a, b) == IF a <= b THEN a ELSE b

VARIABLES
    phase,      \* what the actor does: its handler, or that it is gone
    wait,       \* the request in progress, as send_and_wait holds it
    answered,   \* the response channel of that request
    channels,   \* UdpServer.response_channels: open ids and their tracker
    datagrams,  \* requests in flight
    service,    \* the connection id each UDP tracker accepts now
    ready, conn, interval, params,   \* the fields of the client
    attempt,    \* connection-id attempts made by the running announce
    armed,      \* delay of the armed announce timer
    mailbox,    \* of each tracker actor
    restarts,   \* restarts the supervisor has granted
    configured, \* the trackers of the torrent's announce list
    trackers,   \* the torrent actor's map of tracker actors
    left,       \* bytes the torrent still has to download
    initialLeft, missed, \* left when registered; an update did not fit
    event, told,\* the event being broadcast, messages of it told so far
    ops         \* operations counted against MaxOps

clientVars == <<ready, conn, interval, params, attempt>>
wireVars == <<wait, answered, channels, datagrams>>
torrentVars == <<configured, trackers, left, initialLeft, missed, event, told, ops>>
trackersVars == <<phase, clientVars, wireVars, service, armed, mailbox, restarts,
                  torrentVars>>

NoWait == [op |-> "none", id |-> 0, retries |-> 0, open |-> FALSE]
Requests == [op : {"connect", "announce"}, id : 1..MaxIds, to : Udp,
             conn : 0..MaxExpiries + 1]
Responses == [op : {"Connect", "Announce", "Error"}, id : 1..MaxIds,
              conn : 0..MaxExpiries + 1, interval : Intervals \cup {Unset},
              message : {"", "connection id", "other"}]
Messages == [k : {"Announce"}, e : {"timer"}]
            \cup [k : {"Announce"}, e : Event, left : LeftValues]
            \cup [k : {"Event"}, e : Event]
            \cup [k : {"Left"}, left : LeftValues] \cup [k : {"Stop"}, e : {"Stopped"}]

\* The variables have the types of the tracker actors' and clients' fields, and
\* retries and restarts keep their limits (tracker/udp.rs, tracker/actor.rs).
TrackersTypeOK ==
    /\ phase \in [Tracker -> {"absent", "starting", "greeting", "idle", "announcing",
                              "reporting", "stopping", "leaving", "stopped", "dead"}]
    /\ wait \in [Udp -> [op : {"none", "connect", "announce"}, id : 0..MaxIds,
                         retries : 0..RetryAttempts, open : BOOLEAN]]
    /\ \A t \in Udp : \A i \in DOMAIN answered[t] : answered[t][i] \in Responses
    /\ DOMAIN channels \subseteq 1..MaxIds
    /\ \A i \in DOMAIN channels : channels[i] \in Udp
    /\ datagrams \subseteq Requests
    /\ service \in [Udp -> 1..MaxExpiries + 1]
    /\ ready \in [Udp -> BOOLEAN] /\ conn \in [Udp -> 0..MaxExpiries + 1]
    /\ interval \in [Tracker -> Intervals \cup {Unset}]
    /\ params \in [Tracker -> [event : Event, left : LeftValues \cup {0}]]
    /\ attempt \in [Udp -> Nat]
    /\ armed \in [Tracker -> Nat \cup {NotArmed, Lost}]
    /\ \A t \in Tracker : \A i \in DOMAIN mailbox[t] : mailbox[t][i] \in Messages
    /\ trackers \subseteq configured /\ event \in Event
    /\ restarts \in [Tracker -> 0..RestartLimit] /\ told \in [Tracker -> 0..4]
    /\ left \in LeftValues /\ initialLeft \in [Tracker -> LeftValues]
    /\ missed \in [Tracker -> BOOLEAN]

TrackersInit ==
    /\ phase = [t \in Tracker |-> "absent"]
    /\ wait = [t \in Udp |-> NoWait] /\ answered = [t \in Udp |-> <<>>]
    /\ channels = <<>> /\ datagrams = {}
    /\ service = [t \in Udp |-> 1]
    /\ ready = [t \in Udp |-> FALSE] /\ conn = [t \in Udp |-> 0]
    /\ interval = [t \in Tracker |-> Unset]
    /\ params = [t \in Tracker |-> [event |-> "Empty", left |-> 0]]
    /\ attempt = [t \in Udp |-> 0] /\ armed = [t \in Tracker |-> NotArmed]
    /\ mailbox = [t \in Tracker |-> <<>>] /\ restarts = [t \in Tracker |-> 0]
    /\ configured \in Configured /\ trackers = {}
    /\ event = "Empty" /\ told = [t \in Tracker |-> 4]
    /\ ops = 0
    /\ left = MaxLeft /\ initialLeft = [t \in Tracker |-> MaxLeft]
    /\ missed = [t \in Tracker |-> FALSE]

\* Bound: operations left.
CanOperate == ops < MaxOps[configured]

Alive(t) == phase[t] \notin {"absent", "stopped", "dead"}
HasRoom(t) == Len(mailbox[t]) < MailboxSize
Post(t, m) == mailbox' = [mailbox EXCEPT ![t] = Append(@, m)]
Next1(t, k) == phase[t] = "idle" /\ mailbox[t] # <<>> /\ Head(mailbox[t]).k = k
Take(t) == mailbox' = [mailbox EXCEPT ![t] = Tail(@)]

-----------------------------------------------------------------------------
(* One request of a UDP client: send_and_wait and what it calls.            *)

Unregister(open, id) == [i \in DOMAIN open \ {id} |-> open[i]]

\* One try: a fresh response channel under the id, and the datagram.
SendAndRecv(t, op, id, retries) ==
    /\ channels' = [i \in DOMAIN channels \cup {id} |->
                        IF i = id THEN t ELSE channels[i]]
    /\ datagrams' = datagrams \cup
           {[op |-> op, id |-> id, to |-> t,
             conn |-> IF op = "connect" THEN 0 ELSE conn'[t]]}
    /\ answered' = [answered EXCEPT ![t] = <<>>]
    /\ wait' = [wait EXCEPT ![t] = [op |-> op, id |-> id, retries |-> retries,
                                    open |-> TRUE]]

UnusedIds == (1..MaxIds) \ (DOMAIN channels \cup {d.id : d \in datagrams}
                            \cup {wait[t].id : t \in Udp})

\* A new request draws a transaction id: any that is not in use.
SendAndWait(t, op) ==
    /\ UnusedIds # {}
    /\ SendAndRecv(t, op, CHOOSE i \in UnusedIds : TRUE, RetryAttempts)

\* The request is over: the registration is dropped, whatever the reason.
EndRequest(t) ==
    /\ channels' = Unregister(channels, wait[t].id)
    /\ wait' = [wait EXCEPT ![t] = NoWait]
    /\ answered' = [answered EXCEPT ![t] = <<>>]
    /\ UNCHANGED datagrams

-----------------------------------------------------------------------------
(* What the actor does when the client call it awaits has returned.         *)

AnnounceDelay(i) ==
    Smaller(Larger(IF i = Unset THEN FallbackInterval ELSE i, MinInterval),
            Larger(MaxInterval, MinInterval))

\* schedule_next_announce: the old timer is aborted before the new one is asked
\* for, and the scheduler may fail to take it.
ScheduleNextAnnounce(t) ==
    \E d \in {AnnounceDelay(interval'[t])}
            \cup (IF t \in LosesTimer THEN {Lost} ELSE {}) :
        armed' = [armed EXCEPT ![t] = d]

\* on_start goes on after initialize: the parameters are those of a new client
\* but for the progress, and the first announce is due at once.
Started(t) ==
    /\ phase' = [phase EXCEPT ![t] = "idle"]
    /\ params' = [params EXCEPT ![t] = [event |-> "Empty", left |-> initialLeft[t]]]
    /\ armed' = [armed EXCEPT ![t] = 0]
    /\ UNCHANGED restarts

\* An error of on_start: the supervisor restarts the actor up to the limit.
StartFailed(t) ==
    /\ IF restarts[t] < RestartLimit
       THEN /\ restarts' = [restarts EXCEPT ![t] = @ + 1]
            /\ phase' = [phase EXCEPT ![t] = "starting"]
       ELSE /\ phase' = [phase EXCEPT ![t] = "dead"]
            /\ UNCHANGED restarts
    /\ UNCHANGED <<params, armed>>

\* An announce that reschedules only with an interval to go by.
AnnounceDoneUnscheduled(t) ==
    /\ phase' = [phase EXCEPT ![t] = "idle"]
    /\ IF interval'[t] = Unset THEN UNCHANGED armed ELSE ScheduleNextAnnounce(t)
    /\ UNCHANGED <<params, restarts>>

\* The end of the announce handler; success or failure, it reschedules.
AnnounceDone(t) ==
    /\ phase' = [phase EXCEPT ![t] = "idle"]
    /\ ScheduleNextAnnounce(t)
    /\ UNCHANGED <<params, restarts>>

Stopped(t) ==
    /\ phase' = [phase EXCEPT ![t] = "stopped"]
    /\ UNCHANGED <<params, armed, restarts>>

\* The client call returned: the actor reports to the torrent, and goes on once
\* the torrent's mailbox has taken that.
Reports(t, p) == phase' = [phase EXCEPT ![t] = p] /\ UNCHANGED <<params, armed, restarts>>

Returned(t, ok) ==
    \/ phase[t] = "starting" /\ ok /\ Reports(t, "greeting")
    \/ phase[t] = "starting" /\ ~ok /\ StartFailed(t)
    \/ phase[t] = "announcing" /\ Reports(t, "reporting")
    \/ phase[t] = "stopping" /\ Reports(t, "leaving")

\* The awaited tells, Announce and TrackerMetricsChanged, are over, and the rest
\* of the handler runs.
Reported(t) ==
    /\ UNCHANGED <<ready, conn, interval, attempt, wireVars, service, mailbox, torrentVars>>
    /\ \/ phase[t] = "greeting" /\ Started(t)
       \/ phase[t] = "greeting" /\ t \in LosesTimer /\ StartFailed(t)
       \/ phase[t] = "reporting" /\ AnnounceDone(t)
       \/ phase[t] = "leaving" /\ Stopped(t)

TorrentIdle == \A t \in trackers : told[t] = 4

-----------------------------------------------------------------------------
(* The UDP client.                                                          *)

\* The torrent has answered GetInfoHash; new_with_settings, then initialize:
\* connect.  The DNS lookup may fail.
StartUdp(t) ==
    /\ phase[t] = "starting" /\ wait[t] = NoWait /\ TorrentIdle
    /\ ready' = [ready EXCEPT ![t] = FALSE] /\ conn' = [conn EXCEPT ![t] = 0]
    /\ interval' = [interval EXCEPT ![t] = Unset]
    /\ \/ SendAndWait(t, "connect") /\ UNCHANGED <<phase, params, armed, restarts>>
       \/ StartFailed(t) /\ UNCHANGED wireVars
    /\ UNCHANGED <<attempt, service, mailbox, torrentVars>>

\* The announce handler; a client that is not ready refuses at once.
AnnounceUdp(t) ==
    /\ Next1(t, "Announce") /\ Take(t)
    /\ \/ /\ ready[t]
          /\ phase' = [phase EXCEPT ![t] = "announcing"]
          /\ attempt' = [attempt EXCEPT ![t] = 0]
          /\ UNCHANGED <<ready, conn, interval, params, armed, restarts>>
          /\ SendAndWait(t, "announce")
       \/ /\ ~ready[t]
          /\ Reports(t, "reporting")
          /\ UNCHANGED <<ready, conn, interval, attempt, wireVars>>
    /\ UNCHANGED <<service, torrentVars>>

\* connect got its answer: the id is stored and the client is ready.
ConnectAnswered(t, r) ==
    /\ wait[t].op = "connect" /\ r.op = "Connect"
    /\ conn' = [conn EXCEPT ![t] = r.conn]
    /\ ready' = [ready EXCEPT ![t] = TRUE]
    /\ UNCHANGED <<interval>>
    /\ EndRequest(t)
    /\ \/ /\ phase[t] = "starting"
          /\ Returned(t, TRUE) /\ UNCHANGED attempt
       \/ /\ phase[t] # "starting"     \* announce goes round its loop again
          /\ attempt' = [attempt EXCEPT ![t] = @ + 1]
          /\ UNCHANGED <<phase, params, armed, restarts>>

\* The next request of the announce loop: the announce itself, its params read
\* again, or first the reconnect.
AnnounceLoop(t) ==
    /\ phase[t] \in {"announcing", "stopping"} /\ wait[t] = NoWait
    /\ UNCHANGED clientVars
    /\ SendAndWait(t, IF ready[t] THEN "announce" ELSE "connect")
    /\ UNCHANGED <<phase, service, armed, mailbox, restarts, torrentVars>>

\* announce got peers.
AnnounceAnswered(t, r) ==
    /\ wait[t].op = "announce" /\ r.op = "Announce"
    /\ interval' = [interval EXCEPT ![t] = r.interval]
    /\ UNCHANGED <<ready, conn, attempt>>
    /\ EndRequest(t) /\ Returned(t, TRUE)

CanReconnect(t, r) ==
    /\ r.op = "Error" /\ r.message = "connection id"
    /\ attempt[t] + 1 < Larger(ConnIdAttempts, 1)

\* The tracker refuses the connection id: reconnect before another try.
ConnectionRefused(t, r) ==
    /\ wait[t].op = "announce" /\ CanReconnect(t, r)
    /\ ready' = [ready EXCEPT ![t] = FALSE]
    /\ EndRequest(t)
    /\ UNCHANGED <<conn, interval, attempt, params, phase, armed, restarts>>

\* Any other answer ends the call with an error.
AnswerRejected(t, r) ==
    /\ \/ wait[t].op = "connect" /\ r.op # "Connect"
       \/ wait[t].op = "announce" /\ r.op # "Announce" /\ ~CanReconnect(t, r)
    /\ UNCHANGED <<ready, conn, interval, attempt>>
    /\ EndRequest(t) /\ Returned(t, FALSE)

\* recv_registered_response returns: the client looks at the answer.
Answered(t) ==
    /\ wait[t].open /\ answered[t] # <<>>
    /\ LET r == Head(answered[t]) IN
         \/ ConnectAnswered(t, r) \/ AnnounceAnswered(t, r)
         \/ ConnectionRefused(t, r) \/ AnswerRejected(t, r)
    /\ UNCHANGED <<service, mailbox, torrentVars>>

\* A timeout that leaves its channel registered.
MessageTimeoutRegistered(t) ==
    /\ wait[t].open /\ answered[t] = <<>> /\ wait[t].retries > 0
    /\ wait' = [wait EXCEPT ![t].open = FALSE, ![t].retries = @ - 1]
    /\ UNCHANGED <<channels, answered, datagrams, phase, clientVars, armed, restarts,
                   service, mailbox, torrentVars>>

\* A timeout that does not count the attempt.
MessageTimeoutUncounted(t) ==
    /\ wait[t].open /\ answered[t] = <<>>
    /\ channels' = Unregister(channels, wait[t].id)
    /\ wait' = [wait EXCEPT ![t].open = FALSE]
    /\ UNCHANGED <<answered, datagrams, phase, clientVars, armed, restarts,
                   service, mailbox, torrentVars>>

\* udp_message_timeout passes: unregister, then back off or give up.
MessageTimeout(t) ==
    /\ wait[t].open /\ answered[t] = <<>>
    /\ UNCHANGED <<ready, conn, interval, attempt>>
    /\ \/ /\ wait[t].retries > 0
          /\ channels' = Unregister(channels, wait[t].id)
          /\ wait' = [wait EXCEPT ![t] = [op |-> @.op, id |-> @.id,
                                          retries |-> @.retries - 1, open |-> FALSE]]
          /\ UNCHANGED <<answered, datagrams, phase, params, armed, restarts>>
       \/ /\ wait[t].retries = 0
          /\ EndRequest(t) /\ Returned(t, FALSE)
    /\ UNCHANGED <<service, mailbox, torrentVars>>

\* The backoff is over: the same request again, under the same id.
Retry(t) ==
    /\ wait[t].op # "none" /\ ~wait[t].open
    /\ UNCHANGED clientVars
    /\ SendAndRecv(t, wait[t].op, wait[t].id, wait[t].retries)
    /\ UNCHANGED <<phase, service, armed, mailbox, restarts, torrentVars>>

\* udp_connect_timeout passes, or the socket refuses a datagram.
RequestAborted(t) ==
    /\ wait[t].op = "connect" \/ (wait[t].open /\ "send" \in Fault)
    /\ UNCHANGED <<ready, conn, interval, attempt>>
    /\ EndRequest(t) /\ Returned(t, FALSE)
    /\ UNCHANGED <<service, mailbox, torrentVars>>

\* on_stop: the timer first, then a last announce if the client is ready.
StopUdp(t) ==
    /\ Next1(t, "Stop")
    /\ mailbox' = [mailbox EXCEPT ![t] = <<>>]
    /\ armed' = [armed EXCEPT ![t] = NotArmed]
    /\ UNCHANGED <<ready, conn, interval, restarts>>
    /\ \/ /\ ready[t]
          /\ phase' = [phase EXCEPT ![t] = "stopping"]
          /\ params' = [params EXCEPT ![t].event = "Stopped"]
          /\ attempt' = [attempt EXCEPT ![t] = 0]
          /\ SendAndWait(t, "announce")
       \/ /\ ~ready[t]
          /\ phase' = [phase EXCEPT ![t] = "leaving"]
          /\ UNCHANGED <<params, attempt, wireVars>>
    /\ UNCHANGED <<service, torrentVars>>

\* stop_timeout passes: the last announce is dropped.
StopTimeout(t) ==
    /\ t \in Udp /\ phase[t] = "stopping"
    /\ UNCHANGED <<ready, conn, interval, attempt>>
    /\ EndRequest(t) /\ Returned(t, FALSE)
    /\ UNCHANGED <<service, mailbox, torrentVars>>

-----------------------------------------------------------------------------
(* The HTTP client: no connection, one request and one answer.              *)

\* What an HTTP announce can return: peers with or without an interval, or an
\* error (transport, bencode, "failure reason").
HttpReply(t) ==
    \/ \E i \in Intervals \cup {Unset} : interval' = [interval EXCEPT ![t] = i]
    \/ UNCHANGED interval

StartHttp(t) ==
    /\ phase[t] = "starting" /\ TorrentIdle
    /\ interval' = [interval EXCEPT ![t] = Unset]
    /\ UNCHANGED <<ready, conn, attempt>>
    /\ Returned(t, TRUE)
    /\ UNCHANGED <<wireVars, service, mailbox, torrentVars>>

AnnounceHttp(t) ==
    /\ Next1(t, "Announce") /\ Take(t)
    /\ phase' = [phase EXCEPT ![t] = "announcing"]
    /\ UNCHANGED <<ready, conn, interval, params, attempt, wireVars, service, armed,
                   restarts, torrentVars>>

StopHttp(t) ==
    /\ Next1(t, "Stop")
    /\ mailbox' = [mailbox EXCEPT ![t] = <<>>]
    /\ armed' = [armed EXCEPT ![t] = NotArmed]
    /\ phase' = [phase EXCEPT ![t] = "stopping"]
    /\ params' = [params EXCEPT ![t].event = "Stopped"]
    /\ UNCHANGED <<ready, conn, interval, attempt, wireVars, service, restarts,
                   torrentVars>>

HttpReturned(t) ==
    /\ phase[t] \in {"announcing", "stopping"}
    /\ HttpReply(t)
    /\ UNCHANGED <<ready, conn, attempt>>
    /\ Returned(t, TRUE)
    /\ UNCHANGED <<wireVars, service, mailbox, torrentVars>>

-----------------------------------------------------------------------------
(* The shared socket, the trackers' side of it, and the timer.              *)

\* What the tracker behind the socket may answer (its code is not here).
TrackerAnswer(q, op, i, message) ==
    [op |-> op, id |-> q.id, conn |-> service[q.to], interval |-> i, message |-> message]
Answers(q) ==
    (IF q.op = "connect" THEN {TrackerAnswer(q, "Connect", Unset, "")}
     ELSE IF q.conn = service[q.to]
          THEN {TrackerAnswer(q, "Announce", i, "") : i \in Intervals}
          ELSE {TrackerAnswer(q, "Error", Unset, "connection id")})
    \cup (IF "odd" \in Fault
          THEN {TrackerAnswer(q, "Connect", Unset, ""), TrackerAnswer(q, "Announce", Unset, ""),
                TrackerAnswer(q, "Error", Unset, "other")}
          ELSE {})

\* A request is answered and the receiver task gets the answer: it goes to the
\* channel open under its id, if there is one.
ReceiveDatagram(q) ==
    /\ datagrams' = datagrams \ {q}
    /\ \E r \in Answers(q) :
         IF r.id \in DOMAIN channels
         THEN answered' = [answered EXCEPT ![channels[r.id]] = Append(@, r)]
         ELSE UNCHANGED answered
    /\ UNCHANGED <<phase, clientVars, wait, channels, service, armed, mailbox,
                   restarts, torrentVars>>

\* A datagram is lost, or cannot be parsed.
LoseDatagram(q) ==
    /\ datagrams' = datagrams \ {q}
    /\ UNCHANGED <<phase, clientVars, wait, answered, channels, service, armed, mailbox,
                   restarts, torrentVars>>

\* The tracker forgets a connection id.
Expire(t) ==
    /\ service[t] <= MaxExpiries /\ CanOperate
    /\ service' = [service EXCEPT ![t] = @ + 1] /\ ops' = ops + 1
    /\ UNCHANGED <<phase, clientVars, wireVars, armed, mailbox, restarts, configured,
                   trackers, left, initialLeft, missed, event, told>>

\* The scheduler tells the actor Announce.
TimerFires(t) ==
    /\ armed[t] >= 0 /\ HasRoom(t)
    /\ armed' = [armed EXCEPT ![t] = NotArmed]
    /\ Post(t, [k |-> "Announce", e |-> "timer"])
    /\ UNCHANGED <<phase, clientVars, wireVars, service, restarts, torrentVars>>

\* Message<TrackerUpdate>: one announce parameter is replaced.
Update(t) ==
    /\ Next1(t, "Event") \/ Next1(t, "Left")
    /\ Take(t)
    /\ LET m == Head(mailbox[t]) IN
         params' = [params EXCEPT ![t] =
             CASE m.k = "Event" -> [@ EXCEPT !.event = m.e]
               [] m.k = "Left" -> [@ EXCEPT !.left = m.left]]
    /\ UNCHANGED <<phase, ready, conn, interval, attempt, wireVars, service,
                   armed, restarts, torrentVars>>

-----------------------------------------------------------------------------
(* The torrent actor.  It sends one message to every tracker before it      *)
(* starts on the next, and handles nothing else meanwhile.                  *)

actorVars == <<phase, clientVars, wireVars, service, armed, restarts, configured>>

\* register_tracker_actor; the actor starts with the progress of this moment.
\* A removed tracker is added again only once its old actor is gone.
Register(t) ==
    /\ TorrentIdle /\ t \in configured \ trackers /\ ~Alive(t)
    /\ trackers' = trackers \cup {t}
    /\ initialLeft' = [initialLeft EXCEPT ![t] = left]
    /\ phase' = [phase EXCEPT ![t] = "starting"]
    /\ restarts' = [restarts EXCEPT ![t] = 0]
    /\ mailbox' = [mailbox EXCEPT ![t] = <<>>]
    /\ missed' = [missed EXCEPT ![t] = FALSE]
    /\ UNCHANGED <<clientVars, wireVars, service, armed, configured,
                   left, event, told, ops>>

\* remove_tracker: out of the map, then stop_gracefully if it is alive.
RemoveTracker(t) ==
    /\ TorrentIdle /\ t \in trackers
    /\ trackers' = trackers \ {t}
    /\ IF Alive(t)
       THEN /\ HasRoom(t)
            /\ \/ CanOperate /\ ops' = ops + 1
               \/ armed[t] = Lost /\ UNCHANGED ops
            /\ Post(t, [k |-> "Stop", e |-> "Stopped"])
       ELSE UNCHANGED <<mailbox, ops>>
    /\ UNCHANGED <<actorVars, left, initialLeft, missed, event, told>>

\* An event reset before it is announced.
EventMessagesReset(e) == <<[k |-> "Left", left |-> left], [k |-> "Event", e |-> e],
                           [k |-> "Event", e |-> "Empty"],
                           [k |-> "Announce", e |-> e, left |-> left]>>

\* update_tracker_progress and announce_tracker_event, as start, stop_transfer
\* and piece_completed call them: the progress, the event, an Announce, then
\* the event Empty.
EventMessages(e) == <<[k |-> "Left", left |-> left], [k |-> "Event", e |-> e],
                      [k |-> "Announce", e |-> e, left |-> left],
                      [k |-> "Event", e |-> "Empty"]>>

BeginEvent(e) ==
    /\ TorrentIdle /\ CanOperate
    /\ ops' = ops + 1
    /\ event' = e
    /\ told' = [t \in Tracker |-> IF t \in trackers THEN 0 ELSE 4]
    /\ UNCHANGED <<actorVars, mailbox, trackers, left, initialLeft, missed>>

\* One awaited tell of a broadcast; the last of a round prunes dead trackers.
TellTracker(t) ==
    /\ t \in trackers /\ told[t] < 4
    /\ \A u \in trackers : told[u] >= told[t]
    /\ IF Alive(t) THEN HasRoom(t) /\ Post(t, EventMessages(event)[told[t] + 1])
       ELSE UNCHANGED mailbox
    /\ trackers' = IF \A u \in trackers \ {t} : told[u] > told[t]
                   THEN {u \in trackers : Alive(u)} ELSE trackers
    /\ told' = [u \in Tracker |-> IF u \notin trackers' THEN 4
                                  ELSE told[u] + (IF u = t THEN 1 ELSE 0)]
    /\ missed' = [missed EXCEPT ![t] = @ /\ told[t] > 0]
    /\ UNCHANGED <<actorVars, left, initialLeft, event, ops>>

\* try_update_tracker_progress: never waits, drops what does not fit.
Progress(l) ==
    /\ TorrentIdle /\ l < left /\ CanOperate
    /\ left' = l /\ ops' = ops + 1
    /\ mailbox' = [t \in Tracker |->
           IF t \in trackers /\ Alive(t) /\ HasRoom(t)
           THEN Append(mailbox[t], [k |-> "Left", left |-> l]) ELSE mailbox[t]]
    /\ missed' = [t \in Tracker |-> IF t \in trackers /\ Alive(t) THEN ~HasRoom(t)
                                    ELSE missed[t]]
    /\ trackers' = {t \in trackers : Alive(t)}
    /\ UNCHANGED <<actorVars, initialLeft, event, told>>

\* reannounce_tracker: an Announce out of turn.
Reannounce(t) ==
    /\ TorrentIdle /\ t \in trackers /\ Alive(t) /\ HasRoom(t) /\ CanOperate
    /\ ops' = ops + 1
    /\ Post(t, [k |-> "Announce", e |-> "timer"])
    /\ UNCHANGED <<actorVars, trackers, left, initialLeft, missed, event, told>>

-----------------------------------------------------------------------------
UdpStep(t) == \/ StartUdp(t) \/ AnnounceUdp(t) \/ AnnounceLoop(t) \/ Answered(t)
              \/ MessageTimeout(t) \/ Retry(t) \/ RequestAborted(t) \/ StopUdp(t)
              \/ StopTimeout(t)
HttpStep(t) == \/ StartHttp(t) \/ AnnounceHttp(t) \/ HttpReturned(t) \/ StopHttp(t)
ActorStep(t) == \/ t \in Udp /\ UdpStep(t)
                \/ t \in Http /\ HttpStep(t)
                \/ Update(t) \/ Reported(t)

TorrentStep == \/ \E t \in Tracker : Register(t) \/ RemoveTracker(t) \/ TellTracker(t)
                                     \/ Reannounce(t)
               \/ \E e \in {"Started", "Completed", "Stopped"} : BeginEvent(e)
               \/ \E l \in LeftValues : Progress(l)

\* The torrent waits for room in the mailbox of a tracker that waits for its
\* answer: neither goes on.
WaitForEachOther(t) ==
    /\ phase[t] = "starting" /\ (t \in Udp => wait[t] = NoWait)
    /\ told[t] < 4 /\ ~HasRoom(t)

TrackersNext ==
    \/ \E t \in Tracker : ActorStep(t) \/ TimerFires(t)
    \/ \E q \in datagrams : LoseDatagram(q)
    \/ \E q \in datagrams : ReceiveDatagram(q)
    \/ \E t \in Udp : Expire(t)
    \/ TorrentStep
    \/ \E t \in trackers : WaitForEachOther(t) /\ UNCHANGED trackersVars

TrackersSpec == TrackersInit /\ [][TrackersNext]_trackersVars

-----------------------------------------------------------------------------
(* Safety.                                                                  *)

\* The shared server holds a channel for exactly the requests that wait for
\* an answer now: a timeout, an error, a connect or stop timeout that drops the
\* future, and an answer all unregister; nothing leaks and nobody is forgotten.
RegistryExact ==
    /\ DOMAIN channels = {wait[t].id : t \in {u \in Udp : wait[u].open}}
    /\ \A t \in Udp : wait[t].open => channels[wait[t].id] = t

\* An answer a client is about to look at answers the request it has open, not
\* an earlier one whose answer came late.
AnswersMatch ==
    \A t \in Udp : \A i \in DOMAIN answered[t] :
        wait[t].open /\ answered[t][i].id = wait[t].id

InMailbox(t, ks) == \E i \in DOMAIN mailbox[t] : mailbox[t][i].k \in ks

\* A tracker actor that waits for messages has its next announce in sight: a
\* timer, or an Announce or the stop in its mailbox.  Whatever way an announce
\* ends (not ready, refused, timed out, no interval), the chain goes on, unless
\* the scheduler itself refused the timer.
AnnounceDue ==
    \A t \in Tracker : phase[t] = "idle" =>
        armed[t] # NotArmed \/ InMailbox(t, {"Announce", "Stop"})

\* The delay asked for is never under the minimum nor over the maximum, for
\* any interval a tracker answers; only the first announce is due at once.
DelayInBounds ==
    \A t \in Tracker : armed[t] > 0 =>
        armed[t] \in MinInterval..Larger(MaxInterval, MinInterval)

\* A stopped or failed actor leaves nothing behind: no timer that would tell
\* it to announce, no request open on the shared socket.
StoppedIsQuiet ==
    \A t \in Tracker : ~Alive(t) =>
        armed[t] = NotArmed /\ (t \in Udp => wait[t] = NoWait)

\* Once its mailbox is empty a tracker reports the torrent's progress: the
\* progress of its registration or the last update, unless that one did not
\* fit in the mailbox (updates of progress are best-effort).
LeftReported ==
    \A t \in trackers :
        phase[t] = "idle" /\ mailbox[t] = <<>> /\ ~missed[t] => params[t].left = left

-----------------------------------------------------------------------------
(* What a step may never do.                                                *)

\* The Announce that belongs to an event goes out with that event and with the
\* progress of its moment: no other update comes between the messages of a
\* start, a stop or a completion, also when an earlier update of the progress
\* did not fit (torrent/actor.rs, update_tracker_progress).
EventIsAnnounced ==
    [][\A t \in Tracker :
          /\ phase[t] = "idle" /\ mailbox[t] # <<>> /\ mailbox'[t] = Tail(mailbox[t])
          /\ Head(mailbox[t]).k = "Announce" /\ Head(mailbox[t]).e # "timer"
          => /\ params[t].event = Head(mailbox[t]).e
             /\ params[t].left = Head(mailbox[t]).left]_trackersVars

-----------------------------------------------------------------------------
(* Liveness.  Every timeout passes, every handler goes on; a datagram is    *)
(* delivered or lost.  An HTTP announce has no timeout and may never return *)
(* (stop_timeout bounds the last one).  Nothing is assumed of the torrent,  *)
(* but that it answers and takes reports whenever it is idle.               *)

OwnStep(t) == \/ t \in Udp /\ UdpStep(t)
              \/ t \in Http /\ (AnnounceHttp(t) \/ StopHttp(t)
                               \/ (phase[t] = "stopping" /\ HttpReturned(t)))
              \/ Update(t)
TorrentServes(t) ==
    TorrentIdle /\ (Reported(t) \/ (t \in Udp /\ StartUdp(t)) \/ (t \in Http /\ StartHttp(t)))

TrackersFairness ==
    /\ \A t \in Tracker : WF_trackersVars(OwnStep(t)) /\ SF_trackersVars(TorrentServes(t))
    /\ WF_trackersVars(\E q \in datagrams : ReceiveDatagram(q) \/ LoseDatagram(q))

\* While the torrent keeps coming back to its mailbox, no handler waits for
\* ever: retries, reconnects and restarts run out (tracker/udp.rs,
\* send_and_recv_retry and announce; tracker/actor.rs, on_stop).  The exception
\* is the announce of an HTTP client, which no timeout bounds (tracker/http.rs,
\* announce).
HandlersEnd ==
    []<>TorrentIdle =>
        \A t \in Tracker :
            \/ phase[t] \in {"starting", "greeting", "reporting", "stopping", "leaving"}
            \/ phase[t] = "announcing" /\ t \in Udp
            ~> phase[t] \in {"idle", "stopped", "dead"}

\* The requests open on the shared socket are those that clients wait for, and
\* each is answered by its own answer (tracker/udp.rs, TransactionRegistration).
TransactionsSound == TrackersTypeOK /\ RegistryExact /\ AnswersMatch

\* A tracker that waits has its next announce ahead of it, in time and with the
\* torrent's progress, and one that ended has none (tracker/actor.rs).
AnnouncesSound == AnnounceDue /\ DelayInBounds /\ StoppedIsQuiet /\ LeftReported
=============================================================================
