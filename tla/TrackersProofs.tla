--------------------------- MODULE TrackersProofs ---------------------------
(***************************************************************************)
(* Proofs about the tracker actors, for any number of UDP and HTTP         *)
(* trackers, any limits on retries and restarts, any intervals and any     *)
(* bounds: the shared socket's registry is exact, every idle tracker has   *)
(* its next announce ahead, and events go out with their own parameters.   *)
(***************************************************************************)
EXTENDS TrackersLemmas

-----------------------------------------------------------------------------
(* What a step of one actor does to the actors *)

OthersSame(t) ==
  \A u \in Tracker \ {t} :
    /\ phase'[u] = phase[u] /\ armed'[u] = armed[u] /\ mailbox'[u] = mailbox[u]
    /\ params'[u] = params[u] /\ initialLeft'[u] = initialLeft[u] /\ SameTorrent(u)

\* A step about one tracker has to be looked at for that one only.
LEMMA OneTracker ==
  ASSUME ActorsInv, ActorTyped', TorrentTyped', NEW t \in Tracker, OthersSame(t),
         TimerOK(t)', ParamsOK(t)'
  PROVE  ActorsInv'
<1>1. ASSUME NEW u \in Tracker, u # t
      PROVE  TimerOK(u)' /\ ParamsOK(u)'
  <2>1. /\ phase'[u] = phase[u] /\ armed'[u] = armed[u] /\ mailbox'[u] = mailbox[u]
        /\ params'[u] = params[u] /\ initialLeft'[u] = initialLeft[u] /\ SameTorrent(u)
    BY Zenon, <1>1 DEF OthersSame
  <2>2. TimerOK(u) /\ ParamsOK(u) /\ ActorTyped /\ TorrentTyped
    BY Zenon DEF ActorsInv
  <2>3. TimerOK(u)'
    BY Zenon, <2>1, <2>2 DEF TimerOK, InMailbox
  <2>4. BaseLeft(u)' = BaseLeft(u) /\ BaseEvent(u)' = BaseEvent(u)
    BY Zenon, <2>1 DEF BaseLeft, BaseEvent
  <2>5. ParamsOK(u)'
    BY Zenon, <2>1, <2>2, <2>4, ParamsKeeps
  <2> QED
    BY Zenon, <2>3, <2>5
<1> QED
  BY Zenon, <1>1 DEF ActorsInv

\* A step that leaves the torrent alone leaves its types alone.
LEMMA TorrentSame ==
  ASSUME UNCHANGED torrentVars
  PROVE  /\ TorrentTyped => TorrentTyped'
         /\ initialLeft' = initialLeft /\ \A u \in Tracker : SameTorrent(u)
BY Zenon DEF torrentVars, TorrentTyped, SameTorrent

\* A step that leaves the actors alone, and at most removes trackers.
LEMMA ActorsKeep ==
  ASSUME ActorsInv, UNCHANGED <<phase, armed, params, mailbox, restarts, initialLeft>>,
         interval' \in [Tracker -> Intervals \cup {Unset}],
         TorrentTyped', \A u \in Tracker : SameTorrent(u)
  PROVE  ActorsInv'
<1>1. ActorTyped'
  BY Zenon DEF ActorsInv, ActorTyped
<1>2. ASSUME NEW u \in Tracker
      PROVE  TimerOK(u)' /\ ParamsOK(u)'
  <2>1. TimerOK(u) /\ ParamsOK(u) /\ ActorTyped /\ TorrentTyped
    BY Zenon DEF ActorsInv
  <2>2. TimerOK(u)'
    BY Zenon, <2>1 DEF TimerOK, InMailbox
  <2>3. BaseLeft(u)' = BaseLeft(u) /\ BaseEvent(u)' = BaseEvent(u)
    BY Zenon DEF BaseLeft, BaseEvent
  <2> QED
    BY Zenon, <2>1, <2>2, <2>3, ParamsKeeps
<1> QED
  BY Zenon, <1>1, <1>2 DEF ActorsInv

\* A step that leaves the actors and the torrent alone.
LEMMA ActorsSame ==
  ASSUME ActorsInv, UNCHANGED <<phase, armed, params, mailbox, restarts, torrentVars>>,
         interval' \in [Tracker -> Intervals \cup {Unset}]
  PROVE  ActorsInv'
BY Zenon, ActorsKeep, TorrentSame DEF ActorsInv

\* A timer is asked for with a delay within bounds, or not taken.
LEMMA Scheduled ==
  ASSUME NEW t \in Tracker, armed \in [Tracker -> Nat \cup {NotArmed, Lost}],
         interval' \in [Tracker -> Intervals \cup {Unset}], ScheduleNextAnnounce(t)
  PROVE  /\ armed' \in [Tracker -> Nat \cup {NotArmed, Lost}] /\ armed'[t] # NotArmed
         /\ armed'[t] > 0 => armed'[t] \in MinInterval..Larger(MaxInterval, MinInterval)
         /\ \A u \in Tracker \ {t} : armed'[u] = armed[u]
<1> DEFINE delay == AnnounceDelay(interval'[t])
<1>1. delay \in Nat /\ delay \in MinInterval..Larger(MaxInterval, MinInterval)
  BY Zenon, DelayBounded
<1>2. PICK d \in {delay, Lost} : armed' = [armed EXCEPT ![t] = d]
  BY Zenon DEF ScheduleNextAnnounce
<1> HIDE DEF delay
<1>3. /\ d \in Nat \cup {NotArmed, Lost} /\ d # NotArmed
      /\ d > 0 => d \in MinInterval..Larger(MaxInterval, MinInterval)
  BY <1>1 DEF Lost, NotArmed
<1> QED
  BY Zenon, <1>2, <1>3

\* An error of on_start: the actor starts again, or is dead.
LEMMA ActorsStartFailed ==
  ASSUME ActorsInv, NEW t \in Tracker, phase[t] \in Beginning, StartFailed(t),
         UNCHANGED <<mailbox, torrentVars>>,
         interval' \in [Tracker -> Intervals \cup {Unset}]
  PROVE  ActorsInv' /\ \A u \in Tracker \ {t} : phase'[u] = phase[u]
<1>0. /\ ActorTyped /\ TorrentTyped /\ TimerOK(t) /\ ParamsOK(t)
      /\ TorrentTyped' /\ SameTorrent(t)
  BY Zenon, TorrentSame DEF ActorsInv
<1>1. /\ UNCHANGED <<params, armed>> /\ restarts' \in [Tracker -> 0..RestartLimit]
      /\ \/ phase' = [phase EXCEPT ![t] = "starting"]
         \/ phase' = [phase EXCEPT ![t] = "dead"]
  <2>1. RestartLimit \in Nat /\ restarts[t] \in 0..RestartLimit
    BY Zenon, <1>0, TrackersAssumption DEF ActorTyped
  <2>2. CASE restarts[t] < RestartLimit
    <3>1. /\ restarts' = [restarts EXCEPT ![t] = restarts[t] + 1]
          /\ phase' = [phase EXCEPT ![t] = "starting"] /\ UNCHANGED <<params, armed>>
      BY Zenon, <2>2 DEF StartFailed
    <3>2. restarts[t] + 1 \in 0..RestartLimit
      BY <2>1, <2>2
    <3> QED
      BY Zenon, <1>0, <3>1, <3>2 DEF ActorTyped
  <2>3. CASE ~(restarts[t] < RestartLimit)
    BY Zenon, <1>0, <2>3 DEF StartFailed, ActorTyped
  <2> QED
    BY Zenon, <2>2, <2>3
<1>2. ActorTyped' /\ OthersSame(t) /\ phase'[t] \in {"starting", "dead"}
  BY Zenon, <1>0, <1>1, TorrentSame DEF ActorTyped, Phases, OthersSame
<1>3. TimerOK(t)'
  BY Zenon, <1>0, <1>1, <1>2 DEF TimerOK, InMailbox, Beginning
<1>4. phase'[t] \in Working => BaseLeft(t)' = BaseLeft(t) /\ BaseEvent(t)' = BaseEvent(t)
  BY Zenon, <1>2, TorrentSame DEF BaseLeft, BaseEvent, Working, Beginning
<1>5. ParamsOK(t)'
  BY Zenon, <1>0, <1>4, ParamsKeeps DEF Working, Beginning
<1> QED
  BY Zenon, <1>0, <1>2, <1>3, <1>5, OneTracker DEF OthersSame

\* The actor has something to tell the torrent before it goes on.
LEMMA ActorsReport ==
  ASSUME ActorsInv, NEW t \in Tracker, NEW p, Reports(t, p),
         \/ phase[t] = "starting" /\ p = "greeting"
         \/ phase[t] = "announcing" /\ p = "reporting"
         \/ phase[t] = "stopping" /\ p = "leaving",
         UNCHANGED <<mailbox, torrentVars>>,
         interval' \in [Tracker -> Intervals \cup {Unset}]
  PROVE  ActorsInv' /\ \A u \in Tracker \ {t} : phase'[u] = phase[u]
<1>0. /\ ActorTyped /\ TorrentTyped /\ TimerOK(t) /\ ParamsOK(t)
      /\ TorrentTyped' /\ SameTorrent(t)
  BY Zenon, TorrentSame DEF ActorsInv
<1>1. phase' = [phase EXCEPT ![t] = p] /\ UNCHANGED <<params, armed, restarts>>
  BY Zenon DEF Reports
<1>2. ActorTyped' /\ OthersSame(t) /\ phase'[t] = p
  BY Zenon, <1>0, <1>1, TorrentSame DEF ActorTyped, Phases, OthersSame
<1>3. TimerOK(t)'
  BY Zenon, <1>0, <1>1, <1>2 DEF TimerOK
<1>4. phase'[t] \in Working => /\ phase[t] \in Working /\ BaseLeft(t)' = BaseLeft(t)
                               /\ BaseEvent(t)' = BaseEvent(t)
  BY Zenon, <1>1, <1>2, TorrentSame DEF BaseLeft, BaseEvent, Working, Beginning
<1>5. ParamsOK(t)'
  BY Zenon, <1>0, <1>4, ParamsKeeps
<1> QED
  BY Zenon, <1>0, <1>2, <1>3, <1>5, OneTracker DEF OthersSame

\* A client call has returned: on_start, announce or on_stop goes on.
LEMMA ActorsReturned ==
  ASSUME ActorsInv, NEW t \in Tracker, NEW ok \in BOOLEAN, Returned(t, ok),
         UNCHANGED <<mailbox, torrentVars>>,
         interval' \in [Tracker -> Intervals \cup {Unset}]
  PROVE  ActorsInv' /\ \A u \in Tracker \ {t} : phase'[u] = phase[u]
BY Zenon, ActorsStartFailed, ActorsReport DEF Returned, Beginning

\* The torrent has taken the report, and the rest of the handler runs.
LEMMA ActorsReported ==
  ASSUME ActorsInv, NEW t \in Tracker, Reported(t)
  PROVE  ActorsInv' /\ \A u \in Tracker \ {t} : phase'[u] = phase[u]
<1>0. /\ ActorTyped /\ TorrentTyped /\ TimerOK(t) /\ ParamsOK(t)
      /\ UNCHANGED <<mailbox, interval, torrentVars>> /\ TorrentTyped' /\ SameTorrent(t)
      /\ interval' \in [Tracker -> Intervals \cup {Unset}]
  BY Zenon, TorrentSame DEF ActorsInv, ActorTyped, Reported
<1>1. CASE phase[t] = "greeting" /\ Started(t)
  <2>1. /\ phase' = [phase EXCEPT ![t] = "idle"] /\ armed' = [armed EXCEPT ![t] = 0]
        /\ params' = [params EXCEPT ![t] = [event |-> "Empty", left |-> initialLeft[t]]]
        /\ restarts' = restarts
    BY Zenon, <1>1 DEF Started
  <2>2. [event |-> "Empty", left |-> initialLeft[t]] \in [event : Event, left : LeftValues \cup {0}]
    BY Zenon, <1>0 DEF TorrentTyped, Event
  <2>3. ActorTyped'
    BY Zenon, <1>0, <2>1, <2>2 DEF ActorTyped, Phases
  <2>4. /\ phase'[t] = "idle" /\ armed'[t] = 0 /\ params'[t].left = initialLeft[t]
        /\ OthersSame(t)
    BY Zenon, <1>0, <2>1, TorrentSame DEF ActorTyped, OthersSame
  <2>5. TimerOK(t)'
    BY <2>4 DEF TimerOK, NotArmed
  <2>6. BaseLeft(t)' = BaseLeft(t) /\ BaseEvent(t) = "none"
    BY Zenon, <1>0, <1>1, <2>4, TorrentSame DEF BaseLeft, BaseEvent, Beginning
  <2>7. ParamsOK(t)'
    BY Zenon, <1>0, <1>1, <2>6, ParamsKeeps DEF Working
  <2> QED
    BY Zenon, <1>0, <2>3, <2>4, <2>5, <2>7, OneTracker DEF OthersSame
<1>2. CASE phase[t] = "greeting" /\ StartFailed(t)
  BY Zenon, <1>0, <1>2, ActorsStartFailed DEF Beginning
<1>3. CASE phase[t] = "reporting" /\ AnnounceDone(t)
  <2>1. /\ phase' = [phase EXCEPT ![t] = "idle"] /\ ScheduleNextAnnounce(t)
        /\ UNCHANGED <<params, restarts>>
    BY Zenon, <1>3 DEF AnnounceDone
  <2>2. /\ armed' \in [Tracker -> Nat \cup {NotArmed, Lost}] /\ armed'[t] # NotArmed
        /\ armed'[t] > 0 => armed'[t] \in MinInterval..Larger(MaxInterval, MinInterval)
        /\ \A u \in Tracker \ {t} : armed'[u] = armed[u]
    BY Zenon, <1>0, <2>1, Scheduled DEF ActorTyped
  <2>3. ActorTyped' /\ OthersSame(t) /\ phase'[t] = "idle"
    BY Zenon, <1>0, <2>1, <2>2, TorrentSame DEF ActorTyped, Phases, OthersSame
  <2>4. TimerOK(t)'
    BY Zenon, <2>2, <2>3 DEF TimerOK
  <2>5. BaseLeft(t)' = BaseLeft(t) /\ BaseEvent(t)' = BaseEvent(t)
    BY Zenon, <1>3, <2>1, <2>3 DEF BaseLeft, BaseEvent, Beginning
  <2>6. ParamsOK(t)'
    BY Zenon, <1>0, <1>3, <2>5, ParamsKeeps DEF Working
  <2> QED
    BY Zenon, <1>0, <2>3, <2>4, <2>6, OneTracker DEF OthersSame
<1>4. CASE phase[t] = "leaving" /\ Stopped(t)
  <2>1. /\ phase' = [phase EXCEPT ![t] = "stopped"] /\ UNCHANGED <<params, armed, restarts>>
    BY Zenon, <1>4 DEF Stopped
  <2>2. ActorTyped' /\ OthersSame(t) /\ phase'[t] = "stopped"
    BY Zenon, <1>0, <2>1, TorrentSame DEF ActorTyped, Phases, OthersSame
  <2>3. TimerOK(t)'
    BY Zenon, <1>0, <1>4, <2>1, <2>2 DEF TimerOK
  <2>4. ParamsOK(t)'
    BY Zenon, <2>2 DEF ParamsOK, Working
  <2> QED
    BY Zenon, <1>0, <2>2, <2>3, <2>4, OneTracker DEF OthersSame
<1> QED
  BY Zenon, <1>1, <1>2, <1>3, <1>4 DEF Reported


-----------------------------------------------------------------------------
(* The steps of the UDP client *)

\* A step of one UDP client disturbs nobody else's rest.
LEMMA RestKeeps ==
  ASSUME AtRest, NEW t \in Udp, \A u \in Udp \ {t} : wait'[u] = wait[u],
         \A u \in Tracker \ {t} : phase'[u] = phase[u],
         phase'[t] \in Resting => wait'[t] = NoWait
  PROVE  AtRest'
BY Zenon DEF AtRest, Tracker

\* The client's request is over and its caller goes on.
LEMMA UdpReturns ==
  ASSUME TrackersInv, NEW t \in Udp, NEW ok \in BOOLEAN, EndRequest(t), Returned(t, ok),
         UNCHANGED <<mailbox, torrentVars>>, ClientTyped',
         interval' \in [Tracker -> Intervals \cup {Unset}]
  PROVE  TrackersInv'
<1>1. WireInv' /\ wait'[t] = NoWait /\ \A u \in Udp \ {t} : wait'[u] = wait[u]
  BY Zenon, WireEnds DEF TrackersInv
<1>2. ActorsInv' /\ \A u \in Tracker \ {t} : phase'[u] = phase[u]
  BY Zenon, ActorsReturned DEF TrackersInv, Tracker
<1>3. AtRest'
  BY Zenon, <1>1, <1>2, RestKeeps DEF TrackersInv
<1> QED
  BY Zenon, <1>1, <1>2, <1>3 DEF TrackersInv

\* on_start of a UDP tracker.
LEMMA InvStartUdp ==
  ASSUME TrackersInv, NEW t \in Udp, StartUdp(t)
  PROVE  TrackersInv'
<1>0. /\ WireInv /\ ClientTyped /\ AtRest /\ ActorsInv /\ t \in Tracker
      /\ ActorTyped /\ TorrentTyped /\ 0 \in 0..MaxExpiries + 1
  BY TrackersAssumption DEF TrackersInv, ActorsInv, Tracker
<1>1. /\ phase[t] = "starting" /\ wait[t] = NoWait
      /\ ready' = [ready EXCEPT ![t] = FALSE] /\ conn' = [conn EXCEPT ![t] = 0]
      /\ interval' = [interval EXCEPT ![t] = Unset]
      /\ UNCHANGED <<attempt, service, mailbox, torrentVars>>
  BY Zenon DEF StartUdp
<1>2. /\ ClientTyped' /\ interval' \in [Tracker -> Intervals \cup {Unset}]
  BY Zenon, <1>0, <1>1 DEF ClientTyped, ActorTyped
<1>3. CASE SendAndWait(t, "connect") /\ UNCHANGED <<phase, params, armed, restarts>>
  <2>1. WireInv' /\ \A u \in Udp \ {t} : wait'[u] = wait[u]
    BY Zenon, <1>0, <1>1, <1>2, <1>3, WireAsks DEF ClientTyped
  <2>2. ActorsInv'
    BY Zenon, <1>0, <1>1, <1>2, <1>3, ActorsSame
  <2>3. AtRest'
    BY Zenon, <1>0, <1>1, <1>3, <2>1, RestKeeps DEF Resting
  <2> QED
    BY Zenon, <1>2, <2>1, <2>2, <2>3 DEF TrackersInv
<1>4. CASE StartFailed(t) /\ UNCHANGED wireVars
  <2>1. WireInv'
    BY Zenon, <1>0, <1>4, WireKeeps DEF wireVars
  <2>2. Returned(t, FALSE)
    BY Zenon, <1>1, <1>4 DEF Returned
  <2>3. ActorsInv' /\ \A u \in Tracker \ {t} : phase'[u] = phase[u]
    BY Zenon, <1>0, <1>1, <1>2, <2>2, ActorsReturned
  <2>4. AtRest'
    BY Zenon, <1>0, <1>1, <1>4, <2>3, RestKeeps DEF wireVars
  <2> QED
    BY Zenon, <1>2, <2>1, <2>3, <2>4 DEF TrackersInv
<1> QED
  BY Zenon, <1>3, <1>4 DEF StartUdp

\* The announce handler: the timer that fired, or an order of the torrent.
LEMMA ActorsAnnounce ==
  ASSUME ActorsInv, NEW t \in Tracker, Next1(t, "Announce"), Take(t),
         UNCHANGED <<interval, params, restarts, torrentVars>>,
         NEW p \in {"announcing", "reporting"}, phase' = [phase EXCEPT ![t] = p],
         armed' = armed
  PROVE  ActorsInv' /\ \A u \in Tracker \ {t} : phase'[u] = phase[u]
<1>0. /\ ActorTyped /\ TorrentTyped /\ TimerOK(t) /\ ParamsOK(t)
      /\ TorrentTyped' /\ SameTorrent(t)
  BY Zenon, TorrentSame DEF ActorsInv
<1>1. /\ phase[t] = "idle" /\ mailbox[t] # <<>> /\ Head(mailbox[t]).k = "Announce"
      /\ mailbox' = [mailbox EXCEPT ![t] = Tail(mailbox[t])]
  BY Zenon DEF Next1, Take
<1>2. /\ mailbox'[t] = Tail(mailbox[t]) /\ \A u \in Tracker \ {t} : mailbox'[u] = mailbox[u]
      /\ mailbox' \in [Tracker -> Seq(Messages)]
  BY <1>0, <1>1 DEF ActorTyped
<1>3. /\ phase' \in [Tracker -> Phases] /\ phase'[t] = p
      /\ \A u \in Tracker \ {t} : phase'[u] = phase[u]
  BY Zenon, <1>0 DEF ActorTyped, Phases
<1>4. ActorTyped' /\ OthersSame(t)
  BY Zenon, <1>0, <1>2, <1>3, TorrentSame DEF ActorTyped, OthersSame
<1>5. TimerOK(t)'
  BY Zenon, <1>0, <1>3 DEF TimerOK
<1>6. BaseLeft(t)' = BaseLeft(t) /\ BaseEvent(t)' = BaseEvent(t)
  BY Zenon, <1>1, <1>3 DEF BaseLeft, BaseEvent, Beginning
<1>7. ParamsOK(t)'
  BY Zenon, <1>0, <1>1, <1>2, <1>6, ParamsTakes
<1> QED
  BY Zenon, <1>0, <1>3, <1>4, <1>5, <1>7, OneTracker

\* announce of a UDP tracker, up to its first request.
LEMMA InvAnnounceUdp ==
  ASSUME TrackersInv, NEW t \in Udp, AnnounceUdp(t)
  PROVE  TrackersInv'
<1>0. /\ WireInv /\ ClientTyped /\ AtRest /\ ActorsInv /\ t \in Tracker
  BY Zenon DEF TrackersInv, Tracker
<1>1. /\ Next1(t, "Announce") /\ Take(t) /\ UNCHANGED <<service, torrentVars>>
      /\ phase[t] = "idle" /\ wait[t] = NoWait
  BY Zenon, <1>0 DEF AnnounceUdp, Next1, AtRest, Resting, Phases
<1>2. CASE /\ phase' = [phase EXCEPT ![t] = "announcing"]
           /\ attempt' = [attempt EXCEPT ![t] = 0]
           /\ UNCHANGED <<ready, conn, interval, params, armed, restarts>>
           /\ SendAndWait(t, "announce")
  <2>1. ClientTyped'
    BY Zenon, <1>0, <1>1, <1>2 DEF ClientTyped
  <2>2. WireInv' /\ \A u \in Udp \ {t} : wait'[u] = wait[u]
    BY Zenon, <1>0, <1>1, <1>2, <2>1, WireAsks DEF ClientTyped
  <2>3. ActorsInv' /\ \A u \in Tracker \ {t} : phase'[u] = phase[u]
    BY Zenon, <1>0, <1>1, <1>2, ActorsAnnounce
  <2>4. phase'[t] = "announcing"
    BY Zenon, <1>0, <1>2 DEF ActorsInv, ActorTyped
  <2>5. AtRest'
    BY Zenon, <1>0, <2>2, <2>3, <2>4, RestKeeps DEF Resting
  <2> QED
    BY Zenon, <2>1, <2>2, <2>3, <2>5 DEF TrackersInv
<1>3. CASE UNCHANGED <<ready, conn, interval, attempt, wireVars>> /\ Reports(t, "reporting")
  <2>1. ClientTyped' /\ WireInv'
    BY Zenon, <1>0, <1>1, <1>3, WireKeeps DEF ClientTyped, wireVars
  <2>2. /\ phase' = [phase EXCEPT ![t] = "reporting"]
        /\ UNCHANGED <<interval, params, armed, restarts>>
    BY Zenon, <1>3 DEF Reports
  <2>3. ActorsInv' /\ \A u \in Tracker \ {t} : phase'[u] = phase[u]
    BY Zenon, <1>0, <1>1, <2>2, ActorsAnnounce
  <2>4. AtRest'
    BY Zenon, <1>0, <1>1, <1>3, <2>3, RestKeeps DEF wireVars
  <2> QED
    BY Zenon, <2>1, <2>3, <2>4 DEF TrackersInv
<1> QED
  BY <1>2, <1>3, Zenon DEF AnnounceUdp

\* The next request of an announce.
LEMMA InvAnnounceLoop ==
  ASSUME TrackersInv, NEW t \in Udp, AnnounceLoop(t)
  PROVE  TrackersInv'
<1>0. /\ WireInv /\ ClientTyped /\ AtRest /\ ActorsInv
  BY Zenon DEF TrackersInv
<1>1. /\ phase[t] \in {"announcing", "stopping"} /\ wait[t] = NoWait
      /\ UNCHANGED <<clientVars, phase, service, armed, mailbox, restarts, torrentVars>>
      /\ \E op \in {"connect", "announce"} : SendAndWait(t, op)
  BY Zenon DEF AnnounceLoop
<1>2. ClientTyped' /\ interval' \in [Tracker -> Intervals \cup {Unset}]
  BY Zenon, <1>0, <1>1 DEF ClientTyped, clientVars, ActorsInv, ActorTyped
<1>3. WireInv' /\ \A u \in Udp \ {t} : wait'[u] = wait[u]
  BY Zenon, <1>0, <1>1, <1>2, WireAsks DEF ClientTyped
<1>4. ActorsInv'
  BY Zenon, <1>0, <1>1, <1>2, ActorsSame DEF clientVars
<1>5. AtRest'
  BY Zenon, <1>0, <1>1, <1>3, RestKeeps DEF Resting
<1> QED
  BY Zenon, <1>2, <1>3, <1>4, <1>5 DEF TrackersInv


\* The request ends, and the loop of announce goes on.
LEMMA UdpGoesOn ==
  ASSUME TrackersInv, NEW t \in Udp, EndRequest(t), ClientTyped',
         UNCHANGED <<phase, armed, params, mailbox, restarts, interval, torrentVars>>
  PROVE  TrackersInv'
<1>1. WireInv' /\ wait'[t] = NoWait /\ \A u \in Udp \ {t} : wait'[u] = wait[u]
  BY Zenon, WireEnds DEF TrackersInv
<1>2. interval' \in [Tracker -> Intervals \cup {Unset}]
  BY Zenon DEF TrackersInv, ActorsInv, ActorTyped
<1>3. ActorsInv'
  BY Zenon, <1>2, ActorsSame DEF TrackersInv
<1>4. AtRest'
  BY Zenon, <1>1, RestKeeps DEF TrackersInv
<1> QED
  BY Zenon, <1>1, <1>3, <1>4 DEF TrackersInv

\* The client looks at its answer.
LEMMA InvAnswered ==
  ASSUME TrackersInv, NEW t \in Udp, Answered(t)
  PROVE  TrackersInv'
<1>0. /\ ClientTyped /\ WireTyped /\ t \in Tracker
      /\ interval \in [Tracker -> Intervals \cup {Unset}]
  BY Zenon DEF TrackersInv, WireInv, ActorsInv, ActorTyped, Tracker
<1> DEFINE r == Head(answered[t])
<1>1. /\ answered[t] # <<>> /\ UNCHANGED <<service, mailbox, torrentVars>>
      /\ \/ ConnectAnswered(t, r) \/ AnnounceAnswered(t, r)
         \/ ConnectionRefused(t, r) \/ AnswerRejected(t, r)
  BY Zenon DEF Answered
<1>2. r \in Responses
  BY Zenon, <1>0, <1>1, TailFacts DEF WireTyped
<1> HIDE DEF r
<1>3. r.conn \in 0..MaxExpiries + 1 /\ r.interval \in Intervals \cup {Unset}
  BY Zenon, <1>2 DEF Responses
<1>4. CASE ConnectAnswered(t, r)
  <2>1. /\ conn' = [conn EXCEPT ![t] = r.conn] /\ ready' = [ready EXCEPT ![t] = TRUE]
        /\ interval' = interval /\ EndRequest(t)
        /\ \/ Returned(t, TRUE) /\ attempt' = attempt
           \/ /\ attempt' = [attempt EXCEPT ![t] = @ + 1]
              /\ UNCHANGED <<phase, params, armed, restarts>>
    BY <1>4, Zenon DEF ConnectAnswered
  <2>2. attempt' \in [Udp -> Nat]
    <3>1. attempt \in [Udp -> Nat] /\ attempt[t] + 1 \in Nat
      BY <1>0 DEF ClientTyped
    <3>2. attempt' = attempt \/ attempt' = [attempt EXCEPT ![t] = attempt[t] + 1]
      BY <2>1, Zenon
    <3> QED
      BY <3>1, <3>2, Zenon
  <2>3. ClientTyped'
    BY Zenon, <1>0, <1>1, <1>3, <2>1, <2>2 DEF ClientTyped
  <2>4. CASE Returned(t, TRUE)
    BY Zenon, <1>0, <1>1, <2>1, <2>3, <2>4, UdpReturns
  <2>5. CASE UNCHANGED <<phase, params, armed, restarts>>
    BY Zenon, <1>1, <2>1, <2>3, <2>5, UdpGoesOn
  <2> QED
    BY Zenon, <2>1, <2>4, <2>5
<1>5. CASE AnnounceAnswered(t, r)
  <2>1. /\ interval' = [interval EXCEPT ![t] = r.interval] /\ UNCHANGED <<ready, conn, attempt>>
        /\ EndRequest(t) /\ Returned(t, TRUE)
    BY Zenon, <1>5 DEF AnnounceAnswered
  <2>2. ClientTyped' /\ interval' \in [Tracker -> Intervals \cup {Unset}]
    BY Zenon, <1>0, <1>1, <1>3, <2>1 DEF ClientTyped
  <2> QED
    BY Zenon, <1>1, <2>1, <2>2, UdpReturns
<1>6. CASE ConnectionRefused(t, r)
  <2>1. /\ ready' = [ready EXCEPT ![t] = FALSE] /\ EndRequest(t)
        /\ UNCHANGED <<conn, interval, attempt, params, phase, armed, restarts>>
    BY Zenon, <1>6 DEF ConnectionRefused
  <2>2. ClientTyped'
    BY Zenon, <1>0, <1>1, <2>1 DEF ClientTyped
  <2> QED
    BY Zenon, <1>1, <2>1, <2>2, UdpGoesOn
<1>7. CASE AnswerRejected(t, r)
  <2>1. UNCHANGED <<ready, conn, interval, attempt>> /\ EndRequest(t) /\ Returned(t, FALSE)
    BY Zenon, <1>7 DEF AnswerRejected
  <2>2. ClientTyped' /\ interval' \in [Tracker -> Intervals \cup {Unset}]
    BY Zenon, <1>0, <1>1, <2>1 DEF ClientTyped
  <2> QED
    BY Zenon, <1>1, <2>1, <2>2, UdpReturns
<1> QED
  BY Zenon, <1>1, <1>4, <1>5, <1>6, <1>7

\* No answer in time, the next try, and the ends of a request from outside.
LEMMA InvTimeouts ==
  ASSUME TrackersInv, NEW t \in Udp,
         MessageTimeout(t) \/ Retry(t) \/ RequestAborted(t) \/ StopTimeout(t)
  PROVE  TrackersInv'
<1>0. /\ ClientTyped /\ WireInv /\ AtRest /\ ActorsInv /\ t \in Tracker
      /\ interval \in [Tracker -> Intervals \cup {Unset}]
  BY Zenon DEF TrackersInv, ActorsInv, ActorTyped, Tracker
<1>1. UNCHANGED <<ready, conn, interval, attempt, service, mailbox, torrentVars>>
  BY Zenon DEF MessageTimeout, Retry, RequestAborted, StopTimeout, clientVars
<1>2. ClientTyped' /\ interval' \in [Tracker -> Intervals \cup {Unset}]
  BY Zenon, <1>0, <1>1 DEF ClientTyped
<1>3. CASE EndRequest(t) /\ Returned(t, FALSE)
  BY Zenon, <1>1, <1>2, <1>3, UdpReturns
<1>4. ASSUME WireInv', \A u \in Udp \ {t} : wait'[u] = wait[u], wait[t].op # "none",
             UNCHANGED <<phase, params, armed, restarts>>
      PROVE  TrackersInv'
  <2>1. ActorsInv'
    BY Zenon, <1>0, <1>1, <1>2, <1>4, ActorsSame
  <2>2. phase[t] \notin Resting
    BY Zenon, <1>0, <1>4, NoWaitTyped DEF AtRest, Resting
  <2>3. AtRest'
    BY Zenon, <1>0, <1>4, <2>2, RestKeeps
  <2> QED
    BY Zenon, <1>2, <1>4, <2>1, <2>3 DEF TrackersInv
<1>5. CASE MessageTimeout(t) /\ wait[t].retries > 0 /\ ~(EndRequest(t) /\ Returned(t, FALSE))
  <2>1. /\ wait[t].open /\ answered[t] = <<>> /\ wait[t].retries > 0
        /\ channels' = Unregister(channels, wait[t].id)
        /\ wait' = [wait EXCEPT ![t] = [op |-> @.op, id |-> @.id,
                                        retries |-> @.retries - 1, open |-> FALSE]]
        /\ UNCHANGED <<answered, datagrams, phase, params, armed, restarts>>
    BY <1>5, Zenon DEF MessageTimeout
  <2>2. WireInv' /\ \A u \in Udp \ {t} : wait'[u] = wait[u]
    BY Zenon, <1>0, <2>1, WireBacksOff
  <2>3. wait[t].op # "none"
    BY Zenon, <1>0, <2>1, NoWaitTyped DEF WireInv, IdsDistinct
  <2> QED
    BY Zenon, <1>4, <2>1, <2>2, <2>3
<1>6. CASE Retry(t)
  <2>1. /\ wait[t].op # "none" /\ ~wait[t].open /\ UNCHANGED <<phase, params, armed, restarts>>
        /\ SendAndRecv(t, wait[t].op, wait[t].id, wait[t].retries)
    BY Zenon, <1>6 DEF Retry, clientVars
  <2>2. WireInv' /\ \A u \in Udp \ {t} : wait'[u] = wait[u]
    BY Zenon, <1>0, <1>2, <2>1, WireRetries DEF ClientTyped
  <2> QED
    BY Zenon, <1>4, <2>1, <2>2
<1>7. MessageTimeout(t) => wait[t].retries > 0 \/ (EndRequest(t) /\ Returned(t, FALSE))
  BY Zenon DEF MessageTimeout
<1>8. RequestAborted(t) \/ StopTimeout(t) => EndRequest(t) /\ Returned(t, FALSE)
  BY Zenon DEF RequestAborted, StopTimeout
<1> QED
  BY Zenon, <1>3, <1>5, <1>6, <1>7, <1>8

\* on_stop: the actor has nothing to report any more.
LEMMA ActorsStop ==
  ASSUME ActorsInv, NEW t \in Tracker, mailbox' = [mailbox EXCEPT ![t] = <<>>],
         armed' = [armed EXCEPT ![t] = NotArmed], UNCHANGED <<interval, restarts, torrentVars>>,
         NEW f \in {"stopping", "leaving"}, phase' = [phase EXCEPT ![t] = f],
         params' = [params EXCEPT ![t].event = "Stopped"] \/ params' = params
  PROVE  ActorsInv' /\ phase'[t] = f /\ \A u \in Tracker \ {t} : phase'[u] = phase[u]
<1>0. ActorTyped /\ TorrentTyped /\ TorrentTyped' /\ \A u \in Tracker : SameTorrent(u)
  BY Zenon, TorrentSame DEF ActorsInv
<1>1. /\ params' \in [Tracker -> [event : Event, left : LeftValues \cup {0}]]
      /\ \A u \in Tracker \ {t} : params'[u] = params[u]
  <2>1. params[t] \in [event : Event, left : LeftValues \cup {0}] /\ "Stopped" \in Event
    BY Zenon, <1>0 DEF ActorTyped, Event
  <2>2. [params[t] EXCEPT !.event = "Stopped"] \in [event : Event, left : LeftValues \cup {0}]
    BY Zenon, <2>1
  <2> QED
    BY Zenon, <1>0, <2>2 DEF ActorTyped
<1>2. mailbox' \in [Tracker -> Seq(Messages)] /\ \A u \in Tracker \ {t} : mailbox'[u] = mailbox[u]
  BY <1>0 DEF ActorTyped
<1>3. /\ armed' \in [Tracker -> Nat \cup {NotArmed, Lost}] /\ armed'[t] = NotArmed
      /\ phase' \in [Tracker -> Phases] /\ phase'[t] = f
      /\ \A u \in Tracker \ {t} : armed'[u] = armed[u] /\ phase'[u] = phase[u]
  BY Zenon, <1>0 DEF ActorTyped, Phases
<1>4. ActorTyped' /\ OthersSame(t)
  BY Zenon, <1>0, <1>1, <1>2, <1>3, TorrentSame DEF ActorTyped, OthersSame
<1>5. TimerOK(t)' /\ ParamsOK(t)'
  BY <1>3 DEF TimerOK, ParamsOK, Working, NotArmed
<1> QED
  BY Zenon, <1>0, <1>3, <1>4, <1>5, OneTracker

\* The last announce of a UDP tracker, if it is ready.
LEMMA InvStopUdp ==
  ASSUME TrackersInv, NEW t \in Udp, StopUdp(t)
  PROVE  TrackersInv'
<1>0. /\ ClientTyped /\ WireInv /\ AtRest /\ ActorsInv /\ t \in Tracker
  BY Zenon DEF TrackersInv, Tracker
<1>1. /\ phase[t] = "idle" /\ mailbox' = [mailbox EXCEPT ![t] = <<>>] /\ wait[t] = NoWait
      /\ armed' = [armed EXCEPT ![t] = NotArmed]
      /\ UNCHANGED <<ready, conn, interval, restarts, service, torrentVars>>
  BY Zenon, <1>0 DEF StopUdp, Next1, AtRest, Resting, Phases
<1>2. CASE /\ phase' = [phase EXCEPT ![t] = "stopping"]
           /\ params' = [params EXCEPT ![t].event = "Stopped"]
           /\ attempt' = [attempt EXCEPT ![t] = 0]
           /\ SendAndWait(t, "announce")
  <2>1. ClientTyped'
    BY Zenon, <1>0, <1>1, <1>2 DEF ClientTyped
  <2>2. WireInv' /\ \A u \in Udp \ {t} : wait'[u] = wait[u]
    BY Zenon, <1>0, <1>1, <1>2, <2>1, WireAsks DEF ClientTyped
  <2>3. ActorsInv' /\ phase'[t] = "stopping" /\ \A u \in Tracker \ {t} : phase'[u] = phase[u]
    BY Zenon, <1>0, <1>1, <1>2, ActorsStop
  <2>4. AtRest'
    BY Zenon, <1>0, <2>2, <2>3, RestKeeps DEF Resting
  <2> QED
    BY Zenon, <2>1, <2>2, <2>3, <2>4 DEF TrackersInv
<1>3. CASE phase' = [phase EXCEPT ![t] = "leaving"] /\ UNCHANGED <<params, attempt, wireVars>>
  <2>1. ClientTyped' /\ WireInv'
    BY Zenon, <1>0, <1>1, <1>3, WireKeeps DEF ClientTyped, wireVars
  <2>2. ActorsInv' /\ \A u \in Tracker \ {t} : phase'[u] = phase[u]
    BY Zenon, <1>0, <1>1, <1>3, ActorsStop
  <2>3. AtRest'
    BY Zenon, <1>0, <1>1, <1>3, <2>2, RestKeeps DEF wireVars
  <2> QED
    BY Zenon, <2>1, <2>2, <2>3 DEF TrackersInv
<1> QED
  BY <1>2, <1>3, Zenon DEF StopUdp


-----------------------------------------------------------------------------
(* The steps of the HTTP client, of the actor, of the timer and the socket *)

\* An actor of an HTTP tracker uses nothing of the shared socket.
LEMMA HttpKeeps ==
  ASSUME TrackersInv, NEW t \in Http, UNCHANGED <<ready, conn, attempt, wireVars, service>>,
         ActorsInv', \A u \in Tracker \ {t} : phase'[u] = phase[u]
  PROVE  TrackersInv'
<1>1. WireInv' /\ ClientTyped'
  BY Zenon, WireKeeps DEF TrackersInv, ClientTyped, wireVars
<1>2. t \notin Udp
  BY Zenon, TrackersAssumption
<1>3. AtRest'
  BY Zenon, <1>2 DEF TrackersInv, AtRest, wireVars, Tracker
<1> QED
  BY Zenon, <1>1, <1>3 DEF TrackersInv

\* The four handlers of an HTTP tracker.
LEMMA InvHttp ==
  ASSUME TrackersInv, NEW t \in Http, HttpStep(t)
  PROVE  TrackersInv'
<1>0. /\ ActorsInv /\ t \in Tracker /\ interval \in [Tracker -> Intervals \cup {Unset}]
  BY Zenon DEF TrackersInv, ActorsInv, ActorTyped, Tracker
<1>1. UNCHANGED <<ready, conn, attempt, wireVars, service>>
  BY Zenon DEF HttpStep, StartHttp, AnnounceHttp, HttpReturned, StopHttp
<1>2. CASE StartHttp(t) \/ HttpReturned(t)
  <2>1. Returned(t, TRUE) /\ UNCHANGED <<mailbox, torrentVars>>
    BY Zenon, <1>2 DEF StartHttp, HttpReturned
  <2>2. interval' \in [Tracker -> Intervals \cup {Unset}]
    BY Zenon, <1>0, <1>2 DEF StartHttp, HttpReturned, HttpReply
  <2>3. ActorsInv' /\ \A u \in Tracker \ {t} : phase'[u] = phase[u]
    BY Zenon, <1>0, <2>1, <2>2, ActorsReturned
  <2> QED
    BY Zenon, <1>1, <2>3, HttpKeeps
<1>3. CASE AnnounceHttp(t)
  <2>1. ActorsInv' /\ \A u \in Tracker \ {t} : phase'[u] = phase[u]
    BY Zenon, <1>0, <1>3, ActorsAnnounce DEF AnnounceHttp
  <2> QED
    BY Zenon, <1>1, <2>1, HttpKeeps
<1>4. CASE StopHttp(t)
  <2>1. ActorsInv' /\ \A u \in Tracker \ {t} : phase'[u] = phase[u]
    BY Zenon, <1>0, <1>4, ActorsStop DEF StopHttp
  <2> QED
    BY Zenon, <1>1, <2>1, HttpKeeps
<1> QED
  BY Zenon, <1>2, <1>3, <1>4 DEF HttpStep

\* A step of an actor that has to do with neither client nor phase.
LEMMA WireAndRest ==
  ASSUME TrackersInv, UNCHANGED <<phase, ready, conn, attempt, wireVars, service>>
  PROVE  WireInv' /\ ClientTyped' /\ AtRest'
BY Zenon, WireKeeps DEF TrackersInv, ClientTyped, AtRest, wireVars

\* The report is taken: no client has to do with it.
LEMMA InvReported ==
  ASSUME TrackersInv, NEW t \in Tracker, Reported(t)
  PROVE  TrackersInv'
<1>0. /\ WireInv /\ ClientTyped /\ AtRest /\ ActorsInv
      /\ UNCHANGED <<ready, conn, attempt, wireVars, service>>
      /\ phase[t] \in {"greeting", "reporting", "leaving"}
  BY Zenon DEF TrackersInv, Reported
<1>1. ActorsInv' /\ \A u \in Tracker \ {t} : phase'[u] = phase[u]
  BY Zenon, <1>0, ActorsReported
<1>2. WireInv' /\ ClientTyped'
  BY Zenon, <1>0, WireKeeps DEF ClientTyped, wireVars
<1>3. phase[t] \in Resting /\ UNCHANGED wait
  BY Zenon, <1>0 DEF Resting, Phases, wireVars
<1>4. AtRest'
  BY Zenon, <1>0, <1>1, <1>3 DEF AtRest, Tracker
<1> QED
  BY Zenon, <1>1, <1>2, <1>4 DEF TrackersInv

\* A new value of a parameter.
LEMMA InvUpdate ==
  ASSUME TrackersInv, NEW t \in Tracker, Update(t)
  PROVE  TrackersInv'
<1>0. /\ ActorsInv /\ ActorTyped /\ TorrentTyped /\ TimerOK(t) /\ ParamsOK(t)
      /\ params[t] \in [event : Event, left : LeftValues \cup {0}]
      /\ mailbox[t] \in Seq(Messages)
  BY Zenon DEF TrackersInv, ActorsInv, ActorTyped
<1> DEFINE m == Head(mailbox[t])
           p == CASE m.k = "Event" -> [params[t] EXCEPT !.event = m.e]
                  [] m.k = "Left" -> [params[t] EXCEPT !.left = m.left]
<1>1. /\ phase[t] = "idle" /\ mailbox[t] # <<>> /\ m.k \in {"Event", "Left"}
      /\ mailbox' = [mailbox EXCEPT ![t] = Tail(mailbox[t])]
      /\ UNCHANGED <<phase, ready, conn, interval, attempt, wireVars, service, armed,
                     restarts, torrentVars>>
  BY Zenon DEF Update, Next1, Take
<1>2. params' = [params EXCEPT ![t] = p]
  BY Zenon DEF Update
<1>3. m \in Messages
  BY Zenon, <1>0, <1>1, TailFacts
<1> HIDE DEF m
<1>4. /\ p \in [event : Event, left : LeftValues \cup {0}]
      /\ p.left = IF m.k = "Left" THEN Value(m) ELSE params[t].left
      /\ p.event = IF m.k = "Event" THEN Value(m) ELSE params[t].event
  <2>1. CASE m.k = "Event"
    <3>1. m.e \in Event /\ p = [params[t] EXCEPT !.event = m.e]
      BY Zenon, <1>3, <2>1, MessageKinds
    <3>2. /\ [params[t] EXCEPT !.event = m.e] \in [event : Event, left : LeftValues \cup {0}]
          /\ [params[t] EXCEPT !.event = m.e].left = params[t].left
          /\ [params[t] EXCEPT !.event = m.e].event = m.e
      BY Zenon, <1>0, <3>1
    <3> QED
      BY Zenon, <2>1, <3>1, <3>2 DEF Value
  <2>2. CASE m.k = "Left"
    <3>1. m.left \in LeftValues /\ p = [params[t] EXCEPT !.left = m.left]
      BY Zenon, <1>3, <2>2, MessageKinds
    <3>2. /\ [params[t] EXCEPT !.left = m.left] \in [event : Event, left : LeftValues \cup {0}]
          /\ [params[t] EXCEPT !.left = m.left].left = m.left
          /\ [params[t] EXCEPT !.left = m.left].event = params[t].event
      BY Zenon, <1>0, <3>1
    <3> QED
      BY Zenon, <2>2, <3>1, <3>2 DEF Value
  <2> QED
    BY Zenon, <1>1, <2>1, <2>2
<1> HIDE DEF p
<1>5. /\ mailbox'[t] = Tail(mailbox[t]) /\ \A u \in Tracker \ {t} : mailbox'[u] = mailbox[u]
      /\ mailbox' \in [Tracker -> Seq(Messages)] /\ params'[t] = p
      /\ params' \in [Tracker -> [event : Event, left : LeftValues \cup {0}]]
      /\ \A u \in Tracker \ {t} : params'[u] = params[u]
  BY <1>0, <1>1, <1>2, <1>4 DEF ActorTyped
<1>6. ActorTyped' /\ TorrentTyped' /\ OthersSame(t) /\ SameTorrent(t)
  BY Zenon, <1>0, <1>1, <1>5, TorrentSame DEF ActorTyped, OthersSame
<1>7. TimerOK(t)'
  <2>1. InMailbox(t, {"Announce", "Stop"}) => InMailbox(t, {"Announce", "Stop"})'
    <3>1. ASSUME NEW i \in DOMAIN mailbox[t], mailbox[t][i].k \in {"Announce", "Stop"}
          PROVE  i - 1 \in DOMAIN mailbox'[t] /\ mailbox'[t][i - 1] = mailbox[t][i]
      <4>1. i # 1 /\ i \in 1..Len(mailbox[t]) /\ Len(mailbox[t]) \in Nat
        BY <1>0, <1>1, <3>1 DEF m
      <4> QED
        BY <1>0, <1>1, <1>5, <4>1, TailFacts
    <3> QED
      BY Zenon, <3>1 DEF InMailbox
  <2> QED
    BY Zenon, <1>0, <1>1, <2>1 DEF TimerOK
<1>8. /\ BaseLeft(t)' = IF m.k = "Left" THEN Value(m) ELSE BaseLeft(t)
      /\ BaseEvent(t)' = IF m.k = "Event" THEN Value(m) ELSE BaseEvent(t)
  BY Zenon, <1>1, <1>4, <1>5 DEF BaseLeft, BaseEvent, Beginning
<1>9. ParamsOK(t)'
  BY Zenon, <1>0, <1>1, <1>5, <1>6, <1>8, ParamsTakes DEF m
<1> QED
  BY Zenon, <1>0, <1>1, <1>6, <1>7, <1>9, OneTracker, WireAndRest DEF TrackersInv

\* An Announce of nothing in particular, or the stop, is put in a mailbox.
LEMMA ActorsPost ==
  ASSUME ActorsInv, NEW t \in Tracker, NEW m \in Messages, m.k \in {"Announce", "Stop"},
         ~IsEventAnnounce(m), mailbox' = [mailbox EXCEPT ![t] = Append(mailbox[t], m)],
         armed' = armed \/ armed' = [armed EXCEPT ![t] = NotArmed],
         UNCHANGED <<phase, params, interval, restarts, initialLeft>>,
         TorrentTyped', \A u \in Tracker : SameTorrent(u)
  PROVE  ActorsInv'
<1>0. /\ ActorTyped /\ TorrentTyped /\ TimerOK(t) /\ ParamsOK(t)
      /\ mailbox[t] \in Seq(Messages) /\ mailbox'[t] = Append(mailbox[t], m)
  BY Zenon DEF ActorsInv, ActorTyped
<1>1. /\ mailbox' \in [Tracker -> Seq(Messages)]
      /\ \A u \in Tracker \ {t} : mailbox'[u] = mailbox[u]
  BY Zenon, <1>0, AppendFacts DEF ActorTyped
<1>2. /\ armed' \in [Tracker -> Nat \cup {NotArmed, Lost}]
      /\ armed'[t] = armed[t] \/ armed'[t] = NotArmed
      /\ \A u \in Tracker \ {t} : armed'[u] = armed[u]
  BY Zenon, <1>0 DEF ActorTyped
<1>3. ActorTyped' /\ OthersSame(t)
  BY Zenon, <1>0, <1>1, <1>2 DEF ActorTyped, OthersSame
<1>4. InMailbox(t, {"Announce", "Stop"})'
  <2>1. Len(mailbox[t]) + 1 \in DOMAIN mailbox'[t] /\ mailbox'[t][Len(mailbox[t]) + 1] = m
    BY <1>0, AppendFacts
  <2> QED
    BY Zenon, <2>1 DEF InMailbox
<1>5. TimerOK(t)'
  BY <1>0, <1>2, <1>4 DEF TimerOK, NotArmed
<1>6. ParamsOK(t)'
  BY Zenon, <1>0, ParamsPosts DEF BaseLeft, BaseEvent
<1> QED
  BY Zenon, <1>3, <1>5, <1>6, OneTracker

\* The timer of an actor fires; datagrams come, are lost, or an id expires.
LEMMA InvAround ==
  ASSUME TrackersInv,
         \/ \E t \in Tracker : TimerFires(t)
         \/ \E q \in datagrams : LoseDatagram(q) \/ ReceiveDatagram(q)
         \/ \E t \in Udp : Expire(t)
  PROVE  TrackersInv'
<1>0. /\ WireInv /\ ClientTyped /\ AtRest /\ ActorsInv /\ TorrentTyped
      /\ interval \in [Tracker -> Intervals \cup {Unset}]
  BY Zenon DEF TrackersInv, ActorsInv, ActorTyped
<1>1. ASSUME NEW t \in Tracker, TimerFires(t)
      PROVE  TrackersInv'
  <2> DEFINE m == [k |-> "Announce", e |-> "timer"]
  <2>1. m \in Messages /\ m.k \in {"Announce", "Stop"} /\ ~IsEventAnnounce(m)
    BY Zenon, MessagesMade DEF IsEventAnnounce
  <2>2. /\ mailbox' = [mailbox EXCEPT ![t] = Append(mailbox[t], m)]
        /\ armed' = [armed EXCEPT ![t] = NotArmed]
        /\ UNCHANGED <<phase, ready, conn, interval, params, attempt, wireVars, service,
                       restarts, torrentVars>>
    BY Zenon, <1>1 DEF TimerFires, Post, clientVars
  <2> HIDE DEF m
  <2>3. TorrentTyped' /\ initialLeft' = initialLeft /\ \A u \in Tracker : SameTorrent(u)
    BY Zenon, <1>0, <2>2, TorrentSame
  <2>4. ActorsInv'
    BY Zenon, <1>0, <2>1, <2>2, <2>3, ActorsPost
  <2> QED
    BY Zenon, <2>2, <2>4, WireAndRest DEF TrackersInv
<1>2. ASSUME NEW q \in datagrams, LoseDatagram(q) \/ ReceiveDatagram(q)
      PROVE  TrackersInv'
  <2>1. /\ UNCHANGED <<phase, ready, conn, interval, params, attempt, wait, service, armed,
                       mailbox, restarts, torrentVars>>
    BY Zenon, <1>2 DEF LoseDatagram, ReceiveDatagram, clientVars
  <2>2. WireInv'
    <3>1. CASE LoseDatagram(q)
      BY Zenon, <1>0, <3>1, WireKeeps DEF LoseDatagram
    <3>2. CASE ReceiveDatagram(q)
      BY Zenon, <1>0, <3>2, WireReceives
    <3> QED
      BY Zenon, <1>2, <3>1, <3>2
  <2>3. ClientTyped' /\ AtRest'
    BY Zenon, <1>0, <2>1 DEF ClientTyped, AtRest
  <2> QED
    BY Zenon, <1>0, <2>1, <2>2, <2>3, ActorsSame DEF TrackersInv
<1>3. ASSUME NEW t \in Udp, Expire(t)
      PROVE  TrackersInv'
  <2>1. /\ UNCHANGED <<phase, ready, conn, interval, params, attempt, wireVars, armed, mailbox,
                       restarts, configured, trackers, left, initialLeft, missed, event, told>>
        /\ service[t] <= MaxExpiries /\ service' = [service EXCEPT ![t] = service[t] + 1]
    BY Zenon, <1>3 DEF Expire, clientVars
  <2>2. WireInv' /\ AtRest'
    BY Zenon, <1>0, <2>1, WireKeeps DEF AtRest, wireVars
  <2>3. service[t] + 1 \in 1..MaxExpiries + 1
    <3>1. service[t] \in 1..MaxExpiries + 1 /\ MaxExpiries \in Nat
      BY Zenon, <1>0, TrackersAssumption DEF ClientTyped
    <3> QED
      BY <2>1, <3>1
  <2>4. ClientTyped'
    BY Zenon, <1>0, <2>1, <2>3 DEF ClientTyped
  <2>5. TorrentTyped' /\ \A u \in Tracker : SameTorrent(u)
    BY Zenon, <1>0, <2>1 DEF TorrentTyped, SameTorrent
  <2> QED
    BY Zenon, <1>0, <2>1, <2>2, <2>4, <2>5, ActorsKeep DEF TrackersInv
<1> QED
  BY Zenon, <1>1, <1>2, <1>3


-----------------------------------------------------------------------------
(* The steps of the torrent *)

\* register_tracker_actor.
LEMMA ActorsRegister ==
  ASSUME ActorsInv, NEW t \in Tracker, Register(t)
  PROVE  ActorsInv' /\ phase'[t] = "starting" /\ \A u \in Tracker \ {t} : phase'[u] = phase[u]
<1>0. ActorTyped /\ TorrentTyped /\ TimerOK(t)
  BY Zenon DEF ActorsInv
<1>1. /\ t \in configured \ trackers /\ ~Alive(t) /\ trackers' = trackers \cup {t}
      /\ initialLeft' = [initialLeft EXCEPT ![t] = left]
      /\ phase' = [phase EXCEPT ![t] = "starting"] /\ restarts' = [restarts EXCEPT ![t] = 0]
      /\ mailbox' = [mailbox EXCEPT ![t] = <<>>] /\ missed' = [missed EXCEPT ![t] = FALSE]
      /\ UNCHANGED <<interval, params, armed, configured, left, event, told>>
  BY Zenon DEF Register, clientVars
<1>2. /\ phase' \in [Tracker -> Phases] /\ phase'[t] = "starting"
      /\ mailbox' \in [Tracker -> Seq(Messages)] /\ mailbox'[t] = <<>>
      /\ restarts' \in [Tracker -> 0..RestartLimit]
      /\ \A u \in Tracker \ {t} : phase'[u] = phase[u] /\ mailbox'[u] = mailbox[u]
  BY <1>0, <1>1, TrackersAssumption DEF ActorTyped, Phases
<1>3. /\ initialLeft' \in [Tracker -> LeftValues] /\ initialLeft'[t] = left
      /\ missed' \in [Tracker -> BOOLEAN] /\ left' = left /\ told[t] = 4
      /\ \A u \in Tracker \ {t} : initialLeft'[u] = initialLeft[u] /\ missed'[u] = missed[u]
  BY Zenon, <1>0, <1>1 DEF TorrentTyped
<1>4. ActorTyped' /\ TorrentTyped'
  BY Zenon, <1>0, <1>1, <1>2, <1>3 DEF ActorTyped, TorrentTyped
<1>5. OthersSame(t)
  BY Zenon, <1>1, <1>2, <1>3 DEF OthersSame, SameTorrent
<1>6. TimerOK(t)'
  BY Zenon, <1>0, <1>1, <1>2 DEF TimerOK, Alive, ActorTyped, Phases, NotArmed
<1>7. ParamsOK(t)'
  <2>1. Len(mailbox'[t]) = 0 /\ DOMAIN mailbox'[t] = {} /\ BaseLeft(t)' = left'
    BY <1>2, <1>3 DEF BaseLeft, Beginning
  <2>2. \A b : Says(mailbox'[t], 0, "Left", b, b)
    BY DEF Says, Sets
  <2> QED
    BY <1>1, <1>3, <2>1, <2>2 DEF ParamsOK
<1> QED
  BY Zenon, <1>2, <1>4, <1>5, <1>6, <1>7, OneTracker

\* remove_tracker, reannounce_tracker and force_reannounce.
LEMMA ActorsTold ==
  ASSUME ActorsInv, NEW t \in Tracker, RemoveTracker(t) \/ Reannounce(t)
  PROVE  ActorsInv'
<1>0. ActorTyped /\ TorrentTyped
  BY Zenon DEF ActorsInv
<1>1. /\ UNCHANGED <<phase, armed, params, interval, restarts, configured, left, initialLeft,
                     missed, event, told>>
      /\ trackers' \subseteq trackers /\ TorrentIdle
  BY Zenon DEF RemoveTracker, Reannounce, actorVars, clientVars
<1>2. TorrentTyped' /\ \A u \in Tracker : SameTorrent(u)
  BY Zenon, <1>0, <1>1 DEF TorrentTyped, SameTorrent, TorrentIdle
<1>3. interval' \in [Tracker -> Intervals \cup {Unset}]
  BY Zenon, <1>0, <1>1 DEF ActorTyped
<1>4. CASE mailbox' = mailbox
  BY Zenon, <1>1, <1>2, <1>3, <1>4, ActorsKeep
<1>5. ASSUME NEW m \in Messages, m.k \in {"Announce", "Stop"}, ~IsEventAnnounce(m), Post(t, m)
      PROVE  ActorsInv'
  BY Zenon, <1>1, <1>2, <1>5, ActorsPost DEF Post
<1>6. /\ [k |-> "Announce", e |-> "timer"] \in Messages
      /\ [k |-> "Stop", e |-> "Stopped"] \in Messages
      /\ ~IsEventAnnounce([k |-> "Announce", e |-> "timer"])
      /\ ~IsEventAnnounce([k |-> "Stop", e |-> "Stopped"])
  BY Zenon, MessagesMade DEF IsEventAnnounce
<1>7. \/ mailbox' = mailbox \/ Post(t, [k |-> "Stop", e |-> "Stopped"])
      \/ Post(t, [k |-> "Announce", e |-> "timer"])
  BY Zenon DEF RemoveTracker, Reannounce
<1> QED
  BY Zenon, <1>4, <1>5, <1>6, <1>7

\* start, stop_transfer or a completion begins to tell the trackers.
LEMMA ActorsBegin ==
  ASSUME ActorsInv, NEW e \in {"Started", "Completed", "Stopped"}, BeginEvent(e)
  PROVE  ActorsInv'
<1>0. ActorTyped /\ TorrentTyped /\ e \in Event
  BY Zenon DEF ActorsInv, Event
<1>1. /\ event' = e /\ told' = [t \in Tracker |-> IF t \in trackers THEN 0 ELSE 4]
      /\ UNCHANGED <<phase, armed, params, interval, restarts, configured, mailbox, trackers,
                     left, initialLeft, missed>>
  BY Zenon DEF BeginEvent, actorVars, clientVars
<1>2. ActorTyped' /\ TorrentTyped'
  BY <1>0, <1>1 DEF ActorTyped, TorrentTyped
<1>3. ASSUME NEW t \in Tracker
      PROVE  TimerOK(t)' /\ ParamsOK(t)'
  <2>1. TimerOK(t) /\ ParamsOK(t) /\ told'[t] \in {0, 4}
    BY Zenon, <1>1 DEF ActorsInv
  <2>2. TimerOK(t)'
    BY Zenon, <1>1, <2>1 DEF TimerOK, InMailbox
  <2>3. BaseLeft(t)' = BaseLeft(t) /\ BaseEvent(t)' = BaseEvent(t)
    BY Zenon, <1>1 DEF BaseLeft, BaseEvent
  <2>4. ParamsOK(t)'
    BY <1>1, <2>1, <2>3 DEF ParamsOK
  <2> QED
    BY Zenon, <2>2, <2>4
<1> QED
  BY Zenon, <1>2, <1>3 DEF ActorsInv

\* A message at the end of a mailbox leaves those before it.
LEMMA TimerKeeps ==
  ASSUME ActorTyped, NEW t \in Tracker, TimerOK(t), NEW m \in Messages,
         mailbox'[t] = Append(mailbox[t], m), phase'[t] = phase[t], armed'[t] = armed[t]
  PROVE  TimerOK(t)'
<1>1. mailbox[t] \in Seq(Messages)
  BY Zenon DEF ActorTyped
<1>2. \A i \in DOMAIN mailbox[t] : /\ i \in DOMAIN mailbox'[t]
                                   /\ mailbox'[t][i] = mailbox[t][i]
  BY <1>1, AppendFacts
<1>3. InMailbox(t, {"Announce", "Stop"}) => InMailbox(t, {"Announce", "Stop"})'
  BY Zenon, <1>2 DEF InMailbox
<1> QED
  BY Zenon, <1>3 DEF TimerOK

\* update_tracker_progress_best_effort: what does not fit is marked as missed.
LEMMA ActorsProgress ==
  ASSUME ActorsInv, NEW l \in LeftValues, Progress(l)
  PROVE  ActorsInv'
<1>0. ActorTyped /\ TorrentTyped
  BY Zenon DEF ActorsInv
<1> DEFINE m == [k |-> "Left", left |-> l]
<1>1. /\ TorrentIdle /\ left' = l /\ trackers' = {t \in trackers : Alive(t)}
      /\ mailbox' = [t \in Tracker |-> IF t \in trackers /\ Alive(t) /\ HasRoom(t)
                                       THEN Append(mailbox[t], m) ELSE mailbox[t]]
      /\ missed' = [t \in Tracker |-> IF t \in trackers /\ Alive(t) THEN ~HasRoom(t)
                                      ELSE missed[t]]
      /\ UNCHANGED <<phase, armed, params, interval, restarts, configured, initialLeft,
                     event, told>>
  BY Zenon DEF Progress, actorVars, clientVars
<1>2. m \in Messages /\ m.k = "Left" /\ m.left = l /\ ~IsEventAnnounce(m)
  BY Zenon, MessagesMade DEF IsEventAnnounce
<1> HIDE DEF m
<1>3. mailbox' \in [Tracker -> Seq(Messages)]
  <2>1. \A t \in Tracker : mailbox[t] \in Seq(Messages) /\ Append(mailbox[t], m) \in Seq(Messages)
    BY Zenon, <1>0, <1>2, AppendFacts DEF ActorTyped
  <2> QED
    BY Zenon, <1>1, <2>1
<1>4. missed' \in [Tracker -> BOOLEAN]
  <2>1. \A t \in Tracker : missed[t] \in BOOLEAN /\ (~HasRoom(t)) \in BOOLEAN
    BY Zenon, <1>0 DEF TorrentTyped, HasRoom
  <2> QED
    BY <1>1, <2>1, Zenon
<1>5. ActorTyped' /\ TorrentTyped'
  BY Zenon, <1>0, <1>1, <1>3, <1>4 DEF ActorTyped, TorrentTyped, TorrentIdle
<1>6. ASSUME NEW t \in Tracker
      PROVE  TimerOK(t)' /\ ParamsOK(t)'
  <2>1. TimerOK(t) /\ ParamsOK(t) /\ phase'[t] = phase[t] /\ armed'[t] = armed[t]
    BY Zenon, <1>1 DEF ActorsInv
  <2>2. BaseLeft(t)' = BaseLeft(t) /\ BaseEvent(t)' = BaseEvent(t)
    BY Zenon, <1>1 DEF BaseLeft, BaseEvent
  <2>3. t \in trackers' => t \in trackers /\ Alive(t) /\ told'[t] = 4
    BY Zenon, <1>1 DEF TorrentIdle
  <2>4. CASE t \in trackers /\ Alive(t) /\ HasRoom(t)
    <3>1. mailbox'[t] = Append(mailbox[t], m)
      BY Zenon, <1>1, <2>4
    <3>2. ParamsOK(t)'
      BY <1>0, <1>1, <1>2, <2>1, <2>2, <2>3, <3>1, ParamsAppends DEF AppendsRight
    <3> QED
      BY Zenon, <1>0, <1>2, <2>1, <3>1, <3>2, TimerKeeps
  <2>5. CASE ~(t \in trackers /\ Alive(t) /\ HasRoom(t))
    <3>1. mailbox'[t] = mailbox[t]
      BY Zenon, <1>1, <2>5
    <3>2. t \in trackers' => missed'[t]
      BY Zenon, <1>1, <2>3, <2>5
    <3>3. TimerOK(t)'
      BY Zenon, <2>1, <3>1 DEF TimerOK, InMailbox
    <3>4. ParamsOK(t)'
      BY <2>1, <2>2, <2>3, <3>1, <3>2 DEF ParamsOK
    <3> QED
      BY Zenon, <3>3, <3>4
  <2> QED
    BY Zenon, <2>4, <2>5
<1> QED
  BY Zenon, <1>5, <1>6 DEF ActorsInv


\* One message of a broadcast: the progress, the event, the Announce that finds
\* both, and the event Empty.
LEMMA ActorsTellTracker ==
  ASSUME ActorsInv, NEW t \in Tracker, TellTracker(t)
  PROVE  ActorsInv'
<1>0. ActorTyped /\ TorrentTyped /\ TimerOK(t) /\ ParamsOK(t)
  BY Zenon DEF ActorsInv
<1> DEFINE m == EventMessages(event)[told[t] + 1]
<1>1. /\ t \in trackers /\ told[t] \in 0..3
      /\ UNCHANGED <<phase, armed, params, interval, restarts, configured, left, initialLeft,
                     event>>
      /\ missed' = [missed EXCEPT ![t] = missed[t] /\ told[t] > 0]
      /\ told' = [u \in Tracker |-> IF u \notin trackers' THEN 4
                                    ELSE told[u] + (IF u = t THEN 1 ELSE 0)]
  BY <1>0 DEF TellTracker, actorVars, clientVars, TorrentTyped
<1>2. /\ Alive(t) => mailbox' = [mailbox EXCEPT ![t] = Append(mailbox[t], m)]
      /\ ~Alive(t) => mailbox' = mailbox
  BY Zenon DEF TellTracker, Post
<1>3. trackers' \subseteq trackers /\ (Alive(t) => t \in trackers')
  BY Zenon DEF TellTracker
<1>4. /\ m \in Messages
      /\ told[t] = 0 => m.k = "Left" /\ m.left = left /\ ~IsEventAnnounce(m)
      /\ told[t] = 1 => m.k = "Event" /\ m.e = event /\ ~IsEventAnnounce(m)
      /\ told[t] = 2 => m.k = "Announce" /\ m.e = event /\ m.left = left
      /\ told[t] = 3 => m.k = "Event" /\ ~IsEventAnnounce(m)
  <2>1. event \in Event /\ left \in LeftValues /\ "Empty" \in Event
    BY Zenon, <1>0 DEF TorrentTyped, Event
  <2>2. /\ EventMessages(event)[1] = [k |-> "Left", left |-> left]
        /\ EventMessages(event)[2] = [k |-> "Event", e |-> event]
        /\ EventMessages(event)[3] = [k |-> "Announce", e |-> event, left |-> left]
        /\ EventMessages(event)[4] = [k |-> "Event", e |-> "Empty"]
    BY Zenon DEF EventMessages
  <2>3. CASE told[t] = 0
    BY <2>1, <2>2, <2>3, MessagesMade DEF IsEventAnnounce
  <2>4. CASE told[t] = 1
    BY <2>1, <2>2, <2>4, MessagesMade DEF IsEventAnnounce
  <2>5. CASE told[t] = 2
    BY <2>1, <2>2, <2>5, MessagesMade DEF IsEventAnnounce
  <2>6. CASE told[t] = 3
    BY <2>1, <2>2, <2>6, MessagesMade DEF IsEventAnnounce
  <2> QED
    BY <1>1, <2>3, <2>4, <2>5, <2>6
<1> HIDE DEF m
<1>5. /\ mailbox' \in [Tracker -> Seq(Messages)]
      /\ \A u \in Tracker \ {t} : mailbox'[u] = mailbox[u]
      /\ Alive(t) => mailbox'[t] = Append(mailbox[t], m)
  <2>1. mailbox \in [Tracker -> Seq(Messages)] /\ Append(mailbox[t], m) \in Seq(Messages)
    BY Zenon, <1>0, <1>4, AppendFacts DEF ActorTyped
  <2> QED
    BY Zenon, <1>2, <2>1
<1>6. /\ told' \in [Tracker -> 0..4] /\ \A u \in Tracker \ trackers' : told'[u] = 4
      /\ t \in trackers' => told'[t] = told[t] + 1
      /\ \A u \in Tracker \ {t} : u \in trackers' => told'[u] = told[u]
  <2>1. \A u \in Tracker : told[u] \in 0..4 /\ told[t] + 1 \in 0..4
    BY <1>0, <1>1 DEF TorrentTyped
  <2>2. \A u \in Tracker : told'[u] = IF u \notin trackers' THEN 4
                                      ELSE told[u] + (IF u = t THEN 1 ELSE 0)
    BY Zenon, <1>1
  <2>3. \A u \in Tracker : told'[u] \in 0..4
    BY <2>1, <2>2
  <2> QED
    BY <1>1, <2>1, <2>2, <2>3
<1>7. /\ missed' \in [Tracker -> BOOLEAN] /\ \A u \in Tracker \ {t} : missed'[u] = missed[u]
      /\ told[t] = 0 => ~missed'[t]
      /\ told[t] # 0 => missed'[t] = missed[t]
  <2>1. /\ missed[t] \in BOOLEAN /\ (missed[t] /\ told[t] > 0) \in BOOLEAN
        /\ missed \in [Tracker -> BOOLEAN]
    BY Zenon, <1>0 DEF TorrentTyped
  <2>2. told[t] # 0 <=> told[t] > 0
    BY <1>1
  <2> QED
    BY <1>1, <2>1, <2>2, Zenon
<1>8. ActorTyped' /\ TorrentTyped'
  BY Zenon, <1>0, <1>1, <1>3, <1>5, <1>6, <1>7 DEF ActorTyped, TorrentTyped
<1>9. OthersSame(t)
  BY Zenon, <1>1, <1>3, <1>5, <1>6, <1>7 DEF OthersSame, SameTorrent
<1>10. CASE ~Alive(t)
  <2>1. phase'[t] \notin Working
    BY Zenon, <1>1, <1>10 DEF Alive, Working
  <2>2. ParamsOK(t)'
    BY Zenon, <2>1 DEF ParamsOK, Working
  <2>3. TimerOK(t)'
    BY Zenon, <1>0, <1>1, <1>2, <1>10 DEF TimerOK, InMailbox
  <2> QED
    BY Zenon, <1>8, <1>9, <2>2, <2>3, OneTracker
<1>11. CASE Alive(t)
  <2>1. TimerOK(t)'
    BY Zenon, <1>0, <1>1, <1>4, <1>5, <1>11, TimerKeeps
  <2>2. BaseLeft(t)' = BaseLeft(t) /\ BaseEvent(t)' = BaseEvent(t)
    BY Zenon, <1>1 DEF BaseLeft, BaseEvent
  <2>3. phase[t] \in Working =>
          /\ ~missed[t] => Says(mailbox[t], Len(mailbox[t]), "Left", BaseLeft(t), left)
          /\ told[t] \in 1..3 => ~missed[t]
          /\ told[t] = 2 => Says(mailbox[t], Len(mailbox[t]), "Event", BaseEvent(t), event)
    BY Zenon, <1>0, <1>1 DEF ParamsOK, Working
  <2>4. AppendsRight(t, m)
    <3>0. told[t] = 0 \/ told[t] = 1 \/ told[t] = 2 \/ told[t] = 3
      BY <1>1
    <3>1. CASE told[t] = 0
      BY <1>1, <1>3, <1>4, <1>6, <1>7, <1>11, <2>3, <3>1 DEF AppendsRight
    <3>2. CASE told[t] = 1
      BY <1>1, <1>3, <1>4, <1>6, <1>7, <1>11, <2>3, <3>2 DEF AppendsRight
    <3>3. CASE told[t] = 2
      BY <1>1, <1>3, <1>4, <1>6, <1>7, <1>11, <2>3, <3>3 DEF AppendsRight
    <3>4. CASE told[t] = 3
      BY <1>1, <1>3, <1>4, <1>6, <1>7, <1>11, <2>3, <3>4 DEF AppendsRight
    <3> QED
      BY Zenon, <3>0, <3>1, <3>2, <3>3, <3>4
  <2>5. phase'[t] = phase[t] /\ mailbox'[t] = Append(mailbox[t], m)
    BY Zenon, <1>1, <1>5, <1>11
  <2>6. ParamsOK(t)'
    BY Zenon, <1>0, <1>4, <2>2, <2>4, <2>5, ParamsAppends
  <2> QED
    BY Zenon, <1>8, <1>9, <2>1, <2>6, OneTracker
<1> QED
  BY Zenon, <1>10, <1>11

\* What the torrent does to its trackers.
LEMMA InvTorrent ==
  ASSUME TrackersInv, TorrentStep
  PROVE  TrackersInv'
<1>0. WireInv /\ ClientTyped /\ AtRest /\ ActorsInv
  BY Zenon DEF TrackersInv
<1>1. ASSUME NEW t \in Tracker, Register(t)
      PROVE  TrackersInv'
  <2>1. ActorsInv' /\ phase'[t] = "starting" /\ \A u \in Tracker \ {t} : phase'[u] = phase[u]
    BY Zenon, <1>0, <1>1, ActorsRegister
  <2>2. UNCHANGED <<ready, conn, attempt, wireVars, service>>
    BY Zenon, <1>1 DEF Register, clientVars
  <2>3. WireInv' /\ ClientTyped'
    BY Zenon, <1>0, <2>2, WireKeeps DEF ClientTyped, wireVars
  <2>4. AtRest'
    BY Zenon, <1>0, <2>1, <2>2 DEF AtRest, Resting, wireVars, Tracker
  <2> QED
    BY Zenon, <2>1, <2>3, <2>4 DEF TrackersInv
<1>2. ASSUME UNCHANGED actorVars, ActorsInv'
      PROVE  TrackersInv'
  BY Zenon, <1>2, WireAndRest DEF TrackersInv, actorVars, clientVars
<1>3. ASSUME NEW t \in Tracker, RemoveTracker(t) \/ TellTracker(t) \/ Reannounce(t)
      PROVE  TrackersInv'
  <2>1. UNCHANGED actorVars
    BY Zenon, <1>3 DEF RemoveTracker, TellTracker, Reannounce
  <2> QED
    BY Zenon, <1>0, <1>2, <1>3, <2>1, ActorsTold, ActorsTellTracker
<1>4. ASSUME NEW e \in {"Started", "Completed", "Stopped"}, BeginEvent(e)
      PROVE  TrackersInv'
  <2>1. UNCHANGED actorVars
    BY Zenon, <1>4 DEF BeginEvent
  <2> QED
    BY Zenon, <1>0, <1>2, <1>4, <2>1, ActorsBegin
<1>5. ASSUME NEW l \in LeftValues, Progress(l)
      PROVE  TrackersInv'
  <2>1. UNCHANGED actorVars
    BY Zenon, <1>5 DEF Progress
  <2> QED
    BY Zenon, <1>0, <1>2, <1>5, <2>1, ActorsProgress
<1> QED
  BY Zenon, <1>1, <1>3, <1>4, <1>5 DEF TorrentStep


-----------------------------------------------------------------------------
(* The invariant, and what it says *)

\* Nothing is registered, open or told at the start.
LEMMA InvInit ==
  ASSUME TrackersInit
  PROVE  TrackersInv
<1>1. WireInv
  <2>1. /\ wait = [t \in Udp |-> NoWait] /\ answered = [t \in Udp |-> <<>>]
        /\ channels = <<>> /\ datagrams = {}
    BY Zenon DEF TrackersInit
  <2>2. /\ wait \in [Udp -> Waits] /\ \A t \in Udp : wait[t] = NoWait
        /\ answered \in [Udp -> Seq(Responses)] /\ \A t \in Udp : DOMAIN answered[t] = {}
    BY <2>1, NoWaitTyped
  <2>3. DOMAIN channels = {} /\ channels \in [DOMAIN channels -> Udp]
    BY <2>1
  <2>4. WireTyped
    BY Zenon, <2>1, <2>2, <2>3 DEF WireTyped
  <2>5. IdsDistinct /\ RegistryExact /\ AnswersMatch
    BY Zenon, <2>2, <2>3, NoWaitTyped DEF IdsDistinct, RegistryExact, AnswersMatch
  <2> QED
    BY Zenon, <2>4, <2>5 DEF WireInv
<1>2. ClientTyped /\ AtRest
  BY TrackersAssumption DEF TrackersInit, ClientTyped, AtRest
<1>3. MaxLeft \in LeftValues
  BY Zenon, TrackersAssumption DEF MaxLeft
<1>4. ActorTyped
  BY TrackersAssumption DEF TrackersInit, ActorTyped, Phases, Event
<1>5. TorrentTyped
  BY <1>3, TrackersAssumption DEF TrackersInit, TorrentTyped, Event, Tracker
<1>6. ASSUME NEW t \in Tracker
      PROVE  TimerOK(t) /\ ParamsOK(t)
  BY DEF TrackersInit, TimerOK, ParamsOK, NotArmed
<1> QED
  BY Zenon, <1>1, <1>2, <1>4, <1>5, <1>6 DEF TrackersInv, ActorsInv

\* A step that changes nothing.
LEMMA InvStutters ==
  ASSUME TrackersInv, UNCHANGED trackersVars
  PROVE  TrackersInv'
<1>0. ActorsInv /\ interval \in [Tracker -> Intervals \cup {Unset}]
  BY Zenon DEF TrackersInv, ActorsInv, ActorTyped
<1>1. UNCHANGED <<phase, ready, conn, interval, params, attempt, wireVars, service, armed,
                  mailbox, restarts, torrentVars>>
  BY Zenon DEF trackersVars, clientVars
<1>2. ActorsInv'
  BY Zenon, <1>0, <1>1, ActorsSame
<1> QED
  BY Zenon, <1>1, <1>2, WireAndRest DEF TrackersInv

\* The shared socket, the clients, the timers and the messages stay consistent,
\* whatever the trackers, the network and the torrent do.
THEOREM TrackersAlwaysConsistent == TrackersSpec => []TrackersInv
<1>1. TrackersInit => TrackersInv
  BY Zenon, InvInit
<1>2. TrackersInv /\ [TrackersNext]_trackersVars => TrackersInv'
  <2> SUFFICES ASSUME TrackersInv, [TrackersNext]_trackersVars PROVE TrackersInv'
    BY Zenon
  <2>1. ASSUME NEW t \in Tracker, ActorStep(t)
        PROVE  TrackersInv'
    <3>1. CASE t \in Udp /\ UdpStep(t)
      BY Zenon, <3>1, InvStartUdp, InvAnnounceUdp, InvAnnounceLoop, InvAnswered, InvTimeouts,
         InvStopUdp DEF UdpStep
    <3>2. CASE t \in Http /\ HttpStep(t)
      BY Zenon, <3>2, InvHttp
    <3>3. CASE Update(t) \/ Reported(t)
      BY Zenon, <3>3, InvUpdate, InvReported
    <3> QED
      BY Zenon, <2>1, <3>1, <3>2, <3>3 DEF ActorStep
  <2>2. CASE TorrentStep
    BY Zenon, <2>2, InvTorrent
  <2>3. CASE \/ \E t \in Tracker : TimerFires(t)
             \/ \E q \in datagrams : LoseDatagram(q) \/ ReceiveDatagram(q)
             \/ \E t \in Udp : Expire(t)
    BY Zenon, <2>3, InvAround
  <2>4. CASE UNCHANGED trackersVars
    BY Zenon, <2>4, InvStutters
  <2> QED
    BY Zenon, <2>1, <2>2, <2>3, <2>4 DEF TrackersNext
<1> QED
  BY <1>1, <1>2, PTL DEF TrackersSpec

\* The registry of the shared UDP socket holds exactly the requests that wait
\* for an answer, and a client only ever looks at the answer to its own request
\* (tracker/udp.rs, TransactionRegistration and send_message).
THEOREM TransactionsAlwaysSound == TrackersSpec => []TransactionsSound
<1>1. TrackersInv => TransactionsSound
  <2> SUFFICES ASSUME TrackersInv PROVE TransactionsSound
    BY Zenon
  <2>1. WireTyped /\ ClientTyped /\ ActorTyped /\ TorrentTyped /\ RegistryExact /\ AnswersMatch
    BY Zenon DEF TrackersInv, WireInv, ActorsInv
  <2>2. /\ \A t \in Udp : \A i \in DOMAIN answered[t] : answered[t][i] \in Responses
        /\ \A t \in Tracker : \A i \in DOMAIN mailbox[t] : mailbox[t][i] \in Messages
        /\ \A i \in DOMAIN channels : channels[i] \in Udp
    BY <2>1 DEF WireTyped, ActorTyped
  <2>3. TrackersTypeOK
    BY Zenon, <2>1, <2>2
    DEF TrackersTypeOK, WireTyped, ClientTyped, ActorTyped, TorrentTyped, Waits, Phases
  <2> QED
    BY Zenon, <2>1, <2>3 DEF TransactionsSound
<1> QED
  BY <1>1, TrackersAlwaysConsistent, PTL

\* An idle tracker has its next announce ahead of it, within the bounds of the
\* settings; a stopped one has neither timer nor request; and a tracker that
\* has handled its messages reports the torrent's progress (tracker/actor.rs,
\* schedule_next_announce and on_stop; torrent/swarm.rs, update_trackers).
THEOREM AnnouncesAlwaysSound == TrackersSpec => []AnnouncesSound
<1>1. TrackersInv => AnnouncesSound
  <2> SUFFICES ASSUME TrackersInv PROVE AnnouncesSound
    BY Zenon
  <2>1. AtRest /\ ActorTyped /\ TorrentTyped /\ \A t \in Tracker : TimerOK(t) /\ ParamsOK(t)
    BY Zenon DEF TrackersInv, ActorsInv
  <2>2. AnnounceDue /\ DelayInBounds
    BY Zenon, <2>1 DEF AnnounceDue, DelayInBounds, TimerOK
  <2>3. StoppedIsQuiet
    BY Zenon, <2>1 DEF StoppedIsQuiet, TimerOK, AtRest, Resting, Alive, ActorTyped, Phases
  <2>4. ASSUME NEW t \in trackers, phase[t] = "idle", mailbox[t] = <<>>, ~missed[t]
        PROVE  params[t].left = left
    <3>1. t \in Tracker
      BY Zenon, <2>1 DEF TorrentTyped
    <3>2. Says(mailbox[t], Len(mailbox[t]), "Left", params[t].left, left)
      BY Zenon, <2>1, <2>4, <3>1 DEF ParamsOK, BaseLeft, Beginning, Working
    <3>3. Sets(mailbox[t], Len(mailbox[t]), "Left") = {}
      BY <2>4 DEF Sets
    <3> QED
      BY Zenon, <3>2, <3>3 DEF Says
  <2> QED
    BY Zenon, <2>2, <2>3, <2>4 DEF AnnouncesSound, LeftReported
<1> QED
  BY <1>1, TrackersAlwaysConsistent, PTL

\* The Announce of a start, stop or completion goes out with its own event and
\* with the progress of its moment (torrent/actor.rs, announce_tracker_event).
THEOREM EventsAlwaysAnnounced == TrackersSpec => EventIsAnnounced
<1> DEFINE A == \A t \in Tracker :
                  /\ phase[t] = "idle" /\ mailbox[t] # <<>> /\ mailbox'[t] = Tail(mailbox[t])
                  /\ Head(mailbox[t]).k = "Announce" /\ Head(mailbox[t]).e # "timer"
                  => /\ params[t].event = Head(mailbox[t]).e
                     /\ params[t].left = Head(mailbox[t]).left
<1>1. TrackersInv => A
  <2> SUFFICES ASSUME TrackersInv, NEW t \in Tracker, phase[t] = "idle", mailbox[t] # <<>>,
                      Head(mailbox[t]).k = "Announce", Head(mailbox[t]).e # "timer"
               PROVE  /\ params[t].event = Head(mailbox[t]).e
                      /\ params[t].left = Head(mailbox[t]).left
    BY Zenon
  <2>1. mailbox[t] \in Seq(Messages) /\ ParamsOK(t)
    BY Zenon DEF TrackersInv, ActorsInv, ActorTyped
  <2>2. 1 \in DOMAIN mailbox[t] /\ Head(mailbox[t]) = mailbox[t][1]
    BY <2>1, TailFacts
  <2>3. /\ Says(mailbox[t], 1, "Event", params[t].event, mailbox[t][1].e)
        /\ Says(mailbox[t], 1, "Left", params[t].left, mailbox[t][1].left)
    BY Zenon, <2>1, <2>2 DEF ParamsOK, BaseEvent, BaseLeft, Beginning, Working, IsEventAnnounce
  <2>4. Sets(mailbox[t], 1, "Event") = {} /\ Sets(mailbox[t], 1, "Left") = {}
    BY <2>2 DEF Sets
  <2> QED
    BY Zenon, <2>2, <2>3, <2>4 DEF Says
<1>2. TrackersInv /\ [TrackersNext]_trackersVars => [A]_trackersVars
  BY Zenon, <1>1
<1> QED
  BY <1>2, TrackersAlwaysConsistent, PTL DEF TrackersSpec, EventIsAnnounced


=============================================================================
