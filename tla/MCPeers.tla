------------------------------ MODULE MCPeers ------------------------------
(***************************************************************************)
(* A connection and the torrent behind it, checked in one run: the bytes   *)
(* on the wire, the two peer actors, their idle timers, the exchange of    *)
(* metadata, the torrent's lifecycle and the turns of its upload slots.    *)
(* A behaviour moves one part and leaves the others at rest, so the run    *)
(* covers the sum of them.                                                 *)
(***************************************************************************)
EXTENDS PeerWire, PeerSession, PeerIdle, PeerMetadata, TorrentLifecycle, Choking

VARIABLE part   \* the part this behaviour is about

Bytes20(b) == [i \in 1..20 |-> b]
MCHash == Bytes20(7)
Hello(magic, hash) ==
  <<"Handshake", magic, [i \in 1..8 |-> IF i = 6 THEN 16 ELSE 0], hash, Bytes20(9)>>
MCHandshakes == {Hello(MAGIC_STRING, MCHash), Hello(MAGIC_STRING, Bytes20(8)),
                 Hello(<<66, 105>>, MCHash)}

Key(n) == <<"s", [i \in 1..n |-> 96 + i]>>
Offer == << <<"d">>, Key(1), <<"d">>, Key(11), <<"n", 2>>, <<"e">>,
            Key(13), <<"n", 31235>>, <<"e">> >>
Data == << <<"d">>, Key(8), <<"n", 1>>, Key(5), <<"n", 0>>,
           <<"l">>, <<"n", 10>>, <<"e">>, <<"e">> >>
InfoDict == Bencode(<< <<"d">>, Key(4), <<"s", <<1, 2>> >>, <<"e">> >>)
BitVecs == {[i \in 1..n |-> i \in s] : n \in {0, 8, 9}, s \in {{}, {2, 3}, {1, 9}}}
MCScripts ==
  {<< <<"Bitfield", v>>, <<"Have", 258>> >> : v \in BitVecs}
    \cup {<< <<"KeepAlive">>, <<"Unchoke">>, <<"Port", <<26, 225>> >>,
             <<"Piece", 1, 16384, <<5, 0, 0>> >> >>,
          << <<"Extended", 0, Offer, <<>> >>, <<"KeepAlive">> >>,
          << <<"Extended", 2, Data, InfoDict>>, <<"Choke">> >>,
          << <<"Request", 0, 65536, 16384>>, <<"Cancel", 2147483647, 1, 255>>,
             <<"NotInterested">> >>,
          << <<"Extended", 3, <<>>, <<>> >>, <<"Interested">> >>}

Session(a, b, knowing, slots, stale) ==
  [has |-> [e \in Peers |-> IF e = "a" THEN a ELSE b], meta |-> knowing,
   chokes |-> slots, releases |-> stale]
MCSessions == {Session({2}, Parts, Peers, 1, 1), Session({}, Parts, Peers, 0, 0),
               Session({1}, {2}, Peers, 0, 0), Session({}, {1}, {"b"}, 0, 0)}

peersVars == <<part, wireVars, sessionVars, idleVars, metadataVars, lifecycleVars, chokingVars>>

MCInit ==
  /\ part \in {"wire", "session", "idle", "metadata", "lifecycle", "choking"}
  /\ PeerWireInit
  /\ part # "wire" => /\ hello = Hello(MAGIC_STRING, MCHash)
                      /\ script = << <<"Bitfield", <<>> >>, <<"Have", 258>> >>
  /\ SessionInit /\ (part # "session" => have["a"] = {1})
  /\ IdleInit /\ MetadataInit
  /\ LifecycleInit /\ (part # "lifecycle" => magnet)
  /\ ChokingInit /\ (part # "choking" => interested = {} /\ \A p \in Leecher : rate[p] = 0)

MCNext ==
  /\ UNCHANGED part
  /\ \/ /\ part = "wire" /\ PeerWireNext
        /\ UNCHANGED <<sessionVars, idleVars, metadataVars, lifecycleVars, chokingVars>>
     \/ /\ part = "session" /\ SessionNext
        /\ UNCHANGED <<wireVars, idleVars, metadataVars, lifecycleVars, chokingVars>>
     \/ /\ part = "idle" /\ IdleNext
        /\ UNCHANGED <<wireVars, sessionVars, metadataVars, lifecycleVars, chokingVars>>
     \/ /\ part = "metadata" /\ MetadataNext
        /\ UNCHANGED <<wireVars, sessionVars, idleVars, lifecycleVars, chokingVars>>
     \/ /\ part = "lifecycle" /\ LifecycleNext
        /\ UNCHANGED <<wireVars, sessionVars, idleVars, metadataVars, chokingVars>>
     \/ /\ part = "choking" /\ ChokingNext
        /\ UNCHANGED <<wireVars, sessionVars, idleVars, metadataVars, lifecycleVars>>

\* The fairness of each part's specification, while the part moves.
MCFairness ==
  /\ \A e \in Peers :
       /\ WF_sessionVars(part = "session" /\ OnStart(e))
       /\ WF_sessionVars(part = "session" /\ HandleWire(e))
       /\ WF_sessionVars(part = "session" /\ HandleMail(e))
       /\ SF_sessionVars(part = "session" /\ TorrentNeeds(e))
       /\ SF_sessionVars(part = "session" /\ GiveSlot(e))
  /\ WF_idleVars(part = "idle" /\ Tick)
  /\ \A e \in Ends : /\ WF_idleVars(part = "idle" /\ SignalStop(e))
                      /\ WF_idleVars(part = "idle" /\ SendKeepAlive(e))
                      /\ WF_idleVars(part = "idle" /\ MessageArrives(e))
  /\ WF_metadataVars(part = "metadata" /\ RemoteAnswers)
  /\ WF_metadataVars(part = "metadata" /\ HandleExtended)
  /\ WF_metadataVars(part = "metadata" /\ TorrentInfoBytes)
  /\ WF_lifecycleVars(part = "lifecycle" /\ BeforeRecv)
  /\ WF_lifecycleVars(part = "lifecycle" /\ Restart)
  /\ SF_lifecycleVars(part = "lifecycle" /\ Rechoke)
  /\ WF_lifecycleVars(part = "lifecycle" /\ \E t \in Timer : TimerFires(t))
  /\ ChokingFairness

MCSpec == MCInit /\ [][MCNext]_peersVars /\ MCFairness
=============================================================================
