------------------------------- MODULE MCLive -------------------------------
(***************************************************************************)
(* The engine and its live observation, checked in one run: a publisher    *)
(* and its subscribers, the scopes of a torrent's peers, and the engine    *)
(* under what two clients ask of it.  A behaviour moves one part and       *)
(* leaves the others at rest, so the run covers the sum of them.           *)
(***************************************************************************)
EXTENDS LiveStream, PeerScopes, Engine

CONSTANTS h1, h2, c1, c2

New(h) == Request("create", <<Item(h, FALSE, FALSE)>>)
Restore(h) == Request("create", <<Item(h, TRUE, TRUE)>>)
Get(h) == Request("get", <<Item(h, FALSE, FALSE)>>)
Remove(h) == Request("remove", <<Item(h, FALSE, FALSE)>>)
RestoreAll(s) == Request("restore_all", s)
StartAll == Request("start_all", <<>>)
Snapshot == Request("snapshot", <<>>)
Close == Request("shutdown", <<>>)
Both == <<Item(h1, TRUE, FALSE), Item(h2, TRUE, TRUE)>>
Twice == <<Item(h1, TRUE, FALSE), Item(h1, TRUE, FALSE)>>

Script(s1, s2) == [c \in Clients |-> IF c = c1 THEN s1 ELSE s2]

MCScripts ==
    {Script(<<New(h1), Remove(h1), New(h1)>>, <<Remove(h1), Get(h1)>>),
     Script(<<Restore(h1), Restore(h1), Remove(h1)>>, <<Get(h1)>>),
     Script(<<RestoreAll(Both), RestoreAll(Twice)>>, <<StartAll, Snapshot>>),
     Script(<<New(h1), Remove(h1)>>, <<New(h2), Close>>)}

\* A restore that fails and one that cannot.
RestoreScripts == {Script(<<RestoreAll(Both)>>, <<RestoreAll(Twice)>>)}

VARIABLE part   \* the part this behaviour is about

liveVars == <<part, streamVars, peerScopeVars, engineVars>>

MCInit ==
    /\ part \in {"stream", "peers", "engine"}
    /\ StreamInit /\ PeerScopesInit /\ EngineInit
    /\ part # "engine" => script = CHOOSE s \in Scripts : TRUE

MCNext ==
    /\ UNCHANGED part
    /\ \/ part = "stream" /\ StreamNext /\ UNCHANGED <<peerScopeVars, engineVars>>
       \/ part = "peers" /\ PeerScopesNext /\ UNCHANGED <<streamVars, engineVars>>
       \/ part = "engine" /\ EngineNext /\ UNCHANGED <<streamVars, peerScopeVars>>

\* The fairness of each part.  Only the engine has steps to take in its first
\* state, so only its fairness has to say that it is the part that moves.
MCFairness ==
    /\ StreamFairness /\ PeerScopesFairness
    /\ WF_engineVars(part = "engine" /\ EngineTask)
    /\ WF_engineVars(part = "engine" /\ ScopeRemoval)
    /\ WF_engineVars(part = "engine" /\ TorrentTask)
    /\ SF_engineVars(part = "engine" /\ \E a \in Actors : Supervise(a))
    /\ \A c \in Clients : /\ WF_engineVars(part = "engine" /\ ClientTask(c))
                          /\ SF_engineVars(part = "engine" /\ (Handle(c) \/ Shutdown(c)))

MCSpec == MCInit /\ [][MCNext]_liveVars /\ MCFairness
=============================================================================
