------------------------------- MODULE PeerIdle -------------------------------
(***************************************************************************)
(* The idle timer of PeerActor::next at both ends of one connection, each  *)
(* end running this program.  Time advances in ticks; an end that has a    *)
(* keepalive or a disconnect due does it before the next tick, and a       *)
(* message in ages arrives within Delay ticks.                           *)
(***************************************************************************)
EXTENDS Naturals, FiniteSetsExt

CONSTANTS Keepalive,   \* keepalive_timeout in ticks
          Disconnect,  \* disconnect_timeout in ticks
          Delay,       \* the longest a message is in ages
          MaxTalk      \* other messages the two ends send

ASSUME IdleAssumption == /\ Keepalive \in Nat \ {0} /\ Disconnect \in Nat \ {0}
                         /\ Delay \in Nat /\ MaxTalk \in Nat

Ends == {"here", "there"}
Other(e) == CHOOSE o \in Ends : o # e

VARIABLES linked,      \* the connection, as each end sees it
          heard,     \* last_message_received is Some
          idle,      \* time since it
          kept,      \* a keepalive has been sent since (last_sent >= last_received)
          ages,    \* how long the messages from an end have been on their way
          vanished,      \* ends that stopped without closing it
          talk       \* messages left to send

idleVars == <<linked, heard, idle, kept, ages, vanished, talk>>

IdleInit ==
  /\ linked = [e \in Ends |-> TRUE] /\ heard = [e \in Ends |-> FALSE]
  /\ idle = [e \in Ends |-> 0] /\ kept = [e \in Ends |-> FALSE]
  /\ ages = [e \in Ends |-> {}] /\ vanished = {} /\ talk = MaxTalk

Running(e) == linked[e] /\ e \notin vanished

\* The two tests at the head of the loop, on idle = last_received.elapsed().
DisconnectDue(e) == Running(e) /\ idle[e] >= Disconnect
KeepaliveDue(e) == Running(e) /\ idle[e] >= Keepalive /\ ~kept[e] /\ ~DisconnectDue(e)

\* Nothing arrives at an end that is gone.
Flown(e) == [ages EXCEPT ![e] = IF Other(e) \in vanished THEN {} ELSE @ \cup {0}]

\* The stream closes at both ends; the other end reads the end of the stream.
SignalStop(e) ==
  /\ DisconnectDue(e)
  /\ linked' = [o \in Ends |-> o \in vanished /\ linked[o]]
  /\ ages' = [o \in Ends |-> {}]
  /\ UNCHANGED <<heard, idle, kept, vanished, talk>>

\* A timer that takes its own keepalive for activity.
SendKeepAliveAsActivity(e) ==
  /\ KeepaliveDue(e)
  /\ idle' = [idle EXCEPT ![e] = 0]
  /\ ages' = Flown(e)
  /\ UNCHANGED <<linked, heard, kept, vanished, talk>>
SendKeepAlive(e) ==
  /\ KeepaliveDue(e)
  /\ kept' = [kept EXCEPT ![e] = TRUE]
  /\ ages' = Flown(e)
  /\ UNCHANGED <<linked, heard, idle, vanished, talk>>

\* A handler that counts only messages with a payload.
MessageArrivesUncounted(e) ==
  /\ Running(e) /\ ages[Other(e)] # {}
  /\ ages' = [ages EXCEPT ![Other(e)] = @ \ {Max(@)}]
  /\ heard' = [heard EXCEPT ![e] = TRUE]
  /\ UNCHANGED <<linked, idle, kept, vanished, talk>>
\* The handler of a wire message: update_last_message_received.
MessageArrives(e) ==
  /\ Running(e) /\ ages[Other(e)] # {}
  /\ ages' = [ages EXCEPT ![Other(e)] = @ \ {Max(@)}]
  /\ heard' = [heard EXCEPT ![e] = TRUE]
  /\ idle' = [idle EXCEPT ![e] = 0]
  /\ kept' = [kept EXCEPT ![e] = FALSE]
  /\ UNCHANGED <<linked, vanished, talk>>

\* Any other message an end has to send (outside this module).
Talk(e) ==
  /\ Running(e) /\ talk > 0
  /\ talk' = talk - 1
  /\ ages' = Flown(e)
  /\ UNCHANGED <<linked, heard, idle, kept, vanished>>

\* A host or a network path fails; nothing is closed.
Vanish(e) ==
  /\ linked[e] /\ vanished = {}
  /\ vanished' = {e}
  /\ ages' = [ages EXCEPT ![e] = {}, ![Other(e)] = {}]
  /\ UNCHANGED <<linked, heard, idle, kept, talk>>

\* Without a message received, last_received is taken as now on every turn.
Tick ==
  /\ \E e \in Ends : Running(e)
  /\ \A e \in Ends : ~DisconnectDue(e) /\ ~KeepaliveDue(e)
  /\ \A e \in Ends : \A age \in ages[e] : age < Delay
  /\ idle' = [e \in Ends |-> IF heard[e] /\ Running(e) THEN idle[e] + 1 ELSE idle[e]]
  /\ ages' = [e \in Ends |-> {age + 1 : age \in ages[e]}]
  /\ UNCHANGED <<linked, heard, kept, vanished, talk>>

\* The swarm connects the two ends again.
IdleReconnect ==
  /\ \A e \in Ends : ~linked[e] \/ e \in vanished
  /\ linked' = [e \in Ends |-> TRUE] /\ heard' = [e \in Ends |-> FALSE]
  /\ idle' = [e \in Ends |-> 0] /\ kept' = [e \in Ends |-> FALSE]
  /\ ages' = [e \in Ends |-> {}] /\ vanished' = {} /\ talk' = MaxTalk

IdleNext ==
  \/ \E e \in Ends : SignalStop(e) \/ SendKeepAlive(e) \/ MessageArrives(e) \/ Talk(e) \/ Vanish(e)
  \/ Tick \/ IdleReconnect
IdleFairness == WF_idleVars(Tick) /\ \A e \in Ends : WF_idleVars(SignalStop(e))
                  /\ WF_idleVars(SendKeepAlive(e)) /\ WF_idleVars(MessageArrives(e))
IdleSpec == IdleInit /\ [][IdleNext]_idleVars /\ IdleFairness
----------------------------------------------------------------------------
\* The variables have their types, and no deadline is overrun.
IdleTypeOK ==
  /\ linked \in [Ends -> BOOLEAN] /\ heard \in [Ends -> BOOLEAN]
  /\ idle \in [Ends -> 0..Disconnect] /\ kept \in [Ends -> BOOLEAN]
  /\ ages \in [Ends -> SUBSET (0..Delay)] /\ vanished \subseteq Ends /\ talk \in 0..MaxTalk

(***************************************************************************)
(* An end that is itself left without messages is not dropped: whoever     *)
(* reaches the disconnect deadline while its peer runs has been talking to *)
(* that peer, which had no reason to send a keepalive.                     *)
(***************************************************************************)
QuietNotDropped ==
  \A e \in Ends : DisconnectDue(e) /\ vanished = {} => idle[Other(e)] <= Keepalive + Delay

(***************************************************************************)
(* A keepalive keeps the connection alive: while both ends run, neither    *)
(* reaches its disconnect deadline.                                        *)
(***************************************************************************)
ResponsiveStays == \A e \in Ends : DisconnectDue(e) => vanished # {}

(***************************************************************************)
(* An end that has heard from its peer gives the connection up after the   *)
(* peer has vanished without closing it.                                   *)
(***************************************************************************)
VanishedDropped == \A e \in Ends : (heard[e] /\ Other(e) \in vanished) ~> ~(heard[e] /\ Running(e))

\* Deadlines are met in time, and never by the silence of an idle pair
\* (peer/actor.rs, next).
IdleSound == IdleTypeOK /\ QuietNotDropped
=============================================================================
