------------------------------ MODULE Channels ------------------------------
(***************************************************************************)
(* The path of chat messages through the process: the adapter of           *)
(* channels/feishu.py with its websocket thread and its cache of message   *)
(* ids, the two queues of channels/bus.py, the bridge of                   *)
(* channels/bridge.py that handles one message at a time, the dispatcher   *)
(* of channels/manager.py, and the requests of api/app.py that connect,    *)
(* disconnect and reload the channel.  A reload makes a new manager with   *)
(* an adapter of its own; two reloads may overlap.  What handling a        *)
(* message means, the turn of the agent, is in Triggers.                   *)
(*                                                                         *)
(* There is one channel with one chat, and the messages that reach the     *)
(* adapter are those of a sender it allows, with some text.                *)
(***************************************************************************)
EXTENDS Integers, Sequences, FiniteSets, SequencesExt

CONSTANTS
    Chat,             \* the messages users send, by id
    CacheSize,        \* how many ids an adapter remembers (1000)
    Reloaders,        \* the requests that reload the channels
    MaxManagers,      \* bound
    MaxDeliveries,    \* bound: how often the platform delivers a message
    MaxConnects,      \* bound: requests to connect and to disconnect
    None

ASSUME ChannelAssumption ==
    /\ CacheSize \in Nat \ {0}
    /\ {MaxManagers, MaxDeliveries, MaxConnects} \subseteq Nat
    /\ None \notin Chat

VARIABLES
    manager,      \* the managers made so far; the last one is channel_manager
    reload,       \* which manager each reload has stopped, or 0
    inbound, outbound,      \* the queues of ChannelBus
    bridge,       \* the message the bridge handles, or None
    delivered,    \* how often the platform delivered each message
    connects

channels == <<manager, reload, inbound, outbound, bridge, delivered, connects>>

\* start_all of a manager whose channel is enabled: its dispatcher waits, and
\* the adapter's task has started a thread.
Started == [task |-> TRUE, running |-> TRUE, threads |-> 1, seen |-> <<>>,
            dispatcher |-> "waiting", message |-> None]

\* A manager without channels starts nothing.
NoChannel == [task |-> FALSE, running |-> FALSE, threads |-> 0, seen |-> <<>>,
              dispatcher |-> "none", message |-> None]

Current  == Len(manager)
Enabled(m) == manager[m] # NoChannel

ChannelsInit ==
    /\ manager = <<Started>>
    /\ reload = [q \in Reloaders |-> 0]
    /\ inbound = <<>> /\ outbound = <<>>
    /\ bridge = None
    /\ delivered = [c \in Chat |-> 0]
    /\ connects = 0

-----------------------------------------------------------------------------
(* The adapter.                                                            *)

\* The oldest ids are forgotten.
Remember(seen, c) ==
    IF Len(seen) < CacheSize THEN Append(seen, c) ELSE Append(Tail(seen), c)

\* The platform gives a message to a thread, which hands it to the loop of the
\* application: a thread that outlived stop() does so too.
Deliver(m, c) ==
    /\ manager[m].threads > 0
    /\ delivered[c] < MaxDeliveries
    /\ delivered' = [delivered EXCEPT ![c] = @ + 1]
    /\ IF c \in ToSet(manager[m].seen)
       THEN UNCHANGED <<manager, inbound>>
       ELSE /\ manager' = [manager EXCEPT ![m].seen = Remember(@, c)]
            /\ inbound' = Append(inbound, c)
    /\ UNCHANGED <<reload, outbound, bridge, connects>>

\* The loop of a thread that is no longer to run ends at last.
ThreadEnds(m) ==
    /\ manager[m].threads > 0 /\ ~manager[m].running
    /\ manager' = [manager EXCEPT ![m].threads = @ - 1]
    /\ UNCHANGED <<reload, inbound, outbound, bridge, delivered, connects>>

-----------------------------------------------------------------------------
(* The manager.                                                            *)

\* FeishuChannel.stop and the end of its task.  stop() waits for the thread, but
\* not for longer than its timeout.
Stopped(row, threads) == [row EXCEPT !.task = FALSE, !.running = FALSE, !.threads = threads]

Ask == connects < MaxConnects /\ connects' = connects + 1

\* connect_channel, unless its task still runs.
Connect ==
    /\ Enabled(Current) /\ ~manager[Current].task
    /\ Ask
    /\ manager' = [manager EXCEPT ![Current] = [@ EXCEPT !.task = TRUE, !.running = TRUE,
                                                         !.threads = @ + 1]]
    /\ UNCHANGED <<reload, inbound, outbound, bridge, delivered>>

Disconnect ==
    /\ Enabled(Current)
    /\ Ask
    /\ \E threads \in {0, manager[Current].threads} :
          manager' = [manager EXCEPT ![Current] = Stopped(@, threads)]
    /\ UNCHANGED <<reload, inbound, outbound, bridge, delivered>>

\* _reload_channels_runtime up to the end of stop_all.  The message its
\* dispatcher had taken is in no queue any more.
StopAll(q) ==
    /\ reload[q] = 0 /\ Current < MaxManagers
    /\ reload' = [reload EXCEPT ![q] = Current]
    /\ \E threads \in {0, manager[Current].threads} :
          manager' = [manager EXCEPT ![Current] = [Stopped(@, threads) EXCEPT !.dispatcher = "none",
                                                                              !.message = None]]
    /\ UNCHANGED <<inbound, outbound, bridge, delivered, connects>>

\* A new manager takes the place of whichever is there by then; the
\* configuration may have disabled the channel.
StartAll(q) ==
    /\ reload[q] # 0
    /\ reload' = [reload EXCEPT ![q] = 0]
    /\ manager' \in {Append(manager, Started), Append(manager, NoChannel)}
    /\ UNCHANGED <<inbound, outbound, bridge, delivered, connects>>

-----------------------------------------------------------------------------
(* The bridge and the dispatcher.                                          *)

Take ==
    /\ bridge = None /\ inbound # <<>>
    /\ bridge' = Head(inbound) /\ inbound' = Tail(inbound)
    /\ UNCHANGED <<manager, reload, outbound, delivered, connects>>

\* _handle_one returned, with a reply for the chat, or raised; then the loop of
\* the bridge goes on without the message.
HandledMessage(answered) ==
    /\ outbound' = IF answered THEN Append(outbound, bridge) ELSE outbound
    /\ bridge' = None

Dispatch(m) ==
    /\ manager[m].dispatcher = "waiting" /\ outbound # <<>>
    /\ manager' = [manager EXCEPT ![m] = [@ EXCEPT !.dispatcher = "sending",
                                                   !.message = Head(outbound)]]
    /\ outbound' = Tail(outbound)
    /\ UNCHANGED <<reload, inbound, bridge, delivered, connects>>

\* send() returned, whether or not the platform took the message.
Send(m) ==
    /\ manager[m].dispatcher = "sending"
    /\ manager' = [manager EXCEPT ![m] = [@ EXCEPT !.dispatcher = "waiting", !.message = None]]
    /\ UNCHANGED <<reload, inbound, outbound, bridge, delivered, connects>>

\* The process starts again; the queues, the caches and the threads are gone.
ChannelsRestart ==
    /\ manager' = <<Started>>
    /\ reload' = [q \in Reloaders |-> 0]
    /\ inbound' = <<>> /\ outbound' = <<>> /\ bridge' = None
    /\ UNCHANGED <<delivered, connects>>
=============================================================================
