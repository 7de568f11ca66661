------------------------------- MODULE Tasks -------------------------------
(***************************************************************************)
(* The three tasks of a session and the queues between them                *)
(* (network/swarm.rs, app/core.rs, main.rs; the channels of main).         *)
(*                                                                         *)
(*     interface --cmds--> AppCore --netCmds--> network task               *)
(*     interface <--events-- AppCore <--netEvents-- network task           *)
(*                                                                         *)
(* What the messages say is left out: a queue is the number of messages    *)
(* that wait in it, a handler of AppCore the list of queues it sends to.   *)
(* Every task awaits room in a queue that is full and does nothing else    *)
(* meanwhile.                                                              *)
(***************************************************************************)
EXTENDS Integers, Sequences

CONSTANTS
    Capacity,   \* of every channel; 256
    MaxSends    \* bound: messages that one handler sends

ASSUME TasksAssumption == Capacity \in Nat \ {0} /\ MaxSends \in Nat

Queues == {"cmds", "events", "netCmds", "netEvents"}

\* What one handler of AppCore sends, in order: requests to the network task and
\* events for the interface.
Handlers == UNION {[1 .. n -> {"netCmds", "events"}] : n \in 0 .. MaxSends}

VARIABLES
    waiting,    \* messages in each queue
    tui,        \* where run_tui_loop is; Gone when it has returned
    core,       \* where AppCore::run is; Over when shutdown has saved
    todo,       \* the sends left of AppCore's handler
    net,        \* whether run_event_loop awaits room for an event
    process     \* Down when main has returned

vars == <<waiting, tui, core, todo, net, process>>

Init ==
    /\ waiting = [q \in Queues |-> 0]
    /\ tui = "Drain"
    /\ core = "Ready" /\ todo = <<>>
    /\ net = "Ready"
    /\ process = "Up"

\* The receiver of a queue has been dropped, so that a send returns at once.
Closed(q) ==
    \/ q = "events" /\ tui = "Gone"
    \/ q \in {"cmds", "netEvents"} /\ core = "Over"

Full(q) == waiting[q] = Capacity
Blocked(q) == Full(q) /\ ~Closed(q)

\* One message more; none in a queue without receiver.
Filled(q) == waiting' = IF Closed(q) THEN waiting ELSE [waiting EXCEPT ![q] = @ + 1]

\* send().await on a bounded channel.
SendUnbounded(q) == Filled(q)                       \* mutant: unbounded channels
Send(q) == ~Blocked(q) /\ Filled(q)

\* recv() and try_recv()
Take(q) == waiting[q] > 0 /\ waiting' = [waiting EXCEPT ![q] = @ - 1]
-----------------------------------------------------------------------------
(* The network task: select! between the swarm and the commands *)

SwarmEvent ==
    /\ net = "Ready"
    /\ net' = "Sending"
    /\ UNCHANGED <<waiting, tui, core, todo, process>>

NetSend ==
    /\ net = "Sending"
    /\ Send("netEvents")
    /\ net' = "Ready"
    /\ UNCHANGED <<tui, core, todo, process>>

NetTakeLast ==                                      \* mutant: once the events are taken
    /\ net = "Ready" /\ waiting["netEvents"] = 0
    /\ Take("netCmds")
    /\ UNCHANGED <<tui, core, todo, net, process>>
NetTake ==
    /\ net = "Ready"
    /\ Take("netCmds")
    /\ UNCHANGED <<tui, core, todo, net, process>>
-----------------------------------------------------------------------------
(* AppCore: select! between commands, events, timers and the end *)

Shutdown == tui = "Gone" /\ waiting["cmds"] = 1     \* the last command

CoreCommandLast ==                                  \* mutant: a biased select!
    /\ core = "Ready" /\ ~Shutdown /\ waiting["netEvents"] = 0
    /\ Take("cmds")
    /\ core' = "Handling" /\ todo' \in Handlers
    /\ UNCHANGED <<tui, net, process>>
CoreCommand ==
    /\ core = "Ready" /\ ~Shutdown
    /\ Take("cmds")
    /\ core' = "Handling" /\ todo' \in Handlers
    /\ UNCHANGED <<tui, net, process>>

CoreEvent ==
    /\ core = "Ready"
    /\ Take("netEvents")
    /\ core' = "Handling" /\ todo' \in Handlers
    /\ UNCHANGED <<tui, net, process>>

\* republish_dht, or the check of the active room's lifetime
CoreTick ==
    /\ core = "Ready"
    /\ core' = "Handling" /\ todo' \in Handlers
    /\ UNCHANGED <<waiting, tui, net, process>>

\* One send of a handler, and of shutdown, which leaves the room.
CoreSend ==
    /\ todo # <<>>
    /\ Send(Head(todo))
    /\ todo' = Tail(todo)
    /\ UNCHANGED <<tui, core, net, process>>

HandlerEnds ==
    /\ core = "Handling" /\ todo = <<>>
    /\ core' = "Ready"
    /\ UNCHANGED <<waiting, tui, todo, net, process>>

\* The command Shutdown, or the signal of main once the interface is gone: neither is
\* looked at before a handler has ended.
Leaving == {<<>>, <<"netCmds", "events">>}
CoreShutdownAnyTime ==                              \* mutant: a handler is given up
    /\ core \in {"Ready", "Handling"} /\ tui = "Gone"
    /\ core' = "Closing" /\ todo' \in Leaving
    /\ UNCHANGED <<waiting, tui, net, process>>
CoreShutdown ==
    /\ core = "Ready" /\ tui = "Gone"
    /\ core' = "Closing" /\ todo' \in Leaving
    /\ UNCHANGED <<waiting, tui, net, process>>

\* rooms.enc and friends.enc are saved last.
CoreSaves ==
    /\ core = "Closing" /\ todo = <<>>
    /\ core' = "Over"
    /\ UNCHANGED <<waiting, tui, todo, net, process>>
-----------------------------------------------------------------------------
(* The interface *)

\* while let Ok(event) = app_rx.try_recv()
Drain ==
    /\ tui = "Drain"
    /\ \/ Take("events") /\ UNCHANGED tui
       \/ waiting["events"] = 0 /\ tui' = "Key" /\ UNCHANGED waiting
    /\ UNCHANGED <<core, todo, net, process>>

\* No key within 50 ms, or one that sends nothing.
NoCommand ==
    /\ tui = "Key"
    /\ tui' = "Drain"
    /\ UNCHANGED <<waiting, core, todo, net, process>>

\* A key that sends a command, or quits.
Key(state) ==
    /\ tui = "Key"
    /\ tui' = state
    /\ UNCHANGED <<waiting, core, todo, net, process>>

TuiSends ==
    /\ tui \in {"Sending", "Quitting"}
    /\ Send("cmds")
    /\ tui' = IF tui = "Quitting" THEN "Gone" ELSE "Drain"
    /\ UNCHANGED <<core, todo, net, process>>

\* main returns after the loop of the interface, and the runtime drops the tasks.
MainEnds ==
    /\ tui = "Gone"
    /\ process' = "Down"
    /\ UNCHANGED <<waiting, tui, core, todo, net>>

Network   == SwarmEvent \/ NetSend \/ NetTake
AppCore   == CoreCommand \/ CoreEvent \/ CoreTick \/ CoreSend \/ HandlerEnds
             \/ CoreShutdown \/ CoreSaves
Interface == Drain \/ NoCommand \/ Key("Sending") \/ Key("Quitting") \/ TuiSends

Next == process = "Up" /\ (Network \/ AppCore \/ Interface \/ MainEnds)

Spec == Init /\ [][Next]_vars

Up(A) == process = "Up" /\ A

\* Tasks run when they can; select! takes its ready branches in random order, so none of
\* them is passed over for ever.  Nothing is assumed of the swarm, timers and keys.
FairSpec ==
    /\ Spec
    /\ WF_vars(Up(NetSend)) /\ SF_vars(Up(NetTake))
    /\ WF_vars(Up(CoreSend)) /\ WF_vars(Up(HandlerEnds))
    /\ SF_vars(Up(CoreCommand)) /\ SF_vars(Up(CoreEvent)) /\ SF_vars(Up(CoreShutdown))
    /\ WF_vars(Up(CoreSaves))
    /\ WF_vars(Up(Drain)) /\ WF_vars(Up(NoCommand)) /\ WF_vars(Up(TuiSends))
    /\ WF_vars(Up(MainEnds))
-----------------------------------------------------------------------------
(* Properties *)

\* No queue exceeds its capacity, and only a handler under way has sends left.
TypeOK ==
    /\ waiting \in [Queues -> 0 .. Capacity]
    /\ tui \in {"Drain", "Key", "Sending", "Quitting", "Gone"}
    /\ core \in {"Ready", "Handling", "Closing", "Over"}
    /\ todo \in Seq({"netCmds", "events"})
    /\ todo # <<>> => core \in {"Handling", "Closing"}
    /\ net \in {"Ready", "Sending"}
    /\ process \in {"Up", "Down"}
    /\ core \in {"Closing", "Over"} => tui = "Gone"

\* Two tasks that await room in the queue which the other one is to empty.
NetLock ==
    /\ todo # <<>> /\ Head(todo) = "netCmds" /\ Blocked("netCmds")
    /\ net = "Sending" /\ Blocked("netEvents")
TuiLock ==
    /\ todo # <<>> /\ Head(todo) = "events" /\ Blocked("events")
    /\ tui \in {"Sending", "Quitting"} /\ Blocked("cmds")

\* Two tasks that wait for each other do so until the process ends: no event, timer
\* or key, and no wish to quit, ends it (the signal of main is looked at between
\* handlers only).
LockIsForGood == [][(NetLock => NetLock') /\ (TuiLock => TuiLock')]_vars

\* Nothing else keeps a handler waiting: it ends, unless two neighbours wait for each
\* other.  Three tasks never wait in a ring.
HandlersEnd ==
    todo # <<>> ~> todo = <<>> \/ NetLock \/ TuiLock \/ process = "Down"

\* The interface, which shows nothing while its command waits for room, goes on unless
\* two neighbours wait for each other, be they the other two.
InterfaceGoesOn ==
    tui \in {"Sending", "Quitting"}
    ~> tui \notin {"Sending", "Quitting"} \/ NetLock \/ TuiLock
=============================================================================
