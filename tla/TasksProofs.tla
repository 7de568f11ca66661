---------------------------- MODULE TasksProofs ----------------------------
(***************************************************************************)
(* Theorems about Tasks, for channels of any capacity and handlers of any  *)
(* number of sends.                                                        *)
(***************************************************************************)
EXTENDS Tasks, SequenceTheorems, TLAPS

LEMMA SendType ==
    ASSUME TypeOK, NEW q \in Queues, Send(q)
    PROVE  waiting' \in [Queues -> 0 .. Capacity]
BY TasksAssumption DEF TypeOK, Send, Blocked, Full, Filled

LEMMA TakeType ==
    ASSUME TypeOK, NEW q \in Queues, Take(q)
    PROVE  waiting' \in [Queues -> 0 .. Capacity]
BY TasksAssumption DEF TypeOK, Take

LEMMA HandlersType == Handlers \subseteq Seq({"netCmds", "events"})
BY TasksAssumption DEF Handlers

LEMMA LeavingType == Leaving \subseteq Seq({"netCmds", "events"})
BY DEF Leaving

\* Every reachable state is type-correct: no queue exceeds its capacity, only a handler
\* under way has sends left, and AppCore ends only after the interface.
THEOREM TypeCorrect == Spec => []TypeOK
<1>1. Init => TypeOK
  BY TasksAssumption DEF Init, TypeOK
<1>2. TypeOK /\ [Next]_vars => TypeOK'
  <2> SUFFICES ASSUME TypeOK, [Next]_vars PROVE TypeOK'
    OBVIOUS
  <2> USE DEF Queues
  <2>1. CASE SwarmEvent
    BY <2>1 DEF SwarmEvent, TypeOK
  <2>2. CASE NetSend
    BY <2>2, SendType DEF NetSend, TypeOK
  <2>3. CASE NetTake
    BY <2>3, TakeType DEF NetTake, TypeOK
  <2>4. CASE CoreCommand
    BY <2>4, TakeType, HandlersType DEF CoreCommand, TypeOK
  <2>5. CASE CoreEvent
    BY <2>5, TakeType, HandlersType DEF CoreEvent, TypeOK
  <2>6. CASE CoreTick
    BY <2>6, HandlersType DEF CoreTick, TypeOK
  <2>7. CASE CoreSend
    <3>1. Head(todo) \in {"netCmds", "events"} /\ Tail(todo) \in Seq({"netCmds", "events"})
      BY <2>7 DEF CoreSend, TypeOK
    <3> QED BY <2>7, <3>1, SendType DEF CoreSend, TypeOK
  <2>8. CASE HandlerEnds
    BY <2>8 DEF HandlerEnds, TypeOK
  <2>9. CASE CoreShutdown
    BY <2>9, LeavingType DEF CoreShutdown, TypeOK
  <2>10. CASE CoreSaves
    BY <2>10 DEF CoreSaves, TypeOK
  <2>11. CASE Drain
    BY <2>11, TakeType DEF Drain, TypeOK
  <2>12. CASE NoCommand
    BY <2>12 DEF NoCommand, TypeOK
  <2>13. ASSUME NEW s \in {"Sending", "Quitting"}, Key(s) PROVE TypeOK'
    BY <2>13 DEF Key, TypeOK
  <2>14. CASE TuiSends
    BY <2>14, SendType DEF TuiSends, TypeOK
  <2>15. CASE MainEnds
    BY <2>15 DEF MainEnds, TypeOK
  <2>16. CASE UNCHANGED vars
    BY <2>16 DEF vars, TypeOK
  <2> QED BY <2>1, <2>2, <2>3, <2>4, <2>5, <2>6, <2>7, <2>8, <2>9, <2>10, <2>11, <2>12,
             <2>13, <2>14, <2>15, <2>16 DEF Next, Network, AppCore, Interface
<1> QED BY <1>1, <1>2, PTL DEF Spec

\* Two tasks that wait for each other do so until the process ends: AppCore's handler
\* cannot send, and its partner neither sends nor takes.
THEOREM LocksAreForGood == Spec => LockIsForGood
<1>1. TypeOK /\ [Next]_vars => (NetLock => NetLock') /\ (TuiLock => TuiLock')
  <2> SUFFICES ASSUME TypeOK, [Next]_vars PROVE (NetLock => NetLock') /\ (TuiLock => TuiLock')
    OBVIOUS
  <2>1. NetLock \/ TuiLock => core \in {"Handling", "Closing"} /\ todo # <<>>
    BY DEF NetLock, TuiLock, TypeOK
  <2>2. CASE NetLock
    <3>1. waiting'["netCmds"] = waiting["netCmds"] /\ waiting'["netEvents"] = waiting["netEvents"]
          /\ todo' = todo /\ net' = net /\ core' = core
      <4>1. CASE Network
        BY <2>2, <4>1 DEF NetLock, Network, SwarmEvent, NetSend, NetTake, Send
      <4>2. CASE AppCore
        BY <2>1, <2>2, <4>2 DEF NetLock, AppCore, CoreCommand, CoreEvent, CoreTick, CoreSend,
                                HandlerEnds, CoreShutdown, CoreSaves, Send
      <4>3. CASE Interface
        BY <4>3 DEF Interface, Drain, NoCommand, Key, TuiSends, Send, Filled, Take, TypeOK, Queues
      <4>4. CASE MainEnds \/ UNCHANGED vars
        BY <4>4 DEF MainEnds, vars
      <4> QED BY <4>1, <4>2, <4>3, <4>4 DEF Next
    <3>2. NetLock'
      BY <2>1, <2>2, <3>1 DEF NetLock, Blocked, Full, Closed
    <3>3. ~ TuiLock
      BY <2>2 DEF NetLock, TuiLock
    <3> QED BY <3>2, <3>3
  <2>3. CASE TuiLock
    <3>1. waiting'["cmds"] = waiting["cmds"] /\ waiting'["events"] = waiting["events"]
          /\ todo' = todo /\ tui' = tui /\ core' = core
      <4>1. CASE Network
        BY <4>1 DEF Network, SwarmEvent, NetSend, NetTake, Send, Filled, Take, TypeOK, Queues
      <4>2. CASE AppCore
        BY <2>1, <2>3, <4>2 DEF TuiLock, AppCore, CoreCommand, CoreEvent, CoreTick, CoreSend,
                                HandlerEnds, CoreShutdown, CoreSaves, Send
      <4>3. CASE Interface
        BY <2>3, <4>3 DEF TuiLock, Interface, Drain, NoCommand, Key, TuiSends, Send
      <4>4. CASE MainEnds \/ UNCHANGED vars
        BY <4>4 DEF MainEnds, vars
      <4> QED BY <4>1, <4>2, <4>3, <4>4 DEF Next
    <3>2. TuiLock'
      BY <2>1, <2>3, <3>1 DEF TuiLock, Blocked, Full, Closed
    <3>3. ~ NetLock
      BY <2>3 DEF NetLock, TuiLock
    <3> QED BY <3>2, <3>3
  <2> QED BY <2>2, <2>3
<1>2. TypeOK /\ [Next]_vars => [(NetLock => NetLock') /\ (TuiLock => TuiLock')]_vars
  BY <1>1
<1> QED BY <1>2, TypeCorrect, PTL DEF Spec, LockIsForGood
=============================================================================
