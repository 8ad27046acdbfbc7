---------------------------- MODULE EndpointProofs ----------------------------
(***************************************************************************)
(* Proofs about the daemon's endpoint, for any number of daemon processes  *)
(* and clients, of crashes and of changes.                                 *)
(***************************************************************************)
EXTENDS DaemonEndpoint, TLAPS

\* Steps in which a process has found the path free or made it its own, or
\* is giving it up.
Owning == Closing \cup {"remove", "bind", "listen", "chmod", "abort"}

\* What holds while no start, close or change has overlapped another.
Alone ==
  /\ \A d, e \in Daemon : pc[d] \in Transit /\ pc[e] \in Transit => d = e
  /\ \A d \in Daemon : Live(d) => file = d /\ sock[d] = "listening"
  /\ \A d \in Daemon : pc[d] \in Owning => \A e \in Daemon : ~Live(e)
  /\ \A d \in Daemon : pc[d] = "bind" => file = NoFile
  /\ \A d \in Daemon : pc[d] = "listen" => file = d
  /\ \A d \in Daemon : pc[d] = "chmod" => file = d /\ sock[d] = "listening"

\* What a process that has loaded serves, or is about to serve.
Current ==
  /\ \A d \in Daemon : pc[d] \in Starting \ {"load"} => loaded[d] = disk
  /\ \A d \in Daemon : Live(d) /\ loaded[d] # disk =>
       d \in stopping \cup unheard \/ \E c \in Client : client[c] = "notify"

EndpointInv == TypeOK /\ (~overlapped => Alone /\ Current)

-----------------------------------------------------------------------------
LEMMA InitEndpoint == Init => EndpointInv
<1> SUFFICES ASSUME Init PROVE EndpointInv
  OBVIOUS
<1> USE DEF Init, Transit, Starting, Closing
<1>1. TypeOK
  <2>1. disk \in 0 .. MaxDisk /\ crashes \in 0 .. MaxCrash
        /\ loaded \in [Daemon -> 0 .. MaxDisk]
    BY EndpointAssumption
  <2>2. overlapped \in BOOLEAN
    OBVIOUS
  <2>3. sock \in [Daemon -> {"none", "bound", "listening"}]
        /\ pc \in [Daemon -> Transit \cup {"off", "serving"}]
        /\ client \in [Client -> {"idle", "first", "second", "start", "poll", "notify"}]
    OBVIOUS
  <2> QED
    BY <2>1, <2>2, <2>3 DEF TypeOK
<1>2. Alone /\ Current
  BY DEF Alone, Current, Live, Owning
<1> QED
  BY <1>1, <1>2 DEF EndpointInv

\* Every step keeps the types.
LEMMA NextEndpointType == TypeOK /\ [Next]_vars => TypeOK'
<1> SUFFICES ASSUME TypeOK, [Next]_vars PROVE TypeOK'
  OBVIOUS
<1> USE EndpointAssumption DEF TypeOK, Transit, Starting, Closing, history
<1>1. ASSUME NEW d \in Daemon, Listen(d) PROVE TypeOK'
  BY <1>1 DEF Listen, Load, LstatAbsent, LstatPresent, DialGivesUp, DialRefused, Remove,
     StartFails, Bind, ListenCall, Chmod, Abort, Goto, End, LeaveFile
<1>8. ASSUME NEW d \in Daemon, LoadFails(d) PROVE TypeOK'
  BY <1>8 DEF LoadFails, Goto, End
<1>2. ASSUME NEW d \in Daemon, Close(d) PROVE TypeOK'
  BY <1>2 DEF Close, StopRequested, BeginClose, Unlink, CloseSocket, CloseLooksAgain,
     CloseRemoves, Exit, Goto, End, LeaveFile
<1>3. ASSUME NEW d \in Daemon, Interrupted(d) \/ Crash(d) PROVE TypeOK'
  <2>1. CASE Interrupted(d)
    BY <2>1 DEF Interrupted, BeginClose, InTransit, Goto
  <2>2. CASE Crash(d)
    <3>1. crashes' \in 0 .. MaxCrash
      BY <2>2 DEF Crash
    <3> QED
      BY <2>2, <3>1 DEF Crash, Goto, End, LeaveFile
  <2> QED
    BY <1>3, <2>1, <2>2
<1>4. ASSUME NEW c \in Client, requestDaemon(c) PROVE TypeOK'
  BY <1>4 DEF requestDaemon, Ask, Answered, Unavailable, StartDaemon, Expire, Step, Goto
<1>5. ASSUME NEW c \in Client, Change(c) PROVE TypeOK'
  <2>1. disk' \in 0 .. MaxDisk
    BY <1>5 DEF Change
  <2> QED
    BY <1>5, <2>1 DEF Change, InTransit, Step
<1>6. ASSUME NEW c \in Client, restartDaemonIfRunning(c) PROVE TypeOK'
  BY <1>6 DEF restartDaemonIfRunning, stopReaches, Accepts, Step
<1>7. CASE UNCHANGED vars
  BY <1>7 DEF vars
<1> QED
  BY <1>1, <1>2, <1>3, <1>4, <1>5, <1>6, <1>7, <1>8 DEF Next

\* Every step keeps the invariant, as long as nothing overlaps.
LEMMA NextAlone == EndpointInv /\ [Next]_vars => EndpointInv'
<1> SUFFICES ASSUME TypeOK, TypeOK', Alone, Current, ~overlapped', [Next]_vars
             PROVE  Alone' /\ Current'
  <2>1. ASSUME EndpointInv, [Next]_vars PROVE TypeOK /\ TypeOK'
    BY <2>1, NextEndpointType DEF EndpointInv
  <2>2. ASSUME EndpointInv, [Next]_vars, ~overlapped' PROVE ~overlapped
    BY <2>2 DEF EndpointInv, Next, vars, history, Listen, Load, LoadFails, LstatAbsent, LstatPresent, DialGivesUp,
       DialRefused, Remove, StartFails, Bind, ListenCall, Chmod, Abort, Close, StopRequested,
       BeginClose, Unlink, CloseSocket, CloseLooksAgain, CloseRemoves, Exit, Interrupted,
       Crash, requestDaemon, Ask, Answered, Unavailable, StartDaemon, Expire, Change,
       restartDaemonIfRunning, TypeOK
  <2> QED
    BY <2>1, <2>2 DEF EndpointInv
<1> USE EndpointAssumption
    DEF TypeOK, Alone, Current, Transit, Starting, Closing, Owning, Live, history
<1>1. ASSUME NEW d \in Daemon, Load(d) PROVE Alone' /\ Current'
  BY <1>1 DEF Load, Goto
<1>18. ASSUME NEW d \in Daemon, LoadFails(d) PROVE Alone' /\ Current'
  BY <1>18 DEF LoadFails, Goto, End
<1>2. ASSUME NEW d \in Daemon, LstatAbsent(d) \/ LstatPresent(d) PROVE Alone' /\ Current'
  BY <1>2 DEF LstatAbsent, LstatPresent, Goto
<1>3. ASSUME NEW d \in Daemon, DialGivesUp(d) \/ StartFails(d) \/ Exit(d) PROVE Alone' /\ Current'
  BY <1>3 DEF DialGivesUp, StartFails, Exit, Goto, End, LeaveFile
<1>4. ASSUME NEW d \in Daemon, DialRefused(d) PROVE Alone' /\ Current'
  BY <1>4 DEF DialRefused, Refused, Accepts, Goto
<1>5. ASSUME NEW d \in Daemon, Remove(d) PROVE Alone' /\ Current'
  BY <1>5 DEF Remove, Goto
<1>6. ASSUME NEW d \in Daemon, Bind(d) PROVE Alone' /\ Current'
  BY <1>6 DEF Bind, Goto
<1>7. ASSUME NEW d \in Daemon, ListenCall(d) PROVE Alone' /\ Current'
  BY <1>7 DEF ListenCall, Goto
<1>8. ASSUME NEW d \in Daemon, Chmod(d) PROVE Alone' /\ Current'
  BY <1>8 DEF Chmod, Goto
<1>9. ASSUME NEW d \in Daemon, Abort(d) \/ CloseRemoves(d) PROVE Alone' /\ Current'
  BY <1>9 DEF Abort, CloseRemoves, Goto, End
<1>10. ASSUME NEW d \in Daemon, BeginClose(d) PROVE Alone' /\ Current'
  BY <1>10 DEF BeginClose, InTransit, Goto
<1>11. ASSUME NEW d \in Daemon, Unlink(d) \/ CloseSocket(d) \/ CloseLooksAgain(d)
       PROVE Alone' /\ Current'
  BY <1>11 DEF Unlink, CloseSocket, CloseLooksAgain, Goto
<1>12. ASSUME NEW d \in Daemon, Crash(d) PROVE Alone' /\ Current'
  BY <1>12 DEF Crash, Goto, End, LeaveFile
<1>13. ASSUME NEW c \in Client, Ask(c) \/ Answered(c) \/ Unavailable(c) \/ Expire(c)
       PROVE Alone' /\ Current'
  BY <1>13 DEF Ask, Answered, Unavailable, Expire, Step
<1>14. ASSUME NEW c \in Client, StartDaemon(c) PROVE Alone' /\ Current'
  BY <1>14 DEF StartDaemon, InTransit, Step, Goto
<1>15. ASSUME NEW c \in Client, Change(c) PROVE Alone' /\ Current'
  BY <1>15 DEF Change, InTransit, Step
<1>16. ASSUME NEW c \in Client, restartDaemonIfRunning(c) PROVE Alone' /\ Current'
  BY <1>16 DEF restartDaemonIfRunning, stopReaches, Accepts, Step
<1>17. CASE UNCHANGED vars
  BY <1>17 DEF vars
<1> QED
  BY <1>1, <1>2, <1>3, <1>4, <1>5, <1>6, <1>7, <1>8, <1>9, <1>10, <1>11, <1>12, <1>13, <1>14,
     <1>15, <1>16, <1>17, <1>18 DEF Next, Listen, Close, StopRequested, Interrupted, requestDaemon

LEMMA EndpointInvariant == Spec => []EndpointInv
<1>1. EndpointInv /\ [Next]_vars => EndpointInv'
  BY NextAlone
<1> QED
  BY InitEndpoint, <1>1, PTL DEF Spec

\* While starts and closes do not overlap, one daemon serves at most, and the
\* path leads to it, for any number of processes and crashes.
THEOREM LoneStarts == Spec => []LoneStartsAreSafe
<1>1. EndpointInv => LoneStartsAreSafe
  BY DEF EndpointInv, Alone, LoneStartsAreSafe, SingleDaemon
<1> QED
  BY <1>1, EndpointInvariant, PTL

\* While starts and changes do not overlap, a daemon that serves an old
\* version is being told to stop, or is one whose stop request was lost.
THEOREM StaleServiceExplained == Spec => []StaleOnlyIfStopLost
<1>1. EndpointInv => StaleOnlyIfStopLost
  BY DEF EndpointInv, Current, StaleOnlyIfStopLost
<1> QED
  BY <1>1, EndpointInvariant, PTL
=============================================================================
