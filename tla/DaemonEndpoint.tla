--------------------------- MODULE DaemonEndpoint ---------------------------
(***************************************************************************)
(* The life of daemon processes around the one Unix socket path they       *)
(* share: internal/daemon listener.go and server.go (Listen, Serve, Close, *)
(* removeStaleSocket), the `daemon serve` command that loads configuration,*)
(* packs and learned rules before it listens, requestDaemon, which starts  *)
(* a daemon when none answers, and the commands that change what a daemon  *)
(* loads and then ask the running one to stop (restartDaemonIfRunning).    *)
(*                                                                         *)
(* Every system call on the path is a step of its own: between two of them *)
(* any other process may run.  daemonStartMu is a mutex of one process and *)
(* orders nothing between two shells.                                      *)
(***************************************************************************)
EXTENDS Integers, FiniteSets

CONSTANTS
  Daemon,    \* daemon processes
  Client,    \* solomon processes run by shells and by the user
  NoFile,    \* nothing at the socket path
  DeadFile,  \* the socket file of a process that has ended
  MaxDisk, MaxCrash  \* bounds of the model

ASSUME EndpointAssumption ==
  /\ NoFile \notin Daemon /\ DeadFile \notin Daemon /\ NoFile # DeadFile
  /\ MaxDisk \in Nat /\ MaxCrash \in Nat

VARIABLES
  disk,     \* the version of what a daemon loads at start
  file,     \* what is at the path: the socket of a daemon, dead or not
  sock,     \* the socket of each daemon
  pc,       \* where each daemon process is
  loaded,   \* the version each daemon loaded
  stopping, \* the daemons that a stop request has reached
  client,   \* where each client is
  crashes,  \* how many processes have been killed
  unheard,  \* history: the daemons that missed the last stop request for them
  overlapped \* history: a start, a close or a change has overlapped another

history == <<unheard, overlapped>>
vars == <<disk, file, sock, pc, loaded, stopping, client, crashes, history>>

Starting == {"load", "lstat", "dial", "remove", "bind", "listen", "chmod", "abort"}
Closing == {"unlink", "close", "lstatAgain", "dialAgain", "removeAgain"}
Transit == Starting \cup Closing

TypeOK ==
  /\ disk \in 0 .. MaxDisk
  /\ file \in Daemon \cup {NoFile, DeadFile}
  /\ sock \in [Daemon -> {"none", "bound", "listening"}]
  /\ pc \in [Daemon -> Transit \cup {"off", "serving"}]
  /\ loaded \in [Daemon -> 0 .. MaxDisk]
  /\ stopping \subseteq Daemon
  /\ client \in [Client -> {"idle", "first", "second", "start", "poll", "notify"}]
  /\ crashes \in 0 .. MaxCrash
  /\ unheard \subseteq Daemon
  /\ overlapped \in BOOLEAN

Init ==
  /\ disk = 0
  /\ file = NoFile
  /\ sock = [d \in Daemon |-> "none"]
  /\ pc = [d \in Daemon |-> "off"]
  /\ loaded = [d \in Daemon |-> 0]
  /\ stopping = {}
  /\ client = [c \in Client |-> "idle"]
  /\ crashes = 0
  /\ unheard = {}
  /\ overlapped = FALSE

-----------------------------------------------------------------------------
(***************************************************************************)
(* Daemon processes.                                                       *)
(***************************************************************************)

\* Some process is starting or closing.
InTransit == \E e \in Daemon : pc[e] \in Transit

Goto(d, next) == pc' = [pc EXCEPT ![d] = next]

\* The process is gone, and with it its descriptors.
End(d) ==
  /\ Goto(d, "off")
  /\ sock' = [sock EXCEPT ![d] = "none"]
  /\ stopping' = stopping \ {d}
  /\ unheard' = unheard \ {d}

\* A socket file outlives its process.
LeaveFile(d) == file' = IF file = d THEN DeadFile ELSE file

\* A connect() to the path is accepted by the kernel.
Accepts == file \in Daemon /\ sock[file] = "listening"

\* `daemon serve` reads configuration, packs and learned rules, then calls
\* Listen.
Load(d) ==
  /\ pc[d] = "load"
  /\ loaded' = [loaded EXCEPT ![d] = disk]
  /\ Goto(d, "lstat")
  /\ UNCHANGED <<disk, file, sock, stopping, client, crashes, history>>

\* A configuration, pack or database that cannot be read ends the process
\* before it has touched the path.
LoadFails(d) ==
  /\ pc[d] = "load"
  /\ End(d)
  /\ UNCHANGED <<disk, file, loaded, client, crashes, overlapped>>

\* removeStaleSocket: nothing there, nothing to remove.
LstatAbsent(d) ==
  /\ pc[d] = "lstat" /\ file = NoFile
  /\ Goto(d, "bind")
  /\ UNCHANGED <<disk, file, sock, loaded, stopping, client, crashes, history>>

LstatPresent(d) ==
  /\ pc[d] = "lstat" /\ file # NoFile
  /\ Goto(d, "dial")
  /\ UNCHANGED <<disk, file, sock, loaded, stopping, client, crashes, history>>

\* The dial succeeds (ErrAlreadyRunning), or fails because the file has gone
\* since: either way Listen returns an error and the process ends.
DialGivesUp(d) ==
  /\ pc[d] = "dial" /\ (Accepts \/ file = NoFile)
  /\ End(d) /\ LeaveFile(d)
  /\ UNCHANGED <<disk, loaded, client, crashes, overlapped>>

\* Mutant: any socket file is taken for a stale one.
Refused_Always == file # NoFile

\* ECONNREFUSED: a file, and nobody who listens behind it.
Refused == file # NoFile /\ ~Accepts

\* Mutant: a refused dial is an error like any other.
DialRefused_Reports(d) ==
  /\ pc[d] = "dial" /\ Refused
  /\ End(d) /\ LeaveFile(d)
  /\ UNCHANGED <<disk, loaded, client, crashes, overlapped>>

DialRefused(d) ==
  /\ pc[d] = "dial" /\ Refused
  /\ Goto(d, "remove")
  /\ UNCHANGED <<disk, file, sock, loaded, stopping, client, crashes, history>>

\* os.Remove takes whatever is at the path by now.
Remove(d) ==
  /\ pc[d] = "remove" /\ file # NoFile
  /\ file' = NoFile
  /\ Goto(d, "bind")
  /\ UNCHANGED <<disk, sock, loaded, stopping, client, crashes, history>>

\* os.Remove reports that the file does not exist, bind that the address is
\* in use: Listen returns the error and the process ends.
StartFails(d) ==
  /\ \/ pc[d] = "remove" /\ file = NoFile
     \/ pc[d] = "bind" /\ file # NoFile
  /\ End(d) /\ LeaveFile(d)
  /\ UNCHANGED <<disk, loaded, client, crashes, overlapped>>

\* net.Listen, first half: bind() creates the file.
Bind(d) ==
  /\ pc[d] = "bind" /\ file = NoFile
  /\ file' = d
  /\ sock' = [sock EXCEPT ![d] = "bound"]
  /\ Goto(d, "listen")
  /\ UNCHANGED <<disk, loaded, stopping, client, crashes, history>>

\* net.Listen, second half.
ListenCall(d) ==
  /\ pc[d] = "listen"
  /\ sock' = [sock EXCEPT ![d] = "listening"]
  /\ Goto(d, "chmod")
  /\ UNCHANGED <<disk, file, loaded, stopping, client, crashes, history>>

\* os.Chmod on the path; without a file there, Listen closes the listener.
Chmod(d) ==
  /\ pc[d] = "chmod"
  /\ Goto(d, IF file = NoFile THEN "abort" ELSE "serving")
  /\ UNCHANGED <<disk, file, sock, loaded, stopping, client, crashes, history>>

Abort(d) ==
  /\ pc[d] = "abort"
  /\ file' = NoFile
  /\ End(d)
  /\ UNCHANGED <<disk, loaded, client, crashes, overlapped>>

\* serveConnection has answered a stop request, or the process was
\* interrupted: Close begins.
BeginClose(d) ==
  /\ pc[d] = "serving"
  /\ Goto(d, "unlink")
  /\ overlapped' = IF InTransit THEN TRUE ELSE overlapped
  /\ UNCHANGED <<disk, file, sock, loaded, stopping, client, crashes, unheard>>

StopRequested(d) == d \in stopping /\ BeginClose(d)

Interrupted(d) == d \notin stopping /\ BeginClose(d)

\* listener.Close unlinks the path, whoever's socket is there, and then
\* closes the descriptor.
Unlink(d) ==
  /\ pc[d] = "unlink"
  /\ file' = NoFile
  /\ Goto(d, "close")
  /\ UNCHANGED <<disk, sock, loaded, stopping, client, crashes, history>>

CloseSocket(d) ==
  /\ pc[d] = "close"
  /\ sock' = [sock EXCEPT ![d] = "none"]
  /\ Goto(d, "lstatAgain")
  /\ UNCHANGED <<disk, file, loaded, stopping, client, crashes, history>>

\* Close calls removeStaleSocket again, on a path that may be another's.
CloseLooksAgain(d) ==
  /\ \/ pc[d] = "lstatAgain" /\ file # NoFile /\ Goto(d, "dialAgain")
     \/ pc[d] = "dialAgain" /\ Refused /\ Goto(d, "removeAgain")
  /\ UNCHANGED <<disk, file, sock, loaded, stopping, client, crashes, history>>

CloseRemoves(d) ==
  /\ pc[d] = "removeAgain"
  /\ file' = NoFile
  /\ End(d)
  /\ UNCHANGED <<disk, loaded, client, crashes, overlapped>>

\* Close has nothing left to do; or Serve has returned meanwhile, since the
\* listener is closed, and the process ends in the middle of Close.
Exit(d) ==
  /\ pc[d] \in {"lstatAgain", "dialAgain", "removeAgain"}
  /\ End(d) /\ LeaveFile(d)
  /\ UNCHANGED <<disk, loaded, client, crashes, overlapped>>

\* The process is killed: its socket file stays.
Crash(d) ==
  /\ pc[d] # "off" /\ crashes < MaxCrash
  /\ End(d) /\ LeaveFile(d)
  /\ crashes' = crashes + 1
  /\ UNCHANGED <<disk, loaded, client, overlapped>>

-----------------------------------------------------------------------------
(***************************************************************************)
(* Clients.                                                                *)
(***************************************************************************)

Step(c, from, to) == client[c] = from /\ client' = [client EXCEPT ![c] = to]

\* A shell adapter runs `daemon request`.
Ask(c) ==
  /\ Step(c, "idle", "first")
  /\ UNCHANGED <<disk, file, sock, pc, loaded, stopping, crashes, history>>

\* The daemon at the path answers in time.
Answered(c) ==
  /\ Accepts /\ pc[file] = "serving"
  /\ \E at \in {"first", "second", "poll"} : Step(c, at, "idle")
  /\ UNCHANGED <<disk, file, sock, pc, loaded, stopping, crashes, history>>

\* Dial, write or read fails or the client's 15 ms are over: ErrUnavailable
\* in each case.  requestDaemon asks a second time under daemonStartMu.
Unavailable(c) ==
  /\ \/ Step(c, "first", "second")
     \/ Step(c, "second", "start")
  /\ UNCHANGED <<disk, file, sock, pc, loaded, stopping, crashes, history>>

\* requestDaemon starts a process and polls.
StartDaemon(c) ==
  /\ Step(c, "start", "poll")
  /\ \E d \in Daemon :
       /\ pc[d] = "off"
       /\ Goto(d, "load")
  /\ overlapped' = IF InTransit \/ (\E b \in Client : client[b] = "notify")
                   THEN TRUE ELSE overlapped
  /\ UNCHANGED <<disk, file, sock, loaded, stopping, crashes, unheard>>

\* The 95 ms of requestDaemon are over.
Expire(c) ==
  /\ Step(c, "poll", "idle")
  /\ UNCHANGED <<disk, file, sock, pc, loaded, stopping, crashes, history>>

\* A learn, pack or trust command changes what daemons load.
Change(c) ==
  /\ Step(c, "idle", "notify")
  /\ disk < MaxDisk
  /\ disk' = disk + 1
  /\ overlapped' = IF InTransit THEN TRUE ELSE overlapped
  /\ UNCHANGED <<file, sock, pc, loaded, stopping, crashes, unheard>>

\* Mutant: the command ends without asking the daemon to stop.
stopReaches_Nobody == {}

\* The daemon that a stop request sent now can reach.
stopReaches == IF Accepts THEN {file} ELSE {}

\* restartDaemonIfRunning: one stop request.  The runtime directory may not be
\* found, or the request may not get through within its 15 ms: the command
\* ignores that, and nobody asks again.
restartDaemonIfRunning(c) ==
  /\ Step(c, "notify", "idle")
  /\ \/ /\ stopping' = stopping \cup stopReaches
        /\ unheard' = unheard \ stopReaches
     \/ /\ unheard' = unheard \cup stopReaches
        /\ UNCHANGED stopping
  /\ UNCHANGED <<disk, file, sock, pc, loaded, crashes, overlapped>>

-----------------------------------------------------------------------------
Listen(d) ==
  \/ Load(d) \/ LstatAbsent(d) \/ LstatPresent(d) \/ DialGivesUp(d) \/ DialRefused(d)
  \/ Remove(d) \/ StartFails(d) \/ Bind(d) \/ ListenCall(d) \/ Chmod(d) \/ Abort(d)

Close(d) ==
  \/ StopRequested(d) \/ Unlink(d) \/ CloseSocket(d) \/ CloseLooksAgain(d)
  \/ CloseRemoves(d) \/ Exit(d)

requestDaemon(c) == Ask(c) \/ Answered(c) \/ Unavailable(c) \/ StartDaemon(c) \/ Expire(c)

Next ==
  \/ \E d \in Daemon : Listen(d) \/ LoadFails(d) \/ Close(d) \/ Interrupted(d) \/ Crash(d)
  \/ \E c \in Client : requestDaemon(c) \/ Change(c) \/ restartDaemonIfRunning(c)

\* The operating system runs every process that can run, and shells keep
\* asking.  What a daemon loads is not broken for ever.  Nobody is obliged to
\* change anything, interrupt or crash.
Fairness ==
  /\ \A d \in Daemon : WF_vars(Listen(d)) /\ WF_vars(Close(d)) /\ SF_vars(Load(d))
  /\ \A c \in Client : WF_vars(requestDaemon(c)) /\ WF_vars(restartDaemonIfRunning(c))

Spec == Init /\ [][Next]_vars /\ Fairness

-----------------------------------------------------------------------------
(***************************************************************************)
(* Properties.                                                             *)
(***************************************************************************)

Live(d) == pc[d] = "serving"

\* TestListenRejectsActiveUnixSocket: a second Listen on the endpoint of a
\* daemon that serves "want ErrAlreadyRunning".  No two daemons serve.
SingleDaemon == \A d, e \in Daemon : Live(d) /\ Live(e) => d = e

\* As long as no start or close has overlapped another, the path leads to the
\* daemon that serves, whatever crashed before: removeStaleSocket removes no
\* socket in use.
LoneStartsAreSafe ==
  ~overlapped => SingleDaemon /\ \A d \in Daemon : Live(d) => file = d

\* As long as no start has overlapped a change either, there is one way in
\* which a daemon goes on serving what was changed on disk: the stop request of
\* the last change for it was lost (restartDaemonIfRunning asks once).  Any
\* other stale daemon has been told to stop, or is about to be.
StaleOnlyIfStopLost ==
  ~overlapped =>
    \A d \in Daemon : Live(d) /\ loaded[d] # disk =>
      \/ d \in stopping \cup unheard
      \/ \E c \in Client : client[c] = "notify"

\* The socket file of a dead process does not stay in the way for ever: some
\* later start removes it, as long as there is a process left to start.
StaleEndpointReplaced ==
  file = DeadFile ~> (file # DeadFile \/ \A d \in Daemon : pc[d] # "off")
=============================================================================
