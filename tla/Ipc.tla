---------------------------------- MODULE Ipc ----------------------------------
(***************************************************************************)
(* Who runs, and how the others find it: launches of the tray application, *)
(* the mutex that admits one of them, the server it opens on a loopback    *)
(* port, the file ipc.json that names it, and the commands of the terminal *)
(* that read the file, check it and send an order.                         *)
(*                                                                         *)
(* A launch happens once, so it stands for its process id and its secret   *)
(* token too; ports are used again.  What an order but quit does to the    *)
(* panel is in Settings and Window.                                        *)
(***************************************************************************)
EXTENDS FiniteSets

CONSTANTS
  Apps,         \* launches of quickflare.exe
  Invocations,  \* commands of the terminal
  Ports,        \* loopback ports
  None,         \* no launch, no port, no file
  Torn,         \* a file that is truncated and not yet written
  Env           \* what may happen beside

ASSUME IpcAssumption ==
  /\ None \notin Apps \cup Ports \cup {Torn} /\ Torn \notin Apps
  /\ Apps \cap Invocations = {}
  \* The process dies; the server answers too late; Windows does not let a
  \* command look at the process; the mutex cannot be created.
  /\ Env \subseteq {"crash", "slow", "denied", "nomutex"}

VARIABLES
  app,      \* where each launch is
  port,     \* the port it listens on
  mutex,    \* the launches that opened the mutex, and hold it while they run
  quitting, \* the launches that were ordered to quit
  file,     \* ipc.json: None, Torn, or the launch it names
  cl,       \* the commands, and launches that found the mutex taken
  found,    \* history: what a stop command found
  stopped,  \* history: what a stop command called stopped
  misled    \* history: the launches that a client took for gone, or whose file
            \* it removed, while they were there

vars == <<app, port, mutex, quitting, file, cl, found, stopped, misled>>

Client == Invocations \cup Apps

\* After "main" and until it is gone a launch is the instance, unless it is the
\* "second"; from "serving" on there is a server, until "closing".
Holding == {"panel", "writing", "serving", "deaf", "closing", "closed"}

Idle == [at |-> "idle", op |-> "none", info |-> None, aim |-> None, polls |-> FALSE]

Init ==
  /\ app = [a \in Apps |-> "off"] /\ port = [a \in Apps |-> None]
  /\ mutex = {} /\ quitting = {} /\ file = None
  /\ cl = [c \in Client |-> Idle]
  /\ found = {} /\ stopped = {} /\ misled = {}

-----------------------------------------------------------------------------
(* The life of a launch.                                                   *)

Goes(a, from, to) == app[a] = from /\ app' = [app EXCEPT ![a] = to]

\* The user starts the program.
Launch(a) ==
  /\ Goes(a, "off", "main")
  /\ UNCHANGED <<port, mutex, quitting, file, cl, found, stopped, misled>>

Held == \E b \in mutex : app[b] \in Holding

\* Mutant of Acquire: everybody gets the mutex.
AcquireAnyway(a) ==
  /\ Goes(a, "main", "panel")
  /\ mutex' = mutex \cup {a}
  /\ UNCHANGED <<port, quitting, file, cl, found, stopped, misled>>

\* acquireSingleInstance, and NewPanel or the signal to the instance there is.
\* Any other error of CreateMutex lets the launch go on without the mutex.
Acquire(a) ==
  /\ \E opened \in IF "nomutex" \in Env THEN BOOLEAN ELSE {TRUE} :
       IF opened /\ Held
       THEN /\ Goes(a, "main", "second")
            /\ cl' = [cl EXCEPT ![a] = [Idle EXCEPT !.at = "read", !.op = "tell"]]
            /\ UNCHANGED mutex
       ELSE /\ Goes(a, "main", "panel")
            /\ mutex' = IF opened THEN mutex \cup {a} ELSE mutex
            /\ UNCHANGED cl
  /\ UNCHANGED <<port, quitting, file, found, stopped, misled>>

\* StartServer listens on a free port, and os.WriteFile truncates the file.
Listen(a) ==
  /\ Goes(a, "panel", "writing")
  /\ \E p \in Ports :
       /\ \A b \in Apps : app[b] \in {"writing", "serving"} => port[b] # p
       /\ port' = [port EXCEPT ![a] = p]
  /\ file' = Torn
  /\ UNCHANGED <<mutex, quitting, cl, found, stopped, misled>>

\* The file is written and Serve begins.
Written(a) ==
  /\ Goes(a, "writing", "serving")
  /\ file' = a
  /\ UNCHANGED <<port, mutex, quitting, cl, found, stopped, misled>>

\* StartServer fails, before it touches the file or while it writes it; the
\* panel runs without it.
NoServer(a) ==
  /\ Goes(a, "panel", "deaf") \/ Goes(a, "writing", "deaf")
  /\ UNCHANGED <<port, mutex, quitting, file, cl, found, stopped, misled>>

\* Mutant of StopServing: the file goes first.
RemoveFirst(a) ==
  /\ app[a] = "serving" /\ file = a
  /\ file' = None
  /\ UNCHANGED <<app, port, mutex, quitting, cl, found, stopped, misled>>

\* Server.Close, for the menu's Quit, OnQuit's or a closed window: Shutdown
\* lets the requests it has end and takes no more.
StopServing(a) ==
  /\ Goes(a, "serving", "closing")
  /\ UNCHANGED <<port, mutex, quitting, file, cl, found, stopped, misled>>

\* os.Remove, whatever the file says.
RemoveFile(a) ==
  /\ Goes(a, "closing", "closed")
  /\ file' = None
  /\ UNCHANGED <<port, mutex, quitting, cl, found, stopped, misled>>

\* os.Exit: after the server was closed, or from OnQuit with no regard to it.
Exit(a) ==
  /\ app[a] \in {"closed", "deaf"} \/ (a \in quitting /\ app[a] \in {"serving", "closing"})
  /\ app' = [app EXCEPT ![a] = "gone"]
  /\ UNCHANGED <<port, mutex, quitting, file, cl, found, stopped, misled>>

Crash(a) ==
  /\ "crash" \in Env /\ app[a] \in Holding
  /\ app' = [app EXCEPT ![a] = "gone"]
  /\ UNCHANGED <<port, mutex, quitting, file, cl, found, stopped, misled>>

Process(a) ==
  \/ Launch(a) \/ Acquire(a) \/ Listen(a) \/ Written(a) \/ NoServer(a)
  \/ StopServing(a) \/ RemoveFile(a) \/ Exit(a) \/ Crash(a)

-----------------------------------------------------------------------------
(* A request, made with what a client read about launch a.                 *)

\* The server that has the port.
Reaches(a, b) == app[b] = "serving" /\ port[b] = port[a]

\* Mutant of Accepts: any token will do.
AcceptsAny(a, b) == Reaches(a, b)

\* authMiddleware: b is reached and knows the token.
Accepts(a, b) == Reaches(a, b) /\ b = a

Answered(a) == \E b \in Apps : Accepts(a, b)

-----------------------------------------------------------------------------
(* A client.                                                               *)

Goto(c, at) == cl' = [cl EXCEPT ![c].at = at]

\* The end of a command, or of the launch that only signalled another.
Ends(c) ==
  /\ cl' = [cl EXCEPT ![c] = Idle]
  /\ app' = IF c \in Apps THEN [app EXCEPT ![c] = "gone"] ELSE app

Begin(c) ==
  /\ c \in Invocations /\ cl[c].at = "idle"
  /\ \E op \in {"start", "stop", "tell"} :
       cl' = [cl EXCEPT ![c] = [Idle EXCEPT !.at = "read", !.op = op]]
  /\ UNCHANGED <<app, port, mutex, quitting, file, found, stopped, misled>>

\* Discover found nobody: start spawns, stop has nothing to do; of those that
\* poll, start goes on for a while and stop is done.
Lost(c) ==
  \/ /\ cl[c].op = "start"
     /\ Goto(c, IF cl[c].polls THEN "again" ELSE "spawn")
     /\ UNCHANGED <<app, stopped>>
  \/ /\ cl[c].op # "start" /\ Ends(c)
     /\ stopped' = IF cl[c].op = "stop" /\ cl[c].polls
                   THEN stopped \cup {cl[c].aim} ELSE stopped

\* Discover found the launch it read of.
Finds(c) ==
  IF cl[c].polls
  THEN /\ IF cl[c].op = "start" THEN Ends(c) ELSE Goto(c, "again") /\ UNCHANGED app
       /\ UNCHANGED found
  ELSE /\ cl' = [cl EXCEPT ![c].at = "post", ![c].aim = cl[c].info]
       /\ found' = IF cl[c].op = "stop" THEN found \cup {cl[c].info} ELSE found
       /\ UNCHANGED app

ReadInfo(c) ==
  /\ cl[c].at = "read"
  /\ IF file \in {None, Torn}
     THEN Lost(c)
     ELSE /\ cl' = [cl EXCEPT ![c].at = "check", ![c].info = file]
          /\ UNCHANGED <<app, stopped>>
  /\ UNCHANGED <<port, mutex, quitting, file, found, misled>>

\* A client is wrong about these launches, if they are there.
Misleads(as) == misled' = misled \cup {a \in as \cap Apps : app[a] # "gone"}

\* isProcessAlive.  Another process may have the id of one that is gone, and any
\* error of OpenProcess counts as gone.
CheckAlive(c) ==
  /\ cl[c].at = "check"
  /\ \/ /\ app[cl[c].info] = "gone" \/ "denied" \in Env
        /\ Goto(c, "remove") /\ Misleads({cl[c].info})
     \/ Goto(c, "status") /\ UNCHANGED misled
  /\ UNCHANGED <<app, port, mutex, quitting, file, found, stopped>>

\* os.Remove of a stale file, whatever it says by now.
RemoveStale(c) ==
  /\ cl[c].at = "remove"
  /\ file' = None /\ Misleads({file})
  /\ Lost(c)
  /\ UNCHANGED <<port, mutex, quitting, found>>

\* Status.
AskStatus(c) ==
  /\ cl[c].at = "status"
  /\ \/ Answered(cl[c].info) /\ Finds(c) /\ UNCHANGED <<stopped, misled>>
     \/ /\ "slow" \in Env \/ ~Answered(cl[c].info)
        /\ Lost(c) /\ UNCHANGED found
        /\ Misleads(IF Answered(cl[c].info) THEN {cl[c].info} ELSE {})
  /\ UNCHANGED <<port, mutex, quitting, file>>

\* post: quit is stop's order, and stop polls when it was answered.  handleQuit
\* answers, and calls OnQuit later.
PostOrder(c) ==
  /\ cl[c].at = "post"
  /\ quitting' = quitting \cup
       {b \in Apps : cl[c].op = "stop" /\ Accepts(cl[c].info, b)}
  /\ IF cl[c].op = "stop" /\ Answered(cl[c].info)
     THEN cl' = [cl EXCEPT ![c].at = "read", ![c].polls = TRUE] /\ UNCHANGED app
     ELSE Ends(c)
  /\ UNCHANGED <<port, mutex, file, found, stopped, misled>>

\* startTrayProcess.
SpawnTray(c) ==
  /\ cl[c].at = "spawn"
  /\ \/ \E a \in Apps :
          /\ Goes(a, "off", "main")
          /\ cl' = [cl EXCEPT ![c].at = "again", ![c].polls = TRUE]
     \/ Ends(c)
  /\ UNCHANGED <<port, mutex, quitting, file, found, stopped, misled>>

\* The next poll, or the deadline.
PollAgain(c) ==
  /\ cl[c].at = "again"
  /\ \/ Goto(c, "read") /\ UNCHANGED app
     \/ Ends(c)
  /\ UNCHANGED <<port, mutex, quitting, file, found, stopped, misled>>

Command(c) ==
  \/ Begin(c) \/ ReadInfo(c) \/ CheckAlive(c) \/ RemoveStale(c)
  \/ AskStatus(c) \/ PostOrder(c) \/ SpawnTray(c) \/ PollAgain(c)

Next == (\E a \in Apps : Process(a)) \/ (\E c \in Client : Command(c))

Spec == Init /\ [][Next]_vars

-----------------------------------------------------------------------------
TypeOK ==
  /\ app \in [Apps -> Holding \cup {"off", "main", "second", "gone"}]
  /\ port \in [Apps -> Ports \cup {None}]
  /\ file \in Apps \cup {None, Torn}
  /\ mutex \subseteq Apps /\ quitting \subseteq Apps
  /\ found \subseteq Apps /\ stopped \subseteq Apps /\ misled \subseteq Apps
  /\ cl \in [Client ->
       [at : {"idle", "read", "check", "remove", "status", "post", "spawn", "again"},
        op : {"none", "start", "stop", "tell"}, info : Apps \cup {None},
        aim : Apps \cup {None}, polls : BOOLEAN]]
  /\ \A c \in Client :
       /\ cl[c].at \in {"check", "remove", "status", "post"} => cl[c].info # None
       /\ cl[c].op = "stop" /\ cl[c].polls => cl[c].aim # None
       /\ cl[c].at = "spawn" => cl[c].op = "start"

\* An application quits only when a stop command found that very application:
\* stale files and ports that are used again never direct the order elsewhere.
QuitIsMeant == quitting \subseteq found

\* A server that takes requests is the one ipc.json names, so every command and
\* every later launch reaches it: launches that overlap, end or die, and the
\* removal of what the file says "by now" in Close, never take it away.  A client
\* that removes a file as stale may.
NamedUnlessRemoved == \A a \in Apps : app[a] = "serving" => file = a \/ a \in misled

\* What stop calls stopped takes no more requests, but for a launch that a client
\* has taken for gone or has taken the file of.
StoppedIsStopped == \A a \in stopped : app[a] = "serving" => a \in misled

\* What ipc.go:317 says of the file it removes, "Stale file from an ungraceful
\* exit".  A server that wrote it since the check, and one whose process cannot be
\* looked at, violate it.
StaleIsStale ==
  [][\A c \in Client : RemoveStale(c) /\ file \in Apps => app[file] = "gone"]_vars

\* What acquireSingleInstance says of a second launch (instance_windows.go:23),
\* "An instance is already running.  Signal it to open its panel": it gives way
\* to one that stays.  A launch that comes while the other is leaving violates it.
SecondHasFirst ==
  [][\A a \in Apps : Goes(a, "main", "second") =>
       \E b \in Apps : app[b] \in Holding \ {"closing", "closed"} /\ b \notin quitting]_vars
=============================================================================
