------------------------------ MODULE Supervisor ------------------------------
(***************************************************************************)
(* supervisor.Tunnel: one cloudflared process kept running.                *)
(*                                                                         *)
(* Start leaves a goroutine (run) that spawns the process, waits for it    *)
(* and spawns it again after a pause.  Each process has a goroutine that   *)
(* polls its readiness and one that reads its log.  All of them, and Stop  *)
(* on the caller's goroutine, set the status; the callback that announces  *)
(* a change is made after the mutex is released, so two of them can be     *)
(* delivered in the other order.  A tunnel is started once, as its two     *)
(* callers do, and may be stopped any number of times.                     *)
(***************************************************************************)
EXTENDS Naturals, Sequences

CONSTANTS
  Line,        \* what cloudflared may print
  Capacity,    \* capacity of the log ring
  MaxSpawns    \* bound on the processes started

ASSUME SupervisorAssumption ==
  /\ Capacity \in Nat \ {0}
  /\ MaxSpawns \in Nat

VARIABLES
  ctx,       \* runCtx: "none" before Start, "live", "done" after Stop
  run,       \* where run and runOnce are
  spawned,   \* processes started so far
  process,   \* the last of them is running
  poller,    \* pollReady of each process, with the answer it holds
  status,    \* t.status.State
  calls,     \* callbacks under way, by the goroutine that makes them
  told,      \* what the last callback said
  entries,   \* the log ring
  start

loop == <<ctx, run, spawned, process>>
ring == <<entries, start>>
vars == <<loop, poller, status, calls, told, ring>>

State == {"stopped", "starting", "connected", "reconnecting", "failed"}

Spawns == 1..MaxSpawns

\* Goroutines that set the status: run, a caller of Stop, and the poller of
\* each process, which has the process's number.
Runner == 0

Stopper == MaxSpawns + 1

Actor == {Runner, Stopper} \cup Spawns

Silent == "silent"

Ring == INSTANCE LogRing

Init ==
  /\ ctx = "none" /\ run = "idle"
  /\ spawned = 0 /\ process = FALSE
  /\ poller = [n \in Spawns |-> "none"]
  /\ status = "stopped" /\ told = "stopped"
  /\ calls = [a \in Actor |-> Silent]
  /\ Ring!Init

-----------------------------------------------------------------------------
\* setState, up to the Unlock; the callback is still to be made.
setState(a, s) ==
  /\ status' = s
  /\ calls' = IF status # s THEN [calls EXCEPT ![a] = s] ELSE calls

\* The goroutine is not in the middle of its callback.
Free(a) == calls[a] = Silent

Callback(a) ==
  /\ ~Free(a)
  /\ told' = calls[a]
  /\ calls' = [calls EXCEPT ![a] = Silent]
  /\ UNCHANGED <<loop, poller, status, ring>>

Start ==
  /\ ctx = "none"
  /\ ctx' = "live"
  /\ run' = "check"
  /\ UNCHANGED <<spawned, process, poller, status, calls, told, ring>>

\* The context is cancelled by the first Stop; every Stop sets the status.
Stop ==
  /\ ctx # "none" /\ Free(Stopper)
  /\ ctx' = "done"
  /\ setState(Stopper, "stopped")
  /\ UNCHANGED <<run, spawned, process, poller, told, ring>>

-----------------------------------------------------------------------------
(* run and runOnce.                                                        *)

Goto(from, to) == run = from /\ Free(Runner) /\ run' = to

\* Mutant of Leave: the first round that ends is the last.
LeaveAfterRound ==
  /\ ctx = "done" \/ run = "ended"
  /\ \E at \in {"check", "ended", "pause"} : Goto(at, "over")
  /\ UNCHANGED <<ctx, spawned, process, poller, status, calls, told, ring>>

\* The three places where run looks at its context: before a round, after it,
\* and while it pauses.
Leave ==
  /\ ctx = "done"
  /\ \E at \in {"check", "ended", "pause"} : Goto(at, "over")
  /\ UNCHANGED <<ctx, spawned, process, poller, status, calls, told, ring>>

Goes ==
  /\ ctx = "live"
  /\ Goto("check", "port") \/ Goto("ended", "report") \/ Goto("pause", "check")
  /\ UNCHANGED <<ctx, spawned, process, poller, status, calls, told, ring>>

\* Mutant of PortFree: only a process that runs changes the status.
PortFreeQuietly ==
  /\ Goto("port", "spawn")
  /\ UNCHANGED <<ctx, spawned, process, poller, status, calls, told, ring>>

\* freePort and the pipe, then the status.
PortFree ==
  /\ Goto("port", "spawn")
  /\ setState(Runner, "starting")
  /\ UNCHANGED <<ctx, spawned, process, poller, told, ring>>

NoPort ==
  /\ Goto("port", "ended")
  /\ UNCHANGED <<ctx, spawned, process, poller, status, calls, told, ring>>

\* Mutant of Spawn: the process is not started with the context.
SpawnAnyway ==
  /\ spawned < MaxSpawns
  /\ Goto("spawn", "fork")
  /\ UNCHANGED <<ctx, spawned, process, poller, status, calls, told, ring>>

\* cmd.Start begins, and goes on unless the context is cancelled already.
Spawn ==
  /\ ctx = "live"
  /\ spawned < MaxSpawns
  /\ Goto("spawn", "fork")
  /\ UNCHANGED <<ctx, spawned, process, poller, status, calls, told, ring>>

\* It forks: the context is not looked at again until the process exists.
Fork ==
  /\ Goto("fork", "started")
  /\ spawned' = spawned + 1
  /\ process' = TRUE
  /\ UNCHANGED <<ctx, poller, status, calls, told, ring>>

\* From now on the context kills the process; cmd.Start returns, and the
\* goroutines that read its log and poll it begin.
Started ==
  /\ Goto("started", "wait")
  /\ poller' = [poller EXCEPT ![spawned] = "tick"]
  /\ UNCHANGED <<ctx, spawned, process, status, calls, told, ring>>

\* cmd.Start refuses, or cannot fork.
SpawnFails ==
  /\ Goto("spawn", "ended") \/ Goto("fork", "ended")
  /\ setState(Runner, "failed")
  /\ UNCHANGED <<ctx, spawned, process, poller, told, ring>>

\* The process ends of its own accord, or is killed with the context.
ProcessExits ==
  /\ process
  /\ process' = FALSE
  /\ UNCHANGED <<ctx, run, spawned, poller, status, calls, told, ring>>

\* Mutant of WaitReturns: run does not wait for the process.
WaitReturnsEarly ==
  /\ Goto("wait", "ended")
  /\ UNCHANGED <<ctx, spawned, process, poller, status, calls, told, ring>>

\* cmd.Wait returns, and the deferred stopPoll runs.
WaitReturns ==
  /\ ~process
  /\ Goto("wait", "ended")
  /\ UNCHANGED <<ctx, spawned, process, poller, status, calls, told, ring>>

\* The pause between two rounds is announced.
Report ==
  /\ Goto("report", "pause")
  /\ setState(Runner, "reconnecting")
  /\ UNCHANGED <<ctx, spawned, process, poller, told, ring>>

RunStep ==
  \/ Leave \/ Goes \/ PortFree \/ NoPort \/ Spawn \/ Fork \/ Started
  \/ SpawnFails \/ WaitReturns \/ Report

-----------------------------------------------------------------------------
(* pollReady and pumpLogs.                                                 *)

\* The poller's context ends with its round of runOnce.
PollCancelled(n) == ctx = "done" \/ run # "wait" \/ n # spawned

PollEnds(n) ==
  /\ poller[n] = "tick" /\ Free(n)
  /\ PollCancelled(n)
  /\ poller' = [poller EXCEPT ![n] = "over"]
  /\ UNCHANGED <<loop, status, calls, told, ring>>

\* /ready answers; without an answer the poller just waits for the next tick.
PollAnswered(n) ==
  /\ poller[n] = "tick" /\ Free(n)
  /\ ~PollCancelled(n) /\ process
  /\ \E answer \in {"connected", "starting"} :
       poller' = [poller EXCEPT ![n] = answer]
  /\ UNCHANGED <<loop, status, calls, told, ring>>

\* It reports the answer without looking at its context again.
PollReports(n) ==
  /\ poller[n] \in State
  /\ setState(n, poller[n])
  /\ poller' = [poller EXCEPT ![n] = "tick"]
  /\ UNCHANGED <<loop, told, ring>>

\* A line is read from the standard error of a process, perhaps after its end.
PumpLog(l) ==
  /\ \E n \in Spawns : poller[n] # "none"
  /\ Ring!Add(l)
  /\ UNCHANGED <<loop, poller, status, calls, told>>

PollStep(n) == PollEnds(n) \/ PollAnswered(n) \/ PollReports(n)

Next ==
  \/ Start \/ Stop
  \/ RunStep \/ ProcessExits
  \/ \E a \in Actor : Callback(a)
  \/ \E n \in Spawns : PollStep(n)
  \/ \E l \in Line : PumpLog(l)

\* Goroutines are scheduled, a pause ends, callbacks only post and return, and
\* a process whose context is cancelled is killed.
Fairness ==
  /\ WF_vars(RunStep)
  /\ WF_vars(run = "wait" /\ ctx = "done" /\ ProcessExits)
  /\ \A a \in Actor : WF_vars(Callback(a))

Spec == Init /\ [][Next]_vars /\ Fairness

-----------------------------------------------------------------------------
LoopTypes ==
  /\ ctx \in {"none", "live", "done"}
  /\ run \in {"idle", "check", "port", "spawn", "fork", "started", "wait",
              "ended", "report", "pause", "over"}
  /\ spawned \in 0..MaxSpawns
  /\ process \in BOOLEAN

StatusTypes ==
  /\ poller \in [Spawns -> State \cup {"none", "tick", "over"}]
  /\ status \in State /\ told \in State
  /\ calls \in [Actor -> State \cup {Silent}]

TypeOK ==
  /\ LoopTypes /\ StatusTypes /\ Ring!RingType
  /\ process => run \in {"started", "wait"}
  /\ run = "fork" => spawned < MaxSpawns
  /\ run \in {"started", "wait"} => spawned > 0
  /\ ctx = "none" <=> run = "idle"

\* A Stop that comes while cmd.Start is between its look at the context and its
\* return is felt when it returns.
Life ==
  IF ctx = "none" THEN "new"
  ELSE IF ctx = "live" \/ run \in {"fork", "started"} THEN "running"
  ELSE "stopped"

\* A supervised tunnel is a connector: no process is started after Stop or
\* beside another, and what runs at a Stop, or was being started, goes away
\* (Stop's comment, "terminates the process and stops restarting it").
Conn == INSTANCE Connector WITH life <- Life

IsConnector == Conn!Spec

\* The log of a tunnel is always its last lines in order, whichever process
\* printed them (RecentLogs).
Window == INSTANCE LogWindow WITH window <- Ring!Entries

LogIsWindow == Window!Spec

\* As long as nobody stops it, a tunnel whose process ended or could not be
\* started tries again (run's restart loop).
KeepsTrying == (run = "ended" /\ ctx = "live") ~> (run = "port" \/ ctx = "done")

\* A poller may still report an answer of a process that is gone, and so make
\* the status say connected while run pauses before the next round; that does
\* not last beyond the start of the round, unless the tunnel is stopped.
StaleStatusHeals ==
  (status = "connected" /\ run = "pause") ~> (status # "connected" \/ ctx = "done")
=============================================================================
