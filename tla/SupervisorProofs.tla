--------------------------- MODULE SupervisorProofs ---------------------------
(***************************************************************************)
(* A supervised tunnel keeps its types, is a connector, and shows the last *)
(* lines of its log, for every capacity and any number of restarts.        *)
(***************************************************************************)
EXTENDS Supervisor, TLAPS, SequenceTheorems

-----------------------------------------------------------------------------
(* The log ring.                                                           *)

\* The two pieces Entries copies are the slice, read from s on and around.
LEMMA Pieces ==
  ASSUME NEW e \in Seq(Line), Len(e) = Capacity, NEW s \in 0..(Capacity - 1)
  PROVE  LET p == SubSeq(e, s + 1, Capacity) \o SubSeq(e, 1, s) IN
         /\ p \in Seq(Line)
         /\ Len(p) = Capacity
         /\ \A i \in 1..Capacity :
              p[i] = e[IF i <= Capacity - s THEN s + i ELSE i - (Capacity - s)]
<1> DEFINE a == SubSeq(e, s + 1, Capacity)
           b == SubSeq(e, 1, s)
<1>1. \A i \in 1..Capacity : e[i] \in Line
  BY SupervisorAssumption
<1>2. /\ a \in Seq(Line) /\ Len(a) = Capacity - s
      /\ \A i \in 1..(Capacity - s) : a[i] = e[s + i]
  <2>1. \A i \in (s + 1)..Capacity : e[i] \in Line
    BY <1>1
  <2>2. s + 1 \in Int /\ Capacity \in Int /\ s + 1 <= Capacity
    BY SupervisorAssumption
  <2> HIDE DEF a
  <2>3. /\ a \in Seq(Line) /\ Len(a) = Capacity - (s + 1) + 1
        /\ \A i \in 1..(Capacity - (s + 1) + 1) : a[i] = e[s + 1 + i - 1]
    BY <2>1, <2>2, SubSeqProperties DEF a
  <2>4. QED
    BY <2>3, SupervisorAssumption
<1>3. /\ b \in Seq(Line) /\ Len(b) = s
      /\ \A i \in 1..s : b[i] = e[i]
  <2>1. \A i \in 1..s : e[i] \in Line
    BY <1>1, SupervisorAssumption
  <2> HIDE DEF b
  <2>2. /\ b \in Seq(Line) /\ Len(b) = (IF 1 <= s THEN s - 1 + 1 ELSE 0)
        /\ \A i \in 1..(s - 1 + 1) : b[i] = e[1 + i - 1]
    BY <2>1, SubSeqProperties DEF b
  <2>3. QED
    BY <2>2
<1>4. /\ a \o b \in Seq(Line) /\ Len(a \o b) = Capacity
      /\ \A i \in 1..Capacity :
           (a \o b)[i] = IF i <= Capacity - s THEN a[i] ELSE b[i - (Capacity - s)]
  <2> HIDE DEF a, b
  <2>1. /\ a \o b \in Seq(Line) /\ Len(a \o b) = Len(a) + Len(b)
        /\ \A i \in 1..Len(a) + Len(b) :
             (a \o b)[i] = IF i <= Len(a) THEN a[i] ELSE b[i - Len(a)]
    BY <1>2, <1>3, ConcatProperties
  <2>2. Len(a) + Len(b) = Capacity
    BY <1>2, <1>3, SupervisorAssumption
  <2>3. QED
    BY <2>1, <2>2, <1>2
<1>5. ASSUME NEW i \in 1..Capacity
      PROVE  (a \o b)[i] = e[IF i <= Capacity - s THEN s + i ELSE i - (Capacity - s)]
  <2> HIDE DEF a, b
  <2>1. CASE i <= Capacity - s
    <3>1. i \in 1..(Capacity - s)
      BY <2>1, SupervisorAssumption
    <3>2. QED
      BY <2>1, <3>1, <1>2, <1>4
  <2>2. CASE ~(i <= Capacity - s)
    <3>1. i - (Capacity - s) \in 1..s
      BY <2>2, SupervisorAssumption
    <3>2. QED
      BY <2>2, <3>1, <1>3, <1>4
  <2>3. QED
    BY <2>1, <2>2
<1>6. QED
  BY <1>4, <1>5

\* As long as it is not full the ring has not turned: it is its own snapshot.
LEMMA Unturned ==
  ASSUME NEW e \in Seq(Line), Len(e) = Capacity
  PROVE  SubSeq(e, 1, Capacity) \o SubSeq(e, 1, 0) = e
<1> DEFINE p == SubSeq(e, 0 + 1, Capacity) \o SubSeq(e, 1, 0)
<1>1. /\ p \in Seq(Line) /\ Len(p) = Capacity
      /\ \A i \in 1..Capacity :
           p[i] = e[IF i <= Capacity - 0 THEN 0 + i ELSE i - (Capacity - 0)]
  <2>1. 0 \in 0..(Capacity - 1)
    BY SupervisorAssumption
  <2>2. QED
    BY <2>1, Pieces
<1> HIDE DEF p
<1>2. \A i \in 1..Capacity : p[i] = e[i]
  BY <1>1, SupervisorAssumption
<1>3. p = e
  BY <1>1, <1>2, SeqEqual
<1>4. QED
  BY <1>3 DEF p

\* A line that is added to the ring is added to the window.
LEMMA RingStep ==
  ASSUME Ring!RingType, NEW l \in Line, Ring!Add(l)
  PROVE  Ring!RingType' /\ Window!Add(l)
<1> USE SupervisorAssumption
<1>1. /\ entries \in Seq(Line) /\ Len(entries) <= Capacity
      /\ start \in 0..(Capacity - 1)
      /\ Len(entries) \in Nat
      /\ Len(entries) < Capacity => start = 0
  BY DEF Ring!RingType
<1>2. CASE Len(entries) < Capacity
  <2>1. entries' = Append(entries, l) /\ start' = 0
    BY <1>1, <1>2 DEF Ring!Add
  <2>2. entries' \in Seq(Line) /\ Len(entries') = Len(entries) + 1
    BY <1>1, <2>1, AppendProperties
  <2>3. Ring!RingType'
    BY <1>1, <1>2, <2>1, <2>2 DEF Ring!RingType
  <2>4. Ring!Entries = entries
    BY <1>2 DEF Ring!Entries
  <2>5. Ring!Entries' = entries'
    <3>1. CASE Len(entries') < Capacity
      BY <3>1 DEF Ring!Entries
    <3>2. CASE ~(Len(entries') < Capacity)
      <4>1. Len(entries') = Capacity
        BY <1>1, <1>2, <2>2, <3>2
      <4>2. SubSeq(entries', 1, Capacity) \o SubSeq(entries', 1, 0) = entries'
        BY <2>2, <4>1, Unturned
      <4>3. Ring!Entries' = SubSeq(entries', 0 + 1, Capacity) \o SubSeq(entries', 1, 0)
        BY <2>1, <3>2 DEF Ring!Entries
      <4>4. QED
        BY <4>2, <4>3
    <3>3. QED
      BY <3>1, <3>2
  <2>6. Window!Add(l)
    BY <1>2, <2>1, <2>4, <2>5 DEF Window!Add
  <2>7. QED
    BY <2>3, <2>6
<1>3. CASE ~(Len(entries) < Capacity)
  <2> DEFINE t == (start + 1) % Capacity
             p == SubSeq(entries, start + 1, Capacity) \o SubSeq(entries, 1, start)
             q == SubSeq(entries', t + 1, Capacity) \o SubSeq(entries', 1, t)
             w == Append(Tail(p), l)
  <2>1. Len(entries) = Capacity
    BY <1>1, <1>3
  <2>2. entries' = [entries EXCEPT ![start + 1] = l] /\ start' = t
    BY <1>3 DEF Ring!Add
  <2>3. t = IF start + 1 = Capacity THEN 0 ELSE start + 1
    <3>1. CASE start + 1 = Capacity
      BY <3>1
    <3>2. CASE start + 1 # Capacity
      <4>1. start + 1 \in 0..(Capacity - 1)
        BY <1>1, <3>2
      <4>2. QED
        BY <4>1, <3>2
    <3>3. QED
      BY <3>1, <3>2
  <2>4. t \in 0..(Capacity - 1)
    BY <1>1, <2>3
  <2>5. start + 1 \in 1..Capacity
    BY <1>1
  <2>6. /\ entries' \in Seq(Line) /\ Len(entries') = Capacity
        /\ \A i \in 1..Capacity :
             entries'[i] = IF i = start + 1 THEN l ELSE entries[i]
    BY <1>1, <2>1, <2>2, <2>5
  <2>7. Ring!RingType'
    BY <2>2, <2>4, <2>6 DEF Ring!RingType
  <2>8. /\ p \in Seq(Line) /\ Len(p) = Capacity
        /\ \A i \in 1..Capacity :
             p[i] = entries[IF i <= Capacity - start THEN start + i
                            ELSE i - (Capacity - start)]
    BY <1>1, <2>1, Pieces
  <2>9. /\ q \in Seq(Line) /\ Len(q) = Capacity
        /\ \A i \in 1..Capacity :
             q[i] = entries'[IF i <= Capacity - t THEN t + i ELSE i - (Capacity - t)]
    BY <2>4, <2>6, Pieces
  <2>10. Ring!Entries = p /\ Ring!Entries' = q
    BY <1>3, <2>1, <2>2, <2>6 DEF Ring!Entries
  <2> HIDE DEF p, q, t
  <2>11. /\ Tail(p) \in Seq(Line) /\ Len(Tail(p)) = Capacity - 1
         /\ \A i \in 1..(Capacity - 1) : Tail(p)[i] = p[i + 1]
    <3>1. p # <<>>
      BY <2>8
    <3>2. QED
      BY <2>8, <3>1, HeadTailProperties
  <2>12. /\ w \in Seq(Line) /\ Len(w) = Capacity
         /\ \A i \in 1..Capacity : w[i] = IF i = Capacity THEN l ELSE p[i + 1]
    <3>1. /\ w \in Seq(Line) /\ Len(w) = Capacity - 1 + 1
          /\ \A i \in 1..Len(Tail(p)) : w[i] = Tail(p)[i]
          /\ w[Capacity - 1 + 1] = l
      BY <2>11, AppendProperties
    <3>2. QED
      BY <2>11, <3>1
  <2> HIDE DEF w
  <2>13. ASSUME NEW i \in 1..Capacity
         PROVE  q[i] = w[i]
    <3>1. CASE i = Capacity
      <4>1. q[i] = entries'[start + 1]
        BY <1>1, <2>3, <2>4, <2>9, <3>1
      <4>2. QED
        BY <2>5, <2>6, <2>12, <3>1, <4>1
    <3>2. CASE i # Capacity /\ i <= Capacity - (start + 1)
      <4>1. q[i] = entries'[start + 1 + i]
        BY <1>1, <2>3, <2>9, <3>2
      <4>2. p[i + 1] = entries[start + (i + 1)]
        BY <1>1, <2>8, <3>2
      <4>3. start + 1 + i \in 1..Capacity /\ start + 1 + i # start + 1
        BY <1>1, <3>2
      <4>4. entries'[start + 1 + i] = entries[start + 1 + i]
        BY <2>6, <4>3
      <4>5. start + (i + 1) = start + 1 + i
        BY <1>1
      <4>6. QED
        BY <2>12, <3>2, <4>1, <4>2, <4>4, <4>5
    <3>3. CASE i # Capacity /\ ~(i <= Capacity - (start + 1))
      <4> DEFINE k == i - (Capacity - (start + 1))
      <4>1. k \in 1..start
        BY <1>1, <3>3
      <4>2. q[i] = entries'[k]
        <5>1. CASE start + 1 = Capacity
          <6>1. t = 0 /\ k = i
            BY <1>1, <2>3, <5>1
          <6>2. i <= Capacity - t /\ t + i = i
            BY <6>1
          <6>3. q[i] = entries'[i]
            BY <2>9, <6>2
          <6>4. QED
            BY <6>1, <6>3
        <5>2. CASE start + 1 # Capacity
          BY <1>1, <2>3, <2>9, <3>3, <5>2
        <5>3. QED
          BY <5>1, <5>2
      <4>3. p[i + 1] = entries[k]
        <5>1. i + 1 \in 1..Capacity /\ ~(i + 1 <= Capacity - start)
          BY <1>1, <3>3
        <5>2. (i + 1) - (Capacity - start) = k
          BY <1>1
        <5>3. QED
          BY <2>8, <5>1, <5>2
      <4>4. k \in 1..Capacity /\ k # start + 1
        BY <1>1, <4>1
      <4>5. entries'[k] = entries[k]
        BY <2>6, <4>4
      <4>6. QED
        BY <2>12, <3>3, <4>2, <4>3, <4>5
    <3>4. QED
      BY <3>1, <3>2, <3>3
  <2>14. q = w
    BY <2>9, <2>12, <2>13, SeqEqual
  <2>15. Window!Add(l)
    BY <2>8, <2>10, <2>14 DEF Window!Add, w
  <2>16. QED
    BY <2>7, <2>15
<1>4. QED
  BY <1>2, <1>3

LEMMA RingStart ==
  ASSUME Ring!Init
  PROVE  Ring!RingType /\ Window!Init
<1>1. Len(entries) = 0 /\ start = 0 /\ entries = <<>>
  BY DEF Ring!Init
<1>2. QED
  BY <1>1, SupervisorAssumption DEF Ring!Init, Ring!RingType, Ring!Entries, Window!Init

-----------------------------------------------------------------------------
(* The tunnel.                                                             *)

\* The log of a tunnel stands apart: each step adds one line or none.
LEMMA RingSteps ==
  ASSUME Next
  PROVE  (\E l \in Line : Ring!Add(l)) \/ UNCHANGED ring
BY DEF Next, Start, Stop, RunStep, Leave, Goes, PortFree, NoPort, Spawn, Fork, Started,
       SpawnFails, WaitReturns, Report, ProcessExits, Callback, PollStep, PollEnds,
       PollAnswered, PollReports, PumpLog

LEMMA RingTypes == Ring!RingType /\ [Next]_vars => Ring!RingType'
<1>1. CASE UNCHANGED vars
  BY <1>1 DEF vars, ring, Ring!RingType
<1>2. CASE Next
  BY <1>2, RingSteps, RingStep DEF ring, Ring!RingType
<1>3. QED
  BY <1>1, <1>2

\* The log a tunnel shows is its last Capacity lines, oldest first.
THEOREM LogShowsTheLast == Spec => LogIsWindow
<1>1. Init => Ring!RingType /\ Window!Init
  BY RingStart DEF Init
<1>2. Ring!RingType /\ [Next]_vars => Ring!RingType'
  BY RingTypes
<1>3. Ring!RingType /\ [Next]_vars => [Window!Next]_(Ring!Entries)
  <2> SUFFICES ASSUME Ring!RingType, [Next]_vars
               PROVE  [Window!Next]_(Ring!Entries)
    OBVIOUS
  <2>1. CASE UNCHANGED ring \/ UNCHANGED vars
    BY <2>1 DEF vars, ring, Ring!Entries
  <2>2. ASSUME NEW l \in Line, Ring!Add(l)
        PROVE  Window!Next
    BY <2>2, RingStep DEF Window!Next
  <2>3. QED
    BY <2>1, <2>2, RingSteps
<1>4. QED
  BY <1>1, <1>2, <1>3, PTL DEF Spec, LogIsWindow, Window!Spec

\* Setting the status keeps the types of what it touches.
LEMMA SetStateTypes ==
  ASSUME StatusTypes, NEW a \in Actor, NEW s \in State, setState(a, s)
  PROVE  status' \in State /\ calls' \in [Actor -> State \cup {Silent}]
BY DEF StatusTypes, setState

LEMMA ActorsAre == Runner \in Actor /\ Stopper \in Actor /\ Spawns \subseteq Actor
BY DEF Actor

\* What TypeOK says of the goroutine, without the log.
Places ==
  /\ LoopTypes
  /\ process => run \in {"started", "wait"}
  /\ run = "fork" => spawned < MaxSpawns
  /\ run \in {"started", "wait"} => spawned > 0
  /\ ctx = "none" <=> run = "idle"

LEMMA PlacesKept == Places /\ [Next]_vars => Places'
<1> SUFFICES ASSUME Places, [Next]_vars
             PROVE  Places'
  OBVIOUS
<1> USE DEF Places, LoopTypes
<1>1. CASE Start
  BY <1>1 DEF Start
<1>2. CASE Stop
  BY <1>2 DEF Stop
<1>3. CASE Leave
  BY <1>3 DEF Leave, Goto
<1>4. CASE Goes
  BY <1>4 DEF Goes, Goto
<1>5. CASE PortFree
  BY <1>5 DEF PortFree, Goto
<1>6. CASE NoPort
  BY <1>6 DEF NoPort, Goto
<1>7. CASE Spawn
  BY <1>7 DEF Spawn, Goto
<1>8. CASE Fork
  <2>1. spawned < MaxSpawns /\ spawned' = spawned + 1
    BY <1>8 DEF Fork, Goto
  <2>2. spawned' \in 0..MaxSpawns /\ spawned' > 0
    BY <2>1, SupervisorAssumption
  <2>3. QED
    BY <1>8, <2>2 DEF Fork, Goto
<1>9. CASE Started
  BY <1>9 DEF Started, Goto
<1>10. CASE SpawnFails
  BY <1>10 DEF SpawnFails, Goto
<1>11. CASE WaitReturns
  BY <1>11 DEF WaitReturns, Goto
<1>12. CASE Report
  BY <1>12 DEF Report, Goto
<1>13. CASE ProcessExits
  BY <1>13 DEF ProcessExits
<1>14. ASSUME NEW a \in Actor, Callback(a)
       PROVE  Places'
  BY <1>14 DEF Callback, loop
<1>15. ASSUME NEW n \in Spawns, PollStep(n)
       PROVE  Places'
  BY <1>15 DEF PollStep, PollEnds, PollAnswered, PollReports, loop
<1>16. ASSUME NEW l \in Line, PumpLog(l)
       PROVE  Places'
  BY <1>16 DEF PumpLog, loop
<1>17. CASE UNCHANGED vars
  BY <1>17 DEF vars, loop
<1>18. QED
  BY <1>1, <1>2, <1>3, <1>4, <1>5, <1>6, <1>7, <1>10, <1>11, <1>12, <1>13, <1>14,
     <1>15, <1>16, <1>17, <1>8, <1>9 DEF Next, RunStep

LEMMA StatusKept == Places /\ StatusTypes /\ [Next]_vars => StatusTypes'
<1> SUFFICES ASSUME Places, StatusTypes, [Next]_vars
             PROVE  StatusTypes'
  OBVIOUS
<1> USE ActorsAre DEF StatusTypes, State
<1>1. CASE Start
  BY <1>1 DEF Start
<1>2. CASE Stop
  BY <1>2, SetStateTypes DEF Stop
<1>3. CASE Leave
  BY <1>3 DEF Leave
<1>4. CASE Goes
  BY <1>4 DEF Goes
<1>5. CASE PortFree
  BY <1>5, SetStateTypes DEF PortFree
<1>6. CASE NoPort
  BY <1>6 DEF NoPort
<1>7. CASE Spawn
  BY <1>7 DEF Spawn
<1>8. CASE Fork
  BY <1>8 DEF Fork
<1>9. CASE Started
  BY <1>9 DEF Started
<1>10. CASE SpawnFails
  BY <1>10, SetStateTypes DEF SpawnFails
<1>11. CASE WaitReturns
  BY <1>11 DEF WaitReturns
<1>12. CASE Report
  BY <1>12, SetStateTypes DEF Report
<1>13. CASE ProcessExits
  BY <1>13 DEF ProcessExits
<1>14. ASSUME NEW a \in Actor, Callback(a)
       PROVE  StatusTypes'
  BY <1>14 DEF Callback, Free, Silent
<1>15. ASSUME NEW n \in Spawns, PollStep(n)
       PROVE  StatusTypes'
  <2>1. CASE PollEnds(n)
    BY <2>1 DEF PollEnds
  <2>2. CASE PollAnswered(n)
    BY <2>2 DEF PollAnswered
  <2>3. CASE PollReports(n)
    BY <2>3, SetStateTypes DEF PollReports
  <2>4. QED
    BY <1>15, <2>1, <2>2, <2>3 DEF PollStep
<1>16. ASSUME NEW l \in Line, PumpLog(l)
       PROVE  StatusTypes'
  BY <1>16 DEF PumpLog
<1>17. CASE UNCHANGED vars
  BY <1>17 DEF vars
<1>18. QED
  BY <1>1, <1>2, <1>3, <1>4, <1>5, <1>6, <1>7, <1>10, <1>11, <1>12, <1>13, <1>14,
     <1>15, <1>16, <1>17, <1>8, <1>9 DEF Next, RunStep

\* A tunnel keeps its types, and has a process only while run waits for it or is
\* about to.
THEOREM SupervisorTypeCorrect == Spec => []TypeOK
<1>1. Init => TypeOK
  <2> SUFFICES ASSUME Init
               PROVE  TypeOK
    OBVIOUS
  <2>1. Ring!RingType
    BY RingStart DEF Init
  <2>2. Places
    <3>1. spawned \in 0..MaxSpawns
      BY SupervisorAssumption DEF Init
    <3>2. QED
      BY <3>1 DEF Init, LoopTypes, Places
  <2>3. StatusTypes
    BY DEF Init, StatusTypes, State
  <2>4. QED
    BY <2>1, <2>2, <2>3 DEF TypeOK, Places
<1>2. TypeOK /\ [Next]_vars => TypeOK'
  BY PlacesKept, StatusKept, RingTypes DEF TypeOK, Places
<1>3. QED
  BY <1>1, <1>2, PTL DEF Spec

\* Every step of a tunnel is a step a connector may take: no process is
\* started after Stop, or beside another.
THEOREM SupervisorIsConnector == Spec => Conn!Steps
<1>1. Init => Conn!Init
  BY DEF Init, Conn!Init, Life
<1>2. TypeOK /\ [Next]_vars => [Conn!Next]_(Conn!conn)
  <2> SUFFICES ASSUME TypeOK, [Next]_vars
               PROVE  Conn!Next \/ UNCHANGED <<Life, process>>
    BY DEF Conn!conn
  <2>0. /\ ctx \in {"none", "live", "done"}
        /\ ctx = "none" <=> run = "idle"
        /\ process => run \in {"started", "wait"}
    BY DEF TypeOK, LoopTypes
  <2>1. CASE Start
    <3>1. Life = "new" /\ Life' = "running" /\ UNCHANGED process
      BY <2>1 DEF Start, Life
    <3>2. Conn!Start
      BY <3>1 DEF Conn!Start
    <3>3. QED
      BY <3>2 DEF Conn!Next
  <2>2. CASE Stop
    <3>1. ctx \in {"live", "done"} /\ ctx' = "done" /\ UNCHANGED <<run, process>>
      BY <2>0, <2>2 DEF Stop
    <3>2. CASE ctx = "live" /\ run \notin {"fork", "started"}
      <4>1. Conn!Stop
        BY <3>1, <3>2 DEF Conn!Stop, Life
      <4>2. QED
        BY <4>1 DEF Conn!Next
    <3>3. CASE ctx = "done" \/ run \in {"fork", "started"}
      BY <3>1, <3>3 DEF Life
    <3>4. QED
      BY <3>1, <3>2, <3>3
  <2>3. CASE Spawn
    BY <2>3 DEF Spawn, Goto, Life
  <2>4. CASE Fork
    <3>1. /\ run = "fork" /\ run' = "started" /\ UNCHANGED ctx
          /\ ~process /\ process' = TRUE
      BY <2>0, <2>4 DEF Fork, Goto
    <3>2. Life = "running" /\ UNCHANGED Life
      BY <2>0, <3>1 DEF Life
    <3>3. Conn!Spawn
      BY <3>1, <3>2 DEF Conn!Spawn
    <3>4. QED
      BY <3>3 DEF Conn!Next
  <2>5. CASE Started \/ SpawnFails
    <3>1. /\ run \in {"spawn", "fork", "started"} /\ run' \in {"wait", "ended"}
          /\ UNCHANGED <<ctx, process>>
      BY <2>5 DEF Started, SpawnFails, Goto
    <3>2. UNCHANGED Life \/ (Life = "running" /\ Life' = "stopped")
      BY <2>0, <3>1 DEF Life
    <3>3. Conn!Stop \/ UNCHANGED <<Life, process>>
      BY <3>1, <3>2 DEF Conn!Stop
    <3>4. QED
      BY <3>3 DEF Conn!Next
  <2>6. CASE ProcessExits
    <3>1. process /\ process' = FALSE /\ UNCHANGED <<ctx, run>>
      BY <2>6 DEF ProcessExits
    <3>2. Conn!Exit
      BY <3>1 DEF Conn!Exit, Life
    <3>3. QED
      BY <3>2 DEF Conn!Next
  <2>7. CASE Leave \/ Goes \/ PortFree \/ NoPort \/ WaitReturns \/ Report
    <3>1. /\ run \notin {"idle", "fork", "started"}
          /\ run' \notin {"idle", "fork", "started"}
          /\ UNCHANGED <<ctx, process>>
      BY <2>7 DEF Leave, Goes, PortFree, NoPort, WaitReturns, Report, Goto
    <3>2. QED
      BY <3>1 DEF Life
  <2>8. ASSUME NEW a \in Actor, Callback(a)
        PROVE  UNCHANGED <<Life, process>>
    BY <2>8 DEF Callback, loop, Life
  <2>9. ASSUME NEW n \in Spawns, PollStep(n)
        PROVE  UNCHANGED <<Life, process>>
    BY <2>9 DEF PollStep, PollEnds, PollAnswered, PollReports, loop, Life
  <2>10. ASSUME NEW l \in Line, PumpLog(l)
         PROVE  UNCHANGED <<Life, process>>
    BY <2>10 DEF PumpLog, loop, Life
  <2>11. CASE UNCHANGED vars
    BY <2>11 DEF vars, loop, Life
  <2>12. QED
    BY <2>1, <2>2, <2>3, <2>4, <2>5, <2>6, <2>7, <2>8, <2>9, <2>10, <2>11
       DEF Next, RunStep
<1>3. QED
  BY <1>1, <1>2, SupervisorTypeCorrect, PTL DEF Spec, Conn!Steps
=============================================================================
