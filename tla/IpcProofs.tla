------------------------------ MODULE IpcProofs ------------------------------
(***************************************************************************)
(* Orders reach whom they are meant for: proofs for any number of launches *)
(* and commands and any set of ports, with launches that die at any moment,*)
(* answers that come late and processes that cannot be looked at.          *)
(***************************************************************************)
EXTENDS Ipc, TLAPS

\* CreateMutex never fails otherwise than with ERROR_ALREADY_EXISTS.
Mutual == "nomutex" \notin Env

-----------------------------------------------------------------------------
(* The inductive invariant.                                                *)

\* The mutex.
OneHolds == \A a, b \in Apps : app[a] \in Holding /\ app[b] \in Holding => a = b

\* Who is the instance holds it.
Owned == \A a \in Apps : app[a] \in Holding => a \in mutex

\* A launch that serves or has served.
Served(a) == app[a] \in {"serving", "closing", "closed", "gone"}

\* A stop command orders whom it found, and polls for that one.
KnowsWhom(c) ==
  cl[c].op = "stop" =>
    /\ cl[c].at = "post" =>
         /\ cl[c].info \in found /\ cl[c].aim = cl[c].info
         /\ Served(cl[c].info)
    /\ cl[c].polls => Served(cl[c].aim)
    /\ cl[c].polls /\ app[cl[c].aim] = "serving" /\ cl[c].aim \notin misled =>
         /\ cl[c].at # "remove"
         /\ cl[c].at \in {"check", "status"} => cl[c].info = cl[c].aim

StaysStopped == \A a \in stopped : Served(a) /\ (app[a] = "serving" => a \in misled)

Main ==
  /\ OneHolds /\ Owned /\ NamedUnlessRemoved
  /\ \A c \in Client : KnowsWhom(c)
  /\ StaysStopped /\ QuitIsMeant

IInv == TypeOK /\ Main

-----------------------------------------------------------------------------
(* What the steps of a client leave in its record.                         *)

Places == {"idle", "read", "check", "remove", "status", "post", "spawn", "again"}

ClientRecord ==
  [at : Places, op : {"none", "start", "stop", "tell"}, info : Apps \cup {None},
   aim : Apps \cup {None}, polls : BOOLEAN]

\* What TypeOK says of one record.
Fine(r) ==
  /\ r \in ClientRecord
  /\ r.at \in {"check", "remove", "status", "post"} => r.info # None
  /\ r.op = "stop" /\ r.polls => r.aim # None
  /\ r.at = "spawn" => r.op = "start"

\* The clients' part of TypeOK.
ClientsFine == cl \in [Client -> ClientRecord] /\ \A c \in Client : Fine(cl[c])

\* It is ClientsFine, record by record.
LEMMA TypeFine == TypeOK => ClientsFine
BY DEF TypeOK, ClientsFine, Fine, ClientRecord, Places

\* A step changes the record of one client only.
LEMMA OneRecord ==
  ASSUME TypeOK, NEW c \in Client, NEW r, Fine(r), cl' = [cl EXCEPT ![c] = r]
  PROVE  /\ ClientsFine' /\ cl'[c] = r /\ \A d \in Client \ {c} : cl'[d] = cl[d]
<1>1. cl \in [Client -> ClientRecord] /\ \A d \in Client : Fine(cl[d])
  BY TypeFine DEF ClientsFine
<1>2. r \in ClientRecord
  BY DEF Fine
<1>3. cl' \in [Client -> ClientRecord] /\ cl'[c] = r /\ \A d \in Client \ {c} : cl'[d] = cl[d]
  BY <1>1, <1>2
<1> QED
  BY <1>1, <1>3 DEF ClientsFine

\* Goto keeps all but the place.
LEMMA GotoRecord ==
  ASSUME TypeOK, NEW c \in Client, NEW at \in Places, Goto(c, at),
         at \in {"check", "remove", "status", "post"} => cl[c].info # None,
         at = "spawn" => cl[c].op = "start"
  PROVE  /\ ClientsFine' /\ \A d \in Client \ {c} : cl'[d] = cl[d]
         /\ cl'[c].at = at /\ cl'[c].op = cl[c].op /\ cl'[c].info = cl[c].info
         /\ cl'[c].aim = cl[c].aim /\ cl'[c].polls = cl[c].polls
<1> DEFINE r == [cl[c] EXCEPT !.at = at]
<1>1. Fine(cl[c])
  BY TypeFine DEF ClientsFine
<1>2. /\ Fine(r) /\ r.at = at /\ r.op = cl[c].op /\ r.info = cl[c].info
      /\ r.aim = cl[c].aim /\ r.polls = cl[c].polls
  BY <1>1 DEF Fine, ClientRecord
<1>3. cl' = [cl EXCEPT ![c] = r]
  BY DEF Goto
<1> HIDE DEF r
<1> QED
  BY <1>2, <1>3, OneRecord

\* TypeOK, from its parts.
LEMMA FineType ==
  ASSUME TypeOK, ClientsFine', app' \in [Apps -> Holding \cup {"off", "main", "second", "gone"}],
         port' \in [Apps -> Ports \cup {None}], file' \in Apps \cup {None, Torn},
         mutex' \subseteq Apps, quitting' \subseteq Apps, found' \subseteq Apps,
         stopped' \subseteq Apps, misled' \subseteq Apps
  PROVE  TypeOK'
BY DEF TypeOK, ClientsFine, Fine, ClientRecord, Places

\* A client that begins knows nothing.
LEMMA FreshRecord ==
  ASSUME TypeOK, NEW c \in Client, NEW op \in {"start", "stop", "tell"},
         cl' = [cl EXCEPT ![c] = [Idle EXCEPT !.at = "read", !.op = op]]
  PROVE  /\ ClientsFine' /\ \A d \in Client \ {c} : cl'[d] = cl[d]
         /\ cl'[c].at = "read" /\ cl'[c].polls = FALSE
<1> DEFINE r == [Idle EXCEPT !.at = "read", !.op = op]
<1>1. Fine(r) /\ r.at = "read" /\ r.polls = FALSE
  BY DEF Fine, ClientRecord, Places, Idle
<1> HIDE DEF r
<1>2. cl' = [cl EXCEPT ![c] = r]
  BY DEF r
<1> QED
  BY <1>1, <1>2, OneRecord DEF ClientsFine

\* A step of a client changes the launches so at most.
Quiet ==
  \A a \in Apps :
    \/ app'[a] \in {app[a], "gone"}
    \/ app[a] = "off" /\ app'[a] = "main"

AppType == app \in [Apps -> Holding \cup {"off", "main", "second", "gone"}]

\* A client that ends knows nothing, and is gone when it is a launch.
LEMMA EndsRecord ==
  ASSUME TypeOK, NEW c \in Client, Ends(c)
  PROVE  /\ ClientsFine' /\ \A d \in Client \ {c} : cl'[d] = cl[d]
         /\ cl'[c].at = "idle" /\ cl'[c].op = "none" /\ cl'[c].polls = FALSE
         /\ AppType' /\ Quiet
<1>1. Fine(Idle) /\ Idle.at = "idle" /\ Idle.op = "none" /\ Idle.polls = FALSE
  BY DEF Fine, ClientRecord, Places, Idle
<1>2. cl' = [cl EXCEPT ![c] = Idle]
  BY DEF Ends
<1>3. /\ ClientsFine' /\ cl'[c] = Idle
      /\ \A d \in Client \ {c} : cl'[d] = cl[d]
  BY <1>1, <1>2, OneRecord DEF ClientsFine
<1>4. AppType
  BY DEF TypeOK, AppType
<1>5. app' = IF c \in Apps THEN [app EXCEPT ![c] = "gone"] ELSE app
  BY DEF Ends
<1>6. AppType'
  BY <1>4, <1>5 DEF AppType
<1>7. ASSUME NEW a \in Apps PROVE app'[a] = app[a] \/ app'[a] = "gone"
  <2>1. CASE c \in Apps
    BY <1>4, <1>5, <2>1 DEF AppType
  <2>2. CASE c \notin Apps
    BY <1>5, <2>2
  <2> QED
    BY <2>1, <2>2
<1>8. Quiet
  BY <1>7 DEF Quiet
<1> QED
  BY <1>1, <1>3, <1>6, <1>8

-----------------------------------------------------------------------------
(* Commands.                                                               *)

\* What a quiet step keeps: the mutex, the history of stop, and what a client
\* knows whose record it leaves alone.
LEMMA QuietKeeps ==
  ASSUME IInv, Quiet, AppType', found \subseteq found', misled \subseteq misled',
         NEW d \in Client, cl'[d] = cl[d]
  PROVE  KnowsWhom(d)'
<1> USE DEF Quiet, AppType
<1>1. Fine(cl[d])
  BY TypeFine DEF IInv, ClientsFine
<1>2. AppType
  BY DEF IInv, TypeOK
<1>3. \A a \in Apps : (app'[a] = "serving" => app[a] = "serving") /\ (Served(a) => Served(a)')
  BY <1>2 DEF Served
<1>4. KnowsWhom(d)
  BY DEF IInv, Main
<1>5. cl[d].op = "stop" /\ cl[d].at = "post" => cl[d].info \in Apps
  BY <1>1 DEF Fine, ClientRecord
<1>6. cl[d].op = "stop" /\ cl[d].polls => cl[d].aim \in Apps
  BY <1>1 DEF Fine, ClientRecord
<1> QED
  BY <1>3, <1>4, <1>5, <1>6 DEF KnowsWhom

\* A quiet step makes nobody the instance.
LEMMA QuietHolds == IInv /\ Quiet /\ AppType' /\ mutex' = mutex => OneHolds' /\ Owned'
BY DEF IInv, Main, TypeOK, Quiet, AppType, OneHolds, Owned, Holding

\* A quiet step lets nobody serve who had stopped.
LEMMA QuietStops ==
  IInv /\ Quiet /\ AppType' /\ stopped' = stopped /\ misled \subseteq misled' => StaysStopped'
BY DEF IInv, Main, TypeOK, Quiet, AppType, StaysStopped, Served

\* A command's step keeps the invariant when it does for its own record, for
\* the file and for what it writes down.
LEMMA CommandFrame ==
  ASSUME IInv, NEW c \in Client, Quiet, AppType',
         ClientsFine', \A d \in Client \ {c} : cl'[d] = cl[d],
         port' = port, mutex' = mutex,
         \/ file' = file
         \/ file' = None /\ \A a \in Apps : app[a] = "serving" /\ file = a => a \in misled',
         quitting' \subseteq found', found \subseteq found', found' \subseteq Apps,
         stopped' \subseteq Apps, StaysStopped',
         misled \subseteq misled', misled' \subseteq Apps, KnowsWhom(c)'
  PROVE  IInv'
<1>1. TypeOK'
  <2>1. TypeOK
    BY DEF IInv
  <2>2. /\ port' \in [Apps -> Ports \cup {None}] /\ file' \in Apps \cup {None, Torn}
        /\ mutex' \subseteq Apps /\ quitting' \subseteq Apps
    BY <2>1 DEF TypeOK
  <2> QED
    BY <2>1, <2>2, FineType DEF AppType
<1>2. OneHolds' /\ Owned'
  BY QuietHolds
<1>3. NamedUnlessRemoved'
  <2>1. NamedUnlessRemoved /\ AppType
    BY DEF IInv, Main, TypeOK, AppType
  <2>2. \A a \in Apps : app'[a] = "serving" => app[a] = "serving"
    BY <2>1 DEF Quiet, AppType
  <2> QED
    BY <2>1, <2>2 DEF NamedUnlessRemoved
<1>4. ASSUME NEW d \in Client PROVE KnowsWhom(d)'
  BY QuietKeeps
<1>5. QuitIsMeant'
  BY DEF QuitIsMeant
<1> QED
  BY <1>1, <1>2, <1>3, <1>4, <1>5 DEF IInv, Main

\* Nothing of the launches changes.
LEMMA StandStill == TypeOK /\ app' = app => Quiet /\ AppType'
BY DEF TypeOK, Quiet, AppType

\* A command that begins knows nobody yet.
LEMMA BeginKeeps == ASSUME IInv, NEW c \in Client, Begin(c) PROVE IInv'
<1>1. TypeOK /\ Main
  BY DEF IInv
<1>2. UNCHANGED <<app, port, mutex, quitting, file, found, stopped, misled>>
  BY DEF Begin
<1>3. PICK op \in {"start", "stop", "tell"} :
        cl' = [cl EXCEPT ![c] = [Idle EXCEPT !.at = "read", !.op = op]]
  BY DEF Begin
<1>4. /\ ClientsFine' /\ \A d \in Client \ {c} : cl'[d] = cl[d]
      /\ cl'[c].at = "read" /\ cl'[c].polls = FALSE
  BY <1>1, <1>3, FreshRecord
<1>5. KnowsWhom(c)'
  BY <1>4 DEF KnowsWhom
<1>6. Quiet /\ AppType'
  BY <1>1, <1>2, StandStill
<1>7. StaysStopped'
  BY <1>2, <1>6, QuietStops
<1>8. found' \subseteq Apps /\ stopped' \subseteq Apps /\ quitting' \subseteq found'
      /\ misled' \subseteq Apps
  BY <1>1, <1>2 DEF TypeOK, Main, QuitIsMeant
<1> QED
  BY <1>2, <1>4, <1>5, <1>6, <1>7, <1>8, CommandFrame

\* A discovery that found nobody.
LEMMA LostKeeps ==
  ASSUME IInv, NEW c \in Client, Lost(c),
         port' = port, mutex' = mutex, quitting' = quitting, found' = found,
         \/ file' = file
         \/ file' = None /\ \A a \in Apps : app[a] = "serving" /\ file = a => a \in misled',
         misled \subseteq misled', misled' \subseteq Apps,
         cl[c].op = "stop" /\ cl[c].polls /\ app[cl[c].aim] = "serving"
           => cl[c].aim \in misled'
  PROVE  IInv'
<1>1. TypeOK /\ Main /\ Fine(cl[c])
  BY TypeFine DEF IInv, ClientsFine
<1>2. found' \subseteq Apps /\ quitting' \subseteq found'
  BY <1>1 DEF TypeOK, Main, QuitIsMeant
<1>3. CASE cl[c].op = "start"
  <2> DEFINE to == IF cl[c].polls THEN "again" ELSE "spawn"
  <2>1. Goto(c, to) /\ UNCHANGED <<app, stopped>>
    BY <1>3 DEF Lost
  <2>2. to \in Places /\ to \notin {"check", "remove", "status", "post"}
    BY DEF Places
  <2> HIDE DEF to
  <2>3. /\ ClientsFine' /\ \A d \in Client \ {c} : cl'[d] = cl[d]
        /\ cl'[c].at = to /\ cl'[c].op = "start"
    BY <1>1, <1>3, <2>1, <2>2, GotoRecord
  <2>4. KnowsWhom(c)'
    BY <2>3 DEF KnowsWhom
  <2>5. Quiet /\ AppType'
    BY <1>1, <2>1, StandStill
  <2>6. StaysStopped' /\ stopped' \subseteq Apps
    BY <1>1, <2>1, <2>5, QuietStops DEF TypeOK
  <2> QED
    BY <1>2, <2>3, <2>4, <2>5, <2>6, CommandFrame
<1>4. CASE cl[c].op # "start"
  <2>1. Ends(c)
    BY <1>4 DEF Lost
  <2>2. stopped' = IF cl[c].op = "stop" /\ cl[c].polls
                   THEN stopped \cup {cl[c].aim} ELSE stopped
    BY <1>4 DEF Lost
  <2>3. /\ ClientsFine' /\ \A d \in Client \ {c} : cl'[d] = cl[d]
        /\ cl'[c].at = "idle" /\ cl'[c].op = "none" /\ AppType' /\ Quiet
    BY <1>1, <2>1, EndsRecord
  <2>4. KnowsWhom(c)'
    BY <2>3 DEF KnowsWhom
  <2>5. CASE cl[c].op = "stop" /\ cl[c].polls
    <3>1. cl[c].aim \in Apps
      BY <1>1, <2>5 DEF Fine, ClientRecord
    <3>2. Served(cl[c].aim) /\ (app[cl[c].aim] = "serving" => cl[c].aim \in misled')
      BY <1>1, <2>5 DEF Main, KnowsWhom
    <3>3. \A a \in stopped' : Served(a) /\ (app[a] = "serving" => a \in misled')
      BY <1>1, <2>2, <3>2 DEF Main, StaysStopped
    <3>4. stopped' \subseteq Apps
      BY <1>1, <2>2, <3>1 DEF TypeOK
    <3>5. StaysStopped'
      BY <1>1, <2>3, <3>3, <3>4 DEF StaysStopped, Served, Quiet, TypeOK
    <3> QED
      BY <1>2, <2>3, <2>4, <3>4, <3>5, CommandFrame
  <2>6. CASE ~(cl[c].op = "stop" /\ cl[c].polls)
    <3>1. stopped' = stopped
      BY <2>2, <2>6
    <3>2. StaysStopped' /\ stopped' \subseteq Apps
      BY <1>1, <2>3, <3>1, QuietStops DEF TypeOK
    <3> QED
      BY <1>2, <2>3, <2>4, <3>2, CommandFrame
  <2> QED
    BY <2>5, <2>6
<1> QED
  BY <1>3, <1>4

\* Goto is a command's step that keeps the invariant when the place does.
LEMMA GotoKeeps ==
  ASSUME IInv, NEW c \in Client, NEW at \in Places, Goto(c, at),
         UNCHANGED <<app, port, mutex, quitting, file, found, stopped>>,
         misled \subseteq misled', misled' \subseteq Apps,
         at \in {"check", "remove", "status", "post"} => cl[c].info # None,
         at # "spawn", at # "check", at # "post",
         at = "remove" => cl[c].at = "check" /\ (app[cl[c].info] # "gone" => cl[c].info \in misled'),
         at = "status" => cl[c].at = "check"
  PROVE  IInv'
<1>1. TypeOK /\ Main
  BY DEF IInv
<1>2. /\ ClientsFine' /\ \A d \in Client \ {c} : cl'[d] = cl[d]
      /\ cl'[c].at = at /\ cl'[c].op = cl[c].op /\ cl'[c].info = cl[c].info
      /\ cl'[c].aim = cl[c].aim /\ cl'[c].polls = cl[c].polls
  BY <1>1, GotoRecord
<1>3. Fine(cl[c]) /\ KnowsWhom(c)
  BY <1>1, TypeFine DEF ClientsFine, Main
<1>4. KnowsWhom(c)'
  <2>1. cl[c].op = "stop" /\ cl[c].polls => Served(cl[c].aim) /\ cl[c].aim \in Apps
    BY <1>3 DEF KnowsWhom, Fine, ClientRecord
  <2>2. cl[c].op = "stop" /\ cl[c].polls /\ app[cl[c].aim] = "serving" /\ cl[c].aim \notin misled'
          /\ at \in {"remove", "status"} => cl[c].info = cl[c].aim /\ at # "remove"
    BY <1>3 DEF KnowsWhom
  <2>3. app' = app /\ found' = found
    OBVIOUS
  <2> QED
    BY <1>2, <2>1, <2>2, <2>3 DEF KnowsWhom, Served
<1>5. Quiet /\ AppType'
  BY <1>1, StandStill
<1>6. StaysStopped'
  BY <1>5, QuietStops
<1>7. found' \subseteq Apps /\ stopped' \subseteq Apps /\ quitting' \subseteq found'
  BY <1>1 DEF TypeOK, Main, QuitIsMeant
<1> QED
  BY <1>2, <1>4, <1>5, <1>6, <1>7, CommandFrame

\* A client ends and leaves everything else.
LEMMA EndsKeeps ==
  ASSUME IInv, NEW c \in Client, Ends(c),
         UNCHANGED <<port, mutex, quitting, file, found, stopped, misled>>
  PROVE  IInv'
<1>1. TypeOK /\ Main
  BY DEF IInv
<1>2. /\ ClientsFine' /\ \A d \in Client \ {c} : cl'[d] = cl[d]
      /\ cl'[c].at = "idle" /\ cl'[c].op = "none" /\ AppType' /\ Quiet
  BY <1>1, EndsRecord
<1>3. KnowsWhom(c)'
  BY <1>2 DEF KnowsWhom
<1>4. found' \subseteq Apps /\ stopped' \subseteq Apps /\ quitting' \subseteq found'
      /\ misled' \subseteq Apps
  BY <1>1 DEF TypeOK, Main, QuitIsMeant
<1>5. StaysStopped'
  BY <1>2, QuietStops
<1> QED
  BY <1>2, <1>3, <1>4, <1>5, CommandFrame

\* The file that is read names whoever serves, but for one that lost its file.
LEMMA ReadInfoKeeps == ASSUME IInv, NEW c \in Client, ReadInfo(c) PROVE IInv'
<1>1. TypeOK /\ Main /\ Fine(cl[c])
  BY TypeFine DEF IInv, ClientsFine
<1>2. UNCHANGED <<port, mutex, quitting, file, found, misled>> /\ misled' \subseteq Apps
  BY <1>1 DEF ReadInfo, TypeOK
<1>3. CASE file \in {None, Torn}
  <2>1. \A a \in Apps : app[a] = "serving" => a \in misled
    BY <1>1, <1>3, IpcAssumption DEF Main, NamedUnlessRemoved
  <2>2. cl[c].op = "stop" /\ cl[c].polls => cl[c].aim \in Apps
    BY <1>1 DEF Fine, ClientRecord
  <2>3. Lost(c)
    BY <1>3 DEF ReadInfo
  <2> QED
    BY <1>2, <2>1, <2>2, <2>3, LostKeeps
<1>4. CASE file \notin {None, Torn}
  <2> DEFINE r == [[cl[c] EXCEPT !.at = "check"] EXCEPT !.info = file]
  <2>1. file \in Apps /\ file # None
    BY <1>1, <1>4 DEF TypeOK
  <2>2. /\ Fine(r) /\ r.at = "check" /\ r.info = file /\ r.op = cl[c].op
        /\ r.aim = cl[c].aim /\ r.polls = cl[c].polls
    BY <1>1, <2>1 DEF Fine, ClientRecord, Places
  <2>3. cl' = [cl EXCEPT ![c] = r] /\ UNCHANGED <<app, stopped>>
    BY <1>4 DEF ReadInfo
  <2> HIDE DEF r
  <2>4. ClientsFine' /\ cl'[c] = r /\ \A d \in Client \ {c} : cl'[d] = cl[d]
    BY <1>1, <2>2, <2>3, OneRecord
  <2>5. \A a \in Apps : app[a] = "serving" => file = a \/ a \in misled
    BY <1>1 DEF Main, NamedUnlessRemoved
  <2>7. KnowsWhom(c)'
    <3>1. KnowsWhom(c)
      BY <1>1 DEF Main
    <3>2. cl[c].op = "stop" /\ cl[c].polls => Served(cl[c].aim) /\ cl[c].aim \in Apps
      BY <1>1, <3>1 DEF KnowsWhom, Fine, ClientRecord
    <3> QED
      BY <1>2, <2>2, <2>3, <2>4, <2>5, <3>2 DEF KnowsWhom, Served
  <2>8. Quiet /\ AppType'
    BY <1>1, <2>3, StandStill
  <2>9. StaysStopped' /\ found' \subseteq Apps /\ stopped' \subseteq Apps /\ quitting' \subseteq found'
    BY <1>1, <1>2, <2>3, <2>8, QuietStops DEF TypeOK, Main, QuitIsMeant
  <2> QED
    BY <1>2, <2>4, <2>7, <2>8, <2>9, CommandFrame
<1> QED
  BY <1>3, <1>4

\* What a client is wrong about is written down.
LEMMA MisleadsType ==
  ASSUME TypeOK, NEW as, Misleads(as)
  PROVE  /\ misled \subseteq misled' /\ misled' \subseteq Apps
         /\ \A a \in as \cap Apps : app[a] # "gone" => a \in misled'
BY DEF TypeOK, Misleads

\* A launch that is taken for gone and is not is written down.
LEMMA CheckAliveKeeps == ASSUME IInv, NEW c \in Client, CheckAlive(c) PROVE IInv'
<1>1. TypeOK /\ Main /\ Fine(cl[c])
  BY TypeFine DEF IInv, ClientsFine
<1>2. cl[c].at = "check" /\ UNCHANGED <<app, port, mutex, quitting, file, found, stopped>>
  BY DEF CheckAlive
<1>3. cl[c].info # None /\ cl[c].info \in Apps
  BY <1>1, <1>2 DEF Fine, ClientRecord
<1>4. CASE Goto(c, "remove") /\ Misleads({cl[c].info})
  <2>1. /\ misled \subseteq misled' /\ misled' \subseteq Apps
        /\ app[cl[c].info] # "gone" => cl[c].info \in misled'
    BY <1>1, <1>3, <1>4, MisleadsType
  <2> QED
    BY <1>2, <1>3, <1>4, <2>1, GotoKeeps DEF Places
<1>5. CASE Goto(c, "status") /\ UNCHANGED misled
  <2>1. misled \subseteq misled' /\ misled' \subseteq Apps
    BY <1>1, <1>5 DEF TypeOK
  <2> QED
    BY <1>2, <1>3, <1>5, <2>1, GotoKeeps DEF Places
<1> QED
  BY <1>4, <1>5 DEF CheckAlive

\* Whose file is removed while it serves is written down.
LEMMA RemoveStaleKeeps == ASSUME IInv, NEW c \in Client, RemoveStale(c) PROVE IInv'
<1>1. TypeOK /\ Main /\ Fine(cl[c])
  BY TypeFine DEF IInv, ClientsFine
<1>2. /\ cl[c].at = "remove" /\ file' = None /\ Lost(c)
      /\ Misleads({file}) /\ UNCHANGED <<port, mutex, quitting, found>>
  BY DEF RemoveStale
<1>3. /\ misled \subseteq misled' /\ misled' \subseteq Apps
      /\ \A a \in Apps : app[a] = "serving" /\ file = a => a \in misled'
  BY <1>1, <1>2, MisleadsType
<1>4. cl[c].op = "stop" /\ cl[c].polls /\ app[cl[c].aim] = "serving" => cl[c].aim \in misled
  BY <1>1, <1>2 DEF Main, KnowsWhom
<1> QED
  BY <1>2, <1>3, <1>4, LostKeeps

\* An answer comes from the launch that was read of, and from no other.
LEMMA AskStatusKeeps ==
  ASSUME IInv, NEW c \in Client, AskStatus(c) PROVE IInv'
<1>1. TypeOK /\ Main /\ Fine(cl[c])
  BY TypeFine DEF IInv, ClientsFine
<1>2. cl[c].at = "status" /\ UNCHANGED <<port, mutex, quitting, file>>
  BY DEF AskStatus
<1>3. cl[c].info \in Apps
  BY <1>1, <1>2 DEF Fine, ClientRecord
<1>4. KnowsWhom(c)
  BY <1>1 DEF Main
<1>5. cl[c].op = "stop" /\ cl[c].polls => cl[c].aim \in Apps
  BY <1>1 DEF Fine, ClientRecord
<1>6. CASE Answered(cl[c].info) /\ Finds(c) /\ UNCHANGED <<stopped, misled>>
  <2>0. misled \subseteq misled' /\ misled' \subseteq Apps
    BY <1>1, <1>6 DEF TypeOK
  <2>1. app[cl[c].info] = "serving"
    BY <1>6 DEF Answered, Accepts, Reaches
  <2>2. CASE cl[c].polls
    <3>1. CASE cl[c].op = "start"
      BY <1>2, <1>6, <2>2, <3>1, EndsKeeps DEF Finds
    <3>2. CASE cl[c].op # "start"
      <4>1. Goto(c, "again") /\ UNCHANGED <<app, found>>
        BY <1>6, <2>2, <3>2 DEF Finds
      <4> QED
        BY <1>2, <1>6, <2>0, <4>1, GotoKeeps DEF Places
    <3> QED
      BY <3>1, <3>2
  <2>3. CASE ~cl[c].polls
    <3> DEFINE r == [[cl[c] EXCEPT !.at = "post"] EXCEPT !.aim = cl[c].info]
    <3>1. /\ Fine(r) /\ r.at = "post" /\ r.aim = cl[c].info /\ r.op = cl[c].op
          /\ r.info = cl[c].info /\ r.polls = cl[c].polls
      BY <1>1, <1>2, <1>3 DEF Fine, ClientRecord, Places
    <3>2. /\ cl' = [cl EXCEPT ![c] = r] /\ UNCHANGED app
          /\ found' = IF cl[c].op = "stop" THEN found \cup {cl[c].info} ELSE found
      BY <1>6, <2>3 DEF Finds
    <3> HIDE DEF r
    <3>3. ClientsFine' /\ cl'[c] = r /\ \A d \in Client \ {c} : cl'[d] = cl[d]
      BY <1>1, <3>1, <3>2, OneRecord
    <3>5. KnowsWhom(c)'
      BY <2>1, <2>3, <3>1, <3>2, <3>3 DEF KnowsWhom, Served
    <3>6. Quiet /\ AppType'
      BY <1>1, <3>2, StandStill
    <3>7. StaysStopped'
      BY <1>6, <2>0, <3>6, QuietStops
    <3>8. /\ found' \subseteq Apps /\ stopped' \subseteq Apps
          /\ found \subseteq found' /\ quitting' \subseteq found'
      BY <1>1, <1>2, <1>3, <1>6, <3>2 DEF TypeOK, Main, QuitIsMeant
    <3> QED
      BY <1>2, <2>0, <3>3, <3>5, <3>6, <3>7, <3>8, CommandFrame
  <2> QED
    BY <2>2, <2>3
<1>7. CASE Lost(c) /\ UNCHANGED found /\ Misleads(IF Answered(cl[c].info) THEN {cl[c].info} ELSE {})
  <2>1. /\ misled \subseteq misled' /\ misled' \subseteq Apps
        /\ Answered(cl[c].info) /\ app[cl[c].info] # "gone" => cl[c].info \in misled'
    BY <1>1, <1>3, <1>7, MisleadsType
  <2>2. \A a \in Apps : app[a] = "serving" => Answered(a)
    BY DEF Answered, Accepts, Reaches
  <2>3. cl[c].op = "stop" /\ cl[c].polls /\ app[cl[c].aim] = "serving" => cl[c].aim \in misled'
    BY <1>2, <1>3, <1>4, <1>5, <2>1, <2>2 DEF KnowsWhom
  <2> QED
    BY <1>2, <1>7, <2>1, <2>3, LostKeeps
<1> QED
  BY <1>6, <1>7 DEF AskStatus

\* The order goes to whom the command found.
LEMMA PostOrderKeeps == ASSUME IInv, NEW c \in Client, PostOrder(c) PROVE IInv'
<1>1. TypeOK /\ Main /\ Fine(cl[c])
  BY TypeFine DEF IInv, ClientsFine
<1>2. cl[c].at = "post" /\ UNCHANGED <<port, mutex, file, found, stopped, misled>>
  BY DEF PostOrder
<1>3. KnowsWhom(c)
  BY <1>1 DEF Main
<1>4. quitting' = quitting \cup {b \in Apps : cl[c].op = "stop" /\ Accepts(cl[c].info, b)}
  BY DEF PostOrder
<1>5. quitting' \subseteq found'
  BY <1>1, <1>2, <1>3, <1>4 DEF KnowsWhom, Accepts, Main, QuitIsMeant
<1>6. found' \subseteq Apps /\ stopped' \subseteq Apps /\ misled' \subseteq Apps
  BY <1>1, <1>2 DEF TypeOK
<1>7. CASE cl[c].op = "stop" /\ Answered(cl[c].info)
  <2> DEFINE r == [[cl[c] EXCEPT !.at = "read"] EXCEPT !.polls = TRUE]
  <2>1. cl' = [cl EXCEPT ![c] = r] /\ UNCHANGED app
    BY <1>7 DEF PostOrder
  <2>2. cl[c].aim = cl[c].info /\ Served(cl[c].info) /\ cl[c].info # None
    BY <1>1, <1>2, <1>3, <1>7 DEF KnowsWhom, Fine
  <2>3. Fine(r) /\ r.at = "read" /\ r.aim = cl[c].info
    BY <1>1, <1>7, <2>2 DEF Fine, ClientRecord, Places
  <2> HIDE DEF r
  <2>4. ClientsFine' /\ cl'[c] = r /\ \A d \in Client \ {c} : cl'[d] = cl[d]
    BY <1>1, <2>1, <2>3, OneRecord
  <2>5. KnowsWhom(c)'
    BY <2>1, <2>2, <2>3, <2>4 DEF KnowsWhom, Served
  <2>6. Quiet /\ AppType'
    BY <1>1, <2>1, StandStill
  <2>7. StaysStopped'
    BY <1>2, <2>6, QuietStops
  <2> QED
    BY <1>2, <1>5, <1>6, <2>4, <2>5, <2>6, <2>7, CommandFrame
<1>8. CASE ~(cl[c].op = "stop" /\ Answered(cl[c].info))
  <2>1. Ends(c)
    BY <1>8 DEF PostOrder
  <2>2. /\ ClientsFine' /\ \A d \in Client \ {c} : cl'[d] = cl[d]
        /\ cl'[c].at = "idle" /\ cl'[c].op = "none" /\ AppType' /\ Quiet
    BY <1>1, <2>1, EndsRecord
  <2>3. KnowsWhom(c)'
    BY <2>2 DEF KnowsWhom
  <2>4. StaysStopped'
    BY <1>2, <2>2, QuietStops
  <2> QED
    BY <1>2, <1>5, <1>6, <2>2, <2>3, <2>4, CommandFrame
<1> QED
  BY <1>7, <1>8

\* Start begins a launch and polls; it orders nobody.
LEMMA SpawnTrayKeeps == ASSUME IInv, NEW c \in Client, SpawnTray(c) PROVE IInv'
<1>1. TypeOK /\ Main /\ Fine(cl[c])
  BY TypeFine DEF IInv, ClientsFine
<1>2. cl[c].at = "spawn" /\ UNCHANGED <<port, mutex, quitting, file, found, stopped, misled>>
  BY DEF SpawnTray
<1>3. CASE Ends(c)
  BY <1>2, <1>3, EndsKeeps
<1>4. ASSUME NEW a \in Apps, Goes(a, "off", "main"),
             cl' = [cl EXCEPT ![c].at = "again", ![c].polls = TRUE]
      PROVE  IInv'
  <2> DEFINE r == [[cl[c] EXCEPT !.at = "again"] EXCEPT !.polls = TRUE]
  <2>1. Fine(r) /\ r.at = "again" /\ r.op = "start"
    BY <1>1, <1>2 DEF Fine, ClientRecord, Places
  <2>2. cl' = [cl EXCEPT ![c] = r]
    BY <1>4
  <2> HIDE DEF r
  <2>3. ClientsFine' /\ cl'[c] = r /\ \A d \in Client \ {c} : cl'[d] = cl[d]
    BY <1>1, <2>1, <2>2, OneRecord
  <2>4. KnowsWhom(c)'
    BY <2>1, <2>3 DEF KnowsWhom
  <2>5. AppType
    BY <1>1 DEF TypeOK, AppType
  <2>6. Quiet /\ AppType'
    BY <1>4, <2>5 DEF Goes, Quiet, AppType
  <2>7. StaysStopped'
    BY <1>2, <2>6, QuietStops
  <2>8. found' \subseteq Apps /\ stopped' \subseteq Apps /\ quitting' \subseteq found'
        /\ misled' \subseteq Apps
    BY <1>1, <1>2 DEF TypeOK, Main, QuitIsMeant
  <2> QED
    BY <1>2, <2>3, <2>4, <2>6, <2>7, <2>8, CommandFrame
<1> QED
  BY <1>3, <1>4 DEF SpawnTray

\* A poll reads the file anew, or the command gives up.
LEMMA PollAgainKeeps == ASSUME IInv, NEW c \in Client, PollAgain(c) PROVE IInv'
<1>1. UNCHANGED <<port, mutex, quitting, file, found, stopped, misled>> /\ misled' \subseteq Apps
  BY DEF PollAgain, IInv, TypeOK
<1>2. CASE Goto(c, "read") /\ UNCHANGED app
  BY <1>1, <1>2, GotoKeeps DEF Places
<1>3. CASE Ends(c)
  BY <1>1, <1>3, EndsKeeps
<1> QED
  BY <1>2, <1>3 DEF PollAgain

\* Every step of a command keeps the invariant.
LEMMA CommandKeeps == ASSUME IInv, NEW c \in Client, Command(c) PROVE IInv'
BY BeginKeeps, ReadInfoKeeps, CheckAliveKeeps, RemoveStaleKeeps, AskStatusKeeps,
   PostOrderKeeps, SpawnTrayKeeps, PollAgainKeeps DEF Command

-----------------------------------------------------------------------------
(* Launches.                                                               *)

\* A launch goes on, to a place where it does not serve: the mutex is only for
\* one, and a file that changes was no server's.
LEMMA LaunchFrame ==
  ASSUME IInv, NEW a \in Apps, NEW to \in (Holding \ {"serving"}) \cup {"main", "second", "gone"},
         app' = [app EXCEPT ![a] = to],
         Served(a) => to \in {"closing", "closed", "gone"},
         to \in Holding => app[a] \in Holding \/ (~Held /\ a \in mutex'),
         mutex \subseteq mutex', mutex' \subseteq Apps,
         port' \in [Apps -> Ports \cup {None}], file' \in Apps \cup {None, Torn},
         file' = file \/ \A b \in Apps \ {a} : app[b] # "serving",
         ClientsFine',
         \A d \in Client : cl'[d] = cl[d] \/ (cl'[d].at = "read" /\ cl'[d].polls = FALSE),
         quitting' = quitting, found' = found, stopped' = stopped, misled' = misled
  PROVE  IInv'
<1>1. TypeOK /\ Main /\ ClientsFine
  BY TypeFine DEF IInv
<1>2. /\ app \in [Apps -> Holding \cup {"off", "main", "second", "gone"}]
      /\ quitting \subseteq Apps /\ found \subseteq Apps /\ stopped \subseteq Apps
      /\ misled \subseteq Apps
  BY <1>1 DEF TypeOK
<1>3. app' \in [Apps -> Holding \cup {"off", "main", "second", "gone"}]
  BY <1>2
<1>4. TypeOK'
  BY <1>1, <1>2, <1>3, FineType
<1>5. app'[a] = to /\ \A b \in Apps \ {a} : app'[b] = app[b]
  BY <1>2
<1>6. \A b \in Apps : (app'[b] = "serving" => b # a /\ app[b] = "serving") /\ (Served(b) => Served(b)')
  BY <1>5 DEF Served, Holding
<1>7. OneHolds'
  <2>1. SUFFICES ASSUME NEW b1 \in Apps, NEW b2 \in Apps, app'[b1] \in Holding, app'[b2] \in Holding
                 PROVE  b1 = b2
    BY DEF OneHolds
  <2>2. OneHolds /\ Owned
    BY <1>1 DEF Main
  <2>3. ASSUME NEW b \in Apps, b # a, app'[b] \in Holding, to \in Holding PROVE FALSE
    BY <1>5, <2>2, <2>3 DEF OneHolds, Owned, Held
  <2> QED
    BY <1>5, <2>1, <2>2, <2>3 DEF OneHolds
<1>8. Owned' /\ NamedUnlessRemoved'
  BY <1>1, <1>5, <1>6 DEF Main, Owned, NamedUnlessRemoved
<1>9. ASSUME NEW d \in Client PROVE KnowsWhom(d)'
  <2>1. CASE cl'[d].at = "read" /\ cl'[d].polls = FALSE
    BY <2>1 DEF KnowsWhom
  <2>2. CASE cl'[d] = cl[d]
    <3>1. KnowsWhom(d) /\ Fine(cl[d])
      BY <1>1 DEF Main, ClientsFine
    <3>3. /\ cl[d].op = "stop" /\ cl[d].at = "post" => cl[d].info \in Apps
          /\ cl[d].op = "stop" /\ cl[d].polls => cl[d].aim \in Apps
      BY <3>1 DEF Fine, ClientRecord
    <3> QED
      BY <1>6, <2>2, <3>1, <3>3 DEF KnowsWhom
  <2> QED
    BY <2>1, <2>2
<1>10. StaysStopped' /\ QuitIsMeant'
  BY <1>1, <1>2, <1>6 DEF Main, StaysStopped, QuitIsMeant
<1> QED
  BY <1>4, <1>7, <1>8, <1>9, <1>10 DEF IInv, Main

\* The same, of a launch that signals nobody.
LEMMA LaunchAlone ==
  ASSUME IInv, NEW a \in Apps, NEW to \in (Holding \ {"serving"}) \cup {"main", "second", "gone"},
         app' = [app EXCEPT ![a] = to],
         Served(a) => to \in {"closing", "closed", "gone"},
         to \in Holding => app[a] \in Holding \/ (~Held /\ a \in mutex'),
         mutex \subseteq mutex', mutex' \subseteq Apps,
         port' \in [Apps -> Ports \cup {None}],
         file' = file \/ (file' \in {None, Torn} /\ app[a] \in Holding),
         cl' = cl, quitting' = quitting, found' = found, stopped' = stopped, misled' = misled
  PROVE  IInv'
<1>1. TypeOK /\ OneHolds /\ ClientsFine
  BY TypeFine DEF IInv, Main
<1>2. file' \in Apps \cup {None, Torn}
  BY <1>1 DEF TypeOK
<1>3. file' = file \/ \A b \in Apps \ {a} : app[b] # "serving"
  BY <1>1 DEF OneHolds, Holding
<1>4. ClientsFine'
  BY <1>1 DEF ClientsFine
<1> QED
  BY <1>2, <1>3, <1>4, LaunchFrame

\* Listening, the file becomes torn, and a launch that listens holds the mutex.
LEMMA ListenKeeps == ASSUME IInv, NEW a \in Apps, Listen(a) PROVE IInv'
<1>1. port \in [Apps -> Ports \cup {None}] /\ mutex \subseteq Apps
  BY DEF IInv, TypeOK
<1>2. port' \in [Apps -> Ports \cup {None}]
  BY <1>1 DEF Listen
<1>3. app[a] = "panel" /\ app' = [app EXCEPT ![a] = "writing"] /\ file' = Torn
      /\ UNCHANGED <<mutex, quitting, cl, found, stopped, misled>>
  BY DEF Listen, Goes
<1> QED
  BY <1>1, <1>2, <1>3, LaunchAlone DEF Holding, Served

\* The second of two launches signals the first, or the mutex was free.
LEMMA AcquireKeeps == ASSUME IInv, Mutual, NEW a \in Apps, Acquire(a) PROVE IInv'
<1>1. TypeOK /\ ClientsFine
  BY TypeFine DEF IInv
<1>2. UNCHANGED <<port, quitting, file, found, stopped, misled>>
  BY DEF Acquire
<1>3. /\ port' \in [Apps -> Ports \cup {None}] /\ file' \in Apps \cup {None, Torn}
      /\ mutex \subseteq Apps
  BY <1>1, <1>2 DEF TypeOK
<1>4. CASE Held
  <2>1. /\ app[a] = "main" /\ app' = [app EXCEPT ![a] = "second"] /\ mutex' = mutex
        /\ cl' = [cl EXCEPT ![a] = [Idle EXCEPT !.at = "read", !.op = "tell"]]
    BY <1>4 DEF Acquire, Goes, Mutual
  <2>2. a \in Client
    BY DEF Client
  <2>3. /\ ClientsFine' /\ \A d \in Client \ {a} : cl'[d] = cl[d]
        /\ cl'[a].at = "read" /\ cl'[a].polls = FALSE
    BY <1>1, <2>1, <2>2, FreshRecord
  <2>4. \A d \in Client : cl'[d] = cl[d] \/ (cl'[d].at = "read" /\ cl'[d].polls = FALSE)
    BY <2>3
  <2>5. ~Served(a) /\ "second" \notin Holding
    BY <2>1 DEF Served, Holding
  <2> QED
    BY <1>2, <1>3, <2>1, <2>3, <2>4, <2>5, LaunchFrame
<1>5. CASE ~Held
  <2>1. /\ app[a] = "main" /\ app' = [app EXCEPT ![a] = "panel"] /\ cl' = cl
        /\ mutex' = mutex \cup {a}
    BY <1>5 DEF Acquire, Goes, Mutual
  <2>2. ~Served(a)
    BY <2>1 DEF Served
  <2>3. "panel" \in (Holding \ {"serving"}) \cup {"main", "second", "gone"}
    BY DEF Holding
  <2> QED
    BY <1>2, <1>3, <1>5, <2>1, <2>2, <2>3, LaunchAlone
<1> QED
  BY <1>4, <1>5

\* When it serves the file names it, and no command has found it yet.
LEMMA WrittenKeeps == ASSUME IInv, NEW a \in Apps, Written(a) PROVE IInv'
<1>1. TypeOK /\ Main /\ ClientsFine
  BY TypeFine DEF IInv
<1>2. /\ app[a] = "writing" /\ app' = [app EXCEPT ![a] = "serving"] /\ file' = a
      /\ UNCHANGED <<port, mutex, quitting, cl, found, stopped, misled>>
  BY DEF Written, Goes
<1>3. /\ app \in [Apps -> Holding \cup {"off", "main", "second", "gone"}]
      /\ port \in [Apps -> Ports \cup {None}] /\ mutex \subseteq Apps
      /\ quitting \subseteq Apps /\ found \subseteq Apps /\ stopped \subseteq Apps
      /\ misled \subseteq Apps
  BY <1>1 DEF TypeOK
<1>4. app'[a] = "serving" /\ \A b \in Apps \ {a} : app'[b] = app[b]
  BY <1>2, <1>3
<1>5. TypeOK'
  <2>1. app' \in [Apps -> Holding \cup {"off", "main", "second", "gone"}]
    BY <1>2, <1>3 DEF Holding
  <2>2. ClientsFine'
    BY <1>1, <1>2 DEF ClientsFine
  <2> QED
    BY <1>1, <1>2, <1>3, <2>1, <2>2, FineType
<1>6. (\A b \in Apps : app[b] \in Holding => b = a) /\ a \in mutex
  BY <1>1, <1>2 DEF Main, OneHolds, Owned, Holding
<1>7. OneHolds' /\ Owned' /\ NamedUnlessRemoved'
  BY <1>2, <1>4, <1>6 DEF OneHolds, Owned, NamedUnlessRemoved, Holding
<1>8. \A b \in Apps : Served(b) => b # a /\ Served(b)'
  BY <1>2, <1>4 DEF Served
<1>9. ASSUME NEW d \in Client PROVE KnowsWhom(d)'
  <2>1. KnowsWhom(d) /\ Fine(cl[d])
    BY <1>1 DEF Main, ClientsFine
  <2>2. /\ cl[d].op = "stop" /\ cl[d].at = "post" => cl[d].info \in Apps
        /\ cl[d].op = "stop" /\ cl[d].polls => cl[d].aim \in Apps
    BY <2>1 DEF Fine, ClientRecord
  <2> QED
    BY <1>2, <1>4, <1>8, <2>1, <2>2 DEF KnowsWhom
<1>10. StaysStopped' /\ QuitIsMeant'
  BY <1>1, <1>2, <1>3, <1>4, <1>8 DEF Main, StaysStopped, QuitIsMeant
<1> QED
  BY <1>5, <1>7, <1>9, <1>10 DEF IInv, Main

\* Every step of a launch keeps the invariant.
LEMMA ProcessKeeps == ASSUME IInv, Mutual, NEW a \in Apps, Process(a) PROVE IInv'
<1>1. port \in [Apps -> Ports \cup {None}] /\ mutex \subseteq Apps
  BY DEF IInv, TypeOK
<1> USE <1>1, LaunchAlone DEF Goes, Holding, Served
<1>2. CASE Launch(a)
  BY <1>2 DEF Launch
<1>3. CASE NoServer(a)
  BY <1>3 DEF NoServer
<1>4. CASE StopServing(a)
  BY <1>4 DEF StopServing
<1>5. CASE RemoveFile(a)
  BY <1>5 DEF RemoveFile
<1>6. CASE Exit(a)
  BY <1>6 DEF Exit
<1>7. CASE Crash(a)
  BY <1>7 DEF Crash
<1> QED
  BY <1>2, <1>3, <1>4, <1>5, <1>6, <1>7, AcquireKeeps, ListenKeeps, WrittenKeeps DEF Process

-----------------------------------------------------------------------------
(* The theorems.                                                           *)

\* Nothing runs at first.
LEMMA InitIInv == Init => IInv
<1> SUFFICES ASSUME Init PROVE IInv
  OBVIOUS
<1> USE DEF Init
<1>1. \A a \in Apps : app[a] = "off"
  OBVIOUS
<1>2. \A c \in Client : cl[c] = Idle /\ Idle.at = "idle" /\ Idle.op = "none"
  BY DEF Idle
<1>3. TypeOK
  BY DEF TypeOK, Idle, Holding
<1>4. OneHolds /\ Owned /\ NamedUnlessRemoved /\ StaysStopped /\ QuitIsMeant
  BY <1>1 DEF OneHolds, Owned, NamedUnlessRemoved, StaysStopped, QuitIsMeant, Holding
<1>5. \A c \in Client : KnowsWhom(c)
  BY <1>2 DEF KnowsWhom
<1> QED
  BY <1>3, <1>4, <1>5 DEF IInv, Main

\* Every step of the system keeps the invariant.
LEMMA StepIInv == ASSUME Mutual, IInv, [Next]_vars PROVE IInv'
<1>1. CASE UNCHANGED vars
  <2>1. UNCHANGED <<app, port, mutex, quitting, file, cl, found, stopped, misled>>
    BY <1>1 DEF vars
  <2>2. TypeOK'
    BY <2>1 DEF IInv, TypeOK
  <2>3. OneHolds' /\ Owned' /\ NamedUnlessRemoved' /\ StaysStopped' /\ QuitIsMeant'
    BY <2>1 DEF IInv, Main, OneHolds, Owned, NamedUnlessRemoved, StaysStopped, Served, QuitIsMeant
  <2>4. \A c \in Client : KnowsWhom(c)'
    BY <2>1 DEF IInv, Main, KnowsWhom, Served
  <2> QED
    BY <2>2, <2>3, <2>4 DEF IInv, Main
<1>2. CASE Next
  BY <1>2, ProcessKeeps, CommandKeeps DEF Next
<1> QED
  BY <1>1, <1>2

\* Types, the mutex, what the commands know and whom they found: in every state.
THEOREM IpcInvariant == ASSUME Mutual PROVE Spec => []IInv
<1>1. Init => IInv
  BY InitIInv
<1>2. IInv /\ [Next]_vars => IInv'
  BY StepIInv
<1> QED
  BY <1>1, <1>2, PTL DEF Spec

\* The state keeps its types (ipc.go and tray.go, whoever runs them).
THEOREM IpcTypeCorrect == ASSUME Mutual PROVE Spec => []TypeOK
<1>1. IInv => TypeOK
  BY DEF IInv
<1> QED
  BY <1>1, IpcInvariant, PTL

\* An order to quit reaches the launch that stop found, and no other one, with
\* any number of launches dying and taking each other's ports (ipc.go's
\* authMiddleware and Discover).
THEOREM OrdersReachWhoIsMeant == ASSUME Mutual PROVE Spec => []QuitIsMeant
<1>1. IInv => QuitIsMeant
  BY DEF IInv, Main
<1> QED
  BY <1>1, IpcInvariant, PTL

\* A server that takes requests is the one that ipc.json names, unless a client
\* has removed its file or taken it for gone: no older server's Close and no
\* later launch takes the file away (ipc.go's StartServer and Close, main.go's
\* acquireSingleInstance).
THEOREM OnlyClientsUnname == ASSUME Mutual PROVE Spec => []NamedUnlessRemoved
<1>1. IInv => NamedUnlessRemoved
  BY DEF IInv, Main
<1> QED
  BY <1>1, IpcInvariant, PTL

\* What stop says it stopped takes no more requests, but for a launch that was
\* taken for gone, or whose file was removed, while it was there (session.go's
\* stop).
THEOREM StopTellsTheTruth == ASSUME Mutual PROVE Spec => []StoppedIsStopped
<1>1. IInv => StoppedIsStopped
  BY DEF IInv, Main, StaysStopped, StoppedIsStopped
<1> QED
  BY <1>1, IpcInvariant, PTL

=============================================================================
