-------------------------- MODULE RoutePanelProofs --------------------------
(***************************************************************************)
(* Theorems about RoutePanel, for every set of hostnames and every         *)
(* capacity.  First, for every environment and every user: type            *)
(* correctness, and the invariants that tie the loop, the deletion worker  *)
(* and config.json together, each of which is inductive once the types are *)
(* known.  Then what an unhurried user may rely on: nothing published is   *)
(* forgotten (OrphanInv), and a live row is served (LiveInv), both on top  *)
(* of an invariant about how the list is read back (SyncInv).              *)
(***************************************************************************)
EXTENDS RoutePanel, SequenceTheorems, TLAPS

\* Dispatch keeps the channel within its capacity, whatever is posted.
LEMMA DispatchType ==
  ASSUME NEW p \in Post, PostsType, Dispatch(p)
  PROVE  PostsType'
<1>1. PostCap \in Nat
  BY PanelAssumption
<1>2. CASE Len(posts) < PostCap
  BY <1>1, <1>2 DEF Dispatch, PostsType
<1>3. CASE ~(Len(posts) < PostCap)
  BY <1>1, <1>3 DEF Dispatch, PostsType
<1>. QED  BY <1>2, <1>3

\* Taking a closure off the channel leaves a channel.
LEMMA DrainType ==
  ASSUME NEW kind, PostsType, Drain(kind)
  PROVE  /\ Head(posts) \in Post
         /\ Tail(posts) \in Seq(Post)
         /\ Len(Tail(posts)) <= PostCap
<1>1. posts # <<>> /\ PostCap \in Nat
  BY PanelAssumption DEF Drain
<1>2. Len(Tail(posts)) = Len(posts) - 1 /\ Len(posts) \in Nat
  BY <1>1 DEF PostsType
<1>. QED  BY <1>1, <1>2 DEF PostsType

\* An interval that starts at one tells its length.
LEMMA IntervalLength ==
  ASSUME NEW m \in Nat, NEW n \in Nat, 1..m = 1..n
  PROVE  m = n
<1>1. \A k \in Nat : k \in 1..m <=> 1 <= k /\ k <= m
  OBVIOUS
<1>2. \A k \in Nat : k \in 1..m <=> 1 <= k /\ k <= n
  OBVIOUS
<1>3. (1 <= m => m <= n) /\ (1 <= n => n <= m)
  BY <1>1, <1>2
<1>. QED  BY <1>3

\* The closures of an older tunnel generation are still closures.
LEMMA SupersededType ==
  ASSUME NEW ps \in Seq(Post)
  PROVE  Superseded(ps) \in Seq(Post) /\ Len(Superseded(ps)) = Len(ps)
<1>1. Note \in Post
  BY DEF Note, Post
<1>2. \A i \in DOMAIN ps : Superseded(ps)[i] \in Post
  BY <1>1 DEF Superseded
<1>3. Len(ps) \in Nat /\ DOMAIN ps = 1..Len(ps)
  OBVIOUS
<1>4. Superseded(ps) = [i \in 1..Len(ps) |-> Superseded(ps)[i]]
  BY <1>3 DEF Superseded
<1>5. Superseded(ps) \in [1..Len(ps) -> Post]
  BY <1>2, <1>3, <1>4
<1>6. Superseded(ps) \in Seq(Post)
  BY <1>3, <1>5, SeqDef
<1>7. DOMAIN Superseded(ps) = 1..Len(Superseded(ps)) /\ Len(Superseded(ps)) \in Nat
  BY <1>6
<1>8. DOMAIN Superseded(ps) = 1..Len(ps)
  BY <1>4
<1>9. 1..Len(Superseded(ps)) = 1..Len(ps)
  BY <1>7, <1>8
<1>10. Len(Superseded(ps)) = Len(ps)
  BY <1>3, <1>7, <1>9, IntervalLength
<1>. QED  BY <1>6, <1>10

\* A tunnel setup leaves a channel.
LEMMA EnsureTunnelType ==
  ASSUME NEW ps \in Seq(Post), Len(ps) <= PostCap, NEW paused \in BOOLEAN,
         setup \in BOOLEAN, EnsureTunnel(ps, paused)
  PROVE  PostsType' /\ setup' \in BOOLEAN
BY SupersededType DEF EnsureTunnel, PostsType

\* A save writes a list of rows and the queue.
LEMMA SaveType ==
  ASSUME NEW rs, QueueType, DiskType, Save(rs)
  PROVE  DiskType'
BY DEF Save, QueueType, DiskType

\* Publications are counted.
LEMMA PublishType ==
  ASSUME NEW hs, PubsType, Publish(hs)
  PROVE  PubsType'
BY DEF Publish, Stage, PubsType

\* A publication that goes on to its next stage is still counted.
LEMMA MoveType ==
  ASSUME NEW h \in Hosts, NEW s \in Stage, NEW t \in Stage,
         PubsType, pubs[h][s] > 0, Move(h, s, t)
  PROVE  PubsType'
BY DEF Move, PubsType

-----------------------------------------------------------------------------
\* A part of the state that does not change keeps its type.
LEMMA Frame ==
  /\ PlaceTypes /\ UNCHANGED <<phase, loop, worker, problems>> => PlaceTypes'
  /\ FlagTypes /\ UNCHANGED <<visible, disabled, client, tunnel, verifying,
                             checking, setup, wake>> => FlagTypes'
  /\ PostsType /\ UNCHANGED posts => PostsType'
  /\ RowsType /\ UNCHANGED rows => RowsType'
  /\ FetchType /\ UNCHANGED fetch => FetchType'
  /\ PubsType /\ UNCHANGED pubs => PubsType'
  /\ QueueType /\ UNCHANGED queue => QueueType'
  /\ JobType /\ UNCHANGED <<worker, job>> => JobType'
  /\ DiskType /\ UNCHANGED disk => DiskType'
  /\ CloudTypes /\ UNCHANGED <<dns, ingress, leftover>> => CloudTypes'
<1>1. PostsType /\ UNCHANGED posts => PostsType'
  BY DEF PostsType
<1>2. RowsType /\ UNCHANGED rows => RowsType'
  BY DEF RowsType
<1>3. FetchType /\ UNCHANGED fetch => FetchType'
  BY DEF FetchType
<1>4. PubsType /\ UNCHANGED pubs => PubsType'
  BY DEF PubsType
<1>5. QueueType /\ UNCHANGED queue => QueueType'
  BY DEF QueueType
<1>6. JobType /\ UNCHANGED <<worker, job>> => JobType'
  BY DEF JobType
<1>7. DiskType /\ UNCHANGED disk => DiskType'
  BY DEF DiskType
<1>8. CloudTypes /\ UNCHANGED <<dns, ingress, leftover>> => CloudTypes'
  BY DEF CloudTypes
<1>9. PlaceTypes /\ UNCHANGED <<phase, loop, worker, problems>> => PlaceTypes'
  BY DEF PlaceTypes
<1>10. FlagTypes /\ UNCHANGED <<visible, disabled, client, tunnel, verifying,
                             checking, setup, wake>> => FlagTypes'
  BY Zenon DEF FlagTypes
<1>. QED  BY <1>1, <1>2, <1>3, <1>4, <1>5, <1>6, <1>7, <1>8, <1>9, <1>10

\* A session starts with a well-typed state.
LEMMA InitTypeOK == Init => TypeOK
<1>. SUFFICES ASSUME Init PROVE TypeOK
  OBVIOUS
<1>1. PostCap \in Nat /\ MaxQueue \in Nat
  BY PanelAssumption
<1>2. PlaceTypes /\ FlagTypes
  BY DEF Init, PlaceTypes, FlagTypes
<1>3. PostsType /\ QueueType
  BY <1>1 DEF Init, PostsType, QueueType
<1>4. RowsType /\ JobType
  BY DEF Init, RowsType, JobType
<1>5. FetchType
  BY DEF Init, FetchType, NoFetch
<1>6. PubsType
  BY DEF Init, PubsType, NoPubs
<1>7. DiskType /\ CloudTypes
  BY <1>1 DEF Init, DiskType, CloudTypes
<1>. QED  BY <1>2, <1>3, <1>4, <1>5, <1>6, <1>7 DEF TypeOK

\* Every action keeps the types.
LEMMA NextTypeOK == TypeOK /\ [Next]_vars => TypeOK'
<1>. SUFFICES ASSUME TypeOK, [Next]_vars PROVE TypeOK'
  OBVIOUS
<1>. USE DEF panel, tasks, deletion, cloud
<1>a. /\ Note \in Post
      /\ [kind |-> "toggle"] \in Post /\ [kind |-> "verified"] \in Post
      /\ [kind |-> "unverified"] \in Post /\ [kind |-> "tunnelReady"] \in Post
  BY DEF Post, Note
<1>b. \A h \in Hosts : /\ [kind |-> "live", host |-> h] \in Post
                       /\ [kind |-> "failed", host |-> h] \in Post
  BY DEF Post
<1>c. PostCap \in Nat /\ MaxQueue \in Nat /\ StartPaused \subseteq BOOLEAN
  BY PanelAssumption
<1>d. [kind |-> "saved", left |-> problems # {}] \in Post
  BY DEF Post
<1>1. CASE Launch
  <2>1. PlaceTypes'
    BY <1>1 DEF Launch, PlaceTypes, TypeOK
  <2>1a. disabled' \in BOOLEAN
    BY <1>1, <1>c DEF Launch
  <2>1b. verifying' \in BOOLEAN
    <3>1. CASE "tokenless" \in Env
      BY Zenon, <1>1, <3>1 DEF Launch
    <3>2. CASE "tokenless" \notin Env
      BY Zenon, <1>1, <3>2 DEF Launch
    <3> QED
      BY <3>1, <3>2
  <2>2a. wake' \in BOOLEAN /\ checking' = verifying'
    BY Zenon, <1>1 DEF Launch
  <2>2b. FlagTypes'
    BY Zenon, <1>1, <2>1a, <2>1b, <2>2a DEF Launch, FlagTypes, TypeOK
  <2>3. RowsType'
    BY <1>1 DEF Launch, RowsType, Status
  <2>4. QueueType'
    BY <1>1 DEF Launch, QueueType, DiskType, TypeOK
  <2>5. JobType'
    BY <1>1 DEF Launch, JobType
  <2>. QED
    BY <1>1, <2>1, <2>2b, <2>3, <2>4, <2>5, Frame DEF Launch, TypeOK
<1>2. CASE Quit
  <2>1. PlaceTypes'
    BY <1>2 DEF Quit, PlaceTypes, TypeOK
  <2>. QED
    BY <1>2, <2>1, Frame DEF Quit, TypeOK
<1>3. CASE Gone
  <2>1. PlaceTypes'
    BY <1>3 DEF Gone, PlaceTypes, TypeOK
  <2>2. FlagTypes'
    BY Zenon, <1>3 DEF Gone, FlagTypes, TypeOK
  <2>3. PostsType' /\ QueueType'
    BY <1>3, <1>c DEF Gone, PostsType, QueueType
  <2>4. RowsType' /\ JobType'
    BY <1>3 DEF Gone, RowsType, JobType
  <2>5. FetchType'
    BY <1>3 DEF Gone, FetchType, NoFetch
  <2>6. PubsType'
    BY <1>3 DEF Gone, PubsType, NoPubs
  <2>. QED
    BY <1>3, <2>1, <2>2, <2>3, <2>4, <2>5, <2>6, Frame DEF Gone, TypeOK
<1>4. CASE Show
  <2>1. FlagTypes'
    BY Zenon, <1>4 DEF Show, FlagTypes, TypeOK
  <2>2. PostsType'
    BY <1>4, <1>a, DispatchType DEF Show, TypeOK
  <2>. QED
    BY <1>4, <2>1, <2>2, Frame DEF Show, TypeOK
<1>5. CASE Hide
  <2>1. FlagTypes'
    BY Zenon, <1>5 DEF Hide, FlagTypes, TypeOK
  <2>. QED
    BY <1>5, <2>1, Frame DEF Hide, TypeOK
<1>6. CASE Toggle
  <2>1. PostsType'
    BY <1>6, <1>a, DispatchType DEF Toggle, TypeOK
  <2>. QED
    BY <1>6, <2>1, Frame DEF Toggle, TypeOK
<1>7. CASE Verified
  <2>1. FlagTypes'
    BY Zenon, <1>7 DEF Verified, FlagTypes, TypeOK
  <2>2. PostsType'
    BY <1>7, <1>a, DispatchType DEF Verified, TypeOK
  <2>. QED
    BY <1>7, <2>1, <2>2, Frame DEF Verified, TypeOK
<1>8. CASE SetUp
  <2>1. FlagTypes'
    BY Zenon, <1>8 DEF SetUp, FlagTypes, TypeOK
  <2>2. PostsType'
    BY <1>8, <1>a, DispatchType DEF SetUp, PostsType, TypeOK
  <2>. QED
    BY <1>8, <2>1, <2>2, Frame DEF SetUp, TypeOK
<1>9. CASE FetchIngress
  <2>1. PostsType'
    BY <1>9, <1>a, DispatchType, Frame DEF FetchIngress, TypeOK
  <2>2. NoFetch \in [at : {"none"}, stored : SUBSET Hosts, mapped : SUBSET Hosts,
              named : SUBSET Hosts]
    BY <1>9 DEF NoFetch
  <2>3. ingress \subseteq Hosts
    BY <1>9 DEF CloudTypes, TypeOK
  <2>4. FetchType'
    BY <1>9, <2>2, <2>3 DEF FetchIngress, FetchType, TypeOK
  <2>. QED
    BY <1>9, <2>1, <2>2, <2>3, <2>4, Frame DEF FetchIngress, TypeOK
<1>10. CASE FetchDns
  <2>1. FetchType'
    BY <1>10 DEF FetchDns, FetchType, TypeOK
  <2>. QED
    BY <1>10, <2>1, Frame DEF FetchDns, TypeOK
<1>11. CASE FetchDone
  <2>1. [kind |-> "reconciled", kept |-> Kept] \in Post
    BY <1>11 DEF Post, Kept, Status
  <2>2. PostsType'
    BY <1>11, <2>1, DispatchType DEF FetchDone, TypeOK
  <2>3. FetchType'
    BY <1>11 DEF FetchDone, FetchType, NoFetch
  <2>. QED
    BY <1>11, <2>1, <2>2, <2>3, Frame DEF FetchDone, TypeOK
<1>12. CASE RunVerified
  <2>1. disabled \in BOOLEAN /\ setup \in BOOLEAN
    BY Zenon, <1>12 DEF FlagTypes, TypeOK
  <2>2. PostsType' /\ setup' \in BOOLEAN
    BY <1>12, <2>1, DrainType, EnsureTunnelType DEF RunVerified, TypeOK
  <2>3. FlagTypes'
    BY Zenon, <1>12, <2>2 DEF RunVerified, FlagTypes, TypeOK
  <2>4. DiskType'
    BY <1>12, SaveType DEF RunVerified, TypeOK
  <2>. QED
    BY <1>12, <2>1, <2>2, <2>3, <2>4, Frame DEF RunVerified, TypeOK
<1>13. CASE RunUnverified
  <2>1. PostsType'
    BY <1>13, DrainType DEF RunUnverified, PostsType, TypeOK
  <2>2. FlagTypes'
    BY Zenon, <1>13 DEF RunUnverified, FlagTypes, TypeOK
  <2>. QED
    BY <1>13, <2>1, <2>2, Frame DEF RunUnverified, TypeOK
<1>14. CASE RunToggle
  <2>1. disabled' \in BOOLEAN
    BY Zenon, <1>14 DEF RunToggle
  <2>2. Tail(posts) \in Seq(Post) /\ Len(Tail(posts)) <= PostCap
    BY <1>14, DrainType DEF RunToggle, TypeOK
  <2>3. setup \in BOOLEAN
    BY Zenon, <1>14 DEF FlagTypes, TypeOK
  <2>4. PostsType' /\ setup' \in BOOLEAN
    BY <1>14, <2>1, <2>2, <2>3, EnsureTunnelType DEF RunToggle, PostsType,
       TypeOK
  <2>5. FlagTypes'
    BY Zenon, <1>14, <2>1, <2>4 DEF RunToggle, FlagTypes, TypeOK
  <2>6. DiskType'
    BY <1>14, SaveType DEF RunToggle, TypeOK
  <2>. QED
    BY <1>14, <2>1, <2>2, <2>3, <2>4, <2>5, <2>6, Frame DEF RunToggle, TypeOK
<1>15. CASE RunTunnelReady
  <2>1. PostsType'
    BY <1>15, DrainType DEF RunTunnelReady, PostsType, TypeOK
  <2>2. FlagTypes'
    BY Zenon, <1>15 DEF RunTunnelReady, FlagTypes, TypeOK
  <2>3. FetchType'
    BY <1>15, Frame DEF RunTunnelReady, FetchType, NoFetch, HasRow, TypeOK
  <2>. QED
    BY <1>15, <2>1, <2>2, <2>3, Frame DEF RunTunnelReady, TypeOK
<1>16. CASE RunReconciled
  <2>1. PostsType'
    BY <1>16, DrainType DEF RunReconciled, PostsType, TypeOK
  <2>2. Head(posts) \in Post /\ Head(posts).kind = "reconciled"
    BY <1>16, DrainType DEF RunReconciled, Drain, TypeOK
  <2>3. RowsType'
    BY <1>16, <2>2 DEF RunReconciled, RowsType, Post
  <2>4. PubsType'
    BY <1>16, PublishType DEF RunReconciled, TypeOK
  <2>5. DiskType'
    BY <1>16, SaveType DEF RunReconciled, TypeOK
  <2>6. CloudTypes'
    BY <1>16 DEF RunReconciled, Listed, CloudTypes, TypeOK
  <2>. QED
    BY <1>16, <2>1, <2>2, <2>3, <2>4, <2>5, <2>6, Frame DEF RunReconciled,
       TypeOK
<1>17. CASE RunSaved
  <2>1. PostsType'
    BY <1>17, DrainType DEF RunSaved, PostsType, TypeOK
  <2>2. DiskType'
    BY <1>17, SaveType DEF RunSaved, TypeOK
  <2>. QED
    BY <1>17, <2>1, <2>2, Frame DEF RunSaved, TypeOK
<1>18. CASE RunNote
  <2>1. PostsType'
    BY <1>18, DrainType DEF RunNote, PostsType, TypeOK
  <2>. QED
    BY <1>18, <2>1, Frame DEF RunNote, TypeOK
<1>19. CASE Drained
  <2>1. PlaceTypes'
    BY <1>19 DEF Drained, PlaceTypes, TypeOK
  <2>. QED
    BY <1>19, <2>1, Frame DEF Drained, TypeOK
<1>20. CASE NoInput
  <2>1. PlaceTypes'
    BY <1>20 DEF NoInput, PlaceTypes, TypeOK
  <2>. QED
    BY <1>20, <2>1, Frame DEF NoInput, TypeOK
<1>21. CASE SignalWorker
  <2>1. PlaceTypes'
    BY <1>21 DEF SignalWorker, PlaceTypes, TypeOK
  <2>2. FlagTypes'
    BY Zenon, <1>21 DEF SignalWorker, FlagTypes, TypeOK
  <2>. QED
    BY <1>21, <2>1, <2>2, Frame DEF SignalWorker, TypeOK
<1>22. CASE Reverify
  <2>1. PlaceTypes'
    BY <1>22 DEF Reverify, PlaceTypes, TypeOK
  <2>2. FlagTypes'
    BY Zenon, <1>22 DEF Reverify, FlagTypes, TypeOK
  <2>. QED
    BY <1>22, <2>1, <2>2, Frame DEF Reverify, TypeOK
<1>23. CASE SaveDeletion
  <2>1. PlaceTypes'
    BY <1>23 DEF SaveDeletion, PlaceTypes, TypeOK
  <2>2. DiskType'
    BY <1>23, SaveType DEF SaveDeletion, TypeOK
  <2>. QED
    BY <1>23, <2>1, <2>2, Frame DEF SaveDeletion, TypeOK
<1>24. CASE WorkerWakes
  <2>1. PlaceTypes'
    BY <1>24 DEF WorkerWakes, PlaceTypes, TypeOK
  <2>2. JobType'
    BY <1>24 DEF WorkerWakes, JobType, TypeOK
  <2>3. FlagTypes'
    BY Zenon, <1>24 DEF WorkerWakes, FlagTypes, TypeOK
  <2>. QED
    BY <1>24, <2>1, <2>2, <2>3, Frame DEF WorkerWakes, TypeOK
<1>25. CASE WorkerStops
  <2>1. PlaceTypes'
    BY <1>25 DEF WorkerStops, PlaceTypes, TypeOK
  <2>2. JobType'
    BY <1>25 DEF WorkerStops, JobType
  <2>. QED
    BY <1>25, <2>1, <2>2, Frame DEF WorkerStops, TypeOK
<1>26. CASE TakeJob
  <2>1. PlaceTypes'
    BY <1>26 DEF TakeJob, PlaceTypes, TypeOK
  <2>2. PostsType'
    BY <1>26, <1>a, DispatchType, Frame DEF TakeJob, TypeOK
  <2>3. JobType'
    BY <1>26 DEF TakeJob, JobType, QueueType, TypeOK
  <2>. QED
    BY <1>26, <2>1, <2>2, <2>3, Frame DEF TakeJob, TypeOK
<1>27. CASE HaveClient
  <2>1. PlaceTypes'
    BY <1>27 DEF HaveClient, PlaceTypes, TypeOK
  <2>2. job.tun \in BOOLEAN /\ tunnel \in BOOLEAN
    BY SMT, <1>27 DEF HaveClient, JobType, Job, FlagTypes, TypeOK
  <2>3. (job.tun \/ tunnel) \in BOOLEAN
    BY Zenon, <1>27, <2>2
  <2>4. JobType'
    BY <1>27, <2>3 DEF HaveClient, JobType, Job, TypeOK
  <2>. QED
    BY <1>27, <2>1, <2>2, <2>3, <2>4, Frame DEF HaveClient, TypeOK
<1>28. CASE NoClient
  <2>1. PlaceTypes'
    BY <1>28 DEF NoClient, PlaceTypes, TypeOK
  <2>2. JobType'
    BY <1>28 DEF NoClient, JobType, TypeOK
  <2>. QED
    BY <1>28, <2>1, <2>2, Frame DEF NoClient, TypeOK
<1>29. CASE AwaitClient
  <2>1. PlaceTypes'
    BY <1>29 DEF AwaitClient, PlaceTypes, TypeOK
  <2>2. JobType'
    BY <1>29 DEF AwaitClient, JobType, TypeOK
  <2>. QED
    BY <1>29, <2>1, <2>2, Frame DEF AwaitClient, TypeOK
<1>30. CASE UnpublishDns
  <2>1. PlaceTypes'
    BY <1>30 DEF UnpublishDns, PlaceTypes, TypeOK, Trouble
  <2>2. JobType'
    BY <1>30 DEF UnpublishDns, JobType, TypeOK
  <2>3. CloudTypes'
    BY <1>30 DEF UnpublishDns, CloudTypes, TypeOK
  <2>. QED
    BY <1>30, <2>1, <2>2, <2>3, Frame DEF UnpublishDns, TypeOK
<1>31. CASE UnpublishIngress
  <2>1. PlaceTypes'
    BY <1>31 DEF UnpublishIngress, PlaceTypes, TypeOK, Trouble
  <2>2. JobType'
    BY <1>31 DEF UnpublishIngress, JobType, TypeOK
  <2>3. CloudTypes'
    BY <1>31 DEF UnpublishIngress, CloudTypes, TypeOK
  <2>. QED
    BY <1>31, <2>1, <2>2, <2>3, Frame DEF UnpublishIngress, TypeOK
<1>32. CASE PopJob
  <2>1. PlaceTypes'
    BY <1>32 DEF PopJob, PlaceTypes, TypeOK
  <2>2. JobType'
    BY <1>32 DEF PopJob, JobType, TypeOK
  <2>3. QueueType'
    BY <1>32, <1>c DEF PopJob, QueueType, TypeOK
  <2>4. job.host \in Hosts
    BY <1>32 DEF PopJob, JobType, Job, TypeOK
  <2>5. CloudTypes'
    BY <1>32, <2>4 DEF PopJob, CloudTypes, TypeOK
  <2>. QED
    BY <1>32, <2>1, <2>2, <2>3, <2>4, <2>5, Frame DEF PopJob, TypeOK
<1>33. CASE ReportJob
  <2>1. PlaceTypes'
    BY <1>33 DEF ReportJob, PlaceTypes, TypeOK
  <2>2. PostsType'
    BY <1>33, <1>d, DispatchType DEF ReportJob, TypeOK
  <2>3. JobType'
    BY <1>33 DEF ReportJob, JobType
  <2>. QED
    BY <1>33, <2>1, <2>2, <2>3, Frame DEF ReportJob, TypeOK
<1>34. ASSUME NEW h \in Hosts, PublishDns(h) PROVE TypeOK'
  <2>1. PubsType'
    BY <1>34, MoveType DEF PublishDns, Stage, TypeOK
  <2>2. CloudTypes'
    BY <1>34 DEF PublishDns, CloudTypes, TypeOK
  <2>. QED
    BY <1>34, <2>1, <2>2, Frame DEF PublishDns, TypeOK
<1>35. ASSUME NEW h \in Hosts, PublishIngress(h) PROVE TypeOK'
  <2>1. PubsType'
    BY <1>35, MoveType DEF PublishIngress, Stage, TypeOK
  <2>2. CloudTypes'
    BY <1>35 DEF PublishIngress, CloudTypes, TypeOK
  <2>. QED
    BY <1>35, <2>1, <2>2, Frame DEF PublishIngress, TypeOK
<1>36. ASSUME NEW h \in Hosts, AddRoute(h) PROVE TypeOK'
  <2>1. PlaceTypes'
    BY <1>36 DEF AddRoute, PlaceTypes, TypeOK
  <2>2. RowsType'
    BY <1>36 DEF AddRoute, RowsType, Status, TypeOK
  <2>3. DiskType'
    BY <1>36, SaveType DEF AddRoute, TypeOK
  <2>4. PubsType'
    BY <1>36, PublishType, Frame DEF AddRoute, TypeOK
  <2>5. CloudTypes'
    BY <1>36 DEF AddRoute, Listed, CloudTypes, TypeOK
  <2>. QED
    BY <1>36, <2>1, <2>2, <2>3, <2>4, <2>5, Frame DEF AddRoute, TypeOK
<1>37. ASSUME NEW h \in Hosts, DeleteRoute(h) PROVE TypeOK'
  <2>1. PlaceTypes'
    BY <1>37 DEF DeleteRoute, PlaceTypes, TypeOK
  <2>2. RowsType'
    BY <1>37 DEF DeleteRoute, RowsType, TypeOK
  <2>3. tunnel \in BOOLEAN
    BY Zenon, <1>37 DEF FlagTypes, TypeOK
  <2>4. [host |-> h, tun |-> tunnel] \in Job /\ Len(queue) < MaxQueue
    BY <1>37, <2>3 DEF DeleteRoute, MayDelete, Job
  <2>5. QueueType'
    BY <1>37, <1>c, <2>4 DEF DeleteRoute, QueueType, TypeOK
  <2>. QED
    BY <1>37, <2>1, <2>2, <2>3, <2>4, <2>5, Frame DEF DeleteRoute, TypeOK
<1>38. ASSUME NEW h \in Hosts, Published(h, "live") PROVE TypeOK'
  <2>1. PostsType'
    BY <1>38, <1>b, DispatchType DEF Published, TypeOK
  <2>2. PubsType'
    BY <1>38 DEF Published, PubsType, Stage, TypeOK
  <2>. QED
    BY <1>38, <2>1, <2>2, Frame DEF Published, TypeOK
<1>39. CASE RunPublished("live")
  <2>1. PostsType'
    BY <1>39, DrainType DEF RunPublished, PostsType, TypeOK
  <2>2. RowsType'
    BY <1>39 DEF RunPublished, RowsType, Status, TypeOK
  <2>. QED
    BY <1>39, <2>1, <2>2, Frame DEF RunPublished, TypeOK
<1>40. ASSUME NEW h \in Hosts, Published(h, "failed") PROVE TypeOK'
  <2>1. PostsType'
    BY <1>40, <1>b, DispatchType DEF Published, TypeOK
  <2>2. PubsType'
    BY <1>40 DEF Published, PubsType, Stage, TypeOK
  <2>. QED
    BY <1>40, <2>1, <2>2, Frame DEF Published, TypeOK
<1>41. CASE RunPublished("failed")
  <2>1. PostsType'
    BY <1>41, DrainType DEF RunPublished, PostsType, TypeOK
  <2>2. RowsType'
    BY <1>41 DEF RunPublished, RowsType, Status, TypeOK
  <2>. QED
    BY <1>41, <2>1, <2>2, Frame DEF RunPublished, TypeOK
<1>42. CASE StatusChanges
  <2>1. PostsType'
    BY <1>42, <1>a, DispatchType DEF StatusChanges, TypeOK
  <2>. QED
    BY <1>42, <2>1, Frame DEF StatusChanges, TypeOK
<1>43. CASE UNCHANGED vars
  BY <1>43, Frame DEF vars, TypeOK
<1>. QED
  BY <1>1, <1>2, <1>3, <1>4, <1>5, <1>6, <1>7, <1>8, <1>9, <1>10, <1>11,
     <1>12, <1>13, <1>14, <1>15, <1>16, <1>17, <1>18, <1>19, <1>20, <1>21,
     <1>22, <1>23, <1>24, <1>25, <1>26, <1>27, <1>28, <1>29, <1>30, <1>31,
     <1>32, <1>33, <1>34, <1>35, <1>36, <1>37, <1>38, <1>39, <1>40, <1>41,
     <1>42, <1>43
  DEF Next, Exit, Crash, TaskStep, LoopStep, RunPost, WorkerStep

\* The panel's state keeps its types.
THEOREM PanelTypeCorrect == Spec => []TypeOK
BY InitTypeOK, NextTypeOK, PTL DEF Spec

-----------------------------------------------------------------------------
\* Only the loop's own handlers, the worker, a launch and an end touch the
\* deletion queue and what surrounds it.
LEMMA QueueSteps ==
  ASSUME [Next]_vars
  PROVE  \/ UNCHANGED <<loop, queue, wake, worker, job>>
         \/ Launch \/ Gone
         \/ Drained \/ NoInput \/ Reverify \/ SaveDeletion \/ SignalWorker
         \/ \E h \in Hosts : AddRoute(h) \/ DeleteRoute(h)
         \/ WorkerStep
<1>. USE DEF panel, tasks, deletion, cloud
<1>1. CASE Quit \/ Show \/ Hide \/ Toggle \/ StatusChanges
  BY <1>1 DEF Quit, Show, Hide, Toggle, StatusChanges
<1>2. CASE Exit \/ Crash
  BY <1>2 DEF Exit, Crash
<1>3. CASE TaskStep
  BY <1>3 DEF TaskStep, Verified, SetUp, FetchIngress, FetchDns, FetchDone,
              PublishDns, PublishIngress, Published
<1>4. CASE RunPost
  BY <1>4 DEF RunPost, RunVerified, RunUnverified, RunToggle, RunTunnelReady,
              RunReconciled, RunPublished, RunSaved, RunNote
<1>5. CASE UNCHANGED vars
  BY <1>5 DEF vars
<1>. QED
  BY <1>1, <1>2, <1>3, <1>4, <1>5 DEF Next, LoopStep

\* The worker never sleeps on a queued deletion.
LEMMA NoLostWakeupStep ==
  ASSUME NoLostWakeup, [Next]_vars
  PROVE  NoLostWakeup'
<1>. USE DEF NoLostWakeup, panel, tasks, deletion, cloud
<1>1. CASE UNCHANGED <<loop, queue, wake, worker, job>>
  BY <1>1
<1>2. CASE Launch
  BY <1>2, Zenon DEF Launch
<1>3. CASE Gone
  BY <1>3 DEF Gone
<1>4. CASE Drained \/ NoInput \/ Reverify \/ \E h \in Hosts : AddRoute(h)
  <2>1. loop \in {"drain", "input"} /\ UNCHANGED <<worker, queue, wake>>
    BY <1>4 DEF Drained, NoInput, Reverify, AddRoute, MayAdd
  <2>. QED  BY <2>1
<1>5. CASE \E h \in Hosts : DeleteRoute(h)
  BY <1>5 DEF DeleteRoute
<1>6. CASE SaveDeletion
  BY <1>6 DEF SaveDeletion
<1>7. CASE SignalWorker
  BY <1>7, Zenon DEF SignalWorker
<1>8. CASE TakeJob
  BY <1>8 DEF TakeJob
<1>9. CASE WorkerStep /\ ~TakeJob
  <2>1. worker' # "wait"
    BY <1>9 DEF WorkerStep, WorkerWakes, WorkerStops, HaveClient, AwaitClient,
                NoClient, UnpublishDns, UnpublishIngress, PopJob, ReportJob
  <2>. QED  BY <2>1
<1>. QED
  BY <1>1, <1>2, <1>3, <1>4, <1>5, <1>6, <1>7, <1>8, <1>9, QueueSteps

\* No wake-up of the deletion worker is ever lost: between deleteRoute's
\* append and its signal, over a restart, and however the worker's check of the
\* queue and the loop's append interleave.
THEOREM NoWakeupIsLost == Spec => []NoLostWakeup
<1>1. Init => NoLostWakeup
  BY DEF Init, NoLostWakeup
<1>. QED  BY <1>1, NoLostWakeupStep, PTL DEF Spec

\* The job being carried out stays the head of the queue.
LEMMA HeadIsJobStep ==
  ASSUME TypeOK, HeadIsJob, [Next]_vars
  PROVE  HeadIsJob'
<1>. USE DEF HeadIsJob, panel, tasks, deletion, cloud
<1>a. queue \in Seq(Job) /\ NoJob \notin Job
  BY PanelAssumption DEF TypeOK, QueueType, Job
<1>1. CASE UNCHANGED <<loop, queue, wake, worker, job>>
  BY <1>1
<1>2. CASE Launch \/ Gone
  BY <1>2 DEF Launch, Gone
<1>3. CASE \/ Drained \/ NoInput \/ Reverify \/ SaveDeletion \/ SignalWorker
           \/ \E h \in Hosts : AddRoute(h)
  <2>1. UNCHANGED <<worker, queue, job>>
    BY <1>3 DEF Drained, NoInput, Reverify, SaveDeletion, SignalWorker, AddRoute
  <2>. QED  BY <2>1
<1>4. ASSUME NEW h \in Hosts, DeleteRoute(h) PROVE HeadIsJob'
  <2>1. queue # <<>> => queue' # <<>> /\ Head(queue') = Head(queue)
    BY <1>4, <1>a DEF DeleteRoute
  <2>2. UNCHANGED <<worker, job>>
    BY <1>4 DEF DeleteRoute
  <2>. QED  BY <2>1, <2>2
<1>5. CASE TakeJob
  <2>1. CASE queue = <<>>
    BY <1>5, <2>1 DEF TakeJob
  <2>2. CASE queue # <<>>
    <3>1. Head(queue) \in Job
      BY <1>a, <2>2
    <3>. QED  BY <1>5, <1>a, <2>2, <3>1 DEF TakeJob
  <2>. QED  BY <2>1, <2>2
<1>6. CASE HaveClient
  <2>1. job \in Job
    BY <1>6 DEF HaveClient, TypeOK, JobType
  <2>2. job' # NoJob /\ job'.host = job.host
    BY <1>6, <2>1, <1>a DEF HaveClient, Job, TypeOK, FlagTypes
  <2>. QED  BY <1>6, <2>2 DEF HaveClient
<1>7. CASE AwaitClient \/ NoClient \/ UnpublishDns \/ UnpublishIngress
  <2>1. /\ worker \in {"client", "verify", "dns", "ingress"}
        /\ UNCHANGED <<queue, job>>
    BY <1>7 DEF AwaitClient, NoClient, UnpublishDns, UnpublishIngress
  <2>. QED  BY <2>1
<1>8. CASE WorkerWakes \/ WorkerStops \/ PopJob \/ ReportJob
  BY <1>8 DEF WorkerWakes, WorkerStops, PopJob, ReportJob
<1>. QED
  BY <1>1, <1>2, <1>3, <1>4, <1>5, <1>6, <1>7, <1>8, QueueSteps DEF WorkerStep

\* What the worker pops is what it carried out, although it lets go of deleteMu
\* in between and the loop goes on appending.
THEOREM PoppedJobIsDone == Spec => []HeadIsJob
<1>1. Init => HeadIsJob
  BY DEF Init, HeadIsJob
<1>. QED  BY <1>1, HeadIsJobStep, PanelTypeCorrect, PTL DEF Spec

-----------------------------------------------------------------------------
\* config.json can be written whenever it is saved.
Writable == "locked" \notin Env

\* A saveConfig writes the whole queue.
LEMMA SaveWritesQueue ==
  ASSUME Writable, NEW rs, Save(rs), UNCHANGED queue
  PROVE  DeletionOnDisk'
BY DEF Save, DeletionOnDisk, Writable

\* Between two saves the queue only loses its head, or grows by the deletion
\* that is about to be saved.
LEMMA DeletionOnDiskStep ==
  ASSUME Writable, TypeOK, DeletionOnDisk, [Next]_vars
  PROVE  DeletionOnDisk'
<1>. USE DEF panel, tasks, deletion, cloud
<1>a. queue \in Seq(Job)
  BY DEF TypeOK, QueueType
<1>1. CASE UNCHANGED <<loop, queue, disk>>
  BY <1>1 DEF DeletionOnDisk
<1>2. CASE Launch
  BY <1>2 DEF Launch, DeletionOnDisk
<1>3. CASE Gone
  BY <1>3 DEF Gone, DeletionOnDisk
<1>4. CASE RunVerified \/ RunToggle \/ RunReconciled \/ RunSaved \/ SaveDeletion
  BY <1>4, SaveWritesQueue
  DEF RunVerified, RunToggle, RunReconciled, RunSaved, SaveDeletion
<1>5. CASE \E h \in Hosts : AddRoute(h)
  BY <1>5, SaveWritesQueue DEF AddRoute
<1>6. CASE Drained \/ NoInput \/ Reverify \/ SignalWorker
  <2>1. loop # "save" /\ UNCHANGED <<queue, disk>>
    BY <1>6 DEF Drained, NoInput, Reverify, SignalWorker
  <2>. QED  BY <2>1 DEF DeletionOnDisk
<1>7. ASSUME NEW h \in Hosts, DeleteRoute(h) PROVE DeletionOnDisk'
  <2>1. /\ loop # "save" /\ loop' = "save" /\ UNCHANGED disk
        /\ queue' = Append(queue, [host |-> h, tun |-> tunnel])
    BY <1>7 DEF DeleteRoute, MayDelete
  <2>2. /\ Len(queue') = Len(queue) + 1 /\ Len(queue) \in Nat
        /\ DOMAIN queue' = 1..Len(queue) + 1 /\ DOMAIN queue = 1..Len(queue)
        /\ \A i \in 1..Len(queue) : queue'[i] = queue[i]
    BY <2>1, <1>a
  <2>3. \A i \in DOMAIN queue' : i \in DOMAIN queue \/ i = Len(queue')
    BY <2>2
  <2>. QED  BY <2>1, <2>2, <2>3 DEF DeletionOnDisk
<1>8. CASE PopJob
  <2>1. CASE UNCHANGED queue
    BY <1>8, <2>1 DEF PopJob, DeletionOnDisk
  <2>2. CASE queue # <<>> /\ queue' = Tail(queue)
    <3>1. /\ Len(queue') = Len(queue) - 1 /\ Len(queue) \in Nat
          /\ DOMAIN queue' = 1..Len(queue) - 1 /\ DOMAIN queue = 1..Len(queue)
          /\ \A i \in 1..Len(queue) - 1 : queue'[i] = queue[i + 1]
      BY <2>2, <1>a
    <3>2. \A i \in DOMAIN queue' :
            i + 1 \in DOMAIN queue /\ (i + 1 = Len(queue) => i = Len(queue'))
      BY <3>1
    <3>3. UNCHANGED <<loop, disk>>
      BY <1>8 DEF PopJob
    <3>. QED  BY <3>1, <3>2, <3>3 DEF DeletionOnDisk
  <2>. QED  BY <1>8, <2>1, <2>2 DEF PopJob
<1>9. CASE WorkerStep /\ ~PopJob
  BY <1>9, <1>1
  DEF WorkerStep, WorkerWakes, WorkerStops, TakeJob, HaveClient, AwaitClient,
      NoClient, UnpublishDns, UnpublishIngress, ReportJob
<1>10. CASE TaskStep \/ Quit \/ Show \/ Hide \/ Toggle \/ StatusChanges
  BY <1>10, <1>1
  DEF TaskStep, Verified, SetUp, FetchIngress, FetchDns, FetchDone, PublishDns,
      PublishIngress, Published, Quit, Show, Hide, Toggle, StatusChanges
<1>11. CASE \/ RunUnverified \/ RunTunnelReady \/ RunNote
            \/ RunPublished("live") \/ RunPublished("failed")
  BY <1>11, <1>1 DEF RunUnverified, RunTunnelReady, RunNote, RunPublished
<1>12. CASE UNCHANGED vars
  BY <1>12, <1>1 DEF vars
<1>. QED
  BY <1>2, <1>3, <1>4, <1>5, <1>6, <1>7, <1>8, <1>9, <1>10, <1>11, <1>12
  DEF Next, Exit, Crash, LoopStep, RunPost

\* A confirmed deletion that is not popped yet survives a crash at any moment
\* after the saveConfig that follows it, if config.json can be written.
THEOREM DeletionsSurvive ==
  ASSUME "locked" \notin Env
  PROVE  Spec => []DeletionOnDisk
<1>1. Init => DeletionOnDisk
  BY DEF Init, DeletionOnDisk
<1>2. TypeOK /\ DeletionOnDisk /\ [Next]_vars => DeletionOnDisk'
  BY DeletionOnDiskStep DEF Writable
<1>. QED  BY <1>1, <1>2, PanelTypeCorrect, PTL DEF Spec

-----------------------------------------------------------------------------
\* A saveConfig of the list that is shown writes every row.
LEMMA SaveWritesRows ==
  ASSUME Writable, NEW rs, Save(rs), rows' = rs
  PROVE  RowsOnDisk'
BY DEF Save, RowsOnDisk, HasRow, Writable

\* Whoever changes the rows saves them in the same handler, or is about to.
LEMMA RowsOnDiskStep ==
  ASSUME Writable, TypeOK, RowsOnDisk, [Next]_vars
  PROVE  RowsOnDisk'
<1>. USE DEF panel, tasks, deletion, cloud
<1>1. CASE UNCHANGED <<phase, loop, rows, disk>>
  BY <1>1 DEF RowsOnDisk, HasRow
<1>2. CASE Launch
  <2>1. disk.routes \subseteq Hosts /\ UNCHANGED disk
    BY <1>2 DEF Launch, TypeOK, DiskType
  <2>. QED  BY <1>2, <2>1 DEF Launch, RowsOnDisk, HasRow
<1>3. CASE Gone \/ Quit
  BY <1>3 DEF Gone, Quit, RowsOnDisk, HasRow
<1>4. CASE \/ RunVerified \/ RunToggle \/ RunReconciled \/ RunSaved
           \/ SaveDeletion \/ \E h \in Hosts : AddRoute(h)
  BY <1>4, SaveWritesRows
  DEF RunVerified, RunToggle, RunReconciled, RunSaved, SaveDeletion, AddRoute
<1>5. CASE Drained \/ NoInput \/ Reverify \/ SignalWorker
  <2>1. loop # "save" /\ UNCHANGED <<phase, rows, disk>>
    BY <1>5 DEF Drained, NoInput, Reverify, SignalWorker
  <2>. QED  BY <2>1 DEF RowsOnDisk, HasRow
<1>6. CASE \E h \in Hosts : DeleteRoute(h)
  BY <1>6 DEF DeleteRoute, RowsOnDisk
<1>7. CASE RunPublished("live") \/ RunPublished("failed")
  <2>1. \A h \in Hosts : rows'[h] = "none" <=> rows[h] = "none"
    BY <1>7 DEF RunPublished, TypeOK, RowsType
  <2>2. UNCHANGED <<phase, loop, disk>>
    BY <1>7 DEF RunPublished
  <2>. QED  BY <2>1, <2>2 DEF RowsOnDisk, HasRow
<1>8. CASE WorkerStep
  BY <1>8, <1>1
  DEF WorkerStep, WorkerWakes, WorkerStops, TakeJob, HaveClient, AwaitClient,
      NoClient, UnpublishDns, UnpublishIngress, PopJob, ReportJob
<1>9. CASE TaskStep \/ Show \/ Hide \/ Toggle \/ StatusChanges
  BY <1>9, <1>1
  DEF TaskStep, Verified, SetUp, FetchIngress, FetchDns, FetchDone, PublishDns,
      PublishIngress, Published, Show, Hide, Toggle, StatusChanges
<1>10. CASE RunUnverified \/ RunTunnelReady \/ RunNote
  BY <1>10, <1>1 DEF RunUnverified, RunTunnelReady, RunNote
<1>11. CASE UNCHANGED vars
  BY <1>11, <1>1 DEF vars
<1>. QED
  BY <1>2, <1>3, <1>4, <1>5, <1>6, <1>7, <1>8, <1>9, <1>10, <1>11
  DEF Next, Exit, Crash, LoopStep, RunPost

\* Every change of the list is saved by the handler that makes it, so a restart
\* brings back the rows that were shown, if config.json can be written.
THEOREM ListSurvives ==
  ASSUME "locked" \notin Env
  PROVE  Spec => []RowsOnDisk
<1>1. Init => RowsOnDisk
  BY DEF Init, RowsOnDisk
<1>2. TypeOK /\ RowsOnDisk /\ [Next]_vars => RowsOnDisk'
  BY RowsOnDiskStep DEF Writable
<1>. QED  BY <1>1, <1>2, PanelTypeCorrect, PTL DEF Spec

-----------------------------------------------------------------------------
(* What an unhurried user may rely on.  The list is read back from         *)
(* Cloudflare by one chain of steps: a verification or a resume, a tunnel  *)
(* setup, a fetch, and the closure that installs the answer.               *)

SyncPost(p) == p.kind \in {"verified", "toggle", "tunnelReady", "reconciled"}

NoSync(ps) == \A i \in DOMAIN ps : ~SyncPost(ps[i])

OneSync(ps) == \A i, j \in DOMAIN ps : SyncPost(ps[i]) /\ SyncPost(ps[j]) => i = j

\* The chain is at one place at a time.
OneReadBack ==
  /\ OneSync(posts)
  /\ ~NoSync(posts) => ~setup /\ ~checking /\ fetch.at = "none"
  /\ ~(setup /\ checking)
  /\ setup \/ checking => fetch.at = "none"

\* An answer that is installed drops no row.
ReadBackFits ==
  /\ fetch.at # "none" => HasRow \subseteq fetch.stored
  /\ \A i \in DOMAIN posts : posts[i].kind = "reconciled" =>
       \A h \in HasRow : posts[i].kept[h] # "none"

\* A process that is gone left nothing in memory.
DownIsEmpty ==
  phase = "down" =>
    /\ posts = <<>> /\ fetch.at = "none" /\ ~setup /\ ~checking
    /\ pubs = NoPubs /\ queue = <<>> /\ worker = "exited"
    /\ ~visible /\ loop = "drain"

\* What is being published has a row.
PubsHaveRows == \A h \in Hosts : Publications(h) > 0 => rows[h] # "none"

SyncInv == OneReadBack /\ ReadBackFits /\ DownIsEmpty /\ PubsHaveRows

\* A closure that is posted comes last, or not at all.
LEMMA DispatchedPosts ==
  ASSUME NEW p, PostsType, Dispatch(p)
  PROVE  \/ posts' = posts
         \/ /\ DOMAIN posts \subseteq DOMAIN posts'
            /\ DOMAIN posts \subseteq Int
            /\ \A i \in DOMAIN posts' :
                 \/ i \in DOMAIN posts /\ posts'[i] = posts[i]
                 \/ i \notin DOMAIN posts /\ i \in Int /\ posts'[i] = p
                    /\ \A j \in DOMAIN posts : j < i
            /\ \A i, j \in DOMAIN posts' : i \notin DOMAIN posts /\ j \notin DOMAIN posts => i = j
<1>1. CASE posts' = posts
  BY <1>1
<1>2. CASE posts' = Append(posts, p)
  <2>1. posts \in Seq(Post)
    BY DEF PostsType
  <2> DEFINE n == Len(posts)
  <2>2. n \in Nat /\ DOMAIN posts = 1..n
    BY <2>1
  <2>3. posts' = Append(posts, p) /\ posts \in Seq(Post \cup {p})
    BY <1>2, <2>1
  <2>4. DOMAIN posts' = 1..(n + 1) /\ posts'[n + 1] = p /\ \A i \in 1..n : posts'[i] = posts[i]
    BY <2>3
  <2>5. \A i \in 1..(n + 1) : i \in 1..n \/ (i = n + 1 /\ i \notin 1..n)
    BY <2>2
  <2> HIDE DEF n
  <2>6. \A i \in 1..n : i < n + 1 /\ i \in Int /\ i \in 1..(n + 1)
    BY <2>2
  <2> QED
    BY <2>2, <2>4, <2>5, <2>6
<1> QED
  BY <1>1, <1>2 DEF Dispatch

\* Posting keeps the chain in one place, if the closure is not part of it or the
\* chain is not in the channel.
LEMMA DispatchSync ==
  ASSUME NEW p, PostsType, Dispatch(p)
  PROVE  /\ ~SyncPost(p) /\ NoSync(posts) => NoSync(posts')
         /\ ~SyncPost(p) /\ OneSync(posts) => OneSync(posts')
         /\ NoSync(posts) => OneSync(posts')
<1>1. CASE posts' = posts
  BY <1>1 DEF NoSync, OneSync
<1>2. CASE posts' # posts
  <2>1. \A i \in DOMAIN posts' :
          \/ i \in DOMAIN posts /\ posts'[i] = posts[i]
          \/ i \notin DOMAIN posts /\ posts'[i] = p
    BY <1>2, DispatchedPosts
  <2>2. \A i, j \in DOMAIN posts' : i \notin DOMAIN posts /\ j \notin DOMAIN posts => i = j
    BY <1>2, DispatchedPosts
  <2> QED
    BY <2>1, <2>2 DEF NoSync, OneSync
<1> QED
  BY <1>1, <1>2

\* Taking the first closure keeps the others, in their order.
LEMMA DrainedPosts ==
  ASSUME NEW kind, PostsType, Drain(kind)
  PROVE  /\ 1 \in DOMAIN posts /\ posts[1] = Head(posts) /\ posts[1].kind = kind
         /\ \A i \in DOMAIN Tail(posts) :
              /\ i \in Int /\ 1 <= i /\ i + 1 \in DOMAIN posts
              /\ Tail(posts)[i] = posts[i + 1]
<1>1. posts \in Seq(Post) /\ posts # <<>> /\ Head(posts).kind = kind
  BY DEF PostsType, Drain
<1> DEFINE n == Len(posts)
<1>2. n \in Nat /\ DOMAIN posts = 1..n /\ n # 0
  BY <1>1
<1>3. Head(posts) = posts[1] /\ DOMAIN Tail(posts) = 1..(n - 1)
      /\ \A i \in 1..(n - 1) : Tail(posts)[i] = posts[i + 1]
  BY <1>1
<1> QED
  BY <1>1, <1>2, <1>3

\* What is left in the channel when its first closure runs.
LEMMA DrainSync ==
  ASSUME NEW kind, PostsType, Drain(kind), OneSync(posts)
  PROVE  /\ OneSync(Tail(posts))
         /\ NoSync(posts) => NoSync(Tail(posts))
         /\ kind \in {"verified", "toggle", "tunnelReady", "reconciled"} =>
              NoSync(Tail(posts)) /\ ~NoSync(posts)
<1>1. /\ 1 \in DOMAIN posts /\ posts[1].kind = kind
      /\ \A i \in DOMAIN Tail(posts) :
           /\ i \in Int /\ 1 <= i /\ i + 1 \in DOMAIN posts
           /\ Tail(posts)[i] = posts[i + 1]
  BY DrainedPosts
<1>2. OneSync(Tail(posts))
  <2> SUFFICES ASSUME NEW i \in DOMAIN Tail(posts), NEW j \in DOMAIN Tail(posts),
                      SyncPost(Tail(posts)[i]), SyncPost(Tail(posts)[j])
               PROVE  i = j
    BY DEF OneSync
  <2>1. i + 1 = j + 1
    BY <1>1 DEF OneSync
  <2> QED
    BY <1>1, <2>1
<1>3. NoSync(posts) => NoSync(Tail(posts))
  BY <1>1 DEF NoSync
<1>4. ASSUME kind \in {"verified", "toggle", "tunnelReady", "reconciled"}
      PROVE  NoSync(Tail(posts)) /\ ~NoSync(posts)
  <2>1. SyncPost(posts[1])
    BY <1>1, <1>4 DEF SyncPost
  <2>2. \A i \in DOMAIN Tail(posts) : i + 1 # 1
    BY <1>1
  <2>3. \A i \in DOMAIN Tail(posts) : ~SyncPost(posts[i + 1])
    BY <1>1, <2>1, <2>2 DEF OneSync
  <2> QED
    BY <1>1, <2>1, <2>3 DEF NoSync
<1> QED
  BY <1>2, <1>3, <1>4

\* The closures of older generations are no part of the chain.
LEMMA SupersededSync ==
  ASSUME NEW ps, NoSync(ps)
  PROVE  NoSync(Superseded(ps))
BY DEF Superseded, NoSync, SyncPost, Note

\* The chain is nowhere in a channel that holds none of its closures.
LEMMA NoneIsOne == \A ps : NoSync(ps) => OneSync(ps)
BY DEF NoSync, OneSync

\* Syncing is to be anywhere on the chain.
LEMMA SyncingIsChain == Syncing <=> setup \/ checking \/ fetch.at # "none" \/ ~NoSync(posts)
BY DEF Syncing, NoSync, SyncPost

\* What is gone stays gone until the next launch.
LEMMA DownIsEmptyStep ==
  ASSUME TypeOK, DownIsEmpty, [Next]_vars
  PROVE  DownIsEmpty'
<1> USE DEF panel, tasks, deletion, cloud
<1>1. CASE Launch \/ Show \/ Toggle \/ StatusChanges \/ Quit
  <2>1. phase' # "down"
    BY <1>1 DEF Launch, Show, Toggle, StatusChanges, Quit
  <2> QED
    BY <2>1 DEF DownIsEmpty
<1>2. CASE Exit \/ Crash
  BY <1>2 DEF Exit, Crash, Gone, DownIsEmpty, NoFetch
<1>3. CASE Hide \/ LoopStep
  <2>1. phase' = phase /\ (visible \/ loop # "drain")
    BY <1>3 DEF Hide, LoopStep, RunPost, RunVerified, RunUnverified, RunToggle, RunTunnelReady,
         RunReconciled, RunPublished, RunSaved, RunNote, Drain, Drained, NoInput, SaveDeletion,
         SignalWorker, Reverify, AddRoute, MayAdd, DeleteRoute, MayDelete
  <2> QED
    BY <2>1 DEF DownIsEmpty
<1>4. CASE TaskStep
  <2>1. ASSUME phase = "down" PROVE FALSE
    <3>1. \A h \in Hosts : /\ pubs[h]["dns"] = 0 /\ pubs[h]["ingress"] = 0
                          /\ pubs[h]["live"] = 0 /\ pubs[h]["failed"] = 0
      BY <2>1 DEF DownIsEmpty, NoPubs, Stage
    <3>2. ~checking /\ ~setup /\ fetch.at = "none"
      BY <2>1 DEF DownIsEmpty
    <3>3. ~Verified /\ ~SetUp /\ ~FetchIngress /\ ~FetchDns /\ ~FetchDone
      BY <3>2 DEF Verified, SetUp, FetchIngress, FetchDns, FetchDone
    <3>4. \A h \in Hosts : ~PublishDns(h) /\ ~PublishIngress(h) /\ ~Published(h, "live") /\ ~Published(h, "failed")
      BY <3>1 DEF PublishDns, PublishIngress, Published
    <3> QED
      BY <1>4, <3>3, <3>4 DEF TaskStep
  <2>2. phase' = phase
    BY <1>4 DEF TaskStep, Verified, SetUp, FetchIngress, FetchDns, FetchDone, PublishDns,
         PublishIngress, Published
  <2> QED
    BY <2>1, <2>2 DEF DownIsEmpty
<1>5. CASE WorkerStep
  <2>1. phase' = phase /\ worker # "exited"
    BY <1>5 DEF WorkerStep, WorkerWakes, WorkerStops, TakeJob, HaveClient, AwaitClient, NoClient,
         UnpublishDns, UnpublishIngress, PopJob, ReportJob
  <2> QED
    BY <2>1 DEF DownIsEmpty
<1>6. CASE UNCHANGED vars
  BY <1>6 DEF vars, DownIsEmpty
<1> QED
  BY <1>1, <1>2, <1>3, <1>4, <1>5, <1>6 DEF Next

\* Every step keeps the chain in one place.
LEMMA OneReadBackStep ==
  ASSUME Rush \subseteq {"readd"}, TypeOK, OneReadBack, DownIsEmpty, [Next]_vars
  PROVE  OneReadBack'
<1> USE DEF panel, tasks, deletion, cloud
<1>a. PostsType /\ FetchType
  BY DEF TypeOK
<1>1. CASE UNCHANGED <<posts, setup, checking, fetch>>
  BY <1>1 DEF OneReadBack
<1>2. ASSUME NEW p, ~SyncPost(p), Dispatch(p), UNCHANGED <<setup, checking, fetch>> PROVE OneReadBack'
  BY <1>a, <1>2, DispatchSync DEF OneReadBack
<1>3. ASSUME NEW p, Dispatch(p), NoSync(posts), ~setup', ~checking', fetch'.at = "none"
      PROVE  OneReadBack'
  BY <1>a, <1>3, DispatchSync DEF OneReadBack
<1>4. ASSUME NEW kind, Drain(kind), posts' = Tail(posts), UNCHANGED <<setup, checking, fetch>>
      PROVE  OneReadBack'
  BY <1>a, <1>4, DrainSync DEF OneReadBack
<1>5. ~SyncPost(Note) /\ ~SyncPost([kind |-> "unverified"])
      /\ (\A b : ~SyncPost([kind |-> "saved", left |-> b]))
      /\ \A h, k : k \in {"live", "failed"} => ~SyncPost([kind |-> k, host |-> h])
  BY DEF SyncPost, Note
<1>6. CASE Launch
  <2>1. posts' = <<>> /\ ~setup' /\ fetch'.at = "none"
    BY <1>6 DEF Launch, DownIsEmpty
  <2> QED
    BY <2>1 DEF OneReadBack, OneSync, NoSync
<1>7. CASE Exit \/ Crash
  <2>1. posts' = <<>> /\ ~setup' /\ ~checking' /\ fetch' = NoFetch
    BY <1>7 DEF Exit, Crash, Gone
  <2> QED
    BY <2>1 DEF OneReadBack, OneSync, NoSync, NoFetch
<1>8. CASE Show \/ StatusChanges
  BY <1>2, <1>5, <1>8 DEF Show, StatusChanges
<1>9. CASE Toggle
  <2>1. ~setup /\ ~checking /\ fetch.at = "none" /\ NoSync(posts)
    BY <1>9, SyncingIsChain DEF Toggle
  <2> QED
    BY <1>3, <1>9, <2>1 DEF Toggle
<1>10. CASE Reverify
  <2>1. ~setup /\ ~checking /\ fetch.at = "none" /\ NoSync(posts)
    BY <1>10, SyncingIsChain DEF Reverify
  <2> QED
    BY <1>10, <2>1 DEF Reverify, OneReadBack
<1>11. CASE Verified
  <2>1. checking /\ ~setup /\ fetch.at = "none" /\ NoSync(posts) /\ ~checking' /\ UNCHANGED <<setup, fetch>>
    BY <1>11 DEF Verified, OneReadBack
  <2>2. \E p : Dispatch(p)
    BY <1>11 DEF Verified
  <2> QED
    BY <1>3, <2>1, <2>2
<1>12. CASE SetUp
  <2>1. setup /\ ~checking /\ fetch.at = "none" /\ NoSync(posts) /\ ~setup' /\ UNCHANGED <<checking, fetch>>
    BY <1>12 DEF SetUp, OneReadBack
  <2>2. posts' = posts \/ \E p : Dispatch(p)
    BY <1>12 DEF SetUp
  <2>3. CASE posts' = posts
    BY <2>1, <2>3 DEF OneReadBack
  <2> QED
    BY <1>3, <2>1, <2>2, <2>3
<1>13. CASE FetchIngress \/ FetchDns \/ FetchDone
  <2>1. fetch.at # "none" /\ ~setup /\ ~checking /\ NoSync(posts) /\ UNCHANGED <<setup, checking>>
    BY <1>13 DEF FetchIngress, FetchDns, FetchDone, OneReadBack
  <2>2. posts' = posts \/ (fetch' = NoFetch /\ \E p : Dispatch(p))
    BY <1>13 DEF FetchIngress, FetchDns, FetchDone
  <2>3. CASE posts' = posts
    BY <2>1, <2>3 DEF OneReadBack
  <2> QED
    BY <1>3, <2>1, <2>2, <2>3 DEF NoFetch
<1>14. ASSUME NEW h \in Hosts, Published(h, "live") \/ Published(h, "failed") PROVE OneReadBack'
  BY <1>2, <1>5, <1>14 DEF Published
<1>15. CASE RunVerified \/ RunToggle
  <2>1. Drain("verified") \/ Drain("toggle")
    BY <1>15 DEF RunVerified, RunToggle
  <2>2. NoSync(Tail(posts)) /\ ~NoSync(posts)
    BY <1>a, <2>1, DrainSync DEF OneReadBack
  <2>3. ~setup /\ ~checking /\ fetch.at = "none" /\ UNCHANGED <<checking, fetch>>
    BY <1>15, <2>2 DEF RunVerified, RunToggle, OneReadBack
  <2>4. /\ posts' = Tail(posts) \/ posts' = Superseded(Tail(posts))
        /\ setup' = setup \/ setup' = TRUE
    BY <1>15 DEF RunVerified, RunToggle, EnsureTunnel
  <2>5. NoSync(posts')
    BY <2>2, <2>4, SupersededSync
  <2> QED
    BY <2>3, <2>4, <2>5, NoneIsOne DEF OneReadBack
<1>16. CASE RunTunnelReady
  <2>1. NoSync(Tail(posts)) /\ ~NoSync(posts)
    BY <1>a, <1>16, DrainSync DEF OneReadBack, RunTunnelReady
  <2>2. ~setup /\ ~checking /\ UNCHANGED <<setup, checking>> /\ posts' = Tail(posts)
    BY <1>16, <2>1 DEF RunTunnelReady, OneReadBack
  <2> QED
    BY <2>1, <2>2, NoneIsOne DEF OneReadBack
<1>17. CASE RunUnverified \/ RunReconciled \/ RunPublished("live") \/ RunPublished("failed")
             \/ RunSaved \/ RunNote
  <2>1. (\E kind : Drain(kind)) /\ posts' = Tail(posts) /\ UNCHANGED <<setup, checking, fetch>>
    BY <1>17 DEF RunUnverified, RunReconciled, RunPublished, RunSaved, RunNote, Publish
  <2> QED
    BY <1>4, <2>1
<1>18. CASE TakeJob \/ ReportJob
  <2>1. UNCHANGED <<setup, checking, fetch>>
        /\ (posts' = posts \/ Dispatch(Note) \/ \E b : Dispatch([kind |-> "saved", left |-> b]))
    BY <1>18 DEF TakeJob, ReportJob
  <2> QED
    BY <1>1, <1>2, <1>5, <2>1
<1>19. CASE \/ WorkerWakes \/ WorkerStops \/ HaveClient \/ AwaitClient \/ NoClient
            \/ UnpublishDns \/ UnpublishIngress \/ PopJob
  BY <1>1, <1>19 DEF WorkerWakes, WorkerStops, HaveClient, AwaitClient, NoClient, UnpublishDns,
                     UnpublishIngress, PopJob
<1>20. CASE \/ Quit \/ Hide \/ Drained \/ NoInput \/ SaveDeletion \/ SignalWorker \/ UNCHANGED vars
  BY <1>1, <1>20 DEF Quit, Hide, Drained, NoInput, SaveDeletion, SignalWorker, vars
<1>21. ASSUME NEW h \in Hosts, AddRoute(h) \/ DeleteRoute(h) \/ PublishDns(h) \/ PublishIngress(h)
       PROVE  OneReadBack'
  BY <1>1, <1>21 DEF AddRoute, DeleteRoute, PublishDns, PublishIngress, Publish, Move
<1> QED
  BY <1>6, <1>7, <1>8, <1>9, <1>10, <1>11, <1>12, <1>13, <1>14, <1>15, <1>16, <1>17, <1>18, <1>19,
     <1>20, <1>21 DEF Next, TaskStep, LoopStep, RunPost, WorkerStep

\* Which rows there are changes only when the user or an answer changes the
\* list, and at a launch or an end.
LEMMA RowSteps ==
  ASSUME TypeOK, [Next]_vars
  PROVE  \/ HasRow' = HasRow
         \/ Launch \/ Exit \/ Crash \/ RunReconciled
         \/ \E h \in Hosts : AddRoute(h) \/ DeleteRoute(h)
<1> USE DEF panel, tasks, deletion, cloud
<1>1. CASE rows' = rows
  BY <1>1 DEF HasRow
<1>2. CASE RunPublished("live") \/ RunPublished("failed")
  <2>1. \A h \in Hosts : rows'[h] = "none" <=> rows[h] = "none"
    BY <1>2 DEF RunPublished, TypeOK, RowsType
  <2> QED
    BY <2>1 DEF HasRow
<1>3. CASE Quit \/ Show \/ Hide \/ Toggle \/ StatusChanges \/ TaskStep \/ WorkerStep \/ UNCHANGED vars
  BY <1>1, <1>3 DEF Quit, Show, Hide, Toggle, StatusChanges, TaskStep, Verified, SetUp, FetchIngress,
     FetchDns, FetchDone, PublishDns, PublishIngress, Published, WorkerStep, WorkerWakes, WorkerStops,
     TakeJob, HaveClient, AwaitClient, NoClient, UnpublishDns, UnpublishIngress, PopJob, ReportJob, vars
<1>4. CASE RunVerified \/ RunUnverified \/ RunToggle \/ RunTunnelReady \/ RunSaved \/ RunNote
           \/ Drained \/ NoInput \/ SaveDeletion \/ SignalWorker \/ Reverify
  BY <1>1, <1>4 DEF RunVerified, RunUnverified, RunToggle, RunTunnelReady, RunSaved, RunNote, Drained,
     NoInput, SaveDeletion, SignalWorker, Reverify
<1> QED
  BY <1>2, <1>3, <1>4 DEF Next, LoopStep, RunPost

\* What a fetch learns, it adds to what it knows.
LEMMA FetchSteps ==
  ASSUME FetchType
  PROVE  /\ FetchIngress => \/ fetch' = NoFetch /\ Dispatch(Note)
                            \/ fetch' = [at |-> "dns", stored |-> fetch.stored, mapped |-> ingress,
                                         named |-> fetch.named] /\ posts' = posts
         /\ FetchDns => posts' = posts /\ \E hs \in SUBSET (fetch.stored \cap dns) :
                          fetch' = [at |-> "post", stored |-> fetch.stored, mapped |-> fetch.mapped,
                                    named |-> hs]
<1>1. fetch = [at |-> fetch.at, stored |-> fetch.stored, mapped |-> fetch.mapped, named |-> fetch.named]
  BY DEF FetchType
<1>2. ASSUME NEW a PROVE [fetch EXCEPT !.at = a] =
         [at |-> a, stored |-> fetch.stored, mapped |-> fetch.mapped, named |-> fetch.named]
  BY <1>1
<1>3. ASSUME NEW a, NEW m PROVE [fetch EXCEPT !.at = a, !.mapped = m] =
         [at |-> a, stored |-> fetch.stored, mapped |-> m, named |-> fetch.named]
  <2> DEFINE h == [fetch EXCEPT !.at = a]
  <2>1. h = [at |-> a, stored |-> fetch.stored, mapped |-> fetch.mapped, named |-> fetch.named]
    BY <1>2
  <2>2. [fetch EXCEPT !.at = a, !.mapped = m] = [h EXCEPT !.mapped = m]
    OBVIOUS
  <2> HIDE DEF h
  <2> QED
    BY <2>1, <2>2
<1>4. ASSUME NEW a, NEW n PROVE [fetch EXCEPT !.at = a, !.named = n] =
         [at |-> a, stored |-> fetch.stored, mapped |-> fetch.mapped, named |-> n]
  <2> DEFINE h == [fetch EXCEPT !.at = a]
  <2>1. h = [at |-> a, stored |-> fetch.stored, mapped |-> fetch.mapped, named |-> fetch.named]
    BY <1>2
  <2>2. [fetch EXCEPT !.at = a, !.named = n] = [h EXCEPT !.named = n]
    OBVIOUS
  <2> HIDE DEF h
  <2> QED
    BY <2>1, <2>2
<1>5. [fetch EXCEPT !.at = "dns", !.mapped = ingress] =
         [at |-> "dns", stored |-> fetch.stored, mapped |-> ingress, named |-> fetch.named]
  BY <1>3
<1>6. \A hs : [fetch EXCEPT !.at = "post", !.named = hs] =
         [at |-> "post", stored |-> fetch.stored, mapped |-> fetch.mapped, named |-> hs]
  BY <1>4
<1> QED
  BY <1>5, <1>6, Zenon DEF FetchIngress, FetchDns

\* While an answer is awaited the rows it is about stay.
LEMMA ReadBackFitsStep ==
  ASSUME Rush \subseteq {"readd"}, TypeOK, OneReadBack, DownIsEmpty, ReadBackFits, [Next]_vars
  PROVE  ReadBackFits'
<1> USE DEF panel, tasks, deletion, cloud
<1>a. PostsType /\ FetchType
  BY DEF TypeOK
<1>1. ASSUME NoSync(posts'), fetch'.at = "none" PROVE ReadBackFits'
  BY <1>1 DEF ReadBackFits, NoSync, SyncPost
<1>2. ASSUME HasRow' = HasRow, posts' = posts,
             fetch'.at # "none" => fetch.at # "none" /\ fetch'.stored = fetch.stored
      PROVE  ReadBackFits'
  BY <1>2 DEF ReadBackFits
<1>3. ASSUME HasRow' = HasRow, NEW p, Dispatch(p),
             p.kind = "reconciled" => \A h \in HasRow : p.kept[h] # "none",
             fetch'.at # "none" => fetch.at # "none" /\ fetch'.stored = fetch.stored
      PROVE  ReadBackFits'
  <2>1. \A i \in DOMAIN posts' : posts'[i] = p \/ (i \in DOMAIN posts /\ posts'[i] = posts[i])
    BY <1>a, <1>3, DispatchedPosts
  <2> QED
    BY <1>3, <2>1 DEF ReadBackFits
<1>4. ASSUME HasRow' = HasRow, NEW kind, Drain(kind), posts' = Tail(posts),
             fetch'.at # "none" => fetch'.stored = HasRow \/ (fetch.at # "none" /\ fetch'.stored = fetch.stored)
      PROVE  ReadBackFits'
  <2>1. \A i \in DOMAIN posts' : i + 1 \in DOMAIN posts /\ posts'[i] = posts[i + 1]
    BY <1>a, <1>4, DrainedPosts
  <2> QED
    BY <1>4, <2>1 DEF ReadBackFits
<1>5. CASE Launch \/ Exit \/ Crash
  <2>a. Launch => phase = "down" /\ UNCHANGED <<posts, fetch>>
    BY DEF Launch
  <2>b. Exit \/ Crash => posts' = <<>> /\ fetch' = NoFetch
    BY DEF Exit, Crash, Gone
  <2>1. posts' = <<>> /\ fetch'.at = "none"
    BY <1>5, <2>a, <2>b DEF NoFetch, DownIsEmpty
  <2> QED
    BY <1>1, <2>1 DEF NoSync
<1>6. CASE RunReconciled
  <2>1. NoSync(Tail(posts)) /\ ~NoSync(posts)
    BY <1>a, <1>6, DrainSync DEF RunReconciled, OneReadBack
  <2> QED
    BY <1>1, <1>6, <2>1 DEF RunReconciled, OneReadBack, Publish
<1>7. ASSUME NEW h \in Hosts, AddRoute(h) \/ DeleteRoute(h) PROVE ReadBackFits'
  <2>1. NoSync(posts) /\ fetch.at = "none"
    BY <1>7, SyncingIsChain DEF AddRoute, DeleteRoute, MayAdd, MayDelete
  <2> QED
    BY <1>1, <1>7, <2>1 DEF AddRoute, DeleteRoute
<1>8. CASE HasRow' = HasRow /\ (RunVerified \/ RunToggle)
  <2>1. Drain("verified") \/ Drain("toggle")
    BY <1>8 DEF RunVerified, RunToggle
  <2>2. NoSync(Tail(posts)) /\ fetch.at = "none"
    BY <1>a, <2>1, DrainSync DEF OneReadBack
  <2>3. (posts' = Tail(posts) \/ posts' = Superseded(Tail(posts))) /\ fetch' = fetch
    BY <1>8 DEF RunVerified, RunToggle, EnsureTunnel
  <2> QED
    BY <1>1, <2>2, <2>3, SupersededSync
<1>9. CASE HasRow' = HasRow /\ RunTunnelReady
  <2>1. fetch'.at # "none" => fetch'.stored = HasRow \/ (fetch.at # "none" /\ fetch'.stored = fetch.stored)
    BY <1>9 DEF RunTunnelReady, NoFetch
  <2> QED
    BY <1>4, <1>9, <2>1 DEF RunTunnelReady
<1>10. CASE HasRow' = HasRow /\ (RunUnverified \/ RunPublished("live") \/ RunPublished("failed")
                                \/ RunSaved \/ RunNote)
  <2>1. (\E kind : Drain(kind)) /\ posts' = Tail(posts) /\ fetch' = fetch
    BY <1>10 DEF RunUnverified, RunPublished, RunSaved, RunNote
  <2> QED
    BY <1>4, <1>10, <2>1
<1>11. CASE HasRow' = HasRow /\ (FetchIngress \/ FetchDns)
  <2>a. fetch.at # "none"
    BY <1>11 DEF FetchIngress, FetchDns
  <2>1. fetch'.at # "none" => fetch.at # "none" /\ fetch'.stored = fetch.stored
    BY <1>a, <1>11, <2>a, FetchSteps DEF NoFetch
  <2>2. posts' = posts \/ Dispatch(Note)
    BY <1>11 DEF FetchIngress, FetchDns
  <2> QED
    BY <1>2, <1>3, <1>11, <2>1, <2>2 DEF Note
<1>12. CASE HasRow' = HasRow /\ FetchDone
  <2>1. HasRow \subseteq fetch.stored /\ fetch'.at = "none"
    BY <1>12 DEF FetchDone, ReadBackFits, NoFetch
  <2>2. \A h \in HasRow : Kept[h] # "none"
    BY <2>1 DEF Kept, HasRow
  <2>3. Dispatch([kind |-> "reconciled", kept |-> Kept])
    BY <1>12 DEF FetchDone
  <2> QED
    BY <1>3, <1>12, <2>1, <2>2, <2>3
<1>13. CASE HasRow' = HasRow /\ (Toggle \/ Show \/ StatusChanges \/ Verified \/ SetUp \/ TakeJob \/ ReportJob)
  <2>1. fetch' = fetch
    BY <1>13 DEF Toggle, Show, StatusChanges, Verified, SetUp, TakeJob, ReportJob
  <2>2. \/ posts' = posts
        \/ \E k \in {"note", "toggle", "verified", "unverified", "tunnelReady"} : Dispatch([kind |-> k])
        \/ \E b : Dispatch([kind |-> "saved", left |-> b])
    BY <1>13 DEF Toggle, Show, StatusChanges, Verified, SetUp, TakeJob, ReportJob, Note
  <2> QED
    BY <1>2, <1>3, <1>13, <2>1, <2>2
<1>14. ASSUME NEW h \in Hosts, Published(h, "live") \/ Published(h, "failed"), HasRow' = HasRow
       PROVE  ReadBackFits'
  BY <1>3, <1>14 DEF Published
<1>15. CASE HasRow' = HasRow /\ UNCHANGED <<posts, fetch>>
  BY <1>2, <1>15
<1>16. CASE \/ WorkerWakes \/ WorkerStops \/ HaveClient \/ AwaitClient \/ NoClient
            \/ UnpublishDns \/ UnpublishIngress \/ PopJob
            \/ Quit \/ Hide \/ Drained \/ NoInput \/ SaveDeletion \/ SignalWorker \/ Reverify
            \/ (\E h \in Hosts : PublishDns(h) \/ PublishIngress(h)) \/ UNCHANGED vars
  <2>1. UNCHANGED <<posts, fetch>>
    BY <1>16 DEF WorkerWakes, WorkerStops, HaveClient, AwaitClient, NoClient, UnpublishDns,
       UnpublishIngress, PopJob, Quit, Hide, Drained, NoInput, SaveDeletion, SignalWorker, Reverify,
       PublishDns, PublishIngress, vars
  <2> QED
    BY <1>5, <1>6, <1>7, <1>15, <2>1, RowSteps
<1> QED
  BY <1>5, <1>6, <1>7, <1>8, <1>9, <1>10, <1>11, <1>12, <1>13, <1>14, <1>16, RowSteps
     DEF Next, TaskStep, LoopStep, RunPost, WorkerStep

\* An answer that is installed keeps every row.
LEMMA AnswerKeepsRows ==
  ASSUME TypeOK, ReadBackFits, RunReconciled
  PROVE  HasRow \subseteq HasRow' /\ rows' = posts[1].kept /\ posts[1].kind = "reconciled"
         /\ 1 \in DOMAIN posts
<1>1. 1 \in DOMAIN posts /\ posts[1] = Head(posts) /\ posts[1].kind = "reconciled"
  BY DrainedPosts DEF RunReconciled, TypeOK
<1>2. rows' = posts[1].kept
  BY <1>1 DEF RunReconciled
<1> QED
  BY <1>1, <1>2 DEF ReadBackFits, HasRow

\* What is being published keeps its row.
LEMMA PubsHaveRowsStep ==
  ASSUME Rush \subseteq {"readd"}, TypeOK, ReadBackFits, DownIsEmpty, PubsHaveRows, [Next]_vars
  PROVE  PubsHaveRows'
<1> USE DEF panel, tasks, deletion, cloud
<1>a. PubsType
  BY DEF TypeOK
<1>b. \A h \in Hosts : /\ pubs[h]["dns"] \in Nat /\ pubs[h]["ingress"] \in Nat
                       /\ pubs[h]["live"] \in Nat /\ pubs[h]["failed"] \in Nat
  BY <1>a DEF PubsType, Stage
<1>1. ASSUME HasRow \subseteq HasRow', \A h \in Hosts : Publications(h)' > 0 => Publications(h) > 0 \/ h \in HasRow'
      PROVE  PubsHaveRows'
  BY <1>1 DEF PubsHaveRows, HasRow
<1>2. ASSUME NEW hs, Publish(hs), HasRow \subseteq HasRow', hs \cap Hosts \subseteq HasRow' PROVE PubsHaveRows'
  <2>1. \A h \in Hosts : h \notin hs => pubs'[h] = pubs[h]
    BY <1>2 DEF Publish
  <2>2. \A h \in Hosts : h \notin hs => Publications(h)' = Publications(h)
    BY <2>1 DEF Publications
  <2> QED
    BY <1>1, <1>2, <2>2
<1>3. ASSUME NEW h \in Hosts, NEW s \in Stage, pubs[h][s] > 0, HasRow' = HasRow,
             \A g \in Hosts : g # h => pubs'[g] = pubs[g]
      PROVE  PubsHaveRows'
  <2>1. Publications(h) > 0
    BY <1>b, <1>3 DEF Publications, Stage
  <2>2. \A g \in Hosts : g # h => Publications(g)' = Publications(g)
    BY <1>3 DEF Publications
  <2> QED
    BY <1>1, <1>3, <2>1, <2>2
<1>4. CASE Launch \/ Exit \/ Crash
  <2>1. pubs' = NoPubs
    BY <1>4 DEF Launch, Exit, Crash, Gone, DownIsEmpty
  <2>2. \A h \in Hosts : Publications(h)' = 0
    BY <2>1 DEF NoPubs, Publications, Stage
  <2> QED
    BY <2>2 DEF PubsHaveRows
<1>5. CASE RunReconciled
  <2>1. HasRow \subseteq HasRow' /\ rows' = Head(posts).kept
    BY <1>5, AnswerKeepsRows DEF RunReconciled
  <2>2. Publish({h \in Hosts : Head(posts).kept[h] = "starting"})
    BY <1>5 DEF RunReconciled
  <2>3. {h \in Hosts : Head(posts).kept[h] = "starting"} \subseteq HasRow'
    BY <2>1 DEF HasRow
  <2> QED
    BY <1>2, <2>1, <2>2, <2>3
<1>6. ASSUME NEW h \in Hosts, AddRoute(h) PROVE PubsHaveRows'
  <2>1. rows' = [rows EXCEPT ![h] = "starting"] /\ rows \in [Hosts -> Status \cup {"none"}]
    BY <1>6 DEF AddRoute, TypeOK, RowsType
  <2>2. HasRow \subseteq HasRow' /\ h \in HasRow'
    BY <2>1 DEF HasRow
  <2>3. CASE Publish({h})
    BY <1>2, <2>2, <2>3
  <2>4. CASE pubs' = pubs
    BY <1>1, <2>2, <2>4 DEF Publications
  <2> QED
    BY <1>6, <2>3, <2>4 DEF AddRoute
<1>7. ASSUME NEW h \in Hosts, DeleteRoute(h) PROVE PubsHaveRows'
  <2>1. rows' = [rows EXCEPT ![h] = "none"] /\ rows \in [Hosts -> Status \cup {"none"}]
    BY <1>7 DEF DeleteRoute, TypeOK, RowsType
  <2>2. Publications(h) = 0 /\ pubs' = pubs
    BY <1>7 DEF DeleteRoute, MayDelete
  <2>3. \A g \in Hosts : Publications(g)' = Publications(g)
    BY <2>2 DEF Publications
  <2> QED
    BY <2>1, <2>2, <2>3 DEF PubsHaveRows
<1>8. ASSUME NEW h \in Hosts, HasRow' = HasRow,
             PublishDns(h) \/ PublishIngress(h) \/ Published(h, "live") \/ Published(h, "failed")
      PROVE  PubsHaveRows'
  <2>1. \A g \in Hosts : g # h => pubs'[g] = pubs[g]
    BY <1>a, <1>8 DEF PublishDns, PublishIngress, Published, Move, PubsType
  <2>2. \E s \in Stage : pubs[h][s] > 0
    BY <1>8 DEF PublishDns, PublishIngress, Published, Stage
  <2> QED
    BY <1>3, <1>8, <2>1, <2>2
<1>9. CASE HasRow' = HasRow /\ pubs' = pubs
  BY <1>1, <1>9 DEF Publications
<1>10. CASE Quit \/ Show \/ Hide \/ Toggle \/ StatusChanges \/ WorkerStep \/ UNCHANGED vars
            \/ Verified \/ SetUp \/ FetchIngress \/ FetchDns \/ FetchDone
  <2>1. pubs' = pubs
    BY <1>10 DEF Quit, Show, Hide, Toggle, StatusChanges, Verified, SetUp, FetchIngress,
     FetchDns, FetchDone, WorkerStep, WorkerWakes, WorkerStops,
     TakeJob, HaveClient, AwaitClient, NoClient, UnpublishDns, UnpublishIngress, PopJob, ReportJob, vars
  <2> QED
    BY <1>4, <1>5, <1>6, <1>7, <1>9, <2>1, RowSteps
<1>11. CASE RunVerified \/ RunUnverified \/ RunToggle \/ RunTunnelReady \/ RunSaved \/ RunNote
           \/ RunPublished("live") \/ RunPublished("failed")
           \/ Drained \/ NoInput \/ SaveDeletion \/ SignalWorker \/ Reverify
  <2>1. pubs' = pubs
    BY <1>11 DEF RunVerified, RunUnverified, RunToggle, RunTunnelReady, RunSaved, RunNote, RunPublished,
       Drained, NoInput, SaveDeletion, SignalWorker, Reverify
  <2> QED
    BY <1>4, <1>5, <1>6, <1>7, <1>9, <2>1, RowSteps
<1> QED
  BY <1>4, <1>5, <1>6, <1>7, <1>8, <1>10, <1>11, RowSteps
     DEF Next, TaskStep, LoopStep, RunPost

\* The invariant about the chain.
LEMMA SyncInvStep ==
  ASSUME Rush \subseteq {"readd"}, TypeOK, SyncInv, [Next]_vars
  PROVE  SyncInv'
BY DownIsEmptyStep, OneReadBackStep, ReadBackFitsStep, PubsHaveRowsStep DEF SyncInv

-----------------------------------------------------------------------------
(* Nothing published is forgotten.                                         *)

\* Every deletion is of a tunnel that is known.
JobsKnowTunnel ==
  /\ \A i \in DOMAIN queue : queue[i].tun
  /\ \A i \in DOMAIN disk.pending : disk.pending[i].tun
  /\ job # NoJob => job.tun

\* A crash forgets no row.
RowsKept == phase # "down" => HasRow \subseteq disk.routes

\* What memory knows of a hostname that has something on Cloudflare.
Known(h) == h \in HasRow \/ h \in Queued \/ h \in leftover

Accounted == phase # "down" => \A h \in dns \cup ingress : Known(h)

\* The job may be popped without being done: there was a problem, the hostname
\* has its row again, or another deletion of it is queued.
Covered ==
  \/ problems # {}
  \/ job.host \in HasRow
  \/ \E i \in DOMAIN queue : i > 1 /\ queue[i].host = job.host

\* What the worker did so far is done, or need not be.
WorkDone ==
  /\ worker \in {"ingress", "pop"} => job.host \notin dns \/ Covered
  /\ worker = "pop" => job.host \notin ingress \/ Covered

OrphanInv == JobsKnowTunnel /\ RowsKept /\ Accounted /\ WorkDone /\ OrphanFree

\* A save writes the rows and the queue; what else changes the disk there is not.
LEMMA DiskSteps ==
  ASSUME TypeOK, DownIsEmpty, [Next]_vars
  PROVE  \/ disk' = disk
         \/ /\ disk' = [routes |-> HasRow', pending |-> queue'] /\ queue' = queue
            /\ phase # "down" /\ phase' # "down"
<1> USE DEF panel, tasks, deletion, cloud
<1>1. CASE RunVerified \/ RunToggle \/ RunReconciled \/ RunSaved \/ SaveDeletion
           \/ \E h \in Hosts : AddRoute(h)
  <2>1. /\ disk' = disk \/ disk' = [routes |-> HasRow', pending |-> queue']
        /\ queue' = queue /\ phase' = phase
    BY <1>1 DEF RunVerified, RunToggle, RunReconciled, RunSaved, SaveDeletion, AddRoute, Save, HasRow
  <2>2. visible \/ loop # "drain"
    BY <1>1 DEF RunVerified, RunToggle, RunReconciled, RunSaved, SaveDeletion, AddRoute, MayAdd, Drain
  <2> QED
    BY <2>1, <2>2 DEF DownIsEmpty
<1>2. CASE Launch \/ Exit \/ Crash \/ Quit \/ Show \/ Hide \/ Toggle \/ StatusChanges \/ TaskStep \/ WorkerStep
           \/ UNCHANGED vars
  BY <1>2 DEF Launch, Exit, Crash, Gone, Quit, Show, Hide, Toggle, StatusChanges, TaskStep, Verified,
     SetUp, FetchIngress, FetchDns, FetchDone, PublishDns, PublishIngress, Published, WorkerStep,
     WorkerWakes, WorkerStops, TakeJob, HaveClient, AwaitClient, NoClient, UnpublishDns,
     UnpublishIngress, PopJob, ReportJob, vars
<1>3. CASE RunUnverified \/ RunTunnelReady \/ RunNote \/ RunPublished("live") \/ RunPublished("failed")
           \/ Drained \/ NoInput \/ SignalWorker \/ Reverify \/ \E h \in Hosts : DeleteRoute(h)
  BY <1>3 DEF RunUnverified, RunTunnelReady, RunNote, RunPublished, Drained, NoInput, SignalWorker,
     Reverify, DeleteRoute
<1> QED
  BY <1>1, <1>2, <1>3 DEF Next, LoopStep, RunPost

\* Only what is being published can come up on Cloudflare.
LEMMA CloudSteps ==
  ASSUME TypeOK, [Next]_vars
  PROVE  \A h : \/ /\ h \in dns' => h \in dns
                   /\ h \in ingress' => h \in ingress
                \/ h \in Hosts /\ Publications(h) > 0
<1> USE DEF panel, tasks, deletion, cloud
<1>1. CASE UNCHANGED <<dns, ingress>>
  BY <1>1
<1>2. ASSUME NEW h \in Hosts, PublishDns(h) \/ PublishIngress(h)
      PROVE  dns' \subseteq dns \cup {h} /\ ingress' \subseteq ingress \cup {h} /\ Publications(h) > 0
  <2>1. /\ pubs[h]["dns"] \in Nat /\ pubs[h]["ingress"] \in Nat
        /\ pubs[h]["live"] \in Nat /\ pubs[h]["failed"] \in Nat
    BY DEF TypeOK, PubsType, Stage
  <2>2. pubs[h]["dns"] > 0 \/ pubs[h]["ingress"] > 0
    BY <1>2 DEF PublishDns, PublishIngress
  <2>3. Publications(h) > 0
    BY <2>1, <2>2 DEF Publications
  <2> QED
    BY <1>2, <2>3 DEF PublishDns, PublishIngress
<1>3. CASE UnpublishDns \/ UnpublishIngress
  <2>1. dns' \subseteq dns /\ ingress' \subseteq ingress
    BY <1>3 DEF UnpublishDns, UnpublishIngress
  <2> QED
    BY <2>1
<1>4. CASE Launch \/ Exit \/ Crash \/ Quit \/ Show \/ Hide \/ Toggle \/ StatusChanges \/ UNCHANGED vars
           \/ Verified \/ SetUp \/ FetchIngress \/ FetchDns \/ FetchDone
           \/ \E h \in Hosts : Published(h, "live") \/ Published(h, "failed")
  BY <1>1, <1>4 DEF Launch, Exit, Crash, Gone, Quit, Show, Hide, Toggle, StatusChanges, vars,
     Verified, SetUp, FetchIngress, FetchDns, FetchDone, Published
<1>5. CASE \/ WorkerWakes \/ WorkerStops \/ TakeJob \/ HaveClient \/ AwaitClient \/ NoClient
           \/ PopJob \/ ReportJob
  BY <1>1, <1>5 DEF WorkerWakes, WorkerStops, TakeJob, HaveClient, AwaitClient, NoClient, PopJob, ReportJob
<1>6. CASE LoopStep
  BY <1>1, <1>6 DEF LoopStep, RunPost, RunVerified, RunUnverified, RunToggle, RunTunnelReady,
     RunReconciled, RunPublished, RunSaved, RunNote, Drained, NoInput, SaveDeletion, SignalWorker,
     Reverify, AddRoute, DeleteRoute
<1> QED
  BY <1>2, <1>3, <1>4, <1>5, <1>6 DEF Next, TaskStep, WorkerStep

\* A leftover is forgotten only when the hostname has its row again.
LEMMA LeftoverSteps ==
  ASSUME TypeOK, [Next]_vars
  PROVE  \/ leftover \subseteq leftover'
         \/ /\ \A h \in leftover : h \in leftover' \/ h \in HasRow'
            /\ RunReconciled \/ \E h \in Hosts : AddRoute(h)
<1> USE DEF panel, tasks, deletion, cloud
<1>a. leftover \subseteq Hosts
  BY DEF TypeOK, CloudTypes
<1>1. CASE leftover' = leftover
  BY <1>1
<1>2. CASE PopJob
  BY <1>2 DEF PopJob
<1>3. CASE RunReconciled
  BY <1>a, <1>3 DEF RunReconciled, Listed, HasRow
<1>4. ASSUME NEW h \in Hosts, AddRoute(h)
      PROVE  \A g \in leftover : g \in leftover' \/ g \in HasRow'
  <2>1. rows' = [rows EXCEPT ![h] = "starting"] /\ rows \in [Hosts -> Status \cup {"none"}]
    BY <1>4 DEF AddRoute, TypeOK, RowsType
  <2>2. h \in HasRow' /\ leftover' = leftover \ {h}
    BY <1>4, <2>1 DEF HasRow, AddRoute, Listed
  <2> QED
    BY <2>2
<1>5. CASE Launch \/ Exit \/ Crash \/ Quit \/ Show \/ Hide \/ Toggle \/ StatusChanges \/ UNCHANGED vars
           \/ TaskStep
  BY <1>1, <1>5 DEF Launch, Exit, Crash, Gone, Quit, Show, Hide, Toggle, StatusChanges, vars, TaskStep,
     Verified, SetUp, FetchIngress, FetchDns, FetchDone, PublishDns, PublishIngress, Published
<1>6. CASE \/ WorkerWakes \/ WorkerStops \/ TakeJob \/ HaveClient \/ AwaitClient \/ NoClient
           \/ UnpublishDns \/ UnpublishIngress \/ ReportJob
  BY <1>1, <1>6 DEF WorkerWakes, WorkerStops, TakeJob, HaveClient, AwaitClient, NoClient, UnpublishDns,
     UnpublishIngress, ReportJob
<1>7. CASE RunVerified \/ RunUnverified \/ RunToggle \/ RunTunnelReady \/ RunSaved \/ RunNote
           \/ RunPublished("live") \/ RunPublished("failed")
           \/ Drained \/ NoInput \/ SaveDeletion \/ SignalWorker \/ Reverify \/ \E h \in Hosts : DeleteRoute(h)
  BY <1>1, <1>7 DEF RunVerified, RunUnverified, RunToggle, RunTunnelReady, RunSaved, RunNote, RunPublished,
       Drained, NoInput, SaveDeletion, SignalWorker, Reverify, DeleteRoute
<1> QED
  BY <1>2, <1>3, <1>4, <1>5, <1>6, <1>7 DEF Next, LoopStep, RunPost, WorkerStep

\* What changes the queue.
LEMMA QueueStays ==
  ASSUME [Next]_vars, ~Launch, ~Exit, ~Crash, ~PopJob, \A h \in Hosts : ~DeleteRoute(h)
  PROVE  queue' = queue
<1> USE DEF panel, tasks, deletion, cloud
<1>1. CASE Quit \/ Show \/ Hide \/ Toggle \/ StatusChanges \/ UNCHANGED vars \/ TaskStep
  BY <1>1 DEF Quit, Show, Hide, Toggle, StatusChanges, vars, TaskStep,
     Verified, SetUp, FetchIngress, FetchDns, FetchDone, PublishDns, PublishIngress, Published
<1>2. CASE WorkerStep
  BY <1>2 DEF WorkerStep, WorkerWakes, WorkerStops, TakeJob, HaveClient, AwaitClient, NoClient,
     UnpublishDns, UnpublishIngress, ReportJob
<1>3. CASE RunPost \/ Drained \/ NoInput \/ SaveDeletion \/ SignalWorker \/ Reverify \/ \E h \in Hosts : AddRoute(h)
  BY <1>3 DEF RunPost, RunVerified, RunUnverified, RunToggle, RunTunnelReady, RunReconciled, RunSaved,
     RunNote, RunPublished, Drained, NoInput, SaveDeletion, SignalWorker, Reverify, AddRoute
<1> QED
  BY <1>1, <1>2, <1>3 DEF Next, LoopStep

\* The queue only grows at its end, but for a launch, an end and a pop.
LEMMA QueueGrows ==
  ASSUME TypeOK, [Next]_vars, ~Launch, ~Exit, ~Crash, ~PopJob
  PROVE  \A i \in DOMAIN queue : i \in DOMAIN queue' /\ queue'[i] = queue[i]
<1>1. queue \in Seq(Job)
  BY DEF TypeOK, QueueType
<1>2. ASSUME NEW h \in Hosts, DeleteRoute(h)
      PROVE  \A i \in DOMAIN queue : i \in DOMAIN queue' /\ queue'[i] = queue[i]
  BY <1>1, <1>2 DEF DeleteRoute
<1> QED
  BY <1>2, QueueStays

\* What may be posted, and when.
PostedWhen(p) ==
  /\ p.kind = "unverified" => "offline" \in Env
  /\ SyncPost(p) => Toggle \/ checking \/ setup \/ fetch.at # "none"
  /\ p.kind = "reconciled" => fetch.at = "post" /\ p.kept = Kept /\ cloud' = cloud
  /\ p.kind = "live" => p.host \in Hosts /\ pubs[p.host]["live"] > 0

\* What a step may do to the channel.
LEMMA PostSteps ==
  ASSUME TypeOK, [Next]_vars
  PROVE  \/ posts' = posts
         \/ posts' = <<>> /\ (Exit \/ Crash)
         \/ \E p : Dispatch(p) /\ PostedWhen(p)
         \/ RunPost /\ \E kind : Drain(kind) /\ (posts' = Tail(posts) \/ posts' = Superseded(Tail(posts)))
<1> USE DEF panel, tasks, deletion
<1>1. CASE posts' = posts
  BY <1>1
<1>2. CASE Launch \/ Exit \/ Crash
  BY <1>2 DEF Launch, Exit, Crash, Gone
<1>3. ASSUME Dispatch([kind |-> "note"]) \/ \E b : Dispatch([kind |-> "saved", left |-> b])
      PROVE  \E p : Dispatch(p) /\ PostedWhen(p)
  <2>1. PostedWhen([kind |-> "note"]) /\ \A b : PostedWhen([kind |-> "saved", left |-> b])
    BY DEF PostedWhen, SyncPost
  <2> QED
    BY <1>3, <2>1
<1>4. CASE Show \/ StatusChanges \/ TakeJob \/ ReportJob \/ FetchIngress
  <2>1. posts' = posts \/ Dispatch([kind |-> "note"]) \/ \E b : Dispatch([kind |-> "saved", left |-> b])
    BY <1>4 DEF Show, StatusChanges, FetchIngress, TakeJob, ReportJob, Note
  <2> QED
    BY <1>1, <1>3, <2>1
<1>5. CASE Toggle \/ Verified \/ SetUp
  <2>1. \/ posts' = posts \/ Dispatch([kind |-> "note"])
        \/ Dispatch([kind |-> "toggle"]) /\ Toggle
        \/ Dispatch([kind |-> "verified"]) /\ checking
        \/ Dispatch([kind |-> "tunnelReady"]) /\ setup
        \/ Dispatch([kind |-> "unverified"]) /\ "offline" \in Env
    BY <1>5, Zenon DEF Toggle, Verified, SetUp, Note
  <2>2. CASE Dispatch([kind |-> "toggle"]) /\ Toggle
    BY <2>2 DEF PostedWhen
  <2>3. CASE Dispatch([kind |-> "verified"]) /\ checking
    BY <2>3 DEF PostedWhen
  <2>4. CASE Dispatch([kind |-> "tunnelReady"]) /\ setup
    BY <2>4 DEF PostedWhen
  <2>5. CASE Dispatch([kind |-> "unverified"]) /\ "offline" \in Env
    BY <2>5 DEF PostedWhen, SyncPost
  <2> QED
    BY <1>1, <1>3, <2>1, <2>2, <2>3, <2>4, <2>5
<1>6. CASE FetchDone
  <2>1. fetch.at = "post" /\ Dispatch([kind |-> "reconciled", kept |-> Kept]) /\ cloud' = cloud
    BY <1>6 DEF FetchDone
  <2>2. PostedWhen([kind |-> "reconciled", kept |-> Kept])
    BY <2>1 DEF PostedWhen
  <2> QED
    BY <2>1, <2>2
<1>7. ASSUME NEW h \in Hosts, Published(h, "live") \/ Published(h, "failed")
      PROVE  \E p : Dispatch(p) /\ PostedWhen(p)
  <2>1. \E k \in {"live", "failed"} : Dispatch([kind |-> k, host |-> h]) /\ pubs[h][k] > 0
    BY <1>7 DEF Published
  <2> QED
    BY <2>1 DEF PostedWhen, SyncPost
<1>8. CASE RunPost
  BY <1>8 DEF RunPost, RunVerified, RunUnverified, RunToggle, RunTunnelReady, RunReconciled, RunPublished,
     RunSaved, RunNote, EnsureTunnel
<1>9. CASE \/ WorkerWakes \/ WorkerStops \/ HaveClient \/ AwaitClient \/ NoClient
            \/ UnpublishDns \/ UnpublishIngress \/ PopJob
            \/ Quit \/ Hide \/ Drained \/ NoInput \/ SaveDeletion \/ SignalWorker \/ Reverify
            \/ FetchDns \/ UNCHANGED vars
  BY <1>1, <1>9 DEF WorkerWakes, WorkerStops, HaveClient, AwaitClient, NoClient, UnpublishDns,
     UnpublishIngress, PopJob, Quit, Hide, Drained, NoInput, SaveDeletion, SignalWorker, Reverify,
     FetchDns, vars
<1>10. ASSUME NEW h \in Hosts, AddRoute(h) \/ DeleteRoute(h) \/ PublishDns(h) \/ PublishIngress(h)
       PROVE  posts' = posts
  BY <1>10 DEF AddRoute, DeleteRoute, PublishDns, PublishIngress
<1> QED
  BY <1>2, <1>4, <1>5, <1>6, <1>7, <1>8, <1>9, <1>10 DEF Next, TaskStep, LoopStep, WorkerStep

\* What waits in the channel waited there before, was posted now, or is the
\* closure of an older tunnel generation.
LEMMA WhatIsPosted ==
  ASSUME TypeOK, [Next]_vars, NEW i \in DOMAIN posts'
  PROVE  \/ \E k \in DOMAIN posts : posts'[i] = posts[k]
         \/ posts'[i] = Note
         \/ PostedWhen(posts'[i])
<1>a. PostsType
  BY DEF TypeOK
<1>1. CASE posts' = posts \/ posts' = <<>>
  BY <1>1
<1>2. ASSUME NEW p, Dispatch(p), PostedWhen(p)
      PROVE  posts'[i] = p \/ \E k \in DOMAIN posts : posts'[i] = posts[k]
  BY <1>a, <1>2, DispatchedPosts
<1>3. ASSUME NEW kind, Drain(kind), posts' = Tail(posts) \/ posts' = Superseded(Tail(posts))
      PROVE  posts'[i] = Note \/ \E k \in DOMAIN posts : posts'[i] = posts[k]
  <2> DEFINE ps == Tail(posts)
  <2>1. \A j \in DOMAIN ps : \E k \in DOMAIN posts : ps[j] = posts[k]
    BY <1>a, <1>3, DrainedPosts
  <2>2. posts' = ps \/ posts' = Superseded(ps)
    BY <1>3
  <2> HIDE DEF ps
  <2>3. \A j \in DOMAIN Superseded(ps) : j \in DOMAIN ps /\ Superseded(ps)[j] \in {ps[j], Note}
    BY DEF Superseded
  <2> QED
    BY <2>1, <2>2, <2>3
<1> QED
  BY <1>1, <1>2, <1>3, PostSteps

\* A deletion that is queued is of a tunnel that is known.
LEMMA JobsKnowTunnelStep ==
  ASSUME Rush \subseteq {"readd"}, TypeOK, DownIsEmpty, JobsKnowTunnel, HeadIsJob, [Next]_vars
  PROVE  JobsKnowTunnel'
<1> USE DEF panel, tasks, deletion, cloud
<1>a. queue \in Seq(Job) /\ (job # NoJob => job \in Job)
  BY DEF TypeOK, QueueType, JobType
<1>1. /\ \A i \in DOMAIN queue' : queue'[i].tun
      /\ job' # NoJob => job'.tun
  <2>1. CASE queue' = queue /\ (job' = job \/ job' = NoJob)
    BY <2>1 DEF JobsKnowTunnel
  <2>2. CASE Launch
    BY <2>2 DEF Launch, JobsKnowTunnel
  <2>3. CASE Exit \/ Crash
    BY <2>3 DEF Exit, Crash, Gone
  <2>4. CASE TakeJob
    <3>1. queue' = queue
      BY <2>4 DEF TakeJob
    <3>2. job' = job \/ (queue # <<>> /\ job' = Head(queue))
      BY <2>4 DEF TakeJob
    <3>3. queue # <<>> => 1 \in DOMAIN queue /\ Head(queue) = queue[1]
      BY <1>a
    <3> QED
      BY <3>1, <3>2, <3>3 DEF JobsKnowTunnel
  <2>5. CASE HaveClient
    <3>1. queue' = queue /\ job \in Job /\ job.tun
      BY <1>a, <2>5 DEF HaveClient, HeadIsJob, JobsKnowTunnel
    <3>2. job' = [job EXCEPT !.tun = TRUE]
      BY <2>5, <3>1 DEF HaveClient
    <3>3. job'.tun
      BY <3>1, <3>2 DEF Job
    <3> QED
      BY <3>1, <3>3 DEF JobsKnowTunnel
  <2>6. CASE PopJob
    <3>1. job' = job
      BY <2>6 DEF PopJob
    <3>2. queue # <<>>
      BY <2>6 DEF PopJob, HeadIsJob
    <3>3. \A i \in DOMAIN Tail(queue) : i + 1 \in DOMAIN queue /\ Tail(queue)[i] = queue[i + 1]
      BY <1>a, <3>2
    <3> QED
      BY <2>6, <3>1, <3>3 DEF PopJob, JobsKnowTunnel
  <2>7. ASSUME NEW h \in Hosts, DeleteRoute(h)
        PROVE  /\ \A i \in DOMAIN queue' : queue'[i].tun
               /\ job' = job
    <3>1. tunnel /\ queue' = Append(queue, [host |-> h, tun |-> tunnel]) /\ job' = job
      BY <2>7 DEF DeleteRoute, MayDelete
    <3>2. tunnel \in BOOLEAN
      BY DEF TypeOK, FlagTypes
    <3>3. [host |-> h, tun |-> tunnel] \in Job /\ [host |-> h, tun |-> tunnel].tun
      BY <3>1, <3>2 DEF Job
    <3> DEFINE j == [host |-> h, tun |-> tunnel]
    <3> HIDE DEF j
    <3>4. j \in Job /\ j.tun /\ queue' = Append(queue, j)
      BY <3>1, <3>3 DEF j
    <3>5. \A i \in DOMAIN queue' : queue'[i] = j \/ (i \in DOMAIN queue /\ queue'[i] = queue[i])
      BY <1>a, <3>4
    <3> QED
      BY <3>1, <3>4, <3>5 DEF JobsKnowTunnel
  <2>8. CASE Quit \/ Show \/ Hide \/ Toggle \/ StatusChanges \/ TaskStep \/ UNCHANGED vars
    BY <2>1, <2>8 DEF Quit, Show, Hide, Toggle, StatusChanges, TaskStep, Verified, SetUp, FetchIngress,
     FetchDns, FetchDone, PublishDns, PublishIngress, Published, vars
  <2>9. CASE \/ WorkerWakes \/ WorkerStops \/ AwaitClient \/ NoClient
             \/ UnpublishDns \/ UnpublishIngress \/ ReportJob
    BY <2>1, <2>9 DEF WorkerWakes, WorkerStops, AwaitClient, NoClient, UnpublishDns, UnpublishIngress, ReportJob
  <2>10. CASE RunPost \/ Drained \/ NoInput \/ SaveDeletion \/ SignalWorker \/ Reverify
             \/ \E h \in Hosts : AddRoute(h)
    BY <2>1, <2>10 DEF RunPost, RunVerified, RunUnverified, RunToggle, RunTunnelReady, RunReconciled,
       RunSaved, RunNote, RunPublished, Drained, NoInput, SaveDeletion, SignalWorker, Reverify, AddRoute
  <2> QED
    BY <2>2, <2>3, <2>4, <2>5, <2>6, <2>7, <2>8, <2>9, <2>10 DEF Next, LoopStep, WorkerStep, JobsKnowTunnel
<1>2. \A i \in DOMAIN disk'.pending : disk'.pending[i].tun
  <2>1. CASE disk' = disk
    BY <2>1 DEF JobsKnowTunnel
  <2>2. CASE disk'.pending = queue'
    BY <1>1, <2>2
  <2> QED
    BY <2>1, <2>2, DiskSteps
<1> QED
  BY <1>1, <1>2 DEF JobsKnowTunnel

\* Only a delete makes rows less than what is on disk.
LEMMA RowsKeptStep ==
  ASSUME Writable, TypeOK, DownIsEmpty, RowsKept, [Next]_vars
  PROVE  RowsKept'
<1> USE DEF panel, tasks, deletion, cloud
<1>1. CASE disk' = [routes |-> HasRow', pending |-> queue']
  BY <1>1 DEF RowsKept
<1>2. CASE disk' = disk /\ HasRow' \subseteq HasRow /\ phase # "down"
  BY <1>2 DEF RowsKept
<1>3. CASE Launch
  <2>1. rows' = [h \in Hosts |-> IF h \in disk.routes THEN "idle" ELSE "none"] /\ disk' = disk
    BY <1>3 DEF Launch
  <2> QED
    BY <2>1 DEF RowsKept, HasRow
<1>4. CASE Exit \/ Crash
  BY <1>4 DEF Exit, Crash, Gone, RowsKept
<1>5. ASSUME NEW h \in Hosts, DeleteRoute(h) PROVE HasRow' \subseteq HasRow /\ disk' = disk /\ phase # "down"
  <2>1. rows' = [rows EXCEPT ![h] = "none"] /\ rows \in [Hosts -> Status \cup {"none"}]
    BY <1>5 DEF DeleteRoute, TypeOK, RowsType
  <2> QED
    BY <1>5, <2>1 DEF HasRow, DeleteRoute, MayDelete, DownIsEmpty
<1>6. ASSUME NEW h \in Hosts, RunReconciled \/ AddRoute(h)
      PROVE  disk' = [routes |-> HasRow', pending |-> queue']
  BY <1>6 DEF RunReconciled, AddRoute, Save, HasRow, Writable
<1>7. CASE RunReconciled
  BY <1>7 DEF RunReconciled, Save, HasRow, RowsKept, Writable
<1>8. CASE HasRow' = HasRow /\ disk' = disk /\ phase' = "down"
  BY <1>8 DEF RowsKept
<1>9. ASSUME phase = "down", phase' # "down" PROVE Launch
  BY <1>9 DEF DownIsEmpty, Next, Quit, Exit, Crash, Gone, Show, Hide, Toggle,
     StatusChanges, TaskStep, Verified, SetUp, FetchIngress,
     FetchDns, FetchDone, PublishDns, PublishIngress, Published, WorkerStep, WorkerWakes, WorkerStops,
     TakeJob, HaveClient, AwaitClient, NoClient, UnpublishDns, UnpublishIngress, PopJob, ReportJob, vars,
     LoopStep, RunPost, RunVerified, RunUnverified, RunToggle, RunTunnelReady, RunReconciled, RunPublished,
     RunSaved, RunNote, Drained, NoInput, SaveDeletion, SignalWorker, Reverify, AddRoute, DeleteRoute
<1> QED
  BY <1>1, <1>2, <1>3, <1>4, <1>5, <1>6, <1>7, <1>8, <1>9, DiskSteps, RowSteps

\* A launch is what ends being down.
LEMMA OnlyALaunch ==
  ASSUME DownIsEmpty, phase = "down", phase' # "down", [Next]_vars
  PROVE  Launch
BY DEF DownIsEmpty, Next, Quit, Exit, Crash, Gone, Show, Hide, Toggle,
     StatusChanges, TaskStep, Verified, SetUp, FetchIngress,
     FetchDns, FetchDone, PublishDns, PublishIngress, Published, WorkerStep, WorkerWakes, WorkerStops,
     TakeJob, HaveClient, AwaitClient, NoClient, UnpublishDns, UnpublishIngress, PopJob, ReportJob, vars,
     LoopStep, RunPost, RunVerified, RunUnverified, RunToggle, RunTunnelReady, RunReconciled, RunPublished,
     RunSaved, RunNote, Drained, NoInput, SaveDeletion, SignalWorker, Reverify, AddRoute, DeleteRoute

\* How the rows follow the user: a row that goes is queued for deletion.
LEMMA RowsGoToQueue ==
  ASSUME TypeOK, ReadBackFits, [Next]_vars, ~Launch, ~Exit, ~Crash
  PROVE  \/ HasRow \subseteq HasRow'
         \/ \E h \in Hosts : /\ HasRow \ {h} \subseteq HasRow'
                             /\ Len(queue) + 1 \in DOMAIN queue'
                             /\ queue'[Len(queue) + 1].host = h
<1>1. CASE HasRow' = HasRow
  BY <1>1
<1>2. CASE RunReconciled
  BY <1>2, AnswerKeepsRows
<1>3. ASSUME NEW h \in Hosts, AddRoute(h) PROVE HasRow \subseteq HasRow'
  <2>1. rows' = [rows EXCEPT ![h] = "starting"] /\ rows \in [Hosts -> Status \cup {"none"}]
    BY <1>3 DEF AddRoute, TypeOK, RowsType
  <2> QED
    BY <2>1 DEF HasRow
<1>4. ASSUME NEW h \in Hosts, DeleteRoute(h)
      PROVE  /\ HasRow \ {h} \subseteq HasRow'
             /\ Len(queue) + 1 \in DOMAIN queue'
             /\ queue'[Len(queue) + 1].host = h
  <2>1. rows' = [rows EXCEPT ![h] = "none"] /\ rows \in [Hosts -> Status \cup {"none"}]
    BY <1>4 DEF DeleteRoute, TypeOK, RowsType
  <2>2. HasRow \ {h} \subseteq HasRow'
    BY <2>1 DEF HasRow
  <2>3. queue' = Append(queue, [host |-> h, tun |-> tunnel]) /\ queue \in Seq(Job) /\ tunnel \in BOOLEAN
    BY <1>4 DEF DeleteRoute, TypeOK, QueueType, FlagTypes
  <2>4. [host |-> h, tun |-> tunnel] \in Job
    BY <2>3 DEF Job
  <2>5. Len(queue) + 1 \in DOMAIN queue' /\ queue'[Len(queue) + 1] = [host |-> h, tun |-> tunnel]
    BY <2>3, <2>4
  <2> QED
    BY <2>2, <2>5
<1> QED
  BY <1>1, <1>2, <1>3, <1>4, RowSteps

\* What the worker reached of its job.
LEMMA WorkSteps ==
  ASSUME [Next]_vars
  PROVE  \/ worker' \notin {"ingress", "pop"}
         \/ UNCHANGED <<worker, job, problems>> /\ ~Launch /\ ~Exit /\ ~Crash /\ ~PopJob
         \/ UnpublishDns \/ UnpublishIngress \/ NoClient
<1> USE DEF panel, tasks, deletion, cloud
<1>1. CASE \/ Launch \/ Exit \/ Crash \/ WorkerWakes \/ WorkerStops \/ TakeJob \/ HaveClient
           \/ AwaitClient \/ PopJob \/ ReportJob
  <2>1. worker' \in {"wait", "exited", "check", "client", "verify", "dns", "report"}
    BY <1>1 DEF Launch, Exit, Crash, Gone, WorkerWakes, WorkerStops, TakeJob, HaveClient, AwaitClient, PopJob, ReportJob
  <2> QED
    BY <2>1
<1>2. CASE UNCHANGED <<worker, job, problems>>
  BY <1>1, <1>2
<1>3. CASE Quit \/ Show \/ Hide \/ Toggle \/ StatusChanges \/ TaskStep \/ UNCHANGED vars
  BY <1>2, <1>3 DEF Quit, Show, Hide, Toggle, StatusChanges, TaskStep, Verified, SetUp, FetchIngress,
     FetchDns, FetchDone, PublishDns, PublishIngress, Published, vars
<1>4. CASE LoopStep
  BY <1>2, <1>4 DEF LoopStep, RunPost, RunVerified, RunUnverified, RunToggle, RunTunnelReady, RunReconciled,
       RunSaved, RunNote, RunPublished, Drained, NoInput, SaveDeletion, SignalWorker, Reverify, AddRoute, DeleteRoute
<1> QED
  BY <1>1, <1>3, <1>4 DEF Next, WorkerStep

\* What need not be done goes on needing not to be done.
LEMMA CoveredStays ==
  ASSUME TypeOK, ReadBackFits, queue # <<>>, [Next]_vars,
         ~Launch, ~Exit, ~Crash, ~PopJob, job' = job, problems' = problems, Covered
  PROVE  Covered'
<1>a. queue \in Seq(Job)
  BY DEF TypeOK, QueueType
<1>1. CASE problems # {}
  BY <1>1 DEF Covered
<1>2. CASE \E i \in DOMAIN queue : i > 1 /\ queue[i].host = job.host
  BY <1>2, QueueGrows DEF Covered
<1>3. CASE job.host \in HasRow
  <2>1. CASE job.host \in HasRow'
    BY <2>1 DEF Covered
  <2>2. CASE job.host \notin HasRow'
    <3>1. Len(queue) + 1 \in DOMAIN queue' /\ queue'[Len(queue) + 1].host = job.host
      BY <1>3, <2>2, RowsGoToQueue
    <3>2. Len(queue) + 1 > 1
      BY <1>a
    <3> QED
      BY <3>1, <3>2 DEF Covered
  <2> QED
    BY <2>1, <2>2
<1> QED
  BY <1>1, <1>2, <1>3 DEF Covered

\* The worker leaves nothing undone that would be forgotten.
LEMMA WorkDoneStep ==
  ASSUME TypeOK, HeadIsJob, SyncInv, JobsKnowTunnel, WorkDone, [Next]_vars
  PROVE  WorkDone'
<1> USE DEF panel, tasks, deletion, cloud
<1>a. ReadBackFits /\ DownIsEmpty /\ PubsHaveRows
  BY DEF SyncInv
<1>1. CASE worker' \notin {"ingress", "pop"}
  BY <1>1 DEF WorkDone
<1>2. CASE UNCHANGED <<worker, job, problems>> /\ ~Launch /\ ~Exit /\ ~Crash /\ ~PopJob
           /\ worker \in {"ingress", "pop"}
  <2>1. queue # <<>> /\ job # NoJob
    BY <1>2 DEF HeadIsJob
  <2>2. Covered => Covered'
    BY <1>a, <1>2, <2>1, CoveredStays
  <2>3. job.host \in Hosts /\ Publications(job.host) > 0 => Covered
    BY <1>a DEF PubsHaveRows, Covered, HasRow
  <2>4. job.host \in dns' => job.host \in dns \/ Covered
    BY <2>3, CloudSteps
  <2>5. job.host \in ingress' => job.host \in ingress \/ Covered
    BY <2>3, CloudSteps
  <2>6. job'.host = job.host /\ worker' = worker
    BY <1>2
  <2>7. worker' \in {"ingress", "pop"} => job'.host \notin dns' \/ Covered'
    BY <2>2, <2>4, <2>6 DEF WorkDone
  <2>8. worker' = "pop" => job'.host \notin ingress' \/ Covered'
    BY <2>2, <2>5, <2>6 DEF WorkDone
  <2> QED
    BY <2>7, <2>8 DEF WorkDone
<1>3. CASE UnpublishDns
  <2>1. dns' = dns \ {job.host} \/ \E p \in Trouble : problems' = problems \cup {p}
    BY <1>3 DEF UnpublishDns
  <2>3. job' = job /\ worker' = "ingress"
    BY <1>3 DEF UnpublishDns
  <2>4. job'.host \notin dns' \/ problems' # {}
    BY <2>1, <2>3
  <2> QED
    BY <2>3, <2>4 DEF WorkDone, Covered
<1>4. CASE UnpublishIngress
  <2>1. job.tun
    BY <1>4 DEF UnpublishIngress, HeadIsJob, JobsKnowTunnel
  <2>2. /\ job' = job /\ worker' = "pop" /\ worker = "ingress" /\ dns' = dns /\ queue' = queue /\ rows' = rows
        /\ problems \subseteq problems'
    BY <1>4, <2>1 DEF UnpublishIngress
  <2>3. ingress' = ingress \ {job.host} \/ \E p \in Trouble : problems' = problems \cup {p}
    BY <1>4, <2>1 DEF UnpublishIngress
  <2>5. job'.host \notin ingress' \/ problems' # {}
    BY <2>2, <2>3
  <2>6. Covered => Covered'
    BY <2>2 DEF Covered, HasRow
  <2>7. job'.host \notin dns' \/ Covered'
    BY <2>2, <2>6 DEF WorkDone
  <2>8. job'.host \notin ingress' \/ Covered'
    BY <2>5 DEF Covered
  <2> QED
    BY <2>7, <2>8 DEF WorkDone
<1>5. CASE NoClient
  <2>1. problems' = {"not connected"}
    BY <1>5 DEF NoClient
  <2>2. Covered'
    BY <2>1 DEF Covered
  <2> QED
    BY <2>2 DEF WorkDone
<1> QED
  BY <1>1, <1>2, <1>3, <1>4, <1>5, WorkSteps

\* What has something on Cloudflare stays known.
LEMMA AccountedStep ==
  ASSUME TypeOK, HeadIsJob, SyncInv, WorkDone, Accounted, OrphanFree, [Next]_vars
  PROVE  Accounted'
<1>a. ReadBackFits /\ DownIsEmpty /\ PubsHaveRows
  BY DEF SyncInv
<1>b. queue \in Seq(Job)
  BY DEF TypeOK, QueueType
<1>1. CASE phase' = "down"
  BY <1>1 DEF Accounted
<1>2. CASE Launch
  <2>1. /\ rows' = [h \in Hosts |-> IF h \in disk.routes THEN "idle" ELSE "none"]
        /\ queue' = disk.pending /\ dns' = dns /\ ingress' = ingress /\ leftover' = leftover
    BY <1>2 DEF Launch, cloud
  <2>2. disk.routes \subseteq Hosts
    BY DEF TypeOK, DiskType
  <2>3. disk.routes \subseteq HasRow'
    BY <2>1, <2>2 DEF HasRow
  <2> QED
    BY <2>1, <2>3 DEF OrphanFree, Accounted, Known, Queued
<1>3. CASE phase' # "down" /\ ~Launch
  <2>1. phase # "down" /\ ~Exit /\ ~Crash
    BY <1>3, <1>a, OnlyALaunch DEF Exit, Crash, Gone
  <2>2. \A h \in dns' \cup ingress' : Known(h)
    <3>1. \A h \in Hosts : Publications(h) > 0 => h \in HasRow
      BY <1>a DEF PubsHaveRows, HasRow
    <3>2. \A h \in dns \cup ingress : Known(h)
      BY <2>1 DEF Accounted
    <3> QED
      BY <3>1, <3>2, CloudSteps DEF Known
  <2>3. \A h \in HasRow : h \in HasRow' \/ h \in Queued'
    BY <1>a, <1>3, <2>1, RowsGoToQueue DEF Queued
  <2>4. \A h \in leftover : h \in leftover' \/ h \in HasRow'
    BY LeftoverSteps
  <2>5. CASE ~PopJob
    <3>1. Queued \subseteq Queued'
      BY <1>3, <2>1, <2>5, QueueGrows DEF Queued
    <3>2. \A h \in dns' \cup ingress' : Known(h)'
      BY <2>2, <2>3, <2>4, <3>1 DEF Known
    <3> QED
      BY <3>2 DEF Accounted
  <2>6. CASE PopJob
    <3>1. /\ worker = "pop" /\ rows' = rows /\ dns' = dns /\ ingress' = ingress /\ job' = job
          /\ leftover' = IF problems # {} THEN leftover \cup {job.host} ELSE leftover
      BY <2>6 DEF PopJob, panel, cloud
    <3>2. queue # <<>> /\ Head(queue).host = job.host /\ queue' = Tail(queue)
      BY <2>6, <3>1 DEF PopJob, HeadIsJob
    <3>3. \A i \in DOMAIN queue : i = 1 \/ (i > 1 /\ i - 1 \in DOMAIN queue' /\ queue'[i - 1] = queue[i])
      BY <1>b, <3>2
    <3>4. queue[1].host = job.host
      BY <1>b, <3>2
    <3>5. \A i \in DOMAIN queue : i > 1 => queue[i].host \in Queued'
      BY <1>b, <3>3 DEF Queued
    <3>6. HasRow' = HasRow
      BY <3>1 DEF HasRow
    <3>7. job.host \in dns \cup ingress => Covered
      BY <3>1 DEF WorkDone
    <3>8. Covered => Known(job.host)'
      BY <3>1, <3>5, <3>6 DEF Covered, Known
    <3>9. \A h \in Queued : h = job.host \/ h \in Queued'
      BY <3>3, <3>4, <3>5 DEF Queued
    <3>10. \A h \in dns' \cup ingress' : Known(h)'
      BY <2>2, <3>1, <3>6, <3>7, <3>8, <3>9 DEF Known
    <3> QED
      BY <3>10 DEF Accounted
  <2> QED
    BY <2>5, <2>6
<1> QED
  BY <1>1, <1>2, <1>3

\* And it stays written down.
LEMMA OrphanFreeStep ==
  ASSUME Writable, TypeOK, SyncInv, RowsKept, OrphanFree, [Next]_vars, Accounted'
  PROVE  OrphanFree'
<1>a. DownIsEmpty /\ PubsHaveRows
  BY DEF SyncInv
<1>1. CASE disk' = [routes |-> HasRow', pending |-> queue'] /\ phase' # "down"
  <2>1. \A h \in dns' \cup ingress' : Known(h)'
    BY <1>1 DEF Accounted
  <2>2. disk'.routes = HasRow' /\ disk'.pending = queue'
    BY <1>1
  <2> QED
    BY <2>1, <2>2 DEF Known, Queued, OrphanFree
<1>2. CASE RunReconciled \/ \E h \in Hosts : AddRoute(h)
  <2>1. disk' = [routes |-> HasRow', pending |-> queue'] /\ phase' = phase
    BY <1>2 DEF RunReconciled, AddRoute, Save, HasRow, deletion, Writable
  <2>2. visible \/ loop = "input"
    BY <1>2 DEF RunReconciled, AddRoute, MayAdd, Drain
  <2> QED
    BY <1>1, <1>a, <2>1, <2>2 DEF DownIsEmpty
<1>3. CASE disk' = disk /\ leftover \subseteq leftover'
  <2>1. \A h \in Hosts : Publications(h) > 0 => phase # "down"
    BY <1>a DEF DownIsEmpty, NoPubs, Publications, Stage
  <2>2. \A h \in Hosts : Publications(h) > 0 => h \in disk.routes
    BY <1>a, <2>1 DEF PubsHaveRows, HasRow, RowsKept
  <2>3. \A h \in dns' \cup ingress' : h \in dns \cup ingress \/ h \in disk'.routes
    BY <1>3, <2>2, CloudSteps
  <2> QED
    BY <1>3, <2>3 DEF OrphanFree
<1> QED
  BY <1>a, <1>1, <1>2, <1>3, DiskSteps, LeftoverSteps

\* The invariant as a whole, one part after the other.
LEMMA OrphanInvStep ==
  ASSUME Rush \subseteq {"readd"}, Writable, TypeOK, HeadIsJob, SyncInv, OrphanInv, [Next]_vars
  PROVE  OrphanInv'
<1>1. DownIsEmpty /\ JobsKnowTunnel /\ RowsKept /\ Accounted /\ WorkDone /\ OrphanFree
  BY DEF SyncInv, OrphanInv
<1>2. JobsKnowTunnel' /\ RowsKept'
  BY <1>1, JobsKnowTunnelStep, RowsKeptStep
<1>3. WorkDone' /\ Accounted'
  BY <1>1, WorkDoneStep, AccountedStep
<1>4. OrphanFree'
  BY <1>1, <1>3, OrphanFreeStep
<1> QED
  BY <1>2, <1>3, <1>4 DEF OrphanInv

\* It holds to begin with.
LEMMA InitSyncInv == Init => SyncInv
<1> SUFFICES ASSUME Init PROVE SyncInv
  OBVIOUS
<1>1. OneReadBack /\ ReadBackFits
  BY DEF Init, OneReadBack, OneSync, NoSync, ReadBackFits, NoFetch
<1>2. DownIsEmpty
  BY DEF Init, DownIsEmpty, NoFetch
<1>3. \A h \in Hosts : Publications(h) = 0
  <2> TAKE h \in Hosts
  <2>1. pubs = NoPubs
    BY DEF Init
  <2>2. pubs[h]["dns"] = 0 /\ pubs[h]["ingress"] = 0 /\ pubs[h]["live"] = 0 /\ pubs[h]["failed"] = 0
    BY <2>1 DEF NoPubs, Stage
  <2> QED
    BY <2>2 DEF Publications
<1> QED
  BY <1>1, <1>2, <1>3 DEF SyncInv, PubsHaveRows

\* And so does what keeps Cloudflare accounted for.
LEMMA InitOrphanInv == Init => OrphanInv
<1> SUFFICES ASSUME Init PROVE OrphanInv
  OBVIOUS
<1>1. RowsKept /\ Accounted /\ WorkDone
  BY DEF Init, RowsKept, Accounted, WorkDone
<1>2. JobsKnowTunnel /\ OrphanFree
  BY DEF Init, JobsKnowTunnel, OrphanFree
<1> QED
  BY <1>1, <1>2 DEF OrphanInv

\* Whatever an unhurried user has on Cloudflare, config.json knows of, as a route
\* or as a deletion to come, unless the worker tried the deletion and met a
\* problem: calls may fail, the token may be missing or not be verified in time,
\* the panel may be hidden, the user may quit and the process may die.
THEOREM NothingIsOrphaned ==
  ASSUME Rush \subseteq {"readd"}, "locked" \notin Env
  PROVE  Spec => []OrphanFree
<1>1. Writable
  BY DEF Writable
<1>2. TypeOK /\ HeadIsJob /\ SyncInv /\ OrphanInv /\ [Next]_vars => SyncInv' /\ OrphanInv'
  BY <1>1, SyncInvStep, OrphanInvStep
<1>3. OrphanInv => OrphanFree
  BY DEF OrphanInv
<1> QED
  BY <1>2, <1>3, InitSyncInv, InitOrphanInv, PanelTypeCorrect, PoppedJobIsDone, PTL DEF Spec

-----------------------------------------------------------------------------
(* A row that is live is served.                                           *)

Served(h) == h \in dns /\ h \in ingress

\* The application is started once and goes on; what the only launch restores
\* holds no deletions.
FirstLaunch ==
  /\ phase # "quitting"
  /\ phase = "down" => disk.pending = <<>>

\* While the list is read back nothing is being removed.
SyncIsQuiet == Syncing => queue = <<>>

QueuedHasNoRow == \A i \in DOMAIN queue : queue[i].host \notin HasRow

\* A closure that would make a row live which was deleted since.
Stale(i) == posts[i].kind = "live" /\ posts[i].host \notin HasRow

\* It has run before its hostname can have a row again.
StaleComesFirst ==
  \A i \in DOMAIN posts : Stale(i) =>
    /\ ~setup /\ fetch.at = "none" /\ loop # "input"
    /\ \A j \in DOMAIN posts : SyncPost(posts[j]) => i < j

\* What a publication did so far is there.
PubsServed ==
  \A h \in Hosts :
    /\ pubs[h]["ingress"] > 0 => h \in dns
    /\ pubs[h]["live"] > 0 => Served(h)

PostsServed ==
  \A i \in DOMAIN posts :
    posts[i].kind = "live" /\ posts[i].host \in HasRow => Served(posts[i].host)

\* What was read back from Cloudflare is still so.
FetchIsTrue ==
  /\ fetch.at \in {"dns", "post"} => fetch.mapped \subseteq ingress
  /\ fetch.at = "post" => fetch.named \subseteq dns

AnswerIsTrue ==
  \A i \in DOMAIN posts : posts[i].kind = "reconciled" =>
    \A h \in Hosts : posts[i].kept[h] = "live" => Served(h)

LiveInv ==
  /\ FirstLaunch /\ SyncIsQuiet /\ QueuedHasNoRow /\ StaleComesFirst
  /\ LiveRowIsPublished /\ PubsServed /\ PostsServed /\ FetchIsTrue /\ AnswerIsTrue

\* Nobody ends the application.
Steady == {"crash", "quit"} \cap Env = {}

\* Nobody ends it.
LEMMA FirstLaunchStep ==
  ASSUME Steady, TypeOK, DownIsEmpty, FirstLaunch, [Next]_vars
  PROVE  FirstLaunch' /\ ~Exit /\ ~Crash
<1>1. ~Exit /\ ~Crash /\ ~Quit
  BY DEF Exit, Crash, Quit, FirstLaunch, Steady
<1>2. phase' \in {phase, "up"}
  BY <1>1 DEF Next, Launch, Show, Hide, Toggle,
     StatusChanges, TaskStep, Verified, SetUp, FetchIngress,
     FetchDns, FetchDone, PublishDns, PublishIngress, Published, WorkerStep, WorkerWakes, WorkerStops,
     TakeJob, HaveClient, AwaitClient, NoClient, UnpublishDns, UnpublishIngress, PopJob, ReportJob, vars,
     LoopStep, RunPost, RunVerified, RunUnverified, RunToggle, RunTunnelReady, RunReconciled, RunPublished,
     RunSaved, RunNote, Drained, NoInput, SaveDeletion, SignalWorker, Reverify, AddRoute, DeleteRoute
<1> QED
  BY <1>1, <1>2, DiskSteps DEF FirstLaunch

\* Where a read back can begin.
LEMMA SyncSteps ==
  ASSUME TypeOK, ~Syncing, [Next]_vars
  PROVE  ~Syncing' \/ Launch \/ Toggle \/ Reverify
<1> USE DEF panel, tasks, deletion, cloud
<1>a. ~setup /\ ~checking /\ fetch.at = "none" /\ NoSync(posts) /\ PostsType
  BY SyncingIsChain DEF TypeOK
<1>1. CASE \E kind : Drain(kind) /\ kind \in {"verified", "toggle", "tunnelReady", "reconciled"}
  BY <1>a, <1>1, DrainSync, NoneIsOne
<1>2. NoSync(posts') \/ Toggle \/ (\E kind : Drain(kind) /\ kind \in {"verified", "toggle", "tunnelReady", "reconciled"})
  <2>1. CASE posts' = posts \/ posts' = <<>>
    BY <1>a, <2>1 DEF NoSync
  <2>2. ASSUME NEW p, Dispatch(p), PostedWhen(p) PROVE NoSync(posts') \/ Toggle
    BY <1>a, <2>2, DispatchSync DEF PostedWhen
  <2>3. ASSUME NEW kind, Drain(kind), posts' = Tail(posts) \/ posts' = Superseded(Tail(posts))
        PROVE  NoSync(posts')
    BY <1>a, <2>3, DrainSync, NoneIsOne, SupersededSync
  <2> QED
    BY <2>1, <2>2, <2>3, PostSteps
<1>3. \/ ~setup' /\ ~checking' /\ fetch'.at = "none"
      \/ Launch \/ Reverify \/ RunVerified \/ RunToggle \/ RunTunnelReady
  <2>1. CASE UNCHANGED <<setup, checking, fetch>>
    BY <1>a, <2>1
  <2>2. CASE Exit \/ Crash
    BY <2>2 DEF Exit, Crash, Gone, NoFetch
  <2>3. CASE Verified \/ SetUp \/ FetchIngress \/ FetchDns \/ FetchDone
    BY <1>a, <2>3 DEF Verified, SetUp, FetchIngress, FetchDns, FetchDone
  <2>4. CASE Quit \/ Show \/ Hide \/ Toggle \/ StatusChanges \/ UNCHANGED vars
             \/ \E h \in Hosts : \/ PublishDns(h) \/ PublishIngress(h)
                                 \/ Published(h, "live") \/ Published(h, "failed")
    BY <2>1, <2>4 DEF Quit, Show, Hide, Toggle, StatusChanges, vars, PublishDns, PublishIngress, Published, Move
  <2>5. CASE WorkerStep
    BY <2>1, <2>5 DEF WorkerStep, WorkerWakes, WorkerStops, TakeJob, HaveClient, AwaitClient, NoClient,
       UnpublishDns, UnpublishIngress, PopJob, ReportJob
  <2>6. CASE \/ RunUnverified \/ RunReconciled \/ RunSaved \/ RunNote
             \/ RunPublished("live") \/ RunPublished("failed")
             \/ Drained \/ NoInput \/ SaveDeletion \/ SignalWorker
             \/ \E h \in Hosts : AddRoute(h) \/ DeleteRoute(h)
    BY <2>1, <2>6 DEF RunUnverified, RunReconciled, RunSaved, RunNote, RunPublished, Publish,
       Drained, NoInput, SaveDeletion, SignalWorker, AddRoute, DeleteRoute
  <2> QED
    BY <2>2, <2>3, <2>4, <2>5, <2>6 DEF Next, LoopStep, RunPost, TaskStep
<1>4. RunVerified \/ RunToggle \/ RunTunnelReady =>
        \E kind : Drain(kind) /\ kind \in {"verified", "toggle", "tunnelReady", "reconciled"}
  BY DEF RunVerified, RunToggle, RunTunnelReady
<1>5. ~setup' /\ ~checking' /\ fetch'.at = "none" /\ NoSync(posts') => ~Syncing'
  BY DEF Syncing, NoSync, SyncPost
<1> QED
  BY <1>1, <1>2, <1>3, <1>4, <1>5

\* An unhurried user changes the list only while it is not being read back.
LEMMA SyncIsQuietStep ==
  ASSUME Rush = {}, Steady, TypeOK, DownIsEmpty, FirstLaunch, SyncIsQuiet, [Next]_vars
  PROVE  SyncIsQuiet'
<1> USE DEF panel, tasks, deletion, cloud
<1>a. ~Exit /\ ~Crash
  BY FirstLaunchStep
<1>1. CASE Launch
  BY <1>1 DEF Launch, FirstLaunch, SyncIsQuiet
<1>2. CASE Toggle \/ Reverify
  BY <1>2 DEF Toggle, Reverify, SyncIsQuiet
<1>3. ASSUME NEW h \in Hosts, DeleteRoute(h) PROVE ~Syncing'
  <2>1. ~Syncing /\ UNCHANGED <<setup, checking, fetch, posts>>
    BY <1>3 DEF DeleteRoute, MayDelete
  <2> QED
    BY <2>1 DEF Syncing
<1>4. CASE queue # <<>> /\ ~Launch /\ ~Toggle /\ ~Reverify
  BY <1>4, SyncSteps DEF SyncIsQuiet
<1>5. CASE queue = <<>> /\ ~Launch /\ \A h \in Hosts : ~DeleteRoute(h)
  <2>1. queue' = <<>>
    BY <1>5, <1>a, QueueStays DEF PopJob
  <2> QED
    BY <2>1 DEF SyncIsQuiet
<1> QED
  BY <1>1, <1>2, <1>3, <1>4, <1>5 DEF SyncIsQuiet

\* A hostname whose deletion is queued does not get its row back.
LEMMA QueuedHasNoRowStep ==
  ASSUME Rush = {}, Steady, TypeOK, SyncInv, FirstLaunch, SyncIsQuiet, QueuedHasNoRow, [Next]_vars
  PROVE  QueuedHasNoRow'
<1> USE DEF panel, tasks, deletion, cloud
<1>a. ~Exit /\ ~Crash /\ queue \in Seq(Job)
  BY FirstLaunchStep DEF SyncInv, TypeOK, QueueType
<1>1. CASE Launch
  BY <1>1 DEF Launch, FirstLaunch, QueuedHasNoRow
<1>2. CASE RunReconciled
  <2>1. Syncing
    BY <1>2, DrainedPosts DEF RunReconciled, Syncing, TypeOK
  <2>2. queue = <<>> /\ queue' = queue
    BY <1>2, <2>1 DEF SyncIsQuiet, RunReconciled
  <2> QED
    BY <2>2 DEF QueuedHasNoRow
<1>3. ASSUME NEW h \in Hosts, AddRoute(h) PROVE QueuedHasNoRow'
  <2>1. rows' = [rows EXCEPT ![h] = "starting"] /\ rows \in [Hosts -> Status \cup {"none"}]
    BY <1>3 DEF AddRoute, TypeOK, RowsType
  <2>2. HasRow' \subseteq HasRow \cup {h} /\ h \notin Queued /\ queue' = queue
    BY <1>3, <2>1 DEF HasRow, AddRoute, MayAdd
  <2> QED
    BY <2>2 DEF QueuedHasNoRow, Queued
<1>4. ASSUME NEW h \in Hosts, DeleteRoute(h) PROVE QueuedHasNoRow'
  <2>1. rows' = [rows EXCEPT ![h] = "none"] /\ rows \in [Hosts -> Status \cup {"none"}]
    BY <1>4 DEF DeleteRoute, TypeOK, RowsType
  <2>2. HasRow' \subseteq HasRow /\ h \notin HasRow'
    BY <2>1 DEF HasRow
  <2>3. queue' = Append(queue, [host |-> h, tun |-> tunnel]) /\ tunnel \in BOOLEAN
    BY <1>4 DEF DeleteRoute, TypeOK, FlagTypes
  <2>4. [host |-> h, tun |-> tunnel] \in Job
    BY <2>3 DEF Job
  <2>5. \A i \in DOMAIN queue' : queue'[i].host = h \/ (i \in DOMAIN queue /\ queue'[i] = queue[i])
    BY <1>a, <2>3, <2>4
  <2> QED
    BY <2>2, <2>5 DEF QueuedHasNoRow
<1>5. CASE PopJob
  <2>1. queue' = queue \/ (queue # <<>> /\ queue' = Tail(queue))
    BY <1>5 DEF PopJob
  <2>2. HasRow' = HasRow
    BY <1>5 DEF PopJob, HasRow
  <2>3. queue # <<>> => \A i \in DOMAIN Tail(queue) : i + 1 \in DOMAIN queue /\ Tail(queue)[i] = queue[i + 1]
    BY <1>a
  <2> QED
    BY <2>1, <2>2, <2>3 DEF QueuedHasNoRow
<1>6. CASE HasRow' = HasRow /\ queue' = queue
  BY <1>6 DEF QueuedHasNoRow
<1> QED
  BY <1>a, <1>1, <1>2, <1>3, <1>4, <1>5, <1>6, RowSteps, QueueStays

\* A stale closure stays stale for as long as it waits.
LEMMA StaleStays ==
  ASSUME TypeOK, DownIsEmpty, StaleComesFirst, [Next]_vars,
         NEW i \in DOMAIN posts, Stale(i)
  PROVE  posts[i].host \notin HasRow'
<1>1. CASE HasRow' = HasRow
  BY <1>1 DEF Stale
<1>2. CASE Launch
  BY <1>2 DEF Launch, DownIsEmpty
<1>3. CASE Exit \/ Crash
  BY <1>3 DEF Exit, Crash, Gone, HasRow
<1>4. CASE RunReconciled
  <2>1. 1 \in DOMAIN posts /\ SyncPost(posts[1])
    BY <1>4, DrainedPosts DEF RunReconciled, SyncPost, TypeOK
  <2>2. i \in Nat \ {0}
    BY DEF TypeOK, PostsType
  <2> QED
    BY <2>1, <2>2 DEF StaleComesFirst
<1>5. ASSUME NEW h \in Hosts, AddRoute(h) PROVE FALSE
  BY <1>5 DEF AddRoute, MayAdd, StaleComesFirst
<1>6. ASSUME NEW h \in Hosts, DeleteRoute(h) PROVE HasRow' \subseteq HasRow
  <2>1. rows' = [rows EXCEPT ![h] = "none"] /\ rows \in [Hosts -> Status \cup {"none"}]
    BY <1>6 DEF DeleteRoute, TypeOK, RowsType
  <2> QED
    BY <2>1 DEF HasRow
<1> QED
  BY <1>1, <1>2, <1>3, <1>4, <1>5, <1>6, RowSteps DEF Stale

\* Only a deletion takes a row away.
LEMMA RowsGoByDelete ==
  ASSUME Steady, TypeOK, SyncInv, FirstLaunch, [Next]_vars, \A h \in Hosts : ~DeleteRoute(h)
  PROVE  HasRow \subseteq HasRow' \/ (Launch /\ posts' = <<>>)
<1>1. ~Exit /\ ~Crash
  BY FirstLaunchStep DEF SyncInv
<1>2. CASE Launch
  BY <1>2 DEF Launch, SyncInv, DownIsEmpty
<1>3. CASE RunReconciled
  BY <1>3, AnswerKeepsRows DEF SyncInv
<1>4. ASSUME NEW h \in Hosts, AddRoute(h) PROVE HasRow \subseteq HasRow'
  <2>1. rows' = [rows EXCEPT ![h] = "starting"] /\ rows \in [Hosts -> Status \cup {"none"}]
    BY <1>4 DEF AddRoute, TypeOK, RowsType
  <2> QED
    BY <2>1 DEF HasRow
<1> QED
  BY <1>1, <1>2, <1>3, <1>4, RowSteps

\* What is posted goes behind the stale closures, and nothing that could give
\* their hostnames a row starts before they have run.
LEMMA StaleComesFirstStep ==
  ASSUME Rush = {}, Steady, TypeOK, SyncInv, FirstLaunch, StaleComesFirst, [Next]_vars
  PROVE  StaleComesFirst'
<1> USE DEF panel, tasks, deletion, cloud
<1>a. PostsType /\ ~Exit /\ ~Crash /\ DownIsEmpty /\ PubsHaveRows
  BY FirstLaunchStep DEF TypeOK, SyncInv
<1>b. \A h \in Hosts : pubs[h]["live"] > 0 => h \in HasRow
  <2> SUFFICES ASSUME NEW h \in Hosts, pubs[h]["live"] > 0 PROVE h \in HasRow
    OBVIOUS
  <2>1. /\ pubs[h]["dns"] \in Nat /\ pubs[h]["ingress"] \in Nat
        /\ pubs[h]["live"] \in Nat /\ pubs[h]["failed"] \in Nat
    BY DEF TypeOK, PubsType, Stage
  <2>2. Publications(h) > 0
    BY <2>1 DEF Publications
  <2> QED
    BY <1>a, <2>2 DEF PubsHaveRows, HasRow
<1>1. ASSUME NEW h \in Hosts, DeleteRoute(h) PROVE StaleComesFirst'
  <2>1. NoSync(posts) /\ ~setup /\ fetch.at = "none"
    BY <1>1, SyncingIsChain DEF DeleteRoute, MayDelete
  <2>2. UNCHANGED <<posts, setup, fetch>> /\ loop' = "save"
    BY <1>1 DEF DeleteRoute
  <2> QED
    BY <2>1, <2>2 DEF StaleComesFirst, NoSync
<1>2. CASE posts' = <<>>
  BY <1>2 DEF StaleComesFirst
<1>3. ASSUME HasRow \subseteq HasRow', posts' = posts,
             setup' => setup, fetch'.at # "none" => fetch.at # "none", loop' = "input" => loop = "input"
      PROVE  StaleComesFirst'
  BY <1>3 DEF StaleComesFirst, Stale
<1>4. ASSUME HasRow \subseteq HasRow', NEW p, Dispatch(p), p.kind = "live" => p.host \in HasRow,
             SyncPost(p) => setup \/ fetch.at # "none" \/ NoSync(posts),
             setup' => setup, fetch'.at # "none" => fetch.at # "none", loop' = "input" => loop = "input"
      PROVE  StaleComesFirst'
  <2>1. CASE posts' = posts
    BY <1>3, <1>4, <2>1
  <2>2. CASE posts' # posts
    <3>1. /\ DOMAIN posts \subseteq DOMAIN posts'
          /\ \A k \in DOMAIN posts' :
               \/ k \in DOMAIN posts /\ posts'[k] = posts[k]
               \/ posts'[k] = p /\ \A j \in DOMAIN posts : j < k
      BY <1>a, <1>4, <2>2, DispatchedPosts
    <3> SUFFICES ASSUME NEW i \in DOMAIN posts', Stale(i)'
                 PROVE  /\ ~setup' /\ fetch'.at = "none" /\ loop' # "input"
                        /\ \A j \in DOMAIN posts' : SyncPost(posts'[j]) => i < j
      BY DEF StaleComesFirst
    <3>2. i \in DOMAIN posts /\ posts'[i] = posts[i] /\ Stale(i)
      BY <1>4, <3>1 DEF Stale
    <3>3. ~setup' /\ fetch'.at = "none" /\ loop' # "input"
      BY <1>4, <3>2 DEF StaleComesFirst
    <3>4. \A j \in DOMAIN posts' : SyncPost(posts'[j]) => i < j
      BY <3>1, <3>2 DEF StaleComesFirst
    <3> QED
      BY <3>3, <3>4
  <2> QED
    BY <2>1, <2>2
<1>5. ASSUME HasRow \subseteq HasRow', NEW kind, Drain(kind),
             posts' = Tail(posts) \/ posts' = Superseded(Tail(posts)), loop' = loop,
             ~SyncPost(posts[1]) => (setup' => setup) /\ (fetch'.at # "none" => fetch.at # "none")
      PROVE  StaleComesFirst'
  <2>1. 1 \in DOMAIN posts
    BY <1>a, <1>5, DrainedPosts
  <2>2. \A k \in DOMAIN Tail(posts) : k \in Int /\ 1 <= k /\ k + 1 \in DOMAIN posts /\ Tail(posts)[k] = posts[k + 1]
    BY <1>a, <1>5, DrainedPosts
  <2>3. \A k \in DOMAIN posts' : /\ k \in Int /\ 1 <= k /\ k + 1 \in DOMAIN posts
                                 /\ posts'[k] = posts[k + 1] \/ posts'[k] = Note
    <3> DEFINE ps == Tail(posts)
    <3>1. \A k \in DOMAIN ps : k \in Int /\ 1 <= k /\ k + 1 \in DOMAIN posts /\ ps[k] = posts[k + 1]
      BY <2>2
    <3>2. posts' = ps \/ posts' = Superseded(ps)
      BY <1>5
    <3> HIDE DEF ps
    <3>3. \A k \in DOMAIN Superseded(ps) : k \in DOMAIN ps /\ Superseded(ps)[k] \in {ps[k], Note}
      BY DEF Superseded
    <3> QED
      BY <3>1, <3>2, <3>3
  <2> SUFFICES ASSUME NEW i \in DOMAIN posts', Stale(i)'
               PROVE  /\ ~setup' /\ fetch'.at = "none" /\ loop' # "input"
                      /\ \A j \in DOMAIN posts' : SyncPost(posts'[j]) => i < j
    BY DEF StaleComesFirst
  <2>4. i + 1 \in DOMAIN posts /\ posts'[i] = posts[i + 1] /\ Stale(i + 1) /\ i \in Int /\ 1 <= i
    BY <1>5, <2>3 DEF Stale, Note
  <2>5. ~setup /\ fetch.at = "none" /\ loop # "input" /\ \A j \in DOMAIN posts : SyncPost(posts[j]) => i + 1 < j
    BY <2>4 DEF StaleComesFirst
  <2>6. ~SyncPost(posts[1])
    BY <2>1, <2>4, <2>5
  <2>7. \A j \in DOMAIN posts' : SyncPost(posts'[j]) => i < j
    <3> SUFFICES ASSUME NEW j \in DOMAIN posts', SyncPost(posts'[j]) PROVE i < j
      OBVIOUS
    <3>1. j \in Int /\ j + 1 \in DOMAIN posts /\ posts'[j] = posts[j + 1]
      BY <2>3 DEF SyncPost, Note
    <3>2. i + 1 < j + 1
      BY <2>5, <3>1
    <3> QED
      BY <2>4, <3>1, <3>2
  <2> QED
    BY <1>5, <2>5, <2>6, <2>7
<1>6. ASSUME \A h \in Hosts : ~DeleteRoute(h), posts' # <<>>
      PROVE  HasRow \subseteq HasRow'
  BY <1>6, RowsGoByDelete
<1>7. CASE Drained
  BY <1>2, <1>7 DEF Drained
<1>8. ASSUME HasRow \subseteq HasRow', RunPost
      PROVE  StaleComesFirst'
  <2>1. loop' = loop
    BY <1>8 DEF RunPost, RunVerified, RunUnverified, RunToggle, RunTunnelReady, RunReconciled, RunPublished,
       RunSaved, RunNote
  <2>2. \E kind : /\ Drain(kind) /\ (posts' = Tail(posts) \/ posts' = Superseded(Tail(posts)))
                  /\ ~SyncPost(posts[1]) => (setup' => setup) /\ (fetch'.at # "none" => fetch.at # "none")
    <3>1. CASE RunVerified \/ RunToggle \/ RunTunnelReady
      <4>1. \E kind \in {"verified", "toggle", "tunnelReady"} : Drain(kind)
                /\ (posts' = Tail(posts) \/ posts' = Superseded(Tail(posts)))
        BY <3>1 DEF RunVerified, RunToggle, RunTunnelReady, EnsureTunnel
      <4>2. ASSUME NEW kind \in {"verified", "toggle", "tunnelReady"}, Drain(kind) PROVE SyncPost(posts[1])
        BY <1>a, <4>2, DrainedPosts DEF SyncPost
      <4> QED
        BY <4>1, <4>2
    <3>2. CASE RunUnverified \/ RunReconciled \/ RunPublished("live") \/ RunPublished("failed")
               \/ RunSaved \/ RunNote
      BY <3>2 DEF RunUnverified, RunReconciled, RunPublished, RunSaved, RunNote, Publish
    <3> QED
      BY <1>8, <3>1, <3>2 DEF RunPost
  <2> QED
    BY <1>5, <1>8, <2>1, <2>2
<1>9. ASSUME HasRow \subseteq HasRow', ~RunPost, ~Drained, \A h \in Hosts : ~DeleteRoute(h)
      PROVE  /\ setup' => setup
             /\ fetch'.at # "none" => fetch.at # "none"
             /\ loop' = "input" => loop = "input"
  <2>1. CASE UNCHANGED <<setup, fetch, loop>>
    BY <2>1
  <2>2. CASE Launch \/ Quit \/ Show \/ Hide \/ Toggle \/ StatusChanges \/ UNCHANGED vars
             \/ Verified \/ \E h \in Hosts : \/ PublishDns(h) \/ PublishIngress(h)
                                             \/ Published(h, "live") \/ Published(h, "failed")
    BY <2>1, <2>2 DEF Launch, Quit, Show, Hide, Toggle, StatusChanges, vars, Verified, PublishDns,
       PublishIngress, Published, Move
  <2>3. CASE SetUp \/ FetchIngress \/ FetchDns \/ FetchDone
    <3>1. CASE FetchIngress \/ FetchDns \/ FetchDone
      <4>1. fetch.at # "none" /\ UNCHANGED <<setup, loop>>
        BY <3>1 DEF FetchIngress, FetchDns, FetchDone
      <4> QED
        BY <4>1
    <3>2. CASE SetUp
      BY <3>2 DEF SetUp
    <3> QED
      BY <2>3, <3>1, <3>2
  <2>4. CASE NoInput \/ SaveDeletion \/ SignalWorker \/ Reverify \/ \E h \in Hosts : AddRoute(h)
    <3>1. CASE NoInput \/ SaveDeletion \/ SignalWorker \/ Reverify
      <4>1. loop' # "input" /\ UNCHANGED <<setup, fetch>>
        BY <3>1 DEF NoInput, SaveDeletion, SignalWorker, Reverify
      <4> QED
        BY <4>1
    <3>2. ASSUME NEW h \in Hosts, AddRoute(h)
          PROVE  loop' # "input" /\ UNCHANGED <<setup, fetch>>
      BY <3>2 DEF AddRoute
    <3> QED
      BY <2>4, <3>1, <3>2
  <2>5. CASE WorkerStep
    <3>1. UNCHANGED <<setup, fetch, loop>>
      BY <2>5 DEF WorkerStep, WorkerWakes, WorkerStops, TakeJob, HaveClient, AwaitClient, NoClient,
         UnpublishDns, UnpublishIngress, PopJob, ReportJob
    <3> QED
      BY <2>1, <3>1
  <2> QED
    BY <1>9, <1>a, <2>2, <2>3, <2>4, <2>5 DEF Next, TaskStep, LoopStep
<1>10. ASSUME HasRow \subseteq HasRow', ~RunPost, ~Drained, \A h \in Hosts : ~DeleteRoute(h),
              NEW p, Dispatch(p), PostedWhen(p)
       PROVE  StaleComesFirst'
  <2>1. p.kind = "live" => p.host \in HasRow
    BY <1>10, <1>b DEF PostedWhen
  <2>2. SyncPost(p) => setup \/ fetch.at # "none" \/ NoSync(posts)
    <3>1. checking => NoSync(posts)
      BY DEF SyncInv, OneReadBack
    <3>2. Toggle => NoSync(posts)
      BY SyncingIsChain DEF Toggle
    <3> QED
      BY <1>10, <3>1, <3>2 DEF PostedWhen
  <2> QED
    BY <1>4, <1>9, <1>10, <2>1, <2>2
<1>11. CASE ~RunPost /\ ~Drained /\ (\A h \in Hosts : ~DeleteRoute(h)) /\ posts' # <<>>
  <2>1. HasRow \subseteq HasRow'
    BY <1>6, <1>11
  <2>2. posts' = posts \/ \E p : Dispatch(p) /\ PostedWhen(p)
    BY <1>a, <1>11, PostSteps
  <2> QED
    BY <1>3, <1>9, <1>10, <1>11, <2>1, <2>2
<1> QED
  BY <1>1, <1>2, <1>6, <1>7, <1>8, <1>11

\* Something is removed from Cloudflare only for the first queued deletion.
LEMMA CloudGoesByJob ==
  ASSUME TypeOK, HeadIsJob, [Next]_vars
  PROVE  \/ dns \subseteq dns' /\ ingress \subseteq ingress'
         \/ /\ 1 \in DOMAIN queue
            /\ dns \ {queue[1].host} \subseteq dns' /\ ingress \ {queue[1].host} \subseteq ingress'
            /\ posts' = posts /\ rows' = rows
<1> USE DEF panel, tasks, deletion, cloud
<1>1. CASE UNCHANGED <<dns, ingress>>
  BY <1>1
<1>2. CASE UnpublishDns \/ UnpublishIngress
  <2>1. worker \in {"dns", "ingress"}
    BY <1>2 DEF UnpublishDns, UnpublishIngress
  <2>2. queue # <<>> /\ Head(queue).host = job.host /\ queue \in Seq(Job)
    BY <2>1 DEF HeadIsJob, TypeOK, QueueType
  <2>3. 1 \in DOMAIN queue /\ queue[1].host = job.host
    BY <2>2
  <2>4. dns \ {job.host} \subseteq dns' /\ ingress \ {job.host} \subseteq ingress'
        /\ posts' = posts /\ rows' = rows
    BY <1>2 DEF UnpublishDns, UnpublishIngress
  <2> QED
    BY <2>3, <2>4
<1>3. ASSUME NEW h \in Hosts, PublishDns(h) \/ PublishIngress(h)
      PROVE  dns \subseteq dns' /\ ingress \subseteq ingress'
  BY <1>3 DEF PublishDns, PublishIngress
<1>4. CASE Launch \/ Exit \/ Crash \/ Quit \/ Show \/ Hide \/ Toggle \/ StatusChanges \/ UNCHANGED vars
           \/ Verified \/ SetUp \/ FetchIngress \/ FetchDns \/ FetchDone
           \/ \E h \in Hosts : Published(h, "live") \/ Published(h, "failed")
  BY <1>1, <1>4 DEF Launch, Exit, Crash, Gone, Quit, Show, Hide, Toggle, StatusChanges, vars,
     Verified, SetUp, FetchIngress, FetchDns, FetchDone, Published
<1>5. CASE \/ WorkerWakes \/ WorkerStops \/ TakeJob \/ HaveClient \/ AwaitClient \/ NoClient
           \/ PopJob \/ ReportJob
  BY <1>1, <1>5 DEF WorkerWakes, WorkerStops, TakeJob, HaveClient, AwaitClient, NoClient, PopJob, ReportJob
<1>6. CASE LoopStep
  BY <1>1, <1>6 DEF LoopStep, RunPost, RunVerified, RunUnverified, RunToggle, RunTunnelReady,
     RunReconciled, RunPublished, RunSaved, RunNote, Drained, NoInput, SaveDeletion, SignalWorker,
     Reverify, AddRoute, DeleteRoute
<1> QED
  BY <1>2, <1>3, <1>4, <1>5, <1>6 DEF Next, TaskStep, WorkerStep

\* What has a row keeps its record and its rule.
LEMMA RowsStayServed ==
  ASSUME TypeOK, HeadIsJob, QueuedHasNoRow, [Next]_vars
  PROVE  \A h \in HasRow : (h \in dns => h \in dns') /\ (h \in ingress => h \in ingress')
BY CloudGoesByJob DEF QueuedHasNoRow

\* And while the list is read back everything does.
LEMMA QuietStaysServed ==
  ASSUME TypeOK, HeadIsJob, SyncIsQuiet, Syncing, [Next]_vars
  PROVE  dns \subseteq dns' /\ ingress \subseteq ingress'
<1>1. queue = <<>>
  BY DEF SyncIsQuiet
<1>2. 1 \notin DOMAIN queue
  BY <1>1
<1> QED
  BY <1>2, CloudGoesByJob

\* A publication has a row.
LEMMA PublishedHasRow ==
  ASSUME TypeOK, PubsHaveRows, NEW h \in Hosts, NEW s \in Stage, pubs[h][s] > 0
  PROVE  h \in HasRow
<1>1. /\ pubs[h]["dns"] \in Nat /\ pubs[h]["ingress"] \in Nat
      /\ pubs[h]["live"] \in Nat /\ pubs[h]["failed"] \in Nat
  BY DEF TypeOK, PubsType, Stage
<1>2. Publications(h) > 0
  BY <1>1 DEF Publications, Stage
<1> QED
  BY <1>2 DEF PubsHaveRows, HasRow

\* What a move of a publication changes.
LEMMA MoveChanges ==
  ASSUME PubsType, NEW h \in Hosts, NEW s \in Stage, NEW t \in Stage, s # t, Move(h, s, t)
  PROVE  \A g \in Hosts, u \in Stage : pubs'[g][u] > 0 => pubs[g][u] > 0 \/ (g = h /\ u = t)
<1> DEFINE p == [pubs EXCEPT ![h][s] = @ - 1]
<1>1. pubs' = [p EXCEPT ![h][t] = @ + 1]
  BY DEF Move
<1>2. p \in [Hosts -> [Stage -> Int]]
  BY DEF PubsType
<1>3. \A g \in Hosts, u \in Stage : p[g][u] = IF g = h /\ u = s THEN pubs[g][u] - 1 ELSE pubs[g][u]
  BY DEF PubsType
<1> HIDE DEF p
<1>4. \A g \in Hosts, u \in Stage : g # h \/ u # t => pubs'[g][u] = p[g][u]
  BY <1>1, <1>2
<1>5. \A g \in Hosts, u \in Stage : pubs[g][u] \in Nat
  BY DEF PubsType
<1> QED
  BY <1>3, <1>4, <1>5

\* How publications come to be as far as they are.
LEMMA PubSteps ==
  ASSUME TypeOK, [Next]_vars
  PROVE  \A h \in Hosts :
           /\ pubs'[h]["ingress"] > 0 => pubs[h]["ingress"] > 0 \/ h \in dns'
           /\ pubs'[h]["live"] > 0 =>
                \/ pubs[h]["live"] > 0
                \/ pubs[h]["ingress"] > 0 /\ h \in ingress' /\ dns' = dns
<1> USE DEF panel, tasks, deletion, cloud
<1>a. PubsType
  BY DEF TypeOK
<1>1. CASE pubs' = pubs
  BY <1>1
<1>2. ASSUME NEW hs, Publish(hs)
      PROVE  \A h \in Hosts : pubs'[h]["ingress"] = pubs[h]["ingress"] /\ pubs'[h]["live"] = pubs[h]["live"]
  <2> TAKE h \in Hosts
  <2>1. pubs'[h] = pubs[h] \/ pubs'[h] = [pubs[h] EXCEPT !["dns"] = @ + 1]
    BY <1>2 DEF Publish
  <2>2. pubs[h] \in [Stage -> Nat]
    BY <1>a DEF PubsType
  <2> QED
    BY <2>1, <2>2 DEF Stage
<1>3. ASSUME NEW g \in Hosts, PublishDns(g)
      PROVE  \A h \in Hosts : /\ pubs'[h]["ingress"] > 0 => pubs[h]["ingress"] > 0 \/ h \in dns'
                              /\ pubs'[h]["live"] > 0 => pubs[h]["live"] > 0
  <2>1. (g \in dns' /\ Move(g, "dns", "ingress")) \/ Move(g, "dns", "failed")
    BY <1>3 DEF PublishDns
  <2>2. "dns" \in Stage /\ "ingress" \in Stage /\ "failed" \in Stage /\ "live" \in Stage
    BY DEF Stage
  <2> QED
    BY <1>a, <2>1, <2>2, MoveChanges
<1>4. ASSUME NEW g \in Hosts, PublishIngress(g)
      PROVE  \A h \in Hosts : /\ pubs'[h]["ingress"] > 0 => pubs[h]["ingress"] > 0
                              /\ pubs'[h]["live"] > 0 =>
                                  \/ pubs[h]["live"] > 0
                                  \/ pubs[h]["ingress"] > 0 /\ h \in ingress' /\ dns' = dns
  <2>1. (g \in ingress' /\ Move(g, "ingress", "live")) \/ Move(g, "ingress", "failed")
    BY <1>4 DEF PublishIngress
  <2>2. "dns" \in Stage /\ "ingress" \in Stage /\ "failed" \in Stage /\ "live" \in Stage
    BY DEF Stage
  <2>3. dns' = dns /\ pubs[g]["ingress"] > 0
    BY <1>4 DEF PublishIngress
  <2> QED
    BY <1>a, <2>1, <2>2, <2>3, MoveChanges
<1>5. ASSUME NEW g \in Hosts, NEW s \in {"live", "failed"}, Published(g, s)
      PROVE  \A h \in Hosts : /\ pubs'[h]["ingress"] > 0 => pubs[h]["ingress"] > 0
                              /\ pubs'[h]["live"] > 0 => pubs[h]["live"] > 0
  <2>1. pubs' = [pubs EXCEPT ![g][s] = @ - 1] /\ pubs[g][s] > 0
    BY <1>5 DEF Published
  <2>2. \A h \in Hosts : pubs'[h]["ingress"] = pubs[h]["ingress"]
    BY <1>a, <2>1 DEF PubsType, Stage
  <2>3. \A h \in Hosts : pubs'[h]["live"] = pubs[h]["live"] \/ (h = g /\ s = "live")
    BY <1>a, <2>1 DEF PubsType, Stage
  <2> QED
    BY <2>1, <2>2, <2>3
<1>6. CASE Launch \/ Exit \/ Crash
  <2>1. pubs' = pubs \/ pubs' = NoPubs
    BY <1>6 DEF Launch, Exit, Crash, Gone
  <2>2. CASE pubs' = NoPubs
    <3>1. \A h \in Hosts : pubs'[h]["ingress"] = 0 /\ pubs'[h]["live"] = 0
      BY <2>2 DEF NoPubs, Stage
    <3> QED
      BY <3>1
  <2> QED
    BY <1>1, <2>1, <2>2
<1>7. CASE Quit \/ Show \/ Hide \/ Toggle \/ StatusChanges \/ WorkerStep \/ UNCHANGED vars
           \/ Verified \/ SetUp \/ FetchIngress \/ FetchDns \/ FetchDone
  BY <1>1, <1>7 DEF Quit, Show, Hide, Toggle, StatusChanges, Verified, SetUp, FetchIngress,
     FetchDns, FetchDone, WorkerStep, WorkerWakes, WorkerStops,
     TakeJob, HaveClient, AwaitClient, NoClient, UnpublishDns, UnpublishIngress, PopJob, ReportJob, vars
<1>8. CASE LoopStep
  <2>1. pubs' = pubs \/ \E hs : Publish(hs)
    BY <1>8 DEF LoopStep, RunPost, RunVerified, RunUnverified, RunToggle, RunTunnelReady, RunReconciled, RunSaved,
       RunNote, RunPublished, Drained, NoInput, SaveDeletion, SignalWorker, Reverify, AddRoute, DeleteRoute
  <2> QED
    BY <1>1, <1>2, <2>1
<1> QED
  BY <1>3, <1>4, <1>5, <1>6, <1>7, <1>8 DEF Next, TaskStep

\* A publication does what it says.
LEMMA PubsServedStep ==
  ASSUME TypeOK, HeadIsJob, PubsHaveRows, QueuedHasNoRow, PubsServed, [Next]_vars
  PROVE  PubsServed'
<1>1. "ingress" \in Stage /\ "live" \in Stage
  BY DEF Stage
<1>2. \A h \in Hosts : /\ pubs[h]["ingress"] > 0 => h \in HasRow /\ h \in dns
                       /\ pubs[h]["live"] > 0 => h \in HasRow /\ h \in dns /\ h \in ingress
  BY <1>1, PublishedHasRow DEF PubsServed, Served
<1> QED
  BY <1>2, PubSteps, RowsStayServed DEF PubsServed, Served

\* A closure that makes a row live tells the truth as long as there is a row.
LEMMA PostsServedStep ==
  ASSUME TypeOK, DownIsEmpty, HeadIsJob, PubsHaveRows, QueuedHasNoRow, StaleComesFirst,
         PubsServed, PostsServed, [Next]_vars
  PROVE  PostsServed'
<1>a. PostsType /\ "live" \in Stage
  BY DEF TypeOK, Stage
<1> SUFFICES ASSUME NEW i \in DOMAIN posts', posts'[i].kind = "live", posts'[i].host \in HasRow'
             PROVE  posts'[i].host \in dns' /\ posts'[i].host \in ingress'
  BY DEF PostsServed, Served
<1>2. CASE \E k \in DOMAIN posts : posts'[i] = posts[k]
  <2>1. PICK k \in DOMAIN posts : posts'[i] = posts[k]
    BY <1>2
  <2> DEFINE h == posts[k].host
  <2>2. h \in HasRow
    BY <2>1, StaleStays DEF Stale
  <2>3. h \in dns /\ h \in ingress
    BY <2>1, <2>2 DEF PostsServed, Served
  <2> QED
    BY <2>1, <2>2, <2>3, RowsStayServed
<1>3. ASSUME NEW p, PostedWhen(p), posts'[i] = p
      PROVE  posts'[i].host \in dns' /\ posts'[i].host \in ingress'
  <2>1. p.host \in Hosts /\ pubs[p.host]["live"] > 0
    BY <1>3 DEF PostedWhen
  <2>2. p.host \in HasRow /\ p.host \in dns /\ p.host \in ingress
    BY <1>a, <2>1, PublishedHasRow DEF PubsServed, Served
  <2> QED
    BY <1>3, <2>2, RowsStayServed
<1>4. (\E k \in DOMAIN posts : posts'[i] = posts[k]) \/ PostedWhen(posts'[i])
  BY WhatIsPosted DEF Note
<1> QED
  BY <1>2, <1>3, <1>4

\* What was read back stays so until it is installed.
LEMMA FetchIsTrueStep ==
  ASSUME TypeOK, HeadIsJob, SyncIsQuiet, FetchIsTrue, [Next]_vars
  PROVE  FetchIsTrue'
<1> USE DEF panel, tasks, deletion, cloud
<1>a. FetchType
  BY DEF TypeOK
<1>1. CASE fetch' = fetch
  <2>1. CASE fetch.at \in {"dns", "post"}
    <3>1. Syncing
      BY <2>1 DEF Syncing
    <3> QED
      BY <1>1, <3>1, QuietStaysServed DEF FetchIsTrue
  <2> QED
    BY <1>1, <2>1 DEF FetchIsTrue
<1>2. CASE fetch'.at \in {"none", "ingress"}
  BY <1>2 DEF FetchIsTrue
<1>3. CASE FetchIngress
  <2>1. UNCHANGED <<dns, ingress>>
    BY <1>3 DEF FetchIngress
  <2> QED
    BY <1>a, <1>3, <2>1, FetchSteps DEF FetchIsTrue, NoFetch
<1>4. CASE FetchDns
  <2>1. fetch.at = "dns" /\ UNCHANGED <<dns, ingress>>
    BY <1>4 DEF FetchDns
  <2>2. fetch'.at = "post" /\ fetch'.mapped = fetch.mapped /\ fetch'.named \subseteq dns
    BY <1>a, <1>4, FetchSteps
  <2> QED
    BY <2>1, <2>2 DEF FetchIsTrue
<1>5. CASE Launch \/ Exit \/ Crash \/ FetchDone \/ RunTunnelReady
  <2>1. fetch' = fetch \/ fetch' = NoFetch \/ fetch' = [NoFetch EXCEPT !.at = "ingress", !.stored = HasRow]
    BY <1>5 DEF Launch, Exit, Crash, Gone, FetchDone, RunTunnelReady
  <2>2. [NoFetch EXCEPT !.at = "ingress", !.stored = HasRow].at = "ingress"
    BY DEF NoFetch
  <2>3. NoFetch.at = "none"
    BY DEF NoFetch
  <2> QED
    BY <1>1, <1>2, <2>1, <2>2, <2>3
<1>6. CASE Quit \/ Show \/ Hide \/ Toggle \/ StatusChanges \/ UNCHANGED vars \/ Verified \/ SetUp
           \/ \E h \in Hosts : \/ PublishDns(h) \/ PublishIngress(h)
                               \/ Published(h, "live") \/ Published(h, "failed")
  BY <1>1, <1>6 DEF Quit, Show, Hide, Toggle, StatusChanges, vars, Verified, SetUp, PublishDns,
     PublishIngress, Published, Move
<1>7. CASE WorkerStep
  BY <1>1, <1>7 DEF WorkerStep, WorkerWakes, WorkerStops, TakeJob, HaveClient, AwaitClient, NoClient,
     UnpublishDns, UnpublishIngress, PopJob, ReportJob
<1>8. CASE \/ RunVerified \/ RunUnverified \/ RunToggle \/ RunReconciled \/ RunSaved \/ RunNote
           \/ RunPublished("live") \/ RunPublished("failed")
           \/ Drained \/ NoInput \/ SaveDeletion \/ SignalWorker \/ Reverify
           \/ \E h \in Hosts : AddRoute(h) \/ DeleteRoute(h)
  BY <1>1, <1>8 DEF RunVerified, RunUnverified, RunToggle, RunReconciled, RunSaved, RunNote, RunPublished,
     Publish, Drained, NoInput, SaveDeletion, SignalWorker, Reverify, AddRoute, DeleteRoute
<1> QED
  BY <1>3, <1>4, <1>5, <1>6, <1>7, <1>8 DEF Next, TaskStep, LoopStep, RunPost

\* The answer is what was read back.
LEMMA AnswerIsTrueStep ==
  ASSUME TypeOK, HeadIsJob, SyncIsQuiet, FetchIsTrue, AnswerIsTrue, [Next]_vars
  PROVE  AnswerIsTrue'
<1> SUFFICES ASSUME NEW i \in DOMAIN posts', posts'[i].kind = "reconciled",
                    NEW h \in Hosts, posts'[i].kept[h] = "live"
             PROVE  h \in dns' /\ h \in ingress'
  BY DEF AnswerIsTrue, Served
<1>1. ASSUME NEW k \in DOMAIN posts, posts'[i] = posts[k]
      PROVE  h \in dns' /\ h \in ingress'
  <2>1. Syncing
    BY <1>1 DEF Syncing
  <2>2. h \in dns /\ h \in ingress
    BY <1>1 DEF AnswerIsTrue, Served
  <2> QED
    BY <2>1, <2>2, QuietStaysServed
<1>2. CASE PostedWhen(posts'[i])
  <2>1. fetch.at = "post" /\ Kept[h] = "live" /\ dns' = dns /\ ingress' = ingress
    BY <1>2 DEF PostedWhen, cloud
  <2>2. h \in fetch.named /\ h \in fetch.mapped
    BY <2>1 DEF Kept
  <2> QED
    BY <2>1, <2>2 DEF FetchIsTrue
<1> QED
  BY <1>1, <1>2, WhatIsPosted DEF Note

\* How a row comes to be live.
LEMMA LiveSteps ==
  ASSUME TypeOK, [Next]_vars, NEW h \in Hosts, rows'[h] = "live"
  PROVE  \/ rows[h] = "live"
         \/ RunPublished("live") /\ posts[1].host = h /\ h \in HasRow
         \/ RunReconciled /\ posts[1].kept[h] = "live"
<1> USE DEF panel, tasks, deletion, cloud
<1>a. PostsType /\ rows \in [Hosts -> Status \cup {"none"}]
  BY DEF TypeOK, RowsType
<1>1. CASE rows' = rows
  BY <1>1
<1>2. CASE Launch \/ Exit \/ Crash
  BY <1>2 DEF Launch, Exit, Crash, Gone
<1>3. ASSUME NEW outcome \in {"live", "failed"}, RunPublished(outcome)
      PROVE  rows[h] = "live" \/ (outcome = "live" /\ posts[1].host = h /\ h \in HasRow)
  <2>1. posts[1] = Head(posts)
    BY <1>3, <1>a, DrainedPosts DEF RunPublished
  <2>2. rows' = [rows EXCEPT ![Head(posts).host] = IF @ = "none" THEN @ ELSE outcome]
    BY <1>3 DEF RunPublished
  <2> QED
    BY <1>a, <2>1, <2>2 DEF HasRow
<1>4. CASE RunReconciled
  <2>1. posts[1] = Head(posts)
    BY <1>4, <1>a, DrainedPosts DEF RunReconciled
  <2> QED
    BY <1>4, <2>1 DEF RunReconciled
<1>5. ASSUME NEW g \in Hosts, AddRoute(g) \/ DeleteRoute(g) PROVE rows[h] = "live"
  BY <1>a, <1>5 DEF AddRoute, DeleteRoute
<1>6. CASE Quit \/ Show \/ Hide \/ Toggle \/ StatusChanges \/ TaskStep \/ WorkerStep \/ UNCHANGED vars
  BY <1>1, <1>6 DEF Quit, Show, Hide, Toggle, StatusChanges, TaskStep, Verified, SetUp, FetchIngress,
     FetchDns, FetchDone, PublishDns, PublishIngress, Published, WorkerStep, WorkerWakes, WorkerStops,
     TakeJob, HaveClient, AwaitClient, NoClient, UnpublishDns, UnpublishIngress, PopJob, ReportJob, vars
<1>7. CASE RunVerified \/ RunUnverified \/ RunToggle \/ RunTunnelReady \/ RunSaved \/ RunNote
           \/ Drained \/ NoInput \/ SaveDeletion \/ SignalWorker \/ Reverify
  BY <1>1, <1>7 DEF RunVerified, RunUnverified, RunToggle, RunTunnelReady, RunSaved, RunNote, Drained,
     NoInput, SaveDeletion, SignalWorker, Reverify
<1> QED
  BY <1>2, <1>3, <1>4, <1>5, <1>6, <1>7 DEF Next, LoopStep, RunPost

\* A row becomes live by a closure that tells the truth, or by a true answer.
LEMMA LiveRowStep ==
  ASSUME TypeOK, HeadIsJob, QueuedHasNoRow, PostsServed, AnswerIsTrue, LiveRowIsPublished, [Next]_vars
  PROVE  LiveRowIsPublished'
<1> SUFFICES ASSUME NEW h \in Hosts, rows'[h] = "live"
             PROVE  h \in dns' /\ h \in ingress'
  BY DEF LiveRowIsPublished
<1>1. CASE rows[h] = "live"
  BY <1>1, RowsStayServed DEF LiveRowIsPublished, HasRow
<1>2. CASE RunPublished("live") /\ posts[1].host = h /\ h \in HasRow
  <2>1. 1 \in DOMAIN posts /\ posts[1].kind = "live"
    BY <1>2, DrainedPosts DEF RunPublished, TypeOK
  <2> QED
    BY <1>2, <2>1, RowsStayServed DEF PostsServed, Served
<1>3. CASE RunReconciled /\ posts[1].kept[h] = "live"
  <2>1. 1 \in DOMAIN posts /\ posts[1].kind = "reconciled"
    BY <1>3, DrainedPosts DEF RunReconciled, TypeOK
  <2>2. dns' = dns /\ ingress' = ingress
    BY <1>3 DEF RunReconciled, cloud
  <2> QED
    BY <1>3, <2>1, <2>2 DEF AnswerIsTrue, Served
<1> QED
  BY <1>1, <1>2, <1>3, LiveSteps

\* The invariant as a whole.
LEMMA LiveInvStep ==
  ASSUME Rush = {}, Steady, TypeOK, HeadIsJob, SyncInv, LiveInv, [Next]_vars
  PROVE  LiveInv'
<1>1. /\ FirstLaunch /\ SyncIsQuiet /\ QueuedHasNoRow /\ StaleComesFirst
      /\ LiveRowIsPublished /\ PubsServed /\ PostsServed /\ FetchIsTrue /\ AnswerIsTrue
      /\ DownIsEmpty /\ PubsHaveRows
  BY DEF LiveInv, SyncInv
<1>2. FirstLaunch' /\ SyncIsQuiet' /\ QueuedHasNoRow' /\ StaleComesFirst'
  BY <1>1, FirstLaunchStep, SyncIsQuietStep, QueuedHasNoRowStep, StaleComesFirstStep
<1>3. PubsServed' /\ PostsServed'
  BY <1>1, PubsServedStep, PostsServedStep
<1>4. FetchIsTrue' /\ AnswerIsTrue' /\ LiveRowIsPublished'
  BY <1>1, FetchIsTrueStep, AnswerIsTrueStep, LiveRowStep
<1> QED
  BY <1>2, <1>3, <1>4 DEF LiveInv

\* It holds to begin with.
LEMMA InitLiveInv == Init => LiveInv
<1> SUFFICES ASSUME Init PROVE LiveInv
  OBVIOUS
<1>1. posts = <<>> /\ queue = <<>> /\ phase = "down" /\ disk.pending = <<>> /\ fetch.at = "none"
  BY DEF Init, NoFetch
<1>2. rows = [h \in Hosts |-> "none"] /\ pubs = NoPubs
  BY DEF Init
<1>3. \A h \in Hosts : pubs[h]["ingress"] = 0 /\ pubs[h]["live"] = 0
  BY <1>2 DEF NoPubs, Stage
<1>4. FirstLaunch /\ SyncIsQuiet /\ QueuedHasNoRow /\ StaleComesFirst
  BY <1>1 DEF FirstLaunch, SyncIsQuiet, QueuedHasNoRow, StaleComesFirst
<1>5. LiveRowIsPublished /\ PubsServed
  BY <1>2, <1>3 DEF LiveRowIsPublished, PubsServed
<1>6. PostsServed /\ FetchIsTrue /\ AnswerIsTrue
  BY <1>1 DEF PostsServed, FetchIsTrue, AnswerIsTrue
<1> QED
  BY <1>4, <1>5, <1>6 DEF LiveInv

\* For an unhurried user of an application that is not ended, a row that says
\* live is served, whatever fails, however late the answers come and however
\* many of them wait in the channel or were dropped from it.
THEOREM LiveMeansServed ==
  ASSUME Rush = {}, {"crash", "quit"} \cap Env = {}
  PROVE  Spec => []LiveRowIsPublished
<1>1. Steady /\ Rush \subseteq {"readd"}
  BY DEF Steady
<1>2. TypeOK /\ HeadIsJob /\ SyncInv /\ LiveInv /\ [Next]_vars => SyncInv' /\ LiveInv'
  BY <1>1, SyncInvStep, LiveInvStep
<1>3. LiveInv => LiveRowIsPublished
  BY DEF LiveInv
<1> QED
  BY <1>2, <1>3, InitSyncInv, InitLiveInv, PanelTypeCorrect, PoppedJobIsDone, PTL DEF Spec
=============================================================================
