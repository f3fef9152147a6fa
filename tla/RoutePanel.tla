----------------------------- MODULE RoutePanel -----------------------------
(***************************************************************************)
(* The panel's route list and everything that works on it at once.         *)
(*                                                                         *)
(*   - the Gio loop: a frame drains the posted closures, then handles the  *)
(*     user's input.  Frames only come while the panel is visible;         *)
(*   - the deletion worker, one goroutine that empties the deletion queue; *)
(*   - one goroutine per publication, per reconciliation fetch, per token  *)
(*     verification, per tunnel setup, each of which answers with a post;  *)
(*   - config.json, which survives a crash, and Cloudflare's own state.    *)
(*                                                                         *)
(* A row's hostname stands for the row: buildRoute keeps hostnames unique. *)
(* One zone is modelled.  What Publish and Unpublish do in detail is       *)
(* RoutePublish's; here each is its DNS call followed by its ingress call. *)
(*                                                                         *)
(* Env and Rush choose how unkind the world is and how hasty the user, so  *)
(* that a run can show what a property depends on.                         *)
(***************************************************************************)
EXTENDS Integers, Sequences

CONSTANTS
  Hosts,        \* hostnames of the zone
  NoJob,        \* the deletion worker is not working on a job
  PostCap,      \* capacity of the post channel (32 in the code)
  MaxQueue,     \* bound on deletions queued at once
  MaxPubs,      \* bound on publications of one hostname in flight
  StartPaused,  \* what a launch may find: are routes paused?
  Env,          \* what may go wrong around the panel
  Rush          \* what a hasty user does

ASSUME PanelAssumption ==
  /\ PostCap \in Nat /\ MaxQueue \in Nat /\ MaxPubs \in Nat
  /\ NoJob \notin [host : Hosts, tun : BOOLEAN]
  /\ StartPaused \subseteq BOOLEAN
  \* Cloudflare refuses a call; the token cannot be verified, or none is saved
  \* yet; config.json cannot be written; the user quits, or hides the panel; the
  \* process dies.
  /\ Env \subseteq {"refuse", "offline", "tokenless", "locked", "quit", "hide", "crash"}
  \* Adding a hostname whose deletion is queued; deleting one that is being
  \* published; changing the list while it is read back from Cloudflare, or
  \* having it read back while deletions are queued; having it read back again
  \* meanwhile; deleting before the tunnel is known.
  /\ Rush \subseteq {"readd", "publish", "sync", "again", "early"}

VARIABLES
  phase,     \* "up", "quitting" after Shutdown closed deleteStop, or "down"
  loop,      \* what the Gio loop is at
  visible,   \* frames are drawn
  posts,     \* the post channel
  rows,      \* status of each hostname's row, or "none"
  disabled,  \* routes are paused
  client,    \* cf # nil
  verifying, \* the flag of that name
  checking,  \* startVerify's goroutine is under way
  setup,     \* the goroutine of the current tunnel generation is under way
  tunnel,    \* tunnelID # ""
  fetch,     \* reconcileRoutes' goroutine
  pubs,      \* publications in flight, by hostname and stage
  queue,     \* deleteQueue
  wake,      \* the deleteWake channel holds a token
  worker,    \* what the deletion worker is at
  job,       \* the job it took
  problems,  \* why the job is not, or not wholly, carried out
  disk,      \* config.json: its routes and its pending deletions
  dns,       \* hostnames with a CNAME to the tunnel
  ingress,   \* hostnames the tunnel's ingress maps
  leftover   \* history: hostnames whose deletion was popped with a problem

panel == <<loop, visible, rows, disabled, client, tunnel>>
tasks == <<verifying, checking, setup, fetch, pubs>>
deletion == <<queue, wake, worker, job, problems>>
cloud == <<dns, ingress>>
vars == <<phase, panel, posts, tasks, deletion, disk, cloud, leftover>>

Job == [host : Hosts, tun : BOOLEAN]

Status == {"idle", "starting", "live", "failed"}

Stage == {"dns", "ingress", "live", "failed"}

NoPubs == [h \in Hosts |-> [s \in Stage |-> 0]]

Publications(h) ==
  pubs[h]["dns"] + pubs[h]["ingress"] + pubs[h]["live"] + pubs[h]["failed"]

NoFetch == [at |-> "none", stored |-> {}, mapped |-> {}, named |-> {}]

Note == [kind |-> "note"]

HasRow == {h \in Hosts : rows[h] # "none"}

Queued == {queue[i].host : i \in DOMAIN queue}

Post ==
  [kind : {"note", "toggle", "verified", "unverified", "tunnelReady"}]
    \cup [kind : {"saved"}, left : BOOLEAN]
    \cup [kind : {"live", "failed"}, host : Hosts]
    \cup [kind : {"reconciled"}, kept : [Hosts -> Status \cup {"none"}]]

-----------------------------------------------------------------------------
(* Small steps the handlers share.                                         *)

\* Mutant of Dispatch: a channel without a bound.
DispatchUnbounded(p) == posts' = Append(posts, p)

\* Mutant of Dispatch: a send that waits for room.
DispatchBlocking(p) ==
  /\ Len(posts) < PostCap
  /\ posts' = Append(posts, p)

\* dispatch: when the channel is full the closure is dropped.
Dispatch(p) ==
  posts' = IF Len(posts) < PostCap THEN Append(posts, p) ELSE posts

\* Mutant of Save: the deletion queue is not written.
SaveRoutes(rs) ==
  disk' = [routes |-> {h \in Hosts : rs[h] # "none"}, pending |-> <<>>]

\* saveConfig of the given list.  When the file cannot be written the status
\* bar says so, and the caller goes on.
Save(rs) ==
  \/ disk' = [routes |-> {h \in Hosts : rs[h] # "none"}, pending |-> queue]
  \/ "locked" \in Env /\ UNCHANGED disk

\* A new tunnel generation: the answer of an older one will be ignored.
Superseded(ps) ==
  [i \in DOMAIN ps |-> IF ps[i].kind = "tunnelReady" THEN Note ELSE ps[i]]

\* ensureTunnel, once the client is known.  ps are the posts it leaves.
EnsureTunnel(ps, paused) ==
  IF paused
  THEN posts' = ps /\ UNCHANGED setup
  ELSE posts' = Superseded(ps) /\ setup' = TRUE

\* provisionRouteWithOrigin: the goroutines started for the given hostnames.
Publish(hs) ==
  /\ \A h \in hs : Publications(h) < MaxPubs
  /\ pubs' = [h \in Hosts |->
                IF h \in hs THEN [pubs[h] EXCEPT !["dns"] = @ + 1] ELSE pubs[h]]

Move(h, s, t) ==
  pubs' = [pubs EXCEPT ![h][s] = @ - 1, ![h][t] = @ + 1]

CallFails == "refuse" \in Env

\* Hostnames that are routes again are no leftovers any more.
Listed(hs) == leftover' = leftover \ hs

-----------------------------------------------------------------------------
(* Starting and stopping.                                                  *)

\* A session that ended well left what it published and what it wrote.
Init ==
  /\ phase = "down"
  /\ loop = "drain" /\ visible = FALSE /\ posts = <<>>
  /\ rows = [h \in Hosts |-> "none"] /\ disabled = TRUE
  /\ client = FALSE /\ tunnel = FALSE
  /\ verifying = FALSE /\ checking = FALSE /\ setup = FALSE
  /\ fetch = NoFetch /\ pubs = NoPubs
  /\ queue = <<>> /\ wake = FALSE
  /\ worker = "exited" /\ job = NoJob /\ problems = {}
  /\ \E hs \in SUBSET Hosts :
       /\ disk = [routes |-> hs, pending |-> <<>>]
       /\ dns = hs
       /\ ingress = hs
  /\ leftover = {}

\* Mutant of Launch: restored deletions do not wake the worker.
LaunchQuietly ==
  /\ phase = "down"
  /\ phase' = "up"
  /\ rows' = [h \in Hosts |-> IF h \in disk.routes THEN "idle" ELSE "none"]
  /\ disabled' \in StartPaused
  /\ queue' = disk.pending
  /\ wake' = FALSE
  /\ worker' = "wait" /\ job' = NoJob
  /\ verifying' \in IF "tokenless" \in Env THEN BOOLEAN ELSE {TRUE}
  /\ checking' = verifying'
  /\ UNCHANGED <<loop, visible, posts, client, tunnel, setup, fetch, pubs,
                 problems, disk, cloud, leftover>>

\* NewPanel: restore, startVerify with the saved token if there is one, then
\* the worker.
Launch ==
  /\ phase = "down"
  /\ phase' = "up"
  /\ rows' = [h \in Hosts |-> IF h \in disk.routes THEN "idle" ELSE "none"]
  /\ disabled' \in StartPaused
  /\ queue' = disk.pending
  /\ wake' = (disk.pending # <<>>)
  /\ worker' = "wait" /\ job' = NoJob
  /\ verifying' \in IF "tokenless" \in Env THEN BOOLEAN ELSE {TRUE}
  /\ checking' = verifying'
  /\ UNCHANGED <<loop, visible, posts, client, tunnel, setup, fetch, pubs,
                 problems, disk, cloud, leftover>>

Quit ==
  /\ phase = "up" /\ "quit" \in Env
  /\ phase' = "quitting"
  /\ UNCHANGED <<panel, posts, tasks, deletion, disk, cloud, leftover>>

\* The process is gone, and all it kept in memory with it.
Gone ==
  /\ phase' = "down"
  /\ loop' = "drain" /\ visible' = FALSE /\ posts' = <<>>
  /\ rows' = [h \in Hosts |-> "none"] /\ disabled' = TRUE
  /\ client' = FALSE /\ tunnel' = FALSE
  /\ verifying' = FALSE /\ checking' = FALSE /\ setup' = FALSE
  /\ fetch' = NoFetch /\ pubs' = NoPubs
  /\ queue' = <<>> /\ wake' = FALSE
  /\ worker' = "exited" /\ job' = NoJob /\ problems' = {}
  /\ UNCHANGED <<disk, cloud, leftover>>

\* Shutdown waited for the worker; then os.Exit.
Exit == phase = "quitting" /\ worker = "exited" /\ Gone

Crash == phase # "down" /\ "crash" \in Env /\ Gone

\* showPanel posts resetToHome, which only changes what is looked at.
Show ==
  /\ phase # "down" /\ ~visible
  /\ visible' = TRUE
  /\ Dispatch(Note)
  /\ UNCHANGED <<phase, loop, rows, disabled, client, tunnel, tasks, deletion,
                 disk, cloud, leftover>>

Hide ==
  /\ visible /\ "hide" \in Env
  /\ visible' = FALSE
  /\ UNCHANGED <<phase, loop, rows, disabled, client, tunnel, posts, tasks,
                 deletion, disk, cloud, leftover>>

-----------------------------------------------------------------------------
(* The goroutines that answer with a post.                                 *)

\* startVerify's goroutine.
Verified ==
  /\ checking
  /\ checking' = FALSE
  /\ \/ Dispatch([kind |-> "verified"])
     \/ "offline" \in Env /\ Dispatch([kind |-> "unverified"])
  /\ UNCHANGED <<phase, panel, verifying, setup, fetch, pubs, deletion, disk,
                 cloud, leftover>>

\* Closures that only change what is displayed take up room in the channel:
\* supervisors report their state and port probes their result, at any moment.
StatusChanges ==
  /\ phase # "down"
  /\ Dispatch(Note)
  /\ UNCHANGED <<phase, panel, tasks, deletion, disk, cloud, leftover>>

\* ensureTunnel's goroutine: the tunnel exists and cloudflared was started.  A
\* setup that fails because it took too long fails in silence.
SetUp ==
  /\ setup
  /\ setup' = FALSE
  /\ \/ Dispatch([kind |-> "tunnelReady"])
     \/ CallFails /\ (Dispatch(Note) \/ UNCHANGED posts)
  /\ UNCHANGED <<phase, panel, verifying, checking, fetch, pubs, deletion, disk,
                 cloud, leftover>>

\* FetchStates reads the ingress document ...
FetchIngress ==
  /\ fetch.at = "ingress"
  /\ \/ fetch' = [fetch EXCEPT !.at = "dns", !.mapped = ingress] /\ UNCHANGED posts
     \/ CallFails /\ fetch' = NoFetch /\ Dispatch(Note)
  /\ UNCHANGED <<phase, panel, verifying, checking, setup, pubs, deletion, disk,
                 cloud, leftover>>

\* ... and then the record of every stored route.  A lookup that fails leaves
\* the record unknown, which is not present.
FetchDns ==
  /\ fetch.at = "dns"
  /\ \E hs \in SUBSET (fetch.stored \cap dns) :
       /\ CallFails \/ hs = fetch.stored \cap dns
       /\ fetch' = [fetch EXCEPT !.at = "post", !.named = hs]
  /\ UNCHANGED <<phase, panel, posts, verifying, checking, setup, pubs, deletion,
                 disk, cloud, leftover>>

\* Mutant of Kept: a record alone makes a route live.
KeptByRecord ==
  [h \in Hosts |->
     IF h \in fetch.stored \cap fetch.named THEN "live"
     ELSE IF h \in fetch.stored \cup fetch.mapped THEN "starting"
     ELSE "none"]

\* ReconcileList: stored routes stay, those in order are live; a hostname only
\* the tunnel knows is adopted, and its record is never looked up.
Kept ==
  [h \in Hosts |->
     IF h \in fetch.stored \cap fetch.named \cap fetch.mapped THEN "live"
     ELSE IF h \in fetch.stored \cup fetch.mapped THEN "starting"
     ELSE "none"]

FetchDone ==
  /\ fetch.at = "post"
  /\ fetch' = NoFetch
  /\ Dispatch([kind |-> "reconciled", kept |-> Kept])
  /\ UNCHANGED <<phase, panel, verifying, checking, setup, pubs, deletion, disk,
                 cloud, leftover>>

\* provisionRouteWithOrigin's goroutine: core.PublishWithOrigin, call by call.
\* A call that fails may have been carried out, its answer lost.
PublishDns(h) ==
  /\ pubs[h]["dns"] > 0
  /\ \/ dns' = dns \cup {h} /\ Move(h, "dns", "ingress")
     \/ CallFails /\ Move(h, "dns", "failed") /\ dns' \in {dns, dns \cup {h}}
  /\ UNCHANGED <<phase, panel, posts, verifying, checking, setup, fetch, deletion,
                 disk, ingress, leftover>>

PublishIngress(h) ==
  /\ pubs[h]["ingress"] > 0
  /\ \/ ingress' = ingress \cup {h} /\ Move(h, "ingress", "live")
     \/ /\ CallFails /\ Move(h, "ingress", "failed")
        /\ ingress' \in {ingress, ingress \cup {h}}
  /\ UNCHANGED <<phase, panel, posts, verifying, checking, setup, fetch, deletion,
                 disk, dns, leftover>>

Published(h, outcome) ==
  /\ pubs[h][outcome] > 0
  /\ pubs' = [pubs EXCEPT ![h][outcome] = @ - 1]
  /\ Dispatch([kind |-> outcome, host |-> h])
  /\ UNCHANGED <<phase, panel, verifying, checking, setup, fetch, deletion, disk,
                 cloud, leftover>>

-----------------------------------------------------------------------------
(* The Gio loop, first half of a frame: drainPosts.                        *)

\* The closure at the head of the channel runs.
Drain(kind) ==
  /\ visible /\ loop = "drain"
  /\ posts # <<>>
  /\ Head(posts).kind = kind

RunVerified ==
  /\ Drain("verified")
  /\ verifying' = FALSE /\ client' = TRUE
  /\ Save(rows)
  /\ EnsureTunnel(Tail(posts), disabled)
  /\ UNCHANGED <<phase, loop, visible, rows, disabled, tunnel, checking, fetch,
                 pubs, deletion, cloud, leftover>>

RunUnverified ==
  /\ Drain("unverified")
  /\ verifying' = FALSE
  /\ posts' = Tail(posts)
  /\ UNCHANGED <<phase, panel, checking, setup, fetch, pubs, deletion, disk, cloud,
                 leftover>>

\* setDisabled(!disabled).
RunToggle ==
  /\ Drain("toggle")
  /\ disabled' = ~disabled
  /\ Save(rows)
  /\ IF client
     THEN EnsureTunnel(Tail(posts), disabled')
     ELSE posts' = Tail(posts) /\ UNCHANGED setup
  /\ UNCHANGED <<phase, loop, visible, rows, client, tunnel, verifying, checking,
                 fetch, pubs, deletion, cloud, leftover>>

\* The tunnel is up: reconcileRoutes starts its fetch.  One fetch at a time is
\* a bound of the model.
RunTunnelReady ==
  /\ Drain("tunnelReady")
  /\ posts' = Tail(posts)
  /\ IF disabled
     THEN UNCHANGED <<tunnel, fetch>>
     ELSE /\ fetch.at = "none"
          /\ tunnel' = TRUE
          /\ fetch' = [NoFetch EXCEPT !.at = "ingress", !.stored = HasRow]
  /\ UNCHANGED <<phase, loop, visible, rows, disabled, client, verifying, checking,
                 setup, pubs, deletion, disk, cloud, leftover>>

\* Mutant of RunReconciled: the new list is only shown.
RunReconciledUnsaved ==
  LET kept == Head(posts).kept IN
  /\ Drain("reconciled")
  /\ posts' = Tail(posts)
  /\ rows' = kept
  /\ UNCHANGED disk
  /\ Listed({h \in Hosts : kept[h] # "none"})
  /\ Publish({h \in Hosts : kept[h] = "starting"})
  /\ UNCHANGED <<phase, loop, visible, disabled, client, tunnel, verifying,
                 checking, setup, fetch, deletion, cloud>>

\* applyReconcile: the list becomes what was kept, is saved, and what is only
\* half there is published again.
RunReconciled ==
  LET kept == Head(posts).kept IN
  /\ Drain("reconciled")
  /\ posts' = Tail(posts)
  /\ rows' = kept
  /\ Save(kept)
  /\ Listed({h \in Hosts : kept[h] # "none"})
  /\ Publish({h \in Hosts : kept[h] = "starting"})
  /\ UNCHANGED <<phase, loop, visible, disabled, client, tunnel, verifying,
                 checking, setup, fetch, deletion, cloud>>

\* setRouteStatus, if the row is still there.
RunPublished(outcome) ==
  LET h == Head(posts).host IN
  /\ Drain(outcome)
  /\ posts' = Tail(posts)
  /\ rows' = [rows EXCEPT ![h] = IF @ = "none" THEN @ ELSE outcome]
  /\ UNCHANGED <<phase, loop, visible, disabled, client, tunnel, tasks, deletion,
                 disk, cloud, leftover>>

\* The worker's last closure of a job saves the shorter queue, and names what
\* was left over.
RunSaved ==
  /\ Drain("saved")
  /\ posts' = Tail(posts)
  /\ Save(rows)
  /\ UNCHANGED <<phase, panel, tasks, deletion, cloud, leftover>>

\* A closure that only writes to the status bar.
RunNote ==
  /\ Drain("note")
  /\ posts' = Tail(posts)
  /\ UNCHANGED <<phase, panel, tasks, deletion, disk, cloud, leftover>>

RunPost ==
  \/ RunVerified \/ RunUnverified \/ RunToggle \/ RunTunnelReady
  \/ RunReconciled \/ RunPublished("live") \/ RunPublished("failed")
  \/ RunSaved \/ RunNote

\* Nothing is left to drain, and nothing was clicked yet.
Drained ==
  /\ visible /\ loop = "drain" /\ posts = <<>>
  /\ loop' = "input"
  /\ UNCHANGED <<phase, visible, rows, disabled, client, tunnel, posts, tasks,
                 deletion, disk, cloud, leftover>>

-----------------------------------------------------------------------------
(* Second half of a frame: handleInput.                                    *)

\* The list is being read back from Cloudflare, or is about to be.
Syncing ==
  \/ setup \/ checking \/ fetch.at # "none"
  \/ \E i \in DOMAIN posts :
       posts[i].kind \in {"verified", "toggle", "tunnelReady", "reconciled"}

NoInput ==
  /\ loop = "input"
  /\ loop' = "drain"
  /\ UNCHANGED <<phase, visible, rows, disabled, client, tunnel, posts, tasks,
                 deletion, disk, cloud, leftover>>

\* When the user adds a row, and buildRoute accepts it.
MayAdd(h) ==
  /\ loop = "input"
  /\ client
  /\ rows[h] = "none"
  /\ "readd" \in Rush \/ h \notin Queued
  /\ "sync" \in Rush \/ ~Syncing

\* Create on the add-route form.
AddRoute(h) ==
  /\ MayAdd(h)
  /\ loop' = "drain"
  /\ rows' = [rows EXCEPT ![h] = "starting"]
  /\ Save(rows')
  /\ IF tunnel THEN Publish({h}) ELSE UNCHANGED pubs
  /\ Listed({h})
  /\ UNCHANGED <<phase, visible, disabled, client, tunnel, posts, verifying,
                 checking, setup, fetch, deletion, cloud>>

\* When the user confirms a deletion, and deleteRoute finds the row.
MayDelete(h) ==
  /\ loop = "input"
  /\ rows[h] # "none"
  /\ Len(queue) < MaxQueue
  /\ "publish" \in Rush \/ Publications(h) = 0
  /\ "sync" \in Rush \/ ~Syncing
  /\ "early" \in Rush \/ tunnel

\* Mutant of DeleteRoute: the newest deletion goes first.
DeleteRouteFirst(h) ==
  /\ MayDelete(h)
  /\ loop' = "save"
  /\ rows' = [rows EXCEPT ![h] = "none"]
  /\ queue' = <<[host |-> h, tun |-> tunnel]>> \o queue
  /\ UNCHANGED <<phase, visible, disabled, client, tunnel, posts, tasks, wake,
                 worker, job, problems, disk, cloud, leftover>>

\* deleteRoute, up to the Unlock ...
DeleteRoute(h) ==
  /\ MayDelete(h)
  /\ loop' = "save"
  /\ rows' = [rows EXCEPT ![h] = "none"]
  /\ queue' = Append(queue, [host |-> h, tun |-> tunnel])
  /\ UNCHANGED <<phase, visible, disabled, client, tunnel, posts, tasks, wake,
                 worker, job, problems, disk, cloud, leftover>>

\* Mutant of SaveDeletion: left to the worker, which saves when it is done.
LeaveDeletionUnsaved ==
  /\ loop = "save"
  /\ loop' = "signal"
  /\ UNCHANGED <<phase, visible, rows, disabled, client, tunnel, posts, tasks,
                 deletion, disk, cloud, leftover>>

\* ... its saveConfig ...
SaveDeletion ==
  /\ loop = "save"
  /\ loop' = "signal"
  /\ Save(rows)
  /\ UNCHANGED <<phase, visible, rows, disabled, client, tunnel, posts, tasks,
                 deletion, cloud, leftover>>

\* ... and signalDeleteWorker, whose token a full channel already holds.
SignalWorker ==
  /\ loop = "signal"
  /\ loop' = "drain"
  /\ wake' = TRUE
  /\ UNCHANGED <<phase, visible, rows, disabled, client, tunnel, posts, tasks,
                 queue, worker, job, problems, disk, cloud, leftover>>

\* Save on the settings form: startVerify unless it is under way.
Reverify ==
  /\ loop = "input"
  /\ ~verifying
  /\ "sync" \in Rush \/ queue = <<>>
  /\ "again" \in Rush \/ ~Syncing
  /\ loop' = "drain"
  /\ verifying' = TRUE /\ checking' = TRUE
  /\ UNCHANGED <<phase, visible, rows, disabled, client, tunnel, posts, setup,
                 fetch, pubs, deletion, disk, cloud, leftover>>

\* The pause switch, the tray menu and the IPC server all post, at any moment.
Toggle ==
  /\ phase # "down"
  /\ "sync" \in Rush \/ queue = <<>>
  /\ "again" \in Rush \/ ~Syncing
  /\ Dispatch([kind |-> "toggle"])
  /\ UNCHANGED <<phase, panel, tasks, deletion, disk, cloud, leftover>>

-----------------------------------------------------------------------------
(* runDeleteWorker.                                                        *)

WorkerWakes ==
  /\ worker = "wait" /\ wake
  /\ wake' = FALSE
  /\ worker' = "check"
  /\ UNCHANGED <<phase, panel, posts, tasks, queue, job, problems, disk, cloud,
                 leftover>>

\* deleteStop is closed: at either select, or while waiting for the client.
WorkerStops ==
  /\ phase = "quitting"
  /\ \/ worker \in {"wait", "check"}
     \/ worker = "verify" /\ verifying
  /\ worker' = "exited"
  /\ job' = NoJob
  /\ UNCHANGED <<phase, panel, posts, tasks, queue, wake, problems, disk, cloud,
                 leftover>>

TakeJob ==
  /\ phase = "up"
  /\ worker = "check"
  /\ IF queue = <<>>
     THEN worker' = "wait" /\ UNCHANGED <<job, posts>>
     ELSE worker' = "client" /\ job' = Head(queue) /\ Dispatch(Note)
  /\ UNCHANGED <<phase, panel, tasks, queue, wake, problems, disk, cloud, leftover>>

\* The worker reads cf.  A job queued before the tunnel was known takes the
\* tunnel known now.
HaveClient ==
  /\ worker = "client" /\ client
  /\ worker' = "dns"
  /\ job' = [job EXCEPT !.tun = @ \/ tunnel]
  /\ UNCHANGED <<phase, panel, posts, tasks, queue, wake, problems, disk, cloud,
                 leftover>>

\* There is none: it reads verifying, sleeps 100 ms if that is set, and reads cf
\* again.
AwaitClient ==
  /\ \/ worker = "client" /\ ~client /\ worker' = "verify"
     \/ worker = "verify" /\ verifying /\ worker' = "client"
  /\ UNCHANGED <<phase, panel, posts, tasks, queue, wake, job, problems, disk,
                 cloud, leftover>>

\* Mutant of NoClient: it waits for as long as the verification takes.
NoClientUnlessIdle ==
  /\ worker = "verify" /\ ~verifying
  /\ worker' = "pop"
  /\ problems' = {"not connected"}
  /\ UNCHANGED <<phase, panel, posts, tasks, queue, wake, job, disk, cloud, leftover>>

\* It gives up: no verification is under way, or not since it read cf, or this
\* was the last of its thirty rounds.  cf is not read once more.
NoClient ==
  /\ worker = "verify"
  /\ worker' = "pop"
  /\ problems' = {"not connected"}
  /\ UNCHANGED <<phase, panel, posts, tasks, queue, wake, job, disk, cloud, leftover>>

\* How a call of Unpublish may fail: Cloudflare refuses, or the closing of
\* deleteStop cancels it.
Trouble ==
  {p \in {"refused", "cancelled"} :
     \/ p = "refused" /\ CallFails
     \/ p = "cancelled" /\ phase = "quitting"}

UnpublishDns ==
  /\ worker = "dns"
  /\ worker' = "ingress"
  /\ \/ dns' = dns \ {job.host} /\ UNCHANGED problems
     \/ /\ \E p \in Trouble : problems' = problems \cup {p}
        /\ dns' \in {dns, dns \ {job.host}}
  /\ UNCHANGED <<phase, panel, posts, tasks, queue, wake, job, disk, ingress,
                 leftover>>

\* Without a tunnel id the ingress is left alone, and that is no problem.
UnpublishIngress ==
  /\ worker = "ingress"
  /\ worker' = "pop"
  /\ \/ ~job.tun /\ UNCHANGED <<ingress, problems>>
     \/ job.tun /\ ingress' = ingress \ {job.host} /\ UNCHANGED problems
     \/ /\ job.tun /\ \E p \in Trouble : problems' = problems \cup {p}
        /\ ingress' \in {ingress, ingress \ {job.host}}
  /\ UNCHANGED <<phase, panel, posts, tasks, queue, wake, job, disk, dns, leftover>>

\* Mutant of PopJob: a job that ran into a problem counts as done.
PopJobQuietly ==
  /\ worker = "pop"
  /\ worker' = "report"
  /\ queue' = IF queue # <<>> /\ Head(queue).host = job.host
              THEN Tail(queue) ELSE queue
  /\ problems' = {}
  /\ UNCHANGED <<phase, panel, posts, tasks, wake, job, disk, cloud, leftover>>

\* The job leaves the queue, whatever came of it.  Its problems will be shown
\* only if no other job is left.
PopJob ==
  /\ worker = "pop"
  /\ worker' = "report"
  /\ queue' = IF queue # <<>> /\ Head(queue).host = job.host
              THEN Tail(queue) ELSE queue
  /\ leftover' = IF problems # {} THEN leftover \cup {job.host} ELSE leftover
  /\ problems' = IF queue' = <<>> THEN problems ELSE {}
  /\ UNCHANGED <<phase, panel, posts, tasks, wake, job, disk, cloud>>

ReportJob ==
  /\ worker = "report"
  /\ worker' = "check"
  /\ job' = NoJob /\ problems' = {}
  /\ Dispatch([kind |-> "saved", left |-> problems # {}])
  /\ UNCHANGED <<phase, panel, tasks, queue, wake, disk, cloud, leftover>>

-----------------------------------------------------------------------------
WorkerStep ==
  \/ WorkerWakes \/ WorkerStops \/ TakeJob \/ HaveClient
  \/ AwaitClient \/ NoClient \/ UnpublishDns \/ UnpublishIngress
  \/ PopJob \/ ReportJob

LoopStep ==
  \/ RunPost \/ Drained \/ NoInput \/ SaveDeletion \/ SignalWorker \/ Reverify
  \/ \E h \in Hosts : AddRoute(h) \/ DeleteRoute(h)

TaskStep ==
  \/ Verified \/ SetUp \/ FetchIngress \/ FetchDns \/ FetchDone
  \/ \E h \in Hosts :
       \/ PublishDns(h) \/ PublishIngress(h)
       \/ Published(h, "live") \/ Published(h, "failed")

Next ==
  \/ Launch \/ Quit \/ Exit \/ Crash \/ Show \/ Hide \/ Toggle
  \/ StatusChanges
  \/ TaskStep \/ LoopStep \/ WorkerStep

\* The goroutines are scheduled, every call they make has a timeout, a handler
\* the loop began runs to its end, and a Shutdown that waited exits.  The wait
\* for a client has thirty rounds.
Fairness ==
  /\ WF_vars(WorkerStep) /\ SF_vars(NoClient)
  /\ WF_vars(SaveDeletion) /\ WF_vars(SignalWorker)
  /\ WF_vars(Exit)

Spec == Init /\ [][Next]_vars /\ Fairness

-----------------------------------------------------------------------------
PlaceTypes ==
  /\ phase \in {"up", "quitting", "down"}
  /\ loop \in {"drain", "input", "save", "signal"}
  /\ worker \in {"wait", "check", "client", "verify", "dns", "ingress", "pop",
                 "report", "exited"}
  /\ problems \subseteq {"not connected", "refused", "cancelled"}

FlagTypes ==
  /\ visible \in BOOLEAN /\ disabled \in BOOLEAN
  /\ client \in BOOLEAN /\ tunnel \in BOOLEAN
  /\ verifying \in BOOLEAN /\ checking \in BOOLEAN /\ setup \in BOOLEAN
  /\ wake \in BOOLEAN

PostsType == posts \in Seq(Post) /\ Len(posts) <= PostCap

RowsType == rows \in [Hosts -> Status \cup {"none"}]

FetchType ==
  fetch \in [at : {"none", "ingress", "dns", "post"}, stored : SUBSET Hosts,
             mapped : SUBSET Hosts, named : SUBSET Hosts]

PubsType == pubs \in [Hosts -> [Stage -> Nat]]

QueueType == queue \in Seq(Job) /\ Len(queue) <= MaxQueue

JobType ==
  IF worker \in {"client", "verify", "dns", "ingress", "pop", "report"}
  THEN job \in Job
  ELSE job = NoJob

DiskType ==
  /\ disk \in [routes : SUBSET Hosts, pending : Seq(Job)]
  /\ Len(disk.pending) <= MaxQueue

CloudTypes ==
  /\ dns \subseteq Hosts /\ ingress \subseteq Hosts
  /\ leftover \subseteq Hosts

TypeOK ==
  /\ PlaceTypes /\ FlagTypes
  /\ PostsType /\ RowsType /\ FetchType /\ PubsType
  /\ QueueType /\ JobType /\ DiskType /\ CloudTypes

\* The worker never sleeps on a queued deletion: a token is in the channel, or
\* the loop is still on its way to put one there (signalDeleteWorker's buffer
\* of one, restore's signal before the worker exists).
NoLostWakeup ==
  worker = "wait" /\ queue # <<>> => wake \/ loop \in {"save", "signal"}

\* The job the worker is carrying out is the head of the queue until it is
\* popped, so what is popped is what was carried out, although the loop
\* appends to the queue meanwhile without telling it.
HeadIsJob ==
  worker \in {"client", "verify", "dns", "ingress", "pop"} =>
    queue # <<>> /\ job # NoJob /\ Head(queue).host = job.host

\* A deletion that is not carried out yet survives a crash: it is on disk, but
\* for the moment between the append and the saveConfig that follows it.
DeletionOnDisk ==
  \A i \in DOMAIN queue :
    \/ \E k \in DOMAIN disk.pending : disk.pending[k] = queue[i]
    \/ loop = "save" /\ i = Len(queue)

\* Between two handlers of the loop, a restart would bring back exactly the
\* rows that are shown.
RowsOnDisk ==
  phase # "down" /\ loop # "save" => disk.routes = HasRow

\* No published hostname is lost track of: it is written down as a route or as a
\* deletion still to be carried out, or the worker took its deletion up and a
\* problem kept it from being carried out - a refused or cancelled call, or no
\* client in time.  Neither a crash nor a reordered save loses one otherwise.
OrphanFree ==
  \A h \in dns \cup ingress :
    \/ h \in disk.routes
    \/ \E i \in DOMAIN disk.pending : disk.pending[i].host = h
    \/ h \in leftover

\* What deleteRoute's comment says of the queue (panel.go:1480), "never lost,
\* skipped": a deletion leaves it after Cloudflare answered.  The worker that has
\* no client in time skips it, and one that a shutdown cancels drops it.
NoDeletionIsSkipped ==
  [][PopJob => problems \cap {"not connected", "cancelled"} = {}]_vars

\* What the comment says of leftovers (panel.go:1477), "reports leftovers in the
\* status bar": the closure that names them is posted.  It is not so when other
\* deletions are queued, nor when the channel is full.
LeftoversAreReported ==
  [][/\ PopJob /\ problems # {} => problems' # {}
     /\ ReportJob /\ problems # {} => posts' # posts]_vars

\* A row shown as live is served: the name has its record, the tunnel its rule.
LiveRowIsPublished ==
  \A h \in Hosts : rows[h] = "live" => h \in dns /\ h \in ingress

\* A queued deletion is taken up and finished, as long as the application runs.
DeletionsGoOn ==
  (phase = "up" /\ queue # <<>>) ~> (worker = "pop" \/ phase # "up")

\* Quitting ends: the worker Shutdown waits for never waits for the loop.
ShutdownCompletes == (phase = "quitting") ~> (phase = "down")
=============================================================================
