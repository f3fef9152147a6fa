# QuickFlare: a TLA+ model of the route manager

QuickFlare publishes local ports under a user's own hostnames, by way of a
Cloudflare tunnel.  It is a tray application (a Gio panel), a command line, a
supervisor for the `cloudflared` child process and a client of the Cloudflare
API.  Nothing the application does is atomic: a route is a DNS record plus a
rule in a routing document plus a row in a list plus a line in `config.json`,
and goroutines, processes, the owner of the zone and the network change these
four independently.  This project models how they are kept together.

Paths below are relative to `src/`.

## 1. The system

| Component | State | Operations | Interacts with |
|---|---|---|---|
| Route list, `internal/ui/panel.go` | `routes`, `deleteQueue`, `post`, `verifying`, `cf`, `tunnelID`, `disabled` | add, delete, pause, verify, reconcile, quit | everything below |
| Deletion worker, `panel.go:1512` | the job it took | take, `core.Unpublish`, pop, report | the list by `deleteMu` and `dispatch` |
| Publish and Unpublish, `internal/core/provision.go`, `internal/cloudflare/dns.go` | none | lookup, create, repoint, delete, add and remove rule | the API |
| Ingress document, `internal/cloudflare/tunnel.go` | `ingressMu` of a client; the document itself is Cloudflare's | `UpdateIngress` | the API |
| API client, `internal/cloudflare/client.go` | none | `do`: retries, rate limits, error classes | the API |
| Reconciliation, `internal/core/reconcile.go`, `internal/ui/reconcile.go` | the states fetched | `FetchStates`, `ReconcileList`, `applyReconcile` | list, API, publications |
| Tunnel setup, `internal/ui/provision.go` | `tunnelGen`, `tunnel`, `closers` | `ensureTunnel`, `Shutdown` | supervisor, reconciliation |
| Supervisor, `internal/supervisor/cloudflared.go` | state, process, restart delay | `Start`, `Stop`, `run`, `pollReady` | the child process, `dispatch` |
| Quick tunnels, `internal/supervisor/quick.go` | entries, processes | start, stop, close all | the child process, the list |
| Window, `panel.go:682-977` | `visible`, `alpha`, `fadeGen` | `Toggle`, `Open`, `Dismiss`, `fadeTo`, `watchFocus` | tray, Win32, frames |
| Configuration, `internal/config/config.go` | `config.json` | `Load`, `Save` | panel, command line |
| IPC, `internal/ipc/ipc.go` | discovery file, server | `StartServer`, `Discover` | panel, command line |
| Command line, `cmd/quickflare-cli` | none | commands that load, change and save | configuration, API, IPC |
| Installer, autostart, services | registry, files | install, uninstall | operating system |
| Views and widgets | layout only | draw | list |

What is hard here, and what makes a component correct:

* **Everything is late.**  Each network call runs on its own goroutine and
  comes back as a closure, into a channel that drops what does not fit and
  that only a visible panel drains.  Correct means: no answer undoes what
  happened since its question, and nothing depends on an answer arriving.
* **Deletions are promises.**  The row disappears at once, the work is queued,
  saved and carried out later, perhaps after a restart.  Correct means: the
  queue loses nothing, the worker never sleeps on it, and what is published is
  always written down somewhere.
* **The routing document is replaced as a whole.**  Correct means: updates are
  atomic, whatever gets lost and is sent again.
* **The zone belongs to somebody else.**  Correct means: a record that is not
  ours is never touched, and success means that the hostname works.

The full list of hazards, each with its line and the properties that watch it,
is in `PROJECT.json` under `hazards`.

## 2. Modules

| Module | Models | Run | Proofs |
|---|---|---|---|
| `IngressRules` | the document and its pure functions (`tunnel.go:28-220`) | through `IngressUpdate` | |
| `IngressUpdate` | `UpdateIngress` under `ingressMu`, with `Client.do`'s retries | `ingress_*` | `IngressUpdateProofs` |
| `MCIngressUpdate` | instances: hostnames, spellings, starting documents | | |
| `RoutePublish` | `PublishWithOrigin` and `Unpublish`, call by call, beside the zone's owner | `publish_shared` | `RoutePublishProofs` |
| `RoutePanel` | the list, the loop, the worker, the goroutines, the disk, a crash | `panel_*` | `RoutePanelProofs` |
| `Settings` | `config.json` between the panel and the commands of the terminal | `settings*` | `SettingsProofs` |
| `Connector` | abstract: what a supervised connector promises | as a property | |
| `Supervisor` | `supervisor.Tunnel`, which implements `Connector` | `supervisor` | `SupervisorProofs` |
| `LogWindow` | abstract: the last lines of a log | as a property | |
| `LogRing` | the ring buffer, which implements `LogWindow` | `supervisor` | `SupervisorProofs` |
| `TunnelSetup` | every `cloudflared` process, from the handler that wants it to the exit | `tunnel_setup` | `TunnelSetupProofs` |
| `Window` | showing, hiding and fading the panel, and the focus watcher | `window` | `WindowProofs` |
| `Ipc` | launches, the mutex, the server, `ipc.json`, orders | `ipc` | `IpcProofs` |

The modules use each other's results rather than each other's steps.
`IngressUpdate` shows that an update of the document is atomic as long as the
workers share a client; `RoutePublish` therefore makes it one step (`Claim`,
`Disclaim`).  `RoutePublish` shows what the results of `Publish` and
`Unpublish` mean; `RoutePanel` therefore has each as one DNS step and one
ingress step.  `Supervisor` shows that a supervised tunnel is a `Connector`;
`TunnelSetup` therefore has a connector's `life` and `process`, and
`ConnectorsKeepPromise` shows that it asks of them what a `Connector` does.
`Ipc` shows that an order reaches the application it was meant for; `Settings`
therefore delivers pause, resume and reload to the panel there is, and `Window`
has the order to open.  What a level assumes and its code does not guarantee is
shown by changing the constants of the level below (section 3).

### IngressRules and IngressUpdate

A rule is a hostname, a path, a service and `extra`, which stands for the
settings the API stores and the Go struct has no field for (`Decode` drops
them, as `json.Unmarshal` does).  `Fold` gives a hostname's case-folded form.
A worker goes `idle`, `locking`, `reading`, `writing` and back.  `Retry` is a
lost attempt of `Client.do`: a lost PUT may have been applied.  `Fail` is a
refusal or the last lost attempt.  `holder` is the mutex of each client.

### RoutePublish

One worker per goroutine or process that publishes.  `pc` names the API call
it is about to make; each call is a step, its lost attempts are `Retry`, its
failure `Fail`.  `Outside` is the owner of the zone in the dashboard.  A record
has an id, since the API updates and deletes by id.  `given` says which of its
other arguments a call has: a client that is connected, a zone id, a tunnel id.
`Publish` refuses without any of them; `Unpublish` refuses without a client,
leaves the record alone without a zone id and the rule without a tunnel id, and
reports nothing of the latter two (`internal/core/provision.go:105`, `:112`, `:133`).
`marked`, `aimed` and `alone` are history variables for the properties and guard
nothing.

### RoutePanel

| In the code | In the model |
|---|---|
| a frame: `drainPosts`, then `handleInput` | `loop` goes `drain` (`Run...`, one per kind of closure), `input` (one click or none), and through a deletion's `save` and `signal` |
| `dispatch` | `Dispatch`, which drops when the channel is full |
| a hidden window gets no paint messages (`panel.go:685`) | `visible`, without which `Drain` and `Drained` do not happen |
| `p.routes`, a hostname per row | `rows`, from hostname to status |
| `deleteRoute` | `DeleteRoute`, `SaveDeletion`, `SignalWorker`, between which the worker may run |
| `runDeleteWorker` | `worker`: `wait`, `check`, `client` and `verify` (it reads `cf`, then `verifying`; it gives up when nobody verifies, or after three seconds, `NoClient`), `dns`, `ingress`, `pop`, `report` |
| `provisionRouteWithOrigin` goroutines | `pubs`, how many publications of a hostname are at each stage |
| `ensureTunnel` and its `tunnelGen` | `setup`; a newer generation turns an older answer into a closure without effect (`Superseded`) |
| `reconcileRoutes`, `FetchStates`, `applyReconcile` | `fetch`, `Kept`, `RunReconciled` |
| `config.json` | `disk`, written by `Save` and read by `Launch` |
| process exit, crash | `Exit`, `Crash`: all but `disk` and Cloudflare is forgotten |

`Env` says what may go wrong around the panel, `Rush` what a hasty user does.
A run whose `Rush` is empty shows what holds for a user who lets a hostname's
work end, and a read back too before the list changes or is read back again;
what the elements of `Rush` break is listed in section 3.
With an empty `Rush` rows of different hostnames are still worked on side by
side, and posts, publications and deletions overlap.
`problems` is what the worker notes of its job, from which it makes the closure
for the status bar: only when no other job is left (`panel.go:1598`), and the
channel may drop it.  `leftover` is a history variable: the hostnames whose
deletion was popped with a problem - Cloudflare refused a call, a shutdown
cancelled it, or there was no client - until they are routes again.  It does not
mean that the user was told.

### Settings

| In the code | In the model |
|---|---|
| `config.json` | `file`: token, routes, the paused and the restore flag, pending deletions |
| the panel's copy | `panel`, changed on the loop, written whole by `SaveConfig` |
| `restore`, `main.go`, the IPC server | `Launch`, then `Serve`, between which a command finds nobody to tell |
| `startVerify` | `verify`; its answer is a closure that saves (`RunVerified`) |
| a command | `cmd`: `discover` or `load`, `save`, `notify` |
| `notifyTrayReload`, `ReloadFromDisk` | `Notify`, `RunReload` |

A command holds the copy it loaded from `Load` to `Save`, and the panel its own
all the time.  Nothing keeps them from interrupting each other, in the code or
in the model.  Three history variables say what that does to a change.  `wish`
is what the changes made so far, one after another, ask for.  `behind` names what
of the file the panel was not told of, or could not read or write: its list, or
its pause.  `lossy` is set by a write from a copy which the file had moved on
from, and by a launch or a save that failed.

### Supervisor, Connector, LogRing and LogWindow

`run` is the place of `run` and `runOnce`: `check` and `pause` look at the
context, `port` prepares the process, `wait` is `cmd.Wait`.  `cmd.Start` is three
steps: it looks at the context (`spawn`), forks (`fork`), and returns (`started`),
whereupon the context is watched and kills; a stop may come between any two of
them, and a process that is born after one is killed at once.
`poller[n]` belongs to process `n`: it looks at its context (`tick`), asks, and
reports the answer it holds without looking again.  `setState` changes `status`
under the mutex; the callback that announces it is a later step (`Callback`),
so two may be delivered in the other order, as in `cloudflared.go:116-120`.
`Connector` is refined by reading `ctx` as `life`, except that a stop that
comes while `cmd.Start` forks is felt when it returns (`Life`); `LogWindow` by
reading `LogRing`'s `Entries` as the window.

### TunnelSetup

| In the code | In the model |
|---|---|
| `tunnelGen`, `p.tunnel`, a generation's context | `gen`, `tunnel`, `cut` |
| the goroutine of `ensureTunnel` | `setup`: `calls`, `start`, `register`, `answer` |
| the goroutine of `startQuick` with `StartQuick` | `opening`; the entry of the list is `entry` |
| `p.closers`, `Shutdown`, `os.Exit` | `closers`, `Quit`, `RunClosers`, `Exit` |
| a supervised tunnel or a quick entry, its process | `life`, `process` |

`Exit` kills what is bound to the job object (`job_windows.go:74`).  `Spawn` is
`cmd.Start` with `superviseProcess` in one step: what a stop between their parts
does is `Supervisor`'s, and a process that is not bound yet when the application
exits is what `"jobless"` in `Env` shows.

### Window

`call[c]` is how far the call of a goroutine is: flags change under `p.mu`, the
window after it.  A fade is a record with the number of steps it has left; only
`newest` tells whether it is still the current one, which is all that `fadeGen`
is compared for.  `watch` holds what the focus watcher read of the panel before
it asks for the foreground.  Times are ordered, not measured: `age` is `new`
within the grace period, `old` after the wait of 2.5 s, `recent` the 400 ms
after an automatic close.  No lock keeps calls, fades and the watcher apart.
`Env` says how closely they may follow each other: a call comes between what the
watcher or a fade reads and what it does about it (`"between"`), or everything
interrupts everything (`"overlap"`).  `held` and `crossed` are history variables:
whether the panel had the foreground in this showing, and whether the last call,
or a fade since, came into the middle of what another one does.  `press` is the
click on the tray that is under way, `earlier` tells whether the page is of an
earlier opening.

### Ipc

A launch of the application stands for its process id and its token as well.
`app` goes `main`, `panel`, `writing`, `serving` (or `deaf`, without a server),
`closing`, `closed`, `gone`; a launch that finds the mutex taken is a `second`,
and a client like a command.  `cl` is the place of each client in `Discover`
(`read`, `check`, `remove`, `status`), in its order (`post`), and in the polls
of start and stop.  `mutex` is who opened the named mutex; a launch that could
not, for another reason than that it exists, goes on without it
(`instance_windows.go:17`).  A client that may not look at a process takes it for
gone (`process_windows.go:13`) and removes its file.  `found`, `stopped` and
`misled` are history variables, the last one the launches that were taken for
gone, or lost their file to a client, while they were there.  `Torn` is the file
between truncation and writing.

## 3. Runs

Passing runs:

| Run | Question |
|---|---|
| `ingress_one_client` | Do goroutines of one client update the document atomically, with failing, lost and repeated requests, two spellings of one hostname and a document edited by hand? |
| `publish_shared` | Do the results of `Publish` and `Unpublish` mean what they say, and are foreign records safe, with two workers, an active owner, and calls without a client, a zone or a tunnel? |
| `panel_list` | With two hostnames queued in any order, and a file that may not be writable, does the worker pop what it carried out, and is what the list shows as live served? |
| `panel_crash` | Is whatever is published written down until a deletion of it met a problem, with refusals, lost answers, tokens that cannot be verified in time, dropped posts, quitting, and a crash at any step? |
| `panel_hasty` | Do the queue and the list stay sound in memory and on disk, with a hasty user, a hidden panel, no token yet, quitting and crashes; is every deletion taken up and finished, and does quitting end, with nobody draining posts? |
| `settings` | When the panel and a command interrupt each other anywhere, with launches, crashes, verifications, dropped closures, and files that cannot be read or written, what alone can lose a change, and when does the panel show what the file says? |
| `supervisor` | Is one process at a time running, none of them begun after Stop, and one that was being started then killed at once; is the log its last lines, and does a stale status heal? |
| `tunnel_setup` | When verifications, reloads, pauses, resumes, a quick link and quitting overlap with the goroutines that start connectors, is no `cloudflared` left that nobody will stop? |
| `window` | With calls between what the watcher or a fade reads and what it does, does the panel end as it was last asked to be, open at home, and close when the user turns away, and not for an earlier showing? |
| `ipc` | Do orders reach the application they were meant for, with stale files, crashes, ports used again, late answers and processes that cannot be looked at, and who alone can make an application unreachable? |

Violating runs, each a finding listed in `PROJECT.json`:

| Run | What it shows |
|---|---|
| `ingress_unknown_fields` | origin settings without a field in the struct do not round-trip |
| `settings_overlap` | of two commands that overlap the later save drops the other's change |

### What other constants show

The runs above keep to what the code gets right.  The same modules show where
it stops being right, by changing the constants of a run, or by a property that
no run names.  Against a statement of the repository:

* `ingress_one_client` with `Clients = {"c1", "c2"}` and `ClientOf <-
  MCTwoClients`: `AtomicUpdates` is violated.  `ingressMu` belongs to a client,
  and every verification and every process has its own.
  (`docs/HOTFIX_ANALYSIS_AND_CORE_ARCHITECTURE.md:80`: "`ingressMu` prevents
  lost updates".)
* `publish_shared` with `Workers = {"w1"}`, `Outsider = {"create"}` and the
  invariant `ClaimsOnlyAimedNames`: a record that was created between lookup
  and create is claimed as success (`dns.go:89`: "a hostname already answering
  for something else is a collision to report").
* `publish_shared` with `Workers = {"w1"}` and the invariant `EmptyMeansGone`:
  without a tunnel id `Unpublish` leaves the rule and reports nothing
  (`internal/core/provision.go:102`: "an empty slice means everything went").
  It is what happens to a row that is deleted before the tunnel is known:
  `panel_crash` with `Rush = {"early"}` and `Env = {}` violates `OrphanFree`.
* `panel_crash` with the property `NoDeletionIsSkipped` and `Env = {"crash"}`,
  `{"crash", "offline"}` or `{"quit"}`: the worker pops a restored deletion
  without a call when the token is not verified within three seconds, when it
  cannot be, and when a verification ends between its looks at `cf` and
  `verifying` (`panel.go:1548`, `:1581`); and it pops one that quitting cancelled
  (`panel.go:1480`: "multiple rapid deletes are never lost, skipped").
* `panel_crash` and `panel_list` with `Env = {"refuse"}` and the property
  `LeftoversAreReported`: what Cloudflare refused to delete is not shown when
  another deletion is queued behind it, or when the channel is full
  (`panel.go:1477`: "reports leftovers in the status bar").
* `panel_crash` with `Rush = {"publish"}` and `Env = {}`: deleting a row that is
  being published leaves an orphan that nothing names; `OrphanFree` is violated
  (`panel.go:1477`: "teardown is best-effort and reports leftovers").
* `panel_crash` with `Rush = {"sync"}` and `Env = {}`: a row that was added
  during a reconciliation is lost, its publication is not; `OrphanFree` is
  violated (`internal/core/reconcile.go:21`: "stops orphans accumulating").
* `panel_crash` with `Rush = {"again"}` and `Env = {"crash"}`: a verification or
  a resume starts a second read back while the answer of the first is on its way.
  The first answer adopts a hostname and publishes it; the second was read before
  that and drops the row, since `applyReconcile` asks neither which generation an
  answer is of nor whether the list is still the one it was made for
  (`internal/ui/reconcile.go:48`); `OrphanFree` is violated, against the same
  statement.
* `panel_list` with `Env = {}` and `Rush = {"readd"}`: a row added while its
  deletion is queued is shown live and torn down; `LiveRowIsPublished` is violated
  (`panel.go:1429`: two rows of one hostname "fight over one DNS record").
* `tunnel_setup` with `Env = {"full"}`: the closure that would stop or install a
  connector is dropped by a full channel, and nobody stops the process before
  the exit; `NoStrayConnector` is violated (`CHANGELOG.md:10`).
* `tunnel_setup` with `Env = {"jobless"}` and the invariant `QuitLeavesNothing`:
  without a job object a connector that starts while the closers run outlives
  the application (`panel.go:1745`, `docs/ARCHITECTURE.md:61-63`).
* `window` with the property `ReopenedStaysUp`: a fade-out that checked its
  number runs `Hide` after the panel was opened again (`panel.go:793`: "which is
  what stops a superseded fade-out from hiding a window that has since been
  re-opened").
* `window` with the property `ClosesOnlyAfterGrace`: the watcher copied `hadFocus`
  and `shownAt` of a showing that ended, and closes the one that began while it
  asked for the foreground (`panel.go:925`: "close only if the panel has already
  held foreground, or if the maximum acquisition window has passed").
* `window` with `Env = {"full"}`: the closure that goes home is dropped, and
  the panel opens at the form or the question it was left at; `OpensAtHome` is
  violated (`panel.go:836`: "a popover is not a document").
* `settings` with `Env = {"tray"}`, the invariant `CommandsSynchronize` and
  `Ops = {"reconcile"}`, `{"purge"}` or `{"login"}`: `reconcile` and `uninstall`
  save another list and tell nobody (`commands.go:473`,
  `uninstall_windows.go:111`), and whoever saves while the tray starts finds nobody
  to tell (`docs/USAGE.md:149`: commands "automatically synchronize in real time
  with the running tray UI").
* `settings` with `Env = {"tray"}`, `Ops = {"pause"}` and the property
  `OrdersAreKept`: a pause that was answered "Routes paused." (`commands.go:119`) is
  dropped by a full channel (`panel.go:676`), or forgotten by a panel that ends
  before it draws again.
* `ipc` with the property `StaleIsStale`: a command removes, as left by an
  ungraceful exit, the file of a server that wrote it since the command looked,
  or whose process Windows did not let it look at (`ipc.go:317`: "Stale file from
  an ungraceful exit").  `Env = {"crash"}` and `Env = {"denied"}` suffice.
* `ipc` with the property `SecondHasFirst`, even with `Env = {}`: a second launch
  gives way to an application that is quitting, and none is left
  (`instance_windows.go:23`: "An instance is already running.  Signal it to open
  its panel").

Without such a statement, as limits of the design:

* `panel_crash` with `Rush = {}`, `Env = {"locked"}` and the invariants
  `OrphanFree`, `DeletionOnDisk` and `RowsOnDisk`: when `config.json` cannot be
  written the list in memory goes on without it; each of them is violated.
* `panel_list` with `Env = {}` and `Rush = {"publish"}`: the row of a hostname that
  was deleted while it was being published, and added again, takes the answer of
  the old publication and shows live; with `Rush = {"sync"}`, a row that was
  deleted while the list was read back is adopted and shown live while the worker
  tears it down.  `LiveRowIsPublished` is violated.
* `panel_list` with `Env = {"crash"}` or `{"quit"}`: after a restart the reconciliation
  adopts a hostname whose deletion is still queued and shows it live
  (`internal/ui/reconcile.go:57`); `LiveRowIsPublished` is violated.
* `publish_shared` with `dns[h].ours` in the place of `dns[h].marked` in
  `ForeignRecordsUntouched`: a record whose comment is edited away between the
  ownership check and the call is overwritten or deleted all the same
  (`dns.go:110`, `internal/core/provision.go:126`).
* `settings` with the invariant `NothingIsLost` and `Env = {"tray"}`: the panel
  and a command overlap, and the later save wins, as with two commands in
  `settings_overlap`.
* `settings` with the invariant `NothingIsLost`, `Ops = {}` and `Env = {"tray",
  "unreadable"}`, `{"tray", "locked"}` or `{"tray", "foreign"}`: a launch that
  could not read the file overwrites it with its next save (`panel.go:531`);
  after a failed save the panel goes on with what the file does not say; the
  token in the file was protected for another Windows account, and `Load`
  returns a configuration without the token and the pending deletions
  (`internal/config/config.go:131`).
* `ipc` with `"nomutex"` in `Env`: a launch for which `CreateMutex` fails otherwise
  than with `ERROR_ALREADY_EXISTS` becomes a second instance
  (`instance_windows.go:34`); `NamedUnlessRemoved` and `StoppedIsStopped` are
  violated.
* `window` with `Env = {"overlap"}`: calls that interleave their window operations
  leave a panel up that takes itself for closed, which the watcher then ignores;
  `LostFocusCloses` is violated.

### Properties

* `AtomicUpdates`, `OthersUntouched`: concurrent updates of the document neither
  lose nor disturb each other.  `CallsReturn`: the lock is released on every
  path.  `CatchAllLast`, `OneRulePerHost`: the document stays one the API
  accepts and `cloudflared` reads as intended.
* `PublishedIsReachable`, `RemovedIsGone`: a result is true as long as nobody
  else touches the name, and for what the call was given the id of.
  `ForeignRecordsUntouched`: a record that never carried QuickFlare's comment is
  never changed.  It is weaker than what `docs/ARCHITECTURE.md:91` says of the
  comment a record carries at the moment.
* `NoLostWakeup`, `HeadIsJob`: the worker and the loop agree about the queue
  although the worker releases the lock while it works.
* `DeletionOnDisk`, `RowsOnDisk`: what a crash would bring back.
* `OrphanFree`: every record and every rule QuickFlare left on Cloudflare is a
  saved route or a saved deletion, or a deletion of it was taken up and met a
  problem.  What it does not promise is listed above: the problem may have been
  that there was no client, and the user may not have been told.
* `LiveRowIsPublished`: a row shown as live is served.
* `DeletionsGoOn`, `ShutdownCompletes`: the worker never waits for the loop.
* `LostOnlyByOverwriting`: the file lists what all changes, whoever made them,
  leave, and every deletion that is owed (`NothingIsLost`), until a write from an
  older copy, or a launch or a save that fails: reloads, orders, pops, verifications
  and ends, in whatever order, lose nothing.  `AgreeAtRest`: a panel with no
  closure waiting shows and serves the list of the file, unless a change was made
  that it was not told of.  `PauseIsKept`: where the last state is restored,
  a relaunch brings back the pause that the panel shows.
* `IsConnector`: `Supervisor` implements `Connector`, with its liveness.
  `LogIsWindow`: `LogRing` implements `LogWindow`.  `KeepsTrying`: the restart
  loop goes on.  `StaleStatusHeals`: what a poller of a dead process reports
  does not outlast the pause.
* `NoStrayConnector`: a connector runs because it is the current one, or
  somebody is about to decide about it.  `ClosersKnowAll`: what runs is known
  to the shutdown.  `LinksAreListed`, `ClosedLinkDies`: the process of a quick
  link can be seen and closed, and closing ends it, however early it comes.
* `RestsAsAsked`: when calls and fades have ended, the window is as the flags
  say, and not transparent, if the last call had room of its own: whatever
  crossed before it, it puts right.  `OpensAtHome`: no frame of a new opening draws the
  page of an old one.  `ClickCloses`: a click that began on an open panel does
  not open it.  `GraceIsGiven`, `LostFocusCloses`: the watcher closes the panel,
  and not because of what it learnt from an earlier showing before it looked.
* `QuitIsMeant`: only the application that a stop command found quits.
  `NamedUnlessRemoved`: who serves can be found, whatever the other launches
  write and remove, until a client takes it for gone.  `StoppedIsStopped`: what
  was reported stopped does not serve, with the same exception.

Every property of a passing run has a mutant, an operator beside the definition
it replaces, marked `Mutant of`, under which the run finds it violated.  The
type invariants of the modules that no run names were checked with the same
constants; their theorems, where there are some, are listed in section 4.

### Bounds

* Hostnames: one, or two where the order of the queue matters.  The handlers
  treat hostnames independently except through the queue and the list's save.
  The ingress run has three: two spellings of one name and another name.
* `PostCap` is 2 in `RoutePanel` (1 in `panel_hasty`) and in `TunnelSetup`, and 1
  in `settings`, where the code has 32.  A small channel is full often, which is
  one interesting case; the other is that closures wait behind each other, for
  which two places are the least.  That no more are needed is shown by the
  proofs, which have no such bound.  `TunnelSetup` without `"full"` in `Env` takes
  the channel's 32 places to be enough: with fewer the poster waits.
* `MaxQueue` 2 in `panel_list` and `panel_crash`, one job being carried out and
  one behind it, and 1 in `panel_hasty`; `MaxPubs`, publications of a hostname at
  a time, 2 in `panel_crash` and 1 elsewhere; the proofs have no such bounds.
  One reconciliation fetch at a time: the handler that would start a second one
  waits.  This hides behaviour of the code only where `Rush` has `"again"` or
  `"sync"`: without them there is never a second one to start (`OneReadBack`).
* `MaxRetries` 1 where the code has 2 (`client.go:28`): two attempts for three, a
  first and a last one.
* `MaxRecords` 3: the record found, its replacement, and a replacement of that.
* `MaxSpawns` 2: a process and the one after it, whose pollers overlap.
  `Capacity` 2 of 500 lines: the ring fills and wraps; the proof is for every
  capacity.
* `MaxGen` 2: a generation and the one that supersedes it, one quick link, and
  one closure of each kind at a time.
* `MaxFades` 2: the newest fade and one that it superseded; the proofs have no
  such bound.
* `settings`: one hostname, one token and one command, which the panel interrupts
  anywhere; the proofs are for any number (`settings_overlap` has two of each but
  the token).  `ipc`: two launches and two commands on one port,
  which is used again; three launches with one command, and two ports, were
  checked too.
* The post channels' closures, `problems`, `pubs` and `fetch` are bounded by
  the above; no state constraint is used.

### Fairness

* `RoutePanel`: weak fairness of the worker (its goroutine is scheduled and
  every call has a 30 second context, `panel.go:1570`), strong fairness of
  giving up on a client (the wait has thirty rounds of 100 ms, `panel.go:1550`), weak
  fairness of the two steps that finish a deletion's handler, and of the exit
  once `Shutdown` stopped waiting.
  Nothing is assumed of frames, of the user, or of the other goroutines: a
  hidden panel may never draw again.
* `IngressUpdate`: weak fairness of the requests (the HTTP client has a
  timeout), strong fairness of taking the lock (a Go mutex hands over to a
  starving waiter).
* `RoutePublish`: weak fairness of each worker, for the same reason.
* `Supervisor`: weak fairness of the run goroutine (its pause ends), of the
  callbacks, which only post, and of the end of a process whose context was
  cancelled, once `cmd.Start` has returned (`exec.CommandContext` kills it).
  Nothing of pollers or of a process that is not cancelled.
* `TunnelSetup`: weak fairness of the goroutines of a setup and of a link, whose
  calls have timeouts, and of the end of a process that was stopped, as long as
  the application runs.  Nothing of the loop.
* `Window`: weak fairness of the calls and fades, of the watcher, which polls on
  a ticker, of time, of a button that was pressed, and of Gio announcing the
  window it created.  Nothing of frames.
* `Settings` and `Ipc` state safety only: a command waits for the user, and a
  hidden panel for a frame.

Deadlock is checked in every run.

## 4. Proofs

`IngressUpdateProofs`, for all sets of workers, clients, hostnames and
documents:

* `TypeCorrect`, `LockDiscipline`: `TypeOK` and `LockHeld` are inductive.
* `FreshCopies`, assuming `SingleClient`: `CopyIsFresh` follows from `LockHeld`.
  The only step that could make a copy stale is another worker's write, and
  `MutualExclusion` says there is no other worker in the cycle.  A repeated PUT
  is the second disjunct: the document already is what would be written.
* `UpdatesAreAtomic`, assuming `SingleClient`: with fresh copies a write is
  `UpdateOf` of the document, or leaves it alone (`PutIsUpdate`).  This is the
  refinement of the read-modify-write by an atomic update.
  The instance with two clients in section 3 shows that the assumption is needed.
* `CatchAllStaysLast`, `OneRuleStays`: `CatchAllLast` and `OneRulePerHost`, if they
  hold of `InitialDocs`, for any clients, since they concern one document and not
  who wrote it.  What a worker puts was normalised, whatever it made it of; and the
  copies, stale or not, have one rule for a hostname too (`OneInv`).
* `OthersStay`, assuming `SingleClient`, no `Extras` and initial documents of the form
  `NormalizeIngress` makes (`Ended`): `OthersUntouched`, from `UpdatesAreAtomic`
  and `UpdateConcernsOne`.  `ingress_unknown_fields`
  shows that it needs that `Extras` is empty.

  These are about lists of any length, and `Kept`, the loop that filters a list,
  is a recursive function.  The library's induction theorems take a predicate,
  which the provers cannot instantiate.  `AppendInduction` takes the
  set of what satisfies it, and follows from the least element of a set of
  naturals, which the library's `WFMin` gives without a predicate.  `LoopRuns`
  says that the recursion has a solution, `KeptEmpty` and `KeptAppend` are its two
  equations, and the lemmas on `Kept` follow from these by `AppendInduction`.

`RoutePanelProofs`, for all sets of hostnames, capacities and choices of `Env`
and `Rush`:

* `PanelTypeCorrect`: `TypeOK` is inductive, one case per action.  `Frame`
  lets a case prove only the parts its action changes.
* `NoWakeupIsLost`: `NoLostWakeup` is inductive with `TypeOK`.  The worker goes
  to sleep only on an empty queue, and whoever appends is at `save` or `signal`
  until it put the token there.
* `PoppedJobIsDone`: `HeadIsJob` is inductive, since the loop appends at the
  tail and only the worker pops.
* `DeletionsSurvive`, if `config.json` can be written (`"locked"` is not in `Env`):
  `DeletionOnDisk` is inductive.  `QueueSteps` says who
  touches the queue; a save writes all of it, and a pop only shortens it.
* `ListSurvives`, with the same assumption: `RowsOnDisk` is inductive: every
  handler that changes which hostnames have rows saves them, and only a deletion
  does so in a later step.

* `NothingIsOrphaned`, for `Rush \subseteq {"readd"}` and every `Env` without
  `"locked"`, and `LiveMeansServed`, for an empty `Rush` and an `Env` without
  `"crash"` and `"quit"`.  Every element that the first leaves out violates it
  on an instance of section 3.  Of those that the second leaves out,
  `LiveRowIsPublished` holds on `panel_list` with `Env = {}` and `"early"` or
  `"again"` as `Rush`, and is violated with any other one.  Both rest on
  `SyncInv`: the list is read back by one chain of steps, which is at one place
  at a time (`OneReadBack`); an answer that is awaited drops no row
  (`ReadBackFits`); and what is being published has a row (`PubsHaveRows`).
  + `OrphanInv`: what has something on Cloudflare has a row, is queued or is a
    `leftover` (`Accounted`), and a row in memory is one on disk (`RowsKept`).
    The step that needs an argument is the pop.  What the worker is done with is
    gone, or need not be gone (`Covered`: there was a problem, it has a row again,
    or is queued a second time), and `HeadIsJob` says that it is this job that is
    popped.  A deletion without a tunnel would be popped with the rule in place
    and no problem, but there is none (`JobsKnowTunnel`).
  + `LiveInv`: while the list is read back nothing is being removed
    (`SyncIsQuiet`), so that the answer is still true when it is installed
    (`FetchIsTrue`, `AnswerIsTrue`); and a closure that says live of a row
    deleted since runs before the hostname can have a row again
    (`StaleComesFirst`), because a frame drains the channel before it looks at
    the user's input.

`RoutePublishProofs`, for all sets of workers and hostnames and whatever the
calls are given:

* `ForeignRecordsStay`: `ForeignRecordsUntouched`.  A worker that is about to
  update or delete holds a copy of a record with QuickFlare's comment; ids only
  grow, and a record never loses its id, so the record of that id is marked.
* `PublishReportsTruth`, `UnpublishReportsTruth`: `PublishedIsReachable` and
  `RemovedIsGone`, with the same invariant, which says what each place of a
  worker knows of the zone as long as nobody else touched the name.  Of a call
  without a zone or a tunnel id it says nothing about the record or the rule, and
  a call without a client has no such result.
* `PublishTypeCorrect`.

`TunnelSetupProofs`, for every capacity, every number of generations and links:

* `NoConnectorIsStray`, assuming that the channel never drops (`"full"` is not
  in `Env`): `NoStrayConnector`.  The instance with `"full"` in section 3 shows
  that the assumption is needed.
* `LinksStayListed`, `ClosersKnow`, `ConnectorsKeepTheirPromise`,
  `SetupTypeCorrect`, without it: `LinksAreListed`, `ClosersKnowAll` and
  `ConnectorsKeepPromise`.

`WindowProofs`, for every number of calls and fades and, but for `OpensHome`,
every `Env`:

* `ClicksClose`, `WindowTypeCorrect`: `ClickCloses`.
* `OpensHome`: `OpensAtHome`, if the channel never drops (`"full"`): the closure
  that goes home is before the first frame of the opening.
* `GraceHolds`: `GraceIsGiven`.  A watcher that has read the panel's flags in this
  showing remembers nothing of an earlier one (`FocusFits`); it is only a showing
  that begins while it looks that it may close too early.
* `RestsWell`: `RestsAsAsked`.  As long as nothing crosses, there is one actor at
  a time (`OneActor`), and the flags, the window and the newest fade's direction
  fit each other at each place of a call (`CallsFit`, `FadesFit`).  When something
  has crossed nothing is known, until a call begins that is alone: it sets the
  flags, the window and the newest fade itself, whatever it finds.

`SupervisorProofs`, for every set of lines, every capacity and number of
processes:

* `LogShowsTheLast`: the ring implements the window.  A ring that is not full
  is its own window (`Unturned`); of a full one, `Pieces` says which line stands
  where in the two pieces, and `RingStep` that replacing the oldest and turning
  by one is dropping the first and appending.
* `SupervisorTypeCorrect`: `TypeOK` is inductive.  It says that only a round that
  is starting its process or waits for it has one, which is what the next theorem
  needs.
* `SupervisorIsConnector`: the safety part of the refinement, `Conn!Steps`:
  every step of the supervisor is a step of `Connector` or a stutter, where a stop
  that comes between the context's check and the fork is felt when `cmd.Start`
  returns (`Life`).  Its
  liveness, that a stopped process goes away, is model-checked in `IsConnector`.

`SettingsProofs`, for all sets of hostnames, tokens and commands, every capacity
and every `Env`, with no assumption about who interrupts whom:

* `LostOnlyToStaleCopies`, `PanelAgreesUnlessUntold`, `PauseIsRestored`,
  `SettingsTypeCorrect` follow from one inductive invariant, `IInv`:
  `LostOnlyByOverwriting`, `AgreeAtRest` and `PauseIsKept`.  Its parts are that
  a panel whose list is not the file's was not told (`behind`), or will be: a
  command is about to notify it, or a reload waits (`ListKnown`); that a
  deletion is owed until the worker pops it (`OwedIsQueued`); and that the
  panel's pause is the file's, where a launch would restore it (`FlagIsKnown`).
  The last two hold until a write is `lossy`.  What they do not say is that
  nothing is lost, which section 3 refutes.

`IpcProofs`, for all sets of launches, commands and ports, with launches that
die at any moment, answers that come late and processes that cannot be looked at,
assuming `Mutual`: `CreateMutex` does not fail otherwise than by the mutex being
there already.

* `OrdersReachWhoIsMeant`, `OnlyClientsUnname`, `StopTellsTheTruth`,
  `IpcTypeCorrect` follow from `IInv`.  Its parts support each other: only one
  launch holds the mutex (`OneHolds`, `Owned`), so whoever writes the file is the
  only one that serves, and the file names it until a client removes it, which
  makes it `misled` (`NamedUnlessRemoved`); so a
  client that reads the file reads of whoever serves, and a stop command asks and
  polls the launch it found (`KnowsWhom`), which never serves again once it is
  `closing` (`StaysStopped`).  The instance with `"nomutex"` in section 3 shows
  that the assumption is needed.

The assumptions are `PanelAssumption`, `HostsAssumption`, `FieldsAssumption`,
`ClientsAssumption`, `PublishAssumption`, `SupervisorAssumption`,
`SetupAssumption`, `WindowAssumption`, `SettingsAssumption` and `IpcAssumption`,
which the runs evaluate.

Only model-checked: the liveness properties, since liveness under fairness is
beyond the proof system.

## 5. What is not modelled

* In `RoutePanel`: more than one zone, a missing `cloudflared` binary, the
  settings of a route, and torn reads: the worker reads `cf`, `verifying` and
  `tunnelID` without a lock, which the model interleaves but does not tear.
* In `RoutePublish`: two records at one name (an A beside an AAAA), which
  Cloudflare allows.
* In `Settings`: the domain, origin settings, which `ReloadFromDisk` drops from
  the rows it rebuilds (`panel.go:624`) until the next reconciliation takes them
  back from the routing document (`internal/core/reconcile.go:122`), and the
  domain that `login` stores for the panel.  After a `login` the panel keeps its
  client for the old token until it verifies again.
* In `Supervisor`: connection counts, telemetry and the length of pauses.
* In `TunnelSetup`: the status a row shows.  A closure that carries a status
  does not compare generations, and pausing begins none, so a late one may show
  a paused panel as connected (`panel.go:487`).  The panel does not look at
  `Done` of a quick link, so an entry whose process died stays as it is.
* In `Window`: placement on the screen, window styles, the duration of a fade.
* In `Ipc`: the orders' bodies, and access rights of `ipc.json`.
* The API client's backoff, rate limits and error texts; input validation.
* Views and widgets have no state of their own beyond focus and hover.
* The installer, autostart and services are one pass of registry, file and
  process calls whose errors are ignored one by one; what they leave is the
  operating system's state.

## 6. Plan

The modules of the first plan are written, and the safety properties of every
passing run are proved, with the assumptions of section 4.  What is left, in this order:

1. An abstract route manager, a set of hostnames that are wanted and a set that
   are served, and the refinement by `RoutePanel` for an unhurried user: its
   safety part follows from `SyncInv`, `OrphanInv` and `LiveInv`.
2. `RoutePanel` with two zones; the row that waits for a tunnel, with fairness
   of frames.
