------------------------------- MODULE Window -------------------------------
(***************************************************************************)
(* The panel's window: created once, then shown and hidden.                *)
(*                                                                         *)
(* Four goroutines call for it: the tray's (Toggle), the menu's and IPC's  *)
(* (Open), the Gio loop's (Dismiss) and the focus watcher's, which polls   *)
(* the foreground.  Each call changes the panel's flags under p.mu and the *)
(* window itself after it.  Opacity changes step by step on goroutines of  *)
(* their own, one for each fade, of which only the newest may go on.  The  *)
(* Gio loop draws frames while the window is up, and only then.            *)
(***************************************************************************)
EXTENDS Naturals, FiniteSets

CONSTANTS
  MaxFades,  \* bound on the fades that have not ended
  Env        \* what may happen beside

ASSUME WindowAssumption ==
  /\ MaxFades \in Nat
  \* Calls, fades and the watcher interrupt each other anywhere; a call comes
  \* between what the watcher or a fade reads and what it does about it; the post
  \* channel is full when a call wants to use it.
  /\ Env \subseteq {"overlap", "between", "full"}

VARIABLES
  hwnd,      \* the native handle is known
  visible,   \* p.visible
  alpha,     \* p.alpha: "clear", "mid", "opaque"
  recent,    \* p.autoHidAt is less than 400 ms ago
  call,      \* where each caller is
  fades,     \* the fades under way; fadeGen tells if one is the newest
  watch,     \* the watcher: its place, what it read and remembers; shownAt
             \* tells if that is of the newest showing
  age,       \* time since shownAt: "new", "settled", "old"
  shown,     \* the window is up
  opacity,   \* of the window
  fg,        \* who has the foreground: "panel", "other"
  home,      \* resetToHome waits in the post channel
  page,      \* p.view and p.pendingDelete: "main", "form", "question"
  press,     \* a click on the tray began: "none", "open", "closed"
  held,      \* history: the panel had the foreground since shownAt
  crossed,   \* history: what the last call to begin, or a fade, did came into
             \* the middle of what another call or fade does
  earlier    \* the page is one the user went to before the last opening

flags == <<hwnd, visible, alpha, recent>>
screen == <<shown, opacity, fg>>
pages == <<page, earlier>>
history == <<held, crossed>>
vars == <<flags, call, fades, watch, age, screen, home, pages, press, history>>

Callers == {"tray", "menu", "gio", "watch"}

Places == {"idle", "hide", "clear", "stamp", "home", "reveal", "fade"}

Level(in) == IF in THEN "opaque" ELSE "clear"

\* Gio creates the window visible.
Init ==
  /\ hwnd = FALSE /\ visible = FALSE /\ alpha = "clear" /\ recent = FALSE
  /\ call = [c \in Callers |-> "idle"]
  /\ fades = {}
  /\ watch = [at |-> "off", hadFocus |-> FALSE, read |-> FALSE, met |-> FALSE]
  /\ age = "old"
  /\ shown = TRUE /\ opacity = "opaque" /\ fg = "other"
  /\ home = FALSE /\ page = "main" /\ earlier = FALSE
  /\ press = "none" /\ held = FALSE /\ crossed = FALSE

-----------------------------------------------------------------------------
(* Scheduling.  No lock keeps calls, fades and the watcher apart; a run may *)
(* confine itself to what is likely, as calls and the steps of a fade take  *)
(* far less time than lies between them.                                    *)

InFade(f) == f.at \in {"paint", "done"}

AllIdle == \A c \in Callers : call[c] = "idle"

\* Nobody is in the middle of anything that changes the window.
Still == AllIdle /\ \A f \in fades : ~InFade(f)

Calm ==
  \/ "overlap" \in Env
  \/ AllIdle /\ "between" \in Env
  \/ Still /\ watch.at # "look"

\* A call begins, or a fade goes on, in the middle of another.
Begins == crossed' = ~Still /\ UNCHANGED held
Crosses == crossed' = (crossed \/ ~Still) /\ UNCHANGED held

Goto(c, place) == call' = [call EXCEPT ![c] = place]

-----------------------------------------------------------------------------
(* fadeTo.                                                                 *)

FadeTo(in) ==
  LET old == {[f EXCEPT !.newest = FALSE] : f \in fades} IN
  IF alpha = Level(in)
  THEN fades' = old /\ shown' = (shown /\ in)
  ELSE /\ fades' = old \cup {[newest |-> TRUE, in |-> in, left |-> 2, at |-> "sleep"]}
       /\ UNCHANGED shown

\* What a fade paints: the end of it in its last step.
Paint(f) == IF f.left = 0 THEN Level(f.in) ELSE "mid"

\* Mutant of Stale: every fade goes on.
NeverStale(f) == FALSE

Stale(f) == ~f.newest

Replace(f, fs) == fades' = (fades \ {f}) \cup fs

\* A step of the animation: the number is compared and p.alpha set under the
\* lock, then the window's opacity without it.
FadeStep(f) ==
  LET g == [f EXCEPT !.left = @ - 1, !.at = "paint"] IN
  /\ f.at = "sleep" /\ Calm
  /\ IF Stale(f)
     THEN Replace(f, {}) /\ UNCHANGED alpha
     ELSE Replace(f, {g}) /\ alpha' = Paint(g)
  /\ Crosses
  /\ UNCHANGED <<hwnd, visible, recent>>
  /\ UNCHANGED <<call, watch, age, screen, home, pages, press>>

FadePaints(f) ==
  /\ f.at = "paint"
  /\ opacity' = Paint(f)
  /\ Replace(f, {[f EXCEPT !.at = IF f.left = 0 THEN "check" ELSE "sleep"]})
  /\ UNCHANGED <<flags, call, watch, age, shown, fg, home, pages, press, history>>

\* The last look at the number; a fade-in has nothing to do after it.
FadeChecks(f) ==
  /\ f.at = "check" /\ Calm
  /\ Replace(f, IF Stale(f) \/ f.in THEN {} ELSE {[f EXCEPT !.at = "done"]})
  /\ Crosses
  /\ UNCHANGED <<flags, call, watch, age, screen, home, pages, press>>

\* done: Hide.
FadeHides(f) ==
  /\ f.at = "done"
  /\ shown' = FALSE /\ fg' = "other"
  /\ Replace(f, {})
  /\ UNCHANGED <<flags, call, watch, age, opacity, home, pages, press, history>>

-----------------------------------------------------------------------------
(* showPanel and hidePanel, on the goroutine of their caller.              *)

\* AnchorToTray moves the window; SetAlpha makes it transparent.
Clear(c) ==
  /\ call[c] = "clear" /\ Goto(c, "stamp")
  /\ opacity' = "clear"
  /\ UNCHANGED <<flags, fades, watch, age, shown, fg, home, pages, press, history>>

Stamp(c) ==
  /\ call[c] = "stamp" /\ Goto(c, "home")
  /\ alpha' = "clear"
  /\ watch' = [watch EXCEPT !.read = FALSE, !.met = FALSE]
  /\ age' = "new" /\ held' = (fg = "panel")
  /\ UNCHANGED <<hwnd, visible, recent>>
  /\ UNCHANGED <<fades, screen, home, pages, press, crossed>>

\* Mutant of PostHome: the panel stays on the page where it was left.
PostNothing(c) ==
  /\ call[c] = "home" /\ Goto(c, "reveal")
  /\ UNCHANGED <<flags, fades, watch, age, screen, home, pages, press, history>>

\* dispatch(resetToHome), which a full channel drops.
PostHome(c) ==
  /\ call[c] = "home" /\ Goto(c, "reveal")
  /\ home' = TRUE \/ ("full" \in Env /\ UNCHANGED home)
  /\ UNCHANGED <<flags, fades, watch, age, screen, pages, press, history>>

\* Show, then Focus, which the system may refuse.
Reveal(c) ==
  /\ call[c] = "reveal" /\ Goto(c, "fade")
  /\ shown' = TRUE /\ fg' \in {"panel", fg}
  /\ held' = (held \/ fg' = "panel")
  /\ UNCHANGED <<flags, fades, watch, age, opacity, home, pages, press, crossed>>

FadeIn(c) ==
  /\ call[c] = "fade" /\ Goto(c, "idle")
  /\ FadeTo(TRUE)
  /\ UNCHANGED <<hwnd, visible, alpha, recent, fg>>
  /\ UNCHANGED <<watch, age, opacity, home, pages, press, history>>

\* hidePanel.
FadeOut(c) ==
  /\ call[c] = "hide" /\ Goto(c, "idle")
  /\ FadeTo(FALSE)
  /\ fg' = IF shown' THEN fg ELSE "other"
  /\ UNCHANGED <<hwnd, visible, alpha, recent>>
  /\ UNCHANGED <<watch, age, opacity, home, pages, press, history>>

-----------------------------------------------------------------------------
(* The calls.                                                              *)

Room == Cardinality(fades) < MaxFades

Ready(c) == hwnd /\ Calm /\ Room /\ call[c] = "idle" /\ press = "none"

\* The user presses the mouse button over the tray icon.
Press ==
  /\ Ready("tray")
  /\ press' = IF visible THEN "open" ELSE "closed"
  /\ fg' = "other"
  /\ UNCHANGED <<flags, call, fades, watch, age, shown, opacity, home, pages, history>>

\* Mutant of Toggle: a click that follows an automatic close opens the panel.
ToggleAtFaceValue ==
  /\ press # "none" /\ Calm /\ Room /\ call["tray"] = "idle"
  /\ press' = "none"
  /\ visible' = ~visible /\ UNCHANGED recent
  /\ Goto("tray", IF visible THEN "hide" ELSE "clear") /\ Begins
  /\ earlier' = IF visible THEN earlier ELSE page # "main"
  /\ UNCHANGED <<hwnd, alpha>>
  /\ UNCHANGED <<fades, watch, age, screen, home, page>>

\* The click arrives.  Right after an automatic close it is the click that
\* caused it.
Toggle ==
  /\ press # "none" /\ Calm /\ Room /\ call["tray"] = "idle"
  /\ press' = "none"
  /\ IF ~visible /\ recent
     THEN recent' = FALSE /\ UNCHANGED <<visible, call, history>>
     ELSE /\ visible' = ~visible /\ UNCHANGED recent
          /\ Goto("tray", IF visible THEN "hide" ELSE "clear") /\ Begins
  /\ earlier' = IF visible' THEN page # "main" ELSE earlier
  /\ UNCHANGED <<hwnd, alpha>>
  /\ UNCHANGED <<fades, watch, age, screen, home, page>>

Open ==
  /\ Ready("menu")
  /\ earlier' = (page # "main")
  /\ visible' = TRUE /\ recent' = FALSE
  /\ Goto("menu", "clear") /\ Begins
  /\ UNCHANGED <<hwnd, alpha>>
  /\ UNCHANGED <<fades, watch, age, screen, home, page, press>>

\* setHandle, on the Gio loop; it may be told of the window again.
SetHandle ==
  /\ Calm /\ call["gio"] = "idle" /\ press = "none"
  /\ hwnd' = TRUE /\ visible' = FALSE
  /\ shown' = FALSE /\ fg' = "other"
  /\ watch' = [watch EXCEPT !.at = IF @ = "off" THEN "tick" ELSE @]
  /\ Crosses
  /\ UNCHANGED <<alpha, recent, opacity>>
  /\ UNCHANGED <<call, fades, age, home, pages, press>>

-----------------------------------------------------------------------------
(* The Gio loop draws a frame: posts, input, layout.                       *)

\* Nothing is clicked.
Draw ==
  /\ shown /\ call["gio"] = "idle" /\ home
  /\ home' = FALSE /\ page' = "main" /\ earlier' = FALSE
  /\ UNCHANGED <<flags, call, fades, watch, age, screen, press, history>>

\* The user goes to a form or back, is asked whether to delete a route, or
\* answers.  While that is asked nothing else can be clicked.
Move ==
  LET from == IF home THEN "main" ELSE page IN
  /\ shown /\ call["gio"] = "idle"
  /\ home' = FALSE /\ earlier' = FALSE
  /\ page' \in {"main", "form", "question"} \ {from}
  /\ "question" \in {from, page'} => "main" \in {from, page'}
  /\ UNCHANGED <<flags, call, fades, watch, age, screen, press, history>>

\* The close button, which exists on every page but under the question.
Dismiss ==
  LET from == IF home THEN "main" ELSE page IN
  /\ Ready("gio") /\ shown
  /\ from # "question"
  /\ home' = FALSE /\ page' = from /\ earlier' = (earlier /\ ~home)
  /\ visible' = FALSE
  /\ Goto("gio", "hide") /\ Begins
  /\ UNCHANGED <<hwnd, alpha, recent>>
  /\ UNCHANGED <<fades, watch, age, screen, press>>

-----------------------------------------------------------------------------
(* watchFocus.                                                             *)

\* Mutant of WatchTick: what an earlier showing taught is not forgotten.
WatchTickMindful ==
  /\ watch.at = "tick" /\ call["watch"] = "idle" /\ Calm /\ Room
  /\ watch' = IF ~visible
              THEN [watch EXCEPT !.hadFocus = FALSE]
              ELSE [watch EXCEPT !.at = "look", !.read = TRUE, !.met = TRUE]
  /\ UNCHANGED <<flags, call, fades, age, screen, home, pages, press, history>>

\* A tick reads the flags; a new showing forgets what the last one taught.
WatchTick ==
  /\ watch.at = "tick" /\ call["watch"] = "idle" /\ Calm /\ Room
  /\ watch' =
       IF ~visible
       THEN [watch EXCEPT !.hadFocus = FALSE]
       ELSE [at |-> "look", read |-> TRUE, met |-> TRUE,
             hadFocus |-> watch.hadFocus /\ watch.met]
  /\ UNCHANGED <<flags, call, fades, age, screen, home, pages, press, history>>

\* How long ago the showing was that the watcher read of; that of an earlier
\* one may be anything.
SinceShow(a) == watch.read => a = age

\* In the grace period, or the panel has the foreground, or never had it yet.
WatchWaits ==
  /\ watch.at = "look"
  /\ \/ /\ SinceShow("new")
        /\ watch' = [watch EXCEPT !.at = "tick", !.read = FALSE]
     \/ /\ SinceShow("settled") \/ SinceShow("old")
        /\ fg = "panel"
        /\ watch' = [watch EXCEPT !.at = "tick", !.read = FALSE, !.hadFocus = TRUE]
     \/ /\ SinceShow("settled") /\ fg = "other" /\ ~watch.hadFocus
        /\ watch' = [watch EXCEPT !.at = "tick", !.read = FALSE]
  /\ UNCHANGED <<flags, call, fades, age, screen, home, pages, press, history>>

\* Mutant of WatchCloses: a panel that never had the foreground stays.
WatchClosesIfHeld ==
  /\ watch.at = "look" /\ fg = "other" /\ Room
  /\ ~SinceShow("new") /\ watch.hadFocus
  /\ call["watch"] = "idle" /\ (AllIdle \/ "overlap" \in Env)
  /\ watch' = [watch EXCEPT !.at = "tick", !.read = FALSE]
  /\ visible' = FALSE /\ recent' = TRUE
  /\ Goto("watch", "hide") /\ Begins
  /\ UNCHANGED <<hwnd, alpha>>
  /\ UNCHANGED <<fades, age, screen, home, pages, press>>

WatchCloses ==
  /\ watch.at = "look" /\ fg = "other" /\ Room
  /\ SinceShow("old") \/ (SinceShow("settled") /\ watch.hadFocus)
  /\ call["watch"] = "idle" /\ (AllIdle \/ "overlap" \in Env)
  /\ watch' = [watch EXCEPT !.at = "tick", !.read = FALSE]
  /\ visible' = FALSE /\ recent' = TRUE
  /\ Goto("watch", "hide") /\ Begins
  /\ UNCHANGED <<hwnd, alpha>>
  /\ UNCHANGED <<fades, age, screen, home, pages, press>>

-----------------------------------------------------------------------------
(* Time, and the system's foreground.                                      *)

Ages ==
  /\ age # "old" /\ age' = IF age = "new" THEN "settled" ELSE "old"
  /\ UNCHANGED <<flags, call, fades, watch, screen, home, pages, press, history>>

\* A click takes less than the 400 ms in which a close is recent.
Lapse ==
  /\ recent /\ press = "none" /\ recent' = FALSE
  /\ UNCHANGED <<hwnd, visible, alpha>>
  /\ UNCHANGED <<call, fades, watch, age, screen, home, pages, press, history>>

Foreground ==
  /\ shown /\ press = "none"
  /\ fg' = IF fg = "panel" THEN "other" ELSE "panel"
  /\ held' = (held \/ fg' = "panel")
  /\ UNCHANGED <<flags, call, fades, watch, age, shown, opacity, home, pages, press, crossed>>

CallStep(c) ==
  Clear(c) \/ Stamp(c) \/ PostHome(c) \/ Reveal(c) \/ FadeIn(c) \/ FadeOut(c)

AFade == \E f \in fades : FadeStep(f) \/ FadePaints(f) \/ FadeChecks(f) \/ FadeHides(f)

Watch == WatchTick \/ WatchWaits \/ WatchCloses

Frame == Draw \/ Move \/ Dismiss

Next ==
  \/ \E c \in Callers : CallStep(c)
  \/ AFade \/ Watch \/ Frame
  \/ Press \/ Toggle \/ Open \/ SetHandle
  \/ Ages \/ Lapse \/ Foreground

\* Goroutines are scheduled, time passes, a button that was pressed is let go,
\* and Gio tells of the window it created.
Fairness ==
  /\ \A c \in Callers : WF_vars(CallStep(c))
  /\ WF_vars(AFade) /\ WF_vars(Watch) /\ WF_vars(Toggle) /\ WF_vars(Ages)
  /\ WF_vars(~hwnd /\ SetHandle)

Spec == Init /\ [][Next]_vars /\ Fairness

-----------------------------------------------------------------------------
Levels == {"clear", "mid", "opaque"}

TypeOK ==
  /\ hwnd \in BOOLEAN /\ visible \in BOOLEAN /\ recent \in BOOLEAN
  /\ alpha \in Levels /\ opacity \in Levels
  /\ call \in [Callers -> Places]
  /\ \A f, g \in fades : f.newest /\ g.newest => f = g
  /\ watch.at \in {"off", "tick", "look"}
  /\ shown \in BOOLEAN /\ fg \in {"panel", "other"} /\ (fg = "panel" => shown)
  /\ page \in {"main", "form", "question"}

\* Nothing is under way.
Quiet == hwnd /\ AllIdle /\ fades = {}

\* When the calls have returned and the fades ended, the window is up exactly
\* if the panel takes it to be, and what is up is not left transparent, unless
\* the last call to begin had no room of its own: a fade that it superseded
\* neither hides the panel nor leaves it up, and whatever calls and fades that
\* crossed have done to the window, the next call that comes alone puts it right.
RestsAsAsked ==
  Quiet /\ ~crossed => shown = visible /\ (shown => opacity = "opaque")

\* A popover is not a document: when the panel has been opened, no frame draws
\* a form, or the question whether to delete a route, of an earlier opening.
OpensAtHome ==
  /\ shown /\ ~home
  /\ \A c \in Callers : call[c] \in {"idle", "hide", "fade"}
  => page = "main" \/ ~earlier

\* A tray click that began while the panel was open never opens it, though the
\* watcher may have closed the panel before the click arrives.
ClickCloses == [][press = "open" /\ press' = "none" => ~visible']_vars

\* What the watcher learnt from an earlier showing does not close a panel that
\* was opened again before it looked: it closes a panel that held the foreground
\* in this showing, has long been waiting for it, or was opened while it looked.
GraceIsGiven ==
  [][call["watch"] = "idle" /\ call'["watch"] = "hide" /\ visible
       => held \/ age = "old" \/ ~watch.read]_vars

\* What watchFocus says of its close (panel.go:925), "only if the panel has
\* already held foreground, or if the maximum acquisition window has passed".  A
\* panel that is opened while the watcher looks violates it.
ClosesOnlyAfterGrace ==
  [][call["watch"] = "idle" /\ call'["watch"] = "hide" /\ visible
       => held \/ age = "old"]_vars

\* What fadeTo says of its end (panel.go:793), "done runs only if the fade
\* finished as the current one, which is what stops a superseded fade-out from
\* hiding a window that has since been re-opened".  A call that comes between the
\* last look at the number and done violates it.
ReopenedStaysUp ==
  [][\A f \in fades \ fades' : f.at = "done" /\ ~f.newest => ~(shown /\ visible)]_vars

\* Once the foreground stays elsewhere and nobody calls for it any more, the
\* panel goes away.
LostFocusCloses ==
  <>[](fg = "other" /\ press = "none" /\ \A c \in {"menu", "gio"} : call[c] = "idle") => []<>~shown
=============================================================================
