----------------------------- MODULE WindowProofs -----------------------------
(***************************************************************************)
(* The window does what the last call asked: proofs for any number of      *)
(* fades and however calls, fades and the watcher interrupt each other.    *)
(* Only that the panel opens at home needs a channel with room.            *)
(***************************************************************************)
EXTENDS Window, Integers, TLAPS

-----------------------------------------------------------------------------
(* The inductive invariant.                                                *)

Fade == [newest : BOOLEAN, in : BOOLEAN, left : Int, at : {"sleep", "paint", "check", "done"}]

Watcher == [at : {"off", "tick", "look"}, hadFocus : BOOLEAN, read : BOOLEAN, met : BOOLEAN]

\* TypeOK, with the types it leaves out.
Types ==
  /\ TypeOK
  /\ fades \subseteq Fade /\ watch \in Watcher
  /\ age \in {"new", "settled", "old"} /\ press \in {"none", "open", "closed"}
  /\ home \in BOOLEAN /\ earlier \in BOOLEAN /\ held \in BOOLEAN /\ crossed \in BOOLEAN

\* Calls and the middle of a fade's step exclude each other.
OneActor ==
  /\ \A c, d \in Callers : call[c] # "idle" /\ call[d] # "idle" => c = d
  /\ ~AllIdle => \A f \in fades : ~InFade(f)
  /\ \A f \in fades : InFade(f) => f.newest

\* Before Gio tells of the window nothing can be called.
NotYet ==
  ~hwnd => fades = {} /\ AllIdle /\ ~visible /\ watch.at = "off" /\ press = "none"

\* What a call still has to do fits what was asked.
CallsFit ==
  \A c \in Callers :
    /\ call[c] = "hide" => ~visible
    /\ call[c] \notin {"idle", "hide"} => visible
    /\ call[c] \in {"home", "reveal", "fade"} => alpha = "clear"
    /\ call[c] = "fade" => shown

Newest(in) == \E f \in fades : f.newest /\ f.in = in

\* Between calls the newest fade leads to what was asked, or it is there.
FadesFit ==
  /\ \A f \in fades : f.at = "done" => ~f.in
  /\ hwnd /\ AllIdle =>
       /\ visible => shown /\ ~Newest(FALSE) /\ (Newest(TRUE) \/ opacity = "opaque")
       /\ ~visible => ~shown \/ Newest(FALSE)
       /\ \A f \in fades : f.newest /\ f.in /\ f.at = "check" => opacity = "opaque"

\* What the watcher remembers is of the newest showing, or will be forgotten.
FocusFits ==
  /\ watch.read => watch.met
  /\ watch.hadFocus /\ watch.met => held
  /\ fg = "panel" => held

\* The middle three hold as long as nothing crosses, and from the next call that
\* begins alone.
IInv == Types /\ NotYet /\ (crossed \/ (OneActor /\ CallsFit /\ FadesFit))

-----------------------------------------------------------------------------
(* Fades.                                                                  *)

Old == {[f EXCEPT !.newest = FALSE] : f \in fades}

Begun(in) == [newest |-> TRUE, in |-> in, left |-> 2, at |-> "sleep"]

\* The fade a call begins.
LEMMA BegunFade ==
  ASSUME NEW in \in BOOLEAN
  PROVE  /\ Begun(in) \in Fade /\ Begun(in).newest /\ Begun(in).in = in
         /\ Begun(in).at = "sleep" /\ ~InFade(Begun(in))
BY DEF Begun, Fade, InFade

\* The fades a call supersedes.
LEMMA OldFades ==
  ASSUME fades \subseteq Fade
  PROVE  /\ Old \subseteq Fade
         /\ \A g \in Old : ~g.newest /\ \E f \in fades : g.at = f.at /\ g.in = f.in
BY DEF Old, Fade

\* A step of a fade in which it goes on: it is the same fade.
Next1(f, g) == g \in Fade /\ g.newest = f.newest /\ g.in = f.in

\* What becomes of a fade that is due: if it is stale it is gone, or else it
\* paints next.
LEMMA FadeStepped ==
  ASSUME fades \subseteq Fade, NEW f \in fades, FadeStep(f)
  PROVE  \/ ~f.newest /\ fades' = fades \ {f} /\ alpha' = alpha
         \/ /\ f.newest /\ alpha' \in Levels
            /\ \E g : Next1(f, g) /\ g.at = "paint" /\ fades' = (fades \ {f}) \cup {g}
<1>1. CASE Stale(f)
  BY <1>1 DEF FadeStep, Stale, Replace
<1>2. CASE ~Stale(f)
  <2> DEFINE g == [f EXCEPT !.left = @ - 1, !.at = "paint"]
  <2>1. f \in Fade
    OBVIOUS
  <2>2. Next1(f, g) /\ g.at = "paint"
    <3> DEFINE h == [f EXCEPT !.left = f.left - 1]
    <3>1. h \in Fade /\ h.newest = f.newest /\ h.in = f.in
      BY <2>1 DEF Fade
    <3>2. g = [h EXCEPT !.at = "paint"]
      OBVIOUS
    <3> HIDE DEF g, h
    <3> QED
      BY <3>1, <3>2 DEF Next1, Fade
  <2>3. fades' = (fades \ {f}) \cup {g} /\ alpha' = Paint(g)
    BY <1>2 DEF FadeStep, Replace
  <2>4. Paint(g) \in Levels
    BY DEF Paint, Level, Levels
  <2> HIDE DEF g
  <2> QED
    BY <1>2, <2>2, <2>3, <2>4 DEF Stale
<1> QED
  BY <1>1, <1>2

\* What becomes of a fade that paints: its last paint is the end it leads to.
LEMMA FadePainted ==
  ASSUME fades \subseteq Fade, NEW f \in fades, FadePaints(f)
  PROVE  /\ opacity' \in Levels
         /\ \E g : /\ Next1(f, g) /\ g.at \in {"check", "sleep"}
                   /\ fades' = (fades \ {f}) \cup {g}
                   /\ g.at = "check" => opacity' = Level(f.in)
<1> DEFINE g == [f EXCEPT !.at = IF f.left = 0 THEN "check" ELSE "sleep"]
<1>1. f \in Fade
  OBVIOUS
<1>2. Next1(f, g) /\ g.at \in {"check", "sleep"} /\ (g.at = "check" => f.left = 0)
  BY <1>1 DEF Next1, Fade
<1>3. fades' = (fades \ {f}) \cup {g} /\ opacity' = Paint(f)
  BY DEF FadePaints, Replace
<1>4. Paint(f) \in Levels
  BY DEF Paint, Level, Levels
<1> HIDE DEF g
<1> QED
  BY <1>2, <1>3, <1>4 DEF Paint

\* What becomes of a fade that has ended: only one that led out, and is still
\* the newest, goes on to hide the window.
LEMMA FadeChecked ==
  ASSUME fades \subseteq Fade, NEW f \in fades, FadeChecks(f)
  PROVE  \/ (~f.newest \/ f.in) /\ fades' = fades \ {f}
         \/ /\ f.newest /\ ~f.in
            /\ \E g : Next1(f, g) /\ g.at = "done" /\ fades' = (fades \ {f}) \cup {g}
<1>1. CASE Stale(f) \/ f.in
  BY <1>1 DEF FadeChecks, Stale, Replace
<1>2. CASE ~(Stale(f) \/ f.in)
  <2> DEFINE g == [f EXCEPT !.at = "done"]
  <2>1. f \in Fade
    OBVIOUS
  <2>2. Next1(f, g) /\ g.at = "done"
    BY <2>1 DEF Next1, Fade
  <2>3. fades' = (fades \ {f}) \cup {g}
    BY <1>2 DEF FadeChecks, Replace
  <2> HIDE DEF g
  <2> QED
    BY <1>2, <2>2, <2>3 DEF Stale
<1> QED
  BY <1>1, <1>2

\* A fade that goes on keeps the types, and its number.
LEMMA ReplacedFade ==
  ASSUME fades \subseteq Fade, \A f, g \in fades : f.newest /\ g.newest => f = g,
         NEW f \in fades, NEW g, Next1(f, g), fades' = (fades \ {f}) \cup {g}
  PROVE  fades' \subseteq Fade /\ \A h, k \in fades' : h.newest /\ k.newest => h = k
BY DEF Next1

-----------------------------------------------------------------------------
(* Types.                                                                  *)

CallTypes == call \in [Callers -> Places] /\ crossed \in BOOLEAN

ScreenTypes ==
  /\ hwnd \in BOOLEAN /\ visible \in BOOLEAN /\ recent \in BOOLEAN
  /\ alpha \in Levels /\ opacity \in Levels
  /\ shown \in BOOLEAN /\ fg \in {"panel", "other"} /\ (fg = "panel" => shown)

FadeTypes == fades \subseteq Fade /\ \A f, g \in fades : f.newest /\ g.newest => f = g

RestTypes ==
  /\ watch \in Watcher /\ age \in {"new", "settled", "old"}
  /\ press \in {"none", "open", "closed"} /\ page \in {"main", "form", "question"}
  /\ home \in BOOLEAN /\ earlier \in BOOLEAN /\ held \in BOOLEAN

\* The types in four parts, each with variables of its own.
LEMMA FourTypes == Types <=> CallTypes /\ ScreenTypes /\ FadeTypes /\ RestTypes
<1>1. watch \in Watcher => watch.at \in {"off", "tick", "look"}
  BY DEF Watcher
<1> QED
  BY <1>1 DEF Types, TypeOK, CallTypes, ScreenTypes, FadeTypes, RestTypes

\* What a step says of what crosses.
LEMMA CrossedBy ==
  ASSUME [Next]_vars
  PROVE  crossed' = crossed \/ Begins \/ Crosses
<1>1. ASSUME NEW c \in Callers, CallStep(c) PROVE crossed' = crossed
  BY <1>1 DEF CallStep, Clear, Stamp, PostHome, Reveal, FadeIn, FadeOut, history
<1>2. CASE AFade
  BY <1>2 DEF AFade, FadeStep, FadePaints, FadeChecks, FadeHides, history
<1>3. CASE Watch \/ Frame
  BY <1>3 DEF Watch, WatchTick, WatchWaits, WatchCloses, Frame, Draw, Move, Dismiss, history
<1>4. CASE Press \/ Toggle \/ Open \/ SetHandle \/ Ages \/ Lapse \/ Foreground \/ UNCHANGED vars
  BY <1>4 DEF Press, Toggle, Open, SetHandle, Ages, Lapse, Foreground, history, vars
<1> QED
  BY <1>1, <1>2, <1>3, <1>4 DEF Next

\* It stays a Boolean.
LEMMA StepCrossed == crossed \in BOOLEAN /\ [Next]_vars => crossed' \in BOOLEAN
BY CrossedBy, Zenon DEF Begins, Crosses

\* Every step keeps the callers' places.
LEMMA StepCalls == CallTypes /\ [Next]_vars => CallTypes'
<1> SUFFICES ASSUME CallTypes, [Next]_vars PROVE CallTypes'
  OBVIOUS
<1>0. crossed' \in BOOLEAN
  BY StepCrossed DEF CallTypes
<1>1. ASSUME NEW c, NEW place \in Places, Goto(c, place) PROVE CallTypes'
  BY <1>0, <1>1 DEF Goto, CallTypes
<1>2. {"idle", "hide", "clear", "stamp", "home", "reveal", "fade"} \subseteq Places
  BY DEF Places
<1>3. CASE call' = call
  BY <1>0, <1>3 DEF CallTypes
<1>4. ASSUME NEW c \in Callers, CallStep(c) PROVE CallTypes'
  BY <1>1, <1>2, <1>4 DEF CallStep, Clear, Stamp, PostHome, Reveal, FadeIn, FadeOut
<1>5. CASE Toggle
  BY <1>1, <1>2, <1>3, <1>5 DEF Toggle
<1>6. CASE Open \/ Dismiss \/ WatchCloses
  BY <1>1, <1>2, <1>6 DEF Open, Dismiss, WatchCloses
<1>7. CASE AFade \/ WatchTick \/ WatchWaits \/ Draw \/ Move \/ Press \/ SetHandle
             \/ Ages \/ Lapse \/ Foreground \/ UNCHANGED vars
  BY <1>3, <1>7 DEF AFade, FadeStep, FadePaints, FadeChecks, FadeHides, WatchTick, WatchWaits,
                    Draw, Move, Press, SetHandle, Ages, Lapse, Foreground, vars
<1> QED
  BY <1>4, <1>5, <1>6, <1>7 DEF Next, Watch, Frame

\* Every step keeps the types of what is on the screen.
LEMMA StepScreen == ScreenTypes /\ FadeTypes /\ [Next]_vars => ScreenTypes'
<1> SUFFICES ASSUME ScreenTypes, FadeTypes, [Next]_vars PROVE ScreenTypes'
  OBVIOUS
<1>1. CASE UNCHANGED <<flags, screen>>
  BY <1>1 DEF ScreenTypes, flags, screen
<1>2. ASSUME NEW c \in Callers, CallStep(c) PROVE ScreenTypes'
  <2>1. CASE Clear(c)
    BY <2>1 DEF Clear, ScreenTypes, flags, Levels
  <2>2. CASE Stamp(c)
    BY <2>2 DEF Stamp, ScreenTypes, screen, Levels
  <2>3. CASE PostHome(c)
    BY <1>1, <2>3 DEF PostHome
  <2>4. CASE Reveal(c)
    BY <2>4 DEF Reveal, ScreenTypes, flags
  <2>5. CASE FadeIn(c)
    <3>1. shown' = shown
      BY <2>5 DEF FadeIn, FadeTo, ScreenTypes
    <3> QED
      BY <2>5, <3>1 DEF FadeIn, ScreenTypes
  <2>6. CASE FadeOut(c)
    <3>1. shown' \in BOOLEAN
      BY <2>6 DEF FadeOut, FadeTo, ScreenTypes
    <3>2. fg' \in {"panel", "other"} /\ (fg' = "panel" => shown')
      BY <2>6, <3>1 DEF FadeOut, ScreenTypes
    <3> QED
      BY <2>6, <3>1, <3>2 DEF FadeOut, ScreenTypes
  <2> QED
    BY <1>2, <2>1, <2>2, <2>3, <2>4, <2>5, <2>6 DEF CallStep
<1>3. ASSUME NEW f \in fades, FadeStep(f) \/ FadePaints(f) \/ FadeChecks(f) \/ FadeHides(f)
      PROVE  ScreenTypes'
  <2>1. CASE FadeStep(f)
    <3>1. alpha' \in Levels
      BY <2>1, FadeStepped DEF FadeTypes, ScreenTypes
    <3> QED
      BY <2>1, <3>1 DEF FadeStep, ScreenTypes, screen
  <2>2. CASE FadePaints(f)
    <3>1. opacity' \in Levels
      BY <2>2, FadePainted DEF FadeTypes
    <3> QED
      BY <2>2, <3>1 DEF FadePaints, ScreenTypes, flags
  <2>3. CASE FadeChecks(f)
    BY <1>1, <2>3 DEF FadeChecks
  <2>4. CASE FadeHides(f)
    BY <2>4 DEF FadeHides, ScreenTypes, flags
  <2> QED
    BY <1>3, <2>1, <2>2, <2>3, <2>4
<1>4. CASE WatchTick \/ WatchWaits \/ Draw \/ Move \/ Ages \/ UNCHANGED vars
  BY <1>1, <1>4 DEF WatchTick, WatchWaits, Draw, Move, Ages, vars
<1>5. CASE WatchCloses
  BY <1>5 DEF WatchCloses, ScreenTypes, screen
<1>6. CASE Dismiss
  BY <1>6 DEF Dismiss, ScreenTypes, screen
<1>7. CASE Press
  BY <1>7 DEF Press, ScreenTypes, flags
<1>8. CASE Toggle
  <2>1. visible' \in BOOLEAN /\ recent' \in BOOLEAN
    BY <1>8 DEF Toggle, ScreenTypes
  <2> QED
    BY <1>8, <2>1 DEF Toggle, ScreenTypes, screen
<1>9. CASE Open
  BY <1>9 DEF Open, ScreenTypes, screen
<1>10. CASE SetHandle
  BY <1>10 DEF SetHandle, ScreenTypes
<1>11. CASE Lapse
  BY <1>11 DEF Lapse, ScreenTypes, screen
<1>12. CASE Foreground
  BY <1>12 DEF Foreground, ScreenTypes, flags
<1> QED
  BY <1>2, <1>3, <1>4, <1>5, <1>6, <1>7, <1>8, <1>9, <1>10, <1>11, <1>12
     DEF Next, AFade, Watch, Frame

\* A call that fades begins one fade, or none, and supersedes the others.
LEMMA FadedTo ==
  ASSUME FadeTypes, NEW in \in BOOLEAN, FadeTo(in)
  PROVE  /\ FadeTypes'
         /\ \A f \in fades' : f.newest => f = Begun(in)
         /\ \A f \in fades' : f = Begun(in) \/ \E g \in fades : f.at = g.at /\ f.in = g.in
         /\ alpha # Level(in) => Begun(in) \in fades' /\ shown' = shown
         /\ alpha = Level(in) => shown' = (shown /\ in)
<1>1. fades' = Old \/ fades' = Old \cup {Begun(in)}
  BY DEF FadeTo, Old, Begun
<1>2. /\ alpha # Level(in) => fades' = Old \cup {Begun(in)} /\ shown' = shown
      /\ alpha = Level(in) => shown' = (shown /\ in)
  BY DEF FadeTo, Old, Begun
<1>3. Old \subseteq Fade /\ \A g \in Old : ~g.newest /\ \E f \in fades : g.at = f.at /\ g.in = f.in
  BY OldFades DEF FadeTypes
<1>4. \A f \in fades' : f.newest => f = Begun(in)
  BY <1>1, <1>3
<1>5. fades' \subseteq Fade
  BY <1>1, <1>3, BegunFade
<1> QED
  BY <1>1, <1>2, <1>3, <1>4, <1>5 DEF FadeTypes

\* Every step keeps the types of the fades.
LEMMA StepFades == FadeTypes /\ [Next]_vars => FadeTypes'
<1> SUFFICES ASSUME FadeTypes, [Next]_vars PROVE FadeTypes'
  OBVIOUS
<1>1. CASE fades' \subseteq fades
  BY <1>1 DEF FadeTypes
<1>2. ASSUME NEW c \in Callers, CallStep(c) PROVE FadeTypes'
  <2>1. CASE FadeIn(c) \/ FadeOut(c)
    BY <2>1, FadedTo DEF FadeIn, FadeOut
  <2>2. CASE Clear(c) \/ Stamp(c) \/ PostHome(c) \/ Reveal(c)
    BY <1>1, <2>2 DEF Clear, Stamp, PostHome, Reveal
  <2> QED
    BY <1>2, <2>1, <2>2 DEF CallStep
<1>3. ASSUME NEW f \in fades, FadeStep(f) \/ FadePaints(f) \/ FadeChecks(f) \/ FadeHides(f)
      PROVE  FadeTypes'
  <2>1. fades' \subseteq fades \/ \E g : Next1(f, g) /\ fades' = (fades \ {f}) \cup {g}
    BY <1>3, FadeStepped, FadePainted, FadeChecked DEF FadeTypes, FadeHides, Replace
  <2> QED
    BY <1>1, <2>1, ReplacedFade DEF FadeTypes
<1>4. CASE Watch \/ Frame \/ Press \/ Toggle \/ Open \/ SetHandle \/ Ages \/ Lapse \/ Foreground
             \/ UNCHANGED vars
  BY <1>1, <1>4 DEF Watch, WatchTick, WatchWaits, WatchCloses, Frame, Draw, Move, Dismiss, Press,
                    Toggle, Open, SetHandle, Ages, Lapse, Foreground, vars
<1> QED
  BY <1>2, <1>3, <1>4 DEF Next, AFade

\* Every step keeps the types of the rest.
LEMMA StepRest == RestTypes /\ ScreenTypes /\ [Next]_vars => RestTypes'
<1> SUFFICES ASSUME RestTypes, ScreenTypes, [Next]_vars PROVE RestTypes'
  OBVIOUS
<1> USE DEF history, Begins, Crosses
<1>1. CASE UNCHANGED <<watch, age, home, pages, press, held>>
  BY <1>1 DEF RestTypes, pages
<1>2. ASSUME watch' \in Watcher, UNCHANGED <<age, home, pages, press, held>> PROVE RestTypes'
  BY <1>2 DEF RestTypes, pages
<1>3. ASSUME NEW c \in Callers, CallStep(c) PROVE RestTypes'
  <2>1. CASE Clear(c) \/ FadeIn(c) \/ FadeOut(c)
    BY <1>1, <2>1 DEF Clear, FadeIn, FadeOut
  <2>2. CASE Stamp(c)
    <3>1. watch' \in Watcher
      BY <2>2 DEF Stamp, RestTypes, Watcher
    <3> QED
      BY <2>2, <3>1 DEF Stamp, RestTypes, pages
  <2>3. CASE PostHome(c)
    BY <2>3 DEF PostHome, RestTypes, pages
  <2>4. CASE Reveal(c)
    <3>1. held' \in BOOLEAN
      BY <2>4 DEF Reveal, RestTypes
    <3> QED
      BY <2>4, <3>1 DEF Reveal, RestTypes, pages
  <2> QED
    BY <1>3, <2>1, <2>2, <2>3, <2>4 DEF CallStep
<1>4. CASE AFade \/ Lapse \/ UNCHANGED vars
  BY <1>1, <1>4 DEF AFade, FadeStep, FadePaints, FadeChecks, FadeHides, Lapse, vars
<1>5. CASE WatchTick
  <2>1. watch' \in Watcher
    BY <1>5 DEF WatchTick, RestTypes, Watcher
  <2> QED
    BY <1>2, <1>5, <2>1 DEF WatchTick
<1>6. CASE WatchWaits
  <2>1. watch' \in Watcher
    BY <1>6 DEF WatchWaits, RestTypes, Watcher
  <2> QED
    BY <1>2, <1>6, <2>1 DEF WatchWaits
<1>7. CASE WatchCloses
  <2>1. watch' \in Watcher
    BY <1>7 DEF WatchCloses, RestTypes, Watcher
  <2> QED
    BY <1>2, <1>7, <2>1 DEF WatchCloses
<1>8. CASE Draw
  BY <1>8 DEF Draw, RestTypes
<1>9. CASE Move
  BY <1>9 DEF Move, RestTypes
<1>10. CASE Dismiss
  <2>1. earlier' \in BOOLEAN /\ page' \in {"main", "form", "question"} /\ home' \in BOOLEAN
    BY <1>10 DEF Dismiss, RestTypes
  <2> QED
    BY <1>10, <2>1 DEF Dismiss, RestTypes
<1>11. CASE Press
  <2>1. press' \in {"none", "open", "closed"}
    BY <1>11 DEF Press
  <2> QED
    BY <1>11, <2>1 DEF Press, RestTypes, pages
<1>12. CASE Toggle
  <2>1. earlier' \in BOOLEAN /\ press' \in {"none", "open", "closed"} /\ held' = held
    BY <1>12 DEF Toggle, RestTypes
  <2> QED
    BY <1>12, <2>1 DEF Toggle, RestTypes
<1>13. CASE Open
  <2>1. earlier' \in BOOLEAN
    BY <1>13 DEF Open
  <2> QED
    BY <1>13, <2>1 DEF Open, RestTypes
<1>14. CASE SetHandle
  <2>1. watch' \in Watcher
    BY <1>14 DEF SetHandle, RestTypes, Watcher
  <2> QED
    BY <1>2, <1>14, <2>1 DEF SetHandle
<1>15. CASE Ages
  <2>1. age' \in {"new", "settled", "old"}
    BY <1>15 DEF Ages
  <2> QED
    BY <1>15, <2>1 DEF Ages, RestTypes, pages
<1>16. CASE Foreground
  <2>1. held' \in BOOLEAN
    BY <1>16 DEF Foreground, RestTypes
  <2> QED
    BY <1>16, <2>1 DEF Foreground, RestTypes, pages
<1> QED
  BY <1>3, <1>4, <1>5, <1>6, <1>7, <1>8, <1>9, <1>10, <1>11, <1>12, <1>13, <1>14, <1>15, <1>16
     DEF Next, Watch, Frame

\* The types hold when Gio has made the window.
LEMMA InitTypes == Init => Types
<1> SUFFICES ASSUME Init PROVE Types
  OBVIOUS
<1>1. CallTypes /\ FadeTypes
  BY DEF Init, CallTypes, FadeTypes, Places
<1>2. ScreenTypes
  <2>1. alpha \in Levels /\ opacity \in Levels
    BY DEF Init, Levels
  <2> QED
    BY <2>1 DEF Init, ScreenTypes
<1>3. RestTypes
  <2>1. watch \in Watcher
    BY DEF Init, Watcher
  <2> QED
    BY <2>1 DEF Init, RestTypes
<1> QED
  BY <1>1, <1>2, <1>3, FourTypes

\* Every step keeps the types.
LEMMA StepTypes == Types /\ [Next]_vars => Types'
<1> SUFFICES ASSUME Types, [Next]_vars PROVE Types'
  OBVIOUS
<1>1. CallTypes /\ ScreenTypes /\ FadeTypes /\ RestTypes
  BY FourTypes
<1>2. CallTypes' /\ ScreenTypes' /\ FadeTypes' /\ RestTypes'
  BY <1>1, StepCalls, StepScreen, StepFades, StepRest
<1>3. watch'.at \in {"off", "tick", "look"}
  BY <1>2 DEF RestTypes, Watcher
<1> QED
  BY <1>2, <1>3 DEF Types, TypeOK, CallTypes, ScreenTypes, FadeTypes, RestTypes

-----------------------------------------------------------------------------
(* What holds however the calls overlap.                                   *)

\* A click that began while the panel was open finds it open, or just closed.
ClickKnows == press = "open" => visible \/ recent

\* Every step keeps what the click knows.
LEMMA StepClick == Types /\ ClickKnows /\ [Next]_vars => ClickKnows'
<1> SUFFICES ASSUME Types, ClickKnows, [Next]_vars PROVE ClickKnows'
  OBVIOUS
<1>1. CASE UNCHANGED <<visible, recent, press>>
  BY <1>1 DEF ClickKnows
<1>2. ASSUME NEW c \in Callers, CallStep(c) PROVE ClickKnows'
  BY <1>1, <1>2 DEF CallStep, Clear, Stamp, PostHome, Reveal, FadeIn, FadeOut, flags
<1>3. CASE AFade \/ WatchTick \/ WatchWaits \/ Draw \/ Move \/ Ages \/ Foreground \/ UNCHANGED vars
  BY <1>1, <1>3 DEF AFade, FadeStep, FadePaints, FadeChecks, FadeHides, WatchTick, WatchWaits,
                    Draw, Move, Ages, Foreground, flags, vars
<1>4. CASE WatchCloses
  BY <1>4 DEF WatchCloses, ClickKnows
<1>5. CASE Dismiss \/ Open \/ SetHandle \/ Lapse
  BY <1>5 DEF Dismiss, Open, SetHandle, Lapse, Ready, ClickKnows
<1>6. CASE Press
  BY <1>6 DEF Press, ClickKnows, flags
<1>7. CASE Toggle
  BY <1>7 DEF Toggle, ClickKnows
<1> QED
  BY <1>2, <1>3, <1>4, <1>5, <1>6, <1>7 DEF Next, Watch, Frame

\* Only Toggle ends a click.
LEMMA ClickEnds ==
  ASSUME Types, ClickKnows, [Next]_vars, press = "open", press' = "none"
  PROVE  ~visible'
<1>1. Toggle
  BY DEF Next, CallStep, Clear, Stamp, PostHome, Reveal, FadeIn, FadeOut, AFade, FadeStep,
         FadePaints, FadeChecks, FadeHides, Watch, WatchTick, WatchWaits, WatchCloses, Frame, Draw,
         Move, Dismiss, Press, Open, SetHandle, Ages, Lapse, Foreground, Ready, vars
<1>2. visible \in BOOLEAN
  BY DEF Types, TypeOK
<1> QED
  BY <1>1, <1>2 DEF Toggle, ClickKnows

\* Until a caller has posted that the panel goes home, the page may be one of an
\* earlier opening; the watcher, which never opens the panel, is not that caller.
HomeComes ==
  /\ call["watch"] \in {"idle", "hide"}
  /\ earlier /\ ~home => \E c \in Callers : call[c] \in {"clear", "stamp", "home"}

\* Every step keeps the panel on its way home, if the channel takes the post.
LEMMA StepHome ==
  ASSUME "full" \notin Env
  PROVE  Types /\ HomeComes /\ [Next]_vars => HomeComes'
<1> SUFFICES ASSUME Types, HomeComes, [Next]_vars PROVE HomeComes'
  OBVIOUS
<1>a. call \in [Callers -> Places] /\ "watch" \in Callers /\ "tray" \in Callers /\ "menu" \in Callers
  BY DEF Types, TypeOK, Callers
<1>1. CASE UNCHANGED <<call, home, earlier>>
  BY <1>1 DEF HomeComes
<1>2. ASSUME NEW c \in Callers, CallStep(c) PROVE HomeComes'
  <2>1. CASE PostHome(c)
    <3>1. home' = TRUE /\ call' = [call EXCEPT ![c] = "reveal"] /\ call[c] = "home"
      BY <2>1 DEF PostHome, Goto
    <3>2. c # "watch"
      BY <3>1 DEF HomeComes
    <3> QED
      BY <1>a, <3>1, <3>2 DEF HomeComes
  <2>2. CASE Clear(c) \/ Stamp(c)
    <3>1. /\ call[c] \in {"clear", "stamp"} /\ UNCHANGED <<home, earlier>>
          /\ call' = [call EXCEPT ![c] = "stamp"] \/ call' = [call EXCEPT ![c] = "home"]
      BY <2>2 DEF Clear, Stamp, Goto, pages
    <3>2. c # "watch"
      BY <3>1 DEF HomeComes
    <3>3. call'[c] \in {"stamp", "home"} /\ call'["watch"] = call["watch"]
      BY <1>a, <3>1, <3>2
    <3> QED
      BY <3>1, <3>3 DEF HomeComes
  <2>3. CASE Reveal(c) \/ FadeIn(c) \/ FadeOut(c)
    <3>1. /\ call[c] \in {"reveal", "fade", "hide"} /\ UNCHANGED <<home, earlier>>
          /\ \/ call[c] = "reveal" /\ call' = [call EXCEPT ![c] = "fade"]
             \/ call' = [call EXCEPT ![c] = "idle"]
      BY <2>3 DEF Reveal, FadeIn, FadeOut, Goto, pages
    <3>2. call'["watch"] \in {"idle", "hide"}
      <4>1. call[c] = "reveal" => c # "watch"
        BY DEF HomeComes
      <4> QED
        BY <1>a, <3>1, <4>1 DEF HomeComes
    <3>3. \A d \in Callers : call[d] \in {"clear", "stamp", "home"} => call'[d] = call[d]
      BY <1>a, <3>1
    <3> QED
      BY <3>1, <3>2, <3>3 DEF HomeComes
  <2> QED
    BY <1>2, <2>1, <2>2, <2>3 DEF CallStep
<1>3. CASE AFade \/ WatchTick \/ WatchWaits \/ Press \/ SetHandle \/ Ages \/ Lapse \/ Foreground
             \/ UNCHANGED vars
  BY <1>1, <1>3 DEF AFade, FadeStep, FadePaints, FadeChecks, FadeHides, WatchTick, WatchWaits,
                    Press, SetHandle, Ages, Lapse, Foreground, pages, vars
<1>4. ASSUME NEW c \in Callers, call[c] \in {"idle", "hide"}, Goto(c, "hide"),
             earlier' => earlier /\ home' = home
      PROVE  HomeComes'
  <2>1. call'["watch"] \in {"idle", "hide"}
    BY <1>a, <1>4 DEF Goto, HomeComes
  <2>2. \A d \in Callers : call[d] \in {"clear", "stamp", "home"} => call'[d] = call[d]
    BY <1>a, <1>4 DEF Goto
  <2> QED
    BY <1>4, <2>1, <2>2 DEF HomeComes
<1>5. ASSUME NEW c \in {"tray", "menu"}, Goto(c, "clear") PROVE HomeComes'
  <2>1. call'[c] = "clear" /\ c \in Callers /\ call'["watch"] = call["watch"]
    BY <1>a, <1>5 DEF Goto
  <2> QED
    BY <2>1 DEF HomeComes
<1>6. CASE WatchCloses
  BY <1>a, <1>4, <1>6 DEF WatchCloses, HomeComes, pages
<1>7. CASE Draw \/ Move
  BY <1>7 DEF Draw, Move, HomeComes
<1>8. CASE Dismiss
  <2>1. "gio" \in Callers /\ call["gio"] = "idle" /\ Goto("gio", "hide")
    BY <1>8 DEF Dismiss, Ready, Callers
  <2>2. earlier' => earlier /\ home' = home
    BY <1>8 DEF Dismiss, Types
  <2> QED
    BY <1>4, <2>1, <2>2
<1>9. CASE Toggle
  <2>1. CASE ~visible /\ recent
    <3>1. UNCHANGED <<visible, call, home>> /\ ~visible
      BY <1>9, <2>1 DEF Toggle
    <3>2. earlier' = earlier
      BY <1>9, <3>1 DEF Toggle
    <3> QED
      BY <1>1, <3>1, <3>2
  <2>2. CASE ~(~visible /\ recent) /\ visible
    <3>1. ~visible' /\ Goto("tray", "hide") /\ home' = home /\ call["tray"] = "idle"
      BY <1>9, <2>2 DEF Toggle
    <3>2. earlier' = earlier
      BY <1>9, <3>1 DEF Toggle
    <3> QED
      BY <1>a, <1>4, <3>1, <3>2
  <2>3. CASE ~(~visible /\ recent) /\ ~visible
    BY <1>5, <1>9, <2>3 DEF Toggle
  <2> QED
    BY <2>1, <2>2, <2>3
<1>10. CASE Open
  BY <1>5, <1>10 DEF Open
<1> QED
  BY <1>2, <1>3, <1>6, <1>7, <1>8, <1>9, <1>10 DEF Next, Watch, Frame

\* Every step keeps what the watcher remembers true of this showing.
LEMMA StepFocus == Types /\ FocusFits /\ [Next]_vars => FocusFits'
<1> SUFFICES ASSUME Types, FocusFits, [Next]_vars PROVE FocusFits'
  OBVIOUS
<1>a. watch \in Watcher
  BY FourTypes DEF RestTypes
<1>1. ASSUME UNCHANGED <<watch, held>>, fg' = "panel" => fg = "panel" PROVE FocusFits'
  BY <1>1 DEF FocusFits
<1>2. ASSUME NEW c \in Callers, CallStep(c) PROVE FocusFits'
  <2>1. CASE Clear(c) \/ PostHome(c)
    BY <1>1, <2>1 DEF Clear, PostHome, screen, history
  <2>2. CASE Stamp(c)
    <3>1. watch'.read = FALSE /\ watch'.met = FALSE
      BY <1>a, <2>2 DEF Stamp, Watcher
    <3>2. held' = (fg = "panel") /\ fg' = fg
      BY <2>2 DEF Stamp, screen
    <3> QED
      BY <3>1, <3>2 DEF FocusFits
  <2>3. CASE Reveal(c)
    <3>1. watch' = watch /\ held' = (held \/ fg' = "panel")
      BY <2>3 DEF Reveal
    <3> QED
      BY <3>1 DEF FocusFits
  <2>4. CASE FadeIn(c) \/ FadeOut(c)
    BY <1>1, <2>4 DEF FadeIn, FadeOut, history
  <2> QED
    BY <1>2, <2>1, <2>2, <2>3, <2>4 DEF CallStep
<1>3. CASE AFade
  BY <1>1, <1>3 DEF AFade, FadeStep, FadePaints, FadeChecks, FadeHides, Crosses, screen, history
<1>4. CASE WatchTick
  <2>1. UNCHANGED <<fg, held>>
    BY <1>4 DEF WatchTick, screen, history
  <2>2. /\ watch'.read => watch'.met
        /\ watch'.hadFocus /\ watch'.met => watch.hadFocus /\ watch.met
    BY <1>4, <1>a DEF WatchTick, Watcher, FocusFits
  <2> QED
    BY <2>1, <2>2 DEF FocusFits
<1>5. CASE WatchWaits
  <2>1. UNCHANGED <<fg, held>>
    BY <1>5 DEF WatchWaits, screen, history
  <2>2. ~watch'.read /\ watch'.met = watch.met /\ (watch'.hadFocus => watch.hadFocus \/ fg = "panel")
    BY <1>5, <1>a DEF WatchWaits, Watcher
  <2> QED
    BY <2>1, <2>2 DEF FocusFits
<1>6. CASE WatchCloses
  <2>1. UNCHANGED <<fg, held>>
    BY <1>6 DEF WatchCloses, Begins, screen
  <2>2. ~watch'.read /\ watch'.met = watch.met /\ watch'.hadFocus = watch.hadFocus
    BY <1>6, <1>a DEF WatchCloses, Watcher
  <2> QED
    BY <2>1, <2>2 DEF FocusFits
<1>7. CASE Toggle \/ Open \/ Dismiss
  BY <1>1, <1>7 DEF Toggle, Open, Dismiss, Begins, screen, history
<1>8. CASE SetHandle
  <2>1. fg' = "other" /\ held' = held
    BY <1>8 DEF SetHandle, Crosses
  <2>2. watch'.read = watch.read /\ watch'.met = watch.met /\ watch'.hadFocus = watch.hadFocus
    BY <1>8, <1>a DEF SetHandle, Watcher
  <2> QED
    BY <2>1, <2>2 DEF FocusFits
<1>9. CASE Press \/ Draw \/ Move \/ Ages \/ Lapse \/ UNCHANGED vars
  BY <1>1, <1>9 DEF Press, Draw, Move, Ages, Lapse, screen, history, vars
<1>10. CASE Foreground
  <2>1. watch' = watch /\ held' = (held \/ fg' = "panel")
    BY <1>10 DEF Foreground
  <2> QED
    BY <2>1 DEF FocusFits
<1> QED
  BY <1>2, <1>3, <1>4, <1>5, <1>6, <1>7, <1>8, <1>9, <1>10 DEF Next, Watch, Frame

-----------------------------------------------------------------------------
(* Calls that do not cross.                                                *)

\* A step that leaves nothing crossed came when nothing was, or is that of a call
\* that begins alone; a fade goes on, and the window is told of, only when nobody
\* is in the middle of anything.
LEMMA Uncrossed ==
  ASSUME ~crossed'
  PROVE  (Begins => Still) /\ (Crosses => ~crossed /\ Still)
BY DEF Begins, Crosses

\* The one caller that moves is the only one.
LEMMA CallAlone ==
  ASSUME Types, OneActor, NEW c \in Callers, CallStep(c)
  PROVE  /\ call[c] # "idle" /\ crossed' = crossed /\ \A f \in fades : ~InFade(f)
         /\ \A d \in Callers \ {c} : call[d] = "idle" /\ call'[d] = "idle"
         /\ call'[c] = CASE call[c] = "clear" -> "stamp"
                         [] call[c] = "stamp" -> "home"
                         [] call[c] = "home" -> "reveal"
                         [] call[c] = "reveal" -> "fade"
                         [] call[c] \in {"fade", "hide"} -> "idle"
<1>1. call \in [Callers -> Places]
  BY DEF Types, TypeOK
<1>2. call[c] # "idle"
  BY DEF CallStep, Clear, Stamp, PostHome, Reveal, FadeIn, FadeOut
<1>3. \A d \in Callers \ {c} : call[d] = "idle"
  BY <1>2 DEF OneActor
<1>4. \A d \in Callers \ {c} : call'[d] = call[d]
  BY <1>1 DEF CallStep, Clear, Stamp, PostHome, Reveal, FadeIn, FadeOut, Goto
<1>5. /\ call[c] = "clear" => call'[c] = "stamp"
      /\ call[c] = "stamp" => call'[c] = "home"
      /\ call[c] = "home" => call'[c] = "reveal"
      /\ call[c] = "reveal" => call'[c] = "fade"
      /\ call[c] \in {"fade", "hide"} => call'[c] = "idle"
      /\ call[c] \in {"clear", "stamp", "home", "reveal", "fade", "hide"}
  BY <1>1 DEF CallStep, Clear, Stamp, PostHome, Reveal, FadeIn, FadeOut, Goto
<1> QED
  BY <1>2, <1>3, <1>4, <1>5 DEF OneActor, AllIdle, CallStep, Clear, Stamp, PostHome, Reveal, FadeIn,
     FadeOut, history

\* A caller that begins when all are idle is the only one.
LEMMA BeginsAlone ==
  ASSUME Types, AllIdle, NEW c \in Callers, NEW place \in Places, Goto(c, place)
  PROVE  call'[c] = place /\ \A d \in Callers \ {c} : call'[d] = "idle"
BY DEF Types, TypeOK, Goto, AllIdle

\* The fades that FadeTo leaves are not in the middle of a step.
LEMMA FadesRest ==
  ASSUME Types, NEW in \in BOOLEAN, FadeTo(in), \A f \in fades : ~InFade(f)
  PROVE  \A f \in fades' : ~InFade(f)
<1>1. \A f \in fades' : f = Begun(in) \/ \E g \in fades : f.at = g.at
  BY FadedTo, FourTypes
<1> QED
  BY <1>1, BegunFade DEF InFade

\* Every step keeps the actors apart.
LEMMA StepActor ==
  Types /\ (crossed \/ OneActor) /\ [Next]_vars => crossed' \/ OneActor'
<1> SUFFICES ASSUME Types, crossed \/ OneActor, [Next]_vars, ~crossed' PROVE OneActor'
  OBVIOUS
<1>a. FadeTypes /\ {"idle", "hide", "clear"} \subseteq Places
  BY FourTypes DEF Places
<1>1. ASSUME UNCHANGED <<call, fades>>, crossed' = crossed \/ Crosses PROVE OneActor'
  BY <1>1, Uncrossed DEF OneActor, AllIdle, InFade
<1>2. ASSUME NEW c \in Callers, CallStep(c) PROVE OneActor'
  <2>1. OneActor
    BY <1>2 DEF CallStep, Clear, Stamp, PostHome, Reveal, FadeIn, FadeOut, history
  <2>2. \A f \in fades' : ~InFade(f)
    <3>1. CASE FadeIn(c) \/ FadeOut(c)
      BY <1>2, <2>1, <3>1, CallAlone, FadesRest DEF FadeIn, FadeOut
    <3>2. CASE Clear(c) \/ Stamp(c) \/ PostHome(c) \/ Reveal(c)
      BY <1>2, <2>1, <3>2, CallAlone DEF Clear, Stamp, PostHome, Reveal
    <3> QED
      BY <1>2, <3>1, <3>2 DEF CallStep
  <2> QED
    BY <1>2, <2>1, <2>2, CallAlone DEF OneActor
<1>3. ASSUME NEW f \in fades, FadeStep(f) \/ FadePaints(f) \/ FadeChecks(f) \/ FadeHides(f)
      PROVE  OneActor'
  <2>1. call' = call
    BY <1>3 DEF FadeStep, FadePaints, FadeChecks, FadeHides
  <2>2. CASE FadeStep(f) \/ FadeChecks(f)
    <3>1. AllIdle /\ \A g \in fades : ~InFade(g)
      BY <2>2, Uncrossed DEF FadeStep, FadeChecks, Still
    <3>2. \A g \in fades' : InFade(g) => g.newest
      BY <1>a, <2>2, <3>1, FadeStepped, FadeChecked DEF Next1, FadeTypes
    <3> QED
      BY <2>1, <3>1, <3>2 DEF OneActor, AllIdle
  <2>3. CASE FadePaints(f) \/ FadeHides(f)
    <3>1. InFade(f) /\ OneActor
      BY <2>3 DEF FadePaints, FadeHides, InFade, history
    <3>2. \A g \in fades : InFade(g) => g = f
      BY <1>a, <3>1 DEF OneActor, FadeTypes
    <3>3. \A g \in fades' : ~InFade(g)
      BY <1>a, <2>3, <3>2, FadePainted DEF FadeTypes, FadeHides, Replace, InFade
    <3> QED
      BY <2>1, <3>1, <3>3 DEF OneActor, AllIdle
  <2> QED
    BY <1>3, <2>2, <2>3
<1>4. ASSUME NEW c \in Callers, NEW place \in Places, Goto(c, place), fades' = fades, Begins
      PROVE  OneActor'
  BY <1>4, Uncrossed, BeginsAlone DEF OneActor, Still, AllIdle, InFade
<1>5. CASE WatchCloses \/ Dismiss \/ Open
  <2>1. Begins /\ fades' = fades
    BY <1>5 DEF WatchCloses, Dismiss, Open
  <2>2. Goto("watch", "hide") \/ Goto("gio", "hide") \/ Goto("menu", "clear")
    BY <1>5 DEF WatchCloses, Dismiss, Open
  <2> QED
    BY <1>a, <1>4, <2>1, <2>2 DEF Callers
<1>6. CASE Toggle
  <2>1. CASE ~visible /\ recent
    BY <1>1, <1>6, <2>1 DEF Toggle, history
  <2>2. CASE ~(~visible /\ recent)
    <3>1. Begins /\ fades' = fades /\ (Goto("tray", "hide") \/ Goto("tray", "clear"))
      BY <1>6, <2>2 DEF Toggle
    <3> QED
      BY <1>a, <1>4, <3>1 DEF Callers
  <2> QED
    BY <2>1, <2>2
<1>7. CASE WatchTick \/ WatchWaits \/ SetHandle \/ Draw \/ Move \/ Press \/ Ages \/ Lapse
             \/ Foreground \/ UNCHANGED vars
  BY <1>1, <1>7 DEF WatchTick, WatchWaits, SetHandle, Draw, Move, Press, Ages, Lapse, Foreground,
                    history, vars
<1> QED
  BY <1>2, <1>3, <1>5, <1>6, <1>7 DEF Next, AFade, Watch, Frame

\* Nothing is called before the window is known.
LEMMA StepNotYet == Types /\ NotYet /\ [Next]_vars => NotYet'
<1> SUFFICES ASSUME Types, NotYet, [Next]_vars PROVE NotYet'
  OBVIOUS
<1>1. CASE hwnd
  <2>1. hwnd'
    BY <1>1 DEF Next, CallStep, Clear, Stamp, PostHome, Reveal, FadeIn, FadeOut, AFade, FadeStep,
         FadePaints, FadeChecks, FadeHides, Watch, WatchTick, WatchWaits, WatchCloses, Frame, Draw,
         Move, Dismiss, Press, Toggle, Open, SetHandle, Ages, Lapse, Foreground, flags, vars
  <2> QED
    BY <2>1 DEF NotYet
<1>2. CASE ~hwnd
  <2>1. fades = {} /\ AllIdle /\ ~visible /\ watch.at = "off" /\ press = "none"
    BY <1>2 DEF NotYet
  <2>2. \A c \in Callers : ~CallStep(c)
    BY <2>1 DEF AllIdle, CallStep, Clear, Stamp, PostHome, Reveal, FadeIn, FadeOut
  <2>3. ~AFade /\ ~Watch /\ ~Dismiss /\ ~Press /\ ~Toggle /\ ~Open
    BY <1>2, <2>1 DEF AFade, Watch, WatchTick, WatchWaits, WatchCloses, Dismiss, Press, Toggle, Open,
                      Ready
  <2>4. CASE SetHandle
    BY <2>4 DEF SetHandle, NotYet
  <2>5. CASE Draw \/ Move \/ Ages \/ Lapse \/ Foreground \/ UNCHANGED vars
    <3>1. UNCHANGED <<fades, call, visible, watch, press>>
      BY <2>5 DEF Draw, Move, Ages, Lapse, Foreground, flags, vars
    <3> QED
      BY <2>1, <3>1 DEF NotYet, AllIdle
  <2> QED
    BY <2>2, <2>3, <2>4, <2>5 DEF Next, Frame
<1> QED
  BY <1>1, <1>2

\* Every step keeps the calls fit for what was asked.
LEMMA StepCallsFit ==
  Types /\ (crossed \/ (OneActor /\ CallsFit)) /\ [Next]_vars => crossed' \/ CallsFit'
<1> SUFFICES ASSUME Types, crossed \/ (OneActor /\ CallsFit), [Next]_vars, ~crossed'
             PROVE  CallsFit'
  OBVIOUS
<1>a. {"idle", "hide", "clear"} \subseteq Places /\ call \in [Callers -> Places]
  BY FourTypes DEF Places, CallTypes
<1>1. CASE UNCHANGED <<call, visible, alpha, shown>> /\ crossed' = crossed
  BY <1>1 DEF CallsFit
<1>2. CASE AllIdle /\ call' = call
  BY <1>2 DEF CallsFit, AllIdle
<1>3. ASSUME NEW c \in Callers, CallStep(c) PROVE CallsFit'
  <2>0. OneActor /\ CallsFit
    BY <1>3 DEF CallStep, Clear, Stamp, PostHome, Reveal, FadeIn, FadeOut, history
  <2>1. \A d \in Callers \ {c} : call'[d] = "idle"
    BY <1>3, <2>0, CallAlone
  <2>2. CASE Clear(c)
    <3>1. call[c] = "clear" /\ call'[c] = "stamp" /\ visible' = visible
      BY <2>2, <1>3, <1>a DEF Clear, Goto, flags
    <3> QED
      BY <2>0, <2>1, <3>1 DEF CallsFit
  <2>3. CASE Stamp(c)
    <3>1. call[c] = "stamp" /\ call'[c] = "home" /\ visible' = visible /\ alpha' = "clear"
      BY <2>3, <1>3, <1>a DEF Stamp, Goto
    <3> QED
      BY <2>0, <2>1, <3>1 DEF CallsFit
  <2>4. CASE PostHome(c)
    <3>1. call[c] = "home" /\ call'[c] = "reveal" /\ UNCHANGED <<visible, alpha>>
      BY <2>4, <1>3, <1>a DEF PostHome, Goto, flags
    <3> QED
      BY <2>0, <2>1, <3>1 DEF CallsFit
  <2>5. CASE Reveal(c)
    <3>1. call[c] = "reveal" /\ call'[c] = "fade" /\ UNCHANGED <<visible, alpha>> /\ shown'
      BY <2>5, <1>3, <1>a DEF Reveal, Goto, flags
    <3> QED
      BY <2>0, <2>1, <3>1 DEF CallsFit
  <2>6. CASE FadeIn(c) \/ FadeOut(c)
    <3>1. call'[c] = "idle"
      BY <2>6, <1>3, <1>a DEF FadeIn, FadeOut, Goto
    <3> QED
      BY <2>1, <3>1 DEF CallsFit
  <2> QED
    BY <1>3, <2>2, <2>3, <2>4, <2>5, <2>6 DEF CallStep
<1>4. ASSUME NEW f \in fades, FadeStep(f) \/ FadePaints(f) \/ FadeChecks(f) \/ FadeHides(f)
      PROVE  CallsFit'
  <2>1. CASE FadeStep(f) \/ FadeChecks(f)
    BY <1>2, <2>1, Uncrossed DEF FadeStep, FadeChecks, Still
  <2>2. CASE FadePaints(f) \/ FadeHides(f)
    BY <1>2, <2>2 DEF FadePaints, FadeHides, InFade, OneActor, history
  <2> QED
    BY <1>4, <2>1, <2>2
<1>5. CASE SetHandle
  BY <1>2, <1>5, Uncrossed DEF SetHandle, Still
<1>6. ASSUME NEW c \in Callers, Begins, Goto(c, "hide"), ~visible' PROVE CallsFit'
  <2>1. call'[c] = "hide" /\ \A d \in Callers \ {c} : call'[d] = "idle"
    BY <1>a, <1>6, Uncrossed, BeginsAlone DEF Still
  <2> QED
    BY <1>6, <2>1 DEF CallsFit
<1>7. ASSUME NEW c \in Callers, Begins, Goto(c, "clear"), visible' PROVE CallsFit'
  <2>1. call'[c] = "clear" /\ \A d \in Callers \ {c} : call'[d] = "idle"
    BY <1>a, <1>7, Uncrossed, BeginsAlone DEF Still
  <2> QED
    BY <1>7, <2>1 DEF CallsFit
<1>8. CASE WatchCloses \/ Dismiss \/ Open
  BY <1>6, <1>7, <1>8 DEF WatchCloses, Dismiss, Open, Callers
<1>9. CASE Toggle
  <2>1. CASE ~visible /\ recent
    BY <1>1, <1>9, <2>1 DEF Toggle, screen, history
  <2>2. CASE ~(~visible /\ recent)
    <3>1. visible' = ~visible /\ Begins /\ Goto("tray", IF visible THEN "hide" ELSE "clear")
      BY <1>9, <2>2 DEF Toggle
    <3> QED
      BY <1>6, <1>7, <3>1 DEF Callers
  <2> QED
    BY <2>1, <2>2
<1>10. CASE WatchTick \/ WatchWaits \/ Press \/ Draw \/ Move \/ Ages \/ Lapse \/ Foreground
              \/ UNCHANGED vars
  BY <1>1, <1>10 DEF WatchTick, WatchWaits, Press, Draw, Move, Ages, Lapse, Foreground, flags,
                     screen, history, vars
<1> QED
  BY <1>3, <1>4, <1>5, <1>8, <1>9, <1>10 DEF Next, AFade, Watch, Frame

\* Every step keeps the newest fade leading to what was asked.
LEMMA StepFadesFit ==
  Types /\ NotYet /\ (crossed \/ (OneActor /\ CallsFit /\ FadesFit)) /\ [Next]_vars
    => crossed' \/ FadesFit'
<1> DEFINE Fit == OneActor /\ CallsFit /\ FadesFit
<1> SUFFICES ASSUME Types, NotYet, crossed \/ Fit, [Next]_vars, ~crossed' PROVE FadesFit'
  OBVIOUS
<1>b. crossed' = crossed => Fit
  OBVIOUS
<1>c. Crosses => Fit /\ AllIdle
  BY Uncrossed DEF Still
<1>a. FadeTypes /\ call \in [Callers -> Places] /\ {"idle", "hide", "clear"} \subseteq Places
  BY FourTypes DEF CallTypes, Places
<1>1. CASE UNCHANGED <<hwnd, call, fades, visible, shown, opacity, crossed>>
  BY <1>1, <1>b DEF FadesFit, AllIdle, Newest
<1>2. ASSUME NEW c \in Callers, call'[c] # "idle", fades' = fades, Fit \/ Begins PROVE FadesFit'
  <2>1. \A f \in fades : f.at = "done" => ~f.in
    BY <1>2, Uncrossed DEF FadesFit, Still, InFade
  <2> QED
    BY <1>2, <2>1 DEF FadesFit, AllIdle
<1>3. ASSUME NEW c \in Callers, CallStep(c) PROVE FadesFit'
  <2>0. Fit
    BY <1>3, <1>b DEF CallStep, Clear, Stamp, PostHome, Reveal, FadeIn, FadeOut, history
  <2>1. CASE Clear(c) \/ Stamp(c) \/ PostHome(c) \/ Reveal(c)
    <3>1. call'[c] # "idle"
      BY <1>a, <2>1 DEF Clear, Stamp, PostHome, Reveal, Goto
    <3> QED
      BY <1>2, <2>0, <2>1, <3>1 DEF Clear, Stamp, PostHome, Reveal
  <2>2. ASSUME NEW in \in BOOLEAN, FadeTo(in) PROVE \A f \in fades' : f.at = "done" => ~f.in
    BY <1>a, <2>0, <2>2, FadedTo, BegunFade DEF FadesFit
  <2>3. CASE FadeIn(c)
    <3>1. visible' /\ alpha # Level(TRUE) /\ shown
      BY <2>0, <2>3 DEF FadeIn, CallsFit, Level
    <3>2. FadeTo(TRUE)
      BY <2>3 DEF FadeIn
    <3>3. Begun(TRUE) \in fades' /\ shown' /\ \A f \in fades' : f.newest => f = Begun(TRUE)
      BY <1>a, <3>1, <3>2, FadedTo
    <3>4. Begun(TRUE).newest /\ Begun(TRUE).in = TRUE /\ Begun(TRUE).at = "sleep"
      BY BegunFade
    <3> QED
      BY <2>2, <3>1, <3>2, <3>3, <3>4 DEF FadesFit, Newest
  <2>4. CASE FadeOut(c)
    <3>1. ~visible'
      BY <2>0, <2>4 DEF FadeOut, CallsFit
    <3>2. FadeTo(FALSE)
      BY <2>4 DEF FadeOut
    <3>3. /\ \A f \in fades' : f.newest => f = Begun(FALSE)
          /\ ~shown' \/ Begun(FALSE) \in fades'
      BY <1>a, <3>2, FadedTo
    <3>4. Begun(FALSE).newest /\ Begun(FALSE).in = FALSE
      BY BegunFade
    <3> QED
      BY <2>2, <3>1, <3>2, <3>3, <3>4 DEF FadesFit, Newest
  <2> QED
    BY <1>3, <2>1, <2>3, <2>4 DEF CallStep
<1>4. ASSUME NEW f \in fades, FadeStep(f) \/ FadePaints(f) \/ FadeChecks(f) \/ FadeHides(f)
      PROVE  FadesFit'
  <2>0. Fit
    BY <1>4, <1>b, <1>c DEF FadeStep, FadePaints, FadeChecks, FadeHides, history
  <2> HIDE DEF Fit
  <2>a. OneActor /\ CallsFit /\ FadesFit
    BY <2>0 DEF Fit
  <2>1. CASE FadeStep(f)
    <3>1. UNCHANGED <<hwnd, call, visible, shown, opacity>>
      BY <2>1 DEF FadeStep, screen
    <3>2. CASE ~f.newest /\ fades' = fades \ {f}
      BY <2>a, <3>1, <3>2 DEF FadesFit, AllIdle, Newest
    <3>3. ASSUME NEW g, Next1(f, g), g.at = "paint", fades' = (fades \ {f}) \cup {g} PROVE FadesFit'
      <4>1. Newest(TRUE)' = Newest(TRUE) /\ Newest(FALSE)' = Newest(FALSE)
        BY <3>3 DEF Newest, Next1
      <4> QED
        BY <2>a, <3>1, <3>3, <4>1 DEF FadesFit, AllIdle
    <3> QED
      BY <1>a, <2>1, <3>2, <3>3, FadeStepped DEF FadeTypes
  <2>2. CASE FadePaints(f)
    <3>1. UNCHANGED <<hwnd, call, visible, shown>>
      BY <2>2 DEF FadePaints, flags
    <3>2. f.newest /\ AllIdle
      BY <2>a, <2>2 DEF FadePaints, OneActor, InFade
    <3>3. ASSUME NEW g, Next1(f, g), g.at \in {"check", "sleep"}, fades' = (fades \ {f}) \cup {g},
                 g.at = "check" => opacity' = Level(f.in)
          PROVE  FadesFit'
      <4>1. Newest(TRUE)' = Newest(TRUE) /\ Newest(FALSE)' = Newest(FALSE)
        BY <3>3 DEF Newest, Next1
      <4>2. \A h \in fades' : h.newest => h = g
        BY <1>a, <3>2, <3>3 DEF FadeTypes
      <4>3. g.newest = f.newest /\ g.in = f.in
        BY <3>3 DEF Next1
      <4>4. hwnd /\ visible => f.in
        <5>1. hwnd /\ visible => ~Newest(FALSE)
          BY <2>a, <3>2 DEF FadesFit
        <5>2. f.in \in BOOLEAN
          BY <1>a DEF FadeTypes, Fade
        <5> QED
          BY <3>2, <5>1, <5>2 DEF Newest
      <4>5. f.in => Level(f.in) = "opaque"
        BY DEF Level
      <4>6. hwnd /\ visible => Newest(TRUE)'
        <5>1. f.in \in BOOLEAN
          BY <1>a DEF FadeTypes, Fade
        <5> QED
          BY <3>2, <4>1, <4>4, <5>1 DEF Newest
      <4> QED
        BY <2>a, <3>1, <3>2, <3>3, <4>1, <4>2, <4>3, <4>5, <4>6 DEF FadesFit, AllIdle
    <3> QED
      BY <1>a, <2>2, <3>3, FadePainted DEF FadeTypes
  <2>3. CASE FadeChecks(f)
    <3>1. UNCHANGED <<hwnd, call, visible, shown, opacity>> /\ f.at = "check"
      BY <2>3 DEF FadeChecks, flags, screen
    <3>2. CASE (~f.newest \/ f.in) /\ fades' = fades \ {f}
      <4>1. Newest(FALSE)' = Newest(FALSE)
        BY <3>2 DEF Newest
      <4>2. Newest(TRUE)' = Newest(TRUE) \/ (f.newest /\ f.in)
        BY <3>2 DEF Newest
      <4> QED
        BY <2>a, <3>1, <3>2, <4>1, <4>2 DEF FadesFit, AllIdle
    <3>3. ASSUME NEW g, Next1(f, g), ~f.in, g.at = "done", fades' = (fades \ {f}) \cup {g}
          PROVE  FadesFit'
      <4>1. Newest(TRUE)' = Newest(TRUE) /\ Newest(FALSE)' = Newest(FALSE)
        BY <3>3 DEF Newest, Next1
      <4> QED
        BY <2>a, <3>1, <3>3, <4>1 DEF FadesFit, AllIdle, Next1
    <3> QED
      BY <1>a, <2>3, <3>2, <3>3, FadeChecked DEF FadeTypes
  <2>4. CASE FadeHides(f)
    <3>1. UNCHANGED <<hwnd, call, visible, opacity>> /\ ~shown' /\ fades' = fades \ {f}
      BY <2>4 DEF FadeHides, flags, Replace
    <3>2. f.newest /\ ~f.in /\ AllIdle
      BY <2>a, <2>4 DEF FadeHides, FadesFit, OneActor, InFade
    <3>3. hwnd => ~visible
      <4>1. f.in = FALSE
        BY <1>a, <3>2 DEF FadeTypes, Fade
      <4> QED
        BY <2>a, <3>2, <4>1 DEF FadesFit, Newest
    <3> QED
      BY <2>a, <3>1, <3>2, <3>3 DEF FadesFit, AllIdle
  <2> QED
    BY <1>4, <2>1, <2>2, <2>3, <2>4
<1>5. CASE WatchTick \/ WatchWaits \/ Draw \/ Move \/ Press \/ Ages \/ Lapse \/ Foreground
             \/ UNCHANGED vars
  BY <1>1, <1>5 DEF WatchTick, WatchWaits, Draw, Move, Press, Ages, Lapse, Foreground, flags,
                    screen, history, vars
<1>6. CASE WatchCloses
  <2>1. "watch" \in Callers /\ call'["watch"] # "idle" /\ fades' = fades /\ Begins
    BY <1>a, <1>6 DEF WatchCloses, Goto, Callers
  <2> QED
    BY <1>2, <2>1
<1>7. CASE Dismiss
  <2>1. "gio" \in Callers /\ call'["gio"] # "idle" /\ fades' = fades /\ Begins
    BY <1>a, <1>7 DEF Dismiss, Goto, Callers
  <2> QED
    BY <1>2, <2>1
<1>8. CASE Open
  <2>1. "menu" \in Callers /\ call'["menu"] # "idle" /\ fades' = fades /\ Begins
    BY <1>a, <1>8 DEF Open, Goto, Callers
  <2> QED
    BY <1>2, <2>1
<1>9. CASE Toggle
  <2>1. CASE ~visible /\ recent
    BY <1>1, <1>9, <2>1 DEF Toggle, screen, history
  <2>2. CASE ~(~visible /\ recent)
    <3>1. "tray" \in Callers /\ call'["tray"] # "idle" /\ fades' = fades /\ Begins
      BY <1>a, <1>9, <2>2 DEF Toggle, Goto, Callers
    <3> QED
      BY <1>2, <3>1
  <2> QED
    BY <2>1, <2>2
<1>10. CASE SetHandle
  <2>1. ~visible' /\ ~shown' /\ UNCHANGED <<call, fades, opacity>>
    BY <1>10 DEF SetHandle
  <2>2. Fit /\ AllIdle
    BY <1>10, <1>c DEF SetHandle
  <2>3. hwnd \/ fades = {}
    BY DEF NotYet
  <2> QED
    BY <2>1, <2>2, <2>3 DEF FadesFit
<1> QED
  BY <1>3, <1>4, <1>5, <1>6, <1>7, <1>8, <1>9, <1>10 DEF Next, AFade, Watch, Frame

-----------------------------------------------------------------------------
(* The theorems.                                                           *)

\* The invariant holds when Gio has made the window.
LEMMA InitInv == Init => IInv /\ FocusFits /\ ClickKnows /\ HomeComes
<1> SUFFICES ASSUME Init PROVE IInv /\ FocusFits /\ ClickKnows /\ HomeComes
  OBVIOUS
<1>1. \A c \in Callers : call[c] = "idle"
  BY DEF Init
<1>2. /\ fades = {} /\ watch.at = "off" /\ ~watch.hadFocus /\ ~watch.read /\ fg = "other"
      /\ ~hwnd /\ ~visible /\ press = "none" /\ ~earlier
  BY DEF Init
<1>3. OneActor /\ NotYet /\ CallsFit
  BY <1>1, <1>2 DEF OneActor, NotYet, CallsFit, AllIdle
<1>4. FadesFit /\ FocusFits
  BY <1>1, <1>2 DEF FadesFit, FocusFits
<1>5. ClickKnows /\ HomeComes
  BY <1>1, <1>2 DEF ClickKnows, HomeComes, Callers
<1> QED
  BY <1>3, <1>4, <1>5, InitTypes DEF IInv

\* Every step keeps the invariant.
LEMMA StepInv == IInv /\ [Next]_vars => IInv'
<1> SUFFICES ASSUME IInv, [Next]_vars PROVE IInv'
  OBVIOUS
<1>1. Types /\ NotYet /\ (crossed \/ (OneActor /\ CallsFit /\ FadesFit))
  BY DEF IInv
<1>2. Types' /\ NotYet'
  BY <1>1, StepTypes, StepNotYet
<1>3. (crossed' \/ OneActor') /\ (crossed' \/ CallsFit') /\ (crossed' \/ FadesFit')
  BY <1>1, StepActor, StepCallsFit, StepFadesFit
<1> QED
  BY <1>2, <1>3 DEF IInv

\* Between a call that begins alone and one that does not, calls and fades keep
\* apart, what they still have to do fits what was asked, and the newest fade
\* leads there.
THEOREM WindowInvariant == Spec => []IInv
<1>1. Init => IInv
  BY InitInv
<1>2. IInv /\ [Next]_vars => IInv'
  BY StepInv
<1> QED
  BY <1>1, <1>2, PTL DEF Spec

\* Every variable keeps its type, at most one fade is the newest, and a window
\* that is not up does not have the foreground, however the calls overlap.
THEOREM WindowTypeCorrect == Spec => []TypeOK
<1>1. Init => Types
  BY InitTypes
<1>2. Types /\ [Next]_vars => Types'
  BY StepTypes
<1>3. Types => TypeOK
  BY DEF Types
<1> QED
  BY <1>1, <1>2, <1>3, PTL DEF Spec

\* A tray click that began while the panel was open never opens it again,
\* whichever of the four goroutines closes it before the click arrives, and
\* however their calls overlap.
THEOREM ClicksClose == Spec => ClickCloses
<1>1. Init => Types /\ ClickKnows
  BY InitTypes, InitInv
<1>2. Types /\ ClickKnows /\ [Next]_vars => (Types /\ ClickKnows)'
  BY StepTypes, StepClick
<1>3. Types /\ ClickKnows /\ [Next]_vars => [press = "open" /\ press' = "none" => ~visible']_vars
  BY ClickEnds
<1> QED
  BY <1>1, <1>2, <1>3, PTL DEF Spec, ClickCloses

\* A panel that is opened shows its main page, however the calls overlap, as
\* long as the channel takes what is posted.
THEOREM OpensHome ==
  ASSUME "full" \notin Env
  PROVE  Spec => []OpensAtHome
<1>1. Init => Types /\ HomeComes
  BY InitTypes, InitInv
<1>2. Types /\ HomeComes /\ [Next]_vars => (Types /\ HomeComes)'
  BY StepTypes, StepHome
<1>3. HomeComes => OpensAtHome
  BY DEF HomeComes, OpensAtHome
<1> QED
  BY <1>1, <1>2, <1>3, PTL DEF Spec

\* The watcher closes a panel that held the foreground in this showing, has long
\* been waiting for it, or was opened while it looked; no other, however often
\* the panel was opened, closed and left before (panel.go's watchFocus).
THEOREM GraceHolds == Spec => GraceIsGiven
<1> DEFINE Closes == call["watch"] = "idle" /\ call'["watch"] = "hide" /\ visible
<1> DEFINE A == Closes => held \/ age = "old" \/ ~watch.read
<1>1. ASSUME Types, FocusFits, Next, Closes PROVE held \/ age = "old" \/ ~watch.read
  <2>a. call \in [Callers -> Places] /\ "watch" \in Callers
    BY <1>1 DEF Types, TypeOK, Callers
  <2>1. ASSUME NEW c \in Callers, CallStep(c) PROVE FALSE
    <3>1. \E place \in {"stamp", "home", "reveal", "fade", "idle"} :
            call[c] # "idle" /\ call' = [call EXCEPT ![c] = place]
      BY <2>1 DEF CallStep, Clear, Stamp, PostHome, Reveal, FadeIn, FadeOut, Goto
    <3> QED
      BY <1>1, <2>a, <3>1
  <2>2. ~(Toggle \/ Dismiss \/ Open)
    <3>1. Toggle \/ Dismiss \/ Open =>
            call' = call \/ \E c \in Callers \ {"watch"}, place \in Places : Goto(c, place)
      BY DEF Toggle, Dismiss, Open, Callers, Places
    <3> QED
      BY <1>1, <2>a, <3>1 DEF Goto
  <2>3. WatchCloses
    BY <1>1, <2>1, <2>2 DEF Next, AFade, FadeStep, FadePaints, FadeChecks, FadeHides, Watch,
         WatchTick, WatchWaits, Frame, Draw, Move, Press, SetHandle, Ages, Lapse, Foreground
  <2>4. watch.read /\ watch.hadFocus => held
    BY <1>1 DEF FocusFits
  <2> QED
    BY <2>3, <2>4 DEF WatchCloses, SinceShow
<1>2. Init => Types /\ FocusFits
  BY InitTypes, InitInv
<1>3. Types /\ FocusFits /\ [Next]_vars => (Types /\ FocusFits)'
  BY StepTypes, StepFocus
<1>4. Types /\ FocusFits /\ [Next]_vars => [A]_vars
  BY <1>1
<1> QED
  BY <1>2, <1>3, <1>4, PTL DEF Spec, GraceIsGiven

\* When the calls have returned and their fades ended, the window is up exactly
\* if the panel takes it to be, and opaque, unless the last call to begin crossed
\* another or a fade: after any number of fades that later calls superseded, and
\* whatever calls that did cross have done before (panel.go's showPanel, hidePanel
\* and fadeTo).
THEOREM RestsWell == Spec => []RestsAsAsked
<1>1. IInv => RestsAsAsked
  <2> SUFFICES ASSUME IInv, Quiet, ~crossed PROVE shown = visible /\ (shown => opacity = "opaque")
    BY DEF RestsAsAsked
  <2>1. hwnd /\ AllIdle /\ ~Newest(TRUE) /\ ~Newest(FALSE)
    BY DEF Quiet, Newest
  <2>2. shown \in BOOLEAN /\ visible \in BOOLEAN
    BY DEF IInv, Types, TypeOK
  <2> QED
    BY <2>1, <2>2 DEF IInv, FadesFit
<1> QED
  BY <1>1, WindowInvariant, PTL
=============================================================================
