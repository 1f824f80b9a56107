------------------------------ MODULE Harness ------------------------------
(***************************************************************************)
(* The instruments of a session (traps.cpp): the watchdog, a thread that   *)
(* tells a stall from a slow frame and names the side that is stuck; the   *)
(* accounts of the [health] line of a long session; the counter of guest   *)
(* blocks that both read; and the soak driver, which clicks through the    *)
(* game's menus round and round.                                           *)
(*                                                                         *)
(* Time advances by ticks of a quarter of a second, the watchdog's poll.   *)
(* A sleep takes its time or up to Slack ticks more.  The counters are     *)
(* relaxed atomics; a look at one is a step.                               *)
(***************************************************************************)
EXTENDS Integers, Sequences

CONSTANTS
  Envs,        \* the settings (THEOC_*) that sessions are run with
  Slack,       \* how many ticks late a thread may wake
  Long,        \* ticks after which the model stops counting a silence
  Interval,    \* ticks between [health] lines
  FpsTicks,    \* ticks between [fps] lines
  MaxBlocks,   \* blocks executed between two [health] lines (bound)
  MaxUnder,    \* underruns in a session (bound)
  Cycles,      \* cycles of the menus that THEOC_SOAK asks for
  FirstTicks, Dwell, Settle, Patience,  \* the soak driver's times
  LoadTicks, OverlayTicks               \* how long the game takes at most

Off == 0   \* THEOC_WATCHDOG is not set

ASSUME HarnessConstants ==
  /\ Envs \subseteq [watchdog : Nat, longrun : BOOLEAN, fps : BOOLEAN, icall : BOOLEAN,
                     profile : BOOLEAN, soak : BOOLEAN, anyway : BOOLEAN]
  /\ {Slack, Long, Interval, FpsTicks, MaxBlocks, MaxUnder} \subseteq Nat
  /\ {Cycles, FirstTicks, Dwell, Settle, Patience, LoadTicks, OverlayTicks} \subseteq Nat
  /\ OverlayTicks <= Settle   \* the game's confirmation takes less than 1.5 s

VARIABLES
  env,     \* the settings, with the defaults that main() adds
  phase,   \* what main() is doing
  hooks,   \* how many block hooks count
  fresh,   \* present_seq_ has moved since the watchdog last looked
  silent,  \* history: ticks since the last frame, while there is a watchdog
  wd,      \* the watchdog's thread
  report,  \* history: its last report
  health,  \* the accounts of the [health] line
  truth,   \* history: what happened since the last [health] line
  soak,    \* the soak driver
  game     \* the game's menus

harnessVars == <<env, phase, hooks, fresh, silent, wd, report, health, truth, soak, game>>

Untouched ==
  << [begun |-> FALSE, blocks |-> 0, raw |-> 0, base |-> 0,
      mark |-> FALSE, age |-> 0, fps |-> 0],
     [blocks |-> 0, under |-> 0],
     [begun |-> FALSE, step |-> 1, clicked |-> FALSE, at |-> 0, frames |-> 0,
      before |-> "menu", age |-> 0, cycle |-> 0, done |-> FALSE],
     [screen |-> "menu", next |-> "menu", wait |-> 0, button |-> FALSE, hit |-> TRUE] >>

InitHarness ==
  /\ env \in Envs
  /\ phase = "link"
  /\ hooks = 0
  /\ fresh = FALSE
  /\ silent = 0
  /\ wd = [pc |-> "off", left |-> 0, age |-> 0, moved |-> FALSE, ran |-> FALSE,
           was |-> 0, stop |-> FALSE]
  /\ report = [made |-> FALSE, honest |-> TRUE]
  /\ health = Untouched[1] /\ truth = Untouched[2]
  /\ soak = Untouched[3] /\ game = Untouched[4]

AtMost(n, max) == IF n > max THEN max ELSE n

Playing == phase = "play"

-----------------------------------------------------------------------------
(* The counter of guest blocks.                                            *)

(* Machine::enable_block_counter: one more hook, unless the profiler's is  *)
(* there.                                                                  *)
WithCounter(h) == IF env.profile THEN h ELSE h + 1

(* main(), before Start: the profiler, or the counter for those that read  *)
(* it - but not beside the log of indirect calls.                          *)
CountersForStart ==
  IF env.profile THEN 1
  ELSE IF ~env.icall /\ (env.fps \/ env.longrun \/ env.watchdog # Off) THEN WithCounter(0)
  ELSE 0

(* The guest executes a block; each hook counts it.                        *)
RunBlock ==
  /\ Playing
  /\ wd' = [wd EXCEPT !.ran = (wd.pc = "sample"),
                      !.moved = wd.moved \/ (wd.pc = "sample" /\ hooks > 0)]
  /\ IF health.begun
     THEN /\ truth.blocks < MaxBlocks
          /\ truth' = [truth EXCEPT !.blocks = @ + 1]
          /\ health' = [health EXCEPT !.blocks = @ + hooks]
     ELSE UNCHANGED <<health, truth>>
  /\ UNCHANGED <<env, phase, hooks, fresh, silent, report, soak, game>>

-----------------------------------------------------------------------------
(* The watchdog.                                                           *)
WatchdogStarts == wd.pc = "off" /\ env.watchdog # Off

CountersAfterStart_Unarmed == hooks

(* start_watchdog: with the first frame it arms the counter and begins.    *)
CountersAfterStart == IF WatchdogStarts THEN WithCounter(hooks) ELSE hooks

(* A frame is presented and counted, of the game or of a movie.            *)
Counted ==
  /\ hooks' = CountersAfterStart
  /\ wd' = IF WatchdogStarts THEN [wd EXCEPT !.pc = "sleep", !.left = 1] ELSE wd
  /\ fresh' = (wd.pc \in {"sleep", "sample"})
  /\ silent' = 0
  /\ report' = [report EXCEPT !.made = FALSE]

(* present_async_cursor: a frame is counted, and nothing is started.       *)
CountedOnly ==
  /\ fresh' = (wd.pc \in {"sleep", "sample"})
  /\ silent' = 0
  /\ report' = [report EXCEPT !.made = FALSE]
  /\ UNCHANGED <<hooks, wd>>

Again_Deaf(w) == [w EXCEPT !.pc = "sleep", !.left = 1]

(* The head of the loop: it leaves, or sleeps for the next look.           *)
Again(w) == [w EXCEPT !.pc = IF w.stop THEN "left" ELSE "sleep", !.left = 1]

(* After so long a silence the watchdog reads the counters and sleeps half *)
(* a second to read them again.                                            *)
Sampling(w) == [w EXCEPT !.pc = "sample", !.left = 2, !.age = 0, !.was = silent,
                         !.moved = FALSE, !.ran = FALSE]

Seen_Never(w) == w

(* The silence begins with the look that found the last frame.             *)
Seen(w) == [w EXCEPT !.age = 0]

WatchdogLooks_Restless ==
  /\ wd.pc = "sleep" /\ wd.left <= 0
  /\ fresh' = FALSE
  /\ wd' = IF fresh THEN Again(Seen(wd))
           ELSE IF wd.age < env.watchdog THEN Again(Seen(wd))
           ELSE Sampling(wd)
  /\ UNCHANGED <<env, phase, hooks, silent, report, health, truth, soak, game>>

WatchdogLooks ==
  /\ wd.pc = "sleep" /\ wd.left <= 0
  /\ fresh' = FALSE
  /\ wd' = IF fresh THEN Again(Seen(wd))
           ELSE IF wd.age < env.watchdog THEN Again(wd)
           ELSE Sampling(wd)
  /\ UNCHANGED <<env, phase, hooks, silent, report, health, truth, soak, game>>

(* The report: there was a stall, the verdict is what the guest did, and   *)
(* main() has not gone on to hold the window.                              *)
WatchdogReports ==
  /\ wd.pc = "sample" /\ wd.left <= 0
  /\ report' = [made |-> silent >= wd.was,
                honest |-> /\ wd.was >= env.watchdog
                           /\ wd.moved = wd.ran
                           /\ phase \in {"play", "stopping"}]
  /\ wd' = Again(wd)
  /\ UNCHANGED <<env, phase, hooks, fresh, silent, health, truth, soak, game>>

Watchdog == WatchdogLooks \/ WatchdogReports

-----------------------------------------------------------------------------
(* The [fps] and [health] lines, written at the end of a game's frame.     *)

(* fps_tick: once a second the line takes the underruns and resets them.   *)
FpsLine == env.fps /\ health.fps >= FpsTicks

RawUnder == IF FpsLine THEN 0 ELSE health.raw

(* What the [health] line would say, with this frame.                      *)
ToldUnder == IF health.raw > health.base THEN health.raw - health.base ELSE 0

HealthDue == health.mark \/ health.age >= Interval

AfterLine_OldBase == [health EXCEPT !.begun = TRUE, !.blocks = 0, !.mark = FALSE, !.age = 0]

(* longrun_tick: a line starts the accounts anew.                          *)
AfterLine == [health EXCEPT !.begun = TRUE, !.blocks = 0, !.base = health.raw,
                            !.mark = FALSE, !.age = 0]

Accounts ==
  LET told == IF env.longrun /\ HealthDue THEN AfterLine
              ELSE [health EXCEPT !.begun = env.longrun]
  IN  [told EXCEPT !.raw = RawUnder, !.fps = IF FpsLine THEN 0 ELSE @]

(* The audio callback found nothing to play (the sound feed's underruns).  *)
Underrun ==
  /\ Playing /\ env.longrun
  /\ health.raw < MaxUnder /\ truth.under < MaxUnder
  /\ health' = [health EXCEPT !.raw = @ + 1]
  /\ truth' = [truth EXCEPT !.under = @ + 1]
  /\ UNCHANGED <<env, phase, hooks, fresh, silent, wd, report, soak, game>>

(* Alt+M.                                                                  *)
Mark ==
  /\ Playing /\ env.longrun /\ ~health.mark
  /\ health' = [health EXCEPT !.mark = TRUE]
  /\ UNCHANGED <<env, phase, hooks, fresh, silent, wd, report, truth, soak, game>>

-----------------------------------------------------------------------------
(* The soak driver.                                                        *)
Script == <<"prophecy", "ok", "play", "map", "exit", "confirm">>

Doing == Script[soak.step]

(* Where in the game each click belongs.                                   *)
Target == [prophecy |-> "menu", ok |-> "intro", map |-> "province",
           exit |-> "map", confirm |-> "overlay"]

(* And where it leads.                                                     *)
Leads == [prophecy |-> "intro", ok |-> "province", map |-> "map",
          exit |-> "overlay", confirm |-> "menu"]

(* active_screen(): the confirmation is an overlay on the same screen.     *)
ActiveScreen == IF game.screen = "overlay" THEN "map" ELSE game.screen

FramesPerPhase == 3

(* soak_click_step: aim, press and release, some frames apart.             *)
ClickStep ==
  IF soak.frames + 1 < FramesPerPhase
  THEN [soak EXCEPT !.frames = @ + 1]
  ELSE IF soak.at < 2
  THEN [soak EXCEPT !.frames = 0, !.at = @ + 1]
  ELSE [soak EXCEPT !.frames = 0, !.at = 0, !.clicked = TRUE, !.age = 0]

(* The screen that a step begins with is noted before its click.           *)
Noted(s) == IF soak.at = 0 /\ soak.frames = 0 THEN [s EXCEPT !.before = ActiveScreen] ELSE s

StepOver_AnyChange ==
  CASE Doing = "play" -> soak.age >= Dwell
    [] Doing = "exit" -> soak.age >= Settle
    [] OTHER          -> ActiveScreen # soak.before

(* A step is over when the active screen has changed, or after its time.   *)
StepOver ==
  CASE Doing = "play" -> soak.age >= Dwell
    [] Doing = "exit" -> soak.age >= Settle
    [] OTHER          -> ActiveScreen # soak.before /\ ActiveScreen # "none"

NextStep ==
  IF soak.step < Len(Script)
  THEN [soak EXCEPT !.clicked = FALSE, !.step = @ + 1, !.age = 0]
  ELSE [soak EXCEPT !.clicked = FALSE, !.step = 1, !.age = 0, !.cycle = @ + 1,
                    !.done = soak.cycle + 1 >= Cycles]

SoakTick ==
  IF ~env.soak \/ soak.done THEN soak
  ELSE IF ~soak.begun THEN [soak EXCEPT !.begun = TRUE]
  ELSE IF soak.step = 1 /\ soak.cycle = 0 /\ ~soak.clicked /\ soak.age < FirstTicks THEN soak
  ELSE IF ~soak.clicked
  THEN IF Doing = "play" THEN [soak EXCEPT !.clicked = TRUE, !.before = ActiveScreen, !.age = 0]
       ELSE Noted(ClickStep)
  ELSE IF StepOver THEN NextStep
  ELSE IF Doing # "play" /\ soak.age > Patience THEN [soak EXCEPT !.done = TRUE]
  ELSE soak

Pressed == soak.at = 2

(* The game samples the button once in a frame; a press that it has not    *)
(* seen yet takes effect where it is aimed.  A load ends in its own time.  *)
GameFrame ==
  LET click == Pressed /\ ~game.button
      lands == click /\ game.screen = Target[Doing]
      after == IF lands /\ Doing = "exit"
               THEN [game EXCEPT !.next = "overlay", !.wait = OverlayTicks]
               ELSE IF lands
               THEN [game EXCEPT !.screen = "none", !.next = Leads[Doing], !.wait = LoadTicks]
               ELSE game
  IN  [after EXCEPT !.button = Pressed, !.hit = game.hit /\ (click => lands)]

Loading == game.next # game.screen

LoadOnTime == Loading => game.wait > 0

LoadEnds ==
  /\ Playing /\ Loading
  /\ game' = [game EXCEPT !.screen = game.next, !.wait = 0]
  /\ UNCHANGED <<env, phase, hooks, fresh, silent, wd, report, health, truth, soak>>

-----------------------------------------------------------------------------
(* Frames.                                                                 *)

(* HLE_SwapBuffers: the game's input, the present, and the instruments.    *)
Frame ==
  /\ Playing
  /\ LoadOnTime
  /\ Counted
  /\ game' = GameFrame
  /\ soak' = SoakTick
  /\ health' = Accounts
  /\ truth' = IF env.longrun /\ HealthDue
              THEN [blocks |-> 0, under |-> 0] ELSE truth
  /\ UNCHANGED <<env, phase>>

(* SMPEG_playvideoframe: a movie presents by itself.                       *)
MovieFrame ==
  /\ Playing /\ ~env.soak
  /\ Counted
  /\ UNCHANGED <<env, phase, health, truth, soak, game>>

PointerFrame ==
  /\ Playing /\ ~env.soak
  /\ CountedOnly
  /\ UNCHANGED <<env, phase, health, truth, soak, game>>

Tick ==
  /\ phase \in {"play", "stopping", "hold"}
  /\ wd.pc \in {"sleep", "sample"} => wd.left > - Slack
  /\ Playing => LoadOnTime
  /\ silent' = IF wd.pc = "off" THEN 0 ELSE AtMost(silent + 1, Long)
  /\ wd' = IF wd.pc \in {"sleep", "sample"}
           THEN [wd EXCEPT !.left = @ - 1, !.age = AtMost(@ + 1, Long)] ELSE wd
  /\ health' = [health EXCEPT !.age = IF env.longrun THEN AtMost(@ + 1, Interval) ELSE 0,
                              !.fps = IF env.fps THEN AtMost(@ + 1, FpsTicks) ELSE 0]
  /\ soak' = IF soak.begun THEN [soak EXCEPT !.age = AtMost(@ + 1, Patience + 1)] ELSE soak
  /\ game' = IF Loading THEN [game EXCEPT !.wait = @ - 1] ELSE game
  /\ UNCHANGED <<env, phase, hooks, fresh, report, truth>>

Instruments ==
  \/ RunBlock \/ Frame \/ MovieFrame \/ PointerFrame
  \/ Watchdog \/ Underrun \/ Mark \/ LoadEnds \/ Tick
-----------------------------------------------------------------------------
(* A report is about a stall: no frame was counted for the stall's length, *)
(* the side it calls stuck is the one that is, and it is never the end of  *)
(* the session that it takes for a stall.                                  *)
ReportsAreTrue == report.honest

(* A stall does not go unreported.  At worst its last frame came at the    *)
(* beginning of a sample: the rest of that, the look that finds the frame, *)
(* the stall's length and a poll and the sample for the report follow,     *)
(* each as late as may be.                                                 *)
StallsAreReported ==
  Playing /\ wd.pc # "off" /\ silent > env.watchdog + 5 + 4 * Slack => report.made

(* "Track our own baseline and report the delta": whatever was marked, a   *)
(* [health] line tells the underruns since the line before.                *)
HealthTells == env.longrun /\ ~env.fps => ToldUnder = truth.under

(* The baseline is there so that the [fps] and [health] lines do not steal *)
(* from each other (longrun_tick).  It is a reading of a counter that the  *)
(* [fps] line sets back to 0.                                              *)
InstrumentsApart == env.longrun => ToldUnder = truth.under

(* "No-op if THEOC_FPS/PROFILE armed it": a block that the guest executes  *)
(* is counted once.                                                        *)
CountedOnce == health.blocks = truth.blocks

(* "One late load would desync every later click onto the wrong screen":   *)
(* every click of the soak driver finds the screen that it is for.         *)
ClicksOnTarget == game.hit
=============================================================================
