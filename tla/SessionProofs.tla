--------------------------- MODULE SessionProofs ---------------------------
(***************************************************************************)
(* Proofs about the boot of a session, its linker (GuestLink) and its      *)
(* instruments (Harness) as Session runs them: for any program the linker  *)
(* may be given, and for any settings, stall lengths, delays of the        *)
(* threads, and times of the soak driver.                                  *)
(***************************************************************************)
EXTENDS Session, WellFoundedInduction, FiniteSetTheorems, TLAPS

Settings ==
  [watchdog : Nat, longrun : BOOLEAN, fps : BOOLEAN, icall : BOOLEAN,
   profile : BOOLEAN, soak : BOOLEAN, anyway : BOOLEAN]

Boot == {"link", "construct", "init", "open", "intuition"}

-----------------------------------------------------------------------------
(* The watchdog.                                                           *)

Awake == {"sleep", "sample"}

States == {"off", "left"} \cup Awake

Threads ==
  [pc : States, left : Int, age : 0 .. Long, moved : BOOLEAN,
   ran : BOOLEAN, was : Nat, stop : BOOLEAN]

(* Every report is honest.                                                 *)
Reports == [made : BOOLEAN, honest : {TRUE}]

(* When there is a thread, and what it can count on.                       *)
Lives ==
  /\ wd.pc \in Awake => phase \in {"play", "stopping"}
  /\ phase \in Boot => wd.pc = "off"
  /\ phase = "play" => ~wd.stop
  /\ wd.pc = "off" => wd.age = 0 /\ ~wd.stop
  /\ wd.pc = "left" => wd.stop
  /\ wd.pc # "off" => hooks > 0 /\ env.watchdog > 0
  /\ phase = "play" /\ env.profile => hooks > 0

(* What the thread knows is what happened.                                 *)
Knows ==
  /\ wd.pc \in Awake => wd.left >= - Slack /\ (~fresh => silent >= wd.age)
  /\ wd.pc = "sleep" => wd.left <= 1
  /\ wd.pc = "sample" =>
       /\ wd.left <= 2
       /\ wd.was >= env.watchdog
       /\ wd.moved = wd.ran
       /\ IF fresh THEN ~report.made ELSE silent >= wd.was

(* How old a silence can be that has not been reported, by what the thread *)
(* is doing and whether it has yet to see the last frame.                  *)
InTime ==
  Playing /\ wd.pc \in Awake /\ ~report.made =>
    /\ wd.pc = "sleep" /\ fresh => silent <= 3 + Slack - wd.left
    /\ wd.pc = "sleep" /\ ~fresh =>
         silent <= wd.age + 3 + 2 * Slack /\ wd.age <= env.watchdog - wd.left
    /\ wd.pc = "sample" /\ fresh => silent <= 2 - wd.left
    /\ wd.pc = "sample" /\ ~fresh => silent <= env.watchdog + 5 + 3 * Slack - wd.left

WatchInv ==
  /\ env \in Settings
  /\ hooks \in Nat
  /\ fresh \in BOOLEAN
  /\ silent \in 0 .. Long
  /\ wd \in Threads
  /\ report \in Reports
  /\ Lives
  /\ Knows
  /\ InTime

-----------------------------------------------------------------------------
(* The accounts: what the counter of underruns has grown by since the last *)
(* line is what happened, unless an [fps] line resets it.                  *)
Accounted ==
  /\ health \in [begun : BOOLEAN, blocks : Nat, raw : Nat, base : Nat, mark : BOOLEAN,
                 age : Nat, fps : Nat]
  /\ truth \in [blocks : Nat, under : Nat]
  /\ ~env.fps => health.raw = health.base + truth.under

HealthInv == WatchInv /\ Accounted

-----------------------------------------------------------------------------
(* The soak driver.                                                        *)
Screens == {"menu", "intro", "province", "map", "overlay", "none"}

SoakTypes ==
  /\ soak \in [begun : BOOLEAN, step : 1 .. 6, clicked : BOOLEAN, at : 0 .. 2,
               frames : 0 .. 2, before : Screens, age : 0 .. Patience + 1, cycle : Nat,
               done : BOOLEAN]
  /\ game \in [screen : Screens, next : Screens, wait : Int, button : BOOLEAN,
               hit : {TRUE}]

(* In the middle of a click nothing holds the driver back, ...             *)
Clicking == soak.at > 0 \/ soak.frames > 0

Unhindered ==
  /\ env.soak /\ soak.begun /\ ~soak.done /\ ~soak.clicked /\ Doing # "play"
  /\ soak.step = 1 /\ soak.cycle = 0 => soak.age >= FirstTicks

(* ... and the game takes a press that lasts several frames for one.       *)
Held == soak.at = 2 /\ soak.frames > 0

Aiming == ~soak.clicked /\ ~Held

ScreenOf(doing) == IF doing = "play" THEN "province" ELSE Target[doing]

(* Before its click a step finds the screen it is for, and the button up.  *)
BeforeClick ==
  /\ game.screen = ScreenOf(Doing) /\ game.next = game.screen
  /\ Doing # "play" => ~game.button

(* After it, the game is on its way to where the click leads.  An overlay  *)
(* is not seen as a screen of its own: it comes in its time.               *)
AfterClick ==
  /\ Doing = "play" => game.screen = "province" /\ game.next = "province"
  /\ Doing = "exit" =>
       \/ game.screen = "overlay" /\ game.next = "overlay"
       \/ /\ game.screen = "map" /\ game.next = "overlay"
          /\ game.wait <= OverlayTicks
          /\ soak.clicked => game.wait + soak.age <= OverlayTicks
  /\ Doing \notin {"play", "exit"} =>
       game.next = Leads[Doing] /\ game.screen \in {"none", Leads[Doing]}

Driven ==
  /\ SoakTypes
  /\ Clicking => Unhindered
  /\ Held => game.button
  /\ Aiming => BeforeClick
  /\ ~Aiming => AfterClick

SoakInv == WatchInv /\ Driven

-----------------------------------------------------------------------------
LEMMA Numbers ==
  /\ Slack \in Nat /\ Long \in Nat /\ Interval \in Nat /\ FpsTicks \in Nat
  /\ MaxBlocks \in Nat /\ MaxUnder \in Nat
  /\ Cycles \in Nat /\ FirstTicks \in Nat /\ Dwell \in Nat /\ Settle \in Nat
  /\ Patience \in Nat /\ LoadTicks \in Nat /\ OverlayTicks \in Nat
  /\ OverlayTicks <= Settle
  /\ Envs \subseteq Settings
  /\ LongrunStall \in Nat
BY HarnessConstants, SessionConstants DEF Settings

(* The steps of main() before and after the game, as the watchdog sees     *)
(* them.                                                                   *)
watched == <<env, hooks, fresh, silent, wd, report>>

Before ==
  /\ phase \in Boot
  /\ \/ phase' \in Boot \cup {"stopping"} /\ UNCHANGED watched
     \/ /\ phase' \in Boot /\ UNCHANGED <<hooks, fresh, silent, wd, report>>
        /\ env' = [env EXCEPT !.watchdog = LongrunStall]
     \/ /\ phase' = "play" /\ hooks' = CountersForStart
        /\ UNCHANGED <<env, fresh, silent, wd, report>>

After ==
  \/ phase = "play" /\ phase' = "stopping" /\ UNCHANGED watched
  \/ phase = "stopping" /\ phase' = "hold" /\ wd.pc \in {"off", "left"} /\ UNCHANGED watched
  \/ phase = "hold" /\ phase' = "over" /\ UNCHANGED watched

LEMMA WatchedNext ==
  ASSUME Next
  PROVE  \/ UNCHANGED <<phase, watched>>
         \/ Before \/ After \/ StopWatchdog
         \/ RunBlock
         \/ Counted /\ Playing /\ UNCHANGED <<env, phase>>
         \/ CountedOnly /\ Playing /\ UNCHANGED <<env, phase>>
         \/ WatchdogLooks \/ WatchdogReports
         \/ Tick
<1>1. CASE Linking
  BY <1>1 DEF Linking, instruments, watched, Before, Boot
<1>2. CASE Construct
  BY <1>2 DEF Construct, instruments, watched, Before, Boot
<1>3. CASE InitApplication
  BY <1>3 DEF InitApplication, instruments, watched, Before, Boot
<1>4. CASE OpenSubsystems
  BY <1>4 DEF OpenSubsystems, instruments, watched, Before, Boot
<1>5. CASE MakeIntuition
  BY <1>5 DEF MakeIntuition, watched, Before, Boot
<1>6. CASE StopWatchdog
  BY <1>6
<1>7. CASE WatchdogJoined
  BY <1>7 DEF WatchdogJoined, instruments, watched, After
<1>8. CASE HoldEnds
  BY <1>8 DEF HoldEnds, instruments, watched, After
<1>9. CASE StartEnds
  BY <1>9 DEF StartEnds, watched, After
<1>10. CASE RunBlock
  BY <1>10
<1>11. CASE Frame
  BY <1>11 DEF Frame
<1>12. CASE MovieFrame
  BY <1>12 DEF MovieFrame
<1>13. CASE PointerFrame
  BY <1>13 DEF PointerFrame
<1>14. CASE Underrun
  BY <1>14 DEF Underrun, watched
<1>15. CASE Mark
  BY <1>15 DEF Mark, watched
<1>16. CASE LoadEnds
  BY <1>16 DEF LoadEnds, watched
<1>17. CASE WatchdogThread
  BY <1>17 DEF WatchdogThread, Watchdog
<1>18. CASE Time
  BY <1>18 DEF Time
<1>19. CASE Over
  BY <1>19 DEF Over, vars, harnessVars, watched
<1> QED
  BY <1>1, <1>2, <1>3, <1>4, <1>5, <1>6, <1>7, <1>8, <1>9, <1>10, <1>11, <1>12, <1>13,
     <1>14, <1>15, <1>16, <1>17, <1>18, <1>19
  DEF Next, Main, Play

-----------------------------------------------------------------------------
LEMMA WatchInit ==
  ASSUME Init
  PROVE  WatchInv
<1>1. /\ env \in Envs /\ phase = "link" /\ hooks = 0 /\ fresh = FALSE /\ silent = 0
      /\ wd = [pc |-> "off", left |-> 0, age |-> 0, moved |-> FALSE, ran |-> FALSE,
               was |-> 0, stop |-> FALSE]
      /\ report = [made |-> FALSE, honest |-> TRUE]
  BY DEF Init, InitHarness
<1>2. env \in Settings /\ silent \in 0 .. Long /\ wd \in Threads
  <2>1. "off" \in States /\ 0 \in 0 .. Long
    BY Numbers DEF States
  <2> QED BY <1>1, <2>1, Numbers DEF Threads
<1>3. wd.pc = "off" /\ wd.age = 0 /\ wd.stop = FALSE
  BY <1>1
<1>4. Lives /\ Knows /\ InTime
  BY <1>1, <1>3 DEF Lives, Knows, InTime, Awake, Playing, Boot
<1>5. report \in Reports /\ hooks \in Nat /\ fresh \in BOOLEAN
  BY <1>1 DEF Reports
<1> QED
  BY <1>2, <1>4, <1>5 DEF WatchInv

LEMMA WatchSame ==
  ASSUME WatchInv, UNCHANGED <<phase, watched>>
  PROVE  WatchInv'
BY DEF watched, WatchInv, Lives, Knows, InTime, Playing, Threads

(* Main's steps: there is no thread yet, or nothing is left to report.     *)
LEMMA WatchBefore ==
  ASSUME WatchInv, Before
  PROVE  WatchInv'
<1>1. /\ wd.pc = "off" /\ wd.age = 0 /\ ~wd.stop
      /\ env \in Settings /\ hooks \in Nat
  BY DEF WatchInv, Lives, Before
<1>2. UNCHANGED <<fresh, silent, wd, report>>
  BY DEF Before, watched
<1>3. phase' \in Boot \cup {"stopping", "play"}
  BY DEF Before
<1>4. env' \in Settings
  BY <1>1, Numbers DEF Before, watched, Settings
<1>5. hooks' \in Nat /\ (phase' = "play" => (env'.profile => hooks' > 0))
  <2>1. CASE phase' = "play"
    <3>1. UNCHANGED env /\ hooks' = CountersForStart
      BY <2>1 DEF Before, Boot
    <3> QED BY <3>1 DEF CountersForStart, WithCounter
  <2>2. CASE phase' # "play"
    BY <1>1, <2>2 DEF Before, watched
  <2> QED BY <2>1, <2>2
<1>6. Lives' /\ Knows' /\ InTime'
  BY <1>1, <1>2, <1>5 DEF Lives, Knows, InTime, Awake
<1> QED
  BY <1>2, <1>4, <1>5, <1>6 DEF WatchInv, Threads

LEMMA WatchAfter ==
  ASSUME WatchInv, After
  PROVE  WatchInv'
<1>1. UNCHANGED watched /\ phase' \in {"stopping", "hold", "over"}
  BY DEF After
<1>2. wd.pc \in Awake => phase' = "stopping"
  BY DEF After, WatchInv, Lives, Awake
<1>3. Lives'
  BY <1>1, <1>2 DEF WatchInv, Lives, watched, Boot
<1>4. Knows'
  BY <1>1 DEF WatchInv, Knows, watched
<1>5. InTime'
  BY <1>1 DEF InTime, Playing
<1> QED
  BY <1>1, <1>3, <1>4, <1>5 DEF WatchInv, watched, Threads

LEMMA WatchStop ==
  ASSUME WatchInv, StopWatchdog
  PROVE  WatchInv'
<1>1. /\ phase = "stopping" /\ wd.pc # "off"
      /\ wd' = [wd EXCEPT !.stop = TRUE]
      /\ UNCHANGED <<env, phase, hooks, fresh, silent, report>>
  BY DEF StopWatchdog
<1>2. wd \in Threads
  BY DEF WatchInv
<1>3. /\ wd' \in Threads /\ wd'.stop = TRUE
      /\ wd'.pc = wd.pc /\ wd'.left = wd.left /\ wd'.age = wd.age
      /\ wd'.moved = wd.moved /\ wd'.ran = wd.ran /\ wd'.was = wd.was
  BY <1>1, <1>2 DEF Threads
<1>4. Lives'
  BY <1>1, <1>3 DEF WatchInv, Lives, Boot
<1>5. Knows'
  BY <1>1, <1>3 DEF WatchInv, Knows
<1>6. InTime'
  BY <1>1 DEF InTime, Playing
<1> QED
  BY <1>1, <1>3, <1>4, <1>5, <1>6 DEF WatchInv, Threads

(* A block that the guest executes in a sample is seen, for a hook counts. *)
LEMMA WatchRunBlock ==
  ASSUME WatchInv, RunBlock
  PROVE  WatchInv'
<1>1. /\ Playing
      /\ wd' = [wd EXCEPT !.ran = (wd.pc = "sample"),
                          !.moved = wd.moved \/ (wd.pc = "sample" /\ hooks > 0)]
      /\ UNCHANGED <<env, phase, hooks, fresh, silent, report>>
  BY DEF RunBlock
<1>2. wd \in Threads
  BY DEF WatchInv
<1>3. /\ wd' \in Threads
      /\ wd'.pc = wd.pc /\ wd'.left = wd.left /\ wd'.age = wd.age
      /\ wd'.was = wd.was /\ wd'.stop = wd.stop
      /\ wd'.ran = (wd.pc = "sample")
      /\ wd'.moved = (wd.moved \/ (wd.pc = "sample" /\ hooks > 0))
  BY <1>1, <1>2 DEF Threads
<1>4. Lives'
  BY <1>1, <1>3, Zenon DEF WatchInv, Lives
<1>5. wd.pc = "sample" => wd'.moved = TRUE /\ wd'.ran = TRUE
  <2>1. wd.pc = "sample" => hooks > 0
    BY DEF WatchInv, Lives
  <2> QED BY <1>3, <2>1, Zenon
<1>6. Knows'
  BY <1>1, <1>3, <1>5, Zenon DEF WatchInv, Knows
<1>7. InTime'
  BY <1>1, <1>3, Zenon DEF WatchInv, InTime, Playing
<1> QED
  BY <1>1, <1>3, <1>4, <1>6, <1>7, Zenon DEF WatchInv

(* A frame ends the silence; the first one starts the thread, which finds  *)
(* a counter armed.                                                        *)
Presented ==
  /\ fresh' = (wd.pc \in Awake) /\ silent' = 0
  /\ report' = [report EXCEPT !.made = FALSE]
  /\ UNCHANGED <<env, phase>>

LEMMA PresentedIs ==
  ASSUME WatchInv, Presented
  PROVE  /\ report' \in Reports /\ report'.made = FALSE
         /\ fresh' \in BOOLEAN
         /\ silent' = 0 /\ silent' \in 0 .. Long
<1>1. report \in Reports
  BY DEF WatchInv
<1>2. report' = [report EXCEPT !.made = FALSE]
  BY DEF Presented
<1>3. report' \in Reports /\ report'.made = FALSE
  BY <1>1, <1>2 DEF Reports
<1>4. fresh' \in BOOLEAN
  <2> DEFINE awake == wd.pc \in Awake
  <2>1. awake \in BOOLEAN
    OBVIOUS
  <2>2. fresh' = awake
    BY DEF Presented
  <2> QED BY <2>1, <2>2
<1>5. silent' = 0 /\ silent' \in 0 .. Long
  BY Numbers DEF Presented
<1> QED
  BY <1>3, <1>4, <1>5

LEMMA WatchFrame ==
  ASSUME WatchInv, Playing, Presented, UNCHANGED <<hooks, wd>>
  PROVE  WatchInv'
<1>1. /\ wd \in Threads /\ hooks \in Nat /\ env \in Settings /\ phase = "play"
      /\ report \in Reports
  BY DEF WatchInv, Playing
<1>2. /\ report' \in Reports /\ report'.made = FALSE
      /\ fresh' \in BOOLEAN /\ silent' \in 0 .. Long
  BY PresentedIs
<1>3. Lives'
  BY Zenon DEF WatchInv, Lives, Presented
<1>4. wd.pc \in Awake => fresh' = TRUE
  BY DEF Presented
<1>5. Knows'
  BY <1>2, <1>4, Zenon DEF WatchInv, Knows, Presented, Awake
<1>6. InTime'
  <2>1. /\ wd.pc = "sleep" => silent' <= 3 + Slack - wd.left
        /\ wd.pc = "sample" => silent' <= 2 - wd.left
    BY <1>1, Numbers DEF WatchInv, Knows, Presented, Threads
  <2> QED BY <1>4, <2>1, Zenon DEF InTime, Awake
<1> QED
  BY <1>1, <1>2, <1>3, <1>5, <1>6 DEF WatchInv, Presented, Threads

LEMMA WatchBegins ==
  ASSUME WatchInv, Playing, Presented, WatchdogStarts, hooks' = WithCounter(hooks),
         wd' = [wd EXCEPT !.pc = "sleep", !.left = 1]
  PROVE  WatchInv'
<1>1. /\ wd \in Threads /\ hooks \in Nat /\ env \in Settings /\ phase = "play"
      /\ report \in Reports
      /\ wd.pc = "off" /\ wd.age = 0 /\ ~wd.stop
      /\ env.profile => hooks > 0
  BY DEF WatchInv, Playing, WatchdogStarts, Lives
<1>2. /\ report' \in Reports /\ report'.made = FALSE
      /\ fresh' = FALSE /\ silent' = 0 /\ silent' \in 0 .. Long
  <2>1. ~(wd.pc \in Awake)
    BY <1>1 DEF Awake
  <2> DEFINE awake == wd.pc \in Awake
  <2>2. fresh' = awake
    BY DEF Presented
  <2>3. awake = FALSE
    BY <2>1
  <2> HIDE DEF awake
  <2>4. fresh' = FALSE
    BY <2>2, <2>3
  <2> QED BY <2>4, PresentedIs
<1>3. env.watchdog \in Nat /\ env.watchdog > 0
  BY <1>1 DEF WatchdogStarts, Off, Settings
<1>4. hooks' \in Nat /\ hooks' > 0
  BY <1>1 DEF WithCounter
<1>5. /\ wd' \in Threads /\ wd'.pc = "sleep" /\ wd'.left = 1 /\ wd'.age = 0
      /\ wd'.stop = FALSE
  <2>1. "sleep" \in States /\ 1 \in Int
    BY DEF States, Awake
  <2>2. /\ wd' \in Threads /\ wd'.pc = "sleep" /\ wd'.left = 1 /\ wd'.age = wd.age
        /\ wd'.stop = wd.stop
    BY <1>1, <2>1 DEF Threads
  <2> QED BY <1>1, <2>2
<1>6. env' = env /\ phase' = "play"
  BY <1>1 DEF Presented
<1>7. Lives'
  BY <1>3, <1>4, <1>5, <1>6 DEF Lives, Boot, Awake
<1>8. Knows'
  BY <1>2, <1>5, Numbers DEF Knows, Awake
<1>9. InTime'
  BY <1>2, <1>3, <1>5, <1>6, Numbers DEF InTime, Awake
<1> QED
  BY <1>1, <1>2, <1>4, <1>5, <1>6, <1>7, <1>8, <1>9 DEF WatchInv

LEMMA WatchCounted ==
  ASSUME WatchInv, Playing, UNCHANGED <<env, phase>>, Counted \/ CountedOnly
  PROVE  WatchInv'
<1>1. Presented
  BY DEF Presented, Counted, CountedOnly, Awake
<1>2. CASE UNCHANGED <<hooks, wd>>
  BY <1>1, <1>2, WatchFrame
<1>3. CASE ~UNCHANGED <<hooks, wd>>
  BY <1>1, <1>3, WatchBegins DEF Counted, CountedOnly, CountersAfterStart
<1> QED
  BY <1>2, <1>3

(* A look of the thread.                                                   *)
LEMMA AgainIs ==
  ASSUME NEW w \in Threads
  PROVE  /\ Again(w) \in Threads
         /\ Again(w).pc = IF w.stop THEN "left" ELSE "sleep"
         /\ Again(w).left = 1 /\ Again(w).age = w.age /\ Again(w).stop = w.stop
<1> DEFINE pc == IF w.stop THEN "left" ELSE "sleep"
<1>1. pc \in States /\ 1 \in Int
  BY DEF States, Awake
<1>2. Again(w) = [w EXCEPT !.pc = pc, !.left = 1]
  BY DEF Again
<1>3. Again(w).pc = pc
  BY <1>2 DEF Threads
<1> HIDE DEF pc
<1>4. /\ Again(w) \in Threads
      /\ Again(w).left = 1 /\ Again(w).age = w.age /\ Again(w).stop = w.stop
  BY <1>1, <1>2 DEF Threads
<1> QED
  BY <1>3, <1>4 DEF pc

LEMMA SeenIs ==
  ASSUME NEW w \in Threads
  PROVE  /\ Seen(w) \in Threads
         /\ Seen(w).age = 0 /\ Seen(w).stop = w.stop
BY Numbers DEF Seen, Threads

LEMMA SamplingIs ==
  ASSUME NEW w \in Threads, silent \in 0 .. Long
  PROVE  /\ Sampling(w) \in Threads
         /\ Sampling(w).pc = "sample" /\ Sampling(w).left = 2 /\ Sampling(w).age = 0
         /\ Sampling(w).was = silent /\ Sampling(w).moved = FALSE
         /\ Sampling(w).ran = FALSE /\ Sampling(w).stop = w.stop
<1>1. "sample" \in States /\ 2 \in Int /\ 0 \in 0 .. Long /\ silent \in Nat
  BY Numbers DEF States, Awake
<1>2. Sampling(w) = [w EXCEPT !.pc = "sample", !.left = 2, !.age = 0, !.was = silent,
                              !.moved = FALSE, !.ran = FALSE]
  BY DEF Sampling
<1> QED
  BY <1>1, <1>2 DEF Threads

(* What holds of the thread at the head of its loop.                       *)
LEMMA WatchAgain ==
  ASSUME WatchInv, NEW w \in Threads, w.stop = wd.stop, wd' = Again(w),
         wd.pc \in Awake,
         UNCHANGED <<env, phase, hooks, silent>>, fresh' \in BOOLEAN,
         report' \in Reports,
         ~fresh' => silent >= w.age,
         Playing /\ ~report'.made =>
           IF fresh' THEN silent <= 2 + Slack
           ELSE silent <= w.age + 3 + 2 * Slack /\ w.age < env.watchdog
  PROVE  WatchInv'
<1>1. /\ env \in Settings /\ hooks \in Nat /\ silent \in 0 .. Long
      /\ phase \in {"play", "stopping"}
      /\ phase = "play" => ~wd.stop
      /\ hooks > 0 /\ env.watchdog > 0
  BY DEF WatchInv, Lives, Awake
<1>2. /\ wd' \in Threads
      /\ wd'.pc = IF wd.stop THEN "left" ELSE "sleep"
      /\ wd'.left = 1 /\ wd'.age = w.age /\ wd'.stop = wd.stop
  BY AgainIs
<1>3. w.age \in Nat /\ env.watchdog \in Nat
  BY <1>1, Numbers DEF Threads, Settings
<1>4. Lives'
  BY <1>1, <1>2 DEF Lives, Boot, Awake
<1>5. Knows'
  BY <1>1, <1>2, Numbers DEF Knows, Awake
<1>6. InTime'
  <2> SUFFICES ASSUME Playing, ~report'.made
      PROVE  /\ fresh' => silent <= 3 + Slack - 1
             /\ ~fresh' => silent <= w.age + 3 + 2 * Slack /\ w.age <= env.watchdog - 1
    BY <1>2, Zenon DEF InTime, Playing, Awake
  <2> QED BY <1>1, <1>3, Numbers
<1> QED
  BY <1>1, <1>2, <1>4, <1>5, <1>6 DEF WatchInv

LEMMA WatchLook ==
  ASSUME WatchInv, WatchdogLooks
  PROVE  WatchInv'
<1>1. /\ wd.pc = "sleep" /\ wd.left <= 0 /\ fresh' = FALSE
      /\ wd' = IF fresh THEN Again(Seen(wd))
               ELSE IF wd.age < env.watchdog THEN Again(wd)
               ELSE Sampling(wd)
      /\ UNCHANGED <<env, phase, hooks, silent, report>>
  BY DEF WatchdogLooks
<1>2. /\ wd \in Threads /\ env \in Settings /\ hooks \in Nat /\ silent \in 0 .. Long
      /\ report \in Reports
      /\ env.watchdog \in Nat /\ env.watchdog > 0 /\ hooks > 0
      /\ wd.left \in Int /\ wd.left >= - Slack /\ wd.age \in Nat /\ silent \in Nat
      /\ ~fresh => silent >= wd.age
      /\ phase \in {"play", "stopping"} /\ (phase = "play" => ~wd.stop)
  <2>1. /\ wd \in Threads /\ env \in Settings /\ hooks \in Nat /\ silent \in 0 .. Long
        /\ report \in Reports
    BY DEF WatchInv
  <2>2. /\ env.watchdog > 0 /\ hooks > 0
        /\ phase \in {"play", "stopping"} /\ (phase = "play" => ~wd.stop)
    BY <1>1 DEF WatchInv, Lives, Awake
  <2>3. wd.left >= - Slack /\ (~fresh => silent >= wd.age)
    BY <1>1 DEF WatchInv, Knows, Awake
  <2>4. env.watchdog \in Nat /\ wd.left \in Int /\ wd.age \in Nat /\ silent \in Nat
    BY <2>1, Numbers DEF Threads, Settings
  <2> QED BY <2>1, <2>2, <2>3, <2>4
<1>3. Playing /\ ~report.made =>
        /\ fresh => silent <= 3 + Slack - wd.left
        /\ ~fresh => silent <= wd.age + 3 + 2 * Slack /\ wd.age <= env.watchdog - wd.left
  BY <1>1, Zenon DEF WatchInv, InTime, Awake
<1>4. CASE fresh
  <2> DEFINE w == Seen(wd)
  <2>1. w \in Threads /\ w.age = 0 /\ w.stop = wd.stop /\ wd' = Again(w)
    BY <1>1, <1>2, <1>4, SeenIs
  <2> HIDE DEF w
  <2>2. silent >= w.age
    BY <1>2, <2>1
  <2>3. Playing /\ ~report'.made =>
          silent <= w.age + 3 + 2 * Slack /\ w.age < env.watchdog
    BY <1>1, <1>2, <1>3, <1>4, <2>1, Numbers
  <2> QED
    BY <1>1, <1>2, <2>1, <2>2, <2>3, WatchAgain DEF Awake
<1>5. CASE ~fresh /\ wd.age < env.watchdog
  <2>1. wd' = Again(wd)
    BY <1>1, <1>5
  <2>2. Playing /\ ~report'.made =>
          silent <= wd.age + 3 + 2 * Slack /\ wd.age < env.watchdog
    BY <1>1, <1>3, <1>5
  <2> QED
    BY <1>1, <1>2, <1>5, <2>1, <2>2, WatchAgain DEF Awake
<1>6. CASE ~fresh /\ ~(wd.age < env.watchdog)
  <2>1. /\ wd' \in Threads
        /\ wd'.pc = "sample" /\ wd'.left = 2 /\ wd'.age = 0
        /\ wd'.was = silent /\ wd'.moved = FALSE
        /\ wd'.ran = FALSE /\ wd'.stop = wd.stop
    BY <1>1, <1>2, <1>6, SamplingIs
  <2>2. Lives'
    BY <1>1, <1>2, <2>1 DEF Lives, Boot, Awake
  <2>3. Knows'
    <3>1. wd'.moved = wd'.ran
      BY <2>1, Zenon
    <3>2. silent >= env.watchdog /\ silent >= 0 /\ 2 >= - Slack /\ silent >= silent
      BY <1>2, <1>6, Numbers
    <3>3. fresh' = FALSE /\ silent' = silent /\ env' = env /\ wd'.left <= 2
      BY <1>1, <2>1
    <3> QED BY <2>1, <3>1, <3>2, <3>3, Zenon DEF Knows
  <2>4. InTime'
    <3>1. Playing /\ ~report.made => silent <= env.watchdog + 5 + 3 * Slack - 2
      BY <1>1, <1>2, <1>3, <1>6, Numbers
    <3> QED BY <1>1, <2>1, <3>1, Zenon DEF InTime, Playing, Awake
  <2> QED
    BY <1>1, <1>2, <2>1, <2>2, <2>3, <2>4 DEF WatchInv
<1> QED
  BY <1>4, <1>5, <1>6

LEMMA WatchReport ==
  ASSUME WatchInv, WatchdogReports
  PROVE  WatchInv'
<1>1. /\ wd.pc = "sample" /\ wd.left <= 0
      /\ report' = [made |-> silent >= wd.was,
                    honest |-> /\ wd.was >= env.watchdog
                               /\ wd.moved = wd.ran
                               /\ phase \in {"play", "stopping"}]
      /\ wd' = Again(wd)
      /\ UNCHANGED <<env, phase, hooks, fresh, silent>>
  BY DEF WatchdogReports
<1>2. /\ wd.was >= env.watchdog /\ wd.moved = wd.ran
      /\ IF fresh THEN ~report.made ELSE silent >= wd.was
      /\ wd.left >= - Slack /\ (~fresh => silent >= wd.age)
  BY <1>1 DEF WatchInv, Knows, Awake
<1>3. phase \in {"play", "stopping"}
  BY <1>1 DEF WatchInv, Lives, Awake
<1>4. /\ report'.made <=> silent >= wd.was
      /\ report' \in Reports
  <2>1. report'.made = (silent >= wd.was) /\ report'.honest = TRUE
    BY <1>1, <1>2, <1>3, Zenon
  <2>2. report' = [made |-> report'.made, honest |-> report'.honest]
    BY <1>1, Zenon
  <2> HIDE DEF Reports
  <2>3. report'.made \in BOOLEAN
    <3> DEFINE made == silent >= wd.was
    <3>1. made \in BOOLEAN
      OBVIOUS
    <3> QED BY <2>1, <3>1
  <2>4. [made |-> report'.made, honest |-> TRUE] \in Reports
    BY <2>3 DEF Reports
  <2> QED BY <2>1, <2>2, <2>4, Zenon
<1>5. wd \in Threads /\ wd.left \in Int /\ silent \in Nat /\ fresh \in BOOLEAN
  BY Numbers DEF WatchInv, Threads
<1>6. Playing /\ ~report'.made => fresh /\ silent <= 2 + Slack
  <2> SUFFICES ASSUME Playing, ~report'.made PROVE fresh /\ silent <= 2 + Slack
    OBVIOUS
  <2>1. fresh /\ ~report.made
    BY <1>2, <1>4
  <2>2. silent <= 2 - wd.left
    BY <1>1, <2>1, Zenon DEF WatchInv, InTime, Awake
  <2> QED BY <1>2, <1>5, <2>1, <2>2, Numbers
<1> QED
  BY <1>1, <1>2, <1>4, <1>5, <1>6, WatchAgain DEF Awake

(* A tick: the thread's sleep, its silence and the real one grow together. *)
LEMMA WatchTick ==
  ASSUME WatchInv, Tick
  PROVE  WatchInv'
<1> DEFINE age == AtMost(wd.age + 1, Long)
<1>1. /\ wd \in Threads /\ env \in Settings /\ hooks \in Nat /\ fresh \in BOOLEAN
      /\ silent \in 0 .. Long /\ report \in Reports
  BY DEF WatchInv
<1>2. /\ phase \in {"play", "stopping", "hold"}
      /\ UNCHANGED <<env, phase, hooks, fresh, report>>
      /\ silent' = IF wd.pc = "off" THEN 0 ELSE AtMost(silent + 1, Long)
      /\ wd.pc \in Awake => wd.left > - Slack
      /\ wd' = IF wd.pc \in Awake
               THEN [wd EXCEPT !.left = wd.left - 1, !.age = age] ELSE wd
  BY DEF Tick, Awake
<1>3. /\ wd.left \in Int /\ wd.age \in 0 .. Long /\ wd.age \in Nat /\ silent \in Nat
      /\ wd.was \in Nat /\ env.watchdog \in Nat /\ Long \in Nat /\ Slack \in Nat
  BY <1>1, Numbers DEF Threads, Settings
<1>4. /\ age \in 0 .. Long /\ age <= wd.age + 1
      /\ AtMost(silent + 1, Long) \in 0 .. Long
      /\ AtMost(silent + 1, Long) <= silent + 1
      /\ AtMost(silent + 1, Long) >= silent
      /\ silent >= wd.age => AtMost(silent + 1, Long) >= age
      /\ silent - wd.age <= 3 + 2 * Slack => AtMost(silent + 1, Long) - age <= 3 + 2 * Slack
  BY <1>1, <1>3 DEF AtMost
<1>5. silent' \in 0 .. Long
  BY <1>2, <1>3, <1>4
<1> HIDE DEF age
<1>6. CASE wd.pc \in Awake
  <2>1. /\ wd' \in Threads /\ wd'.left = wd.left - 1 /\ wd'.age = age
        /\ wd'.pc = wd.pc /\ wd'.was = wd.was /\ wd'.stop = wd.stop
        /\ wd'.moved = wd.moved /\ wd'.ran = wd.ran
    <3>1. wd' = [wd EXCEPT !.left = wd.left - 1, !.age = age]
      BY <1>2, <1>6
    <3>2. wd.left - 1 \in Int
      BY <1>3
    <3> QED BY <1>1, <1>4, <3>1, <3>2 DEF Threads
  <2>2. Lives'
    BY <1>2, <1>6, <2>1, Zenon DEF WatchInv, Lives, Awake
  <2>3. silent' = AtMost(silent + 1, Long)
    BY <1>2, <1>6 DEF Awake
  <2>4. Knows'
    <3>1. /\ wd.left >= - Slack /\ (~fresh => silent >= wd.age)
          /\ wd.pc = "sleep" => wd.left <= 1
          /\ wd.pc = "sample" => wd.left <= 2 /\ wd.was >= env.watchdog /\ wd.moved = wd.ran
          /\ wd.pc = "sample" => IF fresh THEN ~report.made ELSE silent >= wd.was
      BY <1>6, Zenon DEF WatchInv, Knows
    <3>2. wd'.left >= - Slack /\ (~fresh => silent' >= wd'.age)
      BY <1>2, <1>3, <1>4, <1>6, <2>1, <2>3, <3>1
    <3>3. /\ wd.pc = "sleep" => wd'.left <= 1
          /\ wd.pc = "sample" => wd'.left <= 2
          /\ wd.pc = "sample" /\ ~fresh => silent' >= wd.was
      BY <1>3, <1>4, <2>1, <2>3, <3>1
    <3> QED BY <1>2, <2>1, <3>1, <3>2, <3>3, Zenon DEF Knows
  <2>5. InTime'
    <3> SUFFICES ASSUME Playing, ~report.made PROVE InTime'
      BY <1>2, Zenon DEF InTime, Playing
    <3>1. /\ wd.pc = "sleep" /\ fresh => silent <= 3 + Slack - wd.left
          /\ wd.pc = "sleep" /\ ~fresh =>
               silent <= wd.age + 3 + 2 * Slack /\ wd.age <= env.watchdog - wd.left
          /\ wd.pc = "sample" /\ fresh => silent <= 2 - wd.left
          /\ wd.pc = "sample" /\ ~fresh => silent <= env.watchdog + 5 + 3 * Slack - wd.left
      BY <1>6, Zenon DEF WatchInv, InTime
    <3>2. wd.pc = "sleep" /\ fresh => silent' <= 3 + Slack - wd'.left
      BY <1>3, <1>4, <2>1, <2>3, <3>1
    <3>3. wd.pc = "sleep" /\ ~fresh =>
            silent' <= wd'.age + 3 + 2 * Slack /\ wd'.age <= env.watchdog - wd'.left
      <4> SUFFICES ASSUME wd.pc = "sleep", ~fresh
          PROVE  silent' <= wd'.age + 3 + 2 * Slack /\ wd'.age <= env.watchdog - wd'.left
        OBVIOUS
      <4>1. silent <= wd.age + 3 + 2 * Slack /\ wd.age <= env.watchdog - wd.left
        BY <3>1
      <4>2. age \in Int /\ AtMost(silent + 1, Long) \in Int
        BY <1>3, <1>4
      <4> QED BY <1>3, <1>4, <2>1, <2>3, <4>1, <4>2
    <3>4. wd.pc = "sample" /\ fresh => silent' <= 2 - wd'.left
      BY <1>3, <1>4, <2>1, <2>3, <3>1
    <3>5. wd.pc = "sample" /\ ~fresh => silent' <= env.watchdog + 5 + 3 * Slack - wd'.left
      BY <1>3, <1>4, <2>1, <2>3, <3>1
    <3> QED BY <1>2, <2>1, <3>2, <3>3, <3>4, <3>5, Zenon DEF InTime
  <2> QED
    BY <1>1, <1>2, <1>5, <2>1, <2>2, <2>4, <2>5, Zenon DEF WatchInv
<1>7. CASE ~(wd.pc \in Awake)
  <2>1. wd' = wd
    BY <1>2, <1>7
  <2>2. Lives' /\ Knows' /\ InTime'
    BY <1>2, <1>7, <2>1, Zenon DEF WatchInv, Lives, Knows, InTime, Awake
  <2> QED
    BY <1>1, <1>2, <1>5, <2>1, <2>2, Zenon DEF WatchInv
<1> QED
  BY <1>6, <1>7

LEMMA WatchNext ==
  ASSUME WatchInv, [Next]_vars
  PROVE  WatchInv'
<1>1. CASE UNCHANGED vars
  BY <1>1, WatchSame DEF vars, harnessVars, watched
<1>2. CASE Next
  BY <1>2, WatchedNext, WatchSame, WatchBefore, WatchAfter, WatchStop, WatchRunBlock,
     WatchCounted, WatchLook, WatchReport, WatchTick
<1> QED
  BY <1>1, <1>2

(* What the watchdog says is so: there was a stall of the length that was  *)
(* asked for, the side it calls stuck is the one that is, and the guest    *)
(* was not merely leaving.                                                 *)
THEOREM ReportsHold == Spec => []ReportsAreTrue
<1>1. Init => WatchInv
  BY WatchInit
<1>2. WatchInv /\ [Next]_vars => WatchInv'
  BY WatchNext
<1>3. WatchInv => ReportsAreTrue
  BY DEF WatchInv, Reports, ReportsAreTrue
<1> QED
  BY <1>1, <1>2, <1>3, PTL DEF Spec

(* No stall goes unreported for longer than the looks, the sample and the  *)
(* delays of the thread account for.                                       *)
THEOREM NoStallUnseen == Spec => []StallsAreReported
<1>1. Init => WatchInv
  BY WatchInit
<1>2. WatchInv /\ [Next]_vars => WatchInv'
  BY WatchNext
<1>3. WatchInv => StallsAreReported
  <2> SUFFICES ASSUME WatchInv, Playing, wd.pc # "off", ~report.made
      PROVE  ~(silent > env.watchdog + 5 + 4 * Slack)
    BY DEF StallsAreReported
  <2>1. /\ wd \in Threads /\ env \in Settings /\ silent \in 0 .. Long /\ fresh \in BOOLEAN
        /\ Lives /\ Knows /\ InTime
    BY DEF WatchInv
  <2>2. wd.pc \in Awake
    BY <2>1 DEF Threads, States, Lives, Playing
  <2>3. /\ wd.left \in Int /\ wd.age \in Nat /\ silent \in Nat /\ env.watchdog \in Nat
        /\ Slack \in Nat
    BY <2>1, Numbers DEF Threads, Settings
  <2>4. wd.left >= - Slack
    BY <2>1, <2>2 DEF Knows
  <2>5. \/ silent <= 3 + Slack - wd.left
        \/ silent <= wd.age + 3 + 2 * Slack /\ wd.age <= env.watchdog - wd.left
        \/ silent <= 2 - wd.left
        \/ silent <= env.watchdog + 5 + 3 * Slack - wd.left
    BY <2>1, <2>2, Zenon DEF InTime, Awake
  <2> QED BY <2>3, <2>4, <2>5
<1> QED
  BY <1>1, <1>2, <1>3, PTL DEF Spec

-----------------------------------------------------------------------------
LEMMA HealthInit ==
  ASSUME Init
  PROVE  Accounted
<1>1. /\ health = [begun |-> FALSE, blocks |-> 0, raw |-> 0, base |-> 0,
                   mark |-> FALSE, age |-> 0, fps |-> 0]
      /\ truth = [blocks |-> 0, under |-> 0]
  BY DEF Init, InitHarness, Untouched
<1> QED
  BY <1>1 DEF Accounted

(* The steps that the accounts and the driver see.                         *)
LEMMA InstrumentsNext ==
  ASSUME WatchInv, [Next]_vars
  PROVE  \/ /\ UNCHANGED <<health, truth, soak, game>>
            /\ env'.fps = env.fps /\ env'.soak = env.soak
         \/ /\ UNCHANGED env
            /\ StartEnds \/ RunBlock \/ Frame \/ Underrun \/ Mark \/ LoadEnds \/ Tick
<1> USE DEF instruments
<1>1. env \in Settings
  BY DEF WatchInv
<1>2. CASE Linking
  <2>1. env' = env \/ env' = [env EXCEPT !.watchdog = LongrunStall]
    BY <1>2 DEF Linking
  <2>2. env'.fps = env.fps /\ env'.soak = env.soak
    BY <1>1, <2>1 DEF Settings
  <2> QED BY <1>2, <2>2 DEF Linking
<1>3. CASE Construct \/ InitApplication \/ OpenSubsystems
  BY <1>3 DEF Construct, InitApplication, OpenSubsystems
<1>4. CASE MakeIntuition \/ StopWatchdog
  BY <1>4 DEF MakeIntuition, StopWatchdog
<1>5. CASE WatchdogJoined \/ HoldEnds
  BY <1>5 DEF WatchdogJoined, HoldEnds
<1>6. CASE StartEnds
  BY <1>6 DEF StartEnds
<1>7. CASE RunBlock \/ Frame \/ Underrun \/ Mark \/ LoadEnds \/ Tick
  BY <1>7 DEF RunBlock, Frame, Underrun, Mark, LoadEnds, Tick
<1>8. CASE MovieFrame \/ PointerFrame
  BY <1>8 DEF MovieFrame, PointerFrame
<1>9. CASE WatchdogThread
  BY <1>9 DEF WatchdogThread, Watchdog, WatchdogLooks, WatchdogReports
<1>10. CASE Over \/ UNCHANGED vars
  BY <1>10 DEF Over, vars, harnessVars
<1> QED
  BY <1>2, <1>3, <1>4, <1>5, <1>6, <1>7, <1>8, <1>9, <1>10 DEF Next, Main, Play, Time

(* A frame of the game may write an [fps] line, a [health] line, or both.  *)
LEMMA HealthFrame ==
  ASSUME WatchInv, Accounted, Frame, UNCHANGED env
  PROVE  Accounted'
<1> DEFINE due == env.longrun /\ HealthDue
<1>1. /\ health \in [begun : BOOLEAN, blocks : Nat, raw : Nat, base : Nat, mark : BOOLEAN,
                     age : Nat, fps : Nat]
      /\ truth \in [blocks : Nat, under : Nat] /\ env \in Settings
      /\ ~env.fps => health.raw = health.base + truth.under
  BY DEF Accounted, WatchInv
<1>2. RawUnder \in Nat /\ (~env.fps => RawUnder = health.raw)
  BY <1>1 DEF RawUnder, FpsLine
<1>3. CASE due
  <2>1. health' = [AfterLine EXCEPT !.raw = RawUnder, !.fps = IF FpsLine THEN 0 ELSE @]
    BY <1>3 DEF Frame, Accounts
  <2>2. /\ health' \in [begun : BOOLEAN, blocks : Nat, raw : Nat, base : Nat,
                        mark : BOOLEAN, age : Nat, fps : Nat]
        /\ health'.raw = RawUnder /\ health'.base = health.raw
    BY <1>1, <1>2, <2>1 DEF AfterLine
  <2>3. truth' = [blocks |-> 0, under |-> 0]
    BY <1>3 DEF Frame
  <2> QED BY <1>1, <1>2, <2>2, <2>3 DEF Accounted
<1>4. CASE ~due
  <2>1. health' = [[health EXCEPT !.begun = env.longrun]
                     EXCEPT !.raw = RawUnder, !.fps = IF FpsLine THEN 0 ELSE @]
    BY <1>4 DEF Frame, Accounts
  <2>2. env.longrun \in BOOLEAN
    BY <1>1 DEF Settings
  <2>3. /\ health' \in [begun : BOOLEAN, blocks : Nat, raw : Nat, base : Nat,
                        mark : BOOLEAN, age : Nat, fps : Nat]
        /\ health'.raw = RawUnder /\ health'.base = health.base
    BY <1>1, <1>2, <2>1, <2>2
  <2>4. truth' = truth
    BY <1>4 DEF Frame
  <2> QED BY <1>1, <1>2, <2>3, <2>4 DEF Accounted
<1> QED
  BY <1>3, <1>4

LEMMA HealthNext ==
  ASSUME WatchInv, Accounted, [Next]_vars
  PROVE  Accounted'
<1>1. /\ health \in [begun : BOOLEAN, blocks : Nat, raw : Nat, base : Nat, mark : BOOLEAN,
                     age : Nat, fps : Nat]
      /\ truth \in [blocks : Nat, under : Nat] /\ env \in Settings /\ hooks \in Nat
      /\ ~env.fps => health.raw = health.base + truth.under
  BY DEF Accounted, WatchInv
<1>2. CASE UNCHANGED <<health, truth>> /\ env'.fps = env.fps
  BY <1>2 DEF Accounted
<1>3. CASE UNCHANGED env /\ StartEnds
  BY <1>3 DEF Accounted, StartEnds, Untouched
<1>4. CASE UNCHANGED env /\ RunBlock
  <2>1. \/ UNCHANGED <<health, truth>>
        \/ /\ truth' = [truth EXCEPT !.blocks = @ + 1]
           /\ health' = [health EXCEPT !.blocks = @ + hooks]
    BY <1>4 DEF RunBlock
  <2> QED BY <1>1, <1>4, <2>1 DEF Accounted
<1>5. CASE UNCHANGED env /\ Frame
  BY <1>5, HealthFrame
<1>6. CASE UNCHANGED env /\ Underrun
  <2>1. /\ health' = [health EXCEPT !.raw = @ + 1]
        /\ truth' = [truth EXCEPT !.under = @ + 1]
    BY <1>6 DEF Underrun
  <2> QED BY <1>1, <1>6, <2>1 DEF Accounted
<1>7. CASE UNCHANGED env /\ Mark
  <2>1. health' = [health EXCEPT !.mark = TRUE] /\ truth' = truth
    BY <1>7 DEF Mark
  <2> QED BY <1>1, <1>7, <2>1 DEF Accounted
<1>8. CASE UNCHANGED env /\ Tick
  <2> DEFINE age == IF env.longrun THEN AtMost(health.age + 1, Interval) ELSE 0
             fps == IF env.fps THEN AtMost(health.fps + 1, FpsTicks) ELSE 0
  <2>1. age \in Nat /\ fps \in Nat
    BY <1>1, Numbers DEF AtMost
  <2>2. health' = [health EXCEPT !.age = age, !.fps = fps] /\ truth' = truth
    BY <1>8 DEF Tick
  <2> HIDE DEF age, fps
  <2> QED BY <1>1, <1>8, <2>1, <2>2 DEF Accounted
<1>9. CASE LoadEnds /\ UNCHANGED env
  BY <1>9 DEF Accounted, LoadEnds
<1> QED
  BY <1>2, <1>3, <1>4, <1>5, <1>6, <1>7, <1>8, <1>9, InstrumentsNext

(* However frames, underruns, marks and lines interleave, and however far  *)
(* the counter runs on, a [health] line tells the underruns since the line *)
(* before, where no [fps] line resets the counter.                         *)
THEOREM HealthLinesTell == Spec => []HealthTells
<1>1. Init => HealthInv
  BY WatchInit, HealthInit DEF HealthInv
<1>2. HealthInv /\ [Next]_vars => HealthInv'
  BY WatchNext, HealthNext DEF HealthInv
<1>3. HealthInv => HealthTells
  <2> SUFFICES ASSUME HealthInv PROVE HealthTells
    OBVIOUS
  <2>1. /\ health.raw \in Nat /\ health.base \in Nat /\ truth.under \in Nat
        /\ ~env.fps => health.raw = health.base + truth.under
    BY DEF HealthInv, Accounted
  <2>2. ~env.fps => ToldUnder = truth.under
    BY <2>1 DEF ToldUnder
  <2> QED BY <2>2 DEF HealthTells
<1> QED
  BY <1>1, <1>2, <1>3, PTL DEF Spec

-----------------------------------------------------------------------------
(* The steps of the script, and where each one leads.                      *)
Following == IF soak.step < 6 THEN Script[soak.step + 1] ELSE Script[1]

LEMMA ScriptIs ==
  ASSUME soak.step \in 1 .. 6
  PROVE  /\ Len(Script) = 6
         /\ Doing = "play" => ScreenOf(Following) = "province"
         /\ Doing = "exit" => Target[Doing] = "map" /\ ScreenOf(Following) = "overlay"
         /\ Doing \notin {"play", "exit"} =>
              /\ ScreenOf(Following) = Leads[Doing]
              /\ Leads[Doing] \in Screens \ {"none", "overlay"}
         /\ Doing # "play" => ScreenOf(Doing) = Target[Doing]
         /\ soak.step = 1 => ScreenOf(Doing) = "menu" /\ Doing # "play"
<1>1. /\ Script[1] = "prophecy" /\ Script[2] = "ok" /\ Script[3] = "play"
      /\ Script[4] = "map" /\ Script[5] = "exit" /\ Script[6] = "confirm"
      /\ Len(Script) = 6
  BY DEF Script
<1>2. soak.step \in {1, 2, 3, 4, 5, 6}
  OBVIOUS
<1>3. /\ Target["prophecy"] = "menu" /\ Target["ok"] = "intro" /\ Target["map"] = "province"
      /\ Target["exit"] = "map" /\ Target["confirm"] = "overlay"
      /\ Leads["prophecy"] = "intro" /\ Leads["ok"] = "province" /\ Leads["map"] = "map"
      /\ Leads["confirm"] = "menu"
  BY DEF Target, Leads
<1> HIDE DEF Script, Target, Leads
<1>4. CASE soak.step = 1
  BY <1>1, <1>3, <1>4 DEF Doing, Following, ScreenOf, Screens
<1>5. CASE soak.step = 2
  BY <1>1, <1>3, <1>5 DEF Doing, Following, ScreenOf, Screens
<1>6. CASE soak.step = 3
  BY <1>1, <1>3, <1>6 DEF Doing, Following, ScreenOf, Screens
<1>7. CASE soak.step = 4
  BY <1>1, <1>3, <1>7 DEF Doing, Following, ScreenOf, Screens
<1>8. CASE soak.step = 5
  BY <1>1, <1>3, <1>8 DEF Doing, Following, ScreenOf, Screens
<1>9. CASE soak.step = 6
  BY <1>1, <1>3, <1>9 DEF Doing, Following, ScreenOf, Screens
<1> QED
  BY <1>2, <1>4, <1>5, <1>6, <1>7, <1>8, <1>9

(* What the game makes of a frame: a press that it has not seen yet finds  *)
(* its screen.                                                             *)
LEMMA PressLands ==
  ASSUME Driven, Frame
  PROVE  /\ game' \in [screen : Screens, next : Screens, wait : Int, button : BOOLEAN,
                       hit : {TRUE}]
         /\ game'.button = (soak.at = 2)
         /\ ~(soak.at = 2 /\ soak.frames = 0) =>
              /\ game'.screen = game.screen /\ game'.next = game.next
              /\ game'.wait = game.wait
         /\ soak.at = 2 /\ soak.frames = 0 =>
              IF Doing = "exit"
              THEN game'.screen = "map" /\ game'.next = "overlay" /\ game'.wait = OverlayTicks
              ELSE game'.screen = "none" /\ game'.next = Leads[Doing]
<1> DEFINE click == Pressed /\ ~game.button
           lands == click /\ game.screen = Target[Doing]
           after == IF lands /\ Doing = "exit"
                    THEN [game EXCEPT !.next = "overlay", !.wait = OverlayTicks]
                    ELSE IF lands
                    THEN [game EXCEPT !.screen = "none", !.next = Leads[Doing],
                                      !.wait = LoadTicks]
                    ELSE game
           hit == game.hit /\ (click => lands)
<1>1. game' = [after EXCEPT !.button = Pressed, !.hit = hit]
  BY DEF Frame, GameFrame
<1>2. /\ game \in [screen : Screens, next : Screens, wait : Int, button : BOOLEAN,
                   hit : {TRUE}]
      /\ soak.step \in 1 .. 6 /\ soak.at \in 0 .. 2 /\ soak.frames \in 0 .. 2
  BY DEF Driven, SoakTypes
<1>3. soak.at = 2 /\ soak.frames = 0 =>
        /\ ~game.button /\ game.screen = Target[Doing] /\ Doing # "play"
        /\ Doing \notin {"play", "exit"} => Leads[Doing] \in Screens
        /\ Doing = "exit" => game.screen = "map"
  <2> SUFFICES ASSUME soak.at = 2, soak.frames = 0
      PROVE  /\ ~game.button /\ game.screen = Target[Doing] /\ Doing # "play"
             /\ Doing \notin {"play", "exit"} => Leads[Doing] \in Screens
             /\ Doing = "exit" => game.screen = "map"
    OBVIOUS
  <2>1. ~soak.clicked /\ Doing # "play"
    BY DEF Driven, Clicking, Unhindered
  <2>2. BeforeClick
    BY <2>1 DEF Driven, Aiming, Held
  <2> QED BY <1>2, <2>1, <2>2, ScriptIs DEF BeforeClick
<1>4. soak.at = 2 /\ soak.frames # 0 => game.button
  BY <1>2 DEF Driven, Held
<1>5. game.hit = TRUE
  BY <1>2
<1>6. click <=> soak.at = 2 /\ soak.frames = 0
  BY <1>2, <1>3, <1>4 DEF Pressed
<1>7. lands <=> soak.at = 2 /\ soak.frames = 0
  BY <1>3, <1>6
<1>8. hit = TRUE
  BY <1>5, <1>6, <1>7
<1>9. Pressed = (soak.at = 2) /\ Pressed \in BOOLEAN
  BY DEF Pressed
<1> HIDE DEF hit, click, lands
<1>10. CASE soak.at = 2 /\ soak.frames = 0
  <2>1. CASE Doing = "exit"
    <3>1. after = [game EXCEPT !.next = "overlay", !.wait = OverlayTicks]
      BY <1>7, <1>10, <2>1
    <3>2. "overlay" \in Screens /\ OverlayTicks \in Int
      BY Numbers DEF Screens
    <3> QED BY <1>1, <1>2, <1>3, <1>8, <1>9, <1>10, <2>1, <3>1, <3>2
  <2>2. CASE Doing # "exit"
    <3>1. after = [game EXCEPT !.screen = "none", !.next = Leads[Doing], !.wait = LoadTicks]
      BY <1>7, <1>10, <2>2
    <3>2. "none" \in Screens /\ LoadTicks \in Int /\ Leads[Doing] \in Screens
      BY <1>3, <1>10, <2>2, Numbers DEF Screens
    <3> HIDE DEF after
    <3> QED BY <1>1, <1>2, <1>8, <1>9, <1>10, <2>2, <3>1, <3>2
  <2> QED BY <2>1, <2>2
<1>11. CASE ~(soak.at = 2 /\ soak.frames = 0)
  <2>1. after = game
    BY <1>7, <1>11
  <2> HIDE DEF after
  <2> QED BY <1>1, <1>2, <1>8, <1>9, <1>11, <2>1
<1> QED
  BY <1>10, <1>11

LEMMA DrivenInit ==
  ASSUME Init
  PROVE  Driven
<1>1. /\ soak = [begun |-> FALSE, step |-> 1, clicked |-> FALSE, at |-> 0, frames |-> 0,
                 before |-> "menu", age |-> 0, cycle |-> 0, done |-> FALSE]
      /\ game = [screen |-> "menu", next |-> "menu", wait |-> 0, button |-> FALSE,
                 hit |-> TRUE]
  BY DEF Init, InitHarness, Untouched
<1>2. SoakTypes
  <2>1. "menu" \in Screens /\ 0 \in 0 .. Patience + 1
    BY Numbers DEF Screens
  <2> QED BY <1>1, <2>1 DEF SoakTypes
<1>3. /\ soak.step = 1 /\ soak.clicked = FALSE /\ soak.at = 0 /\ soak.frames = 0
      /\ game.screen = "menu" /\ game.next = "menu" /\ game.button = FALSE
  BY <1>1
<1>4. ~Clicking /\ ~Held
  BY <1>3 DEF Clicking, Held
<1>5. BeforeClick
  BY <1>3, ScriptIs DEF BeforeClick
<1> QED
  BY <1>2, <1>3, <1>4, <1>5 DEF Driven, Aiming

(* Nobody looks at the driver when the game has come back.                 *)
LEMMA DrivenEnds ==
  ASSUME StartEnds
  PROVE  Driven'
<1>1. /\ soak' = [begun |-> FALSE, step |-> 1, clicked |-> FALSE, at |-> 0, frames |-> 0,
                  before |-> "menu", age |-> 0, cycle |-> 0, done |-> FALSE]
      /\ game' = [screen |-> "menu", next |-> "menu", wait |-> 0, button |-> FALSE,
                  hit |-> TRUE]
  BY DEF StartEnds, Untouched
<1>2. SoakTypes'
  <2>1. "menu" \in Screens /\ 0 \in 0 .. Patience + 1
    BY Numbers DEF Screens
  <2> QED BY <1>1, <2>1 DEF SoakTypes
<1>3. /\ soak'.step = 1 /\ soak'.clicked = FALSE /\ soak'.at = 0 /\ soak'.frames = 0
      /\ game'.screen = "menu" /\ game'.next = "menu" /\ game'.button = FALSE
  BY <1>1
<1>4. ~Clicking' /\ ~Held'
  BY <1>3 DEF Clicking, Held
<1>5. Doing' = "prophecy" /\ ScreenOf("prophecy") = "menu"
  BY <1>3 DEF Doing, Script, ScreenOf, Target
<1>6. BeforeClick'
  BY <1>3, <1>5 DEF BeforeClick
<1> QED
  BY <1>2, <1>3, <1>4, <1>6 DEF Driven, Aiming

LEMMA DrivenSame ==
  ASSUME Driven, UNCHANGED <<soak, game>>, env'.soak = env.soak
  PROVE  Driven'
BY DEF Driven, SoakTypes, Clicking, Unhindered, Held, Aiming, BeforeClick, AfterClick, Doing

LEMMA DrivenLoad ==
  ASSUME Driven, LoadEnds, UNCHANGED env
  PROVE  Driven'
<1>1. /\ game.next # game.screen /\ game' = [game EXCEPT !.screen = game.next, !.wait = 0]
      /\ UNCHANGED soak
  BY DEF LoadEnds, Loading
<1>2. SoakTypes
  BY DEF Driven
<1>3. /\ SoakTypes' /\ game'.screen = game.next /\ game'.next = game.next
      /\ game'.button = game.button
  <2>1. game.next \in Screens /\ 0 \in Int
    BY <1>2 DEF SoakTypes
  <2> HIDE DEF Screens
  <2>2. /\ game' \in [screen : Screens, next : Screens, wait : Int, button : BOOLEAN,
                      hit : {TRUE}]
        /\ game'.screen = game.next /\ game'.next = game.next
        /\ game'.button = game.button
    BY <1>1, <1>2, <2>1 DEF SoakTypes
  <2> QED BY <1>1, <1>2, <2>2 DEF SoakTypes
<1>4. ~Aiming
  BY <1>1 DEF Driven, BeforeClick
<1>5. AfterClick
  BY <1>4 DEF Driven
<1>6. AfterClick'
  BY <1>1, <1>3, <1>5 DEF AfterClick, Doing
<1> QED
  BY <1>1, <1>3, <1>4, <1>6 DEF Driven, Clicking, Unhindered, Held, Aiming, Doing

(* A tick counts for the step and for the overlay alike.                   *)
LEMMA DrivenTick ==
  ASSUME Driven, Tick
  PROVE  Driven'
<1> DEFINE age == AtMost(soak.age + 1, Patience + 1)
<1>1. /\ soak' = IF soak.begun THEN [soak EXCEPT !.age = age] ELSE soak
      /\ game' = IF Loading THEN [game EXCEPT !.wait = game.wait - 1] ELSE game
      /\ UNCHANGED env
  BY DEF Tick
<1>2. SoakTypes
  BY DEF Driven
<1>3. /\ soak.age \in 0 .. Patience + 1 /\ soak.age \in Int /\ game.wait \in Int
      /\ Patience \in Nat /\ FirstTicks \in Nat /\ OverlayTicks \in Nat
      /\ game.wait - 1 \in Int
  BY <1>2, Numbers DEF SoakTypes
<1>4. age \in 0 .. Patience + 1 /\ age \in Int /\ age >= soak.age /\ age <= soak.age + 1
  BY <1>3 DEF AtMost
<1> HIDE DEF age
<1>5. /\ soak' \in [begun : BOOLEAN, step : 1 .. 6, clicked : BOOLEAN, at : 0 .. 2,
                    frames : 0 .. 2, before : Screens, age : 0 .. Patience + 1,
                    cycle : Nat, done : BOOLEAN]
      /\ soak'.begun = soak.begun /\ soak'.step = soak.step /\ soak'.clicked = soak.clicked
      /\ soak'.at = soak.at /\ soak'.frames = soak.frames /\ soak'.cycle = soak.cycle
      /\ soak'.done = soak.done
      /\ soak'.age = IF soak.begun THEN age ELSE soak.age
  BY <1>1, <1>2, <1>4 DEF SoakTypes
<1>6. /\ game' \in [screen : Screens, next : Screens, wait : Int, button : BOOLEAN,
                    hit : {TRUE}]
      /\ game'.screen = game.screen /\ game'.next = game.next /\ game'.button = game.button
      /\ game'.wait = IF Loading THEN game.wait - 1 ELSE game.wait
  BY <1>1, <1>2, <1>3 DEF SoakTypes
<1>7. /\ Doing' = Doing /\ (Held' <=> Held) /\ (Clicking' <=> Clicking)
      /\ (Aiming' <=> Aiming)
  BY <1>5 DEF Doing, Held, Clicking, Aiming
<1>8. Unhindered => Unhindered'
  <2>1. soak.age >= FirstTicks => soak'.age >= FirstTicks
    BY <1>3, <1>4, <1>5
  <2> QED BY <1>1, <1>5, <1>7, <2>1, Zenon DEF Unhindered
<1>9. BeforeClick => BeforeClick'
  BY <1>6, <1>7, Zenon DEF BeforeClick
<1>10. AfterClick => AfterClick'
  <2>1. game.wait <= OverlayTicks => game'.wait <= OverlayTicks
    BY <1>3, <1>6
  <2>2. game.screen = "map" /\ game.next = "overlay" => game'.wait = game.wait - 1
    BY <1>6 DEF Loading
  <2>3. soak'.age \in Int /\ soak'.age <= soak.age + 1
    BY <1>3, <1>4, <1>5
  <2>4. game'.wait = game.wait - 1 /\ game.wait + soak.age <= OverlayTicks
          => game'.wait + soak'.age <= OverlayTicks
    BY <1>3, <2>3
  <2> QED BY <1>5, <1>6, <1>7, <2>1, <2>2, <2>4, Zenon DEF AfterClick
<1> QED
  BY <1>5, <1>6, <1>7, <1>8, <1>9, <1>10, Zenon DEF Driven, SoakTypes

LEMMA SoakFields ==
  ASSUME SoakTypes
  PROVE  /\ soak.step \in 1 .. 6 /\ soak.at \in 0 .. 2 /\ soak.frames \in 0 .. 2
         /\ soak.clicked \in BOOLEAN /\ soak.cycle \in Nat
         /\ soak.age \in Int /\ game.wait \in Int
<1>1. /\ soak.step \in 1 .. 6 /\ soak.at \in 0 .. 2 /\ soak.frames \in 0 .. 2
      /\ soak.clicked \in BOOLEAN /\ soak.cycle \in Nat
      /\ soak.age \in 0 .. Patience + 1 /\ game.wait \in Int
  BY DEF SoakTypes
<1>2. soak.age \in Int
  BY <1>1, Numbers
<1> QED
  BY <1>1, <1>2

(* The driver takes what is on the screen for granted when it plays, ...   *)
LEMMA DriverEnters ==
  ASSUME Driven, Frame, ~soak.clicked, Doing = "play", ActiveScreen \in Screens,
         soak' = [soak EXCEPT !.clicked = TRUE, !.before = ActiveScreen, !.age = 0]
  PROVE  Driven'
<1>1. SoakTypes /\ soak.step \in 1 .. 6 /\ UNCHANGED env /\ 0 \in 0 .. Patience + 1
  <2>1. SoakTypes /\ UNCHANGED env
    BY DEF Driven, Frame
  <2>2. 0 \in 0 .. Patience + 1
    BY Numbers
  <2> QED BY <2>1, <2>2, SoakFields, Numbers
<1>2. ~Clicking
  BY DEF Driven, Unhindered
<1>3. soak.at = 0 /\ soak.frames = 0
  BY <1>1, <1>2 DEF SoakTypes, Clicking
<1>4. BeforeClick
  BY <1>3 DEF Driven, Aiming, Held
<1>5. /\ soak' \in [begun : BOOLEAN, step : 1 .. 6, clicked : BOOLEAN, at : 0 .. 2,
                    frames : 0 .. 2, before : Screens, age : 0 .. Patience + 1,
                    cycle : Nat, done : BOOLEAN]
      /\ soak'.step = soak.step /\ soak'.clicked = TRUE
      /\ soak'.at = 0 /\ soak'.frames = 0
  BY <1>1, <1>3 DEF SoakTypes
<1>6. ~Clicking' /\ ~Held' /\ ~Aiming' /\ Doing' = "play"
  BY <1>5 DEF Clicking, Held, Aiming, Doing
<1>7. game'.screen = "province" /\ game'.next = "province"
  BY <1>3, <1>4, PressLands DEF BeforeClick, ScreenOf
<1>8. AfterClick'
  BY <1>6, <1>7 DEF AfterClick
<1> QED
  BY <1>5, <1>6, <1>8, PressLands DEF Driven, SoakTypes

(* ... aims, presses and releases over the frames of a click, ...          *)
LEMMA ClickStepIs ==
  ASSUME SoakTypes, ActiveScreen \in Screens
  PROVE  /\ Noted(ClickStep) \in
              [begun : BOOLEAN, step : 1 .. 6, clicked : BOOLEAN, at : 0 .. 2,
               frames : 0 .. 2, before : Screens, age : 0 .. Patience + 1, cycle : Nat,
               done : BOOLEAN]
         /\ Noted(ClickStep).step = soak.step /\ Noted(ClickStep).begun = soak.begun
         /\ Noted(ClickStep).done = soak.done /\ Noted(ClickStep).cycle = soak.cycle
         /\ IF soak.frames < 2
            THEN /\ Noted(ClickStep).frames = soak.frames + 1
                 /\ Noted(ClickStep).at = soak.at
                 /\ Noted(ClickStep).clicked = soak.clicked
                 /\ Noted(ClickStep).age = soak.age
            ELSE IF soak.at < 2
            THEN /\ Noted(ClickStep).frames = 0 /\ Noted(ClickStep).at = soak.at + 1
                 /\ Noted(ClickStep).clicked = soak.clicked
                 /\ Noted(ClickStep).age = soak.age
            ELSE /\ Noted(ClickStep).frames = 0 /\ Noted(ClickStep).at = 0
                 /\ Noted(ClickStep).clicked = TRUE /\ Noted(ClickStep).age = 0
<1> DEFINE SoakSet == [begun : BOOLEAN, step : 1 .. 6, clicked : BOOLEAN, at : 0 .. 2,
                       frames : 0 .. 2, before : Screens, age : 0 .. Patience + 1,
                       cycle : Nat, done : BOOLEAN]
<1>1. soak \in SoakSet /\ soak.at \in 0 .. 2 /\ soak.frames \in 0 .. 2 /\ 0 \in 0 .. Patience + 1
  BY Numbers DEF SoakTypes
<1>2. /\ ClickStep \in SoakSet
      /\ ClickStep.step = soak.step /\ ClickStep.begun = soak.begun
      /\ ClickStep.done = soak.done /\ ClickStep.cycle = soak.cycle
      /\ IF soak.frames < 2
         THEN /\ ClickStep.frames = soak.frames + 1 /\ ClickStep.at = soak.at
              /\ ClickStep.clicked = soak.clicked /\ ClickStep.age = soak.age
         ELSE IF soak.at < 2
         THEN /\ ClickStep.frames = 0 /\ ClickStep.at = soak.at + 1
              /\ ClickStep.clicked = soak.clicked /\ ClickStep.age = soak.age
         ELSE /\ ClickStep.frames = 0 /\ ClickStep.at = 0
              /\ ClickStep.clicked = TRUE /\ ClickStep.age = 0
  <2>1. CASE soak.frames < 2
    <3>1. ClickStep = [soak EXCEPT !.frames = soak.frames + 1]
      BY <1>1, <2>1 DEF ClickStep, FramesPerPhase
    <3>2. soak.frames + 1 \in 0 .. 2
      BY <1>1, <2>1
    <3> QED BY <1>1, <2>1, <3>1, <3>2
  <2>2. CASE ~(soak.frames < 2) /\ soak.at < 2
    <3>1. ClickStep = [soak EXCEPT !.frames = 0, !.at = soak.at + 1]
      BY <1>1, <2>2 DEF ClickStep, FramesPerPhase
    <3>2. soak.at + 1 \in 0 .. 2 /\ 0 \in 0 .. 2
      BY <1>1, <2>2
    <3> QED BY <1>1, <2>2, <3>1, <3>2
  <2>3. CASE ~(soak.frames < 2) /\ ~(soak.at < 2)
    <3>1. ClickStep = [soak EXCEPT !.frames = 0, !.at = 0, !.clicked = TRUE, !.age = 0]
      BY <1>1, <2>3 DEF ClickStep, FramesPerPhase
    <3>2. 0 \in 0 .. 2
      OBVIOUS
    <3> QED BY <1>1, <2>3, <3>1, <3>2
  <2> QED BY <2>1, <2>2, <2>3
<1> DEFINE c == ClickStep
<1>3. Noted(c) = c \/ Noted(c) = [c EXCEPT !.before = ActiveScreen]
  BY DEF Noted
<1> HIDE DEF c
<1>4. c \in SoakSet
  BY <1>2 DEF c
<1>5. /\ Noted(c) \in SoakSet
      /\ Noted(c).step = c.step /\ Noted(c).begun = c.begun /\ Noted(c).done = c.done
      /\ Noted(c).cycle = c.cycle /\ Noted(c).frames = c.frames /\ Noted(c).at = c.at
      /\ Noted(c).clicked = c.clicked /\ Noted(c).age = c.age
  BY <1>3, <1>4
<1> QED
  BY <1>2, <1>5 DEF c

LEMMA DriverClicks ==
  ASSUME Driven, Frame, env.soak, soak.begun, ~soak.done, ~soak.clicked,
         Doing # "play", ActiveScreen \in Screens,
         ~(soak.step = 1 /\ soak.cycle = 0 /\ ~soak.clicked /\ soak.age < FirstTicks),
         soak' = Noted(ClickStep)
  PROVE  Driven'
<1>1. SoakTypes /\ soak.step \in 1 .. 6 /\ UNCHANGED env /\ soak.at \in 0 .. 2
      /\ soak.frames \in 0 .. 2 /\ soak.age \in Int
      /\ FirstTicks \in Nat /\ OverlayTicks \in Nat /\ game.wait \in Int
  <2>1. SoakTypes /\ UNCHANGED env
    BY DEF Driven, Frame
  <2>2. 0 \in 0 .. Patience + 1
    BY Numbers
  <2> QED BY <2>1, <2>2, SoakFields, Numbers
<1>2. SoakTypes'
  BY <1>1, ClickStepIs, PressLands DEF SoakTypes
<1>3. /\ soak'.step = soak.step /\ soak'.begun = soak.begun /\ soak'.done = soak.done
      /\ soak'.cycle = soak.cycle
  BY <1>1, ClickStepIs
<1>4. Doing' = Doing
  BY <1>3 DEF Doing
<1>5. soak.step = 1 /\ soak.cycle = 0 => soak.age >= FirstTicks
  BY <1>1
<1>6. /\ game'.button = (soak.at = 2)
      /\ ~(soak.at = 2 /\ soak.frames = 0) =>
           game'.screen = game.screen /\ game'.next = game.next /\ game'.wait = game.wait
      /\ soak.at = 2 /\ soak.frames = 0 =>
           IF Doing = "exit"
           THEN game'.screen = "map" /\ game'.next = "overlay" /\ game'.wait = OverlayTicks
           ELSE game'.screen = "none" /\ game'.next = Leads[Doing]
  BY PressLands
(* Before the press. *)
<1>7. CASE soak.at < 2
  <2>1. /\ soak'.clicked = FALSE /\ soak'.age = soak.age
        /\ ~(soak'.at = 2 /\ soak'.frames > 0)
    BY <1>1, <1>7, ClickStepIs
  <2>2. Unhindered'
    BY <1>1, <1>3, <1>4, <1>5, <2>1 DEF Unhindered
  <2>3. ~Held /\ Aiming /\ ~Held' /\ Aiming'
    BY <1>7, <2>1 DEF Held, Aiming
  <2>4. BeforeClick'
    <3>1. soak.at # 2
      BY <1>7
    <3>2. game'.button = FALSE /\ game'.screen = game.screen /\ game'.next = game.next
      BY <1>6, <3>1
    <3> QED BY <1>4, <2>3, <3>2, Zenon DEF Driven, BeforeClick
  <2> QED BY <1>2, <2>2, <2>3, <2>4 DEF Driven
(* The press, which the game sees once. *)
<1>8. CASE soak.at = 2 /\ soak.frames < 2
  <2>1. /\ soak'.clicked = FALSE /\ soak'.age = soak.age
        /\ soak'.at = 2 /\ soak'.frames > 0
    BY <1>1, <1>8, ClickStepIs
  <2>2. Unhindered'
    BY <1>1, <1>3, <1>4, <1>5, <2>1 DEF Unhindered
  <2>3. Held' /\ ~Aiming' /\ game'.button = TRUE
    BY <1>6, <1>8, <2>1 DEF Held, Aiming
  <2>4. AfterClick'
    <3>1. CASE soak.frames = 0
      <4>1. OverlayTicks <= OverlayTicks
        BY <1>1
      <4> QED BY <1>4, <1>6, <1>8, <2>1, <3>1, <4>1 DEF AfterClick
    <3>2. CASE soak.frames > 0
      <4>1. Held /\ ~Aiming
        BY <1>8, <3>2 DEF Held, Aiming
      <4>2. soak.frames # 0
        BY <3>2
      <4>3. game'.screen = game.screen /\ game'.next = game.next /\ game'.wait = game.wait
        BY <1>6, <4>2
      <4> QED BY <1>4, <2>1, <4>1, <4>3, Zenon DEF Driven, AfterClick
    <3> QED BY <1>1, <3>1, <3>2
  <2> QED BY <1>2, <2>2, <2>3, <2>4 DEF Driven
(* The release. *)
<1>9. CASE soak.at = 2 /\ soak.frames = 2
  <2>1. soak'.clicked = TRUE /\ soak'.age = 0 /\ soak'.at = 0 /\ soak'.frames = 0
    <3>1. ~(soak.frames < 2) /\ ~(soak.at < 2)
      BY <1>9
    <3> QED BY <1>1, <3>1, ClickStepIs
  <2>2. ~Clicking' /\ ~Held' /\ ~Aiming'
    BY <2>1 DEF Clicking, Held, Aiming
  <2>3. Held /\ ~Aiming
    BY <1>9 DEF Held, Aiming
  <2>4. game'.screen = game.screen /\ game'.next = game.next /\ game'.wait = game.wait
    BY <1>6, <1>9
  <2>5. AfterClick'
    <3>1. game.wait <= OverlayTicks => game'.wait + soak'.age <= OverlayTicks
      BY <1>1, <2>1, <2>4
    <3> QED BY <1>4, <2>3, <2>4, <3>1, Zenon DEF Driven, AfterClick
  <2> QED BY <1>2, <2>2, <2>5 DEF Driven
<1> QED
  BY <1>1, <1>7, <1>8, <1>9

(* ... and goes on when the screen of the next step is there: for a change *)
(* of screens it looks, for the overlay it waits long enough.              *)
LEMMA DriverGoesOn ==
  ASSUME Driven, Frame, soak.clicked, StepOver, soak' = NextStep
  PROVE  Driven'
<1>1. /\ SoakTypes /\ soak.step \in 1 .. 6 /\ UNCHANGED env /\ LoadOnTime
      /\ soak.at \in 0 .. 2 /\ soak.frames \in 0 .. 2 /\ soak.age \in Int
      /\ game.wait \in Int /\ 0 \in 0 .. Patience + 1 /\ soak.cycle \in Nat
      /\ Cycles \in Nat /\ Settle \in Nat /\ OverlayTicks \in Nat /\ OverlayTicks <= Settle
  <2>1. SoakTypes /\ UNCHANGED env /\ LoadOnTime
    BY DEF Driven, Frame
  <2>2. 0 \in 0 .. Patience + 1
    BY Numbers
  <2> QED BY <2>1, <2>2, SoakFields, Numbers
<1>2. ~Clicking /\ ~Held /\ ~Aiming
  BY DEF Driven, Unhindered, Held, Clicking, Aiming
<1>3. soak.at = 0 /\ soak.frames = 0
  BY <1>1, <1>2 DEF Clicking
<1>4. /\ soak' \in [begun : BOOLEAN, step : 1 .. 6, clicked : BOOLEAN, at : 0 .. 2,
                    frames : 0 .. 2, before : Screens, age : 0 .. Patience + 1,
                    cycle : Nat, done : BOOLEAN]
      /\ soak'.step = IF soak.step < 6 THEN soak.step + 1 ELSE 1
      /\ soak'.clicked = FALSE /\ soak'.at = 0 /\ soak'.frames = 0
  <2>1. CASE soak.step < 6
    <3>1. soak' = [soak EXCEPT !.clicked = FALSE, !.step = soak.step + 1, !.age = 0]
      BY <1>1, <2>1, ScriptIs DEF NextStep
    <3>2. soak.step + 1 \in 1 .. 6
      BY <1>1, <2>1
    <3> QED BY <1>1, <1>3, <2>1, <3>1, <3>2 DEF SoakTypes
  <2>2. CASE ~(soak.step < 6)
    <3> DEFINE done == soak.cycle + 1 >= Cycles
    <3>1. soak' = [soak EXCEPT !.clicked = FALSE, !.step = 1, !.age = 0,
                               !.cycle = soak.cycle + 1, !.done = done]
      BY <1>1, <2>2, ScriptIs DEF NextStep
    <3>2. soak.cycle + 1 \in Nat /\ 1 \in 1 .. 6 /\ done \in BOOLEAN
      BY <1>1
    <3> HIDE DEF done
    <3> QED BY <1>1, <1>3, <2>2, <3>1, <3>2 DEF SoakTypes
  <2> QED BY <2>1, <2>2
<1>5. Doing' = Following
  BY <1>1, <1>4 DEF Doing, Following
<1>6. ~Clicking' /\ ~Held' /\ Aiming'
  BY <1>4 DEF Clicking, Held, Aiming
<1>7. AfterClick
  BY <1>2 DEF Driven
<1>8. game.screen = ScreenOf(Following) /\ game.next = game.screen
  <2>1. CASE Doing = "play"
    BY <1>1, <1>7, <2>1, ScriptIs DEF AfterClick
  <2>2. CASE Doing = "exit"
    <3>1. soak.age >= Settle
      BY <2>2 DEF StepOver
    <3>2. game.screen = "map" /\ game.next = "overlay" => game.wait > 0
      BY <1>1 DEF LoadOnTime, Loading
    <3>3. ~(game.wait > 0 /\ game.wait + soak.age <= OverlayTicks)
      BY <1>1, <3>1
    <3>4. game.screen = "overlay" /\ game.next = "overlay"
      BY <1>7, <2>2, <3>2, <3>3, Zenon DEF AfterClick
    <3> QED BY <1>1, <2>2, <3>4, ScriptIs
  <2>3. CASE Doing \notin {"play", "exit"}
    <3>1. ActiveScreen # "none"
      BY <2>3 DEF StepOver
    <3>2. game.screen # "none"
      BY <3>1 DEF ActiveScreen
    <3> QED BY <1>1, <1>7, <2>3, <3>2, ScriptIs DEF AfterClick
  <2> QED BY <2>1, <2>2, <2>3
<1>9. BeforeClick'
  <2>1. soak.at # 2
    BY <1>3
  <2>2. game'.screen = game.screen /\ game'.next = game.next /\ game'.button = FALSE
    BY <2>1, PressLands
  <2> QED BY <1>5, <1>8, <2>2, Zenon DEF BeforeClick
<1> QED
  BY <1>4, <1>6, <1>9, PressLands DEF Driven, SoakTypes

(* A frame of the driver, by what it does.                                 *)
LEMMA DrivenFrame ==
  ASSUME Driven, Frame
  PROVE  Driven'
<1>1. SoakTypes /\ soak.step \in 1 .. 6 /\ UNCHANGED env /\ soak' = SoakTick /\ LoadOnTime
  BY DEF Driven, SoakTypes, Frame
<1> DEFINE SoakSet == [begun : BOOLEAN, step : 1 .. 6, clicked : BOOLEAN, at : 0 .. 2,
                       frames : 0 .. 2, before : Screens, age : 0 .. Patience + 1,
                       cycle : Nat, done : BOOLEAN]
           GameSet == [screen : Screens, next : Screens, wait : Int, button : BOOLEAN,
                       hit : {TRUE}]
<1>2. soak \in SoakSet /\ game \in GameSet
  BY <1>1 DEF SoakTypes
<1>3. game' \in GameSet
  BY PressLands
<1>4. soak.at \in {0, 1, 2} /\ soak.frames \in {0, 1, 2} /\ soak.clicked \in BOOLEAN
  BY <1>1 DEF SoakTypes
<1> HIDE DEF SoakSet, GameSet
(* It waits, or gives up; it is not in the middle of a click. *)
<1>5. ASSUME soak' \in SoakSet, ~Clicking, soak'.step = soak.step,
             soak'.clicked = soak.clicked, soak'.at = soak.at, soak'.frames = soak.frames,
             soak'.age = soak.age
      PROVE  Driven'
  <2>1. soak.at # 2 /\ soak.at = 0 /\ soak.frames = 0
    BY <1>4, <1>5 DEF Clicking
  <2>2. /\ game'.screen = game.screen /\ game'.next = game.next /\ game'.wait = game.wait
        /\ game'.button = FALSE
    BY <2>1, PressLands
  <2>3. ~Clicking' /\ ~Held' /\ ~Held /\ Doing' = Doing
    BY <1>5, <2>1 DEF Clicking, Held, Doing
  <2>4. Aiming' <=> Aiming
    BY <1>5, <2>3 DEF Aiming
  <2>5. BeforeClick => BeforeClick'
    BY <2>2, <2>3, Zenon DEF BeforeClick
  <2>6. AfterClick => AfterClick'
    BY <1>5, <2>2, <2>3, Zenon DEF AfterClick
  <2> QED
    BY <1>3, <1>5, <2>3, <2>4, <2>5, <2>6, Zenon DEF Driven, SoakTypes, SoakSet, GameSet
<1>6. CASE soak' = soak /\ ~Clicking
  BY <1>2, <1>5, <1>6
<1>7. CASE env.soak /\ ~soak.done /\ ~soak.begun
  <2>1. soak' = [soak EXCEPT !.begun = TRUE]
    BY <1>1, <1>7 DEF SoakTick
  <2>2. /\ soak' \in SoakSet /\ soak'.step = soak.step
        /\ soak'.clicked = soak.clicked /\ soak'.at = soak.at /\ soak'.frames = soak.frames
        /\ soak'.age = soak.age
    BY <1>2, <2>1 DEF SoakSet
  <2>3. ~Clicking
    BY <1>7 DEF Driven, Unhindered
  <2> QED BY <1>5, <2>2, <2>3
<1>8. CASE env.soak /\ ~soak.done /\ soak.begun /\ soak.clicked /\ ~StepOver
  <2>1. ~Clicking
    BY <1>8 DEF Driven, Unhindered
  <2>2. soak' = soak \/ soak' = [soak EXCEPT !.done = TRUE]
    BY <1>1, <1>8 DEF SoakTick
  <2>3. CASE soak' = soak
    BY <1>6, <2>1, <2>3
  <2>4. CASE soak' = [soak EXCEPT !.done = TRUE]
    <3>1. /\ soak' \in SoakSet /\ soak'.step = soak.step
          /\ soak'.clicked = soak.clicked /\ soak'.at = soak.at
          /\ soak'.frames = soak.frames /\ soak'.age = soak.age
      BY <1>2, <2>4 DEF SoakSet
    <3> QED BY <1>5, <2>1, <3>1
  <2> QED BY <2>2, <2>3, <2>4
<1>9. CASE ~env.soak \/ soak.done
  <2>1. soak' = soak
    BY <1>1, <1>9 DEF SoakTick
  <2>2. ~Clicking
    BY <1>9 DEF Driven, Unhindered
  <2> QED BY <1>6, <2>1, <2>2
<1> DEFINE waits == soak.step = 1 /\ soak.cycle = 0 /\ ~soak.clicked /\ soak.age < FirstTicks
           goes == env.soak /\ ~soak.done /\ soak.begun /\ ~waits
<1>10. CASE env.soak /\ ~soak.done /\ soak.begun /\ waits
  <2>1. soak' = soak
    BY <1>1, <1>10 DEF SoakTick
  <2>2. soak.age \in Int /\ FirstTicks \in Int
    BY <1>1, Numbers DEF SoakTypes
  <2>3. ~Clicking
    BY <1>10, <2>2 DEF Driven, Unhindered
  <2> QED BY <1>6, <2>1, <2>3
(* It clicks, or only notes where it is. *)
<1>11. CASE goes /\ ~soak.clicked
  <2>1. soak' = IF Doing = "play"
                THEN [soak EXCEPT !.clicked = TRUE, !.before = ActiveScreen, !.age = 0]
                ELSE Noted(ClickStep)
    BY <1>1, <1>11 DEF SoakTick
  <2>2. ActiveScreen \in Screens /\ 0 \in 0 .. Patience + 1
    BY <1>1, Numbers DEF ActiveScreen, SoakTypes, Screens
  <2>3. CASE Doing = "play"
    BY <1>1, <1>2, <1>3, <1>4, <1>11, <2>1, <2>2, <2>3, DriverEnters DEF SoakSet, GameSet
  <2>4. CASE Doing # "play"
    BY <1>1, <1>2, <1>3, <1>4, <1>11, <2>1, <2>2, <2>4, DriverClicks DEF SoakSet, GameSet
  <2> QED BY <2>3, <2>4
<1>12. CASE goes /\ soak.clicked /\ StepOver
  <2>1. soak' = NextStep
    BY <1>1, <1>12 DEF SoakTick
  <2> QED BY <1>12, <2>1, DriverGoesOn
<1> QED
  BY <1>7, <1>8, <1>9, <1>10, <1>11, <1>12

LEMMA DrivenNext ==
  ASSUME WatchInv, Driven, [Next]_vars
  PROVE  Driven'
<1>1. CASE UNCHANGED <<soak, game>> /\ env'.soak = env.soak
  BY <1>1, DrivenSame
<1>2. CASE UNCHANGED env /\ (RunBlock \/ Underrun \/ Mark)
  BY <1>2, DrivenSame DEF RunBlock, Underrun, Mark
<1> QED
  BY <1>1, <1>2, InstrumentsNext, DrivenEnds, DrivenFrame, DrivenLoad, DrivenTick

(* Every click of the soak driver finds the screen that it is for.         *)
THEOREM EveryClickLands == Spec => []ClicksOnTarget
<1>1. Init => SoakInv
  BY WatchInit, DrivenInit DEF SoakInv
<1>2. SoakInv /\ [Next]_vars => SoakInv'
  BY WatchNext, DrivenNext DEF SoakInv
<1>3. SoakInv => ClicksOnTarget
  BY DEF SoakInv, Driven, SoakTypes, ClicksOnTarget
<1> QED
  BY <1>1, <1>2, <1>3, PTL DEF Spec

-----------------------------------------------------------------------------
(* The linker.                                                             *)

(* Induction, over a set of numbers.                                       *)
LEMMA Induction ==
  ASSUME NEW T, 0 \in T, \A n \in Nat : n \in T => n + 1 \in T
  PROVE  Nat \subseteq T
<1> DEFINE R == OpToRel(<, Nat)
           F == Nat \ T
<1>1. IsWellFoundedOn(R, Nat)
  BY NatLessThanWellFounded
<1>2. ASSUME NEW x \in Nat, NEW y \in Nat, <<y, x>> \notin R
      PROVE  x <= y
  BY <1>2 DEF OpToRel
<1> HIDE DEF R
<1> SUFFICES ASSUME F # {} PROVE FALSE
  OBVIOUS
<1>3. PICK x \in F : \A y \in F : <<y, x>> \notin R
  <2>1. F \subseteq Nat
    OBVIOUS
  <2> QED
    BY <1>1, <2>1, WFMin
<1>4. \A y \in F : x <= y
  BY <1>2, <1>3
<1>5. x \in Nat /\ x # 0 /\ x - 1 \in Nat /\ x - 1 \notin F
  BY <1>4
<1> QED
  BY <1>3, <1>5

Images == {Game, Mvos}

LEMMA ImageTypes ==
  ASSUME NEW img \in Images
  PROVE  /\ Bias(img) \in Nat
         /\ Len(img.relocs) \in Nat /\ DOMAIN img.relocs = 1 .. Len(img.relocs)
         /\ \A k \in DOMAIN img.relocs :
              /\ img.relocs[k] \in Relocations
              /\ img.relocs[k].sym \in DOMAIN img.syms
         /\ \A i \in DOMAIN img.syms : img.syms[i] \in Symbols
         /\ \A i, j \in DOMAIN img.syms :
              img.syms[i].name = img.syms[j].name /\ img.syms[i].name # "" => i = j
         /\ DOMAIN img.words \subseteq Nat
         /\ \A a \in DOMAIN img.words : img.words[a] \in Int
<1>1. /\ img.syms \in Seq(Symbols) /\ img.relocs \in Seq(Relocations)
      /\ img.words \in [DOMAIN img.words -> Int] /\ DOMAIN img.words \subseteq Nat
      /\ \A i \in DOMAIN img.relocs : img.relocs[i].sym \in DOMAIN img.syms
      /\ \A i, j \in DOMAIN img.syms :
           img.syms[i].name = img.syms[j].name /\ img.syms[i].name # "" => i = j
  BY LinkConstants DEF Images
<1>2. Bias(img) \in Nat
  BY LinkConstants DEF Bias
<1>3. /\ Len(img.relocs) \in Nat /\ DOMAIN img.relocs = 1 .. Len(img.relocs)
      /\ \A k \in DOMAIN img.relocs : img.relocs[k] \in Relocations
  <2> DEFINE q == img.relocs
  <2>1. q \in Seq(Relocations)
    BY <1>1
  <2> HIDE DEF q
  <2>2. Len(q) \in Nat /\ DOMAIN q = 1 .. Len(q) /\ \A k \in DOMAIN q : q[k] \in Relocations
    BY <2>1
  <2> QED
    BY <2>2 DEF q
<1>4. \A i \in DOMAIN img.syms : img.syms[i] \in Symbols
  <2> DEFINE q == img.syms
  <2>1. q \in Seq(Symbols)
    BY <1>1
  <2> HIDE DEF q
  <2>2. \A k \in DOMAIN q : q[k] \in Symbols
    BY <2>1
  <2> QED
    BY <2>2 DEF q
<1>5. \A a \in DOMAIN img.words : img.words[a] \in Int
  <2> DEFINE q == img.words
  <2> HIDE DEF q
  <2>1. q \in [DOMAIN q -> Int]
    BY <1>1 DEF q
  <2>2. \A a \in DOMAIN q : q[a] \in Int
    BY <2>1
  <2> QED
    BY <2>2 DEF q
<1> QED
  BY <1>1, <1>2, <1>3, <1>4, <1>5

(* Where relocation k of an image is.                                      *)
Place(img, k) == img.relocs[k].at + Bias(img)

(* The relocations of these kinds among the first n.                       *)
Among(img, kinds, n) == {k \in 1 .. n : img.relocs[k].type \in kinds}

(* One relocation after the other.                                         *)
Steps(f, m, img, index, kinds, n) ==
  f = [k \in 0 .. n |->
         IF k = 0 THEN m
         ELSE IF img.relocs[k].type \notin kinds THEN f[k - 1]
         ELSE [f[k - 1] EXCEPT ![Place(img, k)] = Applied(img, img.relocs[k], index, @)]]

LEMMA StepsExist ==
  ASSUME NEW m, NEW img \in Images, NEW index, NEW kinds
  PROVE  \A n \in Nat : \E f : Steps(f, m, img, index, kinds, n)
<1> DEFINE T == {n \in Nat : \E f : Steps(f, m, img, index, kinds, n)}
<1>1. 0 \in T
  <2> DEFINE f == [k \in 0 .. 0 |-> m]
  <2>1. Steps(f, m, img, index, kinds, 0)
    BY DEF Steps
  <2> QED
    BY <2>1
<1>2. ASSUME NEW n \in Nat, n \in T PROVE n + 1 \in T
  <2>1. PICK f : Steps(f, m, img, index, kinds, n)
    BY <1>2
  <2> DEFINE w == IF img.relocs[n + 1].type \notin kinds THEN f[n]
                  ELSE [f[n] EXCEPT ![Place(img, n + 1)] =
                                Applied(img, img.relocs[n + 1], index, @)]
             h == [k \in 0 .. n + 1 |-> IF k <= n THEN f[k] ELSE w]
  <2> HIDE DEF w
  <2>2. \A k \in 0 .. n : h[k] = f[k] /\ k \in 0 .. n + 1
    OBVIOUS
  <2>3. h[n + 1] = w
    OBVIOUS
  <2> DEFINE g == [k \in 0 .. n + 1 |->
         IF k = 0 THEN m
         ELSE IF img.relocs[k].type \notin kinds THEN h[k - 1]
         ELSE [h[k - 1] EXCEPT ![Place(img, k)] = Applied(img, img.relocs[k], index, @)]]
  <2> HIDE DEF h
  <2>4. ASSUME NEW k \in 0 .. n + 1 PROVE h[k] = g[k]
    <3>1. CASE k = n + 1
      <4>1. k # 0 /\ k - 1 = n /\ n \in 0 .. n
        BY <3>1
      <4>2. h[k - 1] = f[n]
        BY <4>1, <2>2
      <4> QED
        BY <3>1, <4>1, <4>2, <2>3 DEF w
    <3>2. CASE k \in 0 .. n
      <4>1. h[k] = f[k]
        BY <3>2, <2>2
      <4>2. CASE k = 0
        BY <4>1, <4>2, <2>1 DEF Steps
      <4>3. CASE k # 0
        <5>1. k - 1 \in 0 .. n /\ h[k - 1] = f[k - 1]
          BY <3>2, <4>3, <2>2
        <5>2. f[k] = IF img.relocs[k].type \notin kinds THEN f[k - 1]
                     ELSE [f[k - 1] EXCEPT ![Place(img, k)] =
                                  Applied(img, img.relocs[k], index, @)]
          BY <3>2, <4>3, <2>1 DEF Steps
        <5> QED
          BY <4>1, <4>3, <5>1, <5>2
      <4> QED
        BY <4>2, <4>3
    <3> QED
      BY <3>1, <3>2
  <2>5. h = g
    BY <2>4 DEF h
  <2>6. Steps(h, m, img, index, kinds, n + 1)
    BY <2>5 DEF Steps
  <2> QED
    BY <2>6
<1> QED
  BY <1>1, <1>2, Induction

LEMMA RelocatedSteps ==
  ASSUME NEW m, NEW img \in Images, NEW index, NEW kinds
  PROVE  \E f : /\ Steps(f, m, img, index, kinds, Len(img.relocs))
                /\ Relocated(m, img, index, kinds) = f[Len(img.relocs)]
<1> DEFINE n == Len(img.relocs)
           f == CHOOSE g : Steps(g, m, img, index, kinds, n)
<1>1. Relocated(m, img, index, kinds) = f[n]
  BY DEF Relocated, Steps, Place
<1>2. n \in Nat
  BY ImageTypes
<1>3. \E g : Steps(g, m, img, index, kinds, n)
  BY <1>2, StepsExist
<1>4. Steps(f, m, img, index, kinds, n)
  BY <1>3
<1> HIDE DEF f
<1> QED
  BY <1>1, <1>4

(* What apply leaves of a memory m, when no two relocations are for the    *)
(* same word.                                                              *)
LEMMA RelocatedWords ==
  ASSUME NEW img \in Images, NEW D, NEW m \in [D -> Int], NEW index,
         NEW kinds, "COPY" \notin kinds,
         \A k \in DOMAIN img.relocs :
           img.relocs[k].type \in kinds =>
             Place(img, k) \in D /\ (index[img.relocs[k].sym] \in Int
                                      \/ img.relocs[k].type = "RELATIVE"),
         RelocationsApart
  PROVE  LET w == Relocated(m, img, index, kinds)
         IN  /\ w \in [D -> Int]
             /\ \A a \in D :
                  (\A k \in DOMAIN img.relocs :
                     img.relocs[k].type \in kinds => a # Place(img, k))
                  => w[a] = m[a]
             /\ \A k \in DOMAIN img.relocs :
                  img.relocs[k].type \in kinds =>
                    w[Place(img, k)] = Applied(img, img.relocs[k], index, m[Place(img, k)])
<1> DEFINE N == Len(img.relocs)
<1>1. PICK f : Steps(f, m, img, index, kinds, N) /\ Relocated(m, img, index, kinds) = f[N]
  BY RelocatedSteps
<1> DEFINE Good(n) ==
             /\ f[n] \in [D -> Int]
             /\ \A a \in D :
                  (\A k \in Among(img, kinds, n) : a # Place(img, k)) => f[n][a] = m[a]
             /\ \A k \in Among(img, kinds, n) :
                  f[n][Place(img, k)] = Applied(img, img.relocs[k], index, m[Place(img, k)])
           T == {n \in Nat : n <= N => Good(n)}
<1>2. /\ N \in Nat /\ DOMAIN img.relocs = 1 .. N
      /\ \A k \in 1 .. N : /\ img.relocs[k].at \in Nat /\ Place(img, k) \in Int
                           /\ img.relocs[k].type \in kinds => img.relocs[k].type # "COPY"
  <2>1. Bias(img) \in Nat /\ N \in Nat /\ DOMAIN img.relocs = 1 .. N
    BY ImageTypes
  <2>2. \A k \in 1 .. N : img.relocs[k] \in Relocations
    BY ImageTypes
  <2>3. \A k \in 1 .. N : img.relocs[k].at \in Nat
    BY <2>2 DEF Relocations
  <2> QED
    BY <2>1, <2>3 DEF Place
<1>3. \A j, k \in 1 .. N :
        /\ j # k /\ img.relocs[j].type \in kinds /\ img.relocs[k].type \in kinds
        => Place(img, j) # Place(img, k)
  <2> SUFFICES ASSUME NEW j \in 1 .. N, NEW k \in 1 .. N, j # k,
                      img.relocs[j].type \in kinds, img.relocs[k].type \in kinds
      PROVE  Place(img, j) # Place(img, k)
    OBVIOUS
  <2>1. img.relocs[j].at # img.relocs[k].at
    BY <1>2 DEF RelocationsApart, Images
  <2>2. Bias(img) \in Nat
    BY ImageTypes
  <2> QED
    BY <1>2, <2>1, <2>2 DEF Place
<1>4. ASSUME NEW k \in 1 .. N, img.relocs[k].type \in kinds, NEW A \in Int
      PROVE  Applied(img, img.relocs[k], index, A) \in Int
  <2>1. Bias(img) \in Nat /\ img.relocs[k].at \in Nat
    BY <1>2, ImageTypes
  <2>2. index[img.relocs[k].sym] \in Int \/ img.relocs[k].type = "RELATIVE"
    BY <1>2, <1>4
  <2>3. CASE img.relocs[k].type = "RELATIVE"
    BY <2>1, <2>3 DEF Applied
  <2>4. CASE img.relocs[k].type # "RELATIVE"
    BY <2>1, <2>2, <2>4 DEF Applied
  <2> QED
    BY <2>3, <2>4
<1>5. 0 \in T
  <2>1. f[0] = m
    BY <1>1, <1>2 DEF Steps
  <2> QED
    BY <2>1 DEF Among
<1>6. ASSUME NEW n \in Nat, n \in T PROVE n + 1 \in T
  <2> SUFFICES ASSUME n + 1 <= N PROVE Good(n + 1)
    OBVIOUS
  <2>1. Good(n)
    BY <1>2, <1>6
  <2> HIDE DEF Good, T
  <2> DEFINE r == img.relocs[n + 1]
             P == Place(img, n + 1)
             v == Applied(img, r, index, f[n][P])
  <2>2. n + 1 \in 1 .. N /\ n + 1 \in 0 .. N /\ (n + 1) - 1 = n
    BY <1>2
  <2>3. f[n + 1] = IF r.type \notin kinds THEN f[n] ELSE [f[n] EXCEPT ![P] = v]
    <3>1. \A k \in 0 .. N :
            f[k] = IF k = 0 THEN m
                   ELSE IF img.relocs[k].type \notin kinds THEN f[k - 1]
                   ELSE [f[k - 1] EXCEPT ![Place(img, k)] =
                                     Applied(img, img.relocs[k], index, @)]
      BY <1>1, Zenon DEF Steps
    <3>2. n + 1 # 0
      OBVIOUS
    <3> QED
      BY <2>2, <3>1, <3>2, Zenon
  <2>4. CASE r.type \notin kinds
    <3>1. Among(img, kinds, n + 1) = Among(img, kinds, n)
      BY <2>4 DEF Among
    <3> QED
      BY <2>1, <2>3, <2>4, <3>1 DEF Good
  <2>5. CASE r.type \in kinds
    <3>1. Among(img, kinds, n + 1) = Among(img, kinds, n) \cup {n + 1}
      BY <2>5 DEF Among
    <3>2. P \in D
      BY <1>2, <2>2, <2>5
    <3>3. f[n] \in [D -> Int]
      BY <2>1 DEF Good
    <3>4. \A k \in Among(img, kinds, n) : Place(img, k) # P
      BY <1>2, <1>3, <2>2, <2>5 DEF Among
    <3>5. f[n][P] = m[P]
      BY <2>1, <3>2, <3>4 DEF Good
    <3>6. v \in Int
      BY <1>4, <2>2, <2>5, <3>2, <3>3
    <3> HIDE DEF v, P
    <3>7. f[n + 1] = [f[n] EXCEPT ![P] = v]
      BY <2>3, <2>5
    <3>8. f[n + 1] \in [D -> Int]
      BY <3>2, <3>3, <3>6, <3>7
    <3>9. f[n + 1][P] = v /\ \A a \in D \ {P} : f[n + 1][a] = f[n][a]
      BY <3>2, <3>3, <3>7
    <3>10. \A k \in Among(img, kinds, n) : Place(img, k) \in D
      BY <1>2, <2>2 DEF Among
    <3>11. ASSUME NEW a \in D, \A k \in Among(img, kinds, n + 1) : a # Place(img, k)
           PROVE  f[n + 1][a] = m[a]
      <4>1. a # P /\ \A k \in Among(img, kinds, n) : a # Place(img, k)
        BY <3>1, <3>11 DEF P
      <4>2. f[n][a] = m[a]
        BY <2>1, <4>1 DEF Good
      <4> QED
        BY <4>1, <4>2, <3>9
    <3>12. ASSUME NEW k \in Among(img, kinds, n + 1)
           PROVE  f[n + 1][Place(img, k)]
                    = Applied(img, img.relocs[k], index, m[Place(img, k)])
      <4>1. CASE k = n + 1
        BY <3>5, <3>9, <4>1 DEF P, v
      <4>2. CASE k \in Among(img, kinds, n)
        <5>1. f[n + 1][Place(img, k)] = f[n][Place(img, k)]
          BY <3>4, <3>9, <3>10, <4>2
        <5>2. f[n][Place(img, k)] = Applied(img, img.relocs[k], index, m[Place(img, k)])
          BY <2>1, <4>2 DEF Good
        <5> QED
          BY <5>1, <5>2
      <4> QED
        BY <3>1, <3>12, <4>1, <4>2
    <3> QED
      BY <3>8, <3>11, <3>12 DEF Good
  <2> QED
    BY <2>4, <2>5
<1>7. N \in T
  BY <1>2, <1>5, <1>6, Induction
<1>8. Good(N)
  BY <1>2, <1>7
<1>9. \A k \in 1 .. N : img.relocs[k].type \in kinds <=> k \in Among(img, kinds, N)
  BY DEF Among
<1> QED
  BY <1>1, <1>2, <1>8, <1>9 DEF Among

(* The homes of names.                                                     *)

Exports(img) == {i \in DOMAIN img.syms : /\ img.syms[i].def /\ ~img.syms[i].local
                                         /\ img.syms[i].name # ""}

LEMMA DefinedAt ==
  ASSUME NEW img \in Images, NEW i \in Exports(img)
  PROVE  /\ img.syms[i].name \in DOMAIN Defs(img)
         /\ Defs(img)[img.syms[i].name] = Bias(img) + img.syms[i].value
<1> DEFINE n == img.syms[i].name
           E == Exports(img)
           c == CHOOSE j \in E : img.syms[j].name = n
<1>1. Defs(img) = [m \in {img.syms[j].name : j \in E} |->
                     Bias(img) + img.syms[CHOOSE j \in E : img.syms[j].name = m].value]
  BY DEF Defs, Exports
<1>2. c \in E /\ img.syms[c].name = n
  OBVIOUS
<1>3. c = i
  BY <1>2, ImageTypes DEF Exports
<1> HIDE DEF c
<1>4. n \in {img.syms[j].name : j \in E}
  OBVIOUS
<1>5. Defs(img)[n] = Bias(img) + img.syms[c].value
  BY <1>1, <1>4, Zenon DEF c
<1> QED
  BY <1>1, <1>3, <1>4, <1>5

LEMMA DefinedBy ==
  ASSUME NEW img \in Images, NEW n \in DOMAIN Defs(img)
  PROVE  \E i \in Exports(img) : img.syms[i].name = n
BY DEF Defs, Exports

LEMMA DefinitionTypes ==
  ASSUME NEW img \in Images, NEW n \in DOMAIN Defs(img)
  PROVE  /\ Defs(img)[n] \in Nat /\ n # ""
         /\ NamesBindable => Defs(img)[n] # 0
<1>1. PICK i \in Exports(img) : img.syms[i].name = n
  BY DefinedBy
<1> DEFINE s == img.syms[i]
<1>2. Defs(img)[n] = Bias(img) + s.value /\ n # ""
  BY <1>1, DefinedAt DEF Exports
<1>3. i \in DOMAIN img.syms /\ s.def /\ s.value \in Nat
  BY <1>1, ImageTypes DEF Exports, Symbols
<1>4. Bias(img) \in Nat /\ (img = Mvos => Bias(img) # 0)
  BY ImageTypes, LinkConstants DEF Bias
<1>5. NamesBindable /\ img = Game => s.value # 0
  BY <1>3 DEF NamesBindable
<1>6. img = Game \/ img = Mvos
  BY DEF Images
<1>7. NamesBindable => Bias(img) # 0 \/ s.value # 0
  BY <1>4, <1>5, <1>6
<1>8. \A a, b \in Nat : a + b \in Nat /\ (a # 0 \/ b # 0 => a + b # 0)
  OBVIOUS
<1>9. s.value \in Nat /\ Bias(img) \in Nat
  BY <1>3, <1>4
<1> HIDE DEF s
<1> QED
  BY <1>2, <1>7, <1>8, <1>9, Zenon

LEMMA HleIsFinite == IsFiniteSet(Hle)
<1>1. ASSUME NEW img \in Images PROVE IsFiniteSet(Undefined(img))
  <2> DEFINE q == img.syms
             J == {j \in DOMAIN q : ~q[j].def}
             name == [j \in J |-> q[j].name]
  <2>1. q \in Seq(Symbols)
    BY LinkConstants DEF Images
  <2>2. DOMAIN q = 1 .. Len(q) /\ Len(q) \in Nat
    <3> HIDE DEF q
    <3> QED BY <2>1
  <2>3. IsFiniteSet(DOMAIN q)
    BY <2>2, FS_Interval
  <2>4. IsFiniteSet(J)
    BY <2>3, FS_Subset
  <2>5. IsFiniteSet({name[j] : j \in J})
    <3>1. name \in Surjection(J, {name[j] : j \in J})
      BY DEF Surjection
    <3> QED
      BY <2>4, <3>1, FS_Surjection
  <2>6. Undefined(img) \subseteq {name[j] : j \in J}
    BY DEF Undefined
  <2> QED
    BY <2>5, <2>6, FS_Subset
<1>2. IsFiniteSet(Undefined(Game) \cup Undefined(Mvos))
  BY <1>1, FS_Union DEF Images
<1>3. Hle \subseteq Undefined(Game) \cup Undefined(Mvos)
  BY DEF Hle
<1> QED
  BY <1>2, <1>3, FS_Subset

LEMMA TrapTypes == ASSUME NEW n \in Hle PROVE TrapOf(n) \in Nat \ {0}
<1> DEFINE S == Hle
           N == Cardinality(S)
           q == SetToSeq(S)
<1>1. IsFiniteSet(S) /\ N \in Nat /\ IsFiniteSet(1 .. N) /\ Cardinality(1 .. N) = N
  BY HleIsFinite, FS_CardinalityType, FS_Interval
<1>2. \E f : f \in [1 .. N -> S] /\ IsInjective(f)
  <2>1. PICK f : f \in Bijection(1 .. N, S)
    BY <1>1, FS_CardinalityType DEF ExistsBijection
  <2> QED
    BY <2>1 DEF Bijection, Injection
<1>3. q \in [1 .. N -> S] /\ IsInjective(q)
  <2>1. q = CHOOSE f \in [1 .. N -> S] : IsInjective(f)
    BY DEF SetToSeq
  <2> HIDE DEF q, N, S
  <2> QED
    BY <1>2, <2>1
<1> HIDE DEF q
<1>4. q \in Surjection(1 .. N, S)
  <2>1. q \in Injection(1 .. N, S)
    BY <1>3 DEF Injection
  <2> QED
    BY <1>1, <2>1, FS_Injection
<1>5. \E i \in DOMAIN q : q[i] = n
  BY <1>3, <1>4 DEF Surjection
<1> DEFINE c == CHOOSE i \in DOMAIN q : q[i] = n
<1>6. c \in 1 .. N
  BY <1>3, <1>5
<1>7. TrapOf(n) = TrapBase + c - 1
  BY DEF TrapOf, q
<1> HIDE DEF c
<1>8. TrapBase \in Nat /\ TrapBase # 0
  BY LinkConstants
<1> HIDE DEF N, S
<1> QED
  BY <1>1, <1>6, <1>7, <1>8

(* What the game copies is at home in the game.                            *)
LEMMA CopiedHome ==
  ASSUME ImagesFit, NEW i \in Copies
  PROVE  /\ i \in DOMAIN Game.relocs /\ Game.relocs[i].type = "COPY"
         /\ Game.relocs[i].at \in Nat
         /\ CopiedName(i) \in DOMAIN Defs(Game) /\ CopiedName(i) # ""
         /\ Defs(Game)[CopiedName(i)] = Game.relocs[i].at
         /\ HomeOf(CopiedName(i)) = Game.relocs[i].at
<1> DEFINE r == Game.relocs[i]
           c == Game.syms[r.sym]
<1>1. i \in DOMAIN Game.relocs /\ r.type = "COPY" /\ CopiedName(i) = c.name
  BY DEF Copies, CopiedName
<1>2. r.sym \in DOMAIN Game.syms /\ r.at \in Nat /\ c.value \in Nat
  BY <1>1, ImageTypes DEF Images, Relocations, Symbols
<1>3. c.def /\ c.value = r.at
  BY DEF ImagesFit, CopiesFit
<1>4. c.name # "" /\ ~c.local
  BY <1>1, <1>3 DEF ImagesFit, NamesBindable, ABS
<1>5. r.sym \in Exports(Game)
  BY <1>2, <1>3, <1>4 DEF Exports
<1>6. Bias(Game) = 0
  BY DEF Bias, ImagesFit, ImagesApart
<1>7. c.name \in DOMAIN Defs(Game) /\ Defs(Game)[c.name] = 0 + c.value
  BY <1>5, <1>6, DefinedAt DEF Images
<1>8. c.name # "__ctype_b"
  BY <1>7 DEF ImagesFit, NamesBindable
<1>9. HomeOf(c.name) = Defs(Game)[c.name]
  BY <1>7, <1>8 DEF HomeOf
<1>10. 0 + c.value = r.at
  BY <1>2, <1>3
<1> QED
  BY <1>1, <1>2, <1>4, <1>7, <1>9, <1>10

(* A binding that puts names where the loader does.                        *)
HomeBound ==
  /\ DOMAIN FirstBinding \subseteq DOMAIN bind
  /\ "" \notin DOMAIN bind
  /\ \A n \in DOMAIN bind : bind[n] = HomeOf(n)

LEMMA BindingDomain ==
  DOMAIN FirstBinding = DOMAIN Defs(Game) \cup DOMAIN Defs(Mvos) \cup {"__ctype_b"}
BY DEF FirstBinding, Seeded

LEMMA FirstIsHome == ASSUME bind = FirstBinding PROVE HomeBound
<1>1. \A n \in DOMAIN FirstBinding : FirstBinding[n] = HomeOf(n)
  BY DEF FirstBinding, Seeded, HomeOf
<1>2. "" \notin DOMAIN FirstBinding
  BY BindingDomain, DefinitionTypes DEF Images
<1> QED
  BY <1>1, <1>2 DEF HomeBound

(* The names that both images refer to.                                    *)
LEMMA Referred ==
  ASSUME ImagesFit, NEW img \in Images, NEW k \in DOMAIN img.relocs,
         img.relocs[k].type # "RELATIVE"
  PROVE  LET s == img.syms[img.relocs[k].sym]
         IN  /\ img.relocs[k].sym \in DOMAIN img.syms
             /\ s.name = "" => s.def /\ img.relocs[k].type \in ABS
             /\ s.def /\ s.name # "" =>
                  s.name \in DOMAIN Defs(img) /\ Defs(img)[s.name] = Bias(img) + s.value
             /\ ~s.def => s.name \in DOMAIN FirstBinding \cup Hle
<1> DEFINE s == img.syms[img.relocs[k].sym]
<1>1. img.relocs[k].sym \in DOMAIN img.syms
  BY ImageTypes
<1>2. /\ s.name = "" => s.def /\ img.relocs[k].type \in ABS
      /\ s.def /\ s.name # "" => ~s.local
  BY DEF ImagesFit, NamesBindable, Images
<1>3. s.def /\ s.name # "" => img.relocs[k].sym \in Exports(img)
  BY <1>1, <1>2 DEF Exports
<1>4. s.def /\ s.name # "" =>
         s.name \in DOMAIN Defs(img) /\ Defs(img)[s.name] = Bias(img) + s.value
  BY <1>3, DefinedAt
<1>5. ~s.def => s.name \in Undefined(img)
  BY <1>1, <1>2 DEF Undefined
<1>6. ~s.def => s.name \in DOMAIN FirstBinding \cup Hle
  BY <1>5, BindingDomain DEF Hle, Images
<1> QED
  BY <1>1, <1>2, <1>4, <1>6

(* A bound name, or an import of the host's, has an address.               *)
LEMMA HomeTypes ==
  ASSUME ImagesFit, NEW n \in DOMAIN FirstBinding \cup Hle
  PROVE  HomeOf(n) \in Nat \ {0}
<1>1. CASE n = "__ctype_b"
  <2>1. LibcData \in Nat /\ LibcData # 0
    BY LinkConstants
  <2> QED
    BY <1>1, <2>1 DEF HomeOf
<1>2. CASE n # "__ctype_b" /\ n \in DOMAIN Defs(Game)
  BY <1>2, DefinitionTypes DEF HomeOf, ImagesFit, Images
<1>3. CASE n # "__ctype_b" /\ n \notin DOMAIN Defs(Game) /\ n \in DOMAIN Defs(Mvos)
  BY <1>3, DefinitionTypes DEF HomeOf, ImagesFit, Images
<1>4. CASE n # "__ctype_b" /\ n \notin DOMAIN Defs(Game) /\ n \notin DOMAIN Defs(Mvos)
  BY <1>4, BindingDomain, TrapTypes DEF HomeOf
<1> QED
  BY <1>1, <1>2, <1>3, <1>4

LEMMA ResolveHome ==
  ASSUME ImagesFit, HomeBound, NEW n \in DOMAIN FirstBinding \cup Hle
  PROVE  Resolve(n) = HomeOf(n)
<1>1. CASE n \in DOMAIN bind
  BY <1>1 DEF Resolve, HomeBound
<1>2. CASE n \notin DOMAIN bind
  <2>1. n \in Hle /\ n \notin DOMAIN FirstBinding
    BY <1>2 DEF HomeBound
  <2>2. HomeOf(n) = TrapOf(n)
    BY <2>1, BindingDomain DEF HomeOf
  <2> QED
    BY <1>2, <2>1, <2>2 DEF Resolve
<1> QED
  BY <1>1, <1>2

(* What the passes make of a name that is referred to by address: a symbol *)
(* that the image defines is its own, unless it is data that the game has  *)
(* copied.  It is what the dynamic linker finds if none hides it.          *)
AbsoluteHome(img, s) ==
  IF s.def /\ (s.name = "" \/ s.name \in Vtables \/ img = Game) THEN Bias(img) + s.value
  ELSE IF s.def /\ ~\E i \in Copies : CopiedName(i) = s.name THEN Bias(img) + s.value
  ELSE HomeOf(s.name)

LEMMA NameIsHome ==
  ASSUME NEW img, NEW s, s.name # "" PROVE HomeOf(s.name) \in Homes(img, s)
<1>1. Homes(img, s) = {HomeOf(s.name)} \cup
        (IF s.def /\ s.name \in Vtables /\ IsCopied(s.name)
         THEN {Bias(img) + s.value} ELSE {})
  BY Zenon DEF Homes
<1> QED
  BY <1>1

LEMMA AbsoluteIsHome ==
  ASSUME ImagesFit, NEW img \in Images, NEW k \in DOMAIN img.relocs,
         img.relocs[k].type \in ABS, ~Hidden(img, img.syms[img.relocs[k].sym])
  PROVE  LET s == img.syms[img.relocs[k].sym]
         IN  AbsoluteHome(img, s) \in Homes(img, s) /\ AbsoluteHome(img, s) \in Int
<1> DEFINE j == img.relocs[k].sym
           s == img.syms[j]
<1>1. img.relocs[k].type # "RELATIVE"
  BY DEF ABS
<1>2. /\ j \in DOMAIN img.syms
      /\ s.name = "" => s.def
      /\ s.def /\ s.name # "" =>
           s.name \in DOMAIN Defs(img) /\ Defs(img)[s.name] = Bias(img) + s.value
      /\ ~s.def => s.name \in DOMAIN FirstBinding \cup Hle
  BY <1>1, Referred
<1>3. s.value \in Nat /\ Bias(img) \in Nat
  BY <1>2, ImageTypes DEF Symbols
<1>4. CASE s.name = ""
  <2>1. AbsoluteHome(img, s) = Bias(img) + s.value
    BY <1>2, <1>4 DEF AbsoluteHome
  <2>2. Homes(img, s) = {Bias(img) + s.value}
    BY <1>4, Zenon DEF Homes
  <2> QED
    BY <1>3, <2>1, <2>2
<1>5. CASE s.name # "" /\ ~s.def
  <2>1. AbsoluteHome(img, s) = HomeOf(s.name)
    BY <1>5 DEF AbsoluteHome
  <2>2. HomeOf(s.name) \in Nat \ {0}
    BY <1>2, <1>5, HomeTypes
  <2>3. HomeOf(s.name) \in Homes(img, s)
    BY <1>5, NameIsHome
  <2> QED
    BY <2>1, <2>2, <2>3
<1>6. CASE s.name # "" /\ s.def
  <2>1. s.name \in DOMAIN Defs(img) /\ Defs(img)[s.name] = Bias(img) + s.value
    BY <1>2, <1>6
  <2>2. HomeOf(s.name) \in Int /\ HomeOf(s.name) \in Homes(img, s)
    <3>1. s.name \in DOMAIN FirstBinding
      BY <2>1, BindingDomain DEF Images
    <3>2. HomeOf(s.name) \in Nat \ {0}
      BY <3>1, HomeTypes
    <3>3. HomeOf(s.name) \in Homes(img, s)
      BY <1>6, NameIsHome
    <3> QED
      BY <3>2, <3>3
  <2>3. s.name # "__ctype_b"
    BY <2>1 DEF ImagesFit, NamesBindable, Images
  <2>4. CASE img = Game
    BY <1>6, <2>1, <2>2, <2>3, <2>4 DEF AbsoluteHome, HomeOf
  <2>5. CASE img = Mvos /\ IsCopied(s.name)
    <3>1. CASE s.name \in Vtables
      <4>1. AbsoluteHome(img, s) = Bias(img) + s.value
        BY <1>6, <3>1 DEF AbsoluteHome
      <4>2. Bias(img) + s.value \in Homes(img, s)
        BY <1>6, <2>5, <3>1, Zenon DEF Homes
      <4> QED
        BY <1>3, <4>1, <4>2
    <3>2. CASE s.name \notin Vtables /\ img # Game
      <4>1. AbsoluteHome(img, s) = HomeOf(s.name)
        BY <1>6, <2>5, <3>2 DEF AbsoluteHome, IsCopied
      <4> QED
        BY <2>2, <4>1
    <3> QED
      BY <2>4, <3>1, <3>2
  <2>6. CASE img = Mvos /\ img # Game /\ ~IsCopied(s.name)
    <3>1. s.name \notin DOMAIN Defs(Game)
      BY <1>6, <2>6 DEF Hidden
    <3>2. HomeOf(s.name) = Bias(img) + s.value
      BY <2>1, <2>3, <2>6, <3>1 DEF HomeOf
    <3>3. AbsoluteHome(img, s) = Bias(img) + s.value
      BY <1>6, <2>6 DEF AbsoluteHome, IsCopied
    <3> QED
      BY <2>2, <3>2, <3>3
  <2> QED
    BY <2>4, <2>5, <2>6 DEF Images
<1> QED
  BY <1>4, <1>5, <1>6

(* What libmvos is relocated with: its own definitions, and the game's for *)
(* what the game copies.                                                   *)
LEMMA OwnIndex ==
  ASSUME ImagesFit, bind = FirstBinding, NEW k \in DOMAIN Mvos.relocs,
         Mvos.relocs[k].type # "RELATIVE"
  PROVE  LET s == Mvos.syms[Mvos.relocs[k].sym]
         IN  /\ OwnIndexes(Mvos)[Mvos.relocs[k].sym] = AbsoluteHome(Mvos, s)
             /\ AbsoluteHome(Mvos, s) \in Int
<1> DEFINE j == Mvos.relocs[k].sym
           s == Mvos.syms[j]
           own == OwnIndexes(Mvos)[j]
<1>0. Game # Mvos /\ Mvos \in Images
  BY DEF ImagesFit, ImagesApart, Images
<1>1. /\ j \in DOMAIN Mvos.syms
      /\ s.name = "" => s.def
      /\ ~s.def => s.name \in DOMAIN FirstBinding \cup Hle
  BY <1>0, Referred
<1>2. s.value \in Nat /\ Bias(Mvos) \in Nat
  BY <1>0, <1>1, ImageTypes DEF Symbols
<1>3. own = IF ~s.def THEN Resolve(s.name)
            ELSE IF s.name \in DOMAIN SharedData THEN SharedData[s.name]
            ELSE Bias(Mvos) + s.value
  BY <1>1 DEF OwnIndexes
<1>4. CASE ~s.def
  <2>1. own = HomeOf(s.name) /\ HomeOf(s.name) \in Int
    <3>1. s.name \in DOMAIN FirstBinding \cup Hle
      BY <1>1, <1>4
    <3>2. Resolve(s.name) = HomeOf(s.name)
      BY <3>1, FirstIsHome, ResolveHome
    <3>3. HomeOf(s.name) \in Int
      BY <3>1, HomeTypes
    <3> QED
      BY <1>3, <1>4, <3>2, <3>3
  <2>2. AbsoluteHome(Mvos, s) = HomeOf(s.name)
    BY <1>4 DEF AbsoluteHome
  <2> QED
    BY <2>1, <2>2
<1>5. DOMAIN SharedData = {CopiedName(i) : i \in Copies} \ (Vtables \cup {""})
  BY DEF SharedData
<1>6. CASE s.def /\ s.name \notin DOMAIN SharedData
  <2>1. own = Bias(Mvos) + s.value
    BY <1>3, <1>6
  <2>2. AbsoluteHome(Mvos, s) = Bias(Mvos) + s.value
    BY <1>5, <1>6 DEF AbsoluteHome
  <2> QED
    BY <1>2, <2>1, <2>2
<1>7. CASE s.def /\ s.name \in DOMAIN SharedData
  <2> DEFINE c == CHOOSE i \in Copies : CopiedName(i) = s.name
  <2>1. c \in Copies /\ CopiedName(c) = s.name
    BY <1>5, <1>7
  <2>2. SharedData[s.name] = Game.relocs[c].at
    BY <1>7 DEF SharedData
  <2> HIDE DEF c
  <2>3. own = HomeOf(s.name) /\ HomeOf(s.name) \in Int
    <3>1. HomeOf(s.name) = Game.relocs[c].at /\ Game.relocs[c].at \in Nat
      BY <2>1, CopiedHome
    <3>2. own = SharedData[s.name]
      BY <1>3, <1>7
    <3> QED
      BY <2>2, <3>1, <3>2
  <2>4. AbsoluteHome(Mvos, s) = HomeOf(s.name)
    BY <1>0, <1>5, <1>7, <2>1 DEF AbsoluteHome
  <2> QED
    BY <2>3, <2>4
<1> QED
  BY <1>4, <1>6, <1>7

(* What the binding gives the slots of either image, and the game.         *)
LEMMA GlobalIndex ==
  ASSUME ImagesFit, HomeBound, NEW img \in Images, NEW k \in DOMAIN img.relocs,
         img.relocs[k].type \in GOT \/ (img.relocs[k].type \in ABS /\ img = Game)
  PROVE  LET s == img.syms[img.relocs[k].sym]
             S == GlobalIndexes(img)[img.relocs[k].sym]
         IN  /\ S \in Int
             /\ img.relocs[k].type \in GOT => S = HomeOf(s.name) /\ S # 0
             /\ img.relocs[k].type \in ABS => S = AbsoluteHome(img, s)
<1> DEFINE j == img.relocs[k].sym
           s == img.syms[j]
           S == GlobalIndexes(img)[j]
<1>1. img.relocs[k].type # "RELATIVE"
  BY DEF GOT, ABS
<1>2. /\ j \in DOMAIN img.syms
      /\ s.name = "" => s.def /\ img.relocs[k].type \in ABS
      /\ s.def /\ s.name # "" =>
           s.name \in DOMAIN Defs(img) /\ Defs(img)[s.name] = Bias(img) + s.value
      /\ ~s.def => s.name \in DOMAIN FirstBinding \cup Hle
  BY <1>1, Referred
<1>3. S = IF s.name \in DOMAIN bind THEN bind[s.name]
          ELSE IF s.def THEN Bias(img) + s.value ELSE Resolve(s.name)
  BY <1>2 DEF GlobalIndexes
<1>4. s.value \in Nat /\ Bias(img) \in Nat
  BY <1>2, ImageTypes DEF Symbols
<1>5. ABS \cap GOT = {}
  BY DEF ABS, GOT
<1>6. CASE s.name = ""
  <2>1. S = Bias(img) + s.value
    BY <1>2, <1>3, <1>6 DEF HomeBound
  <2>2. img.relocs[k].type \notin GOT
    BY <1>2, <1>5, <1>6
  <2>3. AbsoluteHome(img, s) = Bias(img) + s.value
    BY <1>2, <1>6 DEF AbsoluteHome
  <2> QED
    BY <1>4, <2>1, <2>2, <2>3
<1>7. CASE s.name # ""
  <2>1. s.name \in DOMAIN FirstBinding \cup Hle
    BY <1>2, <1>7, BindingDomain DEF Images
  <2>2. S = HomeOf(s.name)
    <3>1. CASE s.name \in DOMAIN bind
      BY <1>3, <3>1 DEF HomeBound
    <3>2. CASE s.name \notin DOMAIN bind
      <4>1. ~s.def
        BY <1>2, <1>7, <3>2, BindingDomain DEF HomeBound, Images
      <4> QED
        BY <1>3, <2>1, <3>2, <4>1, ResolveHome
    <3> QED
      BY <3>1, <3>2
  <2>3. S \in Int /\ S # 0
    BY <2>1, <2>2, HomeTypes
  <2>4. ASSUME img.relocs[k].type \in ABS PROVE AbsoluteHome(img, s) = HomeOf(s.name)
    <3>1. img = Game
      BY <1>5, <2>4
    <3>2. CASE ~s.def
      BY <3>2 DEF AbsoluteHome
    <3>3. CASE s.def
      <4>1. s.name \in DOMAIN Defs(Game) /\ Defs(Game)[s.name] = Bias(img) + s.value
        BY <1>2, <1>7, <3>1, <3>3
      <4>2. s.name # "__ctype_b"
        BY <4>1 DEF ImagesFit, NamesBindable
      <4> QED
        BY <3>1, <3>3, <4>1, <4>2 DEF AbsoluteHome, HomeOf
    <3> QED
      BY <3>2, <3>3
  <2> QED
    BY <2>2, <2>3, <2>4
<1> QED
  BY <1>6, <1>7

(* Memory, from pass to pass.                                              *)

Sites(img) == {Place(img, k) : k \in {j \in DOMAIN img.relocs : img.relocs[j].type # "COPY"}}

CopiedWords == UNION {CopyRange(i) : i \in Copies}

(* The words but those of S, and the host's, are as in the files.          *)
KeptBut(S) == \A a \in DOMAIN FileWords \ (S \cup {LibcData}) : mem[a] = FileWords[a]

(* What the passes leave for a relocation.                                 *)
AsLinked(img, r) ==
  LET s == img.syms[r.sym]
      w == mem[r.at + Bias(img)]
      A == img.words[r.at]
  IN  /\ r.type = "RELATIVE" => w = A + Bias(img)
      /\ r.type = "32" => w = AbsoluteHome(img, s) + A
      /\ r.type = "PC32" => w = AbsoluteHome(img, s) + A - (r.at + Bias(img))
      /\ r.type \in GOT => w = HomeOf(s.name) /\ w # 0
      /\ r.type = "COPY" /\ s.name \in DOMAIN Defs(Mvos) =>
           \A d \in 0 .. s.size - 1 : mem[r.at + d] = mem[Defs(Mvos)[s.name] + d]

AllLinked ==
  pass = "linked" =>
    /\ DOMAIN mem = DOMAIN FileWords
    /\ \A a \in DOMAIN mem \ (Designated(Game) \cup Designated(Mvos) \cup {LibcData}) :
         mem[a] = FileWords[a]
    /\ \A img \in {Game, Mvos} : \A k \in DOMAIN img.relocs : AsLinked(img, img.relocs[k])

(* The relocations of these kinds are done.                                *)
Loaded(img, kinds) ==
  \A k \in DOMAIN img.relocs : img.relocs[k].type \in kinds => AsLinked(img, img.relocs[k])

LinkInv ==
  /\ pass \in {"map", "relocate", "copy", "got", "game", "linked", "done"}
  /\ pass \notin {"map", "done"} => mem \in [DOMAIN FileWords -> Int]
  /\ pass \in {"relocate", "copy"} => bind = FirstBinding
  /\ pass \in {"got", "game"} => HomeBound /\ Loaded(Game, {"COPY"})
                                 /\ KeptBut(Sites(Mvos) \cup CopiedWords)
  /\ pass = "relocate" => KeptBut({})
  /\ pass = "copy" => KeptBut(Sites(Mvos))
  /\ pass \in {"copy", "got", "game"} => Loaded(Mvos, REL \cup ABS)
  /\ pass = "game" => Loaded(Mvos, GOT)
  /\ AllLinked

LEMMA Files ==
  ASSUME ImagesFit
  PROVE  /\ FileWords \in [DOMAIN FileWords -> Int]
         /\ LibcData \in DOMAIN FileWords
         /\ \A img \in Images : \A a \in DOMAIN img.words :
              /\ a + Bias(img) \in DOMAIN FileWords \ {LibcData}
              /\ FileWords[a + Bias(img)] = img.words[a]
         /\ \A a \in DOMAIN Game.words, b \in DOMAIN Mvos.words : a # b + Bias(Mvos)
<1>0. Game # Mvos /\ Bias(Game) = 0 /\ Bias(Mvos) = MvosBase /\ MvosBase \in Nat
  BY LinkConstants DEF ImagesFit, ImagesApart, Bias
<1>1. /\ \A a \in DOMAIN Game.words : a \in Nat /\ Game.words[a] \in Int
      /\ \A b \in DOMAIN Mvos.words : b \in Nat /\ Mvos.words[b] \in Int
  BY ImageTypes DEF Images
<1>2. /\ \A a \in DOMAIN Game.words : a \in WordsOf(Game)
      /\ \A b \in DOMAIN Mvos.words : b + MvosBase \in WordsOf(Mvos)
  <2>1. \A a \in DOMAIN Game.words : a + Bias(Game) = a
    BY <1>0, <1>1
  <2> QED
    BY <1>0, <2>1 DEF WordsOf
<1>3. /\ \A a \in DOMAIN Game.words, b \in DOMAIN Mvos.words : a # b + MvosBase
      /\ \A a \in DOMAIN Game.words : a # LibcData
      /\ \A b \in DOMAIN Mvos.words : b + MvosBase # LibcData
  BY <1>2 DEF ImagesFit, ImagesApart
<1> DEFINE D == DOMAIN Game.words \cup {o + MvosBase : o \in DOMAIN Mvos.words} \cup {LibcData}
<1>4. FileWords = [a \in D |-> IF a \in DOMAIN Game.words THEN Game.words[a]
                               ELSE IF a = LibcData THEN 0 ELSE Mvos.words[a - MvosBase]]
  BY DEF FileWords
<1>5. \A b \in DOMAIN Mvos.words : (b + MvosBase) - MvosBase = b
  BY <1>0, <1>1
<1>6. \A a \in DOMAIN Game.words : a \in D /\ FileWords[a] = Game.words[a]
  BY <1>4
<1>7. \A b \in DOMAIN Mvos.words :
        b + MvosBase \in D /\ FileWords[b + MvosBase] = Mvos.words[b]
  BY <1>3, <1>4, <1>5
<1>8. FileWords[LibcData] = 0 \/ LibcData \in DOMAIN Game.words
  BY <1>4
<1>9. \A a \in D : FileWords[a] \in Int
  BY <1>1, <1>6, <1>7, <1>8
<1>10. FileWords \in [D -> Int] /\ DOMAIN FileWords = D
  BY <1>4, <1>9
<1>11. \A a \in DOMAIN Game.words : a + Bias(Game) = a
  BY <1>0, <1>1
<1> HIDE DEF D
<1>12. LibcData \in D
  BY DEF D
<1> QED
  BY <1>0, <1>3, <1>6, <1>7, <1>10, <1>11, <1>12 DEF Images

(* A relocation's place is a word of its image's, and no other's.          *)
LEMMA SiteWord ==
  ASSUME ImagesFit, NEW img \in Images, NEW k \in DOMAIN img.relocs,
         img.relocs[k].type # "COPY"
  PROVE  /\ Place(img, k) \in DOMAIN FileWords \ {LibcData}
         /\ FileWords[Place(img, k)] = img.words[img.relocs[k].at]
         /\ Place(img, k) \in Sites(img)
         /\ img.relocs[k].at \in DOMAIN img.words
<1>1. img.relocs[k].at \in DOMAIN img.words
  BY DEF ImagesFit, RelocationsApart, Images
<1> QED
  BY <1>1, Files DEF Place, Sites

LEMMA SitesApart ==
  ASSUME ImagesFit
  PROVE  /\ \A i \in DOMAIN Game.relocs, j \in DOMAIN Mvos.relocs :
              Game.relocs[i].type # "COPY" /\ Mvos.relocs[j].type # "COPY"
              => Place(Game, i) # Place(Mvos, j)
         /\ \A img \in Images : \A i, j \in DOMAIN img.relocs :
              i # j /\ img.relocs[i].type # "COPY" /\ img.relocs[j].type # "COPY"
              => Place(img, i) # Place(img, j)
<1>1. ASSUME NEW i \in DOMAIN Game.relocs, NEW j \in DOMAIN Mvos.relocs,
             Game.relocs[i].type # "COPY", Mvos.relocs[j].type # "COPY"
      PROVE  Place(Game, i) # Place(Mvos, j)
  <2>1. Game.relocs[i].at \in DOMAIN Game.words /\ Mvos.relocs[j].at \in DOMAIN Mvos.words
    BY <1>1, SiteWord DEF Images
  <2>2. Place(Game, i) = Game.relocs[i].at
    <3>1. Game.relocs[i].at \in Nat /\ Bias(Game) = 0
      BY <2>1, ImageTypes DEF Images, Bias, ImagesFit, ImagesApart
    <3> QED
      BY <3>1 DEF Place
  <2> QED
    BY <2>1, <2>2, Files DEF Place
<1>2. ASSUME NEW img \in Images, NEW i \in DOMAIN img.relocs, NEW j \in DOMAIN img.relocs,
             i # j, img.relocs[i].type # "COPY", img.relocs[j].type # "COPY"
      PROVE  Place(img, i) # Place(img, j)
  <2>1. img.relocs[i].at # img.relocs[j].at
    BY <1>2 DEF ImagesFit, RelocationsApart, Images
  <2>2. Bias(img) \in Nat /\ img.relocs[i].at \in Nat /\ img.relocs[j].at \in Nat
    BY ImageTypes DEF Relocations
  <2> QED
    BY <2>1, <2>2 DEF Place
<1> QED
  BY <1>1, <1>2

(* What is left in place stays loaded.                                     *)
LEMMA StaysLoaded ==
  ASSUME NEW img \in Images, NEW kinds, "COPY" \notin kinds, Loaded(img, kinds),
         \A k \in DOMAIN img.relocs :
           img.relocs[k].type \in kinds => mem'[Place(img, k)] = mem[Place(img, k)]
  PROVE  Loaded(img, kinds)'
<1> SUFFICES ASSUME NEW k \in DOMAIN img.relocs, img.relocs[k].type \in kinds
             PROVE  AsLinked(img, img.relocs[k])'
  BY DEF Loaded
<1>1. AsLinked(img, img.relocs[k]) /\ img.relocs[k].type # "COPY"
  BY DEF Loaded
<1>2. mem'[img.relocs[k].at + Bias(img)] = mem[img.relocs[k].at + Bias(img)]
  BY DEF Place
<1> QED
  BY <1>1, <1>2 DEF AsLinked, GOT

(* A word of the file that is relocated with the loader's addresses.       *)
LEMMA LoadsWord ==
  ASSUME NEW img \in Images, NEW k \in DOMAIN img.relocs, NEW index,
         img.relocs[k].type \in REL \cup ABS \cup GOT,
         mem'[Place(img, k)]
           = Applied(img, img.relocs[k], index, img.words[img.relocs[k].at]),
         LET s == img.syms[img.relocs[k].sym]
             S == index[img.relocs[k].sym]
         IN  /\ img.relocs[k].type \in ABS => S = AbsoluteHome(img, s)
             /\ img.relocs[k].type \in GOT => S = HomeOf(s.name) /\ S # 0
  PROVE  AsLinked(img, img.relocs[k])'
<1> DEFINE r == img.relocs[k]
           s == img.syms[r.sym]
           A == img.words[r.at]
<1>1. mem'[r.at + Bias(img)] = Applied(img, r, index, A)
  BY DEF Place
<1>2. CASE r.type = "RELATIVE"
  <2>1. Applied(img, r, index, A) = A + Bias(img)
    BY <1>2 DEF Applied
  <2>2. mem'[r.at + Bias(img)] = A + Bias(img)
    BY <1>1, <2>1
  <2> QED
    BY <1>2, <2>2 DEF AsLinked, GOT
<1>3. CASE r.type = "32"
  <2>1. Applied(img, r, index, A) = index[r.sym] + A
    BY <1>3 DEF Applied
  <2>2. index[r.sym] = AbsoluteHome(img, s)
    BY <1>3 DEF ABS
  <2>3. mem'[r.at + Bias(img)] = AbsoluteHome(img, s) + A
    BY <1>1, <2>1, <2>2
  <2> QED
    BY <1>3, <2>3 DEF AsLinked, GOT
<1>4. CASE r.type = "PC32"
  <2>1. Applied(img, r, index, A) = index[r.sym] + A - (r.at + Bias(img))
    BY <1>4 DEF Applied
  <2>2. index[r.sym] = AbsoluteHome(img, s)
    BY <1>4 DEF ABS
  <2>3. mem'[r.at + Bias(img)] = AbsoluteHome(img, s) + A - (r.at + Bias(img))
    BY <1>1, <2>1, <2>2
  <2> QED
    BY <1>4, <2>3 DEF AsLinked, GOT
<1>5. CASE r.type \in GOT
  <2>1. r.type \notin {"RELATIVE", "32", "PC32", "COPY"}
    BY <1>5 DEF GOT
  <2>2. mem'[r.at + Bias(img)] = HomeOf(s.name) /\ mem'[r.at + Bias(img)] # 0
    BY <1>1, <1>5, <2>1 DEF Applied
  <2> QED
    BY <2>1, <2>2 DEF AsLinked
<1> QED
  BY <1>2, <1>3, <1>4, <1>5 DEF REL, ABS

LEMMA KindsApart ==
  /\ "COPY" \notin REL \cup ABS \cup GOT
  /\ REL \cap ABS = {} /\ REL \cap GOT = {} /\ ABS \cap GOT = {}
  /\ \A img \in Images : \A k \in DOMAIN img.relocs :
       img.relocs[k].type # "COPY" => img.relocs[k].type \in REL \cup ABS \cup GOT
<1>1. \A img \in Images : \A k \in DOMAIN img.relocs :
        img.relocs[k].type \in {"RELATIVE", "32", "PC32", "GLOB_DAT", "JMP_SLOT", "COPY"}
  BY ImageTypes DEF Relocations
<1> QED
  BY <1>1 DEF REL, ABS, GOT

LEMMA LinkMap == ASSUME ImagesFit, LinkInv, MapImages PROVE LinkInv'
<1>1. pass' = "relocate" /\ bind' = FirstBinding /\ mem' = [FileWords EXCEPT ![LibcData] = CtypeTable]
  BY DEF MapImages
<1>2. CtypeTable \in Int
  <2>1. CtypeTable \in Nat
    BY LinkConstants
  <2> QED
    BY <2>1
<1>3. FileWords \in [DOMAIN FileWords -> Int]
  BY Files
<1>4. mem' \in [DOMAIN FileWords -> Int]
  BY <1>1, <1>2, <1>3
<1>5. KeptBut({})'
  BY <1>1, <1>3 DEF KeptBut
<1> QED
  BY <1>1, <1>4, <1>5 DEF LinkInv, AllLinked

LEMMA LinkMvos == ASSUME ImagesFit, LinkInv, RelocateMvos PROVE LinkInv'
<1> DEFINE D == DOMAIN FileWords
           kinds == REL \cup ABS \cup GOT
           index == OwnIndexes(Mvos)
<1>1. /\ pass = "relocate" /\ pass' = "copy" /\ bind' = bind
      /\ mem' = Relocated(mem, Mvos, index, kinds)
      /\ mem \in [D -> Int] /\ bind = FirstBinding /\ KeptBut({})
  BY DEF RelocateMvos, LinkInv
<1>2. Mvos \in Images /\ "COPY" \notin kinds
  BY KindsApart DEF Images
<1>3. ASSUME NEW k \in DOMAIN Mvos.relocs, Mvos.relocs[k].type \in kinds
      PROVE  /\ Place(Mvos, k) \in D /\ Mvos.relocs[k].type # "COPY"
             /\ mem[Place(Mvos, k)] = Mvos.words[Mvos.relocs[k].at]
             /\ Mvos.relocs[k].type # "RELATIVE" =>
                  /\ index[Mvos.relocs[k].sym]
                       = AbsoluteHome(Mvos, Mvos.syms[Mvos.relocs[k].sym])
                  /\ index[Mvos.relocs[k].sym] \in Int
  <2>1. Mvos.relocs[k].type # "COPY"
    BY <1>2, <1>3
  <2>2. /\ Place(Mvos, k) \in DOMAIN FileWords \ {LibcData}
        /\ FileWords[Place(Mvos, k)] = Mvos.words[Mvos.relocs[k].at]
    BY <1>2, <2>1, SiteWord
  <2>3. mem[Place(Mvos, k)] = FileWords[Place(Mvos, k)]
    BY <1>1, <2>2 DEF KeptBut
  <2>4. Mvos.relocs[k].type # "RELATIVE" =>
          /\ index[Mvos.relocs[k].sym] = AbsoluteHome(Mvos, Mvos.syms[Mvos.relocs[k].sym])
          /\ index[Mvos.relocs[k].sym] \in Int
    BY <1>1, OwnIndex
  <2> QED
    BY <2>1, <2>2, <2>3, <2>4
<1>4. RelocationsApart
  BY DEF ImagesFit
<1> HIDE DEF D, kinds, index
<1>5. /\ mem' \in [D -> Int]
      /\ \A a \in D :
           (\A k \in DOMAIN Mvos.relocs : Mvos.relocs[k].type \in kinds => a # Place(Mvos, k))
           => mem'[a] = mem[a]
      /\ \A k \in DOMAIN Mvos.relocs : Mvos.relocs[k].type \in kinds =>
           mem'[Place(Mvos, k)]
             = Applied(Mvos, Mvos.relocs[k], index, mem[Place(Mvos, k)])
  <2>1. \A k \in DOMAIN Mvos.relocs :
          Mvos.relocs[k].type \in kinds =>
            Place(Mvos, k) \in D /\ (index[Mvos.relocs[k].sym] \in Int
                                      \/ Mvos.relocs[k].type = "RELATIVE")
    BY <1>3
  <2> QED
    BY <1>1, <1>2, <1>4, <2>1, RelocatedWords
<1>6. KeptBut(Sites(Mvos))'
  <2> SUFFICES ASSUME NEW a \in D \ (Sites(Mvos) \cup {LibcData})
               PROVE  mem'[a] = FileWords[a]
    BY DEF KeptBut, D
  <2>1. \A k \in DOMAIN Mvos.relocs : Mvos.relocs[k].type \in kinds => a # Place(Mvos, k)
    BY <1>3 DEF Sites
  <2>2. mem[a] = FileWords[a]
    BY <1>1 DEF KeptBut, D
  <2> QED
    BY <1>5, <2>1, <2>2
<1>7. Loaded(Mvos, REL \cup ABS)'
  <2> SUFFICES ASSUME NEW k \in DOMAIN Mvos.relocs, Mvos.relocs[k].type \in REL \cup ABS
               PROVE  AsLinked(Mvos, Mvos.relocs[k])'
    BY DEF Loaded
  <2>1. Mvos.relocs[k].type \in kinds /\ Mvos.relocs[k].type \notin GOT
    BY KindsApart DEF kinds
  <2>2. mem'[Place(Mvos, k)]
          = Applied(Mvos, Mvos.relocs[k], index, Mvos.words[Mvos.relocs[k].at])
    BY <1>3, <1>5, <2>1
  <2>3. Mvos.relocs[k].type \in ABS =>
          index[Mvos.relocs[k].sym] = AbsoluteHome(Mvos, Mvos.syms[Mvos.relocs[k].sym])
    BY <1>3, <2>1 DEF ABS
  <2> QED
    BY <1>2, <2>1, <2>2, <2>3, LoadsWord
<1> QED
  BY <1>1, <1>5, <1>6, <1>7 DEF LinkInv, AllLinked, D

(* Both images have room for what the game copies.                         *)
LEMMA CopySource ==
  ASSUME ImagesFit, NEW i \in Copies, CopiedName(i) \in DOMAIN Defs(Mvos)
  PROVE  LET c == Game.syms[Game.relocs[i].sym]
             j == CHOOSE j \in DOMAIN Mvos.syms : Mvos.syms[j].name = CopiedName(i)
         IN  /\ Mvos.syms[j].size = c.size /\ c.size \in Nat \ {0} /\ c.name = CopiedName(i)
             /\ \A d \in 0 .. c.size - 1 :
                  /\ Game.relocs[i].at + d \in DOMAIN Game.words
                  /\ \E b \in DOMAIN Mvos.words :
                       /\ Defs(Mvos)[CopiedName(i)] + d = b + Bias(Mvos)
                       /\ \A k \in DOMAIN Mvos.relocs :
                            Mvos.relocs[k].type \in GOT => Mvos.relocs[k].at # b
<1> DEFINE n == CopiedName(i)
           r == Game.relocs[i]
           c == Game.syms[r.sym]
           j == CHOOSE j \in DOMAIN Mvos.syms : Mvos.syms[j].name = n
           s == Mvos.syms[j]
<1>0. Game \in Images /\ Mvos \in Images
  BY DEF Images
<1>1. /\ i \in DOMAIN Game.relocs /\ r.at \in Nat /\ n # ""
      /\ r.sym \in DOMAIN Game.syms /\ c.name = n
  BY <1>0, CopiedHome, ImageTypes DEF CopiedName
<1>2. c.size \in Nat
  BY <1>0, <1>1, ImageTypes DEF Symbols
<1>3. PICK e \in Exports(Mvos) : Mvos.syms[e].name = n
  BY <1>0, DefinedBy
<1>4. e \in DOMAIN Mvos.syms
  BY DEF Exports
<1>5. j \in DOMAIN Mvos.syms /\ s.name = n
  BY <1>3, <1>4
<1>6. j = e
  BY <1>0, <1>1, <1>3, <1>4, <1>5, ImageTypes
<1> HIDE DEF j
<1>7. Defs(Mvos)[n] = Bias(Mvos) + s.value
  BY <1>0, <1>3, <1>6, DefinedAt
<1>8. /\ s.size = c.size /\ c.size > 0
      /\ s.value .. s.value + s.size - 1 \subseteq DOMAIN Mvos.words
      /\ \A k \in DOMAIN Mvos.relocs :
           Mvos.relocs[k].type \in GOT =>
             Mvos.relocs[k].at \notin s.value .. s.value + s.size - 1
  BY <1>1, <1>5 DEF ImagesFit, CopiesFit
<1>9. s.value \in Nat /\ Bias(Mvos) \in Nat
  BY <1>0, <1>5, ImageTypes DEF Symbols
<1>10. ASSUME NEW d \in 0 .. c.size - 1
       PROVE  /\ r.at + d \in DOMAIN Game.words
              /\ \E b \in DOMAIN Mvos.words :
                   /\ Defs(Mvos)[n] + d = b + Bias(Mvos)
                   /\ \A k \in DOMAIN Mvos.relocs :
                        Mvos.relocs[k].type \in GOT => Mvos.relocs[k].at # b
  <2>1. r.at + d \in CopyRange(i)
    <3>1. CopyRange(i) = r.at .. r.at + c.size - 1
      BY DEF CopyRange
    <3>2. \A a, z \in Nat : d \in 0 .. z - 1 => a + d \in a .. a + z - 1
      OBVIOUS
    <3> QED
      BY <1>1, <1>2, <3>1, <3>2
  <2>2. r.at + d \in DOMAIN Game.words
    BY <2>1 DEF ImagesFit, CopiesFit
  <2> DEFINE b == s.value + d
  <2>3. b \in s.value .. s.value + s.size - 1
    BY <1>2, <1>8, <1>9
  <2>4. b \in DOMAIN Mvos.words /\ Defs(Mvos)[n] + d = b + Bias(Mvos)
    BY <1>7, <1>8, <1>9, <2>3
  <2>5. \A k \in DOMAIN Mvos.relocs : Mvos.relocs[k].type \in GOT => Mvos.relocs[k].at # b
    BY <1>8, <2>3
  <2> HIDE DEF b
  <2> QED
    BY <2>2, <2>4, <2>5
<1>11. c.size \in Nat \ {0}
  BY <1>2, <1>8
<1> QED
  BY <1>1, <1>8, <1>10, <1>11 DEF j

(* What a copy brings.                                                     *)
LEMMA Brings ==
  ASSUME ImagesFit, NEW i \in Copies
  PROVE  /\ CopiedName(i) \in DOMAIN Defs(Mvos) =>
              /\ DOMAIN Original(i) = CopyRange(i)
              /\ \A d \in 0 .. Game.syms[Game.relocs[i].sym].size - 1 :
                   /\ Game.relocs[i].at + d \in CopyRange(i)
                   /\ Original(i)[Game.relocs[i].at + d] = mem[Defs(Mvos)[CopiedName(i)] + d]
         /\ CopiedName(i) \notin DOMAIN Defs(Mvos) => DOMAIN Original(i) = {}
<1>1. CASE CopiedName(i) \notin DOMAIN Defs(Mvos)
  BY <1>1 DEF Original
<1>2. CASE CopiedName(i) \in DOMAIN Defs(Mvos)
  <2> DEFINE n == CopiedName(i)
             to == Game.relocs[i].at
             c == Game.syms[Game.relocs[i].sym]
             j == CHOOSE j \in DOMAIN Mvos.syms : Mvos.syms[j].name = n
             from == Defs(Mvos)[n]
  <2>0. Mvos.syms[j].size = c.size /\ c.size \in Nat /\ c.size > 0
    <3>1. Mvos.syms[j].size = c.size /\ c.size \in Nat \ {0}
      BY <1>2, CopySource, Zenon
    <3> QED
      BY <3>1
  <2>1. Original(i) = [a \in to .. to + Mvos.syms[j].size - 1 |-> mem[from + (a - to)]]
    BY <1>2, <2>0 DEF Original
  <2>3. to \in Nat
    BY CopiedHome
  <2>4. CopyRange(i) = to .. to + c.size - 1
    BY DEF CopyRange
  <2> HIDE DEF from, to, c, j
  <2>5. Original(i) = [a \in CopyRange(i) |-> mem[from + (a - to)]]
    BY <2>0, <2>1, <2>4
  <2>6. ASSUME NEW d \in 0 .. c.size - 1
        PROVE  to + d \in CopyRange(i) /\ Original(i)[to + d] = mem[from + d]
    <3>1. to + d \in CopyRange(i) /\ (to + d) - to = d
      BY <2>0, <2>3, <2>4
    <3> QED
      BY <2>5, <3>1
  <2> QED
    BY <1>2, <2>5, <2>6 DEF from, to, c
<1> QED
  BY <1>1, <1>2

(* The words of a copy, one by one; no other copy has them.                *)
LEMMA CopyWords ==
  ASSUME ImagesFit, NEW i \in Copies
  PROVE  LET c == Game.syms[Game.relocs[i].sym]
         IN  /\ \A a \in CopyRange(i) : \E d \in 0 .. c.size - 1 : a = Game.relocs[i].at + d
             /\ CopyRange(i) \subseteq DOMAIN Game.words
             /\ \A j \in Copies \ {i} : CopyRange(i) \cap CopyRange(j) = {}
<1> DEFINE r == Game.relocs[i]
           c == Game.syms[r.sym]
<1>1. r.at \in Nat /\ r.sym \in DOMAIN Game.syms /\ c.size \in Nat
  BY CopiedHome, ImageTypes DEF Images, Symbols
<1>2. CopyRange(i) = r.at .. r.at + c.size - 1
  BY DEF CopyRange
<1>3. \A x, z \in Nat : \A a \in x .. x + z - 1 : a - x \in 0 .. z - 1 /\ a = x + (a - x)
  OBVIOUS
<1>4. \A a \in CopyRange(i) : \E d \in 0 .. c.size - 1 : a = r.at + d
  BY <1>1, <1>2, <1>3
<1> QED
  BY <1>4 DEF ImagesFit, CopiesFit

LEMMA LinkCopy == ASSUME ImagesFit, LinkInv, CopyToGame PROVE LinkInv'
<1> DEFINE D == DOMAIN FileWords
           copied == {i \in Copies : CopiedName(i) \in DOMAIN Defs(Mvos)}
<1>0. Game \in Images /\ Mvos \in Images
  BY DEF Images
<1>1. /\ pass = "copy" /\ pass' = "got"
      /\ mem \in [D -> Int] /\ bind = FirstBinding /\ KeptBut(Sites(Mvos))
      /\ Loaded(Mvos, REL \cup ABS)
      /\ mem' = [a \in DOMAIN mem |->
                   IF \E i \in Copies : a \in DOMAIN Original(i)
                   THEN Original(CHOOSE i \in Copies : a \in DOMAIN Original(i))[a]
                   ELSE mem[a]]
      /\ bind' = [n \in DOMAIN bind \cup {CopiedName(i) : i \in Copies} |->
                    IF \E i \in Copies : CopiedName(i) = n
                    THEN Game.relocs[CHOOSE i \in Copies : CopiedName(i) = n].at
                    ELSE bind[n]]
  BY DEF CopyToGame, LinkInv
<1>2. \A i \in Copies : DOMAIN Original(i) = IF i \in copied THEN CopyRange(i) ELSE {}
  BY Brings
<1>3. \A b \in DOMAIN Mvos.words :
        /\ b + Bias(Mvos) \in D
        /\ \A a \in CopiedWords : a # b + Bias(Mvos)
  BY <1>0, CopyWords, Files DEF CopiedWords
<1>4. \A a \in D \ CopiedWords : mem'[a] = mem[a]
  <2>1. \A a \in D \ CopiedWords : \A i \in Copies : a \notin DOMAIN Original(i)
    BY <1>2 DEF CopiedWords
  <2> QED
    BY <1>1, <2>1
<1>5. ASSUME NEW i \in copied, NEW d \in 0 .. Game.syms[Game.relocs[i].sym].size - 1
      PROVE  /\ Game.relocs[i].at + d \in D
             /\ Defs(Mvos)[CopiedName(i)] + d \in D
             /\ mem'[Game.relocs[i].at + d] = mem[Defs(Mvos)[CopiedName(i)] + d]
             /\ mem'[Defs(Mvos)[CopiedName(i)] + d] = mem[Defs(Mvos)[CopiedName(i)] + d]
  <2> DEFINE a == Game.relocs[i].at + d
             from == Defs(Mvos)[CopiedName(i)] + d
             e == CHOOSE x \in Copies : a \in DOMAIN Original(x)
  <2>1. a \in CopyRange(i) /\ Original(i)[a] = mem[from]
    BY Brings
  <2>2. a \in DOMAIN Original(i) /\ i \in Copies
    BY <1>2, <2>1
  <2>3. e \in Copies /\ a \in DOMAIN Original(e)
    BY <2>2
  <2>4. e = i
    BY <1>2, <2>1, <2>3, CopyWords
  <2>5. a \in DOMAIN Game.words
    BY <2>1, CopyWords
  <2>6. a \in D
    <3>1. \A x \in DOMAIN Game.words : x \in Nat
      BY <1>0, ImageTypes
    <3>2. Bias(Game) = 0
      BY DEF Bias, ImagesFit, ImagesApart
    <3>3. \A x \in DOMAIN Game.words : x + Bias(Game) = x
      BY <3>1, <3>2
    <3> QED
      BY <1>0, <2>5, <3>3, Files
  <2>7. mem'[a] = Original(e)[a]
    BY <1>1, <2>2, <2>6
  <2>8. PICK b \in DOMAIN Mvos.words : from = b + Bias(Mvos)
    BY CopySource
  <2>9. from \in D \ CopiedWords
    BY <1>3, <2>8
  <2> HIDE DEF a, from, e
  <2>10. mem'[from] = mem[from]
    BY <1>4, <2>9
  <2> QED
    BY <2>1, <2>4, <2>6, <2>7, <2>9, <2>10 DEF a, from
<1> HIDE DEF D
<1>6. mem' \in [D -> Int]
  <2>1. DOMAIN mem' = D
    BY <1>1
  <2>2. ASSUME NEW a \in D PROVE mem'[a] \in Int
    <3>1. CASE \E i \in Copies : a \in DOMAIN Original(i)
      <4>1. PICK i \in copied : a \in CopyRange(i)
        BY <1>2, <3>1
      <4>2. PICK d \in 0 .. Game.syms[Game.relocs[i].sym].size - 1 : a = Game.relocs[i].at + d
        BY <4>1, CopyWords
      <4>3. mem'[a] = mem[Defs(Mvos)[CopiedName(i)] + d] /\ Defs(Mvos)[CopiedName(i)] + d \in D
        BY <1>5, <4>2
      <4> QED
        BY <1>1, <4>3
    <3>2. CASE ~\E i \in Copies : a \in DOMAIN Original(i)
      BY <1>1, <3>2
    <3> QED
      BY <3>1, <3>2
  <2>3. mem' = [a \in DOMAIN mem' |-> mem'[a]]
    BY <1>1
  <2> QED
    BY <2>1, <2>2, <2>3
<1>7. HomeBound'
  <2>1. HomeBound
    BY <1>1, FirstIsHome
  <2>2. DOMAIN bind' = DOMAIN bind \cup {CopiedName(i) : i \in Copies}
    BY <1>1
  <2>3. "" \notin DOMAIN bind'
    BY <2>1, <2>2, CopiedHome DEF HomeBound
  <2>4. ASSUME NEW n \in DOMAIN bind' PROVE bind'[n] = HomeOf(n)
    <3>1. CASE \E i \in Copies : CopiedName(i) = n
      <4> DEFINE e == CHOOSE i \in Copies : CopiedName(i) = n
      <4>1. e \in Copies /\ CopiedName(e) = n
        BY <3>1
      <4>2. bind'[n] = Game.relocs[e].at
        BY <1>1, <2>2, <3>1
      <4> HIDE DEF e
      <4> QED
        BY <4>1, <4>2, CopiedHome
    <3>2. CASE ~\E i \in Copies : CopiedName(i) = n
      <4>1. bind'[n] = bind[n] /\ n \in DOMAIN bind
        BY <1>1, <2>2, <3>2
      <4> QED
        BY <2>1, <4>1 DEF HomeBound
    <3> QED
      BY <3>1, <3>2
  <2> QED
    BY <2>1, <2>2, <2>3, <2>4 DEF HomeBound
<1>8. Loaded(Game, {"COPY"})'
  <2> SUFFICES ASSUME NEW k \in DOMAIN Game.relocs, Game.relocs[k].type = "COPY"
               PROVE  AsLinked(Game, Game.relocs[k])'
    BY DEF Loaded
  <2>1. k \in Copies /\ CopiedName(k) = Game.syms[Game.relocs[k].sym].name
    BY DEF Copies, CopiedName
  <2>2. CopiedName(k) \in DOMAIN Defs(Mvos) => k \in copied
    BY <2>1
  <2>3. CopiedName(k) \in DOMAIN Defs(Mvos) =>
          \A d \in 0 .. Game.syms[Game.relocs[k].sym].size - 1 :
            mem'[Game.relocs[k].at + d] = mem'[Defs(Mvos)[CopiedName(k)] + d]
    BY <1>5, <2>2
  <2> HIDE DEF copied
  <2> QED
    BY <2>1, <2>3 DEF AsLinked, GOT
<1>9. KeptBut(Sites(Mvos) \cup CopiedWords)'
  BY <1>1, <1>4 DEF KeptBut, D
<1>10. Loaded(Mvos, REL \cup ABS)'
  <2>1. ASSUME NEW k \in DOMAIN Mvos.relocs, Mvos.relocs[k].type \in REL \cup ABS
        PROVE  mem'[Place(Mvos, k)] = mem[Place(Mvos, k)]
    <3>1. Mvos.relocs[k].type # "COPY"
      BY <2>1, KindsApart
    <3>2. Mvos.relocs[k].at \in DOMAIN Mvos.words
      BY <1>0, <3>1, SiteWord
    <3> QED
      BY <1>3, <1>4, <3>2 DEF Place
  <2>2. "COPY" \notin REL \cup ABS
    BY KindsApart
  <2> QED
    BY <1>0, <1>1, <2>1, <2>2, StaysLoaded
<1> QED
  BY <1>1, <1>6, <1>7, <1>8, <1>9, <1>10 DEF LinkInv, AllLinked, D
(* A pass over some relocations of an image, the copies apart.             *)
LEMMA PassWords ==
  ASSUME ImagesFit, NEW img \in Images, NEW index, NEW kinds, "COPY" \notin kinds,
         mem \in [DOMAIN FileWords -> Int], mem' = Relocated(mem, img, index, kinds),
         \A k \in DOMAIN img.relocs :
           img.relocs[k].type \in kinds =>
             index[img.relocs[k].sym] \in Int \/ img.relocs[k].type = "RELATIVE"
  PROVE  /\ mem' \in [DOMAIN FileWords -> Int]
         /\ \A a \in DOMAIN FileWords :
              (\A k \in DOMAIN img.relocs :
                 img.relocs[k].type \in kinds => a # Place(img, k))
              => mem'[a] = mem[a]
         /\ \A k \in DOMAIN img.relocs :
              img.relocs[k].type \in kinds =>
                mem'[Place(img, k)]
                  = Applied(img, img.relocs[k], index, mem[Place(img, k)])
<1>1. RelocationsApart
  BY DEF ImagesFit
<1>2. \A k \in DOMAIN img.relocs :
        img.relocs[k].type \in kinds => Place(img, k) \in DOMAIN FileWords
  BY SiteWord
<1> QED
  BY <1>1, <1>2, RelocatedWords

(* Copies stay loaded when their words, and those that they are copies of, *)
(* stay.                                                                   *)
LEMMA CopiesStay ==
  ASSUME ImagesFit, Loaded(Game, {"COPY"}),
         \A a \in CopiedWords : mem'[a] = mem[a],
         \A b \in DOMAIN Mvos.words :
           (\A k \in DOMAIN Mvos.relocs :
              Mvos.relocs[k].type \in GOT => Mvos.relocs[k].at # b)
           => mem'[b + Bias(Mvos)] = mem[b + Bias(Mvos)]
  PROVE  Loaded(Game, {"COPY"})'
<1> SUFFICES ASSUME NEW i \in DOMAIN Game.relocs, Game.relocs[i].type = "COPY"
             PROVE  AsLinked(Game, Game.relocs[i])'
  BY DEF Loaded
<1> DEFINE r == Game.relocs[i]
           c == Game.syms[r.sym]
<1>1. AsLinked(Game, r)
  BY DEF Loaded
<1>2. i \in Copies /\ c.name = CopiedName(i)
  BY DEF Copies, CopiedName
<1>3. ASSUME c.name \in DOMAIN Defs(Mvos), NEW d \in 0 .. c.size - 1
      PROVE  mem'[r.at + d] = mem'[Defs(Mvos)[c.name] + d]
  <2>1. mem[r.at + d] = mem[Defs(Mvos)[c.name] + d]
    BY <1>1, <1>3 DEF AsLinked
  <2>2. r.at + d \in CopiedWords
    <3>1. r.at + d \in CopyRange(i)
      BY <1>2, <1>3, Brings
    <3> QED
      BY <1>2, <3>1 DEF CopiedWords
  <2>3. mem'[Defs(Mvos)[c.name] + d] = mem[Defs(Mvos)[c.name] + d]
    <3>1. PICK b \in DOMAIN Mvos.words :
            /\ Defs(Mvos)[c.name] + d = b + Bias(Mvos)
            /\ \A k \in DOMAIN Mvos.relocs :
                 Mvos.relocs[k].type \in GOT => Mvos.relocs[k].at # b
      BY <1>2, <1>3, CopySource
    <3>2. mem'[b + Bias(Mvos)] = mem[b + Bias(Mvos)]
      BY <3>1
    <3> QED
      BY <3>1, <3>2, Zenon
  <2> QED
    BY <2>1, <2>2, <2>3
<1>4. Game.syms[Game.relocs[i].sym].name \in DOMAIN Defs(Mvos) =>
        \A d \in 0 .. Game.syms[Game.relocs[i].sym].size - 1 :
          mem'[Game.relocs[i].at + d]
            = mem'[Defs(Mvos)[Game.syms[Game.relocs[i].sym].name] + d]
  BY <1>3
<1> QED
  BY <1>4 DEF AsLinked, GOT

LEMMA LinkGot == ASSUME ImagesFit, LinkInv, RebindGot PROVE LinkInv'
<1> DEFINE D == DOMAIN FileWords
           index == GlobalIndexes(Mvos)
<1>0. Game \in Images /\ Mvos \in Images
  BY DEF Images
<1>1. /\ pass = "got" /\ pass' = "game" /\ bind' = bind
      /\ mem' = Relocated(mem, Mvos, index, GOT)
      /\ mem \in [D -> Int] /\ HomeBound /\ Loaded(Game, {"COPY"})
      /\ KeptBut(Sites(Mvos) \cup CopiedWords) /\ Loaded(Mvos, REL \cup ABS)
  BY DEF RebindGot, LinkInv
<1>2. \A k \in DOMAIN Mvos.relocs :
        Mvos.relocs[k].type \in GOT =>
          /\ index[Mvos.relocs[k].sym] \in Int
          /\ index[Mvos.relocs[k].sym] = HomeOf(Mvos.syms[Mvos.relocs[k].sym].name)
          /\ index[Mvos.relocs[k].sym] # 0
  BY <1>0, <1>1, GlobalIndex
<1> HIDE DEF index, D
<1>3. /\ mem' \in [D -> Int]
      /\ \A a \in D :
           (\A k \in DOMAIN Mvos.relocs : Mvos.relocs[k].type \in GOT => a # Place(Mvos, k))
           => mem'[a] = mem[a]
      /\ \A k \in DOMAIN Mvos.relocs :
           Mvos.relocs[k].type \in GOT =>
             mem'[Place(Mvos, k)]
               = Applied(Mvos, Mvos.relocs[k], index, mem[Place(Mvos, k)])
  <2>1. "COPY" \notin GOT
    BY DEF GOT
  <2> QED
    BY <1>0, <1>1, <1>2, <2>1, PassWords DEF D
<1>4. \A b \in DOMAIN Mvos.words :
        /\ b \in Nat /\ b + Bias(Mvos) \in D
        /\ (\A k \in DOMAIN Mvos.relocs :
              Mvos.relocs[k].type \in GOT => Mvos.relocs[k].at # b)
           => mem'[b + Bias(Mvos)] = mem[b + Bias(Mvos)]
  <2>1. \A b \in DOMAIN Mvos.words : b \in Nat /\ b + Bias(Mvos) \in D
    BY <1>0, Files, ImageTypes DEF D
  <2>2. \A k \in DOMAIN Mvos.relocs : Mvos.relocs[k].at \in Nat
    BY <1>0, ImageTypes DEF Relocations
  <2>3. Bias(Mvos) \in Nat
    BY <1>0, ImageTypes
  <2>4. \A b \in DOMAIN Mvos.words : \A k \in DOMAIN Mvos.relocs :
          Mvos.relocs[k].at # b => b + Bias(Mvos) # Place(Mvos, k)
    BY <2>1, <2>2, <2>3 DEF Place
  <2> QED
    BY <1>3, <2>1, <2>4
<1>5. \A a \in DOMAIN Game.words : a \in D /\ mem'[a] = mem[a]
  <2>1. Bias(Game) = 0 /\ \A a \in DOMAIN Game.words : a \in Nat
    BY <1>0, ImageTypes DEF Bias, ImagesFit, ImagesApart
  <2>2. \A a \in DOMAIN Game.words : a + Bias(Game) = a
    BY <2>1
  <2>3. \A a \in DOMAIN Game.words : a \in D
    BY <1>0, <2>2, Files DEF D
  <2>4. \A a \in DOMAIN Game.words : \A k \in DOMAIN Mvos.relocs :
          Mvos.relocs[k].type \in GOT => a # Place(Mvos, k)
    <3>1. \A k \in DOMAIN Mvos.relocs :
            Mvos.relocs[k].type \in GOT => Mvos.relocs[k].at \in DOMAIN Mvos.words
      BY <1>0, SiteWord DEF GOT
    <3> QED
      BY <3>1, Files DEF Place
  <2> QED
    BY <1>3, <2>3, <2>4
<1>6. Loaded(Game, {"COPY"})'
  <2>1. \A a \in CopiedWords : mem'[a] = mem[a]
    BY <1>5, CopyWords DEF CopiedWords
  <2> QED
    BY <1>1, <1>4, <2>1, CopiesStay
<1>7. KeptBut(Sites(Mvos) \cup CopiedWords)'
  <2>1. \A k \in DOMAIN Mvos.relocs :
          Mvos.relocs[k].type \in GOT => Place(Mvos, k) \in Sites(Mvos)
    BY <1>0, SiteWord DEF GOT
  <2> QED
    BY <1>1, <1>3, <2>1 DEF KeptBut, D
<1>8. Loaded(Mvos, REL \cup ABS)'
  <2>1. ASSUME NEW k \in DOMAIN Mvos.relocs, Mvos.relocs[k].type \in REL \cup ABS
        PROVE  mem'[Place(Mvos, k)] = mem[Place(Mvos, k)]
    <3>1. Mvos.relocs[k].type # "COPY" /\ Mvos.relocs[k].type \notin GOT
      BY <2>1, KindsApart
    <3>2. Place(Mvos, k) \in D
      BY <1>0, <3>1, SiteWord DEF D
    <3>3. \A j \in DOMAIN Mvos.relocs :
            Mvos.relocs[j].type \in GOT => Place(Mvos, k) # Place(Mvos, j)
      BY <1>0, <3>1, SitesApart, KindsApart
    <3> QED
      BY <1>3, <3>2, <3>3
  <2>2. "COPY" \notin REL \cup ABS
    BY KindsApart
  <2> QED
    BY <1>0, <1>1, <2>1, <2>2, StaysLoaded
<1>9. Loaded(Mvos, GOT)'
  <2> SUFFICES ASSUME NEW k \in DOMAIN Mvos.relocs, Mvos.relocs[k].type \in GOT
               PROVE  AsLinked(Mvos, Mvos.relocs[k])'
    BY DEF Loaded
  <2>1. Mvos.relocs[k].type \notin ABS \cup {"RELATIVE", "32", "PC32"}
    BY DEF GOT, ABS
  <2>2. mem'[Place(Mvos, k)]
          = Applied(Mvos, Mvos.relocs[k], index, Mvos.words[Mvos.relocs[k].at])
    BY <1>3, <2>1 DEF Applied
  <2> QED
    BY <1>0, <1>2, <2>1, <2>2, LoadsWord
<1> QED
  BY <1>1, <1>3, <1>6, <1>7, <1>8, <1>9 DEF LinkInv, AllLinked, D, HomeBound

LEMMA LinkGame == ASSUME ImagesFit, LinkInv, RelocateGame PROVE LinkInv'
<1> DEFINE D == DOMAIN FileWords
           index == GlobalIndexes(Game)
           kinds == ABS \cup GOT
<1>0. /\ Game \in Images /\ Mvos \in Images /\ Bias(Game) = 0
      /\ \A x \in Int : x + 0 = x
  BY DEF Images, Bias, ImagesFit, ImagesApart
<1>1. /\ pass = "game" /\ pass' = "linked" /\ bind' = bind
      /\ mem' = Relocated(mem, Game, index, kinds)
      /\ mem \in [D -> Int] /\ HomeBound /\ Loaded(Game, {"COPY"})
      /\ KeptBut(Sites(Mvos) \cup CopiedWords)
      /\ Loaded(Mvos, REL \cup ABS) /\ Loaded(Mvos, GOT)
  BY DEF RelocateGame, LinkInv
<1>2. \A k \in DOMAIN Game.relocs :
        Game.relocs[k].type \in kinds =>
          LET s == Game.syms[Game.relocs[k].sym]
              S == index[Game.relocs[k].sym]
          IN  /\ S \in Int
              /\ Game.relocs[k].type \in GOT => S = HomeOf(s.name) /\ S # 0
              /\ Game.relocs[k].type \in ABS => S = AbsoluteHome(Game, s)
  BY <1>0, <1>1, GlobalIndex
<1> HIDE DEF index, D
<1>3. /\ mem' \in [D -> Int]
      /\ \A a \in D :
           (\A k \in DOMAIN Game.relocs : Game.relocs[k].type \in kinds => a # Place(Game, k))
           => mem'[a] = mem[a]
      /\ \A k \in DOMAIN Game.relocs :
           Game.relocs[k].type \in kinds =>
             mem'[Place(Game, k)]
               = Applied(Game, Game.relocs[k], index, mem[Place(Game, k)])
  <2>1. "COPY" \notin kinds
    BY KindsApart
  <2>2. \A k \in DOMAIN Game.relocs :
          Game.relocs[k].type \in kinds => index[Game.relocs[k].sym] \in Int
    BY <1>2
  <2> HIDE DEF kinds
  <2> QED
    BY <1>0, <1>1, <2>1, <2>2, PassWords DEF D
<1>4. ASSUME NEW k \in DOMAIN Game.relocs, Game.relocs[k].type # "COPY"
      PROVE  /\ Place(Game, k) = Game.relocs[k].at /\ Place(Game, k) \in D
             /\ Place(Game, k) \in DOMAIN Game.words
             /\ Place(Game, k) \notin CopiedWords
             /\ mem[Place(Game, k)] = Game.words[Game.relocs[k].at]
  <2>1. Game.relocs[k].at \in DOMAIN Game.words /\ Game.relocs[k].at \in Nat
    BY <1>0, <1>4, SiteWord, ImageTypes
  <2>2. Place(Game, k) = Game.relocs[k].at
    BY <1>0, <2>1 DEF Place
  <2>3. /\ Place(Game, k) \in D \ {LibcData}
        /\ FileWords[Place(Game, k)] = Game.words[Game.relocs[k].at]
    BY <1>0, <1>4, SiteWord DEF D
  <2>4. Place(Game, k) \notin CopiedWords
    BY <1>4, <2>2 DEF CopiedWords, Copies, ImagesFit, CopiesFit
  <2>5. Place(Game, k) \notin Sites(Mvos)
    BY <1>4, SitesApart DEF Sites
  <2> QED
    BY <1>1, <2>1, <2>2, <2>3, <2>4, <2>5 DEF KeptBut, D
<1>5. \A b \in DOMAIN Mvos.words :
        b + Bias(Mvos) \in D /\ mem'[b + Bias(Mvos)] = mem[b + Bias(Mvos)]
  <2>1. \A b \in DOMAIN Mvos.words : b + Bias(Mvos) \in D
    BY <1>0, Files DEF D
  <2>2. \A b \in DOMAIN Mvos.words : \A k \in DOMAIN Game.relocs :
          Game.relocs[k].type \in kinds => b + Bias(Mvos) # Place(Game, k)
    BY <1>4, Files, KindsApart
  <2> QED
    BY <1>3, <2>1, <2>2
<1>6. Loaded(Mvos, REL \cup ABS \cup GOT)'
  <2>1. Loaded(Mvos, REL \cup ABS \cup GOT)
    BY <1>1 DEF Loaded
  <2>2. \A k \in DOMAIN Mvos.relocs :
          Mvos.relocs[k].type \in REL \cup ABS \cup GOT =>
            mem'[Place(Mvos, k)] = mem[Place(Mvos, k)]
    <3>1. \A k \in DOMAIN Mvos.relocs :
            Mvos.relocs[k].type \in REL \cup ABS \cup GOT =>
              Mvos.relocs[k].at \in DOMAIN Mvos.words
      BY <1>0, SiteWord, KindsApart
    <3> QED
      BY <1>5, <3>1 DEF Place
  <2> QED
    BY <1>0, <2>1, <2>2, KindsApart, StaysLoaded
<1>7. Loaded(Game, {"COPY"})'
  <2>1. ASSUME NEW a \in CopiedWords PROVE mem'[a] = mem[a]
    <3>1. a \in DOMAIN Game.words
      BY CopyWords DEF CopiedWords
    <3>2. a \in Nat
      BY <1>0, <3>1, ImageTypes
    <3>3. a + Bias(Game) = a
      BY <1>0, <3>2
    <3>4. a \in D
      BY <1>0, <3>1, <3>3, Files DEF D
    <3>5. \A k \in DOMAIN Game.relocs :
            Game.relocs[k].type \in kinds => a # Place(Game, k)
      BY <1>4, KindsApart
    <3> QED
      BY <1>3, <3>4, <3>5
  <2> QED
    BY <1>1, <1>5, <2>1, CopiesStay
<1>8. Loaded(Game, REL \cup ABS \cup GOT)'
  <2> SUFFICES ASSUME NEW k \in DOMAIN Game.relocs,
                      Game.relocs[k].type \in REL \cup ABS \cup GOT
               PROVE  AsLinked(Game, Game.relocs[k])'
    BY DEF Loaded
  <2>1. Game.relocs[k].type # "COPY"
    BY KindsApart
  <2>2. CASE Game.relocs[k].type \in kinds
    <3>1. mem'[Place(Game, k)]
            = Applied(Game, Game.relocs[k], index, Game.words[Game.relocs[k].at])
      BY <1>3, <1>4, <2>1, <2>2
    <3> QED
      BY <1>0, <1>2, <2>2, <3>1, LoadsWord
  <2>3. CASE Game.relocs[k].type \in REL
    <3>1. Game.relocs[k].type \notin kinds
      BY <2>3, KindsApart
    <3>2. \A j \in DOMAIN Game.relocs :
            Game.relocs[j].type \in kinds => Place(Game, k) # Place(Game, j)
      BY <1>0, <2>1, <3>1, SitesApart, KindsApart
    <3>3. mem'[Place(Game, k)] = Game.words[Game.relocs[k].at]
      BY <1>3, <1>4, <2>1, <3>2
    <3>4. Game.words[Game.relocs[k].at] \in Int
      BY <1>0, <2>1, SiteWord, ImageTypes
    <3>5. mem'[Place(Game, k)]
            = Applied(Game, Game.relocs[k], index, Game.words[Game.relocs[k].at])
      BY <1>0, <2>3, <3>3, <3>4 DEF Applied, REL
    <3>6. Game.relocs[k].type \notin ABS \cup GOT
      BY <3>1
    <3> QED
      BY <1>0, <3>5, <3>6, LoadsWord
  <2> QED
    BY <2>2, <2>3
<1>9. AllLinked'
  <2>1. DOMAIN mem' = D
    BY <1>3
  <2>2. ASSUME NEW a \in D \ (Designated(Game) \cup Designated(Mvos) \cup {LibcData})
        PROVE  mem'[a] = FileWords[a]
    <3>1. \A img \in Images : \A k \in DOMAIN img.relocs : a # Place(img, k)
      BY <2>2 DEF Designated, Place, Images
    <3>2. a \notin Sites(Mvos)
      BY <1>0, <3>1 DEF Sites
    <3>3. a \notin CopiedWords
      BY <2>2 DEF CopiedWords, CopyRange, Copies, Designated
    <3>4. mem'[a] = mem[a]
      BY <1>0, <1>3, <3>1
    <3> QED
      BY <1>1, <2>2, <3>2, <3>3, <3>4 DEF KeptBut, D
  <2>3. ASSUME NEW img \in Images, NEW k \in DOMAIN img.relocs
        PROVE  AsLinked(img, img.relocs[k])'
    <3>1. CASE img.relocs[k].type # "COPY"
      BY <1>6, <1>8, <2>3, <3>1, KindsApart DEF Loaded, Images
    <3>2. CASE img.relocs[k].type = "COPY"
      <4>1. img = Game
        BY <3>2 DEF ImagesFit, RelocationsApart, Images
      <4> QED
        BY <1>7, <3>2, <4>1 DEF Loaded
    <3> QED
      BY <3>1, <3>2
  <2> QED
    BY <2>1, <2>2, <2>3 DEF AllLinked, D, Images
<1> QED
  BY <1>1, <1>3, <1>9 DEF LinkInv, D

LEMMA LinkingNext ==
  ASSUME LinkInv, Linking, ImagesFit
  PROVE  LinkInv' /\ (phase' # "link" => pass' = "done")
<1>1. CASE pass # "linked"
  <2>1. phase = "link" /\ Link /\ UNCHANGED <<env, phase>>
    BY <1>1 DEF Linking
  <2>2. CASE MapImages
    BY <2>1, <2>2, LinkMap
  <2>3. CASE RelocateMvos
    BY <2>1, <2>3, LinkMvos
  <2>4. CASE CopyToGame
    BY <2>1, <2>4, LinkCopy
  <2>5. CASE RebindGot
    BY <2>1, <2>5, LinkGot
  <2>6. CASE RelocateGame
    BY <2>1, <2>6, LinkGame
  <2> QED
    BY <2>1, <2>2, <2>3, <2>4, <2>5, <2>6 DEF Link
<1>2. CASE pass = "linked"
  <2>1. pass' = "done"
    BY <1>2 DEF Linking
  <2> QED
    BY <2>1 DEF LinkInv, AllLinked
<1> QED
  BY <1>1, <1>2

LEMMA LinkNext ==
  ASSUME ImagesFit, LinkInv, phase # "link" => pass = "done", [Next]_vars
  PROVE  LinkInv' /\ (phase' # "link" => pass' = "done")
<1>1. CASE Linking
  BY <1>1, LinkingNext
<1>2. CASE pass' = pass /\ phase # "link"
  BY <1>2 DEF LinkInv, AllLinked
<1>3. CASE UNCHANGED linkVars /\ phase' = phase
  <2>1. HomeBound' = HomeBound /\ (\A S : KeptBut(S)' <=> KeptBut(S))
    BY <1>3 DEF linkVars, HomeBound, KeptBut
  <2>2. \A img, kinds : Loaded(img, kinds)' <=> Loaded(img, kinds)
    BY <1>3 DEF linkVars, Loaded, AsLinked
  <2>3. AllLinked' <=> AllLinked
    BY <1>3 DEF linkVars, AllLinked, AsLinked
  <2> QED
    BY <1>3, <2>1, <2>2, <2>3 DEF LinkInv, linkVars
<1>4. Linking \/ (pass' = pass /\ phase # "link") \/ (UNCHANGED linkVars /\ phase' = phase)
  <2>1. CASE Main
    BY <2>1 DEF Main, Construct, InitApplication, OpenSubsystems, MakeIntuition,
                StopWatchdog, WatchdogJoined, HoldEnds, linkVars
  <2>2. CASE StartEnds
    BY <2>2 DEF StartEnds, linkVars
  <2>3. CASE Play
    BY <2>3 DEF Play, RunBlock, Frame, MovieFrame, PointerFrame, Underrun, Mark, LoadEnds
  <2>4. CASE WatchdogThread
    BY <2>4 DEF WatchdogThread, Watchdog, WatchdogLooks, WatchdogReports
  <2>5. CASE Time
    BY <2>5 DEF Time, Tick
  <2>6. CASE Over \/ UNCHANGED vars
    BY <2>6 DEF Over, vars, linkVars, harnessVars
  <2> QED
    BY <2>1, <2>2, <2>3, <2>4, <2>5, <2>6 DEF Next
<1> QED
  BY <1>1, <1>2, <1>3, <1>4

(* The passes leave what the dynamic linker would, but where it leaves 0   *)
(* and where libmvos does not see that the game hides its symbol.          *)
LEMMA LinkedIsLoaded ==
  ASSUME ImagesFit, AllLinked PROVE LinkedAsLoader
<1> SUFFICES ASSUME pass = "linked" PROVE LinkedAsLoader
  BY DEF LinkedAsLoader
<1>1. ASSUME NEW img \in {Game, Mvos}, NEW k \in DOMAIN img.relocs
      PROVE  AsLoader(img, img.relocs[k])
  <2> DEFINE r == img.relocs[k]
             s == img.syms[r.sym]
             w == mem[r.at + Bias(img)]
  <2>1. AsLinked(img, r)
    BY DEF AllLinked
  <2>2. r.type \in GOT => w # 0 /\ w = HomeOf(s.name)
    BY <2>1 DEF AsLinked
  <2>3. ASSUME r.type \in ABS, ~Hidden(img, s)
        PROVE  \E h \in Homes(img, s) : w = WordFor(img, r, h)
    <3> DEFINE h == AbsoluteHome(img, s)
    <3>1. h \in Homes(img, s) /\ h \in Int
      BY <2>3, AbsoluteIsHome DEF Images
    <3>2. img.words[r.at] \in Int
      <4>1. r.type # "COPY"
        BY <2>3 DEF ABS
      <4>2. r.at \in DOMAIN img.words
        BY <4>1 DEF ImagesFit, RelocationsApart
      <4> QED
        BY <4>2, ImageTypes DEF Images
    <3>3. /\ r.type = "32" => w = h + img.words[r.at]
          /\ r.type = "PC32" => w = h + img.words[r.at] - (r.at + Bias(img))
      BY <2>1 DEF AsLinked
    <3>4. w = WordFor(img, r, h)
      <4>1. CASE r.type = "32"
        BY <3>1, <3>2, <3>3, <4>1 DEF WordFor
      <4>2. CASE r.type = "PC32"
        BY <3>3, <4>2 DEF WordFor
      <4> QED
        BY <2>3, <4>1, <4>2 DEF ABS
    <3> QED
      BY <3>1, <3>4
  <2> QED
    BY <2>1, <2>2, <2>3 DEF AsLoader, AsLinked
<1> QED
  BY <1>1 DEF AllLinked, LinkedAsLoader

(* Every reference in both images resolves as the dynamic linker of the    *)
(* original system would have resolved it, for any pair of images such as  *)
(* link editors make them (ImagesFit), with the two exceptions that        *)
(* AsLoader names: the order in which guestlink::link relocates libmvos,   *)
(* copies, rebinds its GOT and relocates the game leaves in each word the  *)
(* home of its name.                                                       *)
THEOREM LinkerIsLoader ==
  ASSUME ImagesFit PROVE Spec => []LinkedAsLoader
<1> DEFINE Inv == LinkInv /\ (phase # "link" => pass = "done")
<1>1. Init => Inv
  BY DEF Init, InitLink, InitHarness, LinkInv, AllLinked
<1>2. Inv /\ [Next]_vars => Inv'
  BY LinkNext
<1>3. Inv => LinkedAsLoader
  BY LinkedIsLoaded DEF LinkInv
<1> QED
  BY <1>1, <1>2, <1>3, PTL DEF Spec

-----------------------------------------------------------------------------
(* The boot.                                                               *)

(* Where the address of a variable is in that text.                        *)
TextWord(n) ==
  MvosBase + Mvos.relocs[CHOOSE k \in DOMAIN Mvos.relocs :
                           /\ Mvos.relocs[k].type = "32"
                           /\ Mvos.syms[Mvos.relocs[k].sym].name = n].at

(* Both find every variable at one word, and it is there.                  *)
OneWorld ==
  \A n \in Names : /\ TextWord(n) \in DOMAIN mem /\ mem[TextWord(n)] = GameSym(n)
                   /\ GameSym(n) \in DOMAIN mem

Pointer(f) == mem[GameSym(Handle[f])]

Flagged == \A f \in Flags : mem[GameSym(f)] = 1

(* What is in the variables by the time main() has come so far.            *)
BootInv ==
  /\ "open" \in DOMAIN boot
  /\ phase \in {"construct", "init", "open", "intuition", "play"} => OneWorld
  /\ phase \in {"construct", "init", "open", "intuition"} => Pointer(HostMade) = 0
  /\ phase \in {"open", "intuition"} => Flagged
  /\ phase \in {"intuition", "play"} /\ boot.open =>
       \A f \in Flags \ {HostMade} : Pointer(f) = Objects[f]
  /\ phase = "play" => Pointer(HostMade) = Objects[HostMade]

LEMMA RefIsWord == \A n : MvosRef(n) = mem[TextWord(n)]
  BY DEF MvosRef, TextWord

LEMMA TheTextRef ==
  ASSUME NEW n, IsShared(n)
  PROVE  \E k \in TextRefs(n) : TextWord(n) = MvosBase + Mvos.relocs[k].at
<1> DEFINE P(k) == Mvos.relocs[k].type = "32" /\ Mvos.syms[Mvos.relocs[k].sym].name = n
           c == CHOOSE k \in DOMAIN Mvos.relocs : P(k)
<1>1. \E k \in DOMAIN Mvos.relocs : P(k)
  <2>1. TextRefs(n) # {}
    BY DEF IsShared
  <2> QED
    BY <2>1, Zenon DEF TextRefs
<1>2. c \in DOMAIN Mvos.relocs /\ P(c)
  BY <1>1
<1>3. TextWord(n) = MvosBase + Mvos.relocs[c].at
  BY DEF TextWord
<1> HIDE DEF c
<1> QED
  BY <1>2, <1>3 DEF TextRefs

(* No variable lies in the text that refers to one.                        *)
LEMMA TextIsApart ==
  ASSUME NEW m \in Names, NEW n, IsShared(n)
  PROVE  TextWord(n) # GameSym(m)
<1>1. PICK k \in TextRefs(n) : TextWord(n) = MvosBase + Mvos.relocs[k].at
  BY TheTextRef
<1>2. MvosBase + Mvos.relocs[k].at # GameSym(m)
  BY DEF IsShared
<1> QED
  BY <1>1, <1>2

(* What the original loader would have done makes one world of both.       *)
LEMMA LinkerSharesName ==
  ASSUME NEW n, IsShared(n), Game # Mvos, LinkedAsLoader, pass = "linked"
  PROVE  /\ TextWord(n) \in DOMAIN mem /\ mem[TextWord(n)] = GameSym(n)
         /\ GameSym(n) \in DOMAIN mem
<1>1. PICK k \in TextRefs(n) : TextWord(n) = MvosBase + Mvos.relocs[k].at
  BY TheTextRef
<1> DEFINE r == Mvos.relocs[k]
           s == Mvos.syms[r.sym]
<1>2. /\ k \in DOMAIN Mvos.relocs /\ r.type = "32" /\ s.name = n /\ s.def
      /\ r.at \in DOMAIN Mvos.words /\ Mvos.words[r.at] = 0
  BY DEF IsShared, TextRefs
<1>3. PICK h \in Homes(Mvos, s) : mem[r.at + Bias(Mvos)] = h + Mvos.words[r.at] - 0
  <2>1. AsLoader(Mvos, r)
    BY <1>2 DEF LinkedAsLoader
  <2>2. IsCopied(s.name)
    BY <1>2 DEF IsShared, IsCopied
  <2>3. r.type \in ABS /\ ~Optional(s) /\ ~Hidden(Mvos, s)
    BY <1>2, <2>2 DEF ABS, Optional, Hidden
  <2> QED
    BY <1>2, <2>1, <2>3 DEF AsLoader, WordFor
<1>4. h = GameSym(n)
  <2>1. s.name \notin Vtables /\ s.name # "" /\ s.name # "__ctype_b" /\ s.name \in DOMAIN Defs(Game)
    BY <1>2 DEF IsShared
  <2> QED
    BY <1>2, <1>3, <2>1 DEF Homes, HomeOf, GameSym
<1>5. GameSym(n) \in Nat /\ GameSym(n) \in DOMAIN mem
  <2>1. DOMAIN mem = DOMAIN FileWords
    BY DEF LinkedAsLoader
  <2> QED
    BY <2>1 DEF IsShared
<1>6. r.at + Bias(Mvos) = MvosBase + r.at
  <2>1. r.at \in Nat /\ MvosBase \in Nat
    BY <1>2, LinkConstants
  <2> QED
    BY <2>1 DEF Bias
<1>7. MvosBase + r.at \in DOMAIN mem
  <2>1. DOMAIN mem = DOMAIN FileWords
    BY DEF LinkedAsLoader
  <2>2. r.at + MvosBase \in DOMAIN FileWords
    BY <1>2 DEF FileWords
  <2>3. r.at \in Nat /\ MvosBase \in Nat
    BY <1>2, LinkConstants
  <2>4. r.at + MvosBase = MvosBase + r.at
    BY <2>3
  <2> QED
    BY <2>1, <2>2, <2>4
<1> QED
  BY <1>1, <1>2, <1>3, <1>4, <1>5, <1>6, <1>7

LEMMA PointerIsNull ==
  ASSUME NEW n, IsShared(n), IsNull(n), LinkedAsLoader, pass = "linked"
  PROVE  mem[GameSym(n)] = 0
<1>1. PICK i \in Copies : CopiedName(i) = n
  BY DEF IsShared
<1> DEFINE r == Game.relocs[i]
           s == Game.syms[r.sym]
<1>2. /\ i \in DOMAIN Game.relocs /\ r.type = "COPY" /\ s.name = n
      /\ n \in DOMAIN Defs(Mvos)
  BY <1>1 DEF Copies, CopiedName, IsShared
<1>3. \A d \in 0 .. s.size - 1 : mem[r.at + d] = mem[Defs(Mvos)[n] + d]
  <2>1. AsLoader(Game, r)
    BY <1>2 DEF LinkedAsLoader
  <2> QED
    BY <1>2, <2>1 DEF AsLoader, GOT
<1>4. r.at = GameSym(n) /\ 0 \in 0 .. s.size - 1
  BY <1>1 DEF IsNull
<1>5. mem[GameSym(n) + 0] = mem[Defs(Mvos)[n] + 0]
  BY <1>3, <1>4
<1>6. GameSym(n) \in Nat /\ Defs(Mvos)[n] \in Nat
  BY DEF IsShared, IsNull
<1>7. mem[Defs(Mvos)[n]] = 0
  BY DEF IsNull, LinkedAsLoader
<1> QED
  BY <1>5, <1>6, <1>7


LEMMA LinkedWorld ==
  ASSUME SharedNames, LinkedAsLoader, pass = "linked"
  PROVE  OneWorld /\ Pointer(HostMade) = 0
<1>1. \A n \in Names : /\ TextWord(n) \in DOMAIN mem /\ mem[TextWord(n)] = GameSym(n)
                       /\ GameSym(n) \in DOMAIN mem
  BY LinkerSharesName DEF SharedNames
<1>2. IsShared(Handle[HostMade]) /\ IsNull(Handle[HostMade])
  BY SessionConstants DEF SharedNames, Names
<1> QED
  BY <1>1, <1>2, PointerIsNull DEF OneWorld, Pointer

(* The names of flags and pointers are apart, and so are their places.     *)
LEMMA PlacesAreApart ==
  ASSUME SharedNames
  PROVE  /\ \A f, g \in Flags : GameSym(f) # GameSym(Handle[g])
         /\ \A f, g \in Flags : GameSym(Handle[f]) = GameSym(Handle[g]) => f = g
         /\ \A f \in Flags : f \in Names /\ Handle[f] \in Names
<1>1. \A f \in Flags : f \in Names /\ Handle[f] \in Names
  BY DEF Names
<1>2. \A m, n \in Names : GameSym(m) = GameSym(n) => m = n
  BY DEF SharedNames
<1>3. /\ \A f, g \in Flags : Handle[f] = Handle[g] => f = g
      /\ \A f, g \in Flags : f # Handle[g]
  BY DEF SharedNames
<1> QED
  BY <1>1, <1>2, <1>3

(* Writing variables leaves the text that refers to them.                  *)
LEMMA WorldKept ==
  ASSUME SharedNames, OneWorld, DOMAIN mem' = DOMAIN mem,
         \A a \in DOMAIN mem : (\A n \in Names : a # GameSym(n)) => mem'[a] = mem[a]
  PROVE  OneWorld'
<1>1. \A m, n \in Names : TextWord(n) # GameSym(m)
  BY TextIsApart DEF SharedNames
<1> QED
  BY <1>1 DEF OneWorld

LEMMA BootLinking ==
  ASSUME SharedNames, LinkedAsLoader, BootInv, Linking PROVE BootInv'
<1>1. CASE pass # "linked"
  BY <1>1 DEF Linking, BootInv
<1>2. CASE pass = "linked"
  <2>1. phase' = "construct" /\ mem' = mem /\ "open" \in DOMAIN boot'
    BY <1>2 DEF Linking, BootInv
  <2>2. OneWorld /\ Pointer(HostMade) = 0
    BY <1>2, LinkedWorld
  <2>3. OneWorld' /\ Pointer(HostMade)' = 0
    BY <2>1, <2>2 DEF OneWorld, Pointer
  <2> QED
    BY <2>1, <2>3 DEF BootInv
<1> QED
  BY <1>1, <1>2

LEMMA BootInit ==
  ASSUME SharedNames, BootInv, InitApplication PROVE BootInv'
<1>1. PICK how \in Outcomes, asked \in SUBSET Flags :
        /\ how = "returned" => asked = Flags
        /\ mem' = [a \in DOMAIN mem |-> IF \E f \in asked : a = GameSym(f) THEN 1 ELSE mem[a]]
        /\ phase' = IF how = "returned" THEN "open" ELSE "stopping"
  BY DEF InitApplication
<1>2. OneWorld /\ Pointer(HostMade) = 0 /\ phase = "init"
  BY DEF BootInv, InitApplication
<1>3. CASE phase' = "stopping"
  BY <1>3 DEF InitApplication, BootInv
<1>4. CASE how = "returned"
  <2>1. mem' = [a \in DOMAIN mem |-> IF \E f \in Flags : a = GameSym(f) THEN 1 ELSE mem[a]]
    BY <1>1, <1>4
  <2>2. \A n \in Names : GameSym(n) \in DOMAIN mem
    BY <1>2 DEF OneWorld
  <2>3. OneWorld'
    BY <1>2, <2>1, PlacesAreApart, WorldKept
  <2>4. Flagged'
    BY <2>1, <2>2, PlacesAreApart DEF Flagged
  <2>5. Pointer(HostMade)' = 0
    BY <1>2, <2>1, <2>2, PlacesAreApart, SessionConstants DEF Pointer
  <2>6. phase' = "open" /\ "open" \in DOMAIN boot'
    BY <1>1, <1>4 DEF InitApplication, BootInv
  <2> QED
    BY <2>3, <2>4, <2>5, <2>6 DEF BootInv
<1> QED
  BY <1>1, <1>3, <1>4


LEMMA BootOpen ==
  ASSUME SharedNames, BootInv, OpenSubsystems PROVE BootInv'
<1>1. PICK how \in Outcomes, opened \in SUBSET {f \in Flags \ {HostMade} : SeenByMvos(f) = 1} :
        /\ how = "returned" => \A f \in Flags \ {HostMade} : SeenByMvos(f) = 1 => f \in opened
        /\ mem' = [a \in DOMAIN mem |->
                     IF \E f \in opened : a = MvosRef(Handle[f])
                     THEN Objects[CHOOSE f \in opened : a = MvosRef(Handle[f])]
                     ELSE mem[a]]
        /\ boot' = [boot EXCEPT !.open = (how = "returned")]
  BY DEF OpenSubsystems
<1>2. OneWorld /\ Pointer(HostMade) = 0 /\ Flagged
  BY DEF BootInv, OpenSubsystems
<1>3. \A f \in Flags : /\ SeenByMvos(f) = 1 /\ MvosRef(Handle[f]) = GameSym(Handle[f])
                       /\ GameSym(Handle[f]) \in DOMAIN mem /\ GameSym(f) \in DOMAIN mem
  BY <1>2, RefIsWord, PlacesAreApart DEF OneWorld, Flagged, SeenByMvos
<1>4. /\ DOMAIN mem' = DOMAIN mem
      /\ \A a \in DOMAIN mem : (\A f \in opened : a # GameSym(Handle[f])) => mem'[a] = mem[a]
      /\ \A f \in opened : mem'[GameSym(Handle[f])] = Objects[f]
  <2>1. opened \subseteq Flags
    OBVIOUS
  <2>2. ASSUME NEW f \in opened PROVE (CHOOSE g \in opened : GameSym(Handle[f]) = MvosRef(Handle[g])) = f
    BY <1>3, <2>1, <2>2, PlacesAreApart
  <2> QED
    BY <1>1, <1>3, <2>1, <2>2
<1>5. OneWorld'
  BY <1>2, <1>4, PlacesAreApart, WorldKept
<1>6. Flagged'
  BY <1>2, <1>3, <1>4, PlacesAreApart DEF Flagged
<1>7. Pointer(HostMade)' = 0
  BY <1>2, <1>3, <1>4, PlacesAreApart, SessionConstants DEF Pointer
<1>8. boot'.open => \A f \in Flags \ {HostMade} : Pointer(f)' = Objects[f]
  <2>1. boot'.open => how = "returned"
    BY <1>1 DEF BootInv
  <2>2. how = "returned" => \A f \in Flags \ {HostMade} : f \in opened
    BY <1>1, <1>3
  <2> QED
    BY <1>4, <2>1, <2>2 DEF Pointer
<1>9. phase' = "intuition" /\ "open" \in DOMAIN boot'
  BY <1>1 DEF OpenSubsystems, BootInv
<1> QED
  BY <1>5, <1>6, <1>7, <1>8, <1>9 DEF BootInv

LEMMA BootMake ==
  ASSUME SharedNames, BootInv, MakeIntuition PROVE BootInv'
<1> DEFINE at == GameSym(Handle[HostMade])
<1>1. /\ OneWorld /\ Pointer(HostMade) = 0 /\ Flagged
      /\ boot.open => \A f \in Flags \ {HostMade} : Pointer(f) = Objects[f]
  BY DEF BootInv, MakeIntuition
<1>2. /\ HostMade \in Flags /\ GameSym(HostMade) # 0 /\ at # 0 /\ at \in DOMAIN mem
      /\ mem[GameSym(HostMade)] = 1 /\ mem[at] = 0
  <2>1. HostMade \in Flags /\ HostMade \in Names /\ Handle[HostMade] \in Names
    BY SessionConstants DEF Names
  <2>2. IsShared(HostMade) /\ IsShared(Handle[HostMade])
    BY <2>1 DEF SharedNames
  <2>3. GameSym(HostMade) # 0 /\ at # 0
    BY <2>2 DEF IsShared
  <2> QED
    BY <1>1, <2>1, <2>3 DEF OneWorld, Flagged, Pointer
<1>3. mem' = [mem EXCEPT ![at] = Objects[HostMade]]
  BY <1>2 DEF MakeIntuition
<1>4. boot' = boot /\ phase' \in {"play", "stopping"}
  BY DEF MakeIntuition
<1>5. OneWorld'
  BY <1>1, <1>2, <1>3, PlacesAreApart, WorldKept
<1>6. Pointer(HostMade)' = Objects[HostMade]
  BY <1>2, <1>3 DEF Pointer
<1>7. \A f \in Flags \ {HostMade} : Pointer(f)' = Pointer(f)
  BY <1>1, <1>2, <1>3, PlacesAreApart DEF Pointer, OneWorld
<1> QED
  BY <1>1, <1>4, <1>5, <1>6, <1>7 DEF BootInv

LEMMA BootKept ==
  ASSUME BootInv, mem' = mem, DOMAIN boot' = DOMAIN boot, boot'.open = boot.open,
         phase' = phase \/ phase' \notin {"construct", "init", "open", "intuition", "play"}
  PROVE  BootInv'
<1>1. /\ OneWorld' <=> OneWorld
      /\ Flagged' <=> Flagged
      /\ \A f : Pointer(f)' = Pointer(f)
  BY DEF OneWorld, Flagged, Pointer
<1> QED
  BY <1>1 DEF BootInv

LEMMA BootStep ==
  ASSUME SharedNames, LinkedAsLoader, BootInv, [Next]_vars
  PROVE  BootInv'
<1>1. CASE Linking
  BY <1>1, BootLinking
<1>2. CASE Construct
  <2>1. phase = "construct" /\ phase' = "init" /\ mem' = mem /\ boot' = boot
    BY <1>2 DEF Construct, linkVars
  <2>2. (OneWorld' <=> OneWorld) /\ Pointer(HostMade)' = Pointer(HostMade)
    BY <2>1 DEF OneWorld, Pointer
  <2> QED
    BY <2>1, <2>2 DEF BootInv
<1>3. CASE InitApplication
  BY <1>3, BootInit
<1>4. CASE OpenSubsystems
  BY <1>4, BootOpen
<1>5. CASE MakeIntuition
  BY <1>5, BootMake
<1>6. CASE StopWatchdog \/ StartEnds
  BY <1>6, BootKept DEF StopWatchdog, StartEnds, linkVars
<1>7. CASE WatchdogJoined
  BY <1>7, BootKept DEF WatchdogJoined, linkVars, BootInv
<1>8. CASE HoldEnds
  BY <1>8, BootKept DEF HoldEnds, linkVars
<1>9. CASE Play
  BY <1>9, BootKept
     DEF Play, RunBlock, Frame, MovieFrame, PointerFrame, Underrun, Mark, LoadEnds, linkVars
<1>10. CASE WatchdogThread
  BY <1>10, BootKept
     DEF WatchdogThread, Watchdog, WatchdogLooks, WatchdogReports, linkVars
<1>11. CASE Time
  BY <1>11, BootKept DEF Time, Tick, linkVars, BootInv
<1>12. CASE Over \/ UNCHANGED vars
  BY <1>12, BootKept DEF Over, vars, linkVars, harnessVars
<1> QED
  BY <1>1, <1>2, <1>3, <1>4, <1>5, <1>6, <1>7, <1>8, <1>9, <1>10, <1>11, <1>12
     DEF Next, Main

(* The boot works if the linker does: on images whose variables are shared *)
(* data, and whenever each linked word is what the original loader would   *)
(* have made it, the game that starts finds the subsystems that libmvos    *)
(* and the host have put behind its pointers, and finds the same ones as   *)
(* libmvos, however the calls before came back (main.cpp).                 *)
LEMMA BootRestsOnLinker ==
  ASSUME SharedNames PROVE Spec /\ []LinkedAsLoader => []StartFindsWorld
<1>1. Init => BootInv
  BY DEF Init, InitHarness, BootInv
<1>2. BootInv /\ LinkedAsLoader /\ [Next]_vars => BootInv'
  BY BootStep
<1>3. BootInv => StartFindsWorld
  <2> SUFFICES ASSUME BootInv, phase = "play", NEW f \in Flags
      PROVE  /\ SeenByGame(Handle[f]) = SeenByMvos(Handle[f])
             /\ f = HostMade \/ boot.open => SeenByGame(Handle[f]) = Objects[f]
    BY DEF StartFindsWorld
  <2>1. MvosRef(Handle[f]) = GameSym(Handle[f])
    BY RefIsWord DEF BootInv, OneWorld, Names
  <2>2. f = HostMade \/ boot.open => Pointer(f) = Objects[f]
    BY DEF BootInv
  <2> QED
    BY <2>1, <2>2 DEF SeenByGame, SeenByMvos, Pointer
<1> QED
  BY <1>1, <1>2, <1>3, PTL DEF Spec

(* The game that starts finds the subsystems that libmvos and the host     *)
(* have put behind its pointers, and finds the same ones as libmvos,       *)
(* however the calls before came back (main.cpp): for any pair of images   *)
(* such as link editors make them whose variables are shared data.  What   *)
(* it rests on is the linker, which makes one world of both.               *)
THEOREM BootWorks ==
  ASSUME ImagesFit, SharedNames PROVE Spec => []StartFindsWorld
<1>1. Spec => []LinkedAsLoader
  BY LinkerIsLoader
<1>2. Spec /\ []LinkedAsLoader => []StartFindsWorld
  BY BootRestsOnLinker
<1> QED
  BY <1>1, <1>2, PTL
=============================================================================
