----------------------------- MODULE SoundFeed -----------------------------
(***************************************************************************)
(* How the guest's sound mixer is kept fed (TrapLayer in traps.cpp).  The  *)
(* mixer thread the guest launched is only recorded; a slice of it is      *)
(* spliced in when the guest presents or sleeps, and chained until the     *)
(* queue to the audio callback is deep enough.  The callback drains the    *)
(* queue whatever the guest is doing.                                      *)
(*                                                                         *)
(* Time is counted in units; the device plays one queue unit per unit of   *)
(* time, taking Buffer of them at once.  Cutscenes, which feed the queue   *)
(* themselves while the mixer rests, are not part of this module.          *)
(***************************************************************************)
EXTENDS Integers, Sequences, SequencesExt

CONSTANTS
  Mixer, Music,  \* the two threads the guest launches
  Buffer,        \* queue units the callback takes at once
  Frag,          \* queue units one slice of the mixer writes
  Cap,           \* units the queue can hold (1 s)
  Base,          \* the least queue target (120 ms)
  Ceiling,       \* the greatest queue target (400 ms)
  Margin,        \* added to one and a half measured gaps (30 ms)
  MaxGap,        \* longer gaps are measured as this (500 ms)
  Floor,         \* time between two servings (15 ms)
  ChainMax       \* slices in one serving (SOUND_CHAIN_MAX)

ASSUME FeedConstants ==
  /\ Mixer # Music /\ "none" \notin {Mixer, Music}
  /\ {Buffer, Frag, Cap, Base, Ceiling, MaxGap, ChainMax} \subseteq Nat \ {0}
  /\ {Margin, Floor} \subseteq Nat
  /\ Base <= Ceiling /\ Ceiling < Cap
  /\ ChainMax * Frag <= Ceiling + Buffer + MaxGap

(* The proportions of the times in the code, with the default of           *)
(* THEOC_AUDIO_MS and the device's buffer of 46 ms.                        *)
ASSUME BridgeConstants ==
  /\ 3 * Buffer <= Base + 2 * Margin
  /\ 5 * (Buffer + Floor) <= 2 * Base + 3 * Margin
  /\ Buffer + 2 * Floor <= Base

VARIABLES
  device,   \* audio_dev_ is open
  threads,  \* soft_threads_, in the order of their launch
  running,  \* the threads whose running flag is set
  q,        \* audio_q_: units in the queue
  phase,    \* units until the callback runs
  since,    \* time since last_sound_ask_; Never before the first ask
  gap,      \* ask_gap_ms_
  hold,     \* time until next_sound_slice_
  chain,    \* the serving under way: thread, target, slices issued; or idle
  fed       \* history: at the last ask, or the end of the serving that
            \* followed it, the queue held more than its target

vars == <<device, threads, running, q, phase, since, gap, hold, chain, fed>>

Idle  == [arg |-> "none", target |-> 0, depth |-> 0]
Never == -1

Init ==
  /\ device \in BOOLEAN
  /\ threads = <<>>
  /\ running = {}
  /\ q = 0
  /\ phase = Buffer
  /\ since = Never /\ gap = 0 /\ hold = 0
  /\ chain = Idle
  /\ fed = FALSE

Least(a, b) == IF a < b THEN a ELSE b
Most(a, b)  == IF a < b THEN b ELSE a
Less(n)     == IF n > 0 THEN n - 1 ELSE 0

-----------------------------------------------------------------------------
(* pthread_create: the thread is recorded; the guest's Launch has set its  *)
(* running flag.  The music thread's global is set before the guest next   *)
(* presents or sleeps.                                                     *)
Launch(t) ==
  /\ t \notin ToSet(threads)
  /\ chain = Idle
  /\ threads' = Append(threads, t)
  /\ running' = running \cup {t}
  /\ UNCHANGED <<device, q, phase, since, gap, hold, chain, fed>>

(* The guest stops the mixer, or starts it again (external).               *)
SetRunning(t) ==
  /\ t \in ToSet(threads)
  /\ chain = Idle
  /\ running' = IF t \in running THEN running \ {t} ELSE running \cup {t}
  /\ fed' = FALSE
  /\ UNCHANGED <<device, threads, q, phase, since, gap, hold, chain>>

(* Mutant: the first running thread is the mixer.                          *)
Candidates_Any == SelectSeq(threads, LAMBDA t : t \in running)

(* Threads a slice may be taken from: running, and not the music thread,   *)
(* whose Main never returns.                                               *)
Candidates == SelectSeq(threads, LAMBDA t : t \in running /\ t # Music)

(* Mutant: a scenario load counts as a frame.                              *)
Measured_Unclamped == IF since = Never THEN gap
                      ELSE Most(since, (gap * 9) \div 10)

(* A decaying maximum of the time between two asks.                        *)
Measured == IF since = Never THEN gap
            ELSE Most(Least(since, MaxGap), (gap * 9) \div 10)

(* Mutant: the fixed target of THEOC_LEGACY_AUDIOQ.                        *)
Target_Fixed(g) == Base

(* One and a half gaps and a margin, within bounds.                        *)
Target(g) == Least(Most(Base, (g * 3) \div 2 + Margin), Ceiling)

(* maybe_redirect_sound.  While a serving is under way, and before any     *)
(* thread was launched, an ask changes nothing.                            *)
AskEarly ==
  /\ chain = Idle
  /\ threads # <<>>
  /\ hold > 0
  /\ gap' = Measured /\ since' = 0
  /\ UNCHANGED <<device, threads, running, q, phase, hold, chain, fed>>

AskNotRunning ==
  /\ chain = Idle
  /\ threads # <<>> /\ hold = 0
  /\ Candidates = <<>>
  /\ gap' = Measured /\ since' = 0
  /\ fed' = FALSE
  /\ UNCHANGED <<device, threads, running, q, phase, hold, chain>>

AskFull ==
  /\ chain = Idle
  /\ Candidates # <<>> /\ hold = 0
  /\ q > Target(Measured)
  /\ gap' = Measured /\ since' = 0
  /\ fed' = TRUE
  /\ UNCHANGED <<device, threads, running, q, phase, hold, chain>>

Serve ==
  /\ chain = Idle
  /\ Candidates # <<>> /\ hold = 0
  /\ q <= Target(Measured)
  /\ gap' = Measured /\ since' = 0
  /\ hold' = Floor
  /\ chain' = [arg |-> Head(Candidates), target |-> Target(Measured), depth |-> 1]
  /\ fed' = FALSE
  /\ UNCHANGED <<device, threads, running, q, phase>>

-----------------------------------------------------------------------------
(* The mixer's slice returns, having written its fragment (audio_push);    *)
(* the music thread's Main would not.  The oldest units make room at the   *)
(* cap; without a device nothing is queued.                                *)
Fed == IF device THEN Least(q + Frag, Cap) ELSE q

(* Mutant: six slices whatever the depth of the queue.                     *)
SliceReturns_Fixed ==
  /\ chain.arg = Mixer
  /\ q' = Fed
  /\ chain' = IF chain.depth >= ChainMax THEN Idle
              ELSE [chain EXCEPT !.depth = @ + 1]
  /\ fed' = (chain' = Idle /\ q' > chain.target)
  /\ UNCHANGED <<device, threads, running, phase, since, gap, hold>>

(* Mutant: one slice and no more.                                          *)
SliceReturns_Once ==
  /\ chain.arg = Mixer
  /\ q' = Fed
  /\ chain' = Idle
  /\ fed' = TRUE
  /\ UNCHANGED <<device, threads, running, phase, since, gap, hold>>

(* Mutant: no limit on the length of a chain.                              *)
SliceReturns_Unlimited ==
  /\ chain.arg = Mixer
  /\ q' = Fed
  /\ chain' = IF q' > chain.target THEN Idle ELSE chain
  /\ fed' = (chain' = Idle)
  /\ UNCHANGED <<device, threads, running, phase, since, gap, hold>>

(* The continuation of schedule_sound_chain: another slice if the queue is *)
(* still short and the chain is not at its limit.                          *)
SliceReturns ==
  /\ chain.arg = Mixer
  /\ q' = Fed
  /\ chain' = IF chain.depth >= ChainMax \/ q' > chain.target THEN Idle
              ELSE [chain EXCEPT !.depth = @ + 1]
  /\ fed' = (chain' = Idle /\ q' > chain.target)
  /\ UNCHANGED <<device, threads, running, phase, since, gap, hold>>

-----------------------------------------------------------------------------
(* Time passes; every Buffer units the callback takes what there is.       *)
Callback == device /\ phase = 1
RunsDry  == Callback /\ q < Buffer

Tick ==
  /\ since' = IF since = Never THEN Never ELSE Least(since + 1, MaxGap + 1)
  /\ hold' = Less(hold)
  /\ IF Callback
     THEN /\ phase' = Buffer
          /\ q' = Most(q - Buffer, 0)
     ELSE /\ phase' = IF device THEN phase - 1 ELSE phase
          /\ UNCHANGED q
  /\ UNCHANGED <<device, threads, running, gap, chain, fed>>

Ask == AskEarly \/ AskNotRunning \/ AskFull \/ Serve

Next ==
  \/ \E t \in {Mixer, Music} : Launch(t) \/ SetRunning(t)
  \/ Ask
  \/ SliceReturns
  \/ Tick

Spec == Init /\ [][Next]_vars

(* The spliced slice is guest code that returns, and time passes.          *)
FairSpec == Spec /\ WF_vars(SliceReturns) /\ WF_vars(Tick)

-----------------------------------------------------------------------------
(* The feeding fields hold what their declarations say.                    *)
TypeOK ==
  /\ ToSet(threads) \subseteq {Mixer, Music}
  /\ running \subseteq ToSet(threads)
  /\ q \in 0 .. Cap /\ phase \in 1 .. Buffer
  /\ since \in {Never} \cup 0 .. MaxGap + 1 /\ gap \in 0 .. MaxGap /\ hold \in 0 .. Floor
  /\ chain.depth \in 0 .. ChainMax

(* Sound is never heard later than the queue target and one fragment: a    *)
(* chain stops as soon as the queue is filled, so that a sound the game    *)
(* cancels cannot play on for longer.                                      *)
LatencyBounded == TypeOK /\ q <= Ceiling + Frag

(* A serving fills the queue to its target, whatever the target and        *)
(* however empty the queue was, if its slices together take the guest no   *)
(* longer than Slack: the chain limit is never the reason of a dropout on  *)
(* a host that keeps up.  It does not fill it any deeper.                  *)
Slack == ChainMax * Frag - Ceiling - Buffer

ServingFills ==
  [][ /\ LatencyBounded'
      /\ device /\ chain # Idle /\ chain' = Idle /\ since <= Slack
         => q' > chain.target ]_vars

(* The queue bridges the measured gap: once an ask has found or made it    *)
(* deep enough, the callback does not run dry before the guest has stayed  *)
(* away for longer than the gap, for gaps that the ceiling allows for:     *)
(* it does not for gaps within a device's buffer and the floor of it.      *)
BridgesGap ==
  [][ Tick /\ RunsDry /\ fed /\ gap + Buffer + Floor <= Ceiling => since' > gap ]_vars

(* A serving comes to an end, however fast the device drains the queue,    *)
(* with no device, when the queue never fills, and in whatever order the   *)
(* mixer and the music thread, whose loop is endless, start and stop.      *)
ServingEnds == chain # Idle ~> chain = Idle
=============================================================================
