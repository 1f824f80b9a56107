----------------------------- MODULE Heartbeat -----------------------------
(***************************************************************************)
(* The guest's sleep and its 30 Hz heartbeat (TrapLayer in traps.cpp).     *)
(* No signal can reach the emulated program, so SIGALRM's handler is       *)
(* spliced into usleep and into the present.  A tick that comes due in a   *)
(* sleep returns to the usleep trap, which goes on with what is left of    *)
(* the sleep; a sound slice or a music call begun with a sleep takes the   *)
(* sleep's place.  All of them are guest code and may sleep themselves.    *)
(*                                                                         *)
(* Host clock readings are kept as differences from now, in host time      *)
(* units, and saturate at -Late.  The guest's stack is the sequence of     *)
(* calls that have not returned; module Splice shows that each return      *)
(* finds its caller.                                                       *)
(***************************************************************************)
EXTENDS Integers, Sequences

CONSTANTS
  Requests,   \* lengths the guest sleeps for
  Sites,      \* return addresses it calls usleep with
  Clamp,      \* no sleep is longer (1 s)
  Intervals,  \* timer values and intervals the guest sets
  SkipMax,    \* intervals skipped at most at a tick (16)
  Over,       \* how much longer than asked a host sleep may last
  Work,       \* how long guest code may run between two steps (bound)
  Late,       \* clocks saturate this far in the past (bound)
  Depth       \* nested calls (bound)

ASSUME HeartbeatConstants ==
  /\ Requests \subseteq Nat /\ Sites \subseteq Nat \ {0}
  /\ Intervals \subseteq Nat
  /\ {Clamp, SkipMax, Work, Late} \subseteq Nat \ {0}
  /\ Over \in Nat /\ Depth \in Nat

VARIABLES
  stack,      \* calls not yet returned: sleeps, ticks and slices
  timer,      \* timer_armed_, timer_next_ - now, timer_interval_
  custom,     \* sigalrm_handler_ is not the stock _TimerFunction
  resuming,   \* sleep_resuming_
  resumeRet,  \* sleep_resume_ret_
  left,       \* sleep_deadline_ - now
  slicing,    \* redirecting_sound_
  burst       \* ticks delivered since the host clock last moved

sleepVars == <<resuming, resumeRet, left>>
vars == <<stack, timer, custom, sleepVars, slicing, burst>>

Least(a, b) == IF a < b THEN a ELSE b
Most(a, b)  == IF a < b THEN b ELSE a

Init ==
  /\ stack = <<>>
  /\ timer = [armed |-> FALSE, due |-> 0, interval |-> 0]
  /\ custom = FALSE
  /\ resuming = FALSE /\ resumeRet = 0 /\ left = 0
  /\ slicing = FALSE
  /\ burst = 0

Top == stack[Len(stack)]
Below == SubSeq(stack, 1, Len(stack) - 1)

(* Guest code runs unless a sleep is on top.                               *)
GuestRuns == stack # <<>> => Top.kind # "sleep"

(* A sleep: where it returns to, what was asked, what the handler believes *)
(* remains and what is really owed to the guest.  The mark is history:     *)
(* "slept" on a tick that has slept and on the sleep it interrupted, and   *)
(* "mistaken" on two sleeps with one return address, the interrupted one   *)
(* and the tick's.                                                         *)
Sleep(site, req, mark) ==
  [kind |-> "sleep", at |-> "entry", ret |-> site, req |-> req,
   rem |-> 0, owed |-> Least(req, Clamp), mark |-> mark]
Call(kind) ==
  [kind |-> kind, at |-> "run", ret |-> 0, req |-> 0, rem |-> 0, owed |-> -Late,
   mark |-> "clear"]

(* A sleep that waits for a tick: the handler has returned and forgotten   *)
(* what remains; and one that was given up for what is spliced in: nothing *)
(* more is owed.                                                           *)
Waiting(f) == [f EXCEPT !.at = "entry", !.rem = 0]
GivenUp(f) == [f EXCEPT !.at = "given_up", !.rem = 0, !.owed = -Late]

Earlier(t, k) == Most(t - k, -Late)

(* The clock moves on by k; frames are the calls afterwards.               *)
Passing(k, frames) ==
  /\ stack' = [i \in DOMAIN frames |->
                 [frames[i] EXCEPT !.owed = Earlier(@, k)]]
  /\ timer' = [timer EXCEPT !.due = Earlier(@, k)]
  /\ left' = Earlier(left, k)
  /\ burst' = IF k > 0 THEN 0 ELSE burst

-----------------------------------------------------------------------------
(* The schedule.                                                           *)

(* Mutant: every missed interval is made up for.                           *)
Advanced_Replay(t) == [t EXCEPT !.due = @ + t.interval]

(* advance_timer_schedule: step past now by at most SkipMax intervals.     *)
Advanced(t) ==
  LET missed  == {n \in 0 .. SkipMax : t.due + n * t.interval > 0}
      skipped == IF missed = {} THEN SkipMax
                 ELSE CHOOSE n \in missed : \A o \in missed : n <= o
      next    == t.due + skipped * t.interval
  IN  [t EXCEPT !.due = IF next < 0 THEN t.interval ELSE next]

TickDue == timer.armed /\ timer.due <= 0

Deliver ==
  /\ timer' = Advanced(timer)
  /\ burst' = burst + 1

-----------------------------------------------------------------------------
(* Guest calls.                                                            *)

(* setitimer.  A period of 0 never occurs: both 0 disarms.                 *)
SetTimer(value, interval) ==
  /\ GuestRuns
  /\ LET period == IF value > 0 THEN value ELSE interval
     IN  timer' = IF period = 0
                  THEN [timer EXCEPT !.armed = FALSE, !.interval = 0]
                  ELSE [armed |-> TRUE, due |-> period,
                        interval |-> IF interval > 0 THEN interval ELSE period]
  /\ UNCHANGED <<stack, custom, sleepVars, slicing, burst>>

(* sigaction(SIGALRM) with a handler of the guest's own.                   *)
SetHandler ==
  /\ GuestRuns /\ ~custom
  /\ custom' = TRUE
  /\ UNCHANGED <<stack, timer, sleepVars, slicing, burst>>

(* A tick is on top of the sleep that it will return to.                   *)
Interrupting ==
  /\ Len(stack) > 1 /\ Top.kind = "tick"
  /\ stack[Len(stack) - 1].at = "entry"

(* The tick's first sleep is from the call site of the one below it.       *)
Mistaken(site) ==
  Interrupting /\ Top.mark = "clear" /\ stack[Len(stack) - 1].ret = site

(* The history of call f, i-th of the nest, once the top sleeps at site.   *)
Marked(f, i, site) ==
  IF ~Interrupting \/ i < Len(stack) - 1 THEN f.mark
  ELSE IF i = Len(stack) - 1 /\ (Mistaken(site) \/ f.mark = "mistaken")
       THEN "mistaken" ELSE "slept"

(* usleep, from the main program, a slice or the handler of a tick.        *)
Usleep(site, req) ==
  /\ GuestRuns
  /\ Len(stack) < Depth
  /\ stack' = Append([i \in DOMAIN stack |->
                        [stack[i] EXCEPT !.mark = Marked(stack[i], i, site)]],
                     Sleep(site, req, IF Mistaken(site) THEN "mistaken" ELSE "clear"))
  /\ UNCHANGED <<timer, custom, sleepVars, slicing, burst>>

(* The present hands out one splice: a slice of sound if one is due, or    *)
(* else a tick that returns to the present's caller.                       *)
PresentSound ==
  /\ stack = <<>> /\ ~slicing
  /\ stack' = <<Call("slice")>>
  /\ slicing' = TRUE
  /\ UNCHANGED <<timer, custom, sleepVars, burst>>

PresentTick ==
  /\ stack = <<>> /\ TickDue
  /\ stack' = <<Call("tick")>>
  /\ Deliver
  /\ UNCHANGED <<custom, sleepVars, slicing>>

(* Guest code takes its time ...                                           *)
GuestWork ==
  /\ GuestRuns
  /\ \E k \in 1 .. Work : Passing(k, stack)
  /\ UNCHANGED <<custom, resuming, resumeRet, slicing>>

(* Mutant: redirecting_sound_ is not reset.                                *)
GuestReturn_Kept ==
  /\ stack # <<>> /\ Top.kind # "sleep"
  /\ stack' = IF Below # <<>> /\ Below[Len(Below)].at = "given_up"
              THEN SubSeq(Below, 1, Len(Below) - 1)
              ELSE Below
  /\ UNCHANGED <<timer, custom, sleepVars, slicing, burst>>

(* ... and the spliced function returns: to the usleep trap, or past it if *)
(* the sleep was given up for the splice.                                  *)
GuestReturn ==
  /\ stack # <<>> /\ Top.kind # "sleep"
  /\ stack' = IF Below # <<>> /\ Below[Len(Below)].at = "given_up"
              THEN SubSeq(Below, 1, Len(Below) - 1)
              ELSE Below
  /\ slicing' = IF Top.kind = "slice" /\ Top.at = "run" THEN FALSE ELSE slicing
  /\ UNCHANGED <<timer, custom, sleepVars, burst>>

-----------------------------------------------------------------------------
(* The usleep handler.                                                     *)

(* Mutants: every entry is a new sleep; the return address is not looked   *)
(* at.                                                                     *)
Resumed_Never     == FALSE
Resumed_Unguarded == resuming

(* Is this the return of a tick to the sleep it interrupted?               *)
Resumed == resuming /\ Top.ret = resumeRet

AtEntry == stack # <<>> /\ Top.kind = "sleep" /\ Top.at = "entry"

(* Mutant: a deadline that has passed leaves less than nothing.            *)
Remaining_Signed == IF Resumed THEN left ELSE Least(Top.req, Clamp)

(* What is left of the sleep, by the deadline fixed when it was entered.   *)
Remaining == IF Resumed THEN Most(left, 0) ELSE Least(Top.req, Clamp)

(* Mutant: the record of the interrupted sleep is not taken down.          *)
Entered_Kept(frame) ==
  /\ stack' = Append(Below, frame)
  /\ left' = IF Resumed THEN left ELSE Remaining
  /\ UNCHANGED <<timer, custom, resuming, resumeRet, burst>>

(* The record is taken down, and a new sleep gets its deadline.            *)
Entered(frame) ==
  /\ stack' = Append(Below, frame)
  /\ resuming' = FALSE
  /\ left' = IF Resumed THEN left ELSE Remaining
  /\ UNCHANGED <<timer, custom, resumeRet, burst>>

EnterSleep ==
  /\ AtEntry
  /\ Entered([Top EXCEPT !.at = "loop", !.rem = Remaining])
  /\ UNCHANGED slicing

(* A fresh entry may give the sleep up for a slice of sound ...            *)
EnterSound ==
  /\ AtEntry /\ ~Resumed /\ ~slicing
  /\ stack' = Below \o <<GivenUp(Top), Call("slice")>>
  /\ resuming' = FALSE
  /\ left' = Remaining
  /\ slicing' = TRUE
  /\ UNCHANGED <<timer, custom, resumeRet, burst>>

(* ... or for the guest's choice of the next track.                        *)
EnterMusic ==
  /\ AtEntry /\ ~Resumed
  /\ stack' = Below \o <<GivenUp(Top),
                         [Call("slice") EXCEPT !.at = "music"]>>
  /\ resuming' = FALSE
  /\ left' = Remaining
  /\ UNCHANGED <<timer, custom, resumeRet, slicing, burst>>

InLoop == stack # <<>> /\ Top.kind = "sleep" /\ Top.at = "loop"

SleepOver ==
  /\ InLoop /\ Top.rem = 0
  /\ stack' = Below
  /\ UNCHANGED <<timer, custom, sleepVars, slicing, burst>>

(* redirect_timer_reentrant: the tick will return to the usleep trap.      *)
TickInSleep ==
  /\ InLoop /\ Top.rem > 0 /\ TickDue /\ ~custom
  /\ stack' = Below \o <<Waiting(Top), Call("tick")>>
  /\ resuming' = TRUE
  /\ resumeRet' = Top.ret
  /\ Deliver
  /\ UNCHANGED <<custom, left, slicing>>

(* A handler that reads its argument cuts the sleep short.                 *)
TickCutsSleep ==
  /\ InLoop /\ Top.rem > 0 /\ TickDue /\ custom
  /\ stack' = Below \o <<GivenUp(Top), Call("tick")>>
  /\ Deliver
  /\ UNCHANGED <<custom, sleepVars, slicing>>

(* Sleep to the next tick or to the end, and read the clock again.         *)
HostSleep ==
  /\ InLoop /\ Top.rem > 0 /\ ~TickDue
  /\ LET slice == IF timer.armed THEN Least(Top.rem, timer.due) ELSE Top.rem
     IN  \E o \in 0 .. Over :
           Passing(slice + o,
                   Append(Below, [Top EXCEPT !.rem =
                                    Most(Earlier(left, slice + o), 0)]))
  /\ UNCHANGED <<custom, resuming, resumeRet, slicing>>

Handler ==
  \/ EnterSleep \/ EnterSound \/ EnterMusic
  \/ SleepOver \/ TickInSleep \/ TickCutsSleep \/ HostSleep

Next ==
  \/ \E v, i \in Intervals : SetTimer(v, i)
  \/ SetHandler
  \/ \E c \in Sites, r \in Requests : Usleep(c, r)
  \/ PresentSound \/ PresentTick
  \/ GuestWork \/ GuestReturn
  \/ Handler

Spec == Init /\ [][Next]_vars

(* The host runs the handler; a tick or a slice returns in the end, also   *)
(* when it sleeps now and then.                                            *)
Fairness ==
  /\ WF_vars(Handler)
  /\ \A n \in 1 .. Depth + 1 : SF_vars(GuestReturn /\ Len(stack) = n)

FairSpec == Spec /\ Fairness

-----------------------------------------------------------------------------
(* The sleep and timer fields hold what their declarations say.            *)
TypeOK ==
  /\ \A i \in DOMAIN stack :
       /\ stack[i].kind \in {"sleep", "tick", "slice"}
       /\ stack[i].at \in {"entry", "loop", "given_up", "run", "music"}
       /\ stack[i].rem \in 0 .. Clamp
  /\ timer.due \in Int /\ timer.interval \in Nat
  /\ left \in Int /\ resumeRet \in Sites \cup {0}
  /\ custom \in BOOLEAN /\ resuming \in BOOLEAN /\ slicing \in BOOLEAN
  /\ timer.armed \in BOOLEAN

(* A sleep that was entered and not given up is slept to its end and not   *)
(* beyond, however many ticks interrupt it and however their handlers      *)
(* sleep above it and it above theirs: what the handler takes to remain is *)
(* what is still owed to the guest.  Left out are a sleep whose own tick   *)
(* slept (HandlerMaySleep) and one taken for the sleep its tick            *)
(* interrupted, since both returned to the same address.                   *)
RemainingIsOwed ==
  /\ TypeOK
  /\ \A i \in DOMAIN stack :
       stack[i].at = "loop" /\ stack[i].mark = "clear"
         => stack[i].rem = Most(stack[i].owed, 0)

(* The return address guards a sleep against a handler that sleeps, from   *)
(* another call site, while its tick has interrupted it (the comment in    *)
(* usleep).  The code takes the record down before it looks at the address *)
(* and begins the outer sleep anew.                                        *)
HandlerMaySleep ==
  \A i \in DOMAIN stack :
    stack[i].at = "loop" /\ stack[i].mark # "mistaken"
      => stack[i].rem = Most(stack[i].owed, 0)

(* A backlog is collapsed: the clock standing still, at most two ticks are *)
(* delivered, and two only when the skips end exactly at now.              *)
NoStorm == burst <= 2

(* redirecting_sound_ is set exactly while a slice of sound is running, so *)
(* that the mixer is neither re-entered nor locked out.                    *)
SlicingMatches ==
  slicing <=> \E i \in DOMAIN stack :
                stack[i].kind = "slice" /\ stack[i].at = "run"

(* Every usleep returns, however short the timer's interval, unless the    *)
(* handler of a tick that interrupts it sleeps: it begins anew then.       *)
SleepReturns ==
  \A n \in 1 .. Depth :
    (Len(stack) >= n /\ stack[n].kind = "sleep" /\ stack[n].mark = "clear")
      ~> (Len(stack) < n \/ stack[n].kind # "sleep" \/ stack[n].mark # "clear")
=============================================================================
