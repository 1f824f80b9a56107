------------------------------ MODULE Session ------------------------------
(***************************************************************************)
(* A session (main.cpp): the images are linked, the guest's constructors   *)
(* run, the game's Init asks for subsystems, libmvos opens them, the host  *)
(* adds the one that is missing, the game is played and the process winds  *)
(* down.  What the game and libmvos say to one another goes through        *)
(* variables that both refer to: the boot works only if the linker made    *)
(* them the same words.                                                    *)
(***************************************************************************)
EXTENDS GuestLink, Harness

CONSTANTS
  Flags,      \* names of the flags by which Init asks for a subsystem
  Handle,     \* Handle[flag]: the name of the pointer to that subsystem
  HostMade,   \* the flag of the one that libmvos leaves to its main program
  Objects,    \* Objects[flag]: where the subsystem's object comes to be
  LongrunStall,  \* the default of THEOC_WATCHDOG under THEOC_LONGRUN
  HoldTicks   \* THEOC_VIDEO_HOLD

ASSUME SessionConstants ==
  /\ DOMAIN Handle = Flags /\ DOMAIN Objects = Flags /\ HostMade \in Flags
  /\ \A f \in Flags : Objects[f] \in Nat \ {0}
  /\ {LongrunStall, HoldTicks} \subseteq Nat

VARIABLE boot   \* how far the boot got: init_ok, open_ok

vars == <<linkVars, harnessVars, boot>>

Init ==
  /\ InitLink
  /\ InitHarness
  /\ boot = [init |-> FALSE, open |-> FALSE, hold |-> 0]

instruments == <<hooks, fresh, silent, wd, report, health, truth, soak, game>>

-----------------------------------------------------------------------------
(* Where the code of libmvos finds a variable: at the address that the     *)
(* linker has put into its text.                                           *)
MvosRef(n) ==
  LET r == CHOOSE k \in DOMAIN Mvos.relocs :
             Mvos.relocs[k].type = "32" /\ Mvos.syms[Mvos.relocs[k].sym].name = n
  IN  mem[MvosBase + Mvos.relocs[r].at]

SeenByMvos(n) == mem[MvosRef(n)]

SeenByGame(n) == mem[GameSym(n)]

(* Machine::call: how the guest's code comes back.                         *)
Outcomes == {"returned", "aborted", "timeout", "fault"}

(* THEOC_LONGRUN implies the watchdog, unless it was set.                  *)
Linking ==
  /\ phase = "link"
  /\ IF pass # "linked" THEN Link /\ UNCHANGED <<env, phase>>
     ELSE /\ phase' = "construct"
          /\ env' = IF env.longrun /\ env.watchdog = Off
                    THEN [env EXCEPT !.watchdog = LongrunStall] ELSE env
          /\ pass' = "done"
          /\ UNCHANGED <<mem, bind>>
  /\ UNCHANGED <<instruments, boot>>

(* DT_INIT, the constructors of libmvos, mvos.cfg, the constructors of the *)
(* game: whatever becomes of them, main() goes on.  They leave the flags   *)
(* and the pointers as they were.                                          *)
Construct ==
  /\ phase = "construct"
  /\ phase' = "init"
  /\ UNCHANGED <<linkVars, env, instruments, boot>>

(* cApplication::Init writes its flags, at its own addresses for them; one *)
(* that does not return may have written some.                             *)
InitApplication ==
  /\ phase = "init"
  /\ \E how \in Outcomes : \E asked \in SUBSET Flags :
       /\ how = "returned" => asked = Flags
       /\ mem' = [a \in DOMAIN mem |-> IF \E f \in asked : a = GameSym(f) THEN 1 ELSE mem[a]]
       /\ boot' = [boot EXCEPT !.init = (how = "returned")]
       /\ phase' = IF how = "returned" THEN "open" ELSE "stopping"
  /\ UNCHANGED <<pass, bind, env, instruments>>

(* OpenSubsystems reads the flags and writes the pointers, all through     *)
(* libmvos's text.                                                         *)
OpenSubsystems ==
  /\ phase = "open"
  /\ \E how \in Outcomes :
     \E opened \in SUBSET {f \in Flags \ {HostMade} : SeenByMvos(f) = 1} :
       /\ how = "returned" => \A f \in Flags \ {HostMade} : SeenByMvos(f) = 1 => f \in opened
       /\ mem' = [a \in DOMAIN mem |->
                    IF \E f \in opened : a = MvosRef(Handle[f])
                    THEN Objects[CHOOSE f \in opened : a = MvosRef(Handle[f])]
                    ELSE mem[a]]
       /\ boot' = [boot EXCEPT !.open = (how = "returned")]
  /\ phase' = "intuition"
  /\ UNCHANGED <<pass, bind, env, instruments>>

(* The host makes cIntuition when the game asked for it and nobody has:    *)
(* its pointer is published however the constructor came back.             *)
MakeIntuition ==
  /\ phase = "intuition"
  /\ LET at == GameSym(Handle[HostMade])
         wanted == GameSym(HostMade) # 0 /\ mem[GameSym(HostMade)] # 0
     IN  mem' = IF wanted /\ at # 0 /\ mem[at] = 0
                THEN [mem EXCEPT ![at] = Objects[HostMade]] ELSE mem
  /\ phase' = IF boot.open \/ env.anyway THEN "play" ELSE "stopping"
  /\ hooks' = IF phase' = "play" THEN CountersForStart ELSE hooks
  /\ UNCHANGED <<pass, bind, env, fresh, silent, wd, report, health, truth, soak, game, boot>>

StartEnds_HoldFirst ==
  /\ phase = "play"
  /\ phase' = "hold"
  /\ boot' = [boot EXCEPT !.hold = HoldTicks]
  /\ health' = Untouched[1] /\ truth' = Untouched[2]
  /\ soak' = Untouched[3] /\ game' = Untouched[4]
  /\ UNCHANGED <<linkVars, env, hooks, fresh, silent, wd, report>>

(* cApplication::Start comes back, aborts, faults or runs out of time.     *)
(* Nobody looks at the accounts or at the driver again: the model forgets  *)
(* them.                                                                   *)
StartEnds ==
  /\ phase = "play"
  /\ phase' = "stopping"
  /\ health' = Untouched[1] /\ truth' = Untouched[2]
  /\ soak' = Untouched[3] /\ game' = Untouched[4]
  /\ UNCHANGED <<linkVars, env, hooks, fresh, silent, wd, report, boot>>

(* stop_watchdog asks the thread to leave, ...                             *)
StopWatchdog ==
  /\ phase = "stopping" /\ wd.pc # "off" /\ ~wd.stop
  /\ wd' = [wd EXCEPT !.stop = TRUE]
  /\ UNCHANGED <<linkVars, env, phase, hooks, fresh, silent, report, health, truth, soak,
                 game, boot>>

(* ... and waits for it, if there is one; the window is held open.         *)
WatchdogJoined ==
  /\ phase = "stopping" /\ wd.pc \in {"off", "left"}
  /\ phase' = "hold"
  /\ boot' = [boot EXCEPT !.hold = HoldTicks]
  /\ UNCHANGED <<linkVars, env, instruments>>

(* Video::keep_open_for presents, and nothing counts it.                   *)
HoldEnds ==
  /\ phase = "hold" /\ boot.hold = 0
  /\ phase' = "over"
  /\ UNCHANGED <<linkVars, env, instruments, boot>>

Time ==
  /\ Tick
  /\ phase = "hold" => boot.hold > 0
  /\ boot' = IF phase = "hold" THEN [boot EXCEPT !.hold = @ - 1] ELSE boot
  /\ UNCHANGED linkVars

Main ==
  \/ Linking \/ Construct \/ InitApplication \/ OpenSubsystems \/ MakeIntuition
  \/ StopWatchdog \/ WatchdogJoined \/ HoldEnds

(* While the game is played.                                               *)
Play ==
  /\ \/ RunBlock \/ Frame \/ MovieFrame \/ PointerFrame
     \/ Underrun \/ Mark \/ LoadEnds
  /\ UNCHANGED <<linkVars, boot>>

WatchdogThread == Watchdog /\ UNCHANGED <<linkVars, boot>>

Over == phase = "over" /\ UNCHANGED vars

Next == Main \/ StartEnds \/ Play \/ WatchdogThread \/ Time \/ Over

Spec ==
  /\ Init /\ [][Next]_vars
  /\ WF_vars(Main) /\ WF_vars(WatchdogThread) /\ WF_vars(Time)
-----------------------------------------------------------------------------
(* The variables through which the game, libmvos and the host speak.       *)
Names == Flags \cup {Handle[f] : f \in Flags}

(* Which relocation of libmvos's text tells its code where a variable is.  *)
TextRefs(n) == {k \in DOMAIN Mvos.relocs :
                  Mvos.relocs[k].type = "32" /\ Mvos.syms[Mvos.relocs[k].sym].name = n}

(* Data that both images define and the game copies, to a place of its     *)
(* own, and that libmvos's code refers to.                                 *)
IsShared(n) ==
  /\ n \in DOMAIN Defs(Game) /\ n \in DOMAIN Defs(Mvos)
  /\ n \notin Vtables \cup {"", "__ctype_b"}
  /\ \E i \in Copies : CopiedName(i) = n
  /\ GameSym(n) \in Nat \ {0} /\ GameSym(n) \in DOMAIN FileWords
  /\ TextRefs(n) # {}
  /\ \A k \in TextRefs(n) :
       /\ Mvos.syms[Mvos.relocs[k].sym].def
       /\ Mvos.relocs[k].at \in DOMAIN Mvos.words /\ Mvos.words[Mvos.relocs[k].at] = 0
       /\ \A m \in Names : MvosBase + Mvos.relocs[k].at # GameSym(m)

(* Null in libmvos's file, and copied as such.                             *)
IsNull(n) ==
  /\ \A i \in Copies : CopiedName(i) = n =>
       /\ Game.relocs[i].at = GameSym(n)
       /\ 0 \in 0 .. Game.syms[Game.relocs[i].sym].size - 1
  /\ Defs(Mvos)[n] \in Nat
  /\ Defs(Mvos)[n] \in DOMAIN FileWords
  /\ Defs(Mvos)[n] \notin Designated(Game) \cup Designated(Mvos) \cup {LibcData}
  /\ FileWords[Defs(Mvos)[n]] = 0

(* What the theorem about the boot takes of the images: the variables that *)
(* game, libmvos and host speak through are shared data, and the pointer   *)
(* that the host may have to set is null to begin with.                    *)
SharedNames ==
  /\ Game # Mvos
  /\ \A f, g \in Flags : Handle[f] = Handle[g] => f = g
  /\ \A f \in Flags : Handle[f] \notin Flags
  /\ \A n \in Names : IsShared(n)
  /\ \A m, n \in Names : GameSym(m) = GameSym(n) => m = n
  /\ IsNull(Handle[HostMade])

(* "libmvos sees it too": when the game starts, it and libmvos find the    *)
(* same subsystem behind every pointer, and there is one for each that     *)
(* Init asked for - of what libmvos opens, if it came back from that.      *)
StartFindsWorld ==
  phase = "play" =>
    \A f \in Flags :
      /\ SeenByGame(Handle[f]) = SeenByMvos(Handle[f])
      /\ f = HostMade \/ boot.open => SeenByGame(Handle[f]) = Objects[f]

(* Whatever became of the guest, and wherever the watchdog is in its look, *)
(* a session that winds down ends.                                         *)
Exits == phase = "stopping" ~> phase = "over"
=============================================================================
