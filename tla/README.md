# A verification project for theocracy-rev

`port/src` runs the two guest images of a Linux/i386 game of 2000, the game and
its engine library libmvos, on an emulated CPU, and replaces what lay below
them: libc, the kernel's files and sockets, the heartbeat signal, threads,
sound, the CD drive and the display. The guest is compiled code nobody can
change. What can go wrong is at the border: a host that interrupts, re-enters
or feeds the guest at a moment its authors never allowed for.

This directory holds TLA+ models of that border, the TLC configurations that
check them, and TLAPS proofs about the allocator, the music player and the CD
drive, the guest's sleep, the sound feed, the splices, descriptors and saves,
the input and the screen, and the session. Source paths below are
relative to `port/src` unless they say otherwise.

## 1. Inventory

Everything but three host threads (the SDL audio callback, the CD decoder and
the watchdog) runs on the emulation thread. An import of the guest lands in a
trap region; `Machine::code_hook` calls the handler in `TrapLayer`, which runs
to completion. A handler can make guest code run only by rewriting the trapped
frame (a *splice*), never by calling it.

| Component | State | Operations | Talks to | What is hard |
|---|---|---|---|---|
| Guest heap (`traps.cpp` 1127-1270, 1339-1380) | frontier, live blocks, free list by address and by size | malloc, calloc, realloc, free | every handler that needs guest memory | long sequences of calls; two indexes of one list; words that wrap |
| Splices and traps (`machine.cpp` 27-71, 372-522) | EIP, ESP, the guest's stack, `resume_` | host call, trap, tail splice, re-entrant splice, call-then-resume, abort | all below | nesting, chaining, aborts, frames shared by handler and guest |
| Guest timer and sleep (`traps.cpp` 1638-1745, 2320-2382, 3428-3487) | schedule, the record of one interrupted sleep | setitimer, sigaction, usleep, present | splices, sound feed, music | ticks in sleeps in slices in sleeps; late clocks; liveness |
| Sound feed (`traps.cpp` 630-694, 2387-2403, 4112-4307) | launched threads, queue, measured gap, chain | pthread_create, feed at present or sleep, callback | splices, audio thread | queue bounds in both directions; a chain that must end |
| Music player (`cdaudio.cpp` 1-260) | ring, flags, clock; decoder thread | open, close, pause, decode, mix | audio callback, virtual drive | three threads, a lock and atomics outside it |
| Virtual drive (`cdaudio.cpp` 261-415, `traps.cpp` 3994-4110) | transport state, two clocks | ioctls, auto-advance | player, guest's music manager | end of track by two clocks; choices overtaken by pauses |
| Files and sockets (`traps.cpp` 950-1122, 1785-2237, 2751-3032) | tables of descriptors, streams and directories | open, close, read, write, socket calls, select, fopen, fclose | host kernel | numbers that run out or are given again; where errors are found |
| Save normalisation (`traps.cpp` 5768-5932, `tools/fix_save.py`) | the file | rewrite when the game closes a save; offline repair | files | a parse that must not be wrong; a byte that wraps |
| Input (`traps.cpp` 4614-5142) | key matrices, four rings, the movies' key mailbox, swallowed chords | SDL events | guest memory, cutscenes, window | rings that fill, repeats and releases of swallowed keys, a lost focus |
| Cutscenes (`traps.cpp` 2408-2666, `mpeg.cpp`) | movies, frame and audio position | the SMPEG calls | sound queue, input, window | late frames, sound against frames, the many ways a movie ends |
| Plug-ins and display (`traps.cpp` 4462-4612, 5144-5750, `video.cpp`, `blit.cpp`) | handles, driver tables, window, the slots of the pointer's background | dlopen, dlsym, driver calls, modes, full screen, present, repaint of the pointer | SDL, guest | settings made on several paths; a background that outlives its frame |
| Guest linker (`guestlink.cpp`, `elf32.hpp`) | images, symbols, import slots | load, resolve, relocate | machine | the order of the passes, data that both images define |
| Watchdog and session harness (`traps.cpp` 190-650, 3151-3427) | counters read by another thread, the step of the script | stall report, soak driver, rate limit, snapshots | all | relaxed counters, clicks that race a load |
| Developer console, edit mode (`traps.cpp` 5934-6013) | pending flag | open at a present | splices, input | the tail splice it uses |
| World dump, world generation, province rate (`traps.cpp` 3516-3907) | - | watches | - | diagnostics |
| Configuration, log, boot (`config.cpp`, `log.cpp`, `main.cpp`) | how far the boot got | once, in order | all | a guest that aborts, faults or hangs at any of its calls |
| `mvos.cpp`, `mvos.hpp` | - | native replacements of libmvos | - | not linked into the current build |
| `tools/*.py` but `fix_save.py`, `include/mvos_api.hpp` | - | offline analysis; generated declarations | - | - |

What makes each correct, in a sentence: the heap keeps the contract of malloc
and loses nothing; an import returns to its caller with its frame untouched; a
sleep is slept exactly, however often it is interrupted; the sound queue
neither runs dry nor grows; a track is heard whole, in order, and once; a
descriptor means one thing while it is open and nothing afterwards; a save
holds what the game last wrote; an input event reaches the guest once and in
order, and no key is held that the player does not hold; a picture is shown at
its size, with one pointer and in step with its sound; the two images share
every word that the original loader would have made them share; a report of the
watchdog is true, and none is missing.

`PROJECT.json` lists every component with its status under "components", and
under "hazards" each thing that can go wrong and that a test would hardly
reach, with the line where it bites and the properties that watch it.

## 2. Modules

```
  HeapContract <--implements-- GuestHeap   <---- GuestHeapProofs
  DriveDAC     <--implements-- CDPlayer  } <---- MusicProofs
  DriveDAC     <--extends----- VirtualCD }
                               Heartbeat   <---- HeartbeatProofs
                               SoundFeed   <---- SoundFeedProofs
                               Splice      <---- SpliceProofs
  SaveFile     <--extends----- GuestFiles  <---- GuestFilesProofs

  EventQueue   <--implements-- Input     }
  EventRing    <--extends----- Input     }
  Input, Video <--extends----- Cutscene  } <---- ScreenProofs
  Cutscene     <--extends----- Screen    }

  GuestLink, Harness <--extends----- Session <-- SessionProofs
```

Each has an `MC` module that gives the constants and names what a unit stands
for. A handler runs to completion on the emulation thread, so that it is one
action, except where another thread can see its middle (CDPlayer, where a step
is a region under `mu_` or one access of an atomic) and where the guest can run
in its middle (Heartbeat and Splice, where a splice divides it).

**HeapContract, GuestHeap.** `heap` is the allocator's members and `call` the
last call with its result, so that properties can speak of both. Addresses are
words and every sum the code computes is taken modulo `W`. `Malloc`, `Calloc`,
`Free` and the three forms of realloc are the handlers; `BumpAlloc` and
`GuestFree` are the functions below them, steps in the order of the code.
HeapContract says what the guest relies on: a block is aligned, inside the
arena, large enough and apart from all held, or the call returns null and
changes nothing; a pointer that is not held is ignored. What is stored in a
block is left out.

**DriveDAC, CDPlayer.** CDPlayer is the player with its three threads. A sample
is the pair of the open it was decoded for and its place in the track, so that
a sample that is stale, lost, repeated or out of order is visible. The decoder
may hold samples back until it is flushed, as libav does. DriveDAC is the half
sentence the transport relies on: a track is begun, heard in buffers and over
after its last sample, and a pause lets at most the buffer under way through.
CDPlayer implements it (`PlaysAsDac`), and VirtualCD is built on it.

**VirtualCD.** The transport, the ioctls that reach it and the auto-advance
that stands in for the guest's poll thread. The guest's music manager is
external: it is modelled from the calls that the drive answers, and chooses at
random. Runs with and without an audio device, and with tracks that are
missing, of no length, or over before a sample is heard, as unreadable ones
are. The loop of `advance()` is one step (`RollOn`) a turn, since the player's
threads run on between two turns; every caller of `advance()` waits until it has
returned (`Settled`). `owed` is an account that the drive does not keep: the
tracks of the range, from which the steps that reach the end of a track strike
it off.

**Splice.** The guest's stack in words, EIP and ESP, and `resume_`. Compiled
guest code is what it does to the stack: it calls imports, and restores ESP
from its frame when it returns. The trap of `code_hook` is divided where guest
code runs, and every way a handler can end is an action: return, return of a
double through the stub, stop, tail splice, re-entrant tick, call-then-resume
and the continuation that chains the next call.

**Heartbeat.** `usleep` with its splices, against the timer. Sleeps, ticks and
slices nest in `stack`; `owed` is what the guest is really owed, next to `rem`,
what the handler takes to remain. A slice, a music call and the handler of a
tick may sleep, from any call site: `mark` remembers which sleeps that touched,
and no guard reads it. Times are relative to now, so that the state is finite;
the host sleeps too long by up to `Over`. Splice checks that the control passes
as Heartbeat assumes.

**SoundFeed.** The queue to the audio callback, asked for at presents and
sleeps, fed by a chain of spliced slices. One unit of the queue is one unit of
time.

**EventRing, EventQueue, Input.** EventRing is the rings in guest memory as the
host writes and the guest reads them: one kind has a mark for "full", one has
not. EventQueue says what a ring promises: a bounded queue, and what is lost
when it is full. Input is `on_sdl_event` with everything it sets: both key
matrices (which change together and are one variable), the qualifier byte, the
rings, the mailbox of the movies and the chords with Alt that the host keeps for
itself. SDL reports what a keyboard can do: presses, repeats of what is held,
releases, and a focus that is lost with keys down.

**Video, Cutscene, Screen.** Video is the window: what `open`, `set_crisp` and
`toggle_fullscreen` set on separate paths, and what SDL was told last. Cutscene
composes it with Input: a movie shows its frames when they are due, pushes the
sound that goes with them, presents, and asks SDL for keys, any of which ends
it through the mailbox. Screen composes both with the presents of the menus and
the game, and with the pointer that the guest paints into the buffer it
presents: two slots hold what is under it, one for the frame, one for the
repaint that a tick makes between two frames. A spot of the buffer is of this
scene, of an older one, or the pointer.

**GuestLink.** `link()`, a step to each of its passes over memory: the files are
mapped, libmvos is relocated, data is copied to the game, slots that pointed at
the original are bound anew, the game is relocated. Symbols, relocations and
memory are counted in words. `LinkedAsLoader` is the reference definition, by
the search order of the original system's dynamic linker (`HomeOf`: the
executable, libmvos, the system's libraries, for which the traps stand) and not
by that of the code: each relocated word designates what is found under its
name; a datum that was copied is the same in both images; and no word but those
that a relocation is for has changed since the files were mapped. libmvos's own
virtual tables may stand for the game's identical copies of them, as the comment
at `guestlink.cpp` 199 says. Left out are two kinds of names: addresses, in
libmvos, of symbols that the game hides (`Hidden`), which is what configuration
`MCSessionClash` is about; and weak names that nobody defines (`Optional`), which
the original linker leaves 0 and this one gives a trap.

**Harness.** The watchdog's thread, the accounts of the health line, the counter
of executed blocks and the soak driver with as much of the game's menus as its
clicks can reach. Time passes in polls of the watchdog, and a thread wakes late
by up to `Slack`.

**Session.** `main()`: it links (GuestLink), runs the constructors, lets the game
ask for subsystems and libmvos open them, adds the one that is missing, plays
with the instruments of Harness, stops the watchdog and holds the window open.
A call of the guest comes back, aborts, faults or runs out of time.

**SaveFile, GuestFiles.** SaveFile is the search of both programs for the lists
of a save, their guards and their rewriting, as operators on sequences of
bytes. GuestFiles has the tables of descriptors and streams, the places where
the host and Winsock leave an error, and the saves on disk: it opens, writes,
loads and closes them, so that every file SaveFile is applied to is one that
the game can have written. The header is one of three values, by whether it is
recognised and stamped. Both programs search from the first byte of the file,
the 72 of the header included: those bytes are part of the first province's gap
for the search, and that stamping exchanges some of them is not modelled. Both
stamp before they search, so that they see the same ones.

## 3. What the runs show

Twelve runs, ten that pass and two that end in a violation; "states" are
distinct. Each property of a passing run has a mutant, a plausible bug in a
modelled definition that the run finds.

| Run | States | Shows |
|---|---|---|
| `heap` | 19 465 | Live and free blocks are disjoint (`NoOverlap`), together everything below the frontier (`NothingLost`), free neighbours merged and both indexes alike (`FreeListOK`); fresh memory is taken only when no unclaimed run would do (`ReuseBeforeFresh`); the contract holds (`KeepsContract`). |
| `cdplayer` | 15 660 | The ring is what was decoded and not heard, of this track and in order (`RingIsNext`); the end is reported after the last sample (`FinishedIsHeard`); the player implements DriveDAC (`PlaysAsDac`); close returns and a track ends (`CloseReturns`, `TrackEnds`). |
| `drive` | 229 382 | Transport and player agree (`DriveAgrees`); neither a clock nor the auto-advance cuts a track (`NotCutShort`); a range is completed only when the end of each of its tracks was reached, and none is passed over (`RangePlayedOut`); wanted music goes on and no track plays for ever (`MusicGoesOn`). |
| `heartbeat` | 206 314 | What a sleep takes to remain is what is owed, also next to handlers that sleep, unless the sleep's own tick slept (`RemainingIsOwed`); the one flag of the mixer is right for the whole nest of calls (`SlicingMatches`); a backlog of ticks is collapsed (`NoStorm`); every sleep whose ticks do not sleep returns (`SleepReturns`). |
| `splice` | 178 701 | Frames stay as they were written (`FramesIntact`), imports return to their callers and `resume_` is the stack of the calls that wait (`BackToCaller`), through nesting, chaining and aborts. |
| `soundfeed` | 1 069 847 | The queue never runs dry before the measured gap has passed, unless with the device's buffer and the floor it is beyond the latency bound (`BridgesGap`); a serving fills it without passing the latency bound and never runs the music thread (`ServingFills`); it ends, on any device or none (`ServingEnds`). |
| `files` | 161 448 | The host's open descriptors are the guest's, one entry each, and a dead number stays dead (`HostOwned`); a save that was closed is what the game wrote with one group in each list (`SavesSound`), and the tool would have kept the same (`ToolRepairs`). |
| `input` | 430 668 | The guest holds no key and no qualifier that the player does not hold, through chords, repeats and lost focus, the keys of the chords excepted (`NothingSticks`); every ring is a bounded queue, wherever its indexes are (`RingsAreQueues`: Input implements EventQueue). |
| `screen` | 2 651 936 | Through modes, full screen, movies and failures to get a texture, the picture is presented at its size and with its filter (`PaintsWhatIsPresented`); a movie leaves no key and no filter behind (`MovieLeavesNothing`); every frame that is shown has one pointer and nothing of an older scene (`OnePointer`); the sound keeps up with the frames, late ones too (`LipSync`); a movie ends (`MovieEnds`). |
| `session` | 540 969 | Every word that a relocation is for, and every datum both images share, is what the original loader would have made it, with the exceptions named in section 2, and no other word is touched (`LinkedAsLoader`); the game starts in the world libmvos opened (`StartFindsWorld`); the watchdog reports stalls only, the right side, and all of them (`ReportsAreTrue`, `StallsAreReported`); without [fps] lines, a health line tells the underruns of its interval (`HealthTells`); the soak driver never clicks a wrong screen (`ClicksOnTarget`); a session that winds down ends (`Exits`). |

Two runs show the code to disagree with its own documentation; the quotations
are under "findings".

| Run | Violated | What happens |
|---|---|---|
| `files_select` | `SocketsSelectable` | Guest numbers count up and are never reused; the CD driver opens its device around every ioctl; `select` ignores numbers from 1024 on. A session that plays music for long enough cannot use a socket it opens then. |
| `input_chord` | `SwallowedWhole` | A chord with Alt is recognised in a press that is not a repeat. The repeats that SDL sends while Return stays down reach the guest as presses, and the release is swallowed with the chord: the guest holds a key that nobody does, until it is pressed again or the focus is lost. By `NothingSticks` no other key can stick. |

### Further configurations

Eight more configurations are kept beside their modules, and are not among the
runs of `PROJECT.json`. Each has a counterexample, which TLC finds in seconds,
that does less harm, or harm only to images, handlers or settings that the
repository does not say are in use. The first three are what the properties of
the passing runs except: `RemainingIsOwed`, `LinkedAsLoader` and `HealthTells`
say so in their definitions.

| Configuration | Property | What happens |
|---|---|---|
| `MCHeartbeatHandler` | `HandlerMaySleep` | The return address is compared in `usleep` "in case a spliced handler ever calls usleep itself" (`traps.cpp` 1659), against what "would restart the sleep from the top". The record is taken down before the addresses are compared (1664): the handler's sleep is a fresh one, as it should be, but the outer one has no record left and begins anew. The stock `_TimerFunction` calls the engine's timers; none is known to sleep. |
| `MCSessionClash` | `GameWins` | A function that both images define and the game does not copy: "game wins", says the comment at `guestlink.cpp` 131, and it does in libmvos's GOT. Where libmvos's text or data holds the address (R_386_32, PC32), `build_idx` gives libmvos's own (220), as a linker does that binds symbolically and the original one does not. Whether the shipped images have such a name is not said in the repository. |
| `MCSessionInstruments` | `InstrumentsApart` | With both instruments on, an [fps] line sets the counter of underruns to 0 (`traps.cpp` 3366) and the baseline of the [health] line stays (3284): 5 underruns, a line, a reset and 7 more are told as 2. The baseline was meant to keep the two "from stealing from each other" (3277-3280). Only the figures printed are wrong. |
| `MCCDPlayerClock` | `ClockIsHeard` | `mix()` counts its samples after it has let go of `mu_` (`cdaudio.cpp` 228). Close and open in between reset the clock, and it starts with samples of the old track. The clock reports a position and ends no track with a device, so that the harm is a wrong position. |
| `MCSpliceTail` | `ReturnsNormally` | A tail splice (`traps.cpp` 3955) repeats the return address below the trap's frame, so that the caller goes on with ESP two words too low. Compiled code that restores ESP from its frame does not mind. |
| `MCGuestFilesWinsock` | `ErrnoTells` | `read` and `write` look for the error of a socket where Winsock keeps it; `recv`, `send`, `accept`, `connect`, `listen` and their like look in `errno`. |
| `MCGuestFilesOverflow` | `OverflowRefused` | The list of map23 grows by five units where the others grow by four, and wraps at the 52nd save; the others do at the 64th. Between the two the host finds 43 lists that agree, trusts them, and rewrites the file with the wrapped list left as it is. The tool refuses the same file. |
| `MCSessionCounted` | `CountedOnce` | `main()` arms the counter of executed blocks for the profiler or the health line, and the watchdog arms it again; the second call is not the no-op that the comment at `traps.cpp` 544 expects, and each block is counted twice. Only the figures printed are wrong. |

Two more divergences were met and have no configuration. `setitimer` with a
value and no interval fires periodically, although `traps.cpp` 2350 says
one-shot; the guest never asks for that. The out-of-memory test of the allocator
adds in 32 bits, so that a request near 4 GB would wrap the frontier
(`traps.cpp` 1157); that is what the assumption `NoWrap` excludes.

### Bounds

* `heap`: 14 units of 8 bytes, alignment 2 and split threshold 4, as the code's
  16 and 32. That is room for up to seven blocks: three neighbours to merge, a
  fit that splits, a fit that does not, and exhaustion. `W` = 64 is above every
  sum; the sizes include 0 and one larger than half of the arena.
* `cdplayer`: a ring and a buffer of two samples, tracks of four packets, one
  sample held back by the decoder, two opens. Two opens are what it takes for
  samples, flags or a clock to leak from one track into the next; four packets
  fill the ring twice.
* `drive`: four numbers, one missing in the middle of a range, lengths of 0, 1
  and 2 ticks, two moods; with a device any track may end unheard. Clocks
  saturate at 3, one above the longest track.
* `heartbeat`: a request that is clamped (5 to 3), an interval of 1 that is
  shorter than a host sleep that runs over, up to three units late, which is
  more than a backlog the schedule skips at once (2), two call sites, and stacks
  of four calls. That admits a tick in a sleep in a slice in a sleep, and a tick
  in the sleep of a handler whose tick interrupted a sleep, from the same call
  site or the other.
* `splice`: seven words of stack, calls with no and one argument, two host
  calls: a splice in a splice in a splice, and a host call after an abort.
  Deadlock is allowed, since the guest stops when its stack or its host calls
  are used up.
* `soundfeed`: units of 15 ms. Device buffer, fragment, target and ceiling are
  in the proportion of the code's 46, 91, 120 and 400 ms, and the chain limit
  is the code's. `BridgesGap` excludes gaps within a buffer and the floor of
  the latency bound, those of 340 ms and more: the queue is cut off at the
  bound before it reaches over them. It first excluded only gaps from the bound
  on. That held in this run, where the fragment is two buffers; the proof found
  a fragment of another length for which it does not.
* `files`: three guest numbers to give out, which is enough for the host to
  give a descriptor out again; one save slot, two worlds of three lists, the
  last with the larger group, bytes that look like counters in gaps and groups,
  units of one byte; a counter that wraps at 11, above the three copies that a
  save of an earlier session (1 or 2) can reach. The constants of the code (17
  bytes, 4 and 5 units, 30 to 60 lists, 8 copies) are scaled down together.
  `MCGuestFiles` asserts `WorldsLegible` and `OldSavesFit`, the hypotheses of the
  theorems about saves.
* `input`: Alt, two Return keys that share one guest code and are counted
  together, and V, which opens the console; one button; rings of two slots, so
  that a ring fills and its indexes go round. The queue that stands beside a
  ring follows each of the three rings in turn.
* `screen`: Alt and Return, which skip a movie and together make the chord; a
  movie of seven frames of a tick each with seven ticks of sound, and frames
  late by up to four ticks, more than the three after which the code schedules
  anew; two modes; two spots, so that the pointer can move off what it covered.
  Opening the renderer or a texture may fail each time.
* `session`: a pair of images with a symbol of each kind (defined in one, in
  the other, in both, weak, local, a function, data to be copied, of libc, of
  nobody) and each type of relocation. The watchdog's limit is three polls, and
  a thread wakes up to one poll late; clocks saturate at 14, above the bound of
  `StallsAreReported`: three polls, five for the looks and samples before and
  after, and four times `Slack`. `MCSession` asserts `ImagesFit`
  and `SharedNames`, the hypotheses of the theorems about the linker and the
  boot, of this pair of images. Six environments of the process cover each
  instrument alone and the pairs that touch the same counter. The soak driver
  plays two cycles, waits five ticks for a load that takes three, and an
  overlay takes two.

### Fairness

* `cdplayer`: the decoder and the audio callback keep running; a call of open
  or close that was begun goes on; nothing makes the guest begin one. The
  decoder's wait has a timeout, which is why it is weakly fair although a
  notification can be lost.
* `drive`: the guest goes on sleeping (`AskIdle`), time passes, `advance()` and a
  call that was begun go on, a track ends (which `cdplayer` shows), and the random choice
  of the guest does not avoid the rip for ever. The last is strong fairness and
  is an assumption about the guest's generator, not about the port.
* `heartbeat`: the host runs the handler, and a tick or a slice returns in the
  end. The latter is strong, for each depth, since guest code may sleep again
  and again.
* `soundfeed`: a slice returns (it is patched to write one fragment and leave)
  and time passes. Nothing makes the guest ask.
* `screen`: the guest goes on with a movie that it has begun, which its own
  loop over the frames does, and time passes. That the loop leaves when it finds
  a key is in the model, not in the fairness.
* `session`: `main()` and the watchdog's thread go on and time passes. Nothing
  makes the guest come back, and `Exits` begins where it has.
* `heap`, `splice`, `files` and `input` state none.

Safety properties are checked without use of fairness.

## 4. What is proved

Eight modules of proofs, for every value of the constants that their `ASSUME`s
admit. Each follows one or a few inductive invariants, since hardly any of the
properties that the runs check is inductive; an invariant was checked by TLC on
the instance of the run, is kept by one lemma per action, and the properties
follow from it.

| Theorem | Proves | Takes for granted |
|---|---|---|
| `BlocksNeverOverlap`, `NoByteLost`, `FreeListSound`, `FreshOnlyWhenFull` | `NoOverlap`, `NothingLost`, `FreeListOK`, `ReuseBeforeFresh` | `NoWrap` |
| `ImplementsContract` | `KeepsContract` | `NoWrap`, `NoStaleRealloc` |
| `RingHoldsTheNext`, `FinishedMeansHeard`, `PlayerIsDac` | `RingIsNext`, `FinishedIsHeard`, `PlaysAsDac` | |
| `TransportIsRight`, `NoTrackIsCut`, `RangesArePlayedOut` | `DriveAgrees`, `NotCutShort`, `RangePlayedOut` | |
| `SleepIsOwed`, `OneSliceRuns`, `BacklogCollapses` | `RemainingIsOwed`, `SlicingMatches`, `NoStorm` | |
| `FramesStayIntact`, `ImportsReturn` | `FramesIntact`, `BackToCaller` | |
| `ServingsFillTheQueue`, `QueueBridgesGap` | `ServingFills`, `BridgesGap` | |
| `HostIsOwned` | `HostOwned` | |
| `SavesKeepTheirWorld` | `SavesSound` | `WorldsLegible`, `OldSavesFit` |
| `ToolKeepsTheSame` | `ToolRepairs` | `WorldsLegible` |
| `NoKeySticks`, `RingsRefineQueues` | `NothingSticks`, `RingsAreQueues` | |
| `PaintsRight`, `NothingLeftBehind`, `PointerIsOne`, `PictureAndSound` | `PaintsWhatIsPresented`, `MovieLeavesNothing`, `OnePointer`, `LipSync` | |
| `ReportsHold`, `NoStallUnseen`, `HealthLinesTell`, `EveryClickLands` | `ReportsAreTrue`, `StallsAreReported`, `HealthTells`, `ClicksOnTarget` | |
| `LinkerIsLoader` | `LinkedAsLoader` | `ImagesFit` |
| `BootWorks` | `StartFindsWorld` | `ImagesFit`, `SharedNames` |

**GuestHeapProofs**, for every arena, alignment, split threshold, set of
requests and set of stale pointers:

* `TypeCorrect`, `BlocksNeverOverlap`, `NoByteLost`, `FreeListSound`: the
  invariants of `heap`, from `NoWrap`: no request is so large that rounding it
  or adding it to the frontier passes the end of the address space.
* `ImplementsContract`: every step of the allocator is a step of HeapContract
  or a stutter, from `NoWrap` and `NoStaleRealloc`: realloc is handed no arena
  address that is not a live block. Without the latter it fails: the block is
  taken before the old pointer is freed, and best fit may just have given that
  very block.

That blocks stay apart when a free block is handed out needs the two indexes to
agree; that merging finds the neighbours needs the blocks to be apart and all
of the arena below the frontier to be covered; that a split leaves aligned
blocks needs alignment. `HeapInv` is their conjunction with the shape of the
record. It is stated with inequalities between end points, which is what the
provers decide, and the invariants with their intervals of bytes follow from it
(`InvParts`). The argument goes through one lemma, `MergeBlocks`: a block that
is exactly tiled by a released block and free neighbours may replace them.
`guest_free` merges to the right and then to the left; each case is such a
tiling (`CoalesceCases`). `bump_alloc` is either a fit, with or without a split,
or the frontier moving.

`FreshOnlyWhenFull` says more than that the search fails before the frontier
moves: the code searches free blocks, and the property speaks of any run of
words nobody holds. That the two are the same is `RunIsOneBlock`: since
neighbours are merged and nothing is lost, a run of unclaimed words below the
frontier lies in one free block.

**MusicProofs** has two parts. The player, for every ring, buffer, length of
track and delay of the decoder: `PlayerIsDac` is the refinement of DriveDAC.
`PlayerInv` says what each of the three threads may rely on wherever the other
two are: the ring and what the decoder holds apart from it are one run of
samples (`Ring`, `Counts`), the decoder decodes only into room that it saw and
that nobody but itself takes (`Room`), between two tracks there is no thread and
nothing of a track (`Between`), and the decoder reaches its end flushed, unless
it was asked to leave (`Ending`).

The drive, for every disc, set of lengths and set of moods: `DriveInv` ties the
transport to the player and the device, says that the wall clock is what the
track has run unless the player has it, and that an auto-advance is under way
only while the drive is idle, and what is on the account of the range: the
tracks after the current one, and that one until its end is reached. That the
account is empty when the range is completed is drawn from it and from the turns
of the loop, each of which goes to the least track that the rip has. The three theorems are about steps as much as
about states: a call of the guest's begins with the transport brought up to
date, and that is where a track may be left.

**HeartbeatProofs**, for sleeps and intervals of any length, clocks late by any
amount and nests of any depth. The heart is `Nest`, the grammar of the guest's
stack: a tick or a slice runs on a sleep or on nothing, a sleep on one of them
or on nothing, no two slices of sound run, and a tick with calls above it has
slept, as its mark and that of the sleep below tell. From it, the one sleep that
the record can be about and that no handler's sleep has touched is right below
the top, which is why a record with one place is enough for those; `Record` and
`Owing` say what the record and the deadline next to it are worth. Sleeps that a
handler's sleep has touched are excepted, since for them the record does fail
(`MCHeartbeatHandler`). `Schedule` says what one
and two ticks without time passing leave of a backlog.

**SpliceProofs**, for a stack of any size, functions of any number of
arguments, and any nest of host calls, imports and splices. `SpliceInv` ties
four things that the code keeps apart. `Chain`: an activation lies on one that
can have made it, below its frame. `AllIntact`: the frame of each activation
under way is in guest memory as it was pushed. `Control`: EIP and ESP are where
the top of the chain can have left them. `Stacked`: `resume_`, past the frames
of calls that were aborted, holds the continuation of each import that waits,
in their order. A frame below all others cannot disturb them (`Chain` keeps them
apart), the resume trap finds the continuation of the import on top because of
`Stacked`, and an abort leaves entries that are below every later one.

**SoundFeedProofs**, for buffers, fragments, targets and gaps of any lengths in
the proportions that `FeedConstants` and `BridgeConstants` name; with the
default of `THEOC_AUDIO_MS` the code's times have them. `FeedInv` says of a
serving under way what its slices have put into the queue and what the device
can have played of it, from which the chain limit suffices to reach the target.
`BridgeInv` adds that from an ask on, the queue and what was played reach over
the gap (`Reaches`), and that enough is left for the next ask to come early and
measure a shorter one without looking at the queue (`Spare`).

**GuestFilesProofs**, for any number of descriptors, and any files and worlds.
`FilesInv` is that numbers are given in order and each of the host's has one
entry. That the host finds a number to give is a pigeonhole argument: fewer
entries are open than numbers exist. `SavesInv` is about saves: one at rest was
collapsed as it was closed or is from an earlier session, one in flight was
written since it was opened, and in memory are as many copies of a group as a
save at rest can hold: the game does not load what it is writing.

What the two theorems about saves need of single files is proved from the bytes,
by lemmas in the middle of the module. `Layout` says where in a save each
province, counter and copy lies. From it, a counter claims its own list and
nothing else claims any (`CounterClaims`, `CounterRead`, `NothingRead`); the
scan stands at the end of each province with the lists up to there
(`ScanOfList`), so that it finds all of them or, in a save with one group in
each, none (`ListsFound`, `NoListsFound`); dropping the repeated groups leaves
the save with one group in each list (`OneGroupKept`); the guards of the host
let it through (`NoCrowd`, `NoOverflow`, `ListsPlausible`); and the number of
copies can be told from the bytes (`CopiesTold`).
`SavesReadable` is what `SavesInv` takes from these.

Two conditions are left, on the game's states alone. `WorldsLegible`: provinces
are well formed, their number is one that the host believes, a group is not flat
fill, no byte outside the lists happens to claim a list or to be followed by
many equal groups, and no counter claims groups smaller than its own. Bytes
that look like lists can break it, which is what the minimum of 30 lists in the
code makes unlikely, not impossible. `OldSavesFit`: a save of an earlier session
has room for one more group; without it a counter can have wrapped, which is the
configuration `MCGuestFilesOverflow`. `ToolRepairs` needs only the first, since it
speaks of saves whose counters have not wrapped. `MCGuestFiles` asserts both of
the worlds of the run.

**ScreenProofs** has the proofs about Input and Screen. For every keyboard and
every ring, `NoKeySticks`; and `RingsRefineQueues`, the refinement of EventQueue:
`RingInv` says where the indexes of a ring can be, the map reads the queue off
them, and each batch of events that a handler puts is the same batch on the
queue, wherever the ring wraps and whether it fills half-way through. For every
set of modes, keys and spots and movies of any length: `PaintsRight`,
`NothingLeftBehind` and `PointerIsOne`, where `PointerInv` says, for each place
of the guest in its frame and in the ticks within it, what is in the buffer and
which of the two slots holds what is under the pointer; and `PictureAndSound`,
where `SyncInv` relates the frame that is shown, the time it was due, what was
sent to the queue and what has been heard.

**SessionProofs**, for any settings, lengths of stalls, delays of the threads and
times of the soak driver. `WatchInv` bounds, for each place of the watchdog's
thread, how long the guest can have stood still by what the thread knows; the
bound of `StallsAreReported` and the honesty of a report are both read off it.
`HealthInv` adds what the counters have grown by since the last line, `SoakInv`
the screen the game can be on at each step of the script, with the loads and
overlays still to come. `BootInv` follows `main()`: which of libmvos's variables
hold what by each of its calls, seen through the words that both images share.
That the words are shared is the linker's doing: `BootRestsOnLinker` draws the
boot from `[]LinkedAsLoader`, and `BootWorks` joins it to the theorem about the
linker. `SharedNames` says of the two images that they define the names in
question, apart from each other, as the shipped ones do.

`LinkerIsLoader` is about any pair of images that fit. The reference knows
nothing of the passes: `AsLinked` says what they leave, with the code's own rule
for addresses (`AbsoluteHome`), and `LinkedIsLoaded` draws from it that this is
what the search of the original linker finds, but for the two kinds of names
that `AsLoader` leaves out. `LinkInv` says what each
pass has left in memory: the words of the files, then libmvos relocated, then
the copies (of words that are final by then, which is why copying comes second),
then the slots that follow the copied data, then the game relocated.
That a pass over relocations writes each word once, and no word of another's, is
proved of the fold that the pass is. `ImagesFit` is what the link editor that
made the two images sees to: they do not overlap (`ImagesApart`), no two
relocations are for one word, and the words are in the file (`RelocationsApart`);
what is bound by name has a name that others see, and is not at address 0
(`NamesBindable`); a copied datum has the same size in both images, not 0, and a
place of its own in the game, with no slot inside it (`CopiesFit`).

Every safety invariant and every action property of the passing runs is stated
by a theorem. What a pass over all relocations, provinces or bytes computes is
proved by induction over a set of numbers (`Induction`: a set that is not all of
an interval misses a least number), since the library's induction theorem takes
an operator and cannot be instantiated; `Recursion` and `OneFunction` give, in
the same way, that a function defined by recursion exists and is the only one.

Only model-checked remain:

* Liveness: `CloseReturns`, `TrackEnds`, `MusicGoesOn`, `SleepReturns`,
  `ServingEnds`, `MovieEnds` and `Exits`. ENABLED is out of reach, too.
* The violated properties, which need only their counterexamples.

The assumptions on constants are properties of the code (a ring has room for an
event, there is a stack, there are numbers to give) or of the configuration it
runs in by default (`BridgeConstants`); each is named where the constants are
declared, and TLC evaluates them on every run.

## 5. What is not modelled

* Bytes: the contents of guest memory, files, sockets, samples and pixels,
  except where a property is about them (saves, shared words of the two images).
* Volume, the table of contents, disc addresses and the scan of a rip.
* Paths, directories, seeking, `fcntl`, `pipe`, name resolution and
  `getsockname`, which fails without an errno (`traps.cpp` 2008).
* A crash between the truncation and the rewriting of a save (`traps.cpp`
  5923), which loses it: the rewrite is in place and without a copy.
* Faults, watches, the profiler and the statistics of the host.
* `dlopen` and the driver tables, conversion of pixels, the headless image.
* Reading of a configuration file, the log; the rate limiter and the self-tests.
* The table of key codes, the wheel, the contents of event records; two movies
  at once; the headers of segments and sections.
* The console beyond its chord (in Input) and its splice (in Splice), edit mode;
  world dump, generation and province rate (watches that print); `mvos.cpp`,
  which the build does not link; the other offline tools, the generated interface.

Observations made on the way, about code without a property:

* When the focus is lost, the buttons are cleared in `mouse_buttons_` without an
  event in Intuition's ring, so that a reader of events alone sees no release.
* `pipe` answers 40 and 41 without entering them; after 37 opens these numbers
  are given out again.
* `main.cpp` 409-420 arms the counter of blocks in an `else if`: with the call
  log on, the frame rate's figures have no counter.
* A weak name that no image defines gets a trap like any other
  (`guestlink.cpp` 186), so that "weak ones" never land at the zero of the
  integrity check (330): a guest that tests the address for null, as start-up
  code does, finds the function there and calls the trap.
* A renderer that cannot make its texture leaves a black window that presents.
* On Windows an accepted socket inherits the non-blocking mode of its listener,
  while its entry says blocking.

## 6. Plan

Done in this order: heap and its proofs, player and drive, splices, heartbeat,
sound, files and saves; then input, cutscenes with the window and the pointer,
the linker, the harness and the session; proofs of every safety property
of the passing runs. Still worth doing, most important first:

1. **Save rewrite in steps**, with a crash, a full disk and a failed write; the
   two directions of `fopen` on a save that is open.
2. **Composition of Heartbeat and SoundFeed**, which share `redirecting_sound_`
   and the sleeps in a slice, over Splice as the abstract specification of how
   control comes back; the sound of movies in the same queue.
3. **Directories, fcntl and pipe** in GuestFiles, and `select` as a handler.
4. **Rate limiter**: token buckets against a clock.
5. **Proofs** about the composition of item 2, from the invariants of its parts;
   and CDPlayer in the place of DriveDAC under VirtualCD, as one instance.

Where a module joins another in one run, the run keeps both sets of properties,
so that the number of runs stays small.
