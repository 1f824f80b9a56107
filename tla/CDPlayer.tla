------------------------------ MODULE CDPlayer ------------------------------
(***************************************************************************)
(* CDPlayer (port/src/cdaudio.cpp): one track streamed into the mixer by   *)
(* three threads.  The emulation thread opens, closes and pauses; the      *)
(* decoder thread fills the ring; the SDL audio callback drains it.        *)
(*                                                                         *)
(* A step is a region under mu_, or one access of an atomic outside it.    *)
(* Stores that no other thread can tell apart are one step.  A sample is   *)
(* the pair of the open it was decoded for and its place in the track, so  *)
(* that a stale, lost, repeated or reordered sample is visible.            *)
(***************************************************************************)
EXTENDS Integers, Sequences, SequencesExt

CONSTANTS
  RingTarget,  \* decode no further ahead than this many samples (1 s)
  NSamp,       \* samples the audio callback asks for at a time
  Packets,     \* packets in a track, one sample each (bound)
  Delay,       \* samples libav may hold back until it is flushed
  MaxOpens     \* tracks opened in one behaviour (bound)

ASSUME PlayerConstants ==
  /\ RingTarget \in Nat \ {0}
  /\ NSamp \in Nat \ {0}
  /\ Packets \in Nat
  /\ Delay \in Nat
  /\ MaxOpens \in Nat

VARIABLES
  emu,       \* emulation thread: in close(), and whether open() called it
  dec,       \* decoder thread: place, draining, packets read, samples emitted
  cb,        \* audio callback: place, samples mixed and not yet counted
  ring,      \* ring_
  quit, eof, active, paused,   \* the atomics of the same names
  consumed,  \* consumed_
  opens,     \* how many times open() has started a thread
  heard      \* samples of the current track handed to the device

vars == <<emu, dec, cb, ring, quit, eof, active, paused, consumed, opens, heard>>

NoThread == [pc |-> "none", draining |-> FALSE, fed |-> 0, pos |-> 0,
             batch |-> 0, notified |-> FALSE]

Init ==
  /\ emu = [pc |-> "idle", open |-> FALSE]
  /\ dec = NoThread
  /\ cb = [pc |-> "idle", mixed |-> 0]
  /\ ring = <<>>
  /\ quit = FALSE /\ eof = FALSE /\ active = FALSE /\ paused = FALSE
  /\ consumed = 0
  /\ opens = 0
  /\ heard = 0

(* cv_.notify: only a thread that is already waiting hears it.             *)
Notified(d) == [d EXCEPT !.notified = @ \/ d.pc = "wait"]

-----------------------------------------------------------------------------
(* Emulation thread.                                                       *)

(* close() up to the join; open() begins with it.                          *)
CloseStart(open) ==
  /\ emu.pc = "idle"
  /\ open => opens < MaxOpens
  /\ quit' = TRUE
  /\ dec' = Notified(dec)
  /\ emu' = [pc |-> "join", open |-> open]
  /\ UNCHANGED <<cb, ring, eof, active, paused, consumed, opens, heard>>

(* Mutant: the ring keeps what was not heard.                              *)
CloseFinish_KeepRing ==
  /\ emu.pc = "join"
  /\ dec.pc \in {"none", "exit"}
  /\ dec' = NoThread
  /\ active' = FALSE
  /\ eof' = FALSE
  /\ consumed' = 0
  /\ heard' = 0
  /\ emu' = [emu EXCEPT !.pc = IF emu.open THEN "start" ELSE "idle"]
  /\ UNCHANGED <<cb, ring, quit, paused, opens>>

(* The join returns and the state is cleared under the lock.               *)
CloseFinish ==
  /\ emu.pc = "join"
  /\ dec.pc \in {"none", "exit"}
  /\ dec' = NoThread
  /\ ring' = <<>>
  /\ active' = FALSE
  /\ eof' = FALSE
  /\ consumed' = 0
  /\ heard' = 0
  /\ emu' = [emu EXCEPT !.pc = IF emu.open THEN "start" ELSE "idle"]
  /\ UNCHANGED <<cb, quit, paused, opens>>

(* Mutant: a pause outlives the track it was meant for.                    *)
OpenStart_StaysPaused ==
  /\ emu.pc = "start"
  /\ quit' = FALSE
  /\ eof' = FALSE
  /\ consumed' = 0
  /\ active' = TRUE
  /\ dec' = [NoThread EXCEPT !.pc = "open"]
  /\ opens' = opens + 1
  /\ emu' = [pc |-> "idle", open |-> FALSE]
  /\ UNCHANGED <<cb, ring, paused, heard>>

(* The rest of open().                                                     *)
OpenStart ==
  /\ emu.pc = "start"
  /\ quit' = FALSE
  /\ eof' = FALSE
  /\ paused' = FALSE
  /\ consumed' = 0
  /\ active' = TRUE
  /\ dec' = [NoThread EXCEPT !.pc = "open"]
  /\ opens' = opens + 1
  /\ emu' = [pc |-> "idle", open |-> FALSE]
  /\ UNCHANGED <<cb, ring, heard>>

SetPaused(p) ==
  /\ emu.pc = "idle"
  /\ paused' = p
  /\ UNCHANGED <<emu, dec, cb, ring, quit, eof, active, consumed, opens, heard>>

-----------------------------------------------------------------------------
(* Decoder thread (decode_loop).                                           *)
DecOnly == UNCHANGED <<emu, cb, quit, active, paused, consumed, opens, heard>>

(* The file is opened, or cannot be.                                       *)
DecOpen ==
  /\ dec.pc = "open"
  /\ \/ /\ dec' = [dec EXCEPT !.pc = "head"]
        /\ UNCHANGED eof
     \/ /\ dec' = [dec EXCEPT !.pc = "exit"]
        /\ eof' = TRUE
  /\ UNCHANGED ring
  /\ DecOnly

(* Mutant: quit_ is not tested.                                            *)
DecHead_Forever ==
  /\ dec.pc = "head"
  /\ dec' = [dec EXCEPT !.pc = "gate"]
  /\ UNCHANGED <<ring, eof>>
  /\ DecOnly

(* while (!quit_).                                                         *)
DecHead ==
  /\ dec.pc = "head"
  /\ dec' = [dec EXCEPT !.pc = IF quit THEN "end" ELSE "gate"]
  /\ UNCHANGED <<ring, eof>>
  /\ DecOnly

(* Mutant: no backpressure.                                                *)
DecGate_NoLimit ==
  /\ dec.pc = "gate"
  /\ dec' = [dec EXCEPT !.pc = IF dec.draining THEN "end" ELSE "read"]
  /\ UNCHANGED <<ring, eof>>
  /\ DecOnly

(* Backpressure, tested under the lock that the wait gives up.             *)
DecGate ==
  /\ dec.pc = "gate"
  /\ dec' = [dec EXCEPT !.pc = IF Len(ring) >= RingTarget THEN "wait"
                               ELSE IF dec.draining THEN "end"
                               ELSE "read",
                        !.notified = FALSE]
  /\ UNCHANGED <<ring, eof>>
  /\ DecOnly

(* wait_for ends: notified, or 50 ms have passed.                          *)
DecWake ==
  /\ dec.pc = "wait"
  /\ dec' = [dec EXCEPT !.pc = "head", !.notified = FALSE]
  /\ UNCHANGED <<ring, eof>>
  /\ DecOnly

(* One packet: some of the samples read so far come out of the decoder.    *)
DecPacket ==
  /\ dec.pc = "read"
  /\ dec.fed < Packets
  /\ \E k \in 0 .. dec.fed + 1 - dec.pos :
       /\ dec.fed + 1 - dec.pos - k <= Delay
       /\ dec' = [dec EXCEPT !.pc = "emit", !.fed = @ + 1, !.batch = k]
  /\ UNCHANGED <<ring, eof>>
  /\ DecOnly

(* Mutant: what the decoder still holds is not flushed.                    *)
DecEnd_NoFlush ==
  /\ dec.pc = "read"
  /\ dec' = [dec EXCEPT !.pc = "emit", !.draining = TRUE, !.batch = 0]
  /\ UNCHANGED <<ring, eof>>
  /\ DecOnly

(* av_read_frame fails, at the end of the file or before it: the decoder   *)
(* and the resampler are flushed.                                          *)
DecEnd ==
  /\ dec.pc = "read"
  /\ dec' = [dec EXCEPT !.pc = "emit", !.draining = TRUE,
                        !.batch = dec.fed - dec.pos]
  /\ UNCHANGED <<ring, eof>>
  /\ DecOnly

(* emit: the samples are appended to the ring under the lock.              *)
DecEmit ==
  /\ dec.pc = "emit"
  /\ ring' = ring \o [j \in 1 .. dec.batch |-> <<opens, dec.pos + j>>]
  /\ dec' = [dec EXCEPT !.pc = "head", !.pos = @ + dec.batch, !.batch = 0]
  /\ UNCHANGED eof
  /\ DecOnly

DecExit ==
  /\ dec.pc = "end"
  /\ eof' = TRUE
  /\ dec' = [dec EXCEPT !.pc = "exit"]
  /\ UNCHANGED ring
  /\ DecOnly

-----------------------------------------------------------------------------
(* Audio callback (mix).                                                   *)
CbOnly == UNCHANGED <<emu, quit, eof, active, paused, opens>>

Mixable == IF Len(ring) < NSamp THEN Len(ring) ELSE NSamp

(* Samples of the current track among the next n of the ring.              *)
Current(n) == Cardinality({i \in 1 .. n : ring[i][1] = opens})

(* The tests before the lock.                                              *)
CbEnter ==
  /\ cb.pc = "idle"
  /\ active /\ ~paused
  /\ cb' = [cb EXCEPT !.pc = "mix"]
  /\ UNCHANGED <<dec, ring, consumed, heard>>
  /\ CbOnly

(* Mutant: muted, nothing is taken from the ring.                          *)
CbMixMuted_Skip ==
  /\ cb.pc = "mix"
  /\ cb' = [cb EXCEPT !.pc = "idle"]
  /\ UNCHANGED <<dec, ring, consumed, heard>>
  /\ CbOnly

(* Volume 0: time passes without sound, all of it under the lock.          *)
CbMixMuted ==
  /\ cb.pc = "mix"
  /\ ring' = SubSeq(ring, Mixable + 1, Len(ring))
  /\ heard' = heard + Current(Mixable)
  /\ consumed' = consumed + Mixable
  /\ dec' = Notified(dec)
  /\ cb' = [cb EXCEPT !.pc = "idle"]
  /\ CbOnly

(* Audible: the samples are mixed under the lock and counted after it.     *)
CbMix ==
  /\ cb.pc = "mix"
  /\ ring' = SubSeq(ring, Mixable + 1, Len(ring))
  /\ heard' = heard + Current(Mixable)
  /\ cb' = [pc |-> "count", mixed |-> Mixable]
  /\ UNCHANGED <<dec, consumed>>
  /\ CbOnly

CbCount ==
  /\ cb.pc = "count"
  /\ consumed' = consumed + cb.mixed
  /\ dec' = Notified(dec)
  /\ cb' = [pc |-> "idle", mixed |-> 0]
  /\ UNCHANGED <<ring, heard>>
  /\ CbOnly

-----------------------------------------------------------------------------
Emulation ==
  \/ \E o \in BOOLEAN : CloseStart(o)
  \/ CloseFinish
  \/ OpenStart
  \/ \E p \in BOOLEAN : SetPaused(p)

Decoder ==
  \/ DecOpen \/ DecHead \/ DecGate \/ DecWake
  \/ DecPacket \/ DecEnd \/ DecEmit \/ DecExit

Callback == CbEnter \/ CbMixMuted \/ CbMix \/ CbCount

Next == Emulation \/ Decoder \/ Callback

Spec == Init /\ [][Next]_vars

(* Threads that can run do; a call of open() or close() that has begun     *)
(* goes on, but nothing makes the guest begin one.                         *)
Fairness ==
  /\ WF_vars(CloseFinish) /\ WF_vars(OpenStart)
  /\ WF_vars(Decoder)
  /\ WF_vars(Callback)

FairSpec == Spec /\ Fairness

-----------------------------------------------------------------------------
(* finished(): the transport's end-of-track test.                          *)
Finished == active /\ eof /\ ring = <<>>

(* The threads' and the clock's fields hold what their declarations say,   *)
(* and the decoder runs about a second ahead of the device: one batch past *)
(* the target at most.                                                     *)
TypeOK ==
  /\ Len(ring) <= RingTarget + Delay
  /\ emu \in [pc : {"idle", "join", "start"}, open : BOOLEAN]
  /\ dec.pc \in {"none", "open", "head", "gate", "wait", "read", "emit",
                 "end", "exit"}
  /\ dec.pos \in 0 .. dec.fed /\ dec.fed \in 0 .. Packets
  /\ cb.pc \in {"idle", "mix", "count"} /\ cb.mixed \in 0 .. NSamp
  /\ consumed \in Nat /\ heard \in Nat /\ opens \in 0 .. MaxOpens
  /\ {quit, eof, active, paused} \subseteq BOOLEAN

(* The ring holds the samples between what was heard and what was decoded, *)
(* in order and all of the track now open: none is lost, repeated,         *)
(* reordered or left over from the track before.                           *)
RingIsNext ==
  /\ TypeOK
  /\ ring = [j \in 1 .. dec.pos - heard |-> <<opens, heard + j>>]

(* "EOF reached AND the ring is drained - the track has finished being     *)
(* heard": the transport moves on only after every sample read, the tail   *)
(* held back by the decoder included.                                      *)
FinishedIsHeard == emu.pc = "idle" /\ Finished => heard = dec.fed

(* "Seconds of audio actually handed to the device": of this track.        *)
ClockIsHeard == active => consumed <= heard

(* close() returns although its notification may come just before the      *)
(* decoder begins to wait.                                                 *)
CloseReturns == emu.pc = "join" ~> emu.pc # "join"

(* A track that is neither paused nor closed is over in the end, audible   *)
(* or muted.                                                               *)
TrackEnds ==
  (active /\ emu.pc = "idle") ~> (Finished \/ paused \/ emu.pc # "idle")

(* The transport's view of the player.                                     *)
AsDac ==
  [on |-> active, heard |-> heard, over |-> Finished,
   paused |-> paused, late |-> paused /\ cb.pc = "mix"]

Dac == INSTANCE DriveDAC WITH dac <- AsDac, Burst <- NSamp

(* The player does what the virtual drive relies on, whatever the threads  *)
(* do to one another.                                                      *)
PlaysAsDac == Dac!DacSpec
=============================================================================
