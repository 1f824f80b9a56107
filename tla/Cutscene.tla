------------------------------ MODULE Cutscene ------------------------------
(***************************************************************************)
(* Cutscenes (the SMPEG traps of traps.cpp, and MpegStore, mpeg.cpp).  The *)
(* guest opens a movie, asks for its frames one after the other and        *)
(* deletes it; the host decodes it all at the start, holds each frame back *)
(* until it is due, pushes the sound that goes with it into the mixer's    *)
(* queue, presents it and asks SDL what the player does.                   *)
(*                                                                         *)
(* Time is counted in ticks, FrameTicks to a frame, and passes whatever    *)
(* the guest is doing: it is late by as much as it likes.  The audio       *)
(* callback takes a tick of sound in every tick.                           *)
(*                                                                         *)
(* Outside movies the guest's menu runs: it presents frames, and its       *)
(* PushKeyInput reads the mailbox through which keys skip a movie.         *)
(***************************************************************************)
EXTENDS Input, Video, Integers

CONSTANTS
  MovieMode,   \* the mode that movies are played in
  FrameTicks,  \* ticks of one frame
  Frames,      \* frames of the movie
  AudioTicks,  \* ticks of its sound
  Lateness     \* bound: a frame that is later than this is no later

ASSUME CutsceneConstants ==
  /\ {FrameTicks, Frames} \subseteq Nat \ {0}
  /\ AudioTicks \in Nat
  /\ MovieMode \in Modes
  /\ Lateness \in Nat /\ Lateness > 3 * FrameTicks

Lead == 2      \* frames that the sound is ahead

VARIABLES
  scene,  \* what the guest is at: "menu", or between two calls of SMPEG
  movie,  \* the entry of the store: "none", "still", "playing"
  frame,  \* frame_i: frames shown
  due,    \* ticks until next_frame_at
  sent,   \* audio_pos: ticks of sound pushed
  queued, \* ticks of the movie's sound in the mixer's queue
  late,   \* has a frame of this movie been later than the sound's lead
  dry,    \* has the callback run dry since this movie began
  gd      \* the mode of the graphics device that the guest paints with

movieVars == <<scene, movie, frame, due, sent, queued, late, dry, gd>>
sceneVars == <<movieVars, inputVars, videoVars>>

Smaller(a, b) == IF a < b THEN a ELSE b
Larger(a, b)  == IF a < b THEN b ELSE a

Heard == sent - queued

-----------------------------------------------------------------------------
(* The guest's PlayMovie.                                                  *)

(* Mutant: the device is made whether or not the window was had.           *)
OpenDisplay_Always(m) ==
  /\ Open(m)
  /\ gd' = m

(* OpenDisplay: a device of the new size, unless the window was not had.   *)
OpenDisplay(m) ==
  /\ Open(m)
  /\ gd' = IF win' /\ mode' = m THEN m ELSE gd

(* The mode of movies is set before one is opened; the guest tries again   *)
(* when it is not had.                                                     *)
EnterMovie ==
  /\ scene = "menu"
  /\ OpenDisplay(MovieMode)
  /\ scene' = IF gd' = MovieMode THEN "set" ELSE scene
  /\ UNCHANGED <<movie, frame, due, sent, queued, late, dry, inputVars>>

(* MpegStore::load: all the frames of the movie, or, whatever fails, no    *)
(* entry; a movie without frames has none either.                          *)
Decoded == {"none", "still"}

(* SMPEG_new: no such file, or a movie that cannot be decoded, whose       *)
(* handle is good but has no entry.  Decoding takes longer than the sound  *)
(* that is left in the queue.                                              *)
SmpegNew ==
  /\ scene = "set"
  /\ \/ /\ scene' = "menu"
        /\ UNCHANGED <<movie, queued>>
     \/ /\ scene' = "opened"
        /\ movie' \in Decoded
        /\ queued' = 0
  /\ frame' = 0 /\ sent' = 0 /\ due' = 0 /\ late' = FALSE /\ dry' = FALSE
  /\ UNCHANGED <<gd, inputVars, videoVars>>

StartPlay ==
  /\ scene = "opened"
  /\ scene' = "ask"
  /\ movie' = IF movie = "none" THEN movie ELSE "playing"
  /\ UNCHANGED <<frame, due, sent, queued, late, dry, gd, inputVars, videoVars>>

-----------------------------------------------------------------------------
(* SMPEG_playvideoframe.                                                   *)

(* Mutant: the schedule is kept however late the frame is.                 *)
NextDue_Kept == IF frame = 0 THEN FrameTicks ELSE due + FrameTicks

(* When the frame after this one is due.  A frame that is too late starts  *)
(* the schedule anew.                                                      *)
NextDue ==
  LET next == due + FrameTicks
  IN  IF frame = 0 \/ next + 2 * FrameTicks < 0 THEN FrameTicks ELSE next

(* Mutant: no lead.                                                        *)
SoundFor_NoLead(n) == Smaller(n * FrameTicks, AudioTicks)

(* How much of the sound is pushed with the n-th frame.                    *)
SoundFor(n) == Smaller((n + Lead) * FrameTicks, AudioTicks)

Overdue == frame > 0 /\ -due > Lead * FrameTicks

(* The hold ends when the frame is due; the first is due at once.  The     *)
(* present pumps SDL afterwards (see Pumps).                               *)
ShowFrame ==
  /\ scene = "ask" /\ movie = "playing" /\ frame < Frames
  /\ frame = 0 \/ due <= 0
  /\ frame' = frame + 1
  /\ due' = NextDue
  /\ late' = (late \/ Overdue)
  /\ sent' = Larger(sent, SoundFor(frame'))
  /\ queued' = queued + sent' - sent
  /\ IF win THEN SetCrisp(FALSE) ELSE UNCHANGED videoVars
  /\ movie' = IF frame' = Frames THEN "still" ELSE movie
  /\ scene' = "shown"
  /\ UNCHANGED <<dry, gd, inputVars>>

(* Nothing is shown of a movie that does not play.                         *)
NoFrame ==
  /\ scene = "ask" /\ ~(movie = "playing" /\ frame < Frames)
  /\ scene' = "shown"
  /\ UNCHANGED <<movie, frame, due, sent, queued, late, dry, gd, inputVars, videoVars>>

(* Mutant of SMPEG_status: a movie plays as long as it has an entry.       *)
Running_Entry == movie # "none"

Running == movie = "playing" /\ frame < Frames

(* SMPEG_status, which also tells the keyboard whether a movie plays.      *)
Status ==
  /\ scene = "shown"
  /\ playing' = Running
  /\ scene' = IF playing' THEN "poll" ELSE "stopped"
  /\ UNCHANGED <<movie, frame, due, sent, queued, late, dry, gd, keyVars,
                 buttons, ringVars, mailbox, videoVars>>

(* The guest looks into the mailbox, which empties it, and leaves if there *)
(* was a key.                                                              *)
PollKey ==
  /\ scene = "poll"
  /\ scene' = IF mailbox THEN "stopped" ELSE "ask"
  /\ mailbox' = FALSE
  /\ UNCHANGED <<movie, frame, due, sent, queued, late, dry, gd, keyVars,
                 buttons, ringVars, playing, videoVars>>

(* Mutants of SMPEG_delete: the mailbox is not emptied; the filter of the  *)
(* movies stays.                                                           *)
SmpegDelete_KeepKey ==
  /\ scene = "stopped"
  /\ scene' = "menu"
  /\ movie' = "none"
  /\ playing' = FALSE
  /\ SetCrisp(TRUE)
  /\ UNCHANGED <<frame, due, sent, queued, late, dry, gd, keyVars, buttons,
                 ringVars, mailbox>>

SmpegDelete_KeepSmooth ==
  /\ scene = "stopped"
  /\ scene' = "menu"
  /\ movie' = "none"
  /\ playing' = FALSE
  /\ mailbox' = FALSE
  /\ UNCHANGED <<frame, due, sent, queued, late, dry, gd, keyVars, buttons,
                 ringVars, videoVars>>

SmpegDelete ==
  /\ scene = "stopped"
  /\ scene' = "menu"
  /\ movie' = "none"
  /\ playing' = FALSE
  /\ mailbox' = FALSE
  /\ SetCrisp(TRUE)
  /\ UNCHANGED <<frame, due, sent, queued, late, dry, gd, keyVars, buttons,
                 ringVars>>
=============================================================================
