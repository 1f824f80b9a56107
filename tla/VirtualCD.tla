----------------------------- MODULE VirtualCD -----------------------------
(***************************************************************************)
(* The virtual drive's transport (VirtualCD in port/src/cdaudio.cpp), the  *)
(* ioctls that reach it (TrapLayer::cd_ioctl) and the auto-advance that    *)
(* stands in for the guest's poll thread (maybe_redirect_cd_advance).      *)
(*                                                                         *)
(* The player below it is DriveDAC, which module CDPlayer implements.  The *)
(* guest's music manager, cVCDThread, is external: it is modelled from the *)
(* calls the drive answers.  Time is counted in ticks; a tick is as long   *)
(* as the audio callback needs for one buffer.                             *)
(***************************************************************************)
EXTENDS DriveDAC, FiniteSets

CONSTANTS
  Tracks,      \* track numbers found by scan()
  LastTrack,   \* the highest number the guest asks for
  Duration,    \* probed length of each track in ticks, 0 if there is none
  List,        \* the guest's track list for each mood that is played
  Gap,         \* ticks between two auto-advances (1 s)
  MaxTicks     \* clocks saturate here (bound)

Moods   == DOMAIN List
Silence == 4   \* the mood that is not an index of a list

ASSUME DriveConstants ==
  /\ LastTrack \in Nat
  /\ Tracks \subseteq 1 .. LastTrack
  /\ Duration \in [Tracks -> 0 .. MaxTicks]
  /\ Moods \subseteq 0 .. 3
  /\ \A m \in Moods : List[m] \subseteq 1 .. LastTrack /\ List[m] # {}
  /\ Gap \in Nat
  /\ MaxTicks \in Nat

VARIABLES
  cd,      \* state_, cur_, end_, paused_at_, now - t0_, audio_out_
  device,  \* audio_dev_ is open
  music,   \* the guest's music manager: object, mood, enabled, mute, call
  wait,    \* ticks until cd_next_advance_
  ran,     \* ticks the current track has really been playing
  owed     \* tracks of the range whose end has not been reached (history)

driveVars == <<dac, cd, device, music, wait, ran, owed>>

DriveInit ==
  /\ DacInit
  /\ cd = [state |-> "stopped", cur |-> 0, end |-> 0, pausedAt |-> 0,
           since |-> 0, out |-> FALSE]
  /\ device = FALSE
  /\ music = [made |-> FALSE, mood |-> Silence, enabled |-> FALSE,
              mute |-> FALSE, call |-> "none", auto |-> FALSE]
  /\ wait = 0
  /\ ran = 0
  /\ owed = {}

Sooner(n) == IF n < MaxTicks THEN n + 1 ELSE MaxTicks

-----------------------------------------------------------------------------
(* track_position: the player's clock while it has a track, else the wall. *)
Position == IF dac.on THEN dac.heard ELSE cd.since

(* Mutants: the wall clock decides even while the player has the track;    *)
(* the length must be met exactly.                                         *)
TrackDone_ByClock ==
  Duration[cd.cur] <= 0 \/ cd.since >= Duration[cd.cur]
TrackDone_Exact ==
  IF dac.on THEN dac.over
  ELSE Duration[cd.cur] <= 0 \/ cd.since = Duration[cd.cur]

(* The end of the current track, as advance() sees it.                     *)
TrackDone ==
  IF dac.on THEN dac.over
  ELSE Duration[cd.cur] <= 0 \/ cd.since >= Duration[cd.cur]

(* The account of the range: o once track t has been begun.  A track with  *)
(* no length that nothing will sound is at its end at once; the others are *)
(* struck off by the step that reaches their end, never by the drive.      *)
OnceBegun(o, t, sounded) == IF ~sounded /\ Duration[t] = 0 THEN o \ {t} ELSE o

(* Tracks of the range still to come.                                      *)
Later == {t \in Tracks : cd.cur < t /\ t <= cd.end}

(* The guest waits in status() or idle(), and advance() finds the current  *)
(* track at its end.                                                       *)
Advancing ==
  music.call \in {"query", "poll"} /\ cd.state = "playing" /\ TrackDone

(* Mutant: a number missing from the rip ends the range.                   *)
RollOn_Hole ==
  /\ Advancing
  /\ IF cd.cur + 1 \in Later
     THEN /\ cd' = [cd EXCEPT !.cur = cd.cur + 1, !.since = 0]
          /\ dac' = IF cd.out THEN Started(dac) ELSE dac
          /\ owed' = OnceBegun(owed, cd.cur + 1, cd.out)
     ELSE /\ cd' = [cd EXCEPT !.state = "completed", !.cur = 0]
          /\ Off
          /\ UNCHANGED owed
  /\ ran' = 0
  /\ UNCHANGED <<device, music, wait>>

(* One turn of advance()'s loop: the next track the rip has is begun, or   *)
(* the range is over.  The player's threads run on between two turns.      *)
RollOn ==
  /\ Advancing
  /\ \/ \E t \in Later :
          /\ \A u \in Later : t <= u
          /\ cd' = [cd EXCEPT !.cur = t, !.since = 0]
          /\ dac' = IF cd.out THEN Started(dac) ELSE dac
          /\ owed' = OnceBegun(owed, t, cd.out)
     \/ /\ Later = {}
        /\ cd' = [cd EXCEPT !.state = "completed", !.cur = 0]
        /\ Off
        /\ UNCHANGED owed
  /\ ran' = 0
  /\ UNCHANGED <<device, music, wait>>

(* advance() returns: nothing is playing, or the track goes on.            *)
Settled == ~(cd.state = "playing" /\ TrackDone)

-----------------------------------------------------------------------------
(* The ioctls.                                                             *)

(* ensure_audio: the device may fail to open; once open it stays.          *)
EnsureAudio(d) == device => d

(* CDROMPLAYTRKIND.  A track that is not in the rip fails the call and     *)
(* leaves the transport alone, apart from audio_out_.                      *)
PlayTrack(s, e) ==
  \E d \in BOOLEAN :
    /\ EnsureAudio(d)
    /\ device' = d
    /\ IF s \notin Tracks
       THEN /\ cd' = [cd EXCEPT !.out = d]
            /\ UNCHANGED <<dac, ran, owed>>
       ELSE /\ cd' = [state |-> "playing", cur |-> s,
                      end |-> IF s < e THEN e ELSE s,
                      pausedAt |-> 0, since |-> 0, out |-> d]
            /\ dac' = IF d THEN Started(dac) ELSE dac
            /\ ran' = 0
            /\ owed' = OnceBegun({t \in Tracks : s <= t /\ t <= cd'.end}, s, d)
    /\ UNCHANGED wait

(* Mutant: the player is left running.                                     *)
StopDrive_Playing ==
  /\ cd' = [cd EXCEPT !.state = "stopped", !.cur = 0, !.pausedAt = 0]
  /\ ran' = 0 /\ owed' = {}
  /\ UNCHANGED <<dac, device, wait>>

(* CDROMSTOP.                                                              *)
StopDrive ==
  /\ cd' = [cd EXCEPT !.state = "stopped", !.cur = 0, !.pausedAt = 0]
  /\ Off
  /\ ran' = 0 /\ owed' = {}
  /\ UNCHANGED <<device, wait>>

(* CDROMPAUSE.                                                             *)
PauseDrive ==
  /\ IF cd.state = "playing"
     THEN /\ cd' = [cd EXCEPT !.state = "paused", !.pausedAt = Position]
          /\ Pause(TRUE)
     ELSE UNCHANGED <<cd, dac>>
  /\ UNCHANGED <<device, wait, ran, owed>>

(* Mutant: the offset is taken from the wrong end.                         *)
ResumeDrive_Backwards ==
  /\ IF cd.state = "paused"
     THEN /\ cd' = [cd EXCEPT !.state = "playing",
                              !.since = cd.pausedAt - cd.since]
          /\ Pause(FALSE)
     ELSE UNCHANGED <<cd, dac>>
  /\ UNCHANGED <<device, wait, ran, owed>>

(* CDROMRESUME: the start is moved so that the pause does not count.       *)
ResumeDrive ==
  /\ IF cd.state = "paused"
     THEN /\ cd' = [cd EXCEPT !.state = "playing", !.since = cd.pausedAt]
          /\ Pause(FALSE)
     ELSE UNCHANGED <<cd, dac>>
  /\ UNCHANGED <<device, wait, ran, owed>>

(* CDROMSUBCHNL: the track number the guest reads, 0 unless playing or     *)
(* paused.                                                                 *)
TrackOf(drive) ==
  IF drive.state \in {"playing", "paused"} THEN drive.cur ELSE 0

-----------------------------------------------------------------------------
(* The guest's music manager (external).                                   *)
CanCall == music.call = "none" /\ Tracks # {}

(* cVCDThread is constructed and enabled.                                  *)
MakeMusic ==
  /\ ~music.made
  /\ music' = [music EXCEPT !.made = TRUE, !.enabled = TRUE]
  /\ UNCHANGED <<dac, cd, device, wait, ran, owed>>

(* SetMood: nothing if the mood is unchanged; silence stops the drive.     *)
SetMood(m) ==
  /\ CanCall /\ music.made /\ m # music.mood
  /\ music' = [music EXCEPT !.mood = m,
                            !.call = IF music.enabled /\ m # Silence
                                     THEN "query" ELSE "none",
                            !.auto = FALSE]
  /\ IF music.enabled /\ m = Silence
     THEN StopDrive
     ELSE UNCHANGED <<dac, cd, device, wait, ran, owed>>

(* StartTrackForMood asks what is playing and leaves a track of the mood   *)
(* alone ...                                                               *)
Query ==
  /\ music.call = "query" /\ Settled
  /\ music' = [music EXCEPT !.call = IF TrackOf(cd) \in List[music.mood]
                                    THEN "none" ELSE "play"]
  /\ UNCHANGED <<dac, cd, device, wait, ran, owed>>

(* ... and plays one from the list otherwise.                              *)
Choose(t, e) ==
  /\ music.call = "play"
  /\ t \in List[music.mood]
  /\ PlayTrack(t, e)
  /\ music' = [music EXCEPT !.call = "none"]

(* The options screen: music off and on, and its pause and resume.         *)
GuestPause  == CanCall /\ PauseDrive  /\ UNCHANGED music
GuestResume == CanCall /\ ResumeDrive /\ UNCHANGED music
GuestStop   == CanCall /\ StopDrive   /\ UNCHANGED music

Toggle ==
  /\ CanCall /\ music.made
  /\ \/ music' = [music EXCEPT !.mute = ~music.mute]
     \/ music' = [music EXCEPT !.enabled = ~music.enabled]
  /\ UNCHANGED <<dac, cd, device, wait, ran, owed>>

-----------------------------------------------------------------------------
(* maybe_redirect_cd_advance, each time the guest begins to sleep.         *)

(* Mutants: a paused drive is idle; a stopped one is not.                  *)
IsIdle_Paused(drive)    == drive.state \in {"completed", "stopped", "paused"}
IsIdle_Completed(drive) == drive.state = "completed"

IsIdle(drive) == drive.state \in {"completed", "stopped"}

(* Main's guard.                                                           *)
Wanted ==
  music.made /\ music.enabled /\ ~music.mute /\ music.mood # Silence

(* It asks the drive whether it is idle, no sooner than Gap after the last *)
(* time it was ...                                                         *)
AskIdle ==
  /\ CanCall
  /\ wait = 0
  /\ music' = [music EXCEPT !.call = "poll"]
  /\ UNCHANGED <<dac, cd, device, wait, ran, owed>>

(* ... and has the guest start a track if it is.                           *)
PollMusic ==
  /\ music.call = "poll" /\ Settled
  /\ wait' = IF IsIdle(cd) THEN Gap ELSE 0
  /\ music' = IF IsIdle(cd) /\ Wanted
              THEN [music EXCEPT !.call = "query", !.auto = TRUE]
              ELSE [music EXCEPT !.call = "none"]
  /\ UNCHANGED <<dac, cd, device, ran, owed>>

-----------------------------------------------------------------------------
(* What the current track owes once its end has been reached, if it has.   *)
Reached(end) == owed' = IF end THEN owed \ {cd.cur} ELSE owed

Tick ==
  /\ cd' = [cd EXCEPT !.since = Sooner(cd.since)]
  /\ wait' = IF wait > 0 THEN wait - 1 ELSE 0
  /\ ran' = IF cd.state = "playing" THEN Sooner(ran) ELSE ran
  /\ Reached(cd.state = "playing" /\ ~dac.on /\ ran' >= Duration[cd.cur])
  /\ UNCHANGED <<dac, device, music>>

(* The player's own steps.                                                 *)
Heard ==
  /\ device
  /\ Hear /\ dac'.heard <= MaxTicks
  /\ Reached(dac'.over)
  /\ UNCHANGED <<cd, device, music, wait, ran>>

TrackEnd ==
  /\ End /\ ~dac.paused
  /\ Reached(TRUE)
  /\ UNCHANGED <<cd, device, music, wait, ran>>

DriveNext ==
  \/ MakeMusic
  \/ \E m \in Moods \cup {Silence} : SetMood(m)
  \/ Query
  \/ \E t \in 1 .. LastTrack, e \in 1 .. LastTrack : Choose(t, e)
  \/ GuestPause \/ GuestResume \/ GuestStop
  \/ Toggle
  \/ AskIdle \/ RollOn \/ PollMusic
  \/ Tick
  \/ Heard \/ TrackEnd

DriveSpec == DriveInit /\ [][DriveNext]_driveVars

(* The game keeps going to sleep and time passes; a call that has begun    *)
(* goes on, through every turn of advance(); a track ends; the random      *)
(* choice does not avoid the rip for ever.                                 *)
DriveFairness ==
  /\ WF_driveVars(AskIdle)
  /\ WF_driveVars(Tick)
  /\ WF_driveVars(RollOn \/ Query \/ PollMusic)
  /\ WF_driveVars(\E t \in 1 .. LastTrack, e \in 1 .. LastTrack : Choose(t, e))
  /\ SF_driveVars(\E t \in Tracks, e \in 1 .. LastTrack : Choose(t, e))
  /\ WF_driveVars(TrackEnd)

DriveFairSpec == DriveSpec /\ DriveFairness

-----------------------------------------------------------------------------
(* The transport's fields hold what their declarations say.                *)
DriveTypeOK ==
  /\ cd.state \in {"stopped", "playing", "paused", "completed"}
  /\ cd.cur \in 0 .. LastTrack /\ cd.end \in 0 .. LastTrack
  /\ cd.pausedAt \in 0 .. MaxTicks /\ cd.since \in 0 .. MaxTicks
  /\ ran \in 0 .. MaxTicks /\ owed \subseteq Tracks
  /\ cd.out \in BOOLEAN /\ device \in BOOLEAN
  /\ music.mood \in Moods \cup {Silence}
  /\ music.call \in {"none", "query", "poll", "play"}
  /\ wait \in 0 .. Gap

(* The transport and the player agree: a track is current exactly while    *)
(* playing or paused and is one the rip has; the player is silent          *)
(* otherwise, runs only with a device that will drain it, and is paused    *)
(* exactly when the transport is.                                          *)
DriveAgrees ==
  /\ DriveTypeOK
  /\ IF cd.state \in {"playing", "paused"}
     THEN cd.cur \in Tracks /\ cd.cur <= cd.end
     ELSE cd.cur = 0 /\ ~dac.on
  /\ dac.on => device /\ (dac.paused <=> cd.state = "paused")

(* The auto-advance never replaces a track that is playing or paused: by   *)
(* the time the guest's choice is played the drive is still idle.          *)
AutoNeverCuts ==
  music.auto /\ music.call = "play" => cd.state \in {"stopped", "completed"}

(* No track is cut short: unless the guest plays, pauses or stops, a track *)
(* is left only when its last sample was heard or, with no device, when    *)
(* its length has passed; nor does the auto-advance play over one.         *)
NotCutShort ==
  [][ /\ AutoNeverCuts'
      /\ cd.state = "playing" /\ music.call \in {"query", "poll"}
           /\ (cd'.cur # cd.cur \/ cd'.state # "playing")
         => IF dac.on THEN dac.over ELSE ran >= Duration[cd.cur] ]_driveVars

(* A range is played through, in the order of its numbers: when the drive  *)
(* reports it completed, the end of every track of it that the rip has     *)
(* was reached, one without a length and without a device included; and    *)
(* while it plays, no track has been passed over.                          *)
RangePlayedOut ==
  /\ cd.state = "completed" => owed = {}
  /\ cd.state \in {"playing", "paused"} => \A t \in owed : cd.cur <= t

(* A track does not play for ever: it is left, paused or begun again.      *)
TrackIsLeft ==
  \A t \in Tracks :
    (cd.state = "playing" /\ cd.cur = t /\ ran > 0)
      ~> (cd.state # "playing" \/ cd.cur # t \/ ran = 0)

(* Music goes on: a drive with nothing playing, while music is wanted, is  *)
(* playing again in the end, also when a chosen track is not in the rip;   *)
(* and no track plays for ever.                                            *)
MusicGoesOn ==
  /\ (Wanted /\ cd.state \in {"stopped", "completed"})
       ~> (~Wanted \/ cd.state \in {"playing", "paused"})
  /\ TrackIsLeft
=============================================================================
