------------------------------- MODULE Screen -------------------------------
(***************************************************************************)
(* The screen: the menus and the game that present with cVVC::SwapBuffers  *)
(* (HLE_SwapBuffers, traps.cpp), the pointer that the guest paints into    *)
(* the same buffer, and the movies in between.                             *)
(*                                                                         *)
(* The guest's cSprite saves what is under the pointer in one of two       *)
(* slots: A for the frame, B for the repaint between frames that a tick of *)
(* the timer makes while the game sleeps.  Frame: draw the scene, save     *)
(* under the pointer and paint it, present, put the background back.  The  *)
(* host has changed three things: the frame puts back what it has saved    *)
(* itself, and not what was in the other slot; it forgets slot B with each *)
(* frame presented; and a repaint, which writes to a buffer that is no     *)
(* screen, is presented when the sleep goes on.                            *)
(*                                                                         *)
(* The game's scenes are drawn anew in every frame and sleep between       *)
(* frames; screens like the credits are drawn once and do not sleep.  The  *)
(* pointer covers one spot.  While the guest is inside SwapBuffers         *)
(* (VBlankInProgress) a tick does not repaint.                             *)
(***************************************************************************)
EXTENDS Cutscene

CONSTANTS
  Spots,    \* places of the pointer
  GameMode  \* the mode of the menus and the game

ASSUME ScreenConstants == "none" \notin Spots

VARIABLES
  still,   \* TRUE for a screen that is drawn once
  stage,   \* where the guest is in its frame
  mouse,   \* where Intuition's pointer is
  spot,    \* where the sprite is
  fb,      \* what is at each spot of the buffer: "now", "old" or "ptr"
  slotA,   \* the background that the frame has saved
  slotB,   \* the background that the repaint has saved
  dirty,   \* gd_refresh_dirty_
  shown,   \* the buffer as presented last, if it was the game's
  leaked   \* has PushKeyInput found a key in the mailbox

pointerVars == <<still, stage, mouse, spot, fb, slotA, slotB, dirty, shown, leaked>>
screenVars  == <<pointerVars, sceneVars>>

Nothing == [at |-> "none", pix |-> "now"]

(* The scene without a pointer.                                            *)
Bare == [s \in Spots |-> "now"]

Saved(at)    == [at |-> at, pix |-> fb[at]]
Restored(sl) == IF sl = Nothing THEN fb ELSE [fb EXCEPT ![sl.at] = sl.pix]
Aged(sl)     == IF sl.pix = "now" /\ sl # Nothing THEN [sl EXCEPT !.pix = "old"] ELSE sl

-----------------------------------------------------------------------------
(* The guest's frame.                                                      *)

(* The scene is drawn; what is saved is of the scene before.               *)
Draw ==
  /\ scene = "menu" /\ gd # NoMode
  /\ stage \in {"opened", "rest", "async"}
  /\ stage' = "drawn"
  /\ IF still /\ stage = "rest"
     THEN UNCHANGED <<fb, slotA, slotB>>
     ELSE fb' = Bare /\ slotA' = Aged(slotA) /\ slotB' = Aged(slotB)
  /\ UNCHANGED <<still, mouse, spot, dirty, shown, leaked, sceneVars>>

(* SwapBuffers__Fv up to the present: PushKeyInput, MoveTo and             *)
(* BeforeSwapBuffer.                                                       *)
BeforeSwap ==
  /\ stage = "drawn"
  /\ stage' = "painted"
  /\ leaked' = (leaked \/ mailbox)
  /\ mailbox' = FALSE
  /\ spot' = mouse
  /\ slotA' = Saved(mouse)
  /\ fb' = [fb EXCEPT ![mouse] = "ptr"]
  /\ UNCHANGED <<still, mouse, slotB, dirty, shown, movieVars, keyVars, buttons,
                 ringVars, playing, videoVars>>

(* HLE_SwapBuffers: the window takes the size of the device, the buffer is *)
(* presented, and slot B is forgotten.                                     *)
Resized == IF gd # mode THEN Open(gd) ELSE UNCHANGED videoVars

(* Mutant: slot B is kept.                                                 *)
Present_KeepB ==
  /\ stage = "painted"
  /\ stage' = "presented"
  /\ IF win
     THEN /\ Resized
          /\ shown' = fb
          /\ dirty' = FALSE
     ELSE UNCHANGED <<videoVars, shown, dirty>>
  /\ UNCHANGED <<still, mouse, spot, fb, slotA, slotB, leaked, movieVars, inputVars>>

Present ==
  /\ stage = "painted"
  /\ stage' = "presented"
  /\ IF win
     THEN /\ Resized
          /\ shown' = fb
          /\ dirty' = FALSE
          /\ slotB' = Nothing
     ELSE UNCHANGED <<videoVars, shown, dirty, slotB>>
  /\ UNCHANGED <<still, mouse, spot, fb, slotA, leaked, movieVars, inputVars>>

(* AfterSwapBuffer as it was: the slots change places first.               *)
AfterSwap_Swaps ==
  /\ stage = "presented"
  /\ stage' = "rest"
  /\ slotA' = Nothing
  /\ slotB' = slotA
  /\ fb' = Restored(slotB)
  /\ UNCHANGED <<still, mouse, spot, dirty, shown, leaked, sceneVars>>

(* AfterSwapBuffer, patched by install_plugins_and_video.                  *)
AfterSwap ==
  /\ stage = "presented"
  /\ stage' = "rest"
  /\ fb' = Restored(slotA)
  /\ slotA' = Nothing
  /\ UNCHANGED <<still, mouse, spot, slotB, dirty, shown, leaked, sceneVars>>

-----------------------------------------------------------------------------
(* The repaint between frames.                                             *)

(* cGD_LFB16::Refresh, which has written to the screen by itself once.     *)
(* Mutant: it presents.                                                    *)
GDRefresh_Presents == dirty' = TRUE /\ shown' = fb'

GDRefresh == dirty' = TRUE /\ UNCHANGED shown

(* A tick in the sleep: TimerProc and cSprite::Refresh, which erases the   *)
(* pointer and paints it anew if it has moved.                             *)
Erase ==
  /\ scene = "menu" /\ stage \in {"rest", "async"} /\ ~still /\ mouse # spot
  /\ stage' = "erased"
  /\ fb' = Restored(slotB)
  /\ slotB' = Nothing
  /\ GDRefresh
  /\ UNCHANGED <<still, mouse, spot, slotA, leaked, sceneVars>>

Repaint ==
  /\ stage = "erased"
  /\ stage' = "ticked"
  /\ spot' = mouse
  /\ slotB' = Saved(mouse)
  /\ fb' = [fb EXCEPT ![mouse] = "ptr"]
  /\ GDRefresh
  /\ UNCHANGED <<still, mouse, slotA, leaked, sceneVars>>

(* The sleep goes on: what the tick has painted is presented, unless a     *)
(* frame was less than 25 ms ago.                                          *)
SleepGoesOn ==
  /\ stage = "ticked"
  /\ stage' = "async"
  /\ dirty' = FALSE
  /\ \/ UNCHANGED shown
     \/ dirty /\ win /\ gd # NoMode /\ shown' = fb
  /\ UNCHANGED <<still, mouse, spot, fb, slotA, slotB, leaked, sceneVars>>

-----------------------------------------------------------------------------
(* The player, whom SDL speaks for while the host presents or holds a      *)
(* frame back.                                                             *)
Pumps ==
  /\ win
  /\ \/ scene = "menu" /\ stage \in {"presented", "async"}
     \/ scene = "shown" /\ frame > 0
     \/ scene = "ask" /\ movie = "playing" /\ frame > 0 /\ due > 0

(* Alt+Enter changes to full screen and back at once.                      *)
Key(k) ==
  /\ Pumps
  /\ \/ /\ \E repeat \in BOOLEAN :
             /\ KeyDown(k, repeat)
             /\ IF MakesChord(k, repeat) /\ ChordOf[k] = "fullscreen"
                THEN Toggle
                ELSE UNCHANGED videoVars
     \/ KeyUp(k) /\ UNCHANGED videoVars
  /\ UNCHANGED <<pointerVars, movieVars>>

Move ==
  /\ Pumps
  /\ scene = "menu"
  /\ mouse' \in Spots \ {mouse}
  /\ UNCHANGED <<still, stage, spot, fb, slotA, slotB, dirty, shown, leaked, sceneVars>>

(* Time passes while a movie is on: a frame gets due, sound is heard.      *)
Tick ==
  /\ scene \notin {"menu", "set"}
  /\ due' = Larger(due - 1, -Lateness)
  /\ queued' = Larger(queued - 1, 0)
  /\ dry' = (dry \/ (movie = "playing" /\ frame > 0 /\ queued = 0 /\ sent < AudioTicks))
  /\ UNCHANGED <<scene, movie, frame, sent, late, gd, pointerVars, inputVars, videoVars>>

-----------------------------------------------------------------------------
(* The menus open the display and leave for a movie between two frames; a  *)
(* frame is drawn before they sleep again.                                 *)
OpenGame ==
  /\ scene = "menu" /\ stage \in {"opened", "rest"}
  /\ stage' = "opened"
  /\ still' \in BOOLEAN
  /\ OpenDisplay(GameMode)
  /\ UNCHANGED <<scene, movie, frame, due, sent, queued, late, dry, inputVars,
                 mouse, spot, fb, slotA, slotB, dirty, shown, leaked>>

ToMovie ==
  /\ stage \in {"opened", "rest"}
  /\ stage' = "opened"
  /\ still' = FALSE
  /\ shown' = <<>>
  /\ EnterMovie
  /\ UNCHANGED <<mouse, spot, fb, slotA, slotB, dirty, leaked>>

MovieStep ==
  /\ SmpegNew \/ StartPlay \/ ShowFrame \/ NoFrame \/ Status \/ PollKey \/ SmpegDelete
  /\ UNCHANGED pointerVars

GuestFrame == Draw \/ BeforeSwap \/ Present \/ AfterSwap

TickInSleep == Erase \/ Repaint \/ SleepGoesOn

Player == (\E k \in Keys : Key(k)) \/ Move

ScreenInit ==
  /\ InputInit /\ VideoInit
  /\ scene = "menu" /\ movie = "none" /\ frame = 0 /\ due = 0
  /\ sent = 0 /\ queued = 0 /\ late = FALSE /\ dry = FALSE /\ gd = NoMode
  /\ still = FALSE /\ stage = "opened" /\ mouse \in Spots /\ spot = mouse
  /\ fb = Bare
  /\ slotA = Nothing /\ slotB = Nothing
  /\ dirty = FALSE /\ shown = <<>> /\ leaked = FALSE

ScreenNext ==
  OpenGame \/ ToMovie \/ MovieStep \/ GuestFrame \/ TickInSleep \/ Player \/ Tick

ScreenSpec == ScreenInit /\ [][ScreenNext]_screenVars

(* The guest goes on with a movie it has begun, and time passes.           *)
ScreenFair == ScreenSpec /\ WF_screenVars(MovieStep) /\ WF_screenVars(Tick)
-----------------------------------------------------------------------------
(* What is presented is presented as it should be (see Video), and the     *)
(* guest paints with a device of the size of the window's buffer, however  *)
(* modes, movies, full screen and failures to get a texture alternate.     *)
PaintsWhatIsPresented == Presents /\ (gd # NoMode => gd = mode)

(* A movie leaves nothing behind, whichever way it ended: the mailbox,     *)
(* which "must stay empty outside of movies", never has a key for          *)
(* PushKeyInput, which would deliver it a second time, and the menus and   *)
(* the game are shown crisp again.                                         *)
MovieLeavesNothing == ~leaked /\ (scene = "menu" => crisp)

(* Nothing of an older scene is stamped over a frame, and what is shown    *)
(* has one pointer.                                                        *)
OnePointer ==
  shown # <<>> => \E p \in Spots : shown = [Bare EXCEPT ![p] = "ptr"]

(* However late frames are, and after any number of new schedules, the     *)
(* sound that is heard is never more than a frame behind the picture; and  *)
(* "keep ~2 frames of lead so the callback never underruns": it does not   *)
(* in a movie no frame of which was more than two frames late.             *)
LipSync ==
  /\ movie = "playing" /\ frame > 0 =>
       Heard >= Smaller((frame - 2) * FrameTicks, AudioTicks)
  /\ dry => late \/ Overdue

(* A movie that is begun comes to an end, also one that cannot be decoded. *)
MovieEnds == scene # "menu" ~> scene = "menu"
=============================================================================
