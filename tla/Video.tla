-------------------------------- MODULE Video --------------------------------
(***************************************************************************)
(* The window (Video, video.cpp): a framebuffer in the guest's mode, an    *)
(* SDL texture of the same size, and how it is scaled to the screen.  The  *)
(* game is drawn crisp: nearest, and then either linear from a target      *)
(* three times the size ("sharp") or by a whole factor.  Movies are drawn  *)
(* smooth.  The guest changes the mode between movies and menus, the       *)
(* player changes to full screen and back at any time.                     *)
(*                                                                         *)
(* SDL is external: a window, a texture or a target may not be had.        *)
(***************************************************************************)
EXTENDS Naturals

CONSTANTS
  Modes,   \* sizes of the guest's screen
  NoMode   \* no screen

VARIABLES
  win,      \* is there a window and a renderer
  mode,     \* w_ and h_: the size of the framebuffer
  tex,      \* the texture: its size and its filter
  target,   \* rt_: the size of the target, in guest pixels
  sharp,    \* sharp_
  crisp,    \* crisp_
  full,     \* fullscreen_
  logical,  \* SDL: the logical size
  whole,    \* SDL: scale by whole factors only
  winSize   \* SDL: the size of the window, NoMode in full screen

videoVars == <<win, mode, tex, target, sharp, crisp, full, logical, whole, winSize>>

NoTex == [size |-> NoMode, filter |-> "none"]

Filter(c) == IF c THEN "nearest" ELSE "linear"

-----------------------------------------------------------------------------
(* rebuild_target: no target when SDL has none to give.                    *)
RebuildTarget(m) ==
  \E got \in BOOLEAN :
    /\ sharp' = got
    /\ target' = IF got THEN m ELSE NoMode

(* The window as open leaves it: made, at first in full screen if that is  *)
(* asked for and granted, or resized.                                      *)
Window(m, f) ==
  /\ f = IF win THEN full ELSE f
  /\ win' = TRUE
  /\ full' = f
  /\ winSize' = IF f THEN NoMode ELSE m
  /\ logical' = m

(* The old texture and target are gone by then.                            *)
TextureFails(m) ==
  /\ tex' = NoTex
  /\ target' = NoMode
  /\ sharp' = FALSE
  /\ \E f \in BOOLEAN : Window(m, f)
  /\ UNCHANGED <<mode, crisp, whole>>

(* Mutant: the scale is as it was.                                         *)
TextureMade_ScaleStays(m) ==
  /\ RebuildTarget(m)
  /\ tex' = [size |-> m, filter |-> Filter(crisp)]
  /\ mode' = m
  /\ \E f \in BOOLEAN : Window(m, f)
  /\ UNCHANGED <<crisp, whole>>

(* The policy is applied anew, for the texture is.                         *)
TextureMade(m) ==
  /\ RebuildTarget(m)
  /\ whole' = (crisp /\ ~sharp')
  /\ tex' = [size |-> m, filter |-> Filter(crisp)]
  /\ mode' = m
  /\ \E f \in BOOLEAN : Window(m, f)
  /\ UNCHANGED crisp

(* open: nothing to do in the same mode.  Without a window nothing is left *)
(* of the old texture, but there was none.                                 *)
Open(m) ==
  \/ win /\ mode = m /\ UNCHANGED videoVars
  \/ ~win /\ UNCHANGED videoVars
  \/ ~(win /\ mode = m) /\ (TextureFails(m) \/ TextureMade(m))

(* set_crisp.                                                              *)
SetCrisp(on) ==
  /\ crisp' = on
  /\ IF on = crisp \/ ~win
     THEN UNCHANGED <<whole, tex>>
     ELSE /\ whole' = (on /\ ~sharp)
          /\ tex' = IF tex = NoTex THEN tex ELSE [tex EXCEPT !.filter = Filter(on)]
  /\ UNCHANGED <<win, mode, target, sharp, full, logical, winSize>>

(* Mutant: the window comes back with the size it had.                     *)
Toggle_OldSize ==
  \/ UNCHANGED videoVars
  \/ /\ win
     /\ full' = ~full
     /\ winSize' \in IF full' THEN {NoMode} ELSE Modes
     /\ logical' = mode
     /\ UNCHANGED <<win, mode, tex, target, sharp, crisp, whole>>

(* toggle_fullscreen.  Coming back, the window takes the guest's size.     *)
Toggle ==
  \/ UNCHANGED videoVars
  \/ /\ win
     /\ full' = ~full
     /\ winSize' = IF full' THEN NoMode ELSE mode
     /\ logical' = mode
     /\ UNCHANGED <<win, mode, tex, target, sharp, crisp, whole>>

VideoInit ==
  /\ win = FALSE /\ full = FALSE
  /\ mode = NoMode /\ tex = NoTex /\ target = NoMode
  /\ sharp = FALSE /\ crisp = TRUE
  /\ logical = NoMode /\ whole = FALSE /\ winSize = NoMode
-----------------------------------------------------------------------------
(* present: the rows of the framebuffer go into the texture, and that to   *)
(* the screen, by way of the target if there is one and the game is shown. *)
Presented ==
  [ rows   |-> mode,
    into   |-> tex.size,
    via    |-> IF sharp /\ crisp THEN target ELSE tex.size,
    filter |-> IF sharp /\ crisp THEN <<tex.filter, "linear">> ELSE <<tex.filter>>,
    scale  |-> IF whole THEN "whole" ELSE "any",
    fit    |-> logical ]

(* What is presented is presented as it should be, after any order of mode *)
(* switches, movies, failures and full screen: all sizes are those of the  *)
(* framebuffer ("a stale smaller pitch is what tears the menu"), the game  *)
(* is crisp and movies are smooth, and "windowed is always 1:1 with the    *)
(* framebuffer".                                                           *)
Presents ==
  win /\ tex # NoTex =>
    /\ {Presented.rows, Presented.into, Presented.via, Presented.fit} = {mode}
    /\ <<Presented.filter, Presented.scale>> \in
         IF crisp
         THEN { << <<"nearest">>, "whole">>, << <<"nearest", "linear">>, "any">> }
         ELSE { << <<"linear">>, "any">> }
    /\ ~full => winSize = mode
=============================================================================
