-------------------------------- MODULE Input --------------------------------
(***************************************************************************)
(* Keyboard and mouse (TrapLayer::on_sdl_event, traps.cpp): what SDL       *)
(* reports of the player becomes the key matrices, the qualifier byte, the *)
(* rings of events and the mailbox that the guest reads.  A few chords     *)
(* with Alt are the host's: their key is swallowed, down and up.           *)
(*                                                                         *)
(* SDL reports events while the host presents a frame, on the emulation    *)
(* thread; the guest reads between two frames.  The rings get their events *)
(* from the same handler and do not depend on each other: a behaviour      *)
(* follows one of them.                                                    *)
(*                                                                         *)
(* Until the guest has made its Intuition, the handler does nothing; the   *)
(* model begins after that.                                                *)
(***************************************************************************)
EXTENDS EventRing, SequencesExt

CONSTANTS
  Keys,      \* keys of the player's keyboard
  Code,      \* sdl_scancode_to_ekey: the guest's code of a key
  Qualifier, \* the codes that are qualifiers, with their bit
  ChordOf,   \* the chord a key makes with Alt: "fullscreen", "console", "mark"
  Buttons,   \* buttons of the mouse that the guest knows
  Slots,     \* slots of a ring
  Rings      \* rings that are followed, "none" if the events do not matter

ASSUME InputConstants ==
  /\ Slots \in Nat \ {0}
  /\ Rings \subseteq {"intuition", "keyboard", "mouse", "none"}

NoChord == "none"

VARIABLES
  held,     \* keys the player holds
  matrix,   \* codes held in the key matrices of Intuition and VKeyboard
  quals,    \* the qualifier byte, as the set of its bits
  swallow,  \* chords whose release is still to be swallowed
  pending,  \* chords the host has still to act upon: console_open_pending_, mark_pending_
  buttons,  \* mouse_buttons_ and Intuition's copy of it
  follow,   \* the ring that is followed
  ring,     \* its state
  taken,    \* the event that the guest has just taken, or Blank
  playing,  \* movie_playing_
  mailbox   \* TRUE if a key is in the mailbox of the keyboard driver

keyVars   == <<held, matrix, quals, swallow, pending>>
ringVars  == <<follow, ring, taken>>
inputVars == <<keyVars, buttons, ringVars, playing, mailbox>>

-----------------------------------------------------------------------------
(* Events.                                                                 *)
KeyEvent(c, down) == <<"key", c, down>>
Edge(b, down)     == <<"edge", b, down>>
Moved             == <<"move">>
Mask(bs)          == <<"buttons", bs>>

(* What each ring is sent.                                                 *)
Sends(intuition, keyboard, mouse) ==
  [intuition |-> intuition, keyboard |-> keyboard, mouse |-> mouse, none |-> <<>>]

Push(r, e) == IF follow = "mouse" THEN PushPlain(r, e) ELSE PushMarked(r, e)

Post(sent) ==
  /\ ring' = FoldLeft(Push, ring, sent[follow])
  /\ taken' = Blank
  /\ UNCHANGED follow

(* sdl_scancode_to_ekey: several keys of the keyboard have one code.       *)
EKey(k) == Code[k]

QualifiersOf(codes) == {Qualifier[c] : c \in codes \cap DOMAIN Qualifier}

-----------------------------------------------------------------------------
(* Keys.                                                                   *)

AltHeld == \E k \in held : EKey(k) \in DOMAIN Qualifier /\ Qualifier[EKey(k)] = "alt"

(* A key goes to the guest: to the matrices, to both rings, and while a    *)
(* movie plays a press goes to the mailbox too.  A key without a code goes *)
(* nowhere; it is not a key of the model.                                  *)
Forward(c, down) ==
  /\ matrix' = IF down THEN matrix \cup {c} ELSE matrix \ {c}
  /\ quals' = QualifiersOf(matrix')
  /\ Post(Sends(<<KeyEvent(c, down)>>, <<KeyEvent(c, down)>>, <<>>))
  /\ mailbox' = (mailbox \/ (down /\ playing))

(* The host acts on a chord: at once on Alt+Enter (see Video), in the next *)
(* frame on the others.                                                    *)
Chord(c) ==
  /\ swallow' = swallow \cup {c}
  /\ pending' = IF c = "fullscreen" THEN pending ELSE pending \cup {c}
  /\ UNCHANGED <<matrix, quals, ringVars, mailbox>>

MakesChord(k, repeat) == ChordOf[k] # NoChord /\ AltHeld /\ ~repeat

(* SDL repeats a press for as long as the key is held.                     *)
KeyDown(k, repeat) ==
  /\ repeat = (k \in held)
  /\ held' = held \cup {k}
  /\ IF MakesChord(k, repeat)
     THEN Chord(ChordOf[k])
     ELSE Forward(EKey(k), TRUE) /\ UNCHANGED <<swallow, pending>>
  /\ UNCHANGED <<buttons, playing>>

(* Mutant: any release of a key with a chord is swallowed.                 *)
KeyUp_Greedy(k) ==
  /\ k \in held
  /\ held' = held \ {k}
  /\ IF swallow # {}
     THEN /\ swallow' = {}
          /\ UNCHANGED <<matrix, quals, ringVars, mailbox>>
     ELSE Forward(EKey(k), FALSE) /\ UNCHANGED swallow
  /\ UNCHANGED <<pending, buttons, playing>>

KeyUp(k) ==
  /\ k \in held
  /\ held' = held \ {k}
  /\ IF ChordOf[k] \in swallow
     THEN /\ swallow' = swallow \ {ChordOf[k]}
          /\ UNCHANGED <<matrix, quals, ringVars, mailbox>>
     ELSE Forward(EKey(k), FALSE) /\ UNCHANGED swallow
  /\ UNCHANGED <<pending, buttons, playing>>

(* maybe_redirect_console and longrun_tick serve what is pending.          *)
Served(c) ==
  /\ c \in pending
  /\ pending' = pending \ {c}
  /\ UNCHANGED <<held, matrix, quals, swallow, buttons, ringVars, playing, mailbox>>

-----------------------------------------------------------------------------
(* Mouse.                                                                  *)

MouseMove ==
  /\ Post(Sends(<<Moved>>, <<>>, <<Moved>>))
  /\ UNCHANGED <<keyVars, buttons, playing, mailbox>>

(* The position goes first; an edge follows if the guest's button changes. *)
MouseButton(b, down) ==
  LET now == IF down THEN buttons \cup ({b} \cap Buttons) ELSE buttons \ {b}
  IN  /\ buttons' = now
      /\ Post(Sends(IF now = buttons THEN <<Moved>> ELSE <<Moved, Edge(b, down)>>,
                    <<>>,
                    <<Moved, Mask(now)>>))
      /\ UNCHANGED <<keyVars, playing, mailbox>>

(* Mutant: the keys stay as they are.                                      *)
FocusLost_KeysStay ==
  /\ held' \in SUBSET held
  /\ buttons' = {}
  /\ Post(Sends(<<>>, <<>>, <<Mask({})>>))
  /\ UNCHANGED <<matrix, quals, swallow, pending, playing, mailbox>>

(* The window loses the focus: everything is let go, without events for    *)
(* Intuition.  The player may let go unseen.                               *)
FocusLost ==
  /\ held' \in SUBSET held
  /\ matrix' = {}
  /\ quals' = {}
  /\ buttons' = {}
  /\ Post(Sends(<<>>, <<>>, <<Mask({})>>))
  /\ UNCHANGED <<swallow, pending, playing, mailbox>>

-----------------------------------------------------------------------------
(* The guest.                                                              *)

TakeEvent ==
  /\ Readable(ring)
  /\ taken' = Oldest(ring)
  /\ ring' = Pull(ring)
  /\ UNCHANGED <<keyVars, buttons, follow, playing, mailbox>>

-----------------------------------------------------------------------------
InputInit ==
  /\ held = {} /\ matrix = {} /\ quals = {}
  /\ swallow = {} /\ pending = {}
  /\ buttons = {}
  /\ follow \in Rings
  /\ ring = NewRing(Slots)
  /\ taken = Blank
  /\ playing = FALSE
  /\ mailbox = FALSE

Keyboard ==
  \/ \E k \in Keys : (\E repeat \in BOOLEAN : KeyDown(k, repeat)) \/ KeyUp(k)
  \/ FocusLost

(* A fourth button is one the guest does not know.                         *)
Mouse ==
  \/ MouseMove
  \/ \E b \in Buttons \cup {"other"}, down \in BOOLEAN : MouseButton(b, down)

InputNext ==
  \/ Keyboard
  \/ Mouse
  \/ TakeEvent
  \/ \E c \in pending : Served(c)

InputSpec == InputInit /\ [][InputNext]_inputVars
-----------------------------------------------------------------------------
(* Codes that only ordinary keys make, and codes a chord is made with.     *)
ChordCodes == {EKey(k) : k \in {j \in Keys : ChordOf[j] # NoChord}}

(* No key sticks: what the guest reads as held, in the matrices or in the  *)
(* qualifier byte, the player holds, whatever is pressed, repeated,        *)
(* swallowed or let go outside the window.  For the keys of the chords     *)
(* this is SwallowedWhole.                                                 *)
NothingSticks ==
  /\ matrix \ ChordCodes \subseteq {EKey(k) : k \in held}
  /\ quals = QualifiersOf(matrix)

(* "The Return is SWALLOWED. The matching release is swallowed too": once  *)
(* the player has let go of the keys of a chord, the guest does not have   *)
(* them as held.                                                           *)
SwallowedWhole ==
  \A c \in ChordCodes : c \in matrix => \E k \in held : EKey(k) = c

(* What the handlers write in one go.                                      *)
RingBatches ==
  LET keys  == {KeyEvent(EKey(k), down) : k \in Keys, down \in BOOLEAN}
      edges == {Edge(b, down) : b \in Buttons, down \in BOOLEAN}
      masks == {Mask(bs) : bs \in SUBSET Buttons}
  IN  {<<>>} \cup {<<e>> : e \in keys \cup {Moved} \cup masks}
      \cup {<<Moved, e>> : e \in edges \cup masks}

Queue == INSTANCE EventQueue WITH
  Size <- Slots, Batches <- RingBatches,
  queue <- Content(ring), marks <- (follow # "mouse"), out <- taken

(* Each ring is a queue: nothing is lost, doubled or put out of order      *)
(* unless it was full, wherever in the ring the indexes are.               *)
RingsAreQueues == Queue!Spec
=============================================================================
