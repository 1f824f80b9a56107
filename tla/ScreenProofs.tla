---------------------------- MODULE ScreenProofs ----------------------------
(***************************************************************************)
(* Proofs about Input and about Screen, which extends it, for any          *)
(* keyboard, code table, set of chords and ring, and for any modes,        *)
(* movies and places of the pointer.  Of the input: no key sticks, which   *)
(* the rings, the mouse and the mailbox have no part in, and each ring is  *)
(* a queue, what the handlers write and the guest reads implementing       *)
(* EventQueue.  Of the screen: the window fits, the mailbox plays no part  *)
(* in a movie, the pointer leaves no mark, and picture and sound agree.    *)
(***************************************************************************)
EXTENDS Screen, SequenceTheorems, FiniteSetTheorems, TLAPS

-----------------------------------------------------------------------------
(* The keys.                                                               *)

(* Nothing is swallowed but the keys of chords.                            *)
OnlyChords == NoChord \notin swallow

StickInv == NothingSticks /\ OnlyChords

LEMMA StickInit == InputInit => StickInv
  BY DEF InputInit, StickInv, NothingSticks, OnlyChords, QualifiersOf

LEMMA StickKeyDown ==
  ASSUME StickInv, NEW k \in Keys, NEW repeat \in BOOLEAN, KeyDown(k, repeat)
  PROVE  StickInv'
<1>1. CASE MakesChord(k, repeat)
  <2>1. matrix' = matrix /\ quals' = quals /\ held' = held \cup {k}
    BY <1>1 DEF KeyDown, Chord
  <2>2. ChordOf[k] # NoChord /\ swallow' = swallow \cup {ChordOf[k]}
    BY <1>1 DEF KeyDown, Chord, MakesChord
  <2> QED
    BY <2>1, <2>2 DEF StickInv, NothingSticks, OnlyChords, QualifiersOf, ChordCodes
<1>2. CASE ~MakesChord(k, repeat)
  <2>1. /\ matrix' = matrix \cup {EKey(k)} /\ quals' = QualifiersOf(matrix')
        /\ held' = held \cup {k} /\ swallow' = swallow
    BY <1>2 DEF KeyDown, Forward
  <2> QED
    BY <2>1 DEF StickInv, NothingSticks, OnlyChords, QualifiersOf, ChordCodes
<1> QED
  BY <1>1, <1>2

LEMMA StickKeyUp ==
  ASSUME StickInv, NEW k \in Keys, KeyUp(k)
  PROVE  StickInv'
<1>1. CASE ChordOf[k] \in swallow
  <2>1. /\ matrix' = matrix /\ quals' = quals /\ held' = held \ {k}
        /\ swallow' \subseteq swallow
    BY <1>1 DEF KeyUp
  <2>2. EKey(k) \in ChordCodes
    BY <1>1 DEF StickInv, OnlyChords, ChordCodes
  <2> QED
    BY <2>1, <2>2 DEF StickInv, NothingSticks, OnlyChords, QualifiersOf, ChordCodes
<1>2. CASE ChordOf[k] \notin swallow
  <2>1. /\ matrix' = matrix \ {EKey(k)} /\ quals' = QualifiersOf(matrix')
        /\ held' = held \ {k} /\ swallow' = swallow
    BY <1>2 DEF KeyUp, Forward
  <2> QED
    BY <2>1 DEF StickInv, NothingSticks, OnlyChords, QualifiersOf, ChordCodes
<1> QED
  BY <1>1, <1>2

LEMMA StickFocusLost == ASSUME StickInv, FocusLost PROVE StickInv'
  BY DEF FocusLost, StickInv, NothingSticks, OnlyChords, QualifiersOf

LEMMA StickOthers ==
  ASSUME StickInv, UNCHANGED <<held, matrix, quals, swallow>>
  PROVE  StickInv'
  BY DEF StickInv, NothingSticks, OnlyChords, QualifiersOf, ChordCodes

(* No key sticks, whatever is pressed, repeated, swallowed or let go       *)
(* outside the window, on any keyboard.                                    *)
THEOREM NoKeySticks == InputSpec => []NothingSticks
<1>1. InputInit => StickInv
  BY StickInit
<1>2. StickInv /\ [InputNext]_inputVars => StickInv'
  <2> SUFFICES ASSUME StickInv, [InputNext]_inputVars PROVE StickInv'
    OBVIOUS
  <2>1. ASSUME NEW k \in Keys, NEW repeat \in BOOLEAN, KeyDown(k, repeat) PROVE StickInv'
    BY <2>1, StickKeyDown
  <2>2. ASSUME NEW k \in Keys, KeyUp(k) PROVE StickInv'
    BY <2>2, StickKeyUp
  <2>3. CASE FocusLost
    BY <2>3, StickFocusLost
  <2>4. CASE MouseMove
    BY <2>4, StickOthers DEF MouseMove, keyVars
  <2>5. ASSUME NEW b, NEW down, MouseButton(b, down) PROVE StickInv'
    BY <2>5, StickOthers DEF MouseButton, keyVars
  <2>6. CASE TakeEvent
    BY <2>6, StickOthers DEF TakeEvent, keyVars
  <2>7. ASSUME NEW c, Served(c) PROVE StickInv'
    BY <2>7, StickOthers DEF Served
  <2>8. CASE UNCHANGED inputVars
    BY <2>8, StickOthers DEF inputVars, keyVars
  <2> QED
    BY <2>1, <2>2, <2>3, <2>4, <2>5, <2>6, <2>7, <2>8 DEF InputNext, Keyboard, Mouse
<1>3. StickInv => NothingSticks
  BY DEF StickInv
<1> QED
  BY <1>1, <1>2, <1>3, PTL DEF InputSpec

-----------------------------------------------------------------------------
(* The slots of a ring, without remainders.                                *)

(* Whatever a handler writes, and what a slot is before.                   *)
Events == {Blank} \cup UNION {{es[i] : i \in DOMAIN es} : es \in RingBatches}

IsRing(r) ==
  r \in [buf : [0 .. Slots - 1 -> Events], rd : 0 .. Slots - 1, wr : -1 .. Slots - 1]

Following(i) == IF i + 1 = Slots THEN 0 ELSE i + 1

(* How many events wait, and where the i-th of them is.                    *)
Waiting(r) ==
  IF r.wr < 0 THEN Slots ELSE IF r.rd <= r.wr THEN r.wr - r.rd ELSE r.wr - r.rd + Slots

At(r, i) == IF r.rd + i - 1 < Slots THEN r.rd + i - 1 ELSE r.rd + i - 1 - Slots

LEMMA Remainders ==
  ASSUME NEW a \in Int
  PROVE  /\ 0 <= a /\ a < Slots => a % Slots = a
         /\ Slots <= a /\ a < 2 * Slots => a % Slots = a - Slots
         /\ -Slots <= a /\ a < 0 => a % Slots = a + Slots
<1> DEFINE s == Slots
<1>1. s \in Nat \ {0}
  BY InputConstants
<1> HIDE DEF s
<1>2. 0 <= a /\ a < s => a % s = a
  BY <1>1
<1>3. s <= a /\ a < 2 * s => a % s = a - s
  BY <1>1
<1>4. -s <= a /\ a < 0 => a % s = a + s
  BY <1>1
<1> QED
  BY <1>2, <1>3, <1>4 DEF s

LEMMA RingSizeIs == ASSUME NEW r, IsRing(r) PROVE RingSize(r) = Slots
<1>1. DOMAIN r.buf = 0 .. Slots - 1
  BY DEF IsRing
<1>2. Cardinality(0 .. Slots - 1) = Slots
  BY InputConstants, FS_Interval
<1> QED
  BY <1>1, <1>2 DEF RingSize

LEMMA AfterIs ==
  ASSUME NEW r, IsRing(r), NEW i \in 0 .. Slots - 1
  PROVE  After(r, i) = Following(i) /\ Following(i) \in 0 .. Slots - 1
<1>1. After(r, i) = (i + 1) % Slots
  BY RingSizeIs DEF After
<1>2. Slots \in Nat \ {0}
  BY InputConstants
<1>3. i + 1 \in Int
  BY <1>2
<1> QED
  BY <1>1, <1>2, <1>3, Remainders DEF Following

LEMMA ContentIs ==
  ASSUME NEW r, IsRing(r)
  PROVE  /\ Content(r) \in Seq(Events)
         /\ Len(Content(r)) = Waiting(r)
         /\ Waiting(r) \in 0 .. Slots
         /\ \A i \in 1 .. Waiting(r) :
              At(r, i) \in 0 .. Slots - 1 /\ Content(r)[i] = r.buf[At(r, i)]
<1> DEFINE n == Waiting(r)
<1>1. Slots \in Nat \ {0} /\ r.rd \in 0 .. Slots - 1 /\ r.wr \in -1 .. Slots - 1
  BY InputConstants DEF IsRing
<1>2. n \in 0 .. Slots
  BY <1>1 DEF Waiting
<1>3. (IF r.wr < 0 THEN RingSize(r) ELSE (r.wr - r.rd) % RingSize(r)) = n
  <2>1. r.wr - r.rd \in Int
    BY <1>1
  <2> QED
    BY <1>1, <2>1, RingSizeIs, Remainders DEF Waiting
<1> HIDE DEF n
<1>4. ASSUME NEW i \in 1 .. n
      PROVE  /\ (r.rd + i - 1) % RingSize(r) = At(r, i)
             /\ At(r, i) \in 0 .. Slots - 1
             /\ r.buf[At(r, i)] \in Events
  <2>1. r.rd + i - 1 \in Int
    BY <1>1, <1>2
  <2>2. At(r, i) \in 0 .. Slots - 1
    BY <1>1, <1>2 DEF At
  <2>3. r.buf[At(r, i)] \in Events
    BY <2>2 DEF IsRing
  <2>4. (r.rd + i - 1) % Slots = At(r, i)
    BY <1>1, <1>2, <2>1, Remainders DEF At
  <2> QED
    BY <2>2, <2>3, <2>4, RingSizeIs
<1>5. Content(r) = [i \in 1 .. n |-> r.buf[(r.rd + i - 1) % RingSize(r)]]
  BY <1>3 DEF Content
<1>6. Content(r) = [i \in 1 .. n |-> r.buf[At(r, i)]]
  BY <1>4, <1>5
<1>7. Content(r) \in [1 .. n -> Events]
  BY <1>4, <1>6
<1>8. Content(r) \in Seq(Events) /\ Len(Content(r)) = n
  BY <1>2, <1>7
<1> QED
  BY <1>2, <1>4, <1>6, <1>8 DEF n

(* A slot is written, and the write index moves.                           *)
Put(r, slot, e, w) == [r EXCEPT !.buf[slot] = e, !.wr = w]

LEMMA Written ==
  ASSUME NEW r, IsRing(r), NEW e \in Events, NEW slot \in 0 .. Slots - 1,
         NEW w \in -1 .. Slots - 1
  PROVE  /\ IsRing(Put(r, slot, e, w))
         /\ Put(r, slot, e, w).rd = r.rd /\ Put(r, slot, e, w).wr = w
         /\ \A j \in 0 .. Slots - 1 :
              Put(r, slot, e, w).buf[j] = IF j = slot THEN e ELSE r.buf[j]
  BY DEF IsRing, Put

(* The write index moves on, to the mark if it meets the read index.       *)
LEMMA WrittenOne ==
  ASSUME NEW r, NEW s, IsRing(r), r.wr # -1, s.rd = r.rd,
         \/ s.wr = IF Following(r.wr) = r.rd THEN -1 ELSE Following(r.wr)
         \/ s.wr = Following(r.wr) /\ Waiting(r) < Slots - 1
  PROVE  /\ Waiting(r) < Slots
         /\ Waiting(s) = Waiting(r) + 1
         /\ At(s, Waiting(s)) = r.wr
         /\ \A i \in 1 .. Waiting(r) : At(s, i) = At(r, i) /\ At(r, i) # r.wr
<1> DEFINE rd == r.rd
           wr == r.wr
           x  == s.wr
           nx == IF wr + 1 = Slots THEN 0 ELSE wr + 1
           n  == IF rd <= wr THEN wr - rd ELSE wr - rd + Slots
           m  == IF x < 0 THEN Slots ELSE IF rd <= x THEN x - rd ELSE x - rd + Slots
<1>1. Slots \in Nat \ {0} /\ rd \in 0 .. Slots - 1 /\ wr \in 0 .. Slots - 1
  BY InputConstants DEF IsRing
<1>2. Waiting(r) = n
  BY <1>1 DEF Waiting
<1>3. Waiting(s) = m
  BY DEF Waiting
<1>4. x = (IF nx = rd THEN -1 ELSE nx) \/ (x = nx /\ n < Slots - 1)
  BY <1>2 DEF Following
<1>5. \A i : /\ At(r, i) = IF rd + i - 1 < Slots THEN rd + i - 1 ELSE rd + i - 1 - Slots
            /\ At(s, i) = IF rd + i - 1 < Slots THEN rd + i - 1 ELSE rd + i - 1 - Slots
  BY DEF At
<1> HIDE DEF rd, wr, x
<1>6. n < Slots /\ m = n + 1
  BY <1>1, <1>4
<1>7. (IF rd + m - 1 < Slots THEN rd + m - 1 ELSE rd + m - 1 - Slots) = wr
  BY <1>1, <1>6
<1>8. \A i \in 1 .. n :
        (IF rd + i - 1 < Slots THEN rd + i - 1 ELSE rd + i - 1 - Slots) # wr
  BY <1>1
<1> QED
  BY <1>2, <1>3, <1>5, <1>6, <1>7, <1>8 DEF wr

LEMMA Appended ==
  ASSUME NEW c \in Seq(Events), NEW d \in Seq(Events), NEW e \in Events,
         Len(d) = Len(c) + 1, d[Len(d)] = e, \A i \in 1 .. Len(c) : d[i] = c[i]
  PROVE  d = Append(c, e)
<1>1. /\ Append(c, e) \in Seq(Events)
      /\ Len(Append(c, e)) = Len(c) + 1
      /\ \A i \in 1 .. Len(c) : Append(c, e)[i] = c[i]
      /\ Append(c, e)[Len(c) + 1] = e
  BY AppendProperties
<1>2. Len(c) \in Nat
  BY LenProperties
<1>3. \A i \in 1 .. Len(d) : d[i] = Append(c, e)[i]
  BY <1>1, <1>2
<1> QED
  BY <1>1, <1>3, SeqEqual

LEMMA MarkedQueues ==
  ASSUME NEW r, IsRing(r), NEW e \in Events
  PROVE  /\ IsRing(PushMarked(r, e))
         /\ Content(PushMarked(r, e)) =
              IF Len(Content(r)) < Slots THEN Append(Content(r), e) ELSE <<e>>
<1> DEFINE slot == IF r.wr < 0 THEN r.rd ELSE r.wr
           w    == IF Following(slot) = r.rd THEN -1 ELSE Following(slot)
           s    == Put(r, slot, e, w)
           c    == Content(r)
           d    == Content(s)
<1>1. Slots \in Nat \ {0} /\ r.rd \in 0 .. Slots - 1 /\ r.wr \in -1 .. Slots - 1
  BY InputConstants DEF IsRing
<1>2. slot \in 0 .. Slots - 1 /\ w \in -1 .. Slots - 1
  BY <1>1 DEF Following
<1>3. PushMarked(r, e) = s
  BY <1>2, AfterIs DEF PushMarked, Put
<1>4. /\ IsRing(s)
      /\ s.rd = r.rd /\ s.wr = w
      /\ \A j \in 0 .. Slots - 1 : s.buf[j] = IF j = slot THEN e ELSE r.buf[j]
  <2> HIDE DEF slot, w
  <2> QED
    BY <1>2, Written
<1>5. s.rd = r.rd /\ s.wr = w
  BY <1>4
<1> HIDE DEF s
<1>6. /\ c \in Seq(Events) /\ Len(c) = Waiting(r) /\ Waiting(r) \in 0 .. Slots
      /\ \A i \in 1 .. Waiting(r) : At(r, i) \in 0 .. Slots - 1 /\ c[i] = r.buf[At(r, i)]
  BY ContentIs
<1>7. /\ d \in Seq(Events) /\ Len(d) = Waiting(s) /\ Waiting(s) \in 0 .. Slots
      /\ \A i \in 1 .. Waiting(s) : At(s, i) \in 0 .. Slots - 1 /\ d[i] = s.buf[At(s, i)]
  BY <1>4, ContentIs
<1> HIDE DEF c, d
<1>8. CASE r.wr # -1
  <2>1. slot = r.wr /\ w = IF Following(r.wr) = r.rd THEN -1 ELSE Following(r.wr)
    BY <1>1, <1>8
  <2> HIDE DEF slot, w
  <2>2. /\ Waiting(r) < Slots
        /\ Waiting(s) = Waiting(r) + 1
        /\ At(s, Waiting(s)) = slot
        /\ \A i \in 1 .. Waiting(r) : At(s, i) = At(r, i) /\ At(r, i) # slot
    BY <1>5, <1>8, <2>1, WrittenOne
  <2>3. d[Waiting(s)] = e
    BY <1>2, <1>4, <1>6, <1>7, <2>2
  <2>4. \A i \in 1 .. Waiting(r) : d[i] = c[i]
    BY <1>4, <1>6, <1>7, <2>2
  <2>5. d = Append(c, e)
    BY <1>6, <1>7, <2>2, <2>3, <2>4, Appended
  <2> QED
    BY <1>3, <1>4, <1>6, <2>2, <2>5 DEF c, d
<1>9. CASE r.wr = -1
  <2>1. slot = r.rd /\ Waiting(r) = Slots
    BY <1>1, <1>9 DEF Waiting
  <2>2. Waiting(s) = 1 /\ At(s, 1) = slot
    BY <1>1, <1>5, <2>1 DEF Waiting, At, Following
  <2> HIDE DEF slot, w
  <2>3. d[1] = e
    BY <1>2, <1>4, <1>7, <2>2
  <2>4. d = <<e>>
    BY <1>7, <2>2, <2>3
  <2> QED
    BY <1>1, <1>3, <1>4, <1>6, <2>1, <2>4 DEF c, d
<1> QED
  BY <1>8, <1>9

LEMMA PlainQueues ==
  ASSUME NEW r, IsRing(r), r.wr # -1, NEW e \in Events
  PROVE  /\ IsRing(PushPlain(r, e))
         /\ PushPlain(r, e).wr # -1
         /\ Content(PushPlain(r, e)) =
              IF Len(Content(r)) < Slots - 1 THEN Append(Content(r), e) ELSE <<>>
<1> DEFINE slot == r.wr
           w    == Following(r.wr)
           s    == Put(r, slot, e, w)
           c    == Content(r)
           d    == Content(s)
<1>1. Slots \in Nat \ {0} /\ r.rd \in 0 .. Slots - 1 /\ r.wr \in 0 .. Slots - 1
  BY InputConstants DEF IsRing
<1>2. slot \in 0 .. Slots - 1 /\ w \in 0 .. Slots - 1 /\ w \in -1 .. Slots - 1
  BY <1>1 DEF Following
<1>3. PushPlain(r, e) = s
  BY <1>2, AfterIs DEF PushPlain, Put
<1>4. /\ IsRing(s)
      /\ s.rd = r.rd /\ s.wr = w
      /\ \A j \in 0 .. Slots - 1 : s.buf[j] = IF j = slot THEN e ELSE r.buf[j]
  <2> HIDE DEF slot, w
  <2> QED
    BY <1>2, Written
<1>5. s.rd = r.rd /\ s.wr = w
  BY <1>4
<1> HIDE DEF s
<1>6. /\ c \in Seq(Events) /\ Len(c) = Waiting(r) /\ Waiting(r) \in 0 .. Slots
      /\ \A i \in 1 .. Waiting(r) : At(r, i) \in 0 .. Slots - 1 /\ c[i] = r.buf[At(r, i)]
  BY ContentIs
<1>7. /\ d \in Seq(Events) /\ Len(d) = Waiting(s) /\ Waiting(s) \in 0 .. Slots
      /\ \A i \in 1 .. Waiting(s) : At(s, i) \in 0 .. Slots - 1 /\ d[i] = s.buf[At(s, i)]
  BY <1>4, ContentIs
<1> HIDE DEF c, d
<1>8. CASE Waiting(r) < Slots - 1
  <2>1. /\ Waiting(s) = Waiting(r) + 1
        /\ At(s, Waiting(s)) = slot
        /\ \A i \in 1 .. Waiting(r) : At(s, i) = At(r, i) /\ At(r, i) # slot
    BY <1>5, <1>8, WrittenOne
  <2> HIDE DEF slot, w
  <2>2. d[Waiting(s)] = e
    BY <1>2, <1>4, <1>6, <1>7, <2>1
  <2>3. \A i \in 1 .. Waiting(r) : d[i] = c[i]
    BY <1>4, <1>6, <1>7, <2>1
  <2>4. d = Append(c, e)
    BY <1>6, <1>7, <2>1, <2>2, <2>3, Appended
  <2> QED
    BY <1>2, <1>3, <1>4, <1>6, <1>8, <2>4 DEF c, d
<1>9. CASE ~(Waiting(r) < Slots - 1)
  <2>1. Waiting(s) = 0
    BY <1>1, <1>5, <1>6, <1>9 DEF Waiting, Following
  <2>2. d = <<>>
    BY <1>7, <2>1
  <2> QED
    BY <1>1, <1>2, <1>3, <1>4, <1>6, <1>9, <2>2 DEF c, d
<1> QED
  BY <1>8, <1>9

LEMMA PullsHead ==
  ASSUME NEW r, IsRing(r), Readable(r)
  PROVE  /\ IsRing(Pull(r)) /\ Pull(r).wr # -1
         /\ Content(r) # <<>>
         /\ Oldest(r) = Head(Content(r))
         /\ Content(Pull(r)) = Tail(Content(r))
<1> DEFINE w == IF r.wr < 0 THEN r.rd ELSE r.wr
           s == Pull(r)
           c == Content(r)
           d == Content(s)
<1>1. Slots \in Nat \ {0} /\ r.rd \in 0 .. Slots - 1 /\ r.wr \in -1 .. Slots - 1
  BY InputConstants DEF IsRing
<1>2. r.rd # r.wr
  BY DEF Readable
<1>3. w \in 0 .. Slots - 1 /\ Following(r.rd) \in 0 .. Slots - 1
  BY <1>1 DEF Following
<1>4. s = [r EXCEPT !.buf[r.rd] = Blank, !.rd = Following(r.rd), !.wr = w]
  BY <1>1, AfterIs DEF Pull, IsRing
<1> HIDE DEF s
<1>5. /\ IsRing(s)
      /\ s.rd = Following(r.rd) /\ s.wr = w
      /\ \A j \in 0 .. Slots - 1 : s.buf[j] = IF j = r.rd THEN Blank ELSE r.buf[j]
  <2> DEFINE nx == Following(r.rd)
  <2>1. Blank \in Events /\ nx \in 0 .. Slots - 1
    BY <1>3 DEF Events
  <2>2. s = [r EXCEPT !.buf[r.rd] = Blank, !.rd = nx, !.wr = w]
    BY <1>4
  <2> HIDE DEF w, nx
  <2>3. w \in -1 .. Slots - 1
    BY <1>1, <1>3
  <2>4. IsRing(s) /\ s.rd = nx /\ s.wr = w
    BY <1>1, <2>1, <2>2, <2>3 DEF IsRing
  <2>5. \A j \in 0 .. Slots - 1 : s.buf[j] = IF j = r.rd THEN Blank ELSE r.buf[j]
    BY <1>1, <2>1, <2>2, <2>3 DEF IsRing
  <2> QED
    BY <2>4, <2>5 DEF nx
<1>6. /\ c \in Seq(Events) /\ Len(c) = Waiting(r) /\ Waiting(r) \in 0 .. Slots
      /\ \A i \in 1 .. Waiting(r) : At(r, i) \in 0 .. Slots - 1 /\ c[i] = r.buf[At(r, i)]
  BY ContentIs
<1>7. /\ d \in Seq(Events) /\ Len(d) = Waiting(s) /\ Waiting(s) \in 0 .. Slots
      /\ \A i \in 1 .. Waiting(s) : At(s, i) \in 0 .. Slots - 1 /\ d[i] = s.buf[At(s, i)]
  BY <1>5, ContentIs
<1> HIDE DEF c, d
<1>8. Waiting(r) >= 1 /\ Waiting(s) = Waiting(r) - 1
  BY <1>1, <1>2, <1>5 DEF Waiting, Following
<1>9. At(r, 1) = r.rd
  BY <1>1 DEF At
<1>10. \A i \in 1 .. Waiting(s) : At(s, i) = At(r, i + 1) /\ At(r, i + 1) # r.rd
  <2> SUFFICES ASSUME NEW i \in 1 .. Waiting(s)
               PROVE  At(s, i) = At(r, i + 1) /\ At(r, i + 1) # r.rd
    OBVIOUS
  <2>1. i \in Nat \ {0} /\ i + 1 <= Slots
    BY <1>1, <1>6, <1>7, <1>8
  <2>2. s.rd = IF r.rd + 1 = Slots THEN 0 ELSE r.rd + 1
    BY <1>5 DEF Following
  <2> QED
    BY <1>1, <2>1, <2>2 DEF At
<1> HIDE DEF w
<1>11. c # <<>> /\ Head(c) = Oldest(r)
  BY <1>6, <1>8, <1>9 DEF Oldest
<1>12. /\ Tail(c) \in Seq(Events) /\ Len(Tail(c)) = Len(c) - 1
       /\ \A i \in 1 .. Len(Tail(c)) : Tail(c)[i] = c[i + 1]
  BY <1>6, <1>11, HeadTailProperties
<1>13. \A i \in 1 .. Len(d) : d[i] = Tail(c)[i]
  BY <1>5, <1>6, <1>7, <1>8, <1>10, <1>12
<1>14. d = Tail(c)
  BY <1>6, <1>7, <1>8, <1>12, <1>13, SeqEqual
<1>15. Pull(r) = s /\ s.wr # -1
  BY <1>1, <1>3, <1>5 DEF s
<1> QED
  BY <1>5, <1>11, <1>14, <1>15 DEF c, d

-----------------------------------------------------------------------------
(* A handler writes no event, one or two.                                  *)
Few(es) == DOMAIN es \in {{}, {1}, {1, 2}}

LEMMA MaxIs == Max({1}) = 1 /\ Max({2}) = 2 /\ Max({1, 2}) = 2
<1>1. ASSUME NEW S \in SUBSET Int, NEW m \in S, \A y \in S : m >= y
      PROVE  Max(S) = m
  <2> DEFINE Greatest(x) == x \in S /\ \A y \in S : x >= y
             M == Max(S)
  <2>1. M = CHOOSE x : Greatest(x)
    BY DEF Max
  <2>2. Greatest(m)
    BY <1>1
  <2>3. Greatest(M)
    BY <2>1, <2>2
  <2> HIDE DEF M
  <2>4. M \in Int /\ m \in Int /\ M >= m /\ m >= M
    BY <1>1, <2>3
  <2>5. M = m
    BY <2>4
  <2> QED
    BY <2>5 DEF M
<1>2. Max({1}) = 1
  BY <1>1
<1>3. Max({2}) = 2
  BY <1>1
<1>4. Max({1, 2}) = 2
  BY <1>1
<1> QED
  BY <1>2, <1>3, <1>4

LEMMA Slices ==
  /\ {1} \ {1} = {} /\ {2} \ {2} = {} /\ {1, 2} \ {2} = {1}
  /\ {1} # {} /\ {2} # {} /\ {1, 2} # {} /\ {1} # {2} /\ {1} # {1, 2} /\ {2} # {1, 2}
  /\ \A s \in SUBSET {1, 2} : s \in {{}, {1}, {2}, {1, 2}}
<1>1. \A s \in SUBSET {1, 2} : s \in {{}, {1}, {2}, {1, 2}}
  OBVIOUS
<1>2. {1} \ {1} = {} /\ {2} \ {2} = {} /\ {1, 2} \ {2} = {1}
  OBVIOUS
<1>3. {1} # {} /\ {2} # {} /\ {1, 2} # {} /\ {1} # {2} /\ {1} # {1, 2} /\ {2} # {1, 2}
  OBVIOUS
<1> QED
  BY <1>1, <1>2, <1>3

LEMMA PushFew ==
  ASSUME NEW r, NEW es, Few(es)
  PROVE  FoldLeft(Push, r, es) =
           IF DOMAIN es = {} THEN r
           ELSE IF DOMAIN es = {1} THEN Push(r, es[1])
           ELSE Push(Push(r, es[1]), es[2])
<1> DEFINE
      D == DOMAIN es
      Body(g) == [s \in SUBSET D |->
                    IF s = {} THEN r ELSE Push(g[s \ {Max(s)}], es[Max(s)])]
      it == CHOOSE g : g = Body(g)
      g0 == [s \in SUBSET D |->
               IF s = {} THEN r ELSE IF s = {1} THEN Push(r, es[1])
               ELSE IF s = {2} THEN Push(r, es[2])
               ELSE Push(Push(r, es[1]), es[2])]
<1>1. FoldLeft(Push, r, es) = it[D]
  BY DEF FoldLeft, MapThenFoldSet
<1>2. D \in {{}, {1}, {1, 2}}
  BY DEF Few
<1>3. \A s \in SUBSET D : s \in {{}, {1}, {2}, {1, 2}}
  BY <1>2, Slices
<1> HIDE DEF D
<1>4. \E g : g = Body(g)
  <2>1. ASSUME NEW s \in SUBSET D PROVE g0[s] = Body(g0)[s]
    <3>1. CASE s = {}
      BY <3>1
    <3>2. CASE s = {1}
      BY <3>2, MaxIs, Slices
    <3>3. CASE s = {2}
      BY <3>3, MaxIs, Slices
    <3>4. CASE s = {1, 2}
      <4>1. D = {1, 2} /\ {1} \in SUBSET D
        BY <1>2, <3>4
      <4> QED
        BY <3>4, <4>1, MaxIs, Slices
    <3> QED
      BY <1>3, <2>1, <3>1, <3>2, <3>3, <3>4
  <2>2. g0 = Body(g0)
    BY <2>1
  <2> HIDE DEF g0
  <2> QED
    BY <2>2
<1>5. it = Body(it)
  BY <1>4
<1> HIDE DEF it
<1>6. it[{}] = r
  BY <1>5
<1>7. {1} \in SUBSET D => it[{1}] = Push(r, es[1])
  BY <1>5, <1>6, MaxIs, Slices
<1>8. D = {1, 2} => it[D] = Push(Push(r, es[1]), es[2])
  <2> SUFFICES ASSUME D = {1, 2} PROVE it[D] = Push(Push(r, es[1]), es[2])
    OBVIOUS
  <2>1. {1} \in SUBSET D /\ {1, 2} \in SUBSET D
    OBVIOUS
  <2> QED
    BY <1>5, <1>7, <2>1, MaxIs, Slices
<1>9. it[D] = IF D = {} THEN r ELSE IF D = {1} THEN Push(r, es[1])
              ELSE Push(Push(r, es[1]), es[2])
  BY <1>2, <1>6, <1>7, <1>8, Slices
<1> QED
  BY <1>1, <1>9 DEF D

LEMMA QueueMaxIs ==
  Queue!Max({1}) = 1 /\ Queue!Max({2}) = 2 /\ Queue!Max({1, 2}) = 2
<1>1. \A S : Queue!Max(S) = Max(S)
  BY DEF Queue!Max, Max
<1> QED
  BY <1>1, MaxIs

LEMMA QueuedFew ==
  ASSUME NEW q, NEW es, Few(es)
  PROVE  Queue!FoldLeft(Queue!Queued, q, es) =
           IF DOMAIN es = {} THEN q
           ELSE IF DOMAIN es = {1} THEN Queue!Queued(q, es[1])
           ELSE Queue!Queued(Queue!Queued(q, es[1]), es[2])
<1> DEFINE
      D == DOMAIN es
      Body(g) == [s \in SUBSET D |->
                    IF s = {} THEN q ELSE Queue!Queued(g[s \ {Queue!Max(s)}], es[Queue!Max(s)])]
      it == CHOOSE g : g = Body(g)
      g0 == [s \in SUBSET D |->
               IF s = {} THEN q ELSE IF s = {1} THEN Queue!Queued(q, es[1])
               ELSE IF s = {2} THEN Queue!Queued(q, es[2])
               ELSE Queue!Queued(Queue!Queued(q, es[1]), es[2])]
<1>1. Queue!FoldLeft(Queue!Queued, q, es) = it[D]
  BY DEF Queue!FoldLeft, Queue!MapThenFoldSet
<1>2. D \in {{}, {1}, {1, 2}}
  BY DEF Few
<1>3. \A s \in SUBSET D : s \in {{}, {1}, {2}, {1, 2}}
  BY <1>2, Slices
<1> HIDE DEF D
<1>4. \E g : g = Body(g)
  <2>1. ASSUME NEW s \in SUBSET D PROVE g0[s] = Body(g0)[s]
    <3>1. CASE s = {}
      BY <3>1
    <3>2. CASE s = {1}
      BY <3>2, QueueMaxIs, Slices
    <3>3. CASE s = {2}
      BY <3>3, QueueMaxIs, Slices
    <3>4. CASE s = {1, 2}
      <4>1. D = {1, 2} /\ {1} \in SUBSET D
        BY <1>2, <3>4
      <4> QED
        BY <3>4, <4>1, QueueMaxIs, Slices
    <3> QED
      BY <1>3, <2>1, <3>1, <3>2, <3>3, <3>4
  <2>2. g0 = Body(g0)
    BY <2>1
  <2> HIDE DEF g0
  <2> QED
    BY <2>2
<1>5. it = Body(it)
  BY <1>4
<1> HIDE DEF it
<1>6. it[{}] = q
  BY <1>5
<1>7. {1} \in SUBSET D => it[{1}] = Queue!Queued(q, es[1])
  <2> SUFFICES ASSUME {1} \in SUBSET D PROVE it[{1}] = Queue!Queued(q, es[1])
    OBVIOUS
  <2>1. it[{1}] = IF {1} = {} THEN q
                  ELSE Queue!Queued(it[{1} \ {Queue!Max({1})}], es[Queue!Max({1})])
    BY <1>5
  <2> QED
    BY <1>6, <2>1, QueueMaxIs, Slices
<1>8. D = {1, 2} => it[D] = Queue!Queued(Queue!Queued(q, es[1]), es[2])
  <2> SUFFICES ASSUME D = {1, 2} PROVE it[D] = Queue!Queued(Queue!Queued(q, es[1]), es[2])
    OBVIOUS
  <2>1. {1} \in SUBSET D /\ {1, 2} \in SUBSET D
    OBVIOUS
  <2> QED
    BY <1>5, <1>7, <2>1, QueueMaxIs, Slices
<1>9. it[D] = IF D = {} THEN q ELSE IF D = {1} THEN Queue!Queued(q, es[1])
              ELSE Queue!Queued(Queue!Queued(q, es[1]), es[2])
  BY <1>2, <1>6, <1>7, <1>8, Slices
<1> QED
  BY <1>1, <1>9 DEF D

-----------------------------------------------------------------------------
(* The ring that is followed is sound, and its index never says "full" if  *)
(* it has no mark.  Intuition's copy of the buttons has only buttons that  *)
(* the guest knows.                                                        *)
RingInv ==
  /\ follow \in Rings
  /\ IsRing(ring)
  /\ follow = "mouse" => ring.wr # -1
  /\ buttons \subseteq Buttons

QueueStep == [Queue!Next]_<<Content(ring), taken, follow # "mouse">>

LEMMA BatchesAreFew ==
  ASSUME NEW es \in RingBatches
  PROVE  Few(es) /\ \A i \in DOMAIN es : es[i] \in Events
<1>1. Few(es)
  <2>1. es = <<>> \/ (\E e : es = <<e>>) \/ (\E f : es = <<Moved, f>>)
    BY DEF RingBatches
  <2> QED
    BY <2>1 DEF Few
<1>2. \A i \in DOMAIN es : es[i] \in Events
  BY DEF Events
<1> QED
  BY <1>1, <1>2

LEMMA PushQueues ==
  ASSUME NEW r, IsRing(r), follow = "mouse" => r.wr # -1, NEW e \in Events
  PROVE  /\ IsRing(Push(r, e))
         /\ follow = "mouse" => Push(r, e).wr # -1
         /\ Content(Push(r, e)) = Queue!Queued(Content(r), e)
<1>1. CASE follow = "mouse"
  BY <1>1, PlainQueues DEF Push, Queue!Queued, Queue!Room
<1>2. CASE follow # "mouse"
  BY <1>2, MarkedQueues DEF Push, Queue!Queued, Queue!Room
<1> QED
  BY <1>1, <1>2

LEMMA Posted ==
  ASSUME RingInv, NEW es \in RingBatches, ring' = FoldLeft(Push, ring, es),
         taken' = Blank, follow' = follow, buttons' \subseteq Buttons
  PROVE  RingInv' /\ QueueStep
<1> DEFINE r1 == Push(ring, es[1])
           r2 == Push(r1, es[2])
           c  == Content(ring)
<1>1. Few(es) /\ \A i \in DOMAIN es : es[i] \in Events
  BY BatchesAreFew
<1>2. IsRing(ring) /\ (follow = "mouse" => ring.wr # -1)
  BY DEF RingInv
<1>3. 1 \in DOMAIN es =>
        /\ IsRing(r1) /\ (follow = "mouse" => r1.wr # -1)
        /\ Content(r1) = Queue!Queued(c, es[1])
  BY <1>1, <1>2, PushQueues
<1> HIDE DEF r1
<1>4. 1 \in DOMAIN es /\ 2 \in DOMAIN es =>
        /\ IsRing(r2) /\ (follow = "mouse" => r2.wr # -1)
        /\ Content(r2) = Queue!Queued(Queue!Queued(c, es[1]), es[2])
  BY <1>1, <1>3, PushQueues
<1>5. /\ ring' = IF DOMAIN es = {} THEN ring ELSE IF DOMAIN es = {1} THEN r1 ELSE r2
      /\ Queue!FoldLeft(Queue!Queued, c, es) =
           IF DOMAIN es = {} THEN c
           ELSE IF DOMAIN es = {1} THEN Queue!Queued(c, es[1])
           ELSE Queue!Queued(Queue!Queued(c, es[1]), es[2])
  BY <1>1, PushFew, QueuedFew DEF r1
<1>6. DOMAIN es = {} \/ (DOMAIN es = {1} /\ 1 \in DOMAIN es)
      \/ (DOMAIN es = {1, 2} /\ 1 \in DOMAIN es /\ 2 \in DOMAIN es)
  BY <1>1 DEF Few
<1> HIDE DEF r2, c
<1>7. /\ IsRing(ring') /\ (follow = "mouse" => ring'.wr # -1)
      /\ Content(ring') = Queue!FoldLeft(Queue!Queued, c, es)
  BY <1>2, <1>3, <1>4, <1>5, <1>6, Slices DEF c
<1>8. RingInv'
  BY <1>7 DEF RingInv
<1>9. Queue!Write(es)
  BY <1>7 DEF Queue!Write, Queue!None, Blank, c
<1>10. QueueStep
  BY <1>9 DEF QueueStep, Queue!Next
<1> QED
  BY <1>8, <1>10

LEMMA SendsABatch ==
  ASSUME follow \in Rings, NEW a \in RingBatches, NEW b \in RingBatches,
         NEW c \in RingBatches
  PROVE  Sends(a, b, c)[follow] \in RingBatches
<1>1. <<>> \in RingBatches
  BY DEF RingBatches
<1>2. follow \in {"intuition", "keyboard", "mouse", "none"}
  BY InputConstants
<1> QED
  BY <1>1, <1>2 DEF Sends

LEMMA PostRefines ==
  ASSUME RingInv, NEW a \in RingBatches, NEW b \in RingBatches,
         NEW c \in RingBatches, Post(Sends(a, b, c)), buttons' \subseteq Buttons
  PROVE  RingInv' /\ QueueStep
<1>1. Sends(a, b, c)[follow] \in RingBatches
  BY SendsABatch DEF RingInv
<1> QED
  BY <1>1, Posted DEF Post

LEMMA RestRefines ==
  ASSUME RingInv, UNCHANGED ringVars, buttons' \subseteq Buttons
  PROVE  RingInv' /\ QueueStep
  BY DEF RingInv, ringVars, QueueStep

LEMMA ForwardRefines ==
  ASSUME RingInv, NEW k \in Keys, NEW down \in BOOLEAN, Forward(EKey(k), down),
         buttons' = buttons
  PROVE  RingInv' /\ QueueStep
<1>1. <<>> \in RingBatches /\ <<KeyEvent(EKey(k), down)>> \in RingBatches
  BY DEF RingBatches
<1>2. buttons' \subseteq Buttons
  BY DEF RingInv
<1> QED
  BY <1>1, <1>2, PostRefines DEF Forward

LEMMA TakeRefines == ASSUME RingInv, TakeEvent PROVE RingInv' /\ QueueStep
<1>1. IsRing(ring) /\ Readable(ring) /\ ring' = Pull(ring) /\ taken' = Oldest(ring)
  BY DEF RingInv, TakeEvent
<1>2. /\ IsRing(ring') /\ ring'.wr # -1
      /\ Content(ring) # <<>>
      /\ taken' = Head(Content(ring))
      /\ Content(ring') = Tail(Content(ring))
  BY <1>1, PullsHead
<1>3. RingInv'
  BY <1>2 DEF RingInv, TakeEvent
<1>4. Queue!Read /\ follow' = follow
  BY <1>2 DEF Queue!Read, TakeEvent
<1> QED
  BY <1>3, <1>4 DEF QueueStep, Queue!Next

LEMMA MouseRefines == ASSUME RingInv, Mouse PROVE RingInv' /\ QueueStep
<1>1. <<>> \in RingBatches /\ <<Moved>> \in RingBatches
  BY DEF RingBatches
<1>2. CASE MouseMove
  BY <1>1, <1>2, PostRefines DEF MouseMove, RingInv
<1>3. ASSUME NEW b, NEW down \in BOOLEAN, MouseButton(b, down)
      PROVE  RingInv' /\ QueueStep
  <2> DEFINE now   == IF down THEN buttons \cup ({b} \cap Buttons) ELSE buttons \ {b}
             first == IF now = buttons THEN <<Moved>> ELSE <<Moved, Edge(b, down)>>
  <2>1. now \subseteq Buttons
    BY DEF RingInv
  <2>2. now # buttons => b \in Buttons
    BY DEF RingInv
  <2>3. buttons' = now /\ Post(Sends(first, <<>>, <<Moved, Mask(now)>>))
    BY <1>3 DEF MouseButton
  <2> HIDE DEF now
  <2>4. <<Moved, Mask(now)>> \in RingBatches
    BY <2>1 DEF RingBatches
  <2>5. first \in RingBatches
    BY <1>1, <1>3, <2>2 DEF RingBatches
  <2> HIDE DEF first
  <2> QED
    BY <1>1, <2>1, <2>3, <2>4, <2>5, PostRefines
<1> QED
  BY <1>2, <1>3 DEF Mouse

LEMMA KeyboardRefines == ASSUME RingInv, Keyboard PROVE RingInv' /\ QueueStep
<1>1. ASSUME NEW k \in Keys, NEW repeat \in BOOLEAN, KeyDown(k, repeat)
      PROVE  RingInv' /\ QueueStep
  <2>1. buttons' = buttons /\ buttons' \subseteq Buttons
    BY <1>1 DEF KeyDown, RingInv
  <2>2. CASE MakesChord(k, repeat)
    BY <1>1, <2>1, <2>2, RestRefines DEF KeyDown, Chord
  <2>3. CASE ~MakesChord(k, repeat)
    BY <1>1, <2>1, <2>3, ForwardRefines DEF KeyDown
  <2> QED
    BY <2>2, <2>3
<1>2. ASSUME NEW k \in Keys, KeyUp(k) PROVE RingInv' /\ QueueStep
  <2>1. buttons' = buttons /\ buttons' \subseteq Buttons
    BY <1>2 DEF KeyUp, RingInv
  <2>2. CASE ChordOf[k] \in swallow
    BY <1>2, <2>1, <2>2, RestRefines DEF KeyUp
  <2>3. CASE ChordOf[k] \notin swallow
    BY <1>2, <2>1, <2>3, ForwardRefines DEF KeyUp
  <2> QED
    BY <2>2, <2>3
<1>3. CASE FocusLost
  <2>1. <<>> \in RingBatches /\ <<Mask({})>> \in RingBatches
    BY DEF RingBatches
  <2>2. buttons' \subseteq Buttons /\ Post(Sends(<<>>, <<>>, <<Mask({})>>))
    BY <1>3 DEF FocusLost
  <2> QED
    BY <2>1, <2>2, PostRefines
<1> QED
  BY <1>1, <1>2, <1>3 DEF Keyboard

LEMMA RingStep ==
  ASSUME RingInv, [InputNext]_inputVars
  PROVE  RingInv' /\ QueueStep
<1>1. ASSUME NEW c, Served(c) PROVE RingInv' /\ QueueStep
  BY <1>1, RestRefines DEF Served, RingInv
<1>2. CASE UNCHANGED inputVars
  BY <1>2, RestRefines DEF inputVars, RingInv
<1> QED
  BY <1>1, <1>2, KeyboardRefines, MouseRefines, TakeRefines DEF InputNext

LEMMA RingStart == InputInit => RingInv /\ Queue!Init
<1> SUFFICES ASSUME InputInit PROVE RingInv /\ Queue!Init
  OBVIOUS
<1>1. Slots \in Nat \ {0} /\ Blank \in Events
  BY InputConstants DEF Events
<1>2. /\ follow \in Rings /\ buttons = {} /\ taken = Blank
      /\ ring = [buf |-> [i \in 0 .. Slots - 1 |-> Blank], rd |-> 0, wr |-> 0]
  BY DEF InputInit, NewRing
<1>3. IsRing(ring) /\ ring.wr # -1 /\ Waiting(ring) = 0
  BY <1>1, <1>2 DEF IsRing, Waiting
<1>4. Content(ring) \in Seq(Events) /\ Len(Content(ring)) = 0
  BY <1>3, ContentIs
<1>5. Content(ring) = <<>>
  BY <1>4
<1> QED
  BY <1>2, <1>3, <1>5 DEF RingInv, Queue!Init, Queue!None, Blank

(* Each ring in guest memory, of any size and wherever its indexes are, is *)
(* a queue of what the handlers write: nothing is lost, doubled or put out *)
(* of order unless it was full (push_intuition_event, mouse_event_move,    *)
(* mouse_event_buttons and the guest that reads).                          *)
THEOREM RingsRefineQueues == InputSpec => RingsAreQueues
<1>1. InputInit => RingInv /\ Queue!Init
  BY RingStart
<1>2. RingInv /\ [InputNext]_inputVars
        => RingInv' /\ [Queue!Next]_<<Content(ring), taken, follow # "mouse">>
  BY RingStep DEF QueueStep
<1> QED
  BY <1>1, <1>2, PTL DEF InputSpec, RingsAreQueues, Queue!Spec

-----------------------------------------------------------------------------
(* The window, the screen and the movies.                                  *)

(* A texture that there is fits the framebuffer, and so do the target, the *)
(* logical size and the window; filter and scale are what crisp_ asks for. *)
Fitting ==
  /\ tex = [size |-> mode, filter |-> Filter(crisp)]
  /\ logical = mode
  /\ sharp => target = mode
  /\ whole <=> (crisp /\ ~sharp)
  /\ ~full => winSize = mode

WindowInv ==
  /\ crisp \in BOOLEAN /\ sharp \in BOOLEAN /\ full \in BOOLEAN
  /\ whole \in BOOLEAN /\ win \in BOOLEAN
  /\ win /\ tex # NoTex => Fitting

ScreenInv == WindowInv /\ gd = mode
-----------------------------------------------------------------------------
(* The window.                                                             *)

LEMMA InitWindow == VideoInit => WindowInv
BY DEF VideoInit, WindowInv

LEMMA SameWindow ==
  ASSUME WindowInv, UNCHANGED videoVars
  PROVE  WindowInv'
BY DEF WindowInv, Fitting, Filter, NoTex, videoVars

LEMMA OpenWindow ==
  ASSUME NEW m, WindowInv, Open(m)
  PROVE  WindowInv' /\ (mode' = mode \/ (win' /\ mode' = m))
<1>1. CASE UNCHANGED videoVars
  BY <1>1, SameWindow DEF videoVars
<1>2. CASE TextureFails(m)
  BY <1>2 DEF TextureFails, Window, WindowInv, NoTex
<1>3. CASE TextureMade(m)
  <2>1. /\ sharp' \in BOOLEAN /\ (sharp' => target' = m)
    BY <1>3 DEF TextureMade, RebuildTarget
  <2>2. /\ win' = TRUE /\ full' \in BOOLEAN /\ logical' = m
        /\ ~full' => winSize' = m
    BY <1>3 DEF TextureMade, Window
  <2>3. /\ crisp' = crisp /\ mode' = m
        /\ tex' = [size |-> m, filter |-> Filter(crisp)]
        /\ whole' = (crisp' /\ ~sharp')
    BY <1>3 DEF TextureMade
  <2>4. Fitting'
    BY <2>1, <2>2, <2>3 DEF Fitting, Filter
  <2> QED
    BY <2>1, <2>2, <2>3, <2>4 DEF WindowInv
<1> QED
  BY <1>1, <1>2, <1>3 DEF Open

LEMMA CrispWindow ==
  ASSUME NEW on \in BOOLEAN, WindowInv, SetCrisp(on)
  PROVE  WindowInv' /\ mode' = mode
<1>1. CASE on = crisp \/ ~win
  BY <1>1 DEF SetCrisp, WindowInv, Fitting, Filter, NoTex
<1>2. CASE on # crisp /\ win /\ tex = NoTex
  BY <1>2 DEF SetCrisp, WindowInv, NoTex
<1>3. CASE on # crisp /\ win /\ tex # NoTex
  <2>1. Fitting
    BY <1>3 DEF WindowInv
  <2>2. tex' = [size |-> mode, filter |-> Filter(on)]
    BY <1>3, <2>1 DEF SetCrisp, Fitting
  <2>3. crisp' = on /\ whole' = (on /\ ~sharp)
    BY <1>3 DEF SetCrisp
  <2>4. UNCHANGED <<win, mode, target, sharp, full, logical, winSize>>
    BY DEF SetCrisp
  <2>5. Fitting'
    BY <2>1, <2>2, <2>3, <2>4 DEF Fitting, Filter
  <2> QED
    BY <2>3, <2>4, <2>5 DEF WindowInv
<1> QED
  BY <1>1, <1>2, <1>3 DEF WindowInv

LEMMA ToggledWindow ==
  ASSUME WindowInv, Toggle
  PROVE  WindowInv' /\ mode' = mode
<1>1. CASE UNCHANGED videoVars
  BY <1>1, SameWindow DEF videoVars
<1>2. CASE ~UNCHANGED videoVars
  <2>1. /\ full' = ~full /\ logical' = mode
        /\ winSize' = IF full' THEN NoMode ELSE mode
        /\ UNCHANGED <<win, mode, tex, target, sharp, crisp, whole>>
    BY <1>2 DEF Toggle
  <2>2. full' \in BOOLEAN
    BY <2>1
  <2>3. Fitting => Fitting'
    BY <2>1, <2>2 DEF Fitting, Filter
  <2> QED
    BY <2>1, <2>2, <2>3 DEF WindowInv, NoTex
<1> QED
  BY <1>1, <1>2

(* The device is made with the window.                                     *)
LEMMA OpenDisplayInv ==
  ASSUME NEW m, ScreenInv, OpenDisplay(m)
  PROVE  ScreenInv'
<1>1. WindowInv' /\ (mode' = mode \/ (win' /\ mode' = m))
  BY OpenWindow DEF ScreenInv, OpenDisplay
<1>2. gd' = IF win' /\ mode' = m THEN m ELSE gd
  BY DEF OpenDisplay
<1> QED
  BY <1>1, <1>2 DEF ScreenInv

LEMMA Same ==
  ASSUME ScreenInv, UNCHANGED videoVars, gd' = gd
  PROVE  ScreenInv'
BY SameWindow DEF ScreenInv, videoVars
-----------------------------------------------------------------------------
LEMMA ScreenStep == ScreenInv /\ [ScreenNext]_screenVars => ScreenInv'
<1> SUFFICES ASSUME ScreenInv, [ScreenNext]_screenVars PROVE ScreenInv'
  OBVIOUS
<1>1. CASE OpenGame
  BY <1>1, OpenDisplayInv DEF OpenGame
<1>2. CASE ToMovie
  BY <1>2, OpenDisplayInv DEF ToMovie, EnterMovie
<1>3. CASE MovieStep
  <2>1. CASE SmpegNew \/ StartPlay \/ NoFrame \/ Status \/ PollKey
    BY <2>1, Same DEF SmpegNew, StartPlay, NoFrame, Status, PollKey
  <2>2. CASE ShowFrame
    <3>1. CASE win
      BY <2>2, <3>1, CrispWindow DEF ShowFrame, ScreenInv
    <3>2. CASE ~win
      BY <2>2, <3>2, Same DEF ShowFrame
    <3> QED
      BY <3>1, <3>2
  <2>3. CASE SmpegDelete
    BY <2>3, CrispWindow DEF SmpegDelete, ScreenInv
  <2> QED
    BY <1>3, <2>1, <2>2, <2>3 DEF MovieStep
<1>4. CASE GuestFrame
  <2>1. CASE Draw \/ BeforeSwap \/ AfterSwap
    BY <2>1, Same DEF Draw, BeforeSwap, AfterSwap, sceneVars, movieVars
  <2>2. CASE Present
    <3>1. UNCHANGED videoVars
      BY <2>2 DEF Present, Resized, ScreenInv
    <3> QED
      BY <2>2, <3>1, Same DEF Present, movieVars
  <2> QED
    BY <1>4, <2>1, <2>2 DEF GuestFrame
<1>5. CASE TickInSleep
  BY <1>5, Same DEF TickInSleep, Erase, Repaint, SleepGoesOn, sceneVars,
                    movieVars
<1>6. CASE Player
  <2>1. ASSUME NEW k \in Keys, Key(k)
        PROVE  ScreenInv'
    <3>1. gd' = gd /\ (Toggle \/ UNCHANGED videoVars)
      BY <2>1 DEF Key, movieVars
    <3> QED
      BY <3>1, ToggledWindow, Same DEF ScreenInv
  <2>2. CASE Move
    BY <2>2, Same DEF Move, sceneVars, movieVars
  <2> QED
    BY <1>6, <2>1, <2>2 DEF Player
<1>7. CASE Tick
  BY <1>7, Same DEF Tick
<1>8. CASE UNCHANGED screenVars
  BY <1>8, Same DEF screenVars, sceneVars, movieVars
<1> QED
  BY <1>1, <1>2, <1>3, <1>4, <1>5, <1>6, <1>7, <1>8 DEF ScreenNext

LEMMA ScreenInvPaints == ScreenInv => PaintsWhatIsPresented
<1> SUFFICES ASSUME ScreenInv PROVE Presents
  BY DEF ScreenInv, PaintsWhatIsPresented
<1> SUFFICES ASSUME win, tex # NoTex
             PROVE  /\ {Presented.rows, Presented.into, Presented.via,
                        Presented.fit} = {mode}
                    /\ <<Presented.filter, Presented.scale>> \in
                         IF crisp
                         THEN { << <<"nearest">>, "whole">>,
                                << <<"nearest", "linear">>, "any">> }
                         ELSE { << <<"linear">>, "any">> }
                    /\ ~full => winSize = mode
  BY DEF Presents
<1>1. Fitting /\ crisp \in BOOLEAN /\ sharp \in BOOLEAN
  BY DEF ScreenInv, WindowInv
<1>2. /\ Presented.rows = mode /\ Presented.into = mode
      /\ Presented.via = mode /\ Presented.fit = mode
  BY <1>1 DEF Presented, Fitting
<1>3. tex.filter = IF crisp THEN "nearest" ELSE "linear"
  BY <1>1 DEF Fitting, Filter
<1>4. Presented.scale = IF crisp /\ ~sharp THEN "whole" ELSE "any"
  BY <1>1 DEF Presented, Fitting
<1>5. Presented.filter = IF sharp /\ crisp THEN <<tex.filter, "linear">>
                                           ELSE <<tex.filter>>
  BY DEF Presented
<1> QED
  BY <1>1, <1>2, <1>3, <1>4, <1>5 DEF Fitting

(* Whatever the modes, and however mode switches, movies, full screen and  *)
(* failures to get a texture or a target alternate: what is presented is   *)
(* presented in the sizes of the framebuffer, with the filter and the      *)
(* scale for what is shown, and the guest paints with a device of that     *)
(* size.                                                                   *)
THEOREM PaintsRight == ScreenSpec => []PaintsWhatIsPresented
<1>1. ScreenInit => ScreenInv
  BY InitWindow DEF ScreenInit, ScreenInv, VideoInit
<1> QED
  BY <1>1, ScreenStep, ScreenInvPaints, PTL DEF ScreenSpec
-----------------------------------------------------------------------------
(* What a movie leaves behind.                                             *)

Quiet == playing = FALSE /\ mailbox = FALSE

(* The mailbox is filled while the guest has been told that a movie plays, *)
(* which is between the first status and the delete.                       *)
MovieInv ==
  /\ mailbox \in BOOLEAN /\ playing \in BOOLEAN /\ leaked = FALSE
  /\ scene \in {"menu", "set", "opened"} => Quiet /\ crisp
  /\ stage \notin {"opened", "rest"} => scene = "menu"

LEMMA MovieKept ==
  ASSUME MovieInv,
         UNCHANGED <<mailbox, playing, leaked, scene, crisp, stage>>
  PROVE  MovieInv'
BY DEF MovieInv, Quiet

(* A key fills the mailbox of a movie that plays.                          *)
LEMMA KeyIsQuiet ==
  ASSUME NEW k \in Keys, MovieInv,
         KeyUp(k) \/ \E repeat \in BOOLEAN : KeyDown(k, repeat)
  PROVE  /\ playing' = playing /\ mailbox' \in BOOLEAN
         /\ Quiet => Quiet'
BY DEF MovieInv, Quiet, KeyUp, KeyDown, Forward, Chord

LEMMA MovieInvStep == MovieInv /\ [ScreenNext]_screenVars => MovieInv'
<1> SUFFICES ASSUME MovieInv, [ScreenNext]_screenVars PROVE MovieInv'
  OBVIOUS
<1>1. ASSUME NEW m, Open(m)
      PROVE  crisp' = crisp
  BY <1>1 DEF Open, TextureFails, TextureMade, videoVars
<1>2. CASE OpenGame
  <2>1. crisp' = crisp
    BY <1>1, <1>2 DEF OpenGame, OpenDisplay
  <2> QED
    BY <1>2, <2>1 DEF OpenGame, inputVars, MovieInv, Quiet
<1>3. CASE ToMovie
  <2>1. crisp' = crisp
    BY <1>1, <1>3 DEF ToMovie, EnterMovie, OpenDisplay
  <2> QED
    BY <1>3, <2>1 DEF ToMovie, EnterMovie, inputVars, MovieInv, Quiet
<1>4. CASE MovieStep
  <2>1. UNCHANGED <<leaked, stage>>
    BY <1>4 DEF MovieStep, pointerVars
  <2>2. CASE SmpegNew
    BY <2>1, <2>2 DEF SmpegNew, inputVars, videoVars, MovieInv, Quiet
  <2>3. CASE StartPlay
    BY <2>1, <2>3 DEF StartPlay, inputVars, videoVars, MovieInv, Quiet
  <2>4. CASE ShowFrame
    BY <2>1, <2>4 DEF ShowFrame, inputVars, MovieInv, Quiet
  <2>5. CASE NoFrame
    BY <2>1, <2>5 DEF NoFrame, inputVars, videoVars, MovieInv, Quiet
  <2>6. CASE Status
    BY <2>1, <2>6 DEF Status, Running, MovieInv, Quiet
  <2>7. CASE PollKey
    BY <2>1, <2>7 DEF PollKey, MovieInv, Quiet
  <2>8. CASE SmpegDelete
    BY <2>1, <2>8 DEF SmpegDelete, SetCrisp, MovieInv, Quiet
  <2> QED
    BY <1>4, <2>2, <2>3, <2>4, <2>5, <2>6, <2>7, <2>8 DEF MovieStep
<1>5. CASE GuestFrame
  <2>1. CASE Draw
    BY <2>1 DEF Draw, sceneVars, movieVars, inputVars, videoVars, MovieInv,
                Quiet
  <2>2. CASE BeforeSwap
    BY <2>2 DEF BeforeSwap, movieVars, videoVars, MovieInv, Quiet
  <2>3. CASE Present
    <3>1. crisp' = crisp
      BY <1>1, <2>3 DEF Present, Resized, videoVars
    <3> QED
      BY <2>3, <3>1 DEF Present, movieVars, inputVars, MovieInv, Quiet
  <2>4. CASE AfterSwap
    BY <2>4 DEF AfterSwap, sceneVars, movieVars, inputVars, videoVars,
                MovieInv, Quiet
  <2> QED
    BY <1>5, <2>1, <2>2, <2>3, <2>4 DEF GuestFrame
<1>6. CASE TickInSleep
  BY <1>6 DEF TickInSleep, Erase, Repaint, SleepGoesOn, sceneVars, movieVars,
              inputVars, videoVars, MovieInv, Quiet
<1>7. CASE Player
  <2>1. ASSUME NEW k \in Keys, Key(k)
        PROVE  MovieInv'
    <3>1. KeyUp(k) \/ \E repeat \in BOOLEAN : KeyDown(k, repeat)
      BY <2>1 DEF Key
    <3>2. /\ playing' = playing /\ mailbox' \in BOOLEAN
          /\ Quiet => Quiet'
      BY <3>1, KeyIsQuiet
    <3>3. UNCHANGED <<scene, stage, leaked, crisp>>
      BY <2>1 DEF Key, pointerVars, movieVars, videoVars, Toggle
    <3> QED
      BY <3>2, <3>3 DEF MovieInv
  <2>2. CASE Move
    BY <2>2, MovieKept DEF Move, sceneVars, movieVars, inputVars, videoVars
  <2> QED
    BY <1>7, <2>1, <2>2 DEF Player
<1>8. CASE Tick
  BY <1>8, MovieKept DEF Tick, pointerVars, inputVars, videoVars
<1>9. CASE UNCHANGED screenVars
  BY <1>9, MovieKept DEF screenVars, pointerVars, sceneVars, movieVars,
                         inputVars, videoVars
<1> QED
  BY <1>2, <1>3, <1>4, <1>5, <1>6, <1>7, <1>8, <1>9 DEF ScreenNext

(* However a movie ends and whichever keys are pressed in it, PushKeyInput *)
(* finds no key of its in the mailbox, and the game is shown crisp again.  *)
THEOREM NothingLeftBehind == ScreenSpec => []MovieLeavesNothing
<1>1. ScreenInit => MovieInv
  BY DEF ScreenInit, InputInit, VideoInit, MovieInv, Quiet
<1>2. MovieInv => MovieLeavesNothing
  BY DEF MovieInv, MovieLeavesNothing
<1> QED
  BY <1>1, <1>2, MovieInvStep, PTL DEF ScreenSpec
-----------------------------------------------------------------------------
(* The pointer.                                                            *)

Pointed == [Bare EXCEPT ![spot] = "ptr"]

Under == [at |-> spot, pix |-> "now"]

(* Where the guest is in its frame says what is in the buffer and what is  *)
(* behind the pointer.                                                     *)
PointerInv ==
  /\ spot \in Spots /\ mouse \in Spots
  /\ win \/ mode = NoMode
  /\ stage # "opened" => gd # NoMode
  /\ stage \in {"opened", "rest", "drawn", "erased"} => fb = Bare
  /\ stage \in {"painted", "presented"} => fb = Pointed /\ slotA = Under
  /\ stage \in {"ticked", "async"} => fb = Pointed /\ slotB = Under
  /\ stage \in {"opened", "rest", "erased", "presented"} => slotB = Nothing
  /\ OnePointer

LEMMA PointerGone ==
  ASSUME spot \in Spots
  PROVE  /\ Under # Nothing
         /\ [Pointed EXCEPT ![Under.at] = Under.pix] = Bare
BY ScreenConstants DEF Pointed, Under, Nothing, Bare

LEMMA PointerKept ==
  ASSUME PointerInv,
         UNCHANGED <<stage, spot, fb, slotA, slotB, shown, gd, win, mode>>,
         mouse' \in Spots
  PROVE  PointerInv'
BY DEF PointerInv, Pointed, Under, OnePointer, Bare

LEMMA WindowKept ==
  ASSUME win \/ mode = NoMode,
         (\E m : Open(m)) \/ (\E on : SetCrisp(on)) \/ Toggle
  PROVE  (win \/ mode = NoMode)'
BY DEF Open, TextureFails, TextureMade, Window, SetCrisp, Toggle, videoVars

(* The guest's frame and the repaint between frames.                       *)
LEMMA PaintingStep ==
  ASSUME PointerInv, ScreenInv, GuestFrame \/ TickInSleep
  PROVE  PointerInv'
<1> USE DEF PointerInv
<1>1. CASE Draw
  <2>1. /\ fb' = Bare /\ stage' = "drawn" /\ gd # NoMode
        /\ UNCHANGED <<mouse, spot, shown, gd, win, mode>>
    BY <1>1 DEF Draw, sceneVars, movieVars, videoVars
  <2> QED
    BY <2>1 DEF OnePointer, Bare
<1>2. CASE BeforeSwap
  <2>1. /\ stage = "drawn" /\ stage' = "painted" /\ spot' = mouse
        /\ slotA' = [at |-> mouse, pix |-> fb[mouse]]
        /\ fb' = [fb EXCEPT ![mouse] = "ptr"]
        /\ UNCHANGED <<mouse, shown, gd, win, mode>>
    BY <1>2 DEF BeforeSwap, Saved, movieVars, videoVars
  <2>2. fb = Bare /\ fb[mouse] = "now"
    BY <2>1 DEF Bare
  <2>3. fb' = Pointed' /\ slotA' = Under'
    BY <2>1, <2>2 DEF Pointed, Under, Bare
  <2> QED
    BY <2>1, <2>3 DEF OnePointer, Bare
<1>3. CASE Present
  <2>1. win /\ gd = mode
    BY <1>3 DEF Present, ScreenInv
  <2>2. /\ stage = "painted" /\ stage' = "presented" /\ shown' = fb
        /\ slotB' = Nothing
        /\ UNCHANGED <<mouse, spot, fb, slotA, gd, win, mode>>
    BY <1>3, <2>1 DEF Present, Resized, movieVars, videoVars
  <2>3. fb' = Pointed' /\ slotA' = Under'
    BY <2>2 DEF Pointed, Under, Bare
  <2>4. OnePointer'
    BY <2>2, <2>3 DEF OnePointer, Pointed, Bare
  <2> QED
    BY <2>1, <2>2, <2>3, <2>4
<1>4. CASE AfterSwap
  <2>1. /\ stage = "presented" /\ stage' = "rest" /\ fb' = Restored(slotA)
        /\ UNCHANGED <<mouse, spot, slotB, shown, gd, win, mode>>
    BY <1>4 DEF AfterSwap, sceneVars, movieVars, videoVars
  <2>2. fb' = Bare
    BY <2>1, PointerGone DEF Restored
  <2> QED
    BY <2>1, <2>2 DEF OnePointer, Bare
<1>5. CASE Erase
  <2>1. /\ stage \in {"rest", "async"} /\ stage' = "erased"
        /\ fb' = Restored(slotB) /\ slotB' = Nothing
        /\ UNCHANGED <<mouse, spot, shown, gd, win, mode>>
    BY <1>5 DEF Erase, GDRefresh, sceneVars, movieVars, videoVars
  <2>2. gd # NoMode
    BY <2>1
  <2>3. fb' = Bare
    BY <2>1, PointerGone DEF Restored
  <2> QED
    BY <2>1, <2>2, <2>3 DEF OnePointer, Bare
<1>6. CASE Repaint
  <2>1. /\ stage = "erased" /\ stage' = "ticked" /\ spot' = mouse
        /\ slotB' = [at |-> mouse, pix |-> fb[mouse]]
        /\ fb' = [fb EXCEPT ![mouse] = "ptr"]
        /\ UNCHANGED <<mouse, shown, gd, win, mode>>
    BY <1>6 DEF Repaint, Saved, GDRefresh, sceneVars, movieVars, videoVars
  <2>2. fb = Bare /\ fb[mouse] = "now"
    BY <2>1 DEF Bare
  <2>3. fb' = Pointed' /\ slotB' = Under'
    BY <2>1, <2>2 DEF Pointed, Under, Bare
  <2> QED
    BY <2>1, <2>3 DEF OnePointer, Bare
<1>7. CASE SleepGoesOn
  <2>1. /\ stage = "ticked" /\ stage' = "async"
        /\ shown' = shown \/ shown' = fb
        /\ UNCHANGED <<mouse, spot, fb, slotB, gd, win, mode>>
    BY <1>7 DEF SleepGoesOn, sceneVars, movieVars, videoVars
  <2>2. fb' = Pointed' /\ slotB' = Under'
    BY <2>1 DEF Pointed, Under, Bare
  <2>3. OnePointer'
    BY <2>1 DEF OnePointer, Pointed, Bare
  <2> QED
    BY <2>1, <2>2, <2>3
<1> QED
  BY <1>1, <1>2, <1>3, <1>4, <1>5, <1>6, <1>7 DEF GuestFrame, TickInSleep

LEMMA PointerStep ==
  PointerInv /\ ScreenInv /\ [ScreenNext]_screenVars => PointerInv'
<1> SUFFICES ASSUME PointerInv, ScreenInv, [ScreenNext]_screenVars
             PROVE  PointerInv'
  OBVIOUS
<1>1. CASE OpenGame
  <2>1. (win \/ mode = NoMode)'
    BY <1>1, WindowKept DEF OpenGame, OpenDisplay, PointerInv
  <2>2. /\ stage \in {"opened", "rest"} /\ stage' = "opened"
        /\ UNCHANGED <<mouse, spot, fb, slotA, slotB, shown>>
    BY <1>1 DEF OpenGame
  <2> QED
    BY <2>1, <2>2 DEF PointerInv, OnePointer, Bare
<1>2. CASE ToMovie
  <2>1. (win \/ mode = NoMode)'
    BY <1>2, WindowKept DEF ToMovie, EnterMovie, OpenDisplay, PointerInv
  <2>2. /\ stage \in {"opened", "rest"} /\ stage' = "opened"
        /\ shown' = <<>>
        /\ UNCHANGED <<mouse, spot, fb, slotA, slotB>>
    BY <1>2 DEF ToMovie
  <2> QED
    BY <2>1, <2>2 DEF PointerInv, OnePointer, Bare
<1>3. CASE MovieStep \/ Tick \/ Player \/ UNCHANGED screenVars
  <2>1. /\ UNCHANGED <<stage, spot, fb, slotA, slotB, shown, gd>>
        /\ mouse' = mouse \/ mouse' \in Spots
    BY <1>3 DEF MovieStep, SmpegNew, StartPlay, ShowFrame, NoFrame, Status,
                PollKey, SmpegDelete, Tick, Player, Key, Move, pointerVars,
                screenVars, sceneVars, movieVars
  <2>2. UNCHANGED <<win, mode>>
    <3>1. UNCHANGED videoVars \/ Toggle \/ \E on \in BOOLEAN : SetCrisp(on)
      BY <1>3 DEF MovieStep, SmpegNew, StartPlay, ShowFrame, NoFrame, Status,
                  PollKey, SmpegDelete, Tick, Player, Key, Move, screenVars,
                  sceneVars
    <3> QED
      BY <3>1 DEF videoVars, Toggle, SetCrisp
  <2> QED
    BY <2>1, <2>2, PointerKept DEF PointerInv
<1> QED
  BY <1>1, <1>2, <1>3, PaintingStep DEF ScreenNext

(* Wherever the pointer is moved between frames, in sleeps and across      *)
(* movies, and however many places there are for it: what is shown is the  *)
(* scene of the frame with one pointer.                                    *)
THEOREM PointerIsOne == ScreenSpec => []OnePointer
<1>1. ScreenInit => ScreenInv
  BY InitWindow DEF ScreenInit, ScreenInv, VideoInit
<1>2. ScreenInit => PointerInv
  BY DEF ScreenInit, VideoInit, PointerInv, OnePointer
<1>3. PointerInv => OnePointer
  BY DEF PointerInv
<1> QED
  BY <1>1, <1>2, <1>3, ScreenStep, PointerStep, PTL DEF ScreenSpec
-----------------------------------------------------------------------------
(* Picture and sound.                                                      *)

(* The picture is on its schedule, or three frames behind it at most: then *)
(* the schedule starts anew.                                               *)
Behind == Larger(due, -(3 * FrameTicks))

(* Sound is heard as the schedule goes - in time, if no frame was late.    *)
SyncInv ==
  /\ frame \in Nat /\ due \in Int /\ sent \in Nat /\ queued \in Nat
  /\ late \in BOOLEAN /\ dry \in BOOLEAN
  /\ scene \in {"menu", "set", "opened"} => movie # "playing"
  /\ frame = 0 => sent = 0 /\ ~dry /\ (scene \notin {"menu", "set"} => queued = 0)
  /\ frame > 0 => /\ sent = SoundFor(frame) /\ queued <= sent /\ due <= FrameTicks
                  /\ Heard >= Smaller(frame * FrameTicks - FrameTicks - Behind, AudioTicks)
  /\ frame > 0 /\ ~late /\ ~Overdue => Heard <= frame * FrameTicks - due
  /\ dry => late \/ Overdue

LEMMA Products ==
  ASSUME NEW n \in Nat
  PROVE  /\ FrameTicks \in Nat /\ FrameTicks > 0 /\ AudioTicks \in Nat
         /\ Lateness \in Nat /\ Lateness > 3 * FrameTicks
         /\ n * FrameTicks \in Nat
         /\ (n + 1) * FrameTicks = n * FrameTicks + FrameTicks
         /\ (n + 2) * FrameTicks = n * FrameTicks + 2 * FrameTicks
         /\ (n - 2) * FrameTicks = n * FrameTicks - 2 * FrameTicks
         /\ (n + 1 + 2) * FrameTicks = n * FrameTicks + 3 * FrameTicks
BY CutsceneConstants

LEMMA SyncKept ==
  ASSUME SyncInv, UNCHANGED <<frame, due, sent, queued, late, dry>>,
         \/ UNCHANGED <<scene, movie>>
         \/ scene = "menu" /\ scene' \in {"menu", "set"} /\ movie' = movie
         \/ scene = "opened" /\ scene' = "ask"
         \/ scene \notin {"menu", "set", "opened"} /\ scene' \notin {"menu", "set", "opened"}
         \/ scene = "stopped" /\ scene' = "menu" /\ movie' = "none"
  PROVE  SyncInv'
BY DEF SyncInv, Behind, Heard, Overdue

(* A new movie, or none.                                                   *)
LEMMA SyncNew ==
  ASSUME SyncInv, SmpegNew
  PROVE  SyncInv'
<1>1. /\ frame' = 0 /\ sent' = 0 /\ due' = 0 /\ late' = FALSE /\ dry' = FALSE
      /\ \/ scene' = "menu" /\ scene = "set" /\ UNCHANGED <<movie, queued>>
         \/ scene' = "opened" /\ movie' \in {"none", "still"} /\ queued' = 0
  BY DEF SmpegNew, Decoded
<1>2. ~(frame' > 0) /\ due' \in Int /\ sent' \in Nat /\ queued' \in Nat /\ frame' \in Nat
  BY <1>1 DEF SyncInv
<1>3. scene' \in {"menu", "set", "opened"} => movie' # "playing"
  BY <1>1 DEF SyncInv
<1>4. scene' \notin {"menu", "set"} => queued' = 0
  BY <1>1
<1>5. late' \in BOOLEAN /\ dry' \in BOOLEAN /\ ~dry'
  BY <1>1
<1> QED
  BY <1>1, <1>2, <1>3, <1>4, <1>5, Zenon DEF SyncInv

(* A frame is shown and its sound is pushed; what is heard is the same.    *)
LEMMA SyncFrame ==
  ASSUME SyncInv, ShowFrame
  PROVE  SyncInv'
<1> DEFINE P == frame * FrameTicks
<1>1. /\ frame \in Nat /\ due \in Int /\ sent \in Nat /\ queued \in Nat
      /\ late \in BOOLEAN /\ dry \in BOOLEAN
      /\ scene = "ask" /\ (frame = 0 \/ due <= 0)
      /\ frame' = frame + 1 /\ due' = NextDue /\ late' = (late \/ Overdue)
      /\ sent' = Larger(sent, SoundFor(frame')) /\ queued' = queued + sent' - sent
      /\ scene' = "shown" /\ dry' = dry
  BY DEF SyncInv, ShowFrame
<1>2. /\ FrameTicks \in Nat /\ FrameTicks > 0 /\ AudioTicks \in Nat
      /\ Lateness > 3 * FrameTicks
      /\ P \in Nat
  BY <1>1, Products
<1>3. SoundFor(frame) = Smaller(P + 2 * FrameTicks, AudioTicks)
  BY <1>1, Products DEF SoundFor, Lead
<1>4. SoundFor(frame') = Smaller(P + 3 * FrameTicks, AudioTicks)
  BY <1>1, Products DEF SoundFor, Lead
<1>5. frame' * FrameTicks = P + FrameTicks
  BY <1>1, Products
<1>6. frame = 0 => P = 0
  BY <1>2
<1>7. /\ frame = 0 => sent = 0 /\ ~dry /\ queued = 0
      /\ frame > 0 => /\ sent = SoundFor(frame) /\ queued <= sent
                      /\ sent - queued >= Smaller(P - FrameTicks - Behind, AudioTicks)
      /\ frame > 0 /\ ~late /\ ~Overdue => sent - queued <= P - due
      /\ dry => late \/ Overdue
  BY <1>1 DEF SyncInv, Heard
<1> HIDE DEF P
<1>8. /\ frame' \in Nat /\ frame' > 0
      /\ sent' = SoundFor(frame') /\ sent' >= sent /\ sent' \in Nat
  BY <1>1, <1>2, <1>3, <1>4, <1>7 DEF Smaller, Larger
<1>9. queued' \in Nat /\ queued' <= sent' /\ sent' - queued' = sent - queued
  BY <1>1, <1>7, <1>8
<1>10. due' = IF frame = 0 \/ due + 3 * FrameTicks < 0 THEN FrameTicks ELSE due + FrameTicks
  BY <1>1, <1>2 DEF NextDue
<1>11. due' \in Int /\ due' <= FrameTicks
  BY <1>1, <1>2, <1>10
<1>12. Behind' = Larger(due', -(3 * FrameTicks))
  BY DEF Behind
<1>13. sent' - queued' >= Smaller(P - Behind', AudioTicks)
  <2>1. CASE frame = 0
    BY <1>1, <1>2, <1>6, <1>7, <1>9, <1>10, <1>12, <2>1 DEF Smaller, Larger
  <2>2. CASE frame > 0
    <3>1. sent - queued >= Smaller(P - FrameTicks - Larger(due, -(3 * FrameTicks)), AudioTicks)
      BY <1>7, <2>2 DEF Behind
    <3>2. due' = IF due + 3 * FrameTicks < 0 THEN FrameTicks ELSE due + FrameTicks
      BY <1>10, <2>2
    <3> QED BY <1>1, <1>2, <1>9, <1>12, <3>1, <3>2 DEF Smaller, Larger
  <2> QED BY <1>1, <2>1, <2>2
<1>14. ~late /\ ~Overdue => sent' - queued' <= P + FrameTicks - due'
  <2> SUFFICES ASSUME ~late, ~Overdue
      PROVE  sent' - queued' <= P + FrameTicks - due'
    OBVIOUS
  <2>1. CASE frame = 0
    BY <1>1, <1>2, <1>6, <1>7, <1>9, <1>10, <2>1
  <2>2. CASE frame > 0
    <3>1. due >= -(2 * FrameTicks) /\ sent - queued <= P - due
      BY <1>1, <1>2, <1>7, <2>2 DEF Overdue, Lead
    <3>2. due' = due + FrameTicks
      BY <1>1, <1>2, <1>10, <2>2, <3>1
    <3> QED BY <1>1, <1>2, <1>9, <3>1, <3>2
  <2> QED BY <1>1, <2>1, <2>2
<1>15. late' \in BOOLEAN /\ (late' <=> late \/ Overdue)
  BY <1>1 DEF Overdue
<1>16. Heard' = sent' - queued'
  BY DEF Heard
<1>17. Heard' >= Smaller(frame' * FrameTicks - FrameTicks - Behind', AudioTicks)
  <2>1. Behind' \in Int
    BY <1>2, <1>11, <1>12 DEF Larger
  <2>2. frame' * FrameTicks - FrameTicks - Behind' = P - Behind'
    BY <1>2, <1>5, <2>1
  <2> QED BY <1>13, <1>16, <2>2
<1>18. ~late' => Heard' <= frame' * FrameTicks - due'
  <2> SUFFICES ASSUME ~late' PROVE Heard' <= frame' * FrameTicks - due'
    OBVIOUS
  <2>1. ~late /\ ~Overdue
    BY <1>15
  <2>2. sent' - queued' <= P + FrameTicks - due'
    BY <1>14, <2>1
  <2> DEFINE next == frame' * FrameTicks
             heard == Heard'
  <2>3. next = P + FrameTicks
    BY <1>5
  <2>4. heard = sent' - queued'
    BY <1>16
  <2> HIDE DEF next, heard
  <2>5. heard <= next - due'
    BY <1>1, <1>2, <1>8, <1>9, <1>11, <2>2, <2>3, <2>4
  <2> QED BY <2>5 DEF next, heard
<1> QED
  BY <1>1, <1>7, <1>8, <1>9, <1>11, <1>15, <1>17, <1>18 DEF SyncInv

(* A tick is late, or sound for it is heard - unless the callback has run  *)
(* dry, which takes a frame that is later than the lead.                   *)
LEMMA SyncTick ==
  ASSUME SyncInv, Tick
  PROVE  SyncInv'
<1> DEFINE P == frame * FrameTicks
<1>1. /\ frame \in Nat /\ due \in Int /\ sent \in Nat /\ queued \in Nat
      /\ late \in BOOLEAN /\ dry \in BOOLEAN
      /\ scene \notin {"menu", "set"}
      /\ due' = Larger(due - 1, -Lateness) /\ queued' = Larger(queued - 1, 0)
      /\ dry' = (dry \/ (movie = "playing" /\ frame > 0 /\ queued = 0 /\ sent < AudioTicks))
      /\ UNCHANGED <<scene, movie, frame, sent, late>>
  BY DEF SyncInv, Tick
<1>2. /\ FrameTicks \in Nat /\ FrameTicks > 0 /\ AudioTicks \in Nat
      /\ Lateness > 3 * FrameTicks /\ Lateness \in Nat
      /\ P \in Nat
  BY <1>1, Products
<1>3. SoundFor(frame) = Smaller(P + 2 * FrameTicks, AudioTicks)
  BY <1>1, Products DEF SoundFor, Lead
<1>4. /\ scene \in {"menu", "set", "opened"} => movie # "playing"
      /\ frame = 0 => sent = 0 /\ ~dry /\ queued = 0
      /\ frame > 0 => /\ sent = SoundFor(frame) /\ queued <= sent /\ due <= FrameTicks
                      /\ sent - queued >= Smaller(P - FrameTicks - Behind, AudioTicks)
      /\ frame > 0 /\ ~late /\ ~Overdue => sent - queued <= P - due
      /\ dry => late \/ Overdue
  BY <1>1 DEF SyncInv, Heard
<1> HIDE DEF P
<1>5. /\ due' \in Int
      /\ due' <= due \/ due' = -Lateness
      /\ queued' \in Nat /\ queued' <= queued
      /\ queued = 0 => queued' = 0
      /\ queued > 0 => queued' = queued - 1
  BY <1>1, <1>2 DEF Larger
<1>6. frame = 0 => sent' = 0 /\ ~dry' /\ queued' = 0
  BY <1>1, <1>4, <1>5
<1>7. Overdue' <=> frame > 0 /\ -due' > 2 * FrameTicks
  BY <1>1 DEF Overdue, Lead
<1>8. Overdue <=> frame > 0 /\ -due > 2 * FrameTicks
  BY DEF Overdue, Lead
<1>9. Overdue => Overdue'
  BY <1>1, <1>2, <1>7, <1>8 DEF Larger
<1>10. frame > 0 => /\ sent' = SoundFor(frame') /\ queued' <= sent' /\ due' <= FrameTicks
  <2>1. SoundFor(frame') = SoundFor(frame)
    BY <1>1
  <2> QED BY <1>1, <1>2, <1>4, <1>5, <2>1 DEF Larger
<1>11. frame > 0 => sent' - queued' >= Smaller(P - FrameTicks - Behind', AudioTicks)
  <2> SUFFICES ASSUME frame > 0
      PROVE  sent' - queued' >= Smaller(P - FrameTicks - Behind', AudioTicks)
    OBVIOUS
  <2> DEFINE b == Behind
             c == Behind'
  <2>1. b = Larger(due, -(3 * FrameTicks)) /\ c = Larger(due', -(3 * FrameTicks))
    BY DEF Behind
  <2>2. /\ sent = Smaller(P + 2 * FrameTicks, AudioTicks)
        /\ sent - queued >= Smaller(P - FrameTicks - b, AudioTicks)
    BY <1>3, <1>4
  <2> HIDE DEF b, c
  <2>3. b \in Int /\ c \in Int /\ c >= b - 1 /\ c >= -(3 * FrameTicks)
    BY <1>1, <1>2, <2>1 DEF Larger
  <2>4. sent' - queued' >= Smaller(P - FrameTicks - c, AudioTicks)
    <3>1. CASE queued = 0
      <4>1. sent' - queued' = sent
        BY <1>1, <1>5, <3>1
      <4>2. P - FrameTicks - c <= P + 2 * FrameTicks
        BY <1>2, <2>3
      <4> QED BY <1>2, <2>2, <2>3, <4>1, <4>2 DEF Smaller
    <3>2. CASE queued > 0
      <4>1. sent' - queued' = sent - queued + 1
        BY <1>1, <1>5, <3>2
      <4>2. P - FrameTicks - c <= P - FrameTicks - b + 1
        BY <1>2, <2>3
      <4> QED BY <1>1, <1>2, <2>2, <2>3, <4>1, <4>2 DEF Smaller
    <3> QED BY <1>1, <3>1, <3>2
  <2> QED BY <2>4 DEF c
<1>12. frame > 0 /\ ~late /\ ~Overdue' => sent' - queued' <= P - due'
  <2> SUFFICES ASSUME frame > 0, ~late, ~Overdue'
      PROVE  sent' - queued' <= P - due'
    OBVIOUS
  <2>1. ~Overdue /\ sent - queued <= P - due
    BY <1>4, <1>9
  <2>2. due' >= -(2 * FrameTicks)
    BY <1>1, <1>2, <1>5, <1>7
  <2>3. due' = due - 1
    BY <1>1, <1>2, <2>2 DEF Larger
  <2>4. sent' - queued' <= sent - queued + 1
    BY <1>1, <1>5
  <2> QED BY <1>1, <1>2, <1>5, <2>1, <2>3, <2>4
<1>13. dry' => late \/ Overdue'
  <2>1. CASE dry
    BY <1>4, <1>9, <2>1
  <2>2. CASE frame > 0 /\ queued = 0 /\ sent < AudioTicks
    <3>1. sent = P + 2 * FrameTicks
      BY <1>1, <1>2, <1>3, <1>4, <2>2 DEF Smaller
    <3>2. ~late /\ ~Overdue => -due' > 2 * FrameTicks
      <4> SUFFICES ASSUME ~late, ~Overdue PROVE -due' > 2 * FrameTicks
        OBVIOUS
      <4>1. sent - queued <= P - due
        BY <1>4, <2>2
      <4> QED BY <1>1, <1>2, <2>2, <3>1, <4>1 DEF Larger
    <3> QED BY <1>7, <1>9, <2>2, <3>2
  <2> QED BY <1>1, <2>1, <2>2
<1>14. dry' \in BOOLEAN
  <2> DEFINE runs == movie = "playing" /\ frame > 0 /\ queued = 0 /\ sent < AudioTicks
  <2>1. runs \in BOOLEAN
    OBVIOUS
  <2>2. dry' = (dry \/ runs)
    BY <1>1
  <2> HIDE DEF runs
  <2> QED BY <1>1, <2>1, <2>2
<1>15. Heard' = sent' - queued' /\ frame' * FrameTicks = P
  BY <1>1 DEF Heard, P
<1> QED
  BY <1>1, <1>4, <1>5, <1>6, <1>10, <1>11, <1>12, <1>13, <1>14, <1>15 DEF SyncInv

LEMMA SyncStep == SyncInv /\ [ScreenNext]_screenVars => SyncInv'
<1> SUFFICES ASSUME SyncInv, [ScreenNext]_screenVars PROVE SyncInv'
  OBVIOUS
<1>1. CASE OpenGame \/ ToMovie
  BY <1>1, SyncKept DEF OpenGame, ToMovie, EnterMovie
<1>2. CASE MovieStep
  <2>1. CASE StartPlay \/ NoFrame \/ Status \/ PollKey \/ SmpegDelete
    BY <2>1, SyncKept DEF StartPlay, NoFrame, Status, PollKey, SmpegDelete
  <2> QED
    BY <1>2, <2>1, SyncNew, SyncFrame DEF MovieStep
<1>3. CASE GuestFrame
  BY <1>3, SyncKept DEF GuestFrame, Draw, BeforeSwap, Present, AfterSwap, sceneVars, movieVars
<1>4. CASE TickInSleep
  BY <1>4, SyncKept DEF TickInSleep, Erase, Repaint, SleepGoesOn, sceneVars, movieVars
<1>5. CASE Player
  BY <1>5, SyncKept DEF Player, Key, Move, sceneVars, movieVars
<1>6. CASE Tick
  BY <1>6, SyncTick
<1>7. CASE UNCHANGED screenVars
  BY <1>7, SyncKept DEF screenVars, sceneVars, movieVars
<1> QED
  BY <1>1, <1>2, <1>3, <1>4, <1>5, <1>6, <1>7 DEF ScreenNext

(* For any movie and any lateness of its frames: what is heard is never    *)
(* more than a frame behind the picture, and the callback runs dry only if *)
(* a frame was later than the lead of the sound.                           *)
THEOREM PictureAndSound == ScreenSpec => []LipSync
<1>1. ScreenInit => SyncInv
  <2> SUFFICES ASSUME ScreenInit PROVE SyncInv
    OBVIOUS
  <2>1. /\ frame = 0 /\ sent = 0 /\ queued = 0 /\ due = 0 /\ movie = "none"
        /\ late = FALSE /\ dry = FALSE
    BY DEF ScreenInit
  <2>2. ~(frame > 0) /\ 0 \in Nat /\ 0 \in Int /\ movie # "playing"
    BY <2>1
  <2>3. late \in BOOLEAN /\ dry \in BOOLEAN /\ ~dry
    BY <2>1
  <2> QED BY <2>1, <2>2, <2>3, Zenon DEF SyncInv
<1>2. SyncInv => LipSync
  <2> SUFFICES ASSUME SyncInv PROVE LipSync
    OBVIOUS
  <2>1. frame > 0 => Heard >= Smaller((frame - 2) * FrameTicks, AudioTicks)
    <3> SUFFICES ASSUME frame > 0
        PROVE  Heard >= Smaller((frame - 2) * FrameTicks, AudioTicks)
      OBVIOUS
    <3> DEFINE P == frame * FrameTicks
    <3>1. /\ frame \in Nat /\ due \in Int /\ due <= FrameTicks /\ sent \in Nat
          /\ queued \in Nat
          /\ Heard >= Smaller(P - FrameTicks - Behind, AudioTicks)
      BY DEF SyncInv
    <3>2. FrameTicks \in Nat /\ AudioTicks \in Nat /\ P \in Nat
          /\ (frame - 2) * FrameTicks = P - 2 * FrameTicks
      BY <3>1, Products
    <3> HIDE DEF P
    <3>3. Behind \in Int /\ Behind <= FrameTicks /\ Heard \in Int
      BY <3>1, <3>2 DEF Behind, Larger, Heard
    <3> QED BY <3>1, <3>2, <3>3 DEF Smaller
  <2>2. dry => late \/ Overdue
    BY DEF SyncInv
  <2> QED BY <2>1, <2>2 DEF LipSync
<1> QED
  BY <1>1, <1>2, SyncStep, PTL DEF ScreenSpec
=============================================================================
