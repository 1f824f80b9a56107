----------------------------- MODULE MusicProofs -----------------------------
(***************************************************************************)
(* Proofs about CDPlayer, for every size of the ring, of the callback's    *)
(* buffer and of the decoder's delay, and for tracks of any length; and    *)
(* about VirtualCD, the transport above what CDPlayer implements, for any  *)
(* rip, any lists of the guest and any bounds.                             *)
(***************************************************************************)
EXTENDS CDPlayer, VirtualCD, FiniteSetTheorems, SequenceTheorems, TLAPS

-----------------------------------------------------------------------------
(* The player and its three threads.                                       *)

DecPlaces ==
  {"none", "open", "head", "gate", "wait", "read", "emit", "end", "exit"}

DecStates == [pc : DecPlaces, draining : BOOLEAN, fed : Nat, pos : Nat,
              batch : Nat, notified : BOOLEAN]

Types ==
  /\ emu \in [pc : {"idle", "join", "start"}, open : BOOLEAN]
  /\ dec \in DecStates
  /\ cb \in [pc : {"idle", "mix", "count"}, mixed : 0 .. NSamp]
  /\ consumed \in Nat /\ heard \in Nat /\ opens \in 0 .. MaxOpens
  /\ quit \in BOOLEAN /\ eof \in BOOLEAN
  /\ active \in BOOLEAN /\ paused \in BOOLEAN

(* The ring is what was decoded and not heard.                             *)
Ring == ring = [j \in 1 .. dec.pos - heard |-> <<opens, heard + j>>]

Counts ==
  /\ heard <= dec.pos /\ dec.pos + dec.batch <= dec.fed /\ dec.fed <= Packets
  /\ dec.fed <= dec.pos + dec.batch + Delay
  /\ dec.pc # "emit" => dec.batch = 0
  /\ dec.batch <= Delay + 1

(* Backpressure: a batch is decoded when there is room for it.             *)
Room ==
  /\ Len(ring) <= RingTarget + Delay
  /\ dec.pc \in {"read", "emit"} => Len(ring) < RingTarget

(* Between two tracks there is no thread and nothing of a track.           *)
Between ==
  /\ dec.pc \in {"none", "open"} => dec.fed = 0 /\ heard = 0
  /\ dec.pc # "none" => active
  /\ dec.pc = "none" => ~active \/ emu.pc = "join"
  /\ emu.pc = "start" => dec.pc = "none" /\ ~active /\ ~eof
  /\ emu.pc = "start" => opens < MaxOpens
  /\ emu.pc = "join" /\ emu.open => opens < MaxOpens

(* The end of a track: the decoder has been flushed, unless it was asked   *)
(* to leave.                                                               *)
Ending ==
  /\ emu.pc \in {"join", "start"} => quit
  /\ quit /\ emu.pc = "idle" => ~active
  /\ eof => dec.pc = "exit"
  /\ dec.draining => /\ dec.pc \notin {"none", "open", "read"}
                     /\ dec.pos + dec.batch = dec.fed
  /\ dec.pc \in {"end", "exit"} => quit \/ dec.pos = dec.fed

PlayerInv == Types /\ Ring /\ Counts /\ Room /\ Between /\ Ending
-----------------------------------------------------------------------------
(* Samples of the ring.                                                    *)

(* The n samples of track o after the first h.                             *)
Samples(o, h, n) == [j \in 1 .. n |-> <<o, h + j>>]

LEMMA SamplesAreSeq ==
  ASSUME NEW o \in Nat, NEW h \in Nat, NEW n \in Nat
  PROVE  /\ Samples(o, h, n) \in Seq(Nat \X Nat)
         /\ Len(Samples(o, h, n)) = n
         /\ \A j \in 1 .. n : Samples(o, h, n)[j] = <<o, h + j>>
BY DEF Samples

LEMMA SamplesAppended ==
  ASSUME NEW o \in Nat, NEW h \in Nat, NEW n \in Nat, NEW k \in Nat
  PROVE  Samples(o, h, n) \o Samples(o, h + n, k) = Samples(o, h, n + k)
<1> DEFINE s == Samples(o, h, n)
           t == Samples(o, h + n, k)
           u == Samples(o, h, n + k)
<1>0. h + n \in Nat /\ n + k \in Nat
  OBVIOUS
<1>1. /\ s \in Seq(Nat \X Nat) /\ Len(s) = n
      /\ \A j \in 1 .. n : s[j] = <<o, h + j>>
  BY SamplesAreSeq
<1>2. /\ t \in Seq(Nat \X Nat) /\ Len(t) = k
      /\ \A j \in 1 .. k : t[j] = <<o, (h + n) + j>>
  BY <1>0, SamplesAreSeq
<1>3. /\ u \in Seq(Nat \X Nat) /\ Len(u) = n + k
      /\ \A j \in 1 .. n + k : u[j] = <<o, h + j>>
  BY <1>0, SamplesAreSeq
<1> HIDE DEF s, t, u
<1>4. /\ s \o t \in Seq(Nat \X Nat)
      /\ Len(s \o t) = n + k
      /\ \A i \in 1 .. n + k : (s \o t)[i] = IF i <= n THEN s[i] ELSE t[i - n]
  BY <1>1, <1>2, ConcatProperties
<1>5. ASSUME NEW i \in 1 .. n + k
      PROVE  (s \o t)[i] = u[i]
  <2>0. u[i] = <<o, h + i>>
    BY <1>3
  <2>1. CASE i <= n
    <3>1. (s \o t)[i] = s[i]
      BY <1>4, <2>1
    <3>2. s[i] = <<o, h + i>>
      BY <1>1, <2>1
    <3> QED
      BY <2>0, <3>1, <3>2
  <2>2. CASE i > n
    <3>1. i - n \in 1 .. k /\ (h + n) + (i - n) = h + i
      BY <2>2
    <3>2. (s \o t)[i] = t[i - n]
      BY <1>4, <2>2
    <3>3. t[i - n] = <<o, h + i>>
      BY <1>2, <3>1
    <3> QED
      BY <2>0, <3>2, <3>3
  <2>3. i \in Int /\ n \in Int
    OBVIOUS
  <2>4. i <= n \/ i > n
    BY <2>3
  <2> QED
    BY <2>1, <2>2, <2>4
<1>6. s \o t = u
  BY <1>3, <1>4, <1>5, SeqEqual
<1> QED
  BY <1>6 DEF s, t, u

LEMMA Dropped ==
  ASSUME NEW S, NEW s \in Seq(S), NEW n \in Nat, Len(s) = n, NEW k \in 0 .. n
  PROVE  /\ SubSeq(s, k + 1, n) \in Seq(S)
         /\ Len(SubSeq(s, k + 1, n)) = n - k
         /\ \A i \in 1 .. n - k : SubSeq(s, k + 1, n)[i] = s[k + i]
<1>1. k + 1 \in Int /\ n \in Int /\ \A i \in k + 1 .. n : s[i] \in S
  OBVIOUS
<1>2. SubSeq(s, k + 1, n) \in Seq(S)
  BY <1>1, SubSeqProperties
<1>3. Len(SubSeq(s, k + 1, n)) = IF k + 1 <= n THEN n - (k + 1) + 1 ELSE 0
  BY <1>1, SubSeqProperties
<1>4. \A i \in 1 .. n - (k + 1) + 1 :
        SubSeq(s, k + 1, n)[i] = s[(k + 1) + i - 1]
  BY <1>1, SubSeqProperties
<1>5. \A i \in 1 .. n - k : SubSeq(s, k + 1, n)[i] = s[k + i]
  <2> TAKE i \in 1 .. n - k
  <2>1. i \in 1 .. n - (k + 1) + 1 /\ (k + 1) + i - 1 = k + i
    OBVIOUS
  <2> QED
    BY <1>4, <2>1
<1> QED
  BY <1>2, <1>3, <1>5

LEMMA SamplesTaken ==
  ASSUME NEW o \in Nat, NEW h \in Nat, NEW n \in Nat, NEW k \in 0 .. n
  PROVE  SubSeq(Samples(o, h, n), k + 1, n) = Samples(o, h + k, n - k)
<1> DEFINE s == Samples(o, h, n)
           u == Samples(o, h + k, n - k)
           r == SubSeq(s, k + 1, n)
<1>0. h + k \in Nat /\ n - k \in Nat
  OBVIOUS
<1>1. /\ s \in Seq(Nat \X Nat) /\ Len(s) = n
      /\ \A j \in 1 .. n : s[j] = <<o, h + j>>
      /\ u \in Seq(Nat \X Nat) /\ Len(u) = n - k
      /\ \A j \in 1 .. n - k : u[j] = <<o, (h + k) + j>>
  BY <1>0, SamplesAreSeq
<1>2. /\ r \in Seq(Nat \X Nat)
      /\ Len(r) = n - k
      /\ \A i \in 1 .. n - k : r[i] = s[k + i]
  <2> HIDE DEF s
  <2> QED
    BY <1>1, Dropped
<1>3. \A i \in 1 .. n - k : r[i] = u[i]
  <2> HIDE DEF s, u, r
  <2> TAKE i \in 1 .. n - k
  <2>1. k + i \in 1 .. n /\ h + (k + i) = (h + k) + i
    OBVIOUS
  <2> QED
    BY <1>1, <1>2, <2>1
<1> HIDE DEF s, u, r
<1>4. r = u
  BY <1>1, <1>2, <1>3, SeqEqual
<1> QED
  BY <1>4 DEF s, u, r

LEMMA SamplesCounted ==
  ASSUME NEW o \in Nat, NEW h \in Nat, NEW n \in Nat, NEW k \in 0 .. n
  PROVE  Cardinality({i \in 1 .. k : Samples(o, h, n)[i][1] = o}) = k
<1>1. \A j \in 1 .. n : Samples(o, h, n)[j] = <<o, h + j>>
  BY SamplesAreSeq
<1>2. {i \in 1 .. k : Samples(o, h, n)[i][1] = o} = 1 .. k
  BY <1>1
<1>3. Cardinality(1 .. k) = k
  BY FS_Interval
<1> QED
  BY <1>2, <1>3
-----------------------------------------------------------------------------
(* The invariant is inductive.                                             *)

LEMMA NoSamples ==
  ASSUME NEW o \in Nat, NEW h \in Nat
  PROVE  Samples(o, h, 0) = <<>>
<1>1. Samples(o, h, 0) \in Seq(Nat \X Nat) /\ Len(Samples(o, h, 0)) = 0
  BY SamplesAreSeq
<1> QED
  BY <1>1

(* How much the ring holds.                                                *)
LEMMA RingLength ==
  ASSUME PlayerInv
  PROVE  /\ opens \in Nat /\ heard \in Nat /\ dec.pos - heard \in Nat
         /\ ring = Samples(opens, heard, dec.pos - heard)
         /\ Len(ring) = dec.pos - heard
<1>1. opens \in Nat /\ heard \in Nat /\ dec.pos - heard \in Nat
  BY PlayerConstants DEF PlayerInv, Types, DecStates, Counts
<1>2. ring = Samples(opens, heard, dec.pos - heard)
  BY DEF PlayerInv, Ring, Samples
<1> QED
  BY <1>1, <1>2, SamplesAreSeq

LEMMA InitInv == Init => PlayerInv
<1> SUFFICES ASSUME Init PROVE PlayerInv
  OBVIOUS
<1> USE PlayerConstants
<1>1. Types
  <2>1. dec \in DecStates
    BY DEF Init, NoThread, DecStates, DecPlaces
  <2>2. cb \in [pc : {"idle", "mix", "count"}, mixed : 0 .. NSamp]
    BY DEF Init
  <2>3. emu \in [pc : {"idle", "join", "start"}, open : BOOLEAN]
    BY DEF Init
  <2>4. consumed \in Nat /\ heard \in Nat /\ opens \in 0 .. MaxOpens
    BY DEF Init
  <2>5. /\ quit \in BOOLEAN /\ eof \in BOOLEAN
        /\ active \in BOOLEAN /\ paused \in BOOLEAN
    BY DEF Init
  <2> QED
    BY <2>1, <2>2, <2>3, <2>4, <2>5 DEF Types
<1>2. Ring
  <2>1. ring = Samples(opens, heard, 0) /\ dec.pos - heard = 0
    BY NoSamples DEF Init, NoThread
  <2> QED
    BY <2>1 DEF Ring, Samples
<1>3. Counts
  BY DEF Init, Counts, NoThread
<1>4. Room
  BY DEF Init, Room, NoThread
<1>5. Between
  BY DEF Init, Between, NoThread
<1>6. Ending
  BY DEF Init, Ending, NoThread
<1> QED
  BY <1>1, <1>2, <1>3, <1>4, <1>5, <1>6 DEF PlayerInv

LEMMA CloseStartInv ==
  ASSUME PlayerInv, NEW o \in BOOLEAN, CloseStart(o)
  PROVE  PlayerInv'
<1> USE PlayerConstants DEF CloseStart, Notified, PlayerInv, Types, DecStates
<1>1. Types'
  BY DEF DecStates, DecPlaces
<1>2. Ring'
  BY DEF Ring
<1>3. Counts'
  BY DEF Counts
<1>4. Room'
  BY DEF Room
<1>5. Between'
  BY DEF Between
<1>6. Ending'
  BY DEF Ending
<1> QED
  BY <1>1, <1>2, <1>3, <1>4, <1>5, <1>6

LEMMA CloseFinishInv ==
  ASSUME PlayerInv, CloseFinish
  PROVE  PlayerInv'
<1> USE PlayerConstants DEF CloseFinish, NoThread, PlayerInv, Types, DecStates
<1>1. Types'
  BY DEF DecStates, DecPlaces
<1>2. Ring'
  <2>1. opens' \in Nat
    OBVIOUS
  <2>2. ring' = Samples(opens', 0, 0) /\ dec'.pos - heard' = 0 /\ heard' = 0
    BY <2>1, NoSamples
  <2> QED
    BY <2>2 DEF Ring, Samples
<1>3. Counts'
  BY DEF Counts
<1>4. Room'
  BY DEF Room
<1>5. Between'
  BY DEF Between
<1>6. Ending'
  BY DEF Ending
<1> QED
  BY <1>1, <1>2, <1>3, <1>4, <1>5, <1>6

LEMMA OpenStartInv ==
  ASSUME PlayerInv, OpenStart
  PROVE  PlayerInv'
<1>t. dec' \in DecStates
  <2>1. dec' = [pc |-> "open", draining |-> FALSE, fed |-> 0, pos |-> 0,
                batch |-> 0, notified |-> FALSE]
    BY DEF OpenStart, NoThread
  <2> HIDE DEF OpenStart
  <2> QED
    BY <2>1 DEF DecStates, DecPlaces
<1> USE PlayerConstants DEF OpenStart, NoThread, PlayerInv, Types, DecStates
<1>0. heard = 0 /\ dec.pos = 0 /\ opens < MaxOpens
  BY DEF Between, Counts
<1>1. Types'
  <2>1. dec' \in DecStates
    BY <1>t
  <2>2. opens' \in 0 .. MaxOpens
    BY <1>0
  <2>3. emu' \in [pc : {"idle", "join", "start"}, open : BOOLEAN]
    OBVIOUS
  <2> QED
    BY <2>1, <2>2, <2>3
<1>2. Ring'
  <2>1. ring = Samples(opens, 0, 0)
    BY <1>0, RingLength
  <2>2. ring' = Samples(opens', 0, 0) /\ dec'.pos - heard' = 0 /\ heard' = 0
    BY <1>0, <2>1, NoSamples
  <2> QED
    BY <2>2 DEF Ring, Samples
<1>3. Counts'
  BY <1>0 DEF Counts
<1>4. Room'
  BY DEF Room
<1>5. Between'
  BY <1>0 DEF Between
<1>6. Ending'
  BY DEF Ending
<1> QED
  BY <1>1, <1>2, <1>3, <1>4, <1>5, <1>6

LEMMA SetPausedInv ==
  ASSUME PlayerInv, NEW p \in BOOLEAN, SetPaused(p)
  PROVE  PlayerInv'
<1> USE DEF SetPaused, PlayerInv
<1>1. Types'
  BY DEF Types
<1> QED
  BY <1>1 DEF Ring, Counts, Room, Between, Ending

LEMMA DecOpenInv ==
  ASSUME PlayerInv, DecOpen
  PROVE  PlayerInv'
<1> USE PlayerConstants DEF DecOpen, DecOnly, PlayerInv, Types, DecStates
<1>1. Types'
  BY DEF DecStates, DecPlaces
<1>2. Ring'
  BY DEF Ring
<1>3. Counts'
  BY DEF Counts
<1>4. Room'
  BY DEF Room
<1>5. Between'
  BY DEF Between
<1>6. Ending'
  BY DEF Ending, Between, Counts
<1> QED
  BY <1>1, <1>2, <1>3, <1>4, <1>5, <1>6

LEMMA DecHeadInv ==
  ASSUME PlayerInv, DecHead
  PROVE  PlayerInv'
<1> USE PlayerConstants DEF DecHead, DecOnly, PlayerInv, Types, DecStates
<1>1. Types'
  BY DEF DecStates, DecPlaces
<1>2. Ring'
  BY DEF Ring
<1>3. Counts'
  BY DEF Counts
<1>4. Room'
  BY DEF Room
<1>5. Between'
  BY DEF Between
<1>6. Ending'
  BY DEF Ending
<1> QED
  BY <1>1, <1>2, <1>3, <1>4, <1>5, <1>6

LEMMA DecGateInv ==
  ASSUME PlayerInv, DecGate
  PROVE  PlayerInv'
<1> USE PlayerConstants DEF DecGate, DecOnly, PlayerInv, Types, DecStates
<1>1. Types'
  BY DEF DecStates, DecPlaces
<1>2. Ring'
  BY DEF Ring
<1>3. Counts'
  BY DEF Counts
<1>4. Room'
  BY DEF Room
<1>5. Between'
  BY DEF Between
<1>6. Ending'
  BY DEF Ending, Counts
<1> QED
  BY <1>1, <1>2, <1>3, <1>4, <1>5, <1>6

LEMMA DecWakeInv ==
  ASSUME PlayerInv, DecWake
  PROVE  PlayerInv'
<1> USE PlayerConstants DEF DecWake, DecOnly, PlayerInv, Types, DecStates
<1>1. Types'
  BY DEF DecStates, DecPlaces
<1>2. Ring'
  BY DEF Ring
<1>3. Counts'
  BY DEF Counts
<1>4. Room'
  BY DEF Room
<1>5. Between'
  BY DEF Between
<1>6. Ending'
  BY DEF Ending
<1> QED
  BY <1>1, <1>2, <1>3, <1>4, <1>5, <1>6

LEMMA DecPacketInv ==
  ASSUME PlayerInv, DecPacket
  PROVE  PlayerInv'
<1>t. dec' \in DecStates
  <2> DEFINE f == dec.fed + 1
  <2>1. PICK k \in 0 .. dec.fed + 1 - dec.pos :
          dec' = [dec EXCEPT !.pc = "emit", !.fed = @ + 1, !.batch = k]
    BY DEF DecPacket
  <2>2. f \in Nat /\ k \in Nat
    BY <2>1 DEF PlayerInv, Types, DecStates
  <2>3. dec' = [dec EXCEPT !.pc = "emit", !.fed = f, !.batch = k]
    BY <2>1
  <2> HIDE DEF f
  <2> QED
    BY <2>2, <2>3 DEF PlayerInv, Types, DecStates, DecPlaces
<1> USE PlayerConstants DEF DecPacket, DecOnly, PlayerInv, Types, DecStates
<1>1. Types'
  BY <1>t
<1>2. Ring'
  BY DEF Ring
<1>3. Counts'
  BY DEF Counts
<1>4. Room'
  BY DEF Room
<1>5. Between'
  BY DEF Between
<1>6. Ending'
  BY DEF Ending, Counts
<1> QED
  BY <1>1, <1>2, <1>3, <1>4, <1>5, <1>6

LEMMA DecEndInv ==
  ASSUME PlayerInv, DecEnd
  PROVE  PlayerInv'
<1>t. dec' \in DecStates
  <2> DEFINE b == dec.fed - dec.pos
  <2>1. b \in Nat
    BY DEF PlayerInv, Types, DecStates, Counts, DecEnd
  <2>2. dec' = [dec EXCEPT !.pc = "emit", !.draining = TRUE, !.batch = b]
    BY DEF DecEnd
  <2> HIDE DEF b
  <2> QED
    BY <2>1, <2>2 DEF PlayerInv, Types, DecStates, DecPlaces
<1> USE PlayerConstants DEF DecEnd, DecOnly, PlayerInv, Types, DecStates
<1>1. Types'
  BY <1>t
<1>2. Ring'
  BY DEF Ring
<1>3. Counts'
  BY DEF Counts
<1>4. Room'
  BY DEF Room
<1>5. Between'
  BY DEF Between
<1>6. Ending'
  BY DEF Ending, Counts
<1> QED
  BY <1>1, <1>2, <1>3, <1>4, <1>5, <1>6

LEMMA DecEmitInv ==
  ASSUME PlayerInv, DecEmit
  PROVE  PlayerInv'
<1> DEFINE n == dec.pos - heard
           b == dec.batch
<1>0. opens \in Nat /\ heard \in Nat /\ n \in Nat
  BY RingLength
<1>a. b \in Nat /\ heard + n = dec.pos /\ n + b \in Nat
  BY <1>0 DEF PlayerInv, Types, DecStates
<1>b. ring' = Samples(opens, heard, n + b)
  <2>1. ring' = ring \o Samples(opens, dec.pos, b)
    BY DEF Samples, DecEmit
  <2>2. Samples(opens, heard, n) \o Samples(opens, heard + n, b)
          = Samples(opens, heard, n + b)
    <3> HIDE DEF n, b
    <3>1. b \in Nat
      BY <1>a
    <3> QED
      BY <1>0, <3>1, SamplesAppended, Zenon
  <2>3. ring = Samples(opens, heard, n)
    BY RingLength
  <2> QED
    BY <1>a, <2>1, <2>2, <2>3
<1>c. Len(ring') = n + b
  <2>1. Len(Samples(opens, heard, n + b)) = n + b
    <3> HIDE DEF n, b
    <3>1. n + b \in Nat
      BY <1>a
    <3> QED
      BY <1>0, <3>1, SamplesAreSeq, Zenon
  <2> QED
    BY <1>b, <2>1
<1>d. dec'.pos - heard' = n + b
  BY <1>0, <1>a DEF PlayerInv, Types, DecStates, DecEmit, DecOnly
<1>t. dec' \in DecStates
  <2> DEFINE p == dec.pos + b
  <2>1. p \in Nat
    BY <1>a DEF PlayerInv, Types, DecStates
  <2>2. dec' = [dec EXCEPT !.pc = "head", !.pos = p, !.batch = 0]
    BY DEF DecEmit
  <2> HIDE DEF p
  <2> QED
    BY <2>1, <2>2 DEF PlayerInv, Types, DecStates, DecPlaces
<1> USE PlayerConstants DEF DecEmit, DecOnly, PlayerInv, Types, DecStates
<1>1. Types'
  BY <1>t
<1>2. Ring'
  BY <1>b, <1>d DEF Ring, Samples
<1>3. Counts'
  BY DEF Counts
<1>4. Room'
  BY <1>0, <1>a, <1>c, RingLength DEF Room, Counts
<1>5. Between'
  BY DEF Between
<1>6. Ending'
  BY DEF Ending, Counts
<1> QED
  BY <1>1, <1>2, <1>3, <1>4, <1>5, <1>6

LEMMA DecExitInv ==
  ASSUME PlayerInv, DecExit
  PROVE  PlayerInv'
<1> USE PlayerConstants DEF DecExit, DecOnly, PlayerInv, Types, DecStates
<1>1. Types'
  BY DEF DecStates, DecPlaces
<1>2. Ring'
  BY DEF Ring
<1>3. Counts'
  BY DEF Counts
<1>4. Room'
  BY DEF Room
<1>5. Between'
  BY DEF Between
<1>6. Ending'
  BY DEF Ending
<1> QED
  BY <1>1, <1>2, <1>3, <1>4, <1>5, <1>6

LEMMA CbEnterInv ==
  ASSUME PlayerInv, CbEnter
  PROVE  PlayerInv'
<1> USE PlayerConstants DEF CbEnter, CbOnly, PlayerInv, Types, DecStates
<1>1. Types'
  BY DEF DecStates, DecPlaces
<1>2. Ring'
  BY DEF Ring
<1>3. Counts'
  BY DEF Counts
<1>4. Room'
  BY DEF Room
<1>5. Between'
  BY DEF Between
<1>6. Ending'
  BY DEF Ending
<1> QED
  BY <1>1, <1>2, <1>3, <1>4, <1>5, <1>6

(* The next k samples of the ring are of the track now open.               *)
LEMMA NextSamples ==
  ASSUME PlayerInv, NEW k \in 0 .. Len(ring)
  PROVE  /\ SubSeq(ring, k + 1, Len(ring))
             = Samples(opens, heard + k, Len(ring) - k)
         /\ Current(k) = k
<1> DEFINE n == dec.pos - heard
<1>1. opens \in Nat /\ heard \in Nat /\ n \in Nat
  BY RingLength
<1>2. ring = Samples(opens, heard, n)
  BY RingLength
<1>3. Len(ring) = n
  BY RingLength
<1> HIDE DEF n
<1>4. k \in 0 .. n
  BY <1>3
<1>5. SubSeq(Samples(opens, heard, n), k + 1, n)
        = Samples(opens, heard + k, n - k)
  BY <1>1, <1>4, SamplesTaken, Zenon
<1>6. Cardinality({i \in 1 .. k : Samples(opens, heard, n)[i][1] = opens}) = k
  BY <1>1, <1>4, SamplesCounted
<1> QED
  BY <1>2, <1>3, <1>5, <1>6 DEF Current

(* What the callback takes is the next samples of the track.               *)
LEMMA Taken ==
  ASSUME PlayerInv,
         ring' = SubSeq(ring, Mixable + 1, Len(ring)),
         heard' = heard + Current(Mixable),
         opens' = opens, dec'.pos = dec.pos
  PROVE  /\ Mixable \in 0 .. NSamp
         /\ heard' \in Nat /\ heard <= heard' /\ heard' <= dec.pos
         /\ Ring' /\ Len(ring') \in Nat /\ Len(ring) \in Nat
         /\ Len(ring') <= Len(ring)
         /\ heard = heard' \/ 0 < dec.pos
<1> DEFINE n == Len(ring)
           k == Mixable
<1>1. opens \in Nat /\ heard \in Nat /\ n \in Nat /\ n = dec.pos - heard
  BY RingLength
<1>2. dec.pos \in Nat
  BY DEF PlayerInv, Types, DecStates
<1>3. k \in 0 .. n /\ k \in 0 .. NSamp
  BY <1>1, PlayerConstants DEF Mixable
<1>4. SubSeq(ring, k + 1, n) = Samples(opens, heard + k, n - k)
  BY <1>3, NextSamples
<1>5. Current(k) = k
  BY <1>3, NextSamples
<1> HIDE DEF n
<1>6. ring' = Samples(opens, heard + k, n - k) /\ heard' = heard + k
  BY <1>4, <1>5 DEF n
<1> HIDE DEF k
<1>7. Len(ring') = n - k
  <2>1. heard + k \in Nat /\ n - k \in Nat
    BY <1>1, <1>3
  <2>2. Len(Samples(opens, heard + k, n - k)) = n - k
    BY <1>1, <2>1, SamplesAreSeq
  <2> QED
    BY <1>6, <2>2
<1>8. dec'.pos - heard' = n - k
  BY <1>1, <1>2, <1>3, <1>6
<1>9. Ring'
  BY <1>6, <1>8 DEF Ring, Samples
<1>10. /\ heard' \in Nat /\ heard <= heard' /\ heard' <= dec.pos
       /\ heard = heard' \/ 0 < dec.pos
  BY <1>1, <1>2, <1>3, <1>6
<1>11. n - k \in Nat /\ n - k <= n
  BY <1>1, <1>3
<1> QED
  BY <1>1, <1>3, <1>7, <1>9, <1>10, <1>11 DEF k, n

LEMMA CbMixMutedInv ==
  ASSUME PlayerInv, CbMixMuted
  PROVE  PlayerInv'
<1>t. dec' \in DecStates
  BY DEF PlayerInv, Types, DecStates, DecPlaces, CbMixMuted, Notified
<1>0. /\ Mixable \in 0 .. NSamp
      /\ heard' \in Nat /\ heard <= heard' /\ heard' <= dec.pos
      /\ Ring' /\ Len(ring') \in Nat /\ Len(ring) \in Nat
      /\ Len(ring') <= Len(ring)
      /\ heard = heard' \/ 0 < dec.pos
  <2>1. dec'.pos = dec.pos
    BY DEF PlayerInv, Types, DecStates, CbMixMuted, Notified
  <2> QED
    BY <2>1, Taken DEF CbMixMuted, CbOnly
<1>r. Room'
  <2>1. dec'.pc = dec.pc
    BY DEF PlayerInv, Types, DecStates, CbMixMuted, Notified
  <2>2. Len(ring) <= RingTarget + Delay
    BY DEF PlayerInv, Room
  <2>3. Len(ring') <= RingTarget + Delay
    BY <1>0, <2>2, PlayerConstants
  <2>4. ASSUME dec'.pc \in {"read", "emit"}
        PROVE  Len(ring') < RingTarget
    <3>1. dec.pc \in {"read", "emit"}
      BY <2>1, <2>4
    <3>2. Len(ring) < RingTarget
      BY <3>1 DEF PlayerInv, Room
    <3> QED
      BY <1>0, <3>2, PlayerConstants
  <2> QED
    BY <2>3, <2>4 DEF Room
<1> USE PlayerConstants DEF CbMixMuted, CbOnly, Notified, PlayerInv,
       Types, DecStates
<1>1. Types'
  <2>1. consumed' \in Nat
    BY <1>0
  <2>2. cb' \in [pc : {"idle", "mix", "count"}, mixed : 0 .. NSamp]
    OBVIOUS
  <2> QED
    BY <1>0, <1>t, <2>1, <2>2
<1>2. Ring'
  BY <1>0
<1>3. Counts'
  BY <1>0 DEF Counts
<1>4. Room'
  BY <1>r
<1>5. Between'
  BY <1>0 DEF Between, Counts
<1>6. Ending'
  BY DEF Ending
<1> QED
  BY <1>1, <1>2, <1>3, <1>4, <1>5, <1>6

LEMMA CbMixInv ==
  ASSUME PlayerInv, CbMix
  PROVE  PlayerInv'
<1> USE PlayerConstants DEF CbMix, CbOnly, PlayerInv, Types, DecStates
<1>0. /\ Mixable \in 0 .. NSamp
      /\ heard' \in Nat /\ heard <= heard' /\ heard' <= dec.pos
      /\ Ring' /\ Len(ring') \in Nat /\ Len(ring) \in Nat
      /\ Len(ring') <= Len(ring)
      /\ heard = heard' \/ 0 < dec.pos
  BY Taken
<1>1. Types'
  BY <1>0 DEF DecStates, DecPlaces
<1>2. Ring'
  BY <1>0
<1>3. Counts'
  BY <1>0 DEF Counts
<1>4. Room'
  BY <1>0 DEF Room
<1>5. Between'
  BY <1>0 DEF Between, Counts
<1>6. Ending'
  BY DEF Ending
<1> QED
  BY <1>1, <1>2, <1>3, <1>4, <1>5, <1>6

LEMMA CbCountInv ==
  ASSUME PlayerInv, CbCount
  PROVE  PlayerInv'
<1>t. dec' \in DecStates
  BY DEF PlayerInv, Types, DecStates, DecPlaces, CbCount, Notified
<1> USE PlayerConstants DEF CbCount, CbOnly, Notified, PlayerInv,
       Types, DecStates
<1>1. Types'
  <2>1. consumed' \in Nat
    OBVIOUS
  <2>2. cb' \in [pc : {"idle", "mix", "count"}, mixed : 0 .. NSamp]
    OBVIOUS
  <2> QED
    BY <1>t, <2>1, <2>2
<1>2. Ring'
  BY DEF Ring
<1>3. Counts'
  BY DEF Counts
<1>4. Room'
  BY DEF Room
<1>5. Between'
  BY DEF Between
<1>6. Ending'
  BY DEF Ending
<1> QED
  BY <1>1, <1>2, <1>3, <1>4, <1>5, <1>6
-----------------------------------------------------------------------------
LEMMA NextInv == PlayerInv /\ [Next]_vars => PlayerInv'
<1> SUFFICES ASSUME PlayerInv, [Next]_vars PROVE PlayerInv'
  OBVIOUS
<1>1. CASE Emulation
  BY <1>1, CloseStartInv, CloseFinishInv, OpenStartInv, SetPausedInv
     DEF Emulation
<1>2. CASE Decoder
  BY <1>2, DecOpenInv, DecHeadInv, DecGateInv, DecWakeInv, DecPacketInv,
     DecEndInv, DecEmitInv, DecExitInv
     DEF Decoder
<1>3. CASE Callback
  BY <1>3, CbEnterInv, CbMixMutedInv, CbMixInv, CbCountInv DEF Callback
<1>4. CASE UNCHANGED vars
  BY <1>4 DEF vars, PlayerInv, Types, Ring, Counts, Room, Between, Ending
<1> QED
  BY <1>1, <1>2, <1>3, <1>4 DEF Next

(* PlayerInv holds of every behaviour of the three threads.                *)
THEOREM PlayerInvariant == Spec => []PlayerInv
<1> QED
  BY InitInv, NextInv, PTL DEF Spec

(* Whatever the sizes, the ring is always the samples between what was     *)
(* heard and what was decoded, in order and all of the track now open: a   *)
(* close() and an open() racing the decoder and the callback lose, repeat, *)
(* reorder or leave over none, and the decoder runs one batch past its     *)
(* target at most.                                                         *)
THEOREM RingHoldsTheNext == Spec => []RingIsNext
<1>1. PlayerInv => RingIsNext
  <2> SUFFICES ASSUME PlayerInv PROVE RingIsNext
    OBVIOUS
  <2>1. TypeOK
    BY PlayerConstants DEF PlayerInv, Types, DecStates, DecPlaces, Room,
                           Counts, TypeOK
  <2> QED
    BY <2>1 DEF PlayerInv, Ring, RingIsNext
<1> QED
  BY <1>1, PlayerInvariant, PTL

(* When the transport sees the track finished, every sample of every       *)
(* packet that was read has been heard, the tail libav held back included. *)
THEOREM FinishedMeansHeard == Spec => []FinishedIsHeard
<1>1. PlayerInv => FinishedIsHeard
  <2> SUFFICES ASSUME PlayerInv, emu.pc = "idle", Finished
               PROVE  heard = dec.fed
    BY DEF FinishedIsHeard
  <2>1. dec.pc = "exit" /\ ~quit
    BY DEF PlayerInv, Ending, Finished
  <2>2. dec.pos = dec.fed
    BY <2>1 DEF PlayerInv, Ending
  <2>3. Len(ring) = 0
    BY DEF Finished
  <2>4. dec.pos - heard = 0
    BY <2>3, RingLength
  <2> QED
    BY <2>2, <2>4 DEF PlayerInv, Types, DecStates
<1> QED
  BY <1>1, PlayerInvariant, PTL
-----------------------------------------------------------------------------
(* CDPlayer implements DriveDAC.                                           *)

(* A step that leaves what the transport sees as it was.                   *)
LEMMA Unseen ==
  ASSUME active' = active, heard' = heard, Finished' = Finished,
         paused' = paused,
         (paused /\ cb.pc = "mix")' = (paused /\ cb.pc = "mix")
  PROVE  AsDac' = AsDac
BY DEF AsDac

(* Records are compared field by field.                                    *)
LEMMA SeenAs ==
  ASSUME NEW o, NEW h, NEW f, NEW p, NEW l,
         active' = o, heard' = h, Finished' = f, paused' = p,
         (paused /\ cb.pc = "mix")' = l
  PROVE  AsDac' = [on |-> o, heard |-> h, over |-> f, paused |-> p, late |-> l]
BY DEF AsDac

LEMMA Seen ==
  /\ AsDac = [on |-> AsDac.on, heard |-> AsDac.heard, over |-> AsDac.over,
              paused |-> AsDac.paused, late |-> AsDac.late]
  /\ AsDac.on = active /\ AsDac.heard = heard /\ AsDac.over = Finished
  /\ AsDac.paused = paused /\ AsDac.late = (paused /\ cb.pc = "mix")
BY DEF AsDac

(* What the steps of DriveDAC make of it, a field at a time.               *)
LEMMA StartedIs ==
  ASSUME NEW o, NEW h, NEW f, NEW p, NEW l
  PROVE  [AsDac EXCEPT !.on = o, !.heard = h, !.over = f, !.paused = p,
                        !.late = l]
           = [on |-> o, heard |-> h, over |-> f,
              paused |-> p, late |-> l]
<1> DEFINE r1 == [AsDac EXCEPT !.on = o]
           r2 == [r1 EXCEPT !.heard = h]
           r3 == [r2 EXCEPT !.over = f]
           r4 == [r3 EXCEPT !.paused = p]
           r5 == [r4 EXCEPT !.late = l]
<1>1. r1 = [on |-> o, heard |-> AsDac.heard, over |-> AsDac.over,
            paused |-> AsDac.paused, late |-> AsDac.late]
  BY Seen
<1> HIDE DEF r1
<1>2. r2 = [on |-> o, heard |-> h, over |-> AsDac.over,
            paused |-> AsDac.paused, late |-> AsDac.late]
  BY <1>1
<1> HIDE DEF r2
<1>3. r3 = [on |-> o, heard |-> h, over |-> f,
            paused |-> AsDac.paused, late |-> AsDac.late]
  BY <1>2
<1> HIDE DEF r3
<1>4. r4 = [on |-> o, heard |-> h, over |-> f,
            paused |-> p, late |-> AsDac.late]
  BY <1>3
<1> HIDE DEF r4
<1>5. r5 = [on |-> o, heard |-> h, over |-> f,
            paused |-> p, late |-> l]
  BY <1>4
<1> QED
  BY <1>5 DEF r1, r2, r3, r4

LEMMA ShutIs ==
  ASSUME NEW o, NEW h, NEW f
  PROVE  [AsDac EXCEPT !.on = o, !.heard = h, !.over = f]
           = [on |-> o, heard |-> h, over |-> f,
              paused |-> AsDac.paused, late |-> AsDac.late]
<1> DEFINE r1 == [AsDac EXCEPT !.on = o]
           r2 == [r1 EXCEPT !.heard = h]
           r3 == [r2 EXCEPT !.over = f]
<1>1. r1 = [on |-> o, heard |-> AsDac.heard, over |-> AsDac.over,
            paused |-> AsDac.paused, late |-> AsDac.late]
  BY Seen
<1> HIDE DEF r1
<1>2. r2 = [on |-> o, heard |-> h, over |-> AsDac.over,
            paused |-> AsDac.paused, late |-> AsDac.late]
  BY <1>1
<1> HIDE DEF r2
<1>3. r3 = [on |-> o, heard |-> h, over |-> f,
            paused |-> AsDac.paused, late |-> AsDac.late]
  BY <1>2
<1> QED
  BY <1>3 DEF r1, r2

LEMMA OverIs ==
  ASSUME NEW f
  PROVE  [AsDac EXCEPT !.over = f]
           = [on |-> AsDac.on, heard |-> AsDac.heard, over |-> f,
              paused |-> AsDac.paused, late |-> AsDac.late]
BY Seen

LEMMA PausedIs ==
  ASSUME NEW p, NEW l
  PROVE  [AsDac EXCEPT !.paused = p, !.late = l]
           = [on |-> AsDac.on, heard |-> AsDac.heard, over |-> AsDac.over,
              paused |-> p, late |-> l]
<1> DEFINE r1 == [AsDac EXCEPT !.paused = p]
           r2 == [r1 EXCEPT !.late = l]
<1>1. r1 = [on |-> AsDac.on, heard |-> AsDac.heard, over |-> AsDac.over,
            paused |-> p, late |-> AsDac.late]
  BY Seen
<1> HIDE DEF r1
<1>2. r2 = [on |-> AsDac.on, heard |-> AsDac.heard, over |-> AsDac.over,
            paused |-> p, late |-> l]
  BY <1>1
<1> QED
  BY <1>2 DEF r1

LEMMA HeardIs ==
  ASSUME NEW h, NEW l, NEW f
  PROVE  [AsDac EXCEPT !.heard = h, !.late = l, !.over = f]
           = [on |-> AsDac.on, heard |-> h, over |-> f,
              paused |-> AsDac.paused, late |-> l]
<1> DEFINE r1 == [AsDac EXCEPT !.heard = h]
           r2 == [r1 EXCEPT !.late = l]
           r3 == [r2 EXCEPT !.over = f]
<1>1. r1 = [on |-> AsDac.on, heard |-> h, over |-> AsDac.over,
            paused |-> AsDac.paused, late |-> AsDac.late]
  BY Seen
<1> HIDE DEF r1
<1>2. r2 = [on |-> AsDac.on, heard |-> h, over |-> AsDac.over,
            paused |-> AsDac.paused, late |-> l]
  BY <1>1
<1> HIDE DEF r2
<1>3. r3 = [on |-> AsDac.on, heard |-> h, over |-> f,
            paused |-> AsDac.paused, late |-> l]
  BY <1>2
<1> QED
  BY <1>3 DEF r1, r2

LEMMA EmulationIsDac ==
  ASSUME PlayerInv, Emulation
  PROVE  [Dac!DacNext]_AsDac
<1>1. ASSUME NEW o \in BOOLEAN, CloseStart(o)
      PROVE  AsDac' = AsDac
  BY <1>1, Unseen DEF CloseStart, Finished
<1>2. CASE CloseFinish
  <2>1. /\ active' = FALSE /\ heard' = 0 /\ Finished' = FALSE
        /\ paused' = AsDac.paused
        /\ (paused /\ cb.pc = "mix")' = AsDac.late
    BY <1>2, Seen DEF CloseFinish, Finished
  <2>2. AsDac' = [on |-> FALSE, heard |-> 0, over |-> FALSE,
                  paused |-> AsDac.paused, late |-> AsDac.late]
    BY <2>1, SeenAs
  <2>3. Dac!Shut(AsDac) = [on |-> FALSE, heard |-> 0, over |-> FALSE,
                           paused |-> AsDac.paused, late |-> AsDac.late]
    BY ShutIs DEF Dac!Shut
  <2> QED
    BY <2>2, <2>3 DEF Dac!DacNext, Dac!Off
<1>3. CASE OpenStart
  <2>1. heard = 0
    BY <1>3 DEF OpenStart, PlayerInv, Between
  <2>2. /\ active' = TRUE /\ heard' = 0 /\ Finished' = FALSE
        /\ paused' = FALSE /\ (paused /\ cb.pc = "mix")' = FALSE
    BY <1>3, <2>1 DEF OpenStart, Finished
  <2>3. AsDac' = [on |-> TRUE, heard |-> 0, over |-> FALSE,
                  paused |-> FALSE, late |-> FALSE]
    BY <2>2, SeenAs
  <2>4. Dac!Started(AsDac) = [on |-> TRUE, heard |-> 0, over |-> FALSE,
                              paused |-> FALSE, late |-> FALSE]
    <3> DEFINE t == TRUE
               f == FALSE
    <3>1. Dac!Started(AsDac)
            = [AsDac EXCEPT !.on = t, !.heard = 0, !.over = f, !.paused = f,
                            !.late = f]
      BY DEF Dac!Started
    <3> HIDE DEF t, f
    <3>2. Dac!Started(AsDac) = [on |-> t, heard |-> 0, over |-> f,
                                paused |-> f, late |-> f]
      BY <3>1, StartedIs
    <3> QED
      BY <3>2 DEF t, f
  <2> QED
    BY <2>3, <2>4 DEF Dac!DacNext, Dac!Start
<1>4. ASSUME NEW p \in BOOLEAN, SetPaused(p)
      PROVE  Dac!DacNext
  <2> DEFINE l == p /\ cb.pc = "mix"
  <2>1. /\ active' = AsDac.on /\ heard' = AsDac.heard
        /\ Finished' = AsDac.over
        /\ paused' = p /\ (paused /\ cb.pc = "mix")' = l
    BY <1>4, Seen DEF SetPaused, Finished
  <2>2. l \in {FALSE, p}
    OBVIOUS
  <2> HIDE DEF l
  <2>3. AsDac' = [on |-> AsDac.on, heard |-> AsDac.heard, over |-> AsDac.over,
                  paused |-> p, late |-> l]
    BY <2>1, SeenAs
  <2>4. AsDac' = [AsDac EXCEPT !.paused = p, !.late = l]
    BY <2>3, PausedIs
  <2>5. Dac!Pause(p)
    BY <2>2, <2>4 DEF Dac!Pause
  <2> QED
    BY <2>5 DEF Dac!DacNext
<1> QED
  BY <1>1, <1>2, <1>3, <1>4 DEF Emulation

(* The decoder ends a track at most.                                       *)
LEMMA DecoderIsDac ==
  ASSUME PlayerInv, Decoder
  PROVE  [Dac!DacNext]_AsDac
<1>1. /\ active' = active /\ heard' = heard /\ paused' = paused /\ cb' = cb
      /\ active \in BOOLEAN
  BY DEF Decoder, DecOnly, DecOpen, DecHead, DecGate, DecWake, DecPacket,
         DecEnd, DecEmit, DecExit, PlayerInv, Types
<1>2. eof' = FALSE \/ ring' = ring
  BY DEF Decoder, DecOnly, DecOpen, DecHead, DecGate, DecWake, DecPacket,
         DecEnd, DecEmit, DecExit, PlayerInv, Types, Ending
<1>3. ~eof
  BY DEF Decoder, DecOpen, DecHead, DecGate, DecWake, DecPacket,
         DecEnd, DecEmit, DecExit, PlayerInv, Types, Ending
<1>4. CASE Finished' = Finished
  BY <1>1, <1>4, Unseen
<1>5. CASE Finished' # Finished
  <2>1. active /\ Finished' = TRUE
    BY <1>1, <1>3, <1>5 DEF Finished
  <2>2. /\ active' = AsDac.on /\ heard' = AsDac.heard
        /\ paused' = AsDac.paused
        /\ (paused /\ cb.pc = "mix")' = AsDac.late
    BY <1>1, Seen
  <2>3. AsDac' = [on |-> AsDac.on, heard |-> AsDac.heard, over |-> TRUE,
                  paused |-> AsDac.paused, late |-> AsDac.late]
    BY <2>1, <2>2, SeenAs
  <2>4. AsDac' = [AsDac EXCEPT !.over = TRUE]
    BY <2>3, OverIs
  <2>5. Dac!End
    BY <2>1, <2>4, Seen DEF Dac!End
  <2> QED
    BY <2>5 DEF Dac!DacNext
<1> QED
  BY <1>4, <1>5

(* A buffer is heard under the lock.                                       *)
LEMMA MixIsDac ==
  ASSUME PlayerInv, CbMix \/ CbMixMuted
  PROVE  Dac!DacNext
<1> DEFINE k == Mixable
<1>1. /\ cb.pc = "mix" /\ cb'.pc # "mix"
      /\ active' = active /\ eof' = eof /\ paused' = paused
      /\ opens' = opens
      /\ ring' = SubSeq(ring, k + 1, Len(ring))
      /\ heard' = heard + Current(k)
      /\ active \in BOOLEAN /\ eof \in BOOLEAN
  BY DEF CbMix, CbMixMuted, CbOnly, PlayerInv, Types
<1>2. k \in 0 .. NSamp /\ k \in 0 .. Len(ring)
  BY RingLength, PlayerConstants DEF Mixable
<1> HIDE DEF k
<1>3. heard' = heard + k
  BY <1>1, <1>2, NextSamples
<1>4. k > 0 => active /\ ~Finished
  <2> SUFFICES ASSUME k > 0 PROVE active /\ ~Finished
    OBVIOUS
  <2>1. Len(ring) > 0 /\ Len(ring) = dec.pos - heard
    BY <1>2, RingLength
  <2>2. ring # <<>>
    BY <2>1
  <2>3. dec.pos > 0
    BY <2>1 DEF PlayerInv, Types, DecStates
  <2>4. active
    BY <2>3 DEF PlayerInv, Types, DecStates, Between, Counts
  <2> QED
    BY <2>2, <2>4 DEF Finished
<1>5. Finished => Finished'
  <2> SUFFICES ASSUME Finished PROVE Finished'
    OBVIOUS
  <2>1. k = 0
    BY <1>2, <1>4
  <2>2. ring' = <<>>
    BY <1>1, <2>1 DEF Finished
  <2> QED
    BY <1>1, <2>2 DEF Finished
<1>6. Finished \in BOOLEAN /\ Finished' \in BOOLEAN /\ (Finished' => active)
  BY <1>1 DEF Finished
<1> DEFINE f == Finished \/ (Finished' /\ active)
<1>7. AsDac' = [AsDac EXCEPT !.heard = heard + k, !.late = FALSE, !.over = f]
  <2>1. /\ Finished' = f /\ (paused /\ cb.pc = "mix")' = FALSE
        /\ active' = AsDac.on /\ heard' = heard + k
        /\ paused' = AsDac.paused
    BY <1>1, <1>3, <1>5, <1>6, Seen
  <2> HIDE DEF f
  <2>2. AsDac' = [on |-> AsDac.on, heard |-> heard + k, over |-> f,
                  paused |-> AsDac.paused, late |-> FALSE]
    BY <2>1, SeenAs
  <2> QED
    BY <2>2, HeardIs
<1>8. ~AsDac.paused \/ AsDac.late
  BY <1>1, Seen
<1>9. /\ AsDac.heard = heard /\ AsDac.on = active /\ AsDac.over = Finished
  BY Seen
<1>10. Dac!Hear
  BY <1>2, <1>4, <1>6, <1>7, <1>8, <1>9 DEF Dac!Hear
<1> QED
  BY <1>10 DEF Dac!DacNext

LEMMA StepIsDac == PlayerInv /\ [Next]_vars => [Dac!DacNext]_AsDac
<1> SUFFICES ASSUME PlayerInv, [Next]_vars PROVE [Dac!DacNext]_AsDac
  OBVIOUS
<1>1. CASE Emulation
  BY <1>1, EmulationIsDac
<1>2. CASE Decoder
  BY <1>2, DecoderIsDac
<1>3. CASE Callback
  <2>1. CASE CbEnter
    BY <2>1, Unseen DEF CbEnter, CbOnly, Finished, PlayerInv, Types
  <2>2. CASE CbCount
    BY <2>2, Unseen DEF CbCount, CbOnly, Finished, PlayerInv, Types
  <2> QED
    BY <1>3, <2>1, <2>2, MixIsDac DEF Callback
<1>4. CASE UNCHANGED vars
  BY <1>4, Unseen DEF vars, Finished
<1> QED
  BY <1>1, <1>2, <1>3, <1>4 DEF Next

(* The player keeps what the virtual drive relies on: a track is begun,    *)
(* heard in buffers and over after its last sample, and a pause lets at    *)
(* most the buffer through that is already being mixed.                    *)
THEOREM PlayerIsDac == Spec => PlaysAsDac
<1>1. Init => Dac!DacInit
  BY DEF Init, Dac!DacInit, AsDac, Finished
<1> QED
  BY <1>1, StepIsDac, PlayerInvariant, PTL DEF Spec, PlaysAsDac, Dac!DacSpec

-----------------------------------------------------------------------------
(* The transport and the music manager above it.                           *)

States == {"stopped", "playing", "paused", "completed"}

Drives ==
  [state : States, cur : 0 .. LastTrack, end : 0 .. LastTrack, pausedAt : 0 .. MaxTicks,
   since : 0 .. MaxTicks, out : BOOLEAN]

Dacs ==
  [on : BOOLEAN, heard : 0 .. MaxTicks, over : BOOLEAN, paused : BOOLEAN,
   late : BOOLEAN]

Musics ==
  [made : BOOLEAN, mood : Moods \cup {Silence}, enabled : BOOLEAN,
   mute : BOOLEAN, call : {"none", "query", "poll", "play"}, auto : BOOLEAN]

(* What holds of the transport c, the player p, the device d and the ticks *)
(* r that the track has run.  The wall clock is the track's, unless the    *)
(* player has it: a pause does not count.  The player has one only when    *)
(* its sound is wanted, and only then says that one is over.               *)
Sound(c, p, d, r) ==
  /\ c \in Drives /\ p \in Dacs /\ d \in BOOLEAN /\ r \in 0 .. MaxTicks
  /\ c.state \in {"playing", "paused"} => c.cur \in Tracks /\ c.cur <= c.end
  /\ c.state \notin {"playing", "paused"} => c.cur = 0 /\ ~p.on
  /\ c.out => d
  /\ p.on => d /\ c.out /\ (p.paused <=> c.state = "paused")
  /\ p.over => p.on
  /\ ~p.on /\ c.state = "playing" => c.since = r
  /\ ~p.on /\ c.state = "paused" => c.pausedAt = r

(* The current track has reached its end; the tracks after it.             *)
AtEnd(c, p, r) == IF p.on THEN p.over ELSE r >= Duration[c.cur]
After(c)       == {t \in Tracks : c.cur < t /\ t <= c.end}

(* The account o of a range that is being played: the tracks after the     *)
(* current one, and that one until it has reached its end.  Nothing is     *)
(* left on it once the range is completed.                                 *)
Account(c, p, r, o) ==
  /\ o \subseteq Tracks
  /\ c.state \in {"playing", "paused"}
       => o = IF AtEnd(c, p, r) THEN After(c) ELSE After(c) \cup {c.cur}
  /\ c.state = "completed" => o = {}

(* An auto-advance is under way only while the drive is idle.              *)
AutoIdle(m, c) ==
  m.auto /\ m.call \in {"query", "play"} => c.state \in {"stopped", "completed"}

DriveInv ==
  /\ Sound(cd, dac, device, ran)
  /\ Account(cd, dac, ran, owed)
  /\ music \in Musics /\ wait \in 0 .. Gap
  /\ AutoIdle(music, cd)

-----------------------------------------------------------------------------
(* The parts that are changed by more than one action.                     *)

LEMMA TracksAreNumbers == Tracks \subseteq 1 .. LastTrack
BY DriveConstants

LEMMA Bounds ==
  /\ MaxTicks \in Nat /\ LastTrack \in Nat /\ Gap \in Nat
  /\ 0 \in 0 .. MaxTicks /\ 0 \in 0 .. LastTrack
BY DriveConstants

LEMMA StartedDac ==
  ASSUME NEW p \in Dacs
  PROVE  /\ Started(p) \in Dacs /\ Started(p).on /\ ~Started(p).paused
         /\ ~Started(p).over
<1>1. Started(p) \in Dacs
  BY Bounds DEF Started, Dacs
<1>2. Started(p).on
  BY Bounds DEF Started, Dacs
<1>3. ~Started(p).paused
  BY Bounds DEF Started, Dacs
<1>4. ~Started(p).over
  BY Bounds DEF Started, Dacs
<1> QED
  BY <1>1, <1>2, <1>3, <1>4

LEMMA ShutDac ==
  ASSUME NEW p \in Dacs
  PROVE  Shut(p) \in Dacs /\ ~Shut(p).on /\ ~Shut(p).over
<1>1. Shut(p) \in Dacs
  BY Bounds DEF Shut, Dacs
<1>2. ~Shut(p).on
  BY Bounds DEF Shut, Dacs
<1>3. ~Shut(p).over
  BY Bounds DEF Shut, Dacs
<1> QED
  BY <1>1, <1>2, <1>3

LEMMA SoonerBound ==
  ASSUME NEW n \in 0 .. MaxTicks
  PROVE  Sooner(n) \in 0 .. MaxTicks /\ n <= Sooner(n)
BY Bounds DEF Sooner

(* A track that begins: the wall clock and the ticks it has run are zero,  *)
(* and the player, if it takes the track, is not paused.                   *)
LEMMA BegunSound ==
  ASSUME NEW c \in Drives, NEW p \in Dacs, NEW d \in BOOLEAN,
         c.state = "playing", c.cur \in Tracks, c.cur <= c.end, c.since = 0,
         c.out => d, p.on => d /\ c.out /\ ~p.paused, p.over => p.on
  PROVE  Sound(c, p, d, 0)
BY Bounds DEF Sound

LEMMA IdleSound ==
  ASSUME NEW c \in Drives, NEW p \in Dacs, NEW d \in BOOLEAN,
         c.state \in {"stopped", "completed"}, c.cur = 0, c.out => d,
         ~p.on, ~p.over
  PROVE  Sound(c, p, d, 0)
BY Bounds DEF Sound

(* The length of a track is a number.                                      *)
LEMMA Lengths ==
  ASSUME NEW t \in Tracks
  PROVE  Duration[t] \in Nat /\ Duration[t] \in 0 .. MaxTicks
<1>1. Duration[t] \in 0 .. MaxTicks
  BY DriveConstants
<1> QED
  BY <1>1, Bounds

(* Nothing the account depends on has changed.                             *)
LEMMA AccountKept ==
  ASSUME NEW c, NEW e, NEW p, NEW q, NEW r, NEW o,
         Account(c, p, r, o), e.cur = c.cur, e.end = c.end,
         e.state \in {"playing", "paused"} => c.state \in {"playing", "paused"},
         e.state = "completed" => c.state = "completed",
         q.on <=> p.on, q.over <=> p.over
  PROVE  Account(e, q, r, o)
BY DEF Account, AtEnd, After

(* The end of the current track is reached.                                *)
LEMMA AccountReached ==
  ASSUME NEW c, NEW e, NEW p, NEW q, NEW r, NEW x, NEW o,
         Account(c, p, r, o), c.cur \in 0 .. LastTrack,
         e.cur = c.cur, e.end = c.end, e.state = c.state,
         c.state \in {"playing", "paused"} => AtEnd(e, q, x)
  PROVE  Account(e, q, x, o \ {c.cur})
<1>1. c.cur \notin After(c)
  BY Bounds, TracksAreNumbers DEF After
<1>2. After(e) = After(c)
  BY DEF After
<1> QED
  BY <1>1, <1>2 DEF Account

(* Track t of the range has just been begun.                               *)
LEMMA AccountBegun ==
  ASSUME NEW c, NEW p, NEW t \in Tracks, NEW o, NEW b \in BOOLEAN,
         c.state = "playing", c.cur = t,
         o = After(c) \cup {t}, p.on <=> b, ~p.over
  PROVE  Account(c, p, 0, OnceBegun(o, t, b))
<1>1. t \notin After(c)
  BY Bounds, TracksAreNumbers DEF After
<1>2. After(c) \subseteq Tracks
  BY DEF After
<1>3. CASE b \/ Duration[t] # 0
  <2>1. ~AtEnd(c, p, 0)
    BY <1>3, Lengths DEF AtEnd
  <2>2. OnceBegun(o, t, b) = o
    BY <1>3 DEF OnceBegun
  <2> QED
    BY <1>2, <2>1, <2>2 DEF Account
<1>4. CASE ~b /\ Duration[t] = 0
  <2>1. AtEnd(c, p, 0)
    BY <1>4, Lengths DEF AtEnd
  <2>2. OnceBegun(o, t, b) = After(c)
    BY <1>1, <1>4 DEF OnceBegun
  <2> QED
    BY <1>2, <2>1, <2>2 DEF Account
<1> QED
  BY <1>3, <1>4

(* What TrackDone compares is what the account goes by.                    *)
LEMMA DoneIsAtEnd ==
  ASSUME Sound(cd, dac, device, ran), cd.state = "playing"
  PROVE  TrackDone <=> AtEnd(cd, dac, ran)
<1>1. cd.cur \in Tracks /\ ran \in Nat
  BY Bounds DEF Sound
<1>2. Duration[cd.cur] \in Nat
  BY <1>1, Lengths
<1>3. ~dac.on => cd.since = ran
  BY DEF Sound
<1> QED
  BY <1>1, <1>2, <1>3 DEF TrackDone, AtEnd

LEMMA Resting ==
  ASSUME DriveInv, UNCHANGED driveVars
  PROVE  DriveInv'
BY DEF DriveInv, driveVars, Sound, Account, AtEnd, After, AutoIdle

-----------------------------------------------------------------------------
(* The ioctls keep the transport sound.                                    *)

LEMMA StopSound ==
  ASSUME Sound(cd, dac, device, ran), StopDrive
  PROVE  /\ Sound(cd, dac, device, ran)' /\ wait' = wait
         /\ Account(cd, dac, ran, owed)' /\ cd'.state = "stopped"
<1> DEFINE c == [cd EXCEPT !.state = "stopped", !.cur = 0, !.pausedAt = 0]
<1>1. /\ cd' = c /\ dac' = Shut(dac) /\ ran' = 0 /\ device' = device /\ wait' = wait
      /\ owed' = {}
  BY DEF StopDrive, Off
<1>2. c \in Drives
  BY Bounds DEF Sound, Drives, States
<1>3. c.state = "stopped" /\ c.cur = 0 /\ (c.out <=> cd.out)
  BY DEF Sound, Drives
<1>4. Shut(dac) \in Dacs /\ ~Shut(dac).on /\ ~Shut(dac).over
  BY ShutDac DEF Sound
<1>5. (cd.out => device) /\ device \in BOOLEAN
  BY DEF Sound
<1> HIDE DEF c
<1>6. Sound(c, Shut(dac), device, 0)
  BY <1>2, <1>3, <1>4, <1>5, IdleSound
<1>7. Account(c, Shut(dac), 0, {})
  BY <1>3 DEF Account
<1> QED
  BY <1>1, <1>3, <1>6, <1>7

LEMMA PauseSound ==
  ASSUME Sound(cd, dac, device, ran), Account(cd, dac, ran, owed), PauseDrive
  PROVE  /\ Sound(cd, dac, device, ran)' /\ wait' = wait
         /\ Account(cd, dac, ran, owed)'
         /\ cd.state \notin {"playing", "paused"} => cd' = cd
<1>1. CASE cd.state # "playing"
  BY <1>1 DEF PauseDrive, Sound, Account, AtEnd, After
<1>2. CASE cd.state = "playing"
  <2> DEFINE c == [cd EXCEPT !.state = "paused", !.pausedAt = Position]
  <2>1. PICK l \in BOOLEAN : dac' = [dac EXCEPT !.paused = TRUE, !.late = l]
    BY <1>2 DEF PauseDrive, Pause
  <2>2. /\ cd' = c /\ ran' = ran /\ device' = device /\ wait' = wait
        /\ owed' = owed
    BY <1>2 DEF PauseDrive
  <2>3. Position \in 0 .. MaxTicks /\ (~dac.on => Position = ran)
    BY <1>2 DEF Position, Sound, Drives, Dacs
  <2>4. c \in Drives
    BY <2>3 DEF Sound, Drives, States
  <2>5. /\ c.state = "paused" /\ c.cur = cd.cur /\ c.end = cd.end
        /\ (c.out <=> cd.out) /\ c.pausedAt = Position
    BY <2>3 DEF Sound, Drives
  <2>6. dac' \in Dacs
    BY <2>1 DEF Sound, Dacs
  <2>7. (dac'.on <=> dac.on) /\ (dac'.over <=> dac.over) /\ dac'.paused
    BY <2>1 DEF Sound, Dacs
  <2> HIDE DEF c
  <2>8. Sound(c, dac', device, ran)
    BY <1>2, <2>3, <2>4, <2>5, <2>6, <2>7 DEF Sound
  <2>9. Account(c, dac', ran, owed)
    BY <1>2, <2>5, <2>7, AccountKept
  <2> QED
    BY <1>2, <2>2, <2>8, <2>9
<1> QED
  BY <1>1, <1>2

LEMMA ResumeSound ==
  ASSUME Sound(cd, dac, device, ran), Account(cd, dac, ran, owed), ResumeDrive
  PROVE  /\ Sound(cd, dac, device, ran)' /\ wait' = wait
         /\ Account(cd, dac, ran, owed)'
         /\ cd.state \notin {"playing", "paused"} => cd' = cd
<1>1. CASE cd.state # "paused"
  BY <1>1 DEF ResumeDrive, Sound, Account, AtEnd, After
<1>2. CASE cd.state = "paused"
  <2> DEFINE c == [cd EXCEPT !.state = "playing", !.since = cd.pausedAt]
  <2>1. PICK l \in BOOLEAN : dac' = [dac EXCEPT !.paused = FALSE, !.late = l]
    BY <1>2 DEF ResumeDrive, Pause
  <2>2. /\ cd' = c /\ ran' = ran /\ device' = device /\ wait' = wait
        /\ owed' = owed
    BY <1>2 DEF ResumeDrive
  <2>3. c \in Drives
    BY DEF Sound, Drives, States
  <2>4. /\ c.state = "playing" /\ c.cur = cd.cur /\ c.end = cd.end
        /\ (c.out <=> cd.out) /\ c.since = cd.pausedAt
    BY DEF Sound, Drives
  <2>5. dac' \in Dacs
    BY <2>1 DEF Sound, Dacs
  <2>6. (dac'.on <=> dac.on) /\ (dac'.over <=> dac.over) /\ ~dac'.paused
    BY <2>1 DEF Sound, Dacs
  <2> HIDE DEF c
  <2>7. Sound(c, dac', device, ran)
    BY <1>2, <2>3, <2>4, <2>5, <2>6 DEF Sound
  <2>8. Account(c, dac', ran, owed)
    BY <1>2, <2>4, <2>6, AccountKept
  <2> QED
    BY <1>2, <2>2, <2>7, <2>8
<1> QED
  BY <1>1, <1>2

LEMMA PlaySound ==
  ASSUME Sound(cd, dac, device, ran), Account(cd, dac, ran, owed),
         NEW s \in 1 .. LastTrack, NEW e \in 1 .. LastTrack, PlayTrack(s, e)
  PROVE  /\ Sound(cd, dac, device, ran)' /\ wait' = wait
         /\ Account(cd, dac, ran, owed)'
<1>1. PICK d \in BOOLEAN :
        /\ device => d
        /\ device' = d
        /\ IF s \notin Tracks
           THEN /\ cd' = [cd EXCEPT !.out = d]
                /\ UNCHANGED <<dac, ran, owed>>
           ELSE /\ cd' = [state |-> "playing", cur |-> s,
                          end |-> IF s < e THEN e ELSE s,
                          pausedAt |-> 0, since |-> 0, out |-> d]
                /\ dac' = IF d THEN Started(dac) ELSE dac
                /\ ran' = 0
                /\ owed' = OnceBegun({t \in Tracks : s <= t /\ t <= cd'.end}, s, d)
  BY DEF PlayTrack, EnsureAudio
<1>2. wait' = wait
  BY DEF PlayTrack
<1>3. CASE s \notin Tracks
  <2> DEFINE c == [cd EXCEPT !.out = d]
  <2>1. c \in Drives
    BY DEF Sound, Drives
  <2>2. /\ c.state = cd.state /\ c.cur = cd.cur /\ c.end = cd.end
        /\ c.since = cd.since /\ c.pausedAt = cd.pausedAt
    BY DEF Sound, Drives
  <2>3. c.out <=> d
    BY DEF Sound, Drives
  <2>4. cd' = c /\ dac' = dac /\ ran' = ran /\ device' = d /\ owed' = owed
    BY <1>1, <1>3
  <2> HIDE DEF c
  <2>5. Sound(c, dac, d, ran)
    BY <1>1, <2>1, <2>2, <2>3 DEF Sound
  <2>6. Account(c, dac, ran, owed)
    BY <2>2, AccountKept
  <2> QED
    BY <1>2, <2>4, <2>5, <2>6
<1>4. CASE s \in Tracks
  <2> DEFINE last == IF s < e THEN e ELSE s
             c == [state |-> "playing", cur |-> s, end |-> last,
                   pausedAt |-> 0, since |-> 0, out |-> d]
             p == IF d THEN Started(dac) ELSE dac
  <2>1. /\ cd' = c /\ dac' = p /\ ran' = 0 /\ device' = d
        /\ owed' = OnceBegun({t \in Tracks : s <= t /\ t <= c.end}, s, d)
    BY <1>1, <1>4
  <2>2. last \in 0 .. LastTrack /\ s <= last /\ s \in 0 .. LastTrack
    BY Bounds
  <2> HIDE DEF last
  <2>3. c \in Drives
    BY <2>2, Bounds DEF Drives, States
  <2>4. p \in Dacs /\ (p.on <=> d) /\ ~p.over /\ (p.on => ~p.paused)
    BY <1>1, StartedDac DEF Sound
  <2>5. /\ c.state = "playing" /\ c.cur = s /\ c.end = last
        /\ c.since = 0 /\ (c.out <=> d)
    OBVIOUS
  <2> HIDE DEF c, p
  <2>6. Sound(c, p, d, 0)
    BY <1>4, <2>2, <2>3, <2>4, <2>5, BegunSound
  <2>7. {t \in Tracks : s <= t /\ t <= c.end} = After(c) \cup {s}
    <3>1. \A t \in Tracks : s <= t <=> s < t \/ t = s
      BY TracksAreNumbers, Bounds
    <3> QED
      BY <1>4, <2>2, <2>5, <3>1 DEF After
  <2>8. Account(c, p, 0, OnceBegun({t \in Tracks : s <= t /\ t <= c.end}, s, d))
    BY <1>4, <2>4, <2>5, <2>7, AccountBegun
  <2> QED
    BY <1>2, <2>1, <2>6, <2>8
<1> QED
  BY <1>3, <1>4

-----------------------------------------------------------------------------
LEMMA InitDrive == DriveInit => DriveInv
<1> SUFFICES ASSUME DriveInit PROVE DriveInv
  OBVIOUS
<1>1. cd \in Drives /\ cd.state = "stopped" /\ cd.cur = 0
  BY Bounds DEF DriveInit, Drives, States
<1>2. ~cd.out
  BY DEF DriveInit
<1>3. dac \in Dacs
  BY Bounds DEF DriveInit, DacInit, Dacs
<1>4. ~dac.on /\ ~dac.over
  BY DEF DriveInit, DacInit
<1>5. owed = {} /\ ran = 0 /\ wait \in 0 .. Gap
  BY Bounds DEF DriveInit
<1>6. device \in BOOLEAN /\ music \in Musics
  BY DEF DriveInit, Musics
<1>7. ~music.auto
  BY DEF DriveInit
<1>8. Sound(cd, dac, device, 0)
  BY <1>1, <1>2, <1>3, <1>4, <1>6, IdleSound
<1>9. Account(cd, dac, 0, {})
  BY <1>1 DEF Account
<1> QED
  BY <1>5, <1>6, <1>7, <1>8, <1>9 DEF DriveInv, AutoIdle

(* The guest's calls.                                                      *)
LEMMA SetMoodInv ==
  ASSUME DriveInv, NEW m \in Moods \cup {Silence}, SetMood(m)
  PROVE  DriveInv'
<1> DEFINE call == IF music.enabled /\ m # Silence THEN "query" ELSE "none"
<1>1. music' = [music EXCEPT !.mood = m, !.call = call, !.auto = FALSE]
  BY DEF SetMood
<1>2. call \in {"none", "query", "poll", "play"}
  OBVIOUS
<1> HIDE DEF call
<1>3. music' \in Musics
  BY <1>1, <1>2 DEF DriveInv, Musics
<1>4. ~music'.auto
  BY <1>1, <1>2 DEF DriveInv, Musics
<1>5. Sound(cd, dac, device, ran)' /\ Account(cd, dac, ran, owed)' /\ wait' = wait
  <2>1. CASE StopDrive
    BY <2>1, StopSound DEF DriveInv
  <2>2. CASE UNCHANGED <<dac, cd, device, wait, ran, owed>>
    BY <2>2 DEF DriveInv, Sound, Account, AtEnd, After
  <2> QED
    BY <2>1, <2>2 DEF SetMood
<1> QED
  BY <1>3, <1>4, <1>5 DEF DriveInv, AutoIdle

LEMMA QueryInv ==
  ASSUME DriveInv, Query
  PROVE  DriveInv'
<1> DEFINE call == IF TrackOf(cd) \in List[music.mood] THEN "none" ELSE "play"
<1>1. /\ music' = [music EXCEPT !.call = call]
      /\ UNCHANGED <<dac, cd, device, wait, ran, owed>>
  BY DEF Query
<1>2. call \in {"none", "query", "poll", "play"}
  OBVIOUS
<1> HIDE DEF call
<1>3. music' \in Musics
  BY <1>1, <1>2 DEF DriveInv, Musics
<1>4. music'.auto <=> music.auto
  BY <1>1 DEF DriveInv, Musics
<1>5. Sound(cd, dac, device, ran)' /\ Account(cd, dac, ran, owed)'
  BY <1>1 DEF DriveInv, Sound, Account, AtEnd, After
<1> QED
  BY <1>1, <1>3, <1>4, <1>5 DEF DriveInv, AutoIdle, Query

LEMMA ChooseInv ==
  ASSUME DriveInv, NEW t \in 1 .. LastTrack, NEW e \in 1 .. LastTrack, Choose(t, e)
  PROVE  DriveInv'
<1>1. music' \in Musics /\ music'.call = "none"
  BY DEF Choose, DriveInv, Musics
<1>2. Sound(cd, dac, device, ran)' /\ Account(cd, dac, ran, owed)' /\ wait' = wait
  BY PlaySound DEF Choose, DriveInv
<1> QED
  BY <1>1, <1>2 DEF DriveInv, AutoIdle

(* The auto-advance asks.                                                  *)
LEMMA AskInv ==
  ASSUME DriveInv, AskIdle
  PROVE  DriveInv'
<1>1. /\ music' = [music EXCEPT !.call = "poll"]
      /\ UNCHANGED <<dac, cd, device, wait, ran, owed>>
  BY DEF AskIdle
<1>2. music' \in Musics /\ music'.call = "poll"
  BY <1>1 DEF DriveInv, Musics
<1>3. Sound(cd, dac, device, ran)' /\ Account(cd, dac, ran, owed)'
  BY <1>1 DEF DriveInv, Sound, Account, AtEnd, After
<1> QED
  BY <1>1, <1>2, <1>3 DEF DriveInv, AutoIdle

LEMMA PollInv ==
  ASSUME DriveInv, PollMusic
  PROVE  DriveInv'
<1>1. UNCHANGED <<dac, cd, device, ran, owed>>
  BY DEF PollMusic
<1>2. Sound(cd, dac, device, ran)' /\ Account(cd, dac, ran, owed)'
  BY <1>1 DEF DriveInv, Sound, Account, AtEnd, After
<1>3. wait' \in 0 .. Gap
  BY Bounds DEF PollMusic
<1>4. CASE IsIdle(cd) /\ Wanted
  <2>1. music' = [music EXCEPT !.call = "query", !.auto = TRUE]
    BY <1>4 DEF PollMusic
  <2>2. music' \in Musics
    BY <2>1 DEF DriveInv, Musics
  <2>3. cd'.state \in {"stopped", "completed"}
    BY <1>1, <1>4 DEF IsIdle
  <2> QED
    BY <1>2, <1>3, <2>2, <2>3 DEF DriveInv, AutoIdle
<1>5. CASE ~(IsIdle(cd) /\ Wanted)
  <2>1. music' = [music EXCEPT !.call = "none"]
    BY <1>5 DEF PollMusic
  <2>2. music' \in Musics /\ music'.call = "none"
    BY <2>1 DEF DriveInv, Musics
  <2> QED
    BY <1>2, <1>3, <2>2 DEF DriveInv, AutoIdle
<1> QED
  BY <1>4, <1>5

(* One turn of advance(): the next track of the account, or its end.       *)
LEMMA RollOnInv ==
  ASSUME DriveInv, RollOn
  PROVE  DriveInv'
<1>1. /\ Sound(cd, dac, device, ran) /\ Account(cd, dac, ran, owed)
      /\ cd.state = "playing" /\ music.call \in {"query", "poll"}
      /\ AtEnd(cd, dac, ran)
  BY DoneIsAtEnd DEF DriveInv, RollOn, Advancing
<1>2. owed = Later /\ Later = After(cd)
  BY <1>1 DEF Account, Later, After
<1>3. /\ cd.cur \in Tracks /\ cd \in Drives /\ dac \in Dacs
      /\ (cd.out => device) /\ (dac.on => cd.out) /\ (dac.over => dac.on)
      /\ device \in BOOLEAN /\ cd.out \in BOOLEAN
  BY <1>1 DEF Sound, Drives
<1>4. ran' = 0 /\ UNCHANGED <<device, music, wait>>
  BY DEF RollOn
<1>5. ASSUME NEW t \in Later, \A u \in Later : t <= u,
             cd' = [cd EXCEPT !.cur = t, !.since = 0],
             dac' = IF cd.out THEN Started(dac) ELSE dac,
             owed' = OnceBegun(owed, t, cd.out)
      PROVE  Sound(cd, dac, device, ran)' /\ Account(cd, dac, ran, owed)'
  <2> DEFINE c == [cd EXCEPT !.cur = t, !.since = 0]
             p == IF cd.out THEN Started(dac) ELSE dac
  <2>1. t \in Tracks /\ t \in 0 .. LastTrack /\ t <= cd.end /\ cd.cur < t
    BY TracksAreNumbers, Bounds DEF Later
  <2>2. c \in Drives
    BY <1>3, <2>1, Bounds DEF Drives
  <2>3. /\ c.state = "playing" /\ c.cur = t /\ c.end = cd.end /\ c.since = 0
        /\ (c.out <=> cd.out)
    BY <1>1, <1>3 DEF Drives
  <2>4. p \in Dacs /\ (p.on <=> cd.out) /\ ~p.over /\ (p.on => ~p.paused)
    BY <1>1, <1>3, StartedDac DEF Sound
  <2> HIDE DEF c, p
  <2>5. Sound(c, p, device, 0)
    BY <1>3, <2>1, <2>2, <2>3, <2>4, BegunSound
  <2>6. owed = After(c) \cup {t}
    <3>1. \A u \in Tracks : u \in 0 .. LastTrack
      BY TracksAreNumbers, Bounds
    <3>2. cd.end \in 0 .. LastTrack
      BY <1>3 DEF Drives
    <3> QED
      BY <1>2, <1>3, <1>5, <2>1, <2>3, <3>1, <3>2, Bounds DEF After
  <2>7. Account(c, p, 0, OnceBegun(owed, t, cd.out))
    BY <1>3, <2>1, <2>3, <2>4, <2>6, AccountBegun
  <2> QED
    BY <1>4, <1>5, <2>5, <2>7 DEF c, p
<1>6. ASSUME Later = {}, cd' = [cd EXCEPT !.state = "completed", !.cur = 0], Off,
             owed' = owed
      PROVE  Sound(cd, dac, device, ran)' /\ Account(cd, dac, ran, owed)'
  <2> DEFINE c == [cd EXCEPT !.state = "completed", !.cur = 0]
             p == Shut(dac)
  <2>1. c \in Drives
    BY <1>3, Bounds DEF Drives, States
  <2>2. c.state = "completed" /\ c.cur = 0 /\ (c.out <=> cd.out)
    BY <1>3 DEF Drives
  <2>3. p \in Dacs /\ ~p.on /\ ~p.over
    BY <1>3, ShutDac
  <2> HIDE DEF c, p
  <2>4. Sound(c, p, device, 0)
    BY <1>3, <2>1, <2>2, <2>3, IdleSound
  <2>5. Account(c, p, 0, owed)
    BY <1>2, <1>6, <2>2 DEF Account
  <2> QED
    BY <1>4, <1>6, <2>4, <2>5 DEF c, p, Off
<1>7. Sound(cd, dac, device, ran)' /\ Account(cd, dac, ran, owed)'
  BY <1>5, <1>6 DEF RollOn
<1>8. ~(music.auto /\ music.call \in {"query", "play"})
  BY <1>1 DEF DriveInv, AutoIdle
<1> QED
  BY <1>4, <1>7, <1>8 DEF DriveInv, AutoIdle

(* The pause, the resume and the stop of the options screen.               *)
LEMMA OptionsInv ==
  ASSUME DriveInv, GuestPause \/ GuestResume \/ GuestStop
  PROVE  DriveInv'
<1>1. music' = music /\ music.call = "none"
  BY DEF GuestPause, GuestResume, GuestStop, CanCall
<1>2. Sound(cd, dac, device, ran)' /\ Account(cd, dac, ran, owed)' /\ wait' = wait
  BY StopSound, PauseSound, ResumeSound
     DEF GuestPause, GuestResume, GuestStop, DriveInv
<1> QED
  BY <1>1, <1>2 DEF DriveInv, AutoIdle

LEMMA MusicInv ==
  ASSUME DriveInv, MakeMusic \/ Toggle
  PROVE  DriveInv'
<1>1. UNCHANGED <<dac, cd, device, wait, ran, owed>>
  BY DEF MakeMusic, Toggle
<1>2. Sound(cd, dac, device, ran)' /\ Account(cd, dac, ran, owed)'
  BY <1>1 DEF DriveInv, Sound, Account, AtEnd, After
<1>3. music' \in Musics
  BY DEF MakeMusic, Toggle, DriveInv, Musics
<1>4. music'.call = music.call
  BY DEF MakeMusic, Toggle, DriveInv, Musics
<1>5. music'.auto <=> music.auto
  BY DEF MakeMusic, Toggle, DriveInv, Musics
<1> QED
  BY <1>1, <1>2, <1>3, <1>4, <1>5 DEF DriveInv, AutoIdle

(* Time and the player.                                                    *)
LEMMA TickInv ==
  ASSUME DriveInv, Tick
  PROVE  DriveInv'
<1> DEFINE n == Sooner(cd.since)
           c == [cd EXCEPT !.since = n]
<1>1. n \in 0 .. MaxTicks
  BY SoonerBound DEF DriveInv, Sound, Drives
<1>2. cd' = c /\ UNCHANGED <<dac, device, music>>
  BY DEF Tick
<1>3. wait' \in 0 .. Gap
  BY Bounds DEF Tick, DriveInv
<1>4. /\ ran' \in 0 .. MaxTicks
      /\ cd.state = "playing" /\ cd.since = ran => ran' = n
      /\ cd.state # "playing" => ran' = ran
  BY SoonerBound DEF Tick, DriveInv, Sound
<1> HIDE DEF n
<1>5. c \in Drives
  BY <1>1 DEF DriveInv, Sound, Drives
<1>6. /\ c.state = cd.state /\ c.cur = cd.cur /\ c.end = cd.end
      /\ c.pausedAt = cd.pausedAt /\ c.since = n
  BY <1>1 DEF DriveInv, Sound, Drives
<1>7. c.out <=> cd.out
  BY <1>1 DEF DriveInv, Sound, Drives
<1> HIDE DEF c
<1>8. Sound(c, dac, device, ran')
  BY <1>4, <1>5, <1>6, <1>7 DEF DriveInv, Sound
<1> DEFINE ends == cd.state = "playing" /\ ~dac.on /\ ran' >= Duration[cd.cur]
<1>9. /\ Account(cd, dac, ran, owed) /\ cd.cur \in 0 .. LastTrack
      /\ ran \in Nat /\ ran' \in Nat /\ ran <= ran'
      /\ owed' = IF ends THEN owed \ {cd.cur} ELSE owed
  BY <1>4, SoonerBound, Bounds DEF Tick, Reached, DriveInv, Sound, Drives
<1>10. CASE ends
  <2>1. AtEnd(c, dac, ran')
    BY <1>6, <1>10 DEF AtEnd
  <2>2. owed' = owed \ {cd.cur}
    BY <1>9, <1>10
  <2>3. Account(c, dac, ran', owed \ {cd.cur})
    BY <1>6, <1>9, <2>1, AccountReached
  <2> QED
    BY <1>2, <1>3, <1>6, <1>8, <2>2, <2>3 DEF DriveInv, AutoIdle, c
<1>11. CASE ~ends
  <2>1. owed' = owed
    BY <1>9, <1>11
  <2>2. Account(c, dac, ran, owed)
    BY <1>6, <1>9, AccountKept
  <2>3. cd.state \in {"playing", "paused"}
          => (AtEnd(c, dac, ran') <=> AtEnd(c, dac, ran))
    <3>1. CASE dac.on \/ cd.state # "playing"
      BY <1>4, <3>1 DEF AtEnd
    <3>2. CASE ~dac.on /\ cd.state = "playing"
      <4>1. Duration[cd.cur] \in Nat
        BY <3>2, Lengths DEF DriveInv, Sound
      <4> QED
        BY <1>6, <1>9, <1>11, <3>2, <4>1 DEF AtEnd
    <3> QED
      BY <3>1, <3>2
  <2>4. Account(c, dac, ran', owed)
    BY <1>6, <2>2, <2>3 DEF Account
  <2> QED
    BY <1>2, <1>3, <1>6, <1>8, <2>1, <2>4 DEF DriveInv, AutoIdle, c
<1> QED
  BY <1>10, <1>11

LEMMA HeardInv ==
  ASSUME DriveInv, Heard
  PROVE  DriveInv'
<1>1. PICK n \in 0 .. Burst, f \in BOOLEAN :
        dac' = [dac EXCEPT !.heard = @ + n, !.late = FALSE,
                           !.over = @ \/ (f /\ dac.on)]
  BY DEF Heard, Hear
<1> DEFINE h == dac.heard + n
           v == dac.over \/ (f /\ dac.on)
<1>2. dac' = [dac EXCEPT !.heard = h, !.late = FALSE, !.over = v]
  BY <1>1
<1>3. v \in BOOLEAN
  OBVIOUS
<1>4. h \in Nat
  BY DacConstants, Bounds DEF DriveInv, Sound, Dacs
<1> HIDE DEF h, v
<1>5. dac'.heard = h
  BY <1>2, <1>3, <1>4 DEF DriveInv, Sound, Dacs
<1>6. h \in 0 .. MaxTicks
  BY <1>4, <1>5, Bounds DEF Heard
<1>7. dac' \in Dacs
  BY <1>2, <1>3, <1>6 DEF DriveInv, Sound, Dacs
<1>8. dac'.on <=> dac.on
  BY <1>2, <1>3, <1>6 DEF DriveInv, Sound, Dacs
<1>9. dac'.paused <=> dac.paused
  BY <1>2, <1>3, <1>6 DEF DriveInv, Sound, Dacs
<1>10. UNCHANGED <<cd, device, music, wait, ran>>
  BY DEF Heard
<1>11. (dac'.over <=> v) /\ (v => dac.on)
  BY <1>2, <1>3, <1>6 DEF v, DriveInv, Sound, Dacs
<1>12. Account(cd, dac', ran, owed')
  <2>1. CASE dac'.over
    <3>1. AtEnd(cd, dac', ran) /\ owed' = owed \ {cd.cur}
      BY <1>8, <1>11, <2>1 DEF AtEnd, Heard, Reached
    <3> QED
      BY <3>1, AccountReached DEF DriveInv, Sound, Drives
  <2>2. CASE ~dac'.over
    <3>1. ~dac.over /\ owed' = owed
      BY <1>11, <2>2 DEF v, Heard, Reached
    <3> QED
      BY <1>8, <2>2, <3>1, AccountKept DEF DriveInv
  <2> QED
    BY <2>1, <2>2
<1>13. Sound(cd, dac', device, ran)
  BY <1>7, <1>8, <1>9, <1>11 DEF DriveInv, Sound
<1> QED
  BY <1>10, <1>12, <1>13 DEF DriveInv, AutoIdle

LEMMA TrackEndInv ==
  ASSUME DriveInv, TrackEnd
  PROVE  DriveInv'
<1>1. dac' = [dac EXCEPT !.over = TRUE]
  BY DEF TrackEnd, End
<1>2. dac' \in Dacs
  BY <1>1 DEF DriveInv, Sound, Dacs
<1>3. dac'.on <=> dac.on
  BY <1>1 DEF DriveInv, Sound, Dacs
<1>4. dac'.paused <=> dac.paused
  BY <1>1 DEF DriveInv, Sound, Dacs
<1>5. UNCHANGED <<cd, device, music, wait, ran>>
  BY DEF TrackEnd
<1>6. dac'.over /\ dac.on
  BY <1>1 DEF TrackEnd, End, DriveInv, Sound, Dacs
<1>7. Sound(cd, dac', device, ran)
  BY <1>2, <1>3, <1>4, <1>6 DEF DriveInv, Sound
<1>8. AtEnd(cd, dac', ran) /\ owed' = owed \ {cd.cur}
  BY <1>3, <1>6 DEF AtEnd, TrackEnd, Reached
<1>9. Account(cd, dac', ran, owed')
  BY <1>8, AccountReached DEF DriveInv, Sound, Drives
<1> QED
  BY <1>5, <1>7, <1>9 DEF DriveInv, AutoIdle

LEMMA DriveStep == DriveInv /\ [DriveNext]_driveVars => DriveInv'
<1> SUFFICES ASSUME DriveInv, [DriveNext]_driveVars PROVE DriveInv'
  OBVIOUS
<1>1. ASSUME NEW m \in Moods \cup {Silence}, SetMood(m) PROVE DriveInv'
  BY <1>1, SetMoodInv
<1>2. CASE Query
  BY <1>2, QueryInv
<1>3. ASSUME NEW t \in 1 .. LastTrack, NEW e \in 1 .. LastTrack, Choose(t, e) PROVE DriveInv'
  BY <1>3, ChooseInv
<1>4. CASE GuestPause \/ GuestResume \/ GuestStop
  BY <1>4, OptionsInv
<1>5. CASE MakeMusic \/ Toggle
  BY <1>5, MusicInv
<1>6. CASE PollMusic
  BY <1>6, PollInv
<1>7. CASE Tick
  BY <1>7, TickInv
<1>8. CASE Heard
  BY <1>8, HeardInv
<1>9. CASE TrackEnd
  BY <1>9, TrackEndInv
<1>10. CASE AskIdle
  BY <1>10, AskInv
<1>11. CASE RollOn
  BY <1>11, RollOnInv
<1>12. CASE UNCHANGED driveVars
  BY <1>12, Resting
<1> QED
  BY <1>1, <1>2, <1>3, <1>4, <1>5, <1>6, <1>7, <1>8, <1>9, <1>10, <1>11, <1>12
     DEF DriveNext

-----------------------------------------------------------------------------
(* The invariant of the drive: transport, player and device agree, the     *)
(* account of the range is what is left of it, and an auto-advance is      *)
(* under way only while nothing plays.                                     *)
THEOREM DriveInvariant == DriveSpec => []DriveInv
<1>1. DriveInit => DriveInv
  BY InitDrive
<1>2. DriveInv /\ [DriveNext]_driveVars => DriveInv'
  BY DriveStep
<1> QED
  BY <1>1, <1>2, PTL DEF DriveSpec

(* The transport's fields are what the player does, for every rip, with    *)
(* and without a device (VirtualCD, cdaudio.cpp).                          *)
THEOREM TransportIsRight == DriveSpec => []DriveAgrees
<1>1. DriveInv => DriveAgrees
  <2> SUFFICES ASSUME DriveInv PROVE DriveAgrees
    OBVIOUS
  <2>1. DriveTypeOK
    <3>1. /\ cd.state \in {"stopped", "playing", "paused", "completed"}
          /\ cd.cur \in 0 .. LastTrack /\ cd.end \in 0 .. LastTrack
          /\ cd.pausedAt \in 0 .. MaxTicks /\ cd.since \in 0 .. MaxTicks
          /\ ran \in 0 .. MaxTicks /\ wait \in 0 .. Gap
      BY DEF DriveInv, Sound, Drives, States
    <3>2. cd.out \in BOOLEAN
      BY DEF DriveInv, Sound, Drives
    <3>3. device \in BOOLEAN
      BY DEF DriveInv, Sound
    <3>4. /\ music.mood \in Moods \cup {Silence}
          /\ music.call \in {"none", "query", "poll", "play"}
      BY DEF DriveInv, Musics
    <3>5. owed \subseteq Tracks
      BY DEF DriveInv, Account
    <3> QED
      BY <3>1, <3>2, <3>3, <3>4, <3>5 DEF DriveTypeOK
  <2> QED
    BY <2>1 DEF DriveInv, Sound, DriveAgrees
<1> QED
  BY <1>1, DriveInvariant, PTL

(* No track is cut short by advance() or by the auto-advance, whatever the *)
(* guest calls in between (maybe_redirect_cd_advance, traps.cpp).          *)
THEOREM NoTrackIsCut == DriveSpec => NotCutShort
<1> DEFINE Left ==
      /\ cd.state = "playing" /\ music.call \in {"query", "poll"}
      /\ cd'.cur # cd.cur \/ cd'.state # "playing"
    Kept ==
      /\ AutoNeverCuts'
      /\ Left => IF dac.on THEN dac.over ELSE ran >= Duration[cd.cur]
<1>1. ASSUME DriveInv, DriveNext, Left PROVE AtEnd(cd, dac, ran)
  <2>1. CASE RollOn
    BY <1>1, <2>1, DoneIsAtEnd DEF DriveInv, RollOn, Advancing
  <2>2. ASSUME NEW m \in Moods \cup {Silence}, SetMood(m) PROVE FALSE
    BY <1>1, <2>2 DEF SetMood, CanCall
  <2>3. ASSUME NEW s \in 1 .. LastTrack, NEW e \in 1 .. LastTrack, Choose(s, e)
        PROVE FALSE
    BY <1>1, <2>3 DEF Choose
  <2>4. CASE GuestPause \/ GuestResume \/ GuestStop
    BY <1>1, <2>4 DEF GuestPause, GuestResume, GuestStop, CanCall
  <2>5. CASE Tick
    BY <1>1, <2>5 DEF Tick, DriveInv, Sound, Drives
  <2>6. CASE MakeMusic \/ Toggle \/ Heard \/ TrackEnd \/ Query \/ PollMusic \/ AskIdle
    BY <1>1, <2>6 DEF MakeMusic, Toggle, Heard, TrackEnd, Query, PollMusic, AskIdle
  <2> QED
    BY <1>1, <2>1, <2>2, <2>3, <2>4, <2>5, <2>6 DEF DriveNext
<1>2. DriveInv /\ DriveInv' /\ [DriveNext]_driveVars => [Kept]_driveVars
  <2> SUFFICES ASSUME DriveInv, DriveInv', DriveNext PROVE Kept
    OBVIOUS
  <2>1. AutoNeverCuts'
    BY DEF DriveInv, AutoIdle, AutoNeverCuts
  <2> QED
    BY <1>1, <2>1 DEF AtEnd
<1> QED
  BY <1>2, DriveInvariant, PTL DEF DriveSpec, NotCutShort

(* A range is reported completed only after the end of each of its tracks  *)
(* that the rip has, and none is passed over on the way, whatever rip,     *)
(* lengths and device (VirtualCD::advance).                                *)
THEOREM RangesArePlayedOut == DriveSpec => []RangePlayedOut
<1>1. DriveInv => RangePlayedOut
  <2> SUFFICES ASSUME DriveInv PROVE RangePlayedOut
    OBVIOUS
  <2>1. ASSUME cd.state \in {"playing", "paused"}, NEW t \in owed
        PROVE  cd.cur <= t
    <3>1. cd.cur \in Nat
      BY Bounds DEF DriveInv, Sound, Drives
    <3>2. t \in After(cd) \cup {cd.cur}
      BY <2>1 DEF DriveInv, Account
    <3> QED
      BY <3>1, <3>2, TracksAreNumbers, Bounds DEF After
  <2> QED
    BY <2>1 DEF DriveInv, Account, RangePlayedOut
<1> QED
  BY <1>1, DriveInvariant, PTL
=============================================================================
