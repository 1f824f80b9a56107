-------------------------- MODULE SoundFeedProofs --------------------------
(***************************************************************************)
(* Proofs about SoundFeed, for every device, fragment, queue and target in *)
(* the proportions that the code has: the queue bridges the measured gap,  *)
(* and a serving fills it to its target.                                   *)
(***************************************************************************)
EXTENDS SoundFeed, SequenceTheorems, TLAPS

IsChain(c) ==
  /\ c.depth \in 0 .. ChainMax
  /\ c = [arg |-> c.arg, target |-> c.target, depth |-> c.depth]

(* The fields have their types, and the queue is no deeper than a slice    *)
(* over the ceiling.                                                       *)
Fields ==
  /\ device \in BOOLEAN /\ fed \in BOOLEAN
  /\ threads \in Seq({Mixer, Music}) /\ running \subseteq ToSet(threads)
  /\ q \in 0 .. Cap /\ q <= Ceiling + Frag
  /\ phase \in 1 .. Buffer
  /\ since \in {Never} \cup 0 .. MaxGap + 1
  /\ gap \in 0 .. MaxGap
  /\ hold \in 0 .. Floor
  /\ IsChain(chain)

(* What the device has played since the ask, at most.                      *)
Played == since + phase - 1

(* While a serving is under way: the queue is still short of the target,   *)
(* and its slices are in it but for what the device has played.            *)
Serving ==
  chain # Idle =>
    /\ chain.target = Target(gap)
    /\ chain.depth >= 1
    /\ q <= chain.target
    /\ since >= 0
    /\ ~fed
    /\ device /\ since <= MaxGap => q + Played >= (chain.depth - 1) * Frag

FeedInv == Fields /\ Serving

-----------------------------------------------------------------------------
(* The measured gap and the target it makes.                               *)

(* The ticks of the clock the model counts, and what a tick leaves.        *)
LEMMA Numbers ==
  /\ Buffer \in Nat \ {0} /\ Frag \in Nat \ {0} /\ Cap \in Nat \ {0}
  /\ Base \in Nat \ {0} /\ Ceiling \in Nat \ {0} /\ MaxGap \in Nat \ {0}
  /\ ChainMax \in Nat \ {0} /\ Margin \in Nat /\ Floor \in Nat
  /\ Base <= Ceiling /\ Ceiling < Cap
  BY FeedConstants

LEMMA MeasuredGap ==
  ASSUME Fields
  PROVE  /\ Measured \in 0 .. MaxGap
         /\ since >= 0 /\ since <= Floor => Measured <= Most((gap * 9) \div 10, Floor)
<1> DEFINE t == (gap * 9) \div 10
<1>1. gap \in 0 .. MaxGap /\ since \in {Never} \cup 0 .. MaxGap + 1
  BY DEF Fields
<1>2. t \in 0 .. MaxGap
  BY <1>1, Numbers
<1> HIDE DEF t
<1>3. Measured = IF since = Never THEN gap ELSE Most(Least(since, MaxGap), t)
  BY DEF Measured, t
<1>4. Measured \in 0 .. MaxGap
  BY <1>1, <1>2, <1>3, Numbers DEF Most, Least, Never
<1>5. since >= 0 /\ since <= Floor => Measured <= Most(t, Floor)
  BY <1>1, <1>2, <1>3, Numbers DEF Most, Least, Never
<1> QED
  BY <1>4, <1>5 DEF t

(* A queue at its target bridges the gap, or is as deep as is allowed.     *)
LEMMA TargetBridges ==
  ASSUME NEW g \in Nat
  PROVE  /\ Target(g) \in Nat
         /\ Target(g) <= Ceiling
         /\ Target(g) = Ceiling \/ Target(g) + 2 >= g + Buffer
         /\ \/ Target(g) = Ceiling
            \/ Target(g) + 2 >= Most((g * 9) \div 10, Floor) + Buffer + Floor
<1> DEFINE b == Most(Base, (g * 3) \div 2 + Margin)
           h == (g * 3) \div 2
           t == (g * 9) \div 10
<1>1. /\ h \in Nat /\ 2 * h <= 3 * g /\ 2 * h + 1 >= 3 * g
      /\ t \in Nat /\ 10 * t <= 9 * g
  OBVIOUS
<1>2. b = IF Base < h + Margin THEN h + Margin ELSE Base
  BY DEF Most
<1>3. Target(g) = IF b < Ceiling THEN b ELSE Ceiling
  BY DEF Target, Least
<1> HIDE DEF h, t, b
<1>4. b \in Nat /\ b >= Base /\ b >= h + Margin
  BY <1>1, <1>2, Numbers
<1>5. b + 2 >= g + Buffer
  BY <1>1, <1>4, Numbers, BridgeConstants
<1>6. b + 2 >= t + Buffer + Floor
  BY <1>1, <1>4, Numbers, BridgeConstants
<1>7. b >= Floor + Buffer + Floor
  BY <1>4, Numbers, BridgeConstants
<1> QED
  BY <1>1, <1>3, <1>4, <1>5, <1>6, <1>7, Numbers DEF t, Most

-----------------------------------------------------------------------------
(* The invariant of a serving.                                             *)

LEMMA FeedStart == Init => FeedInv
<1> SUFFICES ASSUME Init PROVE FeedInv
  OBVIOUS
<1>1. IsChain(chain)
  BY Numbers DEF Init, Idle, IsChain
<1>2. threads \in Seq({Mixer, Music}) /\ running \subseteq ToSet(threads)
  BY DEF Init
<1>3. /\ q \in 0 .. Cap /\ q <= Ceiling + Frag /\ phase \in 1 .. Buffer
      /\ since \in {Never} \cup 0 .. MaxGap + 1
      /\ gap \in 0 .. MaxGap /\ hold \in 0 .. Floor
  BY Numbers DEF Init
<1> QED
  BY <1>1, <1>2, <1>3 DEF Init, FeedInv, Fields, Serving

LEMMA FeedLaunch ==
  ASSUME FeedInv, NEW t \in {Mixer, Music}, Launch(t)
  PROVE  FeedInv'
<1>1. threads \in Seq({Mixer, Music}) /\ running \subseteq ToSet(threads)
  BY DEF FeedInv, Fields
<1>2. /\ Append(threads, t) \in Seq({Mixer, Music})
      /\ Len(Append(threads, t)) = Len(threads) + 1
      /\ \A i \in 1 .. Len(threads) : Append(threads, t)[i] = threads[i]
      /\ Append(threads, t)[Len(threads) + 1] = t
  BY <1>1, AppendProperties
<1>3. /\ Len(threads) \in Nat
      /\ DOMAIN threads = 1 .. Len(threads)
      /\ DOMAIN Append(threads, t) = 1 .. Len(threads) + 1
  BY <1>1, <1>2, LenProperties
<1>4. running \cup {t} \subseteq ToSet(Append(threads, t))
  <2>1. \A i \in 1 .. Len(threads) : i \in 1 .. Len(threads) + 1
    BY <1>3
  <2>2. Len(threads) + 1 \in 1 .. Len(threads) + 1
    BY <1>3
  <2> QED
    BY <1>1, <1>2, <1>3, <2>1, <2>2 DEF ToSet
<1>5. Fields'
  BY <1>2, <1>4 DEF Launch, FeedInv, Fields
<1>6. Serving'
  BY DEF Launch, FeedInv, Serving, Played
<1> QED
  BY <1>5, <1>6 DEF FeedInv

LEMMA FeedSetRunning ==
  ASSUME FeedInv, NEW t, SetRunning(t)
  PROVE  FeedInv'
  BY DEF FeedInv, SetRunning, Fields, Serving, Played

LEMMA FeedAsk ==
  ASSUME FeedInv, AskEarly \/ AskNotRunning \/ AskFull
  PROVE  FeedInv'
<1>1. chain = Idle /\ chain' = chain
  BY DEF AskEarly, AskNotRunning, AskFull
<1>2. gap' \in 0 .. MaxGap /\ since' = 0
  BY MeasuredGap DEF FeedInv, AskEarly, AskNotRunning, AskFull
<1>3. fed' \in BOOLEAN
  BY DEF FeedInv, Fields, AskEarly, AskNotRunning, AskFull
<1>4. UNCHANGED <<device, threads, running, q, phase, hold>>
  BY DEF AskEarly, AskNotRunning, AskFull
<1>5. since' \in {Never} \cup 0 .. MaxGap + 1
  BY <1>2, Numbers
<1>6. Fields'
  BY <1>1, <1>2, <1>3, <1>4, <1>5 DEF FeedInv, Fields
<1> QED
  BY <1>1, <1>6 DEF FeedInv, Serving

LEMMA FeedServe == ASSUME FeedInv, Serve PROVE FeedInv'
<1>1. Measured \in 0 .. MaxGap
  BY MeasuredGap DEF FeedInv
<1>2. gap' = Measured /\ since' = 0 /\ hold' = Floor /\ fed' = FALSE
  BY DEF Serve
<1>3. chain' = [arg |-> Head(Candidates), target |-> Target(Measured), depth |-> 1]
  BY DEF Serve
<1>4. UNCHANGED <<device, threads, running, q, phase>>
  BY DEF Serve
<1>5. chain'.target = Target(gap') /\ chain'.depth = 1 /\ IsChain(chain')
  BY <1>2, <1>3, Numbers DEF IsChain
<1>6. since' \in {Never} \cup 0 .. MaxGap + 1 /\ hold' \in 0 .. Floor
  BY <1>2, Numbers
<1>7. Fields'
  BY <1>1, <1>2, <1>4, <1>5, <1>6 DEF FeedInv, Fields
<1>8. q' <= chain'.target
  BY <1>3, <1>4 DEF Serve
<1>9. q' + since' + phase' - 1 >= (chain'.depth - 1) * Frag
  BY <1>2, <1>4, <1>5, Numbers DEF FeedInv, Fields
<1>10. Serving'
  BY <1>2, <1>4, <1>5, <1>8, <1>9, Numbers DEF Serving, Played, FeedInv, Fields
<1> QED
  BY <1>7, <1>10 DEF FeedInv

(* A slice is in the queue, for the queue has room for it; the serving     *)
(* goes on if the queue is still short.                                    *)
LEMMA SliceQueued ==
  ASSUME FeedInv, SliceReturns
  PROVE  /\ chain # Idle
         /\ q' \in 0 .. Cap /\ q' <= Ceiling + Frag
         /\ device => q' = q + Frag \/ q' > chain.target
         /\ chain' = Idle \/ (/\ chain' = [chain EXCEPT !.depth = @ + 1]
                             /\ chain.depth < ChainMax /\ q' <= chain.target)
<1>1. chain # Idle
  BY FeedConstants DEF SliceReturns, Idle
<1>2. chain.target = Target(gap) /\ q <= chain.target /\ q \in 0 .. Cap
  BY <1>1 DEF FeedInv, Fields, Serving
<1>3. chain.target \in Nat /\ chain.target <= Ceiling
  BY <1>2, TargetBridges, Numbers DEF FeedInv, Fields
<1>4. q' = IF device THEN (IF q + Frag < Cap THEN q + Frag ELSE Cap) ELSE q
  BY DEF SliceReturns, Fed, Least
<1>5. q' \in 0 .. Cap /\ q' <= Ceiling + Frag
  BY <1>2, <1>3, <1>4, Numbers
<1>6. device => q' = q + Frag \/ q' > chain.target
  BY <1>2, <1>3, <1>4, Numbers
<1>7. chain' = Idle \/ (/\ chain' = [chain EXCEPT !.depth = @ + 1]
                       /\ ~(chain.depth >= ChainMax) /\ ~(q' > chain.target))
  BY DEF SliceReturns
<1>8. chain.depth \in Nat
  BY Numbers DEF FeedInv, Fields, IsChain
<1> QED
  BY <1>1, <1>3, <1>5, <1>6, <1>7, <1>8, Numbers

LEMMA FeedSlice == ASSUME FeedInv, SliceReturns PROVE FeedInv'
<1>1. UNCHANGED <<device, threads, running, phase, since, gap, hold>>
  BY DEF SliceReturns
<1>2. fed' \in BOOLEAN /\ (chain' # Idle => ~fed')
  BY DEF SliceReturns
<1>3. chain.depth \in 0 .. ChainMax /\ IsChain(chain)
  BY DEF FeedInv, Fields, IsChain
<1>4. IsChain(chain')
  <2>1. CASE chain' = Idle
    BY <2>1, Numbers DEF IsChain, Idle
  <2>2. CASE chain' # Idle
    <3>1. chain' = [chain EXCEPT !.depth = @ + 1] /\ chain.depth < ChainMax
      BY <2>2, SliceQueued
    <3> QED
      BY <1>3, <3>1, Numbers DEF IsChain
  <2> QED
    BY <2>1, <2>2
<1>5. Fields'
  BY <1>1, <1>2, <1>4, SliceQueued DEF FeedInv, Fields
<1>6. ASSUME chain' # Idle PROVE Serving'
  <2>1. /\ chain # Idle /\ chain' = [chain EXCEPT !.depth = @ + 1]
        /\ q' <= chain.target /\ (device => q' = q + Frag \/ q' > chain.target)
        /\ q' \in 0 .. Cap
    BY <1>6, SliceQueued
  <2>2. chain'.target = chain.target /\ chain'.depth = chain.depth + 1
    BY <1>3, <2>1 DEF IsChain
  <2>3. /\ chain.target = Target(gap) /\ chain.depth >= 1 /\ since >= 0
        /\ device /\ since <= MaxGap => q + Played >= (chain.depth - 1) * Frag
    BY <2>1 DEF FeedInv, Serving
  <2>4. chain.target \in Nat
    BY <2>3, TargetBridges DEF FeedInv, Fields
  <2>5. device => q' = q + Frag
    BY <2>1, <2>4
  <2>6. (chain'.depth - 1) * Frag = (chain.depth - 1) * Frag + Frag
    BY <1>3, <2>2, Numbers
  <2> DEFINE owed == (chain.depth - 1) * Frag
             due  == (chain'.depth - 1) * Frag
  <2>7. owed \in Int
    BY <1>3, Numbers
  <2>8. device /\ since <= MaxGap => q + Played >= owed
    BY <2>3
  <2>9. due = owed + Frag
    BY <2>6
  <2> HIDE DEF owed, due
  <2>10. device /\ since <= MaxGap => q' + (since + phase - 1) >= due
    BY <2>5, <2>7, <2>8, <2>9, <2>3, Numbers DEF FeedInv, Fields, Played, Never
  <2>11. chain'.depth >= 1
    BY <1>3, <2>2, <2>3
  <2> QED
    BY <1>1, <1>2, <1>6, <2>1, <2>2, <2>3, <2>10, <2>11 DEF Serving, Played, due
<1> QED
  BY <1>5, <1>6 DEF FeedInv, Serving

(* Time passes: what the device plays is played, and no more.              *)
LEMMA Ticked ==
  ASSUME FeedInv, Tick
  PROVE  /\ UNCHANGED <<device, threads, running, gap, chain, fed>>
         /\ since' \in {Never} \cup 0 .. MaxGap + 1
         /\ since = Never => since' = Never
         /\ since # Never => since' = IF since <= MaxGap THEN since + 1 ELSE MaxGap + 1
         /\ hold' \in 0 .. Floor
         /\ hold' = IF hold > 0 THEN hold - 1 ELSE 0
         /\ q' \in 0 .. Cap /\ q' <= q
         /\ phase' \in 1 .. Buffer
         /\ device /\ phase # 1 => q' = q /\ phase' = phase - 1
         /\ device /\ phase = 1 =>
              /\ phase' = Buffer
              /\ q' = IF q < Buffer THEN 0 ELSE q - Buffer
         /\ ~device => q' = q /\ phase' = phase
<1>1. /\ q \in 0 .. Cap /\ phase \in 1 .. Buffer /\ hold \in 0 .. Floor
      /\ since \in {Never} \cup 0 .. MaxGap + 1 /\ device \in BOOLEAN
  BY DEF FeedInv, Fields
<1>2. UNCHANGED <<device, threads, running, gap, chain, fed>>
  BY DEF Tick
<1>3. since' = IF since = Never THEN Never
               ELSE IF since + 1 < MaxGap + 1 THEN since + 1 ELSE MaxGap + 1
  BY DEF Tick, Least
<1>4. hold' = IF hold > 0 THEN hold - 1 ELSE 0
  BY DEF Tick, Less
<1>5. CASE device /\ phase = 1
  <2>1. phase' = Buffer /\ q' = IF q - Buffer < 0 THEN 0 ELSE q - Buffer
    BY <1>5 DEF Tick, Callback, Most
  <2> QED
    BY <1>1, <1>2, <1>3, <1>4, <1>5, <2>1, Numbers DEF Never
<1>6. CASE ~(device /\ phase = 1)
  <2>1. q' = q /\ phase' = IF device THEN phase - 1 ELSE phase
    BY <1>6 DEF Tick, Callback
  <2> QED
    BY <1>1, <1>2, <1>3, <1>4, <1>6, <2>1, Numbers DEF Never
<1> QED
  BY <1>5, <1>6

LEMMA FeedTick == ASSUME FeedInv, Tick PROVE FeedInv'
<1>1. Fields'
  <2>1. q' <= Ceiling + Frag
    BY Ticked, Numbers DEF FeedInv, Fields
  <2> QED
    BY <2>1, Ticked DEF FeedInv, Fields
<1>2. ASSUME chain' # Idle PROVE Serving'
  <2>1. /\ chain' = chain /\ chain # Idle /\ gap' = gap /\ fed' = fed /\ device' = device
    BY <1>2, Ticked
  <2>2. /\ chain.target = Target(gap) /\ chain.depth >= 1 /\ q <= chain.target
        /\ since >= 0 /\ ~fed
    BY <2>1 DEF FeedInv, Serving
  <2> DEFINE owed == (chain.depth - 1) * Frag
  <2>3. owed \in Int
    BY Numbers DEF FeedInv, Fields, IsChain
  <2>4. device /\ since <= MaxGap => q + since + phase - 1 >= owed
    BY <2>1 DEF FeedInv, Fields, Serving, Played, Never
  <2> HIDE DEF owed
  <2>5. since \in 0 .. MaxGap + 1 /\ q \in 0 .. Cap /\ phase \in 1 .. Buffer
    BY <2>2, Numbers DEF FeedInv, Fields, Never
  <2>6. since' >= 0 /\ q' <= q /\ q' \in 0 .. Cap
    BY <2>5, Ticked, Numbers DEF Never
  <2>7. device /\ since' <= MaxGap => q' + since' + phase' - 1 >= owed
    BY <2>3, <2>4, <2>5, Ticked, Numbers DEF Never
  <2>8. device' /\ since' <= MaxGap => q' + (since' + phase' - 1) >= owed
    <3>1. since' \in Int /\ phase' \in Int /\ q' \in Int
      BY <2>5, Ticked, Numbers DEF Never
    <3>2. q' + since' + phase' - 1 = q' + (since' + phase' - 1)
      BY <3>1
    <3> QED
      BY <2>1, <2>7, <3>2
  <2>9. chain.target \in Nat
    BY <2>2, TargetBridges DEF FeedInv, Fields
  <2>10. q' <= chain.target
    BY <2>2, <2>5, <2>6, <2>9
  <2> QED
    BY <2>1, <2>2, <2>6, <2>8, <2>10 DEF Serving, Played, owed
<1> QED
  BY <1>1, <1>2 DEF FeedInv, Serving

LEMMA FeedStep == FeedInv /\ [Next]_vars => FeedInv'
<1> SUFFICES ASSUME FeedInv, [Next]_vars PROVE FeedInv'
  OBVIOUS
<1>1. CASE UNCHANGED vars
  BY <1>1 DEF vars, FeedInv, Fields, Serving, Played
<1> QED
  BY <1>1, FeedLaunch, FeedSetRunning, FeedAsk, FeedServe, FeedSlice, FeedTick
     DEF Next, Ask

LEMMA AlwaysFeedInv == Spec => []FeedInv
  BY FeedStart, FeedStep, PTL DEF Spec

-----------------------------------------------------------------------------
(* A serving fills the queue.                                              *)

LEMMA FieldsAreTyped == ASSUME Fields PROVE LatencyBounded
<1>1. ToSet(threads) \subseteq {Mixer, Music}
  <2>1. \A i \in DOMAIN threads : threads[i] \in {Mixer, Music}
    BY LenProperties, ElementOfSeq DEF Fields
  <2> QED
    BY <2>1 DEF ToSet
<1> QED
  BY <1>1 DEF Fields, IsChain, LatencyBounded, TypeOK

LEMMA EndsFull ==
  ASSUME FeedInv, [Next]_vars, device, chain # Idle, chain' = Idle, since <= Slack
  PROVE  q' > chain.target
<1>1. SliceReturns
  <2>1. chain' # chain
    OBVIOUS
  <2> QED
    BY <2>1, Ticked DEF Next, vars, Launch, SetRunning, Ask, AskEarly, AskNotRunning,
                        AskFull, Serve
<1>2. chain.depth >= ChainMax \/ q' > chain.target
  BY <1>1 DEF SliceReturns, Idle, FeedInv, Fields, IsChain
<1>3. ASSUME chain.depth >= ChainMax, q' = q + Frag
      PROVE  q' > chain.target
  <2>1. chain.depth = ChainMax
    BY <1>3, Numbers DEF FeedInv, Fields, IsChain
  <2> DEFINE all  == ChainMax * Frag
             owed == (ChainMax - 1) * Frag
  <2>2. all \in Nat /\ owed = all - Frag
    BY Numbers
  <2>3. Slack = all - Ceiling - Buffer /\ all <= Ceiling + Buffer + MaxGap
    BY FeedConstants DEF Slack
  <2>4. device /\ since <= MaxGap => q + Played >= owed
    BY <2>1 DEF FeedInv, Serving
  <2>5. chain.target \in Nat /\ chain.target <= Ceiling /\ since >= 0
    <3>1. chain.target = Target(gap) /\ since >= 0
      BY DEF FeedInv, Serving
    <3>2. gap \in Nat
      BY DEF FeedInv, Fields
    <3> QED
      BY <3>1, <3>2, TargetBridges
  <2> HIDE DEF all, owed
  <2>6. since <= MaxGap
    BY <2>2, <2>3, <2>5, Numbers DEF FeedInv, Fields, Never
  <2>7. q + (since + phase - 1) >= all - Frag
    BY <2>2, <2>4, <2>6 DEF Played
  <2> QED
    BY <1>3, <2>2, <2>3, <2>5, <2>7, Numbers DEF FeedInv, Fields, Never
<1> QED
  BY <1>1, <1>2, <1>3, SliceQueued

(* A serving of at most ChainMax slices fills the queue to its target,     *)
(* however empty it was and whatever the device plays meanwhile, unless    *)
(* the slices take longer than Slack; and never by more than a slice       *)
(* (schedule_sound_chain).                                                 *)
THEOREM ServingsFillTheQueue == Spec => ServingFills
<1>1. FeedInv => LatencyBounded
  BY FieldsAreTyped DEF FeedInv
<1>2. FeedInv /\ LatencyBounded' /\ [Next]_vars =>
        [ /\ LatencyBounded'
          /\ device /\ chain # Idle /\ chain' = Idle /\ since <= Slack
             => q' > chain.target ]_vars
  BY EndsFull
<1> QED
  BY <1>1, <1>2, AlwaysFeedInv, PTL DEF Spec, ServingFills

-----------------------------------------------------------------------------
(* The queue bridges the gap.                                              *)

(* Once an ask has found or made the queue deep enough, what is in it and  *)
(* what the device has played reach over the gap, or are all that the      *)
(* ceiling allows.                                                         *)
Reaches ==
  \/ q + since + phase >= gap + Buffer
  \/ q + since + phase >= Ceiling + 2 - Floor

(* Until the floor has passed the guest may ask again, which measures a    *)
(* gap from then on and does not look at the queue.                        *)
Spare ==
  \/ q + phase + Floor - hold >= Ceiling + 2
  \/ q + phase + Floor - hold >= Most((gap * 9) \div 10, Floor) + Buffer + Floor

Bridging ==
  /\ hold > 0 => since >= 0 /\ since <= Floor - hold
  /\ fed => since >= 0
  /\ fed /\ device /\ since <= MaxGap => Reaches
  /\ fed /\ device /\ hold > 0 => Spare

BridgeInv == FeedInv /\ Bridging

(* A queue deeper than its target reaches over the gap.                    *)
LEMMA DeepEnough ==
  ASSUME Fields, since >= 0, q > Target(gap)
  PROVE  Reaches /\ Spare
<1> DEFINE T == Target(gap)
           t == Most((gap * 9) \div 10, Floor)
<1>1. /\ T \in Nat
      /\ T = Ceiling \/ T + 2 >= gap + Buffer
      /\ T = Ceiling \/ T + 2 >= t + Buffer + Floor
  BY TargetBridges DEF Fields
<1>2. /\ q \in 0 .. Cap /\ phase \in 1 .. Buffer /\ since \in 0 .. MaxGap + 1
      /\ gap \in 0 .. MaxGap /\ hold \in 0 .. Floor
  BY Numbers DEF Fields, Never
<1>3. t \in Nat
  BY <1>2, Numbers DEF Most
<1> HIDE DEF T, t
<1>4. q > T
  BY DEF T
<1>5. Reaches
  BY <1>1, <1>2, <1>4, Numbers DEF Reaches
<1>6. \/ q + phase + Floor - hold >= Ceiling + 2
      \/ q + phase + Floor - hold >= t + Buffer + Floor
  BY <1>1, <1>2, <1>3, <1>4, Numbers
<1> QED
  BY <1>5, <1>6 DEF Spare, t

LEMMA BridgeStart == Init => BridgeInv
  BY FeedStart, Numbers DEF Init, BridgeInv, Bridging

LEMMA BridgeEarly == ASSUME BridgeInv, AskEarly PROVE Bridging'
<1> DEFINE t  == (gap * 9) \div 10
           g1 == gap'
           t1 == (g1 * 9) \div 10
<1>1. /\ q \in 0 .. Cap /\ phase \in 1 .. Buffer /\ gap \in 0 .. MaxGap
      /\ hold \in 0 .. Floor /\ hold > 0 /\ since >= 0 /\ since <= Floor - hold
      /\ since \in Int
  BY Numbers DEF BridgeInv, Bridging, FeedInv, Fields, AskEarly, Never
<1>2. since <= Floor
  BY <1>1, Numbers
<1>3. g1 \in 0 .. MaxGap /\ g1 <= Most(t, Floor)
  BY <1>1, <1>2, MeasuredGap DEF BridgeInv, FeedInv, AskEarly
<1>4. since' = 0 /\ UNCHANGED <<device, q, phase, hold, fed>>
  BY DEF AskEarly
<1>5. t \in Nat
  BY <1>1, Numbers
<1> HIDE DEF g1
<1>6. t1 \in Nat /\ t1 <= g1
  BY <1>3, Numbers
<1>7. fed /\ device => \/ q + phase + Floor - hold >= Ceiling + 2
                       \/ q + phase + Floor - hold >= Most(t, Floor) + Buffer + Floor
  BY <1>1 DEF BridgeInv, Bridging, Spare
<1> HIDE DEF t, t1
<1>8. Most(t1, Floor) <= Most(t, Floor) /\ Most(t, Floor) \in Nat /\ Most(t1, Floor) \in Nat
  BY <1>3, <1>5, <1>6, Numbers DEF Most
<1>9. fed /\ device => \/ q + 0 + phase >= g1 + Buffer
                       \/ q + 0 + phase >= Ceiling + 2 - Floor
  BY <1>1, <1>3, <1>7, <1>8, Numbers
<1>10. fed /\ device => \/ q + phase + Floor - hold >= Ceiling + 2
                        \/ q + phase + Floor - hold >= Most(t1, Floor) + Buffer + Floor
  BY <1>1, <1>7, <1>8, Numbers
<1>11. fed' /\ device' => Reaches'
  BY <1>4, <1>9 DEF Reaches, g1
<1>12. fed' /\ device' => Spare'
  BY <1>4, <1>10 DEF Spare, t1, g1
<1> QED
  BY <1>1, <1>2, <1>4, <1>11, <1>12, Numbers DEF Bridging

LEMMA BridgeAsk ==
  ASSUME BridgeInv, FeedInv', AskNotRunning \/ AskFull \/ Serve
  PROVE  Bridging'
<1>1. hold = 0 /\ since' = 0 /\ gap' = Measured /\ hold' \in {0, Floor}
  BY DEF AskNotRunning, AskFull, Serve
<1>2. fed' => q > Target(gap') /\ q' = q
  BY <1>1 DEF AskNotRunning, AskFull, Serve
<1>3. Fields'
  BY DEF FeedInv
<1>4. fed' => Reaches' /\ Spare'
  <2>1. (Fields /\ since >= 0 /\ q > Target(gap) => Reaches /\ Spare)'
    BY DeepEnough, PTL
  <2> QED
    BY <1>1, <1>2, <1>3, <2>1
<1>5. hold' > 0 => since' >= 0 /\ since' <= Floor - hold'
  <2> DEFINE h == hold'
             s == since'
  <2>1. s = 0 /\ (h = 0 \/ h = Floor)
    BY <1>1
  <2> HIDE DEF h, s
  <2>2. h > 0 => s >= 0 /\ s <= Floor - h
    BY <2>1, Numbers
  <2> QED
    BY <2>2 DEF h, s
<1> QED
  BY <1>1, <1>4, <1>5 DEF Bridging

LEMMA BridgeSlice == ASSUME BridgeInv, FeedInv', SliceReturns PROVE Bridging'
<1>1. chain # Idle /\ UNCHANGED <<device, phase, since, gap, hold>>
  BY SliceQueued DEF BridgeInv, SliceReturns
<1>2. since >= 0 /\ chain.target = Target(gap)
  BY <1>1 DEF BridgeInv, FeedInv, Serving
<1>3. fed' => q' > Target(gap')
  BY <1>1, <1>2 DEF SliceReturns
<1>4. fed' => Reaches' /\ Spare'
  <2>1. (Fields /\ since >= 0 /\ q > Target(gap) => Reaches /\ Spare)'
    BY DeepEnough, PTL
  <2> QED
    BY <1>1, <1>2, <1>3, <2>1 DEF FeedInv
<1> QED
  BY <1>1, <1>2, <1>4 DEF BridgeInv, Bridging

LEMMA BridgeTick == ASSUME BridgeInv, Tick PROVE Bridging'
<1> DEFINE m == Most((gap * 9) \div 10, Floor)
<1>1. /\ q \in 0 .. Cap /\ phase \in 1 .. Buffer /\ gap \in 0 .. MaxGap
      /\ hold \in 0 .. Floor /\ since \in {Never} \cup 0 .. MaxGap + 1
  BY DEF BridgeInv, FeedInv, Fields
<1>2. m \in Nat
  BY <1>1, Numbers DEF Most
<1>3. UNCHANGED <<device, gap, fed>>
  BY Ticked DEF BridgeInv
<1>4. hold' > 0 => hold > 0 /\ hold' = hold - 1
  BY <1>1, Ticked, Numbers DEF BridgeInv
<1>5. since >= 0 => /\ since' >= 0 /\ since' <= since + 1
                    /\ since' <= MaxGap => since <= MaxGap /\ since' = since + 1
  BY <1>1, Ticked, Numbers DEF BridgeInv, Never
<1>6. hold' > 0 => since' >= 0 /\ since' <= Floor - hold'
  BY <1>1, <1>4, <1>5, Ticked, Numbers DEF BridgeInv, Bridging, Never
<1>e. (fed' <=> fed) /\ (device' <=> device) /\ (fed => since >= 0)
  BY <1>3, Zenon DEF BridgeInv, Bridging
<1>7. fed' => since' >= 0
  BY <1>5, <1>e
<1>8. ASSUME fed', device', since' <= MaxGap PROVE Reaches'
  <2>1. fed /\ device /\ since >= 0 /\ since <= MaxGap /\ since' = since + 1
    BY <1>5, <1>8, <1>e
  <2>2. \/ q + since + phase >= gap + Buffer
        \/ q + since + phase >= Ceiling + 2 - Floor
    BY <2>1 DEF BridgeInv, Bridging, Reaches
  <2>3. since \in 0 .. MaxGap
    BY <1>1, <2>1, Numbers DEF Never
  <2>4. \/ q' + since' + phase' >= gap + Buffer
        \/ q' + since' + phase' >= Ceiling + 2 - Floor
    <3>1. CASE phase # 1
      BY <1>1, <2>1, <2>2, <2>3, <3>1, Ticked, Numbers DEF BridgeInv
    <3>2. CASE phase = 1
      <4>1. phase' = Buffer /\ q' = IF q < Buffer THEN 0 ELSE q - Buffer
        BY <2>1, <3>2, Ticked DEF BridgeInv
      <4> QED
        BY <1>1, <2>1, <2>2, <2>3, <3>2, <4>1, Numbers
    <3> QED
      BY <3>1, <3>2
  <2> QED
    BY <1>3, <2>4 DEF Reaches
<1>9. ASSUME fed', device', hold' > 0 PROVE Spare'
  <2>1. fed /\ device /\ hold > 0 /\ hold' = hold - 1
    BY <1>3, <1>4, <1>9
  <2>2. \/ q + phase + Floor - hold >= Ceiling + 2
        \/ q + phase + Floor - hold >= m + Buffer + Floor
    BY <2>1 DEF BridgeInv, Bridging, Spare
  <2> HIDE DEF m
  <2>3. \/ q' + phase' + Floor - hold' >= Ceiling + 2
        \/ q' + phase' + Floor - hold' >= m + Buffer + Floor
    <3>1. CASE phase # 1
      BY <1>1, <1>2, <2>1, <2>2, <3>1, Ticked, Numbers DEF BridgeInv
    <3>2. CASE phase = 1
      <4>1. phase' = Buffer /\ q' = IF q < Buffer THEN 0 ELSE q - Buffer
        BY <2>1, <3>2, Ticked DEF BridgeInv
      <4> QED
        BY <1>1, <1>2, <2>1, <2>2, <3>2, <4>1, Numbers, BridgeConstants
    <3> QED
      BY <3>1, <3>2
  <2> QED
    BY <1>3, <2>3 DEF Spare, m
<1> QED
  BY <1>6, <1>7, <1>8, <1>9 DEF Bridging

LEMMA BridgeStep == BridgeInv /\ [Next]_vars => BridgeInv'
<1> SUFFICES ASSUME BridgeInv, [Next]_vars PROVE BridgeInv'
  OBVIOUS
<1>1. FeedInv'
  BY FeedStep DEF BridgeInv
<1>2. ASSUME NEW t \in {Mixer, Music}, Launch(t) \/ SetRunning(t) PROVE Bridging'
  BY <1>2 DEF Launch, SetRunning, BridgeInv, Bridging, Reaches, Spare
<1>3. CASE UNCHANGED vars
  <2>1. UNCHANGED <<device, q, phase, since, gap, hold, fed>>
    BY <1>3 DEF vars
  <2>2. (fed' <=> fed) /\ (device' <=> device)
    BY <2>1, Zenon
  <2>3. (Reaches' <=> Reaches) /\ (Spare' <=> Spare)
    BY <2>1 DEF Reaches, Spare
  <2>4. /\ hold' > 0 => since' >= 0 /\ since' <= Floor - hold'
        /\ since' >= 0 <=> since >= 0
        /\ since' <= MaxGap <=> since <= MaxGap
        /\ hold' > 0 <=> hold > 0
    BY <2>1 DEF BridgeInv, Bridging
  <2> QED
    BY <1>1, <2>2, <2>3, <2>4, Zenon DEF BridgeInv, Bridging
<1> QED
  BY <1>1, <1>2, <1>3, BridgeEarly, BridgeAsk, BridgeSlice, BridgeTick
     DEF Next, Ask, BridgeInv

LEMMA DryIsLate ==
  ASSUME BridgeInv, Tick, RunsDry, fed, gap + Buffer + Floor <= Ceiling
  PROVE  since' > gap
<1>1. /\ q \in 0 .. Cap /\ phase = 1 /\ gap \in 0 .. MaxGap /\ device /\ q < Buffer
      /\ since \in 0 .. MaxGap + 1
  BY Numbers DEF BridgeInv, FeedInv, Fields, Bridging, RunsDry, Callback, Never
<1>2. since' = IF since <= MaxGap THEN since + 1 ELSE MaxGap + 1
  BY <1>1, Ticked, Numbers DEF BridgeInv, Never
<1>3. since <= MaxGap => \/ q + since + phase >= gap + Buffer
                         \/ q + since + phase >= Ceiling + 2 - Floor
  BY <1>1 DEF BridgeInv, Bridging, Reaches
<1> QED
  BY <1>1, <1>2, <1>3, Numbers

(* Once an ask has found the queue deep enough, or a serving has made it   *)
(* so, the device does not run dry within the measured gap, even if the    *)
(* guest asks again before the floor has passed and is not served          *)
(* (maybe_redirect_sound, audio_callback).                                 *)
THEOREM QueueBridgesGap == Spec => BridgesGap
<1>1. BridgeInv /\ [Next]_vars =>
        [ Tick /\ RunsDry /\ fed /\ gap + Buffer + Floor <= Ceiling
            => since' > gap ]_vars
  BY DryIsLate
<1> QED
  BY <1>1, BridgeStart, BridgeStep, PTL DEF Spec, BridgesGap
=============================================================================
