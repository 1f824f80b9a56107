-------------------------- MODULE HeartbeatProofs --------------------------
(***************************************************************************)
(* Proofs about Heartbeat, for sleeps and intervals of any lengths, clocks *)
(* that are late by any amount and calls nested to any depth.              *)
(***************************************************************************)
EXTENDS Heartbeat, SequenceTheorems, WellFoundedInduction, TLAPS

Kinds  == {"sleep", "tick", "slice"}
Places == {"entry", "loop", "given_up", "run", "music"}

Marks  == {"clear", "slept", "mistaken"}

Frames ==
  [kind : Kinds, at : Places, ret : Sites \cup {0}, req : Nat, rem : 0 .. Clamp,
   owed : Int, mark : Marks]

(* The nest of calls: a tick or a slice runs on top of a sleep or of       *)
(* nothing, a sleep on one of them or on nothing; a sleep that is not on   *)
(* top waits for a tick or was given up; and no two slices of sound run.   *)
(* The marks: a tick with calls above it has slept, and so has, with its   *)
(* tick, the sleep below it.                                               *)
WellKept(f) ==
  /\ f.kind = "sleep" => f.at \in {"entry", "loop", "given_up"}
  /\ f.kind = "tick" => f.at = "run"
  /\ f.kind = "slice" => f.at \in {"run", "music"}

WellUnder(f, g) ==
  /\ f.kind # "sleep" => g.kind = "sleep"
  /\ f.kind = "sleep" => g.kind # "sleep" /\ f.at # "loop"
  /\ f.at = "entry" => g.kind = "tick"
  /\ f.at = "entry" /\ g.mark # "clear" => f.mark # "clear"

Nest(s) ==
  /\ \A i \in 1 .. Len(s) : WellKept(s[i])
  /\ \A i \in 1 .. Len(s) - 1 : WellUnder(s[i], s[i + 1])
  /\ \A i \in 1 .. Len(s) - 2 : s[i].at = "entry" => s[i + 1].mark # "clear"
  /\ \A i, j \in 1 .. Len(s) :
       s[i].kind = "slice" /\ s[i].at = "run" /\ s[j].kind = "slice" /\ s[j].at = "run"
         => i = j
  /\ Len(s) > 0 => s[Len(s)].at # "given_up"

(* A tick has interrupted the sleep below it and will return to it.        *)
Interrupted(s) ==
  /\ Len(s) > 1 /\ s[Len(s)].kind = "tick"
  /\ s[Len(s) - 1].at = "entry"

(* The record of the interrupted sleep: while the tick has not slept it is *)
(* there and is about the sleep below; or a sleep is just beginning.       *)
Record(s, res, ret, l) ==
  IF Interrupted(s)
  THEN LET u == s[Len(s) - 1]
       IN  /\ res <=> s[Len(s)].mark = "clear"
           /\ res => ret = u.ret
           /\ res /\ u.mark = "clear" => l = u.owed
  ELSE res => Len(s) > 0 /\ s[Len(s)].at = "entry"

(* What the sleep on top is owed: by the record if it is the one that the  *)
(* record is about, and else all that it asks for.                         *)
Owing(s, res, ret, l) ==
  Len(s) > 0 /\ s[Len(s)].mark = "clear" =>
    LET f == s[Len(s)]
    IN  /\ f.at = "loop" => l = f.owed /\ f.rem = Most(f.owed, 0)
        /\ f.at = "entry" /\ res /\ ret = f.ret => l = f.owed
        /\ f.at = "entry" /\ ~(res /\ ret = f.ret) => f.owed = Least(f.req, Clamp)

SliceRuns(s) == \E i \in 1 .. Len(s) : s[i].kind = "slice" /\ s[i].at = "run"

(* The schedule: an interval is positive, and what one and two ticks since *)
(* the clock last moved have left of the backlog.                          *)
Schedule(t, b) ==
  /\ t \in [armed : BOOLEAN, due : Int, interval : Nat]
  /\ b \in 0 .. 2
  /\ t.armed => t.interval > 0
  /\ t.armed /\ b = 1 => t.due >= 0
  /\ t.armed /\ b = 2 => t.due > 0

Flags ==
  /\ custom \in BOOLEAN /\ resuming \in BOOLEAN /\ slicing \in BOOLEAN
  /\ resumeRet \in Sites \cup {0}
  /\ left \in Int /\ left <= Clamp

BeatInv ==
  /\ stack \in Seq(Frames)
  /\ Nest(stack)
  /\ Record(stack, resuming, resumeRet, left)
  /\ Owing(stack, resuming, resumeRet, left)
  /\ slicing <=> SliceRuns(stack)
  /\ Schedule(timer, burst)
  /\ Flags

-----------------------------------------------------------------------------
(* The stack.                                                              *)

LEMMA Bounds ==
  /\ Clamp \in Nat /\ SkipMax \in Nat /\ SkipMax > 0 /\ Work \in Nat
  /\ Late \in Nat /\ Over \in Nat /\ Depth \in Nat
  /\ Requests \subseteq Nat /\ Intervals \subseteq Nat /\ Sites \subseteq Nat
BY HeartbeatConstants

LEMMA Length ==
  ASSUME stack \in Seq(Frames)
  PROVE  /\ Len(stack) \in Nat
         /\ \A i \in 1 .. Len(stack) : stack[i] \in Frames
         /\ stack # <<>> => Len(stack) > 0 /\ Top \in Frames
<1>1. Len(stack) \in Nat /\ \A i \in 1 .. Len(stack) : stack[i] \in Frames
  BY LenProperties, ElementOfSeq
<1>2. stack # <<>> => Len(stack) > 0
  BY <1>1, EmptySeq
<1> QED
  BY <1>1, <1>2 DEF Top

LEMMA BelowIs ==
  ASSUME stack \in Seq(Frames), stack # <<>>
  PROVE  /\ Below \in Seq(Frames) /\ Len(Below) = Len(stack) - 1
         /\ \A i \in 1 .. Len(stack) - 1 : Below[i] = stack[i]
<1>1. Len(stack) \in Nat \ {0} /\ \A i \in 1 .. Len(stack) - 1 : stack[i] \in Frames
  BY Length
<1> DEFINE b == SubSeq(stack, 1, Len(stack) - 1)
<1>2. /\ b \in Seq(Frames)
      /\ Len(b) = IF 1 <= Len(stack) - 1 THEN Len(stack) - 1 - 1 + 1 ELSE 0
      /\ \A i \in 1 .. Len(stack) - 1 - 1 + 1 : b[i] = stack[1 + i - 1]
  BY <1>1, SubSeqProperties
<1>3. Below = b
  BY DEF Below
<1> HIDE DEF b
<1>4. Len(b) = Len(stack) - 1
  <2> DEFINE n == Len(stack)
             k == Len(b)
  <2>1. n \in Nat \ {0} /\ k = IF 1 <= n - 1 THEN n - 1 - 1 + 1 ELSE 0
    BY <1>1, <1>2
  <2> HIDE DEF n, k
  <2>2. k = n - 1
    BY <2>1
  <2> QED
    BY <2>2 DEF n, k
<1>5. ASSUME NEW i \in 1 .. Len(stack) - 1 PROVE b[i] = stack[i]
  BY <1>1, <1>2
<1> QED
  BY <1>2, <1>3, <1>4, <1>5

LEMMA Below2Is ==
  ASSUME stack \in Seq(Frames), Len(stack) > 1
  PROVE  LET b == SubSeq(Below, 1, Len(Below) - 1)
         IN  /\ b \in Seq(Frames) /\ Len(b) = Len(stack) - 2
             /\ \A i \in 1 .. Len(stack) - 2 : b[i] = stack[i]
<1>1. Len(stack) \in Nat \ {0} /\ stack # <<>>
  BY Length, EmptySeq
<1>2. /\ Below \in Seq(Frames) /\ Len(Below) = Len(stack) - 1
      /\ \A i \in 1 .. Len(stack) - 1 : Below[i] = stack[i]
  BY <1>1, BelowIs
<1>3. \A i \in 1 .. Len(Below) - 1 : Below[i] \in Frames
  BY <1>1, <1>2, LenProperties, ElementOfSeq
<1>4. /\ SubSeq(Below, 1, Len(Below) - 1) \in Seq(Frames)
      /\ Len(SubSeq(Below, 1, Len(Below) - 1))
           = IF 1 <= Len(Below) - 1 THEN Len(Below) - 1 - 1 + 1 ELSE 0
      /\ \A i \in 1 .. Len(Below) - 1 - 1 + 1 :
           SubSeq(Below, 1, Len(Below) - 1)[i] = Below[1 + i - 1]
  BY <1>1, <1>2, <1>3, SubSeqProperties
<1> QED
  BY <1>1, <1>2, <1>4

(* The frame on top is replaced by f, and g is put on top of that.         *)
LEMMA Replaced ==
  ASSUME stack \in Seq(Frames), stack # <<>>, NEW f \in Frames
  PROVE  /\ Append(Below, f) \in Seq(Frames)
         /\ Len(Append(Below, f)) = Len(stack)
         /\ Append(Below, f)[Len(stack)] = f
         /\ \A i \in 1 .. Len(stack) - 1 : Append(Below, f)[i] = stack[i]
<1>1. Len(stack) \in Nat \ {0}
  BY Length
<1>2. /\ Below \in Seq(Frames) /\ Len(Below) = Len(stack) - 1
      /\ \A i \in 1 .. Len(stack) - 1 : Below[i] = stack[i]
  BY BelowIs
<1> HIDE DEF Below
<1> QED
  BY <1>1, <1>2

LEMMA Covered ==
  ASSUME stack \in Seq(Frames), stack # <<>>, NEW f \in Frames, NEW g \in Frames
  PROVE  LET s == Below \o <<f, g>>
         IN  /\ s \in Seq(Frames) /\ Len(s) = Len(stack) + 1
             /\ s[Len(stack) + 1] = g /\ s[Len(stack)] = f
             /\ \A i \in 1 .. Len(stack) - 1 : s[i] = stack[i]
<1>1. Len(stack) \in Nat \ {0}
  BY Length
<1>2. /\ Below \in Seq(Frames) /\ Len(Below) = Len(stack) - 1
      /\ \A i \in 1 .. Len(stack) - 1 : Below[i] = stack[i]
  BY BelowIs
<1>3. /\ <<f, g>> \in Seq(Frames) /\ Len(<<f, g>>) = 2
      /\ <<f, g>>[1] = f /\ <<f, g>>[2] = g
  OBVIOUS
<1>4. /\ Below \o <<f, g>> \in Seq(Frames)
      /\ Len(Below \o <<f, g>>) = Len(Below) + Len(<<f, g>>)
      /\ \A i \in 1 .. Len(Below) + Len(<<f, g>>) :
           (Below \o <<f, g>>)[i]
             = IF i <= Len(Below) THEN Below[i] ELSE <<f, g>>[i - Len(Below)]
  BY <1>2, <1>3, ConcatProperties
<1> HIDE DEF Below
<1> QED
  BY <1>1, <1>2, <1>3, <1>4

-----------------------------------------------------------------------------
(* The nest of calls, as the stack changes.                                *)

(* The sleep on top goes on.                                               *)
LEMMA NestReplaced ==
  ASSUME stack \in Seq(Frames), stack # <<>>, Nest(stack),
         NEW s \in Seq(Frames), Len(s) = Len(stack), NEW f \in Frames,
         s[Len(stack)] = f,
         \A i \in 1 .. Len(stack) - 1 : s[i] = stack[i],
         Top.kind = "sleep", f.kind = "sleep", f.at \in {"entry", "loop"}
  PROVE  Nest(s) /\ (SliceRuns(s) <=> SliceRuns(stack))
<1> DEFINE n == Len(stack)
<1>1. n \in Nat \ {0}
  BY Length
<1>2. \A i \in 1 .. n : stack[i] \in Frames
  BY Length
<1>3. /\ s[n] = f /\ stack[n] = Top
      /\ \A i \in 1 .. n - 1 : s[i] = stack[i]
  BY <1>1 DEF Top
<1>4. WellKept(f)
  BY <1>1, <1>3 DEF Nest, WellKept
<1>5. \A i \in 1 .. n : WellKept(s[i])
  BY <1>1, <1>3, <1>4 DEF Nest
<1>6. ASSUME NEW i \in 1 .. n - 1 PROVE WellUnder(s[i], s[i + 1])
  <2>1. WellUnder(stack[i], stack[i + 1])
    BY <1>1 DEF Nest
  <2>2. CASE i = n - 1
    BY <1>1, <1>3, <2>1, <2>2 DEF WellUnder
  <2>3. CASE i < n - 1
    BY <1>1, <1>3, <2>1, <2>3
  <2> QED
    BY <1>1, <2>2, <2>3
<1>7. \A i \in 1 .. n : (s[i].kind = "slice" /\ s[i].at = "run")
                          <=> (stack[i].kind = "slice" /\ stack[i].at = "run")
  BY <1>1, <1>3
<1>8. SliceRuns(s) <=> SliceRuns(stack)
  BY <1>7 DEF SliceRuns
<1>9. \A i, j \in 1 .. n :
        s[i].kind = "slice" /\ s[i].at = "run" /\ s[j].kind = "slice" /\ s[j].at = "run"
          => i = j
  BY <1>7 DEF Nest
<1>10. s[n].at # "given_up"
  BY <1>3
<1>11. \A i \in 1 .. n - 2 : s[i].at = "entry" => s[i + 1].mark # "clear"
  BY <1>1, <1>3 DEF Nest
<1> QED
  BY <1>5, <1>6, <1>8, <1>9, <1>10, <1>11 DEF Nest

(* A tick or a slice is put on the sleep that is on top.                   *)
LEMMA NestCovered ==
  ASSUME stack \in Seq(Frames), stack # <<>>, Nest(stack),
         NEW s \in Seq(Frames), Len(s) = Len(stack) + 1,
         NEW f \in Frames, NEW g \in Frames,
         s[Len(stack) + 1] = g, s[Len(stack)] = f,
         \A i \in 1 .. Len(stack) - 1 : s[i] = stack[i],
         Top.kind = "sleep", f.kind = "sleep", g.mark = "clear",
         f.at \in {"entry", "given_up"}, f.at = "entry" => g.kind = "tick",
         g.kind = "tick" => g.at = "run",
         g.kind = "slice" => g.at \in {"run", "music"},
         g.kind \in {"tick", "slice"},
         g.kind = "slice" /\ g.at = "run" => ~SliceRuns(stack)
  PROVE  Nest(s) /\ (SliceRuns(s) <=>
                       SliceRuns(stack) \/ (g.kind = "slice" /\ g.at = "run"))
<1> DEFINE n == Len(stack)
<1>1. n \in Nat \ {0}
  BY Length
<1>2. \A i \in 1 .. n : stack[i] \in Frames
  BY Length
<1>3. /\ s[n] = f /\ s[n + 1] = g /\ stack[n] = Top
      /\ \A i \in 1 .. n - 1 : s[i] = stack[i]
  BY <1>1 DEF Top
<1>4. WellKept(f) /\ WellKept(g)
  BY <1>1, <1>3 DEF Nest, WellKept
<1>5. \A i \in 1 .. n + 1 : WellKept(s[i])
  BY <1>1, <1>3, <1>4 DEF Nest
<1>6. ASSUME NEW i \in 1 .. n PROVE WellUnder(s[i], s[i + 1])
  <2>1. CASE i = n
    BY <1>1, <1>3, <2>1 DEF WellUnder
  <2>2. CASE i < n
    <3>1. WellUnder(stack[i], stack[i + 1])
      BY <1>1, <2>2 DEF Nest
    <3>2. CASE i = n - 1
      BY <1>1, <1>3, <3>1, <3>2 DEF WellUnder
    <3>3. CASE i < n - 1
      BY <1>1, <1>3, <3>1, <3>3
    <3> QED
      BY <1>1, <2>2, <3>2, <3>3
  <2> QED
    BY <1>1, <2>1, <2>2
<1>7. \A i \in 1 .. n : (s[i].kind = "slice" /\ s[i].at = "run")
                          <=> (stack[i].kind = "slice" /\ stack[i].at = "run")
  BY <1>1, <1>3
<1>8. SliceRuns(s) <=> SliceRuns(stack) \/ (g.kind = "slice" /\ g.at = "run")
  <2>1. SliceRuns(stack) => SliceRuns(s)
    BY <1>1, <1>7 DEF SliceRuns
  <2>2. g.kind = "slice" /\ g.at = "run" => SliceRuns(s)
    BY <1>1, <1>3 DEF SliceRuns
  <2>3. SliceRuns(s) => SliceRuns(stack) \/ (g.kind = "slice" /\ g.at = "run")
    BY <1>1, <1>3, <1>7 DEF SliceRuns
  <2> QED
    BY <2>1, <2>2, <2>3
<1>9. ASSUME NEW i \in 1 .. n + 1, NEW j \in 1 .. n + 1,
             s[i].kind = "slice", s[i].at = "run",
             s[j].kind = "slice", s[j].at = "run"
      PROVE  i = j
  <2>1. CASE i = n + 1 \/ j = n + 1
    BY <1>1, <1>3, <1>7, <1>9, <2>1 DEF SliceRuns
  <2>2. CASE i # n + 1 /\ j # n + 1
    BY <1>1, <1>7, <1>9, <2>2 DEF Nest
  <2> QED
    BY <2>1, <2>2
<1>10. s[n + 1].at # "given_up"
  BY <1>3
<1>11. ASSUME NEW i \in 1 .. n - 1, s[i].at = "entry" PROVE s[i + 1].mark # "clear"
  <2>1. CASE i = n - 1
    <3>1. WellUnder(stack[n - 1], stack[n - 1 + 1])
      BY <1>1, <2>1 DEF Nest
    <3> QED
      BY <1>1, <1>3, <1>11, <2>1, <3>1 DEF WellUnder
  <2>2. CASE i # n - 1
    BY <1>1, <1>3, <1>11, <2>2 DEF Nest
  <2> QED
    BY <2>1, <2>2
<1> QED
  BY <1>1, <1>5, <1>6, <1>8, <1>9, <1>10, <1>11 DEF Nest

(* A call f on top of the nest t: any on nothing, a sleep on a tick or a   *)
(* slice.  The tick then has slept.                                        *)
MayPush(t, f) ==
  /\ Len(t) > 0 => t[Len(t)].kind # "sleep" /\ f.kind = "sleep"
  /\ Len(t) > 1 /\ t[Len(t) - 1].at = "entry" => t[Len(t)].mark # "clear"
  /\ WellKept(f) /\ f.at # "given_up"

Pushed(s, t, f) ==
  /\ s \in Seq(Frames) /\ Len(s) = Len(t) + 1
  /\ s[Len(s)] = f
  /\ \A i \in 1 .. Len(t) : s[i] = t[i]
  /\ Nest(s)
  /\ SliceRuns(s) <=> SliceRuns(t) \/ (f.kind = "slice" /\ f.at = "run")

LEMMA NestPushed ==
  ASSUME NEW t \in Seq(Frames), Nest(t), NEW f \in Frames, MayPush(t, f),
         NEW s, s = Append(t, f)
  PROVE  Pushed(s, t, f)
<1> DEFINE n == Len(t)
<1>0. /\ n > 0 => t[n].kind # "sleep" /\ f.kind = "sleep"
      /\ n > 1 /\ t[n - 1].at = "entry" => t[n].mark # "clear"
      /\ WellKept(f) /\ f.at # "given_up"
  BY DEF MayPush
<1>1. n \in Nat /\ \A i \in 1 .. n : t[i] \in Frames
  BY LenProperties, ElementOfSeq
<1>2. /\ s \in Seq(Frames) /\ Len(s) = n + 1 /\ s[n + 1] = f
      /\ \A i \in 1 .. n : s[i] = t[i]
  BY <1>1
<1>4. \A i \in 1 .. n + 1 : WellKept(s[i])
  BY <1>0, <1>1, <1>2 DEF Nest
<1>5. ASSUME NEW i \in 1 .. n PROVE WellUnder(s[i], s[i + 1])
  <2>1. CASE i = n
    <3>1. WellKept(s[n]) /\ s[n] \in Frames
      BY <1>1, <1>2, <1>4, <2>1
    <3> QED
      BY <1>0, <1>1, <1>2, <2>1, <3>1 DEF WellUnder, WellKept, Frames, Kinds
  <2>2. CASE i < n
    BY <1>1, <1>2, <2>2 DEF Nest
  <2> QED
    BY <1>1, <2>1, <2>2
<1>6. ASSUME NEW i \in 1 .. n + 1, NEW j \in 1 .. n + 1,
             s[i].kind = "slice", s[i].at = "run",
             s[j].kind = "slice", s[j].at = "run"
      PROVE  i = j
  <2>1. CASE n = 0
    BY <2>1
  <2>2. CASE n # 0
    BY <1>0, <1>1, <1>2, <1>6, <2>2 DEF Nest
  <2> QED
    BY <2>1, <2>2
<1>7. SliceRuns(s) <=> SliceRuns(t) \/ (f.kind = "slice" /\ f.at = "run")
  <2>1. SliceRuns(t) => SliceRuns(s)
    BY <1>1, <1>2 DEF SliceRuns
  <2>2. f.kind = "slice" /\ f.at = "run" => SliceRuns(s)
    BY <1>1, <1>2 DEF SliceRuns
  <2>3. SliceRuns(s) => SliceRuns(t) \/ (f.kind = "slice" /\ f.at = "run")
    BY <1>1, <1>2 DEF SliceRuns
  <2> QED
    BY <2>1, <2>2, <2>3
<1>8. ASSUME NEW i \in 1 .. n - 1, s[i].at = "entry" PROVE s[i + 1].mark # "clear"
  BY <1>0, <1>1, <1>2, <1>8 DEF Nest
<1>9. Nest(s)
  BY <1>0, <1>1, <1>2, <1>4, <1>5, <1>6, <1>8 DEF Nest
<1> QED
  BY <1>2, <1>7, <1>9 DEF Pushed

(* One call, or two, have returned.                                        *)
LEMMA NestDropped ==
  ASSUME stack \in Seq(Frames), Nest(stack), NEW k \in {1, 2},
         k <= Len(stack),
         NEW s \in Seq(Frames), Len(s) = Len(stack) - k,
         \A i \in 1 .. Len(stack) - k : s[i] = stack[i],
         Len(stack) > k => stack[Len(stack) - k].at # "given_up"
  PROVE  Nest(s)
<1> DEFINE n == Len(stack) - k
<1>1. Len(stack) \in Nat /\ n \in Nat /\ n < Len(stack)
  BY Length
<1>2. \A i \in 1 .. n : WellKept(s[i])
  BY <1>1 DEF Nest
<1>3. ASSUME NEW i \in 1 .. n - 1 PROVE WellUnder(s[i], s[i + 1])
  <2>1. WellUnder(stack[i], stack[i + 1])
    BY <1>1 DEF Nest
  <2> QED
    BY <1>1, <2>1
<1>4. ASSUME NEW i \in 1 .. n, NEW j \in 1 .. n,
             s[i].kind = "slice", s[i].at = "run",
             s[j].kind = "slice", s[j].at = "run"
      PROVE  i = j
  <2>1. /\ i \in 1 .. Len(stack) /\ j \in 1 .. Len(stack)
        /\ s[i] = stack[i] /\ s[j] = stack[j]
    BY <1>1
  <2>2. /\ stack[i].kind = "slice" /\ stack[i].at = "run"
        /\ stack[j].kind = "slice" /\ stack[j].at = "run"
    BY <1>4, <2>1
  <2> QED
    BY <2>1, <2>2 DEF Nest
<1>5. n > 0 => s[n].at # "given_up"
  BY <1>1
<1>6. ASSUME NEW i \in 1 .. n - 2, s[i].at = "entry"
      PROVE  s[i + 1].mark # "clear"
  <2>1. /\ i \in 1 .. Len(stack) - 2
        /\ s[i] = stack[i] /\ s[i + 1] = stack[i + 1]
    BY <1>1
  <2>2. stack[i].at = "entry"
    BY <1>6, <2>1
  <2> QED
    BY <2>1, <2>2 DEF Nest
<1> QED
  BY <1>2, <1>3, <1>4, <1>5, <1>6 DEF Nest

(* Nothing of the nest changes but what is owed, and what remains.         *)
LEMMA NestAlike ==
  ASSUME NEW s \in Seq(Frames), NEW t \in Seq(Frames), Len(t) = Len(s),
         \A i \in 1 .. Len(s) :
           t[i].kind = s[i].kind /\ t[i].at = s[i].at /\ t[i].mark = s[i].mark
  PROVE  /\ Nest(s) => Nest(t)
         /\ SliceRuns(t) <=> SliceRuns(s)
         /\ Interrupted(t) <=> Interrupted(s)
<1>1. Len(s) \in Nat
  BY LenProperties
<1>2. SliceRuns(t) <=> SliceRuns(s)
  BY <1>1 DEF SliceRuns
<1>3. Interrupted(t) <=> Interrupted(s)
  BY <1>1 DEF Interrupted
<1>4. ASSUME Nest(s) PROVE Nest(t)
  <2>1. ASSUME NEW i \in 1 .. Len(s) PROVE WellKept(t[i])
    BY <1>4 DEF Nest, WellKept
  <2>2. ASSUME NEW i \in 1 .. Len(s) - 1 PROVE WellUnder(t[i], t[i + 1])
    <3>1. WellUnder(s[i], s[i + 1]) /\ i \in 1 .. Len(s) /\ i + 1 \in 1 .. Len(s)
      BY <1>1, <1>4 DEF Nest
    <3> QED
      BY <3>1 DEF WellUnder
  <2>3. \A i, j \in 1 .. Len(t) :
          t[i].kind = "slice" /\ t[i].at = "run" /\ t[j].kind = "slice" /\ t[j].at = "run"
            => i = j
    BY <1>1, <1>4 DEF Nest
  <2>4. Len(t) > 0 => t[Len(t)].at # "given_up"
    BY <1>1, <1>4 DEF Nest
  <2>5. ASSUME NEW i \in 1 .. Len(t) - 2, t[i].at = "entry"
        PROVE  t[i + 1].mark # "clear"
    BY <1>1, <1>4, <2>5 DEF Nest
  <2> QED
    BY <2>1, <2>2, <2>3, <2>4, <2>5 DEF Nest
<1> QED
  BY <1>2, <1>3, <1>4

-----------------------------------------------------------------------------
(* Frames.                                                                 *)

LEMMA LeastOf ==
  ASSUME NEW q \in Nat
  PROVE  Least(q, Clamp) \in 0 .. Clamp
BY Bounds DEF Least

LEMMA SleepFrame ==
  ASSUME NEW r \in Sites, NEW q \in Nat, NEW m \in Marks
  PROVE  /\ Sleep(r, q, m) \in Frames
         /\ Sleep(r, q, m).kind = "sleep" /\ Sleep(r, q, m).at = "entry"
         /\ Sleep(r, q, m).ret = r /\ Sleep(r, q, m).req = q
         /\ Sleep(r, q, m).owed = Least(q, Clamp) /\ Sleep(r, q, m).mark = m
<1>1. Least(q, Clamp) \in Int /\ 0 \in 0 .. Clamp
  BY LeastOf, Bounds
<1> QED
  BY <1>1 DEF Sleep, Frames, Kinds, Places

LEMMA CallFrame ==
  ASSUME NEW k \in {"tick", "slice"}
  PROVE  /\ Call(k) \in Frames /\ Call(k).kind = k /\ Call(k).at = "run"
         /\ Call(k).mark = "clear"
BY Bounds DEF Call, Frames, Kinds, Places, Marks

LEMMA MusicFrame ==
  LET f == [Call("slice") EXCEPT !.at = "music"]
  IN  f \in Frames /\ f.kind = "slice" /\ f.at = "music" /\ f.mark = "clear"
BY Bounds DEF Call, Frames, Kinds, Places, Marks

LEMMA WaitingFrame ==
  ASSUME NEW f \in Frames
  PROVE  /\ Waiting(f) \in Frames /\ Waiting(f).at = "entry"
         /\ Waiting(f).kind = f.kind /\ Waiting(f).ret = f.ret
         /\ Waiting(f).owed = f.owed /\ Waiting(f).mark = f.mark
<1>1. "entry" \in Places /\ 0 \in 0 .. Clamp
  BY Bounds DEF Places
<1>2. Waiting(f) = [f EXCEPT !.at = "entry", !.rem = 0]
  BY DEF Waiting
<1> QED
  BY <1>1, <1>2 DEF Frames

LEMMA GivenUpFrame ==
  ASSUME NEW f \in Frames
  PROVE  /\ GivenUp(f) \in Frames /\ GivenUp(f).at = "given_up"
         /\ GivenUp(f).kind = f.kind /\ GivenUp(f).ret = f.ret
<1>1. "given_up" \in Places /\ 0 \in 0 .. Clamp /\ -Late \in Int
  BY Bounds DEF Places
<1>2. GivenUp(f) = [f EXCEPT !.at = "given_up", !.rem = 0, !.owed = -Late]
  BY DEF GivenUp
<1> QED
  BY <1>1, <1>2 DEF Frames

LEMMA FrameRem ==
  ASSUME NEW f \in Frames, NEW r \in 0 .. Clamp,
         NEW g, g = [f EXCEPT !.rem = r]
  PROVE  /\ g \in Frames /\ g.at = f.at /\ g.kind = f.kind /\ g.ret = f.ret
         /\ g.req = f.req /\ g.rem = r /\ g.owed = f.owed /\ g.mark = f.mark
BY DEF Frames

LEMMA FrameOwed ==
  ASSUME NEW f \in Frames, NEW o \in Int,
         NEW g, g = [f EXCEPT !.owed = o]
  PROVE  /\ g \in Frames /\ g.at = f.at /\ g.kind = f.kind /\ g.ret = f.ret
         /\ g.req = f.req /\ g.rem = f.rem /\ g.owed = o /\ g.mark = f.mark
BY DEF Frames

LEMMA EarlierIs ==
  ASSUME NEW x \in Int, NEW k \in Nat
  PROVE  /\ Earlier(x, k) \in Int
         /\ x <= Clamp => Earlier(x, k) <= Clamp
         /\ x >= 0 /\ k = 0 => Earlier(x, k) = x
BY Bounds DEF Earlier, Most

(* All the frames have grown older by k.                                   *)
Older(s, k) == [i \in DOMAIN s |-> [s[i] EXCEPT !.owed = Earlier(@, k)]]

OlderBy(t, s, k) ==
  /\ t \in Seq(Frames) /\ Len(t) = Len(s)
  /\ \A i \in 1 .. Len(s) :
       /\ t[i].kind = s[i].kind /\ t[i].at = s[i].at
       /\ t[i].ret = s[i].ret /\ t[i].req = s[i].req
       /\ t[i].rem = s[i].rem /\ t[i].mark = s[i].mark
       /\ t[i].owed = Earlier(s[i].owed, k)

LEMMA Aged ==
  ASSUME NEW s \in Seq(Frames), NEW k \in Nat, NEW t, t = Older(s, k)
  PROVE  OlderBy(t, s, k)
<1>1. Len(s) \in Nat /\ DOMAIN s = 1 .. Len(s)
  BY LenProperties
<1>2. ASSUME NEW i \in 1 .. Len(s)
      PROVE  /\ t[i] = [s[i] EXCEPT !.owed = Earlier(s[i].owed, k)]
             /\ s[i] \in Frames /\ Earlier(s[i].owed, k) \in Int
  <2>1. s[i] \in Frames
    BY ElementOfSeq
  <2>2. s[i].owed \in Int
    BY <2>1 DEF Frames
  <2>3. Earlier(s[i].owed, k) \in Int
    BY <2>2, EarlierIs
  <2>4. t[i] = [s[i] EXCEPT !.owed = Earlier(s[i].owed, k)]
    BY <1>1 DEF Older
  <2> QED
    BY <2>1, <2>3, <2>4
<1>3. ASSUME NEW i \in 1 .. Len(s)
      PROVE  /\ t[i] \in Frames
             /\ t[i].kind = s[i].kind /\ t[i].at = s[i].at
             /\ t[i].ret = s[i].ret /\ t[i].req = s[i].req
             /\ t[i].rem = s[i].rem /\ t[i].mark = s[i].mark
             /\ t[i].owed = Earlier(s[i].owed, k)
  <2> DEFINE f == s[i]
             o == Earlier(s[i].owed, k)
             g == t[i]
  <2>1. f \in Frames /\ o \in Int /\ g = [f EXCEPT !.owed = o]
    BY <1>2
  <2> HIDE DEF f, o, g
  <2>2. /\ g \in Frames /\ g.at = f.at /\ g.kind = f.kind
        /\ g.ret = f.ret /\ g.req = f.req /\ g.rem = f.rem
        /\ g.owed = o /\ g.mark = f.mark
    BY <2>1, FrameOwed
  <2> QED
    BY <2>2 DEF f, o, g
<1>4. t \in [1 .. Len(s) -> Frames]
  BY <1>1, <1>3 DEF Older
<1>5. t \in Seq(Frames) /\ Len(t) = Len(s)
  BY <1>1, <1>4, SeqDef, LenProperties
<1> QED
  BY <1>3, <1>5 DEF OlderBy

-----------------------------------------------------------------------------
(* The schedule.                                                           *)

LEMMA FirstOf ==
  ASSUME NEW T, T \subseteq Nat, T # {}
  PROVE  \E n \in T : \A o \in T : n <= o
<1> DEFINE R == OpToRel(<, Nat)
<1>1. IsWellFoundedOn(R, Nat)
  BY NatLessThanWellFounded
<1>2. ASSUME NEW n \in Nat, NEW o \in Nat, <<o, n>> \notin R
      PROVE  n <= o
  <2>1. ~(o < n)
    BY <1>2 DEF OpToRel
  <2> QED
    BY <2>1
<1> HIDE DEF R
<1>3. \E n \in T : \A o \in T : <<o, n>> \notin R
  BY <1>1, WFMin
<1> QED
  BY <1>2, <1>3

(* A tick that is delivered leaves a schedule that a second tick in a row  *)
(* meets only at now, and no third.                                        *)
LEMMA AdvancedSchedule ==
  ASSUME NEW t, NEW b, Schedule(t, b), t.armed, t.due <= 0
  PROVE  Schedule(Advanced(t), b + 1)
<1> DEFINE missed  == {n \in 0 .. SkipMax : t.due + n * t.interval > 0}
           first   == CHOOSE n \in missed : \A o \in missed : n <= o
           skipped == IF missed = {} THEN SkipMax ELSE first
           next    == t.due + skipped * t.interval
           due     == IF next < 0 THEN t.interval ELSE next
<1>1. /\ t.due \in Int /\ t.interval \in Nat /\ t.interval > 0 /\ b \in {0, 1}
      /\ b = 1 => t.due = 0
  BY DEF Schedule
<1>2. CASE missed = {}
  <2>1. ~(t.due + 1 * t.interval > 0)
    <3>1. 1 \in 0 .. SkipMax
      BY Bounds
    <3> QED
      BY <1>2, <3>1
  <2>2. b = 0
    BY <1>1, <2>1
  <2>3. skipped \in Nat /\ next \in Int
    BY <1>1, <1>2, Bounds
  <2> HIDE DEF next
  <2>4. due \in Int /\ due >= 0
    BY <1>1, <2>3
  <2>5. Advanced(t) = [t EXCEPT !.due = due]
    BY DEF Advanced, next
  <2> HIDE DEF due
  <2>6. Advanced(t) \in [armed : BOOLEAN, due : Int, interval : Nat]
    BY <2>4, <2>5 DEF Schedule
  <2>7. Advanced(t).due = due /\ Advanced(t).interval = t.interval
    BY <2>4, <2>5 DEF Schedule
  <2> QED
    BY <1>1, <2>2, <2>4, <2>6, <2>7 DEF Schedule
<1>3. CASE missed # {}
  <2>1. missed \subseteq Nat
    BY Bounds
  <2>2. first \in missed
    <3>1. \E n \in missed : \A o \in missed : n <= o
      BY <1>3, <2>1, FirstOf
    <3> QED
      BY <3>1
  <2> HIDE DEF first
  <2>3. first \in Nat /\ t.due + first * t.interval > 0
    BY <2>2, Bounds
  <2>4. next = t.due + first * t.interval
    BY <1>3
  <2>5. next \in Int /\ next > 0
    BY <1>1, <2>3, <2>4
  <2> HIDE DEF next
  <2>6. due \in Int /\ due > 0
    BY <2>5
  <2>7. Advanced(t) = [t EXCEPT !.due = due]
    BY DEF Advanced, next, first
  <2> HIDE DEF due
  <2>8. Advanced(t) \in [armed : BOOLEAN, due : Int, interval : Nat]
    BY <2>6, <2>7 DEF Schedule
  <2>9. Advanced(t).due = due /\ Advanced(t).interval = t.interval
    BY <2>6, <2>7 DEF Schedule
  <2> QED
    BY <1>1, <2>6, <2>8, <2>9 DEF Schedule
<1> QED
  BY <1>2, <1>3

LEMMA PassingSchedule ==
  ASSUME Schedule(timer, burst), NEW k \in Nat,
         timer' = [timer EXCEPT !.due = Earlier(@, k)],
         burst' = IF k > 0 THEN 0 ELSE burst
  PROVE  Schedule(timer, burst)'
<1> DEFINE due == Earlier(timer.due, k)
<1>1. due \in Int
  BY EarlierIs DEF Schedule
<1>2. timer' = [timer EXCEPT !.due = due]
  OBVIOUS
<1>3. timer.due >= 0 /\ k = 0 => due = timer.due
  BY EarlierIs DEF Schedule
<1> HIDE DEF due
<1>4. timer' \in [armed : BOOLEAN, due : Int, interval : Nat]
  BY <1>1, <1>2 DEF Schedule
<1>5. timer'.due = due /\ timer'.interval = timer.interval
  BY <1>1, <1>2 DEF Schedule
<1>6. timer'.armed <=> timer.armed
  BY <1>1, <1>2 DEF Schedule
<1>7. CASE k = 0
  BY <1>3, <1>4, <1>5, <1>6, <1>7 DEF Schedule
<1>8. CASE k > 0
  BY <1>4, <1>5, <1>6, <1>8 DEF Schedule
<1> QED
  BY <1>7, <1>8

-----------------------------------------------------------------------------
(* The guest's calls.                                                      *)

LEMMA InitBeat == Init => BeatInv
<1> SUFFICES ASSUME Init PROVE BeatInv
  OBVIOUS
<1>1. stack \in Seq(Frames) /\ Len(stack) = 0
  BY EmptySeq DEF Init
<1>2. Schedule(timer, burst)
  BY DEF Init, Schedule
<1>3. Flags
  <2>1. resumeRet \in Sites \cup {0} /\ left \in Int /\ left <= Clamp
    BY Bounds DEF Init
  <2>2. custom \in BOOLEAN /\ resuming \in BOOLEAN /\ slicing \in BOOLEAN
    BY DEF Init
  <2> QED
    BY <2>1, <2>2 DEF Flags
<1>4. Nest(stack)
  BY <1>1 DEF Nest
<1>5. Record(stack, resuming, resumeRet, left) /\ Owing(stack, resuming, resumeRet, left)
  BY <1>1 DEF Init, Record, Owing, Interrupted
<1>6. slicing <=> SliceRuns(stack)
  BY <1>1 DEF Init, SliceRuns
<1> QED
  BY <1>1, <1>2, <1>3, <1>4, <1>5, <1>6 DEF BeatInv

LEMMA SameStack ==
  ASSUME BeatInv, UNCHANGED <<stack, sleepVars, slicing>>,
         Schedule(timer, burst)', custom' \in BOOLEAN
  PROVE  BeatInv'
BY DEF BeatInv, sleepVars, Flags, Nest, Record, Interrupted, Owing,
       SliceRuns, WellKept, WellUnder

LEMMA SetTimerBeat ==
  ASSUME BeatInv, NEW v \in Intervals, NEW i \in Intervals, SetTimer(v, i)
  PROVE  BeatInv'
<1> DEFINE period == IF v > 0 THEN v ELSE i
<1>1. v \in Nat /\ i \in Nat /\ period \in Nat
  BY Bounds
<1>2. CASE period = 0
  <2>1. timer' = [timer EXCEPT !.armed = FALSE, !.interval = 0] /\ burst' = burst
    BY <1>2 DEF SetTimer
  <2>2. timer' \in [armed : BOOLEAN, due : Int, interval : Nat]
    BY <2>1 DEF BeatInv, Schedule
  <2>3. ~timer'.armed
    BY <2>1 DEF BeatInv, Schedule
  <2>4. Schedule(timer, burst)'
    BY <2>1, <2>2, <2>3 DEF BeatInv, Schedule
  <2> QED
    BY <2>4, SameStack DEF SetTimer, BeatInv, Flags
<1>3. CASE period # 0
  <2> DEFINE each == IF i > 0 THEN i ELSE period
  <2>1. timer' = [armed |-> TRUE, due |-> period, interval |-> each] /\ burst' = burst
    BY <1>3 DEF SetTimer
  <2>2. each \in Nat /\ each > 0 /\ period > 0
    BY <1>1, <1>3
  <2> HIDE DEF period, each
  <2>3. timer' \in [armed : BOOLEAN, due : Int, interval : Nat]
    BY <1>1, <2>1, <2>2
  <2>4. timer'.due = period /\ timer'.interval = each
    BY <2>1
  <2>5. Schedule(timer, burst)'
    BY <2>1, <2>2, <2>3, <2>4 DEF BeatInv, Schedule
  <2> QED
    BY <2>5, SameStack DEF SetTimer, BeatInv, Flags
<1> QED
  BY <1>2, <1>3

(* The first call is put on top.                                           *)
LEMMA PushBeat ==
  ASSUME BeatInv, stack = <<>>, NEW f \in Frames, WellKept(f),
         f.kind # "sleep",
         stack' = <<f>>, sleepVars' = sleepVars, custom' = custom,
         slicing' <=> (slicing \/ (f.kind = "slice" /\ f.at = "run")),
         slicing' \in BOOLEAN,
         Schedule(timer, burst)'
  PROVE  BeatInv'
<1> DEFINE s == stack'
<1>1. Len(stack) = 0 /\ stack \in Seq(Frames) /\ Nest(stack)
  BY DEF BeatInv
<1>2. f.at \notin {"entry", "loop", "given_up"}
  BY DEF WellKept, Frames, Kinds
<1>3. s = Append(stack, f) /\ MayPush(stack, f)
  BY <1>1, <1>2 DEF MayPush
<1> HIDE DEF s
<1>4. Pushed(s, stack, f)
  BY <1>1, <1>3, NestPushed, Zenon
<1>5. Len(s) = 1 /\ s[1] = f
  BY <1>1, <1>4 DEF Pushed
<1>6. ~resuming
  BY <1>1 DEF BeatInv, Record, Interrupted
<1>7. Record(s, resuming', resumeRet', left')
  BY <1>5, <1>6 DEF Record, Interrupted, sleepVars
<1>8. Owing(s, resuming', resumeRet', left')
  BY <1>2, <1>5 DEF Owing
<1>9. Flags'
  BY DEF BeatInv, Flags, sleepVars
<1>10. slicing' <=> SliceRuns(s)
  BY <1>4 DEF BeatInv, Pushed
<1>11. s \in Seq(Frames) /\ Nest(s)
  BY <1>4 DEF Pushed
<1> QED
  BY <1>7, <1>8, <1>9, <1>10, <1>11 DEF BeatInv, s

(* The history of the nest when the code on top sleeps.                    *)
AllMarked(site) ==
  [i \in DOMAIN stack |-> [stack[i] EXCEPT !.mark = Marked(stack[i], i, site)]]

LEMMA MarkedFrames ==
  ASSUME stack \in Seq(Frames), NEW c \in Sites, NEW t, t = AllMarked(c)
  PROVE  /\ t \in Seq(Frames) /\ Len(t) = Len(stack)
         /\ \A i \in 1 .. Len(stack) :
              /\ t[i].kind = stack[i].kind /\ t[i].at = stack[i].at
              /\ t[i].mark = Marked(stack[i], i, c)
<1>1. Len(stack) \in Nat /\ DOMAIN stack = 1 .. Len(stack)
  BY LenProperties
<1>2. ASSUME NEW i \in 1 .. Len(stack)
      PROVE  /\ t[i] \in Frames
             /\ t[i].kind = stack[i].kind /\ t[i].at = stack[i].at
             /\ t[i].mark = Marked(stack[i], i, c)
  <2> DEFINE f == stack[i]
             m == Marked(stack[i], i, c)
             g == t[i]
  <2>1. f \in Frames /\ g = [f EXCEPT !.mark = m]
    BY <1>1, ElementOfSeq DEF AllMarked
  <2>2. m \in Marks
    BY <2>1 DEF Marked, Marks, Frames
  <2> HIDE DEF f, m, g
  <2>3. g \in Frames /\ g.kind = f.kind /\ g.at = f.at /\ g.mark = m
    BY <2>1, <2>2 DEF Frames
  <2> QED
    BY <2>3 DEF f, m, g
<1>3. t \in [1 .. Len(stack) -> Frames]
  BY <1>1, <1>2 DEF AllMarked
<1>4. t \in Seq(Frames) /\ Len(t) = Len(stack)
  BY <1>1, <1>3, SeqDef, LenProperties
<1> QED
  BY <1>2, <1>4

LEMMA NestMarked ==
  ASSUME stack \in Seq(Frames), Nest(stack), NEW c \in Sites,
         stack # <<>> => Top.kind # "sleep",
         NEW t, t = AllMarked(c)
  PROVE  /\ t \in Seq(Frames) /\ Len(t) = Len(stack) /\ Nest(t)
         /\ SliceRuns(t) <=> SliceRuns(stack)
         /\ Len(t) > 0 => t[Len(t)].kind # "sleep"
         /\ Len(t) > 1 /\ t[Len(t) - 1].at = "entry" => t[Len(t)].mark # "clear"
<1> DEFINE n == Len(stack)
<1>1. /\ t \in Seq(Frames) /\ Len(t) = n
      /\ \A i \in 1 .. n : /\ t[i].kind = stack[i].kind /\ t[i].at = stack[i].at
                           /\ t[i].mark = Marked(stack[i], i, c)
  BY MarkedFrames
<1>2. n \in Nat /\ (stack = <<>> <=> n = 0) /\ (n > 0 => Top = stack[n])
  BY LenProperties, EmptySeq DEF Top
<1>3. \A i \in 1 .. n : stack[i].mark # "clear" => t[i].mark # "clear"
  BY <1>1 DEF Marked
<1>4. ASSUME n > 1, stack[n - 1].at = "entry"
      PROVE  t[n].mark # "clear" /\ t[n - 1].mark # "clear"
  <2>1. WellUnder(stack[n - 1], stack[n - 1 + 1])
    BY <1>2, <1>4 DEF Nest
  <2>2. Top.kind = "tick"
    BY <1>2, <1>4, <2>1 DEF WellUnder
  <2>3. Interrupting
    BY <1>4, <2>2 DEF Interrupting
  <2>4. Marked(stack[n], n, c) # "clear" /\ Marked(stack[n - 1], n - 1, c) # "clear"
    BY <1>2, <1>4, <2>3 DEF Marked
  <2> QED
    BY <1>1, <1>2, <1>4, <2>4
<1>5. ASSUME NEW i \in 1 .. n - 2, stack[i].at = "entry"
      PROVE  t[i + 1].mark # "clear" /\ t[i].mark # "clear"
  <2>1. stack[i + 1].mark # "clear" /\ WellUnder(stack[i], stack[i + 1])
    BY <1>2, <1>5 DEF Nest
  <2>2. stack[i].mark # "clear"
    BY <1>5, <2>1 DEF WellUnder
  <2> QED
    BY <1>2, <1>3, <2>1, <2>2
<1>6. ASSUME NEW i \in 1 .. n - 1 PROVE WellUnder(t[i], t[i + 1])
  <2>1. WellUnder(stack[i], stack[i + 1])
    BY <1>2 DEF Nest
  <2>2. t[i].at = "entry" => t[i].mark # "clear"
    <3>1. CASE i = n - 1
      BY <1>1, <1>2, <1>4, <3>1
    <3>2. CASE i # n - 1
      BY <1>1, <1>2, <1>5, <3>2
    <3> QED
      BY <3>1, <3>2
  <2> QED
    BY <1>1, <1>2, <2>1, <2>2 DEF WellUnder
<1>7. \A i \in 1 .. n : WellKept(t[i])
  BY <1>1 DEF Nest, WellKept
<1>8. \A i, j \in 1 .. n :
        t[i].kind = "slice" /\ t[i].at = "run" /\ t[j].kind = "slice" /\ t[j].at = "run"
          => i = j
  BY <1>1 DEF Nest
<1>9. \A i \in 1 .. n - 2 : t[i].at = "entry" => t[i + 1].mark # "clear"
  BY <1>1, <1>2, <1>5
<1>10. n > 0 => t[n].at # "given_up" /\ t[n].kind # "sleep"
  BY <1>1, <1>2 DEF Nest
<1>11. Nest(t)
  BY <1>1, <1>2, <1>6, <1>7, <1>8, <1>9, <1>10 DEF Nest
<1>12. SliceRuns(t) <=> SliceRuns(stack)
  BY <1>1 DEF SliceRuns
<1> QED
  BY <1>1, <1>2, <1>4, <1>10, <1>11, <1>12

LEMMA UsleepBeat ==
  ASSUME BeatInv, NEW c \in Sites, NEW q \in Requests, Usleep(c, q)
  PROVE  BeatInv'
<1> DEFINE m == IF Mistaken(c) THEN "mistaken" ELSE "clear"
           f == Sleep(c, q, m)
           t == AllMarked(c)
           s == stack'
<1>1. q \in Nat /\ m \in Marks
  BY Bounds DEF Marks
<1> HIDE DEF m
<1>2. /\ f \in Frames /\ f.kind = "sleep" /\ f.at = "entry"
      /\ f.ret = c /\ f.owed = Least(f.req, Clamp) /\ f.mark = m
  BY <1>1, SleepFrame
<1>3. /\ stack # <<>> => Top.kind # "sleep"
      /\ s = Append(t, f)
      /\ UNCHANGED <<timer, custom, sleepVars, slicing, burst>>
  BY DEF Usleep, GuestRuns, AllMarked, m
<1> HIDE DEF f, t, s
<1>4. stack \in Seq(Frames) /\ Nest(stack)
  BY DEF BeatInv
<1>5. /\ t \in Seq(Frames) /\ Len(t) = Len(stack) /\ Nest(t)
      /\ SliceRuns(t) <=> SliceRuns(stack)
      /\ Len(t) > 0 => t[Len(t)].kind # "sleep"
      /\ Len(t) > 1 /\ t[Len(t) - 1].at = "entry" => t[Len(t)].mark # "clear"
  BY <1>3, <1>4, NestMarked DEF t
<1>6. MayPush(t, f)
  BY <1>2, <1>5 DEF MayPush, WellKept
<1>7. Pushed(s, t, f)
  BY <1>2, <1>3, <1>5, <1>6, NestPushed, Zenon
<1>8. /\ s \in Seq(Frames) /\ Nest(s) /\ Len(s) = Len(t) + 1 /\ s[Len(s)] = f
      /\ SliceRuns(s) <=> SliceRuns(t)
  BY <1>2, <1>7 DEF Pushed
<1>9. Len(t) \in Nat
  BY <1>5, LenProperties
<1>10. Record(s, resuming, resumeRet, left)
  <2>1. ~Interrupted(s)
    BY <1>2, <1>8 DEF Interrupted
  <2> QED
    BY <1>2, <1>8, <1>9, <2>1 DEF Record
<1>11. resuming /\ resumeRet = c => m = "mistaken"
  <2> SUFFICES ASSUME resuming, resumeRet = c PROVE Mistaken(c)
    BY DEF m
  <2>1. Interrupted(stack)
    <3> SUFFICES ASSUME ~Interrupted(stack) PROVE FALSE
      OBVIOUS
    <3>1. Len(stack) > 0 /\ stack[Len(stack)].at = "entry"
      BY DEF BeatInv, Record
    <3>2. Top.kind # "sleep" /\ WellKept(Top) /\ Top \in Frames /\ Top.at = "entry"
      <4>1. Len(stack) \in 1 .. Len(stack) /\ stack # <<>>
        BY <1>4, <3>1, Length, EmptySeq
      <4> QED
        BY <1>3, <1>4, <3>1, <4>1, Length DEF Nest, Top
    <3> QED
      BY <3>2 DEF WellKept, Frames, Kinds
  <2>2. Interrupting /\ Top.mark = "clear" /\ stack[Len(stack) - 1].ret = c
    BY <2>1 DEF Interrupted, Interrupting, BeatInv, Record, Top
  <2> QED
    BY <2>2 DEF Mistaken
<1>12. Owing(s, resuming, resumeRet, left)
  BY <1>2, <1>8, <1>11 DEF Owing
<1>13. Schedule(timer, burst)' /\ Flags'
  BY <1>3 DEF BeatInv, Schedule, Flags, sleepVars
<1>14. slicing' <=> SliceRuns(s)
  BY <1>3, <1>5, <1>8 DEF BeatInv
<1> QED
  BY <1>3, <1>8, <1>10, <1>12, <1>13, <1>14 DEF BeatInv, s, sleepVars

LEMMA PresentBeat ==
  ASSUME BeatInv, PresentSound \/ PresentTick
  PROVE  BeatInv'
<1>1. Len(stack) = 0 /\ stack = <<>>
  BY EmptySeq DEF PresentSound, PresentTick
<1>2. CASE PresentSound
  <2> DEFINE f == Call("slice")
  <2>1. f \in Frames /\ f.kind = "slice" /\ f.at = "run"
    BY CallFrame
  <2>2. stack' = <<f>>
    BY <1>2 DEF PresentSound
  <2>3. /\ UNCHANGED <<timer, custom, sleepVars, burst>>
        /\ slicing' = TRUE
    BY <1>2 DEF PresentSound
  <2> HIDE DEF f
  <2>4. WellKept(f)
    BY <2>1 DEF WellKept
  <2>5. Schedule(timer, burst)'
    BY <2>3 DEF BeatInv, Schedule
  <2>6. f.kind # "sleep"
    BY <2>1
  <2> QED
    BY <1>1, <2>1, <2>2, <2>3, <2>4, <2>5, <2>6, PushBeat
<1>3. CASE PresentTick
  <2> DEFINE f == Call("tick")
  <2>1. f \in Frames /\ f.kind = "tick" /\ f.at = "run"
    BY CallFrame
  <2>2. stack' = <<f>>
    BY <1>3 DEF PresentTick
  <2>3. UNCHANGED <<custom, sleepVars, slicing>>
    BY <1>3 DEF PresentTick
  <2> HIDE DEF f
  <2>4. WellKept(f)
    BY <2>1 DEF WellKept
  <2>5. Schedule(timer, burst)'
    BY <1>3, AdvancedSchedule DEF PresentTick, Deliver, TickDue, BeatInv
  <2>6. f.kind # "sleep"
    BY <2>1
  <2>7. slicing \in BOOLEAN
    BY DEF BeatInv, Flags
  <2>8. slicing' <=> (slicing \/ (f.kind = "slice" /\ f.at = "run"))
    BY <2>1, <2>3
  <2> QED
    BY <1>1, <2>1, <2>2, <2>3, <2>4, <2>5, <2>6, <2>7, <2>8, PushBeat
<1> QED
  BY <1>2, <1>3

(* The clock moves on, with the calls s before it does.                    *)
LEMMA PassingBeat ==
  ASSUME NEW s \in Seq(Frames), NEW k \in Nat, Passing(k, s),
         Nest(s), Record(s, resuming, resumeRet, left),
         s # <<>> => s[Len(s)].at \notin {"entry"},
         \* the frame on top remains what is owed after the step
         (s # <<>> /\ s[Len(s)].at = "loop" /\ s[Len(s)].mark = "clear")
           => /\ left = s[Len(s)].owed
              /\ s[Len(s)].rem = Most(Earlier(left, k), 0),
         slicing <=> SliceRuns(s), Schedule(timer, burst), Flags,
         UNCHANGED <<custom, resuming, resumeRet, slicing>>
  PROVE  BeatInv'
<1> DEFINE t == stack'
<1>1. t = Older(s, k)
  BY DEF Passing, Older
<1>2. left' = Earlier(left, k) /\ left \in Int /\ left <= Clamp
  BY DEF Passing, Flags
<1>3. left' \in Int /\ left' <= Clamp
  BY <1>2, EarlierIs
<1> HIDE DEF t
<1>3a. OlderBy(t, s, k)
  BY <1>1, Aged, Zenon
<1>4. /\ t \in Seq(Frames) /\ Len(t) = Len(s)
      /\ \A i \in 1 .. Len(s) :
           /\ t[i].kind = s[i].kind /\ t[i].at = s[i].at
           /\ t[i].ret = s[i].ret /\ t[i].req = s[i].req
           /\ t[i].rem = s[i].rem /\ t[i].mark = s[i].mark
           /\ t[i].owed = Earlier(s[i].owed, k)
  BY <1>3a DEF OlderBy
<1>5. Nest(t) /\ (SliceRuns(t) <=> SliceRuns(s)) /\ (Interrupted(t) <=> Interrupted(s))
  BY <1>4, NestAlike, Zenon
<1>6. Len(s) \in Nat /\ (s # <<>> <=> Len(s) > 0)
  BY LenProperties, EmptySeq
<1>7. Record(t, resuming, resumeRet, left')
  <2>1. CASE Interrupted(s)
    <3> DEFINE n == Len(s)
    <3>1. n \in 1 .. Len(s) /\ n - 1 \in 1 .. Len(s)
      BY <1>6, <2>1 DEF Interrupted
    <3>2. /\ resuming <=> s[n].mark = "clear"
          /\ resuming => resumeRet = s[n - 1].ret
          /\ resuming /\ s[n - 1].mark = "clear" => left = s[n - 1].owed
      BY <2>1 DEF Record
    <3>3. /\ t[n].mark = s[n].mark /\ t[n - 1].mark = s[n - 1].mark
          /\ t[n - 1].ret = s[n - 1].ret
          /\ t[n - 1].owed = Earlier(s[n - 1].owed, k)
      BY <1>4, <3>1
    <3> QED
      BY <1>2, <1>4, <1>5, <2>1, <3>2, <3>3 DEF Record
  <2>2. CASE ~Interrupted(s)
    <3>1. ~resuming
      BY <1>6, <2>2 DEF Record
    <3> QED
      BY <1>5, <2>2, <3>1 DEF Record
  <2> QED
    BY <2>1, <2>2
<1>8. Owing(t, resuming, resumeRet, left')
  <2> SUFFICES ASSUME Len(s) > 0
               PROVE  /\ t[Len(s)].at # "entry"
                      /\ t[Len(s)].at = "loop" /\ t[Len(s)].mark = "clear" =>
                           left' = t[Len(s)].owed
                           /\ t[Len(s)].rem = Most(t[Len(s)].owed, 0)
    BY <1>4 DEF Owing
  <2>1. Len(s) \in 1 .. Len(s) /\ s # <<>>
    BY <1>6
  <2> QED
    BY <1>2, <1>4, <2>1
<1>9. Schedule(timer, burst)'
  BY PassingSchedule DEF Passing
<1>10. Flags'
  <2>1. resumeRet' \in Sites \cup {0}
    BY DEF Flags
  <2>2. custom' \in BOOLEAN /\ resuming' \in BOOLEAN /\ slicing' \in BOOLEAN
    BY DEF Flags
  <2> QED
    BY <1>3, <2>1, <2>2 DEF Flags
<1> QED
  BY <1>4, <1>5, <1>7, <1>8, <1>9, <1>10 DEF BeatInv, t

LEMMA GuestWorkBeat ==
  ASSUME BeatInv, GuestWork
  PROVE  BeatInv'
<1>1. PICK k \in 1 .. Work : Passing(k, stack)
  BY DEF GuestWork
<1>2. k \in Nat
  BY Bounds
<1>3. stack # <<>> => Top.kind # "sleep" /\ Len(stack) \in 1 .. Len(stack)
  BY Length DEF GuestWork, GuestRuns, BeatInv
<1>4. stack # <<>> => stack[Len(stack)].at \notin {"entry", "loop"}
  <2> SUFFICES ASSUME stack # <<>> PROVE stack[Len(stack)].at \notin {"entry", "loop"}
    OBVIOUS
  <2>1. WellKept(stack[Len(stack)]) /\ stack[Len(stack)] \in Frames
    BY <1>3, Length DEF BeatInv, Nest
  <2>2. stack[Len(stack)].kind # "sleep"
    BY <1>3 DEF Top
  <2> QED
    BY <2>1, <2>2 DEF WellKept, Frames, Kinds
<1>5. /\ stack \in Seq(Frames) /\ Nest(stack)
      /\ Record(stack, resuming, resumeRet, left)
      /\ slicing <=> SliceRuns(stack)
      /\ Schedule(timer, burst) /\ Flags
  BY DEF BeatInv
<1>6. UNCHANGED <<custom, resuming, resumeRet, slicing>>
  BY DEF GuestWork
<1>7. /\ stack # <<>> => stack[Len(stack)].at \notin {"entry"}
      /\ ~(stack # <<>> /\ stack[Len(stack)].at = "loop" /\ stack[Len(stack)].mark = "clear")
  BY <1>4
<1> QED
  BY <1>1, <1>2, <1>5, <1>6, <1>7, PassingBeat, Zenon
-----------------------------------------------------------------------------
(* The usleep handler.                                                     *)

(* A record while a sleep is on top is taken down by that sleep; and what  *)
(* that is owed, unless its tick slept.                                    *)
LEMMA SleepOnTop ==
  ASSUME BeatInv, stack # <<>>, Top.kind = "sleep"
  PROVE  /\ Top \in Frames
         /\ resuming => Top.at = "entry"
         /\ Top.mark = "clear" =>
              /\ Top.at = "loop" => left = Top.owed /\ Top.rem = Most(Top.owed, 0)
              /\ Top.at = "entry" /\ resuming /\ resumeRet = Top.ret => left = Top.owed
              /\ Top.at = "entry" /\ ~(resuming /\ resumeRet = Top.ret)
                   => Top.owed = Least(Top.req, Clamp)
<1>1. Len(stack) \in Nat /\ Len(stack) > 0 /\ Top \in Frames
  BY Length DEF BeatInv
<1>2. ~Interrupted(stack)
  BY DEF Interrupted, Top
<1>3. resuming => Top.at = "entry"
  BY <1>2 DEF BeatInv, Record, Top
<1>4. Top.mark = "clear" =>
        /\ Top.at = "loop" => left = Top.owed /\ Top.rem = Most(Top.owed, 0)
        /\ Top.at = "entry" /\ resuming /\ resumeRet = Top.ret => left = Top.owed
        /\ Top.at = "entry" /\ ~(resuming /\ resumeRet = Top.ret)
             => Top.owed = Least(Top.req, Clamp)
  BY <1>1 DEF BeatInv, Owing, Top
<1> QED
  BY <1>1, <1>3, <1>4

LEMMA AtEntryIs ==
  ASSUME BeatInv, AtEntry
  PROVE  /\ Remaining \in 0 .. Clamp
         /\ (IF Resumed THEN left ELSE Remaining) \in Int
         /\ (IF Resumed THEN left ELSE Remaining) <= Clamp
         /\ Top.mark = "clear" =>
              /\ (IF Resumed THEN left ELSE Remaining) = Top.owed
              /\ Remaining = Most(Top.owed, 0)
<1>1. /\ Top \in Frames
      /\ Top.mark = "clear" =>
           /\ resuming /\ resumeRet = Top.ret => left = Top.owed
           /\ ~(resuming /\ resumeRet = Top.ret) => Top.owed = Least(Top.req, Clamp)
  BY SleepOnTop DEF AtEntry
<1>2. Top.owed \in Int /\ Top.req \in Nat
  BY <1>1 DEF Frames
<1>3. Least(Top.req, Clamp) \in 0 .. Clamp
  BY <1>2, LeastOf
<1>4. left \in Int /\ left <= Clamp /\ resuming \in BOOLEAN
  BY DEF BeatInv, Flags
<1>5. CASE Resumed
  <2>1. resuming /\ resumeRet = Top.ret
    BY <1>5 DEF Resumed
  <2>2. Remaining = Most(left, 0)
    BY <1>5 DEF Remaining
  <2> QED
    BY <1>1, <1>2, <1>4, <1>5, <2>1, <2>2, Bounds DEF Most
<1>6. CASE ~Resumed
  <2>1. ~(resuming /\ resumeRet = Top.ret)
    BY <1>6 DEF Resumed
  <2>2. Remaining = Least(Top.req, Clamp)
    BY <1>6 DEF Remaining
  <2> QED
    BY <1>1, <1>2, <1>3, <1>6, <2>1, <2>2, Bounds DEF Most
<1> QED
  BY <1>5, <1>6

LEMMA EnterSleepBeat ==
  ASSUME BeatInv, EnterSleep
  PROVE  BeatInv'
<1> DEFINE f == [Top EXCEPT !.at = "loop", !.rem = Remaining]
           s == stack'
<1>1. /\ stack # <<>> /\ Top.kind = "sleep" /\ AtEntry
      /\ s = Append(Below, f)
      /\ ~resuming' /\ resuming' = FALSE
      /\ left' = IF Resumed THEN left ELSE Remaining
      /\ UNCHANGED <<timer, custom, resumeRet, burst, slicing>>
  BY DEF EnterSleep, Entered, AtEntry
<1>2. /\ Remaining \in 0 .. Clamp /\ left' \in Int /\ left' <= Clamp
      /\ Top.mark = "clear" => left' = Top.owed /\ Remaining = Most(Top.owed, 0)
  BY <1>1, AtEntryIs
<1>3. Top \in Frames
  BY <1>1, SleepOnTop
<1>4. /\ f \in Frames /\ f.at = "loop" /\ f.kind = "sleep" /\ f.ret = Top.ret
      /\ f.rem = Remaining /\ f.owed = Top.owed /\ f.mark = Top.mark
  BY <1>1, <1>2, <1>3 DEF Frames, Places
<1> HIDE DEF f, s
<1>5. /\ s \in Seq(Frames) /\ Len(s) = Len(stack) /\ s[Len(stack)] = f
      /\ \A i \in 1 .. Len(stack) - 1 : s[i] = stack[i]
  BY <1>1, <1>4, Replaced DEF BeatInv
<1>6. Nest(s) /\ (SliceRuns(s) <=> SliceRuns(stack))
  BY <1>1, <1>4, <1>5, NestReplaced DEF BeatInv
<1>7. ~Interrupted(s)
  BY <1>4, <1>5 DEF Interrupted
<1>8. Record(s, resuming', resumeRet', left')
  BY <1>1, <1>7 DEF Record
<1>9. Owing(s, resuming', resumeRet', left')
  BY <1>2, <1>4, <1>5 DEF Owing
<1>10. Schedule(timer, burst)'
  BY <1>1 DEF BeatInv, Schedule
<1>11. Flags'
  BY <1>1, <1>2 DEF BeatInv, Flags
<1>12. slicing' <=> SliceRuns(s)
  BY <1>1, <1>6 DEF BeatInv
<1> QED
  BY <1>5, <1>6, <1>8, <1>9, <1>10, <1>11, <1>12 DEF BeatInv, s

(* A tick or a slice is put on a sleep, which waits for it or is given up. *)
LEMMA CoverBeat ==
  ASSUME BeatInv, stack # <<>>, Top.kind = "sleep",
         NEW f \in Frames, NEW g \in Frames,
         stack' = Below \o <<f, g>>,
         f.kind = "sleep", f.at \in {"entry", "given_up"},
         g.kind \in {"tick", "slice"}, g.mark = "clear",
         g.kind = "tick" => g.at = "run",
         g.kind = "slice" => g.at \in {"run", "music"},
         f.at = "entry" => /\ g.kind = "tick" /\ resuming'
                           /\ resumeRet' = f.ret
                           /\ f.mark = "clear" => left' = f.owed,
         f.at = "given_up" => ~resuming',
         g.kind = "slice" /\ g.at = "run" => ~slicing,
         slicing' <=> (slicing \/ (g.kind = "slice" /\ g.at = "run")),
         Schedule(timer, burst)', Flags'
  PROVE  BeatInv'
<1> DEFINE s == stack'
<1> HIDE DEF s
<1>1. s = Below \o <<f, g>>
  BY DEF s
<1>3. Len(stack) \in Nat \ {0}
  BY Length DEF BeatInv
<1>4. /\ s \in Seq(Frames) /\ Len(s) = Len(stack) + 1
      /\ s[Len(stack) + 1] = g /\ s[Len(stack)] = f
      /\ \A i \in 1 .. Len(stack) - 1 : s[i] = stack[i]
  BY <1>1, Covered DEF BeatInv
<1>5. g.kind = "slice" /\ g.at = "run" => ~SliceRuns(stack)
  BY DEF BeatInv
<1>6. stack \in Seq(Frames) /\ Nest(stack)
  BY DEF BeatInv
<1>7. /\ Nest(s)
      /\ SliceRuns(s) <=> SliceRuns(stack) \/ (g.kind = "slice" /\ g.at = "run")
  BY <1>4, <1>5, <1>6, NestCovered
<1>8. Record(s, resuming', resumeRet', left')
  <2>1. CASE f.at = "entry"
    <3>1. Interrupted(s)
      BY <1>3, <1>4, <2>1 DEF Interrupted
    <3> QED
      BY <1>3, <1>4, <2>1, <3>1 DEF Record
  <2>2. CASE f.at = "given_up"
    <3>1. ~Interrupted(s)
      BY <1>3, <1>4, <2>2 DEF Interrupted
    <3> QED
      BY <2>2, <3>1 DEF Record
  <2> QED
    BY <2>1, <2>2
<1>9. Owing(s, resuming', resumeRet', left')
  BY <1>3, <1>4 DEF Owing
<1>10. slicing' <=> SliceRuns(s)
  BY <1>7 DEF BeatInv
<1> QED
  BY <1>4, <1>7, <1>8, <1>9, <1>10 DEF BeatInv, s

LEMMA GivenUpBeat ==
  ASSUME BeatInv, EnterSound \/ EnterMusic
  PROVE  BeatInv'
<1> DEFINE m == [Call("slice") EXCEPT !.at = "music"]
<1>1. stack # <<>> /\ Top.kind = "sleep" /\ AtEntry /\ ~Resumed
  BY DEF EnterSound, EnterMusic, AtEntry
<1>2. /\ Remaining \in 0 .. Clamp /\ GivenUp(Top) \in Frames
      /\ GivenUp(Top).kind = "sleep" /\ GivenUp(Top).at = "given_up"
  BY <1>1, AtEntryIs, SleepOnTop, GivenUpFrame
<1>3. /\ resuming' = FALSE /\ left' = Remaining
      /\ UNCHANGED <<timer, custom, resumeRet, burst>>
  BY DEF EnterSound, EnterMusic
<1>4. Schedule(timer, burst)'
  BY <1>3 DEF BeatInv, Schedule
<1>5. slicing \in BOOLEAN /\ slicing' \in BOOLEAN
  BY DEF BeatInv, Flags, EnterSound, EnterMusic
<1>6. Flags'
  <2>1. left' \in Int /\ left' <= Clamp
    BY <1>2, <1>3, Bounds
  <2>2. resuming' \in BOOLEAN /\ custom' \in BOOLEAN /\ resumeRet' \in Sites \cup {0}
    BY <1>3 DEF BeatInv, Flags
  <2> QED
    BY <1>5, <2>1, <2>2 DEF Flags
<1>7. CASE EnterSound
  <2> DEFINE g == Call("slice")
  <2>1. g \in Frames /\ g.kind = "slice" /\ g.at = "run" /\ g.mark = "clear"
    BY CallFrame
  <2>2. /\ stack' = Below \o <<GivenUp(Top), g>>
        /\ ~slicing /\ slicing' = TRUE
    BY <1>7 DEF EnterSound
  <2> HIDE DEF g
  <2> QED
    BY <1>1, <1>2, <1>3, <1>4, <1>6, <2>1, <2>2, CoverBeat
<1>8. CASE EnterMusic
  <2>1. m \in Frames /\ m.kind = "slice" /\ m.at = "music" /\ m.mark = "clear"
    BY MusicFrame
  <2>2. /\ stack' = Below \o <<GivenUp(Top), m>>
        /\ slicing' = slicing
    BY <1>8 DEF EnterMusic
  <2> HIDE DEF m
  <2> QED
    BY <1>1, <1>2, <1>3, <1>4, <1>6, <2>1, <2>2, CoverBeat
<1> QED
  BY <1>7, <1>8

LEMMA InLoopIs ==
  ASSUME BeatInv, InLoop
  PROVE  /\ stack # <<>> /\ Top \in Frames /\ Top.kind = "sleep" /\ Top.at = "loop"
         /\ resuming = FALSE
         /\ Top.mark = "clear" => left = Top.owed /\ Top.rem = Most(Top.owed, 0)
BY SleepOnTop DEF InLoop, BeatInv, Flags

LEMMA TickBeat ==
  ASSUME BeatInv, TickInSleep \/ TickCutsSleep
  PROVE  BeatInv'
<1> DEFINE g == Call("tick")
<1>1. /\ stack # <<>> /\ Top \in Frames /\ Top.kind = "sleep"
      /\ resuming = FALSE /\ (Top.mark = "clear" => left = Top.owed)
      /\ Top.ret \in Sites \cup {0}
  BY InLoopIs DEF TickInSleep, TickCutsSleep, Frames
<1>2. g \in Frames /\ g.kind = "tick" /\ g.at = "run" /\ g.mark = "clear"
  BY CallFrame
<1>3. Schedule(timer, burst)'
  BY AdvancedSchedule DEF TickInSleep, TickCutsSleep, Deliver, TickDue, BeatInv
<1>4. CASE TickInSleep
  <2> DEFINE f == Waiting(Top)
  <2>0. /\ f \in Frames /\ f.kind = "sleep" /\ f.at = "entry" /\ f.ret = Top.ret
        /\ f.owed = Top.owed /\ f.mark = Top.mark
    BY <1>1, WaitingFrame
  <2>1. /\ stack' = Below \o <<f, g>>
        /\ resuming' = TRUE /\ resumeRet' = Top.ret
        /\ UNCHANGED <<custom, left, slicing>>
    BY <1>4 DEF TickInSleep
  <2>2. Flags'
    BY <1>1, <2>1 DEF BeatInv, Flags
  <2>3. slicing' <=> slicing
    BY <2>1
  <2> HIDE DEF f, g
  <2> QED
    BY <1>1, <1>2, <1>3, <2>0, <2>1, <2>2, <2>3, CoverBeat
<1>5. CASE TickCutsSleep
  <2> DEFINE f == GivenUp(Top)
  <2>0. f \in Frames /\ f.kind = "sleep" /\ f.at = "given_up"
    BY <1>1, GivenUpFrame
  <2>1. /\ stack' = Below \o <<f, g>>
        /\ UNCHANGED <<custom, resuming, resumeRet, left, slicing>>
    BY <1>5 DEF TickCutsSleep, sleepVars
  <2>2. Flags'
    BY <2>1 DEF BeatInv, Flags
  <2>3. (slicing' <=> slicing) /\ ~resuming'
    BY <1>1, <2>1
  <2> HIDE DEF f, g
  <2> QED
    BY <1>1, <1>2, <1>3, <2>0, <2>1, <2>2, <2>3, CoverBeat
<1> QED
  BY <1>4, <1>5

LEMMA HostSleepBeat ==
  ASSUME BeatInv, HostSleep
  PROVE  BeatInv'
<1> DEFINE slice == IF timer.armed THEN Least(Top.rem, timer.due) ELSE Top.rem
<1>1. /\ stack # <<>> /\ Top \in Frames /\ Top.kind = "sleep" /\ Top.at = "loop"
      /\ resuming = FALSE /\ (Top.mark = "clear" => left = Top.owed)
  BY InLoopIs DEF HostSleep
<1>2. PICK o \in 0 .. Over :
        Passing(slice + o,
                Append(Below, [Top EXCEPT !.rem =
                                 Most(Earlier(left, slice + o), 0)]))
  BY DEF HostSleep
<1>3. slice + o \in Nat
  <2>1. Top.rem \in Nat /\ timer.due \in Int /\ o \in Nat
    BY <1>1, Bounds DEF Frames, BeatInv, Schedule
  <2>2. timer.armed => timer.due > 0
    BY <2>1 DEF HostSleep, TickDue
  <2> QED
    BY <2>1, <2>2 DEF Least
<1> DEFINE k == slice + o
           rem == Most(Earlier(left, k), 0)
           f == [Top EXCEPT !.rem = rem]
           s == Append(Below, f)
<1>4. Passing(k, s) /\ k \in Nat
  BY <1>2, <1>3
<1> HIDE DEF slice, k
<1>5. rem \in 0 .. Clamp
  <2>1. left \in Int /\ left <= Clamp
    BY DEF BeatInv, Flags
  <2>2. Earlier(left, k) \in Int /\ Earlier(left, k) <= Clamp
    BY <1>4, <2>1, EarlierIs
  <2> QED
    BY <2>2, Bounds DEF Most
<1> HIDE DEF rem
<1>6. /\ f \in Frames /\ f.at = "loop" /\ f.kind = "sleep" /\ f.ret = Top.ret
      /\ f.rem = rem /\ f.owed = Top.owed /\ f.mark = Top.mark
  BY <1>1, <1>5, FrameRem
<1> HIDE DEF f
<1>7. /\ s \in Seq(Frames) /\ Len(s) = Len(stack) /\ s[Len(stack)] = f
      /\ \A i \in 1 .. Len(stack) - 1 : s[i] = stack[i]
  BY <1>1, <1>6, Replaced DEF BeatInv
<1> HIDE DEF s
<1>8. Nest(s) /\ (SliceRuns(s) <=> SliceRuns(stack))
  BY <1>1, <1>6, <1>7, NestReplaced DEF BeatInv
<1>9. Record(s, resuming, resumeRet, left)
  <2>1. ~Interrupted(s)
    BY <1>6, <1>7 DEF Interrupted
  <2> QED
    BY <1>1, <2>1 DEF Record
<1>10. /\ s # <<>> => s[Len(s)].at \notin {"entry"}
       /\ (s # <<>> /\ s[Len(s)].at = "loop" /\ s[Len(s)].mark = "clear")
            => /\ left = s[Len(s)].owed
               /\ s[Len(s)].rem = Most(Earlier(left, k), 0)
  BY <1>1, <1>6, <1>7 DEF rem
<1>11. (slicing <=> SliceRuns(s)) /\ Schedule(timer, burst) /\ Flags
  BY <1>8 DEF BeatInv
<1>12. UNCHANGED <<custom, resuming, resumeRet, slicing>>
  BY DEF HostSleep
<1> QED
  BY <1>4, <1>7, <1>8, <1>9, <1>10, <1>11, <1>12, PassingBeat, Zenon

-----------------------------------------------------------------------------
(* Calls return.                                                           *)

(* A call that is not the sleep of a tick leaves nothing to be resumed.    *)
LEMMA DropBeat ==
  ASSUME BeatInv, NEW k \in {1, 2}, k <= Len(stack),
         NEW s \in Seq(Frames), Len(s) = Len(stack) - k,
         \A i \in 1 .. Len(stack) - k : s[i] = stack[i],
         Len(stack) > k => \/ stack[Len(stack) - k].kind # "sleep" /\ ~resuming
                           \/ k = 1 /\ Interrupted(stack),
         Len(stack) = k => ~resuming
  PROVE  /\ Nest(s) /\ Record(s, resuming, resumeRet, left)
         /\ Owing(s, resuming, resumeRet, left)
<1> DEFINE n == Len(s)
<1>1. n \in Nat /\ Len(stack) = n + k /\ Len(stack) \in Nat
  BY Length, LenProperties DEF BeatInv
<1>2. n > 0 => /\ n \in 1 .. Len(stack) - k /\ s[n] = stack[n]
               /\ stack[n] = stack[Len(stack) - k]
               /\ WellKept(stack[n]) /\ stack[n] \in Frames
  BY <1>1, Length DEF BeatInv, Nest
<1> HIDE DEF n
<1>3. CASE n = 0
  <2>1. Len(s) = 0 /\ ~resuming
    BY <1>1, <1>3 DEF n
  <2> QED
    BY <2>1 DEF Nest, Record, Owing, Interrupted
<1>4. CASE n > 0 /\ stack[n].kind # "sleep" /\ ~resuming
  <2>1. s[n].at \notin {"entry", "loop", "given_up"} /\ n = Len(s)
    BY <1>2, <1>4 DEF WellKept, Frames, Kinds, n
  <2>2. Interrupted(s) => s[n].mark # "clear"
    <3> SUFFICES ASSUME n > 1, s[n - 1].at = "entry" PROVE stack[n].mark # "clear"
      BY <1>2, <1>4, <2>1 DEF Interrupted
    <3>1. n - 1 \in 1 .. Len(stack) - 2 /\ stack[n - 1].at = "entry" /\ n - 1 + 1 = n
      BY <1>1
    <3>2. stack[n - 1 + 1].mark # "clear"
      BY <3>1 DEF BeatInv, Nest
    <3> QED
      BY <3>1, <3>2
  <2>3. Nest(s)
    BY <1>1, <1>2, <2>1, NestDropped DEF BeatInv, n
  <2>4. Record(s, resuming, resumeRet, left)
    BY <1>4, <2>1, <2>2 DEF Record
  <2>5. Owing(s, resuming, resumeRet, left)
    BY <2>1 DEF Owing
  <2> QED
    BY <2>3, <2>4, <2>5
<1>5. CASE n > 0 /\ k = 1 /\ Interrupted(stack)
  <2>1. /\ Len(stack) = n + 1 /\ n = Len(s) /\ s[n] = stack[n]
        /\ stack[n].at = "entry"
    BY <1>1, <1>2, <1>5 DEF Interrupted, n
  <2>2. stack[n].kind = "sleep"
    BY <1>2, <1>5, <2>1 DEF WellKept, Frames, Kinds
  <2>3. ~Interrupted(s)
    BY <2>1, <2>2 DEF Interrupted
  <2>4. Nest(s)
    BY <1>1, <1>2, <2>1, NestDropped DEF BeatInv, n
  <2>5. Record(s, resuming, resumeRet, left)
    BY <1>5, <2>1, <2>3 DEF Record
  <2>6. WellUnder(stack[n], stack[n + 1])
    BY <1>1, <1>5, <2>1 DEF BeatInv, Nest
  <2>7. /\ resuming <=> stack[n + 1].mark = "clear"
        /\ resuming => resumeRet = stack[n].ret
        /\ resuming /\ stack[n].mark = "clear" => left = stack[n].owed
    <3>1. Len(stack) - 1 = n
      BY <1>1, <2>1
    <3> QED
      BY <1>5, <2>1, <3>1 DEF BeatInv, Record
  <2>8. Owing(s, resuming, resumeRet, left)
    BY <2>1, <2>6, <2>7 DEF Owing, WellUnder
  <2> QED
    BY <2>4, <2>5, <2>8
<1> QED
  BY <1>1, <1>2, <1>3, <1>4, <1>5

(* What lies under a sleep is not one.                                     *)
LEMMA UnderSleep ==
  ASSUME BeatInv, NEW i \in 1 .. Len(stack) - 1, stack[i + 1].kind = "sleep"
  PROVE  stack[i].kind # "sleep"
<1>1. Len(stack) \in Nat
  BY Length DEF BeatInv
<1>2. WellUnder(stack[i], stack[i + 1]) /\ stack[i] \in Frames
  BY <1>1, Length DEF BeatInv, Nest
<1> QED
  BY <1>2 DEF WellUnder, Frames, Kinds

LEMMA SleepOverBeat ==
  ASSUME BeatInv, SleepOver
  PROVE  BeatInv'
<1> DEFINE s == stack'
<1>1. /\ stack # <<>> /\ Top.kind = "sleep" /\ resuming = FALSE
      /\ UNCHANGED <<timer, custom, resuming, resumeRet, left, slicing, burst>>
      /\ s = Below
  BY InLoopIs DEF SleepOver, sleepVars
<1> HIDE DEF s
<1>2. /\ s \in Seq(Frames) /\ Len(s) = Len(stack) - 1
      /\ \A i \in 1 .. Len(stack) - 1 : s[i] = stack[i]
      /\ Len(stack) \in Nat /\ Len(stack) > 0
  BY <1>1, BelowIs, Length DEF BeatInv
<1>3. Len(stack) > 1 => stack[Len(stack) - 1].kind # "sleep"
  BY <1>1, <1>2, UnderSleep DEF Top
<1>4. /\ Nest(s) /\ Record(s, resuming, resumeRet, left)
      /\ Owing(s, resuming, resumeRet, left)
  BY <1>1, <1>2, <1>3, DropBeat
<1>5. SliceRuns(s) <=> SliceRuns(stack)
  <2>1. SliceRuns(s) => SliceRuns(stack)
    BY <1>2 DEF SliceRuns
  <2>2. ASSUME NEW i \in 1 .. Len(stack), stack[i].kind = "slice", stack[i].at = "run"
        PROVE  SliceRuns(s)
    <3>1. i # Len(stack)
      BY <1>1, <2>2 DEF Top
    <3> QED
      BY <1>2, <2>2, <3>1 DEF SliceRuns
  <2> QED
    BY <2>1, <2>2 DEF SliceRuns
<1>6. Schedule(timer, burst)' /\ Flags'
  BY <1>1 DEF BeatInv, Schedule, Flags
<1> QED
  BY <1>1, <1>2, <1>4, <1>5, <1>6 DEF BeatInv, s

LEMMA GuestReturnBeat ==
  ASSUME BeatInv, GuestReturn
  PROVE  BeatInv'
<1> DEFINE n == Len(stack)
           under == Below[Len(Below)]
           k == IF Below # <<>> /\ under.at = "given_up" THEN 2 ELSE 1
           s == stack'
<1>1. /\ stack # <<>> /\ Top.kind # "sleep"
      /\ s = IF Below # <<>> /\ under.at = "given_up"
             THEN SubSeq(Below, 1, Len(Below) - 1) ELSE Below
      /\ slicing' = IF Top.kind = "slice" /\ Top.at = "run" THEN FALSE ELSE slicing
      /\ UNCHANGED <<timer, custom, resuming, resumeRet, left, burst>>
  BY DEF GuestReturn, sleepVars
<1>2. /\ n \in Nat /\ n > 0 /\ stack \in Seq(Frames) /\ Nest(stack)
      /\ Below \in Seq(Frames) /\ Len(Below) = n - 1
      /\ \A i \in 1 .. n - 1 : Below[i] = stack[i]
      /\ \A i \in 1 .. n : stack[i] \in Frames /\ WellKept(stack[i])
      /\ stack[n] = Top /\ Top.at \notin {"entry", "loop"}
  <2>1. n \in Nat /\ n > 0 /\ stack \in Seq(Frames) /\ Nest(stack)
    BY <1>1, Length DEF BeatInv
  <2>2. /\ Below \in Seq(Frames) /\ Len(Below) = n - 1
        /\ \A i \in 1 .. n - 1 : Below[i] = stack[i]
    BY <1>1, <2>1, BelowIs
  <2>3. \A i \in 1 .. n : stack[i] \in Frames /\ WellKept(stack[i])
    BY <2>1, Length DEF Nest
  <2>4. stack[n] = Top
    BY DEF Top
  <2>5. Top.at \notin {"entry", "loop"}
    <3>1. WellKept(Top) /\ Top \in Frames
      BY <2>1, <2>3, <2>4
    <3> QED
      BY <1>1, <3>1 DEF WellKept, Frames, Kinds
  <2> QED
    BY <2>1, <2>2, <2>3, <2>4, <2>5
<1>3. Below # <<>> <=> n > 1
  BY <1>2, EmptySeq
<1>4. n > 1 => /\ under = stack[n - 1] /\ under.kind = "sleep"
               /\ under.at \in {"entry", "given_up"}
               /\ under.at = "entry" => Top.kind = "tick"
  <2> SUFFICES ASSUME n > 1
               PROVE  /\ under = stack[n - 1] /\ under.kind = "sleep"
                      /\ under.at \in {"entry", "given_up"}
                      /\ under.at = "entry" => Top.kind = "tick"
    OBVIOUS
  <2>1. under = stack[n - 1]
    BY <1>2
  <2>2. WellUnder(stack[n - 1], Top) /\ WellKept(stack[n - 1]) /\ stack[n - 1] \in Frames
    <3>1. WellUnder(stack[n - 1], stack[n - 1 + 1])
      BY <1>2 DEF Nest
    <3> QED
      BY <1>2, <3>1
  <2> QED
    BY <1>1, <2>1, <2>2 DEF WellUnder, WellKept, Frames, Kinds
<1>5. Interrupted(stack) <=> n > 1 /\ Top.kind = "tick" /\ under.at = "entry"
  BY <1>2, <1>4 DEF Interrupted
<1>6. ~Interrupted(stack) => ~resuming
  BY <1>2 DEF BeatInv, Record
<1>6a. IF n > 1 /\ under.at = "given_up" THEN k = 2 ELSE k = 1
  BY <1>3
<1> HIDE DEF n, under, s, k
<1>7. /\ k \in {1, 2} /\ k <= n
      /\ s \in Seq(Frames) /\ Len(s) = n - k
      /\ \A i \in 1 .. n - k : s[i] = stack[i]
  <2>1. CASE n > 1 /\ under.at = "given_up"
    <3>1. s = SubSeq(Below, 1, Len(Below) - 1) /\ k = 2
      BY <1>1, <1>3, <1>6a, <2>1
    <3>2. s \in Seq(Frames) /\ Len(s) = n - 2 /\ \A i \in 1 .. n - 2 : s[i] = stack[i]
      <4>1. Len(stack) > 1
        BY <2>1 DEF n
      <4> QED
        BY <1>2, <3>1, <4>1, Below2Is DEF n
    <3> QED
      BY <1>2, <2>1, <3>1, <3>2
  <2>2. CASE ~(n > 1 /\ under.at = "given_up")
    <3>1. s = Below /\ k = 1
      BY <1>1, <1>3, <1>6a, <2>2
    <3> QED
      BY <1>2, <3>1
  <2> QED
    BY <2>1, <2>2
<1>8. /\ n > k => \/ stack[n - k].kind # "sleep" /\ ~resuming
                  \/ k = 1 /\ Interrupted(stack)
      /\ n = k => ~resuming
  <2>1. CASE n > 1 /\ under.at = "given_up"
    <3>1. k = 2 /\ ~resuming
      BY <1>5, <1>6, <1>6a, <2>1
    <3>2. n > 2 => stack[n - 2].kind # "sleep"
      <4> SUFFICES ASSUME n > 2 PROVE stack[n - 2].kind # "sleep"
        OBVIOUS
      <4>1. n - 2 \in 1 .. Len(stack) - 1 /\ stack[(n - 2) + 1] = stack[n - 1]
        BY <1>2 DEF n
      <4> QED
        BY <1>2, <1>4, <4>1, UnderSleep
    <3>3. n > k => stack[n - k].kind # "sleep"
      <4>1. k = 2
        BY <3>1
      <4> QED
        BY <3>2, <4>1
    <3>4. ~resuming
      BY <3>1
    <3> QED
      BY <3>3, <3>4, Zenon
  <2>2. CASE ~(n > 1 /\ under.at = "given_up")
    <3>1. k = 1
      BY <1>6a, <2>2
    <3>2. n > 1 => Interrupted(stack)
      BY <1>4, <1>5, <2>2
    <3>3. n = 1 => ~resuming
      BY <1>5, <1>6
    <3> QED
      BY <1>2, <3>1, <3>2, <3>3
  <2> QED
    BY <2>1, <2>2
<1>9. k = 2 => stack[n - 1].kind = "sleep"
  BY <1>4, <1>6a
<1>10. /\ Nest(s) /\ Record(s, resuming, resumeRet, left)
       /\ Owing(s, resuming, resumeRet, left)
  BY <1>7, <1>8, DropBeat DEF n
<1>11. slicing' <=> SliceRuns(s)
  <2>1. \A i \in 1 .. n - k : s[i] = stack[i] /\ i \in 1 .. n
    BY <1>2, <1>7
  <2>2. \A i \in 1 .. n : i \notin 1 .. n - k /\ i # n => stack[i].kind = "sleep"
    BY <1>2, <1>7, <1>9
  <2>3. SliceRuns(stack) <=> slicing
    BY DEF BeatInv
  <2>4. CASE Top.kind = "slice" /\ Top.at = "run"
    <3>1. ~SliceRuns(s)
      <4> SUFFICES ASSUME NEW i \in 1 .. n - k, stack[i].kind = "slice", stack[i].at = "run"
                   PROVE  FALSE
        BY <1>7, <2>1 DEF SliceRuns
      <4>1. i = n
        BY <1>2, <2>1, <2>4 DEF Nest, n
      <4> QED
        BY <1>2, <1>7, <4>1
    <3> QED
      BY <1>1, <2>4, <3>1
  <2>5. CASE ~(Top.kind = "slice" /\ Top.at = "run")
    <3>1. SliceRuns(s) => SliceRuns(stack)
      BY <1>7, <2>1 DEF SliceRuns, n
    <3>2. SliceRuns(stack) => SliceRuns(s)
      BY <1>2, <1>7, <2>1, <2>2, <2>5 DEF SliceRuns, n
    <3> QED
      BY <1>1, <2>3, <2>5, <3>1, <3>2
  <2> QED
    BY <2>4, <2>5
<1>12. Schedule(timer, burst)'
  BY <1>1 DEF BeatInv, Schedule
<1>13. Flags'
  <2>1. slicing' \in BOOLEAN
    BY <1>1 DEF BeatInv, Flags
  <2> QED
    BY <1>1, <2>1 DEF BeatInv, Flags
<1> QED
  BY <1>1, <1>7, <1>10, <1>11, <1>12, <1>13 DEF BeatInv, s

-----------------------------------------------------------------------------
(* The theorems.                                                           *)

LEMMA BeatStep == BeatInv /\ [Next]_vars => BeatInv'
<1> SUFFICES ASSUME BeatInv, [Next]_vars PROVE BeatInv'
  OBVIOUS
<1>1. ASSUME NEW v \in Intervals, NEW i \in Intervals, SetTimer(v, i) PROVE BeatInv'
  BY <1>1, SetTimerBeat
<1>2. CASE SetHandler
  <2>1. Schedule(timer, burst)' /\ custom' \in BOOLEAN
    BY <1>2 DEF SetHandler, BeatInv, Schedule
  <2> QED
    BY <1>2, <2>1, SameStack DEF SetHandler
<1>3. ASSUME NEW c \in Sites, NEW q \in Requests, Usleep(c, q) PROVE BeatInv'
  BY <1>3, UsleepBeat
<1>4. CASE PresentSound \/ PresentTick
  BY <1>4, PresentBeat
<1>5. CASE GuestWork
  BY <1>5, GuestWorkBeat
<1>6. CASE GuestReturn
  BY <1>6, GuestReturnBeat
<1>7. CASE Handler
  BY <1>7, EnterSleepBeat, GivenUpBeat, SleepOverBeat, TickBeat, HostSleepBeat
     DEF Handler
<1>8. CASE UNCHANGED vars
  <2>1. Schedule(timer, burst)' /\ custom' \in BOOLEAN
    BY <1>8 DEF vars, BeatInv, Schedule, Flags
  <2> QED
    BY <1>8, <2>1, SameStack DEF vars
<1> QED
  BY <1>1, <1>2, <1>3, <1>4, <1>5, <1>6, <1>7, <1>8 DEF Next

(* The invariant of the nest, the record, the debts and the schedule.      *)
THEOREM BeatInvariant == Spec => []BeatInv
<1> QED
  BY InitBeat, BeatStep, PTL DEF Spec

(* What the handler takes to remain of a sleep is what is owed to the      *)
(* guest, for sleeps of any length, any number of ticks in them and any    *)
(* sleeps of the ticks' handlers, in every sleep but those whose own tick  *)
(* slept or that were taken for the one their tick interrupted.            *)
THEOREM SleepIsOwed == Spec => []RemainingIsOwed
<1>1. BeatInv => RemainingIsOwed
  <2> SUFFICES ASSUME BeatInv PROVE RemainingIsOwed
    OBVIOUS
  <2>1. Len(stack) \in Nat /\ DOMAIN stack = 1 .. Len(stack)
    BY LenProperties DEF BeatInv
  <2>2. \A i \in 1 .. Len(stack) : stack[i] \in Frames
    BY Length DEF BeatInv
  <2>3. TypeOK
    <3>1. \A i \in DOMAIN stack :
            /\ stack[i].kind \in {"sleep", "tick", "slice"}
            /\ stack[i].at \in {"entry", "loop", "given_up", "run", "music"}
            /\ stack[i].rem \in 0 .. Clamp
      BY <2>1, <2>2 DEF Frames, Kinds, Places
    <3>2. timer.due \in Int /\ timer.interval \in Nat /\ timer.armed \in BOOLEAN
      BY DEF BeatInv, Schedule
    <3> QED
      BY <3>1, <3>2 DEF TypeOK, BeatInv, Flags
  <2>4. ASSUME NEW i \in DOMAIN stack, stack[i].at = "loop", stack[i].mark = "clear"
        PROVE  stack[i].rem = Most(stack[i].owed, 0)
    <3>1. CASE i = Len(stack)
      BY <2>1, <2>4, <3>1 DEF BeatInv, Owing
    <3>2. CASE i # Len(stack)
      <4>1. i \in 1 .. Len(stack) - 1 /\ i \in 1 .. Len(stack)
        BY <2>1, <3>2
      <4>2. WellKept(stack[i]) /\ WellUnder(stack[i], stack[i + 1]) /\ stack[i] \in Frames
        BY <2>2, <4>1 DEF BeatInv, Nest
      <4> QED
        BY <2>4, <4>2 DEF WellKept, WellUnder, Frames, Kinds
    <3> QED
      BY <3>1, <3>2
  <2> QED
    BY <2>3, <2>4 DEF RemainingIsOwed
<1> QED
  BY <1>1, BeatInvariant, PTL

(* redirecting_sound_ tells whether a slice runs anywhere in the nest, so  *)
(* that no second one is begun over it and none is shut out after it.      *)
THEOREM OneSliceRuns == Spec => []SlicingMatches
<1>1. BeatInv => SlicingMatches
  <2> SUFFICES ASSUME BeatInv PROVE SlicingMatches
    OBVIOUS
  <2>1. Len(stack) \in Nat /\ DOMAIN stack = 1 .. Len(stack)
    BY LenProperties DEF BeatInv
  <2> QED
    BY <2>1 DEF SlicingMatches, BeatInv, SliceRuns
<1> QED
  BY <1>1, BeatInvariant, PTL

(* A backlog of any length is collapsed to two ticks at most.              *)
THEOREM BacklogCollapses == Spec => []NoStorm
<1>1. BeatInv => NoStorm
  BY DEF BeatInv, Schedule, NoStorm
<1> QED
  BY <1>1, BeatInvariant, PTL
=============================================================================
