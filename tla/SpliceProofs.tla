---------------------------- MODULE SpliceProofs ----------------------------
(***************************************************************************)
(* Proofs about Splice, for a guest stack of any size, imports and spliced *)
(* functions of any number of arguments, and splices nested to any depth.  *)
(***************************************************************************)
EXTENDS Splice, SequenceTheorems, FiniteSetTheorems, TLAPS

Kinds == {"guest", "import", "tail", "tick", "then"}

Activations == [kind : Kinds, entry : 0 .. Words, args : Nat, want : Int]

Continuations == [outer : 0 .. Words, ret : 1 .. Words]

(* What activation i of cs is and what it lies on: the host's call is at   *)
(* the bottom, an import is called by guest code, and a spliced function   *)
(* lies on the trapped import.                                             *)
WellPlaced(cs, i) ==
  /\ cs[i].kind = "guest" <=> i = 1
  /\ i = 1 => cs[i].want = STOP
  /\ cs[i].kind = "import" => cs[i].want = i - 1 /\ cs[i - 1].kind # "import"
  /\ cs[i].kind \in {"tail", "tick", "then"} => cs[i - 1].kind = "import"
  /\ cs[i].kind = "tail" => cs[i].want = cs[i - 1].want
  /\ cs[i].kind = "tick" => cs[i].want = TRAP /\ cs[i].entry = cs[i - 1].entry - 1
  /\ cs[i].kind = "then" => cs[i].want = RESUME

(* Frames lie below the frames of the activations under them.              *)
WellNested(cs) ==
  /\ \A i \in 1 .. Len(cs) : cs[i].entry <= Words - i
  /\ \A i, j \in 1 .. Len(cs) :
       i < j => cs[j].entry + cs[j].args + 1 <= cs[i].entry

Chain(cs) ==
  /\ cs \in Seq(Activations)
  /\ \A i \in 1 .. Len(cs) : WellPlaced(cs, i)
  /\ WellNested(cs)

(* The frame of an activation is on the stack as it was pushed.            *)
Intact(a, m) ==
  /\ m[a.entry] = a.want
  /\ a.kind = "import" => \A w \in 1 .. a.args : m[a.entry + w] = ARG

AllIntact(cs, m) == \A i \in 1 .. Len(cs) : Intact(cs[i], m)

(* Where control can be, over the activations cs.                          *)
AtRest(cs, c)  == c.eip = STOP /\ cs = <<>>
Trapped(cs, c) == /\ c.eip \in {TRAP, STUB} /\ cs # <<>>
                  /\ cs[Len(cs)].kind = "import" /\ c.sp = cs[Len(cs)].entry
Resuming(cs, c) == c.eip = RESUME /\ cs # <<>> /\ cs[Len(cs)].kind = "import"
Running(cs, c) == /\ cs # <<>> /\ c.eip = Len(cs)
                  /\ cs[Len(cs)].kind # "import" /\ c.sp <= cs[Len(cs)].entry

Control(cs, c) ==
  /\ c \in [eip : Int, sp : 0 .. Words, own : BOOLEAN]
  /\ AtRest(cs, c) \/ Trapped(cs, c) \/ Resuming(cs, c) \/ Running(cs, c)

(* The imports that wait for a spliced function, when control is at e.     *)
Waits(cs, e, i) ==
  /\ cs[i].kind = "import"
  /\ \/ i < Len(cs) /\ cs[i + 1].kind = "then"
     \/ i = Len(cs) /\ e = RESUME

Waiting(cs, e) == {i \in 1 .. Len(cs) : Waits(cs, e, i)}

Continuation(a) == [outer |-> a.entry, ret |-> a.want]

Above(W, i) == {j \in W : j > i}

(* The end of r past the dead frames is a stack of the members of W.       *)
Stacked(W, cs, r, d) ==
  /\ r \in Seq(Continuations)
  /\ d \in 0 .. Len(r)
  /\ Cardinality(W) = Len(r) - d
  /\ \A i \in W : r[Len(r) - Cardinality(Above(W, i))] = Continuation(cs[i])

Delivered ==
  /\ back.at = back.want
  /\ back.tail \/ (back.drift = 0 /\ back.own)

SpliceInv ==
  /\ Chain(calls)
  /\ mem \in [0 .. Words -> Int]
  /\ AllIntact(calls, mem)
  /\ Control(calls, cpu)
  /\ Stacked(Waiting(calls, cpu.eip), calls, resume, dead)
  /\ Delivered
  /\ made \in 0 .. HostCalls

-----------------------------------------------------------------------------
(* The activations and the frames on the stack.                            *)

LEMMA Sizes == Words \in Nat /\ Words > 0 /\ Args \subseteq Nat /\ HostCalls \in Nat
BY SpliceConstants

LEMMA Codes == TRAP = -1 /\ RESUME = -2 /\ STOP = -3 /\ STUB = -4 /\ ARG = 0
BY DEF TRAP, RESUME, STOP, STUB, ARG

LEMMA ActivationOf ==
  ASSUME NEW cs \in Seq(Activations), NEW i \in 1 .. Len(cs)
  PROVE  /\ cs[i] \in Activations
         /\ cs[i].kind \in Kinds /\ cs[i].entry \in 0 .. Words
         /\ cs[i].args \in Nat /\ cs[i].want \in Int
<1>1. cs[i] \in Activations
  BY ElementOfSeq
<1> QED
  BY <1>1 DEF Activations

LEMMA LengthOf ==
  ASSUME NEW cs \in Seq(Activations)
  PROVE  /\ Len(cs) \in Nat
         /\ DOMAIN cs = 1 .. Len(cs)
         /\ cs # <<>> => Len(cs) > 0
         /\ Len(cs) = 0 <=> cs = <<>>
<1>1. Len(cs) \in Nat /\ DOMAIN cs = 1 .. Len(cs)
  BY LenProperties
<1>2. cs # <<>> => Len(cs) \in Nat \ {0}
  BY EmptySeq
<1>3. Len(<<>>) = 0
  BY EmptySeq
<1> QED
  BY <1>1, <1>2, <1>3

(* What lies on top of a chain of activations.                             *)
LEMMA TopIsLowest ==
  ASSUME NEW cs, Chain(cs), cs # <<>>
  PROVE  /\ Len(cs) \in Nat /\ Len(cs) > 0
         /\ cs[Len(cs)].entry \in Nat /\ cs[Len(cs)].entry <= Words - Len(cs)
         /\ \A i \in 1 .. Len(cs) : cs[Len(cs)].entry <= cs[i].entry
         /\ \A i \in 1 .. Len(cs) - 1 :
              cs[Len(cs)].entry + cs[Len(cs)].args + 1 <= cs[i].entry
<1>1. cs \in Seq(Activations) /\ WellNested(cs)
  BY DEF Chain
<1>2. Len(cs) \in Nat /\ Len(cs) > 0
  BY <1>1, LengthOf
<1> DEFINE n == Len(cs)
<1>3. n \in 1 .. Len(cs)
  BY <1>2
<1>4. /\ cs[n].entry \in 0 .. Words /\ cs[n].args \in Nat
      /\ \A i \in 1 .. n : cs[i].entry \in 0 .. Words
  BY <1>1, <1>3, ActivationOf
<1>5. /\ cs[n].entry <= Words - n
      /\ \A i \in 1 .. n : i < n => cs[n].entry + cs[n].args + 1 <= cs[i].entry
  BY <1>1, <1>3 DEF WellNested
<1> HIDE DEF n
<1>6. \A i \in 1 .. n - 1 : cs[n].entry + cs[n].args + 1 <= cs[i].entry
  BY <1>5, <1>2 DEF n
<1>7. \A i \in 1 .. n : cs[n].entry <= cs[i].entry
  <2> TAKE i \in 1 .. n
  <2>1. CASE i = n
    BY <2>1, <1>4
  <2>2. CASE i # n
    BY <2>2, <1>2, <1>4, <1>5, Sizes DEF n
  <2> QED BY <2>1, <2>2
<1> QED
  BY <1>2, <1>4, <1>5, <1>6, <1>7, Sizes DEF n

(* An activation that fits on top of the chain.                            *)
Fits(cs, a) ==
  /\ a \in Activations
  /\ cs # <<>>
  /\ a.entry + a.args + 1 <= cs[Len(cs)].entry
  /\ \/ /\ a.kind = "import" /\ a.want = Len(cs) /\ cs[Len(cs)].kind # "import"
     \/ /\ cs[Len(cs)].kind = "import"
        /\ \/ a.kind = "tail" /\ a.want = cs[Len(cs)].want
           \/ a.kind = "tick" /\ a.want = TRAP /\ a.entry = cs[Len(cs)].entry - 1
           \/ a.kind = "then" /\ a.want = RESUME

LEMMA AppendIs ==
  ASSUME NEW cs \in Seq(Activations), NEW a \in Activations
  PROVE  /\ Append(cs, a) \in Seq(Activations)
         /\ Append(cs, a) # <<>>
         /\ Len(Append(cs, a)) = Len(cs) + 1
         /\ \A i \in 1 .. Len(cs) : Append(cs, a)[i] = cs[i]
         /\ Append(cs, a)[Len(cs) + 1] = a
BY AppendProperties

LEMMA PrefixIs ==
  ASSUME NEW cs \in Seq(Activations), NEW k \in 0 .. Len(cs)
  PROVE  /\ SubSeq(cs, 1, k) \in Seq(Activations)
         /\ Len(SubSeq(cs, 1, k)) = k
         /\ \A i \in 1 .. k : SubSeq(cs, 1, k)[i] = cs[i]
<1>1. Len(cs) \in Nat /\ \A i \in 1 .. k : cs[i] \in Activations
  BY LengthOf, ActivationOf
<1> DEFINE p == SubSeq(cs, 1, k)
<1>2. /\ p \in Seq(Activations)
      /\ Len(p) = IF 1 <= k THEN k - 1 + 1 ELSE 0
      /\ \A i \in 1 .. k - 1 + 1 : p[i] = cs[1 + i - 1]
  BY <1>1, SubSeqProperties
<1> HIDE DEF p
<1> QED
  BY <1>1, <1>2 DEF p

(* A chain stays one when an activation that fits is put on it...          *)
LEMMA PushKeepsChain ==
  ASSUME NEW cs, Chain(cs), NEW a, Fits(cs, a)
  PROVE  Chain(Append(cs, a))
<1>1. cs \in Seq(Activations) /\ a \in Activations /\ cs # <<>>
  BY DEF Chain, Fits
<1> DEFINE n == Len(cs)
           t == Append(cs, a)
<1>2. /\ t \in Seq(Activations) /\ Len(t) = n + 1
      /\ \A i \in 1 .. n : t[i] = cs[i]
      /\ t[n + 1] = a
  BY <1>1, AppendIs
<1>3. n \in Nat /\ n > 0
  BY <1>1, LengthOf
<1> HIDE DEF n, t
<1>4. \A i \in 1 .. n : WellPlaced(t, i)
  <2> TAKE i \in 1 .. n
  <2>1. WellPlaced(cs, i)
    BY DEF Chain, n
  <2>2. t[i] = cs[i]
    BY <1>2
  <2>3. CASE i = 1
    BY <2>1, <2>2, <2>3, Zenon DEF WellPlaced
  <2>4. CASE i # 1
    <3>1. t[i - 1] = cs[i - 1]
      BY <1>2, <1>3, <2>4
    <3> QED BY <2>1, <2>2, <3>1, Zenon DEF WellPlaced
  <2> QED BY <2>3, <2>4
<1>5. WellPlaced(t, n + 1)
  <2>1. n + 1 # 1 /\ n + 1 - 1 = n /\ t[n] = cs[n]
    BY <1>2, <1>3
  <2> QED
    BY <1>2, <2>1 DEF WellPlaced, Fits, n
<1>6. /\ cs[n].entry \in Nat /\ cs[n].entry <= Words - n
      /\ \A i \in 1 .. n : cs[n].entry <= cs[i].entry
  BY <1>1, TopIsLowest DEF n
<1>7. /\ a.entry \in Nat /\ a.args \in Nat
      /\ \A i \in 1 .. n : cs[i].entry \in Nat
  <2>1. a.entry \in Nat /\ a.args \in Nat
    BY <1>1, Sizes DEF Activations
  <2>2. \A i \in 1 .. n : cs[i].entry \in 0 .. Words
    BY <1>1, ActivationOf DEF n
  <2> QED BY <2>1, <2>2, Sizes
<1>8. a.entry + a.args + 1 <= cs[n].entry
  BY DEF Fits, n
<1>9. WellNested(t)
  <2>1. ASSUME NEW i \in 1 .. n + 1
        PROVE  t[i].entry <= Words - i
    <3>1. CASE i = n + 1
      BY <3>1, <1>2, <1>3, <1>6, <1>7, <1>8, Sizes
    <3>2. CASE i # n + 1
      BY <3>2, <1>2, <1>3 DEF Chain, WellNested, n
    <3> QED BY <3>1, <3>2
  <2>2. ASSUME NEW i \in 1 .. n + 1, NEW j \in 1 .. n + 1, i < j
        PROVE  t[j].entry + t[j].args + 1 <= t[i].entry
    <3>1. CASE j = n + 1
      <4>1. i \in 1 .. n
        BY <2>2, <3>1, <1>3
      <4> QED
        BY <3>1, <4>1, <1>2, <1>6, <1>7, <1>8
    <3>2. CASE j # n + 1
      <4>1. i \in 1 .. n /\ j \in 1 .. n
        BY <2>2, <3>2, <1>3
      <4>2. cs[j].entry + cs[j].args + 1 <= cs[i].entry
        BY <4>1, <2>2 DEF Chain, WellNested, n
      <4> QED
        BY <4>1, <4>2, <1>2
    <3> QED BY <3>1, <3>2
  <2> QED BY <2>1, <2>2, <1>2 DEF WellNested
<1>10. \A i \in 1 .. n + 1 : WellPlaced(t, i)
  BY <1>3, <1>4, <1>5
<1> QED
  BY <1>2, <1>9, <1>10 DEF Chain, t

(* ... and when activations are taken off it.                              *)
LEMMA PopKeepsChain ==
  ASSUME NEW cs, Chain(cs), NEW k \in 0 .. Len(cs)
  PROVE  Chain(SubSeq(cs, 1, k))
<1>1. cs \in Seq(Activations)
  BY DEF Chain
<1> DEFINE t == SubSeq(cs, 1, k)
<1>2. t \in Seq(Activations) /\ Len(t) = k /\ \A i \in 1 .. k : t[i] = cs[i]
  BY <1>1, PrefixIs
<1>3. Len(cs) \in Nat
  BY <1>1, LengthOf
<1> HIDE DEF t
<1>4. \A i \in 1 .. k : WellPlaced(t, i)
  <2> TAKE i \in 1 .. k
  <2>1. WellPlaced(cs, i)
    BY <1>3 DEF Chain
  <2>2. t[i] = cs[i]
    BY <1>2
  <2>3. CASE i = 1
    BY <2>1, <2>2, <2>3, Zenon DEF WellPlaced
  <2>4. CASE i # 1
    <3>1. t[i - 1] = cs[i - 1]
      BY <1>2, <1>3, <2>4
    <3> QED BY <2>1, <2>2, <3>1, Zenon DEF WellPlaced
  <2> QED BY <2>3, <2>4
<1>5. WellNested(t)
  <2>1. \A i \in 1 .. k : i \in 1 .. Len(cs)
    BY <1>3
  <2> QED BY <1>2, <2>1 DEF WellNested, Chain
<1> QED
  BY <1>2, <1>4, <1>5 DEF Chain, t

(* Machine::call starts a chain of its own.                                *)
LEMMA FirstChain ==
  ASSUME NEW a, a = [kind |-> "guest", entry |-> Words - 1, args |-> 0, want |-> STOP]
  PROVE  /\ Chain(<<a>>) /\ Len(<<a>>) = 1 /\ <<a>>[1] = a /\ <<a>> # <<>>
<1>1. a \in Activations
  BY Sizes, Codes DEF Activations, Kinds
<1>2. <<a>> \in Seq(Activations) /\ Len(<<a>>) = 1 /\ <<a>>[1] = a
  BY <1>1
<1>3. WellPlaced(<<a>>, 1)
  BY <1>2 DEF WellPlaced
<1>4. WellNested(<<a>>)
  BY <1>2, Sizes DEF WellNested
<1>5. <<a>> # <<>>
  BY <1>2, EmptySeq
<1> QED
  BY <1>2, <1>3, <1>4, <1>5 DEF Chain

-----------------------------------------------------------------------------
(* The stack with a frame of n arguments below sp.                         *)
Under(m, sp, k, ret) ==
  [w \in 0 .. Words |->
     IF w = sp - k - 1 THEN ret
     ELSE IF sp - k - 1 < w /\ w < sp THEN ARG
     ELSE m[w]]

IsRoom(m, sp, k, ret) ==
  /\ m \in [0 .. Words -> Int] /\ sp \in 0 .. Words /\ k \in Nat /\ ret \in Int
  /\ sp - k - 1 >= 0

IsPushed(u, m, sp, k, ret) ==
  /\ u \in [0 .. Words -> Int]
  /\ u[sp - k - 1] = ret
  /\ \A w \in 1 .. k : u[sp - k - 1 + w] = ARG
  /\ \A w \in sp .. Words : u[w] = m[w]

LEMMA FrameIsPushed ==
  ASSUME NEW m, NEW sp, NEW k, NEW ret, IsRoom(m, sp, k, ret)
  PROVE  IsPushed(Under(m, sp, k, ret), m, sp, k, ret)
BY Sizes, Codes DEF Under, IsRoom, IsPushed

LEMMA PushKeepsFrames ==
  ASSUME NEW cs, Chain(cs), NEW a, Fits(cs, a),
         NEW m, m \in [0 .. Words -> Int], AllIntact(cs, m),
         NEW sp, sp \in 0 .. Words, sp <= cs[Len(cs)].entry,
         a.entry = sp - a.args - 1
  PROVE  AllIntact(Append(cs, a), Under(m, sp, a.args, a.want))
<1>1. cs \in Seq(Activations) /\ a \in Activations /\ cs # <<>>
  BY DEF Chain, Fits
<1> DEFINE n == Len(cs)
           t == Append(cs, a)
           u == Under(m, sp, a.args, a.want)
<1>2. /\ Len(t) = n + 1
      /\ \A i \in 1 .. n : t[i] = cs[i]
      /\ t[n + 1] = a
  BY <1>1, AppendIs
<1>3. n \in Nat /\ n > 0 /\ \A i \in 1 .. n : cs[n].entry <= cs[i].entry
  BY <1>1, TopIsLowest
<1>4. a.entry \in 0 .. Words /\ a.args \in Nat /\ a.want \in Int
  BY <1>1 DEF Activations
<1>5. /\ u[a.entry] = a.want
      /\ \A w \in 1 .. a.args : u[a.entry + w] = ARG
      /\ \A w \in sp .. Words : u[w] = m[w]
  <2>1. sp - a.args - 1 = a.entry /\ sp - a.args - 1 >= 0
    BY <1>4, Sizes
  <2>2. IsRoom(m, sp, a.args, a.want)
    BY <1>4, <2>1 DEF IsRoom
  <2>3. IsPushed(u, m, sp, a.args, a.want)
    BY <2>2, FrameIsPushed, Zenon
  <2> HIDE DEF u
  <2> QED BY <2>1, <2>3 DEF IsPushed
<1>6. ASSUME NEW i \in 1 .. n PROVE Intact(cs[i], u)
  <2>1. /\ cs[i].entry \in 0 .. Words /\ cs[i].args \in Nat
        /\ cs[n].entry \in 0 .. Words /\ cs[n].entry <= cs[i].entry
    BY <1>1, <1>3, ActivationOf
  <2>2. Intact(cs[i], m)
    BY DEF AllIntact
  <2> HIDE DEF u
  <2>3. cs[i].entry \in sp .. Words
    BY <2>1, Sizes DEF n
  <2>4. u[cs[i].entry] = m[cs[i].entry]
    BY <2>3, <1>5
  <2>5. ASSUME cs[i].kind = "import", NEW w \in 1 .. cs[i].args
        PROVE  u[cs[i].entry + w] = ARG
    <3>1. cs[i].entry + cs[i].args <= Words
      <4>1. CASE i = 1
        BY <2>5, <4>1, <1>3 DEF Chain, WellPlaced, n
      <4>2. CASE i # 1
        <5>1. i - 1 \in 1 .. n /\ i - 1 < i
          BY <4>2, <1>3
        <5>2. cs[i].entry + cs[i].args + 1 <= cs[i - 1].entry
          BY <5>1 DEF Chain, WellNested, n
        <5>3. cs[i - 1].entry \in 0 .. Words
          BY <1>1, <5>1, ActivationOf DEF n
        <5> DEFINE e == cs[i - 1].entry
        <5> HIDE DEF e
        <5>4. cs[i].entry + cs[i].args + 1 <= e /\ e \in 0 .. Words
          BY <5>2, <5>3 DEF e
        <5> QED BY <5>4, <2>1, Sizes
      <4> QED BY <4>1, <4>2
    <3>2. cs[i].entry + w \in sp .. Words
      BY <3>1, <2>1, <2>3, Sizes
    <3>3. m[cs[i].entry + w] = ARG
      BY <2>2, <2>5 DEF Intact
    <3> QED BY <3>2, <3>3, <1>5
  <2> QED BY <2>2, <2>4, <2>5 DEF Intact
<1>7. Intact(a, u)
  BY <1>5 DEF Intact
<1> HIDE DEF u, t, n
<1>8. \A i \in 1 .. n + 1 : Intact(t[i], u)
  BY <1>2, <1>3, <1>6, <1>7
<1> QED
  BY <1>2, <1>8 DEF AllIntact, u, t, n

LEMMA PopKeepsFrames ==
  ASSUME NEW cs \in Seq(Activations), NEW m, AllIntact(cs, m), NEW k \in 0 .. Len(cs)
  PROVE  AllIntact(SubSeq(cs, 1, k), m)
<1>1. /\ Len(SubSeq(cs, 1, k)) = k
      /\ \A i \in 1 .. k : SubSeq(cs, 1, k)[i] = cs[i]
      /\ Len(cs) \in Nat
  BY PrefixIs, LengthOf
<1> QED
  BY <1>1 DEF AllIntact

-----------------------------------------------------------------------------
(* The continuations.                                                      *)

FiniteInts(W) == IsFiniteSet(W) /\ W \subseteq Int

LEMMA AboveIsSmaller ==
  ASSUME NEW W, FiniteInts(W), NEW i \in W
  PROVE  /\ IsFiniteSet(Above(W, i))
         /\ Cardinality(Above(W, i)) \in Nat
         /\ Cardinality(W) \in Nat
         /\ Cardinality(Above(W, i)) < Cardinality(W)
<1>1. IsFiniteSet(W) /\ Cardinality(W) \in Nat
  BY FS_CardinalityType DEF FiniteInts
<1>2. /\ IsFiniteSet(W \ {i})
      /\ Cardinality(W \ {i}) = Cardinality(W) - 1
  BY <1>1, FS_RemoveElement
<1>3. Above(W, i) \in SUBSET (W \ {i})
  BY DEF Above, FiniteInts
<1>4. /\ IsFiniteSet(Above(W, i))
      /\ Cardinality(Above(W, i)) <= Cardinality(W \ {i})
  BY <1>2, <1>3, FS_Subset
<1>5. Cardinality(Above(W, i)) \in Nat
  BY <1>4, FS_CardinalityType
<1> QED
  BY <1>1, <1>2, <1>4, <1>5

LEMMA ContinuationSeq ==
  ASSUME NEW r \in Seq(Continuations)
  PROVE  /\ Len(r) \in Nat
         /\ \A i \in 1 .. Len(r) : r[i] \in Continuations
         /\ \A f \in Continuations :
              /\ Append(r, f) \in Seq(Continuations)
              /\ Len(Append(r, f)) = Len(r) + 1
              /\ \A i \in 1 .. Len(r) : Append(r, f)[i] = r[i]
              /\ Append(r, f)[Len(r) + 1] = f
         /\ Len(r) > 0 =>
              /\ Last(r) = r[Len(r)]
              /\ Front(r) \in Seq(Continuations)
              /\ Len(Front(r)) = Len(r) - 1
              /\ \A i \in 1 .. Len(r) - 1 : Front(r)[i] = r[i]
<1>1. Len(r) \in Nat /\ \A i \in 1 .. Len(r) : r[i] \in Continuations
  BY LenProperties, ElementOfSeq
<1>2. ASSUME NEW f \in Continuations
      PROVE  /\ Append(r, f) \in Seq(Continuations)
             /\ Len(Append(r, f)) = Len(r) + 1
             /\ \A i \in 1 .. Len(r) : Append(r, f)[i] = r[i]
             /\ Append(r, f)[Len(r) + 1] = f
  BY AppendProperties
<1>3. ASSUME Len(r) > 0
      PROVE  /\ Last(r) = r[Len(r)]
             /\ Front(r) \in Seq(Continuations)
             /\ Len(Front(r)) = Len(r) - 1
             /\ \A i \in 1 .. Len(r) - 1 : Front(r)[i] = r[i]
  <2> DEFINE p == SubSeq(r, 1, Len(r) - 1)
  <2>1. \A i \in 1 .. Len(r) - 1 : r[i] \in Continuations
    BY <1>1
  <2>2. /\ p \in Seq(Continuations)
        /\ Len(p) = IF 1 <= Len(r) - 1 THEN Len(r) - 1 - 1 + 1 ELSE 0
        /\ \A i \in 1 .. Len(r) - 1 - 1 + 1 : p[i] = r[1 + i - 1]
    BY <1>1, <2>1, SubSeqProperties
  <2>3. Front(r) = p /\ Last(r) = r[Len(r)]
    BY DEF Front, Last
  <2> HIDE DEF p
  <2> QED BY <1>1, <1>3, <2>2, <2>3
<1> QED
  BY <1>1, <1>2, <1>3

(* Where the frame of a waiting call lies.                                 *)
LEMMA FrameIndex ==
  ASSUME NEW W, FiniteInts(W), NEW cs, NEW r, NEW d, Stacked(W, cs, r, d),
         NEW i \in W
  PROVE  /\ Len(r) \in Nat /\ d \in Nat
         /\ Cardinality(Above(W, i)) \in Nat
         /\ Len(r) - Cardinality(Above(W, i)) \in 1 .. Len(r)
         /\ r[Len(r) - Cardinality(Above(W, i))] = Continuation(cs[i])
<1>1. /\ r \in Seq(Continuations) /\ d \in 0 .. Len(r)
      /\ Cardinality(W) = Len(r) - d
      /\ r[Len(r) - Cardinality(Above(W, i))] = Continuation(cs[i])
  BY DEF Stacked
<1>2. Len(r) \in Nat
  BY <1>1, LenProperties
<1>3. /\ Cardinality(Above(W, i)) \in Nat
      /\ Cardinality(Above(W, i)) < Cardinality(W)
  BY AboveIsSmaller
<1> QED
  BY <1>1, <1>2, <1>3

(* Another import waits, above the ones that do.                           *)
Joins(W, cs, m, t) ==
  /\ m \in Int
  /\ \A i \in W : i < m
  /\ \A i \in W : Continuation(t[i]) = Continuation(cs[i])
  /\ Continuation(t[m]) \in Continuations

LEMMA PushContinuation ==
  ASSUME NEW W, FiniteInts(W), NEW cs, NEW r, NEW d, Stacked(W, cs, r, d),
         NEW m, NEW t, Joins(W, cs, m, t)
  PROVE  /\ FiniteInts(W \cup {m})
         /\ Stacked(W \cup {m}, t, Append(r, Continuation(t[m])), d)
<1> DEFINE f == Continuation(t[m])
           V == W \cup {m}
           s == Append(r, f)
<1>0. /\ m \in Int /\ f \in Continuations
      /\ \A i \in W : i < m
      /\ \A i \in W : Continuation(t[i]) = Continuation(cs[i])
  BY DEF Joins
<1>1. /\ r \in Seq(Continuations) /\ d \in 0 .. Len(r)
      /\ Cardinality(W) = Len(r) - d
  BY DEF Stacked
<1>2. /\ Len(r) \in Nat /\ s \in Seq(Continuations) /\ Len(s) = Len(r) + 1
      /\ \A i \in 1 .. Len(r) : s[i] = r[i]
      /\ s[Len(r) + 1] = f
  BY <1>0, <1>1, ContinuationSeq
<1>3. m \notin W
  BY <1>0 DEF FiniteInts
<1>4. IsFiniteSet(V) /\ Cardinality(V) = Cardinality(W) + 1
  BY <1>3, FS_AddElement DEF FiniteInts
<1>5. FiniteInts(V)
  BY <1>0, <1>4 DEF FiniteInts
<1>6. ASSUME NEW i \in W
      PROVE  s[Len(s) - Cardinality(Above(V, i))] = Continuation(t[i])
  <2>1. Above(V, i) = Above(W, i) \cup {m}
    BY <1>0 DEF Above, FiniteInts
  <2>2. m \notin Above(W, i) /\ IsFiniteSet(Above(W, i))
    BY <1>3, AboveIsSmaller DEF Above
  <2>3. Cardinality(Above(V, i)) = Cardinality(Above(W, i)) + 1
    BY <2>1, <2>2, FS_AddElement
  <2>4. /\ Cardinality(Above(W, i)) \in Nat
        /\ Len(r) - Cardinality(Above(W, i)) \in 1 .. Len(r)
        /\ r[Len(r) - Cardinality(Above(W, i))] = Continuation(cs[i])
    BY FrameIndex
  <2>5. Len(s) - Cardinality(Above(V, i)) = Len(r) - Cardinality(Above(W, i))
    BY <1>2, <2>3, <2>4
  <2> QED
    BY <1>0, <1>2, <2>4, <2>5
<1>7. s[Len(s) - Cardinality(Above(V, m))] = f
  <2>1. \A j \in V : ~(j > m)
    BY <1>0 DEF FiniteInts
  <2>2. Above(V, m) = {}
    BY <2>1, Zenon DEF Above
  <2>3. Cardinality(Above(V, m)) = 0
    BY <2>2, FS_EmptySet
  <2> HIDE DEF s, V, f
  <2> QED
    BY <1>2, <2>3
<1>8. \A i \in V : s[Len(s) - Cardinality(Above(V, i))] = Continuation(t[i])
  BY <1>6, <1>7
<1>9. d \in 0 .. Len(s) /\ Cardinality(V) = Len(s) - d
  BY <1>1, <1>2, <1>4
<1> QED
  BY <1>2, <1>5, <1>8, <1>9 DEF Stacked

LEMMA PopContinuation ==
  ASSUME NEW W, FiniteInts(W), NEW cs, NEW r, NEW d, Stacked(W, cs, r, d),
         NEW m \in W, \A i \in W : i <= m,
         NEW t, \A i \in W \ {m} : Continuation(t[i]) = Continuation(cs[i])
  PROVE  /\ Last(r) = Continuation(cs[m])
         /\ FiniteInts(W \ {m})
         /\ Stacked(W \ {m}, t, Front(r), d)
<1> DEFINE V == W \ {m}
           s == Front(r)
<1>1. /\ r \in Seq(Continuations) /\ d \in 0 .. Len(r)
      /\ Cardinality(W) = Len(r) - d
  BY DEF Stacked
<1>2. Above(W, m) = {}
  <2>1. \A j \in W : ~(j > m)
    BY DEF FiniteInts
  <2> QED BY <2>1, Zenon DEF Above
<1>3. Len(r) \in Nat /\ Len(r) > 0 /\ r[Len(r)] = Continuation(cs[m])
  <2>1. /\ Len(r) \in Nat /\ Len(r) - Cardinality(Above(W, m)) \in 1 .. Len(r)
        /\ r[Len(r) - Cardinality(Above(W, m))] = Continuation(cs[m])
    BY FrameIndex
  <2>2. Cardinality(Above(W, m)) = 0
    BY <1>2, FS_EmptySet
  <2> QED BY <2>1, <2>2
<1>4. /\ Last(r) = r[Len(r)] /\ s \in Seq(Continuations)
      /\ Len(s) = Len(r) - 1
      /\ \A i \in 1 .. Len(r) - 1 : s[i] = r[i]
  BY <1>1, <1>3, ContinuationSeq
<1>5. IsFiniteSet(V) /\ Cardinality(V) = Cardinality(W) - 1
  BY FS_RemoveElement DEF FiniteInts
<1>6. FiniteInts(V)
  BY <1>5 DEF FiniteInts
<1>7. Cardinality(V) \in Nat
  BY <1>5, FS_CardinalityType
<1>8. ASSUME NEW i \in V
      PROVE  s[Len(s) - Cardinality(Above(V, i))] = Continuation(t[i])
  <2>1. i \in W /\ i < m
    BY DEF FiniteInts
  <2>2. Above(V, i) = Above(W, i) \ {m} /\ m \in Above(W, i)
    BY <2>1 DEF Above, FiniteInts
  <2>3. IsFiniteSet(Above(W, i))
    BY <2>1, AboveIsSmaller
  <2>4. Cardinality(Above(V, i)) = Cardinality(Above(W, i)) - 1
    BY <2>2, <2>3, FS_RemoveElement
  <2>5. Cardinality(Above(V, i)) \in Nat
    BY <1>6, AboveIsSmaller
  <2>6. /\ Cardinality(Above(W, i)) \in Nat
        /\ Len(r) - Cardinality(Above(W, i)) \in 1 .. Len(r)
        /\ r[Len(r) - Cardinality(Above(W, i))] = Continuation(cs[i])
    BY <2>1, FrameIndex
  <2>7. /\ Len(s) - Cardinality(Above(V, i)) = Len(r) - Cardinality(Above(W, i))
        /\ Len(r) - Cardinality(Above(W, i)) \in 1 .. Len(r) - 1
    BY <1>3, <1>4, <2>4, <2>5, <2>6
  <2> QED
    BY <1>4, <2>6, <2>7
<1>9. d \in 0 .. Len(s) /\ Cardinality(V) = Len(s) - d
  BY <1>1, <1>3, <1>4, <1>5, <1>7
<1> QED
  BY <1>3, <1>4, <1>6, <1>8, <1>9 DEF Stacked

(* What the other steps do to the activations leaves the stack alone.      *)
LEMMA KeepContinuations ==
  ASSUME NEW W, NEW cs, NEW r, NEW d, Stacked(W, cs, r, d),
         NEW t, \A i \in W : Continuation(t[i]) = Continuation(cs[i])
  PROVE  Stacked(W, t, r, d)
BY DEF Stacked

(* Which imports wait, after activations are put on or taken off.          *)
LEMMA WaitingIsFinite ==
  ASSUME NEW cs \in Seq(Activations), NEW e
  PROVE  /\ FiniteInts(Waiting(cs, e))
         /\ \A i \in Waiting(cs, e) : i \in 1 .. Len(cs) /\ Waits(cs, e, i)
<1>1. Len(cs) \in Nat
  BY LengthOf
<1>2. IsFiniteSet(1 .. Len(cs))
  BY <1>1, FS_Interval
<1>3. Waiting(cs, e) \in SUBSET (1 .. Len(cs))
  BY DEF Waiting
<1>4. IsFiniteSet(Waiting(cs, e))
  BY <1>2, <1>3, FS_Subset
<1>5. 1 .. Len(cs) \subseteq Int
  BY <1>1
<1> QED
  BY <1>3, <1>4, <1>5, Zenon DEF FiniteInts, Waiting

Elsewhere(e) == e # RESUME
Spliced(a)   == a.kind = "then"

LEMMA WaitingAfterPush ==
  ASSUME NEW cs, Chain(cs), NEW a, Fits(cs, a), NEW e, NEW f, Elsewhere(f)
  PROVE  /\ Spliced(a) => Waiting(Append(cs, a), f) = Waiting(cs, e) \cup {Len(cs)}
         /\ ~Spliced(a) /\ Elsewhere(e) => Waiting(Append(cs, a), f) = Waiting(cs, e)
<1> DEFINE n == Len(cs)
           t == Append(cs, a)
<1>1. cs \in Seq(Activations) /\ a \in Activations /\ cs # <<>>
  BY DEF Chain, Fits
<1>2. /\ Len(t) = n + 1 /\ t[n + 1] = a
      /\ \A i \in 1 .. n : t[i] = cs[i]
      /\ n \in Nat /\ n > 0
  BY <1>1, AppendIs, LengthOf
<1>3. a.kind = "then" => cs[n].kind = "import"
  BY DEF Fits
<1> HIDE DEF t, n
<1>4. ASSUME NEW i \in 1 .. n, i # n PROVE Waits(t, f, i) <=> Waits(cs, e, i)
  <2>1. i < n /\ i < n + 1 /\ i # n /\ i # n + 1 /\ i + 1 \in 1 .. n
    BY <1>2, <1>4
  <2>2. t[i] = cs[i] /\ t[i + 1] = cs[i + 1]
    BY <1>2, <2>1
  <2> QED BY <1>2, <2>1, <2>2 DEF Waits, n
<1>5. Waits(t, f, n) <=> cs[n].kind = "import" /\ a.kind = "then"
  <2>1. n < n + 1 /\ n # n + 1 /\ t[n] = cs[n]
    BY <1>2
  <2> QED BY <1>2, <2>1 DEF Waits
<1>6. ~Waits(t, f, n + 1)
  BY <1>2 DEF Waits, Elsewhere
<1>7. Waits(cs, e, n) <=> cs[n].kind = "import" /\ e = RESUME
  BY <1>2 DEF Waits, n
<1>8. ASSUME NEW i
      PROVE  i \in Waiting(t, f) <=>
               i \in 1 .. n /\ IF i = n THEN a.kind = "then" ELSE Waits(cs, e, i)
  <2>1. i \in 1 .. n + 1 <=> i \in 1 .. n \/ i = n + 1
    BY <1>2
  <2>2. n \in 1 .. n /\ n + 1 \notin 1 .. n
    BY <1>2
  <2> QED
    BY <1>2, <1>3, <1>4, <1>5, <1>6, <2>1, <2>2, Zenon DEF Waiting
<1>9. ASSUME NEW i
      PROVE  i \in Waiting(cs, e) <=> i \in 1 .. n /\ Waits(cs, e, i)
  BY Zenon DEF Waiting, n
<1>10. n \in 1 .. n
  BY <1>2
<1>11. a.kind = "then" => Waiting(t, f) = Waiting(cs, e) \cup {n}
  BY <1>8, <1>9, <1>10, Zenon
<1>12. a.kind # "then" /\ e # RESUME => Waiting(t, f) = Waiting(cs, e)
  BY <1>7, <1>8, <1>9, <1>10, Zenon
<1> QED
  BY <1>11, <1>12, Zenon DEF t, n, Elsewhere, Spliced

(* Off the top come an activation, or a tail splice with the import it     *)
(* returns for; what is below waits as it did.                             *)
PopsTo(cs, k, f) ==
  /\ k \in 0 .. Len(cs) - 1
  /\ k > 0 => (cs[k].kind = "import" => (f = RESUME <=> cs[k + 1].kind = "then"))
  /\ \A i \in k + 1 .. Len(cs) - 1 : cs[i + 1].kind # "then"

LEMMA WaitingAfterPop ==
  ASSUME NEW cs, Chain(cs), NEW k, NEW e, NEW f, PopsTo(cs, k, f)
  PROVE  /\ Elsewhere(e) => Waiting(SubSeq(cs, 1, k), f) = Waiting(cs, e)
         /\ ~Elsewhere(e) => Waiting(SubSeq(cs, 1, k), f) = Waiting(cs, e) \ {Len(cs)}
<1> DEFINE n == Len(cs)
           t == SubSeq(cs, 1, k)
<1>1. cs \in Seq(Activations)
  BY DEF Chain
<1>2. n \in Nat /\ k \in 0 .. n - 1 /\ k \in 0 .. n
  BY <1>1, LengthOf DEF PopsTo
<1>3. Len(t) = k /\ \A i \in 1 .. k : t[i] = cs[i]
  BY <1>1, <1>2, PrefixIs
<1> HIDE DEF t
<1>4. ASSUME NEW i \in 1 .. k PROVE Waits(t, f, i) <=> Waits(cs, e, i)
  <2>1. i < n /\ i # n /\ (i < k <=> i # k)
    BY <1>2
  <2>2. CASE i = k
    <3>1. k > 0 /\ t[k] = cs[k] /\ ~(k < k)
      BY <2>2, <1>2, <1>3
    <3> QED BY <2>1, <2>2, <3>1, <1>3, Zenon DEF PopsTo, Waits, n
  <2>3. CASE i # k
    <3>1. t[i] = cs[i] /\ t[i + 1] = cs[i + 1]
      BY <2>3, <1>2, <1>3
    <3> QED BY <2>1, <2>3, <3>1, <1>3, Zenon DEF Waits, n
  <2> QED BY <2>2, <2>3
<1>5. ASSUME NEW i \in 1 .. n, ~(i \in 1 .. k)
      PROVE  Waits(cs, e, i) => i = n /\ e = RESUME
  <2>1. i = n \/ i \in k + 1 .. n - 1
    BY <1>2, <1>5
  <2>2. ~(n < n)
    BY <1>2
  <2> QED BY <2>1, <2>2, Zenon DEF PopsTo, Waits, n
<1>6. \A i \in 1 .. k : i \in 1 .. n /\ i # n
  BY <1>2
<1>7. n \in 1 .. n /\ (e = RESUME => Waits(cs, e, n) <=> cs[n].kind = "import")
  BY <1>2 DEF Waits, n
<1>8. ASSUME NEW i
      PROVE  i \in Waiting(t, f) <=> i \in 1 .. k /\ Waits(cs, e, i)
  BY <1>3, <1>4, Zenon DEF Waiting
<1>9. ASSUME NEW i
      PROVE  i \in Waiting(cs, e) <=> i \in 1 .. n /\ Waits(cs, e, i)
  BY Zenon DEF Waiting, n
<1>10. e # RESUME => Waiting(t, f) = Waiting(cs, e)
  BY <1>5, <1>6, <1>8, <1>9, Zenon
<1>11. e = RESUME => Waiting(t, f) = Waiting(cs, e) \ {n}
  BY <1>5, <1>6, <1>8, <1>9, Zenon
<1> QED
  BY <1>10, <1>11, Zenon DEF t, n, Elsewhere

-----------------------------------------------------------------------------
(* The steps.                                                              *)

Depth == Len(calls)
Top   == calls[Len(calls)]

LEMMA Where ==
  ASSUME SpliceInv
  PROVE  /\ calls \in Seq(Activations)
         /\ Depth \in Nat
         /\ InTrap \/ cpu.eip = STUB => Trapped(calls, cpu)
         /\ InResume => Resuming(calls, cpu)
         /\ InGuest => Running(calls, cpu)
         /\ cpu.eip = STOP => AtRest(calls, cpu)
<1>1. calls \in Seq(Activations) /\ Depth \in Nat
  BY LengthOf DEF SpliceInv, Chain, Depth
<1>2. AtRest(calls, cpu) \/ Trapped(calls, cpu) \/ Resuming(calls, cpu) \/ Running(calls, cpu)
  BY Zenon DEF SpliceInv, Control
<1>3. /\ AtRest(calls, cpu) => cpu.eip = -3
      /\ Trapped(calls, cpu) => cpu.eip = -1 \/ cpu.eip = -4
      /\ Resuming(calls, cpu) => cpu.eip = -2
      /\ Running(calls, cpu) => cpu.eip = Depth /\ cpu.eip \in Nat
  BY <1>1, Codes DEF AtRest, Trapped, Resuming, Running, Depth
<1> QED
  BY <1>1, <1>2, <1>3, Codes DEF InTrap, InResume, InGuest

LEMMA TopIs ==
  ASSUME SpliceInv, calls # <<>>
  PROVE  /\ Depth \in Nat /\ Depth > 0 /\ Depth <= Words
         /\ Top \in Activations /\ Top.kind \in Kinds
         /\ Top.entry \in 0 .. Words /\ Top.args \in Nat /\ Top.want \in Int
         /\ Top.entry <= Words - Depth
         /\ WellPlaced(calls, Depth)
         /\ mem[Top.entry] = Top.want
<1>1. Chain(calls) /\ calls \in Seq(Activations) /\ AllIntact(calls, mem)
  BY DEF SpliceInv, Chain
<1>2. /\ Depth \in Nat /\ Depth > 0
      /\ Top.entry \in Nat /\ Top.entry <= Words - Depth
  BY <1>1, TopIsLowest DEF Depth, Top
<1>3. Depth \in 1 .. Len(calls)
  BY <1>2 DEF Depth
<1>4. /\ Top \in Activations /\ Top.kind \in Kinds
      /\ Top.entry \in 0 .. Words /\ Top.args \in Nat /\ Top.want \in Int
  BY <1>1, <1>3, ActivationOf DEF Top, Depth
<1>5. WellPlaced(calls, Depth)
  BY <1>1, <1>3 DEF Chain
<1>6. mem[Top.entry] = Top.want
  BY <1>1, <1>3 DEF AllIntact, Intact, Top, Depth
<1> QED
  BY <1>2, <1>4, <1>5, <1>6, Sizes

(* An import is called by guest code, which is never at the bottom.        *)
LEMMA CallerOf ==
  ASSUME SpliceInv, NEW i \in 1 .. Depth, calls[i].kind = "import"
  PROVE  /\ i - 1 \in 1 .. Depth /\ i - 1 < i
         /\ calls[i].want = i - 1
         /\ calls[i - 1].kind # "import"
         /\ calls[i - 1].entry \in 0 .. Words
         /\ calls[i].entry \in 0 .. Words /\ calls[i].args \in Nat
         /\ calls[i].entry + calls[i].args + 1 <= calls[i - 1].entry
<1>1. Depth \in Nat /\ WellPlaced(calls, i)
  BY LengthOf DEF SpliceInv, Chain, Depth
<1>2. i # 1 /\ calls[i].want = i - 1 /\ calls[i - 1].kind # "import"
  BY <1>1 DEF WellPlaced
<1>3. i - 1 \in 1 .. Depth /\ i - 1 < i
  BY <1>1, <1>2
<1>4. /\ calls[i - 1].entry \in 0 .. Words
      /\ calls[i].entry \in 0 .. Words /\ calls[i].args \in Nat
  BY <1>3, ActivationOf DEF SpliceInv, Chain, Depth
<1>5. calls[i].entry + calls[i].args + 1 <= calls[i - 1].entry
  BY <1>3 DEF SpliceInv, Chain, WellNested, Depth
<1> QED
  BY <1>2, <1>3, <1>4, <1>5

LEMMA CallerIs ==
  ASSUME SpliceInv, calls # <<>>, Top.kind = "import"
  PROVE  /\ Depth - 1 \in 1 .. Depth /\ Depth - 1 < Depth
         /\ Top.want = Depth - 1
         /\ calls[Depth - 1].kind # "import"
         /\ calls[Depth - 1].entry \in 0 .. Words
         /\ Top.entry + Top.args + 1 <= calls[Depth - 1].entry
<1>1. Depth \in 1 .. Depth /\ calls[Depth].kind = "import" /\ Top = calls[Depth]
  BY TopIs DEF Top, Depth
<1> QED
  BY <1>1, CallerOf

LEMMA PushedIsUnder ==
  ASSUME SpliceInv, NEW sp, NEW k, NEW ret
  PROVE  Pushed(sp, k, ret) = Under(mem, sp, k, ret)
<1>1. DOMAIN mem = 0 .. Words
  BY DEF SpliceInv
<1> QED
  BY <1>1, Zenon DEF Pushed, Under, FrameAt

(* A frame is pushed for an activation on top of the ones under way.       *)
LEMMA PushStep ==
  ASSUME SpliceInv, NEW a, Fits(calls, a),
         NEW sp, sp \in 0 .. Words, sp <= Top.entry, a.entry = sp - a.args - 1,
         mem' = Pushed(sp, a.args, a.want), calls' = Append(calls, a)
  PROVE  /\ Chain(calls')
         /\ mem' \in [0 .. Words -> Int]
         /\ AllIntact(calls', mem')
         /\ calls' # <<>> /\ Len(calls') = Depth + 1 /\ calls'[Len(calls')] = a
<1>1. /\ Chain(calls) /\ mem \in [0 .. Words -> Int] /\ AllIntact(calls, mem)
      /\ calls \in Seq(Activations) /\ a \in Activations
  BY DEF SpliceInv, Chain, Fits
<1>2. Chain(calls')
  BY <1>1, PushKeepsChain
<1>3. mem' = Under(mem, sp, a.args, a.want)
  BY PushedIsUnder
<1>4. AllIntact(calls', mem')
  BY <1>1, <1>3, PushKeepsFrames DEF Top
<1>5. a.entry \in 0 .. Words /\ a.args \in Nat /\ a.want \in Int
  BY <1>1 DEF Activations
<1>6. IsRoom(mem, sp, a.args, a.want)
  BY <1>1, <1>5, Sizes DEF IsRoom
<1>7. mem' \in [0 .. Words -> Int]
  <2>1. IsPushed(mem', mem, sp, a.args, a.want)
    BY <1>3, <1>6, FrameIsPushed, Zenon
  <2> QED BY <2>1, Zenon DEF IsPushed
<1>8. calls' # <<>> /\ Len(calls') = Depth + 1 /\ calls'[Depth + 1] = a
  BY <1>1, AppendIs DEF Depth
<1> QED
  BY <1>2, <1>4, <1>7, <1>8

(* Activations are taken off.                                              *)
LEMMA PopStep ==
  ASSUME SpliceInv, NEW k \in 0 .. Depth, UNCHANGED mem, calls' = SubSeq(calls, 1, k)
  PROVE  /\ Chain(calls')
         /\ mem' \in [0 .. Words -> Int]
         /\ AllIntact(calls', mem')
         /\ Len(calls') = k
         /\ \A i \in 1 .. k : calls'[i] = calls[i]
         /\ k > 0 => calls' # <<>>
<1>1. /\ Chain(calls) /\ mem \in [0 .. Words -> Int] /\ AllIntact(calls, mem)
      /\ calls \in Seq(Activations)
  BY DEF SpliceInv, Chain
<1>2. Chain(calls')
  BY <1>1, PopKeepsChain DEF Depth
<1>3. AllIntact(calls', mem')
  BY <1>1, PopKeepsFrames DEF Depth
<1>4. Len(calls') = k /\ \A i \in 1 .. k : calls'[i] = calls[i]
  BY <1>1, PrefixIs DEF Depth
<1>5. k > 0 => calls' # <<>>
  <2>1. Len(<<>>) = 0
    BY EmptySeq
  <2>2. k > 0 => k # 0
    OBVIOUS
  <2> QED BY <1>4, <2>1, <2>2, Zenon
<1> QED
  BY <1>1, <1>2, <1>3, <1>4, <1>5

(* Control arrives where a trapped import was called from.                 *)
LEMMA ArriveStep ==
  ASSUME SpliceInv, calls # <<>>, Top.kind = "import", UNCHANGED mem,
         Arrive(Top.want, Top.entry + 1, TRUE, FALSE)
  PROVE  /\ calls' = SubSeq(calls, 1, Depth - 1) /\ Depth - 1 \in 1 .. Depth
         /\ Chain(calls') /\ mem' \in [0 .. Words -> Int] /\ AllIntact(calls', mem')
         /\ Control(calls', cpu') /\ cpu'.eip # RESUME
         /\ Delivered'
<1>1. /\ Depth - 1 \in 1 .. Depth /\ Depth - 1 < Depth
      /\ Top.want = Depth - 1
      /\ calls[Depth - 1].kind # "import"
      /\ calls[Depth - 1].entry \in 0 .. Words
      /\ Top.entry + Top.args + 1 <= calls[Depth - 1].entry
  BY CallerIs
<1>2. /\ Depth \in Nat
      /\ Top.entry \in 0 .. Words /\ Top.args \in Nat
  BY TopIs
<1> DEFINE sp == Top.entry + 1 + Top.args
<1>3. Top.want > 0 /\ Last(calls) = Top /\ Front(calls) = SubSeq(calls, 1, Depth - 1)
  BY <1>1, <1>2 DEF Last, Front, Top, Depth
<1>4. /\ cpu'.eip = Top.want /\ cpu'.sp = sp
      /\ cpu' \in [eip : {Top.want}, sp : {sp}, own : BOOLEAN]
      /\ calls' = SubSeq(calls, 1, Depth - 1)
      /\ back'.at = Top.want /\ back'.want = Top.want /\ back'.own = TRUE
      /\ back'.drift = 0
  <2> DEFINE e == Top.want
             q == Top.entry + 1
  <2>1. Arrive(e, q, TRUE, FALSE)
    OBVIOUS
  <2> HIDE DEF e, q
  <2>2. e > 0 =>
          /\ cpu' = [eip |-> e, sp |-> q + Last(calls).args, own |-> TRUE]
          /\ calls' = Front(calls)
          /\ back' = [at |-> e, want |-> Last(calls).want, own |-> TRUE,
                       drift |-> q - (Last(calls).entry + 1), tail |-> FALSE]
    BY <2>1, Zenon DEF Arrive
  <2>3. e > 0 /\ Last(calls) = Top
    BY <1>3 DEF e
  <2>4. e = Top.want /\ q = Top.entry + 1
    BY DEF e, q
  <2>5. /\ cpu' = [eip |-> e, sp |-> q + Top.args, own |-> TRUE]
        /\ back' = [at |-> e, want |-> Top.want, own |-> TRUE,
                     drift |-> q - (Top.entry + 1), tail |-> FALSE]
    BY <2>2, <2>3
  <2>6. /\ cpu'.eip = e /\ cpu'.sp = q + Top.args
        /\ cpu' \in [eip : {e}, sp : {q + Top.args}, own : BOOLEAN]
        /\ back'.at = e /\ back'.want = Top.want /\ back'.own = TRUE
        /\ back'.drift = q - (Top.entry + 1)
    BY <2>5
  <2>7. sp = q + Top.args
    BY <2>4, Zenon
  <2> HIDE DEF sp
  <2>8. calls' = SubSeq(calls, 1, Depth - 1)
    BY <1>3, <2>2, <2>3
  <2>9. back'.drift = 0
    <3>1. q - (Top.entry + 1) = 0
      BY <1>2, <2>4
    <3> QED BY <2>6, <3>1
  <2> QED BY <2>4, <2>6, <2>7, <2>8, <2>9, Zenon
<1>5. /\ Chain(calls') /\ mem' \in [0 .. Words -> Int] /\ AllIntact(calls', mem')
      /\ Len(calls') = Depth - 1 /\ calls' # <<>>
      /\ calls'[Depth - 1] = calls[Depth - 1]
  <2>1. Depth - 1 \in 0 .. Depth /\ Depth - 1 > 0 /\ Depth - 1 \in 1 .. Depth - 1
    BY <1>1, <1>2
  <2> QED BY <1>4, <2>1, PopStep
<1>6. sp \in 0 .. Words /\ sp <= calls[Depth - 1].entry
  BY <1>1, <1>2, Sizes
<1>7. cpu'.eip = Depth - 1 /\ cpu'.sp = sp
  BY <1>1, <1>4
<1>8. cpu' \in [eip : Int, sp : 0 .. Words, own : BOOLEAN]
  BY <1>1, <1>2, <1>4, <1>6
<1>9. Running(calls', cpu')
  BY <1>1, <1>5, <1>6, <1>7 DEF Running
<1>10. Control(calls', cpu')
  BY <1>8, <1>9, Zenon DEF Control
<1>11. cpu'.eip # RESUME
  BY <1>1, <1>2, <1>7, Codes
<1>12. Delivered'
  BY <1>2, <1>4 DEF Delivered
<1> QED
  BY <1>1, <1>4, <1>5, <1>10, <1>11, <1>12

(* Guest code is entered at the top of the activations.                    *)
LEMMA EnterControl ==
  ASSUME NEW cs, NEW a \in Activations, cs # <<>>, NEW n \in Nat, Len(cs) = n + 1,
         cs[Len(cs)] = a, a.kind # "import",
         NEW c, c = [eip |-> n + 1, sp |-> a.entry, own |-> FALSE]
  PROVE  Control(cs, c) /\ c.eip # RESUME
<1>1. a.entry \in 0 .. Words
  BY DEF Activations
<1>2. c \in [eip : Int, sp : 0 .. Words, own : BOOLEAN] /\ c.eip = n + 1 /\ c.sp = a.entry
  BY <1>1
<1>3. Running(cs, c)
  BY <1>1, <1>2, Sizes DEF Running
<1>4. c.eip # RESUME
  BY <1>2, Codes
<1> QED
  BY <1>2, <1>3, <1>4, Zenon DEF Control

(* Frames of resume_ stay where they are while the waiting calls do.       *)
LEMMA SameContinuations ==
  ASSUME SpliceInv, UNCHANGED <<resume, dead>>,
         Waiting(calls', cpu'.eip) = Waiting(calls, cpu.eip),
         \A i \in Waiting(calls, cpu.eip) : calls'[i] = calls[i]
  PROVE  Stacked(Waiting(calls', cpu'.eip), calls', resume', dead')
<1>1. Stacked(Waiting(calls, cpu.eip), calls, resume, dead)
  BY DEF SpliceInv
<1> DEFINE W == Waiting(calls, cpu.eip)
<1>2. \A i \in W : Continuation(calls'[i]) = Continuation(calls[i])
  BY Zenon DEF Continuation
<1> HIDE DEF W
<1>3. Stacked(W, calls', resume, dead)
  BY <1>1, <1>2, KeepContinuations, Zenon DEF W
<1> QED
  BY <1>3, Zenon DEF W

LEMMA HostCallStep ==
  ASSUME SpliceInv, HostCall
  PROVE  SpliceInv'
<1> DEFINE a == Activation("guest", Words - 1, 0, STOP)
<1>1. /\ cpu.eip = STOP /\ made < HostCalls /\ made' = made + 1
      /\ mem' = Pushed(Words, 0, STOP)
      /\ cpu' = [eip |-> 1, sp |-> Words - 1, own |-> FALSE]
      /\ calls' = <<a>> /\ UNCHANGED <<resume, back, dead>>
  BY DEF HostCall
<1>2. calls = <<>> /\ mem \in [0 .. Words -> Int]
  BY <1>1, Where DEF AtRest, SpliceInv
<1>3. a = [kind |-> "guest", entry |-> Words - 1, args |-> 0, want |-> STOP]
  BY DEF Activation
<1> HIDE DEF a
<1>4. /\ Chain(calls') /\ Len(calls') = 1 /\ calls'[1] = a /\ calls' # <<>>
  BY <1>1, <1>3, FirstChain
<1>5. mem' = Under(mem, Words, 0, STOP)
  BY <1>1, PushedIsUnder
<1>6. IsRoom(mem, Words, 0, STOP)
  BY <1>2, Sizes, Codes DEF IsRoom
<1>7. IsPushed(mem', mem, Words, 0, STOP)
  BY <1>5, <1>6, FrameIsPushed, Zenon
<1>8. mem' \in [0 .. Words -> Int] /\ mem'[Words - 1] = STOP
  BY <1>7, Sizes DEF IsPushed
<1>9. AllIntact(calls', mem')
  BY <1>3, <1>4, <1>8 DEF AllIntact, Intact
<1>10. Control(calls', cpu') /\ cpu'.eip = 1
  <2>1. cpu'.eip = 1 /\ cpu'.sp = Words - 1
        /\ cpu' \in [eip : Int, sp : 0 .. Words, own : BOOLEAN]
    BY <1>1, Sizes
  <2>2. Running(calls', cpu')
    BY <2>1, <1>3, <1>4, Sizes DEF Running
  <2> QED BY <2>1, <2>2, Zenon DEF Control
<1>11. Waiting(calls, cpu.eip) = {}
  <2>1. Len(calls) = 0
    BY <1>2, EmptySeq
  <2>2. 1 .. Len(calls) = {}
    BY <2>1
  <2> QED BY <2>2, Zenon DEF Waiting
<1>12. Waiting(calls', cpu'.eip) = {}
  <2>1. \A i \in 1 .. Len(calls') : calls'[i].kind # "import"
    BY <1>3, <1>4
  <2> QED BY <2>1, Zenon DEF Waiting, Waits
<1>13. Stacked(Waiting(calls', cpu'.eip), calls', resume', dead')
  BY <1>1, <1>11, <1>12, SameContinuations
<1>14. made' \in 0 .. HostCalls
  BY <1>1, Sizes DEF SpliceInv
<1>15. Delivered'
  BY <1>1 DEF SpliceInv, Delivered
<1> QED
  BY <1>4, <1>8, <1>9, <1>10, <1>13, <1>14, <1>15, Zenon DEF SpliceInv

(* A push that is not of a spliced function to be resumed.                 *)
LEMMA ContinuationsAfterPush ==
  ASSUME SpliceInv, NEW a, Fits(calls, a), a.kind # "then",
         calls' = Append(calls, a), cpu.eip # RESUME, cpu'.eip # RESUME,
         UNCHANGED <<resume, dead>>
  PROVE  Stacked(Waiting(calls', cpu'.eip), calls', resume', dead')
<1>1. Chain(calls) /\ calls \in Seq(Activations) /\ a \in Activations
  BY DEF SpliceInv, Chain, Fits
<1>2. Waiting(Append(calls, a), cpu'.eip) = Waiting(calls, cpu.eip)
  <2>1. Elsewhere(cpu.eip) /\ Elsewhere(cpu'.eip) /\ ~Spliced(a)
    BY DEF Elsewhere, Spliced
  <2> QED BY <1>1, <2>1, WaitingAfterPush, Zenon
<1>3. Waiting(calls', cpu'.eip) = Waiting(calls, cpu.eip)
  BY <1>2
<1>4. \A i \in Waiting(calls, cpu.eip) : calls'[i] = calls[i]
  BY <1>1, WaitingIsFinite, AppendIs
<1> QED
  BY <1>3, <1>4, SameContinuations

LEMMA CallImportStep ==
  ASSUME SpliceInv, NEW n \in Args, CallImport(n)
  PROVE  SpliceInv'
<1> DEFINE a == Activation("import", FrameAt(cpu.sp, n), n, cpu.eip)
<1>1. /\ InGuest /\ FrameAt(cpu.sp, n) >= 0
      /\ mem' = Pushed(cpu.sp, n, cpu.eip)
      /\ cpu' = [cpu EXCEPT !.eip = TRAP, !.sp = FrameAt(cpu.sp, n), !.own = FALSE]
      /\ calls' = Append(calls, a) /\ UNCHANGED <<resume, back, made, dead>>
  BY DEF CallImport
<1>2. /\ calls # <<>> /\ cpu.eip = Depth /\ Top.kind # "import"
      /\ cpu.sp <= Top.entry
  BY <1>1, Where DEF Running, Depth, Top
<1>3. cpu \in [eip : Int, sp : 0 .. Words, own : BOOLEAN] /\ cpu.sp \in 0 .. Words
  BY DEF SpliceInv, Control
<1>4. Depth \in Nat /\ Depth > 0 /\ Top.entry \in 0 .. Words /\ n \in Nat
  BY <1>2, TopIs, Sizes
<1>5. /\ a.kind = "import" /\ a.entry = cpu.sp - n - 1 /\ a.args = n /\ a.want = Depth
      /\ a = [kind |-> "import", entry |-> cpu.sp - n - 1, args |-> n, want |-> Depth]
  BY <1>2 DEF Activation, FrameAt
<1> HIDE DEF a
<1>6. cpu.sp - n - 1 \in 0 .. Words
  BY <1>1, <1>3, <1>4, Sizes DEF FrameAt
<1>7. a \in Activations
  BY <1>4, <1>5, <1>6 DEF Activations, Kinds
<1>8. Fits(calls, a)
  <2>1. a.entry + a.args + 1 <= Top.entry
    BY <1>2, <1>3, <1>4, <1>5
  <2> QED BY <1>2, <1>5, <1>7, <2>1, Zenon DEF Fits, Top, Depth
<1>9. /\ Chain(calls') /\ mem' \in [0 .. Words -> Int] /\ AllIntact(calls', mem')
      /\ calls' # <<>> /\ Len(calls') = Depth + 1 /\ calls'[Len(calls')] = a
  <2>1. mem' = Pushed(cpu.sp, a.args, a.want) /\ a.entry = cpu.sp - a.args - 1
    BY <1>1, <1>2, <1>5
  <2> QED BY <1>1, <1>2, <1>3, <1>8, <2>1, PushStep
<1>10. Control(calls', cpu') /\ cpu'.eip = TRAP
  <2>1. cpu'.eip = TRAP /\ cpu'.sp = cpu.sp - n - 1
        /\ cpu' \in [eip : Int, sp : 0 .. Words, own : BOOLEAN]
    <3>1. FrameAt(cpu.sp, n) = cpu.sp - n - 1 /\ TRAP \in Int
      BY Codes DEF FrameAt
    <3>2. cpu' = [cpu EXCEPT !.eip = TRAP, !.sp = cpu.sp - n - 1, !.own = FALSE]
      BY <1>1, <3>1, Zenon
    <3> QED BY <1>3, <1>6, <3>1, <3>2
  <2>2. Trapped(calls', cpu')
    BY <2>1, <1>5, <1>9 DEF Trapped
  <2> QED BY <2>1, <2>2, Zenon DEF Control
<1>11. Stacked(Waiting(calls', cpu'.eip), calls', resume', dead')
  <2>1. cpu.eip # RESUME /\ cpu'.eip # RESUME /\ a.kind # "then"
    BY <1>2, <1>4, <1>5, <1>10, Codes
  <2> QED BY <1>1, <1>8, <2>1, ContinuationsAfterPush
<1>12. Delivered' /\ made' \in 0 .. HostCalls
  BY <1>1 DEF SpliceInv, Delivered
<1> QED
  BY <1>9, <1>10, <1>11, <1>12, Zenon DEF SpliceInv

(* A handler returns: by hand, or through the stub.                        *)
LEMMA TrapReturns ==
  ASSUME SpliceInv, InTrap \/ cpu.eip = STUB,
         Arrive(mem[cpu.sp], cpu.sp + 1, TRUE, FALSE),
         UNCHANGED <<mem, resume, made, dead>>
  PROVE  SpliceInv'
<1>1. Trapped(calls, cpu)
  BY Where
<1>2. calls # <<>> /\ Top.kind = "import" /\ cpu.sp = Top.entry
  BY <1>1 DEF Trapped, Top
<1>3. mem[cpu.sp] = Top.want
  BY <1>2, TopIs
<1>4. Arrive(Top.want, Top.entry + 1, TRUE, FALSE)
  BY <1>2, <1>3, Zenon
<1>5. /\ calls' = SubSeq(calls, 1, Depth - 1) /\ Depth - 1 \in 1 .. Depth
      /\ Chain(calls') /\ mem' \in [0 .. Words -> Int] /\ AllIntact(calls', mem')
      /\ Control(calls', cpu') /\ cpu'.eip # RESUME
      /\ Delivered'
  BY <1>2, <1>4, ArriveStep
<1>6. PopsTo(calls, Depth - 1, cpu'.eip)
  <2>1. calls[Depth - 1].kind # "import"
    BY <1>2, CallerIs
  <2>2. Depth - 1 \in 0 .. Len(calls) - 1 /\ (Depth - 1) + 1 .. Len(calls) - 1 = {}
    BY <1>5, Where DEF Depth
  <2> QED BY <2>1, <2>2, Zenon DEF PopsTo
<1>7. Waiting(calls', cpu'.eip) = Waiting(calls, cpu.eip)
  <2>1. Elsewhere(cpu.eip) /\ Chain(calls)
    BY Codes DEF InTrap, SpliceInv, Elsewhere
  <2> DEFINE k == Depth - 1
             f == cpu'.eip
  <2>3. PopsTo(calls, k, f)
    BY <1>6
  <2> HIDE DEF k, f
  <2>4. Waiting(SubSeq(calls, 1, k), f) = Waiting(calls, cpu.eip)
    BY <2>1, <2>3, WaitingAfterPop
  <2>2. Waiting(SubSeq(calls, 1, Depth - 1), cpu'.eip) = Waiting(calls, cpu.eip)
    BY <2>4 DEF k, f
  <2> QED BY <1>5, <2>2
<1>8. \A i \in Waiting(calls, cpu.eip) : calls'[i] = calls[i]
  <2>1. Depth - 1 \in 0 .. Depth
    BY <1>5, Where
  <2>2. Len(calls') = Depth - 1 /\ \A i \in 1 .. Depth - 1 : calls'[i] = calls[i]
    BY <1>5, <2>1, PopStep
  <2>3. calls' \in Seq(Activations)
    BY <1>5 DEF Chain
  <2>4. \A i \in Waiting(calls', cpu'.eip) : i \in 1 .. Depth - 1
    BY <2>2, <2>3, WaitingIsFinite
  <2> QED BY <1>7, <2>2, <2>4
<1>9. Stacked(Waiting(calls', cpu'.eip), calls', resume', dead')
  BY <1>7, <1>8, SameContinuations
<1>10. made' \in 0 .. HostCalls
  BY DEF SpliceInv
<1> QED
  BY <1>5, <1>9, <1>10, Zenon DEF SpliceInv

LEMMA HandlerReturnsDoubleStep ==
  ASSUME SpliceInv, HandlerReturnsDouble
  PROVE  SpliceInv'
<1>1. /\ cpu' = [cpu EXCEPT !.eip = STUB]
      /\ UNCHANGED <<mem, resume, calls, back, made, dead>>
  BY DEF HandlerReturnsDouble
<1>2. Trapped(calls, cpu) /\ cpu \in [eip : Int, sp : 0 .. Words, own : BOOLEAN]
  BY Where DEF HandlerReturnsDouble, SpliceInv, Control
<1>3. /\ cpu'.eip = STUB /\ cpu'.sp = cpu.sp
      /\ cpu' \in [eip : Int, sp : 0 .. Words, own : BOOLEAN]
  BY <1>1, <1>2, Codes
<1>4. Control(calls', cpu')
  <2>1. Trapped(calls', cpu')
    BY <1>1, <1>2, <1>3, Zenon DEF Trapped
  <2> QED BY <1>3, <2>1, Zenon DEF Control
<1>5. Waiting(calls', cpu'.eip) = Waiting(calls, cpu.eip)
  <2>1. cpu.eip # RESUME /\ cpu'.eip # RESUME
    BY <1>3, Codes DEF HandlerReturnsDouble, InTrap
  <2> QED BY <1>1, <2>1, Zenon DEF Waiting, Waits
<1>6. Stacked(Waiting(calls', cpu'.eip), calls', resume', dead')
  BY <1>1, <1>5, SameContinuations
<1>7. /\ Chain(calls') /\ mem' \in [0 .. Words -> Int] /\ AllIntact(calls', mem')
      /\ Delivered' /\ made' \in 0 .. HostCalls
  BY <1>1 DEF SpliceInv, Delivered
<1> QED
  BY <1>4, <1>6, <1>7, Zenon DEF SpliceInv

(* The host call is over.                                                  *)
LEMMA CallEnds ==
  ASSUME SpliceInv, calls' = <<>>, UNCHANGED mem,
         cpu' = [eip |-> STOP, sp |-> Words, own |-> FALSE]
  PROVE  /\ Chain(calls') /\ AllIntact(calls', mem') /\ mem' \in [0 .. Words -> Int]
         /\ Control(calls', cpu') /\ Waiting(calls', cpu'.eip) = {}
<1>1. Len(calls') = 0 /\ calls' \in Seq(Activations)
  BY EmptySeq
<1>2. 1 .. Len(calls') = {}
  BY <1>1
<1>3. Chain(calls') /\ AllIntact(calls', mem')
  BY <1>1, <1>2, Zenon DEF Chain, WellNested, AllIntact
<1>4. Control(calls', cpu')
  <2>1. cpu'.eip = STOP /\ cpu' \in [eip : Int, sp : 0 .. Words, own : BOOLEAN]
    BY Codes, Sizes
  <2> QED BY <2>1, Zenon DEF Control, AtRest
<1>5. Waiting(calls', cpu'.eip) = {}
  BY <1>2, Zenon DEF Waiting
<1> QED
  BY <1>3, <1>4, <1>5 DEF SpliceInv

LEMMA HandlerStopsStep ==
  ASSUME SpliceInv, HandlerStops
  PROVE  SpliceInv'
<1>1. /\ cpu' = [eip |-> STOP, sp |-> Words, own |-> FALSE]
      /\ calls' = <<>> /\ dead' = Len(resume)
      /\ UNCHANGED <<mem, resume, back, made>>
  BY DEF HandlerStops
<1>2. /\ Chain(calls') /\ AllIntact(calls', mem') /\ mem' \in [0 .. Words -> Int]
      /\ Control(calls', cpu') /\ Waiting(calls', cpu'.eip) = {}
  BY <1>1, CallEnds
<1>3. Stacked(Waiting(calls', cpu'.eip), calls', resume', dead')
  <2>1. resume' \in Seq(Continuations) /\ Len(resume') \in Nat /\ dead' = Len(resume')
    BY <1>1, LenProperties DEF SpliceInv, Stacked
  <2>2. Cardinality({}) = 0
    BY FS_EmptySet
  <2> QED BY <1>2, <2>1, <2>2 DEF Stacked
<1>4. Delivered' /\ made' \in 0 .. HostCalls
  BY <1>1 DEF SpliceInv, Delivered
<1> QED
  BY <1>2, <1>3, <1>4, Zenon DEF SpliceInv

(* A handler enters a spliced function at a frame below the trap's own.    *)
LEMMA SpliceStep ==
  ASSUME SpliceInv, calls # <<>>, Top.kind = "import",
         NEW kind, NEW n, n \in Nat, NEW ret,
         \/ kind = "tail" /\ ret = Top.want
         \/ kind = "tick" /\ ret = TRAP /\ n = 0
         \/ kind = "then" /\ ret = RESUME,
         FrameAt(Top.entry, n) >= 0,
         mem' = Pushed(Top.entry, n, ret),
         EnterGuest(kind, FrameAt(Top.entry, n), n, ret)
  PROVE  /\ Fits(calls, Activation(kind, FrameAt(Top.entry, n), n, ret))
         /\ calls' = Append(calls, Activation(kind, FrameAt(Top.entry, n), n, ret))
         /\ Chain(calls') /\ mem' \in [0 .. Words -> Int] /\ AllIntact(calls', mem')
         /\ Control(calls', cpu') /\ cpu'.eip # RESUME
<1> DEFINE a == Activation(kind, FrameAt(Top.entry, n), n, ret)
<1>1. /\ cpu' = [eip |-> Depth + 1, sp |-> FrameAt(Top.entry, n), own |-> FALSE]
      /\ calls' = Append(calls, a)
  BY DEF EnterGuest, Depth
<1>2. /\ Depth \in Nat /\ Top.entry \in 0 .. Words /\ Top.want \in Int
  BY TopIs
<1>3. /\ a.kind = kind /\ a.entry = Top.entry - n - 1 /\ a.args = n /\ a.want = ret
      /\ a = [kind |-> kind, entry |-> Top.entry - n - 1, args |-> n, want |-> ret]
      /\ FrameAt(Top.entry, n) = a.entry
  BY DEF Activation, FrameAt
<1> HIDE DEF a
<1>4. Top.entry - n - 1 \in 0 .. Words
  BY <1>2, <1>3, Sizes
<1>5. ret \in Int /\ kind \in {"tail", "tick", "then"}
  BY <1>2, Codes
<1>6. a \in Activations
  BY <1>3, <1>4, <1>5 DEF Activations, Kinds
<1>7. Fits(calls, a)
  <2>1. a.entry + a.args + 1 <= Top.entry
    BY <1>2, <1>3
  <2>2. n = 0 => a.entry = Top.entry - 1
    BY <1>2, <1>3
  <2> QED BY <1>3, <1>6, <2>1, <2>2, Zenon DEF Fits, Top
<1>8. /\ Chain(calls') /\ mem' \in [0 .. Words -> Int] /\ AllIntact(calls', mem')
      /\ calls' # <<>> /\ Len(calls') = Depth + 1 /\ calls'[Len(calls')] = a
  <2> DEFINE sp == Top.entry
  <2>1. sp \in 0 .. Words /\ sp <= Top.entry /\ a.entry = sp - a.args - 1
    BY <1>2, <1>3
  <2>2. mem' = Pushed(sp, a.args, a.want)
    BY <1>3
  <2> HIDE DEF sp
  <2> QED BY <1>1, <1>7, <2>1, <2>2, PushStep
<1>9. Control(calls', cpu') /\ cpu'.eip # RESUME
  <2>1. a.kind # "import" /\ cpu' = [eip |-> Depth + 1, sp |-> a.entry, own |-> FALSE]
    BY <1>1, <1>3, <1>5
  <2> QED BY <1>2, <1>6, <1>8, <2>1, EnterControl
<1> QED
  BY <1>1, <1>7, <1>8, <1>9 DEF a

LEMMA HandlerTailsStep ==
  ASSUME SpliceInv, HandlerTails
  PROVE  SpliceInv'
<1>1. Trapped(calls, cpu)
  BY Where DEF HandlerTails
<1>2. calls # <<>> /\ Top.kind = "import" /\ cpu.sp = Top.entry /\ mem[cpu.sp] = Top.want
  BY <1>1, TopIs DEF Trapped, Top
<1>3. /\ FrameAt(Top.entry, 1) >= 0
      /\ mem' = Pushed(Top.entry, 1, Top.want)
      /\ EnterGuest("tail", FrameAt(Top.entry, 1), 1, Top.want)
      /\ UNCHANGED <<resume, back, made, dead>>
  BY <1>2, Zenon DEF HandlerTails
<1> DEFINE a == Activation("tail", FrameAt(Top.entry, 1), 1, Top.want)
<1>4. /\ Fits(calls, a) /\ calls' = Append(calls, a)
      /\ Chain(calls') /\ mem' \in [0 .. Words -> Int] /\ AllIntact(calls', mem')
      /\ Control(calls', cpu') /\ cpu'.eip # RESUME
  BY <1>2, <1>3, SpliceStep
<1>5. Stacked(Waiting(calls', cpu'.eip), calls', resume', dead')
  <2>1. cpu.eip # RESUME /\ a.kind # "then"
    BY Codes DEF HandlerTails, InTrap, Activation
  <2> HIDE DEF a
  <2> QED BY <1>3, <1>4, <2>1, ContinuationsAfterPush
<1>6. Delivered' /\ made' \in 0 .. HostCalls
  BY <1>3 DEF SpliceInv, Delivered
<1> QED
  BY <1>4, <1>5, <1>6, Zenon DEF SpliceInv

LEMMA HandlerTicksStep ==
  ASSUME SpliceInv, HandlerTicks
  PROVE  SpliceInv'
<1>1. Trapped(calls, cpu)
  BY Where DEF HandlerTicks
<1>2. calls # <<>> /\ Top.kind = "import" /\ cpu.sp = Top.entry
  BY <1>1 DEF Trapped, Top
<1>3. /\ FrameAt(Top.entry, 0) >= 0
      /\ mem' = Pushed(Top.entry, 0, TRAP)
      /\ EnterGuest("tick", FrameAt(Top.entry, 0), 0, TRAP)
      /\ UNCHANGED <<resume, back, made, dead>>
  BY <1>2, Zenon DEF HandlerTicks
<1> DEFINE a == Activation("tick", FrameAt(Top.entry, 0), 0, TRAP)
<1>4. /\ Fits(calls, a) /\ calls' = Append(calls, a)
      /\ Chain(calls') /\ mem' \in [0 .. Words -> Int] /\ AllIntact(calls', mem')
      /\ Control(calls', cpu') /\ cpu'.eip # RESUME
  BY <1>2, <1>3, SpliceStep
<1>5. Stacked(Waiting(calls', cpu'.eip), calls', resume', dead')
  <2>1. cpu.eip # RESUME /\ a.kind # "then"
    BY Codes DEF HandlerTicks, InTrap, Activation
  <2> HIDE DEF a
  <2> QED BY <1>3, <1>4, <2>1, ContinuationsAfterPush
<1>6. Delivered' /\ made' \in 0 .. HostCalls
  BY <1>3 DEF SpliceInv, Delivered
<1> QED
  BY <1>4, <1>5, <1>6, Zenon DEF SpliceInv

(* The continuation that finishes the import on top.                       *)
LEMMA TopContinuation ==
  ASSUME SpliceInv, calls # <<>>, Top.kind = "import"
  PROVE  /\ Continuation(calls[Depth]) = [outer |-> Top.entry, ret |-> Top.want]
         /\ Continuation(calls[Depth]) \in Continuations
<1>1. Top.entry \in 0 .. Words /\ Depth \in Nat /\ Depth <= Words
  BY TopIs
<1>2. Top.want = Depth - 1 /\ Depth - 1 \in 1 .. Depth
  BY CallerIs
<1>3. Top.want \in 1 .. Words
  BY <1>1, <1>2, Sizes
<1> QED
  BY <1>1, <1>3 DEF Continuation, Continuations, Top, Depth

LEMMA HandlerCallsStep ==
  ASSUME SpliceInv, NEW n \in Args, HandlerCalls(n)
  PROVE  SpliceInv'
<1>1. Trapped(calls, cpu)
  BY Where DEF HandlerCalls
<1>2. calls # <<>> /\ Top.kind = "import" /\ cpu.sp = Top.entry /\ mem[cpu.sp] = Top.want
  BY <1>1, TopIs DEF Trapped, Top
<1>3. /\ FrameAt(Top.entry, n) >= 0
      /\ mem' = Pushed(Top.entry, n, RESUME)
      /\ resume' = Append(resume, [outer |-> Top.entry, ret |-> Top.want])
      /\ EnterGuest("then", FrameAt(Top.entry, n), n, RESUME)
      /\ UNCHANGED <<back, made, dead>>
  BY <1>2, Zenon DEF HandlerCalls, CallGuestThen
<1> DEFINE a == Activation("then", FrameAt(Top.entry, n), n, RESUME)
<1>4. n \in Nat
  BY Sizes
<1>5. /\ Fits(calls, a) /\ calls' = Append(calls, a)
      /\ Chain(calls') /\ mem' \in [0 .. Words -> Int] /\ AllIntact(calls', mem')
      /\ Control(calls', cpu') /\ cpu'.eip # RESUME
  BY <1>2, <1>3, <1>4, SpliceStep
<1>6. Spliced(a)
  BY DEF Spliced, Activation
<1>7. /\ Chain(calls) /\ calls \in Seq(Activations) /\ a \in Activations
      /\ Depth \in Nat /\ Depth > 0
  BY <1>2, <1>5, TopIs DEF SpliceInv, Chain, Fits
<1> HIDE DEF a
<1> DEFINE W == Waiting(calls, cpu.eip)
<1>8. Waiting(calls', cpu'.eip) = W \cup {Depth}
  <2>1. Elsewhere(cpu'.eip)
    BY <1>5 DEF Elsewhere
  <2>2. Waiting(Append(calls, a), cpu'.eip) = W \cup {Len(calls)}
    BY <1>5, <1>6, <1>7, <2>1, WaitingAfterPush
  <2> QED BY <1>5, <2>2 DEF Depth
<1>9. \A i \in W : i < Depth
  <2>1. cpu.eip # RESUME
    BY Codes DEF HandlerCalls, InTrap
  <2>2. ~Waits(calls, cpu.eip, Depth)
    BY <1>7, <2>1 DEF Waits, Depth
  <2>3. \A i \in W : i \in 1 .. Depth /\ i # Depth
    BY <1>7, <2>2, WaitingIsFinite, Zenon DEF Depth
  <2> QED BY <1>7, <2>3
<1>10. \A i \in 1 .. Depth : calls'[i] = calls[i]
  BY <1>5, <1>7, AppendIs DEF Depth
<1>11. /\ FiniteInts(W) /\ Stacked(W, calls, resume, dead)
       /\ \A i \in W : Continuation(calls'[i]) = Continuation(calls[i])
  BY <1>7, <1>10, WaitingIsFinite DEF SpliceInv, Depth
<1>12. /\ Continuation(calls'[Depth]) = [outer |-> Top.entry, ret |-> Top.want]
       /\ Continuation(calls'[Depth]) \in Continuations
  BY <1>2, <1>7, <1>10, TopContinuation
<1> HIDE DEF W
<1>13. Stacked(W \cup {Depth}, calls', Append(resume, Continuation(calls'[Depth])), dead)
  <2>1. Joins(W, calls, Depth, calls')
    BY <1>7, <1>9, <1>11, <1>12 DEF Joins
  <2> QED BY <1>11, <2>1, PushContinuation, Zenon
<1>14. Stacked(Waiting(calls', cpu'.eip), calls', resume', dead')
  BY <1>3, <1>8, <1>12, <1>13
<1>15. Delivered' /\ made' \in 0 .. HostCalls
  BY <1>3 DEF SpliceInv, Delivered
<1> QED
  BY <1>5, <1>14, <1>15, Zenon DEF SpliceInv

(* At the resume trap the pending continuation is that of the import on    *)
(* top.                                                                    *)
LEMMA ResumeIs ==
  ASSUME SpliceInv, InResume
  PROVE  /\ calls # <<>> /\ Top.kind = "import"
         /\ Depth \in Nat /\ Depth > 0
         /\ Pending = [outer |-> Top.entry, ret |-> Top.want]
         /\ FiniteInts(Waiting(calls, cpu.eip) \ {Depth})
         /\ \A i \in Waiting(calls, cpu.eip) \ {Depth} : i \in 1 .. Depth - 1
         /\ Depth \in Waiting(calls, cpu.eip)
         /\ \A t : (\A i \in 1 .. Depth - 1 : t[i] = calls[i]) =>
              Stacked(Waiting(calls, cpu.eip) \ {Depth}, t, Popped, dead)
<1>1. Resuming(calls, cpu)
  BY Where
<1>2. calls # <<>> /\ Top.kind = "import" /\ cpu.eip = RESUME
  BY <1>1 DEF Resuming, Top
<1>3. Depth \in Nat /\ Depth > 0 /\ calls \in Seq(Activations)
  BY <1>2, TopIs DEF SpliceInv, Chain
<1> DEFINE W == Waiting(calls, cpu.eip)
<1>4. Depth \in W
  <2>1. Depth \in 1 .. Len(calls)
    BY <1>3 DEF Depth
  <2> QED BY <1>2, <2>1 DEF Waiting, Waits, Top, Depth
<1>5. FiniteInts(W) /\ \A i \in W : i \in 1 .. Depth
  BY <1>3, WaitingIsFinite DEF Depth
<1>6. Stacked(W, calls, resume, dead)
  BY DEF SpliceInv
<1> HIDE DEF W
<1>7. \A i \in W : i <= Depth
  BY <1>3, <1>5
<1>8. \A i \in W \ {Depth} : i \in 1 .. Depth - 1
  BY <1>3, <1>5
<1>9. ASSUME NEW t, \A i \in 1 .. Depth - 1 : t[i] = calls[i]
      PROVE  /\ Last(resume) = Continuation(calls[Depth])
             /\ FiniteInts(W \ {Depth})
             /\ Stacked(W \ {Depth}, t, Front(resume), dead)
  <2>1. \A i \in W \ {Depth} : Continuation(t[i]) = Continuation(calls[i])
    BY <1>8, <1>9
  <2> QED BY <1>4, <1>5, <1>6, <1>7, <2>1, PopContinuation
<1>10. Pending = [outer |-> Top.entry, ret |-> Top.want] /\ FiniteInts(W \ {Depth})
  BY <1>2, <1>9, TopContinuation DEF Pending
<1> QED
  BY <1>2, <1>3, <1>4, <1>8, <1>9, <1>10 DEF Popped, W

LEMMA ResumeReturnsStep ==
  ASSUME SpliceInv, ResumeReturns
  PROVE  SpliceInv'
<1>1. /\ calls # <<>> /\ Top.kind = "import"
      /\ Depth \in Nat /\ Depth > 0
      /\ Pending = [outer |-> Top.entry, ret |-> Top.want]
      /\ \A t : (\A i \in 1 .. Depth - 1 : t[i] = calls[i]) =>
           Stacked(Waiting(calls, cpu.eip) \ {Depth}, t, Popped, dead)
  BY ResumeIs DEF ResumeReturns
<1>2. /\ Arrive(Pending.ret, Pending.outer + 1, TRUE, FALSE)
      /\ resume' = Popped /\ UNCHANGED <<mem, made, dead>>
  BY Zenon DEF ResumeReturns
<1>3. Pending.ret = Top.want /\ Pending.outer = Top.entry
  BY <1>1
<1>4. Arrive(Top.want, Top.entry + 1, TRUE, FALSE)
  BY <1>2, <1>3, Zenon
<1>5. /\ calls' = SubSeq(calls, 1, Depth - 1) /\ Depth - 1 \in 1 .. Depth
      /\ Chain(calls') /\ mem' \in [0 .. Words -> Int] /\ AllIntact(calls', mem')
      /\ Control(calls', cpu') /\ cpu'.eip # RESUME
      /\ Delivered'
  BY <1>1, <1>2, <1>4, ArriveStep
<1>6. PopsTo(calls, Depth - 1, cpu'.eip)
  <2>1. calls[Depth - 1].kind # "import"
    BY <1>1, CallerIs
  <2>2. Depth - 1 \in 0 .. Len(calls) - 1 /\ (Depth - 1) + 1 .. Len(calls) - 1 = {}
    BY <1>1, <1>5 DEF Depth
  <2> QED BY <2>1, <2>2, Zenon DEF PopsTo
<1>7. Waiting(calls', cpu'.eip) = Waiting(calls, cpu.eip) \ {Depth}
  <2>1. ~Elsewhere(cpu.eip) /\ Chain(calls)
    BY DEF ResumeReturns, InResume, SpliceInv, Elsewhere
  <2> DEFINE k == Depth - 1
             f == cpu'.eip
  <2>3. PopsTo(calls, k, f)
    BY <1>6
  <2> HIDE DEF k, f
  <2>4. Waiting(SubSeq(calls, 1, k), f) = Waiting(calls, cpu.eip) \ {Len(calls)}
    BY <2>1, <2>3, WaitingAfterPop
  <2> QED BY <1>5, <2>4 DEF k, f, Depth
<1>8. \A i \in 1 .. Depth - 1 : calls'[i] = calls[i]
  <2>1. Depth - 1 \in 0 .. Depth
    BY <1>1
  <2> QED BY <1>2, <1>5, <2>1, PopStep
<1>9. Stacked(Waiting(calls', cpu'.eip), calls', resume', dead')
  BY <1>1, <1>2, <1>7, <1>8
<1>10. made' \in 0 .. HostCalls
  BY <1>2 DEF SpliceInv
<1> QED
  BY <1>5, <1>9, <1>10, Zenon DEF SpliceInv

LEMMA ResumeChainsStep ==
  ASSUME SpliceInv, NEW n \in Args, ResumeChains(n)
  PROVE  SpliceInv'
<1> DEFINE W == Waiting(calls, cpu.eip)
<1>1. /\ calls # <<>> /\ Top.kind = "import"
      /\ Depth \in Nat /\ Depth > 0
      /\ Pending = [outer |-> Top.entry, ret |-> Top.want]
      /\ FiniteInts(W \ {Depth})
      /\ \A i \in W \ {Depth} : i \in 1 .. Depth - 1
      /\ Depth \in W
      /\ Stacked(W \ {Depth}, calls, Popped, dead)
  BY ResumeIs DEF ResumeChains
<1>2. Pending.ret = Top.want /\ Pending.outer = Top.entry
  BY <1>1
<1>3. /\ FrameAt(Top.entry, n) >= 0
      /\ mem' = Pushed(Top.entry, n, RESUME)
      /\ resume' = Append(Popped, [outer |-> Top.entry, ret |-> Top.want])
      /\ EnterGuest("then", FrameAt(Top.entry, n), n, RESUME)
      /\ UNCHANGED <<back, made, dead>>
  <2>1. CallGuestThen(Pending.outer, Pending.ret, n, Popped) /\ UNCHANGED <<back, made, dead>>
    BY Zenon DEF ResumeChains
  <2>2. CallGuestThen(Top.entry, Top.want, n, Popped)
    BY <1>2, <2>1, Zenon
  <2> QED BY <2>1, <2>2, Zenon DEF CallGuestThen
<1> DEFINE a == Activation("then", FrameAt(Top.entry, n), n, RESUME)
<1>4. n \in Nat
  BY Sizes
<1>5. /\ Fits(calls, a) /\ calls' = Append(calls, a)
      /\ Chain(calls') /\ mem' \in [0 .. Words -> Int] /\ AllIntact(calls', mem')
      /\ Control(calls', cpu') /\ cpu'.eip # RESUME
  BY <1>1, <1>3, <1>4, SpliceStep
<1>6. Spliced(a)
  BY DEF Spliced, Activation
<1>7. Chain(calls) /\ calls \in Seq(Activations) /\ a \in Activations
  BY <1>5 DEF SpliceInv, Chain, Fits
<1> HIDE DEF a, W
<1>8. Waiting(calls', cpu'.eip) = W \cup {Depth}
  <2>1. Elsewhere(cpu'.eip)
    BY <1>5 DEF Elsewhere
  <2>2. Waiting(Append(calls, a), cpu'.eip) = W \cup {Len(calls)}
    BY <1>5, <1>6, <1>7, <2>1, WaitingAfterPush DEF W
  <2> QED BY <1>5, <2>2 DEF Depth
<1> DEFINE V == W \ {Depth}
<1>9. Waiting(calls', cpu'.eip) = V \cup {Depth}
  BY <1>8
<1>10. \A i \in 1 .. Depth : calls'[i] = calls[i]
  BY <1>5, <1>7, AppendIs DEF Depth
<1>11. /\ FiniteInts(V) /\ Stacked(V, calls, Popped, dead)
       /\ \A i \in V : i \in 1 .. Depth - 1
  BY <1>1
<1> HIDE DEF V
<1>12. \A i \in V : i < Depth /\ Continuation(calls'[i]) = Continuation(calls[i])
  <2>1. \A i \in V : i < Depth /\ i \in 1 .. Depth
    BY <1>1, <1>11
  <2> QED BY <1>10, <2>1
<1>13. /\ Continuation(calls'[Depth]) = [outer |-> Top.entry, ret |-> Top.want]
       /\ Continuation(calls'[Depth]) \in Continuations
  BY <1>1, <1>10, TopContinuation
<1>14. Stacked(V \cup {Depth}, calls', Append(Popped, Continuation(calls'[Depth])), dead)
  <2>1. Joins(V, calls, Depth, calls')
    BY <1>1, <1>12, <1>13 DEF Joins
  <2> QED BY <1>11, <2>1, PushContinuation, Zenon
<1>15. Stacked(Waiting(calls', cpu'.eip), calls', resume', dead')
  BY <1>3, <1>9, <1>13, <1>14
<1>16. Delivered' /\ made' \in 0 .. HostCalls
  BY <1>3 DEF SpliceInv, Delivered
<1> QED
  BY <1>5, <1>15, <1>16, Zenon DEF SpliceInv

(* The continuations after a pop that does not go through the resume trap. *)
LEMMA ContinuationsAfterPop ==
  ASSUME SpliceInv, NEW k \in 0 .. Depth, PopsTo(calls, k, cpu'.eip),
         calls' = SubSeq(calls, 1, k), UNCHANGED <<mem, resume, dead>>,
         cpu.eip # RESUME
  PROVE  Stacked(Waiting(calls', cpu'.eip), calls', resume', dead')
<1> DEFINE f == cpu'.eip
<1>1. Elsewhere(cpu.eip) /\ Chain(calls) /\ PopsTo(calls, k, f)
  BY DEF SpliceInv, Elsewhere
<1> HIDE DEF f
<1>2. Waiting(SubSeq(calls, 1, k), f) = Waiting(calls, cpu.eip)
  BY <1>1, WaitingAfterPop
<1>3. Waiting(calls', cpu'.eip) = Waiting(calls, cpu.eip)
  BY <1>2 DEF f
<1>4. Len(calls') = k /\ Chain(calls') /\ \A i \in 1 .. k : calls'[i] = calls[i]
  BY PopStep
<1>5. \A i \in Waiting(calls', cpu'.eip) : i \in 1 .. k
  BY <1>4, WaitingIsFinite DEF Chain
<1>6. \A i \in Waiting(calls, cpu.eip) : calls'[i] = calls[i]
  BY <1>3, <1>4, <1>5
<1> QED
  BY <1>3, <1>6, SameContinuations

LEMMA GuestReturnsStep ==
  ASSUME SpliceInv, GuestReturns
  PROVE  SpliceInv'
<1>1. Running(calls, cpu) /\ UNCHANGED <<mem, resume, made, dead>>
  BY Where DEF GuestReturns
<1>2. calls # <<>> /\ Top.kind # "import" /\ cpu.eip = Depth
  BY <1>1 DEF Running, Top, Depth
<1>3. /\ Depth \in Nat /\ Depth > 0 /\ Top.kind \in Kinds
      /\ Top.entry \in 0 .. Words /\ Top.args \in Nat
      /\ WellPlaced(calls, Depth) /\ mem[Top.entry] = Top.want
      /\ Top = calls[Depth] /\ Last(calls) = Top
  BY <1>2, TopIs DEF Top, Depth, Last
<1>4. cpu.eip # RESUME
  BY <1>2, <1>3, Codes
<1>5. made' \in 0 .. HostCalls
  BY <1>1 DEF SpliceInv
<1>6. CASE Top.kind = "guest"
  <2>1. Depth = 1 /\ Top.want = STOP
    BY <1>3, <1>6 DEF WellPlaced
  <2>2. /\ cpu' = [eip |-> STOP, sp |-> Words, own |-> FALSE]
        /\ calls' = <<>> /\ UNCHANGED back
    BY <1>3, <1>6, <2>1 DEF GuestReturns
  <2>3. /\ Chain(calls') /\ AllIntact(calls', mem') /\ mem' \in [0 .. Words -> Int]
        /\ Control(calls', cpu') /\ Waiting(calls', cpu'.eip) = {}
    BY <1>1, <2>2, CallEnds
  <2>4. Waiting(calls, cpu.eip) = {}
    <3>1. \A i \in 1 .. Len(calls) : calls[i].kind # "import"
      BY <1>3, <1>6, <2>1 DEF Depth
    <3> QED BY <3>1, Zenon DEF Waiting, Waits
  <2>5. Stacked(Waiting(calls', cpu'.eip), calls', resume', dead')
    BY <1>1, <2>3, <2>4, SameContinuations
  <2>6. Delivered'
    BY <2>2 DEF SpliceInv, Delivered
  <2> QED
    BY <1>5, <2>3, <2>5, <2>6, Zenon DEF SpliceInv
<1>7. CASE Top.kind = "tail"
  <2> DEFINE j == Depth - 1
             k == Depth - 2
             b == calls[j]
  <2>1. b.kind = "import" /\ Top.want = b.want /\ Depth # 1
    BY <1>3, <1>7 DEF WellPlaced
  <2>2. j \in 1 .. Depth
    BY <1>3, <2>1
  <2>3. /\ j - 1 \in 1 .. Depth /\ b.want = j - 1
        /\ calls[j - 1].kind # "import" /\ calls[j - 1].entry \in 0 .. Words
        /\ b.entry \in 0 .. Words /\ b.args \in Nat
        /\ b.entry + b.args + 1 <= calls[j - 1].entry
    BY <2>1, <2>2, CallerOf
  <2>4. k \in 1 .. Depth /\ j - 1 = k /\ b.want = k
    BY <1>3, <2>3
  <2>5. Top.entry + Top.args + 1 <= b.entry
    BY <1>2, <2>2, TopIsLowest, <1>3 DEF SpliceInv, Top, Depth
  <2>6. /\ cpu' = [eip |-> Top.want, sp |-> Top.entry + 1 + b.args, own |-> FALSE]
        /\ calls' = SubSeq(calls, 1, k)
        /\ back' = [at |-> Top.want, want |-> b.want, own |-> FALSE, tail |-> TRUE,
                     drift |-> Top.entry + 1 - (b.entry + 1)]
    BY <1>3, <1>7, Zenon DEF GuestReturns, Depth
  <2> HIDE DEF j, k, b
  <2>7. Top.entry + 1 + b.args \in 0 .. Words /\ Top.entry + 1 + b.args <= calls[k].entry
    BY <1>3, <2>3, <2>4, <2>5, Sizes
  <2>8. /\ Chain(calls') /\ mem' \in [0 .. Words -> Int] /\ AllIntact(calls', mem')
        /\ Len(calls') = k /\ calls'[k] = calls[k] /\ calls' # <<>>
    <3>1. k \in 0 .. Depth /\ k > 0 /\ k \in 1 .. k
      BY <1>3, <2>4
    <3> QED BY <1>1, <2>6, <3>1, PopStep
  <2>9. Control(calls', cpu')
    <3>1. /\ cpu'.eip = k /\ cpu'.sp = Top.entry + 1 + b.args
          /\ cpu' \in [eip : Int, sp : 0 .. Words, own : BOOLEAN]
      BY <2>1, <2>4, <2>6, <2>7
    <3>2. Running(calls', cpu')
      BY <2>3, <2>4, <2>7, <2>8, <3>1 DEF Running
    <3> QED BY <3>1, <3>2, Zenon DEF Control
  <2>10. Stacked(Waiting(calls', cpu'.eip), calls', resume', dead')
    <3>1. cpu'.eip # RESUME
      BY <2>1, <2>4, <2>6, Codes
    <3>2. \A i \in k + 1 .. Len(calls) - 1 : i + 1 = Depth
      BY <1>3, <2>4 DEF Depth, k
    <3>3. k \in 0 .. Len(calls) - 1 /\ k \in 0 .. Depth /\ calls[k].kind # "import"
      BY <1>3, <2>3, <2>4 DEF Depth, k
    <3>4. calls[Depth].kind # "then"
      BY <1>3, <1>7
    <3>5. \A i \in k + 1 .. Len(calls) - 1 : calls[i + 1].kind # "then"
      BY <3>2, <3>4
    <3>6. PopsTo(calls, k, cpu'.eip)
      BY <3>3, <3>5, Zenon DEF PopsTo
    <3> QED BY <1>1, <1>4, <2>6, <3>3, <3>6, ContinuationsAfterPop
  <2>11. Delivered'
    BY <2>1, <2>6 DEF Delivered
  <2> QED
    BY <1>5, <2>8, <2>9, <2>10, <2>11, Zenon DEF SpliceInv
<1>8. CASE Top.kind \in {"tick", "then"}
  <2> DEFINE k == Depth - 1
             b == calls[k]
  <2>1. /\ b.kind = "import" /\ Depth # 1
        /\ Top.kind = "tick" => Top.want = TRAP /\ Top.entry = b.entry - 1
        /\ Top.kind = "then" => Top.want = RESUME
    BY <1>3, <1>8 DEF WellPlaced
  <2>2. k \in 1 .. Depth
    BY <1>3, <2>1
  <2>3. b.entry \in 0 .. Words
    BY <2>1, <2>2, CallerOf
  <2>4. Top.entry + Top.args + 1 <= b.entry
    BY <1>2, <2>2, TopIsLowest, <1>3 DEF SpliceInv, Top, Depth
  <2>5. /\ cpu' = [eip |-> Top.want, sp |-> Top.entry + 1, own |-> FALSE]
        /\ calls' = SubSeq(calls, 1, k) /\ UNCHANGED back
    <3>1. Top.kind # "guest" /\ Top.kind # "tail"
      BY <1>8
    <3> QED BY <1>3, <3>1 DEF GuestReturns, Depth, Front
  <2> HIDE DEF k, b
  <2>6. Top.entry + 1 \in 0 .. Words /\ (Top.kind = "tick" => Top.entry + 1 = b.entry)
    BY <1>3, <2>1, <2>3, <2>4, Sizes
  <2>7. /\ Chain(calls') /\ mem' \in [0 .. Words -> Int] /\ AllIntact(calls', mem')
        /\ Len(calls') = k /\ calls'[k] = calls[k] /\ calls' # <<>>
    <3>1. k \in 0 .. Depth /\ k > 0 /\ k \in 1 .. k
      BY <1>3, <2>2
    <3> QED BY <1>1, <2>5, <3>1, PopStep
  <2>8. /\ cpu'.eip = Top.want /\ cpu'.sp = Top.entry + 1
        /\ cpu' \in [eip : Int, sp : 0 .. Words, own : BOOLEAN]
    BY <1>8, <2>1, <2>5, <2>6, Codes
  <2>9. Control(calls', cpu')
    <3>1. CASE Top.kind = "tick"
      <4>1. Trapped(calls', cpu')
        BY <2>1, <2>6, <2>7, <2>8, <3>1 DEF Trapped, b
      <4> QED BY <2>8, <4>1, Zenon DEF Control
    <3>2. CASE Top.kind = "then"
      <4>1. Resuming(calls', cpu')
        BY <2>1, <2>7, <2>8, <3>2 DEF Resuming, b
      <4> QED BY <2>8, <4>1, Zenon DEF Control
    <3> QED BY <1>8, <3>1, <3>2
  <2>10. Stacked(Waiting(calls', cpu'.eip), calls', resume', dead')
    <3>1. cpu'.eip = RESUME <=> calls[Depth].kind = "then"
      BY <1>3, <1>8, <2>1, <2>8, Codes
    <3>2. k + 1 = Depth /\ k + 1 .. Len(calls) - 1 = {} /\ k \in 0 .. Len(calls) - 1
          /\ k \in 0 .. Depth
      BY <1>3, <2>1 DEF Depth, k
    <3>3. PopsTo(calls, k, cpu'.eip)
      BY <3>1, <3>2, Zenon DEF PopsTo
    <3> QED BY <1>1, <1>4, <2>5, <3>2, <3>3, ContinuationsAfterPop
  <2>11. Delivered'
    BY <2>5 DEF SpliceInv, Delivered
  <2> QED
    BY <1>5, <2>7, <2>9, <2>10, <2>11, Zenon DEF SpliceInv
<1> QED
  BY <1>2, <1>3, <1>6, <1>7, <1>8 DEF Kinds

-----------------------------------------------------------------------------
(* The invariant.                                                          *)

LEMMA SpliceInit ==
  ASSUME Init
  PROVE  SpliceInv
<1>1. /\ cpu = [eip |-> STOP, sp |-> Words, own |-> FALSE]
      /\ mem = [w \in 0 .. Words |-> ARG] /\ resume = <<>> /\ calls = <<>>
      /\ back = [at |-> 1, want |-> 1, drift |-> 0, own |-> TRUE, tail |-> FALSE]
      /\ made = 0 /\ dead = 0
  BY DEF Init
<1>2. /\ Len(calls) = 0 /\ calls \in Seq(Activations)
      /\ Len(resume) = 0 /\ resume \in Seq(Continuations)
  BY <1>1, EmptySeq
<1>3. 1 .. Len(calls) = {}
  BY <1>2
<1>4. Chain(calls) /\ AllIntact(calls, mem)
  BY <1>2, <1>3, Zenon DEF Chain, WellNested, AllIntact
<1>5. mem \in [0 .. Words -> Int]
  BY <1>1, Codes
<1>6. Control(calls, cpu)
  <2>1. cpu.eip = STOP /\ cpu \in [eip : Int, sp : 0 .. Words, own : BOOLEAN]
    BY <1>1, Codes, Sizes
  <2> QED BY <1>1, <2>1, Zenon DEF Control, AtRest
<1>7. Waiting(calls, cpu.eip) = {}
  BY <1>3, Zenon DEF Waiting
<1>8. Stacked({}, calls, resume, dead)
  BY <1>1, <1>2, FS_EmptySet DEF Stacked
<1>9. Delivered /\ made \in 0 .. HostCalls
  BY <1>1, Sizes DEF Delivered
<1> QED
  BY <1>4, <1>5, <1>6, <1>7, <1>8, <1>9 DEF SpliceInv

LEMMA SpliceStutter ==
  ASSUME SpliceInv, UNCHANGED vars
  PROVE  SpliceInv'
BY DEF vars, SpliceInv, Chain, WellNested, WellPlaced, AllIntact, Intact, Control,
       AtRest, Trapped, Resuming, Running, Stacked, Waiting, Waits, Above, Delivered

LEMMA SpliceNext ==
  ASSUME SpliceInv, Next
  PROVE  SpliceInv'
<1>1. CASE HostCall
  BY <1>1, HostCallStep
<1>2. CASE \E n \in Args : CallImport(n)
  BY <1>2, CallImportStep
<1>3. CASE HandlerReturns
  BY <1>3, TrapReturns DEF HandlerReturns
<1>4. CASE HandlerReturnsDouble
  BY <1>4, HandlerReturnsDoubleStep
<1>5. CASE StubReturns
  BY <1>5, TrapReturns DEF StubReturns
<1>6. CASE HandlerStops
  BY <1>6, HandlerStopsStep
<1>7. CASE HandlerTails
  BY <1>7, HandlerTailsStep
<1>8. CASE HandlerTicks
  BY <1>8, HandlerTicksStep
<1>9. CASE \E n \in Args : HandlerCalls(n)
  BY <1>9, HandlerCallsStep
<1>10. CASE ResumeReturns
  BY <1>10, ResumeReturnsStep
<1>11. CASE \E n \in Args : ResumeChains(n)
  BY <1>11, ResumeChainsStep
<1>12. CASE GuestReturns
  BY <1>12, GuestReturnsStep
<1> QED
  BY <1>1, <1>2, <1>3, <1>4, <1>5, <1>6, <1>7, <1>8, <1>9, <1>10, <1>11, <1>12
  DEF Next, Handler

(* The nest of activations, the frames they have on the guest's stack, and *)
(* resume_ agree with each other and with EIP and ESP, through any host    *)
(* calls, imports, splices and aborts (Machine in machine.cpp).            *)
THEOREM SpliceInvariant == Spec => []SpliceInv
<1>1. Init => SpliceInv
  BY SpliceInit
<1>2. SpliceInv /\ [Next]_vars => SpliceInv'
  BY SpliceNext, SpliceStutter
<1> QED
  BY <1>1, <1>2, PTL DEF Spec

-----------------------------------------------------------------------------
(* What it says.                                                           *)

LEMMA TypesHold ==
  ASSUME SpliceInv
  PROVE  TypeOK
<1>1. cpu \in [eip : Int, sp : 0 .. Words, own : BOOLEAN] /\ cpu.sp \in 0 .. Words
  BY DEF SpliceInv, Control
<1>2. cpu.eip \in {TRAP, RESUME, STOP, STUB} \cup 1 .. Len(calls)
  <2>1. CASE Running(calls, cpu)
    <3>1. Len(calls) \in Nat /\ Len(calls) > 0 /\ cpu.eip = Len(calls)
      BY <2>1, TopIs DEF Running, Depth
    <3> QED BY <3>1
  <2>2. CASE ~Running(calls, cpu)
    BY <2>2, Zenon DEF SpliceInv, Control, AtRest, Trapped, Resuming
  <2> QED BY <2>1, <2>2
<1>3. resume \in Seq([outer : 0 .. Words, ret : 1 .. Words]) /\ dead \in 0 .. Len(resume)
  BY DEF SpliceInv, Stacked, Continuations
<1> QED
  BY <1>1, <1>2, <1>3 DEF TypeOK, SpliceInv

LEMMA WaitingIs ==
  ASSUME SpliceInv
  PROVE  Waiting(calls, cpu.eip) =
           {i \in DOMAIN calls :
              /\ calls[i].kind = "import"
              /\ \/ i < Len(calls) /\ calls[i + 1].kind = "then"
                 \/ i = Len(calls) /\ InResume}
<1>1. DOMAIN calls = 1 .. Len(calls)
  BY LengthOf DEF SpliceInv, Chain
<1> QED
  BY <1>1, Zenon DEF Waiting, Waits, InResume

LEMMA ContinuationsHold ==
  ASSUME SpliceInv
  PROVE  ResumeMatches
<1>1. Stacked(Waiting(calls, cpu.eip), calls, resume, dead)
  BY DEF SpliceInv
<1> QED
  BY <1>1, WaitingIs, Zenon DEF ResumeMatches, Stacked, Above, Continuation

(* Whatever is spliced above a trapped import, and however deep, its       *)
(* return address and its arguments are as its caller pushed them: what a  *)
(* re-entered handler reads again (arg, call_guest_then in machine.cpp).   *)
THEOREM FramesStayIntact == Spec => []FramesIntact
<1>1. SpliceInv => FramesIntact
  <2> SUFFICES ASSUME SpliceInv PROVE FramesIntact
    OBVIOUS
  <2>1. DOMAIN calls = 1 .. Len(calls)
    BY LengthOf DEF SpliceInv, Chain
  <2> QED
    BY <2>1, Zenon DEF SpliceInv, AllIntact, Intact, FramesIntact
<1> QED
  BY <1>1, SpliceInvariant, PTL

(* An import returns to the code that called it, with ESP where a ret      *)
(* would leave it and EAX its own, unless its handler ended in a tail      *)
(* splice; resume_ is all the while the stack of the imports that wait for *)
(* a spliced function, above what aborted host calls left behind, and      *)
(* control is at code, a trap or a sentinel.                               *)
THEOREM ImportsReturn == Spec => []BackToCaller
<1>1. SpliceInv => BackToCaller
  BY TypesHold, ContinuationsHold, Zenon DEF SpliceInv, Delivered, BackToCaller
<1> QED
  BY <1>1, SpliceInvariant, PTL
=============================================================================
