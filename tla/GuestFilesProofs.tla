-------------------------- MODULE GuestFilesProofs --------------------------
(***************************************************************************)
(* Proofs about GuestFiles, for every number of descriptors: the tables    *)
(* and the host agree on what is open; and for every number of saves and   *)
(* any worlds whose bytes can be told apart: saving and loading in any     *)
(* order never wears a save out, and the tool keeps what the host keeps.   *)
(*                                                                         *)
(* What is proved of the bytes of a save goes from its first byte to its   *)
(* last, province by province, for any number of provinces of any length:  *)
(* what the scan has found at the end of a province, and what has been     *)
(* kept of it.                                                             *)
(***************************************************************************)
EXTENDS GuestFiles, FiniteSetTheorems, WellFoundedInduction, SequenceTheorems, TLAPS

(* A number is in the table only once it was given out, and stands for a   *)
(* descriptor of the host's or for none.                                   *)
Numbered ==
  /\ next \in Nat /\ next >= FirstFd
  /\ DOMAIN fds \subseteq FirstFd .. next - 1
  /\ \A f \in DOMAIN fds : fds[f].h \in Nat \cup {None}

FilesInv == Numbered /\ OneEntryEach

(* The numbers that stand for a descriptor of the host's.                  *)
Held == {f \in DOMAIN fds : fds[f].h # None}

-----------------------------------------------------------------------------
(* The host always has a descriptor to give: it has no more of them open   *)
(* than the guest was given numbers.                                       *)

LEMMA Smallest ==
  ASSUME NEW T, T \subseteq Nat, T # {}
  PROVE  \E x \in T : \A y \in T : x <= y
<1> DEFINE R == OpToRel(<, Nat)
<1>1. IsWellFoundedOn(R, Nat)
  BY NatLessThanWellFounded
<1>2. ASSUME NEW x \in Nat, NEW y \in Nat, <<y, x>> \notin R
      PROVE  x <= y
  BY <1>2 DEF OpToRel
<1> HIDE DEF R
<1>3. \E x \in T : \A y \in T : <<y, x>> \notin R
  BY <1>1, WFMin
<1> QED
  BY <1>2, <1>3

LEMMA SomeFree == ASSUME FilesInv, next <= MaxFd PROVE \E h \in 0 .. MaxFd : h \notin host
<1> SUFFICES ASSUME 0 .. MaxFd \subseteq host PROVE FALSE
  OBVIOUS
<1> DEFINE Of(h) == CHOOSE f \in Held : fds[f].h = h
           S == 0 .. MaxFd
           T == FirstFd .. next - 1
           owner == [h \in S |-> Of(h)]
<1>1. FirstFd \in Nat /\ MaxFd \in Nat /\ next \in FirstFd .. MaxFd
  BY FilesConstants DEF FilesInv, Numbered
<1>2. ASSUME NEW h \in S PROVE Of(h) \in Held /\ fds[Of(h)].h = h
  <2>1. \E f \in Held : fds[f].h = h
    BY DEF FilesInv, OneEntryEach, Held
  <2> QED
    BY <2>1
<1>3. Held \subseteq T
  BY DEF Held, FilesInv, Numbered
<1> HIDE DEF Of
<1>4. owner \in [S -> T]
  BY <1>2, <1>3
<1>5. /\ IsFiniteSet(S) /\ Cardinality(S) = MaxFd + 1
      /\ IsFiniteSet(T) /\ Cardinality(T) = next - FirstFd
  <2>1. IsFiniteSet(S) /\ Cardinality(S) = MaxFd + 1
    BY <1>1, FS_Interval
  <2>2. IsFiniteSet(T) /\ Cardinality(T) = IF FirstFd > next - 1 THEN 0 ELSE next - 1 - FirstFd + 1
    BY <1>1, FS_Interval
  <2> QED
    BY <1>1, <2>1, <2>2
<1>6. Cardinality(T) < Cardinality(S)
  BY <1>1, <1>5
<1> HIDE DEF S, T, owner
<1>7. \E x, y \in S : x # y /\ owner[x] = owner[y]
  BY <1>4, <1>5, <1>6, FS_PigeonHole
<1> QED
  BY <1>2, <1>7 DEF owner

LEMMA FreeIsFree == ASSUME FilesInv, next <= MaxFd PROVE Free \in Nat /\ Free \notin host
<1> DEFINE T == {h \in 0 .. MaxFd : h \notin host}
<1>1. T \subseteq Nat /\ T # {}
  BY SomeFree, FilesConstants
<1>2. PICK h \in T : \A k \in T : h <= k
  BY <1>1, Smallest
<1>3. h \in 0 .. MaxFd /\ h \notin host /\ \A k \in 0 .. h - 1 : k \in host
  BY <1>2, FilesConstants
<1> QED
  BY <1>3, FilesConstants DEF Free

-----------------------------------------------------------------------------
(* The steps.                                                              *)

LEMMA FilesInit == Init => FilesInv
<1> SUFFICES ASSUME Init PROVE FilesInv
  OBVIOUS
<1>1. DOMAIN fds = {} /\ host = {} /\ next = FirstFd
  BY DEF Init
<1> QED
  BY <1>1, FilesConstants DEF FilesInv, Numbered, OneEntryEach

LEMMA SameFiles ==
  ASSUME FilesInv, UNCHANGED <<fds, next, host>>
  PROVE  FilesInv' /\ DOMAIN fds' \ DOMAIN fds = {}
  BY DEF FilesInv, Numbered, OneEntryEach

(* A number is given to what stands for no descriptor of the host's yet.   *)
LEMMA NewEntry ==
  ASSUME FilesInv, next <= MaxFd, NEW kind, NEW h \in Nat \cup {None}, h \notin host,
         fds' = Put(fds, next, Entry(kind, h)), next' = next + 1,
         host' = IF h = None THEN host ELSE host \cup {h}
  PROVE  FilesInv' /\ DOMAIN fds' \ DOMAIN fds \subseteq {next}
<1>1. /\ next \in FirstFd .. MaxFd /\ FirstFd \in Nat /\ MaxFd \in Nat
      /\ next \notin DOMAIN fds
  BY FilesConstants DEF FilesInv, Numbered
<1>2. /\ DOMAIN fds' = DOMAIN fds \cup {next}
      /\ fds'[next].h = h
      /\ \A f \in DOMAIN fds : fds'[f] = fds[f]
  BY <1>1 DEF Put, Entry
<1>3. Numbered'
  BY <1>1, <1>2 DEF FilesInv, Numbered
<1>4. Held' = IF h = None THEN Held ELSE Held \cup {next}
  BY <1>1, <1>2 DEF Held
<1>5. /\ host = {fds[f].h : f \in Held}
      /\ \A f, g \in Held : fds[f].h = fds[g].h => f = g
  BY DEF FilesInv, OneEntryEach, Held
<1>6. Held \subseteq DOMAIN fds /\ next \notin Held
  BY <1>1 DEF Held
<1>7. host' = {fds'[f].h : f \in Held'}
  BY <1>2, <1>4, <1>5, <1>6
<1>8. \A f, g \in Held' : fds'[f].h = fds'[g].h => f = g
  BY <1>2, <1>4, <1>5, <1>6
<1> QED
  BY <1>2, <1>3, <1>7, <1>8 DEF FilesInv, OneEntryEach, Held

LEMMA AdoptStep ==
  ASSUME FilesInv, NEW kind, Adopt(kind)
  PROVE  FilesInv' /\ DOMAIN fds' \ DOMAIN fds \subseteq {next}
<1>1. next <= MaxFd
  BY DEF Adopt
<1>2. Free \in Nat /\ Free \notin host /\ Free # None
  BY <1>1, FreeIsFree DEF None
<1>3. /\ host' = host \cup {Free} /\ next' = next + 1
      /\ fds' = Put(fds, next, Entry(kind, Free))
  BY DEF Adopt, Number
<1> HIDE DEF Free
<1> QED
  BY <1>1, <1>2, <1>3, NewEntry

LEMMA CloseStep ==
  ASSUME FilesInv, NEW a, Close(a)
  PROVE  FilesInv' /\ DOMAIN fds' \ DOMAIN fds = {}
<1>1. /\ DOMAIN fds' = DOMAIN fds \ {a} /\ next' = next
      /\ \A f \in DOMAIN fds \ {a} : fds'[f] = fds[f]
      /\ a \in DOMAIN fds /\ host' = host \ {fds[a].h}
  BY DEF Close, Drop, HostFd
<1>2. Numbered'
  BY <1>1 DEF FilesInv, Numbered
<1>3. Held' = Held \ {a}
  BY <1>1 DEF Held
<1>4. /\ host = {fds[f].h : f \in Held}
      /\ \A f, g \in Held : fds[f].h = fds[g].h => f = g
      /\ Held \subseteq DOMAIN fds
  BY DEF FilesInv, OneEntryEach, Held
<1>5. host' = {fds'[f].h : f \in Held'}
  <2>1. CASE a \in Held
    BY <1>1, <1>3, <1>4, <2>1
  <2>2. CASE a \notin Held
    <3>1. fds[a].h = None /\ None \notin host
      BY <1>1, <1>4, <2>2 DEF Held
    <3> QED
      BY <1>1, <1>3, <1>4, <2>2, <3>1
  <2> QED
    BY <2>1, <2>2
<1>6. \A f, g \in Held' : fds'[f].h = fds'[g].h => f = g
  BY <1>1, <1>3, <1>4
<1> QED
  BY <1>1, <1>2, <1>5, <1>6 DEF FilesInv, OneEntryEach, Held

LEMMA FilesStep ==
  ASSUME FilesInv, [Next]_vars
  PROVE  FilesInv' /\ DOMAIN fds' \ DOMAIN fds \subseteq {next}
<1>1. CASE OpenDevice
  <2>1. /\ next <= MaxFd /\ next' = next + 1 /\ host' = host
        /\ fds' = Put(fds, next, Entry("device", None))
    BY <1>1 DEF OpenDevice, Number
  <2>2. None \notin host
    BY DEF FilesInv, OneEntryEach
  <2> QED
    BY <2>1, <2>2, NewEntry
<1>2. CASE \E kind : Adopt(kind)
  BY <1>2, AdoptStep
<1>3. CASE \E f \in Given : Close(f)
  BY <1>3, CloseStep
<1>4. CASE UNCHANGED <<fds, next, host>>
  BY <1>4, SameFiles
<1>5. Saves => UNCHANGED <<fds, next, host>>
  BY DEF Saves, FOpen, FOpenFails, OnlyErr, FWrite, FRead, FClose, fdVars
<1>6. OpenFile => (\E kind : Adopt(kind)) \/ UNCHANGED <<fds, next, host>>
  BY DEF OpenFile, OnlyErr
<1>7. Socket => (\E kind : Adopt(kind)) \/ UNCHANGED <<fds, next, host>>
  BY DEF Socket, OnlyErr
<1>8. ASSUME NEW f \in Given, ReadWrite(f) \/ SocketCall(f) \/ Accept(f)
      PROVE  (\E kind : Adopt(kind)) \/ UNCHANGED <<fds, next, host>>
  BY <1>8 DEF ReadWrite, SocketCall, Accept, OnlyErr
<1>9. UNCHANGED vars => UNCHANGED <<fds, next, host>>
  BY DEF vars, fdVars
<1> QED
  BY <1>1, <1>2, <1>3, <1>4, <1>5, <1>6, <1>7, <1>8, <1>9 DEF Next, Descriptors

(* Every descriptor the host has open is the guest's under one number, and *)
(* a number that was closed is never given out again, whatever the guest   *)
(* opens, accepts and closes (fds_, next_fd_).                             *)
THEOREM HostIsOwned == Spec => HostOwned
<1>1. FilesInv /\ [Next]_vars => FilesInv'
  BY FilesStep
<1>2. FilesInv /\ [Next]_vars =>
        [ OneEntryEach' /\ \A f \in DOMAIN fds' \ DOMAIN fds : f >= next ]_vars
  <2> SUFFICES ASSUME FilesInv, [Next]_vars
      PROVE  OneEntryEach' /\ \A f \in DOMAIN fds' \ DOMAIN fds : f >= next
    OBVIOUS
  <2>1. next \in Int
    BY FilesConstants DEF FilesInv, Numbered
  <2> QED
    BY <2>1, FilesStep DEF FilesInv
<1> QED
  BY <1>1, <1>2, FilesInit, PTL DEF Spec, HostOwned

-----------------------------------------------------------------------------
(* What recursive functions are worked out with.                           *)

(* Induction, over a set of numbers.                                       *)
LEMMA Induction ==
  ASSUME NEW T, 0 \in T, \A n \in Nat : n \in T => n + 1 \in T
  PROVE  \A n \in Nat : n \in T
<1> DEFINE F == Nat \ T
<1> SUFFICES ASSUME F # {} PROVE FALSE
  OBVIOUS
<1>1. PICK x \in F : \A y \in F : x <= y
  <2>1. F \subseteq Nat
    OBVIOUS
  <2> QED
    BY <2>1, Smallest
<1>2. x \in Nat /\ x # 0 /\ x - 1 \in Nat /\ x - 1 \notin F
  BY <1>1
<1> QED
  BY <1>1, <1>2

(* The function that starts with e and goes on by G, up to N.              *)
Follows(f, S, e, G, N) ==
  /\ f \in [0 .. N -> S] /\ f[0] = e
  /\ \A k \in 1 .. N : f[k] = G[k][f[k - 1]]

(* There is one ...                                                        *)
LEMMA Recursion ==
  ASSUME NEW S, NEW e \in S, NEW G \in [Nat -> [S -> S]], NEW N \in Nat
  PROVE  \E f : Follows(f, S, e, G, N)
<1> DEFINE T == {n \in Nat : \E f : Follows(f, S, e, G, n)}
<1>1. 0 \in T
  <2>1. Follows([k \in 0 .. 0 |-> e], S, e, G, 0)
    BY DEF Follows
  <2> QED
    BY <2>1
<1>2. ASSUME NEW n \in Nat, n \in T PROVE n + 1 \in T
  <2>1. PICK f : /\ f \in [0 .. n -> S] /\ f[0] = e
                 /\ \A k \in 1 .. n : f[k] = G[k][f[k - 1]]
    BY <1>2 DEF Follows
  <2> DEFINE v == G[n + 1][f[n]]
             h == [k \in 0 .. n + 1 |-> IF k = n + 1 THEN v ELSE f[k]]
  <2>2. v \in S
    BY <2>1
  <2> HIDE DEF v
  <2>3. h \in [0 .. n + 1 -> S] /\ h[0] = e /\ h[n + 1] = v
        /\ \A k \in 0 .. n : h[k] = f[k]
    BY <2>1, <2>2
  <2> HIDE DEF h
  <2>4. ASSUME NEW k \in 1 .. n + 1 PROVE h[k] = G[k][h[k - 1]]
    <3>1. CASE k = n + 1
      BY <2>3, <3>1 DEF v
    <3>2. CASE k \in 1 .. n
      BY <2>1, <2>3, <3>2
    <3> QED
      BY <3>1, <3>2
  <2>5. Follows(h, S, e, G, n + 1)
    BY <2>3, <2>4 DEF Follows
  <2> QED
    BY <2>5
<1>3. N \in T
  <2> HIDE DEF T
  <2> QED
    BY <1>1, <1>2, Induction
<1> QED
  BY <1>3

(* ... and only one.                                                       *)
Alike(f, g, N) == \A k \in 1 .. N : f[k - 1] = g[k - 1] => f[k] = g[k]

LEMMA OneFunction ==
  ASSUME NEW N \in Nat, NEW f, NEW g, f[0] = g[0], Alike(f, g, N)
  PROVE  \A k \in 0 .. N : f[k] = g[k]
<1> DEFINE T == {k \in Nat : k <= N => f[k] = g[k]}
<1>1. 0 \in T
  OBVIOUS
<1>2. ASSUME NEW k \in Nat, k \in T PROVE k + 1 \in T
  <2> SUFFICES ASSUME k + 1 <= N PROVE f[k + 1] = g[k + 1]
    OBVIOUS
  <2>1. k + 1 \in 1 .. N /\ (k + 1) - 1 = k
    OBVIOUS
  <2> QED
    BY <1>2, <2>1 DEF Alike
<1> HIDE DEF T
<1>3. \A k \in Nat : k \in T
  BY <1>1, <1>2, Induction
<1> QED
  BY <1>3 DEF T

LEMMA Division ==
  ASSUME NEW g \in Nat \ {0}
  PROVE  /\ \A n \in Nat : (n * g) % g = 0 /\ (n * g) \div g = n
         /\ \A j \in Nat : (j + g) % g = j % g /\ j % g \in 0 .. g - 1
         /\ \A j \in 0 .. g - 1 : j % g = j
<1>1. \A n \in Nat : (n * g) % g = 0
  OBVIOUS
<1>2. \A n \in Nat : (n * g) \div g = n
  OBVIOUS
<1>3. ASSUME NEW j \in Nat PROVE (j + g) % g = j % g
  <2> DEFINE q == j \div g
             r == j % g
             Q == (j + g) \div g
             R == (j + g) % g
             z == Q - q - 1
  <2>1. q \in Int /\ r \in 0 .. g - 1 /\ j = g * q + r
    OBVIOUS
  <2>2. Q \in Int /\ R \in 0 .. g - 1 /\ j + g = g * Q + R
    OBVIOUS
  <2> HIDE DEF q, r, Q, R
  <2>3. z \in Int /\ Q = z + q + 1
    BY <2>1, <2>2
  <2> HIDE DEF z
  <2>4. g * Q = g * z + g * q + g
    BY <2>1, <2>2, <2>3
  <2>5. g * z = r - R
    <3>1. g * z \in Int /\ g * q \in Int
      BY <2>1, <2>3
    <3>2. \A x, y \in Int : (y + r) + g = x + y + g + R => x = r - R
      BY <2>1, <2>2
    <3>3. (g * q + r) + g = g * z + g * q + g + R
      BY <2>1, <2>2, <2>4
    <3> QED
      BY <3>1, <3>2, <3>3
  <2>6. z >= 1 => g * z >= g
    BY <2>3
  <2>7. z <= -1 => g * z <= -g
    BY <2>3
  <2>8. z = 0
    BY <2>1, <2>2, <2>3, <2>5, <2>6, <2>7
  <2> QED
    BY <2>1, <2>2, <2>5, <2>8 DEF r, R
<1>4. \A j \in Nat : j % g \in 0 .. g - 1
  OBVIOUS
<1>5. \A j \in 0 .. g - 1 : j % g = j
  OBVIOUS
<1> QED
  BY <1>1, <1>2, <1>3, <1>4, <1>5

-----------------------------------------------------------------------------
(* The bytes of a save.                                                    *)

LEMMA Bytes ==
  ASSUME NEW a \in Seq(Nat), NEW b \in Seq(Nat), NEW x \in Nat, NEW r \in Seq(Nat),
         NEW t, t = a \o b \o <<x>> \o r
  PROVE  /\ t \in Seq(Nat) /\ Len(t) = Len(a) + Len(b) + 1 + Len(r)
         /\ \A j \in 1 .. Len(a) : t[j] = a[j]
         /\ \A j \in 1 .. Len(b) : t[Len(a) + j] = b[j]
         /\ t[Len(a) + Len(b) + 1] = x
         /\ \A j \in 1 .. Len(r) : t[Len(a) + Len(b) + 1 + j] = r[j]
<1>1. a \o b \in Seq(Nat) /\ Len(a \o b) = Len(a) + Len(b)
      /\ \A j \in 1 .. Len(a) + Len(b) :
           (a \o b)[j] = IF j <= Len(a) THEN a[j] ELSE b[j - Len(a)]
  BY ConcatProperties
<1>2. <<x>> \in Seq(Nat) /\ Len(<<x>>) = 1 /\ <<x>>[1] = x
  OBVIOUS
<1> DEFINE s == a \o b
<1> HIDE DEF s
<1>3. s \o <<x>> \in Seq(Nat) /\ Len(s \o <<x>>) = Len(s) + 1
      /\ \A j \in 1 .. Len(s) + 1 :
           (s \o <<x>>)[j] = IF j <= Len(s) THEN s[j] ELSE <<x>>[j - Len(s)]
  BY <1>1, <1>2, ConcatProperties DEF s
<1> DEFINE v == s \o <<x>>
<1> HIDE DEF v
<1>4. v \o r \in Seq(Nat) /\ Len(v \o r) = Len(v) + Len(r)
      /\ \A j \in 1 .. Len(v) + Len(r) :
           (v \o r)[j] = IF j <= Len(v) THEN v[j] ELSE r[j - Len(v)]
  BY <1>3, ConcatProperties DEF v
<1>5. Len(a) \in Nat /\ Len(b) \in Nat /\ Len(r) \in Nat
  OBVIOUS
<1>6. \A j \in 1 .. Len(a) : (v \o r)[j] = a[j]
  BY <1>1, <1>2, <1>3, <1>4, <1>5 DEF v, s
<1>7. \A j \in 1 .. Len(b) : (v \o r)[Len(a) + j] = b[j]
  BY <1>1, <1>2, <1>3, <1>4, <1>5 DEF v, s
<1>8. (v \o r)[Len(a) + Len(b) + 1] = x
  BY <1>1, <1>2, <1>3, <1>4, <1>5 DEF v, s
<1>9. \A j \in 1 .. Len(r) : (v \o r)[Len(a) + Len(b) + 1 + j] = r[j]
  BY <1>1, <1>2, <1>3, <1>4, <1>5 DEF v, s
<1> QED
  BY <1>1, <1>3, <1>4, <1>5, <1>6, <1>7, <1>8, <1>9 DEF v, s

Sizes == ToSet(Groups)

LEMMA SizeTypes ==
  /\ \A g \in Sizes : g \in Nat \ {0} /\ \E k \in DOMAIN Groups : Groups[k] = g
  /\ \A k \in DOMAIN Groups : Groups[k] \in Sizes
  /\ DOMAIN Groups = 1 .. Len(Groups) /\ Len(Groups) \in Nat
<1>1. Groups \in Seq(Nat \ {0})
  BY SaveConstants
<1>2. Sizes = {Groups[k] : k \in DOMAIN Groups}
  BY DEF Sizes, ToSet
<1> QED
  BY <1>1, <1>2

(* A world that has its groups whole.                                      *)
Whole(w) == w \in Seq(Province) /\ \A p \in DOMAIN w : Len(w[p].group) = w[p].size * Unit

(* The parts of a province, and the bytes of its list with n groups.       *)
Gap(w, p)     == w[p].gap
Size(w, p)    == w[p].size
Group(w, p)   == w[p].group
Long(n, w, p) == n * Len(w[p].group)

LEMMA ProvinceTypes ==
  ASSUME NEW w, Whole(w)
  PROVE  /\ Len(w) \in Nat /\ DOMAIN w = 1 .. Len(w)
         /\ \A p \in 1 .. Len(w) :
              /\ Gap(w, p) \in Seq(Nat) /\ Len(Gap(w, p)) \in Nat
              /\ Group(w, p) \in Seq(Nat)
              /\ Size(w, p) \in Sizes /\ Size(w, p) \in Nat \ {0}
              /\ Len(Group(w, p)) = Size(w, p) * Unit /\ Len(Group(w, p)) \in Nat \ {0}
              /\ \A n \in Nat : /\ Long(n, w, p) = n * Len(Group(w, p))
                                /\ Long(n, w, p) = (n * Size(w, p)) * Unit
                                /\ Long(n, w, p) \in Nat /\ n * Size(w, p) \in Nat
<1>1. Len(w) \in Nat /\ DOMAIN w = 1 .. Len(w) /\ \A p \in 1 .. Len(w) : w[p] \in Province
  BY DEF Whole
<1>2. ASSUME NEW p \in 1 .. Len(w)
      PROVE  /\ Gap(w, p) \in Seq(Nat) /\ Len(Gap(w, p)) \in Nat
             /\ Group(w, p) \in Seq(Nat)
             /\ Size(w, p) \in Sizes /\ Size(w, p) \in Nat \ {0}
             /\ Len(Group(w, p)) = Size(w, p) * Unit /\ Len(Group(w, p)) \in Nat \ {0}
             /\ \A n \in Nat : /\ Long(n, w, p) = n * Len(Group(w, p))
                               /\ Long(n, w, p) = (n * Size(w, p)) * Unit
                               /\ Long(n, w, p) \in Nat /\ n * Size(w, p) \in Nat
  <2>1. Gap(w, p) \in Seq(Nat) /\ Group(w, p) \in Seq(Nat) /\ Size(w, p) \in Sizes
    BY <1>1 DEF Province, Sizes, Gap, Group, Size
  <2>2. Size(w, p) \in Nat \ {0} /\ Len(Gap(w, p)) \in Nat
    BY <2>1, SizeTypes
  <2>3. Len(Group(w, p)) = Size(w, p) * Unit
    BY <1>1 DEF Whole, Group, Size
  <2>4. Unit \in Nat \ {0}
    BY SaveConstants
  <2>5. \A x, y \in Nat \ {0} : x * y \in Nat \ {0}
    OBVIOUS
  <2>6. Len(Group(w, p)) \in Nat \ {0}
    BY <2>2, <2>3, <2>4, <2>5
  <2>7. ASSUME NEW n \in Nat
        PROVE  /\ Long(n, w, p) = n * Len(Group(w, p))
               /\ Long(n, w, p) = (n * Size(w, p)) * Unit
               /\ Long(n, w, p) \in Nat /\ n * Size(w, p) \in Nat
    <3>1. Long(n, w, p) = n * Len(Group(w, p))
      BY DEF Long, Group
    <3>2. n * Len(Group(w, p)) \in Nat /\ n * Size(w, p) \in Nat
      BY <2>2, <2>6
    <3>3. n * (Size(w, p) * Unit) = (n * Size(w, p)) * Unit
      BY <2>2, <2>4
    <3> QED
      BY <2>3, <3>1, <3>2, <3>3
  <2> QED
    BY <2>1, <2>2, <2>3, <2>6, <2>7
<1> QED
  BY <1>1, <1>2

LEMMA RepeatedTypes ==
  ASSUME NEW q \in Seq(Nat), Len(q) # 0, NEW n \in Nat
  PROVE  /\ Repeated(q, n) \in Seq(Nat) /\ Len(Repeated(q, n)) = n * Len(q)
         /\ n * Len(q) \in Nat
         /\ n >= 1 => \A j \in 1 .. Len(q) : j \in 1 .. n * Len(q) /\ Repeated(q, n)[j] = q[j]
         /\ \A j \in 1 .. n * Len(q) :
              j + Len(q) \in 1 .. n * Len(q) => Repeated(q, n)[j + Len(q)] = Repeated(q, n)[j]
<1> DEFINE g == Len(q)
           m == n * g
<1>1. g \in Nat \ {0} /\ m \in Nat
  <2>1. Len(q) \in Nat
    OBVIOUS
  <2>2. \A x, y \in Nat : x * y \in Nat
    OBVIOUS
  <2> QED
    BY <2>1, <2>2
<1>2. Repeated(q, n) = [j \in 1 .. m |-> q[1 + ((j - 1) % g)]]
  BY DEF Repeated
<1>3. n >= 1 => m >= g
  BY <1>1
<1>4. \A i \in 1 .. g : q[i] \in Nat
  OBVIOUS
<1> HIDE DEF m, g
<1>5. ASSUME NEW j \in 1 .. m
      PROVE  /\ 1 + ((j - 1) % g) \in 1 .. g
             /\ j <= g => 1 + ((j - 1) % g) = j
             /\ ((j + g) - 1) % g = (j - 1) % g
  <2>1. j - 1 \in Nat /\ (j + g) - 1 = (j - 1) + g
    BY <1>1
  <2>2. (j - 1) % g \in 0 .. g - 1 /\ ((j - 1) + g) % g = (j - 1) % g
    BY <1>1, <2>1, Division
  <2>3. j <= g => (j - 1) % g = j - 1
    <3>1. j <= g => j - 1 \in 0 .. g - 1
      BY <1>1, <2>1
    <3> QED
      BY <1>1, <3>1, Division
  <2> QED
    BY <1>1, <2>1, <2>2, <2>3
<1>6. Repeated(q, n) \in Seq(Nat) /\ Len(Repeated(q, n)) = m
  <2>1. Repeated(q, n) \in [1 .. m -> Nat]
    BY <1>2, <1>4, <1>5
  <2> QED
    BY <1>1, <2>1
<1>7. n >= 1 => \A j \in 1 .. g : j \in 1 .. m /\ Repeated(q, n)[j] = q[j]
  <2> SUFFICES ASSUME n >= 1, NEW j \in 1 .. g PROVE j \in 1 .. m /\ Repeated(q, n)[j] = q[j]
    OBVIOUS
  <2>1. j \in 1 .. m
    BY <1>1, <1>3
  <2>2. 1 + ((j - 1) % g) = j
    BY <1>5, <2>1
  <2>3. Repeated(q, n)[j] = q[1 + ((j - 1) % g)]
    BY <1>2, <2>1
  <2> QED
    BY <2>1, <2>2, <2>3
<1>8. \A j \in 1 .. m : j + g \in 1 .. m => Repeated(q, n)[j + g] = Repeated(q, n)[j]
  BY <1>1, <1>2, <1>5
<1> QED
  BY <1>1, <1>6, <1>7, <1>8 DEF m, g

LEMMA UpToSteps ==
  ASSUME NEW w, Whole(w), NEW n \in Nat
  PROVE  LET u == UpTo(n, w)
         IN  /\ u \in [0 .. Len(w) -> Seq(Nat)] /\ u[0] = <<>>
             /\ \A p \in 1 .. Len(w) :
                  u[p] = u[p - 1] \o Gap(w, p) \o <<(n * Size(w, p)) % Wrap>>
                           \o Repeated(Group(w, p), n)
<1> DEFINE N == Len(w)
           After(p, t) == t \o Gap(w, p) \o <<(n * Size(w, p)) % Wrap>>
                            \o Repeated(Group(w, p), n)
           G == [p \in Nat |-> [t \in Seq(Nat) |-> IF p \in 1 .. N THEN After(p, t) ELSE <<>>]]
           Is(q) == q = [p \in 0 .. N |-> IF p = 0 THEN <<>> ELSE After(p, q[p - 1])]
<1>1. N \in Nat /\ DOMAIN w = 1 .. N
  BY ProvinceTypes
<1>2. ASSUME NEW p \in 1 .. N, NEW t \in Seq(Nat) PROVE After(p, t) \in Seq(Nat)
  <2>1. /\ Gap(w, p) \in Seq(Nat) /\ Group(w, p) \in Seq(Nat) /\ Size(w, p) \in Nat
        /\ Len(Group(w, p)) # 0
    BY ProvinceTypes
  <2>2. n * Size(w, p) \in Nat /\ Wrap \in Nat \ {0}
    BY <2>1, FilesConstants
  <2>3. (n * Size(w, p)) % Wrap \in Nat
    <3>1. \A j \in Nat : j % Wrap \in Nat
      BY <2>2
    <3> QED
      BY <2>2, <3>1
  <2>4. Repeated(Group(w, p), n) \in Seq(Nat)
    BY <2>1, RepeatedTypes
  <2> QED
    BY <2>1, <2>3, <2>4, Bytes
<1> HIDE DEF After
<1>3. <<>> \in Seq(Nat)
  OBVIOUS
<1>4. G \in [Nat -> [Seq(Nat) -> Seq(Nat)]]
  BY <1>2, <1>3
<1>5. \A p \in 1 .. N, t \in Seq(Nat) : G[p][t] = After(p, t)
  OBVIOUS
<1> HIDE DEF G, N
<1>6. PICK f : /\ f \in [0 .. N -> Seq(Nat)]
               /\ f[0] = <<>> /\ \A p \in 1 .. N : f[p] = G[p][f[p - 1]]
  <2>1. N \in Nat
    BY <1>1
  <2>2. \E f : Follows(f, Seq(Nat), <<>>, G, N)
    BY <1>3, <1>4, <2>1, Recursion
  <2> QED
    BY <2>2, Zenon DEF Follows
<1>7. \A p \in 1 .. N : f[p] = After(p, f[p - 1])
  <2>1. \A p \in 1 .. N : p - 1 \in 0 .. N
    BY <1>1
  <2> QED
    BY <1>5, <1>6, <2>1
<1>8. Is(f)
  <2>1. \A p \in 0 .. N : p # 0 => p \in 1 .. N
    BY <1>1
  <2> QED
    BY <1>6, <1>7, <2>1
<1> DEFINE u == CHOOSE f1 : Is(f1)
<1>9. UpTo(n, w) = u
  BY DEF UpTo, After, N, Gap, Group, Size
<1>10. Is(u)
  BY <1>8
<1> HIDE DEF u
<1>11. u[0] = <<>> /\ (\A p \in 1 .. N : u[p] = After(p, u[p - 1])) /\ DOMAIN u = 0 .. N
  <2>1. 0 \in 0 .. N /\ \A p \in 1 .. N : p \in 0 .. N /\ p # 0
    BY <1>1
  <2> QED
    BY <1>10, <2>1
<1>12. \A p \in 0 .. N : u[p] = f[p]
  <2>1. Alike(u, f, N)
    BY <1>7, <1>11, Zenon DEF Alike
  <2>2. u[0] = f[0]
    BY <1>6, <1>11
  <2>3. N \in Nat
    BY <1>1
  <2> QED
    BY <2>1, <2>2, <2>3, OneFunction, Zenon
<1>13. u \in [0 .. N -> Seq(Nat)]
  <2>1. u = [p \in 0 .. N |-> u[p]]
    BY <1>10
  <2>2. \A p \in 0 .. N : u[p] \in Seq(Nat)
    BY <1>6, <1>12
  <2> QED
    BY <2>1, <2>2
<1> QED
  BY <1>9, <1>11, <1>13 DEF After, N

(* A save up to the end of its p-th province.                              *)
Part(n, w, p) == UpTo(n, w)[p]

LEMMA Parts ==
  ASSUME NEW w, Whole(w), NEW n \in Nat
  PROVE  /\ Part(n, w, 0) = <<>> /\ Body(n, w) = Part(n, w, Len(w))
         /\ \A p \in 0 .. Len(w) : Part(n, w, p) \in Seq(Nat)
         /\ \A p \in 1 .. Len(w) :
              /\ Part(n, w, p) = Part(n, w, p - 1) \o Gap(w, p)
                                   \o <<(n * Size(w, p)) % Wrap>> \o Repeated(Group(w, p), n)
              /\ Counter(n, w, p) = Len(Part(n, w, p - 1)) + Len(Gap(w, p)) + 1
<1> DEFINE u == UpTo(n, w)
<1>1. /\ u \in [0 .. Len(w) -> Seq(Nat)] /\ u[0] = <<>>
      /\ \A p \in 1 .. Len(w) :
           u[p] = u[p - 1] \o Gap(w, p) \o <<(n * Size(w, p)) % Wrap>> \o Repeated(Group(w, p), n)
  BY UpToSteps
<1>2. \A p : Part(n, w, p) = u[p]
  BY DEF Part
<1>3. /\ Body(n, w) = u[Len(w)]
      /\ \A p : Counter(n, w, p) = Len(Part(n, w, p - 1)) + Len(Gap(w, p)) + 1
  BY DEF Body, Counter, Part, Gap
<1> HIDE DEF u
<1> QED
  BY <1>1, <1>2, <1>3

(* What is in a save, province by province.                                *)
LEMMA Layout ==
  ASSUME NEW w, Whole(w), NEW n \in Nat, NEW p \in 1 .. Len(w)
  PROVE  /\ Part(n, w, p - 1) \in Seq(Nat) /\ Part(n, w, p) \in Seq(Nat)
         /\ Counter(n, w, p) = Len(Part(n, w, p - 1)) + Len(Gap(w, p)) + 1
         /\ Counter(n, w, p) \in Nat
         /\ Long(n, w, p) \in Nat
         /\ Len(Part(n, w, p)) = Counter(n, w, p) + Long(n, w, p)
         /\ \A j \in 1 .. Len(Part(n, w, p - 1)) : Part(n, w, p)[j] = Part(n, w, p - 1)[j]
         /\ \A j \in 1 .. Len(Gap(w, p)) :
              Part(n, w, p)[Len(Part(n, w, p - 1)) + j] = Gap(w, p)[j]
         /\ Part(n, w, p)[Counter(n, w, p)] = (n * Size(w, p)) % Wrap
         /\ \A j \in 1 .. Long(n, w, p) :
              Part(n, w, p)[Counter(n, w, p) + j] = Repeated(Group(w, p), n)[j]
<1> DEFINE a == Part(n, w, p - 1)
           t == Part(n, w, p)
           b == Gap(w, p)
           x == (n * Size(w, p)) % Wrap
           r == Repeated(Group(w, p), n)
           c == Counter(n, w, p)
           m == Long(n, w, p)
<1>1. /\ b \in Seq(Nat) /\ Group(w, p) \in Seq(Nat) /\ Size(w, p) \in Nat
      /\ Len(Group(w, p)) # 0 /\ Len(b) \in Nat
  BY ProvinceTypes
<1>2. x \in Nat
  <2>1. n * Size(w, p) \in Nat /\ Wrap \in Nat \ {0}
    BY <1>1, FilesConstants
  <2>2. \A j \in Nat : j % Wrap \in Nat
    BY <2>1
  <2> QED
    BY <2>1, <2>2
<1>3. r \in Seq(Nat) /\ Len(r) = m /\ m \in Nat
  <2>1. m = n * Len(Group(w, p)) /\ m \in Nat
    BY ProvinceTypes
  <2> HIDE DEF m
  <2> QED
    BY <1>1, <2>1, RepeatedTypes
<1>4. a \in Seq(Nat) /\ t \in Seq(Nat) /\ t = a \o b \o <<x>> \o r /\ c = Len(a) + Len(b) + 1
  <2>1. p - 1 \in 0 .. Len(w) /\ p \in 0 .. Len(w)
    BY ProvinceTypes
  <2> QED
    BY <2>1, Parts
<1> HIDE DEF a, b, x, r, t, c, m
<1>5. /\ Len(t) = Len(a) + Len(b) + 1 + Len(r)
      /\ \A j \in 1 .. Len(a) : t[j] = a[j]
      /\ \A j \in 1 .. Len(b) : t[Len(a) + j] = b[j]
      /\ t[Len(a) + Len(b) + 1] = x
      /\ \A j \in 1 .. Len(r) : t[Len(a) + Len(b) + 1 + j] = r[j]
  <2>1. /\ a \in Seq(Nat) /\ b \in Seq(Nat) /\ x \in Nat /\ r \in Seq(Nat)
        /\ t = a \o b \o <<x>> \o r
    BY <1>1, <1>2, <1>3, <1>4
  <2> QED
    BY <2>1, Bytes
<1>6. Len(a) \in Nat /\ c \in Nat
  BY <1>1, <1>4
<1>7. /\ Len(t) = c + m /\ t[c] = x
      /\ \A j \in 1 .. m : t[c + j] = r[j]
  BY <1>3, <1>4, <1>5
<1> QED
  BY <1>3, <1>4, <1>5, <1>6, <1>7 DEF a, b, x, r, t, c, m

LEMMA Grows ==
  ASSUME NEW w, Whole(w), NEW n \in Nat, NEW p \in 1 .. Len(w)
  PROVE  /\ Len(Part(n, w, p - 1)) <= Len(Part(n, w, p))
         /\ \A j \in 1 .. Len(Part(n, w, p - 1)) : Part(n, w, p)[j] = Part(n, w, p - 1)[j]
<1>1. \A j \in 1 .. Len(Part(n, w, p - 1)) : Part(n, w, p)[j] = Part(n, w, p - 1)[j]
  BY Layout
<1>2. Len(Gap(w, p)) \in Nat
  BY ProvinceTypes
<1>3. Part(n, w, p - 1) \in Seq(Nat) /\ Long(n, w, p) \in Nat
      /\ Counter(n, w, p) = Len(Part(n, w, p - 1)) + Len(Gap(w, p)) + 1
      /\ Len(Part(n, w, p)) = Counter(n, w, p) + Long(n, w, p)
  BY Layout
<1>4. Len(Part(n, w, p - 1)) \in Nat
  BY <1>3
<1> QED
  BY <1>1, <1>2, <1>3, <1>4

(* A save begins with what it is up to a province.                         *)
LEMMA Prefix ==
  ASSUME NEW w, Whole(w), NEW n \in Nat, NEW p \in 0 .. Len(w)
  PROVE  /\ Part(n, w, p) \in Seq(Nat) /\ Body(n, w) \in Seq(Nat)
         /\ Len(Part(n, w, p)) \in Nat /\ Len(Body(n, w)) \in Nat
         /\ Len(Part(n, w, p)) <= Len(Body(n, w))
         /\ \A j \in 1 .. Len(Part(n, w, p)) : Body(n, w)[j] = Part(n, w, p)[j]
<1> DEFINE u(q) == Part(n, w, q)
           N == Len(w)
           Begins(q) == Len(u(p)) <= Len(u(q)) /\ \A j \in 1 .. Len(u(p)) : u(q)[j] = u(p)[j]
           T == {k \in Nat : p + k <= N => Begins(p + k)}
<1>1. N \in Nat /\ p \in Nat
  BY ProvinceTypes
<1>2. \A q \in 0 .. N : u(q) \in Seq(Nat) /\ Len(u(q)) \in Nat
  <2>1. \A q \in 0 .. N : u(q) \in Seq(Nat)
    BY Parts
  <2> HIDE DEF u, N
  <2> QED
    BY <2>1
<1>3. 0 \in T
  BY <1>1, <1>2
<1>4. ASSUME NEW k \in Nat, k \in T PROVE k + 1 \in T
  <2> SUFFICES ASSUME p + (k + 1) <= N PROVE Begins(p + (k + 1))
    OBVIOUS
  <2> DEFINE q == p + k
  <2>1. q \in 0 .. N /\ q + 1 \in 1 .. N /\ p + (k + 1) = q + 1 /\ (q + 1) - 1 = q
    BY <1>1
  <2>2. Begins(q)
    BY <1>4, <2>1
  <2>3. Len(u(q)) <= Len(u(q + 1)) /\ \A j \in 1 .. Len(u(q)) : u(q + 1)[j] = u(q)[j]
    <3>1. q + 1 \in 1 .. Len(w)
      BY <2>1
    <3>2. /\ Len(u((q + 1) - 1)) <= Len(u(q + 1))
          /\ \A j \in 1 .. Len(u((q + 1) - 1)) : u(q + 1)[j] = u((q + 1) - 1)[j]
      <4> HIDE DEF q, N
      <4> QED
        BY <3>1, Grows
    <3> QED
      BY <2>1, <3>2
  <2>4. Len(u(p)) \in Nat /\ Len(u(q)) \in Nat /\ Len(u(q + 1)) \in Nat
    <3>1. p \in 0 .. N /\ q + 1 \in 0 .. N
      BY <1>1, <2>1
    <3> HIDE DEF u, q
    <3> QED
      BY <1>2, <2>1, <3>1
  <2> HIDE DEF u, q
  <2>5. \A j \in 1 .. Len(u(p)) : j \in 1 .. Len(u(q))
    BY <2>2, <2>4
  <2>6. Len(u(p)) <= Len(u(q + 1))
    BY <2>2, <2>3, <2>4
  <2>7. \A j \in 1 .. Len(u(p)) : u(q + 1)[j] = u(p)[j]
    BY <2>2, <2>3, <2>5
  <2> QED
    BY <2>1, <2>6, <2>7
<1> HIDE DEF T
<1>5. N - p \in T
  BY <1>1, <1>3, <1>4, Induction
<1>6. Begins(N)
  BY <1>1, <1>5 DEF T
<1>7. Body(n, w) = u(N)
  BY Parts
<1> QED
  BY <1>1, <1>2, <1>6, <1>7

(* Where province p ends; that of the header is 0.                         *)
End(n, w, p) == Len(Part(n, w, p))

(* What is in a save, from its first byte.                                 *)
LEMMA InBody ==
  ASSUME NEW w, Whole(w), NEW n \in Nat, NEW p \in 1 .. Len(w)
  PROVE  /\ Body(n, w) \in Seq(Nat) /\ Len(Body(n, w)) \in Nat
         /\ End(n, w, p - 1) \in Nat /\ End(n, w, p) \in Nat /\ Counter(n, w, p) \in Nat
         /\ Counter(n, w, p) = End(n, w, p - 1) + Len(Gap(w, p)) + 1
         /\ End(n, w, p) = Counter(n, w, p) + Long(n, w, p)
         /\ End(n, w, p) <= Len(Body(n, w))
         /\ \A j \in 1 .. Len(Gap(w, p)) : Body(n, w)[End(n, w, p - 1) + j] = Gap(w, p)[j]
         /\ Body(n, w)[Counter(n, w, p)] = (n * Size(w, p)) % Wrap
         /\ \A j \in 1 .. Long(n, w, p) :
              Body(n, w)[Counter(n, w, p) + j] = Repeated(Group(w, p), n)[j]
<1> DEFINE t == Part(n, w, p)
           d == Body(n, w)
           s == End(n, w, p - 1)
           e == End(n, w, p)
           c == Counter(n, w, p)
           m == Long(n, w, p)
           h == Len(Gap(w, p))
<1>1. /\ s \in Nat /\ c = s + h + 1 /\ c \in Nat /\ m \in Nat /\ e = c + m /\ h \in Nat
      /\ \A j \in 1 .. h : t[s + j] = Gap(w, p)[j]
      /\ t[c] = (n * Size(w, p)) % Wrap
      /\ \A j \in 1 .. m : t[c + j] = Repeated(Group(w, p), n)[j]
  <2>1. h \in Nat
    BY ProvinceTypes
  <2>2. s \in Nat
    BY Layout DEF End
  <2>3. c = s + h + 1 /\ c \in Nat
    BY Layout DEF End
  <2>4. e = c + m
    BY Layout DEF End
  <2>5. m \in Nat
    BY ProvinceTypes
  <2>6. \A j \in 1 .. h : t[s + j] = Gap(w, p)[j]
    BY Layout DEF End
  <2>7. t[c] = (n * Size(w, p)) % Wrap
    BY Layout
  <2>8. \A j \in 1 .. m : t[c + j] = Repeated(Group(w, p), n)[j]
    BY Layout
  <2> QED
    BY <2>1, <2>2, <2>3, <2>4, <2>5, <2>6, <2>7, <2>8
<1>2. /\ d \in Seq(Nat) /\ Len(d) \in Nat /\ e \in Nat /\ e <= Len(d)
      /\ \A j \in 1 .. e : d[j] = t[j]
  <2>1. p \in 0 .. Len(w)
    BY ProvinceTypes
  <2> QED
    BY <2>1, Prefix DEF End
<1> HIDE DEF t, d, s, e, c, m, h
<1>3. \A j \in 1 .. h : d[s + j] = Gap(w, p)[j]
  <2> TAKE j \in 1 .. h
  <2>1. s + j \in 1 .. e
    BY <1>1
  <2> QED
    BY <1>1, <1>2, <2>1
<1>4. d[c] = (n * Size(w, p)) % Wrap
  <2>1. c \in 1 .. e
    BY <1>1
  <2> QED
    BY <1>1, <1>2, <2>1
<1>5. \A j \in 1 .. m : d[c + j] = Repeated(Group(w, p), n)[j]
  <2> TAKE j \in 1 .. m
  <2>1. c + j \in 1 .. e
    BY <1>1
  <2> QED
    BY <1>1, <1>2, <2>1
<1> QED
  BY <1>1, <1>2, <1>3, <1>4, <1>5 DEF d, s, e, c, m, h

LEMMA Extents ==
  ASSUME NEW w, Whole(w), NEW n \in Nat, NEW p \in 1 .. Len(w)
  PROVE  /\ End(n, w, p - 1) \in Nat /\ End(n, w, p) \in Nat /\ Counter(n, w, p) \in Nat
         /\ Counter(n, w, p) = End(n, w, p - 1) + Len(Gap(w, p)) + 1
         /\ End(n, w, p) = Counter(n, w, p) + Long(n, w, p)
         /\ Len(Gap(w, p)) \in Nat /\ Long(n, w, p) \in Nat
         /\ End(n, w, p - 1) < Counter(n, w, p) /\ Counter(n, w, p) <= End(n, w, p)
         /\ Len(Body(n, w)) \in Nat /\ End(n, w, p) <= Len(Body(n, w))
<1>1. /\ End(n, w, p - 1) \in Nat /\ End(n, w, p) \in Nat /\ Counter(n, w, p) \in Nat
      /\ Len(Body(n, w)) \in Nat /\ End(n, w, p) <= Len(Body(n, w))
  BY InBody
<1>2. Counter(n, w, p) = End(n, w, p - 1) + Len(Gap(w, p)) + 1
  BY InBody
<1>3. End(n, w, p) = Counter(n, w, p) + Long(n, w, p)
  BY InBody
<1>4. Len(Gap(w, p)) \in Nat /\ Long(n, w, p) \in Nat
  BY ProvinceTypes
<1> QED
  BY <1>1, <1>2, <1>3, <1>4

(* The save ends with its last province, and begins with the first.        *)
LEMMA Ends ==
  ASSUME NEW w, Whole(w), NEW n \in Nat
  PROVE  /\ Body(n, w) \in Seq(Nat) /\ Len(Body(n, w)) \in Nat
         /\ End(n, w, 0) = 0 /\ End(n, w, Len(w)) = Len(Body(n, w))
<1>1. Part(n, w, 0) = <<>> /\ Body(n, w) = Part(n, w, Len(w))
  BY Parts
<1>2. Len(w) \in 0 .. Len(w)
  BY ProvinceTypes
<1>3. Body(n, w) \in Seq(Nat) /\ Len(Body(n, w)) \in Nat
  BY <1>2, Prefix
<1>4. Len(<<>>) = 0
  OBVIOUS
<1> QED
  BY <1>1, <1>3, <1>4 DEF End

(* A list that is not overgrown counts its units.                          *)
LEMMA Counts ==
  ASSUME NEW w, Whole(w), NEW n \in Nat, Fits(n, w), NEW p \in 1 .. Len(w)
  PROVE  Body(n, w)[Counter(n, w, p)] = n * Size(w, p)
<1>1. n * Size(w, p) \in Nat
  BY ProvinceTypes
<1>2. n * Size(w, p) < Wrap
  <2>1. p \in DOMAIN w
    BY ProvinceTypes
  <2> QED
    BY <2>1 DEF Fits, Size
<1>3. Wrap \in Nat \ {0}
  BY FilesConstants
<1>4. (n * Size(w, p)) % Wrap = n * Size(w, p)
  <2> DEFINE x == n * Size(w, p)
  <2> HIDE DEF x
  <2>1. x \in 0 .. Wrap - 1
    BY <1>1, <1>2, <1>3 DEF x
  <2>2. x % Wrap = x
    BY <1>3, <2>1, Division
  <2> QED
    BY <2>2 DEF x
<1> QED
  BY <1>4, InBody

(* The counter of a list claims its groups.                                *)
LEMMA CounterClaims ==
  ASSUME NEW w, Whole(w), NEW n \in Nat, n >= 2, Fits(n, w), NEW p \in 1 .. Len(w),
         Cardinality(ToSet(Group(w, p))) >= Distinct
  PROVE  Claims(Body(n, w), Counter(n, w, p), Size(w, p))
<1> DEFINE d == Body(n, w)
           c == Counter(n, w, p)
           z == Size(w, p)
           q == Group(w, p)
           g == Len(q)
           m == Long(n, w, p)
           r == Repeated(q, n)
<1>1. /\ z \in Nat \ {0} /\ q \in Seq(Nat) /\ g = z * Unit /\ g \in Nat \ {0}
      /\ m = n * g /\ m = (n * z) * Unit /\ m \in Nat /\ n * z \in Nat
  BY ProvinceTypes
<1>2. d[c] = n * z
  BY Counts
<1>3. c \in Nat /\ Len(d) \in Nat /\ c + m <= Len(d) /\ \A j \in 1 .. m : d[c + j] = r[j]
  BY InBody
<1>4. /\ \A j \in 1 .. g : j \in 1 .. m /\ r[j] = q[j]
      /\ \A j \in 1 .. m : j + g \in 1 .. m => r[j + g] = r[j]
  <2> HIDE DEF q, m, z
  <2>1. q \in Seq(Nat) /\ Len(q) # 0 /\ m = n * Len(q) /\ n >= 1
    BY <1>1
  <2> QED
    BY <2>1, RepeatedTypes
<1>5. ToSet(q) = {q[j] : j \in 1 .. g}
  <2> HIDE DEF q
  <2>1. DOMAIN q = 1 .. g
    BY <1>1
  <2> QED
    BY <2>1, Zenon DEF ToSet
<1> HIDE DEF d, c, z, q, m, r
<1>6. d[c] >= 2 * z
  <2>1. n * z >= 2 * z
    BY <1>1
  <2> QED
    BY <1>2, <2>1
<1>7. d[c] % z = 0
  BY <1>1, <1>2, Division
<1>8. c + d[c] * Unit <= Len(d)
  BY <1>1, <1>2, <1>3
<1>9. Varied(d, c + 1, z)
  <2>1. {d[j] : j \in c + 1 .. c + 1 + z * Unit - 1} = {q[j] : j \in 1 .. g}
    <3> HIDE DEF g
    <3>1. ASSUME NEW j \in 1 .. g PROVE d[c + j] = q[j]
      BY <1>3, <1>4
    <3>2. \A j \in c + 1 .. c + 1 + g - 1 : j - c \in 1 .. g /\ c + (j - c) = j
      BY <1>1, <1>3
    <3>3. \A j \in 1 .. g : c + j \in c + 1 .. c + 1 + g - 1
      BY <1>1, <1>3
    <3>4. {d[j] : j \in c + 1 .. c + 1 + g - 1} = {q[j] : j \in 1 .. g}
      <4>1. \A j \in c + 1 .. c + 1 + g - 1 : d[j] = q[j - c]
        BY <3>1, <3>2
      <4> QED
        BY <3>1, <3>2, <3>3, <4>1
    <3> QED
      BY <1>1, <3>4
  <2> QED
    BY <1>5, <2>1 DEF Varied, q
<1>10. Repeats(d, c + 1, c + d[c] * Unit, z * Unit)
  <2> HIDE DEF g
  <2>1. c + d[c] * Unit = c + m /\ z * Unit = g
    BY <1>1, <1>2
  <2>2. ASSUME NEW j \in c + 1 .. (c + m) - g PROVE d[j] = d[j + g]
    <3> DEFINE k == j - c
    <3>0. c \in Nat /\ m \in Nat /\ g \in Nat \ {0} /\ j \in Int /\ c + 1 <= j /\ j <= (c + m) - g
      BY <1>1, <1>3
    <3>1. k \in 1 .. m /\ k + g \in 1 .. m /\ c + k = j /\ c + (k + g) = j + g
      BY <3>0
    <3> HIDE DEF k
    <3>2. d[c + k] = r[k] /\ d[c + (k + g)] = r[k + g] /\ r[k + g] = r[k]
      BY <1>3, <1>4, <3>1
    <3> QED
      BY <3>1, <3>2
  <2>3. Repeats(d, c + 1, c + m, g)
    BY <2>2, Zenon DEF Repeats
  <2> QED
    BY <2>1, <2>3
<1> QED
  BY <1>6, <1>7, <1>8, <1>9, <1>10 DEF Claims, d, c, z
-----------------------------------------------------------------------------
(* Which bytes are read as lengths.                                        *)

LEMMA LeastIs ==
  ASSUME NEW T, T \subseteq Nat, NEW k \in T, \A j \in T : k <= j
  PROVE  Min(T) = k
<1> DEFINE m == Min(T)
<1>1. m \in T /\ \A y \in T : m <= y
  BY DEF Min
<1> HIDE DEF m
<1>2. m \in Nat /\ k \in Nat /\ m <= k /\ k <= m
  BY <1>1
<1>3. m = k
  BY <1>2
<1> QED
  BY <1>3 DEF m

(* What the theorems take of a world.                                      *)
LEMMA WorldTypes ==
  ASSUME WorldsLegible, NEW w \in Worlds
  PROVE  /\ Whole(w) /\ Len(w) \in Nat /\ Len(w) \in MinLists .. MaxLists
         /\ \A p \in 1 .. Len(w) : Cardinality(ToSet(Group(w, p))) >= Distinct
         /\ \A n \in Nat : n >= 1 /\ n <= Wrap /\ Fits(n, w) => Legible(n, w)
<1>1. w \in Seq(Province) /\ Len(w) \in MinLists .. MaxLists
  BY DEF WorldsLegible
<1>2. \A p \in DOMAIN w : Len(w[p].group) = w[p].size * Unit
  BY DEF WorldsLegible
<1>3. \A p \in DOMAIN w : Cardinality(ToSet(w[p].group)) >= Distinct
  BY DEF WorldsLegible
<1>4. \A n \in 1 .. Wrap : Fits(n, w) => Legible(n, w)
  BY DEF WorldsLegible
<1>5. Whole(w)
  BY <1>1, <1>2 DEF Whole
<1>6. Len(w) \in Nat /\ DOMAIN w = 1 .. Len(w)
  BY <1>5, ProvinceTypes
<1>7. \A n \in Nat : n >= 1 /\ n <= Wrap => n \in 1 .. Wrap
  BY FilesConstants
<1>8. \A p \in 1 .. Len(w) : Cardinality(ToSet(Group(w, p))) >= Distinct
  BY <1>3, <1>6 DEF Group
<1> QED
  BY <1>1, <1>4, <1>5, <1>6, <1>7, <1>8

(* The provinces follow one another.                                       *)
LEMMA EndsGrow ==
  ASSUME NEW w, Whole(w), NEW n \in Nat, NEW p \in 0 .. Len(w), NEW q \in p .. Len(w)
  PROVE  End(n, w, p) \in Nat /\ End(n, w, q) \in Nat /\ End(n, w, p) <= End(n, w, q)
<1> DEFINE N == Len(w)
           T == {k \in Nat : p + k <= N => End(n, w, p) <= End(n, w, p + k)}
<1>1. N \in Nat
  BY ProvinceTypes
<1>2. \A k \in 0 .. N : End(n, w, k) \in Nat
  BY Prefix DEF End
<1> HIDE DEF N
<1>3. 0 \in T
  BY <1>1, <1>2 DEF N
<1>4. ASSUME NEW k \in Nat, k \in T PROVE k + 1 \in T
  <2> SUFFICES ASSUME p + (k + 1) <= N PROVE End(n, w, p) <= End(n, w, p + (k + 1))
    OBVIOUS
  <2> DEFINE z == p + (k + 1)
  <2>1. z \in 1 .. N /\ z - 1 = p + k /\ p + k \in 0 .. N /\ p \in 0 .. N /\ z \in 0 .. N
    BY <1>1 DEF N
  <2>2. End(n, w, p) <= End(n, w, z - 1)
    BY <1>4, <2>1
  <2>3. End(n, w, z - 1) <= End(n, w, z)
    <3> HIDE DEF z
    <3> QED
      BY <2>1, Grows DEF End, N
  <2> HIDE DEF z
  <2>4. End(n, w, p) <= End(n, w, z)
    BY <1>2, <2>1, <2>2, <2>3
  <2> QED
    BY <2>4 DEF z
<1> HIDE DEF T
<1>5. q - p \in T /\ p + (q - p) = q /\ q <= N
  BY <1>1, <1>3, <1>4, Induction DEF N
<1>6. p \in 0 .. N /\ q \in 0 .. N
  BY <1>1 DEF N
<1> QED
  BY <1>2, <1>5, <1>6 DEF T

(* A gap is in no list.                                                    *)
LEMMA GapIsNoList ==
  ASSUME NEW w, Whole(w), NEW n \in Nat, NEW p \in 1 .. Len(w),
         NEW i \in End(n, w, p - 1) + 1 .. Counter(n, w, p) - 1
  PROVE  ~InList(n, w, i)
<1> SUFFICES ASSUME NEW q \in 1 .. Len(w), i \in Counter(n, w, q) .. End(n, w, q) PROVE FALSE
  BY ProvinceTypes DEF InList, End, Part
<1>0. Len(w) \in Nat
  BY ProvinceTypes
<1>1. /\ End(n, w, p - 1) \in Nat /\ End(n, w, p) \in Nat /\ Counter(n, w, p) \in Nat
      /\ Counter(n, w, p) <= End(n, w, p)
  BY Extents
<1>2. /\ End(n, w, q - 1) \in Nat /\ End(n, w, q) \in Nat /\ Counter(n, w, q) \in Nat
      /\ End(n, w, q - 1) < Counter(n, w, q)
  BY Extents
<1>3. CASE q <= p - 1
  <2>1. q \in 0 .. Len(w) /\ p - 1 \in q .. Len(w)
    BY <1>0, <1>3
  <2>2. End(n, w, q) <= End(n, w, p - 1)
    BY <2>1, EndsGrow
  <2> QED
    BY <1>1, <1>2, <2>2
<1>4. CASE q = p
  BY <1>1, <1>4
<1>5. CASE p <= q - 1
  <2>1. p \in 0 .. Len(w) /\ q - 1 \in p .. Len(w)
    BY <1>0, <1>5
  <2>2. End(n, w, p) <= End(n, w, q - 1)
    BY <2>1, EndsGrow
  <2> QED
    BY <1>1, <1>2, <2>2
<1> QED
  BY <1>0, <1>3, <1>4, <1>5

(* Nothing is read in a byte that is in no list, ...                       *)
LEMMA NothingRead ==
  ASSUME NEW w, NEW n, Legible(n, w), NEW i \in DOMAIN Body(n, w), ~InList(n, w, i)
  PROVE  Readings(Body(n, w), i) = {}
<1>1. \A g \in ToSet(Groups) : ~Claims(Body(n, w), i, g)
  BY DEF Legible
<1> QED
  BY <1>1, SizeTypes DEF Readings, Sizes

(* ... and a counter is read for what it is.                               *)
LEMMA CounterRead ==
  ASSUME NEW w, Whole(w), NEW n \in Nat, n >= 2, Fits(n, w), Legible(n, w),
         NEW p \in 1 .. Len(w), Cardinality(ToSet(Group(w, p))) >= Distinct
  PROVE  /\ Readings(Body(n, w), Counter(n, w, p)) # {}
         /\ Groups[Min(Readings(Body(n, w), Counter(n, w, p)))] = Size(w, p)
         /\ Body(n, w)[Counter(n, w, p)] \div Size(w, p) = n
<1> DEFINE d == Body(n, w)
           c == Counter(n, w, p)
           T == Readings(d, c)
<1>1. PICK k \in DOMAIN Groups :
        Groups[k] = Size(w, p) /\ \A j \in 1 .. k - 1 : ~Claims(d, c, Groups[j])
  <2>1. n > 1 /\ p \in DOMAIN w
    BY ProvinceTypes
  <2> QED
    BY <2>1 DEF Legible, Size
<1>2. T = {j \in DOMAIN Groups : Claims(d, c, Groups[j])}
  BY DEF Readings
<1>3. Claims(d, c, Groups[k])
  BY <1>1, CounterClaims
<1> HIDE DEF d, c, T
<1>4. k \in T /\ T \subseteq Nat /\ \A j \in T : k <= j
  <2>1. DOMAIN Groups = 1 .. Len(Groups) /\ Len(Groups) \in Nat
    BY SizeTypes
  <2>2. k \in T /\ T \subseteq Nat
    BY <1>2, <1>3, <2>1
  <2>3. ASSUME NEW j \in T, j < k PROVE FALSE
    <3>1. j \in 1 .. k - 1
      BY <1>2, <2>1, <2>3
    <3> QED
      BY <1>1, <1>2, <3>1
  <2>4. k \in Nat /\ \A j \in T : j \in Nat
    BY <2>2
  <2> QED
    BY <2>2, <2>3, <2>4
<1>5. Min(T) = k
  BY <1>4, LeastIs
<1>6. d[c] \div Size(w, p) = n
  <2>1. d[c] = n * Size(w, p)
    BY Counts DEF d, c
  <2>2. Size(w, p) \in Nat \ {0}
    BY ProvinceTypes
  <2> QED
    BY <2>1, <2>2, Division
<1> QED
  BY <1>1, <1>4, <1>5, <1>6 DEF T, d, c
-----------------------------------------------------------------------------
(* The scan for lists, from left to right.                                 *)

(* A function that does not move from a to b.                              *)
LEMMA Stays ==
  ASSUME NEW f, NEW a \in Nat, NEW b \in Nat, a <= b,
         \A k \in a + 1 .. b : f[k - 1] = f[a] => f[k] = f[a]
  PROVE  f[b] = f[a]
<1> DEFINE T == {k \in Nat : a + k <= b => f[a + k] = f[a]}
<1>1. 0 \in T
  OBVIOUS
<1>2. ASSUME NEW k \in Nat, k \in T PROVE k + 1 \in T
  <2> SUFFICES ASSUME a + (k + 1) <= b PROVE f[a + (k + 1)] = f[a]
    OBVIOUS
  <2>1. a + (k + 1) \in a + 1 .. b /\ (a + (k + 1)) - 1 = a + k /\ a + k <= b
    OBVIOUS
  <2> QED
    BY <1>2, <2>1
<1> HIDE DEF T
<1>3. b - a \in T /\ a + (b - a) = b
  BY <1>1, <1>2, Induction
<1> QED
  BY <1>3 DEF T

Run    == [off : Nat, group : Nat, reps : Nat]
Scan   == [next : Nat, runs : Seq(Run)]
Start  == [next |-> 1, runs |-> <<>>]

Found(d, i) ==
  [off |-> i, group |-> Groups[Min(Readings(d, i))],
   reps |-> d[i] \div Groups[Min(Readings(d, i))]]

(* What the scan is once it has looked at byte i.                          *)
Step(d, i, was) ==
  IF i < was.next \/ i = Len(d) \/ Readings(d, i) = {} THEN was
  ELSE [next |-> i + d[i] * Unit + 1, runs |-> Append(was.runs, Found(d, i))]

LEMMA StepTypes ==
  ASSUME NEW d \in Seq(Nat), NEW i \in 1 .. Len(d), NEW was \in Scan
  PROVE  Step(d, i, was) \in Scan
<1>1. CASE i < was.next \/ i = Len(d) \/ Readings(d, i) = {}
  BY <1>1 DEF Step
<1>2. CASE ~(i < was.next \/ i = Len(d) \/ Readings(d, i) = {})
  <2> DEFINE T == Readings(d, i)
             k == Min(T)
             g == Groups[k]
  <2>1. T \subseteq Nat /\ T # {} /\ T \subseteq DOMAIN Groups
    BY <1>2, SizeTypes DEF Readings
  <2>2. \E x \in T : \A y \in T : x <= y
    BY <2>1, Smallest
  <2>3. k \in T
    BY <2>2 DEF Min
  <2>4. g \in Nat \ {0}
    BY <2>1, <2>3, SizeTypes
  <2>5. d[i] \in Nat
    OBVIOUS
  <2>6. \A x \in Nat, y \in Nat \ {0} : x \div y \in Nat
    OBVIOUS
  <2>7. Found(d, i) \in Run
    <3> HIDE DEF g
    <3>1. Found(d, i) = [off |-> i, group |-> g, reps |-> d[i] \div g]
      BY DEF Found, g
    <3>2. i \in Nat /\ g \in Nat /\ d[i] \div g \in Nat
      BY <2>4, <2>5, <2>6
    <3> QED
      BY <3>1, <3>2 DEF Run
  <2>8. i + d[i] * Unit + 1 \in Nat
    <3>1. \A x, y, z \in Nat : z + x * y + 1 \in Nat
      OBVIOUS
    <3> QED
      BY <2>5, <3>1, SaveConstants
  <2>9. Append(was.runs, Found(d, i)) \in Seq(Run)
    BY <2>7 DEF Scan
  <2> QED
    BY <1>2, <2>8, <2>9 DEF Step, Scan
<1> QED
  BY <1>1, <1>2

LEMMA ScanSteps ==
  ASSUME NEW d \in Seq(Nat)
  PROVE  \E f : /\ f \in [0 .. Len(d) -> Scan] /\ f[0] = Start
                /\ \A i \in 1 .. Len(d) : f[i] = Step(d, i, f[i - 1])
                /\ Runs(d) = f[Len(d)].runs
<1> DEFINE N == Len(d)
           G == [i \in Nat |-> [was \in Scan |-> IF i \in 1 .. N THEN Step(d, i, was) ELSE Start]]
           Is(q) == q = [i \in 0 .. N |-> IF i = 0 THEN Start ELSE Step(d, i, q[i - 1])]
<1>1. N \in Nat
  OBVIOUS
<1>2. Start \in Scan
  BY DEF Start, Scan
<1>3. \A i \in 1 .. N, was \in Scan : Step(d, i, was) \in Scan
  BY StepTypes
<1>4. G \in [Nat -> [Scan -> Scan]] /\ \A i \in 1 .. N, was \in Scan : G[i][was] = Step(d, i, was)
  <2> HIDE DEF N
  <2> QED
    BY <1>1, <1>2, <1>3
<1> HIDE DEF N, G
<1>5. PICK f : /\ f \in [0 .. N -> Scan]
               /\ f[0] = Start /\ \A i \in 1 .. N : f[i] = G[i][f[i - 1]]
  <2>1. G \in [Nat -> [Scan -> Scan]]
    BY <1>4
  <2>2. \E f : Follows(f, Scan, Start, G, N)
    BY <1>1, <1>2, <2>1, Recursion
  <2> QED
    BY <2>2, Zenon DEF Follows
<1>6. \A i \in 1 .. N : f[i] = Step(d, i, f[i - 1])
  <2>1. \A i \in 1 .. N : i - 1 \in 0 .. N
    BY <1>1
  <2> QED
    BY <1>4, <1>5, <2>1
<1>7. Is(f)
  <2>1. \A i \in 0 .. N : i # 0 => i \in 1 .. N
    BY <1>1
  <2>2. \A i \in 0 .. N : f[i] = IF i = 0 THEN Start ELSE Step(d, i, f[i - 1])
    BY <1>5, <1>6, <2>1
  <2>3. f = [i \in 0 .. N |-> f[i]]
    BY <1>5
  <2> QED
    BY <2>2, <2>3, Zenon
<1> DEFINE u == CHOOSE f1 : Is(f1)
<1>8. Runs(d) = u[N].runs
  BY DEF Runs, Step, Start, Found, N
<1>9. Is(u)
  BY <1>7
<1> HIDE DEF u
<1>10. u[0] = Start /\ (\A i \in 1 .. N : u[i] = Step(d, i, u[i - 1])) /\ DOMAIN u = 0 .. N
  <2>1. 0 \in 0 .. N /\ \A i \in 1 .. N : i \in 0 .. N /\ i # 0
    BY <1>1
  <2> QED
    BY <1>9, <2>1
<1>11. \A i \in 0 .. N : u[i] = f[i]
  <2>1. Alike(u, f, N)
    BY <1>6, <1>10, Zenon DEF Alike
  <2>2. u[0] = f[0]
    BY <1>5, <1>10
  <2> QED
    BY <1>1, <2>1, <2>2, OneFunction, Zenon
<1>12. Runs(d) = f[N].runs
  BY <1>1, <1>8, <1>11
<1> QED
  BY <1>5, <1>6, <1>12 DEF N
(* The lists of a save up to a province, and what the scan is there.       *)
List(n, w, q) == [off |-> Counter(n, w, q), group |-> Size(w, q), reps |-> n]

Lists(n, w, p) == [q \in 1 .. p |-> List(n, w, q)]

There(n, w, p) == [next |-> End(n, w, p) + 1, runs |-> Lists(n, w, p)]

LEMMA OneMoreList ==
  ASSUME NEW n, NEW w, NEW p \in Nat \ {0}
  PROVE  Append(Lists(n, w, p - 1), List(n, w, p)) = Lists(n, w, p)
<1> DEFINE l == Lists(n, w, p - 1)
           x == List(n, w, p)
           T == {List(n, w, q) : q \in 1 .. p}
           r == Append(l, x)
<1>1. l = [q \in 1 .. p - 1 |-> List(n, w, q)] /\ p - 1 \in Nat
  BY DEF Lists
<1>2. l \in Seq(T) /\ Len(l) = p - 1 /\ x \in T
  BY <1>1
<1> HIDE DEF l, x, T
<1>3. r \in Seq(T) /\ Len(r) = p /\ (\A q \in 1 .. p - 1 : r[q] = l[q]) /\ r[p] = x
  BY <1>2
<1> HIDE DEF r
<1>4. \A q \in 1 .. p : r[q] = List(n, w, q)
  <2> SUFFICES ASSUME NEW q \in 1 .. p PROVE r[q] = List(n, w, q)
    OBVIOUS
  <2>1. CASE q = p
    BY <1>3, <2>1 DEF x
  <2>2. CASE q \in 1 .. p - 1
    BY <1>1, <1>3, <2>2
  <2>3. q = p \/ q \in 1 .. p - 1
    OBVIOUS
  <2> QED
    BY <2>1, <2>2, <2>3
<1>5. r = [q \in 1 .. p |-> r[q]]
  BY <1>3
<1>6. r = [q \in 1 .. p |-> List(n, w, q)]
  BY <1>4, <1>5
<1> QED
  BY <1>6 DEF l, x, r, Lists

(* Past one more list: the gap is passed over, the counter is read, and    *)
(* the copies are skipped.                                                 *)
LEMMA ScanOfList ==
  ASSUME NEW w, Whole(w), NEW n \in Nat, n >= 2, Fits(n, w), Legible(n, w),
         NEW p \in 1 .. Len(w), Cardinality(ToSet(Group(w, p))) >= Distinct,
         NEW f, \A i \in 1 .. Len(Body(n, w)) : f[i] = Step(Body(n, w), i, f[i - 1]),
         f[End(n, w, p - 1)] = There(n, w, p - 1)
  PROVE  f[End(n, w, p)] = There(n, w, p)
<1> DEFINE d == Body(n, w)
           N == Len(d)
           a == End(n, w, p - 1)
           c == Counter(n, w, p)
           m == Long(n, w, p)
           e == End(n, w, p)
           V == There(n, w, p - 1)
           W == There(n, w, p)
<1>1. /\ a \in Nat /\ c \in Nat /\ e \in Nat /\ m \in Nat /\ N \in Nat
      /\ a < c /\ c <= e /\ e <= N /\ e = c + m
  BY Extents
<1>2. m >= 1
  <2> DEFINE g == Len(Group(w, p))
  <2>1. m = n * g /\ g \in Nat \ {0}
    BY ProvinceTypes
  <2> HIDE DEF g, m
  <2>2. n * g >= 1
    BY <2>1
  <2> QED
    BY <2>1, <2>2
<1>3. V.next = a + 1 /\ V.runs = Lists(n, w, p - 1) /\ W.next = e + 1
  BY DEF There
<1>4. DOMAIN d = 1 .. N
  <2>1. d \in Seq(Nat)
    BY Ends
  <2> QED
    BY <2>1
<1>5. \A i \in a + 1 .. c - 1 : Readings(d, i) = {}
  <2> TAKE i \in a + 1 .. c - 1
  <2>1. ~InList(n, w, i)
    BY GapIsNoList
  <2>2. i \in DOMAIN d
    BY <1>1, <1>4
  <2> QED
    BY <2>1, <2>2, NothingRead
<1>6. Readings(d, c) # {} /\ Groups[Min(Readings(d, c))] = Size(w, p) /\ d[c] \div Size(w, p) = n
  BY CounterRead
<1>7. d[c] * Unit = m
  <2>1. d[c] = n * Size(w, p)
    BY Counts
  <2>2. m = (n * Size(w, p)) * Unit
    BY ProvinceTypes
  <2> HIDE DEF d, c, m
  <2> QED
    BY <2>1, <2>2
<1>8. \A i \in 1 .. N : f[i] = Step(d, i, f[i - 1])
  OBVIOUS
<1>9. f[a] = V
  OBVIOUS
<1> HIDE DEF d, N, a, c, m, e, V, W
<1>10. f[c - 1] = V
  <2>1. ASSUME NEW i \in a + 1 .. c - 1, f[i - 1] = f[a] PROVE f[i] = f[a]
    <3>1. i \in 1 .. N
      BY <1>1
    <3>2. f[i] = Step(d, i, V)
      BY <1>8, <1>9, <2>1, <3>1
    <3> QED
      BY <1>5, <1>9, <3>2 DEF Step
  <2>2. c - 1 \in Nat /\ a <= c - 1
    BY <1>1
  <2> QED
    BY <1>1, <1>9, <2>1, <2>2, Stays
<1>11. f[c] = W
  <2>1. c \in 1 .. N /\ ~(c < V.next) /\ c # Len(d)
    BY <1>1, <1>2, <1>3 DEF N
  <2>2. f[c] = Step(d, c, V)
    BY <1>8, <1>10, <2>1
  <2>3. f[c] = [next |-> c + d[c] * Unit + 1, runs |-> Append(V.runs, Found(d, c))]
    BY <1>6, <2>1, <2>2 DEF Step
  <2>4. Found(d, c) = List(n, w, p)
    BY <1>6 DEF Found, List, c
  <2>5. Append(V.runs, Found(d, c)) = Lists(n, w, p)
    <3>1. p \in Nat \ {0}
      BY ProvinceTypes
    <3> QED
      BY <1>3, <2>4, <3>1, OneMoreList
  <2>6. c + d[c] * Unit + 1 = e + 1
    BY <1>1, <1>7
  <2> QED
    BY <2>3, <2>5, <2>6 DEF There, W, e
<1>12. f[e] = f[c]
  <2>1. ASSUME NEW i \in c + 1 .. e, f[i - 1] = f[c] PROVE f[i] = f[c]
    <3>1. i \in 1 .. N /\ i < W.next
      BY <1>1, <1>3
    <3>2. f[i] = Step(d, i, W)
      BY <1>8, <1>11, <2>1, <3>1
    <3> QED
      BY <1>11, <3>1, <3>2 DEF Step
  <2> QED
    BY <1>1, <2>1, Stays
<1> QED
  BY <1>11, <1>12 DEF e, W

(* The lists found in a save are its lists ...                             *)
LEMMA ListsFound ==
  ASSUME WorldsLegible, NEW w \in Worlds, NEW n \in Nat, n >= 2, n <= Wrap, Fits(n, w)
  PROVE  Runs(Body(n, w)) = Lists(n, w, Len(w))
<1> DEFINE d == Body(n, w)
<1>1. /\ Whole(w) /\ Len(w) \in Nat /\ Legible(n, w)
      /\ \A p \in 1 .. Len(w) : Cardinality(ToSet(Group(w, p))) >= Distinct
  BY WorldTypes
<1>2. d \in Seq(Nat) /\ End(n, w, 0) = 0 /\ End(n, w, Len(w)) = Len(d)
  BY <1>1, Ends
<1>3. PICK f : /\ f[0] = Start /\ Runs(d) = f[Len(d)].runs
               /\ \A i \in 1 .. Len(d) : f[i] = Step(d, i, f[i - 1])
  <2> HIDE DEF d
  <2>1. \E f : /\ f \in [0 .. Len(d) -> Scan] /\ f[0] = Start
               /\ \A i \in 1 .. Len(d) : f[i] = Step(d, i, f[i - 1])
               /\ Runs(d) = f[Len(d)].runs
    BY <1>2, ScanSteps
  <2> QED
    BY <2>1, Zenon
<1> DEFINE T == {p \in Nat : p <= Len(w) => f[End(n, w, p)] = There(n, w, p)}
<1>4. 0 \in T
  <2>1. Lists(n, w, 0) = <<>>
    BY DEF Lists
  <2>2. There(n, w, 0) = Start
    BY <1>2, <2>1 DEF There, Start
  <2> QED
    BY <1>2, <1>3, <2>2
<1>5. ASSUME NEW p \in Nat, p \in T PROVE p + 1 \in T
  <2> SUFFICES ASSUME p + 1 <= Len(w) PROVE f[End(n, w, p + 1)] = There(n, w, p + 1)
    OBVIOUS
  <2> DEFINE q == p + 1
  <2>1. q \in 1 .. Len(w) /\ q - 1 = p
    BY <1>1
  <2>2. f[End(n, w, q - 1)] = There(n, w, q - 1)
    BY <1>1, <1>5, <2>1
  <2>3. Cardinality(ToSet(Group(w, q))) >= Distinct
    BY <1>1, <2>1
  <2> HIDE DEF q, T
  <2>4. f[End(n, w, q)] = There(n, w, q)
    BY <1>1, <1>3, <2>1, <2>2, <2>3, ScanOfList
  <2> QED
    BY <2>4 DEF q
<1> HIDE DEF T
<1>6. Len(w) \in T
  BY <1>1, <1>4, <1>5, Induction
<1>7. f[Len(d)] = There(n, w, Len(w))
  BY <1>1, <1>2, <1>6 DEF T
<1> QED
  BY <1>3, <1>7 DEF There

(* ... and none are found in one that has a single group of each.          *)
LEMMA NoListsFound ==
  ASSUME WorldsLegible, NEW w \in Worlds, Fits(1, w)
  PROVE  Runs(Body(1, w)) = <<>>
<1> DEFINE d == Body(1, w)
<1>1. Whole(w) /\ Legible(1, w)
  BY WorldTypes, FilesConstants
<1>2. d \in Seq(Nat) /\ Len(d) \in Nat /\ DOMAIN d = 1 .. Len(d)
  BY <1>1, Ends
<1>3. \A i \in 1 .. Len(d) : Readings(d, i) = {}
  <2> TAKE i \in 1 .. Len(d)
  <2>1. ~InList(1, w, i)
    BY DEF InList
  <2> QED
    BY <1>1, <1>2, <2>1, NothingRead
<1> HIDE DEF d
<1>4. PICK f : /\ f[0] = Start /\ Runs(d) = f[Len(d)].runs
               /\ \A i \in 1 .. Len(d) : f[i] = Step(d, i, f[i - 1])
  <2>1. \E f : /\ f \in [0 .. Len(d) -> Scan] /\ f[0] = Start
               /\ \A i \in 1 .. Len(d) : f[i] = Step(d, i, f[i - 1])
               /\ Runs(d) = f[Len(d)].runs
    BY <1>2, ScanSteps
  <2> QED
    BY <2>1, Zenon
<1>5. f[Len(d)] = f[0]
  <2>1. ASSUME NEW i \in 0 + 1 .. Len(d), f[i - 1] = f[0] PROVE f[i] = f[0]
    <3>1. i \in 1 .. Len(d)
      OBVIOUS
    <3>2. f[i] = Step(d, i, f[0])
      BY <1>4, <2>1, <3>1
    <3> QED
      BY <1>3, <3>1, <3>2 DEF Step
  <2>2. 0 \in Nat /\ 0 <= Len(d)
    BY <1>2
  <2> QED
    BY <1>2, <2>1, <2>2, Stays
<1> QED
  BY <1>4, <1>5 DEF Start, d
-----------------------------------------------------------------------------
(* What is kept of a save.                                                 *)

LEMMA Excerpt ==
  ASSUME NEW d \in Seq(Nat), NEW b \in Seq(Nat), NEW a \in Nat, a + Len(b) <= Len(d),
         \A j \in 1 .. Len(b) : d[a + j] = b[j]
  PROVE  SubSeq(d, a + 1, a + Len(b)) = b
<1> DEFINE m == a + 1
           n == a + Len(b)
           s == SubSeq(d, m, n)
           g == Len(b)
<1>1. g \in Nat /\ m \in Int /\ n \in Int /\ Len(d) \in Nat /\ m = a + 1 /\ n = a + g
  OBVIOUS
<1>2. \A i \in m .. n : d[i] \in Nat
  <2> TAKE i \in m .. n
  <2>1. i \in 1 .. Len(d)
    BY <1>1
  <2> QED
    BY <2>1
<1> HIDE DEF m, n
<1>3. /\ s \in Seq(Nat) /\ Len(s) = (IF m <= n THEN n - m + 1 ELSE 0)
      /\ \A i \in 1 .. n - m + 1 : s[i] = d[m + i - 1]
  BY <1>1, <1>2, SubSeqProperties
<1> HIDE DEF s
<1>4. Len(s) = g
  BY <1>1, <1>3
<1>5. \A i \in 1 .. Len(s) : s[i] = b[i]
  <2> TAKE i \in 1 .. Len(s)
  <2>1. i \in 1 .. g /\ i \in 1 .. n - m + 1 /\ m + i - 1 = a + i
    BY <1>1, <1>4
  <2> QED
    BY <1>3, <2>1
<1>6. s = b
  BY <1>3, <1>4, <1>5, SeqEqual
<1> QED
  BY <1>6 DEF s, m, n

(* What the rewriting appends for list k.                                  *)
Kept(d, runs, k, t) ==
  t \o SubSeq(d, Past(runs, k - 1) + 1, runs[k].off - 1)
    \o <<runs[k].group>>
    \o SubSeq(d, runs[k].off + 1, runs[k].off + runs[k].group * Unit)

LEMMA Rewriting ==
  ASSUME NEW d, NEW runs, NEW N \in Nat, Len(runs) = N, NEW h,
         h[0] = <<>>, \A k \in 1 .. N : h[k] = Kept(d, runs, k, h[k - 1])
  PROVE  OneGroupEach(d, runs) = h[N] \o SubSeq(d, Past(runs, N) + 1, Len(d))
<1> DEFINE Is(q) == q = [k \in 0 .. N |-> IF k = 0 THEN <<>> ELSE Kept(d, runs, k, q[k - 1])]
           f == [k \in 0 .. N |-> h[k]]
           u == CHOOSE f1 : Is(f1)
<1>1. OneGroupEach(d, runs) = u[N] \o SubSeq(d, Past(runs, N) + 1, Len(d))
  BY DEF OneGroupEach, Kept
<1>2. Is(f)
  <2>1. \A k \in 0 .. N : k # 0 => k \in 1 .. N /\ k - 1 \in 0 .. N
    OBVIOUS
  <2>2. \A k \in 0 .. N : k # 0 => f[k - 1] = h[k - 1]
    BY <2>1
  <2>3. \A k \in 0 .. N : f[k] = IF k = 0 THEN <<>> ELSE Kept(d, runs, k, f[k - 1])
    BY <2>1, <2>2
  <2> HIDE DEF f
  <2>4. f = [k \in 0 .. N |-> f[k]]
    BY DEF f
  <2> QED
    BY <2>3, <2>4, Zenon
<1>3. Is(u)
  BY <1>2
<1> HIDE DEF u
<1>4. u[0] = <<>> /\ \A k \in 1 .. N : u[k] = Kept(d, runs, k, u[k - 1])
  <2>1. 0 \in 0 .. N /\ \A k \in 1 .. N : k \in 0 .. N /\ k # 0
    OBVIOUS
  <2> QED
    BY <1>3, <2>1
<1>5. \A k \in 0 .. N : u[k] = h[k]
  <2>1. Alike(u, h, N)
    BY <1>4, Zenon DEF Alike
  <2>2. u[0] = h[0]
    BY <1>4
  <2>3. N \in Nat
    OBVIOUS
  <2> HIDE DEF f
  <2> QED
    BY <2>1, <2>2, <2>3, OneFunction, Zenon
<1>6. u[N] = h[N]
  BY <1>5
<1> QED
  BY <1>1, <1>6

(* The parts of the save that are kept.                                    *)
LEMMA PartsKept ==
  ASSUME NEW w, Whole(w), NEW n \in Nat, n >= 2, Fits(n, w), NEW p \in 1 .. Len(w)
  PROVE  /\ SubSeq(Body(n, w), End(n, w, p - 1) + 1, Counter(n, w, p) - 1) = Gap(w, p)
         /\ SubSeq(Body(n, w), Counter(n, w, p) + 1, Counter(n, w, p) + Size(w, p) * Unit)
              = Repeated(Group(w, p), 1)
         /\ (1 * Size(w, p)) % Wrap = Size(w, p)
         /\ Counter(n, w, p) + Size(w, p) * n * Unit = End(n, w, p)
<1> DEFINE d == Body(n, w)
           a == End(n, w, p - 1)
           c == Counter(n, w, p)
           e == End(n, w, p)
           b == Gap(w, p)
           q == Group(w, p)
           z == Size(w, p)
           m == Long(n, w, p)
           r == Repeated(q, n)
           o == Repeated(q, 1)
<1>1. /\ a \in Nat /\ c \in Nat /\ e \in Nat /\ Len(d) \in Nat /\ Len(b) \in Nat
      /\ c = a + Len(b) + 1 /\ e = c + m /\ e <= Len(d) /\ m \in Nat
  BY Extents
<1>2. d \in Seq(Nat)
  BY Ends
<1>3. /\ b \in Seq(Nat) /\ q \in Seq(Nat) /\ z \in Nat \ {0} /\ Len(q) = z * Unit
      /\ Len(q) \in Nat \ {0} /\ m = n * Len(q) /\ m = (n * z) * Unit /\ n * z \in Nat
  BY ProvinceTypes
<1>4. \A j \in 1 .. Len(b) : d[a + j] = b[j]
  BY InBody
<1>5. \A j \in 1 .. m : d[c + j] = r[j]
  BY InBody
<1>6. n * z < Wrap
  <2>1. p \in DOMAIN w
    BY ProvinceTypes
  <2> QED
    BY <2>1 DEF Fits, Size
<1> HIDE DEF d, a, c, e, b, q, z, m
<1>7. SubSeq(d, a + 1, c - 1) = b
  <2>1. a + Len(b) <= Len(d) /\ c - 1 = a + Len(b)
    BY <1>1
  <2> QED
    BY <1>1, <1>2, <1>3, <1>4, <2>1, Excerpt
<1>8. SubSeq(d, c + 1, c + z * Unit) = o
  <2>0. q \in Seq(Nat) /\ Len(q) # 0 /\ n >= 1 /\ 1 \in Nat /\ 1 >= 1
    BY <1>3
  <2>1. /\ o \in Seq(Nat) /\ Len(o) = 1 * Len(q)
        /\ \A j \in 1 .. Len(q) : o[j] = q[j]
    BY <2>0, RepeatedTypes
  <2>2. \A j \in 1 .. Len(q) : j \in 1 .. m /\ r[j] = q[j]
    <3>1. \A j \in 1 .. Len(q) : j \in 1 .. n * Len(q) /\ r[j] = q[j]
      BY <2>0, RepeatedTypes
    <3>2. m = n * Len(q)
      BY <1>3
    <3> QED
      BY <3>1, <3>2
  <2> HIDE DEF o, r
  <2> DEFINE g == Len(q)
  <2>3. g \in Nat \ {0} /\ Len(o) = g /\ m >= g
    <3> HIDE DEF g
    <3>1. n * g >= g
      BY <1>3 DEF g
    <3> QED
      BY <1>3, <2>1, <3>1 DEF g
  <2> HIDE DEF g
  <2>4. c + Len(o) <= Len(d)
    BY <1>1, <2>3
  <2>5. \A j \in 1 .. Len(o) : d[c + j] = o[j]
    BY <1>5, <2>1, <2>2, <2>3 DEF g
  <2>6. SubSeq(d, c + 1, c + Len(o)) = o
    BY <1>1, <1>2, <2>1, <2>4, <2>5, Excerpt
  <2>7. Len(o) = z * Unit
    BY <1>3, <2>3 DEF g
  <2> QED
    BY <2>6, <2>7
<1>9. (1 * z) % Wrap = z
  <2>1. z <= n * z
    BY <1>3
  <2>2. Wrap \in Nat \ {0}
    BY FilesConstants
  <2>3. z \in 0 .. Wrap - 1 /\ 1 * z = z
    <3>1. \A x, y, v \in Nat : x <= y /\ y < v => x \in 0 .. v - 1 /\ 1 * x = x
      OBVIOUS
    <3> QED
      BY <1>3, <1>6, <2>1, <2>2, <3>1
  <2> QED
    BY <2>2, <2>3, Division
<1>10. c + z * n * Unit = e
  <2>1. z * n * Unit = (n * z) * Unit
    BY <1>3, SaveConstants
  <2> QED
    BY <1>1, <1>3, <2>1
<1> QED
  BY <1>7, <1>8, <1>9, <1>10 DEF d, a, c, e, b, q, z

LEMMA ListsAre ==
  ASSUME NEW n \in Nat, NEW w, NEW N \in Nat
  PROVE  /\ Len(Lists(n, w, N)) = N
         /\ \A k \in 1 .. N : /\ Lists(n, w, N)[k].off = Counter(n, w, k)
                              /\ Lists(n, w, N)[k].group = Size(w, k)
                              /\ Lists(n, w, N)[k].reps = n
  BY DEF Lists, List

LEMMA PastIs ==
  ASSUME NEW w, Whole(w), NEW n \in Nat, n >= 2, Fits(n, w), NEW k \in 0 .. Len(w)
  PROVE  Past(Lists(n, w, Len(w)), k) = End(n, w, k)
<1> DEFINE N == Len(w)
           runs == Lists(n, w, N)
<1>1. N \in Nat
  BY ProvinceTypes
<1>2. \A j \in 1 .. N : /\ runs[j].off = Counter(n, w, j)
                        /\ runs[j].group = Size(w, j) /\ runs[j].reps = n
  BY <1>1, ListsAre
<1>3. CASE k = 0
  BY <1>3, Ends DEF Past
<1>4. CASE k # 0
  <2>1. k \in 1 .. N
    BY <1>4
  <2> HIDE DEF runs, N
  <2>2. Past(runs, k) = Counter(n, w, k) + Size(w, k) * n * Unit
    BY <1>2, <1>4, <2>1 DEF Past
  <2>3. Counter(n, w, k) + Size(w, k) * n * Unit = End(n, w, k)
    BY <2>1, PartsKept DEF N
  <2> QED
    BY <2>2, <2>3 DEF runs, N
<1> QED
  BY <1>3, <1>4

(* The save that is left is the one with a single group of each.           *)
LEMMA OneGroupKept ==
  ASSUME NEW w, Whole(w), NEW n \in Nat, n >= 2, Fits(n, w)
  PROVE  OneGroupEach(Body(n, w), Lists(n, w, Len(w))) = Body(1, w)
<1> DEFINE N == Len(w)
           d == Body(n, w)
           runs == Lists(n, w, N)
           h == [k \in 0 .. N |-> Part(1, w, k)]
<1>1. N \in Nat
  BY ProvinceTypes
<1>2. /\ Len(runs) = N
      /\ \A k \in 1 .. N : /\ runs[k].off = Counter(n, w, k)
                           /\ runs[k].group = Size(w, k) /\ runs[k].reps = n
  BY <1>1, ListsAre
<1>3. \A k \in 0 .. N : Past(runs, k) = End(n, w, k)
  BY PastIs
<1>4. \A k \in 1 .. N : Part(1, w, k) = Kept(d, runs, k, Part(1, w, k - 1))
  <2> TAKE k \in 1 .. N
  <2>1. Part(1, w, k) = Part(1, w, k - 1) \o Gap(w, k) \o <<(1 * Size(w, k)) % Wrap>>
                          \o Repeated(Group(w, k), 1)
    BY Parts
  <2>2. /\ SubSeq(d, End(n, w, k - 1) + 1, Counter(n, w, k) - 1) = Gap(w, k)
        /\ SubSeq(d, Counter(n, w, k) + 1, Counter(n, w, k) + Size(w, k) * Unit)
             = Repeated(Group(w, k), 1)
        /\ (1 * Size(w, k)) % Wrap = Size(w, k)
    BY PartsKept
  <2>3. Past(runs, k - 1) = End(n, w, k - 1)
    BY <1>1, <1>3
  <2> HIDE DEF runs, d
  <2>4. Kept(d, runs, k, Part(1, w, k - 1))
          = Part(1, w, k - 1) \o Gap(w, k) \o <<Size(w, k)>> \o Repeated(Group(w, k), 1)
    BY <1>2, <2>2, <2>3 DEF Kept
  <2> QED
    BY <2>1, <2>2, <2>4
<1>5. h[0] = <<>> /\ h[N] = Body(1, w)
  BY <1>1, Parts
<1>6. \A k \in 1 .. N : h[k] = Kept(d, runs, k, h[k - 1])
  <2> HIDE DEF runs, d, N
  <2>1. \A k \in 1 .. N : k \in 0 .. N /\ k - 1 \in 0 .. N
    BY <1>1
  <2> QED
    BY <1>4, <2>1
<1>7. OneGroupEach(d, runs) = h[N] \o SubSeq(d, Past(runs, N) + 1, Len(d))
  <2> HIDE DEF runs, d, N, h
  <2> QED
    BY <1>1, <1>2, <1>5, <1>6, Rewriting
<1>8. SubSeq(d, Past(runs, N) + 1, Len(d)) = <<>>
  <2>1. Past(runs, N) = Len(d) /\ Len(d) \in Nat
    BY <1>1, <1>3, Ends
  <2> HIDE DEF runs, d
  <2> QED
    BY <2>1, SubSeqEmpty
<1>9. Body(1, w) \in Seq(Nat)
  BY Ends
<1> HIDE DEF runs, d, N, h
<1>10. OneGroupEach(d, runs) = Body(1, w)
  BY <1>5, <1>7, <1>8, <1>9, ConcatEmptySeq
<1> QED
  BY <1>10 DEF runs, d, N

LEMMA NothingRewritten ==
  ASSUME NEW d \in Seq(Nat)
  PROVE  OneGroupEach(d, <<>>) = d
<1> DEFINE h == [k \in 0 .. 0 |-> <<>>]
<1>1. Len(<<>>) = 0 /\ h[0] = <<>> /\ Past(<<>>, 0) = 0
  BY DEF Past
<1>2. OneGroupEach(d, <<>>) = h[0] \o SubSeq(d, Past(<<>>, 0) + 1, Len(d))
  <2>1. \A k \in 1 .. 0 : h[k] = Kept(d, <<>>, k, h[k - 1])
    OBVIOUS
  <2> HIDE DEF h
  <2> QED
    BY <1>1, <2>1, Rewriting
<1>3. SubSeq(d, 1, Len(d)) = d
  BY SubSeqFull
<1>4. OneGroupEach(d, <<>>) = <<>> \o d
  <2>1. Past(<<>>, 0) + 1 = 1
    BY <1>1
  <2>2. OneGroupEach(d, <<>>) = h[0] \o SubSeq(d, 1, Len(d))
    BY <1>2, <2>1, Zenon
  <2> QED
    BY <1>1, <1>3, <2>2, Zenon
<1> QED
  BY <1>4, ConcatEmptySeq
-----------------------------------------------------------------------------
(* What the host and the tool make of a save.                              *)

LEMMA WorldSize ==
  ASSUME WorldsLegible, NEW w \in Worlds
  PROVE  Len(w) \in Nat \ {0}
<1>1. Len(w) \in Nat /\ Len(w) \in MinLists .. MaxLists
  BY WorldTypes
<1>2. MinLists \in Nat \ {0} /\ MaxLists \in Nat
  BY SaveConstants
<1> QED
  BY <1>1, <1>2

(* No more copies fit than a counter has values.                           *)
LEMMA FitsBound ==
  ASSUME WorldsLegible, NEW w \in Worlds, NEW n \in Nat, Fits(n, w)
  PROVE  n < Wrap
<1>1. Whole(w) /\ Len(w) \in Nat \ {0}
  BY WorldTypes, WorldSize
<1>2. 1 \in 1 .. Len(w)
  BY <1>1
<1>3. Size(w, 1) \in Nat \ {0} /\ 1 \in DOMAIN w
  BY <1>1, <1>2, ProvinceTypes
<1>4. n * Size(w, 1) < Wrap
  BY <1>3 DEF Fits, Size
<1>5. \A x \in Nat \ {0} : n <= n * x /\ n * x \in Nat
  OBVIOUS
<1>6. \A x, y, z \in Nat : x <= y /\ y < z => x < z
  OBVIOUS
<1> QED
  BY <1>3, <1>4, <1>5, <1>6, FilesConstants

(* Fewer copies fit where more do.                                         *)
LEMMA FewerFit ==
  ASSUME NEW w, Whole(w), NEW n \in Nat, NEW m \in Nat, m <= n, Fits(n, w)
  PROVE  Fits(m, w)
<1> SUFFICES ASSUME NEW p \in DOMAIN w PROVE m * w[p].size < Wrap
  BY DEF Fits
<1>1. Size(w, p) \in Nat
  BY ProvinceTypes
<1>2. n * Size(w, p) < Wrap
  BY DEF Fits, Size
<1>3. \A x \in Nat : m * x <= n * x /\ m * x \in Nat /\ n * x \in Nat
  OBVIOUS
<1>4. \A x, y, z \in Nat : x <= y /\ y < z => x < z
  OBVIOUS
<1>5. m * Size(w, p) < Wrap
  BY <1>1, <1>2, <1>3, <1>4, FilesConstants
<1> QED
  BY <1>5 DEF Size

LEMMA ListsPlausible ==
  ASSUME WorldsLegible, NEW w \in Worlds, NEW n \in Nat
  PROVE  Plausible(Lists(n, w, Len(w)))
<1> DEFINE N == Len(w)
           runs == Lists(n, w, N)
<1>1. N \in Nat \ {0} /\ N \in MinLists .. MaxLists
  BY WorldSize, WorldTypes
<1>2. runs = [q \in 1 .. N |-> List(n, w, q)] /\ \A q : List(n, w, q).reps = n
  BY DEF Lists, List
<1>3. Len(runs) = N
  BY <1>1, ListsAre
<1>4. {r.reps : r \in ToSet(runs)} = {n}
  <2>1. ToSet(runs) = {runs[q] : q \in 1 .. N}
    <3>1. DOMAIN runs = 1 .. N
      BY <1>2
    <3> HIDE DEF runs
    <3> QED
      BY <3>1 DEF ToSet
  <2>2. 1 \in 1 .. N
    BY <1>1
  <2>3. \A q \in 1 .. N : runs[q].reps = n
    <3> HIDE DEF runs
    <3> QED
      BY <1>2
  <2> HIDE DEF runs, N
  <2> QED
    BY <2>1, <2>2, <2>3
<1>5. Cardinality({n}) = 1
  BY FS_Singleton
<1> HIDE DEF runs, N
<1>6. Cardinality({r.reps : r \in ToSet(runs)}) = 1
  BY <1>4, <1>5
<1> QED
  BY <1>1, <1>3, <1>6 DEF Plausible, runs, N

(* Of any save whose counters have not wrapped, the lists that are found   *)
(* are none or can be trusted, and one group of each is kept.              *)
LEMMA SaveRead ==
  ASSUME WorldsLegible, NEW w \in Worlds, NEW n \in Nat, n >= 1, Fits(n, w)
  PROVE  /\ Runs(Body(n, w)) = <<>> \/ Plausible(Runs(Body(n, w)))
         /\ OneGroupEach(Body(n, w), Runs(Body(n, w))) = Body(1, w)
         /\ Runs(Body(n, w)) = <<>> => Body(n, w) = Body(1, w)
<1>1. Whole(w)
  BY WorldTypes
<1>2. CASE n = 1
  <2>1. Runs(Body(1, w)) = <<>>
    BY <1>2, NoListsFound
  <2>2. OneGroupEach(Body(1, w), <<>>) = Body(1, w)
    BY <1>1, Ends, NothingRewritten
  <2> QED
    BY <1>2, <2>1, <2>2
<1>3. CASE n >= 2
  <2>1. n <= Wrap
    BY FitsBound, FilesConstants
  <2>2. Runs(Body(n, w)) = Lists(n, w, Len(w))
    BY <1>3, <2>1, ListsFound
  <2>3. Plausible(Lists(n, w, Len(w)))
    BY ListsPlausible
  <2>4. OneGroupEach(Body(n, w), Lists(n, w, Len(w))) = Body(1, w)
    BY <1>1, <1>3, OneGroupKept
  <2>5. Lists(n, w, Len(w)) # <<>>
    <3>1. Len(Lists(n, w, Len(w))) # 0
      BY WorldSize, ListsAre
    <3> QED
      BY <3>1
  <2> QED
    BY <2>2, <2>3, <2>4, <2>5
<1> QED
  BY <1>2, <1>3

LEMMA Collapses ==
  ASSUME WorldsLegible, NEW w \in Worlds, NEW n \in Nat, n >= 1, Fits(n, w)
  PROVE  Collapse([header |-> "junk", body |-> Body(n, w)])
           = [header |-> "stamped", body |-> Body(1, w)]
<1> DEFINE d == Body(n, w)
           o == Body(1, w)
<1>1. /\ Runs(d) = <<>> \/ Plausible(Runs(d))
      /\ OneGroupEach(d, Runs(d)) = o
      /\ Runs(d) = <<>> => d = o
  BY SaveRead
<1> HIDE DEF d, o
<1>2. (IF Plausible(Runs(d)) THEN OneGroupEach(d, Runs(d)) ELSE d) = o
  BY <1>1
<1> QED
  BY <1>2 DEF Collapse, Stamped, d, o

(* A save tells how many copies it has, whatever its world.                *)
LEMMA CopiesTold ==
  ASSUME WorldsLegible, NEW v \in Worlds, NEW w \in Worlds,
         NEW m \in Nat, NEW n \in Nat, m >= 1, n >= 1, Fits(m, v), Fits(n, w),
         Body(m, v) = Body(n, w)
  PROVE  m = n
<1>1. ASSUME NEW x \in Worlds, NEW k \in Nat, k >= 2, Fits(k, x)
      PROVE  /\ Runs(Body(k, x)) = Lists(k, x, Len(x)) /\ Len(x) \in Nat \ {0}
             /\ Len(Lists(k, x, Len(x))) # 0 /\ Lists(k, x, Len(x))[1].reps = k
  <2>1. k <= Wrap
    BY <1>1, FitsBound, FilesConstants
  <2>2. Runs(Body(k, x)) = Lists(k, x, Len(x))
    BY <1>1, <2>1, ListsFound
  <2>3. Len(x) \in Nat \ {0} /\ 1 \in 1 .. Len(x)
    BY WorldSize
  <2> QED
    BY <2>2, <2>3, ListsAre
<1>2. ASSUME NEW x \in Worlds, Fits(1, x) PROVE Len(Runs(Body(1, x))) = 0
  BY <1>2, NoListsFound
<1>3. CASE m = 1 /\ n = 1
  BY <1>3
<1>4. CASE m = 1 /\ n >= 2
  BY <1>1, <1>2, <1>4
<1>5. CASE m >= 2 /\ n = 1
  BY <1>1, <1>2, <1>5
<1>6. CASE m >= 2 /\ n >= 2
  BY <1>1, <1>6
<1> QED
  BY <1>3, <1>4, <1>5, <1>6

LEMMA NotEmpty ==
  ASSUME WorldsLegible, NEW w \in Worlds, NEW n \in Nat
  PROVE  Body(n, w) # <<>>
<1>1. Whole(w) /\ 1 \in 1 .. Len(w)
  BY WorldTypes, WorldSize
<1>2. /\ End(n, w, 1 - 1) \in Nat /\ Counter(n, w, 1) \in Nat /\ End(n, w, 1) \in Nat
      /\ End(n, w, 1 - 1) < Counter(n, w, 1) /\ Counter(n, w, 1) <= End(n, w, 1)
      /\ End(n, w, 1) <= Len(Body(n, w)) /\ Len(Body(n, w)) \in Nat
  BY <1>1, Extents
<1>3. Len(Body(n, w)) # 0
  BY <1>2
<1> QED
  BY <1>3

LEMMA Largest ==
  ASSUME NEW N \in Nat, NEW T, T \subseteq 1 .. N, T # {}
  PROVE  Max(T) \in T /\ \A y \in T : y <= Max(T)
<1> DEFINE S == {N - x : x \in T}
<1>1. S \subseteq Nat /\ S # {}
  <2>1. \A x \in T : N - x \in Nat
    OBVIOUS
  <2> QED
    BY <2>1
<1>2. PICK k \in S : \A y \in S : k <= y
  BY <1>1, Smallest
<1>3. PICK x \in T : k = N - x
  BY <1>2
<1>4. \A y \in T : y <= x
  <2> TAKE y \in T
  <2>1. N - x <= N - y
    BY <1>2, <1>3
  <2> QED
    BY <2>1
<1> QED
  BY <1>3, <1>4 DEF Max

(* Bytes that are no list of a save are not taken for an overflow.         *)
LEMMA NoCrowd ==
  ASSUME NEW w, Whole(w), NEW n \in Nat, Legible(n, w),
         NEW i \in DOMAIN Body(n, w), ~InList(n, w, i)
  PROVE  ~Crowds(Body(n, w), i)
<1> DEFINE d == Body(n, w)
           T == Periods(d, i)
           k == Min(T)
           g == Groups[k]
           R == {r \in 1 .. Len(d) : /\ i + r * g * Unit - 1 <= Len(d)
                                     /\ Repeats(d, i, i + r * g * Unit - 1, g * Unit)}
           s == Suspicious
<1> SUFFICES ASSUME T # {}, Max(R) >= s PROVE FALSE
  BY DEF Crowds, Copied
<1>1. Len(d) \in Nat /\ i \in 1 .. Len(d)
  BY Ends
<1>2. k \in T
  <2>1. T \subseteq Nat
    BY SizeTypes DEF Periods
  <2>2. \E x \in T : \A y \in T : x <= y
    BY <2>1, Smallest
  <2> HIDE DEF T
  <2> QED
    BY <2>2 DEF Min
<1>3. k \in DOMAIN Groups /\ i + 2 * g * Unit - 1 <= Len(d) /\ Varied(d, i, g)
  <2> HIDE DEF k, d
  <2> QED
    BY <1>2 DEF Periods
<1>4. g \in Nat \ {0} /\ g \in ToSet(Groups)
  BY <1>3, SizeTypes DEF Sizes
<1>5. ~ /\ i + s * g * Unit - 1 <= Len(d)
        /\ Varied(d, i, g)
        /\ Repeats(d, i, i + s * g * Unit - 1, g * Unit)
  <2> HIDE DEF g
  <2> QED
    BY <1>4 DEF Legible
<1>6. s \in Nat /\ Unit \in Nat \ {0}
  BY SaveConstants
<1> DEFINE h == g * Unit
<1>7. h \in Nat \ {0} /\ \A x \in Nat : x * g * Unit = x * h /\ x * h \in Nat
  BY <1>4, <1>6
<1> HIDE DEF d, T, k, g, s
<1>8. R = {r \in 1 .. Len(d) : i + r * h - 1 <= Len(d) /\ Repeats(d, i, i + r * h - 1, h)}
  <2>1. ASSUME NEW r \in 1 .. Len(d)
        PROVE  (/\ i + r * g * Unit - 1 <= Len(d)
                /\ Repeats(d, i, i + r * g * Unit - 1, g * Unit))
               <=> (i + r * h - 1 <= Len(d) /\ Repeats(d, i, i + r * h - 1, h))
    <3> DEFINE x == r * g * Unit
               y == r * h
    <3>1. x = y
      BY <1>1, <1>7
    <3> HIDE DEF x, y
    <3>2. (i + x - 1 <= Len(d) /\ Repeats(d, i, i + x - 1, h))
          <=> (i + y - 1 <= Len(d) /\ Repeats(d, i, i + y - 1, h))
      BY <3>1
    <3> QED
      BY <3>2 DEF x, y, h
  <2> QED
    BY <2>1, Zenon
<1>9. i + 2 * h - 1 <= Len(d) /\ ~(i + s * h - 1 <= Len(d) /\ Repeats(d, i, i + s * h - 1, h))
  BY <1>3, <1>5, <1>6, <1>7
<1> HIDE DEF h, R
<1>10. 1 \in R
  <2>1. 1 * h = h /\ 2 * h = h + h
    BY <1>7
  <2>2. i + 1 * h - 1 <= Len(d) /\ 1 \in 1 .. Len(d)
    <3> DEFINE y == 1 * h
               z == 2 * h
    <3>1. i + z - 1 <= Len(d)
      BY <1>9
    <3>2. y = h /\ z = h + h
      BY <2>1
    <3> HIDE DEF y, z
    <3>3. i + y - 1 <= Len(d)
      BY <1>1, <1>7, <3>1, <3>2
    <3> QED
      BY <1>1, <3>3 DEF y
  <2>3. Repeats(d, i, i + 1 * h - 1, h)
    <3>1. i .. (i + 1 * h - 1) - h = {}
      BY <1>1, <1>7, <2>1
    <3> QED
      BY <3>1, Zenon DEF Repeats
  <2> QED
    BY <1>8, <2>2, <2>3
<1>11. R \subseteq 1 .. Len(d)
  BY <1>8
<1>12. Max(R) \in R
  BY <1>1, <1>10, <1>11, Largest
<1> DEFINE r == Max(R)
<1>13. r \in Nat /\ r >= s /\ i + r * h - 1 <= Len(d) /\ Repeats(d, i, i + r * h - 1, h)
  BY <1>1, <1>8, <1>11, <1>12
<1> HIDE DEF r
<1>14. s * h <= r * h /\ s * h \in Nat /\ r * h \in Nat
  BY <1>6, <1>7, <1>13
<1>15. i + s * h - 1 <= Len(d)
  BY <1>1, <1>13, <1>14
<1>16. Repeats(d, i, i + s * h - 1, h)
  <2>1. \A j \in i .. (i + r * h - 1) - h : d[j] = d[j + h]
    BY <1>13 DEF Repeats
  <2>2. \A j \in i .. (i + s * h - 1) - h : j \in i .. (i + r * h - 1) - h
    <3> DEFINE x == s * h
               y == r * h
    <3>1. x \in Nat /\ y \in Nat /\ x <= y
      BY <1>14
    <3> HIDE DEF x, y
    <3>2. \A j \in i .. (i + x - 1) - h : j \in i .. (i + y - 1) - h
      BY <1>1, <1>7, <3>1
    <3> QED
      BY <3>2 DEF x, y
  <2>3. \A j \in i .. (i + s * h - 1) - h : d[j] = d[j + h]
    BY <2>1, <2>2
  <2> QED
    BY <2>3 DEF Repeats
<1> QED
  BY <1>9, <1>15, <1>16

LEMMA NoOverflow ==
  ASSUME WorldsLegible, NEW w \in Worlds, NEW n \in Nat, n >= 1, Fits(n, w)
  PROVE  ~Overflowed(Body(n, w), Runs(Body(n, w)))
<1> DEFINE d == Body(n, w)
           runs == Runs(d)
<1> SUFFICES ASSUME NEW i \in DOMAIN d, Crowds(d, i),
                    \A k \in DOMAIN runs : i \notin runs[k].off .. Past(runs, k)
             PROVE  FALSE
  BY DEF Overflowed
<1>1. Whole(w) /\ n <= Wrap
  BY WorldTypes, FitsBound, FilesConstants
<1>2. Legible(n, w)
  BY <1>1, WorldTypes
<1>3. ~InList(n, w, i)
  <2> SUFFICES ASSUME n > 1, NEW p \in DOMAIN w, i \in Counter(n, w, p) .. Len(UpTo(n, w)[p])
               PROVE  FALSE
    BY DEF InList
  <2>1. p \in 1 .. Len(w) /\ p \in 0 .. Len(w) /\ Len(w) \in Nat
    BY <1>1, ProvinceTypes
  <2>2. runs = Lists(n, w, Len(w))
    BY <1>1, ListsFound
  <2>3. p \in DOMAIN runs /\ runs[p].off = Counter(n, w, p)
    BY <2>1, <2>2 DEF Lists, List
  <2>4. Past(runs, p) = End(n, w, p)
    BY <1>1, <2>1, <2>2, PastIs
  <2>5. i \in runs[p].off .. Past(runs, p)
    BY <2>3, <2>4 DEF End, Part
  <2> QED
    BY <2>3, <2>5
<1> QED
  BY <1>1, <1>2, <1>3, NoCrowd

LEMMA Repairs ==
  ASSUME WorldsLegible, NEW w \in Worlds, NEW n \in Nat, n >= 1, Fits(n, w),
         NEW file, file.body = Body(n, w)
  PROVE  Repair(file).body = Body(1, w)
<1> DEFINE d == Body(n, w)
<1>1. /\ Runs(d) = <<>> \/ Plausible(Runs(d))
      /\ OneGroupEach(d, Runs(d)) = Body(1, w)
  BY SaveRead
<1>2. ~Overflowed(d, Runs(d))
  BY NoOverflow
<1> HIDE DEF d
<1>3. ~Refused(d)
  BY <1>1, <1>2 DEF Refused
<1>4. file.body = d
  BY DEF d
<1> QED
  BY <1>1, <1>3, <1>4 DEF Repair

(* What the game reads, writes and closes is read as it was meant.         *)
Readable ==
  /\ \A w \in Worlds, n \in Grown :
       Collapse([header |-> "junk", body |-> Body(n, w)])
         = [header |-> "stamped", body |-> Body(1, w)]
  /\ \A v, w \in Worlds, n \in 1 .. Wrap :
       /\ Body(n, w) # <<>>
       /\ \A m \in Closed : Fits(n, w) /\ Body(m, v) = Body(n, w) => n = m

LEMMA SavesReadable == ASSUME WorldsLegible, OldSavesFit PROVE Readable
<1>1. \A n \in Closed : n \in Nat /\ n >= 1
  BY DEF Closed, OldSavesFit
<1>2. ASSUME NEW w \in Worlds, NEW n \in Closed PROVE Fits(n, w) /\ Fits(n + 1, w)
  <2>1. Whole(w) /\ n \in Nat /\ n + 1 \in Nat /\ n <= n + 1
    BY <1>1, WorldTypes
  <2>2. Fits(n + 1, w)
    BY DEF OldSavesFit
  <2> QED
    BY <2>1, <2>2, FewerFit
<1>3. ASSUME NEW w \in Worlds, NEW n \in Grown PROVE n \in Nat /\ n >= 1 /\ Fits(n, w)
  <2>1. PICK m \in {0} \cup Closed : n = m + 1
    BY DEF Grown
  <2>2. CASE m = 0
    BY <1>2, <2>1, <2>2 DEF Closed
  <2>3. CASE m \in Closed
    BY <1>1, <1>2, <2>1, <2>3
  <2> QED
    BY <2>1, <2>2, <2>3
<1>4. \A w \in Worlds, n \in Grown :
        Collapse([header |-> "junk", body |-> Body(n, w)])
          = [header |-> "stamped", body |-> Body(1, w)]
  BY <1>3, Collapses
<1>5. \A n \in 1 .. Wrap : n \in Nat /\ n >= 1
  BY FilesConstants
<1>6. \A v, w \in Worlds, n \in 1 .. Wrap : Body(n, w) # <<>>
  BY <1>5, NotEmpty
<1>7. ASSUME NEW v \in Worlds, NEW w \in Worlds, NEW n \in 1 .. Wrap, NEW m \in Closed,
             Fits(n, w), Body(m, v) = Body(n, w)
      PROVE  n = m
  BY <1>1, <1>2, <1>5, <1>7, CopiesTold
<1> QED
  BY <1>4, <1>6, <1>7 DEF Readable

-----------------------------------------------------------------------------
(* The saves.                                                              *)

Written(s) == \E p \in DOMAIN streams : streams[p].slot = s /\ streams[p].wrote

(* A save that nobody writes: never written to its end, normalised, or of  *)
(* an earlier session.                                                     *)
AtRest(s) ==
  \/ disk[s] = Empty
  \/ disk[s] = [header |-> "stamped", body |-> Body(1, saved[s])]
  \/ \E n \in OldSaves : disk[s] = [header |-> "junk", body |-> Body(n, saved[s])]

(* A save that is being written.                                           *)
InFlight(s) ==
  \/ disk[s] = Empty
  \/ \E n \in Grown : disk[s] = [header |-> "junk", body |-> Body(n, saved[s])]

StreamsOK ==
  /\ \A p \in DOMAIN streams : streams[p].slot \in Slots /\ streams[p].wrote \in BOOLEAN
  /\ \A p, q \in DOMAIN streams : streams[p].slot = streams[q].slot => p = q

(* The game has no more copies in memory than a closed save has: that is   *)
(* what keeps the counters from ever reaching the end of their byte.       *)
SavesInv ==
  /\ mem \in {0} \cup Closed
  /\ saved \in [Slots -> Worlds] /\ DOMAIN disk = Slots
  /\ StreamsOK
  /\ \A s \in Slots : IF Written(s) THEN InFlight(s) ELSE AtRest(s)

LEMMA SavesInit == Init => SavesInv
<1> SUFFICES ASSUME Init PROVE SavesInv
  OBVIOUS
<1>1. DOMAIN streams = {} /\ mem = 0 /\ saved \in [Slots -> Worlds]
  BY DEF Init
<1>2. PICK old \in [Slots -> OldSaves] :
        disk = [s \in Slots |-> [header |-> "junk", body |-> Body(old[s], saved[s])]]
  BY DEF Init
<1>3. \A s \in Slots : ~Written(s) /\ AtRest(s)
  BY <1>1, <1>2 DEF Written, AtRest
<1> QED
  BY <1>1, <1>2, <1>3 DEF SavesInv, StreamsOK

LEMMA SavesFOpen ==
  ASSUME SavesInv, NEW s \in Slots, NEW writing \in BOOLEAN, FOpen(s, writing)
  PROVE  SavesInv'
<1>1. PICK p \in Ptrs \ DOMAIN streams :
        streams' = Put(streams, p, [slot |-> s, wrote |-> writing])
  BY DEF FOpen
<1>2. /\ DOMAIN streams' = DOMAIN streams \cup {p} /\ p \notin DOMAIN streams
      /\ streams'[p].slot = s /\ streams'[p].wrote = writing
      /\ \A q \in DOMAIN streams : streams'[q] = streams[q] /\ streams[q].slot # s
  BY <1>1 DEF Put, FOpen
<1>3. mem' = mem /\ saved' = saved
      /\ disk' = IF writing THEN [disk EXCEPT ![s] = Empty] ELSE disk
  BY DEF FOpen
<1>4. StreamsOK'
  BY <1>2 DEF SavesInv, StreamsOK
<1>5. Written(s)' <=> writing
  BY <1>2 DEF Written
<1>6. \A t \in Slots \ {s} : (Written(t)' <=> Written(t)) /\ disk'[t] = disk[t]
  BY <1>2, <1>3 DEF Written, SavesInv
<1>7. ~Written(s) /\ AtRest(s)
  BY <1>2 DEF Written, SavesInv
<1>8. IF Written(s)' THEN InFlight(s)' ELSE AtRest(s)'
  BY <1>3, <1>5, <1>7 DEF InFlight, AtRest, SavesInv
<1>9. ASSUME NEW t \in Slots \ {s} PROVE IF Written(t)' THEN InFlight(t)' ELSE AtRest(t)'
  BY <1>3, <1>6 DEF InFlight, AtRest, SavesInv
<1> QED
  BY <1>3, <1>4, <1>8, <1>9 DEF SavesInv

LEMMA SavesFWrite ==
  ASSUME SavesInv, NEW p \in DOMAIN streams, FWrite(p)
  PROVE  SavesInv'
<1>0. PICK s \in Slots : s = streams[p].slot
  BY DEF SavesInv, StreamsOK
<1>1. PICK w \in Worlds :
        /\ disk' = [disk EXCEPT ![s] = [header |-> "junk", body |-> Body(mem + 1, w)]]
        /\ saved' = [saved EXCEPT ![s] = w]
  BY <1>0 DEF FWrite
<1>2. streams' = streams /\ mem' = mem /\ streams[p].wrote /\ s \in Slots
  BY DEF FWrite, SavesInv, StreamsOK
<1>3. Written(s) /\ \A t \in Slots : Written(t)' <=> Written(t)
  BY <1>0, <1>2 DEF Written
<1>4. mem + 1 \in Grown
  BY DEF SavesInv, Grown
<1>5. InFlight(s)'
  BY <1>1, <1>2, <1>4 DEF InFlight, SavesInv
<1>6. \A t \in Slots \ {s} : disk'[t] = disk[t] /\ saved'[t] = saved[t]
  BY <1>1 DEF SavesInv
<1>7. ASSUME NEW t \in Slots \ {s} PROVE IF Written(t)' THEN InFlight(t)' ELSE AtRest(t)'
  BY <1>3, <1>6 DEF InFlight, AtRest, SavesInv
<1>8. StreamsOK' /\ saved' \in [Slots -> Worlds] /\ DOMAIN disk' = Slots
  BY <1>1, <1>2 DEF SavesInv, StreamsOK
<1> QED
  BY <1>2, <1>3, <1>5, <1>7, <1>8 DEF SavesInv

LEMMA SavesFRead ==
  ASSUME Readable, SavesInv, NEW p \in DOMAIN streams, FRead(p)
  PROVE  SavesInv'
<1>0. PICK s \in Slots : s = streams[p].slot
  BY DEF SavesInv, StreamsOK
<1>1. PICK n \in 1 .. Wrap, w \in Worlds :
        /\ Fits(n, w)
        /\ disk[s].body = Body(n, w)
        /\ mem' = n
  BY <1>0 DEF FRead
<1>2. s \in Slots /\ ~Written(s)
  BY <1>0 DEF FRead, Written, SavesInv, StreamsOK
<1>3. UNCHANGED <<streams, disk, saved>>
  BY DEF FRead
<1>4. PICK m \in Closed : disk[s].body = Body(m, saved[s])
  <2>1. AtRest(s) /\ disk[s].body # <<>>
    BY <1>1, <1>2 DEF SavesInv, Readable
  <2>2. disk[s] # Empty
    BY <2>1 DEF Empty
  <2>3. CASE disk[s] = [header |-> "stamped", body |-> Body(1, saved[s])]
    BY <2>3 DEF Closed
  <2>4. ASSUME NEW m \in OldSaves,
               disk[s] = [header |-> "junk", body |-> Body(m, saved[s])]
        PROVE  m \in Closed /\ disk[s].body = Body(m, saved[s])
    BY <2>4 DEF Closed
  <2> QED
    BY <2>1, <2>2, <2>3, <2>4 DEF AtRest
<1>5. saved[s] \in Worlds
  BY <1>2 DEF SavesInv
<1>6. n = m
  BY <1>1, <1>4, <1>5 DEF Readable
<1>7. \A t \in Slots : /\ Written(t)' <=> Written(t)
                       /\ InFlight(t)' <=> InFlight(t)
                       /\ AtRest(t)' <=> AtRest(t)
  BY <1>3 DEF Written, InFlight, AtRest
<1> QED
  BY <1>1, <1>3, <1>4, <1>6, <1>7 DEF SavesInv, StreamsOK

LEMMA SavesFClose ==
  ASSUME Readable, SavesInv, NEW p \in DOMAIN streams, FClose(p)
  PROVE  SavesInv'
<1>0. PICK s \in Slots : s = streams[p].slot
  BY DEF SavesInv, StreamsOK
<1>1. /\ DOMAIN streams' = DOMAIN streams \ {p} /\ mem' = mem /\ saved' = saved
      /\ \A q \in DOMAIN streams \ {p} : streams'[q] = streams[q]
      /\ disk' = IF streams[p].wrote /\ disk[s] # Empty
                 THEN [disk EXCEPT ![s] = Collapse(disk[s])] ELSE disk
  BY <1>0 DEF FClose, Drop
<1>2. s \in Slots /\ \A q \in DOMAIN streams \ {p} : streams[q].slot # s
  BY <1>0 DEF SavesInv, StreamsOK
<1>3. streams[p].wrote <=> Written(s)
  BY <1>0, <1>2 DEF Written, SavesInv, StreamsOK
<1>4. ~Written(s)' /\ \A t \in Slots \ {s} : Written(t)' <=> Written(t)
  BY <1>0, <1>1, <1>2 DEF Written
<1>5. AtRest(s)'
  <2>1. CASE ~Written(s) \/ disk[s] = Empty
    BY <1>1, <1>2, <1>3, <2>1 DEF SavesInv, AtRest
  <2>2. CASE Written(s) /\ disk[s] # Empty
    <3>1. PICK n \in Grown : disk[s] = [header |-> "junk", body |-> Body(n, saved[s])]
      BY <1>2, <2>2 DEF SavesInv, InFlight
    <3>2. saved[s] \in Worlds
      BY <1>2 DEF SavesInv
    <3>3. Collapse(disk[s]) = [header |-> "stamped", body |-> Body(1, saved[s])]
      BY <3>1, <3>2 DEF Readable
    <3> QED
      BY <1>1, <1>2, <1>3, <2>2, <3>3 DEF SavesInv, AtRest
  <2> QED
    BY <2>1, <2>2
<1>6. \A t \in Slots \ {s} : disk'[t] = disk[t]
  BY <1>1 DEF SavesInv
<1>7. ASSUME NEW t \in Slots \ {s} PROVE IF Written(t)' THEN InFlight(t)' ELSE AtRest(t)'
  BY <1>1, <1>4, <1>6 DEF InFlight, AtRest, SavesInv
<1>8. StreamsOK' /\ DOMAIN disk' = Slots
  BY <1>1 DEF SavesInv, StreamsOK
<1> QED
  BY <1>1, <1>4, <1>5, <1>7, <1>8 DEF SavesInv

LEMMA SavesSame == ASSUME SavesInv, UNCHANGED streamVars PROVE SavesInv'
<1>1. UNCHANGED <<streams, disk, mem, saved>>
  BY DEF streamVars
<1>2. \A t \in Slots : /\ Written(t)' <=> Written(t)
                       /\ InFlight(t)' <=> InFlight(t)
                       /\ AtRest(t)' <=> AtRest(t)
  BY <1>1 DEF Written, InFlight, AtRest
<1> QED
  BY <1>1, <1>2 DEF SavesInv, StreamsOK

LEMMA SavesStep == ASSUME Readable, SavesInv, [Next]_vars PROVE SavesInv'
<1>1. Descriptors => UNCHANGED streamVars
  BY DEF Descriptors, OpenDevice, OpenFile, Socket, Close, ReadWrite, SocketCall, Accept,
         OnlyErr
<1>2. FOpenFails \/ UNCHANGED vars => UNCHANGED streamVars
  BY DEF FOpenFails, OnlyErr, vars
<1> QED
  BY <1>1, <1>2, SavesSame, SavesFOpen, SavesFWrite, SavesFRead, SavesFClose
     DEF Next, Saves

(* In whatever order the game saves, loads, plays on and saves over, a     *)
(* save that it has closed is what it last wrote with one group in each    *)
(* list, and a save that it only read is as it was (on_fclose,             *)
(* collapse_save_file): whatever the worlds, so long as none of their      *)
(* bytes is taken for a counter that is not one, and the saves of earlier  *)
(* sessions have room for one more group.                                  *)
THEOREM SavesKeepTheirWorld ==
  ASSUME WorldsLegible, OldSavesFit PROVE Spec => []SavesSound
<1>1. SavesInv => SavesSound
  BY DEF SavesInv, SavesSound, Written, AtRest
<1>2. SavesInv /\ [Next]_vars => SavesInv'
  BY SavesReadable, SavesStep
<1> QED
  BY <1>1, <1>2, SavesInit, PTL DEF Spec

SavedTypes == saved \in [Slots -> Worlds]

LEMMA SavedStep == ASSUME SavedTypes, [Next]_vars PROVE SavedTypes'
<1>1. ASSUME NEW p \in DOMAIN streams, FWrite(p) PROVE SavedTypes'
  BY <1>1 DEF FWrite, SavedTypes
<1>2. Descriptors => UNCHANGED saved
  BY DEF Descriptors, OpenDevice, OpenFile, Socket, Close, ReadWrite, SocketCall, Accept,
         OnlyErr, streamVars
<1>3. FOpenFails \/ UNCHANGED vars => UNCHANGED saved
  BY DEF FOpenFails, OnlyErr, vars, streamVars
<1>4. \A s \in Slots, writing \in BOOLEAN : FOpen(s, writing) => UNCHANGED saved
  BY DEF FOpen
<1>5. \A p \in DOMAIN streams : FRead(p) \/ FClose(p) => UNCHANGED saved
  BY DEF FRead, FClose
<1>6. UNCHANGED saved => SavedTypes'
  BY DEF SavedTypes
<1> QED
  BY <1>1, <1>2, <1>3, <1>4, <1>5, <1>6 DEF Next, Saves

(* Of any save whose counters have not wrapped the tool keeps what the     *)
(* host keeps: it finds the lists the host finds, takes no healthy list    *)
(* for an overflow, and leaves one group of each (tools/fix_save.py beside *)
(* collapse_save_file).                                                    *)
THEOREM ToolKeepsTheSame ==
  ASSUME WorldsLegible PROVE Spec => []ToolRepairs
<1>1. Init => SavedTypes
  BY DEF Init, SavedTypes
<1>2. SavedTypes /\ [Next]_vars => SavedTypes'
  BY SavedStep
<1>3. SavedTypes => ToolRepairs
  <2> SUFFICES ASSUME SavedTypes, NEW s \in Slots, NEW n \in 1 .. Wrap,
                      Fits(n, saved[s]), disk[s].body = Body(n, saved[s])
               PROVE  Repair(disk[s]).body = Body(1, saved[s])
    BY DEF ToolRepairs
  <2>1. saved[s] \in Worlds /\ n \in Nat /\ n >= 1
    BY FilesConstants DEF SavedTypes
  <2> QED
    BY <2>1, Repairs
<1> QED
  BY <1>1, <1>2, <1>3, PTL DEF Spec
=============================================================================
