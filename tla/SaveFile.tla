------------------------------ MODULE SaveFile ------------------------------
(***************************************************************************)
(* What the host does to a save the guest has just closed                  *)
(* (collapse_save_file in port/src/traps.cpp), and what the offline tool   *)
(* does to the same file (tools/fix_save.py).                              *)
(*                                                                         *)
(* Each province of a save ends in a list of units whose length is one     *)
(* byte.  Every save adds a copy of the list's group of units, until the   *)
(* byte wraps.  Both programs find the lists by reading every byte as a    *)
(* length and checking the layout it claims, and keep one group of each.   *)
(*                                                                         *)
(* A file is the state of its header and its bytes.  The header is "junk"  *)
(* as the guest writes it, "stamped" as the host leaves it, or "foreign"   *)
(* when neither program recognises it.  Both search from the first byte of *)
(* the file on, when they have stamped the header: what the search sees of *)
(* the header's bytes stands at the head of the first province's gap, the  *)
(* same before and after stamping.                                         *)
(***************************************************************************)
EXTENDS Integers, Sequences, FiniteSets, SequencesExt

CONSTANTS
  Unit,        \* bytes in a unit (17)
  Groups,      \* units added by a save: the sequence tried, in order (4, 5)
  Distinct,    \* a group has at least this many different bytes (4)
  MinLists,    \* fewer lists than this are no save (30)
  MaxLists,    \* nor are more than this (60)
  Suspicious   \* uncounted copies that the tool takes for an overflow (8)

ASSUME SaveConstants ==
  /\ {Unit, Distinct, MinLists, Suspicious} \subseteq Nat \ {0}
  /\ Suspicious >= 2
  /\ MaxLists \in Nat
  /\ Groups \in Seq(Nat \ {0})

(* The bytes first .. last of d repeat with this period.                   *)
Repeats(d, first, last, period) ==
  \A j \in first .. last - period : d[j] = d[j + period]

(* A group of g units begins at byte i and is not flat fill.               *)
Varied(d, i, g) == Cardinality({d[j] : j \in i .. i + g * Unit - 1}) >= Distinct

(* Byte i, read as a length, claims copies of one group of g units, and    *)
(* they are there.                                                         *)
Claims(d, i, g) ==
  /\ d[i] >= 2 * g
  /\ d[i] % g = 0
  /\ i + d[i] * Unit <= Len(d)
  /\ Varied(d, i + 1, g)
  /\ Repeats(d, i + 1, i + d[i] * Unit, g * Unit)

(* The group sizes byte i can be read for, by the order they are tried in. *)
Readings(d, i) == {k \in DOMAIN Groups : Claims(d, i, Groups[k])}

(* Mutant: a list that was found is searched for more.                     *)
Runs_Rescanned(d) ==
  LET scan[i \in 0 .. Len(d)] ==
        IF i = 0 THEN <<>>
        ELSE LET g == Groups[Min(Readings(d, i))]
             IN  IF i = Len(d) \/ Readings(d, i) = {} THEN scan[i - 1]
                 ELSE Append(scan[i - 1], [off |-> i, group |-> g, reps |-> d[i] \div g])
  IN  scan[Len(d)]

(* The lists found from left to right, each skipped as it is found.        *)
Runs(d) ==
  LET scan[i \in 0 .. Len(d)] ==
        IF i = 0 THEN [next |-> 1, runs |-> <<>>]
        ELSE LET was == scan[i - 1]
                 g   == Groups[Min(Readings(d, i))]
             IN  IF i < was.next \/ i = Len(d) \/ Readings(d, i) = {} THEN was
                 ELSE [next |-> i + d[i] * Unit + 1,
                       runs |-> Append(was.runs,
                                  [off |-> i, group |-> g, reps |-> d[i] \div g])]
  IN  scan[Len(d)].runs

(* Every province gets one group at each save, so the lists of a sound     *)
(* file agree on their number.                                             *)
Plausible(runs) ==
  /\ Cardinality({r.reps : r \in ToSet(runs)}) = 1
  /\ Len(runs) \in MinLists .. MaxLists

(* The last byte of list k; of the file's header, for none.                *)
Past(runs, k) ==
  IF k = 0 THEN 0 ELSE runs[k].off + runs[k].group * runs[k].reps * Unit

(* Mutant: the counters keep their values.                                 *)
OneGroupEach_Uncounted(d, runs) ==
  LET out[k \in 0 .. Len(runs)] ==
        IF k = 0 THEN <<>>
        ELSE out[k - 1] \o SubSeq(d, Past(runs, k - 1) + 1, runs[k].off)
               \o SubSeq(d, runs[k].off + 1, runs[k].off + runs[k].group * Unit)
  IN  out[Len(runs)] \o SubSeq(d, Past(runs, Len(runs)) + 1, Len(d))

(* What is between the lists, and of each list a counter for one group and *)
(* the first of its groups.                                                *)
OneGroupEach(d, runs) ==
  LET out[k \in 0 .. Len(runs)] ==
        IF k = 0 THEN <<>>
        ELSE out[k - 1] \o SubSeq(d, Past(runs, k - 1) + 1, runs[k].off - 1)
               \o <<runs[k].group>>
               \o SubSeq(d, runs[k].off + 1, runs[k].off + runs[k].group * Unit)
  IN  out[Len(runs)] \o SubSeq(d, Past(runs, Len(runs)) + 1, Len(d))

(* normalise_save_header.                                                  *)
Stamped(header) == IF header = "junk" THEN "stamped" ELSE header

(* collapse_save_file: the header in any case, the lists if they can be    *)
(* trusted.  An empty file is left alone.                                  *)
Collapse(file) ==
  LET runs == Runs(file.body)
  IN  [header |-> Stamped(file.header),
       body   |-> IF Plausible(runs) THEN OneGroupEach(file.body, runs)
                  ELSE file.body]

-----------------------------------------------------------------------------
(* tools/fix_save.py.                                                      *)

(* How often the g units at byte i are repeated, whatever any counter says. *)
Copied(d, i, g) ==
  Max({r \in 1 .. Len(d) : /\ i + r * g * Unit - 1 <= Len(d)
                           /\ Repeats(d, i, i + r * g * Unit - 1, g * Unit)})

(* The group sizes with which bytes from i on are repeated at all.         *)
Periods(d, i) ==
  {k \in DOMAIN Groups : /\ i + 2 * Groups[k] * Unit - 1 <= Len(d)
                         /\ Varied(d, i, Groups[k])
                         /\ Copied(d, i, Groups[k]) >= 2}

Crowds(d, i) ==
  Periods(d, i) # {} /\ Copied(d, i, Groups[Min(Periods(d, i))]) >= Suspicious

(* Mutant: the lists that were found are searched as well.                 *)
Overflowed_Anywhere(d, runs) == \E i \in DOMAIN d : Crowds(d, i)

(* Outside the lists found there are many copies of a group: a counter     *)
(* that has wrapped.                                                       *)
Overflowed(d, runs) ==
  \E i \in DOMAIN d :
    /\ \A k \in DOMAIN runs : i \notin runs[k].off .. Past(runs, k)
    /\ Crowds(d, i)

(* The tool refuses a file with an overflow, or with lists it does not     *)
(* trust, and leaves it as it is.                                          *)
Refused(d) ==
  LET runs == Runs(d)
  IN  Overflowed(d, runs) \/ (runs # <<>> /\ ~Plausible(runs))

Repair(file) ==
  IF Refused(file.body) THEN file
  ELSE [header |-> Stamped(file.header),
        body   |-> OneGroupEach(file.body, Runs(file.body))]
=============================================================================
