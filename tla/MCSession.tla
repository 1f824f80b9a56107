----------------------------- MODULE MCSession -----------------------------
(***************************************************************************)
(* A small pair of images with every kind of symbol and relocation that    *)
(* the program's have, and sessions with every instrument.                 *)
(***************************************************************************)
EXTENDS Session

Def(n, v, s) ==
  [name |-> n, def |-> TRUE, local |-> FALSE, weak |-> FALSE, value |-> v, size |-> s]
Und(n) ==
  [name |-> n, def |-> FALSE, local |-> FALSE, weak |-> FALSE, value |-> 0, size |-> 0]
Rel(t, a, s) == [type |-> t, at |-> a, sym |-> s]

(* The game: linked at 100; its .bss, from 120 on, holds the copies.       *)
MCGame ==
  [syms |-> << Def("Init", 101, 1), Def("Start", 102, 1),
               Def("Intuition", 120, 1), Def("IntuitionFlag", 121, 1),
               Def("VideoFlag", 122, 1), Def("VVC", 123, 1),
               Def("__vtBlank", 124, 2), Def("__environ", 126, 1),
               Und("Open"), Und("malloc"), [Und("gmon") EXCEPT !.weak = TRUE],
               Def("Method", 103, 1) >>,
   relocs |-> << Rel("COPY", 120, 3), Rel("COPY", 121, 4), Rel("COPY", 122, 5),
                 Rel("COPY", 123, 6), Rel("COPY", 124, 7), Rel("COPY", 126, 8),
                 Rel("JMP_SLOT", 110, 9), Rel("JMP_SLOT", 111, 10),
                 Rel("GLOB_DAT", 112, 11), Rel("32", 113, 12), Rel("32", 114, 10) >>,
   words |-> [a \in 110 .. 126 |-> IF a = 113 THEN 3 ELSE 0]]

(* libmvos, whose file is at 0 and whose text refers to what is shared.    *)
MCMvos ==
  [syms |-> << Def("Open", 1, 1), Def("Method", 2, 1),
               Def("Intuition", 30, 1), Def("IntuitionFlag", 31, 1),
               Def("VideoFlag", 32, 1), Def("VVC", 33, 1),
               Def("__vtBlank", 34, 2), Def("Palette", 36, 2),
               Und("Init"), Und("malloc"), Und("__ctype_b"),
               [Def("", 38, 1) EXCEPT !.local = TRUE],
               Def("BlankScreen", 39, 1) >>,
   relocs |-> << Rel("32", 10, 3), Rel("32", 11, 4), Rel("32", 12, 5), Rel("32", 13, 6),
                 Rel("32", 14, 7), Rel("PC32", 15, 10), Rel("GLOB_DAT", 16, 3),
                 Rel("GLOB_DAT", 17, 7), Rel("GLOB_DAT", 18, 1), Rel("JMP_SLOT", 19, 9),
                 Rel("32", 20, 11), Rel("RELATIVE", 34, 12), Rel("32", 35, 2),
                 Rel("32", 39, 8), Rel("GLOB_DAT", 21, 2) >>,
   words |-> [a \in (10 .. 21) \cup (30 .. 39) |->
                CASE a = 13 -> 0 [] a = 14 -> 1 [] a = 15 -> -4 [] a = 34 -> 38
                  [] a = 35 -> 0 [] a = 39 -> 1 [] OTHER -> 0]]

MCVtables == {"__vtBlank"}

MCFlags == {"IntuitionFlag", "VideoFlag"}
MCHandle == [IntuitionFlag |-> "Intuition", VideoFlag |-> "VVC"]
MCObjects == [IntuitionFlag |-> 5000, VideoFlag |-> 5001]

Plain == [watchdog |-> 0, longrun |-> FALSE, fps |-> FALSE, icall |-> FALSE,
          profile |-> FALSE, soak |-> FALSE, anyway |-> FALSE]

MCEnvs ==
  { [Plain EXCEPT !.watchdog = 3],
    [Plain EXCEPT !.watchdog = 3, !.icall = TRUE],
    [Plain EXCEPT !.watchdog = 3, !.profile = TRUE, !.anyway = TRUE],
    [Plain EXCEPT !.longrun = TRUE],
    [Plain EXCEPT !.longrun = TRUE, !.fps = TRUE],
    [Plain EXCEPT !.soak = TRUE] }

(* The images are such as the theorems about the linker and the boot are   *)
(* for.                                                                    *)
ASSUME ImagesFit /\ SharedNames
=============================================================================
