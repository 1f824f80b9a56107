----------------------------- MODULE GuestLink -----------------------------
(***************************************************************************)
(* How the host links the game's executable and libmvos.so into one        *)
(* address space of the guest (guestlink::link).                           *)
(*                                                                         *)
(* Memory is counted in words, and holds the words that relocation or the  *)
(* boot touches.  An image is its dynamic symbols, its relocations and the *)
(* words of its file; what is beyond the file (.bss) is zero.              *)
(***************************************************************************)
EXTENDS Integers, Sequences, SequencesExt

CONSTANTS
  Game, Mvos,  \* the images: syms, relocs and words, at addresses of the file
  MvosBase,    \* where libmvos is loaded; the game stays where it was linked
  TrapBase,    \* TRAP_BASE: the address of the first import's trap
  LibcData,    \* LIBC_DATA, where __ctype_b is
  CtypeTable,  \* what it points to
  Vtables      \* the names that begin with __vt

Symbols ==
  [name : STRING, def : BOOLEAN, local : BOOLEAN, weak : BOOLEAN, value : Nat, size : Nat]

Relocations ==
  [type : {"RELATIVE", "32", "PC32", "GLOB_DAT", "JMP_SLOT", "COPY"}, at : Nat, sym : Nat]

ASSUME LinkConstants ==
  /\ {MvosBase, TrapBase, LibcData, CtypeTable} \subseteq Nat \ {0}
  /\ \A img \in {Game, Mvos} :
       /\ img.syms \in Seq(Symbols) /\ img.relocs \in Seq(Relocations)
       /\ img.words \in [DOMAIN img.words -> Int] /\ DOMAIN img.words \subseteq Nat
       /\ \A i \in DOMAIN img.relocs : img.relocs[i].sym \in DOMAIN img.syms
       /\ \A i, j \in DOMAIN img.syms :
            img.syms[i].name = img.syms[j].name /\ img.syms[i].name # "" => i = j

VARIABLES
  pass,  \* the step of link() that comes next
  mem,   \* the guest's memory
  bind   \* the global binding of names, which COPY changes

linkVars == <<pass, mem, bind>>

Bias(img) == IF img = Mvos THEN MvosBase ELSE 0

(* mvos_defs and game_defs: what an image defines for the other.           *)
Defs(img) ==
  LET exported == {i \in DOMAIN img.syms :
                     LET s == img.syms[i] IN s.def /\ ~s.local /\ s.name # ""}
  IN  [n \in {img.syms[i].name : i \in exported} |->
         Bias(img) + img.syms[CHOOSE i \in exported : img.syms[i].name = n].value]

Undefined(img) ==
  {img.syms[i].name : i \in {j \in DOMAIN img.syms : ~img.syms[j].def}} \ {""}

(* The imports that the other image does not define are the host's.        *)
Hle == (Undefined(Game) \ DOMAIN Defs(Mvos)) \cup (Undefined(Mvos) \ DOMAIN Defs(Game))

(* Each has a trap of its own; the code numbers them by name.              *)
TrapOf(n) ==
  LET slots == SetToSeq(Hle) IN TrapBase + (CHOOSE i \in DOMAIN slots : slots[i] = n) - 1

Seeded_MvosWins == [n \in DOMAIN Defs(Game) \cup DOMAIN Defs(Mvos) |->
             IF n \in DOMAIN Defs(Mvos) THEN Defs(Mvos)[n] ELSE Defs(Game)[n]]

(* A name that is defined in both images is the game's.                    *)
Seeded == [n \in DOMAIN Defs(Game) \cup DOMAIN Defs(Mvos) |->
             IF n \in DOMAIN Defs(Game) THEN Defs(Game)[n] ELSE Defs(Mvos)[n]]

FirstBinding_Trap == Seeded

(* The libc's character table is data: its name is bound to a word of the  *)
(* host's, not to its trap.                                                *)
FirstBinding == [n \in DOMAIN Seeded \cup {"__ctype_b"} |->
                   IF n = "__ctype_b" THEN LibcData ELSE Seeded[n]]

Resolve(n) ==
  IF n \in DOMAIN bind THEN bind[n] ELSE IF n \in Hle THEN TrapOf(n) ELSE 0

Copies == {i \in DOMAIN Game.relocs : Game.relocs[i].type = "COPY"}

CopiedName(i) == Game.syms[Game.relocs[i].sym].name

SharedData_None == [n \in {} |-> 0]

(* copy_to_game: the data whose storage is the game's from now on, in the  *)
(* eyes of libmvos too.  Virtual tables stay where their methods are.      *)
SharedData ==
  [n \in {CopiedName(i) : i \in Copies} \ (Vtables \cup {""}) |->
     Game.relocs[CHOOSE i \in Copies : CopiedName(i) = n].at]

(* build_idx: an image's own definitions are at home, but for shared data. *)
OwnIndexes(img) ==
  [i \in DOMAIN img.syms |->
     LET s == img.syms[i]
     IN  IF ~s.def THEN Resolve(s.name)
         ELSE IF img = Mvos /\ s.name \in DOMAIN SharedData THEN SharedData[s.name]
         ELSE Bias(img) + s.value]

(* build_idx_got: the binding comes first.                                 *)
GlobalIndexes(img) ==
  [i \in DOMAIN img.syms |->
     LET s == img.syms[i]
     IN  IF s.name \in DOMAIN bind THEN bind[s.name]
         ELSE IF s.def THEN Bias(img) + s.value
         ELSE Resolve(s.name)]

(* apply: what a relocation makes of the word A at its place, ...          *)
Applied(img, r, index, A) ==
  LET P == r.at + Bias(img)
      S == index[r.sym]
  IN  CASE r.type = "RELATIVE" -> A + Bias(img)
        [] r.type = "32"       -> S + A
        [] r.type = "PC32"     -> S + A - P
        [] OTHER               -> S

(* ... for those of the kinds asked for, one after the other, each on what *)
(* the word holds by then.                                                 *)
Relocated(m, img, index, kinds) ==
  LET after[k \in 0 .. Len(img.relocs)] ==
        IF k = 0 THEN m
        ELSE IF img.relocs[k].type \notin kinds THEN after[k - 1]
        ELSE [after[k - 1] EXCEPT
                ![img.relocs[k].at + Bias(img)] = Applied(img, img.relocs[k], index, @)]
  IN  after[Len(img.relocs)]

REL == {"RELATIVE"}
ABS == {"32", "PC32"}
GOT == {"GLOB_DAT", "JMP_SLOT"}

-----------------------------------------------------------------------------
(* The words of both files, at their addresses.                            *)
FileWords ==
  [a \in DOMAIN Game.words \cup {o + MvosBase : o \in DOMAIN Mvos.words} \cup {LibcData} |->
     IF a \in DOMAIN Game.words THEN Game.words[a]
     ELSE IF a = LibcData THEN 0 ELSE Mvos.words[a - MvosBase]]

InitLink ==
  /\ pass = "map"
  /\ mem = [a \in {} |-> 0]
  /\ bind = [n \in {} |-> 0]

(* Steps 1 to 3: the images are mapped and the names collected.            *)
MapImages ==
  /\ pass = "map"
  /\ mem' = [FileWords EXCEPT ![LibcData] = CtypeTable]
  /\ bind' = FirstBinding
  /\ pass' = "relocate"

RelocateMvos_Later ==
  /\ pass = "relocate"
  /\ pass' = "copy"
  /\ UNCHANGED <<mem, bind>>

(* Step 4: libmvos is relocated in full, ...                               *)
RelocateMvos ==
  /\ pass = "relocate"
  /\ mem' = Relocated(mem, Mvos, OwnIndexes(Mvos), REL \cup ABS \cup GOT)
  /\ pass' = "copy"
  /\ UNCHANGED bind

(* What libmvos has, by then, of the data that copy i is for; nothing if   *)
(* it does not define the name, which leaves the game's zero.  A size that *)
(* libmvos does not tell is the game's, or else one word.                  *)
Original(i) ==
  LET n    == CopiedName(i)
      own  == Mvos.syms[CHOOSE j \in DOMAIN Mvos.syms : Mvos.syms[j].name = n].size
      its  == Game.syms[Game.relocs[i].sym].size
      size == IF own > 0 THEN own ELSE IF its > 0 THEN its ELSE 1
      to   == Game.relocs[i].at
  IN  IF n \in DOMAIN Defs(Mvos)
      THEN [a \in to .. to + size - 1 |-> mem[Defs(Mvos)[n] + (a - to)]]
      ELSE [a \in {} |-> 0]

(* ... step 5: before the game copies what it has of it.                   *)
CopyToGame ==
  /\ pass = "copy"
  /\ mem' = [a \in DOMAIN mem |->
               IF \E i \in Copies : a \in DOMAIN Original(i)
               THEN Original(CHOOSE i \in Copies : a \in DOMAIN Original(i))[a]
               ELSE mem[a]]
  /\ bind' = [n \in DOMAIN bind \cup {CopiedName(i) : i \in Copies} |->
                IF \E i \in Copies : CopiedName(i) = n
                THEN Game.relocs[CHOOSE i \in Copies : CopiedName(i) = n].at
                ELSE bind[n]]
  /\ pass' = "got"

RebindGot_Everything ==
  /\ pass = "got"
  /\ mem' = Relocated(mem, Mvos, GlobalIndexes(Mvos), GOT \cup ABS)
  /\ pass' = "game"
  /\ UNCHANGED bind

RebindGot_Skipped ==
  /\ pass = "got"
  /\ pass' = "game"
  /\ UNCHANGED <<mem, bind>>

(* Step 6: libmvos's GOT once more, with the game's addresses.             *)
RebindGot ==
  /\ pass = "got"
  /\ mem' = Relocated(mem, Mvos, GlobalIndexes(Mvos), GOT)
  /\ pass' = "game"
  /\ UNCHANGED bind

(* Step 7: the game.                                                       *)
RelocateGame ==
  /\ pass = "game"
  /\ mem' = Relocated(mem, Game, GlobalIndexes(Game), ABS \cup GOT)
  /\ pass' = "linked"
  /\ UNCHANGED bind

Link == MapImages \/ RelocateMvos \/ CopyToGame \/ RebindGot \/ RelocateGame

(* abs_sym: what the host takes to be the address of a name in the game.   *)
GameSym(n) == IF n \in DOMAIN Defs(Game) THEN Defs(Game)[n] ELSE 0
-----------------------------------------------------------------------------
(* Where the dynamic linker of the original system finds a name: in the    *)
(* executable, then in libmvos, then in the system's libraries, for which  *)
(* the host's words and traps stand.                                       *)
HomeOf(n) ==
  IF n = "__ctype_b" THEN LibcData
  ELSE IF n \in DOMAIN Defs(Game) THEN Defs(Game)[n]
  ELSE IF n \in DOMAIN Defs(Mvos) THEN Defs(Mvos)[n]
  ELSE TrapOf(n)

IsCopied(n) == \E i \in Copies : CopiedName(i) = n

(* That linker leaves 0 for a weak name that no library need have.         *)
Optional(s) == s.weak /\ ~s.def /\ s.name \in Hle

(* A symbol that is hidden by the executable's of the same name.           *)
Hidden(img, s) ==
  img = Mvos /\ s.def /\ s.name \in DOMAIN Defs(Game) /\ ~IsCopied(s.name)

(* What a word with the address of a symbol in it may designate: where the *)
(* name is, or the symbol itself if it has no name; and, for a virtual     *)
(* table that the game has copied, the one it is a copy of.                *)
Homes(img, s) ==
  IF s.name = "" THEN {Bias(img) + s.value}
  ELSE {HomeOf(s.name)}
         \cup (IF s.def /\ s.name \in Vtables /\ IsCopied(s.name)
               THEN {Bias(img) + s.value} ELSE {})

(* The word of a relocation by address that designates h: the file's       *)
(* addend is counted once.                                                 *)
WordFor(img, r, h) ==
  h + img.words[r.at] - (IF r.type = "PC32" THEN r.at + Bias(img) ELSE 0)

(* The words that a relocation of the image is for.                        *)
Designated(img) ==
  {img.relocs[k].at + Bias(img) : k \in DOMAIN img.relocs}
    \cup UNION {LET r == img.relocs[i]
                IN  r.at .. r.at + img.syms[r.sym].size - 1 :
                  i \in {k \in DOMAIN img.relocs : img.relocs[k].type = "COPY"}}

(* What that linker leaves for a relocation r of an image; the game's      *)
(* copies are what libmvos has.  No slot of a GOT is zero.  Left out are   *)
(* optional names, and addresses of hidden symbols (GameWins).             *)
AsLoader(img, r) ==
  LET s == img.syms[r.sym]
      w == mem[r.at + Bias(img)]
  IN  /\ r.type = "RELATIVE" => w = img.words[r.at] + Bias(img)
      /\ r.type \in ABS /\ ~Optional(s) /\ ~Hidden(img, s) =>
           \E h \in Homes(img, s) : w = WordFor(img, r, h)
      /\ r.type \in GOT => w # 0 /\ (Optional(s) \/ w = HomeOf(s.name))
      /\ r.type = "COPY" /\ s.name \in DOMAIN Defs(Mvos) =>
           \A d \in 0 .. s.size - 1 : mem[r.at + d] = mem[Defs(Mvos)[s.name] + d]

(* The words that relocation i of the game's copies to.                    *)
CopyRange(i) ==
  Game.relocs[i].at .. Game.relocs[i].at + Game.syms[Game.relocs[i].sym].size - 1

WordsOf(img) == {o + Bias(img) : o \in DOMAIN img.words}

(* What the theorem about the linker takes of the images, as any link      *)
(* editor makes them.  They lie apart, ...                                 *)
ImagesApart ==
  /\ Game # Mvos
  /\ WordsOf(Game) \cap WordsOf(Mvos) = {}
  /\ LibcData \notin WordsOf(Game) \cup WordsOf(Mvos)

(* ... no two relocations are for the same word, ...                       *)
RelocationsApart ==
  \A img \in {Game, Mvos} : \A i \in DOMAIN img.relocs :
    LET r == img.relocs[i]
    IN  /\ r.type # "COPY" => r.at \in DOMAIN img.words
        /\ r.type = "COPY" => img = Game
        /\ \A j \in DOMAIN img.relocs \ {i} :
             r.type # "COPY" /\ img.relocs[j].type # "COPY" => img.relocs[j].at # r.at

(* ... what is bound by name has a name that others see, and what is not   *)
(* bound is at an address, ...                                             *)
NamesBindable ==
  /\ "__ctype_b" \notin DOMAIN Defs(Game) \cup DOMAIN Defs(Mvos)
  /\ \A i \in DOMAIN Game.syms : Game.syms[i].def => Game.syms[i].value # 0
  /\ \A img \in {Game, Mvos} : \A i \in DOMAIN img.relocs :
       LET r == img.relocs[i]
           s == img.syms[r.sym]
       IN  r.type # "RELATIVE" =>
             /\ s.name = "" => s.def /\ r.type \in ABS
             /\ s.def /\ s.name # "" => ~s.local

(* ... and the game defines what it copies, as large as libmvos has it,    *)
(* apart from all else.                                                    *)
CopiesFit ==
  \A i \in Copies :
    LET c == Game.syms[Game.relocs[i].sym]
    IN  /\ c.def /\ c.value = Game.relocs[i].at
        /\ CopyRange(i) \subseteq DOMAIN Game.words
        /\ \A j \in Copies \ {i} : CopyRange(i) \cap CopyRange(j) = {}
        /\ \A j \in DOMAIN Game.relocs \ Copies : Game.relocs[j].at \notin CopyRange(i)
        /\ \A j \in DOMAIN Mvos.syms :
             LET s == Mvos.syms[j]
             IN  s.name = c.name /\ s.name \in DOMAIN Defs(Mvos) =>
                   /\ s.size = c.size /\ c.size > 0
                   /\ s.value .. s.value + s.size - 1 \subseteq DOMAIN Mvos.words
                   /\ \A k \in DOMAIN Mvos.relocs :
                        Mvos.relocs[k].type \in GOT =>
                          Mvos.relocs[k].at \notin s.value .. s.value + s.size - 1

ImagesFit == ImagesApart /\ RelocationsApart /\ NamesBindable /\ CopiesFit

(* Once linked, each relocated word designates what the dynamic linker of  *)
(* the original system would have it designate, the game's copies of the   *)
(* virtual tables are "a byte-identical snapshot" of the relocated ones,   *)
(* and the words of the files that no relocation is for are as they were.  *)
LinkedAsLoader ==
  pass = "linked" =>
    /\ DOMAIN mem = DOMAIN FileWords
    /\ \A a \in DOMAIN mem \ (Designated(Game) \cup Designated(Mvos) \cup {LibcData}) :
         mem[a] = FileWords[a]
    /\ \A img \in {Game, Mvos} : \A k \in DOMAIN img.relocs : AsLoader(img, img.relocs[k])

(* "Game wins on name clashes": a name that both images define is the      *)
(* game's wherever its address is taken, as in a GOT.  The code relocates  *)
(* libmvos's text with libmvos's own definition if the game has no copy.   *)
GameWins ==
  pass = "linked" =>
    \A img \in {Game, Mvos} : \A k \in DOMAIN img.relocs :
      LET r == img.relocs[k]
          s == img.syms[r.sym]
      IN  r.type \in ABS /\ Hidden(img, s) =>
            mem[r.at + Bias(img)] = WordFor(img, r, HomeOf(s.name))
=============================================================================
