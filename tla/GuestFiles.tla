----------------------------- MODULE GuestFiles -----------------------------
(***************************************************************************)
(* The guest's descriptors, sockets and streams (TrapLayer in              *)
(* port/src/traps.cpp): the tables fds_ and files_ that map what the guest *)
(* holds to what the host has open, the error number the guest reads, and  *)
(* the saves, which the host normalises as the guest closes them.          *)
(*                                                                         *)
(* Handlers run to completion on the emulation thread, one action each.    *)
(* The host kernel is external: it gives the lowest free descriptor, and   *)
(* a call may succeed or fail for any cause it has.                        *)
(***************************************************************************)
EXTENDS SaveFile

CONSTANTS
  FirstFd,    \* next_fd_ at the start (3)
  MaxFd,      \* descriptors the guest is given in one session (bound)
  SetSize,    \* descriptors an fd_set has a bit for (1024)
  Winsock,    \* TRUE if socket errors are not found in errno (Windows)
  Slots,      \* paths of saves
  Worlds,     \* game states: a sequence of provinces [gap, size, group]
  OldSaves,   \* copies of a group in the saves of earlier sessions
  Wrap        \* a counter wraps here (256)

ASSUME FilesConstants == FirstFd \in Nat /\ MaxFd \in Nat /\ Wrap \in Nat \ {0}

None == -1

VARIABLES
  fds,      \* fds_: what each guest descriptor stands for
  next,     \* next_fd_
  host,     \* the host's open descriptors
  err,      \* errno, the Winsock error, the guest's errno, the true cause
  streams,  \* files_: the open streams on saves
  disk,     \* the saves on disk
  mem,      \* copies of a group in the game's memory, as loaded
  saved     \* history: the game state each slot was last written with

fdVars     == <<fds, next, host, err>>
streamVars == <<streams, disk, mem, saved>>
vars       == <<fdVars, streamVars>>

-----------------------------------------------------------------------------
(* Host descriptors and the two tables.                                    *)

(* The lowest descriptor the host has not in use.                          *)
Free == CHOOSE h \in 0 .. MaxFd :
          h \notin host /\ \A k \in 0 .. h - 1 : k \in host

Entry(kind, h) == [kind |-> kind, h |-> h]

Put(f, a, v) == [x \in DOMAIN f \cup {a} |-> IF x = a THEN v ELSE f[x]]
Drop(f, a)   == [x \in DOMAIN f \ {a} |-> f[x]]

(* Mutant: the lowest free number, as a kernel would give.                 *)
Number_Reused == CHOOSE n \in FirstFd .. MaxFd :
                   n \notin DOMAIN fds /\ \A k \in FirstFd .. n - 1 : k \in DOMAIN fds

(* Guest numbers are given in order and never again.                       *)
Number == next

(* A new descriptor of the host's, adopted under a new guest number.       *)
Adopt(kind) ==
  /\ next <= MaxFd
  /\ host' = host \cup {Free}
  /\ fds' = Put(fds, Number, Entry(kind, Free))
  /\ next' = next + 1

(* host_fd_of: None for a number that is not open and for a faked one.     *)
HostFd(f) == IF f \in DOMAIN fds THEN fds[f].h ELSE None

IsSocket(f) == HostFd(f) # None /\ fds[f].kind = "sock"

(* Numbers the guest may pass: those it was given, open or closed since.   *)
Given == FirstFd .. next - 1

-----------------------------------------------------------------------------
(* Errors.  A call that fails sets the host's error and the handler the    *)
(* guest's: errno, where Winsock does not report, or the socket error.     *)
Fails(socket, cause, read) ==
  LET e == IF socket /\ Winsock THEN [err EXCEPT !.sock = cause]
                                ELSE [err EXCEPT !.host = cause]
  IN  err' = [e EXCEPT !.guest = IF read = "socket" /\ Winsock THEN e.sock
                                 ELSE e.host,
                       !.cause = cause]

(* The handler fails of its own: set_errno with a Linux number.            *)
Refuses(cause) == err' = [err EXCEPT !.guest = cause, !.cause = cause]

OnlyErr == UNCHANGED <<fds, next, host, streamVars>>

-----------------------------------------------------------------------------
(* open, close, read and write.                                            *)

(* /dev is faked: no host descriptor.                                      *)
OpenDevice ==
  /\ next <= MaxFd
  /\ fds' = Put(fds, Number, Entry("device", None))
  /\ next' = next + 1
  /\ UNCHANGED <<host, err, streamVars>>

OpenFile ==
  \/ Adopt("file") /\ UNCHANGED <<err, streamVars>>
  \/ Fails(FALSE, "noent", "host") /\ OnlyErr

(* Mutant: the entry outlives the host descriptor.                         *)
Close_Kept(f) ==
  /\ f \in DOMAIN fds
  /\ host' = host \ {HostFd(f)}
  /\ UNCHANGED <<fds, next, err, streamVars>>

(* An unknown number is refused, without an error number.                  *)
Close(f) ==
  /\ f \in DOMAIN fds
  /\ host' = host \ {HostFd(f)}
  /\ fds' = Drop(fds, f)
  /\ UNCHANGED <<next, err, streamVars>>

(* read and write, when they fail.  Devices never do; libmvos polls its    *)
(* sockets through these two.                                              *)
ReadWrite(f) ==
  /\ IF HostFd(f) = None
     THEN f \notin DOMAIN fds /\ Refuses("badf")
     ELSE IF IsSocket(f)
          THEN Fails(TRUE, "again", "socket")
          ELSE Fails(FALSE, "io", "host")
  /\ OnlyErr

-----------------------------------------------------------------------------
(* Sockets.                                                                *)

Socket ==
  \/ Adopt("sock") /\ UNCHANGED <<err, streamVars>>
  \/ Fails(TRUE, "mfile", "socket") /\ OnlyErr
  \/ Refuses("afnosupport") /\ OnlyErr

(* bind, connect, send, recv and their like, when they fail: the error is  *)
(* looked for in errno.  The guest calls them on sockets and on numbers    *)
(* that are no longer open.  On those, listen and setsockopt change        *)
(* nothing and report success; on sockets, listen fails like the others.   *)
(* Left out is getsockname, which returns -1 and sets no errno.            *)
SocketCall(f) ==
  /\ HostFd(f) # None => IsSocket(f)
  /\ IF IsSocket(f) THEN Fails(TRUE, "again", "host") ELSE Refuses("badf")
  /\ OnlyErr

(* accept adopts the connection.                                           *)
Accept(f) ==
  /\ IsSocket(f)
  /\ Adopt("sock")
  /\ UNCHANGED <<err, streamVars>>

(* select looks at the numbers below its set's size that the host knows.   *)
Selectable(f) == f < SetSize /\ HostFd(f) # None

-----------------------------------------------------------------------------
(* Streams and saves.                                                      *)

(* n copies of a group, one after the other.                               *)
Repeated(group, n) == [j \in 1 .. n * Len(group) |-> group[1 + ((j - 1) % Len(group))]]

(* The bytes of a save of world w with n copies of each group, up to the   *)
(* end of each of its provinces ...                                        *)
UpTo(n, w) ==
  LET upto[p \in 0 .. Len(w)] ==
        IF p = 0 THEN <<>>
        ELSE upto[p - 1] \o w[p].gap \o <<(n * w[p].size) % Wrap>>
               \o Repeated(w[p].group, n)
  IN  upto

(* ... and all of them.                                                    *)
Body(n, w) == UpTo(n, w)[Len(w)]

(* No counter of a save with n copies wraps.                               *)
Fits(n, w) == \A p \in DOMAIN w : n * w[p].size < Wrap

Empty == [header |-> "none", body |-> <<>>]

Ptrs == 1 .. 2 * Cardinality(Slots)

(* fopen: writing truncates, and is remembered for fclose.  The block that *)
(* stands for the stream is never freed, so its address is a new one.      *)
(* Assumed of the game: mode r or w, and one stream on a save at a time.   *)
FOpen(s, writing) ==
  /\ \A q \in DOMAIN streams : streams[q].slot # s
  /\ \E p \in Ptrs \ DOMAIN streams :
       streams' = Put(streams, p, [slot |-> s, wrote |-> writing])
  /\ disk' = IF writing THEN [disk EXCEPT ![s] = Empty] ELSE disk
  /\ UNCHANGED <<fdVars, mem, saved>>

(* The host cannot open the file under either path.                        *)
FOpenFails == Refuses("noent") /\ OnlyErr

(* The game writes its whole state, with one copy more than it has loaded. *)
(* Assumed of the game, as its saves show: the state it holds does not     *)
(* grow as it saves, only as it loads what it saved.                       *)
FWrite(p) ==
  /\ streams[p].wrote
  /\ disk[streams[p].slot] = Empty
  /\ \E w \in Worlds :
       /\ disk' = [disk EXCEPT ![streams[p].slot] =
                     [header |-> "junk", body |-> Body(mem + 1, w)]]
       /\ saved' = [saved EXCEPT ![streams[p].slot] = w]
  /\ UNCHANGED <<fdVars, streams, mem>>

(* The game loads a save it can read: no counter has wrapped.              *)
FRead(p) ==
  /\ ~streams[p].wrote
  /\ \E n \in 1 .. Wrap, w \in Worlds :
       /\ Fits(n, w)
       /\ disk[streams[p].slot].body = Body(n, w)
       /\ mem' = n
  /\ UNCHANGED <<fdVars, streams, disk, saved>>

(* Mutant: the save is left as the game wrote it.                          *)
FClose_Raw(p) ==
  /\ streams' = Drop(streams, p)
  /\ UNCHANGED <<fdVars, disk, mem, saved>>

(* fclose: a save that was written is normalised.  An empty file is not    *)
(* touched.                                                                *)
FClose(p) ==
  /\ disk' = IF streams[p].wrote /\ disk[streams[p].slot] # Empty
             THEN [disk EXCEPT ![streams[p].slot] = Collapse(@)]
             ELSE disk
  /\ streams' = Drop(streams, p)
  /\ UNCHANGED <<fdVars, mem, saved>>

-----------------------------------------------------------------------------
Init ==
  /\ fds = [f \in {} |-> Entry("file", None)]
  /\ next = FirstFd
  /\ host = {}
  /\ err = [host |-> "none", sock |-> "none", guest |-> "none", cause |-> "none"]
  /\ streams = [p \in {} |-> [slot |-> CHOOSE s \in Slots : TRUE, wrote |-> FALSE]]
  /\ saved \in [Slots -> Worlds]
  /\ \E old \in [Slots -> OldSaves] :
       disk = [s \in Slots |-> [header |-> "junk", body |-> Body(old[s], saved[s])]]
  /\ mem = 0

Descriptors ==
  \/ OpenDevice \/ OpenFile \/ Socket
  \/ \E f \in Given :
       Close(f) \/ ReadWrite(f) \/ SocketCall(f) \/ Accept(f)

Saves ==
  \/ \E s \in Slots, writing \in BOOLEAN : FOpen(s, writing)
  \/ FOpenFails
  \/ \E p \in DOMAIN streams : FWrite(p) \/ FRead(p) \/ FClose(p)

Next == Descriptors \/ Saves

Spec == Init /\ [][Next]_vars
-----------------------------------------------------------------------------
(* The tables and the host agree: every descriptor the host has open is    *)
(* the guest's through exactly one entry, so that none leaks, and none is  *)
(* closed or read for another once the host has given it out again.        *)
OneEntryEach ==
  LET held == {f \in DOMAIN fds : fds[f].h # None}
  IN  /\ host = {fds[f].h : f \in held}
      /\ \A f, g \in held : fds[f].h = fds[g].h => f = g

(* ... and a number that was closed stays dead: whoever kept it reads      *)
(* EBADF and never another's file or connection.                           *)
HostOwned ==
  [][ OneEntryEach' /\ \A f \in DOMAIN fds' \ DOMAIN fds : f >= next ]_vars

(* "A non-blocking read with no data pending is the common case": after a  *)
(* failed call the guest reads why it failed, so that "no data yet" is     *)
(* never a hard error.                                                     *)
ErrnoTells == err.guest = err.cause

(* "select is real, over the guest's 1024-bit fd_set": any socket the      *)
(* guest has open it can select on.                                        *)
SocketsSelectable == \A f \in DOMAIN fds : IsSocket(f) => Selectable(f)

(* Copies of a group in a save that is closed, ...                         *)
Closed == {1} \cup OldSaves

(* ... and in one that the game has written and not closed.                *)
Grown == {n + 1 : n \in {0} \cup Closed}

(* Where the counter of province p is, and the bytes of the lists: those   *)
(* that count more than one group.                                         *)
Counter(n, w, p) == Len(UpTo(n, w)[p - 1]) + Len(w[p].gap) + 1

InList(n, w, i) ==
  n > 1 /\ \E p \in DOMAIN w : i \in Counter(n, w, p) .. Len(UpTo(n, w)[p])

(* What the theorems about saves take of their bytes, whatever is in them: *)
(* a province ends in a counter and a group that is not flat fill, no byte *)
(* outside the lists happens to claim a list, or to be followed by many    *)
(* copies, and no counter happens to claim smaller groups than its own.    *)
Province == [gap : Seq(Nat), size : ToSet(Groups), group : Seq(Nat)]

Legible(n, w) ==
  LET d == Body(n, w)
  IN  /\ \A i \in DOMAIN d : ~InList(n, w, i) =>
           \A g \in ToSet(Groups) :
             /\ ~Claims(d, i, g)
             /\ ~ /\ i + Suspicious * g * Unit - 1 <= Len(d)
                  /\ Varied(d, i, g)
                  /\ Repeats(d, i, i + Suspicious * g * Unit - 1, g * Unit)
      /\ n > 1 => \A p \in DOMAIN w :
           \E k \in DOMAIN Groups :
             /\ Groups[k] = w[p].size
             /\ \A j \in 1 .. k - 1 : ~Claims(d, Counter(n, w, p), Groups[j])

WorldsLegible ==
  \A w \in Worlds :
    /\ w \in Seq(Province) /\ Len(w) \in MinLists .. MaxLists
    /\ \A p \in DOMAIN w : /\ Len(w[p].group) = w[p].size * Unit
                           /\ Cardinality(ToSet(w[p].group)) >= Distinct
    /\ \A n \in 1 .. Wrap : Fits(n, w) => Legible(n, w)

(* ... and the saves of earlier sessions have room for one more group.     *)
OldSavesFit ==
  /\ OldSaves \subseteq Nat \ {0}
  /\ \A w \in Worlds, n \in Closed : Fits(n + 1, w)

(* Whatever is loaded, played on and saved over, a save that the game has  *)
(* closed is what it last wrote with one group in each list - nothing else *)
(* is lost - and a save it only read is as it was.                         *)
SavesSound ==
  \A s \in Slots :
    (\A p \in DOMAIN streams : streams[p].slot # s \/ ~streams[p].wrote)
    => \/ disk[s] = Empty
       \/ disk[s] = [header |-> "stamped", body |-> Body(1, saved[s])]
       \/ disk[s].header = "junk"
            /\ \E n \in OldSaves : disk[s].body = Body(n, saved[s])

(* "Overflowed file: refused by both implementations, left byte-identical":*)
(* a save in which a counter has wrapped is not rewritten as it is closed. *)
OverflowRefused ==
  \A s \in Slots :
    Overflowed(disk[s].body, Runs(disk[s].body))
      => Collapse(disk[s]).body = disk[s].body

(* The tool agrees with the host: of any save whose counters have not      *)
(* wrapped, from an earlier session, written or closed, it keeps what the  *)
(* host keeps, and takes no healthy list for an overflow.                  *)
ToolRepairs ==
  \A s \in Slots, n \in 1 .. Wrap :
    Fits(n, saved[s]) /\ disk[s].body = Body(n, saved[s])
    => Repair(disk[s]).body = Body(1, saved[s])
=============================================================================
