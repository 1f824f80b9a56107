------------------------------- MODULE Splice -------------------------------
(***************************************************************************)
(* How control passes between the guest and the host (Machine in           *)
(* machine.cpp): host calls, import traps, and guest functions spliced     *)
(* into a trap, on the guest's own stack.                                  *)
(*                                                                         *)
(* A handler runs to its end inside code_hook, so trap_raw_ and in_resume_ *)
(* never outlive a step.  The stack is counted in words and grows down.    *)
(* Compiled guest code is abstracted to what it does to the stack: it      *)
(* calls imports, and on return it restores ESP from its frame.            *)
(***************************************************************************)
EXTENDS Integers, Sequences, SequencesExt

CONSTANTS
  Words,      \* words of guest stack
  Args,       \* numbers of arguments passed to an import or a spliced call
  HostCalls   \* calls from the host (bound)

ASSUME SpliceConstants ==
  /\ Words \in Nat \ {0}
  /\ Args \subseteq Nat
  /\ HostCalls \in Nat

(* The words that matter: return addresses, which are positive for guest   *)
(* code (the depth of the activation it belongs to), and arguments.        *)
TRAP   == -1    \* the import's trap address
RESUME == -2    \* RESUME_BASE
STOP   == -3    \* STOP_ADDR
STUB   == -4    \* the FLD; RET stub of return_double
ARG    == 0     \* an argument: not a place to return to

VARIABLES
  cpu,     \* EIP, ESP, and whether EAX holds the import's own result
  mem,     \* the stack
  resume,  \* resume_: the pending continuations
  calls,   \* history: the activations under way, imports included
  back,    \* history: the last return of an import to its caller
  made,    \* host calls made
  dead     \* history: frames of resume_ left behind by aborted host calls

vars == <<cpu, mem, resume, calls, back, made, dead>>

Init ==
  /\ cpu = [eip |-> STOP, sp |-> Words, own |-> FALSE]
  /\ mem = [w \in 0 .. Words |-> ARG]
  /\ resume = <<>>
  /\ calls = <<>>
  /\ back = [at |-> 1, want |-> 1, drift |-> 0, own |-> TRUE, tail |-> FALSE]
  /\ made = 0
  /\ dead = 0

(* The stack with a call frame of n arguments pushed below sp.             *)
FrameAt(sp, n)     == sp - n - 1
Pushed(sp, n, ret) ==
  [w \in DOMAIN mem |->
     IF w = FrameAt(sp, n) THEN ret
     ELSE IF FrameAt(sp, n) < w /\ w < sp THEN ARG
     ELSE mem[w]]

Activation(kind, entry, n, want) ==
  [kind |-> kind, entry |-> entry, args |-> n, want |-> want]

InGuest == cpu.eip > 0
InTrap  == cpu.eip = TRAP

-----------------------------------------------------------------------------
(* Machine::call: a frame with the sentinel for a return address.          *)
HostCall ==
  /\ cpu.eip = STOP
  /\ made < HostCalls
  /\ made' = made + 1
  /\ mem' = Pushed(Words, 0, STOP)
  /\ cpu' = [eip |-> 1, sp |-> Words - 1, own |-> FALSE]
  /\ calls' = <<Activation("guest", Words - 1, 0, STOP)>>
  /\ UNCHANGED <<resume, back, dead>>

(* Guest code calls an import.                                             *)
CallImport(n) ==
  /\ InGuest
  /\ FrameAt(cpu.sp, n) >= 0
  /\ mem' = Pushed(cpu.sp, n, cpu.eip)
  /\ cpu' = [cpu EXCEPT !.eip = TRAP, !.sp = FrameAt(cpu.sp, n), !.own = FALSE]
  /\ calls' = Append(calls, Activation("import", FrameAt(cpu.sp, n), n, cpu.eip))
  /\ UNCHANGED <<resume, back, made, dead>>

(* Control arrives at address eip with ESP = sp.  Back in the code that    *)
(* called an import, the caller pops its arguments.                        *)
Arrive(eip, sp, own, tail) ==
  LET import == Last(calls)
  IN  IF eip > 0
      THEN /\ cpu' = [eip |-> eip, sp |-> sp + import.args, own |-> own]
           /\ calls' = Front(calls)
           /\ back' = [at |-> eip, want |-> import.want, own |-> own,
                       drift |-> sp - (import.entry + 1), tail |-> tail]
      ELSE /\ cpu' = [eip |-> eip, sp |-> sp, own |-> own]
           /\ UNCHANGED <<calls, back>>

-----------------------------------------------------------------------------
(* What a handler may do (code_hook).                                      *)

(* Return: code_hook pops the return address.                              *)
HandlerReturns ==
  /\ InTrap
  /\ Arrive(mem[cpu.sp], cpu.sp + 1, TRUE, FALSE)
  /\ UNCHANGED <<mem, resume, made, dead>>

(* return_double: a stub loads the value and pops the return address.      *)
HandlerReturnsDouble ==
  /\ InTrap
  /\ cpu' = [cpu EXCEPT !.eip = STUB]
  /\ UNCHANGED <<mem, resume, calls, back, made, dead>>

StubReturns ==
  /\ cpu.eip = STUB
  /\ Arrive(mem[cpu.sp], cpu.sp + 1, TRUE, FALSE)
  /\ UNCHANGED <<mem, resume, made, dead>>

(* request_stop: the host call ends here, whatever is under way.           *)
HandlerStops ==
  /\ InTrap
  /\ cpu' = [eip |-> STOP, sp |-> Words, own |-> FALSE]
  /\ calls' = <<>>
  /\ dead' = Len(resume)
  /\ UNCHANGED <<mem, resume, back, made>>

(* Enter the spliced function of the given kind at frame sp.               *)
EnterGuest(kind, sp, n, ret) ==
  /\ cpu' = [eip |-> Len(calls) + 1, sp |-> sp, own |-> FALSE]
  /\ calls' = Append(calls, Activation(kind, sp, n, ret))

(* The frames of the heartbeat, the music call and the console: one        *)
(* argument, and the trap's own return address again.                      *)
HandlerTails ==
  /\ InTrap
  /\ FrameAt(cpu.sp, 1) >= 0
  /\ mem' = Pushed(cpu.sp, 1, mem[cpu.sp])
  /\ EnterGuest("tail", FrameAt(cpu.sp, 1), 1, mem[cpu.sp])
  /\ UNCHANGED <<resume, back, made, dead>>

(* Mutant: the tick gets its signal number where it would look for it.     *)
HandlerTicks_Signo ==
  /\ InTrap
  /\ FrameAt(cpu.sp, 0) >= 0
  /\ mem' = [Pushed(cpu.sp, 0, TRAP) EXCEPT ![cpu.sp] = ARG]
  /\ EnterGuest("tick", FrameAt(cpu.sp, 0), 0, TRAP)
  /\ UNCHANGED <<resume, back, made, dead>>

(* redirect_timer_reentrant: no argument, and a return to the trap itself  *)
(* with the trap's frame left intact.                                      *)
HandlerTicks ==
  /\ InTrap
  /\ FrameAt(cpu.sp, 0) >= 0
  /\ mem' = Pushed(cpu.sp, 0, TRAP)
  /\ EnterGuest("tick", FrameAt(cpu.sp, 0), 0, TRAP)
  /\ UNCHANGED <<resume, back, made, dead>>

(* call_guest_then, from a handler or chained from a continuation: each    *)
(* frame is built below the trapped call's own.                            *)
CallGuestThen(outer, ret, n, pending) ==
  /\ FrameAt(outer, n) >= 0
  /\ mem' = Pushed(outer, n, RESUME)
  /\ resume' = Append(pending, [outer |-> outer, ret |-> ret])
  /\ EnterGuest("then", FrameAt(outer, n), n, RESUME)

HandlerCalls(n) ==
  /\ InTrap
  /\ CallGuestThen(cpu.sp, mem[cpu.sp], n, resume)
  /\ UNCHANGED <<back, made, dead>>

-----------------------------------------------------------------------------
(* The resume trap.                                                        *)
InResume == cpu.eip = RESUME

(* Mutants: the frames are a queue; the frame is left on resume_.          *)
Pending_Oldest == Head(resume)
Popped_Kept    == resume

Pending == Last(resume)
Popped  == Front(resume)

(* Mutant: the trapped call's return address is left on the stack.         *)
ResumeReturns_NoPop ==
  /\ InResume
  /\ LET f == Pending
     IN  Arrive(f.ret, f.outer, TRUE, FALSE)
  /\ resume' = Popped
  /\ UNCHANGED <<mem, made, dead>>

(* The continuation returns: the trapped call is finished by hand.         *)
ResumeReturns ==
  /\ InResume
  /\ LET f == Pending
     IN  Arrive(f.ret, f.outer + 1, TRUE, FALSE)
  /\ resume' = Popped
  /\ UNCHANGED <<mem, made, dead>>

(* Mutant: the next frame is built from ESP as the call left it.           *)
ResumeChains_FromEsp(n) ==
  /\ InResume
  /\ CallGuestThen(cpu.sp, mem[cpu.sp], n, Popped)
  /\ UNCHANGED <<back, made, dead>>

(* The continuation calls again.                                           *)
ResumeChains(n) ==
  /\ InResume
  /\ LET f == Pending
     IN  CallGuestThen(f.outer, f.ret, n, Popped)
  /\ UNCHANGED <<back, made, dead>>

-----------------------------------------------------------------------------
(* Guest code returns: ESP is where it was on entry, and ret pops it.  A   *)
(* tail splice returns for the import it replaced.                         *)
GuestReturns ==
  /\ InGuest
  /\ LET a   == Last(calls)
         eip == mem[a.entry]
     IN  CASE a.kind = "guest" ->
                /\ cpu' = [eip |-> eip, sp |-> Words, own |-> FALSE]
                /\ calls' = <<>>
                /\ UNCHANGED back
           [] a.kind = "tail" ->
                LET import == calls[Len(calls) - 1]
                IN  /\ cpu' = [eip |-> eip, sp |-> a.entry + 1 + import.args,
                               own |-> FALSE]
                    /\ calls' = SubSeq(calls, 1, Len(calls) - 2)
                    /\ back' = [at |-> eip, want |-> import.want,
                                own |-> FALSE, tail |-> TRUE,
                                drift |-> a.entry + 1 - (import.entry + 1)]
           [] OTHER ->
                /\ cpu' = [eip |-> eip, sp |-> a.entry + 1, own |-> FALSE]
                /\ calls' = Front(calls)
                /\ UNCHANGED back
  /\ UNCHANGED <<mem, resume, made, dead>>

Handler ==
  \/ HandlerReturns \/ HandlerReturnsDouble \/ StubReturns \/ HandlerStops
  \/ HandlerTails \/ HandlerTicks
  \/ \E n \in Args : HandlerCalls(n)

Next ==
  \/ HostCall
  \/ \E n \in Args : CallImport(n)
  \/ Handler
  \/ ResumeReturns
  \/ \E n \in Args : ResumeChains(n)
  \/ GuestReturns

Spec == Init /\ [][Next]_vars

-----------------------------------------------------------------------------
(* ESP stays on the stack, and control goes to code, a trap or a sentinel  *)
(* and never to data.                                                      *)
TypeOK ==
  /\ cpu.sp \in 0 .. Words
  /\ cpu.eip \in {TRAP, RESUME, STOP, STUB} \cup 1 .. Len(calls)
  /\ resume \in Seq([outer : 0 .. Words, ret : 1 .. Words])
  /\ made \in 0 .. HostCalls
  /\ dead \in 0 .. Len(resume)

(* Whatever is spliced above a trapped call, its frame - the return        *)
(* address and the arguments that a re-entered handler reads again - is    *)
(* left as the caller wrote it.                                            *)
FramesIntact ==
  \A i \in DOMAIN calls :
    calls[i].kind = "import" =>
      /\ mem[calls[i].entry] = calls[i].want
      /\ \A w \in 1 .. calls[i].args : mem[calls[i].entry + w] = ARG

(* resume_ is the stack of calls waiting for a spliced function, innermost *)
(* last; an abort may leave frames of a dead host call below them, never   *)
(* above.                                                                  *)
ResumeMatches ==
  LET waiting == {i \in DOMAIN calls :
                    /\ calls[i].kind = "import"
                    /\ \/ i < Len(calls) /\ calls[i + 1].kind = "then"
                       \/ i = Len(calls) /\ InResume}
      Above(i) == Cardinality({j \in waiting : j > i})
  IN  /\ Cardinality(waiting) = Len(resume) - dead
      /\ \A i \in waiting :
           resume[Len(resume) - Above(i)] = [outer |-> calls[i].entry,
                                   ret |-> calls[i].want]

(* An import returns to the code that called it, through any nesting and   *)
(* any chain of splices, and unless its handler ended in a tail splice it  *)
(* leaves ESP where a ret would and EAX with the handler's own value; all  *)
(* the while resume_ is the stack of the calls that wait.                  *)
BackToCaller ==
  /\ TypeOK
  /\ ResumeMatches
  /\ back.at = back.want
  /\ back.tail \/ (back.drift = 0 /\ back.own)

(* "from the original caller's point of view the import call returned      *)
(* normally, just after a detour".                                         *)
ReturnsNormally == back.drift = 0
=============================================================================
