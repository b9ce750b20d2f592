------------------------------ MODULE KvmVapic ------------------------------
(***************************************************************************)
(* The task-priority accelerator of optionrom/kvmvapic.S: guest code that  *)
(* reads and writes the local APIC's TPR in a page shared with the         *)
(* hypervisor instead of trapping.                                         *)
(*                                                                         *)
(* A record per virtual CPU holds tpr, isr and irr in one 32-bit word.     *)
(* The guest writes tpr with a compare-and-exchange of the whole word, and *)
(* polls the hypervisor when the word says that the write has unmasked an  *)
(* interrupt.  The hypervisor runs between any two guest instructions: it  *)
(* updates isr and irr, and decides from the tpr it finds whether an       *)
(* interrupt can be injected.  It is told of a lowered tpr by nobody but   *)
(* the poll.                                                               *)
(*                                                                         *)
(* The mp_ code masks interrupts; the up_ code does not, so that an        *)
(* interrupt handler, which itself sets the TPR, can run inside it.  A     *)
(* virtual CPU therefore has a stack of contexts.                          *)
(***************************************************************************)
EXTENDS Naturals, Sequences

CONSTANTS
  VCpus,
  Vectors,   \* interrupt vectors, 16 .. 255 in the hardware
  Tprs,      \* values the guest writes to the TPR
  SubPri,    \* vectors of one priority class: 16 in the hardware
  Regs       \* registers the guest reads the TPR into

ASSUME VapicAssumption ==
  /\ Vectors \subseteq Nat \ {0}
  /\ \A S \in SUBSET Vectors : S # {} => \E m \in S : \A x \in S : x <= m
                                 \* there are at most 256 vectors
  /\ Tprs \subseteq Nat /\ 0 \in Tprs
  /\ SubPri \in Nat \ {0}

VARIABLES
  up,     \* whether the guest was given the up_ entry points or the mp_ ones
  rec,    \* per VCPU: the shared word [tpr, isr, irr]
  on,     \* per VCPU: bit 0 of byte 4 of its record, set by the hypervisor
  real,   \* per VCPU: the APIC's own TPR, behind real_tpr
  ctx,    \* per VCPU: stack of contexts, the running one last
  pend,   \* per VCPU: vectors requested in the APIC (hypervisor's IRR)
  insvc,  \* per VCPU: vectors in service (hypervisor's ISR)
  armed,  \* per VCPU: the hypervisor injects as soon as the guest takes it
  dirty   \* per VCPU: a vector was requested and the VCPU not yet kicked

vars == <<up, rec, on, real, ctx, pend, insvc, armed, dirty>>

(* 0 stands for "no vector", as in the record.                             *)
Highest(S) == IF S = {} THEN 0 ELSE CHOOSE m \in S : \A x \in S : x <= m
Class(v) == v \div SubPri
ClassBase(v) == Class(v) * SubPri       \* "bits 3:0 are zero"
Max2(a, b) == IF a >= b THEN a ELSE b

Word == [tpr : Nat, isr : Nat, irr : Nat]
PCs == {"run", "enter", "load", "xchg", "check", "poll", "overflow"}
Context == [pc : PCs, arg : Nat, eax : Word]
NoWord == [tpr |-> 0, isr |-> 0, irr |-> 0]
Running == [pc |-> "run", arg |-> 0, eax |-> NoWord]

Top(v) == ctx[v][Len(ctx[v])]
Goto(v, c) == ctx' = [ctx EXCEPT ![v][Len(ctx[v])] = c]

TypeOK ==
  /\ up \in BOOLEAN
  /\ rec \in [VCpus -> Word]
  /\ on \in [VCpus -> BOOLEAN]
  /\ real \in [VCpus -> Nat]
  /\ ctx \in [VCpus -> Seq(Context)]
  /\ \A v \in VCpus : ctx[v] # << >>
  /\ pend \in [VCpus -> SUBSET Vectors]
  /\ insvc \in [VCpus -> SUBSET Vectors]
  /\ armed \in [VCpus -> BOOLEAN]
  /\ dirty \in [VCpus -> BOOLEAN]

Init ==
  /\ up \in BOOLEAN
  /\ rec = [v \in VCpus |-> NoWord]
  /\ on = [v \in VCpus |-> up]
  /\ real = [v \in VCpus |-> 0]
  /\ ctx = [v \in VCpus |-> <<Running>>]
  /\ pend = [v \in VCpus |-> {}] /\ insvc = [v \in VCpus |-> {}]
  /\ armed = [v \in VCpus |-> FALSE] /\ dirty = [v \in VCpus |-> FALSE]

-----------------------------------------------------------------------------
(* The hypervisor: external to src/.  It acts on a VCPU while that VCPU is *)
(* stopped between two instructions, so each of its visits is one step.    *)

(* The processor priority, from a TPR and the vectors in service.          *)
Ppr(tpr, serving) == Max2(tpr, ClassBase(Highest(serving)))
Injectable(tpr, requested, serving) ==
  Class(Highest(requested)) > Class(Ppr(tpr, serving))

EffectiveTpr(v) == IF on[v] THEN rec[v].tpr ELSE real[v]
Deliverable(v) == Injectable(EffectiveTpr(v), pend[v], insvc[v])

(* A visit that leaves the TPR at tpr: the record is refreshed and the     *)
(* injection decided from what is now pending and in service.              *)
Visit(v, tpr, requested, serving) ==
  /\ pend' = [pend EXCEPT ![v] = requested]
  /\ insvc' = [insvc EXCEPT ![v] = serving]
  /\ rec' = [rec EXCEPT ![v] = [tpr |-> tpr,
                                isr |-> ClassBase(Highest(serving)),
                                irr |-> Highest(requested)]]
  /\ armed' = [armed EXCEPT ![v] = Injectable(tpr, requested, serving)]
  /\ dirty' = [dirty EXCEPT ![v] = FALSE]

(* Another CPU or a device requests a vector; the VCPU is kicked later.    *)
Request(v, vector) ==
  /\ vector \notin pend[v]
  /\ pend' = [pend EXCEPT ![v] = @ \cup {vector}]
  /\ dirty' = [dirty EXCEPT ![v] = TRUE]
  /\ UNCHANGED <<up, rec, on, real, ctx, insvc, armed>>

Kick(v) ==
  /\ dirty[v]
  /\ Visit(v, EffectiveTpr(v), pend[v], insvc[v])
  /\ UNCHANGED <<up, on, real, ctx>>

(* Injection, at a point where the guest takes interrupts: anywhere in the *)
(* UP code, which leaves the interrupt flag alone, and outside MP code.    *)
Interruptible(v) == Top(v).pc # "overflow" /\ (up \/ Top(v).pc = "run")

Inject(v) ==
  /\ armed[v] /\ Deliverable(v) /\ Interruptible(v)
  /\ LET vector == Highest(pend[v])
     IN  Visit(v, EffectiveTpr(v), pend[v] \ {vector}, insvc[v] \cup {vector})
  /\ ctx' = [ctx EXCEPT ![v] = Append(@, Running)]
  /\ UNCHANGED <<up, on, real>>

(* The handler signals the end of interrupt, which traps, and returns.     *)
EndOfInterrupt(v) ==
  /\ Len(ctx[v]) > 1 /\ Top(v).pc = "run"
  /\ insvc[v] # {}
  /\ Visit(v, EffectiveTpr(v), pend[v], insvc[v] \ {Highest(insvc[v])})
  /\ ctx' = [ctx EXCEPT ![v] = SubSeq(@, 1, Len(@) - 1)]
  /\ UNCHANGED <<up, on, real>>

-----------------------------------------------------------------------------
(* The guest code.                                                         *)

(* reenable_vtpr: an "out" to the hypervisor, which keeps the record in    *)
(* use or takes it into use with the APIC's TPR.  MP guests find it off    *)
(* when it declines.                                                       *)
reenable_vtpr(v) ==
  \E use \in BOOLEAN :
    /\ up => use
    /\ on' = [on EXCEPT ![v] = use]
    /\ real' = [real EXCEPT ![v] = EffectiveTpr(v)]
    /\ Visit(v, EffectiveTpr(v), pend[v], insvc[v])

(* A call of [mp|up]_set_tpr with its argument on the stack.               *)
CallSetTpr(v, tpr) ==
  /\ Top(v).pc = "run"
  /\ Goto(v, [pc |-> "enter", arg |-> tpr, eax |-> NoWord])
  /\ UNCHANGED <<up, rec, on, real, pend, insvc, armed, dirty>>

Enter(v) ==
  /\ Top(v).pc = "enter"
  /\ reenable_vtpr(v)
  /\ Goto(v, [Top(v) EXCEPT !.pc = "load"])
  /\ UNCHANGED up

(* The word is loaded; in MP code a record that is not in use sends the    *)
(* value to the APIC, which traps (mp_set_tpr_bad).                        *)
Load(v) ==
  /\ Top(v).pc = "load"
  /\ IF up \/ on[v]
     THEN /\ Goto(v, [Top(v) EXCEPT !.pc = "xchg", !.eax = rec[v]])
          /\ UNCHANGED <<rec, real, pend, insvc, armed, dirty>>
     ELSE /\ real' = [real EXCEPT ![v] = Top(v).arg]
          /\ Visit(v, Top(v).arg, pend[v], insvc[v])
          /\ Goto(v, Running)
  /\ UNCHANGED <<up, on>>

(* Faults of the exchange: a plain store; no test of its outcome.          *)
XchgStore(v) ==
  /\ Top(v).pc = "xchg"
  /\ rec' = [rec EXCEPT ![v] = [Top(v).eax EXCEPT !.tpr = Top(v).arg]]
  /\ Goto(v, [Top(v) EXCEPT !.pc = "check"])
  /\ UNCHANGED <<up, on, real, pend, insvc, armed, dirty>>

XchgOnce(v) ==
  /\ Top(v).pc = "xchg"
  /\ rec' = IF rec[v] = Top(v).eax THEN [rec EXCEPT ![v].tpr = Top(v).arg]
                                   ELSE rec
  /\ Goto(v, [Top(v) EXCEPT !.pc = "check"])
  /\ UNCHANGED <<up, on, real, pend, insvc, armed, dirty>>

(* lock cmpxchg: isr and irr in the word are the ones the guest has seen,  *)
(* or the loop starts again.                                               *)
Xchg(v) ==
  /\ Top(v).pc = "xchg"
  /\ IF rec[v] = Top(v).eax
     THEN /\ rec' = [rec EXCEPT ![v].tpr = Top(v).arg]
          /\ Goto(v, [Top(v) EXCEPT !.pc = "check"])
     ELSE /\ Goto(v, [Top(v) EXCEPT !.pc = "load"])
          /\ UNCHANGED rec
  /\ UNCHANGED <<up, on, real, pend, insvc, armed, dirty>>

(* A fault of the comparison: it takes the TPR that was, not the new one.  *)
MustPollOld(c) == c.eax.irr > Max2(c.eax.tpr, c.eax.isr)

(* ppr is the greater of the two bytes, and irr above it means poll.       *)
MustPoll(c) == c.eax.irr > Max2(c.arg, c.eax.isr)

Check(v) ==
  /\ Top(v).pc = "check"
  /\ Goto(v, IF MustPoll(Top(v)) THEN [Top(v) EXCEPT !.pc = "poll"]
                                 ELSE Running)
  /\ UNCHANGED <<up, rec, on, real, pend, insvc, armed, dirty>>

(* A fault of the way out: after the poll the exchange is done again.      *)
PollAgain(v) ==
  /\ Top(v).pc = "poll"
  /\ Visit(v, EffectiveTpr(v), pend[v], insvc[v])
  /\ Goto(v, [Top(v) EXCEPT !.pc = "load"])
  /\ UNCHANGED <<up, on, real>>

(* kvm_hypercall_vapic_poll_irq.                                           *)
Poll(v) ==
  /\ Top(v).pc = "poll"
  /\ Visit(v, EffectiveTpr(v), pend[v], insvc[v])
  /\ Goto(v, Running)
  /\ UNCHANGED <<up, on, real>>

(* [mp|up]_get_tpr_<reg>: reads the TPR after a reenable_vtpr, with        *)
(* interrupts masked in MP code.  mp_get_tpr_edi calls itself instead of   *)
(* mp_get_tpr_eax and runs out of stack.                                   *)
GetTpr(v, reg) ==
  /\ Top(v).pc = "run"
  /\ IF reg = "edi" /\ ~up
     THEN /\ Goto(v, [Running EXCEPT !.pc = "overflow"])
          /\ UNCHANGED <<rec, on, real, pend, insvc, armed, dirty>>
     ELSE /\ reenable_vtpr(v)
          /\ UNCHANGED ctx
  /\ UNCHANGED up

-----------------------------------------------------------------------------
Host(v) ==
  \/ \E vector \in Vectors : Request(v, vector)
  \/ Kick(v)
  \/ Inject(v)

Guest(v) ==
  \/ EndOfInterrupt(v)
  \/ \E tpr \in Tprs : CallSetTpr(v, tpr)
  \/ Enter(v) \/ Load(v) \/ Xchg(v) \/ Check(v) \/ Poll(v)
  \/ \E reg \in Regs : GetTpr(v, reg)

Next == \E v \in VCpus : Host(v) \/ Guest(v)

Spec == Init /\ [][Next]_vars

(* A kicked VCPU is visited, an armed injection happens where it can, and  *)
(* guest code that has entered set_tpr, or a handler, runs on.             *)
Fairness ==
  \A v \in VCpus :
    /\ WF_vars(Kick(v)) /\ SF_vars(Inject(v))
    /\ SF_vars(EndOfInterrupt(v))
    /\ WF_vars(Enter(v)) /\ WF_vars(Load(v)) /\ WF_vars(Xchg(v))
    /\ WF_vars(Check(v)) /\ WF_vars(Poll(v))

FairSpec == Spec /\ Fairness

-----------------------------------------------------------------------------
(* Properties.                                                             *)

(* A context that is past its cmpxchg and on its way to the poll.          *)
OnItsWayToPoll(c) == c.pc = "poll" \/ (c.pc = "check" /\ MustPoll(c))

(* The race the code is built around: an interrupt that the present TPR    *)
(* does not mask is known to the hypervisor as injectable, or the code     *)
(* that unmasked it will still poll.  It is never left to chance, whatever *)
(* arrives between the load, the cmpxchg and the comparison.               *)
NoInterruptForgotten ==
  \A v \in VCpus :
    Deliverable(v) /\ ~dirty[v] =>
      armed[v] \/ \E k \in DOMAIN ctx[v] : OnItsWayToPoll(ctx[v][k])

(* The comment at "vapic format": isr and irr are read-only for the guest. *)
(* No set_tpr, however it interleaves with the hypervisor, leaves a record *)
(* whose isr or irr is not what the hypervisor last put there.             *)
ReadOnlyForGuest ==
  \A v \in VCpus :
    ~dirty[v] => /\ rec[v].isr = ClassBase(Highest(insvc[v]))
                 /\ rec[v].irr = Highest(pend[v])

(* A completed set_tpr is in force: the TPR the APIC uses is the one last  *)
(* written, whether it went to the record or to the APIC itself.           *)
TprInForce ==
  [][\A v \in VCpus :
       /\ Top(v).pc \in {"load", "xchg"} /\ Top(v)'.pc \in {"check", "run"}
       /\ Len(ctx'[v]) = Len(ctx[v])
       => EffectiveTpr(v)' = Top(v).arg]_vars

(* An interrupt that is not masked is taken, or masked again: it does not  *)
(* stay pending because nobody looks at it.                                *)
InterruptsGetIn == \A v \in VCpus : Deliverable(v) ~> ~Deliverable(v)
=============================================================================
