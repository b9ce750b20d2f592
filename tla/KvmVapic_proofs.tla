--------------------------- MODULE KvmVapic_proofs ---------------------------
(***************************************************************************)
(* Proofs about KvmVapic: whatever the hypervisor does between two guest   *)
(* instructions, set_tpr loses no interrupt and keeps isr and irr, for any *)
(* number of virtual CPUs, vectors and nested handlers.                    *)
(***************************************************************************)
EXTENDS KvmVapic, TLAPS

(* Contexts that have passed the test of byte 4 run with the record in     *)
(* use: UP code never sees it off, and in MP code, which is not            *)
(* interrupted, only the running context is anywhere but at rest.          *)
UsesRecord(v) ==
  /\ \A k \in DOMAIN ctx[v] : ctx[v][k].pc = "xchg" => on[v]
  /\ up => on[v]
  /\ ~up => \A k \in DOMAIN ctx[v] : k # Len(ctx[v]) => ctx[v][k].pc = "run"

SeenBy(v) == \E k \in DOMAIN ctx[v] : OnItsWayToPoll(ctx[v][k])

NotForgotten(v) == Deliverable(v) /\ ~dirty[v] => armed[v] \/ SeenBy(v)
Kept(v) == ~dirty[v] => /\ rec[v].isr = ClassBase(Highest(insvc[v]))
                        /\ rec[v].irr = Highest(pend[v])

IInv ==
  /\ TypeOK
  /\ \A v \in VCpus : NotForgotten(v) /\ Kept(v) /\ UsesRecord(v)

(* The highest vector of a set is a number, 0 for none, as in the record.  *)
LEMMA HighestType == \A S \in SUBSET Vectors : Highest(S) \in Nat
BY VapicAssumption DEF Highest

(* Division is monotonic: a higher priority class needs a higher number,   *)
(* so the byte-wise comparison of set_tpr never overlooks an interrupt     *)
(* that the APIC, which compares classes, would deliver.                   *)
LEMMA ClassOrder ==
  /\ \A a \in Nat : Class(a) \in Nat /\ ClassBase(a) \in Nat
  /\ \A a, b \in Nat : Class(a) > Class(b) => a > b
<1>1. \A a \in Nat : Class(a) \in Nat /\ ClassBase(a) \in Nat
  BY VapicAssumption DEF Class, ClassBase
<1>2. ASSUME NEW a \in Nat, NEW b \in Nat, Class(a) > Class(b) PROVE a > b
  <2> DEFINE p == Class(a)
             q == Class(b)
  <2>1. p \in Nat /\ q \in Nat BY <1>1
  <2>2. SubPri * p <= a /\ b < SubPri * (q + 1)
    BY VapicAssumption DEF Class
  <2>3. p >= q + 1 BY <2>1, <1>2
  <2>4. SubPri * p >= SubPri * (q + 1)
    BY <2>1, <2>3, VapicAssumption
  <2> QED BY <2>1, <2>2, <2>4, VapicAssumption
<1> QED BY <1>1, <1>2

(* A step of the running context changes the top of its stack only.        *)
LEMMA GotoEffect ==
  ASSUME TypeOK, NEW v \in VCpus, NEW c \in Context, Goto(v, c)
  PROVE  /\ ctx' \in [VCpus -> Seq(Context)]
         /\ \A w \in VCpus : ctx'[w] # << >>
         /\ \A w \in VCpus : w # v => ctx'[w] = ctx[w]
         /\ Len(ctx'[v]) = Len(ctx[v]) /\ DOMAIN ctx'[v] = DOMAIN ctx[v]
         /\ Len(ctx[v]) \in DOMAIN ctx[v]
         /\ ctx'[v][Len(ctx[v])] = c
         /\ \A k \in DOMAIN ctx[v] : k # Len(ctx[v]) => ctx'[v][k] = ctx[v][k]
<1>1. /\ ctx \in [VCpus -> Seq(Context)] /\ ctx[v] \in Seq(Context)
      /\ \A w \in VCpus : ctx[w] # << >>
  BY DEF TypeOK
<1>2. Len(ctx[v]) \in Nat /\ DOMAIN ctx[v] = 1 .. Len(ctx[v])
  BY <1>1
<1>3. Len(ctx[v]) \in DOMAIN ctx[v] BY <1>1, <1>2
<1> DEFINE s == [ctx[v] EXCEPT ![Len(ctx[v])] = c]
<1>4. ctx' = [ctx EXCEPT ![v] = s] BY DEF Goto
<1>5. s \in Seq(Context) /\ Len(s) = Len(ctx[v]) /\ DOMAIN s = DOMAIN ctx[v]
  BY <1>1, <1>2, <1>3
<1>6. s[Len(ctx[v])] = c /\ s # << >> BY <1>1, <1>2, <1>3, <1>5
<1>7. \A k \in DOMAIN ctx[v] : k # Len(ctx[v]) => s[k] = ctx[v][k]
  BY <1>1
<1>8. ctx'[v] = s /\ \A w \in VCpus : w # v => ctx'[w] = ctx[w]
  BY <1>1, <1>4
<1> HIDE DEF s
<1>9. ctx' \in [VCpus -> Seq(Context)] BY <1>1, <1>4, <1>5
<1>10. \A w \in VCpus : ctx'[w] # << >> BY <1>1, <1>6, <1>8
<1> QED BY <1>3, <1>5, <1>6, <1>7, <1>8, <1>9, <1>10

(* The TPR in force is a number.                                           *)
LEMMA EffectiveType ==
  ASSUME TypeOK, NEW v \in VCpus
  PROVE  EffectiveTpr(v) \in Nat
<1>1. rec[v] \in Word /\ real[v] \in Nat BY DEF TypeOK
<1> QED BY <1>1 DEF EffectiveTpr, Word

(* A visit of the hypervisor leaves nothing to find out: the record shows  *)
(* what is pending and in service, and the injection is decided by it.     *)
LEMMA VisitEffect ==
  ASSUME TypeOK, NEW v \in VCpus, NEW t \in Nat,
         NEW p \in SUBSET Vectors, NEW s \in SUBSET Vectors,
         Visit(v, t, p, s)
  PROVE  /\ rec' \in [VCpus -> Word]
         /\ pend' \in [VCpus -> SUBSET Vectors]
         /\ insvc' \in [VCpus -> SUBSET Vectors]
         /\ armed' \in [VCpus -> BOOLEAN] /\ dirty' \in [VCpus -> BOOLEAN]
         /\ rec'[v].tpr = t /\ pend'[v] = p /\ insvc'[v] = s
         /\ (armed'[v] <=> Injectable(t, p, s))
         /\ Kept(v)'
         /\ \A w \in VCpus : w # v =>
              /\ rec'[w] = rec[w] /\ pend'[w] = pend[w]
              /\ insvc'[w] = insvc[w]
              /\ armed'[w] = armed[w] /\ dirty'[w] = dirty[w]
<1> DEFINE r == [tpr |-> t, isr |-> ClassBase(Highest(s)), irr |-> Highest(p)]
<1>1. r \in Word BY HighestType, ClassOrder DEF Word
<1>2. r.tpr = t /\ r.isr = ClassBase(Highest(s)) /\ r.irr = Highest(p)
  OBVIOUS
<1>3. Injectable(t, p, s) \in BOOLEAN BY DEF Injectable
<1>4. /\ rec' = [rec EXCEPT ![v] = r]
      /\ pend' = [pend EXCEPT ![v] = p] /\ insvc' = [insvc EXCEPT ![v] = s]
      /\ armed' = [armed EXCEPT ![v] = Injectable(t, p, s)]
      /\ dirty' = [dirty EXCEPT ![v] = FALSE]
  BY DEF Visit
<1> HIDE DEF r
<1>5. rec'[v] = r /\ pend'[v] = p /\ insvc'[v] = s
  BY <1>4 DEF TypeOK
<1>6. /\ rec' \in [VCpus -> Word]
      /\ pend' \in [VCpus -> SUBSET Vectors]
      /\ insvc' \in [VCpus -> SUBSET Vectors]
  BY <1>1, <1>4 DEF TypeOK
<1>7. armed' \in [VCpus -> BOOLEAN] /\ dirty' \in [VCpus -> BOOLEAN]
  BY <1>3, <1>4 DEF TypeOK
<1>8. (armed'[v] <=> Injectable(t, p, s)) BY <1>4 DEF TypeOK
<1>9. Kept(v)' BY <1>2, <1>5 DEF Kept
<1>10. \A w \in VCpus : w # v =>
         /\ rec'[w] = rec[w] /\ pend'[w] = pend[w] /\ insvc'[w] = insvc[w]
         /\ armed'[w] = armed[w] /\ dirty'[w] = dirty[w]
  BY <1>4 DEF TypeOK
<1> QED BY <1>2, <1>5, <1>6, <1>7, <1>8, <1>9, <1>10

(* What holds of a virtual CPU is not disturbed by the steps of another.   *)
LEMMA OtherKeeps ==
  ASSUME up' = up, NEW w \in VCpus, NotForgotten(w), Kept(w), UsesRecord(w),
         rec'[w] = rec[w], on'[w] = on[w], real'[w] = real[w],
         ctx'[w] = ctx[w], pend'[w] = pend[w], insvc'[w] = insvc[w],
         armed'[w] = armed[w], dirty'[w] = dirty[w]
  PROVE  NotForgotten(w)' /\ Kept(w)' /\ UsesRecord(w)'
<1>1. EffectiveTpr(w)' = EffectiveTpr(w) BY DEF EffectiveTpr
<1>2. Deliverable(w)' <=> Deliverable(w) BY <1>1 DEF Deliverable
<1>3. SeenBy(w)' <=> SeenBy(w) BY DEF SeenBy
<1>4. NotForgotten(w)' BY <1>2, <1>3 DEF NotForgotten
<1>5. Kept(w)' BY DEF Kept
<1>6. UsesRecord(w)' BY DEF UsesRecord
<1> QED BY <1>4, <1>5, <1>6

(* The same for the virtual CPU that moves, when only its contexts do, and *)
(* none of them leaves its way to the poll or passes the test of byte 4.   *)
LEMMA QuietStepKeeps ==
  ASSUME NEW v \in VCpus, NotForgotten(v), Kept(v),
         EffectiveTpr(v)' = EffectiveTpr(v), rec'[v] = rec[v],
         pend'[v] = pend[v], insvc'[v] = insvc[v],
         armed'[v] = armed[v], dirty'[v] = dirty[v],
         SeenBy(v) => SeenBy(v)'
  PROVE  NotForgotten(v)' /\ Kept(v)'
<1>1. Deliverable(v)' <=> Deliverable(v) BY DEF Deliverable
<1>2. NotForgotten(v)' BY <1>1 DEF NotForgotten
<1>3. Kept(v)' BY DEF Kept
<1> QED BY <1>2, <1>3

(* After a visit that reckons with the TPR in force nothing is forgotten.  *)
LEMMA VisitTells ==
  ASSUME NEW v \in VCpus, NEW t, NEW p, NEW s,
         EffectiveTpr(v)' = t, pend'[v] = p, insvc'[v] = s,
         (armed'[v] <=> Injectable(t, p, s))
  PROVE  NotForgotten(v)'
<1>1. Deliverable(v)' <=> Injectable(t, p, s) BY DEF Deliverable
<1> QED BY <1>1 DEF NotForgotten

(* The visit at the TPR in force leaves that TPR in force.                 *)
LEMMA VisitKeepsTpr ==
  ASSUME NEW v \in VCpus, NEW t, t = EffectiveTpr(v),
         rec'[v].tpr = t,
         \/ on'[v] = on[v] /\ real'[v] = real[v]
         \/ real'[v] = t
  PROVE  EffectiveTpr(v)' = t
BY DEF EffectiveTpr

(* Initially nothing is requested.                                         *)
LEMMA InitIInv == Init => IInv
<1> SUFFICES ASSUME Init PROVE IInv OBVIOUS
<1>1. Running \in Context /\ NoWord \in Word
  BY DEF Running, Context, PCs, NoWord, Word
<1>2. TypeOK
  <2>1. <<Running>> \in Seq(Context) /\ <<Running>> # << >> BY <1>1
  <2>2. up \in BOOLEAN BY DEF Init
  <2> QED BY <1>1, <2>1, <2>2 DEF Init, TypeOK
<1>3. Highest({}) = 0 BY DEF Highest
<1>4. Class(0) = 0 /\ ClassBase(0) = 0 BY VapicAssumption DEF Class, ClassBase
<1>5. ASSUME NEW v \in VCpus PROVE NotForgotten(v) /\ Kept(v) /\ UsesRecord(v)
  <2>1. pend[v] = {} /\ insvc[v] = {} /\ rec[v] = NoWord /\ ctx[v] = <<Running>>
        /\ on[v] = up
    BY DEF Init
  <2>2. ~Deliverable(v)
    <3>1. EffectiveTpr(v) \in Nat BY <1>2, EffectiveType
    <3>2. Ppr(EffectiveTpr(v), {}) \in Nat
      BY <1>3, <1>4, <3>1 DEF Ppr, Max2
    <3>3. Class(Ppr(EffectiveTpr(v), {})) \in Nat BY <3>2, ClassOrder
    <3> QED BY <1>3, <1>4, <2>1, <3>3 DEF Deliverable, Injectable
  <2>3. NotForgotten(v) BY <2>2 DEF NotForgotten
  <2>4. Kept(v) BY <1>3, <1>4, <2>1 DEF Kept, NoWord
  <2>5. \A k \in DOMAIN ctx[v] : ctx[v][k] = Running BY <2>1
  <2>6. UsesRecord(v) BY <2>1, <2>5 DEF UsesRecord, Running
  <2> QED BY <2>3, <2>4, <2>6
<1> QED BY <1>2, <1>5 DEF IInv

(* Every step that visits the hypervisor with the TPR that is in force     *)
(* after it keeps the invariant, whatever else it does to its own CPU.     *)
LEMMA VisitKeeps ==
  ASSUME up' = up, IInv, NEW v \in VCpus, NEW t \in Nat,
         NEW p \in SUBSET Vectors, NEW s \in SUBSET Vectors,
         Visit(v, t, p, s), EffectiveTpr(v)' = t,
         on' \in [VCpus -> BOOLEAN], real' \in [VCpus -> Nat],
         ctx' \in [VCpus -> Seq(Context)], \A w \in VCpus : ctx'[w] # << >>,
         \A w \in VCpus : w # v => /\ on'[w] = on[w] /\ real'[w] = real[w]
                                   /\ ctx'[w] = ctx[w],
         UsesRecord(v)'
  PROVE  IInv'
<1>0. TypeOK BY DEF IInv
<1>1. /\ pend'[v] = p /\ insvc'[v] = s
      /\ (armed'[v] <=> Injectable(t, p, s)) /\ Kept(v)'
  BY <1>0, VisitEffect
<1>2. NotForgotten(v)' BY <1>1, VisitTells
<1>3. TypeOK'
  <2>1. /\ rec' \in [VCpus -> Word]
        /\ pend' \in [VCpus -> SUBSET Vectors]
        /\ insvc' \in [VCpus -> SUBSET Vectors]
        /\ armed' \in [VCpus -> BOOLEAN] /\ dirty' \in [VCpus -> BOOLEAN]
    BY <1>0, VisitEffect
  <2> QED BY <1>0, <2>1 DEF TypeOK
<1>4. ASSUME NEW w \in VCpus, w # v
      PROVE  NotForgotten(w)' /\ Kept(w)' /\ UsesRecord(w)'
  <2>1. NotForgotten(w) /\ Kept(w) /\ UsesRecord(w) BY DEF IInv
  <2>2. rec'[w] = rec[w] /\ pend'[w] = pend[w] /\ insvc'[w] = insvc[w]
        /\ armed'[w] = armed[w] /\ dirty'[w] = dirty[w]
    BY <1>0, <1>4 DEF Visit, TypeOK
  <2>3. on'[w] = on[w] /\ real'[w] = real[w] /\ ctx'[w] = ctx[w] BY <1>4
  <2> QED BY <2>1, <2>2, <2>3, OtherKeeps
<1> QED BY <1>1, <1>2, <1>3, <1>4 DEF IInv

(* Facts about the state every action lemma starts from.                   *)
LEMMA Facts ==
  ASSUME IInv, NEW v \in VCpus
  PROVE  /\ TypeOK /\ EffectiveTpr(v) \in Nat
         /\ pend[v] \in SUBSET Vectors /\ insvc[v] \in SUBSET Vectors
         /\ NotForgotten(v) /\ Kept(v) /\ UsesRecord(v)
         /\ Len(ctx[v]) \in DOMAIN ctx[v] /\ DOMAIN ctx[v] = 1 .. Len(ctx[v])
         /\ ctx[v] \in Seq(Context) /\ Top(v) \in Context
<1>1. TypeOK /\ NotForgotten(v) /\ Kept(v) /\ UsesRecord(v) BY DEF IInv
<1>2. ctx[v] \in Seq(Context) /\ ctx[v] # << >>
      /\ pend[v] \in SUBSET Vectors /\ insvc[v] \in SUBSET Vectors
  BY <1>1 DEF TypeOK
<1>3. Len(ctx[v]) \in Nat /\ DOMAIN ctx[v] = 1 .. Len(ctx[v]) BY <1>2
<1>4. Len(ctx[v]) \in DOMAIN ctx[v] BY <1>2, <1>3
<1>5. Top(v) \in Context BY <1>2, <1>3, <1>4 DEF Top
<1>6. EffectiveTpr(v) \in Nat BY <1>1, EffectiveType
<1> QED BY <1>1, <1>2, <1>3, <1>4, <1>5, <1>6

(* A vector is requested: until the kick, nothing is claimed of it.        *)
LEMMA RequestKeeps ==
  ASSUME up' = up, IInv, NEW v \in VCpus, NEW vector \in Vectors, Request(v, vector)
  PROVE  IInv'
<1>2. TypeOK' BY DEF Request, IInv, TypeOK
<1>3. ASSUME NEW w \in VCpus, w # v
      PROVE  NotForgotten(w)' /\ Kept(w)' /\ UsesRecord(w)'
  <2>1. NotForgotten(w) /\ Kept(w) /\ UsesRecord(w) BY DEF IInv
  <2>2. /\ rec'[w] = rec[w] /\ on'[w] = on[w] /\ real'[w] = real[w]
        /\ ctx'[w] = ctx[w] /\ pend'[w] = pend[w] /\ insvc'[w] = insvc[w]
        /\ armed'[w] = armed[w] /\ dirty'[w] = dirty[w]
    BY <1>3 DEF Request, IInv, TypeOK
  <2> QED BY <2>1, <2>2, OtherKeeps
<1>4. dirty'[v] BY DEF Request, IInv, TypeOK
<1>5. UsesRecord(v)' BY DEF Request, UsesRecord, IInv
<1> QED BY <1>2, <1>3, <1>4, <1>5 DEF IInv, NotForgotten, Kept

(* Kick, injection and end of interrupt: visits at the TPR in force.       *)
LEMMA HostKeeps ==
  ASSUME up' = up, IInv, NEW v \in VCpus, Kick(v) \/ Inject(v) \/ EndOfInterrupt(v)
  PROVE  IInv'
<1> DEFINE t == EffectiveTpr(v)
<1>1. TypeOK /\ t \in Nat /\ pend[v] \in SUBSET Vectors
      /\ insvc[v] \in SUBSET Vectors /\ UsesRecord(v)
  BY Facts
<1>2. /\ on \in [VCpus -> BOOLEAN] /\ real \in [VCpus -> Nat]
      /\ ctx \in [VCpus -> Seq(Context)] /\ \A w \in VCpus : ctx[w] # << >>
  BY <1>1 DEF TypeOK
<1>3. ASSUME NEW p \in SUBSET Vectors, NEW s \in SUBSET Vectors,
             Visit(v, t, p, s), on' = on, real' = real,
             ctx' \in [VCpus -> Seq(Context)],
             \A w \in VCpus : ctx'[w] # << >>,
             \A w \in VCpus : w # v => ctx'[w] = ctx[w],
             UsesRecord(v)'
      PROVE  IInv'
  <2>1. rec'[v].tpr = t BY <1>1, <1>3, VisitEffect
  <2>2. EffectiveTpr(v)' = t BY <1>3, <2>1, VisitKeepsTpr
  <2> HIDE DEF t
  <2> QED BY <1>1, <1>2, <1>3, <2>2, VisitKeeps
<1>4. CASE Kick(v)
  <2>1. Visit(v, t, pend[v], insvc[v]) /\ on' = on /\ real' = real /\ ctx' = ctx
    BY <1>4 DEF Kick
  <2>2. UsesRecord(v)' BY <1>1, <2>1 DEF UsesRecord
  <2> HIDE DEF t
  <2> QED BY <1>1, <1>2, <1>3, <2>1, <2>2
<1>5. Running \in Context BY DEF Running, Context, PCs, NoWord, Word
<1>6. CASE Inject(v)
  <2> DEFINE vector == Highest(pend[v])
  <2>1. /\ Visit(v, t, pend[v] \ {vector}, insvc[v] \cup {vector})
        /\ on' = on /\ real' = real
        /\ ctx' = [ctx EXCEPT ![v] = Append(@, Running)]
        /\ Deliverable(v) /\ Interruptible(v)
    BY <1>6 DEF Inject
  <2>2. vector \in Vectors
    <3>1. pend[v] # {}
      <4>1. SUFFICES ASSUME pend[v] = {} PROVE FALSE OBVIOUS
      <4>2. vector = 0 BY <4>1 DEF Highest
      <4>3. ~(0 > Class(Ppr(t, insvc[v])))
        <5>1. Highest(insvc[v]) \in Nat BY <1>1, HighestType
        <5>2. Ppr(t, insvc[v]) \in Nat BY <1>1, <5>1, ClassOrder DEF Ppr, Max2
        <5>3. Class(Ppr(t, insvc[v])) \in Nat BY <5>2, ClassOrder
        <5> QED BY <5>3
      <4>4. Class(0) = 0 BY VapicAssumption DEF Class
      <4> QED BY <2>1, <4>2, <4>3, <4>4 DEF Deliverable, Injectable
    <3>2. vector \in pend[v] BY <1>1, <3>1, VapicAssumption DEF Highest
    <3> QED BY <1>1, <3>2
  <2>3. /\ pend[v] \ {vector} \in SUBSET Vectors
        /\ insvc[v] \cup {vector} \in SUBSET Vectors
    BY <1>1, <2>2
  <2> DEFINE s == Append(ctx[v], Running)
  <2>4. s \in Seq(Context) /\ s # << >> /\ Len(s) = Len(ctx[v]) + 1
        /\ DOMAIN s = 1 .. Len(ctx[v]) + 1
        /\ \A k \in DOMAIN ctx[v] : s[k] = ctx[v][k]
        /\ s[Len(ctx[v]) + 1] = Running
    <3>1. ctx[v] \in Seq(Context) BY <1>2
    <3> QED BY <3>1, <1>5
  <2>5. ctx'[v] = s /\ \A w \in VCpus : w # v => ctx'[w] = ctx[w]
    BY <1>2, <2>1
  <2>6. ctx' \in [VCpus -> Seq(Context)] /\ \A w \in VCpus : ctx'[w] # << >>
    BY <1>2, <2>1, <2>4, <2>5
  <2>7. UsesRecord(v)'
    <3> HIDE DEF s, t, vector
    <3>1. DOMAIN ctx[v] = 1 .. Len(ctx[v]) /\ Len(ctx[v]) \in Nat
          /\ Len(ctx[v]) \in DOMAIN ctx[v]
      BY <1>1, Facts
    <3>2. \A k \in DOMAIN s : k \in DOMAIN ctx[v] \/ s[k] = Running
      BY <2>4, <3>1
    <3>3. \A k \in DOMAIN ctx'[v] : ctx'[v][k].pc = "xchg" => on'[v]
      BY <1>1, <2>1, <2>4, <2>5, <3>2 DEF UsesRecord, Running
    <3>4. ~up => Top(v).pc = "run" BY <2>1 DEF Interruptible
    <3>5. ~up => \A k \in DOMAIN ctx[v] : ctx[v][k].pc = "run"
      BY <1>1, <3>1, <3>4 DEF UsesRecord, Top
    <3>6. ~up => \A k \in DOMAIN ctx'[v] : ctx'[v][k].pc = "run"
      BY <2>4, <2>5, <3>2, <3>5 DEF Running
    <3>7. up => on'[v] BY <1>1, <2>1 DEF UsesRecord
    <3> QED BY <3>3, <3>6, <3>7 DEF UsesRecord
  <2> HIDE DEF t, s, vector
  <2> QED BY <1>1, <1>3, <2>1, <2>3, <2>5, <2>6, <2>7
<1>7. CASE EndOfInterrupt(v)
  <2> DEFINE s == SubSeq(ctx[v], 1, Len(ctx[v]) - 1)
  <2>1. /\ Visit(v, t, pend[v], insvc[v] \ {Highest(insvc[v])})
        /\ on' = on /\ real' = real
        /\ Len(ctx[v]) > 1
        /\ ctx' = [ctx EXCEPT ![v] = s]
    BY <1>7 DEF EndOfInterrupt
  <2>2. insvc[v] \ {Highest(insvc[v])} \in SUBSET Vectors BY <1>1
  <2>3. DOMAIN ctx[v] = 1 .. Len(ctx[v]) /\ Len(ctx[v]) \in Nat
        /\ ctx[v] \in Seq(Context)
    BY <1>2
  <2>4. s \in Seq(Context) /\ s # << >> /\ Len(s) = Len(ctx[v]) - 1
        /\ DOMAIN s = 1 .. Len(ctx[v]) - 1
        /\ \A k \in DOMAIN s : k \in DOMAIN ctx[v] /\ k # Len(ctx[v])
                               /\ s[k] = ctx[v][k]
    <3> DEFINE n == Len(ctx[v]) - 1
    <3>1. n \in Nat /\ n >= 1 BY <2>1, <2>3
    <3>2. \A k \in 1 .. n : k \in DOMAIN ctx[v] /\ k # Len(ctx[v])
                            /\ ctx[v][k] \in Context
      BY <2>3, <3>1
    <3>3. s = [k \in 1 .. n |-> ctx[v][k]] BY <2>3, <3>1
    <3> HIDE DEF s
    <3>4. DOMAIN s = 1 .. n /\ \A k \in 1 .. n : s[k] = ctx[v][k] BY <3>3
    <3>5. s \in Seq(Context) BY <3>1, <3>2, <3>3
    <3>6. Len(s) = n BY <3>1, <3>4, <3>5
    <3> QED BY <3>1, <3>2, <3>4, <3>5, <3>6
  <2> HIDE DEF s
  <2>5. ctx'[v] = s /\ \A w \in VCpus : w # v => ctx'[w] = ctx[w]
    BY <1>2, <2>1
  <2>6. ctx' \in [VCpus -> Seq(Context)] /\ \A w \in VCpus : ctx'[w] # << >>
    BY <1>2, <2>1, <2>4, <2>5
  <2>7. UsesRecord(v)'
    <3>1. \A k \in DOMAIN ctx'[v] : ctx'[v][k].pc = "xchg" => on'[v]
      BY <1>1, <2>1, <2>4, <2>5 DEF UsesRecord
    <3>2. ~up => \A k \in DOMAIN ctx'[v] : ctx'[v][k].pc = "run"
      BY <1>1, <2>4, <2>5 DEF UsesRecord
    <3>3. up => on'[v] BY <1>1, <2>1 DEF UsesRecord
    <3> QED BY <3>1, <3>2, <3>3 DEF UsesRecord
  <2> HIDE DEF t
  <2> QED BY <1>1, <1>3, <2>1, <2>2, <2>5, <2>6, <2>7
<1> QED BY <1>4, <1>6, <1>7

(* A step of the running context keeps UsesRecord when the context it      *)
(* leaves has the record in use at its cmpxchg, as Load tests it.          *)
LEMMA TopStep ==
  ASSUME up' = up, IInv, NEW v \in VCpus, NEW c \in Context, Goto(v, c),
         c.pc = "xchg" => on'[v], up => on'[v]
  PROVE  UsesRecord(v)'
<1>1. TypeOK /\ UsesRecord(v) BY Facts
<1>2. /\ Len(ctx'[v]) = Len(ctx[v]) /\ DOMAIN ctx'[v] = DOMAIN ctx[v]
      /\ ctx'[v][Len(ctx[v])] = c
      /\ \A k \in DOMAIN ctx[v] : k # Len(ctx[v]) => ctx'[v][k] = ctx[v][k]
  BY <1>1, GotoEffect
<1>3. ASSUME NEW k \in DOMAIN ctx'[v], ctx'[v][k].pc = "xchg" PROVE on'[v]
  <2>1. CASE k = Len(ctx[v]) BY <1>2, <1>3, <2>1
  <2>2. CASE k # Len(ctx[v])
    <3>1. ctx[v][k].pc = "xchg" BY <1>2, <1>3, <2>2
    <3>2. up BY <1>1, <1>2, <2>2, <3>1 DEF UsesRecord
    <3> QED BY <3>2
  <2> QED BY <2>1, <2>2
<1>4. ~up => \A k \in DOMAIN ctx'[v] : k # Len(ctx'[v]) => ctx'[v][k].pc = "run"
  BY <1>1, <1>2 DEF UsesRecord
<1> QED BY <1>3, <1>4 DEF UsesRecord

(* No context is taken off its way to the poll by a step of the running    *)
(* one that was not on it, or that stays on it.                            *)
LEMMA StillSeen ==
  ASSUME IInv, NEW v \in VCpus, NEW c \in Context, Goto(v, c),
         OnItsWayToPoll(Top(v)) => OnItsWayToPoll(c), SeenBy(v)
  PROVE  SeenBy(v)'
<1>1. TypeOK BY Facts
<1>2. /\ DOMAIN ctx'[v] = DOMAIN ctx[v]
      /\ Len(ctx[v]) \in DOMAIN ctx[v]
      /\ ctx'[v][Len(ctx[v])] = c
      /\ \A k \in DOMAIN ctx[v] : k # Len(ctx[v]) => ctx'[v][k] = ctx[v][k]
  BY <1>1, GotoEffect
<1>3. PICK k \in DOMAIN ctx[v] : OnItsWayToPoll(ctx[v][k]) BY DEF SeenBy
<1>4. CASE k = Len(ctx[v])
  <2>1. OnItsWayToPoll(c) BY <1>3, <1>4 DEF Top
  <2>2. OnItsWayToPoll(ctx'[v][Len(ctx[v])]) BY <1>2, <2>1
  <2> QED BY <1>2, <2>2 DEF SeenBy
<1>5. CASE k # Len(ctx[v])
  <2>1. OnItsWayToPoll(ctx'[v][k]) BY <1>2, <1>3, <1>5
  <2> QED BY <1>2, <2>1 DEF SeenBy
<1> QED BY <1>4, <1>5

(* The steps of the guest that only move its code.                         *)
LEMMA MoveKeeps ==
  ASSUME up' = up, IInv, NEW v \in VCpus, NEW c \in Context, Goto(v, c),
         c.pc = "xchg" => on[v],
         OnItsWayToPoll(Top(v)) => OnItsWayToPoll(c),
         UNCHANGED <<rec, on, real, pend, insvc, armed, dirty>>
  PROVE  IInv'
<1>1. TypeOK /\ UsesRecord(v) /\ NotForgotten(v) /\ Kept(v) BY Facts
<1>2. /\ ctx' \in [VCpus -> Seq(Context)]
      /\ \A w \in VCpus : ctx'[w] # << >>
      /\ \A w \in VCpus : w # v => ctx'[w] = ctx[w]
  BY <1>1, GotoEffect
<1>3. TypeOK' BY <1>1, <1>2 DEF TypeOK
<1>4. UsesRecord(v)' BY <1>1, TopStep DEF UsesRecord
<1>5. SeenBy(v) => SeenBy(v)' BY StillSeen
<1>6. EffectiveTpr(v)' = EffectiveTpr(v) BY DEF EffectiveTpr
<1>7. NotForgotten(v)' /\ Kept(v)' BY <1>1, <1>5, <1>6, QuietStepKeeps
<1>8. ASSUME NEW w \in VCpus, w # v
      PROVE  NotForgotten(w)' /\ Kept(w)' /\ UsesRecord(w)'
  <2>1. NotForgotten(w) /\ Kept(w) /\ UsesRecord(w) BY DEF IInv
  <2> QED BY <1>2, <1>8, <2>1, OtherKeeps
<1> QED BY <1>3, <1>4, <1>7, <1>8 DEF IInv

(* reenable_vtpr, alone or with a move of the running context.             *)
LEMMA ReenableKeeps ==
  ASSUME up' = up, IInv, NEW v \in VCpus, reenable_vtpr(v),
         \/ ctx' = ctx /\ Top(v).pc = "run"
         \/ \E c \in Context : Goto(v, c) /\ c.pc # "xchg"
  PROVE  IInv'
<1> DEFINE t == EffectiveTpr(v)
<1>1. TypeOK /\ t \in Nat /\ pend[v] \in SUBSET Vectors
      /\ insvc[v] \in SUBSET Vectors /\ UsesRecord(v)
  BY Facts
<1>2. PICK use \in BOOLEAN :
        /\ up => use
        /\ on' = [on EXCEPT ![v] = use]
        /\ real' = [real EXCEPT ![v] = t]
        /\ Visit(v, t, pend[v], insvc[v])
  BY DEF reenable_vtpr
<1>3. /\ on' \in [VCpus -> BOOLEAN] /\ real' \in [VCpus -> Nat]
      /\ real'[v] = t /\ on'[v] = use
      /\ \A w \in VCpus : w # v => on'[w] = on[w] /\ real'[w] = real[w]
  <2> HIDE DEF t
  <2> QED BY <1>1, <1>2 DEF TypeOK
<1>4. rec'[v].tpr = t BY <1>1, <1>2, VisitEffect
<1>5. EffectiveTpr(v)' = t BY <1>3, <1>4, VisitKeepsTpr
<1>6. /\ ctx' \in [VCpus -> Seq(Context)]
      /\ \A w \in VCpus : ctx'[w] # << >>
      /\ \A w \in VCpus : w # v => ctx'[w] = ctx[w]
      /\ UsesRecord(v)'
  <2> HIDE DEF t
  <2>1. CASE ctx' = ctx /\ Top(v).pc = "run"
    <3>1. /\ ctx' \in [VCpus -> Seq(Context)]
          /\ \A w \in VCpus : ctx'[w] # << >>
      BY <1>1, <2>1 DEF TypeOK
    <3>2. up => on'[v] BY <1>2, <1>3
    <3>3. ~up => \A k \in DOMAIN ctx[v] : ctx[v][k].pc = "run"
      BY <1>1, <2>1 DEF UsesRecord, Top
    <3>4. UsesRecord(v)' BY <2>1, <3>2, <3>3 DEF UsesRecord
    <3> QED BY <2>1, <3>1, <3>4
  <2>2. CASE \E c \in Context : Goto(v, c) /\ c.pc # "xchg"
    <3>1. PICK c \in Context : Goto(v, c) /\ c.pc # "xchg" BY <2>2
    <3>2. up => on'[v] BY <1>2, <1>3
    <3>3. UsesRecord(v)' BY <3>1, <3>2, TopStep
    <3> QED BY <1>1, <3>1, <3>3, GotoEffect
  <2> QED BY <2>1, <2>2
<1> HIDE DEF t
<1> QED BY <1>1, <1>2, <1>3, <1>5, <1>6, VisitKeeps

(* A word whose fields are numbers compares as set_tpr compares it: when   *)
(* the new TPR unmasks the pending vector, the code goes to the poll.      *)
LEMMA UnmaskedIsPolled ==
  ASSUME NEW c \in Context, NEW requested \in SUBSET Vectors,
         NEW serving \in SUBSET Vectors,
         c.eax.irr = Highest(requested),
         c.eax.isr = ClassBase(Highest(serving)),
         Injectable(c.arg, requested, serving)
  PROVE  MustPoll(c)
<1> DEFINE h == Highest(requested)
           i == ClassBase(Highest(serving))
           m == Max2(c.arg, i)
<1>1. c.arg \in Nat BY DEF Context
<1>2. h \in Nat /\ i \in Nat BY HighestType, ClassOrder
<1>3. m \in Nat BY <1>1, <1>2 DEF Max2
<1>4. Class(h) > Class(m) BY DEF Injectable, Ppr
<1>5. h > m
  <2> HIDE DEF h, i, m
  <2> QED BY <1>2, <1>3, <1>4, ClassOrder
<1> QED BY <1>5 DEF MustPoll

(* The guest's steps.                                                      *)
LEMMA XchgKeeps ==
  ASSUME up' = up, IInv, NEW v \in VCpus, Xchg(v)
  PROVE  IInv'
<1> DEFINE c == Top(v)
<1>1. /\ TypeOK /\ NotForgotten(v) /\ Kept(v) /\ UsesRecord(v)
      /\ c \in Context /\ Len(ctx[v]) \in DOMAIN ctx[v]
  BY Facts
<1>2. c.pc = "xchg" BY DEF Xchg
<1>3. on[v] BY <1>1, <1>2 DEF UsesRecord, Top
<1>4. ~OnItsWayToPoll(c) BY <1>2 DEF OnItsWayToPoll
<1>5. CASE rec[v] # c.eax
  <2> DEFINE d == [c EXCEPT !.pc = "load"]
  <2>1. d \in Context /\ d.pc # "xchg" BY <1>1 DEF Context, PCs
  <2>2. Goto(v, d) /\ UNCHANGED <<rec, on, real, pend, insvc, armed, dirty>>
    BY <1>5 DEF Xchg
  <2> HIDE DEF c, d
  <2> QED BY <1>4, <2>1, <2>2, MoveKeeps DEF c
<1>6. CASE rec[v] = c.eax
  <2> DEFINE d == [c EXCEPT !.pc = "check"]
  <2>1. /\ d \in Context /\ d.pc = "check" /\ d.arg = c.arg /\ d.eax = c.eax
        /\ c.arg \in Nat
    BY <1>1 DEF Context, PCs
  <2>2. /\ rec' = [rec EXCEPT ![v].tpr = c.arg] /\ Goto(v, d)
        /\ UNCHANGED <<on, real, pend, insvc, armed, dirty>>
    BY <1>6 DEF Xchg
  <2> HIDE DEF c, d
  <2>3. rec \in [VCpus -> Word] /\ rec[v] \in Word BY <1>1 DEF TypeOK
  <2>4. /\ rec' \in [VCpus -> Word]
        /\ rec'[v].tpr = c.arg /\ rec'[v].isr = rec[v].isr
        /\ rec'[v].irr = rec[v].irr
        /\ \A w \in VCpus : w # v => rec'[w] = rec[w]
    BY <2>1, <2>2, <2>3 DEF Word
  <2>5. /\ ctx' \in [VCpus -> Seq(Context)]
        /\ \A w \in VCpus : ctx'[w] # << >>
        /\ \A w \in VCpus : w # v => ctx'[w] = ctx[w]
        /\ Len(ctx[v]) \in DOMAIN ctx'[v] /\ ctx'[v][Len(ctx[v])] = d
    BY <1>1, <2>1, <2>2, GotoEffect
  <2>6. TypeOK' BY <1>1, <2>2, <2>4, <2>5 DEF TypeOK
  <2>7. UsesRecord(v)' BY <1>3, <2>1, <2>2, TopStep
  <2>8. Kept(v)' BY <1>1, <2>2, <2>4 DEF Kept
  <2>9. NotForgotten(v)'
    <3> SUFFICES ASSUME Deliverable(v)', ~dirty[v]' PROVE SeenBy(v)'
      BY DEF NotForgotten
    <3>1. EffectiveTpr(v)' = c.arg BY <1>3, <2>2, <2>4 DEF EffectiveTpr
    <3>2. Injectable(c.arg, pend[v], insvc[v])
      BY <2>2, <3>1 DEF Deliverable
    <3>3. ~dirty[v] BY <2>2
    <3>4. c.eax.irr = Highest(pend[v]) /\ c.eax.isr = ClassBase(Highest(insvc[v]))
      BY <1>1, <1>6, <3>3 DEF Kept
    <3>5. pend[v] \in SUBSET Vectors /\ insvc[v] \in SUBSET Vectors
      BY <1>1 DEF TypeOK
    <3>6. MustPoll(d) BY <2>1, <3>2, <3>4, <3>5, UnmaskedIsPolled
    <3>7. OnItsWayToPoll(d) BY <2>1, <3>6 DEF OnItsWayToPoll
    <3> QED BY <2>5, <3>7 DEF SeenBy
  <2>10. ASSUME NEW w \in VCpus, w # v
         PROVE  NotForgotten(w)' /\ Kept(w)' /\ UsesRecord(w)'
    <3>1. NotForgotten(w) /\ Kept(w) /\ UsesRecord(w) BY DEF IInv
    <3> QED BY <2>2, <2>4, <2>5, <2>10, <3>1, OtherKeeps
  <2> QED BY <2>6, <2>7, <2>8, <2>9, <2>10 DEF IInv
<1> QED BY <1>5, <1>6

(* The guest's other steps.                                                *)
LEMMA GuestKeeps ==
  ASSUME up' = up, IInv, NEW v \in VCpus,
         \/ \E tpr \in Tprs : CallSetTpr(v, tpr)
         \/ Enter(v) \/ Load(v) \/ Check(v) \/ Poll(v)
         \/ \E reg \in Regs : GetTpr(v, reg)
  PROVE  IInv'
<1> DEFINE c == Top(v)
<1>1. /\ TypeOK /\ UsesRecord(v) /\ c \in Context
      /\ EffectiveTpr(v) \in Nat
      /\ pend[v] \in SUBSET Vectors /\ insvc[v] \in SUBSET Vectors
  BY Facts
<1>2. /\ NoWord \in Word /\ Running \in Context /\ Running.pc = "run"
      /\ rec[v] \in Word /\ c.arg \in Nat
  BY <1>1 DEF Running, Context, PCs, NoWord, Word, TypeOK
<1>3. CASE \E tpr \in Tprs : CallSetTpr(v, tpr)
  <2>1. PICK tpr \in Tprs : CallSetTpr(v, tpr) BY <1>3
  <2> DEFINE d == [pc |-> "enter", arg |-> tpr, eax |-> NoWord]
  <2>2. d \in Context /\ d.pc # "xchg"
    BY <1>2, VapicAssumption DEF Context, PCs
  <2>3. /\ Goto(v, d) /\ Top(v).pc = "run"
        /\ UNCHANGED <<rec, on, real, pend, insvc, armed, dirty>>
    BY <2>1 DEF CallSetTpr
  <2>4. ~OnItsWayToPoll(Top(v)) BY <2>3 DEF OnItsWayToPoll
  <2> HIDE DEF d
  <2> QED BY <2>2, <2>3, <2>4, MoveKeeps
<1>4. CASE Enter(v)
  <2> DEFINE d == [c EXCEPT !.pc = "load"]
  <2>1. d \in Context /\ d.pc # "xchg" BY <1>1 DEF Context, PCs
  <2>2. reenable_vtpr(v) /\ Goto(v, d) BY <1>4 DEF Enter
  <2> HIDE DEF d
  <2> QED BY <2>1, <2>2, ReenableKeeps
<1>5. CASE Load(v)
  <2>1. CASE up \/ on[v]
    <3> DEFINE d == [c EXCEPT !.pc = "xchg", !.eax = rec[v]]
    <3>1. d \in Context BY <1>1, <1>2 DEF Context, PCs
    <3>2. /\ Goto(v, d) /\ Top(v).pc = "load"
          /\ UNCHANGED <<rec, on, real, pend, insvc, armed, dirty>>
      BY <1>5, <2>1 DEF Load
    <3>3. ~OnItsWayToPoll(Top(v)) BY <3>2 DEF OnItsWayToPoll
    <3>4. on[v] BY <1>1, <2>1 DEF UsesRecord
    <3> HIDE DEF d
    <3> QED BY <3>1, <3>2, <3>3, <3>4, MoveKeeps
  <2>2. CASE ~(up \/ on[v])
    <3>1. /\ real' = [real EXCEPT ![v] = c.arg] /\ on' = on
          /\ Visit(v, c.arg, pend[v], insvc[v]) /\ Goto(v, Running)
      BY <1>5, <2>2 DEF Load
    <3>2. /\ real' \in [VCpus -> Nat] /\ real'[v] = c.arg
          /\ \A w \in VCpus : w # v => real'[w] = real[w]
      <4> HIDE DEF c
      <4> QED BY <1>1, <1>2, <3>1 DEF TypeOK
    <3>3. EffectiveTpr(v)' = c.arg BY <2>2, <3>1, <3>2 DEF EffectiveTpr
    <3>4. UsesRecord(v)' BY <1>2, <2>2, <3>1, TopStep
    <3>5. /\ ctx' \in [VCpus -> Seq(Context)]
          /\ \A w \in VCpus : ctx'[w] # << >>
          /\ \A w \in VCpus : w # v => ctx'[w] = ctx[w]
      BY <1>1, <1>2, <3>1, GotoEffect
    <3>6. on' \in [VCpus -> BOOLEAN] BY <1>1, <3>1 DEF TypeOK
    <3> HIDE DEF c
    <3> QED BY <1>1, <1>2, <3>1, <3>2, <3>3, <3>4, <3>5, <3>6, VisitKeeps
  <2> QED BY <2>1, <2>2
<1>6. CASE Check(v)
  <2> DEFINE d == IF MustPoll(c) THEN [c EXCEPT !.pc = "poll"] ELSE Running
  <2>1. d \in Context /\ d.pc # "xchg"
    BY <1>1, <1>2 DEF Context, PCs
  <2>2. /\ Goto(v, d) /\ Top(v).pc = "check"
        /\ UNCHANGED <<rec, on, real, pend, insvc, armed, dirty>>
    BY <1>6 DEF Check
  <2>3. OnItsWayToPoll(Top(v)) => OnItsWayToPoll(d)
    <3>1. MustPoll(c) => d.pc = "poll" BY <1>1 DEF Context
    <3> QED BY <2>2, <3>1 DEF OnItsWayToPoll
  <2> HIDE DEF d
  <2> QED BY <2>1, <2>2, <2>3, MoveKeeps
<1>7. CASE Poll(v)
  <2> DEFINE t == EffectiveTpr(v)
  <2>1. /\ Visit(v, t, pend[v], insvc[v]) /\ Goto(v, Running)
        /\ on' = on /\ real' = real
    BY <1>7 DEF Poll
  <2>2. rec'[v].tpr = t BY <1>1, <2>1, VisitEffect
  <2>3. EffectiveTpr(v)' = t BY <2>1, <2>2, VisitKeepsTpr
  <2>4. up => on'[v] BY <1>1, <2>1 DEF UsesRecord
  <2>5. UsesRecord(v)' BY <1>2, <2>1, <2>4, TopStep
  <2>6. /\ ctx' \in [VCpus -> Seq(Context)]
        /\ \A w \in VCpus : ctx'[w] # << >>
        /\ \A w \in VCpus : w # v => ctx'[w] = ctx[w]
    BY <1>1, <1>2, <2>1, GotoEffect
  <2>7. on \in [VCpus -> BOOLEAN] /\ real \in [VCpus -> Nat]
    BY <1>1 DEF TypeOK
  <2> HIDE DEF t
  <2> QED BY <1>1, <2>1, <2>3, <2>5, <2>6, <2>7, VisitKeeps DEF t
<1>8. CASE \E reg \in Regs : GetTpr(v, reg)
  <2>1. PICK reg \in Regs : GetTpr(v, reg) BY <1>8
  <2>2. CASE reg = "edi" /\ ~up
    <3> DEFINE d == [Running EXCEPT !.pc = "overflow"]
    <3>1. d \in Context /\ d.pc # "xchg" BY <1>2 DEF Context, PCs
    <3>2. /\ Goto(v, d) /\ Top(v).pc = "run"
          /\ UNCHANGED <<rec, on, real, pend, insvc, armed, dirty>>
      BY <2>1, <2>2 DEF GetTpr
    <3>3. ~OnItsWayToPoll(Top(v)) BY <3>2 DEF OnItsWayToPoll
    <3> HIDE DEF d
    <3> QED BY <3>1, <3>2, <3>3, MoveKeeps
  <2>3. CASE ~(reg = "edi" /\ ~up)
    <3>1. reenable_vtpr(v) /\ ctx' = ctx /\ Top(v).pc = "run"
      BY <2>1, <2>3 DEF GetTpr
    <3> QED BY <3>1, ReenableKeeps
  <2> QED BY <2>2, <2>3
<1> QED BY <1>3, <1>4, <1>5, <1>6, <1>7, <1>8

(* Nothing forgotten, nothing overwritten, whatever interleaves.           *)
THEOREM Invariance == Spec => []IInv
<1>1. Init => IInv BY InitIInv
<1>2. IInv /\ [Next]_vars => IInv'
  <2> SUFFICES ASSUME IInv, [Next]_vars PROVE IInv' OBVIOUS
  <2>1. CASE Next
    <3>1. PICK v \in VCpus : Host(v) \/ Guest(v) BY <2>1 DEF Next
    <3>4. up' = up
      BY <3>1 DEF Host, Request, Kick, Inject, Guest, EndOfInterrupt,
                  CallSetTpr, Enter, Load, Xchg, Check, Poll, GetTpr
    <3>2. CASE Host(v)
      BY <3>2, <3>4, RequestKeeps, HostKeeps DEF Host
    <3>3. CASE Guest(v)
      BY <3>3, <3>4, HostKeeps, XchgKeeps, GuestKeeps DEF Guest
    <3> QED BY <3>1, <3>2, <3>3
  <2>2. CASE UNCHANGED vars
    <3>1. TypeOK' BY <2>2 DEF vars, IInv, TypeOK
    <3>2. ASSUME NEW v \in VCpus
          PROVE  NotForgotten(v)' /\ Kept(v)' /\ UsesRecord(v)'
      <4>1. NotForgotten(v) /\ Kept(v) /\ UsesRecord(v) BY DEF IInv
      <4> QED BY <2>2, <4>1, OtherKeeps DEF vars
    <3> QED BY <3>1, <3>2 DEF IInv
  <2> QED BY <2>1, <2>2
<1> QED BY <1>1, <1>2, PTL DEF Spec

(* Type correctness.                                                       *)
THEOREM TypeCorrect == Spec => []TypeOK
<1>1. IInv => TypeOK BY DEF IInv
<1> QED BY <1>1, Invariance, PTL

(* set_tpr and the hypervisor never leave an unmasked interrupt to chance, *)
(* for any vectors, priorities and nesting of handlers, UP or MP.          *)
THEOREM NothingForgotten == Spec => []NoInterruptForgotten
<1>1. IInv => NoInterruptForgotten
  BY DEF IInv, NotForgotten, SeenBy, NoInterruptForgotten
<1> QED BY <1>1, Invariance, PTL

(* The whole-word compare-and-exchange never writes isr or irr.            *)
THEOREM RecordReadOnly == Spec => []ReadOnlyForGuest
<1>1. IInv => ReadOnlyForGuest BY DEF IInv, Kept, ReadOnlyForGuest
<1> QED BY <1>1, Invariance, PTL

(* A completed set_tpr is in force, in the record or in the APIC.          *)
THEOREM SetTprTakesEffect == Spec => TprInForce
<1> DEFINE Moves(v) == /\ Top(v).pc \in {"load", "xchg"}
                       /\ Top(v)'.pc \in {"check", "run"}
                       /\ Len(ctx'[v]) = Len(ctx[v])
           A == \A v \in VCpus : Moves(v) => EffectiveTpr(v)' = Top(v).arg
<1>1. IInv /\ [Next]_vars => A
  <2> SUFFICES ASSUME IInv, [Next]_vars, NEW v \in VCpus, Moves(v)
               PROVE  EffectiveTpr(v)' = Top(v).arg
    OBVIOUS
  <2>0. TypeOK /\ UsesRecord(v) /\ Len(ctx[v]) \in DOMAIN ctx[v]
        /\ ctx[v] \in Seq(Context) /\ Top(v) \in Context
    BY Facts
  <2>1. ctx'[v] # ctx[v]
    <3>1. ctx'[v] = ctx[v] => Top(v)' = Top(v) BY DEF Top
    <3> QED BY <3>1
  <2>2. PICK w \in VCpus : Host(w) \/ Guest(w) BY <2>1 DEF Next, vars
  <2>3. CASE w # v
    <3>1. ctx'[v] = ctx[v]
      <4>1. ctx \in [VCpus -> Seq(Context)] BY <2>0 DEF TypeOK
      <4>2. \A c : Goto(w, c) => ctx'[v] = ctx[v] BY <2>3, <4>1 DEF Goto
      <4>3. CASE Host(w)
        BY <2>3, <4>1, <4>3 DEF Host, Request, Kick, Inject
      <4>4. CASE Guest(w)
        <5>1. EndOfInterrupt(w) => ctx'[v] = ctx[v]
          BY <2>3, <4>1 DEF EndOfInterrupt
        <5> QED BY <4>2, <4>4, <5>1
              DEF Guest, CallSetTpr, Enter, Load, Xchg, Check, Poll, GetTpr
      <4> QED BY <2>2, <4>3, <4>4
    <3> QED BY <2>1, <3>1
  <2>4. CASE w = v
    <3>1. ~Host(v)
      <4>1. \A vector \in Vectors : ~Request(v, vector)
        BY <2>1 DEF Request
      <4>2. ~Kick(v) BY <2>1 DEF Kick
      <4>3. ~Inject(v)
        <5>1. SUFFICES ASSUME Inject(v) PROVE FALSE OBVIOUS
        <5>2. Running \in Context
          BY DEF Running, Context, PCs, NoWord, Word
        <5>3. ctx'[v] = Append(ctx[v], Running) BY <2>0, <5>1 DEF Inject, TypeOK
        <5>4. Len(ctx'[v]) = Len(ctx[v]) + 1 /\ Len(ctx[v]) \in Nat
          BY <2>0, <5>2, <5>3
        <5> QED BY <5>4
      <4> QED BY <4>1, <4>2, <4>3 DEF Host
    <3>2. Load(v) \/ Xchg(v)
      BY <2>2, <2>4, <3>1
         DEF Guest, EndOfInterrupt, CallSetTpr, Enter, Check, Poll, GetTpr
    <3>3. CASE Xchg(v)
      <4>1. on[v] BY <2>0, <3>3 DEF UsesRecord, Top, Xchg
      <4>2. rec[v] = Top(v).eax
        <5>1. SUFFICES ASSUME rec[v] # Top(v).eax PROVE FALSE OBVIOUS
        <5> DEFINE d == [Top(v) EXCEPT !.pc = "load"]
        <5>2. d \in Context /\ d.pc = "load" BY <2>0 DEF Context, PCs
        <5>3. Goto(v, d) BY <3>3, <5>1 DEF Xchg
        <5> HIDE DEF d
        <5>4. Top(v)' = d BY <2>0, <5>2, <5>3, GotoEffect DEF Top
        <5> QED BY <5>2, <5>4
      <4>3. rec'[v].tpr = Top(v).arg
        <5>1. rec' = [rec EXCEPT ![v].tpr = Top(v).arg]
          BY <3>3, <4>2 DEF Xchg
        <5>2. rec \in [VCpus -> Word] BY <2>0 DEF TypeOK
        <5> QED BY <5>1, <5>2 DEF Word
      <4>4. on'[v] BY <3>3, <4>1 DEF Xchg
      <4> QED BY <4>3, <4>4 DEF EffectiveTpr
    <3>4. CASE Load(v)
      <4>1. ~(up \/ on[v])
        <5>1. SUFFICES ASSUME up \/ on[v] PROVE FALSE OBVIOUS
        <5> DEFINE d == [Top(v) EXCEPT !.pc = "xchg", !.eax = rec[v]]
        <5>2. rec[v] \in Word BY <2>0 DEF TypeOK
        <5>3. d \in Context /\ d.pc = "xchg" BY <2>0, <5>2 DEF Context, PCs
        <5>4. Goto(v, d) BY <3>4, <5>1 DEF Load
        <5> HIDE DEF d
        <5>5. Top(v)' = d BY <2>0, <5>3, <5>4, GotoEffect DEF Top
        <5> QED BY <5>3, <5>5
      <4>2. real' = [real EXCEPT ![v] = Top(v).arg] /\ on' = on
        BY <3>4, <4>1 DEF Load
      <4>3. real'[v] = Top(v).arg BY <2>0, <4>2 DEF TypeOK
      <4> QED BY <4>1, <4>2, <4>3 DEF EffectiveTpr
    <3> QED BY <3>2, <3>3, <3>4
  <2> QED BY <2>3, <2>4
<1>2. IInv /\ [Next]_vars =>
        [\A v \in VCpus :
           /\ Top(v).pc \in {"load", "xchg"} /\ Top(v)'.pc \in {"check", "run"}
           /\ Len(ctx'[v]) = Len(ctx[v])
           => EffectiveTpr(v)' = Top(v).arg]_vars
  BY <1>1
<1> QED BY <1>2, Invariance, PTL DEF Spec, TprInForce
=============================================================================
