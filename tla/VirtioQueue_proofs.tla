------------------------- MODULE VirtioQueue_proofs -------------------------
(***************************************************************************)
(* VirtioQueue for any queue size, index width, disk and initial contents  *)
(* of the status byte: first while no wait times out, then with timeouts   *)
(* for callers that make the status byte invalid beforehand.               *)
(*                                                                         *)
(* The first invariant says, for each phase of a call, where the five      *)
(* counters of the ring stand: between calls they agree; a published       *)
(* request is one ahead on the driver's side; a completed one is one ahead *)
(* on the host's.  The second one cannot: after a timeout used.idx lags.   *)
(* It follows the one request that is outstanding instead.                 *)
(***************************************************************************)
EXTENDS VirtioQueue, TLAPS

(* Driver and host agree: nothing is published and nothing is completed.   *)
Balanced ==
  /\ vr.used = vr.used_idx /\ vr.avail_idx = vr.used /\ fetched = vr.used
  /\ jobs = {}

(* The first n buffers of the call stand in the first n descriptors, and   *)
(* entry e of the available ring points at the first one.                  *)
Filled(n, e) ==
  /\ \A k \in 1 .. 3 : k <= n =>
       vr.desc[k - 1] = [addr |-> ChainAddr(call, k), len |-> 1,
                         next |-> k < 3, write |-> ChainWrite(k)]
  /\ n > 0 => vr.avail[e % Num] = 0

Delivered == mem.data[call.buf] = call.sector

Running == call \in Call /\ mem.hdr = call.sector /\ ret = None

IdlePhase == Balanced /\ vr.next_idx = 0 /\ (ret = StatusOk => call \in Call /\ Delivered)

SendPhase ==
  /\ Running /\ Balanced
  /\ sent \in 0 .. 2 /\ vr.next_idx = sent
  /\ Filled(sent, vr.avail_idx)

Published ==
  /\ vr.avail_idx = Vr!Bump(vr.used) /\ fetched = vr.used
  /\ vr.used_idx = vr.used /\ jobs = {}
  /\ Filled(3, fetched)

Served ==
  /\ vr.avail_idx = Vr!Bump(vr.used) /\ fetched = vr.avail_idx
  /\ vr.used_idx = vr.used
  /\ \E e \in Vr!Idx :
       jobs = {[sector |-> call.sector, buf |-> call.buf, entry |-> e]}

Done ==
  /\ vr.used = vr.avail_idx /\ fetched = vr.avail_idx
  /\ vr.used = Vr!Bump(vr.used_idx) /\ jobs = {}
  /\ mem.status = StatusOk => Delivered

WaitPhase == Running /\ vr.next_idx = 3 /\ (Published \/ Served \/ Done)

DrainPhase ==
  /\ Running /\ Balanced /\ vr.next_idx = 0
  /\ mem.status = StatusOk => Delivered

Phase ==
  /\ pc = "idle" => IdlePhase
  /\ pc = "send" => SendPhase
  /\ pc = "wait" => WaitPhase
  /\ pc = "drain" => DrainPhase

IInv == TypeOK /\ Phase

(* A 16-bit index that is bumped moves, and stays in its width.            *)
LEMMA BumpMoves ==
  ASSUME NEW i \in Vr!Idx PROVE Vr!Bump(i) \in Vr!Idx /\ Vr!Bump(i) # i
<1>1. CASE i + 1 < IdxMod
  <2>1. (i + 1) % IdxMod = i + 1
    BY <1>1, QueueAssumption DEF Vr!Idx
  <2>2. QED
    BY <1>1, <2>1, QueueAssumption DEF Vr!Idx, Vr!Bump
<1>2. CASE i + 1 = IdxMod
  <2>1. (i + 1) % IdxMod = 0
    BY <1>2, QueueAssumption DEF Vr!Idx
  <2>2. QED
    BY <1>2, <2>1, QueueAssumption DEF Vr!Idx, Vr!Bump
<1>3. QED
  BY <1>1, <1>2, QueueAssumption DEF Vr!Idx

(* The ring entry an index selects exists.                                 *)
LEMMA EntryInRing ==
  ASSUME NEW i \in Vr!Idx PROVE i % Num \in Vr!Slots
BY QueueAssumption DEF Vr!Idx, Vr!Slots

(* What vring_send_buf returns is a ring; one buffer is added, and only    *)
(* the end of a chain moves avail.idx.                                     *)
LEMMA SendBufRing ==
  ASSUME NEW r \in Vr!VringType, NEW p \in Buffers \cup {"hdr", "status"},
         NEW write \in BOOLEAN, NEW next \in BOOLEAN, NEW chain \in BOOLEAN,
         r.next_idx \in Vr!Slots,
         NEW s, s = Vr!vring_send_buf(r, p, write, next, chain)
  PROVE  /\ s \in Vr!VringType
         /\ s.used = r.used /\ s.used_idx = r.used_idx
         /\ s.next_idx = r.next_idx + 1
         /\ s.avail_idx = IF next THEN r.avail_idx ELSE Vr!Bump(r.avail_idx)
         /\ \A d \in Vr!Slots : s.desc[d] =
              IF d = r.next_idx
              THEN [addr |-> p, len |-> 1, next |-> next, write |-> write]
              ELSE r.desc[d]
         /\ s.avail[r.avail_idx % Num] =
              IF chain THEN r.avail[r.avail_idx % Num] ELSE r.next_idx
<1> DEFINE d0 == [addr |-> p, len |-> 1, next |-> next, write |-> write]
<1>1. r.avail_idx \in Vr!Idx /\ r.avail_idx % Num \in Vr!Slots
  BY EntryInRing DEF Vr!VringType
<1>2. d0 \in Vr!Desc
  BY DEF Vr!Desc
<1>3. Vr!Bump(r.avail_idx) \in Vr!Idx
  BY <1>1, BumpMoves
<1>4. s \in Vr!VringType
  <2> DEFINE av == IF chain THEN r.avail
                   ELSE [r.avail EXCEPT ![r.avail_idx % Num] = r.next_idx]
             de == [r.desc EXCEPT ![r.next_idx] = d0]
             ix == IF next THEN r.avail_idx ELSE Vr!Bump(r.avail_idx)
  <2>1. r.avail \in [Vr!Slots -> Nat] /\ r.desc \in [Vr!Slots -> Vr!Desc]
    BY DEF Vr!VringType
  <2>2. av \in [Vr!Slots -> Nat]
    BY <1>1, <2>1 DEF Vr!VringType
  <2>3. de \in [Vr!Slots -> Vr!Desc]
    BY <1>2, <2>1
  <2>4. ix \in Vr!Idx
    BY <1>1, <1>3
  <2>5. s = [next_idx |-> r.next_idx + 1, used_idx |-> r.used_idx,
             avail_idx |-> ix, avail |-> av, desc |-> de, used |-> r.used]
    BY DEF Vr!vring_send_buf
  <2> HIDE DEF av, de, ix
  <2>6. QED
    BY <2>2, <2>3, <2>4, <2>5 DEF Vr!VringType
<1>5. QED
  BY <1>1, <1>4, QueueAssumption DEF Vr!vring_send_buf, Vr!VringType, Vr!Slots

(* A chain whose third descriptor is its first without F_NEXT has length 3 *)
LEMMA ThreeInChain ==
  ASSUME NEW r \in Vr!VringType,
         r.desc[0].next = TRUE, r.desc[1].next = TRUE,
         r.desc[2].next = FALSE
  PROVE  Vr!ChainLength(r, 0) = 3
<1> DEFINE Ends == Vr!ChainEnds(r, 0)
<1>1. 2 \in Ends /\ \A t \in Ends : t \in Nat /\ 2 <= t
  BY QueueAssumption DEF Vr!Slots, Vr!ChainEnds
<1>2. Vr!Least(Ends) \in Ends /\ \A t \in Ends : Vr!Least(Ends) <= t
  <2> HIDE DEF Ends
  <2>1. \E s \in Ends : \A t \in Ends : s <= t
    BY <1>1
  <2>2. QED
    BY <2>1, Zenon DEF Vr!Least
<1>3. Vr!Least(Ends) = 2
  <2> HIDE DEF Ends
  <2>1. QED
    BY <1>1, <1>2
<1>4. QED
  BY <1>1, <1>3 DEF Vr!ChainLength

(* The initial states have their types. *)
LEMMA InitTyped == ASSUME Init PROVE TypeOK
<1>1. vr \in Vr!VringType
  BY QueueAssumption
     DEF Init, Vr!vring_init, Vr!VringType, Vr!Idx, Vr!Desc, Vr!Slots
<1>2. PICK f \in Fresh :
        mem = [hdr |-> None, status |-> f, data |-> [b \in Buffers |-> None]]
  BY DEF Init
<1>3. mem \in Memory
  BY <1>2, QueueAssumption DEF Memory
<1>4. sent \in 0 .. 3 /\ fetched \in Vr!Idx
  BY QueueAssumption DEF Init, Vr!Idx
<1>5. QED
  BY <1>1, <1>3, <1>4, Zenon DEF Init, TypeOK

(* The initial states satisfy the invariant. *)
LEMMA InitIInv == ASSUME Init PROVE IInv
<1>1. IdlePhase
  BY QueueAssumption DEF Init, IdlePhase, Balanced, Vr!vring_init, StatusOk
<1>2. QED
  BY <1>1, InitTyped DEF IInv, Phase, Init

(* Every step of the firmware keeps the invariant. *)
LEMMA BeginKeeps == ASSUME IInv, NEW c \in Call, Begin(c) PROVE IInv'
<1>1. TypeOK'
  <2>1. PICK f \in Fresh :
          mem' = [mem EXCEPT !.hdr = c.sector, !.status = f]
    BY DEF Begin
  <2>2. mem' \in Memory
    BY <2>1, QueueAssumption DEF IInv, TypeOK, Memory, Call
  <2>3. QED
    BY <2>2 DEF IInv, TypeOK, Begin
<1>2. SendPhase'
  BY QueueAssumption
     DEF IInv, TypeOK, Begin, Call, Phase, IdlePhase, SendPhase, Running,
         Balanced, Filled
<1>3. QED
  BY <1>1, <1>2 DEF IInv, Phase, Begin

(* The three buffers of a request are sent one at a time.                  *)
LEMMA SendKeeps == ASSUME IInv, Send PROVE IInv'
<1> DEFINE p == ChainAddr(call, sent + 1)
           w == ChainWrite(sent + 1)
           next == sent < 2
           chain == sent > 0
           slot == vr.avail_idx % Num
<1>1. /\ pc = "send" /\ SendPhase /\ vr \in Vr!VringType
      /\ sent \in 0 .. 2 /\ vr.next_idx = sent /\ vr.next_idx \in Vr!Slots
      /\ p \in Buffers \cup {"hdr", "status"}
      /\ w \in BOOLEAN /\ next \in BOOLEAN /\ chain \in BOOLEAN
  BY QueueAssumption
     DEF IInv, TypeOK, Send, Phase, SendPhase, Running, Call, ChainAddr,
         ChainWrite, Vr!Slots
<1>2. vr' = Vr!vring_send_buf(vr, p, w, next, chain)
  BY DEF Send
<1>3. /\ vr' \in Vr!VringType
      /\ vr'.used = vr.used /\ vr'.used_idx = vr.used_idx
      /\ vr'.next_idx = sent + 1
      /\ vr'.avail_idx = IF next THEN vr.avail_idx ELSE Vr!Bump(vr.avail_idx)
      /\ \A d \in Vr!Slots : vr'.desc[d] =
           IF d = sent
           THEN [addr |-> p, len |-> 1, next |-> next, write |-> w]
           ELSE vr.desc[d]
      /\ vr'.avail[slot] = IF chain THEN vr.avail[slot] ELSE sent
  <2> HIDE DEF p, w, next, chain
  <2>1. QED
    BY <1>1, <1>2, SendBufRing
<1>4. TypeOK'
  BY <1>1, <1>3 DEF IInv, TypeOK, Send
<1>5. /\ \A k \in 1 .. 3 : k <= sent + 1 =>
           vr'.desc[k - 1] = [addr |-> ChainAddr(call, k), len |-> 1,
                              next |-> k < 3, write |-> ChainWrite(k)]
      /\ vr'.avail[slot] = 0
  <2>1. ASSUME NEW k \in 1 .. 3, k <= sent + 1
        PROVE  vr'.desc[k - 1] = [addr |-> ChainAddr(call, k), len |-> 1,
                                  next |-> k < 3, write |-> ChainWrite(k)]
    <3>1. k - 1 \in Vr!Slots
      BY QueueAssumption DEF Vr!Slots
    <3>2. CASE k = sent + 1
      <4>1. next = (k < 3) /\ k - 1 = sent
        BY <1>1, <3>2
      <4>2. QED
        BY <1>3, <3>1, <3>2, <4>1
    <3>3. CASE k <= sent
      <4>1. k - 1 # sent
        BY <1>1, <3>3
      <4>2. vr'.desc[k - 1] = vr.desc[k - 1]
        BY <1>3, <3>1, <4>1
      <4>3. QED
        BY <1>1, <3>3, <4>2 DEF SendPhase, Filled
    <3>4. QED
      BY <1>1, <2>1, <3>2, <3>3
  <2>2. vr'.avail[slot] = 0
    BY <1>1, <1>3 DEF SendPhase, Filled
  <2>3. QED
    BY <2>1, <2>2
<1>6. CASE sent < 2
  <2>1. vr'.avail_idx = vr.avail_idx
    BY <1>3, <1>6
  <2>2. Filled(sent, vr.avail_idx)'
    BY <1>1, <1>5, <2>1 DEF Filled, Send, ChainAddr
  <2>3. SendPhase'
    BY <1>1, <1>3, <1>6, <2>1, <2>2 DEF Send, SendPhase, Running, Balanced
  <2>4. QED
    BY <1>4, <1>6, <2>3 DEF Send, IInv, Phase
<1>7. CASE sent = 2
  <2>1. vr'.avail_idx = Vr!Bump(vr.avail_idx)
    BY <1>3, <1>7
  <2>2. Filled(3, fetched)'
    BY <1>1, <1>5, <1>7
       DEF Filled, Send, ChainAddr, SendPhase, Balanced
  <2>3. WaitPhase'
    BY <1>1, <1>3, <1>7, <2>1, <2>2
       DEF Send, SendPhase, Running, Balanced, WaitPhase, Published
  <2>4. QED
    BY <1>4, <1>7, <2>3 DEF Send, IInv, Phase
<1>8. QED
  BY <1>1, <1>6, <1>7

(* What vr_poll leaves is a ring: the table starts over, with the address  *)
(* of every descriptor as it was.                                          *)
LEMMA PolledRing ==
  ASSUME NEW r \in Vr!VringType, NEW s, s = Vr!vr_polled(r)
  PROVE  /\ s \in Vr!VringType
         /\ s.next_idx = 0 /\ s.used_idx = r.used /\ s.used = r.used
         /\ s.avail_idx = r.avail_idx /\ s.avail = r.avail
         /\ \A d \in Vr!Slots : s.desc[d].addr = r.desc[d].addr
<1> DEFINE d0 == [addr |-> r.desc[0].addr, len |-> 0, next |-> FALSE,
                  write |-> FALSE]
<1>1. r.desc \in [Vr!Slots -> Vr!Desc] /\ 0 \in Vr!Slots
  BY QueueAssumption DEF Vr!VringType, Vr!Slots
<1>2. d0 \in Vr!Desc /\ d0.addr = r.desc[0].addr
  BY <1>1 DEF Vr!Desc
<1>3. s = [next_idx |-> 0, used_idx |-> r.used, avail_idx |-> r.avail_idx,
           avail |-> r.avail, desc |-> [r.desc EXCEPT ![0] = d0],
           used |-> r.used]
  BY DEF Vr!vr_polled
<1> HIDE DEF d0
<1>4. [r.desc EXCEPT ![0] = d0] \in [Vr!Slots -> Vr!Desc]
  BY <1>1, <1>2
<1>5. s \in Vr!VringType
  BY <1>3, <1>4 DEF Vr!VringType
<1>6. \A d \in Vr!Slots : s.desc[d].addr = r.desc[d].addr
  BY <1>1, <1>2, <1>3
<1>7. QED
  BY <1>3, <1>5, <1>6

(* The wait notifies, sees the answer or goes on waiting.                  *)
LEMMA PollKeeps == ASSUME IInv, Poll PROVE IInv'
<1>1. CASE Vr!NothingNew(vr)
  <2>1. TypeOK'
    BY <1>1 DEF IInv, TypeOK, Poll
  <2>2. WaitPhase'
    BY <1>1
       DEF IInv, Phase, Poll, WaitPhase, Running, Published, Served, Done,
           Filled, Delivered
  <2>3. QED
    BY <1>1, <2>1, <2>2 DEF Poll, IInv, Phase
<1>2. CASE ~Vr!NothingNew(vr)
  <2>1. WaitPhase /\ Done
    BY <1>2
       DEF IInv, Phase, Poll, WaitPhase, Published, Served, Vr!NothingNew
  <2>2. /\ vr' \in Vr!VringType
        /\ vr'.next_idx = 0 /\ vr'.used_idx = vr.used /\ vr'.used = vr.used
        /\ vr'.avail_idx = vr.avail_idx
    BY <1>2, PolledRing DEF Poll, IInv, TypeOK
  <2>3. TypeOK'
    BY <1>2, <2>2 DEF IInv, TypeOK, Poll
  <2>4. DrainPhase'
    BY <1>2, <2>1, <2>2
       DEF Poll, WaitPhase, Running, Done, DrainPhase, Balanced, Delivered
  <2>5. QED
    BY <1>2, <2>3, <2>4 DEF Poll, IInv, Phase
<1>3. QED
  BY <1>1, <1>2

(* The call returns what the status byte says (virtio_blk_read_many).      *)
LEMMA DrainKeeps == ASSUME IInv, Drain PROVE IInv'
<1>1. ret' \in Nat /\ (ret' = StatusOk => mem.status = StatusOk)
  BY DEF IInv, TypeOK, Drain, Memory, StatusOk, StatusErr
<1>2. TypeOK'
  BY <1>1 DEF IInv, TypeOK, Drain
<1>3. IdlePhase'
  BY <1>1
     DEF IInv, Drain, Phase, DrainPhase, IdlePhase, Running, Balanced,
         Delivered
<1>4. QED
  BY <1>2, <1>3 DEF Drain, IInv, Phase

(* Every step of the host keeps the invariant. *)
LEMMA FetchKeeps == ASSUME IInv, Fetch PROVE IInv'
<1>1. pc = "wait" /\ WaitPhase /\ Published /\ vr.avail_idx # fetched
  BY DEF IInv, TypeOK, Fetch, Phase, IdlePhase, SendPhase, WaitPhase,
         DrainPhase, Balanced, Served, Done
<1> DEFINE head == vr.avail[fetched % Num]
           buf == vr.desc[head + DataPos - 1].addr
<1>2. head = 0 /\ buf = call.buf
  BY <1>1, QueueAssumption DEF Published, Filled, ChainAddr
<1>3. /\ mem.hdr = call.sector /\ call \in Call /\ jobs = {}
      /\ fetched \in Vr!Idx /\ fetched = vr.used
  BY <1>1 DEF IInv, TypeOK, WaitPhase, Running, Published
<1>4. jobs' = {[sector |-> call.sector, buf |-> call.buf, entry |-> fetched]}
  BY <1>2, <1>3 DEF Fetch
<1>5. fetched' = vr.avail_idx /\ fetched' \in Vr!Idx
  BY <1>1, <1>3, BumpMoves DEF Fetch, Published
<1>6. TypeOK'
  <2>1. jobs' \subseteq Job
    BY <1>3, <1>4 DEF Job, Call
  <2>2. QED
    BY <1>5, <2>1 DEF IInv, TypeOK, Fetch, driver
<1>7. Served'
  BY <1>1, <1>3, <1>4, <1>5 DEF Fetch, driver, Published, Served
<1>8. WaitPhase'
  BY <1>1, <1>7 DEF Fetch, driver, WaitPhase, Running
<1>9. QED
  BY <1>1, <1>6, <1>8 DEF Fetch, driver, IInv, Phase

(* The host finishes a request it has fetched.                             *)
LEMMA CompleteKeeps == ASSUME IInv, NEW j \in jobs, Complete(j) PROVE IInv'
<1>1. pc = "wait" /\ WaitPhase /\ Served
  BY DEF IInv, TypeOK, Phase, IdlePhase, SendPhase, WaitPhase, DrainPhase,
         Balanced, Published, Done
<1>2. /\ j.sector = call.sector /\ j.buf = call.buf /\ jobs' = {}
      /\ call \in Call /\ call.buf \in Buffers /\ call.sector \in Sectors
  BY <1>1 DEF Served, Complete, WaitPhase, Running, Call
<1>3. vr' \in Vr!VringType /\ vr' = [vr EXCEPT !.used = Vr!Bump(vr.used)]
  BY BumpMoves DEF IInv, TypeOK, Complete, Vr!VringType, Vr!vr_used
<1>4. /\ vr'.used = Vr!Bump(vr.used) /\ vr'.used_idx = vr.used_idx
      /\ vr'.avail_idx = vr.avail_idx /\ vr'.next_idx = vr.next_idx
  BY <1>3 DEF IInv, TypeOK, Vr!VringType
<1>5. /\ mem' \in Memory /\ mem'.hdr = mem.hdr
      /\ mem'.status = StatusOk => mem'.data[call.buf] = call.sector
  <2>1. CASE mem' = [mem EXCEPT !.data[j.buf] = j.sector, !.status = StatusOk]
    BY <1>2, <2>1 DEF IInv, TypeOK, Memory, StatusOk
  <2>2. CASE mem' = [mem EXCEPT !.status = StatusErr]
    BY <2>2 DEF IInv, TypeOK, Memory, StatusOk, StatusErr
  <2>3. QED
    BY <2>1, <2>2 DEF Complete
<1>6. TypeOK'
  BY <1>2, <1>3, <1>5 DEF IInv, TypeOK, Complete, driver
<1>7. Done'
  BY <1>1, <1>2, <1>4, <1>5 DEF Complete, driver, Served, Done, Delivered
<1>8. WaitPhase'
  BY <1>1, <1>4, <1>5, <1>7 DEF Complete, driver, WaitPhase, Running
<1>9. QED
  BY <1>1, <1>6, <1>8 DEF Complete, driver, IInv, Phase

(* The host going quiet, and stuttering, change nothing it speaks of.      *)
LEMMA QuietKeeps == ASSUME IInv, Quiet \/ UNCHANGED vars PROVE IInv'
<1>1. TypeOK'
  BY DEF IInv, TypeOK, Quiet, vars, driver
<1>2. Phase'
  BY DEF IInv, Quiet, vars, driver, Phase, IdlePhase, SendPhase, WaitPhase,
         DrainPhase, Running, Balanced, Published, Served, Done, Filled,
         Delivered
<1>3. QED
  BY <1>1, <1>2 DEF IInv

(* While no wait times out, the invariant holds in every reachable state.  *)
THEOREM Invariance == ASSUME ~MayTimeout PROVE Spec => []IInv
<1>1. IInv /\ [Next]_vars => IInv'
  BY BeginKeeps, SendKeeps, PollKeeps, DrainKeeps, FetchKeeps, CompleteKeeps,
     QuietKeeps
     DEF Next, Firmware, Host, TimeOut
<1>2. QED
  BY InitIInv, <1>1, PTL DEF Spec

(* The variables keep their types: next_idx a number, the indices in their *)
(* width (vring_send_buf, vr_poll).                                        *)
THEOREM TypeCorrect == ASSUME ~MayTimeout PROVE Spec => []TypeOK
<1>1. IInv => TypeOK
  BY DEF IInv
<1>2. QED
  BY Invariance, <1>1, PTL

(* The host only ever sees whole chains of the running call.               *)
THEOREM ChainsAreWhole ==
  ASSUME ~MayTimeout PROVE Spec => []PublishedChainsWhole
<1>1. ASSUME IInv, fetched # vr.avail_idx
      PROVE  LET head == vr.avail[fetched % Num]
             IN  /\ Vr!ChainLength(vr, head) = 3
                 /\ \A k \in 1 .. 3 :
                      LET d == vr.desc[head + k - 1]
                      IN  d.len = 1 /\ d.addr = ChainAddr(call, k)
                                    /\ d.write = ChainWrite(k)
  <2>1. Published
    BY <1>1 DEF IInv, TypeOK, Phase, IdlePhase, SendPhase, WaitPhase,
                DrainPhase, Balanced, Served, Done
  <2>2. vr.avail[fetched % Num] = 0
    BY <2>1 DEF Published, Filled
  <2>3. /\ vr.desc[0].next = TRUE /\ vr.desc[1].next = TRUE
        /\ vr.desc[2].next = FALSE
    <3>1. /\ vr.desc[1 - 1].next = (1 < 3) /\ vr.desc[2 - 1].next = (2 < 3)
          /\ vr.desc[3 - 1].next = (3 < 3)
      BY <2>1 DEF Published, Filled
    <3>2. (1 < 3) = TRUE /\ (2 < 3) = TRUE /\ (3 < 3) = FALSE
      OBVIOUS
    <3>3. 1 - 1 = 0 /\ 2 - 1 = 1 /\ 3 - 1 = 2
      OBVIOUS
    <3>4. QED
      BY <3>1, <3>2, <3>3, Zenon
  <2>4. Vr!ChainLength(vr, 0) = 3
    BY <1>1, <2>3, ThreeInChain DEF IInv, TypeOK
  <2>5. \A k \in 1 .. 3 : /\ vr.desc[0 + k - 1].len = 1
                          /\ vr.desc[0 + k - 1].addr = ChainAddr(call, k)
                          /\ vr.desc[0 + k - 1].write = ChainWrite(k)
    BY <2>1 DEF Published, Filled
  <2>6. QED
    BY <2>2, <2>4, <2>5
<1>2. IInv => PublishedChainsWhole
  BY <1>1 DEF PublishedChainsWhole
<1>3. QED
  BY Invariance, <1>2, PTL

(* Between calls the host has no request left, and next_idx never leaves   *)
(* the descriptor table although it is never wrapped.                      *)
THEOREM NothingOutstanding ==
  ASSUME ~MayTimeout
  PROVE  Spec => [](HostIdleBetweenCalls /\ TableNotOverrun)
<1>1. IInv => HostIdleBetweenCalls /\ TableNotOverrun
  BY QueueAssumption
     DEF IInv, TypeOK, Phase, HostIdleBetweenCalls, TableNotOverrun, IdlePhase,
         SendPhase, WaitPhase, DrainPhase, Balanced
<1>2. QED
  BY Invariance, <1>1, PTL

(* The queue implements the synchronous read its callers take it for.      *)
THEOREM Refinement == ASSUME ~MayTimeout PROVE Spec => ImplementsRead
<1> USE DEF Read!vars
<1>1. Init => Read!Init
  BY DEF Init, Read!Init
<1>2. ASSUME IInv, [Next]_vars PROVE [Read!Next]_(Read!vars)
  <2>1. ASSUME NEW c \in Call, Begin(c) PROVE Read!Begin
    BY <2>1, <1>2 DEF Begin, Read!Begin, Call, IInv, TypeOK, Memory
  <2>2. CASE Send
    BY <2>2 DEF Send
  <2>3. CASE Poll
    BY <2>3 DEF Poll
  <2>4. CASE Drain
    <3>1. ret' \in Nat /\ (ret' = StatusOk => mem.status = StatusOk)
      BY <1>2, <2>4 DEF IInv, TypeOK, Drain, Memory, StatusOk, StatusErr
    <3>2. DrainPhase
      BY <1>2, <2>4 DEF IInv, Phase, Drain
    <3>3. Read!Return
      BY <2>4, <3>1, <3>2 DEF Drain, DrainPhase, Delivered, Read!Return
    <3>4. QED
      BY <3>3 DEF Read!Next
  <2>5. CASE Fetch \/ Quiet \/ UNCHANGED vars
    BY <2>5 DEF Fetch, Quiet, vars, driver
  <2>6. ASSUME NEW j \in jobs, Complete(j) PROVE [Read!Next]_(Read!vars)
    <3>1. pc = "wait" /\ WaitPhase /\ Served
      BY <1>2, <2>6
         DEF IInv, TypeOK, Phase, IdlePhase, SendPhase, WaitPhase, DrainPhase,
             Balanced, Published, Done
    <3>2. j.sector = call.sector /\ j.buf = call.buf
      BY <3>1 DEF Served
    <3>3. mem'.data = mem.data
          \/ mem'.data = [mem.data EXCEPT ![call.buf] = call.sector]
      BY <1>2, <2>6, <3>2 DEF Complete, IInv, TypeOK, Memory
    <3>4. QED
      BY <2>6, <3>1, <3>3 DEF Complete, driver, Read!Next, Read!Deliver
  <2>7. QED
    BY <1>2, <2>1, <2>2, <2>3, <2>4, <2>5, <2>6
       DEF Next, Firmware, Host, TimeOut, Read!Next
<1>3. QED
  BY Invariance, <1>1, <1>2, PTL DEF Spec, Read!Spec, ImplementsRead

-----------------------------------------------------------------------------
(* With timeouts.  A caller that has made the status byte invalid and that *)
(* goes on only after a success never has two requests outstanding: a wait *)
(* may end early or late, but the byte is 0 only once the host has worked  *)
(* off the request it belongs to.                                          *)

(* Nothing that was published is left to the host.                         *)
NothingLeft == jobs = {} /\ fetched = vr.avail_idx

(* The chain of the call starts at descriptor b, wherever the requests     *)
(* before it have left next_idx.                                           *)
LateSend ==
  /\ Running /\ NothingLeft /\ mem.status # StatusOk
  /\ sent \in 0 .. 2
  /\ \E b \in 0 .. Num - 3 :
       /\ vr.next_idx = b + sent
       /\ \A k \in 1 .. 3 : k <= sent => vr.desc[b + k - 1].addr = ChainAddr(call, k)
       /\ sent > 0 => vr.avail[vr.avail_idx % Num] = b

LatePublished ==
  /\ vr.avail_idx = Vr!Bump(fetched) /\ jobs = {}
  /\ mem.status # StatusOk
  /\ \E b \in 0 .. Num - 3 :
       /\ vr.avail[fetched % Num] = b
       /\ vr.desc[b + DataPos - 1].addr = call.buf

LateServed ==
  /\ fetched = vr.avail_idx
  /\ mem.status # StatusOk
  /\ \E e \in Vr!Idx :
       jobs = {[sector |-> call.sector, buf |-> call.buf, entry |-> e]}

LateDone == NothingLeft /\ (mem.status = StatusOk => Delivered)

Late ==
  /\ call \in Call /\ mem.hdr = call.sector
  /\ LatePublished \/ LateServed \/ LateDone

GoesOn == ret \in {None, StatusOk}

LatePhase ==
  /\ pc = "idle" /\ GoesOn => NothingLeft
  /\ pc = "idle" /\ ret = StatusOk => call \in Call /\ Delivered
  /\ pc = "idle" /\ ~GoesOn => Late
  /\ pc = "send" => LateSend
  /\ pc \in {"wait", "drain"} => ret = None /\ Late

LateInv == TypeOK /\ LatePhase

(* What the callers of virtio-scsi do (prepare_request, and the panic of   *)
(* virtio_scsi_verify_response after a failure).                           *)
Prepared == MayTimeout /\ StopOnError /\ StatusOk \notin Fresh

(* A request starts only with the last one worked off.                     *)
LEMMA LateBegin ==
  ASSUME Prepared, LateInv, NEW c \in Call, Begin(c) PROVE LateInv'
<1>1. PICK f \in Fresh : mem' = [mem EXCEPT !.hdr = c.sector, !.status = f]
  BY DEF Begin
<1>2. mem' \in Memory /\ mem'.hdr = c.sector /\ mem'.status # StatusOk
  BY <1>1, QueueAssumption DEF LateInv, TypeOK, Memory, Call, Prepared
<1>3. TypeOK'
  BY <1>2 DEF LateInv, TypeOK, Begin
<1>4. NothingLeft /\ vr.next_idx \in 0 .. Num - 3
  BY QueueAssumption
     DEF LateInv, LatePhase, TypeOK, Vr!VringType, Begin, Prepared, GoesOn
<1>5. LateSend'
  <2>1. /\ vr'.next_idx = vr.next_idx + sent'
        /\ \A k \in 1 .. 3 : ~(k <= sent')
        /\ ~(sent' > 0)
    BY <1>4 DEF Begin
  <2>2. NothingLeft' /\ Running' /\ sent' \in 0 .. 2
    BY <1>2, <1>4 DEF Begin, NothingLeft, Running
  <2>3. vr' = vr
    BY DEF Begin
  <2>4. QED
    BY <1>2, <1>4, <2>1, <2>2, <2>3 DEF LateSend
<1>6. QED
  BY <1>3, <1>5 DEF LateInv, LatePhase, Begin

(* The buffers of the request fill the table from b on.                    *)
LEMMA LateSends == ASSUME LateInv, Send PROVE LateInv'
<1> DEFINE p == ChainAddr(call, sent + 1)
           w == ChainWrite(sent + 1)
           next == sent < 2
           chain == sent > 0
           slot == vr.avail_idx % Num
<1>1. LateSend /\ vr \in Vr!VringType /\ pc = "send" /\ call \in Call
  BY DEF LateInv, TypeOK, LatePhase, Send, LateSend, Running
<1>2. PICK b \in 0 .. Num - 3 :
        /\ vr.next_idx = b + sent
        /\ \A k \in 1 .. 3 : k <= sent => vr.desc[b + k - 1].addr = ChainAddr(call, k)
        /\ sent > 0 => vr.avail[slot] = b
  BY <1>1 DEF LateSend
<1>3. /\ sent \in 0 .. 2 /\ b + sent \in Vr!Slots
      /\ p \in Buffers \cup {"hdr", "status"}
      /\ w \in BOOLEAN /\ next \in BOOLEAN /\ chain \in BOOLEAN
  BY <1>1, <1>2, QueueAssumption
     DEF LateSend, Call, ChainAddr, ChainWrite, Vr!Slots
<1>4. vr' = Vr!vring_send_buf(vr, p, w, next, chain)
  BY DEF Send
<1>5. /\ vr' \in Vr!VringType
      /\ vr'.next_idx = b + sent + 1
      /\ vr'.avail_idx = IF next THEN vr.avail_idx ELSE Vr!Bump(vr.avail_idx)
      /\ \A d \in Vr!Slots : vr'.desc[d] =
           IF d = b + sent
           THEN [addr |-> p, len |-> 1, next |-> next, write |-> w]
           ELSE vr.desc[d]
      /\ vr'.avail[slot] = IF chain THEN vr.avail[slot] ELSE b + sent
  <2> HIDE DEF p, w, next, chain
  <2>1. QED
    BY <1>1, <1>2, <1>3, <1>4, SendBufRing
<1>6. TypeOK'
  BY <1>3, <1>5 DEF LateInv, TypeOK, Send
<1>7. \A k \in 1 .. 3 : k <= sent + 1 =>
        vr'.desc[b + k - 1].addr = ChainAddr(call, k)
  <2>1. ASSUME NEW k \in 1 .. 3, k <= sent + 1
        PROVE  vr'.desc[b + k - 1].addr = ChainAddr(call, k)
    <3>1. b + k - 1 \in Vr!Slots
      BY QueueAssumption DEF Vr!Slots
    <3>2. CASE k = sent + 1
      <4>1. b + k - 1 = b + sent
        BY <1>3, <3>2
      <4>2. vr'.desc[b + k - 1].addr = p
        BY <1>5, <3>1, <4>1
      <4>3. QED
        BY <3>2, <4>2
    <3>3. CASE k <= sent
      <4>1. b + k - 1 # b + sent
        BY <1>3, <3>3
      <4>2. vr'.desc[b + k - 1] = vr.desc[b + k - 1]
        BY <1>5, <3>1, <4>1
      <4>3. QED
        BY <1>2, <3>3, <4>2
    <3>4. QED
      BY <1>3, <2>1, <3>2, <3>3
  <2>2. QED
    BY <2>1
<1>8. vr'.avail[slot] = b
  BY <1>2, <1>3, <1>5
<1>9. /\ Running' /\ mem' = mem /\ jobs' = {} /\ jobs = {} /\ call' = call
      /\ fetched' = fetched /\ fetched = vr.avail_idx /\ mem.status # StatusOk
  BY <1>1 DEF LateSend, Running, NothingLeft, Send
<1>10. CASE sent < 2
  <2>1. vr'.avail_idx = vr.avail_idx /\ sent' = sent + 1 /\ sent' \in 0 .. 2
    BY <1>3, <1>5, <1>10 DEF Send
  <2>2. LateSend'
    <3>1. vr'.next_idx = b + sent'
      BY <1>3, <1>5, <2>1
    <3>2. QED
      BY <1>7, <1>8, <1>9, <2>1, <3>1 DEF LateSend, NothingLeft, ChainAddr
  <2>3. QED
    BY <1>6, <1>10, <2>2 DEF Send, LateInv, LatePhase
<1>11. CASE sent = 2
  <2>1. vr'.avail_idx = Vr!Bump(fetched') /\ vr'.avail[fetched' % Num] = b
    BY <1>5, <1>8, <1>9, <1>11
  <2>2. vr'.desc[b + DataPos - 1].addr = call.buf
    <3>1. ChainAddr(call, DataPos) = call.buf /\ DataPos \in 1 .. 3
      BY QueueAssumption DEF ChainAddr
    <3>2. QED
      BY <1>7, <1>11, <3>1
  <2>3. LatePublished'
    BY <1>9, <2>1, <2>2 DEF LatePublished
  <2>4. Late' /\ ret' = None
    BY <1>1, <1>9, <2>3 DEF Late, Running
  <2>5. QED
    BY <1>6, <1>11, <2>4 DEF Send, LateInv, LatePhase
<1>12. QED
  BY <1>3, <1>10, <1>11

(* The wait ends, early or late, and changes nothing about the request.    *)
LEMMA LateWaits == ASSUME LateInv, Poll \/ TimeOut PROVE LateInv'
<1>1. pc = "wait" /\ ret = None /\ Late /\ vr \in Vr!VringType /\ fetched \in Vr!Idx
  BY DEF LateInv, TypeOK, LatePhase, Poll, TimeOut
<1>2. /\ vr' \in Vr!VringType
      /\ vr'.avail_idx = vr.avail_idx /\ vr'.avail = vr.avail
      /\ \A d \in Vr!Slots : vr'.desc[d].addr = vr.desc[d].addr
  <2>1. vr' = vr \/ vr' = Vr!vr_polled(vr)
    BY DEF Poll, TimeOut
  <2>2. QED
    BY <1>1, <2>1, PolledRing
<1>3. TypeOK'
  BY <1>2 DEF LateInv, TypeOK, Poll, TimeOut
<1>4. UNCHANGED <<call, ret, mem, fetched, jobs>> /\ pc' \in {"wait", "drain"}
  BY <1>1 DEF Poll, TimeOut
<1>5. Late'
  <2>1. CASE LatePublished
    <3>1. PICK b \in 0 .. Num - 3 : /\ vr.avail[fetched % Num] = b
                                    /\ vr.desc[b + DataPos - 1].addr = call.buf
      BY <2>1 DEF LatePublished
    <3>2. b + DataPos - 1 \in Vr!Slots
      BY QueueAssumption DEF Vr!Slots
    <3>3. vr'.avail[fetched' % Num] = b /\ vr'.desc[b + DataPos - 1].addr = call'.buf
      BY <1>2, <1>4, <3>1, <3>2
    <3>4. LatePublished'
      BY <1>2, <1>4, <2>1, <3>3 DEF LatePublished
    <3>5. QED
      BY <1>1, <1>4, <3>4 DEF Late
  <2>2. CASE LateServed \/ LateDone
    BY <1>1, <1>2, <1>4, <2>2
       DEF Late, LateServed, LateDone, NothingLeft, Delivered
  <2>3. QED
    BY <1>1, <2>1, <2>2 DEF Late
<1>6. QED
  BY <1>1, <1>3, <1>4, <1>5 DEF LateInv, LatePhase

(* The call returns 0 only when its request is worked off.                 *)
LEMMA LateDrain == ASSUME LateInv, Drain PROVE LateInv'
<1>1. pc = "drain" /\ Late /\ ret' \in {mem.status, StatusErr} /\ pc' = "idle"
  BY DEF LateInv, LatePhase, Drain
<1>2. ret' \in Nat /\ (ret' = StatusOk => mem.status = StatusOk)
  BY <1>1 DEF LateInv, TypeOK, Memory, StatusOk, StatusErr
<1>3. TypeOK'
  BY <1>2 DEF LateInv, TypeOK, Drain
<1>4. Late' /\ (ret' = StatusOk => LateDone' /\ Delivered' /\ call' \in Call)
  BY <1>1, <1>2
     DEF Drain, Late, LatePublished, LateServed, LateDone, NothingLeft, Delivered
<1>5. ret' # None
  BY <1>2, QueueAssumption
<1>6. QED
  BY <1>1, <1>3, <1>4, <1>5 DEF LateInv, LatePhase, LateDone, GoesOn

(* Outside a call in which the firmware still runs, only the one request   *)
(* is the host's to take and to finish.                                    *)
LEMMA LateHost ==
  ASSUME LateInv, Fetch \/ \E j \in jobs : Complete(j) PROVE LateInv'
<1>1. UNCHANGED <<pc, sent, call, ret, answered>>
  BY DEF Fetch, Complete, driver
<1>2. ~NothingLeft
  BY DEF Fetch, Complete, NothingLeft
<1>3. /\ Late /\ pc # "send" /\ (pc = "idle" => ~GoesOn)
      /\ (pc \in {"wait", "drain"} => ret = None)
      /\ ~LateDone
  BY <1>2
     DEF LateInv, TypeOK, LatePhase, LateSend, LateDone
<1>4. call \in Call /\ mem.hdr = call.sector /\ fetched \in Vr!Idx
  BY <1>3 DEF Late, LateInv, TypeOK
<1>5. CASE Fetch
  <2>1. LatePublished
    BY <1>3, <1>5 DEF Late, LateServed, Fetch
  <2>2. fetched' = vr.avail_idx /\ fetched' \in Vr!Idx /\ vr' = vr /\ mem' = mem
    BY <1>4, <1>5, <2>1, BumpMoves DEF Fetch, LatePublished
  <2>3. jobs' = {[sector |-> call.sector, buf |-> call.buf, entry |-> fetched]}
    BY <1>4, <1>5, <2>1 DEF Fetch, LatePublished
  <2>4. LateServed'
    BY <1>1, <1>4, <2>1, <2>2, <2>3 DEF LateServed, LatePublished
  <2>5. jobs' \subseteq Job
    BY <1>4, <2>3 DEF Job, Call
  <2>6. TypeOK'
    BY <1>1, <1>5, <2>2, <2>5 DEF LateInv, TypeOK, Fetch
  <2>7. Late'
    BY <1>1, <1>4, <2>2, <2>4 DEF Late
  <2>8. QED
    BY <1>1, <1>3, <2>6, <2>7 DEF LateInv, LatePhase, GoesOn
<1>6. ASSUME NEW j \in jobs, Complete(j) PROVE LateInv'
  <2>1. LateServed
    BY <1>3, <1>6 DEF Late, LatePublished
  <2>2. /\ j.sector = call.sector /\ j.buf = call.buf /\ jobs' = {}
        /\ call.buf \in Buffers /\ call.sector \in Sectors
    BY <1>4, <1>6, <2>1 DEF LateServed, Complete, Call
  <2>3. vr' \in Vr!VringType /\ vr'.avail_idx = vr.avail_idx
    BY <1>6, BumpMoves DEF LateInv, TypeOK, Complete, Vr!VringType, Vr!vr_used
  <2>4. /\ mem' \in Memory /\ mem'.hdr = mem.hdr
        /\ mem'.status = StatusOk => mem'.data[call.buf] = call.sector
    <3>1. CASE mem' = [mem EXCEPT !.data[j.buf] = j.sector, !.status = StatusOk]
      BY <2>2, <3>1 DEF LateInv, TypeOK, Memory, StatusOk
    <3>2. CASE mem' = [mem EXCEPT !.status = StatusErr]
      BY <3>2 DEF LateInv, TypeOK, Memory, StatusOk, StatusErr
    <3>3. QED
      BY <1>6, <3>1, <3>2 DEF Complete
  <2>5. TypeOK'
    BY <1>1, <1>6, <2>2, <2>3, <2>4 DEF LateInv, TypeOK, Complete
  <2>6. fetched' = fetched /\ fetched = vr.avail_idx
    BY <1>6, <2>1 DEF Complete, LateServed
  <2>7. LateDone'
    BY <1>1, <2>2, <2>3, <2>4, <2>6 DEF LateDone, NothingLeft, Delivered
  <2>8. Late'
    BY <1>1, <1>4, <2>4, <2>7 DEF Late
  <2>9. QED
    BY <1>1, <1>3, <2>5, <2>8 DEF LateInv, LatePhase, GoesOn
<1>7. QED
  BY <1>5, <1>6

(* The host going quiet, and stuttering, change nothing it speaks of.      *)
LEMMA LateQuiet == ASSUME LateInv, Quiet \/ UNCHANGED vars PROVE LateInv'
<1>1. TypeOK'
  BY DEF LateInv, TypeOK, Quiet, vars, driver
<1>2. LatePhase'
  BY DEF LateInv, Quiet, vars, driver, LatePhase, GoesOn, NothingLeft, Delivered,
         LateSend, Running, Late, LatePublished, LateServed, LateDone
<1>3. QED
  BY <1>1, <1>2 DEF LateInv

(* Timeouts and late answers included, for callers as virtio-scsi's.       *)
LEMMA LateInvariance == ASSUME Prepared PROVE Spec => []LateInv
<1>1. Init => LateInv
  <2>1. ASSUME Init PROVE LateInv
    <3>1. TypeOK
      BY <2>1, InitTyped
    <3>2. LatePhase
      BY <2>1, QueueAssumption
         DEF Init, LatePhase, GoesOn, NothingLeft, Vr!vring_init, StatusOk
    <3>3. QED
      BY <3>1, <3>2 DEF LateInv
  <2>2. QED
    BY <2>1
<1>2. LateInv /\ [Next]_vars => LateInv'
  BY LateBegin, LateSends, LateWaits, LateDrain, LateHost, LateQuiet
     DEF Next, Firmware, Host
<1>3. QED
  BY <1>1, <1>2, PTL DEF Spec

(* A read that returns 0 has its data.  While no wait times out this is so *)
(* whatever the status byte held; with timeouts and late answers it is so  *)
(* for callers that have made the byte invalid and stop at a failure       *)
(* (virtio_run as virtio-scsi uses it).                                    *)
THEOREM ReadsDeliver ==
  ASSUME ~MayTimeout \/ (StopOnError /\ StatusOk \notin Fresh)
  PROVE  Spec => []ReadDelivers
<1>1. CASE ~MayTimeout
  <2>1. IInv => ReadDelivers
    BY QueueAssumption
       DEF IInv, TypeOK, Phase, ReadDelivers, IdlePhase, SendPhase, WaitPhase,
           DrainPhase, Running, StatusOk, Delivered
  <2>2. QED
    BY <1>1, <2>1, Invariance, PTL
<1>2. CASE MayTimeout /\ StopOnError /\ StatusOk \notin Fresh
  <2>1. LateInv => ReadDelivers
    BY QueueAssumption
       DEF LateInv, TypeOK, LatePhase, LateSend, Running, ReadDelivers, StatusOk,
           Delivered
  <2>2. Spec => []LateInv
    BY <1>2, LateInvariance DEF Prepared
  <2>3. QED
    BY <2>1, <2>2, PTL
<1>3. QED
  BY <1>1, <1>2, QueueAssumption
=============================================================================
