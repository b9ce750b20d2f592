----------------------------- MODULE VirtioQueue -----------------------------
(***************************************************************************)
(* A synchronous request over a virtqueue: virtio_blk_read_many, and the   *)
(* virtio_run that virtio-scsi uses, against the host.                     *)
(*                                                                         *)
(* The firmware is one thread with interrupts off; the host runs beside    *)
(* it.  Each vring_send_buf, each vr_poll and the drain is one action of   *)
(* the firmware; between any two of them the host may fetch a published    *)
(* chain, move data, or complete a request.                                *)
(*                                                                         *)
(* The request header and the status byte live at the same two addresses   *)
(* in every call (locals of the same frame, or the static structures of    *)
(* virtio-scsi.c); only the data buffer is the caller's.                   *)
(***************************************************************************)
EXTENDS Naturals

CONSTANTS
  Num, IdxMod,  \* see Vring
  Sectors,      \* sectors of the disk; the data of a sector is its name
  Buffers,      \* data buffers of the callers
  Fresh,        \* what the status byte may hold before the host writes it:
                \* {0, 1} if uninitialised, {255} after prepare_request
  DataPos,      \* where the data buffer stands in the chain: 2 for blk,
                \* 3 for virtio-scsi, whose response comes before it
  StopOnError,  \* whether callers panic on a failed request (virtio-scsi) or
                \* may go on to another one
  MayTimeout,   \* whether the wait can end before the host has answered
  None

ASSUME QueueAssumption ==
  /\ None \notin Sectors \cup Buffers \cup Nat
  /\ Fresh \subseteq Nat
  /\ "hdr" \notin Buffers /\ "status" \notin Buffers
  /\ None \notin {"hdr", "status"}
  /\ DataPos \in {2, 3}
  /\ MayTimeout \in BOOLEAN /\ StopOnError \in BOOLEAN
  /\ Num \in Nat /\ Num >= 3
  /\ IdxMod \in Nat /\ IdxMod > 1
  /\ IdxMod % Num = 0       \* virtio: a queue's size is a power of two

Vr == INSTANCE Vring WITH Addrs <- Buffers \cup {"hdr", "status"},
                          NoAddr <- None

VARIABLES
  vr,       \* the VRing
  pc,       \* "idle", "send", "wait", "drain"
  sent,     \* buffers of the running call already given to vring_send_buf
  call,     \* [sector, buf] of the running or of the last call
  ret,      \* the value the last call returned, None while one runs
  answered, \* what vring_wait_reply returned: TRUE for 0
  mem,      \* guest memory: [hdr, status, data]
  fetched,  \* the host's last_avail_idx
  jobs,     \* requests the host has fetched and not completed
  kicked    \* a notification the host has not worked off

driver == <<pc, sent, call, ret, answered>>
vars == <<vr, driver, mem, fetched, jobs, kicked>>

(* The chain of a request, in the order of the vring_send_buf calls: the   *)
(* k-th buffer, and whether the device writes it.                          *)
ChainAddr(c, k) ==
  IF k = 1 THEN "hdr" ELSE IF k = DataPos THEN c.buf ELSE "status"
ChainWrite(k) == k # 1

Call == [sector : Sectors, buf : Buffers]
Job == [sector : Sectors, buf : Buffers, entry : Vr!Idx]
Memory == [hdr : Sectors \cup {None}, status : Nat,
           data : [Buffers -> Sectors \cup {None}]]
StatusOk == 0
StatusErr == 1

TypeOK ==
  /\ vr \in Vr!VringType
  /\ pc \in {"idle", "send", "wait", "drain"}
  /\ sent \in 0 .. 3
  /\ call \in Call \cup {None}
  /\ ret \in Nat \cup {None}
  /\ answered \in BOOLEAN
  /\ mem \in Memory
  /\ fetched \in Vr!Idx
  /\ jobs \subseteq Job
  /\ kicked \in BOOLEAN

Init ==
  /\ vr = Vr!vring_init
  /\ pc = "idle" /\ sent = 0 /\ call = None /\ ret = None /\ answered = FALSE
  /\ \E f \in Fresh :
       mem = [hdr |-> None, status |-> f, data |-> [b \in Buffers |-> None]]
  /\ fetched = 0 /\ jobs = {} /\ kicked = FALSE

-----------------------------------------------------------------------------
(* The firmware.                                                           *)

(* A caller asks for a sector; the header is filled, the status byte is    *)
(* whatever its stack slot holds, or what prepare_request set it to.  Only *)
(* calls that time out let next_idx grow; the model ends before it leaves  *)
(* the table (after 42 of them in a row with the 128 descriptors of QEMU). *)
Begin(c) ==
  /\ pc = "idle"
  /\ StopOnError => ret \in {None, StatusOk}
  /\ MayTimeout => vr.next_idx <= Num - 3
  /\ pc' = "send" /\ sent' = 0 /\ call' = c /\ ret' = None
  /\ \E f \in Fresh :
       mem' = [mem EXCEPT !.hdr = c.sector, !.status = f]
  /\ UNCHANGED <<vr, answered, fetched, jobs, kicked>>

(* One vring_send_buf of the running call; the last one publishes.         *)
Send ==
  /\ pc = "send"
  /\ LET next == sent < 2
     IN  /\ vr' = Vr!vring_send_buf(vr, ChainAddr(call, sent + 1),
                                    ChainWrite(sent + 1), next, sent > 0)
         /\ pc' = IF next THEN "send" ELSE "wait"
  /\ sent' = sent + 1
  /\ UNCHANGED <<call, ret, answered, mem, fetched, jobs, kicked>>

(* Faults of the wait: it ends at the first news or after one turn without *)
(* any; it never notifies.                                                 *)
PollOnce ==
  /\ pc = "wait"
  /\ vr' = IF Vr!NothingNew(vr) THEN vr ELSE Vr!vr_polled(vr)
  /\ kicked' = TRUE /\ pc' = "drain" /\ answered' = TRUE
  /\ UNCHANGED <<sent, call, ret, mem, fetched, jobs>>

PollNoKick ==
  /\ pc = "wait" /\ ~Vr!NothingNew(vr)
  /\ vr' = Vr!vr_polled(vr)
  /\ pc' = "drain" /\ answered' = TRUE
  /\ UNCHANGED <<sent, call, ret, mem, fetched, jobs, kicked>>

(* One turn of vring_wait_reply's loop: without news the host is notified, *)
(* with news the wait is over.                                             *)
Poll ==
  /\ pc = "wait"
  /\ IF Vr!NothingNew(vr)
     THEN /\ kicked' = TRUE
          /\ UNCHANGED <<vr, pc, answered>>
     ELSE /\ vr' = Vr!vr_polled(vr)
          /\ pc' = "drain" /\ answered' = TRUE
          /\ UNCHANGED kicked
  /\ UNCHANGED <<sent, call, ret, mem, fetched, jobs>>

(* 30 seconds have passed at the end of a turn without news: the result 1  *)
(* of vring_wait_reply is not looked at by its callers.                    *)
TimeOut ==
  /\ MayTimeout
  /\ pc = "wait" /\ kicked
  /\ pc' = "drain" /\ answered' = FALSE
  /\ UNCHANGED <<vr, sent, call, ret, mem, fetched, jobs, kicked>>

(* A fault of the return: the result of drain_irqs, not the status byte.   *)
DrainOnly ==
  /\ pc = "drain"
  /\ pc' = "idle" /\ ret' \in {StatusOk, StatusErr}
  /\ UNCHANGED <<vr, sent, call, answered, mem, fetched, jobs, kicked>>

(* drain_irqs(), and the return.  A subchannel in error makes the status   *)
(* byte irrelevant.                                                        *)
Drain ==
  /\ pc = "drain"
  /\ pc' = "idle"
  /\ ret' \in {mem.status, StatusErr}
  /\ UNCHANGED <<vr, sent, call, answered, mem, fetched, jobs, kicked>>

-----------------------------------------------------------------------------
(* The host: external to src/.  It may look at the available ring at any   *)
(* time, and does so after a notification until the ring is empty.         *)

Fetch ==
  /\ fetched # vr.avail_idx
  /\ LET head == vr.avail[fetched % Num]
         buf == vr.desc[head + DataPos - 1].addr
     IN  /\ Vr!ChainLength(vr, head) = 3
         /\ buf \in Buffers
         /\ jobs' = jobs \cup
                      {[sector |-> mem.hdr, buf |-> buf, entry |-> fetched]}
  /\ fetched' = Vr!Bump(fetched)
  /\ UNCHANGED <<vr, driver, mem, kicked>>

Quiet ==
  /\ kicked /\ fetched = vr.avail_idx
  /\ kicked' = FALSE
  /\ UNCHANGED <<vr, driver, mem, fetched, jobs>>

(* The data is in the buffer before the used index tells of it; a failed   *)
(* read leaves the buffer alone.                                           *)
Complete(j) ==
  /\ jobs' = jobs \ {j}
  /\ \/ mem' = [mem EXCEPT !.data[j.buf] = j.sector, !.status = StatusOk]
     \/ mem' = [mem EXCEPT !.status = StatusErr]
  /\ vr' = Vr!vr_used(vr)
  /\ UNCHANGED <<driver, fetched, kicked>>

-----------------------------------------------------------------------------
Firmware == (\E c \in Call : Begin(c)) \/ Send \/ Poll \/ TimeOut \/ Drain
Host == Fetch \/ Quiet \/ \E j \in jobs : Complete(j)
Next == Firmware \/ Host

Spec == Init /\ [][Next]_vars

(* The firmware runs on; a notified host works the ring off and completes  *)
(* what it has fetched.  No caller has to call.                            *)
Fairness ==
  /\ WF_vars(Send) /\ WF_vars(Poll) /\ WF_vars(Drain)
  /\ WF_vars(kicked /\ Fetch)
  /\ WF_vars(\E j \in jobs : Complete(j))

FairSpec == Spec /\ Fairness

-----------------------------------------------------------------------------
(* Properties.                                                             *)

(* Whatever the host can see is a whole request: the chain at each         *)
(* published and unfetched entry is header, data, status of the running    *)
(* call (vring_send_buf publishes only with the last buffer).              *)
PublishedChainsWhole ==
  fetched # vr.avail_idx =>
    LET head == vr.avail[fetched % Num]
    IN  /\ Vr!ChainLength(vr, head) = 3
        /\ \A k \in 1 .. 3 :
             LET d == vr.desc[head + k - 1]
             IN  d.len = 1 /\ d.addr = ChainAddr(call, k)
                           /\ d.write = ChainWrite(k)

(* Seen from its callers the queue is a plain synchronous read.            *)
Read == INSTANCE BlockRead WITH
          busy <- pc # "idle", data <- mem.data,
          Results <- Nat, Success <- StatusOk

(* The queue, with all that happens behind it, is that synchronous read:   *)
(* no host write reaches a buffer outside the call that gave it away, and  *)
(* none carries another sector's data.                                     *)
ImplementsRead == Read!Spec

(* A call that returns 0 has read its sector into its buffer, although the *)
(* status byte starts out as anything and the indices wrap.                *)
ReadDelivers == ret = StatusOk => mem.data[call.buf] = call.sector

(* Between calls the host holds nothing that points into the frames and    *)
(* buffers of a call that has returned.                                    *)
HostIdleBetweenCalls ==
  pc \in {"idle", "drain"} => jobs = {} /\ fetched = vr.avail_idx

(* next_idx is never wrapped: it stays in the descriptor table only        *)
(* because vr_poll resets it once per request.                             *)
TableNotOverrun == vr.next_idx <= Num

(* Every call returns: the wait always ends with the notifications         *)
(* vr_poll sends.                                                          *)
CallsReturn == pc # "idle" ~> pc = "idle"

(* vring_wait_reply "Wait for the host to reply. [...] Returns 0 on        *)
(* success, 1 on timeout" (virtio.c): when it has returned 0, the host     *)
(* has answered the request that is waited for.                            *)
ReplyIsToThisRequest ==
  pc = "drain" /\ answered => jobs = {} /\ fetched = vr.avail_idx
=============================================================================
