--------------------------------- MODULE Cio ---------------------------------
(***************************************************************************)
(* do_cio of cio.c: a channel program is started at a subchannel, its      *)
(* interrupt awaited and its status judged, with retries after unexpected  *)
(* status and unit checks.  The subchannel, its device and the interrupts  *)
(* of other devices run beside the firmware.                               *)
(*                                                                         *)
(* The printing of a failure's details is left out but for one thing:      *)
(* print_irb_err and print_eckd_dasd_sense_data append to a buffer that    *)
(* was never initialised, so that the report may run off it ("wild").      *)
(***************************************************************************)
EXTENDS Naturals

CONSTANTS
  MaxCalls,     \* bound on calls of do_cio
  MaxNoise,     \* bound on unsolicited status of the device
  MaxForeign,   \* bound on interrupts of other devices
  SensesAtEnd   \* whether cutype is one of those sensed after a failure

ASSUME CioAssumption ==
  /\ MaxCalls \in Nat /\ MaxNoise \in Nat /\ MaxForeign \in Nat
  /\ SensesAtEnd \in BOOLEAN

VARIABLES
  at,       \* "idle", or where do_cio is: "start" .. "judge", "wild"
  job,      \* which __do_cio runs: "prog", "sense", or "last" (final sense)
  call,     \* number of the running or last call
  retries,  \* as in do_cio, counted up to 3: it is only compared with 2
  irb,      \* the status tsch stored
  ret,      \* "none" while a call runs, "ok" for 0, "error" otherwise
  prog,     \* the channel program that runs at the subchannel, or NoProg
  stat,     \* the status pending at the subchannel, or NoStat
  ints,     \* pending I/O interrupts: "own", "foreign"
  ended,    \* calls whose program has ended without error
  starts,   \* how often the running call's program was accepted
  trouble,  \* what has gone wrong in this call: [soft, hard]; soft is what
            \* do_cio retries, counted up to 4
  noise, foreign   \* counters of the bounds

do == <<at, job, call, retries, irb, ret>>
channel == <<prog, stat, ints, ended>>
counts == <<starts, trouble, noise, foreign>>
cioVars == <<do, channel, counts>>

Jobs == {"prog", "sense", "last"}
Prog == [job : Jobs, call : 1 .. MaxCalls]
NoProg == [job |-> "none", call |-> 0]

(* "end": channel end and device end, nothing else.  "check": unit check.  *)
(* "ifcc": interface control check.  "error": any other error.             *)
(* "attention": status that no program asked for.                          *)
Statuses == {"end", "check", "ifcc", "error", "attention"}
NoStat == "none"

CioTypeOK ==
  /\ at \in {"idle", "start", "wait", "collect", "judge", "wild"}
  /\ job \in Jobs
  /\ call \in 0 .. MaxCalls
  /\ retries \in 0 .. 3
  /\ irb \in Statuses \cup {NoStat}
  /\ ret \in {"none", "ok", "error"}
  /\ prog \in Prog \cup {NoProg}
  /\ stat \in Statuses \cup {NoStat}
  /\ ints \subseteq {"own", "foreign"}
  /\ ended \subseteq 1 .. MaxCalls
  /\ starts \in 0 .. 4   \* do_cio gives up after three retries
  /\ trouble \in [soft : 0 .. 4, hard : BOOLEAN]
  /\ noise \in 0 .. MaxNoise
  /\ foreign \in 0 .. MaxForeign

CioInit ==
  /\ at = "idle" /\ job = "prog" /\ call = 0 /\ retries = 0
  /\ irb = NoStat /\ ret = "error"
  /\ prog = NoProg /\ stat = NoStat /\ ints = {} /\ ended = {}
  /\ starts = 0 /\ trouble = [soft |-> 0, hard |-> FALSE]
  /\ noise = 0 /\ foreign = 0

-----------------------------------------------------------------------------
(* Ways out of __do_cio.                                                   *)

Again == retries' = IF retries < 3 THEN retries + 1 ELSE 3

Return(r) == at' = "idle" /\ ret' = r
Hard == trouble' = [trouble EXCEPT !.hard = TRUE]
Soft == trouble' = [trouble EXCEPT !.soft = IF @ < 4 THEN @ + 1 ELSE 4]

(* Starting over with the program, which is also what follows a sense,     *)
(* whatever has become of it.                                              *)
StartOver == at' = "start" /\ job' = "prog"

(* The failure is reported and returned; the sense data is only printed    *)
(* when its program has worked.                                            *)
Report == at' \in {"idle", "wild"} /\ ret' = "error"

(* __do_cio returns an error of ssch or tsch.                              *)
Refused ==
  \/ job = "prog" /\ Return("error") /\ Hard /\ UNCHANGED <<job, retries>>
  \/ job = "sense" /\ StartOver /\ UNCHANGED <<ret, retries, trouble>>
  \/ job = "last" /\ Return("error") /\ UNCHANGED <<job, retries, trouble>>

-----------------------------------------------------------------------------
(* The firmware.                                                           *)

DoCio ==
  /\ at = "idle" /\ call < MaxCalls
  /\ call' = call + 1 /\ retries' = 0 /\ ret' = "none"
  /\ StartOver
  /\ starts' = 0 /\ trouble' = [soft |-> 0, hard |-> FALSE]
  /\ UNCHANGED <<irb, channel, noise, foreign>>

(* ssch is accepted.                                                       *)
Ssch ==
  /\ at = "start"
  /\ prog = NoProg /\ stat = NoStat
  /\ prog' = [job |-> job, call |-> call]
  /\ starts' = IF job = "prog" THEN starts + 1 ELSE starts
  /\ at' = "wait"
  /\ UNCHANGED <<job, call, retries, irb, ret, stat, ints, ended, trouble,
                 noise, foreign>>

(* A fault of the retry: the status is not eaten.                          *)
LeaveStatus ==
  /\ at = "start"
  /\ prog # NoProg \/ stat # NoStat
  /\ \/ job = "prog" /\ Again /\ Soft /\ UNCHANGED <<at, job, ret>>
     \/ job # "prog" /\ StartOver /\ UNCHANGED <<ret, retries, trouble>>
  /\ UNCHANGED <<call, irb, channel, starts, noise, foreign>>

(* ssch finds status pending or the subchannel busy: tsch eats the status, *)
(* if there is one, and with it its interrupt; -1.                         *)
EatStatus ==
  /\ at = "start"
  /\ prog # NoProg \/ stat # NoStat
  /\ irb' = IF stat # NoStat THEN stat ELSE irb
  /\ stat' = NoStat /\ ints' = ints \ {"own"}
  /\ \/ job = "prog" /\ Again /\ Soft /\ UNCHANGED <<at, job, ret>>
     \/ job = "sense" /\ StartOver /\ UNCHANGED <<ret, retries, trouble>>
     \/ job = "last" /\ Return("error") /\ UNCHANGED <<job, retries, trouble>>
  /\ UNCHANGED <<call, prog, ended, starts, noise, foreign>>

(* ssch: not operational.                                                  *)
NotOperational ==
  /\ at = "start"
  /\ Refused
  /\ UNCHANGED <<call, irb, channel, starts, noise, foreign>>

(* consume_io_int: any I/O interrupt ends the wait.                        *)
ConsumeIoInt ==
  /\ at = "wait"
  /\ \E i \in ints : ints' = ints \ {i}
  /\ at' = "collect"
  /\ UNCHANGED <<job, call, retries, irb, ret, prog, stat, ended, counts>>

(* tsch stores the status that is pending ...                              *)
Tsch ==
  /\ at = "collect"
  /\ stat # NoStat
  /\ irb' = stat
  /\ stat' = NoStat /\ ints' = ints \ {"own"}
  /\ \/ job = "prog" /\ at' = "judge" /\ UNCHANGED <<job, ret>>
     \/ job = "sense" /\ StartOver /\ UNCHANGED ret
     \/ job = "last" /\ Report /\ UNCHANGED job
  /\ UNCHANGED <<call, retries, prog, ended, counts>>

(* A fault of __do_cio: the result of tsch is not looked at.               *)
TschIgnored ==
  /\ at = "collect" /\ stat = NoStat
  /\ at' = IF job = "prog" THEN "judge" ELSE "start"
  /\ job' = "prog"
  /\ UNCHANGED <<call, retries, irb, ret, channel, counts>>

(* ... and fails when there is none: the interrupt was another device's.   *)
TschNothing ==
  /\ at = "collect"
  /\ stat = NoStat
  /\ Refused
  /\ UNCHANGED <<call, irb, channel, starts, noise, foreign>>

(* irb_error, and what do_cio does with an error.  Faults: only channel    *)
(* errors count; no limit.                                                 *)
IrbErrorChannelOnly == irb \in {"ifcc", "error"}
IrbError == irb # "end"

RetryableAlways == irb \in {"check", "ifcc"}
Retryable == irb \in {"check", "ifcc"} /\ retries <= 2

(* A fault: even a good status is tried again.                             *)
JudgeGoodAgain ==
  /\ at = "judge" /\ ~IrbError
  /\ IF retries = 0 THEN StartOver /\ UNCHANGED ret ELSE Return("ok") /\ UNCHANGED job
  /\ Again
  /\ UNCHANGED <<call, irb, channel, counts>>

JudgeGood ==
  /\ at = "judge" /\ ~IrbError
  /\ Return("ok")
  /\ UNCHANGED <<job, call, retries, irb, channel, counts>>

JudgeRetry ==
  /\ at = "judge" /\ IrbError /\ Retryable
  /\ Again /\ Soft
  /\ at' = "start" /\ job' = IF irb = "check" THEN "sense" ELSE "prog"
  /\ UNCHANGED <<call, irb, ret, channel, starts, noise, foreign>>

(* print_irb_err, then a last sense for a DASD or an unknown device.       *)
JudgeBad ==
  /\ at = "judge" /\ IrbError /\ ~Retryable
  /\ trouble' = IF irb \in {"check", "ifcc"}
                THEN [trouble EXCEPT !.soft = IF @ < 4 THEN @ + 1 ELSE 4]
                ELSE [trouble EXCEPT !.hard = TRUE]
  /\ \/ SensesAtEnd /\ at' = "start" /\ job' = "last" /\ UNCHANGED ret
     \/ ~SensesAtEnd /\ Return("error") /\ UNCHANGED job
     \/ at' = "wild" /\ UNCHANGED <<job, ret>>
  /\ UNCHANGED <<call, retries, irb, channel, starts, noise, foreign>>

-----------------------------------------------------------------------------
(* The channel subsystem: external to src/.                                *)

(* The program ends, and its status becomes pending.                       *)
Finish(s) ==
  /\ prog # NoProg
  /\ s # "attention"
  /\ prog' = NoProg /\ stat' = s /\ ints' = ints \cup {"own"}
  /\ ended' = IF prog.job = "prog" /\ s = "end" THEN ended \cup {prog.call}
                                                ELSE ended
  /\ UNCHANGED <<do, counts>>

(* Status that no program asked for waits for the subchannel to be free.   *)
Noise ==
  /\ noise < MaxNoise
  /\ prog = NoProg /\ stat = NoStat
  /\ stat' = "attention" /\ ints' = ints \cup {"own"}
  /\ noise' = noise + 1
  /\ UNCHANGED <<do, prog, ended, starts, trouble, foreign>>

Foreign ==
  /\ foreign < MaxForeign
  /\ ints' = ints \cup {"foreign"}
  /\ foreign' = foreign + 1
  /\ UNCHANGED <<do, prog, stat, ended, starts, trouble, noise>>

-----------------------------------------------------------------------------
CioFirmware ==
  \/ Ssch \/ EatStatus \/ ConsumeIoInt
  \/ Tsch \/ TschNothing \/ JudgeGood \/ JudgeRetry \/ JudgeBad

CioNext ==
  \/ DoCio
  \/ CioFirmware
  \/ NotOperational
  \/ \E s \in Statuses : Finish(s)
  \/ Noise
  \/ Foreign

CioSpec == CioInit /\ [][CioNext]_cioVars

(* The firmware runs on, without help from a device that goes away, and a  *)
(* program that was started ends.                                          *)
Fairness ==
  /\ WF_cioVars(CioFirmware)
  /\ WF_cioVars(\E s \in Statuses : Finish(s))

CioFairSpec == CioSpec /\ Fairness

-----------------------------------------------------------------------------
(* Properties.                                                             *)

(* do_cio returns 0 only when the program of this very call has ended      *)
(* without error, and nothing runs at the subchannel any more that could   *)
(* still write to the caller's buffer: not an earlier program, not a       *)
(* sense, whatever status or interrupt came in between.                    *)
SuccessIsOurs ==
  at = "idle" /\ ret = "ok" => call \in ended /\ prog = NoProg

(* A program that has ended without error is not started again by the      *)
(* retries, however its status was collected.                              *)
NotRunTwice == [][starts' > starts => call \notin ended]_cioVars

(* "Use sense to clear (unit check only) then retry": up to three mishaps  *)
(* of the kind do_cio retries never make a call fail.                      *)
RecoversFromChecks ==
  at \in {"idle", "wild"} /\ call > 0 /\ ret # "ok" =>
    trouble.soft > 3 \/ trouble.hard

(* The result of do_cio is the truth about its program, both ways.         *)
ResultIsRight == SuccessIsOurs /\ RecoversFromChecks

(* Every call ends: neither the wait for an interrupt that another device  *)
(* may have taken, nor the unlimited retry on pending status goes on for   *)
(* ever, as long as the device is not a source of endless status.          *)
CallsEnd == at = "start" ~> at \in {"idle", "wild"}
=============================================================================
