---------------------------- MODULE ChannelIo_proofs ---------------------------
(***************************************************************************)
(* Channel I/O: what a return value of do_cio says, for any number of      *)
(* calls, of unsolicited status and of interrupts of other devices; and    *)
(* what an IPL by channel programs, on any disk, makes of the program on   *)
(* the disk and leaves in memory.                                          *)
(***************************************************************************)
EXTENDS DasdIpl, Cio, TLAPS

-----------------------------------------------------------------------------
(* do_cio (module Cio).                                                    *)

Active == at \in {"start", "wait", "collect", "judge"}
Mine == [job |-> job, call |-> call]

(* Before it is started, nothing of this call has ended or is on its way.  *)
Starting ==
  at = "start" => /\ call \notin ended
                  /\ ~ (prog.job = "prog" /\ prog.call = call)

(* While it is waited for, it runs, or the status that waits is its own.   *)
Waiting ==
  at \in {"wait", "collect"} =>
    \/ prog = Mine /\ stat = NoStat /\ call \notin ended
    \/ /\ prog = NoProg /\ stat # NoStat
       /\ call \in ended <=> (job = "prog" /\ stat = "end")

(* What is judged is the status of the program of this call.               *)
Judging ==
  at = "judge" => /\ job = "prog" /\ prog = NoProg
                  /\ call \in ended <=> irb = "end"

Subchannel ==
  /\ stat # NoStat => prog = NoProg
  /\ prog # NoProg => prog.call \in 1 .. call
  /\ ended \subseteq 1 .. call
  /\ Active => call \in 1 .. MaxCalls

(* The retries count the mishaps of the call ...                           *)
Tried ==
  Active =>
    /\ job # "last" => /\ retries < 3 => trouble.soft = retries
                       /\ retries = 3 => trouble.soft >= 3
    /\ job = "last" => trouble.soft > 3 \/ trouble.hard

(* ... and bound the starts of its program.                                *)
Started ==
  /\ at = "start" /\ job # "last" => starts <= retries
  /\ at \in {"wait", "collect", "judge"} =>
       /\ job = "prog" => starts <= retries + 1
       /\ job = "sense" => starts <= retries

CioIInv ==
  /\ CioTypeOK /\ Starting /\ Waiting /\ Judging /\ Subchannel /\ Tried /\ Started
  /\ SuccessIsOurs /\ RecoversFromChecks

-----------------------------------------------------------------------------
LEMMA DoCioKeeps ==
  ASSUME CioIInv, CioAssumption, DoCio
  PROVE  CioIInv'
<1>1. CioTypeOK'
  BY CioAssumption DEF CioIInv, CioTypeOK, Jobs, DoCio, StartOver, channel
<1>2. Starting' /\ Waiting' /\ Judging'
  BY DEF CioIInv, CioTypeOK, NoProg, Starting, Waiting, Judging, Subchannel, DoCio,
     StartOver, channel
<1>3. Subchannel'
  BY DEF CioIInv, CioTypeOK, Subchannel, DoCio, channel
<1>4. Tried' /\ Started'
  BY DEF Tried, Started, DoCio, StartOver
<1>5. SuccessIsOurs' /\ RecoversFromChecks'
  BY DEF SuccessIsOurs, RecoversFromChecks, DoCio, StartOver
<1>6. QED
  BY <1>1, <1>2, <1>3, <1>4, <1>5 DEF CioIInv

LEMMA SschKeeps ==
  ASSUME CioIInv, CioAssumption, Ssch
  PROVE  CioIInv'
<1>1. CioTypeOK'
  BY CioAssumption DEF CioIInv, CioTypeOK, Prog, Active, Subchannel, Started, Ssch
<1>2. Starting' /\ Waiting' /\ Judging'
  BY DEF CioIInv, Mine, Starting, Waiting, Judging, Ssch
<1>3. Subchannel'
  BY DEF CioIInv, Active, Subchannel, Ssch
<1>4. Tried' /\ Started'
  BY DEF CioIInv, CioTypeOK, Active, Tried, Started, Ssch
<1>5. SuccessIsOurs' /\ RecoversFromChecks'
  BY DEF SuccessIsOurs, RecoversFromChecks, Ssch
<1>6. QED
  BY <1>1, <1>2, <1>3, <1>4, <1>5 DEF CioIInv

LEMMA EatStatusKeeps ==
  ASSUME CioIInv, CioAssumption, EatStatus
  PROVE  CioIInv'
<1>1. CioTypeOK'
  BY CioAssumption DEF CioIInv, CioTypeOK, Jobs, EatStatus, Again, Soft, StartOver,
     Return
<1>2. Starting' /\ Waiting' /\ Judging'
  BY DEF CioIInv, Starting, Waiting, Judging, EatStatus, StartOver, Return
<1>3. Subchannel'
  BY DEF CioIInv, Active, Subchannel, EatStatus
<1>4. Tried' /\ Started'
  BY DEF CioIInv, CioTypeOK, Active, Tried, Started, EatStatus, Again, Soft,
     StartOver
<1>5. SuccessIsOurs' /\ RecoversFromChecks'
  BY DEF CioIInv, Active, Tried, SuccessIsOurs, RecoversFromChecks, EatStatus,
     StartOver, Return
<1>6. QED
  BY <1>1, <1>2, <1>3, <1>4, <1>5 DEF CioIInv

LEMMA NotOperationalKeeps ==
  ASSUME CioIInv, CioAssumption, NotOperational
  PROVE  CioIInv'
<1>1. CioTypeOK'
  BY CioAssumption DEF CioIInv, CioTypeOK, Jobs, Prog, NoProg, Statuses, NoStat,
     Active, Subchannel, Started, Tried, NotOperational, Refused, StartOver,
     Return, Hard, channel, counts, do
<1>2. Starting' /\ Waiting' /\ Judging'
  BY DEF CioIInv, Starting, Waiting, Judging, NotOperational, Refused, StartOver,
     Return, channel
<1>3. Subchannel'
  BY DEF CioIInv, Active, Subchannel, NotOperational, channel
<1>4. Tried' /\ Started'
  BY DEF CioIInv, Active, Tried, Started, NotOperational, Refused, StartOver,
     Return
<1>5. SuccessIsOurs' /\ RecoversFromChecks'
  BY DEF CioIInv, CioTypeOK, Active, Tried, SuccessIsOurs, RecoversFromChecks,
     NotOperational, Refused, StartOver, Return, Hard
<1>6. QED
  BY <1>1, <1>2, <1>3, <1>4, <1>5 DEF CioIInv

LEMMA ConsumeIoIntKeeps ==
  ASSUME CioIInv, CioAssumption, ConsumeIoInt
  PROVE  CioIInv'
<1>1. CioTypeOK'
  BY CioAssumption DEF CioIInv, CioTypeOK, ConsumeIoInt, counts
<1>2. Starting' /\ Waiting' /\ Judging'
  BY DEF CioIInv, Mine, Starting, Waiting, Judging, ConsumeIoInt
<1>3. Subchannel'
  BY DEF CioIInv, Active, Subchannel, ConsumeIoInt
<1>4. Tried' /\ Started'
  BY DEF CioIInv, Active, Tried, Started, ConsumeIoInt, counts
<1>5. SuccessIsOurs' /\ RecoversFromChecks'
  BY DEF SuccessIsOurs, RecoversFromChecks, ConsumeIoInt
<1>6. QED
  BY <1>1, <1>2, <1>3, <1>4, <1>5 DEF CioIInv

LEMMA TschKeeps ==
  ASSUME CioIInv, CioAssumption, Tsch
  PROVE  CioIInv'
<1>1. CioTypeOK'
  BY CioAssumption DEF CioIInv, CioTypeOK, Jobs, Tsch, StartOver, Report, counts
<1>2. Starting' /\ Waiting' /\ Judging'
  BY DEF CioIInv, NoProg, Starting, Waiting, Judging, Tsch, StartOver, Report
<1>3. Subchannel'
  BY DEF CioIInv, Active, Subchannel, Tsch
<1>4. Tried' /\ Started'
  BY DEF CioIInv, Active, Tried, Started, Tsch, StartOver, counts
<1>5. SuccessIsOurs' /\ RecoversFromChecks'
  BY DEF CioIInv, Active, Tried, SuccessIsOurs, RecoversFromChecks, Tsch,
     StartOver, Report, counts
<1>6. QED
  BY <1>1, <1>2, <1>3, <1>4, <1>5 DEF CioIInv

LEMMA TschNothingKeeps ==
  ASSUME CioIInv, CioAssumption, TschNothing
  PROVE  CioIInv'
<1>1. CioTypeOK'
  BY CioAssumption DEF CioIInv, CioTypeOK, Jobs, TschNothing, Refused, StartOver,
     Return, Hard, channel
<1>2. Starting' /\ Waiting' /\ Judging'
  BY DEF CioIInv, Mine, Starting, Waiting, Judging, TschNothing, Refused,
     StartOver, Return, channel
<1>3. Subchannel'
  BY DEF CioIInv, Active, Subchannel, TschNothing, channel
<1>4. Tried' /\ Started'
  BY DEF CioIInv, Active, Tried, Started, TschNothing, Refused, StartOver,
     Return
<1>5. SuccessIsOurs' /\ RecoversFromChecks'
  BY DEF CioIInv, CioTypeOK, Active, Tried, SuccessIsOurs, RecoversFromChecks,
     TschNothing, Refused, StartOver, Return, Hard
<1>6. QED
  BY <1>1, <1>2, <1>3, <1>4, <1>5 DEF CioIInv

LEMMA JudgeGoodKeeps ==
  ASSUME CioIInv, CioAssumption, JudgeGood
  PROVE  CioIInv'
<1>1. CioTypeOK'
  BY CioAssumption DEF CioIInv, CioTypeOK, JudgeGood, Return, channel, counts
<1>2. Starting' /\ Waiting' /\ Judging'
  BY DEF Starting, Waiting, Judging, JudgeGood, Return
<1>3. Subchannel'
  BY DEF CioIInv, Active, Subchannel, JudgeGood, channel
<1>4. Tried' /\ Started'
  BY DEF Active, Tried, Started, JudgeGood, Return
<1>5. SuccessIsOurs' /\ RecoversFromChecks'
  BY DEF CioIInv, Judging, SuccessIsOurs, RecoversFromChecks, JudgeGood,
     IrbError, Return, channel
<1>6. QED
  BY <1>1, <1>2, <1>3, <1>4, <1>5 DEF CioIInv

LEMMA JudgeRetryKeeps ==
  ASSUME CioIInv, CioAssumption, JudgeRetry
  PROVE  CioIInv'
<1>1. CioTypeOK'
  BY CioAssumption DEF CioIInv, CioTypeOK, Jobs, JudgeRetry, Again, Soft, channel
<1>2. Starting' /\ Waiting' /\ Judging'
  BY DEF CioIInv, NoProg, Starting, Waiting, Judging, JudgeRetry, Retryable,
     channel
<1>3. Subchannel'
  BY DEF CioIInv, Active, Subchannel, JudgeRetry, channel
<1>4. Tried' /\ Started'
  BY DEF CioIInv, CioTypeOK, Active, Tried, Started, Judging, JudgeRetry,
     Retryable, Again, Soft
<1>5. SuccessIsOurs' /\ RecoversFromChecks'
  BY DEF SuccessIsOurs, RecoversFromChecks, JudgeRetry
<1>6. QED
  BY <1>1, <1>2, <1>3, <1>4, <1>5 DEF CioIInv

LEMMA JudgeBadKeeps ==
  ASSUME CioIInv, CioAssumption, JudgeBad
  PROVE  CioIInv'
<1>1. CioTypeOK'
  <2>1. trouble' \in [soft : 0 .. 4, hard : BOOLEAN]
    <3>1. trouble \in [soft : 0 .. 4, hard : BOOLEAN]
      BY DEF CioIInv, CioTypeOK
    <3>2. CASE irb \in {"check", "ifcc"}
      <4>1. trouble' = [trouble EXCEPT !.soft = IF @ < 4 THEN @ + 1 ELSE 4]
        BY <3>2 DEF JudgeBad
      <4>2. (IF trouble.soft < 4 THEN trouble.soft + 1 ELSE 4) \in 0 .. 4
        BY <3>1
      <4>3. QED
        BY <3>1, <4>1, <4>2, Zenon
    <3>3. CASE irb \notin {"check", "ifcc"}
      <4>1. trouble' = [trouble EXCEPT !.hard = TRUE]
        BY <3>3 DEF JudgeBad
      <4>2. QED
        BY <3>1, <4>1, Zenon
    <3>4. QED
      BY <3>2, <3>3
  <2>2. QED
    BY <2>1 DEF CioIInv, CioTypeOK, Jobs, JudgeBad, Return, channel
<1>2. Starting' /\ Waiting' /\ Judging'
  BY DEF CioIInv, NoProg, Starting, Waiting, Judging, JudgeBad, IrbError, Return,
     channel
<1>3. Subchannel'
  BY DEF CioIInv, Active, Subchannel, JudgeBad, channel
<1>4. Tried' /\ Started'
  BY DEF CioIInv, CioTypeOK, Active, Tried, Started, JudgeBad, Retryable, Return
<1>5. SuccessIsOurs' /\ RecoversFromChecks'
  BY DEF CioIInv, CioTypeOK, Active, Tried, SuccessIsOurs, RecoversFromChecks,
     JudgeBad, Retryable, Return
<1>6. QED
  BY <1>1, <1>2, <1>3, <1>4, <1>5 DEF CioIInv

LEMMA FinishKeeps ==
  ASSUME CioIInv, CioAssumption, NEW s \in Statuses, Finish(s)
  PROVE  CioIInv'
<1>1. CioTypeOK'
  <2>1. prog.call \in 1 .. MaxCalls
    BY DEF CioIInv, CioTypeOK, Prog, Finish
  <2>2. ended' \subseteq 1 .. MaxCalls
    BY <2>1 DEF CioIInv, CioTypeOK, Finish
  <2>3. QED
    BY <2>2 DEF CioIInv, CioTypeOK, Finish, do, counts
<1>2. Starting' /\ Waiting' /\ Judging'
  BY DEF CioIInv, NoProg, Statuses, NoStat, Mine, Starting, Waiting, Judging,
     Finish, do
<1>3. Subchannel'
  BY DEF CioIInv, Active, Subchannel, Finish, do
<1>4. Tried' /\ Started'
  BY DEF CioIInv, Active, Tried, Started, Finish, counts, do
<1>5. SuccessIsOurs' /\ RecoversFromChecks'
  BY DEF CioIInv, SuccessIsOurs, RecoversFromChecks, Finish, counts, do
<1>6. QED
  BY <1>1, <1>2, <1>3, <1>4, <1>5 DEF CioIInv

LEMMA NoiseKeeps ==
  ASSUME CioIInv, CioAssumption, Noise
  PROVE  CioIInv'
<1>1. CioTypeOK'
  BY CioAssumption DEF CioIInv, CioTypeOK, Statuses, Noise, do
<1>2. Starting' /\ Waiting' /\ Judging'
  BY DEF CioIInv, Mine, Starting, Waiting, Judging, Noise, do
<1>3. Subchannel'
  BY DEF CioIInv, Active, Subchannel, Noise, do
<1>4. Tried' /\ Started'
  BY DEF CioIInv, Active, Tried, Started, Noise, do
<1>5. SuccessIsOurs' /\ RecoversFromChecks'
  BY DEF CioIInv, SuccessIsOurs, RecoversFromChecks, Noise, do
<1>6. QED
  BY <1>1, <1>2, <1>3, <1>4, <1>5 DEF CioIInv

LEMMA ForeignKeeps ==
  ASSUME CioIInv, CioAssumption, Foreign
  PROVE  CioIInv'
<1>1. CioTypeOK'
  BY CioAssumption DEF CioIInv, CioTypeOK, Foreign, do
<1>2. Starting' /\ Waiting' /\ Judging'
  BY DEF CioIInv, Mine, Starting, Waiting, Judging, Foreign, do
<1>3. Subchannel'
  BY DEF CioIInv, Active, Subchannel, Foreign, do
<1>4. Tried' /\ Started'
  BY DEF CioIInv, Active, Tried, Started, Foreign, do
<1>5. SuccessIsOurs' /\ RecoversFromChecks'
  BY DEF CioIInv, SuccessIsOurs, RecoversFromChecks, Foreign, do
<1>6. QED
  BY <1>1, <1>2, <1>3, <1>4, <1>5 DEF CioIInv

LEMMA CioStepKeeps ==
  ASSUME CioIInv, CioAssumption, [CioNext]_cioVars
  PROVE  CioIInv'
<1>1. CASE CioFirmware
  BY <1>1, SschKeeps, EatStatusKeeps, ConsumeIoIntKeeps, TschKeeps,
     TschNothingKeeps, JudgeGoodKeeps, JudgeRetryKeeps, JudgeBadKeeps
  DEF CioFirmware
<1>2. CASE \E s \in Statuses : Finish(s)
  BY <1>2, FinishKeeps
<1>3. CASE UNCHANGED cioVars
  BY <1>3 DEF CioIInv, CioTypeOK, Starting, Waiting, Judging, Subchannel, Tried,
     Started, SuccessIsOurs, RecoversFromChecks, Active, Mine, cioVars, do,
     channel, counts
<1>4. QED
  BY <1>1, <1>2, <1>3, DoCioKeeps, NotOperationalKeeps, NoiseKeeps,
     ForeignKeeps DEF CioNext

LEMMA InitCioIInv ==
  ASSUME CioAssumption, CioInit
  PROVE  CioIInv
  BY CioAssumption DEF CioInit, CioIInv, CioTypeOK, Jobs, Active, Starting, Waiting,
     Judging, Subchannel, Tried, Started, SuccessIsOurs, RecoversFromChecks

LEMMA CioInvariance == CioSpec => []CioIInv
<1>1. CioInit => CioIInv
  BY InitCioIInv, CioAssumption
<1>2. CioIInv /\ [CioNext]_cioVars => CioIInv'
  BY CioStepKeeps, CioAssumption
<1>3. QED
  BY <1>1, <1>2, PTL DEF CioSpec

-----------------------------------------------------------------------------
(* Type correctness of do_cio, the bound on the starts of a program        *)
(* included: no call starts its program more than four times.              *)
THEOREM CioTypeCorrect == CioSpec => []CioTypeOK
<1>1. CioIInv => CioTypeOK
  BY DEF CioIInv
<1>2. QED
  BY <1>1, CioInvariance, PTL

(* The result of do_cio is the truth about its program: 0 means that this  *)
(* program has ended without error and nothing runs any more, an error     *)
(* that something happened which three retries are not for.                *)
THEOREM ResultIsTheTruth == CioSpec => []ResultIsRight
<1>1. CioIInv => ResultIsRight
  BY DEF CioIInv, ResultIsRight
<1>2. QED
  BY <1>1, CioInvariance, PTL

(* The retries never start a program again that has ended without error.   *)
THEOREM NeverRunTwice == CioSpec => NotRunTwice
<1>1. CioIInv /\ [CioNext]_cioVars => [starts' > starts => call \notin ended]_cioVars
  <2>1. SUFFICES ASSUME CioIInv, CioNext, starts' > starts
                 PROVE  call \notin ended
    OBVIOUS
  <2>2. starts \in 0 .. 4
    BY <2>1 DEF CioIInv, CioTypeOK
  <2>3. ASSUME Ssch
        PROVE  call \notin ended
    BY <2>1, <2>3 DEF CioIInv, Starting, Ssch
  <2>4. CASE DoCio
    BY <2>1, <2>2, <2>4 DEF DoCio
  <2>5. ASSUME starts' = starts
        PROVE  FALSE
    BY <2>1, <2>2, <2>5
  <2>6. Ssch \/ DoCio \/ starts' = starts
    BY <2>1 DEF CioNext, CioFirmware, EatStatus, NotOperational, ConsumeIoInt, Tsch,
       TschNothing, JudgeGood, JudgeRetry, JudgeBad, Finish, Noise, Foreign,
       counts
  <2>7. QED
    BY <2>3, <2>4, <2>5, <2>6
<1>2. QED
  BY <1>1, CioInvariance, PTL DEF CioSpec, NotRunTwice

-----------------------------------------------------------------------------
(* IPL by channel programs (module DasdIpl).                               *)

LowWords == {SubchannelId, IoOldPsw, IoNewPsw}
CanRun == {"readipl", "ipl1", "piece"}

(* A memory is a word at every address.                                    *)
Memory(m) == m = [a \in Addr |-> m[a]] /\ \A a \in Addr : Word(m[a])

Shape ==
  /\ disk \in Disks
  /\ Memory(mem) /\ Memory(loaded) /\ Memory(chan.fetched)
  /\ chan = [at |-> chan.at, fetched |-> chan.fetched, waited |-> chan.waited]
  /\ chan.at \in Nat \cup {Idle, End, Over}
  /\ track \in [pos : Nat, known : BOOLEAN]
  /\ next \in [has : BOOLEAN, cpa : Nat]
  /\ ipl2_addr \in Nat
  /\ prefix = [on |-> prefix.on, page |-> prefix.page] /\ prefix.on \in BOOLEAN
  /\ prefix.on => /\ prefix.page = [a \in LowWords |-> prefix.page[a]]
                  /\ \A a \in LowWords : Word(prefix.page[a])
  /\ jump = [at |-> jump.at, save |-> jump.save,
             ipl_continue |-> jump.ipl_continue, entered |-> jump.entered]
  /\ Word(jump.save)

(* Where the firmware is while a channel program runs and while it does    *)
(* not, and when there is a prefix.                                        *)
Place ==
  /\ pc \in {"make_readipl", "readipl", "ipl1", "ipl2", "piece", "start",
             "jump", "panic", "ioerror", "wild"}
  /\ pc = "make_readipl" <=> chan.at = Idle
  /\ pc \notin {"make_readipl"} \cup CanRun => chan.at = Over
  /\ pc = "piece" => prefix.on
  /\ prefix.on => pc \in {"piece", "panic", "ioerror", "wild"}
  /\ jump.at # "idle" => pc = "jump"
  /\ pc # "jump" => jump = Jump!JumpIdle

(* Outside the words the firmware and interrupts store into, memory is     *)
(* what the channel has read, up to a chain bit.                           *)
Same(m, l, a) == m[a] \in {l[a], Unchained(l[a])}
Kept == \A a \in Addr \ (Scratch \cup {0, IoOldPsw, IoNewPsw}) : Same(mem, loaded, a)

IInv == Shape /\ Place /\ Kept

-----------------------------------------------------------------------------
(* Memory and words.                                                       *)

LEMMA ZeroIsWord == Word(Zero) /\ Word(Firmware)
BY DEF Word, Zero, Firmware, Jump!Firmware

LEMMA CcwIsWord ==
  ASSUME NEW cmd, NEW cda \in Nat, NEW chain \in BOOLEAN
  PROVE  Word(CCW(cmd, cda, chain))
BY DEF Word, CCW

LEMMA UnchainedIsWord ==
  ASSUME NEW w, Word(w)
  PROVE  /\ Word(Unchained(w)) /\ Unchained(w).kind = w.kind
         /\ Unchained(Unchained(w)) = Unchained(w)
         /\ w.kind = "ccw" => /\ Unchained(w) = [w EXCEPT !.chain = FALSE]
                              /\ Unchained(w).cmd = w.cmd
                              /\ Unchained(w).cda = w.cda
                              /\ Unchained(w).rec = w.rec
                              /\ Unchained(w).chain = FALSE
BY DEF Word, Unchained

LEMMA ForceZModeIsWord ==
  ASSUME NEW w, Word(w)
  PROVE  Word(ForceZMode(w))
BY DEF Word, ForceZMode

(* Storing one word.                                                       *)
LEMMA StoreIsMemory ==
  ASSUME NEW m, Memory(m), NEW w, Word(w), NEW a
  PROVE  Memory([m EXCEPT ![a] = w])
BY DEF Memory

(* What an interrupt stores.                                               *)
LEMMA StoreIs ==
  ASSUME NEW m, Memory(m), NEW as
  PROVE  /\ Memory(Jump!Store(m, as))
         /\ \A a \in Addr : Jump!Store(m, as)[a] = IF a \in as THEN Firmware ELSE m[a]
<1>1. \A a \in Addr : Jump!Store(m, as)[a] = IF a \in as THEN Firmware ELSE m[a]
  BY DEF Memory, Jump!Store, Firmware
<1>2. Jump!Store(m, as) = [a \in Addr |-> Jump!Store(m, as)[a]]
  BY DEF Memory, Jump!Store
<1>3. QED
  BY <1>1, <1>2, ZeroIsWord DEF Memory

(* Storing a record.                                                       *)
LEMMA WriteAt ==
  ASSUME NEW m, Memory(m), NEW c, NEW ws, NEW a \in Addr
  PROVE  Channel!Write(m, c, ws)[a] =
           IF a - c + 1 \in DOMAIN ws THEN ws[a - c + 1] ELSE m[a]
BY DEF Memory, Channel!Write

LEMMA WriteIsMemory ==
  ASSUME NEW m, Memory(m), NEW c, NEW ws, \A i \in DOMAIN ws : Word(ws[i])
  PROVE  Memory(Channel!Write(m, c, ws))
BY DEF Memory, Channel!Write

LEMMA RecordsAreWords ==
  ASSUME disk \in Disks, NEW r
  PROVE  \A i \in DOMAIN Channel!Record(r) : Word(Channel!Record(r)[i])
BY DiskAssumption DEF Channel!Record

(* Both memories get the same record.                                      *)
LEMMA WriteKeepsSame ==
  ASSUME NEW m, NEW l, Memory(m), Memory(l), NEW c, NEW ws, NEW a \in Addr,
         Same(m, l, a)
  PROVE  Same(Channel!Write(m, c, ws), Channel!Write(l, c, ws), a)
<1>1. CASE a - c + 1 \in DOMAIN ws
  BY <1>1, WriteAt DEF Same
<1>2. CASE a - c + 1 \notin DOMAIN ws
  BY <1>2, WriteAt DEF Same
<1>3. QED
  BY <1>1, <1>2

-----------------------------------------------------------------------------
(* Every action keeps the invariant.                                       *)

LEMMA Addresses ==
  /\ 0..7 \subseteq Addr /\ LowWords \subseteq Addr /\ S390EP \in Addr
  /\ 0..7 \cap LowWords = {} /\ S390EP \notin 0..7 \cup LowWords
  /\ Scratch = 1..7 \cup {SubchannelId} \cup ConsoleWords
  /\ ConsoleWords \subseteq Addr /\ ConsoleWords \cap LowWords = {}
  /\ ConsoleWords \cap 0..7 = {} /\ S390EP \notin ConsoleWords
  /\ Addr \subseteq Nat
BY LowCoreAssumption DEF Addr, LowWords, Scratch

LEMMA Apart ==
  /\ {0, SubchannelId, IoOldPsw, IoNewPsw, S390EP} \subseteq Addr
  /\ 0 \in Addr /\ SubchannelId \in Addr /\ IoOldPsw \in Addr
  /\ IoNewPsw \in Addr /\ S390EP \in Addr
  /\ 0 # SubchannelId /\ 0 # IoOldPsw /\ 0 # IoNewPsw /\ 0 # S390EP
  /\ SubchannelId # IoNewPsw /\ SubchannelId # IoOldPsw
  /\ SubchannelId # S390EP /\ IoNewPsw # IoOldPsw /\ IoNewPsw # S390EP
  /\ IoOldPsw # S390EP
  /\ 0 \notin 1..7 /\ SubchannelId \notin 1..7 /\ IoOldPsw \notin 1..7
  /\ IoNewPsw \notin 1..7 /\ S390EP \notin 1..7
  /\ 0 \notin ConsoleWords /\ SubchannelId \notin ConsoleWords
  /\ IoOldPsw \notin ConsoleWords /\ IoNewPsw \notin ConsoleWords
  /\ S390EP \notin ConsoleWords
BY LowCoreAssumption DEF Addr

LEMMA InitIInv == Init => IInv
<1> SUFFICES ASSUME Init PROVE IInv
  OBVIOUS
<1>1. Memory(mem) /\ Memory(loaded) /\ Memory(chan.fetched)
  BY ZeroIsWord DEF Init, Memory
<1>2. Shape
  BY <1>1 DEF Init, Shape, Idle, Word, Jump!JumpIdle, Jump!NoWord
<1>3. Place
  BY DEF Init, Place, Jump!JumpIdle
<1>4. Kept
  BY DEF Init, Kept, Same
<1>5. QED
  BY <1>2, <1>3, <1>4 DEF IInv

(* Storing into the low core of the CPU.                                   *)
LEMMA StoreLowKeeps ==
  ASSUME IInv, NEW as, StoreLow(as)
  PROVE  /\ Memory(mem')
         /\ prefix' = [on |-> prefix.on, page |-> prefix'.page]
         /\ prefix.on => /\ prefix'.page = [b \in LowWords |-> prefix'.page[b]]
                         /\ \A b \in LowWords : Word(prefix'.page[b])
         /\ \A b \in Addr : b \notin as => mem'[b] = mem[b]
         /\ prefix.on => /\ mem' = mem
                         /\ \A b \in LowWords :
                              prefix'.page[b] = IF b \in as THEN Firmware
                                                ELSE prefix.page[b]
<1>1. CASE prefix.on
  <2>1. /\ prefix' = [prefix EXCEPT !.page = Jump!Store(prefix.page, as)]
        /\ mem' = mem
    BY <1>1 DEF StoreLow
  <2>2. prefix' = [on |-> prefix.on, page |-> Jump!Store(prefix.page, as)]
    BY <2>1 DEF IInv, Shape
  <2>3. prefix.page = [b \in LowWords |-> prefix.page[b]]
    BY <1>1 DEF IInv, Shape
  <2>4. Jump!Store(prefix.page, as)
          = [b \in LowWords |-> IF b \in as THEN Firmware ELSE prefix.page[b]]
    BY <2>3 DEF Jump!Store, Firmware
  <2>5. Memory(mem) /\ \A b \in LowWords : Word(prefix.page[b])
    BY <1>1 DEF IInv, Shape
  <2> DEFINE page == [b \in LowWords |-> IF b \in as THEN Firmware ELSE prefix.page[b]]
  <2>6. /\ page = [b \in LowWords |-> page[b]]
        /\ \A b \in LowWords : /\ page[b] = IF b \in as THEN Firmware
                                             ELSE prefix.page[b]
                               /\ Word(page[b])
    BY <2>5, ZeroIsWord
  <2>7. prefix' = [on |-> prefix.on, page |-> page]
    BY <2>2, <2>4
  <2> HIDE DEF page
  <2>8. prefix'.page = page /\ prefix' = [on |-> prefix.on, page |-> prefix'.page]
    BY <2>7
  <2>9. QED
    BY <1>1, <2>1, <2>5, <2>6, <2>8
<1>2. CASE ~ prefix.on
  <2>1. mem' = Jump!Store(mem, as) /\ prefix' = prefix
    BY <1>2 DEF StoreLow
  <2>2. Memory(mem) /\ prefix = [on |-> prefix.on, page |-> prefix.page]
    BY DEF IInv, Shape
  <2>3. /\ Memory(Jump!Store(mem, as))
        /\ \A b \in Addr : Jump!Store(mem, as)[b] = IF b \in as THEN Firmware
                                                     ELSE mem[b]
    BY <2>2, StoreIs, Zenon
  <2>4. QED
    BY <1>2, <2>1, <2>2, <2>3
<1>3. QED
  BY <1>1, <1>2

LEMMA ConsumeStores ==
  ASSUME IInv, consume_io_int
  PROVE  /\ \A b \in Addr : b # IoNewPsw => mem'[b] = mem[b]
         /\ prefix'.on = prefix.on
         /\ prefix.on => mem' = mem /\ prefix'.page[IoNewPsw] = Firmware
<1>1. StoreLow({IoNewPsw})
  BY DEF consume_io_int
<1>2. /\ \A b \in Addr : b \notin {IoNewPsw} => mem'[b] = mem[b]
      /\ prefix' = [on |-> prefix.on, page |-> prefix'.page]
      /\ prefix.on => /\ mem' = mem
                      /\ \A b \in LowWords :
                           prefix'.page[b] = IF b \in {IoNewPsw} THEN Firmware
                                             ELSE prefix.page[b]
  BY <1>1, StoreLowKeeps, Zenon
<1>3. IoNewPsw \in LowWords
  BY DEF LowWords
<1>4. prefix'.on = prefix.on
  BY <1>2
<1>5. QED
  BY <1>2, <1>3, <1>4

LEMMA InterruptStores ==
  ASSUME IInv, IoInterrupt
  PROVE  /\ \A b \in Addr \ {SubchannelId, IoOldPsw} : mem'[b] = mem[b]
         /\ prefix'.on = prefix.on
         /\ prefix.on => mem' = mem /\ prefix'.page[IoNewPsw] = prefix.page[IoNewPsw]
<1>1. StoreLow({SubchannelId, IoOldPsw})
  BY DEF IoInterrupt
<1>2. /\ \A b \in Addr : b \notin {SubchannelId, IoOldPsw} => mem'[b] = mem[b]
      /\ prefix' = [on |-> prefix.on, page |-> prefix'.page]
      /\ prefix.on => /\ mem' = mem
                      /\ \A b \in LowWords :
                           prefix'.page[b] = IF b \in {SubchannelId, IoOldPsw}
                                             THEN Firmware ELSE prefix.page[b]
  BY <1>1, StoreLowKeeps, Zenon
<1>3. IoNewPsw \in LowWords /\ IoNewPsw \notin {SubchannelId, IoOldPsw}
  BY Apart DEF LowWords
<1>4. prefix'.on = prefix.on
  BY <1>2
<1>5. QED
  BY <1>2, <1>3, <1>4

LEMMA ConsumeKeeps == ASSUME IInv, consume_io_int PROVE IInv'
<1> DEFINE Effect ==
      /\ Memory(mem')
      /\ prefix' = [on |-> prefix.on, page |-> prefix'.page]
      /\ prefix.on => /\ prefix'.page = [b \in LowWords |-> prefix'.page[b]]
                      /\ \A b \in LowWords : Word(prefix'.page[b])
      /\ \A b \in Addr : b # IoNewPsw => mem'[b] = mem[b]
<1>1. Effect
  BY StoreLowKeeps DEF consume_io_int
<1>2. chan' = [chan EXCEPT !.waited = TRUE]
      /\ UNCHANGED <<disk, pc, track, ipl2_addr, next, jump, loaded>>
  BY DEF consume_io_int
<1>3. chan' = [at |-> chan.at, fetched |-> chan.fetched, waited |-> TRUE]
  BY <1>2 DEF IInv, Shape
<1>4. prefix'.on = prefix.on
  BY <1>1
<1>5. Shape'
  BY <1>1, <1>2, <1>3, <1>4 DEF IInv, Shape
<1>6. Place'
  BY <1>2, <1>3, <1>4 DEF IInv, Place
<1>7. Kept'
  BY <1>1, <1>2 DEF IInv, Kept, Same
<1>8. QED
  BY <1>5, <1>6, <1>7 DEF IInv

LEMMA InterruptKeeps == ASSUME IInv, IoInterrupt PROVE IInv'
<1> DEFINE Effect ==
      /\ Memory(mem')
      /\ prefix' = [on |-> prefix.on, page |-> prefix'.page]
      /\ prefix.on => /\ prefix'.page = [b \in LowWords |-> prefix'.page[b]]
                      /\ \A b \in LowWords : Word(prefix'.page[b])
      /\ \A b \in Addr \ {SubchannelId, IoOldPsw} : mem'[b] = mem[b]
<1>1. Effect
  BY StoreLowKeeps DEF IoInterrupt
<1>2. /\ chan.at = End /\ chan' = [chan EXCEPT !.at = Over]
      /\ pc' \in {pc, "wild"}
      /\ UNCHANGED <<disk, track, ipl2_addr, next, jump, loaded>>
  BY DEF IoInterrupt
<1>3. chan' = [at |-> Over, fetched |-> chan.fetched, waited |-> chan.waited]
  BY <1>2 DEF IInv, Shape
<1>4. prefix'.on = prefix.on
  BY <1>1
<1>5. Shape'
  BY <1>1, <1>2, <1>3, <1>4 DEF IInv, Shape
<1>6. Place'
  BY <1>2, <1>3, <1>4 DEF IInv, Place, CanRun, Idle, End, Over
<1>7. Kept'
  BY <1>1, <1>2, Addresses DEF IInv, Kept, Same
<1>8. QED
  BY <1>5, <1>6, <1>7 DEF IInv

(* What a CCW does to memory and to what is known of the track.            *)
LEMMA ExecuteEffect ==
  ASSUME IInv, ExecuteCcw
  PROVE  /\ Channel!IsCcw(chan.fetched, chan.at)
         /\ chan.at \in Addr
         /\ \/ UNCHANGED <<mem, loaded>>
            \/ \E r : ReadRecord(chan.fetched[chan.at], r)
         /\ track' \in [pos : Nat, known : BOOLEAN]
<1> DEFINE c == chan.fetched[chan.at]
<1>1. Channel!IsCcw(chan.fetched, chan.at) /\ chan.at \in Addr
  BY DEF ExecuteCcw, Channel!IsCcw, IInv, Shape, Memory
<1>2. c.kind = "ccw" /\ c.rec \in Nat
  BY <1>1 DEF Channel!IsCcw, IInv, Shape, Memory, Word
<1>3. DOMAIN disk.records \subseteq Nat /\ 1 \in Nat
  BY DiskAssumption DEF IInv, Shape
<1>4. ASSUME NEW r \in Nat, ReadRecord(c, r)
      PROVE  track' \in [pos : Nat, known : BOOLEAN]
  BY <1>4 DEF ReadRecord
<1>5. track \in [pos : Nat, known : BOOLEAN]
  BY DEF IInv, Shape
<1>6. CASE ReadRecord(c, 1)
  BY <1>1, <1>3, <1>4, <1>6
<1>7. CASE \E r \in IF track.known THEN {track.pos} ELSE DOMAIN disk.records :
             ReadRecord(c, r)
  <2>1. PICK r \in Nat : ReadRecord(c, r)
    BY <1>3, <1>5, <1>7
  <2>2. QED
    BY <1>1, <1>4, <2>1
<1>8. CASE track' = [pos |-> c.rec, known |-> TRUE] /\ UNCHANGED <<mem, loaded>>
  BY <1>1, <1>2, <1>8
<1>9. CASE UNCHANGED <<mem, loaded, track>>
  BY <1>1, <1>5, <1>9
<1>10. QED
  BY <1>6, <1>7, <1>8, <1>9 DEF ExecuteCcw

LEMMA ReadKeepsMemory ==
  ASSUME IInv, NEW c, NEW r, ReadRecord(c, r)
  PROVE  Memory(mem') /\ Memory(loaded')
BY RecordsAreWords, WriteIsMemory DEF ReadRecord, IInv, Shape

LEMMA AfterIsAddress ==
  ASSUME NEW m, Memory(m), NEW a \in Addr, NEW c
  PROVE  Channel!After(c, m, a) \in Nat
<1>1. \A b \in Nat : Channel!Follow(m, b) \in Nat
  BY DEF Channel!Follow, Channel!IsTic, Channel!IsCcw, Memory, Word
<1>2. a + 1 \in Nat /\ a + 2 \in Nat
  BY DEF Addr
<1>3. QED
  BY <1>1, <1>2 DEF Channel!After

LEMMA ExecuteKeeps == ASSUME IInv, ExecuteCcw PROVE IInv'
<1> DEFINE c == chan.fetched[chan.at]
<1>1. Memory(mem') /\ Memory(loaded')
  BY ExecuteEffect, ReadKeepsMemory DEF IInv, Shape
<1>2. /\ chan' = [chan EXCEPT !.at = IF c.chain
                          THEN Channel!After(c, chan.fetched, chan.at) ELSE End]
      /\ UNCHANGED <<disk, pc, prefix, ipl2_addr, next, jump>>
  BY DEF ExecuteCcw
<1>3. Channel!After(c, chan.fetched, chan.at) \in Nat
  BY ExecuteEffect, AfterIsAddress DEF IInv, Shape
<1>4. /\ chan'.at \in Nat \cup {End} /\ chan'.fetched = chan.fetched
      /\ chan' = [at |-> chan'.at, fetched |-> chan'.fetched,
                  waited |-> chan'.waited]
  BY <1>2, <1>3 DEF IInv, Shape
<1>5. Shape'
  BY <1>1, <1>2, <1>4, ExecuteEffect DEF IInv, Shape
<1>6. Place'
  BY <1>2, <1>4, ExecuteEffect, Addresses
     DEF IInv, Place, CanRun, Idle, End, Over
<1>7. Kept'
  <2>1. CASE UNCHANGED <<mem, loaded>>
    BY <2>1 DEF IInv, Kept, Same
  <2>2. ASSUME NEW r, ReadRecord(c, r) PROVE Kept'
    BY <2>2, WriteKeepsSame DEF ReadRecord, IInv, Shape, Kept, Same
  <2>3. QED
    BY <2>1, <2>2, ExecuteEffect
<1>8. QED
  BY <1>5, <1>6, <1>7 DEF IInv

LEMMA GiveUpKeeps == ASSUME IInv, ProgramCheck \/ DeviceError PROVE IInv'
<1>1. Running /\ pc' \in {"panic", "ioerror"} /\ chan' = [chan EXCEPT !.at = Over]
      /\ UNCHANGED <<disk, mem, prefix, track, ipl2_addr, next, jump, loaded>>
  BY DEF ProgramCheck, DeviceError
<1>2. Shape'
  BY <1>1 DEF IInv, Shape
<1>3. Place'
  BY <1>1 DEF IInv, Shape, Place, CanRun, Running, Idle, Over
<1>4. Kept'
  BY <1>1 DEF IInv, Kept, Same
<1>5. QED
  BY <1>2, <1>3, <1>4 DEF IInv

(* Storing words of the low core only.                                     *)
LEMMA LowStoreKeeps ==
  ASSUME Kept, UNCHANGED loaded,
         \A a \in Addr \ (Scratch \cup {0, IoOldPsw, IoNewPsw}) : mem'[a] = mem[a]
  PROVE  Kept'
BY DEF Kept, Same

LEMMA MakeReadiplKeeps == ASSUME IInv, make_readipl PROVE IInv'
<1>1. Memory(mem')
  <2>1. Word(CCW("READ_IPL", 0, FALSE))
    BY DEF Word, CCW
  <2>2. mem' = [mem EXCEPT ![0] = CCW("READ_IPL", 0, FALSE)] /\ Memory(mem)
    BY DEF make_readipl, IInv, Shape
  <2>3. QED
    BY <2>1, <2>2, StoreIsMemory
<1>2. /\ chan' = [at |-> 0, fetched |-> mem', waited |-> FALSE]
      /\ track' = [track EXCEPT !.known = FALSE]
      /\ pc = "make_readipl" /\ pc' = "readipl"
      /\ UNCHANGED <<disk, prefix, ipl2_addr, next, jump, loaded>>
  BY DEF make_readipl, Start
<1>3. Shape'
  BY <1>1, <1>2 DEF IInv, Shape
<1>4. Place'
  BY <1>2 DEF IInv, Place, CanRun, Idle
<1>5. \A a \in Addr : a # 0 => mem'[a] = mem[a]
  BY DEF make_readipl, IInv, Shape, Memory
<1>6. Kept'
  BY <1>2, <1>5, LowStoreKeeps DEF IInv
<1>7. QED
  BY <1>3, <1>4, <1>6 DEF IInv

(* Storing the seven words of IPL1.                                        *)
StoreIpl1(m, w1, w2, w3, w4, w5, w6, w7) ==
  [m EXCEPT ![1] = w1, ![2] = w2, ![3] = w3, ![4] = w4, ![5] = w5, ![6] = w6,
            ![7] = w7]

LEMMA SevenStores ==
  ASSUME NEW m, Memory(m),
         NEW w1, NEW w2, NEW w3, NEW w4, NEW w5, NEW w6, NEW w7,
         Word(w1), Word(w2), Word(w3), Word(w4), Word(w5), Word(w6), Word(w7)
  PROVE  LET f == StoreIpl1(m, w1, w2, w3, w4, w5, w6, w7)
         IN /\ Memory(f) /\ f[1] = w1 /\ f[2] = w2 /\ f[3] = w3 /\ f[4] = w4
            /\ \A a \in Addr \ 1..7 : f[a] = m[a]
<1> DEFINE f == StoreIpl1(m, w1, w2, w3, w4, w5, w6, w7)
<1> DEFINE f1 == [m EXCEPT ![1] = w1]  f2 == [f1 EXCEPT ![2] = w2]
           f3 == [f2 EXCEPT ![3] = w3] f4 == [f3 EXCEPT ![4] = w4]
           f5 == [f4 EXCEPT ![5] = w5] f6 == [f5 EXCEPT ![6] = w6]
           f7 == [f6 EXCEPT ![7] = w7]
<1>0. /\ {1, 2, 3, 4, 5, 6, 7} \subseteq Addr
      /\ \A a \in Addr \ 1..7 : a \notin {1, 2, 3, 4, 5, 6, 7}
  BY Addresses
<1>1. Memory(f1) /\ \A a \in Addr : f1[a] = IF a = 1 THEN w1 ELSE m[a]
  BY StoreIsMemory DEF Memory
<1>2. Memory(f2) /\ \A a \in Addr : f2[a] = IF a = 2 THEN w2 ELSE f1[a]
  <2> HIDE DEF f1
  <2>1. QED BY <1>1, StoreIsMemory DEF Memory
<1>3. Memory(f3) /\ \A a \in Addr : f3[a] = IF a = 3 THEN w3 ELSE f2[a]
  <2> HIDE DEF f2
  <2>1. QED BY <1>2, StoreIsMemory DEF Memory
<1>4. Memory(f4) /\ \A a \in Addr : f4[a] = IF a = 4 THEN w4 ELSE f3[a]
  <2> HIDE DEF f3
  <2>1. QED BY <1>3, StoreIsMemory DEF Memory
<1>5. Memory(f5) /\ \A a \in Addr : f5[a] = IF a = 5 THEN w5 ELSE f4[a]
  <2> HIDE DEF f4
  <2>1. QED BY <1>4, StoreIsMemory DEF Memory
<1>6. Memory(f6) /\ \A a \in Addr : f6[a] = IF a = 6 THEN w6 ELSE f5[a]
  <2> HIDE DEF f5
  <2>1. QED BY <1>5, StoreIsMemory DEF Memory
<1>7. Memory(f7) /\ \A a \in Addr : f7[a] = IF a = 7 THEN w7 ELSE f6[a]
  <2> HIDE DEF f6
  <2>1. QED BY <1>6, StoreIsMemory DEF Memory
<1>8. f = f7
  BY DEF StoreIpl1
<1> HIDE DEF f1, f2, f3, f4, f5, f6, f7, f
<1>9. \A a \in Addr : f[a] = IF a = 7 THEN w7 ELSE IF a = 6 THEN w6
         ELSE IF a = 5 THEN w5 ELSE IF a = 4 THEN w4 ELSE IF a = 3 THEN w3
         ELSE IF a = 2 THEN w2 ELSE IF a = 1 THEN w1 ELSE m[a]
  BY <1>1, <1>2, <1>3, <1>4, <1>5, <1>6, <1>7, <1>8
<1>10. f[1] = w1 /\ f[2] = w2 /\ f[3] = w3 /\ f[4] = w4
  BY <1>0, <1>9
<1>11. \A a \in Addr \ 1..7 : f[a] = m[a]
  BY <1>0, <1>9
<1>12. Memory(f)
  BY <1>7, <1>8
<1>13. QED
  BY <1>10, <1>11, <1>12 DEF f

(* IPL1 with its two CCWs moved up.                                        *)
LEMMA FixupIsMemory ==
  ASSUME NEW m, Memory(m), Channel!IsCcw(m, 1), Channel!IsTic(m, 2)
  PROVE  /\ Memory(ipl1_fixup(m))
         /\ ipl1_fixup(m)[1] = CCW("SEEK", 6, TRUE)
         /\ ipl1_fixup(m)[2] = [CCW("SEARCH", 7, TRUE) EXCEPT !.rec = 2]
         /\ ipl1_fixup(m)[3] = CCW("TIC", 2, FALSE)
         /\ ipl1_fixup(m)[4] = Unchained(m[1])
         /\ \A a \in Addr \ 1..7 : ipl1_fixup(m)[a] = m[a]
<1>1. Word(m[1]) /\ Word(m[2]) /\ m[1].kind = "ccw"
  BY Addresses DEF Memory, Channel!IsCcw
<1>2. /\ Word(CCW("SEEK", 6, TRUE)) /\ Word(CCW("TIC", 2, FALSE))
      /\ Word([CCW("SEARCH", 7, TRUE) EXCEPT !.rec = 2]) /\ Word(Firmware)
  BY ZeroIsWord DEF Word, CCW
<1>3. /\ Unchained(m[1]) = [m[1] EXCEPT !.chain = FALSE]
      /\ Word(Unchained(m[1]))
  BY <1>1, UnchainedIsWord
<1> DEFINE w4 == Unchained(m[1])
<1>4. ipl1_fixup(m) = [m EXCEPT ![1] = CCW("SEEK", 6, TRUE),
         ![2] = [CCW("SEARCH", 7, TRUE) EXCEPT !.rec = 2],
         ![3] = CCW("TIC", 2, FALSE), ![4] = w4, ![5] = m[2],
         ![6] = Firmware, ![7] = Firmware]
  BY <1>3 DEF ipl1_fixup
<1> DEFINE f == ipl1_fixup(m)
<1> HIDE DEF f, w4
<1>5. /\ Memory(f) /\ f[1] = CCW("SEEK", 6, TRUE)
      /\ f[2] = [CCW("SEARCH", 7, TRUE) EXCEPT !.rec = 2]
      /\ f[3] = CCW("TIC", 2, FALSE) /\ f[4] = w4
      /\ \A a \in Addr \ 1..7 : f[a] = m[a]
  <2> DEFINE u1 == CCW("SEEK", 6, TRUE)  u3 == CCW("TIC", 2, FALSE)
             u2 == [CCW("SEARCH", 7, TRUE) EXCEPT !.rec = 2]  u5 == m[2]
  <2>1. f = [m EXCEPT ![1] = u1, ![2] = u2, ![3] = u3, ![4] = w4, ![5] = u5,
                      ![6] = Firmware, ![7] = Firmware]
    BY <1>4 DEF f
  <2>2. Word(u1) /\ Word(u2) /\ Word(u3) /\ Word(w4) /\ Word(u5) /\ Word(Firmware)
    BY <1>1, <1>2, <1>3 DEF w4
  <2> HIDE DEF u1, u2, u3, u5
  <2>3. /\ Memory(f) /\ f[1] = u1 /\ f[2] = u2 /\ f[3] = u3 /\ f[4] = w4
        /\ \A a \in Addr \ 1..7 : f[a] = m[a]
    <3> DEFINE g == StoreIpl1(m, u1, u2, u3, w4, u5, Firmware, Firmware)
    <3>1. /\ Memory(g) /\ g[1] = u1 /\ g[2] = u2 /\ g[3] = u3 /\ g[4] = w4
          /\ \A a \in Addr \ 1..7 : g[a] = m[a]
      BY <2>2, SevenStores
    <3>2. f = g
      BY <2>1 DEF StoreIpl1
    <3> HIDE DEF g
    <3>3. QED
      BY <3>1, <3>2
  <2>4. QED
    BY <2>3 DEF u1, u2, u3
<1>6. QED
  BY <1>5 DEF f, w4

LEMMA RunIpl1Keeps == ASSUME IInv, RunIpl1 PROVE IInv'
<1>1. ipl2_addr' \in Nat
  BY Addresses DEF RunIpl1, read_ipl2_addr, IInv, Shape, Memory, Word
<1>2. CASE check_ipl1
  <2>1. /\ chan' = [at |-> 1, fetched |-> mem', waited |-> FALSE]
        /\ track' = [track EXCEPT !.known = FALSE]
        /\ mem' = ipl1_fixup(mem)
        /\ pc = "readipl" /\ pc' = "ipl1"
        /\ UNCHANGED <<disk, prefix, next, jump, loaded>>
    BY <1>2 DEF RunIpl1, Start
  <2>2. Memory(mem') /\ \A a \in Addr \ 1..7 : mem'[a] = mem[a]
    BY <1>2, <2>1, FixupIsMemory DEF check_ipl1, IInv, Shape
  <2>3. Shape'
    BY <1>1, <2>1, <2>2 DEF IInv, Shape
  <2>4. Place'
    BY <2>1 DEF IInv, Place, CanRun, Idle
  <2>5. Kept'
    BY <2>1, <2>2, LowStoreKeeps DEF IInv, Scratch
  <2>6. QED
    BY <2>3, <2>4, <2>5 DEF IInv
<1>3. CASE ~ check_ipl1
  <2>1. /\ pc = "readipl" /\ chan.at = Over /\ pc' = "panic"
        /\ UNCHANGED <<disk, mem, chan, track, prefix, next, jump, loaded>>
    BY <1>3 DEF RunIpl1
  <2>2. Shape'
    BY <1>1, <2>1 DEF IInv, Shape
  <2>3. Place'
    BY <2>1 DEF IInv, Place, Idle, Over
  <2>4. Kept'
    BY <2>1 DEF IInv, Kept, Same
  <2>5. QED
    BY <2>2, <2>3, <2>4 DEF IInv
<1>4. QED
  BY <1>2, <1>3

LEMMA CheckIpl2Keeps == ASSUME IInv, check_ipl2 PROVE IInv'
<1>1. /\ pc = "ipl1" /\ chan.at = Over /\ pc' \in {"ipl2", "panic"}
      /\ next' = [has |-> TRUE, cpa |-> ipl2_addr]
      /\ UNCHANGED <<disk, mem, prefix, chan, track, ipl2_addr, jump, loaded>>
  BY DEF check_ipl2
<1>2. Shape'
  BY <1>1 DEF IInv, Shape
<1>3. Place'
  BY <1>1 DEF IInv, Place, CanRun, Idle, Over
<1>4. Kept'
  BY <1>1 DEF IInv, Kept, Same
<1>5. QED
  BY <1>2, <1>3, <1>4 DEF IInv

(* The cut is at a chained READ of the memory it is made in.               *)
LEMMA CutIsRead ==
  ASSUME NEW m, NEW cpa, dynamic_cp_fixup(m, cpa) # NoCut
  PROVE  LET cut == dynamic_cp_fixup(m, cpa)
         IN cut \in Addr /\ cut >= cpa /\ CutsAt(m, cpa, cut)
BY DEF dynamic_cp_fixup

(* What the firmware does to memory before it starts a piece.              *)
LEMMA PieceEffect ==
  ASSUME IInv, RunPiece
  PROVE  LET cut == dynamic_cp_fixup(mem, next.cpa)
         IN /\ Memory(mem')
            /\ \A a \in Addr : mem'[a] = IF a \in ConsoleWords THEN Firmware
                                        ELSE IF a = cut THEN Unchained(mem[a])
                                        ELSE mem[a]
            /\ cut # NoCut => /\ next' = [has |-> TRUE, cpa |-> mem[cut + 1].cda]
                              /\ cut \in Addr /\ cut >= next.cpa
                              /\ CutsAt(mem, next.cpa, cut)
            /\ cut = NoCut => next' = [has |-> FALSE, cpa |-> next.cpa]
            /\ next' \in [has : BOOLEAN, cpa : Nat]
<1> DEFINE cut == dynamic_cp_fixup(mem, next.cpa)
<1>1. Memory(mem)
  BY DEF IInv, Shape
<1>2. next \in [has : BOOLEAN, cpa : Nat] /\ NoCut \notin Addr
  BY DEF IInv, Shape, NoCut, Addr
<1>3. CASE cut = NoCut
  <2>1. mem' = Jump!Store(mem, ConsoleWords) /\ next' = [next EXCEPT !.has = FALSE]
    BY <1>3 DEF RunPiece, Jump!sclp_print
  <2>2. next' = [has |-> FALSE, cpa |-> next.cpa]
    BY <1>2, <2>1
  <2>3. /\ Memory(mem')
        /\ \A a \in Addr : mem'[a] = IF a \in ConsoleWords THEN Firmware ELSE mem[a]
    <3> HIDE DEF cut
    <3>1. QED
      BY <1>1, <2>1, StoreIs
  <2>4. QED
    BY <1>2, <1>3, <2>2, <2>3
<1>4. CASE cut # NoCut
  <2> DEFINE m == [mem EXCEPT ![cut].chain = FALSE]
  <2>1. /\ mem' = Jump!Store(m, ConsoleWords)
        /\ next' = [has |-> TRUE, cpa |-> mem[cut + 1].cda]
    BY <1>4 DEF RunPiece, Jump!sclp_print, tic_ccw
  <2>2. cut \in Addr /\ cut >= next.cpa /\ CutsAt(mem, next.cpa, cut)
    BY <1>4, CutIsRead
  <2>3. mem[cut].kind = "ccw" /\ mem[cut + 1].cda \in Nat
    BY <2>2 DEF CutsAt, is_read_tic_ccw_chain, Channel!IsCcw, Channel!IsTic,
                IInv, Shape, Memory, Word
  <2>4. Word(mem[cut]) /\ [mem[cut] EXCEPT !.chain = FALSE] = Unchained(mem[cut])
        /\ Word(Unchained(mem[cut]))
    BY <1>1, <2>2, <2>3, UnchainedIsWord DEF Memory, Unchained
  <2>5. m = [mem EXCEPT ![cut] = Unchained(mem[cut])]
    BY <2>4
  <2>6. Memory(m) /\ \A a \in Addr : m[a] = IF a = cut THEN Unchained(mem[a])
                                                       ELSE mem[a]
    <3> HIDE DEF m, cut
    <3>1. QED
      BY <1>1, <2>2, <2>4, <2>5, StoreIsMemory DEF Memory
  <2> HIDE DEF m
  <2>7. QED
    BY <1>4, <2>1, <2>2, <2>3, <2>6, StoreIs
<1>5. QED
  BY <1>3, <1>4

LEMMA RunPieceKeeps == ASSUME IInv, RunPiece PROVE IInv'
<1> DEFINE cut == dynamic_cp_fixup(mem, next.cpa)
<1>1. /\ Memory(mem')
      /\ next' \in [has : BOOLEAN, cpa : Nat]
      /\ \A a \in Addr \ ConsoleWords : mem'[a] \in {mem[a], Unchained(mem[a])}
  <2> HIDE DEF cut
  <2>1. QED
    BY PieceEffect DEF cut
<1>2. /\ chan' = [at |-> next.cpa, fetched |-> mem', waited |-> FALSE]
      /\ track' = [track EXCEPT !.known = FALSE]
      /\ prefix' = [on |-> TRUE, page |-> [a \in LowWords |-> mem'[a]]]
      /\ pc = "ipl2" /\ pc' = "piece"
      /\ UNCHANGED <<disk, ipl2_addr, jump, loaded>>
  BY DEF RunPiece, Start, enable_prefixing, LowWords
<1>3. \A a \in LowWords : Word(mem'[a])
  BY <1>1, Addresses DEF Memory
<1>4. Shape'
  BY <1>1, <1>2, <1>3 DEF IInv, Shape
<1>5. Place'
  BY <1>2 DEF IInv, Shape, Place, CanRun, Idle
<1>6. Kept'
  <2> SUFFICES ASSUME NEW a \in Addr \ (Scratch \cup {0, IoOldPsw, IoNewPsw})
               PROVE  Same(mem', loaded', a)
    BY DEF Kept
  <2>1. Same(mem, loaded, a) /\ Word(loaded[a])
    BY DEF IInv, Kept, Shape, Memory
  <2>2. Unchained(Unchained(loaded[a])) = Unchained(loaded[a])
    BY <2>1, UnchainedIsWord
  <2>3. mem'[a] \in {mem[a], Unchained(mem[a])}
    BY <1>1 DEF Scratch
  <2>4. QED
    BY <1>2, <2>1, <2>2, <2>3 DEF Same
<1>7. QED
  BY <1>4, <1>5, <1>6 DEF IInv

LEMMA DisablePrefixKeeps == ASSUME IInv, disable_prefixing PROVE IInv'
<1>1. /\ pc = "piece" /\ chan.at = Over
      /\ prefix' = [prefix EXCEPT !.on = FALSE]
      /\ mem' = [mem EXCEPT ![SubchannelId] = Low(SubchannelId)]
      /\ pc' \in {"ipl2", "start"}
      /\ UNCHANGED <<disk, chan, track, ipl2_addr, next, jump, loaded>>
  BY DEF disable_prefixing
<1>2. Word(Low(SubchannelId))
  BY Addresses DEF Low, IInv, Shape, Memory, LowWords
<1>3. Memory(mem') /\ \A a \in Addr : a # SubchannelId => mem'[a] = mem[a]
  <2>1. Memory(mem)
    BY DEF IInv, Shape
  <2>2. QED
    BY <1>1, <1>2, <2>1, StoreIsMemory DEF Memory
<1>4. prefix' = [on |-> FALSE, page |-> prefix.page]
  BY <1>1 DEF IInv, Shape
<1>5. Shape'
  BY <1>1, <1>3, <1>4 DEF IInv, Shape
<1>6. Place'
  BY <1>1, <1>4 DEF IInv, Place, CanRun, Idle, Over
<1>7. Kept'
  BY <1>1, <1>3, LowStoreKeeps DEF IInv, Scratch
<1>8. QED
  BY <1>5, <1>6, <1>7 DEF IInv

(* The jump stores at 0 and the subchannel's word.                         *)
LEMMA StartGuestKeeps == ASSUME IInv, StartGuest PROVE IInv'
<1> DEFINE m == [mem EXCEPT ![0] = ForceZMode(@)]
<1>1. /\ pc = "start" /\ pc' = "jump"
      /\ Jump!jump_to_IPL_code(m, Jump!LowKernel(m))
      /\ UNCHANGED <<disk, prefix, chan, track, ipl2_addr, next, loaded>>
  BY DEF StartGuest
<1>2. Memory(m) /\ \A a \in Addr : a # 0 => m[a] = mem[a]
  <2>1. Memory(mem) /\ Word(mem[0])
    BY Addresses DEF IInv, Shape, Memory
  <2>2. m = [mem EXCEPT ![0] = ForceZMode(mem[0])]
    OBVIOUS
  <2>3. QED
    BY <2>1, <2>2, ForceZModeIsWord, StoreIsMemory DEF Memory
<1> HIDE DEF m
<1>3. Memory(mem') /\ \A a \in Addr \ ({0, SubchannelId} \cup ConsoleWords) :
                         mem'[a] = mem[a]
  <2>1. PICK w : /\ w \in {m[0], Jump!RESET_PSW}
                 /\ mem' = Jump!Store([m EXCEPT ![SubchannelId] = [kind |-> "schid"],
                                                ![0] = w], ConsoleWords)
    BY <1>1 DEF Jump!jump_to_IPL_code, Jump!sclp_print
  <2>2. Word(w) /\ Word([kind |-> "schid"])
    <3>1. Word(m[0])
      BY <1>2, Addresses DEF Memory
    <3>2. Word(Jump!RESET_PSW)
      BY DEF Word, Jump!RESET_PSW, Jump!PSW, Jump!JumpToIplAddr
    <3>3. Word([kind |-> "schid"])
      BY DEF Word
    <3>4. QED
      BY <2>1, <3>1, <3>2, <3>3
  <2> DEFINE m1 == [m EXCEPT ![SubchannelId] = [kind |-> "schid"]]
  <2>3. Memory(m1) /\ \A a \in Addr : a # SubchannelId => m1[a] = m[a]
    BY <1>2, <2>2, StoreIsMemory DEF Memory
  <2> DEFINE m2 == [m1 EXCEPT ![0] = w]
  <2>4. mem' = Jump!Store(m2, ConsoleWords)
    BY <2>1
  <2> HIDE DEF m1
  <2>5. Memory(m2) /\ \A a \in Addr : a # 0 => m2[a] = m1[a]
    BY <2>2, <2>3, StoreIsMemory DEF Memory
  <2> HIDE DEF m2
  <2>6. QED
    BY <1>2, <2>3, <2>4, <2>5, StoreIs
<1>4. Shape'
  <2>1. /\ jump' = [at |-> "reset", save |-> jump'.save,
                    ipl_continue |-> jump'.ipl_continue,
                    entered |-> Jump!NoWord]
        /\ jump'.save \in {m[0], Jump!NoWord}
    BY <1>1 DEF Jump!jump_to_IPL_code, Jump!JumpIdle
  <2>2. Word(jump'.save)
    BY <1>2, <2>1, Addresses DEF Memory, Word, Jump!NoWord
  <2>3. QED
    BY <1>1, <1>3, <2>1, <2>2 DEF IInv, Shape
<1>5. Place'
  BY <1>1 DEF IInv, Place, CanRun
<1>6. Kept'
  BY <1>1, <1>3, LowStoreKeeps DEF IInv, Scratch
<1>7. QED
  BY <1>4, <1>5, <1>6 DEF IInv

LEMMA EnteringKeeps == ASSUME IInv, Entering PROVE IInv'
<1>1. UNCHANGED <<disk, pc, prefix, chan, track, ipl2_addr, next, loaded>>
  BY DEF Entering
<1>2. /\ jump.at # "idle" /\ Memory(mem')
      /\ \A a \in Addr \ {0} : mem'[a] = mem[a]
  <2>1. Memory(mem)
    BY DEF IInv, Shape
  <2>2. CASE Jump!Reset
    BY <2>1, <2>2 DEF Jump!Reset
  <2>3. CASE Jump!jump_to_IPL_addr
    <3>1. jump.at # "idle" /\ mem' = [mem EXCEPT ![0] = jump.save]
      BY <2>3 DEF Jump!jump_to_IPL_addr
    <3>2. Word(jump.save)
      BY DEF IInv, Shape
    <3>3. QED
      BY <2>1, <3>1, <3>2, StoreIsMemory DEF Memory
  <2>4. QED
    BY <2>2, <2>3 DEF Entering, Jump!JumpNext
<1>3. Shape'
  <2>1. /\ jump' = [at |-> jump'.at, save |-> jump.save,
                    ipl_continue |-> jump.ipl_continue,
                    entered |-> jump'.entered]
    BY DEF Entering, Jump!JumpNext, Jump!Reset, Jump!jump_to_IPL_addr, IInv, Shape
  <2>2. QED
    BY <1>1, <1>2, <2>1 DEF IInv, Shape
<1>4. Place'
  BY <1>1, <1>2 DEF IInv, Place
<1>5. Kept'
  BY <1>1, <1>2, LowStoreKeeps DEF IInv
<1>6. QED
  BY <1>3, <1>4, <1>5 DEF IInv

LEMMA StepKeeps == ASSUME IInv, [Next]_vars PROVE IInv'
<1>1. CASE UNCHANGED vars
  BY <1>1 DEF vars, IInv, Shape, Place, Kept, Same
<1>2. CASE Next
  BY <1>2, MakeReadiplKeeps, RunIpl1Keeps, CheckIpl2Keeps, RunPieceKeeps,
     DisablePrefixKeeps, StartGuestKeeps, EnteringKeeps, ConsumeKeeps,
     ExecuteKeeps, InterruptKeeps, GiveUpKeeps DEF Next, Boot, Device
<1>3. QED
  BY <1>1, <1>2

LEMMA Invariance == Spec => []IInv
<1>1. Init => IInv
  BY InitIInv
<1>2. IInv /\ [Next]_vars => IInv'
  BY StepKeeps
<1>3. QED
  BY <1>1, <1>2, PTL DEF Spec

(* The channel's, the firmware's and the disk's state stay of their kinds, *)
(* and there is a prefix page only while a piece runs or was given up.     *)
THEOREM TypeCorrect == Spec => []TypeOK
<1>1. IInv => TypeOK
  BY DEF IInv, Shape, Place, Memory, TypeOK
<1>2. QED
  BY <1>1, Invariance, PTL

-----------------------------------------------------------------------------
(* What the guest finds.  The console's and the interrupts' words aside,   *)
(* memory is Kept; the PSWs of I/O interrupts are not the channel's before *)
(* there is a prefix, and the word at 0 is what was read until the jump.   *)

IoPsws == {IoOldPsw, IoNewPsw}
PswsKept == \A a \in IoPsws : loaded[a].kind # "zero" => Same(mem, loaded, a)

(* A PSW of the disk does not lead into the firmware.                      *)
DiskPsws == \A a \in Addr : loaded[a].kind = "psw" => loaded[a].addr \in Nat

ReadingIpl == pc = "readipl" /\ Running =>
                chan.at = 0 /\ chan.fetched[0] = CCW("READ_IPL", 0, FALSE)
ZeroKept == pc \in {"ipl1", "ipl2", "piece", "start"}
              \/ (pc = "readipl" /\ ~ Running) => mem[0] = loaded[0]

Linux == loaded[S390EP].kind = "S390EP"
Leaving ==
  /\ jump.at = "reset" =>
       IF Linux THEN /\ mem[0] = Jump!RESET_PSW
                     /\ jump.save = ForceZMode(loaded[0])
                     /\ jump.ipl_continue = KERN_IMAGE_START
                ELSE mem[0] = ForceZMode(loaded[0])
  /\ jump.at = "jump_to_IPL_addr" =>
       /\ Linux /\ jump.save = ForceZMode(loaded[0])
       /\ jump.ipl_continue = KERN_IMAGE_START
  /\ jump.at = "guest" =>
       /\ mem[0] = ForceZMode(loaded[0])
       /\ IF Linux THEN jump.entered.addr = KERN_IMAGE_START
                   ELSE jump.entered = mem[0]

GInv == PswsKept /\ DiskPsws /\ ReadingIpl /\ ZeroKept /\ Leaving

LEMMA InitGInv == Init => GInv
<1> SUFFICES ASSUME Init PROVE GInv
  OBVIOUS
<1>1. /\ \A a \in Addr : loaded[a].kind = "zero"
      /\ IoPsws \subseteq Addr /\ S390EP \in Addr
  BY Addresses DEF Init, Zero, LowWords, IoPsws
<1>2. jump.at = "idle" /\ pc = "make_readipl"
  BY DEF Init, Jump!JumpIdle
<1>3. QED
  BY <1>1, <1>2 DEF GInv, PswsKept, DiskPsws, ReadingIpl, ZeroKept, Leaving

(* While the firmware is in a state where it does not run a program.       *)
LEMMA NotRunning ==
  ASSUME IInv
  PROVE  /\ Running => pc \in CanRun /\ jump = Jump!JumpIdle
         /\ chan.at = End => pc \in CanRun /\ jump = Jump!JumpIdle
         /\ prefix.on /\ pc \in CanRun => pc = "piece"
         /\ jump.at # "idle" => pc = "jump" /\ ~ Running
BY DEF IInv, Place, CanRun, Running, Idle, End, Over

(* A step that stores only other words and reads nothing.                  *)
LEMMA OtherStoresKeepG ==
  ASSUME IInv, GInv, UNCHANGED <<loaded, jump>>,
         jump.at # "idle" => UNCHANGED mem,
         mem'[0] = mem[0],
         \A a \in IoPsws : loaded[a].kind # "zero" => mem'[a] = mem[a],
         \/ pc' \in {"panic", "ioerror", "wild"}
         \/ pc' = pc /\ Running' = Running
         \/ pc = "piece" /\ pc' # "readipl",
         chan'.fetched = chan.fetched, chan'.at = chan.at \/ ~ Running'
  PROVE  GInv'
<1>1. PswsKept' /\ DiskPsws'
  BY DEF GInv, PswsKept, DiskPsws, Same
<1>2. ReadingIpl'
  BY DEF GInv, ReadingIpl, Running
<1>3. Leaving'
  BY DEF GInv, Leaving, Linux
<1>4. ZeroKept'
  BY DEF GInv, ZeroKept
<1>5. QED
  BY <1>1, <1>2, <1>3, <1>4 DEF GInv

LEMMA ConsumeKeepsG ==
  ASSUME IInv, GInv, LowCoreRespected, consume_io_int
  PROVE  GInv'
<1>1. /\ \A b \in Addr : b # IoNewPsw => mem'[b] = mem[b]
      /\ prefix.on => mem' = mem
  BY ConsumeStores
<1>2. /\ chan' = [chan EXCEPT !.waited = TRUE]
      /\ UNCHANGED <<disk, pc, track, ipl2_addr, next, jump, loaded>>
      /\ Running \/ chan.at = End
  BY DEF consume_io_int
<1>3. jump.at = "idle" /\ pc \in CanRun
  BY <1>2, NotRunning DEF Jump!JumpIdle
<1>4. prefix.on <=> pc = "piece"
  BY <1>3, NotRunning DEF IInv, Place
<1>5. \A a \in IoPsws : loaded[a].kind # "zero" => mem'[a] = mem[a]
  BY <1>1, <1>3, <1>4 DEF LowCoreRespected, CanRun, IoPsws
<1>6. chan'.at = chan.at /\ chan'.fetched = chan.fetched
  BY <1>2 DEF IInv, Shape
<1>7. mem'[0] = mem[0]
  BY <1>1, Apart
<1>8. QED
  BY <1>2, <1>3, <1>5, <1>6, <1>7, OtherStoresKeepG DEF Running

LEMMA InterruptKeepsG ==
  ASSUME IInv, GInv, LowCoreRespected, IoInterrupt
  PROVE  GInv'
<1>1. /\ \A b \in Addr \ {SubchannelId, IoOldPsw} : mem'[b] = mem[b]
      /\ prefix.on => mem' = mem
  BY InterruptStores
<1>2. /\ chan.at = End /\ chan' = [chan EXCEPT !.at = Over]
      /\ pc' \in {pc, "wild"}
      /\ UNCHANGED <<disk, track, ipl2_addr, next, jump, loaded>>
  BY DEF IoInterrupt
<1>3. jump.at = "idle" /\ pc \in CanRun
  BY <1>2, NotRunning DEF Jump!JumpIdle
<1>4. chan'.at = Over /\ chan'.fetched = chan.fetched
  BY <1>2 DEF IInv, Shape
<1>5. /\ mem'[0] = mem[0]
      /\ \A a \in IoPsws : loaded[a].kind # "zero" => mem'[a] = mem[a]
  <2>1. mem'[0] = mem[0] /\ mem'[IoNewPsw] = mem[IoNewPsw]
    BY <1>1, Apart
  <2>2. loaded[IoOldPsw].kind # "zero" => prefix.on
    BY <1>3 DEF LowCoreRespected, CanRun, IInv, Place
  <2>3. QED
    BY <1>1, <2>1, <2>2 DEF IoPsws
<1>6. Running = FALSE /\ Running' = FALSE
  BY <1>2, <1>4 DEF Running, End, Over
<1>7. \/ pc' \in {"panic", "ioerror", "wild"}
      \/ pc' = pc /\ Running' = Running
  BY <1>2, <1>6
<1>8. QED
  BY <1>2, <1>3, <1>4, <1>5, <1>6, <1>7, OtherStoresKeepG

LEMMA GiveUpKeepsG ==
  ASSUME IInv, GInv, ProgramCheck \/ DeviceError
  PROVE  GInv'
<1>1. Running /\ pc' \in {"panic", "ioerror"} /\ chan' = [chan EXCEPT !.at = Over]
      /\ UNCHANGED <<disk, mem, prefix, track, ipl2_addr, next, jump, loaded>>
  BY DEF ProgramCheck, DeviceError
<1>2. chan'.at = Over /\ chan'.fetched = chan.fetched
  BY <1>1 DEF IInv, Shape
<1>3. QED
  BY <1>1, <1>2, OtherStoresKeepG DEF Running, Over

LEMMA DisablePrefixKeepsG ==
  ASSUME IInv, GInv, disable_prefixing
  PROVE  GInv'
<1>1. /\ pc = "piece" /\ chan.at = Over
      /\ mem' = [mem EXCEPT ![SubchannelId] = Low(SubchannelId)]
      /\ pc' \in {"ipl2", "start"}
      /\ UNCHANGED <<disk, chan, track, ipl2_addr, next, jump, loaded>>
  BY DEF disable_prefixing
<1>2. mem'[0] = mem[0] /\ \A a \in IoPsws : mem'[a] = mem[a]
  BY <1>1, Apart DEF IoPsws, IInv, Shape, Memory
<1>3. jump.at = "idle"
  BY <1>1 DEF IInv, Place
<1>4. QED
  BY <1>1, <1>2, <1>3, OtherStoresKeepG

LEMMA MakeReadiplKeepsG ==
  ASSUME IInv, GInv, make_readipl
  PROVE  GInv'
<1>1. /\ chan' = [at |-> 0, fetched |-> mem', waited |-> FALSE]
      /\ mem' = [mem EXCEPT ![0] = CCW("READ_IPL", 0, FALSE)]
      /\ pc = "make_readipl" /\ pc' = "readipl"
      /\ UNCHANGED <<disk, prefix, ipl2_addr, next, jump, loaded>>
  BY DEF make_readipl, Start
<1>2. mem'[0] = CCW("READ_IPL", 0, FALSE) /\ \A a \in IoPsws : mem'[a] = mem[a]
  BY <1>1, Apart DEF IoPsws, IInv, Shape, Memory
<1>3. jump.at = "idle"
  BY <1>1 DEF IInv, Place, Jump!JumpIdle
<1>4. QED
  BY <1>1, <1>2, <1>3
     DEF GInv, PswsKept, DiskPsws, ReadingIpl, ZeroKept, Leaving, Same, Running

LEMMA RunIpl1KeepsG ==
  ASSUME IInv, GInv, RunIpl1
  PROVE  GInv'
<1>1. /\ pc = "readipl" /\ chan.at = Over /\ pc' \in {"ipl1", "panic"}
      /\ UNCHANGED <<disk, prefix, next, jump, loaded>>
  BY DEF RunIpl1
<1>2. mem'[0] = mem[0] /\ \A a \in IoPsws : mem'[a] = mem[a]
  <2>1. CASE check_ipl1
    <3>1. mem' = ipl1_fixup(mem)
      BY <2>1 DEF RunIpl1
    <3>2. \A a \in Addr \ 1..7 : mem'[a] = mem[a]
      BY <2>1, <3>1, FixupIsMemory DEF check_ipl1, IInv, Shape
    <3>3. 0 \in Addr \ 1..7 /\ IoPsws \subseteq Addr \ 1..7
      BY Apart DEF IoPsws
    <3>4. QED
      BY <3>2, <3>3
  <2>2. CASE ~ check_ipl1
    BY <2>2 DEF RunIpl1
  <2>3. QED
    BY <2>1, <2>2
<1>3. jump.at = "idle" /\ ~ Running
  BY <1>1 DEF IInv, Place, Jump!JumpIdle, Running, Over
<1>4. QED
  BY <1>1, <1>2, <1>3
     DEF GInv, PswsKept, DiskPsws, ReadingIpl, ZeroKept, Leaving, Same

LEMMA CheckIpl2KeepsG ==
  ASSUME IInv, GInv, check_ipl2
  PROVE  GInv'
BY DEF check_ipl2, IInv, Place, Jump!JumpIdle,
       GInv, PswsKept, DiskPsws, ReadingIpl, ZeroKept, Leaving, Same

LEMMA RunPieceKeepsG ==
  ASSUME IInv, GInv, LowCoreRespected, RunPiece
  PROVE  GInv'
<1> DEFINE cut == dynamic_cp_fixup(mem, next.cpa)
<1>1. \A a \in Addr \ ConsoleWords :
        mem'[a] = IF a = cut THEN Unchained(mem[a]) ELSE mem[a]
  <2> HIDE DEF cut
  <2>1. QED
    BY PieceEffect DEF cut
<1> HIDE DEF cut
<1>2. /\ pc = "ipl2" /\ pc' = "piece" /\ UNCHANGED <<disk, jump, loaded>>
  BY DEF RunPiece
<1>3. jump.at = "idle"
  BY <1>2 DEF IInv, Place, Jump!JumpIdle
<1>4. mem'[0] = mem[0]
  <2>1. mem[0] = loaded[0] /\ loaded[0].kind = "psw"
    BY <1>2 DEF GInv, ZeroKept, LowCoreRespected
  <2>2. QED
    BY <1>1, <2>1, Apart DEF Unchained
<1>5. PswsKept'
  <2> SUFFICES ASSUME NEW a \in IoPsws, loaded[a].kind # "zero"
               PROVE  Same(mem', loaded, a)
    BY <1>2 DEF PswsKept
  <2>1. mem'[a] \in {mem[a], Unchained(mem[a])} /\ Word(loaded[a])
    BY <1>1, Apart DEF IoPsws, IInv, Shape, Memory
  <2>2. Unchained(Unchained(loaded[a])) = Unchained(loaded[a])
    BY <2>1, UnchainedIsWord
  <2>3. QED
    BY <2>1, <2>2 DEF GInv, PswsKept, Same
<1>6. QED
  BY <1>2, <1>3, <1>4, <1>5 DEF GInv, DiskPsws, ReadingIpl, ZeroKept, Leaving

(* What one record makes of a word of both memories.                       *)
LEMMA ReadAt ==
  ASSUME IInv, NEW c, NEW r, ReadRecord(c, r), NEW a \in Addr
  PROVE  \/ mem'[a] = mem[a] /\ loaded'[a] = loaded[a]
         \/ /\ mem'[a] = loaded'[a]
            /\ loaded'[a].kind = "psw" => loaded'[a].addr \in Nat
<1> DEFINE ws == Channel!Record(r)
           i == a - c.cda + 1
<1>1. /\ mem'[a] = IF i \in DOMAIN ws THEN ws[i] ELSE mem[a]
      /\ loaded'[a] = IF i \in DOMAIN ws THEN ws[i] ELSE loaded[a]
  BY WriteAt DEF ReadRecord, IInv, Shape
<1>2. i \in DOMAIN ws => (ws[i].kind = "psw" => ws[i].addr \in Nat)
  BY DiskAssumption DEF Channel!Record, IInv, Shape
<1> HIDE DEF ws, i
<1>3. QED
  BY <1>1, <1>2

LEMMA ExecuteKeepsG ==
  ASSUME IInv, GInv, ExecuteCcw
  PROVE  GInv'
<1> DEFINE c == chan.fetched[chan.at]
<1>1. /\ UNCHANGED <<disk, pc, prefix, ipl2_addr, next, jump>>
      /\ chan' = [chan EXCEPT !.at = IF c.chain
                          THEN Channel!After(c, chan.fetched, chan.at) ELSE End]
  BY DEF ExecuteCcw
<1>2. chan.at \in Addr
  BY ExecuteEffect
<1>3. jump.at = "idle" /\ pc \in CanRun /\ Running
  BY <1>2, NotRunning, Addresses DEF Running, Jump!JumpIdle
<1>4. \A a \in Addr :
        \/ mem'[a] = mem[a] /\ loaded'[a] = loaded[a]
        \/ /\ mem'[a] = loaded'[a]
           /\ loaded'[a].kind = "psw" => loaded'[a].addr \in Nat
  BY ExecuteEffect, ReadAt
<1>5. PswsKept' /\ DiskPsws'
  BY <1>4, Apart DEF GInv, PswsKept, DiskPsws, Same, IoPsws
<1>6. ASSUME pc = "readipl" PROVE chan'.at = End /\ mem'[0] = loaded'[0]
  <2>1. chan.at = 0 /\ c = CCW("READ_IPL", 0, FALSE)
    BY <1>3, <1>6 DEF GInv, ReadingIpl
  <2>2. c.cmd = "READ_IPL" /\ c.chain = FALSE /\ c.cda = 0
    BY <2>1 DEF CCW
  <2>3. ReadRecord(c, 1)
    BY <2>2 DEF ExecuteCcw, Channel!Reads
  <2>4. 1 \in DOMAIN Channel!Record(1)
    BY DiskAssumption DEF IInv, Shape, Channel!Record
  <2>5. 0 - c.cda + 1 = 1
    BY <2>2
  <2>6. mem'[0] = Channel!Record(1)[1] /\ loaded'[0] = Channel!Record(1)[1]
    BY <2>3, <2>4, <2>5, WriteAt, Apart DEF ReadRecord, IInv, Shape
  <2>7. chan'.at = End
    BY <1>1, <2>2 DEF IInv, Shape
  <2>8. QED
    BY <2>6, <2>7
<1>7. ReadingIpl'
  BY <1>1, <1>6 DEF ReadingIpl, Running, End
<1>8. ZeroKept'
  <2>1. CASE pc = "readipl"
    BY <1>1, <1>6, <2>1 DEF ZeroKept
  <2>2. CASE pc # "readipl"
    BY <1>1, <1>4, <2>2, Apart DEF GInv, ZeroKept
  <2>3. QED
    BY <2>1, <2>2
<1>9. Leaving'
  BY <1>1, <1>3 DEF Leaving
<1>10. QED
  BY <1>5, <1>7, <1>8, <1>9 DEF GInv

LEMMA StartGuestKeepsG ==
  ASSUME IInv, GInv, LowCoreRespected, StartGuest
  PROVE  GInv'
<1> DEFINE z == ForceZMode(loaded[0])
           m == [mem EXCEPT ![0] = ForceZMode(mem[0])]
<1>1. /\ pc = "start" /\ pc' = "jump"
      /\ Jump!jump_to_IPL_code(m, Jump!LowKernel(m))
      /\ UNCHANGED <<disk, prefix, chan, track, ipl2_addr, next, loaded>>
  BY DEF StartGuest
<1>2. mem[0] = loaded[0] /\ loaded[0].kind = "psw"
  BY <1>1 DEF GInv, ZeroKept, LowCoreRespected
<1>3. m[0] = z /\ \A a \in Addr : a # 0 => m[a] = mem[a]
  BY <1>2, Apart DEF IInv, Shape, Memory
<1>4. z.kind = "psw" /\ z.ba = TRUE
  <2>1. Word(loaded[0])
    BY Apart DEF IInv, Shape, Memory
  <2>2. QED
    BY <1>2, <2>1 DEF ForceZMode, Word
<1>5. DOMAIN m = Addr
  BY DEF IInv, Shape, Memory
<1>6. m[S390EP].kind = loaded[S390EP].kind
  <2>1. S390EP \in Addr \ (Scratch \cup {0, IoOldPsw, IoNewPsw})
    BY Apart DEF Scratch
  <2>2. Same(mem, loaded, S390EP) /\ Word(loaded[S390EP])
    BY <2>1 DEF IInv, Kept, Shape, Memory
  <2>3. mem[S390EP].kind = loaded[S390EP].kind
    BY <2>2, UnchainedIsWord DEF Same
  <2>4. QED
    BY <1>3, <2>3, Apart
<1>7. Jump!LowKernel(m) = IF Linux THEN KERN_IMAGE_START ELSE 0
  BY <1>3, <1>4, <1>6 DEF Jump!LowKernel, Jump!HasResetBits, Linux
<1> DEFINE address == Jump!LowKernel(m)
<1> DEFINE m1 == [m EXCEPT ![SubchannelId] = [kind |-> "schid"],
                          ![0] = IF address # 0 THEN Jump!RESET_PSW ELSE m[0]]
<1>8. /\ mem' = Jump!Store(m1, ConsoleWords)
      /\ jump' = [Jump!JumpIdle EXCEPT !.at = "reset",
                              !.save = IF address # 0 THEN m[0] ELSE @,
                              !.ipl_continue = address]
  BY <1>1 DEF Jump!jump_to_IPL_code, Jump!sclp_print
<1> HIDE DEF m, address, z
<1>9. /\ mem'[0] = IF address # 0 THEN Jump!RESET_PSW ELSE z
      /\ \A a \in IoPsws : mem'[a] = m[a]
  <2>1. DOMAIN m1 = Addr
    BY <1>5
  <2>2. /\ m1[0] = IF address # 0 THEN Jump!RESET_PSW ELSE z
        /\ \A a \in IoPsws : m1[a] = m[a]
    BY <1>3, <1>5, Apart DEF IoPsws
  <2> HIDE DEF m1
  <2>3. \A a \in Addr \ ConsoleWords : mem'[a] = m1[a]
    BY <1>8, <2>1 DEF Jump!Store
  <2>4. QED
    BY <2>2, <2>3, Apart DEF IoPsws
<1>10. /\ jump'.at = "reset" /\ jump'.ipl_continue = address
       /\ address # 0 => jump'.save = z
  BY <1>3, <1>8 DEF Jump!JumpIdle
<1>11. address = IF Linux THEN KERN_IMAGE_START ELSE 0
  BY <1>7 DEF address
<1>12. Leaving'
  BY <1>1, <1>9, <1>10, <1>11, LowCoreAssumption DEF Leaving, Linux, z
<1>13. PswsKept' /\ DiskPsws'
  BY <1>1, <1>3, <1>9, Apart DEF GInv, PswsKept, DiskPsws, Same, IoPsws
<1>14. QED
  BY <1>1, <1>12, <1>13 DEF GInv, ReadingIpl, ZeroKept

LEMMA EnteringKeepsG ==
  ASSUME IInv, GInv, LowCoreRespected, Entering
  PROVE  GInv'
<1> DEFINE z == ForceZMode(loaded[0])
<1>1. UNCHANGED <<disk, pc, prefix, chan, track, ipl2_addr, next, loaded>>
  BY DEF Entering
<1>2. pc = "jump"
  <2>1. jump.at # "idle"
    BY DEF Entering, Jump!JumpNext, Jump!Reset, Jump!jump_to_IPL_addr
  <2>2. QED
    BY <2>1, NotRunning
<1>3. z.addr \in Nat
  <2>1. loaded[0].kind = "psw" /\ Word(loaded[0]) /\ loaded[0].addr \in Nat
    BY <1>2, Apart DEF LowCoreRespected, GInv, DiskPsws, IInv, Shape, Memory
  <2>2. QED
    BY <2>1 DEF ForceZMode, Word
<1>4. z # Jump!RESET_PSW
  BY <1>3 DEF Jump!RESET_PSW, Jump!PSW, Jump!JumpToIplAddr
<1> HIDE DEF z
<1>5. Leaving' /\ \A a \in IoPsws : mem'[a] = mem[a]
  <2>1. CASE Jump!Reset
    <3>1. jump.at = "reset" /\ UNCHANGED mem
      BY <2>1 DEF Jump!Reset
    <3>2. CASE Linux
      <4>1. mem[0] = Jump!RESET_PSW /\ jump.save = z
            /\ jump.ipl_continue = KERN_IMAGE_START
        BY <3>1, <3>2 DEF GInv, Leaving, z
      <4>2. jump' = [jump EXCEPT !.at = "jump_to_IPL_addr"]
        BY <2>1, <4>1 DEF Jump!Reset
      <4>3. /\ jump'.at = "jump_to_IPL_addr" /\ jump'.save = jump.save
            /\ jump'.ipl_continue = jump.ipl_continue
        BY <4>2 DEF IInv, Shape
      <4>4. QED
        BY <1>1, <3>1, <3>2, <4>1, <4>3 DEF Leaving, Linux, z
    <3>3. CASE ~ Linux
      <4>1. mem[0] = z
        BY <3>1, <3>3 DEF GInv, Leaving, z
      <4>2. jump' = [jump EXCEPT !.at = "guest", !.entered = mem[0]]
        BY <2>1, <1>4, <4>1 DEF Jump!Reset
      <4>3. jump'.at = "guest" /\ jump'.entered = mem[0]
        BY <4>2 DEF IInv, Shape
      <4>4. QED
        BY <1>1, <3>1, <3>3, <4>1, <4>3 DEF Leaving, Linux, z
    <3>4. QED
      BY <3>2, <3>3
  <2>2. CASE Jump!jump_to_IPL_addr
    <3>1. /\ jump.at = "jump_to_IPL_addr" /\ mem' = [mem EXCEPT ![0] = jump.save]
          /\ jump' = [jump EXCEPT !.at = "guest",
                 !.entered = Jump!PSW(jump.ipl_continue, TRUE, TRUE, TRUE)]
      BY <2>2 DEF Jump!jump_to_IPL_addr
    <3>2. Linux /\ jump.save = z /\ jump.ipl_continue = KERN_IMAGE_START
      BY <3>1 DEF GInv, Leaving, z
    <3>3. mem'[0] = z /\ \A a \in IoPsws : mem'[a] = mem[a]
      BY <3>1, <3>2, Apart DEF IoPsws, IInv, Shape, Memory
    <3>4. jump'.at = "guest" /\ jump'.entered.addr = KERN_IMAGE_START
      BY <3>1, <3>2 DEF IInv, Shape, Jump!PSW
    <3>5. QED
      BY <1>1, <3>2, <3>3, <3>4 DEF Leaving, Linux, z
  <2>3. QED
    BY <2>1, <2>2 DEF Entering, Jump!JumpNext
<1>6. PswsKept' /\ DiskPsws'
  BY <1>1, <1>5 DEF GInv, PswsKept, DiskPsws, Same
<1>7. QED
  BY <1>1, <1>2, <1>5, <1>6 DEF GInv, ReadingIpl, ZeroKept

LEMMA StepKeepsG ==
  ASSUME IInv, GInv, LowCoreRespected, [Next]_vars
  PROVE  GInv'
<1>1. CASE UNCHANGED vars
  BY <1>1 DEF vars, GInv, PswsKept, DiskPsws, ReadingIpl, ZeroKept, Leaving,
              Same, Running, Linux
<1>2. CASE Next
  BY <1>2, MakeReadiplKeepsG, RunIpl1KeepsG, CheckIpl2KeepsG, RunPieceKeepsG,
     DisablePrefixKeepsG, StartGuestKeepsG, EnteringKeepsG, ConsumeKeepsG,
     ExecuteKeepsG, InterruptKeepsG, GiveUpKeepsG DEF Next, Boot, Device
<1>3. QED
  BY <1>1, <1>2

(* As long as the program keeps off the low core (LowCoreRespected), the   *)
(* guest finds in memory what the channel has read, but for the words the  *)
(* firmware and interrupts use, and is entered where it is to be: the      *)
(* prefix page has kept the interrupts of every piece off the rest.        *)
THEOREM GuestMemory == Spec /\ []LowCoreRespected => []GuestMemoryKept
<1>1. Init => GInv
  BY InitGInv
<1>2. IInv /\ GInv /\ LowCoreRespected /\ [Next]_vars => GInv'
  BY StepKeepsG
<1>3. IInv /\ GInv => GuestMemoryKept
  <2> SUFFICES ASSUME IInv, GInv, jump.at = "guest" PROVE GuestMemoryKept
    BY DEF GuestMemoryKept
  <2>1. ASSUME NEW a \in Addr \ (Scratch \cup {0}), loaded[a].kind # "zero"
        PROVE  mem[a] \in {loaded[a], Unchained(loaded[a])}
    BY <2>1 DEF IInv, GInv, Kept, PswsKept, Same, IoPsws
  <2>2. QED
    BY <2>1 DEF GInv, Leaving, Linux, GuestMemoryKept
<1>4. QED
  BY <1>1, <1>2, <1>3, Invariance, PTL DEF Spec

-----------------------------------------------------------------------------
(* The refinement: what has been carried out of the program on the disk.   *)

Passing == IF track.known THEN track.pos ELSE Unknown

(* IPL1: it is read to 0, and its READ and TIC are what IPL2 is read with. *)
Ipl1Read ==
  pc = "readipl" /\ ~ Running =>
    /\ mem[1] = disk.records[1][2] /\ mem[2] = disk.records[1][3]
    /\ track.pos = 2
Ipl1Runs ==
  pc = "ipl1" =>
    /\ ipl2_addr = disk.records[1][3].cda
    /\ Running =>
         /\ chan.at \in {1, 2, 4} /\ track.pos = 2
         /\ chan.at = 4 => track.known
         /\ chan.fetched[1] = CCW("SEEK", 6, TRUE)
         /\ chan.fetched[2] = [CCW("SEARCH", 7, TRUE) EXCEPT !.rec = 2]
         /\ chan.fetched[4] = Unchained(disk.records[1][2])
         /\ disk.records[1][2].kind = "ccw" /\ disk.records[1][2].cmd = "READ"
         /\ Word(disk.records[1][2])

(* What was fetched is the rest of the piece up to e, where it is cut, and *)
(* the next piece begins where the READ that is cut off would have led.    *)
Fetched(e) ==
  \A a \in chan.at..e :
    chan.fetched[a] = IF a = e THEN Unchained(loaded[a]) ELSE loaded[a]
GoesOn(e) ==
  IF loaded[e].chain THEN next.has /\ next.cpa = loaded[e + 1].cda
                     ELSE ~ next.has
PieceRuns ==
  pc = "piece" /\ Running =>
    \E e \in Addr : Straight(loaded, chan.at, e, Passing) /\ Fetched(e) /\ GoesOn(e)

(* The firmware hears the interrupt it waits for: the new PSW it stored is *)
(* in the prefix page, where nothing is read to.                           *)
Heard == prefix.on /\ chan.waited => prefix.page[IoNewPsw] = Firmware

RInv == ReadingIpl /\ Ipl1Read /\ Ipl1Runs /\ PieceRuns /\ Heard

LEMMA InitRInv == Init => RInv
<1> SUFFICES ASSUME Init PROVE RInv
  OBVIOUS
<1>1. pc = "make_readipl" /\ ~ prefix.on
  BY DEF Init
<1>2. QED
  BY <1>1 DEF RInv, ReadingIpl, Ipl1Read, Ipl1Runs, PieceRuns, Heard

-----------------------------------------------------------------------------
(* Straight programs.                                                      *)

LEMMA RecordsAtSame ==
  ASSUME NEW m, NEW n, NEW f, NEW a, NEW p, \A b \in f..a - 1 : n[b] = m[b],
         f \in Nat, a \in Nat
  PROVE  RecordsAt(n, f, a, p) = RecordsAt(m, f, a, p)
<1>1. {b \in f..a - 1 : /\ n[b].cmd = "SEARCH"
                        /\ \A c \in b + 2..a - 1 : n[c].cmd \in Channel!Reads}
      = {b \in f..a - 1 : /\ m[b].cmd = "SEARCH"
                        /\ \A c \in b + 2..a - 1 : m[c].cmd \in Channel!Reads}
  <2>1. ASSUME NEW b \in f..a - 1, NEW c \in b + 2..a - 1
        PROVE  c \in f..a - 1
    OBVIOUS
  <2>2. QED
    BY <2>1
<1>2. (\A c \in f..a - 1 : n[c].cmd \in Channel!Reads)
        <=> (\A c \in f..a - 1 : m[c].cmd \in Channel!Reads)
  OBVIOUS
<1> DEFINE B(x) == {b \in f..a - 1 : /\ x[b].cmd = "SEARCH"
                        /\ \A c \in b + 2..a - 1 : x[c].cmd \in Channel!Reads}
<1>3. \A b \in B(m) : m[b].rec = n[b].rec
  OBVIOUS
<1>4. {m[b].rec + (a - b - 2) : b \in B(m)} = {n[b].rec + (a - b - 2) : b \in B(n)}
  <2>1. B(m) = B(n)
    BY <1>1
  <2> HIDE DEF B
  <2>2. QED
    BY <1>3, <2>1
<1>5. QED
  BY <1>2, <1>4 DEF RecordsAt

(* What is stored elsewhere leaves a program as it is.                     *)
LEMMA StraightSame ==
  ASSUME NEW m, NEW n, Memory(m), Memory(n), NEW f \in Nat, NEW e \in Addr, NEW p,
         Straight(m, f, e, p), \A b \in f..e : n[b] = m[b],
         Channel!IsTic(m, e + 1) => Channel!IsTic(n, e + 1)
  PROVE  Straight(n, f, e, p)
<1>1. f <= e /\ e \in Nat /\ \A b \in f..e : b \in Addr /\ n[b] = m[b]
  <2>1. f <= e
    BY DEF Straight
  <2>2. \A b \in f..e : b \in Addr
    BY <2>1, LowCoreAssumption DEF Addr
  <2>3. QED
    BY <2>1, <2>2, Addresses
<1>2. DOMAIN m = Addr /\ DOMAIN n = Addr
  BY DEF Memory
<1>3. \A a \in f..e : Channel!IsCcw(n, a) /\ n[a].cmd # "READ_IPL"
  BY <1>1, <1>2 DEF Straight, Channel!IsCcw
<1>4. n[f].cmd # "TIC" /\ n[e].cmd \notin {"TIC", "SEARCH"}
  BY <1>1 DEF Straight
<1>5. \A a \in f..e : n[a].cmd = "SEARCH" =>
        /\ a + 2 <= e /\ n[a].chain
        /\ n[a + 1].cmd = "TIC" /\ n[a + 1].cda = a /\ n[a + 2].cmd # "TIC"
  <2> SUFFICES ASSUME NEW a \in f..e, n[a].cmd = "SEARCH"
               PROVE  /\ a + 2 <= e /\ n[a].chain
                      /\ n[a + 1].cmd = "TIC" /\ n[a + 1].cda = a
                      /\ n[a + 2].cmd # "TIC"
    OBVIOUS
  <2>1. /\ a + 2 <= e /\ m[a].chain
        /\ m[a + 1].cmd = "TIC" /\ m[a + 1].cda = a /\ m[a + 2].cmd # "TIC"
    BY <1>1 DEF Straight
  <2>2. a + 1 \in f..e /\ a + 2 \in f..e
    BY <1>1, <2>1
  <2>3. QED
    BY <1>1, <2>1, <2>2
<1>6. \A a \in f..e - 1 :
        /\ n[a + 1].cmd = "TIC" => n[a].cmd = "SEARCH"
        /\ n[a].cmd # "TIC" => n[a].chain
  <2> SUFFICES ASSUME NEW a \in f..e - 1
               PROVE  /\ n[a + 1].cmd = "TIC" => n[a].cmd = "SEARCH"
                      /\ n[a].cmd # "TIC" => n[a].chain
    OBVIOUS
  <2>1. a \in f..e /\ a + 1 \in f..e
    BY <1>1
  <2>2. QED
    BY <1>1, <2>1 DEF Straight
<1>7. \A a \in f..e : n[a].cmd \in Channel!Reads =>
        /\ RecordsAt(n, f, a, p) # {}
        /\ n[a].chain => \A r \in RecordsAt(n, f, a, p), b \in a + 1..e + 1 :
                           b - n[a].cda + 1 \notin DOMAIN Channel!Record(r)
  <2> SUFFICES ASSUME NEW a \in f..e, n[a].cmd \in Channel!Reads
               PROVE  /\ RecordsAt(n, f, a, p) # {}
                      /\ n[a].chain =>
                           \A r \in RecordsAt(n, f, a, p), b \in a + 1..e + 1 :
                             b - n[a].cda + 1 \notin DOMAIN Channel!Record(r)
    OBVIOUS
  <2>1. \A b \in f..a - 1 : n[b] = m[b]
    BY <1>1
  <2>2. RecordsAt(n, f, a, p) = RecordsAt(m, f, a, p)
    BY <2>1, RecordsAtSame
  <2>3. QED
    BY <1>1, <2>2 DEF Straight
<1>8. n[e].chain => n[e].cmd \in Channel!Reads /\ Channel!IsTic(n, e + 1)
  BY <1>1 DEF Straight
<1>9. QED
  BY <1>1, <1>3, <1>4, <1>5, <1>6, <1>7, <1>8 DEF Straight

(* What passes when the CCW at a has been carried out.                     *)
PassingAfter(m, a, p) ==
  IF m[a].cmd = "SEARCH" THEN m[a].rec
  ELSE IF m[a].cmd \in Channel!Reads THEN p + 1 ELSE p
Following(m, a) == IF m[a].cmd = "SEARCH" THEN a + 2 ELSE a + 1

LEMMA RecordsAtStep ==
  ASSUME NEW m, NEW f \in Nat, NEW e \in Nat, NEW p \in Nat \cup {Unknown},
         Straight(m, f, e, p), f < e,
         NEW a \in Following(m, f)..e, m[a].cmd \in Channel!Reads,
         \A b \in f..e : m[b].rec \in Nat
  PROVE  RecordsAt(m, Following(m, f), a, PassingAfter(m, f, p))
           = RecordsAt(m, f, a, p)
<1> DEFINE g == Following(m, f)
           q == PassingAfter(m, f, p)
           Reach(b) == /\ m[b].cmd = "SEARCH"
                       /\ \A c \in b + 2..a - 1 : m[c].cmd \in Channel!Reads
           All(b) == \A c \in b..a - 1 : m[c].cmd \in Channel!Reads
           S(b) == {m[d].rec + (a - d - 2) : d \in {d \in b..a - 1 : Reach(d)}}
           P(b, x) == IF x # Unknown /\ All(b) THEN {x + (a - b)} ELSE {}
<1>1. /\ RecordsAt(m, f, a, p) = S(f) \cup P(f, p)
      /\ RecordsAt(m, g, a, q) = S(g) \cup P(g, q)
  BY DEF RecordsAt
<1>2. g \in {f + 1, f + 2} /\ g \in Nat /\ f < a /\ a \in Nat /\ a <= e /\ g <= a
  BY DEF Following
<1>3. f \in f..a - 1 /\ \A b \in f..a - 1 : b \in f..e
  BY <1>2
<1>4. CASE m[f].cmd = "SEARCH"
  <2>1. g = f + 2 /\ q = m[f].rec /\ q \in Nat
    BY <1>3, <1>4 DEF Following, PassingAfter
  <2>2. m[f + 1].cmd = "TIC"
    BY <1>2, <1>4 DEF Straight
  <2>3. P(f, p) = {}
    BY <1>3, <1>4 DEF Channel!Reads
  <2>4. {d \in f..a - 1 : Reach(d)}
          = {d \in g..a - 1 : Reach(d)} \cup (IF Reach(f) THEN {f} ELSE {})
    <3>1. ~ Reach(f + 1)
      BY <2>2
    <3>2. \A d \in f..a - 1 : d \in g..a - 1 \/ d = f \/ d = f + 1
      BY <1>2, <2>1
    <3>3. \A d \in g..a - 1 : d \in f..a - 1
      BY <1>2
    <3> HIDE DEF Reach, g
    <3>4. QED
      BY <1>3, <3>1, <3>2, <3>3
  <2>5. Reach(f) <=> All(g)
    BY <1>4, <2>1
  <2>6. P(g, q) = IF Reach(f) THEN {m[f].rec + (a - f - 2)} ELSE {}
    <3>1. q # Unknown
      BY <2>1 DEF Unknown
    <3>2. q + (a - g) = m[f].rec + (a - f - 2)
      BY <1>2, <2>1
    <3> HIDE DEF Reach, All, g, q
    <3>3. QED
      BY <2>5, <3>1, <3>2
  <2>7. S(f) = S(g) \cup (IF Reach(f) THEN {m[f].rec + (a - f - 2)} ELSE {})
    <3> HIDE DEF Reach, g
    <3>1. QED
      BY <2>4
  <2> HIDE DEF S, P, Reach, All, g, q
  <2>8. QED
    BY <1>1, <2>3, <2>6, <2>7 DEF g, q
<1>5. CASE m[f].cmd # "SEARCH"
  <2>1. g = f + 1
    BY <1>5 DEF Following
  <2>2. {d \in f..a - 1 : Reach(d)} = {d \in g..a - 1 : Reach(d)}
    <3>1. ~ Reach(f)
      BY <1>5
    <3>2. \A d : d \in f..a - 1 <=> d \in g..a - 1 \/ d = f
      BY <1>2, <1>3, <2>1
    <3> HIDE DEF Reach, g
    <3>3. QED
      BY <3>1, <3>2
  <2>3. S(f) = S(g)
    <3> HIDE DEF Reach, g
    <3>1. QED
      BY <2>2
  <2>4. All(f) <=> m[f].cmd \in Channel!Reads /\ All(g)
    <3>1. \A d : d \in f..a - 1 <=> d \in g..a - 1 \/ d = f
      BY <1>2, <1>3, <2>1
    <3> HIDE DEF g
    <3>2. QED
      BY <3>1
  <2>5. CASE m[f].cmd \in Channel!Reads
    <3>1. q = p + 1 /\ (All(f) <=> All(g))
      BY <1>5, <2>4, <2>5 DEF PassingAfter
    <3>2. p # Unknown /\ q # Unknown /\ p + (a - f) = q + (a - g)
      <4>1. RecordsAt(m, f, f, p) # {}
        BY <2>5 DEF Straight
      <4>2. p # Unknown
        BY <4>1 DEF RecordsAt
      <4>3. QED
        BY <1>2, <2>1, <3>1, <4>2 DEF Unknown
    <3> HIDE DEF All, S, g, q
    <3>3. P(f, p) = P(g, q)
      BY <3>1, <3>2
    <3> HIDE DEF P
    <3>4. QED
      BY <1>1, <2>3, <3>3 DEF g, q
  <2>6. CASE m[f].cmd \notin Channel!Reads
    <3>1. P(f, p) = {}
      BY <2>4, <2>6
    <3>2. P(g, q) = {}
      <4>1. S(f) # {}
        <5>1. RecordsAt(m, f, a, p) # {}
          BY <1>2 DEF Straight
        <5> HIDE DEF S, P
        <5>2. QED
          BY <1>1, <3>1, <5>1
      <4>2. PICK d \in g..a - 1 : m[d].cmd = "SEARCH"
        <5> HIDE DEF g
        <5>1. QED
          BY <4>1, <2>2
      <4>3. ~ All(g)
        BY <4>2 DEF Channel!Reads
      <4> HIDE DEF All
      <4>4. QED
        BY <4>3
    <3> HIDE DEF S, P, All
    <3>3. QED
      BY <1>1, <2>3, <3>1, <3>2
  <2>7. QED
    BY <2>5, <2>6
<1>6. QED
  BY <1>4, <1>5

(* A straight program is one from every CCW of it on.                      *)
LEMMA StraightStep ==
  ASSUME NEW m, NEW f \in Nat, NEW e \in Nat, NEW p \in Nat \cup {Unknown},
         Straight(m, f, e, p), f < e, \A b \in f..e : m[b].rec \in Nat
  PROVE  /\ Following(m, f) \in f + 1..e
         /\ m[f].chain /\ m[Following(m, f)].cmd # "TIC"
         /\ Straight(m, Following(m, f), e, PassingAfter(m, f, p))
<1> DEFINE g == Following(m, f)
           q == PassingAfter(m, f, p)
<1>1. f \in f..e /\ f \in f..e - 1
  OBVIOUS
<1>2. g \in f + 1..e /\ g \in f..e /\ g \in Nat
  BY <1>1 DEF Following, Straight
<1>3. m[f].chain
  BY <1>1 DEF Straight
<1>4. m[g].cmd # "TIC"
  <2>1. CASE m[f].cmd = "SEARCH"
    BY <1>1, <2>1 DEF Following, Straight
  <2>2. CASE m[f].cmd # "SEARCH"
    BY <1>1, <2>2 DEF Following, Straight
  <2>3. QED
    BY <2>1, <2>2
<1>5. \A a \in g..e : a \in f..e /\ (a \in g..e - 1 => a \in f..e - 1)
  BY <1>2
<1>6. \A a \in g..e : m[a].cmd \in Channel!Reads =>
        RecordsAt(m, g, a, q) = RecordsAt(m, f, a, p)
  BY RecordsAtStep
<1> HIDE DEF g, q
<1>7. g <= e
  BY <1>2
<1>8. \A a \in g..e : Channel!IsCcw(m, a) /\ m[a].cmd # "READ_IPL"
  BY <1>5 DEF Straight
<1>9. \A a \in g..e : m[a].cmd = "SEARCH" =>
        /\ a + 2 <= e /\ m[a].chain
        /\ m[a + 1].cmd = "TIC" /\ m[a + 1].cda = a /\ m[a + 2].cmd # "TIC"
  BY <1>5 DEF Straight
<1>10. \A a \in g..e - 1 :
        /\ m[a + 1].cmd = "TIC" => m[a].cmd = "SEARCH"
        /\ m[a].cmd # "TIC" => m[a].chain
  <2>1. \A a \in g..e - 1 : a \in f..e - 1
    BY <1>2
  <2>2. QED
    BY <2>1 DEF Straight
<1>11. \A a \in g..e : m[a].cmd \in Channel!Reads =>
         /\ RecordsAt(m, g, a, q) # {}
         /\ m[a].chain => \A r \in RecordsAt(m, g, a, q), b \in a + 1..e + 1 :
                            b - m[a].cda + 1 \notin DOMAIN Channel!Record(r)
  BY <1>5, <1>6 DEF Straight
<1>12. /\ m[e].chain => m[e].cmd \in Channel!Reads /\ Channel!IsTic(m, e + 1)
       /\ m[e].cmd \notin {"TIC", "SEARCH"}
  BY DEF Straight
<1>13. Straight(m, g, e, q)
  BY <1>4, <1>7, <1>8, <1>9, <1>10, <1>11, <1>12 DEF Straight
<1>14. QED
  BY <1>2, <1>3, <1>4, <1>13 DEF g, q

(* Where the chain goes on.                                                *)
LEMMA StraightAfter ==
  ASSUME NEW m, Memory(m), NEW f \in Nat, NEW e \in Addr,
         NEW p \in Nat \cup {Unknown}, Straight(m, f, e, p), f < e,
         NEW n, Memory(n),
         n[Following(m, f)].cmd = m[Following(m, f)].cmd
  PROVE  Channel!After(m[f], n, f) = Following(m, f)
<1>1. e \in Nat /\ \A b \in f..e : m[b].rec \in Nat
  <2>1. \A b \in f..e : b \in Addr /\ m[b].kind = "ccw"
    BY DEF Straight, Channel!IsCcw, Memory
  <2>2. QED
    BY <2>1, Addresses DEF Memory, Word
<1>2. n[Following(m, f)].cmd # "TIC"
  BY <1>1, StraightStep
<1>3. QED
  BY <1>2 DEF Channel!After, Channel!Follow, Channel!IsTic, Following

-----------------------------------------------------------------------------
(* The cut of a straight program that was not cut before is at its end.    *)
LEMMA CutAtEnd ==
  ASSUME NEW m, NEW f \in Nat, NEW e \in Addr, NEW p, Memory(m),
         Straight(m, f, e, p)
  PROVE  dynamic_cp_fixup(m, f) = IF m[e].chain THEN e ELSE NoCut
<1>1. e \in f..e /\ e \in Nat /\ f <= e
  BY Addresses DEF Straight
<1>2. \A a \in f..e - 1 :
        ScanGoesOn(m, a) /\ ~ is_read_tic_ccw_chain(m, a)
  <2> SUFFICES ASSUME NEW a \in f..e - 1
               PROVE  ScanGoesOn(m, a) /\ ~ is_read_tic_ccw_chain(m, a)
    OBVIOUS
  <2>1. Channel!IsCcw(m, a)
    BY <1>1 DEF Straight
  <2>2. ~ is_read_tic_ccw_chain(m, a)
    BY <1>1 DEF Straight, is_read_tic_ccw_chain, Channel!IsTic, Channel!Reads
  <2>3. CASE m[a].cmd = "TIC"
    <3>1. a # f
      BY <2>3 DEF Straight
    <3>2. a - 1 \in f..e - 1 /\ (a - 1) + 1 = a
      BY <1>1, <3>1
    <3>3. m[a - 1].cmd = "SEARCH"
      BY <2>3, <3>2 DEF Straight
    <3>4. m[(a - 1) + 1].cda = a - 1
      BY <1>1, <3>2, <3>3 DEF Straight
    <3>5. QED
      BY <2>1, <2>2, <2>3, <3>2, <3>4 DEF ScanGoesOn, InlineTic
  <2>4. CASE m[a].cmd # "TIC"
    BY <2>1, <2>2, <2>4 DEF Straight, ScanGoesOn
  <2>5. QED
    BY <2>3, <2>4
<1>3. ~ ScanGoesOn(m, e)
  BY DEF Straight, ScanGoesOn, InlineTic, is_read_tic_ccw_chain
<1>4. CutsAt(m, f, e) <=> m[e].chain
  <2>1. Channel!IsCcw(m, e)
    BY <1>1 DEF Straight
  <2>2. m[e].chain => is_read_tic_ccw_chain(m, e)
    BY DEF Straight, is_read_tic_ccw_chain
  <2>3. m[e].chain \in BOOLEAN
    BY <2>1 DEF Memory, Word, Channel!IsCcw
  <2>4. CutsAt(m, f, e) => m[e].chain
    BY DEF CutsAt, is_read_tic_ccw_chain
  <2>5. m[e].chain => CutsAt(m, f, e)
    BY <1>2, <2>1, <2>2 DEF CutsAt
  <2>6. QED
    BY <2>4, <2>5
<1>5. \A a \in Addr : a >= f /\ CutsAt(m, f, a) => a = e
  <2> SUFFICES ASSUME NEW a \in Addr, a >= f, CutsAt(m, f, a), a # e PROVE FALSE
    OBVIOUS
  <2>1. a \in Nat
    BY Addresses
  <2>2. CASE a < e
    <3>1. a \in f..e - 1
      BY <1>1, <2>1, <2>2
    <3>2. QED
      BY <1>2, <3>1 DEF CutsAt
  <2>3. CASE a > e
    <3>1. e \in f..a - 1
      BY <1>1, <2>1, <2>3
    <3>2. QED
      BY <1>3, <3>1 DEF CutsAt
  <2>4. QED
    BY <1>1, <2>1, <2>2, <2>3
<1>6. CASE m[e].chain
  <2>1. e >= f /\ CutsAt(m, f, e)
    BY <1>1, <1>4, <1>6
  <2> DEFINE IsCut(a) == a >= f /\ CutsAt(m, f, a)
  <2>2. \E a \in Addr : IsCut(a)
    BY <2>1
  <2>3. (CHOOSE a \in Addr : IsCut(a)) \in Addr /\ IsCut(CHOOSE a \in Addr : IsCut(a))
    BY <2>2
  <2>4. (CHOOSE a \in Addr : IsCut(a)) = e
    BY <1>5, <2>3
  <2>5. QED
    BY <1>6, <2>2, <2>4 DEF dynamic_cp_fixup
<1>7. CASE ~ m[e].chain
  BY <1>4, <1>5, <1>7 DEF dynamic_cp_fixup
<1>8. QED
  BY <1>6, <1>7

-----------------------------------------------------------------------------
(* Every step is a step of the uncut program, or none.                     *)
Simulates == [Uncut!Next]_<<disk.records, loaded, UncutAt, track.pos>>

LEMMA Fails ==
  ASSUME pc' \in {"panic", "ioerror", "wild"}, UNCHANGED <<disk, loaded, track>>,
         UncutAt # Channel!Done
  PROVE  Simulates
<1>1. UncutAt' = Channel!Failed
  BY DEF UncutAt
<1>2. Channel!Failed = Uncut!Failed /\ Channel!Done = Uncut!Done
  BY DEF Channel!Failed, Uncut!Failed, Channel!Done, Uncut!Done
<1>3. QED
  BY <1>1, <1>2 DEF Simulates, Uncut!Next, Uncut!Fail

LEMMA Stutters ==
  ASSUME UNCHANGED <<disk, loaded, UncutAt>>, track'.pos = track.pos
  PROVE  Simulates
BY DEF Simulates

(* A step that reads nothing and leaves the program where it is.           *)
LEMMA OtherStoresKeepR ==
  ASSUME IInv, RInv, UNCHANGED <<disk, loaded, next, ipl2_addr, track>>,
         mem'[1] = mem[1], mem'[2] = mem[2], chan'.fetched = chan.fetched,
         \/ pc' = pc /\ chan'.at = chan.at
         \/ pc' = pc /\ ~ Running /\ ~ Running'
         \/ pc' \in {"panic", "ioerror", "wild", "ipl2", "start", "jump"},
         Heard'
  PROVE  RInv'
<1>1. Passing' = Passing
  BY DEF Passing
<1>2. chan'.at = chan.at => (Running' <=> Running)
  BY DEF Running
<1>3. ReadingIpl' /\ Ipl1Read' /\ Ipl1Runs'
  BY <1>2 DEF RInv, ReadingIpl, Ipl1Read, Ipl1Runs
<1>4. PieceRuns'
  <2>1. ASSUME pc' = pc, chan'.at = chan.at PROVE PieceRuns'
    <3> SUFFICES ASSUME pc = "piece", Running
                 PROVE  \E e \in Addr : (/\ Straight(loaded, chan.at, e, Passing)
                                        /\ Fetched(e) /\ GoesOn(e))'
      BY <1>2, <2>1 DEF PieceRuns
    <3>1. PICK e \in Addr : Straight(loaded, chan.at, e, Passing) /\ Fetched(e)
                            /\ GoesOn(e)
      BY DEF RInv, PieceRuns
    <3>2. Straight(loaded, chan.at, e, Passing)'
      BY <1>1, <2>1, <3>1 DEF Straight, Channel!Record, RecordsAt
    <3>3. Fetched(e)'
      BY <2>1, <3>1 DEF Fetched
    <3>4. GoesOn(e)'
      BY <3>1 DEF GoesOn
    <3>5. QED
      BY <3>2, <3>3, <3>4
  <2>2. QED
    BY <2>1 DEF PieceRuns
<1>5. QED
  BY <1>3, <1>4 DEF RInv

LEMMA MakeReadiplR ==
  ASSUME IInv, RInv, make_readipl
  PROVE  RInv' /\ Simulates
<1>1. /\ chan' = [at |-> 0, fetched |-> mem', waited |-> FALSE]
      /\ mem' = [mem EXCEPT ![0] = CCW("READ_IPL", 0, FALSE)]
      /\ track' = [track EXCEPT !.known = FALSE]
      /\ pc = "make_readipl" /\ pc' = "readipl"
      /\ UNCHANGED <<disk, prefix, ipl2_addr, next, jump, loaded>>
  BY DEF make_readipl, Start
<1>2. mem'[0] = CCW("READ_IPL", 0, FALSE)
  BY <1>1, Apart DEF IInv, Shape, Memory
<1>3. Running' /\ ~ prefix'.on
  BY <1>1 DEF Running, IInv, Place
<1>4. RInv'
  BY <1>1, <1>2, <1>3 DEF RInv, ReadingIpl, Ipl1Read, Ipl1Runs, PieceRuns, Heard
<1>5. UncutAt = Channel!AtIpl /\ UncutAt' = Channel!AtIpl
  BY <1>1, <1>3 DEF UncutAt
<1>6. track'.pos = track.pos
  BY <1>1 DEF IInv, Shape
<1>7. QED
  BY <1>1, <1>4, <1>5, <1>6, Stutters

LEMMA ConsumeR ==
  ASSUME IInv, RInv, consume_io_int
  PROVE  RInv' /\ Simulates
<1>1. /\ \A b \in Addr : b # IoNewPsw => mem'[b] = mem[b]
      /\ prefix'.on = prefix.on
  BY ConsumeStores
<1>2. /\ chan' = [chan EXCEPT !.waited = TRUE]
      /\ UNCHANGED <<disk, pc, track, ipl2_addr, next, jump, loaded>>
  BY DEF consume_io_int
<1>3. chan'.at = chan.at /\ chan'.fetched = chan.fetched
  BY <1>2 DEF IInv, Shape
<1>4. mem'[1] = mem[1] /\ mem'[2] = mem[2]
  <2>1. 1 \in Addr /\ 2 \in Addr /\ 1 # IoNewPsw /\ 2 # IoNewPsw
    BY LowCoreAssumption DEF Addr
  <2>2. QED
    BY <1>1, <2>1
<1>5. Heard'
  <2>1. CASE prefix.on
    <3>1. prefix'.page[IoNewPsw] = Firmware
      BY <2>1, ConsumeStores
    <3>2. QED
      BY <3>1 DEF Heard
  <2>2. CASE ~ prefix.on
    BY <1>1, <2>2 DEF Heard
  <2>3. QED
    BY <2>1, <2>2
<1>6. RInv'
  BY <1>2, <1>3, <1>4, <1>5, OtherStoresKeepR
<1>7. UncutAt' = UncutAt
  BY <1>2, <1>3 DEF UncutAt, Running
<1>8. QED
  BY <1>2, <1>6, <1>7, Stutters

LEMMA InterruptR ==
  ASSUME IInv, RInv, IoInterrupt
  PROVE  RInv' /\ Simulates
<1>1. /\ \A b \in Addr \ {SubchannelId, IoOldPsw} : mem'[b] = mem[b]
      /\ prefix'.on = prefix.on
  BY InterruptStores
<1>2. /\ chan.at = End /\ chan' = [chan EXCEPT !.at = Over] /\ chan.waited
      /\ pc' = IF Low(IoNewPsw) = Firmware THEN pc ELSE "wild"
      /\ UNCHANGED <<disk, track, ipl2_addr, next, jump, loaded>>
  BY DEF IoInterrupt
<1>3. chan'.at = Over /\ chan'.fetched = chan.fetched /\ chan'.waited = chan.waited
  BY <1>2 DEF IInv, Shape
<1>4. mem'[1] = mem[1] /\ mem'[2] = mem[2]
  <2>1. 1 \in Addr \ {SubchannelId, IoOldPsw} /\ 2 \in Addr \ {SubchannelId, IoOldPsw}
    BY LowCoreAssumption DEF Addr
  <2>2. QED
    BY <1>1, <2>1
<1>5. Heard'
  <2>1. CASE prefix.on
    <3>1. prefix'.page[IoNewPsw] = prefix.page[IoNewPsw]
      BY <2>1, InterruptStores
    <3>2. QED
      BY <1>1, <1>3, <3>1 DEF Heard, RInv
  <2>2. CASE ~ prefix.on
    BY <1>1, <2>2 DEF Heard
  <2>3. QED
    BY <2>1, <2>2
<1>6. ~ Running /\ ~ Running'
  BY <1>2, <1>3 DEF Running, End, Over
<1>7. RInv'
  BY <1>2, <1>3, <1>4, <1>5, <1>6, OtherStoresKeepR
<1>8. CASE pc' = pc
  <2>1. UncutAt' = UncutAt
    BY <1>2, <1>6, <1>8 DEF UncutAt
  <2>2. QED
    BY <1>2, <1>7, <2>1, Stutters
<1>9. CASE pc' # pc
  <2>1. pc' = "wild" /\ Low(IoNewPsw) # Firmware
    BY <1>2, <1>9
  <2>2. pc \in CanRun /\ (pc = "piece" => prefix.on)
    BY <1>2, NotRunning DEF IInv, Place
  <2>3. pc # "piece"
    BY <1>2, <2>1, <2>2 DEF RInv, Heard, Low
  <2>4. UncutAt # Channel!Done
    <3>1. CASE pc = "readipl"
      BY <1>6, <3>1 DEF UncutAt, Channel!AtIpl1, Channel!Done
    <3>2. CASE pc = "ipl1"
      <4>1. UncutAt = ipl2_addr /\ ipl2_addr \in Nat
        BY <1>6, <3>2 DEF UncutAt, RInv, Ipl1Runs, IInv, Shape
      <4>2. QED
        BY <4>1 DEF Channel!Done
    <3>3. QED
      BY <2>2, <2>3, <3>1, <3>2 DEF CanRun
  <2>5. QED
    BY <1>2, <1>7, <2>1, <2>4, Fails
<1>10. QED
  BY <1>8, <1>9

LEMMA GiveUpR ==
  ASSUME IInv, RInv, ProgramCheck \/ DeviceError
  PROVE  RInv' /\ Simulates
<1>1. Running /\ pc' \in {"panic", "ioerror"} /\ chan' = [chan EXCEPT !.at = Over]
      /\ UNCHANGED <<disk, mem, prefix, track, ipl2_addr, next, jump, loaded>>
  BY DEF ProgramCheck, DeviceError
<1>2. chan'.at = Over /\ chan'.fetched = chan.fetched /\ chan'.waited = chan.waited
  BY <1>1 DEF IInv, Shape
<1>3. Heard'
  BY <1>1, <1>2 DEF RInv, Heard
<1>4. RInv'
  BY <1>1, <1>2, <1>3, OtherStoresKeepR
<1>5. UncutAt # Channel!Done
  <2>1. pc \in CanRun /\ chan.at \in Nat
    BY <1>1, NotRunning DEF Running
  <2>2. QED
    BY <1>1, <2>1 DEF CanRun, UncutAt, Channel!AtIpl, Channel!AtIpl1, Channel!Done
<1>6. QED
  BY <1>1, <1>4, <1>5, Fails

LEMMA DisablePrefixR ==
  ASSUME IInv, RInv, disable_prefixing
  PROVE  RInv' /\ Simulates
<1>1. /\ pc = "piece" /\ chan.at = Over
      /\ prefix' = [prefix EXCEPT !.on = FALSE]
      /\ mem' = [mem EXCEPT ![SubchannelId] = Low(SubchannelId)]
      /\ pc' = IF next.has THEN "ipl2" ELSE "start"
      /\ UNCHANGED <<disk, chan, track, ipl2_addr, next, jump, loaded>>
  BY DEF disable_prefixing
<1>2. mem'[1] = mem[1] /\ mem'[2] = mem[2]
  <2>1. 1 \in Addr /\ 2 \in Addr /\ 1 # SubchannelId /\ 2 # SubchannelId
    BY LowCoreAssumption DEF Addr
  <2>2. QED
    BY <1>1, <2>1 DEF IInv, Shape, Memory
<1>3. Heard'
  BY <1>1 DEF Heard, IInv, Shape
<1>4. RInv'
  BY <1>1, <1>2, <1>3, OtherStoresKeepR
<1>5. UncutAt' = UncutAt
  BY <1>1 DEF UncutAt, Running, Over
<1>6. QED
  BY <1>1, <1>4, <1>5, Stutters

LEMMA StartGuestR ==
  ASSUME IInv, RInv, StartGuest \/ Entering
  PROVE  RInv' /\ Simulates
<1>1. /\ UNCHANGED <<disk, prefix, chan, track, ipl2_addr, next, loaded>>
      /\ pc' = "jump" /\ pc \in {"start", "jump"}
  BY NotRunning DEF StartGuest, Entering, Jump!JumpNext, Jump!Reset,
                    Jump!jump_to_IPL_addr
<1>2. RInv'
  BY <1>1 DEF RInv, ReadingIpl, Ipl1Read, Ipl1Runs, PieceRuns, Heard
<1>3. UncutAt' = UncutAt
  BY <1>1 DEF UncutAt
<1>4. QED
  BY <1>1, <1>2, <1>3, Stutters

LEMMA RunIpl1R ==
  ASSUME IInv, RInv, RunIpl1
  PROVE  RInv' /\ Simulates
<1>1. /\ pc = "readipl" /\ chan.at = Over /\ ~ Running /\ ~ prefix.on
      /\ ipl2_addr' = read_ipl2_addr(mem)
      /\ UNCHANGED <<disk, prefix, next, jump, loaded>>
  BY DEF RunIpl1, Running, Over, IInv, Place
<1>2. UncutAt = Channel!AtIpl1
  BY <1>1 DEF UncutAt
<1>3. CASE check_ipl1
  <2>1. /\ chan' = [at |-> 1, fetched |-> mem', waited |-> FALSE]
        /\ track' = [track EXCEPT !.known = FALSE]
        /\ mem' = ipl1_fixup(mem) /\ pc' = "ipl1"
    BY <1>3 DEF RunIpl1, Start
  <2>2. /\ mem'[1] = CCW("SEEK", 6, TRUE)
        /\ mem'[2] = [CCW("SEARCH", 7, TRUE) EXCEPT !.rec = 2]
        /\ mem'[4] = Unchained(mem[1])
    BY <1>3, <2>1, FixupIsMemory DEF check_ipl1, IInv, Shape
  <2>3. /\ mem[1] = disk.records[1][2] /\ mem[2] = disk.records[1][3]
        /\ track.pos = 2
    BY <1>1 DEF RInv, Ipl1Read
  <2>4. /\ mem[1].kind = "ccw" /\ mem[1].cmd = "READ" /\ Word(mem[1])
        /\ mem[2].kind = "ccw"
    BY <1>3 DEF check_ipl1, Channel!IsTic, Channel!IsCcw, IInv, Shape, Memory
  <2>5. ipl2_addr' = disk.records[1][3].cda
    BY <1>1, <2>3, <2>4 DEF read_ipl2_addr
  <2>6. track'.pos = track.pos /\ Running'
    BY <2>1 DEF IInv, Shape, Running
  <2>7. Ipl1Runs'
    <3> DEFINE r == disk.records[1][2]
    <3>1. r' = r /\ r = mem[1] /\ disk.records[1][3]' = disk.records[1][3]
      BY <1>1, <2>3
    <3>2. chan'.at = 1 /\ chan'.fetched = mem'
      BY <2>1
    <3>3. /\ chan'.at \in {1, 2, 4} /\ track'.pos = 2
          /\ chan'.at = 4 => track'.known
      BY <2>3, <2>6, <3>2
    <3>4. /\ chan'.fetched[1] = CCW("SEEK", 6, TRUE)
          /\ chan'.fetched[2] = [CCW("SEARCH", 7, TRUE) EXCEPT !.rec = 2]
          /\ chan'.fetched[4] = Unchained(r')
      BY <2>2, <3>1, <3>2
    <3>5. r'.kind = "ccw" /\ r'.cmd = "READ" /\ Word(r')
      BY <2>4, <3>1
    <3> HIDE DEF r
    <3>6. ipl2_addr' = disk'.records[1][3].cda
      BY <2>5, <3>1
    <3>7. QED
      BY <3>3, <3>4, <3>5, <3>6 DEF Ipl1Runs, r
  <2>8. RInv'
    BY <1>1, <2>1, <2>7 DEF RInv, ReadingIpl, Ipl1Read, PieceRuns, Heard
  <2>9. UncutAt' = Channel!AtIpl1
    BY <2>1, <2>6 DEF UncutAt
  <2>10. QED
    BY <1>1, <1>2, <2>6, <2>8, <2>9, Stutters
<1>4. CASE ~ check_ipl1
  <2>1. pc' = "panic" /\ UNCHANGED <<mem, chan, track>>
    BY <1>4 DEF RunIpl1
  <2>2. RInv'
    BY <1>1, <2>1 DEF RInv, ReadingIpl, Ipl1Read, Ipl1Runs, PieceRuns, Heard
  <2>3. UncutAt # Channel!Done
    BY <1>2 DEF Channel!AtIpl1, Channel!Done
  <2>4. QED
    BY <1>1, <2>1, <2>2, <2>3, Fails
<1>5. QED
  BY <1>3, <1>4

LEMMA CheckIpl2R ==
  ASSUME IInv, RInv, check_ipl2
  PROVE  RInv' /\ Simulates
<1>1. /\ pc = "ipl1" /\ chan.at = Over /\ pc' \in {"ipl2", "panic"}
      /\ next' = [has |-> TRUE, cpa |-> ipl2_addr] /\ ~ Running
      /\ UNCHANGED <<disk, mem, prefix, chan, track, ipl2_addr, jump, loaded>>
  BY DEF check_ipl2, Running, Over
<1>2. RInv'
  BY <1>1 DEF RInv, ReadingIpl, Ipl1Read, Ipl1Runs, PieceRuns, Heard
<1>3. UncutAt = ipl2_addr /\ ipl2_addr \in Nat
  BY <1>1 DEF UncutAt, RInv, Ipl1Runs, IInv, Shape
<1>4. CASE pc' = "ipl2"
  <2>1. UncutAt' = ipl2_addr
    BY <1>1, <1>4 DEF UncutAt
  <2>2. QED
    BY <1>1, <1>2, <1>3, <2>1, Stutters
<1>5. CASE pc' = "panic"
  <2>1. UncutAt # Channel!Done
    BY <1>3 DEF Channel!Done
  <2>2. QED
    BY <1>1, <1>2, <1>5, <2>1, Fails
<1>6. QED
  BY <1>1, <1>4, <1>5

LEMMA RunPieceR ==
  ASSUME IInv, RInv, PiecesStraight, RunPiece
  PROVE  RInv' /\ Simulates
<1> DEFINE f == next.cpa
           cut == dynamic_cp_fixup(mem, f)
<1>1. /\ pc = "ipl2" /\ pc' = "piece" /\ UNCHANGED <<disk, ipl2_addr, jump, loaded>>
      /\ chan' = [at |-> f, fetched |-> mem', waited |-> FALSE]
      /\ track' = [track EXCEPT !.known = FALSE]
  BY DEF RunPiece, Start
<1>2. f \in Nat /\ Memory(mem) /\ Memory(loaded)
  BY DEF IInv, Shape
<1>3. PICK e \in Addr :
        /\ Straight(loaded, f, e, Unknown)
        /\ \A a \in f..e + 1 :
             a \notin 0..7 \cup {SubchannelId, IoOldPsw, IoNewPsw} \cup ConsoleWords
        /\ \A a \in f..e : mem[a].chain = loaded[a].chain
  BY <1>1 DEF PiecesStraight
<1>4. f <= e /\ e \in Nat /\ e \in f..e
      /\ \A a \in f..e : a \in Addr /\ a \in f..e + 1 /\ loaded[a].kind = "ccw"
  <2>1. f <= e /\ e \in Nat
    BY <1>2, <1>3, Addresses DEF Straight
  <2>2. \A a \in f..e : a \in Addr /\ a \in f..e + 1 /\ loaded[a].kind = "ccw"
    BY <1>2, <1>3, <2>1 DEF Straight, Channel!IsCcw, Memory
  <2>3. QED
    BY <1>2, <2>1, <2>2
<1>5. \A a \in f..e + 1 : a \in Addr => Same(mem, loaded, a)
  BY <1>3 DEF IInv, Kept, Scratch
<1>6. \A a \in f..e : mem[a] = loaded[a]
  <2> SUFFICES ASSUME NEW a \in f..e PROVE mem[a] = loaded[a]
    OBVIOUS
  <2>1. Same(mem, loaded, a) /\ Word(loaded[a]) /\ loaded[a].kind = "ccw"
        /\ mem[a].chain = loaded[a].chain
    BY <1>2, <1>3, <1>4, <1>5 DEF Memory
  <2>2. loaded[a] = [loaded[a] EXCEPT !.chain = loaded[a].chain]
    BY <2>1 DEF Word
  <2>3. Unchained(loaded[a]).chain = FALSE
        /\ Unchained(loaded[a]) = [loaded[a] EXCEPT !.chain = FALSE]
    BY <2>1, UnchainedIsWord
  <2>4. QED
    BY <2>1, <2>2, <2>3 DEF Same
<1>7. e + 1 \in Addr => /\ mem[e + 1].kind = loaded[e + 1].kind
                        /\ mem[e + 1].kind = "ccw" =>
                             /\ mem[e + 1].cmd = loaded[e + 1].cmd
                             /\ mem[e + 1].cda = loaded[e + 1].cda
  <2> SUFFICES ASSUME e + 1 \in Addr
               PROVE  /\ mem[e + 1].kind = loaded[e + 1].kind
                      /\ mem[e + 1].kind = "ccw" =>
                             /\ mem[e + 1].cmd = loaded[e + 1].cmd
                             /\ mem[e + 1].cda = loaded[e + 1].cda
    OBVIOUS
  <2>1. Same(mem, loaded, e + 1) /\ Word(loaded[e + 1])
    BY <1>2, <1>4, <1>5 DEF Memory
  <2> DEFINE w == loaded[e + 1]
             x == mem[e + 1]
  <2>2. x \in {w, Unchained(w)} /\ Word(w)
    BY <2>1 DEF Same
  <2> HIDE DEF w, x
  <2>3. /\ Unchained(w).kind = w.kind
        /\ w.kind = "ccw" => Unchained(w).cmd = w.cmd /\ Unchained(w).cda = w.cda
    BY <2>2, UnchainedIsWord
  <2>4. x.kind = w.kind /\ (x.kind = "ccw" => x.cmd = w.cmd /\ x.cda = w.cda)
    BY <2>2, <2>3
  <2>5. QED
    BY <2>4 DEF w, x
<1>8. cut = IF loaded[e].chain THEN e ELSE NoCut
  <2>1. Straight(mem, f, e, Unknown)
    <3>1. Channel!IsTic(loaded, e + 1) => Channel!IsTic(mem, e + 1)
      BY <1>2, <1>7 DEF Channel!IsTic, Channel!IsCcw, Memory
    <3>2. QED
      BY <1>2, <1>3, <1>6, <3>1, StraightSame
  <2>2. QED
    BY <1>2, <1>4, <1>6, <2>1, CutAtEnd
<1>9. /\ \A a \in Addr : mem'[a] =
           IF a \in ConsoleWords THEN Firmware
           ELSE IF a = cut THEN Unchained(mem[a]) ELSE mem[a]
      /\ cut # NoCut => next' = [has |-> TRUE, cpa |-> mem[cut + 1].cda]
      /\ cut = NoCut => next' = [has |-> FALSE, cpa |-> next.cpa]
  BY PieceEffect
<1> HIDE DEF cut
<1>10. e # NoCut /\ \A a \in f..e : a # NoCut
  BY <1>2, <1>4 DEF NoCut
<1>11. \A a \in f..e : mem'[a] = IF a = e THEN Unchained(loaded[a]) ELSE loaded[a]
  <2> SUFFICES ASSUME NEW a \in f..e
               PROVE  mem'[a] = IF a = e THEN Unchained(loaded[a]) ELSE loaded[a]
    OBVIOUS
  <2>1. a \in Addr /\ a \notin ConsoleWords /\ mem[a] = loaded[a] /\ Word(loaded[a])
    BY <1>2, <1>3, <1>4, <1>6 DEF Memory
  <2>2. mem'[a] = IF a = cut THEN Unchained(loaded[a]) ELSE loaded[a]
    BY <1>9, <2>1
  <2>3. a = e /\ ~ loaded[e].chain => Unchained(loaded[a]) = loaded[a]
    <3>1. loaded[a].kind = "ccw"
      BY <1>4
    <3>2. loaded[a] = [loaded[a] EXCEPT !.chain = loaded[a].chain]
          /\ loaded[a].chain \in BOOLEAN
      BY <2>1, <3>1 DEF Word
    <3>3. QED
      BY <3>1, <3>2 DEF Unchained
  <2>4. QED
    BY <1>8, <1>10, <2>2, <2>3
<1>12. IF loaded[e].chain THEN next'.has /\ next'.cpa = loaded[e + 1].cda
                          ELSE ~ next'.has
  <2>1. CASE loaded[e].chain
    <3>1. Channel!IsTic(loaded, e + 1)
      BY <1>3, <2>1 DEF Straight
    <3>2. mem[e + 1].cda = loaded[e + 1].cda
      BY <1>2, <1>7, <3>1 DEF Channel!IsTic, Channel!IsCcw, Memory
    <3>3. QED
      BY <1>8, <1>9, <1>10, <2>1, <3>2
  <2>2. CASE ~ loaded[e].chain
    BY <1>8, <1>9, <2>2
  <2>3. QED
    BY <2>1, <2>2
<1>13. /\ chan'.at = f /\ chan'.fetched = mem' /\ Running' /\ chan'.waited = FALSE
       /\ track'.known = FALSE /\ track'.pos = track.pos
  BY <1>1, <1>2 DEF IInv, Shape, Running
<1>14. PieceRuns'
  <2>1. Passing' = Unknown
    BY <1>13 DEF Passing
  <2>2. Straight(loaded, chan.at, e, Passing)'
    BY <1>1, <1>3, <1>13, <2>1 DEF Straight, Channel!Record, RecordsAt
  <2>3. Fetched(e)'
    BY <1>1, <1>11, <1>13 DEF Fetched
  <2>4. GoesOn(e)'
    BY <1>1, <1>12 DEF GoesOn
  <2>5. QED
    BY <2>2, <2>3, <2>4 DEF PieceRuns
<1>15. RInv'
  BY <1>1, <1>13, <1>14 DEF RInv, ReadingIpl, Ipl1Read, Ipl1Runs, Heard
<1>16. UncutAt = f /\ UncutAt' = f
  BY <1>1, <1>13 DEF UncutAt
<1>17. QED
  BY <1>1, <1>13, <1>15, <1>16, Stutters

(* The two channels read and go on in the same way.                        *)
LEMMA SameChannel ==
  /\ \A m, a, w : Uncut!Write(m, a, w) = Channel!Write(m, a, w)
  /\ \A r : Uncut!Record(r) = Channel!Record(r)
  /\ \A c, m, a : Uncut!After(c, m, a) = Channel!After(c, m, a)
  /\ \A m, a : Uncut!IsCcw(m, a) <=> Channel!IsCcw(m, a)
  /\ Uncut!Reads = Channel!Reads /\ Uncut!Done = Channel!Done
  /\ Uncut!AtIpl = Channel!AtIpl /\ Uncut!AtIpl1 = Channel!AtIpl1
BY DEF Uncut!Write, Channel!Write, Uncut!Record, Channel!Record,
       Uncut!After, Channel!After, Uncut!Follow, Channel!Follow,
       Uncut!IsTic, Channel!IsTic, Uncut!IsCcw, Channel!IsCcw,
       Uncut!Reads, Channel!Reads, Uncut!Done, Channel!Done,
       Uncut!AtIpl, Channel!AtIpl, Uncut!AtIpl1, Channel!AtIpl1

(* What stays while a CCW is carried out.                                  *)
LEMMA ExecuteFrame ==
  ASSUME IInv, RInv, ExecuteCcw
  PROVE  LET c == chan.fetched[chan.at]
         IN /\ UNCHANGED <<disk, pc, prefix, ipl2_addr, next, jump>>
            /\ chan'.at = IF c.chain
                          THEN Channel!After(c, chan.fetched, chan.at) ELSE End
            /\ chan'.fetched = chan.fetched
            /\ Running /\ chan.at \in Addr /\ c.kind = "ccw" /\ Word(c)
            /\ Heard'
<1> DEFINE c == chan.fetched[chan.at]
<1>1. /\ UNCHANGED <<disk, pc, prefix, ipl2_addr, next, jump>>
      /\ chan' = [chan EXCEPT !.at = IF c.chain
                          THEN Channel!After(c, chan.fetched, chan.at) ELSE End]
  BY DEF ExecuteCcw
<1>2. Channel!IsCcw(chan.fetched, chan.at) /\ chan.at \in Addr
  BY ExecuteEffect
<1>3. Running /\ c.kind = "ccw" /\ Word(c)
  BY <1>2, Addresses DEF Running, Channel!IsCcw, IInv, Shape, Memory
<1>4. /\ chan'.fetched = chan.fetched /\ chan'.waited = chan.waited
      /\ chan'.at = IF c.chain
                    THEN Channel!After(c, chan.fetched, chan.at) ELSE End
  <2> DEFINE x == IF c.chain
                  THEN Channel!After(c, chan.fetched, chan.at) ELSE End
  <2>1. chan' = [chan EXCEPT !.at = x]
    BY <1>1
  <2> HIDE DEF x
  <2>2. chan'.at = x /\ chan'.fetched = chan.fetched /\ chan'.waited = chan.waited
    BY <2>1 DEF IInv, Shape
  <2>3. QED
    BY <2>2 DEF x
<1>5. Heard'
  BY <1>1, <1>4 DEF RInv, Heard
<1>6. QED
  BY <1>1, <1>2, <1>3, <1>4, <1>5

(* The READ IPL reads IPL1.                                                *)
LEMMA ExecuteReadIpl ==
  ASSUME IInv, RInv, ExecuteCcw, pc = "readipl"
  PROVE  RInv' /\ Simulates
<1> DEFINE c == chan.fetched[chan.at]
<1>1. chan.at = 0 /\ c = CCW("READ_IPL", 0, FALSE)
  BY ExecuteFrame DEF RInv, ReadingIpl
<1>2. c.cmd = "READ_IPL" /\ c.chain = FALSE /\ c.cda = 0
  BY <1>1 DEF CCW
<1>3. ReadRecord(c, 1)
  BY <1>2 DEF ExecuteCcw, Channel!Reads
<1>4. /\ UNCHANGED <<disk, pc, prefix, ipl2_addr, next, jump>>
      /\ chan'.at = End /\ chan'.fetched = chan.fetched /\ Heard' /\ Running
  BY <1>2, ExecuteFrame
<1>5. ~ Running'
  BY <1>4 DEF Running, End
<1>6. Channel!Record(1) = disk.records[1] /\ DOMAIN disk.records[1] = 1..3
  BY DiskAssumption DEF Channel!Record, IInv, Shape
<1>7. /\ mem' = Channel!Write(mem, 0, disk.records[1])
      /\ loaded' = Channel!Write(loaded, 0, disk.records[1])
      /\ track' = [pos |-> 2, known |-> TRUE]
  BY <1>2, <1>3, <1>6 DEF ReadRecord
<1>8. mem'[1] = disk.records[1][2] /\ mem'[2] = disk.records[1][3]
  <2>1. 1 \in Addr /\ 2 \in Addr /\ 1 - 0 + 1 = 2 /\ 2 - 0 + 1 = 3
    BY LowCoreAssumption DEF Addr
  <2>2. 2 \in DOMAIN disk.records[1] /\ 3 \in DOMAIN disk.records[1]
    BY <1>6
  <2>3. Memory(mem)
    BY DEF IInv, Shape
  <2>4. QED
    BY <1>7, <2>1, <2>2, <2>3, WriteAt
<1>9. RInv'
  BY <1>4, <1>5, <1>7, <1>8 DEF RInv, ReadingIpl, Ipl1Read, Ipl1Runs, PieceRuns
<1>10. UncutAt = Channel!AtIpl /\ UncutAt' = Channel!AtIpl1
  BY <1>4, <1>5 DEF UncutAt
<1>11. Uncut!ReadIpl1
  BY <1>7, <1>10, SameChannel DEF Uncut!ReadIpl1
<1>12. QED
  BY <1>4, <1>9, <1>11 DEF Simulates, Uncut!Next

(* The program the firmware made of IPL1 reads IPL2.                       *)
LEMMA ExecuteIpl1 ==
  ASSUME IInv, RInv, ExecuteCcw, pc = "ipl1"
  PROVE  RInv' /\ Simulates
<1> DEFINE c == chan.fetched[chan.at]
           r == disk.records[1][2]
           CarriesOut == \E q : ReadRecord(c, q)
<1>1. /\ UNCHANGED <<disk, pc, prefix, ipl2_addr, next, jump>>
      /\ chan'.at = IF c.chain THEN Channel!After(c, chan.fetched, chan.at) ELSE End
      /\ chan'.fetched = chan.fetched /\ Running /\ Heard'
  BY ExecuteFrame
<1>2. /\ ipl2_addr = disk.records[1][3].cda
      /\ chan.at \in {1, 2, 4} /\ track.pos = 2
      /\ chan.at = 4 => track.known
      /\ chan.fetched[1] = CCW("SEEK", 6, TRUE)
      /\ chan.fetched[2] = [CCW("SEARCH", 7, TRUE) EXCEPT !.rec = 2]
      /\ chan.fetched[4] = Unchained(r)
      /\ r.kind = "ccw" /\ r.cmd = "READ" /\ Word(r)
  BY <1>1 DEF RInv, Ipl1Runs
<1>3. /\ Unchained(r).cmd = "READ" /\ Unchained(r).cda = r.cda
      /\ Unchained(r).chain = FALSE
  BY <1>2, UnchainedIsWord
<1>4. UncutAt = Channel!AtIpl1
  BY <1>1 DEF UncutAt
<1> HIDE DEF r
<1>5. ASSUME chan'.at \in {2, 4}, track'.pos = 2, chan'.at = 4 => track'.known
      PROVE  RInv' /\ UncutAt' = Channel!AtIpl1
  <2>1. Running'
    BY <1>5 DEF Running
  <2>2. UncutAt' = Channel!AtIpl1
    BY <1>1, <2>1 DEF UncutAt
  <2>3. Ipl1Runs'
    BY <1>1, <1>2, <1>5 DEF Ipl1Runs, r
  <2>4. QED
    BY <1>1, <2>2, <2>3 DEF RInv, ReadingIpl, Ipl1Read, PieceRuns
<1>6. CASE chan.at = 1
  <2>1. c.cmd = "SEEK" /\ c.chain = TRUE
    BY <1>2, <1>6 DEF CCW
  <2>2. UNCHANGED <<mem, loaded, track>>
    BY <2>1 DEF ExecuteCcw, Channel!Reads
  <2>3. chan.fetched[2].cmd = "SEARCH"
    BY <1>2 DEF CCW
  <2>4. chan'.at = 2
    BY <1>1, <1>6, <2>1, <2>3
       DEF Channel!After, Channel!Follow, Channel!IsTic
  <2>5. RInv' /\ UncutAt' = Channel!AtIpl1
    BY <1>2, <1>5, <2>2, <2>4
  <2>6. QED
    BY <1>1, <1>4, <2>2, <2>5, Stutters
<1>7. CASE chan.at = 2
  <2>1. c.cmd = "SEARCH" /\ c.chain = TRUE /\ c.rec = 2
    BY <1>2, <1>7 DEF CCW
  <2>2. UNCHANGED <<mem, loaded>> /\ track' = [pos |-> 2, known |-> TRUE]
    BY <2>1 DEF ExecuteCcw, Channel!Reads
  <2>3. chan'.at = 4
    BY <1>1, <1>2, <1>3, <1>7, <2>1
       DEF Channel!After, Channel!Follow, Channel!IsTic
  <2>4. RInv' /\ UncutAt' = Channel!AtIpl1
    BY <1>5, <2>2, <2>3
  <2>5. QED
    BY <1>1, <1>2, <1>4, <2>2, <2>4, Stutters
<1>8. CASE chan.at = 4
  <2>1. c.cmd = "READ" /\ c.chain = FALSE /\ c.cda = r.cda
    BY <1>2, <1>3, <1>8
  <2>2. ReadRecord(c, 2)
    BY <1>2, <1>8, <2>1 DEF ExecuteCcw, Channel!Reads
  <2>3. /\ loaded' = Channel!Write(loaded, r.cda, Channel!Record(2))
        /\ track' = [pos |-> 3, known |-> TRUE]
    BY <2>1, <2>2 DEF ReadRecord
  <2>4. chan'.at = End /\ ~ Running'
    BY <1>1, <2>1 DEF Running, End
  <2>5. RInv'
    BY <1>1, <1>2, <2>4 DEF RInv, ReadingIpl, Ipl1Read, Ipl1Runs, PieceRuns
  <2>6. UncutAt' = disk.records[1][3].cda
    BY <1>1, <2>4 DEF UncutAt
  <2>7. Uncut!ReadIpl2
    BY <1>4, <2>3, <2>6, SameChannel DEF Uncut!ReadIpl2, r
  <2>8. QED
    BY <1>1, <2>5, <2>7 DEF Simulates, Uncut!Next
<1>9. QED
  BY <1>2, <1>6, <1>7, <1>8

(* What a CCW of a piece does, and that it leaves the rest of the piece.   *)
LEMMA PieceCcwEffect ==
  ASSUME IInv, RInv, ExecuteCcw, NEW e \in Addr,
         Straight(loaded, chan.at, e, Passing), Fetched(e)
  PROVE  LET l == loaded[chan.at]
         IN /\ \/ /\ l.cmd \in Channel!Reads
                  /\ loaded' = Channel!Write(loaded, l.cda, Channel!Record(track.pos))
                  /\ track'.pos = track.pos + 1
               \/ /\ l.cmd = "SEARCH"
                  /\ track'.pos = l.rec /\ UNCHANGED loaded
               \/ /\ l.cmd \notin Channel!Reads \cup {"SEARCH"}
                  /\ track'.pos = track.pos /\ UNCHANGED loaded
            /\ Passing' = PassingAfter(loaded, chan.at, Passing)
            /\ Passing \in Nat \cup {Unknown}
            /\ l.chain => \A b \in chan.at + 1..e + 1 :
                            b \in Addr => loaded'[b] = loaded[b]
            /\ \A b \in chan.at..e : b \in Addr /\ loaded[b].kind = "ccw"
                                    /\ loaded[b].rec \in Nat
            /\ Memory(loaded')
<1> DEFINE a == chan.at
           c == chan.fetched[a]
           l == loaded[a]
<1>1. a \in Addr /\ a \in Nat /\ e \in Nat /\ a <= e /\ a \in a..e
  BY ExecuteEffect, Addresses DEF Straight
<1>2. Memory(loaded) /\ Memory(loaded') /\ track \in [pos : Nat, known : BOOLEAN]
  BY ExecuteKeeps DEF IInv, Shape
<1>3. \A b \in a..e : b \in Addr /\ loaded[b].kind = "ccw" /\ loaded[b].rec \in Nat
  BY <1>2 DEF Straight, Channel!IsCcw, Memory, Word
<1>4. /\ c.cmd = l.cmd /\ c.cda = l.cda /\ c.rec = l.rec
  <2>1. c \in {l, Unchained(l)} /\ Word(l) /\ l.kind = "ccw"
    BY <1>1, <1>2, <1>3 DEF Fetched, Memory
  <2> HIDE DEF c, l
  <2>2. QED
    BY <2>1, UnchainedIsWord
<1>5. Passing \in Nat \cup {Unknown} /\ l.cmd # "READ_IPL"
  BY <1>1, <1>2 DEF Passing, Straight
<1>6. l.cmd \in Channel!Reads => track.known
  <2> SUFFICES ASSUME l.cmd \in Channel!Reads PROVE track.known
    OBVIOUS
  <2>1. RecordsAt(loaded, a, a, Passing) # {}
    BY <1>1 DEF Straight
  <2>2. Passing # Unknown
    BY <1>1, <2>1 DEF RecordsAt
  <2>3. QED
    BY <2>2 DEF Passing
<1>7. CASE l.cmd \in Channel!Reads
  <2>1. ReadRecord(c, track.pos)
    BY <1>4, <1>5, <1>6, <1>7 DEF ExecuteCcw, Channel!Reads
  <2>2. /\ loaded' = Channel!Write(loaded, l.cda, Channel!Record(track.pos))
        /\ track' = [pos |-> track.pos + 1, known |-> TRUE]
    BY <1>4, <2>1 DEF ReadRecord
  <2>3. Passing = track.pos /\ Passing' = track.pos + 1
    BY <1>6, <1>7, <2>2 DEF Passing
  <2>4. Passing' = PassingAfter(loaded, a, Passing)
    BY <1>7, <2>3 DEF PassingAfter, Channel!Reads
  <2>5. ASSUME l.chain, NEW b \in a + 1..e + 1, b \in Addr
        PROVE  loaded'[b] = loaded[b]
    <3>1. track.pos \in RecordsAt(loaded, a, a, Passing)
      <4>1. Passing # Unknown /\ Passing + (a - a) = track.pos
        BY <1>1, <1>2, <2>3 DEF Unknown
      <4>2. \A x \in a..a - 1 : loaded[x].cmd \in Channel!Reads
        BY <1>1
      <4>3. QED
        BY <4>1, <4>2 DEF RecordsAt
    <3>2. b - l.cda + 1 \notin DOMAIN Channel!Record(track.pos)
      BY <1>1, <1>7, <2>5, <3>1 DEF Straight
    <3>3. QED
      BY <1>2, <2>2, <2>5, <3>2, WriteAt
  <2>6. QED
    BY <1>2, <1>3, <1>5, <1>7, <2>2, <2>4, <2>5
<1>8. CASE l.cmd = "SEARCH"
  <2>1. track' = [pos |-> l.rec, known |-> TRUE] /\ UNCHANGED <<mem, loaded>>
    BY <1>4, <1>8 DEF ExecuteCcw, Channel!Reads
  <2>2. Passing' = PassingAfter(loaded, a, Passing)
    BY <1>8, <2>1 DEF Passing, PassingAfter
  <2>3. QED
    BY <1>2, <1>3, <1>5, <1>8, <2>1, <2>2
<1>9. CASE l.cmd \notin Channel!Reads \cup {"SEARCH"}
  <2>1. UNCHANGED <<mem, loaded, track>>
    BY <1>4, <1>5, <1>9 DEF ExecuteCcw
  <2>2. Passing' = PassingAfter(loaded, a, Passing)
    BY <1>9, <2>1 DEF Passing, PassingAfter
  <2>3. QED
    BY <1>2, <1>3, <1>5, <1>9, <2>1, <2>2
<1>10. QED
  BY <1>7, <1>8, <1>9

(* What is straight from where the channel will be is straight in the next *)
(* state: the records of the disk do not change.                           *)
LEMMA StraightNext ==
  ASSUME NEW f, NEW e, UNCHANGED disk, chan'.at = f,
         Straight(loaded', f, e, Passing')
  PROVE  Straight(loaded, chan.at, e, Passing)'
<1>1. \A r : Channel!Record(r)' = Channel!Record(r)
  BY DEF Channel!Record
<1>2. \A a : RecordsAt(loaded, chan.at, a, Passing)' = RecordsAt(loaded', f, a, Passing')
  BY DEF RecordsAt
<1>3. QED
  BY <1>1, <1>2 DEF Straight

(* A CCW of a piece is the one of the uncut program whose turn it is.      *)
LEMMA ExecutePiece ==
  ASSUME IInv, RInv, ExecuteCcw, pc = "piece"
  PROVE  RInv' /\ Simulates
<1> DEFINE a == chan.at
           c == chan.fetched[a]
           l == loaded[a]
           p == Passing
           g == Following(loaded, a)
<1>1. /\ UNCHANGED <<disk, pc, prefix, ipl2_addr, next, jump>>
      /\ chan'.at = IF c.chain THEN Channel!After(c, chan.fetched, a) ELSE End
      /\ chan'.fetched = chan.fetched /\ Running /\ Heard' /\ a \in Addr
  BY ExecuteFrame
<1>2. PICK e \in Addr : Straight(loaded, a, e, p) /\ Fetched(e) /\ GoesOn(e)
  BY <1>1 DEF RInv, PieceRuns
<1>3. /\ \/ /\ l.cmd \in Channel!Reads
            /\ loaded' = Channel!Write(loaded, l.cda, Channel!Record(track.pos))
            /\ track'.pos = track.pos + 1
         \/ /\ l.cmd = "SEARCH"
            /\ track'.pos = l.rec /\ UNCHANGED loaded
         \/ /\ l.cmd \notin Channel!Reads \cup {"SEARCH"}
            /\ track'.pos = track.pos /\ UNCHANGED loaded
      /\ Passing' = PassingAfter(loaded, a, p) /\ p \in Nat \cup {Unknown}
      /\ l.chain => \A b \in a + 1..e + 1 : b \in Addr => loaded'[b] = loaded[b]
      /\ \A b \in a..e : b \in Addr /\ loaded[b].kind = "ccw"
                       /\ loaded[b].rec \in Nat
      /\ Memory(loaded')
  BY <1>2, PieceCcwEffect
<1>4. Memory(loaded) /\ Memory(chan.fetched) /\ a \in Nat /\ e \in Nat /\ a <= e
      /\ a \in a..e
  BY <1>1, <1>2, Addresses DEF IInv, Shape, Straight
<1>5. UncutAt = a
  BY <1>1 DEF UncutAt
<1>6. Uncut!IsCcw(loaded, a)
  BY <1>2, <1>4, SameChannel DEF Straight
<1> DEFINE goes == IF l.chain THEN Channel!After(l, loaded', a) ELSE Channel!Done
<1>7. ASSUME UncutAt' = goes PROVE Simulates
  <2> HIDE DEF l, goes
  <2>1. \/ /\ l.cmd \in Uncut!Reads
           /\ loaded' = Uncut!Write(loaded, l.cda, Uncut!Record(track.pos))
           /\ track'.pos = track.pos + 1
        \/ l.cmd = "SEARCH" /\ track'.pos = l.rec /\ UNCHANGED loaded
        \/ /\ l.cmd \notin Uncut!Reads \cup {"SEARCH"}
           /\ UNCHANGED <<loaded, track.pos>>
    BY <1>3, SameChannel
  <2>2. UncutAt' = IF l.chain THEN Uncut!After(l, loaded', a) ELSE Uncut!Done
    BY <1>7, SameChannel DEF goes
  <2>3. Uncut!Execute
    BY <1>5, <1>6, <2>1, <2>2 DEF Uncut!Execute, l
  <2>4. QED
    BY <1>1, <2>3 DEF Simulates, Uncut!Next
<1>8. CASE a < e
  <2>1. /\ g \in a + 1..e /\ l.chain /\ loaded[g].cmd # "TIC"
        /\ Straight(loaded, g, e, PassingAfter(loaded, a, p))
    BY <1>2, <1>3, <1>4, <1>8, StraightStep
  <2>2. g \in a..e /\ g \in Nat /\ g \in Addr
    BY <1>3, <1>4, <2>1
  <2>3. \A b \in a + 1..e + 1 : b \in Addr => loaded'[b] = loaded[b]
    BY <1>3, <2>1
  <2>4. \A b \in g..e : b \in a..e /\ loaded'[b] = loaded[b]
    <3>1. \A b \in g..e : b \in a..e /\ b \in a + 1..e + 1
      BY <1>4, <2>1
    <3>2. QED
      BY <1>3, <2>3, <3>1
  <2>5. c = l
    BY <1>2, <1>4, <1>8 DEF Fetched
  <2>6. chan.fetched[g].cmd = loaded[g].cmd
    <3>1. chan.fetched[g] \in {loaded[g], Unchained(loaded[g])}
          /\ Word(loaded[g]) /\ loaded[g].kind = "ccw"
      BY <1>2, <1>3, <1>4, <2>2 DEF Fetched, Memory
    <3> HIDE DEF g
    <3>2. QED
      BY <3>1, UnchainedIsWord
  <2>7. Channel!After(l, chan.fetched, a) = g
    BY <1>2, <1>3, <1>4, <1>8, <2>6, StraightAfter
  <2>8. Channel!After(l, loaded', a) = g
    <3>1. g \in g..e
      BY <2>1, <2>2, <1>4
    <3>2. loaded'[g] = loaded[g]
      BY <2>4, <3>1
    <3>3. QED
      BY <1>2, <1>3, <1>4, <1>8, <3>2, StraightAfter
  <2>9. chan'.at = g /\ Running'
    BY <1>1, <2>1, <2>2, <2>5, <2>7 DEF Running
  <2>10. UncutAt' = goes
    BY <1>1, <2>1, <2>8, <2>9 DEF UncutAt
  <2>11. Channel!IsTic(loaded, e + 1) =>
           /\ Channel!IsTic(loaded', e + 1)
           /\ loaded'[e + 1] = loaded[e + 1]
    <3>1. e + 1 \in a + 1..e + 1
      BY <1>4
    <3>2. DOMAIN loaded = Addr /\ DOMAIN loaded' = Addr
      BY <1>3, <1>4 DEF Memory
    <3>3. QED
      BY <2>3, <3>1, <3>2 DEF Channel!IsTic, Channel!IsCcw
  <2>12. Straight(loaded', g, e, Passing')
    BY <1>3, <1>4, <2>1, <2>2, <2>4, <2>11, StraightSame
  <2>13. Straight(loaded, chan.at, e, Passing)'
    BY <1>1, <2>9, <2>12, StraightNext
  <2>14. Fetched(e)'
    BY <1>1, <1>2, <2>4, <2>9 DEF Fetched
  <2>15. GoesOn(e)'
    <3>1. loaded'[e] = loaded[e]
      BY <2>1, <2>2, <2>4, <1>4
    <3>2. loaded[e].chain => loaded'[e + 1] = loaded[e + 1]
      BY <1>2, <2>11 DEF Straight
    <3>3. QED
      BY <1>1, <1>2, <3>1, <3>2 DEF GoesOn
  <2>16. PieceRuns'
    BY <2>13, <2>14, <2>15 DEF PieceRuns
  <2>17. RInv'
    BY <1>1, <2>16 DEF RInv, ReadingIpl, Ipl1Read, Ipl1Runs
  <2>18. QED
    BY <1>7, <2>10, <2>17
<1>9. CASE a = e
  <2>1. c.chain = FALSE
    <3>1. c = Unchained(l) /\ Word(l) /\ l.kind = "ccw"
      BY <1>2, <1>3, <1>4, <1>9 DEF Fetched, Memory
    <3> HIDE DEF c, l
    <3>2. QED
      BY <3>1, UnchainedIsWord
  <2>2. chan'.at = End /\ ~ Running'
    BY <1>1, <2>1 DEF Running, End
  <2>3. RInv'
    BY <1>1, <2>2 DEF RInv, ReadingIpl, Ipl1Read, Ipl1Runs, PieceRuns
  <2>4. UncutAt' = IF next.has THEN next.cpa ELSE Channel!Done
    BY <1>1, <2>2 DEF UncutAt
  <2>5. CASE l.chain
    <3>1. next.has /\ next.cpa = loaded[e + 1].cda
      BY <1>2, <1>9, <2>5 DEF GoesOn
    <3>2. l.cmd \in Channel!Reads /\ Channel!IsTic(loaded, e + 1)
      BY <1>2, <1>9, <2>5 DEF Straight
    <3>3. DOMAIN loaded = Addr /\ DOMAIN loaded' = Addr
      BY <1>3, <1>4 DEF Memory
    <3>4. e + 1 \in Addr /\ e + 1 \in a + 1..e + 1
      BY <1>4, <1>9, <3>2, <3>3 DEF Channel!IsTic, Channel!IsCcw
    <3>5. loaded'[e + 1] = loaded[e + 1]
      BY <1>3, <2>5, <3>4
    <3>6. Channel!After(l, loaded', a) = loaded[e + 1].cda
      BY <1>9, <3>2, <3>3, <3>5 DEF Channel!After, Channel!Follow,
           Channel!IsTic, Channel!IsCcw, Channel!Reads
    <3>7. QED
      BY <1>7, <2>3, <2>4, <2>5, <3>1, <3>6
  <2>6. CASE ~ l.chain
    <3>1. ~ next.has
      BY <1>2, <1>9, <2>6 DEF GoesOn
    <3>2. QED
      BY <1>7, <2>3, <2>4, <2>6, <3>1
  <2>7. QED
    BY <2>5, <2>6
<1>10. QED
  BY <1>4, <1>8, <1>9

LEMMA StepSimulates ==
  ASSUME IInv, RInv, PiecesStraight, [Next]_vars
  PROVE  RInv' /\ Simulates
<1>1. CASE UNCHANGED vars
  <2>1. chan'.at = chan.at /\ chan'.fetched = chan.fetched /\ chan' = chan
    BY <1>1 DEF vars
  <2>2. Heard'
    BY <1>1 DEF vars, RInv, Heard
  <2>3. RInv'
    BY <1>1, <2>1, <2>2, OtherStoresKeepR DEF vars
  <2>4. UncutAt' = UncutAt
    BY <1>1 DEF vars, UncutAt, Running
  <2>5. QED
    BY <1>1, <2>3, <2>4, Stutters DEF vars
<1>2. CASE ExecuteCcw
  <2>1. pc \in CanRun
    BY <1>2, ExecuteFrame, NotRunning
  <2>2. QED
    BY <1>2, <2>1, ExecuteReadIpl, ExecuteIpl1, ExecutePiece DEF CanRun
<1>3. CASE Next /\ ~ ExecuteCcw
  BY <1>3, MakeReadiplR, RunIpl1R, CheckIpl2R, RunPieceR, DisablePrefixR,
     StartGuestR, ConsumeR, InterruptR, GiveUpR DEF Next, Boot, Device
<1>4. QED
  BY <1>1, <1>2, <1>3

LEMMA InitSimulates == Init => Uncut!Init
BY DEF Init, Uncut!Init, UncutAt, Uncut!AtIpl, Channel!AtIpl, Zero

(* Cut into pieces whose ends the search finds (PiecesStraight), the       *)
(* channel program does what it does on a channel that fetches each CCW    *)
(* when its turn comes: the same CCWs, the same records, in the same order.*)
THEOREM Refinement == Spec /\ []PiecesStraight => ImplementsUncut
<1>1. Init => RInv /\ Uncut!Init
  BY InitRInv, InitSimulates
<1>2. IInv /\ RInv /\ PiecesStraight /\ [Next]_vars =>
        RInv' /\ [Uncut!Next]_<<disk.records, loaded, UncutAt, track.pos>>
  BY StepSimulates DEF Simulates
<1>3. QED
  BY <1>1, <1>2, Invariance, PTL DEF Spec, ImplementsUncut, Uncut!Spec
===============================================================================
