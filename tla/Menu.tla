--------------------------------- MODULE Menu ---------------------------------
(***************************************************************************)
(* The interactive boot menu of menu.c over the service calls of sclp.c:   *)
(* the prompt reads keys one service call at a time while a timer may run, *)
(* and wakes on whatever external interrupt is there.                      *)
(*                                                                         *)
(* Pressed keys, the timer and the interrupts are external: a service call *)
(* and a pressed key raise one and the same pending signal, the timer's    *)
(* interrupt stays raised while it is enabled and comes first.             *)
(***************************************************************************)
EXTENDS Libc, SequencesExt

CONSTANTS
  MAX_BOOT_ENTRIES,  \* indices are below
  BUF_LEN,           \* the characters get_index reads at most (10)
  Keys,              \* characters that are typed
  MaxKeys            \* bound on the keys pressed

NUL == "NUL"
ESCAPE == "ESC"
BACKSP == "DEL"
ENTER == "CR"
None == -1

ASSUME MenuAssumption ==
  /\ MAX_BOOT_ENTRIES \in Nat \ {0} /\ BUF_LEN \in Nat \ {0} /\ MaxKeys \in Nat
  /\ {NUL, ESCAPE, BACKSP, ENTER} \cap Keys = {}

VARIABLES
  flag, timeout,   \* menu.c's: which menus, and whether a timeout is set
  kind,            \* which menu is there to be shown
  valid,           \* valid_entries
  pc, then,        \* the firmware's place; where it goes on after a service call
  buf, idx, inp,   \* of get_index and read_prompt
  index,           \* what is returned
  code,            \* the last external interrupt: "clock" or "service"
  clock, clockOn,  \* the comparator: "off", "set" or "due"; its interrupt enabled
  mask,            \* the receive mask: keys raise a signal
  sig,             \* a service signal is pending
  queue, pressed,  \* how many keys wait to be read, and were pressed at all
  typed            \* history: the keys the running prompt used

prompt == <<buf, idx, inp, typed>>
external == <<code, clock, mask, queue, pressed>>
vars == <<flag, timeout, kind, valid, pc, then, prompt, index, clockOn, sig, external>>

Indices == 0 .. MAX_BOOT_ENTRIES - 1
Empty == [n \in 1 .. BUF_LEN + 1 |-> NUL]

TypeOK ==
  /\ flag \subseteq {"CMD", "ZIPL"} /\ timeout \in BOOLEAN
  /\ kind \in {"zipl", "enum"} /\ valid \subseteq Indices
  /\ {pc, then} \subseteq {"setup", "menu", "ask", "maskOn", "arm", "check", "read",
                           "key", "maskOff", "parse", "consume", "done", "wild"}
  /\ buf \in [1 .. BUF_LEN + 1 -> Keys \cup {NUL}] /\ idx \in 0 .. BUF_LEN
  /\ inp \in Keys \cup {NUL, ESCAPE, BACKSP, ENTER}
  /\ index \in Indices \cup {None}
  /\ code \in {"clock", "service"} /\ clock \in {"off", "set", "due"}
  /\ {clockOn, mask, sig} \subseteq BOOLEAN
  /\ queue \in 0 .. pressed /\ pressed \in 0 .. MaxKeys

Init ==
  /\ flag = {} /\ timeout = FALSE /\ kind \in {"zipl", "enum"}
  /\ valid = {}
  /\ pc = "setup" /\ then = "setup"
  /\ buf = Empty /\ idx = 0 /\ inp = NUL /\ typed = <<>> /\ index = None
  /\ code = "service" /\ clock = "off" /\ clockOn = FALSE
  /\ mask = FALSE /\ sig = FALSE /\ queue = 0 /\ pressed = 0

-----------------------------------------------------------------------------
(* Service calls and interrupts.                                           *)

Service(next) == pc' = "consume" /\ then' = next /\ sig' = TRUE
Goto(next) == pc' = next /\ UNCHANGED <<then, sig>>

(* One interrupt is taken; the firmware waits when there is none.          *)
ClockInterrupt == clockOn /\ clock = "due"
TakeInterrupt ==
  \/ ClockInterrupt /\ code' = "clock" /\ UNCHANGED sig
  \/ ~ClockInterrupt /\ sig /\ sig' = FALSE /\ code' = "service"

Consume ==
  /\ pc = "consume" /\ TakeInterrupt
  /\ pc' = then
  /\ UNCHANGED <<flag, timeout, kind, valid, then, prompt, index, clock, clockOn,
                 mask, queue, pressed>>

(* A key; which one is told when it is read.                               *)
Press ==
  /\ pressed < MaxKeys /\ pc \notin {"done", "wild"}
  /\ pressed' = pressed + 1 /\ queue' = queue + 1
  /\ sig' = (sig \/ mask)
  /\ UNCHANGED <<flag, timeout, kind, valid, pc, then, prompt, index, code, clock,
                 clockOn, mask>>

TimerDue ==
  /\ clock = "set" /\ clock' = "due"
  /\ UNCHANGED <<flag, timeout, kind, valid, pc, then, prompt, index, code, clockOn,
                 mask, sig, queue, pressed>>

-----------------------------------------------------------------------------
(* Which menu is shown.                                                    *)

(* The load parameter's "PROMPT" asks for a menu without a timeout; an     *)
(* empty one leaves it to what QEMU passes for a disk; else there is none. *)
MenuParms ==
  {<<{}, FALSE>>, <<{"CMD"}, FALSE>>} \cup ((SUBSET {"CMD", "ZIPL"}) \X BOOLEAN)
Setup ==
  /\ pc = "setup" /\ Goto("menu")
  /\ \E p \in MenuParms : flag' = p[1] /\ timeout' = p[2]
  /\ UNCHANGED <<kind, valid, prompt, index, clockOn, external>>

Enabled(k) == IF k = "zipl" THEN flag # {} ELSE "CMD" \in flag

NotEnabled ==
  /\ pc = "menu" /\ ~Enabled(kind) /\ Goto("done")
  /\ UNCHANGED <<flag, timeout, kind, valid, prompt, index, clockOn, external>>

(* zIPL's own settings count when it is left to zIPL alone.                *)
ZiplDefault ==
  /\ pc = "menu" /\ kind = "zipl" /\ flag = {"ZIPL"}
  /\ index' = 0 /\ Goto("done")
  /\ UNCHANGED <<flag, timeout, kind, valid, prompt, clockOn, external>>

(* The entries are numbers in the menu's text on the disk, which may be    *)
(* anything: valid_entries is written for each without a check, and where  *)
(* one is no index the write is past the array, or before it.              *)
ZiplMenu ==
  /\ pc = "menu" /\ kind = "zipl" /\ Enabled(kind)
  /\ timeout' \in (IF flag = {"ZIPL"} THEN BOOLEAN ELSE {timeout})
  /\ \/ valid' \in SUBSET Indices /\ Service("ask")
     \/ Goto("wild") /\ UNCHANGED valid
  /\ UNCHANGED <<flag, kind, prompt, index, clockOn, external>>
EnumMenu ==
  /\ pc = "menu" /\ kind = "enum" /\ Enabled(kind)
  /\ valid' \in SUBSET Indices /\ Service("ask")
  /\ UNCHANGED <<flag, timeout, kind, prompt, index, clockOn, external>>

-----------------------------------------------------------------------------
(* A prompt.                                                               *)

(* boot_menu_prompt.                                                       *)
Ask ==
  /\ pc = "ask" /\ Service("maskOn")
  /\ UNCHANGED <<flag, timeout, kind, valid, prompt, index, clockOn, external>>

MaskOn ==
  /\ pc = "maskOn" /\ mask' = TRUE /\ Service("arm")
  /\ buf' = Empty /\ idx' = 0 /\ inp' = NUL /\ typed' = <<>>
  /\ UNCHANGED <<flag, timeout, kind, valid, index, code, clock, clockOn, queue, pressed>>

(* A fault: the timer's interrupt is not enabled.                          *)
ArmDisabled ==
  /\ pc = "arm" /\ Goto("check")
  /\ timeout' = FALSE /\ clock' = (IF timeout THEN "set" ELSE clock)
  /\ UNCHANGED <<flag, kind, valid, prompt, index, clockOn, code, mask, queue, pressed>>

(* The head of read_prompt: a timeout counts once.                         *)
Arm ==
  /\ pc = "arm" /\ Goto("check")
  /\ IF timeout THEN timeout' = FALSE /\ clock' = "set" /\ clockOn' = TRUE
     ELSE UNCHANGED <<timeout, clock, clockOn>>
  /\ UNCHANGED <<flag, kind, valid, prompt, index, code, mask, queue, pressed>>

(* check_clock_int: whatever comes is taken, and then looked at.           *)
(* A fault: any interrupt is good for a key.                               *)
Awake == pc = "check" /\ TakeInterrupt /\ UNCHANGED then
KeySignalAny ==
  /\ Awake /\ pc' = "read"
  /\ UNCHANGED <<flag, timeout, kind, valid, prompt, index, clock, clockOn, mask,
                 queue, pressed>>
KeySignal ==
  /\ Awake /\ code' = "service" /\ pc' = "read"
  /\ UNCHANGED <<flag, timeout, kind, valid, prompt, index, clock, clockOn, mask,
                 queue, pressed>>
TimeIsUp ==
  /\ Awake /\ code' = "clock" /\ pc' = "maskOff"
  /\ clockOn' = FALSE /\ buf' = [buf EXCEPT ![1] = NUL] /\ idx' = 0
  /\ typed' = <<>>
  /\ UNCHANGED <<flag, timeout, kind, valid, inp, index, clock, mask, queue, pressed>>

(* sclp_read: the call hands over keys that wait, and the first is kept.   *)
Read ==
  /\ pc = "read" /\ Service("key")
  /\ IF queue = 0 THEN UNCHANGED <<queue, inp>>
     ELSE /\ queue' \in 0 .. queue - 1
          /\ inp' \in Keys \cup {NUL, ESCAPE, BACKSP, ENTER}
  /\ typed' = Append(typed, inp')
  /\ UNCHANGED <<flag, timeout, kind, valid, buf, idx, index, clockOn, code, clock,
                 mask, pressed>>

Ignored ==
  /\ pc = "key" /\ Goto("check")
  /\ \/ inp \in {NUL, ESCAPE}
     \/ inp = BACKSP /\ idx = 0
     \/ inp \in Keys /\ idx >= BUF_LEN
  /\ UNCHANGED <<flag, timeout, kind, valid, prompt, index, clockOn, external>>

(* A fault: the character is left in the buffer.                           *)
EraseKeepsByte ==
  /\ pc = "key" /\ inp = BACKSP /\ idx > 0
  /\ idx' = idx - 1 /\ Service("check")
  /\ UNCHANGED <<flag, timeout, kind, valid, buf, inp, typed, index, clockOn, external>>
Erase ==
  /\ pc = "key" /\ inp = BACKSP /\ idx > 0
  /\ buf' = [buf EXCEPT ![idx] = NUL] /\ idx' = idx - 1
  /\ Service("check")
  /\ UNCHANGED <<flag, timeout, kind, valid, inp, typed, index, clockOn, external>>

(* A fault: the place of the final NUL is taken too.                       *)
AddOneMore ==
  /\ pc = "key" /\ inp \in Keys /\ idx <= BUF_LEN
  /\ buf' = [buf EXCEPT ![idx + 1] = inp] /\ idx' = idx + 1
  /\ Service("check")
  /\ UNCHANGED <<flag, timeout, kind, valid, inp, typed, index, clockOn, external>>
Add ==
  /\ pc = "key" /\ inp \in Keys /\ idx < BUF_LEN
  /\ buf' = [buf EXCEPT ![idx + 1] = inp] /\ idx' = idx + 1
  /\ Service("check")
  /\ UNCHANGED <<flag, timeout, kind, valid, inp, typed, index, clockOn, external>>

Enter ==
  /\ pc = "key" /\ inp = ENTER /\ Goto("maskOff") /\ clockOn' = FALSE
  /\ UNCHANGED <<flag, timeout, kind, valid, prompt, index, external>>

MaskOff ==
  /\ pc = "maskOff" /\ mask' = FALSE /\ Service("parse")
  /\ UNCHANGED <<flag, timeout, kind, valid, prompt, index, code, clock, clockOn,
                 queue, pressed>>

(* What get_index makes of the buffer: the text up to the first NUL.       *)
End == CHOOSE n \in DOMAIN buf : buf[n] = NUL /\ \A m \in 1 .. n - 1 : buf[m] # NUL
Text == SubSeq(buf, 1, End - 1)
Choice ==
  IF idx = 0 THEN 0
  ELSE IF \E n \in 1 .. idx : ~isdigit(buf[n]) THEN -1
  ELSE atoui(Text)

(* get_boot_index.                                                         *)
Boot ==
  /\ pc = "parse" /\ Choice \in valid
  /\ index' = Choice /\ Goto("done")
  /\ UNCHANGED <<flag, timeout, kind, valid, prompt, clockOn, external>>
Retry ==
  /\ pc = "parse" /\ Choice \notin valid /\ Goto("ask")
  /\ UNCHANGED <<flag, timeout, kind, valid, prompt, index, clockOn, external>>

Firmware ==
  \/ Setup \/ NotEnabled \/ ZiplDefault \/ ZiplMenu \/ EnumMenu
  \/ Consume \/ Ask \/ MaskOn \/ Arm \/ KeySignal \/ TimeIsUp \/ Read
  \/ Ignored \/ Erase \/ Add \/ Enter \/ MaskOff \/ Boot \/ Retry

Next ==
  \/ Firmware
  \/ Press
  \/ TimerDue

Spec == Init /\ [][Next]_vars

(* The firmware runs whenever it is not waiting, and the clock goes on.    *)
FairSpec == Spec /\ WF_vars(Firmware) /\ WF_vars(TimerDue)

-----------------------------------------------------------------------------
(* Properties.                                                             *)

(* A key is read only when one is there: the signals of the service calls  *)
(* and of the timer are never mistaken for a pressed key.                  *)
NoSpuriousRead == pc = "read" => queue > 0

(* What a line editor makes of keys.                                       *)
Keystroke(text, key) ==
  IF key = BACKSP /\ text # <<>> THEN Front(text)
  ELSE IF key \in Keys /\ Len(text) < BUF_LEN THEN Append(text, key)
  ELSE text
Edit(keys) ==
  LET text[n \in 0 .. Len(keys)] ==
        IF n = 0 THEN <<>> ELSE Keystroke(text[n - 1], keys[n])
  IN text[Len(keys)]

Asked == pc = "done" /\ mask = FALSE /\ then = "parse"

(* The entry booted is one of the menu's, and is what was typed and not    *)
(* erased where that is a number an int holds; it is the default only when *)
(* nothing was typed, or the time was up.  A number an int does not hold   *)
(* may boot any entry, although libc.c:23-24 speaks of UINT64_MAX.         *)
BootsWhatWasTyped ==
  Asked =>
    /\ index \in valid
    /\ LET text == Edit(typed)
       IN IF text = <<>> THEN index = 0
          ELSE /\ \A n \in DOMAIN text : isdigit(text[n])
               /\ NumberOf(text) \in 0 .. WORD \div 2 - 1 =>
                    index = NumberOf(text)

(* A prompt with a timeout is left, whatever keys are pressed.             *)
TimedPromptEnds == (pc = "arm" /\ timeout) ~> pc = "maskOff"
=============================================================================
