--------------------------- MODULE Launcher_proofs ---------------------------
(***************************************************************************)
(* The window of Launcher for any sets of images, texts and processes.     *)
(*                                                                         *)
(* The invariants a reader cares for are not inductive alone.  They need   *)
(* that a closed app remembers nothing, that the tracked VM was given a    *)
(* command line, and that a termination notice is only ever about a        *)
(* process that has exited.                                                *)
(***************************************************************************)
EXTENDS Launcher, TLAPS

ClosedForgets ==
  app = "off" => /\ qemuProcess = None /\ mainImageURL = None
                 /\ owned = {} /\ pending = {}

Tracked ==
  qemuProcess # None => /\ status[qemuProcess] # "fresh"
                        /\ args[qemuProcess] \in CommandLine
                        /\ mainImageURL # None

NoticesOfExited == \A p \in pending : status[p] = "exited"

IInv ==
  /\ TypeOK
  /\ ClosedForgets
  /\ Tracked
  /\ NoticesOfExited
  /\ UiConsistent
  /\ NoLostVM
  /\ SettingsSaved

(* Every initial state satisfies the invariant. *)
LEMMA InitIInv == Init => IInv
BY LauncherAssumption
   DEF Init, IInv, TypeOK, ClosedForgets, Tracked, NoticesOfExited,
       UiConsistent, NoLostVM, SettingsSaved, Live, ProcStatus, CommandLine,
       Closed, Shown

(* What a started window returns is a legal appearance. *)
LEMMA ShownType ==
  ASSUME NEW image, NEW process
  PROVE  Shown(image, process) \in
           [button : BOOLEAN, title : {"Start", "Stop"}, controls : BOOLEAN]
BY DEF Shown

(* The end of the app, asked for or not, keeps the invariant. *)
LEMMA AppGoneKeeps == ASSUME IInv, AppGone PROVE IInv'
BY LauncherAssumption
   DEF AppGone, IInv, TypeOK, ClosedForgets, Tracked, NoticesOfExited,
       UiConsistent, NoLostVM, SettingsSaved, Closed, files

(* A process that exits keeps the invariant, tracked or not. *)
LEMMA ExitKeeps ==
  ASSUME IInv, NEW p \in Procs, Live(p), Exit(p) PROVE IInv'
<1>1. TypeOK'
  BY DEF IInv, TypeOK, Exit, settings, files, ProcStatus
<1>2. ClosedForgets' /\ Tracked' /\ NoticesOfExited' /\ UiConsistent'
  BY DEF IInv, TypeOK, Exit, Live, settings, files, ClosedForgets, Tracked,
         NoticesOfExited, UiConsistent, Shown
<1>3. NoLostVM' /\ SettingsSaved'
  BY DEF IInv, TypeOK, Exit, Live, settings, files, NoLostVM, SettingsSaved
<1>4. QED
  BY <1>1, <1>2, <1>3 DEF IInv

(* Every handler of the window keeps the invariant. *)
LEMMA WindowKeeps == ASSUME IInv, Window PROVE IInv'
<1> USE LauncherAssumption
<1>1. CASE ViewDidLoad
  <2>1. mainImageURL' \in Images \cup {None} /\ TypeOK'
    BY <1>1, ShownType DEF IInv, TypeOK, ViewDidLoad, processes, files
  <2>2. QED
    BY <1>1, <2>1
       DEF IInv, ViewDidLoad, ClosedForgets, Tracked, NoticesOfExited,
           UiConsistent, NoLostVM, SettingsSaved, processes, files, Live
<1>2. CASE Quit
  BY <1>2, AppGoneKeeps DEF Quit
<1>3. ASSUME NEW image \in Images, DropMainImage(image) PROVE IInv'
  <2>1. TypeOK'
    BY <1>3, ShownType DEF IInv, TypeOK, DropMainImage, processes, files
  <2>2. QED
    BY <1>3, <2>1
       DEF IInv, TypeOK, DropMainImage, ClosedForgets, Tracked,
           NoticesOfExited, UiConsistent, NoLostVM, SettingsSaved, Live,
           processes, files
<1>4. ASSUME NEW cd \in Cds, DropCdImage(cd) PROVE IInv'
  <2>1. TypeOK'
    BY <1>4, ShownType DEF IInv, TypeOK, DropCdImage, processes, files
  <2>2. QED
    BY <1>4, <2>1
       DEF IInv, DropCdImage, ClosedForgets, Tracked, NoticesOfExited,
           UiConsistent, NoLostVM, SettingsSaved, Live, processes, files
<1>5. ASSUME NEW nic \in Nics \cup {None}, TypeNic(nic) PROVE IInv'
  BY <1>5 DEF IInv, TypeOK, TypeNic, ClosedForgets, Tracked, NoticesOfExited,
              UiConsistent, NoLostVM, SettingsSaved, Live, processes, files
<1>6. CASE NetForwardDidChange
  <2>1. qemuProcess = None
    <3>1. ui = Shown(mainImageURL, qemuProcess) /\ ui.controls
      BY <1>6 DEF IInv, UiConsistent, NetForwardDidChange
    <3>2. ui.controls = (qemuProcess = None)
      BY <3>1 DEF Shown
    <3>3. QED
      BY <3>1, <3>2, Zenon
  <2>2. TypeOK'
    BY <1>6 DEF IInv, TypeOK, NetForwardDidChange, updateNICOptions, settings,
                processes, files
  <2>3. QED
    BY <1>6, <2>1, <2>2
       DEF IInv, TypeOK, NetForwardDidChange, updateNICOptions, settings,
           ClosedForgets, Tracked, NoticesOfExited, UiConsistent, NoLostVM,
           SettingsSaved, Live, processes, files
<1>7. ASSUME NEW p \in Procs, TapStart(p) PROVE IInv'
  <2> DEFINE line ==
        [main |-> mainImageURL, cd |-> cdImageURL, nic |-> nicText]
  <2>1. line \in CommandLine
    BY <1>7 DEF IInv, TypeOK, TapStart, CommandLine
  <2>2. tools' \in [Images -> 0 .. MaxTools]
    BY <1>7 DEF IInv, TypeOK, TapStart, createNvram
  <2>3. TypeOK'
    BY <1>7, <2>1, <2>2, ShownType
       DEF IInv, TypeOK, TapStart, updateNICOptions, settings, ProcStatus
  <2>4. p # None /\ p \notin pending /\ args'[p] = line
    BY <1>7 DEF IInv, TypeOK, TapStart, NoticesOfExited
  <2>5. ClosedForgets' /\ Tracked' /\ NoticesOfExited' /\ UiConsistent'
    BY <1>7, <2>1, <2>4
       DEF IInv, TypeOK, TapStart, ClosedForgets, Tracked, NoticesOfExited,
           UiConsistent, settings
  <2>6. NoLostVM'
    BY <1>7, <2>4 DEF IInv, TypeOK, TapStart, NoLostVM, Live
  <2>7. SettingsSaved'
    BY <1>7, <2>4
       DEF IInv, TypeOK, TapStart, SettingsSaved, updateNICOptions, settings
  <2>8. QED
    BY <2>3, <2>5, <2>6, <2>7 DEF IInv
<1>8. CASE TapStop
  <2>1. TypeOK'
    BY <1>8, ShownType DEF IInv, TypeOK, TapStop, settings, files
  <2>2. QED
    BY <1>8, <2>1
       DEF IInv, TapStop, ClosedForgets, Tracked, NoticesOfExited,
           UiConsistent, NoLostVM, SettingsSaved, Live, settings, files
<1>9. CASE TapStopUnlaunched
  BY <1>9, AppGoneKeeps DEF TapStopUnlaunched
<1>10. ASSUME NEW p \in Procs, ProcessDidTerminate(p) PROVE IInv'
  <2>1. TypeOK'
    BY <1>10, ShownType
       DEF IInv, TypeOK, ProcessDidTerminate, settings, files
  <2>2. ~Live(p)
    BY <1>10 DEF IInv, ProcessDidTerminate, NoticesOfExited, Live
  <2>3. QED
    BY <1>10, <2>1, <2>2
       DEF IInv, ProcessDidTerminate, ClosedForgets, Tracked, NoticesOfExited,
           UiConsistent, NoLostVM, SettingsSaved, Live, settings, files
<1>11. QED
  BY <1>1, <1>2, <1>3, <1>4, <1>5, <1>6, <1>7, <1>8, <1>9, <1>10 DEF Window

(* Every step of the processes and files outside keeps the invariant. *)
LEMMA WorldKeeps == ASSUME IInv, World PROVE IInv'
<1>1. ASSUME NEW p \in Procs,
             QemuOpens(p) \/ QemuGivesUp(p) \/ QemuTerminates(p) \/ QemuExits(p)
      PROVE  IInv'
  <2>1. CASE QemuOpens(p)
    <3>1. TypeOK'
      BY <2>1 DEF IInv, TypeOK, QemuOpens, ProcStatus, settings, files
    <3>2. QED
      BY <2>1, <3>1
         DEF IInv, TypeOK, QemuOpens, ClosedForgets, Tracked, NoticesOfExited,
             UiConsistent, NoLostVM, SettingsSaved, Live, settings, files
  <2>2. CASE QemuGivesUp(p) \/ QemuTerminates(p) \/ QemuExits(p)
    BY <2>2, ExitKeeps DEF QemuGivesUp, QemuTerminates, QemuExits, Live
  <2>3. QED
    BY <1>1, <2>1, <2>2
<1>2. ASSUME NEW image \in Images,
             ToolOpens(image) \/ ToolFinishes(image) \/ MoveImage(image)
      PROVE  IInv'
  <2>1. TypeOK'
    BY <1>2, LauncherAssumption
       DEF IInv, TypeOK, ToolOpens, ToolFinishes, MoveImage, settings,
           processes
  <2>2. QED
    BY <1>2, <2>1
       DEF IInv, ToolOpens, ToolFinishes, MoveImage, ClosedForgets, Tracked,
           NoticesOfExited, UiConsistent, NoLostVM, SettingsSaved, Live,
           settings, processes
<1>3. QED
  BY <1>1, <1>2 DEF World

(* Nothing happening keeps the invariant. *)
LEMMA StutterKeeps == ASSUME IInv, UNCHANGED vars PROVE IInv'
BY DEF vars, IInv, TypeOK, ClosedForgets, Tracked, NoticesOfExited,
       UiConsistent, NoLostVM, SettingsSaved, Live

(* The invariant holds in every reachable state. *)
THEOREM Invariance == Spec => []IInv
<1>1. IInv /\ [Next]_vars => IInv'
  BY WindowKeeps, WorldKeeps, StutterKeeps DEF Next
<1>2. QED
  BY InitIInv, <1>1, PTL DEF Spec

(* Every variable of the window and of its processes keeps its type. *)
THEOREM TypeCorrect == Spec => []TypeOK
<1>1. IInv => TypeOK
  BY DEF IInv
<1>2. QED
  BY Invariance, <1>1, PTL

(* The button, its title and the controls always show the present image    *)
(* and VM, and a tracked VM can always be stopped (updateStates).          *)
THEOREM WindowTellsTheTruth == Spec => [](UiConsistent /\ StopReachable)
<1>1. IInv => UiConsistent /\ StopReachable
  BY DEF IInv, UiConsistent, StopReachable, Tracked, ClosedForgets, Shown,
         TypeOK
<1>2. QED
  BY Invariance, <1>1, PTL

(* A live VM of this app is tracked or was sent SIGTERM.                   *)
THEOREM NeverLosesAVM == Spec => []NoLostVM
<1>1. IInv => NoLostVM
  BY DEF IInv
<1>2. QED
  BY Invariance, <1>1, PTL

(* The next launch restores the image shown and the NIC options in use.    *)
THEOREM SettingsAreSaved == Spec => []SettingsSaved
<1>1. IInv => SettingsSaved
  BY DEF IInv
<1>2. QED
  BY Invariance, <1>1, PTL

(* The window forgets a VM only on Stop, on its exit or with the app.      *)
THEOREM ForgetsOnlyWhenAllowed == Spec => ForgottenOnlyIf
<1> DEFINE Allowed ==
      qemuProcess # None /\ qemuProcess' # qemuProcess =>
        \/ /\ qemuProcess' = None /\ ui.title = "Stop"
           /\ qemuProcess \in signalled'
        \/ qemuProcess' = None /\ status[qemuProcess] = "exited"
        \/ app' = "off"
<1>1. ASSUME IInv, Next PROVE Allowed
  <2>1. CASE ViewDidLoad \/ Quit \/ NetForwardDidChange \/ TapStopUnlaunched
    BY <2>1 DEF ViewDidLoad, Quit, NetForwardDidChange, TapStopUnlaunched,
                AppGone
  <2>2. CASE TapStop
    BY <2>2, <1>1
       DEF TapStop, IInv, TypeOK, Tracked, UiConsistent, Shown, Live,
           ProcStatus
  <2>3. CASE \/ \E image \in Images : DropMainImage(image)
             \/ \E cd \in Cds : DropCdImage(cd)
             \/ \E nic \in Nics \cup {None} : TypeNic(nic)
             \/ \E p \in Procs : TapStart(p)
    BY <2>3 DEF DropMainImage, DropCdImage, TypeNic, TapStart
  <2>4. ASSUME NEW p \in Procs, ProcessDidTerminate(p) PROVE Allowed
    BY <2>4, <1>1 DEF ProcessDidTerminate, IInv, NoticesOfExited
  <2>5. CASE World
    BY <2>5 DEF World, QemuOpens, QemuGivesUp, QemuTerminates, QemuExits, Exit,
                ToolOpens, ToolFinishes, MoveImage
  <2>6. QED
    BY <1>1, <2>1, <2>2, <2>3, <2>4, <2>5 DEF Next, Window
<1>2. IInv /\ [Next]_vars => [Allowed]_vars
  BY <1>1
<1>3. QED
  BY Invariance, <1>2, PTL DEF Spec, ForgottenOnlyIf
==============================================================================
