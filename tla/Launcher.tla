------------------------------ MODULE Launcher ------------------------------
(***************************************************************************)
(* The ACVM window: ViewController, its FileDropViews, the settings it     *)
(* keeps in UserDefaults, and the processes it starts.                     *)
(*                                                                         *)
(* Every handler of ViewController runs to its end on the main thread, so  *)
(* a handler is one action.  What interleaves with the handlers is the     *)
(* world outside the main thread: QEMU and qemu-img run as processes of    *)
(* their own, the termination of a process is told by a notification that  *)
(* reaches the main thread later, and files come and go.                   *)
(*                                                                         *)
(* The text of the cpu, ram, display and extra-argument fields only        *)
(* selects words of the command line and is left out.  The NIC field is    *)
(* kept, because it is persisted.                                          *)
(***************************************************************************)
EXTENDS Naturals, FiniteSets

CONSTANTS
  Images,   \* disk images the user can drop on the main image view
  Cds,      \* CD images the user can drop on the cd view
  Nics,     \* non-empty texts of the NIC options field
  Procs,    \* Process objects, i.e. bound on the number of VM starts
  MaxTools, \* bound on qemu-img runs in flight for one image
  None      \* Swift's nil, and the empty NIC text

ASSUME LauncherAssumption ==
  /\ None \notin Images \cup Cds \cup Nics \cup Procs
  /\ MaxTools \in Nat \ {0}

VARIABLES
  app,          \* "off", or "on" once viewDidLoad has run
  mainImageURL, \* ViewController.mainImageURL
  cdImageURL,   \* ViewController.cdImageURL
  qemuProcess,  \* ViewController.qemuProcess
  nicText,      \* nicOptionsTextField.stringValue
  ui,           \* what updateStates last showed: [button, title, controls]
  defaults,     \* UserDefaults: [main, nic]
  status,       \* per Process object: see ProcStatus
  args,         \* per Process object: the command line it was given
  signalled,    \* processes that were sent SIGTERM by terminate()
  owned,        \* processes launched by the running instance of the app
  pending,      \* terminations whose notification is not delivered yet
  exists,       \* the images whose file is on disk
  nvram,        \* per image: the state of the file "<image>.nvram"
  tools         \* per image: qemu-img runs that have not opened the file yet

vars == <<app, mainImageURL, cdImageURL, qemuProcess, nicText, ui, defaults,
          status, args, signalled, owned, pending, exists, nvram, tools>>

settings == <<mainImageURL, cdImageURL, nicText>>
processes == <<status, args, signalled, owned, pending>>
files == <<exists, nvram, tools>>

(***************************************************************************)
(* "fresh": not allocated.  "unlaunched": run() threw.  "started": QEMU    *)
(* runs but has not opened its drives.  "booted": it has.  "exited".       *)
(***************************************************************************)
ProcStatus == {"fresh", "unlaunched", "started", "booted", "exited"}
Live(p) == status[p] \in {"started", "booted"}

CommandLine == [main : Images, cd : Cds \cup {None}, nic : Nics \cup {None}]

(* A fault of updateStates: the button is disabled with the controls.      *)
ShownDisabled(image, process) ==
  [button   |-> image # None /\ process = None,
   title    |-> IF process # None THEN "Stop" ELSE "Start",
   controls |-> process = None]

(* updateStates(): the button, its title and the enabled flag of the       *)
(* controls as a function of the two properties it reads.                  *)
Shown(image, process) ==
  [button   |-> image # None,
   title    |-> IF process # None THEN "Stop" ELSE "Start",
   controls |-> process = None]

(* The window of an app that is not running shows nothing to click.        *)
Closed == [button |-> FALSE, title |-> "Start", controls |-> FALSE]

TypeOK ==
  /\ app \in {"off", "on"}
  /\ mainImageURL \in Images \cup {None}
  /\ cdImageURL \in Cds \cup {None}
  /\ qemuProcess \in Procs \cup {None}
  /\ nicText \in Nics \cup {None}
  /\ ui \in [button : BOOLEAN, title : {"Start", "Stop"}, controls : BOOLEAN]
  /\ defaults \in [main : Images \cup {None}, nic : Nics \cup {None}]
  /\ status \in [Procs -> ProcStatus]
  /\ args \in [Procs -> CommandLine \cup {None}]
  /\ signalled \subseteq Procs
  /\ owned \subseteq Procs
  /\ pending \subseteq Procs
  /\ exists \subseteq Images
  /\ nvram \in [Images -> {"absent", "growing", "ready"}]
  /\ tools \in [Images -> 0 .. MaxTools]

Init ==
  /\ app = "off"
  /\ mainImageURL = None /\ cdImageURL = None /\ qemuProcess = None
  /\ nicText = None
  /\ ui = Closed
  /\ defaults = [main |-> None, nic |-> None]
  /\ status = [p \in Procs |-> "fresh"]
  /\ args = [p \in Procs |-> None]
  /\ signalled = {} /\ owned = {} /\ pending = {}
  /\ exists = Images
  /\ nvram = [i \in Images |-> "absent"]
  /\ tools = [i \in Images |-> 0]

-----------------------------------------------------------------------------
(* The life of the app.                                                    *)

(* viewDidLoad(): the saved image is taken only while its file exists, but *)
(* the saved path is kept either way.                                      *)
ViewDidLoad ==
  /\ app = "off"
  /\ app' = "on"
  /\ mainImageURL' = IF defaults.main \in exists THEN defaults.main ELSE None
  /\ nicText' = defaults.nic
  /\ ui' = Shown(mainImageURL', qemuProcess)
  /\ UNCHANGED <<cdImageURL, qemuProcess, defaults, processes, files>>

(* The instance of the app is gone: its memory is lost, its observers with *)
(* it, and the processes it launched go on (AppDelegate stops none).       *)
AppGone ==
  /\ app' = "off"
  /\ mainImageURL' = None /\ cdImageURL' = None /\ qemuProcess' = None
  /\ nicText' = None
  /\ ui' = Closed
  /\ owned' = {} /\ pending' = {}
  /\ UNCHANGED <<defaults, status, args, signalled, files>>

Quit == app = "on" /\ AppGone

-----------------------------------------------------------------------------
(* Handlers of the window.                                                 *)

(* fileDropView(_:didUpdate:) for the main image.  performDragOperation    *)
(* does not look at isEnabled: the drop is taken while a VM runs, too.     *)
DropMainImage(image) ==
  /\ app = "on" /\ image \in exists
  /\ defaults' = [defaults EXCEPT !.main = image]
  /\ mainImageURL' = image
  /\ ui' = Shown(image, qemuProcess)
  /\ UNCHANGED <<app, cdImageURL, qemuProcess, nicText, processes, files>>

(* fileDropView(_:didUpdate:) for the cd image.                            *)
DropCdImage(cd) ==
  /\ app = "on"
  /\ cdImageURL' = cd
  /\ ui' = Shown(mainImageURL, qemuProcess)
  /\ UNCHANGED <<app, mainImageURL, qemuProcess, nicText, defaults, processes,
                 files>>

(* The user types in the NIC field, which is enabled with the controls.    *)
TypeNic(nic) ==
  /\ app = "on" /\ ui.controls
  /\ nicText' = nic
  /\ UNCHANGED <<app, mainImageURL, cdImageURL, qemuProcess, ui, defaults,
                 processes, files>>

(* updateNICOptions(): an empty field removes the setting.                 *)
updateNICOptions == defaults' = [defaults EXCEPT !.nic = nicText]

(* netForwardDidChange(_:), sent when the edit of the field is committed.  *)
NetForwardDidChange ==
  /\ app = "on" /\ ui.controls
  /\ updateNICOptions
  /\ UNCHANGED <<app, settings, qemuProcess, ui, processes, files>>

(* The part of didTapStartButton(_:) that makes the nvram file: qemu-img   *)
(* is started when the file does not exist, and nobody waits for it; when  *)
(* it cannot be started, the error is logged and the VM start goes on.     *)
createNvram(image) ==
  \/ /\ nvram[image] = "absent"
     /\ tools[image] < MaxTools
     /\ tools' = [tools EXCEPT ![image] = @ + 1]
  \/ /\ nvram[image] = "absent"       \* qemuimg.run() threw
     /\ UNCHANGED tools
  \/ /\ nvram[image] # "absent"
     /\ UNCHANGED tools

(* didTapStartButton(_:) with no VM.  run() is the last call; when it      *)
(* throws, the error is logged and qemuProcess keeps the Process object.   *)
TapStart(p) ==
  /\ app = "on" /\ ui.button
  /\ qemuProcess = None
  /\ mainImageURL # None
  /\ status[p] = "fresh"
  /\ createNvram(mainImageURL)
  /\ updateNICOptions
  /\ args' = [args EXCEPT ![p] =
                [main |-> mainImageURL, cd |-> cdImageURL, nic |-> nicText]]
  /\ qemuProcess' = p
  /\ ui' = Shown(mainImageURL, p)
  /\ \/ /\ status' = [status EXCEPT ![p] = "started"]
        /\ owned' = owned \cup {p}
     \/ /\ status' = [status EXCEPT ![p] = "unlaunched"]
        /\ UNCHANGED owned
  /\ UNCHANGED <<app, settings, signalled, pending, exists, nvram>>

(* A fault of Stop: the VM is forgotten and not told.                      *)
TapStopNoTerminate ==
  /\ app = "on" /\ ui.button
  /\ qemuProcess # None /\ status[qemuProcess] # "unlaunched"
  /\ qemuProcess' = None
  /\ ui' = Shown(mainImageURL, None)
  /\ UNCHANGED <<app, settings, defaults, processes, files>>

(* didTapStartButton(_:) with a launched VM: terminate() sends SIGTERM (it *)
(* has no effect on a process that has exited) and the VM is forgotten at  *)
(* once, whether or not it has exited.                                     *)
TapStop ==
  /\ app = "on" /\ ui.button
  /\ qemuProcess # None
  /\ status[qemuProcess] # "unlaunched"
  /\ signalled' = IF Live(qemuProcess) THEN signalled \cup {qemuProcess}
                                       ELSE signalled
  /\ qemuProcess' = None
  /\ ui' = Shown(mainImageURL, None)
  /\ UNCHANGED <<app, settings, defaults, status, args, owned, pending, files>>

(* terminate() of a Process that was never launched raises an exception    *)
(* out of the handler.  AppKit's event loop may swallow it, and then       *)
(* nothing has changed; or the app dies, which is this action.             *)
TapStopUnlaunched ==
  /\ app = "on" /\ ui.button
  /\ qemuProcess # None
  /\ status[qemuProcess] = "unlaunched"
  /\ AppGone

(* A fault of processDidTerminate: any notice ends the present VM.         *)
NoticeTakenForAny(p) ==
  /\ app = "on" /\ p \in pending
  /\ pending' = pending \ {p}
  /\ qemuProcess' = None /\ ui' = Shown(mainImageURL, None)
  /\ UNCHANGED <<app, settings, defaults, status, args, signalled, owned, files>>

(* processDidTerminate(_:), the notification of p's termination.           *)
ProcessDidTerminate(p) ==
  /\ app = "on" /\ p \in pending
  /\ pending' = pending \ {p}
  /\ IF p = qemuProcess
     THEN /\ qemuProcess' = None
          /\ ui' = Shown(mainImageURL, None)
     ELSE UNCHANGED <<qemuProcess, ui>>
  /\ UNCHANGED <<app, settings, defaults, status, args, signalled, owned,
                 files>>

-----------------------------------------------------------------------------
(* Processes and files: external to src/, modelled from how it uses them.  *)

(* The Process class of a running app posts the termination of a process   *)
(* that this app launched.                                                 *)
Exit(p) ==
  /\ status' = [status EXCEPT ![p] = "exited"]
  /\ pending' = IF p \in owned THEN pending \cup {p} ELSE pending
  /\ UNCHANGED <<app, settings, qemuProcess, ui, defaults, args, signalled,
                 owned, files>>

(* QEMU opens "file=<image>" and "file=<image>.nvram": it boots when both  *)
(* are there and the nvram file has its full size, and gives up otherwise. *)
CanOpen(p) == args[p].main \in exists /\ nvram[args[p].main] = "ready"

QemuOpens(p) ==
  /\ status[p] = "started" /\ CanOpen(p)
  /\ status' = [status EXCEPT ![p] = "booted"]
  /\ UNCHANGED <<app, settings, qemuProcess, ui, defaults, args, signalled,
                 owned, pending, files>>

QemuGivesUp(p) == status[p] = "started" /\ ~CanOpen(p) /\ Exit(p)

(* QEMU handles SIGTERM by a shutdown that takes its time.                 *)
QemuTerminates(p) == Live(p) /\ p \in signalled /\ Exit(p)

(* The guest powers off, or QEMU fails.                                    *)
QemuExits(p) == status[p] = "booted" /\ Exit(p)

(* qemu-img opens and truncates the nvram file, then gives it its size, or *)
(* fails in between and leaves it short.                                   *)
ToolOpens(image) ==
  /\ tools[image] > 0
  /\ tools' = [tools EXCEPT ![image] = @ - 1]
  /\ nvram' = [nvram EXCEPT ![image] = "growing"]
  /\ UNCHANGED <<app, settings, qemuProcess, ui, defaults, processes, exists>>

ToolFinishes(image) ==
  /\ nvram[image] = "growing"
  /\ nvram' = [nvram EXCEPT ![image] = "ready"]
  /\ UNCHANGED <<app, settings, qemuProcess, ui, defaults, processes, exists,
                 tools>>

(* The user moves the image away, or back.                                 *)
MoveImage(image) ==
  /\ exists' = IF image \in exists THEN exists \ {image}
                                   ELSE exists \cup {image}
  /\ UNCHANGED <<app, settings, qemuProcess, ui, defaults, processes, nvram,
                 tools>>

-----------------------------------------------------------------------------
Window ==
  \/ ViewDidLoad
  \/ Quit
  \/ \E image \in Images : DropMainImage(image)
  \/ \E cd \in Cds : DropCdImage(cd)
  \/ \E nic \in Nics \cup {None} : TypeNic(nic)
  \/ NetForwardDidChange
  \/ \E p \in Procs : TapStart(p)
  \/ TapStop
  \/ TapStopUnlaunched
  \/ \E p \in Procs : ProcessDidTerminate(p)

World ==
  \/ \E p \in Procs : \/ QemuOpens(p)
                      \/ QemuGivesUp(p)
                      \/ QemuTerminates(p)
                      \/ QemuExits(p)
  \/ \E image \in Images : \/ ToolOpens(image)
                           \/ ToolFinishes(image)
                           \/ MoveImage(image)

Next == Window \/ World

Spec == Init /\ [][Next]_vars

-----------------------------------------------------------------------------
(* Properties.                                                             *)

(* updateStates() is called after every assignment it depends on: the      *)
(* button, its title and the controls always show the present image and    *)
(* VM, whatever order clicks, drops and termination notices come in.       *)
UiConsistent == app = "on" => ui = Shown(mainImageURL, qemuProcess)

(* While a VM is tracked, didTapStartButton can stop it: the button is     *)
(* enabled although it is enabled by the image alone, and says "Stop".     *)
StopReachable ==
  qemuProcess # None => ui.button /\ ui.title = "Stop" /\ mainImageURL # None

(* A VM of this app that still runs is either the one the window tracks or *)
(* was sent SIGTERM: didTapStartButton and processDidTerminate never drop  *)
(* a running VM on the floor.                                              *)
NoLostVM ==
  \A p \in owned : Live(p) => p = qemuProcess \/ p \in signalled

(* What the window shows is what the next launch restores: fileDropView    *)
(* saves every image it accepts, and didTapStartButton saves the NIC       *)
(* options of the VM it starts, committed or not.                          *)
SettingsSaved ==
  /\ mainImageURL # None => defaults.main = mainImageURL
  /\ qemuProcess # None => defaults.nic = args[qemuProcess].nic

(* The window forgets a VM only when the user stops it, when the VM has    *)
(* exited, or when the app ends: a late notice of an earlier VM never      *)
(* makes it forget a later one (processDidTerminate).                      *)
ForgottenOnlyIf ==
  [][qemuProcess # None /\ qemuProcess' # qemuProcess =>
       \/ qemuProcess' = None /\ ui.title = "Stop" /\ qemuProcess \in signalled'
       \/ qemuProcess' = None /\ status[qemuProcess] = "exited"
       \/ app' = "off"]_vars
=============================================================================
