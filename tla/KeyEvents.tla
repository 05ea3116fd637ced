----------------------------- MODULE KeyEvents -----------------------------
(***************************************************************************)
(* The path of a key press from the i8042 controller to the process that   *)
(* waits for it: the keyboard driver (keyboard/keyboard.cpp), its IRQ      *)
(* thread (rdm.cpp, KeyboardHandler.cpp) and the KeyEvent class of the     *)
(* user library (raylib/keyboard/keyboard.cpp), which the console and the  *)
(* profiler construct.                                                     *)
(*                                                                         *)
(* A key press is its serial number; 0 stands for "no key yet".  The       *)
(* kernel is external: a barrier lets arrivals through while it is open,   *)
(* a remote call that the kernel accepts becomes a task of the listener's  *)
(* process, and a call to a process that is gone, or whose queue is full,  *)
(* is refused with an error that InvokeRemote turns into IPCCommException. *)
(*                                                                         *)
(* A command to the controller is one step here: the poll, the write and   *)
(* the controller's taking of it, with what can happen to it in between as *)
(* choices of their own.  Single port accesses, the controller's replies   *)
(* and a byte that the firmware left in the buffer are in I8042.           *)
(***************************************************************************)
EXTENDS Naturals, FiniteSets

CONSTANTS Clients,        \* processes that construct a KeyEvent
          MaxKeys,        \* bound on the key presses of a behaviour
          MaxTasks,       \* IPC tasks the kernel runs at once in one process
          MaxQueued,      \* calls the kernel queues for one process
          SyncName,       \* SyncName[c]: the barrier c's "KeyEventSync" denotes
          Firmware,       \* the control registers a firmware may leave
          WaitsMayFail,   \* may a wait for the controller end at its last poll?
          MayExit,        \* may a listener process end?
          DriverMayFail   \* may a setup call of the driver throw?

ASSUME KeysAssumption  == MaxKeys \in Nat /\ MaxTasks \in Nat /\ MaxQueued \in Nat
ASSUME NamesAssumption == SyncName \in [Clients -> {SyncName[c] : c \in Clients}]
ASSUME FirmwareAssumption == Firmware \subseteq SUBSET {"int", "dis"}
ASSUME FlagsAssumption ==
  WaitsMayFail \in BOOLEAN /\ MayExit \in BOOLEAN /\ DriverMayFail \in BOOLEAN

Keys     == 1..MaxKeys
Barriers == {SyncName[c] : c \in Clients}

VARIABLES
  drv,        \* where the driver's main thread is in UserProgramEntry
  ready,      \* KEYBOARD_BARRIER is open
  irq,        \* where the driver's IRQ thread is
  ctr,        \* the control register: "int" is KBDINT, "dis" is KBDDIS
  expect,     \* the controller takes the next data byte for WCTR's parameter
  irqPending, \* an interrupt waits for the IRQ thread
  obf,        \* the controller's output buffer holds a scan code
  pressed,    \* presses so far
  fetched,    \* presses the controller has taken from the keyboard
  failed,     \* history: the last WCTR or KBD_ENABLE that was to switch the port on
              \* did not reach the controller
  cur,        \* the press HandleIRQ read last
  cables,     \* listeners plugged into the driver's socket
  snap,       \* cableList entries that NotifyObservers has still to call
  opened,     \* the KeyEventSync barriers that are open
  cpc,        \* where each listener's main thread is
  call,       \* call[c][k]: progress of the callback of c for press k
  saved,      \* KeyEvent::savedValue of each listener
  last        \* what GetRawInputKey of each listener returned last

drvVars == <<drv, ready>>
ctrVars == <<ctr, expect, failed>>
hwVars  == <<ctrVars, irqPending, obf, pressed, fetched>>
irqVars == <<irq, cur, snap>>
cliVars == <<cables, opened, cpc, saved, last>>
vars    == <<drvVars, hwVars, irqVars, cliVars, call>>

\* InitDriver's commands: RCTR, and WCTR with its parameter twice.
InitPC == {"read", "off", "offParam", "on", "onParam"}
DrvPC  == InitPC \cup {"create", "register", "plug", "handler", "check", "go", "sleep", "failed"}
IrqPC  == {"none", "register", "wait", "disable", "drain", "notify", "enable"}
CliPC  == {"start", "waitDriver", "plug", "sync", "idle", "waitKey", "woken", "dead"}
CallPC == {"none", "queued", "save", "go", "close", "done"}

Types ==
  /\ drv \in DrvPC
  /\ irq \in IrqPC
  /\ ready \in BOOLEAN /\ irqPending \in BOOLEAN /\ obf \in BOOLEAN
  /\ ctr \subseteq {"int", "dis"}
  /\ expect \in BOOLEAN /\ failed \in BOOLEAN
  /\ pressed \in 0..MaxKeys /\ fetched \in 0..MaxKeys
  /\ cur \in 0..MaxKeys /\ (irq = "notify" => cur \in Keys)
  /\ cables \subseteq Clients /\ snap \subseteq Clients
  /\ opened \subseteq Barriers
  /\ cpc \in [Clients -> CliPC]
  /\ call \in [Clients -> [Keys -> CallPC]]
  /\ saved \in [Clients -> 0..MaxKeys]
  /\ last \in [Clients -> 0..MaxKeys]

\* The variables have their types, and the listeners that NotifyObservers has still to
\* call were not called for the code just read: one reading, one call of each.
TypeOK == Types /\ (irq = "notify" => \A c \in snap : call[c][cur] = "none")

Init ==
  /\ drv = "create" /\ ready = FALSE
  /\ ctr \in Firmware      \* as the firmware left the controller
  /\ expect = FALSE /\ failed = FALSE
  /\ irqPending = FALSE /\ obf = FALSE /\ pressed = 0 /\ fetched = 0
  /\ irq = "none" /\ cur = 0 /\ snap = {}
  /\ cables = {} /\ opened = {}
  /\ cpc = [c \in Clients |-> "start"]
  /\ call = [c \in Clients |-> [k \in Keys |-> "none"]]
  /\ saved = [c \in Clients |-> 0]
  /\ last = [c \in Clients |-> 0]

-----------------------------------------------------------------------------
(* The keyboard and the controller.                                        *)

Press ==
  /\ pressed < MaxKeys
  /\ pressed' = pressed + 1
  /\ UNCHANGED <<drvVars, ctrVars, irqPending, obf, fetched, irqVars, cliVars, call>>

\* The controller takes the next scan code when its buffer is free and raises
\* the interrupt, which the kernel keeps until the IRQ thread waits for it.
Transfer ==
  /\ "dis" \notin ctr /\ ~obf /\ fetched < pressed
  /\ obf' = TRUE /\ fetched' = fetched + 1
  /\ irqPending' = (irqPending \/ "int" \in ctr)
  /\ UNCHANGED <<drvVars, ctrVars, pressed, irqVars, cliVars, call>>

-----------------------------------------------------------------------------
(* The driver's main thread: UserProgramEntry and InitDriver.              *)

DrvStep(from, to) == drv = from /\ drv' = to

\* Create KEYBOARD_BARRIER (the result is ignored), register the wall and the
\* socket, plug the socket in.
DrvSetup ==
  /\ \/ DrvStep("create", "register")
     \/ DrvStep("register", "plug")
     \/ DrvStep("plug", "handler")
  /\ UNCHANGED <<ready, hwVars, irqVars, cliVars, call>>

\* Mutant: Go before the driver is initialised.
DrvHandlerGoes ==
  /\ DrvStep("handler", "check")
  /\ irq' = "register" /\ ready' = TRUE
  /\ UNCHANGED <<hwVars, cur, snap, cliVars, call>>

\* The IRQHandler constructor starts the IRQ thread.
DrvHandler ==
  /\ DrvStep("handler", "check")
  /\ irq' = "register"
  /\ UNCHANGED <<ready, hwVars, cur, snap, cliVars, call>>

\* I8042ControllerCheck flushes the output buffer; InitDriver ignores its result.
DrvCheck ==
  /\ DrvStep("check", "read")
  /\ obf' = FALSE
  /\ UNCHANGED <<ready, ctrVars, irqPending, pressed, fetched, irqVars, cliVars, call>>

\* I8042ControllerInit: RCTR and its reply, or the scan code that is in its place.
DrvRead ==
  /\ DrvStep("read", "off")
  /\ obf' = FALSE
  /\ UNCHANGED <<ready, ctrVars, irqPending, pressed, fetched, irqVars, cliVars, call>>

\* WCTR, for I8042ControllerInit and then for I8042EnableKBDPort.
DrvWctr ==
  /\ DrvStep("off", "offParam") \/ DrvStep("on", "onParam")
  /\ expect' = TRUE
  /\ UNCHANGED <<ready, ctr, failed, irqPending, obf, pressed, fetched,
                 irqVars, cliVars, call>>

DrvParamStep == DrvStep("offParam", "on") \/ DrvStep("onParam", "go")

\* The parameter: keyboard interface and interrupt off, then both on.  An interrupt
\* that is now enabled is raised for a full buffer.
DrvParam ==
  /\ DrvParamStep /\ expect
  /\ ctr' = IF drv = "onParam" THEN {"int"} ELSE {"dis"}
  /\ irqPending' = (irqPending \/ (obf /\ drv = "onParam" /\ "int" \notin ctr))
  /\ expect' = FALSE /\ failed' = (failed /\ drv = "offParam")
  /\ UNCHANGED <<ready, obf, pressed, fetched, irqVars, cliVars, call>>

\* A command of the IRQ thread came between WCTR and its parameter, which then goes
\* to the keyboard, or replaces one of the two before the controller has taken it.
DrvParamLost ==
  /\ DrvParamStep /\ (~expect \/ irq \in {"disable", "enable"})
  /\ expect' = FALSE /\ failed' = (failed \/ drv = "onParam")
  /\ UNCHANGED <<ready, ctr, irqPending, obf, pressed, fetched,
                 irqVars, cliVars, call>>

\* A wait of I8042Command ends at its very last poll and fails: I8042Probe returns
\* -EIO, which InitDriver ignores.  No parameter follows any more.
DrvGiveUp ==
  /\ WaitsMayFail
  /\ drv \in InitPC /\ drv' = "go"
  /\ expect' = FALSE /\ failed' = TRUE
  /\ UNCHANGED <<ready, ctr, irqPending, obf, pressed, fetched,
                 irqVars, cliVars, call>>

\* Mutant: Go(FALSE), which wakes no other process.
DrvGoOwn ==
  /\ DrvStep("go", "sleep")
  /\ ready' = TRUE
  /\ UNCHANGED <<hwVars, irqVars, cliVars, call>>

\* barrier.Go(TRUE) opens the barrier and wakes the waiters of every process.
DrvGo ==
  /\ DrvStep("go", "sleep")
  /\ ready' = TRUE
  /\ cpc' = [c \in Clients |-> IF cpc[c] = "waitDriver" THEN "plug" ELSE cpc[c]]
  /\ UNCHANGED <<hwVars, irqVars, cables, opened, saved, last, call>>

\* Register, CreateSocket, Plug or RequestIOPort throws: the process ends.
DrvFail ==
  /\ DriverMayFail
  /\ drv \in {"register", "plug", "handler", "check"}
  /\ drv' = "failed" /\ irq' = "none"
  /\ snap' = {}
  /\ UNCHANGED <<ready, hwVars, cur, cliVars, call>>

-----------------------------------------------------------------------------
(* The driver's IRQ thread: IRQHandler::Run and HandleIRQ.                 *)

IrqRegister ==
  /\ irq = "register" /\ irq' = "wait"
  /\ UNCHANGED <<drvVars, hwVars, cur, snap, cliVars, call>>

\* AcknowledgeAndWaitForIRQ returns and HandleIRQ begins.
IrqBegin ==
  /\ irq = "wait" /\ irqPending
  /\ irqPending' = FALSE /\ irq' = "disable"
  /\ UNCHANGED <<drvVars, ctrVars, obf, pressed, fetched, cur, snap, cliVars, call>>

IrqCommandStep ==
  \/ irq = "disable" /\ irq' = "drain"
  \/ irq = "enable" /\ irq' = "wait"

\* Mutant: HandleIRQ returns without KBD_ENABLE.
IrqDisableOnly ==
  /\ IrqCommandStep
  /\ ctr' = IF irq = "disable" THEN ctr \cup {"dis"} ELSE ctr
  /\ expect' = FALSE
  /\ UNCHANGED <<drvVars, failed, irqPending, obf, pressed, fetched, cur, snap, cliVars, call>>

\* KBD_DISABLE before HandleIRQ's loop, KBD_ENABLE behind it.
IrqCommand ==
  /\ IrqCommandStep
  /\ ctr' = IF irq = "disable" THEN ctr \cup {"dis"} ELSE ctr \ {"dis"}
  /\ expect' = FALSE
  /\ failed' = (failed /\ (irq = "disable" \/ "int" \notin ctr))
  /\ UNCHANGED <<drvVars, irqPending, obf, pressed, fetched, cur, snap, cliVars, call>>

\* A write of InitDriver replaces the command before the controller has taken it.
IrqCommandLost ==
  /\ IrqCommandStep /\ drv \in InitPC
  /\ UNCHANGED <<drvVars, hwVars, cur, snap, cliVars, call>>

\* The wait before the command fails: nothing is sent, and HandleIRQ does not look.
IrqGiveUp ==
  /\ WaitsMayFail /\ IrqCommandStep
  /\ failed' = (failed \/ irq = "enable")
  /\ UNCHANGED <<drvVars, ctr, expect, irqPending, obf, pressed, fetched,
                 cur, snap, cliVars, call>>

\* Mutant: the data port is read again without a look at the status.
IrqReadBlind ==
  /\ irq = "drain"
  /\ obf' = FALSE /\ cur' = fetched /\ snap' = cables /\ irq' = "notify"
  /\ UNCHANGED <<drvVars, ctrVars, irqPending, pressed, fetched, cliVars, call>>

\* One round of HandleIRQ's loop up to the cable list of NotifyObservers.
IrqRead ==
  /\ irq = "drain" /\ obf
  /\ obf' = FALSE /\ cur' = fetched /\ snap' = cables /\ irq' = "notify"
  /\ UNCHANGED <<drvVars, ctrVars, irqPending, pressed, fetched, cliVars, call>>

Alive(c)   == cpc[c] # "dead"
Queued(c)  == {k \in Keys : call[c][k] = "queued"}
Accepts(c) == Alive(c) /\ Cardinality(Queued(c)) < MaxQueued

\* remote(keyCode) with UseBlocking(FALSE): the kernel accepts the call ...
Notify(c) ==
  /\ irq = "notify" /\ c \in snap /\ Accepts(c)
  /\ call' = [call EXCEPT ![c][cur] = "queued"]
  /\ snap' = snap \ {c}
  /\ UNCHANGED <<drvVars, hwVars, irq, cur, cliVars>>

\* ... or refuses it: the IPCCommException passes NotifyObservers, which only
\* catches IPCSetupException, and HandleIRQ, and is caught in Run.
NotifyThrows(c) ==
  /\ irq = "notify" /\ c \in snap /\ ~Accepts(c)
  /\ snap' = {} /\ irq' = "wait"
  /\ UNCHANGED <<drvVars, hwVars, cur, cliVars, call>>

\* Mutant: the loop over the cables may end before the last cable.
NotifyDoneEarly ==
  /\ irq = "notify" /\ snap' = {} /\ irq' = "drain"
  /\ UNCHANGED <<drvVars, hwVars, cur, cliVars, call>>

NotifyDone ==
  /\ irq = "notify" /\ snap = {} /\ irq' = "drain"
  /\ UNCHANGED <<drvVars, hwVars, cur, snap, cliVars, call>>

\* The buffer is empty.
IrqEnd ==
  /\ irq = "drain" /\ ~obf
  /\ irq' = "enable"
  /\ UNCHANGED <<drvVars, hwVars, cur, snap, cliVars, call>>

-----------------------------------------------------------------------------
(* The main thread of a listener: the KeyEvent constructor, then a loop    *)
(* around GetRawInputKey.                                                  *)

CliStep(c, from, to) == cpc[c] = from /\ cpc' = [cpc EXCEPT ![c] = to]

\* waitForKeyboardHandler.Arrive(): its result is ignored.  A barrier that no one has
\* created yet is assumed to hold back who arrives, as a closed one does.
ArriveDriver(c) ==
  /\ CliStep(c, "start", IF ready THEN "plug" ELSE "waitDriver")
  /\ UNCHANGED <<drvVars, hwVars, irqVars, cables, opened, saved, last, call>>

SocketThere == drv \notin {"create", "register", "failed"}

\* new Plug(*keyboardSocket, "keyboard", "KeyEvents"); without the driver's
\* socket PlugInto throws and the process ends.
PlugIn(c) ==
  /\ \/ SocketThere /\ CliStep(c, "plug", "sync") /\ cables' = cables \cup {c}
     \/ ~SocketThere /\ CliStep(c, "plug", "dead") /\ UNCHANGED cables
  /\ UNCHANGED <<drvVars, hwVars, irqVars, opened, saved, last, call>>

\* sync = new Sync("KeyEventSync", FALSE)
MakeSync(c) ==
  /\ CliStep(c, "sync", "idle")
  /\ UNCHANGED <<drvVars, hwVars, irqVars, cables, opened, saved, last, call>>

\* sync->Arrive()
ArriveKey(c) ==
  /\ CliStep(c, "idle", IF SyncName[c] \in opened THEN "woken" ELSE "waitKey")
  /\ UNCHANGED <<drvVars, hwVars, irqVars, cables, opened, saved, last, call>>

\* value = savedValue; return value
ReadKey(c) ==
  /\ CliStep(c, "woken", "idle")
  /\ last' = [last EXCEPT ![c] = saved[c]]
  /\ UNCHANGED <<drvVars, hwVars, irqVars, cables, opened, saved, call>>

\* The process ends after a command such as "exit"; the kernel unplugs it.
Exit(c) ==
  /\ MayExit /\ last[c] # 0
  /\ CliStep(c, "idle", "dead")
  /\ cables' = cables \ {c}
  /\ UNCHANGED <<drvVars, hwVars, irqVars, opened, saved, last, call>>

-----------------------------------------------------------------------------
(* KeyEventCallback, run by the kernel in a task of the listener's process.*)

Running(c) == {k \in Keys : call[c][k] \in {"save", "go", "close"}}

CallStep(c, k, from, to) ==
  Alive(c) /\ call[c][k] = from /\ call' = [call EXCEPT ![c][k] = to]

StartCall(c, k) ==
  /\ CallStep(c, k, "queued", "save")
  /\ \A j \in Queued(c) : k <= j
  /\ Cardinality(Running(c)) < MaxTasks
  /\ UNCHANGED <<drvVars, hwVars, irqVars, cliVars>>

\* Mutant: Go without storing the key first.
SaveKeyNot(c, k) ==
  /\ CallStep(c, k, "save", "go")
  /\ UNCHANGED <<drvVars, hwVars, irqVars, cliVars>>

\* savedValue = keyCode
SaveKey(c, k) ==
  /\ CallStep(c, k, "save", "go")
  /\ saved' = [saved EXCEPT ![c] = k]
  /\ UNCHANGED <<drvVars, hwVars, irqVars, cables, opened, cpc, last>>

HasSync(c) == cpc[c] \in {"idle", "waitKey", "woken"}

\* Mutant: the barrier opens but nobody who waits is woken.
CallGoQuiet(c, k) ==
  /\ CallStep(c, k, "go", "close")
  /\ HasSync(c)
  /\ opened' = opened \cup {SyncName[c]}
  /\ UNCHANGED <<drvVars, hwVars, irqVars, cables, cpc, saved, last>>

\* sync->Go(FALSE) opens the barrier and wakes the waiters of this process.
CallGo(c, k) ==
  /\ CallStep(c, k, "go", "close")
  /\ HasSync(c)
  /\ opened' = opened \cup {SyncName[c]}
  /\ cpc' = [cpc EXCEPT ![c] = IF @ = "waitKey" THEN "woken" ELSE @]
  /\ UNCHANGED <<drvVars, hwVars, irqVars, cables, saved, last>>

\* sync is still NULL: the access faults and ends the process, or a barrier
\* without a meaningful name is asked for and nothing happens.
CallGoNull(c, k) ==
  /\ CallStep(c, k, "go", "close")
  /\ ~HasSync(c)
  /\ \/ cpc' = [cpc EXCEPT ![c] = "dead"] /\ cables' = cables \ {c}
     \/ UNCHANGED <<cpc, cables>>
  /\ UNCHANGED <<drvVars, hwVars, irqVars, opened, saved, last>>

\* Mutant: the callback clears savedValue when it closes the barrier.
CallCloseClears(c, k) ==
  /\ CallStep(c, k, "close", "done")
  /\ opened' = opened \ {SyncName[c]}
  /\ saved' = [saved EXCEPT ![c] = 0]
  /\ UNCHANGED <<drvVars, hwVars, irqVars, cables, cpc, last>>

\* sync->Close()
CallClose(c, k) ==
  /\ CallStep(c, k, "close", "done")
  /\ opened' = IF HasSync(c) THEN opened \ {SyncName[c]} ELSE opened
  /\ UNCHANGED <<drvVars, hwVars, irqVars, cables, cpc, saved, last>>

Task(c, k) ==
  \/ StartCall(c, k) \/ SaveKey(c, k)
  \/ CallGo(c, k) \/ CallGoNull(c, k) \/ CallClose(c, k)

-----------------------------------------------------------------------------
InitDriver == DrvRead \/ DrvWctr \/ DrvParam \/ DrvParamLost \/ DrvGiveUp
Driver     == DrvSetup \/ DrvHandler \/ DrvCheck \/ InitDriver \/ DrvGo
HandleIRQ  == \/ IrqBegin \/ IrqCommand \/ IrqCommandLost \/ IrqGiveUp
              \/ IrqRead \/ NotifyDone \/ IrqEnd
              \/ \E c \in Clients : Notify(c) \/ NotifyThrows(c)
IrqStep    == IrqRegister \/ HandleIRQ
Listener(c) == ArriveDriver(c) \/ PlugIn(c) \/ MakeSync(c) \/ ReadKey(c)

Next ==
  \/ Press \/ Transfer \/ Driver \/ DrvFail \/ IrqStep
  \/ \E c \in Clients : Listener(c) \/ ArriveKey(c) \/ Exit(c)
  \/ \E c \in Clients, k \in Keys : Task(c, k)

\* The hardware and every started thread make progress; no key need be
\* pressed, and a listener need not ask for another key nor exit.
Fairness ==
  /\ WF_vars(Transfer) /\ WF_vars(Driver) /\ WF_vars(IrqStep)
  /\ \A c \in Clients : WF_vars(Listener(c))
  /\ \A c \in Clients : WF_vars(\E k \in Keys : Task(c, k))

Spec     == Init /\ [][Next]_vars
FairSpec == Spec /\ Fairness

-----------------------------------------------------------------------------
(* Properties.                                                             *)

\* A listener that got past KEYBOARD_BARRIER finds the driver completely set
\* up: the constructor waits "before plugging in" (raylib keyboard.cpp:50),
\* and Go is the last thing InitDriver does.
PlugFindsDriver ==
  \A c \in Clients : (cpc[c] = "plug" \/ c \in cables) => drv = "sleep" /\ ready

\* GetRawInputKey returns a press whose callback has stored it, never the
\* initial value of savedValue: holds when no other process opens the
\* listener's barrier.  KEYBOARD_BARRIER is found by its name from another process;
\* if the same is true of "KeyEventSync", two listeners have one barrier and the
\* precondition is false for them.
Private == \A c, d \in Clients : SyncName[c] = SyncName[d] => c = d

ReadsNotifiedKey ==
  Private => \A c \in Clients :
    cpc[c] = "woken" => \E k \in Keys : saved[c] = k /\ call[c][k] \in {"go", "close", "done"}

\* HandleIRQ leaves by the exception of a refused call, past the line that
\* enables the port.  When the kernel's queues cannot overflow, there are three ways
\* only for the port to stay silent between two interrupts: a listener ended, a wait
\* failed at its last poll, or the parameter with which InitDriver switches the
\* keyboard on was lost to a command of the IRQ thread.
QueuesSuffice == MaxQueued >= MaxKeys

SilentOnlyAfterRefusal ==
  QueuesSuffice /\ drv = "sleep" /\ irq = "wait" /\ ctr # {"int"} =>
    failed \/ \E c \in Clients : ~Alive(c)

\* Between two presses that a listener was told of there is none it was not
\* told of, as long as every listener lives to be notified.
Told(c) == {k \in Keys : call[c][k] # "none"}

NoGapUnlessRefused ==
  QueuesSuffice /\ (\A c \in Clients : Alive(c)) =>
    \A c \in Clients : \A j, m \in Told(c) : \A k \in j..m : k \in Told(c)

\* With one IPC task at a time a listener never reads an older press after a
\* newer one, although Go of one press and the read it wakes are separated by
\* the callbacks of later presses.
ReadsInOrder == [][\A c \in Clients : last'[c] >= last[c]]_vars

\* The service implements KeyFeed: a listener is called for presses in their
\* order, once each, and reads only those it was called for.
Feed == INSTANCE KeyFeed WITH feed <- [c \in Clients |-> Told(c)]
ImplementsFeed == Feed!Spec

\* A listener that waits for the driver gets on, whatever the order in which
\* the two processes were started.
ListenerStarts ==
  \A c \in Clients : (cpc[c] = "waitDriver") ~> (cpc[c] \in {"idle", "dead"})

\* A press made while a listener is plugged in ends in a completed callback of
\* that listener, unless some listener ended or a command did not reach the controller.
PressIsDelivered ==
  \A c \in Clients, k \in Keys :
    (c \in cables /\ fetched < k /\ k <= pressed) ~>
      (call[c][k] = "done" \/ failed \/ \E d \in Clients : ~Alive(d))

\* Go reaches the listener that waits: it reads this press or a later one.
WakeupIsNotLost ==
  \A c \in Clients, k \in Keys :
    (cpc[c] = "waitKey" /\ call[c][k] = "go") ~> (last[c] >= k \/ ~Alive(c))

\* The IRQ thread "basically waits in a loop, so that IRQs can be deferred to
\* this thread" (rdm.cpp:39): whenever it waits, the port can interrupt, as
\* long as every command has reached the controller.
WaitingMeansEnabled ==
  drv = "sleep" /\ irq = "wait" /\ ~failed => ctr = {"int"}
=============================================================================
