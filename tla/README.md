# RAY user mode: specifications

This directory specifies the user-mode part of the RAY operating system (`src/`) in
TLA+: what its programs and its library do, what they rely on, and what follows. The
model checker TLC explores small instances of every specification, and the proof system
TLAPS proves the most important properties for every value of the constants.

The kernel is not part of the repository. Wherever a module needs it (threads,
semaphores, barriers, inter-process calls, interrupts), it is modelled from the way
`src/` uses it, its definitions are marked `external` in `PROJECT.json`, and what is
assumed about it is listed under "Assumptions about the environment".

Contents:

1. The system
2. What is hard about it
3. The modules and the code
4. Assumptions about the environment
5. The runs of TLC
6. Fairness
7. What is proved
8. Disagreements between the code and what it says
9. What is not modelled
10. Plan

## 1. The system

RAY's user mode is a library (`src/ray`), which every program links, and a handful of
programs. Two kinds of concurrency occur everywhere: a program has a main thread, which
runs `UserProgramEntry`, and threads it starts; and the kernel runs every remote call in
a task of its own inside the called process.

| component | state it keeps | operations | talks to |
|---|---|---|---|
| Keyboard driver (`keyboard/keyboard.cpp`, `KeyboardHandler.*`) | the barrier `KEYBOARD_BARRIER`, the socket "KeyEvents", the saved control registers, the static variables of the translation | `UserProgramEntry`, `InitDriver`, `HandleIRQ`, `NotifyObservers` | controller (ports), IRQ thread, every plugged process (non-blocking calls) |
| i8042 port routines (`KeyboardHandler.cpp`, `i8042.h`, `i8042io.h`) | `I8042Ctr`, `I8042InitialCtr`, a 16-bit counter of polls | `I8042Flush`, `I8042WaitRead`, `I8042WaitWrite`, `I8042Command`, `I8042ControllerCheck`, `I8042ControllerInit`, `I8042EnableKBDPort`, `I8042Probe` | controller |
| IRQ thread base class (`raylib/rdm/rdm.cpp`) | the IRQ it serves | constructor (starts the thread), `Run`, the wait for an interrupt, `RequestIOPort` | kernel; derived class's `HandleIRQ` |
| Keyboard client (`raylib/keyboard/keyboard.cpp`) | `savedValue`, the barrier `sync`, the socket and plug | constructor, `KeyEventCallback`, `GetRawInputKey`, classes `Key`, `KeyModifier`, `KeyState` | driver (plug, callback), kernel (barriers) |
| IPC library (`raylib/ipc/ipc.cpp`, `ipc_int.h`, `methodtemplate.h`) | `isRegistered`, `registeredSockets`, per socket two lists of signatures and the tables made of them, per plug the cable and two counts | `Register`, `RegisterSocket`, `PlugInto`, `AddRemoteMethod`, `AddLocalCallback`, `Create`, the constructors of `Plug`, `GetRemoteMethod`, `InvokeRemote`, `GetNextType`, `GetType`, message buffers | kernel |
| Process library (`raylib/processes/processes.cpp`) | per `Thread` `threadStarted` and `pidHandle`; per `Semaphore` and `Sync` a handle of the kernel | `Thread` (Start, Abort, Join, Notify, IsAlive), `Semaphore` (constructor, destructor, Enter, Leave, Status), `Sync` (Arrive, Go, Close) | kernel |
| Debug library (`raylib/standard/debug.cpp`) | `Profiler::_started` | `Demangle`, `Start`, `Pause`, `FlushKernel`, usage queries | kernel's profile buffer |
| Console (`console/console.cpp`, `Command.cpp`) | list of line buffers, iterator, `strPos` | `GetUserInput`, `InsertString`, `DisplayString`, the commands | keyboard client |
| Stress tests of the console (`console/stress.cpp`) | `fairnessRunTime`, `fairnessRunning`, `fairnessSemaphore`; `limitsStarted`, `limitSemaphore` | `StressTestScheduler`, `StressTestThreads`, memory tests | process library |
| Profiler program (`profiler/profiler.cpp`) | its `Profiler` object | the loop over Ctrl+Home, Ctrl+End, Ctrl+Delete | keyboard client, debug library |
| `ipc1`, `ipc2` | a barrier, a socket each, a message buffer | two remote calls, one with a buffer that changes hands | each other |
| Commands of the console (`ps.cpp`, `reboot.cpp`, `benchmark.cpp`) | none that outlives a call | `PrintProcessInfo`, `Reboot`, `BenchmarkBubble` and other timings | kernel |
| SHA-1 (`console/sha1.*`) | `SHA1Context`: block, index, two length counters, `Computed`, `Corrupted` | `SHA1Reset`, `SHA1Input`, `SHA1Result` | the benchmark |
| Video output (`raylib/video/VideoStream.cpp`) | the radix and the colours | numbers and strings to the screen | kernel |
| Type sandbox (`sandbox/remotetypeinfo`) | an earlier prototype of the IPC library's types | `RegisterFunction`, `GetType` | nothing |
| `demo`, `template`, memory and system call wrappers | none | one system call, or a text | kernel |

The components meet in four ways.

* **Calls.** `NotifyObservers` takes the cable list of the driver's socket and makes one
  non-blocking call per cable; `ipc1` makes blocking calls of `ipc2`. A call that the
  kernel refuses becomes an `IPCCommException`.
* **Barriers.** `KEYBOARD_BARRIER` holds listeners back until the driver is up;
  `KeyEventSync` holds the reader of a listener back until a callback has stored a key;
  `dingsbums` holds `ipc1` back until `ipc2` has plugged its socket.
* **Shared memory.** The main thread of the driver and its IRQ thread share the
  controller; a reader and its callbacks share `savedValue` and `sync`; the threads of
  the stress tests share counters under a semaphore.
* **Tables handed to the kernel.** A socket's lists are frozen into tables at the first
  plug; the kernel matches the tables of the two ends and numbers the functions.

What makes each component correct:

* *Keyboard service* (driver and clients together): a listener is told of the presses in
  their order, once each; a reader gets only what it was told of; nobody plugs into a
  driver that is not there; a press in the controller reaches everyone; the port
  does not stay disabled.
* *i8042 initialisation*: the saved control register is the firmware's, the port ends up
  enabled with its interrupt, and no command, parameter, reply or scan code is mistaken
  for another although two threads use the ports.
* *Poll loops*: they end, and what they report is what happened.
* *Translation*: each scan code that goes down gives one key code, with modifiers of codes
  that are down, and the names in `keyboard.h` belong to the codes the driver makes.
* *IPC library*: its bookkeeping agrees with the kernel's, also after a constructor has
  thrown; a call meets a callback with the signature it was made for.
* *Stress tests*: mutual exclusion, no count lost or shown twice, no thread left waiting
  for one that was aborted.
* *Line editor*: the position is the length of the line, the screen shows the line that
  is edited, and the line that is shown is the one that runs.
* *Thread and Semaphore objects*: what a method reports is true of the thread it asked
  about, whoever else uses the object; each semaphore has a lock of its own.
* *Commands, SHA-1, video output*: each gives what its plain definition gives, at the
  edges of its counters and buffers, too.
* *Debug library and profiler*: a name fits its buffer and is the thread's; the one
  profile of the kernel is on exactly when its owner believes so.
* *ipc1/ipc2*: any order of starts works, and each caller prints its own answer.

## 2. What is hard about it

`PROJECT.json` lists every hazard at its line with the properties that cover it. The
groups are:

* **Two threads at one controller.** The base class constructor starts the IRQ thread
  (`rdm.cpp:34`) before `InitDriver` has run. A command and its parameter are two port
  writes, a reply and a scan code share one output buffer.
* **An exception past the line that matters.** `remote(keyCode)` throws when a listener
  has ended since the cable list was taken; `HandleIRQ` is left before line 450, which
  enables the port again.
* **Go directly followed by Close.** A callback opens the reader's barrier and closes it
  at once (`raylib/keyboard/keyboard.cpp:29-30`). Whether a reader sees a press depends
  on where it is at that moment; the value is read later than the wake-up.
* **Any order of starts and ends.** Programs are started by hand, in any order, any
  number of times; they find each other through named barriers, walls and sockets.
* **Threads aborted anywhere.** `stress sched` aborts threads that may hold the
  semaphore, and starts them again with the old counts partly reset.
* **Snapshots.** The cable list during a notification, and the function tables of a
  socket while its lists grow, are old when they are used.
* **Objects shared by threads.** The kernel writes `pidHandle` before `THREAD_CREATE`
  returns and `threadStarted` is set after it; the new thread has the same object, and a
  second `Start` may replace the handle a `Join` is about to pass.
* **Counters at their edges.** `tries--` wraps before it is compared with 0; the room for
  a dot and a terminating zero is tested in two places; a parameter list may be empty;
  the padding of SHA-1 may need a block more; the smallest number is its own negative.
* **State across calls.** `escaped` and `addKeys` survive `HandleIRQ`; line buffers are
  edited in place long after they were first typed.

## 3. The modules and the code

```
KeyFeed              what the keyboard service promises
  ^ refined by
KeyEvents            driver, IRQ thread, two or more listeners
  |- MCKeyEvents     instances for TLC
  `- KeyEventsProofs
I8042                two threads at the ports of the controller
  |- MCI8042
  `- I8042Proofs
I8042Poll            the poll loops
  ^ extended by
MCKeyboard           ... and KeyDecode: scan codes to key codes <- KeyboardProofs
FairnessTest         the scheduler test             <- FairnessTestProofs

Ipc                  walls, sockets, plugs, calls
  ^ extended by
MCLibrary            ... and Threads and Semaphores <- LibraryProofs

LineHistory          what the console's input loop promises
  ^ refined by
LineEditor           the input loop                 <- LineEditorProofs
  ^ extended by
MCPrograms           ... and ThreadLimit, Pairing, Profiling <- ProgramsProofs

MCAlgorithms         Signature, Demangle, Commands, Video, Sha1 <- AlgorithmsProofs
```

**KeyEvents** composes the driver with its listeners. `drv` is the place of the driver's main
thread (`keyboard.cpp`, `InitDriver`), `irq` that of `IRQHandler::Run` and `HandleIRQ`,
`cpc[c]` that of a listener's main thread (the `KeyEvent` constructor and `GetRawInputKey`),
and `call[c][k]` that of the callback of listener `c` for press `k`. `ctr`, `expect`,
`irqPending` and `obf` are the controller: two bits of its control register, whether it takes
the next data byte for a parameter, the interrupt and the buffer. `ready` and `opened` are
the open barriers, `cables` the kernel's list of plugged listeners, `snap` what is left of
the copy `NotifyObservers` works through. A key press is its serial number. Every wait of the
code (a barrier, an interrupt, a blocking call) is the boundary of an action; between two
waits there is one action for each step that other actors can tell apart. `InitDriver` is its
commands one by one: `DrvRead` (`RCTR` and its reply), `DrvWctr` twice, and behind each
`DrvParam`, or `DrvParamLost` when a command of the IRQ thread came between; `DrvGiveUp` is
the error return after a wait that failed. The IRQ thread's `KBD_DISABLE` and `KBD_ENABLE`
are `IrqCommand`, or `IrqCommandLost` when a write of `InitDriver` replaced them, or
`IrqGiveUp` when the wait before them failed. The history `failed` says that what was to
switch the port on last has not reached the controller. `IrqRead` reads a code and takes the
cable list, which nobody can tell apart. `NotifyThrows` is the exception that passes
`NotifyObservers` and `HandleIRQ`, so it leaves `"dis"` in `ctr`; `CallGoNull` is a callback
that runs before the constructor has set `sync`.

**KeyFeed** is the abstract specification: presses, what each listener was told of
(`feed`), and what it read last. KeyEvents implements it with `feed[c]` the presses whose
call to `c` the kernel has accepted.

**I8042** looks at one port access at a time. `Program` is `InitDriver` as the sequence of
its accesses; `ipc` is the place in `HandleIRQ`. `inp` is the controller's input buffer (a
write replaces what has not been taken), `ob` the output buffer, which holds a reply
(`key = 0`) or the scan code of a press. The control register has the two bits the driver
changes, and starts as any firmware may leave it, as does the buffer. A wait may fail
(`MainWaitFails`, `IrqWaitFails`), and the code behind it is then skipped as the error returns
do. Three histories name what the properties must except: `early` (a scan code came or the
IRQ thread ran before the reply to `RCTR` was read), `clash` (a command of the IRQ thread
between `InitDriver`'s last `WCTR` and the taking of its parameter), `gaveUp` (a wait failed).
KeyEvents has the same commands, coarser: there a command, its wait and the controller's
taking of it are one step, and replies, and a byte left in the buffer that is mistaken for a
code, are left to I8042.

**I8042Poll** runs the loops poll by poll with the real counter: `tries` is a `UINT16`, and
`GiveUp` is the `tries--` that finds 0 and wraps to `Size - 1`. `ReturnWait` is
`return -(tries == 0)`. I8042 and KeyEvents use its result: a wait that times out counts as
success, and one that ends at its last poll fails (`gaveUp`, `failed`).

**KeyDecode** has the keyboard, which sends the bytes of presses and releases, and
`HandleIRQ`'s translation with both keymaps from `keymap_german.h` and the two static
variables `escaped` and `addKeys`. `told` is what `NotifyObservers` gets, `typed` what
was done at the keyboard, and `used` the keys it was done with. A key is what `HandleIRQ` takes
for one: a scan code, escaped or not. Most keys of the keyboard send one. Print Screen
(E0 2A E0 37), Pause (E1 1D 45 E1 9D C5) and, with Num Lock or a shift key, the cursor keys
send several, and the driver tells each of them. They are here as keys that go
down and up, so that a stroke of Print Screen is the escaped shift code with the escaped 37
behind it, both told with shift, and one of Pause is the mark E1, which `HandleIRQ` takes for a
release, and then the left Ctrl key with Num Lock. `Early` are the codes that are released
without having been pressed, which these strokes need.

**Ipc** has one record per process for what it is doing (`pc`), the library's tables and
the kernel's walls, sockets and cables. A plug is made in steps (create the tables,
register the socket, plug into the other), each of which can throw; `Ends` lets a process
end anywhere. A cable holds the two arrays of function numbers the kernel has computed;
`method` is the `RemoteMethod` a process got, and a call runs the callback that the
cable names for its index.

**Threads** has any number of callers of any number of `Thread` objects. A method is two
steps, the entry with the handle it passes and the return with the kernel's answer, which
`answer` keeps: the value of `Join`, yes or no of `IsAlive`, whether `Notify` succeeded, or the
exception. `begun` is the history of the threads created for an object.
`Start`'s first step is the kernel's (the thread exists and the handle is written), its
second sets `threadStarted`. **Semaphores** is the constructor and the destructor:
`MakeStringFromAddress` as a recursive function over the digits of an address, and the
kernel's locks by name.

**LineEditor** takes one key per step; a buffer is a function from positions to
characters, so that what lies behind the first zero is there to be wrong. **LineHistory**
is the same loop told without buffers and positions: a list of lines, the one on the
screen, and what Return runs.

**FairnessTest** and **ThreadLimit** are the two stress tests, with one access to shared
memory per step (`x++` is a read and a write). When a thread that holds the semaphore is
aborted, the kernel may release it or not; `orphan` says that it did not. **Pairing** has
`ipc1` and `ipc2` started any number of times, with constructors of `Plug` and calls that may
throw; **Profiling** has several starts of the profiler over the kernel's one
profile buffer.

The sequential algorithms are operators, tried by MCAlgorithms on every input of a bounded
set and compared with what their results mean. **Signature** is `RegisterFunction` with
`GetNextType`, on the text that the macro makes of a parameter list, and the words that
`RemoteMethod::operator()` fetches from a variadic call; the prototype in `sandbox` has the
same parser with a shorter table. **Demangle** is the loop that names a thread.
**Commands** is the order in which `ps` prints threads, the argument that `reset` passes,
and the bubble sort of `bench`. **Video** is how numbers become text. **Sha1** is how a
message is cut into blocks and padded, with the compression of a block left abstract.

The operators marked `Mutant:` in the modules are plausible mistakes in the operator that
follows. No specification uses them; `PROJECT.json` pairs each property with one, and with
the mutant in place of the original the property is violated. They show that a property
depends on the code it is about.

## 4. Assumptions about the environment

* A barrier lets everyone through while it is open. `Go(TRUE)` wakes the waiters of every
  process, `Go(FALSE)` those of the caller's own process. An open barrier stays open until
  `Close`. Who arrives at a barrier that no one has created yet waits until it is opened: a
  listener started before the driver does so, and ignores what `Arrive` returns. If the
  kernel let it pass instead, the listener would find no socket and end.
* Two processes that name a barrier may mean the same one: `KEYBOARD_BARRIER` and `dingsbums`
  work that way. Then the `KeyEventSync` of two listeners is one barrier, too (`OneName`), and
  `ReadsNotifiedKey`, which supposes private barriers (`Private`), says nothing about them. The
  code does not tell whether a name is found everywhere or only where it is meant to, so
  that both are run.
* KeyFeed does not exclude that a read returns the initial 0 before the first press (a
  stuttering step): with a shared barrier it can happen. With private ones,
  `ReadsNotifiedKey` excludes it.
* The kernel accepts a non-blocking call when the called process lives and its queue has
  room, queues calls in order, and runs at most `MaxTasks` of them at once in a process.
  It unplugs the sockets and frees the walls of a process that ended.
* The kernel keeps an interrupt until the IRQ thread waits for it; the thread that waits
  for an interrupt runs until its next wait.
* The controller takes a command after finitely many polls. In I8042 a wait ends when the
  controller is ready or can no longer become ready; I8042Poll drops this assumption, there a
  controller may be absent or never ready. A wait may also end at its very last poll, and
  then fails (`WaitsMayFail` in KeyEvents). The controller puts a scan code only into an
  empty output buffer, and raises an interrupt when the buffer fills, or when the interrupt
  gets enabled while it is full.
* In FairnessTest, the kernel may release the semaphore of an aborted thread or leave it
  taken, each time anew: `src/` does not say. Mutual exclusion and the counts do not depend on
  it; whether the test can go on does, and `HolderIsAlive` says exactly how.
* In KeyDecode, no key is held at the start, the keyboard sends the codes that the keys of an
  MF-II keyboard send and no codes of multimedia keys, and a code that does not fit the
  keyboard's buffer is not sent: its key is not used. The codes of a stroke that sends
  several may come with others between them and in any order, which is more than a keyboard
  does.
* In Ipc, a function of one side gets the number of a function with the same signature on
  the other; a socket that the program of another process names can be found when it is
  registered. A process builds sockets and plugs with one thread.
* In Threads, the kernel writes the handle of a new thread before `THREAD_CREATE`
  returns, answers `Join` after the thread has ended, and may forget a thread some time after
  its end; it then answers with `EXIT_CODE_NO_THREAD`. `THREAD_ALIVE` tells whether the thread
  runs; `THREAD_NOTIFY` fails for a thread that does not, and may fail for one that does.
* In Semaphores, a lock's name is that of the whole system (`SystemWide`, because it may be
  refused as `SEMAPHORE_IN_USE` and may be open to others), or of the process; the locks of a
  process go with it.
* In Signature, a variadic call hands over a float as a double of two words and everything
  else as one word, as the compiler for the 32-bit target does. The first parameter is
  fetched by a `memcpy` of four bytes: of one shorter than a word, its own bytes are right,
  and the rest of the word is what lies behind it.
* In Profiling, the program ends only before it has entered its loop, which has no end.

## 5. The runs of TLC

Run one with `tlc -config <name>.cfg <module>`. Deadlock checking is off in every cfg,
because every instance ends by design: the bounds on presses, starts or commands are in
guards, and when they are used up nothing is left to do.

| run | states | what it shows |
|---|---|---|
| `KeyEvents_own` | 1,939,022 | Two listeners with a barrier each, any firmware, waits that fail. The barrier at the start works (`PlugFindsDriver`), a read returns a stored press (`ReadsNotifiedKey`), reads do not go back (`ReadsInOrder`), nobody misses a press in the middle (`NoGapUnlessRefused`), and the port stays silent only after a listener ended, a wait failed or the last parameter was lost (`SilentOnlyAfterRefusal`). |
| `KeyEvents_shared` | 2,020,000 | Both listeners use one barrier, callbacks overlap, a queue holds one call: the service implements `KeyFeed` all the same. |
| `KeyEvents_live` | 34,000 | `ListenerStarts`, `PressIsDelivered`, `WakeupIsNotLost`, for any firmware and with waits that fail. |
| `KeyEvents_silent` | - | Finding: `WaitingMeansEnabled` is violated. |
| `I8042_init` | 950,000 | Any control register the firmware may leave, waits that fail: what is saved is the firmware's register (`SavedIsFirmware`), the port ends up enabled (`PortEnabledUnlessClash`), no reply is taken for a scan code (`NoPhantom`) and every press is read (`EveryPressIsSeen`), with the exceptions that the histories name; and which firmware can bring those about (`HarmNeedsFirmware`). |
| `I8042_port` | - | Finding: with interrupts on from the start, `PortEnabled` is violated. |
| `FairnessTest` | 822,936 | Three test threads and the statistics, two starts with an abort between them: mutual exclusion, no lost round, shares that add up, and when a semaphore stays taken for nobody. |
| `Keyboard` | 804,828 | The poll loops with the real `TIMEOUT` 10000 and a 16-bit counter end for every controller; and every code a key of an MF-II keyboard sends, six of them used up to three times, is told once, with modifiers that are held. |
| `Library` | 299,038 | Sockets and plugs of a driver and a client (`RegisteredIsKnown`, `CallsAreTyped`); two callers of two `Thread` objects (`AnswersAreTrue`); semaphores at five addresses in two starts of a program (`OwnLock`). |
| `Programs` | 286,767 | The input loop implements `LineHistory`; the thread test counts each thread once; `ipc1` and `ipc2` find each other, print the right answers and end; the profile belongs to the process that believes so. |
| `Algorithms` | 5,353 | Every algorithm on every input of a bounded set. |
| `Algorithms_spelling` | - | Finding: `MeantOrMemory` is violated. |

A run over several modules that share no state chooses one of them per behaviour (`half`,
`part`, `program`, `of`); the others rest in their initial states.

Why the bounds are enough:

* *KeyEvents.* Three presses let one callback be behind, one be running and one be on its
  way; two listeners are needed for a refused call to hurt somebody else. `MaxQueued = 3`
  means no queue overflows in `own`; `MaxQueued = 1` with `MaxTasks = 2` in `shared` lets
  queues overflow and callbacks overtake each other, with two presses and the firmware's
  interrupt on, so that the IRQ thread runs during `InitDriver`. In `own` listeners end and
  set-up calls of the driver fail, and states in which the two have changed places count once
  (`Exchange`: their barriers change with them, and no property tells them apart); `live` has
  one listener, which does not exit, because one that ended may silence the keyboard (the
  finding), and nothing can be promised then.
* *I8042.* Two presses, each before, during or after the initialisation; a code that looks
  like a control register with the interrupt on, and one that does not. `I8042_init` starts
  from all four settings of the two bits; `I8042_port` from the one with keyboard and
  interrupt on.
* *Keyboard.* The loops run with the code's own values. Three presses are two modifiers and a
  key. Used often (`Often`) are both control keys, the left shift key, an escaped cursor key
  and what makes up the strokes with several codes, the shift code E0 2A and the mark E1; in
  a behaviour of at most two presses (`MaxMixed`) one of them may be any code of `AllKeys`
  instead. A code of `Early` may be released once without a press, ahead of the last presses.
  The keyboard's buffer of three bytes holds an escaped code and half of the next.
* *FairnessTest.* Three test threads have a smaller and a larger neighbour, so a sum can
  miss one at either end; two unreported rounds make unequal shares; two starts
  show what is left over from the first. Each abort of a thread inside has both outcomes for
  the semaphore.
* *Library.* Two entries in a list distinguish a wrong index; the driver calls two methods,
  the client is called twice and offers two; entries may be added after the tables were made;
  a plug may be attempted again after it failed at either step. Two callers, two objects and
  two threads are a `Join` overtaken by a second `Start` of the same object, or by the thread
  itself, and a handle that could be taken for the other object's. The addresses 1, 3, 6, 10
  and 27 have one to four digits to the base 3; two of them differ in the last digit only.
* *Programs.* A history of three lines has a first, a middle and a last one; a buffer of
  four bytes holds three characters, so lines grow, shrink and grow again in the middle of
  the history, and the line that ends the console fits. The fourth byte stays zero: the
  code has no check there, and the model keeps to lines that fit (a hazard without a
  property). Six starts with room for three threads: the kernel must refuse, or threads
  must have ended. Two starts each of `ipc1` and `ipc2`, three of the profiler.
* *Algorithms.* All lists of up to three of the nine types, with and without a blank behind
  the comma; names of up to three words of 1, 2 and 11 letters in buffers of 1 to 64 bytes,
  whole and cut, so that the limit falls in front of, on and behind every dot and every
  terminating zero; up to four threads of two processes in any order; arguments of up to four
  letters; arrays of up to five bytes, with repetitions; all numbers of eight bits, with
  buffers scaled as in the code; messages in up to two parts around 55, 56, 63 and 64 octets
  and around the wrap of both counters, which are scaled to nine bits and to one.

## 6. Fairness

Only what runs by itself is fair; nobody has to press a key, start a program, or ask for
another key.

* **Hardware**: weak fairness of `Transfer` and of the controller's taking of commands. A
  controller that has work and can do it goes on.
* **Started threads**: weak fairness of the driver's main thread, of the IRQ thread, of a
  listener up to the point where it asks for a key, of the tasks of each process together (the
  kernel runs some callback of a process that has one), of the programs and
  tasks in Pairing (and in `Programs`, which states the same). None of them gives up the
  processor for good between two waits, and the kernel schedules preemptively, which is
  what `stress sched` measures.
* **HandleIRQ** in KeyDecode and **the loop** in I8042Poll: weak fairness of the whole
  handler, which is code without a wait (`Served` in `Keyboard`).

FairnessTest, ThreadLimit and the library's modules state no fairness: what is checked
there is safety. That `stress thread` ends cannot be promised, since it depends on the
kernel's limit.

Liveness properties say what they cannot promise. `PressIsDelivered` and `EveryPressIsSeen`
hold unless a wait for the controller failed or what switches the port on was lost
(`failed`; `gaveUp`, `clash`), and the first unless a listener ended. `EveryPressIsSeen`
is about presses that are still in the keyboard when the reply to `RCTR` is read: `I8042Flush`
throws away what came before it. `KeyEvents_live` has one listener and no failed set-up calls
of the driver. `OnesEnd` is stated from the moment a socket of
`ipc2` is known, because an `ipc2` whose plug fails sleeps without `Go`.

## 7. What is proved

`tlapm <module>` checks each proof module. The proofs use the assumptions declared in the
modules (bounds are natural numbers, names come from the listed sets, `0 < Timeout <
Size`), and those in the `ASSUME` of a theorem, nothing else. Every safety property of a
passing run is a theorem here, and so are both refinements and the action property
`ReadsInOrder`. A parameter list has at most 32 types: `MSG_PARAM[32]` has no more room, and
`RegisterFunction` would write past it.

The concurrent modules have an inductive invariant, proved with one step per action. Where a
run puts several modules together, the theorem is about the specification of the run.
The algorithms are tried in one step, so that their theorems are about operators and data of
any size. Induction there is by the least counterexample (`Least` in AlgorithmsProofs, from
the well-founded order of the numbers), and a recursive function is shown to exist
before anything is said of it: step by step (a longest one can be continued), or by
naming its closed form.

**KeyEventsProofs** - any set of listeners, any number of presses, tasks and queue places,
any naming of the barriers.

* `TypeOK` is not inductive: that `cur` stays within the presses needs to know that the
  buffer holds a fetched one. `FetchOrder` (read before fetched before pressed) and
  `CallOrder` (no listener is called for a press that has not been read, and those left in
  the snapshot have not been called for this one) close it; `Stored` adds that
  `savedValue` is a press whose callback has stored it. Their conjunction is `Base`.
* `TypeCorrect`: `Base`'s first three parts are invariant.
* `ServiceImplementsFeed`: every step of KeyEvents is a step of KeyFeed or leaves its
  variables alone. `Notify` maps to `Tell`, which needs `CallOrder` for "after all it has
  heard of"; `ReadKey` maps to `Get`, which needs `Stored`.
* `ListenersFindDriver`, with `ReadyInv`: the barrier is open exactly when `InitDriver` is
  done, and only an open barrier lets a listener plug in.
* `ReadsAreNotified`, with `WokenInv`: when barriers are private, a listener is woken, or
  its barrier open, only after a callback of its own has stored a press.
* `ReadsAreInOrder` (with `MaxTasks = 1`): `InOrder` says that started callbacks are older
  than queued ones, that at most one is running, that the running one is the newest
  started while it stores, and that what was read is not newer than what is stored.
* `SilenceHasACause`, with `SilentInv`: while everybody lives and queues suffice, no call is
  refused, and as long as nothing that was to switch the port on has `failed`, the interrupt
  is on after `InitDriver` and the port disabled only inside `HandleIRQ`. So a silent port
  means that a listener ended, a wait failed, or a command of the IRQ thread cost
  `InitDriver` its parameter.
* `NoGapTheorem`, with `GapInv`: listeners stay plugged in, the controller holds the press
  after the one read last or none, and between the first press told and the one read last
  all were told.

**I8042Proofs** - any number of presses, every firmware, any scan codes, waits that fail.

* `PortEndsEnabled`: from the last parameter on, `OnInv` says that, unless a wait failed or
  the threads clashed, either the parameter is on its way (`SwitchingOn`) or the controller
  has taken it (`SwitchedOn`: the interrupt is on, the IRQ thread alone uses the ports, and
  `KBD_ENABLE` follows each `KBD_DISABLE`).
* `SavesFirmware`, `TakesOnlyScanCodes`: `ReplyInv` is `Beginning` and `Afterwards`.
  `Beginning` says, position by position, what the two buffers hold up to the reply to
  `RCTR`, as long as neither a scan code nor the IRQ thread came; `Afterwards`, that no reply
  is left in the buffer or on its way behind it.
* `FirmwareExposes`: with the interrupt off in the firmware's register the IRQ thread sleeps
  and nothing that could wake it is on its way (`Asleep`) until the controller has taken the
  last parameter (`Awake`), so there is no clash; with the keyboard off, too, no scan code
  comes before that either.

**KeyboardProofs** - every `Timeout` below the counter's size; every keyboard that sends codes
of an MF-II one (`Keys \subseteq AllKeys`; those of Print Screen and Pause are among them), any
buffer, any number of presses and any releases of keys that were not pressed.

* `Counting` relates the counter to the bytes read and to why a loop ended.
  `FlushCountsRight`; `NoTimeoutFails`: a timeout is never reported as an error.
* `CodesAreThoseTyped`: `CodesAsTyped` alone is not inductive, since it says nothing of what is
  still on the line. `Pending` reads the bytes there back as presses and releases,
  each with the keys that were down before and after it, from what `escaped` and `addKeys` know
  to what is down now. `ExactIn(used)` are the modifiers of which one key was used so far; they
  are told exactly. The tables enter through five lemmas about the codes of plain and
  escaped keys.

**FairnessTestProofs** - any number of threads, rounds and starts.

* `Population` says which threads can exist while they are started or aborted one by one,
  `Locking` that whoever is inside has the semaphore, `Reading` that a value read under it is
  still current when it is written. `OneThreadInside`, `RoundsAreCounted`.
* `HolderLives`, whatever the kernel does with the semaphore of an aborted thread: it is
  taken exactly while a living thread is inside, or for ever once such a thread was
  aborted without its release (`orphan`).
* `SharesAreWhole`: the StatisticsThread's loops are followed by the partial sums of the
  counts (`Sums`), which the invariant only claims to exist. While the loop prints, each rounded
  share has lost less than one: `100 * u[n] <= shares * sum + n * (sum - 1)`.

**LibraryProofs** - any processes, sockets and signatures, any length of the lists; any
callers, objects and threads, where `EXIT_CODE_NO_THREAD` is one of the exit codes and an
exception is none; any addresses whose names fit `_stringBuffer` (`AddressesFit`).

* `ListAgreesWithKernel`: `RegisteredIsKnown` is inductive together with `Owned`: a socket
  exists only in a process that has registered its wall, and a constructor of `Plug` works on
  a socket of its own process.
* `SignaturesMatch`: `CallInv` relates the three copies of a signature. Tables are prefixes
  of the lists, since lists only grow; the arrays of a cable lead from an entry of one table
  to an equal entry of the other; a plug's count is that of the table, not of the list, which
  is why a method added late is refused and not called with a wrong number.
* `ThreadsAnswer`: `HandleInv` says that a handle, once written, names a thread that was
  created by `Start` of the same object (`begun`), that `threadStarted` implies a written
  handle, and the same of the handle a call has taken with it. A thread only goes forward
  (`Onward`: started, ended, forgotten, the code kept), so what `Join` and `IsAlive` told
  stays true.
* `EachHasItsLock`: names differ because digits determine an address (`DigitsDiffer`, by the
  least address that shares its digits with another) and fit the buffer, so none is cut. An
  address of 32 bits has at most seven digits to the code's base (`CodeFits`). Then a lock is
  that of the object that has its name.

**LineEditorProofs** - any size of the buffers, any characters, any number of lines.

* `LineInv`: each buffer holds a line and zeros behind it, `strPos` is the length of
  the current one and `shown` its text. The lemmas `StoredCharacter` and `ClearedCharacter`
  say what one store does to the text of a buffer. `PositionIsLength`: `CursorAtEnd`.
* `KeepsHistory`: every key is a step of LineHistory or leaves its variables alone, with the
  texts of the buffers as its lines. Return is the step that needs to know that an empty
  last buffer is reused exactly when the last line is empty.

**ProgramsProofs** - any finite set of threads, any number of tests, starts and samples.

* `EachThreadCounts`: in the first test, `limitsStarted` and the threads that have yet to
  write it add up to those started (`Counted`); `Inside` says that a value read is current
  until it is written, because one thread is inside.
* `PrintsItsAnswer`: `OpenedIsKnown` and `CallsInTurn` say where each caller is and how far its
  call has come; a task writes a buffer only while its caller waits for it.
* `ProfileBelongsToTheLoop`: the wall admits one process and only that one comes to the loop
  (`OneOwner`), so that the kernel's one profile is on exactly when that process believes so.

**AlgorithmsProofs** - inputs of any length.

* `EveryArgumentArrives`: `Fetched` reads the words of a variadic call in order; up to the
  first float behind the first argument they are the arguments.
* `EachRowOnce`: the rows `ps` prints are distinct and those of the list, for any list with one
  row for each thread, in any order.
* `AgreesWithReference` is three results. `reset`: the loop over the letters sets a bit for
  each name it finds. `bench`: a byte is in place when none before it is greater; in a pass
  all are from the last exchange to where the pass is (`InPass`), and behind it those that
  earlier passes left (`Settled`), which is why the next pass may end at the last exchange.
  Each exchange is a bijection of places, so that every byte is there as often as before.
  Numbers: the quotients of a value by the radix are its prefixes (`Quotients`), so the
  digits read back as the value; `UInts`, `Unsigned` and `Signed` are a word and the sizes of
  the buffers, which are assumed to have room for the digits, the sign and the zero.
* `DigestsAreStandard`: the context after any number of octets in closed form (blocks done,
  place in the block, both counters, whether it overflowed), shown to be what `SHA1Input`
  keeps, and the padding from there. The counters may have any width divisible by eight, like
  the code's.
* `NamesAreWritten`: a name has 1 to 99 characters, no dot and no leading digit, as an
  identifier has. The lemmas up to `Chained` lay out the mangled text and the joined one,
  part by part. The loop is either before, inside (`Between` the digits and the copying, or
  `Reading` the digits of a length) or behind the names; each turn that does not end it goes
  on in the text within two turns, and what it has written is a beginning of the joined text
  with junk behind it.

* `TypesAreRead`: a parameter in the text of a list is a field: blanks, the spelling, and the
  comma or the end behind it, laid out with `Chained` like the names above. `Stop`,
  `TypeStart` and `TypeLength` of a field are found from that, `typeLength` being short by
  the blank inside a spelling that has one (`Counted`). A spelling that `GetType` compares
  earlier differs from it in a character that is counted (`EarlierDiffer`), so the earliest
  that matches is the one meant. The loop of `RegisterFunction` exists because it goes on
  further behind each time (`LoopExists`), and what it registers is read from the last
  parameter back.

Only model-checked:

* the liveness properties (`ListenerStarts`, `PressIsDelivered`, `WakeupIsNotLost`,
  `EveryPressIsSeen`, `DriverGoesOn`, `EverythingIsTold`, `OnesEnd`): liveness under fairness
  needs ENABLED, which the provers do not handle;
* and `WaitingMeansEnabled`, `PortEnabled` and `MeantOrMemory`, which are not true (section 8).

## 8. Disagreements between the code and what it says

Three of them are runs that TLC violates.

* `KeyEvents_silent`: `rdm.cpp:39-40` says that the IRQ thread "basically waits in a loop,
  so that IRQs can be deferred to this thread". After a listener has ended between the
  taking of the cable list and its call, the exception leaves `HandleIRQ` before line 450,
  and the thread waits with the keyboard port disabled: no interrupt can come.
* `I8042_port`: `KeyboardHandler.cpp:97` says that "i8042_enable_kbd_port enables keybaord
  port on chip". If the firmware left interrupts on, the IRQ thread's `KBD_DISABLE` and
  `KBD_ENABLE` can come between `WCTR` and its parameter; the parameter is lost and the port
  ends up disabled.

* `Algorithms_spelling`: `ipc.cpp:200` says of a parameter "Space is either at front or end".
  `typeLength` counts the characters that are not blanks, so that "unsigned char *" is compared
  without its last characters and registered as one byte, not as memory.

Others were met while modelling. The models follow the code; the properties state what
remains true.

* `profiler.cpp:26` says "capture all keys pressed". A press whose callback runs while the
  reader is not at its barrier is not captured (`WakeupIsNotLost` promises this press or a
  later one, to a reader that waits). A reader that comes back between `Go` and `Close`
  reads the same press again.
* `KeyboardHandler.cpp:188` says "Save the CTR for restoral". With the keyboard interface or
  the interrupt on, a scan code can be read in place of the reply to `RCTR`, and is what line
  196 keeps (`early` in `SavedIsFirmware`).
* `HandleIRQ` (line 400) knows no escape but E0, and tells every code of a stroke. Print
  Screen is told as an escaped shift key and an escaped 37, both with shift; Pause as left
  Ctrl and, with Ctrl, Num Lock; a cursor key with Num Lock on as an escaped shift key and
  the cursor key with shift; and E0 AA takes the shift of a held key away. `CodesAsTyped` is
  therefore about codes and not about strokes.
* A wait that times out returns success, since `tries` has wrapped (`OnlyLastPollFails`); an
  answer at the very last poll is the one failure. `I8042Flush` compares a count of up to
  10000 with 16 for equality, so that an absent controller passes the check
  (`FlushCounts` says what the count is). `InitDriver` ignores both results.
* A callback that comes between plugging and `new Sync` calls a method of a NULL pointer
  (`CallGoNull`).
* A function without parameters is registered with one `SINT32` (`TypesAsSpelled`).
* `raykeybind.h:15` says of `SP_KEY_NONE`: "Ctrl, Alt, Shift, but not other keys pressed". The
  right Ctrl and Alt keys give 256 instead, and the right shift key 54, or '6' with shift held.
* When a name is cut behind a dot, `Demangle` leaves the buffer without its terminating zero
  (`WritesTheName`).
* A float behind the first argument of a remote method reaches the kernel as half of a
  double, and every later argument one word late: `ipc1` calls `remote(42, 3.1415926f)`
  (`ArgumentsArrive` says which words are right).
* `processes.cpp:119` calls the name of a semaphore "some unique random string value". It is the
  object's address: unique in its process, the same in a second start (`OwnLock`).
* `GetAllCables` (`ipc.cpp:379-390`) constructs its list with the count, so that as many empty
  entries come first; nothing calls it. `NotifyObservers` uses `GetAllCablesRaw`.
* `ps` has five names of states and none for `T_EXITING` (`ps.cpp:20`, `processes.h:34`), and
  shows no thread whose parent has gone (`EachThreadOnce` is about the others).
* `BENCHBODY` returns before its `delete[]`: the buffers of a benchmark are never freed.
* `-value` of the smallest SINT32 (`VideoStream.cpp:61`) is undefined in C++; the model takes
  the wrapped value that the build's target gives (`AsReference`).
* `KeyEvent::globalListenerLock` stays TRUE when the constructor throws: a second
  attempt in the same process is refused. Both programs end instead.
* A second `stress thread` resets `limitsStarted` while threads of the first may still count,
  so it can report more threads than it started (`EachCountsOnce` is about the first run).

## 9. What is not modelled

* The kernel, except for what is listed in section 4.
* That the IRQ thread may call the pure virtual `HandleIRQ` before the derived object is
  constructed: what happens then is not defined.
* `IRQHandler`'s mapping of result codes to exceptions (the only handler prints them), the
  keylock warning, the translation bit and port 0x61, and port functions nobody calls.
* In the IPC library: message buffers (one system call each; Pairing has one that changes
  hands), plain accessors, and a plug of `Plug(Socket&)` used for calls (it leaves two members
  unset, and no program does it).
* `Sleep`, `Pause`, `Semaphore::Status` and the functions of `Process`: one system call each.
* Of class `Profiler` the functions that nothing calls (`Reset`, `GetUsage` and the like).
* The console's commands beyond those of section 3: the memory tests allocate until the
  kernel refuses, most benchmarks read the time around an empty body.
* The compression function of SHA-1: a run of arithmetic without a branch that depends on state.
* The sockets of the type sandbox, an earlier form of those in the library.
* Demo, template, and the wrappers of single system calls.
* Formatting and wording everywhere.

## 10. Plan

The order follows importance: the path of a key first, because every interactive program
depends on it and three kinds of concurrency meet there; then what it rests on
(controller, polls, translation, IPC, threads), then the programs and the algorithms.

Done: KeyFeed and KeyEvents with their refinement; I8042 and I8042Poll; KeyDecode; Ipc,
Signature, Threads and Semaphores; FairnessTest, ThreadLimit; LineHistory and LineEditor with
their refinement; Pairing, Profiling; Demangle, Commands, Video, Sha1; the proofs of section 7.

Next, in this order:

1. *Model.* Show that I8042 implements the commands of KeyEvents (`InitDriver`, `IrqCommand` and
   their losses), as an abstract controller of its own module. A second start of the driver
   next to the first.
2. *Abstract specifications.* What Ipc promises to a caller (a typed call to a living
   process, or an exception), with Ipc shown to implement it; a counter under a lock,
   implemented by FairnessTest and ThreadLimit.
3. *Prove.* The refinements of 2, and that the composition of 1 keeps the invariants of
   KeyEvents.
