------------------------------- MODULE I8042 -------------------------------
(***************************************************************************)
(* The keyboard driver's two threads at the ports of the i8042 controller: *)
(* the main thread runs InitDriver while the IRQ thread, which the base    *)
(* class constructor has already started, runs HandleIRQ whenever the      *)
(* controller interrupts.  A step is one port access or one complete       *)
(* poll loop, so that the commands of the two threads can interleave.      *)
(*                                                                         *)
(* A byte is the set of the two bits of the control register that the      *)
(* driver changes: "int" (I8042_CTR_KBDINT) and "dis" (I8042_CTR_KBDDIS).  *)
(* The controller and the keyboard are external.                           *)
(***************************************************************************)
EXTENDS Naturals, Sequences, FiniteSets

CONSTANTS Firmwares,  \* the control registers that firmwares leave
          ScanCodes,  \* the two bits that Bytes keeps of the scan codes
          MaxKeys     \* bound on the key presses of a behaviour

Bits  == {"int", "dis"}
Bytes == SUBSET Bits
Keys  == 1..MaxKeys

ASSUME BytesAssumption == Firmwares \subseteq Bytes /\ ScanCodes \subseteq Bytes
ASSUME KeysAssumption == MaxKeys \in Nat

\* InitDriver as the port accesses it makes: I8042Flush, the command RCTR with
\* its reply, and the command WCTR with its parameter twice.
Program == << "flush",
              "waitWrite", "RCTR", "waitRead", "readCtr",
              "waitWrite", "WCTR", "waitWrite", "writeOff",
              "waitWrite", "WCTR", "waitWrite", "writeOn",
              "go" >>
Saved == 6      \* the position after readCtr
Last  == 14     \* the position of Go
Done  == 15     \* the position after Go

\* HandleIRQ: AcknowledgeAndWaitForIRQ, KBD_DISABLE, the loop, KBD_ENABLE.
IrqPC == {"irqWait", "disWait", "dis", "status", "read", "enWait", "en"}

VARIABLES
  ctr,      \* the control register
  inp,      \* what the controller has yet to take from its input buffer
  expect,   \* the next data byte is the parameter of WCTR
  ob,       \* the output buffer: full or not, whose byte (0: a reply), the byte
  pend,     \* an interrupt waits for the IRQ thread
  pressed,  \* presses so far
  sent,     \* presses the controller has taken from the keyboard
  mpc,      \* main thread: position in Program
  I8042Ctr, I8042InitialCtr,
  ipc,      \* IRQ thread: position in HandleIRQ
  seen,     \* presses HandleIRQ has read
  phantom,  \* HandleIRQ has taken a reply of the controller for a scan code
  firmware, \* the control register as the firmware left it
  early,    \* history: a scan code came, or the IRQ thread ran, before Saved
  clash,    \* history: the IRQ thread wrote a command between InitDriver's last
            \* WCTR and the taking of its parameter
  gaveUp    \* history: a wait for the controller failed

hw   == <<ctr, inp, expect, ob, pend, sent>>
main == <<mpc, I8042Ctr, I8042InitialCtr>>
irq  == <<ipc, seen, phantom>>
past == <<firmware, early, clash, gaveUp>>
vars == <<hw, pressed, main, irq, past>>

Inputs == {"none", "RCTR", "WCTR", "KBD_DISABLE", "KBD_ENABLE", "data"}

TypeOK ==
  /\ ctr \in Bytes
  /\ inp \in [what : Inputs, byte : Bytes]
  /\ expect \in BOOLEAN /\ pend \in BOOLEAN /\ phantom \in BOOLEAN
  /\ ob \in [full : BOOLEAN, key : 0..MaxKeys, byte : Bytes]
  /\ pressed \in 0..MaxKeys /\ sent \in 0..MaxKeys
  /\ mpc \in 1..Done /\ ipc \in IrqPC
  /\ I8042Ctr \in Bytes /\ I8042InitialCtr \in Bytes
  /\ seen \subseteq Keys
  /\ firmware \in Bytes
  /\ early \in BOOLEAN /\ clash \in BOOLEAN /\ gaveUp \in BOOLEAN

NoInput == [what |-> "none", byte |-> {}]

\* The firmware may have left a byte in the buffer, and its interrupt pending.
Init ==
  /\ firmware \in Firmwares
  /\ ctr = firmware /\ inp = NoInput /\ expect = FALSE
  /\ ob \in [full : BOOLEAN, key : {0}, byte : ScanCodes]
  /\ pend \in {FALSE, ob.full /\ "int" \in firmware}
  /\ pressed = 0 /\ sent = 0
  /\ mpc = 1 /\ I8042Ctr = {} /\ I8042InitialCtr = {}
  /\ ipc = "irqWait" /\ seen = {} /\ phantom = FALSE
  /\ early = FALSE /\ clash = FALSE /\ gaveUp = FALSE

-----------------------------------------------------------------------------
(* The keyboard and the controller.                                        *)

Press ==
  /\ pressed < MaxKeys /\ pressed' = pressed + 1
  /\ UNCHANGED <<hw, main, irq, past>>

\* The scan code of the next press enters the free buffer.
Transfer ==
  /\ "dis" \notin ctr /\ ~ob.full /\ sent < pressed
  /\ \E b \in ScanCodes : ob' = [full |-> TRUE, key |-> sent + 1, byte |-> b]
  /\ sent' = sent + 1
  /\ pend' = (pend \/ "int" \in ctr)
  /\ early' = (early \/ mpc < Saved)
  /\ UNCHANGED <<ctr, inp, expect, pressed, main, irq, firmware, clash, gaveUp>>

\* The control register changes: an interrupt that is now enabled is raised
\* for a full buffer.
SetCtr(b) == ctr' = b /\ pend' = (pend \/ (ob.full /\ "int" \in b /\ "int" \notin ctr))

TakeCommand ==
  /\ inp.what \notin {"none", "data"}
  /\ inp' = NoInput
  /\ expect' = (inp.what = "WCTR")
  /\ \/ /\ inp.what = "RCTR" /\ ~ob.full
        /\ ob' = [full |-> TRUE, key |-> 0, byte |-> ctr]
        /\ pend' = (pend \/ "int" \in ctr)
        /\ UNCHANGED ctr
     \/ inp.what = "WCTR" /\ UNCHANGED <<ctr, ob, pend>>
     \/ inp.what = "KBD_DISABLE" /\ SetCtr(ctr \cup {"dis"}) /\ UNCHANGED ob
     \/ inp.what = "KBD_ENABLE" /\ SetCtr(ctr \ {"dis"}) /\ UNCHANGED ob
  /\ UNCHANGED <<sent, pressed, main, irq, past>>

\* A data byte is the parameter of WCTR or goes to the keyboard.
TakeData ==
  /\ inp.what = "data"
  /\ inp' = NoInput /\ expect' = FALSE
  /\ IF expect THEN SetCtr(inp.byte) ELSE UNCHANGED <<ctr, pend>>
  /\ UNCHANGED <<ob, sent, pressed, main, irq, past>>

-----------------------------------------------------------------------------
(* Port accesses.                                                          *)

\* The poll loops I8042WaitWrite and I8042WaitRead end when the controller is
\* ready, or time out when it cannot become ready; both count as success, since
\* the counter of polls has wrapped when the result is formed (I8042Poll).
WaitWrite == (inp.what = "none" \/ (inp.what = "RCTR" /\ ob.full)) /\ UNCHANGED inp
WaitRead  == (ob.full \/ inp.what = "none") /\ UNCHANGED inp

\* A write replaces what the controller has not taken yet.
Write(what, byte) == inp' = [what |-> what, byte |-> byte]

\* Reading the data port empties the buffer and keeps its last byte readable.
ReadData == ob' = [ob EXCEPT !.full = FALSE]

-----------------------------------------------------------------------------
(* The main thread.                                                        *)

At(op)  == mpc < Done /\ Program[mpc] = op
Advance == mpc' = mpc + 1

\* Mutant: the buffer is not flushed.
FlushNot ==
  /\ At("flush") /\ Advance
  /\ UNCHANGED <<hw, pressed, I8042Ctr, I8042InitialCtr, irq, past>>

Flush ==
  /\ At("flush")
  /\ IF ob.full THEN ReadData /\ UNCHANGED mpc ELSE Advance /\ UNCHANGED ob
  /\ UNCHANGED <<ctr, inp, expect, pend, sent, pressed, I8042Ctr, I8042InitialCtr, irq, past>>

MainWait ==
  /\ \/ At("waitWrite") /\ WaitWrite
     \/ At("waitRead") /\ WaitRead
  /\ Advance
  /\ UNCHANGED <<ctr, expect, ob, pend, sent, pressed, I8042Ctr, I8042InitialCtr, irq, past>>

\* The controller is ready at the very last poll only: I8042Command fails, and so does
\* I8042Probe, which InitDriver ignores.
MainWaitFails ==
  /\ \/ At("waitWrite") /\ inp.what = "none"
     \/ At("waitRead") /\ ob.full
  /\ mpc' = Last /\ gaveUp' = TRUE
  /\ UNCHANGED <<hw, pressed, I8042Ctr, I8042InitialCtr, irq, firmware, early, clash>>

MainCommand ==
  /\ \E w \in {"RCTR", "WCTR"} : At(w) /\ Write(w, {})
  /\ Advance
  /\ UNCHANGED <<ctr, expect, ob, pend, sent, pressed, I8042Ctr, I8042InitialCtr, irq, past>>

\* Mutant: the register is saved before it is read.
ReadCtrEarly ==
  /\ At("readCtr")
  /\ ReadData
  /\ I8042InitialCtr' = I8042Ctr
  /\ I8042Ctr' = (ob.byte \cup {"dis"}) \ {"int"}
  /\ Advance
  /\ UNCHANGED <<ctr, inp, expect, pend, sent, pressed, irq, past>>

\* param[0] = I8042ReadData(); I8042InitialCtr = I8042Ctr; then the keyboard
\* interface and its interrupt are taken out of I8042Ctr.
ReadCtr ==
  /\ At("readCtr")
  /\ ReadData
  /\ I8042InitialCtr' = ob.byte
  /\ I8042Ctr' = (ob.byte \cup {"dis"}) \ {"int"}
  /\ Advance
  /\ UNCHANGED <<ctr, inp, expect, pend, sent, pressed, irq, past>>

\* Mutant: the keyboard is switched on by the first WCTR already.
WriteOffOn ==
  /\ At("writeOff") /\ Write("data", (I8042Ctr \ {"dis"}) \cup {"int"})
  /\ I8042Ctr' = (I8042Ctr \ {"dis"}) \cup {"int"}
  /\ Advance
  /\ UNCHANGED <<ctr, expect, ob, pend, sent, pressed, I8042InitialCtr, irq, past>>

\* Mutant: I8042EnableKBDPort does not change the bits.
WriteOffOnly ==
  /\ At("writeOff") /\ Write("data", I8042Ctr)
  /\ Advance
  /\ UNCHANGED <<ctr, expect, ob, pend, sent, pressed, I8042Ctr, I8042InitialCtr, irq, past>>

\* The parameter of WCTR; I8042EnableKBDPort sets the bits before its command.
WriteOff ==
  /\ At("writeOff") /\ Write("data", I8042Ctr)
  /\ I8042Ctr' = (I8042Ctr \ {"dis"}) \cup {"int"}
  /\ Advance
  /\ UNCHANGED <<ctr, expect, ob, pend, sent, pressed, I8042InitialCtr, irq, past>>

WriteOn ==
  /\ At("writeOn") /\ Write("data", I8042Ctr)
  /\ Advance
  /\ UNCHANGED <<ctr, expect, ob, pend, sent, pressed, I8042Ctr, I8042InitialCtr, irq, past>>

Go ==
  /\ At("go") /\ Advance
  /\ UNCHANGED <<hw, pressed, I8042Ctr, I8042InitialCtr, irq, past>>

-----------------------------------------------------------------------------
(* The IRQ thread.                                                         *)

IrqStep(from, to) == ipc = from /\ ipc' = to

IrqArrives ==
  /\ IrqStep("irqWait", "disWait") /\ pend
  /\ pend' = FALSE
  /\ early' = (early \/ mpc < Saved)
  /\ UNCHANGED <<ctr, inp, expect, ob, sent, pressed, main, seen, phantom,
                 firmware, clash, gaveUp>>

IrqWaitWrite ==
  /\ IrqStep("disWait", "dis") \/ IrqStep("enWait", "en")
  /\ WaitWrite
  /\ UNCHANGED <<ctr, expect, ob, pend, sent, pressed, main, seen, phantom, past>>

\* Ready at the very last poll only: the command is not sent, and HandleIRQ goes on.
IrqWaitFails ==
  /\ IrqStep("disWait", "status") \/ IrqStep("enWait", "irqWait")
  /\ inp.what = "none" /\ gaveUp' = TRUE
  /\ UNCHANGED <<hw, pressed, main, seen, phantom, firmware, early, clash>>

\* A command of the IRQ thread.
Send(what) ==
  /\ Write(what, {})
  /\ clash' = (clash \/ mpc \in 12..13 \/ (mpc >= Last /\ inp.what = "data"))
  /\ UNCHANGED <<ctr, expect, ob, pend, sent, pressed, main, seen, phantom,
                 firmware, early, gaveUp>>

Disable == IrqStep("dis", "status") /\ Send("KBD_DISABLE")

ReadStatus ==
  /\ IrqStep("status", IF ob.full THEN "read" ELSE "enWait")
  /\ UNCHANGED <<hw, pressed, main, seen, phantom, past>>

ReadScanCode ==
  /\ IrqStep("read", "status")
  /\ ReadData
  /\ seen' = seen \cup ({ob.key} \ {0})
  /\ phantom' = (phantom \/ ob.key = 0)
  /\ UNCHANGED <<ctr, inp, expect, pend, sent, pressed, main, past>>

\* Mutant: HandleIRQ returns without KBD_ENABLE.
EnableNot ==
  /\ IrqStep("en", "irqWait")
  /\ UNCHANGED <<hw, pressed, main, seen, phantom, past>>

Enable == IrqStep("en", "irqWait") /\ Send("KBD_ENABLE")

-----------------------------------------------------------------------------
Controller == Transfer \/ TakeCommand \/ TakeData
Main       == \/ Flush \/ MainWait \/ MainWaitFails \/ MainCommand
              \/ ReadCtr \/ WriteOff \/ WriteOn \/ Go
IrqThread  == \/ IrqArrives \/ IrqWaitWrite \/ IrqWaitFails
              \/ Disable \/ ReadStatus \/ ReadScanCode \/ Enable

Next == Press \/ Controller \/ Main \/ IrqThread

\* The controller works on, and both threads run until they block.
Fairness == WF_vars(Transfer) /\ WF_vars(TakeCommand \/ TakeData)
            /\ WF_vars(Main) /\ WF_vars(IrqThread)

Spec     == Init /\ [][Next]_vars
FairSpec == Spec /\ Fairness

-----------------------------------------------------------------------------
(* Properties.                                                             *)

\* "Save the CTR for restoral on unload / reboot" (KeyboardHandler.cpp:188): what
\* is saved is the register as the firmware left it, unless a wait failed, or a scan
\* code or the IRQ thread came before the reply to RCTR was read.
SavedIsFirmware ==
  mpc >= Saved => I8042InitialCtr = firmware \/ early \/ gaveUp

\* Both threads are at rest and the controller has taken all input.
Quiet == mpc = Done /\ ipc = "irqWait" /\ ~pend /\ inp.what = "none"

\* "enables keybaord port on chip" (KeyboardHandler.cpp:97): when everything has
\* come to rest after InitDriver, the port is enabled and interrupts.
PortEnabled == Quiet /\ ~gaveUp => ctr = {"int"}

\* The same with the one way, besides a failing wait, in which the code misses it:
\* the last parameter was lost to a command of the IRQ thread.
PortEnabledUnlessClash == Quiet => ctr = {"int"} \/ gaveUp \/ clash

\* HandleIRQ takes a byte for a scan code that the controller put into the buffer on
\* a command of the main thread, or that was there before, only if a wait failed or it
\* ran too early.
NoPhantom == phantom => early \/ gaveUp

\* What exposes the driver to its own IRQ thread is the firmware's setting: the threads
\* compete for the last parameter only when the interrupt was on at the start, and for
\* the reply to RCTR only when the interrupt or the keyboard was.
HarmNeedsFirmware ==
  /\ clash => "int" \in firmware
  /\ early => firmware # {"dis"}

\* HandleIRQ reads every press that the controller takes from the keyboard after the
\* reply to RCTR, also one made before or during InitDriver.
EveryPressIsSeen ==
  \A k \in Keys :
    (mpc >= Saved /\ sent < k /\ k <= pressed) ~> (k \in seen \/ gaveUp \/ clash)
=============================================================================
