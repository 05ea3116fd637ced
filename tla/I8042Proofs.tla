---------------------------- MODULE I8042Proofs ----------------------------
(***************************************************************************)
(* Proofs about I8042 for any settings of the firmware, any scan codes and *)
(* any number of presses: what InitDriver achieves while its IRQ thread    *)
(* runs already and its waits may fail, and which settings of the firmware *)
(* expose it to that thread.                                               *)
(***************************************************************************)
EXTENDS I8042, TLAPS

LEMMA TypeInit == Init => TypeOK
<1> SUFFICES ASSUME Init PROVE TypeOK
  OBVIOUS
<1> USE KeysAssumption, BytesAssumption DEF Init, Bytes, Bits, Inputs, NoInput, IrqPC, Keys, Done
<1>1. inp \in [what : Inputs, byte : Bytes]
  OBVIOUS
<1>2. ob \in [full : BOOLEAN, key : 0..MaxKeys, byte : Bytes]
  <2>1. /\ ob.full \in BOOLEAN /\ ob.key = 0 /\ ob.byte \in ScanCodes
        /\ ob = [full |-> ob.full, key |-> ob.key, byte |-> ob.byte]
    BY DEF Init
  <2> HIDE DEF Bytes
  <2>2. ob.key \in 0..MaxKeys /\ ob.byte \in Bytes
    BY <2>1
  <2>3. QED
    BY <2>1, <2>2
<1>3. ctr \in Bytes /\ firmware \in Bytes /\ I8042Ctr \in Bytes /\ I8042InitialCtr \in Bytes /\ seen \subseteq Keys
  OBVIOUS
<1>4. pend \in BOOLEAN
  BY DEF Init
<1>5. /\ expect \in BOOLEAN /\ phantom \in BOOLEAN /\ ipc \in IrqPC
      /\ early \in BOOLEAN /\ clash \in BOOLEAN /\ gaveUp \in BOOLEAN
  BY DEF Init
<1>6. mpc \in 1..Done /\ pressed \in 0..MaxKeys /\ sent \in 0..MaxKeys
  BY DEF Init
<1>7. QED
  BY <1>1, <1>2, <1>3, <1>4, <1>5, <1>6 DEF TypeOK

LEMMA TypeStep == TypeOK /\ [Next]_vars => TypeOK'
<1> SUFFICES ASSUME TypeOK, [Next]_vars PROVE TypeOK'
  OBVIOUS
<1> USE KeysAssumption, BytesAssumption
    DEF TypeOK, Bytes, Bits, Inputs, NoInput, IrqPC, Keys, Last, Done, At, Advance,
        Write, WaitWrite, WaitRead, hw, main, irq, past
<1> DEFINE Buffer == [full : BOOLEAN, key : 0..MaxKeys, byte : Bytes]
<1>0. ReadData => ob' \in Buffer
  BY DEF ReadData
<1>1. CASE Press
  BY <1>1 DEF Press
<1>2. CASE Transfer
  BY <1>2 DEF Transfer
<1>3. CASE TakeCommand
  <2>0. ob' = ob \/ ob' = [full |-> TRUE, key |-> 0, byte |-> ctr]
    BY <1>3 DEF TakeCommand
  <2>1. ob' \in Buffer
    <3>1. CASE ob' = ob
      BY <3>1
    <3>2. CASE ob' = [full |-> TRUE, key |-> 0, byte |-> ctr]
      <4>1. ctr \in Bytes /\ 0 \in 0..MaxKeys /\ TRUE \in BOOLEAN
        OBVIOUS
      <4> HIDE DEF Bytes, TypeOK
      <4>2. QED
        BY <3>2, <4>1
    <3>3. QED
      BY <2>0, <3>1, <3>2
  <2>2. ctr' \in Bytes /\ pend' \in BOOLEAN /\ expect' \in BOOLEAN
    BY <1>3 DEF TakeCommand, SetCtr
  <2>3. inp' \in [what : Inputs, byte : Bytes]
    BY <1>3 DEF TakeCommand
  <2>4. UNCHANGED <<pressed, sent, main, irq, past>>
    BY <1>3 DEF TakeCommand
  <2>5. QED
    BY <2>1, <2>2, <2>3, <2>4
<1>4. CASE TakeData
  BY <1>4 DEF TakeData, SetCtr
<1>5. CASE Flush
  BY <1>0, <1>5 DEF Flush
<1>6. CASE MainWait
  BY <1>6 DEF MainWait
<1>20. CASE MainWaitFails
  BY <1>20 DEF MainWaitFails
<1>7. CASE MainCommand
  BY <1>7 DEF MainCommand
<1>8. CASE ReadCtr
  <2>1. ob' \in Buffer /\ ob.byte \in Bytes
    BY <1>0, <1>8 DEF ReadCtr
  <2>2. QED
    BY <1>8, <2>1 DEF ReadCtr
<1>9. CASE WriteOff
  BY <1>9 DEF WriteOff
<1>10. CASE WriteOn
  BY <1>10 DEF WriteOn
<1>11. CASE Go
  BY <1>11 DEF Go
<1>12. CASE IrqArrives
  BY <1>12 DEF IrqArrives, IrqStep
<1>13. CASE IrqWaitWrite
  BY <1>13 DEF IrqWaitWrite, IrqStep
<1>21. CASE IrqWaitFails
  BY <1>21 DEF IrqWaitFails, IrqStep
<1>22. ASSUME NEW what \in Inputs, Send(what), ipc' \in IrqPC PROVE TypeOK'
  <2>1. inp' \in [what : Inputs, byte : Bytes]
    BY <1>22 DEF Send
  <2>2. clash' = (clash \/ (mpc \in 12..13 \/ (mpc >= Last /\ inp.what = "data")))
    BY <1>22 DEF Send
  <2>3. clash' \in BOOLEAN
    BY <2>2, Zenon
  <2>4. QED
    BY <1>22, <2>1, <2>3 DEF Send
<1>14. CASE Disable
  BY <1>14, <1>22 DEF Disable, IrqStep
<1>15. CASE ReadStatus
  BY <1>15 DEF ReadStatus, IrqStep
<1>16. CASE ReadScanCode
  <2>1. ob' \in Buffer /\ ob.key \in 0..MaxKeys
    BY <1>0, <1>16 DEF ReadScanCode
  <2>2. seen' \subseteq Keys /\ ipc' \in IrqPC
    <3>1. seen' = seen \cup ({ob.key} \ {0}) /\ ipc' = "status"
      BY <1>16 DEF ReadScanCode, IrqStep
    <3>2. ob.key = 0 \/ ob.key \in Keys
      BY <2>1
    <3>3. QED
      BY <3>1, <3>2
  <2>3. phantom' = (phantom \/ ob.key = 0)
    BY <1>16 DEF ReadScanCode
  <2>4. phantom' \in BOOLEAN
    BY <2>3, Zenon
  <2>5. UNCHANGED <<ctr, inp, expect, pend, sent, pressed, main, past>>
    BY <1>16 DEF ReadScanCode
  <2>6. QED
    BY <2>1, <2>2, <2>4, <2>5
<1>17. CASE Enable
  BY <1>17, <1>22 DEF Enable, IrqStep
<1>18. CASE UNCHANGED vars
  BY <1>18 DEF vars
<1>19. QED
  BY <1>1, <1>2, <1>3, <1>4, <1>5, <1>6, <1>7, <1>8, <1>9, <1>10, <1>11, <1>12,
     <1>13, <1>14, <1>15, <1>16, <1>17, <1>18, <1>20, <1>21 DEF Next, Controller, Main, IrqThread

\* The types are an invariant.
THEOREM TypeCorrect == Spec => []TypeOK
BY TypeInit, TypeStep, PTL DEF Spec

\* What each position of Program does.
LEMMA Positions ==
  ASSUME TypeOK
  PROVE  /\ At("flush") <=> mpc = 1
         /\ At("waitWrite") <=> mpc \in {2, 6, 8, 10, 12}
         /\ At("RCTR") <=> mpc = 3
         /\ At("waitRead") <=> mpc = 4
         /\ At("readCtr") <=> mpc = 5
         /\ At("WCTR") <=> mpc \in {7, 11}
         /\ At("writeOff") <=> mpc = 9
         /\ At("writeOn") <=> mpc = 13
         /\ At("go") <=> mpc = 14
<1>1. mpc \in 1..15
  BY DEF TypeOK, Done
<1>2. \/ mpc = 1 \/ mpc = 2 \/ mpc = 3 \/ mpc = 4 \/ mpc = 5 \/ mpc = 6 \/ mpc = 7 \/ mpc = 8
      \/ mpc = 9 \/ mpc = 10 \/ mpc = 11 \/ mpc = 12 \/ mpc = 13 \/ mpc = 14 \/ mpc = 15
  BY <1>1
<1>3. QED
  BY <1>2 DEF At, Program, Done

\* Who moves where, and what each thread leaves alone.
LEMMA MainAfterOn ==
  ASSUME TypeOK, mpc \in 14..15, Main
  PROVE  Go
BY Positions DEF Main, Flush, MainWait, MainWaitFails, MainCommand, ReadCtr, WriteOff, WriteOn

LEMMA IrqFrame == IrqThread => UNCHANGED <<ctr, expect, sent, pressed, main, firmware>>
BY DEF IrqThread, IrqArrives, IrqWaitWrite, IrqWaitFails, Disable, ReadStatus, ReadScanCode,
       Enable, Send, hw, past

LEMMA MainFrame == Main => UNCHANGED <<ctr, expect, pend, sent, pressed, irq, firmware, early, clash>>
BY DEF Main, Flush, MainWait, MainWaitFails, MainCommand, ReadCtr, WriteOff, WriteOn, Go, hw, past

-----------------------------------------------------------------------------
(* The last parameter of InitDriver: on its way, or taken, and then the IRQ *)
(* thread alone uses the ports.                                            *)

SwitchingOn == inp = [what |-> "data", byte |-> {"int"}] /\ expect

SwitchedOn ==
  /\ ~expect /\ "int" \in ctr
  /\ inp.what \in {"none", "KBD_DISABLE", "KBD_ENABLE"}
  /\ ipc \in {"irqWait", "disWait"} =>
       inp.what # "KBD_DISABLE" /\ (inp.what = "none" => "dis" \notin ctr)
  /\ ipc \in {"dis", "en"} => inp.what = "none"
  /\ ipc \in {"status", "read", "enWait"} => inp.what # "KBD_ENABLE"

OnInv ==
  ~clash /\ ~gaveUp =>
    /\ mpc \in 10..13 => I8042Ctr = {"int"}
    /\ mpc = 12 => inp.what = "WCTR" \/ (inp.what = "none" /\ expect)
    /\ mpc = 13 => inp.what = "none" /\ expect
    /\ mpc \in 14..15 => SwitchingOn \/ SwitchedOn

LEMMA OnInit == Init => OnInv
BY DEF Init, OnInv

LEMMA OnStep == TypeOK /\ OnInv /\ [Next]_vars => OnInv'
<1> SUFFICES ASSUME TypeOK, OnInv, [Next]_vars, ~clash', ~gaveUp'
             PROVE  OnInv'
  BY DEF OnInv
<1>0. mpc \in 1..15 /\ mpc \in Nat
  BY DEF TypeOK, Done
<1> USE <1>0 DEF OnInv, SwitchingOn, NoInput, hw, main, irq, past
<1> DEFINE onVars == <<clash, gaveUp, mpc, I8042Ctr, inp, expect, ctr, ipc>>
<1>1. CASE UNCHANGED onVars
  BY <1>1 DEF SwitchedOn
<1>2. CASE TakeCommand
  <2>1. inp'.what = "none" /\ UNCHANGED <<mpc, ipc, I8042Ctr, clash, gaveUp>>
        /\ inp.what \notin {"none", "data"} /\ expect' = (inp.what = "WCTR")
    BY <1>2 DEF TakeCommand
  <2>2. mpc \in 14..15 => SwitchedOn
    BY <2>1
  <2>3. SwitchedOn => SwitchedOn'
    BY <1>2, <2>1 DEF TakeCommand, SetCtr, SwitchedOn
  <2>4. QED
    BY <2>1, <2>2, <2>3
<1>3. CASE TakeData
  <2>1. inp' = NoInput /\ ~expect' /\ UNCHANGED <<mpc, ipc, I8042Ctr, clash, gaveUp>>
        /\ inp.what = "data"
    BY <1>3 DEF TakeData
  <2>2. mpc \notin {12, 13} /\ ~SwitchedOn
    BY <2>1 DEF SwitchedOn
  <2>3. mpc \in 14..15 => ctr' = {"int"}
    BY <1>3, <2>2 DEF TakeData, SetCtr
  <2>4. QED
    BY <2>1, <2>2, <2>3 DEF SwitchedOn
<1>4. CASE Main
  <2>1. CASE mpc \in 14..15
    <3>1. Go
      BY <1>4, <2>1, MainAfterOn
    <3>2. mpc' \in 14..15 /\ UNCHANGED <<clash, gaveUp, inp, expect, ctr, ipc>>
      BY <3>1, Positions DEF Go, Advance
    <3>3. QED
      BY <2>1, <3>2 DEF SwitchedOn
  <2>2. CASE Flush
    BY <2>2, Positions DEF Flush, Advance
  <2>3. CASE MainWait
    <3>1. mpc \in {2, 4, 6, 8, 10, 12} /\ mpc' = mpc + 1
          /\ UNCHANGED <<inp, expect, I8042Ctr, clash, gaveUp>>
      BY <2>3, Positions DEF MainWait, Advance, WaitRead, WaitWrite
    <3>2. mpc = 12 => inp.what = "none"
      BY <2>3, Positions DEF MainWait, WaitWrite
    <3>3. QED
      BY <3>1, <3>2
  <2>4. CASE MainWaitFails
    BY <2>4 DEF MainWaitFails
  <2>5. CASE MainCommand
    BY <2>5, Positions DEF MainCommand, Advance, Write
  <2>6. CASE ReadCtr
    BY <2>6, Positions DEF ReadCtr, Advance
  <2>7. CASE WriteOff
    <3>1. mpc = 9 /\ mpc' = 10 /\ I8042Ctr' = (I8042Ctr \ {"dis"}) \cup {"int"}
      BY <2>7, Positions DEF WriteOff, Advance
    <3>2. I8042Ctr \subseteq {"int", "dis"}
      BY DEF TypeOK, Bytes, Bits
    <3>3. I8042Ctr' = {"int"}
      BY <3>1, <3>2, Zenon
    <3>4. QED
      BY <3>1, <3>3
  <2>8. CASE WriteOn
    <3>1. mpc = 13 /\ mpc' = 14 /\ inp' = [what |-> "data", byte |-> I8042Ctr]
          /\ UNCHANGED <<expect, clash, gaveUp>>
      BY <2>8, Positions DEF WriteOn, Advance, Write
    <3>2. QED
      BY <3>1
  <2>9. CASE Go
    BY <2>1, <2>9, Positions DEF Go
  <2>10. QED
    BY <1>4, <2>1, <2>2, <2>3, <2>4, <2>5, <2>6, <2>7, <2>8, <2>9 DEF Main
<1>5. CASE IrqArrives \/ ReadStatus \/ ReadScanCode \/ IrqWaitWrite
  <2>1. UNCHANGED <<clash, gaveUp, mpc, I8042Ctr, inp, expect, ctr>>
    BY <1>5 DEF IrqArrives, ReadStatus, ReadScanCode, IrqWaitWrite, WaitWrite
  <2>2. SwitchedOn => SwitchedOn'
    BY <1>5, <2>1 DEF IrqArrives, ReadStatus, ReadScanCode, IrqWaitWrite, WaitWrite,
                      IrqStep, SwitchedOn
  <2>3. QED
    BY <2>1, <2>2
<1>6. CASE IrqWaitFails
  BY <1>6 DEF IrqWaitFails
<1>7. CASE Disable \/ Enable
  <2>1. UNCHANGED <<gaveUp, mpc, I8042Ctr, expect, ctr>>
    BY <1>7 DEF Disable, Enable, Send
  <2>6. clash' = (clash \/ (mpc \in 12..13 \/ (mpc >= Last /\ inp.what = "data")))
    BY <1>7 DEF Disable, Enable, Send
  <2>7. ~clash /\ ~(mpc \in 12..13) /\ ~(mpc >= Last /\ inp.what = "data")
    BY <2>6, Zenon
  <2>2. mpc \notin 12..13 /\ ~(mpc >= 14 /\ inp.what = "data")
    BY <2>7 DEF Last
  <2>3. mpc \in 14..15 => SwitchedOn
    BY <2>1, <2>2, <2>7
  <2>4. SwitchedOn => SwitchedOn'
    BY <1>7, <2>1 DEF Disable, Enable, Send, Write, IrqStep, SwitchedOn
  <2>5. QED
    BY <2>1, <2>2, <2>3, <2>4, <2>7
<1>8. ASSUME Press \/ Transfer \/ UNCHANGED vars PROVE UNCHANGED onVars
  BY <1>8 DEF Press, Transfer, vars
<1>9. QED
  BY <1>1, <1>2, <1>3, <1>4, <1>5, <1>6, <1>7, <1>8 DEF Next, Controller, IrqThread

\* Whatever the firmware left, the port ends up enabled unless a wait failed or a command
\* of the IRQ thread came between InitDriver's last WCTR and the taking of its parameter.
THEOREM PortEndsEnabled == Spec => []PortEnabledUnlessClash
<1>1. Init => TypeOK /\ OnInv
  BY TypeInit, OnInit
<1>2. TypeOK /\ OnInv /\ [Next]_vars => (TypeOK /\ OnInv)'
  BY TypeStep, OnStep
<1>3. TypeOK /\ OnInv => PortEnabledUnlessClash
  <2> SUFFICES ASSUME TypeOK, OnInv, Quiet, ~gaveUp, ~clash PROVE ctr = {"int"}
    BY DEF PortEnabledUnlessClash
  <2>1. SwitchedOn
    BY DEF Quiet, OnInv, SwitchingOn, Done
  <2>2. "int" \in ctr /\ "dis" \notin ctr
    BY <2>1 DEF Quiet, SwitchedOn
  <2>3. QED
    BY <2>2 DEF TypeOK, Bytes, Bits
<1>4. QED
  BY <1>1, <1>2, <1>3, PTL DEF Spec

-----------------------------------------------------------------------------
(* The reply to RCTR, and what HandleIRQ reads.                            *)

\* Before the reply is read, and as long as neither a scan code nor the IRQ thread came.
Beginning ==
  ~early /\ mpc \in 1..5 =>
    /\ ctr = firmware /\ ipc = "irqWait" /\ (pend => "int" \in firmware)
    /\ inp.what \in {"none", "RCTR"}
    /\ mpc \in 1..3 \cup {5} => inp.what = "none"
    /\ mpc \in 2..3 => ~ob.full
    /\ mpc = 4 => \/ inp.what = "RCTR" /\ ~ob.full
                  \/ inp.what = "none" /\ ob.byte = firmware
    /\ mpc = 5 => ob.byte = firmware

\* After it, unless a wait failed.
Afterwards ==
  ~early /\ ~gaveUp =>
    /\ mpc \in 6..15 => /\ I8042InitialCtr = firmware
                        /\ inp.what # "RCTR" /\ (ob.full => ob.key # 0)
    /\ ipc = "read" => ob.full
    /\ ~phantom

ReplyInv ==
  /\ Beginning /\ Afterwards
  /\ firmware = {"dis"} => ~early

LEMMA ReplyInit == Init => ReplyInv
<1> SUFFICES ASSUME Init PROVE ReplyInv
  OBVIOUS
<1>1. mpc = 1 /\ ipc = "irqWait" /\ ctr = firmware /\ inp = NoInput /\ ~phantom /\ ~early
      /\ (pend => "int" \in firmware)
  BY DEF Init
<1>2. QED
  BY <1>1 DEF ReplyInv, Beginning, Afterwards, NoInput

LEMMA ReplyStep == TypeOK /\ ReplyInv /\ [Next]_vars => ReplyInv'
<1> SUFFICES ASSUME TypeOK, ReplyInv, [Next]_vars PROVE ReplyInv'
  OBVIOUS
<1>0. mpc \in 1..15 /\ mpc \in Nat /\ early \in BOOLEAN
  BY DEF TypeOK, Done
<1> USE <1>0 DEF ReplyInv, Beginning, Afterwards, NoInput, Saved, hw, main, irq, past
<1>1. CASE Transfer
  <2>1. /\ UNCHANGED <<mpc, ipc, ctr, inp, phantom, I8042InitialCtr, firmware, gaveUp>>
        /\ ob'.full /\ ob'.key = sent + 1 /\ "dis" \notin ctr
        /\ early' = (early \/ mpc < 6)
    BY <1>1 DEF Transfer
  <2>2. sent + 1 # 0
    BY DEF TypeOK
  <2>3. CASE mpc \in 1..5
    <3>0. mpc < 6
      BY <2>3
    <3>3. early'
      BY <2>1, <3>0, Zenon
    <3>1. early \/ firmware # {"dis"}
      BY <2>1, <2>3
    <3>4. firmware # {"dis"}
      BY <3>1
    <3>2. QED
      BY <2>1, <2>3, <3>3, <3>4
  <2>4. CASE mpc \in 6..15
    <3>0. ~(mpc < 6)
      BY <2>4
    <3>1. early' = early
      BY <1>0, <2>1, <3>0, Zenon
    <3>2. QED
      BY <2>1, <2>2, <2>4, <3>1
  <2>5. QED
    BY <2>3, <2>4
<1>2. CASE TakeCommand
  <2>1. inp'.what = "none" /\ inp.what \notin {"none", "data"}
        /\ UNCHANGED <<mpc, ipc, phantom, I8042InitialCtr, past>>
    BY <1>2 DEF TakeCommand
  <2>2. CASE mpc \in 1..5 /\ ~early
    <3>1. inp.what = "RCTR" /\ mpc = 4
      BY <2>1, <2>2
    <3>2. ob'.byte = ctr /\ ctr' = ctr /\ pend' = (pend \/ "int" \in ctr)
      BY <1>2, <3>1 DEF TakeCommand
    <3>3. QED
      BY <2>1, <2>2, <3>1, <3>2
  <2>3. CASE mpc \in 6..15 /\ ~early /\ ~gaveUp
    <3>1. inp.what # "RCTR"
      BY <2>3
    <3>2. ob' = ob
      BY <1>2, <3>1 DEF TakeCommand
    <3>3. QED
      BY <2>1, <2>3, <3>2
  <2>4. CASE early \/ (mpc \in 6..15 /\ gaveUp)
    BY <2>1, <2>4
  <2>5. QED
    BY <2>2, <2>3, <2>4
<1>3. CASE TakeData
  <2>1. inp.what = "data" /\ inp'.what = "none"
        /\ UNCHANGED <<ob, mpc, ipc, phantom, I8042InitialCtr, past>>
    BY <1>3 DEF TakeData
  <2>2. QED
    BY <2>1
<1>4. CASE Flush
  <2>1. mpc = 1 /\ mpc' \in {1, 2} /\ (mpc' = 2 => ~ob'.full)
        /\ UNCHANGED <<ctr, inp, pend, ipc, phantom, past>>
    BY <1>4, Positions DEF Flush, Advance
  <2>2. QED
    BY <2>1
<1>5. CASE MainWait
  <2>1. mpc \in {2, 4, 6, 8, 10, 12} /\ mpc' = mpc + 1
        /\ UNCHANGED <<ctr, inp, ob, pend, I8042InitialCtr, ipc, phantom, past>>
    BY <1>5, Positions DEF MainWait, Advance, WaitWrite, WaitRead
  <2>2. mpc = 4 => ob.full \/ inp.what = "none"
    BY <1>5, Positions DEF MainWait, WaitRead
  <2>3. QED
    BY <2>1, <2>2
<1>6. CASE MainWaitFails
  <2>1. gaveUp' /\ mpc' = 14 /\ UNCHANGED <<early, firmware>>
    BY <1>6 DEF MainWaitFails, Last
  <2>2. QED
    BY <2>1
<1>7. CASE MainCommand
  <2>1. mpc \in {3, 7, 11} /\ mpc' = mpc + 1
        /\ UNCHANGED <<ctr, ob, pend, I8042InitialCtr, ipc, phantom, past>>
    BY <1>7, Positions DEF MainCommand, Advance
  <2>2. inp'.what = IF mpc = 3 THEN "RCTR" ELSE "WCTR"
    BY <1>7, <2>1, Positions DEF MainCommand, Write
  <2>3. QED
    BY <2>1, <2>2
<1>8. CASE ReadCtr
  <2>1. mpc = 5 /\ mpc' = 6 /\ I8042InitialCtr' = ob.byte /\ ob' = [ob EXCEPT !.full = FALSE]
        /\ UNCHANGED <<inp, ipc, phantom, past>>
    BY <1>8, Positions DEF ReadCtr, Advance, ReadData
  <2>2. ~ob'.full
    BY <2>1 DEF TypeOK
  <2>3. QED
    BY <2>1, <2>2
<1>9. CASE WriteOff \/ WriteOn
  <2>1. mpc \in {9, 13} /\ mpc' = mpc + 1 /\ inp'.what = "data"
        /\ UNCHANGED <<ob, I8042InitialCtr, ipc, phantom, past>>
    BY <1>9, Positions DEF WriteOff, WriteOn, Advance, Write
  <2>2. QED
    BY <2>1
<1>10. CASE Go
  BY <1>10, Positions DEF Go, Advance
<1>11. CASE IrqArrives
  <2>1. /\ UNCHANGED <<mpc, inp, ob, phantom, I8042InitialCtr, firmware, gaveUp>>
        /\ ipc' = "disWait" /\ pend /\ early' = (early \/ mpc < 6)
    BY <1>11 DEF IrqArrives, IrqStep
  <2>2. CASE mpc \in 1..5
    <3>0. mpc < 6
      BY <2>2
    <3>3. early'
      BY <2>1, <3>0, Zenon
    <3>1. early' /\ (early \/ "int" \in firmware)
      BY <2>1, <2>2, <3>3
    <3>2. firmware # {"dis"}
      BY <3>1
    <3>4. QED
      BY <2>1, <2>2, <3>1, <3>2
  <2>3. CASE mpc \in 6..15
    <3>1. ~(mpc < 6)
      BY <2>3
    <3>2. early' = early
      BY <1>0, <2>1, <3>1, Zenon
    <3>3. QED
      BY <2>1, <2>3, <3>2
  <2>4. QED
    BY <2>2, <2>3
<1>12. CASE ReadScanCode
  <2>1. ipc = "read" /\ ipc' = "status" /\ ob' = [ob EXCEPT !.full = FALSE]
        /\ phantom' = (phantom \/ ob.key = 0)
        /\ UNCHANGED <<mpc, inp, I8042InitialCtr, past>>
    BY <1>12 DEF ReadScanCode, ReadData, IrqStep
  <2>2. ~ob'.full
    BY <2>1 DEF TypeOK
  <2>3. mpc \in 1..5 => early
    BY <2>1
  <2>4. ~early /\ ~gaveUp => ob.key # 0 /\ ~phantom'
    <3> SUFFICES ASSUME ~early, ~gaveUp PROVE ob.key # 0 /\ ~phantom'
      OBVIOUS
    <3>1. mpc \in 6..15 /\ ob.full /\ ~phantom
      BY <2>1, <2>3
    <3>2. ob.key # 0
      BY <3>1
    <3>3. QED
      BY <2>1, <3>1, <3>2
  <2>5. QED
    BY <2>1, <2>2, <2>3, <2>4
<1>13. CASE IrqWaitWrite \/ IrqWaitFails \/ Disable \/ ReadStatus \/ Enable
  <2>1. /\ ipc # "irqWait" /\ (ipc' = "read" => ob.full)
        /\ inp'.what # "RCTR" \/ inp' = inp
        /\ UNCHANGED <<mpc, ob, phantom, I8042InitialCtr, firmware, early>>
        /\ gaveUp => gaveUp'
    BY <1>13 DEF IrqWaitWrite, IrqWaitFails, Disable, ReadStatus, Enable, Send, Write,
                 WaitWrite, IrqStep
  <2>2. mpc \in 1..5 => early
    BY <2>1
  <2>3. QED
    BY <2>1, <2>2
<1>14. CASE Press \/ UNCHANGED vars
  BY <1>14 DEF Press, vars
<1>15. QED
  BY <1>1, <1>2, <1>3, <1>4, <1>5, <1>6, <1>7, <1>8, <1>9, <1>10, <1>11, <1>12, <1>13, <1>14
     DEF Next, Controller, Main, IrqThread

LEMMA ReplyInvariant == Spec => [](TypeOK /\ ReplyInv)
<1>1. Init => TypeOK /\ ReplyInv
  BY TypeInit, ReplyInit
<1>2. TypeOK /\ ReplyInv /\ [Next]_vars => (TypeOK /\ ReplyInv)'
  BY TypeStep, ReplyStep
<1>3. QED
  BY <1>1, <1>2, PTL DEF Spec

\* What ReadCtr saves is the firmware's setting, unless a wait failed, or a scan code or
\* the IRQ thread came before the reply to RCTR was read.
THEOREM SavesFirmware == Spec => []SavedIsFirmware
<1>1. TypeOK /\ ReplyInv => SavedIsFirmware
  BY DEF TypeOK, ReplyInv, Afterwards, SavedIsFirmware, Saved, Done
<1>2. QED
  BY <1>1, ReplyInvariant, PTL

\* HandleIRQ takes only scan codes for scan codes, with the same two exceptions.
THEOREM TakesOnlyScanCodes == Spec => []NoPhantom
<1>1. ReplyInv => NoPhantom
  BY DEF ReplyInv, Afterwards, NoPhantom
<1>2. QED
  BY <1>1, ReplyInvariant, PTL

-----------------------------------------------------------------------------
(* Interrupts off: until the last parameter of InitDriver is taken, the    *)
(* IRQ thread sleeps.                                                      *)

Asleep ==
  /\ ipc = "irqWait" /\ ~pend /\ "int" \notin ctr
  /\ "int" \in inp.byte => mpc \in 14..15 /\ inp.what = "data"

Awake == mpc \in 14..15 /\ inp.what # "data"

OffInv ==
  "int" \notin firmware =>
    /\ ~clash /\ (Asleep \/ Awake)
    /\ mpc \in 1..9 => "int" \notin I8042Ctr

LEMMA OffInit == Init => OffInv
<1> SUFFICES ASSUME Init, "int" \notin firmware PROVE OffInv
  BY DEF OffInv
<1>1. ~clash /\ ipc = "irqWait" /\ ~pend /\ ctr = firmware /\ inp = NoInput /\ I8042Ctr = {}
  BY DEF Init
<1>2. QED
  BY <1>1 DEF OffInv, Asleep, NoInput

LEMMA OffStep == TypeOK /\ OffInv /\ [Next]_vars => OffInv'
<1> SUFFICES ASSUME TypeOK, OffInv, [Next]_vars PROVE OffInv'
  OBVIOUS
<1>0. mpc \in 1..15 /\ mpc \in Nat
  BY DEF TypeOK, Done
<1> USE <1>0 DEF OffInv, Asleep, Awake, NoInput, Last, hw, main, irq, past
<1> DEFINE offVars == <<firmware, clash, ipc, pend, ctr, inp, mpc, I8042Ctr>>
<1>1. CASE UNCHANGED offVars
  BY <1>1
<1>2. CASE Transfer
  BY <1>2 DEF Transfer
<1>3. CASE TakeCommand
  <2>1. inp' = NoInput /\ inp.what # "data" /\ UNCHANGED <<firmware, clash, ipc, mpc, I8042Ctr>>
    BY <1>3 DEF TakeCommand
  <2>2. ipc = "irqWait" /\ ~pend /\ "int" \notin ctr => ~pend' /\ "int" \notin ctr'
    BY <1>3 DEF TakeCommand, SetCtr, TypeOK
  <2>3. QED
    BY <2>1, <2>2
<1>4. CASE TakeData
  <2>1. inp' = NoInput /\ UNCHANGED <<firmware, clash, ipc, mpc, I8042Ctr>>
    BY <1>4 DEF TakeData
  <2>2. "int" \notin inp.byte /\ ~pend /\ "int" \notin ctr => ~pend' /\ "int" \notin ctr'
    BY <1>4 DEF TakeData, SetCtr
  <2>3. QED
    BY <2>1, <2>2
<1>5. CASE Main
  <2>1. CASE mpc \in 14..15
    <3>1. Go
      BY <1>5, <2>1, MainAfterOn
    <3>2. QED
      BY <2>1, <3>1, Positions DEF Go, Advance
  <2>2. CASE Flush \/ MainWait
    BY <2>2, Positions DEF Flush, MainWait, Advance, WaitRead, WaitWrite
  <2>3. CASE MainWaitFails
    <3>1. mpc' = 14 /\ UNCHANGED <<firmware, clash, ipc, pend, ctr, inp>> /\ mpc \in 1..13
      BY <2>3, Positions DEF MainWaitFails
    <3>2. QED
      BY <3>1
  <2>4. CASE MainCommand
    BY <2>4, Positions DEF MainCommand, Advance, Write
  <2>5. CASE ReadCtr
    <3>1. mpc = 5 /\ mpc' = 6 /\ UNCHANGED <<firmware, clash, ipc, pend, ctr, inp>>
      BY <2>5, Positions DEF ReadCtr, Advance
    <3>2. "int" \notin I8042Ctr'
      BY <2>5 DEF ReadCtr
    <3>3. QED
      BY <3>1, <3>2
  <2>6. CASE WriteOff
    BY <2>6, Positions DEF WriteOff, Advance, Write
  <2>7. CASE WriteOn
    BY <2>7, Positions DEF WriteOn, Advance, Write
  <2>8. CASE Go
    BY <2>1, <2>8, Positions DEF Go
  <2>9. QED
    BY <1>5, <2>1, <2>2, <2>3, <2>4, <2>5, <2>6, <2>7, <2>8 DEF Main
<1>6. CASE IrqThread
  <2> SUFFICES ASSUME "int" \notin firmware PROVE OffInv'
    BY <1>6, IrqFrame
  <2>1. ~Asleep
    BY <1>6 DEF IrqThread, IrqArrives, IrqWaitWrite, IrqWaitFails, Disable, ReadStatus,
                ReadScanCode, Enable, IrqStep
  <2>2. Awake /\ ~clash
    BY <2>1
  <2>3. UNCHANGED <<mpc, I8042Ctr, firmware>>
    BY <1>6, IrqFrame
  <2>4. inp'.what # "data" /\ clash' = clash
    <3>1. CASE Disable \/ Enable
      <4>1. inp'.what # "data"
        BY <3>1 DEF Disable, Enable, Send, Write
      <4>2. clash' = (clash \/ (mpc \in 12..13 \/ (mpc >= Last /\ inp.what = "data")))
        BY <3>1 DEF Disable, Enable, Send
      <4>5. ~clash /\ ~(mpc \in 12..13 \/ (mpc >= Last /\ inp.what = "data"))
        BY <2>2
      <4>4. ~clash'
        BY <4>2, <4>5, Zenon
      <4>6. clash' \in BOOLEAN
        BY <4>2, Zenon
      <4>3. QED
        BY <2>2, <4>1, <4>4, <4>6 DEF TypeOK
    <3>2. CASE ~(Disable \/ Enable)
      BY <1>6, <2>2, <3>2 DEF IrqThread, IrqArrives, IrqWaitWrite, IrqWaitFails, ReadStatus,
                              ReadScanCode, WaitWrite
    <3>3. QED
      BY <3>1, <3>2
  <2>5. QED
    BY <2>2, <2>3, <2>4
<1>7. ASSUME Press \/ UNCHANGED vars PROVE UNCHANGED offVars
  BY <1>7 DEF Press, vars
<1>8. QED
  BY <1>1, <1>2, <1>3, <1>4, <1>5, <1>6, <1>7 DEF Next, Controller

\* The threads compete for the last parameter only if the firmware left the interrupt on,
\* and for the reply to RCTR only if it did not leave both keyboard and interrupt off.
THEOREM FirmwareExposes == Spec => []HarmNeedsFirmware
<1>1. Init => OffInv
  BY OffInit
<1>2. TypeOK /\ OffInv /\ [Next]_vars => OffInv'
  BY OffStep
<1>3. OffInv /\ ReplyInv => HarmNeedsFirmware
  BY DEF OffInv, ReplyInv, HarmNeedsFirmware
<1>4. QED
  BY <1>1, <1>2, <1>3, TypeCorrect, ReplyInvariant, PTL DEF Spec
=============================================================================
