-------------------------- MODULE KeyEventsProofs --------------------------
(***************************************************************************)
(* Proofs about KeyEvents for any set of listeners, any number of presses  *)
(* and tasks and any naming of the barriers.                               *)
(***************************************************************************)
EXTENDS KeyEvents, FiniteSetTheorems, TLAPS

-----------------------------------------------------------------------------
(* What the commands of the driver to the controller leave alone.          *)

LEMMA InitFrame ==
  InitDriver =>
    /\ drv \in InitPC /\ drv' \in InitPC \cup {"go"}
    /\ obf' = obf \/ obf' = FALSE
    /\ UNCHANGED <<ready, pressed, fetched, irqVars, cliVars, call>>
BY DEF InitDriver, DrvRead, DrvWctr, DrvParam, DrvParamLost, DrvParamStep, DrvGiveUp,
       DrvStep, InitPC, irqVars, cliVars, ctrVars

IrqSends == IrqCommand \/ IrqCommandLost \/ IrqGiveUp

LEMMA SendFrame ==
  IrqSends =>
    /\ \/ irq = "disable" /\ irq' = "drain"
       \/ irq = "enable" /\ irq' = "wait"
    /\ UNCHANGED <<drvVars, irqPending, obf, pressed, fetched, cur, snap, cliVars, call>>
<1> USE DEF IrqCommandStep, hwVars
<1>1. CASE IrqCommand
  BY <1>1 DEF IrqCommand
<1>2. CASE IrqCommandLost
  BY <1>2 DEF IrqCommandLost
<1>3. CASE IrqGiveUp
  BY <1>3 DEF IrqGiveUp
<1>4. QED
  BY <1>1, <1>2, <1>3 DEF IrqSends

-----------------------------------------------------------------------------
(* Type correctness.                                                       *)

LEMMA TypeInit == Init => Types
<1> SUFFICES ASSUME Init PROVE Types
  OBVIOUS
<1> USE KeysAssumption DEF Init, DrvPC, InitPC, IrqPC, CliPC, CallPC, Keys, Barriers
<1>1. call \in [Clients -> [Keys -> CallPC]]
  OBVIOUS
<1>2. opened \subseteq Barriers /\ cpc \in [Clients -> CliPC]
  OBVIOUS
<1>3. saved \in [Clients -> 0..MaxKeys] /\ last \in [Clients -> 0..MaxKeys]
  OBVIOUS
<1>4. /\ drv \in DrvPC /\ irq \in IrqPC /\ irq # "notify"
      /\ ctr \subseteq {"int", "dis"} /\ expect \in BOOLEAN /\ failed \in BOOLEAN
      /\ ready \in BOOLEAN /\ irqPending \in BOOLEAN /\ obf \in BOOLEAN
      /\ cables \subseteq Clients /\ snap \subseteq Clients
  BY FirmwareAssumption
<1>5. pressed \in 0..MaxKeys /\ fetched \in 0..MaxKeys /\ cur \in 0..MaxKeys
  OBVIOUS
<1>6. QED
  BY <1>1, <1>2, <1>3, <1>4, <1>5 DEF Types

\* The order in which presses pass the controller and the callbacks: the buffer
\* holds a press newer than the one HandleIRQ read last, no listener is called
\* for a newer one than that, and those still to be notified were not called
\* for it.  Types is inductive together with FetchOrder.
FetchOrder ==
  /\ obf => cur < fetched
  /\ cur <= fetched /\ fetched <= pressed
CallOrder ==
  /\ \A c \in Clients, k \in Keys : call[c][k] # "none" => k <= cur
  /\ irq = "notify" => \A c \in snap : call[c][cur] = "none"

LEMMA TypeStep == Types /\ FetchOrder /\ [Next]_vars => Types'
<1> SUFFICES ASSUME Types, FetchOrder, [Next]_vars PROVE Types'
  OBVIOUS
<1> USE KeysAssumption DEF Types, FetchOrder, DrvPC, InitPC, IrqPC, CliPC, CallPC,
                           Keys, drvVars, ctrVars, hwVars, irqVars, cliVars
<1>1. CASE Press
  BY <1>1 DEF Press
<1>2. CASE Transfer
  BY <1>2 DEF Transfer
<1>3. CASE DrvSetup
  BY <1>3 DEF DrvSetup, DrvStep
<1>4. CASE DrvHandler
  BY <1>4 DEF DrvHandler, DrvStep
<1>5. CASE DrvCheck
  BY <1>5 DEF DrvCheck, DrvStep
<1>6. CASE InitDriver
  <2>1. ctr' \subseteq {"int", "dis"} /\ expect' \in BOOLEAN /\ failed' \in BOOLEAN
    BY <1>6 DEF InitDriver, DrvRead, DrvWctr, DrvParam, DrvParamLost, DrvGiveUp
  <2>2. irqPending' \in BOOLEAN
    BY <1>6 DEF InitDriver, DrvRead, DrvWctr, DrvParam, DrvParamLost, DrvGiveUp
  <2>3. QED
    BY <1>6, <2>1, <2>2, InitFrame
<1>7. CASE DrvGo
  <2>1. cpc' \in [Clients -> CliPC]
    BY <1>7 DEF DrvGo
  <2>2. QED
    BY <1>7, <2>1 DEF DrvGo, DrvStep
<1>8. CASE DrvFail
  BY <1>8 DEF DrvFail
<1>9. CASE IrqRegister
  BY <1>9 DEF IrqRegister
<1>10. CASE IrqBegin
  BY <1>10 DEF IrqBegin
<1>29. CASE IrqSends
  <2>1. ctr' \subseteq {"int", "dis"} /\ expect' \in BOOLEAN /\ failed' \in BOOLEAN
    BY <1>29 DEF IrqSends, IrqCommand, IrqCommandLost, IrqGiveUp
  <2>2. QED
    BY <1>29, <2>1, SendFrame
<1>11. CASE IrqRead
  <2>1. fetched \in Keys
    BY <1>11 DEF IrqRead
  <2>2. QED
    BY <1>11, <2>1 DEF IrqRead
<1>12. CASE NotifyDone
  BY <1>12 DEF NotifyDone
<1>13. CASE IrqEnd
  BY <1>13 DEF IrqEnd
<1>14. ASSUME NEW c \in Clients, Notify(c) PROVE Types'
  BY <1>14 DEF Notify
<1>15. ASSUME NEW c \in Clients, NotifyThrows(c) PROVE Types'
  BY <1>15 DEF NotifyThrows
<1>16. ASSUME NEW c \in Clients, ArriveDriver(c) PROVE Types'
  BY <1>16 DEF ArriveDriver, CliStep
<1>17. ASSUME NEW c \in Clients, PlugIn(c) PROVE Types'
  BY <1>17 DEF PlugIn, CliStep
<1>18. ASSUME NEW c \in Clients, MakeSync(c) PROVE Types'
  BY <1>18 DEF MakeSync, CliStep
<1>19. ASSUME NEW c \in Clients, ReadKey(c) PROVE Types'
  BY <1>19 DEF ReadKey, CliStep
<1>20. ASSUME NEW c \in Clients, ArriveKey(c) PROVE Types'
  BY <1>20 DEF ArriveKey, CliStep
<1>21. ASSUME NEW c \in Clients, Exit(c) PROVE Types'
  BY <1>21 DEF Exit, CliStep
<1>22. ASSUME NEW c \in Clients, NEW k \in Keys, StartCall(c, k) PROVE Types'
  BY <1>22 DEF StartCall, CallStep
<1>23. ASSUME NEW c \in Clients, NEW k \in Keys, SaveKey(c, k) PROVE Types'
  BY <1>23 DEF SaveKey, CallStep
<1>24. ASSUME NEW c \in Clients, NEW k \in Keys, CallGo(c, k) PROVE Types'
  BY <1>24 DEF CallGo, CallStep, Barriers
<1>25. ASSUME NEW c \in Clients, NEW k \in Keys, CallGoNull(c, k) PROVE Types'
  <2>1. cpc' \in [Clients -> CliPC] /\ cables' \subseteq Clients
    BY <1>25 DEF CallGoNull
  <2>2. call' \in [Clients -> [Keys -> CallPC]]
    BY <1>25 DEF CallGoNull, CallStep
  <2>3. QED
    BY <1>25, <2>1, <2>2 DEF CallGoNull
<1>26. ASSUME NEW c \in Clients, NEW k \in Keys, CallClose(c, k) PROVE Types'
  BY <1>26 DEF CallClose, CallStep
<1>27. CASE UNCHANGED vars
  BY <1>27 DEF vars
<1>28. QED
  BY <1>1, <1>2, <1>3, <1>4, <1>5, <1>6, <1>7, <1>8, <1>9, <1>10, <1>11, <1>12,
     <1>13, <1>14, <1>15, <1>16, <1>17, <1>18, <1>19, <1>20, <1>21, <1>22, <1>23,
     <1>24, <1>25, <1>26, <1>27, <1>29
     DEF Next, Driver, IrqStep, HandleIRQ, IrqSends, Listener, Task

-----------------------------------------------------------------------------
(* The order of presses and calls.                                         *)

LEMMA OrderInit == Init => FetchOrder /\ CallOrder
BY KeysAssumption DEF Init, FetchOrder, CallOrder, Keys

LEMMA OrderStep ==
  Types /\ FetchOrder /\ CallOrder /\ [Next]_vars => FetchOrder' /\ CallOrder'
<1> SUFFICES ASSUME Types, FetchOrder, CallOrder, [Next]_vars
             PROVE  FetchOrder' /\ CallOrder'
  OBVIOUS
<1> USE KeysAssumption DEF Types, FetchOrder, CallOrder, CallPC, Keys,
                           drvVars, ctrVars, hwVars, irqVars, cliVars
<1> DEFINE orderVars == <<obf, fetched, pressed, cur, snap, irq, call>>
<1>1. CASE UNCHANGED orderVars
  BY <1>1
<1>2. CASE Press
  BY <1>2 DEF Press
<1>3. CASE Transfer
  BY <1>3 DEF Transfer
<1>4. CASE DrvHandler
  BY <1>4 DEF DrvHandler
<1>5. CASE DrvCheck \/ InitDriver
  BY <1>5, InitFrame DEF DrvCheck
<1>6. CASE DrvFail
  BY <1>6 DEF DrvFail
<1>7. CASE IrqRegister \/ IrqBegin \/ IrqSends \/ NotifyDone \/ IrqEnd
  BY <1>7, SendFrame DEF IrqRegister, IrqBegin, NotifyDone, IrqEnd
<1>8. CASE IrqRead
  <2>1. cur < cur' /\ UNCHANGED <<call, fetched, pressed>> /\ obf' = FALSE /\ cur' = fetched
    BY <1>8 DEF IrqRead
  <2>2. \A c \in Clients, k \in Keys : call[c][k] # "none" => k < cur'
    BY <2>1
  <2>3. snap' \subseteq Clients /\ cur' \in Keys
    BY <1>8 DEF IrqRead
  <2>4. QED
    BY <2>1, <2>2, <2>3
<1>9. ASSUME NEW c \in Clients, Notify(c) PROVE FetchOrder' /\ CallOrder'
  <2>1. cur \in Keys /\ snap' = snap \ {c} /\ UNCHANGED <<obf, fetched, pressed, cur, irq>>
    BY <1>9 DEF Notify
  <2>2. call' = [call EXCEPT ![c][cur] = "queued"]
    BY <1>9 DEF Notify
  <2>3. \A d \in Clients, k \in Keys : call'[d][k] # call[d][k] => d = c /\ k = cur
    BY <2>1, <2>2
  <2>4. FetchOrder'
    BY <2>1
  <2>5. \A d \in Clients, k \in Keys : call'[d][k] # "none" => k <= cur'
    <3>1. ASSUME NEW d \in Clients, NEW k \in Keys, call'[d][k] # "none" PROVE k <= cur
      <4>1. CASE k = cur
        BY <4>1
      <4>2. CASE k # cur
        <5>1. call[d][k] # "none"
          BY <2>3, <3>1, <4>2
        <5>2. QED
          BY <5>1
      <4>3. QED
        BY <4>1, <4>2
    <3>2. QED
      BY <2>1, <3>1
  <2>6. \A d \in snap' : call'[d][cur'] = "none"
    BY <2>1, <2>3, <1>9 DEF Notify
  <2>7. QED
    BY <2>4, <2>5, <2>6
<1>10. ASSUME NEW c \in Clients, NotifyThrows(c) PROVE FetchOrder' /\ CallOrder'
  BY <1>10 DEF NotifyThrows
<1>11. ASSUME NEW c \in Clients, NEW k \in Keys, Task(c, k) PROVE FetchOrder' /\ CallOrder'
  <2>1. UNCHANGED <<obf, fetched, pressed, cur, snap, irq>> /\ call[c][k] # "none"
    BY <1>11 DEF Task, StartCall, SaveKey, CallGo, CallGoNull, CallClose, CallStep
  <2>2. \E s \in CallPC : call' = [call EXCEPT ![c][k] = s]
    BY <1>11 DEF Task, StartCall, SaveKey, CallGo, CallGoNull, CallClose, CallStep
  <2>3. \A d \in Clients, j \in Keys : call[d][j] = "none" => call'[d][j] = "none"
    BY <2>1, <2>2
  <2>4. FetchOrder'
    BY <2>1
  <2>5. \A d \in Clients, j \in Keys : call'[d][j] # "none" => j <= cur'
    BY <2>1, <2>3
  <2>6. irq' = "notify" => \A d \in snap' : call'[d][cur'] = "none"
    BY <2>1, <2>3
  <2>7. QED
    BY <2>4, <2>5, <2>6
<1>12. ASSUME DrvSetup \/ DrvGo PROVE UNCHANGED orderVars
  BY <1>12 DEF DrvSetup, DrvGo
<1>13. ASSUME NEW c \in Clients, Listener(c) \/ ArriveKey(c) \/ Exit(c)
       PROVE  UNCHANGED orderVars
  BY <1>13 DEF Listener, ArriveDriver, PlugIn, MakeSync, ReadKey, ArriveKey, Exit
<1>14. ASSUME UNCHANGED vars PROVE UNCHANGED orderVars
  BY <1>14 DEF vars
<1>15. QED
  BY <1>1, <1>2, <1>3, <1>4, <1>5, <1>6, <1>7, <1>8, <1>9, <1>10, <1>11, <1>12,
     <1>13, <1>14 DEF Next, Driver, IrqStep, HandleIRQ, IrqSends

\* The types are an invariant, and so is the order of presses and calls.
THEOREM TypeCorrect == Spec => [](TypeOK /\ FetchOrder /\ CallOrder)
<1>1. Init => Types /\ FetchOrder /\ CallOrder
  BY TypeInit, OrderInit
<1>2. Types /\ FetchOrder /\ CallOrder /\ [Next]_vars => (Types /\ FetchOrder /\ CallOrder)'
  BY TypeStep, OrderStep
<1>3. Types /\ CallOrder => TypeOK
  BY DEF CallOrder, TypeOK
<1>4. QED
  BY <1>1, <1>2, <1>3, PTL DEF Spec

-----------------------------------------------------------------------------
(* What a listener reads.                                                  *)

After == {"go", "close", "done"}

\* savedValue is a press whose callback has stored it; the first read that
\* returns a press comes after the first store.
Stored ==
  /\ \A c \in Clients : saved[c] # 0 => call[c][saved[c]] \in After
  /\ \A c \in Clients : saved[c] = 0 => last[c] = 0

LEMMA StoredInit == Init => Stored
BY DEF Init, Stored

LEMMA StoredStep ==
  Types /\ FetchOrder /\ CallOrder /\ Stored /\ [Next]_vars => Stored'
<1> SUFFICES ASSUME Types, FetchOrder, CallOrder, Stored, [Next]_vars
             PROVE  Stored'
  OBVIOUS
<1> USE KeysAssumption DEF Types, Stored, After, CallPC, Keys,
                           drvVars, ctrVars, hwVars, irqVars, cliVars
<1> DEFINE storedVars == <<call, saved, last>>
<1>1. CASE UNCHANGED storedVars
  BY <1>1
<1>2. ASSUME NEW c \in Clients, Notify(c) PROVE Stored'
  <2>1. call' = [call EXCEPT ![c][cur] = "queued"] /\ UNCHANGED <<saved, last>>
    BY <1>2 DEF Notify
  <2>2. call[c][cur] = "none" /\ cur \in Keys
    BY <1>2 DEF Notify, CallOrder
  <2>3. \A d \in Clients, k \in Keys : call[d][k] \in After => call'[d][k] = call[d][k]
    BY <2>1, <2>2
  <2>4. QED
    BY <2>1, <2>3
<1>3. ASSUME NEW c \in Clients, ReadKey(c) PROVE Stored'
  BY <1>3 DEF ReadKey
<1>4. ASSUME NEW c \in Clients, NEW k \in Keys, SaveKey(c, k) PROVE Stored'
  BY <1>4 DEF SaveKey, CallStep
<1>5. ASSUME NEW c \in Clients, NEW k \in Keys,
             StartCall(c, k) \/ CallGo(c, k) \/ CallGoNull(c, k) \/ CallClose(c, k)
      PROVE  Stored'
  <2>1. UNCHANGED <<saved, last>>
    BY <1>5 DEF StartCall, CallGo, CallGoNull, CallClose
  <2>2. \E s \in After \cup {"save"} :
           /\ call' = [call EXCEPT ![c][k] = s]
           /\ call[c][k] \in After => s \in After
    BY <1>5 DEF StartCall, CallGo, CallGoNull, CallClose, CallStep
  <2>3. \A d \in Clients, j \in Keys : call[d][j] \in After => call'[d][j] \in After
    BY <2>2
  <2>4. QED
    BY <2>1, <2>3
<1>6. ASSUME Press \/ Transfer \/ Driver \/ DrvFail PROVE UNCHANGED storedVars
  BY <1>6, InitFrame DEF Press, Transfer, Driver, DrvSetup, DrvHandler, DrvCheck, DrvGo, DrvFail
<1>7. ASSUME IrqRegister \/ IrqBegin \/ IrqSends \/ IrqRead \/ NotifyDone \/ IrqEnd PROVE UNCHANGED storedVars
  BY <1>7, SendFrame DEF IrqRegister, IrqBegin, IrqRead, NotifyDone, IrqEnd
<1>8. ASSUME NEW c \in Clients,
             \/ NotifyThrows(c) \/ ArriveDriver(c) \/ PlugIn(c) \/ MakeSync(c)
             \/ ArriveKey(c) \/ Exit(c)
      PROVE  UNCHANGED storedVars
  BY <1>8 DEF NotifyThrows, ArriveDriver, PlugIn, MakeSync, ArriveKey, Exit
<1>9. ASSUME UNCHANGED vars PROVE UNCHANGED storedVars
  BY <1>9 DEF vars
<1>10. QED
  BY <1>1, <1>2, <1>3, <1>4, <1>5, <1>6, <1>7, <1>8, <1>9 DEF Next, IrqStep, HandleIRQ, IrqSends, Listener, Task

\* The invariant that the theorems below share.
Base == Types /\ FetchOrder /\ CallOrder /\ Stored

THEOREM BaseInvariant == Spec => []Base
<1>1. Init => Base
  BY TypeInit, OrderInit, StoredInit DEF Base
<1>2. Base /\ [Next]_vars => Base'
  BY TypeStep, OrderStep, StoredStep DEF Base
<1>3. QED
  BY <1>1, <1>2, PTL DEF Spec

-----------------------------------------------------------------------------
(* The refinement of KeyFeed.                                              *)

LEMMA FeedInit == Init => Feed!Init
BY DEF Init, Feed!Init, Told

\* Every step of the service is a step of the feed or leaves the feed alone.
LEMMA FeedStep == Base /\ [Next]_vars => [Feed!Next]_(Feed!vars)
<1> SUFFICES ASSUME Base, [Next]_vars PROVE [Feed!Next]_(Feed!vars)
  OBVIOUS
<1> USE KeysAssumption DEF Base, Types, CallPC, Keys, drvVars, ctrVars, hwVars, irqVars, cliVars
<1> DEFINE feed == [c \in Clients |-> Told(c)]
           stutter == UNCHANGED <<pressed, feed, last>>
<1>1. ASSUME stutter PROVE UNCHANGED Feed!vars
  BY <1>1 DEF Feed!vars
<1>2. ASSUME UNCHANGED call PROVE UNCHANGED feed
  BY <1>2 DEF Told
<1>3. ASSUME Press PROVE Feed!Press
  BY <1>3, <1>2 DEF Press, Feed!Press
<1>4. ASSUME NEW c \in Clients, Notify(c) PROVE Feed!Tell(c)
  <2>1. call' = [call EXCEPT ![c][cur] = "queued"] /\ UNCHANGED <<pressed, last>>
    BY <1>4 DEF Notify
  <2>2. cur \in Keys /\ call[c][cur] = "none" /\ cur \in 1..pressed
    BY <1>4 DEF Notify, CallOrder, FetchOrder
  <2>3. \A d \in Clients : Told(d)' = IF d = c THEN Told(d) \cup {cur} ELSE Told(d)
    BY <2>1, <2>2 DEF Told
  <2>4. feed' = [feed EXCEPT ![c] = @ \cup {cur}]
    BY <2>3
  <2>5. \A j \in feed[c] : j < cur
    BY <2>2 DEF Told, CallOrder
  <2>6. QED
    BY <2>1, <2>2, <2>4, <2>5 DEF Feed!Tell, Feed!Follows
<1>5. ASSUME NEW c \in Clients, ReadKey(c) PROVE Feed!Get(c) \/ stutter
  <2>1. UNCHANGED <<pressed, call>> /\ last' = [last EXCEPT ![c] = saved[c]]
    BY <1>5 DEF ReadKey
  <2>2. UNCHANGED feed
    BY <2>1, <1>2
  <2>3. CASE saved[c] = 0
    <3>1. last[c] = 0
      BY <2>3 DEF Stored
    <3>2. last' = last
      BY <2>1, <2>3, <3>1
    <3>3. QED
      BY <2>1, <2>2, <3>2
  <2>4. CASE saved[c] # 0
    <3>1. saved[c] \in feed[c]
      <4>1. saved[c] \in Keys /\ call[c][saved[c]] \in After
        BY <2>4 DEF Stored
      <4>2. saved[c] \in Told(c)
        BY <4>1 DEF After, Told
      <4>3. QED
        BY <4>2
    <3>2. QED
      BY <2>1, <2>2, <3>1 DEF Feed!Get
  <2>5. QED
    BY <2>3, <2>4
<1>6. ASSUME NEW c \in Clients, NEW k \in Keys, Task(c, k) PROVE stutter
  <2>1. UNCHANGED <<pressed, last>> /\ call[c][k] # "none"
    BY <1>6 DEF Task, StartCall, SaveKey, CallGo, CallGoNull, CallClose, CallStep
  <2>2. \E s \in CallPC \ {"none"} : call' = [call EXCEPT ![c][k] = s]
    BY <1>6 DEF Task, StartCall, SaveKey, CallGo, CallGoNull, CallClose, CallStep
  <2>3. \A d \in Clients, j \in Keys : call'[d][j] # "none" <=> call[d][j] # "none"
    BY <2>1, <2>2
  <2>4. \A d \in Clients : Told(d)' = Told(d)
    BY <2>3 DEF Told
  <2>5. QED
    BY <2>1, <2>4
<1>7. ASSUME Transfer \/ Driver \/ DrvFail PROVE UNCHANGED <<pressed, call, last>>
  BY <1>7, InitFrame DEF Transfer, Driver, DrvSetup, DrvHandler, DrvCheck, DrvGo, DrvFail
<1>8. ASSUME IrqRegister \/ IrqBegin \/ IrqSends \/ IrqRead \/ NotifyDone \/ IrqEnd
      PROVE  UNCHANGED <<pressed, call, last>>
  BY <1>8, SendFrame DEF IrqRegister, IrqBegin, IrqRead, NotifyDone, IrqEnd
<1>9. ASSUME NEW c \in Clients,
             \/ NotifyThrows(c) \/ ArriveDriver(c) \/ PlugIn(c) \/ MakeSync(c)
             \/ ArriveKey(c) \/ Exit(c)
      PROVE  UNCHANGED <<pressed, call, last>>
  BY <1>9 DEF NotifyThrows, ArriveDriver, PlugIn, MakeSync, ArriveKey, Exit
<1>10. ASSUME UNCHANGED vars PROVE UNCHANGED <<pressed, call, last>>
  BY <1>10 DEF vars
<1>11. ASSUME UNCHANGED <<pressed, call, last>> PROVE stutter
  BY <1>11, <1>2
<1>12. QED
  BY <1>1, <1>3, <1>4, <1>5, <1>6, <1>7, <1>8, <1>9, <1>10, <1>11
     DEF Next, IrqStep, HandleIRQ, IrqSends, Listener, Task, Feed!Next

\* The keyboard service implements KeyFeed: listeners are called for presses in
\* order, once each, and GetRawInputKey returns only presses they were called for.
THEOREM ServiceImplementsFeed == Spec => ImplementsFeed
<1>1. Init => Feed!Init
  BY FeedInit
<1>2. Base /\ [Next]_vars => [Feed!Next]_(Feed!vars)
  BY FeedStep
<1>3. QED
  BY <1>1, <1>2, BaseInvariant, PTL DEF Spec, ImplementsFeed, Feed!Spec

-----------------------------------------------------------------------------
(* Start-up: who gets past KEYBOARD_BARRIER.                               *)

ReadyInv ==
  /\ ready <=> drv = "sleep"
  /\ \A c \in Clients : (cpc[c] = "plug" \/ c \in cables) => ready

LEMMA ReadyInit == Init => ReadyInv
BY DEF Init, ReadyInv

LEMMA ReadyStep == Types /\ ReadyInv /\ [Next]_vars => ReadyInv'
<1> SUFFICES ASSUME Types, ReadyInv, [Next]_vars PROVE ReadyInv'
  OBVIOUS
<1> USE DEF Types, ReadyInv, DrvPC, InitPC, CliPC, drvVars, ctrVars, hwVars, irqVars, cliVars
<1> DEFINE readyVars == <<ready, drv, cpc, cables>>
<1>1. CASE UNCHANGED readyVars
  BY <1>1
<1>2. CASE DrvSetup \/ DrvHandler \/ DrvCheck \/ InitDriver \/ DrvFail
  BY <1>2, InitFrame DEF DrvSetup, DrvHandler, DrvCheck, DrvFail, DrvStep
<1>3. CASE DrvGo
  BY <1>3 DEF DrvGo, DrvStep
<1>4. ASSUME NEW c \in Clients, ArriveDriver(c) \/ ArriveKey(c) PROVE ReadyInv'
  BY <1>4 DEF ArriveDriver, ArriveKey, CliStep
<1>5. ASSUME NEW c \in Clients, PlugIn(c) \/ MakeSync(c) \/ ReadKey(c) \/ Exit(c)
      PROVE  ReadyInv'
  BY <1>5 DEF PlugIn, MakeSync, ReadKey, Exit, CliStep
<1>6. ASSUME NEW c \in Clients, NEW k \in Keys, CallGo(c, k) \/ CallGoNull(c, k)
      PROVE  ReadyInv'
  BY <1>6 DEF CallGo, CallGoNull
<1>7. ASSUME NEW c \in Clients, NEW k \in Keys,
             StartCall(c, k) \/ SaveKey(c, k) \/ CallClose(c, k)
      PROVE  UNCHANGED readyVars
  BY <1>7 DEF StartCall, SaveKey, CallClose
<1>8. ASSUME Press \/ Transfer \/ IrqStep PROVE UNCHANGED readyVars
  BY <1>8, SendFrame DEF Press, Transfer, IrqStep, HandleIRQ, IrqSends, IrqRegister,
     IrqBegin, IrqRead, NotifyDone, IrqEnd, Notify, NotifyThrows
<1>9. ASSUME UNCHANGED vars PROVE UNCHANGED readyVars
  BY <1>9 DEF vars
<1>10. QED
  BY <1>1, <1>2, <1>3, <1>4, <1>5, <1>6, <1>7, <1>8, <1>9 DEF Next, Driver, Listener, Task

\* A listener plugs in only after the driver has run its whole initialisation.
THEOREM ListenersFindDriver == Spec => []PlugFindsDriver
<1>1. Init => Types /\ FetchOrder /\ CallOrder /\ ReadyInv
  BY TypeInit, OrderInit, ReadyInit
<1>2. Types /\ FetchOrder /\ CallOrder /\ ReadyInv /\ [Next]_vars
        => (Types /\ FetchOrder /\ CallOrder /\ ReadyInv)'
  BY TypeStep, OrderStep, ReadyStep
<1>3. ReadyInv => PlugFindsDriver
  BY DEF ReadyInv, PlugFindsDriver
<1>4. QED
  BY <1>1, <1>2, <1>3, PTL DEF Spec

-----------------------------------------------------------------------------
(* A listener is woken for a press.                                        *)

WokenInv ==
  /\ \A c \in Clients : (\E k \in Keys : call[c][k] \in After) => saved[c] # 0
  /\ Private => \A c \in Clients :
       (cpc[c] = "woken" \/ SyncName[c] \in opened) => saved[c] # 0

LEMMA WokenInit == Init => WokenInv
BY DEF Init, WokenInv, After

LEMMA WokenStep == Base /\ WokenInv /\ [Next]_vars => WokenInv'
<1> SUFFICES ASSUME Base, WokenInv, [Next]_vars PROVE WokenInv'
  OBVIOUS
<1> USE KeysAssumption DEF Base, Types, WokenInv, After, Keys, CallPC, CliPC,
                           drvVars, ctrVars, hwVars, irqVars, cliVars
<1> DEFINE wokenVars == <<call, saved, cpc, opened>>
<1>1. CASE UNCHANGED wokenVars
  BY <1>1 DEF Private
<1>2. CASE DrvGo
  BY <1>2 DEF DrvGo, Private
<1>3. ASSUME NEW c \in Clients, Notify(c) PROVE WokenInv'
  <2>1. call' = [call EXCEPT ![c][cur] = "queued"] /\ UNCHANGED <<saved, cpc, opened>>
    BY <1>3 DEF Notify
  <2>2. \A d \in Clients, k \in Keys : call'[d][k] \in After => call[d][k] \in After
    BY <2>1
  <2>3. QED
    BY <2>1, <2>2 DEF Private
<1>4. ASSUME NEW c \in Clients,
             \/ ArriveDriver(c) \/ PlugIn(c) \/ MakeSync(c) \/ ReadKey(c)
             \/ ArriveKey(c) \/ Exit(c)
      PROVE  WokenInv'
  <2>1. UNCHANGED <<call, saved, opened>>
    BY <1>4 DEF ArriveDriver, PlugIn, MakeSync, ReadKey, ArriveKey, Exit
  <2>2. \A d \in Clients : cpc'[d] = "woken" => cpc[d] = "woken" \/ SyncName[d] \in opened
    BY <1>4 DEF ArriveDriver, PlugIn, MakeSync, ReadKey, ArriveKey, Exit, CliStep
  <2>3. QED
    BY <2>1, <2>2 DEF Private
<1>5. ASSUME NEW c \in Clients, NEW k \in Keys, StartCall(c, k) PROVE WokenInv'
  <2>1. call' = [call EXCEPT ![c][k] = "save"] /\ UNCHANGED <<saved, cpc, opened>>
    BY <1>5 DEF StartCall, CallStep
  <2>2. \A d \in Clients, j \in Keys : call'[d][j] \in After => call[d][j] \in After
    BY <2>1
  <2>3. QED
    BY <2>1, <2>2 DEF Private
<1>6. ASSUME NEW c \in Clients, NEW k \in Keys, SaveKey(c, k) PROVE WokenInv'
  <2>1. /\ call' = [call EXCEPT ![c][k] = "go"] /\ saved' = [saved EXCEPT ![c] = k]
        /\ UNCHANGED <<cpc, opened>>
    BY <1>6 DEF SaveKey, CallStep
  <2>2. \A d \in Clients : saved'[d] = 0 => saved[d] = 0 /\ d # c
    BY <2>1
  <2>3. \A d \in Clients, j \in Keys : d # c => call'[d][j] = call[d][j]
    BY <2>1
  <2>4. QED
    BY <2>1, <2>2, <2>3 DEF Private
<1>7. ASSUME NEW c \in Clients, NEW k \in Keys,
             CallGo(c, k) \/ CallGoNull(c, k) \/ CallClose(c, k)
      PROVE  WokenInv'
  <2>1. /\ UNCHANGED saved /\ call[c][k] \in After
        /\ \E s \in After : call' = [call EXCEPT ![c][k] = s]
    BY <1>7 DEF CallGo, CallGoNull, CallClose, CallStep
  <2>2. saved[c] # 0
    BY <2>1
  <2>3. \A d \in Clients, j \in Keys :
          call'[d][j] \in After => call[d][j] \in After
    BY <2>1
  <2>4. \A d \in Clients : cpc'[d] = "woken" => cpc[d] = "woken" \/ d = c
    BY <1>7 DEF CallGo, CallGoNull, CallClose
  <2>5. opened' \subseteq opened \cup {SyncName[c]}
    BY <1>7 DEF CallGo, CallGoNull, CallClose
  <2>6. QED
    BY <2>1, <2>2, <2>3, <2>4, <2>5 DEF Private
<1>8. ASSUME \/ Press \/ Transfer \/ DrvSetup \/ DrvHandler \/ DrvCheck \/ InitDriver \/ DrvFail
      PROVE  UNCHANGED wokenVars
  BY <1>8, InitFrame DEF Press, Transfer, DrvSetup, DrvHandler, DrvCheck, DrvFail
<1>9. ASSUME IrqRegister \/ IrqBegin \/ IrqSends \/ IrqRead \/ NotifyDone \/ IrqEnd
      PROVE  UNCHANGED wokenVars
  BY <1>9, SendFrame DEF IrqRegister, IrqBegin, IrqRead, NotifyDone, IrqEnd
<1>10. ASSUME NEW c \in Clients, NotifyThrows(c) PROVE UNCHANGED wokenVars
  BY <1>10 DEF NotifyThrows
<1>11. ASSUME UNCHANGED vars PROVE UNCHANGED wokenVars
  BY <1>11 DEF vars
<1>12. QED
  BY <1>1, <1>2, <1>3, <1>4, <1>5, <1>6, <1>7, <1>8, <1>9, <1>10, <1>11
     DEF Next, Driver, IrqStep, HandleIRQ, IrqSends, Listener, Task

\* A listener whose barrier no other process opens is woken only for a press
\* whose callback has stored it.
THEOREM ReadsAreNotified == Spec => []ReadsNotifiedKey
<1>1. Init => Base /\ WokenInv
  BY TypeInit, OrderInit, StoredInit, WokenInit DEF Base
<1>2. Base /\ WokenInv /\ [Next]_vars => (Base /\ WokenInv)'
  BY TypeStep, OrderStep, StoredStep, WokenStep DEF Base
<1>3. Base /\ WokenInv => ReadsNotifiedKey
  BY KeysAssumption DEF Base, Types, Stored, WokenInv, After, ReadsNotifiedKey, Keys
<1>4. QED
  BY <1>1, <1>2, <1>3, PTL DEF Spec

-----------------------------------------------------------------------------
(* Reads in order, with one IPC task at a time.                            *)

Active  == {"save", "go", "close"}
Started == Active \cup {"done"}

InOrder ==
  /\ \A c \in Clients, j, k \in Keys :
       call[c][j] \in Started /\ call[c][k] = "queued" => j < k
  /\ \A c \in Clients, j, k \in Keys :
       call[c][j] \in Active /\ call[c][k] \in Active => j = k
  /\ \A c \in Clients, j, k \in Keys :
       call[c][j] \in Started /\ call[c][k] = "save" => j <= k
  /\ \A c \in Clients : last[c] <= saved[c]

LEMMA InOrderInit == Init => InOrder
BY DEF Init, InOrder, Active, Started

\* A process that runs at most one task starts a call only when it runs none.
LEMMA NoneRunning ==
  ASSUME MaxTasks = 1, NEW c \in Clients, NEW k \in Keys, StartCall(c, k)
  PROVE  Running(c) = {}
<1>1. IsFiniteSet(Keys)
  BY FS_Interval, KeysAssumption DEF Keys
<1>2. IsFiniteSet(Running(c))
  BY <1>1, FS_Subset DEF Running
<1>3. Cardinality(Running(c)) \in Nat /\ Cardinality(Running(c)) < 1
  BY <1>2, FS_CardinalityType DEF StartCall
<1>4. QED
  BY <1>2, <1>3, FS_EmptySet

LEMMA InOrderStep ==
  ASSUME MaxTasks = 1
  PROVE  Base /\ InOrder /\ [Next]_vars => InOrder'
<1> SUFFICES ASSUME Base, InOrder, [Next]_vars PROVE InOrder'
  OBVIOUS
<1> USE KeysAssumption DEF Base, Types, Active, Started, Keys, CallPC,
                           drvVars, ctrVars, hwVars, irqVars, cliVars
<1> DEFINE orderVars == <<call, saved, last>>
<1>1. CASE UNCHANGED orderVars
  BY <1>1 DEF InOrder
<1>2. ASSUME NEW c \in Clients, Notify(c) PROVE InOrder'
  <2>1. call' = [call EXCEPT ![c][cur] = "queued"] /\ UNCHANGED <<saved, last>>
    BY <1>2 DEF Notify
  <2>2. cur \in Keys /\ call[c][cur] = "none" /\ \A k \in Keys : call[c][k] # "none" => k <= cur
    BY <1>2 DEF Notify, CallOrder
  <2>3. \A d \in Clients, k \in Keys :
          IF d = c /\ k = cur THEN call'[d][k] = "queued" ELSE call'[d][k] = call[d][k]
    BY <2>1, <2>2
  <2>4. \A d \in Clients, j, k \in Keys :
          call'[d][j] \in Started /\ call'[d][k] = "queued" => j < k
    <3> SUFFICES ASSUME NEW d \in Clients, NEW j \in Keys, NEW k \in Keys,
                        call'[d][j] \in Started, call'[d][k] = "queued"
                 PROVE  j < k
      OBVIOUS
    <3>1. call[d][j] \in Started /\ call[d][j] = call'[d][j]
      BY <2>3
    <3>2. CASE d = c /\ k = cur
      <4>1. j <= cur /\ j # cur
        BY <2>2, <3>1, <3>2
      <4>2. QED
        BY <3>2, <4>1, <2>2
    <3>3. CASE ~(d = c /\ k = cur)
      <4>1. call[d][k] = "queued"
        BY <2>3, <3>3
      <4>2. QED
        BY <3>1, <4>1 DEF InOrder
    <3>4. QED
      BY <3>2, <3>3
  <2>5. \A d \in Clients, k \in Keys :
          /\ call'[d][k] \in Started => call'[d][k] = call[d][k]
          /\ call'[d][k] \in Active => call'[d][k] = call[d][k]
          /\ call'[d][k] = "save" => call'[d][k] = call[d][k]
    BY <2>3
  <2>6. /\ \A d \in Clients, j, k \in Keys :
             call'[d][j] \in Active /\ call'[d][k] \in Active => j = k
        /\ \A d \in Clients, j, k \in Keys :
             call'[d][j] \in Started /\ call'[d][k] = "save" => j <= k
    <3> SUFFICES ASSUME NEW d \in Clients, NEW j \in Keys, NEW k \in Keys
                 PROVE  /\ call'[d][j] \in Active /\ call'[d][k] \in Active => j = k
                        /\ call'[d][j] \in Started /\ call'[d][k] = "save" => j <= k
      OBVIOUS
    <3>1. QED
      BY <2>5 DEF InOrder
  <2>7. QED
    BY <2>1, <2>4, <2>6 DEF InOrder
<1>3. ASSUME NEW c \in Clients, ReadKey(c) PROVE InOrder'
  <2>1. UNCHANGED <<call, saved>> /\ last' = [last EXCEPT ![c] = saved[c]]
    BY <1>3 DEF ReadKey
  <2>2. QED
    BY <2>1 DEF InOrder
<1>4. ASSUME NEW c \in Clients, NEW k \in Keys, StartCall(c, k) PROVE InOrder'
  <2>1. /\ call[c][k] = "queued" /\ call' = [call EXCEPT ![c][k] = "save"]
        /\ UNCHANGED <<saved, last>>
    BY <1>4 DEF StartCall, CallStep
  <2>2. \A j \in Keys : call[c][j] \notin Active
    BY <1>4, NoneRunning DEF Running
  <2>3. \A j \in Keys : call[c][j] = "queued" => k <= j
    BY <1>4 DEF StartCall, Queued
  <2>4. \A d \in Clients, j \in Keys :
          IF d = c /\ j = k THEN call'[d][j] = "save" ELSE call'[d][j] = call[d][j]
    BY <2>1
  <2>5. \A d \in Clients, i, j \in Keys :
          call'[d][i] \in Started /\ call'[d][j] = "queued" => i < j
    <3> SUFFICES ASSUME NEW d \in Clients, NEW i \in Keys, NEW j \in Keys,
                        call'[d][i] \in Started, call'[d][j] = "queued"
                 PROVE  i < j
      OBVIOUS
    <3>1. call[d][j] = "queued" /\ ~(d = c /\ j = k)
      BY <2>4
    <3>2. CASE d = c /\ i = k
      BY <2>3, <3>1, <3>2
    <3>3. CASE ~(d = c /\ i = k)
      <4>1. call[d][i] \in Started
        BY <2>4, <3>3
      <4>2. QED
        BY <3>1, <4>1 DEF InOrder
    <3>4. QED
      BY <3>2, <3>3
  <2>6. \A d \in Clients, i, j \in Keys :
          call'[d][i] \in Active /\ call'[d][j] \in Active => i = j
    <3> SUFFICES ASSUME NEW d \in Clients, NEW i \in Keys, NEW j \in Keys,
                        call'[d][i] \in Active, call'[d][j] \in Active
                 PROVE  i = j
      OBVIOUS
    <3>1. CASE d = c
      BY <2>2, <2>4, <3>1
    <3>2. CASE d # c
      <4>1. call[d][i] \in Active /\ call[d][j] \in Active
        BY <2>4, <3>2
      <4>2. QED
        BY <4>1 DEF InOrder
    <3>3. QED
      BY <3>1, <3>2
  <2>7. \A d \in Clients, i, j \in Keys :
          call'[d][i] \in Started /\ call'[d][j] = "save" => i <= j
    <3> SUFFICES ASSUME NEW d \in Clients, NEW i \in Keys, NEW j \in Keys,
                        call'[d][i] \in Started, call'[d][j] = "save"
                 PROVE  i <= j
      OBVIOUS
    <3>1. CASE d = c
      <4>1. j = k
        BY <2>2, <2>4, <3>1
      <4>2. CASE i = k
        BY <4>1, <4>2
      <4>3. CASE i # k
        <5>1. call[c][i] \in Started
          BY <2>4, <3>1, <4>3
        <5>2. i < k
          BY <5>1, <2>1 DEF InOrder
        <5>3. QED
          BY <4>1, <5>2
      <4>4. QED
        BY <4>2, <4>3
    <3>2. CASE d # c
      <4>1. call[d][i] \in Started /\ call[d][j] = "save"
        BY <2>4, <3>2
      <4>2. QED
        BY <4>1 DEF InOrder
    <3>3. QED
      BY <3>1, <3>2
  <2>8. QED
    BY <2>1, <2>5, <2>6, <2>7 DEF InOrder
<1>5. ASSUME NEW c \in Clients, NEW k \in Keys,
             SaveKey(c, k) \/ CallGo(c, k) \/ CallGoNull(c, k) \/ CallClose(c, k)
      PROVE  InOrder'
  <2>1. /\ call[c][k] \in Active /\ UNCHANGED last
        /\ \E s \in {"go", "close", "done"} : call' = [call EXCEPT ![c][k] = s]
    BY <1>5 DEF SaveKey, CallGo, CallGoNull, CallClose, CallStep
  <2>2. \A d \in Clients, j \in Keys :
          IF d = c /\ j = k THEN call'[d][j] \in {"go", "close", "done"}
                            ELSE call'[d][j] = call[d][j]
    BY <2>1
  <2>3. \A d \in Clients, i \in Keys :
          /\ call'[d][i] \in Started => call[d][i] \in Started
          /\ call'[d][i] \in Active => call[d][i] \in Active
          /\ call'[d][i] \in {"queued", "save"} => call'[d][i] = call[d][i]
    BY <2>1, <2>2
  <2>4. saved' = saved \/ SaveKey(c, k)
    BY <1>5 DEF CallGo, CallGoNull, CallClose
  <2>5. \A d \in Clients : last[d] <= saved'[d]
    <3>1. CASE saved' = saved
      BY <3>1 DEF InOrder
    <3>2. CASE SaveKey(c, k)
      <4>1. call[c][k] = "save" /\ saved' = [saved EXCEPT ![c] = k]
        BY <3>2 DEF SaveKey, CallStep
      <4>2. saved[c] # 0 => saved[c] \in Keys /\ call[c][saved[c]] \in Started
        BY DEF Stored, After
      <4>3. saved[c] <= k
        <5>1. CASE saved[c] = 0
          BY <5>1
        <5>2. CASE saved[c] # 0
          BY <5>2, <4>1, <4>2 DEF InOrder
        <5>3. QED
          BY <5>1, <5>2
      <4>4. last[c] <= k
        BY <4>3 DEF InOrder
      <4>5. QED
        BY <4>1, <4>4 DEF InOrder
    <3>3. QED
      BY <2>4, <3>1, <3>2
  <2>6. QED
    BY <2>1, <2>3, <2>5 DEF InOrder
<1>6. ASSUME Press \/ Transfer \/ Driver \/ DrvFail PROVE UNCHANGED orderVars
  BY <1>6, InitFrame DEF Press, Transfer, Driver, DrvSetup, DrvHandler, DrvCheck, DrvGo, DrvFail
<1>7. ASSUME IrqRegister \/ IrqBegin \/ IrqSends \/ IrqRead \/ NotifyDone \/ IrqEnd PROVE UNCHANGED orderVars
  BY <1>7, SendFrame DEF IrqRegister, IrqBegin, IrqRead, NotifyDone, IrqEnd
<1>8. ASSUME NEW c \in Clients,
             \/ NotifyThrows(c) \/ ArriveDriver(c) \/ PlugIn(c) \/ MakeSync(c)
             \/ ArriveKey(c) \/ Exit(c)
      PROVE  UNCHANGED orderVars
  BY <1>8 DEF NotifyThrows, ArriveDriver, PlugIn, MakeSync, ArriveKey, Exit
<1>9. ASSUME UNCHANGED vars PROVE UNCHANGED orderVars
  BY <1>9 DEF vars
<1>10. QED
  BY <1>1, <1>2, <1>3, <1>4, <1>5, <1>6, <1>7, <1>8, <1>9 DEF Next, IrqStep, HandleIRQ, IrqSends, Listener, Task

\* When the kernel runs one callback of a process at a time, what successive
\* calls of GetRawInputKey return never goes back to an older press.
THEOREM ReadsAreInOrder == ASSUME MaxTasks = 1 PROVE Spec => ReadsInOrder
<1>1. Init => Base /\ InOrder
  BY TypeInit, OrderInit, StoredInit, InOrderInit DEF Base
<1>2. Base /\ InOrder /\ [Next]_vars => (Base /\ InOrder)'
  BY TypeStep, OrderStep, StoredStep, InOrderStep DEF Base
<1>3. Base /\ InOrder /\ [Next]_vars => [\A c \in Clients : last'[c] >= last[c]]_vars
  <2> SUFFICES ASSUME Base, InOrder, [Next]_vars
               PROVE  vars' = vars \/ \A c \in Clients : last'[c] >= last[c]
    OBVIOUS
  <2> USE DEF Base, Types, drvVars, ctrVars, hwVars, irqVars, cliVars
  <2>1. last \in [Clients -> Int]
    OBVIOUS
  <2>2. ASSUME NEW c \in Clients, ReadKey(c) PROVE \A d \in Clients : last'[d] >= last[d]
    BY <2>1, <2>2 DEF ReadKey, InOrder
  <2>3. ASSUME NEW c \in Clients, NEW k \in Keys, Task(c, k) PROVE UNCHANGED last
    BY <2>3 DEF Task, StartCall, SaveKey, CallGo, CallGoNull, CallClose
  <2>4. ASSUME Press \/ Transfer \/ Driver \/ DrvFail PROVE UNCHANGED last
    BY <2>4, InitFrame DEF Press, Transfer, Driver, DrvSetup, DrvHandler, DrvCheck, DrvGo, DrvFail
  <2>5. ASSUME IrqStep PROVE UNCHANGED last
    BY <2>5, SendFrame DEF IrqStep, HandleIRQ, IrqSends, IrqRegister, IrqBegin, IrqRead,
     NotifyDone, IrqEnd, Notify, NotifyThrows
  <2>6. ASSUME NEW c \in Clients,
               ArriveDriver(c) \/ PlugIn(c) \/ MakeSync(c) \/ ArriveKey(c) \/ Exit(c)
        PROVE  UNCHANGED last
    BY <2>6 DEF ArriveDriver, PlugIn, MakeSync, ArriveKey, Exit
  <2>7. ASSUME UNCHANGED last PROVE \A c \in Clients : last'[c] >= last[c]
    BY <2>1, <2>7
  <2>8. QED
    BY <2>2, <2>3, <2>4, <2>5, <2>6, <2>7 DEF Next, Listener
<1>4. QED
  BY <1>1, <1>2, <1>3, PTL DEF Spec, ReadsInOrder

-----------------------------------------------------------------------------
(* While every listener lives and the queues cannot overflow, no call is   *)
(* refused, so HandleIRQ always runs to the line that enables the port and *)
(* every listener plugged in is told of every press.                       *)

AllAlive == \A c \in Clients : Alive(c)

LEMMA DeadStayDead == Types /\ [Next]_vars /\ AllAlive' => AllAlive
<1> SUFFICES ASSUME Types, [Next]_vars, NEW c \in Clients, ~Alive(c) PROVE ~Alive(c)'
  BY DEF AllAlive
<1> USE DEF Types, Alive, drvVars, ctrVars, hwVars, irqVars, cliVars
<1>1. ASSUME Press \/ Transfer \/ DrvSetup \/ DrvHandler \/ DrvCheck \/ InitDriver \/ DrvFail
      PROVE  ~Alive(c)'
  BY <1>1, InitFrame DEF Press, Transfer, DrvSetup, DrvHandler, DrvCheck, DrvFail
<1>2. ASSUME DrvGo PROVE ~Alive(c)'
  BY <1>2 DEF DrvGo
<1>3. ASSUME IrqStep PROVE ~Alive(c)'
  BY <1>3, SendFrame DEF IrqStep, HandleIRQ, IrqSends, IrqRegister, IrqBegin, IrqRead,
     NotifyDone, IrqEnd, Notify, NotifyThrows
<1>4. ASSUME NEW d \in Clients, Listener(d) \/ ArriveKey(d) \/ Exit(d) PROVE ~Alive(c)'
  BY <1>4 DEF Listener, ArriveDriver, PlugIn, MakeSync, ReadKey, ArriveKey, Exit, CliStep
<1>5. ASSUME NEW d \in Clients, NEW k \in Keys, Task(d, k) PROVE ~Alive(c)'
  BY <1>5 DEF Task, StartCall, SaveKey, CallGo, CallGoNull, CallClose
<1>6. ASSUME UNCHANGED vars PROVE ~Alive(c)'
  BY <1>6 DEF vars
<1>7. QED
  BY <1>1, <1>2, <1>3, <1>4, <1>5, <1>6 DEF Next, Driver

\* The queue of a listener that has yet to be notified has room.
LEMMA NoRefusal ==
  ASSUME QueuesSuffice, Base, AllAlive, irq = "notify", NEW c \in snap
  PROVE  Accepts(c)
<1> USE KeysAssumption DEF Base, Types
<1>1. c \in Clients /\ cur \in Keys /\ call[c][cur] = "none"
  BY DEF CallOrder
<1>2. IsFiniteSet(Keys) /\ Cardinality(Keys) = MaxKeys
  BY FS_Interval DEF Keys
<1>3. IsFiniteSet(Keys \ {cur}) /\ Cardinality(Keys \ {cur}) = MaxKeys - 1
  BY <1>1, <1>2, FS_RemoveElement
<1>4. Queued(c) \subseteq Keys \ {cur}
  BY <1>1 DEF Queued
<1>5. Cardinality(Queued(c)) <= MaxKeys - 1 /\ Cardinality(Queued(c)) \in Nat
  BY <1>3, <1>4, FS_Subset, FS_CardinalityType
<1>6. QED
  BY <1>1, <1>5 DEF Accepts, AllAlive, QueuesSuffice

\* Once InitDriver is through, and nothing that was to switch the port on was lost,
\* the interrupt is on, and the port is disabled only inside HandleIRQ.
SilentInv ==
  QueuesSuffice /\ AllAlive /\ ~failed /\ drv \in {"go", "sleep"} =>
    "int" \in ctr /\ ("dis" \in ctr => irq \in {"drain", "notify", "enable"})

LEMMA SilentStep == Base /\ SilentInv /\ [Next]_vars => SilentInv'
<1> SUFFICES ASSUME Base, SilentInv, [Next]_vars, QueuesSuffice, AllAlive, AllAlive',
                    ~failed', drv' \in {"go", "sleep"}
             PROVE  ("int" \in ctr /\ ("dis" \in ctr => irq \in {"drain", "notify", "enable"}))'
  BY DeadStayDead DEF Base, SilentInv, QueuesSuffice
<1> USE DEF SilentInv, drvVars, ctrVars, hwVars, irqVars, cliVars
<1> DEFINE Goal == ("int" \in ctr /\ ("dis" \in ctr => irq \in {"drain", "notify", "enable"}))'
           silentVars == <<drv, ctr, failed, irq>>
<1>1. CASE UNCHANGED silentVars
  BY <1>1
<1>2. CASE DrvSetup \/ DrvHandler \/ DrvCheck \/ DrvFail
  BY <1>2 DEF DrvSetup, DrvHandler, DrvCheck, DrvFail, DrvStep
<1>3. CASE DrvRead \/ DrvWctr \/ DrvParamLost \/ DrvGiveUp
  BY <1>3 DEF DrvRead, DrvWctr, DrvParamLost, DrvGiveUp, DrvParamStep, DrvStep
<1>4. CASE DrvParam
  BY <1>4 DEF DrvParam, DrvParamStep, DrvStep
<1>5. CASE DrvGo
  BY <1>5 DEF DrvGo, DrvStep
<1>6. CASE IrqRegister \/ IrqBegin \/ IrqRead \/ NotifyDone \/ IrqEnd
  BY <1>6 DEF IrqRegister, IrqBegin, IrqRead, NotifyDone, IrqEnd
<1>7. CASE IrqCommand
  BY <1>7 DEF IrqCommand, IrqCommandStep
<1>8. CASE IrqCommandLost \/ IrqGiveUp
  BY <1>8 DEF IrqCommandLost, IrqGiveUp, IrqCommandStep, InitPC
<1>9. ASSUME NEW c \in Clients, NotifyThrows(c) PROVE FALSE
  BY <1>9, NoRefusal DEF NotifyThrows
<1>10. ASSUME NEW c \in Clients, Notify(c) \/ Listener(c) \/ ArriveKey(c) \/ Exit(c)
       PROVE  UNCHANGED silentVars
  BY <1>10 DEF Notify, Listener, ArriveDriver, PlugIn, MakeSync, ReadKey, ArriveKey, Exit
<1>11. ASSUME NEW c \in Clients, NEW k \in Keys, Task(c, k) PROVE UNCHANGED silentVars
  BY <1>11 DEF Task, StartCall, SaveKey, CallGo, CallGoNull, CallClose
<1>12. ASSUME Press \/ Transfer \/ UNCHANGED vars PROVE UNCHANGED silentVars
  BY <1>12 DEF Press, Transfer, vars
<1>13. QED
  BY <1>1, <1>2, <1>3, <1>4, <1>5, <1>6, <1>7, <1>8, <1>9, <1>10, <1>11, <1>12
     DEF Next, Driver, InitDriver, IrqStep, HandleIRQ

\* The port is left silent only when a listener ended, a wait for the controller failed
\* at its last poll, or the parameter that switches the keyboard on was lost to a
\* command of the IRQ thread.
THEOREM SilenceHasACause == Spec => []SilentOnlyAfterRefusal
<1>1. Init => Base /\ SilentInv
  BY TypeInit, OrderInit, StoredInit DEF Base, SilentInv, Init
<1>2. Base /\ SilentInv /\ [Next]_vars => (Base /\ SilentInv)'
  BY TypeStep, OrderStep, StoredStep, SilentStep DEF Base
<1>3. Base /\ SilentInv => SilentOnlyAfterRefusal
  BY DEF Base, Types, SilentInv, SilentOnlyAfterRefusal, AllAlive
<1>4. QED
  BY <1>1, <1>2, <1>3, PTL DEF Spec

-----------------------------------------------------------------------------
(* No gap in what a listener is told of.                                   *)

Buffered == IF obf THEN 1 ELSE 0

\* Listeners stay plugged in; once one is notified, the controller holds
\* exactly the press after the one read last or none; a press up to the one
\* read last that is younger than the first one told has been told, or is
\* being told now.
GapInv ==
  QueuesSuffice /\ AllAlive =>
    /\ \A c \in Clients, k \in Keys : call[c][k] # "none" => c \in cables
    /\ snap \subseteq cables /\ (irq # "notify" => snap = {})
    /\ cables # {} /\ (snap # {} \/ \E c \in Clients, k \in Keys : call[c][k] # "none")
         => fetched = cur + Buffered
    /\ \A c \in Clients, j, k \in Keys :
         call[c][j] # "none" /\ j < k /\ k <= cur =>
           call[c][k] # "none" \/ (k = cur /\ c \in snap)

LEMMA GapInit == Init => GapInv
BY DEF Init, GapInv

LEMMA GapImplies == Base /\ GapInv => NoGapUnlessRefused
<1> SUFFICES ASSUME Base, GapInv, QueuesSuffice, AllAlive,
                    NEW c \in Clients, NEW j \in Told(c), NEW m \in Told(c), NEW k \in j..m
             PROVE  k \in Told(c)
  BY DEF NoGapUnlessRefused, AllAlive
<1> USE KeysAssumption DEF Keys
<1>1. j \in Keys /\ m \in Keys /\ k \in Keys /\ call[c][j] # "none" /\ call[c][m] # "none"
  BY DEF Told
<1>2. j <= k /\ k <= m /\ m <= cur /\ cur \in Nat
  BY <1>1 DEF Base, CallOrder, Types
<1>3. CASE k = j \/ k = m
  BY <1>3
<1>4. CASE j < k /\ k < m
  <2>1. k <= cur /\ k # cur
    BY <1>1, <1>2, <1>4
  <2>2. QED
    BY <1>1, <1>4, <2>1 DEF GapInv, Told
<1>5. QED
  BY <1>1, <1>2, <1>3, <1>4

LEMMA GapStep == Base /\ ReadyInv /\ GapInv /\ [Next]_vars => GapInv'
<1> SUFFICES ASSUME Base, ReadyInv, GapInv, [Next]_vars, QueuesSuffice, AllAlive, AllAlive'
             PROVE  GapInv'
  BY DeadStayDead DEF Base, GapInv, QueuesSuffice
<1> USE KeysAssumption DEF Keys, CallPC, drvVars, ctrVars, hwVars, irqVars, cliVars
<1> DEFINE gapVars == <<call, cables, snap, irq, fetched, cur, obf>>
<1>0. Types /\ FetchOrder /\ CallOrder /\ (cables # {} => drv = "sleep")
  BY DEF Base, ReadyInv, Types
<1>1. CASE UNCHANGED gapVars
  BY <1>1 DEF GapInv, Buffered
<1>2. CASE Transfer
  <2>1. /\ UNCHANGED <<call, cables, snap, irq, cur>>
        /\ fetched' = fetched + 1 /\ obf = FALSE /\ obf' = TRUE
    BY <1>0, <1>2 DEF Transfer, Types
  <2>2. fetched = cur + Buffered => fetched' = cur' + Buffered'
    BY <1>0, <2>1 DEF Buffered, Types
  <2>3. QED
    BY <2>1, <2>2 DEF GapInv
<1>3. CASE DrvHandler \/ DrvCheck \/ InitDriver \/ DrvFail
  <2>1. cables = {} /\ snap = {} /\ \A c \in Clients, k \in Keys : call[c][k] = "none"
    BY <1>0, <1>3, InitFrame DEF DrvHandler, DrvCheck, DrvFail, DrvStep, InitPC, GapInv
  <2>2. UNCHANGED <<call, cables>> /\ snap' = {}
    BY <1>3, <2>1, InitFrame DEF DrvHandler, DrvCheck, DrvFail
  <2>3. QED
    BY <2>1, <2>2 DEF GapInv
<1>4. CASE IrqRegister \/ IrqBegin \/ IrqSends \/ IrqEnd
  <2>1. UNCHANGED <<call, cables, snap, fetched, cur, obf>> /\ snap = {} /\ irq' # "notify"
    BY <1>4, SendFrame DEF IrqRegister, IrqBegin, IrqEnd, GapInv
  <2>2. QED
    BY <2>1 DEF GapInv, Buffered
<1>5. CASE NotifyDone
  <2>1. UNCHANGED <<call, cables, snap, fetched, cur, obf>> /\ snap = {} /\ irq' # "notify"
    BY <1>5 DEF NotifyDone
  <2>2. QED
    BY <2>1 DEF GapInv, Buffered
<1>6. CASE IrqRead
  <2>1. /\ UNCHANGED <<call, cables, fetched>> /\ snap' = cables /\ irq' = "notify"
        /\ obf /\ obf' = FALSE /\ cur' = fetched /\ snap = {}
    BY <1>6 DEF IrqRead, GapInv
  <2>2. fetched' = cur' + Buffered'
    BY <1>0, <2>1 DEF Buffered, Types
  <2>3. ASSUME NEW c \in Clients, NEW j \in Keys, NEW k \in Keys,
               call[c][j] # "none", j < k, k <= fetched
        PROVE  call[c][k] # "none" \/ (k = fetched /\ c \in cables)
    <3>1. c \in cables
      BY <2>3 DEF GapInv
    <3>2. fetched = cur + 1
      BY <2>1, <2>3, <3>1 DEF GapInv, Buffered
    <3>3. k <= cur \/ k = fetched
      BY <1>0, <2>3, <3>2 DEF Types
    <3>4. CASE k <= cur
      BY <2>1, <2>3, <3>4 DEF GapInv
    <3>5. QED
      BY <3>1, <3>3, <3>4
  <2>4. QED
    BY <2>1, <2>2, <2>3 DEF GapInv
<1>7. ASSUME NEW c \in Clients, Notify(c) PROVE GapInv'
  <2>1. /\ irq = "notify" /\ c \in snap /\ snap' = snap \ {c}
        /\ call' = [call EXCEPT ![c][cur] = "queued"]
        /\ UNCHANGED <<cables, irq, fetched, cur, obf>>
    BY <1>7 DEF Notify
  <2>2. cur \in Keys
    BY <1>0, <2>1 DEF Types
  <2>3. \A d \in Clients, k \in Keys :
          call'[d][k] # "none" <=> (call[d][k] # "none" \/ (d = c /\ k = cur))
    BY <1>0, <2>1, <2>2 DEF Types
  <2>4. c \in cables /\ fetched = cur + Buffered /\ snap \subseteq cables
    BY <2>1 DEF GapInv
  <2>5. \A d \in Clients, k \in Keys : call'[d][k] # "none" => d \in cables
    BY <2>3, <2>4 DEF GapInv
  <2>6. ASSUME NEW d \in Clients, NEW j \in Keys, NEW k \in Keys,
               call'[d][j] # "none", j < k, k <= cur
        PROVE  call'[d][k] # "none" \/ (k = cur /\ d \in snap')
    <3>1. j # cur
      BY <1>0, <2>6 DEF Types
    <3>2. call[d][j] # "none"
      BY <2>3, <2>6, <3>1
    <3>3. call[d][k] # "none" \/ (k = cur /\ d \in snap)
      BY <2>6, <3>2 DEF GapInv
    <3>4. QED
      BY <2>1, <2>3, <3>3
  <2>7. QED
    BY <2>1, <2>4, <2>5, <2>6 DEF GapInv, Buffered
<1>8. ASSUME NEW c \in Clients, NotifyThrows(c) PROVE FALSE
  BY <1>8, NoRefusal DEF NotifyThrows
<1>9. ASSUME NEW c \in Clients, PlugIn(c) PROVE GapInv'
  <2>1. UNCHANGED <<call, snap, irq, fetched, cur, obf>> /\ cables \subseteq cables'
    BY <1>9 DEF PlugIn
  <2>2. cables = {} => snap = {} /\ \A d \in Clients, k \in Keys : call[d][k] = "none"
    BY DEF GapInv
  <2>3. QED
    BY <2>1, <2>2 DEF GapInv, Buffered
<1>10. ASSUME NEW c \in Clients, Exit(c) PROVE FALSE
  BY <1>0, <1>10 DEF Exit, CliStep, AllAlive, Alive, Types
<1>11. ASSUME NEW c \in Clients, NEW k \in Keys, Task(c, k) PROVE GapInv'
  <2>1. UNCHANGED <<snap, irq, fetched, cur, obf>> /\ call[c][k] # "none"
    BY <1>11 DEF Task, StartCall, SaveKey, CallGo, CallGoNull, CallClose, CallStep
  <2>2. \E s \in CallPC \ {"none"} : call' = [call EXCEPT ![c][k] = s]
    BY <1>11 DEF Task, StartCall, SaveKey, CallGo, CallGoNull, CallClose, CallStep
  <2>3. UNCHANGED cables
    <3>1. CASE CallGoNull(c, k)
      BY <1>0, <3>1 DEF CallGoNull, AllAlive, Alive, Types
    <3>2. QED
      BY <1>11, <3>1 DEF Task, StartCall, SaveKey, CallGo, CallClose
  <2>4. \A d \in Clients, j \in Keys : call'[d][j] # "none" <=> call[d][j] # "none"
    BY <1>0, <2>1, <2>2 DEF Types
  <2>5. QED
    BY <2>1, <2>3, <2>4 DEF GapInv, Buffered
<1>12. ASSUME NEW c \in Clients,
              ArriveDriver(c) \/ MakeSync(c) \/ ReadKey(c) \/ ArriveKey(c)
       PROVE  UNCHANGED gapVars
  BY <1>12 DEF ArriveDriver, MakeSync, ReadKey, ArriveKey
<1>13. ASSUME Press \/ DrvSetup \/ DrvGo \/ UNCHANGED vars PROVE UNCHANGED gapVars
  BY <1>13 DEF Press, DrvSetup, DrvGo, vars
<1>14. QED
  BY <1>1, <1>2, <1>3, <1>4, <1>5, <1>6, <1>7, <1>8, <1>9, <1>10, <1>11, <1>12, <1>13
     DEF Next, Driver, IrqStep, HandleIRQ, IrqSends, Listener

\* As long as no listener ends and the queues suffice, a listener is told of
\* every press between the first and the newest it was told of.
THEOREM NoGapTheorem == Spec => []NoGapUnlessRefused
<1>1. Init => Base /\ ReadyInv /\ GapInv
  BY TypeInit, OrderInit, StoredInit, ReadyInit, GapInit DEF Base
<1>2. Base /\ ReadyInv /\ GapInv /\ [Next]_vars => (Base /\ ReadyInv /\ GapInv)'
  BY TypeStep, OrderStep, StoredStep, ReadyStep, GapStep DEF Base
<1>3. Base /\ ReadyInv /\ GapInv => NoGapUnlessRefused
  BY GapImplies
<1>4. QED
  BY <1>1, <1>2, <1>3, PTL DEF Spec
=============================================================================
