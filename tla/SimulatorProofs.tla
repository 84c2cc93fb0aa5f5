--------------------------- MODULE SimulatorProofs ---------------------------
(* Theorems about the whole program: what DbusDispatch and                 *)
(* AdapterProperties promise by themselves holds in it, because every step *)
(* of the program is one of theirs or leaves their variables alone; and    *)
(* what only holds because of the order in which the main thread does      *)
(* things.                                                                 *)
EXTENDS Simulator, DbusDispatchProofs, AdapterPropertiesProofs

-----------------------------------------------------------------------------
(* The parts of the program.                                               *)

LEMMA EndIsDispatchStep ==
  ASSUME NEW p, End(p)
  PROVE  [DispatchNext]_dispatchVars
BY DEF End, DispatchNext

LEMMA DispatchStep ==
  ASSUME [Next]_vars
  PROVE  [DispatchNext]_dispatchVars
<1> USE DEF DispatchNext
<1>1. CASE ParseArgs \/ DbusInit \/ StartThread \/ OpenController
             \/ PowerController \/ ControllerPowered \/ LoadScript
  BY <1>1, EndIsDispatchStep
  DEF ParseArgs, DbusInit, StartThread, OpenController, PowerController,
      ControllerPowered, LoadScript, Others
<1>2. CASE ScriptStep
  <2>1. ASSUME NEW k \in Objects, AddObject(k)
        PROVE  [DispatchNext]_dispatchVars
    <3>1. {k} \in SUBSET Kinds
      BY ObjectsAreGatt DEF GattKinds
    <3> QED  BY <2>1, <3>1 DEF AddObject
  <2>2. CASE RegisterDevice
    <3>1. {"device", "advertisement"} \in SUBSET Kinds
      BY DEF Kinds, Properties
    <3> QED  BY <2>2, <3>1 DEF RegisterDevice
  <2>5. CASE CreateDevice \/ RegistrationFails \/ CollectDevice
    BY <2>5, EndIsDispatchStep DEF CreateDevice, RegistrationFails, CollectDevice, Others
  <2>3. ASSUME NEW s \in DeviceSettings, NEW v \in BOOLEAN, SetSetting(s, v)
        PROVE  [DispatchNext]_dispatchVars
    BY <2>3 DEF SetSetting
  <2>4. CASE ChunkReturns \/ UpdateReturns
    BY <2>4 DEF ChunkReturns, UpdateReturns, Others
  <2> QED  BY <1>2, <2>1, <2>2, <2>3, <2>4, <2>5 DEF ScriptStep
<1>3. CASE InstallHandlers \/ Run \/ CheckRunning \/ ExitOnDisconnect
  BY <1>3 DEF InstallHandlers, Run, CheckRunning, ExitOnDisconnect, Others
<1>4. CASE Dispatch \/ DispatchCrashes \/ CallUpdate
  BY <1>4, EndIsDispatchStep DEF Dispatch, DispatchCrashes, CallUpdate
<1>5. CASE CloseLua \/ CancelThread \/ JoinThread
  BY <1>5, EndIsDispatchStep DEF CloseLua, CancelThread, JoinThread
<1>6. CASE ThreadStep
  BY <1>6 DEF ThreadStep, Serve, Served, ThreadEnds
<1>7. CASE Environment
  BY <1>7, EndIsDispatchStep DEF Environment, Signal, PeerSends, Disconnect, Bluez
<1>8. CASE TimeOut
  BY <1>8 DEF TimeOut
<1>9. CASE Terminated \/ UNCHANGED vars
  BY <1>9 DEF Terminated, vars
<1> QED
  BY <1>1, <1>2, <1>3, <1>4, <1>5, <1>6, <1>7, <1>8, <1>9 DEF Next, MainStep

LEMMA AdapterStep ==
  ASSUME [Next]_vars
  PROVE  [AdapterNext]_adapterVars
<1>1. CASE ParseArgs \/ DbusInit \/ StartThread \/ OpenController
             \/ ControllerPowered \/ LoadScript
  BY <1>1
  DEF ParseArgs, DbusInit, StartThread, OpenController,
      ControllerPowered, LoadScript, Others
<1>2. CASE PowerController
  BY <1>2, DefaultIsSetting DEF PowerController, AdapterNext
<1>3. CASE ScriptStep
  <2>1. ASSUME NEW s \in DeviceSettings, NEW v \in BOOLEAN, SetSetting(s, v)
        PROVE  [AdapterNext]_adapterVars
    BY <2>1 DEF SetSetting, DeviceSettings, AdapterNext
  <2> QED
    BY <1>3, <2>1
    DEF ScriptStep, CreateDevice, AddObject, RegisterDevice, RegistrationFails,
        CollectDevice, ChunkReturns, UpdateReturns, Others
<1>4. CASE InstallHandlers \/ Run \/ CheckRunning \/ ExitOnDisconnect
  BY <1>4 DEF InstallHandlers, Run, CheckRunning, ExitOnDisconnect, Others
<1>5. CASE Dispatch \/ DispatchCrashes \/ CallUpdate
             \/ CloseLua \/ CancelThread \/ JoinThread \/ ThreadStep
  BY <1>5
  DEF Dispatch, DispatchCrashes, CallUpdate, CloseLua, CancelThread, JoinThread,
      ThreadStep, Serve, Served, ThreadEnds
<1>6. CASE Environment \/ TimeOut
  BY <1>6 DEF Environment, Signal, PeerSends, Disconnect, Bluez, TimeOut, AdapterNext
<1>7. CASE Terminated \/ UNCHANGED vars
  BY <1>7 DEF Terminated, vars
<1> QED
  BY <1>1, <1>2, <1>3, <1>4, <1>5, <1>6, <1>7 DEF Next, MainStep

(* In the program, too, calls are answered in their order and at most once *)
(* each, and only those of the Properties interface may get no answer.     *)
THEOREM ProgramAnswersInOrder ==
  Spec => []AnswersInOrder /\ []UnansweredAreExpected
<1> DEFINE Inv == DispatchTypeOK /\ AnswersInOrder /\ UnansweredAreExpected
<1>1. Init => Inv
  BY DispatchTypeInit DEF Init
<1>2. Inv /\ [Next]_vars => Inv'
  BY DispatchStep, DispatchTypeStep, OrderStep, ExpectationStep
<1> QED  BY <1>1, <1>2, PTL DEF Spec

(* The program keeps the promise of CallReply, but for its fairness.       *)
THEOREM ProgramSettlesCallsInTurn ==
  Spec => Callers!Init /\ [][Callers!Next]_CallStatus
<1> DEFINE Inv == DispatchTypeOK /\ AnswersInOrder /\ SentFits
<1>1. Init => Inv /\ Callers!Init
  BY DispatchTypeInit, FitsInit, CallStatusInit DEF Init
<1>2. Inv /\ [Next]_vars => Inv'
  BY DispatchStep, DispatchTypeStep, OrderStep, FitsStep
<1>3. Inv /\ [Next]_vars => [Callers!Next]_CallStatus
  BY DispatchStep, CallReplyStep
<1> QED  BY <1>1, <1>2, <1>3, PTL DEF Spec

(* A Set that was reported done is done and stays done until the next one, *)
(* whatever was given up before it and however late its answer comes.      *)
THEOREM SuccessIsTrue == Spec => []SuccessIsCurrent
<1>1. Init => AdapterInv
  BY AdapterInvInit DEF Init
<1>2. AdapterInv /\ [Next]_vars => AdapterInv'
  BY AdapterStep, AdapterInvStep
<1>3. AdapterInv => SuccessIsCurrent
  BY DEF AdapterInv
<1> QED  BY <1>1, <1>2, <1>3, PTL DEF Spec

-----------------------------------------------------------------------------
(* What the main thread keeps.                                             *)

ProgramTypeOK ==
  /\ pc \in StartUp \cup Loop \cup CleanUp \cup Ended
  /\ status \in {0, 1}
  /\ running \in BOOLEAN
  /\ signals \in 0 .. MaxSignals
  /\ thread \in {"none", "running", "cancelled", "ended"}
  /\ serving \in BOOLEAN
  /\ lua \in 0 .. LuaSlots
  /\ failures \in Nat
  /\ arrived \in 0 .. Len(sent)
  /\ device \in {"absent", "collected", "just_registered", "registered"} \cup Unfinished
  /\ due \subseteq Objects

(* In the loop every slot beyond the metatables is the message of an       *)
(* Update that failed, and Update is only called with one to spare.        *)
SlotsAreFailures ==
  /\ pc \in StartUp \ {"install_handlers", "run"} => failures = 0
  /\ pc = "chunk" => lua = 4
  /\ pc \in Loop \cup {"install_handlers", "run"} => lua = failures + 4
  /\ pc = "update" => lua < LuaSlots

EndedIsClosed == Gone => link = "closed"

(* The device is on the bus only if it was registered, and while the chunk *)
(* that registered it goes on nothing is dispatched.                       *)
DevicesFollowTheScript ==
  /\ device = "just_registered" => pc \in InScript \cup Ended
  /\ "device" \in served => Registered
  /\ due \subseteq served

(* The loop only ends, and clean-up only begins, because of a signal or an *)
(* error of the program's own.                                             *)
StopsAreAsked ==
  /\ pc \in Loop => running \/ signals > 0
  /\ pc \in CleanUp => StopAsked

ProgramInv ==
  /\ ProgramTypeOK /\ SlotsAreFailures /\ EndedIsClosed /\ DevicesFollowTheScript
  /\ StopsAreAsked

LEMMA SentGrows ==
  ASSUME DispatchTypeOK, [DispatchNext]_dispatchVars
  PROVE  Len(sent) \in Nat /\ Len(sent') \in Nat /\ Len(sent) <= Len(sent')
<1>0. sent \in Seq(Messages) /\ Len(sent) \in Nat
  BY DEF DispatchTypeOK
<1>1. ASSUME NEW m \in Messages, Send(m)
      PROVE  Len(sent') = Len(sent) + 1
  BY <1>0, <1>1 DEF Send
<1> QED
  BY <1>0, <1>1
  DEF DispatchNext, Connect, RegisterObjects, HandleMessage, CrashOnMessage, Close,
      dispatchVars

(* The Lua stack takes the metatables and a message; what fits may grow.   *)
LEMMA Slots ==
  /\ 0 \in 0 .. LuaSlots /\ 4 \in 0 .. LuaSlots /\ 5 \in 0 .. LuaSlots
  /\ 0 \in 0 .. MaxSignals
  /\ \A n \in 0 .. LuaSlots : n \in Nat /\ (n < LuaSlots => n + 1 \in 0 .. LuaSlots)
  /\ \A n \in 0 .. MaxSignals : n < MaxSignals => n + 1 \in 0 .. MaxSignals
BY SlotsForMetatables, MaxSignalsIsNatural

LEMMA ProgramInit == Init => ProgramInv
<1> SUFFICES ASSUME Init PROVE ProgramInv
  OBVIOUS
<1> USE DEF Init, DispatchInit
<1>1. ProgramTypeOK
  <2>1. 0 \in 0 .. Len(sent)
    <3>1. sent = <<>>
      OBVIOUS
    <3> HIDE DEF Init, DispatchInit
    <3> QED  BY <3>1
  <2> QED  BY <2>1, Slots DEF ProgramTypeOK, StartUp
<1>2. SlotsAreFailures
  BY DEF SlotsAreFailures, Loop
<1>3. EndedIsClosed
  BY DEF EndedIsClosed, Gone, Ended
<1>4. DevicesFollowTheScript
  BY DEF DevicesFollowTheScript
<1>5. StopsAreAsked
  BY DEF StopsAreAsked, Loop, CleanUp
<1> QED  BY <1>1, <1>2, <1>3, <1>4, <1>5 DEF ProgramInv

LEMMA EndCloses ==
  ASSUME NEW p, End(p)
  PROVE  pc' = p /\ link' = "closed" /\ UNCHANGED <<sent, taken, served, wire>>
BY DEF End, Close, dispatchVars

(* One step per action; what an action does to the connection comes from   *)
(* DispatchStep.                                                           *)
LEMMA ProgramTypeStep ==
  ASSUME ProgramTypeOK, SlotsAreFailures, DispatchTypeOK, [Next]_vars
  PROVE  ProgramTypeOK'
<1>0. arrived \in 0 .. Len(sent') /\ Len(sent) \in Nat /\ Len(sent') \in Nat
  <2>1. arrived \in 0 .. Len(sent)
    BY DEF ProgramTypeOK
  <2>2. Len(sent) \in Nat /\ Len(sent') \in Nat /\ Len(sent) <= Len(sent')
    BY DispatchStep, SentGrows
  <2> QED  BY <2>1, <2>2
<1> USE <1>0, EndCloses, SlotsForMetatables, MaxSignalsIsNatural
    DEF ProgramTypeOK, SlotsAreFailures, StartUp, Loop, CleanUp, Ended, InScript,
        mainVars, program, script, threadVars, At, GoTo, Others, Fail
<1>1. CASE ParseArgs
  BY <1>1 DEF ParseArgs
<1>2. CASE DbusInit
  BY <1>2 DEF DbusInit, Connect
<1>3. CASE StartThread
  BY <1>3 DEF StartThread
<1>4. CASE OpenController
  BY <1>4 DEF OpenController
<1>5. CASE PowerController
  BY <1>5 DEF PowerController
<1>6. CASE ControllerPowered
  BY <1>6 DEF ControllerPowered
<1>7. CASE LoadScript
  <2>1. lua' \in 0 .. LuaSlots
    BY <1>7 DEF LoadScript
  <2> QED  BY <1>7, <2>1 DEF LoadScript
<1>8. ASSUME NEW k \in Objects, AddObject(k)
      PROVE  ProgramTypeOK'
  BY <1>8 DEF AddObject, InChunk, RegisterObjects
<1>9. CASE RegisterDevice
  BY <1>9 DEF RegisterDevice, InChunk, RegisterObjects
<1>28. CASE CreateDevice \/ RegistrationFails \/ CollectDevice
  BY <1>28 DEF CreateDevice, RegistrationFails, CollectDevice, InChunk, Unfinished
<1>10. ASSUME NEW s \in DeviceSettings, NEW v \in BOOLEAN, SetSetting(s, v)
      PROVE  ProgramTypeOK'
  BY <1>10 DEF SetSetting, InChunk
<1>11. CASE ChunkReturns
  <2>1. lua' \in 0 .. LuaSlots
    BY <1>11 DEF ChunkReturns
  <2> QED  BY <1>11, <2>1 DEF ChunkReturns, ChunkEnds
<1>12. CASE UpdateReturns
  <2>1. lua' \in 0 .. LuaSlots /\ failures' \in Nat
    BY <1>12 DEF UpdateReturns
  <2> QED  BY <1>12, <2>1 DEF UpdateReturns, ChunkEnds
<1>13. CASE InstallHandlers \/ Run
  BY <1>13 DEF InstallHandlers, Run
<1>14. CASE CheckRunning
  <2>1. arrived' \in taken .. Len(sent) \/ UNCHANGED arrived
    BY <1>14 DEF CheckRunning, ReadSome
  <2>2. taken \in 0 .. Len(sent) /\ UNCHANGED sent
    BY <1>14 DEF CheckRunning, dispatchVars, DispatchTypeOK
  <2>3. arrived' \in 0 .. Len(sent')
    BY <2>1, <2>2
  <2> QED  BY <1>14, <2>3 DEF CheckRunning
<1>15. CASE Dispatch
  BY <1>15 DEF Dispatch, HandleMessage
<1>16. CASE DispatchCrashes
  BY <1>16 DEF DispatchCrashes, CrashOnMessage, Close
<1>17. CASE CallUpdate
  BY <1>17 DEF CallUpdate
<1>18. CASE ExitOnDisconnect
  BY <1>18 DEF ExitOnDisconnect
<1>19. CASE CloseLua
  <2>1. lua' \in 0 .. LuaSlots
    BY <1>19 DEF CloseLua
  <2> QED  BY <1>19, <2>1 DEF CloseLua
<1>20. CASE CancelThread
  BY <1>20 DEF CancelThread
<1>21. CASE JoinThread
  BY <1>21 DEF JoinThread
<1>22. CASE ThreadStep
  BY <1>22 DEF ThreadStep, Serve, Served, ThreadEnds
<1>23. CASE Signal
  <2>1. signals' \in 0 .. MaxSignals
    BY <1>23 DEF Signal
  <2> QED  BY <1>23, <2>1 DEF Signal
<1>24. ASSUME NEW m \in Messages, PeerSends(m)
      PROVE  ProgramTypeOK'
  BY <1>24 DEF PeerSends, Send
<1>25. CASE Disconnect
  BY <1>25 DEF Disconnect, Close
<1>26. CASE Bluez \/ TimeOut
  BY <1>26 DEF Bluez, TimeOut
<1>27. CASE Terminated \/ UNCHANGED vars
  BY <1>27 DEF Terminated, vars
<1> QED
  BY <1>1, <1>2, <1>3, <1>4, <1>5, <1>6, <1>7, <1>8, <1>9, <1>10, <1>11,
     <1>12, <1>13, <1>14, <1>15, <1>16, <1>17, <1>18, <1>19, <1>20, <1>21,
     <1>22, <1>23, <1>24, <1>25, <1>26, <1>27, <1>28
  DEF Next, MainStep, ScriptStep, Environment

LEMMA SlotsStep ==
  ASSUME ProgramTypeOK, SlotsAreFailures, [Next]_vars
  PROVE  SlotsAreFailures'
<1>0. lua \in Nat /\ failures \in Nat
  <2>1. lua \in 0 .. LuaSlots /\ failures \in Nat
    BY DEF ProgramTypeOK
  <2> QED  BY <2>1, SlotsForMetatables
<1> USE <1>0, EndCloses
    DEF SlotsAreFailures, StartUp, Loop, InScript, mainVars, program, script, threadVars,
        At, GoTo, Others, Fail
<1>1. CASE ParseArgs
  BY <1>1 DEF ParseArgs
<1>2. CASE DbusInit
  BY <1>2 DEF DbusInit, Connect
<1>3. CASE StartThread
  BY <1>3 DEF StartThread
<1>4. CASE OpenController
  BY <1>4 DEF OpenController
<1>5. CASE PowerController
  BY <1>5 DEF PowerController
<1>6. CASE ControllerPowered
  BY <1>6 DEF ControllerPowered
<1>7. CASE LoadScript
  BY <1>7 DEF LoadScript
<1>8. ASSUME NEW k \in Objects, AddObject(k)
      PROVE  SlotsAreFailures'
  BY <1>8 DEF AddObject, InChunk, RegisterObjects
<1>9. CASE RegisterDevice
  BY <1>9 DEF RegisterDevice, InChunk, RegisterObjects
<1>28. CASE CreateDevice \/ RegistrationFails \/ CollectDevice
  BY <1>28 DEF CreateDevice, RegistrationFails, CollectDevice, InChunk
<1>10. ASSUME NEW s \in DeviceSettings, NEW v \in BOOLEAN, SetSetting(s, v)
      PROVE  SlotsAreFailures'
  BY <1>10 DEF SetSetting, InChunk
<1>11. CASE ChunkReturns
  BY <1>11 DEF ChunkReturns, ChunkEnds
<1>12. CASE UpdateReturns
  BY <1>12 DEF UpdateReturns, ChunkEnds
<1>13. CASE InstallHandlers \/ Run
  BY <1>13 DEF InstallHandlers, Run
<1>14. CASE CheckRunning
  BY <1>14 DEF CheckRunning
<1>15. CASE Dispatch
  BY <1>15 DEF Dispatch, HandleMessage
<1>16. CASE DispatchCrashes
  BY <1>16 DEF DispatchCrashes, CrashOnMessage, Close
<1>17. CASE CallUpdate
  BY <1>17 DEF CallUpdate
<1>18. CASE ExitOnDisconnect
  BY <1>18 DEF ExitOnDisconnect
<1>19. CASE CloseLua
  BY <1>19 DEF CloseLua
<1>20. CASE CancelThread
  BY <1>20 DEF CancelThread
<1>21. CASE JoinThread
  BY <1>21 DEF JoinThread
<1>22. CASE ThreadStep
  BY <1>22 DEF ThreadStep, Serve, Served, ThreadEnds
<1>23. CASE Signal
  <2>1. pc' = pc \/ pc' = "killed"
    BY <1>23 DEF Signal
  <2> QED  BY <1>23, <2>1 DEF Signal
<1>24. ASSUME NEW m \in Messages, PeerSends(m)
      PROVE  SlotsAreFailures'
  BY <1>24 DEF PeerSends, Send
<1>25. CASE Disconnect
  BY <1>25 DEF Disconnect, Close
<1>26. CASE Bluez \/ TimeOut
  BY <1>26 DEF Bluez, TimeOut
<1>27. CASE Terminated \/ UNCHANGED vars
  BY <1>27 DEF Terminated, vars
<1> QED
  BY <1>1, <1>2, <1>3, <1>4, <1>5, <1>6, <1>7, <1>8, <1>9, <1>10, <1>11,
     <1>12, <1>13, <1>14, <1>15, <1>16, <1>17, <1>18, <1>19, <1>20, <1>21,
     <1>22, <1>23, <1>24, <1>25, <1>26, <1>27, <1>28
  DEF Next, MainStep, ScriptStep, Environment

LEMMA ClosedStep ==
  ASSUME EndedIsClosed, [Next]_vars
  PROVE  EndedIsClosed'
<1> USE EndCloses
    DEF EndedIsClosed, Gone, Ended, InScript, mainVars, program, script, threadVars,
        dispatchVars, At, GoTo, Others, Fail
<1>1. CASE ParseArgs
  BY <1>1 DEF ParseArgs
<1>2. CASE DbusInit
  BY <1>2 DEF DbusInit, Connect
<1>3. CASE StartThread
  BY <1>3 DEF StartThread
<1>4. CASE OpenController
  BY <1>4 DEF OpenController
<1>5. CASE PowerController
  BY <1>5 DEF PowerController
<1>6. CASE ControllerPowered
  BY <1>6 DEF ControllerPowered
<1>7. CASE LoadScript
  BY <1>7 DEF LoadScript
<1>8. ASSUME NEW k \in Objects, AddObject(k)
      PROVE  EndedIsClosed'
  BY <1>8 DEF AddObject, InChunk, RegisterObjects
<1>9. CASE RegisterDevice
  BY <1>9 DEF RegisterDevice, InChunk, RegisterObjects
<1>28. CASE CreateDevice \/ RegistrationFails \/ CollectDevice
  BY <1>28 DEF CreateDevice, RegistrationFails, CollectDevice, InChunk
<1>10. ASSUME NEW s \in DeviceSettings, NEW v \in BOOLEAN, SetSetting(s, v)
      PROVE  EndedIsClosed'
  BY <1>10 DEF SetSetting, InChunk
<1>11. CASE ChunkReturns
  BY <1>11 DEF ChunkReturns, ChunkEnds
<1>12. CASE UpdateReturns
  BY <1>12 DEF UpdateReturns, ChunkEnds
<1>13. CASE InstallHandlers \/ Run
  BY <1>13 DEF InstallHandlers, Run
<1>14. CASE CheckRunning
  BY <1>14 DEF CheckRunning
<1>15. CASE Dispatch
  BY <1>15 DEF Dispatch, HandleMessage
<1>16. CASE DispatchCrashes
  BY <1>16 DEF DispatchCrashes, CrashOnMessage, Close
<1>17. CASE CallUpdate
  BY <1>17 DEF CallUpdate
<1>18. CASE ExitOnDisconnect
  BY <1>18 DEF ExitOnDisconnect
<1>19. CASE CloseLua
  BY <1>19 DEF CloseLua
<1>20. CASE CancelThread
  BY <1>20 DEF CancelThread
<1>21. CASE JoinThread
  BY <1>21 DEF JoinThread
<1>22. CASE ThreadStep
  BY <1>22 DEF ThreadStep, Serve, Served, ThreadEnds
<1>23. CASE Signal
  BY <1>23 DEF Signal
<1>24. ASSUME NEW m \in Messages, PeerSends(m)
      PROVE  EndedIsClosed'
  BY <1>24 DEF PeerSends, Send
<1>25. CASE Disconnect
  BY <1>25 DEF Disconnect, Close
<1>26. CASE Bluez \/ TimeOut
  BY <1>26 DEF Bluez, TimeOut
<1>27. CASE Terminated \/ UNCHANGED vars
  BY <1>27 DEF Terminated, vars
<1> QED
  BY <1>1, <1>2, <1>3, <1>4, <1>5, <1>6, <1>7, <1>8, <1>9, <1>10, <1>11,
     <1>12, <1>13, <1>14, <1>15, <1>16, <1>17, <1>18, <1>19, <1>20, <1>21,
     <1>22, <1>23, <1>24, <1>25, <1>26, <1>27, <1>28
  DEF Next, MainStep, ScriptStep, Environment

LEMMA DevicesStep ==
  ASSUME DevicesFollowTheScript, [Next]_vars
  PROVE  DevicesFollowTheScript'
<1> USE EndCloses
    DEF DevicesFollowTheScript, Registered, InScript, Ended, mainVars, program, script, threadVars,
        dispatchVars, At, GoTo, Others, Fail
<1>1. CASE ParseArgs
  <2>1. UNCHANGED served
    BY <1>1 DEF ParseArgs
  <2> QED  BY <1>1, <2>1 DEF ParseArgs
<1>2. CASE DbusInit
  <2>1. UNCHANGED served
    BY <1>2 DEF DbusInit, Connect
  <2> QED  BY <1>2, <2>1 DEF DbusInit
<1>3. CASE StartThread
  BY <1>3 DEF StartThread
<1>4. CASE OpenController
  BY <1>4 DEF OpenController
<1>5. CASE PowerController
  BY <1>5 DEF PowerController
<1>6. CASE ControllerPowered
  BY <1>6 DEF ControllerPowered
<1>7. CASE LoadScript
  BY <1>7 DEF LoadScript
<1>8. ASSUME NEW k \in Objects, AddObject(k)
      PROVE  DevicesFollowTheScript'
  BY <1>8, ObjectsAreGatt DEF GattKinds, AddObject, InChunk, RegisterObjects
<1>9. CASE RegisterDevice
  BY <1>9 DEF RegisterDevice, InChunk, RegisterObjects
<1>28. CASE CreateDevice \/ RegistrationFails \/ CollectDevice
  <2>1. UNCHANGED served
    BY <1>28 DEF CreateDevice, RegistrationFails, CollectDevice
  <2> QED
    BY <1>28, <2>1
    DEF CreateDevice, RegistrationFails, CollectDevice, InChunk, Registered, Unfinished
<1>10. ASSUME NEW s \in DeviceSettings, NEW v \in BOOLEAN, SetSetting(s, v)
      PROVE  DevicesFollowTheScript'
  BY <1>10 DEF SetSetting, InChunk
<1>11. CASE ChunkReturns
  <2>1. device' # "just_registered" /\ (Registered => Registered')
    BY <1>11 DEF ChunkReturns, ChunkEnds, Registered
  <2>2. UNCHANGED <<served, due>>
    BY <1>11 DEF ChunkReturns
  <2> QED  BY <2>1, <2>2
<1>12. CASE UpdateReturns
  <2>1. device' # "just_registered" /\ (Registered => Registered')
    BY <1>12 DEF UpdateReturns, ChunkEnds, Registered
  <2>2. UNCHANGED <<served, due>>
    BY <1>12 DEF UpdateReturns
  <2> QED  BY <2>1, <2>2
<1>13. CASE InstallHandlers \/ Run
  BY <1>13 DEF InstallHandlers, Run
<1>14. CASE CheckRunning
  BY <1>14 DEF CheckRunning
<1>15. CASE Dispatch
  BY <1>15 DEF Dispatch, HandleMessage
<1>16. CASE DispatchCrashes
  BY <1>16 DEF DispatchCrashes, CrashOnMessage, Close
<1>17. CASE CallUpdate
  <2>1. UNCHANGED served
    BY <1>17 DEF CallUpdate
  <2> QED  BY <1>17, <2>1 DEF CallUpdate
<1>18. CASE ExitOnDisconnect
  BY <1>18 DEF ExitOnDisconnect
<1>19. CASE CloseLua
  <2>1. UNCHANGED served
    BY <1>19 DEF CloseLua
  <2> QED  BY <1>19, <2>1 DEF CloseLua
<1>20. CASE CancelThread
  <2>1. UNCHANGED served
    BY <1>20 DEF CancelThread
  <2> QED  BY <1>20, <2>1 DEF CancelThread
<1>21. CASE JoinThread
  <2>1. UNCHANGED served
    BY <1>21 DEF JoinThread
  <2> QED  BY <1>21, <2>1 DEF JoinThread
<1>22. CASE ThreadStep
  BY <1>22 DEF ThreadStep, Serve, Served, ThreadEnds
<1>23. CASE Signal
  <2>1. UNCHANGED served
    BY <1>23 DEF Signal
  <2> QED  BY <1>23, <2>1 DEF Signal
<1>24. ASSUME NEW m \in Messages, PeerSends(m)
      PROVE  DevicesFollowTheScript'
  BY <1>24 DEF PeerSends, Send
<1>25. CASE Disconnect
  BY <1>25 DEF Disconnect, Close
<1>26. CASE Bluez \/ TimeOut
  BY <1>26 DEF Bluez, TimeOut
<1>27. CASE Terminated \/ UNCHANGED vars
  BY <1>27 DEF Terminated, vars
<1> QED
  BY <1>1, <1>2, <1>3, <1>4, <1>5, <1>6, <1>7, <1>8, <1>9, <1>10, <1>11,
     <1>12, <1>13, <1>14, <1>15, <1>16, <1>17, <1>18, <1>19, <1>20, <1>21,
     <1>22, <1>23, <1>24, <1>25, <1>26, <1>27, <1>28
  DEF Next, MainStep, ScriptStep, Environment

LEMMA AskedStep ==
  ASSUME ProgramTypeOK, StopsAreAsked, [Next]_vars
  PROVE  StopsAreAsked'
<1>0. signals \in Nat
  <2>1. signals \in 0 .. MaxSignals
    BY DEF ProgramTypeOK
  <2> QED  BY <2>1, MaxSignalsIsNatural
<1> USE DEF StopsAreAsked, StopAsked, Loop, CleanUp, InScript, mainVars, program, script,
            At, GoTo, Others, Fail
<1>1. CASE StartThread \/ OpenController
             \/ PowerController \/ ControllerPowered \/ LoadScript
  <2>1. \/ status' = 1 /\ pc' = "close_lua"
        \/ pc' \in StartUp
    BY <1>1
    DEF StartThread, OpenController, PowerController, ControllerPowered, LoadScript, StartUp
  <2> QED  BY <2>1 DEF StartUp
<1>12. CASE ParseArgs \/ DbusInit
  <2>1. pc' \in {"dbus_init", "start_thread", "exited"}
    BY <1>12, EndCloses DEF ParseArgs, DbusInit
  <2> QED  BY <2>1
<1>2. CASE CreateDevice \/ RegisterDevice \/ RegistrationFails
             \/ \E k \in Objects : AddObject(k)
  <2>1. UNCHANGED <<pc, status, running, signals>>
    BY <1>2 DEF CreateDevice, RegisterDevice, RegistrationFails, AddObject
  <2> QED  BY <2>1
<1>13. CASE CollectDevice
  <2>1. pc' = pc \/ pc' = "undefined"
    BY <1>13, EndCloses DEF CollectDevice
  <2> QED  BY <1>13, <2>1 DEF CollectDevice
<1>3. ASSUME NEW s \in DeviceSettings, NEW v \in BOOLEAN, SetSetting(s, v)
      PROVE  StopsAreAsked'
  BY <1>3 DEF SetSetting
<1>4. CASE ChunkReturns \/ UpdateReturns
  BY <1>4 DEF ChunkReturns, UpdateReturns
<1>5. CASE InstallHandlers \/ Run \/ CheckRunning
  BY <1>5 DEF InstallHandlers, Run, CheckRunning
<1>6. CASE Dispatch \/ DispatchCrashes \/ CallUpdate \/ ExitOnDisconnect
  BY <1>6, EndCloses DEF Dispatch, DispatchCrashes, CallUpdate, ExitOnDisconnect
<1>7. CASE CloseLua \/ CancelThread \/ JoinThread
  BY <1>7, EndCloses DEF CloseLua, CancelThread, JoinThread
<1>8. CASE ThreadStep
  BY <1>8 DEF ThreadStep, Serve, Served, ThreadEnds
<1>9. CASE Signal
  <2>1. signals' > 0 /\ UNCHANGED status
    BY <1>0, <1>9 DEF Signal
  <2> QED  BY <1>9, <2>1, EndCloses DEF Signal
<1>10. CASE (\E m \in Messages : PeerSends(m)) \/ Disconnect \/ Bluez \/ TimeOut
  BY <1>10 DEF PeerSends, Disconnect, Bluez, TimeOut
<1>11. CASE Terminated \/ UNCHANGED vars
  BY <1>11 DEF Terminated, vars
<1> QED
  BY <1>1, <1>2, <1>3, <1>4, <1>5, <1>6, <1>7, <1>8, <1>9, <1>10, <1>11, <1>12, <1>13
  DEF Next, MainStep, ScriptStep, Environment

LEMMA ProgramStep ==
  ASSUME ProgramInv, DispatchTypeOK, [Next]_vars
  PROVE  ProgramInv'
BY ProgramTypeStep, SlotsStep, ClosedStep, DevicesStep, AskedStep DEF ProgramInv

(* Every variable of the program has its type; the Lua stack holds no more *)
(* than its slots, because the last one ends the program first.            *)
THEOREM ProgramTypeCorrect == Spec => []TypeOK
<1> DEFINE Inv == DispatchTypeOK /\ AdapterInv /\ ProgramInv
<1>1. Init => Inv
  BY DispatchTypeInit, AdapterInvInit, ProgramInit DEF Init
<1>2. Inv /\ [Next]_vars => Inv'
  BY DispatchStep, DispatchTypeStep, AdapterStep, AdapterInvStep, ProgramStep
<1>3. Inv => TypeOK
  BY DEF AdapterInv, ProgramInv, ProgramTypeOK, TypeOK
<1> QED  BY <1>1, <1>2, <1>3, PTL DEF Spec

-----------------------------------------------------------------------------
(* How the program ends.                                                   *)

LEMMA NothingAfterTheEnd ==
  ASSUME Gone, EndedIsClosed, [Next]_vars
  PROVE  UNCHANGED vars
<1> USE DEF Gone, Ended, EndedIsClosed, At
<1>1. ~MainStep
  BY DEF MainStep, ParseArgs, DbusInit, StartThread, OpenController, PowerController,
         ControllerPowered, LoadScript, ScriptStep, CreateDevice, AddObject,
         RegisterDevice, RegistrationFails, CollectDevice, SetSetting, InChunk, InScript, ChunkReturns, UpdateReturns, InstallHandlers, Run,
         CheckRunning, Dispatch, DispatchCrashes, CallUpdate, ExitOnDisconnect,
         CloseLua, CancelThread, JoinThread, TimeOut
<1>2. ~ThreadStep
  BY DEF ThreadStep, Serve, Served, ThreadEnds
<1>3. ~Environment
  BY DEF Environment, Signal, PeerSends, Send, Disconnect, Bluez
<1> QED  BY <1>1, <1>2, <1>3 DEF Next, Terminated

LEMMA CauseStep ==
  ASSUME ProgramInv, UndefinedHasACause, [Next]_vars
  PROVE  UndefinedHasACause'
<1>1. CASE Gone
  BY <1>1, NothingAfterTheEnd
  DEF ProgramInv, UndefinedHasACause, StopAsked, NoInterface, Current, vars, mainVars,
      program, script, threadVars, dispatchVars
<1>2. CASE ~Gone
  <2> SUFFICES ASSUME pc' = "undefined"
               PROVE  UndefinedHasACause'
    BY DEF UndefinedHasACause
  <2>1. CASE DispatchCrashes
    BY <2>1
    DEF DispatchCrashes, CrashOnMessage, Pending, Close, NoInterface, Current,
        UndefinedHasACause
  <2>2. CASE CallUpdate
    <3>1. ~(lua < LuaSlots) /\ UNCHANGED failures
      BY <2>2 DEF CallUpdate, GoTo, script
    <3>2. lua = failures + 4 /\ lua \in 0 .. LuaSlots
      BY <2>2 DEF CallUpdate, At, ProgramInv, ProgramTypeOK, SlotsAreFailures, Loop
    <3>3. failures' + 4 >= LuaSlots
      BY <3>1, <3>2, SlotsForMetatables
    <3> QED  BY <3>3 DEF UndefinedHasACause
  <2>3. CASE CloseLua \/ CancelThread
    <3>1. StopAsked'
      BY <2>3
      DEF CloseLua, CancelThread, At, CleanUp, ProgramInv, StopsAreAsked, StopAsked, program
    <3>2. \/ serving' \/ device' \in Unfinished
          \/ thread' = "none"
      BY <2>3 DEF CloseLua, CancelThread, GoTo, threadVars
    <3> QED  BY <3>1, <3>2 DEF UndefinedHasACause
  <2>5. CASE CollectDevice
    BY <2>5, <1>2 DEF CollectDevice, Gone, Ended, UndefinedHasACause
  <2>4. CASE ~(DispatchCrashes \/ CallUpdate \/ CloseLua \/ CancelThread \/ CollectDevice)
    <3>1. pc # "undefined"
      BY <1>2 DEF Gone, Ended
    <3>2. ~(UNCHANGED pc)
      BY <3>1
    <3>3. ~ScriptStep
      BY <2>4, <3>2
      DEF ScriptStep, CreateDevice, AddObject, RegisterDevice, RegistrationFails,
          SetSetting, ChunkReturns, UpdateReturns, Others,
          GoTo, Fail, mainVars
    <3>4. ~(ThreadStep \/ Environment \/ TimeOut)
      BY <3>2
      DEF ThreadStep, Serve, Served, ThreadEnds, Environment, Signal, End, PeerSends,
          Disconnect, Bluez, TimeOut, mainVars
    <3>5. ~(MainStep)
      BY <2>4, <3>2, <3>3, <3>4
      DEF MainStep, ParseArgs, DbusInit, StartThread, OpenController, PowerController,
          ControllerPowered, LoadScript, InstallHandlers, Run, CheckRunning, Dispatch,
          ExitOnDisconnect, JoinThread, GoTo, Fail, End, mainVars
    <3> QED  BY <3>2, <3>4, <3>5 DEF Next, Terminated, vars, mainVars
  <2> QED  BY <2>1, <2>2, <2>3, <2>4, <2>5
<1> QED  BY <1>1, <1>2

(* However the program got there, an undefined end is a call without an    *)
(* interface, a stack that as many Updates failed to fill as it has slots, *)
(* an unregistered device, or, only after it was told to stop, the thread. *)
THEOREM UndefinedIsExplained == Spec => []UndefinedHasACause
<1> DEFINE Inv == DispatchTypeOK /\ ProgramInv /\ UndefinedHasACause
<1>1. Init => Inv
  BY DispatchTypeInit, ProgramInit DEF Init, UndefinedHasACause
<1>2. Inv /\ [Next]_vars => Inv'
  BY DispatchStep, DispatchTypeStep, ProgramStep, CauseStep
<1> QED  BY <1>1, <1>2, PTL DEF Spec

-----------------------------------------------------------------------------
(* What BlueZ learns of the device.                                        *)

(* An answer to GetManagedObjects names all the objects there are, and     *)
(* there is a device to give it.                                           *)
LEMMA ManagedObjectsAreServed ==
  ASSUME NEW m \in Messages, NEW a, SentBack(m) = <<a>>,
         a.from = "simulator", m.member = "GetManagedObjects"
  PROVE  "device" \in served /\ a.body = served \cap GattKinds
<1>1. a = Dispatched(m).reply /\ a # NULL
  <2>1. CASE Dispatched(m).reply = NULL \/ m.memory = "no_queue"
    <3> DEFINE fallback == [from |-> "libdbus", body |-> {}]
    <3>1. SentBack(m) = <<>> \/ SentBack(m) = Append(<<>>, fallback)
      BY <2>1 DEF SentBack
    <3>2. Append(<<>>, fallback) = <<fallback>>
      OBVIOUS
    <3> QED  BY <3>1, <3>2
  <2>2. CASE Dispatched(m).reply # NULL /\ m.memory # "no_queue"
    <3>1. SentBack(m) = <<Dispatched(m).reply>>
      BY <2>2, DispatchedIsResult DEF SentBack
    <3> QED  BY <2>2, <3>1
  <2> QED  BY <2>1, <2>2
<1>2. Dispatched(m) # NotYetHandled
  BY <1>1 DEF NotYetHandled
<1>3. m.path \in served /\ Dispatched(m) = HandleMethodCall(m)
  BY <1>2 DEF Dispatched, ObjectHandleMessage, HandlePropertiesInterface
<1>4. <<m.interface, m.member>> \in Methods[m.path] /\ a = MethodReply(m)[m.member]
  BY <1>1, <1>2, <1>3 DEF HandleMethodCall, Handled
<1>5. m.path = "device"
  BY <1>4, MessagesAreWellFormed
  DEF Methods, CharacteristicMethods, AdvertisementMethods, Kinds, Properties
<1>6. a = Return(m, served \cap GattKinds)
  BY <1>4 DEF MethodReply, GetManagedObjects
<1> QED  BY <1>1, <1>3, <1>5, <1>6 DEF Return

(* What must be known of an answer can only be told once the chunk that    *)
(* registered the device is over.                                          *)
DeviceWasRegistered ==
  \A w \in DOMAIN wire :
    /\ wire[w].from = "simulator"
    /\ sent[wire[w].to].member = "GetManagedObjects"
    => device = "registered"

LEMMA DueIsFixed ==
  ASSUME device = "registered", [Next]_vars
  PROVE  UNCHANGED <<device, due>>
BY DEF Next, MainStep, ParseArgs, DbusInit, StartThread, OpenController, PowerController,
       ControllerPowered, LoadScript, ScriptStep, CreateDevice, AddObject, RegisterDevice,
       RegistrationFails, CollectDevice, Unfinished, SetSetting,
       ChunkReturns, UpdateReturns, ChunkEnds, InstallHandlers, Run, CheckRunning,
       Dispatch, DispatchCrashes, CallUpdate, ExitOnDisconnect, CloseLua, CancelThread,
       JoinThread, TimeOut, ThreadStep, Serve, Served, ThreadEnds, Environment, Signal,
       PeerSends, Disconnect, Bluez, Terminated, vars, mainVars, script

LEMMA OnlyDispatchAnswers ==
  ASSUME [Next]_vars
  PROVE  Dispatch \/ UNCHANGED wire
<1> USE DEF dispatchVars, Others
<1>1. ASSUME NEW p, End(p)
      PROVE  UNCHANGED wire
  BY <1>1 DEF End, Close
<1>2. CASE ParseArgs \/ DbusInit \/ CallUpdate \/ CloseLua \/ CancelThread \/ JoinThread
             \/ Signal \/ CollectDevice
  BY <1>1, <1>2
  DEF CollectDevice, ParseArgs, DbusInit, Connect, CallUpdate, CloseLua, CancelThread, JoinThread, Signal
<1>3. CASE StartThread \/ OpenController \/ PowerController \/ ControllerPowered
             \/ LoadScript \/ ScriptStep
  BY <1>2, <1>3
  DEF StartThread, OpenController, PowerController, ControllerPowered, LoadScript,
      ScriptStep, CreateDevice, AddObject, RegisterDevice, RegistrationFails,
      RegisterObjects, SetSetting,
      ChunkReturns, UpdateReturns
<1>4. CASE InstallHandlers \/ Run \/ CheckRunning \/ DispatchCrashes \/ ExitOnDisconnect
             \/ TimeOut \/ ThreadStep
  BY <1>4
  DEF InstallHandlers, Run, CheckRunning, DispatchCrashes, CrashOnMessage, Close,
      ExitOnDisconnect, TimeOut, ThreadStep, Serve, Served, ThreadEnds
<1>5. CASE (\E m \in Messages : PeerSends(m)) \/ Disconnect \/ Bluez
             \/ Terminated \/ UNCHANGED vars
  BY <1>5 DEF PeerSends, Send, Disconnect, Close, Bluez, Terminated, vars
<1> QED  BY <1>2, <1>3, <1>4, <1>5 DEF Next, MainStep, Environment

LEMMA CoverStep ==
  ASSUME DispatchTypeOK, AnswersInOrder, ProgramInv,
         DeviceWasRegistered, ManagedObjectsCoverTheChunk, [Next]_vars
  PROVE  (DeviceWasRegistered /\ ManagedObjectsCoverTheChunk)'
<1>1. /\ sent \in Seq(Messages) /\ taken \in 0 .. Len(sent) /\ wire \in Seq(Answer)
      /\ DispatchTypeOK'
  BY DispatchStep, DispatchTypeStep DEF DispatchTypeOK, Answer
<1>2. \A i \in 1 .. taken : sent'[i] = sent[i]
  <2>1. ASSUME NEW m \in Messages, Send(m)
        PROVE  \A i \in 1 .. taken : sent'[i] = sent[i]
    BY <1>1, <2>1 DEF Send
  <2> QED
    BY <2>1, DispatchStep
    DEF DispatchNext, Connect, RegisterObjects, HandleMessage, CrashOnMessage, Close,
        dispatchVars
(* The answers there were.                                                 *)
<1>3. ASSUME NEW w \in DOMAIN wire, wire[w].from = "simulator",
             sent'[wire[w].to].member = "GetManagedObjects"
      PROVE  device' = "registered" /\ due' \subseteq wire[w].body
  <2>1. sent[wire[w].to].member = "GetManagedObjects"
    BY <1>2, <1>3 DEF AnswersInOrder
  <2>2. device = "registered" /\ due \subseteq wire[w].body
    BY <1>3, <2>1 DEF DeviceWasRegistered, ManagedObjectsCoverTheChunk
  <2> QED  BY <2>2, DueIsFixed
<1>4. CASE UNCHANGED wire
  BY <1>3, <1>4 DEF DeviceWasRegistered, ManagedObjectsCoverTheChunk
<1>5. CASE Dispatch
  <2>1. HandleMessage /\ At("dispatch") /\ UNCHANGED <<device, due>>
    BY <1>5 DEF Dispatch, mainVars, script
  <2>2. CASE wire' = wire
    BY <1>4, <2>2
  <2>3. ASSUME NEW a \in Answer, a.to = taken + 1, wire' = Append(wire, a),
               SentBack(Current) = <<[from |-> a.from, body |-> a.body]>>
        PROVE  (DeviceWasRegistered /\ ManagedObjectsCoverTheChunk)'
    <3>1. /\ \A w \in DOMAIN wire' : w \in DOMAIN wire \/ w = Len(wire) + 1
          /\ \A w \in DOMAIN wire : wire'[w] = wire[w]
          /\ wire'[Len(wire) + 1] = a
      BY <1>1, <2>3
    <3>2. sent'[a.to] = Current /\ Current \in Messages
      BY <2>1, <2>3, HandleMessageAnswersOnce DEF HandleMessage, Current
    <3>3. ASSUME a.from = "simulator", Current.member = "GetManagedObjects"
          PROVE  device = "registered" /\ due \subseteq a.body
      <4>1. "device" \in served /\ a.body = served \cap GattKinds
        BY <2>3, <3>2, <3>3, ManagedObjectsAreServed
      <4>2. device # "just_registered" /\ Registered
        BY <2>1, <4>1 DEF At, ProgramInv, DevicesFollowTheScript, InScript, Ended
      <4>3. device = "registered" /\ due \subseteq GattKinds /\ due \subseteq served
        BY <4>2, ObjectsAreGatt
        DEF ProgramInv, ProgramTypeOK, DevicesFollowTheScript, Registered
      <4> QED  BY <4>1, <4>3
    <3> QED
      BY <1>3, <2>1, <3>1, <3>2, <3>3
      DEF DeviceWasRegistered, ManagedObjectsCoverTheChunk
  <2> QED  BY <2>1, <2>2, <2>3, HandleMessageAnswersOnce
<1> QED  BY <1>4, <1>5, OnlyDispatchAnswers

(* BlueZ reads the whole tree that the registering chunk built: no answer  *)
(* is given before the chunk is over, and none leaves one of it out.       *)
THEOREM TheChunkIsCovered == Spec => []ManagedObjectsCoverTheChunk
<1> DEFINE Inv == /\ DispatchTypeOK /\ AnswersInOrder /\ ProgramInv
                  /\ DeviceWasRegistered /\ ManagedObjectsCoverTheChunk
<1>1. Init => Inv
  BY DispatchTypeInit, ProgramInit
  DEF Init, DispatchInit, DeviceWasRegistered, ManagedObjectsCoverTheChunk
<1>2. Inv /\ [Next]_vars => Inv'
  BY DispatchStep, DispatchTypeStep, OrderStep, ProgramStep, CoverStep
<1> QED  BY <1>1, <1>2, PTL DEF Spec

-----------------------------------------------------------------------------
(* Stopping.                                                               *)

(* How far the main thread is from its end once the program was told to    *)
(* stop, by a signal or by the loss of the bus: what is left of the tick,  *)
(* then the steps of clean-up.                                             *)
Stopping ==
  \/ pc \in CleanUp \cup Ended
  \/ pc \in Loop /\ (~running \/ link = "closed")

Distance ==
  CASE pc \in Ended -> 0
    [] pc = "join_thread" -> 1
    [] pc = "cancel_thread" -> 2
    [] pc = "close_lua" -> 3
    [] pc = "check" /\ ~running -> 4
    [] pc = "update" /\ ~running -> 5
    [] pc = "dispatch" /\ ~running -> 6
    [] pc = "dispatch" /\ running -> 7
    [] pc = "check" /\ running -> 8
    [] pc = "update" /\ running -> 9

(* A stop is never taken back, and from then on the main thread only moves *)
(* towards its end: it may finish its tick, it never begins another one,   *)
(* whatever signals, peers, BlueZ and the controller thread do meanwhile.  *)
StopIsFinal == [][ Stopping => Stopping' /\ Distance' <= Distance ]_vars

(* Every step of a stopping program leads on; those of the start-up are    *)
(* behind it.                                                              *)
LEMMA StopStep ==
  ASSUME [Next]_vars, Stopping
  PROVE  Stopping' /\ Distance' <= Distance
<1> USE DEF At, GoTo, Fail
<1>0. pc \in Loop \cup CleanUp \cup Ended /\ (pc \in Loop => ~running \/ link = "closed")
  BY DEF Stopping, Loop, CleanUp, Ended
<1>1. ASSUME pc' = pc, running' = running \/ (pc \in Loop => ~running'),
             pc \in Loop /\ link = "closed" => link' = "closed"
      PROVE  Stopping' /\ Distance' <= Distance
  BY <1>0, <1>1 DEF Stopping, Distance, Loop, CleanUp, Ended
<1>2. CASE \/ ParseArgs \/ DbusInit \/ StartThread \/ OpenController
           \/ PowerController \/ ControllerPowered \/ LoadScript
           \/ ChunkReturns \/ InstallHandlers \/ Run
  BY <1>0, <1>2 DEF ParseArgs, DbusInit, StartThread, OpenController, PowerController,
     ControllerPowered, LoadScript, ChunkReturns, InstallHandlers, Run, Loop, CleanUp, Ended
<1>3. ASSUME NEW k \in Objects, AddObject(k) PROVE Stopping' /\ Distance' <= Distance
  BY <1>1, <1>3 DEF AddObject, RegisterObjects, program
<1>4. CASE CreateDevice \/ RegisterDevice \/ RegistrationFails
  BY <1>1, <1>4
  DEF CreateDevice, RegisterDevice, RegistrationFails, RegisterObjects, program,
      Others, dispatchVars
<1>18. CASE CollectDevice
  BY <1>0, <1>1, <1>18
  DEF CollectDevice, End, program, dispatchVars, Stopping, Distance, Loop, CleanUp, Ended
<1>5. ASSUME NEW s \in DeviceSettings, NEW v \in BOOLEAN, SetSetting(s, v)
      PROVE  Stopping' /\ Distance' <= Distance
  BY <1>1, <1>5 DEF SetSetting, mainVars, program, dispatchVars
<1>6. CASE UpdateReturns
  BY <1>0, <1>6 DEF UpdateReturns, program, Others, dispatchVars, Stopping, Distance, Loop, CleanUp, Ended
<1>7. CASE CheckRunning
  BY <1>0, <1>7 DEF CheckRunning, Others, dispatchVars, Stopping, Distance, Loop, CleanUp, Ended
<1>8. CASE Dispatch
  BY <1>1, <1>8 DEF Dispatch, HandleMessage, mainVars, program
<1>9. CASE DispatchCrashes \/ ExitOnDisconnect
  BY <1>0, <1>9 DEF DispatchCrashes, ExitOnDisconnect, Stopping, Distance, Loop, CleanUp, Ended
<1>10. CASE CallUpdate
  BY <1>0, <1>10 DEF CallUpdate, End, program, Stopping, Distance, Loop, CleanUp, Ended
<1>11. CASE CloseLua \/ CancelThread \/ JoinThread
  BY <1>0, <1>11 DEF CloseLua, CancelThread, JoinThread, End, Stopping, Distance, Loop, CleanUp, Ended
<1>12. CASE ThreadStep
  BY <1>1, <1>12 DEF ThreadStep, Serve, Served, ThreadEnds, mainVars, program, dispatchVars
<1>13. CASE Signal
  <2>1. CASE HandlersInstalled
    BY <1>1, <1>13, <2>1 DEF Signal, dispatchVars
  <2>2. CASE ~HandlersInstalled
    BY <1>0, <1>13, <2>2 DEF Signal, End, Stopping, Distance, Loop, CleanUp, Ended
  <2> QED
    BY <2>1, <2>2
<1>14. ASSUME NEW m \in Messages, PeerSends(m) PROVE Stopping' /\ Distance' <= Distance
  BY <1>1, <1>14 DEF PeerSends, Send, mainVars, program
<1>15. CASE Disconnect
  BY <1>1, <1>15 DEF Disconnect, Close, mainVars, program
<1>16. CASE Bluez \/ TimeOut
  BY <1>1, <1>16 DEF Bluez, TimeOut, mainVars, program, dispatchVars
<1>17. CASE Terminated \/ UNCHANGED vars
  BY <1>1, <1>17 DEF Terminated, vars, mainVars, program, dispatchVars
<1> QED
  BY <1>2, <1>3, <1>4, <1>5, <1>6, <1>7, <1>8, <1>9, <1>10, <1>11, <1>12, <1>13, <1>14,
     <1>15, <1>16, <1>17, <1>18
  DEF Next, MainStep, ScriptStep, Environment

(* A signal or the loss of the bus is never forgotten.                     *)
THEOREM StopsAreFinal == Spec => StopIsFinal
<1>1. [Next]_vars => [Stopping => Stopping' /\ Distance' <= Distance]_vars
  BY StopStep
<1> QED
  BY <1>1, PTL DEF Spec, StopIsFinal

(* pthread_join only waits for a thread that was told to end.              *)
JoinedIsCancelled == pc = "join_thread" => thread \in {"cancelled", "ended"}

(* The thread is cancelled on the way to the join, and is never restarted. *)
LEMMA JoinStep == JoinedIsCancelled /\ [Next]_vars => JoinedIsCancelled'
<1> SUFFICES ASSUME JoinedIsCancelled, [Next]_vars PROVE JoinedIsCancelled'
  OBVIOUS
<1> USE DEF JoinedIsCancelled, At, GoTo, Fail
<1>1. ASSUME pc' # "join_thread" PROVE JoinedIsCancelled'
  BY <1>1
<1>2. ASSUME pc' = pc, thread' = thread \/ pc # "join_thread" PROVE JoinedIsCancelled'
  BY <1>2
<1>3. CASE \/ ParseArgs \/ DbusInit \/ StartThread \/ OpenController
           \/ PowerController \/ ControllerPowered \/ LoadScript
           \/ ChunkReturns \/ UpdateReturns \/ InstallHandlers \/ Run \/ CheckRunning
           \/ DispatchCrashes \/ CallUpdate \/ ExitOnDisconnect \/ CloseLua \/ JoinThread
           \/ (CollectDevice /\ pc' # pc)
  BY <1>3 DEF ParseArgs, DbusInit, StartThread, OpenController, PowerController,
     ControllerPowered, LoadScript, ChunkReturns, UpdateReturns, InstallHandlers, Run, CheckRunning,
     DispatchCrashes, CallUpdate, ExitOnDisconnect, CloseLua, JoinThread, CollectDevice, End
<1>4. CASE CancelThread
  BY <1>4 DEF CancelThread, End
<1>5. CASE \/ \E k \in Objects : AddObject(k)
           \/ CreateDevice \/ RegisterDevice \/ RegistrationFails
           \/ (CollectDevice /\ pc' = pc)
           \/ \E s \in DeviceSettings, v \in BOOLEAN : SetSetting(s, v)
           \/ Dispatch \/ Serve \/ Served
           \/ \E m \in Messages : PeerSends(m)
           \/ Disconnect \/ Bluez \/ TimeOut \/ Terminated \/ UNCHANGED vars
  BY <1>5 DEF CreateDevice, AddObject, RegisterDevice, RegistrationFails, CollectDevice, Others,
     SetSetting, Dispatch, Serve, Served, PeerSends, Disconnect,
     Bluez, TimeOut, Terminated, vars, mainVars, threadVars
<1>6. CASE ThreadEnds
  BY <1>6 DEF ThreadEnds
<1>7. CASE Signal
  BY <1>7 DEF Signal, End, threadVars
<1> QED
  BY <1>3, <1>4, <1>5, <1>6, <1>7 DEF Next, MainStep, ScriptStep, ThreadStep, Environment

(* Clean-up waits for the controller thread only after telling it to end.  *)
THEOREM JoinsAreOfTheCancelled == Spec => []JoinedIsCancelled
<1>1. Init => JoinedIsCancelled
  BY DEF Init, JoinedIsCancelled
<1> QED
  BY <1>1, JoinStep, PTL DEF Spec

-----------------------------------------------------------------------------
(* The parts of the program.                                               *)

(* The program takes no step that its two parts do not take: what is       *)
(* proved of dispatch and of the adapter properties alone holds of it.     *)
THEOREM ProgramRunsItsParts ==
  Spec => /\ DispatchInit /\ [][DispatchNext]_dispatchVars
          /\ AdapterInit /\ [][AdapterNext]_adapterVars
<1>1. Init => DispatchInit /\ AdapterInit
  BY DEF Init
<1>2. [Next]_vars => [DispatchNext]_dispatchVars /\ [AdapterNext]_adapterVars
  BY DispatchStep, AdapterStep
<1> QED
  BY <1>1, <1>2, PTL DEF Spec
=============================================================================
