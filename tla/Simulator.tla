------------------------------ MODULE Simulator ------------------------------
(***************************************************************************)
(* The program from start to end (main.c): the main thread starts up,      *)
(* loads the script, loops over dispatch and Update until a signal stops   *)
(* it, and cleans up; a second thread serves the virtual controllers; the  *)
(* bus, BlueZ, the peers and whoever sends signals do what they like.      *)
(*                                                                         *)
(* DbusDispatch says what a dispatched message does, AdapterProperties     *)
(* what a blocking Set does; this module says when the main thread does    *)
(* either.  The script is a sequence of its calls into the program: a      *)
(* chunk, and then an Update on every tick.                                *)
(***************************************************************************)
EXTENDS DbusDispatch, AdapterProperties

CONSTANTS
  Objects,       \* kinds of object the script may add
  LuaSlots,      \* slots of the Lua stack a C caller may use
  MaxSignals     \* bound on SIGINT, SIGQUIT and SIGTERM

ASSUME ObjectsAreGatt == Objects \subseteq GattKinds
ASSUME SlotsForMetatables == LuaSlots \in Nat /\ LuaSlots >= 5
ASSUME MaxSignalsIsNatural == MaxSignals \in Nat

VARIABLES
  pc,            \* where the main thread is
  status,        \* the exit status it will leave with
  running,       \* dbusutils_mainloop_running
  signals,       \* how many signals there were
  thread,        \* controller_mainloop_thread
  serving,       \* it works on the controller of the device right now
  lua,           \* slots in use on the Lua stack; 0: no Lua state
  failures,      \* how many Updates failed
  arrived,       \* messages read when the tick began
  device,        \* how far the script got with its device
  due            \* objects added before the chunk that registered it ended

program == <<status, running, signals, arrived>>
script == <<lua, failures, device, due>>
mainVars == <<pc, program, script>>
threadVars == <<thread, serving>>

vars == <<mainVars, threadVars, dispatchVars, adapterVars>>

(* DEFAULT_ADAPTER_PATH is taken to be the default controller's.           *)
DefaultPowered == "hci0_Powered"

ASSUME DefaultIsSetting == DefaultPowered \in Settings

DeviceSettings == Settings \ {DefaultPowered}

Init ==
  /\ DispatchInit
  /\ AdapterInit
  /\ pc = "parse_args"
  /\ status = 0
  /\ running = FALSE
  /\ signals = 0
  /\ thread = "none"
  /\ serving = FALSE
  /\ lua = 0
  /\ failures = 0
  /\ arrived = 0
  /\ device = "absent"
  /\ due = {}

StartUp == {"parse_args", "dbus_init", "start_thread", "open_controller",
            "power_controller", "controller_powered", "load_script",
            "chunk", "install_handlers", "run"}
InScript == {"chunk", "update"}
Loop == {"check", "dispatch", "update"}
CleanUp == {"close_lua", "cancel_thread", "join_thread"}
Ended == {"exited", "killed", "disconnected", "undefined"}

Gone == pc \in Ended

(* Of the device: device_init ran, and no registration succeeded; then it  *)
(* may have a controller or not, and device_fini is not safe on it.        *)
Unfinished == {"created", "opened"}
Registered == device \in {"just_registered", "registered"}

-----------------------------------------------------------------------------
(* The parts of a step of the main thread.                                 *)

(* A blocking Set is all it does while it waits.                           *)
At(p) == pc = p /\ ~blocked

GoTo(p) == pc' = p

Others == UNCHANGED <<threadVars, dispatchVars, adapterVars>>

(* The process ends, and its connection with it.                           *)
End(p) ==
  /\ pc' = p
  /\ IF link = "closed" THEN UNCHANGED dispatchVars ELSE Close

(* exit_simulator                                                          *)
Fail == status' = 1 /\ GoTo("close_lua")

-----------------------------------------------------------------------------
(* Start-up.                                                               *)

(* Without arguments, with --help or with wrong ones there is nothing to   *)
(* do; nothing needs to be cleaned up.                                     *)
ParseArgs ==
  /\ At("parse_args")
  /\ \/ GoTo("dbus_init") /\ UNCHANGED <<status, dispatchVars>>
     \/ status' = 1 /\ End("exited")
  /\ UNCHANGED <<running, signals, arrived, script, threadVars, adapterVars>>

DbusInit ==
  /\ At("dbus_init")
  /\ \/ Connect /\ GoTo("start_thread") /\ UNCHANGED status
     \/ status' = 1 /\ End("exited")
  /\ UNCHANGED <<running, signals, arrived, script, threadVars, adapterVars>>

(* The result of pthread_create is not looked at.                          *)
StartThread ==
  /\ At("start_thread")
  /\ thread' \in {"running", "none"}
  /\ GoTo("open_controller")
  /\ UNCHANGED <<program, script, serving, dispatchVars, adapterVars>>

OpenController ==
  /\ At("open_controller")
  /\ \/ GoTo("power_controller") /\ UNCHANGED status
     \/ Fail
  /\ UNCHANGED <<running, signals, arrived, script>> /\ Others

(* power_default_controller                                                *)
PowerController ==
  /\ At("power_controller")
  /\ GoTo("controller_powered")
  /\ (link = "open" /\ SetProperty(DefaultPowered, TRUE)) \/ SetNotSent
  /\ UNCHANGED <<program, script, threadVars, dispatchVars>>

ControllerPowered ==
  /\ At("controller_powered")
  /\ IF result # NoReply THEN GoTo("load_script") /\ UNCHANGED status ELSE Fail
  /\ UNCHANGED <<running, signals, arrived, script>> /\ Others

(* Without --script there is no Lua state.  luai_setup_object_metatables   *)
(* leaves the four metatables on the stack; a script that does not compile *)
(* leaves its message there too.                                           *)
LoadScript ==
  /\ At("load_script")
  /\ \/ Fail /\ UNCHANGED lua
     \/ Fail /\ lua' = 5
     \/ GoTo("chunk") /\ lua' = 4 /\ UNCHANGED status
  /\ UNCHANGED <<running, signals, failures, arrived, device, due>> /\ Others

-----------------------------------------------------------------------------
(* The script's calls, from its chunk or from Update.                      *)

InChunk == pc \in InScript /\ ~blocked

(* Device.new                                                              *)
CreateDevice ==
  /\ InChunk
  /\ device = "absent"
  /\ device' = "created"
  /\ UNCHANGED <<pc, program, lua, failures, due>> /\ Others

(* addService, addCharacteristic, addDescriptor                            *)
AddObject(k) ==
  /\ InChunk
  /\ Registered \/ device \in Unfinished
  /\ k \notin served
  /\ RegisterObjects({k})
  /\ due' = IF device = "registered" THEN due ELSE due \cup {k}
  /\ UNCHANGED <<pc, program, lua, failures, device, threadVars, adapterVars>>

(* registerDevice.  Each attempt replaces the controller of an earlier one *)
(* by its own, without closing it.                                         *)
RegisterDevice ==
  /\ InChunk
  /\ device \in Unfinished
  /\ device' = "just_registered"
  /\ serving' = FALSE
  /\ RegisterObjects({"device", "advertisement"})
  /\ UNCHANGED <<pc, program, lua, failures, due, thread, adapterVars>>

(* There is no controller, or no place on the bus for the device.  What    *)
(* fails after that is in DeviceRegistration.                              *)
RegistrationFails ==
  /\ InChunk
  /\ device \in Unfinished
  /\ device' \in Unfinished
  /\ serving' = FALSE
  /\ UNCHANGED <<pc, program, lua, failures, due, thread, dispatchVars, adapterVars>>

(* The script forgets a device that it did not register (it keeps one that *)
(* it did: GattTree!Anchored).  device_fini frees an advertisement nobody  *)
(* initialised, and closes the controller under the thread.                *)
CollectDevice ==
  /\ InChunk
  /\ device \in Unfinished
  /\ \/ device' = "collected" /\ serving' = FALSE /\ UNCHANGED <<pc, dispatchVars>>
     \/ End("undefined") /\ UNCHANGED <<device, serving>>
  /\ UNCHANGED <<program, lua, failures, due, thread, adapterVars>>

(* powered, discoverable: refused for a device that is not initialised     *)
SetSetting(s, v) ==
  /\ InChunk
  /\ Registered
  /\ (link = "open" /\ SetProperty(s, v)) \/ SetNotSent
  /\ UNCHANGED <<mainVars, threadVars, dispatchVars>>

ChunkEnds ==
  device' = IF device = "just_registered" THEN "registered" ELSE device

(* init_lua_state: lua_pcall leaves an error message on the stack.         *)
ChunkReturns ==
  /\ At("chunk")
  /\ ChunkEnds
  /\ \/ GoTo("install_handlers") /\ UNCHANGED <<status, lua>>
     \/ Fail /\ lua' = lua + 1
  /\ UNCHANGED <<running, signals, failures, arrived, due>> /\ Others

(* Mutant: a function result is left on the stack as well.                 *)
UpdateReturns_LeavesResult ==
  /\ At("update")
  /\ ChunkEnds
  /\ GoTo("check")
  /\ lua' = lua + 1
  /\ UNCHANGED failures \/ failures' = failures + 1
  /\ UNCHANGED <<program, due>> /\ Others

(* Mutant: an error handler leaves a traceback beside the message.         *)
UpdateReturns_LeavesTraceback ==
  /\ At("update")
  /\ ChunkEnds
  /\ GoTo("check")
  /\ \/ UNCHANGED <<lua, failures>>
     \/ lua' = lua + 2 /\ failures' = failures + 1
  /\ UNCHANGED <<program, due>> /\ Others

(* luai_call_function: Update may be missing or fail; the message is       *)
(* logged and stays on the stack, and the loop goes on.                    *)
UpdateReturns ==
  /\ At("update")
  /\ ChunkEnds
  /\ GoTo("check")
  /\ \/ UNCHANGED <<lua, failures>>
     \/ lua' = lua + 1 /\ failures' = failures + 1
  /\ UNCHANGED <<program, due>> /\ Others

-----------------------------------------------------------------------------
(* The main loop.                                                          *)

InstallHandlers ==
  /\ At("install_handlers")
  /\ GoTo("run")
  /\ UNCHANGED <<program, script>>
  /\ Others

(* dbusutils_mainloop_run begins.                                          *)
Run ==
  /\ At("run")
  /\ running' = TRUE
  /\ GoTo("check")
  /\ UNCHANGED <<status, signals, arrived, script>> /\ Others

(* A tick begins with one read, which takes what fits of what has arrived: *)
(* a message at least, if there is one.                                    *)
ReadSome ==
  \E n \in taken .. Len(sent) :
    /\ taken < Len(sent) => n > taken
    /\ arrived' = n

CheckRunning ==
  /\ At("check")
  /\ IF running THEN GoTo("dispatch") /\ ReadSome
                ELSE GoTo("close_lua") /\ UNCHANGED arrived
  /\ UNCHANGED <<status, running, signals, script>>
  /\ Others

(* Mutant: messages are dispatched while a Set waits for its answer.       *)
Dispatch_AlsoBlocked ==
  /\ pc = "dispatch" \/ blocked
  /\ link = "open"
  /\ HandleMessage
  /\ UNCHANGED <<mainVars, threadVars, adapterVars>>

(* dispatch handles one message after another ...                          *)
Dispatch ==
  /\ At("dispatch")
  /\ HandleMessage
  /\ UNCHANGED <<mainVars, threadVars, adapterVars>>

DispatchCrashes ==
  /\ At("dispatch")
  /\ CrashOnMessage
  /\ GoTo("undefined")
  /\ UNCHANGED <<program, script, threadVars, adapterVars>>

(* ... at least those that the tick began with: flushing a reply may read  *)
(* more.  Then Update is called: one more slot of the stack, which the     *)
(* caller has to see to.                                                   *)
CallUpdate ==
  /\ At("dispatch")
  /\ link = "open" /\ taken >= arrived
  /\ IF lua < LuaSlots THEN GoTo("update") /\ UNCHANGED dispatchVars
                       ELSE End("undefined")
  /\ UNCHANGED <<program, script, threadVars, adapterVars>>

(* Mutant: libdbus is told not to.                                         *)
ExitOnDisconnect_Off ==
  /\ At("dispatch")
  /\ link = "closed"
  /\ GoTo("check")
  /\ UNCHANGED <<program, script>>
  /\ Others

(* libdbus ends the process when it dispatches the end of the connection.  *)
ExitOnDisconnect ==
  /\ At("dispatch")
  /\ link = "closed"
  /\ GoTo("disconnected")
  /\ UNCHANGED <<program, script>>
  /\ Others

-----------------------------------------------------------------------------
(* cleanup_simulator.                                                      *)

(* lua_close finalises the device, whose controller is closed and freed    *)
(* under the thread that may be serving it, and whose advertisement nobody *)
(* initialised if it was not registered.                                   *)
CloseLua ==
  /\ At("close_lua")
  /\ lua' = 0
  /\ \/ GoTo("cancel_thread") /\ UNCHANGED dispatchVars
     \/ (serving \/ device \in Unfinished) /\ End("undefined")
  /\ UNCHANGED <<program, failures, device, due, threadVars, adapterVars>>

(* Mutant: the thread is waited for before it is told to end.              *)
CancelThread_Later ==
  /\ At("cancel_thread")
  /\ GoTo("join_thread")
  /\ UNCHANGED <<program, script, threadVars, dispatchVars, adapterVars>>

(* There may be no thread to cancel.                                       *)
CancelThread ==
  /\ At("cancel_thread")
  /\ IF thread = "none"
     THEN End("undefined") /\ UNCHANGED thread
     ELSE GoTo("join_thread") /\ thread' = "cancelled" /\ UNCHANGED dispatchVars
  /\ UNCHANGED <<program, script, serving, adapterVars>>

JoinThread ==
  /\ At("join_thread")
  /\ thread = "ended"
  /\ End("exited")
  /\ UNCHANGED <<program, script, threadVars, adapterVars>>

-----------------------------------------------------------------------------
(* The controller thread, in mainloop_run.                                 *)

DeviceControllerOpen == (Registered \/ device = "opened") /\ lua > 0

Serve ==
  /\ ~Gone
  /\ thread = "running" /\ ~serving /\ DeviceControllerOpen
  /\ serving' = TRUE
  /\ UNCHANGED <<mainVars, thread, dispatchVars, adapterVars>>

Served ==
  /\ ~Gone
  /\ thread = "running" /\ serving
  /\ serving' = FALSE
  /\ UNCHANGED <<mainVars, thread, dispatchVars, adapterVars>>

(* The wait for events is a cancellation point.                            *)
ThreadEnds ==
  /\ ~Gone
  /\ thread = "cancelled"
  /\ thread' = "ended"
  /\ serving' = FALSE
  /\ UNCHANGED <<mainVars, dispatchVars, adapterVars>>

-----------------------------------------------------------------------------
(* The rest of the world.                                                  *)

HandlersInstalled ==
  pc \in Loop \cup {"run"} \/ (pc \in CleanUp /\ status = 0)

(* stop_simulator, or before it is installed the default action.           *)
Signal ==
  /\ ~Gone
  /\ signals < MaxSignals
  /\ signals' = signals + 1
  /\ IF HandlersInstalled
     THEN running' = FALSE /\ UNCHANGED <<pc, dispatchVars>>
     ELSE End("killed") /\ UNCHANGED running
  /\ UNCHANGED <<status, arrived, script, threadVars, adapterVars>>

PeerSends(m) ==
  /\ Send(m)
  /\ UNCHANGED <<mainVars, threadVars, adapterVars>>

Disconnect ==
  /\ link = "open"
  /\ Close
  /\ UNCHANGED <<mainVars, threadVars, adapterVars>>

Bluez ==
  /\ ~Gone
  /\ link = "open"
  /\ BluezExecutes \/ ReplyArrives
  /\ UNCHANGED <<mainVars, threadVars, dispatchVars>>

TimeOut ==
  /\ ~Gone
  /\ GiveUp
  /\ UNCHANGED <<mainVars, threadVars, dispatchVars>>

-----------------------------------------------------------------------------
ScriptStep ==
  \/ CreateDevice \/ RegisterDevice \/ RegistrationFails \/ CollectDevice
  \/ \E k \in Objects : AddObject(k)
  \/ \E s \in DeviceSettings, v \in BOOLEAN : SetSetting(s, v)
  \/ ChunkReturns
  \/ UpdateReturns

MainStep ==
  \/ ParseArgs \/ DbusInit \/ StartThread \/ OpenController
  \/ PowerController \/ ControllerPowered \/ LoadScript
  \/ ScriptStep
  \/ InstallHandlers \/ Run \/ CheckRunning
  \/ Dispatch \/ DispatchCrashes \/ CallUpdate \/ ExitOnDisconnect
  \/ CloseLua \/ CancelThread \/ JoinThread
  \/ TimeOut

ThreadStep == Serve \/ Served \/ ThreadEnds

Environment ==
  \/ Signal
  \/ \E m \in Messages : PeerSends(m)
  \/ Disconnect
  \/ Bluez

(* The process is gone for good.                                           *)
Terminated == Gone /\ UNCHANGED vars

Next == MainStep \/ ThreadStep \/ Environment \/ Terminated

(* The main thread runs, and so does the controller thread once it is      *)
(* cancelled; the script does not keep a chunk or an Update from ending:   *)
(* between the Sets it waits for, it has only so many calls to make.       *)
(* Nothing is asked of signals, peers, BlueZ or the bus.                   *)
Spec ==
  /\ Init
  /\ [][Next]_vars
  /\ WF_vars(MainStep)
  /\ SF_vars(ChunkReturns \/ UpdateReturns)
  /\ WF_vars(ThreadEnds)

-----------------------------------------------------------------------------
TypeOK ==
  /\ DispatchTypeOK
  /\ AdapterTypeOK
  /\ pc \in StartUp \cup Loop \cup CleanUp \cup Ended
  /\ status \in {0, 1}
  /\ running \in BOOLEAN
  /\ signals \in 0 .. MaxSignals
  /\ thread \in {"none", "running", "cancelled", "ended"}
  /\ serving \in BOOLEAN
  /\ lua \in 0 .. LuaSlots
  /\ failures \in Nat
  /\ arrived \in 0 .. Len(sent)
  /\ device \in {"absent", "collected", "just_registered", "registered"} \cup Unfinished
  /\ due \subseteq Objects

(* BlueZ learns of everything that was added before the chunk that         *)
(* registered the device was over, also of what was added after            *)
(* registerDevice and on both sides of a Set that waited for BlueZ: no     *)
(* call is answered in between.  What is added later it may never know:    *)
(* nothing is signalled.                                                   *)
ManagedObjectsCoverTheChunk ==
  \A w \in DOMAIN wire :
    /\ wire[w].from = "simulator"
    /\ sent[wire[w].to].member = "GetManagedObjects"
    => due \subseteq wire[w].body

(* Once the loop runs, a signal ends the program, and so does the loss of  *)
(* the bus, however long the script, BlueZ and the thread take.            *)
StopIsHeeded ==
  (pc \in Loop /\ (~running \/ link = "closed")) ~> Gone

(* The program was told to end: by one of its own errors, or by a signal.  *)
StopAsked == status = 1 \/ (signals > 0 /\ ~running)

(* As long as it is not told to stop, the program is only undone by a call *)
(* without an interface, by more failing Updates than the Lua stack has    *)
(* room for, or by a device that the script created and did not get        *)
(* registered; clean-up adds the race with the controller thread, and the  *)
(* join of one that was never created.  No other slot of the Lua stack is  *)
(* lost, and no controller closed, on the way.                             *)
UndefinedHasACause ==
  pc = "undefined" =>
    \/ taken < Len(sent) /\ NoInterface
    \/ failures + 4 >= LuaSlots
    \/ device \in Unfinished
    \/ StopAsked /\ (thread = "none" \/ serving)
=============================================================================
