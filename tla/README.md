# A verification project for ble-sim

ble-sim simulates Bluetooth Low Energy peripherals. A Lua script describes the
devices; the program creates a virtual controller for each of them (kernel
`vhci`), exports their GATT objects on D-Bus, registers them with BlueZ, answers
BlueZ's calls and runs the script's `Update` function on every tick. The modules
in this directory model that program in TLA+, check it with TLC and prove most
of what they check, for every size of the instance, with TLAPS.

    tlc -config tree_anchored.cfg MCGattTree      # one run (see "Runs")
    tlapm GattTreeProofs.tla                      # the proofs of one module

## 1. The system

One thread runs everything but the virtual controllers: it starts the program,
loads the script, and then loops over *dispatch what has arrived on D-Bus; call
Update; sleep 100 ms* (`dbusutils_mainloop_run`). A second thread runs BlueZ's
emulator main loop for the `vhci` controllers. The other actors are outside the
process: the script's own decisions, Lua's garbage collector, BlueZ and other
peers on the bus, the kernel, and whoever sends signals.

| component | state it keeps | operations | hard behaviour | what makes it correct |
|---|---|---|---|---|
| GATT object tree (`device.c`, `service.c`, `characteristic.c`, `descriptor.c`) | per object: uuid, own path, parent's path, child list (`head`/`next`), child counter; global `device_count` | create, add, register on the bus, `GetManagedObjects`, `fini` | the userdata belongs to Lua, libdbus and the lists keep raw pointers; an add may fail half way | no duplicate uuid below a parent, no lost or repeated child, unique paths, tree = bus, nothing served is freed |
| device registration (`device.c`, `advertising.c`) | `device_list_head`, `controller_count`, `controller`, `virtual_controller`, `initialised`, `application_registered`, advertisement, pending calls | `device_register` (seven steps that may fail), two reply callbacks, `device_fini` | late answers, retries after a partial failure, two independent numberings of controllers | unique names, own controller, no leak, every answer reaches its device |
| characteristic value (`characteristic.c`) | `value`, `value_size`, `notifying` | ReadValue, WriteValue, StartNotify, StopNotify, setValue, notifying | remote and local writers, signals racing calls, malloc failure after free | an atomic register; subscribers hear the truth and all of it |
| value conversion (`lua_interface.c`) | C locals and heap blocks of one call | `setValue(value, type)` | widths, signs, tables with holes, Lua errors that jump over `free` | fitting numbers survive, arrays in full, nothing lost on success |
| D-Bus dispatch (`dbusutils.c`) | vtable data per path, method and property tables | route a message, Get, GetAll, Set, the methods | three places that may answer, or none; a missing interface field | one answer per call, in order; what is unanswered is known |
| adapter properties (`dbusutils.c`, `device.c`, `main.c`) | none of its own; a pending call while it blocks | setPowered, setDiscoverable, power the default controller | a blocking call with a 1000 ms timeout and a late answer | a Set that reports success is what BlueZ has set |
| main loop, start-up, shutdown (`main.c`, `dbusutils.c`, `lua_interface.c`) | `dbusutils_mainloop_running`, two threads, the Lua stack | parse arguments, open bus and controller, load the script, tick, signals, clean-up | a signal at any time, controllers closed under a running thread, an `Update` that fails on every tick | the program stops when told to, serves callers while it runs, and does nothing undefined by itself |
| property getters, logging, argument parsing, helpers | none | formatting | - | - |

How they interact: the script calls the tree, registration, value and adapter
functions through the Lua binding; the tree and registration hand object
pointers and tables to `dbusutils_register_object`; dispatch calls back into the
tree (`GetManagedObjects`) and the characteristics with those pointers;
registration hands the device pointer to two pending calls; the main loop
alternates dispatch and `Update`, and nothing is dispatched while a script's
call blocks; `luai_cleanup` finalises all that is left.

The file `PROJECT.json` lists the hazards, each at its line, with the properties
that watch it.

## 2. Modules

| module | models | kind |
|---|---|---|
| `GattTree` | the object tree, its bus registrations and the life of its userdata | specification, with its inductive invariants, refinement mapping |
| `GattDatabase` | what the simulator promises BlueZ about its objects | abstract specification |
| `DeviceRegistration` | `ble.registerDevice`, its failures, BlueZ's answers, the kernel's numbering | specification, with its inductive invariants, refinement mapping |
| `DeviceRegistry` | what `ble.registerDevice` promises a script | abstract specification |
| `CharacteristicValue` | one characteristic between BlueZ's clients and the script | specification, refinement mapping |
| `AtomicCharacteristic` | what a characteristic promises its clients | abstract specification |
| `ValueConversion` | `characteristic:setValue` | specification of one call, with its inductive invariant |
| `DbusDispatch` | a message from the bus to an answer | specification, refinement mapping |
| `CallReply` | what a process owes those who call it | abstract specification |
| `AdapterProperties` | a Set of an adapter property against its timeout | specification, with its inductive invariant |
| `Simulator` | `main`, both threads, signals; composes `DbusDispatch` and `AdapterProperties` | composition |
| `MCGattTree`, `MCDeviceRegistration`, `MCCharacteristicValue`, `MCValueConversion`, `MCDbusDispatch`, `MCSimulator` | - | instances for TLC |
| `GattTreeProofs`, `DeviceRegistrationProofs`, `CharacteristicValueProofs`, `ValueConversionProofs`, `DbusDispatchProofs`, `AdapterPropertiesProofs`, `SimulatorProofs` | - | theorems |

### GattTree and GattDatabase

The variables are the fields of the structs: `uuid`, `object_path`,
`parent_path` (`device_path`, `service_path`, `characteristic_path`), `head`
(`services`, `characteristics`, `descriptors`), `next`, `count`
(`service_count`, ...), and the statics of `device.c`. `registered` is libdbus'
object tree, `announced` what BlueZ has read with `GetManagedObjects`, `life`
the Lua side of an object, `freed` the objects whose `object_path` was freed and
not reset. A path is a nested tuple, so that it can be compared with and taken
apart like the string it stands for.

`device_add_service`, `service_add_characteristic` and
`characteristic_add_descriptor` are one action `AddChild(p, c)`: the guards
(`MayAdd`), the duplicate check (`HasUuid`, over the nodes the loop visits),
then either `Attach` (path, registration, parent's path, list, counter) or
`FailToAttach` (path freed, not reset, nothing else). A refused call changes
nothing and is a stuttering step. A step that reads or frees freed memory ends
in `process = "use_after_free"` or `"double_free"`, one that frees what was
never a block in `"wild_free"`: after undefined behaviour nothing more is said.

`device_fini` frees three pointers of the device's advertisement, and
`device_init` does not initialise them: `advertisement_init` does, in
`device_register`. `advertised` are the devices that got that far. Finalising
any other, in `Collect` or in `Close`, frees what the userdata's memory held
before (`FreesGarbage`): that may be harmless, or `"wild_free"`.
`OnlyUnregisteredDevicesHarm` says that this is all a script that keeps its
objects has to fear: no freed memory is ever met, and when garbage was freed,
there is a device that was created and is not on the bus.

A list walk is written as a least fixed point (`ClosedWalk`, `Visited`) and not
as a recursion: it is what the C loop visits, also for a list with a cycle, and
the proofs can reason about it with plain set theory.

The collector is free to run at any time on an object the script has dropped
(`Drop`, then `Collect`). `Anchored` says that the script keeps every object the
bus can reach; without it any script is allowed. Two stories of such scripts are
worth telling. An object that is on the bus and is forgotten is collected, and
the next call of BlueZ reads freed memory. And an add that fails at the bus
leaves a freed `object_path` behind, which is not NULL: the next add to that
object takes it for a parent that was added, and builds a path from it.
`OnlyServedObjectsDangle` and `OnlyFailedAddsMisplace` say that these are the
only two.

`GattDatabase` is what is left when lists, counters, path strings, libdbus and
memory are taken away: a forest that only grows. A child is added below one
parent for good, with a uuid none of its siblings has and a path that is
nobody's; a report of a device names exactly what is below it. `IsDatabase` is
the refinement: the parent of a child is the object whose path is its
`parent_path` (`ParentOf`), what is served is what libdbus has an entry for, and
what is reported is `announced`. A device is served by `RegisterDevice`, a child
by its `Attach`; everything about memory is invisible. The mapping needs that no
registration fails: a failed add gives its object a path and nothing else, which
a database never does.

The advertisement of a device is an object on the bus too, at `/devN/advrt0`. It
has no list, is not reported and is no part of the tree; it is in
`DeviceRegistration`, and its messages in `DbusDispatch`.

### DeviceRegistration and DeviceRegistry

`device_register` runs on the main thread without dispatching anything, so a
call is one step, with one action for each way it returns: `NoController`,
`ObjectFails`, `ApplicationFails`, `AdvertObjectFails`, `AdvertFails`,
`RegisterDevice`, and `StaleLookup` when the name check walks over a collected
device. Each of the failing ones keeps what was done before it: the controller
path, the vhci, the bus object, the pending call. `FailPoints` says which
library calls may fail. `LowestFree` is the kernel's choice of an hci index;
`controller_count` the program's. `HandleReply` is both reply callbacks; a
timeout of libdbus arrives as an error reply and is `BluezRefuses`.

An answer that comes after its device was collected is a use of freed memory
where the callback looks at the device (`TouchesDevice`): a refused application
is logged without it. `FreeGarbage` is what `GattTree` and `Simulator` know as
well: a device whose advertisement was never initialised is finalised. And
`initialised` is set before BlueZ has answered and stays set
when it refuses (the TODO in `on_register_application_reply`); what can be said
of a device is said of `application_registered`.

`DeviceRegistry` is what is left for a script whose host has no adapters of its
own: devices get names, the n-th that is registered gets hci*n*, BlueZ is asked
once for each of its two offers, answers once, and is heard once. Handles,
the list, bus objects and memory are invisible, and a `registerDevice` that fails
is nothing at all. `IsRegistry` is the refinement: an offer is *asked*, *accepted*
or *refused* while there is a call in that state, and *confirmed* when the
device's flag says so; the adapter is the one the kernel chose, not the one the
program believes in. The registry's fairness is that every offer is answered,
and every answer heard while the program runs, so calls settle
(a device offers once, so there are finitely many).

### CharacteristicValue and AtomicCharacteristic

`to_sim` and `to_bluez` are the two directions of one D-Bus connection, which
delivers in order. A handler takes the first call and appends its answer.
`characteristic_update_value` compares, stores and signals in one step, as the
main thread does. `LastTold` is what BlueZ will believe once all that is under
way has arrived.

Memory may be short for a while (`memory`), and while it is any allocation may
fail. `SetValue` may leave the value empty: the old buffer is freed before the
new one is allocated. A signal may not be made (`dbusutils.c:54`) or not be
queued (`:69`, whose result nobody looks at): the value has changed and nobody
is told (`PropertiesChanged`). And a method may take effect without a reply
(`Failures`): a handler that returns NULL is taken for none, so libdbus answers
*UnknownMethod* to a write that was done; a reply that cannot be queued leaves
its caller to its own timeout (*NoReply*, which libdbus gives the caller; where
among the messages under way it does so is not told apart).

`AtomicCharacteristic` knows no messages: a client invokes, the call takes
effect, the client returns. What it returns with may be an error although the
call took effect: a client that gets one knows nothing. `IsAtomic` maps a call
in `to_sim` to *called*, its answer in `to_bluez` to *answered*, and is checked
with the fairness of the abstract specification.

WriteValue changes the value without a signal, also while notifications are on;
the changelog's *changes in values now produce the correct properties changed
signal* does not hold of it (`value_silent_write`). `OnlyWritesAreSilent` says
that while there is memory nothing else does that, and that the script's next
change brings a subscriber that fell behind up to date again, by whatever it
fell behind. `SettledValueIsSeen` is what subscribers can rely on if nobody
writes and memory lasts (premises of the property, not bounds of the run).

### ValueConversion

One behaviour is one call of `setValue`. A Lua number carries what
`lua_tointeger` makes of it and its bytes as C `float` and `double`, so that no
floating point arithmetic is needed; integers are cut to bytes by division by
256, which is two's complement. The loop of `luai_get_array` is explicit, its
length any border of the table. `Convert` returns the set of results of one
item: done, refused (with a block lost or not) or a Lua error.

The type the script passes is an integer of 64 bits, here its two halves. It is
checked by its low byte and then cast to an enum of 32 bits
(`lua_interface.c:125-127`). The cast leaves the lower half (`AsEnum`), which
has the low byte in it: 2^32 + 5 *is* BLE_INT32 and is converted as one. What
the cast leaves outside the enum, like 256, passes for BLE_BOOL and indexes past
`BLE_DATA_TYPE_SIZE` if the value is an array: the program ends there
(`ReadPastSizes`), or goes on with whatever size it read (`StraySizes`).
`StrayTypesSetNothing` is about these: no number is ever converted by such a
type, so at most an empty value is set.

Two facts stand out. The block for an INT32 is `malloc (sizeof (int8_t))` and
gets four bytes (`lua_interface.c:498`; `OnlyInt32Overruns` says it is the only
one). And every string is refused, because its case falls through
(`StringsAreSet`).

### DbusDispatch and CallReply

A message is a record of what the handlers tell apart: the kind of object its
path leads to, interface (or none), member, whether its argument has the right
signature, and whether there is memory enough, none for its reply or none to
queue it. `HandleMessage` is
`dbusutils_object_handle_message` with all it calls: the Properties interface
(`HandlePropertiesInterface`), the method table (`HandleMethodCall`), and
libdbus' own answer to what nobody handled. Each handler returns what is sent
*and* whether the message counts as handled; that these two agree is what
`AnswersInOrder` and `UnansweredAreExpected` are about. A message without an
interface field makes `strcmp` read a null pointer (`CrashOnMessage`).

A Get is answered, but with an empty body: `dbusutils.c:308` appends the variant
to the request instead of the reply (run `get_property`). A Set, and a Get whose
arguments are wrong or for which no memory is left, is *handled* and not
answered: its caller waits for its timeout. So does the caller of any method
whose reply `dbus_connection_send` cannot queue (`dbusutils.c:352`, `:377`: the
result is not looked at).

`CallReply` is what any process owes its callers: a call is settled once, the
oldest first, and every call is settled, with an answer or by being dropped. The
refinement mapping reads a message's status off the queue, the wire and the
link.

### AdapterProperties

`dbusutils_set_property_basic` blocks the only thread for a second
(`DEFAULT_TIMEOUT`) and may give up while its request is still on its way.
`requests` and `replies` are the two directions; BlueZ executes in order, late
answers are dropped because libdbus matches an answer with the call that waits.
`MaxInFlight` bounds the requests that were given up and not yet carried out. On
a closed connection, or without memory for the request, nothing is sent
(`SetNotSent`).

### Simulator

`main` as one program counter, from its arguments to its exit, and the state
that decides what it does: `running`, the controller thread and whether it works
on a controller right now (`serving`), the Lua stack, the exit status. The main
thread's dispatch is `DbusDispatch`'s `HandleMessage` or `CrashOnMessage`, its
Sets are `AdapterProperties`'. A tick begins with one read of the connection,
which takes some of what has arrived (`ReadSome`; a message that needs several
reads has arrived when its last part can be read), and `Update` is called when
at least that has been dispatched. A script is the sequence of its calls into
the program: a chunk that creates a device, adds, registers and sets, then an
`Update` on every tick that does the same or fails.

`device` is how far the script got with its device: created, with a controller
opened by a registration that failed later (`RegistrationFails`, any number of
times), registered, or collected before it was registered. The script keeps a
device that it registered (`GattTree!Anchored`, whose absence `tree_hostile` is
about); one that it did not it may forget (`CollectDevice`). What a registration
leaves behind when it fails after the device got on the bus is in
`DeviceRegistration`.

What the model shows of the order of things:

* a signal before `InstallHandlers` ends the process; one between that and
  `running = true` is lost, because `running` is set after it; one in the loop
  ends it after the tick; one during clean-up changes nothing;
* `luai_cleanup` closes and frees the controllers while the controller thread
  may be working on one (`main.c:169`), the thread is cancelled after;
* the result of `pthread_create` is not looked at (`main.c:226`), so clean-up may
  cancel and join a thread that does not exist;
* an `Update` that fails leaves its message on the Lua stack
  (`lua_interface.c:169`): after some hundred milliseconds for each slot there is
  none left to call it with;
* a device that was created and not registered is finalised with an advertisement
  nobody initialised (`device.c:82`), by the collector or at `lua_close`, and its
  controller, if it has one, is closed under the running thread;
* `power_default_controller` sets the property of `hci0`, whatever index the
  default controller got: on a host with an adapter that is another one.

`UndefinedHasACause` says that these, with the message without an interface, are
all the ways in which the program does something undefined, and *when*: until
the program is told to stop, only by such a message, by as many failing
`Update`s as the stack has slots, or by a device that did not get registered.
The race with the controller thread and the missing thread are only met by
clean-up, after a signal or an error of its own (`StopAsked`). It would be
violated by an `Update` that uses up a slot without failing.

The handlers of SIGINT and its sisters write to the log, which calls
`localtime`. That takes a lock of the C library, and a signal that interrupts
the main thread inside it leaves the program waiting for itself. The model does
not go below the statement: `StopIsHeeded` is a claim about signals that arrive
anywhere else.

## 3. Runs

| run | question | bounds | result |
|---|---|---|---|
| `tree_anchored` | do lists, paths and bus agree in every order of creating and adding, with the collector at work, do they make up the database BlueZ is promised; is nothing freed ever touched, and garbage freed only for a device that never got on the bus? | 1 device, 2 services, 2 characteristics, 2 descriptors, 2 uuids, symmetric | holds, 192 556 states |
| `tree_hostile` | what survives a script that forgets and a bus that refuses: are lists still whole and uuids distinct, and where does freed memory get read? | 1 device, 1 service, 2 characteristics, 1 descriptor, 2 uuids | holds, 741 030 states |
| `reg_anchored` | names, controllers and answers on a host without adapters, with controllers that fail to open; do they make up the registry a script is promised, and does every call settle? | 3 devices, 2 names | holds, 374 741 states |
| `reg_hostile` | what holds with every failure, a host adapter and collection? | 2 devices, 2 names, 4 controllers | holds, 1.15 million states |
| `reg_host_adapter` | is the controller path that of the device's controller? | 1 device, hci0 taken | violated |
| `value` | is a characteristic an atomic register; are its signals true, do subscribers hear of every change the script makes and of the last while memory lasts, and catch up after it was short? | 2 clients, 3 values, 2 messages each way | holds, 69 372 states |
| `value_silent_write` | do they hear of remote writes? | 1 client, 2 values | violated |
| `set_value` | what are the bytes of an accepted value, and what does a refused one cost? | all 12 types and 6 integers that are none or are cut to one, 10 scalars, arrays of 0..3 items out of 6 | holds, 24 590 states |
| `set_string` | can a string be set? | the same | violated |
| `dispatch` | who answers which call, in which order, and who is left waiting? | 13 messages, one for each way through the handlers, 2 at a time | holds, 48 428 states |
| `get_property` | does a Get return the property? | one Get | violated |
| `simulator` | does the whole program serve its callers, stop when told to, set what it says it set, and do nothing undefined by itself? | 1 message out of 3, 1 device, 1 object, 2 settings, 2 requests in flight, 5 Lua slots, 1 signal | holds, 324 952 states |

A violated run checks one property that a comment, a message or the changelog of
the repository states; `PROJECT.json` quotes the line under "findings".

Why the bounds are enough. *Tree*: duplicate checks and paths need two children
below one parent and two parents for one child, at two levels: two services and
two characteristics. Two descriptors below them make the nested loops of
`device_get_managed_objects` three deep and branch at each level. Two devices
share nothing but `device_count` and the space of paths; that these never mix
them up is proved for any number of devices (`PathsAreUnique`), and a child
offered to two parents is met one level down, where the guard is the same.
`tree_hostile` has two siblings, the parent above them whose adding may fail, and
a descriptor either of them may be given.
*Registration*: a retry needs a second device in between (a list of two whose
older entry is looked up), and the third shows that it does not matter how many.
`MaxControllers` bounds `controller_count` and the leaked handles.
*Value*: `MaxQueue` bounds how far the script may run ahead of BlueZ; three
values are enough to tell *old*, *new* and *empty* apart. *Conversion*: array
items are chosen so that each way out of the loop occurs before, at and after
the first item. *Dispatch*: a second message is needed to see an order, and to
see that an unanswered first one does not keep it from being answered.
*Simulator*: the order of answers is covered by `dispatch` and proved for any
number; one message is enough to race it against a blocking Set, a signal, the
loss of the bus, a crash and clean-up. Two requests in flight are a late answer
and the one it might be mistaken for. Lua guarantees a C caller 20 slots
(`LUA_MINSTACK`); 5 are what `luai_init` needs, and one failing `Update` fills
them. A busy peer, who sends faster than messages are dispatched, is beyond any
such bound (see fairness). The theorems lift all of these bounds for the safety properties.

Symmetry is used where only safety is checked and the specification never
orders or names the elements. `CHECK_DEADLOCK FALSE` is set where the modelled
system really stops (the process exits, one call returns, undefined behaviour).

Fairness, and why the code justifies it:

* `WF(HandleCall)` (value), `WF(Dispatch)` (registration), `WF(HandleMessage \/
  CrashOnMessage)` (dispatch): `dbusutils_mainloop_run` dispatches all that has
  arrived on every tick. In these modules a script's calls do not block.
* `WF(Deliver)`, `WF(BluezAnswers)`: D-Bus delivers, and a call is answered by
  BlueZ or, after a timeout, by libdbus.
* `Simulator`: `WF(MainStep)`, the main thread is scheduled and what it calls
  returns, `dbus_connection_flush` after a reply (`dbusutils.c:378`) and in
  `dbus_cleanup` (`main.c:81`) among them, for which the bus has to read;
  `SF(ChunkReturns \/ UpdateReturns)`, a script is through with a chunk or an
  `Update` after so many calls, between the Sets it waits for (strong, because
  each Set disables it for a while); `WF(ThreadEnds)`, a cancelled thread ends.
  The timeout of a blocking Set is the main thread's own step and part of
  `MainStep`.
* Messages are finitely many (`MaxMessages`). `dispatch` loops until none is
  left, so peers who never stop calling could keep the program in its inner loop;
  that they do not is an assumption, for which the code has no remedy.
* Nothing is assumed of the script otherwise, of the collector, of signals, of
  peers, of BlueZ's answer to a Set or of the bus.

## 4. Proofs

Each theorem is for all values of the constants that satisfy the named
assumptions: any number of objects, devices, messages, clients, array items.

| module | theorem | says |
|---|---|---|
| `GattTreeProofs` | `TypeCorrect` | `TypeOK`, for any script and failure |
| | `TreeHolds` | `TreeInv`, if no registration fails |
| | `TreeIsDatabase` | `IsDatabase`, the whole refinement, if no registration fails |
| | `PathsAreUnique`, `TheTreeIsOnTheBus` | `PathsNeverCollide`, `TreeMatchesBus`, if no registration fails |
| | `ListsStayComplete`, `SiblingsAreDistinct` | `ListsAreComplete`, `SiblingUuidsDistinct`, for any script and failure |
| | `MemoryIsSafe`, `AnnouncedObjectsStay` | `OnlyUnregisteredDevicesHarm`, `AnnouncedStaysServed`, if in addition the script is anchored |
| | `BindingsArePermanent`, `DanglingIsExplained`, `MisplacedIsExplained` | `BindingsPermanent`, `OnlyServedObjectsDangle`, `OnlyFailedAddsMisplace`, for any script and failure |
| `DeviceRegistrationProofs` | `RegistrationTypeCorrect`, `NamesStayUnique`, `ControllersAreNotShared`, `StaleUsesAreExplained`, `FailedStaysFailed` | `TypeOK`, `ListedNamesUnique`, `OneDevicePerController`, `StaleUsesAreServed`, `FailureIsFinal`, for any script, host and failure |
| | `NumberingsAgree`, `NothingLeaks`, `AnswersFindTheirDevice`, `RegistrationsAreReal` | `ControllerIsOwn`, `NoControllerLeaks`, `RepliesFindTheirDevice`, `RegisteredWhereItLives`, under `SimulatorOwnsAll` |
| | `RegistrationIsRegistry` | `IsRegistry` but for its fairness, under `SimulatorOwnsAll` |
| `CharacteristicValueProofs` | `ValueTypeCorrect`, `SignalsAreTrue`, `WritesAreTheGap` | `TypeOK`, `SignalsTellTheValue`, `OnlyWritesAreSilent` |
| | `SubscribersKeepUp` | who is up to date stays so while subscribed, memory lasts and nobody writes, and has seen the value whenever nothing is under way: `SettledValueIsSeen` but for fairness |
| | `StepsAreAtomic` | the initial states and the steps of `AtomicCharacteristic`: `IsAtomic` but for its fairness |
| `ValueConversionProofs` | `StrayTypesSetNoBytes`, `LeaksAreRefusals`, `OverrunsAreInt32` | `StrayTypesSetNothing`, `SuccessLeaksNothing`, `OnlyInt32Overruns` |
| | `ConversionTypeCorrect`, `AcceptedValuesAreWhole`, `NumbersSurvive` | `TypeOK`, `AcceptedInFull`, `FittingNumbersSurvive` |
| | `StringsAreNeverSet` | no call that succeeds was given a string: the finding of `set_string` for every call |
| `DbusDispatchProofs` | `AnswersAreInOrder`, `OnlyExpectedAreUnanswered` | `AnswersInOrder`, `UnansweredAreExpected` |
| | `CallsAreSettledInTurn` | `IsCallReply` but for its fairness |
| | `NoGetReturnsAProperty` | what each of the simulator's answers may say; that of a Get is empty: the finding of `get_property` for every Get |
| `SimulatorProofs` | `ProgramTypeCorrect`, `SuccessIsTrue`, `UndefinedIsExplained`, `TheChunkIsCovered`, `ProgramAnswersInOrder` | `TypeOK`, `SuccessIsCurrent`, `UndefinedHasACause`, `ManagedObjectsCoverTheChunk`, and the two invariants of dispatch for the whole program |
| | `ProgramSettlesCallsInTurn` | `IsCallReply` of the whole program but for its fairness |
| | `ProgramRunsItsParts` | the program takes no step that `DbusDispatch` and `AdapterProperties` do not |
| | `StopsAreFinal`, `JoinsAreOfTheCancelled` | a stop is never taken back and leads only forward; only a cancelled thread is waited for |

Assumptions: of the tree, that kinds of objects are disjoint and `NULL` is none
of them, of the uuids or of the paths (`KindsAreDisjoint`, `NullIsNothing`); of
registration, that there are finitely many devices (`DevicesAreFinite`) and
host controllers are indices; of values, that the empty one is a value
(`EmptyIsValue`) and operations are the four methods; of conversion, that
arguments are Lua values (`ArgumentsAreLuaValues`); of dispatch, that messages
are well-formed and `NULL` is no reply; of the program, that Lua has room for
the metatables (`SlotsForMetatables`), objects are GATT kinds and the default
controller's setting is one. Flags are Boolean and bounds are natural numbers.
TLC evaluates all of them in the runs.

**The tree.** `PathsNeverCollide` is not inductive: a new path is free only because every path ever made is below the
counter it was made from (`PathsAreCounted`) *and* paths of parents are distinct
(`PathsAreDistinct`) *and* the bus serves objects under their own path
(`RegistryFollowsPaths`). That what the lists lead to is what the bus serves
needs that a child is on the list of the parent whose path it has
(`ListsStayInFamily`). `TreeInv` is the conjunction; `tree_anchored`
checks it as an invariant. `StepCases` folds the sister actions together;
`FrameInv` covers steps that leave tree and bus alone. `AttachInv` is the heart:
`NextPathIsFresh` (the counter argument), `LinkGrowsLists` (pushing takes no
child off a list; a least fixed point argument), `FailedLookupSeesAll` (a search
that finds nothing has seen the whole list). In `NextInv` the failing add is
shown impossible: its path is free.

`TreeHolds` does not assume `Anchored`: collection breaks memory, not the
structure. What a script must do for memory is `SafeInv`: everything served is
held (`ServedAreHeld`). A lookup, `GetManagedObjects` and a method call only
reach objects that were added (`WalksAreHeld`, `ManagedAreHeld`), those are on
the bus, and an anchored script lets go of none of them. A device on the bus
has its advertisement initialised (`RegisteredAreAdvertised`), so garbage is
only freed for one that is not. Without either premise,
`ListsLeadToServed` and `FreedPathsOnly` remain, and so does everything about
lists themselves (`ListsInv`), although the paths are no longer to be trusted: a
child that was not added is on no list, so pushing it makes one list longer by
one and leaves the others alone (`LinkPushes`); what is on a list keeps its uuid
and its number, because only what was created is added (`AddedWereCreated`). A
list is a least fixed point, so each of these is two inclusions (`ListIsLeast`,
`ListIsWhole`).

`TreeIsDatabase` rests on `TreeInv` alone: paths are distinct, so a child has one
owner (`OwnerIsOne`) and a list holds the children that have its owner for a
parent (`ListIsSiblings`); the three nested loops are then the three levels of
`Below` (`ManagedAreBelow`), a search that finds nothing has compared all
siblings, and the counter makes a path that is nobody's. Each action has a lemma
(`AttachRefines`, `ReportRefines`, ...), and `InvisibleSteps` covers the rest.

**Registration.** `RegistrationInv` is what no failure breaks: the list has no
duplicates, all on it were served, names are distinct, and paths come from a
count that only grows. `OwnInv` is for `SimulatorOwnsAll` (no adapter of the
host's, only opening a controller may fail, an anchored script): as long as no
controller is ever closed, the kernel's lowest free index *is* the program's
count (`NumbersAreControllers`), which needs the cardinality of a set of indices
and is why devices are finite. `reg_host_adapter` shows that the premise is
needed. `RegistrationIsRegistry` adds that only what was created has a name and
that BlueZ holds no application but those of listed devices under their own
adapter (`RegistryInv`). That an answer moves one offer and no other needs that a
call is told from the others by its device, kind and state (`OffersAreCalls`),
which is so because a listed device's number never changes. Each kind of step has
a lemma (`AttemptRegistry`, `LuaRegistry`, `BluezRegistry`, `DispatchRegistry`).

**Values.** The refinement needs that every client has at most one message
under way, a call or an answer, and which one (`QueuesMatch`, `OneEach`); the
last signal of a queue is a maximum, so the proofs about `LastTold` are about
what appending does to it. `SubscribersKeepUp` follows from `OnlyWritesAreSilent` and
from nobody writing when no write is under way (`NoWritesNoWrite`).

**Conversion.** `CallInv` adds to the properties what the loop keeps
(`LoopInv`): the index within the table, the buffer as long as *length times
size*, and that a type outside the enum never gets past its first item. That an
item fits is then `(i - 1) * size + size <= items * size`. `BytesInv` is about
what the bytes are: every item behind the loop could be converted and its bytes
lie at its place (`ItemsBehind`), and the length the loop runs to is a border,
so the loop ends at the first `nil` or at the end of the table (`WantedItems`
shows that this is where `Wanted` ends). A new item leaves those behind it
alone because places of different items do not overlap (`Places`). That numbers
survive is a lemma about bytes alone, `ReadBackInverts`: reading back undoes one
division by 256 for each byte, from the highest down, and what is left above the
highest byte is the sign. Widths are at most eight, so the two recursive
functions (`Shifted`, `ReadBack`) are shown to exist by writing out their eight
values, and no induction over data is needed.

**Dispatch and the program.** An answer is for the message that is taken, so
answers come in the order of `taken`; each handler's two results are shown to
agree case by case. What an answer says is settled when it is sent, and stays
right because objects are only ever added (`SayStep`). `SimulatorProofs` reuses those lemmas: every step of the
program is a step of `DbusDispatch` or leaves its variables alone, and likewise
for `AdapterProperties` (`AdapterInv`: the request that is waited for is the
last in either queue). `ProgramInv` is about control: an undefined end has one
of its causes (`EndedIsClosed`, `SlotsAreFailures`: the slots in use are those
of the metatables and one for each failure; `StopsAreAsked`: clean-up is only
entered by an error or a signal), and what is due to be announced was
added in the chunk that registered the device (`DevicesFollowTheScript`,
`DeviceWasRegistered`). `StopsAreFinal` is the ranking behind `StopIsHeeded`:
`Distance` counts what is left of the tick and of clean-up, and no step of
anybody makes it longer once the program was told to stop.

Only model-checked: liveness, which the prover cannot do (`SettledValueIsSeen`,
`StopIsHeeded`, and the fairness halves of `IsRegistry`, `IsAtomic` and
`IsCallReply`). What is left of the first two without fairness is proved
(`SubscribersKeepUp`, `StopsAreFinal`). Every other property of a passing run is a theorem.

## 5. Not modelled

* Marshalling of properties and log output: formatting. Which properties an
  object has, and which of them an answer names, is in `DbusDispatch`.
* `ORIGIN_C` objects: nothing in the program creates one.
* `device_remove` and `dbusutils_do_method_call`: declared, not defined.
* The kernel, BlueZ, libdbus and Lua beyond what the code uses of them.
* malloc and strdup failing where the code does not look. Where it does (the
  value functions, the signal, replies, registrations, the request of a Set) they
  may fail. A message is built as a whole or not at all: libdbus' appending
  functions may fail as well, and no caller looks.
* What libdbus does when it has no memory for an answer of its own: it keeps the
  message and tries again.
* Of the advertisement object at `/devN/advrt0`, its place in the object tree.
* In `Simulator`, registrations that fail after the device got on the bus (they
  are in `DeviceRegistration`) and a script that forgets a registered device (in
  `GattTree` and `DeviceRegistration`).
* The locks of the C library (the signal handler that logs, see `Simulator`).
* That an object added by an `Update`, after BlueZ has read
  `GetManagedObjects`, is never announced: there is no `InterfacesAdded`
  signal. The code has no way to announce it and promises none, so there is no
  property to check; `ManagedObjectsCoverTheChunk` says what can be relied on.
* The names of arguments, error texts and usage output of the Lua binding and of
  the command line.

## 6. What could follow

* The tree and registration are composed with the program only through what
  they answer (`due`, `device` in `Simulator`): a composition of `GattTree`
  itself with `Simulator` would multiply their states, and adds no interleaving,
  because the main thread does one at a time.
