------------------------- MODULE DeviceRegistration -------------------------
(***************************************************************************)
(* ble.registerDevice: how a device gets a virtual controller, a place on  *)
(* the bus, an application and an advertisement at BlueZ, and an entry in  *)
(* the device list (device_register in device.c, advertising.c), and what  *)
(* becomes of it when BlueZ answers, when a step fails, when the script    *)
(* tries again and when Lua collects the device.                           *)
(*                                                                         *)
(* The program names the controller of the n-th device "hci<n>"; the       *)
(* kernel gives a new controller the lowest index that is free.  Nothing   *)
(* compares the two.  The main thread does the whole call without          *)
(* dispatching a message, so one call is one step; the kernel and BlueZ    *)
(* act between the steps.                                                  *)
(***************************************************************************)
EXTENDS Naturals, Sequences, FiniteSets

CONSTANTS
  Devices, Names,
  NULL,
  HostControllers,  \* hci indices of the host's own adapters
  FailPoints,       \* the calls of device_register that may fail
  Anchored,         \* the script keeps a reference to every listed device
  MaxControllers    \* bound: controller_count stays below it

Calls == {"vhci_open", "register_object", "register_application",
          "register_advert_object", "register_advert"}

ASSUME FailPointsAreCalls == FailPoints \subseteq Calls
ASSUME HostControllersAreIndices ==
  HostControllers \subseteq Nat /\ IsFiniteSet(HostControllers)
ASSUME AnchoredIsBoolean == Anchored \in BOOLEAN
ASSUME BoundIsNatural == MaxControllers \in Nat
ASSUME NullIsNothing == NULL \notin Nat \cup Names
ASSUME DevicesAreFinite == IsFiniteSet(Devices)

VARIABLES
  life,                    \* device -> "absent", "held", "dropped", "collected"
  device_name,
  controller,              \* device -> n of its path "/org/bluez/hci<n>", or NULL
  virtual_controller,      \* device -> hci index the kernel gave its vhci, or NULL
  controller_count,
  default_controller,      \* hci index of the controller main opened first
  leaked,                  \* hci indices whose vhci handle was overwritten
  device_list,             \* device_list_head and the next pointers, newest first
  initialised,
  application_registered,
  advert_initialised,      \* advertisement_init was called
  advert_registered,       \* advertisement.registered
  objects,                 \* devices served on the bus
  adverts,                 \* devices whose advertisement is served on the bus
  process,                 \* "running", or the undefined behaviour it ran into
  calls,                   \* method calls to BlueZ and their answers, in flight
  adapters,                \* hci indices BlueZ has an adapter object for
  bluez_applications       \* <<adapter, device>> registered at BlueZ

script == <<life, device_name>>
kernel == <<virtual_controller, default_controller, leaked>>
numbers == <<controller, controller_count>>
flags == <<initialised, application_registered, advert_initialised, advert_registered>>
served == <<objects, adverts>>
bluez == <<adapters, bluez_applications>>
vars == <<script, kernel, numbers, device_list, flags, served, process, calls, bluez>>

Listed == {device_list[i] : i \in DOMAIN device_list}

-----------------------------------------------------------------------------
(* The kernel.                                                             *)

IndicesOf(v) == {v[d] : d \in Devices} \ {NULL}

Minimum(S) == CHOOSE i \in S : \A j \in S : i <= j

(* hci_register_dev takes the lowest index no controller has.              *)
LowestFree(taken) == Minimum({i \in 0..Cardinality(taken) : i \notin taken})

Present == HostControllers \cup {default_controller} \cup IndicesOf(virtual_controller) \cup leaked

-----------------------------------------------------------------------------
Init ==
  /\ life = [d \in Devices |-> "absent"]
  /\ device_name = [d \in Devices |-> NULL]
  /\ controller = [d \in Devices |-> NULL]
  /\ virtual_controller = [d \in Devices |-> NULL]
  /\ controller_count = 1
  /\ default_controller = LowestFree(HostControllers)
  /\ leaked = {}
  /\ device_list = <<>>
  /\ initialised = [d \in Devices |-> FALSE]
  /\ application_registered = [d \in Devices |-> FALSE]
  /\ advert_initialised = [d \in Devices |-> FALSE]
  /\ advert_registered = [d \in Devices |-> FALSE]
  /\ objects = {}
  /\ adverts = {}
  /\ process = "running"
  /\ calls = {}
  /\ adapters = HostControllers \cup {default_controller}
  /\ bluez_applications = {}

Running == process = "running"

Undefined(how) ==
  /\ process' = how
  /\ UNCHANGED <<script, kernel, numbers, device_list, flags, served, calls, bluez>>

-----------------------------------------------------------------------------
(* ble.createDevice: device_init leaves the advertisement as it found it.  *)
CreateDevice(d, n) ==
  /\ Running
  /\ life[d] = "absent"
  /\ life' = [life EXCEPT ![d] = "held"]
  /\ device_name' = [device_name EXCEPT ![d] = n]
  /\ UNCHANGED <<kernel, numbers, device_list, flags, served, process, calls, bluez>>

-----------------------------------------------------------------------------
(* ble.registerDevice, one action per way device_register returns; a call  *)
(* refused because the name is taken is a stuttering step.                 *)

(* device_get_device reads the names on the list up to the first match.    *)
ReadByLookup(n) ==
  {device_list[i] : i \in {k \in DOMAIN device_list :
                             \A j \in 1..(k - 1) : device_name[device_list[j]] # n}}

(* Mutant: only the newest device is compared.                             *)
NameTaken_HeadOnly(n) == device_list # <<>> /\ device_name[Head(device_list)] = n

NameTaken(n) == \E d \in ReadByLookup(n) : device_name[d] = n

StaleLookup(d) ==
  /\ Running
  /\ life[d] = "held"
  /\ \E x \in ReadByLookup(device_name[d]) : life[x] = "collected"
  /\ Undefined("use_after_free")

Enter(d) ==
  /\ Running
  /\ life[d] = "held"
  /\ \A x \in ReadByLookup(device_name[d]) : life[x] # "collected"
  /\ ~NameTaken(device_name[d])

(* Mutant: a handle that was never opened counts too.                      *)
Forget_NullToo(d) == leaked' = leaked \cup {virtual_controller[d]}

Forget(d) ==  \* the vhci handle of an earlier attempt is overwritten
  leaked' = leaked \cup ({virtual_controller[d]} \ {NULL})

(* Mutant: a controller that could not be opened is counted.               *)
NoController_Counts(d) ==
  /\ Enter(d)
  /\ "vhci_open" \in FailPoints
  /\ controller_count < MaxControllers
  /\ controller' = [controller EXCEPT ![d] = controller_count]
  /\ controller_count' = controller_count + 1
  /\ virtual_controller' = [virtual_controller EXCEPT ![d] = NULL]
  /\ Forget(d)
  /\ UNCHANGED <<script, default_controller, device_list, flags, served, process, calls, bluez>>

(* device_init_controller fails: the path is set, the count is not.        *)
NoController(d) ==
  /\ Enter(d)
  /\ "vhci_open" \in FailPoints
  /\ controller' = [controller EXCEPT ![d] = controller_count]
  /\ virtual_controller' = [virtual_controller EXCEPT ![d] = NULL]
  /\ Forget(d)
  /\ UNCHANGED <<script, controller_count, default_controller, device_list, flags,
                 served, process, calls, bluez>>

(* Mutant: an opened controller is not counted.                            *)
InitController_NotCounted(d) ==
  /\ controller' = [controller EXCEPT ![d] = controller_count]
  /\ virtual_controller' = [virtual_controller EXCEPT ![d] = LowestFree(Present)]
  /\ Cardinality(leaked) < MaxControllers
  /\ Forget(d)
  /\ UNCHANGED <<controller_count, default_controller>>

(* device_init_controller succeeds.                                        *)
InitController(d) ==
  /\ controller_count < MaxControllers
  /\ controller' = [controller EXCEPT ![d] = controller_count]
  /\ virtual_controller' = [virtual_controller EXCEPT ![d] = LowestFree(Present)]
  /\ controller_count' = controller_count + 1
  /\ Forget(d)
  /\ UNCHANGED <<default_controller>>

(* libdbus refuses a path that is in use: the object stayed on the bus     *)
(* after an earlier attempt that failed later.                             *)
ObjectFails(d) ==
  /\ Enter(d)
  /\ InitController(d)
  /\ d \in objects \/ "register_object" \in FailPoints
  /\ UNCHANGED <<script, device_list, flags, served, process, calls, bluez>>

(* Mutants: the result of dbusutils_register_object is ignored; the object *)
(* is not put on the bus.                                                  *)
AddObject_IgnoresError(d) == objects' = objects \cup {d}
AddObject_NotServed(d) == objects' = objects

AddObject(d) == d \notin objects /\ objects' = objects \cup {d}

ApplicationFails(d) ==
  /\ Enter(d)
  /\ InitController(d)
  /\ AddObject(d)
  /\ "register_application" \in FailPoints
  /\ UNCHANGED <<script, device_list, flags, adverts, process, calls, bluez>>

Call(kind, d) ==
  [kind |-> kind, device |-> d, adapter |-> controller'[d], state |-> "sent"]

InitAdvert(d) == advert_initialised' = [advert_initialised EXCEPT ![d] = TRUE]

AdvertObjectFails(d) ==
  /\ Enter(d)
  /\ InitController(d)
  /\ AddObject(d)
  /\ calls' = calls \cup {Call("application", d)}
  /\ InitAdvert(d)
  /\ "register_advert_object" \in FailPoints
  /\ UNCHANGED <<script, device_list, initialised, application_registered,
                 advert_registered, adverts, process, bluez>>

AdvertFails(d) ==
  /\ Enter(d)
  /\ InitController(d)
  /\ AddObject(d)
  /\ calls' = calls \cup {Call("application", d)}
  /\ InitAdvert(d)
  /\ adverts' = adverts \cup {d}
  /\ "register_advert" \in FailPoints
  /\ UNCHANGED <<script, device_list, initialised, application_registered,
                 advert_registered, process, bluez>>

(* Mutant: the head is only set for the first device.                      *)
AddDeviceToDeviceList_FirstOnly(d) ==
  device_list' = IF device_list = <<>> THEN <<d>> ELSE device_list

AddDeviceToDeviceList(d) == device_list' = <<d>> \o device_list

RegisterDevice(d) ==
  /\ Enter(d)
  /\ InitController(d)
  /\ AddObject(d)
  /\ calls' = calls \cup {Call("application", d), Call("advert", d)}
  /\ InitAdvert(d)
  /\ adverts' = adverts \cup {d}
  /\ AddDeviceToDeviceList(d)
  /\ initialised' = [initialised EXCEPT ![d] = TRUE]
  /\ UNCHANGED <<script, application_registered, advert_registered, process, bluez>>

-----------------------------------------------------------------------------
(* Lua.                                                                    *)

Drop(d) ==
  /\ Running
  /\ life[d] = "held"
  /\ Anchored => d \notin Listed
  /\ life' = [life EXCEPT ![d] = "dropped"]
  /\ UNCHANGED <<device_name, kernel, numbers, device_list, flags, served, process, calls, bluez>>

(* device_fini frees the strings of an advertisement that was never        *)
(* initialised: what the memory held decides whether that does harm.       *)
FreeGarbage(d) ==
  /\ Running
  /\ life[d] = "dropped"
  /\ ~advert_initialised[d]
  /\ Undefined("wild_free")

(* device_fini: the vhci is closed, and its index is free again.  Nothing  *)
(* is taken off the list or the bus.                                       *)
Collect(d) ==
  /\ Running
  /\ life[d] = "dropped"
  /\ life' = [life EXCEPT ![d] = "collected"]
  /\ virtual_controller' = [virtual_controller EXCEPT ![d] = NULL]
  /\ UNCHANGED <<device_name, default_controller, leaked, numbers, device_list, flags,
                 served, process, calls, bluez>>

-----------------------------------------------------------------------------
(* BlueZ.                                                                  *)

AdapterAppears(i) ==
  /\ i \notin adapters
  /\ adapters' = adapters \cup {i}
  /\ UNCHANGED <<script, kernel, numbers, device_list, flags, served, process, calls, bluez_applications>>

AdapterDisappears(i) ==
  /\ i \notin Present
  /\ adapters' = adapters \ {i}
  /\ bluez_applications' = {a \in bluez_applications : a[1] # i}
  /\ UNCHANGED <<script, kernel, numbers, device_list, flags, served, process, calls>>

Answer(c, state) == calls' = (calls \ {c}) \cup {[c EXCEPT !.state = state]}

BluezAccepts(c) ==
  /\ c.state = "sent"
  /\ c.adapter \in adapters
  /\ Answer(c, "accepted")
  /\ bluez_applications' = IF c.kind = "application"
                           THEN bluez_applications \cup {<<c.adapter, c.device>>}
                           ELSE bluez_applications
  /\ UNCHANGED <<script, kernel, numbers, device_list, flags, served, process, adapters>>

(* There is no such adapter, or BlueZ does not like what it was offered.   *)
BluezRefuses(c) ==
  /\ c.state = "sent"
  /\ Answer(c, "refused")
  /\ UNCHANGED <<script, kernel, numbers, device_list, flags, served, process, bluez>>

-----------------------------------------------------------------------------
(* The main loop dispatches an answer: on_register_application_reply and   *)
(* on_register_advert_reply, whose user_data points into the device.  An   *)
(* error is logged and that is all.                                        *)

(* Mutants: an error counts as success; a refusal is left in the queue.    *)
HandleReply_IgnoresError(c) ==
  /\ Running
  /\ c.state \in {"accepted", "refused"}
  /\ life[c.device] # "collected"
  /\ calls' = calls \ {c}
  /\ application_registered' =
       [application_registered EXCEPT ![c.device] = @ \/ c.kind = "application"]
  /\ advert_registered' =
       [advert_registered EXCEPT ![c.device] = @ \/ c.kind = "advert"]
  /\ UNCHANGED <<script, kernel, numbers, device_list, initialised, advert_initialised,
                 served, process, bluez>>

HandleReply_AcceptedOnly(c) == c.state = "accepted" /\ HandleReply_IgnoresError(c)

(* A refused application is logged without the device; an advertisement    *)
(* is logged by its name, whatever the answer.                             *)
TouchesDevice(c) == c.state = "accepted" \/ c.kind = "advert"

HandleReply(c) ==
  /\ Running
  /\ c.state \in {"accepted", "refused"}
  /\ life[c.device] = "collected" => ~TouchesDevice(c)
  /\ calls' = calls \ {c}
  /\ LET ok == c.state = "accepted" IN
     /\ application_registered' =
          [application_registered EXCEPT ![c.device] = @ \/ (ok /\ c.kind = "application")]
     /\ advert_registered' =
          [advert_registered EXCEPT ![c.device] = @ \/ (ok /\ c.kind = "advert")]
  /\ UNCHANGED <<script, kernel, numbers, device_list, initialised, advert_initialised,
                 served, process, bluez>>

HandleStaleReply(c) ==
  /\ Running
  /\ c.state \in {"accepted", "refused"}
  /\ life[c.device] = "collected" /\ TouchesDevice(c)
  /\ Undefined("use_after_free")

-----------------------------------------------------------------------------
RegistrationStep(d) ==
  \/ StaleLookup(d)
  \/ NoController(d)
  \/ ObjectFails(d)
  \/ ApplicationFails(d)
  \/ AdvertObjectFails(d)
  \/ AdvertFails(d)
  \/ RegisterDevice(d)

LuaStep(d) ==
  \/ Drop(d)
  \/ FreeGarbage(d)
  \/ Collect(d)

BluezAnswers == \E c \in calls : BluezAccepts(c) \/ BluezRefuses(c)

BluezStep ==
  \/ \E i \in Present : AdapterAppears(i)
  \/ \E i \in adapters : AdapterDisappears(i)
  \/ BluezAnswers

Dispatch == \E c \in calls : HandleReply(c) \/ HandleStaleReply(c)

Next ==
  \/ \E d \in Devices, n \in Names : CreateDevice(d, n)
  \/ \E d \in Devices : RegistrationStep(d)
  \/ \E d \in Devices : LuaStep(d)
  \/ BluezStep
  \/ Dispatch

(***************************************************************************)
(* BlueZ answers what it is asked, and dbusutils_mainloop_run dispatches   *)
(* on every tick; the script is free to do nothing.                        *)
(***************************************************************************)
Fairness == WF_vars(BluezAnswers) /\ WF_vars(Dispatch)

Spec == Init /\ [][Next]_vars /\ Fairness

-----------------------------------------------------------------------------
(* Type invariant.                                                         *)

CallSet ==
  [kind : {"application", "advert"}, device : Devices, adapter : Nat,
   state : {"sent", "accepted", "refused"}]

(* Every variable has its type.                                            *)
TypeOK ==
  /\ life \in [Devices -> {"absent", "held", "dropped", "collected"}]
  /\ device_name \in [Devices -> Names \cup {NULL}]
  /\ controller \in [Devices -> Nat \cup {NULL}]
  /\ virtual_controller \in [Devices -> Nat \cup {NULL}]
  /\ controller_count \in Nat
  /\ default_controller \in Nat
  /\ leaked \subseteq Nat
  /\ device_list \in Seq(Devices)
  /\ initialised \in [Devices -> BOOLEAN]
  /\ application_registered \in [Devices -> BOOLEAN]
  /\ advert_initialised \in [Devices -> BOOLEAN]
  /\ advert_registered \in [Devices -> BOOLEAN]
  /\ objects \subseteq Devices
  /\ adverts \subseteq Devices
  /\ process \in {"running", "use_after_free", "wild_free"}
  /\ calls \subseteq CallSet
  /\ adapters \subseteq Nat
  /\ bluez_applications \subseteq Nat \X Devices

-----------------------------------------------------------------------------
(* Safety.                                                                 *)

(* No name is on the list twice and no device is: the name check of        *)
(* device_register also refuses the device that is already registered.     *)
ListedNamesUnique ==
  \A i, j \in DOMAIN device_list :
    device_name[device_list[i]] = device_name[device_list[j]] => i = j

(* The path the simulator calls a device's controller by is the path of    *)
(* the controller it created for it: the program's count and the kernel's  *)
(* choice, made independently, agree.                                      *)
ControllerIsOwn ==
  \A d \in Listed : controller[d] = virtual_controller[d]

(* No two devices on the list share a controller path, whatever failed     *)
(* before: BlueZ never gets two applications for one adapter from us.      *)
OneDevicePerController ==
  \A i, j \in DOMAIN device_list :
    controller[device_list[i]] = controller[device_list[j]] => i = j

(* Every virtual controller still has a device that will close it: a       *)
(* repeated registration never opens a second one over the first.          *)
NoControllerLeaks == leaked = {}

(* Every answer of BlueZ finds the device it is for.                       *)
RepliesFindTheirDevice == process # "use_after_free"

(* A device that counts as registered is registered at BlueZ, under the    *)
(* adapter that is its own.                                                *)
RegisteredWhereItLives ==
  \A d \in Devices : application_registered[d] =>
    <<virtual_controller[d], d>> \in bluez_applications

(* A device whose registration got as far as the bus and then failed is    *)
(* lost: no later attempt ever puts it on the list.                        *)
FailureIsFinal ==
  [][\A d \in objects \ Listed : d \notin Listed']_vars

(* Freed names are read only after a listed device was collected, and a    *)
(* late answer hits freed memory only if its call was sent by a device     *)
(* that is still served: every stale use has a bus object as its witness.  *)
StaleUsesAreServed ==
  process = "use_after_free" => \E d \in objects : life[d] = "collected"

-----------------------------------------------------------------------------
(* The inductive invariants behind the safety properties.                  *)

(* What holds of any script, whatever fails and wherever it runs: a device *)
(* on the list was created, is served, and has one of the numbers given    *)
(* out so far; a call on its way was sent by a device that is served.      *)
ListedAreServed ==
  \A d \in Listed :
    /\ life[d] # "absent"
    /\ d \in objects
    /\ controller[d] \in 0..(controller_count - 1)

CallersAreServed == \A c \in calls : c.device \in objects

RegistrationInv ==
  /\ TypeOK
  /\ IsFiniteSet(leaked)
  /\ ListedAreServed
  /\ CallersAreServed
  /\ ListedNamesUnique
  /\ OneDevicePerController
  /\ StaleUsesAreServed

(* What holds where the host has no adapter, nothing but opening a         *)
(* controller fails, and the script keeps what it registered.              *)
SimulatorOwnsAll == HostControllers = {} /\ FailPoints \subseteq {"vhci_open"} /\ Anchored

(* The controllers there are have the numbers given out so far, no more    *)
(* and no less, so the kernel's next one is the program's next one.        *)
NumbersAreControllers ==
  /\ controller_count > 0
  /\ Present = 0..(controller_count - 1)

(* A device has a controller, a bus object and calls only once it is       *)
(* listed, and from then on keeps them.                                    *)
ListedOrNothing ==
  /\ objects = Listed
  /\ \A d \in Devices :
       IF d \in Listed
       THEN life[d] = "held"
       ELSE virtual_controller[d] = NULL /\ ~application_registered[d]
  /\ \A c \in calls : c.adapter = controller[c.device]

AcceptedIsRegistered ==
  \A c \in calls :
    c.kind = "application" /\ c.state = "accepted" =>
      <<c.adapter, c.device>> \in bluez_applications

OwnInv ==
  /\ RegistrationInv
  /\ NumbersAreControllers
  /\ ListedOrNothing
  /\ ControllerIsOwn
  /\ NoControllerLeaks
  /\ RepliesFindTheirDevice
  /\ AcceptedIsRegistered
  /\ RegisteredWhereItLives

-----------------------------------------------------------------------------
(* The registry that the calls under way and the flags make up.            *)

OfferOf(c) == [device |-> c.device, kind |-> c.kind]

OffersThatAre(state) == {OfferOf(c) : c \in {k \in calls : k.state = state}}

Confirmed ==
  [device : {d \in Devices : application_registered[d]}, kind : {"application"}]
    \cup [device : {d \in Devices : advert_registered[d]}, kind : {"advert"}]

Registry == INSTANCE DeviceRegistry WITH
  name      <- device_name,
  next      <- controller_count,
  adapter   <- virtual_controller,
  asked     <- OffersThatAre("sent"),
  accepted  <- OffersThatAre("accepted"),
  refused   <- OffersThatAre("refused"),
  confirmed <- Confirmed,
  hosted    <- bluez_applications,
  running   <- Running

(* Numbers, names, controllers, calls, answers and flags together make up  *)
(* a registry of devices: each gets the adapter of its turn and asks BlueZ *)
(* once for each thing it offers, every call is answered and every answer  *)
(* handled while the program runs, and what the flags say in the end is    *)
(* what BlueZ did.                                                         *)
IsRegistry == Registry!Spec
=============================================================================
