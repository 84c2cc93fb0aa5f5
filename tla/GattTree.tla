------------------------------ MODULE GattTree ------------------------------
(***************************************************************************)
(* The GATT object tree of the simulator: devices, services,               *)
(* characteristics and descriptors (device.c, service.c, characteristic.c, *)
(* descriptor.c), the intrusive lists that link them, the D-Bus objects    *)
(* they are registered as (dbusutils.c), and the life of the Lua userdata  *)
(* they live in (lua_interface.c).                                         *)
(*                                                                         *)
(* A script creates objects and adds them to one another.  A child that is *)
(* added gets an object path made of its parent's path and the parent's    *)
(* child counter, is registered on the bus under that path and pushed on   *)
(* the parent's list.  BlueZ reads the whole tree with GetManagedObjects   *)
(* and then calls the objects by path.  Nothing on the C side keeps the    *)
(* userdata alive: an object the script no longer refers to is collected,  *)
(* and its memory reused, whatever still points to it.                     *)
(*                                                                         *)
(* A call the code refuses (it returns false before changing anything) is  *)
(* a stuttering step.                                                      *)
(***************************************************************************)
EXTENDS Naturals, FiniteSets

CONSTANTS
  Devices, Services, Characteristics, Descriptors, \* the objects a script may create
  Uuids,
  NULL,
  Anchored,        \* the script keeps a reference to every object the bus can reach
  RegisterMayFail  \* dbus_connection_try_register_object_path may run out of memory

Children == Services \cup Characteristics \cup Descriptors
Parents == Devices \cup Services \cup Characteristics
Objects == Devices \cup Children

ASSUME KindsAreDisjoint ==
  /\ Devices \cap Children = {}
  /\ Services \cap Characteristics = {}
  /\ Services \cap Descriptors = {}
  /\ Characteristics \cap Descriptors = {}

ASSUME FlagsAreBoolean == Anchored \in BOOLEAN /\ RegisterMayFail \in BOOLEAN

(***************************************************************************)
(* "/dev0/serv1/char0" is <<<<<<<<>>, "dev", 0>>, "serv", 1>>, "char", 0>>. *)
(***************************************************************************)
CreateObjectPath(prev_path, object_name, object_id) ==
  <<prev_path, object_name, object_id>>

EmptyPath == <<>>
DevicePaths == {EmptyPath} \X {"dev"} \X Nat
ServicePaths == DevicePaths \X {"serv"} \X Nat
CharacteristicPaths == ServicePaths \X {"char"} \X Nat
DescriptorPaths == CharacteristicPaths \X {"desc"} \X Nat
Paths == DevicePaths \cup ServicePaths \cup CharacteristicPaths \cup DescriptorPaths

ASSUME NullIsNothing ==
  NULL \notin Objects \cup Uuids \cup Paths

VARIABLES
  life,         \* "absent", "held" by the script, "dropped" by it, "collected" by Lua
  uuid,         \* child -> its uuid
  object_path,  \* object -> its path, NULL before the first attempt to add it
  parent_path,  \* child -> device_path / service_path / characteristic_path
  head,         \* parent -> first child (services / characteristics / descriptors)
  next,         \* child -> next sibling
  count,        \* parent -> service_count / characteristic_count / descriptor_count
  device_count,
  registered,   \* <<path, object>> pairs in libdbus' object tree
  announced,    \* <<path, object>> pairs BlueZ got from GetManagedObjects
  freed,        \* objects whose object_path was freed and still points there
  advertised,   \* devices whose advertisement was initialised
  process       \* "running", "exited", or the undefined behaviour it ran into

objects == <<uuid, object_path, parent_path, device_count>>
lists == <<head, next, count>>
bus == <<registered, announced>>
heap == <<freed, advertised, process>>
vars == <<life, objects, lists, bus, heap>>

ChildrenOf(p) ==
  CASE p \in Devices -> Services
    [] p \in Services -> Characteristics
    [] p \in Characteristics -> Descriptors

ObjectName(c) ==
  CASE c \in Services -> "serv"
    [] c \in Characteristics -> "char"
    [] c \in Descriptors -> "desc"

-----------------------------------------------------------------------------
(* Walking a list.                                                         *)

(***************************************************************************)
(* The nodes the loop of device_get_service, service_get_characteristic or *)
(* characteristic_get_descriptor reads when it looks for uuid u: from the  *)
(* head along next, up to the first match.  It is the least set that holds *)
(* the head and, with a node that does not match, the node after it.       *)
(***************************************************************************)
ClosedWalk(p, u, S) ==
  /\ head[p] # NULL => head[p] \in S
  /\ \A x \in S : uuid[x] # u /\ next[x] # NULL => next[x] \in S

Visited(p, u) ==
  {c \in Children : \A S \in SUBSET Children : ClosedWalk(p, u, S) => c \in S}

(* The whole list: no uuid is NULL, so the walk ends only at its end.      *)
List(p) == Visited(p, NULL)

(* Mutant: the walk starts behind the head, and misses the newest child.   *)
HasUuid_SkipsHead(p, u) == \E c \in Visited(p, u) \ {head[p]} : uuid[c] = u

HasUuid(p, u) == \E c \in Visited(p, u) : uuid[c] = u

(* What device_get_managed_objects walks: three nested loops.              *)
ManagedObjects(d) ==
  LET chars == UNION {List(s) : s \in List(d)}
  IN  List(d) \cup chars \cup UNION {List(c) : c \in chars}

-----------------------------------------------------------------------------
Init ==
  /\ life = [o \in Objects |-> "absent"]
  /\ uuid = [c \in Children |-> NULL]
  /\ object_path = [o \in Objects |-> NULL]
  /\ parent_path = [c \in Children |-> NULL]
  /\ head = [p \in Parents |-> NULL]
  /\ next = [c \in Children |-> NULL]
  /\ count = [p \in Parents |-> 0]
  /\ device_count = 0
  /\ registered = {}
  /\ announced = {}
  /\ freed = {}
  /\ advertised = {}
  /\ process = "running"

Running == process = "running"

(* The step runs into undefined behaviour; nothing is said of what follows. *)
Undefined(how) ==
  /\ process' = how
  /\ UNCHANGED <<life, objects, lists, bus, freed, advertised>>

-----------------------------------------------------------------------------
(* ble.createDevice and its sisters.                                       *)

CreateDevice(d) ==
  /\ Running
  /\ life[d] = "absent"
  /\ life' = [life EXCEPT ![d] = "held"]
  /\ object_path' = [object_path EXCEPT ![d] = CreateObjectPath(EmptyPath, "dev", device_count)]
  /\ device_count' = device_count + 1
  /\ UNCHANGED <<uuid, parent_path, lists, bus, heap>>

(* Mutant: the constructor does not keep the uuid it is given.             *)
CreateChild_NoUuid(c, u) ==
  /\ Running
  /\ life[c] = "absent"
  /\ life' = [life EXCEPT ![c] = "held"]
  /\ UNCHANGED <<uuid, object_path, parent_path, device_count, lists, bus, heap>>

CreateChild(c, u) ==
  /\ Running
  /\ life[c] = "absent"
  /\ life' = [life EXCEPT ![c] = "held"]
  /\ uuid' = [uuid EXCEPT ![c] = u]
  /\ UNCHANGED <<object_path, parent_path, device_count, lists, bus, heap>>

CreateService(s, u) == CreateChild(s, u)
CreateCharacteristic(c, u) == CreateChild(c, u)
CreateDescriptor(d, u) == CreateChild(d, u)

-----------------------------------------------------------------------------
(* device:addService, service:addCharacteristic,                           *)
(* characteristic:addDescriptor.  The three functions are the same but for *)
(* the kinds of their arguments.                                           *)

InUse(path) == \E r \in registered : r[1] = path
Registered(o) == \E r \in registered : r[2] = o

NextPath(p, c) == CreateObjectPath(object_path[p], ObjectName(c), count[p])

(* Mutant: a child may be added to a second parent.                        *)
MayAdd_Again(p, c) == object_path[p] # NULL

(* Mutant: the parent is not asked whether it has a path.                  *)
MayAdd_NoPath(p, c) == parent_path[c] = NULL

(* The guards of the function: the early returns that refuse a call.       *)
MayAdd(p, c) ==
  /\ object_path[p] # NULL
  /\ parent_path[c] = NULL

(* The duplicate check reads a node that was collected, or the path of the *)
(* new object is built from a parent path that was freed.                  *)
ReadsFreedMemory(p, c) ==
  \/ \E n \in Visited(p, uuid[c]) : life[n] = "collected"
  \/ p \in freed

(* Mutants: the old list is dropped; the child is not counted.             *)
Link_LosesTail(p, c) ==
  /\ next' = [next EXCEPT ![c] = NULL]
  /\ head' = [head EXCEPT ![p] = c]
  /\ count' = [count EXCEPT ![p] = @ + 1]

Link_NotCounted(p, c) ==
  /\ next' = [next EXCEPT ![c] = head[p]]
  /\ head' = [head EXCEPT ![p] = c]
  /\ UNCHANGED count

Link(p, c) ==
  /\ next' = [next EXCEPT ![c] = head[p]]
  /\ head' = [head EXCEPT ![p] = c]
  /\ count' = [count EXCEPT ![p] = @ + 1]

(* Mutant: the child is linked but never registered on the bus.            *)
Attach_Unregistered(p, c) ==
  /\ ~InUse(NextPath(p, c))
  /\ object_path' = [object_path EXCEPT ![c] = NextPath(p, c)]
  /\ parent_path' = [parent_path EXCEPT ![c] = object_path[p]]
  /\ Link(p, c)
  /\ freed' = freed \ {c}
  /\ UNCHANGED <<life, uuid, device_count, bus, advertised, process>>

(* dbusutils_register_object succeeds, the child is pushed on the list.    *)
Attach(p, c) ==
  /\ ~InUse(NextPath(p, c))
  /\ object_path' = [object_path EXCEPT ![c] = NextPath(p, c)]
  /\ registered' = registered \cup {<<NextPath(p, c), c>>}
  /\ parent_path' = [parent_path EXCEPT ![c] = object_path[p]]
  /\ Link(p, c)
  /\ freed' = freed \ {c}
  /\ UNCHANGED <<life, uuid, device_count, announced, advertised, process>>

(* dbusutils_register_object fails: the new path is freed, not cleared.    *)
FailToAttach(p, c) ==
  /\ RegisterMayFail \/ InUse(NextPath(p, c))
  /\ object_path' = [object_path EXCEPT ![c] = NextPath(p, c)]
  /\ freed' = freed \cup {c}
  /\ UNCHANGED <<life, uuid, parent_path, device_count, lists, bus, advertised, process>>

AddChild(p, c) ==
  /\ Running
  /\ life[p] = "held" /\ life[c] = "held"
  /\ MayAdd(p, c)
  /\ \/ ReadsFreedMemory(p, c) /\ Undefined("use_after_free")
     \/ /\ \A n \in Visited(p, uuid[c]) : life[n] # "collected"
        /\ ~HasUuid(p, uuid[c])
        /\ Attach(p, c) \/ FailToAttach(p, c)

AddService(d, s) == AddChild(d, s)
AddCharacteristic(s, c) == AddChild(s, c)
AddDescriptor(c, d) == AddChild(c, d)

-----------------------------------------------------------------------------
(* The bus.                                                                *)

(* The steps of device_register that put the device on the bus and then    *)
(* initialise its advertisement, unless there is no memory for the call to *)
(* BlueZ in between (its other steps do not touch the tree).               *)
RegisterDevice(d) ==
  /\ Running
  /\ life[d] = "held"
  /\ ~InUse(object_path[d])
  /\ registered' = registered \cup {<<object_path[d], d>>}
  /\ \/ advertised' = advertised \cup {d}
     \/ RegisterMayFail /\ UNCHANGED advertised
  /\ UNCHANGED <<life, objects, lists, announced, freed, process>>

(* BlueZ calls GetManagedObjects on a registered device.                   *)
GetManagedObjects(d) ==
  /\ Running
  /\ <<object_path[d], d>> \in registered
  /\ life[d] # "collected"
  /\ IF \E o \in ManagedObjects(d) : life[o] = "collected"
     THEN Undefined("use_after_free")
     ELSE /\ announced' = announced \cup {<<object_path[o], o>> : o \in ManagedObjects(d)}
          /\ UNCHANGED <<life, objects, lists, registered, heap>>

(* BlueZ calls a method of a registered object.  On a live object this     *)
(* changes nothing here; a collected one is called through a stale pointer. *)
HandleMessage(o) ==
  /\ Running
  /\ Registered(o)
  /\ life[o] = "collected"
  /\ Undefined("use_after_free")

-----------------------------------------------------------------------------
(* Lua's memory management.                                                *)

(* The script loses its last reference to an object.                       *)
Drop(o) ==
  /\ Running
  /\ life[o] = "held"
  /\ Anchored => ~Registered(o)
  /\ life' = [life EXCEPT ![o] = "dropped"]
  /\ UNCHANGED <<objects, lists, bus, heap>>

(* The pointers of an advertisement that was never initialised are what    *)
(* was in the memory of the userdata before: device_init leaves them.      *)
FreesGarbage(o) == o \in Devices \ advertised

(* The collector runs the object's __gc: device_fini, service_fini, ...    *)
(* which frees object_path, and of a device its advertisement; then the    *)
(* memory itself goes.                                                     *)
Collect(o) ==
  /\ Running
  /\ life[o] = "dropped"
  /\ \/ o \in freed /\ Undefined("double_free")
     \/ FreesGarbage(o) /\ Undefined("wild_free")
     \/ /\ o \notin freed
        /\ life' = [life EXCEPT ![o] = "collected"]
        /\ UNCHANGED <<objects, lists, bus, heap>>

(* luai_cleanup closes the Lua state: every remaining object is finalised. *)
Alive(o) == life[o] \in {"held", "dropped"}

Close ==
  \/ /\ Running
     /\ \E o \in freed : Alive(o)
     /\ Undefined("double_free")
  \/ /\ Running
     /\ \E o \in Objects : Alive(o) /\ FreesGarbage(o)
     /\ Undefined("wild_free")
  \/ /\ Running
     /\ \A o \in freed : ~Alive(o)
     /\ life' = [o \in Objects |-> IF Alive(o) THEN "collected" ELSE life[o]]
     /\ process' = "exited"
     /\ UNCHANGED <<objects, lists, bus, freed, advertised>>

-----------------------------------------------------------------------------
ScriptStep ==
  \/ \E d \in Devices : CreateDevice(d)
  \/ \E s \in Services, u \in Uuids : CreateService(s, u)
  \/ \E c \in Characteristics, u \in Uuids : CreateCharacteristic(c, u)
  \/ \E d \in Descriptors, u \in Uuids : CreateDescriptor(d, u)
  \/ \E d \in Devices, s \in Services : AddService(d, s)
  \/ \E s \in Services, c \in Characteristics : AddCharacteristic(s, c)
  \/ \E c \in Characteristics, d \in Descriptors : AddDescriptor(c, d)
  \/ \E d \in Devices : RegisterDevice(d)

BusStep ==
  \/ \E d \in Devices : GetManagedObjects(d)
  \/ \E o \in Objects : HandleMessage(o)

LuaStep ==
  \/ \E o \in Objects : Drop(o)
  \/ \E o \in Objects : Collect(o)
  \/ Close

Next == ScriptStep \/ BusStep \/ LuaStep

Spec == Init /\ [][Next]_vars

-----------------------------------------------------------------------------
(* Type invariant.                                                         *)

PathsOf(o) ==
  CASE o \in Devices -> DevicePaths
    [] o \in Services -> ServicePaths
    [] o \in Characteristics -> CharacteristicPaths
    [] o \in Descriptors -> DescriptorPaths

(* Every variable has its type; an object's path has the depth of its      *)
(* kind; from the moment it is created a device has a path, a child a uuid. *)
TypeOK ==
  /\ life \in [Objects -> {"absent", "held", "dropped", "collected"}]
  /\ uuid \in [Children -> Uuids \cup {NULL}]
  /\ object_path \in [Objects -> Paths \cup {NULL}]
  /\ \A o \in Objects : object_path[o] \in PathsOf(o) \cup {NULL}
  /\ \A d \in Devices : life[d] # "absent" => object_path[d] # NULL
  /\ \A c \in Children : life[c] # "absent" => uuid[c] # NULL
  /\ parent_path \in [Children -> Paths \cup {NULL}]
  /\ head \in [Parents -> Children \cup {NULL}]
  /\ next \in [Children -> Children \cup {NULL}]
  /\ count \in [Parents -> Nat]
  /\ device_count \in Nat
  /\ registered \subseteq Paths \X Objects
  /\ announced \subseteq (Paths \cup {NULL}) \X Objects
  /\ freed \subseteq Children
  /\ advertised \subseteq Devices
  /\ process \in {"running", "exited", "use_after_free", "double_free", "wild_free"}

-----------------------------------------------------------------------------
(* Safety.                                                                 *)

Attached(c) == parent_path[c] # NULL
Index(c) == object_path[c][3]

(* No two objects on one list have the same uuid: the duplicate check of   *)
(* device_add_service, service_add_characteristic and                      *)
(* characteristic_add_descriptor sees the whole list, however long it got. *)
SiblingUuidsDistinct ==
  \A p \in Parents : \A c1, c2 \in List(p) : uuid[c1] = uuid[c2] => c1 = c2

(* A parent's list holds the children it counted, newest first: none is    *)
(* lost, none is on the list twice and the list ends, although a child is  *)
(* pushed by overwriting its next and its parent's head.                   *)
ListsAreComplete ==
  \A p \in Parents :
    /\ Cardinality(List(p)) = count[p]
    /\ head[p] # NULL => Index(head[p]) = count[p] - 1
    /\ \A c \in List(p) :
         IF next[c] = NULL THEN Index(c) = 0 ELSE Index(c) = Index(next[c]) + 1

(* No two objects are served at one path, and the path the next added      *)
(* object would get is free: a counter that only grows never collides with *)
(* an object added before, by whichever device, service or characteristic. *)
PathsNeverCollide ==
  /\ \A r1, r2 \in registered : r1[1] = r2[1] => r1 = r2
  /\ \A p \in Parents : \A c \in ChildrenOf(p) :
       object_path[p] # NULL => ~InUse(NextPath(p, c))

Under(path, root) ==
  \/ path \in ServicePaths /\ path[1] = root
  \/ path \in CharacteristicPaths /\ path[1][1] = root
  \/ path \in DescriptorPaths /\ path[1][1][1] = root

(* What GetManagedObjects reports of a device is what is served below its  *)
(* path: the three nested lists and libdbus' object tree, which no code    *)
(* relates, never disagree.  (The advertisement of a device, served below  *)
(* its path as well, is no part of the tree.)                              *)
TreeMatchesBus ==
  \A d \in Devices : object_path[d] # NULL =>
    {<<object_path[o], o>> : o \in ManagedObjects(d)}
      = {r \in registered : Under(r[1], object_path[d])}

(* What BlueZ was once told it may keep calling: a path it got from        *)
(* GetManagedObjects leads to the same, live object, which goes by that    *)
(* path itself when it sends a signal, as long as the simulator runs.      *)
AnnouncedStaysServed ==
  Running => \A a \in announced :
    a \in registered /\ Alive(a[2]) /\ object_path[a[2]] = a[1]

(* The simulator never reads nor frees what it freed before, and frees     *)
(* garbage only on behalf of a device that was created and never got on    *)
(* the bus: finalising one that did is safe.                               *)
OnlyUnregisteredDevicesHarm ==
  /\ process \notin {"use_after_free", "double_free"}
  /\ process = "wild_free" => \E d \in Devices : Alive(d) /\ ~Registered(d)

(* An object is added at most once: once it has a parent, its path, its    *)
(* parent and its registration stay, so BlueZ never sees it move.          *)
BindingsPermanent ==
  [][ /\ registered \subseteq registered'
      /\ \A c \in Children : Attached(c) =>
           object_path'[c] = object_path[c] /\ parent_path'[c] = parent_path[c] ]_vars

(* Whatever the script forgets and whichever registrations fail, freed     *)
(* memory is only reached through an object still served after its         *)
(* collection or through the path left behind by a failed add: an object   *)
(* that was never added dies without a trace.                              *)
OnlyServedObjectsDangle ==
  process = "use_after_free" =>
    freed # {} \/ \E o \in Objects : Registered(o) /\ life[o] = "collected"

(* "Service must be added to a device first in order to add a              *)
(* characteristic to it!": whoever has a child was added itself, unless it *)
(* was the adding that failed, which leaves behind the path that stands    *)
(* for having been added.                                                  *)
OnlyFailedAddsMisplace ==
  \A p \in Services \cup Characteristics : head[p] # NULL => Attached(p) \/ p \in freed

-----------------------------------------------------------------------------
(* The inductive invariant behind the safety properties when no            *)
(* registration fails.                                                     *)

Owns(p, c) ==
  /\ c \in ChildrenOf(p)
  /\ object_path[p] # NULL
  /\ parent_path[c] = object_path[p]

(* An object that has a path was added, or is a device that was created.   *)
PathsFollowLife ==
  /\ \A c \in Children : Attached(c) <=> object_path[c] # NULL
  /\ \A o \in Objects : life[o] = "absent" => object_path[o] = NULL

(* A path is made from the counter it was counted by.                      *)
PathsAreCounted ==
  /\ \A d \in Devices : object_path[d] # NULL =>
       \E i \in 0..(device_count - 1) :
          object_path[d] = CreateObjectPath(EmptyPath, "dev", i)
  /\ \A c \in Children : Attached(c) =>
       \E p \in Parents :
         /\ Owns(p, c)
         /\ \E i \in 0..(count[p] - 1) :
              object_path[c] = CreateObjectPath(object_path[p], ObjectName(c), i)

PathsAreDistinct ==
  \A o1, o2 \in Objects : object_path[o1] # NULL /\ object_path[o1] = object_path[o2] => o1 = o2

RegistryFollowsPaths ==
  /\ \A r \in registered : object_path[r[2]] = r[1]
  /\ \A c \in Children : Attached(c) => <<object_path[c], c>> \in registered

(* Lists lead from a parent to its own children, and to all of them.       *)
ListsStayInFamily ==
  /\ \A p \in Parents : head[p] # NULL => Owns(p, head[p])
  /\ \A c \in Children : next[c] # NULL => Attached(c)
  /\ \A p \in Parents, c \in Children : Owns(p, c) /\ next[c] # NULL => Owns(p, next[c])
  /\ \A p \in Parents, c \in Children : Owns(p, c) => c \in List(p)

OwnUuidsDistinct ==
  \A p \in Parents, c1, c2 \in Children :
    Owns(p, c1) /\ Owns(p, c2) /\ uuid[c1] = uuid[c2] => c1 = c2

(* An unbroken tree: no path dangles, and each of the parts above.         *)
TreeInv ==
  /\ TypeOK
  /\ freed = {}
  /\ PathsFollowLife
  /\ PathsAreCounted
  /\ PathsAreDistinct
  /\ RegistryFollowsPaths
  /\ ListsStayInFamily
  /\ OwnUuidsDistinct

(* Nothing the bus serves was let go of, as long as the simulator runs.    *)
ServedAreHeld == Running => \A r \in registered : life[r[2]] = "held"

(* A device that got on the bus has an advertisement to finalise.          *)
RegisteredAreAdvertised == \A d \in Devices : Registered(d) => d \in advertised

(* An unbroken tree whose served objects the script keeps: the inductive   *)
(* invariant behind memory safety when no registration fails and the       *)
(* script keeps every object the bus can reach.                            *)
SafeInv ==
  /\ TreeInv
  /\ ServedAreHeld
  /\ RegisteredAreAdvertised
  /\ announced \subseteq registered
  /\ OnlyUnregisteredDevicesHarm

(* What holds of lists and paths however registrations fail: only added    *)
(* objects are on lists, they are on the bus, and a path nobody added is   *)
(* one that was freed.                                                     *)
ListsLeadToServed ==
  /\ \A p \in Parents : head[p] # NULL => head[p] \in ChildrenOf(p) /\ Attached(head[p])
  /\ \A c \in Children : next[c] # NULL => Attached(next[c])
  /\ \A p \in Parents : \A c \in ChildrenOf(p) : next[c] # NULL => next[c] \in ChildrenOf(p)
  /\ \A c \in Children : Attached(c) => Registered(c)

(* Only what was created is ever added, so no uuid on a list changes.      *)
AddedWereCreated == \A c \in Children : Attached(c) => life[c] # "absent"

(* The inductive invariant of the lists, which no failure breaks.          *)
ListsInv ==
  /\ TypeOK
  /\ ListsLeadToServed
  /\ AddedWereCreated
  /\ \A p \in Parents : IsFiniteSet(List(p))
  /\ ListsAreComplete
  /\ SiblingUuidsDistinct

FreedPathsOnly ==
  /\ \A c \in Children : object_path[c] # NULL => Attached(c) \/ c \in freed
  /\ \A p \in Parents : head[p] # NULL => object_path[p] # NULL

-----------------------------------------------------------------------------
(* What it implements.                                                     *)

ParentOf(c) == IF Attached(c) THEN CHOOSE p \in Parents : Owns(p, c) ELSE NULL

Database == INSTANCE GattDatabase WITH
  created <- {o \in Objects : life[o] # "absent"},
  parent <- [c \in Children |-> ParentOf(c)],
  path <- object_path,
  served <- {r[2] : r \in registered},
  reported <- announced

(* Lists, counters, path strings and libdbus' object tree together are a   *)
(* database that only grows: whatever is created, added, collected and     *)
(* read in whatever order, BlueZ is told of exactly the objects that were  *)
(* added below a device, each under its one path.                          *)
IsDatabase == Database!Spec
=============================================================================
