--------------------------- MODULE GattTreeProofs ---------------------------
(***************************************************************************)
(* Theorems about GattTree, for every number of devices, services,         *)
(* characteristics, descriptors and uuids.                                 *)
(***************************************************************************)
EXTENDS GattTree, FiniteSetTheorems, TLAPS

USE KindsAreDisjoint, NullIsNothing, FlagsAreBoolean

-----------------------------------------------------------------------------
(* Kinds and paths.                                                        *)

(* A parent and a child of the matching kind.                              *)
LEMMA ChildKinds ==
  ASSUME NEW p \in Parents, NEW c \in ChildrenOf(p)
  PROVE  /\ c \in Children
         /\ c \in Objects /\ p \in Objects
         /\ \/ p \in Devices /\ c \in Services
            \/ p \in Services /\ c \in Characteristics
            \/ p \in Characteristics /\ c \in Descriptors
BY DEF ChildrenOf, Parents, Children, Objects

(* The path of the next child is a path of the child's kind.               *)
LEMMA NextPathType ==
  ASSUME TypeOK, NEW p \in Parents, NEW c \in ChildrenOf(p), object_path[p] # NULL
  PROVE  NextPath(p, c) \in PathsOf(c) /\ NextPath(p, c) \in Paths
<1>1. count[p] \in Nat /\ object_path[p] \in PathsOf(p)
  BY ChildKinds DEF TypeOK
<1>2. CASE p \in Devices /\ c \in Services
  BY <1>1, <1>2 DEF NextPath, CreateObjectPath, ObjectName, PathsOf, Paths, Children, ServicePaths
<1>3. CASE p \in Services /\ c \in Characteristics
  BY <1>1, <1>3 DEF NextPath, CreateObjectPath, ObjectName, PathsOf, Paths, Children, CharacteristicPaths
<1>4. CASE p \in Characteristics /\ c \in Descriptors
  BY <1>1, <1>4 DEF NextPath, CreateObjectPath, ObjectName, PathsOf, Paths, Children, DescriptorPaths
<1> QED
  BY <1>2, <1>3, <1>4, ChildKinds

(* What a step can be, with the sister actions of one kind taken together. *)
LEMMA StepCases ==
  ASSUME Next
  PROVE  \/ \E d \in Devices : CreateDevice(d)
         \/ \E c \in Children, u \in Uuids : CreateChild(c, u)
         \/ \E p \in Parents : \E c \in ChildrenOf(p) : AddChild(p, c)
         \/ \E d \in Devices : RegisterDevice(d)
         \/ \E d \in Devices : GetManagedObjects(d)
         \/ \E o \in Objects : HandleMessage(o)
         \/ \E o \in Objects : Drop(o)
         \/ \E o \in Objects : Collect(o)
         \/ Close
<1>1. CASE \E d \in Devices, s \in Services : AddService(d, s)
  BY <1>1 DEF AddService, ChildrenOf, Parents, Children
<1>2. CASE \E s \in Services, c \in Characteristics : AddCharacteristic(s, c)
  BY <1>2 DEF AddCharacteristic, ChildrenOf, Parents, Children
<1>3. CASE \E c \in Characteristics, d \in Descriptors : AddDescriptor(c, d)
  BY <1>3 DEF AddDescriptor, ChildrenOf, Parents, Children
<1>4. CASE \/ \E s \in Services, u \in Uuids : CreateService(s, u)
           \/ \E c \in Characteristics, u \in Uuids : CreateCharacteristic(c, u)
           \/ \E d \in Descriptors, u \in Uuids : CreateDescriptor(d, u)
  BY <1>4 DEF CreateService, CreateCharacteristic, CreateDescriptor, Children
<1> QED
  BY <1>1, <1>2, <1>3, <1>4 DEF Next, ScriptStep, BusStep, LuaStep

-----------------------------------------------------------------------------
(* Type correctness.                                                       *)

LEMMA InitType == Init => TypeOK
BY DEF Init, TypeOK, Objects

LEMMA UndefinedType ==
  ASSUME TypeOK, NEW how \in {"use_after_free", "double_free", "wild_free"}, Undefined(how)
  PROVE  TypeOK'
BY DEF TypeOK, Undefined, objects, lists, bus, PathsOf

LEMMA AddChildType ==
  ASSUME TypeOK, NEW p \in Parents, NEW c \in ChildrenOf(p), AddChild(p, c)
  PROVE  TypeOK'
<1> USE ChildKinds
<1>1. CASE Undefined("use_after_free")
  BY <1>1, UndefinedType
<1>2. ASSUME Attach(p, c) \/ FailToAttach(p, c), MayAdd(p, c)  PROVE TypeOK'
  <2>1. NextPath(p, c) \in PathsOf(c) /\ NextPath(p, c) \in Paths
    BY <1>2, NextPathType DEF MayAdd
  <2>2. object_path' = [object_path EXCEPT ![c] = NextPath(p, c)]
    BY <1>2 DEF Attach, FailToAttach
  <2>3. /\ object_path' \in [Objects -> Paths \cup {NULL}]
        /\ \A o \in Objects : object_path'[o] \in PathsOf(o) \cup {NULL}
    BY <2>1, <2>2 DEF TypeOK
  <2>4. CASE Attach(p, c)
    <3>1. /\ parent_path' \in [Children -> Paths \cup {NULL}]
          /\ registered' \subseteq Paths \X Objects
          /\ freed' \subseteq Children
      BY <2>1, <2>4 DEF Attach, TypeOK
    <3>2. /\ head' \in [Parents -> Children \cup {NULL}]
          /\ next' \in [Children -> Children \cup {NULL}]
          /\ count' \in [Parents -> Nat]
      BY <2>4 DEF Attach, Link, TypeOK
    <3> QED
      BY <2>3, <2>4, <3>1, <3>2 DEF Attach, TypeOK
  <2>5. CASE FailToAttach(p, c)
    BY <2>3, <2>5 DEF FailToAttach, TypeOK, lists, bus
  <2> QED
    BY <1>2, <2>4, <2>5
<1> QED
  BY <1>1, <1>2 DEF AddChild

LEMMA NextType == TypeOK /\ [Next]_vars => TypeOK'
<1> SUFFICES ASSUME TypeOK, [Next]_vars PROVE TypeOK'
  OBVIOUS
<1> USE DEF objects, lists, bus, heap
<1>1. CASE UNCHANGED vars
  BY <1>1 DEF vars, TypeOK
<1>2. ASSUME NEW d \in Devices, CreateDevice(d) PROVE TypeOK'
  <2>1. CreateObjectPath(EmptyPath, "dev", device_count) \in DevicePaths
    BY DEF CreateObjectPath, DevicePaths, TypeOK
  <2>2. /\ object_path' \in [Objects -> Paths \cup {NULL}]
        /\ \A o \in Objects : object_path'[o] \in PathsOf(o) \cup {NULL}
    <3>1. CreateObjectPath(EmptyPath, "dev", device_count) \in PathsOf(d) \cap Paths
      BY <2>1 DEF PathsOf, Paths, Children
    <3> QED
      BY <1>2, <3>1 DEF CreateDevice, TypeOK, Objects
  <2>3. \A e \in Devices : life'[e] # "absent" => object_path'[e] # NULL
    BY <1>2, <2>1 DEF CreateDevice, TypeOK, Objects, Paths
  <2> QED
    BY <1>2, <2>2, <2>3 DEF CreateDevice, TypeOK
<1>3. ASSUME NEW c \in Children, NEW u \in Uuids, CreateChild(c, u) PROVE TypeOK'
  BY <1>3 DEF CreateChild, TypeOK, Objects
<1>4. ASSUME NEW p \in Parents, NEW c \in ChildrenOf(p), AddChild(p, c) PROVE TypeOK'
  BY <1>4, AddChildType
<1>5. ASSUME NEW d \in Devices, RegisterDevice(d) PROVE TypeOK'
  <2>1. object_path[d] \in Paths
    <3>1. d \in Objects /\ object_path[d] \in Paths \cup {NULL} /\ object_path[d] # NULL
      BY <1>5 DEF RegisterDevice, TypeOK, Objects
    <3> QED
      BY <3>1
  <2>2. registered' \subseteq Paths \X Objects
    BY <1>5, <2>1 DEF RegisterDevice, TypeOK, Objects
  <2> QED
    BY <1>5, <2>2 DEF RegisterDevice, TypeOK
<1>6. ASSUME NEW d \in Devices, GetManagedObjects(d) PROVE TypeOK'
  <2>1. CASE Undefined("use_after_free")
    BY <2>1, UndefinedType
  <2>2. CASE /\ announced' = announced \cup {<<object_path[o], o>> : o \in ManagedObjects(d)}
             /\ UNCHANGED <<life, objects, lists, registered, heap>>
    <3>1. ManagedObjects(d) \subseteq Objects
      BY DEF ManagedObjects, List, Visited, Objects
    <3>2. announced' \subseteq (Paths \cup {NULL}) \X Objects
      BY <2>2, <3>1 DEF TypeOK
    <3> QED
      BY <2>2, <3>2 DEF TypeOK
  <2> QED
    BY <1>6, <2>1, <2>2 DEF GetManagedObjects
<1>7. ASSUME NEW o \in Objects, HandleMessage(o) PROVE TypeOK'
  BY <1>7, UndefinedType DEF HandleMessage
<1>8. ASSUME NEW o \in Objects, Drop(o) PROVE TypeOK'
  BY <1>8 DEF Drop, TypeOK
<1>9. ASSUME NEW o \in Objects, Collect(o) PROVE TypeOK'
  <2>1. CASE /\ life' = [life EXCEPT ![o] = "collected"]
             /\ life[o] = "dropped"
             /\ UNCHANGED <<objects, lists, bus, heap>>
    BY <2>1 DEF TypeOK, Objects
  <2> QED
    BY <1>9, <2>1, UndefinedType DEF Collect
<1>10. CASE Close
  <2>1. CASE /\ life' = [o \in Objects |-> IF Alive(o) THEN "collected" ELSE life[o]]
             /\ process' = "exited"
             /\ UNCHANGED <<objects, lists, bus, freed, advertised>>
    BY <2>1 DEF TypeOK, Alive, Objects
  <2> QED
    BY <1>10, <2>1, UndefinedType DEF Close
<1> QED
  BY StepCases, <1>1, <1>2, <1>3, <1>4, <1>5, <1>6, <1>7, <1>8, <1>9, <1>10

(* The specification is type correct: the paths of services,               *)
(* characteristics and descriptors are always one level below their        *)
(* parents', however calls fail.                                           *)
THEOREM TypeCorrect == Spec => []TypeOK
BY InitType, NextType, PTL DEF Spec
-----------------------------------------------------------------------------
(* Walks.                                                                  *)

(* Every node on a parent's list is one of its children.                   *)
LEMMA ListIsOwn ==
  ASSUME TypeOK, ListsStayInFamily, NEW p \in Parents
  PROVE  \A c \in List(p) : Owns(p, c)
<1> DEFINE S == {c \in Children : Owns(p, c)}
<1>1. ClosedWalk(p, NULL, S)
  <2>1. head[p] # NULL => head[p] \in S
    BY DEF ListsStayInFamily, TypeOK
  <2>2. \A x \in S : next[x] # NULL => next[x] \in S
    BY DEF ListsStayInFamily, TypeOK
  <2> QED
    BY <2>1, <2>2 DEF ClosedWalk
<1> QED
  BY <1>1 DEF List, Visited

(* A lookup that finds nothing has seen the whole list.                    *)
LEMMA FailedLookupSeesAll ==
  ASSUME TypeOK, NEW p \in Parents, NEW u, ~HasUuid(p, u)
  PROVE  \A c \in List(p) : uuid[c] # u
<1> DEFINE V == Visited(p, u)
<1>1. \A x \in V : uuid[x] # u
  BY DEF HasUuid
<1>2. ClosedWalk(p, NULL, V)
  <2>1. head[p] # NULL => head[p] \in V
    BY DEF Visited, ClosedWalk, TypeOK
  <2>2. ASSUME NEW x \in V, next[x] # NULL PROVE next[x] \in V
    <3>1. x \in Children /\ next[x] \in Children
      BY <2>2 DEF Visited, TypeOK
    <3>2. \A S \in SUBSET Children : ClosedWalk(p, u, S) => next[x] \in S
      BY <1>1, <2>2 DEF Visited, ClosedWalk
    <3> QED
      BY <3>1, <3>2 DEF Visited
  <2> QED
    BY <2>1, <2>2 DEF ClosedWalk
<1>3. V \in SUBSET Children
  BY DEF Visited
<1>4. List(p) \subseteq V
  BY <1>2, <1>3 DEF List, Visited
<1> QED
  BY <1>1, <1>4

(* Pushing a child that is on no list puts it on its parent's and takes no *)
(* other child off any list.                                               *)
LEMMA LinkGrowsLists ==
  ASSUME TypeOK, NEW p \in Parents, NEW c \in Children, Link(p, c),
         next[c] = NULL, uuid' = uuid, uuid[c] # NULL
  PROVE  /\ \A q \in Parents : List(q) \subseteq List(q)'
         /\ c \in List(p)'
<1>0. c # NULL
  BY DEF Objects
<1>1. head'[p] = c /\ next'[c] = head[p]
  BY DEF Link, TypeOK
<1>2. ASSUME NEW q \in Parents, NEW S \in SUBSET Children, ClosedWalk(q, NULL, S)'
      PROVE  ClosedWalk(q, NULL, S)
  <2>1. head[q] # NULL => head[q] \in S
    <3>1. CASE q = p
      <4>1. c \in S
        BY <1>0, <1>1, <1>2, <3>1 DEF ClosedWalk
      <4>2. head[p] # NULL => head[p] \in S
        BY <1>1, <1>2, <4>1 DEF ClosedWalk
      <4> QED
        BY <3>1, <4>2
    <3>2. CASE q # p
      BY <1>2, <3>2 DEF ClosedWalk, Link, TypeOK
    <3> QED
      BY <3>1, <3>2
  <2>2. ASSUME NEW x \in S, uuid[x] # NULL, next[x] # NULL PROVE next[x] \in S
    <3>1. x # c /\ next'[x] = next[x]
      BY <2>2 DEF Link, TypeOK
    <3> QED
      BY <1>2, <2>2, <3>1 DEF ClosedWalk
  <2> QED
    BY <2>1, <2>2 DEF ClosedWalk
<1>3. \A q \in Parents : List(q) \subseteq List(q)'
  BY <1>2 DEF List, Visited
<1>4. c \in List(p)'
  <2>1. \A S \in SUBSET Children : ClosedWalk(p, NULL, S)' => c \in S
    BY <1>0, <1>1 DEF ClosedWalk
  <2> QED
    BY <2>1 DEF List, Visited
<1> QED
  BY <1>3, <1>4

-----------------------------------------------------------------------------
(* Fresh paths.                                                            *)

(* The path of the next child of p belongs to no object.                   *)
LEMMA NextPathIsFresh ==
  ASSUME TypeOK, PathsFollowLife, PathsAreCounted, PathsAreDistinct,
         NEW p \in Parents, NEW c \in ChildrenOf(p), object_path[p] # NULL
  PROVE  \A o \in Objects : object_path[o] # NextPath(p, c)
<1> SUFFICES ASSUME NEW o \in Objects, object_path[o] = NextPath(p, c) PROVE FALSE
  OBVIOUS
<1>1. /\ NextPath(p, c) # NULL
      /\ NextPath(p, c) = <<object_path[p], ObjectName(c), count[p]>>
      /\ ObjectName(c) # "dev"
  BY NextPathType, ChildKinds DEF NextPath, CreateObjectPath, ObjectName, Paths, Children
<1>2. CASE o \in Devices
  <2>1. PICK i \in 0..(device_count - 1) : object_path[o] = <<EmptyPath, "dev", i>>
    BY <1>1, <1>2 DEF PathsAreCounted, CreateObjectPath
  <2> QED
    BY <1>1, <2>1
<1>3. CASE o \in Children
  <2>1. PICK q \in Parents :
          /\ Owns(q, o)
          /\ \E i \in 0..(count[q] - 1) :
               object_path[o] = <<object_path[q], ObjectName(o), i>>
    BY <1>1, <1>3 DEF PathsFollowLife, PathsAreCounted, CreateObjectPath
  <2>2. PICK i \in 0..(count[q] - 1) : object_path[o] = <<object_path[q], ObjectName(o), i>>
    BY <2>1
  <2>3. object_path[q] = object_path[p] /\ i = count[p]
    BY <1>1, <2>2
  <2>4. q = p
    BY <2>3, ChildKinds DEF PathsAreDistinct, Parents, Children, Objects
  <2> QED
    BY <2>2, <2>3, <2>4 DEF TypeOK
<1> QED
  BY <1>2, <1>3 DEF Objects

(* Nothing is served there either.                                         *)
LEMMA NextPathIsNotInUse ==
  ASSUME TreeInv, NEW p \in Parents, NEW c \in ChildrenOf(p), object_path[p] # NULL
  PROVE  ~InUse(NextPath(p, c))
<1>1. \A o \in Objects : object_path[o] # NextPath(p, c)
  BY NextPathIsFresh DEF TreeInv
<1>2. \A r \in registered : r[2] \in Objects /\ object_path[r[2]] = r[1]
  BY DEF TreeInv, TypeOK, RegistryFollowsPaths
<1> QED
  BY <1>1, <1>2 DEF InUse
-----------------------------------------------------------------------------
(* The invariant.                                                          *)

LEMMA InitInv == Init => TreeInv
<1> SUFFICES ASSUME Init PROVE TreeInv
  OBVIOUS
<1>1. /\ \A o \in Objects : object_path[o] = NULL /\ life[o] = "absent"
      /\ \A c \in Children : parent_path[c] = NULL /\ next[c] = NULL
      /\ \A p \in Parents : head[p] = NULL
      /\ freed = {} /\ registered = {}
      /\ Devices \subseteq Objects /\ Children \subseteq Objects /\ Parents \subseteq Objects
  BY DEF Init, Objects, Parents, Children
<1>2. \A p \in Parents, c \in Children : ~Owns(p, c)
  BY <1>1 DEF Owns
<1>3. PathsFollowLife /\ PathsAreCounted /\ PathsAreDistinct /\ RegistryFollowsPaths
  BY <1>1 DEF PathsFollowLife, PathsAreCounted, PathsAreDistinct, RegistryFollowsPaths, Attached
<1>4. ListsStayInFamily /\ OwnUuidsDistinct
  BY <1>1, <1>2 DEF ListsStayInFamily, OwnUuidsDistinct
<1> QED
  BY <1>1, <1>3, <1>4, InitType DEF TreeInv

(* Steps that leave the tree and the bus alone.                            *)
LEMMA FrameInv ==
  ASSUME TreeInv, TypeOK',
         UNCHANGED <<uuid, object_path, parent_path, device_count, lists, registered, freed>>,
         \A o \in Objects : life'[o] = "absent" => life[o] = "absent"
  PROVE  TreeInv'
<1> USE DEF lists
<1>1. (\A p \in Parents : List(p)' = List(p)) /\ (\A p \in Parents, c \in Children : Owns(p, c)' <=> Owns(p, c))
  BY DEF List, Visited, ClosedWalk, Owns
<1>2. PathsFollowLife'
  BY DEF TreeInv, PathsFollowLife, Attached
<1>3. PathsAreCounted'
  BY <1>1 DEF TreeInv, PathsAreCounted, Attached
<1>4. PathsAreDistinct' /\ RegistryFollowsPaths'
  BY DEF TreeInv, PathsAreDistinct, RegistryFollowsPaths, Attached
<1>5. ListsStayInFamily'
  BY <1>1 DEF TreeInv, ListsStayInFamily, Attached, Owns, List, Visited, ClosedWalk
<1>6. OwnUuidsDistinct'
  BY <1>1 DEF TreeInv, OwnUuidsDistinct
<1> QED
  BY <1>2, <1>3, <1>4, <1>5, <1>6 DEF TreeInv
(* A new device: its path is fresh because device_count was never used.    *)
LEMMA CreateDeviceInv ==
  ASSUME TreeInv, TypeOK', NEW d \in Devices, CreateDevice(d)
  PROVE  TreeInv'
<1> USE DEF lists, bus, heap
<1>1. d \in Objects /\ d \notin Children /\ object_path[d] = NULL
  BY DEF CreateDevice, TreeInv, PathsFollowLife, Objects
<1>2. /\ object_path'[d] = <<EmptyPath, "dev", device_count>>
      /\ \A o \in Objects : o # d => object_path'[o] = object_path[o]
      /\ object_path'[d] \in DevicePaths /\ object_path'[d] # NULL
      /\ device_count \in Nat /\ device_count' = device_count + 1
  BY <1>1 DEF CreateDevice, CreateObjectPath, TreeInv, TypeOK, DevicePaths, Paths
<1>3. /\ UNCHANGED <<uuid, parent_path, head, next, count, registered, freed>>
      /\ \A o \in Objects : o # d => life'[o] = life[o]
      /\ life'[d] # "absent"
  BY <1>1 DEF CreateDevice, TreeInv, TypeOK
<1>4. \A o \in Objects : object_path[o] # object_path'[d]
  <2> SUFFICES ASSUME NEW o \in Objects, object_path[o] = object_path'[d] PROVE FALSE
    OBVIOUS
  <2>1. CASE o \in Devices
    BY <1>2, <2>1 DEF TreeInv, PathsAreCounted, CreateObjectPath
  <2>2. CASE o \in Children
    <3>1. ObjectName(o) # "dev"
      BY <2>2 DEF ObjectName, Children
    <3>2. PICK q \in Parents : \E i \in 0..(count[q] - 1) :
            object_path[o] = <<object_path[q], ObjectName(o), i>>
      BY <1>2, <2>2 DEF TreeInv, PathsFollowLife, PathsAreCounted, CreateObjectPath
    <3> QED
      BY <1>2, <3>1, <3>2
  <2> QED
    BY <2>1, <2>2 DEF Objects
<1>5. \A p \in Parents, c \in Children : Owns(p, c)' <=> Owns(p, c)
  <2> SUFFICES ASSUME NEW p \in Parents, NEW c \in Children PROVE Owns(p, c)' <=> Owns(p, c)
    OBVIOUS
  <2>1. CASE p # d
    BY <1>2, <1>3, <2>1 DEF Owns, Parents, Objects, Children
  <2>2. CASE p = d
    <3>1. ~Owns(p, c)
      BY <1>1, <2>2 DEF Owns
    <3>2. ASSUME Owns(p, c)' PROVE FALSE
      <4>1. parent_path[c] = object_path'[d] /\ parent_path[c] # NULL
        BY <1>2, <1>3, <2>2, <3>2 DEF Owns
      <4>2. PICK q \in Parents : parent_path[c] = object_path[q]
        BY <4>1 DEF TreeInv, PathsAreCounted, Attached, Owns
      <4> QED
        BY <1>4, <4>1, <4>2 DEF Parents, Objects, Children
    <3> QED
      BY <3>1, <3>2
  <2> QED
    BY <2>1, <2>2
<1>6. \A p \in Parents : List(p)' = List(p)
  BY <1>3 DEF List, Visited, ClosedWalk
<1>7. PathsFollowLife'
  BY <1>1, <1>2, <1>3 DEF TreeInv, PathsFollowLife, Attached, Objects
<1>8. PathsAreCounted'
  <2>1. ASSUME NEW e \in Devices, object_path'[e] # NULL
        PROVE  \E i \in 0..(device_count' - 1) : object_path'[e] = CreateObjectPath(EmptyPath, "dev", i)
    <3>1. CASE e = d
      BY <1>2, <3>1 DEF CreateObjectPath
    <3>2. CASE e # d
      BY <1>2, <2>1, <3>2 DEF TreeInv, PathsAreCounted, Objects
    <3> QED
      BY <3>1, <3>2
  <2>2. ASSUME NEW c \in Children, Attached(c)'
        PROVE  \E p \in Parents :
                 /\ Owns(p, c)'
                 /\ \E i \in 0..(count'[p] - 1) :
                      object_path'[c] = CreateObjectPath(object_path'[p], ObjectName(c), i)
    <3>1. PICK p \in Parents :
            /\ Owns(p, c)
            /\ \E i \in 0..(count[p] - 1) :
                 object_path[c] = CreateObjectPath(object_path[p], ObjectName(c), i)
      BY <1>3, <2>2 DEF TreeInv, PathsAreCounted, Attached
    <3>2. p # d /\ c # d /\ c \in Objects /\ p \in Objects
      BY <1>1, <3>1 DEF Owns, Objects, Parents, Children
    <3> QED
      BY <1>2, <1>3, <1>5, <3>1, <3>2
  <2> QED
    BY <2>1, <2>2 DEF PathsAreCounted
<1>9. PathsAreDistinct'
  BY <1>2, <1>4 DEF TreeInv, PathsAreDistinct
<1>10. RegistryFollowsPaths'
  <2>1. \A r \in registered : r[2] \in Objects /\ r[1] # NULL
    BY DEF TreeInv, TypeOK
  <2> QED
    BY <1>1, <1>2, <1>3, <2>1 DEF TreeInv, RegistryFollowsPaths, Attached, Objects
<1>11. ListsStayInFamily'
  <2>1. \A p \in Parents : (head[p] # NULL => Owns(p, head[p]))'
    BY <1>3, <1>5 DEF TreeInv, TypeOK, ListsStayInFamily
  <2>2. \A c \in Children : next'[c] # NULL => Attached(c)'
    BY <1>3 DEF TreeInv, ListsStayInFamily, Attached
  <2>3. \A p \in Parents, c \in Children : (Owns(p, c) /\ next[c] # NULL => Owns(p, next[c]))'
    BY <1>3, <1>5 DEF TreeInv, TypeOK, ListsStayInFamily
  <2>4. \A p \in Parents, c \in Children : Owns(p, c)' => c \in List(p)'
    BY <1>5, <1>6 DEF TreeInv, ListsStayInFamily
  <2> QED
    BY <2>1, <2>2, <2>3, <2>4 DEF ListsStayInFamily
<1>12. OwnUuidsDistinct'
  BY <1>3, <1>5 DEF TreeInv, OwnUuidsDistinct
<1> QED
  BY <1>3, <1>7, <1>8, <1>9, <1>10, <1>11, <1>12 DEF TreeInv

(* A new child has no parent yet, so its uuid is on no list.               *)
LEMMA CreateChildInv ==
  ASSUME TreeInv, TypeOK', NEW c \in Children, NEW u \in Uuids, CreateChild(c, u)
  PROVE  TreeInv'
<1> USE DEF lists, bus, heap
<1>1. /\ c \in Objects /\ object_path[c] = NULL /\ parent_path[c] = NULL
      /\ next[c] = NULL
      /\ \A p \in Parents : ~Owns(p, c)
  BY DEF CreateChild, TreeInv, PathsFollowLife, ListsStayInFamily, Attached, Objects, Owns
<1>2. /\ UNCHANGED <<object_path, parent_path, device_count, head, next, count, registered, freed>>
      /\ \A x \in Children : x # c => uuid'[x] = uuid[x]
      /\ \A o \in Objects : life'[o] = "absent" => life[o] = "absent"
  BY <1>1 DEF CreateChild, TreeInv, TypeOK
<1>3. \A p \in Parents, x \in Children : Owns(p, x)' <=> Owns(p, x)
  BY <1>2 DEF Owns
<1>4. \A p \in Parents : List(p) \subseteq List(p)'
  <2>1. ASSUME NEW p \in Parents, NEW S \in SUBSET Children, ClosedWalk(p, NULL, S)'
        PROVE  ClosedWalk(p, NULL, S)
    BY <1>1, <1>2, <2>1 DEF ClosedWalk
  <2> QED
    BY <2>1 DEF List, Visited
<1>5. PathsFollowLife' /\ PathsAreDistinct' /\ RegistryFollowsPaths'
  BY <1>2 DEF TreeInv, PathsFollowLife, PathsAreDistinct, RegistryFollowsPaths, Attached
<1>6. PathsAreCounted'
  BY <1>2, <1>3 DEF TreeInv, PathsAreCounted, Attached
<1>7. ListsStayInFamily'
  <2>1. \A p \in Parents : (head[p] # NULL => Owns(p, head[p]))'
    BY <1>2, <1>3 DEF TreeInv, TypeOK, ListsStayInFamily
  <2>2. \A x \in Children : next'[x] # NULL => Attached(x)'
    BY <1>2 DEF TreeInv, ListsStayInFamily, Attached
  <2>3. \A p \in Parents, x \in Children : (Owns(p, x) /\ next[x] # NULL => Owns(p, next[x]))'
    BY <1>2, <1>3 DEF TreeInv, TypeOK, ListsStayInFamily
  <2>4. \A p \in Parents, x \in Children : Owns(p, x)' => x \in List(p)'
    BY <1>3, <1>4 DEF TreeInv, ListsStayInFamily
  <2> QED
    BY <2>1, <2>2, <2>3, <2>4 DEF ListsStayInFamily
<1>8. OwnUuidsDistinct'
  BY <1>1, <1>2, <1>3 DEF TreeInv, OwnUuidsDistinct
<1> QED
  BY <1>2, <1>5, <1>6, <1>7, <1>8 DEF TreeInv
(* A child is added: it becomes its parent's newest, everybody else stays. *)
LEMMA AttachInv ==
  ASSUME TreeInv, TypeOK', NEW p \in Parents, NEW c \in ChildrenOf(p),
         MayAdd(p, c), life[c] = "held", uuid[c] # NULL, ~HasUuid(p, uuid[c]), Attach(p, c)
  PROVE  TreeInv'
<1> DEFINE path == NextPath(p, c)
<1> USE ChildKinds
<1>1. /\ object_path[p] # NULL /\ object_path[p] \in Paths
      /\ parent_path[c] = NULL /\ object_path[c] = NULL /\ next[c] = NULL
      /\ p # c /\ path \in Paths /\ path # NULL
      /\ count[p] \in Nat
  <2>1. object_path[p] # NULL /\ parent_path[c] = NULL
    BY DEF MayAdd
  <2>2. object_path[c] = NULL /\ next[c] = NULL
    BY <2>1 DEF TreeInv, PathsFollowLife, ListsStayInFamily, Attached
  <2>3. path \in Paths
    BY <2>1, NextPathType DEF TreeInv
  <2> QED
    BY <2>1, <2>2, <2>3 DEF TreeInv, TypeOK
<1>2. /\ object_path'[c] = path
      /\ \A o \in Objects : o # c => object_path'[o] = object_path[o]
      /\ parent_path'[c] = object_path[p]
      /\ \A x \in Children : x # c => parent_path'[x] = parent_path[x]
      /\ registered' = registered \cup {<<path, c>>}
      /\ UNCHANGED <<life, uuid, device_count>>
      /\ freed' = {}
  BY DEF Attach, TreeInv, TypeOK
<1>3. /\ head'[p] = c
      /\ \A q \in Parents : q # p => head'[q] = head[q] /\ count'[q] = count[q]
      /\ next'[c] = head[p]
      /\ \A x \in Children : x # c => next'[x] = next[x]
      /\ count'[p] = count[p] + 1
  BY DEF Attach, Link, TreeInv, TypeOK
<1>4. /\ \A o \in Objects : object_path[o] # path
      /\ path = CreateObjectPath(object_path[p], ObjectName(c), count[p])
  BY <1>1, NextPathIsFresh DEF TreeInv, NextPath
<1>5. \A q \in Parents, x \in Children : Owns(q, x) => Owns(q, x)'
  <2> SUFFICES ASSUME NEW q \in Parents, NEW x \in Children, Owns(q, x) PROVE Owns(q, x)'
    OBVIOUS
  <2>1. x # c /\ q # c /\ q \in Objects
    BY <1>1 DEF Owns, Parents, Children, Objects
  <2> QED
    BY <1>2, <2>1 DEF Owns
<1>6. \A q \in Parents, x \in Children : Owns(q, x)' => Owns(q, x) \/ (q = p /\ x = c)
  <2> SUFFICES ASSUME NEW q \in Parents, NEW x \in Children, Owns(q, x)'
               PROVE  Owns(q, x) \/ (q = p /\ x = c)
    OBVIOUS
  <2>0. q \in Objects /\ x \in ChildrenOf(q)
    BY DEF Owns, Parents, Children, Objects
  <2>1. CASE x = c
    <3>1. object_path'[q] = object_path[p]
      BY <1>2, <2>1 DEF Owns
    <3>2. q # c
      BY <1>2, <1>4, <3>1
    <3> QED
      BY <1>1, <1>2, <2>0, <2>1, <3>1, <3>2 DEF TreeInv, PathsAreDistinct
  <2>2. CASE x # c
    <3>1. parent_path[x] = object_path'[q] /\ parent_path[x] # NULL
      BY <1>2, <2>2 DEF Owns
    <3>2. PICK r \in Parents : parent_path[x] = object_path[r]
      BY <3>1 DEF TreeInv, PathsAreCounted, Attached, Owns
    <3>3. q # c
      BY <1>2, <1>4, <3>1, <3>2 DEF Parents, Children, Objects
    <3> QED
      BY <1>2, <2>0, <3>1, <3>3 DEF Owns
  <2> QED
    BY <2>1, <2>2
<1>7. Owns(p, c)'
  BY <1>1, <1>2 DEF Owns
<1>8. (\A q \in Parents : List(q) \subseteq List(q)') /\ c \in List(p)'
  BY <1>1, <1>2, LinkGrowsLists DEF Attach, TreeInv
<1>9. PathsFollowLife'
  <2>1. ASSUME NEW x \in Children PROVE parent_path'[x] # NULL <=> object_path'[x] # NULL
    BY <1>1, <1>2, <2>1 DEF TreeInv, PathsFollowLife, Attached, Objects
  <2>2. ASSUME NEW o \in Objects, life'[o] = "absent" PROVE object_path'[o] = NULL
    BY <1>2, <2>2 DEF TreeInv, PathsFollowLife
  <2> QED
    BY <2>1, <2>2 DEF PathsFollowLife, Attached
<1>10. PathsAreCounted'
  <2>1. ASSUME NEW d \in Devices, object_path'[d] # NULL
        PROVE  \E i \in 0..(device_count' - 1) : object_path'[d] = CreateObjectPath(EmptyPath, "dev", i)
    <3>1. d \in Objects /\ d # c
      BY DEF Objects, Children
    <3> QED
      BY <1>2, <2>1, <3>1 DEF TreeInv, PathsAreCounted
  <2>2. ASSUME NEW x \in Children, Attached(x)'
        PROVE  \E q \in Parents :
                 /\ Owns(q, x)'
                 /\ \E i \in 0..(count'[q] - 1) :
                      object_path'[x] = CreateObjectPath(object_path'[q], ObjectName(x), i)
    <3>1. CASE x = c
      <4>1. count[p] \in 0..(count'[p] - 1)
        BY <1>1, <1>3
      <4> QED
        BY <1>1, <1>2, <1>4, <1>7, <3>1, <4>1
    <3>2. CASE x # c
      <4>1. PICK q \in Parents :
              /\ Owns(q, x)
              /\ \E i \in 0..(count[q] - 1) :
                   object_path[x] = CreateObjectPath(object_path[q], ObjectName(x), i)
        BY <1>2, <2>2, <3>2 DEF TreeInv, PathsAreCounted, Attached
      <4>2. 0..(count[q] - 1) \subseteq 0..(count'[q] - 1)
        BY <1>1, <1>3 DEF TreeInv, TypeOK
      <4>3. q # c /\ q \in Objects /\ x \in Objects
        BY <1>1, <4>1 DEF Owns, Parents, Children, Objects
      <4> QED
        BY <1>2, <1>5, <3>2, <4>1, <4>2, <4>3
    <3> QED
      BY <3>1, <3>2
  <2> QED
    BY <2>1, <2>2 DEF PathsAreCounted
<1>11. PathsAreDistinct'
  BY <1>2, <1>4 DEF TreeInv, PathsAreDistinct
<1>12. RegistryFollowsPaths'
  <2>1. \A r \in registered : r[2] \in Objects /\ r[1] # NULL /\ object_path[r[2]] = r[1]
    BY DEF TreeInv, TypeOK, RegistryFollowsPaths
  <2>2. \A r \in registered' : object_path'[r[2]] = r[1]
    BY <1>1, <1>2, <2>1
  <2>3. \A x \in Children : Attached(x)' => <<object_path'[x], x>> \in registered'
    BY <1>2 DEF TreeInv, RegistryFollowsPaths, Attached, Objects
  <2> QED
    BY <2>2, <2>3 DEF RegistryFollowsPaths
<1>13. ListsStayInFamily'
  <2>1. \A q \in Parents : (head[q] # NULL => Owns(q, head[q]))'
    <3> SUFFICES ASSUME NEW q \in Parents, head'[q] # NULL PROVE Owns(q, head[q])'
      OBVIOUS
    <3>1. CASE q = p
      BY <1>2, <1>1, <1>3, <3>1 DEF Owns
    <3>2. CASE q # p
      <4>1. head'[q] = head[q] /\ head[q] \in Children /\ Owns(q, head[q])
        BY <1>3, <3>2 DEF TreeInv, TypeOK, ListsStayInFamily
      <4>2. head[q] # c /\ q # c /\ q \in Objects
        BY <1>1, <4>1 DEF Owns, Parents, Children, Objects
      <4> QED
        BY <1>2, <4>1, <4>2 DEF Owns
    <3> QED
      BY <3>1, <3>2
  <2>2. \A x \in Children : next'[x] # NULL => Attached(x)'
    BY <1>1, <1>2, <1>3 DEF TreeInv, ListsStayInFamily, Attached
  <2>3. \A q \in Parents, x \in Children : (Owns(q, x) /\ next[x] # NULL => Owns(q, next[x]))'
    <3> SUFFICES ASSUME NEW q \in Parents, NEW x \in Children, Owns(q, x)', next'[x] # NULL
                 PROVE  Owns(q, next[x])'
      OBVIOUS
    <3>1. q \in Objects
      BY DEF Parents, Children, Objects
    <3>2. /\ next'[x] \in Children
          /\ Owns(q, next'[x])
      <4>1. CASE x = c
        <5>1. q = p
          BY <1>1, <1>6, <4>1 DEF Owns
        <5> QED
          BY <1>3, <4>1, <5>1 DEF TreeInv, TypeOK, ListsStayInFamily
      <4>2. CASE x # c
        BY <1>3, <1>6, <4>2 DEF TreeInv, TypeOK, ListsStayInFamily
      <4> QED
        BY <4>1, <4>2
    <3>3. next'[x] # c /\ q # c
      BY <1>1, <3>2 DEF Owns
    <3> QED
      BY <1>2, <3>1, <3>2, <3>3 DEF Owns
  <2>4. \A q \in Parents, x \in Children : Owns(q, x)' => x \in List(q)'
    BY <1>6, <1>8 DEF TreeInv, ListsStayInFamily
  <2> QED
    BY <2>1, <2>2, <2>3, <2>4 DEF ListsStayInFamily
<1>14. OwnUuidsDistinct'
  <2>1. \A x \in Children : Owns(p, x) => uuid[x] # uuid[c]
    BY FailedLookupSeesAll DEF TreeInv, ListsStayInFamily
  <2> QED
    BY <1>2, <1>6, <2>1 DEF TreeInv, OwnUuidsDistinct
<1> QED
  BY <1>2, <1>9, <1>10, <1>11, <1>12, <1>13, <1>14 DEF TreeInv

(* A device is put on the bus under its own path.                          *)
LEMMA RegisterDeviceInv ==
  ASSUME TreeInv, TypeOK', NEW d \in Devices, RegisterDevice(d)
  PROVE  TreeInv'
<1> USE DEF objects, lists, heap
<1>1. /\ UNCHANGED <<life, uuid, object_path, parent_path, device_count, head, next, count, freed>>
      /\ registered' = registered \cup {<<object_path[d], d>>}
  BY DEF RegisterDevice
<1>2. (\A p \in Parents : List(p)' = List(p)) /\ (\A p \in Parents, c \in Children : Owns(p, c)' <=> Owns(p, c))
  BY <1>1 DEF List, Visited, ClosedWalk, Owns
<1>3. PathsFollowLife' /\ PathsAreDistinct'
  BY <1>1 DEF TreeInv, PathsFollowLife, PathsAreDistinct, Attached
<1>4. PathsAreCounted'
  BY <1>1, <1>2 DEF TreeInv, PathsAreCounted, Attached
<1>5. RegistryFollowsPaths'
  BY <1>1 DEF TreeInv, RegistryFollowsPaths, Attached
<1>6. ListsStayInFamily'
  <2>1. \A p \in Parents : (head[p] # NULL => Owns(p, head[p]))'
    BY <1>1, <1>2 DEF TreeInv, TypeOK, ListsStayInFamily
  <2>2. \A x \in Children : next'[x] # NULL => Attached(x)'
    BY <1>1 DEF TreeInv, ListsStayInFamily, Attached
  <2>3. \A p \in Parents, x \in Children : (Owns(p, x) /\ next[x] # NULL => Owns(p, next[x]))'
    BY <1>1, <1>2 DEF TreeInv, TypeOK, ListsStayInFamily
  <2>4. \A p \in Parents, x \in Children : Owns(p, x)' => x \in List(p)'
    BY <1>2 DEF TreeInv, ListsStayInFamily
  <2> QED
    BY <2>1, <2>2, <2>3, <2>4 DEF ListsStayInFamily
<1>7. OwnUuidsDistinct'
  BY <1>1, <1>2 DEF TreeInv, OwnUuidsDistinct
<1> QED
  BY <1>1, <1>3, <1>4, <1>5, <1>6, <1>7 DEF TreeInv

(* Running into undefined behaviour changes nothing of the tree.           *)
LEMMA UndefinedInv ==
  ASSUME TreeInv, NEW how \in {"use_after_free", "double_free", "wild_free"}, Undefined(how)
  PROVE  TreeInv'
<1>1. TypeOK'
  BY UndefinedType DEF TreeInv
<1> QED
  BY <1>1, FrameInv DEF Undefined, objects, lists, bus

(* As long as no registration fails, every step keeps the tree unbroken:   *)
(* the path of an added object is free, so the add never fails half way.   *)
LEMMA NextInv ==
  ASSUME RegisterMayFail = FALSE
  PROVE  TreeInv /\ [Next]_vars => TreeInv'
<1> SUFFICES ASSUME TreeInv, [Next]_vars PROVE TreeInv'
  OBVIOUS
<1> USE DEF objects, lists, bus, heap
<1>0. TypeOK /\ TypeOK'
  BY NextType DEF TreeInv
<1>1. CASE UNCHANGED vars
  BY <1>0, <1>1, FrameInv DEF vars
<1>2. ASSUME NEW d \in Devices, CreateDevice(d) PROVE TreeInv'
  BY <1>0, <1>2, CreateDeviceInv
<1>3. ASSUME NEW c \in Children, NEW u \in Uuids, CreateChild(c, u) PROVE TreeInv'
  BY <1>0, <1>3, CreateChildInv
<1>4. ASSUME NEW p \in Parents, NEW c \in ChildrenOf(p), AddChild(p, c) PROVE TreeInv'
  <2>1. CASE Undefined("use_after_free")
    BY <2>1, UndefinedInv
  <2>2. CASE ~HasUuid(p, uuid[c]) /\ Attach(p, c)
    <3>1. MayAdd(p, c) /\ life[c] = "held" /\ uuid[c] # NULL
      BY <1>0, <1>4, ChildKinds DEF AddChild, TypeOK
    <3> QED
      BY <1>0, <2>2, <3>1, AttachInv
  <2>3. ~FailToAttach(p, c)
    BY <1>4, NextPathIsNotInUse DEF AddChild, MayAdd, FailToAttach
  <2> QED
    BY <1>4, <2>1, <2>2, <2>3 DEF AddChild
<1>5. ASSUME NEW d \in Devices, RegisterDevice(d) PROVE TreeInv'
  BY <1>0, <1>5, RegisterDeviceInv
<1>6. ASSUME NEW d \in Devices, GetManagedObjects(d) PROVE TreeInv'
  <2>1. UNCHANGED <<life, uuid, object_path, parent_path, device_count, lists, registered, freed>>
    BY <1>6 DEF GetManagedObjects, Undefined
  <2> QED
    BY <1>0, <2>1, FrameInv
<1>7. ASSUME NEW o \in Objects, HandleMessage(o) PROVE TreeInv'
  BY <1>7, UndefinedInv DEF HandleMessage
<1>8. ASSUME NEW o \in Objects, Drop(o) PROVE TreeInv'
  BY <1>0, <1>8, FrameInv DEF Drop, TypeOK
<1>9. ASSUME NEW o \in Objects, Collect(o) PROVE TreeInv'
  <2>1. CASE Undefined("double_free") \/ Undefined("wild_free")
    BY <2>1, UndefinedInv
  <2>2. CASE /\ life' = [life EXCEPT ![o] = "collected"]
             /\ UNCHANGED <<objects, lists, bus, heap>>
    BY <1>0, <2>2, FrameInv DEF TypeOK
  <2> QED
    BY <1>9, <2>1, <2>2 DEF Collect
<1>10. CASE Close
  <2>1. CASE Undefined("double_free") \/ Undefined("wild_free")
    BY <2>1, UndefinedInv
  <2>2. CASE /\ life' = [o \in Objects |-> IF Alive(o) THEN "collected" ELSE life[o]]
             /\ UNCHANGED <<objects, lists, bus, freed, advertised>>
    BY <1>0, <2>2, FrameInv
  <2> QED
    BY <1>10, <2>1, <2>2 DEF Close
<1> QED
  BY StepCases, <1>1, <1>2, <1>3, <1>4, <1>5, <1>6, <1>7, <1>8, <1>9, <1>10

-----------------------------------------------------------------------------
(* What follows.                                                           *)

(* The tree stays unbroken: lists, parents, paths and the bus agree as     *)
(* long as no registration fails, whatever the script keeps or forgets.    *)
THEOREM TreeHolds ==
  ASSUME RegisterMayFail = FALSE
  PROVE  Spec => []TreeInv
<1>1. TreeInv /\ [Next]_vars => TreeInv'
  BY NextInv
<1> QED
  BY <1>1, InitInv, PTL DEF Spec

(* No two objects are served at one path, and the path of the next added   *)
(* object is free: dbusutils_register_object never finds it taken.         *)
THEOREM PathsAreUnique ==
  ASSUME RegisterMayFail = FALSE
  PROVE  Spec => []PathsNeverCollide
<1>1. TreeInv => PathsNeverCollide
  <2> SUFFICES ASSUME TreeInv PROVE PathsNeverCollide
    OBVIOUS
  <2>1. ASSUME NEW r1 \in registered, NEW r2 \in registered, r1[1] = r2[1] PROVE r1 = r2
    <3>1. /\ r1 = <<r1[1], r1[2]>> /\ r2 = <<r2[1], r2[2]>>
          /\ r1[2] \in Objects /\ r2[2] \in Objects
          /\ r1[1] \in Paths
      BY DEF TreeInv, TypeOK
    <3>2. r1[2] = r2[2]
      BY <2>1, <3>1 DEF TreeInv, RegistryFollowsPaths, PathsAreDistinct
    <3> QED
      BY <2>1, <3>1, <3>2
  <2>2. \A p \in Parents : \A c \in ChildrenOf(p) : object_path[p] # NULL => ~InUse(NextPath(p, c))
    BY NextPathIsNotInUse
  <2> QED
    BY <2>1, <2>2 DEF PathsNeverCollide
<1> QED
  BY <1>1, TreeHolds, PTL

(* Nothing is ever taken off the bus, and an object that was added keeps   *)
(* its path and its parent, even when registrations fail.                  *)
THEOREM BindingsArePermanent == Spec => BindingsPermanent
<1> DEFINE Binding == /\ registered \subseteq registered'
                      /\ \A c \in Children : Attached(c) =>
                           object_path'[c] = object_path[c] /\ parent_path'[c] = parent_path[c]
<1>1. TypeOK /\ [Next]_vars => [Binding]_vars
  <2> SUFFICES ASSUME TypeOK, Next PROVE Binding
    OBVIOUS
  <2> USE DEF objects, lists, bus, heap
  <2>1. ASSUME NEW d \in Devices, CreateDevice(d) PROVE Binding
    BY <2>1 DEF CreateDevice, TypeOK, Objects
  <2>2. ASSUME NEW p \in Parents, NEW c \in ChildrenOf(p), AddChild(p, c) PROVE Binding
    <3>1. c \in Children /\ c \in Objects /\ parent_path[c] = NULL
      BY <2>2, ChildKinds DEF AddChild, MayAdd
    <3>2. CASE Undefined("use_after_free")
      BY <3>2 DEF Undefined
    <3>3. CASE Attach(p, c)
      BY <3>1, <3>3 DEF Attach, TypeOK, Attached, Objects
    <3>4. CASE FailToAttach(p, c)
      BY <3>1, <3>4 DEF FailToAttach, TypeOK, Attached, Objects
    <3> QED
      BY <2>2, <3>2, <3>3, <3>4 DEF AddChild
  <2>3. ASSUME \/ \E c \in Children, u \in Uuids : CreateChild(c, u)
               \/ \E d \in Devices : RegisterDevice(d)
               \/ \E d \in Devices : GetManagedObjects(d)
               \/ \E o \in Objects : HandleMessage(o)
               \/ \E o \in Objects : Drop(o)
               \/ \E o \in Objects : Collect(o)
               \/ Close
        PROVE  UNCHANGED <<object_path, parent_path>> /\ registered \subseteq registered'
    BY <2>3 DEF CreateChild, RegisterDevice, GetManagedObjects, HandleMessage, Drop, Collect,
                Close, Undefined
  <2> QED
    BY StepCases, <2>1, <2>2, <2>3
<1> QED
  BY <1>1, TypeCorrect, PTL DEF Spec, BindingsPermanent

-----------------------------------------------------------------------------
(* Memory safety, of a script that keeps what the bus can reach.           *)

(* The nodes a lookup reads are served and held.                           *)
LEMMA WalksAreHeld ==
  ASSUME TreeInv, ServedAreHeld, Running, NEW p \in Parents, NEW u
  PROVE  \A c \in Visited(p, u) :
           Owns(p, c) /\ <<object_path[c], c>> \in registered /\ life[c] = "held"
<1> DEFINE S == {c \in Children : Owns(p, c)}
<1>1. ClosedWalk(p, u, S)
  <2>1. head[p] # NULL => head[p] \in S
    BY DEF TreeInv, ListsStayInFamily, TypeOK
  <2>2. \A x \in S : next[x] # NULL => next[x] \in S
    BY DEF TreeInv, ListsStayInFamily, TypeOK
  <2> QED
    BY <2>1, <2>2 DEF ClosedWalk
<1>2. ASSUME NEW c \in Visited(p, u)  PROVE Owns(p, c) /\ c \in Children
  BY <1>1 DEF Visited
<1>3. ASSUME NEW c \in Children, Owns(p, c)
      PROVE  <<object_path[c], c>> \in registered /\ life[c] = "held"
  <2>1. <<object_path[c], c>> \in registered
    BY <1>3 DEF Owns, TreeInv, RegistryFollowsPaths, Attached
  <2> QED
    BY <2>1 DEF ServedAreHeld
<1> QED
  BY <1>2, <1>3

(* What GetManagedObjects reads and reports is served and held.            *)
LEMMA ManagedAreHeld ==
  ASSUME TreeInv, ServedAreHeld, Running, NEW d \in Devices
  PROVE  \A o \in ManagedObjects(d) : <<object_path[o], o>> \in registered /\ life[o] = "held"
<1> DEFINE Fine(o) == <<object_path[o], o>> \in registered /\ life[o] = "held"
<1>1. ASSUME NEW p \in Parents, NEW c \in List(p)
      PROVE  c \in ChildrenOf(p) /\ Fine(c)
  BY <1>1, WalksAreHeld DEF List, Owns
<1>2. ASSUME NEW s \in List(d)  PROVE s \in Services /\ Fine(s)
  BY <1>1, ChildKinds DEF Parents, ChildrenOf, Children
<1>3. ASSUME NEW s \in Services, NEW c \in List(s)  PROVE c \in Characteristics /\ Fine(c)
  BY <1>1, ChildKinds DEF Parents, ChildrenOf, Children
<1>4. ASSUME NEW c \in Characteristics, NEW e \in List(c)  PROVE Fine(e)
  BY <1>1 DEF Parents
<1> QED
  BY <1>2, <1>3, <1>4 DEF ManagedObjects

LEMMA SafeStep ==
  ASSUME Anchored, RegisterMayFail = FALSE
  PROVE  SafeInv /\ [Next]_vars => SafeInv'
<1> SUFFICES ASSUME SafeInv, [Next]_vars PROVE SafeInv'
  OBVIOUS
<1> USE DEF objects, lists, bus, heap
<1> DEFINE Safe == /\ ServedAreHeld /\ RegisteredAreAdvertised
                   /\ announced \subseteq registered /\ OnlyUnregisteredDevicesHarm
<1>0. TreeInv /\ TypeOK /\ freed = {} /\ Safe
  BY DEF SafeInv, TreeInv
<1>1. TreeInv'
  BY <1>0, NextInv
<1>2. ASSUME UNCHANGED vars PROVE Safe'
  BY <1>0, <1>2 DEF vars, ServedAreHeld, RegisteredAreAdvertised, OnlyUnregisteredDevicesHarm,
                    Running, Alive, Registered
<1>3. ASSUME NEW o \in Objects, ~Registered(o), life' = [life EXCEPT ![o] = "held"], Running,
             UNCHANGED <<registered, announced, advertised, process>>
      PROVE  Safe'
  BY <1>0, <1>3 DEF ServedAreHeld, RegisteredAreAdvertised, OnlyUnregisteredDevicesHarm, Running, TypeOK, Registered
<1>4. ASSUME NEW o \in Objects, life[o] = "absent"  PROVE Running => ~Registered(o)
  BY <1>0, <1>4 DEF ServedAreHeld, Registered
<1>5. ASSUME NEW d \in Devices, CreateDevice(d) PROVE Safe'
  BY <1>3, <1>4, <1>5 DEF CreateDevice, Objects
<1>6. ASSUME NEW c \in Children, NEW u \in Uuids, CreateChild(c, u) PROVE Safe'
  BY <1>3, <1>4, <1>6 DEF CreateChild, Objects
<1>7. ASSUME NEW p \in Parents, NEW c \in ChildrenOf(p), AddChild(p, c) PROVE Safe'
  <2>1. Running /\ life[c] = "held" /\ p \notin freed
    BY <1>0, <1>7 DEF AddChild
  <2>2. \A n \in Visited(p, uuid[c]) : life[n] # "collected"
    BY <1>0, <2>1, WalksAreHeld
  <2>3. ~ReadsFreedMemory(p, c)
    BY <2>1, <2>2 DEF ReadsFreedMemory
  <2>4. ~FailToAttach(p, c)
    BY <1>0, <1>7, NextPathIsNotInUse DEF AddChild, MayAdd, FailToAttach
  <2>5. Attach(p, c)
    BY <1>7, <2>3, <2>4 DEF AddChild
  <2>6. RegisteredAreAdvertised'
    <3>1. c \notin Devices
      BY ChildKinds
    <3> QED
      BY <1>0, <2>5, <3>1 DEF Attach, RegisteredAreAdvertised, Registered
  <2> QED
    BY <1>0, <2>1, <2>5, <2>6 DEF Attach, ServedAreHeld, OnlyUnregisteredDevicesHarm, Running
<1>8. ASSUME NEW d \in Devices, RegisterDevice(d) PROVE Safe'
  <2>1. RegisteredAreAdvertised'
    BY <1>0, <1>8 DEF RegisterDevice, RegisteredAreAdvertised, Registered
  <2> QED
    BY <1>0, <1>8, <2>1 DEF RegisterDevice, ServedAreHeld, OnlyUnregisteredDevicesHarm, Running
<1>9. ASSUME NEW d \in Devices, GetManagedObjects(d) PROVE Safe'
  <2>1. Running
    BY <1>9 DEF GetManagedObjects
  <2>2. \A o \in ManagedObjects(d) : <<object_path[o], o>> \in registered /\ life[o] = "held"
    BY <1>0, <2>1, ManagedAreHeld
  <2>3. /\ announced' = announced \cup {<<object_path[o], o>> : o \in ManagedObjects(d)}
        /\ UNCHANGED <<life, registered, advertised, process>>
    BY <1>9, <2>2 DEF GetManagedObjects
  <2> QED
    BY <1>0, <2>1, <2>2, <2>3
    DEF ServedAreHeld, RegisteredAreAdvertised, OnlyUnregisteredDevicesHarm, Running, Registered
<1>10. ASSUME NEW o \in Objects, HandleMessage(o) PROVE Safe'
  BY <1>0, <1>10 DEF HandleMessage, ServedAreHeld, Registered
<1>11. ASSUME NEW o \in Objects, Drop(o) PROVE Safe'
  BY <1>0, <1>11 DEF Drop, ServedAreHeld, RegisteredAreAdvertised, OnlyUnregisteredDevicesHarm, Running, Registered, TypeOK
<1>12. ASSUME NEW how \in {"wild_free"}, Undefined(how), Running,
              NEW d \in Devices, Alive(d), d \notin advertised
       PROVE  Safe'
  <2>1. ~Registered(d)
    BY <1>0, <1>12 DEF RegisteredAreAdvertised
  <2>2. Alive(d)' /\ ~Registered(d)'
    BY <1>12, <2>1 DEF Undefined, Alive, Registered
  <2>3. process' = "wild_free" /\ UNCHANGED <<life, registered, announced, advertised>>
    BY <1>12 DEF Undefined
  <2> QED
    BY <1>0, <2>2, <2>3
    DEF ServedAreHeld, RegisteredAreAdvertised, OnlyUnregisteredDevicesHarm, Running, Registered
<1>13. ASSUME NEW o \in Objects, Collect(o) PROVE Safe'
  <2>1. Running /\ life[o] = "dropped" /\ o \notin freed
    BY <1>0, <1>13 DEF Collect
  <2>2. CASE FreesGarbage(o) /\ Undefined("wild_free")
    BY <1>12, <2>1, <2>2 DEF FreesGarbage, Alive
  <2>3. CASE /\ life' = [life EXCEPT ![o] = "collected"]
             /\ UNCHANGED <<registered, announced, advertised, process>>
    BY <1>0, <2>1, <2>3
    DEF ServedAreHeld, RegisteredAreAdvertised, OnlyUnregisteredDevicesHarm, Running, Registered, TypeOK
  <2> QED
    BY <1>13, <2>1, <2>2, <2>3 DEF Collect
<1>14. ASSUME Close PROVE Safe'
  <2>1. CASE process' = "exited" /\ UNCHANGED <<registered, announced, advertised>>
    BY <1>0, <2>1
    DEF ServedAreHeld, RegisteredAreAdvertised, OnlyUnregisteredDevicesHarm, Running, Registered
  <2>2. CASE Undefined("wild_free") /\ Running /\ \E o \in Objects : Alive(o) /\ FreesGarbage(o)
    BY <1>12, <2>2 DEF FreesGarbage
  <2> QED
    BY <1>0, <1>14, <2>1, <2>2 DEF Close
<1>15. Safe'
  BY StepCases, <1>2, <1>5, <1>6, <1>7, <1>8, <1>9, <1>10, <1>11, <1>13, <1>14
<1> QED
  BY <1>1, <1>15 DEF SafeInv

LEMMA SafeHolds ==
  ASSUME Anchored, RegisterMayFail = FALSE
  PROVE  Spec => []SafeInv
<1>1. Init => SafeInv
  <2>1. Init => /\ ServedAreHeld /\ RegisteredAreAdvertised
                /\ announced \subseteq registered /\ OnlyUnregisteredDevicesHarm
    BY DEF Init, ServedAreHeld, RegisteredAreAdvertised, OnlyUnregisteredDevicesHarm, Registered
  <2> QED
    BY <2>1, InitInv DEF SafeInv
<1>2. SafeInv /\ [Next]_vars => SafeInv'
  BY SafeStep
<1> QED
  BY <1>1, <1>2, PTL DEF Spec

(* A script that keeps every object the bus can reach never makes the      *)
(* simulator touch freed memory: no lookup, GetManagedObjects, method call *)
(* or collection meets a freed object or path.  The only undefined step    *)
(* left to it is to finalise a device that never got on the bus, whose     *)
(* advertisement was never initialised.                                    *)
THEOREM MemoryIsSafe ==
  ASSUME Anchored, RegisterMayFail = FALSE
  PROVE  Spec => []OnlyUnregisteredDevicesHarm
<1>1. SafeInv => OnlyUnregisteredDevicesHarm
  BY DEF SafeInv
<1> QED
  BY <1>1, SafeHolds, PTL

(* What BlueZ was told by GetManagedObjects it may keep calling: the path  *)
(* leads to the same live object, which goes by it.                        *)
THEOREM AnnouncedObjectsStay ==
  ASSUME Anchored, RegisterMayFail = FALSE
  PROVE  Spec => []AnnouncedStaysServed
<1>1. SafeInv => AnnouncedStaysServed
  BY DEF SafeInv, TreeInv, RegistryFollowsPaths, ServedAreHeld, AnnouncedStaysServed, Alive
<1> QED
  BY <1>1, SafeHolds, PTL

-----------------------------------------------------------------------------
(* The tree and the bus.                                                   *)

(* The path of an added object extends its parent's, and its parent is the *)
(* only object of that path.                                               *)
LEMMA PathsNameParents ==
  ASSUME TreeInv, NEW c \in Children, Attached(c)
  PROVE  \E p \in Parents :
           /\ Owns(p, c) /\ c \in List(p)
           /\ object_path[c][1] = object_path[p]
           /\ object_path[c] \in PathsOf(c)
           /\ \A q \in Objects : object_path[q] = object_path[c][1] => q = p
<1>1. PICK p \in Parents :
        /\ Owns(p, c)
        /\ \E i \in 0..(count[p] - 1) :
             object_path[c] = CreateObjectPath(object_path[p], ObjectName(c), i)
  BY DEF TreeInv, PathsAreCounted
<1>2. object_path[c][1] = object_path[p]
  BY <1>1 DEF CreateObjectPath
<1>3. object_path[c] \in PathsOf(c)
  BY DEF TreeInv, PathsFollowLife, TypeOK, Objects
<1>4. \A q \in Objects : object_path[q] = object_path[p] => q = p
  BY <1>1 DEF TreeInv, PathsAreDistinct, Owns, Parents, Children, Objects
<1> QED
  BY <1>1, <1>2, <1>3, <1>4 DEF TreeInv, ListsStayInFamily

(* Paths of different kinds differ in their second component.              *)
LEMMA PathKinds ==
  /\ \A x \in DevicePaths : x[2] = "dev"
  /\ \A x \in ServicePaths : x[2] = "serv" /\ x[1] \in DevicePaths
  /\ \A x \in CharacteristicPaths : x[2] = "char" /\ x[1] \in ServicePaths
  /\ \A x \in DescriptorPaths : x[2] = "desc" /\ x[1] \in CharacteristicPaths
<1>1. \A x \in DevicePaths : x[2] = "dev"
  BY DEF DevicePaths
<1>2. \A x \in ServicePaths : x[2] = "serv" /\ x[1] \in DevicePaths
  BY DEF ServicePaths
<1>3. \A x \in CharacteristicPaths : x[2] = "char" /\ x[1] \in ServicePaths
  BY DEF CharacteristicPaths
<1>4. \A x \in DescriptorPaths : x[2] = "desc" /\ x[1] \in CharacteristicPaths
  BY DEF DescriptorPaths
<1> QED
  BY <1>1, <1>2, <1>3, <1>4

(* The three nested lists hold what is below a device's path, and only it. *)
LEMMA ListedIsUnder ==
  ASSUME TreeInv, NEW d \in Devices, NEW o \in ManagedObjects(d)
  PROVE  o \in Children /\ Attached(o) /\ Under(object_path[o], object_path[d])
<1> USE PathKinds
<1>1. ASSUME NEW p \in Parents, NEW c \in List(p)
      PROVE  /\ c \in ChildrenOf(p) /\ c \in Children /\ Attached(c)
             /\ object_path[c][1] = object_path[p] /\ object_path[c] \in PathsOf(c)
  <2>1. Owns(p, c) /\ c \in Children
    BY ListIsOwn DEF TreeInv, List, Visited
  <2>2. Attached(c) /\ p \in Objects
    BY <2>1 DEF Owns, Attached, Parents, Children, Objects
  <2>3. PICK q \in Parents : Owns(q, c) /\ object_path[c][1] = object_path[q]
    BY <2>1, <2>2, PathsNameParents
  <2>4. object_path[c] \in PathsOf(c)
    BY <2>1, <2>2, PathsNameParents
  <2> QED
    BY <2>1, <2>2, <2>3, <2>4 DEF Owns
<1>2. ASSUME NEW s \in List(d)
      PROVE  s \in Services /\ Attached(s) /\ object_path[s] \in ServicePaths /\ object_path[s][1] = object_path[d]
  BY <1>1, ChildKinds DEF Parents, ChildrenOf, Children, PathsOf
<1>3. ASSUME NEW s \in Services, NEW c \in List(s)
      PROVE  /\ c \in Characteristics /\ Attached(c) /\ object_path[c] \in CharacteristicPaths
             /\ object_path[c][1] = object_path[s]
  BY <1>1, ChildKinds DEF Parents, ChildrenOf, Children, PathsOf
<1>4. ASSUME NEW c \in Characteristics, NEW e \in List(c)
      PROVE  /\ e \in Descriptors /\ Attached(e) /\ object_path[e] \in DescriptorPaths
             /\ object_path[e][1] = object_path[c]
  BY <1>1, ChildKinds DEF Parents, ChildrenOf, Children, PathsOf
<1>5. CASE o \in List(d)
  BY <1>2, <1>5 DEF Under, Children
<1>6. ASSUME NEW s \in List(d), o \in List(s)
      PROVE  o \in Children /\ Attached(o) /\ Under(object_path[o], object_path[d])
  BY <1>2, <1>3, <1>6 DEF Under, Children
<1>7. ASSUME NEW s \in List(d), NEW c \in List(s), o \in List(c)
      PROVE  o \in Children /\ Attached(o) /\ Under(object_path[o], object_path[d])
  BY <1>2, <1>3, <1>4, <1>7 DEF Under, Children
<1> QED
  BY <1>5, <1>6, <1>7 DEF ManagedObjects

LEMMA UnderIsListed ==
  ASSUME TreeInv, NEW d \in Devices, object_path[d] # NULL,
         NEW o \in Objects, object_path[o] # NULL, Under(object_path[o], object_path[d])
  PROVE  o \in ManagedObjects(d)
<1> USE PathKinds
<1>1. object_path[o] \in PathsOf(o) /\ object_path[d] \in DevicePaths
  BY DEF TreeInv, TypeOK, PathsOf, Objects, Children
<1>2. object_path[o][2] # "dev"
  BY DEF Under
<1>3. o \in Children /\ Attached(o)
  <2>1. o \notin Devices
    <3>1. o \in Devices => object_path[o] \in DevicePaths
      BY <1>1 DEF PathsOf, Children
    <3> QED
      BY <1>2, <3>1
  <2> QED
    BY <2>1 DEF TreeInv, PathsFollowLife, Objects
<1>4. ASSUME NEW c \in Children, Attached(c), NEW q \in Objects, object_path[q] = object_path[c][1]
      PROVE  q \in Parents /\ c \in ChildrenOf(q) /\ c \in List(q) /\ object_path[q] # NULL
  BY <1>4, PathsNameParents DEF Owns
<1>5. ASSUME NEW c \in Children, Attached(c)
      PROVE  \E q \in Parents : Owns(q, c) /\ c \in List(q) /\ object_path[q] = object_path[c][1]
  BY <1>5, PathsNameParents
<1>6. ASSUME NEW s \in Services, Attached(s), object_path[s][1] = object_path[d]
      PROVE  s \in List(d)
  BY <1>4, <1>6 DEF Children, Objects
<1>7. ASSUME NEW c \in Characteristics, Attached(c), object_path[c][1][1] = object_path[d]
      PROVE  \E s \in List(d) : c \in List(s)
  <2>1. PICK s \in Parents : Owns(s, c) /\ c \in List(s) /\ object_path[s] = object_path[c][1]
    BY <1>5, <1>7 DEF Children
  <2>2. s \in Services /\ Attached(s)
    BY <2>1, ChildKinds DEF Owns, TreeInv, PathsFollowLife, Children
  <2> QED
    BY <1>6, <1>7, <2>1, <2>2
<1>8. ASSUME NEW e \in Descriptors, Attached(e), object_path[e][1][1][1] = object_path[d]
      PROVE  \E s \in List(d) : \E c \in List(s) : e \in List(c)
  <2>1. PICK c \in Parents : Owns(c, e) /\ e \in List(c) /\ object_path[c] = object_path[e][1]
    BY <1>5, <1>8 DEF Children
  <2>2. c \in Characteristics /\ Attached(c)
    BY <2>1, ChildKinds DEF Owns, TreeInv, PathsFollowLife, Children
  <2> QED
    BY <1>7, <1>8, <2>1, <2>2
<1>9. CASE o \in Services
  <2>1. object_path[o] \in ServicePaths
    BY <1>1, <1>9 DEF PathsOf, Children
  <2>2. object_path[o][1] = object_path[d]
    BY <2>1 DEF Under
  <2> QED
    BY <1>3, <1>6, <1>9, <2>2 DEF ManagedObjects
<1>10. CASE o \in Characteristics
  <2>1. object_path[o] \in CharacteristicPaths
    BY <1>1, <1>10 DEF PathsOf, Children
  <2>2. object_path[o][1][1] = object_path[d]
    BY <2>1 DEF Under
  <2> QED
    BY <1>3, <1>7, <1>10, <2>2 DEF ManagedObjects
<1>11. CASE o \in Descriptors
  <2>1. object_path[o] \in DescriptorPaths
    BY <1>1, <1>11 DEF PathsOf, Children
  <2>2. object_path[o][1][1][1] = object_path[d]
    BY <2>1 DEF Under
  <2> QED
    BY <1>3, <1>8, <1>11, <2>2 DEF ManagedObjects
<1> QED
  BY <1>3, <1>9, <1>10, <1>11 DEF Children

(* GetManagedObjects reports of a device exactly what libdbus serves below *)
(* the device's path.                                                      *)
THEOREM TheTreeIsOnTheBus ==
  ASSUME RegisterMayFail = FALSE
  PROVE  Spec => []TreeMatchesBus
<1>1. TreeInv => TreeMatchesBus
  <2> SUFFICES ASSUME TreeInv, NEW d \in Devices, object_path[d] # NULL
               PROVE  {<<object_path[o], o>> : o \in ManagedObjects(d)}
                        = {r \in registered : Under(r[1], object_path[d])}
    BY DEF TreeMatchesBus
  <2>1. ASSUME NEW o \in ManagedObjects(d)
        PROVE  <<object_path[o], o>> \in registered /\ Under(object_path[o], object_path[d])
    BY ListedIsUnder DEF TreeInv, RegistryFollowsPaths
  <2>2. ASSUME NEW r \in registered, Under(r[1], object_path[d])
        PROVE  r[2] \in ManagedObjects(d) /\ r = <<object_path[r[2]], r[2]>>
    <3>1. r = <<r[1], r[2]>> /\ r[2] \in Objects /\ r[1] \in Paths /\ object_path[r[2]] = r[1]
      BY DEF TreeInv, TypeOK, RegistryFollowsPaths
    <3> QED
      BY <2>2, <3>1, UnderIsListed
  <2> QED
    BY <2>1, <2>2
<1> QED
  BY <1>1, TreeHolds, PTL

-----------------------------------------------------------------------------
(* However registrations fail and whatever the script forgets.             *)

(* The steps that neither add nor create anything leave the tree alone.    *)
LEMMA OtherSteps ==
  ASSUME [Next]_vars,
         ~ \E p \in Parents : \E c \in ChildrenOf(p) : AddChild(p, c),
         ~ \E d \in Devices : CreateDevice(d)
  PROVE  /\ UNCHANGED <<object_path, parent_path, head, next, freed>>
         /\ registered \subseteq registered'
<1>1. CASE UNCHANGED vars
  BY <1>1 DEF vars, objects, lists, bus, heap
<1>2. CASE \/ \E c \in Children, u \in Uuids : CreateChild(c, u)
           \/ \E d \in Devices : RegisterDevice(d)
           \/ \E d \in Devices : GetManagedObjects(d)
           \/ \E o \in Objects : HandleMessage(o)
           \/ \E o \in Objects : Drop(o)
           \/ \E o \in Objects : Collect(o)
           \/ Close
  BY <1>2 DEF CreateChild, RegisterDevice, GetManagedObjects, HandleMessage, Drop, Collect,
              Close, Undefined, objects, lists, bus, heap
<1> QED
  BY <1>1, <1>2, StepCases

LEMMA ServedStep == TypeOK /\ ListsLeadToServed /\ [Next]_vars => ListsLeadToServed'
<1> SUFFICES ASSUME TypeOK, ListsLeadToServed, [Next]_vars PROVE ListsLeadToServed'
  OBVIOUS
<1> USE DEF objects, lists, bus, heap
<1>1. ASSUME UNCHANGED <<parent_path, head, next>>, registered \subseteq registered'
      PROVE  ListsLeadToServed'
  BY <1>1 DEF ListsLeadToServed, Attached, Registered, ChildrenOf
<1>2. ASSUME NEW p \in Parents, NEW c \in ChildrenOf(p), Attach(p, c), MayAdd(p, c)
      PROVE  ListsLeadToServed'
  <2> USE ChildKinds
  <2>1. /\ parent_path'[c] # NULL
        /\ \A x \in Children : x # c => parent_path'[x] = parent_path[x]
        /\ head'[p] = c /\ next'[c] = head[p]
        /\ \A q \in Parents : q # p => head'[q] = head[q]
        /\ \A x \in Children : x # c => next'[x] = next[x]
    BY <1>2 DEF Attach, Link, MayAdd, TypeOK
  <2>2. <<NextPath(p, c), c>> \in registered' /\ registered \subseteq registered'
    BY <1>2 DEF Attach
  <2>3. \A x \in Children : Attached(x) => Attached(x)'
    BY <2>1 DEF Attached
  <2>4. Attached(c)' /\ Registered(c)'
    BY <2>1, <2>2 DEF Attached, Registered
  <2>5. \A q \in Parents : (head[q] # NULL => head[q] \in ChildrenOf(q) /\ Attached(head[q]))'
    BY <2>1, <2>3, <2>4 DEF ListsLeadToServed, TypeOK, Attached, ChildrenOf
  <2>6. \A x \in Children : (next[x] # NULL => Attached(next[x]))'
    BY <2>1, <2>3, <2>4 DEF ListsLeadToServed, TypeOK, Attached
  <2>7. \A x \in Children : (Attached(x) => Registered(x))'
    BY <2>1, <2>2, <2>4 DEF ListsLeadToServed, Attached, Registered
  <2>8. \A q \in Parents : \A x \in ChildrenOf(q) :
          (next[x] # NULL => next[x] \in ChildrenOf(q))'
    <3> SUFFICES ASSUME NEW q \in Parents, NEW x \in ChildrenOf(q), next'[x] # NULL
                 PROVE  next'[x] \in ChildrenOf(q)
      BY DEF ChildrenOf
    <3>1. CASE x = c
      <4>1. ChildrenOf(q) = ChildrenOf(p)
        BY <3>1 DEF ChildrenOf, Parents, Children
      <4> QED
        BY <2>1, <3>1, <4>1 DEF ListsLeadToServed
    <3>2. CASE x # c
      BY <2>1, <3>2, ChildKinds DEF ListsLeadToServed
    <3> QED
      BY <3>1, <3>2
  <2> QED
    BY <2>5, <2>6, <2>7, <2>8 DEF ListsLeadToServed
<1>3. ASSUME NEW p \in Parents, NEW c \in ChildrenOf(p), AddChild(p, c) PROVE ListsLeadToServed'
  BY <1>1, <1>2, <1>3 DEF AddChild, FailToAttach, Undefined
<1>4. ASSUME NEW d \in Devices, CreateDevice(d) PROVE ListsLeadToServed'
  BY <1>1, <1>4 DEF CreateDevice
<1> QED
  BY <1>1, <1>3, <1>4, OtherSteps

(* A list is the head and, with a child, the next: all of them added.      *)
LEMMA ListIsWhole ==
  ASSUME TypeOK, ListsLeadToServed, AddedWereCreated, NEW p \in Parents
  PROVE  /\ \A c \in List(p) : /\ c \in ChildrenOf(p) /\ c \in Children
                               /\ Attached(c) /\ uuid[c] # NULL
                               /\ next[c] # NULL => next[c] \in List(p)
         /\ head[p] # NULL => head[p] \in List(p)
         /\ head[p] = NULL => List(p) = {}
<1> DEFINE S == {c \in Children : c \in ChildrenOf(p) /\ Attached(c)}
<1>1. ClosedWalk(p, NULL, S)
  <2>1. head[p] # NULL => head[p] \in S
    BY DEF ListsLeadToServed, TypeOK
  <2>2. \A x \in S : next[x] # NULL => next[x] \in S
    BY DEF ListsLeadToServed, TypeOK
  <2> QED
    BY <2>1, <2>2 DEF ClosedWalk
<1>2. \A c \in List(p) : c \in ChildrenOf(p) /\ c \in Children /\ Attached(c)
  BY <1>1 DEF List, Visited
<1>3. \A c \in List(p) : uuid[c] # NULL
  BY <1>2 DEF AddedWereCreated, TypeOK
<1>4. head[p] # NULL => head[p] \in List(p)
  BY DEF List, Visited, ClosedWalk, TypeOK
<1>5. ASSUME NEW c \in List(p), next[c] # NULL PROVE next[c] \in List(p)
  <2>1. next[c] \in Children
    BY <1>2, <1>5 DEF TypeOK
  <2>2. ASSUME NEW T \in SUBSET Children, ClosedWalk(p, NULL, T) PROVE next[c] \in T
    BY <1>3, <1>5, <2>2 DEF List, Visited, ClosedWalk
  <2> QED
    BY <2>1, <2>2 DEF List, Visited
<1>6. ASSUME head[p] = NULL PROVE List(p) = {}
  <2>1. ClosedWalk(p, NULL, {})
    BY <1>6 DEF ClosedWalk
  <2> QED
    BY <2>1 DEF List, Visited
<1> QED
  BY <1>2, <1>3, <1>4, <1>5, <1>6

(* The same one step later.                                                *)
LEMMA ListIsLeastNext ==
  ASSUME NEW p \in Parents, NEW S \in SUBSET Children,
         head'[p] # NULL => head'[p] \in S,
         \A x \in S : next'[x] # NULL => next'[x] \in S
  PROVE  List(p)' \subseteq S
BY DEF List, Visited, ClosedWalk

(* The same one step later.                                                *)
LEMMA ListIsWholeNext ==
  ASSUME TypeOK', ListsLeadToServed', AddedWereCreated', NEW p \in Parents
  PROVE  /\ \A c \in List(p)' : /\ c \in Children /\ uuid'[c] # NULL
                                /\ next'[c] # NULL => next'[c] \in List(p)'
         /\ head'[p] # NULL => head'[p] \in List(p)'
<1> DEFINE S == {c \in Children : c \in ChildrenOf(p) /\ parent_path'[c] # NULL}
<1>0. head' \in [Parents -> Children \cup {NULL}] /\ next' \in [Children -> Children \cup {NULL}]
  BY DEF TypeOK
<1>1. List(p)' \subseteq S
  <2>1. head'[p] # NULL => head'[p] \in S
    BY <1>0 DEF ListsLeadToServed, Attached
  <2>2. \A x \in S : next'[x] # NULL => next'[x] \in S
    BY <1>0 DEF ListsLeadToServed, Attached
  <2> QED
    BY <2>1, <2>2, ListIsLeastNext
<1>2. \A c \in List(p)' : c \in Children /\ Attached(c)'
  BY <1>1 DEF Attached
<1>3. \A c \in List(p)' : uuid'[c] # NULL
  BY <1>2 DEF AddedWereCreated, TypeOK
<1>4. head'[p] # NULL => head'[p] \in List(p)'
  BY DEF List, Visited, ClosedWalk, TypeOK
<1>5. ASSUME NEW c \in List(p)', next'[c] # NULL PROVE next'[c] \in List(p)'
  <2>1. next'[c] \in Children
    BY <1>2, <1>5 DEF TypeOK
  <2>2. ASSUME NEW T \in SUBSET Children, ClosedWalk(p, NULL, T)' PROVE next'[c] \in T
    BY <1>3, <1>5, <2>2 DEF List, Visited, ClosedWalk
  <2> QED
    BY <2>1, <2>2 DEF List, Visited
<1> QED
  BY <1>2, <1>3, <1>4, <1>5

(* A set of children that holds the head and, with a node, the next one    *)
(* holds the list.                                                         *)
LEMMA ListIsLeast ==
  ASSUME NEW p \in Parents, NEW S \in SUBSET Children,
         head[p] # NULL => head[p] \in S,
         \A x \in S : next[x] # NULL => next[x] \in S
  PROVE  List(p) \subseteq S
BY DEF List, Visited, ClosedWalk

(* Pushing a child that is on no list makes its parent's list longer by    *)
(* just that child.                                                        *)
LEMMA LinkPushes ==
  ASSUME TypeOK, ListsLeadToServed, AddedWereCreated,
         TypeOK', ListsLeadToServed', AddedWereCreated',
         NEW p \in Parents, NEW c \in ChildrenOf(p), ~Attached(c), Link(p, c)
  PROVE  /\ c \notin List(p)
         /\ List(p)' = List(p) \cup {c}
         /\ \A q \in Parents : q # p => List(q)' = List(q)
<1>1. /\ c \in Children /\ c # NULL
      /\ head'[p] = c /\ next'[c] = head[p]
      /\ \A q \in Parents : q # p => head'[q] = head[q]
      /\ \A x \in Children : x # c => next'[x] = next[x]
  BY ChildKinds DEF Link, TypeOK, Objects
<1>2. \A q \in Parents : c \notin List(q) /\ List(q) \subseteq Children
  BY ListIsWhole
<1>3. ASSUME NEW q \in Parents PROVE List(q) \subseteq List(q)'
  <2> DEFINE S == List(q)' \ {c}
  <2>1. List(q)' \subseteq Children
    BY DEF List, Visited
  <2>2. /\ \A x \in List(q)' : next'[x] # NULL => next'[x] \in List(q)'
        /\ head'[q] # NULL => head'[q] \in List(q)'
    <3>1. /\ \A x \in List(q)' : uuid'[x] # NULL /\ x \in Children
      BY ListIsWholeNext
    <3> QED
      BY ListIsWholeNext
  <2>3. head[q] # NULL => head[q] \in S
    <3>1. head[q] # c
      BY <1>1 DEF ListsLeadToServed
    <3>2. CASE q = p
      BY <1>1, <2>2, <3>1, <3>2
    <3>3. CASE q # p
      BY <1>1, <2>2, <3>1, <3>3
    <3> QED
      BY <3>2, <3>3
  <2>4. ASSUME NEW x \in S, next[x] # NULL PROVE next[x] \in S
    <3>1. x \in Children /\ x # c /\ next[x] # c
      BY <2>1, <2>4 DEF ListsLeadToServed
    <3> QED
      BY <1>1, <2>2, <2>4, <3>1
  <2> HIDE DEF S
  <2>5. List(q) \subseteq S
    <3>1. S \in SUBSET Children
      BY <2>1 DEF S
    <3> QED
      BY <2>3, <2>4, <3>1, ListIsLeast
  <2> QED
    BY <2>5 DEF S
<1>4. ASSUME NEW q \in Parents, q # p PROVE List(q)' \subseteq List(q)
  <2>1. head'[q] # NULL => head'[q] \in List(q)
    BY <1>1, <1>4, ListIsWhole
  <2>2. \A x \in List(q) : next'[x] # NULL => next'[x] \in List(q)
    BY <1>1, <1>2, ListIsWhole
  <2> QED
    BY <1>2, <2>1, <2>2, ListIsLeastNext
<1>5. List(p)' \subseteq List(p) \cup {c}
  <2> DEFINE S == List(p) \cup {c}
  <2>1. head'[p] \in S /\ S \in SUBSET Children
    BY <1>1, <1>2
  <2>2. ASSUME NEW x \in S, next'[x] # NULL PROVE next'[x] \in S
    <3>1. CASE x = c
      BY <1>1, <2>2, <3>1, ListIsWhole
    <3>2. CASE x # c
      BY <1>1, <1>2, <2>2, <3>2, ListIsWhole
    <3> QED
      BY <3>1, <3>2
  <2> QED
    BY <2>1, <2>2, ListIsLeastNext
<1>6. c \in List(p)'
  BY <1>1, ListIsWholeNext
<1> QED
  BY <1>2, <1>3, <1>4, <1>5, <1>6

(* A step that pushes nothing leaves every list as it is.                  *)
LEMMA ListsStay ==
  ASSUME TypeOK, ListsLeadToServed, AddedWereCreated,
         TypeOK', ListsLeadToServed', AddedWereCreated', UNCHANGED <<head, next>>
  PROVE  \A p \in Parents : List(p)' = List(p)
<1> SUFFICES ASSUME NEW p \in Parents PROVE List(p)' = List(p)
  OBVIOUS
<1>1. List(p) \in SUBSET Children /\ List(p)' \in SUBSET Children
  BY ListIsWhole, ListIsWholeNext
<1>2. List(p)' \subseteq List(p)
  BY <1>1, ListIsWhole, ListIsLeastNext
<1>3. List(p) \subseteq List(p)'
  <2> DEFINE S == List(p)'
  <2>1. /\ head[p] # NULL => head[p] \in S
        /\ \A x \in S : next[x] # NULL => next[x] \in S
        /\ S \in SUBSET Children
    BY <1>1, ListIsWholeNext
  <2> HIDE DEF S
  <2>2. List(p) \subseteq S
    BY <2>1, ListIsLeast
  <2> QED
    BY <2>2 DEF S
<1> QED
  BY <1>2, <1>3

(* What was added stays created.                                           *)
LEMMA CreatedStep == TypeOK /\ AddedWereCreated /\ [Next]_vars => AddedWereCreated'
<1> SUFFICES ASSUME TypeOK, AddedWereCreated, [Next]_vars PROVE AddedWereCreated'
  OBVIOUS
<1> USE DEF objects, lists, bus, heap
<1>1. ASSUME UNCHANGED parent_path, \A o \in Objects : life[o] # "absent" => life'[o] # "absent"
      PROVE  AddedWereCreated'
  BY <1>1 DEF AddedWereCreated, Attached, Objects
<1>2. CASE UNCHANGED vars
  BY <1>1, <1>2 DEF vars
<1>3. ASSUME NEW d \in Devices, CreateDevice(d) PROVE AddedWereCreated'
  BY <1>1, <1>3 DEF CreateDevice, TypeOK
<1>4. ASSUME NEW c \in Children, NEW u \in Uuids, CreateChild(c, u) PROVE AddedWereCreated'
  BY <1>1, <1>4 DEF CreateChild, TypeOK
<1>5. ASSUME NEW p \in Parents, NEW c \in ChildrenOf(p), AddChild(p, c) PROVE AddedWereCreated'
  <2>1. CASE Attach(p, c)
    <3>1. life' = life /\ life[c] = "held" /\ \A x \in Children : x # c => parent_path'[x] = parent_path[x]
      BY <1>5, <2>1, ChildKinds DEF AddChild, Attach, TypeOK
    <3> QED
      BY <3>1 DEF AddedWereCreated, Attached
  <2>2. CASE Undefined("use_after_free") \/ FailToAttach(p, c)
    BY <1>1, <2>2 DEF Undefined, FailToAttach
  <2> QED
    BY <1>5, <2>1, <2>2 DEF AddChild
<1>6. ASSUME \/ \E d \in Devices : RegisterDevice(d) \/ GetManagedObjects(d)
             \/ \E o \in Objects : HandleMessage(o)
      PROVE  AddedWereCreated'
  BY <1>1, <1>6 DEF RegisterDevice, GetManagedObjects, HandleMessage, Undefined
<1>7. ASSUME NEW o \in Objects, Drop(o) \/ Collect(o) PROVE AddedWereCreated'
  BY <1>1, <1>7 DEF Drop, Collect, Undefined, TypeOK
<1>8. CASE Close
  BY <1>1, <1>8 DEF Close, Undefined, TypeOK
<1> QED
  BY StepCases, <1>2, <1>3, <1>4, <1>5, <1>6, <1>7, <1>8

(* What else a step that adds nothing leaves alone.                        *)
LEMMA QuietSteps ==
  ASSUME [Next]_vars, TypeOK, AddedWereCreated,
         ~ \E p \in Parents : \E c \in ChildrenOf(p) : Attach(p, c) /\ ~Attached(c)
                                /\ ~HasUuid(p, uuid[c])
  PROVE  /\ UNCHANGED <<head, next, count>>
         /\ \A c \in Children : Attached(c) =>
              uuid'[c] = uuid[c] /\ object_path'[c] = object_path[c]
<1> USE DEF objects, lists, bus, heap
<1>1. CASE UNCHANGED vars
  BY <1>1 DEF vars
<1>2. ASSUME NEW d \in Devices, CreateDevice(d)
      PROVE  UNCHANGED <<head, next, count, uuid>> /\ \A c \in Children : object_path'[c] = object_path[c]
  BY <1>2 DEF CreateDevice, TypeOK, Objects
<1>3. ASSUME NEW c \in Children, NEW u \in Uuids, CreateChild(c, u)
      PROVE  /\ UNCHANGED <<head, next, count, object_path>>
             /\ \A x \in Children : Attached(x) => uuid'[x] = uuid[x]
  BY <1>3 DEF CreateChild, TypeOK, AddedWereCreated
<1>4. ASSUME NEW p \in Parents, NEW c \in ChildrenOf(p), AddChild(p, c)
      PROVE  /\ UNCHANGED <<head, next, count, uuid>>
             /\ \A x \in Children : Attached(x) => object_path'[x] = object_path[x]
  <2>1. ~Attach(p, c) \/ Undefined("use_after_free")
    BY <1>4 DEF AddChild, MayAdd, Attached
  <2>2. CASE FailToAttach(p, c)
    BY <1>4, <2>2, ChildKinds DEF FailToAttach, AddChild, MayAdd, Attached, TypeOK, Objects
  <2>3. CASE Undefined("use_after_free")
    BY <2>3 DEF Undefined
  <2> QED
    BY <1>4, <2>1, <2>2, <2>3 DEF AddChild
<1>5. ASSUME \/ \E d \in Devices : RegisterDevice(d) \/ GetManagedObjects(d)
             \/ \E o \in Objects : HandleMessage(o) \/ Drop(o) \/ Collect(o)
             \/ Close
      PROVE  UNCHANGED <<head, next, count, uuid, object_path>>
  BY <1>5 DEF RegisterDevice, GetManagedObjects, HandleMessage, Drop, Collect, Close, Undefined
<1> QED
  BY StepCases, <1>1, <1>2, <1>3, <1>4, <1>5

(* A push makes one list longer by one; other steps leave all as they are. *)
LEMMA ListsStep == ListsInv /\ [Next]_vars => ListsInv'
<1> SUFFICES ASSUME ListsInv, [Next]_vars PROVE ListsInv'
  OBVIOUS
<1>1. /\ TypeOK /\ ListsLeadToServed /\ AddedWereCreated
      /\ \A p \in Parents : IsFiniteSet(List(p))
      /\ ListsAreComplete /\ SiblingUuidsDistinct
  BY DEF ListsInv
<1>2. TypeOK' /\ ListsLeadToServed' /\ AddedWereCreated'
  BY <1>1, NextType, ServedStep, CreatedStep
<1>3. ASSUME NEW p \in Parents, NEW c \in ChildrenOf(p),
             Attach(p, c), ~Attached(c), ~HasUuid(p, uuid[c])
      PROVE  ListsInv'
  <2>1. /\ c \in Children /\ c \in Objects /\ c # NULL
        /\ Link(p, c) /\ uuid' = uuid
        /\ object_path'[c] = NextPath(p, c)
        /\ \A x \in Objects : x # c => object_path'[x] = object_path[x]
        /\ head'[p] = c /\ next'[c] = head[p]
        /\ \A q \in Parents : q # p => head'[q] = head[q] /\ count'[q] = count[q]
        /\ \A x \in Children : x # c => next'[x] = next[x]
        /\ count'[p] = count[p] + 1 /\ count[p] \in Nat
    BY <1>1, <1>3, ChildKinds DEF Attach, Link, TypeOK, Objects
  <2>2. /\ c \notin List(p) /\ List(p)' = List(p) \cup {c}
        /\ \A q \in Parents : q # p => List(q)' = List(q)
    BY <1>1, <1>2, <1>3, <2>1, LinkPushes
  <2>3. \A q \in Parents : \A x \in List(q) :
          /\ x \in Children /\ x # c /\ Index(x)' = Index(x)
          /\ next[x] # NULL => next[x] \in Children /\ next[x] # c /\ Index(next[x])' = Index(next[x])
    <3>1. \A q \in Parents : \A x \in List(q) :
            /\ x \in Children /\ x # c
            /\ next[x] # NULL => next[x] \in Children /\ next[x] # c
      BY <1>1, <1>3, ListIsWhole
    <3> QED
      BY <2>1, <3>1 DEF Index, Objects
  <2>4. Index(c)' = count[p]
    BY <2>1 DEF Index, NextPath, CreateObjectPath
  <2>5. \A q \in Parents : IsFiniteSet(List(q))' /\ Cardinality(List(q))' = count'[q]
    <3>1. IsFiniteSet(List(p) \cup {c}) /\ Cardinality(List(p) \cup {c}) = Cardinality(List(p)) + 1
      BY <1>1, <2>2, FS_AddElement
    <3>2. \A q \in Parents : Cardinality(List(q)) = count[q]
      BY <1>1 DEF ListsAreComplete
    <3> QED
      BY <1>1, <2>1, <2>2, <3>1, <3>2
  <2>6. ASSUME NEW q \in Parents, head'[q] # NULL PROVE Index(head[q])' = count'[q] - 1
    <3>1. CASE q = p
      BY <2>1, <2>4, <3>1 DEF Index
    <3>2. CASE q # p
      <4>1. head[q] # NULL /\ head[q] \in List(q) /\ Index(head[q]) = count[q] - 1
        BY <1>1, <2>1, <2>6, <3>2, ListIsWhole DEF ListsAreComplete
      <4>2. head'[q] = head[q] /\ object_path'[head[q]] = object_path[head[q]]
        BY <2>1, <2>3, <3>2, <4>1, ListIsWhole, <1>1 DEF Objects
      <4> QED
        BY <2>1, <3>2, <4>1, <4>2 DEF Index
    <3> QED
      BY <3>1, <3>2
  <2>7. ASSUME NEW q \in Parents, NEW x \in List(q)'
        PROVE  IF next'[x] = NULL THEN Index(x)' = 0 ELSE Index(x)' = Index(next[x])' + 1
    <3>1. CASE x = c
      <4>1. CASE head[p] = NULL
        <5>1. List(p) = {}
          BY <1>1, <4>1, ListIsWhole
        <5>2. count[p] = 0
          BY <1>1, <5>1, FS_EmptySet DEF ListsAreComplete
        <5> QED
          BY <2>1, <2>4, <3>1, <4>1, <5>2
      <4>2. CASE head[p] # NULL
        <5>1. head[p] \in List(p) /\ Index(head[p]) = count[p] - 1
          BY <1>1, <4>2, ListIsWhole DEF ListsAreComplete
        <5>2. object_path'[head[p]] = object_path[head[p]]
          BY <2>1, <2>3, <5>1 DEF Objects
        <5>3. next'[x] = head[p] /\ Index(x)' = count[p]
          BY <2>1, <2>4, <3>1
        <5> QED
          BY <2>1, <4>2, <5>1, <5>2, <5>3 DEF Index
      <4> QED
        BY <4>1, <4>2
    <3>2. CASE x # c
      <4>1. x \in List(q)
        BY <2>2, <3>2
      <4>2. IF next[x] = NULL THEN Index(x) = 0 ELSE Index(x) = Index(next[x]) + 1
        BY <1>1, <4>1 DEF ListsAreComplete
      <4>3. /\ next'[x] = next[x] /\ object_path'[x] = object_path[x]
            /\ next[x] # NULL => object_path'[next[x]] = object_path[next[x]]
        BY <2>1, <2>3, <3>2, <4>1 DEF Objects
      <4> QED
        BY <4>2, <4>3 DEF Index
    <3> QED
      BY <3>1, <3>2
  <2>8. ListsAreComplete'
    BY <2>5, <2>6, <2>7 DEF ListsAreComplete
  <2>9. SiblingUuidsDistinct'
    <3>1. \A x \in List(p) : uuid[x] # uuid[c]
      BY <1>1, <1>3, FailedLookupSeesAll
    <3> QED
      BY <1>1, <2>1, <2>2, <3>1 DEF SiblingUuidsDistinct
  <2> QED
    BY <1>2, <2>5, <2>8, <2>9 DEF ListsInv
<1>4. ASSUME UNCHANGED <<head, next, count>>,
             \A c \in Children : Attached(c) =>
               uuid'[c] = uuid[c] /\ object_path'[c] = object_path[c]
      PROVE  ListsInv'
  <2>1. \A p \in Parents : List(p)' = List(p)
    BY <1>1, <1>2, <1>4, ListsStay
  <2>2. \A p \in Parents : \A x \in List(p) :
          /\ uuid'[x] = uuid[x] /\ object_path'[x] = object_path[x]
          /\ next[x] # NULL => object_path'[next[x]] = object_path[next[x]]
    <3>1. \A p \in Parents : \A x \in List(p) :
            /\ x \in Children /\ Attached(x)
            /\ next[x] # NULL => next[x] \in List(p)
      BY <1>1, ListIsWhole
    <3> QED
      BY <1>4, <3>1
  <2>3. \A p \in Parents : head[p] # NULL => object_path'[head[p]] = object_path[head[p]]
    BY <1>1, <2>2, ListIsWhole
  <2>4. ListsAreComplete'
    <3>1. ASSUME NEW p \in Parents
          PROVE  /\ Cardinality(List(p))' = count'[p]
                 /\ head'[p] # NULL => Index(head[p])' = count'[p] - 1
      BY <1>1, <1>4, <2>1, <2>3 DEF ListsAreComplete, Index
    <3>2. ASSUME NEW p \in Parents, NEW x \in List(p)'
          PROVE  IF next'[x] = NULL THEN Index(x)' = 0 ELSE Index(x)' = Index(next[x])' + 1
      <4>1. x \in List(p) /\ next'[x] = next[x]
        BY <1>4, <2>1
      <4>2. IF next[x] = NULL THEN Index(x) = 0 ELSE Index(x) = Index(next[x]) + 1
        BY <1>1, <4>1 DEF ListsAreComplete
      <4> QED
        BY <2>2, <4>1, <4>2 DEF Index
    <3> QED
      BY <3>1, <3>2 DEF ListsAreComplete
  <2>5. SiblingUuidsDistinct'
    BY <1>1, <2>1, <2>2 DEF SiblingUuidsDistinct
  <2> QED
    BY <1>1, <1>2, <2>1, <2>4, <2>5 DEF ListsInv
<1> QED
  BY <1>1, <1>3, <1>4, QuietSteps

(* All lists are empty at first.                                           *)
LEMMA InitLists == Init => ListsInv
<1> SUFFICES ASSUME Init PROVE ListsInv
  OBVIOUS
<1>1. TypeOK
  BY InitType
<1>2. /\ \A c \in Children : parent_path[c] = NULL /\ next[c] = NULL
      /\ \A p \in Parents : head[p] = NULL /\ count[p] = 0
  BY DEF Init
<1>3. ListsLeadToServed /\ AddedWereCreated
  BY <1>2 DEF ListsLeadToServed, AddedWereCreated, Attached, ChildrenOf, Parents, Children
<1>4. \A p \in Parents : List(p) = {}
  BY <1>1, <1>2, <1>3, ListIsWhole
<1>5. ListsAreComplete /\ SiblingUuidsDistinct
  BY <1>2, <1>4, FS_EmptySet DEF ListsAreComplete, SiblingUuidsDistinct
<1> QED
  BY <1>1, <1>3, <1>4, <1>5, FS_EmptySet DEF ListsInv

(* So every list is whole in every state.                                  *)
LEMMA ListsHold == Spec => []ListsInv
BY InitLists, ListsStep, PTL DEF Spec

(* A parent's list holds what was counted, newest first and each once,     *)
(* however long it is, whatever the script forgets and whichever           *)
(* registrations fail.                                                     *)
THEOREM ListsStayComplete == Spec => []ListsAreComplete
<1>1. ListsInv => ListsAreComplete
  BY DEF ListsInv
<1> QED
  BY <1>1, ListsHold, PTL

(* No uuid is twice on a list, whatever the script forgets and whichever   *)
(* registrations fail.                                                     *)
THEOREM SiblingsAreDistinct == Spec => []SiblingUuidsDistinct
<1>1. ListsInv => SiblingUuidsDistinct
  BY DEF ListsInv
<1> QED
  BY <1>1, ListsHold, PTL
(* What a lookup reads was added, and is on the bus.                       *)
LEMMA WalksAreServed ==
  ASSUME TypeOK, ListsLeadToServed, NEW p \in Parents, NEW u
  PROVE  \A c \in Visited(p, u) : c \in ChildrenOf(p) /\ c \in Objects /\ Registered(c)
<1> DEFINE S == {c \in Children : c \in ChildrenOf(p) /\ Attached(c)}
<1>1. ClosedWalk(p, u, S)
  <2>1. head[p] # NULL => head[p] \in S
    BY DEF ListsLeadToServed, TypeOK
  <2>2. \A x \in S : next[x] # NULL => next[x] \in S
    BY DEF ListsLeadToServed, TypeOK
  <2> QED
    BY <2>1, <2>2 DEF ClosedWalk
<1> QED
  BY <1>1 DEF Visited, ListsLeadToServed, Objects

(* What GetManagedObjects reads is on the bus.                             *)
LEMMA ManagedAreServed ==
  ASSUME TypeOK, ListsLeadToServed, NEW d \in Devices
  PROVE  \A o \in ManagedObjects(d) : o \in Objects /\ Registered(o)
<1>1. ASSUME NEW p \in Parents, NEW c \in List(p)
      PROVE  c \in ChildrenOf(p) /\ c \in Objects /\ Registered(c)
  BY <1>1, WalksAreServed DEF List
<1>2. ASSUME NEW s \in List(d)  PROVE s \in Services /\ s \in Objects /\ Registered(s)
  BY <1>1, ChildKinds DEF Parents, ChildrenOf, Children
<1>3. ASSUME NEW s \in Services, NEW c \in List(s)
      PROVE  c \in Characteristics /\ c \in Objects /\ Registered(c)
  BY <1>1, ChildKinds DEF Parents, ChildrenOf, Children
<1>4. ASSUME NEW c \in Characteristics, NEW e \in List(c)  PROVE e \in Objects /\ Registered(e)
  BY <1>1 DEF Parents
<1> QED
  BY <1>2, <1>3, <1>4 DEF ManagedObjects

(* Freed memory is only read through an object that is still served after  *)
(* its collection, or through the path a failed add left behind, whatever  *)
(* the script forgets and whichever registrations fail.                    *)
THEOREM DanglingIsExplained == Spec => []OnlyServedObjectsDangle
<1> DEFINE Inv == TypeOK /\ ListsLeadToServed /\ OnlyServedObjectsDangle
<1>1. Init => Inv
  BY InitType DEF Init, ListsLeadToServed, OnlyServedObjectsDangle, Attached, Children, ChildrenOf,
     Parents
<1>2. Inv /\ [Next]_vars => Inv'
  <2> SUFFICES ASSUME TypeOK, ListsLeadToServed, OnlyServedObjectsDangle, [Next]_vars
               PROVE  OnlyServedObjectsDangle'
    BY NextType, ServedStep
  <2> USE DEF objects, lists, bus, heap
  <2>1. CASE UNCHANGED vars
    BY <2>1 DEF vars, OnlyServedObjectsDangle, Registered
  <2>2. ASSUME process' # "use_after_free" PROVE OnlyServedObjectsDangle'
    BY <2>2 DEF OnlyServedObjectsDangle
  <2>3. ASSUME UNCHANGED <<life, registered, freed>>,
               freed # {} \/ \E o \in Objects : Registered(o) /\ life[o] = "collected"
        PROVE  OnlyServedObjectsDangle'
    BY <2>3 DEF OnlyServedObjectsDangle, Registered
  <2>4. ASSUME NEW p \in Parents, NEW c \in ChildrenOf(p), AddChild(p, c)
        PROVE  OnlyServedObjectsDangle'
    <3>1. CASE ReadsFreedMemory(p, c) /\ Undefined("use_after_free")
      BY <2>3, <3>1, WalksAreServed DEF ReadsFreedMemory, Undefined
    <3>2. CASE Attach(p, c) \/ FailToAttach(p, c)
      BY <2>2, <2>4, <3>2 DEF AddChild, Attach, FailToAttach, Running
    <3> QED
      BY <2>4, <3>1, <3>2 DEF AddChild
  <2>5. ASSUME NEW d \in Devices, GetManagedObjects(d) PROVE OnlyServedObjectsDangle'
    <3>1. CASE \E o \in ManagedObjects(d) : life[o] = "collected"
      BY <2>3, <2>5, <3>1, ManagedAreServed DEF GetManagedObjects, Undefined
    <3>2. CASE ~ \E o \in ManagedObjects(d) : life[o] = "collected"
      BY <2>2, <2>5, <3>2 DEF GetManagedObjects, Running
    <3> QED
      BY <3>1, <3>2
  <2>6. ASSUME NEW o \in Objects, HandleMessage(o) PROVE OnlyServedObjectsDangle'
    BY <2>3, <2>6 DEF HandleMessage, Undefined
  <2>7. ASSUME \/ \E d \in Devices : CreateDevice(d) \/ RegisterDevice(d)
               \/ \E c \in Children, u \in Uuids : CreateChild(c, u)
               \/ \E o \in Objects : Drop(o) \/ Collect(o)
               \/ Close
        PROVE  OnlyServedObjectsDangle'
    <3>1. process' # "use_after_free"
      BY <2>7 DEF CreateDevice, RegisterDevice, CreateChild, Drop, Collect, Close, Undefined, Running
    <3> QED
      BY <2>2, <3>1
  <2> QED
    BY StepCases, <2>1, <2>4, <2>5, <2>6, <2>7
<1> QED
  BY <1>1, <1>2, PTL DEF Spec

LEMMA FreedPathsStep == TypeOK /\ FreedPathsOnly /\ [Next]_vars => FreedPathsOnly'
<1> SUFFICES ASSUME TypeOK, FreedPathsOnly, [Next]_vars PROVE FreedPathsOnly'
  OBVIOUS
<1> USE DEF objects, lists, bus, heap
<1>1. ASSUME UNCHANGED <<object_path, parent_path, head, freed>>  PROVE FreedPathsOnly'
  BY <1>1 DEF FreedPathsOnly, Attached
<1>2. ASSUME NEW p \in Parents, NEW c \in ChildrenOf(p), MayAdd(p, c),
             Attach(p, c) \/ FailToAttach(p, c)
      PROVE  FreedPathsOnly'
  <2> USE ChildKinds
  <2>1. /\ object_path'[c] # NULL /\ object_path[p] # NULL
        /\ \A o \in Objects : o # c => object_path'[o] = object_path[o]
    BY <1>2, NextPathType DEF Attach, FailToAttach, MayAdd, TypeOK
  <2>2. /\ Attached(c)' \/ c \in freed'
        /\ \A x \in Children : x # c => /\ Attached(x)' <=> Attached(x)
                                        /\ x \in freed' <=> x \in freed
    BY <1>2 DEF Attach, FailToAttach, MayAdd, TypeOK, Attached
  <2>3. \A q \in Parents : q # p => head'[q] = head[q]
    BY <1>2 DEF Attach, FailToAttach, Link, TypeOK
  <2>4. ASSUME NEW x \in Children, object_path'[x] # NULL
        PROVE  Attached(x)' \/ x \in freed'
    <3>1. CASE x = c
      BY <2>2, <3>1
    <3>2. CASE x # c
      <4>1. object_path[x] # NULL /\ x \in Children
        BY <2>1, <2>4, <3>2 DEF Objects
      <4>2. Attached(x) \/ x \in freed
        BY <4>1 DEF FreedPathsOnly
      <4> QED
        BY <2>2, <3>2, <4>2
    <3> QED
      BY <3>1, <3>2
  <2>5. ASSUME NEW q \in Parents, head'[q] # NULL PROVE object_path'[q] # NULL
    <3>1. q \in Objects
      BY DEF Objects, Parents, Children
    <3>2. object_path[q] # NULL => object_path'[q] # NULL
      BY <2>1, <3>1
    <3>3. object_path[q] # NULL
      BY <2>1, <2>3, <2>5 DEF FreedPathsOnly
    <3> QED
      BY <3>2, <3>3
  <2> QED
    BY <2>4, <2>5 DEF FreedPathsOnly
<1>3. ASSUME NEW p \in Parents, NEW c \in ChildrenOf(p), AddChild(p, c) PROVE FreedPathsOnly'
  BY <1>1, <1>2, <1>3 DEF AddChild, Undefined
<1>4. ASSUME NEW d \in Devices, CreateDevice(d) PROVE FreedPathsOnly'
  <2>1. object_path'[d] # NULL
    BY <1>4 DEF CreateDevice, CreateObjectPath, TypeOK, Objects, Paths, DevicePaths
  <2>2. \A o \in Objects : o # d => object_path'[o] = object_path[o]
    BY <1>4 DEF CreateDevice, TypeOK
  <2> QED
    BY <1>4, <2>1, <2>2 DEF CreateDevice, FreedPathsOnly, Attached, Objects, Parents, Children
<1> QED
  BY <1>1, <1>3, <1>4, OtherSteps

(* Whoever has a child was added itself, or is a parent whose adding       *)
(* failed half way: the path it was left with is what the code takes for   *)
(* having been added.                                                      *)
THEOREM MisplacedIsExplained == Spec => []OnlyFailedAddsMisplace
<1>1. Init => FreedPathsOnly
  BY DEF Init, FreedPathsOnly, Objects
<1>2. FreedPathsOnly => OnlyFailedAddsMisplace
  BY DEF FreedPathsOnly, OnlyFailedAddsMisplace, Parents, Children
<1> QED
  BY <1>1, <1>2, TypeCorrect, FreedPathsStep, PTL DEF Spec

-----------------------------------------------------------------------------
(* The database the tree implements.                                       *)

(* Adding a child takes none from any parent.                              *)
LEMMA AttachKeepsOwners ==
  ASSUME TreeInv, NEW p \in Parents, NEW c \in ChildrenOf(p), MayAdd(p, c), Attach(p, c)
  PROVE  /\ \A q \in Parents, x \in Children :
              Owns(q, x) => Owns(q, x)'
         /\ Owns(p, c)'
<1> USE ChildKinds
<1>1. /\ parent_path[c] = NULL /\ object_path[c] = NULL /\ object_path[p] # NULL
      /\ p # c
  BY DEF MayAdd, TreeInv, PathsFollowLife, Attached
<1>2. /\ \A o \in Objects : o # c => object_path'[o] = object_path[o]
      /\ \A x \in Children : x # c => parent_path'[x] = parent_path[x]
      /\ parent_path'[c] = object_path[p]
  BY DEF Attach, TreeInv, TypeOK
<1>3. ASSUME NEW q \in Parents, NEW x \in Children, Owns(q, x)
      PROVE  Owns(q, x)'
  <2>1. x # c /\ q # c /\ q \in Objects /\ x \in Objects
    BY <1>1, <1>3 DEF Owns, Parents, Children, Objects
  <2> QED
    BY <1>2, <1>3, <2>1 DEF Owns
<1> QED
  BY <1>1, <1>2, <1>3 DEF Owns

(* Who owns a child is known from the paths, since they are distinct.      *)
LEMMA OwnerIsOne ==
  ASSUME NEW op, NEW pp,
         \A o1, o2 \in Objects : op[o1] # NULL /\ op[o1] = op[o2] => o1 = o2,
         NEW p \in Parents, NEW c \in ChildrenOf(p), op[p] # NULL, pp[c] = op[p]
  PROVE  p = CHOOSE q \in Parents : c \in ChildrenOf(q) /\ op[q] # NULL /\ pp[c] = op[q]
<1> DEFINE P(q) == c \in ChildrenOf(q) /\ op[q] # NULL /\ pp[c] = op[q]
           q == CHOOSE q \in Parents : P(q)
<1>1. P(p)
  OBVIOUS
<1>2. q \in Parents /\ P(q)
  <2> HIDE DEF P
  <2> QED
    BY <1>1
<1>3. p \in Objects /\ q \in Objects
  BY <1>2, ChildKinds
<1> QED
  BY <1>1, <1>2, <1>3

(* In the mapping, the owner of a child is its parent.                     *)
LEMMA OwnerIsParent ==
  ASSUME TreeInv, NEW p \in Parents, NEW c \in Children, Owns(p, c)
  PROVE  Attached(c) /\ ParentOf(c) = p
<1>1. c \in ChildrenOf(p) /\ object_path[p] # NULL /\ parent_path[c] = object_path[p]
  BY DEF Owns
<1>2. p = CHOOSE q \in Parents : c \in ChildrenOf(q) /\ object_path[q] # NULL /\ parent_path[c] = object_path[q]
  BY <1>1, OwnerIsOne DEF TreeInv, PathsAreDistinct
<1> QED
  BY <1>1, <1>2 DEF ParentOf, Owns, Attached

(* The same one step later.                                                *)
LEMMA OwnerIsParentNext ==
  ASSUME TreeInv', NEW p \in Parents, NEW c \in Children, Owns(p, c)'
  PROVE  Attached(c)' /\ ParentOf(c)' = p
<1>1. c \in ChildrenOf(p) /\ object_path'[p] # NULL /\ parent_path'[c] = object_path'[p]
  BY DEF Owns
<1>2. p = CHOOSE q \in Parents : c \in ChildrenOf(q) /\ object_path'[q] # NULL /\ parent_path'[c] = object_path'[q]
  BY <1>1, OwnerIsOne DEF TreeInv, PathsAreDistinct
<1> QED
  BY <1>1, <1>2 DEF ParentOf, Owns, Attached

(* Every child that was added has its owner for a parent, and no other.    *)
LEMMA ParentOwns ==
  ASSUME TreeInv, NEW c \in Children
  PROVE  /\ ~Attached(c) => ParentOf(c) = NULL
         /\ Attached(c) => /\ ParentOf(c) \in Parents /\ ParentOf(c) # NULL
                           /\ Owns(ParentOf(c), c)
<1>1. CASE Attached(c)
  <2>1. PICK p \in Parents : Owns(p, c)
    BY <1>1 DEF TreeInv, PathsAreCounted
  <2>2. p # NULL
    BY DEF Parents, Objects, Children
  <2> QED
    BY <1>1, <2>1, <2>2, OwnerIsParent
<1> QED
  BY <1>1 DEF ParentOf

(* A list holds the children that have its owner for a parent.             *)
LEMMA ListIsSiblings ==
  ASSUME TreeInv, NEW p \in Parents
  PROVE  List(p) = {c \in Children : ParentOf(c) = p}
<1>1. p # NULL
  BY DEF Parents, Objects, Children
<1>2. \A c \in List(p) : c \in Children /\ Owns(p, c)
  BY ListIsOwn DEF TreeInv, List, Visited
<1>3. \A c \in Children : Owns(p, c) => c \in List(p)
  BY DEF TreeInv, ListsStayInFamily
<1>4. \A c \in Children : Owns(p, c) <=> ParentOf(c) = p
  BY <1>1, OwnerIsParent, ParentOwns
<1> QED
  BY <1>2, <1>3, <1>4

(* What the three nested loops of GetManagedObjects walk is what is below  *)
(* the device.                                                             *)
LEMMA ManagedAreBelow ==
  ASSUME TreeInv, NEW d \in Devices
  PROVE  ManagedObjects(d) = Database!Below(d)
<1> DEFINE parent == [c \in Children |-> ParentOf(c)]
           Inside(S) == {c \in Children : parent[c] \in S}
           chars == UNION {List(s) : s \in List(d)}
<1>1. /\ d \in Parents
      /\ \A s \in List(d) : s \in Services /\ s \in Parents
  <2>1. d \in Parents /\ d \notin Services /\ d \notin Characteristics
    BY DEF Parents, Children
  <2>2. \A s \in List(d) : s \in ChildrenOf(d)
    BY <2>1, ListIsOwn DEF TreeInv, Owns
  <2> QED
    BY <2>1, <2>2, ChildKinds DEF Parents
<1>2. List(d) = {c \in Children : parent[c] = d}
  BY <1>1, ListIsSiblings
<1>3. chars = Inside(List(d))
  BY <1>1, ListIsSiblings
<1>4. \A c \in chars : c \in Characteristics /\ c \in Parents
  <2>1. ASSUME NEW s \in List(d), NEW c \in List(s) PROVE c \in Characteristics
    <3>1. s \in Services /\ Owns(s, c)
      BY <1>1, ListIsOwn DEF TreeInv
    <3> QED
      BY <3>1 DEF Owns, ChildrenOf, Children
  <2> QED
    BY <2>1 DEF Parents
<1>5. UNION {List(c) : c \in chars} = Inside(chars)
  <2> HIDE DEF chars
  <2> QED
    BY <1>4, ListIsSiblings
<1> QED
  BY <1>2, <1>3, <1>5 DEF ManagedObjects, Database!Below, Database!Siblings, Database!Children, Children

(* A step that moves no path leaves every parent as it is.                 *)
LEMMA ParentsStay ==
  ASSUME UNCHANGED <<object_path, parent_path>>
  PROVE  \A c : ParentOf(c)' = ParentOf(c)
BY DEF ParentOf, Attached, Owns

(* A step that creates nothing, moves no path and serves nobody is         *)
(* invisible, unless it is a report.                                       *)
LEMMA InvisibleSteps ==
  ASSUME UNCHANGED <<uuid, object_path, parent_path, registered, announced>>,
         \A o \in Objects : life'[o] = "absent" <=> life[o] = "absent"
  PROVE  UNCHANGED Database!vars
<1>1. [c \in Children |-> ParentOf(c)]' = [c \in Children |-> ParentOf(c)]
  BY ParentsStay
<1>2. {o \in Objects : life[o] # "absent"}' = {o \in Objects : life[o] # "absent"}
  OBVIOUS
<1> QED
  BY <1>1, <1>2 DEF Database!vars

(* The database is empty when the tree is.                                 *)
LEMMA InitDatabase == Init => Database!Init
<1> SUFFICES ASSUME Init PROVE Database!Init
  OBVIOUS
<1>1. \A c \in Children : ParentOf(c) = NULL
  BY DEF Init, ParentOf, Attached
<1> QED
  BY <1>1 DEF Init, Database!Init, Database!Children, Database!Objects, Objects, Children

(* A device gets a path that is nobody's.                                  *)
LEMMA CreateDeviceRefines ==
  ASSUME TreeInv, TreeInv', NEW d \in Devices, CreateDevice(d)
  PROVE  Database!CreateDevice(d)
<1>1. /\ d \in Objects /\ d \notin Children /\ object_path[d] = NULL /\ life[d] = "absent"
      /\ object_path \in [Objects -> Paths \cup {NULL}] /\ life \in [Objects -> {"absent", "held", "dropped", "collected"}]
  BY DEF CreateDevice, TreeInv, TypeOK, PathsFollowLife, Objects
<1>2. /\ object_path' = [object_path EXCEPT ![d] = object_path'[d]]
      /\ object_path'[d] # NULL
  <2>1. object_path'[d] \in {EmptyPath} \X {"dev"} \X Nat
    BY <1>1 DEF CreateDevice, CreateObjectPath, TreeInv, TypeOK
  <2> QED
    BY <1>1, <2>1 DEF CreateDevice, Paths, DevicePaths
<1>3. \A x \in Objects : object_path[x] # object_path'[d]
  <2>1. ASSUME NEW x \in Objects, object_path[x] = object_path'[d] PROVE FALSE
    <3>1. x # d
      BY <1>1, <1>2, <2>1
    <3>2. object_path'[x] = object_path'[d]
      BY <1>2, <2>1, <3>1, <1>1
    <3> QED
      BY <1>1, <1>2, <3>1, <3>2 DEF TreeInv, PathsAreDistinct
  <2> QED
    BY <2>1
<1>4. ASSUME NEW c \in Children PROVE ParentOf(c)' = ParentOf(c)
  <2>1. parent_path' = parent_path
    BY DEF CreateDevice
  <2>2. CASE Attached(c)
    <3>1. PICK p \in Parents : Owns(p, c) /\ ParentOf(c) = p
      BY <2>2, ParentOwns
    <3>2. p \in Objects /\ p # d
      BY <1>1, <3>1 DEF Owns, Parents, Objects, Children
    <3>3. Owns(p, c)'
      BY <1>1, <1>2, <2>1, <3>1, <3>2 DEF Owns
    <3> QED
      BY <3>1, <3>3, OwnerIsParentNext
  <2>3. CASE ~Attached(c)
    BY <2>1, <2>3 DEF Attached, ParentOf
  <2> QED
    BY <2>2, <2>3
<1>5. {o \in Objects : life[o] # "absent"}' = {o \in Objects : life[o] # "absent"} \cup {d}
  BY <1>1 DEF CreateDevice
<1>6. UNCHANGED <<uuid, registered, announced>>
  BY DEF CreateDevice, bus
<1>7. d \notin {o \in Objects : life[o] # "absent"}
  BY <1>1
<1> QED
  BY <1>2, <1>3, <1>4, <1>5, <1>6, <1>7 DEF Database!CreateDevice, Database!Place, Database!Objects, Database!Children, Objects, Children

(* A child gets its uuid, and no place yet.                                *)
LEMMA CreateChildRefines ==
  ASSUME TreeInv, NEW c \in Children, NEW u \in Uuids, CreateChild(c, u)
  PROVE  Database!CreateChild(c, u)
<1>1. /\ c \in Objects /\ life[c] = "absent"
      /\ life \in [Objects -> {"absent", "held", "dropped", "collected"}]
  BY DEF CreateChild, TreeInv, TypeOK, Objects
<1>2. {o \in Objects : life[o] # "absent"}' = {o \in Objects : life[o] # "absent"} \cup {c}
  BY <1>1 DEF CreateChild
<1>3. [x \in Children |-> ParentOf(x)]' = [x \in Children |-> ParentOf(x)]
  BY ParentsStay DEF CreateChild
<1>4. UNCHANGED <<object_path, registered, announced>> /\ uuid' = [uuid EXCEPT ![c] = u]
  BY DEF CreateChild, bus
<1>5. c \notin {o \in Objects : life[o] # "absent"}
  BY <1>1
<1> QED
  BY <1>2, <1>3, <1>4, <1>5 DEF Database!CreateChild

(* The duplicate check, the counter and the list do what Add promises.     *)
LEMMA AttachRefines ==
  ASSUME TreeInv, TreeInv', NEW p \in Parents, NEW c \in ChildrenOf(p),
         MayAdd(p, c), life[p] = "held", life[c] = "held", ~HasUuid(p, uuid[c]), Attach(p, c)
  PROVE  Database!Add(p, c)
<1> DEFINE parent == [x \in Children |-> ParentOf(x)]
<1>1. /\ c \in Children /\ c \in Objects /\ p \in Objects
      /\ object_path[p] # NULL /\ parent_path[c] = NULL
      /\ object_path \in [Objects -> Paths \cup {NULL}]
  BY ChildKinds DEF MayAdd, TreeInv, TypeOK
<1>2. /\ object_path' = [object_path EXCEPT ![c] = NextPath(p, c)]
      /\ object_path'[c] = NextPath(p, c)
      /\ registered' = registered \cup {<<NextPath(p, c), c>>}
      /\ parent_path' = [parent_path EXCEPT ![c] = object_path[p]]
      /\ UNCHANGED <<life, uuid, announced>>
  BY <1>1 DEF Attach
<1>3. /\ object_path'[c] # NULL
      /\ \A x \in Objects : object_path[x] # object_path'[c]
  BY <1>1, <1>2, NextPathType, NextPathIsFresh DEF TreeInv
<1>4. parent[c] = NULL
  BY <1>1, ParentOwns DEF Attached
<1>5. p \in Devices \/ parent[p] # NULL
  <2>1. CASE p \in Children
    BY <1>1, <2>1, ParentOwns DEF TreeInv, PathsFollowLife
  <2> QED
    BY <2>1, <1>1 DEF Objects
<1>6. \A s \in Children : parent[s] = p => uuid[s] # uuid[c]
  <2>1. \A s \in List(p) : uuid[s] # uuid[c]
    BY FailedLookupSeesAll DEF TreeInv
  <2> QED
    BY <2>1, ListIsSiblings
<1>7. parent' = [parent EXCEPT ![c] = p]
  <2>1. ParentOf(c)' = p
    BY <1>1, AttachKeepsOwners, OwnerIsParentNext
  <2>2. ASSUME NEW x \in Children, x # c PROVE ParentOf(x)' = ParentOf(x)
    <3>1. CASE Attached(x)
      <4>1. PICK q \in Parents : Owns(q, x) /\ ParentOf(x) = q
        BY <3>1, ParentOwns
      <4>2. Owns(q, x)'
        BY <4>1, AttachKeepsOwners
      <4> QED
        BY <4>1, <4>2, OwnerIsParentNext
    <3>2. CASE ~Attached(x)
      <4>1. parent_path'[x] = NULL
        BY <1>2, <2>2, <3>2 DEF Attached, TreeInv, TypeOK
      <4> QED
        BY <3>2, <4>1 DEF Attached, ParentOf
    <3> QED
      BY <3>1, <3>2
  <2> QED
    BY <2>1, <2>2, <1>1
<1>8. {r[2] : r \in registered}' = {r[2] : r \in registered} \cup {c}
  <2>1. \A x : x \in {r[2] : r \in registered}' <=> x \in {r[2] : r \in registered} \/ x = c
    <3>1. <<NextPath(p, c), c>>[2] = c
      OBVIOUS
    <3> QED
      BY <1>2, <3>1
  <2> QED
    BY <2>1
<1>9. /\ p \in {o \in Objects : life[o] # "absent"} /\ c \in {o \in Objects : life[o] # "absent"}
      /\ {o \in Objects : life[o] # "absent"}' = {o \in Objects : life[o] # "absent"}
  BY <1>1, <1>2
<1>10. Database!Place(c)
  BY <1>2, <1>3 DEF Database!Place, Database!Objects, Database!Children, Objects, Children
<1> QED
  BY <1>2, <1>4, <1>5, <1>6, <1>7, <1>8, <1>9, <1>10
     DEF Database!Add, Database!Siblings, Database!Children, Children

(* A device that is registered was not served before.                      *)
LEMMA ServeRefines ==
  ASSUME TreeInv, NEW d \in Devices, RegisterDevice(d)
  PROVE  Database!Serve(d)
<1>1. d \in Objects /\ life[d] = "held"
  BY DEF RegisterDevice, Objects
<1>2. d \notin {r[2] : r \in registered}
  <2>1. \A r \in registered : r[1] # object_path[d]
    BY DEF RegisterDevice, InUse
  <2> QED
    BY <2>1 DEF TreeInv, RegistryFollowsPaths
<1>3. {r[2] : r \in registered}' = {r[2] : r \in registered} \cup {d}
  <2>1. \A x : x \in {r[2] : r \in registered}' <=> x \in {r[2] : r \in registered} \/ x = d
    <3>1. <<object_path[d], d>>[2] = d
      OBVIOUS
    <3> QED
      BY <3>1 DEF RegisterDevice
  <2> QED
    BY <2>1
<1>4. [c \in Children |-> ParentOf(c)]' = [c \in Children |-> ParentOf(c)]
  BY ParentsStay DEF RegisterDevice, objects
<1>5. UNCHANGED <<life, uuid, object_path, announced>>
  BY DEF RegisterDevice, objects
<1> QED
  BY <1>1, <1>2, <1>3, <1>4, <1>5 DEF Database!Serve

(* A report names what is below the device, or the step has no meaning.    *)
LEMMA ReportRefines ==
  ASSUME TreeInv, NEW d \in Devices, GetManagedObjects(d)
  PROVE  Database!Report(d) \/ UNCHANGED Database!vars
<1>1. CASE Undefined("use_after_free")
  BY <1>1, InvisibleSteps DEF Undefined, objects, bus
<1>2. CASE /\ announced' = announced \cup {<<object_path[o], o>> : o \in ManagedObjects(d)}
           /\ UNCHANGED <<life, objects, lists, registered, heap>>
  <2>1. d \in {r[2] : r \in registered}
    <3>1. <<object_path[d], d>> \in registered /\ <<object_path[d], d>>[2] = d
      BY DEF GetManagedObjects
    <3> QED
      BY <3>1
  <2>2. announced' = announced \cup {<<object_path[o], o>> : o \in Database!Below(d)}
    BY <1>2, ManagedAreBelow
  <2>3. [c \in Children |-> ParentOf(c)]' = [c \in Children |-> ParentOf(c)]
    BY <1>2, ParentsStay DEF objects
  <2>4. UNCHANGED <<life, uuid, object_path, registered>>
    BY <1>2 DEF objects
  <2> QED
    BY <2>1, <2>2, <2>3, <2>4 DEF Database!Report
<1> QED
  BY <1>1, <1>2 DEF GetManagedObjects

(* Every step is one of the database or is not seen there.                 *)
LEMMA StepRefines ==
  ASSUME RegisterMayFail = FALSE
  PROVE  TreeInv /\ TreeInv' /\ [Next]_vars => [Database!Next]_(Database!vars)
<1> SUFFICES ASSUME TreeInv, TreeInv', [Next]_vars
             PROVE  Database!Next \/ UNCHANGED Database!vars
  OBVIOUS
<1> USE DEF objects, bus
<1>1. ASSUME NEW d \in Devices, CreateDevice(d) PROVE Database!Next
  BY <1>1, CreateDeviceRefines DEF Database!Next
<1>2. ASSUME NEW c \in Children, NEW u \in Uuids, CreateChild(c, u) PROVE Database!Next
  BY <1>2, CreateChildRefines DEF Database!Next, Database!Children, Children
<1>3. ASSUME NEW p \in Parents, NEW c \in ChildrenOf(p), AddChild(p, c)
      PROVE  Database!Next \/ UNCHANGED Database!vars
  <2>1. CASE Undefined("use_after_free")
    BY <2>1, InvisibleSteps DEF Undefined
  <2>2. CASE ~HasUuid(p, uuid[c]) /\ Attach(p, c)
    <3>1. Database!Add(p, c)
      BY <1>3, <2>2, AttachRefines DEF AddChild
    <3>2. <<p, c>> \in Database!MayHold
      BY ChildKinds DEF Database!MayHold
    <3> QED
      BY <3>1, <3>2 DEF Database!Next
  <2>3. ~FailToAttach(p, c)
    BY <1>3, NextPathIsNotInUse DEF AddChild, MayAdd, FailToAttach
  <2> QED
    BY <1>3, <2>1, <2>2, <2>3 DEF AddChild
<1>4. ASSUME NEW d \in Devices, RegisterDevice(d) PROVE Database!Next
  BY <1>4, ServeRefines DEF Database!Next
<1>5. ASSUME NEW d \in Devices, GetManagedObjects(d) PROVE Database!Next \/ UNCHANGED Database!vars
  BY <1>5, ReportRefines DEF Database!Next
<1>6. ASSUME NEW o \in Objects, HandleMessage(o) PROVE UNCHANGED Database!vars
  BY <1>6, InvisibleSteps DEF HandleMessage, Undefined
<1>7. ASSUME NEW o \in Objects, Drop(o) PROVE UNCHANGED Database!vars
  BY <1>7, InvisibleSteps DEF Drop, TreeInv, TypeOK
<1>8. ASSUME NEW o \in Objects, Collect(o) PROVE UNCHANGED Database!vars
  BY <1>8, InvisibleSteps DEF Collect, Undefined, TreeInv, TypeOK
<1>9. CASE Close
  BY <1>9, InvisibleSteps DEF Close, Undefined, Alive
<1>10. CASE UNCHANGED vars
  BY <1>10, InvisibleSteps DEF vars
<1> QED
  BY StepCases, <1>1, <1>2, <1>3, <1>4, <1>5, <1>6, <1>7, <1>8, <1>9, <1>10

(* However many objects there are, whatever the script lets go of and      *)
(* whoever asks in between: the lists, counters, path strings and the      *)
(* bus together are a database that only grows, unless a registration      *)
(* fails.                                                                  *)
THEOREM TreeIsDatabase ==
  ASSUME RegisterMayFail = FALSE
  PROVE  Spec => IsDatabase
<1>1. Init => Database!Init
  BY InitDatabase
<1>2. TreeInv /\ TreeInv' /\ [Next]_vars => [Database!Next]_(Database!vars)
  BY StepRefines
<1> QED
  BY <1>1, <1>2, TreeHolds, PTL DEF Spec, IsDatabase, Database!Spec
=============================================================================
