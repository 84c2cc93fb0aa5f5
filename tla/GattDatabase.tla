---------------------------- MODULE GattDatabase ----------------------------
(***************************************************************************)
(* What the simulator promises BlueZ about its GATT objects: a database of *)
(* trees that only grow.  An object belongs below one parent, for good,    *)
(* and no two below a parent have one uuid; every object has a path of its *)
(* own that never changes; and a report of a device names all the objects  *)
(* below it, each of them served, and nothing else.                        *)
(*                                                                         *)
(* There are no lists, counters, searches or memory here.                  *)
(***************************************************************************)
CONSTANTS Devices, Services, Characteristics, Descriptors, Uuids, NULL

Children == Services \cup Characteristics \cup Descriptors
Objects == Devices \cup Children

MayHold ==
  (Devices \X Services) \cup (Services \X Characteristics) \cup (Characteristics \X Descriptors)

VARIABLES
  created,   \* the objects there are
  uuid,      \* child -> its uuid, NULL before it is created
  parent,    \* child -> what it was added to, or NULL
  path,      \* object -> its path, or NULL
  served,    \* the objects that answer at their path
  reported   \* the <<path, object>> pairs BlueZ was told of

vars == <<created, uuid, parent, path, served, reported>>

Init ==
  /\ created = {}
  /\ uuid = [c \in Children |-> NULL]
  /\ parent = [c \in Children |-> NULL]
  /\ path = [o \in Objects |-> NULL]
  /\ served = {}
  /\ reported = {}

(* The object gets some path that is nobody's.                             *)
Place(o) ==
  /\ path'[o] # NULL
  /\ \A x \in Objects : path[x] # path'[o]
  /\ path' = [path EXCEPT ![o] = path'[o]]

CreateDevice(d) ==
  /\ d \notin created
  /\ created' = created \cup {d}
  /\ Place(d)
  /\ UNCHANGED <<uuid, parent, served, reported>>

CreateChild(c, u) ==
  /\ c \notin created
  /\ created' = created \cup {c}
  /\ uuid' = [uuid EXCEPT ![c] = u]
  /\ UNCHANGED <<parent, path, served, reported>>

Siblings(p) == {c \in Children : parent[c] = p}

Add(p, c) ==
  /\ p \in created /\ c \in created
  /\ p \in Devices \/ parent[p] # NULL
  /\ parent[c] = NULL
  /\ \A s \in Siblings(p) : uuid[s] # uuid[c]
  /\ parent' = [parent EXCEPT ![c] = p]
  /\ Place(c)
  /\ served' = served \cup {c}
  /\ UNCHANGED <<created, uuid, reported>>

Serve(d) ==
  /\ d \in created \ served
  /\ served' = served \cup {d}
  /\ UNCHANGED <<created, uuid, parent, path, reported>>

Below(d) ==
  LET BelowAny(S) == {c \in Children : parent[c] \in S}
      chars == BelowAny(Siblings(d))
  IN  Siblings(d) \cup chars \cup BelowAny(chars)

Report(d) ==
  /\ d \in served
  /\ reported' = reported \cup {<<path[o], o>> : o \in Below(d)}
  /\ UNCHANGED <<created, uuid, parent, path, served>>

Next ==
  \/ \E d \in Devices : CreateDevice(d) \/ Serve(d) \/ Report(d)
  \/ \E c \in Children, u \in Uuids : CreateChild(c, u)
  \/ \E e \in MayHold : Add(e[1], e[2])

Spec == Init /\ [][Next]_vars
=============================================================================
