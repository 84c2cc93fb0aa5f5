---------------------- MODULE DeviceRegistrationProofs ----------------------
(***************************************************************************)
(* Theorems about DeviceRegistration: what holds of every script, host and *)
(* failure (RegistrationInv), and what holds where the simulator's are the *)
(* only controllers (OwnInv).                                              *)
(***************************************************************************)
EXTENDS DeviceRegistration, FiniteSetTheorems, SequenceTheorems,
        WellFoundedInduction, TLAPS

-----------------------------------------------------------------------------
(* The kernel's choice of an index.                                        *)

LEMMA MinimumIsLeast ==
  ASSUME NEW S \in SUBSET Nat, S # {}
  PROVE  Minimum(S) \in S /\ \A j \in S : Minimum(S) <= j
<1> DEFINE R == OpToRel(<, Nat)
<1>1. PICK x \in S : \A y \in S : ~ (<<y, x>> \in R)
  <2>1. IsWellFoundedOn(R, Nat)
    BY NatLessThanWellFounded
  <2> QED  BY <2>1, WFMin
<1>2. \A y \in S : x <= y
  <2> SUFFICES ASSUME NEW y \in S, y < x  PROVE FALSE
    OBVIOUS
  <2>1. <<y, x>> \in R
    BY DEF OpToRel
  <2> QED  BY <1>1, <2>1
<1> QED  BY <1>2 DEF Minimum

(* There is a free index, and the kernel takes one that is free.           *)
LEMMA LowestFreeIsFree ==
  ASSUME NEW taken \in SUBSET Nat, IsFiniteSet(taken)
  PROVE  LowestFree(taken) \in Nat \ taken
<1> DEFINE n == Cardinality(taken)
           S == {i \in 0..n : i \notin taken}
<1>1. n \in Nat
  BY FS_CardinalityType
<1>2. S # {}
  <2> SUFFICES ASSUME S = {}  PROVE FALSE
    OBVIOUS
  <2>1. 0..n \in SUBSET taken
    OBVIOUS
  <2>2. Cardinality(0..n) <= n
    BY <2>1, FS_Subset
  <2>3. Cardinality(0..n) = n + 1
    BY <1>1, FS_Interval
  <2> QED  BY <1>1, <2>2, <2>3
<1>3. S \in SUBSET Nat
  BY <1>1
<1>4. Minimum(S) \in S
  BY <1>2, <1>3, MinimumIsLeast
<1> QED  BY <1>3, <1>4 DEF LowestFree

(* If the indices in use are the first ones, the next one is chosen.       *)
LEMMA LowestFreeIsNext ==
  ASSUME NEW n \in Nat
  PROVE  LowestFree(0..(n - 1)) = n
<1>1. Cardinality(0..(n - 1)) = n
  BY FS_Interval
<1>2. {i \in 0..n : i \notin 0..(n - 1)} = {n}
  OBVIOUS
<1>3. Minimum({n}) = n
  BY DEF Minimum
<1> QED  BY <1>1, <1>2, <1>3 DEF LowestFree

(* Each device has at most one virtual controller, so there are finitely   *)
(* many controllers.                                                       *)
LEMMA PresentIsFinite ==
  ASSUME TypeOK, IsFiniteSet(leaked)
  PROVE  Present \in SUBSET Nat /\ IsFiniteSet(Present)
<1> DEFINE v == virtual_controller
           Open == {d \in Devices : v[d] # NULL}
           taken == IndicesOf(v)
<1>1. IsFiniteSet(Open)
  BY DevicesAreFinite, FS_Subset
<1>2. [d \in Open |-> v[d]] \in Surjection(Open, taken)
  BY DEF Surjection, IndicesOf
<1>3. IsFiniteSet(taken)
  BY <1>1, <1>2, FS_Surjection
<1>4. IsFiniteSet({default_controller})
  BY FS_Singleton
<1>5. IsFiniteSet(HostControllers \cup {default_controller} \cup taken \cup leaked)
  BY <1>3, <1>4, HostControllersAreIndices, FS_Union
<1>6. taken \in SUBSET Nat
  BY DEF TypeOK, IndicesOf
<1> QED  BY <1>5, <1>6, HostControllersAreIndices DEF Present, TypeOK

-----------------------------------------------------------------------------
(* The device list.                                                        *)

LEMMA ListGrows ==
  ASSUME TypeOK, NEW d \in Devices, AddDeviceToDeviceList(d)
  PROVE  /\ device_list' \in Seq(Devices)
         /\ DOMAIN device_list = 1..Len(device_list)
         /\ DOMAIN device_list' = 1..(Len(device_list) + 1)
         /\ \A i \in DOMAIN device_list' :
              device_list'[i] = IF i = 1 THEN d ELSE device_list[i - 1]
         /\ Listed' = Listed \cup {d}
<1>1. device_list \in Seq(Devices) /\ <<d>> \in Seq(Devices) /\ Len(<<d>>) = 1 /\ <<d>>[1] = d
  BY DEF TypeOK
<1>2. /\ device_list' \in Seq(Devices)
      /\ Len(device_list') = 1 + Len(device_list)
      /\ \A i \in 1..(1 + Len(device_list)) :
           device_list'[i] = IF i <= 1 THEN <<d>>[i] ELSE device_list[i - 1]
  BY <1>1, ConcatProperties DEF AddDeviceToDeviceList
<1>3. /\ DOMAIN device_list = 1..Len(device_list)
      /\ DOMAIN device_list' = 1..Len(device_list')
      /\ Len(device_list) \in Nat
  BY <1>1, <1>2, LenProperties
<1>4. \A i \in DOMAIN device_list' :
        device_list'[i] = IF i = 1 THEN d ELSE device_list[i - 1]
  BY <1>1, <1>2, <1>3
<1>5. \A i \in DOMAIN device_list :
        i + 1 \in DOMAIN device_list' /\ device_list'[i + 1] = device_list[i]
  BY <1>2, <1>3, <1>4
<1>6. 1 \in DOMAIN device_list' /\ device_list'[1] = d
  BY <1>2, <1>3, <1>4
<1>7. \A i \in DOMAIN device_list' : i # 1 => i - 1 \in DOMAIN device_list
  BY <1>2, <1>3
<1>8. Listed' = Listed \cup {d}
  <2>1. Listed' \subseteq Listed \cup {d}
    BY <1>4, <1>7 DEF Listed
  <2>2. Listed \cup {d} \subseteq Listed'
    BY <1>5, <1>6 DEF Listed
  <2> QED  BY <2>1, <2>2
<1> QED  BY <1>2, <1>3, <1>4, <1>8

LEMMA ListedAreDevices ==
  ASSUME TypeOK
  PROVE  Listed \subseteq Devices
<1> device_list \in Seq(Devices)
  BY DEF TypeOK
<1> QED  BY ElementOfSeq, LenProperties DEF Listed

(* The name check reads the list only up to the first match, but with no   *)
(* name twice on the list, that is as good as reading all of it.           *)
LEMMA EnterIsNew ==
  ASSUME TypeOK, ListedNamesUnique, NEW d \in Devices, Enter(d)
  PROVE  /\ \A x \in Listed : device_name[x] # device_name[d]
         /\ d \notin Listed
<1>1. ASSUME NEW i \in DOMAIN device_list, device_name[device_list[i]] = device_name[d]
      PROVE  FALSE
  <2>0. DOMAIN device_list = 1..Len(device_list) /\ Len(device_list) \in Nat
    BY LenProperties DEF TypeOK
  <2>1. \A j \in 1..(i - 1) : device_name[device_list[j]] # device_name[d]
    BY <1>1, <2>0 DEF ListedNamesUnique
  <2>2. device_list[i] \in ReadByLookup(device_name[d])
    BY <2>1 DEF ReadByLookup
  <2> QED  BY <1>1, <2>2 DEF Enter, NameTaken
<1> QED  BY <1>1 DEF Listed

-----------------------------------------------------------------------------
(* What the six ways through device_register have in common.               *)

Attempt(d) ==
  /\ Enter(d)
  /\ UNCHANGED <<script, default_controller, application_registered, advert_registered,
                 process, bluez>>
  /\ controller' = [controller EXCEPT ![d] = controller_count]
  /\ controller_count' \in {controller_count, controller_count + 1}
  /\ Forget(d)
  /\ virtual_controller' \in {[virtual_controller EXCEPT ![d] = NULL],
                              [virtual_controller EXCEPT ![d] = LowestFree(Present)]}
  /\ objects \subseteq objects' /\ objects' \subseteq objects \cup {d}
  /\ calls' \subseteq calls \cup {Call("application", d), Call("advert", d)}
  /\ calls' = calls \/ d \in objects'
  /\ adverts' \subseteq adverts \cup {d}
  /\ advert_initialised' \in {advert_initialised, [advert_initialised EXCEPT ![d] = TRUE]}
  /\ initialised' \in {initialised, [initialised EXCEPT ![d] = TRUE]}
  /\ \/ device_list' = device_list
     \/ /\ AddDeviceToDeviceList(d)
        /\ d \in objects' \ objects
        /\ controller_count' = controller_count + 1

LEMMA EveryCallIsAnAttempt ==
  ASSUME NEW d \in Devices, RegistrationStep(d)
  PROVE  StaleLookup(d) \/ Attempt(d)
<1> USE DEF Attempt, InitController, AddObject, InitAdvert, flags, served
<1>1. CASE NoController(d)
  BY <1>1 DEF NoController
<1>2. CASE ObjectFails(d)
  BY <1>2 DEF ObjectFails
<1>3. CASE ApplicationFails(d)
  BY <1>3 DEF ApplicationFails
<1>4. CASE AdvertObjectFails(d)
  BY <1>4 DEF AdvertObjectFails
<1>5. CASE AdvertFails(d)
  BY <1>5 DEF AdvertFails
<1>6. CASE RegisterDevice(d)
  BY <1>6 DEF RegisterDevice
<1> QED
  BY <1>1, <1>2, <1>3, <1>4, <1>5, <1>6 DEF RegistrationStep

(* Everything else leaves what device_register builds alone.               *)
Aside ==
  /\ UNCHANGED <<numbers, device_list, default_controller, leaked, initialised,
                 advert_initialised, objects, adverts>>

LEMMA StepCases ==
  ASSUME [Next]_vars
  PROVE  \/ \E d \in Devices : RegistrationStep(d) /\ Attempt(d)
         \/ Aside /\ \/ \E d \in Devices, n \in Names : CreateDevice(d, n)
                     \/ \E d \in Devices : StaleLookup(d) \/ LuaStep(d)
                     \/ BluezStep
                     \/ Dispatch
                     \/ UNCHANGED vars
<1> USE DEF Aside, script, kernel, numbers, flags, served, bluez
<1>1. ASSUME NEW d \in Devices, NEW n \in Names, CreateDevice(d, n)  PROVE Aside
  BY <1>1 DEF CreateDevice
<1>2. ASSUME NEW d \in Devices, StaleLookup(d) \/ LuaStep(d)  PROVE Aside
  BY <1>2 DEF StaleLookup, LuaStep, Drop, FreeGarbage, Collect, Undefined
<1>3. CASE BluezStep
  BY <1>3 DEF BluezStep, AdapterAppears, AdapterDisappears, BluezAnswers, BluezAccepts,
              BluezRefuses
<1>4. CASE Dispatch
  BY <1>4 DEF Dispatch, HandleReply, HandleStaleReply, Undefined
<1>5. CASE UNCHANGED vars
  BY <1>5 DEF vars
<1> QED
  BY <1>1, <1>2, <1>3, <1>4, <1>5, EveryCallIsAnAttempt DEF Next

-----------------------------------------------------------------------------
(* Type correctness.                                                       *)

LEMMA InitTypes ==
  ASSUME Init
  PROVE  TypeOK /\ IsFiniteSet(leaked)
<1>1. default_controller \in Nat
  BY LowestFreeIsFree, HostControllersAreIndices DEF Init
<1>2. <<>> \in Seq(Devices) /\ IsFiniteSet({})
  BY FS_EmptySet
<1> QED  BY <1>1, <1>2, HostControllersAreIndices DEF Init, TypeOK

LEMMA AttemptTypes ==
  ASSUME TypeOK, IsFiniteSet(leaked), NEW d \in Devices, Attempt(d)
  PROVE  TypeOK' /\ IsFiniteSet(leaked')
<1> USE DEF Attempt
<1>1. LowestFree(Present) \in Nat
  BY PresentIsFinite, LowestFreeIsFree
<1>2. device_list' \in Seq(Devices)
  BY ListGrows DEF TypeOK
<1>3. calls' \subseteq CallSet
  BY DEF TypeOK, CallSet, Call
<1>4. leaked' \subseteq Nat
  <2>1. virtual_controller[d] \in Nat \cup {NULL} /\ leaked \subseteq Nat
    BY DEF TypeOK
  <2> HIDE DEF Attempt
  <2>2. leaked' = leaked \cup ({virtual_controller[d]} \ {NULL})
    BY DEF Attempt, Forget
  <2> QED  BY <2>1, <2>2
<1>5. IsFiniteSet(leaked')
  <2>1. IsFiniteSet({virtual_controller[d]} \ {NULL})
    BY FS_Singleton, FS_Difference
  <2> QED  BY <2>1, FS_Union DEF Forget
<1>6. virtual_controller' \in [Devices -> Nat \cup {NULL}]
  BY <1>1 DEF TypeOK
<1>7. controller' \in [Devices -> Nat \cup {NULL}] /\ controller_count' \in Nat
  BY DEF TypeOK
<1>8. /\ initialised' \in [Devices -> BOOLEAN]
      /\ advert_initialised' \in [Devices -> BOOLEAN]
  BY DEF TypeOK
<1>9. objects' \subseteq Devices /\ adverts' \subseteq Devices
  BY DEF TypeOK
<1> QED
  BY <1>2, <1>3, <1>4, <1>5, <1>6, <1>7, <1>8, <1>9 DEF TypeOK, script, bluez

LEMMA AnswerTypes ==
  ASSUME TypeOK, NEW c \in calls, NEW s \in {"accepted", "refused"}, Answer(c, s)
  PROVE  calls' \subseteq CallSet
BY DEF TypeOK, CallSet, Answer

LEMMA NextTypes ==
  ASSUME TypeOK, IsFiniteSet(leaked), [Next]_vars
  PROVE  TypeOK' /\ IsFiniteSet(leaked')
<1> USE DEF Aside, numbers
<1>1. ASSUME NEW d \in Devices, Attempt(d)
      PROVE  TypeOK' /\ IsFiniteSet(leaked')
  BY <1>1, AttemptTypes
<1>2. ASSUME Aside  PROVE IsFiniteSet(leaked')
  BY <1>2
<1>3. ASSUME Aside, NEW d \in Devices, NEW n \in Names, CreateDevice(d, n)
      PROVE  TypeOK'
  BY <1>3 DEF CreateDevice, TypeOK, kernel, flags, served, bluez
<1>4. ASSUME Aside, NEW d \in Devices, StaleLookup(d) \/ LuaStep(d)
      PROVE  TypeOK'
  BY <1>4 DEF StaleLookup, LuaStep, Drop, FreeGarbage, Collect, Undefined, TypeOK,
              script, kernel, flags, served, bluez
<1>5. ASSUME Aside, BluezStep
      PROVE  TypeOK'
  <2>1. ASSUME NEW i \in Present, AdapterAppears(i)  PROVE TypeOK'
    <3>1. i \in Nat
      BY <2>1, PresentIsFinite
    <3> QED  BY <3>1, <2>1 DEF AdapterAppears, TypeOK, script, kernel, flags, served
  <2>2. ASSUME NEW i \in adapters, AdapterDisappears(i)  PROVE TypeOK'
    BY <2>2 DEF AdapterDisappears, TypeOK, script, kernel, flags, served
  <2>3. ASSUME NEW c \in calls, BluezAccepts(c)  PROVE TypeOK'
    <3>1. calls' \subseteq CallSet
      BY <2>3, AnswerTypes DEF BluezAccepts
    <3>2. c.adapter \in Nat /\ c.device \in Devices
      BY DEF TypeOK, CallSet
    <3>3. bluez_applications' \subseteq Nat \X Devices
      BY <2>3, <3>2 DEF BluezAccepts, TypeOK
    <3> QED  BY <2>3, <3>1, <3>3 DEF BluezAccepts, TypeOK, script, kernel, flags, served
  <2>4. ASSUME NEW c \in calls, BluezRefuses(c)  PROVE TypeOK'
    <3>1. calls' \subseteq CallSet
      BY <2>4, AnswerTypes DEF BluezRefuses
    <3> QED  BY <2>4, <3>1 DEF BluezRefuses, TypeOK, script, kernel, flags, served, bluez
  <2> QED  BY <1>5, <2>1, <2>2, <2>3, <2>4 DEF BluezStep, BluezAnswers
<1>6. ASSUME Aside, Dispatch
      PROVE  TypeOK'
  <2>1. ASSUME NEW c \in calls, HandleReply(c)  PROVE TypeOK'
    BY <2>1 DEF HandleReply, TypeOK, script, kernel, served, bluez
  <2>2. ASSUME NEW c \in calls, HandleStaleReply(c)  PROVE TypeOK'
    BY <2>2 DEF HandleStaleReply, Undefined, TypeOK, script, kernel, flags, served, bluez
  <2> QED  BY <1>6, <2>1, <2>2 DEF Dispatch
<1>7. ASSUME UNCHANGED vars  PROVE TypeOK'
  BY <1>7 DEF vars, TypeOK, script, kernel, flags, served, bluez
<1> QED
  BY <1>1, <1>2, <1>3, <1>4, <1>5, <1>6, <1>7, StepCases

-----------------------------------------------------------------------------
(* Any script, any host, any failure.                                      *)

LEMMA InitRegistration ==
  ASSUME Init
  PROVE  RegistrationInv
<1>1. Listed = {} /\ DOMAIN device_list = {}
  BY DEF Init, Listed
<1> QED
  BY <1>1, InitTypes DEF Init, RegistrationInv, ListedAreServed, CallersAreServed,
     ListedNamesUnique, OneDevicePerController, StaleUsesAreServed

(* A device that is tried is new to the list, so that no number on the     *)
(* list changes; if it gets on the list, it does so with a new name and    *)
(* the number that was next.                                               *)
LEMMA AttemptRegistration ==
  ASSUME RegistrationInv, NEW d \in Devices, Attempt(d)
  PROVE  RegistrationInv'
<1> DEFINE n == Len(device_list)
<1>1. TypeOK' /\ IsFiniteSet(leaked')
  BY AttemptTypes DEF RegistrationInv
<1>2. (\A x \in Listed : device_name[x] # device_name[d]) /\ d \notin Listed
  BY EnterIsNew DEF RegistrationInv, Attempt
<1>3. /\ life' = life /\ device_name' = device_name /\ process' = process
      /\ objects \subseteq objects'
      /\ \A x \in Devices \ {d} : controller'[x] = controller[x]
      /\ controller'[d] = controller_count
      /\ controller_count \in Nat
      /\ controller_count' \in {controller_count, controller_count + 1}
  BY DEF RegistrationInv, TypeOK, Attempt, script
<1>4. life[d] = "held"
  BY DEF Attempt, Enter
<1>5. Listed \subseteq Devices /\ \A i \in DOMAIN device_list : device_list[i] \in Listed
  BY ListedAreDevices DEF RegistrationInv, Listed
<1>6. \A x \in Listed : controller'[x] = controller[x]
                       /\ controller[x] \in 0..(controller_count - 1)
  BY <1>2, <1>3, <1>5 DEF RegistrationInv, ListedAreServed
<1>7. CallersAreServed'
  BY DEF RegistrationInv, CallersAreServed, Attempt, Call
<1>8. StaleUsesAreServed'
  BY <1>3 DEF RegistrationInv, StaleUsesAreServed
<1>9. CASE device_list' = device_list
  <2>1. Listed' = Listed
    BY <1>9 DEF Listed
  <2>2. ListedAreServed'
    BY <1>3, <1>6, <2>1 DEF RegistrationInv, ListedAreServed
  <2>3. ListedNamesUnique'
    BY <1>3, <1>9 DEF RegistrationInv, ListedNamesUnique
  <2>4. OneDevicePerController'
    BY <1>5, <1>6, <1>9 DEF RegistrationInv, OneDevicePerController
  <2> QED  BY <1>1, <1>7, <1>8, <2>2, <2>3, <2>4 DEF RegistrationInv
<1>10. CASE /\ AddDeviceToDeviceList(d)
            /\ d \in objects' \ objects
            /\ controller_count' = controller_count + 1
  <2>1. /\ DOMAIN device_list = 1..n
        /\ DOMAIN device_list' = 1..(n + 1)
        /\ n \in Nat
        /\ \A i \in DOMAIN device_list' :
             device_list'[i] = IF i = 1 THEN d ELSE device_list[i - 1]
        /\ Listed' = Listed \cup {d}
    BY <1>10, ListGrows, LenProperties DEF RegistrationInv, TypeOK
  <2>2. ListedAreServed'
    BY <1>3, <1>4, <1>6, <1>10, <2>1 DEF RegistrationInv, ListedAreServed
  <2>3. \A i \in DOMAIN device_list' :
          i # 1 => /\ i - 1 \in DOMAIN device_list
                   /\ device_list'[i] = device_list[i - 1]
                   /\ device_list[i - 1] \in Listed
    BY <1>5, <2>1
  <2>4. device_list'[1] = d
    BY <2>1
  <2>5. ListedNamesUnique'
    <3> SUFFICES ASSUME NEW i \in DOMAIN device_list', NEW j \in DOMAIN device_list',
                        device_name[device_list'[i]] = device_name[device_list'[j]]
                 PROVE  i = j
      BY <1>3 DEF ListedNamesUnique
    <3>1. CASE i # 1 /\ j # 1
      <4>1. i - 1 = j - 1
        BY <2>3, <3>1 DEF RegistrationInv, ListedNamesUnique
      <4> QED  BY <2>1, <4>1
    <3> QED  BY <1>2, <2>3, <2>4, <3>1
  <2>6. OneDevicePerController'
    <3> SUFFICES ASSUME NEW i \in DOMAIN device_list', NEW j \in DOMAIN device_list',
                        controller'[device_list'[i]] = controller'[device_list'[j]]
                 PROVE  i = j
      BY DEF OneDevicePerController
    <3>1. CASE i # 1 /\ j # 1
      <4>1. i - 1 = j - 1
        BY <1>6, <2>3, <3>1 DEF RegistrationInv, OneDevicePerController
      <4> QED  BY <2>1, <4>1
    <3> QED  BY <1>3, <1>6, <2>3, <2>4, <3>1
  <2> QED  BY <1>1, <1>7, <1>8, <2>2, <2>5, <2>6 DEF RegistrationInv
<1> QED  BY <1>9, <1>10 DEF Attempt

(* The other steps change neither the list nor a number; a device that     *)
(* exists keeps its name and never becomes absent again; and who reads     *)
(* freed memory does so through the list or through a call, and both lead  *)
(* to a device that is served.                                             *)
LEMMA AsideRegistration ==
  ASSUME RegistrationInv, Aside,
         TypeOK', IsFiniteSet(leaked'),
         \A x \in Devices : /\ life'[x] = "absent" => life[x] = "absent"
                            /\ life[x] = "collected" => life'[x] = "collected"
                            /\ life[x] # "absent" => device_name'[x] = device_name[x],
         \A c \in calls' : \E b \in calls : c.device = b.device,
         (process' # process /\ process' = "use_after_free") =>
           \E x \in objects : life[x] = "collected"
  PROVE  RegistrationInv'
<1> USE DEF Aside, numbers
<1>1. Listed' = Listed /\ Listed \subseteq Devices
  BY ListedAreDevices DEF Listed, RegistrationInv
<1>2. \A i \in DOMAIN device_list : device_list[i] \in Listed
  BY DEF Listed
<1>3. ListedAreServed'
  BY <1>1 DEF RegistrationInv, ListedAreServed
<1>4. CallersAreServed'
  BY DEF RegistrationInv, CallersAreServed
<1>5. ListedNamesUnique'
  <2>1. \A i \in DOMAIN device_list : device_name'[device_list[i]] = device_name[device_list[i]]
    BY <1>1, <1>2 DEF RegistrationInv, ListedAreServed
  <2> QED  BY <2>1 DEF RegistrationInv, ListedNamesUnique
<1>6. OneDevicePerController'
  BY DEF RegistrationInv, OneDevicePerController
<1>7. StaleUsesAreServed'
  <2>1. objects \subseteq Devices
    BY DEF RegistrationInv, TypeOK
  <2> QED  BY <2>1 DEF RegistrationInv, StaleUsesAreServed
<1> QED  BY <1>3, <1>4, <1>5, <1>6, <1>7 DEF RegistrationInv

LEMMA NextRegistration ==
  ASSUME RegistrationInv, [Next]_vars
  PROVE  RegistrationInv'
<1> USE DEF script
<1>1. TypeOK /\ IsFiniteSet(leaked) /\ Listed \subseteq Devices /\ Listed \subseteq objects
  BY ListedAreDevices DEF RegistrationInv, ListedAreServed
<1>2. TypeOK' /\ IsFiniteSet(leaked')
  BY <1>1, NextTypes
<1>3. ASSUME NEW d \in Devices, Attempt(d)  PROVE RegistrationInv'
  BY <1>3, AttemptRegistration
<1>4. ASSUME Aside, NEW d \in Devices, NEW n \in Names, CreateDevice(d, n)
      PROVE  RegistrationInv'
  BY <1>1, <1>2, <1>4, AsideRegistration DEF CreateDevice, TypeOK
<1>5. ASSUME Aside, NEW d \in Devices, StaleLookup(d)
      PROVE  RegistrationInv'
  <2>1. PICK x \in ReadByLookup(device_name[d]) : life[x] = "collected"
    BY <1>5 DEF StaleLookup
  <2>2. x \in objects
    BY <1>1 DEF ReadByLookup, Listed
  <2> QED
    BY <1>2, <1>5, <2>1, <2>2, AsideRegistration DEF StaleLookup, Undefined
<1>6. ASSUME Aside, NEW d \in Devices, LuaStep(d)
      PROVE  RegistrationInv'
  <2>1. CASE Drop(d) \/ Collect(d)
    BY <1>1, <1>2, <1>6, <2>1, AsideRegistration DEF Drop, Collect, TypeOK
  <2>2. CASE FreeGarbage(d)
    BY <1>2, <1>6, <2>2, AsideRegistration DEF FreeGarbage, Undefined
  <2> QED  BY <1>6, <2>1, <2>2 DEF LuaStep
<1>7. ASSUME Aside, BluezStep
      PROVE  RegistrationInv'
  <2>1. life' = life /\ device_name' = device_name /\ process' = process
    BY <1>7 DEF BluezStep, AdapterAppears, AdapterDisappears, BluezAnswers, BluezAccepts,
                BluezRefuses
  <2>2. \A c \in calls' : \E b \in calls : c.device = b.device
    BY <1>1, <1>7
    DEF BluezStep, AdapterAppears, AdapterDisappears, BluezAnswers, BluezAccepts,
        BluezRefuses, Answer, TypeOK, CallSet
  <2> QED  BY <1>2, <1>7, <2>1, <2>2, AsideRegistration
<1>8. ASSUME Aside, Dispatch
      PROVE  RegistrationInv'
  <2>1. ASSUME NEW c \in calls, HandleReply(c)  PROVE RegistrationInv'
    BY <1>2, <1>8, <2>1, AsideRegistration DEF HandleReply
  <2>2. ASSUME NEW c \in calls, HandleStaleReply(c)  PROVE RegistrationInv'
    <3>1. c.device \in objects /\ life[c.device] = "collected"
      BY <2>2 DEF HandleStaleReply, RegistrationInv, CallersAreServed
    <3> QED
      BY <1>2, <1>8, <2>2, <3>1, AsideRegistration DEF HandleStaleReply, Undefined
  <2> QED  BY <1>8, <2>1, <2>2 DEF Dispatch
<1>9. ASSUME UNCHANGED vars  PROVE RegistrationInv'
  BY <1>9
  DEF vars, numbers, kernel, flags, served, bluez, RegistrationInv, TypeOK, ListedAreServed,
      CallersAreServed, ListedNamesUnique, OneDevicePerController, StaleUsesAreServed, Listed
<1> QED
  BY <1>3, <1>4, <1>5, <1>6, <1>7, <1>8, <1>9, StepCases

(* The list, the bus and the calls under way only hold devices that were   *)
(* served, with names and controllers of their own, whichever step of a    *)
(* registration fails and whatever the script forgets.                     *)
THEOREM RegistrationHolds == Spec => []RegistrationInv
<1>1. Init => RegistrationInv
  BY InitRegistration
<1>2. RegistrationInv /\ [Next]_vars => RegistrationInv'
  BY NextRegistration
<1> QED  BY <1>1, <1>2, PTL DEF Spec

(* Every variable of the registration keeps its type.                      *)
THEOREM RegistrationTypeCorrect == Spec => []TypeOK
BY RegistrationHolds, PTL DEF RegistrationInv

(* device_register never lists a device under a name that is already       *)
(* listed, nor one device twice, whatever the script, the bus, BlueZ and   *)
(* the collector do.                                                       *)
THEOREM NamesStayUnique == Spec => []ListedNamesUnique
BY RegistrationHolds, PTL DEF RegistrationInv

(* No two listed devices ever share a controller path, in spite of the     *)
(* failures that leave the count as it was.                                *)
THEOREM ControllersAreNotShared == Spec => []OneDevicePerController
BY RegistrationHolds, PTL DEF RegistrationInv

(* Whoever reads freed memory was led there by a bus object that outlived  *)
(* its device.                                                             *)
THEOREM StaleUsesAreExplained == Spec => []StaleUsesAreServed
BY RegistrationHolds, PTL DEF RegistrationInv

(* device_register that got as far as the bus and failed can not be        *)
(* repeated with success.                                                  *)
THEOREM FailedStaysFailed == Spec => FailureIsFinal
<1>1. RegistrationInv /\ [Next]_vars =>
        [\A d \in objects \ Listed : d \notin Listed']_vars
  <2> SUFFICES ASSUME RegistrationInv, [Next]_vars,
                      NEW d \in objects \ Listed, d \in Listed'
               PROVE  FALSE
    OBVIOUS
  <2>1. ASSUME NEW x \in Devices, Attempt(x)  PROVE FALSE
    <3>1. CASE device_list' = device_list
      BY <3>1 DEF Listed
    <3>2. CASE AddDeviceToDeviceList(x) /\ x \in objects' \ objects
      BY <3>2, ListGrows DEF RegistrationInv
    <3> QED  BY <2>1, <3>1, <3>2 DEF Attempt
  <2>2. CASE Aside
    BY <2>2 DEF Aside, Listed
  <2> QED  BY <2>1, <2>2, StepCases
<1> QED  BY <1>1, RegistrationHolds, PTL DEF Spec, FailureIsFinal

-----------------------------------------------------------------------------
(* A host whose only controllers are the simulator's.                      *)

LEMMA InitOwn ==
  ASSUME SimulatorOwnsAll, Init
  PROVE  OwnInv
<1>1. default_controller = 0
  <2>1. 0..(0 - 1) = {}
    OBVIOUS
  <2> QED  BY <2>1, LowestFreeIsNext DEF Init, SimulatorOwnsAll
<1>2. IndicesOf(virtual_controller) = {}
  BY DEF Init, IndicesOf
<1>3. Present = 0..(controller_count - 1) /\ controller_count > 0
  BY <1>1, <1>2 DEF Present, Init, SimulatorOwnsAll
<1>4. Listed = {}
  BY DEF Init, Listed
<1> QED
  BY <1>3, <1>4, InitRegistration
  DEF Init, OwnInv, NumbersAreControllers, ListedOrNothing, ControllerIsOwn, NoControllerLeaks,
      RepliesFindTheirDevice, AcceptedIsRegistered, RegisteredWhereItLives

(* With nothing half done left behind, a call of device_register either    *)
(* gets no controller and changes nothing that counts, or does it all.     *)
LEMMA OwnAttempt ==
  ASSUME SimulatorOwnsAll, OwnInv, NEW d \in Devices, RegistrationStep(d)
  PROVE  NoController(d) \/ RegisterDevice(d)
<1>1. ~ StaleLookup(d)
  <2>1. \A n : ReadByLookup(n) \subseteq Listed
    BY DEF ReadByLookup, Listed
  <2>2. Listed \subseteq Devices
    BY ListedAreDevices DEF OwnInv, RegistrationInv
  <2> QED  BY <2>1, <2>2 DEF StaleLookup, OwnInv, ListedOrNothing
<1>2. ~ ObjectFails(d)
  BY EnterIsNew
  DEF ObjectFails, OwnInv, RegistrationInv, ListedOrNothing, SimulatorOwnsAll
<1> QED
  BY <1>1, <1>2
  DEF RegistrationStep, ApplicationFails, AdvertObjectFails, AdvertFails, SimulatorOwnsAll

LEMMA NoControllerOwn ==
  ASSUME SimulatorOwnsAll, OwnInv, RegistrationInv', NEW d \in Devices, NoController(d)
  PROVE  OwnInv'
<1> USE DEF NoController, script, flags, served, bluez
<1>1. d \notin Listed /\ Listed \subseteq Devices /\ Listed' = Listed
  BY EnterIsNew, ListedAreDevices DEF OwnInv, RegistrationInv, Listed
<1>2. virtual_controller[d] = NULL
  BY <1>1 DEF OwnInv, ListedOrNothing
<1>3. virtual_controller' = virtual_controller
  BY <1>2 DEF OwnInv, RegistrationInv, TypeOK
<1>4. leaked' = leaked
  BY <1>2 DEF Forget
<1>5. Present' = Present
  BY <1>3, <1>4 DEF Present, IndicesOf
<1>6. \A x \in Listed : controller'[x] = controller[x]
  BY <1>1 DEF OwnInv, RegistrationInv, TypeOK
<1>7. \A c \in calls : c.device \in Listed
  BY DEF OwnInv, RegistrationInv, CallersAreServed, ListedOrNothing
<1>8. ListedOrNothing'
  BY <1>1, <1>3, <1>6, <1>7 DEF OwnInv, ListedOrNothing
<1>9. NumbersAreControllers' /\ ControllerIsOwn' /\ NoControllerLeaks'
  BY <1>1, <1>3, <1>4, <1>5, <1>6
  DEF OwnInv, NumbersAreControllers, ControllerIsOwn, NoControllerLeaks
<1>10. RepliesFindTheirDevice' /\ AcceptedIsRegistered' /\ RegisteredWhereItLives'
  BY <1>3
  DEF OwnInv, RepliesFindTheirDevice, AcceptedIsRegistered, RegisteredWhereItLives
<1> QED  BY <1>8, <1>9, <1>10 DEF OwnInv

LEMMA RegisterDeviceOwn ==
  ASSUME SimulatorOwnsAll, OwnInv, RegistrationInv', NEW d \in Devices, RegisterDevice(d)
  PROVE  OwnInv'
<1> USE DEF RegisterDevice, InitController, AddObject
<1> DEFINE n == controller_count
<1>1. d \notin Listed /\ Listed \subseteq Devices /\ Listed' = Listed \cup {d}
  BY EnterIsNew, ListedAreDevices, ListGrows DEF OwnInv, RegistrationInv
<1>2. n \in Nat /\ n > 0
  BY DEF OwnInv, RegistrationInv, TypeOK, NumbersAreControllers
<1>3. LowestFree(Present) = n
  BY <1>2, LowestFreeIsNext DEF OwnInv, NumbersAreControllers
<1>4. /\ virtual_controller' = [virtual_controller EXCEPT ![d] = n]
      /\ controller' = [controller EXCEPT ![d] = n]
      /\ virtual_controller[d] = NULL
      /\ virtual_controller \in [Devices -> Nat \cup {NULL}]
      /\ controller \in [Devices -> Nat \cup {NULL}]
  BY <1>1, <1>3 DEF OwnInv, ListedOrNothing, RegistrationInv, TypeOK
<1>5. leaked' = leaked /\ leaked = {}
  BY <1>4 DEF Forget, OwnInv, NoControllerLeaks
<1>6. IndicesOf(virtual_controller') = IndicesOf(virtual_controller) \cup {n}
  <2>1. n # NULL
    BY <1>2, NullIsNothing
  <2>2. \A x \in Devices : virtual_controller'[x] = IF x = d THEN n ELSE virtual_controller[x]
    BY <1>4
  <2> QED  BY <1>4, <2>1, <2>2 DEF IndicesOf
<1>7. Present' = 0..(n' - 1) /\ n' > 0
  <2>1. Present' = Present \cup {n}
    BY <1>5, <1>6 DEF Present
  <2>2. Present = 0..(n - 1) /\ n' = n + 1
    BY DEF OwnInv, NumbersAreControllers
  <2> QED  BY <1>2, <2>1, <2>2
<1>8. life' = life /\ life[d] = "held"
  BY DEF Enter, script
<1>9. objects' = Listed'
  BY <1>1 DEF OwnInv, ListedOrNothing
<1>10. \A x \in Devices :
         IF x \in Listed'
         THEN life'[x] = "held"
         ELSE virtual_controller'[x] = NULL /\ ~application_registered'[x]
  BY <1>1, <1>4, <1>8 DEF OwnInv, ListedOrNothing
<1>11. \A c \in calls : /\ c.device \in Listed
                        /\ c.adapter = controller[c.device]
                        /\ controller'[c.device] = controller[c.device]
  BY <1>1, <1>4
  DEF OwnInv, RegistrationInv, CallersAreServed, ListedOrNothing, TypeOK, CallSet
<1>12. \A c \in calls' : c.adapter = controller'[c.device]
  BY <1>11 DEF Call
<1>13. ListedOrNothing'
  BY <1>9, <1>10, <1>12 DEF ListedOrNothing
<1>14. ControllerIsOwn'
  BY <1>1, <1>4 DEF OwnInv, ControllerIsOwn
<1>15. AcceptedIsRegistered'
  BY DEF OwnInv, AcceptedIsRegistered, Call, bluez
<1>16. RegisteredWhereItLives'
  <2>1. \A x \in Devices : application_registered[x] => x # d
    BY <1>1 DEF OwnInv, ListedOrNothing
  <2> QED  BY <1>4, <2>1 DEF OwnInv, RegisteredWhereItLives, bluez
<1>17. RepliesFindTheirDevice' /\ NoControllerLeaks' /\ NumbersAreControllers'
  BY <1>5, <1>7 DEF OwnInv, RepliesFindTheirDevice, NoControllerLeaks, NumbersAreControllers
<1> QED  BY <1>13, <1>14, <1>15, <1>16, <1>17 DEF OwnInv

(* The steps that change neither the list nor a controller.                *)
LEMMA AsideOwn ==
  ASSUME OwnInv, RegistrationInv', Aside,
         virtual_controller' = virtual_controller,
         \A x \in Listed : life'[x] = life[x],
         process' # "use_after_free"
  PROVE  /\ NumbersAreControllers' /\ ControllerIsOwn'
         /\ NoControllerLeaks' /\ RepliesFindTheirDevice'
         /\ objects' = Listed' /\ Listed' = Listed
         /\ \A x \in Devices :
              IF x \in Listed THEN life'[x] = "held" ELSE virtual_controller'[x] = NULL
<1> USE DEF Aside, numbers
<1>1. Listed' = Listed /\ Present' = Present
  BY DEF Listed, Present, IndicesOf
<1> QED
  BY <1>1
  DEF OwnInv, NumbersAreControllers, ControllerIsOwn, NoControllerLeaks,
      RepliesFindTheirDevice, ListedOrNothing

LEMMA LuaOwn ==
  ASSUME SimulatorOwnsAll, OwnInv, RegistrationInv', Aside,
         \/ \E d \in Devices, n \in Names : CreateDevice(d, n)
         \/ \E d \in Devices : LuaStep(d)
         \/ UNCHANGED vars
  PROVE  OwnInv'
<1> USE DEF script, kernel, flags, served, bluez
<1>1. /\ UNCHANGED <<application_registered, calls, bluez_applications>>
      /\ process' # "use_after_free"
  BY DEF CreateDevice, LuaStep, Drop, FreeGarbage, Collect, Undefined, vars, OwnInv,
         RepliesFindTheirDevice
<1>2. virtual_controller' = virtual_controller /\ \A x \in Listed : life'[x] = life[x]
  <2>0. /\ Listed \subseteq Devices
        /\ \A x \in Listed : life[x] = "held"
        /\ \A x \in Devices \ Listed : virtual_controller[x] = NULL
        /\ life \in [Devices -> {"absent", "held", "dropped", "collected"}]
        /\ virtual_controller \in [Devices -> Nat \cup {NULL}]
    BY ListedAreDevices DEF OwnInv, RegistrationInv, ListedOrNothing, TypeOK
  <2>1. ASSUME NEW d \in Devices, NEW n \in Names, CreateDevice(d, n)
        PROVE  virtual_controller' = virtual_controller /\ \A x \in Listed : life'[x] = life[x]
    BY <2>0, <2>1 DEF CreateDevice
  <2>2. ASSUME NEW d \in Devices, Drop(d)
        PROVE  virtual_controller' = virtual_controller /\ \A x \in Listed : life'[x] = life[x]
    BY <2>0, <2>2 DEF Drop, SimulatorOwnsAll
  <2>3. ASSUME NEW d \in Devices, FreeGarbage(d)
        PROVE  virtual_controller' = virtual_controller /\ \A x \in Listed : life'[x] = life[x]
    BY <2>3 DEF FreeGarbage, Undefined
  <2>4. ASSUME NEW d \in Devices, Collect(d)
        PROVE  virtual_controller' = virtual_controller /\ \A x \in Listed : life'[x] = life[x]
    <3>1. d \notin Listed /\ virtual_controller[d] = NULL
      BY <2>0, <2>4 DEF Collect
    <3> QED  BY <2>0, <2>4, <3>1 DEF Collect
  <2>5. CASE UNCHANGED vars
    BY <2>5 DEF vars
  <2> QED  BY <2>1, <2>2, <2>3, <2>4, <2>5 DEF LuaStep
<1>3. ListedOrNothing'
  BY <1>1, <1>2, AsideOwn DEF OwnInv, ListedOrNothing, Aside, numbers
<1>4. AcceptedIsRegistered' /\ RegisteredWhereItLives'
  BY <1>1, <1>2 DEF OwnInv, AcceptedIsRegistered, RegisteredWhereItLives
<1> QED  BY <1>1, <1>2, <1>3, <1>4, AsideOwn DEF OwnInv

LEMMA BluezOwn ==
  ASSUME SimulatorOwnsAll, OwnInv, RegistrationInv', Aside, BluezStep
  PROVE  OwnInv'
<1> USE DEF script, kernel, flags, served, bluez
<1>1. UNCHANGED <<life, virtual_controller, application_registered, process>>
  BY DEF BluezStep, AdapterAppears, AdapterDisappears, BluezAnswers, BluezAccepts, BluezRefuses
<1>2. /\ NumbersAreControllers' /\ ControllerIsOwn' /\ NoControllerLeaks'
      /\ RepliesFindTheirDevice' /\ objects' = Listed' /\ Listed' = Listed
  BY <1>1, AsideOwn DEF OwnInv, RepliesFindTheirDevice
<1>3. /\ controller' = controller
      /\ \A c \in calls : c \in CallSet /\ c.device \in Listed
  BY DEF Aside, numbers, OwnInv, RegistrationInv, TypeOK, CallersAreServed, ListedOrNothing
<1>4. \A c \in calls' : \E b \in calls : c.device = b.device /\ c.adapter = b.adapter
  BY <1>3
  DEF BluezStep, AdapterAppears, AdapterDisappears, BluezAnswers, BluezAccepts, BluezRefuses,
      Answer, CallSet
<1>5. ListedOrNothing'
  BY <1>1, <1>2, <1>3, <1>4 DEF OwnInv, ListedOrNothing
<1>6. ASSUME NEW i \in Present, AdapterAppears(i)
      PROVE  AcceptedIsRegistered' /\ RegisteredWhereItLives'
  BY <1>6 DEF AdapterAppears, OwnInv, AcceptedIsRegistered, RegisteredWhereItLives
<1>7. ASSUME NEW i \in adapters, AdapterDisappears(i)
      PROVE  AcceptedIsRegistered' /\ RegisteredWhereItLives'
  <2>1. \A d \in Listed : controller[d] \in Present /\ virtual_controller[d] = controller[d]
    BY DEF OwnInv, NumbersAreControllers, RegistrationInv, ListedAreServed, ControllerIsOwn
  <2>2. i \notin Present
    BY <1>7 DEF AdapterDisappears
  <2>3. \A d \in Listed : controller[d] # i /\ virtual_controller[d] # i
    BY <2>1, <2>2
  <2>4. \A a \in bluez_applications : a[1] # i => a \in bluez_applications'
    BY <1>7 DEF AdapterDisappears
  <2>5. AcceptedIsRegistered'
    BY <1>3, <1>7, <2>3, <2>4
    DEF AdapterDisappears, OwnInv, AcceptedIsRegistered, ListedOrNothing
  <2>6. RegisteredWhereItLives'
    BY <1>1, <2>3, <2>4 DEF OwnInv, RegisteredWhereItLives, ListedOrNothing
  <2> QED  BY <2>5, <2>6
<1>8. ASSUME NEW c \in calls, BluezAccepts(c)
      PROVE  AcceptedIsRegistered' /\ RegisteredWhereItLives'
  <2>1. AcceptedIsRegistered'
    BY <1>3, <1>8 DEF BluezAccepts, Answer, CallSet, OwnInv, AcceptedIsRegistered
  <2>2. RegisteredWhereItLives'
    BY <1>8 DEF BluezAccepts, OwnInv, RegisteredWhereItLives
  <2> QED  BY <2>1, <2>2
<1>9. ASSUME NEW c \in calls, BluezRefuses(c)
      PROVE  AcceptedIsRegistered' /\ RegisteredWhereItLives'
  BY <1>3, <1>9
  DEF BluezRefuses, Answer, CallSet, OwnInv, AcceptedIsRegistered, RegisteredWhereItLives
<1> QED
  BY <1>2, <1>5, <1>6, <1>7, <1>8, <1>9 DEF BluezStep, BluezAnswers, OwnInv

LEMMA DispatchOwn ==
  ASSUME SimulatorOwnsAll, OwnInv, RegistrationInv', Aside, Dispatch
  PROVE  OwnInv'
<1> USE DEF script, kernel, served, bluez
<1>1. /\ controller' = controller
      /\ \A c \in calls : c \in CallSet /\ c.device \in Listed
      /\ Listed \subseteq Devices
      /\ \A d \in Listed : life[d] = "held" /\ virtual_controller[d] = controller[d]
  BY ListedAreDevices
  DEF Aside, numbers, OwnInv, RegistrationInv, TypeOK, CallersAreServed, ListedOrNothing,
      ControllerIsOwn
<1>2. PICK c \in calls : HandleReply(c)
  BY <1>1 DEF Dispatch, HandleStaleReply
<1>3. UNCHANGED <<life, virtual_controller, process, bluez_applications>> /\ calls' \subseteq calls
  BY <1>2 DEF HandleReply
<1>4. /\ NumbersAreControllers' /\ ControllerIsOwn' /\ NoControllerLeaks'
      /\ RepliesFindTheirDevice' /\ objects' = Listed' /\ Listed' = Listed
  BY <1>3, AsideOwn DEF OwnInv, RepliesFindTheirDevice
<1>5. AcceptedIsRegistered'
  BY <1>3 DEF OwnInv, AcceptedIsRegistered
<1>6. \A d \in Devices : application_registered'[d] =>
        \/ application_registered[d]
        \/ d = c.device /\ c.state = "accepted" /\ c.kind = "application"
  BY <1>2 DEF HandleReply, OwnInv, RegistrationInv, TypeOK
<1>7. ListedOrNothing'
  BY <1>1, <1>3, <1>4, <1>6 DEF OwnInv, ListedOrNothing
<1>8. RegisteredWhereItLives'
  <2>1. c.state = "accepted" /\ c.kind = "application" =>
          <<virtual_controller[c.device], c.device>> \in bluez_applications
    BY <1>1 DEF OwnInv, AcceptedIsRegistered, ListedOrNothing
  <2> QED  BY <1>3, <1>6, <2>1 DEF OwnInv, RegisteredWhereItLives
<1> QED  BY <1>4, <1>5, <1>7, <1>8 DEF OwnInv

LEMMA NextOwn ==
  ASSUME SimulatorOwnsAll, OwnInv, [Next]_vars
  PROVE  OwnInv'
<1>1. RegistrationInv'
  BY NextRegistration DEF OwnInv
<1>2. ASSUME NEW d \in Devices, RegistrationStep(d)  PROVE OwnInv'
  BY <1>1, <1>2, OwnAttempt, NoControllerOwn, RegisterDeviceOwn
<1>3. Aside \/ \E d \in Devices : RegistrationStep(d)
  BY StepCases
<1>4. ASSUME Aside, ~ \E d \in Devices : RegistrationStep(d)  PROVE OwnInv'
  BY <1>1, <1>4, LuaOwn, BluezOwn, DispatchOwn DEF Next
<1> QED  BY <1>2, <1>3, <1>4

(* On a host without adapters, where only opening a controller may fail    *)
(* and served devices are kept, the two numberings of controllers, the     *)
(* devices and BlueZ's applications stay in step.                          *)
THEOREM OwnHolds ==
  ASSUME SimulatorOwnsAll
  PROVE  Spec => []OwnInv
<1>1. Init => OwnInv
  BY InitOwn
<1>2. OwnInv /\ [Next]_vars => OwnInv'
  BY NextOwn
<1> QED  BY <1>1, <1>2, PTL DEF Spec

(* On such a host the program's numbering of controllers is the kernel's,  *)
(* although neither asks the other.                                        *)
THEOREM NumberingsAgree ==
  ASSUME SimulatorOwnsAll
  PROVE  Spec => []ControllerIsOwn
BY OwnHolds, PTL DEF OwnInv

(* No vhci handle is overwritten while its controller is open.             *)
THEOREM NothingLeaks ==
  ASSUME SimulatorOwnsAll
  PROVE  Spec => []NoControllerLeaks
BY OwnHolds, PTL DEF OwnInv

(* The pointer that on_register_application_reply is given is good.        *)
THEOREM AnswersFindTheirDevice ==
  ASSUME SimulatorOwnsAll
  PROVE  Spec => []RepliesFindTheirDevice
BY OwnHolds, PTL DEF OwnInv

(* What counts as registered is registered at BlueZ, at the adapter that   *)
(* is the device's own.                                                    *)
THEOREM RegistrationsAreReal ==
  ASSUME SimulatorOwnsAll
  PROVE  Spec => []RegisteredWhereItLives
BY OwnHolds, PTL DEF OwnInv

-----------------------------------------------------------------------------
(* The registry that registration implements.                              *)

(* IsRegistry without its fairness.                                        *)
RegistrySafety == Registry!Init /\ [][Registry!Next]_(Registry!vars)

(* Beyond what is shared with the kernel and BlueZ: a name is what makes a *)
(* device, and BlueZ holds no application but those of listed devices at   *)
(* their own adapter.                                                      *)
NamedOnceCreated == \A d \in Devices : device_name[d] = NULL <=> life[d] = "absent"

HostedAtHome ==
  \A a \in bluez_applications : a[2] \in Listed /\ a[1] = virtual_controller[a[2]]

RegistryInv ==
  /\ OwnInv
  /\ NamedOnceCreated
  /\ HostedAtHome

LEMMA InitRegistry ==
  ASSUME SimulatorOwnsAll, Init
  PROVE  RegistryInv /\ Registry!Init
<1>1. Listed = {}
  BY DEF Init, Listed
<1>3. \A s : OffersThatAre(s) = {}
  BY DEF Init, OffersThatAre
<1>4. Confirmed = {}
  BY DEF Init, Confirmed
<1>5. Registry!Init
  BY <1>3, <1>4 DEF Init, Registry!Init, Running
<1> QED
  BY <1>5, InitOwn
  DEF Init, RegistryInv, NamedOnceCreated, HostedAtHome

(* The devices that have an adapter are the listed ones.                   *)
LEMMA RegisteredAreListed ==
  ASSUME RegistryInv
  PROVE  Registry!Registered = Listed
<1>1. Listed \subseteq Devices
  BY ListedAreDevices DEF RegistryInv, OwnInv, RegistrationInv
<1>2. \A d \in Listed : virtual_controller[d] # NULL
  BY <1>1, NullIsNothing
  DEF RegistryInv, OwnInv, ControllerIsOwn, RegistrationInv, ListedAreServed, TypeOK
<1> QED
  BY <1>1, <1>2 DEF Registry!Registered, RegistryInv, OwnInv, ListedOrNothing

(* What a call offers tells it from the others in its state.               *)
LEMMA OffersAreCalls ==
  ASSUME RegistryInv, NEW b \in calls, NEW c \in calls,
         OfferOf(b) = OfferOf(c), b.state = c.state
  PROVE  b = c
<1>1. b \in CallSet /\ c \in CallSet
  BY DEF RegistryInv, OwnInv, RegistrationInv, TypeOK
<1>2. b.device = c.device /\ b.kind = c.kind
  BY DEF OfferOf
<1>3. b.adapter = c.adapter
  BY <1>2 DEF RegistryInv, OwnInv, ListedOrNothing
<1> QED  BY <1>1, <1>2, <1>3 DEF CallSet

(* What the registry sees; a step that leaves it alone is none of its.     *)
Unseen ==
  UNCHANGED <<device_name, virtual_controller, controller_count, calls,
              application_registered, advert_registered, bluez_applications, process>>

LEMMA UnseenIsStutter ==
  ASSUME Unseen
  PROVE  UNCHANGED Registry!vars
BY DEF Unseen, Registry!vars, OffersThatAre, Confirmed, Running

LEMMA AttemptRegistry ==
  ASSUME SimulatorOwnsAll, RegistryInv, OwnInv', NEW d \in Devices, RegistrationStep(d)
  PROVE  RegistryInv' /\ (Registry!RegisterDevice(d) \/ UNCHANGED Registry!vars)
<1> USE DEF script, flags, served, bluez
<1>1. d \notin Listed /\ Listed \subseteq Devices /\ Running /\ life[d] = "held"
  <2>1. Enter(d)
    BY OwnAttempt DEF RegistryInv, NoController, RegisterDevice
  <2> QED
    BY <2>1, EnterIsNew, ListedAreDevices DEF RegistryInv, OwnInv, RegistrationInv, Enter
<1>2. CASE NoController(d)
  <2>1. virtual_controller' = virtual_controller
    BY <1>1, <1>2
    DEF NoController, RegistryInv, OwnInv, ListedOrNothing, RegistrationInv, TypeOK
  <2>2. Unseen
    BY <1>2, <2>1 DEF NoController, Unseen
  <2>3. Listed' = Listed /\ UNCHANGED <<life, device_name, controller_count>>
    BY <1>2 DEF NoController, Listed
  <2>4. NamedOnceCreated' /\ HostedAtHome'
    BY <2>2, <2>3
    DEF Unseen, RegistryInv, NamedOnceCreated, HostedAtHome
  <2> QED  BY <2>2, <2>4, UnseenIsStutter DEF RegistryInv
<1>3. CASE RegisterDevice(d)
  <2> USE DEF RegisterDevice, InitController, AddObject
  <2>1. Listed' = Listed \cup {d}
    BY <1>3, ListGrows DEF RegistryInv, OwnInv, RegistrationInv
  <2>5. NamedOnceCreated'
    BY <1>3 DEF RegistryInv, NamedOnceCreated
  <2>6. /\ virtual_controller' = [virtual_controller EXCEPT ![d] = controller_count]
        /\ controller_count' = controller_count + 1
    <3>1. Present = 0..(controller_count - 1) /\ controller_count \in Nat
      BY DEF RegistryInv, OwnInv, NumbersAreControllers, RegistrationInv, TypeOK
    <3>2. LowestFree(Present) = controller_count
      BY <3>1, LowestFreeIsNext
    <3> QED  BY <1>3, <3>2
  <2>7. HostedAtHome'
    BY <1>1, <1>3, <2>1, <2>6 DEF RegistryInv, HostedAtHome, OwnInv, RegistrationInv, TypeOK
  <2>8. /\ OffersThatAre("sent")' = OffersThatAre("sent") \cup Registry!Offer(d)
        /\ OffersThatAre("accepted")' = OffersThatAre("accepted")
        /\ OffersThatAre("refused")' = OffersThatAre("refused")
    <3> DEFINE a == [device |-> d, kind |-> "application"]
               b == [device |-> d, kind |-> "advert"]
    <3>1. PICK m, n : /\ calls' = calls \cup {m, n}
                      /\ m = Call("application", d)
                      /\ n = Call("advert", d)
      BY <1>3
    <3>2. m.state = "sent" /\ n.state = "sent" /\ OfferOf(m) = a /\ OfferOf(n) = b
      BY <3>1 DEF Call, OfferOf
    <3>3. Registry!Offer(d) = {a, b}
      <4>1. \A o \in Registry!Offer(d) : o = a \/ o = b
        BY DEF Registry!Offer
      <4>2. a \in Registry!Offer(d) /\ b \in Registry!Offer(d)
        BY DEF Registry!Offer
      <4> QED  BY <4>1, <4>2
    <3> HIDE DEF a, b
    <3> QED  BY <3>1, <3>2, <3>3 DEF OffersThatAre
  <2>9. device_name[d] # NULL
    BY <1>1 DEF RegistryInv, NamedOnceCreated
  <2>10. \A x \in Listed : device_name[x] # device_name[d]
    BY <1>3, EnterIsNew DEF RegistryInv, OwnInv, RegistrationInv
  <2>11. UNCHANGED <<device_name, Confirmed, bluez_applications, process>>
    BY <1>3 DEF Confirmed
  <2>12. Registry!RegisterDevice(d)
    <3> HIDE DEF RegisterDevice, InitController, AddObject
    <3>1. Registry!Registered = Listed
      BY RegisteredAreListed
    <3>2. Running' <=> Running
      BY <2>11 DEF Running
    <3>3. life[d] = "held" /\ d \in Devices /\ Running /\ d \notin Listed
      BY <1>1
    <3> QED
      BY <2>6, <2>8, <2>9, <2>10, <2>11, <3>1, <3>2, <3>3 DEF Registry!RegisterDevice
  <2> QED  BY <2>5, <2>7, <2>12 DEF RegistryInv
<1> QED  BY <1>2, <1>3, OwnAttempt DEF RegistryInv

LEMMA LuaRegistry ==
  ASSUME SimulatorOwnsAll, RegistryInv, OwnInv', Aside,
         \/ \E d \in Devices, n \in Names : CreateDevice(d, n)
         \/ \E d \in Devices : LuaStep(d)
         \/ UNCHANGED vars
  PROVE  /\ RegistryInv'
         /\ \/ \E d \in Devices, n \in Names : Registry!CreateDevice(d, n)
            \/ Registry!Stop
            \/ UNCHANGED Registry!vars
<1> USE DEF script, kernel, flags, served, bluez
<1>1. /\ Listed' = Listed
      /\ UNCHANGED <<controller_count, calls, application_registered, advert_registered,
                     bluez_applications>>
  BY DEF Aside, numbers, Listed, CreateDevice, LuaStep, Drop, FreeGarbage, Collect, Undefined,
         vars
<1>2. virtual_controller' = virtual_controller
  <2>1. ASSUME NEW d \in Devices, Collect(d)
        PROVE  virtual_controller' = virtual_controller
    BY <2>1
    DEF Collect, RegistryInv, OwnInv, ListedOrNothing, RegistrationInv, TypeOK
  <2> QED
    BY <2>1 DEF CreateDevice, LuaStep, Drop, FreeGarbage, Undefined, vars
<1>3. HostedAtHome'
  BY <1>1, <1>2 DEF RegistryInv, HostedAtHome
<1>4. /\ \A s : OffersThatAre(s)' = OffersThatAre(s)
      /\ Confirmed' = Confirmed
  BY <1>1 DEF OffersThatAre, Confirmed
<1>5. ASSUME NEW d \in Devices, NEW n \in Names, CreateDevice(d, n)
      PROVE  NamedOnceCreated' /\ Registry!CreateDevice(d, n)
  <2>1. NamedOnceCreated'
    BY <1>5, NullIsNothing
    DEF CreateDevice, RegistryInv, NamedOnceCreated, OwnInv, RegistrationInv, TypeOK
  <2>2. device_name[d] = NULL /\ Running /\ Running'
    BY <1>5 DEF CreateDevice, RegistryInv, NamedOnceCreated, Running
  <2> QED
    BY <1>1, <1>2, <1>4, <1>5, <2>1, <2>2 DEF CreateDevice, Registry!CreateDevice
<1>6. ASSUME NEW d \in Devices, Drop(d) \/ Collect(d)
      PROVE  NamedOnceCreated' /\ Unseen
  BY <1>1, <1>2, <1>6
  DEF Drop, Collect, RegistryInv, NamedOnceCreated, Unseen, OwnInv, RegistrationInv, TypeOK
<1>7. ASSUME NEW d \in Devices, FreeGarbage(d)
      PROVE  NamedOnceCreated' /\ Registry!Stop
  <2>1. process' = "wild_free" /\ UNCHANGED <<life, device_name>>
    BY <1>7 DEF FreeGarbage, Undefined
  <2> QED
    BY <1>1, <1>2, <1>4, <2>1
    DEF RegistryInv, NamedOnceCreated, Registry!Stop, Running
<1>8. ASSUME UNCHANGED vars
      PROVE  NamedOnceCreated' /\ Unseen
  <2>1. UNCHANGED <<life, device_name, process>>
    BY <1>8 DEF vars
  <2>2. NamedOnceCreated' /\ Unseen
    BY <1>1, <1>2, <2>1 DEF RegistryInv, NamedOnceCreated, Unseen
  <2> QED  BY <2>2
<1> QED
  BY <1>3, <1>5, <1>6, <1>7, <1>8, UnseenIsStutter DEF LuaStep, RegistryInv

LEMMA BluezRegistry ==
  ASSUME SimulatorOwnsAll, RegistryInv, OwnInv', Aside, BluezStep
  PROVE  RegistryInv' /\ (Registry!Answer \/ UNCHANGED Registry!vars)
<1> USE DEF script, kernel, flags, served, bluez
<1>1. /\ Listed' = Listed
      /\ UNCHANGED <<life, device_name, controller_count, virtual_controller,
                     application_registered, advert_registered, process>>
  BY DEF Aside, numbers, Listed, BluezStep, AdapterAppears, AdapterDisappears, BluezAnswers,
         BluezAccepts, BluezRefuses
<1>2. NamedOnceCreated'
  BY <1>1 DEF RegistryInv, NamedOnceCreated
<1>3. Confirmed' = Confirmed /\ Running' = Running
  BY <1>1 DEF Confirmed, Running
<1>4. ASSUME NEW i \in Present, AdapterAppears(i)
      PROVE  HostedAtHome' /\ Unseen
  BY <1>1, <1>4 DEF AdapterAppears, RegistryInv, HostedAtHome, Unseen
<1>5. ASSUME NEW i \in adapters, AdapterDisappears(i)
      PROVE  HostedAtHome' /\ Unseen
  <2>1. \A a \in bluez_applications : a[1] \in Present
    BY DEF RegistryInv, HostedAtHome, OwnInv, NumbersAreControllers, ControllerIsOwn,
       RegistrationInv, ListedAreServed
  <2>2. bluez_applications' = bluez_applications
    BY <1>5, <2>1 DEF AdapterDisappears
  <2> QED
    BY <1>1, <1>5, <2>2 DEF AdapterDisappears, RegistryInv, HostedAtHome, Unseen
(* An answer takes its call from one state to another.                     *)
<1>6. ASSUME NEW c \in calls, NEW s \in {"accepted", "refused"}, c.state = "sent",
             Answer(c, s)
      PROVE  /\ OfferOf(c) \in OffersThatAre("sent")
             /\ OffersThatAre("sent")' = OffersThatAre("sent") \ {OfferOf(c)}
             /\ \A t \in {"accepted", "refused"} :
                  OffersThatAre(t)' = OffersThatAre(t) \cup IF s = t THEN {OfferOf(c)} ELSE {}
  <2> DEFINE b == [c EXCEPT !.state = s]
  <2>1. c \in CallSet
    BY DEF RegistryInv, OwnInv, RegistrationInv, TypeOK
  <2>2. b.state = s /\ OfferOf(b) = OfferOf(c)
    BY <2>1 DEF CallSet, OfferOf
  <2>3. calls' = (calls \ {c}) \cup {b}
    BY <1>6 DEF Answer
  <2> HIDE DEF b
  <2>4. \A k \in calls : k.state = "sent" /\ OfferOf(k) = OfferOf(c) => k = c
    BY <1>6, OffersAreCalls
  <2> QED  BY <1>6, <2>2, <2>3, <2>4 DEF OffersThatAre
<1>7. ASSUME NEW c \in calls, BluezAccepts(c)
      PROVE  HostedAtHome' /\ Registry!Accept(OfferOf(c)) /\ OfferOf(c) \in OffersThatAre("sent")
  <2>1. c.device \in Listed /\ c.adapter = virtual_controller[c.device]
    BY DEF RegistryInv, OwnInv, ListedOrNothing, ControllerIsOwn, RegistrationInv,
       CallersAreServed
  <2>2. HostedAtHome'
    BY <1>1, <1>7, <2>1 DEF BluezAccepts, RegistryInv, HostedAtHome
  <2>3. OfferOf(c).device = c.device /\ OfferOf(c).kind = c.kind
    BY DEF OfferOf
  <2>4. bluez_applications' = IF OfferOf(c).kind = "application"
            THEN bluez_applications
                   \cup {<<virtual_controller[OfferOf(c).device], OfferOf(c).device>>}
            ELSE bluez_applications
    BY <1>7, <2>1, <2>3 DEF BluezAccepts
  <2>5. c.state = "sent" /\ Answer(c, "accepted")
    BY <1>7 DEF BluezAccepts
  <2>6. /\ OfferOf(c) \in OffersThatAre("sent")
        /\ OffersThatAre("sent")' = OffersThatAre("sent") \ {OfferOf(c)}
        /\ OffersThatAre("accepted")' = OffersThatAre("accepted") \cup {OfferOf(c)}
        /\ OffersThatAre("refused")' = OffersThatAre("refused")
    BY <1>6, <2>5
  <2> QED  BY <1>1, <1>3, <2>2, <2>4, <2>6 DEF Registry!Accept
<1>8. ASSUME NEW c \in calls, BluezRefuses(c)
      PROVE  HostedAtHome' /\ Registry!Refuse(OfferOf(c)) /\ OfferOf(c) \in OffersThatAre("sent")
  <2>1. c.state = "sent" /\ Answer(c, "refused") /\ bluez_applications' = bluez_applications
    BY <1>8 DEF BluezRefuses
  <2>2. HostedAtHome'
    BY <1>1, <2>1 DEF RegistryInv, HostedAtHome
  <2>3. /\ OfferOf(c) \in OffersThatAre("sent")
        /\ OffersThatAre("sent")' = OffersThatAre("sent") \ {OfferOf(c)}
        /\ OffersThatAre("refused")' = OffersThatAre("refused") \cup {OfferOf(c)}
        /\ OffersThatAre("accepted")' = OffersThatAre("accepted")
    BY <1>6, <2>1
  <2> QED  BY <1>1, <1>3, <2>1, <2>2, <2>3 DEF Registry!Refuse
<1> QED
  BY <1>2, <1>4, <1>5, <1>7, <1>8, UnseenIsStutter
  DEF BluezStep, BluezAnswers, RegistryInv, Registry!Answer

LEMMA DispatchRegistry ==
  ASSUME SimulatorOwnsAll, RegistryInv, OwnInv', Aside, Dispatch
  PROVE  RegistryInv' /\ Registry!Hear
<1> USE DEF script, kernel, served, bluez
<1>1. PICK c \in calls : HandleReply(c)
  <2>1. \A c \in calls : c.device \in Devices /\ c.device \in Listed
    BY DEF RegistryInv, OwnInv, RegistrationInv, TypeOK, CallSet, CallersAreServed,
       ListedOrNothing
  <2>2. \A c \in calls : ~HandleStaleReply(c)
    BY <2>1 DEF HandleStaleReply, RegistryInv, OwnInv, ListedOrNothing
  <2> QED  BY <2>2 DEF Dispatch
<1>2. /\ Listed' = Listed /\ Running /\ Running'
      /\ UNCHANGED <<life, device_name, controller_count, virtual_controller,
                     bluez_applications>>
  BY <1>1 DEF HandleReply, Aside, numbers, Listed, Running
<1>3. RegistryInv'
  BY <1>2 DEF RegistryInv, NamedOnceCreated, HostedAtHome
<1>4. /\ c.state \in {"accepted", "refused"} /\ calls' = calls \ {c}
      /\ c.kind \in {"application", "advert"} /\ c.device \in Devices
  BY <1>1 DEF HandleReply, RegistryInv, OwnInv, RegistrationInv, TypeOK, CallSet
<1>5. OfferOf(c) \in OffersThatAre(c.state)
  BY DEF OffersThatAre
<1>6. \A s : OffersThatAre(s)' = IF s = c.state THEN OffersThatAre(s) \ {OfferOf(c)}
                                               ELSE OffersThatAre(s)
  BY <1>4, OffersAreCalls DEF OffersThatAre
<1>7. Confirmed' = IF c.state = "accepted" THEN Confirmed \cup {OfferOf(c)} ELSE Confirmed
  <2>1. /\ application_registered \in [Devices -> BOOLEAN]
        /\ advert_registered \in [Devices -> BOOLEAN]
    BY DEF RegistryInv, OwnInv, RegistrationInv, TypeOK
  <2>2. \A d \in Devices :
          /\ application_registered'[d] <=>
               \/ application_registered[d]
               \/ d = c.device /\ c.state = "accepted" /\ c.kind = "application"
          /\ advert_registered'[d] <=>
               \/ advert_registered[d]
               \/ d = c.device /\ c.state = "accepted" /\ c.kind = "advert"
    BY <1>1, <2>1 DEF HandleReply
  <2>3. \A d, k : [device |-> d, kind |-> k] \in Confirmed <=>
          /\ d \in Devices
          /\ \/ k = "application" /\ application_registered[d]
             \/ k = "advert" /\ advert_registered[d]
    BY DEF Confirmed
  <2>4. \A d, k : [device |-> d, kind |-> k] \in Confirmed' <=>
          /\ d \in Devices
          /\ \/ k = "application" /\ application_registered'[d]
             \/ k = "advert" /\ advert_registered'[d]
    BY DEF Confirmed
  <2>5. \A o \in Confirmed \cup Confirmed' \cup {OfferOf(c)} :
          o = [device |-> o.device, kind |-> o.kind]
    BY DEF Confirmed, OfferOf
  <2>6. OfferOf(c).device = c.device /\ OfferOf(c).kind = c.kind
    BY DEF OfferOf
  <2> QED  BY <1>4, <2>2, <2>3, <2>4, <2>5, <2>6
<1>8. CASE c.state = "accepted"
  <2>1. /\ OfferOf(c) \in OffersThatAre("accepted")
        /\ OffersThatAre("accepted")' = OffersThatAre("accepted") \ {OfferOf(c)}
        /\ OffersThatAre("sent")' = OffersThatAre("sent")
        /\ OffersThatAre("refused")' = OffersThatAre("refused")
        /\ Confirmed' = Confirmed \cup {OfferOf(c)}
    BY <1>5, <1>6, <1>7, <1>8
  <2>2. Registry!HearAccepted(OfferOf(c))
    BY <1>2, <2>1 DEF Registry!HearAccepted
  <2> QED  BY <1>3, <2>1, <2>2 DEF Registry!Hear
<1>9. CASE c.state = "refused"
  <2>1. /\ OfferOf(c) \in OffersThatAre("refused")
        /\ OffersThatAre("refused")' = OffersThatAre("refused") \ {OfferOf(c)}
        /\ OffersThatAre("sent")' = OffersThatAre("sent")
        /\ OffersThatAre("accepted")' = OffersThatAre("accepted")
        /\ Confirmed' = Confirmed
    BY <1>5, <1>6, <1>7, <1>9
  <2>2. Registry!HearRefused(OfferOf(c))
    BY <1>2, <2>1 DEF Registry!HearRefused
  <2> QED  BY <1>3, <2>1, <2>2 DEF Registry!Hear
<1> QED  BY <1>3, <1>4, <1>8, <1>9

(* On a host of its own the program keeps the promise of DeviceRegistry:   *)
(* every device gets the adapter of its turn and one answer to each of its *)
(* two requests, and what it believes is what BlueZ did.                   *)
THEOREM RegistrationIsRegistry ==
  ASSUME SimulatorOwnsAll
  PROVE  Spec => RegistrySafety
<1>1. Init => RegistryInv /\ Registry!Init
  BY InitRegistry
<1>2. RegistryInv /\ OwnInv' /\ [Next]_vars =>
        RegistryInv' /\ [Registry!Next]_(Registry!vars)
  <2> SUFFICES ASSUME RegistryInv, OwnInv', [Next]_vars
               PROVE  RegistryInv' /\ [Registry!Next]_(Registry!vars)
    OBVIOUS
  <2>1. ASSUME NEW d \in Devices, RegistrationStep(d)
        PROVE  RegistryInv' /\ [Registry!Next]_(Registry!vars)
    BY <2>1, AttemptRegistry DEF Registry!Next
  <2>2. ASSUME Aside, ~ \E d \in Devices : RegistrationStep(d)
        PROVE  RegistryInv' /\ [Registry!Next]_(Registry!vars)
    BY <2>2, LuaRegistry, BluezRegistry, DispatchRegistry DEF Next, Registry!Next
  <2> QED  BY <2>1, <2>2, StepCases
<1> QED  BY <1>1, <1>2, OwnHolds, PTL DEF Spec, RegistrySafety
=============================================================================
