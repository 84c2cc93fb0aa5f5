--------------------------- MODULE DeviceRegistry ---------------------------
(***************************************************************************)
(* What ble.registerDevice promises a script whose host has no adapters of *)
(* its own: registered devices have different names, the n-th of them gets *)
(* the adapter hci<n> for good, BlueZ is asked once to take its            *)
(* application and once to take its advertisement, each time under that    *)
(* adapter, and the device believes of either what BlueZ answered.         *)
(***************************************************************************)
EXTENDS Naturals

CONSTANTS Devices, Names, NULL

(* What BlueZ is asked to take.                                            *)
Offer(d) == [device : {d}, kind : {"application", "advert"}]

VARIABLES
  name,       \* device -> its name, or NULL before it is created
  next,       \* hci index of the next adapter
  adapter,    \* device -> hci index, or NULL before it is registered
  asked,      \* offers that BlueZ has not answered yet,
  accepted,   \* ... whose answer is under way,
  refused,
  confirmed,  \* ... and that the device knows to be accepted
  hosted,     \* <<adapter, device>>, the applications BlueZ has taken
  running

vars == <<name, next, adapter, asked, accepted, refused, confirmed, hosted, running>>

Init ==
  /\ name = [d \in Devices |-> NULL]
  /\ next = 1
  /\ adapter = [d \in Devices |-> NULL]
  /\ asked = {} /\ accepted = {} /\ refused = {} /\ confirmed = {}
  /\ hosted = {}
  /\ running = TRUE

Registered == {d \in Devices : adapter[d] # NULL}

CreateDevice(d, n) ==
  /\ running
  /\ name[d] = NULL
  /\ name' = [name EXCEPT ![d] = n]
  /\ UNCHANGED <<next, adapter, asked, accepted, refused, confirmed, hosted, running>>

(* A registration that fails leaves nothing behind.                        *)
RegisterDevice(d) ==
  /\ running
  /\ name[d] # NULL
  /\ d \notin Registered
  /\ \A x \in Registered : name[x] # name[d]
  /\ adapter' = [adapter EXCEPT ![d] = next]
  /\ next' = next + 1
  /\ asked' = asked \cup Offer(d)
  /\ UNCHANGED <<name, accepted, refused, confirmed, hosted, running>>

Accept(o) ==
  /\ asked' = asked \ {o}
  /\ accepted' = accepted \cup {o}
  /\ hosted' = IF o.kind = "application"
               THEN hosted \cup {<<adapter[o.device], o.device>>}
               ELSE hosted
  /\ UNCHANGED <<name, next, adapter, refused, confirmed, running>>

Refuse(o) ==
  /\ asked' = asked \ {o}
  /\ refused' = refused \cup {o}
  /\ UNCHANGED <<name, next, adapter, accepted, confirmed, hosted, running>>

HearAccepted(o) ==
  /\ running
  /\ accepted' = accepted \ {o}
  /\ confirmed' = confirmed \cup {o}
  /\ UNCHANGED <<name, next, adapter, asked, refused, hosted, running>>

HearRefused(o) ==
  /\ running
  /\ refused' = refused \ {o}
  /\ UNCHANGED <<name, next, adapter, asked, accepted, confirmed, hosted, running>>

Stop ==
  /\ running' = FALSE
  /\ UNCHANGED <<name, next, adapter, asked, accepted, refused, confirmed, hosted>>

Answer == \E o \in asked : Accept(o) \/ Refuse(o)

Hear ==
  \/ \E o \in accepted : HearAccepted(o)
  \/ \E o \in refused : HearRefused(o)

Next ==
  \/ \E d \in Devices, n \in Names : CreateDevice(d, n)
  \/ \E d \in Devices : RegisterDevice(d)
  \/ Answer
  \/ Hear
  \/ Stop

(* Every request is answered, and every answer heard while the program     *)
(* runs.                                                                   *)
Spec == Init /\ [][Next]_vars /\ WF_vars(Answer) /\ WF_vars(Hear)
=============================================================================
