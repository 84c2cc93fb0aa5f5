---------------------------- MODULE DbusDispatch ----------------------------
(***************************************************************************)
(* What becomes of a message that reaches the simulator (dbusutils.c):     *)
(* libdbus finds the object at its path, dbusutils_object_handle_message   *)
(* takes it apart, a method or a property table answers it, and what no    *)
(* handler wants libdbus answers itself.                                   *)
(*                                                                         *)
(* A message is a record:                                                  *)
(*   type       "call" or "signal"                                         *)
(*   path       the kind of the object whose path it carries               *)
(*   interface  or NULL: a call need not name one                          *)
(*   member                                                                *)
(*   argument   the property a Get names, the bytes of a WriteValue; NULL  *)
(*              when they are not of the types, or empty                   *)
(*   memory     what the memory is short of when it is handled: nothing, a *)
(*              reply, or a place for it in the queue of the connection    *)
(***************************************************************************)
EXTENDS Naturals, Sequences

CONSTANTS
  Messages,       \* those that peers send
  MaxMessages,    \* bound on how many
  NULL

(* The property tables; a device has none.                                 *)
ServiceProperties == {"UUID", "Device", "Primary"}
CharacteristicProperties == {"UUID", "Service", "Flags", "Value"}
DescriptorProperties == {"UUID", "Characteristic", "Flags", "Value"}
AdvertisementProperties ==
  {"Type", "ManufacturerData", "Discoverable", "DiscoverableTimeout", "Includes",
   "Duration", "Timeout", "MinInterval", "MaxInterval"}

Properties ==
  [device         |-> {},
   service        |-> ServiceProperties,
   characteristic |-> CharacteristicProperties,
   descriptor     |-> DescriptorProperties,
   advertisement  |-> AdvertisementProperties]

(* The method tables: interfaces and members of them.                      *)
CharacteristicMethods ==
  {"GattCharacteristic1"} \X {"ReadValue", "WriteValue", "StartNotify", "StopNotify"}
AdvertisementMethods == {<<"LEAdvertisement1", "Release">>}

Methods ==
  [device         |-> {<<"ObjectManager", "GetManagedObjects">>},
   service        |-> {},
   characteristic |-> CharacteristicMethods,
   descriptor     |-> {},
   advertisement  |-> AdvertisementMethods]

Kinds == DOMAIN Properties

GattKinds == Kinds \ {"device", "advertisement"}

(* What the body of a reply may name: objects or properties.               *)
Names == GattKinds \cup UNION {Properties[k] : k \in Kinds}

ASSUME MessagesAreWellFormed ==
  \A m \in Messages :
    /\ m.type \in {"call", "signal"} /\ m.path \in Kinds
    /\ m.memory \in {"enough", "no_reply", "no_queue"}

ASSUME MaxMessagesIsNatural == MaxMessages \in Nat

Replies(from) == [from : {from}, body : SUBSET Names]

ASSUME NullIsNoReply == NULL \notin Replies("simulator")

VARIABLES
  link,     \* the connection: "none", "open" or "closed"
  sent,     \* the messages that peers have sent; a serial is an index
  taken,    \* how many of them have been dispatched
  served,   \* kinds of object registered with libdbus
  wire      \* what was sent back, in order: [to, from, body]

dispatchVars == <<link, sent, taken, served, wire>>

DispatchInit ==
  /\ link = "none"
  /\ sent = <<>>
  /\ taken = 0
  /\ served = {}
  /\ wire = <<>>

-----------------------------------------------------------------------------
(* The handlers return a reply or NULL.                                    *)

(* dbus_message_new_method_return and what is appended to it               *)
Return(m, body) ==
  IF m.memory = "no_reply" THEN NULL ELSE [from |-> "simulator", body |-> body]

ObjectGetAll(m) == Return(m, Properties[m.path])

(* The value is appended to the request (dbusutils.c:308): whichever       *)
(* property was asked for, the reply stays empty.                          *)
ObjectGet(m) == IF m.argument = NULL THEN NULL ELSE Return(m, {})

ObjectSet(m) == NULL

PropertiesReply(m) ==
  [Get |-> ObjectGet(m), Set |-> ObjectSet(m), GetAll |-> ObjectGetAll(m)]

(* What the tree holds is what is served (GattTree!TreeMatchesBus).        *)
GetManagedObjects(m) == Return(m, served \cap GattKinds)

WriteValue(m) == IF m.argument = NULL THEN NULL ELSE Return(m, {})

MethodReply(m) ==
  [GetManagedObjects |-> GetManagedObjects(m),
   ReadValue         |-> Return(m, {"Value"}),
   WriteValue        |-> WriteValue(m),
   StartNotify       |-> Return(m, {}),
   StopNotify        |-> Return(m, {}),
   Release           |-> NULL]

-----------------------------------------------------------------------------
(* A handler's result: whether it considers the message handled, and the   *)
(* reply it sent.                                                          *)
Handled(reply) == [handled |-> TRUE, reply |-> reply]
NotYetHandled == [handled |-> FALSE, reply |-> NULL]

(* Mutant: a request that yields no reply is left to libdbus, and so is    *)
(* one that did.                                                           *)
HandlePropertiesInterface_LeftOver(m) ==
  IF m.type = "call" /\ m.member \in {"Get", "Set", "GetAll"}
  THEN [NotYetHandled EXCEPT !.reply = PropertiesReply(m)[m.member]]
  ELSE NotYetHandled

(* Get, Set and GetAll count as handled even when no reply was made.       *)
HandlePropertiesInterface(m) ==
  IF m.type = "call" /\ m.member \in {"Get", "Set", "GetAll"}
  THEN Handled(PropertiesReply(m)[m.member])
  ELSE NotYetHandled

(* Mutant: a method of the table counts as handled, like a property.       *)
HandleMethodCall_Always(m) ==
  IF m.type = "call" /\ <<m.interface, m.member>> \in Methods[m.path]
  THEN Handled(MethodReply(m)[m.member])
  ELSE NotYetHandled

(* A method that returns no reply does not.                                *)
HandleMethodCall(m) ==
  IF /\ m.type = "call"
     /\ <<m.interface, m.member>> \in Methods[m.path]
     /\ MethodReply(m)[m.member] # NULL
  THEN Handled(MethodReply(m)[m.member])
  ELSE NotYetHandled

ObjectHandleMessage(m) ==
  IF m.interface = "Properties"
  THEN HandlePropertiesInterface(m)
  ELSE HandleMethodCall(m)

(* libdbus asks the object at the path, if there is one, and answers a     *)
(* call nobody handled: UnknownMethod, UnknownObject or, for Introspect,   *)
(* its own description.  Whether a handler's reply could be queued the     *)
(* handlers do not look at.                                                *)
Dispatched(m) ==
  IF m.path \in served THEN ObjectHandleMessage(m) ELSE NotYetHandled

SentBack(m) ==
  LET result == Dispatched(m)
      queued == result.reply # NULL /\ m.memory # "no_queue"
      own    == IF queued THEN <<result.reply>> ELSE <<>>
  IN  IF result.handled \/ m.type # "call"
      THEN own
      ELSE Append(own, [from |-> "libdbus", body |-> {}])

Addressed(serial, replies) ==
  [i \in DOMAIN replies |->
     [to |-> serial, from |-> replies[i].from, body |-> replies[i].body]]

-----------------------------------------------------------------------------
(* dbusutils_get_connection                                                *)
Connect ==
  /\ link = "none"
  /\ link' = "open"
  /\ UNCHANGED <<sent, taken, served, wire>>

(* dbusutils_register_object                                               *)
RegisterObjects(S) ==
  /\ served' = served \cup S
  /\ UNCHANGED <<link, sent, taken, wire>>

Send(m) ==
  /\ link = "open"
  /\ Len(sent) < MaxMessages
  /\ sent' = Append(sent, m)
  /\ UNCHANGED <<link, taken, served, wire>>

Pending == link = "open" /\ taken < Len(sent)

Current == sent[taken + 1]

(* strcmp reads the interface of a message that names none.                *)
NoInterface == Current.path \in served /\ Current.interface = NULL

HandleMessage ==
  /\ Pending
  /\ ~NoInterface
  /\ taken' = taken + 1
  /\ wire' = wire \o Addressed(taken + 1, SentBack(Current))
  /\ UNCHANGED <<link, sent, served>>

(* The process ends, or the bus does: callers are told by the bus.         *)
Close ==
  /\ link # "closed"
  /\ link' = "closed"
  /\ UNCHANGED <<sent, taken, served, wire>>

CrashOnMessage == Pending /\ NoInterface /\ Close

DispatchNext ==
  \/ Connect
  \/ \E S \in SUBSET Kinds : RegisterObjects(S)
  \/ \E m \in Messages : Send(m)
  \/ HandleMessage
  \/ CrashOnMessage
  \/ Close

(* The main loop dispatches until nothing is left.                         *)
DispatchSpec ==
  /\ DispatchInit
  /\ [][DispatchNext]_dispatchVars
  /\ WF_dispatchVars(HandleMessage \/ CrashOnMessage)

-----------------------------------------------------------------------------
DispatchTypeOK ==
  /\ link \in {"none", "open", "closed"}
  /\ sent \in Seq(Messages)
  /\ taken \in 0 .. Len(sent)
  /\ served \subseteq Kinds
  /\ wire \in Seq([to : Nat, from : {"simulator", "libdbus"}, body : SUBSET Names])

IsAnswered(i) == \E w \in DOMAIN wire : wire[w].to = i

(* Answers go out in the order of the calls, at most one for each, and     *)
(* none without a call: no path through the two handlers and libdbus'      *)
(* fallback answers a call twice.                                          *)
AnswersInOrder ==
  /\ \A v, w \in DOMAIN wire : v < w => wire[v].to < wire[w].to
  /\ \A w \in DOMAIN wire :
       wire[w].to \in 1 .. taken /\ sent[wire[w].to].type = "call"

(* Only the Properties interface keeps a caller waiting: every other call  *)
(* is answered, by its handler or by libdbus, even if there was no memory  *)
(* for the handler's reply, unless the reply is there and cannot be        *)
(* queued.  There, a Set is never answered, a Get or GetAll always is if   *)
(* its arguments are right and there is memory.                            *)
UnansweredAreExpected ==
  \A i \in 1 .. taken :
    sent[i].type = "call" /\ ~IsAnswered(i) =>
      \/ sent[i].memory = "no_queue"
      \/ /\ sent[i].interface = "Properties"
         /\ \/ sent[i].member = "Set"
            \/ sent[i].member = "Get" /\ sent[i].argument = NULL
            \/ sent[i].member \in {"Get", "GetAll"} /\ sent[i].memory = "no_reply"

(* A Get of a property the object has returns it: "found and created the   *)
(* message" (dbusutils.c).                                                 *)
GetReturnsTheProperty ==
  \A w \in DOMAIN wire :
    LET m == sent[wire[w].to] IN
    /\ wire[w].from = "simulator"
    /\ m.interface = "Properties" /\ m.member = "Get"
    /\ m.argument \in Properties[m.path]
    => wire[w].body = {m.argument}

-----------------------------------------------------------------------------
(* The caller's view.                                                      *)
MessageStatus(i) ==
  IF i \notin DOMAIN sent THEN "unsent"
  ELSE IF sent[i].type # "call" THEN "signal"
  ELSE IF IsAnswered(i) THEN "answered"
  ELSE IF i <= taken \/ link = "closed" THEN "dropped"
  ELSE "waiting"

Serials == 1 .. MaxMessages
CallStatus == [i \in Serials |-> MessageStatus(i)]

Callers == INSTANCE CallReply WITH status <- CallStatus

(* Whatever state the program is in when a call arrives, the call is       *)
(* settled once, in its turn, and in the end: the simulator keeps the      *)
(* promise of CallReply.                                                   *)
IsCallReply == Callers!Spec
=============================================================================
