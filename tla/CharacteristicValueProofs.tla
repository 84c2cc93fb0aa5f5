---------------------- MODULE CharacteristicValueProofs ----------------------
(***************************************************************************)
(* Theorems about CharacteristicValue: no signal lies and, while there is  *)
(* memory, only a remote write is silent (about LastTold, the last signal  *)
(* under way), and every step of the characteristic with its message       *)
(* queues is a step of the atomic one (about QueuesMatch, which says whose *)
(* call is where).                                                         *)
(***************************************************************************)
EXTENDS CharacteristicValue, SequenceTheorems, WellFoundedInduction, TLAPS

Messages == Answers \cup Signals

LEMMA SignalsAreSignals ==
  /\ \A m \in Messages : IsSignal(m) <=> m \in Signals
  /\ \A m \in Messages : ~IsSignal(m) <=> m \in Answers
  /\ \A v \in Values : [changed |-> v] \in Signals
<1>1. \A m \in Signals : IsSignal(m)
  BY DEF Signals, IsSignal
<1>2. \A m \in Answers : ~IsSignal(m)
  BY DEF Answers, IsSignal
<1>3. \A v \in Values : [changed |-> v] \in Signals
  BY DEF Signals
<1> QED  BY <1>1, <1>2, <1>3 DEF Messages

-----------------------------------------------------------------------------
(* Type correctness.                                                       *)

LEMMA RequestsAreTyped ==
  \A r \in Requests : r.op = "WriteValue" => r.value \in Values
BY DEF Requests

LEMMA ReceiveTypes ==
  ASSUME TypeOK, NEW op, Receive(op),
         NEW result \in Results, Answer(result)
  PROVE  /\ Head(to_sim) \in CallMessages
         /\ to_sim' \in Seq(CallMessages)
         /\ to_bluez' \in Seq(Answers \cup Signals)
         /\ memory' = memory /\ waiting' = waiting /\ seen' = seen
<1>1. to_sim # <<>> /\ to_sim \in Seq(CallMessages) /\ to_sim' = Tail(to_sim)
  BY DEF Receive, TypeOK
<1>2. Head(to_sim) \in CallMessages /\ to_sim' \in Seq(CallMessages)
  BY <1>1, HeadTailProperties
<1>3. [client |-> Head(to_sim).client, result |-> result] \in Answers
  BY <1>2 DEF CallMessages, Answers
<1>4. to_bluez' \in Seq(Answers \cup Signals)
  BY <1>3, AppendProperties DEF Answer, TypeOK
<1> QED  BY <1>2, <1>4 DEF Receive

(* Whatever comes of a reply is a result.                                  *)
LEMMA RepliesAnswer ==
  ASSUME NEW result \in Results, Reply(result)
  PROVE  \E r \in Results : Answer(r)
BY DEF Reply, Failures, Results

LEMMA HandleTypes ==
  ASSUME TypeOK, HandleCall
  PROVE  TypeOK'
<1> USE EmptyIsValue
<1>1. to_sim # <<>> => Head(to_sim) \in CallMessages
  BY HeadTailProperties DEF TypeOK
<1>2. CASE ReadValue
  <2>1. value \in Values
    BY DEF TypeOK
  <2>2. PICK r \in Results : Answer(r)
    BY <1>2, <2>1, RepliesAnswer DEF ReadValue, Results
  <2> QED  BY <1>2, <2>2, ReceiveTypes DEF ReadValue, TypeOK
<1>3. CASE WriteValue
  <2>1. Request.op = "WriteValue" /\ Request \in Requests
    BY <1>1, <1>3 DEF WriteValue, Receive, Request, CallMessages
  <2>2. Request.value \in Values
    BY <2>1, RequestsAreTyped
  <2>3. value' \in Values
    BY <1>3, <2>2 DEF WriteValue, SetValue, TypeOK
  <2>4. PICK result \in Results : Answer(result)
    BY <1>3, RepliesAnswer DEF WriteValue, Results
  <2> QED  BY <1>3, <2>3, <2>4, ReceiveTypes DEF WriteValue, TypeOK
<1>4. CASE StartNotify
  <2>1. PICK r \in Results : Answer(r)
    BY <1>4, RepliesAnswer DEF StartNotify, Results
  <2> QED  BY <1>4, <2>1, ReceiveTypes DEF StartNotify, TypeOK
<1>5. CASE StopNotify
  <2>1. PICK r \in Results : Answer(r)
    BY <1>5, RepliesAnswer DEF StopNotify, Results
  <2> QED  BY <1>5, <2>1, ReceiveTypes DEF StopNotify, TypeOK
<1> QED  BY <1>2, <1>3, <1>4, <1>5 DEF HandleCall

LEMMA DeliverTypes ==
  ASSUME TypeOK, Deliver
  PROVE  TypeOK'
<1>1. Head(to_bluez) \in Messages /\ to_bluez' \in Seq(Messages)
  BY HeadTailProperties DEF Deliver, TypeOK, Messages
<1>2. seen' \in Values /\ waiting' \subseteq Clients
  <2>1. CASE IsSignal(Head(to_bluez))
    BY <1>1, <2>1, SignalsAreSignals DEF Deliver, TypeOK, Signals
  <2>2. CASE ~IsSignal(Head(to_bluez))
    BY <2>2 DEF Deliver, TypeOK
  <2> QED  BY <2>1, <2>2
<1> QED  BY <1>1, <1>2 DEF Deliver, TypeOK, Messages

LEMMA NextTypes ==
  ASSUME TypeOK, [Next]_vars
  PROVE  TypeOK'
<1>1. ASSUME NEW v \in Values, UpdateValue(v)
      PROVE  TypeOK'
  <2>1. value' \in Values
    BY <1>1, EmptyIsValue DEF UpdateValue, SetValue
  <2>2. to_bluez' \in Seq(Answers \cup Signals)
    BY <1>1, <2>1, SignalsAreSignals, AppendProperties DEF UpdateValue, PropertiesChanged, TypeOK
  <2> QED  BY <1>1, <2>1, <2>2 DEF UpdateValue, TypeOK
<1>2. ASSUME NEW b \in BOOLEAN, SetNotifying(b)
      PROVE  TypeOK'
  BY <1>2 DEF SetNotifying, TypeOK
<1>3. ASSUME NEW c \in Clients, SendCall(c)
      PROVE  TypeOK'
  <2>1. PICK r \in Requests : to_sim' = Append(to_sim, [client |-> c, request |-> r])
    BY <1>3 DEF SendCall
  <2>2. to_sim' \in Seq(CallMessages)
    BY <2>1, AppendProperties DEF TypeOK, CallMessages
  <2> QED  BY <1>3, <2>2 DEF SendCall, TypeOK
<1>4. CASE UNCHANGED vars
  BY <1>4 DEF vars, TypeOK
<1>5. CASE MemoryChanges
  BY <1>5 DEF MemoryChanges, TypeOK
<1> QED  BY <1>1, <1>2, <1>3, <1>4, <1>5, HandleTypes, DeliverTypes DEF Next

(* Every variable of the characteristic keeps its type: in particular the  *)
(* value is never the buffer that was freed.                               *)
THEOREM ValueTypeCorrect == Spec => []TypeOK
<1>1. Init => TypeOK
  <2>1. <<>> \in Seq(CallMessages) /\ <<>> \in Seq(Answers \cup Signals)
    BY EmptySeq
  <2> QED  BY <2>1, EmptyIsValue DEF Init, TypeOK
<1>2. TypeOK /\ [Next]_vars => TypeOK'
  BY NextTypes
<1> QED  BY <1>1, <1>2, PTL DEF Spec

-----------------------------------------------------------------------------
(* The last signal under way.                                              *)

SignalsIn(s) == {i \in DOMAIN s : IsSignal(s[i])}

(* A queue with a signal in it has a last one: of the distances to its     *)
(* end, one is the least.                                                  *)
LEMMA LastSignalExists ==
  ASSUME NEW s \in Seq(Messages), SignalsIn(s) # {}
  PROVE  /\ Max(SignalsIn(s)) \in SignalsIn(s)
         /\ \A i \in SignalsIn(s) : Max(SignalsIn(s)) >= i
<1> DEFINE n == Len(s)
           Distances == {k \in 0..n : n - k \in SignalsIn(s)}
           R == OpToRel(<, Nat)
<1>1. n \in Nat /\ DOMAIN s = 1..n
  BY LenProperties
<1>2. PICK j \in SignalsIn(s) : TRUE
  OBVIOUS
<1>3. n - j \in Distances
  BY <1>1, <1>2 DEF SignalsIn
<1>4. PICK k \in Distances : \A h \in Distances : ~ (<<h, k>> \in R)
  <2>1. IsWellFoundedOn(R, Nat)
    BY NatLessThanWellFounded
  <2>2. Distances \subseteq Nat
    BY <1>1
  <2> QED  BY <1>3, <2>1, <2>2, WFMin
<1>5. \A i \in SignalsIn(s) : n - k >= i
  <2> SUFFICES ASSUME NEW i \in SignalsIn(s), n - k < i  PROVE FALSE
    BY <1>1 DEF SignalsIn
  <2>1. n - i \in Distances /\ n - i \in Nat /\ k \in Nat /\ n - i < k
    BY <1>1 DEF SignalsIn
  <2> QED  BY <1>4, <2>1 DEF OpToRel
<1> QED  BY <1>4, <1>5 DEF Max

(* What a client that has heard v will have been told by all of s.         *)
Told(s, v) == IF SignalsIn(s) = {} THEN v ELSE s[Max(SignalsIn(s))].changed

LEMMA LastToldIsTold ==
  /\ LastTold = Told(to_bluez, seen)
  /\ LastTold' = Told(to_bluez', seen')
BY DEF LastTold, Told, SignalsIn

(* Told is the content of the signal behind which there is no other.       *)
LEMMA ToldByLast ==
  ASSUME NEW s \in Seq(Messages), NEW v, NEW k \in SignalsIn(s),
         \A i \in SignalsIn(s) : i <= k
  PROVE  Told(s, v) = s[k].changed
<1>1. /\ Max(SignalsIn(s)) \in SignalsIn(s)
      /\ Max(SignalsIn(s)) >= k
  BY LastSignalExists
<1>2. SignalsIn(s) \subseteq Nat
  BY LenProperties DEF SignalsIn
<1>3. Max(SignalsIn(s)) = k
  BY <1>1, <1>2
<1> QED  BY <1>3 DEF Told

LEMMA ToldAfterAppend ==
  ASSUME NEW s \in Seq(Messages), NEW v, NEW m \in Messages
  PROVE  Told(Append(s, m), v) = IF IsSignal(m) THEN m.changed ELSE Told(s, v)
<1> DEFINE t == Append(s, m)
           n == Len(s)
<1>1. /\ t \in Seq(Messages)
      /\ DOMAIN s = 1..n /\ DOMAIN t = 1..(n + 1) /\ n \in Nat
      /\ \A i \in 1..n : t[i] = s[i]
      /\ t[n + 1] = m
  BY AppendProperties, LenProperties
<1>2. CASE IsSignal(m)
  <2>1. n + 1 \in SignalsIn(t) /\ \A i \in SignalsIn(t) : i <= n + 1
    BY <1>1, <1>2 DEF SignalsIn
  <2> QED  BY <1>1, <1>2, <2>1, ToldByLast
<1>3. CASE ~IsSignal(m)
  <2>1. SignalsIn(t) = SignalsIn(s)
    BY <1>1, <1>3 DEF SignalsIn
  <2>2. CASE SignalsIn(s) = {}
    BY <1>3, <2>1, <2>2 DEF Told
  <2>3. CASE SignalsIn(s) # {}
    <3>1. Max(SignalsIn(s)) \in 1..n
      BY <1>1, <2>3, LastSignalExists DEF SignalsIn
    <3> QED  BY <1>1, <1>3, <2>1, <2>3, <3>1 DEF Told
  <2> QED  BY <2>2, <2>3
<1> QED  BY <1>2, <1>3

(* Delivering the head tells nothing new.                                  *)
LEMMA ToldAfterDelivery ==
  ASSUME NEW s \in Seq(Messages), s # <<>>, NEW v
  PROVE  Told(Tail(s), IF IsSignal(Head(s)) THEN Head(s).changed ELSE v) = Told(s, v)
<1> DEFINE t == Tail(s)
           n == Len(s)
           w == IF IsSignal(Head(s)) THEN Head(s).changed ELSE v
<1>1. /\ t \in Seq(Messages) /\ n \in Nat \ {0}
      /\ DOMAIN s = 1..n /\ DOMAIN t = 1..(n - 1)
      /\ \A i \in 1..(n - 1) : t[i] = s[i + 1]
      /\ Head(s) = s[1]
  BY HeadTailProperties, LenProperties, EmptySeq
<1>2. \A i \in 1..(n - 1) : i \in SignalsIn(t) <=> i + 1 \in SignalsIn(s)
  BY <1>1 DEF SignalsIn
<1>3. CASE SignalsIn(t) # {}
  <2>1. PICK k \in SignalsIn(t) : k = Max(SignalsIn(t)) /\ \A i \in SignalsIn(t) : k >= i
    BY <1>1, <1>3, LastSignalExists
  <2>2. k \in 1..(n - 1)
    BY <1>1, <2>1 DEF SignalsIn
  <2>3. k + 1 \in SignalsIn(s)
    BY <1>2, <2>1, <2>2
  <2>4. \A i \in SignalsIn(s) : i <= k + 1
    <3> SUFFICES ASSUME NEW i \in SignalsIn(s), ~(i <= k + 1)  PROVE FALSE
      OBVIOUS
    <3>1. i \in 1..n /\ i - 1 \in 1..(n - 1) /\ (i - 1) + 1 = i
      BY <1>1, <2>2 DEF SignalsIn
    <3>2. i - 1 \in SignalsIn(t)
      BY <1>2, <3>1
    <3> QED  BY <2>1, <2>2, <3>1, <3>2
  <2>5. Told(s, v) = s[k + 1].changed
    BY <2>3, <2>4, ToldByLast
  <2>6. Told(t, w) = t[k].changed
    BY <1>3, <2>1 DEF Told
  <2> QED  BY <1>1, <2>2, <2>5, <2>6
<1>4. CASE SignalsIn(t) = {}
  <2>1. \A i \in SignalsIn(s) : i = 1
    <3> SUFFICES ASSUME NEW i \in SignalsIn(s), i # 1  PROVE FALSE
      OBVIOUS
    <3>1. i - 1 \in 1..(n - 1) /\ (i - 1) + 1 = i
      BY <1>1 DEF SignalsIn
    <3> QED  BY <1>2, <1>4, <3>1
  <2>2. Told(t, w) = w
    BY <1>4 DEF Told
  <2>3. CASE IsSignal(Head(s))
    <3>1. 1 \in SignalsIn(s) /\ \A i \in SignalsIn(s) : i <= 1
      BY <1>1, <2>1, <2>3 DEF SignalsIn
    <3>2. Told(s, v) = s[1].changed
      BY <3>1, ToldByLast
    <3> QED  BY <1>1, <2>2, <2>3, <3>2
  <2>4. CASE ~IsSignal(Head(s))
    <3>1. SignalsIn(s) = {}
      BY <1>1, <2>1, <2>4 DEF SignalsIn
    <3> QED  BY <2>2, <2>4, <3>1 DEF Told
  <2> QED  BY <2>3, <2>4
<1> QED  BY <1>3, <1>4

(* What BlueZ will believe changes only when the script sets a value while *)
(* notifications are on.                                                   *)
LEMMA ToldStep ==
  ASSUME TypeOK, TypeOK', [Next]_vars
  PROVE  /\ \/ LastTold' = LastTold
            \/ notifying /\ LastTold' = value'
         /\ \/ value' = value
            \/ WriteValue
            \/ notifying /\ memory => LastTold' = value'
<1> USE LastToldIsTold
<1>1. to_bluez \in Seq(Messages) /\ to_bluez' \in Seq(Messages)
  BY DEF TypeOK, Messages
<1>2. ASSUME NEW v \in Values, UpdateValue(v)
      PROVE  \/ notifying /\ LastTold' = value'
             \/ ~(notifying /\ memory) /\ LastTold' = LastTold
  <2>1. CASE notifying /\ to_bluez' = Append(to_bluez, [changed |-> value'])
    <3>1. /\ [changed |-> value'] \in Messages
          /\ IsSignal([changed |-> value'])
      BY SignalsAreSignals DEF TypeOK, Messages, IsSignal
    <3> QED  BY <1>1, <2>1, <3>1, ToldAfterAppend
  <2>2. CASE (~notifying \/ ~memory) /\ to_bluez' = to_bluez
    BY <1>2, <2>2 DEF UpdateValue
  <2> QED  BY <1>2, <2>1, <2>2 DEF UpdateValue, PropertiesChanged
<1>3. ASSUME NEW result \in Results, Answer(result), to_sim # <<>>, seen' = seen
      PROVE  LastTold' = LastTold
  <2> DEFINE m == [client |-> Head(to_sim).client, result |-> result]
  <2>1. Head(to_sim) \in CallMessages
    BY <1>3, HeadTailProperties DEF TypeOK
  <2>2. m \in Messages /\ ~IsSignal(m)
    BY <1>3, <2>1 DEF CallMessages, Answers, Messages, IsSignal
  <2> QED  BY <1>1, <1>3, <2>2, ToldAfterAppend DEF Answer
<1>4. CASE HandleCall
  <2>1. LastTold' = LastTold
    <3>1. to_sim # <<>> /\ seen' = seen
      BY <1>4 DEF HandleCall, ReadValue, WriteValue, StartNotify, StopNotify, Receive
    <3>2. \E r \in Results : Answer(r)
      BY <1>4, RepliesAnswer
      DEF HandleCall, ReadValue, WriteValue, StartNotify, StopNotify, Results, TypeOK
    <3> QED  BY <1>3, <3>1, <3>2
  <2>2. value' = value \/ WriteValue
    BY <1>4 DEF HandleCall, ReadValue, StartNotify, StopNotify
  <2> QED  BY <2>1, <2>2
<1>5. CASE Deliver
  <2>1. seen' = IF IsSignal(Head(to_bluez)) THEN Head(to_bluez).changed ELSE seen
    BY <1>5 DEF Deliver
  <2> QED  BY <1>1, <1>5, <2>1, ToldAfterDelivery DEF Deliver
<1>6. CASE \/ \E b \in BOOLEAN : SetNotifying(b)
           \/ \E c \in Clients : SendCall(c)
           \/ MemoryChanges
           \/ UNCHANGED vars
  BY <1>6 DEF SetNotifying, SendCall, MemoryChanges, vars
<1> QED  BY <1>2, <1>4, <1>5, <1>6 DEF Next

(* characteristic_update_value never sends a signal that is not true, and  *)
(* nothing else sends one.                                                 *)
THEOREM SignalsAreTrue == Spec => SignalsTellTheValue
<1>1. TypeOK /\ TypeOK' /\ [Next]_vars =>
        [LastTold' # LastTold => notifying /\ LastTold' = value']_vars
  BY ToldStep
<1> QED  BY <1>1, ValueTypeCorrect, PTL DEF Spec, SignalsTellTheValue

(* While there is memory, a subscriber that is up to date falls behind by  *)
(* a remote write only, and one that fell behind catches up with the next  *)
(* change of the script.                                                   *)
THEOREM WritesAreTheGap == Spec => OnlyWritesAreSilent
<1>1. TypeOK /\ TypeOK' /\ [Next]_vars =>
        [notifying /\ memory /\ (LastTold = value \/ value' # value)
           => LastTold' = value' \/ WriteValue]_vars
  BY ToldStep
<1> QED  BY <1>1, ValueTypeCorrect, PTL DEF Spec, OnlyWritesAreSilent

(* Nobody writes when no write is under way.                               *)
LEMMA NoWritesNoWrite ==
  ASSUME TypeOK, NoWrites
  PROVE  ~WriteValue
<1> SUFFICES ASSUME WriteValue PROVE FALSE
  OBVIOUS
<1>1. to_sim # <<>> /\ Request.op = "WriteValue"
  BY DEF WriteValue, Receive
<1>2. 1 \in DOMAIN to_sim /\ Request = to_sim[1].request
  BY <1>1 DEF TypeOK, Request
<1> QED  BY <1>1, <1>2 DEF NoWrites

(* Once all is delivered, what BlueZ was told is what it has seen.         *)
LEMMA DeliveredIsTold ==
  ASSUME to_bluez = <<>>
  PROVE  LastTold = seen
BY DEF LastTold

(* What is left of SettledValueIsSeen without fairness: from the moment a  *)
(* subscriber is up to date, as long as it stays subscribed, nobody writes *)
(* and memory lasts, all signals under way end in the current value, and   *)
(* whenever none is under way, the subscriber has seen it.                 *)
SubscriberKeepsUp ==
  [](/\ notifying /\ LastTold = value
     /\ []notifying /\ []NoWrites /\ []memory
     => [](LastTold = value /\ (to_bluez = <<>> => seen = value)))

THEOREM SubscribersKeepUp == Spec => SubscriberKeepsUp
<1> DEFINE UpToDate == LastTold = value
           AllSeen == to_bluez = <<>> => seen = value
<1>1. TypeOK /\ NoWrites /\ notifying /\ memory /\ UpToDate
        /\ [notifying /\ memory /\ (LastTold = value \/ value' # value)
              => LastTold' = value' \/ WriteValue]_vars
        => UpToDate'
  <2>1. UNCHANGED vars => LastTold' = LastTold /\ value' = value
    BY DEF vars, LastTold
  <2> QED  BY <2>1, NoWritesNoWrite
<1>2. UpToDate => AllSeen
  BY DeliveredIsTold
<1> HIDE DEF UpToDate, AllSeen
<1>3. Spec => [](/\ notifying /\ UpToDate /\ []notifying /\ []NoWrites /\ []memory
                 => [](UpToDate /\ AllSeen))
  BY <1>1, <1>2, ValueTypeCorrect, WritesAreTheGap, PTL DEF OnlyWritesAreSilent
<1> QED  BY <1>3, PTL DEF SubscriberKeepsUp, UpToDate, AllSeen

-----------------------------------------------------------------------------
(* Whose call is where.                                                    *)

AnswersIn(s) == {i \in DOMAIN s : ~IsSignal(s[i])}

(* A client that waits has one message under way, its call or its answer;  *)
(* a client that does not wait has none.                                   *)
OneEach(sim, bluez, waits) ==
  /\ \A i, j \in DOMAIN sim : sim[i].client = sim[j].client => i = j
  /\ \A i, j \in AnswersIn(bluez) : bluez[i].client = bluez[j].client => i = j
  /\ \A i \in DOMAIN sim, j \in AnswersIn(bluez) : sim[i].client # bluez[j].client
  /\ \A c \in waits : \/ \E i \in DOMAIN sim : sim[i].client = c
                      \/ \E j \in AnswersIn(bluez) : bluez[j].client = c
  /\ \A i \in DOMAIN sim : sim[i].client \in waits
  /\ \A j \in AnswersIn(bluez) : bluez[j].client \in waits

QueuesMatch == OneEach(to_sim, to_bluez, waiting)

Called(r) == [state |-> "called", request |-> r]
Answered(a) == [state |-> "answered", result |-> a]
Idle == [state |-> "idle"]

(* ClientState, of any queues.                                             *)
StateIn(sim, bluez, waits, c) ==
  IF \E i \in DOMAIN sim : sim[i].client = c
  THEN Called(sim[CHOOSE i \in DOMAIN sim : sim[i].client = c].request)
  ELSE IF c \in waits
  THEN Answered(bluez[CHOOSE i \in DOMAIN bluez :
                        ~IsSignal(bluez[i]) /\ bluez[i].client = c].result)
  ELSE Idle

LEMMA StateIsStateIn ==
  /\ \A c : ClientState(c) = StateIn(to_sim, to_bluez, waiting, c)
  /\ \A c : ClientState(c)' = StateIn(to_sim', to_bluez', waiting', c)
BY DEF ClientState, StateIn, Called, Answered, Idle

LEMMA StateOfCaller ==
  ASSUME NEW sim, NEW bluez, NEW waits, OneEach(sim, bluez, waits), NEW i \in DOMAIN sim
  PROVE  StateIn(sim, bluez, waits, sim[i].client) = Called(sim[i].request)
<1>1. i = CHOOSE k \in DOMAIN sim : sim[k].client = sim[i].client
  BY DEF OneEach
<1> QED  BY <1>1 DEF StateIn

LEMMA StateOfAnswered ==
  ASSUME NEW sim, NEW bluez, NEW waits, OneEach(sim, bluez, waits), NEW j \in AnswersIn(bluez)
  PROVE  StateIn(sim, bluez, waits, bluez[j].client) = Answered(bluez[j].result)
<1>1. j = CHOOSE k \in DOMAIN bluez : ~IsSignal(bluez[k]) /\ bluez[k].client = bluez[j].client
  BY DEF OneEach, AnswersIn
<1>2. /\ ~ \E i \in DOMAIN sim : sim[i].client = bluez[j].client
      /\ bluez[j].client \in waits
  BY DEF OneEach
<1> QED  BY <1>1, <1>2 DEF StateIn

LEMMA StateOfIdle ==
  ASSUME NEW sim, NEW bluez, NEW waits, OneEach(sim, bluez, waits), NEW c, c \notin waits
  PROVE  StateIn(sim, bluez, waits, c) = Idle
<1>1. ~ \E i \in DOMAIN sim : sim[i].client = c
  BY DEF OneEach
<1> QED  BY <1>1 DEF StateIn

(* A client's state is the same in two pairs of queues if its message is   *)
(* in both, wherever it stands.                                            *)
LEMMA SameMessageSameState ==
  ASSUME NEW sim, NEW bluez, NEW waits, OneEach(sim, bluez, waits),
         NEW sim2, NEW bluez2, NEW waits2, OneEach(sim2, bluez2, waits2),
         NEW c,
         \A i \in DOMAIN sim : sim[i].client = c =>
           \E k \in DOMAIN sim2 : sim2[k] = sim[i],
         \A i \in AnswersIn(bluez) : bluez[i].client = c =>
           \E k \in AnswersIn(bluez2) : bluez2[k] = bluez[i],
         c \in waits2 => c \in waits
  PROVE  StateIn(sim2, bluez2, waits2, c) = StateIn(sim, bluez, waits, c)
<1>1. ASSUME NEW i \in DOMAIN sim, sim[i].client = c
      PROVE  StateIn(sim2, bluez2, waits2, c) = StateIn(sim, bluez, waits, c)
  BY <1>1, StateOfCaller
<1>2. ASSUME NEW i \in AnswersIn(bluez), bluez[i].client = c
      PROVE  StateIn(sim2, bluez2, waits2, c) = StateIn(sim, bluez, waits, c)
  BY <1>2, StateOfAnswered
<1>3. ASSUME c \notin waits
      PROVE  StateIn(sim2, bluez2, waits2, c) = StateIn(sim, bluez, waits, c)
  BY <1>3, StateOfIdle
<1> QED  BY <1>1, <1>2, <1>3 DEF OneEach

LEMMA AppendedIsThere ==
  ASSUME NEW S, NEW s \in Seq(S), NEW m \in S
  PROVE  LET t == Append(s, m) IN
         /\ \A i \in DOMAIN s : i \in DOMAIN t /\ t[i] = s[i]
         /\ \A k \in DOMAIN t : k \in DOMAIN s \/ (k = Len(s) + 1 /\ t[k] = m)
         /\ Len(s) + 1 \in DOMAIN t /\ t[Len(s) + 1] = m
         /\ Len(s) + 1 \notin DOMAIN s
BY AppendProperties, LenProperties

LEMMA TailIsThere ==
  ASSUME NEW S, NEW s \in Seq(S), s # <<>>
  PROVE  LET t == Tail(s) IN
         /\ \A i \in DOMAIN s : i = 1 \/ (i - 1 \in DOMAIN t /\ t[i - 1] = s[i])
         /\ \A k \in DOMAIN t : k \in Nat /\ k + 1 \in DOMAIN s /\ k + 1 # 1 /\ t[k] = s[k + 1]
         /\ 1 \in DOMAIN s /\ Head(s) = s[1]
<1> DEFINE t == Tail(s)
           n == Len(s)
<1>1. /\ n \in Nat \ {0} /\ DOMAIN s = 1..n
      /\ DOMAIN t = 1..(n - 1)
      /\ \A i \in 1..(n - 1) : t[i] = s[i + 1]
      /\ Head(s) = s[1]
  BY HeadTailProperties, LenProperties, EmptySeq
<1> QED  BY <1>1

(* The handler takes the first call and appends its answer.                *)
LEMMA HandlingAnswersTheFirst ==
  ASSUME NEW sim \in Seq(CallMessages), sim # <<>>, NEW bluez \in Seq(Messages), NEW waits,
         OneEach(sim, bluez, waits),
         NEW a \in Answers, a.client = Head(sim).client
  PROVE  /\ OneEach(Tail(sim), Append(bluez, a), waits)
         /\ StateIn(sim, bluez, waits, a.client) = Called(Head(sim).request)
         /\ StateIn(Tail(sim), Append(bluez, a), waits, a.client) = Answered(a.result)
         /\ \A c : c # a.client =>
              StateIn(Tail(sim), Append(bluez, a), waits, c) = StateIn(sim, bluez, waits, c)
<1> DEFINE sim2 == Tail(sim)
           bluez2 == Append(bluez, a)
           n == Len(bluez) + 1
<1>1. a \in Messages /\ ~IsSignal(a)
  BY SignalsAreSignals DEF Messages
<1>2. /\ \A i \in DOMAIN sim : i = 1 \/ (i - 1 \in DOMAIN sim2 /\ sim2[i - 1] = sim[i])
      /\ \A k \in DOMAIN sim2 : k \in Nat /\ k + 1 \in DOMAIN sim /\ k + 1 # 1 /\ sim2[k] = sim[k + 1]
      /\ 1 \in DOMAIN sim /\ Head(sim) = sim[1]
  BY TailIsThere
<1>3. /\ \A i \in AnswersIn(bluez) : i \in AnswersIn(bluez2) /\ bluez2[i] = bluez[i]
      /\ \A k \in AnswersIn(bluez2) : \/ k \in AnswersIn(bluez) /\ bluez2[k] = bluez[k]
                                      \/ k = n /\ bluez2[k] = a
      /\ n \in AnswersIn(bluez2) /\ bluez2[n] = a
  BY <1>1, AppendedIsThere DEF AnswersIn
<1> HIDE DEF sim2, bluez2, n
<1>4. OneEach(sim2, bluez2, waits)
  <2>1. \A i, j \in DOMAIN sim2 : sim2[i].client = sim2[j].client => i = j
    <3> SUFFICES ASSUME NEW i \in DOMAIN sim2, NEW j \in DOMAIN sim2,
                        sim2[i].client = sim2[j].client
                 PROVE  i = j
      OBVIOUS
    <3>1. /\ i + 1 \in DOMAIN sim /\ j + 1 \in DOMAIN sim
          /\ sim[i + 1].client = sim[j + 1].client
          /\ i \in Nat /\ j \in Nat
      BY <1>2
    <3>2. i + 1 = j + 1
      BY <3>1 DEF OneEach
    <3> QED  BY <3>1, <3>2
  <2>2. \A i \in DOMAIN sim2 : sim2[i].client # a.client
    BY <1>2 DEF OneEach
  <2>3. \A i, j \in AnswersIn(bluez2) : bluez2[i].client = bluez2[j].client => i = j
    <3>1. \A j \in AnswersIn(bluez) : bluez[j].client # a.client
      BY <1>2 DEF OneEach
    <3> QED  BY <1>3, <3>1 DEF OneEach
  <2>4. \A i \in DOMAIN sim2, j \in AnswersIn(bluez2) : sim2[i].client # bluez2[j].client
    BY <1>2, <1>3, <2>2 DEF OneEach
  <2>5. \A c \in waits : \/ \E i \in DOMAIN sim2 : sim2[i].client = c
                        \/ \E j \in AnswersIn(bluez2) : bluez2[j].client = c
    <3> SUFFICES ASSUME NEW c \in waits, ~ \E j \in AnswersIn(bluez2) : bluez2[j].client = c
                 PROVE  \E i \in DOMAIN sim2 : sim2[i].client = c
      OBVIOUS
    <3>1. PICK i \in DOMAIN sim : sim[i].client = c
      BY <1>3 DEF OneEach
    <3>2. i # 1
      BY <1>2, <1>3, <3>1
    <3> QED  BY <1>2, <3>1, <3>2
  <2>6. \A i \in DOMAIN sim2 : sim2[i].client \in waits
    BY <1>2 DEF OneEach
  <2>7. \A j \in AnswersIn(bluez2) : bluez2[j].client \in waits
    BY <1>2, <1>3 DEF OneEach
  <2> QED  BY <2>1, <2>3, <2>4, <2>5, <2>6, <2>7 DEF OneEach
<1>5. StateIn(sim, bluez, waits, a.client) = Called(Head(sim).request)
  BY <1>2, StateOfCaller
<1>6. StateIn(sim2, bluez2, waits, a.client) = Answered(a.result)
  BY <1>3, <1>4, StateOfAnswered
<1>7. ASSUME NEW c, c # a.client
      PROVE  StateIn(sim2, bluez2, waits, c) = StateIn(sim, bluez, waits, c)
  <2>1. \A i \in DOMAIN sim : sim[i].client = c => \E k \in DOMAIN sim2 : sim2[k] = sim[i]
    BY <1>2, <1>7
  <2>2. \A i \in AnswersIn(bluez) : bluez[i].client = c =>
          \E k \in AnswersIn(bluez2) : bluez2[k] = bluez[i]
    BY <1>3
  <2> QED  BY <1>4, <2>1, <2>2, SameMessageSameState
<1> QED  BY <1>4, <1>5, <1>6, <1>7 DEF sim2, bluez2

(* A client that waits for nothing sends a call.                           *)
LEMMA SendingCalls ==
  ASSUME NEW sim \in Seq(CallMessages), NEW bluez \in Seq(Messages), NEW waits, OneEach(sim, bluez, waits),
         NEW m \in CallMessages, NEW d \in Clients, d = m.client, d \notin waits,
         NEW waits2, \A c : c \in waits2 <=> c \in waits \/ c = d
  PROVE  /\ OneEach(Append(sim, m), bluez, waits2)
         /\ StateIn(Append(sim, m), bluez, waits2, d) = Called(m.request)
         /\ \A c : c # d =>
              StateIn(Append(sim, m), bluez, waits2, c) = StateIn(sim, bluez, waits, c)
<1> DEFINE sim2 == Append(sim, m)
           n == Len(sim) + 1
<1>1. /\ \A i \in DOMAIN sim : i \in DOMAIN sim2 /\ sim2[i] = sim[i]
      /\ \A k \in DOMAIN sim2 : \/ k \in DOMAIN sim /\ sim2[k] = sim[k]
                                \/ k = n /\ sim2[k] = m
      /\ n \in DOMAIN sim2 /\ sim2[n] = m
  BY AppendedIsThere
<1> HIDE DEF sim2, n
<1>2. OneEach(sim2, bluez, waits2)
  BY <1>1 DEF OneEach
<1>3. StateIn(sim2, bluez, waits2, d) = Called(m.request)
  BY <1>1, <1>2, StateOfCaller
<1>4. ASSUME NEW c, c # d
      PROVE  StateIn(sim2, bluez, waits2, c) = StateIn(sim, bluez, waits, c)
  <2>1. \A i \in DOMAIN sim : sim[i].client = c => \E k \in DOMAIN sim2 : sim2[k] = sim[i]
    BY <1>1
  <2> QED  BY <1>2, <1>4, <2>1, SameMessageSameState
<1> QED  BY <1>2, <1>3, <1>4 DEF sim2

(* An answer is delivered.                                                 *)
LEMMA DeliveringReturns ==
  ASSUME NEW sim \in Seq(CallMessages), NEW bluez \in Seq(Messages), bluez # <<>>,
         NEW waits, OneEach(sim, bluez, waits), ~IsSignal(Head(bluez)),
         NEW d \in Clients, d = Head(bluez).client,
         NEW waits2, \A c : c \in waits2 <=> c \in waits /\ c # d
  PROVE  /\ OneEach(sim, Tail(bluez), waits2)
         /\ StateIn(sim, bluez, waits, d) = Answered(Head(bluez).result)
         /\ StateIn(sim, Tail(bluez), waits2, d) = Idle
         /\ \A c : c # d =>
              StateIn(sim, Tail(bluez), waits2, c) = StateIn(sim, bluez, waits, c)
<1> DEFINE bluez2 == Tail(bluez)
<1>1. /\ \A i \in AnswersIn(bluez) : i = 1 \/ (i - 1 \in AnswersIn(bluez2) /\ bluez2[i - 1] = bluez[i])
      /\ \A k \in AnswersIn(bluez2) :
           k \in Nat /\ k + 1 \in AnswersIn(bluez) /\ k + 1 # 1 /\ bluez2[k] = bluez[k + 1]
      /\ 1 \in AnswersIn(bluez) /\ Head(bluez) = bluez[1]
  BY TailIsThere DEF AnswersIn
<1> HIDE DEF bluez2
<1>2. \A k \in AnswersIn(bluez2) : bluez2[k].client # d
  BY <1>1 DEF OneEach
<1>3. OneEach(sim, bluez2, waits2)
  <2>1. \A i, j \in AnswersIn(bluez2) : bluez2[i].client = bluez2[j].client => i = j
    <3> SUFFICES ASSUME NEW i \in AnswersIn(bluez2), NEW j \in AnswersIn(bluez2),
                        bluez2[i].client = bluez2[j].client
                 PROVE  i = j
      OBVIOUS
    <3>1. /\ i + 1 \in AnswersIn(bluez) /\ j + 1 \in AnswersIn(bluez)
          /\ bluez[i + 1].client = bluez[j + 1].client
          /\ i \in Nat /\ j \in Nat
      BY <1>1
    <3>2. i + 1 = j + 1
      BY <3>1 DEF OneEach
    <3> QED  BY <3>1, <3>2
  <2>2. \A i \in DOMAIN sim, j \in AnswersIn(bluez2) : sim[i].client # bluez2[j].client
    <3>1. \A j \in AnswersIn(bluez2) : bluez2[j] = bluez[j + 1] /\ j + 1 \in AnswersIn(bluez)
      BY <1>1
    <3> QED  BY <3>1 DEF OneEach
  <2>3. \A c \in waits2 : \/ \E i \in DOMAIN sim : sim[i].client = c
                         \/ \E j \in AnswersIn(bluez2) : bluez2[j].client = c
    <3> SUFFICES ASSUME NEW c \in waits2, ~ \E i \in DOMAIN sim : sim[i].client = c
                 PROVE  \E j \in AnswersIn(bluez2) : bluez2[j].client = c
      OBVIOUS
    <3>1. PICK j \in AnswersIn(bluez) : bluez[j].client = c
      BY DEF OneEach
    <3>2. j # 1
      BY <1>1, <3>1
    <3> QED  BY <1>1, <3>1, <3>2
  <2>4. \A i \in DOMAIN sim : sim[i].client \in waits2
    BY <1>1 DEF OneEach
  <2>5. \A j \in AnswersIn(bluez2) : bluez2[j].client \in waits2
    BY <1>1, <1>2 DEF OneEach
  <2>6. \A i, j \in DOMAIN sim : sim[i].client = sim[j].client => i = j
    BY DEF OneEach
  <2> QED  BY <2>1, <2>2, <2>3, <2>4, <2>5, <2>6 DEF OneEach
<1>4. StateIn(sim, bluez, waits, d) = Answered(Head(bluez).result)
  BY <1>1, StateOfAnswered
<1>5. StateIn(sim, bluez2, waits2, d) = Idle
  BY <1>3, StateOfIdle
<1>6. ASSUME NEW c, c # d
      PROVE  StateIn(sim, bluez2, waits2, c) = StateIn(sim, bluez, waits, c)
  <2>1. \A i \in AnswersIn(bluez) : bluez[i].client = c =>
          \E k \in AnswersIn(bluez2) : bluez2[k] = bluez[i]
    BY <1>1, <1>6
  <2> QED  BY <1>3, <2>1, SameMessageSameState
<1> QED  BY <1>3, <1>4, <1>5, <1>6 DEF bluez2

(* Signals that come and go are nothing to the callers.                    *)
LEMMA SignalsPass ==
  ASSUME NEW sim, NEW bluez \in Seq(Messages), NEW waits, OneEach(sim, bluez, waits),
         NEW bluez2,
         \/ \E m \in Signals : bluez2 = Append(bluez, m)
         \/ bluez # <<>> /\ IsSignal(Head(bluez)) /\ bluez2 = Tail(bluez)
  PROVE  /\ OneEach(sim, bluez2, waits)
         /\ \A c : StateIn(sim, bluez2, waits, c) = StateIn(sim, bluez, waits, c)
<1>1. CASE \E m \in Signals : bluez2 = Append(bluez, m)
  <2>1. PICK m \in Signals : bluez2 = Append(bluez, m)
    BY <1>1
  <2>2. m \in Messages /\ IsSignal(m)
    BY SignalsAreSignals DEF Messages
  <2>3. /\ AnswersIn(bluez2) = AnswersIn(bluez)
        /\ \A i \in AnswersIn(bluez) : bluez2[i] = bluez[i]
    BY <2>1, <2>2, AppendedIsThere DEF AnswersIn
  <2>4. OneEach(sim, bluez2, waits)
    BY <2>3 DEF OneEach
  <2> QED  BY <2>3, <2>4, SameMessageSameState
<1>2. CASE bluez # <<>> /\ IsSignal(Head(bluez)) /\ bluez2 = Tail(bluez)
  <2>1. /\ \A i \in AnswersIn(bluez) : i - 1 \in AnswersIn(bluez2) /\ bluez2[i - 1] = bluez[i]
        /\ \A k \in AnswersIn(bluez2) :
             k \in Nat /\ k + 1 \in AnswersIn(bluez) /\ bluez2[k] = bluez[k + 1]
    BY <1>2, TailIsThere DEF AnswersIn
  <2>2. \A i, j \in AnswersIn(bluez2) : bluez2[i].client = bluez2[j].client => i = j
    <3> SUFFICES ASSUME NEW i \in AnswersIn(bluez2), NEW j \in AnswersIn(bluez2),
                        bluez2[i].client = bluez2[j].client
                 PROVE  i = j
      OBVIOUS
    <3>1. /\ i + 1 \in AnswersIn(bluez) /\ j + 1 \in AnswersIn(bluez)
          /\ bluez[i + 1].client = bluez[j + 1].client
          /\ i \in Nat /\ j \in Nat
      BY <2>1
    <3>2. i + 1 = j + 1
      BY <3>1 DEF OneEach
    <3> QED  BY <3>1, <3>2
  <2>3. \A i \in DOMAIN sim, j \in AnswersIn(bluez2) : sim[i].client # bluez2[j].client
    BY <2>1 DEF OneEach
  <2>4. \A c \in waits : \/ \E i \in DOMAIN sim : sim[i].client = c
                        \/ \E j \in AnswersIn(bluez2) : bluez2[j].client = c
    BY <2>1 DEF OneEach
  <2>5. \A j \in AnswersIn(bluez2) : bluez2[j].client \in waits
    BY <2>1 DEF OneEach
  <2>6. OneEach(sim, bluez2, waits)
    BY <2>2, <2>3, <2>4, <2>5 DEF OneEach
  <2> QED  BY <2>1, <2>6, SameMessageSameState
<1> QED  BY <1>1, <1>2

-----------------------------------------------------------------------------
(* Every step is a step of the atomic characteristic.                      *)

AtomicSafety == Atomic!Init /\ [][Atomic!Next]_(Atomic!vars)

LEMMA HandledCallIsAnswered ==
  ASSUME TypeOK, QueuesMatch, NEW op, Receive(op),
         NEW result \in Results, Answer(result),
         NEW d, d = Head(to_sim).client
  PROVE  /\ QueuesMatch'
         /\ d \in Clients /\ Request \in Requests /\ Request.op = op
         /\ ClientState(d) = Called(Request)
         /\ [c \in Clients |-> ClientState(c)'] =
              [[c \in Clients |-> ClientState(c)] EXCEPT ![d] = Answered(result)]
<1> DEFINE a == [client |-> d, result |-> result]
<1>1. /\ to_sim \in Seq(CallMessages) /\ to_sim # <<>> /\ to_sim' = Tail(to_sim)
      /\ to_bluez \in Seq(Messages) /\ to_bluez' = Append(to_bluez, a)
      /\ waiting' = waiting
  BY DEF Receive, Answer, TypeOK, Messages
<1>2. Head(to_sim) \in CallMessages
  BY <1>1, HeadTailProperties
<1>3. d \in Clients /\ Request \in Requests /\ Request.op = op
  BY <1>2 DEF CallMessages, Request, Receive
<1>4. a \in Answers /\ a.client = d /\ a.result = result
  BY <1>3 DEF Answers
<1>5. /\ OneEach(to_sim', to_bluez', waiting')
      /\ StateIn(to_sim, to_bluez, waiting, d) = Called(Request)
      /\ StateIn(to_sim', to_bluez', waiting', d) = Answered(result)
      /\ \A c : c # d =>
           StateIn(to_sim', to_bluez', waiting', c) = StateIn(to_sim, to_bluez, waiting, c)
  BY <1>1, <1>4, HandlingAnswersTheFirst DEF QueuesMatch, Request
<1>6. /\ ClientState(d) = Called(Request)
      /\ ClientState(d)' = Answered(result)
      /\ \A c : c # d => ClientState(c)' = ClientState(c)
  <2>1. /\ ClientState(d) = StateIn(to_sim, to_bluez, waiting, d)
        /\ ClientState(d)' = StateIn(to_sim', to_bluez', waiting', d)
        /\ \A c : /\ ClientState(c) = StateIn(to_sim, to_bluez, waiting, c)
                 /\ ClientState(c)' = StateIn(to_sim', to_bluez', waiting', c)
    BY StateIsStateIn
  <2> QED  BY <1>5, <2>1
<1>7. [c \in Clients |-> ClientState(c)'] =
        [[c \in Clients |-> ClientState(c)] EXCEPT ![d] = Answered(result)]
  BY <1>6
<1> QED  BY <1>3, <1>5, <1>6, <1>7 DEF QueuesMatch

(* What an atomic step needs to know of its client.                        *)
LEMMA AnswerIsAtomic ==
  ASSUME TypeOK, QueuesMatch, NEW op, Receive(op),
         NEW result \in Results, Answer(result),
         NEW d, d = Head(to_sim).client
  PROVE  /\ QueuesMatch' /\ d \in Clients
         /\ [c \in Clients |-> ClientState(c)][d].state = "called"
         /\ [c \in Clients |-> ClientState(c)][d].request = Request
         /\ Request.op = op
         /\ Atomic!Answer(d, result)
<1>1. /\ QueuesMatch' /\ d \in Clients /\ Request.op = op
      /\ ClientState(d) = Called(Request)
      /\ [c \in Clients |-> ClientState(c)'] =
           [[c \in Clients |-> ClientState(c)] EXCEPT ![d] = Answered(result)]
  BY HandledCallIsAnswered
<1>2. Atomic!Answer(d, result)
  BY <1>1 DEF Atomic!Answer, Answered
<1> QED  BY <1>1, <1>2 DEF Called

(* What comes of a reply here may come of the atomic one.                  *)
LEMMA ReplyIsAtomic ==
  ASSUME TypeOK, QueuesMatch, NEW op, Receive(op), NEW result \in Results, Reply(result),
         NEW d, d = Head(to_sim).client
  PROVE  /\ QueuesMatch' /\ d \in Clients
         /\ [c \in Clients |-> ClientState(c)][d].state = "called"
         /\ [c \in Clients |-> ClientState(c)][d].request = Request
         /\ Request.op = op
         /\ Atomic!Reply(d, result)
         /\ memory' = memory
<1>1. PICK r \in {result} \cup Failures : Answer(r)
  BY DEF Reply
<1>2. r \in Results
  BY DEF Failures, Results
<1>3. Atomic!Answer(d, r) => Atomic!Reply(d, result)
  BY DEF Atomic!Reply, Atomic!Failures, Failures
<1> QED  BY <1>1, <1>2, <1>3, AnswerIsAtomic DEF Receive

LEMMA HandlersPerform ==
  ASSUME TypeOK, QueuesMatch, HandleCall
  PROVE  QueuesMatch' /\ \E c \in Clients : Atomic!Perform(c)
<1>0. PICK d : d = Head(to_sim).client
  OBVIOUS
<1> DEFINE client == [c \in Clients |-> ClientState(c)]
<1>1. CASE ReadValue
  <2>1. value \in Values
    BY DEF TypeOK
  <2>2. /\ QueuesMatch' /\ d \in Clients
        /\ client[d].state = "called" /\ client[d].request.op = "ReadValue"
        /\ Atomic!Reply(d, value) /\ memory' = memory
    BY <1>0, <1>1, <2>1, ReplyIsAtomic DEF ReadValue, Results
  <2>3. Atomic!Perform(d)
    BY <1>1, <2>2 DEF ReadValue, Atomic!Perform
  <2> QED  BY <2>2, <2>3
<1>2. CASE WriteValue
  <2>1. CASE Request.value = EMPTY
    <3>1. Answer("UnknownMethod") /\ Receive("WriteValue") /\ UNCHANGED <<value, notifying>>
      BY <1>2, <2>1 DEF WriteValue
    <3>2. /\ QueuesMatch' /\ d \in Clients
          /\ client[d].state = "called" /\ client[d].request = Request
          /\ client[d].request.op = "WriteValue"
          /\ Atomic!Answer(d, "UnknownMethod")
      BY <1>0, <3>1, AnswerIsAtomic DEF Results
    <3>3. Atomic!Perform(d)
      BY <2>1, <3>1, <3>2 DEF Atomic!Perform, Receive
    <3> QED  BY <3>2, <3>3
  <2>2. CASE Request.value # EMPTY
    <3>1. /\ Reply("done") /\ Receive("WriteValue") /\ UNCHANGED notifying
          /\ SetValue(Request.value)
      BY <1>2, <2>2 DEF WriteValue
    <3>2. /\ QueuesMatch' /\ d \in Clients
          /\ client[d].state = "called" /\ client[d].request = Request
          /\ client[d].request.op = "WriteValue"
          /\ Atomic!Reply(d, "done") /\ memory' = memory
      BY <1>0, <3>1, ReplyIsAtomic DEF Results
    <3>3. Atomic!Store(client[d].request.value)
      BY <3>1, <3>2 DEF SetValue, Atomic!Store
    <3>4. Atomic!Perform(d)
      BY <2>2, <3>1, <3>2, <3>3 DEF Atomic!Perform
    <3> QED  BY <3>2, <3>4
  <2> QED  BY <2>1, <2>2
<1>3. CASE StartNotify
  <2>1. /\ QueuesMatch' /\ d \in Clients
        /\ client[d].state = "called" /\ client[d].request.op = "StartNotify"
        /\ Atomic!Reply(d, "done") /\ memory' = memory
    BY <1>0, <1>3, ReplyIsAtomic DEF StartNotify, Results
  <2>2. notifying' = (client[d].request.op = "StartNotify") /\ UNCHANGED value
    BY <1>3, <2>1 DEF StartNotify
  <2>3. Atomic!Perform(d)
    BY <2>1, <2>2 DEF Atomic!Perform
  <2> QED  BY <2>1, <2>3
<1>4. CASE StopNotify
  <2>1. /\ QueuesMatch' /\ d \in Clients
        /\ client[d].state = "called" /\ client[d].request.op = "StopNotify"
        /\ Atomic!Reply(d, "done") /\ memory' = memory
    BY <1>0, <1>4, ReplyIsAtomic DEF StopNotify, Results
  <2>2. notifying' = (client[d].request.op = "StartNotify") /\ UNCHANGED value
    BY <1>4, <2>1 DEF StopNotify
  <2>3. Atomic!Perform(d)
    BY <2>1, <2>2 DEF Atomic!Perform
  <2> QED  BY <2>1, <2>3
<1> QED  BY <1>1, <1>2, <1>3, <1>4 DEF HandleCall

LEMMA SendingInvokes ==
  ASSUME TypeOK, QueuesMatch, NEW d \in Clients, SendCall(d)
  PROVE  QueuesMatch' /\ Atomic!Invoke(d)
<1>1. PICK r \in Requests : to_sim' = Append(to_sim, [client |-> d, request |-> r])
  BY DEF SendCall
<1> DEFINE m == [client |-> d, request |-> r]
<1>2. m \in CallMessages /\ m.client = d /\ m.request = r
  BY DEF CallMessages
<1>3. d \notin waiting /\ waiting' = waiting \cup {d} /\ to_bluez' = to_bluez
      /\ to_sim \in Seq(CallMessages) /\ to_bluez \in Seq(Messages) /\ value' = value /\ notifying' = notifying
      /\ memory' = memory
  BY DEF SendCall, TypeOK, Messages
<1>4. /\ OneEach(to_sim', to_bluez', waiting')
      /\ StateIn(to_sim', to_bluez', waiting', d) = Called(r)
      /\ \A c : c # d =>
           StateIn(to_sim', to_bluez', waiting', c) = StateIn(to_sim, to_bluez, waiting, c)
  <2>1. OneEach(to_sim, to_bluez, waiting)
    BY DEF QueuesMatch
  <2> HIDE DEF m
  <2>2. /\ OneEach(Append(to_sim, m), to_bluez, waiting')
        /\ StateIn(Append(to_sim, m), to_bluez, waiting', d) = Called(r)
        /\ \A c : c # d => StateIn(Append(to_sim, m), to_bluez, waiting', c)
                          = StateIn(to_sim, to_bluez, waiting, c)
    <3>1. \A c : c \in waiting' <=> c \in waiting \/ c = d
      BY <1>3
    <3>2. /\ OneEach(Append(to_sim, m), to_bluez, waiting')
          /\ StateIn(Append(to_sim, m), to_bluez, waiting', d) = Called(m.request)
          /\ \A c : c # d => StateIn(Append(to_sim, m), to_bluez, waiting', c)
                            = StateIn(to_sim, to_bluez, waiting, c)
      <4>1. /\ d = m.client /\ m \in CallMessages /\ d \notin waiting
            /\ to_sim \in Seq(CallMessages) /\ to_bluez \in Seq(Messages)
        BY <1>2, <1>3
      <4> QED  BY <2>1, <3>1, <4>1, SendingCalls
    <3> QED  BY <1>2, <3>2
  <2> QED  BY <1>1, <1>3, <2>2 DEF m
<1>5. /\ ClientState(d) = Idle
      /\ ClientState(d)' = Called(r)
      /\ \A c : c # d => ClientState(c)' = ClientState(c)
  BY <1>3, <1>4, StateIsStateIn, StateOfIdle DEF QueuesMatch
<1>6. [c \in Clients |-> ClientState(c)'] =
        [[c \in Clients |-> ClientState(c)] EXCEPT ![d] = Called(r)]
  BY <1>5
<1>7. r \in Atomic!Requests
  BY OperationsAreMethods DEF Requests, Atomic!Requests
<1>8. Atomic!Invoke(d)
  BY <1>3, <1>5, <1>6, <1>7 DEF Atomic!Invoke, Atomic!Idle, Idle, Called
<1> QED  BY <1>4, <1>8 DEF QueuesMatch

LEMMA DeliveryReturns ==
  ASSUME TypeOK, QueuesMatch, Deliver
  PROVE  QueuesMatch' /\ ((\E c \in Clients : Atomic!Return(c)) \/ UNCHANGED Atomic!vars)
<1>0. PICK d : d = Head(to_bluez).client
  OBVIOUS
<1>1. /\ to_bluez \in Seq(Messages) /\ to_bluez # <<>> /\ to_bluez' = Tail(to_bluez)
      /\ Head(to_bluez) \in Messages
      /\ to_sim \in Seq(CallMessages)
      /\ to_sim' = to_sim /\ memory' = memory /\ value' = value /\ notifying' = notifying
  BY HeadTailProperties DEF Deliver, TypeOK, Messages
<1>2. CASE IsSignal(Head(to_bluez))
  <2>1. waiting' = waiting
    BY <1>2 DEF Deliver
  <2>2. /\ OneEach(to_sim', to_bluez', waiting')
        /\ \A c : StateIn(to_sim', to_bluez', waiting', c) = StateIn(to_sim, to_bluez, waiting, c)
    <3>1. OneEach(to_sim, to_bluez, waiting)
      BY DEF QueuesMatch
    <3>2. /\ OneEach(to_sim, Tail(to_bluez), waiting)
          /\ \A c : StateIn(to_sim, Tail(to_bluez), waiting, c)
                   = StateIn(to_sim, to_bluez, waiting, c)
      BY <1>1, <1>2, <3>1, SignalsPass
    <3> QED  BY <1>1, <2>1, <3>2
  <2>3. \A c : ClientState(c)' = ClientState(c)
    BY <2>2, StateIsStateIn
  <2> QED  BY <1>1, <2>2, <2>3 DEF QueuesMatch, Atomic!vars
<1>3. CASE ~IsSignal(Head(to_bluez))
  <2>1. waiting' = waiting \ {d}
    BY <1>0, <1>3 DEF Deliver
  <2>2. d \in Clients
    BY <1>0, <1>1, <1>3, SignalsAreSignals DEF Answers
  <2>3. /\ OneEach(to_sim', to_bluez', waiting')
        /\ StateIn(to_sim, to_bluez, waiting, d) = Answered(Head(to_bluez).result)
        /\ StateIn(to_sim', to_bluez', waiting', d) = Idle
        /\ \A c : c # d =>
             StateIn(to_sim', to_bluez', waiting', c) = StateIn(to_sim, to_bluez, waiting, c)
    <3>1. OneEach(to_sim, to_bluez, waiting)
      BY DEF QueuesMatch
    <3>2. /\ OneEach(to_sim, Tail(to_bluez), waiting')
          /\ StateIn(to_sim, to_bluez, waiting, d) = Answered(Head(to_bluez).result)
          /\ StateIn(to_sim, Tail(to_bluez), waiting', d) = Idle
          /\ \A c : c # d => StateIn(to_sim, Tail(to_bluez), waiting', c)
                            = StateIn(to_sim, to_bluez, waiting, c)
      <4>1. \A c : c \in waiting' <=> c \in waiting /\ c # d
        BY <2>1
      <4> QED  BY <1>0, <1>1, <1>3, <2>2, <3>1, <4>1, DeliveringReturns
    <3> QED  BY <1>1, <3>2
  <2>4. /\ ClientState(d).state = "answered"
        /\ ClientState(d)' = Idle
        /\ \A c : c # d => ClientState(c)' = ClientState(c)
    BY <2>3, StateIsStateIn DEF Answered
  <2>5. [c \in Clients |-> ClientState(c)'] =
          [[c \in Clients |-> ClientState(c)] EXCEPT ![d] = Idle]
    BY <2>4
  <2>6. Atomic!Return(d)
    BY <1>1, <2>2, <2>4, <2>5 DEF Atomic!Return, Atomic!Idle, Idle
  <2> QED  BY <2>2, <2>3, <2>6 DEF QueuesMatch
<1> QED  BY <1>2, <1>3

LEMMA ScriptSteps ==
  ASSUME TypeOK, TypeOK', QueuesMatch,
         \/ \E v \in Values : UpdateValue(v)
         \/ \E b \in BOOLEAN : SetNotifying(b)
         \/ MemoryChanges
  PROVE  QueuesMatch' /\ (Atomic!ScriptSets \/ Atomic!ScriptNotifies \/ Atomic!MemoryChanges)
<1>1. ASSUME NEW v \in Values, UpdateValue(v)
      PROVE  QueuesMatch' /\ Atomic!ScriptSets
  <2>1. to_sim' = to_sim /\ waiting' = waiting /\ notifying' = notifying
    BY <1>1 DEF UpdateValue
  <2>2. to_bluez \in Seq(Messages)
    BY DEF TypeOK, Messages
  <2>3. to_bluez' = to_bluez \/ \E m \in Signals : to_bluez' = Append(to_bluez, m)
    BY <1>1, SignalsAreSignals DEF UpdateValue, PropertiesChanged, TypeOK
  <2>4. QueuesMatch' /\ \A c : ClientState(c)' = ClientState(c)
    BY <2>1, <2>2, <2>3, SignalsPass, StateIsStateIn DEF QueuesMatch
  <2> QED  BY <1>1, <2>1, <2>4 DEF UpdateValue, SetValue, Atomic!ScriptSets, Atomic!Store
<1>2. ASSUME NEW b \in BOOLEAN, SetNotifying(b)
      PROVE  QueuesMatch' /\ Atomic!ScriptNotifies
  <2>1. to_sim' = to_sim /\ waiting' = waiting /\ to_bluez' = to_bluez
    BY <1>2 DEF SetNotifying
  <2>2. QueuesMatch' /\ \A c : ClientState(c)' = ClientState(c)
    BY <2>1, StateIsStateIn DEF QueuesMatch
  <2> QED  BY <1>2, <2>2 DEF SetNotifying, Atomic!ScriptNotifies
<1>3. CASE MemoryChanges
  <2>1. to_sim' = to_sim /\ waiting' = waiting /\ to_bluez' = to_bluez
    BY <1>3 DEF MemoryChanges
  <2>2. QueuesMatch' /\ \A c : ClientState(c)' = ClientState(c)
    BY <2>1, StateIsStateIn DEF QueuesMatch
  <2> QED  BY <1>3, <2>2 DEF MemoryChanges, Atomic!MemoryChanges
<1> QED  BY <1>1, <1>2, <1>3

(* The characteristic with its queues takes no step that an atomic         *)
(* register does not take, whatever the number of clients and values: a    *)
(* read returns what was there when it took effect, and nobody is answered *)
(* twice or with the answer of another.                                    *)
THEOREM StepsAreAtomic == Spec => AtomicSafety
<1>1. Init => QueuesMatch /\ Atomic!Init
  <2> SUFFICES ASSUME Init  PROVE QueuesMatch /\ Atomic!Init
    OBVIOUS
  <2>1. DOMAIN to_sim = {} /\ DOMAIN to_bluez = {} /\ waiting = {}
    BY DEF Init
  <2>2. QueuesMatch
    BY <2>1 DEF QueuesMatch, OneEach, AnswersIn
  <2>3. \A c : ClientState(c) = Idle
    BY <2>1 DEF ClientState, Idle
  <2> QED  BY <2>2, <2>3 DEF Init, Atomic!Init, Atomic!Idle, Idle
<1>2. TypeOK /\ TypeOK' /\ QueuesMatch /\ [Next]_vars =>
        QueuesMatch' /\ [Atomic!Next]_(Atomic!vars)
  <2> SUFFICES ASSUME TypeOK, TypeOK', QueuesMatch, [Next]_vars
               PROVE  QueuesMatch' /\ [Atomic!Next]_(Atomic!vars)
    OBVIOUS
  <2>1. CASE HandleCall
    BY <2>1, HandlersPerform DEF Atomic!Next
  <2>2. ASSUME NEW c \in Clients, SendCall(c)
        PROVE  QueuesMatch' /\ [Atomic!Next]_(Atomic!vars)
    BY <2>2, SendingInvokes DEF Atomic!Next
  <2>3. CASE Deliver
    BY <2>3, DeliveryReturns DEF Atomic!Next
  <2>4. CASE \/ \E v \in Values : UpdateValue(v)
             \/ \E b \in BOOLEAN : SetNotifying(b)
             \/ MemoryChanges
    BY <2>4, ScriptSteps DEF Atomic!Next
  <2>5. CASE UNCHANGED vars
    <3>1. \A c : ClientState(c)' = ClientState(c)
      BY <2>5, StateIsStateIn DEF vars
    <3> QED  BY <2>5, <3>1 DEF vars, QueuesMatch, Atomic!vars
  <2> QED  BY <2>1, <2>2, <2>3, <2>4, <2>5 DEF Next
<1> QED  BY <1>1, <1>2, ValueTypeCorrect, PTL DEF Spec, AtomicSafety
=============================================================================
