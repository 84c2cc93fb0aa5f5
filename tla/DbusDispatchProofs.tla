------------------------- MODULE DbusDispatchProofs -------------------------
(* Theorems about DbusDispatch, for any messages.                          *)
EXTENDS DbusDispatch, SequenceTheorems, TLAPS

-----------------------------------------------------------------------------
(* What the handlers return.                                               *)

LEMMA ReturnIsReply ==
  ASSUME NEW m, NEW body \in SUBSET Names
  PROVE  Return(m, body) \in Replies("simulator") \cup {NULL}
BY DEF Return, Replies

LEMMA PropertiesAreNames ==
  ASSUME NEW k \in Kinds
  PROVE  Properties[k] \in SUBSET Names
BY DEF Names

LEMMA PropertiesReplyIsReply ==
  ASSUME NEW m \in Messages, m.member \in {"Get", "Set", "GetAll"}
  PROVE  PropertiesReply(m)[m.member] \in Replies("simulator") \cup {NULL}
<1>1. ObjectGet(m) \in Replies("simulator") \cup {NULL}
  <2>1. Return(m, {}) \in Replies("simulator") \cup {NULL}
    BY ReturnIsReply
  <2> QED  BY <2>1 DEF ObjectGet
<1>2. ObjectSet(m) \in Replies("simulator") \cup {NULL}
  BY DEF ObjectSet
<1>3. ObjectGetAll(m) \in Replies("simulator") \cup {NULL}
  BY MessagesAreWellFormed, PropertiesAreNames, ReturnIsReply DEF ObjectGetAll
<1>4. PropertiesReply(m)[m.member] \in {ObjectGet(m), ObjectSet(m), ObjectGetAll(m)}
  BY DEF PropertiesReply
<1> QED  BY <1>1, <1>2, <1>3, <1>4

LEMMA MembersOfMethods ==
  ASSUME NEW k \in Kinds, NEW i, NEW member, <<i, member>> \in Methods[k]
  PROVE  member \in {"GetManagedObjects", "ReadValue", "WriteValue",
                     "StartNotify", "StopNotify", "Release"}
BY DEF Kinds, Properties, Methods, CharacteristicMethods, AdvertisementMethods

LEMMA MethodReplyIsReply ==
  ASSUME NEW m \in Messages, <<m.interface, m.member>> \in Methods[m.path]
  PROVE  MethodReply(m)[m.member] \in Replies("simulator") \cup {NULL}
<1> DEFINE R == Replies("simulator") \cup {NULL}
<1>1. GetManagedObjects(m) \in R
  <2>1. served \cap GattKinds \in SUBSET Names
    BY DEF Names
  <2> QED  BY <2>1, ReturnIsReply DEF GetManagedObjects
<1>2. Return(m, {"Value"}) \in R
  <2>1. "characteristic" \in Kinds /\ "Value" \in Properties["characteristic"]
    BY DEF Kinds, Properties, CharacteristicProperties
  <2>2. {"Value"} \in SUBSET Names
    BY <2>1 DEF Names
  <2> QED  BY <2>2, ReturnIsReply
<1>3. Return(m, {}) \in R
  BY ReturnIsReply
<1>4. WriteValue(m) \in R
  BY <1>3 DEF WriteValue
<1>5. MethodReply(m)[m.member]
        \in {GetManagedObjects(m), Return(m, {"Value"}), WriteValue(m), Return(m, {}), NULL}
  BY MessagesAreWellFormed, MembersOfMethods DEF MethodReply
<1> QED  BY <1>1, <1>2, <1>3, <1>4, <1>5

(* Whichever way a message takes, a reply of the simulator's own means     *)
(* that it was a call and counts as handled.                               *)
LEMMA DispatchedIsResult ==
  ASSUME NEW m \in Messages
  PROVE  /\ Dispatched(m).handled \in BOOLEAN
         /\ Dispatched(m).reply \in Replies("simulator") \cup {NULL}
         /\ Dispatched(m).reply # NULL => m.type = "call" /\ Dispatched(m).handled
<1> DEFINE Good(r) == /\ r.handled \in BOOLEAN
                      /\ r.reply \in Replies("simulator") \cup {NULL}
                      /\ r.reply # NULL => m.type = "call" /\ r.handled
<1>1. Good(NotYetHandled)
  BY DEF NotYetHandled
<1>2. Good(HandlePropertiesInterface(m))
  <2>1. CASE m.type = "call" /\ m.member \in {"Get", "Set", "GetAll"}
    BY <2>1, PropertiesReplyIsReply DEF HandlePropertiesInterface, Handled
  <2>2. CASE ~(m.type = "call" /\ m.member \in {"Get", "Set", "GetAll"})
    BY <2>2, <1>1 DEF HandlePropertiesInterface
  <2> QED  BY <2>1, <2>2
<1>3. Good(HandleMethodCall(m))
  <2> DEFINE C == /\ m.type = "call"
                  /\ <<m.interface, m.member>> \in Methods[m.path]
                  /\ MethodReply(m)[m.member] # NULL
  <2>1. CASE C
    BY <2>1, MethodReplyIsReply DEF HandleMethodCall, Handled
  <2>2. CASE ~C
    BY <2>2, <1>1 DEF HandleMethodCall
  <2> QED  BY <2>1, <2>2
<1>4. Good(ObjectHandleMessage(m))
  BY <1>2, <1>3 DEF ObjectHandleMessage
<1> QED  BY <1>1, <1>4 DEF Dispatched

(* Nothing is sent back to a signal, and at most one answer to a call.     *)
LEMMA AtMostOneAnswer ==
  ASSUME NEW m \in Messages
  PROVE  \/ SentBack(m) = <<>>
         \/ /\ m.type = "call"
            /\ \E a \in Replies("simulator") \cup Replies("libdbus") : SentBack(m) = <<a>>
<1> DEFINE result == Dispatched(m)
           fallback == [from |-> "libdbus", body |-> {}]
           queued == result.reply # NULL /\ m.memory # "no_queue"
<1>0. fallback \in Replies("libdbus")
  BY DEF Replies
<1>1. CASE ~queued /\ (result.handled \/ m.type # "call")
  BY <1>1 DEF SentBack
<1>2. CASE ~queued /\ ~(result.handled \/ m.type # "call")
  <2>1. SentBack(m) = Append(<<>>, fallback)
    BY <1>2 DEF SentBack
  <2>2. Append(<<>>, fallback) = <<fallback>>
    OBVIOUS
  <2> QED  BY <1>2, <2>1, <2>2, <1>0
<1>3. CASE queued
  BY <1>3, DispatchedIsResult DEF SentBack
<1> QED  BY <1>1, <1>2, <1>3

(* A call that nobody answers, though its answer could be queued.          *)
LEMMA NoAnswerIsExpected ==
  ASSUME NEW m \in Messages, m.type = "call", SentBack(m) = <<>>,
         m.memory # "no_queue"
  PROVE  /\ m.interface = "Properties"
         /\ \/ m.member = "Set"
            \/ m.member = "Get" /\ m.argument = NULL
            \/ m.member \in {"Get", "GetAll"} /\ m.memory = "no_reply"
<1>1. Dispatched(m).handled /\ Dispatched(m).reply = NULL
  BY DispatchedIsResult DEF SentBack
<1>2. ~NotYetHandled.handled
  BY DEF NotYetHandled
<1>3. Dispatched(m) = ObjectHandleMessage(m)
  BY <1>1, <1>2 DEF Dispatched
<1>4. m.interface = "Properties"
  <2>1. ~(HandleMethodCall(m).handled /\ HandleMethodCall(m).reply = NULL)
    BY <1>2 DEF HandleMethodCall, Handled
  <2> QED  BY <1>1, <1>3, <2>1 DEF ObjectHandleMessage
<1>5. m.member \in {"Get", "Set", "GetAll"} /\ PropertiesReply(m)[m.member] = NULL
  BY <1>1, <1>2, <1>3, <1>4 DEF ObjectHandleMessage, HandlePropertiesInterface, Handled
<1>6. ASSUME NEW body \in SUBSET Names, Return(m, body) = NULL
      PROVE  m.memory = "no_reply"
  BY <1>6, NullIsNoReply DEF Return, Replies
<1>7. CASE m.member = "Get"
  <2>1. ObjectGet(m) = NULL
    BY <1>5, <1>7 DEF PropertiesReply
  <2> QED  BY <2>1, <1>4, <1>6, <1>7 DEF ObjectGet
<1>8. CASE m.member = "GetAll"
  <2>1. ObjectGetAll(m) = NULL
    BY <1>5, <1>8 DEF PropertiesReply
  <2> QED  BY <2>1, <1>4, <1>6, <1>8, PropertiesAreNames, MessagesAreWellFormed
           DEF ObjectGetAll
<1> QED  BY <1>4, <1>5, <1>7, <1>8

-----------------------------------------------------------------------------
(* The steps.                                                              *)

Answer == [to : Nat, from : {"simulator", "libdbus"}, body : SUBSET Names]

(* HandleMessage adds one answer to the wire or none.                      *)
LEMMA HandleMessageAnswersOnce ==
  ASSUME DispatchTypeOK, HandleMessage
  PROVE  /\ taken + 1 \in DOMAIN sent
         /\ Current \in Messages
         /\ taken' = taken + 1
         /\ \/ SentBack(Current) = <<>> /\ wire' = wire
            \/ /\ Current.type = "call"
               /\ \E a \in Answer :
                    /\ a.to = taken + 1 /\ wire' = Append(wire, a)
                    /\ SentBack(Current) = <<[from |-> a.from, body |-> a.body]>>
<1>1. taken + 1 \in DOMAIN sent /\ Current \in Messages /\ taken \in Nat
  BY DEF DispatchTypeOK, HandleMessage, Pending, Current
<1>2. wire \in Seq(Answer)
  BY DEF DispatchTypeOK, Answer
<1>3. wire' = wire \o Addressed(taken + 1, SentBack(Current)) /\ taken' = taken + 1
  BY DEF HandleMessage
<1>4. CASE SentBack(Current) = <<>>
  <2>1. Addressed(taken + 1, SentBack(Current)) = <<>>
    BY <1>4 DEF Addressed
  <2> QED  BY <1>1, <1>2, <1>3, <1>4, <2>1
<1>5. ASSUME Current.type = "call",
             NEW r \in Replies("simulator") \cup Replies("libdbus"),
             SentBack(Current) = <<r>>
      PROVE  \E a \in Answer :
               /\ a.to = taken + 1 /\ wire' = Append(wire, a)
               /\ SentBack(Current) = <<[from |-> a.from, body |-> a.body]>>
  <2> DEFINE a == [to |-> taken + 1, from |-> r.from, body |-> r.body]
  <2>1. a \in Answer
    BY <1>1 DEF Answer, Replies
  <2>2. Addressed(taken + 1, SentBack(Current)) = <<a>>
    BY <1>5 DEF Addressed
  <2>3. wire' = Append(wire, a)
    BY <1>2, <1>3, <2>1, <2>2, AppendIsConcat
  <2>4. r = [from |-> a.from, body |-> a.body]
    BY DEF Replies
  <2> QED  BY <1>5, <2>1, <2>3, <2>4
<1> QED  BY <1>1, <1>3, <1>4, <1>5, AtMostOneAnswer

LEMMA DispatchTypeInit ==
  DispatchInit => DispatchTypeOK /\ AnswersInOrder /\ UnansweredAreExpected
BY DEF DispatchInit, DispatchTypeOK, AnswersInOrder, UnansweredAreExpected

LEMMA DispatchTypeStep ==
  ASSUME DispatchTypeOK, [DispatchNext]_dispatchVars
  PROVE  DispatchTypeOK'
<1>1. wire \in Seq(Answer) /\ (wire' \in Seq(Answer) <=>
        wire' \in Seq([to : Nat, from : {"simulator", "libdbus"}, body : SUBSET Names]))
  BY DEF DispatchTypeOK, Answer
<1>2. CASE Connect
  BY <1>2 DEF DispatchTypeOK, Connect
<1>3. ASSUME NEW S \in SUBSET Kinds, RegisterObjects(S)
      PROVE  DispatchTypeOK'
  BY <1>3 DEF DispatchTypeOK, RegisterObjects
<1>4. ASSUME NEW m \in Messages, Send(m)
      PROVE  DispatchTypeOK'
  BY <1>4 DEF DispatchTypeOK, Send
<1>5. CASE HandleMessage
  <2>1. UNCHANGED <<link, sent, served>>
    BY <1>5 DEF HandleMessage
  <2>2. wire' \in Seq(Answer)
    BY <1>1, <1>5, HandleMessageAnswersOnce
  <2>3. taken' \in 0 .. Len(sent)
    BY <1>5, HandleMessageAnswersOnce DEF DispatchTypeOK
  <2> QED  BY <1>1, <2>1, <2>2, <2>3 DEF DispatchTypeOK
<1>6. CASE CrashOnMessage \/ Close
  BY <1>6 DEF DispatchTypeOK, CrashOnMessage, Close
<1>7. CASE UNCHANGED dispatchVars
  BY <1>7 DEF DispatchTypeOK, dispatchVars
<1> QED  BY <1>2, <1>3, <1>4, <1>5, <1>6, <1>7 DEF DispatchNext

LEMMA OrderStep ==
  ASSUME DispatchTypeOK, AnswersInOrder, [DispatchNext]_dispatchVars
  PROVE  AnswersInOrder'
<1>0. wire \in Seq(Answer) /\ sent \in Seq(Messages) /\ taken \in 0 .. Len(sent)
  BY DEF DispatchTypeOK, Answer
<1>1. CASE UNCHANGED <<sent, taken, wire>>
  BY <1>1 DEF AnswersInOrder
<1>2. ASSUME NEW m \in Messages, Send(m)
      PROVE  AnswersInOrder'
  <2>1. UNCHANGED <<taken, wire>>
    BY <1>2 DEF Send
  <2>2. \A i \in 1 .. taken : sent'[i] = sent[i]
    BY <1>0, <1>2 DEF Send
  <2> QED  BY <2>1, <2>2 DEF AnswersInOrder
<1>3. CASE HandleMessage
  <2>1. sent' = sent /\ taken' = taken + 1 /\ taken \in Nat
    BY <1>0, <1>3 DEF HandleMessage
  <2>2. CASE wire' = wire
    BY <1>0, <2>1, <2>2 DEF AnswersInOrder
  <2>3. ASSUME Current.type = "call", NEW a \in Answer,
               a.to = taken + 1, wire' = Append(wire, a)
        PROVE  AnswersInOrder'
    <3>1. /\ DOMAIN wire' = 1 .. Len(wire) + 1
          /\ \A w \in DOMAIN wire : wire'[w] = wire[w]
          /\ wire'[Len(wire) + 1] = a
          /\ DOMAIN wire = 1 .. Len(wire) /\ Len(wire) \in Nat
      BY <1>0, <2>3
    <3>2. \A w \in DOMAIN wire : wire[w].to \in 1 .. taken
      BY DEF AnswersInOrder
    <3>3. \A v, w \in DOMAIN wire' : v < w => wire'[v].to < wire'[w].to
      BY <2>1, <2>3, <3>1, <3>2 DEF AnswersInOrder
    <3>4. \A w \in DOMAIN wire' :
            wire'[w].to \in 1 .. taken' /\ sent'[wire'[w].to].type = "call"
      BY <2>1, <2>3, <3>1, <3>2 DEF AnswersInOrder, Current
    <3> QED  BY <3>3, <3>4 DEF AnswersInOrder
  <2> QED  BY <1>3, <2>2, <2>3, HandleMessageAnswersOnce
<1> QED
  BY <1>1, <1>2, <1>3
  DEF DispatchNext, Connect, RegisterObjects, CrashOnMessage, Close, dispatchVars

LEMMA ExpectationStep ==
  ASSUME DispatchTypeOK, UnansweredAreExpected, [DispatchNext]_dispatchVars
  PROVE  UnansweredAreExpected'
<1>0. wire \in Seq(Answer) /\ sent \in Seq(Messages) /\ taken \in 0 .. Len(sent)
  BY DEF DispatchTypeOK, Answer
<1>1. CASE UNCHANGED <<sent, taken, wire>>
  BY <1>1 DEF UnansweredAreExpected, IsAnswered
<1>2. ASSUME NEW m \in Messages, Send(m)
      PROVE  UnansweredAreExpected'
  <2>1. UNCHANGED <<taken, wire>>
    BY <1>2 DEF Send
  <2>2. \A i \in 1 .. taken : sent'[i] = sent[i]
    BY <1>0, <1>2 DEF Send
  <2> QED  BY <2>1, <2>2 DEF UnansweredAreExpected, IsAnswered
<1>3. CASE HandleMessage
  <2>1. sent' = sent /\ taken' = taken + 1 /\ taken \in Nat
    BY <1>0, <1>3 DEF HandleMessage
  <2>2. \A i : IsAnswered(i) => IsAnswered(i)'
    <3>1. CASE wire' = wire
      BY <3>1 DEF IsAnswered
    <3>2. ASSUME NEW a \in Answer, wire' = Append(wire, a)
          PROVE  \A i : IsAnswered(i) => IsAnswered(i)'
      <4>1. \A w \in DOMAIN wire : w \in DOMAIN wire' /\ wire'[w] = wire[w]
        BY <1>0, <3>2
      <4> QED  BY <4>1 DEF IsAnswered
    <3> QED  BY <1>3, <3>1, <3>2, HandleMessageAnswersOnce
  <2>3. SUFFICES ASSUME NEW i \in 1 .. taken', sent'[i].type = "call", ~IsAnswered(i)',
                        sent'[i].memory # "no_queue"
                 PROVE  /\ sent'[i].interface = "Properties"
                        /\ \/ sent'[i].member = "Set"
                           \/ sent'[i].member = "Get" /\ sent'[i].argument = NULL
                           \/ /\ sent'[i].member \in {"Get", "GetAll"}
                              /\ sent'[i].memory = "no_reply"
    BY DEF UnansweredAreExpected
  <2>4. CASE i \in 1 .. taken
    BY <2>1, <2>2, <2>3, <2>4 DEF UnansweredAreExpected
  <2>5. CASE i = taken + 1
    <3>1. sent'[i] = Current /\ Current \in Messages
      BY <1>3, <2>1, <2>5, HandleMessageAnswersOnce DEF Current
    <3>2. ASSUME NEW a \in Answer, a.to = taken + 1, wire' = Append(wire, a)
          PROVE  FALSE
      <4>1. Len(wire) + 1 \in DOMAIN wire' /\ wire'[Len(wire) + 1] = a
        BY <1>0, <3>2
      <4> QED  BY <2>3, <2>5, <3>2, <4>1 DEF IsAnswered
    <3>3. SentBack(Current) = <<>>
      BY <1>3, <3>2, HandleMessageAnswersOnce
    <3> QED  BY <2>3, <3>1, <3>3, NoAnswerIsExpected
  <2> QED  BY <2>1, <2>3, <2>4, <2>5
<1> QED
  BY <1>1, <1>2, <1>3
  DEF DispatchNext, Connect, RegisterObjects, CrashOnMessage, Close, dispatchVars

-----------------------------------------------------------------------------
(* Whatever is sent and whichever objects are registered in between,       *)
(* calls are answered in their order, each at most once.                   *)
THEOREM AnswersAreInOrder == DispatchSpec => [](DispatchTypeOK /\ AnswersInOrder)
<1>1. DispatchInit => DispatchTypeOK /\ AnswersInOrder
  BY DispatchTypeInit
<1>2. DispatchTypeOK /\ AnswersInOrder /\ [DispatchNext]_dispatchVars
        => (DispatchTypeOK /\ AnswersInOrder)'
  BY DispatchTypeStep, OrderStep
<1> QED  BY <1>1, <1>2, PTL DEF DispatchSpec

(* And the callers left without an answer are those of the Properties      *)
(* interface, and those whose answer found no place in the queue.          *)
THEOREM OnlyExpectedAreUnanswered == DispatchSpec => []UnansweredAreExpected
<1>1. DispatchInit => DispatchTypeOK /\ UnansweredAreExpected
  BY DispatchTypeInit
<1>2. DispatchTypeOK /\ UnansweredAreExpected /\ [DispatchNext]_dispatchVars
        => (DispatchTypeOK /\ UnansweredAreExpected)'
  BY DispatchTypeStep, ExpectationStep
<1> QED  BY <1>1, <1>2, PTL DEF DispatchSpec

-----------------------------------------------------------------------------
(* What the answers say.                                                   *)

(* An answer of the simulator's own to m: the object it was sent to was    *)
(* served; a Set has none, that of a Get is empty and a GetAll names every *)
(* property of the object; a method's answer names at most the value and   *)
(* objects that are served.                                                *)
MayAnswer(m, body) ==
  /\ m.path \in served
  /\ IF m.interface = "Properties"
     THEN \/ m.member = "Get" /\ body = {}
          \/ m.member = "GetAll" /\ body = Properties[m.path]
     ELSE /\ <<m.interface, m.member>> \in Methods[m.path]
          /\ body \subseteq (served \cap GattKinds) \cup {"Value"}

AnswersSayTheirPart ==
  \A w \in DOMAIN wire :
    wire[w].from = "simulator" => MayAnswer(sent[wire[w].to], wire[w].body)

LEMMA OwnReplyMayAnswer ==
  ASSUME NEW m \in Messages, NEW a, SentBack(m) = <<a>>, a.from = "simulator"
  PROVE  MayAnswer(m, a.body)
<1>1. a = Dispatched(m).reply /\ a # NULL
  <2>1. CASE Dispatched(m).reply = NULL \/ m.memory = "no_queue"
    <3> DEFINE fallback == [from |-> "libdbus", body |-> {}]
    <3>1. SentBack(m) = <<>> \/ SentBack(m) = Append(<<>>, fallback)
      BY <2>1 DEF SentBack
    <3>2. Append(<<>>, fallback) = <<fallback>>
      OBVIOUS
    <3> QED  BY <3>1, <3>2
  <2>2. CASE Dispatched(m).reply # NULL /\ m.memory # "no_queue"
    <3>1. SentBack(m) = <<Dispatched(m).reply>>
      BY <2>2, DispatchedIsResult DEF SentBack
    <3> QED  BY <2>2, <3>1
  <2> QED  BY <2>1, <2>2
<1>2. Dispatched(m) # NotYetHandled
  BY <1>1 DEF NotYetHandled
<1>3. m.path \in served /\ Dispatched(m) = ObjectHandleMessage(m)
  BY <1>2 DEF Dispatched
<1>4. ASSUME NEW body, a = Return(m, body)
      PROVE  a.body = body
  BY <1>1, <1>4 DEF Return
<1>5. CASE m.interface = "Properties"
  <2>1. Dispatched(m) = HandlePropertiesInterface(m)
    BY <1>3, <1>5 DEF ObjectHandleMessage
  <2>2. m.member \in {"Get", "Set", "GetAll"} /\ a = PropertiesReply(m)[m.member]
    BY <1>1, <1>2, <2>1 DEF HandlePropertiesInterface, Handled
  <2>3. CASE m.member = "Get"
    <3>1. a = Return(m, {})
      BY <1>1, <2>2, <2>3 DEF PropertiesReply, ObjectGet
    <3> QED  BY <1>3, <1>4, <1>5, <2>3, <3>1 DEF MayAnswer
  <2>4. CASE m.member = "GetAll"
    <3>1. a = Return(m, Properties[m.path])
      BY <2>2, <2>4 DEF PropertiesReply, ObjectGetAll
    <3> QED  BY <1>3, <1>4, <1>5, <2>4, <3>1 DEF MayAnswer
  <2>5. m.member # "Set"
    BY <1>1, <2>2 DEF PropertiesReply, ObjectSet
  <2> QED  BY <2>2, <2>3, <2>4, <2>5
<1>6. CASE m.interface # "Properties"
  <2>1. Dispatched(m) = HandleMethodCall(m)
    BY <1>3, <1>6 DEF ObjectHandleMessage
  <2>2. <<m.interface, m.member>> \in Methods[m.path] /\ a = MethodReply(m)[m.member]
    BY <1>1, <1>2, <2>1 DEF HandleMethodCall, Handled
  <2>3. a \in {GetManagedObjects(m), Return(m, {"Value"}), WriteValue(m), Return(m, {}), NULL}
    BY <2>2, MessagesAreWellFormed, MembersOfMethods DEF MethodReply
  <2>4. \E body \in SUBSET ((served \cap GattKinds) \cup {"Value"}) : a = Return(m, body)
    BY <1>1, <2>3 DEF GetManagedObjects, WriteValue
  <2> QED  BY <1>3, <1>4, <1>6, <2>2, <2>4 DEF MayAnswer
<1> QED  BY <1>5, <1>6

(* A message's answer stays right when more objects are registered.        *)
LEMMA SayStep ==
  ASSUME DispatchTypeOK, AnswersInOrder, AnswersSayTheirPart,
         [DispatchNext]_dispatchVars
  PROVE  AnswersSayTheirPart'
<1>0. wire \in Seq(Answer) /\ sent \in Seq(Messages) /\ taken \in 0 .. Len(sent)
  BY DEF DispatchTypeOK, Answer
<1>1. served \subseteq served'
  BY DEF DispatchNext, Connect, RegisterObjects, Send, HandleMessage, CrashOnMessage, Close,
     dispatchVars
<1>2. ASSUME NEW m, NEW body, MayAnswer(m, body)
      PROVE  MayAnswer(m, body)'
  BY <1>1, <1>2 DEF MayAnswer
<1>3. \A w \in DOMAIN wire : sent'[wire[w].to] = sent[wire[w].to]
  <2>1. \A i \in 1 .. taken : sent'[i] = sent[i]
    <3>1. ASSUME NEW m \in Messages, Send(m)
          PROVE  \A i \in 1 .. taken : sent'[i] = sent[i]
      BY <1>0, <3>1 DEF Send
    <3> QED
      BY <3>1 DEF DispatchNext, Connect, RegisterObjects, HandleMessage, CrashOnMessage, Close,
         dispatchVars
  <2> QED  BY <2>1 DEF AnswersInOrder
<1>4. CASE wire' = wire
  BY <1>2, <1>3, <1>4 DEF AnswersSayTheirPart
<1>5. ASSUME HandleMessage, NEW a \in Answer, a.to = taken + 1, wire' = Append(wire, a),
             SentBack(Current) = <<[from |-> a.from, body |-> a.body]>>
      PROVE  AnswersSayTheirPart'
  <2>1. /\ \A w \in DOMAIN wire' : w \in DOMAIN wire \/ w = Len(wire) + 1
        /\ \A w \in DOMAIN wire : wire'[w] = wire[w]
        /\ wire'[Len(wire) + 1] = a
    BY <1>0, <1>5
  <2>2. PICK m \in Messages : m = Current /\ sent'[a.to] = m
    BY <1>5, HandleMessageAnswersOnce DEF HandleMessage, Current
  <2>3. a.from = "simulator" => MayAnswer(m, a.body)
    BY <1>5, <2>2, OwnReplyMayAnswer
  <2>4. a.from = "simulator" => MayAnswer(m, a.body)'
    BY <1>2, <2>3
  <2> SUFFICES ASSUME NEW w \in DOMAIN wire', wire'[w].from = "simulator"
               PROVE  MayAnswer(sent[wire[w].to], wire[w].body)'
    BY DEF AnswersSayTheirPart
  <2>5. CASE w \in DOMAIN wire
    BY <1>1, <1>3, <2>1, <2>5 DEF AnswersSayTheirPart, MayAnswer
  <2>6. CASE w = Len(wire) + 1
    BY <2>1, <2>2, <2>4, <2>6 DEF MayAnswer
  <2> QED  BY <2>1, <2>5, <2>6
<1>6. CASE HandleMessage
  BY <1>4, <1>5, <1>6, HandleMessageAnswersOnce
<1> QED
  BY <1>4, <1>6
  DEF DispatchNext, Connect, RegisterObjects, Send, CrashOnMessage, Close, dispatchVars

(* No Get returns a property, to anybody and at any time: what the run     *)
(* get_property shows of one Get holds of all.                             *)
THEOREM NoGetReturnsAProperty == DispatchSpec => []AnswersSayTheirPart
<1>1. DispatchInit => AnswersSayTheirPart
  BY DEF DispatchInit, AnswersSayTheirPart
<1>2. DispatchTypeOK /\ AnswersInOrder /\ AnswersSayTheirPart /\ [DispatchNext]_dispatchVars
        => AnswersSayTheirPart'
  BY SayStep
<1> QED  BY <1>1, <1>2, AnswersAreInOrder, PTL DEF DispatchSpec

-----------------------------------------------------------------------------
(* The steps, as the callers see them.                                     *)

SentFits == Len(sent) <= MaxMessages

LEMMA FitsInit == DispatchInit => SentFits
BY MaxMessagesIsNatural DEF DispatchInit, SentFits

LEMMA FitsStep ==
  ASSUME DispatchTypeOK, SentFits, [DispatchNext]_dispatchVars
  PROVE  SentFits'
<1>1. ASSUME NEW m \in Messages, Send(m)
      PROVE  SentFits'
  <2>1. Len(sent') = Len(sent) + 1 /\ Len(sent) \in Nat
    BY <1>1 DEF Send, DispatchTypeOK
  <2> QED  BY <1>1, <2>1, MaxMessagesIsNatural DEF Send, SentFits
<1>2. CASE UNCHANGED sent
  BY <1>2 DEF SentFits
<1> QED
  BY <1>1, <1>2
  DEF DispatchNext, Connect, RegisterObjects, HandleMessage, CrashOnMessage, Close,
      dispatchVars

LEMMA CallStatusInit ==
  DispatchInit => Callers!Init
BY DEF DispatchInit, Callers!Init, CallStatus, MessageStatus

LEMMA SameStatus ==
  ASSUME \A i \in Serials : MessageStatus(i)' = MessageStatus(i)
  PROVE  CallStatus' = CallStatus
BY DEF CallStatus, Serials

LEMMA OneStatusChanges ==
  ASSUME NEW i \in Serials,
         \A j \in Serials \ {i} : MessageStatus(j)' = MessageStatus(j)
  PROVE  CallStatus' = [CallStatus EXCEPT ![i] = MessageStatus(i)']
BY DEF CallStatus, Serials

LEMMA SendIsSend ==
  ASSUME DispatchTypeOK, AnswersInOrder, NEW m \in Messages, Send(m)
  PROVE  Callers!Next
<1>0. /\ sent \in Seq(Messages) /\ taken \in 0 .. Len(sent)
      /\ link = "open" /\ UNCHANGED <<link, taken, wire>>
  BY DEF DispatchTypeOK, Send
<1>i. PICK i \in Nat : i = Len(sent) + 1
  BY <1>0
<1>1. /\ Len(sent) \in Nat /\ DOMAIN sent = 1 .. Len(sent) /\ DOMAIN sent' = 1 .. i
      /\ \A j \in DOMAIN sent : sent'[j] = sent[j]
      /\ sent'[i] = m
  BY <1>0, <1>i DEF Send
<1>2. i \in Serials
  BY <1>1, <1>i, MaxMessagesIsNatural DEF Send, Serials
<1>3. \A j : IsAnswered(j)' <=> IsAnswered(j)
  BY <1>0 DEF IsAnswered
<1>4. ~IsAnswered(i)
  BY <1>0, <1>1, <1>i DEF IsAnswered, AnswersInOrder
<1>5. MessageStatus(i) = "unsent"
  BY <1>1, <1>i DEF MessageStatus
<1>6. MessageStatus(i)' \in {"signal", "waiting"}
  BY <1>0, <1>1, <1>3, <1>4, <1>i DEF MessageStatus
<1>7. \A j \in Serials \ {i} : MessageStatus(j)' = MessageStatus(j)
  BY <1>0, <1>1, <1>3, <1>i DEF MessageStatus, Serials
<1>8. CallStatus[i] = "unsent"
  BY <1>2, <1>5 DEF CallStatus
<1>9. CallStatus' = [CallStatus EXCEPT ![i] = MessageStatus(i)']
  BY <1>2, <1>7, OneStatusChanges
<1>10. Callers!Send(i)
  BY <1>6, <1>8, <1>9 DEF Callers!Send
<1> QED  BY <1>2, <1>10 DEF Callers!Next

LEMMA HandleIsSettle ==
  ASSUME DispatchTypeOK, AnswersInOrder, SentFits, HandleMessage
  PROVE  Callers!Next \/ UNCHANGED CallStatus
<1>i. PICK i \in Nat : i = taken + 1
  BY DEF DispatchTypeOK
<1>0. /\ sent \in Seq(Messages) /\ taken \in 0 .. Len(sent) /\ wire \in Seq(Answer)
      /\ link = "open" /\ UNCHANGED <<link, sent>> /\ taken' = i /\ taken = i - 1
  BY <1>i DEF DispatchTypeOK, HandleMessage, Pending, Answer
<1>1. i \in DOMAIN sent /\ Current = sent[i] /\ DOMAIN sent = 1 .. Len(sent)
  BY <1>0, <1>i, HandleMessageAnswersOnce DEF Current
<1>2. i \in Serials
  BY <1>0, <1>1, MaxMessagesIsNatural DEF SentFits, Serials
<1>3. \A j : j # i => (IsAnswered(j)' <=> IsAnswered(j))
  <2>1. CASE wire' = wire
    BY <2>1 DEF IsAnswered
  <2>2. ASSUME NEW a \in Answer, a.to = i, wire' = Append(wire, a)
        PROVE  \A j : j # i => (IsAnswered(j)' <=> IsAnswered(j))
    <3>1. /\ DOMAIN wire' = DOMAIN wire \cup {Len(wire) + 1}
          /\ \A w \in DOMAIN wire : wire'[w] = wire[w]
          /\ wire'[Len(wire) + 1] = a
      BY <1>0, <2>2
    <3> QED  BY <2>2, <3>1 DEF IsAnswered
  <2> QED  BY <1>i, <2>1, <2>2, HandleMessageAnswersOnce
<1>4. ~IsAnswered(i)
  BY <1>0 DEF IsAnswered, AnswersInOrder
<1>5. \A j \in Serials \ {i} : MessageStatus(j)' = MessageStatus(j)
  BY <1>0, <1>3 DEF MessageStatus, Serials
<1>6. CASE sent[i].type # "call"
  <2>1. MessageStatus(i)' = MessageStatus(i)
    BY <1>0, <1>1, <1>6 DEF MessageStatus
  <2> QED  BY <1>5, <2>1, SameStatus
<1>7. CASE sent[i].type = "call"
  <2>1. MessageStatus(i) = "waiting"
    BY <1>0, <1>1, <1>4, <1>7 DEF MessageStatus
  <2>2. MessageStatus(i)' \in {"answered", "dropped"}
    BY <1>0, <1>1, <1>7 DEF MessageStatus
  <2>3. \A j \in Serials : MessageStatus(j) = "waiting" => i <= j
    BY <1>0 DEF MessageStatus, Serials
  <2>4. i \in Callers!Unsettled /\ \A j \in Callers!Unsettled : i <= j
    BY <1>2, <2>1, <2>3 DEF Callers!Unsettled, CallStatus
  <2>5. CallStatus' = [CallStatus EXCEPT ![i] = MessageStatus(i)']
    BY <1>2, <1>5, OneStatusChanges
  <2>6. Callers!Settle(i)
    BY <2>2, <2>4, <2>5 DEF Callers!Settle
  <2> QED  BY <1>2, <2>6 DEF Callers!Next
<1> QED  BY <1>6, <1>7

LEMMA CloseIsEnd ==
  ASSUME Close
  PROVE  Callers!Next \/ UNCHANGED CallStatus
<1>0. link # "closed" /\ link' = "closed" /\ UNCHANGED <<sent, taken, wire>>
  BY DEF Close
<1>1. \A i \in Serials : MessageStatus(i)' =
        IF MessageStatus(i) = "waiting" THEN "dropped" ELSE MessageStatus(i)
  BY <1>0 DEF MessageStatus, IsAnswered
<1>2. CASE \A i \in Serials : MessageStatus(i) # "waiting"
  BY <1>1, <1>2, SameStatus
<1>3. CASE \E i \in Serials : MessageStatus(i) = "waiting"
  <2>1. \A i \in Serials : i \in Callers!Unsettled <=> MessageStatus(i) = "waiting"
    BY DEF Callers!Unsettled, CallStatus
  <2>2. Callers!Unsettled # {}
    BY <1>3, <2>1
  <2>3. CallStatus' =
          [i \in Serials |-> IF i \in Callers!Unsettled THEN "dropped" ELSE CallStatus[i]]
    BY <1>1, <2>1 DEF CallStatus, Serials
  <2> QED  BY <2>2, <2>3 DEF Callers!Next, Callers!End
<1> QED  BY <1>2, <1>3

LEMMA CallReplyStep ==
  ASSUME DispatchTypeOK, AnswersInOrder, SentFits, [DispatchNext]_dispatchVars
  PROVE  [Callers!Next]_CallStatus
<1>1. CASE UNCHANGED <<sent, taken, wire>> /\ (link' = "closed" <=> link = "closed")
  BY <1>1, SameStatus DEF MessageStatus, IsAnswered
<1>2. CASE Connect \/ \E S \in SUBSET Kinds : RegisterObjects(S)
  BY <1>1, <1>2 DEF Connect, RegisterObjects
<1>3. CASE UNCHANGED dispatchVars
  BY <1>1, <1>3 DEF dispatchVars
<1> QED
  BY <1>2, <1>3, SendIsSend, HandleIsSettle, CloseIsEnd DEF DispatchNext, CrashOnMessage

(* For any number of messages: a call is settled once and for good, in its *)
(* turn; the safety half of IsCallReply.                                   *)
THEOREM CallsAreSettledInTurn == DispatchSpec => Callers!Init /\ [][Callers!Next]_CallStatus
<1> DEFINE Inv == DispatchTypeOK /\ AnswersInOrder /\ SentFits
<1>1. DispatchInit => Inv
  BY DispatchTypeInit, FitsInit
<1>2. Inv /\ [DispatchNext]_dispatchVars => Inv'
  BY DispatchTypeStep, OrderStep, FitsStep
<1>3. Inv /\ [DispatchNext]_dispatchVars => [Callers!Next]_CallStatus
  BY CallReplyStep
<1> QED  BY <1>1, <1>2, <1>3, CallStatusInit, PTL DEF DispatchSpec
=============================================================================
