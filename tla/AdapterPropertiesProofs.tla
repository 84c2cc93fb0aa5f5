----------------------- MODULE AdapterPropertiesProofs -----------------------
(* The inductive invariant of AdapterProperties, for any settings and any  *)
(* number of requests under way.  SimulatorProofs uses it for the program. *)
EXTENDS AdapterProperties, SequenceTheorems, TLAPS

(* What a step does to the ends of a queue.                                *)
LEMMA Appended ==
  ASSUME NEW S, NEW q \in Seq(S), NEW e \in S
  PROVE  /\ Append(q, e) \in Seq(S) /\ Append(q, e) # <<>>
         /\ Len(Append(q, e)) \in Nat
         /\ Append(q, e)[Len(Append(q, e))] = e
OBVIOUS

LEMMA Removed ==
  ASSUME NEW S, NEW q \in Seq(S), q # <<>>
  PROVE  /\ Head(q) \in S /\ Tail(q) \in Seq(S)
         /\ Tail(q) # <<>> => Tail(q)[Len(Tail(q))] = q[Len(q)]
         /\ Tail(q) = <<>> => Head(q) = q[Len(q)]
<1>1. Len(q) \in Nat \ {0} /\ Head(q) = q[1] /\ Len(Tail(q)) = Len(q) - 1
  OBVIOUS
<1>2. Head(q) \in S /\ Tail(q) \in Seq(S)
  OBVIOUS
<1>3. \A i \in 1 .. Len(q) - 1 : Tail(q)[i] = q[i + 1]
  OBVIOUS
<1>4. Tail(q) # <<>> => Tail(q)[Len(Tail(q))] = q[Len(q)]
  <2>1. Tail(q) # <<>> => Len(q) - 1 \in 1 .. Len(q) - 1
    BY <1>1, <1>2
  <2>2. Tail(q) # <<>> => Tail(q)[Len(q) - 1] = q[Len(q) - 1 + 1]
    BY <1>3, <2>1
  <2>3. Len(q) - 1 + 1 = Len(q)
    BY <1>1
  <2> QED  BY <1>1, <2>2, <2>3
<1>5. ASSUME Tail(q) = <<>>
      PROVE  Len(q) = 1
  <2>1. PICK n \in Nat : n = Len(q)
    BY <1>1
  <2>2. PICK t \in Nat : t = Len(Tail(q)) /\ t = 0
    BY <1>5, EmptySeq
  <2>3. t = n - 1
    BY <1>1, <2>1, <2>2, Zenon
  <2> QED  BY <2>1, <2>2, <2>3
<1> QED  BY <1>1, <1>2, <1>4, <1>5

LEMMA AdapterInvInit == AdapterInit => AdapterInv
<1> SUFFICES ASSUME AdapterInit PROVE AdapterInv
  OBVIOUS
<1>1. AdapterTypeOK
  BY DEF AdapterInit, AdapterTypeOK
<1> QED  BY <1>1 DEF AdapterInit, AdapterInv, SuccessIsCurrent, blocked

LEMMA SetPropertyInv ==
  ASSUME AdapterInv, NEW s \in Settings, NEW v \in BOOLEAN, SetProperty(s, v)
  PROVE  AdapterInv'
<1> DEFINE r == [setting |-> s, value |-> v]
<1>1. r \in Requests /\ r # NoReply
  BY NoReplyIsNoRequest DEF Requests
<1>2. /\ requests' = Append(requests, r) /\ awaited' = r /\ result' = NoReply
      /\ UNCHANGED <<replies, adapter>> /\ requests \in Seq(Requests)
  BY DEF SetProperty, AdapterInv, AdapterTypeOK
<1>3. /\ requests' \in Seq(Requests) /\ requests' # <<>>
      /\ requests'[Len(requests')] = r
  BY <1>1, <1>2, Appended
<1>4. AdapterTypeOK'
  BY <1>1, <1>2, <1>3 DEF AdapterInv, AdapterTypeOK
<1> QED  BY <1>2, <1>3, <1>4 DEF AdapterInv, SuccessIsCurrent

LEMMA BluezExecutesInv ==
  ASSUME AdapterInv, BluezExecutes
  PROVE  AdapterInv'
<1> DEFINE r == Head(requests)
<1>1. PICK done \in BOOLEAN :
        /\ replies' = Append(replies, done)
        /\ adapter' = IF done THEN [adapter EXCEPT ![r.setting] = r.value] ELSE adapter
  BY DEF BluezExecutes
<1>2. /\ requests # <<>> /\ requests' = Tail(requests)
      /\ UNCHANGED <<awaited, result>>
      /\ requests \in Seq(Requests) /\ replies \in Seq(BOOLEAN)
      /\ adapter \in [Settings -> BOOLEAN]
  BY DEF BluezExecutes, AdapterInv, AdapterTypeOK
<1>3. /\ r \in Requests /\ requests' \in Seq(Requests)
      /\ requests' # <<>> => requests'[Len(requests')] = requests[Len(requests)]
      /\ requests' = <<>> => r = requests[Len(requests)]
  BY <1>2, Removed
<1>4. replies' \in Seq(BOOLEAN) /\ replies'[Len(replies')] = done
  BY <1>1, <1>2, Appended
<1>5. adapter' \in [Settings -> BOOLEAN] /\ (done => adapter'[r.setting] = r.value)
  BY <1>1, <1>2, <1>3 DEF Requests
<1>6. result' = NoReply
  BY <1>2 DEF AdapterInv
<1>7. AdapterTypeOK'
  BY <1>2, <1>3, <1>4, <1>5 DEF AdapterInv, AdapterTypeOK
<1>8. blocked' => requests[Len(requests)] = awaited
  BY <1>2 DEF AdapterInv, blocked
<1> QED
  BY <1>2, <1>3, <1>4, <1>5, <1>6, <1>7, <1>8 DEF AdapterInv, SuccessIsCurrent

LEMMA ReplyArrivesInv ==
  ASSUME AdapterInv, ReplyArrives
  PROVE  AdapterInv'
<1>1. /\ replies # <<>> /\ replies' = Tail(replies) /\ UNCHANGED <<requests, adapter>>
      /\ replies \in Seq(BOOLEAN) /\ requests \in Seq(Requests)
      /\ awaited \in Requests \cup {NoReply}
  BY DEF ReplyArrives, AdapterInv, AdapterTypeOK
<1>2. /\ replies' \in Seq(BOOLEAN) /\ Head(replies) \in BOOLEAN
      /\ replies' # <<>> => replies'[Len(replies')] = replies[Len(replies)]
      /\ replies' = <<>> => Head(replies) = replies[Len(replies)]
  BY <1>1, Removed
<1>3. CASE blocked /\ InFlight = 1
  <2>1. awaited' = NoReply /\ result' = (IF Head(replies) THEN awaited ELSE NoReply)
    BY <1>3 DEF ReplyArrives
  <2>2. requests = <<>> /\ Len(replies) = 1
    <3>1. Len(requests) + Len(replies) = 1
      BY <1>3 DEF InFlight
    <3>2. /\ Len(requests) \in Nat /\ Len(replies) \in Nat
          /\ Len(replies) = 0 => replies = <<>>
          /\ Len(requests) = 0 => requests = <<>>
      BY <1>1
    <3>3. Len(replies) # 0
      BY <1>1, EmptySeq
    <3> QED  BY <3>1, <3>2, <3>3
  <2>3. replies' = <<>>
    BY <1>1, <2>2
  <2>4. Head(replies) => adapter[awaited.setting] = awaited.value
    BY <1>1, <1>2, <1>3, <2>2, <2>3 DEF AdapterInv
  <2>5. AdapterTypeOK'
    BY <1>1, <1>2, <2>1 DEF AdapterInv, AdapterTypeOK
  <2> QED  BY <1>1, <2>1, <2>2, <2>4, <2>5 DEF AdapterInv, SuccessIsCurrent, blocked
<1>4. CASE ~(blocked /\ InFlight = 1)
  <2>1. UNCHANGED <<awaited, result>>
    BY <1>4 DEF ReplyArrives
  <2>2. AdapterTypeOK'
    BY <1>1, <1>2, <2>1 DEF AdapterInv, AdapterTypeOK
  <2> QED  BY <1>1, <1>2, <2>1, <2>2 DEF AdapterInv, SuccessIsCurrent, blocked
<1> QED  BY <1>3, <1>4

LEMMA AdapterInvStep ==
  ASSUME AdapterInv, [AdapterNext]_adapterVars
  PROVE  AdapterInv'
<1>1. CASE SetNotSent
  <2>1. result' = NoReply /\ UNCHANGED <<requests, replies, adapter, awaited>>
    BY <1>1 DEF SetNotSent
  <2>2. AdapterTypeOK'
    BY <2>1 DEF AdapterInv, AdapterTypeOK
  <2> QED  BY <2>1, <2>2 DEF AdapterInv, SuccessIsCurrent, blocked
<1>2. CASE GiveUp
  <2>1. awaited' = NoReply /\ UNCHANGED <<requests, replies, adapter, result>>
    BY <1>2 DEF GiveUp
  <2>2. AdapterTypeOK'
    BY <2>1 DEF AdapterInv, AdapterTypeOK
  <2> QED  BY <2>1, <2>2 DEF AdapterInv, SuccessIsCurrent, blocked
<1>3. CASE UNCHANGED adapterVars
  BY <1>3 DEF AdapterInv, AdapterTypeOK, SuccessIsCurrent, blocked, adapterVars
<1> QED
  BY <1>1, <1>2, <1>3, SetPropertyInv, BluezExecutesInv, ReplyArrivesInv DEF AdapterNext
=============================================================================
