-------------------------- MODULE AdapterProperties --------------------------
(***************************************************************************)
(* dbusutils_set_property_basic: the main thread asks BlueZ to set a       *)
(* property of an adapter and waits, for one second, for the answer.       *)
(* power_default_controller, device_set_powered and                        *)
(* device_set_discoverable are its callers.                                *)
(*                                                                         *)
(* When the simulator gives up, the request is still on its way: BlueZ may *)
(* carry it out later, and its answer may arrive while the next one is     *)
(* waited for.  D-Bus delivers in order and BlueZ handles what one sender  *)
(* asks of it in order.                                                    *)
(***************************************************************************)
EXTENDS Naturals, Sequences

CONSTANTS
  Settings,      \* properties of adapters
  MaxInFlight,   \* bound on the requests BlueZ has not yet answered
  NoReply        \* the NULL a Set returns instead of a reply

Requests == [setting : Settings, value : BOOLEAN]

ASSUME NoReplyIsNoRequest == NoReply \notin Requests

VARIABLES
  requests,      \* on their way to BlueZ
  replies,       \* on their way back: whether it was carried out
  adapter,       \* what BlueZ has set
  awaited,       \* the request whose answer the main thread waits for, or NoReply
  result         \* of the last Set: the request, if it returned true, or NoReply

adapterVars == <<requests, replies, adapter, awaited, result>>

AdapterInit ==
  /\ requests = <<>>
  /\ replies = <<>>
  /\ adapter = [s \in Settings |-> FALSE]
  /\ awaited = NoReply
  /\ result = NoReply

blocked == awaited # NoReply

InFlight == Len(requests) + Len(replies)

-----------------------------------------------------------------------------
(* Mutant: the request is sent and not waited for.                         *)
SetProperty_NotAwaited(s, v) ==
  /\ ~blocked
  /\ InFlight < MaxInFlight
  /\ requests' = Append(requests, [setting |-> s, value |-> v])
  /\ result' = [setting |-> s, value |-> v]
  /\ UNCHANGED <<replies, adapter, awaited>>

SetProperty(s, v) ==
  /\ ~blocked
  /\ InFlight < MaxInFlight
  /\ requests' = Append(requests, [setting |-> s, value |-> v])
  /\ awaited' = [setting |-> s, value |-> v]
  /\ result' = NoReply
  /\ UNCHANGED <<replies, adapter>>

(* On a closed connection, or without memory for the request, nothing is   *)
(* sent and the call returns at once.                                      *)
SetNotSent ==
  /\ ~blocked
  /\ result' = NoReply
  /\ UNCHANGED <<requests, replies, adapter, awaited>>

(* BlueZ carries a request out or refuses it.                              *)
BluezExecutes ==
  /\ requests # <<>>
  /\ LET r == Head(requests) IN
     \E done \in BOOLEAN :
       /\ replies' = Append(replies, done)
       /\ adapter' = IF done THEN [adapter EXCEPT ![r.setting] = r.value] ELSE adapter
  /\ requests' = Tail(requests)
  /\ UNCHANGED <<awaited, result>>

(* libdbus matches an answer with the call that waits for it, which is the *)
(* last one sent; a late answer has no taker.  An error reply makes the    *)
(* Set return NULL.                                                        *)
ReplyArrives ==
  /\ replies # <<>>
  /\ replies' = Tail(replies)
  /\ IF blocked /\ InFlight = 1
     THEN /\ awaited' = NoReply
          /\ result' = IF Head(replies) THEN awaited ELSE NoReply
     ELSE UNCHANGED <<awaited, result>>
  /\ UNCHANGED <<requests, adapter>>

(* After DEFAULT_TIMEOUT, or when the bus goes away.                       *)
GiveUp ==
  /\ blocked
  /\ awaited' = NoReply
  /\ UNCHANGED <<requests, replies, adapter, result>>

AdapterNext ==
  \/ \E s \in Settings, v \in BOOLEAN : SetProperty(s, v)
  \/ SetNotSent \/ GiveUp
  \/ BluezExecutes \/ ReplyArrives

-----------------------------------------------------------------------------
AdapterTypeOK ==
  /\ requests \in Seq(Requests)
  /\ replies \in Seq(BOOLEAN)
  /\ adapter \in [Settings -> BOOLEAN]
  /\ awaited \in Requests \cup {NoReply}
  /\ result \in Requests \cup {NoReply}

(* A Set that returned true is true, and stays so until the script sets    *)
(* again: neither a late answer to an earlier Set is mistaken for its own, *)
(* nor is an earlier Set that was given up carried out after it.           *)
SuccessIsCurrent == result # NoReply => adapter[result.setting] = result.value

(* Why it holds: the request that is waited for is the last one in either  *)
(* queue, so its answer tells what BlueZ did last; and a request that was  *)
(* answered leaves no other behind.                                        *)
AdapterInv ==
  /\ AdapterTypeOK
  /\ SuccessIsCurrent
  /\ result # NoReply => requests = <<>>
  /\ blocked /\ requests # <<>> => requests[Len(requests)] = awaited
  /\ blocked /\ requests = <<>> /\ replies # <<>> /\ replies[Len(replies)]
       => adapter[awaited.setting] = awaited.value
=============================================================================
