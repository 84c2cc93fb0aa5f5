------------------------ MODULE AtomicCharacteristic ------------------------
(***************************************************************************)
(* What a characteristic promises the clients that reach it through BlueZ: *)
(* it is an atomic register with a notification switch.  A call takes      *)
(* effect at one moment between its invocation and its return, in which no *)
(* other client and no script sees it half done, its result is what the    *)
(* register held at that moment, and every call returns.                   *)
(*                                                                         *)
(* While memory is short a call may return with an error, which does not   *)
(* say that it had no effect, and what is stored may be lost.              *)
(***************************************************************************)
CONSTANTS Clients, Values, EMPTY, MallocMayFail

Requests == [op : {"ReadValue", "StartNotify", "StopNotify"}]
              \cup [op : {"WriteValue"}, value : Values]

VARIABLES memory, value, notifying, client

vars == <<memory, value, notifying, client>>

Idle == [state |-> "idle"]

Init ==
  /\ memory = TRUE
  /\ value = EMPTY
  /\ notifying = FALSE
  /\ client = [c \in Clients |-> Idle]

(* A buffer for the value may be missing: the old value is gone already.   *)
Store(v) == value' = v \/ (~memory /\ value' = EMPTY)

Invoke(c) ==
  /\ client[c] = Idle
  /\ \E r \in Requests : client' = [client EXCEPT ![c] = [state |-> "called", request |-> r]]
  /\ UNCHANGED <<memory, value, notifying>>

Answer(c, result) == client' = [client EXCEPT ![c] = [state |-> "answered", result |-> result]]

(* A failure is an answer like any other: the call is over.                *)
Failures == IF memory THEN {} ELSE {"UnknownMethod", "NoReply"}
Reply(c, result) == \E r \in {result} \cup Failures : Answer(c, r)

Perform(c) ==
  /\ client[c].state = "called"
  /\ LET r == client[c].request IN
     \/ /\ r.op = "ReadValue"
        /\ Reply(c, value)
        /\ UNCHANGED <<value, notifying>>
     \/ /\ r.op = "WriteValue"
        /\ \/ r.value # EMPTY /\ Store(r.value) /\ Reply(c, "done")
           \/ r.value = EMPTY /\ Answer(c, "UnknownMethod") /\ UNCHANGED value
        /\ UNCHANGED notifying
     \/ /\ r.op \in {"StartNotify", "StopNotify"}
        /\ notifying' = (r.op = "StartNotify")
        /\ Reply(c, "done")
        /\ UNCHANGED value
  /\ UNCHANGED memory

Return(c) ==
  /\ client[c].state = "answered"
  /\ client' = [client EXCEPT ![c] = Idle]
  /\ UNCHANGED <<memory, value, notifying>>

ScriptSets == (\E v \in Values : Store(v)) /\ UNCHANGED <<memory, notifying, client>>
ScriptNotifies == notifying' \in BOOLEAN /\ UNCHANGED <<memory, value, client>>

MemoryChanges == MallocMayFail /\ memory' = ~memory /\ UNCHANGED <<value, notifying, client>>

Next ==
  \/ \E c \in Clients : Invoke(c) \/ Perform(c) \/ Return(c)
  \/ ScriptSets
  \/ ScriptNotifies
  \/ MemoryChanges

Spec ==
  /\ Init /\ [][Next]_vars
  /\ \A c \in Clients : WF_vars(Perform(c)) /\ WF_vars(Return(c))
=============================================================================
