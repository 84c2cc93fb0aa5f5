------------------------- MODULE CharacteristicValue -------------------------
(***************************************************************************)
(* The value of one characteristic (characteristic.c): read, written and   *)
(* subscribed to by BlueZ, updated by the script, announced in             *)
(* PropertiesChanged signals.                                              *)
(*                                                                         *)
(* BlueZ's calls reach the simulator in the order they were sent; what the *)
(* simulator sends, answers and signals alike, reaches BlueZ in the order  *)
(* it was sent.  The main loop handles one message at a time and runs the  *)
(* script's Update in between.                                             *)
(*                                                                         *)
(* Memory may run out and come back.  While it is short any allocation may *)
(* fail, each on its own.  A message is built as a whole or not at all,    *)
(* and the errors libdbus answers itself are always sent.                  *)
(***************************************************************************)
EXTENDS Naturals, Sequences, FiniteSetsExt

CONSTANTS
  Clients,        \* callers behind BlueZ, each with one call at a time
  Values,         \* byte strings
  EMPTY,          \* the one of length 0
  Operations,     \* the methods BlueZ calls
  MallocMayFail,
  MaxQueue        \* bound: the script sets a value only while fewer messages
                  \* than this are under way to BlueZ

ASSUME EmptyIsValue == EMPTY \in Values
ASSUME OperationsAreMethods ==
  Operations \subseteq {"ReadValue", "WriteValue", "StartNotify", "StopNotify"}
ASSUME MallocMayFailIsBoolean == MallocMayFail \in BOOLEAN
ASSUME MaxQueueIsNatural == MaxQueue \in Nat

Requests ==
  {r \in [op : {"ReadValue", "StartNotify", "StopNotify"}]
           \cup [op : {"WriteValue"}, value : Values] : r.op \in Operations}

VARIABLES
  memory,     \* FALSE while allocations may fail
  value,      \* value and value_size; both start out as EMPTY
  notifying,
  to_sim,     \* calls under way, [client, request]
  to_bluez,   \* answers [client, result] and signals [changed] under way
  waiting,    \* clients whose call has not returned
  seen        \* what BlueZ last heard the value to be

vars == <<memory, value, notifying, to_sim, to_bluez, waiting, seen>>

Init ==
  /\ memory = TRUE
  /\ value = EMPTY
  /\ notifying = FALSE
  /\ to_sim = <<>>
  /\ to_bluez = <<>>
  /\ waiting = {}
  /\ seen = EMPTY

-----------------------------------------------------------------------------
MemoryChanges ==
  /\ MallocMayFail
  /\ memory' = ~memory
  /\ UNCHANGED <<value, notifying, to_sim, to_bluez, waiting, seen>>

-----------------------------------------------------------------------------
(* Mutant: the pointer to the freed buffer is not reset.                   *)
SetValue_KeepsFreed(v) == value' = v \/ (~memory /\ value' = "freed")

(* characteristic_set_value: the old buffer is freed before the new one is *)
(* allocated; without memory the value is left empty.                      *)
SetValue(v) == value' = v \/ (~memory /\ value' = EMPTY)

(* characteristic_update_value, called by setValue of the script: an equal *)
(* value is ignored, a new one signalled if somebody listens.              *)
IsNewValue(v) == v # value

(* Mutant: the notifying flag is not asked.                                *)
PropertiesChanged_Always(v) ==
  \/ to_bluez' = Append(to_bluez, [changed |-> v])
  \/ ~memory /\ UNCHANGED to_bluez

(* Without memory there is no signal to send, or no room in the queue of   *)
(* the connection; in both cases nobody is told.                           *)
PropertiesChanged(v) ==
  \/ notifying /\ to_bluez' = Append(to_bluez, [changed |-> v])
  \/ (~notifying \/ ~memory) /\ UNCHANGED to_bluez

(* Mutant: the signal is sent before the value is set.                     *)
UpdateValue_SignalsFirst(v) ==
  /\ Len(to_bluez) < MaxQueue
  /\ IsNewValue(v)
  /\ SetValue(v)
  /\ PropertiesChanged(value)
  /\ UNCHANGED <<memory, notifying, to_sim, waiting, seen>>

UpdateValue(v) ==
  /\ Len(to_bluez) < MaxQueue
  /\ IsNewValue(v)
  /\ SetValue(v)
  /\ PropertiesChanged(value')
  /\ UNCHANGED <<memory, notifying, to_sim, waiting, seen>>

(* characteristic:notifying(b) of the script.                              *)
SetNotifying(b) ==
  /\ notifying' = b
  /\ UNCHANGED <<memory, value, to_sim, to_bluez, waiting, seen>>

-----------------------------------------------------------------------------
(* The handlers of BlueZ's calls.                                          *)

Request == Head(to_sim).request

Answer(result) ==
  to_bluez' = Append(to_bluez, [client |-> Head(to_sim).client, result |-> result])

(* The effect of a call is there when its reply is made.  Without memory   *)
(* the handler has no reply to return, and libdbus answers that there is   *)
(* no such method; or the reply is not queued, and the caller learns from  *)
(* its own timeout that there is none.                                     *)
Failures == IF memory THEN {} ELSE {"UnknownMethod", "NoReply"}

Reply(result) == \E r \in {result} \cup Failures : Answer(r)

Receive(op) ==
  /\ to_sim # <<>>
  /\ Request.op = op
  /\ to_sim' = Tail(to_sim)
  /\ UNCHANGED <<memory, waiting, seen>>

ReadValue ==
  /\ Receive("ReadValue")
  /\ Reply(value)
  /\ UNCHANGED <<value, notifying>>

(* An empty array comes out of the message as NULL: the handler returns no *)
(* reply and libdbus answers that there is no such method.  Any other      *)
(* value is stored as it is; no signal is sent.                            *)
WriteValue ==
  /\ Receive("WriteValue")
  /\ IF Request.value = EMPTY
     THEN Answer("UnknownMethod") /\ UNCHANGED value
     ELSE SetValue(Request.value) /\ Reply("done")
  /\ UNCHANGED notifying

StartNotify ==
  /\ Receive("StartNotify")
  /\ notifying' = TRUE
  /\ Reply("done")
  /\ UNCHANGED value

(* Mutant: copied from StartNotify and not changed.                        *)
StopNotify_Copied ==
  /\ Receive("StopNotify")
  /\ notifying' = TRUE
  /\ Reply("done")
  /\ UNCHANGED value

StopNotify ==
  /\ Receive("StopNotify")
  /\ notifying' = FALSE
  /\ Reply("done")
  /\ UNCHANGED value

HandleCall == ReadValue \/ WriteValue \/ StartNotify \/ StopNotify

-----------------------------------------------------------------------------
(* BlueZ.                                                                  *)

SendCall(c) ==
  /\ c \notin waiting
  /\ \E r \in Requests : to_sim' = Append(to_sim, [client |-> c, request |-> r])
  /\ waiting' = waiting \cup {c}
  /\ UNCHANGED <<memory, value, notifying, to_bluez, seen>>

IsSignal(m) == "changed" \in DOMAIN m

Deliver ==
  /\ to_bluez # <<>>
  /\ to_bluez' = Tail(to_bluez)
  /\ IF IsSignal(Head(to_bluez))
     THEN seen' = Head(to_bluez).changed /\ UNCHANGED waiting
     ELSE waiting' = waiting \ {Head(to_bluez).client} /\ UNCHANGED seen
  /\ UNCHANGED <<memory, value, notifying, to_sim>>

-----------------------------------------------------------------------------
Next ==
  \/ MemoryChanges
  \/ \E v \in Values : UpdateValue(v)
  \/ \E b \in BOOLEAN : SetNotifying(b)
  \/ HandleCall
  \/ \E c \in Clients : SendCall(c)
  \/ Deliver

(* The main loop dispatches what has arrived, and D-Bus delivers.          *)
Spec == Init /\ [][Next]_vars /\ WF_vars(HandleCall) /\ WF_vars(Deliver)

-----------------------------------------------------------------------------
CallMessages == [client : Clients, request : Requests]
Results == Values \cup {"done", "UnknownMethod", "NoReply"}
Answers == [client : Clients, result : Results]
Signals == [changed : Values]

(* Every variable has its type.                                            *)
TypeOK ==
  /\ memory \in BOOLEAN
  /\ value \in Values
  /\ notifying \in BOOLEAN
  /\ to_sim \in Seq(CallMessages)
  /\ to_bluez \in Seq(Answers \cup Signals)
  /\ waiting \subseteq Clients
  /\ seen \in Values

(* What BlueZ will believe the value to be once everything under way to it *)
(* has arrived.                                                            *)
LastTold ==
  LET signals == {i \in DOMAIN to_bluez : IsSignal(to_bluez[i])}
  IN  IF signals = {} THEN seen ELSE to_bluez[Max(signals)].changed

(* A subscriber that is up to date stays up to date: whatever changes the  *)
(* value while notifications are on is followed by the signal that says    *)
(* so, "changes in values now produce the correct properties changed       *)
(* signal" (CHANGELOG.md).                                                 *)
SyncKeptWhileNotifying ==
  [][notifying /\ LastTold = value => LastTold' = value']_vars

(* A signal never lies: whatever makes BlueZ believe a new value does so   *)
(* while notifications are on and with the value the characteristic has,   *)
(* also when there was no memory to store the one the script meant.        *)
SignalsTellTheValue ==
  [][LastTold' # LastTold => notifying /\ LastTold' = value']_vars

(* While there is memory, what silences a change is a remote write and     *)
(* nothing else: not StopNotify followed by StartNotify, not a value that  *)
(* was set and set back.  And a subscriber that fell behind, by a write or *)
(* when memory was short, is up to date again with the script's next       *)
(* change.                                                                 *)
OnlyWritesAreSilent ==
  [][notifying /\ memory /\ (LastTold = value \/ value' # value)
       => LastTold' = value' \/ WriteValue]_vars

NoWrites ==
  \A i \in DOMAIN to_sim : to_sim[i].request.op # "WriteValue"

(* A subscriber that was up to date once and stays subscribed sees the     *)
(* value on which the characteristic settles, however often the script     *)
(* changed it before, if nobody else writes and memory lasts.              *)
SettledValueIsSeen ==
  \A v \in Values :
    [](/\ notifying /\ LastTold = value
       /\ []notifying /\ []NoWrites /\ []memory /\ <>[](value = v)
       => <>(seen = v))

-----------------------------------------------------------------------------
(* The messages on their way are the calls of an atomic register: a call   *)
(* is invoked while it is in to_sim, answered while it is in to_bluez.     *)

ClientState(c) ==
  IF \E i \in DOMAIN to_sim : to_sim[i].client = c
  THEN [state |-> "called",
        request |-> to_sim[CHOOSE i \in DOMAIN to_sim : to_sim[i].client = c].request]
  ELSE IF c \in waiting
  THEN [state |-> "answered",
        result |-> to_bluez[CHOOSE i \in DOMAIN to_bluez :
                              ~IsSignal(to_bluez[i]) /\ to_bluez[i].client = c].result]
  ELSE [state |-> "idle"]

Atomic == INSTANCE AtomicCharacteristic WITH
  client <- [c \in Clients |-> ClientState(c)]

(* Reads, writes and subscriptions of any number of clients are atomic,    *)
(* none is lost, answered twice or answered with another's result, and     *)
(* every one is answered, though it may be with an error when memory is    *)
(* short: the message-passing characteristic implements the atomic one.    *)
IsAtomic == Atomic!Spec
=============================================================================
