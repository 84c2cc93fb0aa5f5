------------------------------ MODULE CallReply ------------------------------
(***************************************************************************)
(* What a process on D-Bus owes its callers, whatever its objects do: a    *)
(* call is settled once and for good, by an answer or by being given up;   *)
(* calls are settled in the order in which they were made; and every call  *)
(* is settled.                                                             *)
(***************************************************************************)
EXTENDS Naturals

CONSTANT Serials        \* a set of numbers; a message is known by its own

VARIABLE status         \* of the message with that serial

Unsettled == {i \in Serials : status[i] = "waiting"}

Init == status = [i \in Serials |-> "unsent"]

(* A signal wants no answer; a call waits for one.                         *)
Send(i) ==
  /\ status[i] = "unsent"
  /\ \E s \in {"signal", "waiting"} : status' = [status EXCEPT ![i] = s]

(* The oldest call is settled: with an answer, or the callee drops it and  *)
(* the caller runs into its timeout.                                       *)
Settle(i) ==
  /\ i \in Unsettled
  /\ \A j \in Unsettled : i <= j
  /\ \E s \in {"answered", "dropped"} : status' = [status EXCEPT ![i] = s]

(* The process is gone: the bus tells every caller.                        *)
End ==
  /\ Unsettled # {}
  /\ status' = [i \in Serials |-> IF i \in Unsettled THEN "dropped" ELSE status[i]]

Next ==
  \/ \E i \in Serials : Send(i) \/ Settle(i)
  \/ End

IsSettled(i) == Settle(i) \/ End

Spec ==
  /\ Init
  /\ [][Next]_status
  /\ \A i \in Serials : WF_status(IsSettled(i))
=============================================================================
