------------------------------ MODULE Requests ------------------------------
(***************************************************************************)
(* The requests that call the library: each runs one call at a time, one    *)
(* storage operation per step, interleaved with the others.                 *)
(***************************************************************************)
EXTENDS Naturals, FiniteSets

CONSTANTS
  Tasks,     \* requests in progress at a time
  Nil,       \* an absent value
  MayFail,   \* whether a storage operation may fail, or a request be dropped
  MaxCalls   \* bound: calls the application makes in all

ASSUME RequestsAssumption == MayFail \in BOOLEAN /\ MaxCalls \in Nat

VARIABLES
  pc,        \* what each request does next
  calls

control == <<pc, calls>>

ControlInit == pc = [t \in Tasks |-> "idle"] /\ calls = 0

\* A call that answers at once, and one that goes on at label l.
Call == calls < MaxCalls /\ calls' = calls + 1

Begin(t, l) ==
  /\ pc[t] = "idle" /\ Call
  /\ pc' = [pc EXCEPT ![t] = l]

Goto(t, l) == pc' = [pc EXCEPT ![t] = l] /\ UNCHANGED calls

Finish(t) == Goto(t, "idle")

\* A storage operation returns an error, or the request is dropped.
Dropped(t) == MayFail /\ pc[t] # "idle" /\ Finish(t)

=============================================================================
