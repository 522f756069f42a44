------------------------------- MODULE EventBus -------------------------------
(***************************************************************************)
(* The event bus: a list of listeners that is replaced as a whole, and      *)
(* publishers that take the list as it is and call its listeners one after  *)
(* the other, all at once, or in a task of their own.  A listener runs in a *)
(* spawned task: it may panic, hang until it is timed out, or outlive a     *)
(* dropped publisher.                                                      *)
(***************************************************************************)
EXTENDS Requests, Sequences

CONSTANTS
  Modes,      \* dispatch modes: "sequential", "concurrent", "detached"
  Listeners,
  Events,     \* events, each published once
  MaxListed,  \* bound: entries of the list
  Timed       \* whether listener_timeout is set, as it is by default

ASSUME EventsAssumption ==
  /\ Modes \subseteq {"sequential", "concurrent", "detached"}
  /\ MaxListed \in Nat /\ Timed \in BOOLEAN /\ Nil \notin Seq(Listeners)

VARIABLES
  mode,
  registered,  \* the list of listeners
  publishing,  \* the event a publisher has in its hands
  sentTo,      \* an event's snapshot of the list, Nil before it is taken
  runs,        \* the stage of each entry of the snapshot
  \* ---- history
  present,     \* the list when publish was called
  returned,    \* events whose publish returned
  cut          \* events whose publisher was dropped

evHistory == <<present, returned, cut>>
evState == <<mode, registered, publishing, sentTo, runs, evHistory>>
evVars == <<control, evState>>

RunStages == {"not yet", "generic", "typed", "ended"}
Running == {"generic", "typed"}

EvTypeOK ==
  /\ mode \in Modes /\ registered \in Seq(Listeners)
  /\ publishing \in [Tasks -> Events \cup {Nil}]
  /\ sentTo \in [Events -> Seq(Listeners) \cup {Nil}]
  /\ runs \in [Events -> Seq(RunStages)]
  /\ present \in [Events -> Seq(Listeners) \cup {Nil}]
  /\ returned \subseteq Events /\ cut \subseteq Events

EvInit ==
  /\ mode \in Modes /\ registered = <<>>
  /\ publishing = [t \in Tasks |-> Nil]
  /\ sentTo = [e \in Events |-> Nil] /\ runs = [e \in Events |-> <<>>]
  /\ present = [e \in Events |-> Nil] /\ returned = {} /\ cut = {}

-----------------------------------------------------------------------------
(***************************************************************************)
(* The list                                                                *)
(***************************************************************************)
Register(l) ==
  /\ Len(registered) < MaxListed /\ registered' = Append(registered, l)
  /\ UNCHANGED <<control, mode, publishing, sentTo, runs, evHistory>>

ClearListeners ==
  /\ registered # <<>> /\ registered' = <<>>
  /\ UNCHANGED <<control, mode, publishing, sentTo, runs, evHistory>>

-----------------------------------------------------------------------------
(***************************************************************************)
(* Publishing                                                              *)
(***************************************************************************)
\* The stage entries start in: all at once, or none.
FirstStages(list) ==
  [i \in DOMAIN list |-> IF mode = "concurrent" THEN "generic" ELSE "not yet"]

Snapshot(e) ==
  /\ sentTo' = [sentTo EXCEPT ![e] = registered]
  /\ runs' = [runs EXCEPT ![e] = FirstStages(registered)]

\* publish takes the snapshot before it waits for anything; detached, it
\* returns and leaves the rest to a task.
Publish(t, e) ==
  /\ present[e] = Nil
  /\ present' = [present EXCEPT ![e] = registered]
  /\ IF mode = "detached"
     THEN /\ pc[t] = "idle" /\ Call
          /\ returned' = returned \cup {e}
          /\ UNCHANGED <<pc, publishing, sentTo, runs>>
     ELSE /\ Begin(t, "dispatch") /\ Snapshot(e)
          /\ publishing' = [publishing EXCEPT ![t] = e]
          /\ UNCHANGED returned
  /\ UNCHANGED <<mode, registered, cut>>

DetachedSnapshot(e) ==
  /\ mode = "detached" /\ present[e] # Nil /\ sentTo[e] = Nil /\ Snapshot(e)
  /\ UNCHANGED <<control, mode, registered, publishing, evHistory>>

\* The next listener of e is due when those before it have ended.
Due(e, i) ==
  /\ runs[e][i] = "not yet"
  /\ \A j \in 1..(i - 1) : runs[e][j] = "ended"

SetStage(e, i, stage) == runs' = [runs EXCEPT ![e][i] = stage]

\* invoke_listener_safe spawns the next listener's task.
Invoke(e) ==
  /\ e \notin cut /\ sentTo[e] # Nil
  /\ \E i \in DOMAIN runs[e] : Due(e, i) /\ SetStage(e, i, "generic")
  /\ UNCHANGED <<control, mode, registered, publishing, sentTo, evHistory>>

\* dispatch_to_listener: on_event, then the method of the event's type.
CallTyped(e, i) ==
  /\ runs[e][i] = "generic" /\ SetStage(e, i, "typed")
  /\ UNCHANGED <<control, mode, registered, publishing, sentTo, evHistory>>

\* The listener's task ends by itself: both methods have returned, or one panics.
ListenerEnds(e, i) ==
  /\ runs[e][i] \in Running
  /\ runs[e][i] = "typed" \/ MayFail
  /\ SetStage(e, i, "ended")
  /\ UNCHANGED <<control, mode, registered, publishing, sentTo, evHistory>>

\* Mutant: the timeout is around on_event only.
TimedOutGeneric(e, i) ==
  /\ Timed /\ runs[e][i] = "generic" /\ SetStage(e, i, "ended")
  /\ UNCHANGED <<control, mode, registered, publishing, sentTo, evHistory>>

\* One timeout is around the two methods.
TimedOut(e, i) ==
  /\ Timed /\ runs[e][i] \in Running /\ SetStage(e, i, "ended")
  /\ UNCHANGED <<control, mode, registered, publishing, sentTo, evHistory>>

\* Mutant: the publisher does not wait for the last listener.
PublishedEarly(t) ==
  /\ pc[t] = "dispatch"
  /\ LET e == publishing[t]
     IN /\ \A i \in DOMAIN runs[e] : runs[e][i] # "not yet"
        /\ returned' = returned \cup {e}
  /\ publishing' = [publishing EXCEPT ![t] = Nil] /\ Finish(t)
  /\ UNCHANGED <<mode, registered, sentTo, runs, present, cut>>

\* Every listener of the snapshot has been awaited.
Published(t) ==
  /\ pc[t] = "dispatch"
  /\ LET e == publishing[t]
     IN /\ \A i \in DOMAIN runs[e] : runs[e][i] = "ended"
        /\ returned' = returned \cup {e}
  /\ publishing' = [publishing EXCEPT ![t] = Nil] /\ Finish(t)
  /\ UNCHANGED <<mode, registered, sentTo, runs, present, cut>>

\* Spawned listeners go on; a sequential dispatch starts no further one.
PublisherDropped(t) ==
  /\ Dropped(t) /\ cut' = cut \cup {publishing[t]}
  /\ publishing' = [publishing EXCEPT ![t] = Nil]
  /\ UNCHANGED <<mode, registered, sentTo, runs, present, returned>>

EvNext ==
  \/ \E l \in Listeners : Register(l)
  \/ ClearListeners
  \/ \E t \in Tasks : Published(t) \/ PublisherDropped(t)
                      \/ \E e \in Events : Publish(t, e)
  \/ \E e \in Events :
       \/ DetachedSnapshot(e) \/ Invoke(e)
       \/ \E i \in DOMAIN runs[e] :
            CallTyped(e, i) \/ ListenerEnds(e, i) \/ TimedOut(e, i)

EvSpec == ControlInit /\ EvInit /\ [][EvNext]_evVars

-----------------------------------------------------------------------------
(***************************************************************************)
(* When publish returns to a caller that waits for its listeners, each      *)
(* listener that was registered when it was called has had the event, also  *)
(* if another one panicked or the list was cleared meanwhile (so that the   *)
(* caller's next event cannot overtake this one), and a sequential bus      *)
(* never runs two listeners of one event at a time.                         *)
(***************************************************************************)
EveryListenerHears ==
  /\ mode # "detached" =>
       \A e \in returned : runs[e] = [i \in DOMAIN present[e] |-> "ended"]
  /\ mode # "concurrent" =>
       \A e \in Events : \A i, j \in DOMAIN runs[e] :
         {runs[e][i], runs[e][j]} \subseteq Running => i = j

(***************************************************************************)
(* With the timeout set, a listener that hangs costs neither the others nor *)
(* the caller, who is often a login or a logout: unless its publisher is    *)
(* dropped, an event that was published, and that has not yet reached the   *)
(* end of the listeners it was taken for and come back to its caller, never *)
(* waits for a listener alone.  The bus itself can take its next step, and   *)
(* no step of the bus takes one back.                                      *)
(***************************************************************************)
Through(e) ==
  /\ e \in returned /\ sentTo[e] # Nil
  /\ \A i \in DOMAIN runs[e] : runs[e][i] = "ended"

BusStep(e) ==
  \/ DetachedSnapshot(e) \/ Invoke(e)
  \/ \E i \in DOMAIN runs[e] : TimedOut(e, i)
  \/ \E t \in Tasks : publishing[t] = e /\ Published(t)

HangingIsCut ==
  \A e \in Events \ cut :
    Timed /\ present[e] # Nil /\ ~Through(e) => ENABLED BusStep(e)

=============================================================================
