----------------------------- MODULE TempTokens -----------------------------
(***************************************************************************)
(* TempTokenManager: a random token that carries a value, and an index from *)
(* a value to the token created for it last.  Both have the same TTL.       *)
(***************************************************************************)
EXTENDS Requests

CONSTANTS
  TempIds,   \* what random_hex may produce
  Values,    \* values with an index
  Retries    \* attempts to find a free key (12)

ASSUME TempAssumption == Nil \notin TempIds \cup Values /\ Retries \in Nat

VARIABLES
  records,   \* the value of each stored token, Nil when there is none
  names,     \* the index: the token a value names
  indexing,  \* whether create records the index
  value, temp, attempts,   \* local variables of a call
  \* ---- history
  known,     \* tokens create has returned or is about to
  lapsed     \* tokens whose TTL has ended, or whose index a delete could not reach

tmHistory == <<known, lapsed>>
tmLocals == <<indexing, value, temp, attempts>>
tmState == <<records, names, tmLocals, tmHistory>>
tmVars == <<control, tmState>>

TmLabels == {"claimTemp", "saveName", "readTemp", "dropName", "dropTemp"}

TmTypeOK ==
  /\ pc \in [Tasks -> TmLabels \cup {"idle"}] /\ calls \in Nat
  /\ records \in [TempIds -> Values \cup {Nil}]
  /\ names \in [Values -> TempIds \cup {Nil}]
  /\ indexing \in [Tasks -> BOOLEAN] /\ value \in [Tasks -> Values \cup {Nil}]
  /\ temp \in [Tasks -> TempIds \cup {Nil}] /\ attempts \in [Tasks -> Nat]
  /\ known \subseteq TempIds /\ lapsed \subseteq TempIds

TmInit ==
  /\ records = [k \in TempIds |-> Nil] /\ names = [v \in Values |-> Nil]
  /\ indexing = [t \in Tasks |-> FALSE] /\ value = [t \in Tasks |-> Nil]
  /\ temp = [t \in Tasks |-> Nil] /\ attempts = [t \in Tasks |-> 0]
  /\ known = {} /\ lapsed = {}

TmEnd(t) ==
  /\ Finish(t)
  /\ indexing' = [indexing EXCEPT ![t] = FALSE]
  /\ value' = [value EXCEPT ![t] = Nil]
  /\ temp' = [temp EXCEPT ![t] = Nil] /\ attempts' = [attempts EXCEPT ![t] = 0]

-----------------------------------------------------------------------------
Create(t, v, i) ==
  /\ Begin(t, "claimTemp")
  /\ value' = [value EXCEPT ![t] = v] /\ indexing' = [indexing EXCEPT ![t] = i]
  /\ UNCHANGED <<records, names, temp, attempts, tmHistory>>

\* set_if_absent under a random token; a token in use costs an attempt.
ClaimTemp(t) ==
  /\ pc[t] = "claimTemp"
  /\ \E k \in TempIds :
       IF records[k] = Nil
       THEN /\ k \notin known
            /\ records' = [records EXCEPT ![k] = value[t]]
            /\ known' = known \cup {k}
            /\ IF indexing[t]
               THEN /\ temp' = [temp EXCEPT ![t] = k]
                    /\ Goto(t, "saveName") /\ UNCHANGED <<indexing, value, attempts>>
               ELSE TmEnd(t)
       ELSE /\ UNCHANGED <<records, known>>
            /\ IF attempts[t] + 1 < Retries
               THEN /\ attempts' = [attempts EXCEPT ![t] = @ + 1]
                    /\ UNCHANGED <<control, indexing, value, temp>>
               ELSE TmEnd(t)
  /\ UNCHANGED <<names, lapsed>>

SaveName(t) ==
  /\ pc[t] = "saveName"
  /\ names' = [names EXCEPT ![value[t]] = temp[t]]
  /\ TmEnd(t)
  /\ UNCHANGED <<records, tmHistory>>

\* A token handed out is no longer being created.
DeleteTemp(t, k) ==
  /\ k \in known /\ (\A q \in Tasks : temp[q] = k => pc[q] # "saveName")
  /\ Begin(t, "readTemp")
  /\ temp' = [temp EXCEPT ![t] = k]
  /\ UNCHANGED <<records, names, indexing, value, attempts, tmHistory>>

Unreachable(t) == MayFail /\ lapsed' = lapsed \cup {temp[t]}

\* Errors of the read and of the index's deletion are ignored.
ReadTemp(t) ==
  /\ pc[t] = "readTemp"
  /\ \/ /\ value' = [value EXCEPT ![t] = records[temp[t]]]
        /\ Goto(t, IF records[temp[t]] = Nil THEN "dropTemp" ELSE "dropName")
        /\ UNCHANGED lapsed
     \/ Unreachable(t) /\ Goto(t, "dropTemp") /\ UNCHANGED value
  /\ UNCHANGED <<records, names, indexing, temp, attempts, known>>

\* Mutant: an index is dropped only when its record is already gone.
DropNameLast(t) ==
  /\ pc[t] = "dropName"
  /\ IF records[temp[t]] # Nil
     THEN /\ records' = [records EXCEPT ![temp[t]] = Nil]
          /\ UNCHANGED <<control, names, tmLocals>>
     ELSE /\ names' = [names EXCEPT ![value[t]] = Nil]
          /\ TmEnd(t) /\ UNCHANGED records
  /\ UNCHANGED tmHistory

\* The index of the value goes, whatever token it names.
DropName(t) ==
  /\ pc[t] = "dropName"
  /\ \/ names' = [names EXCEPT ![value[t]] = Nil] /\ UNCHANGED lapsed
     \/ Unreachable(t) /\ UNCHANGED names
  /\ Goto(t, "dropTemp")
  /\ UNCHANGED <<records, tmLocals, known>>

DropTemp(t) ==
  /\ pc[t] = "dropTemp"
  /\ records' = [records EXCEPT ![temp[t]] = Nil]
  /\ TmEnd(t)
  /\ UNCHANGED <<names, tmHistory>>

\* The TTL of a record ends (parse deletes it where storage has not), or that of
\* an index.
ExpireTemp ==
  /\ \/ \E k \in TempIds : /\ records[k] # Nil
                           /\ records' = [records EXCEPT ![k] = Nil]
                           /\ lapsed' = lapsed \cup {k} /\ UNCHANGED names
     \/ \E v \in Values : /\ names[v] # Nil
                          /\ names' = [names EXCEPT ![v] = Nil]
                          /\ UNCHANGED <<records, lapsed>>
  /\ UNCHANGED <<control, tmLocals, known>>

TmDropped(t) == MayFail /\ pc[t] # "idle" /\ TmEnd(t)
                /\ UNCHANGED <<records, names, tmHistory>>

TmTask(t) ==
  \/ \E v \in Values, i \in BOOLEAN : Create(t, v, i)
  \/ \E k \in TempIds : DeleteTemp(t, k)
  \/ ClaimTemp(t) \/ SaveName(t) \/ ReadTemp(t) \/ DropName(t) \/ DropTemp(t)
  \/ TmDropped(t)

TmNext == (\E t \in Tasks : TmTask(t)) \/ ExpireTemp

TmSpec == ControlInit /\ TmInit /\ [][TmNext]_tmVars

-----------------------------------------------------------------------------
\* What find_token returns can be parsed: a value's index names a stored token
\* that carries the value, however creates, deletes and dropped requests mix,
\* until the token's own TTL ends, or unless storage failed under its deletion.
IndexNamesLive ==
  \A v \in Values : names[v] \notin lapsed \cup {Nil} => records[names[v]] = v

=============================================================================
