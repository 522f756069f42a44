------------------------------- MODULE Nonces -------------------------------
(***************************************************************************)
(* One-time values: the nonces of signed requests (RequestSign) and login   *)
(* nonces (NonceManager), both claimed by set_if_absent with a TTL.  Time   *)
(* runs in ticks, several to a second: a TTL ends at a tick, while the age  *)
(* of a signed request is compared in whole seconds.  cleanup_expired walks *)
(* over the login nonces.                                                   *)
(***************************************************************************)
EXTENDS Requests, Integers

CONSTANTS
  Signed, LoginNonces,   \* the two kinds of nonces
  Second,                \* ticks per second
  Window,                \* window_secs of RequestSign
  Timeout,               \* seconds a login nonce is kept; <= 0: for ever
  Skews,                 \* how many ticks a signer's clock may be ahead
  MaxTime                \* bound: ticks

ASSUME NoncesAssumption ==
  /\ Second \in Nat \ {0} /\ Window \in Nat \ {0} /\ Timeout \in Int
  /\ Skews \subseteq Int /\ MaxTime \in Nat /\ Signed \cap LoginNonces = {}
  /\ Nil \notin Int

VARIABLES
  now,
  until,      \* when a stored nonce's TTL ends, Nil when it is not stored
  created,    \* created_at of its record
  stamp,      \* timestamp of a signed request, by the signer's clock
  nonce, start, genuine, cutoff,   \* local variables of a call
  \* ---- history
  last,       \* when a nonce was last claimed
  again,      \* nonces claimed once more in the time a claim is kept
  swept       \* login nonces a cleanup has deleted

ncStore == <<until, created>>
ncLocals == <<nonce, start, genuine, cutoff>>
ncHistory == <<last, again, swept>>
ncState == <<now, ncStore, stamp, ncLocals, ncHistory>>
ncVars == <<control, ncState>>

AllNonces == Signed \cup LoginNonces
Time == 0..MaxTime
NcLabels == {"claimNonce", "compareSign", "scanNonces", "removeNonce"}

NcInit ==
  /\ now = 0
  /\ until = [n \in AllNonces |-> Nil] /\ created = [n \in AllNonces |-> Nil]
  /\ stamp = [n \in Signed |-> Nil]
  /\ nonce = [t \in Tasks |-> Nil] /\ start = [t \in Tasks |-> 0]
  /\ genuine = [t \in Tasks |-> FALSE] /\ cutoff = [t \in Tasks |-> 0]
  /\ last = [n \in AllNonces |-> Nil] /\ again = {} /\ swept = {}

NcEnd(t) ==
  /\ Finish(t)
  /\ nonce' = [nonce EXCEPT ![t] = Nil] /\ start' = [start EXCEPT ![t] = 0]
  /\ genuine' = [genuine EXCEPT ![t] = FALSE] /\ cutoff' = [cutoff EXCEPT ![t] = 0]

\* Ttl 0 stands for no TTL: the key stays.
Ttl(n) == Second * (IF n \in Signed THEN Window ELSE IF Timeout > 0 THEN Timeout ELSE 0)
Stored(n) == until[n] # Nil /\ (Ttl(n) = 0 \/ now <= until[n])

Put(n, made) ==
  /\ until' = [until EXCEPT ![n] = now + Ttl(n)]
  /\ created' = [created EXCEPT ![n] = made]

-----------------------------------------------------------------------------
\* create_signed: the timestamp is cut to whole seconds.
CreateSigned(n, skew) ==
  /\ stamp[n] = Nil /\ now + skew >= 0
  /\ stamp' = [stamp EXCEPT ![n] = (now + skew) \div Second]
  /\ UNCHANGED <<control, now, ncStore, ncLocals, ncHistory>>

\* verify_params: a request outside the window is refused before anything else.
VerifyParams(t, n, ok) ==
  /\ stamp[n] # Nil
  /\ LET age == now \div Second - stamp[n] IN age <= Window /\ -age <= Window
  /\ Begin(t, "claimNonce")
  /\ nonce' = [nonce EXCEPT ![t] = n] /\ genuine' = [genuine EXCEPT ![t] = ok]
  /\ UNCHANGED <<now, ncStore, stamp, start, cutoff, ncHistory>>

\* validate_and_consume: the record is made first.
ConsumeNonce(t, n) ==
  /\ Begin(t, "claimNonce")
  /\ nonce' = [nonce EXCEPT ![t] = n] /\ start' = [start EXCEPT ![t] = now]
  /\ UNCHANGED <<now, ncStore, stamp, genuine, cutoff, ncHistory>>

\* NonceManager::store, whatever is there.
StoreNonce(n) ==
  /\ Call /\ Put(n, now)
  /\ UNCHANGED <<pc, now, stamp, ncLocals, ncHistory>>

\* A nonce is claimed: what was claimed before is history.
Claimed(t, n) ==
  /\ Put(n, start[t])
  /\ last' = [last EXCEPT ![n] = now]
  /\ again' = IF last[n] # Nil /\ (Ttl(n) = 0 \/ now <= last[n] + Ttl(n))
              THEN again \cup {n} ELSE again
  /\ IF n \in Signed THEN Goto(t, "compareSign") /\ UNCHANGED ncLocals ELSE NcEnd(t)

\* Mutant: the key counts as free from the second its TTL ends.
ClaimNonceEarly(t) ==
  /\ pc[t] = "claimNonce"
  /\ Stored(nonce[t]) => Ttl(nonce[t]) > 0 /\ until[nonce[t]] < now + Second
  /\ Claimed(t, nonce[t])
  /\ UNCHANGED <<now, stamp, swept>>

\* set_if_absent: NonceAlreadyUsed when the key is there.
ClaimNonce(t) ==
  /\ pc[t] = "claimNonce"
  /\ \/ ~Stored(nonce[t]) /\ Claimed(t, nonce[t])
     \/ Stored(nonce[t]) /\ NcEnd(t) /\ UNCHANGED <<ncStore, last, again>>
  /\ UNCHANGED <<now, stamp, swept>>

\* The signature is compared last: the nonce is used up either way.
CompareSign(t) ==
  /\ pc[t] = "compareSign"
  /\ NcEnd(t)
  /\ UNCHANGED <<now, ncStore, stamp, ncHistory>>

-----------------------------------------------------------------------------
\* cleanup_expired: nothing to do when nonces are kept for ever.
CleanupNonces(t) ==
  /\ Timeout > 0 /\ Begin(t, "scanNonces")
  /\ cutoff' = [cutoff EXCEPT ![t] = now - Second * Timeout]
  /\ UNCHANGED <<now, ncStore, stamp, nonce, start, genuine, ncHistory>>

\* A scanned record is read, and removed in a later step when it is old.
ScanNonce(t, n) ==
  /\ pc[t] = "scanNonces" /\ Stored(n) /\ created[n] < cutoff[t]
  /\ nonce' = [nonce EXCEPT ![t] = n]
  /\ Goto(t, "removeNonce")
  /\ UNCHANGED <<now, ncStore, stamp, start, genuine, cutoff, ncHistory>>

RemoveNonce(t) ==
  /\ pc[t] = "removeNonce"
  /\ until' = [until EXCEPT ![nonce[t]] = Nil]
  /\ swept' = swept \cup {nonce[t]}
  /\ Goto(t, "scanNonces")
  /\ UNCHANGED <<now, created, stamp, ncLocals, last, again>>

ScanDone(t) ==
  /\ pc[t] = "scanNonces"
  /\ NcEnd(t)
  /\ UNCHANGED <<now, ncStore, stamp, ncHistory>>

Tick ==
  /\ now < MaxTime /\ now' = now + 1
  /\ UNCHANGED <<control, ncStore, stamp, ncLocals, ncHistory>>

NcTask(t) ==
  \/ \E n \in Signed, ok \in BOOLEAN : VerifyParams(t, n, ok)
  \/ \E n \in LoginNonces : ConsumeNonce(t, n) \/ ScanNonce(t, n)
  \/ ClaimNonce(t) \/ CompareSign(t)
  \/ CleanupNonces(t) \/ RemoveNonce(t) \/ ScanDone(t)

NcNext ==
  \/ \E t \in Tasks : NcTask(t)
  \/ \E n \in Signed, skew \in Skews : CreateSigned(n, skew)
  \/ (\E n \in LoginNonces : StoreNonce(n)) \/ Tick

NcSpec == ControlInit /\ NcInit /\ [][NcNext]_ncVars

-----------------------------------------------------------------------------
\* A claimed nonce is refused for as long as its claim is kept, which is window_secs for
\* a signed request and the timeout for a login nonce, however verifications overlap and
\* stall; a record a cleanup found to be old may be claimed sooner.  The claim of a signed
\* request can end before its window does, and the request is then accepted again.
ClaimedOnce == again \subseteq swept

=============================================================================
