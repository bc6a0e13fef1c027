------------------------------ MODULE Sessions ------------------------------
(***************************************************************************)
(* identity/stateless.go: a SessionManager, the StatelessIdentity objects  *)
(* it derives, and callers that keep the pointer Current gave them.        *)
(* Current gives up its read lock when the session has timed out and locks *)
(* the manager afterwards: two steps, with anything in between.            *)
(***************************************************************************)
EXTENDS Integers

CONSTANTS Caller,      \* callers of Current
          Default,     \* the lock timeout of NewSessionManager
          Timeouts,    \* values given to SetLockTimeout
          Lifetime,    \* how long a derived identity is valid
          MaxDerived,  \* bound: identities derived
          MaxTime,     \* bound: the clock
          None         \* the nil pointer

SID == 1 .. MaxDerived

VARIABLES identities,   \* the objects derived so far: key present, expiry
          current,      \* sm.current
          autoLockAt,   \* sm.autoLockAt
          lockTimeout,  \* sm.lockTimeout
          callers,      \* what each caller holds, and whether it is about to lock
          now           \* time.Now()

vars == <<identities, current, autoLockAt, lockTimeout, callers, now>>

Init ==
  /\ identities = [s \in SID |-> None]
  /\ current = None
  /\ autoLockAt = 0
  /\ lockTimeout = Default
  /\ callers = [p \in Caller |-> [holds |-> None, locking |-> FALSE]]
  /\ now = 0

Derived == {s \in SID : identities[s] # None}

(* StatelessIdentity.Lock: the key is wiped.                               *)
Locked(s) == [identities EXCEPT ![s].key = FALSE]

IsValid(s) == identities[s].key /\ now <= identities[s].expiresAt

(* Mutant: the previous session is forgotten and not locked.               *)
ForgetPrevious == identities

LockPrevious == IF current = None THEN identities ELSE Locked(current)

(* A failed derivation leaves the locked identity current.                 *)
Unlock ==
  \/ \E s \in SID \ Derived :
       /\ \A t \in SID : t < s => t \in Derived
       /\ identities' = [LockPrevious EXCEPT ![s] =
                           [key |-> TRUE, expiresAt |-> now + Lifetime]]
       /\ current' = s
       /\ autoLockAt' = now + lockTimeout
       /\ UNCHANGED <<lockTimeout, callers, now>>
  \/ /\ identities' = LockPrevious
     /\ UNCHANGED <<current, autoLockAt, lockTimeout, callers, now>>

Lock ==
  /\ current # None
  /\ identities' = Locked(current)
  /\ current' = None
  /\ UNCHANGED <<autoLockAt, lockTimeout, callers, now>>

Current(p) ==
  /\ ~callers[p].locking
  /\ current # None
  /\ callers' = [callers EXCEPT ![p] =
                   IF now > autoLockAt THEN [holds |-> None, locking |-> TRUE]
                   ELSE [holds |-> IF IsValid(current) THEN current ELSE None,
                         locking |-> FALSE]]
  /\ UNCHANGED <<identities, current, autoLockAt, lockTimeout, now>>

(* sm.Lock, after the read lock was given up.                              *)
CurrentLocks(p) ==
  /\ callers[p].locking
  /\ identities' = IF current = None THEN identities ELSE Locked(current)
  /\ current' = None
  /\ callers' = [callers EXCEPT ![p].locking = FALSE]
  /\ UNCHANGED <<autoLockAt, lockTimeout, now>>

Touch ==
  /\ autoLockAt' = now + lockTimeout
  /\ UNCHANGED <<identities, current, lockTimeout, callers, now>>

SetLockTimeout(d) ==
  /\ lockTimeout' = d
  /\ autoLockAt' = now + d
  /\ UNCHANGED <<identities, current, callers, now>>

(* Of an identity a caller still holds.                                    *)
ExtendSession(p, d) ==
  /\ callers[p].holds # None
  /\ identities' = [identities EXCEPT ![callers[p].holds].expiresAt = now + d]
  /\ UNCHANGED <<current, autoLockAt, lockTimeout, callers, now>>

Tick ==
  /\ now < MaxTime
  /\ now' = now + 1
  /\ UNCHANGED <<identities, current, autoLockAt, lockTimeout, callers>>

Next ==
  \/ Unlock \/ Lock \/ Touch \/ Tick
  \/ \E d \in Timeouts : SetLockTimeout(d)
  \/ \E p \in Caller : Current(p) \/ CurrentLocks(p)
  \/ \E p \in Caller, d \in Timeouts : ExtendSession(p, d)

Spec == Init /\ [][Next]_vars

-----------------------------------------------------------------------------
(* Only the current identity can have its key: whoever still holds an      *)
(* earlier one, however the automatic lock and an unlock interleave, Sign  *)
(* refuses, because the key was wiped when the session ended.              *)
KeysEndWithSession == \A s \in Derived : identities[s].key => s = current
=============================================================================
