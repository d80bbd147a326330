------------------------------ MODULE RedisLease ------------------------------
(***************************************************************************)
(* customer360-backend/shared/redis_lock.py: a Redis key that holds the    *)
(* token of one worker.  A lease is the token of its owner, or NoOwner     *)
(* when the key is absent; the key may expire whenever its owner has not   *)
(* refreshed it for the lease's TTL, so between any two steps of a slow    *)
(* owner.                                                                  *)
(***************************************************************************)
CONSTANT NoOwner

\* Mutant: SET without NX.
AcquirableAlways(lease) == TRUE

\* SET key token NX EX ttl; None when the key is already there.
Acquirable(lease) == lease = NoOwner

\* Mutant: the script asks only whether the key is there.
RefreshableIfPresent(lease, token) == lease # NoOwner

\* The refresh script compares the token: a lost lease raises.
Refreshable(lease, token) == lease = token

\* The release script deletes the key of this token only.
Released(lease, token) == IF lease = token THEN NoOwner ELSE lease

\* The key reaches its TTL.
Expired(lease) == NoOwner
=============================================================================
