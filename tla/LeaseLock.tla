----------------------------- MODULE LeaseLock -----------------------------
(***************************************************************************)
(* What the locks of wakuwaku-entity promise (the module comment of        *)
(* redis/collection/lock.rs): trying never waits, a lease is granted if    *)
(* and only if no running lease clashes with it, and it runs until it is   *)
(* released or its time is over, unless it is restarted before.            *)
(***************************************************************************)
EXTENDS Naturals

CONSTANTS Token, LeaseTime

VARIABLES
  leases,  \* the running leases: whose, for what, and how long still
  answer   \* the output of the last query

leaseVars == <<leases, answer>>

Modes == {"lock", "write", "read"}

\* Leases that may not run at the same time: two of a Lock, or two of an
\* RwLock that are not both of readers.
Clash(m, n) ==
  \/ m = "lock" /\ n = "lock"
  \/ m = "write" /\ n \in {"write", "read"}
  \/ m = "read" /\ n = "write"

Lease(t, m, d) == [token |-> t, mode |-> m, left |-> d]

LeasesOf(t) == {l \in leases : l.token = t}

LeaseInit == leases = {} /\ answer = FALSE

Grant(t, m, d) ==
  /\ LeasesOf(t) = {}
  /\ \A l \in leases : ~ Clash(l.mode, m)
  /\ leases' = leases \cup {Lease(t, m, d)}
  /\ answer' = TRUE

Refuse(m) ==
  /\ \E l \in leases : Clash(l.mode, m)
  /\ answer' = FALSE
  /\ UNCHANGED leases

Restart(t, d) ==
  /\ answer' = (LeasesOf(t) # {})
  /\ leases' = (leases \ LeasesOf(t)) \cup {Lease(t, l.mode, d) : l \in LeasesOf(t)}

GiveBack(t) ==
  /\ answer' = (LeasesOf(t) # {})
  /\ leases' = leases \ LeasesOf(t)

PassTime ==
  /\ leases' = {Lease(l.token, l.mode, l.left - 1) : l \in {l \in leases : l.left > 1}}
  /\ UNCHANGED answer

LeaseNext ==
  \/ \E t \in Token, m \in Modes, d \in LeaseTime : Grant(t, m, d)
  \/ \E m \in Modes : Refuse(m)
  \/ \E t \in Token, d \in LeaseTime : Restart(t, d)
  \/ \E t \in Token : GiveBack(t)
  \/ PassTime

LeaseSpec == LeaseInit /\ [][LeaseNext]_leaseVars
=============================================================================
