---------------------------- MODULE RedisServer ----------------------------
(***************************************************************************)
(* What the structures in wakuwaku-entity/src/redis rely on: a server      *)
(* whose commands and scripts are atomic, and whose keys expire.           *)
(*                                                                         *)
(* Time is relative.  A key's time to live counts down to 0, at which the  *)
(* key is gone; 0 in a key that exists means that it has no expiry, which  *)
(* is what PTTL reports as -1.                                             *)
(***************************************************************************)
EXTENDS Naturals

\* A duration as Redis accepts it: whole milliseconds, at least one.
Millis(duration) == IF duration < 1 THEN 1 ELSE duration

\* One millisecond less of a time to live or of a lease.
Less(ttl) == IF ttl = 0 THEN 0 ELSE ttl - 1

\* The key with this time to live is removed by the next millisecond.
Expires(ttl) == ttl = 1
=============================================================================
