-------------------------- MODULE MC_ResponseService --------------------------
(* Two requests at a time; three responses, of which the store keeps one    *)
(* and the cache two: the store evicts what the cache still has, and what   *)
(* is being continued, which then only the lease can restore; and what an   *)
(* earlier web service has left in the cache is displaced.                  *)
EXTENDS ResponseService
=============================================================================
