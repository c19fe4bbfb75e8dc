------------------------- MODULE MC_DownloadManager -------------------------
(* Two calls in one process and one in another, about two models. *)
EXTENDS DownloadManager, TLC
CONSTANTS t1, t2, t3, p1, p2
ThreadsMC == {t1, t2, t3}
ProcessOfMC == t1 :> p1 @@ t2 :> p1 @@ t3 :> p2
=============================================================================
