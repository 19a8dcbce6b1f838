--------------------------- MODULE MCPublishFlow ---------------------------
(* One plan with two targets on the same device; the second needs to be    *)
(* confirmed.                                                              *)
EXTENDS PublishFlow, TLC
CONSTANTS p1, t1, t2, d1

MCOrder == p1 :> <<t1, t2>>
MCDeviceOf == t1 :> d1 @@ t2 :> d1
MCMaxRuns == p1 :> 2
=============================================================================
