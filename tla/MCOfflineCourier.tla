-------------------------- MODULE MCOfflineCourier --------------------------
(* Instances of OfflineCourier for TLC.                                    *)
EXTENDS OfflineCourier
=============================================================================
