------------------------ MODULE MCCollectionDelivery ------------------------
(* A collection of two videos, two taps at a time, two workers.             *)
EXTENDS CollectionDelivery

CONSTANTS t1, t2, w1, w2

\* The taps of the viewer, and one fault of each other kind.
TwoTaps == [k \in Faults |-> IF k = "tap" THEN 2 ELSE 1]
=============================================================================
