--------------------------- MODULE MCOutboxWorker ---------------------------
(* A small instance of OutboxWorker: one worker, whose lease never overlaps another's. *)
EXTENDS OutboxWorker

CONSTANTS m1, m2, w1

OneWorker == {w1}
TwoEvents == 1 .. 2
TwoMessages == {m1, m2}
=============================================================================
