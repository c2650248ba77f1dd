--------------------------- MODULE MCWorkDelivery ---------------------------
(* A small instance of WorkDelivery: one letter for one result of the job. *)
EXTENDS WorkDelivery

(* Every attempt may time out any number of times, or there is one human   *)
(* request or restart.                                                     *)
TimeoutsOrOneRequest ==
    {[timedOut |-> MaxAttempts, disturbances |-> 0],
     [timedOut |-> 0, disturbances |-> 1]}
=============================================================================
