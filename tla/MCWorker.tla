------------------------------ MODULE MCWorker ------------------------------
(* A small instance of Worker: two requests share the job id job1 and a third *)
(* has one of its own; one reply room of three refuses every write.           *)
EXTENDS WorkerLedger, TLC

CONSTANTS did1, did2, job1, job2, job3, echo1, verify1, verify2, closed1, bad, raises,
          mailbox, shut, confirmed, unavailable

\* Values for the constants of Worker.
MCJobOf == [t \in Text |-> CASE t = verify2 -> job2 [] t = closed1 -> job3 [] OTHER -> job1]
MCRoomOf == [t \in Text |-> CASE t = echo1 -> mailbox [] t = closed1 -> shut
                              [] OTHER -> SharedRoom]

MCSymmetry == Permutations(Did)
=============================================================================
