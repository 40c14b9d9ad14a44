-------------------------- MODULE MCRequestAdmission --------------------------
(***************************************************************************)
(* An instance of RequestAdmission in which each limit is the one that     *)
(* refuses somebody: r1 and r2 have one actor, r2 and r3 one project, and  *)
(* r1, r3 and r4 only share the server.                                    *)
(***************************************************************************)
EXTENDS RequestAdmission

CONSTANTS r1, r2, r3, r4, ann, bob, cyd, sales, legal, staff, o1, o2

Tracks == [r \in Requests |-> IF r = r2 THEN {o1, o2} ELSE {o1}]
ActorOf ==
  [r \in Requests |-> CASE r \in {r1, r2} -> ann [] r = r3 -> bob [] r = r4 -> cyd]
ProjectOf ==
  [r \in Requests |-> CASE r = r1 -> sales [] r \in {r2, r3} -> legal [] r = r4 -> staff]
=============================================================================
