---------------------------- MODULE MCAttendance ----------------------------
(* One member who attends over some days, by command and by voice at once. *)
EXTENDS Attendance

CONSTANTS u1, c1, c2

MCUser == {u1}
MCClaim == {c1, c2}
MCDaily == {0, 1}
MCMilestone == {2}
MCBonus == [m \in MCMilestone |-> 1]
MCNone == {}
=============================================================================
