------------------------------ MODULE MCTracker ------------------------------
(* Values for Tracker's constants.  The speeds are small: one forward speed, *)
(* turns within and beyond the publisher's clamp, one alignment command      *)
(* beyond _max_angvel (prop_gain * e reaches 2.5, w_max is 1.8).             *)
EXTENDS Tracker

Short == [dur |-> 1, long |-> FALSE]
Long  == [dur |-> 1, long |-> TRUE]

ShortOnly    == {Short}
ShortAndLong == {Short, Long}

OneLin == {1}
OneAng == {2}
Align3 == {3}

StepDown == {-1}

NLOPT == {"track_acc_nlopt"}
IPOPT == {"track_acc_ipopt"}
=============================================================================
