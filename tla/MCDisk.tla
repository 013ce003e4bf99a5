------------------------------- MODULE MCDisk --------------------------------
(***************************************************************************)
(* Two disks for TLC: one that is read as fast as it turns, with blocks of *)
(* equal size and tracks one step apart, and one with zones, a skew and a  *)
(* slower arm.                                                             *)
(***************************************************************************)
EXTENDS DiskSim

SmallDisks ==
    {[zoning |-> <<120, 120, 120>>, skew |-> 0, rotateSpeed |-> 60, seekSpeed |-> 40, blocks |-> {0, 2, 4}],
     [zoning |-> <<90, 120, 180>>, skew |-> 1, rotateSpeed |-> 15, seekSpeed |-> 20, blocks |-> {1, 4, 5, 8}]}

SmallWindows == {-1, 1, 2}

\* Windows of raid-graphics.py.
SmallRaidWindows == {-1, 1}
=============================================================================
