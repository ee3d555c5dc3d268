-------------------------- MODULE MCStaffAccess --------------------------
(* Instances of StaffAccess: the startup administrator and a proctor, whose *)
(* class key may be remapped.                                               *)
EXTENDS StaffAccess, TLC

CONSTANTS l1, r1, r2, k1, w1

MCOperators == {"ann", "bob"}
MCAuthorities == {"admin", "old", "new"}
MCAdmins == {"admin"}
MCProctoring == {"old", "new"}
MCRescoped == [a \in MCAuthorities |-> IF a = "old" THEN "new" ELSE a]

Symmetric == Permutations({r1, r2})
=============================================================================
