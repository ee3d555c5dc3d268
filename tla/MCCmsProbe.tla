---------------------------- MODULE MCCmsProbe ----------------------------
(* Instances of CmsProbe: one contestant with two browsers at one address, *)
(* both with cookies of two contests.  CMS refreshes a cookie of the first  *)
(* browser by the one the second has for that contest, and the second may   *)
(* also send one that is far too large.  CMS turns him away in both at once. *)
EXTENDS CmsProbe, TLC

CONSTANTS t1, t2, a1, a2, f1, f2

MCCookies == {"old", "new", "other", "huge"}
MCContest == [c \in MCCookies |-> IF c = "other" THEN 1 ELSE 2]
MCUser == [c \in MCCookies |-> "pupil"]
MCLogin == MCUser
MCRefreshes == [c \in MCCookies |-> IF c = "old" THEN {"new"} ELSE {}]
MCJars == [t \in {t1, t2} |-> IF t = t1 THEN {{"old", "other"}}
                               ELSE {{"new", "other"}, {"huge"}}]
MCOversize == {"huge"}

=============================================================================
