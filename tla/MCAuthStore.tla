----------------------------- MODULE MCAuthStore -----------------------------
(* Constants of the run of AuthStore: one user with an authenticator, or two *)
(* users whose roles and reset tokens change.                                *)
EXTENDS AuthStore, TLC

CONSTANTS u1, u2

OneFactor == [users |-> {u1}, enrolling |-> {u1}, sessions |-> 2, fresh |-> 2, time |-> 3]
TwoMembers == [users |-> {u1, u2}, enrolling |-> {}, sessions |-> 2, fresh |-> 2, time |-> 1]
MCLimits == {OneFactor, TwoMembers}

Alike == Permutations(Thread)
=============================================================================
