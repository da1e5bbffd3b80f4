----------------------------- MODULE MCRollback ------------------------------
(***************************************************************************)
(* Instances of Rollback for TLC.                                          *)
(***************************************************************************)
EXTENDS Rollback

T(spec, env) == [image |-> spec, env |-> env, stamp |-> Absent]

Fields == {"image", "env", "stamp"}
Working == T(1, Absent)
Faulty  == T(2, 1)
Worse   == T(3, Absent)
Releasable == {Working, Faulty, Worse}
\* Images 2 and 3 crash, whatever their environment.
Broken == {t \in Template : t["image"] \in {2, 3}}
=============================================================================
