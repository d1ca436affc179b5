----------------------------- MODULE MCLauncher -----------------------------
(* An instance of the launcher for TLC.                                     *)
EXTENDS Launcher

CONSTANTS s1, s2, s3

ThreeShards == {s1, s2, s3}
=============================================================================
