-------------------------- MODULE MCCaptureControl --------------------------
(* Instances of CaptureControl: two request threads.                         *)
EXTENDS CaptureControl, TLC

CONSTANTS t1, t2

MCFiles == {<<"obs", "none", "obs", "obs">>, <<"obs", "obs", "bad">>}

Requesting == Permutations({t1, t2})
=============================================================================
