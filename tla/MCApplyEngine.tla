---------------------------- MODULE MCApplyEngine ----------------------------
(* Three generic objects and two workers, so that one worker takes a second *)
(* object while the other is still busy; o1 is stash-enabled.  The         *)
(* zero-worker instance is migrationMaxThreads = 0, which Init accepts.     *)
EXTENDS ApplyEngine

CONSTANTS o1, o2, o3, w1, w2

MCObjs == {o1, o2, o3}
MCStashed == {o1}
MCWorkers == {w1, w2}
MCNoWorkers == {}
=============================================================================
