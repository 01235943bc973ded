----------------------------- MODULE JobPromise -----------------------------
(***************************************************************************)
(* What the generation API promises about a job, in terms of what its user *)
(* can see: a job that was accepted is open until it is settled, once and  *)
(* for good; the only other end is to be lost to a failure that nothing in *)
(* the service repairs.  GenerationJobs implements this.                   *)
(***************************************************************************)
CONSTANT Jobs

VARIABLE phase

Phases == {"none", "open", "settled", "lost"}

Moves == {<<"none", "open">>, <<"open", "settled">>, <<"open", "lost">>}

Init == phase = [j \in Jobs |-> "none"]

\* One step of the service may move several jobs: a crash hits all it was busy
\* with.
Next ==
  /\ phase' \in [Jobs -> Phases]
  /\ \A j \in Jobs : phase'[j] # phase[j] => <<phase[j], phase'[j]>> \in Moves

Spec == Init /\ [][Next]_phase

\* No accepted job stays open.
Settles == \A j \in Jobs : phase[j] = "open" ~> phase[j] \in {"settled", "lost"}

FairSpec == Spec /\ Settles
=============================================================================
