------------------------- MODULE RunLifecycleApproval -------------------------
(***************************************************************************)
(* One course of RunLifecycle, for the run that looks for a publication    *)
(* nobody approved: the worker's drive of the run is slow, the owner sees  *)
(* it not move, resumes it in the API and is shown the second drive's      *)
(* text, and the slow drive stores its own unfinished draft between the    *)
(* two reads of the approval.  Every behaviour here is one of RunLifecycle.*)
(***************************************************************************)
EXTENDS RunLifecycle

\* The owner resumes, approves, and resumes again what the API died over.
Kind == <<"resume", "approve", "resume">>

Course ==
    /\ \A r \in Requests : request[r].kind \in {"none", Kind[r]} /\ request[r].at # "dead"
    /\ \A d \in Drives : drive[d].op # "fail"
    /\ \A d \in 1..2 : drive[d].at # "dead"
    /\ request[2].at = "unused" => drive[1].at \in {"begin", "driving"}
    /\ request[3].at # "unused" => submitted >= 3 /\ ~Running(3)
    /\ ~aged

CourseSpec == Init /\ [][Next /\ Course']_vars
================================================================================
