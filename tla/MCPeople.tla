------------------------------ MODULE MCPeople -------------------------------
(* Who may do what with whose consent: a small instance of SchoolDeletion  *)
(* and one of RestoreApproval in one state graph, with their symmetries.   *)
(* area says which of them a behaviour is of.  The configuration gives the *)
(* constants their values.                                                 *)
EXTENDS SchoolDeletion, TLC

CONSTANTS
  r1, a1, a2, a3, h1, h2, h3, w1, w2, o1, o2, e1,
  RestoreCall, Edit, Stallable, Crashable

VARIABLES area, rRequest, submitter, source, content, safety, rHandler, rBull, rWorker,
          rCrashes, submitted, approvers, restored

Restores == INSTANCE RestoreApproval WITH
  request <- rRequest, handler <- rHandler, bull <- rBull, worker <- rWorker, crashes <- rCrashes,
  Handler <- RestoreCall, ApiFaults <- TRUE, WorkerFaults <- TRUE

restoreVars == <<rRequest, submitter, source, content, safety, rHandler, rBull, rWorker, rCrashes,
                 submitted, approvers, restored>>

MCInit == area \in {"deletion", "restore"} /\ Init /\ Restores!Init

MCNext ==
  \/ area = "deletion" /\ Next /\ UNCHANGED <<area, restoreVars>>
  \/ area = "restore" /\ Restores!Next /\ UNCHANGED <<area, vars>>

MCSpec == MCInit /\ [][MCNext]_<<area, vars, restoreVars>>

(* A restore takes a requester, an approver and a submitter who are three  *)
(* people, unless a second administrator approved it again.                *)
ThreePeople == Restores!ThreePeople
(* A restore loses nothing of what the school held when it was submitted,  *)
(* and one that FAILED left the content alone.                             *)
RestoreIsSafe == Restores!SubmissionIsSafe /\ Restores!FailedLeavesContent
(* Nothing is restored twice for one approval.                             *)
RestoredOnce == Restores!RestoredOnce

Interchangeable ==
  Permutations(Actor) \cup Permutations(RestoreCall) \cup Permutations(Worker)
=============================================================================
