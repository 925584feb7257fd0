---------------------------- MODULE MCPublishing -----------------------------
(* Four small instances of VersionPipeline in one state graph: the review  *)
(* of a version from its creation, the governance of one that is approved  *)
(* by its publisher's status and by the key that signs, and, with the      *)
(* constants of the configuration, validations handed out again.  area     *)
(* says which of them a behaviour is of.                                   *)
EXTENDS VersionPipeline, TLC

CONSTANTS v1, p1, p2, u1, u2, x1, a1, a2, w1, w2

VARIABLE area

Role == {"UPLOAD", "REVIEW", "PUBLISH", "MANAGE"}

Review == INSTANCE VersionPipeline WITH
  Version <- {v1}, Package <- {p1}, User <- {u1, u2}, School <- {x1}, Slot <- {a1, a2},
  Worker <- {w1}, Grants <- [u \in {u1, u2} |-> Role], Separation <- TRUE, Approved <- FALSE,
  Open <- {"draft", "upload", "decide", "appeal", "delete", "purge", "school"},
  Crashes <- 0, Redeliveries <- 0
Govern == INSTANCE VersionPipeline WITH
  Version <- {v1}, Package <- {p1}, User <- {u1, u2}, School <- {x1}, Slot <- {a1, a2},
  Worker <- {w1}, Grants <- [u \in {u1, u2} |-> Role], Separation <- TRUE, Approved <- TRUE,
  Open <- {"decide", "purge", "publisher", "school"}, Crashes <- 1, Redeliveries <- 0
Sign == INSTANCE VersionPipeline WITH
  Version <- {v1}, Package <- {p1}, User <- {u1, u2}, School <- {x1}, Slot <- {a1, a2},
  Worker <- {w1}, Grants <- [u \in {u1, u2} |-> Role], Separation <- TRUE, Approved <- TRUE,
  Open <- {"decide", "purge", "key", "school"}, Crashes <- 1, Redeliveries <- 0
Uploader == [u \in {u1} |-> Role]
Uploads == {"upload"}

MCInit ==
  \/ area = "review" /\ Review!Init
  \/ area = "govern" /\ Govern!Init
  \/ area = "sign" /\ Sign!Init
  \/ area = "validate" /\ Init

MCNext ==
  \/ area = "review" /\ Review!Next /\ UNCHANGED area
  \/ area = "govern" /\ Govern!Next /\ UNCHANGED area
  \/ area = "sign" /\ Sign!Next /\ UNCHANGED area
  \/ area = "validate" /\ Next /\ UNCHANGED area

MCSpec == MCInit /\ [][MCNext]_<<area, vars>>

Interchangeable == Permutations({u1, u2}) \cup Permutations({a1, a2})
=============================================================================
