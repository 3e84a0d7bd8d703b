-------------------------- MODULE EnrollmentPromise --------------------------
(***************************************************************************)
(* What adding an Agent promises, without journal, leases, files, messages *)
(* or crashes: a job is opened, may be saved once, and ends exactly once,  *)
(* enrolled or closed; only a saved job is enrolled; and of the jobs for   *)
(* one endpoint or identity at most one is.  Saving is irrevocable: only   *)
(* an unsaved job can be closed by a deadline or by the user.              *)
(***************************************************************************)
CONSTANTS
  Jobs,    \* enrollment IDs
  Target   \* [Jobs -> ...]: what a job enrolls

VARIABLE outcome   \* [Jobs -> Outcomes]

Outcomes == {"absent", "open", "saved", "enrolled", "closed"}

Init == outcome = [j \in Jobs |-> "absent"]

Taken(j) == \E k \in Jobs : outcome[k] = "enrolled" /\ Target[k] = Target[j]

\* Unsaved jobs are closed together; a new job may be opened with them, by the
\* create that counts the free places.
Sweep(new) ==
  \E C \in SUBSET {j \in Jobs : outcome[j] = "open"} :
    outcome' = [j \in Jobs |-> CASE j \in new -> "open"
                                 [] j \in C -> "closed"
                                 [] OTHER -> outcome[j]]

Close == Sweep({})
Open(j) == outcome[j] = "absent" /\ Sweep({j})

Save(j) ==
  /\ outcome[j] = "open" /\ ~Taken(j)
  /\ outcome' = [outcome EXCEPT ![j] = "saved"]

Enroll(j) ==
  /\ outcome[j] = "saved" /\ ~Taken(j)
  /\ outcome' = [outcome EXCEPT ![j] = "enrolled"]

\* The Agent refused, or the target was enrolled by another job meanwhile.
Fail(j) ==
  /\ outcome[j] = "saved"
  /\ outcome' = [outcome EXCEPT ![j] = "closed"]

Next == Close \/ \E j \in Jobs : Open(j) \/ Save(j) \/ Enroll(j) \/ Fail(j)

Spec == Init /\ [][Next]_outcome
=============================================================================
