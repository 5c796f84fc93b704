------------------------------ MODULE Lifecycle ------------------------------
(***************************************************************************)
(* enable / disable (_toggle) and DELETE admission (begin_delete): each is *)
(* one short transaction under the row lock.                               *)
(***************************************************************************)
EXTENDS AutomationRow

CONSTANT MaxToggles     \* bound on enables and disables

ASSUME LifecycleAssumption == MaxToggles \in Nat

\* A toggle to the state the row already has is written all the same.
Toggle(target, action) ==
    /\ Live
    /\ row.gen < MaxToggles
    /\ target = "active" => row.digest # NoImage
    /\ row' = [row EXCEPT !.matching = target, !.gen = row.gen + 1]
    /\ revisions' = Append(revisions, Revision(action, NoSha, row.digest))

EnableAutomation == Toggle("active", "enable")

DisableAutomation == Toggle("inactive", "disable")

\* Step 1 of the cascade.  A repeated DELETE changes nothing; a row in the
\* middle of a build refuses.
BeginDelete ==
    /\ Live
    /\ row.build # "building"
    /\ row' = [row EXCEPT !.matching = "deleting", !.step = 1,
                          !.gen = row.gen + 1]
    /\ revisions' = Append(revisions, Revision("delete", NoSha, row.digest))
==============================================================================
