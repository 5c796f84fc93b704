---------------------------- MODULE AutomationRow ----------------------------
(***************************************************************************)
(* The one `automations` row that authoring, the CI webhook, the toggles   *)
(* and the delete cascade share, with its `automation_revisions` audit     *)
(* log.  A locked transaction or a compare-and-set UPDATE on the row is one *)
(* atomic step; everything between two transactions interleaves.           *)
(*                                                                         *)
(* NULL is 0 for a SHA, a deadline and the cascade step, NoImage for the   *)
(* active digest and NoWallet for the deployment.                          *)
(***************************************************************************)
EXTENDS Naturals, Sequences, FiniteSets

CONSTANTS
    Wallets,    \* CAPP wallets an author may name as `namespace`
    NoWallet    \* NULL of a wallet-valued column

ASSUME WalletAssumption == NoWallet \notin Wallets

VARIABLES
    row,        \* the automations row
    revisions   \* its automation_revisions, in commit order

MatchingStates == {"inactive", "active", "deleting", "deleted"}
DeletionStates == {"deleting", "deleted"}
BuildStates == {"idle", "building", "build_failed"}
RevisionActions == {"create", "edit", "enable", "disable", "delete",
                    "build_succeeded", "build_failed"}

\* The human actions that commit a script and so request a build.
RequestingActions == {"create", "edit"}

NoSha == 0
NoDeadline == 0

\* A pushed image: the commit it was built from and which run of that
\* commit's pipeline built it (two runs push two digests).
Images == [sha : Nat, run : Nat]
NoImage == [sha |-> 0, run |-> 0]

\* `deployed` is capp_deployment_id/deployment_url: the wallet the stored
\* deployment was created in.  "absent": no row with this id (404).
Rows == [matching  : MatchingStates \cup {"absent"},
         build     : BuildStates,
         sha       : Nat,
         deadline  : Nat,
         digest    : Images,
         deployed  : Wallets \cup {NoWallet},
         namespace : Wallets \cup {NoWallet},
         step      : 0..5,
         gen       : Nat]

NoRow == [matching |-> "absent", build |-> "idle", sha |-> NoSha,
          deadline |-> NoDeadline, digest |-> NoImage,
          deployed |-> NoWallet, namespace |-> NoWallet,
          step |-> 0, gen |-> 0]

Revisions == [action : RevisionActions, sha : Nat, digest : Images]

Revision(action, sha, digest) ==
    [action |-> action, sha |-> sha, digest |-> digest]

\* A slip: only `deleted` ends the life of the row.
LiveUnlessDeleted == row.matching \in {"inactive", "active", "deleting"}

\* The row can be found by id and is not on the one-way deletion path.
Live == row.matching \in {"inactive", "active"}

\* The newest create/edit revision is the one that requested commit s.  The
\* source orders by created_at; the build claim keeps two such revisions from
\* overlapping, so for these actions it is the commit order.
LatestRequestIs(s) ==
    \E i \in DOMAIN revisions :
        /\ revisions[i].action \in RequestingActions
        /\ revisions[i].sha = s
        /\ \A j \in DOMAIN revisions :
              revisions[j].action \in RequestingActions => j <= i

RowTypeOK ==
    /\ row \in Rows
    /\ revisions \in Seq(Revisions)
==============================================================================
