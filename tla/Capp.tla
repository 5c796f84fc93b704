-------------------------------- MODULE Capp --------------------------------
(***************************************************************************)
(* CAPP as the client's contract describes it: at most one deployment per  *)
(* automation, named after it, fixed to the wallet it was created in, and  *)
(* one Keep-owned run-auth Secret per wallet it was created in.            *)
(***************************************************************************)
EXTENDS AutomationRow

VARIABLES
    capp,       \* the automation's deployment; wallet = NoWallet: none
    secrets     \* the wallets that hold its run-auth Secret

NoCapp == [wallet |-> NoWallet, image |-> NoImage]
CappLive == capp.wallet # NoWallet

\* Idempotent by automation id: an existing deployment takes the image, one
\* in another wallet is torn down and recreated in this one.
CreateDeployment(w, image) ==
    /\ capp' = [wallet |-> w, image |-> image]
    /\ secrets' = secrets \cup {w}

\* A deployment that no longer exists is never recreated.
Rollout(image) ==
    /\ CappLive
    /\ capp' = [capp EXCEPT !.image = image]
    /\ UNCHANGED secrets

\* Both deletions are delete-if-exists, in the wallet the caller names.
DeleteCapp(w) ==
    /\ capp' = IF capp.wallet = w THEN NoCapp ELSE capp
    /\ UNCHANGED secrets

DeleteSecret(w) ==
    /\ secrets' = secrets \ {w}
    /\ UNCHANGED capp

CappInit ==
    /\ capp = NoCapp
    /\ secrets = {}

CappTypeOK ==
    /\ capp \in [wallet : Wallets \cup {NoWallet}, image : Images]
    /\ secrets \subseteq Wallets \cup {NoWallet}
==============================================================================
