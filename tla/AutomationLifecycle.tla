-------------------------- MODULE AutomationLifecycle --------------------------
(***************************************************************************)
(* What the control plane promises the owner of one automation, without    *)
(* claims, webhooks, retries or cascade steps: the script that is served   *)
(* was built from the newest submission, in the wallet it was submitted    *)
(* for; matching is switched on only for something that is served; and     *)
(* deletion is one-way and ends everything else.                           *)
(***************************************************************************)
EXTENDS Naturals

CONSTANTS Wallets, NoWallet

VARIABLES
    stage,      \* "none", then "off" / "on", then "deleting", then "deleted"
    asked,      \* the commits submitted so far
    newest,     \* the newest of them
    serving,    \* the image on record as served
    wallet,     \* the wallet of the newest submission
    home        \* the wallet the served image runs in

lifecycleVars == <<stage, asked, newest, serving, wallet, home>>

Nothing == [sha |-> 0, run |-> 0]

LifecycleInit ==
    /\ stage = "none"
    /\ asked = {}
    /\ newest = 0
    /\ serving = Nothing
    /\ wallet = NoWallet
    /\ home = NoWallet

Usable == stage \in {"off", "on"}

\* A submission is of a commit nobody submitted before.
Submits(w) ==
    /\ newest' \in Nat \ asked
    /\ asked' = asked \cup {newest'}
    /\ wallet' = w
    /\ UNCHANGED <<serving, home>>

Create(w) ==
    /\ stage = "none"
    /\ stage' = "off"
    /\ Submits(w)

\* What already runs somewhere stays there.
Resubmit(w) ==
    /\ Usable
    /\ home = NoWallet \/ w = wallet
    /\ Submits(w)
    /\ UNCHANGED stage

Serve ==
    /\ Usable
    /\ serving'.sha = newest
    /\ home' = wallet
    /\ UNCHANGED <<stage, asked, newest, wallet>>

SwitchOn ==
    /\ Usable
    /\ serving # Nothing
    /\ stage' = "on"
    /\ UNCHANGED <<asked, newest, serving, wallet, home>>

SwitchOff ==
    /\ Usable
    /\ stage' = "off"
    /\ UNCHANGED <<asked, newest, serving, wallet, home>>

Delete ==
    /\ Usable
    /\ stage' = "deleting"
    /\ UNCHANGED <<asked, newest, serving, wallet, home>>

Reclaim ==
    /\ stage = "deleting"
    /\ stage' = "deleted"
    /\ UNCHANGED <<asked, newest, serving, wallet, home>>

LifecycleNext ==
    \/ \E w \in Wallets : Create(w) \/ Resubmit(w)
    \/ Serve
    \/ SwitchOn
    \/ SwitchOff
    \/ Delete
    \/ Reclaim

LifecycleSpec == LifecycleInit /\ [][LifecycleNext]_lifecycleVars
==============================================================================
