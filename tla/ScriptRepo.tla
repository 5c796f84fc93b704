------------------------------ MODULE ScriptRepo ------------------------------
(***************************************************************************)
(* What a caller of commit_script may rely on: a call lands at most one    *)
(* commit; one that returns has landed and returns the SHA of its own      *)
(* commit; one that raises may have landed, or may land later, but never   *)
(* twice.                                                                  *)
(***************************************************************************)
EXTENDS Naturals, Sequences

CONSTANT Calls

VARIABLES
    landed,     \* the calls whose commits are on the branch, in commit order
    answers     \* per call: "none", "open", "raised" or "returned", and the SHA

repoVars == <<landed, answers>>

RepoInit ==
    /\ landed = << >>
    /\ answers = [c \in Calls |-> [pc |-> "none", sha |-> 0]]

Open(c) ==
    /\ answers[c].pc = "none"
    /\ answers' = [answers EXCEPT ![c].pc = "open"]
    /\ UNCHANGED landed

Land(c) ==
    /\ answers[c].pc # "none"
    /\ \A n \in DOMAIN landed : landed[n] # c
    /\ landed' = Append(landed, c)
    /\ UNCHANGED answers

Return(c) ==
    /\ answers[c].pc = "open"
    /\ \E n \in DOMAIN landed :
          /\ landed[n] = c
          /\ answers' = [answers EXCEPT ![c] = [pc |-> "returned", sha |-> n]]
    /\ UNCHANGED landed

Raise(c) ==
    /\ answers[c].pc = "open"
    /\ answers' = [answers EXCEPT ![c].pc = "raised"]
    /\ UNCHANGED landed

RepoNext == \E c \in Calls : Open(c) \/ Land(c) \/ Return(c) \/ Raise(c)

RepoSpec == RepoInit /\ [][RepoNext]_repoVars
==============================================================================
