----------------------------- MODULE MCUserland -----------------------------
(***************************************************************************)
(* Two programs of the user module, each checked by itself: `program' says *)
(* which of them is running, and the other one stays as it began.          *)
(***************************************************************************)
EXTENDS Philosophers, Shell

VARIABLE program

userVars == <<program, philoVars, shellVars>>

(* Every kind of job, and readers at both ends of a pipe.                  *)
MCCommands ==
    {[kinds |-> <<kind>>, back |-> FALSE] : kind \in {"plain", "reader"}} \cup
    {[kinds |-> <<kind>>, back |-> TRUE]  : kind \in {"reader", "kill", "block"}} \cup
    {[kinds |-> <<"reader", "reader">>, back |-> FALSE]}

UserInit == program \in {"phylo", "shell"} /\ PhiloInit /\ ShellInit

Phylo(A) == program = "phylo" /\ A /\ UNCHANGED <<program, shellVars>>
Sh(A)    == program = "shell" /\ A /\ UNCHANGED <<program, philoVars>>

UserNext == Phylo(PhiloNext) \/ Sh(ShellNext)

(* A process that is ready gets the CPU (Scheduler!ReadyRuns), and the     *)
(* user ends what reads the keyboard.                                      *)
UserFairness ==
    /\ \A i \in All : WF_userVars(Phylo(Philosopher(i)))
    /\ WF_userVars(Phylo(Manager))
    /\ WF_userVars(Sh(ShellStep))
    /\ \A p \in Jobs : WF_userVars(Sh(JobStep(p)))

UserSpec == UserInit /\ [][UserNext]_userVars /\ UserFairness

---------------------------------------------------------------------------
(* The data of both programs is well typed: the count of philosophers      *)
(* stays within the vector, no semaphore goes while a philosopher uses it, *)
(* nobody dead is among the blocked, and the unsigned values stay in range.*)
UserTypeOK == PhiloTypeOK /\ NoSleeperLeft /\ ShellTypeOK
=============================================================================
