----------------------------- MODULE JobVerdict -----------------------------
(***************************************************************************)
(* What the Control Panel may believe of an updater job once it has        *)
(* accepted a result: an abstract job whose verdict is right about the     *)
(* host when it is given, and stays right until another command begins.    *)
(*                                                                         *)
(* reached[c] holds "target" while every place command c is about is at    *)
(* the state c asks for, and "rollback" while it is at the state c falls   *)
(* back to.                                                                *)
(***************************************************************************)
CONSTANTS Commands, Nobody

Goals == {"target", "rollback"}
Verdicts == {"none", "succeeded", "rolled_back", "failed", "canceled"}

VARIABLES
  current,  \* the command whose job holds the host, or Nobody
  verdict,  \* what is believed of each command
  reached   \* the goals of each command that the host is at

vars == <<current, verdict, reached>>

\* The types of the abstract job.
TypeOK ==
  /\ current \in Commands \cup {Nobody}
  /\ verdict \in [Commands -> Verdicts]
  /\ reached \in [Commands -> SUBSET Goals]

\* A verdict on the current command that says where the host is.
Settled == current # Nobody /\ verdict[current] \in {"succeeded", "rolled_back"}

Init ==
  /\ current = Nobody
  /\ verdict = [c \in Commands |-> "none"]
  /\ reached \in [Commands -> SUBSET Goals]

\* The host is handed to an undecided command once the one before is decided.
Take(c) ==
  /\ verdict[c] = "none"
  /\ current = Nobody \/ verdict[current] # "none"
  /\ current' = c
  /\ UNCHANGED <<verdict, reached>>

\* The host changes only for a command that has not settled: once it has,
\* nothing the settled command is about moves any more.
Work ==
  /\ reached' \in [Commands -> SUBSET Goals]
  /\ Settled => reached'[current] = reached[current]
  /\ UNCHANGED <<current, verdict>>

Decide(v) ==
  /\ current # Nobody
  /\ verdict[current] = "none"
  /\ v = "succeeded" => "target" \in reached[current]
  /\ v = "rolled_back" => "rollback" \in reached[current]
  /\ verdict' = [verdict EXCEPT ![current] = v]
  /\ UNCHANGED <<current, reached>>

Next ==
  \/ \E c \in Commands : Take(c)
  \/ Work
  \/ \E v \in Verdicts \ {"none"} : Decide(v)

Spec == Init /\ [][Next]_vars

\* The verdict on the command that holds the host is true of the host, for as
\* long as that command is the last one: nothing undoes what was accepted.
VerdictHolds ==
  current # Nobody =>
    /\ verdict[current] = "succeeded" => "target" \in reached[current]
    /\ verdict[current] = "rolled_back" => "rollback" \in reached[current]
=============================================================================
