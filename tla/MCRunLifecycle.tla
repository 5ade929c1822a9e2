--------------------------- MODULE MCRunLifecycle ---------------------------
(* Small instances of RunLifecycle.                                         *)
EXTENDS RunLifecycle

(* Every stream executes the same run, or each its own.                     *)
SharedRun == [s \in Streams |-> CHOOSE r \in Runs : TRUE]

OwnRun == CHOOSE f \in [Streams -> Runs] :
            \A s, t \in Streams : f[s] = f[t] => s = t
=============================================================================
