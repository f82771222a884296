-------------------------- MODULE RequestPromises --------------------------
(***************************************************************************)
(* What the protocol client promises the callers of one request each, with *)
(* no socket, no queue and no read loop in sight: a request is executed at *)
(* most once, it settles at most once, and it is answered only by its own  *)
(* execution.  A request that failed or timed out may have been executed,  *)
(* or may still be.  No such promise is made to a request that is lost:    *)
(* sent on a connection that does not keep its frames apart, it may be told*)
(* anything, though once only.                                             *)
(***************************************************************************)
EXTENDS Naturals

CONSTANT Request

VARIABLES
    outcome,   \* what the caller of each request knows
    executed,  \* how often the server executed it
    lost       \* the requests nothing is promised to

vars == <<outcome, executed, lost>>

Init ==
    /\ outcome = [r \in Request |-> "idle"]
    /\ executed = [r \in Request |-> 0]
    /\ lost = {}

Call(r) ==
    /\ outcome[r] = "idle"
    /\ outcome' = [outcome EXCEPT ![r] = "pending"]
    /\ UNCHANGED <<executed, lost>>

Execute(r) ==
    /\ outcome[r] # "idle"
    /\ executed[r] = 0
    /\ executed' = [executed EXCEPT ![r] = 1]
    /\ UNCHANGED <<outcome, lost>>

Answer(r) ==
    /\ outcome[r] = "pending"
    /\ executed[r] = 1 \/ r \in lost
    /\ outcome' = [outcome EXCEPT ![r] = "answered"]
    /\ UNCHANGED <<executed, lost>>

Timeout(r) ==
    /\ outcome[r] = "pending"
    /\ outcome' = [outcome EXCEPT ![r] = "timedout"]
    /\ UNCHANGED <<executed, lost>>

(* A lost connection fails every request that waits on it at once.         *)
Fail ==
    /\ outcome' \in [Request -> {"idle", "pending", "answered", "failed", "timedout"}]
    /\ \A r \in Request :
         outcome'[r] # outcome[r] => outcome[r] = "pending" /\ outcome'[r] = "failed"
    /\ UNCHANGED <<executed, lost>>

(* A connection gets out of step, or takes one request more.               *)
Lose ==
    /\ lost \subseteq lost'
    /\ \A r \in lost' : outcome[r] # "idle"
    /\ outcome' = [r \in Request |-> outcome'[r]]
    /\ \A r \in Request :
         outcome'[r] # outcome[r] =>
           r \in lost' /\ outcome[r] = "pending" /\ outcome'[r] = "answered"
    /\ UNCHANGED executed

Next ==
    \/ \E r \in Request : Call(r) \/ Execute(r) \/ Answer(r) \/ Timeout(r)
    \/ Fail \/ Lose

Spec == Init /\ [][Next]_vars

=============================================================================
