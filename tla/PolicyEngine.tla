---------------------------- MODULE PolicyEngine ----------------------------
(***************************************************************************)
(* permission::PolicyEngine: what a session may do without asking, what    *)
(* was asked and what was approved. All of it lives in memory, under one   *)
(* mutex, in the session's agent. A call is known by its fingerprint: the  *)
(* tool's name and its arguments, which a command's gate builds from its   *)
(* descriptor.                                                             *)
(***************************************************************************)
EXTENDS Naturals, FiniteSets

CONSTANT MaxAsks    \* bound on requests that wait for the user

VARIABLES
    session_allow_, \* policy keys allowed for the rest of the session
    approved_once_, \* fingerprints approved for one call
    pending_,       \* requests, [permission_id, key, print]
    asks,           \* the next permission_id
    approvals,      \* history: the ids approved for one call, [id, print]
    grants          \* history: the calls a one-time approval let through,
                    \* [n, print]

policyVars == <<session_allow_, approved_once_, pending_, asks, approvals, grants>>

\* The policy key of a tool; "" is "no restrictive policy matched", which
\* is what safe_code_change gets.
PolicyKey(tool) ==
    CASE tool = "apply_patch"        -> "patch.apply"
      [] tool = "revert_patch"       -> "patch.revert"
      [] tool = "restore_checkpoint" -> "checkpoint.restore"
      [] tool = "delete_checkpoint"  -> "checkpoint.delete"
      [] tool \in {"write_file", "delete_file"} -> "file.write"
      [] OTHER -> ""

\* Mutant: the one-time approval is found but not taken out.
Take_Keep(print) == UNCHANGED approved_once_

\* approved_once_.erase(fingerprint).
Take(print) == approved_once_' = approved_once_ \ {print}

\* The first disjunct of ask(): allowed, at the price of an approval when the
\* key itself is not allowed for the session.
Allowed(tool, print) ==
    LET key == PolicyKey(tool)
    IN  /\ \/ key = "" \/ key \in session_allow_
           \/ print \in approved_once_
        /\ IF key = "" \/ key \in session_allow_
           THEN UNCHANGED <<approved_once_, grants>>
           ELSE /\ Take(print)
                /\ grants' = grants \cup {[n |-> Cardinality(grants), print |-> print]}
        /\ UNCHANGED <<session_allow_, pending_, asks, approvals>>

\* The second: the request is kept for the user and the call is refused.
Asked(tool, print) ==
    LET key == PolicyKey(tool)
    IN  /\ key # "" /\ key \notin session_allow_ /\ print \notin approved_once_
        /\ asks < MaxAsks
        /\ asks' = asks + 1
        /\ pending_' = pending_ \cup
               {[permission_id |-> asks, key |-> key, print |-> print]}
        /\ UNCHANGED <<session_allow_, approved_once_, approvals, grants>>

approve(r, allow_session) ==
    /\ r \in pending_
    /\ pending_' = pending_ \ {r}
    /\ IF allow_session
       THEN /\ session_allow_' = session_allow_ \cup {r.key}
            /\ UNCHANGED <<approved_once_, approvals>>
       ELSE /\ approved_once_' = approved_once_ \cup {r.print}
            /\ approvals' = approvals \cup {[id |-> r.permission_id, print |-> r.print]}
            /\ UNCHANGED session_allow_
    /\ UNCHANGED <<asks, grants>>

deny_pending(r) ==
    /\ r \in pending_
    /\ pending_' = pending_ \ {r}
    /\ UNCHANGED <<session_allow_, approved_once_, asks, approvals, grants>>

\* The agent's process ends: nothing of this is on disk.
Forget ==
    /\ session_allow_' = {} /\ approved_once_' = {} /\ pending_' = {}
    /\ UNCHANGED <<asks, approvals, grants>>

-----------------------------------------------------------------------------

\* ask()/approve(): however calls of the same command interleave, an approval
\* for one call lets at most one call through.
ApprovalSpentOnce ==
    \A print \in {g.print : g \in grants} :
        Cardinality({g \in grants : g.print = print})
            <= Cardinality({a \in approvals : a.print = print})
=============================================================================
