------------------------------ MODULE SyncCall ------------------------------
(***************************************************************************)
(* What a synchronous call of the device model promises, without threads,  *)
(* locks, caches or time: the call sends its requests to the cloud, and it *)
(* returns success only when the cloud has granted every one of them.  A   *)
(* call may fail whatever the cloud did.                                   *)
(***************************************************************************)
CONSTANTS Callers, Requests

VARIABLES busy,     \* callers that are in a call
          asks,     \* requests of the call of each caller
          granted,  \* requests that the cloud has granted
          result    \* what the last call of each caller returned

vars == <<busy, asks, granted, result>>
Asked == UNION {asks[c] : c \in Callers}

Init == /\ busy = {} /\ granted = {}
        /\ asks = [c \in Callers |-> {}]
        /\ result = [c \in Callers |-> "none"]

Call(c) == /\ c \notin busy
           /\ busy' = busy \cup {c}
           /\ result' = [result EXCEPT ![c] = "none"]
           /\ UNCHANGED <<asks, granted>>

Ask(c, r) == /\ c \in busy /\ r \notin Asked
             /\ asks' = [asks EXCEPT ![c] = @ \cup {r}]
             /\ UNCHANGED <<busy, granted, result>>

\* The cloud may grant a request long after its call has returned.
Grant(r) == /\ granted' = granted \cup {r}
            /\ UNCHANGED <<busy, asks, result>>

Return(c, res) == /\ c \in busy
                  /\ res = "ok" => asks[c] \subseteq granted
                  /\ busy' = busy \ {c}
                  /\ asks' = [asks EXCEPT ![c] = {}]
                  /\ result' = [result EXCEPT ![c] = res]
                  /\ UNCHANGED granted

Next == \/ \E c \in Callers : Call(c) \/ (\E r \in Requests : Ask(c, r))
                              \/ (\E res \in {"ok", "failed"} : Return(c, res))
        \/ \E r \in Requests : Grant(r)

Spec == Init /\ [][Next]_vars
=============================================================================
