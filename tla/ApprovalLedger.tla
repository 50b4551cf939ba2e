--------------------------- MODULE ApprovalLedger ---------------------------
(* What the approval queue promises the world outside its process: a       *)
(* verdict once reported as recorded is never replaced, and an approval is *)
(* handed out to be consumed at most once -- across restarts, failed       *)
(* writes and any number of threads that try to decide the same request.   *)
CONSTANTS Requests, Verdicts

VARIABLES verdict, spent
vars == <<verdict, spent>>

Init == /\ verdict = [r \in Requests |-> "open"]
        /\ spent = [r \in Requests |-> 0]

Record(r, v) == /\ verdict[r] = "open"
                /\ verdict' = [verdict EXCEPT ![r] = v]
                /\ UNCHANGED spent

Spend(r) == /\ spent[r] = 0
            /\ spent' = [spent EXCEPT ![r] = 1]
            /\ UNCHANGED verdict

Next == \E r \in Requests : Spend(r) \/ \E v \in Verdicts : Record(r, v)

Spec == Init /\ [][Next]_vars
=============================================================================
