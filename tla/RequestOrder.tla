----------------------------- MODULE RequestOrder -----------------------------
(***************************************************************************)
(* What a client of the language server may count on: its requests are     *)
(* answered one by one, in the order it made them, each of them once, and  *)
(* with an error only if it had withdrawn the request before.              *)
(***************************************************************************)

CONSTANT Requests

VARIABLES asked,      \* the requests not answered yet
          before,     \* of two of them, which was asked first: pairs
          withdrawn,  \* the requests the client no longer wants
          answer      \* by request: "none", "ok" or "cancelled"

vars == <<asked, before, withdrawn, answer>>

Init == /\ asked = {} /\ before = {}
        /\ withdrawn = {}
        /\ answer = [r \in Requests |-> "none"]

Ask(r) ==
    /\ answer[r] = "none" /\ r \notin asked
    /\ asked' = asked \cup {r}
    /\ before' = before \cup (asked \X {r})
    /\ UNCHANGED <<withdrawn, answer>>

Withdraw(r) ==
    /\ r \notin withdrawn
    /\ withdrawn' = withdrawn \cup {r}
    /\ UNCHANGED <<asked, before, answer>>

Answer(r) ==
    /\ r \in asked /\ \A q \in asked : <<q, r>> \notin before
    /\ \E how \in {"ok"} \cup (IF r \in withdrawn THEN {"cancelled"} ELSE {}) :
          answer' = [answer EXCEPT ![r] = how]
    /\ asked' = asked \ {r}
    /\ before' = {p \in before : p[1] # r}
    /\ UNCHANGED withdrawn

Next == \E r \in Requests : Ask(r) \/ Withdraw(r) \/ Answer(r)

Spec == Init /\ [][Next]_vars
=============================================================================
