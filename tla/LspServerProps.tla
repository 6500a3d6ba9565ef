----------------------------- MODULE LspServerProps -----------------------------
(***************************************************************************)
(* What makes the server's loop correct, though it takes messages out of   *)
(* their turn while it works.                                              *)
(***************************************************************************)
EXTENDS LspServer

\* Where requests wait for their turn.
Pending == {i \in 1 .. Len(Waiting) : Waiting[i].kind = "request"}

\* The request under way.
InHand == IF pc = "walk" /\ duty.id \in Requests THEN {duty.id} ELSE {}

\* The requests not answered yet: the one under way, then those that wait.
Unanswered == InHand \cup {Waiting[i].of : i \in Pending}

Earlier ==
    {<<r, Waiting[i].of>> : r \in InHand, i \in Pending}
    \cup {<<Waiting[p[1]].of, Waiting[p[2]].of>> : p \in {p \in Pending \X Pending : p[1] < p[2]}}

Order == INSTANCE RequestOrder WITH asked <- Unanswered, before <- Earlier,
                                    withdrawn <- client.withdrawn

\* Deferring, cancelling, confirm passes and a shutdown notwithstanding, every
\* request is answered at most once, in the order the requests were made, and
\* with an error only if the client withdrew it (server.rs:75-93, duty.rs:206-240).
AnswersInOrder == Order!Spec

\* A handler reads the documents exactly as they were in the client when it made
\* the request: no edit is applied too early or too late because a message was
\* deferred (server.rs:58-74).
SeesItsText == pc = "walk" /\ duty.id \in Requests => session = duty.view

\* Once the server has taken note of a cancellation, no success follows
\* (ts-lsp-vs-rust-gaps.rq:103-107).
CancelWins ==
    [][\A r \in Requests :
          /\ answer[r] = "none"
          /\ r \in cancelled \/ (duty.id = r /\ duty.cancelled)
          => answer'[r] # "ok"]_vars

\* Between two handlers no progress bar is open: each is ended, also when the walk
\* was cancelled or interrupted (ts-lsp-vs-rust-gaps.rq:116).  And a bar is shown on
\* the token of the request under way, or on one the client has agreed to: a late
\* reply to an earlier pass opens none (duty.rs:217-226).
BarsPaired ==
    /\ ~ Busy => bars = {}
    /\ \A t \in bars : t = duty.token /\ (t \in Requests \/ client.creates[t] = "agreed")

AtRest == pc = "loop" /\ Waiting = <<>> /\ uris = <<>> /\ ~ comments

\* When the server has nothing left to do it has the client's texts, and what it
\* published last for each open document was checked against that text; for a
\* document with comments, against the present text of every `.rq` document; for
\* a closed one it is empty (server.rs:206-262, 264-303).
CheckedAtRest ==
    AtRest =>
        /\ session = client.text
        /\ \A d \in Docs :
              IF session[d] = 0 THEN shown[d].by \in {"none", "empty"}
              ELSE /\ shown[d].by = "checked"
                   /\ \A e \in {d} \cup (IF d \in CommentDocs THEN RqDocs ELSE {}) :
                         shown[d].of[e] = session[e]

\* Every request is answered in the end.
Answered == \A r \in Requests : r \in client.sent ~> answer[r] # "none"

\* However often it is interrupted, the confirm pass is finished once the client
\* falls silent.
Confirmed == uris # <<>> \/ comments ~> pc = "done" \/ (uris = <<>> /\ ~ comments)
=============================================================================
