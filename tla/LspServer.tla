------------------------------- MODULE LspServer -------------------------------
(***************************************************************************)
(* The loop of the language server: serve of crates/reqlan-lsp/src/server.rs *)
(* with its PendingConfirm, and Duty of duty.rs, which looks into the inbox *)
(* while a handler runs.  The client, with the middleware of                *)
(* register-definition-navigation.ts, sends what a client of the protocol   *)
(* may send, at any moment: a document is synchronised while it is open    *)
(* and, if it is no `.rq` file, has comment references.                     *)
(*                                                                         *)
(*   client    text: version of each synchronised buffer, or 0; sent,       *)
(*             withdrawn: requests; barred: bars cancelled; creates: what   *)
(*             became of each token the server asked for; messages: how     *)
(*             many it sent; closing                                        *)
(*   inbox     the channel from the client                                  *)
(*   deferred  messages taken from the inbox while a handler ran            *)
(*   cancelled ids whose cancellation came before their turn                *)
(*   pc        "loop", or inside a handler ("walk"), a confirm pass         *)
(*             ("confirm"), handle_shutdown ("shutdown"), or "done"         *)
(*   duty      the request or pass under way                                *)
(*   uris, comments   PendingConfirm                                        *)
(*   session   the text the server has of each document, by version         *)
(*   shown     per document, the diagnostics published last: how they were  *)
(*             computed, and from which texts                               *)
(*   answer, shutdowns   the responses sent                                 *)
(*   bars      progress bars begun and not ended                            *)
(***************************************************************************)
EXTENDS Integers, Sequences, FiniteSets

CONSTANTS
    Requests,      \* ids of requests
    Tracked,       \* those that carry a workDoneToken
    RqDocs,        \* `.rq` documents
    CommentDocs,   \* documents with comment references
    NoRequest,     \* no request
    Shutdown,      \* the id of the shutdown request
    MaxMessages,   \* bound: messages of the client, but for replies and the end
    MaxCreates,    \* bound: progress tokens the server asks for
    MayClose       \* TRUE: the client may shut the server down

Docs == RqDocs \cup CommentDocs

\* The tokens the server makes up, "reqlan-1" and so on, are not the client's.
ASSUME LspAssumption == /\ Tracked \subseteq Requests
                        /\ Requests \cap (0 .. MaxCreates) = {}
                        /\ RqDocs \cap CommentDocs = {}
                        /\ NoRequest \notin Requests /\ Shutdown \notin Requests
                        /\ NoRequest # Shutdown
                        /\ MaxMessages \in Nat /\ MaxCreates \in Nat
                        /\ MayClose \in BOOLEAN

VARIABLES client, inbox, deferred, cancelled, pc, duty, uris, comments, session,
          shown, answer, shutdowns, bars

confirmVars == <<uris, comments>>
docVars     == <<session, shown>>
answerVars  == <<answer, shutdowns>>
vars        == <<client, inbox, deferred, cancelled, pc, duty, confirmVars, docVars,
                 answerVars, bars>>

Tokens == Tracked \cup (1 .. MaxCreates)
NoToken == 0

\* `view` is what the client's buffers were when it asked; the server does not
\* read it.
Messages ==
    [kind : {"request"}, of : Requests, view : [Docs -> Nat]]
    \cup [kind : {"cancel"}, of : Requests]
    \cup [kind : {"text"}, of : Docs, version : Nat, whole : BOOLEAN]
    \cup [kind : {"close"}, of : Docs]
    \cup [kind : {"created"}, of : 1 .. MaxCreates, ok : BOOLEAN]
    \cup [kind : {"barCancel"}, of : Tokens]
    \cup [kind : {"shutdown", "exit"}]

NoText == [d \in Docs |-> 0]

\* Duty::finish leaves everything reset.
NoDuty == [id |-> NoRequest, view |-> NoText, interruptible |-> FALSE,
           yielded |-> FALSE, cancelled |-> FALSE, token |-> NoToken,
           begun |-> FALSE, create |-> NoToken, ready |-> FALSE]

TypeOK ==
    /\ client \in [text : [Docs -> 0 .. MaxMessages], sent : SUBSET Requests,
                   withdrawn : SUBSET Requests, barred : SUBSET Tokens,
                   creates : [1 .. MaxCreates -> {"none", "asked", "agreed", "refused"}],
                   messages : 0 .. MaxMessages, closing : {"no", "shutdown", "exit"}]
    /\ inbox \in Seq(Messages) /\ deferred \in Seq(Messages)
    /\ cancelled \subseteq Requests
    /\ pc \in {"loop", "walk", "confirm", "shutdown", "done"}
    /\ duty \in [id : Requests \cup {NoRequest, Shutdown}, view : [Docs -> Nat],
                 interruptible : BOOLEAN, yielded : BOOLEAN, cancelled : BOOLEAN,
                 token : Tokens \cup {NoToken}, begun : BOOLEAN,
                 create : 0 .. MaxCreates, ready : BOOLEAN]
    /\ uris \in Seq(Docs) /\ comments \in BOOLEAN
    /\ session \in [Docs -> Nat]
    /\ shown \in [Docs -> [by : {"none", "hot", "checked", "empty"}, of : [Docs -> Nat]]]
    /\ answer \in [Requests -> {"none", "ok", "cancelled"}]
    /\ shutdowns \in Nat
    /\ bars \subseteq Tokens

Init ==
    /\ client = [text |-> NoText, sent |-> {}, withdrawn |-> {}, barred |-> {},
                 creates |-> [n \in 1 .. MaxCreates |-> "none"], messages |-> 0,
                 closing |-> "no"]
    /\ inbox = <<>> /\ deferred = <<>> /\ cancelled = {}
    /\ pc = "loop" /\ duty = NoDuty
    /\ uris = <<>> /\ comments = FALSE
    /\ session = NoText
    /\ shown = [d \in Docs |-> [by |-> "none", of |-> NoText]]
    /\ answer = [r \in Requests |-> "none"] /\ shutdowns = 0
    /\ bars = {}

-----------------------------------------------------------------------------
(* The client *)

Send(message) == inbox' = Append(inbox, message)

serverVars == <<deferred, cancelled, pc, duty, confirmVars, docVars, answerVars, bars>>

MaySend == client.closing = "no" /\ client.messages < MaxMessages

ClientAsks(r) ==
    /\ MaySend /\ r \notin client.sent
    /\ Send([kind |-> "request", of |-> r, view |-> client.text])
    /\ client' = [client EXCEPT !.sent = @ \cup {r}, !.messages = @ + 1]
    /\ UNCHANGED serverVars

\* Also after the answer was sent: the client has not read it yet.
ClientCancels(r) ==
    /\ MaySend /\ r \in client.sent \ client.withdrawn
    /\ Send([kind |-> "cancel", of |-> r])
    /\ client' = [client EXCEPT !.withdrawn = @ \cup {r}, !.messages = @ + 1]
    /\ UNCHANGED serverVars

\* Mutant of ClientEdits: a code file that gets its first comment reference is
\* synchronised with the edit alone.
ClientEditsOnly(d) ==
    /\ MaySend
    /\ \E version \in {client.messages + 1} \cup (IF d \in CommentDocs THEN {0} ELSE {}) :
          /\ version # client.text[d]
          /\ Send([kind |-> "text", of |-> d, version |-> version,
                   whole |-> d \in RqDocs /\ client.text[d] = 0])
          /\ client' = [client EXCEPT !.text[d] = version, !.messages = @ + 1]
    /\ UNCHANGED serverVars

\* The middleware: didOpen, or didChange with the edit or, when the document was
\* not synchronised, with the whole text; with an empty text when one that is no
\* `.rq` file has lost its comment references (documentSyncAction).
ClientEdits(d) ==
    /\ MaySend
    /\ \E version \in {client.messages + 1} \cup (IF d \in CommentDocs THEN {0} ELSE {}) :
          /\ version # client.text[d]
          /\ Send([kind |-> "text", of |-> d, version |-> version,
                   whole |-> version = 0 \/ client.text[d] = 0])
          /\ client' = [client EXCEPT !.text[d] = version, !.messages = @ + 1]
    /\ UNCHANGED serverVars

ClientCloses(d) ==
    /\ MaySend /\ client.text[d] # 0
    /\ Send([kind |-> "close", of |-> d])
    /\ client' = [client EXCEPT !.text[d] = 0, !.messages = @ + 1]
    /\ UNCHANGED serverVars

\* The reply to window/workDoneProgress/create.
ClientCreates(n) ==
    /\ client.closing # "exit" /\ client.creates[n] = "asked"
    /\ \E ok \in BOOLEAN :
          /\ Send([kind |-> "created", of |-> n, ok |-> ok])
          /\ client' = [client EXCEPT !.creates[n] = IF ok THEN "agreed" ELSE "refused"]
    /\ UNCHANGED serverVars

\* The user cancels a bar.
ClientCancelsBar(t) ==
    /\ MaySend /\ t \in bars \ client.barred
    /\ Send([kind |-> "barCancel", of |-> t])
    /\ client' = [client EXCEPT !.barred = @ \cup {t}, !.messages = @ + 1,
                                !.withdrawn = @ \cup ({t} \cap Requests)]
    /\ UNCHANGED serverVars

\* The last request a client makes, and what it sends when it is answered.
ClientLeaves ==
    /\ MayClose
    /\ \/ /\ client.closing = "no"
          /\ Send([kind |-> "shutdown"])
          /\ client' = [client EXCEPT !.closing = "shutdown"]
       \/ /\ client.closing = "shutdown" /\ shutdowns > 0
          /\ Send([kind |-> "exit"])
          /\ client' = [client EXCEPT !.closing = "exit"]
    /\ UNCHANGED serverVars

Client ==
    \/ \E r \in Requests : ClientAsks(r) \/ ClientCancels(r)
    \/ \E d \in Docs : ClientEdits(d) \/ ClientCloses(d)
    \/ \E n \in 1 .. MaxCreates : ClientCreates(n)
    \/ \E t \in Tokens : ClientCancelsBar(t)
    \/ ClientLeaves

-----------------------------------------------------------------------------
(* The loop *)

\* Deferred messages come before the inbox.
Waiting == deferred \o inbox

Take(kinds) ==
    /\ pc = "loop" /\ Waiting # <<>> /\ Head(Waiting).kind \in kinds
    /\ IF deferred # <<>> THEN deferred' = Tail(deferred) /\ UNCHANGED inbox
                          ELSE inbox' = Tail(inbox) /\ UNCHANGED deferred

Message == Head(Waiting)

\* begin_request.
RequestDuty(id, view) ==
    [NoDuty EXCEPT !.id = id, !.view = view,
                   !.token = IF id \in Tracked THEN id ELSE NoToken]

TakeRequest ==
    /\ Take({"request"})
    /\ IF Message.of \in cancelled
       THEN /\ cancelled' = cancelled \ {Message.of}
            /\ answer' = [answer EXCEPT ![Message.of] = "cancelled"]
            /\ UNCHANGED <<pc, duty>>
       ELSE /\ duty' = RequestDuty(Message.of, Message.view)
            /\ pc' = "walk"
            /\ UNCHANGED <<cancelled, answer>>
    /\ UNCHANGED <<client, confirmVars, docVars, shutdowns, bars>>

TakeCancel ==
    /\ Take({"cancel"})
    /\ cancelled' = cancelled \cup {Message.of}
    /\ UNCHANGED <<client, pc, duty, confirmVars, docVars, answerVars, bars>>

Listed(d) == \E i \in 1 .. Len(uris) : uris[i] = d

\* PendingConfirm::push.
Push(d) ==
    /\ uris' = IF Listed(d) THEN uris ELSE Append(uris, d)
    /\ comments' = (comments \/ d \in RqDocs)

\* What is published of a document: nothing if the server has no text of it.
Published(d, by) == IF session'[d] = 0 THEN [by |-> "empty", of |-> NoText]
                                       ELSE [by |-> by, of |-> session']

\* didOpen and didChange: a hot publication now, the rest later.  An edit of a
\* buffer the server does not have is dropped.
TakeText ==
    /\ Take({"text"})
    /\ IF Message.whole \/ session[Message.of] # 0
       THEN /\ session' = [session EXCEPT ![Message.of] = Message.version]
            /\ Push(Message.of)
            /\ shown' = [shown EXCEPT ![Message.of] = Published(Message.of, "hot")]
       ELSE UNCHANGED <<confirmVars, docVars>>
    /\ UNCHANGED <<client, cancelled, pc, duty, answerVars, bars>>

\* The list without d, which is in it at most once.
Without(d) ==
    LET at == CHOOSE i \in 1 .. Len(uris) : uris[i] = d
    IN  IF Listed(d) THEN SubSeq(uris, 1, at - 1) \o SubSeq(uris, at + 1, Len(uris)) ELSE uris

\* didClose.
TakeClose ==
    /\ Take({"close"})
    /\ session' = [session EXCEPT ![Message.of] = 0]
    /\ uris' = Without(Message.of)
    /\ comments' = (comments \/ Message.of \in RqDocs)
    /\ shown' = [shown EXCEPT ![Message.of] = Published(Message.of, "empty")]
    /\ UNCHANGED <<client, cancelled, pc, duty, answerVars, bars>>

\* Responses, and the cancellation of a bar that is no more.
TakeOther ==
    /\ Take({"created", "barCancel"})
    /\ UNCHANGED <<client, cancelled, pc, duty, confirmVars, docVars, answerVars, bars>>

TakeExit ==
    /\ Take({"exit"})
    /\ pc' = "done"
    /\ UNCHANGED <<client, cancelled, duty, confirmVars, docVars, answerVars, bars>>

\* handle_shutdown answers, then waits for the next message of the inbox.
TakeShutdown ==
    /\ Take({"shutdown"})
    /\ shutdowns' = shutdowns + 1
    /\ pc' = "shutdown"
    /\ UNCHANGED <<client, cancelled, duty, confirmVars, docVars, answer, bars>>

ExitIsNext == inbox # <<>> /\ Head(inbox).kind = "exit"

\* "exit" ends the server.  Any other message is lost, and then, or when none
\* comes in time, the shutdown is handled as an ordinary request.
ShutdownEnds ==
    /\ pc = "shutdown"
    /\ \/ /\ ExitIsNext
          /\ pc' = "done"
          /\ inbox' = Tail(inbox)
          /\ UNCHANGED duty
       \/ /\ ~ ExitIsNext
          /\ pc' = "walk"
          /\ duty' = RequestDuty(Shutdown, session)
          /\ inbox' = IF inbox = <<>> THEN inbox ELSE Tail(inbox)
    /\ UNCHANGED <<client, deferred, cancelled, confirmVars, docVars, answerVars, bars>>

-----------------------------------------------------------------------------
(* While a handler or a confirm pass runs *)

Busy == pc \in {"walk", "confirm"}

Stopped == duty.cancelled \/ duty.yielded

\* Mutant of Defer: the message that interrupts is lost.
DeferNothing(message) == UNCHANGED deferred

\* Mutant of Defer: the message is put before those that came earlier.
DeferFirst(message) == deferred' = <<message>> \o deferred

Defer(message) == deferred' = Append(deferred, message)

\* One message of a poll, at a checkpoint or at the end.
IngestCancel ==
    /\ Busy /\ inbox # <<>> /\ Head(inbox).kind = "cancel"
    /\ inbox' = Tail(inbox)
    /\ IF Head(inbox).of = duty.id
       THEN duty' = [duty EXCEPT !.cancelled = TRUE] /\ UNCHANGED cancelled
       ELSE cancelled' = cancelled \cup {Head(inbox).of} /\ UNCHANGED duty
    /\ UNCHANGED <<client, deferred, pc, confirmVars, docVars, answerVars, bars>>

IngestBarCancel ==
    /\ Busy /\ inbox # <<>> /\ Head(inbox).kind = "barCancel"
    /\ inbox' = Tail(inbox)
    /\ duty' = [duty EXCEPT !.cancelled = @ \/ Head(inbox).of = duty.token]
    /\ UNCHANGED <<client, deferred, cancelled, pc, confirmVars, docVars, answerVars, bars>>

\* Mutant of IngestCreated: a reply to an earlier pass counts for this one.
IngestAnyCreated ==
    /\ Busy /\ inbox # <<>> /\ Head(inbox).kind = "created"
    /\ inbox' = Tail(inbox)
    /\ duty' = [duty EXCEPT !.ready = Head(inbox).ok]
    /\ UNCHANGED <<client, deferred, cancelled, pc, confirmVars, docVars, answerVars, bars>>

IngestCreated ==
    /\ Busy /\ inbox # <<>> /\ Head(inbox).kind = "created"
    /\ inbox' = Tail(inbox)
    /\ duty' = IF Head(inbox).of = duty.create
               THEN [duty EXCEPT !.ready = Head(inbox).ok,
                                 !.create = IF Head(inbox).ok THEN @ ELSE NoToken]
               ELSE duty
    /\ UNCHANGED <<client, deferred, cancelled, pc, confirmVars, docVars, answerVars, bars>>

IngestOther ==
    /\ Busy /\ inbox # <<>> /\ Head(inbox).kind \in {"request", "text", "close", "shutdown", "exit"}
    /\ inbox' = Tail(inbox)
    /\ Defer(Head(inbox))
    /\ duty' = [duty EXCEPT !.yielded = @ \/ duty.interruptible]
    /\ UNCHANGED <<client, cancelled, pc, confirmVars, docVars, answerVars, bars>>

\* maybe_begin, once the delay is over: the bar of a request is on its own token,
\* a confirm pass asks the client for one.
AskForBar ==
    /\ pc = "confirm" /\ ~ Stopped
    /\ ~ duty.begun /\ duty.create = NoToken
    /\ \E n \in 1 .. MaxCreates :
          /\ \A m \in 1 .. MaxCreates : client.creates[m] = "none" <=> m >= n
          /\ duty' = [duty EXCEPT !.create = n]
          /\ client' = [client EXCEPT !.creates[n] = "asked"]
    /\ UNCHANGED <<inbox, deferred, cancelled, pc, confirmVars, docVars, answerVars, bars>>

\* Mutant of BeginBar: a bar without a token.
BeginBarAnyway ==
    /\ Busy /\ ~ Stopped /\ ~ duty.begun
    /\ LET token == IF pc = "walk" THEN duty.token ELSE duty.create
       IN  /\ duty' = [duty EXCEPT !.begun = TRUE, !.token = token]
           /\ bars' = bars \cup {token}
    /\ UNCHANGED <<client, inbox, deferred, cancelled, pc, confirmVars, docVars, answerVars>>

BeginBar ==
    /\ Busy /\ ~ Stopped /\ ~ duty.begun
    /\ LET token == IF pc = "walk" THEN duty.token
                    ELSE IF duty.ready THEN duty.create ELSE NoToken
       IN  /\ token # NoToken
           /\ duty' = [duty EXCEPT !.begun = TRUE, !.token = token]
           /\ bars' = bars \cup {token}
    /\ UNCHANGED <<client, inbox, deferred, cancelled, pc, confirmVars, docVars, answerVars>>

\* finish: it polls until the inbox is empty or a message stops it.
MayFinish == inbox = <<>> \/ Stopped

\* Mutant of EndBar: a walk that was stopped returns before the end is sent.
EndBarUnlessStopped == bars' = IF duty.begun /\ ~ Stopped THEN bars \ {duty.token} ELSE bars

EndBar == bars' = IF duty.begun THEN bars \ {duty.token} ELSE bars

\* Mutant of WalkEnds: a late cancellation is not looked at.
WalkEndsAnyway ==
    /\ pc = "walk" /\ MayFinish
    /\ IF duty.id = Shutdown
       THEN shutdowns' = shutdowns + 1 /\ UNCHANGED answer
       ELSE answer' = [answer EXCEPT ![duty.id] = "ok"] /\ UNCHANGED shutdowns
    /\ EndBar
    /\ duty' = NoDuty /\ pc' = "loop"
    /\ UNCHANGED <<client, inbox, deferred, cancelled, confirmVars, docVars>>

WalkEnds ==
    /\ pc = "walk" /\ MayFinish
    /\ IF duty.id = Shutdown
       THEN shutdowns' = shutdowns + 1 /\ UNCHANGED answer
       ELSE /\ answer' = [answer EXCEPT ![duty.id] = IF Stopped THEN "cancelled" ELSE "ok"]
            /\ UNCHANGED shutdowns
    /\ EndBar
    /\ duty' = NoDuty /\ pc' = "loop"
    /\ UNCHANGED <<client, inbox, deferred, cancelled, confirmVars, docVars>>

-----------------------------------------------------------------------------
(* The confirm pass, when no message waits *)

\* begin_background.
ConfirmBegins ==
    /\ pc = "loop" /\ Waiting = <<>> /\ uris # <<>>
    /\ pc' = "confirm"
    /\ duty' = [NoDuty EXCEPT !.interruptible = TRUE]
    /\ UNCHANGED <<client, inbox, deferred, cancelled, confirmVars, docVars, answerVars, bars>>

\* Mutant of ConfirmEnds: the document is taken off the list before it is checked.
ConfirmEndsDropsStopped ==
    /\ pc = "confirm" /\ MayFinish
    /\ UNCHANGED session
    /\ uris' = Tail(uris)
    /\ IF Stopped
       THEN UNCHANGED shown
       ELSE shown' = [shown EXCEPT ![Head(uris)] = Published(Head(uris), "checked")]
    /\ EndBar
    /\ duty' = NoDuty /\ pc' = "loop"
    /\ UNCHANGED <<client, inbox, deferred, cancelled, comments, answerVars>>

\* Interrupted, it keeps the document and publishes nothing.
ConfirmEnds ==
    /\ pc = "confirm" /\ MayFinish
    /\ UNCHANGED session
    /\ IF Stopped
       THEN UNCHANGED <<uris, shown>>
       ELSE /\ uris' = Tail(uris)
            /\ shown' = [shown EXCEPT ![Head(uris)] = Published(Head(uris), "checked")]
    /\ EndBar
    /\ duty' = NoDuty /\ pc' = "loop"
    /\ UNCHANGED <<client, inbox, deferred, cancelled, comments, answerVars>>

\* Mutant of ConfirmComments: what was done is not noted.
ConfirmCommentsAgain ==
    /\ pc = "loop" /\ Waiting = <<>> /\ uris = <<>> /\ comments
    /\ UNCHANGED session
    /\ shown' = [d \in Docs |-> IF d \in CommentDocs /\ session[d] # 0
                                THEN Published(d, "checked") ELSE shown[d]]
    /\ UNCHANGED <<client, inbox, deferred, cancelled, pc, duty, confirmVars, answerVars, bars>>

\* republish_comments.
ConfirmComments ==
    /\ pc = "loop" /\ Waiting = <<>> /\ uris = <<>> /\ comments
    /\ comments' = FALSE
    /\ UNCHANGED session
    /\ shown' = [d \in Docs |-> IF d \in CommentDocs /\ session[d] # 0
                                THEN Published(d, "checked") ELSE shown[d]]
    /\ UNCHANGED <<client, inbox, deferred, cancelled, pc, duty, uris, answerVars, bars>>

Server ==
    \/ TakeRequest \/ TakeCancel \/ TakeText \/ TakeClose \/ TakeOther \/ TakeExit
    \/ TakeShutdown \/ ShutdownEnds
    \/ IngestCancel \/ IngestBarCancel \/ IngestCreated \/ IngestOther
    \/ AskForBar \/ BeginBar \/ WalkEnds
    \/ ConfirmBegins \/ ConfirmEnds \/ ConfirmComments

Next == Server \/ Client

Spec == Init /\ [][Next]_vars

\* The server is one thread that never waits while there is something to do.  A
\* client that was sent an answer to its shutdown exits; nothing else is asked of it.
FairSpec == Spec /\ WF_vars(Server)
=============================================================================
