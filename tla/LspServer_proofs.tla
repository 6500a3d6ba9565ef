---------------------------- MODULE LspServer_proofs ----------------------------
(***************************************************************************)
(* Proofs about LspServer: its types, its progress bars, cancellation, the *)
(* texts a handler sees, what is published when all is done, that it       *)
(* implements RequestOrder, and that no request is left without an answer. *)
(***************************************************************************)
EXTENDS LspServerProps, SequenceTheorems, TLAPS

(***************************************************************************)
(* The inductive invariants                                                *)
(***************************************************************************)
\* Between two handlers nothing is left of the duty.  A handler has a bar only on
\* the token of its request, a pass only on one that the client agreed to.
DutyInv ==
    /\ ~ Busy => duty = NoDuty
    /\ pc = "walk" => /\ duty.id \in Requests \cup {Shutdown}
                      /\ duty.create = NoToken /\ ~ duty.interruptible /\ ~ duty.yielded
                      /\ duty.token \in (Tracked \cap {duty.id}) \cup {NoToken}
                      /\ duty.id \notin cancelled
    /\ pc = "confirm" => duty.id = NoRequest
    /\ duty.ready => duty.create # NoToken /\ client.creates[duty.create] = "agreed"

\* A confirm pass has a document to check.
ListInv == pc = "confirm" => uris # <<>>

BarInv ==
    /\ bars = IF duty.begun THEN {duty.token} ELSE {}
    /\ duty.begun => duty.token \in Requests \/ client.creates[duty.token] = "agreed"

\* A message that waits and tells of the client tells the truth.
WordInv ==
    \A i \in 1 .. Len(Waiting) :
        /\ Waiting[i].kind = "created" /\ Waiting[i].ok =>
               client.creates[Waiting[i].of] = "agreed"
        /\ Waiting[i].kind \in {"cancel", "barCancel"} /\ Waiting[i].of \in Requests =>
               Waiting[i].of \in client.withdrawn

\* Who asks for the end says no more after it but replies.
EndInv ==
    /\ pc = "shutdown" =>
           /\ client.closing # "no"
           /\ \A j \in 1 .. Len(Waiting) : Waiting[j].kind \in {"created", "exit"}
    /\ \A i \in 1 .. Len(Waiting) : Waiting[i].kind = "shutdown" =>
           /\ client.closing # "no"
           /\ \A j \in i + 1 .. Len(Waiting) : Waiting[j].kind \in {"created", "exit"}

\* The message changes the text of d, and to what.
Changes(m, d) == m.kind \in {"text", "close"} /\ m.of = d
Change(m)     == IF m.kind = "text" THEN m.version ELSE 0

\* From text, once the messages of the line before the i-th are handled, the server
\* has version v of d.
Says(line, text, i, d, v) ==
    \/ text[d] = v /\ \A j \in 1 .. i - 1 : ~ Changes(line[j], d)
    \/ \E j \in 1 .. i - 1 :
          /\ Changes(line[j], d) /\ Change(line[j]) = v
          /\ \A k \in j + 1 .. i - 1 : ~ Changes(line[k], d)

\* At each request the server will have the texts it was made on, at each edit a
\* text to apply it to, and in the end those of the client.
TextInv ==
    /\ \A d \in Docs : Says(Waiting, session, Len(Waiting) + 1, d, client.text[d])
    /\ \A i \in 1 .. Len(Waiting) :
          /\ Waiting[i].kind = "request" =>
                 \A d \in Docs : Says(Waiting, session, i, d, Waiting[i].view[d])
          /\ Waiting[i].kind = "text" /\ ~ Waiting[i].whole =>
                 \E v \in Nat \ {0} : Says(Waiting, session, i, Waiting[i].of, v)

\* What is not on the lists of the confirm pass needs no pass.
ShownInv ==
    \A d \in Docs :
        IF session[d] = 0 THEN shown[d].by \in {"none", "empty"}
        ELSE \/ Listed(d)
             \/ /\ shown[d].by = "checked" /\ shown[d].of[d] = session[d]
                /\ d \in CommentDocs => comments \/ \A e \in RqDocs : shown[d].of[e] = session[e]

\* A request waits in the line; one waits ahead of another; none waits twice.
Waits(line, r) == \E i \in 1 .. Len(line) : line[i].kind = "request" /\ line[i].of = r
Ahead(line, q, r) ==
    \E i, j \in 1 .. Len(line) : /\ i < j /\ line[i].kind = "request" /\ line[i].of = q
                                 /\ line[j].kind = "request" /\ line[j].of = r
NoneTwice(line) ==
    \A i, j \in 1 .. Len(line) :
        line[i].kind = "request" /\ line[j].kind = "request" /\ line[i].of = line[j].of => i = j

\* The requests that were made are answered, in hand or waiting, each once.
OnceInv ==
    /\ \A r \in Requests : r \in InHand \/ Waits(Waiting, r) => r \in client.sent /\ answer[r] = "none"
    /\ \A r \in InHand : ~ Waits(Waiting, r)
    /\ NoneTwice(Waiting)
    /\ \A r \in Requests : answer[r] # "none" => r \in client.sent

\* What the server knows to be cancelled, the client withdrew.
GoneInv ==
    /\ cancelled \subseteq client.withdrawn
    /\ pc = "walk" /\ duty.cancelled /\ duty.id \in Requests => duty.id \in client.withdrawn

LspInv == TypeOK /\ ListInv /\ DutyInv /\ BarInv /\ WordInv /\ EndInv /\ TextInv
                 /\ SeesItsText /\ ShownInv /\ OnceInv /\ GoneInv

(***************************************************************************)
(* Messages and where they wait                                            *)
(***************************************************************************)
\* What a message carries, by its kind.
LEMMA MessageParts ==
    ASSUME NEW m \in Messages
    PROVE  /\ m.kind \in {"request", "cancel", "text", "close", "created", "barCancel",
                          "shutdown", "exit"}
           /\ m.kind = "request" => m.of \in Requests /\ m.view \in [Docs -> Nat]
           /\ m.kind = "cancel" => m.of \in Requests
           /\ m.kind = "text" => m.of \in Docs /\ m.version \in Nat /\ m.whole \in BOOLEAN
           /\ m.kind = "close" => m.of \in Docs
           /\ m.kind = "created" => m.of \in 1 .. MaxCreates /\ m.ok \in BOOLEAN
           /\ m.kind = "barCancel" => m.of \in Tokens
BY DEF Messages

\* Two lines put together.
LEMMA LineOf ==
    ASSUME NEW M, NEW a \in Seq(M), NEW b \in Seq(M), NEW w, w = a \o b
    PROVE  /\ w \in Seq(M) /\ Len(w) = Len(a) + Len(b)
           /\ Len(a) \in Nat /\ Len(b) \in Nat /\ Len(w) \in Nat
           /\ \A i \in 1 .. Len(w) : w[i] = IF i <= Len(a) THEN a[i] ELSE b[i - Len(a)]
<1>1. w \in Seq(M) /\ Len(w) = Len(a) + Len(b)
  BY ConcatProperties
<1>2. \A i \in 1 .. Len(a) + Len(b) : w[i] = IF i <= Len(a) THEN a[i] ELSE b[i - Len(a)]
  BY ConcatProperties
<1>. QED BY <1>1, <1>2, LenProperties

\* The messages wait in one line: those that were deferred, then the inbox.
LEMMA Line ==
    ASSUME inbox \in Seq(Messages), deferred \in Seq(Messages)
    PROVE  /\ Waiting \in Seq(Messages) /\ Len(Waiting) = Len(deferred) + Len(inbox)
           /\ Len(deferred) \in Nat /\ Len(inbox) \in Nat /\ Len(Waiting) \in Nat
           /\ \A i \in 1 .. Len(Waiting) :
                 Waiting[i] = IF i <= Len(deferred) THEN deferred[i] ELSE inbox[i - Len(deferred)]
BY LineOf DEF Waiting

\* The line after a step.
LEMMA NextLine ==
    ASSUME inbox' \in Seq(Messages), deferred' \in Seq(Messages)
    PROVE  /\ Waiting' \in Seq(Messages) /\ Len(Waiting') = Len(deferred') + Len(inbox')
           /\ Len(deferred') \in Nat /\ Len(inbox') \in Nat /\ Len(Waiting') \in Nat
           /\ \A i \in 1 .. Len(Waiting') :
                 Waiting'[i] = IF i <= Len(deferred') THEN deferred'[i]
                                                      ELSE inbox'[i - Len(deferred')]
<1>1. Waiting' = deferred' \o inbox'
  BY DEF Waiting
<1>. QED BY <1>1, LineOf

\* What is sent comes last.
LEMMA SentLast ==
    ASSUME inbox \in Seq(Messages), deferred \in Seq(Messages), NEW m \in Messages,
           Send(m), UNCHANGED deferred
    PROVE  /\ inbox' \in Seq(Messages)
           /\ Len(Waiting') = Len(Waiting) + 1 /\ Waiting'[Len(Waiting) + 1] = m
           /\ \A i \in 1 .. Len(Waiting) : Waiting'[i] = Waiting[i]
<1>1. /\ inbox' \in Seq(Messages) /\ Len(inbox') = Len(inbox) + 1
      /\ \A i \in 1 .. Len(inbox) : inbox'[i] = inbox[i]
      /\ inbox'[Len(inbox) + 1] = m
  BY AppendProperties DEF Send
<1>2. deferred' \in Seq(Messages)
  OBVIOUS
<1>3. Len(Waiting') = Len(Waiting) + 1
  BY <1>1, <1>2, Line, NextLine
<1>4. Waiting'[Len(Waiting) + 1] = m
  BY <1>1, <1>2, <1>3, Line, NextLine
<1>5. ASSUME NEW i \in 1 .. Len(Waiting)
      PROVE  Waiting'[i] = Waiting[i]
  <2>1. i \in 1 .. Len(Waiting')
    BY <1>3, Line
  <2>2. Waiting'[i] = IF i <= Len(deferred) THEN deferred[i] ELSE inbox'[i - Len(deferred)]
    BY <1>1, <1>2, <2>1, NextLine
  <2>3. i <= Len(deferred) \/ i - Len(deferred) \in 1 .. Len(inbox)
    BY Line
  <2>. QED BY <1>1, <2>2, <2>3, Line
<1>. QED BY <1>1, <1>3, <1>4, <1>5

\* The loop takes the first in the line.
LEMMA TakenFirst ==
    ASSUME inbox \in Seq(Messages), deferred \in Seq(Messages), NEW kinds, Take(kinds)
    PROVE  /\ pc = "loop" /\ Message \in Messages /\ Message.kind \in kinds
           /\ Len(Waiting) \in Nat \ {0} /\ Message = Waiting[1]
           /\ inbox' \in Seq(Messages) /\ deferred' \in Seq(Messages)
           /\ Len(Waiting') = Len(Waiting) - 1
           /\ \A i \in 1 .. Len(Waiting') : Waiting'[i] = Waiting[i + 1]
<1>1. Waiting \in Seq(Messages) /\ Waiting # <<>>
  BY Line DEF Take
<1>2. Message \in Messages /\ Message = Waiting[1] /\ Len(Waiting) \in Nat \ {0}
  BY <1>1, HeadTailProperties, LenProperties, EmptySeq DEF Message
<1>4. CASE deferred # <<>>
  <2>1. /\ deferred' \in Seq(Messages) /\ Len(deferred') = Len(deferred) - 1
        /\ \A i \in 1 .. Len(deferred') : deferred'[i] = deferred[i + 1]
        /\ UNCHANGED inbox
    BY <1>4, HeadTailProperties DEF Take
  <2>2. Len(deferred) > 0
    BY <1>4, EmptySeq
  <2>3. Len(Waiting') = Len(Waiting) - 1
    BY <2>1, <2>2, Line, NextLine
  <2>4. ASSUME NEW i \in 1 .. Len(Waiting')
        PROVE  Waiting'[i] = Waiting[i + 1]
    <3>1. Waiting'[i] = IF i <= Len(deferred) - 1 THEN deferred'[i] ELSE inbox[i - (Len(deferred) - 1)]
      BY <2>1, NextLine
    <3>2. i + 1 \in 1 .. Len(Waiting)
      BY <2>3, Line, NextLine
    <3>3. Waiting[i + 1] = IF i + 1 <= Len(deferred) THEN deferred[i + 1] ELSE inbox[i + 1 - Len(deferred)]
      BY <3>2, Line
    <3>4. i \in Nat /\ Len(deferred) \in Nat /\ i - (Len(deferred) - 1) = i + 1 - Len(deferred)
      BY Line, NextLine
    <3>5. i <= Len(deferred) - 1 => deferred'[i] = deferred[i + 1]
      BY <2>1, <3>4
    <3>. QED BY <3>1, <3>3, <3>4, <3>5
  <2>. QED BY <1>2, <2>1, <2>3, <2>4 DEF Take, Message
<1>5. CASE deferred = <<>>
  <2>1. inbox # <<>>
    BY <1>1, <1>5, Line, EmptySeq
  <2>2. /\ inbox' \in Seq(Messages) /\ Len(inbox') = Len(inbox) - 1
        /\ \A i \in 1 .. Len(inbox') : inbox'[i] = inbox[i + 1]
        /\ UNCHANGED deferred
    BY <1>5, <2>1, HeadTailProperties DEF Take
  <2>3. Waiting = inbox /\ Waiting' = inbox'
    BY <1>5, <2>2, ConcatEmptySeq DEF Waiting
  <2>. QED BY <1>2, <1>5, <2>1, <2>2, <2>3 DEF Take, Message
<1>. QED BY <1>4, <1>5

\* A message taken out of its turn: the one after the deferred ones.
LEMMA DroppedOne ==
    ASSUME inbox \in Seq(Messages), deferred \in Seq(Messages), inbox # <<>>,
           inbox' = Tail(inbox), UNCHANGED deferred
    PROVE  /\ Head(inbox) \in Messages /\ inbox' \in Seq(Messages)
           /\ Len(deferred) + 1 \in 1 .. Len(Waiting) /\ Waiting[Len(deferred) + 1] = Head(inbox)
           /\ Len(Waiting') = Len(Waiting) - 1
           /\ \A i \in 1 .. Len(Waiting') :
                 Waiting'[i] = IF i <= Len(deferred) THEN Waiting[i] ELSE Waiting[i + 1]
<1>1. /\ inbox' \in Seq(Messages) /\ Len(inbox') = Len(inbox) - 1
      /\ \A i \in 1 .. Len(inbox') : inbox'[i] = inbox[i + 1]
      /\ Head(inbox) \in Messages /\ Head(inbox) = inbox[1] /\ Len(inbox) \in Nat \ {0}
  BY HeadTailProperties, EmptySeq
<1>2. deferred' \in Seq(Messages)
  OBVIOUS
<1>. QED BY SMTT(20), <1>1, <1>2, Line, NextLine

\* A message that is deferred keeps its place in the line.
LEMMA PlaceKept ==
    ASSUME inbox \in Seq(Messages), deferred \in Seq(Messages), inbox # <<>>,
           inbox' = Tail(inbox), Defer(Head(inbox))
    PROVE  /\ inbox' \in Seq(Messages) /\ deferred' \in Seq(Messages)
           /\ Waiting' = Waiting
<1>1. /\ inbox' \in Seq(Messages) /\ Len(inbox') = Len(inbox) - 1
      /\ \A i \in 1 .. Len(inbox') : inbox'[i] = inbox[i + 1]
      /\ Head(inbox) \in Messages /\ Head(inbox) = inbox[1] /\ Len(inbox) \in Nat \ {0}
  BY HeadTailProperties, EmptySeq
<1>2. /\ deferred' \in Seq(Messages) /\ Len(deferred') = Len(deferred) + 1
      /\ \A i \in 1 .. Len(deferred) : deferred'[i] = deferred[i]
      /\ deferred'[Len(deferred) + 1] = inbox[1]
  BY <1>1, AppendProperties DEF Defer
<1>5. Len(Waiting') = Len(Waiting)
  BY <1>1, <1>2, Line, NextLine
<1>6. ASSUME NEW i \in 1 .. Len(Waiting)
      PROVE  Waiting'[i] = Waiting[i]
  <2>1. Waiting[i] = IF i <= Len(deferred) THEN deferred[i] ELSE inbox[i - Len(deferred)]
    BY Line
  <2>2. i \in 1 .. Len(Waiting')
    BY <1>5
  <2>3. Waiting'[i] = IF i <= Len(deferred) + 1 THEN deferred'[i]
                                                ELSE inbox'[i - (Len(deferred) + 1)]
    BY <1>1, <1>2, <2>2, NextLine
  <2>4. CASE i <= Len(deferred)
    BY <1>2, <2>1, <2>3, <2>4, Line
  <2>5. CASE i = Len(deferred) + 1
    <3>1. i - Len(deferred) = 1
      BY <2>5, Line
    <3>. QED BY <1>2, <2>1, <2>3, <2>5, <3>1, Line
  <2>6. CASE i > Len(deferred) + 1
    <3>1. /\ i - (Len(deferred) + 1) \in 1 .. Len(inbox')
          /\ i - (Len(deferred) + 1) + 1 = i - Len(deferred)
      BY <1>1, <2>6, Line
    <3>2. inbox'[i - (Len(deferred) + 1)] = inbox[i - Len(deferred)]
      BY <1>1, <3>1
    <3>. QED BY <2>1, <2>3, <2>6, <3>2, Line
  <2>. QED BY <2>4, <2>5, <2>6, Line
<1>. QED BY <1>1, <1>2, <1>5, <1>6, Line, NextLine, SeqEqual

(***************************************************************************)
(* Types                                                                   *)
(***************************************************************************)
Marks   == {"none", "asked", "agreed", "refused"}
Clients == [text : [Docs -> 0 .. MaxMessages], sent : SUBSET Requests,
            withdrawn : SUBSET Requests, barred : SUBSET Tokens,
            creates : [1 .. MaxCreates -> Marks],
            messages : 0 .. MaxMessages, closing : {"no", "shutdown", "exit"}]
Duties  == [id : Requests \cup {NoRequest, Shutdown}, view : [Docs -> Nat],
            interruptible : BOOLEAN, yielded : BOOLEAN, cancelled : BOOLEAN,
            token : Tokens \cup {NoToken}, begun : BOOLEAN,
            create : 0 .. MaxCreates, ready : BOOLEAN]
Shows   == [by : {"none", "hot", "checked", "empty"}, of : [Docs -> Nat]]

LineType == inbox \in Seq(Messages) /\ deferred \in Seq(Messages)
DutyType == /\ cancelled \subseteq Requests /\ duty \in Duties
            /\ pc \in {"loop", "walk", "confirm", "shutdown", "done"}
DocType  == /\ uris \in Seq(Docs) /\ comments \in BOOLEAN
            /\ session \in [Docs -> Nat] /\ shown \in [Docs -> Shows]
OutType  == /\ answer \in [Requests -> {"none", "ok", "cancelled"}] /\ shutdowns \in Nat
            /\ bars \subseteq Tokens

\* The type invariant, by what changes together.
LEMMA TypeParts == TypeOK <=> client \in Clients /\ LineType /\ DutyType /\ DocType /\ OutType
BY DEF TypeOK, Clients, Marks, LineType, DutyType, Duties, DocType, Shows, OutType

\* The same after a step.
LEMMA TypePartsNext ==
    ASSUME client' \in Clients, LineType', DutyType', DocType', OutType'
    PROVE  TypeOK'
BY DEF TypeOK, Clients, Marks, LineType, DutyType, Duties, DocType, Shows, OutType

\* No text, and no duty.
LEMMA Nothing == NoText \in [Docs -> Nat] /\ NoDuty \in Duties
<1>1. NoText \in [Docs -> Nat]
  BY DEF NoText
<1>2. MaxCreates \in Nat
  BY LspAssumption
<1>. QED BY <1>1, <1>2 DEF NoDuty, Duties, NoToken

\* Every message a client sends is one.
LEMMA ClientMessages ==
    ASSUME client \in Clients
    PROVE  /\ \A r \in Requests : [kind |-> "request", of |-> r, view |-> client.text] \in Messages
           /\ \A r \in Requests : [kind |-> "cancel", of |-> r] \in Messages
           /\ \A d \in Docs, v \in Nat, whole \in BOOLEAN :
                 [kind |-> "text", of |-> d, version |-> v, whole |-> whole] \in Messages
           /\ \A d \in Docs : [kind |-> "close", of |-> d] \in Messages
           /\ \A n \in 1 .. MaxCreates, ok \in BOOLEAN :
                 [kind |-> "created", of |-> n, ok |-> ok] \in Messages
           /\ \A t \in Tokens : [kind |-> "barCancel", of |-> t] \in Messages
           /\ [kind |-> "shutdown"] \in Messages /\ [kind |-> "exit"] \in Messages
<1>1. client.text \in [Docs -> Nat]
  BY LspAssumption DEF Clients
<1>. QED BY <1>1 DEF Messages

\* What a step of the client sends, and to what its own state comes.
LEMMA ClientStep ==
    ASSUME TypeOK, Client
    PROVE  /\ client' \in Clients /\ UNCHANGED serverVars
           /\ \E m \in Messages : Send(m)
<1>. USE DEF Clients
<1>0. client \in Clients /\ MaxMessages \in Nat
  BY TypeParts, LspAssumption
<1>1. ASSUME NEW r \in Requests, ClientAsks(r)
      PROVE  client' \in Clients /\ UNCHANGED serverVars /\ \E m \in Messages : Send(m)
  <2>. DEFINE message == [kind |-> "request", of |-> r, view |-> client.text]
  <2>1. message \in Messages
    BY <1>0, ClientMessages
  <2>2. Send(message) /\ UNCHANGED serverVars
    BY <1>1 DEF ClientAsks
  <2>. HIDE DEF message
  <2>3. client' \in Clients
    <3>1. client.messages + 1 \in 0 .. MaxMessages
      BY <1>0, <1>1 DEF ClientAsks, MaySend
    <3>. QED BY <1>0, <1>1, <3>1 DEF ClientAsks
  <2>. QED BY <2>1, <2>2, <2>3
<1>2. ASSUME NEW r \in Requests, ClientCancels(r)
      PROVE  client' \in Clients /\ UNCHANGED serverVars /\ \E m \in Messages : Send(m)
  <2>. DEFINE message == [kind |-> "cancel", of |-> r]
  <2>1. message \in Messages
    BY <1>0, ClientMessages
  <2>2. Send(message) /\ UNCHANGED serverVars
    BY <1>2 DEF ClientCancels
  <2>. HIDE DEF message
  <2>3. client' \in Clients
    <3>1. client.messages + 1 \in 0 .. MaxMessages
      BY <1>0, <1>2 DEF ClientCancels, MaySend
    <3>. QED BY <1>0, <1>2, <3>1 DEF ClientCancels
  <2>. QED BY <2>1, <2>2, <2>3
<1>3. ASSUME NEW d \in Docs, ClientEdits(d)
      PROVE  client' \in Clients /\ UNCHANGED serverVars /\ \E m \in Messages : Send(m)
  <2>1. PICK version \in {client.messages + 1} \cup {0} :
           /\ Send([kind |-> "text", of |-> d, version |-> version,
                    whole |-> version = 0 \/ client.text[d] = 0])
           /\ client' = [client EXCEPT !.text[d] = version, !.messages = @ + 1]
    BY <1>3 DEF ClientEdits
  <2>2. client.messages < MaxMessages /\ UNCHANGED serverVars
    BY <1>3 DEF ClientEdits, MaySend
  <2>3. version \in 0 .. MaxMessages /\ client.messages + 1 \in 0 .. MaxMessages
    BY <1>0, <2>2
  <2>4. client' \in Clients
    BY <1>0, <2>1, <2>3
  <2>5. [kind |-> "text", of |-> d, version |-> version,
         whole |-> version = 0 \/ client.text[d] = 0] \in Messages
    <3>1. (version = 0 \/ client.text[d] = 0) \in BOOLEAN /\ version \in Nat
      BY <1>0, <2>3
    <3>. QED BY <1>0, <3>1, ClientMessages
  <2>. QED BY <2>1, <2>2, <2>4, <2>5
<1>4. ASSUME NEW d \in Docs, ClientCloses(d)
      PROVE  client' \in Clients /\ UNCHANGED serverVars /\ \E m \in Messages : Send(m)
  <2>. DEFINE message == [kind |-> "close", of |-> d]
  <2>1. message \in Messages
    BY <1>0, ClientMessages
  <2>2. Send(message) /\ UNCHANGED serverVars
    BY <1>4 DEF ClientCloses
  <2>. HIDE DEF message
  <2>3. client' \in Clients
    <3>1. client.messages + 1 \in 0 .. MaxMessages
      BY <1>0, <1>4 DEF ClientCloses, MaySend
    <3>. DEFINE sent == client.messages + 1
    <3>2. 0 \in 0 .. MaxMessages /\ client' = [client EXCEPT !.text[d] = 0, !.messages = sent]
      BY <1>0, <1>4 DEF ClientCloses
    <3>. HIDE DEF sent
    <3>3. sent \in 0 .. MaxMessages
      BY <3>1 DEF sent
    <3>. QED BY <1>0, <3>2, <3>3
  <2>. QED BY <2>1, <2>2, <2>3
<1>5. ASSUME NEW n \in 1 .. MaxCreates, ClientCreates(n)
      PROVE  client' \in Clients /\ UNCHANGED serverVars /\ \E m \in Messages : Send(m)
  <2>1. PICK ok \in BOOLEAN :
           /\ Send([kind |-> "created", of |-> n, ok |-> ok])
           /\ client' = [client EXCEPT !.creates[n] = IF ok THEN "agreed" ELSE "refused"]
    BY <1>5 DEF ClientCreates
  <2>2. [kind |-> "created", of |-> n, ok |-> ok] \in Messages
    BY <1>0, ClientMessages
  <2>3. client' \in Clients
    BY <1>0, <2>1 DEF Marks
  <2>. QED BY <1>5, <2>1, <2>2, <2>3 DEF ClientCreates
<1>6. ASSUME NEW t \in Tokens, ClientCancelsBar(t)
      PROVE  client' \in Clients /\ UNCHANGED serverVars /\ \E m \in Messages : Send(m)
  <2>. DEFINE message == [kind |-> "barCancel", of |-> t]
  <2>1. message \in Messages
    BY <1>0, ClientMessages
  <2>2. Send(message) /\ UNCHANGED serverVars
    BY <1>6 DEF ClientCancelsBar
  <2>. HIDE DEF message
  <2>3. client' \in Clients
    <3>1. client.messages + 1 \in 0 .. MaxMessages
      BY <1>0, <1>6 DEF ClientCancelsBar, MaySend
    <3>. DEFINE barred    == client.barred \cup {t}
                withdrawn == client.withdrawn \cup ({t} \cap Requests)
                sent      == client.messages + 1
    <3>2. barred \in SUBSET Tokens /\ withdrawn \in SUBSET Requests
      BY <1>0
    <3>3. client' = [client EXCEPT !.barred = barred, !.messages = sent, !.withdrawn = withdrawn]
      BY <1>6 DEF ClientCancelsBar
    <3>. HIDE DEF barred, withdrawn, sent
    <3>4. sent \in 0 .. MaxMessages
      BY <3>1 DEF sent
    <3>. QED BY <1>0, <3>2, <3>3, <3>4
  <2>. QED BY <2>1, <2>2, <2>3
<1>7. CASE ClientLeaves
  <2>1. client' = [client EXCEPT !.closing = "shutdown"] \/ client' = [client EXCEPT !.closing = "exit"]
    BY <1>7 DEF ClientLeaves
  <2>2. \E m \in Messages : Send(m)
    BY <1>0, <1>7, ClientMessages DEF ClientLeaves
  <2>3. client' \in Clients
    BY <1>0, <2>1
  <2>. QED BY <1>7, <2>2, <2>3 DEF ClientLeaves
<1>. QED BY <1>1, <1>2, <1>3, <1>4, <1>5, <1>6, <1>7 DEF Client

\* The head of the list of the confirm pass, and the list without a document.
LEMMA ListParts ==
    ASSUME uris \in Seq(Docs)
    PROVE  /\ uris # <<>> => Head(uris) \in Docs /\ Tail(uris) \in Seq(Docs)
           /\ \A d \in Docs : Without(d) \in Seq(Docs) /\ Append(uris, d) \in Seq(Docs)
<1>1. ASSUME NEW d \in Docs
      PROVE  Without(d) \in Seq(Docs)
  <2>1. CASE ~ Listed(d)
    BY <2>1 DEF Without
  <2>2. CASE Listed(d)
    <3>. DEFINE at == CHOOSE i \in 1 .. Len(uris) : uris[i] = d
    <3>1. at \in 1 .. Len(uris)
      BY <2>2 DEF Listed
    <3>2. Without(d) = SubSeq(uris, 1, at - 1) \o SubSeq(uris, at + 1, Len(uris))
      BY <2>2 DEF Without
    <3>3. /\ at - 1 \in Int /\ at + 1 \in Int /\ Len(uris) \in Int
          /\ \A i \in 1 .. at - 1 : uris[i] \in Docs
          /\ \A i \in at + 1 .. Len(uris) : uris[i] \in Docs
      <4>. HIDE DEF at
      <4>1. Len(uris) \in Nat /\ \A i \in 1 .. Len(uris) : uris[i] \in Docs
        BY ElementOfSeq, LenProperties
      <4>. QED BY <3>1, <4>1
    <3>. HIDE DEF at
    <3>4. SubSeq(uris, 1, at - 1) \in Seq(Docs) /\ SubSeq(uris, at + 1, Len(uris)) \in Seq(Docs)
      BY <3>3, SubSeqProperties
    <3>. QED BY <3>2, <3>4, ConcatProperties
  <2>. QED BY <2>1, <2>2
<1>. QED BY <1>1, HeadTailProperties, AppendProperties

\* What is published of a document is a publication.
LEMMA PublishedType ==
    ASSUME session' \in [Docs -> Nat], NEW d \in Docs, NEW by \in {"hot", "checked", "empty"}
    PROVE  Published(d, by) \in Shows
BY Nothing DEF Published, Shows

\* Types are kept by every step.
LEMMA TypeStep ==
    ASSUME TypeOK, ListInv, [Next]_vars
    PROVE  TypeOK'
<1>0. client \in Clients /\ LineType /\ DutyType /\ DocType /\ OutType
  BY TypeParts
<1>1. ASSUME UNCHANGED <<inbox, deferred>>
      PROVE  LineType'
  BY <1>0, <1>1 DEF LineType
<1>2. ASSUME UNCHANGED <<cancelled, pc, duty>>
      PROVE  DutyType'
  BY <1>0, <1>2 DEF DutyType
<1>3. ASSUME UNCHANGED <<confirmVars, docVars>>
      PROVE  DocType'
  BY <1>0, <1>3 DEF DocType, confirmVars, docVars
<1>4. ASSUME UNCHANGED <<answerVars, bars>>
      PROVE  OutType'
  BY <1>0, <1>4 DEF OutType, answerVars
<1>5. CASE Client
  <2>1. client' \in Clients /\ UNCHANGED serverVars
    BY <1>5, ClientStep
  <2>2. LineType'
    BY <1>0, <1>5, ClientStep, SentLast DEF LineType, serverVars
  <2>. QED BY <2>1, <2>2, <1>2, <1>3, <1>4, TypePartsNext DEF serverVars
<1>6. ASSUME NEW kinds, Take(kinds)
      PROVE  LineType'
  BY <1>0, <1>6, TakenFirst DEF LineType
<1>7. ASSUME NEW kinds, Take(kinds)
      PROVE  Message \in Messages /\ Message.kind \in kinds
  BY <1>0, <1>7, TakenFirst DEF LineType
<1>8. CASE TakeRequest
  <2>1. Message.of \in Requests /\ Message.view \in [Docs -> Nat]
    BY <1>7, <1>8, MessageParts DEF TakeRequest
  <2>2. RequestDuty(Message.of, Message.view) \in Duties
    <3>1. (IF Message.of \in Tracked THEN Message.of ELSE NoToken) \in Tokens \cup {NoToken}
      BY DEF Tokens
    <3>. QED BY <2>1, <3>1, Nothing DEF RequestDuty, Duties
  <2>3. DutyType'
    BY <2>2, <1>0, <1>8 DEF TakeRequest, DutyType
  <2>4. OutType'
    BY <2>1, <1>0, <1>8 DEF TakeRequest, OutType
  <2>. QED BY <2>3, <2>4, <1>0, <1>3, <1>6, <1>8, TypePartsNext DEF TakeRequest
<1>9. CASE TakeCancel
  <2>1. Message.of \in Requests
    BY <1>7, <1>9, MessageParts DEF TakeCancel
  <2>2. DutyType'
    BY <2>1, <1>0, <1>9 DEF TakeCancel, DutyType
  <2>. QED BY <2>2, <1>0, <1>3, <1>4, <1>6, <1>9, TypePartsNext DEF TakeCancel
<1>10. CASE TakeText
  <2>1. Message.of \in Docs /\ Message.version \in Nat
    BY <1>7, <1>10, MessageParts DEF TakeText
  <2>2. DocType'
    <3>1. CASE UNCHANGED <<confirmVars, docVars>>
      BY <3>1, <1>3
    <3>2. CASE /\ session' = [session EXCEPT ![Message.of] = Message.version]
               /\ Push(Message.of)
               /\ shown' = [shown EXCEPT ![Message.of] = Published(Message.of, "hot")]
      <4>1. session' \in [Docs -> Nat]
        BY <2>1, <3>2, <1>0 DEF DocType
      <4>2. shown' \in [Docs -> Shows]
        BY <2>1, <3>2, <4>1, <1>0, PublishedType DEF DocType
      <4>3. uris' \in Seq(Docs) /\ comments' \in BOOLEAN
        BY <2>1, <3>2, <1>0, ListParts DEF DocType, Push
      <4>. QED BY <4>1, <4>2, <4>3 DEF DocType
    <3>. QED BY <3>1, <3>2, <1>10 DEF TakeText
  <2>. QED BY <2>2, <1>0, <1>2, <1>4, <1>6, <1>10, TypePartsNext DEF TakeText
<1>11. CASE TakeClose
  <2>1. Message.of \in Docs
    BY <1>7, <1>11, MessageParts DEF TakeClose
  <2>2. session' \in [Docs -> Nat]
    BY <2>1, <1>0, <1>11 DEF TakeClose, DocType
  <2>3. shown' \in [Docs -> Shows]
    BY <2>1, <2>2, <1>0, <1>11, PublishedType DEF TakeClose, DocType
  <2>4. uris' \in Seq(Docs) /\ comments' \in BOOLEAN
    BY <2>1, <1>0, <1>11, ListParts DEF TakeClose, DocType
  <2>5. DocType'
    BY <2>2, <2>3, <2>4 DEF DocType
  <2>. QED BY <2>5, <1>0, <1>2, <1>4, <1>6, <1>11, TypePartsNext DEF TakeClose
<1>12. CASE TakeOther
  BY <1>0, <1>2, <1>3, <1>4, <1>6, <1>12, TypePartsNext DEF TakeOther
<1>13. CASE TakeExit
  <2>1. DutyType'
    BY <1>0, <1>13 DEF TakeExit, DutyType
  <2>. QED BY <2>1, <1>0, <1>3, <1>4, <1>6, <1>13, TypePartsNext DEF TakeExit
<1>14. CASE TakeShutdown
  <2>1. DutyType' /\ OutType'
    BY <1>0, <1>14 DEF TakeShutdown, DutyType, OutType
  <2>. QED BY <2>1, <1>0, <1>3, <1>6, <1>14, TypePartsNext DEF TakeShutdown
<1>15. CASE ShutdownEnds
  <2>1. LineType'
    BY <1>0, <1>15, HeadTailProperties DEF ShutdownEnds, LineType, ExitIsNext
  <2>2. RequestDuty(Shutdown, session) \in Duties
    <3>1. (IF Shutdown \in Tracked THEN Shutdown ELSE NoToken) \in Tokens \cup {NoToken}
      BY DEF Tokens
    <3>. QED BY <3>1, <1>0, Nothing DEF RequestDuty, Duties, DocType
  <2>3. DutyType'
    BY <2>2, <1>0, <1>15 DEF ShutdownEnds, DutyType
  <2>. QED BY <2>1, <2>3, <1>0, <1>3, <1>4, <1>15, TypePartsNext DEF ShutdownEnds
<1>16. ASSUME Busy, inbox # <<>>, inbox' = Tail(inbox), UNCHANGED deferred
       PROVE  LineType' /\ Head(inbox) \in Messages
  BY <1>0, <1>16, DroppedOne DEF LineType
<1>17. CASE IngestCancel
  <2>1. LineType' /\ Head(inbox).of \in Requests
    BY <1>16, <1>17, MessageParts DEF IngestCancel
  <2>2. DutyType'
    <3>1. [duty EXCEPT !.cancelled = TRUE] \in Duties
      BY <1>0 DEF DutyType, Duties
    <3>2. duty' \in Duties /\ cancelled' \subseteq Requests /\ UNCHANGED pc
      BY <3>1, <2>1, <1>0, <1>17 DEF IngestCancel, DutyType
    <3>. QED BY <3>2, <1>0 DEF DutyType
  <2>. QED BY <2>1, <2>2, <1>0, <1>3, <1>4, <1>17, TypePartsNext DEF IngestCancel
<1>18. CASE IngestBarCancel
  <2>1. LineType'
    BY <1>16, <1>18 DEF IngestBarCancel
  <2>2. (duty.cancelled \/ Head(inbox).of = duty.token) \in BOOLEAN
    BY <1>0 DEF DutyType, Duties
  <2>3. DutyType'
    BY <2>2, <1>0, <1>18 DEF IngestBarCancel, DutyType, Duties
  <2>. QED BY <2>1, <2>3, <1>0, <1>3, <1>4, <1>18, TypePartsNext DEF IngestBarCancel
<1>19. CASE IngestCreated
  <2>1. LineType' /\ Head(inbox).ok \in BOOLEAN
    BY <1>16, <1>19, MessageParts DEF IngestCreated
  <2>2. NoToken \in 0 .. MaxCreates
    BY LspAssumption DEF NoToken
  <2>3. DutyType'
    BY <2>1, <2>2, <1>0, <1>19 DEF IngestCreated, DutyType, Duties
  <2>. QED BY <2>1, <2>3, <1>0, <1>3, <1>4, <1>19, TypePartsNext DEF IngestCreated
<1>20. CASE IngestOther
  <2>1. LineType'
    BY <1>0, <1>20, PlaceKept DEF IngestOther, LineType
  <2>2. (duty.yielded \/ duty.interruptible) \in BOOLEAN
    BY <1>0 DEF DutyType, Duties
  <2>3. DutyType'
    BY <2>2, <1>0, <1>20 DEF IngestOther, DutyType, Duties
  <2>. QED BY <2>1, <2>3, <1>0, <1>3, <1>4, <1>20, TypePartsNext DEF IngestOther
<1>21. CASE AskForBar
  <2>1. PICK n \in 1 .. MaxCreates : /\ duty' = [duty EXCEPT !.create = n]
                                     /\ client' = [client EXCEPT !.creates[n] = "asked"]
    BY <1>21 DEF AskForBar
  <2>2. client' \in Clients
    BY <2>1, <1>0 DEF Clients, Marks
  <2>3. DutyType'
    <3>1. n \in 0 .. MaxCreates
      BY LspAssumption
    <3>. QED BY <2>1, <3>1, <1>0, <1>21 DEF AskForBar, DutyType, Duties
  <2>. QED BY <2>2, <2>3, <1>1, <1>3, <1>4, <1>21, TypePartsNext DEF AskForBar
<1>22. CASE BeginBar
  <2>. DEFINE token == IF pc = "walk" THEN duty.token
                       ELSE IF duty.ready THEN duty.create ELSE NoToken
  <2>1. token \in Tokens
    <3>1. token # NoToken
      BY <1>22 DEF BeginBar
    <3>2. duty.token \in Tokens \cup {NoToken} /\ duty.create \in (1 .. MaxCreates) \cup {NoToken}
      BY <1>0, LspAssumption DEF DutyType, Duties, NoToken
    <3>. QED BY <3>1, <3>2 DEF Tokens
  <2>2. /\ duty' = [duty EXCEPT !.begun = TRUE, !.token = token]
        /\ bars' = bars \cup {token}
        /\ UNCHANGED <<client, inbox, deferred, cancelled, pc, confirmVars, docVars, answerVars>>
    BY <1>22 DEF BeginBar
  <2>. HIDE DEF token
  <2>3. DutyType' /\ OutType'
    BY <2>1, <2>2, <1>0 DEF DutyType, Duties, OutType, answerVars
  <2>. QED BY <2>2, <2>3, <1>0, <1>1, <1>3, TypePartsNext
<1>23. ASSUME EndBar
       PROVE  bars' \subseteq Tokens
  BY <1>0, <1>23 DEF EndBar, OutType
<1>24. CASE WalkEnds
  <2>1. answer' \in [Requests -> {"none", "ok", "cancelled"}] /\ shutdowns' \in Nat
    BY <1>0, <1>24 DEF WalkEnds, OutType
  <2>2. OutType'
    BY <2>1, <1>23, <1>24 DEF WalkEnds, OutType
  <2>3. DutyType'
    BY <1>0, <1>24, Nothing DEF WalkEnds, DutyType
  <2>. QED BY <2>2, <2>3, <1>0, <1>1, <1>3, <1>24, TypePartsNext DEF WalkEnds
<1>25. CASE ConfirmBegins
  <2>1. DutyType'
    BY <1>0, <1>25, Nothing DEF ConfirmBegins, DutyType, Duties
  <2>. QED BY <2>1, <1>0, <1>1, <1>3, <1>4, <1>25, TypePartsNext DEF ConfirmBegins
<1>26. CASE ConfirmEnds
  <2>1. DutyType'
    BY <1>0, <1>26, Nothing DEF ConfirmEnds, DutyType
  <2>2. OutType'
    BY <1>0, <1>23, <1>26 DEF ConfirmEnds, OutType, answerVars
  <2>3. DocType'
    <3>1. CASE Stopped
      BY <3>1, <1>0, <1>26 DEF ConfirmEnds, DocType
    <3>2. CASE ~ Stopped
      <4>1. Head(uris) \in Docs /\ Tail(uris) \in Seq(Docs)
        BY <1>0, <1>26, ListParts DEF DocType, ListInv, ConfirmEnds
      <4>. QED BY <3>2, <4>1, <1>0, <1>26, PublishedType DEF ConfirmEnds, DocType
    <3>. QED BY <3>1, <3>2
  <2>. QED BY <2>1, <2>2, <2>3, <1>0, <1>1, <1>26, TypePartsNext DEF ConfirmEnds
<1>27. CASE ConfirmComments
  <2>1. DocType'
    <3>1. session' \in [Docs -> Nat]
      BY <1>0, <1>27 DEF ConfirmComments, DocType
    <3>. QED BY <3>1, <1>0, <1>27, PublishedType DEF ConfirmComments, DocType
  <2>. QED BY <2>1, <1>0, <1>1, <1>2, <1>4, <1>27, TypePartsNext DEF ConfirmComments
<1>28. CASE UNCHANGED vars
  BY <1>0, <1>1, <1>2, <1>3, <1>4, <1>28, TypePartsNext DEF vars
<1>. QED BY <1>5, <1>8, <1>9, <1>10, <1>11, <1>12, <1>13, <1>14, <1>15, <1>17, <1>18, <1>19, <1>20,
            <1>21, <1>22, <1>24, <1>25, <1>26, <1>27, <1>28 DEF Next, Server

(***************************************************************************)
(* How the line changes                                                    *)
(***************************************************************************)
\* m joins the line; the p-th leaves it.
Joins(m) == /\ Len(Waiting') = Len(Waiting) + 1 /\ Waiting'[Len(Waiting) + 1] = m
            /\ \A i \in 1 .. Len(Waiting) : Waiting'[i] = Waiting[i]
Leaves(p) == /\ p \in 1 .. Len(Waiting) /\ Len(Waiting') = Len(Waiting) - 1
             /\ \A i \in 1 .. Len(Waiting') :
                   Waiting'[i] = IF i < p THEN Waiting[i] ELSE Waiting[i + 1]

\* What a client's message tells of its state, before and after.
Truthful(m) ==
    /\ \A n \in 1 .. MaxCreates : client.creates[n] = "agreed" => client'.creates[n] = "agreed"
    /\ client.withdrawn \subseteq client'.withdrawn
    /\ m.kind = "created" /\ m.ok => client'.creates[m.of] = "agreed"
    /\ m.kind \in {"cancel", "barCancel"} /\ m.of \in Requests => m.of \in client'.withdrawn
InTime(m) ==
    /\ client.closing # "no" => m.kind \in {"created", "exit"} /\ client'.closing # "no"
    /\ m.kind = "shutdown" => client'.closing # "no"
Meant(m) ==
    /\ m.kind = "request" => m.view = client.text
    /\ m.kind = "text" /\ ~ m.whole => client.text[m.of] # 0
    /\ \A d \in Docs : client'.text[d] = IF Changes(m, d) THEN Change(m) ELSE client.text[d]
Counted(m) ==
    /\ client'.sent = IF m.kind = "request" THEN client.sent \cup {m.of} ELSE client.sent
    /\ \/ client'.withdrawn = client.withdrawn
       \/ m.kind # "request" /\ \E r \in Requests : client'.withdrawn = client.withdrawn \cup {r}

\* Each step of the client sends one such message.
LEMMA ClientSays ==
    ASSUME TypeOK, Client
    PROVE  \E m \in Messages : /\ Joins(m) /\ Truthful(m) /\ InTime(m) /\ Meant(m) /\ Counted(m)
                               /\ m.kind = "request" => m.of \notin client.sent
<1>0. client \in Clients /\ inbox \in Seq(Messages) /\ deferred \in Seq(Messages)
  BY TypeParts DEF LineType
<1>. DEFINE Good(m) == /\ Joins(m) /\ Truthful(m) /\ InTime(m) /\ Meant(m) /\ Counted(m)
                       /\ m.kind = "request" => m.of \notin client.sent
<1>1. ASSUME NEW m \in Messages, Send(m), UNCHANGED serverVars
      PROVE  Joins(m)
  BY <1>0, <1>1, SentLast DEF Joins, serverVars
<1>2. ASSUME NEW r \in Requests, ClientAsks(r)
      PROVE  \E m \in Messages : Good(m)
  <2>. DEFINE m == [kind |-> "request", of |-> r, view |-> client.text]
  <2>1. m \in Messages /\ Joins(m)
    BY <1>0, <1>1, <1>2, ClientMessages DEF ClientAsks
  <2>2. client' = [client EXCEPT !.sent = @ \cup {r}, !.messages = @ + 1]
        /\ client.closing = "no" /\ r \notin client.sent
    BY <1>2 DEF ClientAsks, MaySend
  <2>3. Truthful(m) /\ InTime(m) /\ Meant(m) /\ Counted(m) /\ m.of \notin client.sent
    BY <1>0, <2>2 DEF Clients, Truthful, InTime, Meant, Counted, Changes
  <2>. QED BY <2>1, <2>3
<1>3. ASSUME NEW r \in Requests, ClientCancels(r)
      PROVE  \E m \in Messages : Good(m)
  <2>. DEFINE m == [kind |-> "cancel", of |-> r]
  <2>1. m \in Messages /\ Joins(m)
    BY <1>0, <1>1, <1>3, ClientMessages DEF ClientCancels
  <2>2. client' = [client EXCEPT !.withdrawn = @ \cup {r}, !.messages = @ + 1]
        /\ client.closing = "no"
    BY <1>3 DEF ClientCancels, MaySend
  <2>3. Truthful(m) /\ InTime(m) /\ Meant(m) /\ Counted(m) /\ m.kind # "request"
    BY <1>0, <2>2 DEF Clients, Truthful, InTime, Meant, Counted, Changes
  <2>. QED BY <2>1, <2>3
<1>4. ASSUME NEW d \in Docs, ClientEdits(d)
      PROVE  \E m \in Messages : Good(m)
  <2>1. PICK version \in {client.messages + 1} \cup {0} :
           /\ Send([kind |-> "text", of |-> d, version |-> version,
                    whole |-> version = 0 \/ client.text[d] = 0])
           /\ client' = [client EXCEPT !.text[d] = version, !.messages = @ + 1]
    BY <1>4 DEF ClientEdits
  <2>2. client.closing = "no" /\ UNCHANGED serverVars
    BY <1>4 DEF ClientEdits, MaySend
  <2>. DEFINE whole == version = 0 \/ client.text[d] = 0
              m == [kind |-> "text", of |-> d, version |-> version, whole |-> whole]
  <2>3. whole \in BOOLEAN /\ version \in Nat /\ (~ whole => client.text[d] # 0)
    BY <1>0 DEF Clients
  <2>4. m \in Messages /\ Joins(m)
    BY <1>0, <1>1, <2>1, <2>2, <2>3, ClientMessages
  <2>. HIDE DEF whole
  <2>5. \A e \in Docs : client'.text[e] = IF e = d THEN version ELSE client.text[e]
    BY <1>0, <2>1 DEF Clients
  <2>6. Truthful(m) /\ InTime(m) /\ Counted(m) /\ m.kind # "request"
    BY <1>0, <2>1, <2>2 DEF Clients, Truthful, InTime, Counted
  <2>7. Meant(m)
    BY <2>3, <2>5 DEF Meant, Changes, Change
  <2>. QED BY <2>4, <2>6, <2>7
<1>5. ASSUME NEW d \in Docs, ClientCloses(d)
      PROVE  \E m \in Messages : Good(m)
  <2>. DEFINE m == [kind |-> "close", of |-> d]
  <2>1. m \in Messages /\ Joins(m)
    BY <1>0, <1>1, <1>5, ClientMessages DEF ClientCloses
  <2>2. client' = [client EXCEPT !.text[d] = 0, !.messages = @ + 1]
        /\ client.closing = "no"
    BY <1>5 DEF ClientCloses, MaySend
  <2>3. Truthful(m) /\ InTime(m) /\ Meant(m) /\ Counted(m) /\ m.kind # "request"
    BY <1>0, <2>2 DEF Clients, Truthful, InTime, Meant, Counted, Changes, Change
  <2>. QED BY <2>1, <2>3
<1>6. ASSUME NEW n \in 1 .. MaxCreates, ClientCreates(n)
      PROVE  \E m \in Messages : Good(m)
  <2>1. PICK ok \in BOOLEAN :
           /\ Send([kind |-> "created", of |-> n, ok |-> ok])
           /\ client' = [client EXCEPT !.creates[n] = IF ok THEN "agreed" ELSE "refused"]
    BY <1>6 DEF ClientCreates
  <2>2. client.creates[n] = "asked" /\ UNCHANGED serverVars
    BY <1>6 DEF ClientCreates
  <2>. DEFINE m == [kind |-> "created", of |-> n, ok |-> ok]
  <2>3. m \in Messages /\ Joins(m)
    BY <1>0, <1>1, <2>1, <2>2, ClientMessages
  <2>4. Truthful(m) /\ InTime(m) /\ Meant(m) /\ Counted(m) /\ m.kind # "request"
    BY <1>0, <2>1, <2>2 DEF Clients, Truthful, InTime, Meant, Counted, Changes
  <2>. QED BY <2>3, <2>4
<1>7. ASSUME NEW t \in Tokens, ClientCancelsBar(t)
      PROVE  \E m \in Messages : Good(m)
  <2>. DEFINE m == [kind |-> "barCancel", of |-> t]
  <2>1. m \in Messages /\ Joins(m)
    BY <1>0, <1>1, <1>7, ClientMessages DEF ClientCancelsBar
  <2>2. client' = [client EXCEPT !.barred = @ \cup {t}, !.messages = @ + 1,
                                 !.withdrawn = @ \cup ({t} \cap Requests)]
        /\ client.closing = "no"
    BY <1>7 DEF ClientCancelsBar, MaySend
  <2>3. Truthful(m) /\ InTime(m) /\ Meant(m) /\ Counted(m) /\ m.kind # "request"
    BY <1>0, <2>2 DEF Clients, Truthful, InTime, Meant, Counted, Changes
  <2>. QED BY <2>1, <2>3
<1>8. CASE ClientLeaves
  <2>1. ASSUME NEW kind \in {"shutdown", "exit"}, Send([kind |-> kind]),
               client' = [client EXCEPT !.closing = kind],
               client.closing = "no" => kind = "shutdown",
               client.closing # "no" => kind = "exit"
        PROVE  \E m \in Messages : Good(m)
    <3>. DEFINE m == [kind |-> kind]
    <3>1. m \in Messages /\ UNCHANGED serverVars
      BY <1>0, <1>8, ClientMessages DEF ClientLeaves
    <3>2. Joins(m)
      BY <1>1, <2>1, <3>1
    <3>3. Truthful(m) /\ InTime(m) /\ Meant(m) /\ Counted(m) /\ m.kind # "request"
      BY <1>0, <2>1 DEF Clients, Truthful, InTime, Meant, Counted, Changes
    <3>. QED BY <3>1, <3>2, <3>3
  <2>. QED BY <1>8, <2>1 DEF ClientLeaves
<1>. QED BY <1>2, <1>3, <1>4, <1>5, <1>6, <1>7, <1>8 DEF Client

\* The loop takes the first, and a handler may take one out of its turn.
LEMMA ServerTakes ==
    ASSUME TypeOK
    PROVE  /\ \A kinds : Take(kinds) => Leaves(1) /\ Message = Waiting[1] /\ Message \in Messages
                                        /\ Message.kind \in kinds /\ pc = "loop"
           /\ inbox # <<>> /\ inbox' = Tail(inbox) /\ UNCHANGED deferred =>
                 /\ Leaves(Len(deferred) + 1) /\ Waiting[Len(deferred) + 1] = Head(inbox)
                 /\ Head(inbox) \in Messages
           /\ IngestOther => Waiting' = Waiting
           /\ UNCHANGED <<inbox, deferred>> => Waiting' = Waiting
<1>0. inbox \in Seq(Messages) /\ deferred \in Seq(Messages)
  BY TypeParts DEF LineType
<1>1. ASSUME NEW kinds, Take(kinds)
      PROVE  Leaves(1) /\ Message = Waiting[1] /\ Message \in Messages /\ Message.kind \in kinds
             /\ pc = "loop"
  <2>1. /\ pc = "loop" /\ Message \in Messages /\ Message.kind \in kinds
        /\ Len(Waiting) \in Nat \ {0} /\ Message = Waiting[1]
        /\ Len(Waiting') = Len(Waiting) - 1
        /\ \A i \in 1 .. Len(Waiting') : Waiting'[i] = Waiting[i + 1]
    BY <1>0, <1>1, TakenFirst
  <2>. QED BY <2>1 DEF Leaves
<1>2. ASSUME inbox # <<>>, inbox' = Tail(inbox), UNCHANGED deferred
      PROVE  /\ Leaves(Len(deferred) + 1) /\ Waiting[Len(deferred) + 1] = Head(inbox)
             /\ Head(inbox) \in Messages
  <2>1. /\ Head(inbox) \in Messages
        /\ Len(deferred) + 1 \in 1 .. Len(Waiting) /\ Waiting[Len(deferred) + 1] = Head(inbox)
        /\ Len(Waiting') = Len(Waiting) - 1
        /\ \A i \in 1 .. Len(Waiting') :
              Waiting'[i] = IF i <= Len(deferred) THEN Waiting[i] ELSE Waiting[i + 1]
    BY <1>0, <1>2, DroppedOne
  <2>2. Len(deferred) \in Nat /\ Len(Waiting) \in Nat
    BY <1>0, Line
  <2>. QED BY <2>1, <2>2 DEF Leaves
<1>3. IngestOther => Waiting' = Waiting
  BY <1>0, PlaceKept DEF IngestOther
<1>4. UNCHANGED <<inbox, deferred>> => Waiting' = Waiting
  BY DEF Waiting
<1>. QED BY <1>1, <1>2, <1>3, <1>4

(***************************************************************************)
(* The invariants are kept, one by one                                     *)
(***************************************************************************)
\* A confirm pass begins with a document, and nothing takes it from the list.
LEMMA ListStep ==
    ASSUME TypeOK, ListInv, [Next]_vars
    PROVE  ListInv'
<1>. USE DEF ListInv
<1>1. CASE Client
  BY <1>1, ClientStep DEF serverVars, confirmVars
<1>2. CASE TakeRequest \/ TakeCancel \/ TakeText \/ TakeClose \/ TakeOther \/ TakeExit \/ TakeShutdown
  BY <1>2 DEF TakeRequest, TakeCancel, TakeText, TakeClose, TakeOther, TakeExit, TakeShutdown, Take
<1>3. CASE ShutdownEnds \/ WalkEnds \/ ConfirmBegins \/ ConfirmEnds \/ ConfirmComments
  BY <1>3 DEF ShutdownEnds, WalkEnds, ConfirmBegins, ConfirmEnds, ConfirmComments, confirmVars
<1>4. CASE IngestCancel \/ IngestBarCancel \/ IngestCreated \/ IngestOther \/ AskForBar \/ BeginBar
  BY <1>4 DEF IngestCancel, IngestBarCancel, IngestCreated, IngestOther, AskForBar, BeginBar,
              confirmVars
<1>5. CASE UNCHANGED vars
  BY <1>5 DEF vars, confirmVars
<1>. QED BY <1>1, <1>2, <1>3, <1>4, <1>5 DEF Next, Server

\* What the client agreed to stays agreed.
LEMMA AgreedStays ==
    ASSUME TypeOK, [Next]_vars
    PROVE  \A n \in 1 .. MaxCreates : client.creates[n] = "agreed" => client'.creates[n] = "agreed"
<1>0. client \in Clients
  BY TypeParts
<1>1. CASE Client
  BY <1>1, ClientSays DEF Truthful
<1>2. CASE AskForBar
  <2>1. PICK n \in 1 .. MaxCreates :
           /\ \A m \in 1 .. MaxCreates : client.creates[m] = "none" <=> m >= n
           /\ client' = [client EXCEPT !.creates[n] = "asked"]
    BY <1>2 DEF AskForBar
  <2>2. client.creates[n] = "none"
    BY <2>1
  <2>. QED BY <1>0, <2>1, <2>2 DEF Clients
<1>3. CASE UNCHANGED client
  BY <1>3
<1>. QED BY <1>1, <1>2, <1>3
     DEF Next, Server, vars, TakeRequest, TakeCancel, TakeText, TakeClose, TakeOther, TakeExit,
         TakeShutdown, ShutdownEnds, IngestCancel, IngestBarCancel, IngestCreated, IngestOther,
         BeginBar, WalkEnds, ConfirmBegins, ConfirmEnds, ConfirmComments

\* A duty is reset when it ends, and its bar is one the client knows.
LEMMA DutyStep ==
    ASSUME TypeOK, DutyInv, WordInv, [Next]_vars
    PROVE  DutyInv'
<1>. USE DEF DutyInv, Busy
<1>0. /\ client \in Clients /\ duty \in Duties /\ cancelled \subseteq Requests
      /\ Shutdown \notin Requests /\ NoRequest \notin Requests /\ Tracked \subseteq Requests
      /\ MaxCreates \in Nat /\ NoRequest # Shutdown
  BY TypeParts, LspAssumption DEF DutyType
<1>1. NoDuty.id = NoRequest /\ ~ NoDuty.ready /\ NoDuty.create = NoToken /\ NoDuty.token = NoToken
      /\ ~ NoDuty.interruptible /\ ~ NoDuty.yielded
  BY DEF NoDuty
<1>2. \A n \in 1 .. MaxCreates : client.creates[n] = "agreed" => client'.creates[n] = "agreed"
  BY AgreedStays
<1>3. duty.create \in (1 .. MaxCreates) \cup {NoToken}
  BY <1>0 DEF Duties, NoToken
<1>4. ASSUME UNCHANGED <<pc, duty, cancelled>>
      PROVE  DutyInv'
  BY <1>2, <1>3, <1>4
<1>5. ASSUME duty' = NoDuty, pc' \in {"loop", "shutdown", "done"}
      PROVE  DutyInv'
  BY <1>1, <1>5
<1>6. ASSUME NEW id \in Requests \cup {Shutdown}, NEW view, duty' = RequestDuty(id, view),
             pc' = "walk", id \notin cancelled, UNCHANGED cancelled
      PROVE  DutyInv'
  <2>1. duty'.id = id /\ ~ duty'.ready /\ duty'.create = NoToken
        /\ ~ duty'.interruptible /\ ~ duty'.yielded
        /\ duty'.token = IF id \in Tracked THEN id ELSE NoToken
    BY <1>6 DEF RequestDuty, NoDuty
  <2>. QED BY <2>1, <1>6
<1>7. CASE Client
  BY <1>4, <1>7, ClientStep DEF serverVars
<1>8. CASE TakeRequest
  <2>1. Message \in Messages /\ Message.kind = "request" /\ pc = "loop"
    BY <1>8, ServerTakes DEF TakeRequest
  <2>2. Message.of \in Requests
    BY <2>1, MessageParts
  <2>3. CASE Message.of \in cancelled
    BY <2>1, <2>3, <1>5, <1>8 DEF TakeRequest
  <2>4. CASE Message.of \notin cancelled
    BY <2>2, <2>4, <1>6, <1>8 DEF TakeRequest
  <2>. QED BY <2>3, <2>4
<1>9. CASE TakeCancel \/ TakeText \/ TakeClose \/ TakeOther \/ TakeExit \/ TakeShutdown
  <2>1. pc = "loop" /\ UNCHANGED duty /\ pc' \in {"loop", "shutdown", "done"}
    BY <1>9 DEF TakeCancel, TakeText, TakeClose, TakeOther, TakeExit, TakeShutdown, Take
  <2>. QED BY <2>1, <1>5
<1>10. CASE ShutdownEnds
  <2>1. CASE pc' = "done" /\ UNCHANGED duty
    BY <2>1, <1>5, <1>10 DEF ShutdownEnds
  <2>2. CASE pc' = "walk" /\ duty' = RequestDuty(Shutdown, session)
    BY <2>2, <1>0, <1>6, <1>10 DEF ShutdownEnds
  <2>. QED BY <2>1, <2>2, <1>10 DEF ShutdownEnds
<1>11. CASE IngestCancel
  <2>1. UNCHANGED <<pc, client>> /\ Busy
    BY <1>11 DEF IngestCancel
  <2>2. \/ duty' = [duty EXCEPT !.cancelled = TRUE] /\ UNCHANGED cancelled
        \/ UNCHANGED duty /\ \E r : r # duty.id /\ cancelled' = cancelled \cup {r}
    BY <1>11 DEF IngestCancel
  <2>. QED BY <2>1, <2>2, <1>0 DEF Duties
<1>12. CASE IngestBarCancel
  <2>1. /\ UNCHANGED <<pc, client, cancelled>> /\ Busy
        /\ \E stop : duty' = [duty EXCEPT !.cancelled = stop]
    BY <1>12 DEF IngestBarCancel
  <2>. QED BY <2>1, <1>0 DEF Duties
<1>13. CASE IngestCreated
  <2>1. UNCHANGED <<pc, client, cancelled>> /\ Busy
    BY <1>13 DEF IngestCreated
  <2>2. Head(inbox) \in Messages /\ Head(inbox).kind = "created"
        /\ \E i \in 1 .. Len(Waiting) : Waiting[i] = Head(inbox)
    BY <1>13, ServerTakes DEF IngestCreated, Leaves
  <2>3. Head(inbox).of \in 1 .. MaxCreates
    BY <2>2, MessageParts
  <2>4. CASE Head(inbox).of = duty.create
    <3>1. duty.create # NoToken /\ pc = "confirm"
      BY <2>1, <2>3, <2>4, <1>0 DEF NoToken
    <3>2. Head(inbox).ok => client.creates[duty.create] = "agreed"
      BY <2>2, <2>4 DEF WordInv
    <3>3. duty' = [duty EXCEPT !.ready = Head(inbox).ok,
                               !.create = IF Head(inbox).ok THEN @ ELSE NoToken]
      BY <2>4, <1>13 DEF IngestCreated
    <3>. QED BY <2>1, <3>1, <3>2, <3>3, <1>0 DEF Duties
  <2>5. CASE Head(inbox).of # duty.create
    BY <2>1, <2>5, <1>4, <1>13 DEF IngestCreated
  <2>. QED BY <2>4, <2>5
<1>14. CASE IngestOther
  <2>1. UNCHANGED <<pc, client, cancelled>> /\ Busy
        /\ duty' = [duty EXCEPT !.yielded = duty.yielded \/ duty.interruptible]
    BY <1>14 DEF IngestOther
  <2>. QED BY <2>1, <1>0 DEF Duties
<1>15. CASE AskForBar
  <2>1. PICK n \in 1 .. MaxCreates : duty' = [duty EXCEPT !.create = n]
    BY <1>15 DEF AskForBar
  <2>2. pc = "confirm" /\ duty.create = NoToken /\ UNCHANGED <<pc, cancelled>>
    BY <1>15 DEF AskForBar
  <2>. QED BY <2>1, <2>2, <1>0 DEF Duties
<1>16. CASE BeginBar
  <2>1. UNCHANGED <<pc, client, cancelled>> /\ Busy
        /\ \E token : /\ duty' = [duty EXCEPT !.begun = TRUE, !.token = token]
                      /\ pc = "walk" => token = duty.token
    BY <1>16 DEF BeginBar
  <2>. QED BY <2>1, <1>0 DEF Duties
<1>17. CASE WalkEnds \/ ConfirmEnds
  BY <1>5, <1>17 DEF WalkEnds, ConfirmEnds
<1>18. CASE ConfirmBegins
  <2>1. pc' = "confirm" /\ duty' = [NoDuty EXCEPT !.interruptible = TRUE]
    BY <1>18 DEF ConfirmBegins
  <2>2. duty'.id = NoRequest /\ ~ duty'.ready
    BY <2>1 DEF NoDuty
  <2>. QED BY <2>1, <2>2
<1>19. CASE ConfirmComments
  BY <1>4, <1>19 DEF ConfirmComments
<1>20. CASE UNCHANGED vars
  BY <1>4, <1>20 DEF vars
<1>. QED BY <1>7, <1>8, <1>9, <1>10, <1>11, <1>12, <1>13, <1>14, <1>15, <1>16, <1>17, <1>18, <1>19,
            <1>20 DEF Next, Server

\* A bar that was begun is the duty's, and ends with it.
LEMMA BarStep ==
    ASSUME TypeOK, DutyInv, BarInv, [Next]_vars
    PROVE  BarInv'
<1>. USE DEF BarInv
<1>0. client \in Clients /\ duty \in Duties /\ bars \subseteq Tokens /\ Tracked \subseteq Requests
  BY TypeParts, LspAssumption DEF DutyType, OutType
<1>1. \A n \in 1 .. MaxCreates : client.creates[n] = "agreed" => client'.creates[n] = "agreed"
  BY AgreedStays
<1>2. duty.begun => duty.token \in Requests \/ duty.token \in 1 .. MaxCreates
  BY <1>0 DEF Tokens
<1>3. ASSUME UNCHANGED bars, duty'.begun = duty.begun, duty'.token = duty.token
      PROVE  BarInv'
  BY <1>1, <1>2, <1>3
<1>4. ASSUME UNCHANGED bars, ~ Busy, ~ duty'.begun
      PROVE  BarInv'
  BY <1>4 DEF DutyInv, NoDuty
<1>5. ASSUME EndBar, duty' = NoDuty
      PROVE  BarInv'
  <2>1. bars' = {} /\ ~ duty'.begun
    BY <1>5 DEF EndBar, NoDuty
  <2>. QED BY <2>1
<1>. ~ NoDuty.begun /\ \A id, view : ~ RequestDuty(id, view).begun
  BY DEF NoDuty, RequestDuty
<1>6. CASE Client
  BY <1>3, <1>6, ClientStep DEF serverVars
<1>7. CASE TakeRequest
  <2>1. UNCHANGED bars /\ pc = "loop" /\ (UNCHANGED duty \/ duty' = RequestDuty(Message.of, Message.view))
    BY <1>7 DEF TakeRequest, Take
  <2>2. ~ duty'.begun
    BY <2>1 DEF DutyInv, Busy
  <2>. QED BY <2>1, <2>2, <1>4 DEF Busy
<1>8. CASE TakeCancel \/ TakeText \/ TakeClose \/ TakeOther \/ TakeExit \/ TakeShutdown
  BY <1>3, <1>8 DEF TakeCancel, TakeText, TakeClose, TakeOther, TakeExit, TakeShutdown
<1>9. CASE ShutdownEnds
  <2>1. UNCHANGED bars /\ pc = "shutdown" /\ (UNCHANGED duty \/ duty' = RequestDuty(Shutdown, session))
    BY <1>9 DEF ShutdownEnds
  <2>2. ~ duty'.begun
    BY <2>1 DEF DutyInv, Busy
  <2>. QED BY <2>1, <2>2, <1>4 DEF Busy
<1>10. CASE IngestCancel \/ IngestBarCancel \/ IngestCreated \/ IngestOther \/ AskForBar
  <2>1. UNCHANGED bars
    BY <1>10 DEF IngestCancel, IngestBarCancel, IngestCreated, IngestOther, AskForBar
  <2>2. duty'.begun = duty.begun /\ duty'.token = duty.token
    BY <1>0, <1>10 DEF IngestCancel, IngestBarCancel, IngestCreated, IngestOther, AskForBar, Duties
  <2>. QED BY <2>1, <2>2, <1>3
<1>11. CASE BeginBar
  <2>. DEFINE token == IF pc = "walk" THEN duty.token
                       ELSE IF duty.ready THEN duty.create ELSE NoToken
  <2>1. /\ ~ duty.begun /\ token # NoToken /\ Busy /\ UNCHANGED client
        /\ duty' = [duty EXCEPT !.begun = TRUE, !.token = token]
        /\ bars' = bars \cup {token}
    BY <1>11 DEF BeginBar
  <2>2. token \in Requests \/ client.creates[token] = "agreed"
    BY <2>1, <1>0 DEF DutyInv
  <2>. HIDE DEF token
  <2>3. duty'.begun /\ duty'.token = token
    BY <2>1, <1>0 DEF Duties
  <2>. QED BY <2>1, <2>2, <2>3
<1>12. CASE WalkEnds \/ ConfirmEnds
  BY <1>5, <1>12 DEF WalkEnds, ConfirmEnds
<1>13. CASE ConfirmBegins
  BY <1>4, <1>13 DEF ConfirmBegins, Busy, NoDuty
<1>14. CASE ConfirmComments \/ UNCHANGED vars
  BY <1>3, <1>14 DEF ConfirmComments, vars
<1>. QED BY <1>6, <1>7, <1>8, <1>9, <1>10, <1>11, <1>12, <1>13, <1>14 DEF Next, Server

\* A step of the server takes at most one message from the line, and of the
\* client's state it changes only that it asked for a token.
LEMMA ServerLine ==
    ASSUME TypeOK, Server
    PROVE  /\ Waiting' = Waiting \/ \E p \in 1 .. Len(Waiting) : Leaves(p)
           /\ client'.text = client.text /\ client'.sent = client.sent
           /\ client'.withdrawn = client.withdrawn /\ client'.closing = client.closing
<1>0. client \in Clients
  BY TypeParts
<1>. DEFINE Same == UNCHANGED client
            Goal == Waiting' = Waiting \/ \E p \in 1 .. Len(Waiting) : Leaves(p)
<1>1. ASSUME NEW p, Leaves(p)
      PROVE  Goal
  BY <1>1 DEF Leaves
<1>2. CASE TakeRequest \/ TakeCancel \/ TakeText \/ TakeClose \/ TakeOther \/ TakeExit \/ TakeShutdown
  <2>1. Same /\ \E kinds : Take(kinds)
    BY <1>2 DEF TakeRequest, TakeCancel, TakeText, TakeClose, TakeOther, TakeExit, TakeShutdown
  <2>. QED BY <2>1, <1>1, ServerTakes
<1>3. CASE ShutdownEnds
  <2>1. Same /\ (UNCHANGED <<inbox, deferred>>
                 \/ (inbox # <<>> /\ inbox' = Tail(inbox) /\ UNCHANGED deferred))
    BY <1>3 DEF ShutdownEnds, ExitIsNext
  <2>. QED BY <2>1, <1>1, ServerTakes
<1>4. CASE IngestCancel \/ IngestBarCancel \/ IngestCreated
  <2>1. Same /\ inbox # <<>> /\ inbox' = Tail(inbox) /\ UNCHANGED deferred
    BY <1>4 DEF IngestCancel, IngestBarCancel, IngestCreated
  <2>. QED BY <2>1, <1>1, ServerTakes
<1>5. CASE IngestOther
  <2>1. Same
    BY <1>5 DEF IngestOther
  <2>. QED BY <2>1, <1>5, ServerTakes
<1>6. CASE AskForBar
  <2>1. UNCHANGED <<inbox, deferred>> /\ \E n : client' = [client EXCEPT !.creates[n] = "asked"]
    BY <1>6 DEF AskForBar
  <2>. QED BY <2>1, <1>0, ServerTakes DEF Clients
<1>7. CASE BeginBar \/ WalkEnds \/ ConfirmBegins \/ ConfirmEnds \/ ConfirmComments
  <2>1. Same /\ UNCHANGED <<inbox, deferred>>
    BY <1>7 DEF BeginBar, WalkEnds, ConfirmBegins, ConfirmEnds, ConfirmComments
  <2>. QED BY <2>1, ServerTakes
<1>. QED BY <1>2, <1>3, <1>4, <1>5, <1>6, <1>7 DEF Server

\* The line after a step is made of the messages before it and of one that is true.
LEMMA WordStep ==
    ASSUME TypeOK, WordInv, [Next]_vars
    PROVE  WordInv'
<1>0. Waiting \in Seq(Messages) /\ Len(Waiting) \in Nat
  BY TypeParts, Line DEF LineType
<1>1. \A n \in 1 .. MaxCreates : client.creates[n] = "agreed" => client'.creates[n] = "agreed"
  BY AgreedStays
<1>2. ASSUME client.withdrawn \subseteq client'.withdrawn, NEW i \in 1 .. Len(Waiting)
      PROVE  /\ Waiting[i].kind = "created" /\ Waiting[i].ok =>
                    client'.creates[Waiting[i].of] = "agreed"
             /\ Waiting[i].kind \in {"cancel", "barCancel"} /\ Waiting[i].of \in Requests =>
                    Waiting[i].of \in client'.withdrawn
  <2>1. Waiting[i] \in Messages
    BY <1>0, ElementOfSeq
  <2>. QED BY <2>1, <1>1, <1>2, MessageParts DEF WordInv
<1>3. CASE Client
  <2>1. PICK m \in Messages : Joins(m) /\ Truthful(m)
    BY <1>3, ClientSays
  <2>2. ASSUME NEW i \in 1 .. Len(Waiting')
        PROVE  (i \in 1 .. Len(Waiting) /\ Waiting'[i] = Waiting[i]) \/ Waiting'[i] = m
    BY <2>1, <1>0 DEF Joins
  <2>. QED BY <2>1, <2>2, <1>2 DEF Truthful, WordInv
<1>4. CASE Server
  <2>1. ASSUME NEW i \in 1 .. Len(Waiting')
        PROVE  \E j \in 1 .. Len(Waiting) : Waiting'[i] = Waiting[j]
    <3>1. CASE Waiting' = Waiting
      BY <3>1
    <3>2. CASE \E p \in 1 .. Len(Waiting) : Leaves(p)
      BY SMTT(20), <3>2, <1>0 DEF Leaves
    <3>. QED BY <3>1, <3>2, <1>4, ServerLine
  <2>. QED BY SMTT(20), <2>1, <1>2, <1>4, ServerLine DEF WordInv
<1>5. CASE UNCHANGED vars
  BY <1>5 DEF vars, WordInv, Waiting
<1>. QED BY <1>3, <1>4, <1>5 DEF Next

\* After the shutdown request only replies and the exit follow.
LEMMA EndStep ==
    ASSUME TypeOK, EndInv, [Next]_vars
    PROVE  EndInv'
<1>. USE DEF EndInv
<1>0. Len(Waiting) \in Nat
  BY TypeParts, Line DEF LineType
<1>1. CASE Client
  <2>1. PICK m \in Messages : Joins(m) /\ InTime(m)
    BY <1>1, ClientSays
  <2>2. UNCHANGED pc
    BY <1>1, ClientStep DEF serverVars
  <2>. QED BY <2>1, <2>2, <1>0 DEF Joins, InTime
<1>2. CASE Server
  <2>1. client'.closing = client.closing
    BY <1>2, ServerLine
  <2>2. ASSUME NEW i \in 1 .. Len(Waiting'), Waiting'[i].kind = "shutdown"
        PROVE  /\ client'.closing # "no"
               /\ \A j \in i + 1 .. Len(Waiting') : Waiting'[j].kind \in {"created", "exit"}
    <3>1. CASE Waiting' = Waiting
      BY <2>1, <2>2, <3>1
    <3>2. CASE \E p \in 1 .. Len(Waiting) : Leaves(p)
      BY SMTT(20), <2>1, <2>2, <3>2, <1>0 DEF Leaves
    <3>. QED BY <3>1, <3>2, <1>2, ServerLine
  <2>3. ASSUME pc' = "shutdown"
        PROVE  /\ client'.closing # "no"
               /\ \A j \in 1 .. Len(Waiting') : Waiting'[j].kind \in {"created", "exit"}
    <3>1. TakeShutdown
      BY <2>3, <1>2 DEF Server, TakeRequest, TakeCancel, TakeText, TakeClose, TakeOther, TakeExit,
         ShutdownEnds, IngestCancel, IngestBarCancel, IngestCreated, IngestOther, AskForBar,
         BeginBar, WalkEnds, ConfirmBegins, ConfirmEnds, ConfirmComments, Take, Busy
    <3>2. Leaves(1) /\ Waiting[1].kind = "shutdown"
      BY <3>1, ServerTakes DEF TakeShutdown
    <3>. QED BY <3>2, <2>1, <1>0 DEF Leaves
  <2>. QED BY <2>2, <2>3
<1>3. CASE UNCHANGED vars
  BY <1>3 DEF vars, Waiting
<1>. QED BY <1>1, <1>2, <1>3 DEF Next

(***************************************************************************)
(* Texts                                                                   *)
(***************************************************************************)
\* What follows in the line does not change what the server will have.
LEMMA SaysJoins ==
    ASSUME NEW line, NEW next, NEW text, NEW n \in Nat, NEW d, NEW v, NEW m,
           \A j \in 1 .. n : next[j] = line[j], next[n + 1] = m
    PROVE  /\ \A i \in 1 .. n + 1 : Says(line, text, i, d, v) => Says(next, text, i, d, v)
           /\ Says(line, text, n + 1, d, v) =>
                  /\ Changes(m, d) => Says(next, text, n + 2, d, Change(m))
                  /\ ~ Changes(m, d) => Says(next, text, n + 2, d, v)
<1>1. ASSUME NEW i \in 1 .. n + 1, Says(line, text, i, d, v)
      PROVE  Says(next, text, i, d, v)
  BY <1>1 DEF Says
<1>2. ASSUME Says(line, text, n + 1, d, v)
      PROVE  /\ Changes(m, d) => Says(next, text, n + 2, d, Change(m))
             /\ ~ Changes(m, d) => Says(next, text, n + 2, d, v)
  <2>1. n + 2 - 1 = n + 1 /\ n + 1 - 1 = n
    OBVIOUS
  <2>2. CASE Changes(m, d)
    <3>1. Changes(next[n + 1], d) /\ Change(next[n + 1]) = Change(m)
      BY <2>2
    <3>2. n + 1 \in 1 .. n + 1 /\ \A k \in n + 1 + 1 .. n + 1 : FALSE
      OBVIOUS
    <3>. QED BY <2>1, <2>2, <3>1, <3>2 DEF Says
  <2>3. CASE ~ Changes(m, d)
    <3>1. CASE text[d] = v /\ \A j \in 1 .. n : ~ Changes(line[j], d)
      <4>1. \A j \in 1 .. n + 1 : ~ Changes(next[j], d)
        BY <2>3, <3>1
      <4>. QED BY <2>1, <2>3, <3>1, <4>1 DEF Says
    <3>2. ASSUME NEW j \in 1 .. n, Changes(line[j], d), Change(line[j]) = v,
                 \A k \in j + 1 .. n : ~ Changes(line[k], d)
          PROVE  Says(next, text, n + 2, d, v)
      <4>1. j \in 1 .. n + 1 /\ next[j] = line[j]
        OBVIOUS
      <4>2. \A k \in j + 1 .. n + 1 : ~ Changes(next[k], d)
        BY <2>3, <3>2
      <4>. QED BY <2>1, <3>2, <4>1, <4>2 DEF Says
    <3>. QED BY <1>2, <2>1, <2>3, <3>1, <3>2 DEF Says
  <2>. QED BY <2>2, <2>3
<1>. QED BY <1>1, <1>2

\* A message that leaves the line was handled, or is about no text.
LEMMA SaysLeaves ==
    ASSUME NEW line, NEW next, NEW text, NEW after, NEW n \in Nat, NEW p \in 1 .. n,
           \A j \in 1 .. n - 1 : next[j] = IF j < p THEN line[j] ELSE line[j + 1],
           NEW d, NEW v, NEW i \in 1 .. n + 1, Says(line, text, i, d, v),
           \/ ~ Changes(line[p], d) /\ after[d] = text[d]
           \/ p = 1 /\ Changes(line[1], d) /\ after[d] = Change(line[1]),
           p = 1 => i # 1
    PROVE  Says(next, after, IF i <= p THEN i ELSE i - 1, d, v)
<1>1. CASE i <= p
  <2>1. \A j \in 1 .. i - 1 : next[j] = line[j]
    BY <1>1
  <2>2. after[d] = text[d]
    BY <1>1
  <2>. QED BY <2>1, <2>2, <1>1 DEF Says
<1>2. CASE i > p
  <2>1. SUFFICES Says(next, after, i - 1, d, v)
    BY <1>2
  <2>2. /\ i - 1 \in Nat /\ i - 1 - 1 = i - 2
        /\ \A j \in 1 .. i - 2 : next[j] = IF j < p THEN line[j] ELSE line[j + 1]
    BY <1>2
  <2>3. CASE ~ Changes(line[p], d) /\ after[d] = text[d]
    <3>1. CASE text[d] = v /\ \A j \in 1 .. i - 1 : ~ Changes(line[j], d)
      <4>1. ASSUME NEW j \in 1 .. i - 2
            PROVE  ~ Changes(next[j], d)
        <5>1. j \in 1 .. i - 1 /\ j + 1 \in 1 .. i - 1
          OBVIOUS
        <5>2. next[j] = line[j] \/ next[j] = line[j + 1]
          BY <2>2
        <5>. QED BY <3>1, <5>1, <5>2
      <4>. QED BY <2>2, <2>3, <3>1, <4>1 DEF Says
    <3>2. ASSUME NEW j \in 1 .. i - 1, Changes(line[j], d), Change(line[j]) = v,
                 \A k \in j + 1 .. i - 1 : ~ Changes(line[k], d)
          PROVE  Says(next, after, i - 1, d, v)
      <4>1. j # p
        BY <2>3, <3>2
      <4>. DEFINE l == IF j < p THEN j ELSE j - 1
      <4>2. l \in 1 .. i - 2 /\ next[l] = line[j]
        BY <1>2, <2>2, <4>1
      <4>3. ASSUME NEW k \in l + 1 .. i - 2
            PROVE  ~ Changes(next[k], d)
        <5>1. k \in 1 .. i - 2
          BY <4>2
        <5>2. next[k] = IF k < p THEN line[k] ELSE line[k + 1]
          BY <2>2, <5>1
        <5>3. CASE k < p
          <6>1. k \in j + 1 .. i - 1
            BY <5>3, <4>1
          <6>. QED BY <3>2, <5>2, <5>3, <6>1
        <5>4. CASE ~ k < p
          <6>1. k + 1 \in j + 1 .. i - 1
            BY <5>4, <4>1
          <6>. QED BY <3>2, <5>2, <5>4, <6>1
        <5>. QED BY <5>3, <5>4
      <4>. HIDE DEF l
      <4>4. Changes(next[l], d) /\ Change(next[l]) = v
        BY <3>2, <4>2
      <4>. QED BY <2>2, <4>2, <4>3, <4>4 DEF Says
    <3>. QED BY <3>1, <3>2 DEF Says
  <2>4. CASE p = 1 /\ Changes(line[1], d) /\ after[d] = Change(line[1])
    <3>1. PICK j \in 1 .. i - 1 : /\ Changes(line[j], d) /\ Change(line[j]) = v
                                  /\ \A k \in j + 1 .. i - 1 : ~ Changes(line[k], d)
      BY <2>4, <1>2 DEF Says
    <3>2. \A k \in 1 .. i - 2 : next[k] = line[k + 1]
      BY <2>2, <2>4
    <3>3. CASE j = 1
      <4>1. ASSUME NEW k \in 1 .. i - 2
            PROVE  ~ Changes(next[k], d)
        <5>1. k + 1 \in j + 1 .. i - 1
          BY <3>3
        <5>. QED BY <3>1, <3>2, <5>1
      <4>. QED BY <2>2, <2>4, <3>1, <3>3, <4>1 DEF Says
    <3>4. CASE j > 1
      <4>1. j - 1 \in 1 .. i - 2 /\ next[j - 1] = line[j]
        BY <3>2, <3>4
      <4>2. ASSUME NEW k \in j - 1 + 1 .. i - 2
            PROVE  ~ Changes(next[k], d)
        <5>1. k \in 1 .. i - 2 /\ k + 1 \in j + 1 .. i - 1
          BY <3>4
        <5>. QED BY <3>1, <3>2, <5>1
      <4>3. Changes(next[j - 1], d) /\ Change(next[j - 1]) = v
        BY <3>1, <4>1
      <4>. QED BY <2>2, <4>1, <4>2, <4>3 DEF Says
    <3>. QED BY <3>3, <3>4
  <2>. QED BY <2>3, <2>4
<1>. QED BY <1>1, <1>2

\* The texts stay in step when one message leaves the line.
LEMMA TextLeaves ==
    ASSUME TypeOK, TextInv, NEW p, Leaves(p), client'.text = client.text,
           \/ \A d \in Docs : ~ Changes(Waiting[p], d) /\ session'[d] = session[d]
           \/ p = 1 /\ \A d \in Docs : session'[d] = IF Changes(Waiting[1], d) THEN Change(Waiting[1])
                                                                               ELSE session[d]
    PROVE  TextInv'
<1>. DEFINE n == Len(Waiting)
<1>0. /\ n \in Nat /\ p \in 1 .. n /\ Len(Waiting') = n - 1
      /\ \A i \in 1 .. n : Waiting[i] \in Messages
      /\ \A j \in 1 .. n - 1 : Waiting'[j] = IF j < p THEN Waiting[j] ELSE Waiting[j + 1]
  BY TypeParts, Line, ElementOfSeq DEF LineType, Leaves
<1>1. ASSUME NEW d \in Docs, NEW v, NEW i \in 1 .. n + 1, p = 1 => i # 1,
             Says(Waiting, session, i, d, v)
      PROVE  Says(Waiting', session', IF i <= p THEN i ELSE i - 1, d, v)
  <2>1. \/ ~ Changes(Waiting[p], d) /\ session'[d] = session[d]
        \/ p = 1 /\ Changes(Waiting[1], d) /\ session'[d] = Change(Waiting[1])
    OBVIOUS
  <2>. HIDE DEF n
  <2>. QED BY <1>0, <1>1, <2>1, SaysLeaves
<1>2. ASSUME NEW d \in Docs
      PROVE  Says(Waiting', session', Len(Waiting') + 1, d, client'.text[d])
  <2>1. Says(Waiting, session, n + 1, d, client.text[d])
    BY DEF TextInv
  <2>2. n + 1 \in 1 .. n + 1 /\ ~ (n + 1 <= p) /\ n + 1 # 1 /\ n + 1 - 1 = Len(Waiting') + 1
    BY <1>0
  <2>. QED BY <1>1, <2>1, <2>2
<1>3. ASSUME NEW i \in 1 .. Len(Waiting')
      PROVE  \E j \in 1 .. n : /\ Waiting'[i] = Waiting[j]
                               /\ \A v : \A d \in Docs : Says(Waiting, session, j, d, v) =>
                                                         Says(Waiting', session', i, d, v)
  <2>. DEFINE j == IF i < p THEN i ELSE i + 1
  <2>1. j \in 1 .. n /\ Waiting'[i] = Waiting[j] /\ (p = 1 => j # 1)
        /\ i = IF j <= p THEN j ELSE j - 1
    BY <1>0
  <2>2. j \in 1 .. n + 1
    BY <1>0, <2>1
  <2>. HIDE DEF j, n
  <2>3. \A v : \A d \in Docs : Says(Waiting, session, j, d, v) => Says(Waiting', session', i, d, v)
    BY <1>1, <2>1, <2>2
  <2>. QED BY <2>1, <2>3
<1>4. ASSUME NEW i \in 1 .. Len(Waiting')
      PROVE  /\ Waiting'[i].kind = "request" =>
                   \A d \in Docs : Says(Waiting', session', i, d, Waiting'[i].view[d])
             /\ Waiting'[i].kind = "text" /\ ~ Waiting'[i].whole =>
                   \E v \in Nat \ {0} : Says(Waiting', session', i, Waiting'[i].of, v)
  <2>1. PICK j \in 1 .. n : /\ Waiting'[i] = Waiting[j]
                            /\ \A v : \A d \in Docs : Says(Waiting, session, j, d, v) =>
                                                      Says(Waiting', session', i, d, v)
    BY <1>3
  <2>2. Waiting[j].kind = "text" => Waiting[j].of \in Docs
    BY <1>0, MessageParts
  <2>. QED BY <2>1, <2>2 DEF TextInv
<1>. QED BY <1>2, <1>4 DEF TextInv

\* The texts stay in step when nothing leaves the line.
LEMMA TextStays ==
    ASSUME TextInv, Waiting' = Waiting, UNCHANGED session, client'.text = client.text
    PROVE  TextInv'
BY DEF TextInv

\* Every step keeps the texts in step with the messages about them.
LEMMA TextStep ==
    ASSUME TypeOK, EndInv, TextInv, [Next]_vars
    PROVE  TextInv'
<1>. DEFINE n == Len(Waiting)
<1>0. n \in Nat /\ session \in [Docs -> Nat] /\ client \in Clients
      /\ \A i \in 1 .. n : Waiting[i] \in Messages
  BY TypeParts, Line, ElementOfSeq DEF LineType, DocType
<1>1. CASE Client
  <2>1. PICK m \in Messages : Joins(m) /\ Meant(m)
    BY <1>1, ClientSays
  <2>2. UNCHANGED session
    BY <1>1, ClientStep DEF serverVars, docVars
  <2>3. /\ Len(Waiting') = n + 1 /\ Waiting'[n + 1] = m
        /\ \A j \in 1 .. n : Waiting'[j] = Waiting[j]
    BY <2>1 DEF Joins
  <2>4. \A d \in Docs : Says(Waiting, session, n + 1, d, client.text[d])
    BY DEF TextInv
  <2>. HIDE DEF n
  <2>5. ASSUME NEW d, NEW v, NEW i \in 1 .. n + 1, Says(Waiting, session, i, d, v)
        PROVE  Says(Waiting', session', i, d, v)
    BY <1>0, <2>2, <2>3, <2>5, SaysJoins
  <2>6. ASSUME NEW d \in Docs
        PROVE  Says(Waiting', session', Len(Waiting') + 1, d, client'.text[d])
    <3>1. client'.text[d] = IF Changes(m, d) THEN Change(m) ELSE client.text[d]
      BY <2>1 DEF Meant
    <3>2. Len(Waiting') + 1 = n + 2
      BY <1>0, <2>3
    <3>3. /\ Changes(m, d) => Says(Waiting', session, n + 2, d, Change(m))
          /\ ~ Changes(m, d) => Says(Waiting', session, n + 2, d, client.text[d])
      BY <1>0, <2>3, <2>4, SaysJoins
    <3>. QED BY <2>2, <3>1, <3>2, <3>3
  <2>7. ASSUME NEW i \in 1 .. Len(Waiting')
        PROVE  /\ Waiting'[i].kind = "request" =>
                     \A d \in Docs : Says(Waiting', session', i, d, Waiting'[i].view[d])
               /\ Waiting'[i].kind = "text" /\ ~ Waiting'[i].whole =>
                     \E v \in Nat \ {0} : Says(Waiting', session', i, Waiting'[i].of, v)
    <3>1. CASE i = n + 1
      <4>1. \A d \in Docs : Says(Waiting', session', n + 1, d, client.text[d])
        BY <1>0, <2>4, <2>5
      <4>2. m.kind = "text" => m.of \in Docs
        BY MessageParts
      <4>3. \A d \in Docs : client.text[d] \in Nat
        BY <1>0 DEF Clients
      <4>. QED BY <2>1, <2>3, <3>1, <4>1, <4>2, <4>3 DEF Meant
    <3>2. CASE i \in 1 .. n
      <4>1. Waiting'[i] = Waiting[i] /\ i \in 1 .. n + 1
        BY <1>0, <2>3, <3>2
      <4>2. /\ Waiting[i].kind = "request" =>
                  \A d \in Docs : Says(Waiting, session, i, d, Waiting[i].view[d])
            /\ Waiting[i].kind = "text" /\ ~ Waiting[i].whole =>
                  \E v \in Nat \ {0} : Says(Waiting, session, i, Waiting[i].of, v)
        BY <3>2 DEF TextInv, n
      <4>. QED BY <2>5, <4>1, <4>2
    <3>. QED BY <1>0, <2>3, <3>1, <3>2
  <2>. QED BY <2>6, <2>7 DEF TextInv
<1>2. ASSUME NEW p, Leaves(p), Waiting[p].kind \notin {"text", "close"}, UNCHANGED <<client, session>>
      PROVE  TextInv'
  <2>1. \A d \in Docs : ~ Changes(Waiting[p], d) /\ session'[d] = session[d]
    BY <1>2 DEF Changes
  <2>. QED BY <1>2, <2>1, TextLeaves
<1>3. CASE TakeRequest \/ TakeCancel \/ TakeOther \/ TakeExit \/ TakeShutdown
  <2>1. UNCHANGED <<client, session>>
        /\ \/ Take({"request"}) \/ Take({"cancel"}) \/ Take({"created", "barCancel"})
           \/ Take({"exit"}) \/ Take({"shutdown"})
    BY <1>3 DEF TakeRequest, TakeCancel, TakeOther, TakeExit, TakeShutdown, docVars
  <2>2. Leaves(1) /\ Waiting[1].kind \notin {"text", "close"}
    BY <2>1, ServerTakes
  <2>. QED BY <2>1, <2>2, <1>2
<1>4. CASE TakeText
  <2>1. Leaves(1) /\ Message = Waiting[1] /\ Message \in Messages /\ Message.kind = "text"
    BY <1>4, ServerTakes DEF TakeText
  <2>2. Message.of \in Docs /\ Message.whole \in BOOLEAN
    BY <2>1, MessageParts
  <2>3. Message.whole \/ session[Message.of] # 0
    <3>1. ASSUME ~ Message.whole
          PROVE  session[Message.of] # 0
      <4>1. PICK v \in Nat \ {0} : Says(Waiting, session, 1, Message.of, v)
        BY <2>1, <3>1 DEF TextInv, Leaves
      <4>. QED BY <4>1 DEF Says
    <3>. QED BY <3>1
  <2>4. session' = [session EXCEPT ![Message.of] = Message.version] /\ UNCHANGED client
    BY <1>4, <2>3 DEF TakeText
  <2>5. \A d \in Docs : session'[d] = IF Changes(Waiting[1], d) THEN Change(Waiting[1])
                                                                ELSE session[d]
    BY <1>0, <2>1, <2>4 DEF Changes, Change
  <2>. QED BY <2>1, <2>4, <2>5, TextLeaves
<1>5. CASE TakeClose
  <2>1. Leaves(1) /\ Message = Waiting[1] /\ Message.kind = "close"
    BY <1>5, ServerTakes DEF TakeClose
  <2>2. session' = [session EXCEPT ![Message.of] = 0] /\ UNCHANGED client
    BY <1>5 DEF TakeClose
  <2>3. \A d \in Docs : session'[d] = IF Changes(Waiting[1], d) THEN Change(Waiting[1])
                                                                ELSE session[d]
    BY <1>0, <2>1, <2>2 DEF Changes, Change
  <2>. QED BY <2>1, <2>2, <2>3, TextLeaves
<1>6. CASE ShutdownEnds
  <2>1. UNCHANGED <<client, session>> /\ pc = "shutdown"
        /\ (UNCHANGED <<inbox, deferred>>
            \/ (inbox # <<>> /\ inbox' = Tail(inbox) /\ UNCHANGED deferred))
    BY <1>6 DEF ShutdownEnds, ExitIsNext, docVars
  <2>2. CASE UNCHANGED <<inbox, deferred>>
    BY <2>1, <2>2, ServerTakes, TextStays
  <2>3. CASE inbox # <<>> /\ inbox' = Tail(inbox) /\ UNCHANGED deferred
    <3>1. Leaves(Len(deferred) + 1)
      BY <2>3, ServerTakes
    <3>2. Waiting[Len(deferred) + 1].kind \in {"created", "exit"}
      BY <2>1, <3>1 DEF EndInv, Leaves
    <3>. QED BY <2>1, <3>1, <3>2, <1>2
  <2>. QED BY <2>1, <2>2, <2>3
<1>7. CASE IngestCancel \/ IngestBarCancel \/ IngestCreated
  <2>1. /\ UNCHANGED <<client, session>> /\ inbox # <<>> /\ inbox' = Tail(inbox)
        /\ UNCHANGED deferred /\ Head(inbox).kind \in {"cancel", "barCancel", "created"}
    BY <1>7 DEF IngestCancel, IngestBarCancel, IngestCreated, docVars
  <2>2. Leaves(Len(deferred) + 1) /\ Waiting[Len(deferred) + 1] = Head(inbox)
    BY <2>1, ServerTakes
  <2>. QED BY <2>1, <2>2, <1>2
<1>8. CASE IngestOther
  <2>1. UNCHANGED <<client, session>>
    BY <1>8 DEF IngestOther, docVars
  <2>. QED BY <2>1, <1>8, ServerTakes, TextStays
<1>9. CASE AskForBar \/ BeginBar \/ WalkEnds \/ ConfirmBegins \/ ConfirmEnds \/ ConfirmComments
  <2>1. UNCHANGED <<inbox, deferred, session>>
    BY <1>9 DEF AskForBar, BeginBar, WalkEnds, ConfirmBegins, ConfirmEnds, ConfirmComments, docVars
  <2>2. client'.text = client.text
    BY <1>9, ServerLine DEF Server
  <2>. QED BY <2>1, <2>2, ServerTakes, TextStays
<1>10. CASE UNCHANGED vars
  BY <1>10, ServerTakes, TextStays DEF vars, docVars
<1>. QED BY <1>1, <1>3, <1>4, <1>5, <1>6, <1>7, <1>8, <1>9, <1>10 DEF Next, Server

\* A request that the loop takes was made on the texts the server has now, and no
\* text changes while its handler runs.
LEMMA SightStep ==
    ASSUME TypeOK, TextInv, SeesItsText, [Next]_vars
    PROVE  SeesItsText'
<1>. USE DEF SeesItsText
<1>0. duty \in Duties /\ session \in [Docs -> Nat] /\ Shutdown \notin Requests
  BY TypeParts, LspAssumption DEF DutyType, DocType
<1>1. CASE TakeRequest
  <2>1. /\ Leaves(1) /\ Message = Waiting[1] /\ Message \in Messages
        /\ Message.kind = "request" /\ pc = "loop"
    BY <1>1, ServerTakes DEF TakeRequest
  <2>2. Message.view \in [Docs -> Nat]
    BY <2>1, MessageParts
  <2>3. \A d \in Docs : session[d] = Message.view[d]
    BY <2>1 DEF TextInv, Says, Leaves
  <2>4. session = Message.view
    BY <1>0, <2>2, <2>3
  <2>5. UNCHANGED session /\ (pc' = pc \/ duty' = RequestDuty(Message.of, Message.view))
    BY <1>1 DEF TakeRequest, docVars
  <2>6. RequestDuty(Message.of, Message.view).view = Message.view
    BY DEF RequestDuty, NoDuty
  <2>. QED BY <2>1, <2>4, <2>5, <2>6
<1>2. CASE TakeCancel \/ TakeText \/ TakeClose \/ TakeOther \/ TakeExit \/ TakeShutdown
  BY <1>2 DEF TakeCancel, TakeText, TakeClose, TakeOther, TakeExit, TakeShutdown, Take
<1>3. CASE ShutdownEnds
  <2>1. pc' = "walk" => duty' = RequestDuty(Shutdown, session)
    BY <1>3 DEF ShutdownEnds
  <2>2. RequestDuty(Shutdown, session).id = Shutdown
    BY DEF RequestDuty, NoDuty
  <2>. QED BY <1>0, <2>1, <2>2
<1>4. CASE IngestCancel \/ IngestBarCancel \/ IngestCreated \/ IngestOther \/ AskForBar \/ BeginBar
  <2>1. UNCHANGED <<pc, session>>
    BY <1>4 DEF IngestCancel, IngestBarCancel, IngestCreated, IngestOther, AskForBar, BeginBar, docVars
  <2>2. duty'.id = duty.id /\ duty'.view = duty.view
    BY <1>0, <1>4 DEF IngestCancel, IngestBarCancel, IngestCreated, IngestOther, AskForBar, BeginBar,
                      Duties
  <2>. QED BY <2>1, <2>2
<1>5. CASE WalkEnds \/ ConfirmBegins \/ ConfirmEnds \/ ConfirmComments
  BY <1>5 DEF WalkEnds, ConfirmBegins, ConfirmEnds, ConfirmComments
<1>6. CASE Client \/ UNCHANGED vars
  BY <1>6, ClientStep DEF serverVars, vars, docVars
<1>. QED BY <1>1, <1>2, <1>3, <1>4, <1>5, <1>6 DEF Next, Server

(***************************************************************************)
(* What is published                                                       *)
(***************************************************************************)
\* A document that is put on the list is on it; to take one from it leaves the others.
LEMMA ListKept ==
    ASSUME uris \in Seq(Docs)
    PROVE  /\ \A d \in Docs : uris' = Append(uris, d) =>
                  Listed(d)' /\ \A e \in Docs : Listed(e) => Listed(e)'
           /\ uris # <<>> /\ uris' = Tail(uris) =>
                  \A e \in Docs : Listed(e) /\ e # Head(uris) => Listed(e)'
           /\ \A d \in Docs : uris' = Without(d) =>
                  \A e \in Docs : Listed(e) /\ e # d => Listed(e)'
<1>0. Len(uris) \in Nat /\ \A i \in 1 .. Len(uris) : uris[i] \in Docs
  BY LenProperties, ElementOfSeq
<1>1. ASSUME NEW d \in Docs, uris' = Append(uris, d)
      PROVE  Listed(d)' /\ \A e \in Docs : Listed(e) => Listed(e)'
  <2>1. /\ Len(uris') = Len(uris) + 1 /\ uris'[Len(uris) + 1] = d
        /\ \A i \in 1 .. Len(uris) : uris'[i] = uris[i]
    BY <1>1, AppendProperties
  <2>2. Len(uris) + 1 \in 1 .. Len(uris')
    BY <1>0, <2>1
  <2>. QED BY <1>0, <2>1, <2>2 DEF Listed
<1>2. ASSUME uris # <<>>, uris' = Tail(uris), NEW e \in Docs, Listed(e), e # Head(uris)
      PROVE  Listed(e)'
  <2>1. /\ Len(uris') = Len(uris) - 1 /\ \A i \in 1 .. Len(uris') : uris'[i] = uris[i + 1]
        /\ Head(uris) = uris[1]
    BY <1>2, HeadTailProperties
  <2>2. PICK i \in 1 .. Len(uris) : uris[i] = e
    BY <1>2 DEF Listed
  <2>3. i - 1 \in 1 .. Len(uris') /\ i - 1 + 1 = i
    BY <1>0, <1>2, <2>1, <2>2
  <2>. QED BY <2>1, <2>2, <2>3 DEF Listed
<1>3. ASSUME NEW d \in Docs, uris' = Without(d), NEW e \in Docs, Listed(e), e # d
      PROVE  Listed(e)'
  <2>1. CASE ~ Listed(d)
    BY <1>3, <2>1 DEF Without, Listed
  <2>2. CASE Listed(d)
    <3>. DEFINE at == CHOOSE i \in 1 .. Len(uris) : uris[i] = d
    <3>1. at \in 1 .. Len(uris) /\ uris[at] = d
      BY <2>2 DEF Listed
    <3>2. uris' = SubSeq(uris, 1, at - 1) \o SubSeq(uris, at + 1, Len(uris))
      BY <1>3, <2>2 DEF Without
    <3>. HIDE DEF at
    <3>. DEFINE left == SubSeq(uris, 1, at - 1)  right == SubSeq(uris, at + 1, Len(uris))
    <3>3. /\ left \in Seq(Docs) /\ Len(left) = at - 1
          /\ \A i \in 1 .. at - 1 : left[i] = uris[i]
      <4>1. at - 1 \in Nat /\ \A i \in 1 .. at - 1 : uris[i] \in Docs
        BY <1>0, <3>1
      <4>. QED BY <4>1, SubSeqProperties
    <3>4. /\ right \in Seq(Docs) /\ Len(right) = Len(uris) - at
          /\ \A i \in 1 .. Len(uris) - at : right[i] = uris[at + i]
      <4>1. at + 1 \in Int /\ Len(uris) \in Int /\ \A i \in at + 1 .. Len(uris) : uris[i] \in Docs
        BY <1>0, <3>1
      <4>2. /\ right \in Seq(Docs)
            /\ Len(right) = IF at + 1 <= Len(uris) THEN Len(uris) - (at + 1) + 1 ELSE 0
            /\ \A i \in 1 .. Len(uris) - (at + 1) + 1 : right[i] = uris[at + 1 + i - 1]
        BY <4>1, SubSeqProperties
      <4>. QED BY <1>0, <3>1, <4>2
    <3>. HIDE DEF left, right
    <3>5. /\ uris' \in Seq(Docs) /\ Len(uris') = Len(uris) - 1
          /\ \A i \in 1 .. Len(uris) - 1 :
                uris'[i] = IF i < at THEN uris[i] ELSE uris[i + 1]
      <4>1. uris' = left \o right
        BY <3>2 DEF left, right
      <4>2. /\ uris' \in Seq(Docs) /\ Len(uris') = Len(left) + Len(right)
            /\ \A i \in 1 .. Len(uris') :
                  uris'[i] = IF i <= Len(left) THEN left[i] ELSE right[i - Len(left)]
        <5>1. left \in Seq(Docs) /\ right \in Seq(Docs)
          BY <3>3, <3>4
        <5>. QED BY ONLY <4>1, <5>1, LineOf
      <4>3. Len(uris') = Len(uris) - 1
        BY <1>0, <3>1, <3>3, <3>4, <4>2
      <4>4. ASSUME NEW i \in 1 .. Len(uris) - 1
            PROVE  uris'[i] = IF i < at THEN uris[i] ELSE uris[i + 1]
        <5>1. CASE i < at
          BY <5>1, <1>0, <3>1, <3>3, <4>2, <4>3
        <5>2. CASE ~ i < at
          <6>1. i - Len(left) \in 1 .. Len(uris) - at /\ at + (i - Len(left)) = i + 1
                /\ ~ i <= Len(left)
            BY <5>2, <1>0, <3>1, <3>3
          <6>2. right[i - Len(left)] = uris[i + 1]
            BY <3>4, <6>1
          <6>. QED BY <5>2, <6>1, <6>2, <4>2, <4>3
        <5>. QED BY <5>1, <5>2
      <4>. QED BY <4>2, <4>3, <4>4
    <3>6. PICK i \in 1 .. Len(uris) : uris[i] = e
      BY <1>3 DEF Listed
    <3>7. CASE i < at
      BY <1>0, <3>1, <3>5, <3>6, <3>7 DEF Listed
    <3>8. CASE i > at
      <4>1. i - 1 \in 1 .. Len(uris) - 1 /\ ~ i - 1 < at /\ i - 1 + 1 = i
        BY <1>0, <3>1, <3>8
      <4>2. uris'[i - 1] = uris[i]
        BY <3>5, <4>1
      <4>. QED BY <3>5, <3>6, <4>1, <4>2 DEF Listed
    <3>. QED BY <1>3, <3>1, <3>6, <3>7, <3>8
  <2>. QED BY <2>1, <2>2
<1>. QED BY <1>1, <1>2, <1>3

\* A document whose text, or whose publication, changes is put on a list or has just
\* been checked.
LEMMA ShownStep ==
    ASSUME TypeOK, ListInv, ShownInv, [Next]_vars
    PROVE  ShownInv'
<1>0. /\ uris \in Seq(Docs) /\ comments \in BOOLEAN /\ session \in [Docs -> Nat]
      /\ shown \in [Docs -> Shows]
  BY TypeParts DEF DocType
<1>1. ASSUME UNCHANGED <<confirmVars, docVars>>
      PROVE  ShownInv'
  BY <1>1 DEF ShownInv, Listed, confirmVars, docVars
<1>2. ASSUME NEW x \in Docs, NEW by \in {"hot", "empty"}, NEW version,
             session' = [session EXCEPT ![x] = version],
             shown' = [shown EXCEPT ![x] = Published(x, by)],
             comments' = (comments \/ x \in RqDocs),
             \A e \in Docs : Listed(e) /\ e # x => Listed(e)',
             version # 0 => Listed(x)'
      PROVE  ShownInv'
  <2>. SUFFICES ASSUME NEW d \in Docs
                PROVE  IF session'[d] = 0 THEN shown'[d].by \in {"none", "empty"}
                       ELSE \/ Listed(d)'
                            \/ /\ shown'[d].by = "checked" /\ shown'[d].of[d] = session'[d]
                               /\ d \in CommentDocs =>
                                      comments' \/ \A e \in RqDocs : shown'[d].of[e] = session'[e]
    BY DEF ShownInv
  <2>1. CASE d = x
    <3>1. session'[d] = version /\ shown'[d] = Published(x, by)
      BY <1>0, <1>2, <2>1
    <3>. QED BY <1>2, <2>1, <3>1 DEF Published
  <2>2. CASE d # x
    <3>1. session'[d] = session[d] /\ shown'[d] = shown[d] /\ (Listed(d) => Listed(d)')
      BY <1>0, <1>2, <2>2
    <3>2. ~ comments' => ~ comments /\ \A e \in RqDocs : session'[e] = session[e]
      BY <1>0, <1>2 DEF Docs
    <3>. QED BY <3>1, <3>2 DEF ShownInv
  <2>. QED BY <2>1, <2>2
<1>3. CASE TakeText
  <2>1. Message.of \in Docs
    BY <1>3, ServerTakes, MessageParts DEF TakeText
  <2>2. CASE UNCHANGED <<confirmVars, docVars>>
    BY <2>2, <1>1
  <2>3. ASSUME NEW x \in Docs, NEW version,
               session' = [session EXCEPT ![x] = version], Push(x),
               shown' = [shown EXCEPT ![x] = Published(x, "hot")]
        PROVE  ShownInv'
    <3>1. Listed(x)' /\ \A e \in Docs : Listed(e) => Listed(e)'
      <4>1. CASE Listed(x)
        BY <2>3, <4>1 DEF Push, Listed
      <4>2. CASE ~ Listed(x)
        <5>1. uris' = Append(uris, x)
          BY <2>3, <4>2 DEF Push
        <5>. QED BY <1>0, <5>1, ListKept
      <4>. QED BY <4>1, <4>2
    <3>2. comments' = (comments \/ x \in RqDocs)
      BY <2>3 DEF Push
    <3>. QED BY <2>3, <3>1, <3>2, <1>2
  <2>. QED BY <2>1, <2>2, <2>3, <1>3 DEF TakeText
<1>4. CASE TakeClose
  <2>1. Message.of \in Docs
    BY <1>4, ServerTakes, MessageParts DEF TakeClose
  <2>2. PICK x \in Docs : x = Message.of
    BY <2>1
  <2>3. /\ session' = [session EXCEPT ![x] = 0] /\ uris' = Without(x)
        /\ comments' = (comments \/ x \in RqDocs)
        /\ shown' = [shown EXCEPT ![x] = Published(x, "empty")]
    BY <1>4, <2>2 DEF TakeClose
  <2>4. \A e \in Docs : Listed(e) /\ e # x => Listed(e)'
    BY <1>0, <2>3, ListKept
  <2>. QED BY <2>3, <2>4, <1>2
<1>5. CASE ConfirmEnds
  <2>1. UNCHANGED <<session, comments>> /\ pc = "confirm"
    BY <1>5 DEF ConfirmEnds
  <2>2. CASE Stopped
    BY <1>1, <1>5, <2>1, <2>2 DEF ConfirmEnds, confirmVars, docVars
  <2>3. CASE ~ Stopped
    <3>1. /\ uris' = Tail(uris) /\ uris # <<>> /\ Head(uris) \in Docs
          /\ shown' = [shown EXCEPT ![Head(uris)] = Published(Head(uris), "checked")]
      BY <1>0, <1>5, <2>1, <2>3, ListParts DEF ConfirmEnds, ListInv
    <3>2. ASSUME NEW d \in Docs
          PROVE  IF session'[d] = 0 THEN shown'[d].by \in {"none", "empty"}
                 ELSE \/ Listed(d)'
                      \/ /\ shown'[d].by = "checked" /\ shown'[d].of[d] = session'[d]
                         /\ d \in CommentDocs =>
                                comments' \/ \A e \in RqDocs : shown'[d].of[e] = session'[e]
      <4>1. CASE d = Head(uris)
        <5>1. shown'[d] = Published(d, "checked")
          BY <1>0, <3>1, <4>1
        <5>. QED BY <5>1 DEF Published
      <4>2. CASE d # Head(uris)
        <5>1. shown'[d] = shown[d] /\ (Listed(d) => Listed(d)')
          BY <1>0, <3>1, <4>2, ListKept
        <5>. QED BY <2>1, <5>1 DEF ShownInv
      <4>. QED BY <4>1, <4>2
    <3>. QED BY <3>2 DEF ShownInv
  <2>. QED BY <2>2, <2>3
<1>6. CASE ConfirmComments
  <2>1. /\ UNCHANGED <<session, uris>> /\ uris = <<>>
        /\ shown' = [d \in Docs |-> IF d \in CommentDocs /\ session[d] # 0
                                    THEN Published(d, "checked") ELSE shown[d]]
    BY <1>6 DEF ConfirmComments
  <2>2. \A d \in Docs : ~ Listed(d)
    BY <2>1, EmptySeq DEF Listed
  <2>3. ASSUME NEW d \in Docs
        PROVE  IF session'[d] = 0 THEN shown'[d].by \in {"none", "empty"}
               ELSE /\ shown'[d].by = "checked" /\ shown'[d].of[d] = session'[d]
                    /\ d \in CommentDocs => \A e \in RqDocs : shown'[d].of[e] = session'[e]
    <3>1. CASE d \in CommentDocs /\ session[d] # 0
      BY <2>1, <3>1 DEF Published
    <3>2. CASE ~ (d \in CommentDocs /\ session[d] # 0)
      BY <2>1, <2>2, <3>2 DEF ShownInv
    <3>. QED BY <3>1, <3>2
  <2>. QED BY <2>3 DEF ShownInv
<1>7. CASE Client \/ UNCHANGED vars
  BY <1>1, <1>7, ClientStep DEF serverVars, vars
<1>8. CASE \/ TakeRequest \/ TakeCancel \/ TakeOther \/ TakeExit \/ TakeShutdown \/ ShutdownEnds
           \/ IngestCancel \/ IngestBarCancel \/ IngestCreated \/ IngestOther \/ AskForBar
           \/ BeginBar \/ WalkEnds \/ ConfirmBegins
  BY <1>1, <1>8 DEF TakeRequest, TakeCancel, TakeOther, TakeExit, TakeShutdown, ShutdownEnds,
     IngestCancel, IngestBarCancel, IngestCreated, IngestOther, AskForBar, BeginBar, WalkEnds,
     ConfirmBegins
<1>. QED BY <1>3, <1>4, <1>5, <1>6, <1>7, <1>8 DEF Next, Server

(***************************************************************************)
(* The requests in the line                                                *)
(***************************************************************************)
\* A message that is no request, first or last or between, changes nothing for the
\* requests that wait.
LEMMA OtherJoins ==
    ASSUME NEW line, NEW next, NEW n \in Nat, Len(line) = n, Len(next) = n + 1,
           \A i \in 1 .. n : next[i] = line[i], next[n + 1].kind # "request"
    PROVE  /\ \A r : Waits(next, r) <=> Waits(line, r)
           /\ \A q, r : Ahead(next, q, r) <=> Ahead(line, q, r)
           /\ NoneTwice(line) => NoneTwice(next)
<1>1. \A i \in 1 .. n : i \in 1 .. n + 1
  OBVIOUS
<1>2. \A i \in 1 .. n + 1 : next[i].kind = "request" => i \in 1 .. n /\ next[i] = line[i]
  OBVIOUS
<1>3. ASSUME NEW r
      PROVE  Waits(next, r) <=> Waits(line, r)
  BY <1>1, <1>2 DEF Waits
<1>4. ASSUME NEW q, NEW r
      PROVE  Ahead(next, q, r) <=> Ahead(line, q, r)
  BY <1>1, <1>2 DEF Ahead
<1>5. NoneTwice(line) => NoneTwice(next)
  BY <1>2 DEF NoneTwice
<1>. QED BY <1>3, <1>4, <1>5

\* The line without its p-th message.
LEMMA OtherLeaves ==
    ASSUME NEW line, NEW next, NEW n \in Nat, Len(line) = n, Len(next) = n - 1, NEW p \in 1 .. n,
           \A i \in 1 .. n - 1 : next[i] = IF i < p THEN line[i] ELSE line[i + 1],
           line[p].kind # "request"
    PROVE  /\ \A r : Waits(next, r) <=> Waits(line, r)
           /\ \A q, r : Ahead(next, q, r) <=> Ahead(line, q, r)
           /\ NoneTwice(line) => NoneTwice(next)
<1>. DEFINE up(i)   == IF i < p THEN i ELSE i + 1
            down(i) == IF i < p THEN i ELSE i - 1
<1>1. \A i \in 1 .. n - 1 : up(i) \in 1 .. n /\ next[i] = line[up(i)]
  OBVIOUS
<1>2. \A i \in 1 .. n : line[i].kind = "request" =>
          down(i) \in 1 .. n - 1 /\ next[down(i)] = line[i]
  <2>. SUFFICES ASSUME NEW i \in 1 .. n, line[i].kind = "request"
                PROVE  down(i) \in 1 .. n - 1 /\ next[down(i)] = line[i]
    OBVIOUS
  <2>1. i # p
    OBVIOUS
  <2>. QED BY <2>1
<1>3. \A i, j \in 1 .. n - 1 : (i < j => up(i) < up(j)) /\ (up(i) = up(j) => i = j)
  OBVIOUS
<1>4. \A i, j \in 1 .. n : i < j /\ i # p /\ j # p => down(i) < down(j)
  OBVIOUS
<1>. HIDE DEF up, down
<1>5. ASSUME NEW r
      PROVE  Waits(next, r) <=> Waits(line, r)
  <2>1. ASSUME Waits(next, r)
        PROVE  Waits(line, r)
    <3>1. PICK i \in 1 .. n - 1 : next[i].kind = "request" /\ next[i].of = r
      BY <2>1 DEF Waits
    <3>. QED BY <1>1, <3>1 DEF Waits
  <2>2. ASSUME Waits(line, r)
        PROVE  Waits(next, r)
    <3>1. PICK i \in 1 .. n : line[i].kind = "request" /\ line[i].of = r
      BY <2>2 DEF Waits
    <3>. QED BY <1>2, <3>1 DEF Waits
  <2>. QED BY <2>1, <2>2
<1>6. ASSUME NEW q, NEW r, Ahead(next, q, r)
      PROVE  Ahead(line, q, r)
  BY <1>1, <1>3, <1>6 DEF Ahead
<1>7. ASSUME NEW q, NEW r, Ahead(line, q, r)
      PROVE  Ahead(next, q, r)
  <2>1. PICK i \in 1 .. n, j \in 1 .. n : /\ i < j /\ line[i].kind = "request" /\ line[i].of = q
                                          /\ line[j].kind = "request" /\ line[j].of = r
    BY <1>7 DEF Ahead
  <2>2. down(i) < down(j)
    BY <2>1, <1>4
  <2>3. /\ down(i) \in 1 .. n - 1 /\ next[down(i)] = line[i]
        /\ down(j) \in 1 .. n - 1 /\ next[down(j)] = line[j]
    BY <2>1, <1>2
  <2>. QED BY <2>1, <2>2, <2>3 DEF Ahead
<1>8. NoneTwice(line) => NoneTwice(next)
  BY SMTT(20), <1>1, <1>3 DEF NoneTwice
<1>. QED BY <1>5, <1>6, <1>7, <1>8

\* A request that is made comes after all that wait.
LEMMA RequestJoins ==
    ASSUME NEW line, NEW next, NEW n \in Nat, Len(line) = n, Len(next) = n + 1, NEW x,
           \A i \in 1 .. n : next[i] = line[i],
           next[n + 1].kind = "request", next[n + 1].of = x, ~ Waits(line, x)
    PROVE  /\ \A r : Waits(next, r) <=> Waits(line, r) \/ r = x
           /\ \A q, r : Ahead(next, q, r) <=> Ahead(line, q, r) \/ (Waits(line, q) /\ r = x)
           /\ NoneTwice(line) => NoneTwice(next)
<1>1. \A i \in 1 .. n : i \in 1 .. n + 1 /\ i < n + 1
  OBVIOUS
<1>2. n + 1 \in 1 .. n + 1 /\ \A i \in 1 .. n + 1 : i \in 1 .. n \/ i = n + 1
  OBVIOUS
<1>3. ASSUME NEW r
      PROVE  Waits(next, r) <=> Waits(line, r) \/ r = x
  BY <1>1, <1>2 DEF Waits
<1>4. ASSUME NEW q, NEW r, Ahead(line, q, r) \/ (Waits(line, q) /\ r = x)
      PROVE  Ahead(next, q, r)
  BY <1>1, <1>2, <1>4 DEF Ahead, Waits
<1>5. ASSUME NEW q, NEW r, Ahead(next, q, r)
      PROVE  Ahead(line, q, r) \/ (Waits(line, q) /\ r = x)
  <2>1. PICK i \in 1 .. n + 1, j \in 1 .. n + 1 :
                /\ i < j /\ next[i].kind = "request" /\ next[i].of = q
                /\ next[j].kind = "request" /\ next[j].of = r
    BY <1>5 DEF Ahead
  <2>2. i \in 1 .. n /\ next[i] = line[i]
    BY <2>1
  <2>3. CASE j = n + 1
    BY <2>1, <2>2, <2>3 DEF Waits
  <2>4. CASE j \in 1 .. n
    BY <2>1, <2>2, <2>4 DEF Ahead
  <2>. QED BY <1>2, <2>3, <2>4
<1>6. ASSUME NoneTwice(line)
      PROVE  NoneTwice(next)
  <2>. SUFFICES ASSUME NEW i \in 1 .. n + 1, NEW j \in 1 .. n + 1, next[i].kind = "request",
                       next[j].kind = "request", next[i].of = next[j].of
                PROVE  i = j
    BY DEF NoneTwice
  <2>1. \A k \in 1 .. n : next[k].kind = "request" => next[k].of # x
    BY DEF Waits
  <2>. QED BY <2>1, <1>2, <1>6 DEF NoneTwice
<1>. QED BY <1>3, <1>4, <1>5, <1>6

\* The first message of the line is taken from it; when it is request x.
TakenOff(line, next) == /\ Len(line) \in Nat \ {0} /\ Len(next) = Len(line) - 1
                        /\ \A i \in 1 .. Len(line) - 1 : next[i] = line[i + 1]
HeadGoes(line, next, x) ==
    /\ \A r : Waits(line, r) <=> Waits(next, r) \/ r = x
    /\ ~ Waits(next, x) /\ \A q : ~ Ahead(line, q, x)
    /\ \A q, r : Ahead(line, q, r) <=> Ahead(next, q, r) \/ (q = x /\ Waits(next, r))

\* Then it no longer waits, was ahead of all others, and behind none.
LEMMA RequestLeaves ==
    ASSUME NEW line, NEW next, TakenOff(line, next), NoneTwice(line), line[1].kind = "request"
    PROVE  HeadGoes(line, next, line[1].of) /\ NoneTwice(next)
<1>. DEFINE n == Len(line)
            x == line[1].of
<1>0. /\ n \in Nat /\ n > 0 /\ Len(next) = n - 1 /\ Len(line) = n /\ line[1].of = x
      /\ \A i \in 1 .. n - 1 : next[i] = line[i + 1]
  BY DEF TakenOff
<1>. HIDE DEF n, x
<1>1. \A i \in 1 .. n - 1 : i + 1 \in 1 .. n /\ 1 < i + 1 /\ next[i] = line[i + 1]
  BY <1>0
<1>2. 1 \in 1 .. n
  BY <1>0
<1>3. \A i \in 1 .. n : i = 1 \/ (i - 1 \in 1 .. n - 1 /\ next[i - 1] = line[i])
  <2>. SUFFICES ASSUME NEW i \in 1 .. n, i # 1
                PROVE  i - 1 \in 1 .. n - 1 /\ next[i - 1] = line[i]
    BY <1>0
  <2>1. i - 1 \in 1 .. n - 1 /\ i - 1 + 1 = i
    BY <1>0
  <2>. QED BY <1>0, <2>1
<1>4. \A i \in 1 .. n : line[i].kind = "request" /\ line[i].of = x => i = 1
  BY <1>0, <1>2 DEF NoneTwice
<1>5. ASSUME NEW r
      PROVE  Waits(line, r) <=> Waits(next, r) \/ r = x
  <2>1. ASSUME Waits(line, r)
        PROVE  Waits(next, r) \/ r = x
    <3>1. PICK i \in 1 .. n : line[i].kind = "request" /\ line[i].of = r
      BY <1>0, <2>1 DEF Waits
    <3>2. i = 1 \/ (i - 1 \in 1 .. n - 1 /\ next[i - 1] = line[i])
      BY <1>0, <1>3
    <3>. QED BY <1>0, <3>1, <3>2 DEF Waits
  <2>2. Waits(next, r) \/ r = x => Waits(line, r)
    BY <1>0, <1>1, <1>2 DEF Waits
  <2>. QED BY <1>0, <2>1, <2>2
<1>6. ~ Waits(next, x)
  <2>. SUFFICES ASSUME NEW i \in 1 .. n - 1, next[i].kind = "request", next[i].of = x
                PROVE  FALSE
    BY <1>0 DEF Waits
  <2>1. i + 1 \in 1 .. n /\ i + 1 # 1
    BY <1>0
  <2>. QED BY <1>0, <2>1, <1>1, <1>4
<1>7. ASSUME NEW q
      PROVE  ~ Ahead(line, q, x)
  <2>. SUFFICES ASSUME NEW i \in 1 .. n, NEW j \in 1 .. n, i < j, line[j].kind = "request",
                       line[j].of = x
                PROVE  FALSE
    BY <1>0 DEF Ahead
  <2>. QED BY <1>0, <1>4
<1>8. ASSUME NEW q, NEW r, Ahead(next, q, r)
      PROVE  Ahead(line, q, r)
  <2>1. PICK i \in 1 .. n - 1, j \in 1 .. n - 1 :
                /\ i < j /\ next[i].kind = "request" /\ next[i].of = q
                /\ next[j].kind = "request" /\ next[j].of = r
    BY <1>0, <1>8 DEF Ahead
  <2>2. i + 1 \in 1 .. n /\ j + 1 \in 1 .. n /\ i + 1 < j + 1
    BY <1>0, <2>1
  <2>. QED BY <1>0, <1>1, <2>1, <2>2 DEF Ahead
<1>9. ASSUME NEW r, Waits(next, r)
      PROVE  Ahead(line, x, r)
  BY <1>0, <1>1, <1>2, <1>9 DEF Waits, Ahead
<1>10. ASSUME NEW q, NEW r, Ahead(line, q, r)
       PROVE  Ahead(next, q, r) \/ (q = x /\ Waits(next, r))
  <2>1. PICK i \in 1 .. n, j \in 1 .. n :
                /\ i < j /\ line[i].kind = "request" /\ line[i].of = q
                /\ line[j].kind = "request" /\ line[j].of = r
    BY <1>0, <1>10 DEF Ahead
  <2>2. j - 1 \in 1 .. n - 1 /\ next[j - 1] = line[j]
    BY <1>0, <1>3, <2>1
  <2>3. CASE i = 1
    BY <1>0, <2>1, <2>2, <2>3 DEF Waits
  <2>4. CASE i # 1
    <3>1. i - 1 \in 1 .. n - 1 /\ next[i - 1] = line[i]
      BY <1>0, <1>3, <2>4
    <3>2. i - 1 < j - 1
      BY <1>0, <2>1
    <3>. QED BY <1>0, <2>1, <2>2, <3>1, <3>2 DEF Ahead
  <2>. QED BY <1>0, <2>3, <2>4
<1>11. NoneTwice(next)
  <2>. SUFFICES ASSUME NEW i \in 1 .. n - 1, NEW j \in 1 .. n - 1, next[i].kind = "request",
                       next[j].kind = "request", next[i].of = next[j].of
                PROVE  i = j
    BY <1>0 DEF NoneTwice
  <2>1. i + 1 = j + 1
    BY <1>0, <1>1 DEF NoneTwice
  <2>. QED BY <1>0, <2>1
<1>. QED BY <1>5, <1>6, <1>7, <1>8, <1>9, <1>10, <1>11 DEF HeadGoes, x

\* What a step may do to the requests: nothing; one is made; the first of the line is
\* taken in hand, or refused; the one in hand is answered.
SameLine == /\ \A r : Waits(Waiting', r) <=> Waits(Waiting, r)
            /\ \A q, r : Ahead(Waiting', q, r) <=> Ahead(Waiting, q, r)
SameClient == client'.sent = client.sent /\ client'.withdrawn = client.withdrawn

Quiet ==
    /\ SameLine /\ UNCHANGED <<InHand, answer>> /\ client'.sent = client.sent
    /\ \/ client'.withdrawn = client.withdrawn
       \/ \E r \in Requests : client'.withdrawn = client.withdrawn \cup {r}
Asks(x) ==
    /\ x \notin client.sent /\ client'.sent = client.sent \cup {x}
    /\ client'.withdrawn = client.withdrawn /\ UNCHANGED <<InHand, answer>>
    /\ \A r : Waits(Waiting', r) <=> Waits(Waiting, r) \/ r = x
    /\ \A q, r : Ahead(Waiting', q, r) <=> Ahead(Waiting, q, r) \/ (Waits(Waiting, q) /\ r = x)
Begins(x) ==
    /\ HeadGoes(Waiting, Waiting', x) /\ SameClient /\ UNCHANGED answer
    /\ InHand = {} /\ InHand' = {x}
Refuses(x) ==
    /\ HeadGoes(Waiting, Waiting', x) /\ SameClient /\ answer' = [answer EXCEPT ![x] = "cancelled"]
    /\ InHand = {} /\ InHand' = {} /\ x \in cancelled
Ends(x) ==
    /\ SameLine /\ SameClient
    /\ answer' = [answer EXCEPT ![x] = IF Stopped THEN "cancelled" ELSE "ok"]
    /\ InHand = {x} /\ InHand' = {} /\ x = duty.id /\ pc = "walk"

\* Every step does one of these.
LEMMA RequestMoves ==
    ASSUME TypeOK, DutyInv, EndInv, OnceInv, [Next]_vars
    PROVE  /\ NoneTwice(Waiting')
           /\ Quiet \/ \E x \in Requests : Asks(x) \/ Begins(x) \/ Refuses(x) \/ Ends(x)
<1>. DEFINE n == Len(Waiting)
<1>0. /\ n \in Nat /\ client \in Clients /\ duty \in Duties /\ NoneTwice(Waiting)
      /\ Shutdown \notin Requests
  BY TypeParts, Line, LspAssumption DEF LineType, DutyType, OnceInv
<1>1. CASE Client
  <2>1. PICK m \in Messages : Joins(m) /\ Counted(m) /\ (m.kind = "request" => m.of \notin client.sent)
    BY <1>1, ClientSays
  <2>2. UNCHANGED <<InHand, answer>>
    BY <1>1, ClientStep DEF serverVars, answerVars, InHand
  <2>3. Len(Waiting') = n + 1 /\ Waiting'[n + 1] = m /\ \A i \in 1 .. n : Waiting'[i] = Waiting[i]
    BY <2>1 DEF Joins
  <2>4. CASE m.kind # "request"
    <3>1. /\ \A r : Waits(Waiting', r) <=> Waits(Waiting, r)
          /\ \A q, r : Ahead(Waiting', q, r) <=> Ahead(Waiting, q, r)
          /\ NoneTwice(Waiting')
      <4>. HIDE DEF n
      <4>1. Len(Waiting) = n
        BY DEF n
      <4>. QED BY <1>0, <2>3, <2>4, <4>1, OtherJoins
    <3>2. Quiet
      BY <2>1, <2>2, <2>4, <3>1 DEF Quiet, SameLine, Counted
    <3>. QED BY <3>1, <3>2
  <2>5. CASE m.kind = "request"
    <3>1. m.of \in Requests /\ m.of \notin client.sent
      BY <2>1, <2>5, MessageParts
    <3>2. ~ Waits(Waiting, m.of)
      BY <3>1 DEF OnceInv
    <3>3. /\ \A r : Waits(Waiting', r) <=> Waits(Waiting, r) \/ r = m.of
          /\ \A q, r : Ahead(Waiting', q, r) <=> Ahead(Waiting, q, r) \/ (Waits(Waiting, q) /\ r = m.of)
          /\ NoneTwice(Waiting')
      <4>. HIDE DEF n
      <4>1. Len(Waiting) = n
        BY DEF n
      <4>. QED BY <1>0, <2>3, <2>5, <3>2, <4>1, RequestJoins
    <3>4. Asks(m.of)
      BY <2>1, <2>2, <2>5, <3>1, <3>3 DEF Asks, Counted
    <3>. QED BY <3>1, <3>3, <3>4
  <2>. QED BY <2>4, <2>5
<1>2. ASSUME NEW p, Leaves(p), Waiting[p].kind # "request"
      PROVE  SameLine /\ NoneTwice(Waiting')
  <2>1. /\ p \in 1 .. n /\ Len(Waiting') = n - 1
        /\ \A i \in 1 .. n - 1 : Waiting'[i] = IF i < p THEN Waiting[i] ELSE Waiting[i + 1]
    BY <1>2 DEF Leaves
  <2>. HIDE DEF n
  <2>2. Len(Waiting) = n
    BY DEF n
  <2>. QED BY <1>0, <1>2, <2>1, <2>2, OtherLeaves DEF SameLine
<1>3. Waiting' = Waiting => SameLine /\ NoneTwice(Waiting')
  BY <1>0 DEF SameLine
<1>4. ASSUME Server, UNCHANGED <<InHand, answer>>, SameLine
      PROVE  Quiet
  BY <1>4, ServerLine DEF Quiet
<1>5. CASE TakeRequest
  <2>1. /\ Leaves(1) /\ Message = Waiting[1] /\ Message \in Messages
        /\ Message.kind = "request" /\ pc = "loop"
    BY <1>5, ServerTakes DEF TakeRequest
  <2>2. PICK x \in Requests : x = Message.of
    BY <2>1, MessageParts
  <2>3. HeadGoes(Waiting, Waiting', x) /\ NoneTwice(Waiting')
    <3>1. TakenOff(Waiting, Waiting')
      BY <1>0, <2>1 DEF Leaves, TakenOff
    <3>. QED BY <1>0, <2>1, <2>2, <3>1, RequestLeaves
  <2>4. InHand = {} /\ UNCHANGED client
    BY <1>5, <2>1 DEF TakeRequest, InHand
  <2>5. CASE Message.of \in cancelled
    <3>1. answer' = [answer EXCEPT ![x] = "cancelled"] /\ InHand' = {}
      BY <1>5, <2>1, <2>2, <2>5 DEF TakeRequest, InHand
    <3>2. Refuses(x)
      BY <2>2, <2>3, <2>4, <2>5, <3>1 DEF Refuses, SameClient
    <3>. QED BY <2>3, <3>2
  <2>6. CASE Message.of \notin cancelled
    <3>1. UNCHANGED answer /\ pc' = "walk" /\ duty' = RequestDuty(x, Message.view)
      BY <1>5, <2>2, <2>6 DEF TakeRequest
    <3>2. duty'.id = x
      BY <3>1 DEF RequestDuty, NoDuty
    <3>3. Begins(x)
      BY <2>3, <2>4, <3>1, <3>2 DEF Begins, SameClient, InHand
    <3>. QED BY <2>3, <3>3
  <2>. QED BY <2>5, <2>6
<1>6. CASE TakeCancel \/ TakeText \/ TakeClose \/ TakeOther \/ TakeExit \/ TakeShutdown
  <2>1. /\ UNCHANGED answer /\ pc = "loop" /\ pc' # "walk"
        /\ \E kinds : Take(kinds) /\ "request" \notin kinds
    BY <1>6 DEF TakeCancel, TakeText, TakeClose, TakeOther, TakeExit, TakeShutdown, Take, answerVars
  <2>2. UNCHANGED InHand
    BY <2>1 DEF InHand
  <2>3. Leaves(1) /\ Waiting[1].kind # "request"
    BY <2>1, ServerTakes
  <2>. QED BY <1>2, <1>4, <1>6, <2>1, <2>2, <2>3 DEF Server
<1>7. CASE ShutdownEnds
  <2>1. /\ UNCHANGED answer /\ pc = "shutdown"
        /\ (pc' = "done" \/ (pc' = "walk" /\ duty' = RequestDuty(Shutdown, session)))
    BY <1>7 DEF ShutdownEnds, answerVars
  <2>2. RequestDuty(Shutdown, session).id = Shutdown
    BY DEF RequestDuty, NoDuty
  <2>3. UNCHANGED InHand
    BY <1>0, <2>1, <2>2 DEF InHand
  <2>4. SameLine /\ NoneTwice(Waiting')
    <3>1. CASE UNCHANGED <<inbox, deferred>>
      BY <3>1, <1>3, ServerTakes
    <3>2. CASE inbox # <<>> /\ inbox' = Tail(inbox) /\ UNCHANGED deferred
      <4>1. Leaves(Len(deferred) + 1)
        BY <3>2, ServerTakes
      <4>2. Waiting[Len(deferred) + 1].kind # "request"
        BY <2>1, <4>1 DEF EndInv, Leaves
      <4>. QED BY <4>1, <4>2, <1>2
    <3>. QED BY <1>7, <3>1, <3>2 DEF ShutdownEnds, ExitIsNext
  <2>. QED BY <1>4, <1>7, <2>1, <2>3, <2>4 DEF Server
<1>8. CASE IngestCancel \/ IngestBarCancel \/ IngestCreated
  <2>1. /\ inbox # <<>> /\ inbox' = Tail(inbox) /\ UNCHANGED <<deferred, pc, answer>>
        /\ Head(inbox).kind # "request"
    BY <1>8 DEF IngestCancel, IngestBarCancel, IngestCreated, answerVars
  <2>2. duty'.id = duty.id
    BY <1>0, <1>8 DEF IngestCancel, IngestBarCancel, IngestCreated, Duties
  <2>3. Leaves(Len(deferred) + 1) /\ Waiting[Len(deferred) + 1] = Head(inbox)
    BY <2>1, ServerTakes
  <2>4. UNCHANGED InHand
    BY <2>1, <2>2 DEF InHand
  <2>. QED BY <1>2, <1>4, <1>8, <2>1, <2>3, <2>4 DEF Server
<1>9. CASE IngestOther
  <2>1. UNCHANGED <<pc, answer>> /\ duty'.id = duty.id
    BY <1>0, <1>9 DEF IngestOther, answerVars, Duties
  <2>2. UNCHANGED InHand
    BY <2>1 DEF InHand
  <2>. QED BY <1>3, <1>4, <1>9, <2>1, <2>2, ServerTakes DEF Server
<1>10. CASE AskForBar \/ BeginBar \/ ConfirmBegins \/ ConfirmEnds \/ ConfirmComments
  <2>1. UNCHANGED <<inbox, deferred, answer>>
    BY <1>10 DEF AskForBar, BeginBar, ConfirmBegins, ConfirmEnds, ConfirmComments, answerVars
  <2>2. UNCHANGED InHand
    <3>1. CASE BeginBar
      BY <1>0, <3>1 DEF BeginBar, InHand, Duties
    <3>2. CASE AskForBar \/ ConfirmBegins \/ ConfirmEnds
      BY <3>2 DEF AskForBar, ConfirmBegins, ConfirmEnds, InHand
    <3>3. CASE ConfirmComments
      BY <3>3 DEF ConfirmComments, InHand
    <3>. QED BY <1>10, <3>1, <3>2, <3>3
  <2>. QED BY <1>3, <1>4, <1>10, <2>1, <2>2, ServerTakes DEF Server
<1>11. CASE WalkEnds
  <2>1. UNCHANGED <<client, inbox, deferred>> /\ pc = "walk" /\ pc' = "loop"
    BY <1>11 DEF WalkEnds
  <2>2. SameLine /\ NoneTwice(Waiting') /\ InHand' = {}
    BY <1>3, <2>1, ServerTakes DEF InHand
  <2>3. CASE duty.id = Shutdown
    <3>1. UNCHANGED <<InHand, answer>>
      BY <1>0, <1>11, <2>2, <2>3 DEF WalkEnds, InHand
    <3>. QED BY <1>4, <1>11, <2>2, <3>1 DEF Server
  <2>4. CASE duty.id # Shutdown
    <3>1. duty.id \in Requests
      BY <2>1, <2>4 DEF DutyInv
    <3>2. Ends(duty.id)
      BY <1>11, <2>1, <2>2, <2>4, <3>1 DEF WalkEnds, Ends, SameClient, InHand
    <3>. QED BY <2>2, <3>1, <3>2
  <2>. QED BY <2>3, <2>4
<1>12. CASE UNCHANGED vars
  <2>1. UNCHANGED <<inbox, deferred, InHand, answer, client>>
    BY <1>12 DEF vars, InHand, answerVars
  <2>2. SameLine /\ NoneTwice(Waiting')
    BY <1>3, <2>1, ServerTakes
  <2>. QED BY <2>1, <2>2 DEF Quiet
<1>. QED BY <1>1, <1>5, <1>6, <1>7, <1>8, <1>9, <1>10, <1>11, <1>12 DEF Next, Server

\* No request is lost, answered twice, or in hand while it waits.
LEMMA OnceStep ==
    ASSUME TypeOK, DutyInv, EndInv, OnceInv, [Next]_vars
    PROVE  OnceInv'
<1>0. answer \in [Requests -> {"none", "ok", "cancelled"}] /\ InHand \subseteq Requests
  BY TypeParts DEF OutType, InHand
<1>1. NoneTwice(Waiting')
  BY RequestMoves
<1>2. CASE Quiet
  BY <1>1, <1>2 DEF Quiet, SameLine, OnceInv
<1>3. ASSUME NEW x \in Requests, Asks(x)
      PROVE  OnceInv'
  <2>1. answer[x] = "none"
    BY <1>3 DEF Asks, OnceInv
  <2>2. \A r \in InHand : r # x
    BY <1>0, <1>3 DEF Asks, OnceInv
  <2>. QED BY <1>0, <1>1, <1>3, <2>1, <2>2 DEF Asks, OnceInv
<1>4. ASSUME NEW x \in Requests, Begins(x)
      PROVE  OnceInv'
  BY <1>1, <1>4 DEF Begins, HeadGoes, SameClient, OnceInv
<1>5. ASSUME NEW x \in Requests, Refuses(x)
      PROVE  OnceInv'
  <2>1. Waits(Waiting, x) /\ \A r : Waits(Waiting', r) => Waits(Waiting, r) /\ r # x
    BY <1>5 DEF Refuses, HeadGoes
  <2>2. \A r \in Requests : r # x => answer'[r] = answer[r]
    BY <1>0, <1>5 DEF Refuses
  <2>3. client'.sent = client.sent /\ InHand' = {}
    BY <1>5 DEF Refuses, SameClient
  <2>. QED BY <1>1, <2>1, <2>2, <2>3 DEF OnceInv
<1>6. ASSUME NEW x \in Requests, Ends(x)
      PROVE  OnceInv'
  <2>1. x \in InHand /\ \A r : Waits(Waiting', r) => Waits(Waiting, r) /\ r # x
    BY <1>6 DEF Ends, SameLine, OnceInv
  <2>2. \A r \in Requests : r # x => answer'[r] = answer[r]
    BY <1>0, <1>6 DEF Ends
  <2>3. client'.sent = client.sent /\ InHand' = {}
    BY <1>6 DEF Ends, SameClient
  <2>. QED BY <1>1, <2>1, <2>2, <2>3 DEF OnceInv
<1>. QED BY <1>2, <1>3, <1>4, <1>5, <1>6, RequestMoves

\* The server learns of a cancellation only from the client.
LEMMA GoneStep ==
    ASSUME TypeOK, DutyInv, WordInv, GoneInv, [Next]_vars
    PROVE  GoneInv'
<1>. USE DEF GoneInv
<1>0. duty \in Duties /\ Requests \cap (0 .. MaxCreates) = {} /\ MaxCreates \in Nat
      /\ Shutdown \notin Requests
  BY TypeParts, LspAssumption DEF DutyType
<1>1. client.withdrawn \subseteq client'.withdrawn
  <2>1. Client => client.withdrawn \subseteq client'.withdrawn
    BY ClientSays DEF Truthful
  <2>2. Server => client.withdrawn \subseteq client'.withdrawn
    BY ServerLine
  <2>3. UNCHANGED vars => client.withdrawn \subseteq client'.withdrawn
    BY DEF vars
  <2>. QED BY <2>1, <2>2, <2>3 DEF Next
<1>2. ASSUME UNCHANGED <<cancelled, pc, duty>>
      PROVE  GoneInv'
  BY <1>1, <1>2
<1>3. CASE Client \/ UNCHANGED vars
  BY <1>2, <1>3, ClientStep DEF serverVars, vars
<1>4. CASE TakeRequest
  <2>1. cancelled' \subseteq cancelled /\ pc = "loop"
        /\ (pc' = pc \/ duty' = RequestDuty(Message.of, Message.view))
    BY <1>4 DEF TakeRequest, Take
  <2>2. ~ RequestDuty(Message.of, Message.view).cancelled
    BY DEF RequestDuty, NoDuty
  <2>. QED BY <1>1, <2>1, <2>2
<1>5. CASE TakeCancel
  <2>1. Leaves(1) /\ Message = Waiting[1] /\ Message \in Messages /\ Message.kind = "cancel"
        /\ pc = "loop"
    BY <1>5, ServerTakes DEF TakeCancel
  <2>2. Message.of \in client.withdrawn
    BY <2>1, MessageParts DEF WordInv, Leaves
  <2>3. cancelled' = cancelled \cup {Message.of} /\ pc' = pc
    BY <1>5 DEF TakeCancel
  <2>. QED BY <1>1, <2>1, <2>2, <2>3
<1>6. CASE TakeText \/ TakeClose \/ TakeOther \/ TakeExit \/ TakeShutdown
  <2>1. UNCHANGED cancelled /\ pc' # "walk"
    BY <1>6 DEF TakeText, TakeClose, TakeOther, TakeExit, TakeShutdown, Take
  <2>. QED BY <1>1, <2>1
<1>7. CASE ShutdownEnds
  <2>1. UNCHANGED cancelled /\ (pc' = "walk" => duty' = RequestDuty(Shutdown, session))
    BY <1>7 DEF ShutdownEnds
  <2>2. ~ RequestDuty(Shutdown, session).cancelled
    BY DEF RequestDuty, NoDuty
  <2>. QED BY <1>1, <2>1, <2>2
<1>8. ASSUME IngestCancel \/ IngestBarCancel
      PROVE  /\ Head(inbox) \in Messages /\ Head(inbox).kind \in {"cancel", "barCancel"}
             /\ Head(inbox).of \in Requests => Head(inbox).of \in client.withdrawn
  <2>1. inbox # <<>> /\ inbox' = Tail(inbox) /\ UNCHANGED deferred
        /\ Head(inbox).kind \in {"cancel", "barCancel"}
    BY <1>8 DEF IngestCancel, IngestBarCancel
  <2>2. /\ Leaves(Len(deferred) + 1) /\ Waiting[Len(deferred) + 1] = Head(inbox)
        /\ Head(inbox) \in Messages
    BY <2>1, ServerTakes
  <2>. QED BY <2>1, <2>2 DEF WordInv, Leaves
<1>9. CASE IngestCancel
  <2>1. Head(inbox).of \in client.withdrawn
    <3>1. Head(inbox).kind = "cancel"
      BY <1>9 DEF IngestCancel
    <3>. QED BY <1>8, <1>9, <3>1, MessageParts
  <2>2. CASE Head(inbox).of = duty.id
    <3>1. UNCHANGED <<pc, cancelled>> /\ duty' = [duty EXCEPT !.cancelled = TRUE]
      BY <1>9, <2>2 DEF IngestCancel
    <3>2. duty'.id = duty.id
      BY <1>0, <3>1 DEF Duties
    <3>. QED BY <1>1, <2>1, <2>2, <3>1, <3>2
  <2>3. CASE Head(inbox).of # duty.id
    <3>1. UNCHANGED <<pc, duty>> /\ cancelled' = cancelled \cup {Head(inbox).of}
      BY <1>9, <2>3 DEF IngestCancel
    <3>. QED BY <1>1, <2>1, <3>1
  <2>. QED BY <2>2, <2>3
<1>10. CASE IngestBarCancel
  <2>1. /\ UNCHANGED <<pc, cancelled>>
        /\ duty' = [duty EXCEPT !.cancelled = duty.cancelled \/ Head(inbox).of = duty.token]
    BY <1>10 DEF IngestBarCancel
  <2>2. duty'.id = duty.id /\ duty'.cancelled = (duty.cancelled \/ Head(inbox).of = duty.token)
    BY <1>0, <2>1 DEF Duties
  <2>3. Head(inbox).of \in Tokens
    BY <1>8, <1>10, MessageParts DEF IngestBarCancel
  <2>4. ASSUME pc = "walk", Head(inbox).of = duty.token, duty.id \in Requests
        PROVE  duty.id \in client.withdrawn
    <3>1. duty.token # NoToken
      BY <1>0, <2>3, <2>4, LspAssumption DEF Tokens, NoToken
    <3>2. duty.token = duty.id
      BY <2>4, <3>1 DEF DutyInv
    <3>. QED BY <1>8, <1>10, <2>4, <3>2
  <2>. QED BY <1>1, <2>1, <2>2, <2>4
<1>11. CASE IngestCreated \/ IngestOther \/ AskForBar \/ BeginBar
  <2>1. UNCHANGED <<pc, cancelled>> /\ duty'.id = duty.id /\ duty'.cancelled = duty.cancelled
    BY <1>0, <1>11 DEF IngestCreated, IngestOther, AskForBar, BeginBar, Duties
  <2>. QED BY <1>1, <2>1
<1>12. CASE WalkEnds \/ ConfirmBegins \/ ConfirmEnds
  <2>1. UNCHANGED cancelled /\ pc' # "walk"
    BY <1>12 DEF WalkEnds, ConfirmBegins, ConfirmEnds
  <2>. QED BY <1>1, <2>1
<1>13. CASE ConfirmComments
  BY <1>2, <1>13 DEF ConfirmComments
<1>. QED BY <1>3, <1>4, <1>5, <1>6, <1>7, <1>9, <1>10, <1>11, <1>12, <1>13 DEF Next, Server

(***************************************************************************)
(* The invariant, and what follows from it                                 *)
(***************************************************************************)
\* At first nothing is sent, waits, or is shown.
LEMMA Start == Init => LspInv
<1>. SUFFICES ASSUME Init
              PROVE  LspInv
  OBVIOUS
<1>. USE DEF Init
<1>0. /\ Waiting = <<>> /\ Len(Waiting) = 0 /\ Len(uris) = 0
      /\ MaxMessages \in Nat /\ MaxCreates \in Nat
  <2>1. Waiting = <<>>
    BY DEF Waiting
  <2>. QED BY <2>1, EmptySeq, LspAssumption
<1>1. TypeOK
  <2>1. client \in Clients
    BY <1>0 DEF Clients, Marks, NoText
  <2>2. LineType /\ DutyType /\ DocType /\ OutType
    <3>1. <<>> \in Seq(Messages) /\ <<>> \in Seq(Docs)
      OBVIOUS
    <3>2. shown \in [Docs -> Shows]
      BY Nothing DEF Shows
    <3>. QED BY <3>1, <3>2, Nothing DEF LineType, DutyType, DocType, OutType
  <2>. QED BY <2>1, <2>2, TypeParts
<1>2. ListInv /\ DutyInv /\ BarInv
  BY DEF ListInv, DutyInv, BarInv, Busy, NoDuty
<1>3. WordInv /\ EndInv
  BY <1>0 DEF WordInv, EndInv
<1>4. TextInv
  <2>1. \A d \in Docs : session[d] = client.text[d]
    OBVIOUS
  <2>. QED BY <1>0, <2>1 DEF TextInv, Says
<1>5. SeesItsText /\ ShownInv /\ GoneInv
  BY DEF SeesItsText, ShownInv, GoneInv, NoText
<1>6. OnceInv
  BY <1>0 DEF OnceInv, NoneTwice, Waits, InHand
<1>. QED BY <1>1, <1>2, <1>3, <1>4, <1>5, <1>6 DEF LspInv

\* Every step keeps the invariant.
LEMMA Keeps == LspInv /\ [Next]_vars => LspInv'
<1>. SUFFICES ASSUME LspInv, [Next]_vars
              PROVE  LspInv'
  OBVIOUS
<1>0. /\ TypeOK /\ ListInv /\ DutyInv /\ BarInv /\ WordInv /\ EndInv /\ TextInv
      /\ SeesItsText /\ ShownInv /\ OnceInv /\ GoneInv
  BY DEF LspInv
<1>1. TypeOK' /\ ListInv'
  BY <1>0, TypeStep, ListStep
<1>2. DutyInv' /\ BarInv'
  BY <1>0, DutyStep, BarStep
<1>3. WordInv' /\ EndInv'
  BY <1>0, WordStep, EndStep
<1>4. TextInv' /\ SeesItsText'
  BY <1>0, TextStep, SightStep
<1>5. ShownInv' /\ OnceInv' /\ GoneInv'
  BY <1>0, ShownStep, OnceStep, GoneStep
<1>. QED BY <1>1, <1>2, <1>3, <1>4, <1>5 DEF LspInv

\* The invariant holds in every behaviour.
THEOREM Invariant == Spec => []LspInv
BY Start, Keeps, PTL DEF Spec

\* Every variable keeps its type, whatever the client sends and whenever.
THEOREM TypeCorrect == Spec => []TypeOK
<1>1. LspInv => TypeOK
  BY DEF LspInv
<1>. QED BY Invariant, <1>1, PTL

\* A handler reads the documents exactly as they were in the client when it made the
\* request, though messages were deferred before and are while it runs.
THEOREM TextsAsAsked == Spec => []SeesItsText
<1>1. LspInv => SeesItsText
  BY DEF LspInv
<1>. QED BY Invariant, <1>1, PTL

\* Between two handlers no bar is open, however the last one ended, and a bar is on
\* the token of the request or on one that the client agreed to.
THEOREM BarsEnd == Spec => []BarsPaired
<1>1. LspInv => BarsPaired
  <2>. SUFFICES ASSUME LspInv
                PROVE  BarsPaired
    OBVIOUS
  <2>1. ~ Busy => bars = {}
    BY DEF LspInv, DutyInv, BarInv, NoDuty
  <2>2. \A t \in bars : t = duty.token /\ (t \in Requests \/ client.creates[t] = "agreed")
    BY DEF LspInv, BarInv
  <2>. QED BY <2>1, <2>2 DEF BarsPaired
<1>. QED BY Invariant, <1>1, PTL

\* When the server has nothing left to do it has the client's texts, and has checked
\* each open document against them after the last change it depends on.
THEOREM RestIsChecked == Spec => []CheckedAtRest
<1>1. LspInv => CheckedAtRest
  <2>. SUFFICES ASSUME LspInv, AtRest
                PROVE  /\ session = client.text
                       /\ \A d \in Docs :
                             IF session[d] = 0 THEN shown[d].by \in {"none", "empty"}
                             ELSE /\ shown[d].by = "checked"
                                  /\ \A e \in {d} \cup (IF d \in CommentDocs THEN RqDocs ELSE {}) :
                                        shown[d].of[e] = session[e]
    BY DEF CheckedAtRest
  <2>1. Waiting = <<>> /\ Len(Waiting) = 0 /\ Len(uris) = 0 /\ ~ comments
    BY EmptySeq DEF AtRest
  <2>2. \A d \in Docs : session[d] = client.text[d]
    BY <2>1 DEF LspInv, TextInv, Says
  <2>3. session \in [Docs -> Nat] /\ client.text \in [Docs -> 0 .. MaxMessages]
    BY TypeParts DEF LspInv, DocType, Clients
  <2>4. session = client.text
    BY <2>2, <2>3
  <2>5. ASSUME NEW d \in Docs, session[d] # 0
        PROVE  /\ shown[d].by = "checked" /\ shown[d].of[d] = session[d]
               /\ d \in CommentDocs => \A e \in RqDocs : shown[d].of[e] = session[e]
    <3>1. ~ Listed(d)
      BY <2>1 DEF Listed
    <3>. QED BY <2>1, <2>5, <3>1 DEF LspInv, ShownInv
  <2>6. \A d \in Docs : session[d] = 0 => shown[d].by \in {"none", "empty"}
    BY DEF LspInv, ShownInv
  <2>. QED BY <2>4, <2>5, <2>6
<1>. QED BY Invariant, <1>1, PTL

\* Every request that was made is answered, in hand, or waits in the line.
NoneLost == \A r \in client.sent : r \in InHand \/ Waits(Waiting, r) \/ answer[r] # "none"

LEMMA NoneLostStep ==
    ASSUME LspInv, NoneLost, [Next]_vars
    PROVE  NoneLost'
<1>0. /\ answer \in [Requests -> {"none", "ok", "cancelled"}] /\ client.sent \subseteq Requests
      /\ TypeOK /\ DutyInv /\ EndInv /\ OnceInv
  BY TypeParts DEF OutType, Clients, LspInv
<1>1. CASE Quiet
  BY <1>1 DEF Quiet, SameLine, NoneLost
<1>2. ASSUME NEW x \in Requests, Asks(x)
      PROVE  NoneLost'
  BY <1>2 DEF Asks, NoneLost
<1>3. ASSUME NEW x \in Requests, Begins(x)
      PROVE  NoneLost'
  BY <1>3 DEF Begins, HeadGoes, SameClient, NoneLost
<1>4. ASSUME NEW x \in Requests, Refuses(x) \/ Ends(x)
      PROVE  NoneLost'
  <2>1. client'.sent = client.sent /\ answer'[x] # "none"
        /\ \A r \in Requests : r # x => answer'[r] = answer[r]
    BY <1>0, <1>4 DEF Refuses, Ends, SameClient
  <2>2. \A r \in client.sent : r # x /\ (r \in InHand \/ Waits(Waiting, r)) => Waits(Waiting', r)
    BY <1>4 DEF Refuses, Ends, HeadGoes, SameLine
  <2>. QED BY <1>0, <2>1, <2>2 DEF NoneLost
<1>. QED BY <1>0, <1>1, <1>2, <1>3, <1>4, RequestMoves

\* When the server has nothing left to do it has answered every request that was made,
\* though messages were deferred, dropped behind a shutdown, or taken out of their turn
\* (server.rs:75-93, duty.rs:206-240).
THEOREM NothingUnanswered ==
    Spec => [](AtRest => \A r \in client.sent : answer[r] # "none")
<1>1. Init => NoneLost
  BY DEF Init, NoneLost
<1>2. LspInv /\ NoneLost /\ [Next]_vars => NoneLost'
  BY NoneLostStep
<1>3. NoneLost => (AtRest => \A r \in client.sent : answer[r] # "none")
  <2>. SUFFICES ASSUME NoneLost, AtRest, NEW r \in client.sent
                PROVE  answer[r] # "none"
    OBVIOUS
  <2>1. ~ Waits(Waiting, r)
    BY EmptySeq DEF AtRest, Waits
  <2>2. r \notin InHand
    BY DEF AtRest, InHand
  <2>. QED BY <2>1, <2>2 DEF NoneLost
<1>. QED BY Invariant, <1>1, <1>2, <1>3, PTL DEF Spec

\* Once the server has taken note of a cancellation, at whichever moment, it sends no
\* success for that request.
THEOREM CancelledNeverOk == Spec => CancelWins
<1>1. LspInv /\ [Next]_vars =>
          [\A r \in Requests :
              /\ answer[r] = "none"
              /\ r \in cancelled \/ (duty.id = r /\ duty.cancelled)
              => answer'[r] # "ok"]_vars
  <2>. SUFFICES ASSUME LspInv, [Next]_vars, NEW r \in Requests, answer[r] = "none",
                       r \in cancelled \/ (duty.id = r /\ duty.cancelled), answer'[r] = "ok"
                PROVE  FALSE
    OBVIOUS
  <2>0. /\ answer \in [Requests -> {"none", "ok", "cancelled"}]
        /\ TypeOK /\ DutyInv /\ EndInv /\ OnceInv
    BY TypeParts DEF LspInv, OutType
  <2>1. PICK x \in Requests : Ends(x)
    <3>1. ~ Quiet
      BY DEF Quiet
    <3>2. \A x \in Requests : ~ Asks(x) /\ ~ Begins(x)
      BY DEF Asks, Begins
    <3>3. \A x \in Requests : ~ Refuses(x)
      BY <2>0 DEF Refuses
    <3>. QED BY <2>0, <3>1, <3>2, <3>3, RequestMoves
  <2>2. r = x /\ ~ Stopped
    BY <2>0, <2>1 DEF Ends
  <2>3. r = duty.id /\ r \notin cancelled
    BY <2>0, <2>1, <2>2 DEF Ends, DutyInv
  <2>. QED BY <2>2, <2>3 DEF Stopped
<1>. QED BY Invariant, <1>1, PTL DEF Spec, CancelWins

(***************************************************************************)
(* The order of the answers                                                *)
(***************************************************************************)
\* The abstract state, by what waits in the line and who is in hand.
Held(line, hand)   == {r \in Requests : r \in hand \/ Waits(line, r)}
Behind(line, hand) == {p \in Requests \X Requests : \/ p[1] \in hand /\ Waits(line, p[2])
                                                    \/ Ahead(line, p[1], p[2])}

\* The same, by the places of the requests in the line.
HeldAt(line, hand, places)   == hand \cup {line[i].of : i \in places}
BehindAt(line, hand, places) ==
    {<<r, line[i].of>> : r \in hand, i \in places}
    \cup {<<line[p[1]].of, line[p[2]].of>> : p \in {p \in places \X places : p[1] < p[2]}}

\* The places of the requests in a line say the same as the requests.
LEMMA Places ==
    ASSUME NEW line \in Seq(Messages), NEW hand \in SUBSET Requests, NEW places,
           places = {i \in 1 .. Len(line) : line[i].kind = "request"}
    PROVE  HeldAt(line, hand, places) = Held(line, hand)
           /\ BehindAt(line, hand, places) = Behind(line, hand)
<1>1. \A i \in places : line[i].of \in Requests
  <2>. SUFFICES ASSUME NEW i \in places
                PROVE  line[i].of \in Requests
    OBVIOUS
  <2>1. line[i] \in Messages /\ line[i].kind = "request"
    BY ElementOfSeq
  <2>. QED BY <2>1, MessageParts
<1>2. \A r : Waits(line, r) <=> \E i \in places : line[i].of = r
  BY DEF Waits
<1>3. \A q, r : Ahead(line, q, r) <=> \E i, j \in places : i < j /\ line[i].of = q /\ line[j].of = r
  BY DEF Ahead
<1>4. HeldAt(line, hand, places) = Held(line, hand)
  BY <1>1, <1>2 DEF HeldAt, Held
<1>. DEFINE first  == {<<r, line[i].of>> : r \in hand, i \in places}
            later  == {<<line[p[1]].of, line[p[2]].of>> : p \in {p \in places \X places : p[1] < p[2]}}
<1>5. ASSUME NEW x \in first
      PROVE  x \in Behind(line, hand)
  BY <1>1, <1>2 DEF Behind
<1>6. ASSUME NEW x \in later
      PROVE  x \in Behind(line, hand)
  <2>1. PICK i \in places, j \in places : i < j /\ x = <<line[i].of, line[j].of>>
    OBVIOUS
  <2>. QED BY <2>1, <1>1, <1>3 DEF Behind
<1>7. ASSUME NEW x \in Behind(line, hand)
      PROVE  x \in first \/ x \in later
  <2>1. PICK q \in Requests, r \in Requests : x = <<q, r>>
    BY DEF Behind
  <2>2. CASE q \in hand /\ Waits(line, r)
    <3>1. PICK i \in places : line[i].of = r
      BY <1>2, <2>2
    <3>. QED BY <2>1, <2>2, <3>1
  <2>3. CASE Ahead(line, q, r)
    <3>1. PICK i \in places, j \in places : i < j /\ line[i].of = q /\ line[j].of = r
      BY <1>3, <2>3
    <3>2. <<i, j>> \in {p \in places \X places : p[1] < p[2]}
      BY <3>1
    <3>. QED BY <2>1, <3>1, <3>2
  <2>. QED BY <2>1, <2>2, <2>3 DEF Behind
<1>8. BehindAt(line, hand, places) = first \cup later
  BY DEF BehindAt
<1>. HIDE DEF first, later
<1>9. BehindAt(line, hand, places) = Behind(line, hand)
  BY <1>5, <1>6, <1>7, <1>8
<1>. QED BY <1>4, <1>9

\* The abstract state.
LEMMA AbstractState ==
    ASSUME TypeOK
    PROVE  Unanswered = Held(Waiting, InHand) /\ Earlier = Behind(Waiting, InHand)
<1>1. Waiting \in Seq(Messages) /\ InHand \in SUBSET Requests
  BY TypeParts, Line DEF LineType, InHand
<1>2. Pending = {i \in 1 .. Len(Waiting) : Waiting[i].kind = "request"}
  BY DEF Pending
<1>3. /\ HeldAt(Waiting, InHand, Pending) = Held(Waiting, InHand)
      /\ BehindAt(Waiting, InHand, Pending) = Behind(Waiting, InHand)
  BY ONLY <1>1, <1>2, Places
<1>. QED BY <1>3 DEF HeldAt, BehindAt, Unanswered, Earlier

\* The same after a step.
LEMMA AbstractNext ==
    ASSUME TypeOK'
    PROVE  /\ Unanswered' = Held(Waiting', InHand') /\ Earlier' = Behind(Waiting', InHand')
           /\ InHand' \in SUBSET Requests
<1>1. inbox' \in Seq(Messages) /\ deferred' \in Seq(Messages) /\ InHand' \in SUBSET Requests
  BY DEF TypeOK, InHand
<1>2. Waiting' \in Seq(Messages)
  BY <1>1, NextLine
<1>3. Pending' = {i \in 1 .. Len(Waiting') : Waiting'[i].kind = "request"}
  BY DEF Pending
<1>4. /\ HeldAt(Waiting', InHand', Pending') = Held(Waiting', InHand')
      /\ BehindAt(Waiting', InHand', Pending') = Behind(Waiting', InHand')
  BY ONLY <1>1, <1>2, <1>3, Places
<1>. QED BY <1>1, <1>4 DEF HeldAt, BehindAt, Unanswered, Earlier

\* Of two requests, one ahead of the other, both wait.
LEMMA AheadWaits ==
    \A line, q, r : Ahead(line, q, r) => Waits(line, q) /\ Waits(line, r)
BY DEF Ahead, Waits

\* Every step of the loop and of its client asks, withdraws or answers one request as
\* RequestOrder allows, or does none of these.
LEMMA StepInOrder ==
    ASSUME LspInv, LspInv', [Next]_vars
    PROVE  [Order!Next]_(Order!vars)
<1>0. /\ TypeOK /\ DutyInv /\ EndInv /\ OnceInv /\ GoneInv /\ OnceInv'
      /\ answer \in [Requests -> {"none", "ok", "cancelled"}] /\ InHand \subseteq Requests
  BY TypeParts DEF LspInv, OutType, InHand
<1>1. /\ Unanswered = Held(Waiting, InHand) /\ Earlier = Behind(Waiting, InHand)
      /\ Unanswered' = Held(Waiting', InHand') /\ Earlier' = Behind(Waiting', InHand')
  BY AbstractState, AbstractNext DEF LspInv
<1>2. CASE Quiet
  <2>1. Unanswered' = Unanswered /\ Earlier' = Earlier /\ UNCHANGED answer
    BY <1>1, <1>2 DEF Quiet, SameLine, Held, Behind
  <2>2. CASE client'.withdrawn = client.withdrawn
    BY <2>1, <2>2 DEF Order!vars
  <2>3. ASSUME NEW r \in Requests, client'.withdrawn = client.withdrawn \cup {r},
               r \notin client.withdrawn
        PROVE  Order!Next
    BY <2>1, <2>3 DEF Order!Next, Order!Withdraw
  <2>. QED BY <1>2, <2>2, <2>3 DEF Quiet
<1>3. ASSUME NEW x \in Requests, Asks(x)
      PROVE  Order!Next
  <2>1. x \notin Unanswered /\ answer[x] = "none"
    BY <1>0, <1>1, <1>3 DEF Asks, OnceInv, Held
  <2>2. Unanswered' = Unanswered \cup {x}
    BY <1>1, <1>3 DEF Asks, Held
  <2>3. Earlier' = Earlier \cup (Unanswered \X {x})
    BY <1>1, <1>3 DEF Asks, Held, Behind
  <2>. QED BY <1>3, <2>1, <2>2, <2>3 DEF Order!Next, Order!Ask, Asks
<1>4. ASSUME NEW x \in Requests, Begins(x)
      PROVE  UNCHANGED (Order!vars)
  <2>1. Unanswered' = Unanswered /\ Earlier' = Earlier
    BY <1>1, <1>4 DEF Begins, HeadGoes, Held, Behind
  <2>. QED BY <1>4, <2>1 DEF Order!vars, Begins, SameClient
<1>5. ASSUME NEW x \in Requests, x \in Unanswered, \A q \in Unanswered : <<q, x>> \notin Earlier,
             Unanswered' = Unanswered \ {x}, Earlier' = {p \in Earlier : p[1] # x},
             NEW how \in {"ok"} \cup (IF x \in client.withdrawn THEN {"cancelled"} ELSE {}),
             answer' = [answer EXCEPT ![x] = how], client'.withdrawn = client.withdrawn
      PROVE  Order!Next
  BY <1>5 DEF Order!Next, Order!Answer
<1>6. ASSUME NEW x \in Requests, Refuses(x)
      PROVE  Order!Next
  <2>1. x \in Unanswered /\ \A q \in Unanswered : <<q, x>> \notin Earlier
    BY <1>1, <1>6 DEF Refuses, HeadGoes, Held, Behind
  <2>2. Unanswered' = Unanswered \ {x}
    BY <1>1, <1>6 DEF Refuses, HeadGoes, Held
  <2>3. \A r : ~ Ahead(Waiting', x, r)
    BY <1>6, AheadWaits DEF Refuses, HeadGoes
  <2>4. Earlier' = {p \in Earlier : p[1] # x}
    BY <1>1, <1>6, <2>3 DEF Refuses, HeadGoes, Behind
  <2>5. "cancelled" \in IF x \in client.withdrawn THEN {"cancelled"} ELSE {}
    BY <1>0, <1>6 DEF Refuses, GoneInv
  <2>. QED BY <1>5, <1>6, <2>1, <2>2, <2>4, <2>5 DEF Refuses, SameClient
<1>7. ASSUME NEW x \in Requests, Ends(x)
      PROVE  Order!Next
  <2>1. ~ Waits(Waiting, x) /\ InHand = {x} /\ InHand' = {} /\ SameLine
    BY <1>0, <1>7 DEF Ends, OnceInv
  <2>2. \A r : ~ Ahead(Waiting, x, r) /\ ~ Ahead(Waiting, r, x)
    BY <2>1, AheadWaits
  <2>3. x \in Unanswered /\ \A q \in Unanswered : <<q, x>> \notin Earlier
    BY <1>1, <2>1, <2>2 DEF Held, Behind
  <2>4. Unanswered' = Unanswered \ {x}
    BY <1>1, <2>1 DEF SameLine, Held
  <2>5. Earlier' = {p \in Earlier : p[1] # x}
    BY <1>1, <2>1, <2>2 DEF SameLine, Behind
  <2>6. Stopped => x \in client.withdrawn
    BY <1>0, <1>7 DEF Ends, Stopped, DutyInv, GoneInv
  <2>7. (IF Stopped THEN "cancelled" ELSE "ok")
            \in {"ok"} \cup (IF x \in client.withdrawn THEN {"cancelled"} ELSE {})
    BY <2>6
  <2>. QED BY <1>5, <1>7, <2>3, <2>4, <2>5, <2>7 DEF Ends, SameClient
<1>. QED BY <1>0, <1>2, <1>3, <1>4, <1>6, <1>7, RequestMoves

\* Requests are answered one by one, in the order they were made, each once, and with
\* an error only if the client withdrew it: the loop implements RequestOrder.
THEOREM AnsweredInOrder == Spec => AnswersInOrder
<1>1. Init => Order!Init
  <2>. SUFFICES ASSUME Init
                PROVE  Order!Init
    OBVIOUS
  <2>1. LspInv /\ TypeOK
    BY Start DEF LspInv
  <2>2. \A r : ~ Waits(Waiting, r) /\ \A q : ~ Ahead(Waiting, q, r)
    <3>1. Len(Waiting) = 0
      <4>1. Waiting = <<>>
        BY DEF Waiting, Init
      <4>. QED BY <4>1, EmptySeq
    <3>. QED BY <3>1 DEF Waits, Ahead
  <2>3. Unanswered = {} /\ Earlier = {}
    BY <2>1, <2>2, AbstractState DEF Held, Behind, InHand, Init
  <2>. QED BY <2>3 DEF Order!Init, Init
<1>2. LspInv /\ LspInv' /\ [Next]_vars => [Order!Next]_(Order!vars)
  BY StepInOrder
<1>. QED BY Invariant, <1>1, <1>2, PTL DEF Spec, AnswersInOrder, Order!Spec
================================================================================
